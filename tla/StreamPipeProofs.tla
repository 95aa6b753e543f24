-------------------------- MODULE StreamPipeProofs --------------------------
(***************************************************************************)
(* What TLAPS proves of module StreamPipe, for any number of streams and   *)
(* descriptors, any pipe capacity and any entries: as long as no opening   *)
(* is interrupted, a worker writes to its own pipe only, a stream reads    *)
(* its own entry only, an end of data means the whole entry, an alarm      *)
(* means a broken one, and nothing leaks.                                  *)
(***************************************************************************)
EXTENDS StreamPipe, SequenceTheorems, TLAPS

-----------------------------------------------------------------------------
LEMMA InitType == Init => TypeOK
<1> SUFFICES ASSUME Init PROVE TypeOK
  OBVIOUS
<1> USE DescriptorsAssumption, BoundsAssumption, RequestsAssumption DEF Init
<1>1. buf \in [Streams -> Seq(Streams)]
  OBVIOUS
<1>2. /\ fds \in [Descriptors -> Ends \cup {NoFd}]
      /\ rfd \in [Streams -> Descriptors \cup {-1}]
      /\ wfd \in [Streams -> Descriptors \cup {-1}]
      /\ want \in [Streams -> Requests \cup {0}]
      /\ claimed \in [Streams -> BOOLEAN]
  OBVIOUS
<1>3. /\ taken \in [Streams -> Nat] /\ total \in [Streams -> Nat]
      /\ sent \in [Streams -> Nat] /\ length \in [Streams -> Lengths]
  OBVIOUS
<1>4. expected \in [Streams -> Nat]
  <2>1. PICK known \in [Streams -> BOOLEAN] :
          expected = [s \in Streams |-> IF known[s] THEN length[s] ELSE 0]
    OBVIOUS
  <2>2. \A s \in Streams : length[s] \in Nat
    OBVIOUS
  <2> QED
    BY <2>1, <2>2
<1> QED
  BY <1>1, <1>2, <1>3, <1>4 DEF TypeOK

LEMMA StepType == TypeOK /\ [Next]_vars => TypeOK'
<1> SUFFICES ASSUME TypeOK, [Next]_vars PROVE TypeOK'
  OBVIOUS
<1> USE DescriptorsAssumption, BoundsAssumption, RequestsAssumption
<1> USE DEF TypeOK, Goes, Shut, Becomes, entry, reads, opens, onlyWorker
<1>1. ASSUME NEW s \in Streams, CallerStep(s)
      PROVE  TypeOK'
  <2>1. CASE StartWorker(s)
    BY <2>1 DEF StartWorker
  <2>2. CASE Handshake(s)
    BY <2>2 DEF Handshake
  <2>3. CASE CleanUp(s)
    <3>1. fds' \in [Descriptors -> Ends \cup {NoFd}]
      BY <2>3 DEF CleanUp
    <3> QED
      BY <2>3, <3>1 DEF CleanUp
  <2>4. CASE FdOpen(s)
    BY <2>4 DEF FdOpen
  <2>5. CASE Take(s)
    <3>1. buf' \in [Streams -> Seq(Streams)]
      BY <2>5 DEF Take
    <3>2. alien' \subseteq Streams
      BY <2>5 DEF Take
    <3>3. taken' \in [Streams -> Nat]
      <4>1. taken' = [taken EXCEPT ![s] = @ + 1]
        BY <2>5 DEF Take
      <4>2. taken \in [Streams -> Nat]
        OBVIOUS
      <4> HIDE DEF TypeOK
      <4> QED
        BY <4>1, <4>2
    <3>4. UNCHANGED <<fds, caller, worker, sent, entry, want, total, outcome, opens>>
      BY <2>5 DEF Take
    <3> QED
      BY <3>1, <3>2, <3>3, <3>4
  <2>6. CASE ReadEnds(s)
    <3>1. outcome' \in [Streams -> {"none", "data", "end", "corrupt", "bad_fd"}]
      BY <2>6 DEF ReadEnds, Took
    <3>2. total' \in [Streams -> Nat]
      BY <2>6 DEF ReadEnds, Took
    <3> QED
      BY <2>6, <3>1, <3>2 DEF ReadEnds
  <2>7. CASE ReadFails(s)
    BY <2>7 DEF ReadFails
  <2> QED
    BY <1>1, <2>1, <2>2, <2>3, <2>4, <2>5, <2>6, <2>7 DEF CallerStep
<1>2. ASSUME NEW s \in Streams, WorkerStep(s) \/ WorkerStops(s)
      PROVE  TypeOK'
  <2>1. CASE WorkerOpens(s)
    BY <2>1 DEF WorkerOpens
  <2>2. CASE WorkerWrites(s)
    <3>1. buf' \in [Streams -> Seq(Streams)]
      BY <2>2 DEF WorkerWrites
    <3>2. sent' \in [Streams -> Nat]
      BY <2>2 DEF WorkerWrites
    <3>3. UNCHANGED <<onlyWorker, fds, worker>>
      BY <2>2 DEF WorkerWrites
    <3> QED
      BY <3>1, <3>2, <3>3
  <2>3. CASE WorkerWriteFails(s)
    BY <2>3 DEF WorkerWriteFails
  <2>4. CASE WorkerCloses(s)
    <3>1. fds' \in [Descriptors -> Ends \cup {NoFd}]
      BY <2>4 DEF WorkerCloses
    <3> QED
      BY <2>4, <3>1 DEF WorkerCloses
  <2>5. CASE WorkerStops(s)
    BY <2>5 DEF WorkerStops
  <2> QED
    BY <1>2, <2>1, <2>2, <2>3, <2>4, <2>5 DEF WorkerStep
<1>3. ASSUME NEW s \in Streams, FreeStep(s)
      PROVE  TypeOK'
  <2>1. CASE MakePipe(s)
    <3>1. fds' \in [Descriptors -> Ends \cup {NoFd}]
      <4>1. PICK r, w \in Free :
              fds' = [fds EXCEPT ![r] = <<s, "r">>, ![w] = <<s, "w">>]
        BY <2>1 DEF MakePipe
      <4>2. <<s, "r">> \in Ends /\ <<s, "w">> \in Ends
        BY DEF Ends
      <4> QED
        BY <4>1, <4>2
    <3>2. /\ rfd' \in [Streams -> Descriptors \cup {-1}]
          /\ wfd' \in [Streams -> Descriptors \cup {-1}]
      BY <2>1 DEF MakePipe, Free
    <3>3. /\ caller' = [caller EXCEPT ![s] = "piped"]
          /\ claimed' = [claimed EXCEPT ![s] = TRUE]
          /\ UNCHANGED <<buf, worker, sent, entry, reads, interrupted>>
      BY <2>1 DEF MakePipe
    <3> QED
      BY <3>1, <3>2, <3>3
  <2>2. CASE PipeFails(s)
    BY <2>2 DEF PipeFails
  <2>3. CASE CloseStream(s)
    <3>1. fds' \in [Descriptors -> Ends \cup {NoFd}]
      BY <2>3 DEF CloseStream
    <3> QED
      BY <2>3, <3>1 DEF CloseStream
  <2>4. CASE Interrupt(s)
    BY <2>4 DEF Interrupt
  <2>5. ASSUME NEW n \in Requests, BeginRead(s, n)
        PROVE  TypeOK'
    BY <2>5 DEF BeginRead
  <2> QED
    BY <1>3, <2>1, <2>2, <2>3, <2>4, <2>5 DEF FreeStep
<1>4. CASE UNCHANGED vars
  BY <1>4 DEF vars
<1> QED
  BY <1>1, <1>2, <1>3, <1>4 DEF Next

-----------------------------------------------------------------------------
Good(s) == EndsInPlace(s) /\ NoOtherEnds(s) /\ InStep(s) /\ Tally(s)

(* A step of another stream that leaves the two ends of t's pipe where     *)
(* they are, and everything else of t alone.                               *)
Elsewhere(t) ==
  /\ caller'[t] = caller[t] /\ worker'[t] = worker[t]
  /\ rfd'[t] = rfd[t] /\ wfd'[t] = wfd[t] /\ claimed'[t] = claimed[t]
  /\ want'[t] = want[t] /\ taken'[t] = taken[t] /\ total'[t] = total[t]
  /\ outcome'[t] = outcome[t] /\ sent'[t] = sent[t] /\ buf'[t] = buf[t]
  /\ length'[t] = length[t] /\ expected'[t] = expected[t]

SameEnds(t) == \A n \in Descriptors :
  /\ fds'[n] = <<t, "r">> <=> fds[n] = <<t, "r">>
  /\ fds'[n] = <<t, "w">> <=> fds[n] = <<t, "w">>

LEMMA Frame ==
  ASSUME NEW t \in Streams, Good(t), Elsewhere(t), SameEnds(t)
  PROVE  Good(t)'
<1>1. EndsInPlace(t)'
  BY DEF Good, EndsInPlace, CallerHasReadEnd, CallerHasWriteEnd, WorkerHasWriteEnd,
         Elsewhere, SameEnds
<1>2. NoOtherEnds(t)'
  BY DEF Good, NoOtherEnds, CallerHasReadEnd, CallerHasWriteEnd, WorkerHasWriteEnd,
         Elsewhere, SameEnds
<1>3. InStep(t)'
  BY DEF Good, InStep, Elsewhere
<1>4. Tally(t)'
  BY DEF Good, Tally, Elsewhere
<1> QED
  BY <1>1, <1>2, <1>3, <1>4 DEF Good

(* Closing a descriptor of stream s disturbs no other stream.              *)
LEMMA ShutElsewhere ==
  ASSUME TypeOK, NEW s \in Streams, NEW t \in Streams, t # s,
         NEW n \in Descriptors, fds[n] \in {<<s, "r">>, <<s, "w">>}, Shut(n)
  PROVE  SameEnds(t)
<1>1. \A a, b : <<s, a>> # <<t, b>>
  OBVIOUS
<1>2. NoFd # <<t, "r">> /\ NoFd # <<t, "w">>
  BY DescriptorsAssumption
<1>3. ASSUME NEW m \in Descriptors
      PROVE  /\ fds'[m] = <<t, "r">> <=> fds[m] = <<t, "r">>
             /\ fds'[m] = <<t, "w">> <=> fds[m] = <<t, "w">>
  <2>1. fds'[m] = IF m = n THEN NoFd ELSE fds[m]
    BY DEF Shut, TypeOK
  <2>2. fds[n] # <<t, "r">> /\ fds[n] # <<t, "w">>
    BY <1>1
  <2> QED
    BY <1>2, <2>1, <2>2
<1> QED
  BY <1>3 DEF SameEnds

-----------------------------------------------------------------------------
(* What stays to be shown of a step of stream s.                           *)
Keeps(s) == alien' = {} /\ \A t \in Streams : Good(t)'

(* The steps that touch neither the descriptors nor what was read.         *)
LEMMA OpeningSteps ==
  ASSUME TypeOK, alien = {}, \A t \in Streams : Good(t), NEW s \in Streams,
         \/ StartWorker(s) \/ Handshake(s) \/ FdOpen(s) \/ PipeFails(s)
         \/ WorkerOpens(s) \/ WorkerStops(s) \/ WorkerWriteFails(s)
         \/ ReadFails(s)
  PROVE  Keeps(s)
<1> USE DEF Goes, Becomes, onlyWorker, entry, reads, opens
<1>1. UNCHANGED <<fds, buf, sent, length, expected, rfd, wfd, claimed, alien, want, total>>
  BY DEF StartWorker, Handshake, FdOpen, PipeFails, WorkerOpens, WorkerStops,
         WorkerWriteFails, ReadFails
<1>2. ASSUME NEW t \in Streams, t # s
      PROVE  Good(t)'
  <2>1. Elsewhere(t)
    BY <1>1, <1>2 DEF Elsewhere, TypeOK, StartWorker, Handshake, FdOpen, PipeFails,
       WorkerOpens, WorkerStops, WorkerWriteFails, ReadFails
  <2>2. SameEnds(t)
    BY <1>1 DEF SameEnds
  <2> QED
    BY <2>1, <2>2, Frame
<1>3. ~ReadFails(s)
  BY DEF Good, EndsInPlace, CallerHasReadEnd, ReadFails
<1>4. UNCHANGED <<taken, outcome>>
  BY <1>3 DEF StartWorker, Handshake, FdOpen, PipeFails, WorkerOpens, WorkerStops,
     WorkerWriteFails
<1>5. InStep(s)'
  BY <1>1, <1>3 DEF Good, InStep, TypeOK, StartWorker, Handshake, FdOpen, PipeFails,
     WorkerOpens, WorkerStops, WorkerWriteFails
<1>6. /\ CallerHasReadEnd(s)' <=> CallerHasReadEnd(s)
      /\ CallerHasWriteEnd(s)' \/ WorkerHasWriteEnd(s)'
           <=> CallerHasWriteEnd(s) \/ WorkerHasWriteEnd(s)
  BY <1>3 DEF Good, InStep, TypeOK, CallerHasReadEnd, CallerHasWriteEnd,
     WorkerHasWriteEnd, StartWorker, Handshake, FdOpen, PipeFails, WorkerOpens,
     WorkerStops, WorkerWriteFails
<1>7. EndsInPlace(s)' /\ NoOtherEnds(s)'
  BY <1>1, <1>6 DEF Good, EndsInPlace, NoOtherEnds
<1>8. Tally(s)'
  BY <1>1, <1>3, <1>4 DEF Good, Tally, InStep, TypeOK, StartWorker, Handshake, FdOpen,
     PipeFails, WorkerOpens, WorkerStops, WorkerWriteFails
<1> QED
  BY <1>1, <1>2, <1>5, <1>7, <1>8 DEF Keeps, Good

(* A step that leaves the data alone keeps the tally.                      *)
LEMMA TallyKept ==
  ASSUME NEW s \in Streams, Tally(s),
         UNCHANGED <<buf, taken, total, sent, length, expected, outcome, want>>,
         caller[s] # "reading" \/ caller'[s] = caller[s],
         worker'[s] \in {worker[s], "ended"}
  PROVE  Tally(s)'
  BY DEF Tally

(* Closing an end that its owner gives up.                                 *)
LEMMA ClosingSteps ==
  ASSUME TypeOK, alien = {}, \A t \in Streams : Good(t), NEW s \in Streams,
         CleanUp(s) \/ CloseStream(s) \/ WorkerCloses(s)
  PROVE  Keeps(s)
<1> USE DEF Goes, Becomes, onlyWorker, entry, reads, opens
<1>1. UNCHANGED <<buf, sent, length, expected, rfd, wfd, alien, want, total, taken,
                  outcome, interrupted>>
  BY DEF CleanUp, CloseStream, WorkerCloses
<1>2. Good(s) /\ NoFd \notin {<<s, "r">>, <<s, "w">>}
  BY DescriptorsAssumption
<1>3. CASE CloseStream(s) \/ (CleanUp(s) /\ caller[s] = "failing")
  <2>1. rfd[s] \in Descriptors /\ fds[rfd[s]] = <<s, "r">> /\ CallerHasReadEnd(s)
    BY <1>2, <1>3 DEF Good, EndsInPlace, CallerHasReadEnd, CloseStream
  <2>2. Shut(rfd[s]) /\ UNCHANGED worker
    BY <1>2, <1>3, <2>1 DEF CloseStream, CleanUp
  <2>3. fds' = [m \in Descriptors |-> IF m = rfd[s] THEN NoFd ELSE fds[m]]
    BY <2>1, <2>2 DEF Shut, TypeOK
  <2>4. /\ caller' = [caller EXCEPT ![s] = IF CloseStream(s) THEN "closed" ELSE "half_shut"]
        /\ claimed' = IF CloseStream(s) THEN [claimed EXCEPT ![s] = FALSE] ELSE claimed
    BY <1>2, <1>3, <2>1 DEF CloseStream, CleanUp
  <2>5. InStep(s)'
    BY <1>2, <1>3, <2>2, <2>4 DEF Good, InStep, TypeOK, CloseStream
  <2>6. EndsInPlace(s)'
    <3>1. ~CallerHasReadEnd(s)'
      BY <2>4 DEF CallerHasReadEnd, TypeOK
    <3>2. CallerHasWriteEnd(s)' \/ WorkerHasWriteEnd(s)' =>
            CallerHasWriteEnd(s) \/ WorkerHasWriteEnd(s)
      BY <1>3, <2>2, <2>4 DEF CallerHasWriteEnd, WorkerHasWriteEnd, TypeOK
    <3>3. wfd[s] \in Descriptors /\ fds[wfd[s]] = <<s, "w">> => fds'[wfd[s]] = <<s, "w">>
      BY <2>1, <2>3
    <3> QED
      BY <1>1, <1>2, <3>1, <3>2, <3>3 DEF Good, EndsInPlace
  <2>7. NoOtherEnds(s)'
    <3>1. CallerHasWriteEnd(s) \/ WorkerHasWriteEnd(s) =>
            CallerHasWriteEnd(s)' \/ WorkerHasWriteEnd(s)'
      BY <1>2, <1>3, <2>2, <2>4
         DEF CallerHasWriteEnd, WorkerHasWriteEnd, TypeOK, Good, InStep, CloseStream
    <3>2. ASSUME NEW m \in Descriptors
          PROVE  /\ fds'[m] # <<s, "r">>
                 /\ fds'[m] = <<s, "w">> => fds[m] = <<s, "w">>
      BY <1>2, <2>3 DEF Good, NoOtherEnds
    <3> QED
      BY <1>1, <1>2, <3>1, <3>2 DEF Good, NoOtherEnds
  <2>8. Tally(s)'
    <3>1. caller[s] # "reading" /\ worker'[s] = worker[s]
      BY <1>3, <2>2 DEF CloseStream
    <3> QED
      BY <1>1, <1>2, <3>1, TallyKept DEF Good
  <2>9. ASSUME NEW t \in Streams, t # s
        PROVE  Good(t)'
    <3>1. Elsewhere(t)
      BY <1>1, <2>2, <2>4, <2>9 DEF Elsewhere, TypeOK
    <3>2. SameEnds(t)
      BY <2>1, <2>2, <2>9, ShutElsewhere
    <3> QED
      BY <3>1, <3>2, Frame
  <2> QED
    BY <1>1, <2>5, <2>6, <2>7, <2>8, <2>9 DEF Keeps, Good
<1>4. CASE (CleanUp(s) /\ caller[s] = "half_shut") \/ WorkerCloses(s)
  <2>1. wfd[s] \in Descriptors /\ fds[wfd[s]] = <<s, "w">>
    BY <1>2, <1>4 DEF Good, EndsInPlace, InStep, CallerHasWriteEnd, WorkerHasWriteEnd,
       WorkerCloses
  <2>2. Shut(wfd[s])
    BY <1>2, <1>4, <2>1 DEF WorkerCloses, CleanUp
  <2>3. fds' = [m \in Descriptors |-> IF m = wfd[s] THEN NoFd ELSE fds[m]]
    BY <2>1, <2>2 DEF Shut, TypeOK
  <2>4. \/ /\ WorkerCloses(s) /\ worker[s] = "finishing"
           /\ worker' = [worker EXCEPT ![s] = "ended"] /\ UNCHANGED <<caller, claimed>>
        \/ /\ caller[s] = "half_shut" /\ caller' = [caller EXCEPT ![s] = "raised"]
           /\ claimed' = [claimed EXCEPT ![s] = FALSE] /\ UNCHANGED worker
    BY <1>2, <1>4, <2>1 DEF WorkerCloses, CleanUp
  <2>5. InStep(s)'
    BY <1>2, <2>4 DEF Good, InStep, TypeOK
  <2>6. CallerHasReadEnd(s)' <=> CallerHasReadEnd(s)
    BY <2>4 DEF CallerHasReadEnd, TypeOK
  <2>7. ~CallerHasWriteEnd(s)' /\ ~WorkerHasWriteEnd(s)'
    BY <1>2, <2>4 DEF CallerHasWriteEnd, WorkerHasWriteEnd, TypeOK, Good, InStep
  <2>8. ASSUME NEW m \in Descriptors
        PROVE  /\ fds'[m] = <<s, "r">> <=> fds[m] = <<s, "r">>
               /\ fds'[m] # <<s, "w">>
    <3>1. fds'[m] = IF m = wfd[s] THEN NoFd ELSE fds[m]
      BY <2>3
    <3>2. fds[m] = <<s, "w">> => m = wfd[s]
      BY <1>2 DEF Good, NoOtherEnds
    <3>3. <<s, "w">> # <<s, "r">>
      OBVIOUS
    <3> QED
      BY <1>2, <2>1, <3>1, <3>2, <3>3
  <2>9. EndsInPlace(s)' /\ NoOtherEnds(s)'
    <3>1. rfd'[s] = rfd[s]
      BY <1>1
    <3>2. EndsInPlace(s)'
      BY <1>2, <2>6, <2>7, <2>8, <3>1 DEF Good, EndsInPlace
    <3>3. NoOtherEnds(s)'
      BY <1>2, <2>6, <2>8, <3>1 DEF Good, NoOtherEnds
    <3> QED
      BY <3>2, <3>3
  <2>10. Tally(s)'
    <3>1. /\ caller[s] # "reading" \/ caller'[s] = caller[s]
          /\ worker'[s] \in {worker[s], "ended"}
      BY <2>4 DEF TypeOK
    <3> QED
      BY <1>1, <1>2, <3>1, TallyKept DEF Good
  <2>11. ASSUME NEW t \in Streams, t # s
         PROVE  Good(t)'
    <3>1. Elsewhere(t)
      BY <1>1, <2>4, <2>11 DEF Elsewhere, TypeOK
    <3>2. SameEnds(t)
      BY <2>1, <2>2, <2>11, ShutElsewhere
    <3> QED
      BY <3>1, <3>2, Frame
  <2> QED
    BY <1>1, <2>5, <2>9, <2>10, <2>11 DEF Keeps, Good
<1> QED
  BY <1>3, <1>4 DEF CleanUp


LEMMA MakingAPipe ==
  ASSUME TypeOK, alien = {}, \A t \in Streams : Good(t), NEW s \in Streams,
         MakePipe(s)
  PROVE  Keeps(s)
<1> USE DEF Goes, entry, reads
<1>1. PICK r \in Free, w \in Free :
        /\ r < w
        /\ fds' = [fds EXCEPT ![r] = <<s, "r">>, ![w] = <<s, "w">>]
        /\ rfd' = [rfd EXCEPT ![s] = r] /\ wfd' = [wfd EXCEPT ![s] = w]
  BY DEF MakePipe
<1>2. r \in Descriptors /\ w \in Descriptors /\ r # w /\ fds[r] = NoFd /\ fds[w] = NoFd
  BY <1>1, DescriptorsAssumption DEF Free
<1>3. ASSUME NEW m \in Descriptors
      PROVE  fds'[m] = IF m = w THEN <<s, "w">> ELSE IF m = r THEN <<s, "r">> ELSE fds[m]
  BY <1>1, <1>2 DEF TypeOK
<1>4. /\ caller[s] = "new" /\ caller' = [caller EXCEPT ![s] = "piped"]
      /\ claimed' = [claimed EXCEPT ![s] = TRUE]
      /\ UNCHANGED <<buf, worker, sent, length, expected, want, taken, total, outcome, alien>>
  BY DEF MakePipe
<1>5. Good(s)
  OBVIOUS
<1>6. InStep(s)'
  BY <1>4, <1>5 DEF Good, InStep, TypeOK
<1>7. caller'[s] = "piped" /\ worker'[s] = "none" /\ rfd'[s] = r /\ wfd'[s] = w
  BY <1>1, <1>4, <1>5 DEF Good, InStep, TypeOK
<1>8. EndsInPlace(s)'
  BY <1>2, <1>3, <1>7 DEF EndsInPlace
<1>9. NoOtherEnds(s)'
  <2>1. \A m \in Descriptors : fds[m] # <<s, "r">> /\ fds[m] # <<s, "w">>
    BY <1>4, <1>5 DEF Good, NoOtherEnds, InStep, CallerHasReadEnd, CallerHasWriteEnd,
       WorkerHasWriteEnd
  <2>2. CallerHasReadEnd(s)' /\ CallerHasWriteEnd(s)'
    BY <1>7 DEF CallerHasReadEnd, CallerHasWriteEnd
  <2> QED
    BY <1>3, <1>7, <2>1, <2>2 DEF NoOtherEnds
<1>10. Tally(s)'
  BY <1>4, <1>5, <1>7 DEF Good, Tally
<1>11. ASSUME NEW t \in Streams, t # s
       PROVE  Good(t)'
  <2>1. Elsewhere(t)
    BY <1>1, <1>4, <1>11 DEF Elsewhere, TypeOK
  <2>2. \A a, b : <<s, a>> # <<t, b>>
    BY <1>11
  <2>3. NoFd # <<t, "r">> /\ NoFd # <<t, "w">>
    BY DescriptorsAssumption
  <2>4. SameEnds(t)
    BY <1>2, <1>3, <2>2, <2>3 DEF SameEnds
  <2> QED
    BY <2>1, <2>4, Frame
<1> QED
  BY <1>4, <1>6, <1>8, <1>9, <1>10, <1>11 DEF Keeps, Good

(* Reading and writing move units between the entry, the pipe and the      *)
(* tally, and leave the descriptors alone.                                 *)
LEMMA MovingSteps ==
  ASSUME TypeOK, alien = {}, \A t \in Streams : Good(t), NEW s \in Streams,
         \/ Take(s) \/ ReadEnds(s) \/ WorkerWrites(s)
         \/ \E n \in Requests : BeginRead(s, n)
  PROVE  Keeps(s)
<1> USE DEF Goes, onlyWorker, entry, reads, opens
<1>1. UNCHANGED <<fds, worker, length, expected, rfd, wfd, claimed>>
  BY DEF Take, ReadEnds, WorkerWrites, BeginRead
<1>2. Good(s)
  OBVIOUS
<1>3. /\ \A p \in Streams : fds[rfd[s]] = <<p, "r">> /\ caller[s] = "reading" => p = s
      /\ \A p \in Streams : fds[wfd[s]] = <<p, "w">> /\ worker[s] = "writing" => p = s
  BY <1>2 DEF Good, EndsInPlace, CallerHasReadEnd, WorkerHasWriteEnd
<1>4. /\ caller[s] \in {"open", "reading"} /\ caller'[s] \in {"open", "reading"}
      \/ caller' = caller
  BY DEF Take, ReadEnds, WorkerWrites, BeginRead, TypeOK
<1>5. EndsInPlace(s)' /\ NoOtherEnds(s)' /\ InStep(s)'
  <2>1. /\ CallerHasReadEnd(s)' <=> CallerHasReadEnd(s)
        /\ CallerHasWriteEnd(s)' <=> CallerHasWriteEnd(s)
        /\ WorkerHasWriteEnd(s)' <=> WorkerHasWriteEnd(s)
    BY <1>1, <1>4 DEF CallerHasReadEnd, CallerHasWriteEnd, WorkerHasWriteEnd
  <2>2. InStep(s)'
    BY <1>1, <1>2, <1>4 DEF Good, InStep
  <2>3. EndsInPlace(s)' /\ NoOtherEnds(s)'
    BY <1>1, <1>2, <2>1 DEF Good, EndsInPlace, NoOtherEnds
  <2> QED
    BY <2>2, <2>3
<1>6. /\ buf[s] \in Seq(Streams) /\ taken[s] \in Nat /\ total[s] \in Nat /\ sent[s] \in Nat
      /\ length[s] \in Nat /\ expected[s] \in Nat /\ want[s] \in Int
  <2>1. length \in [Streams -> Lengths] /\ want \in [Streams -> Requests \cup {0}]
    BY DEF TypeOK
  <2>2. /\ buf \in [Streams -> Seq(Streams)] /\ taken \in [Streams -> Nat]
        /\ total \in [Streams -> Nat] /\ sent \in [Streams -> Nat]
        /\ expected \in [Streams -> Nat]
    BY DEF TypeOK
  <2>3. length[s] \in Nat /\ want[s] \in Int
    <3>1. length[s] \in Lengths /\ want[s] \in Requests \cup {0}
      BY <2>1
    <3>2. length[s] \in Nat
      BY <3>1, BoundsAssumption
    <3>3. want[s] \in Int
      <4>1. CASE want[s] \in Requests
        BY <4>1, RequestsAssumption
      <4>2. CASE want[s] = 0
        BY <4>2
      <4> QED
        BY <3>1, <4>1, <4>2
    <3> QED
      BY <3>2, <3>3
  <2>4. /\ buf[s] \in Seq(Streams) /\ taken[s] \in Nat /\ total[s] \in Nat
        /\ sent[s] \in Nat /\ expected[s] \in Nat
    BY <2>2
  <2> QED
    BY <2>3, <2>4
<1>7. CASE Take(s)
  <2>1. /\ fds[rfd[s]] = <<s, "r">> /\ buf[s] # <<>>
        /\ buf' = [buf EXCEPT ![s] = Tail(@)]
        /\ alien' = IF Head(buf[s]) = s THEN alien ELSE alien \cup {s}
    BY <1>3, <1>7 DEF Take
  <2>2. /\ taken' = [taken EXCEPT ![s] = @ + 1] /\ caller[s] = "reading"
        /\ UNCHANGED <<caller, sent, want, total, outcome>>
    BY <1>7 DEF Take
  <2>3. /\ Len(buf[s]) \in Nat \ {0} /\ Head(buf[s]) = buf[s][1]
        /\ Len(buf'[s]) = Len(buf[s]) - 1
        /\ \A i \in 1 .. Len(buf[s]) - 1 : buf'[s][i] = buf[s][i + 1]
    BY <1>6, <2>1 DEF TypeOK
  <2>4. alien' = {}
    BY <1>2, <2>1, <2>3 DEF Good, Tally
  <2>5. Tally(s)'
    <3>1. \A i \in 1 .. Len(buf'[s]) : buf'[s][i] = s
      BY <1>2, <2>3 DEF Good, Tally
    <3>2. taken'[s] = taken[s] + 1
      BY <2>2 DEF TypeOK
    <3>3. total'[s] + taken'[s] + Len(buf'[s]) = sent'[s]
      <4>1. total[s] + taken[s] + Len(buf[s]) = sent[s]
        BY <1>2 DEF Good, Tally
      <4>2. total'[s] = total[s] /\ sent'[s] = sent[s]
        BY <2>2
      <4> QED
        BY <1>6, <2>3, <3>2, <4>1, <4>2
    <3> QED
      BY <1>1, <1>2, <2>2, <3>1, <3>3 DEF Good, Tally
  <2>6. \A t \in Streams : t # s => Elsewhere(t)
    BY <1>1, <2>1, <2>2 DEF Elsewhere, TypeOK
  <2>7. \A t \in Streams : t # s => Good(t)'
    BY <1>1, <2>6, Frame DEF SameEnds
  <2> QED
    BY <1>5, <2>4, <2>5, <2>7 DEF Keeps, Good
<1>8. CASE ReadEnds(s)
  <2>1. /\ caller[s] = "reading" /\ caller' = [caller EXCEPT ![s] = "open"]
        /\ taken' = [taken EXCEPT ![s] = 0]
        /\ UNCHANGED <<buf, sent, want, alien>>
        /\ total' = [total EXCEPT ![s] = @ + taken[s]]
    BY <1>8 DEF ReadEnds, Took
  <2>2. /\ caller'[s] = "open" /\ taken'[s] = 0 /\ total'[s] = total[s] + taken[s]
        /\ buf'[s] = buf[s] /\ sent'[s] = sent[s] /\ want'[s] = want[s]
    BY <2>1 DEF TypeOK
  <2>3. outcome'[s] = IF ~Exhausted(want[s], taken[s]) THEN "data"
                      ELSE IF expected[s] > 0 /\ total'[s] < expected[s]
                           THEN "corrupt" ELSE "end"
    BY <1>8 DEF ReadEnds, Took, TypeOK
  <2>4. Len(buf[s]) \in Nat
    BY <1>6
  <2>5. total'[s] + Len(buf[s]) = sent[s] /\ sent[s] =< length[s]
        /\ expected[s] \in {0, length[s]}
    BY <1>2, <1>6, <2>2, <2>4 DEF Good, Tally
  <2>6. outcome'[s] = "end" /\ expected[s] > 0 => total'[s] = length[s]
    <3>1. outcome'[s] = "end" /\ expected[s] > 0 => ~(total'[s] < expected[s])
      BY <2>3
    <3>2. total'[s] \in Nat
      BY <1>6, <2>2
    <3> QED
      BY <1>6, <2>4, <2>5, <3>1, <3>2
  <2>7. ASSUME outcome'[s] = "corrupt", want[s] # 0
        PROVE  worker[s] = "ended" /\ sent[s] < length[s]
    <3>1. Exhausted(want[s], taken[s]) /\ expected[s] > 0 /\ total'[s] < expected[s]
      BY <2>3, <2>7
    <3>2. WantsMore(s)
      BY <1>6, <2>7, <3>1 DEF Exhausted, WantsMore
    <3>3. buf[s] = <<>> /\ ~HasWriter(s)
      BY <1>3, <1>8, <2>1, <3>2 DEF ReadEnds, DataEnds
    <3>4. ~WorkerHasWriteEnd(s)
      BY <1>2, <3>3 DEF Good, EndsInPlace, HasWriter
    <3>5. worker[s] = "ended"
      BY <1>2, <2>1, <3>4 DEF Good, InStep, WorkerHasWriteEnd
    <3>6. Len(buf[s]) = 0
      BY <3>3
    <3> QED
      BY <1>6, <2>2, <2>5, <3>1, <3>5, <3>6
  <2>8. Tally(s)'
    <3>1. \A i \in 1 .. Len(buf'[s]) : buf'[s][i] = s
      BY <1>2, <2>2 DEF Good, Tally
    <3> QED
      BY <1>1, <1>6, <2>2, <2>5, <2>6, <2>7, <3>1 DEF Tally
  <2>9. \A t \in Streams : t # s => Elsewhere(t)
    BY <1>1, <1>8, <2>1 DEF Elsewhere, TypeOK, ReadEnds, Took
  <2>10. \A t \in Streams : t # s => Good(t)'
    BY <1>1, <2>9, Frame DEF SameEnds
  <2> QED
    BY <1>5, <2>1, <2>8, <2>10 DEF Keeps, Good
<1>9. CASE WorkerWrites(s)
  <2>1. /\ worker[s] = "writing" /\ sent[s] < length[s]
        /\ buf' = [buf EXCEPT ![s] = Append(@, s)]
        /\ sent' = [sent EXCEPT ![s] = @ + 1]
        /\ UNCHANGED <<caller, want, taken, total, outcome, alien>>
    BY <1>3, <1>9 DEF WorkerWrites
  <2>2. /\ Len(buf'[s]) = Len(buf[s]) + 1 /\ Len(buf[s]) \in Nat
        /\ \A i \in 1 .. Len(buf[s]) : buf'[s][i] = buf[s][i]
        /\ buf'[s][Len(buf[s]) + 1] = s
    BY <1>6, <2>1 DEF TypeOK
  <2>3. sent'[s] = sent[s] + 1
    BY <2>1 DEF TypeOK
  <2>4. \A i \in 1 .. Len(buf'[s]) : buf'[s][i] = s
    BY <1>2, <2>2 DEF Good, Tally
  <2>5. Tally(s)'
    <3>1. /\ total[s] + taken[s] + Len(buf[s]) = sent[s]
          /\ caller[s] # "reading" => taken[s] = 0
          /\ expected[s] \in {0, length[s]}
          /\ outcome[s] = "end" /\ expected[s] > 0 => total[s] = length[s]
          /\ ~(outcome[s] = "corrupt" /\ want[s] # 0)
      BY <1>2, <2>1 DEF Good, Tally
    <3>2. /\ total'[s] = total[s] /\ taken'[s] = taken[s] /\ caller'[s] = caller[s]
          /\ outcome'[s] = outcome[s] /\ want'[s] = want[s]
          /\ expected'[s] = expected[s] /\ length'[s] = length[s]
      BY <1>1, <2>1
    <3>3. total'[s] + taken'[s] + Len(buf'[s]) = sent'[s] /\ sent'[s] =< length'[s]
      <4> DEFINE pending == Len(buf[s])
      <4>1. sent[s] < length[s]
        BY <2>1
      <4>2. /\ total[s] \in Nat /\ taken[s] \in Nat /\ sent[s] \in Nat /\ length[s] \in Nat
            /\ pending \in Nat
        BY <1>6, <2>2
      <4>3. total[s] + taken[s] + pending = sent[s]
        BY <3>1
      <4>4. total'[s] = total[s] /\ taken'[s] = taken[s] /\ length'[s] = length[s]
            /\ Len(buf'[s]) = pending + 1
        BY <2>2, <3>2
      <4> HIDE DEF pending
      <4>5. total[s] + taken[s] + (pending + 1) = sent[s] + 1
        BY <4>2, <4>3
      <4>6. total'[s] + taken'[s] + Len(buf'[s]) = sent'[s]
        BY <2>3, <4>4, <4>5, Zenon
      <4>7. sent'[s] =< length'[s]
        BY <2>3, <4>1, <4>2, <4>4
      <4> QED
        BY <4>6, <4>7
    <3> QED
      BY <2>4, <3>1, <3>2, <3>3 DEF Tally
  <2>6. \A t \in Streams : t # s => Elsewhere(t)
    BY <1>1, <2>1 DEF Elsewhere, TypeOK
  <2>7. \A t \in Streams : t # s => Good(t)'
    BY <1>1, <2>6, Frame DEF SameEnds
  <2> QED
    BY <1>5, <2>1, <2>5, <2>7 DEF Keeps, Good
<1>10. ASSUME NEW n \in Requests, BeginRead(s, n)
       PROVE  Keeps(s)
  <2>1. /\ caller[s] = "open" /\ caller' = [caller EXCEPT ![s] = "reading"]
        /\ want' = [want EXCEPT ![s] = n]
        /\ outcome' = [outcome EXCEPT ![s] = "none"]
        /\ UNCHANGED <<buf, sent, taken, total, alien>>
    BY <1>10 DEF BeginRead
  <2>2. outcome'[s] = "none" /\ caller'[s] = "reading"
    BY <2>1 DEF TypeOK
  <2>3. Tally(s)'
    BY <1>1, <1>2, <2>1, <2>2 DEF Good, Tally
  <2>4. \A t \in Streams : t # s => Elsewhere(t)
    BY <1>1, <2>1 DEF Elsewhere, TypeOK
  <2>5. \A t \in Streams : t # s => Good(t)'
    BY <1>1, <2>4, Frame DEF SameEnds
  <2> QED
    BY <1>5, <2>1, <2>3, <2>5 DEF Keeps, Good
<1> QED
  BY <1>7, <1>8, <1>9, <1>10

-----------------------------------------------------------------------------
LEMMA PipeInvStarts == Init => PipeInv
<1> SUFFICES ASSUME Init PROVE PipeInv
  OBVIOUS
<1>1. TypeOK
  BY InitType
<1>2. ASSUME NEW s \in Streams
      PROVE  EndsInPlace(s) /\ NoOtherEnds(s) /\ InStep(s) /\ Tally(s)
  <2>1. caller[s] = "new" /\ worker[s] = "none" /\ ~claimed[s]
    BY DEF Init
  <2>2. \A n \in Descriptors : fds[n] # <<s, "r">> /\ fds[n] # <<s, "w">>
    BY DescriptorsAssumption DEF Init
  <2>3. EndsInPlace(s) /\ NoOtherEnds(s) /\ InStep(s)
    BY <2>1, <2>2 DEF EndsInPlace, NoOtherEnds, InStep, CallerHasReadEnd,
       CallerHasWriteEnd, WorkerHasWriteEnd
  <2>4. /\ buf[s] = <<>> /\ taken[s] = 0 /\ total[s] = 0 /\ sent[s] = 0
        /\ outcome[s] = "none"
    BY DEF Init
  <2>5. length[s] \in Nat
    BY BoundsAssumption DEF Init
  <2>6. expected[s] \in {0, length[s]}
    BY DEF Init
  <2>7. Tally(s)
    BY <2>4, <2>5, <2>6 DEF Tally
  <2> QED
    BY <2>3, <2>7
<1>3. alien = {}
  BY DEF Init
<1> QED
  BY <1>1, <1>2, <1>3 DEF PipeInv

(* An interrupted opening stays in the record, so what holds of the        *)
(* undisturbed has no interruption to survive.                             *)
LEMMA PipeInvKept == PipeInv /\ [Next]_vars => PipeInv'
<1> SUFFICES ASSUME PipeInv, [Next]_vars PROVE PipeInv'
  OBVIOUS
<1>1. TypeOK /\ TypeOK'
  BY StepType DEF PipeInv
<1>2. SUFFICES ASSUME interrupted' = {}
      PROVE  alien' = {} /\ \A t \in Streams : Good(t)'
  BY <1>1 DEF PipeInv, Undisturbed, Good
<1>3. ASSUME NEW s \in Streams
      PROVE  ~Interrupt(s)
  BY <1>2 DEF Interrupt
<1>4. interrupted = {}
  <2>1. CASE UNCHANGED vars
    BY <1>2, <2>1 DEF vars, opens
  <2>2. ASSUME NEW s \in Streams,
               CallerStep(s) \/ WorkerStep(s) \/ WorkerStops(s) \/ FreeStep(s)
        PROVE  interrupted' = interrupted
    BY <1>3, <2>2 DEF CallerStep, WorkerStep, WorkerStops, FreeStep, StartWorker,
       Handshake, CleanUp, FdOpen, Take, ReadEnds, ReadFails, WorkerOpens, WorkerWrites,
       WorkerWriteFails, WorkerCloses, MakePipe, PipeFails, CloseStream, BeginRead,
       onlyWorker, opens
  <2> QED
    BY <1>2, <2>1, <2>2 DEF Next
<1>5. alien = {} /\ \A t \in Streams : Good(t)
  BY <1>4 DEF PipeInv, Undisturbed, Good
<1>6. ASSUME NEW s \in Streams,
             CallerStep(s) \/ WorkerStep(s) \/ WorkerStops(s) \/ FreeStep(s)
      PROVE  Keeps(s)
  <2>1. CASE \/ StartWorker(s) \/ Handshake(s) \/ FdOpen(s) \/ PipeFails(s)
             \/ WorkerOpens(s) \/ WorkerStops(s) \/ WorkerWriteFails(s)
             \/ ReadFails(s)
    BY <1>1, <1>5, <2>1, OpeningSteps
  <2>2. CASE CleanUp(s) \/ CloseStream(s) \/ WorkerCloses(s)
    BY <1>1, <1>5, <2>2, ClosingSteps
  <2>3. CASE MakePipe(s)
    BY <1>1, <1>5, <2>3, MakingAPipe
  <2>4. CASE \/ Take(s) \/ ReadEnds(s) \/ WorkerWrites(s)
             \/ \E n \in Requests : BeginRead(s, n)
    BY <1>1, <1>5, <2>4, MovingSteps
  <2> QED
    BY <1>3, <1>6, <2>1, <2>2, <2>3, <2>4 DEF CallerStep, WorkerStep, FreeStep
<1>7. CASE UNCHANGED vars
  <2>1. UNCHANGED <<fds, buf, caller, rfd, wfd, claimed, want, taken, total, outcome,
                    worker, sent, length, expected, alien>>
    BY <1>7 DEF vars, entry, reads, opens
  <2>2. \A t \in Streams : Elsewhere(t) /\ SameEnds(t)
    BY <2>1 DEF Elsewhere, SameEnds
  <2> QED
    BY <1>5, <2>1, <2>2, Frame
<1> QED
  BY <1>6, <1>7 DEF Next, Keeps

LEMMA PipeInvHolds == Safety => []PipeInv
<1> QED
  BY PipeInvStarts, PipeInvKept, PTL DEF Safety

-----------------------------------------------------------------------------
(* Every variable keeps its type; the tables are never indexed outside     *)
(* their domain.                                                           *)
THEOREM TypeCorrect == Safety => []TypeOK
<1>1. PipeInv => TypeOK
  BY DEF PipeInv
<1> QED
  BY <1>1, PipeInvHolds, PTL

(* From the handshake until the worker closes it, the write end in the     *)
(* worker's hands is that of its own pipe, whatever descriptor numbers     *)
(* other streams free and reuse meanwhile, if no opening was interrupted.  *)
THEOREM WriteEndStays == Safety => []WriteEndIsWorkersUndisturbed
<1>1. PipeInv => WriteEndIsWorkersUndisturbed
  BY DEF PipeInv, WriteEndIsWorkersUndisturbed, WriteEndIsWorkers, EndsInPlace,
     WorkerHasWriteEnd
<1> QED
  BY <1>1, PipeInvHolds, PTL

(* No stream reads a byte of another entry, if no opening was interrupted. *)
THEOREM OwnEntryOnly == Safety => []ReadsOwnEntry
<1>1. PipeInv => ReadsOwnEntry
  BY DEF PipeInv, ReadsOwnEntry
<1> QED
  BY <1>1, PipeInvHolds, PTL

(* A stream that is over, on both sides, holds no descriptor and no claim, *)
(* if no opening was interrupted.                                          *)
THEOREM NoLeak == Safety => []NothingLeaks
<1>1. ASSUME PipeInv, Undisturbed, NEW s \in Streams, caller[s] \in {"closed", "raised"},
             worker[s] \in {"none", "refused", "ended"}
      PROVE  ~claimed[s] /\ \A n \in Descriptors : fds[n] \notin {<<s, "r">>, <<s, "w">>}
  BY <1>1 DEF PipeInv, NoOtherEnds, InStep, CallerHasReadEnd, CallerHasWriteEnd,
     WorkerHasWriteEnd
<1>2. PipeInv => NothingLeaks
  BY <1>1 DEF NothingLeaks
<1> QED
  BY <1>2, PipeInvHolds, PTL

(* An entry whose size is known never ends early without an alarm, if no   *)
(* opening was interrupted.                                                *)
THEOREM EndIsWhole == Safety => []EndMeansWhole
<1>1. PipeInv => EndMeansWhole
  BY DEF PipeInv, EndMeansWhole, Tally
<1> QED
  BY <1>1, PipeInvHolds, PTL

(* The alarm is raised only over an entry that broke off, unless the read  *)
(* asked for nothing or an opening was interrupted.                        *)
THEOREM AlarmIsBroken == Safety => []AlarmMeansBrokenUnlessZero
<1>1. PipeInv => AlarmMeansBrokenUnlessZero
  BY DEF PipeInv, AlarmMeansBrokenUnlessZero, Tally
<1> QED
  BY <1>1, PipeInvHolds, PTL
=============================================================================
