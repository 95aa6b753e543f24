------------------------- MODULE AsyncArchiveProofs -------------------------
(***************************************************************************)
(* What TLAPS proves of module AsyncArchive for every number of files,     *)
(* attempts, streams, calls and closing threads: type correctness, that    *)
(* read, extract and the streams of a block find the copy, that a claim is *)
(* given up once and nothing is left behind, and that the counter          *)
(* implements the claims of TempFileClaims.                                *)
(*                                                                         *)
(* The invariant is in three parts.  Lives is about the order in which a   *)
(* stream and its closing threads do things.  Kept, which needs Tame, says *)
(* that the counter is not below the claims, so that no deletion is        *)
(* decided under one that counts.  Cleaned, which needs that nothing was   *)
(* cancelled, says that it is not above, so that somebody will decide it.  *)
(***************************************************************************)
EXTENDS AsyncArchive, Counting, FiniteSetTheorems, TLAPS

Active(a) == task[a] \notin {"none", "left", "cancelled"}

(* Who has done, or is about to do, what only the first close() does.      *)
Closing(s, c) == closer[s][c] \in {"shutting", "releasing", "deleting", "released"}

(* The claims the counter counts, those of late streams with them.         *)
Claiming(s) ==
  \/ stage[s] \in {"claimed", "failing"}
  \/ stage[s] = "open" /\ Unreleased(s)

Claims(f) == {s \in Streams : held[s] = f /\ Claiming(s)}
               \cup (IF OwnerClaims(f) THEN {Owner} ELSE {})

(* Somebody who has a promise claims f.                                    *)
Solid(f) == OwnerClaims(f) \/ (\E s \in early : held[s] = f /\ Claiming(s))

(* A stream's deletion of its copy is decided and not yet made.            *)
Deleting(s) == stage[s] = "deleting" \/ (\E c \in Closers : closer[s][c] = "deleting")

(* One attempt is in the block, or on the way in or out, at a time; the    *)
(* thread of a cancelled one may still run.                                *)
OneActive == \A a, b \in Attempts : Active(a) /\ Active(b) => a = b

Threads ==
  \A a \in Attempts :
    /\ copier[a] \in Busy => task[a] \in {"entering", "cancelled"}
    /\ task[a] = "none" => copier[a] = "none"
    /\ Active(a) => copier[a] # "none"

StreamLives ==
  \A s \in Streams :
    /\ stage[s] \notin {"open", "collected"} =>
         ~shut[s] /\ worker[s] = "none" /\ \A c \in Closers : closer[s][c] = "none"
    /\ stage[s] = "deleting" => held[s] \in Files
    /\ shut[s] => \E c \in Closers : closer[s][c] # "none"
    /\ shut[s] /\ held[s] # NoFile /\ stage[s] = "open" =>
         \E c \in Closers : closer[s][c] \in {"releasing", "deleting", "released"}
    /\ stage[s] = "collected" => shut[s]

CloserLives ==
  \A s \in Streams, c \in Closers :
    /\ closer[s][c] \in {"shutting", "releasing", "deleting"} => stage[s] = "open"
    /\ closer[s][c] \in {"releasing", "deleting"} => held[s] \in Files
    /\ closer[s][c] \in {"releasing", "deleting", "released"} => shut[s]

OneCloser ==
  ~together =>
    \A s \in Streams : \A c, d \in Closers : Closing(s, c) /\ Closing(s, d) => c = d

(* Nobody knows of a copy before it is complete, but the thread making it. *)
Fresh ==
  \A f \in Files : disk[f] \in {"unused", "copying"} =>
    /\ tempfile # f
    /\ \A s \in Streams : held[s] # f
    /\ \A a \in Attempts : task[a] = "deleting" => file[a] # f

Copying ==
  /\ \A a \in Attempts : copier[a] = "copying" => disk[file[a]] = "copying"
  /\ \A a, b \in Attempts :
       copier[a] = "copying" /\ copier[b] = "copying" /\ file[a] = file[b] => a = b
  /\ \A f \in Files : disk[f] = "copying" =>
       \E a \in Attempts : copier[a] = "copying" /\ file[a] = f

Decided == \A a \in Attempts : task[a] = "deleting" => file[a] \in Files

Copies == Fresh /\ Copying /\ Decided

Lives == TypeOK /\ OneActive /\ Threads /\ StreamLives /\ CloserLives /\ OneCloser /\ Copies

-----------------------------------------------------------------------------
NotBelow == ~together => \A f \in Files : holders[f] >= Cardinality(Claims(f))

(* While a thread copies no other attempt does anything.                   *)
CopiesAlone ==
  \A a \in Attempts : copier[a] \in Busy =>
    \A b \in Attempts : b # a => ~Active(b) /\ copier[b] \notin Busy

(* The copy an attempt works on is the archive's.                          *)
OwnCopy ==
  \A a \in Attempts :
    /\ task[a] = "entering" /\ copier[a] = "ended" =>
         file[a] = tempfile /\ tempfile \in Files
    /\ task[a] \in {"listing", "inside"} => path = tempfile /\ tempfile \in Files

(* An archive that has a copy does not make another.                       *)
OneCopy == \A a \in Attempts : copier[a] = "copying" => tempfile = NoFile

(* A stream with a promise claims while the archive does.                  *)
EarlyLives ==
  \A s \in early :
    /\ stage[s] \notin {"none", "context"}
    /\ stage[s] \in {"starting", "grabbed", "claimed"} => Inside
    /\ stage[s] \in {"grabbed", "claimed"} => held[s] = tempfile
    /\ stage[s] \in {"claimed", "open"} => held[s] = streamPath[s] /\ held[s] \in Files

NotUnder ==
  \A f \in Files : Solid(f) =>
    /\ disk[f] = "present"
    /\ \A s \in Streams : Deleting(s) => held[s] # f
    /\ \A a \in Attempts : task[a] = "deleting" => file[a] # f

Kept == /\ NotBelow
        /\ ~overlap => CopiesAlone /\ OwnCopy
        /\ Tame => OneCopy /\ EarlyLives /\ NotUnder

-----------------------------------------------------------------------------
NoneCancelled == \A a \in Attempts : task[a] # "cancelled"

HasAttempt ==
  tempfile # NoFile =>
    \E a \in Attempts : Active(a) /\ copier[a] = "ended"

NotAbove ==
  \A f \in Files : disk[f] = "present" => holders[f] =< Cardinality(Claims(f))

Doomed(f) ==
  \/ \E a \in Attempts : task[a] = "deleting" /\ file[a] = f
  \/ \E s \in Streams :
       /\ held[s] = f
       /\ Deleting(s) /\ \A c \in Closers : closer[s][c] # "released"

Owed == \A f \in Files : disk[f] = "present" => Claims(f) # {} \/ Doomed(f)

Cleaned == NoneCancelled => HasAttempt /\ NotAbove /\ Owed

-----------------------------------------------------------------------------
LEMMA BookTypes ==
  ASSUME TypeOK, NEW f
  PROVE  /\ CountedUp(f) \in [Files -> Int] /\ CountedDown(f) \in [Files -> Int]
         /\ Deleted(f) \in [Files -> {"unused", "copying", "present", "gone"}]
<1>1. holders \in [Files -> Int]
      /\ disk \in [Files -> {"unused", "copying", "present", "gone"}]
  BY DEF TypeOK
<1>2. Deleted(f) \in [Files -> {"unused", "copying", "present", "gone"}]
  BY <1>1 DEF Deleted
<1>3. CASE f \in Files
  <2>1. holders[f] + 1 \in Int /\ holders[f] - 1 \in Int
    BY <1>1, <1>3
  <2>2. CountedUp(f) \in [Files -> Int]
    BY <1>1, <2>1 DEF CountedUp
  <2>3. CountedDown(f) \in [Files -> Int]
    BY <1>1, <2>1 DEF CountedDown
  <2> QED
    BY <1>2, <2>2, <2>3
<1>4. CASE f \notin Files
  <2>1. \A x \in Files : x # f
    BY <1>4
  <2>2. CountedUp(f) = holders /\ CountedDown(f) = holders
    BY <1>1, <2>1 DEF CountedUp, CountedDown
  <2> QED
    BY <1>1, <1>2, <2>2
<1> QED
  BY <1>3, <1>4

(* A coroutine's step, or its thread's, keeps the types.                   *)
LEMMA AttemptTypes ==
  ASSUME TypeOK, Threads, NEW a \in Attempts, AttemptStep(a)
  PROVE  TypeOK'
<1> USE DEF TypeOK, Becomes, Keeps, calls, stream
<1>1. CASE Enter(a)
  BY <1>1 DEF Enter, Busy
<1>2. CASE Look(a)
  <2>1. CASE HasCopy
    <3>1. /\ file' = [file EXCEPT ![a] = tempfile]
          /\ copier' = [copier EXCEPT ![a] = "ended"]
      BY <1>2, <2>1 DEF Look
    <3>2. UNCHANGED <<path, closed, tempfile, dropped, disk, holders, task, calls, stream,
                      overlap>>
      BY <1>2, <2>1 DEF Look
    <3> QED
      BY <3>1, <3>2
  <2>2. CASE ~HasCopy
    <3>1. PICK f \in Files : /\ disk' = [disk EXCEPT ![f] = "copying"]
                            /\ file' = [file EXCEPT ![a] = f]
      BY <1>2, <2>2 DEF Look
    <3>2. copier' = [copier EXCEPT ![a] = "copying"]
      BY <1>2, <2>2 DEF Look
    <3>3. UNCHANGED <<path, closed, tempfile, dropped, holders, task, calls, stream, overlap>>
      BY <1>2 DEF Look
    <3>4. /\ disk' \in [Files -> {"unused", "copying", "present", "gone"}]
          /\ file' \in [Attempts -> Files \cup {NoFile}]
          /\ copier' \in [Attempts -> {"none", "ended"} \cup Busy]
      BY <3>1, <3>2 DEF Busy
    <3>5. \A b \in Attempts : copier'[b] = "copying" => file'[b] \in Files
      BY <3>1, <3>2
    <3> QED
      BY <3>3, <3>4, <3>5
  <2> QED
    BY <2>1, <2>2
<1>3. CASE Copied(a)
  BY <1>3 DEF Copied, Busy
<1>4. CASE Resume(a)
  BY <1>4 DEF Resume
<1>7. CASE Listed(a) \/ Cancel(a)
  BY <1>7 DEF Listed, Cancel
<1>5. CASE Close(a)
  <2>1. copier[a] # "copying"
    BY <1>5 DEF Close, Threads, Busy
  <2>2. CountedDown(tempfile) \in [Files -> Int]
    BY BookTypes
  <2> QED
    BY <1>5, <2>1, <2>2 DEF Close
<1>6. CASE Forget(a)
  BY <1>6, BookTypes DEF Forget
<1> QED
  BY <1>1, <1>2, <1>3, <1>4, <1>5, <1>6, <1>7 DEF AttemptStep

LEMMA StreamTypes ==
  ASSUME TypeOK, NEW s \in Streams, StreamStep(s)
  PROVE  TypeOK'
<1> USE DEF TypeOK, Stage, archive, entering, calls
<1>1. CASE OpenContext(s)
  BY <1>1 DEF OpenContext
<1>2. CASE EnterStream(s)
  BY <1>2 DEF EnterStream
<1>3. CASE Grab(s)
  BY <1>3 DEF Grab
<1>4. CASE Hold(s)
  BY <1>4, BookTypes DEF Hold
<1>5. CASE Opened(s)
  BY <1>5 DEF Opened
<1>6. CASE OpenFails(s)
  BY <1>6 DEF OpenFails
<1>7. CASE FailRelease(s)
  <2>1. CountedDown(held[s]) \in [Files -> Int]
    BY BookTypes
  <2>2. /\ stage' \in [Streams -> {"none", "context", "starting", "grabbed", "claimed",
                            "failing", "deleting", "failed", "open", "collected"}]
        /\ held' \in [Streams -> Files \cup {NoFile}]
    <3>1. CASE Last(held[s])
      <4>1. stage' = [stage EXCEPT ![s] = "deleting"] /\ held' = held
        BY <1>7, <3>1 DEF FailRelease
      <4> QED
        BY <4>1
    <3>2. CASE ~Last(held[s])
      <4>1. /\ stage' = [stage EXCEPT ![s] = "failed"]
            /\ held' = [held EXCEPT ![s] = NoFile]
        BY <1>7, <3>2 DEF FailRelease
      <4> QED
        BY <4>1
    <3> QED
      BY <3>1, <3>2
  <2>3. holders' = CountedDown(held[s])
        /\ UNCHANGED <<archive, disk, streamPath, shut, closer, worker, early, together>>
    BY <1>7 DEF FailRelease
  <2> QED
    BY <2>1, <2>2, <2>3
<1>8. CASE FailDelete(s)
  BY <1>8, BookTypes DEF FailDelete
<1>9. CASE WorkerRead(s)
  BY <1>9 DEF WorkerRead
<1>10. CASE Collect(s)
  BY <1>10 DEF Collect, Forgotten
<1>11. ASSUME NEW c \in Closers, BeginClose(s, c) \/ ClosingStep(s, c)
      PROVE  TypeOK'
  <2> USE DEF Moves, apart
  <2>1. CASE BeginClose(s, c)
    BY <2>1 DEF BeginClose
  <2>2. CASE ShutStream(s, c)
    BY <2>2 DEF ShutStream
  <2>3. CASE Release(s, c)
    BY <2>3, BookTypes DEF Release
  <2>4. CASE Delete(s, c)
    BY <2>4, BookTypes DEF Delete
  <2> QED
    BY <1>11, <2>1, <2>2, <2>3, <2>4 DEF ClosingStep
<1> QED
  BY <1>1, <1>2, <1>3, <1>4, <1>5, <1>6, <1>7, <1>8, <1>9, <1>10, <1>11
     DEF StreamStep, OpeningStep

LEMMA TypeStep == TypeOK /\ Threads /\ [Next]_vars => TypeOK'
<1> SUFFICES ASSUME TypeOK, Threads, [Next]_vars PROVE TypeOK'
  OBVIOUS
<1>1. ASSUME NEW a \in Attempts, AttemptStep(a) PROVE TypeOK'
  BY <1>1, AttemptTypes
<1>2. ASSUME NEW s \in Streams, StreamStep(s) PROVE TypeOK'
  BY <1>2, StreamTypes
<1>3. ASSUME NEW c \in Calls, StartCall(c) \/ RunCall(c) PROVE TypeOK'
  <2>1. /\ call' \in [Calls -> {"none", "running", "answered", "missing"}]
        /\ callPath' \in [Calls -> Files \cup {NoFile}]
    <3>1. CASE StartCall(c)
      BY <3>1 DEF StartCall, TypeOK
    <3>2. CASE RunCall(c)
      <4>1. callPath' = callPath
            /\ \E r \in {"answered", "missing"} : call' = [call EXCEPT ![c] = r]
        BY <3>2 DEF RunCall
      <4> QED
        BY <4>1 DEF TypeOK
    <3> QED
      BY <1>3, <3>1, <3>2
  <2>2. UNCHANGED <<path, closed, tempfile, dropped, disk, holders, entering, stream, overlap>>
    BY <1>3 DEF StartCall, RunCall
  <2> QED
    BY <2>1, <2>2 DEF TypeOK, entering, stream
<1>4. CASE Drop
  BY <1>4 DEF Drop, TypeOK, entering, calls, stream
<1>5. ASSUME NEW f \in Files, Finalize(f) PROVE TypeOK'
  BY <1>5, BookTypes DEF Finalize, TypeOK, entering, calls, stream
<1>6. CASE UNCHANGED vars
  BY <1>6 DEF vars, TypeOK, entering, calls, stream
<1> QED
  BY <1>1, <1>2, <1>3, <1>4, <1>5, <1>6 DEF Next

-----------------------------------------------------------------------------
(* Only an attempt's steps move coroutines and their threads, only a       *)
(* stream's move streams.                                                  *)
LEMMA AttemptFrame ==
  ASSUME [Next]_vars
  PROVE  \/ \E a \in Attempts : AttemptStep(a)
         \/ UNCHANGED entering
<1>1. ASSUME NEW s \in Streams, StreamStep(s) PROVE UNCHANGED entering
  BY <1>1 DEF StreamStep, OpeningStep, ClosingStep, OpenContext, EnterStream, Grab, Hold,
              Opened, OpenFails, FailRelease, FailDelete, WorkerRead, Collect, BeginClose,
              ShutStream, Release, Delete, apart, archive
<1>2. ASSUME NEW c \in Calls, StartCall(c) \/ RunCall(c) PROVE UNCHANGED entering
  BY <1>2 DEF StartCall, RunCall
<1>3. CASE Drop
  BY <1>3 DEF Drop
<1>4. ASSUME NEW f \in Files, Finalize(f) PROVE UNCHANGED entering
  BY <1>4 DEF Finalize
<1>5. CASE UNCHANGED vars
  BY <1>5 DEF vars
<1> QED
  BY <1>1, <1>2, <1>3, <1>4, <1>5 DEF Next

LEMMA StreamFrame ==
  ASSUME [Next]_vars
  PROVE  \/ \E s \in Streams : StreamStep(s)
         \/ UNCHANGED <<stage, held, streamPath, shut, closer, worker, together>>
<1>1. ASSUME NEW a \in Attempts, AttemptStep(a)
      PROVE  UNCHANGED <<stage, held, streamPath, shut, closer, worker, together>>
  BY <1>1 DEF AttemptStep, Enter, Look, Copied, Resume, Listed, Cancel, Close, Forget, stream
<1>2. ASSUME NEW c \in Calls, StartCall(c) \/ RunCall(c)
      PROVE  UNCHANGED <<stage, held, streamPath, shut, closer, worker, together>>
  BY <1>2 DEF StartCall, RunCall, stream
<1>3. CASE Drop
  BY <1>3 DEF Drop, stream
<1>4. ASSUME NEW f \in Files, Finalize(f)
      PROVE  UNCHANGED <<stage, held, streamPath, shut, closer, worker, together>>
  BY <1>4 DEF Finalize, stream
<1>5. CASE UNCHANGED vars
  BY <1>5 DEF vars, stream
<1> QED
  BY <1>1, <1>2, <1>3, <1>4, <1>5 DEF Next

LEMMA ThreadsStep ==
  ASSUME TypeOK, OneActive, Threads, [Next]_vars
  PROVE  OneActive' /\ Threads'
<1> USE DEF OneActive, Threads, Active, Becomes, Busy, TypeOK
<1>1. ASSUME NEW a \in Attempts, AttemptStep(a)
      PROVE  OneActive' /\ Threads'
  <2>1. CASE Enter(a)
    BY <2>1 DEF Enter
  <2>2. CASE Look(a)
    BY <2>2 DEF Look
  <2>3. CASE Copied(a)
    BY <2>3 DEF Copied
  <2>4. CASE Resume(a)
    BY <2>4 DEF Resume
  <2>5. CASE Listed(a)
    BY <2>5 DEF Listed
  <2>6. CASE Cancel(a)
    BY <2>6 DEF Cancel
  <2>7. CASE Close(a)
    BY <2>7 DEF Close
  <2>8. CASE Forget(a)
    BY <2>8 DEF Forget
  <2> QED
    BY <1>1, <2>1, <2>2, <2>3, <2>4, <2>5, <2>6, <2>7, <2>8 DEF AttemptStep
<1>2. CASE UNCHANGED entering
  BY <1>2 DEF entering
<1> QED
  BY <1>1, <1>2, AttemptFrame

(* The order of events in the life of a stream.                            *)
LEMMA StreamLivesStep ==
  ASSUME TypeOK, StreamLives, CloserLives, [Next]_vars
  PROVE  StreamLives' /\ CloserLives'
<1> USE DEF StreamLives, CloserLives, TypeOK, Stage, Moves
<1>1. ASSUME NEW s \in Streams, StreamStep(s)
      PROVE  StreamLives' /\ CloserLives'
  <2>1. CASE OpenContext(s)
    BY <2>1 DEF OpenContext
  <2>2. CASE EnterStream(s)
    BY <2>2 DEF EnterStream
  <2>3. CASE Grab(s)
    BY <2>3 DEF Grab
  <2>4. CASE Hold(s)
    BY <2>4 DEF Hold
  <2>5. CASE Opened(s)
    BY <2>5 DEF Opened
  <2>6. CASE OpenFails(s)
    BY <2>6 DEF OpenFails
  <2>7. CASE FailRelease(s)
    BY <2>7 DEF FailRelease, Last
  <2>8. CASE FailDelete(s)
    BY <2>8 DEF FailDelete
  <2>9. CASE WorkerRead(s)
    BY <2>9 DEF WorkerRead
  <2>10. CASE Collect(s)
    <3>1. StreamLives'
      BY <2>10 DEF Collect, Forgotten
    <3>2. \A c \in Closers : closer[s][c] \in {"none", "released", "skipped"}
      BY <2>10 DEF Collect
    <3>3. \A t \in Streams \ {s} : stage'[t] = stage[t] /\ held'[t] = held[t]
      BY <2>10 DEF Collect, Forgotten
    <3>4. UNCHANGED <<closer, shut>>
      BY <2>10 DEF Collect
    <3>5. ASSUME NEW t \in Streams, NEW c \in Closers,
                 closer[t][c] \in {"shutting", "releasing", "deleting"}
          PROVE  t # s
      BY <3>2, <3>5
    <3>6. CloserLives'
      BY <3>3, <3>4, <3>5
    <3> QED
      BY <3>1, <3>6
  <2>11. ASSUME NEW c \in Closers, BeginClose(s, c)
         PROVE  StreamLives' /\ CloserLives'
    <3>1. PICK v \in {"skipped", "shutting"} : closer' = [closer EXCEPT ![s][c] = v]
      BY <2>11 DEF BeginClose
    <3>2. stage[s] = "open" /\ closer[s][c] = "none"
          /\ UNCHANGED <<stage, held, shut, worker>>
      BY <2>11 DEF BeginClose, apart
    <3>3. \A t \in Streams, d \in Closers :
            closer'[t][d] = IF t = s /\ d = c THEN v ELSE closer[t][d]
      BY <3>1
    <3>4. ASSUME NEW t \in Streams, NEW d \in Closers, closer[t][d] # "none"
          PROVE  closer'[t][d] = closer[t][d]
      BY <3>2, <3>3, <3>4
    <3>6. StreamLives'
      <4> HIDE DEF TypeOK, CloserLives
      <4>1. \A t \in Streams :
              (\E d \in Closers : closer[t][d] \in {"releasing", "deleting", "released"}) =>
                 \E d \in Closers : closer'[t][d] \in {"releasing", "deleting", "released"}
        BY <3>4
      <4>2. \A t \in Streams :
              (\E d \in Closers : closer[t][d] # "none") =>
                 \E d \in Closers : closer'[t][d] # "none"
        BY <3>4
      <4>3. \A t \in Streams : stage[t] # "open" =>
              \A d \in Closers : closer'[t][d] = closer[t][d]
        BY <3>2, <3>3
      <4> QED
        BY <3>2, <4>1, <4>2, <4>3
    <3>5. CloserLives'
      BY <3>1, <3>2
    <3> QED
      BY <3>5, <3>6
  <2>12. ASSUME NEW c \in Closers, ShutStream(s, c)
         PROVE  StreamLives' /\ CloserLives'
    <3> DEFINE v == IF held[s] = NoFile THEN "skipped" ELSE "releasing"
    <3>1. /\ closer' = [closer EXCEPT ![s][c] = v] /\ shut' = [shut EXCEPT ![s] = TRUE]
          /\ closer[s][c] = "shutting" /\ stage[s] = "open"
      BY <2>12 DEF ShutStream
    <3>2. UNCHANGED <<stage, held, worker>>
      BY <2>12 DEF ShutStream, apart
    <3>3. StreamLives'
      BY <3>1, <3>2
    <3>4. CloserLives'
      BY <3>1, <3>2
    <3> QED
      BY <3>3, <3>4
  <2>13. ASSUME NEW c \in Closers, Release(s, c)
         PROVE  StreamLives' /\ CloserLives'
    BY <2>13 DEF Release, apart, Last
  <2>14. ASSUME NEW c \in Closers, Delete(s, c)
         PROVE  StreamLives' /\ CloserLives'
    BY <2>14 DEF Delete, apart
  <2> QED
    BY <1>1, <2>1, <2>2, <2>3, <2>4, <2>5, <2>6, <2>7, <2>8, <2>9, <2>10, <2>11, <2>12,
       <2>13, <2>14 DEF StreamStep, OpeningStep, ClosingStep
<1>2. CASE UNCHANGED <<stage, held, streamPath, shut, closer, worker, together>>
  BY <1>2
<1> QED
  BY <1>1, <1>2, StreamFrame

(* Where no two closes overlap the first one is the only one.              *)
LEMMA OneCloserStep ==
  ASSUME TypeOK, CloserLives, OneCloser, [Next]_vars
  PROVE  OneCloser'
<1> USE DEF OneCloser, Closing
<1>1. ASSUME NEW s \in Streams, StreamStep(s)
      PROVE  OneCloser'
  <2>1. CASE UNCHANGED <<closer, together>>
    BY <2>1
  <2>2. ASSUME NEW c \in Closers, BeginClose(s, c)
        PROVE  OneCloser'
    <3> SUFFICES ASSUME ~together' PROVE OneCloser'
      OBVIOUS
    <3>1. ~together /\ \A d \in Closers : closer[s][d] # "shutting"
      BY <2>2 DEF BeginClose
    <3>2. shut[s] \/ \A d \in Closers : ~Closing(s, d)
      BY <3>1 DEF CloserLives
    <3>3. closer' = [closer EXCEPT ![s][c] = IF shut[s] THEN "skipped" ELSE "shutting"]
      BY <2>2 DEF BeginClose, Moves, AlreadyClosed
    <3> QED
      BY <3>1, <3>2, <3>3 DEF TypeOK
  <2>3. ASSUME NEW c \in Closers, ClosingStep(s, c)
        PROVE  OneCloser'
    <3>1. Closing(s, c) /\ UNCHANGED together
      BY <2>3 DEF ClosingStep, ShutStream, Release, Delete
    <3>2. \E v : closer' = [closer EXCEPT ![s][c] = v]
      BY <2>3 DEF ClosingStep, ShutStream, Release, Delete, Moves
    <3> QED
      BY <3>1, <3>2 DEF TypeOK
  <2> QED
    BY <1>1, <2>1, <2>2, <2>3 DEF StreamStep, OpeningStep, OpenContext, EnterStream, Grab,
       Hold, Opened, OpenFails, FailRelease, FailDelete, WorkerRead, Collect
<1>2. CASE UNCHANGED <<stage, held, streamPath, shut, closer, worker, together>>
  BY <1>2
<1> QED
  BY <1>1, <1>2, StreamFrame

-----------------------------------------------------------------------------
(* A copy that is known may be deleted.                                    *)
LEMMA DeletionCopies ==
  ASSUME TypeOK, Copies, NEW f \in Files, disk[f] \notin {"unused", "copying"},
         disk' = Deleted(f), UNCHANGED <<copier, file>>,
         tempfile' \in {tempfile, NoFile},
         \A s \in Streams : held'[s] \in {held[s], NoFile},
         \A a \in Attempts : task'[a] \in {task[a], "left"}
  PROVE  Copies'
<1>1. \A g \in Files : disk'[g] = IF g = f THEN "gone" ELSE disk[g]
  BY DEF Deleted, TypeOK
<1>2. Fresh'
  BY <1>1, FilesAssumption DEF Copies, Fresh
<1>3. Copying'
  BY <1>1 DEF Copies, Copying, TypeOK
<1>4. Decided'
  BY DEF Copies, Decided
<1> QED
  BY <1>2, <1>3, <1>4 DEF Copies

(* So may the copies in the hands of a stream or of close().               *)
LEMMA KnownCopies ==
  ASSUME TypeOK, Copies
  PROVE  /\ \A s \in Streams : held[s] \in Files => disk[held[s]] \notin {"unused", "copying"}
         /\ \A a \in Attempts : task[a] = "deleting" =>
              file[a] \in Files /\ disk[file[a]] \notin {"unused", "copying"}
         /\ tempfile \in Files => disk[tempfile] \notin {"unused", "copying"}
BY DEF Copies, Fresh, Decided, TypeOK

LEMMA SameCopies ==
  ASSUME Copies, UNCHANGED <<disk, copier, file>>,
         tempfile' \in {tempfile, NoFile},
         \A s \in Streams : held'[s] \in {held[s], tempfile, NoFile},
         \A a \in Attempts : task'[a] = "deleting" => task[a] = "deleting"
  PROVE  Copies'
<1>1. Fresh'
  BY FilesAssumption DEF Copies, Fresh
<1>2. Copying' /\ Decided'
  BY DEF Copies, Copying, Decided
<1> QED
  BY <1>1, <1>2 DEF Copies

LEMMA AttemptCopies ==
  ASSUME TypeOK, Threads, Copies, NEW a \in Attempts, AttemptStep(a)
  PROVE  Copies'
<1> USE DEF Becomes, Keeps, stream, TypeOK
<1>1. CASE Enter(a)
  <2>1. Fresh' /\ Decided'
    BY <1>1 DEF Enter, Copies, Fresh, Decided
  <2>2. Copying'
    BY <1>1 DEF Enter, Copies, Copying, Threads, Busy
  <2> QED
    BY <2>1, <2>2 DEF Copies
<1>2. CASE Look(a)
  <2>1. task[a] # "deleting" /\ copier[a] = "looking"
    BY <1>2 DEF Look, Threads, Busy
  <2>2. CASE HasCopy
    <3>1. /\ file' = [file EXCEPT ![a] = tempfile]
          /\ copier' = [copier EXCEPT ![a] = "ended"]
          /\ UNCHANGED <<disk, task, held, tempfile>>
      BY <1>2, <2>2 DEF Look
    <3>2. Fresh' /\ Decided'
      BY <2>1, <3>1 DEF Copies, Fresh, Decided
    <3>3. Copying'
      BY <2>1, <3>1 DEF Copies, Copying
    <3> QED
      BY <3>2, <3>3 DEF Copies
  <2>3. CASE ~HasCopy
    <3>1. PICK f \in Files : /\ disk[f] = "unused"
                            /\ disk' = [disk EXCEPT ![f] = "copying"]
                            /\ file' = [file EXCEPT ![a] = f]
      BY <1>2, <2>3 DEF Look
    <3>2. copier' = [copier EXCEPT ![a] = "copying"] /\ UNCHANGED <<task, held, tempfile>>
      BY <1>2, <2>3 DEF Look
    <3>3. Fresh' /\ Decided'
      BY <2>1, <3>1, <3>2 DEF Copies, Fresh, Decided
    <3>4. Copying'
      BY <2>1, <3>1, <3>2 DEF Copies, Copying
    <3> QED
      BY <3>3, <3>4 DEF Copies
  <2> QED
    BY <2>2, <2>3
<1>3. CASE Copied(a)
  <2>1. /\ file[a] \in Files /\ disk[file[a]] = "copying"
        /\ disk' = [disk EXCEPT ![file[a]] = "present"]
        /\ copier' = [copier EXCEPT ![a] = "ended"] /\ copier[a] = "copying"
        /\ tempfile' = file[a] /\ UNCHANGED <<file, task, held>>
    BY <1>3 DEF Copied, Copies, Copying
  <2>2. Fresh' /\ Decided'
    BY <2>1 DEF Copies, Fresh, Decided
  <2>3. Copying'
    BY <2>1 DEF Copies, Copying
  <2> QED
    BY <2>2, <2>3 DEF Copies
<1>4. CASE Resume(a)
  BY <1>4, SameCopies DEF Resume
<1>5. CASE Listed(a)
  BY <1>5, SameCopies DEF Listed
<1>6. CASE Cancel(a)
  BY <1>6, SameCopies DEF Cancel
<1>7. CASE Close(a)
  <2>1. /\ file' = [file EXCEPT ![a] = tempfile] /\ copier[a] \notin Busy
        /\ task' = [task EXCEPT ![a] = IF Last(tempfile) THEN "deleting" ELSE "forgetting"]
        /\ UNCHANGED <<disk, copier, held, tempfile>>
    BY <1>7 DEF Close, Threads
  <2>2. Decided' /\ Fresh'
    BY <2>1, FilesAssumption DEF Copies, Fresh, Decided, Last
  <2>3. Copying'
    BY <2>1 DEF Copies, Copying, Busy
  <2> QED
    BY <2>2, <2>3 DEF Copies
<1>8. CASE Forget(a)
  <2>1. CASE task[a] = "deleting"
    <3>1. disk' = Deleted(file[a]) /\ tempfile' = NoFile /\ UNCHANGED <<copier, file, held>>
      BY <1>8, <2>1 DEF Forget
    <3>2. \A b \in Attempts : task'[b] \in {task[b], "left"}
      BY <1>8 DEF Forget
    <3> QED
      BY <2>1, <3>1, <3>2, KnownCopies, DeletionCopies
  <2>2. CASE task[a] # "deleting"
    BY <1>8, <2>2, SameCopies DEF Forget
  <2> QED
    BY <2>1, <2>2
<1> QED
  BY <1>1, <1>2, <1>3, <1>4, <1>5, <1>6, <1>7, <1>8 DEF AttemptStep

LEMMA StreamCopies ==
  ASSUME TypeOK, CloserLives, StreamLives, Copies, NEW s \in Streams, StreamStep(s)
  PROVE  Copies'
<1> USE DEF archive, entering, TypeOK
<1>1. CASE UNCHANGED <<held, disk>>
  <2>1. UNCHANGED <<tempfile, task, copier, file>>
    BY DEF StreamStep, OpeningStep, ClosingStep, OpenContext, EnterStream, Grab, Hold,
           Opened, OpenFails, FailRelease, FailDelete, WorkerRead, Collect, BeginClose,
           ShutStream, Release, Delete, apart
  <2> QED
    BY <1>1, <2>1, SameCopies
<1>2. CASE Grab(s)
  BY <1>2, SameCopies DEF Grab
<1>3. CASE FailRelease(s)
  BY <1>3, SameCopies DEF FailRelease
<1>4. CASE FailDelete(s)
  <2>1. held[s] \in Files
    BY <1>4 DEF FailDelete, StreamLives
  <2>2. disk' = Deleted(held[s]) /\ held' = [held EXCEPT ![s] = NoFile]
        /\ UNCHANGED <<tempfile, task, copier, file>>
    BY <1>4 DEF FailDelete
  <2> QED
    BY <2>1, <2>2, KnownCopies, DeletionCopies
<1>5. CASE Collect(s)
  BY <1>5, SameCopies DEF Collect, Forgotten
<1>6. ASSUME NEW c \in Closers, Delete(s, c)
      PROVE  Copies'
  <2>1. held[s] \in Files
    BY <1>6 DEF Delete, CloserLives
  <2>2. disk' = Deleted(held[s]) /\ UNCHANGED <<held, tempfile, task, copier, file>>
    BY <1>6 DEF Delete, apart
  <2> QED
    BY <2>1, <2>2, KnownCopies, DeletionCopies
<1> QED
  BY <1>1, <1>2, <1>3, <1>4, <1>5, <1>6 DEF StreamStep, OpeningStep, ClosingStep,
     OpenContext, EnterStream, Hold, Opened, OpenFails, WorkerRead, BeginClose, ShutStream,
     Release

LEMMA CopiesStep ==
  ASSUME Lives, [Next]_vars
  PROVE  Copies'
<1> USE DEF Lives
<1>1. ASSUME NEW a \in Attempts, AttemptStep(a) PROVE Copies'
  BY <1>1, AttemptCopies
<1>2. ASSUME NEW s \in Streams, StreamStep(s) PROVE Copies'
  BY <1>2, StreamCopies
<1>3. ASSUME NEW c \in Calls, StartCall(c) \/ RunCall(c) PROVE Copies'
  BY <1>3, SameCopies DEF StartCall, RunCall, entering, stream
<1>4. CASE Drop
  BY <1>4, SameCopies DEF Drop, entering, stream
<1>5. ASSUME NEW f \in Files, Finalize(f) PROVE Copies'
  BY <1>5, DeletionCopies DEF Finalize, entering, stream
<1>6. CASE UNCHANGED vars
  BY <1>6, SameCopies DEF vars, entering, stream
<1> QED
  BY <1>1, <1>2, <1>3, <1>4, <1>5, <1>6 DEF Next

LEMMA LivesStep == Lives /\ [Next]_vars => Lives'
<1> SUFFICES ASSUME Lives, [Next]_vars PROVE Lives'
  OBVIOUS
<1>1. TypeOK' /\ OneActive' /\ Threads'
  BY TypeStep, ThreadsStep DEF Lives
<1>2. StreamLives' /\ CloserLives' /\ OneCloser'
  BY StreamLivesStep, OneCloserStep DEF Lives
<1> QED
  BY <1>1, <1>2, CopiesStep DEF Lives

LEMMA LivesInit == Init => Lives
<1> SUFFICES ASSUME Init PROVE Lives
  OBVIOUS
<1>1. TypeOK
  <2>1. closer \in [Streams -> [Closers -> {"none", "shutting", "releasing", "deleting",
                                           "released", "skipped"}]]
    BY DEF Init
  <2>2. /\ disk \in [Files -> {"unused", "copying", "present", "gone"}]
        /\ holders \in [Files -> Int]
    BY DEF Init
  <2> QED
    BY <2>1, <2>2 DEF Init, TypeOK
<1>2. OneActive /\ Threads /\ OneCloser
  BY DEF Init, OneActive, Active, Threads, Busy, OneCloser, Closing
<1>3. StreamLives /\ CloserLives
  BY DEF Init, StreamLives, CloserLives
<1>4. Copies
  BY FilesAssumption DEF Init, Copies, Fresh, Copying, Decided
<1> QED
  BY <1>1, <1>2, <1>3, <1>4 DEF Lives

-----------------------------------------------------------------------------
LEMMA FiniteClaims ==
  ASSUME NEW S \in SUBSET (Streams \cup {Owner})
  PROVE  IsFiniteSet(S)
<1>1. IsFiniteSet(Streams \cup {Owner})
  BY StreamsAssumption, FS_AddElement
<1> QED
  BY <1>1, FS_Subset

LEMMA ClaimsAre ==
  ASSUME NEW f
  PROVE  /\ \A s \in Streams : s \in Claims(f) <=> held[s] = f /\ Claiming(s)
         /\ Owner \in Claims(f) <=> OwnerClaims(f)
         /\ Claims(f) \in SUBSET (Streams \cup {Owner})
BY StreamsAssumption DEF Claims

LEMMA ClaimsAreNext ==
  ASSUME NEW f
  PROVE  /\ \A s \in Streams : s \in Claims(f)' <=> held'[s] = f /\ Claiming(s)'
         /\ Owner \in Claims(f)' <=> OwnerClaims(f)'
         /\ Claims(f)' \in SUBSET (Streams \cup {Owner})
BY StreamsAssumption DEF Claims

(* Where no claim is added the counter stays good.                         *)
LEMMA FewerClaims ==
  ASSUME NotBelow, TypeOK, UNCHANGED holders, together => together',
         \A f \in Files : Claims(f)' \subseteq Claims(f)
  PROVE  NotBelow'
<1> SUFFICES ASSUME ~together', NEW f \in Files
             PROVE  holders'[f] >= Cardinality(Claims(f)')
  BY DEF NotBelow
<1>1. holders[f] >= Cardinality(Claims(f)) /\ holders[f] \in Int
  BY DEF NotBelow, TypeOK
<1>2. IsFiniteSet(Claims(f))
  BY ClaimsAre, FiniteClaims
<1> QED
  BY <1>1, <1>2, CountSubset

(* A claim is given up, and counted down.                                  *)
LEMMA OneClaimLess ==
  ASSUME NotBelow, TypeOK, together => together',
         NEW g \in Files \cup {NoFile}, holders' = CountedDown(g), NEW c,
         ~together' /\ g \in Files => c \in Claims(g) /\ Claims(g)' \subseteq Claims(g) \ {c},
         \A f \in Files \ {g} : Claims(f)' \subseteq Claims(f)
  PROVE  NotBelow'
<1> SUFFICES ASSUME ~together', NEW f \in Files
             PROVE  holders'[f] >= Cardinality(Claims(f)')
  BY DEF NotBelow
<1>1. holders[f] >= Cardinality(Claims(f)) /\ holders[f] \in Int
  BY DEF NotBelow, TypeOK
<1>2. IsFiniteSet(Claims(f)) /\ IsFiniteSet(Claims(f) \ {c})
  BY ClaimsAre, FiniteClaims
<1>3. CASE f = g
  <2>1. holders'[f] = holders[f] - 1
    BY <1>3, FilesAssumption DEF CountedDown, TypeOK
  <2>2. holders[f] - 1 >= Cardinality(Claims(f) \ {c})
    BY <1>1, <1>2, <1>3, CountRemove
  <2>3. Claims(f)' \in SUBSET (Claims(f) \ {c})
    BY <1>3
  <2>4. holders[f] - 1 \in Int
    BY <1>1
  <2> HIDE DEF Claims
  <2> QED
    BY <1>2, <2>1, <2>2, <2>3, <2>4, CountSubset
<1>4. CASE f # g
  <2>1. holders'[f] = holders[f]
    BY <1>4 DEF CountedDown, TypeOK
  <2> QED
    BY <1>1, <1>2, <1>4, <2>1, CountSubset
<1> QED
  BY <1>3, <1>4

(* A claim is made, and counted up.                                        *)
LEMMA OneClaimMore ==
  ASSUME NotBelow, TypeOK, together => together',
         NEW g \in Files \cup {NoFile}, holders' = CountedUp(g),
         NEW c \in Streams,
         g \in Files => Claims(g)' \subseteq Claims(g) \cup {c},
         \A f \in Files \ {g} : Claims(f)' \subseteq Claims(f)
  PROVE  NotBelow'
<1> SUFFICES ASSUME ~together', NEW f \in Files
             PROVE  holders'[f] >= Cardinality(Claims(f)')
  BY DEF NotBelow
<1>1. holders[f] >= Cardinality(Claims(f)) /\ holders[f] \in Int
  BY DEF NotBelow, TypeOK
<1>2. IsFiniteSet(Claims(f)) /\ IsFiniteSet(Claims(f) \cup {c})
  BY ClaimsAre, FiniteClaims
<1>3. CASE f = g
  <2>1. holders'[f] = holders[f] + 1
    BY <1>3, FilesAssumption DEF CountedUp, TypeOK
  <2>2. holders[f] + 1 >= Cardinality(Claims(f) \cup {c})
    BY <1>1, <1>2, CountAdd
  <2>3. Claims(f)' \in SUBSET (Claims(f) \cup {c})
    BY <1>3
  <2>4. holders[f] + 1 \in Int
    BY <1>1
  <2> QED
    BY <1>2, <2>1, <2>2, <2>3, <2>4, CountSubset
<1>4. CASE f # g
  <2>1. holders'[f] = holders[f]
    BY <1>4 DEF CountedUp, TypeOK
  <2> QED
    BY <1>1, <1>2, <1>4, <2>1, CountSubset
<1> QED
  BY <1>3, <1>4

(* One stream's step leaves the others and the archive alone.              *)
LEMMA OtherStreams ==
  ASSUME TypeOK, NEW s \in Streams, StreamStep(s)
  PROVE  /\ \A t \in Streams \ {s} :
              /\ stage'[t] = stage[t] /\ held'[t] = held[t] /\ closer'[t] = closer[t]
              /\ worker'[t] = worker[t] /\ streamPath'[t] = streamPath[t]
         /\ UNCHANGED archive
         /\ early \subseteq early' /\ early' \subseteq early \cup {s}
         /\ together => together'
         /\ \A f : OwnerClaims(f)' <=> OwnerClaims(f)
<1>1. UNCHANGED archive
  BY DEF StreamStep, OpeningStep, ClosingStep, OpenContext, EnterStream, Grab, Hold,
         Opened, OpenFails, FailRelease, FailDelete, WorkerRead, Collect, BeginClose,
         ShutStream, Release, Delete, apart
<1>2. \A t \in Streams \ {s} :
        /\ stage'[t] = stage[t] /\ held'[t] = held[t] /\ closer'[t] = closer[t]
        /\ worker'[t] = worker[t] /\ streamPath'[t] = streamPath[t]
  <2> USE DEF TypeOK, Stage
  <2>1. CASE OpenContext(s) \/ EnterStream(s) \/ Grab(s) \/ Hold(s) \/ Opened(s)
    BY <2>1 DEF OpenContext, EnterStream, Grab, Hold, Opened
  <2>2. CASE OpenFails(s) \/ FailRelease(s) \/ FailDelete(s) \/ WorkerRead(s) \/ Collect(s)
    BY <2>2 DEF OpenFails, FailRelease, FailDelete, WorkerRead, Collect, Forgotten
  <2>3. ASSUME NEW c \in Closers, BeginClose(s, c) \/ ClosingStep(s, c)
        PROVE  \A t \in Streams \ {s} : closer'[t] = closer[t]
    BY <2>3 DEF BeginClose, ClosingStep, ShutStream, Release, Delete, Moves
  <2>4. ASSUME NEW c \in Closers, BeginClose(s, c) \/ ClosingStep(s, c)
        PROVE  UNCHANGED <<stage, held, worker, streamPath>>
    BY <2>4 DEF BeginClose, ClosingStep, ShutStream, Release, Delete, apart
  <2>5. CASE \E c \in Closers : BeginClose(s, c) \/ ClosingStep(s, c)
    BY <2>3, <2>4, <2>5
  <2> QED
    BY <2>1, <2>2, <2>5, Zenon DEF StreamStep, OpeningStep
<1>3. /\ early \subseteq early' /\ early' \subseteq early \cup {s}
      /\ together => together'
  <2>1. CASE UNCHANGED early
    <3>1. together => together'
      BY DEF StreamStep, OpeningStep, ClosingStep, OpenContext, EnterStream, Grab, Hold,
             Opened, OpenFails, FailRelease, FailDelete, WorkerRead, Collect, BeginClose,
             ShutStream, Release, Delete, apart
    <3> QED
      BY <2>1, <3>1
  <2>2. CASE EnterStream(s)
    BY <2>2 DEF EnterStream
  <2> QED
    BY <2>1, <2>2
       DEF StreamStep, OpeningStep, ClosingStep, OpenContext, Grab, Hold, Opened,
           OpenFails, FailRelease, FailDelete, WorkerRead, Collect, BeginClose,
           ShutStream, Release, Delete, apart
<1>4. \A f : OwnerClaims(f)' <=> OwnerClaims(f)
  BY <1>1 DEF archive, entering, OwnerClaims
<1> QED
  BY <1>1, <1>2, <1>3, <1>4

(* What a step of a stream that opens, reads or closes does to the claims  *)
(* when it counts nothing.                                                 *)
LEMMA StreamKeepsClaims ==
  ASSUME TypeOK, StreamLives, CloserLives, NEW s \in Streams, StreamStep(s),
         UNCHANGED holders, NEW f \in Files
  PROVE  Claims(f)' \subseteq Claims(f)
<1>1. held'[s] = f /\ Claiming(s)' => held[s] = f /\ Claiming(s)
  <2> USE DEF TypeOK, Claiming, Unreleased, Stage, Moves
  <2>1. CASE OpenContext(s) \/ EnterStream(s)
    BY <2>1 DEF OpenContext, EnterStream
  <2>2. CASE Grab(s)
    BY <2>2 DEF Grab
  <2>3. CASE Hold(s)
    <3>1. held[s] # f
      <4>1. holders[held[s]] + 1 # holders[held[s]] \/ held[s] \notin Files
        OBVIOUS
      <4>2. held[s] \in Files => CountedUp(held[s])[held[s]] = holders[held[s]] + 1
        BY FilesAssumption DEF CountedUp
      <4> QED
        BY <2>3, <4>1, <4>2 DEF Hold
    <3> QED
      BY <2>3, <3>1 DEF Hold
  <2>4. CASE Opened(s) \/ OpenFails(s)
    BY <2>4 DEF Opened, OpenFails
  <2>5. CASE FailRelease(s) \/ FailDelete(s)
    BY <2>5 DEF FailRelease, FailDelete
  <2>6. CASE WorkerRead(s)
    BY <2>6 DEF WorkerRead
  <2>7. CASE Collect(s)
    BY <2>7 DEF Collect
  <2>8. ASSUME NEW c \in Closers, BeginClose(s, c)
        PROVE  held'[s] = f /\ Claiming(s)' => held[s] = f /\ Claiming(s)
    BY <2>8 DEF BeginClose, apart
  <2>9. ASSUME NEW c \in Closers, ShutStream(s, c)
        PROVE  held'[s] = f /\ Claiming(s)' => held[s] = f /\ Claiming(s)
    BY <2>9 DEF ShutStream, apart
  <2>10. ASSUME NEW c \in Closers, Release(s, c) \/ Delete(s, c)
         PROVE  held'[s] = f /\ Claiming(s)' => held[s] = f /\ Claiming(s)
    <3>1. stage'[s] = stage[s] /\ stage[s] = "open"
          /\ closer'[s][c] \in {"deleting", "released"}
      BY <2>10 DEF Release, Delete, apart, CloserLives
    <3> QED
      BY <3>1
  <2> QED
    BY <2>1, <2>2, <2>3, <2>4, <2>5, <2>6, <2>7, <2>8, <2>9, <2>10
       DEF StreamStep, OpeningStep, ClosingStep
<1>2. \A t \in Streams \ {s} : held'[t] = held[t] /\ (Claiming(t)' <=> Claiming(t))
  BY OtherStreams DEF Claiming, Unreleased
<1>3. OwnerClaims(f)' <=> OwnerClaims(f)
  BY OtherStreams
<1> QED
  BY <1>1, <1>2, <1>3, ClaimsAre, ClaimsAreNext

LEMMA SameStreams ==
  ASSUME UNCHANGED <<stage, held, closer>>, NEW f,
         OwnerClaims(f)' => OwnerClaims(f)
  PROVE  /\ Claims(f)' \subseteq Claims(f)
         /\ \A s \in Streams : Claiming(s)' <=> Claiming(s)
         /\ \A s \in Streams : Deleting(s)' <=> Deleting(s)
<1>1. \A s \in Streams : Claiming(s)' <=> Claiming(s)
  BY DEF Claiming, Unreleased
<1>2. \A s \in Streams : Deleting(s)' <=> Deleting(s)
  BY DEF Deleting
<1> QED
  BY <1>1, <1>2, ClaimsAre, ClaimsAreNext

LEMMA AttemptNotBelow ==
  ASSUME Lives, NotBelow, NEW a \in Attempts, AttemptStep(a)
  PROVE  NotBelow'
<1> USE DEF Becomes, stream
<1>1. TypeOK /\ Threads /\ Copies
  BY DEF Lives
<1>2. CASE Enter(a) \/ Look(a) \/ Resume(a) \/ Listed(a) \/ Cancel(a)
  <2>1. UNCHANGED <<holders, together, stage, held, closer, tempfile>>
    BY <1>2 DEF Enter, Look, Resume, Listed, Cancel
  <2>2. \A b \in Attempts : task[b] \in {"deleting", "forgetting"} => task'[b] = task[b]
    BY <1>1, <1>2 DEF Enter, Look, Resume, Listed, Cancel, TypeOK
  <2>3. \A f : OwnerClaims(f)' => OwnerClaims(f)
    BY <2>1, <2>2 DEF OwnerClaims
  <2> QED
    BY <1>1, <2>1, <2>3, SameStreams, FewerClaims
<1>3. CASE Copied(a)
  <2>1. /\ file[a] \in Files /\ disk[file[a]] = "copying"
        /\ holders' = [holders EXCEPT ![file[a]] = 1] /\ tempfile' = file[a]
        /\ UNCHANGED <<together, stage, held, closer, task>>
    BY <1>1, <1>3 DEF Copied, TypeOK, Copies, Copying
  <2> SUFFICES ASSUME ~together', NEW f \in Files
               PROVE  holders'[f] >= Cardinality(Claims(f)')
    BY DEF NotBelow
  <2>2. CASE f = file[a]
    <3>1. holders'[f] = 1
      BY <1>1, <2>1, <2>2 DEF TypeOK
    <3>2. \A s \in Streams : s \notin Claims(f)'
      BY <1>1, <2>1, <2>2, ClaimsAreNext DEF Copies, Fresh
    <3>3. Claims(f)' \in SUBSET {Owner}
      BY <3>2, ClaimsAreNext
    <3>4. Cardinality({Owner}) = 1 /\ IsFiniteSet({Owner})
      BY FS_Singleton, Zenon
    <3> QED
      BY <3>1, <3>3, <3>4, CountSubset
  <2>3. CASE f # file[a]
    <3>1. ~OwnerClaims(f)'
      BY <2>1, <2>3 DEF OwnerClaims
    <3>2. Claims(f)' \subseteq Claims(f)
      BY <2>1, <3>1, SameStreams
    <3>3. holders'[f] = holders[f] /\ holders[f] \in Int
          /\ holders[f] >= Cardinality(Claims(f))
      BY <1>1, <2>1, <2>3 DEF TypeOK, NotBelow
    <3>4. IsFiniteSet(Claims(f))
      BY ClaimsAre, FiniteClaims
    <3> QED
      BY <3>2, <3>3, <3>4, CountSubset
  <2> QED
    BY <2>2, <2>3
<1>4. CASE Close(a)
  <2>1. /\ holders' = CountedDown(tempfile) /\ tempfile \in Files \cup {NoFile}
        /\ task'[a] \in {"deleting", "forgetting"}
        /\ \A b \in Attempts : task[b] \notin {"deleting", "forgetting"}
        /\ UNCHANGED <<together, stage, held, closer, tempfile>>
    BY <1>1, <1>4 DEF Close, TypeOK, LoopFree
  <2>2. \A f : ~OwnerClaims(f)'
    BY <2>1 DEF OwnerClaims
  <2>3. OwnerClaims(tempfile)
    BY <2>1 DEF OwnerClaims
  <2>4. \A f : Claims(f)' \subseteq Claims(f) \ {Owner}
    BY <2>1, <2>2, SameStreams, ClaimsAreNext
  <2>5. Owner \in Claims(tempfile)
    BY <2>3, ClaimsAre
  <2> QED
    BY <1>1, <2>1, <2>4, <2>5, OneClaimLess
<1>5. CASE Forget(a)
  <2>1. tempfile' = NoFile /\ UNCHANGED <<holders, together, stage, held, closer>>
    BY <1>5 DEF Forget
  <2>2. \A f \in Files : ~OwnerClaims(f)'
    BY <2>1, FilesAssumption DEF OwnerClaims
  <2> QED
    BY <1>1, <2>1, <2>2, SameStreams, FewerClaims
<1> QED
  BY <1>2, <1>3, <1>4, <1>5 DEF AttemptStep

LEMMA StreamNotBelow ==
  ASSUME Lives, NotBelow, NEW s \in Streams, StreamStep(s)
  PROVE  NotBelow'
<1>1. TypeOK /\ StreamLives /\ CloserLives /\ OneCloser
  BY DEF Lives
<1>2. CASE UNCHANGED holders
  <2>1. \A f \in Files : Claims(f)' \subseteq Claims(f)
    BY <1>1, <1>2, StreamKeepsClaims
  <2> QED
    BY <1>1, <1>2, <2>1, OtherStreams, FewerClaims
<1>3. \A f, t : t \in Claims(f)' /\ t # s => t \in Claims(f)
  <2> SUFFICES ASSUME NEW f, NEW t \in Claims(f)', t # s PROVE t \in Claims(f)
    OBVIOUS
  <2>1. CASE t = Owner
    BY <1>1, <2>1, OtherStreams, ClaimsAre, ClaimsAreNext
  <2>2. CASE t \in Streams
    <3>1. held'[t] = held[t] /\ (Claiming(t)' <=> Claiming(t))
      BY <1>1, <2>2, OtherStreams DEF Claiming, Unreleased
    <3> QED
      BY <2>2, <3>1, ClaimsAre, ClaimsAreNext
  <2> QED
    BY <2>1, <2>2, ClaimsAreNext
<1>4. together => together'
  BY <1>1, OtherStreams
<1>5. CASE Hold(s)
  <2>1. holders' = CountedUp(held[s]) /\ held' = held /\ held[s] \in Files \cup {NoFile}
    BY <1>1, <1>5 DEF Hold, TypeOK
  <2>2. \A f \in Files \ {held[s]} : Claims(f)' \subseteq Claims(f)
    BY <1>3, <2>1, ClaimsAreNext
  <2>3. \A f : Claims(f)' \subseteq Claims(f) \cup {s}
    BY <1>3
  <2> QED
    BY <1>1, <1>4, <2>1, <2>2, <2>3, OneClaimMore
<1>6. ASSUME held[s] \in Files \cup {NoFile}, holders' = CountedDown(held[s]),
             held'[s] \in {held[s], NoFile}, ~Claiming(s)',
             ~together' /\ held[s] \in Files => Claiming(s)
      PROVE  NotBelow'
  <2>1. \A f : Claims(f)' \subseteq Claims(f) \ {s}
    BY <1>3, <1>6, ClaimsAreNext
  <2>2. ~together' /\ held[s] \in Files => s \in Claims(held[s])
    BY <1>6, ClaimsAre
  <2> QED
    BY <1>1, <1>4, <1>6, <2>1, <2>2, OneClaimLess
<1>7. CASE FailRelease(s)
  <2>1. /\ stage[s] = "failing" /\ stage'[s] \in {"deleting", "failed"}
        /\ held'[s] \in {held[s], NoFile} /\ held[s] \in Files \cup {NoFile}
        /\ holders' = CountedDown(held[s])
    BY <1>1, <1>7 DEF FailRelease, TypeOK, Stage
  <2> QED
    BY <1>6, <2>1 DEF Claiming
<1>8. ASSUME NEW c \in Closers, Release(s, c)
      PROVE  NotBelow'
  <2>1. /\ closer[s][c] = "releasing" /\ stage[s] = "open" /\ held[s] \in Files
        /\ held' = held /\ stage' = stage /\ together' = together
        /\ holders' = CountedDown(held[s])
    BY <1>1, <1>8 DEF Release, apart, CloserLives
  <2>2. closer'[s][c] \in {"deleting", "released"}
    BY <1>1, <1>8 DEF Release, Moves, TypeOK
  <2>3. ~together => Unreleased(s)
    BY <1>1, <2>1 DEF OneCloser, Closing, Unreleased
  <2>4. ~Claiming(s)'
    BY <2>1, <2>2 DEF Claiming, Unreleased
  <2>5. ~together' => Claiming(s)
    BY <2>1, <2>3 DEF Claiming
  <2> QED
    BY <1>6, <2>1, <2>4, <2>5
<1> QED
  BY <1>2, <1>5, <1>7, <1>8
     DEF StreamStep, OpeningStep, ClosingStep, OpenContext, EnterStream, Grab, Opened,
         OpenFails, FailDelete, WorkerRead, Collect, BeginClose, ShutStream, Delete

LEMMA NotBelowStep ==
  ASSUME Lives, NotBelow, [Next]_vars
  PROVE  NotBelow'
<1>0. TypeOK
  BY DEF Lives
<1>1. ASSUME NEW a \in Attempts, AttemptStep(a) PROVE NotBelow'
  BY <1>1, AttemptNotBelow
<1>2. ASSUME NEW s \in Streams, StreamStep(s) PROVE NotBelow'
  BY <1>2, StreamNotBelow
<1>3. ASSUME UNCHANGED <<holders, task, stage, held, closer, together>>,
             tempfile' \in {tempfile, NoFile}
      PROVE  NotBelow'
  <2>1. \A f \in Files : OwnerClaims(f)' => OwnerClaims(f)
    BY <1>3, FilesAssumption DEF OwnerClaims
  <2> QED
    BY <1>0, <1>3, <2>1, SameStreams, FewerClaims
<1>4. ASSUME NEW c \in Calls, StartCall(c) \/ RunCall(c) PROVE NotBelow'
  BY <1>3, <1>4 DEF StartCall, RunCall, entering, stream
<1>5. CASE Drop
  BY <1>3, <1>5 DEF Drop, entering, stream
<1>6. ASSUME NEW f \in Files, Finalize(f) PROVE NotBelow'
  BY <1>3, <1>6 DEF Finalize, entering, stream
<1>7. CASE UNCHANGED vars
  BY <1>3, <1>7 DEF vars, entering, stream
<1> QED
  BY <1>1, <1>2, <1>4, <1>5, <1>6, <1>7 DEF Next

LEMMA ArchiveFrame ==
  ASSUME [Next]_vars
  PROVE  \/ \E a \in Attempts : AttemptStep(a)
         \/ Drop
         \/ UNCHANGED <<entering, path, tempfile, overlap>>
<1>1. ASSUME NEW s \in Streams, StreamStep(s)
      PROVE  UNCHANGED <<entering, path, tempfile, overlap>>
  BY <1>1 DEF StreamStep, OpeningStep, ClosingStep, OpenContext, EnterStream, Grab, Hold,
              Opened, OpenFails, FailRelease, FailDelete, WorkerRead, Collect, BeginClose,
              ShutStream, Release, Delete, apart, archive
<1>2. ASSUME NEW c \in Calls, StartCall(c) \/ RunCall(c)
      PROVE  UNCHANGED <<entering, path, tempfile, overlap>>
  BY <1>2 DEF StartCall, RunCall
<1>3. ASSUME NEW f \in Files, Finalize(f)
      PROVE  UNCHANGED <<entering, path, tempfile, overlap>>
  BY <1>3 DEF Finalize
<1>4. CASE UNCHANGED vars
  BY <1>4 DEF vars
<1> QED
  BY <1>1, <1>2, <1>3, <1>4 DEF Next

LEMMA OwnCopyStep ==
  ASSUME Lives, ~overlap => CopiesAlone /\ OwnCopy, [Next]_vars
  PROVE  ~overlap' => CopiesAlone' /\ OwnCopy'
<1> USE DEF CopiesAlone, OwnCopy, Active, Busy, Becomes, Keeps
<1>0. TypeOK /\ OneActive /\ Threads
  BY DEF Lives
<1>1. ASSUME NEW a \in Attempts, AttemptStep(a)
      PROVE  ~overlap' => CopiesAlone' /\ OwnCopy'
  <2> USE <1>0 DEF TypeOK
  <2>1. CASE Enter(a)
    <3>1. /\ task' = [task EXCEPT ![a] = "entering"]
          /\ copier' = [copier EXCEPT ![a] = "looking"]
          /\ \A b \in Attempts : task[b] \in {"none", "left", "cancelled"}
          /\ UNCHANGED <<path, tempfile, file>>
          /\ ~overlap' => ~overlap /\ \A b \in Attempts : copier[b] \notin {"looking", "copying"}
      BY <2>1 DEF Enter
    <3>2. ~overlap' => CopiesAlone'
      BY <3>1
    <3>3. ~overlap' => OwnCopy'
      BY <3>1
    <3> QED
      BY <3>2, <3>3
  <2>2. CASE Look(a)
    <3>1. copier[a] = "looking" /\ UNCHANGED <<task, tempfile, path, overlap>>
      BY <2>2 DEF Look
    <3>2. task[a] \in {"entering", "cancelled"}
      BY <3>1 DEF Threads
    <3>3. \/ /\ copier' = [copier EXCEPT ![a] = "ended"] /\ tempfile \in Files
             /\ file' = [file EXCEPT ![a] = tempfile]
          \/ /\ copier' = [copier EXCEPT ![a] = "copying"]
             /\ \E f : file' = [file EXCEPT ![a] = f]
      BY <2>2 DEF Look, HasCopy
    <3> QED
      BY <3>1, <3>2, <3>3
  <2>3. CASE Copied(a)
    <3>1. /\ copier[a] = "copying" /\ copier' = [copier EXCEPT ![a] = "ended"]
          /\ tempfile' = file[a] /\ file[a] \in Files /\ UNCHANGED <<task, file, path, overlap>>
      BY <2>3 DEF Copied
    <3>2. task[a] \in {"entering", "cancelled"}
      BY <3>1 DEF Threads
    <3> QED
      BY <3>1, <3>2
  <2>4. CASE Resume(a)
    <3>1. /\ task[a] = "entering" /\ copier[a] = "ended" /\ path' = file[a]
          /\ task' = [task EXCEPT ![a] = "listing"]
          /\ UNCHANGED <<tempfile, file, copier, overlap>>
      BY <2>4 DEF Resume
    <3>2. ~overlap' => CopiesAlone'
      BY <3>1
    <3>3. ~overlap' => OwnCopy'
      BY <3>1 DEF OneActive
    <3> QED
      BY <3>2, <3>3
  <2>5. CASE Listed(a)
    BY <2>5 DEF Listed
  <2>6. CASE Cancel(a)
    BY <2>6 DEF Cancel
  <2>7. CASE Close(a)
    <3>1. /\ task[a] \in {"inside", "listing"} /\ task'[a] \in {"deleting", "forgetting"}
          /\ \A b \in Attempts \ {a} : task'[b] = task[b] /\ file'[b] = file[b]
          /\ UNCHANGED <<tempfile, path, copier, overlap>>
      BY <2>7 DEF Close
    <3>2. ~overlap' => CopiesAlone'
      BY <3>1
    <3>3. ~overlap' => OwnCopy'
      BY <3>1 DEF OneActive
    <3> QED
      BY <3>2, <3>3
  <2>8. CASE Forget(a)
    <3>1. /\ task[a] \in {"deleting", "forgetting"} /\ task' = [task EXCEPT ![a] = "left"]
          /\ UNCHANGED <<file, path, copier, overlap>>
      BY <2>8 DEF Forget
    <3> QED
      BY <3>1 DEF OneActive
  <2> QED
    BY <1>1, <2>1, <2>2, <2>3, <2>4, <2>5, <2>6, <2>7, <2>8 DEF AttemptStep
<1>2. CASE Drop
  BY <1>0, <1>2 DEF Drop, entering
<1>3. CASE UNCHANGED <<entering, path, tempfile, overlap>>
  BY <1>3 DEF entering
<1> QED
  BY <1>1, <1>2, <1>3, ArchiveFrame

LEMMA TameBefore == [Next]_vars /\ Tame' => Tame
<1> SUFFICES ASSUME [Next]_vars, Tame' PROVE Tame
  OBVIOUS
<1>1. overlap => overlap'
  <2>1. ASSUME NEW a \in Attempts, AttemptStep(a) PROVE overlap => overlap'
    BY <2>1 DEF AttemptStep, Enter, Look, Copied, Resume, Listed, Cancel, Close, Forget
  <2> QED
    BY <2>1, ArchiveFrame DEF Drop
<1>2. together => together'
  <2>1. ASSUME NEW s \in Streams, StreamStep(s) PROVE together => together'
    BY <2>1 DEF StreamStep, OpeningStep, ClosingStep, OpenContext, EnterStream, Grab, Hold,
         Opened, OpenFails, FailRelease, FailDelete, WorkerRead, Collect, BeginClose,
         ShutStream, Release, Delete, apart
  <2> QED
    BY <2>1, StreamFrame
<1> QED
  BY <1>1, <1>2 DEF Tame

(* A thread that finds no copy finds no claim of the archive either.       *)
LEMMA OneCopyStep ==
  ASSUME Lives, Kept, Tame, [Next]_vars
  PROVE  OneCopy'
<1>0. /\ TypeOK /\ Threads
      /\ CopiesAlone /\ OwnCopy /\ OneCopy /\ NotUnder
  BY DEF Lives, Kept, Tame
<1>1. ASSUME tempfile' \in {tempfile, NoFile},
             \A b \in Attempts : copier'[b] = "copying" => copier[b] = "copying"
      PROVE  OneCopy'
  BY <1>0, <1>1 DEF OneCopy
<1>2. ASSUME NEW a \in Attempts, AttemptStep(a)
      PROVE  OneCopy'
  <2> USE <1>0 DEF TypeOK
  <2>1. CASE Look(a)
    <3>1. CASE HasCopy
      BY <1>1, <2>1, <3>1 DEF Look
    <3>2. CASE ~HasCopy
      <4>1. \A b \in Attempts : task[b] \notin {"deleting", "forgetting"}
        BY <2>1 DEF Look, CopiesAlone, Active, Busy, Threads
      <4>2. tempfile = NoFile
        BY <3>2, <4>1 DEF HasCopy, NotUnder, Solid, OwnerClaims
      <4> QED
        BY <2>1, <4>2 DEF Look, OneCopy
    <3> QED
      BY <3>1, <3>2
  <2>2. CASE Copied(a)
    <3>1. \A b \in Attempts : copier'[b] # "copying"
      BY <2>2 DEF Copied, CopiesAlone, Busy
    <3> QED
      BY <3>1 DEF OneCopy
  <2>3. CASE Enter(a) \/ Resume(a) \/ Listed(a) \/ Cancel(a) \/ Close(a) \/ Forget(a)
    <3>1. tempfile' \in {tempfile, NoFile}
          /\ \A b \in Attempts : copier'[b] = "copying" => copier[b] = "copying"
      BY <2>3 DEF Enter, Resume, Listed, Cancel, Close, Forget
    <3> QED
      BY <1>1, <3>1
  <2> QED
    BY <1>2, <2>1, <2>2, <2>3 DEF AttemptStep
<1>3. CASE Drop
  BY <1>1, <1>3 DEF Drop, entering
<1>4. CASE UNCHANGED <<entering, path, tempfile, overlap>>
  BY <1>1, <1>4 DEF entering
<1> QED
  BY <1>2, <1>3, <1>4, ArchiveFrame

(* The life of a stream with a promise, until it claims, is inside a block.*)
LEMMA EarlyLivesStep ==
  ASSUME Lives, Kept, Tame, [Next]_vars
  PROVE  EarlyLives'
<1>0. /\ TypeOK /\ OneActive /\ Threads /\ StreamLives /\ CloserLives
      /\ CopiesAlone /\ OwnCopy /\ EarlyLives
  BY DEF Lives, Kept, Tame
<1>1. ASSUME UNCHANGED <<stage, held, streamPath>>, early' \in SUBSET early,
             \A s \in early' : stage[s] \in {"starting", "grabbed", "claimed"} =>
                                 Inside' /\ tempfile' = tempfile
      PROVE  EarlyLives'
  BY <1>0, <1>1 DEF EarlyLives
<1>2. ASSUME NEW a \in Attempts, AttemptStep(a)
      PROVE  EarlyLives'
  <2> USE <1>0 DEF TypeOK, stream, Becomes
  <2>1. CASE Close(a)
    <3>1. UNCHANGED <<stage, held, streamPath>> /\ early' = {s \in early : stage[s] = "open"}
      BY <2>1 DEF Close
    <3> QED
      BY <1>1, <3>1
  <2>2. CASE Copied(a) \/ Forget(a)
    <3>1. ~Inside
      BY <2>2 DEF Copied, Forget, Inside, CopiesAlone, OneActive, Active, Busy, Threads
    <3>2. UNCHANGED <<stage, held, streamPath, early>>
      BY <2>2 DEF Copied, Forget
    <3> QED
      BY <1>1, <3>1, <3>2 DEF EarlyLives
  <2>3. CASE Enter(a) \/ Look(a) \/ Resume(a) \/ Listed(a) \/ Cancel(a)
    <3>1. UNCHANGED <<stage, held, streamPath, early, tempfile>>
      BY <2>3 DEF Enter, Look, Resume, Listed, Cancel
    <3>2. \A b \in Attempts : task[b] = "inside" => task'[b] = "inside"
      BY <2>3 DEF Enter, Look, Resume, Listed, Cancel
    <3> QED
      BY <1>1, <3>1, <3>2 DEF EarlyLives, Inside
  <2> QED
    BY <1>2, <2>1, <2>2, <2>3 DEF AttemptStep
<1>3. ASSUME NEW s \in Streams, StreamStep(s)
      PROVE  EarlyLives'
  <2>0. /\ \A t \in Streams \ {s} : /\ stage'[t] = stage[t] /\ held'[t] = held[t]
                                    /\ streamPath'[t] = streamPath[t]
        /\ UNCHANGED archive /\ (Inside' <=> Inside)
        /\ early' \subseteq early \cup {s}
    BY <1>0, <1>3, OtherStreams DEF Inside, archive, entering
  <2>1. ASSUME s \in early' =>
                 /\ stage'[s] \notin {"none", "context"}
                 /\ stage'[s] \in {"starting", "grabbed", "claimed"} => Inside
                 /\ stage'[s] \in {"grabbed", "claimed"} => held'[s] = tempfile
                 /\ stage'[s] \in {"claimed", "open"} =>
                      held'[s] = streamPath'[s] /\ held'[s] \in Files
        PROVE  EarlyLives'
    BY <1>0, <2>0, <2>1 DEF EarlyLives, archive, TypeOK
  <2> USE <1>0 DEF TypeOK, Stage, EarlyLives
  <2>2. CASE OpenContext(s)
    BY <2>1, <2>2 DEF OpenContext
  <2>3. CASE EnterStream(s)
    BY <2>1, <2>3 DEF EnterStream
  <2>4. CASE Grab(s)
    BY <2>1, <2>4 DEF Grab
  <2>5. CASE Hold(s)
    <3>1. Inside => path = tempfile /\ tempfile \in Files
      BY DEF Inside, OwnCopy
    <3> QED
      BY <2>1, <2>5, <3>1 DEF Hold
  <2>6. CASE Opened(s)
    BY <2>1, <2>6 DEF Opened
  <2>7. CASE OpenFails(s)
    BY <2>1, <2>7 DEF OpenFails
  <2>8. CASE FailRelease(s)
    BY <2>1, <2>8 DEF FailRelease
  <2>9. CASE FailDelete(s)
    BY <2>1, <2>9 DEF FailDelete
  <2>10. CASE Collect(s)
    BY <2>1, <2>10 DEF Collect
  <2>11. CASE UNCHANGED <<stage, held, streamPath, early>>
    BY <2>1, <2>11
  <2> QED
    BY <1>3, <2>2, <2>3, <2>4, <2>5, <2>6, <2>7, <2>8, <2>9, <2>10, <2>11
       DEF StreamStep, OpeningStep, ClosingStep, WorkerRead, BeginClose, ShutStream,
           Release, Delete, apart
<1>4. CASE Drop
  <2>1. ~Inside /\ UNCHANGED <<stage, held, streamPath, early>>
    BY <1>4 DEF Drop, Inside, stream
  <2> QED
    BY <1>0, <1>1, <2>1 DEF EarlyLives
<1>5. ASSUME UNCHANGED <<entering, stream, tempfile>> PROVE EarlyLives'
  BY <1>0, <1>1, <1>5 DEF EarlyLives, Inside, entering, stream
<1> QED
  BY <1>2, <1>3, <1>4, <1>5 DEF Next, StartCall, RunCall, Finalize, vars

(* A step that makes no promise about a copy nor decides its deletion, and *)
(* does not delete it under a promise.                                     *)
LEMMA NotUnderFrame ==
  ASSUME NotUnder,
         \A f \in Files : Solid(f)' =>
           /\ Solid(f)
           /\ disk[f] = "present" => disk'[f] = "present"
           /\ \A s \in Streams : Deleting(s)' /\ held'[s] = f => Deleting(s) /\ held[s] = f
           /\ \A a \in Attempts : task'[a] = "deleting" /\ file'[a] = f =>
                                    task[a] = "deleting" /\ file[a] = f
  PROVE  NotUnder'
BY DEF NotUnder

(* A counter at zero leaves no promise.                                    *)
LEMMA NobodyLeft ==
  ASSUME TypeOK', NotBelow', Tame', early' \subseteq Streams,
         NEW f \in Files, holders'[f] =< 0
  PROVE  ~Solid(f)'
<1>1. holders'[f] >= Cardinality(Claims(f)') /\ holders'[f] \in Int
  BY DEF NotBelow, Tame, TypeOK
<1>2. Claims(f)' = {}
  BY <1>1, ClaimsAreNext, FiniteClaims, CountNone
<1> QED
  BY <1>2, ClaimsAreNext DEF Solid

LEMMA AttemptNotUnder ==
  ASSUME Lives, Kept, Tame, Tame', TypeOK', NotBelow', NEW a \in Attempts, AttemptStep(a)
  PROVE  NotUnder'
<1>0. TypeOK /\ Threads /\ Copies /\ NotUnder
  BY DEF Lives, Kept
<1> USE <1>0 DEF TypeOK, Becomes, Keeps
<1>1. ASSUME UNCHANGED <<stage, held, closer>>, early' \in SUBSET early, NEW f,
             OwnerClaims(f)' => OwnerClaims(f)
      PROVE  /\ Solid(f)' => Solid(f)
             /\ \A s \in Streams : Deleting(s)' /\ held'[s] = f => Deleting(s) /\ held[s] = f
  BY <1>1, SameStreams DEF Solid
<1>2. CASE Enter(a) \/ Resume(a) \/ Listed(a) \/ Cancel(a)
  <2>1. UNCHANGED <<stage, held, closer, early, disk, file, tempfile>>
    BY <1>2 DEF Enter, Resume, Listed, Cancel, stream
  <2>2. \A b \in Attempts : task'[b] = "deleting" => task[b] = "deleting"
    BY <1>2 DEF Enter, Resume, Listed, Cancel
  <2>3. \A b \in Attempts : task[b] \in {"deleting", "forgetting"} => task'[b] = task[b]
    BY <1>2 DEF Enter, Resume, Listed, Cancel
  <2>4. \A f : OwnerClaims(f)' => OwnerClaims(f)
    BY <2>1, <2>3 DEF OwnerClaims
  <2> QED
    BY <1>1, <2>1, <2>2, <2>4, NotUnderFrame
<1>3. CASE Look(a)
  <2>1. /\ UNCHANGED <<stage, held, closer, early, tempfile, task>>
        /\ \A f \in Files : disk[f] = "present" => disk'[f] = "present"
        /\ task[a] # "deleting" /\ \A b \in Attempts \ {a} : file'[b] = file[b]
    <3>1. UNCHANGED <<stage, held, closer, early, tempfile, task>>
      BY <1>3 DEF Look, stream
    <3>2. \A f \in Files : disk[f] = "present" => disk'[f] = "present"
      BY <1>3 DEF Look
    <3>3. task[a] # "deleting"
      BY <1>3 DEF Look, Threads, Busy
    <3>4. \A b \in Attempts \ {a} : file'[b] = file[b]
      BY <1>3 DEF Look
    <3> QED
      BY <3>1, <3>2, <3>3, <3>4
  <2>2. \A f : OwnerClaims(f)' => OwnerClaims(f)
    BY <2>1 DEF OwnerClaims
  <2> QED
    BY <1>1, <2>1, <2>2, NotUnderFrame
<1>4. CASE Copied(a)
  <2>1. /\ file[a] \in Files /\ disk[file[a]] = "copying"
        /\ disk' = [disk EXCEPT ![file[a]] = "present"] /\ tempfile' = file[a]
        /\ UNCHANGED <<stage, held, closer, early, task, file>>
    BY <1>4 DEF Copied, stream, Copies, Copying
  <2>2. ASSUME NEW f \in Files \ {file[a]}, Solid(f)'
        PROVE  Solid(f) /\ disk'[f] = disk[f]
    BY <1>1, <2>1, <2>2 DEF OwnerClaims
  <2>3. /\ \A s \in Streams : held'[s] # file[a]
        /\ \A b \in Attempts : task'[b] = "deleting" => file'[b] # file[a]
        /\ disk'[file[a]] = "present"
    BY <2>1 DEF Copies, Fresh
  <2>4. \A s \in Streams : Deleting(s)' <=> Deleting(s)
    BY <2>1 DEF Deleting
  <2> QED
    BY <2>1, <2>2, <2>3, <2>4 DEF NotUnder
<1>5. CASE Close(a)
  <2>1. /\ UNCHANGED <<stage, held, closer, disk, tempfile>> /\ early' \in SUBSET early
        /\ file' = [file EXCEPT ![a] = tempfile]
        /\ task' = [task EXCEPT ![a] = IF Last(tempfile) THEN "deleting" ELSE "forgetting"]
        /\ holders' = CountedDown(tempfile)
    BY <1>5 DEF Close
  <2>2. \A f : ~OwnerClaims(f)'
    BY <2>1 DEF OwnerClaims
  <2>3. Last(tempfile) => tempfile \in Files /\ ~Solid(tempfile)'
    <3>1. ASSUME Last(tempfile) PROVE tempfile \in Files /\ holders'[tempfile] =< 0
      BY <2>1, <3>1, FilesAssumption DEF Last, CountedDown
    <3>2. tempfile' = tempfile /\ early' \subseteq Streams
      BY <2>1
    <3> QED
      BY <3>1, <3>2, NobodyLeft
  <2>4. ASSUME NEW f \in Files, Solid(f)', NEW b \in Attempts, task'[b] = "deleting", file'[b] = f
        PROVE  task[b] = "deleting" /\ file[b] = f
    <3>1. CASE b = a
      <4>1. f = tempfile /\ Last(tempfile)
        BY <2>1, <2>4, <3>1
      <4> QED
        BY <2>1, <2>3, <2>4, <4>1
    <3>2. CASE b # a
      BY <2>1, <2>4, <3>2
    <3> QED
      BY <3>1, <3>2
  <2> QED
    BY <1>1, <2>1, <2>2, <2>4, NotUnderFrame
<1>6. CASE Forget(a)
  <2>1. /\ UNCHANGED <<stage, held, closer, early, file>>
        /\ task' = [task EXCEPT ![a] = "left"] /\ tempfile' = NoFile
        /\ disk' = IF task[a] = "deleting" THEN [disk EXCEPT ![file[a]] = "gone"] ELSE disk
    BY <1>6 DEF Forget, stream, Deleted
  <2>2. \A f \in Files : ~OwnerClaims(f)'
    BY <2>1, FilesAssumption DEF OwnerClaims
  <2>3. \A f \in Files : Solid(f)' => disk'[f] = disk[f]
    BY <1>1, <2>1, <2>2 DEF NotUnder
  <2> QED
    BY <1>1, <2>1, <2>2, <2>3, NotUnderFrame
<1> QED
  BY <1>2, <1>3, <1>4, <1>5, <1>6 DEF AttemptStep

LEMMA StreamNotUnder ==
  ASSUME Lives, Kept, Tame, Tame', TypeOK', NotBelow', NEW s \in Streams, StreamStep(s)
  PROVE  NotUnder'
<1>0. /\ TypeOK /\ OneActive /\ StreamLives /\ CloserLives
      /\ NotUnder /\ EarlyLives /\ OwnCopy
  BY DEF Lives, Kept, Tame
<1>1. /\ \A t \in Streams \ {s} :
           /\ held'[t] = held[t]
           /\ Claiming(t)' <=> Claiming(t)
           /\ Deleting(t)' <=> Deleting(t)
      /\ \A f : OwnerClaims(f)' <=> OwnerClaims(f)
      /\ early' \subseteq early \cup {s} /\ UNCHANGED <<task, file, tempfile>>
  BY <1>0, OtherStreams DEF Claiming, Unreleased, Deleting, archive, entering
<1>a. stage[s] \notin {"open", "collected"} => \A c \in Closers : closer[s][c] = "none"
  BY <1>0 DEF StreamLives
<1>b. stage \in [Streams -> {"none", "context", "starting", "grabbed", "claimed",
                            "failing", "deleting", "failed", "open", "collected"}]
  BY <1>0 DEF TypeOK
(* It is enough to look at the stream and at its copy.                     *)
<1>2. ASSUME \A f \in Files :
               s \in early' /\ held'[s] = f /\ Claiming(s)' => Solid(f),
             \A f \in Files : Solid(f)' /\ disk[f] = "present" => disk'[f] = "present",
             \A f \in Files : Solid(f)' /\ Deleting(s)' /\ held'[s] = f =>
                                Deleting(s) /\ held[s] = f
      PROVE  NotUnder'
  <2>1. ASSUME NEW f \in Files, Solid(f)' PROVE Solid(f)
    <3>1. CASE OwnerClaims(f)'
      BY <1>1, <3>1 DEF Solid
    <3>2. ASSUME NEW t \in early', held'[t] = f, Claiming(t)' PROVE Solid(f)
      <4>1. CASE t = s
        BY <1>2, <3>2, <4>1
      <4>2. CASE t # s
        BY <1>0, <1>1, <3>2, <4>2 DEF Solid, TypeOK
      <4> QED
        BY <4>1, <4>2
    <3> QED
      BY <2>1, <3>1, <3>2 DEF Solid
  <2>2. ASSUME NEW f \in Files, Solid(f)', NEW t \in Streams, Deleting(t)', held'[t] = f
        PROVE  Deleting(t) /\ held[t] = f
    BY <1>1, <1>2, <2>2
  <2>3. \A a \in Attempts : task'[a] = task[a] /\ file'[a] = file[a]
    BY <1>1
  <2> QED
    BY <1>0, <1>2, <2>1, <2>2, <2>3, NotUnderFrame
<1>3. ASSUME UNCHANGED disk,
             s \in early' /\ Claiming(s)' => s \in early /\ Claiming(s) /\ held'[s] = held[s],
             Deleting(s)' => Deleting(s) /\ held'[s] = held[s]
      PROVE  NotUnder'
  BY <1>2, <1>3 DEF Solid
<1> USE DEF Stage, Moves
<1>4. CASE OpenContext(s) \/ EnterStream(s)
  <2>1. stage'[s] \in {"context", "starting"} /\ UNCHANGED <<disk, closer>>
        /\ \A c \in Closers : closer[s][c] = "none"
    BY <1>4, <1>a, <1>b DEF OpenContext, EnterStream
  <2> QED
    BY <1>3, <2>1 DEF Claiming, Deleting
<1>5. CASE Grab(s)
  <2>1. stage'[s] = "grabbed" /\ UNCHANGED <<disk, closer>>
        /\ \A c \in Closers : closer[s][c] = "none"
    BY <1>5, <1>a, <1>b DEF Grab
  <2> QED
    BY <1>3, <2>1 DEF Claiming, Deleting
<1>6. CASE Hold(s)
  <2>1. /\ stage'[s] = "claimed" /\ UNCHANGED <<disk, closer, held, early>>
        /\ stage[s] = "grabbed" /\ \A c \in Closers : closer[s][c] = "none"
    BY <1>6, <1>a, <1>b DEF Hold
  <2>2. s \in early => held[s] = tempfile /\ OwnerClaims(tempfile)
    <3>1. s \in early => held[s] = tempfile /\ Inside
      BY <1>0, <2>1 DEF EarlyLives
    <3> QED
      BY <1>0, <3>1 DEF Inside, OwnerClaims, OneActive, Active
  <2> QED
    BY <1>2, <2>1, <2>2 DEF Solid, Deleting
<1>7. CASE Opened(s) \/ OpenFails(s)
  <2>1. stage[s] = "claimed" /\ stage'[s] \in {"open", "failing"}
        /\ UNCHANGED <<disk, closer, held, early>>
    BY <1>0, <1>7 DEF Opened, OpenFails, TypeOK
  <2> QED
    BY <1>3, <2>1 DEF Claiming, Deleting
<1>8. CASE WorkerRead(s)
  <2>1. UNCHANGED <<disk, stage, closer, held, early>>
    BY <1>8 DEF WorkerRead
  <2> QED
    BY <1>3, <2>1 DEF Claiming, Unreleased, Deleting
<1>9. CASE Collect(s)
  <2>1. stage' = [stage EXCEPT ![s] = "collected"] /\ UNCHANGED <<disk, closer>>
    BY <1>9 DEF Collect
  <2>2. stage'[s] = "collected"
    BY <1>0, <2>1 DEF TypeOK
  <2>3. \A c \in Closers : closer[s][c] # "deleting"
    BY <1>9 DEF Collect
  <2> QED
    BY <1>3, <2>1, <2>2, <2>3 DEF Claiming, Deleting
<1>10. ASSUME NEW c \in Closers, BeginClose(s, c) \/ ShutStream(s, c)
       PROVE  NotUnder'
  <2>1. /\ UNCHANGED <<disk, stage, held, early>>
        /\ \A d \in Closers : /\ closer'[s][d] = "deleting" => closer[s][d] = "deleting"
                              /\ closer[s][d] \in {"deleting", "released"} =>
                                   closer'[s][d] = closer[s][d]
    BY <1>0, <1>10 DEF BeginClose, ShutStream, apart, TypeOK
  <2> QED
    BY <1>3, <2>1 DEF Claiming, Unreleased, Deleting
(* The last claim is given up, and the deletion decided.                   *)
<1>11. ASSUME holders' = CountedDown(held[s]), UNCHANGED disk, ~Claiming(s)',
              Deleting(s)' => held'[s] = held[s] /\ (Last(held[s]) \/ Deleting(s)),
              early' = early
       PROVE  NotUnder'
  <2>1. ASSUME Last(held[s]), held'[s] = held[s] PROVE ~Solid(held[s])' /\ held[s] \in Files
    <3>1. held[s] \in Files /\ holders'[held[s]] =< 0
      BY <1>0, <1>11, <2>1, FilesAssumption DEF Last, CountedDown, TypeOK
    <3>2. early' \subseteq Streams
      BY <1>0, <1>11 DEF TypeOK
    <3>3. held[s]' = held[s]
      BY <2>1
    <3> QED
      BY <3>1, <3>2, <3>3, NobodyLeft
  <2> QED
    BY <1>2, <1>11, <2>1
<1>12. CASE FailRelease(s)
  <2>1. /\ holders' = CountedDown(held[s]) /\ UNCHANGED <<disk, closer, early>>
        /\ stage'[s] \in {"deleting", "failed"}
        /\ stage'[s] = "deleting" => Last(held[s]) /\ held' = held
        /\ \A c \in Closers : closer[s][c] = "none"
    BY <1>12, <1>a, <1>b DEF FailRelease
  <2> QED
    BY <1>11, <2>1 DEF Claiming, Deleting
<1>13. ASSUME NEW c \in Closers, Release(s, c)
       PROVE  NotUnder'
  <2>1. /\ holders' = CountedDown(held[s]) /\ UNCHANGED <<disk, stage, held, early>>
        /\ closer'[s][c] = IF Last(held[s]) THEN "deleting" ELSE "released"
        /\ \A d \in Closers \ {c} : closer'[s][d] = closer[s][d]
        /\ stage[s] = "open"
    BY <1>0, <1>13 DEF Release, apart, TypeOK, CloserLives
  <2>2. ~Claiming(s)' /\ (Deleting(s)' => Last(held[s]) \/ Deleting(s))
    BY <2>1 DEF Claiming, Unreleased, Deleting
  <2> QED
    BY <1>11, <2>1, <2>2
(* A deletion decided earlier is made.                                     *)
<1>14. ASSUME Deleting(s), disk' = Deleted(held[s]), ~Claiming(s)', early' = early,
              Deleting(s)' => held'[s] = held[s]
       PROVE  NotUnder'
  <2>1. ASSUME NEW f \in Files, Solid(f)' PROVE f # held[s]
    <3>1. CASE OwnerClaims(f)'
      BY <1>0, <1>1, <1>14, <3>1 DEF Solid, NotUnder
    <3>2. ASSUME NEW t \in early', held'[t] = f, Claiming(t)' PROVE f # held[s]
      <4>1. t # s /\ t \in early /\ t \in Streams
        BY <1>0, <1>14, <3>2 DEF TypeOK
      <4>2. Solid(f)
        BY <1>1, <3>2, <4>1 DEF Solid
      <4> QED
        BY <1>0, <1>14, <4>2 DEF NotUnder
    <3> QED
      BY <2>1, <3>1, <3>2 DEF Solid
  <2>2. \A f \in Files : f # held[s] => disk'[f] = disk[f]
    BY <1>0, <1>14 DEF Deleted, TypeOK
  <2> QED
    BY <1>2, <1>14, <2>1, <2>2
<1>15. CASE FailDelete(s)
  <2>1. /\ stage[s] = "deleting" /\ disk' = Deleted(held[s]) /\ stage'[s] = "failed"
        /\ UNCHANGED <<early, closer>> /\ \A c \in Closers : closer[s][c] = "none"
    BY <1>15, <1>a, <1>b DEF FailDelete
  <2> QED
    BY <1>14, <2>1 DEF Claiming, Deleting
<1>16. ASSUME NEW c \in Closers, Delete(s, c)
       PROVE  NotUnder'
  <2>1. /\ closer[s][c] = "deleting" /\ disk' = Deleted(held[s])
        /\ closer'[s][c] = "released" /\ UNCHANGED <<early, stage, held>>
        /\ stage[s] = "open"
    BY <1>0, <1>16 DEF Delete, apart, TypeOK, CloserLives
  <2>2. ~Claiming(s)' /\ Deleting(s)
    BY <2>1 DEF Claiming, Unreleased, Deleting
  <2> QED
    BY <1>14, <2>1, <2>2
<1> QED
  BY <1>4, <1>5, <1>6, <1>7, <1>8, <1>9, <1>10, <1>12, <1>13, <1>15, <1>16
     DEF StreamStep, OpeningStep, ClosingStep

LEMMA KeptStep ==
  ASSUME Lives, Kept, [Next]_vars
  PROVE  Kept'
<1>1. NotBelow'
  BY NotBelowStep DEF Kept
<1>2. ~overlap' => CopiesAlone' /\ OwnCopy'
  BY OwnCopyStep DEF Kept
<1>3. ASSUME Tame' PROVE OneCopy' /\ EarlyLives' /\ NotUnder'
  <2>1. Tame /\ TypeOK'
    BY <1>3, TameBefore, LivesStep DEF Lives
  <2>2. OneCopy' /\ EarlyLives'
    BY <2>1, OneCopyStep, EarlyLivesStep
  <2>3. NotUnder /\ TypeOK
    BY <2>1 DEF Kept, Lives
  <2>4. ASSUME NEW a \in Attempts, AttemptStep(a) PROVE NotUnder'
    BY <1>1, <1>3, <2>1, <2>4, AttemptNotUnder
  <2>5. ASSUME NEW s \in Streams, StreamStep(s) PROVE NotUnder'
    BY <1>1, <1>3, <2>1, <2>5, StreamNotUnder
  <2>6. ASSUME UNCHANGED <<entering, stream>>, tempfile' \in {tempfile, NoFile},
               \A f \in Files : Solid(f) /\ disk[f] = "present" => disk'[f] = "present"
        PROVE  NotUnder'
    <3>1. \A f \in Files : OwnerClaims(f)' => OwnerClaims(f)
      BY <2>6, FilesAssumption DEF OwnerClaims, entering
    <3>2. UNCHANGED <<stage, held, closer, early, task, file>>
      BY <2>6 DEF stream, entering
    <3>3. \A f \in Files : /\ Solid(f)' => Solid(f)
                           /\ \A s \in Streams : Deleting(s)' <=> Deleting(s)
      BY <3>1, <3>2, SameStreams, <2>3 DEF Solid, TypeOK
    <3> QED
      BY <2>3, <2>6, <3>2, <3>3, NotUnderFrame
  <2>7. ASSUME Drop PROVE NotUnder'
    BY <2>6, <2>7 DEF Drop
  <2>8. ASSUME NEW f \in Files, Finalize(f) PROVE NotUnder'
    <3>1. ~Solid(f)
      BY <2>3, <2>8 DEF Finalize, Solid, OwnerClaims, TypeOK
    <3>2. \A g \in Files \ {f} : disk'[g] = disk[g]
      BY <2>3, <2>8 DEF Finalize, Deleted, TypeOK
    <3> QED
      BY <2>6, <2>8, <3>1, <3>2 DEF Finalize
  <2>9. ASSUME NEW c \in Calls, StartCall(c) \/ RunCall(c) PROVE NotUnder'
    BY <2>6, <2>9 DEF StartCall, RunCall
  <2>10. ASSUME UNCHANGED vars PROVE NotUnder'
    BY <2>6, <2>10 DEF vars
  <2>11. NotUnder'
    BY <2>4, <2>5, <2>7, <2>8, <2>9, <2>10 DEF Next
  <2> QED
    BY <2>2, <2>11
<1> QED
  BY <1>1, <1>2, <1>3 DEF Kept

LEMMA KeptInit == Init => Kept
<1> SUFFICES ASSUME Init PROVE Kept
  OBVIOUS
<1>1. \A s \in Streams : ~Claiming(s)
  BY DEF Init, Claiming
<1>2. \A f \in Files : ~OwnerClaims(f)
  BY FilesAssumption DEF Init, OwnerClaims
<1>3. NotBelow
  <2> SUFFICES ASSUME NEW f \in Files PROVE holders[f] >= Cardinality(Claims(f))
    BY DEF NotBelow
  <2>1. Claims(f) = {}
    BY <1>1, <1>2, ClaimsAre
  <2> QED
    BY <2>1, FS_EmptySet DEF Init
<1>4. CopiesAlone /\ OwnCopy /\ OneCopy /\ EarlyLives
  BY DEF Init, CopiesAlone, OwnCopy, OneCopy, EarlyLives, Busy
<1>5. NotUnder
  BY <1>1, <1>2 DEF Init, NotUnder, Solid
<1> QED
  BY <1>3, <1>4, <1>5 DEF Kept

-----------------------------------------------------------------------------
(* File f, and no other, moves to state st and claims cl.                  *)
MovesTo(f, st, cl) ==
  /\ FileState(f)' = st /\ LiveClaims(f)' = cl
  /\ \A g \in Files : g # f =>
       FileState(g)' = FileState(g) /\ LiveClaims(g)' = LiveClaims(g)

LEMMA Moved ==
  ASSUME NEW f \in Files, NEW st, NEW cl, MovesTo(f, st, cl)
  PROVE  /\ fileState'  = [fileState  EXCEPT ![f] = st]
         /\ fileClaims' = [fileClaims EXCEPT ![f] = cl]
         /\ fileState[f] = FileState(f) /\ fileClaims[f] = LiveClaims(f)
BY DEF MovesTo, fileState, fileClaims

(* The abstract step is one of TempFileClaims, or none.                    *)
Maps == [ClaimsOf!Next]_(ClaimsOf!vars)

LEMMA Stutters ==
  ASSUME \A g \in Files :
           FileState(g)' = FileState(g) /\ LiveClaims(g)' = LiveClaims(g)
  PROVE  Maps
BY DEF Maps, ClaimsOf!vars, fileState, fileClaims

LEMMA MapsToMake ==
  ASSUME NEW f \in Files, FileState(f) = "unused", MovesTo(f, "present", {Owner})
  PROVE  Maps
BY Moved DEF Maps, ClaimsOf!Next, ClaimsOf!Make

LEMMA MapsToClaim ==
  ASSUME NEW f \in Files, NEW c \in Streams,
         FileState(f) = "present", LiveClaims(f) # {}, c \notin LiveClaims(f),
         MovesTo(f, "present", LiveClaims(f) \cup {c})
  PROVE  Maps
<1>1. fileState' = fileState
  BY DEF MovesTo, fileState
<1> QED
  BY <1>1, Moved DEF Maps, ClaimsOf!Next, ClaimsOf!Claim

LEMMA MapsToUnclaim ==
  ASSUME NEW f \in Files, NEW c \in Streams \cup {Owner},
         FileState(f) = "present", c \in LiveClaims(f),
         MovesTo(f, "present", LiveClaims(f) \ {c})
  PROVE  Maps
<1>1. fileState' = fileState
  BY DEF MovesTo, fileState
<1>2. ClaimsOf!Unclaim(f, c)
  BY <1>1, Moved DEF ClaimsOf!Unclaim
<1> QED
  BY <1>2 DEF Maps, ClaimsOf!Next

LEMMA MapsToRemove ==
  ASSUME NEW f \in Files, FileState(f) = "present", LiveClaims(f) = {},
         MovesTo(f, "removed", {})
  PROVE  Maps
<1>1. fileClaims' = fileClaims
  BY DEF MovesTo, fileClaims
<1> QED
  BY <1>1, Moved DEF Maps, ClaimsOf!Next, ClaimsOf!Remove

-----------------------------------------------------------------------------
LEMMA LiveClaimsAre ==
  ASSUME TypeOK, NEW f
  PROVE  /\ \A s \in Streams :
              s \in LiveClaims(f) <=>
                s \in early /\ stage[s] = "open" /\ held[s] = f /\ Unreleased(s)
         /\ Owner \in LiveClaims(f) <=> OwnerClaims(f)
         /\ LiveClaims(f) \subseteq Streams \cup {Owner}
         /\ LiveClaims(f) # {} => Solid(f)
BY StreamsAssumption DEF TypeOK, LiveClaims, Relying, Solid, Claiming

LEMMA LiveClaimsAreNext ==
  ASSUME TypeOK', NEW f
  PROVE  /\ \A s \in Streams :
              s \in LiveClaims(f)' <=>
                s \in early' /\ stage'[s] = "open" /\ held'[s] = f /\ Unreleased(s)'
         /\ Owner \in LiveClaims(f)' <=> OwnerClaims(f)'
         /\ LiveClaims(f)' \subseteq Streams \cup {Owner}
BY StreamsAssumption DEF TypeOK, LiveClaims, Relying

(* A deletion that somebody decided on, or that takes an unreferenced copy.*)
LEMMA DeletionMaps ==
  ASSUME TypeOK, NEW f \in Files, ~Solid(f), disk[f] \in {"present", "gone"},
         disk' = Deleted(f), \A g \in Files : LiveClaims(g)' = LiveClaims(g)
  PROVE  Maps
<1>1. LiveClaims(f) = {}
  BY LiveClaimsAre
<1>2. \A g \in Files : disk'[g] = IF g = f THEN "gone" ELSE disk[g]
  BY DEF Deleted, TypeOK
<1>3. FileState(f)' = "removed"
  BY <1>2 DEF FileState
<1>4. \A g \in Files : g # f => FileState(g)' = FileState(g)
  BY <1>2 DEF FileState
<1>5. CASE disk[f] = "present"
  <2>1. FileState(f) = "present"
    BY <1>5 DEF FileState
  <2>2. MovesTo(f, "removed", {})
    BY <1>1, <1>3, <1>4 DEF MovesTo
  <2> QED
    BY <1>1, <2>1, <2>2, MapsToRemove
<1>6. CASE disk[f] = "gone"
  <2>1. FileState(f) = "removed"
    BY <1>6 DEF FileState
  <2> QED
    BY <1>3, <1>4, <2>1, Stutters
<1> QED
  BY <1>5, <1>6

(* The archive's claim, if it has one, is given up.                        *)
LEMMA OwnerLeaves ==
  ASSUME TypeOK, TypeOK', NotUnder, UNCHANGED <<disk, stage, held, closer>>,
         \A s \in Streams : stage[s] = "open" => (s \in early' <=> s \in early),
         \A g \in Files : ~OwnerClaims(g)'
  PROVE  Maps
<1>1. \A g \in Files : FileState(g)' = FileState(g)
  BY DEF FileState
<1>2. \A g \in Files : LiveClaims(g)' = LiveClaims(g) \ {Owner}
  BY LiveClaimsAre, LiveClaimsAreNext, StreamsAssumption DEF Unreleased
<1>3. \A g \in Files : OwnerClaims(g) => g = tempfile
  BY DEF OwnerClaims
<1>4. CASE \E g \in Files : OwnerClaims(g)
  <2>1. PICK g \in Files : OwnerClaims(g)
    BY <1>4
  <2>2. \A h \in Files : h # g => LiveClaims(h)' = LiveClaims(h)
    BY <1>2, <1>3, <2>1, LiveClaimsAre
  <2>3. FileState(g) = "present" /\ Owner \in LiveClaims(g)
    BY <2>1, LiveClaimsAre DEF NotUnder, Solid, FileState
  <2>4. MovesTo(g, "present", LiveClaims(g) \ {Owner})
    BY <1>1, <1>2, <2>2, <2>3 DEF MovesTo
  <2> QED
    BY <2>3, <2>4, MapsToUnclaim
<1>5. CASE \A g \in Files : ~OwnerClaims(g)
  BY <1>1, <1>2, <1>5, LiveClaimsAre, Stutters
<1> QED
  BY <1>4, <1>5

LEMMA AttemptMaps ==
  ASSUME Lives, Kept, Tame, TypeOK', NEW a \in Attempts, AttemptStep(a)
  PROVE  Maps
<1>0. /\ TypeOK /\ OneActive /\ Threads /\ Copies
      /\ CopiesAlone /\ OneCopy /\ NotUnder
  BY DEF Lives, Kept, Tame
<1> USE <1>0 DEF TypeOK, Becomes, Keeps
<1>1. ASSUME UNCHANGED <<stage, held, closer, early>>, NEW f,
             OwnerClaims(f)' <=> OwnerClaims(f)
      PROVE  LiveClaims(f)' = LiveClaims(f)
  BY <1>1 DEF LiveClaims, Relying, Unreleased
<1>2. CASE Enter(a) \/ Look(a) \/ Resume(a) \/ Listed(a) \/ Cancel(a)
  <2>1. UNCHANGED <<stage, held, closer, early, tempfile>>
    BY <1>2 DEF Enter, Look, Resume, Listed, Cancel, stream
  <2>2. \A b \in Attempts : task'[b] \in {"deleting", "forgetting"} <=>
                              task[b] \in {"deleting", "forgetting"}
    BY <1>2 DEF Enter, Look, Resume, Listed, Cancel
  <2>3. \A f : OwnerClaims(f)' <=> OwnerClaims(f)
    BY <2>1, <2>2 DEF OwnerClaims
  <2>4. \A f \in Files : FileState(f)' = FileState(f)
    BY <1>2 DEF Enter, Look, Resume, Listed, Cancel, FileState
  <2> QED
    BY <1>1, <2>1, <2>3, <2>4, Stutters
<1>3. CASE Copied(a)
  <2>1. /\ file[a] \in Files /\ disk[file[a]] = "copying" /\ tempfile = NoFile
        /\ disk' = [disk EXCEPT ![file[a]] = "present"] /\ tempfile' = file[a]
        /\ UNCHANGED <<stage, held, closer, early, task>>
    BY <1>3 DEF Copied, stream, Copies, Copying, OneCopy
  <2>2. \A b \in Attempts : task[b] \notin {"deleting", "forgetting"}
    BY <1>3 DEF Copied, CopiesAlone, Active, Busy, Threads
  <2>3. \A f \in Files : ~OwnerClaims(f) /\ (OwnerClaims(f)' <=> f = file[a])
    BY <2>1, <2>2, FilesAssumption DEF OwnerClaims
  <2>4. \A f \in Files : f # file[a] =>
          LiveClaims(f)' = LiveClaims(f) /\ FileState(f)' = FileState(f)
    BY <1>1, <2>1, <2>3 DEF FileState
  <2>5. FileState(file[a]) = "unused"
    BY <2>1 DEF FileState
  <2>6. PICK f \in Files : f = file[a]
    BY <2>1
  <2>7. FileState(f)' = "present"
    BY <2>1, <2>6 DEF FileState
  <2>8. \A s \in Streams : held[s] # f
    BY <2>1, <2>6 DEF Copies, Fresh
  <2>9. LiveClaims(f)' = {Owner}
    BY <2>1, <2>3, <2>6, <2>8, LiveClaimsAreNext
  <2>10. MovesTo(f, "present", {Owner})
    BY <2>4, <2>6, <2>7, <2>9 DEF MovesTo
  <2> QED
    BY <2>5, <2>6, <2>10, MapsToMake
<1>4. CASE Close(a)
  <2>1. /\ UNCHANGED <<disk, stage, held, closer>>
        /\ early' = {s \in early : stage[s] = "open"}
        /\ task'[a] \in {"deleting", "forgetting"}
    BY <1>4 DEF Close
  <2>2. \A g : ~OwnerClaims(g)'
    BY <2>1 DEF OwnerClaims
  <2> QED
    BY <2>1, <2>2, OwnerLeaves
<1>5. CASE Forget(a)
  <2>1. /\ UNCHANGED <<stage, held, closer, early>> /\ tempfile' = NoFile
        /\ task[a] \in {"deleting", "forgetting"}
        /\ disk' = IF task[a] = "deleting" THEN Deleted(file[a]) ELSE disk
    BY <1>5 DEF Forget, stream
  <2>2. \A f \in Files : ~OwnerClaims(f) /\ ~OwnerClaims(f)'
    BY <2>1, FilesAssumption DEF OwnerClaims
  <2>3. \A f \in Files : LiveClaims(f)' = LiveClaims(f)
    BY <1>1, <2>1, <2>2
  <2>4. CASE task[a] = "deleting"
    <3>1. file[a] \in Files /\ disk[file[a]] \in {"present", "gone"}
      BY <2>4, KnownCopies
    <3>2. ~Solid(file[a])
      BY <2>4, <3>1 DEF NotUnder
    <3> QED
      BY <2>1, <2>3, <2>4, <3>1, <3>2, DeletionMaps
  <2>5. CASE task[a] # "deleting"
    BY <2>1, <2>3, <2>5, Stutters DEF FileState
  <2> QED
    BY <2>4, <2>5
<1> QED
  BY <1>2, <1>3, <1>4, <1>5 DEF AttemptStep

LEMMA StreamMaps ==
  ASSUME Lives, Kept, Tame, Tame', TypeOK', NEW s \in Streams, StreamStep(s)
  PROVE  Maps
<1>0. /\ TypeOK /\ OneActive /\ StreamLives /\ CloserLives /\ OneCloser /\ Copies
      /\ EarlyLives /\ NotUnder
  BY DEF Lives, Kept, Tame
<1>1. /\ \A t \in Streams \ {s} :
           /\ stage'[t] = stage[t] /\ held'[t] = held[t]
           /\ Unreleased(t)' <=> Unreleased(t)
           /\ t \in early' <=> t \in early
      /\ \A f : OwnerClaims(f)' <=> OwnerClaims(f)
      /\ early \subseteq early'
  BY <1>0, OtherStreams DEF Unreleased
<1>2. ASSUME NEW f,
             s \in early' /\ stage'[s] = "open" /\ held'[s] = f /\ Unreleased(s)' <=>
             s \in early /\ stage[s] = "open" /\ held[s] = f /\ Unreleased(s)
      PROVE  LiveClaims(f)' = LiveClaims(f)
  BY <1>0, <1>1, <1>2, LiveClaimsAre, LiveClaimsAreNext
<1>3. ASSUME UNCHANGED disk,
             \A f : s \in early' /\ stage'[s] = "open" /\ held'[s] = f /\ Unreleased(s)' <=>
                    s \in early /\ stage[s] = "open" /\ held[s] = f /\ Unreleased(s)
      PROVE  Maps
  BY <1>2, <1>3, Stutters DEF FileState
<1> USE DEF Stage, Moves
<1>4. stage[s] \notin {"open", "collected"} => \A c \in Closers : closer[s][c] = "none"
  BY <1>0 DEF StreamLives
<1>5. stage \in [Streams -> {"none", "context", "starting", "grabbed", "claimed",
                            "failing", "deleting", "failed", "open", "collected"}]
  BY <1>0 DEF TypeOK
<1>6. CASE OpenContext(s) \/ EnterStream(s) \/ Grab(s) \/ Hold(s) \/ OpenFails(s) \/ FailRelease(s)
  <2>1. stage[s] # "open" /\ stage'[s] # "open" /\ UNCHANGED disk
    BY <1>5, <1>6 DEF OpenContext, EnterStream, Grab, Hold, OpenFails, FailRelease
  <2> QED
    BY <1>3, <2>1
<1>7. CASE Opened(s)
  <2>1. /\ stage[s] = "claimed" /\ stage'[s] = "open" /\ disk[streamPath[s]] = "present"
        /\ UNCHANGED <<disk, held, closer, early>>
    BY <1>5, <1>7 DEF Opened
  <2>2. CASE s \notin early
    BY <1>3, <2>1, <2>2
  <2>3. CASE s \in early
    <3>1. held[s] \in Files /\ held[s] = streamPath[s] /\ held[s] = tempfile /\ Inside
      BY <1>0, <2>1, <2>3 DEF EarlyLives
    <3>2. PICK f \in Files : f = held[s]
      BY <3>1
    <3>3. OwnerClaims(f)
      BY <1>0, <3>1, <3>2 DEF Inside, OneActive, Active, OwnerClaims
    <3>4. LiveClaims(f) # {} /\ s \notin LiveClaims(f)
      BY <1>0, <2>1, <3>3, LiveClaimsAre
    <3>5. Unreleased(s)'
      BY <1>4, <2>1 DEF Unreleased
    <3>6. \A g \in Files : g # f => LiveClaims(g)' = LiveClaims(g)
      BY <1>2, <2>1, <3>2
    <3>7. LiveClaims(f)' = LiveClaims(f) \cup {s}
      BY <1>0, <1>1, <2>1, <2>3, <3>2, <3>5, LiveClaimsAre, LiveClaimsAreNext
    <3>8. FileState(f) = "present" /\ \A g \in Files : FileState(g)' = FileState(g)
      BY <2>1, <3>1, <3>2 DEF FileState
    <3>9. MovesTo(f, "present", LiveClaims(f) \cup {s})
      BY <3>6, <3>7, <3>8 DEF MovesTo
    <3> QED
      BY <3>4, <3>8, <3>9, MapsToClaim
  <2> QED
    BY <2>2, <2>3
<1>8. CASE WorkerRead(s)
  <2>1. UNCHANGED <<disk, stage, closer, held, early>>
    BY <1>8 DEF WorkerRead
  <2> QED
    BY <1>3, <2>1 DEF Unreleased
<1>9. CASE Collect(s)
  <2>1. /\ stage'[s] = "collected" /\ UNCHANGED disk /\ stage[s] = "open" /\ shut[s]
        /\ \A c \in Closers : closer[s][c] \in {"none", "released", "skipped"}
    BY <1>5, <1>9 DEF Collect
  <2>2. s \in early => ~Unreleased(s)
    <3>1. s \in early => held[s] \in Files
      BY <1>0, <2>1 DEF EarlyLives
    <3> QED
      BY <1>0, <2>1, <3>1, FilesAssumption DEF StreamLives, Unreleased
  <2> QED
    BY <1>3, <2>1, <2>2
<1>10. ASSUME NEW c \in Closers, BeginClose(s, c) \/ ShutStream(s, c)
       PROVE  Maps
  <2>1. UNCHANGED <<disk, stage, held, early>>
    BY <1>10 DEF BeginClose, ShutStream, apart
  <2>2. \A d \in Closers : closer'[s][d] \in {"deleting", "released"} <=>
                             closer[s][d] \in {"deleting", "released"}
    BY <1>0, <1>10 DEF BeginClose, ShutStream, TypeOK
  <2> QED
    BY <1>3, <2>1, <2>2 DEF Unreleased
<1>11. ASSUME NEW c \in Closers, Release(s, c)
       PROVE  Maps
  <2>1. /\ UNCHANGED <<disk, stage, held, early>> /\ stage[s] = "open"
        /\ closer[s][c] = "releasing" /\ closer'[s][c] \in {"deleting", "released"}
        /\ held[s] \in Files
    BY <1>0, <1>11 DEF Release, apart, TypeOK, CloserLives
  <2>2. ~Unreleased(s)' /\ Unreleased(s)
    BY <1>0, <2>1 DEF Unreleased, OneCloser, Closing, Tame
  <2>3. CASE s \notin early
    BY <1>3, <2>1, <2>3
  <2>4. CASE s \in early
    <3>1. PICK f \in Files : f = held[s]
      BY <2>1
    <3>2. s \in LiveClaims(f)
      BY <1>0, <2>1, <2>2, <2>4, <3>1, LiveClaimsAre
    <3>3. disk[f] = "present"
      BY <1>0, <3>2, LiveClaimsAre DEF NotUnder
    <3>4. \A g \in Files : g # f => LiveClaims(g)' = LiveClaims(g)
      BY <1>2, <2>1, <3>1
    <3>5. LiveClaims(f)' = LiveClaims(f) \ {s}
      BY <1>0, <1>1, <2>1, <2>2, <3>1, LiveClaimsAre, LiveClaimsAreNext, StreamsAssumption
    <3>6. FileState(f) = "present" /\ \A g \in Files : FileState(g)' = FileState(g)
      BY <2>1, <3>3 DEF FileState
    <3>7. MovesTo(f, "present", LiveClaims(f) \ {s})
      BY <3>4, <3>5, <3>6 DEF MovesTo
    <3> QED
      BY <3>2, <3>6, <3>7, MapsToUnclaim
  <2> QED
    BY <2>3, <2>4
<1>12. ASSUME Deleting(s), held[s] \in Files, disk' = Deleted(held[s]),
              \A f : LiveClaims(f)' = LiveClaims(f)
       PROVE  Maps
  <2>1. ~Solid(held[s]) /\ disk[held[s]] \in {"present", "gone"}
    BY <1>0, <1>12, KnownCopies DEF NotUnder, TypeOK
  <2> QED
    BY <1>0, <1>12, <2>1, DeletionMaps
<1>13. CASE FailDelete(s)
  <2>1. /\ stage[s] = "deleting" /\ disk' = Deleted(held[s]) /\ stage'[s] = "failed"
        /\ held[s] \in Files
    BY <1>0, <1>5, <1>13 DEF FailDelete, StreamLives
  <2>2. \A f : LiveClaims(f)' = LiveClaims(f)
    BY <1>2, <2>1
  <2> QED
    BY <1>12, <2>1, <2>2 DEF Deleting
<1>14. ASSUME NEW c \in Closers, Delete(s, c)
       PROVE  Maps
  <2>1. /\ closer[s][c] = "deleting" /\ disk' = Deleted(held[s]) /\ held[s] \in Files
        /\ closer'[s][c] = "released"
    BY <1>0, <1>14 DEF Delete, TypeOK, CloserLives
  <2>2. ~Unreleased(s) /\ ~Unreleased(s)' /\ Deleting(s)
    BY <2>1 DEF Unreleased, Deleting
  <2>3. \A f : LiveClaims(f)' = LiveClaims(f)
    BY <1>2, <2>2
  <2> QED
    BY <1>12, <2>1, <2>2, <2>3
<1> QED
  BY <1>6, <1>7, <1>8, <1>9, <1>10, <1>11, <1>13, <1>14
     DEF StreamStep, OpeningStep, ClosingStep

LEMMA StepMaps ==
  ASSUME Lives, Kept, [Next]_vars, Tame'
  PROVE  Maps
<1>0. Tame /\ TypeOK /\ TypeOK' /\ NotUnder
  BY TameBefore, LivesStep DEF Lives, Kept
<1>1. ASSUME NEW a \in Attempts, AttemptStep(a) PROVE Maps
  BY <1>0, <1>1, AttemptMaps
<1>2. ASSUME NEW s \in Streams, StreamStep(s) PROVE Maps
  BY <1>0, <1>2, StreamMaps
<1>3. CASE Drop
  <2>1. UNCHANGED <<disk, stage, held, closer, early>> /\ tempfile' = NoFile
    BY <1>3 DEF Drop, stream
  <2>2. \A g \in Files : ~OwnerClaims(g)'
    BY <2>1, FilesAssumption DEF OwnerClaims
  <2> QED
    BY <1>0, <2>1, <2>2, OwnerLeaves
<1>4. ASSUME UNCHANGED <<tempfile, entering, stream>>
      PROVE  \A f : LiveClaims(f)' = LiveClaims(f)
  BY <1>4 DEF LiveClaims, Relying, Unreleased, OwnerClaims, entering, stream
<1>5. ASSUME NEW f \in Files, Finalize(f) PROVE Maps
  <2>1. ~Solid(f) /\ disk[f] = "present" /\ disk' = Deleted(f)
    BY <1>0, <1>5 DEF Finalize, Solid, OwnerClaims, TypeOK
  <2>2. \A g : LiveClaims(g)' = LiveClaims(g)
    BY <1>4, <1>5 DEF Finalize
  <2> QED
    BY <1>0, <2>1, <2>2, DeletionMaps
<1>6. ASSUME NEW c \in Calls, StartCall(c) \/ RunCall(c) PROVE Maps
  BY <1>4, <1>6, Stutters DEF StartCall, RunCall, FileState
<1>7. CASE UNCHANGED vars
  BY <1>4, <1>7, Stutters DEF vars, FileState
<1> QED
  BY <1>1, <1>2, <1>3, <1>5, <1>6, <1>7 DEF Next

-----------------------------------------------------------------------------
(* Nothing was cancelled, so an attempt whose thread copies is the one in  *)
(* progress.                                                               *)
LEMMA NoneCancelledBefore ==
  ASSUME TypeOK, [Next]_vars, NoneCancelled'
  PROVE  NoneCancelled
<1> USE DEF NoneCancelled, TypeOK, Becomes
<1>1. ASSUME NEW a \in Attempts, AttemptStep(a)
      PROVE  NoneCancelled
  BY <1>1 DEF AttemptStep, Enter, Look, Copied, Resume, Listed, Cancel, Close, Forget, LoopFree
<1>2. CASE UNCHANGED entering
  BY <1>2 DEF entering
<1> QED
  BY <1>1, <1>2, AttemptFrame

LEMMA HasAttemptStep ==
  ASSUME Lives, NoneCancelled, NoneCancelled', HasAttempt, [Next]_vars
  PROVE  HasAttempt'
<1>0. TypeOK /\ OneActive /\ Threads
  BY DEF Lives
<1> USE <1>0 DEF HasAttempt, Active, Becomes, TypeOK
<1>1. ASSUME NEW a \in Attempts, AttemptStep(a)
      PROVE  HasAttempt'
  <2>1. CASE Enter(a)
    BY <2>1 DEF Enter
  <2>2. CASE Look(a) \/ Copied(a)
    <3>1. task[a] = "entering" /\ copier[a] # "ended"
      BY <2>2 DEF Look, Copied, Threads, Busy, NoneCancelled
    <3>2. tempfile = NoFile
      BY <3>1 DEF OneActive
    <3>3. CASE Look(a)
      BY <3>2, <3>3 DEF Look
    <3>4. CASE Copied(a)
      BY <3>1, <3>4 DEF Copied
    <3> QED
      BY <2>2, <3>3, <3>4
  <2>3. CASE Resume(a)
    BY <2>3 DEF Resume
  <2>4. CASE Listed(a)
    BY <2>4 DEF Listed
  <2>5. CASE Cancel(a)
    BY <2>5 DEF Cancel, NoneCancelled
  <2>6. CASE Close(a)
    BY <2>6 DEF Close
  <2>7. CASE Forget(a)
    BY <2>7 DEF Forget
  <2> QED
    BY <1>1, <2>1, <2>2, <2>3, <2>4, <2>5, <2>6, <2>7 DEF AttemptStep
<1>2. CASE Drop
  BY <1>2 DEF Drop
<1>3. CASE UNCHANGED <<entering, path, tempfile, overlap>>
  BY <1>3 DEF entering
<1> QED
  BY <1>1, <1>2, <1>3, ArchiveFrame

(* What is counted is claimed: a step that counts nothing drops no claim.  *)
LEMMA NoClaimDropped ==
  ASSUME TypeOK, StreamLives, CloserLives, NEW s \in Streams, StreamStep(s),
         NEW f \in Files,
         held[s] = f => ~FailRelease(s) /\ \A c \in Closers : ~Release(s, c)
  PROVE  Claims(f) \subseteq Claims(f)'
<1>1. ASSUME held[s] = f, Claiming(s) PROVE held'[s] = f /\ Claiming(s)'
  <2> USE <1>1 DEF Stage, Moves, Claiming, Unreleased
  <2>1. stage[s] \in {"claimed", "failing", "open"}
        /\ (stage[s] # "open" => \A c \in Closers : closer[s][c] = "none")
    BY DEF StreamLives
  <2>2. CASE Opened(s) \/ OpenFails(s)
    BY <2>1, <2>2 DEF Opened, OpenFails, TypeOK
  <2>3. CASE WorkerRead(s)
    BY <2>3 DEF WorkerRead
  <2>4. CASE Collect(s)
    <3>1. PICK c \in Closers : closer[s][c] \in {"releasing", "deleting", "released"}
      BY <2>1, <2>4, FilesAssumption DEF Collect, StreamLives
    <3>2. closer[s][c] = "released"
      BY <2>4, <3>1 DEF Collect
    <3> QED
      BY <2>4, <3>2 DEF Collect
  <2>5. ASSUME NEW c \in Closers, BeginClose(s, c) \/ ShutStream(s, c)
        PROVE  held'[s] = f /\ Claiming(s)'
    <3>1. UNCHANGED <<stage, held>> /\ stage[s] = "open"
      BY <2>5 DEF BeginClose, ShutStream, apart, CloserLives
    <3>2. \A d \in Closers : closer'[s][d] \in {"deleting", "released"} =>
                               closer[s][d] \in {"deleting", "released"}
      BY <2>5 DEF BeginClose, ShutStream, TypeOK
    <3> QED
      BY <3>1, <3>2
  <2>6. ASSUME NEW c \in Closers, Delete(s, c)
        PROVE  held'[s] = f /\ Claiming(s)'
    BY <2>1, <2>6 DEF Delete, CloserLives
  <2> QED
    BY <1>1, <2>1, <2>2, <2>3, <2>4, <2>5, <2>6
       DEF StreamStep, OpeningStep, ClosingStep, OpenContext, EnterStream, Grab, Hold,
           FailDelete
<1>2. \A t \in Streams \ {s} : held'[t] = held[t] /\ (Claiming(t)' <=> Claiming(t))
  BY OtherStreams DEF Claiming, Unreleased
<1>3. OwnerClaims(f)' <=> OwnerClaims(f)
  BY OtherStreams
<1> QED
  BY <1>1, <1>2, <1>3, ClaimsAre, ClaimsAreNext

LEMMA CountStays ==
  ASSUME TypeOK, NotAbove, NEW f \in Files, holders'[f] = holders[f],
         disk'[f] = "present" => disk[f] = "present",
         Claims(f) \subseteq Claims(f)'
  PROVE  disk'[f] = "present" => holders'[f] =< Cardinality(Claims(f)')
<1>1. disk[f] = "present" => holders[f] =< Cardinality(Claims(f)) /\ holders[f] \in Int
  BY DEF NotAbove, TypeOK
<1>2. IsFiniteSet(Claims(f)') /\ Claims(f) \in SUBSET Claims(f)'
  BY ClaimsAreNext, FiniteClaims
<1> QED
  BY <1>1, <1>2, CountedSuperset

LEMMA CountFalls ==
  ASSUME TypeOK, NotAbove, NEW f \in Files, holders' = CountedDown(f), NEW c,
         disk'[f] = "present" => disk[f] = "present",
         Claims(f) \ {c} \subseteq Claims(f)'
  PROVE  disk'[f] = "present" => holders'[f] =< Cardinality(Claims(f)')
<1>1. disk[f] = "present" => holders[f] =< Cardinality(Claims(f)) /\ holders[f] \in Int
  BY DEF NotAbove, TypeOK
<1>2. IsFiniteSet(Claims(f)') /\ (Claims(f) \ {c}) \in SUBSET Claims(f)'
  BY ClaimsAreNext, FiniteClaims
<1>3. IsFiniteSet(Claims(f))
  BY ClaimsAre, FiniteClaims
<1>4. holders'[f] = holders[f] - 1 /\ holders[f] - 1 \in Int
  BY FilesAssumption DEF CountedDown, TypeOK
<1>5. disk[f] = "present" => holders[f] - 1 =< Cardinality(Claims(f) \ {c})
  BY <1>1, <1>3, CountedRemove
<1> QED
  BY <1>2, <1>4, <1>5, CountedSuperset

LEMMA CountRises ==
  ASSUME TypeOK, NotAbove, NEW f \in Files, holders' = CountedUp(f), NEW c,
         c \notin Claims(f),
         disk'[f] = "present" => disk[f] = "present",
         Claims(f) \cup {c} \subseteq Claims(f)'
  PROVE  disk'[f] = "present" => holders'[f] =< Cardinality(Claims(f)')
<1>1. disk[f] = "present" => holders[f] =< Cardinality(Claims(f)) /\ holders[f] \in Int
  BY DEF NotAbove, TypeOK
<1>2. IsFiniteSet(Claims(f)') /\ (Claims(f) \cup {c}) \in SUBSET Claims(f)'
  BY ClaimsAreNext, FiniteClaims
<1>3. IsFiniteSet(Claims(f))
  BY ClaimsAre, FiniteClaims
<1>4. holders'[f] = holders[f] + 1 /\ holders[f] + 1 \in Int
  BY FilesAssumption DEF CountedUp, TypeOK
<1>5. disk[f] = "present" => holders[f] + 1 =< Cardinality(Claims(f) \cup {c})
  BY <1>1, <1>3, CountedAdd
<1> QED
  BY <1>2, <1>4, <1>5, CountedSuperset

(* The counter of another copy than the one at hand stays.                 *)
LEMMA OtherCounts ==
  ASSUME TypeOK, NEW f, NEW g \in Files, f # g
  PROVE  CountedUp(f)[g] = holders[g] /\ CountedDown(f)[g] = holders[g]
BY DEF CountedUp, CountedDown, TypeOK

LEMMA AttemptNotAbove ==
  ASSUME Lives, NoneCancelled, HasAttempt, NotAbove, NEW a \in Attempts, AttemptStep(a)
  PROVE  NotAbove'
<1>0. TypeOK /\ OneActive /\ Threads /\ Copies
  BY DEF Lives
<1> USE <1>0 DEF TypeOK, Becomes
<1> SUFFICES ASSUME NEW f \in Files
             PROVE  disk'[f] = "present" => holders'[f] =< Cardinality(Claims(f)')
  BY DEF NotAbove
<1>1. ASSUME UNCHANGED <<stage, held, closer>>
      PROVE  \A s \in Streams : s \in Claims(f)' <=> s \in Claims(f)
  BY <1>1, ClaimsAre, ClaimsAreNext DEF Claiming, Unreleased
<1>2. CASE Enter(a) \/ Look(a) \/ Resume(a) \/ Listed(a) \/ Cancel(a)
  <2>1. UNCHANGED <<holders, stage, held, closer, tempfile>>
    BY <1>2 DEF Enter, Look, Resume, Listed, Cancel, stream
  <2>2. \A b \in Attempts : task'[b] \in {"deleting", "forgetting"} =>
                              task[b] \in {"deleting", "forgetting"}
    BY <1>2 DEF Enter, Look, Resume, Listed, Cancel
  <2>3. Claims(f) \subseteq Claims(f)'
    <3>1. OwnerClaims(f) => OwnerClaims(f)'
      BY <2>1, <2>2 DEF OwnerClaims
    <3> QED
      BY <1>1, <2>1, <3>1, ClaimsAre, ClaimsAreNext
  <2>4. disk'[f] = "present" => disk[f] = "present"
    BY <1>2 DEF Enter, Look, Resume, Listed, Cancel
  <2> QED
    BY <2>1, <2>3, <2>4, CountStays
<1>3. CASE Copied(a)
  <2>1. /\ file[a] \in Files /\ copier[a] = "copying" /\ tempfile' = file[a]
        /\ disk' = [disk EXCEPT ![file[a]] = "present"]
        /\ holders' = [holders EXCEPT ![file[a]] = 1]
        /\ UNCHANGED <<stage, held, closer, task>>
    BY <1>3 DEF Copied, stream
  <2>2. task[a] = "entering"
    BY <2>1 DEF Threads, Busy, NoneCancelled
  <2>3. tempfile = NoFile /\ \A b \in Attempts : task[b] \notin {"deleting", "forgetting"}
    BY <2>1, <2>2 DEF HasAttempt, OneActive, Active
  <2>4. CASE f = file[a]
    <3>1. Owner \in Claims(f)'
      BY <2>1, <2>3, <2>4, ClaimsAreNext DEF OwnerClaims
    <3>2. Cardinality({Owner}) = 1 /\ {Owner} \in SUBSET Claims(f)'
      BY <3>1, FS_Singleton
    <3>3. IsFiniteSet(Claims(f)')
      BY ClaimsAreNext, FiniteClaims
    <3>4. holders'[f] = 1
      BY <2>1, <2>4
    <3> QED
      BY <3>2, <3>3, <3>4, CountedSuperset
  <2>5. CASE f # file[a]
    <3>1. ~OwnerClaims(f)
      BY <2>3, FilesAssumption DEF OwnerClaims
    <3>2. Claims(f) \subseteq Claims(f)'
      BY <1>1, <2>1, <3>1, ClaimsAre
    <3>3. holders'[f] = holders[f] /\ disk'[f] = disk[f]
      BY <2>1, <2>5
    <3> QED
      BY <3>2, <3>3, CountStays
  <2> QED
    BY <2>4, <2>5
<1>4. CASE Close(a)
  <2>1. /\ holders' = CountedDown(tempfile) /\ UNCHANGED <<stage, held, closer, disk>>
    BY <1>4 DEF Close
  <2>2. Claims(f) \ {Owner} \subseteq Claims(f)'
    BY <1>1, <2>1, ClaimsAre
  <2>3. CASE f = tempfile
    BY <2>1, <2>2, <2>3, CountFalls
  <2>4. CASE f # tempfile
    <3>1. Claims(f) \subseteq Claims(f)'
      BY <2>2, <2>4, ClaimsAre DEF OwnerClaims
    <3>2. holders'[f] = holders[f]
      BY <2>1, <2>4, OtherCounts
    <3> QED
      BY <2>1, <3>1, <3>2, CountStays
  <2> QED
    BY <2>3, <2>4
<1>5. CASE Forget(a)
  <2>1. UNCHANGED <<stage, held, closer, holders>> /\ ~OwnerClaims(f)
    BY <1>5 DEF Forget, stream, OwnerClaims
  <2>2. Claims(f) \subseteq Claims(f)'
    BY <1>1, <2>1, ClaimsAre
  <2>3. disk'[f] = "present" => disk[f] = "present"
    BY <1>5 DEF Forget, Deleted
  <2> QED
    BY <2>1, <2>2, <2>3, CountStays
<1> QED
  BY <1>2, <1>3, <1>4, <1>5 DEF AttemptStep

LEMMA StreamNotAbove ==
  ASSUME Lives, NotAbove, NEW s \in Streams, StreamStep(s)
  PROVE  NotAbove'
<1>0. TypeOK /\ StreamLives /\ CloserLives
  BY DEF Lives
<1> SUFFICES ASSUME NEW f \in Files
             PROVE  disk'[f] = "present" => holders'[f] =< Cardinality(Claims(f)')
  BY DEF NotAbove
<1>1. disk'[f] = "present" => disk[f] = "present"
  BY <1>0 DEF StreamStep, OpeningStep, ClosingStep, OpenContext, EnterStream, Grab, Hold,
         Opened, OpenFails, FailRelease, FailDelete, WorkerRead, Collect, BeginClose,
         ShutStream, Release, Delete, TypeOK, Deleted
<1>2. CASE UNCHANGED holders /\ Claims(f) \subseteq Claims(f)'
  BY <1>0, <1>1, <1>2, CountStays
<1>3. \A t : t \in Claims(f) /\ t # s => t \in Claims(f)'
  <2>1. \A t \in Streams \ {s} : held'[t] = held[t] /\ (Claiming(t)' <=> Claiming(t))
    BY <1>0, OtherStreams DEF Claiming, Unreleased
  <2>2. OwnerClaims(f)' <=> OwnerClaims(f)
    BY <1>0, OtherStreams
  <2> QED
    BY <2>1, <2>2, ClaimsAre, ClaimsAreNext
<1>4. ASSUME holders' = CountedDown(held[s])
      PROVE  disk'[f] = "present" => holders'[f] =< Cardinality(Claims(f)')
  <2>1. CASE held[s] = f
    <3>1. Claims(f) \ {s} \subseteq Claims(f)'
      BY <1>3
    <3> QED
      BY <1>0, <1>1, <1>4, <2>1, <3>1, CountFalls
  <2>2. CASE held[s] # f
    <3>1. Claims(f) \subseteq Claims(f)'
      BY <1>3, <2>2, ClaimsAre
    <3>2. holders'[f] = holders[f]
      BY <1>0, <1>4, <2>2, OtherCounts
    <3> QED
      BY <1>0, <1>1, <3>1, <3>2, CountStays
  <2> QED
    BY <2>1, <2>2
<1>5. CASE FailRelease(s) \/ \E c \in Closers : Release(s, c)
  BY <1>4, <1>5 DEF FailRelease, Release
<1>6. CASE Hold(s)
  <2>1. /\ holders' = CountedUp(held[s]) /\ held' = held /\ stage[s] = "grabbed"
        /\ stage'[s] = "claimed"
    BY <1>0, <1>6 DEF Hold, Stage, TypeOK
  <2>2. s \notin Claims(f) /\ (held[s] = f => s \in Claims(f)')
    BY <2>1, ClaimsAre, ClaimsAreNext DEF Claiming
  <2>3. CASE held[s] = f
    <3>1. Claims(f) \cup {s} \subseteq Claims(f)'
      BY <1>3, <2>2, <2>3
    <3> QED
      BY <1>0, <1>1, <2>1, <2>2, <2>3, <3>1, CountRises
  <2>4. CASE held[s] # f
    <3>1. Claims(f) \subseteq Claims(f)'
      BY <1>3, <2>2
    <3>2. holders'[f] = holders[f]
      BY <1>0, <2>1, <2>4, OtherCounts
    <3> QED
      BY <1>0, <1>1, <3>1, <3>2, CountStays
  <2> QED
    BY <2>3, <2>4
<1>7. CASE ~Hold(s) /\ ~FailRelease(s) /\ \A c \in Closers : ~Release(s, c)
  <2>1. Claims(f) \subseteq Claims(f)'
    BY <1>0, <1>7, NoClaimDropped
  <2>2. UNCHANGED holders
    BY <1>7 DEF StreamStep, OpeningStep, ClosingStep, OpenContext, EnterStream, Grab,
         Opened, OpenFails, FailDelete, WorkerRead, Collect, BeginClose, ShutStream, Delete
  <2> QED
    BY <1>2, <2>1, <2>2
<1> QED
  BY <1>5, <1>6, <1>7

(* A counter that stays above zero leaves a claim.                         *)
LEMMA SomebodyLeft ==
  ASSUME TypeOK, NotAbove', NEW f \in Files, holders' = CountedDown(f),
         ~Last(f), disk'[f] = "present"
  PROVE  Claims(f)' # {}
<1>1. holders'[f] = holders[f] - 1 /\ holders[f] - 1 \in Int /\ holders[f] - 1 > 0
  BY FilesAssumption DEF Last, CountedDown, TypeOK
<1>2. holders'[f] =< Cardinality(Claims(f)')
  BY DEF NotAbove
<1>3. IsFiniteSet(Claims(f)')
  BY ClaimsAreNext, FiniteClaims
<1> QED
  BY <1>1, <1>2, <1>3, CountedSome

LEMMA AttemptOwed ==
  ASSUME Lives, NoneCancelled, HasAttempt, NotAbove', Owed,
         NEW a \in Attempts, AttemptStep(a)
  PROVE  Owed'
<1>0. TypeOK /\ OneActive /\ Threads /\ Copies
  BY DEF Lives
<1> USE <1>0 DEF TypeOK, Becomes, Keeps
<1> SUFFICES ASSUME NEW f \in Files, disk'[f] = "present"
             PROVE  Claims(f)' # {} \/ Doomed(f)'
  BY DEF Owed
<1>1. /\ UNCHANGED <<stage, held, closer>>
      /\ \A s \in Streams : s \in Claims(f)' <=> s \in Claims(f)
  <2>1. UNCHANGED <<stage, held, closer>>
    BY DEF AttemptStep, Enter, Look, Copied, Resume, Listed, Cancel, Close, Forget, stream
  <2> QED
    BY <2>1, ClaimsAre, ClaimsAreNext DEF Claiming, Unreleased
<1>2. ASSUME Claims(f) # {} \/ Doomed(f),
             OwnerClaims(f) => OwnerClaims(f)',
             \A b \in Attempts : task[b] = "deleting" /\ file[b] = f =>
                                   task'[b] = "deleting" /\ file'[b] = f
      PROVE  Claims(f)' # {} \/ Doomed(f)'
  <2>1. CASE Claims(f) # {}
    BY <1>1, <1>2, <2>1, ClaimsAre, ClaimsAreNext
  <2>2. CASE Doomed(f)
    <3>1. \A s \in Streams : Deleting(s)' <=> Deleting(s)
      BY <1>1 DEF Deleting
    <3> QED
      BY <1>1, <1>2, <2>2, <3>1 DEF Doomed
  <2> QED
    BY <1>2, <2>1, <2>2
<1>3. CASE Enter(a) \/ Resume(a) \/ Listed(a) \/ Cancel(a)
  <2>1. UNCHANGED <<disk, tempfile, file>>
    BY <1>3 DEF Enter, Resume, Listed, Cancel
  <2>2. \A b \in Attempts : task'[b] = "deleting" <=> task[b] = "deleting"
    BY <1>3 DEF Enter, Resume, Listed, Cancel
  <2>3. \A b \in Attempts : task'[b] = "forgetting" <=> task[b] = "forgetting"
    BY <1>3 DEF Enter, Resume, Listed, Cancel
  <2>4. OwnerClaims(f) => OwnerClaims(f)'
    BY <2>1, <2>2, <2>3 DEF OwnerClaims
  <2> QED
    BY <1>2, <2>1, <2>2, <2>4 DEF Owed
<1>4. CASE Look(a)
  <2>1. UNCHANGED <<tempfile, task>> /\ disk[f] = "present" /\ task[a] # "deleting"
        /\ \A b \in Attempts \ {a} : file'[b] = file[b]
    BY <1>4 DEF Look, Threads, Busy
  <2> QED
    BY <1>2, <2>1 DEF OwnerClaims, Owed
<1>5. CASE Copied(a)
  <2>1. /\ copier[a] = "copying" /\ tempfile' = file[a]
        /\ disk' = [disk EXCEPT ![file[a]] = "present"] /\ UNCHANGED <<task, file>>
    BY <1>5 DEF Copied
  <2>2. task[a] = "entering"
    BY <2>1 DEF Threads, Busy, NoneCancelled
  <2>3. \A b \in Attempts : task[b] \notin {"deleting", "forgetting"}
    BY <2>2 DEF OneActive, Active
  <2>4. CASE f = file[a]
    BY <2>1, <2>3, <2>4, ClaimsAreNext DEF OwnerClaims
  <2>5. CASE f # file[a]
    <3>1. disk[f] = "present"
      BY <2>1, <2>5
    <3>2. tempfile = NoFile
      BY <2>1, <2>2 DEF HasAttempt, OneActive, Active
    <3> QED
      BY <1>2, <2>1, <3>1, <3>2, FilesAssumption DEF OwnerClaims, Owed
  <2> QED
    BY <2>4, <2>5
<1>6. CASE Close(a)
  <2>1. /\ UNCHANGED <<disk, tempfile>> /\ holders' = CountedDown(tempfile)
        /\ file' = [file EXCEPT ![a] = tempfile]
        /\ task' = [task EXCEPT ![a] = IF Last(tempfile) THEN "deleting" ELSE "forgetting"]
        /\ \A b \in Attempts : task[b] \notin {"deleting", "forgetting"}
    BY <1>6 DEF Close, LoopFree
  <2>2. CASE f = tempfile /\ Last(f)
    BY <2>1, <2>2 DEF Doomed
  <2>3. CASE f = tempfile /\ ~Last(f)
    BY <2>1, <2>3, SomebodyLeft
  <2>4. CASE f # tempfile
    BY <1>2, <2>1, <2>4 DEF OwnerClaims, Owed
  <2> QED
    BY <2>2, <2>3, <2>4
<1>7. CASE Forget(a)
  <2>1. /\ task[a] \in {"deleting", "forgetting"} /\ task' = [task EXCEPT ![a] = "left"]
        /\ disk' = IF task[a] = "deleting" THEN [disk EXCEPT ![file[a]] = "gone"] ELSE disk
        /\ UNCHANGED file
    BY <1>7 DEF Forget, Deleted
  <2>2. disk[f] = "present" /\ ~OwnerClaims(f)
        /\ (task[a] = "deleting" => file[a] # f)
    BY <2>1 DEF OwnerClaims, Copies, Decided
  <2> QED
    BY <1>2, <2>1, <2>2 DEF Owed
<1> QED
  BY <1>3, <1>4, <1>5, <1>6, <1>7 DEF AttemptStep

LEMMA StreamOwed ==
  ASSUME Lives, NotAbove', Owed, NEW s \in Streams, StreamStep(s)
  PROVE  Owed'
<1>0. TypeOK /\ StreamLives /\ CloserLives
  BY DEF Lives
<1> SUFFICES ASSUME NEW f \in Files, disk'[f] = "present"
             PROVE  Claims(f)' # {} \/ Doomed(f)'
  BY DEF Owed
<1>1. disk[f] = "present"
  BY <1>0 DEF StreamStep, OpeningStep, ClosingStep, OpenContext, EnterStream, Grab, Hold,
         Opened, OpenFails, FailRelease, FailDelete, WorkerRead, Collect, BeginClose,
         ShutStream, Release, Delete, TypeOK, Deleted
<1>2. /\ \A t \in Streams \ {s} :
           /\ held'[t] = held[t] /\ closer'[t] = closer[t]
           /\ Claiming(t)' <=> Claiming(t)
           /\ Deleting(t)' <=> Deleting(t)
      /\ OwnerClaims(f)' <=> OwnerClaims(f)
      /\ UNCHANGED <<task, file>>
  BY <1>0, OtherStreams DEF Claiming, Unreleased, Deleting, archive, entering
<1>3. Claims(f) # {} \/ Doomed(f)
  BY <1>1 DEF Owed
(* What the stream itself contributes to either.                           *)
<1>4. ASSUME s \in Claims(f) => s \in Claims(f)' \/ Doomed(f)',
             held[s] = f /\ Deleting(s) /\ (\A c \in Closers : closer[s][c] # "released")
               => held'[s] = f /\ Deleting(s)'
                  /\ \A c \in Closers : closer'[s][c] # "released"
      PROVE  Claims(f)' # {} \/ Doomed(f)'
  <2>1. CASE Claims(f) # {}
    <3>1. PICK t : t \in Claims(f)
      BY <2>1
    <3>2. CASE t = s
      BY <1>4, <3>1, <3>2
    <3>3. CASE t # s
      BY <1>2, <3>1, <3>3, ClaimsAre, ClaimsAreNext
    <3> QED
      BY <3>2, <3>3
  <2>2. CASE \E a \in Attempts : task[a] = "deleting" /\ file[a] = f
    BY <1>2, <2>2 DEF Doomed
  <2>3. ASSUME NEW t \in Streams, held[t] = f, Deleting(t),
               \A c \in Closers : closer[t][c] # "released"
        PROVE  Doomed(f)'
    <3>1. CASE t = s
      BY <1>4, <2>3, <3>1 DEF Doomed
    <3>2. CASE t # s
      BY <1>2, <2>3, <3>2 DEF Doomed
    <3> QED
      BY <3>1, <3>2
  <2> QED
    BY <1>3, <2>1, <2>2, <2>3 DEF Doomed
<1>5. stage[s] \notin {"open", "collected"} => \A c \in Closers : closer[s][c] = "none"
  BY <1>0 DEF StreamLives
<1> USE DEF Stage, Moves
<1>6. CASE FailRelease(s)
  <2>1. /\ stage[s] = "failing" /\ holders' = CountedDown(held[s])
        /\ Last(held[s]) => stage'[s] = "deleting" /\ UNCHANGED held
        /\ UNCHANGED closer
    BY <1>0, <1>6 DEF FailRelease, TypeOK
  <2>2. CASE held[s] = f /\ Last(f)
    BY <1>5, <2>1, <2>2 DEF Doomed, Deleting
  <2>3. CASE held[s] = f /\ ~Last(f)
    BY <1>0, <2>1, <2>3, SomebodyLeft
  <2>4. CASE held[s] # f
    BY <1>4, <2>4, ClaimsAre
  <2> QED
    BY <2>2, <2>3, <2>4
<1>7. ASSUME NEW c \in Closers, Release(s, c)
      PROVE  Claims(f)' # {} \/ Doomed(f)'
  <2>1. /\ UNCHANGED <<stage, held>> /\ holders' = CountedDown(held[s])
        /\ closer'[s][c] = IF Last(held[s]) THEN "deleting" ELSE "released"
        /\ \A d \in Closers \ {c} : closer'[s][d] = closer[s][d]
    BY <1>0, <1>7 DEF Release, apart, TypeOK
  <2>2. CASE held[s] = f /\ Last(f)
    <3>1. CASE \E d \in Closers \ {c} : closer[s][d] = "released"
      <4>1. s \notin Claims(f)
        BY <1>0, <1>7, <3>1, ClaimsAre DEF Claiming, Unreleased, CloserLives, Release
      <4> QED
        BY <1>4, <3>1, <4>1
    <3>2. CASE \A d \in Closers \ {c} : closer[s][d] # "released"
      BY <2>1, <2>2, <3>2 DEF Doomed, Deleting
    <3> QED
      BY <3>1, <3>2
  <2>3. CASE held[s] = f /\ ~Last(f)
    BY <1>0, <2>1, <2>3, SomebodyLeft
  <2>4. CASE held[s] # f
    BY <1>4, <2>4, ClaimsAre
  <2> QED
    BY <2>2, <2>3, <2>4
<1>8. ASSUME ~FailRelease(s), \A c \in Closers : ~Release(s, c)
      PROVE  Claims(f)' # {} \/ Doomed(f)'
  <2>1. s \in Claims(f) => s \in Claims(f)'
    BY <1>0, <1>8, NoClaimDropped
  <2>2. ASSUME held[s] = f, Deleting(s), \A c \in Closers : closer[s][c] # "released"
        PROVE  held'[s] = f /\ Deleting(s)' /\ \A c \in Closers : closer'[s][c] # "released"
    <3>1. CASE FailDelete(s)
      BY <1>0, <1>1, <2>2, <3>1 DEF FailDelete, Deleted, TypeOK
    <3>2. ASSUME NEW c \in Closers, Delete(s, c) PROVE FALSE
      BY <1>0, <1>1, <2>2, <3>2 DEF Delete, Deleted, TypeOK
    <3>3. ASSUME NEW c \in Closers, BeginClose(s, c) \/ ShutStream(s, c)
          PROVE  held'[s] = f /\ Deleting(s)' /\ \A d \in Closers : closer'[s][d] # "released"
      <4>1. UNCHANGED <<stage, held>>
        BY <3>3 DEF BeginClose, ShutStream, apart
      <4>2. \A d \in Closers :
              /\ closer[s][d] = "deleting" => closer'[s][d] = "deleting"
              /\ closer'[s][d] = "released" => closer[s][d] = "released"
        BY <1>0, <3>3 DEF BeginClose, ShutStream, TypeOK
      <4> QED
        BY <2>2, <4>1, <4>2 DEF Deleting
    <3>4. CASE WorkerRead(s)
      BY <2>2, <3>4 DEF WorkerRead, Deleting
    <3>5. stage[s] \in {"deleting", "open"}
      BY <1>0, <2>2 DEF Deleting, CloserLives
    <3>6. ~Collect(s)
      <4>1. stage[s] = "open" => \E c \in Closers : closer[s][c] = "deleting"
        BY <2>2 DEF Deleting
      <4> QED
        BY <4>1 DEF Collect
    <3> QED
      BY <1>8, <3>1, <3>2, <3>3, <3>4, <3>5, <3>6
         DEF StreamStep, OpeningStep, ClosingStep, OpenContext, EnterStream, Grab, Hold,
             Opened, OpenFails
  <2> QED
    BY <1>4, <2>1, <2>2
<1> QED
  BY <1>6, <1>7, <1>8

LEMMA CleanedStep ==
  ASSUME Lives, Cleaned, [Next]_vars
  PROVE  Cleaned'
<1> SUFFICES ASSUME NoneCancelled' PROVE HasAttempt' /\ NotAbove' /\ Owed'
  BY DEF Cleaned
<1>1. NoneCancelled /\ TypeOK
  BY NoneCancelledBefore DEF Lives
<1>2. HasAttempt /\ NotAbove /\ Owed
  BY <1>1 DEF Cleaned
<1>3. HasAttempt'
  BY <1>1, <1>2, HasAttemptStep
<1>4. ASSUME NEW a \in Attempts, AttemptStep(a) PROVE NotAbove' /\ Owed'
  <2>1. NotAbove'
    BY <1>1, <1>2, <1>4, AttemptNotAbove
  <2> QED
    BY <1>1, <1>2, <1>4, <2>1, AttemptOwed
<1>5. ASSUME NEW s \in Streams, StreamStep(s) PROVE NotAbove' /\ Owed'
  <2>1. NotAbove'
    BY <1>2, <1>5, StreamNotAbove
  <2> QED
    BY <1>2, <1>5, <2>1, StreamOwed
<1>6. ASSUME UNCHANGED <<holders, tempfile, entering, stream>>,
             \A f \in Files : disk'[f] = "present" => disk[f] = "present"
      PROVE  NotAbove' /\ Owed'
  <2>1. \A f : Claims(f)' = Claims(f)
    BY <1>6 DEF Claims, Claiming, Unreleased, OwnerClaims, entering, stream
  <2>2. \A f : Doomed(f)' <=> Doomed(f)
    BY <1>6 DEF Doomed, Deleting, entering, stream
  <2>3. NotAbove'
    BY <1>2, <1>6, <2>1 DEF NotAbove
  <2>4. Owed'
    BY <1>2, <1>6, <2>1, <2>2 DEF Owed
  <2> QED
    BY <2>3, <2>4
<1>7. ASSUME Drop PROVE NotAbove' /\ Owed'
  <2>1. tempfile = NoFile
    BY <1>2, <1>7 DEF Drop, HasAttempt, Active
  <2>2. UNCHANGED <<holders, tempfile, entering, stream, disk>>
    BY <1>7, <2>1 DEF Drop
  <2> QED
    BY <1>6, <2>2
<1>8. ASSUME NEW f \in Files, Finalize(f) PROVE NotAbove' /\ Owed'
  BY <1>1, <1>6, <1>8 DEF Finalize, Deleted, TypeOK
<1>9. ASSUME NEW c \in Calls, StartCall(c) \/ RunCall(c) PROVE NotAbove' /\ Owed'
  BY <1>6, <1>9 DEF StartCall, RunCall
<1>10. ASSUME UNCHANGED vars PROVE NotAbove' /\ Owed'
  BY <1>6, <1>10 DEF vars
<1>11. NotAbove' /\ Owed'
  BY <1>4, <1>5, <1>7, <1>8, <1>9, <1>10 DEF Next
<1> QED
  BY <1>3, <1>11

LEMMA CleanedInit == Init => Cleaned
BY DEF Init, Cleaned, HasAttempt, NotAbove, Owed

-----------------------------------------------------------------------------
(* Every variable keeps to its values.                                     *)
THEOREM TypeCorrect == Safety => []TypeOK
<1>1. Lives => TypeOK
  BY DEF Lives
<1> QED
  BY <1>1, LivesInit, LivesStep, PTL DEF Safety

(* A stream's claim is given up once, unless two closes of it overlap      *)
(* (_stream.py:200).                                                       *)
THEOREM ClaimGivenUpOnce == Safety => []ReleasedOnceApart
<1>1. Lives => ReleasedOnceApart
  <2> SUFFICES ASSUME Lives, ~together, NEW s \in Streams
               PROVE  Cardinality({c \in Closers : closer[s][c] = "released"}) =< 1
    BY DEF ReleasedOnceApart, ReleasedOnce
  <2> DEFINE R == {c \in Closers : closer[s][c] = "released"}
  <2>1. \A c, d \in R : c = d
    BY DEF Lives, OneCloser, Closing
  <2>2. CASE R = {}
    BY <2>2, FS_EmptySet
  <2>3. CASE R # {}
    <3>1. PICK c \in R : R = {c}
      BY <2>1, <2>3
    <3> QED
      <4>1. Cardinality({c}) = 1
        BY FS_Singleton, Zenon
      <4> QED
        BY <3>1, <4>1
  <2> QED
    BY <2>2, <2>3
<1> QED
  BY <1>1, LivesInit, LivesStep, PTL DEF Safety

(* Read and extract find the copy inside the block, whoever was refused or *)
(* cancelled before and however many streams were closed: the archive's    *)
(* claim stands until close() (_async.py:116, _archive.py:57), in Tame     *)
(* steps.                                                                  *)
THEOREM CallsFindTheCopy == Safety => CallsInsideFindTheCopy
<1>1. Lives /\ Kept /\ [Next]_vars =>
        [\A c \in Calls :
           call[c] = "running" /\ call'[c] = "missing" /\ Inside /\ callPath[c] = path
             => ~Tame]_vars
  <2> SUFFICES ASSUME Lives, Kept, [Next]_vars, NEW c \in Calls,
                      call[c] = "running", call'[c] = "missing", Inside,
                      callPath[c] = path, Tame
               PROVE  FALSE
    OBVIOUS
  <2>1. disk[callPath[c]] # "present"
    <3>1. TypeOK
      BY DEF Lives
    <3>2. ASSUME NEW d \in Calls, RunCall(d) PROVE disk[callPath[c]] # "present"
      BY <3>1, <3>2 DEF RunCall, TypeOK
    <3>3. ASSUME NEW d \in Calls, StartCall(d) PROVE FALSE
      BY <3>1, <3>3 DEF StartCall, TypeOK
    <3>4. ASSUME UNCHANGED calls PROVE FALSE
      BY <3>4 DEF calls
    <3>5. ASSUME NEW a \in Attempts, AttemptStep(a) PROVE UNCHANGED calls
      BY <3>5 DEF AttemptStep, Enter, Look, Copied, Resume, Listed, Cancel, Close, Forget
    <3>6. ASSUME NEW s \in Streams, StreamStep(s) PROVE UNCHANGED calls
      BY <3>1, <3>6, OtherStreams DEF archive
    <3> QED
      BY <3>2, <3>3, <3>4, <3>5, <3>6 DEF Next, Drop, Finalize, vars
  <2>2. PICK a \in Attempts : task[a] = "inside"
    BY DEF Inside
  <2>3. path = tempfile /\ tempfile \in Files
    BY <2>2 DEF Kept, Tame, OwnCopy
  <2>4. OwnerClaims(tempfile)
    BY <2>2 DEF Lives, OneActive, Active, OwnerClaims
  <2>5. disk[tempfile] = "present"
    BY <2>3, <2>4 DEF Kept, NotUnder, Solid
  <2> QED
    BY <2>1, <2>3, <2>5
<1> QED
  BY <1>1, LivesInit, LivesStep, KeptInit, KeptStep, PTL
     DEF Safety, CallsInsideFindTheCopy

(* The worker of a stream opened in the block finds the copy for as long   *)
(* as nobody closes the stream, also after the block: its claim outlives   *)
(* the archive's (_archive.py:57).  Only Tame steps are spoken of: no      *)
(* attempt over a copy still being made, no overlapping closes.            *)
THEOREM OpenStreamsAreServed == Safety => OpenedInsideIsServed
<1>1. Lives /\ Kept /\ [Next]_vars =>
        [\A s \in early :
           worker[s] = "ready" /\ worker'[s] = "starved"
           /\ (\A c \in Closers : closer[s][c] = "none")
             => ~Tame]_vars
  <2> SUFFICES ASSUME Lives, Kept, [Next]_vars, NEW s \in early,
                      worker[s] = "ready", worker'[s] = "starved",
                      \A c \in Closers : closer[s][c] = "none", Tame
               PROVE  FALSE
    OBVIOUS
  <2>0. TypeOK /\ StreamLives /\ s \in Streams
    BY DEF Lives, TypeOK
  <2>1. disk[streamPath[s]] # "present"
    <3>1. ASSUME NEW t \in Streams, WorkerRead(t) PROVE disk[streamPath[s]] # "present"
      BY <2>0, <3>1 DEF WorkerRead, TypeOK
    <3>2. ASSUME NEW t \in Streams, Opened(t) PROVE FALSE
      BY <2>0, <3>2 DEF Opened, TypeOK
    <3>3. PICK t \in Streams : StreamStep(t)
      BY StreamFrame
    <3> QED
      BY <3>1, <3>2, <3>3
         DEF StreamStep, OpeningStep, ClosingStep, OpenContext, EnterStream, Grab, Hold,
             OpenFails, FailRelease, FailDelete, Collect, BeginClose, ShutStream, Release,
             Delete, apart
  <2>2. stage[s] = "open"
    BY <2>0 DEF StreamLives
  <2>3. held[s] = streamPath[s] /\ held[s] \in Files
    BY <2>2 DEF Kept, EarlyLives
  <2>4. Claiming(s)
    BY <2>2 DEF Claiming, Unreleased
  <2>5. disk[held[s]] = "present"
    BY <2>3, <2>4 DEF Kept, NotUnder, Solid
  <2> QED
    BY <2>1, <2>3, <2>5
<1> QED
  BY <1>1, LivesInit, LivesStep, KeptInit, KeptStep, PTL
     DEF Safety, OpenedInsideIsServed

(* The counter, the cancelled attempts and the deletions made after the    *)
(* lock implement the claims of TempFileClaims: a promised copy is there   *)
(* until the last who relies on it has given it up (_archive.py:57).       *)
(* Steps that are not Tame are excused.                                    *)
THEOREM ImplementsClaims == Safety => KeepsClaims
<1>1. Init => ClaimsOf!Init
  <2> SUFFICES ASSUME Init PROVE ClaimsOf!Init
    OBVIOUS
  <2>1. \A f \in Files : FileState(f) = "unused"
    BY DEF Init, FileState
  <2>2. \A f \in Files : LiveClaims(f) = {}
    BY FilesAssumption DEF Init, LiveClaims, Relying, OwnerClaims
  <2> QED
    BY <2>1, <2>2 DEF ClaimsOf!Init, fileState, fileClaims
<1>2. Lives /\ Kept /\ [Next]_vars =>
        [Tame' => [ClaimsOf!Next]_(ClaimsOf!vars)]_vars
  <2> SUFFICES ASSUME Lives, Kept, [Next]_vars, Tame'
               PROVE  [ClaimsOf!Next]_(ClaimsOf!vars)
    OBVIOUS
  <2> QED
    BY StepMaps DEF Maps
<1> QED
  BY <1>1, <1>2, LivesInit, LivesStep, KeptInit, KeptStep, PTL
     DEF Safety, KeepsClaims

(* Once every attempt was refused or has been left again, none having been *)
(* cancelled, and every stream is closed, no copy is on disk, whatever     *)
(* closed when and however often: who decides on a deletion also makes it  *)
(* (_archive.py:77).                                                       *)
THEOREM NothingLeft == Safety => []LeftNothingBehind
<1>1. Lives /\ Cleaned => LeftNothingBehind
  <2> SUFFICES ASSUME Lives, Cleaned, AllLeft, NEW f \in Files,
                      disk[f] \in {"copying", "present"}
               PROVE  FALSE
    BY DEF LeftNothingBehind
  <2>1. \A a \in Attempts : task[a] \in {"none", "left"}
    BY DEF AllLeft
  <2>2. HasAttempt /\ Owed
    BY <2>1 DEF Cleaned, NoneCancelled
  <2>3. disk[f] # "copying"
    BY <2>1 DEF Lives, Copies, Copying, Threads, Busy
  <2>4. ~OwnerClaims(f)
    BY <2>1, <2>2, FilesAssumption DEF OwnerClaims, HasAttempt, Active
  <2>5. ASSUME NEW s \in Streams
        PROVE  ~Claiming(s) /\ (Deleting(s) => \E c \in Closers : closer[s][c] = "released")
    <3>1. /\ stage[s] \notin {"open", "collected"} =>
               \A c \in Closers : closer[s][c] = "none"
          /\ \A c \in Closers : closer[s][c] = "deleting" => stage[s] = "open"
      BY DEF Lives, StreamLives, CloserLives
    <3>2. \/ stage[s] \in {"none", "context", "failed", "collected"}
          \/ \E c \in Closers : closer[s][c] = "released"
      BY DEF AllLeft
    <3> QED
      BY <3>1, <3>2 DEF Claiming, Unreleased, Deleting
  <2>6. Claims(f) = {}
    BY <2>4, <2>5, ClaimsAre
  <2>7. ~Doomed(f)
    BY <2>1, <2>5 DEF Doomed
  <2> QED
    BY <2>2, <2>3, <2>6, <2>7 DEF Owed
<1> QED
  BY <1>1, LivesInit, LivesStep, CleanedInit, CleanedStep, PTL DEF Safety
=============================================================================
