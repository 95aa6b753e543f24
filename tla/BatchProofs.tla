----------------------------- MODULE BatchProofs -----------------------------
(***************************************************************************)
(* What TLAPS proves of module Batch, for any number of jobs and workers:  *)
(* that the list returned is the one BatchPromise promises, that cancel    *)
(* lets at most one more job through, that the callbacks follow the order  *)
(* of completion, and what may come out of the call as an exception.       *)
(***************************************************************************)
EXTENDS Batch, FiniteSetTheorems, TLAPS

(* The executor's books: the jobs handed over are the first ones, a future *)
(* holds something exactly when it is done, and the done ones are ranked.  *)
JobsInOrder ==
  /\ \A j \in Jobs :
       /\ job[j] = "unsubmitted" <=> j >= next
       /\ job[j] = "done" <=> result[j] # "none"
       /\ job[j] = "done" => rank[j] >= 1 /\ rank[j] =< Cardinality(Done)
  /\ \A i, j \in Done : rank[i] = rank[j] => i = j

(* `out` holds finished jobs, each once, with what its future holds.       *)
OutIsTrue ==
  /\ \A k \in 1 .. Len(out) : out[k][1] \in Done /\ out[k][2] = result[out[k][1]]
  /\ \A k, m \in 1 .. Len(out) : out[k][1] = out[m][1] => k = m
  /\ Len(out) = Cardinality(Consumed)

(* `results` is what the first `turn` items of `out` put there.            *)
Filled ==
  \A j \in Jobs : results[j] =
    IF \E k \in 1 .. turn : out[k][1] = j THEN result[j] ELSE "none"

(* What is known in each phase.                                            *)
Staged ==
  /\ phase = "start" => next = 1
  /\ phase = "checked" => next =< N
  /\ phase \in {"start", "submitting", "checked"} => out = <<>>
  /\ phase \in {"collecting", "leaving", "aggregating", "returned"} => next > N \/ cancelled
  /\ phase \in {"leaving", "aggregating", "returned"} => Awaited \subseteq Consumed
  /\ phase \in {"aggregating", "returned", "raised", "rejected"} => Quiet
  /\ phase = "returned" => turn = Len(out)

(* A job handed over after cancel was set is the last to be.               *)
LateIsLast == late # {} => cancelled /\ phase \notin {"start", "checked"}

(* Whoever was collected after the first look was the first to be done of  *)
(* those that wait.                                                        *)
Ahead == \A i \in Consumed, j \in Waiting : rank[i] > early => rank[i] < rank[j]

BatchInv ==
  /\ TypeOK /\ JobsInOrder /\ OutIsTrue /\ Filled /\ Staged
  /\ LateIsLast /\ CancelBites /\ Ahead /\ CompletionOrder /\ OnlyPanicsAndCrashesRaise

-----------------------------------------------------------------------------
LEMMA JobsFinite == IsFiniteSet(Jobs) /\ Cardinality(Jobs) = N
BY NAssumption, FS_Interval DEF Jobs

LEMMA DoneCounts ==
  ASSUME TypeOK
  PROVE  /\ IsFiniteSet(Done) /\ Cardinality(Done) \in 0 .. N
         /\ \A j \in Jobs : job[j] # "done" =>
              /\ Cardinality(Done) + 1 =< N
              /\ Cardinality(Done \cup {j}) = Cardinality(Done) + 1
<1>1. IsFiniteSet(Done) /\ Cardinality(Done) =< N /\ Cardinality(Done) \in Nat
  BY JobsFinite, FS_Subset, FS_CardinalityType DEF Done
<1>2. ASSUME NEW j \in Jobs, job[j] # "done"
      PROVE  /\ Cardinality(Done) + 1 =< N
             /\ Cardinality(Done \cup {j}) = Cardinality(Done) + 1
  <2>1. j \notin Done /\ Done \cup {j} \subseteq Jobs
    BY <1>2 DEF Done
  <2>2. Cardinality(Done \cup {j}) = Cardinality(Done) + 1
    BY <1>1, <2>1, FS_AddElement
  <2>3. Cardinality(Done \cup {j}) =< N
    BY <2>1, JobsFinite, FS_Subset
  <2> QED
    BY <2>2, <2>3
<1> QED
  BY <1>1, <1>2, NAssumption

(* A future is done: what that does to the books.                          *)
LEMMA Completed ==
  ASSUME BatchInv, NEW j \in Jobs, Finish(j) \/ Abandon(j)
  PROVE  /\ job[j] \in {"queued", "running"}
         /\ \E r \in Outcomes : result' = [result EXCEPT ![j] = r]
         /\ job' = [job EXCEPT ![j] = "done"]
         /\ rank' = [rank EXCEPT ![j] = Cardinality(Done) + 1]
         /\ Done' = Done \cup {j} /\ Cardinality(Done') = Cardinality(Done) + 1
         /\ UNCHANGED <<caller, cancelled, broken>>
<1>1. job[j] \in {"queued", "running"}
  BY DEF Finish, Abandon
<1>2. \E r \in Outcomes : Completes(j, r)
  BY DEF Finish, Abandon, Outcomes, AsTyped, RaiseFor
<1>3. job' = [job EXCEPT ![j] = "done"]
  BY <1>2 DEF Completes
<1>4. Done' = Done \cup {j}
  BY <1>3 DEF Done, BatchInv, TypeOK
<1> QED
  BY <1>1, <1>2, <1>3, <1>4, DoneCounts DEF Completes, BatchInv

(* A future's outcome comes out of _as_typed as it went in: the worker has *)
(* translated it already.                                                  *)
LEMMA TypedOnce == \A r \in Outcomes : AsTyped(r) = r
BY DEF Outcomes, AsTyped

(* One more outcome is collected.                                          *)
LEMMA Collected ==
  ASSUME BatchInv, NEW j \in Jobs, Collect(j)
  PROVE  /\ j \in Done /\ j \notin Consumed /\ result[j] \in Outcomes
         /\ out' = Append(out, <<j, result[j]>>)
         /\ out \in Seq(Jobs \X Outcomes) /\ Len(out') = Len(out) + 1
         /\ out'[Len(out) + 1] = <<j, result[j]>>
         /\ \A k \in 1 .. Len(out) : out'[k] = out[k]
         /\ Consumed' = Consumed \cup {j} /\ IsFiniteSet(Consumed)
         /\ Cardinality(Consumed') = Cardinality(Consumed) + 1
         /\ Cardinality(Consumed') =< N
         /\ UNCHANGED <<args, phase, next, cancelled, pool, early, turn, results, late>>
<1>1. j \in Done /\ j \notin Consumed /\ result[j] \in Outcomes
  BY DEF Collect, Waiting, Done, BatchInv, JobsInOrder, TypeOK
<1>2. out' = Append(out, <<j, result[j]>>) /\ out \in Seq(Jobs \X Outcomes)
  BY <1>1, TypedOnce DEF Collect, PlaceOf, BatchInv, TypeOK
<1>3. /\ Len(out') = Len(out) + 1 /\ out'[Len(out) + 1] = <<j, result[j]>>
      /\ \A k \in 1 .. Len(out) : out'[k] = out[k]
  BY <1>1, <1>2
<1>4. Consumed' = Consumed \cup {j}
  BY <1>2, <1>3 DEF Consumed
<1>5. Consumed \subseteq Done /\ Consumed \cup {j} \subseteq Jobs
  BY DEF Consumed, BatchInv, OutIsTrue, Done
<1>6. IsFiniteSet(Consumed)
  BY <1>5, JobsFinite, FS_Subset
<1>7. Cardinality(Consumed') = Cardinality(Consumed) + 1 /\ Cardinality(Consumed') =< N
  BY <1>1, <1>4, <1>5, <1>6, JobsFinite, FS_AddElement, FS_Subset
<1> QED
  BY <1>1, <1>2, <1>3, <1>4, <1>6, <1>7 DEF Collect

(* The steps that only move the calling thread on.                         *)
OnlyMoves == UNCHANGED <<args, next, cancelled, pool, early, lists, late>>

Moves ==
  \/ Validate \/ CheckCancel \/ SubmitRaises \/ CollectedAll \/ Leave \/ Return
  \/ \E j \in Jobs : CollectRaises(j)

LEMMA MovesOnly == Moves => OnlyMoves
BY DEF Moves, OnlyMoves, Validate, CheckCancel, SubmitRaises, CollectedAll, Leave, Return,
       CollectRaises

LEMMA Steps ==
  ASSUME [Next]_vars
  PROVE  \/ Moves \/ Submit \/ BeginCollecting \/ Aggregate \/ SetCancel \/ Crash
         \/ \E j \in Jobs : Collect(j)
         \/ \E j \in Jobs : Start(j)
         \/ \E j \in Jobs : Finish(j) \/ Abandon(j)
         \/ UNCHANGED vars
BY DEF Next, CallerStep, PoolStep, Moves

(* What a step that hands over or starts a job leaves done.                *)
LEMMA HandedOver ==
  ASSUME BatchInv, Submit
  PROVE  /\ next \in Jobs /\ job[next] = "unsubmitted" /\ next' = next + 1
         /\ job' = [job EXCEPT ![next] = "queued"] /\ Done' = Done
         /\ late = {} /\ late' = (IF cancelled THEN {next} ELSE {})
<1>1. next \in Jobs /\ job[next] = "unsubmitted"
  BY NAssumption DEF Submit, Goes, BatchInv, Staged, TypeOK, JobsInOrder, Jobs
<1>2. job' = [job EXCEPT ![next] = "queued"] /\ next' = next + 1
  BY DEF Submit
<1>3. Done' = Done
  BY <1>1, <1>2 DEF Done, BatchInv, TypeOK
<1>4. late = {} /\ late' = (IF cancelled THEN {next} ELSE {})
  BY DEF Submit, Goes, BatchInv, LateIsLast
<1> QED
  BY <1>1, <1>2, <1>3, <1>4

LEMMA Started ==
  ASSUME BatchInv, NEW j \in Jobs, Start(j)
  PROVE  /\ job[j] = "queued" /\ job' = [job EXCEPT ![j] = "running"]
         /\ Done' = Done /\ Awaited' = Awaited
BY DEF Start, BatchInv, TypeOK, Done, Awaited

-----------------------------------------------------------------------------
(* Each part of the invariant is kept by every step.                       *)
LEMMA InitBatch == Init => BatchInv
<1> SUFFICES ASSUME Init PROVE BatchInv
  OBVIOUS
<1>1. Done = {} /\ Consumed = {}
  BY DEF Init, Done, Consumed
<1>2. Cardinality(Done) = 0 /\ Cardinality(Consumed) = 0 /\ Cardinality(late) = 0
  BY <1>1, FS_EmptySet DEF Init
<1>3. TypeOK
  <2>1. rank \in [Jobs -> 0 .. N] /\ early \in 0 .. N /\ next \in 1 .. N + 1
    BY NAssumption DEF Init
  <2>2. out \in Seq(Jobs \X Outcomes) /\ Len(out) =< N /\ turn \in 0 .. Len(out)
    BY NAssumption DEF Init
  <2>3. /\ result \in [Jobs -> Outcomes \cup {"none"}]
        /\ results \in [Jobs -> Outcomes \cup {"none"}]
        /\ job \in [Jobs -> {"unsubmitted", "queued", "running", "done"}]
    BY DEF Init
  <2> QED
    BY <2>1, <2>2, <2>3 DEF Init, TypeOK
<1>4. JobsInOrder
  BY <1>1, NAssumption DEF Init, JobsInOrder, Jobs
<1>5. OutIsTrue /\ Filled
  BY <1>1, <1>2 DEF Init, OutIsTrue, Filled
<1>6. Staged /\ LateIsLast /\ CancelBites
  BY <1>2 DEF Init, Staged, LateIsLast, CancelBites
<1>7. Ahead /\ CompletionOrder /\ OnlyPanicsAndCrashesRaise
  BY <1>1 DEF Init, Ahead, CompletionOrder, OnlyPanicsAndCrashesRaise
<1> QED
  BY <1>3, <1>4, <1>5, <1>6, <1>7 DEF BatchInv

LEMMA TypeStep == BatchInv /\ [Next]_vars => TypeOK'
<1> SUFFICES ASSUME BatchInv, [Next]_vars PROVE TypeOK'
  OBVIOUS
<1> USE NAssumption DEF TypeOK
<1>0. TypeOK
  BY DEF BatchInv
<1>1. CASE Moves
  <2>1. OnlyMoves
    BY <1>1, MovesOnly
  <2>2. phase' \in {"submitting", "rejected", "checked", "failing", "leaving",
                    "aggregating", "raised", "returned"}
    BY <1>1 DEF Moves, Validate, CheckCancel, SubmitRaises, CollectedAll, Leave, Return,
               CollectRaises, Goes
  <2> QED
    BY <1>0, <2>1, <2>2 DEF OnlyMoves, args, pool, lists
<1>2. CASE Submit
  BY <1>0, <1>2, HandedOver DEF Submit, Goes, args, lists, Jobs
<1>3. CASE BeginCollecting
  BY <1>0, <1>3, DoneCounts DEF BeginCollecting, Goes, args, pool, lists
<1>4. CASE Aggregate
  <2>1. turn + 1 \in 1 .. Len(out) /\ out[turn + 1] \in Jobs \X Outcomes
    BY <1>0, <1>4 DEF Aggregate
  <2>2. results' \in [Jobs -> Outcomes \cup {"none"}]
    BY <1>0, <1>4, <2>1 DEF Aggregate
  <2> QED
    BY <1>0, <1>4, <2>1, <2>2 DEF Aggregate, Goes, args, pool
<1>5. CASE SetCancel
  BY <1>0, <1>5 DEF SetCancel, caller, args, lists, pool
<1>6. CASE Crash
  BY <1>0, <1>6 DEF Crash, caller, args, lists
<1>7. ASSUME NEW j \in Jobs, Collect(j) PROVE TypeOK'
  <2>1. out' \in Seq(Jobs \X Outcomes) /\ Len(out') = Len(out) + 1
    <3>1. <<j, result[j]>> \in Jobs \X Outcomes
      BY <1>7, Collected
    <3> QED
      BY <1>7, <3>1, Collected
  <2>2. Len(out') =< N
    BY <1>7, <2>1, Collected DEF BatchInv, OutIsTrue
  <2>3. UNCHANGED <<args, phase, next, cancelled, broken, job, result, rank, early,
                    turn, results, late>>
    BY <1>7, Collected, Zenon DEF pool
  <2>4. turn' \in 0 .. Len(out')
    BY <1>0, <2>1, <2>3
  <2> QED
    BY <1>0, <2>1, <2>2, <2>3, <2>4 DEF args
<1>8. ASSUME NEW j \in Jobs, Start(j) PROVE TypeOK'
  BY <1>0, <1>8 DEF Start, caller, args, lists
<1>9. ASSUME NEW j \in Jobs, Finish(j) \/ Abandon(j) PROVE TypeOK'
  <2>1. Cardinality(Done) + 1 \in 0 .. N
    BY <1>0, <1>9, Completed, DoneCounts
  <2>2. /\ job' \in [Jobs -> {"unsubmitted", "queued", "running", "done"}]
        /\ result' \in [Jobs -> Outcomes \cup {"none"}]
        /\ rank' \in [Jobs -> 0 .. N]
    <3>1. /\ \E r \in Outcomes : result' = [result EXCEPT ![j] = r]
          /\ job' = [job EXCEPT ![j] = "done"]
          /\ rank' = [rank EXCEPT ![j] = Cardinality(Done) + 1]
      BY <1>9, Completed
    <3> QED
      BY <1>0, <2>1, <3>1
  <2>3. UNCHANGED <<args, phase, next, early, lists, late, cancelled, broken>>
    BY <1>9, Completed DEF caller
  <2> QED
    BY <1>0, <2>2, <2>3 DEF args, lists
<1>10. CASE UNCHANGED vars
  BY <1>0, <1>10 DEF vars, args, pool, lists
<1> QED
  BY <1>1, <1>2, <1>3, <1>4, <1>5, <1>6, <1>7, <1>8, <1>9, <1>10, Steps

LEMMA OrderStep == BatchInv /\ [Next]_vars => JobsInOrder'
<1> SUFFICES ASSUME BatchInv, [Next]_vars PROVE JobsInOrder'
  OBVIOUS
<1>0. TypeOK /\ JobsInOrder
  BY DEF BatchInv
<1>1. CASE UNCHANGED <<next, job, result, rank>>
  BY <1>0, <1>1 DEF JobsInOrder, Done
<1>2. CASE Submit
  <2>1. UNCHANGED <<result, rank>> /\ Done' = Done
    BY <1>2, HandedOver DEF Submit
  <2>2. \A i \in Jobs : /\ (job'[i] = "done") <=> (job[i] = "done")
                        /\ (job'[i] = "unsubmitted") <=> (job[i] = "unsubmitted" /\ i # next)
    BY <1>0, <1>2, HandedOver DEF TypeOK
  <2>3. \A i \in Jobs : (i >= next') <=> (i >= next /\ i # next)
    BY <1>0, <1>2, HandedOver, NAssumption DEF Jobs
  <2> QED
    BY <1>0, <2>1, <2>2, <2>3 DEF JobsInOrder
<1>3. ASSUME NEW j \in Jobs, Start(j) PROVE JobsInOrder'
  <2>1. UNCHANGED <<next, result, rank>>
    BY <1>3 DEF Start, caller
  <2> QED
    BY <1>0, <1>3, <2>1, Started DEF JobsInOrder, TypeOK
<1>4. ASSUME NEW j \in Jobs, Finish(j) \/ Abandon(j) PROVE JobsInOrder'
  <2>1. /\ job[j] \in {"queued", "running"} /\ j \notin Done
        /\ Done' = Done \cup {j} /\ Cardinality(Done') = Cardinality(Done) + 1
        /\ Cardinality(Done) \in Nat
    BY <1>0, <1>4, Completed, DoneCounts DEF Done
  <2>2. \A i \in Jobs : i # j =>
          job'[i] = job[i] /\ result'[i] = result[i] /\ rank'[i] = rank[i]
    BY <1>0, <1>4, Completed DEF TypeOK
  <2>3. /\ job'[j] = "done" /\ result'[j] \in Outcomes /\ rank'[j] = Cardinality(Done) + 1
        /\ next' = next
    BY <1>0, <1>4, Completed DEF TypeOK, caller
  <2>4. \A i \in Done : rank[i] \in 1 .. Cardinality(Done)
    BY <1>0, <2>1 DEF JobsInOrder, TypeOK, Done
  <2>5. ASSUME NEW i \in Jobs
        PROVE  /\ job'[i] = "unsubmitted" <=> i >= next'
               /\ job'[i] = "done" <=> result'[i] # "none"
               /\ job'[i] = "done" => rank'[i] >= 1 /\ rank'[i] =< Cardinality(Done')
    <3>1. CASE i = j
      BY <1>0, <2>1, <2>3, <3>1 DEF JobsInOrder, Outcomes
    <3>2. CASE i # j
      BY <1>0, <2>1, <2>2, <2>3, <2>4, <3>2 DEF JobsInOrder, Done
    <3> QED
      BY <3>1, <3>2
  <2>6. \A i, k \in Done' : rank'[i] = rank'[k] => i = k
    <3> SUFFICES ASSUME NEW i \in Done', NEW k \in Done', rank'[i] = rank'[k], i # k PROVE FALSE
      OBVIOUS
    <3>1. i \in Jobs /\ k \in Jobs
      BY <2>1 DEF Done
    <3>2. CASE i = j
      BY <2>1, <2>2, <2>3, <2>4, <3>1, <3>2
    <3>3. CASE k = j
      BY <2>1, <2>2, <2>3, <2>4, <3>1, <3>3
    <3>4. CASE i # j /\ k # j
      BY <1>0, <2>1, <2>2, <3>1, <3>4 DEF JobsInOrder
    <3> QED
      BY <3>2, <3>3, <3>4
  <2> QED
    BY <2>5, <2>6 DEF JobsInOrder
<1> QED
  BY <1>1, <1>2, <1>3, <1>4, Steps, MovesOnly, Collected
     DEF OnlyMoves, BeginCollecting, Aggregate, SetCancel, Crash, vars, caller, pool

LEMMA OutStep == BatchInv /\ [Next]_vars => OutIsTrue'
<1> SUFFICES ASSUME BatchInv, [Next]_vars PROVE OutIsTrue'
  OBVIOUS
<1>0. TypeOK /\ OutIsTrue
  BY DEF BatchInv
<1>1. CASE UNCHANGED <<out, job, result>>
  BY <1>0, <1>1 DEF OutIsTrue, Consumed, Done
<1>2. ASSUME NEW j \in Jobs, Collect(j) PROVE OutIsTrue'
  <2>1. UNCHANGED <<job, result>> /\ Done' = Done
    BY <1>2, Collected DEF pool, Done
  <2>2. \A k \in 1 .. Len(out) : out[k][1] # j
    BY <1>2, Collected DEF Consumed
  <2>3. Len(out) \in Nat /\ Len(out') = Len(out) + 1
    BY <1>2, Collected
  <2>4. /\ \A k \in 1 .. Len(out) : out'[k] = out[k]
        /\ out'[Len(out) + 1] = <<j, result[j]>> /\ j \in Done
    BY <1>2, Collected
  <2>5. \A k \in 1 .. Len(out') : out'[k][1] \in Done' /\ out'[k][2] = result'[out'[k][1]]
    BY <1>0, <2>1, <2>3, <2>4 DEF OutIsTrue
  <2>6. \A k, m \in 1 .. Len(out') : out'[k][1] = out'[m][1] => k = m
    BY <1>0, <2>2, <2>3, <2>4 DEF OutIsTrue
  <2>7. Len(out') = Cardinality(Consumed')
    BY <1>0, <1>2, <2>3, Collected DEF OutIsTrue
  <2> QED
    BY <2>5, <2>6, <2>7 DEF OutIsTrue
<1>3. CASE Submit \/ \E j \in Jobs : Start(j)
  <2>1. Done' = Done /\ UNCHANGED <<out, result>>
    BY <1>3, HandedOver, Started DEF Submit, Start, lists, caller
  <2>2. Consumed' = Consumed
    BY <2>1 DEF Consumed
  <2> QED
    BY <1>0, <2>1, <2>2 DEF OutIsTrue
<1>4. ASSUME NEW j \in Jobs, Finish(j) \/ Abandon(j) PROVE OutIsTrue'
  <2>1. j \notin Done /\ Done' = Done \cup {j} /\ UNCHANGED out
    BY <1>4, Completed DEF Done, caller, lists
  <2>2. \A i \in Done : result'[i] = result[i]
    <3>1. PICK r \in Outcomes : result' = [result EXCEPT ![j] = r]
      BY <1>4, Completed
    <3> QED
      BY <1>0, <2>1, <3>1 DEF TypeOK, Done
  <2>3. Consumed' = Consumed
    BY <2>1 DEF Consumed
  <2>4. \A k \in 1 .. Len(out) : out[k][1] \in Done' /\ out[k][2] = result'[out[k][1]]
    BY <1>0, <2>1, <2>2 DEF OutIsTrue
  <2> QED
    BY <1>0, <2>1, <2>3, <2>4 DEF OutIsTrue
<1> QED
  BY <1>1, <1>2, <1>3, <1>4, Steps, MovesOnly
     DEF OnlyMoves, BeginCollecting, Aggregate, SetCancel, Crash, vars, caller, pool, lists

LEMMA FilledStep == BatchInv /\ [Next]_vars => Filled'
<1> SUFFICES ASSUME BatchInv, [Next]_vars PROVE Filled'
  OBVIOUS
<1>0. TypeOK /\ OutIsTrue /\ Filled
  BY DEF BatchInv
<1>1. CASE UNCHANGED <<out, turn, results, result>>
  BY <1>0, <1>1 DEF Filled
<1>2. ASSUME NEW j \in Jobs, Collect(j) PROVE Filled'
  <2>1. UNCHANGED <<turn, results, result>> /\ \A k \in 1 .. turn : out'[k] = out[k]
    BY <1>0, <1>2, Collected DEF TypeOK, pool
  <2> QED
    BY <1>0, <2>1 DEF Filled
<1>3. CASE Aggregate
  <2> DEFINE i == out[turn + 1][1]
  <2>1. turn \in Nat /\ turn' = turn + 1 /\ turn + 1 \in 1 .. Len(out) /\ UNCHANGED <<out, result>>
    BY <1>0, <1>3 DEF Aggregate, TypeOK, pool
  <2>2. i \in Jobs /\ out[turn + 1][2] = result[i]
    BY <1>0, <2>1 DEF OutIsTrue, Done
  <2>3. results' = [results EXCEPT ![i] = result[i]]
    BY <1>3, <2>2 DEF Aggregate
  <2>4. ASSUME NEW j \in Jobs
        PROVE  (\E k \in 1 .. turn' : out'[k][1] = j) <=> (j = i \/ \E k \in 1 .. turn : out[k][1] = j)
    BY <2>1
  <2>5. \A j \in Jobs : results'[j] = IF j = i THEN result[j] ELSE results[j]
    BY <1>0, <2>2, <2>3 DEF TypeOK
  <2> HIDE DEF i
  <2> QED
    BY <1>0, <2>1, <2>4, <2>5 DEF Filled
<1>4. ASSUME NEW j \in Jobs, Finish(j) \/ Abandon(j) PROVE Filled'
  <2>1. j \notin Done /\ UNCHANGED <<out, turn, results>>
    BY <1>4, Completed DEF Done, caller, lists
  <2>2. \A i \in Jobs : i # j => result'[i] = result[i]
    BY <1>0, <1>4, Completed DEF TypeOK
  <2>3. \A k \in 1 .. turn : out[k][1] # j
    BY <1>0, <2>1 DEF OutIsTrue, TypeOK
  <2> QED
    BY <1>0, <2>1, <2>2, <2>3 DEF Filled
<1> QED
  BY <1>1, <1>2, <1>3, <1>4, Steps, MovesOnly
     DEF OnlyMoves, Submit, Start, BeginCollecting, SetCancel, Crash, vars, caller, pool, lists

LEMMA LateStep == BatchInv /\ [Next]_vars => LateIsLast' /\ CancelBites'
<1> SUFFICES ASSUME BatchInv, [Next]_vars PROVE LateIsLast' /\ CancelBites'
  OBVIOUS
<1>0. TypeOK /\ LateIsLast /\ CancelBites
  BY DEF BatchInv
<1>1. CASE Submit
  <2>1. Cardinality({}) = 0 /\ Cardinality({next}) = 1
    BY FS_EmptySet, FS_Singleton
  <2>2. CancelBites'
    BY <1>1, <2>1, HandedOver DEF CancelBites
  <2> QED
    BY <1>1, <2>2, HandedOver DEF LateIsLast, Submit, Goes
<1>2. CASE CheckCancel
  BY <1>0, <1>2 DEF CheckCancel, CancelSeen, LateIsLast, CancelBites
<1>3. CASE UNCHANGED late /\ (cancelled => cancelled') /\ phase' \notin {"start", "checked"}
  BY <1>0, <1>3 DEF LateIsLast, CancelBites
<1>4. CASE UNCHANGED <<late, phase>> /\ (cancelled => cancelled')
  BY <1>0, <1>4 DEF LateIsLast, CancelBites
<1>5. Moves => CheckCancel \/ (UNCHANGED <<late, cancelled>> /\ phase' \notin {"start", "checked"})
  BY DEF Moves, Validate, SubmitRaises, CollectedAll, Leave, Return, CollectRaises, Goes
<1>6. BeginCollecting \/ Aggregate => UNCHANGED <<late, cancelled>> /\ phase' \notin {"start", "checked"}
  BY DEF BeginCollecting, Aggregate, Goes
<1>7. ASSUME NEW j \in Jobs, Collect(j) \/ Start(j) \/ Finish(j) \/ Abandon(j)
      PROVE  UNCHANGED <<late, phase, cancelled>>
  BY <1>7, Completed DEF Collect, Start, caller
<1>8. SetCancel \/ Crash \/ UNCHANGED vars => UNCHANGED <<late, phase>> /\ (cancelled => cancelled')
  BY DEF SetCancel, Crash, caller, vars
<1> QED
  BY <1>1, <1>2, <1>3, <1>4, <1>5, <1>6, <1>7, <1>8, Steps

LEMMA StagedStep == BatchInv /\ [Next]_vars => Staged'
<1> SUFFICES ASSUME BatchInv, [Next]_vars PROVE Staged'
  OBVIOUS
<1>0. TypeOK /\ JobsInOrder /\ Staged
  BY DEF BatchInv
<1>1. CASE Moves
  <2>1. /\ UNCHANGED <<next, cancelled, job, out, turn>>
        /\ Awaited' = Awaited /\ Consumed' = Consumed /\ (Quiet' <=> Quiet)
    BY <1>1, MovesOnly DEF OnlyMoves, pool, lists, Awaited, Consumed, Quiet
  <2>2. CASE Validate
    <3>1. next = 1 /\ Quiet
      BY <1>0, <2>2, NAssumption DEF Validate, Goes, Staged, JobsInOrder, Quiet, Jobs
    <3> QED
      BY <1>0, <2>1, <2>2, <3>1 DEF Validate, Goes, Staged
  <2>3. CASE CheckCancel
    BY <1>0, <2>1, <2>3 DEF CheckCancel, Goes, Staged
  <2>4. CASE SubmitRaises \/ \E j \in Jobs : CollectRaises(j)
    BY <1>0, <2>1, <2>4 DEF SubmitRaises, CollectRaises, Goes, Staged
  <2>5. CASE CollectedAll
    BY <1>0, <2>1, <2>5 DEF CollectedAll, Goes, Staged
  <2>6. CASE Leave
    BY <1>0, <2>1, <2>6 DEF Leave, Goes, Staged
  <2>7. CASE Return
    BY <1>0, <2>1, <2>7 DEF Return, Goes, Staged
  <2> QED
    BY <1>1, <2>2, <2>3, <2>4, <2>5, <2>6, <2>7 DEF Moves
<1>2. CASE Submit
  BY <1>0, <1>2 DEF Submit, Goes, Staged, lists
<1>3. CASE BeginCollecting
  BY <1>0, <1>3 DEF BeginCollecting, CancelSeen, Goes, Staged
<1>4. CASE Aggregate
  <2>1. /\ UNCHANGED <<next, cancelled, job, out>>
        /\ Awaited' = Awaited /\ Consumed' = Consumed /\ (Quiet' <=> Quiet)
    BY <1>4 DEF Aggregate, pool, Awaited, Consumed, Quiet
  <2> QED
    BY <1>0, <1>4, <2>1 DEF Aggregate, Goes, Staged
<1>5. ASSUME NEW j \in Jobs, Collect(j) PROVE Staged'
  BY <1>0, <1>5 DEF Collect, Staged
<1>6. CASE SetCancel \/ Crash \/ UNCHANGED vars
  <2>1. /\ UNCHANGED <<phase, next, job, out, turn>> /\ (cancelled => cancelled')
        /\ Awaited' = Awaited /\ Consumed' = Consumed /\ (Quiet' <=> Quiet)
    BY <1>6 DEF SetCancel, Crash, vars, caller, pool, lists, Awaited, Consumed, Quiet
  <2> QED
    BY <1>0, <2>1 DEF Staged
<1>7. ASSUME NEW j \in Jobs, Start(j) \/ Finish(j) \/ Abandon(j) PROVE Staged'
  <2>1. /\ UNCHANGED <<phase, next, cancelled, out, turn>>
        /\ job[j] \in {"queued", "running"} /\ Awaited' = Awaited
    <3>1. CASE Start(j)
      BY <3>1, Started DEF Start, caller, lists
    <3>2. CASE Finish(j) \/ Abandon(j)
      <4>1. job[j] \in {"queued", "running"} /\ job' = [job EXCEPT ![j] = "done"]
        BY <3>2, Completed
      <4>2. Awaited' = Awaited
        BY <1>0, <4>1 DEF Awaited, TypeOK
      <4> QED
        BY <3>2, <4>1, <4>2, Completed DEF caller, lists
    <3> QED
      BY <1>7, <3>1, <3>2
  <2>2. ~Quiet /\ Consumed' = Consumed
    BY <2>1 DEF Quiet, Consumed
  <2> QED
    BY <1>0, <2>1, <2>2 DEF Staged
<1> QED
  BY <1>1, <1>2, <1>3, <1>4, <1>5, <1>6, <1>7, Steps

LEMMA RaisesStep == BatchInv /\ [Next]_vars => OnlyPanicsAndCrashesRaise'
<1> SUFFICES ASSUME BatchInv, [Next]_vars PROVE OnlyPanicsAndCrashesRaise'
  OBVIOUS
<1>0. TypeOK /\ JobsInOrder /\ OnlyPanicsAndCrashesRaise
  BY DEF BatchInv
<1> USE DEF OnlyPanicsAndCrashesRaise
<1>1. CASE Moves
  <2>1. UNCHANGED <<broken, result>>
    BY <1>1, MovesOnly DEF OnlyMoves, pool
  <2> QED
    BY <1>0, <1>1, <2>1 DEF Moves, Validate, CheckCancel, SubmitRaises, CollectedAll, Leave,
       Return, CollectRaises, Goes, Escapes
<1>2. CASE Submit \/ BeginCollecting \/ Aggregate
  BY <1>2 DEF Submit, BeginCollecting, Aggregate, Goes
<1>3. CASE UNCHANGED <<phase, result>> /\ (broken => broken')
  BY <1>0, <1>3
<1>4. ASSUME NEW j \in Jobs, Collect(j) \/ Start(j) PROVE OnlyPanicsAndCrashesRaise'
  <2>1. UNCHANGED <<phase, result, broken>>
    BY <1>4 DEF Collect, Start, caller, pool
  <2> QED
    BY <1>0, <2>1
<1>5. ASSUME NEW j \in Jobs, Finish(j) \/ Abandon(j) PROVE OnlyPanicsAndCrashesRaise'
  <2>1. result[j] = "none" /\ UNCHANGED <<phase, broken>>
    BY <1>0, <1>5, Completed DEF JobsInOrder, caller
  <2>2. \A i \in Jobs : i # j => result'[i] = result[i]
    BY <1>0, <1>5, Completed DEF TypeOK
  <2> QED
    BY <1>0, <2>1, <2>2
<1>6. SetCancel \/ Crash \/ UNCHANGED vars => UNCHANGED <<phase, result>> /\ (broken => broken')
  BY DEF SetCancel, Crash, vars, caller, pool
<1> QED
  BY <1>1, <1>2, <1>3, <1>4, <1>5, <1>6, Steps

LEMMA AheadStep == BatchInv /\ [Next]_vars => Ahead' /\ CompletionOrder'
<1> SUFFICES ASSUME BatchInv, [Next]_vars PROVE Ahead' /\ CompletionOrder'
  OBVIOUS
<1>0. TypeOK /\ JobsInOrder /\ OutIsTrue /\ Staged /\ Ahead /\ CompletionOrder
  BY DEF BatchInv
<1>1. CASE UNCHANGED <<out, rank, early>> /\ Done' = Done
  <2>1. Consumed' = Consumed /\ Waiting' = Waiting
    BY <1>1 DEF Consumed, Waiting
  <2> QED
    BY <1>0, <1>1, <2>1 DEF Ahead, CompletionOrder
<1>2. CASE BeginCollecting
  <2>1. out' = <<>>
    BY <1>0, <1>2 DEF BeginCollecting, Goes, Staged, lists
  <2>2. Consumed' = {} /\ Len(out') = 0
    BY <2>1 DEF Consumed
  <2> QED
    BY <2>2 DEF Ahead, CompletionOrder
<1>3. ASSUME NEW j \in Jobs, Collect(j) PROVE Ahead' /\ CompletionOrder'
  <2>1. /\ UNCHANGED <<job, rank, early>> /\ Done' = Done
        /\ Consumed' = Consumed \cup {j} /\ j \in Waiting /\ InTurn(j)
    BY <1>3, Collected DEF pool, Done, Collect
  <2>2. Waiting' = Waiting \ {j}
    BY <2>1 DEF Waiting
  <2>3. \A i \in Jobs : rank[i] \in Nat
    BY <1>0, NAssumption DEF TypeOK
  <2>4. early \in Nat
    BY <1>0, NAssumption DEF TypeOK
  <2>5. \A i \in Waiting : i # j => rank[i] # rank[j]
    BY <1>0, <2>1 DEF Waiting, JobsInOrder
  <2>6. Waiting \subseteq Jobs
    BY DEF Waiting, Done
  <2>7. rank[j] > early => \A i \in Waiting : i # j => rank[j] < rank[i]
    BY <2>1, <2>3, <2>4, <2>5, <2>6 DEF InTurn
  <2>8. Ahead'
    BY <1>0, <2>1, <2>2, <2>7 DEF Ahead
  <2>9. /\ Len(out) \in Nat /\ Len(out') = Len(out) + 1 /\ out'[Len(out) + 1][1] = j
        /\ \A k \in 1 .. Len(out) : out'[k] = out[k]
    BY <1>3, Collected
  <2>10. ASSUME NEW k \in 1 .. Len(out)
         PROVE  LET i == out[k][1]
                IN  i \in Jobs /\ i # j /\ (rank[i] < rank[j] \/ (rank[i] =< early /\ rank[j] =< early))
    <3> DEFINE i == out[k][1]
    <3>1. i \in Consumed /\ i \in Jobs /\ i # j
      BY <1>0, <2>1 DEF Consumed, Waiting, OutIsTrue, Done
    <3>2. rank[i] > early => rank[i] < rank[j]
      BY <1>0, <2>1, <3>1 DEF Ahead
    <3> HIDE DEF i
    <3>3. rank[i] < rank[j] \/ (rank[i] =< early /\ rank[j] =< early)
      BY <2>3, <2>4, <3>1, <3>2
    <3> QED
      BY <3>1, <3>3 DEF i
  <2>11. CompletionOrder'
    <3> SUFFICES ASSUME NEW k \in 1 .. Len(out'), NEW m \in 1 .. Len(out'), k < m
                 PROVE  \/ rank[out'[k][1]] < rank[out'[m][1]]
                        \/ /\ out'[k][1] # out'[m][1]
                           /\ rank[out'[k][1]] =< early /\ rank[out'[m][1]] =< early
      BY <2>1 DEF CompletionOrder
    <3>1. k \in 1 .. Len(out) /\ out'[k] = out[k]
      BY <2>9
    <3>2. CASE m = Len(out) + 1
      BY <2>9, <2>10, <3>1, <3>2
    <3>3. CASE m \in 1 .. Len(out)
      BY <1>0, <2>9, <3>1, <3>3 DEF CompletionOrder
    <3> QED
      BY <2>9, <3>2, <3>3
  <2> QED
    BY <2>8, <2>11
<1>4. ASSUME NEW j \in Jobs, Finish(j) \/ Abandon(j) PROVE Ahead' /\ CompletionOrder'
  <2>1. /\ j \notin Done /\ Done' = Done \cup {j} /\ UNCHANGED <<out, early>>
        /\ rank' = [rank EXCEPT ![j] = Cardinality(Done) + 1] /\ Cardinality(Done) \in Nat
    <3>1. Cardinality(Done) \in Nat
      BY <1>0, DoneCounts
    <3> QED
      BY <1>4, <3>1, Completed DEF Done, caller, lists
  <2>2. rank'[j] = Cardinality(Done) + 1 /\ \A i \in Done : rank'[i] = rank[i]
    BY <1>0, <2>1 DEF TypeOK, Done
  <2>3. \A i \in Done : rank[i] \in Nat /\ rank[i] =< Cardinality(Done)
    BY <1>0, NAssumption DEF TypeOK, Done, JobsInOrder
  <2>4. Consumed' = Consumed /\ Consumed \subseteq Done
    BY <1>0, <2>1 DEF Consumed, OutIsTrue
  <2>5. Waiting' = Waiting \cup {j} /\ Waiting \subseteq Done
    BY <2>1, <2>4 DEF Waiting
  <2>6. Ahead'
    <3> SUFFICES ASSUME NEW i \in Consumed, NEW k \in Waiting \cup {j}, rank'[i] > early
                 PROVE  rank'[i] < rank'[k]
      BY <2>1, <2>4, <2>5 DEF Ahead
    <3>1. CASE k = j
      BY <2>1, <2>2, <2>3, <2>4, <3>1
    <3>2. CASE k \in Waiting
      BY <1>0, <2>2, <2>4, <2>5, <3>2 DEF Ahead
    <3> QED
      BY <3>1, <3>2
  <2>7. \A k \in 1 .. Len(out) : rank'[out[k][1]] = rank[out[k][1]]
    BY <1>0, <2>2 DEF OutIsTrue
  <2>8. CompletionOrder'
    <3> SUFFICES ASSUME NEW k \in 1 .. Len(out), NEW m \in 1 .. Len(out), k < m
                 PROVE  LET a == out[k][1]
                            b == out[m][1]
                        IN  rank'[a] < rank'[b] \/ (a # b /\ rank'[a] =< early /\ rank'[b] =< early)
      BY <2>1 DEF CompletionOrder
    <3> QED
      BY <1>0, <2>7 DEF CompletionOrder
  <2> QED
    BY <2>6, <2>8
<1>5. Moves \/ Aggregate \/ SetCancel \/ Crash \/ UNCHANGED vars
        => UNCHANGED <<out, rank, early>> /\ Done' = Done
  BY MovesOnly DEF OnlyMoves, Aggregate, SetCancel, Crash, vars, caller, pool, lists, Done
<1>6. Submit \/ (\E j \in Jobs : Start(j)) => UNCHANGED <<out, rank, early>> /\ Done' = Done
  BY HandedOver, Started DEF Submit, Start, caller, lists
<1> QED
  BY <1>1, <1>2, <1>3, <1>4, <1>5, <1>6, Steps

-----------------------------------------------------------------------------
(* The invariant is one of every behaviour.                                *)
THEOREM BatchInvariant == Safety => []BatchInv
<1>1. BatchInv /\ [Next]_vars => BatchInv'
  BY TypeStep, OrderStep, OutStep, FilledStep, StagedStep, LateStep, AheadStep, RaisesStep
     DEF BatchInv
<1> QED
  BY <1>1, InitBatch, PTL DEF Safety

(* Every variable of the batch keeps to its values.                        *)
THEOREM TypeCorrect == Safety => []TypeOK
<1>1. BatchInv => TypeOK
  BY DEF BatchInv
<1> QED
  BY <1>1, BatchInvariant, PTL

(* Setting cancel lets at most one more job through, however many there    *)
(* are.                                                                    *)
THEOREM CancelLetsOneThrough == Safety => []CancelBites
<1>1. BatchInv => CancelBites
  BY DEF BatchInv
<1> QED
  BY <1>1, BatchInvariant, PTL

(* The callbacks follow the order of completion, but for the jobs done     *)
(* before collecting began.                                                *)
THEOREM CallbacksFollow == Safety => []CompletionOrder
<1>1. BatchInv => CompletionOrder
  BY DEF BatchInv
<1> QED
  BY <1>1, BatchInvariant, PTL

(* An error of a job stays in its place: only a panic or a lost process    *)
(* leaves the collecting by an exception.                                  *)
THEOREM ErrorsAreKept == Safety => []OnlyPanicsAndCrashesRaise
<1>1. BatchInv => OnlyPanicsAndCrashesRaise
  BY DEF BatchInv
<1> QED
  BY <1>1, BatchInvariant, PTL

-----------------------------------------------------------------------------
(* The refinement: each step is one of the promise's, or none of them.     *)
LEMMA PromiseFromStart == Init => Promised!Init
BY DEF Init, Promised!Init, Promised!Nothing, Promised!Jobs, Jobs, replied, ending

LEMMA Given ==
  ASSUME BatchInv
  PROVE  /\ next - 1 \in Nat
         /\ \A j \in Jobs : j =< next - 1 <=> job[j] # "unsubmitted"
         /\ Quiet => Promised!AllEnded
<1>1. next - 1 \in Nat /\ next - 1 =< N
  BY NAssumption DEF BatchInv, TypeOK
<1>2. \A j \in Jobs : j =< next - 1 <=> job[j] # "unsubmitted"
  BY NAssumption DEF BatchInv, TypeOK, JobsInOrder, Jobs
<1>3. ASSUME Quiet, NEW j \in 1 .. next - 1 PROVE result[j] # "none"
  <2>1. j \in Jobs /\ j =< next - 1
    BY <1>1, <1>3, NAssumption DEF Jobs
  <2> QED
    BY <1>2, <1>3, <2>1 DEF Quiet, BatchInv, JobsInOrder
<1> QED
  BY <1>1, <1>2, <1>3 DEF Promised!AllEnded

(* When the call returns, `results` is what became of every job.           *)
LEMMA ReturnsAll ==
  ASSUME BatchInv, phase = "aggregating", turn = Len(out)
  PROVE  results = result
<1>1. TypeOK /\ JobsInOrder /\ OutIsTrue /\ Filled /\ Awaited \subseteq Consumed
  BY DEF BatchInv, Staged
<1>2. ASSUME NEW j \in Jobs PROVE results[j] = result[j]
  <2>1. CASE \E k \in 1 .. turn : out[k][1] = j
    BY <1>1, <2>1 DEF Filled
  <2>2. CASE ~ \E k \in 1 .. turn : out[k][1] = j
    <3>1. j \notin Consumed
      BY <2>2 DEF Consumed
    <3>2. job[j] = "unsubmitted"
      BY <1>1, <3>1 DEF Awaited
    <3> QED
      BY <1>1, <2>2, <3>2 DEF Filled, JobsInOrder
  <2> QED
    BY <2>1, <2>2
<1> QED
  BY <1>1, <1>2 DEF TypeOK

LEMMA PromiseStep ==
  BatchInv /\ [Next]_vars => [Promised!Next]_(Promised!vars)
<1> SUFFICES ASSUME BatchInv, [Next]_vars PROVE [Promised!Next]_(Promised!vars)
  OBVIOUS
<1>0. TypeOK /\ Staged
  BY DEF BatchInv
<1>1. CASE UNCHANGED <<next, cancelled, result, replied, ending>>
  BY <1>1 DEF Promised!vars
<1>2. CASE Moves
  <2>1. UNCHANGED <<next, cancelled, result, results>>
    BY <1>2, MovesOnly DEF OnlyMoves, pool, lists
  <2>2. CASE Return
    <3>1. ending = "no" /\ ending' = "returned" /\ replied' = result
      BY <2>1, <2>2, ReturnsAll DEF Return, Goes, ending, replied
    <3>2. Promised!AllEnded /\ (next - 1 < N => cancelled)
      BY <1>0, <2>2, Given, NAssumption DEF Return, Goes, Staged, TypeOK
    <3> QED
      BY <2>1, <3>1, <3>2 DEF Promised!Next, Promised!Return
  <2>3. CASE (Validate \/ Leave) /\ phase' \in {"raised", "rejected"}
    <3>1. ending = "no" /\ ending' = "raised" /\ replied' = replied
      BY <2>3 DEF Validate, Leave, Goes, ending, replied
    <3>2. Promised!AllEnded
      <4>1. CASE Leave
        BY <4>1, Given DEF Leave
      <4>2. CASE Validate
        BY <1>0, <4>2 DEF Validate, Goes, Staged, Promised!AllEnded
      <4> QED
        BY <2>3, <4>1, <4>2
    <3> QED
      BY <2>1, <3>1, <3>2 DEF Promised!Next, Promised!Raise
  <2>4. CASE ~Return /\ phase' \notin {"raised", "rejected"}
    <3>1. /\ phase \notin {"returned", "raised", "rejected"}
          /\ phase' \notin {"returned", "raised", "rejected"}
      BY <1>2, <2>4 DEF Moves, Validate, CheckCancel, SubmitRaises, CollectedAll, Leave,
         CollectRaises, Goes
    <3>2. UNCHANGED <<replied, ending>>
      BY <3>1 DEF replied, ending
    <3> QED
      BY <1>1, <2>1, <3>2
  <2> QED
    BY <1>2, <2>2, <2>3, <2>4 DEF Moves, CheckCancel, SubmitRaises, CollectedAll, CollectRaises, Goes
<1>3. CASE Submit
  <2>1. UNCHANGED <<cancelled, result, replied, ending>> /\ ending = "no"
    BY <1>3 DEF Submit, Goes, replied, ending
  <2>2. next' - 1 = (next - 1) + 1 /\ next - 1 < N
    BY <1>0, <1>3, HandedOver, NAssumption DEF Jobs, TypeOK
  <2> QED
    BY <2>1, <2>2 DEF Promised!Next, Promised!HandOver
<1>4. CASE BeginCollecting
  <2>1. UNCHANGED <<next, cancelled, result, replied, ending>>
    BY <1>4 DEF BeginCollecting, Goes, pool, lists, replied, ending
  <2> QED
    BY <1>1, <2>1
<1>5. CASE Aggregate
  <2>1. UNCHANGED <<next, cancelled, result, replied>> /\ ending = "no"
    BY <1>5 DEF Aggregate, Goes, pool, replied, ending
  <2>2. ending' \in {"no", "raised"}
    BY <1>5 DEF Aggregate, Goes, ending
  <2>3. Promised!AllEnded
    BY <1>0, <1>5, Given DEF Aggregate, Goes, Staged
  <2> QED
    BY <1>1, <2>1, <2>2, <2>3 DEF Promised!Next, Promised!Raise
<1>6. CASE SetCancel
  <2>1. UNCHANGED <<next, result, replied, ending>> /\ cancelled'
    BY <1>6 DEF SetCancel, caller, pool, lists, replied, ending
  <2>2. cancelled' = TRUE
    BY <1>6 DEF SetCancel
  <2> QED
    BY <2>1, <2>2 DEF Promised!Next, Promised!Cancel
<1>7. CASE Crash \/ UNCHANGED vars \/ \E j \in Jobs : Start(j)
  BY <1>1, <1>7 DEF Crash, Start, vars, caller, pool, lists, replied, ending
<1>8. ASSUME NEW j \in Jobs, Collect(j) PROVE [Promised!Next]_(Promised!vars)
  BY <1>1, <1>8 DEF Collect, pool, replied, ending
<1>9. ASSUME NEW j \in Jobs, Finish(j) \/ Abandon(j) PROVE [Promised!Next]_(Promised!vars)
  <2>1. /\ job[j] \in {"queued", "running"}
        /\ \E r \in Outcomes : result' = [result EXCEPT ![j] = r]
        /\ UNCHANGED <<phase, next, cancelled, results>>
    BY <1>9, Completed DEF caller, lists
  <2>2. ending = "no" /\ UNCHANGED <<replied, ending>>
    BY <1>0, <2>1 DEF Staged, Quiet, replied, ending
  <2>3. j =< next - 1 /\ result[j] = "none"
    BY <2>1, Given DEF BatchInv, JobsInOrder
  <2>4. Promised!End(j)
    BY <2>1, <2>2, <2>3 DEF Promised!End
  <2> QED
    BY <2>4 DEF Promised!Next, Promised!Jobs, Jobs
<1> QED
  BY <1>2, <1>3, <1>4, <1>5, <1>6, <1>7, <1>8, <1>9, Steps

(* A batch call keeps what BatchPromise says: each job handed over ends    *)
(* once, and the list holds what became of every one of them.              *)
THEOREM ImplementsPromise == Safety => KeepsPromise
BY PromiseFromStart, PromiseStep, BatchInvariant, PTL DEF Safety, KeepsPromise, Promised!Spec
=============================================================================
