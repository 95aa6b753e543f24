------------------------------- MODULE Batch -------------------------------
(***************************************************************************)
(* extract_many and list_many of python/newtua/_batch.py: the jobs are     *)
(* numbered, handed to an executor in that order, run there by at most     *)
(* MaxWorkers workers, collected as they complete, and put back in their   *)
(* places while the callbacks are called.  `cancel` may be set at any      *)
(* time.  A job of list_many has no progress callback: its calls are those *)
(* with progress = FALSE.  The executor (concurrent.futures, or a gevent   *)
(* pool behind the same interface) and the extraction itself are external. *)
(***************************************************************************)
EXTENDS Naturals, Sequences, FiniteSets

CONSTANTS
  N,           (* number of jobs                                           *)
  MaxWorkers,  (* max_workers                                              *)
  Backends     (* backends explored: "thread", "process", or a name that   *)
               (* is neither                                               *)

ASSUME NAssumption == N \in Nat
ASSUME MaxWorkersAssumption == MaxWorkers \in Nat \ {0}
ASSUME BackendsAssumption == Backends \subseteq {"thread", "process", "unknown"}

Jobs == 1 .. N

VARIABLES
  backend,
  progress,   (* does a job carry a progress callback?                     *)
  phase,      (* where the calling thread is                               *)
  next,       (* the job to submit next                                    *)
  cancelled,  (* cancel.is_set()                                           *)
  job,        (* each job, as the executor sees it                         *)
  result,     (* what each job's future holds                              *)
  rank,       (* the place of each job in the order of completion          *)
  broken,     (* the process pool lost a process                           *)
  early,      (* how many jobs were done when collecting began             *)
  out,        (* `out`: the collected outcomes, in order                   *)
  turn,       (* how many of them the last loop has dealt with             *)
  results,    (* `results`: the outcomes at their jobs' places             *)
  late        (* history: jobs submitted after cancel was set              *)

args == <<backend, progress>>
pool == <<job, result, rank, broken>>
lists == <<out, turn, results>>
vars == <<args, phase, next, cancelled, pool, early, lists, late>>

(* How a future ends.  An engine error carries a `kind` and is made into   *)
(* its typed class; a plain exception of Python's has none; "masked" is a  *)
(* NewtuaError that tells neither.                                         *)
Outcomes == {"report", "typed", "plain", "masked", "panic", "broken"}

TypeOK ==
  /\ backend \in Backends /\ progress \in BOOLEAN
  /\ phase \in {"start", "submitting", "checked", "collecting", "leaving",
                "failing", "aggregating", "returned", "raised", "rejected"}
  /\ cancelled \in BOOLEAN /\ broken \in BOOLEAN
  /\ next \in 1 .. N + 1
  /\ job \in [Jobs -> {"unsubmitted", "queued", "running", "done"}]
  /\ result \in [Jobs -> Outcomes \cup {"none"}]
  /\ rank \in [Jobs -> 0 .. N] /\ early \in 0 .. N
  /\ out \in Seq(Jobs \X Outcomes) /\ Len(out) =< N
  /\ turn \in 0 .. Len(out)
  /\ results \in [Jobs -> Outcomes \cup {"none"}]
  /\ late \subseteq Jobs

Init ==
  /\ backend \in Backends /\ progress \in BOOLEAN
  /\ phase = "start"
  /\ cancelled \in BOOLEAN /\ broken = FALSE
  /\ next = 1
  /\ job = [j \in Jobs |-> "unsubmitted"]
  /\ result = [j \in Jobs |-> "none"]
  /\ rank = [j \in Jobs |-> 0] /\ early = 0
  /\ out = <<>> /\ turn = 0
  /\ results = [j \in Jobs |-> "none"]
  /\ late = {}

-----------------------------------------------------------------------------
(* raise_for looks for a `kind`; _as_typed calls it only if there is one.  *)
RaiseFor(exc) == IF exc = "engine" THEN "typed" ELSE "masked"
AsTyped(exc) == IF exc = "engine" THEN RaiseFor(exc) ELSE exc

Done == {j \in Jobs : job[j] = "done"}

Goes(from, to) == phase = from /\ phase' = to

(* extract_many: callbacks cannot cross to another process; then           *)
(* _make_executor refuses a backend it does not know (_batch.py:169).      *)
Validate ==
  /\ Goes("start", IF backend = "unknown" \/ (backend = "process" /\ progress)
                   THEN "rejected" ELSE "submitting")
  /\ UNCHANGED <<args, next, cancelled, pool, early, lists, late>>

FaultyCancelSeen == cancelled /\ next = 1
CancelSeen == cancelled

(* The check before each submit, which another thread may overtake.        *)
CheckCancel ==
  /\ next =< N
  /\ ~CancelSeen
  /\ Goes("submitting", "checked")
  /\ UNCHANGED <<args, next, cancelled, pool, early, lists, late>>

Submit ==
  /\ Goes("checked", "submitting")
  /\ ~broken
  /\ job' = [job EXCEPT ![next] = "queued"]
  /\ late' = IF cancelled THEN late \cup {next} ELSE late
  /\ next' = next + 1
  /\ UNCHANGED <<args, cancelled, result, rank, broken, early, lists>>

(* A pool that lost a process takes no more work: submit raises.  (That it *)
(* also raises where the system has no thread to start is left out.)       *)
SubmitRaises ==
  /\ Goes("checked", "failing")
  /\ broken
  /\ UNCHANGED <<args, next, cancelled, pool, early, lists, late>>

(* The loop ends or is left; as_completed looks once at what is done.      *)
BeginCollecting ==
  /\ next > N \/ CancelSeen
  /\ Goes("submitting", "collecting")
  /\ early' = Cardinality(Done)
  /\ UNCHANGED <<args, next, cancelled, pool, lists, late>>

Consumed == {out[k][1] : k \in 1 .. Len(out)}
Waiting  == Done \ Consumed

(* `for fut in futures`: in the order of the jobs instead.                 *)
FaultyInTurn(j) == \A i \in Jobs \ Consumed : j =< i

(* as_completed hands out what was done at its start in any order, and     *)
(* after that each future as it completes.                                 *)
InTurn(j) == rank[j] =< early \/ \A i \in Waiting : rank[j] =< rank[i]

FaultyPlaceOf(j) == Len(out) + 1
FaultyNumberOf(j) == j + 1
PlaceOf(j) == j

(* `except Exception` keeps the errors, a broken pool among them; a panic  *)
(* of the engine is a BaseException.                                       *)
FaultyEscapes(r) == r \in {"panic", "plain"}
Escapes(r) == r = "panic"

Collect(j) ==
  /\ phase = "collecting"
  /\ j \in Waiting /\ InTurn(j) /\ ~Escapes(result[j])
  /\ out' = Append(out, <<PlaceOf(j), AsTyped(result[j])>>)
  /\ UNCHANGED <<args, phase, next, cancelled, pool, early, turn, results, late>>

CollectRaises(j) ==
  /\ j \in Waiting /\ InTurn(j) /\ Escapes(result[j])
  /\ Goes("collecting", "failing")
  /\ UNCHANGED <<args, next, cancelled, pool, early, lists, late>>

FaultyAwaited == Jobs
Awaited == {j \in Jobs : job[j] # "unsubmitted"}

CollectedAll ==
  /\ Goes("collecting", "leaving")
  /\ Awaited \subseteq Consumed
  /\ UNCHANGED <<args, next, cancelled, pool, early, lists, late>>

Quiet == \A j \in Jobs : job[j] \in {"unsubmitted", "done"}

(* The end of the `with` waits for every job handed in.                    *)
Leave ==
  /\ Quiet
  /\ Goes("leaving", "aggregating") \/ Goes("failing", "raised")
  /\ UNCHANGED <<args, next, cancelled, pool, early, lists, late>>

(* One turn of the last loop: the place, then the callback, which may      *)
(* raise.                                                                  *)
Aggregate ==
  /\ turn < Len(out)
  /\ LET item == out[turn + 1] IN results' = [results EXCEPT ![item[1]] = item[2]]
  /\ turn' = turn + 1
  /\ Goes("aggregating", "aggregating") \/ Goes("aggregating", "raised")
  /\ UNCHANGED <<args, next, cancelled, pool, early, out, late>>

Return ==
  /\ turn = Len(out)
  /\ Goes("aggregating", "returned")
  /\ UNCHANGED <<args, next, cancelled, pool, early, lists, late>>

-----------------------------------------------------------------------------
caller == <<args, phase, next, early, lists, late>>

SetCancel ==
  /\ ~cancelled
  /\ cancelled' = TRUE
  /\ UNCHANGED <<caller, pool>>

Oldest(j) == \A i \in Jobs : i < j => job[i] # "queued"

(* A worker takes the oldest job waiting.                                  *)
Start(j) ==
  /\ ~broken /\ job[j] = "queued" /\ Oldest(j)
  /\ Cardinality({i \in Jobs : job[i] = "running"}) < MaxWorkers
  /\ job' = [job EXCEPT ![j] = "running"]
  /\ UNCHANGED <<caller, cancelled, result, rank, broken>>

Completes(j, r) ==
  /\ job' = [job EXCEPT ![j] = "done"]
  /\ result' = [result EXCEPT ![j] = r]
  /\ rank' = [rank EXCEPT ![j] = Cardinality(Done) + 1]
  /\ UNCHANGED <<caller, cancelled, broken>>

(* _extract_one or _list_one ends: a report, an error of the engine or of  *)
(* Python's (a selection that cannot be resolved) or, in a thread, a panic *)
(* of the engine (in a child process it comes back as the error that it    *)
(* cannot be pickled).                                                     *)
Finish(j) ==
  /\ ~broken /\ job[j] = "running"
  /\ \E r \in {"report", AsTyped("engine"), AsTyped("plain")}
              \cup (IF backend = "thread" THEN {"panic"} ELSE {}) : Completes(j, r)

(* A worker process dies, at work or idle: there are some from the first   *)
(* submit to the end of the `with`, ...                                    *)
Crash ==
  /\ backend = "process" /\ ~broken
  /\ phase \in {"submitting", "checked", "collecting", "leaving", "failing"}
  /\ \E j \in Jobs : job[j] # "unsubmitted"
  /\ broken' = TRUE
  /\ UNCHANGED <<caller, cancelled, job, result, rank>>

(* ... and every job not done gets BrokenProcessPool, the oldest first.    *)
Abandon(j) ==
  /\ broken /\ job[j] \in {"queued", "running"}
  /\ \A i \in Jobs : i < j => job[i] \notin {"queued", "running"}
  /\ Completes(j, "broken")

CallerStep ==
  \/ Validate \/ CheckCancel \/ Submit \/ SubmitRaises \/ BeginCollecting
  \/ \E j \in Jobs : Collect(j) \/ CollectRaises(j)
  \/ CollectedAll \/ Leave \/ Aggregate \/ Return

PoolStep == Crash \/ \E j \in Jobs : Start(j) \/ Finish(j) \/ Abandon(j)

Next == CallerStep \/ PoolStep \/ SetCancel

(* The calling thread runs, and the workers finish what they are given.    *)
Fairness == WF_vars(CallerStep) /\ WF_vars(PoolStep)

Safety == Init /\ [][Next]_vars
Spec   == Safety /\ Fairness

-----------------------------------------------------------------------------
(* The list the caller gets is what BatchPromise promises, whatever the    *)
(* order of completions and whatever is cancelled or lost: every outcome   *)
(* at its own job's place and of its own class (_batch.py:308), for        *)
(* exactly the jobs submitted; and no job runs on behind the caller's back.*)
replied == IF phase = "returned" THEN results ELSE [j \in Jobs |-> "none"]
ending  == IF phase = "returned" THEN "returned"
           ELSE IF phase \in {"raised", "rejected"} THEN "raised" ELSE "no"

Promised == INSTANCE BatchPromise WITH
  given <- next - 1, fate <- result, reply <- replied, over <- ending

KeepsPromise == Promised!Spec

(* The callbacks follow the order of completion (_batch.py:217), save      *)
(* among the jobs that were done before collecting began, which all come   *)
(* first; and no job is told of twice.                                     *)
CompletionOrder ==
  \A k, m \in 1 .. Len(out) : k < m =>
    LET i == out[k][1]
        j == out[m][1]
    IN  rank[i] < rank[j] \/ (i # j /\ rank[i] =< early /\ rank[j] =< early)

(* Setting cancel stops the submitting: at most the one job whose check    *)
(* was already made goes through.                                          *)
CancelBites == Cardinality(late) =< 1

(* An error of a job never comes out of _run_backend: an exception on its  *)
(* way out means that the engine panicked or a process was lost.           *)
OnlyPanicsAndCrashesRaise ==
  phase = "failing" => broken \/ \E j \in Jobs : result[j] = "panic"

(* "Batch calls never raise on the first failure -- each job's outcome (a  *)
(* Report or the caught exception) is collected" (_batch.py:4): nothing    *)
(* that happens in a job comes out of _run_backend.                        *)
NeverRaises == phase # "failing"

(* The call comes to an end.                                               *)
Terminates == <>(phase \in {"returned", "raised", "rejected"})
=============================================================================
