----------------------------- MODULE BatchPromise -----------------------------
(***************************************************************************)
(* What a batch call of python/newtua/_batch.py promises, said of the jobs *)
(* and of the list it returns: the first jobs are handed over one by one,  *)
(* each comes to its own end, and when all of those have ended the call    *)
(* answers, with the outcome of every one of them in its place.  Nothing   *)
(* is said of executors, futures, orders or callbacks.                     *)
(***************************************************************************)
EXTENDS Naturals

CONSTANTS
  N,        (* number of jobs                                              *)
  Outcomes  (* what a job may come to; "none" is not one of them           *)

Jobs == 1 .. N

VARIABLES
  given,      (* how many jobs were handed over                            *)
  cancelled,  (* `cancel` is set                                           *)
  fate,       (* how each job ended                                        *)
  reply,      (* the list returned, by place                               *)
  over        (* "no", "returned" or "raised"                              *)

vars == <<given, cancelled, fate, reply, over>>

Nothing == [j \in Jobs |-> "none"]

Init ==
  /\ given = 0 /\ cancelled \in BOOLEAN
  /\ fate = Nothing /\ reply = Nothing
  /\ over = "no"

Cancel ==
  /\ cancelled' = TRUE
  /\ UNCHANGED <<given, fate, reply, over>>

HandOver ==
  /\ over = "no" /\ given < N
  /\ given' = given + 1
  /\ UNCHANGED <<cancelled, fate, reply, over>>

(* A job ends once, and never after the call is over.                      *)
End(j) ==
  /\ over = "no" /\ j =< given /\ fate[j] = "none"
  /\ \E o \in Outcomes : fate' = [fate EXCEPT ![j] = o]
  /\ UNCHANGED <<given, cancelled, reply, over>>

AllEnded == \A j \in 1 .. given : fate[j] # "none"

(* The call returns what became of each job handed over: of all of them,   *)
(* unless it was cancelled.                                                *)
Return ==
  /\ over = "no" /\ AllEnded
  /\ given < N => cancelled
  /\ reply' = fate
  /\ over' = "returned"
  /\ UNCHANGED <<given, cancelled, fate>>

Raise ==
  /\ over = "no" /\ AllEnded
  /\ over' = "raised"
  /\ UNCHANGED <<given, cancelled, fate, reply>>

Next == Cancel \/ HandOver \/ (\E j \in Jobs : End(j)) \/ Return \/ Raise

Spec == Init /\ [][Next]_vars
=============================================================================
