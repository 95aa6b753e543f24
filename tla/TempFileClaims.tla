--------------------------- MODULE TempFileClaims ---------------------------
(***************************************************************************)
(* What a spilled temporary file promises to whoever still needs it,       *)
(* without saying how the promise is kept.                                 *)
(*                                                                         *)
(* `_TempFile` (python/newtua/_archive.py) is described there as "counted, *)
(* not owned": the archive holds one claim, every live stream one more,    *)
(* and the file goes when the last claim does.  Here the claims are a set  *)
(* of claimants; module Archive keeps only a number of holders and is      *)
(* shown to implement this module.                                         *)
(***************************************************************************)

CONSTANTS
  Files,      (* names of temporary files, each spilled at most once       *)
  Claimants   (* the archive object and the streams it hands out           *)

VARIABLES
  state,      (* "unused", "present", "removed", or "lost"                 *)
  claims      (* who still needs each file                                 *)

vars == <<state, claims>>

Init ==
  /\ state  = [f \in Files |-> "unused"]
  /\ claims = [f \in Files |-> {}]

-----------------------------------------------------------------------------
(* A fresh file appears, claimed by the one who made it.                   *)
Make(f, c) ==
  /\ state[f] = "unused"
  /\ state'  = [state  EXCEPT ![f] = "present"]
  /\ claims' = [claims EXCEPT ![f] = {c}]

(* A fresh file is made and thrown away before anybody else hears of it.   *)
MakeAndDiscard(f) ==
  /\ state[f] = "unused"
  /\ state' = [state EXCEPT ![f] = "removed"]
  /\ UNCHANGED claims

(* Only a file that somebody still claims can be claimed by one more.      *)
Claim(f, c) ==
  /\ state[f] = "present"
  /\ claims[f] # {}
  /\ c \notin claims[f]
  /\ claims' = [claims EXCEPT ![f] = @ \cup {c}]
  /\ UNCHANGED state

(* A claim is given up; the last one may take the file with it at once.    *)
Unclaim(f, c) ==
  /\ state[f] = "present"
  /\ c \in claims[f]
  /\ claims' = [claims EXCEPT ![f] = @ \ {c}]
  /\ \/ UNCHANGED state
     \/ /\ claims[f] = {c}
        /\ state' = [state EXCEPT ![f] = "removed"]

(* A file nobody claims is removed.                                        *)
Remove(f) ==
  /\ state[f] = "present"
  /\ claims[f] = {}
  /\ state' = [state EXCEPT ![f] = "removed"]
  /\ UNCHANGED claims

(* Interference the library does not control: another program removes the  *)
(* file, or the spill itself fails and the file is never entered in the    *)
(* books.  The promise no longer covers a lost file.                       *)
Lose(f) ==
  /\ state[f] \in {"unused", "present"}
  /\ state'  = [state  EXCEPT ![f] = "lost"]
  /\ claims' = [claims EXCEPT ![f] = {}]

Next ==
  \E f \in Files :
    \/ \E c \in Claimants : Make(f, c) \/ Claim(f, c) \/ Unclaim(f, c)
    \/ MakeAndDiscard(f)
    \/ Remove(f)
    \/ Lose(f)

Spec == Init /\ [][Next]_vars
=============================================================================
