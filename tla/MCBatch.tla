------------------------------ MODULE MCBatch ------------------------------
(* Finite instances of module Batch.                                       *)
EXTENDS Batch

AllBackends == {"thread", "process", "unknown"}
ThreadOnly  == {"thread"}
=============================================================================
