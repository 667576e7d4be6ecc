-------------------------- MODULE MCPthreadQueue ---------------------------
(***************************************************************************)
(* Three threads share a queue of two places.  Threads and values are only *)
(* compared with each other.                                               *)
(***************************************************************************)
EXTENDS PthreadQueue, TLC

Symmetric == Permutations(Threads) \cup Permutations(Value)

=============================================================================
