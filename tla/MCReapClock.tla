---------------------------- MODULE MCReapClock ----------------------------
(* Clients are interchangeable. *)
EXTENDS ReapClock, TLC

Permuted == Permutations(Clients)
=============================================================================
