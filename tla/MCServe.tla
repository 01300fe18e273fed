------------------------------ MODULE MCServe ------------------------------
(* Runs of the TUI are interchangeable. *)
EXTENDS Serve, TLC

Permuted == Permutations(TUIs)
=============================================================================
