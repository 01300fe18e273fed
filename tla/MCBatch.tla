------------------------------- MODULE MCBatch -------------------------------
(* Two commands: independent, one after the other, and waiting for each other. *)
EXTENDS Batch

CONSTANTS a, b

TwoDeps == {[c \in {a, b} |-> {}],
            [c \in {a, b} |-> IF c = b THEN {a} ELSE {}],
            [c \in {a, b} |-> IF c = b THEN {a} ELSE {b}]}
=============================================================================
