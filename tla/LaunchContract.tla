--------------------------- MODULE LaunchContract ---------------------------
(***************************************************************************)
(* What Pipeline.Run promises its callers: steps settle one at a time, in  *)
(* an order that respects the dependencies; a step below a failed one is   *)
(* skipped, only an optional step is otherwise skipped, and nothing fails  *)
(* an optional step but a cancelled launch; the verdict is given once,     *)
(* after the last step, and tells success, failure and cancellation apart. *)
(* Batches, attempts, timers, questions and events do not appear.          *)
(***************************************************************************)
EXTENDS Naturals

CONSTANTS N, Optional, Deps   \* as in Pipeline

Steps == 1..N

VARIABLES outcome, verdict, cancelled
vars == <<outcome, verdict, cancelled>>

Init ==
  /\ outcome = [s \in Steps |-> "none"]
  /\ verdict = "none"
  /\ cancelled = FALSE

FailedDep(s) == \E d \in Deps[s] : outcome[d] = "failed"

Outcome(s, o) ==
  IF FailedDep(s) THEN o = "skipped"
  ELSE \/ o = "done"
       \/ o = "skipped" /\ Optional[s]
       \/ o = "failed" /\ (Optional[s] => cancelled)

Settle(s) ==
  /\ verdict = "none" /\ outcome[s] = "none"
  /\ \A d \in Deps[s] : outcome[d] # "none"
  /\ \E o \in {"done", "skipped", "failed"} :
       /\ Outcome(s, o)
       /\ outcome' = [outcome EXCEPT ![s] = o]
  /\ UNCHANGED <<verdict, cancelled>>

Conclude ==
  /\ verdict = "none"
  /\ cancelled \/ \A s \in Steps : outcome[s] # "none"
  /\ verdict' = IF cancelled THEN "ctx"
                ELSE IF \E s \in Steps : outcome[s] = "failed" THEN "err" ELSE "ok"
  /\ UNCHANGED <<outcome, cancelled>>

Cancel ==
  /\ ~cancelled /\ cancelled' = TRUE
  /\ UNCHANGED <<outcome, verdict>>

Next == Conclude \/ Cancel \/ \E s \in Steps : Settle(s)

Spec == Init /\ [][Next]_vars
=============================================================================
