----------------------------- MODULE MCPipeline -----------------------------
(***************************************************************************)
(* Step lists for TLC.  The lists are small cuts of the launch lists of    *)
(* internal/engine/steps/steps.go that keep what the executor branches on. *)
(***************************************************************************)
EXTENDS Pipeline

\* A parallel optional step, a parallel required one with a timeout and a
\* retry, a parallel step that needs the first, and a timed question with a
\* retry that is marked Parallel too.
LaunchKind     == <<"auto", "auto", "auto", "interactive">>
LaunchParallel == <<TRUE, TRUE, TRUE, TRUE>>
LaunchOptional == <<TRUE, FALSE, TRUE, FALSE>>
LaunchTimed    == <<FALSE, TRUE, FALSE, TRUE>>
LaunchAttempts == <<1, 2, 1, 2>>
LaunchDeps     == <<{}, {}, {1}, {}>>

\* A question and a hand-off with one attempt each, for the liveness run.
LiveKind     == <<"interactive", "handoff">>
LiveParallel == <<TRUE, FALSE>>
LiveOptional == <<FALSE, FALSE>>
LiveTimed    == <<TRUE, FALSE>>
LiveAttempts == <<1, 1>>
LiveDeps     == <<{}, {1}>>
=============================================================================
