------------------------------- MODULE Batch --------------------------------
(***************************************************************************)
(* The batch step of LaunchBatched (internal/engine/steps/batch.go): it    *)
(* runs the commands plugins, skills and harness in waves of goroutines,   *)
(* with an errgroup per wave.  A command's Run streams host commands one   *)
(* after the other; their lines go through the stream's channel, the       *)
(* command's own channel and the batch's forward to the attempt loop of    *)
(* the pipeline, which puts them into the event channel of the TUI.        *)
(*                                                                         *)
(* To the pipeline a batch is the body of an Auto step without a timeout,  *)
(* a retry or a question: module Pipeline assumes of it what is shown here.*)
(***************************************************************************)
EXTENDS Host

CONSTANTS Cmds,       \* b.cmds
          DepSets,    \* what Meta.Deps may be, among Cmds
          OutCap,     \* capacity of a command's channel, 64 in the code
          EventCap,   \* capacity of the pipeline's event channel, 64 in the code
          MaxStreams  \* bounds the host commands of one Run

ASSUME BatchAssumption ==
  /\ Users = Cmds
  /\ DepSets \subseteq [Cmds -> SUBSET Cmds]
  /\ OutCap \in Nat \ {0} /\ EventCap \in Nat \ {0} /\ MaxStreams \in Nat

VARIABLES deps, optional,  \* Meta.Deps and Meta.Optional of each command
          ctx,      \* the launch is cancelled
          run,      \* where the batch step is
          gctx,     \* the context of the wave's errgroup is cancelled by an error
          pc,       \* runOne of each command
          outcome,
          body,     \* the goroutine inside the command's Run
          streams,  \* host commands that the Run has started
          res,      \* what the Run returns
          out,      \* events in the command's channel
          relay,    \* the attempt loop has an event in its hand
          events    \* events in the pipeline's channel

meta   == <<deps, optional>>
inner  == <<pc, outcome, gctx>>
bodies == <<body, streams, res>>
vars   == <<meta, ctx, run, inner, bodies, out, relay, events, host>>

Returned == run \in {"satisfied", "unchecked", "ok", "err"}

TypeOK ==
  /\ HostTypeOK
  /\ deps \in DepSets /\ optional \in [Cmds -> BOOLEAN]
  /\ ctx \in BOOLEAN /\ gctx \in BOOLEAN /\ relay \in BOOLEAN
  /\ run \in {"check", "waves", "wave", "group", "satisfied", "unchecked",
             "ok", "err"}
  /\ pc \in [Cmds -> {"idle", "check", "begin", "loop", "report", "over"}]
  /\ outcome \in [Cmds -> {"none", "done", "skipped", "failed"}]
  /\ body \in [Cmds -> {"off", "run", "stream", "ended"}]
  /\ streams \in [Cmds -> 0 .. MaxStreams]
  /\ res \in [Cmds -> {"none", "ok", "err"}]
  /\ out \in [Cmds -> 0 .. OutCap]
  /\ events \in 0 .. EventCap

Init ==
  /\ HostInit
  /\ deps \in DepSets /\ optional \in [Cmds -> BOOLEAN]
  /\ ctx = FALSE /\ gctx = FALSE /\ relay = FALSE /\ events = 0
  /\ run = "check"
  /\ pc = [c \in Cmds |-> "idle"] /\ outcome = [c \in Cmds |-> "none"]
  /\ body = [c \in Cmds |-> "off"] /\ res = [c \in Cmds |-> "none"]
  /\ streams = [c \in Cmds |-> 0] /\ out = [c \in Cmds |-> 0]

-----------------------------------------------------------------------------
(* Run.                                                                    *)

\* The group's context would not come from the launch's.
MutDetached == gctx

\* The context that a command of the wave has is done.
Cut == ctx \/ gctx

Settled(c) == pc[c] = "over"
Ready(c)   == pc[c] = "idle" /\ \A d \in deps[c] : Settled(d)

\* waves finds commands that wait for each other.
Cyclic == \E cs \in SUBSET Cmds : cs # {} /\ \A c \in cs : deps[c] \intersect cs # {}

\* Check asks the commands one after the other; the error of an optional one
\* counts as satisfied.
CheckBatch ==
  /\ run = "check"
  /\ \/ run' = "satisfied"
     \/ run' = "waves"
     \/ (\E c \in Cmds : ~optional[c]) /\ run' = "unchecked"
  /\ UNCHANGED <<meta, ctx, inner, bodies, out, relay, events, host>>

Waves ==
  /\ run = "waves"
  /\ run' = IF Cyclic THEN "err" ELSE "wave"
  /\ UNCHANGED <<meta, ctx, inner, bodies, out, relay, events, host>>

\* A wave, in a group of its own.
StartWave ==
  /\ run = "wave" /\ \E c \in Cmds : Ready(c)
  /\ run' = "group" /\ gctx' = FALSE
  /\ pc' = [c \in Cmds |-> IF Ready(c) THEN "check" ELSE pc[c]]
  /\ UNCHANGED <<meta, ctx, outcome, bodies, out, relay, events, host>>

Failed == \E c \in Cmds : outcome[c] = "failed"

\* Wait would return with the first error.
MutWaitsForOne ==
  /\ run = "group"
  /\ Failed \/ \A c \in Cmds : pc[c] \in {"idle", "over"}
  /\ run' = IF Failed \/ ctx THEN "err" ELSE "wave"
  /\ UNCHANGED <<meta, ctx, inner, bodies, out, relay, events, host>>

\* grp.Wait
EndWave ==
  /\ run = "group" /\ \A c \in Cmds : pc[c] \in {"idle", "over"}
  /\ run' = IF Failed \/ ctx THEN "err" ELSE "wave"
  /\ UNCHANGED <<meta, ctx, inner, bodies, out, relay, events, host>>

Return ==
  /\ run = "wave" /\ \A c \in Cmds : Settled(c)
  /\ run' = "ok"
  /\ UNCHANGED <<meta, ctx, inner, bodies, out, relay, events, host>>

-----------------------------------------------------------------------------
(* runOne.                                                                 *)

\* What becomes of a command that fails.
Failure(c) == IF optional[c] THEN "skipped" ELSE "failed"

\* forward, under outMu, to the attempt loop, which must be ready for it.
Forward == ~relay /\ relay' = TRUE

Decide(c, o) ==
  /\ outcome' = [outcome EXCEPT ![c] = o]
  /\ pc' = [pc EXCEPT ![c] = "report"]

\* The error of a required command's Check is reported by no event.
Check(c) ==
  /\ pc[c] = "check"
  /\ \/ Decide(c, "done") /\ UNCHANGED gctx
     \/ optional[c] /\ Decide(c, "skipped") /\ UNCHANGED gctx
     \/ /\ ~optional[c] /\ gctx' = TRUE
        /\ outcome' = [outcome EXCEPT ![c] = "failed"]
        /\ pc' = [pc EXCEPT ![c] = "over"]
     \/ pc' = [pc EXCEPT ![c] = "begin"] /\ UNCHANGED <<outcome, gctx>>
  /\ UNCHANGED <<meta, ctx, run, bodies, out, relay, events, host>>

Begin(c) ==
  /\ pc[c] = "begin" /\ Forward
  /\ pc' = [pc EXCEPT ![c] = "loop"]
  /\ body' = [body EXCEPT ![c] = "run"]
  /\ UNCHANGED <<meta, ctx, run, outcome, gctx, streams, res, out, events, host>>

ForwardOne(c) ==
  /\ pc[c] = "loop" /\ out[c] > 0 /\ Forward
  /\ out' = [out EXCEPT ![c] = @ - 1]
  /\ UNCHANGED <<meta, ctx, run, inner, bodies, events, host>>

\* The command's channel is closed and empty: <-errCh.
Join(c) ==
  /\ pc[c] = "loop" /\ out[c] = 0 /\ body[c] = "ended"
  /\ Decide(c, IF res[c] = "ok" THEN "done" ELSE Failure(c))
  /\ UNCHANGED <<meta, ctx, run, gctx, bodies, out, relay, events, host>>

\* The last event; the error of a required command ends the group's context.
Report(c) ==
  /\ pc[c] = "report" /\ Forward
  /\ pc' = [pc EXCEPT ![c] = "over"]
  /\ gctx' = (gctx \/ outcome[c] = "failed")
  /\ UNCHANGED <<meta, ctx, run, outcome, bodies, out, events, host>>

-----------------------------------------------------------------------------
(* The Run of a command: applyStep writes a file and starts provision, and *)
(* ends with the first error; harnessStep goes on, with a fallback or the  *)
(* next of its actions, and probes in the end.                             *)

End(c, r) == body' = [body EXCEPT ![c] = "ended"] /\ res' = [res EXCEPT ![c] = r]

Execute(c) ==
  /\ body[c] = "run" /\ streams[c] < MaxStreams
  /\ Stream(c)
  /\ body' = [body EXCEPT ![c] = "stream"] /\ streams' = [streams EXCEPT ![c] = @ + 1]
  /\ UNCHANGED <<meta, ctx, run, inner, res, out, relay, events>>

\* claude is not there.
Refuse(c) ==
  /\ body[c] = "run" /\ End(c, "err")
  /\ UNCHANGED <<meta, ctx, run, inner, streams, out, relay, events, host>>

\* stream passes an event on; what scriptOK only reads is passed on as well.
Pump(c) ==
  /\ body[c] = "stream" /\ host[c].ch > 0 /\ out[c] < OutCap
  /\ host' = [host EXCEPT ![c].ch = @ - 1]
  /\ out' = [out EXCEPT ![c] = @ + 1]
  /\ UNCHANGED <<meta, ctx, run, inner, bodies, relay, events>>

EndStream(c) ==
  /\ body[c] = "stream" /\ Over(c)
  /\ \/ body' = [body EXCEPT ![c] = "run"] /\ UNCHANGED res
     \/ End(c, IF host[c].bad THEN "err" ELSE "ok")
  /\ UNCHANGED <<meta, ctx, run, inner, streams, out, relay, events, host>>

-----------------------------------------------------------------------------
(* The pipeline around the batch, and its TUI.                             *)

\* The attempt loop emits what it has received; after a cancellation it drops
\* what finds no room.
Emit ==
  /\ relay /\ relay' = FALSE
  /\ \/ events < EventCap /\ events' = events + 1
     \/ events >= EventCap /\ ctx /\ UNCHANGED events
  /\ UNCHANGED <<meta, ctx, run, inner, bodies, out, host>>

Receive ==
  /\ events > 0 /\ events' = events - 1
  /\ UNCHANGED <<meta, ctx, run, inner, bodies, out, relay, host>>

Cancel ==
  /\ ~ctx /\ ~Returned /\ ctx' = TRUE
  /\ UNCHANGED <<meta, run, inner, bodies, out, relay, events, host>>

Terminated == Returned /\ ~relay /\ events = 0 /\ UNCHANGED vars

-----------------------------------------------------------------------------
Main == Waves \/ StartWave \/ EndWave \/ Return

OwnStep(c) == Begin(c) \/ ForwardOne(c) \/ Join(c) \/ Report(c)
BodyStep(c) == Execute(c) \/ Refuse(c) \/ Pump(c) \/ EndStream(c)

OnHost(A) == A /\ UNCHANGED <<meta, ctx, run, inner, bodies, out, relay, events>>
Hosted(c) == OnHost(HostStep(c, Cut) \/ ProcStep(c) \/ Kill(c, Cut))

Next ==
  \/ CheckBatch \/ Main
  \/ \E c \in Cmds : Check(c) \/ OwnStep(c) \/ BodyStep(c) \/ Hosted(c)
  \/ Emit \/ Receive \/ Cancel \/ Terminated

Spec == Init /\ [][Next]_vars

\* The goroutines are scheduled; a Check whose context is done ends, and a
\* process that is killed is gone.  Nobody owes that a process ends by itself,
\* nor that the TUI takes its events.
Fairness ==
  /\ WF_vars(Main) /\ WF_vars(Emit) /\ WF_vars(ctx /\ CheckBatch)
  /\ \A c \in Cmds :
       /\ WF_vars(Cut /\ Check(c))
       /\ WF_vars(OwnStep(c)) /\ WF_vars(BodyStep(c))
       /\ WF_vars(OnHost(HostStep(c, Cut))) /\ WF_vars(OnHost(Kill(c, Cut)))

FairSpec == Spec /\ Fairness

-----------------------------------------------------------------------------
(* Properties.                                                             *)

\* The verdict: a batch that ends well has done every command or left out an
\* optional one; outside a cancelled launch it fails only for a required
\* command, or for commands that wait for each other.
VerdictFits ==
  /\ run = "ok" => \A c \in Cmds : outcome[c] = "done" \/ (outcome[c] = "skipped" /\ optional[c])
  /\ run = "err" /\ ~ctx => Cyclic \/ \E c \in Cmds : outcome[c] = "failed"
  /\ \A c \in Cmds : outcome[c] = "failed" => ~optional[c]

\* A command is touched only when all it depends on is through and nothing of
\* an earlier wave has failed.
WavesInOrder ==
  \A c \in Cmds : pc[c] # "idle" =>
    \A d \in deps[c] : pc[d] = "over" /\ outcome[d] \in {"done", "skipped"}

\* When the batch returns, nothing of it is left: no goroutine that would send
\* to a channel nobody reads, and no process but strays.
NothingLeft ==
  Returned => \A c \in Cmds :
    /\ pc[c] \in {"idle", "over"} /\ body[c] \in {"off", "ended"} /\ out[c] = 0
    /\ host[c].pc \in {"off", "closed"} /\ host[c].proc # "up"

\* A batch that returns has told the truth, has kept the order of its waves
\* and has cleaned up, whoever failed, hung or was cancelled meanwhile.
BatchIsHonest == VerdictFits /\ WavesInOrder /\ NothingLeft

Stray == \E c \in Cmds : host[c].stray

\* A cancelled launch ends its batch, whatever hangs and though nobody drains
\* the events, unless a stray keeps a pipe.
CancelEndsBatch == ctx ~> Returned \/ Stray
=============================================================================
