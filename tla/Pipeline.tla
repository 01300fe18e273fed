------------------------------ MODULE Pipeline ------------------------------
(***************************************************************************)
(* The step executor of internal/engine/pipeline: Run walks the step list  *)
(* with a cursor, runs runs of parallel Auto steps as one batch, and gives *)
(* every attempt of a step a select loop over the step's output, the       *)
(* answer to a question the step asked, its timer, the context and the     *)
(* step's exit.  The steps themselves are the environment: they print      *)
(* lines, ask at most one question per attempt and return.  The consumer   *)
(* is the TUI, which drains the event channel and calls Resume.            *)
(***************************************************************************)
EXTENDS Naturals, Sequences

\* The Mut... operators are slips a bug in this code could be; no action uses
\* them.  Each stands before the definition it would replace.

CONSTANTS
  N,          \* number of steps; step s is p.steps[s-1]
  Kind,       \* Kind[s]: "auto", "interactive", "terminal" or "handoff"
  Parallel,   \* Meta.Parallel
  Optional,   \* Meta.Optional
  Timed,      \* Meta.Timeout > 0
  Attempts,   \* max(Meta.Retry.Attempts, 1)
  Deps,       \* Meta.Deps, as the set of the steps named
  Cap         \* capacity of the event channel (64 in the code)

Steps == 1..N

\* New accepts a step list only if every dependency names an earlier step.
DepsAreEarlier == \A s \in Steps : \A d \in Deps[s] : d < s

ASSUME MetaAssumption ==
  /\ N \in Nat \ {0}
  /\ Cap \in Nat \ {0}
  /\ Kind \in [Steps -> {"auto", "interactive", "terminal", "handoff"}]
  /\ Parallel \in [Steps -> BOOLEAN]
  /\ Optional \in [Steps -> BOOLEAN]
  /\ Timed \in [Steps -> BOOLEAN]
  /\ Attempts \in [Steps -> Nat \ {0}]
  /\ Deps \in [Steps -> SUBSET Steps]
  /\ DepsAreEarlier

VARIABLES
  cur, hi,    \* Run's cursor; the steps cur..hi-1 are running
  ret,        \* what Run returns: "none" until it is decided
  closed,     \* the event channel is closed
  ctx,        \* the launch context is cancelled
  pc,         \* where runStep is, per step
  st,         \* states[m.Name], set when the outcome is decided
  attempt,    \* attempts begun
  body,       \* the goroutine inside Command.Run
  question,   \* the question asked by this attempt
  timer,      \* the attempt's timeout timer
  expired,    \* timedOut
  cancelSeen, \* cancelled
  hold,       \* the Result being delivered to the step
  resume,     \* contents of the attempt's resume channel (capacity 1)
  slot,       \* p.waiting with p.resume; 0 when none
  inflight,   \* a Resume call between taking the slot and sending
  events,     \* the event channel
  prompt,     \* the consumer's a.waiting; 0 when none
  view        \* what the consumer's step list shows, per step

loopVars    == <<cur, hi, ret, closed>>
attemptVars == <<attempt, body, question, timer, expired, cancelSeen, hold, resume>>
clientVars  == <<prompt, view>>
vars == <<loopVars, ctx, pc, st, attemptVars, slot, inflight, events, clientVars>>

Outcomes  == {"done", "skipped", "failed"}
Results   == {"value", "cancel"}
AttemptPC == {"select", "fwdLine", "fwdWait", "fwdCancel", "deliver", "dfwd"}
PCs       == AttemptPC \cup {"idle", "spawned", "check", "start", "attempt",
                             "backoff", "recheck", "finish", "settled"}
NoFlight  == [step |-> 0, attempt |-> 0, r |-> "none"]
Flights   == [step : Steps, attempt : Nat, r : Results] \cup {NoFlight}

EventKinds == Outcomes \cup {"started", "line", "waiting", "end", "endFailed"}
Events     == [kind : EventKinds, step : 0..N]

TypeOK ==
  /\ cur \in 1..(N + 1) /\ hi \in 1..(N + 1)
  /\ ret \in {"none", "ok", "err", "ctx"}
  /\ closed \in BOOLEAN /\ ctx \in BOOLEAN
  /\ pc \in [Steps -> PCs]
  /\ st \in [Steps -> Outcomes \cup {"none"}]
  /\ attempt \in [Steps -> Nat]
  /\ body \in [Steps -> {"none", "run", "line", "ask", "await", "ok", "err"}]
  /\ question \in [Steps -> {"none", "open", "answered", "refused"}]
  /\ timer \in [Steps -> {"none", "armed", "paused", "spent"}]
  /\ expired \in [Steps -> BOOLEAN]
  /\ cancelSeen \in [Steps -> BOOLEAN]
  /\ hold \in [Steps -> Results \cup {"none"}]
  /\ resume \in [Steps -> Results \cup {"none"}]
  /\ slot \in 0..N
  /\ inflight \in Flights
  /\ events \in Seq(Events)
  /\ prompt \in 0..N
  /\ view \in [Steps -> {"pending", "active", "final"}]

Init ==
  /\ cur = 1 /\ hi = 1 /\ ret = "none" /\ closed = FALSE /\ ctx = FALSE
  /\ pc = [s \in Steps |-> "idle"]
  /\ st = [s \in Steps |-> "none"]
  /\ attempt = [s \in Steps |-> 0]
  /\ body = [s \in Steps |-> "none"]
  /\ question = [s \in Steps |-> "none"]
  /\ timer = [s \in Steps |-> "none"]
  /\ expired = [s \in Steps |-> FALSE]
  /\ cancelSeen = [s \in Steps |-> FALSE]
  /\ hold = [s \in Steps |-> "none"]
  /\ resume = [s \in Steps |-> "none"]
  /\ slot = 0 /\ inflight = NoFlight /\ events = <<>>
  /\ prompt = 0 /\ view = [s \in Steps |-> "pending"]

-----------------------------------------------------------------------------
(* Helpers *)

MutEmitDropsWhenFull(k, s) ==
  IF Len(events) < Cap THEN events' = Append(events, [kind |-> k, step |-> s])
  ELSE UNCHANGED events

MutEmitIgnoresCancel(k, s) ==
  Len(events) < Cap /\ events' = Append(events, [kind |-> k, step |-> s])

\* emit blocks while the channel is full, and drops the event once the
\* context is cancelled.
Emit(k, s) ==
  \/ /\ Len(events) < Cap
     /\ events' = Append(events, [kind |-> k, step |-> s])
  \/ /\ Len(events) >= Cap /\ ctx
     /\ UNCHANGED events

Blocked(s) == \E d \in Deps[s] : st[d] = "failed"
MutOnlyLastFailure == st[N] = "failed"

AnyFailed  == \E s \in Steps : st[s] = "failed"
MutBatchableAnyKind(s) == Parallel[s]

Batchable(s) == Kind[s] = "auto" /\ Parallel[s]

MutJoinsIgnoringDeps(s, c) == Batchable(s) /\ ~Blocked(s)

Joins(s, c) == Batchable(s) /\ ~Blocked(s) /\ Deps[s] \cap (c..(s - 1)) = {}

\* collectAutoBatch(c) returns the steps c..e-1.
BatchEnd(c, e) ==
  /\ \A s \in c..(e - 1) : Joins(s, c)
  /\ e <= N => ~Joins(e, c)

MutAlwaysSkips(s) == "skipped"

FailState(s) == IF Optional[s] THEN "skipped" ELSE "failed"

Goto(s, l) == pc' = [pc EXCEPT ![s] = l]

\* The outcome of step s is known; its last event is still to be emitted.
Decide(s, o) == st' = [st EXCEPT ![s] = o] /\ Goto(s, "finish")

\* runCtx is done: the launch was cancelled or the attempt's timer fired.
RunCtxDone(s) == ctx \/ expired[s]

-----------------------------------------------------------------------------
(* Run: the loop over the step list *)

AtLoopTop == cur = hi /\ ret = "none"

StopOnCancel ==
  /\ AtLoopTop /\ cur <= N /\ ctx
  /\ ret' = "ctx"
  /\ UNCHANGED <<cur, hi, closed, ctx, pc, st, attemptVars, slot, inflight, events, clientVars>>

SkipBlocked ==
  /\ AtLoopTop /\ cur <= N /\ ~ctx /\ Blocked(cur)
  /\ hi' = cur + 1
  /\ Decide(cur, "skipped")
  /\ UNCHANGED <<cur, ret, closed, ctx, attemptVars, slot, inflight, events, clientVars>>

RunOne ==
  /\ AtLoopTop /\ cur <= N /\ ~ctx /\ ~Blocked(cur) /\ ~Batchable(cur)
  /\ hi' = cur + 1
  /\ Goto(cur, IF Kind[cur] = "handoff" THEN "start" ELSE "check")
  /\ UNCHANGED <<cur, ret, closed, ctx, st, attemptVars, slot, inflight, events, clientVars>>

RunBatch ==
  /\ AtLoopTop /\ cur <= N /\ ~ctx /\ ~Blocked(cur) /\ Batchable(cur)
  /\ \E e \in (cur + 1)..(N + 1) :
       /\ BatchEnd(cur, e)
       /\ hi' = e
       /\ pc' = [s \in Steps |-> IF s \in cur..(e - 1) THEN "spawned" ELSE pc[s]]
  /\ UNCHANGED <<cur, ret, closed, ctx, st, attemptVars, slot, inflight, events, clientVars>>

\* Run stores the states of a batch and moves on by its length.
Collect ==
  /\ cur < hi /\ \A s \in cur..(hi - 1) : pc[s] = "settled"
  /\ cur' = hi
  /\ UNCHANGED <<hi, ret, closed, ctx, pc, st, attemptVars, slot, inflight, events, clientVars>>

Verdict == IF ctx THEN "ctx" ELSE IF AnyFailed THEN "err" ELSE "ok"

Conclude ==
  /\ AtLoopTop /\ cur = N + 1
  /\ ret' = Verdict
  /\ UNCHANGED <<cur, hi, closed, ctx, pc, st, attemptVars, slot, inflight, events, clientVars>>

\* EvPipelineDone, then close(p.events).
Close ==
  /\ ret # "none" /\ ~closed
  /\ Emit(IF ret = "ok" THEN "end" ELSE "endFailed", 0)
  /\ closed' = TRUE
  /\ UNCHANGED <<cur, hi, ret, ctx, pc, st, attemptVars, slot, inflight, clientVars>>

-----------------------------------------------------------------------------
(* runStep and runAttempts *)

\* The goroutine of a batch member: a member that finds the context done is
\* failed without an event, whether or not it is optional.
Spawn(s) ==
  /\ pc[s] = "spawned"
  /\ \/ /\ ctx
        /\ st' = [st EXCEPT ![s] = "failed"]
        /\ Goto(s, "settled")
     \/ /\ ~ctx
        /\ Goto(s, "check")
        /\ UNCHANGED st
  /\ UNCHANGED <<loopVars, ctx, attemptVars, slot, inflight, events, clientVars>>

MutCheckSatisfiedSilently(s) ==
  /\ pc[s] = "check"
  /\ \/ st' = [st EXCEPT ![s] = "done"] /\ Goto(s, "settled")
     \/ Decide(s, FailState(s))
     \/ Goto(s, "start") /\ UNCHANGED st
  /\ UNCHANGED <<loopVars, ctx, attemptVars, slot, inflight, events, clientVars>>

\* Check may find the step satisfied, find it unsatisfied, or return an error.
Check(s) ==
  /\ pc[s] = "check"
  /\ \/ Decide(s, "done")
     \/ Decide(s, FailState(s))
     \/ Goto(s, "start") /\ UNCHANGED st
  /\ UNCHANGED <<loopVars, ctx, attemptVars, slot, inflight, events, clientVars>>

Start(s) ==
  /\ pc[s] = "start"
  /\ Emit("started", s)
  /\ Goto(s, "attempt")
  /\ UNCHANGED <<loopVars, ctx, st, attemptVars, slot, inflight, clientVars>>

BeginAttempt(s) ==
  /\ pc[s] = "attempt"
  /\ attempt' = [attempt EXCEPT ![s] = @ + 1]
  /\ body' = [body EXCEPT ![s] = "run"]
  /\ question' = [question EXCEPT ![s] = "none"]
  /\ timer' = [timer EXCEPT ![s] = IF Timed[s] THEN "armed" ELSE "none"]
  /\ expired' = [expired EXCEPT ![s] = FALSE]
  /\ cancelSeen' = [cancelSeen EXCEPT ![s] = FALSE]
  /\ hold' = [hold EXCEPT ![s] = "none"]
  /\ resume' = [resume EXCEPT ![s] = "none"]
  /\ Goto(s, "select")
  /\ UNCHANGED <<loopVars, ctx, st, slot, inflight, events, clientVars>>

\* sleep between attempts
Backoff(s) ==
  /\ pc[s] = "backoff"
  /\ \/ ctx /\ Decide(s, FailState(s))
     \/ Goto(s, "recheck") /\ UNCHANGED st
  /\ UNCHANGED <<loopVars, ctx, attemptVars, slot, inflight, events, clientVars>>

Recheck(s) ==
  /\ pc[s] = "recheck"
  /\ \/ Decide(s, "done")
     \/ Goto(s, "attempt") /\ UNCHANGED st
  /\ UNCHANGED <<loopVars, ctx, attemptVars, slot, inflight, events, clientVars>>

Finish(s) ==
  /\ pc[s] = "finish"
  /\ Emit(st[s], s)
  /\ Goto(s, "settled")
  /\ UNCHANGED <<loopVars, ctx, st, attemptVars, slot, inflight, clientVars>>

-----------------------------------------------------------------------------
(* attempt: the select loop of one execution of Command.Run *)

\* case ev := <-out, the event being a line.
SelOut(s) ==
  /\ pc[s] = "select" /\ body[s] = "line"
  /\ body' = [body EXCEPT ![s] = IF question[s] = "open" THEN "await" ELSE "run"]
  /\ Goto(s, "fwdLine")
  /\ UNCHANGED <<loopVars, ctx, st, attempt, question, timer, expired, cancelSeen, hold,
                 resume, slot, inflight, events, clientVars>>

MutSelWaitClockRuns(s) ==
  /\ pc[s] = "select" /\ body[s] = "ask"
  /\ body' = [body EXCEPT ![s] = "await"]
  /\ question' = [question EXCEPT ![s] = "open"]
  /\ slot' = IF cancelSeen[s] THEN slot ELSE s
  /\ Goto(s, IF cancelSeen[s] THEN "fwdCancel" ELSE "fwdWait")
  /\ UNCHANGED <<loopVars, ctx, st, attempt, timer, expired, cancelSeen, hold, resume,
                 inflight, events, clientVars>>

\* case ev := <-out, the event being EvWaiting: stop the clock, then offer the
\* question, or answer it at once when the launch is already cancelled.
SelWait(s) ==
  /\ pc[s] = "select" /\ body[s] = "ask"
  /\ body' = [body EXCEPT ![s] = "await"]
  /\ question' = [question EXCEPT ![s] = "open"]
  /\ timer' = [timer EXCEPT ![s] = IF @ = "armed" THEN "paused" ELSE @]
  /\ slot' = IF cancelSeen[s] THEN slot ELSE s
  /\ Goto(s, IF cancelSeen[s] THEN "fwdCancel" ELSE "fwdWait")
  /\ UNCHANGED <<loopVars, ctx, st, attempt, expired, cancelSeen, hold, resume, inflight,
                 events, clientVars>>

Forward(s) ==
  /\ \/ /\ pc[s] \in {"fwdLine", "dfwd"}
        /\ Emit("line", s)
        /\ Goto(s, IF pc[s] = "dfwd" THEN "deliver" ELSE "select")
        /\ UNCHANGED hold
     \/ /\ pc[s] = "fwdWait"
        /\ Emit("waiting", s)
        /\ Goto(s, "select")
        /\ UNCHANGED hold
     \/ /\ pc[s] = "fwdCancel"
        /\ Emit("waiting", s)
        /\ Goto(s, "deliver")
        /\ hold' = [hold EXCEPT ![s] = "cancel"]
  /\ UNCHANGED <<loopVars, ctx, st, attempt, body, question, timer, expired, cancelSeen,
                 resume, slot, inflight, clientVars>>

MutSelResumeForgets(s) ==
  /\ pc[s] = "select" /\ resume[s] # "none"
  /\ resume' = [resume EXCEPT ![s] = "none"]
  /\ UNCHANGED <<loopVars, ctx, pc, st, attempt, body, question, timer, expired, cancelSeen,
                 hold, slot, inflight, events, clientVars>>

\* case r := <-resume.  The clock runs again, unless the question arrived with
\* nothing of it left.  A timer that fired before the question never reduced
\* remaining, so it is armed afresh.
SelResume(s) ==
  /\ pc[s] = "select" /\ resume[s] # "none"
  /\ hold' = [hold EXCEPT ![s] = resume[s]]
  /\ resume' = [resume EXCEPT ![s] = "none"]
  /\ IF Timed[s] /\ ~cancelSeen[s]
     THEN \/ /\ timer' = [timer EXCEPT ![s] = "armed"]
             /\ UNCHANGED expired
          \/ /\ timer[s] = "paused"
             /\ timer' = [timer EXCEPT ![s] = "spent"]
             /\ expired' = [expired EXCEPT ![s] = TRUE]
     ELSE UNCHANGED <<timer, expired>>
  /\ Goto(s, "deliver")
  /\ UNCHANGED <<loopVars, ctx, st, attempt, body, question, cancelSeen, slot, inflight,
                 events, clientVars>>

\* case <-timerC
SelTimer(s) ==
  /\ pc[s] = "select" /\ timer[s] = "armed"
  /\ timer' = [timer EXCEPT ![s] = "spent"]
  /\ expired' = [expired EXCEPT ![s] = TRUE]
  /\ UNCHANGED <<loopVars, ctx, pc, st, attempt, body, question, cancelSeen, hold, resume,
                 slot, inflight, events, clientVars>>

MutSelDonePeeks(s) ==
  /\ pc[s] = "select" /\ ctx /\ ~cancelSeen[s]
  /\ cancelSeen' = [cancelSeen EXCEPT ![s] = TRUE]
  /\ IF slot = s
     THEN hold' = [hold EXCEPT ![s] = "cancel"] /\ Goto(s, "deliver")
     ELSE UNCHANGED <<hold, pc>>
  /\ UNCHANGED <<loopVars, ctx, st, attempt, body, question, timer, expired, resume, slot,
                 inflight, events, clientVars>>

\* case <-done: a question nobody has taken is answered with a cancel.
SelDone(s) ==
  /\ pc[s] = "select" /\ ctx /\ ~cancelSeen[s]
  /\ cancelSeen' = [cancelSeen EXCEPT ![s] = TRUE]
  /\ IF slot = s
     THEN /\ slot' = 0
          /\ hold' = [hold EXCEPT ![s] = "cancel"]
          /\ Goto(s, "deliver")
     ELSE UNCHANGED <<slot, hold, pc>>
  /\ UNCHANGED <<loopVars, ctx, st, attempt, body, question, timer, expired, resume, inflight,
                 events, clientVars>>

\* deliver: hand the result over, draining what the step prints meanwhile.
DeliverIn(s) ==
  /\ pc[s] = "deliver" /\ body[s] = "await"
  /\ body' = [body EXCEPT ![s] = "run"]
  /\ question' = [question EXCEPT ![s] = IF hold[s] = "cancel" THEN "refused" ELSE "answered"]
  /\ hold' = [hold EXCEPT ![s] = "none"]
  /\ Goto(s, "select")
  /\ UNCHANGED <<loopVars, ctx, st, attempt, timer, expired, cancelSeen, resume, slot, inflight,
                 events, clientVars>>

DeliverOut(s) ==
  /\ pc[s] = "deliver" /\ body[s] = "line"
  /\ body' = [body EXCEPT ![s] = IF question[s] = "open" THEN "await" ELSE "run"]
  /\ Goto(s, "dfwd")
  /\ UNCHANGED <<loopVars, ctx, st, attempt, question, timer, expired, cancelSeen, hold, resume,
                 slot, inflight, events, clientVars>>

\* case err := <-runErr, here or inside deliver; settle; runAttempts decides.
Exit(s) ==
  /\ pc[s] \in {"select", "deliver"} /\ body[s] \in {"ok", "err"}
  /\ slot' = IF slot = s THEN 0 ELSE slot
  /\ body' = [body EXCEPT ![s] = "none"]
  /\ hold' = [hold EXCEPT ![s] = "none"]
  /\ resume' = [resume EXCEPT ![s] = "none"]
  /\ timer' = [timer EXCEPT ![s] = "none"]
  /\ \/ body[s] = "ok" /\ Decide(s, "done")
     \/ body[s] = "err" /\ (ctx \/ attempt[s] = Attempts[s]) /\ Decide(s, FailState(s))
     \/ /\ body[s] = "err" /\ ~ctx /\ attempt[s] < Attempts[s]
        /\ Goto(s, "backoff")
        /\ UNCHANGED st
  /\ UNCHANGED <<loopVars, ctx, attempt, question, expired, cancelSeen, inflight, events,
                 clientVars>>

-----------------------------------------------------------------------------
(* The step: what the goroutine inside Command.Run may do.  Auto steps never *)
(* ask; the others ask at most once per attempt.  An Interactive step may    *)
(* print, and return, while its question stands (the device login of gh-auth *)
(* ends by itself when the user finishes in the browser).                    *)

StepVars(s) == /\ UNCHANGED <<loopVars, ctx, pc, st, attempt, question, timer, expired,
                             cancelSeen, hold, resume, slot, inflight, events, clientVars>>

BodyLine(s) ==
  /\ body[s] = "run" \/ (body[s] = "await" /\ Kind[s] = "interactive")
  /\ body' = [body EXCEPT ![s] = "line"]
  /\ StepVars(s)

BodyAsk(s) ==
  /\ body[s] = "run" /\ question[s] = "none" /\ Kind[s] # "auto"
  /\ body' = [body EXCEPT ![s] = "ask"]
  /\ StepVars(s)

\* A refused question ends in ErrCancelled; a wait whose context ends returns
\* its error (awaitResume).
BodyExit(s) ==
  /\ \/ body[s] = "run" /\ question[s] # "refused" /\ body' = [body EXCEPT ![s] = "ok"]
     \/ /\ body[s] = "run" \/ (body[s] = "await" /\ RunCtxDone(s))
        /\ body' = [body EXCEPT ![s] = "err"]
  /\ StepVars(s)

BodyExitUnasked(s) ==
  /\ body[s] = "await" /\ Kind[s] = "interactive"
  /\ \E r \in {"ok", "err"} : body' = [body EXCEPT ![s] = r]
  /\ StepVars(s)

-----------------------------------------------------------------------------
(* The consumer: App.handlePipelineEvent, the step list, App's calls of      *)
(* Resume, and the two ways the TUI ends the launch context.                 *)

Row(k, v) == IF k \in Outcomes THEN "final" ELSE IF k = "line" THEN v ELSE "active"

Receive ==
  /\ inflight = NoFlight /\ events # <<>>
  /\ LET e == Head(events) IN
       /\ prompt' = IF e.kind = "waiting" THEN e.step ELSE prompt
       /\ view' = IF e.step = 0 THEN view ELSE [view EXCEPT ![e.step] = Row(e.kind, @)]
  /\ events' = Tail(events)
  /\ UNCHANGED <<loopVars, ctx, pc, st, attemptVars, slot, inflight>>

\* A screen's result or its dismissal forgets the prompt; a finished terminal
\* command does not.
PromptAfter(r) == IF Kind[prompt] \in {"terminal", "handoff"} /\ r = "value" THEN prompt ELSE 0

\* Resume, up to its unlock: the question is taken from the slot.
ResumeTake(r) ==
  /\ inflight = NoFlight /\ prompt # 0 /\ slot = prompt
  /\ inflight' = [step |-> slot, attempt |-> attempt[slot], r |-> r]
  /\ slot' = 0
  /\ prompt' = PromptAfter(r)
  /\ UNCHANGED <<loopVars, ctx, pc, st, attemptVars, events, view>>

\* Resume finds that the step is not waiting.
ResumeRefused(r) ==
  /\ inflight = NoFlight /\ prompt # 0 /\ slot # prompt
  /\ prompt' = PromptAfter(r)
  /\ UNCHANGED <<loopVars, ctx, pc, st, attemptVars, slot, inflight, events, view>>

\* ch <- r: the attempt that asked may have ended meanwhile, and then nobody
\* reads its channel.
ResumeSend ==
  /\ inflight # NoFlight
  /\ LET s == inflight.step IN
       resume' = IF pc[s] \in AttemptPC /\ attempt[s] = inflight.attempt
                 THEN [resume EXCEPT ![s] = inflight.r] ELSE resume
  /\ inflight' = NoFlight
  /\ UNCHANGED <<loopVars, ctx, pc, st, attempt, body, question, timer, expired, cancelSeen,
                 hold, slot, events, clientVars>>

\* The program quits and ends the launch context.  Without fairness for Receive
\* the consumer may stop draining then, or at any other time.
Cancel ==
  /\ ~ctx /\ ~closed /\ ctx' = TRUE
  /\ UNCHANGED <<loopVars, pc, st, attemptVars, slot, inflight, events, clientVars>>

Terminated ==
  /\ closed /\ inflight = NoFlight /\ events = <<>>
  /\ UNCHANGED vars

-----------------------------------------------------------------------------
Loop == StopOnCancel \/ SkipBlocked \/ RunOne \/ RunBatch \/ Collect \/ Conclude \/ Close

StepAction(s) == Spawn(s) \/ Check(s) \/ Start(s) \/ BeginAttempt(s) \/ Backoff(s)
              \/ Recheck(s) \/ Finish(s)

SelectAction(s) == SelOut(s) \/ SelWait(s) \/ Forward(s) \/ SelResume(s) \/ SelTimer(s)
                \/ SelDone(s) \/ DeliverIn(s) \/ DeliverOut(s) \/ Exit(s)

Body(s) == BodyLine(s) \/ BodyAsk(s) \/ BodyExit(s) \/ BodyExitUnasked(s)

Consumer == Receive \/ (\E r \in Results : ResumeTake(r) \/ ResumeRefused(r)) \/ ResumeSend

Next ==
  \/ Loop
  \/ \E s \in Steps : StepAction(s) \/ SelectAction(s) \/ Body(s)
  \/ Consumer \/ Cancel \/ Terminated

Spec == Init /\ [][Next]_vars

Exec(s) == StepAction(s) \/ SelectAction(s)

\* The goroutines of the executor are scheduled; a select that keeps finding a
\* case ready takes it in the end (Go chooses at random), and a command ends
\* unless it waits for an answer.  The consumer owes nothing but the end of a
\* call of Resume it has begun.
Fairness ==
  /\ WF_vars(Loop) /\ WF_vars(ResumeSend)
  /\ \A s \in Steps : /\ WF_vars(Exec(s))
                     /\ SF_vars(SelDone(s)) /\ SF_vars(SelResume(s))
                     /\ SF_vars(BodyExit(s))

FairSpec == Spec /\ Fairness

\* A consumer that drains events and a user who answers what is asked; and no
\* command prints for ever.
Attention ==
  /\ WF_vars(Receive) /\ WF_vars(\E r \in Results : ResumeTake(r))
  /\ \A s \in Steps : <>[][~BodyLine(s)]_vars

-----------------------------------------------------------------------------
(* Properties *)

Live(s) == pc[s] \notin {"idle", "settled"}

\* A step is started only when every step it depends on has settled, and a
\* step with a failed dependency is skipped without one of its attempts
\* having run (failedDep in Run, the cross-dependency test of the batch).
DepsSettledFirst ==
  \A s \in Steps : \A d \in Deps[s] :
    /\ pc[s] # "idle" => pc[d] = "settled"
    /\ st[d] = "failed" => attempt[s] = 0 /\ st[s] \in {"none", "skipped"}

\* Two steps run side by side only if both are parallel Auto steps and neither
\* depends on the other: a question or a terminal command has the screen to
\* itself.
Exclusive ==
  \A s, t \in Steps : s # t /\ Live(s) /\ Live(t) =>
    /\ Kind[s] = "auto" /\ Parallel[s]
    /\ s \notin Deps[t]

\* The answer of the present attempt is in at most one place on its way from
\* p.waiting through Resume and the resume channel to deliver, and it is there
\* only while the step's question is open: cancelling and answering at the same
\* moment never answers twice, and no answer reaches a later attempt.
Flying(s) == inflight.step = s /\ inflight.attempt = attempt[s] /\ pc[s] \in AttemptPC
Places(s) == {p \in 1..4 : \/ p = 1 /\ slot = s
                           \/ p = 2 /\ Flying(s)
                           \/ p = 3 /\ resume[s] # "none"
                           \/ p = 4 /\ hold[s] # "none"}
OneAnswer ==
  \A s \in Steps :
    /\ \A p, q \in Places(s) : p = q
    /\ Places(s) # {} => question[s] = "open" /\ pc[s] \in AttemptPC
    /\ question[s] = "open" /\ body[s] \in {"line", "await"} /\ pc[s] # "fwdCancel"
         => Places(s) # {}

\* The step's timeout does not run while its question waits for the user, from
\* the moment the question is taken from the step to the moment its answer
\* reaches the select loop.
ClockStopsForQuestions ==
  \A s \in Steps : slot = s \/ Flying(s) \/ resume[s] # "none" => timer[s] # "armed"

\* Outside a cancelled launch, a question that stands is on the consumer's
\* screen or on its way there in the event channel, so it can be answered.
Shown(s) == prompt = s \/ \E i \in 1..Len(events) : events[i] = [kind |-> "waiting", step |-> s]
QuestionIsShown == slot # 0 /\ ~ctx /\ pc[slot] # "fwdWait" => Shown(slot)

\* What Run returns is what happened: success means that every step settled
\* and none failed; an error without cancellation means that a required step
\* failed, and an optional step never fails a launch that is not cancelled.
VerdictIsHonest ==
  /\ ret = "ok" => \A s \in Steps : pc[s] = "settled" /\ st[s] \in {"done", "skipped"}
  /\ ret = "err" => \E s \in Steps : st[s] = "failed"
  /\ ~ctx => \A s \in Steps : st[s] = "failed" => ~Optional[s]

\* Once the channel of a launch that was not cancelled is closed and drained,
\* every row of the step list shows how its step ended and no row still spins.
RowsComplete == closed /\ ~ctx /\ events = <<>> => \A s \in Steps : view[s] = "final"

\* A cancelled launch always ends, whether or not somebody still drains its
\* events or answers its questions.
CancelEndsRun == ctx ~> closed

\* A launch whose user watches and answers ends: every question is answered
\* and no step waits for another for ever.
WatchedRunEnds == Attention => <>closed

\* The executor implements the contract its callers rely on: a decided outcome
\* is the contract's outcome, Run's result its verdict.
Contract == INSTANCE LaunchContract WITH outcome <- st, verdict <- ret, cancelled <- ctx
ImplementsContract == Contract!Spec
=============================================================================
