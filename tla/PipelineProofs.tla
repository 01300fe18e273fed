--------------------------- MODULE PipelineProofs ---------------------------
(***************************************************************************)
(* Theorems about Pipeline for every step list New accepts and every       *)
(* capacity of the event channel.                                          *)
(***************************************************************************)
EXTENDS Pipeline, TLAPS

\* An outcome is decided before its event is emitted: what TypeOK needs to be
\* inductive, because Finish emits st[s].
Decided == \A s \in Steps : pc[s] \in {"finish", "settled"} => st[s] # "none"

TypeInv == TypeOK /\ Decided

\* emit appends an event or leaves the channel as it was.
LEMMA EmitTypes ==
  ASSUME events \in Seq(Events), NEW k \in EventKinds, NEW s \in 0..N, Emit(k, s)
  PROVE  events' \in Seq(Events)
<1>1. [kind |-> k, step |-> s] \in Events
  BY DEF Events
<1>2. CASE events' = Append(events, [kind |-> k, step |-> s])
  BY <1>1, <1>2
<1>3. CASE UNCHANGED events
  BY <1>3
<1> QED
  BY <1>2, <1>3 DEF Emit

LEMMA InitTypes == Init => TypeInv
<1> SUFFICES ASSUME Init PROVE TypeInv
  OBVIOUS
<1>1. N \in Nat \ {0}
  BY MetaAssumption
<1>2. /\ cur \in 1..(N + 1) /\ hi \in 1..(N + 1) /\ slot \in 0..N /\ prompt \in 0..N
      /\ inflight \in Flights /\ events \in Seq(Events)
  BY <1>1 DEF Init, Flights
<1>3. /\ pc \in [Steps -> PCs] /\ st \in [Steps -> Outcomes \cup {"none"}]
      /\ attempt \in [Steps -> Nat] /\ Decided
  BY DEF Init, PCs, Decided
<1>4. /\ resume \in [Steps -> Results \cup {"none"}] /\ hold \in [Steps -> Results \cup {"none"}]
  BY DEF Init
<1> QED
  BY <1>2, <1>3, <1>4 DEF Init, TypeInv, TypeOK

\* The loop of Run keeps the types.
LEMMA LoopTypes == TypeInv /\ Loop => TypeInv'
<1> SUFFICES ASSUME TypeInv, Loop PROVE TypeInv'
  OBVIOUS
<1> USE MetaAssumption DEF TypeInv, TypeOK, Decided, Steps, AtLoopTop, loopVars, attemptVars,
                          clientVars
<1>1. CASE StopOnCancel
  BY <1>1 DEF StopOnCancel
<1>2. CASE SkipBlocked
  BY <1>2 DEF SkipBlocked, Decide, Goto, PCs, Outcomes
<1>3. CASE RunOne
  BY <1>3 DEF RunOne, Goto, PCs
<1>4. CASE RunBatch
  BY <1>4 DEF RunBatch, PCs
<1>5. CASE Collect
  BY <1>5 DEF Collect
<1>6. CASE Conclude
  BY <1>6 DEF Conclude, Verdict
<1>7. CASE Close
  <2> DEFINE k == IF ret = "ok" THEN "end" ELSE "endFailed"
  <2>1. k \in EventKinds /\ 0 \in 0..N
    BY DEF EventKinds
  <2>2. Emit(k, 0)
    BY <1>7 DEF Close
  <2>3. events' \in Seq(Events)
    <3> HIDE DEF k
    <3> QED BY <2>1, <2>2, EmitTypes
  <2> QED
    BY <1>7, <2>3 DEF Close
<1> QED
  BY <1>1, <1>2, <1>3, <1>4, <1>5, <1>6, <1>7 DEF Loop

\* Deciding the outcome of a step keeps the types, and so does a jump that
\* decides nothing.
LEMMA DecideTypes ==
  ASSUME TypeInv, NEW s \in Steps, NEW l \in {"finish", "settled"}, NEW o \in Outcomes,
         pc' = [pc EXCEPT ![s] = l], st' = [st EXCEPT ![s] = o],
         UNCHANGED <<loopVars, ctx, attemptVars, slot, inflight, events, clientVars>>
  PROVE  TypeInv'
<1>1. pc' \in [Steps -> PCs] /\ st' \in [Steps -> Outcomes \cup {"none"}]
  BY DEF TypeInv, TypeOK, PCs
<1>2. Decided'
  BY DEF TypeInv, TypeOK, Decided, Outcomes
<1> QED
  BY <1>1, <1>2 DEF TypeInv, TypeOK, loopVars, attemptVars, clientVars

LEMMA GotoTypes ==
  ASSUME TypeInv, NEW s \in Steps, NEW l \in PCs \ {"finish", "settled"}, Goto(s, l),
         UNCHANGED <<loopVars, ctx, st, attemptVars, slot, inflight, events, clientVars>>
  PROVE  TypeInv'
<1>1. pc' \in [Steps -> PCs]
  BY DEF TypeInv, TypeOK, Goto
<1>2. Decided'
  BY DEF TypeInv, TypeOK, Decided, Goto
<1> QED
  BY <1>1, <1>2 DEF TypeInv, TypeOK, loopVars, attemptVars, clientVars

\* The control steps of one pipeline step keep the types.
LEMMA StepTypes == ASSUME TypeInv, NEW s \in Steps, StepAction(s) PROVE TypeInv'
<1>0. events \in Seq(Events) /\ s \in 0..N /\ FailState(s) \in Outcomes /\ "done" \in Outcomes
  BY DEF TypeInv, TypeOK, Steps, FailState, Outcomes
<1>1. CASE Spawn(s)
  <2>1. CASE ctx
    BY <1>1, <2>1, DecideTypes DEF Spawn, Goto, Outcomes
  <2>2. CASE ~ctx
    BY <1>1, <2>2, GotoTypes DEF Spawn, PCs
  <2> QED
    BY <2>1, <2>2
<1>2. CASE Check(s)
  <2>1. ASSUME NEW o \in Outcomes, Decide(s, o) PROVE TypeInv'
    BY <1>2, <2>1, DecideTypes DEF Check, Decide, Goto
  <2>2. CASE Goto(s, "start") /\ UNCHANGED st
    BY <1>2, <2>2, GotoTypes DEF Check, PCs
  <2> QED
    BY <1>0, <1>2, <2>1, <2>2 DEF Check
<1>3. CASE Start(s)
  <2>1. events' \in Seq(Events)
    <3>1. "started" \in EventKinds /\ Emit("started", s)
      BY <1>3 DEF Start, EventKinds
    <3> QED
      BY <1>0, <3>1, EmitTypes
  <2> QED
    BY <1>3, <2>1 DEF Start, Goto, PCs, TypeInv, TypeOK, Decided, loopVars, attemptVars, clientVars
<1>4. CASE BeginAttempt(s)
  BY <1>4 DEF BeginAttempt, Goto, PCs, AttemptPC, Results, TypeInv, TypeOK, Decided, loopVars,
              clientVars
<1>5. CASE Backoff(s)
  <2>1. CASE ctx /\ Decide(s, FailState(s))
    BY <1>0, <1>5, <2>1, DecideTypes DEF Backoff, Decide, Goto
  <2>2. CASE Goto(s, "recheck") /\ UNCHANGED st
    BY <1>5, <2>2, GotoTypes DEF Backoff, PCs
  <2> QED
    BY <1>5, <2>1, <2>2 DEF Backoff
<1>6. CASE Recheck(s)
  <2>1. CASE Decide(s, "done")
    BY <1>0, <1>6, <2>1, DecideTypes DEF Recheck, Decide, Goto
  <2>2. CASE Goto(s, "attempt") /\ UNCHANGED st
    BY <1>6, <2>2, GotoTypes DEF Recheck, PCs
  <2> QED
    BY <1>6, <2>1, <2>2 DEF Recheck
<1>7. CASE Finish(s)
  <2>1. st[s] \in EventKinds
    BY <1>7 DEF Finish, EventKinds, TypeInv, TypeOK, Decided
  <2>2. events' \in Seq(Events)
    BY <1>0, <1>7, <2>1, EmitTypes DEF Finish
  <2>3. pc' \in [Steps -> PCs] /\ Decided'
    BY <1>7 DEF Finish, Goto, PCs, TypeInv, TypeOK, Decided
  <2> QED
    BY <1>7, <2>2, <2>3 DEF Finish, TypeInv, TypeOK, loopVars, attemptVars, clientVars
<1> QED
  BY <1>1, <1>2, <1>3, <1>4, <1>5, <1>6, <1>7 DEF StepAction

\* The select loop of an attempt keeps the types.
LEMMA SelectTypes == ASSUME TypeInv, NEW s \in Steps, SelectAction(s) PROVE TypeInv'
<1>0. /\ events \in Seq(Events) /\ s \in 0..N
      /\ pc \in [Steps -> PCs] /\ hold \in [Steps -> Results \cup {"none"}]
  BY DEF TypeInv, TypeOK, Steps
<1> USE DEF loopVars, attemptVars, clientVars
<1>1. CASE SelOut(s)
  BY <1>1 DEF SelOut, Goto, PCs, AttemptPC, TypeInv, TypeOK, Decided
<1>2. CASE SelWait(s)
  BY <1>2 DEF SelWait, Goto, PCs, AttemptPC, Steps, TypeInv, TypeOK, Decided
<1>3. CASE Forward(s)
  <2>1. events' \in Seq(Events)
    <3>1. "line" \in EventKinds /\ "waiting" \in EventKinds
      BY DEF EventKinds
    <3>2. Emit("line", s) \/ Emit("waiting", s)
      BY <1>3 DEF Forward
    <3> QED
      BY <1>0, <3>1, <3>2, EmitTypes
  <2>2. hold' \in [Steps -> Results \cup {"none"}]
    BY <1>0, <1>3 DEF Forward, Results
  <2>3. pc' \in [Steps -> PCs]
    BY <1>0, <1>3 DEF Forward, Goto, PCs, AttemptPC
  <2>4. \A t \in Steps : pc'[t] \in {"finish", "settled"} => pc[t] \in {"finish", "settled"}
    BY <1>0, <1>3 DEF Forward, Goto
  <2>5. UNCHANGED <<loopVars, ctx, st, attempt, body, question, timer, expired, cancelSeen,
                    resume, slot, inflight, clientVars>>
    BY <1>3 DEF Forward
  <2> QED
    BY <2>1, <2>2, <2>3, <2>4, <2>5 DEF TypeInv, TypeOK, Decided
<1>4. CASE SelResume(s)
  <2>1. /\ timer' \in [Steps -> {"none", "armed", "paused", "spent"}]
        /\ expired' \in [Steps -> BOOLEAN]
    <3>1. /\ timer \in [Steps -> {"none", "armed", "paused", "spent"}]
          /\ expired \in [Steps -> BOOLEAN]
      BY DEF TypeInv, TypeOK
    <3> QED
      BY <1>4, <3>1 DEF SelResume
  <2>2. pc' = [pc EXCEPT ![s] = "deliver"] /\ resume' = [resume EXCEPT ![s] = "none"]
        /\ hold' = [hold EXCEPT ![s] = resume[s]]
        /\ UNCHANGED <<loopVars, ctx, st, attempt, body, question, cancelSeen, slot, inflight,
                       events, clientVars>>
    BY <1>4 DEF SelResume, Goto
  <2> QED
    BY <2>1, <2>2 DEF PCs, AttemptPC, TypeInv, TypeOK, Decided
<1>5. CASE SelTimer(s)
  BY <1>5 DEF SelTimer, TypeInv, TypeOK, Decided
<1>6. CASE SelDone(s)
  <2>1. CASE slot = s
    <3>1. /\ cancelSeen' = [cancelSeen EXCEPT ![s] = TRUE] /\ slot' = 0
          /\ hold' = [hold EXCEPT ![s] = "cancel"] /\ pc' = [pc EXCEPT ![s] = "deliver"]
          /\ UNCHANGED <<loopVars, ctx, st, attempt, body, question, timer, expired, resume,
                         inflight, events, clientVars>>
      BY <1>6, <2>1 DEF SelDone, Goto
    <3>2. 0 \in 0..N
      BY MetaAssumption
    <3> QED
      BY <3>1, <3>2 DEF PCs, AttemptPC, Results, TypeInv, TypeOK, Decided
  <2>2. CASE slot # s
    BY <1>6, <2>2 DEF SelDone, TypeInv, TypeOK, Decided
  <2> QED
    BY <2>1, <2>2
<1>7. CASE DeliverIn(s)
  BY <1>7 DEF DeliverIn, Goto, PCs, AttemptPC, TypeInv, TypeOK, Decided
<1>8. CASE DeliverOut(s)
  BY <1>8 DEF DeliverOut, Goto, PCs, AttemptPC, TypeInv, TypeOK, Decided
<1>9. CASE Exit(s)
  <2>1. /\ slot' = (IF slot = s THEN 0 ELSE slot)
        /\ body' = [body EXCEPT ![s] = "none"] /\ hold' = [hold EXCEPT ![s] = "none"]
        /\ resume' = [resume EXCEPT ![s] = "none"] /\ timer' = [timer EXCEPT ![s] = "none"]
        /\ UNCHANGED <<loopVars, ctx, attempt, question, expired, cancelSeen, inflight, events,
                       clientVars>>
    BY <1>9 DEF Exit
  <2>2. slot' \in 0..N /\ FailState(s) \in Outcomes /\ "done" \in Outcomes
    BY <2>1, MetaAssumption DEF TypeInv, TypeOK, FailState, Outcomes
  <2>3. ASSUME pc' \in [Steps -> PCs], st' \in [Steps -> Outcomes \cup {"none"}], Decided'
        PROVE  TypeInv'
    BY <2>1, <2>2, <2>3 DEF TypeInv, TypeOK
  <2>4. ASSUME NEW o \in Outcomes, Decide(s, o) PROVE TypeInv'
    BY <2>3, <2>4 DEF Decide, Goto, PCs, TypeInv, TypeOK, Decided, Outcomes
  <2>5. CASE Goto(s, "backoff") /\ UNCHANGED st
    BY <2>3, <2>5 DEF Goto, PCs, TypeInv, TypeOK, Decided
  <2> QED
    BY <1>9, <2>2, <2>4, <2>5 DEF Exit
<1> QED
  BY <1>1, <1>2, <1>3, <1>4, <1>5, <1>6, <1>7, <1>8, <1>9 DEF SelectAction

\* What the step itself does keeps the types.
LEMMA BodyTypes == ASSUME TypeInv, NEW s \in Steps, Body(s) PROVE TypeInv'
<1>1. StepVars(s) /\ body' \in [Steps -> {"none", "run", "line", "ask", "await", "ok", "err"}]
  <2>1. body \in [Steps -> {"none", "run", "line", "ask", "await", "ok", "err"}]
    BY DEF TypeInv, TypeOK
  <2> QED
    BY <2>1 DEF Body, BodyLine, BodyAsk, BodyExit, BodyExitUnasked
<1> QED
  BY <1>1 DEF StepVars, TypeInv, TypeOK, Decided, loopVars, clientVars

\* The consumer keeps the types.
LEMMA ConsumerTypes == TypeInv /\ Consumer => TypeInv'
<1> SUFFICES ASSUME TypeInv, Consumer PROVE TypeInv'
  OBVIOUS
<1> USE DEF TypeInv, TypeOK, Decided, loopVars, attemptVars, clientVars
<1>1. CASE Receive
  <2>1. Head(events) \in Events /\ events' \in Seq(Events)
    BY <1>1 DEF Receive
  <2>2. prompt' \in 0..N /\ view' \in [Steps -> {"pending", "active", "final"}]
    BY <1>1, <2>1 DEF Receive, Row, Events, Steps
  <2> QED
    BY <1>1, <2>1, <2>2 DEF Receive
<1>2. ASSUME NEW r \in Results, ResumeTake(r) PROVE TypeInv'
  <2>1. 0 \in 0..N
    BY MetaAssumption
  <2>2. slot \in Steps /\ inflight' \in Flights
    BY <1>2, MetaAssumption DEF ResumeTake, Steps, Flights
  <2> QED
    BY <1>2, <2>1, <2>2 DEF ResumeTake, PromptAfter
<1>3. ASSUME NEW r \in Results, ResumeRefused(r) PROVE TypeInv'
  <2>1. 0 \in 0..N
    BY MetaAssumption
  <2> QED
    BY <1>3, <2>1 DEF ResumeRefused, PromptAfter
<1>4. CASE ResumeSend
  <2>1. inflight \in [step : Steps, attempt : Nat, r : Results]
    BY <1>4 DEF ResumeSend, Flights
  <2> QED
    BY <1>4, <2>1 DEF ResumeSend, Flights
<1> QED
  BY <1>1, <1>2, <1>3, <1>4 DEF Consumer

LEMMA NextTypes == TypeInv /\ [Next]_vars => TypeInv'
<1> SUFFICES ASSUME TypeInv, [Next]_vars PROVE TypeInv'
  OBVIOUS
<1>1. CASE Cancel
  BY <1>1 DEF Cancel, TypeInv, TypeOK, Decided, loopVars, attemptVars, clientVars
<1>2. CASE UNCHANGED vars
  BY <1>2 DEF vars, TypeInv, TypeOK, Decided, loopVars, attemptVars, clientVars
<1>3. CASE Terminated
  BY <1>2, <1>3 DEF Terminated
<1> QED
  BY <1>1, <1>2, <1>3, LoopTypes, StepTypes, SelectTypes, BodyTypes, ConsumerTypes DEF Next

\* Every state of the executor, its steps and its consumer is well typed; in
\* particular every event in the channel is about a step of the list or about
\* the end of the launch, and the cursor never leaves the list.
THEOREM TypeCorrect == Spec => []TypeOK
<1>1. Init => TypeInv
  BY InitTypes
<1>2. TypeInv /\ [Next]_vars => TypeInv'
  BY NextTypes
<1>3. TypeInv => TypeOK
  BY DEF TypeInv
<1> QED
  BY <1>1, <1>2, <1>3, PTL DEF Spec

-----------------------------------------------------------------------------
(* The cursor cuts the list in three: the steps below cur have settled, the  *)
(* steps from cur to hi-1 run, the steps from hi on have not been touched.   *)

Running(s) == cur <= s /\ s < hi
Over(s)    == pc[s] \in {"finish", "settled"}

Cut ==
  /\ cur <= hi
  /\ \A s \in Steps : s < cur => pc[s] = "settled"
  /\ \A s \in Steps : s >= hi => pc[s] = "idle" /\ attempt[s] = 0
  /\ \A s \in Steps : Running(s) => pc[s] # "idle"
  /\ \A s \in Steps : Over(s) <=> st[s] # "none"

\* What RunOne and RunBatch establish of the steps they start.
Batch ==
  /\ \A s \in Steps : Running(s) => \A d \in Deps[s] : d < cur
  /\ \A s, t \in Steps : Running(s) /\ Running(t) /\ s # t => Kind[s] = "auto" /\ Parallel[s]

Failures ==
  /\ \A s \in Steps : \A d \in Deps[s] :
       st[d] = "failed" => /\ attempt[s] = 0
                           /\ pc[s] = "idle" \/ Over(s)
                           /\ st[s] \in {"none", "skipped"}
  /\ \A s \in Steps : st[s] = "failed" => ~Optional[s] \/ ctx

Result ==
  /\ ret # "none" => cur = hi
  /\ ret = "ok" => cur = N + 1 /\ ~AnyFailed
  /\ ret = "err" => AnyFailed

Control == Cut /\ Batch /\ Failures /\ Result

Inv == TypeInv /\ Control

\* The four ways an action of a step touches the control state.
Stays  == UNCHANGED <<pc, st, attempt>>
Walks(s) ==
  /\ pc[s] # "idle" /\ ~Over(s) /\ st' = st
  /\ \E l \in PCs \ {"idle", "finish", "settled"} : pc' = [pc EXCEPT ![s] = l]
  /\ \E n \in Nat : attempt' = [attempt EXCEPT ![s] = n]
Settles(s) ==
  /\ pc[s] # "idle" /\ ~Over(s) /\ attempt' = attempt
  /\ \E l \in {"finish", "settled"} : pc' = [pc EXCEPT ![s] = l]
  /\ \E o \in Outcomes : /\ st' = [st EXCEPT ![s] = o]
                         /\ o = "skipped" => Optional[s]
                         /\ o = "failed" => ~Optional[s] \/ ctx
Emits(s) == /\ pc[s] = "finish" /\ pc' = [pc EXCEPT ![s] = "settled"]
            /\ UNCHANGED <<st, attempt>>

Inner(s) == StepAction(s) \/ SelectAction(s) \/ Body(s)

LEMMA Shape ==
  ASSUME TypeInv, NEW s \in Steps, Inner(s)
  PROVE  /\ UNCHANGED <<cur, hi, ret, ctx>>
         /\ Stays \/ Walks(s) \/ Settles(s) \/ Emits(s)
<1> DEFINE Goal == /\ UNCHANGED <<cur, hi, ret, ctx>>
                   /\ Stays \/ Walks(s) \/ Settles(s) \/ Emits(s)
<1>0. /\ attempt \in [Steps -> Nat] /\ attempt[s] \in Nat /\ attempt = [attempt EXCEPT ![s] = attempt[s]]
      /\ "done" \in Outcomes /\ FailState(s) \in Outcomes
      /\ FailState(s) = "skipped" => Optional[s]
      /\ FailState(s) = "failed" => ~Optional[s]
      /\ FailState(s) # "done"
  BY DEF TypeInv, TypeOK, FailState, Outcomes
<1>1. ASSUME NEW l \in PCs \ {"idle", "finish", "settled"}, Goto(s, l), pc[s] # "idle", ~Over(s),
             UNCHANGED <<cur, hi, ret, ctx, st, attempt>>
      PROVE  Goal
  BY <1>0, <1>1 DEF Walks, Goto
<1>2. ASSUME NEW o \in Outcomes, Decide(s, o), pc[s] # "idle", ~Over(s),
             o = "skipped" => Optional[s], o = "failed" => ~Optional[s],
             UNCHANGED <<cur, hi, ret, ctx, attempt>>
      PROVE  Goal
  BY <1>2 DEF Settles, Decide, Goto
<1>3. CASE Spawn(s)
  <2>1. CASE ctx
    <3>1. /\ pc[s] = "spawned" /\ pc' = [pc EXCEPT ![s] = "settled"] /\ attempt' = attempt
          /\ st' = [st EXCEPT ![s] = "failed"] /\ UNCHANGED <<cur, hi, ret, ctx>>
      BY <1>3, <2>1 DEF Spawn, Goto, loopVars, attemptVars
    <3> QED
      BY <2>1, <3>1 DEF Settles, Over, Outcomes
  <2>2. CASE ~ctx
    BY <1>1, <1>3, <2>2 DEF Spawn, Over, PCs, loopVars, attemptVars
  <2> QED
    BY <2>1, <2>2
<1>4. CASE Check(s)
  <2>1. pc[s] = "check" /\ UNCHANGED <<cur, hi, ret, ctx, attempt>>
    BY <1>4 DEF Check, loopVars, attemptVars
  <2>2. Decide(s, "done") \/ Decide(s, FailState(s)) \/ (Goto(s, "start") /\ UNCHANGED st)
    BY <1>4 DEF Check
  <2> QED
    BY <1>0, <1>1, <1>2, <2>1, <2>2 DEF Over, PCs
<1>5. CASE Start(s)
  BY <1>1, <1>5 DEF Start, Over, PCs, loopVars, attemptVars
<1>6. CASE BeginAttempt(s)
  <2>1. /\ pc[s] = "attempt" /\ pc' = [pc EXCEPT ![s] = "select"] /\ st' = st
        /\ attempt' = [attempt EXCEPT ![s] = attempt[s] + 1] /\ UNCHANGED <<cur, hi, ret, ctx>>
    BY <1>6 DEF BeginAttempt, Goto, loopVars
  <2>2. "select" \in PCs \ {"idle", "finish", "settled"} /\ attempt[s] + 1 \in Nat
    BY <1>0 DEF PCs, AttemptPC
  <2> QED
    BY <2>1, <2>2 DEF Walks, Over
<1>7. CASE Backoff(s)
  <2>1. pc[s] = "backoff" /\ UNCHANGED <<cur, hi, ret, ctx, attempt>>
    BY <1>7 DEF Backoff, loopVars, attemptVars
  <2>2. Decide(s, FailState(s)) \/ (Goto(s, "recheck") /\ UNCHANGED st)
    BY <1>7 DEF Backoff
  <2> QED
    BY <1>0, <1>1, <1>2, <2>1, <2>2 DEF Over, PCs
<1>8. CASE Recheck(s)
  <2>1. pc[s] = "recheck" /\ UNCHANGED <<cur, hi, ret, ctx, attempt>>
    BY <1>8 DEF Recheck, loopVars, attemptVars
  <2>2. Decide(s, "done") \/ (Goto(s, "attempt") /\ UNCHANGED st)
    BY <1>8 DEF Recheck
  <2> QED
    BY <1>0, <1>1, <1>2, <2>1, <2>2 DEF Over, PCs
<1>9. CASE Finish(s)
  BY <1>9 DEF Finish, Emits, Goto, loopVars, attemptVars
<1>10. ASSUME pc[s] \in AttemptPC, NEW l \in AttemptPC \cup {"backoff"}, Goto(s, l),
              UNCHANGED <<cur, hi, ret, ctx, st, attempt>>
       PROVE  Goal
  BY <1>1, <1>10 DEF AttemptPC, Over, PCs
<1>11. CASE SelOut(s) \/ SelWait(s) \/ DeliverIn(s) \/ DeliverOut(s)
  BY <1>10, <1>11 DEF SelOut, SelWait, DeliverIn, DeliverOut, AttemptPC, loopVars
<1>12. CASE SelResume(s)
  BY <1>10, <1>12 DEF SelResume, AttemptPC, loopVars
<1>13. CASE Forward(s)
  <2>1. /\ pc[s] \in AttemptPC
        /\ Goto(s, "select") \/ Goto(s, "deliver")
        /\ UNCHANGED <<cur, hi, ret, ctx, st, attempt>>
    BY <1>13 DEF Forward, AttemptPC, loopVars
  <2> QED
    BY <1>10, <2>1 DEF AttemptPC
<1>14. CASE SelTimer(s)
  BY <1>14 DEF SelTimer, Stays, loopVars
<1>15. CASE SelDone(s)
  <2>1. pc[s] \in AttemptPC /\ UNCHANGED <<cur, hi, ret, ctx, st, attempt>>
    BY <1>15 DEF SelDone, AttemptPC, loopVars
  <2>2. Goto(s, "deliver") \/ UNCHANGED pc
    BY <1>15 DEF SelDone
  <2> QED
    BY <1>10, <2>1, <2>2 DEF AttemptPC, Stays
<1>16. CASE Exit(s)
  <2>1. pc[s] \in AttemptPC /\ UNCHANGED <<cur, hi, ret, ctx, attempt>>
    BY <1>16 DEF Exit, AttemptPC, loopVars
  <2>2. Decide(s, "done") \/ Decide(s, FailState(s)) \/ (Goto(s, "backoff") /\ UNCHANGED st)
    BY <1>16 DEF Exit
  <2>3. pc[s] # "idle" /\ ~Over(s)
    BY <2>1 DEF AttemptPC, Over
  <2> QED
    BY <1>0, <1>2, <1>10, <2>1, <2>2, <2>3
<1>17. CASE Body(s)
  BY <1>17 DEF Body, BodyLine, BodyAsk, BodyExit, BodyExitUnasked, StepVars, Stays, loopVars
<1> QED
  BY <1>3, <1>4, <1>5, <1>6, <1>7, <1>8, <1>9, <1>11, <1>12, <1>13, <1>14, <1>15, <1>16, <1>17
     DEF Inner, StepAction, SelectAction

\* A step that acts is one of those that run, and no dependency of it failed.
LEMMA ActiveRuns ==
  ASSUME Inv, NEW s \in Steps, pc[s] # "idle", pc[s] # "settled"
  PROVE  Running(s) /\ \A d \in Deps[s] : ~Over(s) => st[d] # "failed"
<1>1. s \in Nat /\ cur \in Nat /\ hi \in Nat
  BY MetaAssumption DEF Inv, TypeInv, TypeOK, Steps
<1> QED
  BY <1>1 DEF Inv, Control, Cut, Failures, Running

LEMMA InnerControl ==
  ASSUME Inv, NEW s \in Steps, Inner(s)
  PROVE  Control'
<1>0. /\ UNCHANGED <<cur, hi, ret, ctx>>
      /\ Stays \/ Walks(s) \/ Settles(s) \/ Emits(s)
  BY Shape DEF Inv
<1>1. /\ pc \in [Steps -> PCs] /\ st \in [Steps -> Outcomes \cup {"none"}]
      /\ attempt \in [Steps -> Nat] /\ cur \in Nat /\ hi \in Nat /\ Steps \subseteq Nat
      /\ "none" \notin Outcomes /\ Deps \in [Steps -> SUBSET Steps]
  BY MetaAssumption DEF Inv, TypeInv, TypeOK, Outcomes, Steps
<1>2. Cut /\ Batch /\ Failures /\ Result
  BY DEF Inv, Control
<1>3. \A t \in Steps : Running(t)' <=> Running(t)
  BY <1>0 DEF Running
<1>4. Batch'
  BY <1>0, <1>2, <1>3 DEF Batch
<1>5. CASE Stays
  BY <1>0, <1>2, <1>4, <1>5 DEF Control, Cut, Failures, Result, Stays, Over, Running, AnyFailed
<1>6. CASE Walks(s)
  <2>1. Running(s) /\ \A d \in Deps[s] : st[d] # "failed"
    BY <1>6, ActiveRuns DEF Walks, Over
  <2>2. PICK l \in PCs \ {"idle", "finish", "settled"} : pc' = [pc EXCEPT ![s] = l]
    BY <1>6 DEF Walks
  <2>3. PICK n \in Nat : attempt' = [attempt EXCEPT ![s] = n]
    BY <1>6 DEF Walks
  <2>4. st' = st /\ ~Over(s)
    BY <1>6 DEF Walks
  <2>5. Cut'
    BY <1>0, <1>1, <1>2, <2>1, <2>2, <2>3, <2>4 DEF Cut, Over, Running
  <2>6. Failures'
    BY <1>0, <1>1, <1>2, <2>1, <2>2, <2>3, <2>4 DEF Failures, Over
  <2>7. Result'
    BY <1>0, <1>2, <2>4 DEF Result, AnyFailed
  <2> QED
    BY <1>4, <2>5, <2>6, <2>7 DEF Control
<1>7. CASE Settles(s)
  <2>1. Running(s) /\ \A d \in Deps[s] : st[d] # "failed"
    BY <1>7, ActiveRuns DEF Settles, Over
  <2>2. PICK l \in {"finish", "settled"} : pc' = [pc EXCEPT ![s] = l]
    BY <1>7 DEF Settles
  <2>3. PICK o \in Outcomes : /\ st' = [st EXCEPT ![s] = o]
                              /\ o = "failed" => ~Optional[s] \/ ctx
    BY <1>7 DEF Settles
  <2>4. attempt' = attempt /\ ~Over(s)
    BY <1>7 DEF Settles
  <2>u. st' = [st EXCEPT ![s] = o]
    BY <2>3
  <2>v. o = "failed" => ~Optional[s] \/ ctx
    BY <2>3
  <2>t. ASSUME NEW t \in Steps, t # s
        PROVE  /\ pc'[t] = pc[t] /\ st'[t] = st[t] /\ attempt'[t] = attempt[t]
               /\ Over(t)' <=> Over(t)
    <3>1. pc'[t] = pc[t]
      BY <1>1, <2>2, <2>t
    <3>2. st'[t] = st[t]
      BY <1>1, <2>u, <2>t
    <3> QED
      BY <2>4, <3>1, <3>2 DEF Over
  <2>s. pc'[s] = l /\ st'[s] = o /\ Over(s)' /\ o # "none"
    <3>1. pc'[s] = l
      BY <1>1, <2>2
    <3>2. st'[s] = o /\ o # "none"
      BY <1>1, <2>u
    <3> QED
      BY <3>1, <3>2 DEF Over
  <2>5. Cut'
    BY <1>0, <1>1, <1>2, <2>1, <2>t, <2>s DEF Cut, Running
  <2>6. Failures'
    <3>1. ASSUME NEW t \in Steps, NEW d \in Deps[t], st'[d] = "failed"
          PROVE  attempt'[t] = 0 /\ (pc'[t] = "idle" \/ Over(t)') /\ st'[t] \in {"none", "skipped"}
      <4>1. d \in Steps /\ d < t
        BY <1>1, MetaAssumption DEF DepsAreEarlier
      <4>2. CASE d = s
        <5>1. ~Running(t)
          BY <1>1, <1>2, <2>1, <4>1, <4>2 DEF Batch, Running
        <5>2. t >= hi
          BY <1>1, <2>1, <4>1, <4>2, <5>1 DEF Running
        <5> QED
          <6>1. pc[t] = "idle" /\ attempt[t] = 0 /\ t # s
            BY <1>2, <5>2, <2>1 DEF Cut, Running
          <6>2. st[t] = "none"
            BY <1>2, <6>1 DEF Cut, Over
          <6> QED
            BY <2>t, <6>1, <6>2
      <4>3. CASE d # s
        <5>1. st[d] = "failed" /\ t # s
          BY <2>1, <2>t, <3>1, <4>1, <4>3
        <5>2. attempt[t] = 0 /\ (pc[t] = "idle" \/ Over(t)) /\ st[t] \in {"none", "skipped"}
          BY <1>2, <5>1 DEF Failures
        <5> QED
          BY <2>t, <5>1, <5>2
      <4> QED
        BY <4>2, <4>3
    <3>2. \A t \in Steps : st'[t] = "failed" => ~Optional[t] \/ ctx'
      <4>1. ASSUME NEW t \in Steps, st'[t] = "failed" PROVE ~Optional[t] \/ ctx
        <5>1. CASE t = s
          BY <2>v, <2>s, <4>1, <5>1
        <5>2. CASE t # s
          BY <1>2, <2>t, <4>1, <5>2 DEF Failures
        <5> QED
          BY <5>1, <5>2
      <4> QED
        BY <1>0, <4>1
    <3> QED
      BY <3>1, <3>2 DEF Failures
  <2>7. Result'
    <3>1. ret = "none"
      BY <1>1, <1>2, <2>1 DEF Result, Running
    <3> QED
      BY <1>0, <3>1 DEF Result
  <2> QED
    BY <1>4, <2>5, <2>6, <2>7 DEF Control
<1>8. CASE Emits(s)
  <2>1. pc' = [pc EXCEPT ![s] = "settled"] /\ UNCHANGED <<st, attempt>> /\ pc[s] = "finish"
    BY <1>8 DEF Emits
  <2>2. Cut'
    BY <1>0, <1>1, <1>2, <2>1 DEF Cut, Over, Running
  <2>3. Failures'
    BY <1>0, <1>1, <1>2, <2>1 DEF Failures, Over
  <2>4. Result'
    BY <1>0, <1>2, <2>1 DEF Result, AnyFailed
  <2> QED
    BY <1>4, <2>2, <2>3, <2>4 DEF Control
<1> QED
  BY <1>0, <1>5, <1>6, <1>7, <1>8

\* The steps a pass of Run's loop starts are the next ones of the list; they do
\* not wait for one another, and none of them has a failed dependency.
LEMMA LoopControl == Inv /\ Loop => Control'
<1> SUFFICES ASSUME Inv, Loop PROVE Control'
  OBVIOUS
<1>1. /\ pc \in [Steps -> PCs] /\ st \in [Steps -> Outcomes \cup {"none"}]
      /\ attempt \in [Steps -> Nat] /\ cur \in Nat /\ hi \in Nat /\ N \in Nat
      /\ cur \in 1..(N + 1) /\ Steps = 1..N
      /\ \A s \in Steps : \A d \in Deps[s] : d \in Steps /\ d < s
  BY MetaAssumption DEF DepsAreEarlier, Inv, TypeInv, TypeOK, Steps
<1>2. Cut /\ Batch /\ Failures /\ Result
  BY DEF Inv, Control
<1>3. CASE StopOnCancel
  BY <1>2, <1>3 DEF StopOnCancel, AtLoopTop, attemptVars, Control, Cut, Batch, Failures, Result,
                    Over, Running, AnyFailed
<1>4. ASSUME AtLoopTop, cur <= N, ret' = ret, ctx' = ctx, attempt' = attempt, cur' = cur,
             NEW e \in (cur + 1)..(N + 1), hi' = e,
             NEW l \in PCs \ {"idle", "finish", "settled"},
             pc' = [s \in Steps |-> IF s \in cur..(e - 1) THEN l ELSE pc[s]], st' = st,
             \A s \in cur..(e - 1) : ~Blocked(s) /\ \A d \in Deps[s] : d < cur,
             \A s, t \in cur..(e - 1) : s # t => Kind[s] = "auto" /\ Parallel[s]
      PROVE  Control'
  <2>1. cur = hi /\ ret = "none"
    BY <1>4 DEF AtLoopTop
  <2>2. \A s \in Steps : Running(s)' <=> s \in cur..(e - 1)
    BY <1>1, <1>4 DEF Running
  <2>3. \A s \in Steps : Running(s)' => pc'[s] = l /\ pc[s] = "idle" /\ attempt[s] = 0
    BY <1>1, <1>2, <1>4, <2>1, <2>2 DEF Cut
  <2>4. \A s \in Steps : ~Running(s)' => pc'[s] = pc[s]
    BY <1>1, <1>4, <2>2
  <2>5. \A s \in Steps : Over(s)' <=> Over(s)
    BY <2>3, <2>4 DEF Over
  <2>6. Cut'
    <3>1. cur' <= hi'
      BY <1>1, <1>4
    <3>2. ASSUME NEW s \in Steps, s < cur' PROVE pc'[s] = "settled"
      BY <1>1, <1>2, <1>4, <2>2, <2>4, <3>2 DEF Cut
    <3>3. ASSUME NEW s \in Steps, s >= hi' PROVE pc'[s] = "idle" /\ attempt'[s] = 0
      <4>1. ~Running(s)' /\ s >= hi
        BY <1>1, <1>4, <2>1, <2>2, <3>3
      <4> QED
        BY <1>2, <1>4, <2>4, <4>1 DEF Cut
    <3>4. \A s \in Steps : Running(s)' => pc'[s] # "idle"
      BY <1>4, <2>3
    <3>5. \A s \in Steps : Over(s)' <=> st'[s] # "none"
      BY <1>2, <1>4, <2>5 DEF Cut
    <3> QED
      BY <3>1, <3>2, <3>3, <3>4, <3>5 DEF Cut
  <2>7. Batch'
    BY <1>4, <2>2 DEF Batch
  <2>8. Failures'
    <3>1. ASSUME NEW s \in Steps, NEW d \in Deps[s], st[d] = "failed"
          PROVE  attempt'[s] = 0 /\ (pc'[s] = "idle" \/ Over(s)') /\ st'[s] \in {"none", "skipped"}
      <4>1. ~Running(s)'
        BY <1>4, <2>2, <3>1 DEF Blocked
      <4> QED
        BY <1>2, <1>4, <2>4, <2>5, <3>1, <4>1 DEF Failures
    <3> QED
      BY <1>2, <1>4, <3>1 DEF Failures
  <2>9. Result'
    BY <1>4, <2>1 DEF Result
  <2> QED
    BY <2>6, <2>7, <2>8, <2>9 DEF Control
<1>5. CASE SkipBlocked
  <2>1. /\ cur = hi /\ ret = "none" /\ cur \in Steps /\ hi' = cur + 1 /\ cur' = cur
        /\ pc' = [pc EXCEPT ![cur] = "finish"] /\ st' = [st EXCEPT ![cur] = "skipped"]
        /\ UNCHANGED <<ret, ctx, attempt>>
    BY <1>1, <1>5 DEF SkipBlocked, AtLoopTop, Decide, Goto, attemptVars
  <2>2. pc[cur] = "idle" /\ attempt[cur] = 0 /\ st[cur] = "none"
    BY <1>1, <1>2, <2>1 DEF Cut, Over
  <2>3. ASSUME NEW s \in Steps, s # cur
        PROVE  /\ pc'[s] = pc[s] /\ st'[s] = st[s] /\ attempt'[s] = attempt[s]
               /\ Over(s)' <=> Over(s)
    <3>1. pc'[s] = pc[s] /\ st'[s] = st[s]
      BY <1>1, <2>1, <2>3
    <3> QED
      BY <2>1, <3>1 DEF Over
  <2>4. pc'[cur] = "finish" /\ st'[cur] = "skipped" /\ Over(cur)'
    BY <1>1, <2>1 DEF Over
  <2>5. \A s \in Steps : Running(s)' <=> s = cur
    BY <1>1, <2>1 DEF Running
  <2>6. Cut'
    BY <1>1, <1>2, <2>1, <2>2, <2>3, <2>4, <2>5 DEF Cut
  <2>7. Batch'
    BY <1>1, <2>1, <2>5 DEF Batch
  <2>8. Failures'
    BY <1>1, <1>2, <2>1, <2>2, <2>3, <2>4 DEF Failures
  <2>9. Result'
    BY <2>1 DEF Result
  <2> QED
    BY <2>6, <2>7, <2>8, <2>9 DEF Control
<1>6. CASE RunOne
  <2> DEFINE l == IF Kind[cur] = "handoff" THEN "start" ELSE "check"
  <2>1. /\ AtLoopTop /\ cur <= N /\ ~Blocked(cur) /\ hi' = cur + 1 /\ pc' = [pc EXCEPT ![cur] = l]
        /\ UNCHANGED <<cur, ret, ctx, st, attempt>>
    BY <1>6 DEF RunOne, Goto, attemptVars
  <2>2. l \in PCs \ {"idle", "finish", "settled"}
    BY DEF PCs
  <2>3. pc' = [s \in Steps |-> IF s \in cur..((cur + 1) - 1) THEN l ELSE pc[s]]
    <3>1. pc' = [s \in Steps |-> IF s = cur THEN l ELSE pc[s]]
      BY <1>1, <2>1
    <3>2. \A s \in Steps : s = cur <=> s \in cur..((cur + 1) - 1)
      BY <1>1
    <3> HIDE DEF l
    <3> QED
      BY <3>1, <3>2
  <2>4. \A s \in cur..((cur + 1) - 1) : s = cur /\ s \in Steps
    BY <1>1, <2>1
  <2>5. cur + 1 \in (cur + 1)..(N + 1)
    BY <1>1, <2>1
  <2>6. \A s \in cur..((cur + 1) - 1) : ~Blocked(s) /\ \A d \in Deps[s] : d < cur
    BY <1>1, <2>1, <2>4
  <2> HIDE DEF l
  <2> QED
    <3>1. \A s, u \in cur..((cur + 1) - 1) : s # u => Kind[s] = "auto" /\ Parallel[s]
      BY <2>4
    <3>2. /\ AtLoopTop /\ cur <= N /\ ret' = ret /\ ctx' = ctx /\ attempt' = attempt /\ cur' = cur
          /\ hi' = cur + 1 /\ st' = st
      BY <2>1
    <3> QED
      BY <1>4, <2>2, <2>3, <2>5, <2>6, <3>1, <3>2
<1>7. CASE RunBatch
  <2>1. PICK e \in (cur + 1)..(N + 1) :
          /\ BatchEnd(cur, e)
          /\ hi' = e
          /\ pc' = [s \in Steps |-> IF s \in cur..(e - 1) THEN "spawned" ELSE pc[s]]
    BY <1>7 DEF RunBatch
  <2>2. AtLoopTop /\ cur <= N /\ UNCHANGED <<cur, ret, ctx, st, attempt>>
    BY <1>7 DEF RunBatch, attemptVars
  <2>3. "spawned" \in PCs \ {"idle", "finish", "settled"}
    BY DEF PCs
  <2>4. \A s \in cur..(e - 1) : s \in Steps /\ Joins(s, cur)
    BY <1>1, <2>1 DEF BatchEnd
  <2>5. \A s \in cur..(e - 1) : ~Blocked(s) /\ \A d \in Deps[s] : d < cur
    <3> SUFFICES ASSUME NEW s \in cur..(e - 1)
                 PROVE  ~Blocked(s) /\ \A d \in Deps[s] : d < cur
      OBVIOUS
    <3>1. s \in Steps /\ ~Blocked(s) /\ Deps[s] \cap (cur..(s - 1)) = {}
      BY <2>4 DEF Joins
    <3>2. ASSUME NEW d \in Deps[s] PROVE d < cur
      <4>1. d \in Steps /\ d < s /\ d \notin cur..(s - 1)
        BY <1>1, <3>1
      <4> QED
        BY <1>1, <3>1, <4>1
    <3> QED
      BY <3>1, <3>2
  <2>6. \A s \in cur..(e - 1) : Kind[s] = "auto" /\ Parallel[s]
    BY <2>4 DEF Joins, Batchable
  <2> QED
    BY <1>4, <2>1, <2>2, <2>3, <2>5, <2>6
<1>8. CASE Collect
  <2>1. /\ cur < hi /\ cur' = hi /\ UNCHANGED <<hi, ret, ctx, pc, st, attempt>>
        /\ \A s \in cur..(hi - 1) : pc[s] = "settled"
    BY <1>8 DEF Collect, attemptVars
  <2>2. \A s \in Steps : ~Running(s)'
    BY <1>1, <2>1 DEF Running
  <2>3. \A s \in Steps : s < hi => pc[s] = "settled"
    <3> SUFFICES ASSUME NEW s \in Steps, s < hi PROVE pc[s] = "settled"
      OBVIOUS
    <3>1. CASE s < cur
      BY <1>2, <3>1 DEF Cut
    <3>2. CASE ~(s < cur)
      BY <1>1, <2>1, <3>2
    <3> QED
      BY <3>1, <3>2
  <2>4. Cut'
    <3>1. \A s \in Steps : s >= hi => pc[s] = "idle" /\ attempt[s] = 0
      BY <1>2 DEF Cut
    <3>2. \A s \in Steps : Over(s)' <=> st'[s] # "none"
      BY <1>2, <2>1 DEF Cut, Over
    <3>3. cur' <= hi' /\ \A s \in Steps : s < cur' => pc'[s] = "settled"
      BY <1>1, <2>1, <2>3
    <3>4. \A s \in Steps : s >= hi' => pc'[s] = "idle" /\ attempt'[s] = 0
      BY <2>1, <3>1
    <3> QED
      BY <2>2, <3>2, <3>3, <3>4 DEF Cut
  <2>5. ret = "none"
    BY <1>1, <1>2, <2>1 DEF Result
  <2>6. Failures' /\ Result' /\ Batch'
    BY <1>2, <2>1, <2>2, <2>5 DEF Failures, Result, Batch, Over
  <2> QED
    BY <2>4, <2>6 DEF Control
<1>9. CASE Conclude
  <2>1. /\ cur = hi /\ cur = N + 1 /\ ret' = Verdict /\ UNCHANGED <<cur, hi, ctx, pc, st, attempt>>
    BY <1>9 DEF Conclude, AtLoopTop, attemptVars
  <2>2. Cut' /\ Batch' /\ Failures'
    BY <1>2, <2>1 DEF Cut, Batch, Failures, Over, Running
  <2>3. Result'
    BY <2>1 DEF Result, Verdict, AnyFailed
  <2> QED
    BY <2>2, <2>3 DEF Control
<1>10. CASE Close
  BY <1>2, <1>10 DEF Close, attemptVars, Control, Cut, Batch, Failures, Result, Over, Running,
                     AnyFailed
<1> QED
  BY <1>3, <1>5, <1>6, <1>7, <1>8, <1>9, <1>10 DEF Loop

LEMMA InitControl == Init => Control
<1> SUFFICES ASSUME Init PROVE Control
  OBVIOUS
<1>1. cur = 1 /\ hi = 1 /\ ret = "none"
  BY DEF Init
<1>2. \A s \in Steps : pc[s] = "idle" /\ st[s] = "none" /\ attempt[s] = 0 /\ s \in Nat /\ s >= 1
  BY MetaAssumption DEF Init, Steps
<1>3. \A s \in Steps : ~Running(s)
  BY <1>1, <1>2 DEF Running
<1>4. Cut
  BY <1>1, <1>2, <1>3 DEF Cut, Over
<1>5. Batch /\ Result
  BY <1>1, <1>3 DEF Batch, Result
<1>6. Failures
  <2>1. \A s \in Steps : \A d \in Deps[s] : d \in Steps
    BY MetaAssumption
  <2> QED
    BY <1>2, <2>1 DEF Failures
<1> QED
  BY <1>4, <1>5, <1>6 DEF Control

\* Control speaks of nothing the consumer changes.
LEMMA OtherControl ==
  ASSUME Inv, Consumer \/ Cancel \/ Terminated \/ UNCHANGED vars
  PROVE  Control'
<1>1. /\ UNCHANGED <<cur, hi, ret, pc, st, attempt>>
      /\ ctx => ctx'
  BY DEF Consumer, Receive, ResumeTake, ResumeRefused, ResumeSend, Cancel, Terminated, vars,
         loopVars, attemptVars
<1>2. Cut /\ Batch /\ Failures /\ Result
  BY DEF Inv, Control
<1>3. Cut' /\ Batch' /\ Result'
  BY <1>1, <1>2 DEF Cut, Batch, Result, Over, Running, AnyFailed
<1>4. Failures'
  BY <1>1, <1>2 DEF Failures, Over
<1> QED
  BY <1>3, <1>4 DEF Control

LEMMA Inductive == Inv /\ [Next]_vars => Inv'
<1> SUFFICES ASSUME Inv, [Next]_vars PROVE Inv'
  OBVIOUS
<1>1. TypeInv'
  BY NextTypes DEF Inv
<1>2. Control'
  BY LoopControl, InnerControl, OtherControl DEF Next, Inner
<1> QED
  BY <1>1, <1>2 DEF Inv

THEOREM InvHolds == Spec => []Inv
<1>1. Init => Inv
  BY InitTypes, InitControl DEF Inv
<1> QED
  BY <1>1, Inductive, PTL DEF Spec

\* Every step starts after the steps it depends on, and no attempt of a step
\* with a failed dependency is ever made.
THEOREM DependenciesFirst == Spec => []DepsSettledFirst
<1>1. Inv => DepsSettledFirst
  <2> SUFFICES ASSUME Inv, NEW s \in Steps, NEW d \in Deps[s]
               PROVE  /\ pc[s] # "idle" => pc[d] = "settled"
                      /\ st[d] = "failed" => attempt[s] = 0 /\ st[s] \in {"none", "skipped"}
    BY DEF DepsSettledFirst
  <2>1. d \in Steps /\ d < s /\ s \in Nat /\ d \in Nat /\ cur \in Nat /\ hi \in Nat
    BY MetaAssumption DEF DepsAreEarlier, Inv, TypeInv, TypeOK, Steps
  <2>2. Cut /\ Batch /\ Failures
    BY DEF Inv, Control
  <2>3. ASSUME pc[s] # "idle" PROVE pc[d] = "settled"
    <3>1. s < hi
      BY <2>1, <2>2, <2>3 DEF Cut
    <3>2. d < cur
      BY <2>1, <2>2, <3>1 DEF Batch, Running
    <3> QED
      BY <2>1, <2>2, <3>2 DEF Cut
  <2>4. st[d] = "failed" => attempt[s] = 0 /\ st[s] \in {"none", "skipped"}
    BY <2>2 DEF Failures
  <2> QED
    BY <2>3, <2>4
<1> QED
  BY <1>1, InvHolds, PTL

LEMMA InvExclusive == Inv => Exclusive
<1> SUFFICES ASSUME Inv, NEW s \in Steps, NEW t \in Steps, s # t, Live(s), Live(t)
             PROVE  Kind[s] = "auto" /\ Parallel[s] /\ s \notin Deps[t]
  BY DEF Exclusive
<1>1. Running(s) /\ Running(t)
  BY ActiveRuns DEF Live
<1>2. s \in Nat /\ cur \in Nat
  BY MetaAssumption DEF Inv, TypeInv, TypeOK, Steps
<1> QED
  BY <1>1, <1>2 DEF Inv, Control, Batch, Running

\* Two steps are under way at once only inside a batch of parallel Auto steps,
\* so a question or a terminal command never shares the screen.
THEOREM ExclusiveSteps == Spec => []Exclusive
  BY InvHolds, InvExclusive, PTL

\* Run's result is the truth about the steps.
THEOREM HonestVerdict == Spec => []VerdictIsHonest
<1>1. Inv => VerdictIsHonest
  <2> SUFFICES ASSUME Inv PROVE VerdictIsHonest
    OBVIOUS
  <2>1. /\ N \in Nat /\ Steps = 1..N /\ cur \in Nat
        /\ st \in [Steps -> Outcomes \cup {"none"}]
    BY MetaAssumption DEF Inv, TypeInv, TypeOK, Steps
  <2>2. Cut /\ Failures /\ Result
    BY DEF Inv, Control
  <2>3. ASSUME ret = "ok", NEW s \in Steps PROVE pc[s] = "settled" /\ st[s] \in {"done", "skipped"}
    <3>1. pc[s] = "settled" /\ st[s] # "failed"
      BY <2>1, <2>2, <2>3 DEF Cut, Result, AnyFailed
    <3> QED
      BY <2>1, <2>2, <3>1 DEF Cut, Over, Outcomes
  <2>4. ret = "err" => \E s \in Steps : st[s] = "failed"
    BY <2>2 DEF Result, AnyFailed
  <2>5. ~ctx => \A s \in Steps : st[s] = "failed" => ~Optional[s]
    BY <2>2 DEF Failures
  <2> QED
    BY <2>3, <2>4, <2>5 DEF VerdictIsHonest
<1> QED
  BY <1>1, InvHolds, PTL

-----------------------------------------------------------------------------
(* The executor implements LaunchContract *)

\* The contract lets a running step settle.
LEMMA SettleStep ==
  ASSUME Inv, NEW s \in Steps, Settles(s), UNCHANGED <<ret, ctx>>
  PROVE  Contract!Settle(s)
<1>1. Running(s) /\ \A d \in Deps[s] : st[d] # "failed"
  BY ActiveRuns DEF Settles, Over
<1>2. /\ ret = "none" /\ st[s] = "none"
  <2>1. cur \in Nat /\ hi \in Nat /\ s \in Nat
    BY MetaAssumption DEF Inv, TypeInv, TypeOK, Steps
  <2> QED
    BY <1>1, <2>1 DEF Inv, Control, Cut, Result, Running, Settles
<1>3. \A d \in Deps[s] : st[d] # "none"
  <2> SUFFICES ASSUME NEW d \in Deps[s] PROVE st[d] # "none"
    OBVIOUS
  <2>1. d \in Steps /\ d < cur
    BY <1>1, MetaAssumption DEF Inv, Control, Batch
  <2> QED
    BY <2>1 DEF Inv, Control, Cut, Over
<1>4. PICK o \in Outcomes : /\ st' = [st EXCEPT ![s] = o]
                            /\ o = "skipped" => Optional[s]
                            /\ o = "failed" => ~Optional[s] \/ ctx
  BY DEF Settles
<1>5. Contract!Outcome(s, o)
  BY <1>1, <1>4 DEF Contract!Outcome, Contract!FailedDep, Outcomes
<1> QED
  BY <1>2, <1>3, <1>4, <1>5 DEF Contract!Settle, Outcomes

\* Every step of the executor is a step of the contract or changes nothing the
\* contract speaks of.
LEMMA ContractStep == Inv /\ [Next]_vars => [Contract!Next]_Contract!vars
<1> SUFFICES ASSUME Inv, [Next]_vars PROVE Contract!Next \/ UNCHANGED <<st, ret, ctx>>
  BY DEF Contract!vars
<1>1. ASSUME NEW s \in Steps, Inner(s) PROVE Contract!Next \/ UNCHANGED <<st, ret, ctx>>
  <2>1. /\ UNCHANGED <<cur, hi, ret, ctx>>
        /\ Stays \/ Walks(s) \/ Settles(s) \/ Emits(s)
    BY <1>1, Shape DEF Inv
  <2>2. CASE Settles(s)
    BY <2>1, <2>2, SettleStep DEF Contract!Next, Contract!Steps, Steps
  <2>3. CASE Stays \/ Walks(s) \/ Emits(s)
    BY <2>1, <2>3 DEF Stays, Walks, Emits
  <2> QED
    BY <2>1, <2>2, <2>3
<1>2. CASE SkipBlocked
  <2>1. /\ cur \in Steps /\ cur = hi /\ ret = "none" /\ Blocked(cur)
        /\ st' = [st EXCEPT ![cur] = "skipped"] /\ UNCHANGED <<ret, ctx>>
    BY <1>2, MetaAssumption DEF SkipBlocked, AtLoopTop, Decide, Steps, Inv, TypeInv, TypeOK
  <2>2. st[cur] = "none"
    BY <2>1, MetaAssumption DEF Inv, TypeInv, TypeOK, Control, Cut, Over, Steps
  <2>3. \A d \in Deps[cur] : st[d] # "none"
    <3> SUFFICES ASSUME NEW d \in Deps[cur] PROVE st[d] # "none"
      OBVIOUS
    <3>1. d \in Steps /\ d < cur
      BY <2>1, MetaAssumption DEF DepsAreEarlier
    <3> QED
      BY <3>1 DEF Inv, Control, Cut, Over
  <2>4. Contract!Outcome(cur, "skipped")
    BY <2>1 DEF Contract!Outcome, Contract!FailedDep, Blocked
  <2>5. Contract!Settle(cur)
    BY <2>1, <2>2, <2>3, <2>4 DEF Contract!Settle
  <2> QED
    BY <2>1, <2>5 DEF Contract!Next, Contract!Steps, Steps
<1>3. CASE StopOnCancel
  BY <1>3 DEF StopOnCancel, AtLoopTop, Contract!Next, Contract!Conclude
<1>4. CASE Conclude
  <2>1. cur = N + 1 /\ ret = "none" /\ ret' = Verdict /\ UNCHANGED <<st, ctx>>
    BY <1>4 DEF Conclude, AtLoopTop
  <2>2. \A s \in Contract!Steps : st[s] # "none"
    <3> SUFFICES ASSUME NEW s \in Steps PROVE st[s] # "none"
      BY DEF Steps, Contract!Steps
    <3>1. s < cur
      BY <2>1, MetaAssumption DEF Steps
    <3> QED
      BY <3>1 DEF Inv, Control, Cut, Over
  <2>3. ret' = IF ctx THEN "ctx"
               ELSE IF \E s \in Contract!Steps : st[s] = "failed" THEN "err" ELSE "ok"
    BY <2>1 DEF Verdict, AnyFailed, Steps, Contract!Steps
  <2> QED
    BY <2>1, <2>2, <2>3 DEF Contract!Next, Contract!Conclude
<1>5. CASE RunOne \/ RunBatch \/ Collect \/ Close
  BY <1>5 DEF RunOne, RunBatch, Collect, Close
<1>6. CASE Cancel
  BY <1>6 DEF Cancel, loopVars, Contract!Next, Contract!Cancel
<1>7. CASE Consumer \/ Terminated \/ UNCHANGED vars
  BY <1>7 DEF Consumer, Receive, ResumeTake, ResumeRefused, ResumeSend, Terminated, vars, loopVars
<1> QED
  BY <1>1, <1>2, <1>3, <1>4, <1>5, <1>6, <1>7 DEF Next, Loop, Inner

\* Run keeps the promise its callers rely on: outcomes appear in dependency
\* order and for the reasons the contract allows, and the verdict is given once
\* and tells the truth.
THEOREM Refinement == Spec => ImplementsContract
<1>1. Init => Contract!Init
  BY DEF Init, Contract!Init, Contract!Steps, Steps
<1> QED
  BY <1>1, InvHolds, ContractStep, PTL DEF Spec, ImplementsContract, Contract!Spec
-----------------------------------------------------------------------------
(* The answer to a question, and the question on the consumer's screen.      *)
(* AnswerOf says of one step where its answer is, what its goroutine does    *)
(* meanwhile and that its clock stands; it is inductive because only one     *)
(* step is under way when a question stands.                                 *)

Waits(s) == slot = s \/ Flying(s) \/ resume[s] # "none"

AnswerOf(s) ==
  /\ body[s] # "none" <=> pc[s] \in AttemptPC
  /\ hold[s] # "none" <=> pc[s] \in {"deliver", "dfwd"}
  /\ body[s] \in {"run", "ask"} => question[s] # "open"
  /\ body[s] = "await" => question[s] = "open"
  /\ body[s] = "ask" \/ question[s] = "open" => Kind[s] # "auto"
  /\ pc[s] \in {"fwdCancel", "deliver", "dfwd"} => question[s] = "open"
  /\ inflight.step = s => inflight.attempt <= attempt[s]
  /\ slot = s => ~Flying(s) /\ resume[s] = "none"
  /\ Flying(s) => resume[s] = "none"
  /\ Waits(s) => /\ question[s] = "open" /\ pc[s] \in AttemptPC
                 /\ hold[s] = "none" /\ pc[s] # "fwdCancel"
                 /\ timer[s] # "armed"
  /\ question[s] = "open" /\ body[s] \in {"line", "await"} /\ pc[s] # "fwdCancel"
       => Waits(s) \/ hold[s] # "none"

\* A sequence of events without one in E, and one whose last event in E is in F.
Free(q, E) == \A i \in 1..Len(q) : q[i] \notin E
Ends(q, E, F) == \E i \in 1..Len(q) : q[i] \in F /\ \A j \in 1..Len(q) : j > i => q[j] \notin E

Of(s)        == {e \in Events : e.step = s}
Finals(s)    == {e \in Events : e.step = s /\ e.kind \in Outcomes}
Prompts      == {e \in Events : e.kind = "waiting"}
PromptsOf(s) == {[kind |-> "waiting", step |-> s]}

\* The row of a settled step is final, or will be once the channel is drained.
RowOf(s) ==
  pc[s] = "settled" /\ ~ctx =>
    (view[s] = "final" /\ Free(events, Of(s))) \/ Ends(events, Of(s), Finals(s))

\* The last prompt the consumer has, or will have, is the question that stands.
Prompted ==
  slot # 0 /\ ~ctx /\ pc[slot] # "fwdWait" =>
    (prompt = slot /\ Free(events, Prompts)) \/ Ends(events, Prompts, PromptsOf(slot))

Ended ==
  /\ closed => ret # "none"
  /\ ret # "none" => cur = N + 1 \/ ctx

Answers == \A s \in Steps : AnswerOf(s)
Rows    == \A s \in Steps : RowOf(s)

\* What the others do to a step's answer: nothing.
LEMMA AnswerFrame ==
  ASSUME NEW s \in Steps, AnswerOf(s), slot' = s <=> slot = s, inflight' = inflight,
         pc'[s] = pc[s], attempt'[s] = attempt[s], body'[s] = body[s], question'[s] = question[s],
         timer'[s] = timer[s], hold'[s] = hold[s], resume'[s] = resume[s]
  PROVE  AnswerOf(s)'
BY DEF AnswerOf, Waits, Flying

\* A step outside its attempts, or on its way to another place outside them.
LEMMA AnswerIdle ==
  ASSUME NEW s \in Steps, AnswerOf(s), slot' = slot, inflight' = inflight,
         pc[s] \notin AttemptPC, pc'[s] \notin AttemptPC,
         UNCHANGED <<attempt, body, question, timer, hold, resume>>
  PROVE  AnswerOf(s)'
BY DEF AnswerOf, Waits, Flying, AttemptPC

LEMMA AnswerLoop ==
  ASSUME Inv, Answers, Loop
  PROVE  Answers'
<1> SUFFICES ASSUME NEW s \in Steps PROVE AnswerOf(s)'
  BY DEF Answers
<1>0. AnswerOf(s) /\ pc \in [Steps -> PCs] /\ cur \in Nat /\ hi \in Nat /\ s \in Nat
  BY MetaAssumption DEF Answers, Inv, TypeInv, TypeOK, Steps
<1>1. slot' = slot /\ inflight' = inflight
      /\ UNCHANGED <<attempt, body, question, timer, hold, resume>>
  BY DEF Loop, StopOnCancel, SkipBlocked, RunOne, RunBatch, Collect, Conclude, Close, attemptVars
<1>2. s >= hi => pc[s] = "idle"
  BY DEF Inv, Control, Cut
<1>3. pc'[s] = pc[s] \/ (pc[s] = "idle" /\ pc'[s] \notin AttemptPC)
  <2>1. CASE SkipBlocked
    BY <1>0, <1>2, <2>1 DEF SkipBlocked, AtLoopTop, Decide, Goto, AttemptPC
  <2>2. CASE RunOne
    BY <1>0, <1>2, <2>2 DEF RunOne, AtLoopTop, Goto, AttemptPC
  <2>3. CASE RunBatch
    BY <1>0, <1>2, <2>3 DEF RunBatch, AtLoopTop, AttemptPC
  <2>4. CASE StopOnCancel \/ Collect \/ Conclude \/ Close
    BY <2>4 DEF StopOnCancel, Collect, Conclude, Close
  <2> QED BY <2>1, <2>2, <2>3, <2>4 DEF Loop
<1> QED BY <1>0, <1>1, <1>3, AnswerFrame, AnswerIdle DEF AttemptPC

\* What an action of a step leaves alone in the others; it takes the slot only
\* when nobody else's question is in it.
LEMMA InnerElsewhere ==
  ASSUME Inv, Exclusive, Answers, NEW t \in Steps, Inner(t), NEW s \in Steps, s # t
  PROVE  AnswerOf(s)'
<1>0. AnswerOf(s) /\ AnswerOf(t) /\ TypeOK /\ s # 0 /\ t # 0
  BY MetaAssumption DEF Answers, Inv, TypeInv, Steps
<1>1. /\ attempt'[s] = attempt[s] /\ inflight' = inflight /\ pc'[s] = pc[s]
      /\ body'[s] = body[s] /\ question'[s] = question[s]
      /\ timer'[s] = timer[s] /\ hold'[s] = hold[s] /\ resume'[s] = resume[s]
  <2> USE <1>0 DEF TypeOK, attemptVars, loopVars
  <2>1. CASE StepAction(t)
    BY <2>1 DEF StepAction, Spawn, Check, Start, BeginAttempt, Backoff, Recheck, Finish, Goto, Decide
  <2>2. CASE SelOut(t) \/ SelWait(t) \/ Forward(t) \/ SelResume(t) \/ SelTimer(t)
    BY <2>2 DEF SelOut, SelWait, Forward, SelResume, SelTimer, Goto
  <2>3. CASE SelDone(t) \/ DeliverIn(t) \/ DeliverOut(t) \/ Exit(t)
    BY <2>3 DEF SelDone, DeliverIn, DeliverOut, Exit, Goto, Decide
  <2>4. CASE Body(t)
    BY <2>4 DEF Body, BodyLine, BodyAsk, BodyExit, BodyExitUnasked, StepVars
  <2> QED BY <2>1, <2>2, <2>3, <2>4 DEF Inner, SelectAction
<1>2. slot' = s <=> slot = s
  <2>1. CASE SelWait(t)
    <3>1. pc[t] = "select" /\ body[t] = "ask" /\ Kind[t] # "auto" /\ slot' \in {slot, t}
      BY <1>0, <2>1 DEF SelWait, AnswerOf
    <3>2. slot = s => pc[s] \in AttemptPC
      BY <1>0 DEF AnswerOf, Waits
    <3>3. slot # s
      BY <3>1, <3>2 DEF Exclusive, Live, AttemptPC
    <3> QED BY <3>1, <3>3
  <2>2. CASE SelDone(t) \/ Exit(t)
    BY <1>0, <2>2 DEF SelDone, Exit
  <2>3. CASE ~SelWait(t) /\ ~SelDone(t) /\ ~Exit(t)
    <3>1. slot' = slot
      BY <2>3 DEF Inner, StepAction, Spawn, Check, Start, BeginAttempt, Backoff, Recheck, Finish,
         SelectAction, SelOut, Forward, SelResume, SelTimer, DeliverIn, DeliverOut,
         Body, BodyLine, BodyAsk, BodyExit, BodyExitUnasked, StepVars
    <3> QED BY <3>1
  <2> QED BY <2>1, <2>2, <2>3
<1> QED BY <1>0, <1>1, <1>2, AnswerFrame

\* How the actions of an attempt move its own answer.
LEMMA InnerHere ==
  ASSUME TypeOK, NEW s \in Steps, AnswerOf(s), Inner(s)
  PROVE  AnswerOf(s)'
<1>0. /\ s # 0 /\ attempt[s] \in Nat
      /\ pc \in [Steps -> PCs] /\ attempt \in [Steps -> Nat] /\ inflight \in Flights
      /\ body \in [Steps -> {"none", "run", "line", "ask", "await", "ok", "err"}]
      /\ question \in [Steps -> {"none", "open", "answered", "refused"}]
      /\ timer \in [Steps -> {"none", "armed", "paused", "spent"}]
      /\ hold \in [Steps -> Results \cup {"none"}]
      /\ resume \in [Steps -> Results \cup {"none"}]
      /\ "none" \notin Results
  BY MetaAssumption DEF TypeOK, Steps, Results
<1> USE <1>0
<1>1. CASE Spawn(s) \/ Check(s) \/ Start(s) \/ Backoff(s) \/ Recheck(s) \/ Finish(s)
  <2>1. /\ slot' = slot /\ inflight' = inflight
        /\ UNCHANGED <<attempt, body, question, timer, hold, resume>>
    BY <1>1 DEF Spawn, Check, Start, Backoff, Recheck, Finish, attemptVars
  <2>2. pc[s] \notin AttemptPC /\ pc'[s] \notin AttemptPC
    BY <1>1 DEF Spawn, Check, Start, Backoff, Recheck, Finish, Goto, Decide, AttemptPC
  <2> QED BY <2>1, <2>2, AnswerIdle
<1>2. CASE BeginAttempt(s)
  <2>1. /\ pc[s] = "attempt" /\ pc'[s] = "select" /\ attempt'[s] = attempt[s] + 1
        /\ body'[s] = "run" /\ question'[s] = "none" /\ hold'[s] = "none" /\ resume'[s] = "none"
        /\ slot' = slot /\ inflight' = inflight
    BY <1>2 DEF BeginAttempt, Goto
  <2>2. slot # s
    BY <2>1 DEF AnswerOf, Waits, AttemptPC
  <2>3. inflight.step = s => inflight.attempt \in Nat /\ inflight.attempt <= attempt[s]
    BY DEF AnswerOf, Flights, NoFlight
  <2>4. ~Flying(s)'
    BY <2>1, <2>3 DEF Flying
  <2> QED BY <2>1, <2>2, <2>3, <2>4 DEF AnswerOf, Waits, AttemptPC
<1>3. CASE SelOut(s)
  BY <1>3 DEF SelOut, Goto, AnswerOf, Waits, Flying, AttemptPC
<1>4. CASE SelWait(s)
  BY <1>4 DEF SelWait, Goto, AnswerOf, Waits, Flying, AttemptPC
<1>5. CASE Forward(s)
  BY <1>5 DEF Forward, Goto, AnswerOf, Waits, Flying, AttemptPC, Results
<1>6. CASE SelResume(s)
  <2>1. /\ pc[s] = "select" /\ resume[s] # "none" /\ pc'[s] = "deliver"
        /\ hold'[s] = resume[s] /\ resume'[s] = "none" /\ slot' = slot /\ inflight' = inflight
        /\ UNCHANGED <<attempt, body, question>>
    BY <1>6 DEF SelResume, Goto
  <2> QED BY <2>1 DEF AnswerOf, Waits, Flying, AttemptPC
<1>7. CASE SelTimer(s)
  BY <1>7 DEF SelTimer, AnswerOf, Waits, Flying, AttemptPC
<1>8. CASE SelDone(s)
  BY <1>8 DEF SelDone, Goto, AnswerOf, Waits, Flying, AttemptPC, Results
<1>9. CASE DeliverIn(s)
  BY <1>9 DEF DeliverIn, Goto, AnswerOf, Waits, Flying, AttemptPC
<1>10. CASE DeliverOut(s)
  BY <1>10 DEF DeliverOut, Goto, AnswerOf, Waits, Flying, AttemptPC
<1>11. CASE Exit(s)
  <2>1. /\ pc[s] \in AttemptPC /\ pc'[s] \in {"finish", "backoff"} /\ slot' # s
        /\ body'[s] = "none" /\ hold'[s] = "none" /\ resume'[s] = "none"
        /\ UNCHANGED <<attempt, question, inflight>>
    BY <1>11 DEF Exit, Goto, Decide, AttemptPC
  <2> QED BY <2>1 DEF AnswerOf, Waits, Flying, AttemptPC
<1>12. CASE Body(s)
  <2>1. /\ slot' = slot /\ inflight' = inflight
        /\ UNCHANGED <<pc, attempt, question, timer, hold, resume>>
    BY <1>12 DEF Body, BodyLine, BodyAsk, BodyExit, BodyExitUnasked, StepVars
  <2>2. \/ body[s] \in {"run", "await"} /\ body'[s] \in {"line", "ok", "err"}
        \/ body[s] = "run" /\ body'[s] = "ask" /\ Kind[s] # "auto"
    BY <1>12 DEF Body, BodyLine, BodyAsk, BodyExit, BodyExitUnasked
  <2> QED BY <2>1, <2>2 DEF AnswerOf, Waits, Flying, AttemptPC
<1> QED
  BY <1>1, <1>2, <1>3, <1>4, <1>5, <1>6, <1>7, <1>8, <1>9, <1>10, <1>11, <1>12
     DEF Inner, StepAction, SelectAction

\* The consumer takes a question from the slot and puts its answer where the
\* attempt that asked will read it.
LEMMA AnswerConsumer ==
  ASSUME TypeOK, Answers, Consumer \/ Cancel \/ Terminated \/ UNCHANGED vars
  PROVE  Answers'
<1> SUFFICES ASSUME NEW s \in Steps PROVE AnswerOf(s)'
  BY DEF Answers
<1>0. /\ AnswerOf(s) /\ s # 0 /\ attempt[s] \in Nat /\ inflight \in Flights
      /\ resume \in [Steps -> Results \cup {"none"}] /\ "none" \notin Results
  BY MetaAssumption DEF Answers, TypeOK, Steps, Results
<1>1. CASE Receive \/ (\E r \in Results : ResumeRefused(r)) \/ Cancel \/ Terminated \/ UNCHANGED vars
  <2>1. /\ slot' = slot /\ inflight' = inflight
        /\ UNCHANGED <<pc, attempt, body, question, timer, hold, resume>>
    BY <1>1 DEF Receive, ResumeRefused, Cancel, Terminated, vars, attemptVars
  <2> QED BY <1>0, <2>1, AnswerFrame
<1>2. ASSUME NEW r \in Results, ResumeTake(r) PROVE AnswerOf(s)'
  <2>1. /\ inflight = NoFlight /\ slot' = 0 /\ slot # 0
        /\ inflight' = [step |-> slot, attempt |-> attempt[slot], r |-> r]
        /\ UNCHANGED <<pc, attempt, body, question, timer, hold, resume>>
    BY <1>2 DEF ResumeTake, attemptVars
  <2>2. ~Flying(s)
    BY <1>0, <2>1 DEF Flying, NoFlight
  <2>3. CASE slot = s
    BY <1>0, <2>1, <2>2, <2>3 DEF AnswerOf, Waits, Flying
  <2>4. CASE slot # s
    <3>1. ~Flying(s)' /\ slot' # s /\ inflight'.step # s
      BY <1>0, <2>1, <2>4 DEF Flying
    <3> QED BY <1>0, <2>1, <2>2, <2>4, <3>1 DEF AnswerOf, Waits
  <2> QED BY <2>3, <2>4
<1>3. CASE ResumeSend
  <2>1. /\ inflight # NoFlight /\ inflight' = NoFlight /\ slot' = slot
        /\ UNCHANGED <<pc, attempt, body, question, timer, hold>>
    BY <1>3 DEF ResumeSend, attemptVars
  <2>2. inflight.r \in Results /\ inflight.step \in Steps
    BY <1>0, <2>1 DEF Flights
  <2>3. ~Flying(s)' /\ inflight'.step # s
    BY <1>0, <2>1 DEF Flying, NoFlight
  <2>4. CASE Flying(s)
    <3>1. resume'[s] = inflight.r
      BY <1>0, <1>3, <2>2, <2>4 DEF ResumeSend, Flying
    <3> QED BY <1>0, <2>1, <2>2, <2>3, <2>4, <3>1 DEF AnswerOf, Waits
  <2>5. CASE ~Flying(s)
    <3>1. resume'[s] = resume[s]
      BY <1>0, <1>3, <2>2, <2>5 DEF ResumeSend, Flying
    <3> QED BY <1>0, <2>1, <2>3, <2>5, <3>1 DEF AnswerOf, Waits
  <2> QED BY <2>4, <2>5
<1> QED BY <1>1, <1>2, <1>3 DEF Consumer

LEMMA NextAnswers == Inv /\ Exclusive /\ Answers /\ [Next]_vars => Answers'
<1> SUFFICES ASSUME Inv, Exclusive, Answers, [Next]_vars PROVE Answers'
  OBVIOUS
<1>1. TypeOK
  BY DEF Inv, TypeInv
<1>2. ASSUME NEW t \in Steps, Inner(t) PROVE Answers'
  BY <1>1, <1>2, InnerHere, InnerElsewhere DEF Answers
<1> QED BY <1>1, <1>2, AnswerLoop, AnswerConsumer DEF Next, Inner

-----------------------------------------------------------------------------
(* Appending to the channel and taking its head.                             *)

LEMMA FreeAppend ==
  ASSUME NEW q \in Seq(Events), NEW e \in Events, NEW E, e \notin E, Free(q, E)
  PROVE  Free(Append(q, e), E)
BY DEF Free

LEMMA EndsAppend ==
  ASSUME NEW q \in Seq(Events), NEW e \in Events, NEW E, NEW F, e \notin E, Ends(q, E, F)
  PROVE  Ends(Append(q, e), E, F)
<1>1. PICK i \in 1..Len(q) : q[i] \in F /\ \A j \in 1..Len(q) : j > i => q[j] \notin E
  BY DEF Ends
<1>2. /\ Len(Append(q, e)) = Len(q) + 1 /\ Append(q, e)[Len(q) + 1] = e
      /\ \A j \in 1..Len(q) : Append(q, e)[j] = q[j]
  OBVIOUS
<1> QED BY <1>1, <1>2 DEF Ends

LEMMA EndsNew ==
  ASSUME NEW q \in Seq(Events), NEW e \in Events, NEW E, NEW F, e \in F
  PROVE  Ends(Append(q, e), E, F)
<1>1. Len(Append(q, e)) = Len(q) + 1 /\ Append(q, e)[Len(q) + 1] = e /\ Len(q) \in Nat
  OBVIOUS
<1> QED BY <1>1 DEF Ends

LEMMA FreeTail ==
  ASSUME NEW q \in Seq(Events), q # <<>>, NEW E, Free(q, E)
  PROVE  Head(q) \notin E /\ Free(Tail(q), E)
<1>1. /\ Head(q) = q[1] /\ Len(q) \in Nat /\ Len(q) >= 1 /\ Len(Tail(q)) = Len(q) - 1
      /\ \A j \in 1..(Len(q) - 1) : Tail(q)[j] = q[j + 1]
  OBVIOUS
<1> QED BY <1>1 DEF Free

LEMMA EndsTail ==
  ASSUME NEW q \in Seq(Events), q # <<>>, NEW E, NEW F, Ends(q, E, F)
  PROVE  Ends(Tail(q), E, F) \/ (Head(q) \in F /\ Free(Tail(q), E))
<1>1. /\ Head(q) = q[1] /\ Len(q) \in Nat /\ Len(q) >= 1 /\ Len(Tail(q)) = Len(q) - 1
      /\ \A j \in 1..(Len(q) - 1) : Tail(q)[j] = q[j + 1]
  OBVIOUS
<1>2. PICK i \in 1..Len(q) : q[i] \in F /\ \A j \in 1..Len(q) : j > i => q[j] \notin E
  BY DEF Ends
<1>3. CASE i = 1
  BY <1>1, <1>2, <1>3 DEF Free
<1>4. CASE i # 1
  <2>1. i - 1 \in 1..Len(Tail(q)) /\ Tail(q)[i - 1] = q[i]
    BY <1>1, <1>4
  <2>2. ASSUME NEW j \in 1..Len(Tail(q)), j > i - 1 PROVE Tail(q)[j] \notin E
    BY <1>1, <1>2, <2>2
  <2> QED BY <1>2, <2>1, <2>2 DEF Ends
<1> QED BY <1>3, <1>4

\* What one step, or the end of the run, does to the channel.
Says(k, s) == events' = Append(events, [kind |-> k, step |-> s]) \/ (ctx /\ events' = events)

LEMMA EmitSays == ASSUME NEW k, NEW s, Emit(k, s) PROVE Says(k, s)
BY DEF Emit, Says

LEMMA EventIs ==
  ASSUME NEW k \in EventKinds, NEW t \in 0..N
  PROVE  /\ [kind |-> k, step |-> t] \in Events
         /\ \A s \in Steps : s # t => [kind |-> k, step |-> t] \notin Of(s)
         /\ k \in Outcomes => [kind |-> k, step |-> t] \in Finals(t)
         /\ k # "waiting" => [kind |-> k, step |-> t] \notin Prompts
         /\ k = "waiting" => [kind |-> k, step |-> t] \in PromptsOf(t)
BY DEF Events, Of, Finals, Prompts, PromptsOf

LEMMA RowFrame ==
  ASSUME NEW s \in Steps, RowOf(s), ctx' = ctx, view' = view, events' = events,
         pc'[s] = pc[s] \/ pc'[s] # "settled"
  PROVE  RowOf(s)'
BY DEF RowOf

\* Someone else's event, or the event of a step that has not settled.
LEMMA RowSays ==
  ASSUME TypeOK, NEW s \in Steps, RowOf(s), ctx' = ctx, view' = view,
         NEW k \in EventKinds, NEW t \in 0..N, Says(k, t),
         (s # t /\ pc'[s] = pc[s]) \/ pc'[s] # "settled" \/ (s = t /\ k \in Outcomes)
  PROVE  RowOf(s)'
<1>1. events \in Seq(Events)
  BY DEF TypeOK
<1>2. CASE ctx \/ pc'[s] # "settled"
  BY <1>2 DEF RowOf
<1>3. CASE ~ctx /\ s = t /\ k \in Outcomes
  <2>1. events' = Append(events, [kind |-> k, step |-> t])
    BY <1>3 DEF Says
  <2>2. [kind |-> k, step |-> t] \in Events /\ [kind |-> k, step |-> t] \in Finals(s)
    BY <1>3, EventIs
  <2>3. Ends(events', Of(s), Finals(s))
    BY <1>1, <2>1, <2>2, EndsNew
  <2>4. Ends(events, Of(s), Finals(s))'
    BY <2>3 DEF Ends, Of, Finals
  <2> QED BY <2>4 DEF RowOf
<1>4. CASE ~ctx /\ pc'[s] = "settled" /\ s # t /\ pc'[s] = pc[s]
  <2>1. events' = Append(events, [kind |-> k, step |-> t])
    BY <1>4 DEF Says
  <2>2. [kind |-> k, step |-> t] \in Events /\ [kind |-> k, step |-> t] \notin Of(s)
    BY <1>4, EventIs
  <2>3. Free(events, Of(s)) => Free(events', Of(s))
    BY <1>1, <2>1, <2>2, FreeAppend
  <2>4. Ends(events, Of(s), Finals(s)) => Ends(events', Of(s), Finals(s))
    BY <1>1, <2>1, <2>2, EndsAppend
  <2>5. /\ Free(events', Of(s)) => Free(events, Of(s))'
        /\ Ends(events', Of(s), Finals(s)) => Ends(events, Of(s), Finals(s))'
    BY DEF Free, Ends, Of, Finals
  <2> QED BY <1>4, <2>3, <2>4, <2>5 DEF RowOf
<1> QED BY <1>2, <1>3, <1>4

\* The four ways an action of a step touches what the consumer sees.
Quiet(t)  == /\ events' = events
             /\ pc'[t] = pc[t] \/ pc'[t] # "settled" \/ ctx
             /\ pc[t] = "fwdWait" => pc'[t] = "fwdWait"
Tells(t)  == /\ Says("started", t) \/ Says("line", t)
             /\ pc[t] # "fwdWait" /\ pc'[t] # "settled"
Prompting(t) == /\ Says("waiting", t) /\ pc[t] \in {"fwdWait", "fwdCancel"}
                /\ pc'[t] # "settled"
Reports(t) == Says(st[t], t) /\ st[t] \in Outcomes /\ pc[t] = "finish" /\ pc'[t] = "settled"

LEMMA InnerSays ==
  ASSUME TypeInv, NEW t \in Steps, Inner(t)
  PROVE  /\ UNCHANGED <<ctx, view, prompt>>
         /\ \A s \in Steps : s # t => pc'[s] = pc[s]
         /\ Quiet(t) \/ Tells(t) \/ Prompting(t) \/ Reports(t)
         /\ slot' \in {0, slot} \/ (slot' = t /\ pc'[t] = "fwdWait")
<1> DEFINE Told == Quiet(t) \/ Tells(t) \/ Prompting(t) \/ Reports(t)
           Slotted == slot' \in {0, slot} \/ (slot' = t /\ pc'[t] = "fwdWait")
<1>0. pc \in [Steps -> PCs] /\ st \in [Steps -> Outcomes \cup {"none"}]
  BY DEF TypeInv, TypeOK
<1> USE <1>0
<1>1. CASE Start(t)
  <2>1. Emit("started", t) /\ pc[t] = "start" /\ pc'[t] = "attempt" /\ slot' = slot
    BY <1>1 DEF Start, Goto
  <2>2. Says("started", t)
    BY <2>1, EmitSays
  <2>3. Told /\ Slotted
    BY <2>1, <2>2 DEF Tells
  <2> QED BY <1>1, <2>3 DEF Start, Goto, clientVars
<1>2. CASE Finish(t)
  <2>1. Emit(st[t], t) /\ pc[t] = "finish" /\ pc'[t] = "settled" /\ slot' = slot
    BY <1>2 DEF Finish, Goto
  <2>2. Says(st[t], t)
    BY <2>1, EmitSays
  <2>3. st[t] \in Outcomes
    BY <2>1 DEF TypeInv, Decided
  <2>4. Told /\ Slotted
    BY <2>1, <2>2, <2>3 DEF Reports
  <2> QED BY <1>2, <2>4 DEF Finish, Goto, clientVars
<1>3. CASE Forward(t)
  <2>1. pc'[t] \in {"select", "deliver"} /\ slot' = slot
    BY <1>3 DEF Forward, Goto
  <2>2. \/ pc[t] \in {"fwdLine", "dfwd"} /\ Emit("line", t)
        \/ pc[t] \in {"fwdWait", "fwdCancel"} /\ Emit("waiting", t)
    BY <1>3 DEF Forward
  <2>3. Told /\ Slotted
    BY <2>1, <2>2, EmitSays DEF Tells, Prompting
  <2> QED BY <1>3, <2>3 DEF Forward, Goto, clientVars
<1>4. CASE Spawn(t) \/ Check(t) \/ BeginAttempt(t) \/ Backoff(t) \/ Recheck(t)
  <2>1. Quiet(t) /\ Slotted
    BY <1>4 DEF Quiet, Spawn, Check, BeginAttempt, Backoff, Recheck, Goto, Decide
  <2> QED BY <1>4, <2>1 DEF Spawn, Check, BeginAttempt, Backoff, Recheck, Goto, Decide, clientVars
<1>5. CASE SelOut(t) \/ SelResume(t) \/ SelTimer(t) \/ SelDone(t) \/ DeliverIn(t) \/ DeliverOut(t)
           \/ Exit(t)
  <2>1. Quiet(t) /\ Slotted
    BY <1>5 DEF Quiet, SelOut, SelResume, SelTimer, SelDone, DeliverIn, DeliverOut, Exit, Goto, Decide
  <2> QED BY <1>5, <2>1 DEF SelOut, SelResume, SelTimer, SelDone, DeliverIn, DeliverOut, Exit,
             Goto, Decide, clientVars
<1>6. CASE SelWait(t)
  <2>1. Quiet(t) /\ Slotted
    BY <1>6 DEF Quiet, SelWait, Goto
  <2> QED BY <1>6, <2>1 DEF SelWait, Goto, clientVars
<1>7. CASE Body(t)
  BY <1>7 DEF Quiet, Body, BodyLine, BodyAsk, BodyExit, BodyExitUnasked, StepVars, clientVars
<1> QED BY <1>1, <1>2, <1>3, <1>4, <1>5, <1>6, <1>7 DEF Inner, StepAction, SelectAction

LEMMA RowsInner ==
  ASSUME TypeInv, Rows, NEW t \in Steps, Inner(t), NEW s \in Steps
  PROVE  RowOf(s)'
<1>0. RowOf(s) /\ TypeOK /\ t \in 0..N
  BY MetaAssumption DEF Rows, TypeInv, Steps
<1>1. /\ UNCHANGED <<ctx, view, prompt>>
      /\ s # t => pc'[s] = pc[s]
      /\ Quiet(t) \/ Tells(t) \/ Prompting(t) \/ Reports(t)
  BY InnerSays
<1>2. CASE Quiet(t)
  <2>1. CASE ctx
    BY <1>1, <2>1 DEF RowOf
  <2>2. CASE ~ctx
    BY <1>0, <1>1, <1>2, <2>2, RowFrame DEF Quiet
  <2> QED BY <2>1, <2>2
<1>3. ASSUME NEW k \in EventKinds, Says(k, t), pc'[t] # "settled" \/ k \in Outcomes PROVE RowOf(s)'
  BY <1>0, <1>1, <1>3, RowSays
<1>4. CASE Tells(t) \/ Prompting(t)
  BY <1>3, <1>4 DEF Tells, Prompting, EventKinds
<1>5. CASE Reports(t)
  BY <1>3, <1>5 DEF Reports, EventKinds
<1> QED BY <1>1, <1>2, <1>4, <1>5

LEMMA RowsLoop ==
  ASSUME Inv, Rows, Loop, NEW s \in Steps
  PROVE  RowOf(s)'
<1>0. RowOf(s) /\ TypeOK /\ s # 0 /\ 0 \in 0..N /\ pc \in [Steps -> PCs]
  BY MetaAssumption DEF Rows, Inv, TypeInv, TypeOK, Steps
<1>1. CASE Close
  <2> DEFINE k == IF ret = "ok" THEN "end" ELSE "endFailed"
  <2>1. k \in EventKinds /\ Emit(k, 0) /\ ctx' = ctx /\ view' = view /\ pc' = pc
    BY <1>1 DEF Close, clientVars, EventKinds
  <2> HIDE DEF k
  <2>2. Says(k, 0)
    BY <2>1, EmitSays
  <2> QED BY <1>0, <2>1, <2>2, RowSays
<1>2. CASE ~Close
  <2>1. ctx' = ctx /\ view' = view /\ events' = events
    BY <1>2 DEF Loop, StopOnCancel, SkipBlocked, RunOne, RunBatch, Collect, Conclude, clientVars
  <2>2. pc'[s] = pc[s] \/ pc'[s] # "settled"
    BY <1>0, <1>2 DEF Loop, StopOnCancel, SkipBlocked, RunOne, RunBatch, Collect, Conclude, Decide, Goto
  <2> QED BY <1>0, <2>1, <2>2, RowFrame
<1> QED BY <1>1, <1>2

LEMMA RowsConsumer ==
  ASSUME TypeOK, Rows, Consumer \/ Cancel \/ Terminated \/ UNCHANGED vars, NEW s \in Steps
  PROVE  RowOf(s)'
<1>0. RowOf(s) /\ events \in Seq(Events) /\ view \in [Steps -> {"pending", "active", "final"}]
  BY DEF Rows, TypeOK
<1>1. CASE Receive
  <2>1. /\ events # <<>> /\ events' = Tail(events) /\ ctx' = ctx /\ pc' = pc
        /\ Head(events) \in Events
    BY <1>0, <1>1 DEF Receive
  <2>2. Head(events) \notin Of(s) => view'[s] = view[s]
    BY <1>0, <1>1, <2>1 DEF Receive, Of, Events, Steps
  <2>3. Head(events) \in Finals(s) => view'[s] = "final"
    BY <1>0, <1>1, <2>1 DEF Receive, Finals, Row, Steps
  <2>4. CASE view[s] = "final" /\ Free(events, Of(s))
    BY <1>0, <2>1, <2>2, <2>4, FreeTail DEF RowOf, Free, Of
  <2>5. CASE Ends(events, Of(s), Finals(s))
    <3>1. \/ Ends(Tail(events), Of(s), Finals(s))
          \/ Head(events) \in Finals(s) /\ Free(Tail(events), Of(s))
      BY <1>0, <2>1, <2>5, EndsTail
    <3>2. /\ Ends(Tail(events), Of(s), Finals(s)) => Ends(events, Of(s), Finals(s))'
          /\ Free(Tail(events), Of(s)) => Free(events, Of(s))'
      BY <2>1 DEF Ends, Free, Of, Finals
    <3> QED BY <2>3, <3>1, <3>2 DEF RowOf
  <2>6. CASE pc[s] # "settled" \/ ctx
    BY <2>1, <2>6 DEF RowOf
  <2> QED BY <1>0, <2>4, <2>5, <2>6 DEF RowOf
<1>2. CASE Cancel
  BY <1>2 DEF Cancel, RowOf
<1>3. CASE ~Receive /\ ~Cancel
  <2>1. ctx' = ctx /\ view' = view /\ events' = events /\ pc' = pc
    BY <1>3 DEF Consumer, ResumeTake, ResumeRefused, ResumeSend, Terminated, vars, clientVars
  <2> QED BY <1>0, <2>1, RowFrame
<1> QED BY <1>1, <1>2, <1>3

LEMMA NextRows == Inv /\ Rows /\ [Next]_vars => Rows'
<1> SUFFICES ASSUME Inv, Rows, [Next]_vars, NEW s \in Steps PROVE RowOf(s)'
  BY DEF Rows
<1>1. TypeInv /\ TypeOK
  BY DEF Inv, TypeInv
<1> QED BY <1>1, RowsInner, RowsLoop, RowsConsumer DEF Next, Inner

-----------------------------------------------------------------------------
(* The prompt.                                                               *)

LEMMA PromptFrame ==
  ASSUME Prompted, ctx' = ctx, prompt' = prompt, events' = events, slot' \in {0, slot},
         slot # 0 => (pc[slot] = "fwdWait" => pc'[slot] = "fwdWait")
  PROVE  Prompted'
BY DEF Prompted

\* An event that is no prompt leaves the last prompt the last.
LEMMA PromptSays ==
  ASSUME TypeOK, Prompted, ctx' = ctx, prompt' = prompt, slot' \in {0, slot},
         slot # 0 => (pc[slot] = "fwdWait" => pc'[slot] = "fwdWait"),
         NEW k \in EventKinds \ {"waiting"}, NEW t \in 0..N, Says(k, t)
  PROVE  Prompted'
<1>1. CASE events' = events
  BY <1>1, PromptFrame
<1>2. CASE events' = Append(events, [kind |-> k, step |-> t])
  <2>1. /\ [kind |-> k, step |-> t] \in Events /\ [kind |-> k, step |-> t] \notin Prompts
        /\ events \in Seq(Events)
    BY EventIs DEF TypeOK
  <2>2. Free(events, Prompts) => Free(events', Prompts)
    BY <1>2, <2>1, FreeAppend
  <2>3. Ends(events, Prompts, PromptsOf(slot)) => Ends(events', Prompts, PromptsOf(slot))
    BY <1>2, <2>1, EndsAppend
  <2>4. CASE slot' = 0
    BY <2>4 DEF Prompted
  <2>5. CASE slot' = slot /\ slot # 0
    <3>1. /\ Free(events', Prompts) => Free(events, Prompts)'
          /\ Ends(events', Prompts, PromptsOf(slot)) => Ends(events, Prompts, PromptsOf(slot))'
      BY <2>5 DEF Free, Ends, Prompts, PromptsOf
    <3> QED BY <2>2, <2>3, <2>5, <3>1 DEF Prompted
  <2> QED BY <2>4, <2>5
<1> QED BY <1>1, <1>2 DEF Says

\* Nobody else prompts while a question stands, and the step that asked does it
\* right after it took the slot.
LEMMA PromptedInner ==
  ASSUME Inv, Exclusive, Answers, Prompted, NEW t \in Steps, Inner(t)
  PROVE  Prompted'
<1>0. TypeInv /\ TypeOK /\ t \in 0..N /\ events \in Seq(Events) /\ slot \in 0..N
  BY MetaAssumption DEF Inv, TypeInv, TypeOK, Steps
<1>1. /\ UNCHANGED <<ctx, view, prompt>>
      /\ \A s \in Steps : s # t => pc'[s] = pc[s]
      /\ Quiet(t) \/ Tells(t) \/ Prompting(t) \/ Reports(t)
      /\ slot' \in {0, slot} \/ (slot' = t /\ pc'[t] = "fwdWait")
  BY <1>0, InnerSays
<1>2. CASE slot' = t /\ pc'[t] = "fwdWait"
  BY <1>2 DEF Prompted
<1>3. CASE slot' = 0
  BY <1>3 DEF Prompted
<1>4. CASE slot' = slot /\ slot # 0
  <2>0. slot \in Steps
    BY <1>0, <1>4, MetaAssumption DEF Steps
  <2>1. slot # t => pc'[slot] = pc[slot]
    BY <1>1, <2>0
  <2>2. CASE Quiet(t)
    BY <1>1, <1>4, <2>1, <2>2, PromptFrame DEF Quiet
  <2>3. ASSUME NEW k \in EventKinds \ {"waiting"}, Says(k, t), pc[t] # "fwdWait" PROVE Prompted'
    BY <1>0, <1>1, <1>4, <2>1, <2>3, PromptSays
  <2>4. CASE Tells(t)
    BY <2>3, <2>4 DEF Tells, EventKinds
  <2>5. CASE Reports(t)
    BY <2>3, <2>5 DEF Reports, EventKinds, Outcomes
  <2>6. CASE Prompting(t)
    <3>1. AnswerOf(slot) /\ AnswerOf(t)
      BY <2>0 DEF Answers
    <3>2. pc[slot] \in AttemptPC /\ Kind[slot] # "auto" /\ pc[slot] # "fwdCancel"
      BY <3>1 DEF AnswerOf, Waits
    <3>3. slot = t
      BY <2>0, <2>6, <3>2 DEF Exclusive, Live, AttemptPC, Prompting
    <3>4. CASE ctx
      BY <1>1, <3>4 DEF Prompted
    <3>5. CASE ~ctx
      <4>1. events' = Append(events, [kind |-> "waiting", step |-> t])
        BY <2>6, <3>5 DEF Prompting, Says
      <4>2. /\ [kind |-> "waiting", step |-> t] \in Events
            /\ [kind |-> "waiting", step |-> t] \in PromptsOf(t)
        BY <1>0, EventIs DEF EventKinds
      <4>3. Ends(events', Prompts, PromptsOf(t))
        BY <1>0, <4>1, <4>2, EndsNew
      <4>4. Ends(events, Prompts, PromptsOf(slot))'
        BY <1>4, <3>3, <4>3 DEF Ends, Prompts, PromptsOf
      <4> QED BY <4>4 DEF Prompted
    <3> QED BY <3>4, <3>5
  <2> QED BY <1>1, <2>2, <2>4, <2>5, <2>6
<1> QED BY <1>1, <1>2, <1>3, <1>4

LEMMA PromptedLoop ==
  ASSUME Inv, Answers, Prompted, Loop
  PROVE  Prompted'
<1>0. /\ TypeOK /\ 0 \in 0..N /\ pc \in [Steps -> PCs] /\ cur \in Nat /\ hi \in Nat
      /\ slot # 0 => slot \in Steps /\ slot \in Nat
  BY MetaAssumption DEF Inv, TypeInv, TypeOK, Steps
<1>1. ctx' = ctx /\ prompt' = prompt /\ slot' = slot
  BY DEF Loop, StopOnCancel, SkipBlocked, RunOne, RunBatch, Collect, Conclude, Close, clientVars
<1>2. slot # 0 => pc'[slot] = pc[slot]
  <2> SUFFICES ASSUME slot # 0 PROVE pc'[slot] = pc[slot]
    OBVIOUS
  <2>1. pc[slot] # "idle"
    BY <1>0 DEF Answers, AnswerOf, Waits, AttemptPC
  <2>2. slot < hi
    BY <1>0, <2>1 DEF Inv, Control, Cut
  <2> QED BY <1>0, <2>2 DEF Loop, StopOnCancel, SkipBlocked, RunOne, RunBatch, Collect, Conclude,
             Close, AtLoopTop, Decide, Goto
<1>3. CASE Close
  <2> DEFINE k == IF ret = "ok" THEN "end" ELSE "endFailed"
  <2>1. k \in EventKinds \ {"waiting"} /\ Emit(k, 0)
    BY <1>3 DEF Close, EventKinds
  <2> HIDE DEF k
  <2>2. Says(k, 0)
    BY <2>1, EmitSays
  <2> QED BY <1>0, <1>1, <1>2, <2>1, <2>2, PromptSays
<1>4. CASE ~Close
  <2>1. events' = events
    BY <1>4 DEF Loop, StopOnCancel, SkipBlocked, RunOne, RunBatch, Collect, Conclude
  <2> QED BY <1>1, <1>2, <2>1, PromptFrame
<1> QED BY <1>3, <1>4

LEMMA PromptedConsumer ==
  ASSUME TypeOK, Prompted, Consumer \/ Cancel \/ Terminated \/ UNCHANGED vars
  PROVE  Prompted'
<1>0. events \in Seq(Events)
  BY DEF TypeOK
<1>1. CASE Receive
  <2>1. /\ events # <<>> /\ events' = Tail(events) /\ ctx' = ctx /\ pc' = pc /\ slot' = slot
        /\ Head(events) \in Events
        /\ prompt' = IF Head(events).kind = "waiting" THEN Head(events).step ELSE prompt
    BY <1>0, <1>1 DEF Receive
  <2>2. CASE prompt = slot /\ Free(events, Prompts)
    <3>1. Head(events) \notin Prompts /\ Free(Tail(events), Prompts)
      BY <1>0, <2>1, <2>2, FreeTail
    <3>2. prompt' = slot' /\ Free(events, Prompts)'
      BY <2>1, <2>2, <3>1 DEF Free, Prompts
    <3> QED BY <3>2 DEF Prompted
  <2>3. CASE Ends(events, Prompts, PromptsOf(slot))
    <3>1. \/ Ends(Tail(events), Prompts, PromptsOf(slot))
          \/ Head(events) \in PromptsOf(slot) /\ Free(Tail(events), Prompts)
      BY <1>0, <2>1, <2>3, EndsTail
    <3>2. /\ Ends(Tail(events), Prompts, PromptsOf(slot)) => Ends(events, Prompts, PromptsOf(slot))'
          /\ Free(Tail(events), Prompts) => Free(events, Prompts)'
      BY <2>1 DEF Ends, Free, Prompts, PromptsOf
    <3>3. Head(events) \in PromptsOf(slot) => prompt' = slot'
      BY <2>1 DEF PromptsOf
    <3> QED BY <3>1, <3>2, <3>3 DEF Prompted
  <2>4. CASE slot = 0 \/ ctx \/ pc[slot] = "fwdWait"
    BY <2>1, <2>4 DEF Prompted
  <2> QED BY <2>2, <2>3, <2>4 DEF Prompted
<1>2. CASE Cancel
  BY <1>2 DEF Cancel, Prompted
<1>3. ASSUME NEW r \in Results, ResumeRefused(r) PROVE Prompted'
  <2>1. slot # prompt /\ UNCHANGED <<ctx, pc, slot, events>>
    BY <1>3 DEF ResumeRefused
  <2>2. Ends(events, Prompts, PromptsOf(slot)) => Ends(events, Prompts, PromptsOf(slot))'
    BY <2>1 DEF Ends, Prompts, PromptsOf
  <2> QED BY <2>1, <2>2 DEF Prompted
<1>4. ASSUME NEW r \in Results, ResumeTake(r) PROVE Prompted'
  BY <1>4 DEF ResumeTake, Prompted
<1>5. CASE ResumeSend \/ Terminated \/ UNCHANGED vars
  <2>1. UNCHANGED <<ctx, pc, slot, events, prompt>>
    BY <1>5 DEF ResumeSend, Terminated, vars, clientVars
  <2> QED BY <2>1, PromptFrame
<1> QED BY <1>1, <1>2, <1>3, <1>4, <1>5 DEF Consumer

LEMMA NextPrompted == Inv /\ Exclusive /\ Answers /\ Prompted /\ [Next]_vars => Prompted'
<1> SUFFICES ASSUME Inv, Exclusive, Answers, Prompted, [Next]_vars PROVE Prompted'
  OBVIOUS
<1>1. TypeOK
  BY DEF Inv, TypeInv
<1> QED BY <1>1, PromptedInner, PromptedLoop, PromptedConsumer DEF Next, Inner

LEMMA NextEnded == Inv /\ Ended /\ [Next]_vars => Ended'
<1> SUFFICES ASSUME Inv, Ended, [Next]_vars PROVE Ended'
  OBVIOUS
<1>1. ASSUME NEW s \in Steps, Inner(s) PROVE Ended'
  <2>1. UNCHANGED <<cur, ret, ctx>>
    BY <1>1, Shape DEF Inv
  <2>2. closed' = closed
    BY <1>1 DEF Inner, StepAction, Spawn, Check, Start, BeginAttempt, Backoff, Recheck, Finish,
       SelectAction, SelOut, SelWait, Forward, SelResume, SelTimer, SelDone, DeliverIn, DeliverOut,
       Exit, Body, BodyLine, BodyAsk, BodyExit, BodyExitUnasked, StepVars, loopVars
  <2> QED BY <2>1, <2>2 DEF Ended
<1>2. CASE Loop
  <2>1. CASE Collect
    <3>1. cur \in Nat /\ hi \in Nat /\ cur < hi
      BY <2>1 DEF Collect, Inv, TypeInv, TypeOK
    <3>2. ret = "none"
      BY <3>1 DEF Inv, Control, Result
    <3> QED BY <2>1, <3>2 DEF Collect, Ended
  <2>2. CASE StopOnCancel \/ SkipBlocked \/ RunOne \/ RunBatch \/ Conclude \/ Close
    BY <2>2 DEF StopOnCancel, SkipBlocked, RunOne, RunBatch, Conclude, Close, AtLoopTop, Ended
  <2> QED BY <1>2, <2>1, <2>2 DEF Loop
<1>3. CASE Consumer \/ Cancel \/ Terminated \/ UNCHANGED vars
  BY <1>3 DEF Consumer, Receive, ResumeTake, ResumeRefused, ResumeSend, Cancel, Terminated, vars,
     loopVars, Ended
<1> QED BY <1>1, <1>2, <1>3 DEF Next, Inner

Talk == Answers /\ Rows /\ Prompted /\ Ended

THEOREM TalkHolds == Spec => []Talk
<1>1. Init => Talk
  <2> SUFFICES ASSUME Init PROVE Talk
    OBVIOUS
  <2>1. \A s \in Steps : s # 0
    BY MetaAssumption DEF Steps
  <2>2. Answers
    BY <2>1 DEF Init, Answers, AnswerOf, Waits, Flying, NoFlight, AttemptPC
  <2>3. Rows
    BY DEF Init, Rows, RowOf
  <2> QED
    BY <2>2, <2>3 DEF Init, Talk, Prompted, Ended
<1>2. Inv /\ Talk /\ [Next]_vars => Talk'
  BY InvExclusive, NextAnswers, NextRows, NextPrompted, NextEnded DEF Talk
<1> QED
  BY <1>1, <1>2, InvHolds, PTL DEF Spec

\* An answer is in one place at a time on its way from the consumer to the step
\* that asked, and nowhere once the question is closed: for every list New
\* accepts, every interleaving of Resume with the select loop, the end of the
\* attempt and the cancellation of the launch.
THEOREM AnswersOnce == Spec => []OneAnswer
<1>1. TypeOK /\ Talk => OneAnswer
  <2> SUFFICES ASSUME TypeOK, Talk, NEW s \in Steps
               PROVE  /\ \A p, q \in Places(s) : p = q
                      /\ Places(s) # {} => question[s] = "open" /\ pc[s] \in AttemptPC
                      /\ question[s] = "open" /\ body[s] \in {"line", "await"} /\ pc[s] # "fwdCancel"
                           => Places(s) # {}
    BY DEF OneAnswer
  <2>1. AnswerOf(s)
    BY DEF Talk, Answers
  <2>2. hold[s] # "none" => pc[s] \in AttemptPC /\ question[s] = "open"
    BY <2>1 DEF AnswerOf, AttemptPC
  <2>3. \A p, q \in Places(s) : p = q
    BY <2>1 DEF AnswerOf, Waits, Places
  <2>4. Places(s) # {} => Waits(s) \/ hold[s] # "none"
    BY DEF Places, Waits
  <2>5. Waits(s) \/ hold[s] # "none" => Places(s) # {}
    <3>1. slot = s => 1 \in Places(s)
      BY DEF Places
    <3>2. Flying(s) => 2 \in Places(s)
      BY DEF Places
    <3>3. resume[s] # "none" => 3 \in Places(s)
      BY DEF Places
    <3>4. hold[s] # "none" => 4 \in Places(s)
      BY DEF Places
    <3> QED BY <3>1, <3>2, <3>3, <3>4 DEF Waits
  <2> QED BY <2>1, <2>2, <2>3, <2>4, <2>5 DEF AnswerOf
<1> QED
  BY <1>1, TypeCorrect, TalkHolds, PTL

\* The timeout of a step stands still while its question waits for the user,
\* whoever interleaves with the select loop.
THEOREM ClockStops == Spec => []ClockStopsForQuestions
<1>1. Talk => ClockStopsForQuestions
  BY DEF Talk, Answers, AnswerOf, Waits, ClockStopsForQuestions
<1> QED
  BY <1>1, TalkHolds, PTL

\* A question that stands can be seen: it is the consumer's prompt, or it is in
\* the channel and no other prompt comes after it.
THEOREM QuestionShown == Spec => []QuestionIsShown
<1>1. TypeOK /\ Talk => QuestionIsShown
  BY DEF TypeOK, Talk, Prompted, Ends, PromptsOf, QuestionIsShown, Shown
<1> QED
  BY <1>1, TypeCorrect, TalkHolds, PTL

\* When the channel of a launch that was not cancelled is closed and drained,
\* every row is final, whatever the capacity of the channel.
THEOREM AllRowsFinal == Spec => []RowsComplete
<1>1. Inv /\ Talk => RowsComplete
  <2> SUFFICES ASSUME Inv, Talk, closed, ~ctx, events = <<>>, NEW s \in Steps PROVE view[s] = "final"
    BY DEF RowsComplete
  <2>1. cur = N + 1 /\ s < N + 1
    BY MetaAssumption DEF Talk, Ended, Steps
  <2>2. pc[s] = "settled"
    BY <2>1 DEF Inv, Control, Cut
  <2>3. RowOf(s) /\ Len(events) = 0
    BY DEF Talk, Rows
  <2> QED
    BY <2>2, <2>3 DEF RowOf, Ends
<1> QED
  BY <1>1, InvHolds, TalkHolds, PTL
=============================================================================
