---------------------------- MODULE BatchProofs ----------------------------
(***************************************************************************)
(* Proofs about Batch, for any commands, dependencies and capacities.  The *)
(* invariant follows a command from its wave to its outcome: before it has *)
(* begun its body is off, after it has been joined the body has ended and  *)
(* its channel is empty, and a body that is not reading a stream has no    *)
(* process.  Outside a group no command is on its way, and a wave begins   *)
(* only if nothing has failed.                                             *)
(***************************************************************************)
EXTENDS Batch, TLAPS

Outcomes ==
  \A c \in Cmds :
    /\ outcome[c] # "none" <=> pc[c] \in {"report", "over"}
    /\ outcome[c] = "skipped" => optional[c]
    /\ outcome[c] = "failed" => ~optional[c]

Bodies ==
  \A c \in Cmds :
    /\ pc[c] \in {"idle", "check", "begin"} => body[c] = "off"
    /\ pc[c] \in {"report", "over"} => body[c] \in {"off", "ended"} /\ out[c] = 0
    /\ body[c] = "off" => out[c] = 0

Processes ==
  \A c \in Cmds :
    /\ body[c] \in {"off", "run", "ended"} => host[c].pc \in {"off", "closed"}
    /\ host[c].pc \in {"off", "start", "exit", "closed"} => host[c].proc # "up"

Groups ==
  /\ run # "group" => \A c \in Cmds : pc[c] \in {"idle", "over"}
  /\ run \notin {"group", "err"} => ~Failed
  /\ run = "ok" => \A c \in Cmds : pc[c] = "over"
  /\ run = "err" /\ ~ctx => Cyclic \/ Failed

Inv == TypeOK /\ Outcomes /\ Bodies /\ Processes /\ Groups /\ WavesInOrder

-----------------------------------------------------------------------------
(* Types.                                                                  *)

LEMMA HostBecomes ==
  ASSUME HostTypeOK, NEW u \in Users, NEW rec \in Commands, Becomes(u, rec)
  PROVE  HostTypeOK' /\ host'[u] = rec /\ \A v \in Users \ {u} : host'[v] = host[v]
  BY DEF HostTypeOK, Becomes

LEMMA HostTypes ==
  ASSUME HostTypeOK, NEW u \in Users, NEW done,
         HostStep(u, done) \/ ProcStep(u) \/ Kill(u, done)
  PROVE  HostTypeOK'
  <1>0. /\ host[u] \in Commands /\ ChCap \in Nat /\ ChCap >= 1
        /\ host[u].ch \in 0 .. ChCap
    BY HostAssumption DEF HostTypeOK, Commands
  <1>1. CASE StartProc(u, done)
    BY <1>0, <1>1, HostBecomes DEF StartProc, Commands
  <1>2. CASE Eof(u) \/ Reap(u) \/ Exited(u) \/ Kill(u, done)
    BY <1>0, <1>2, HostBecomes DEF Eof, Reap, Exited, Kill, Commands
  <1>3. CASE Line(u)
    BY <1>0, <1>3, HostBecomes DEF Line, Commands
  <1>4. CASE StopScan(u) \/ ProcEnds(u) \/ StrayComes(u) \/ StrayGoes(u)
    BY <1>0, <1>4, HostBecomes DEF StopScan, ProcEnds, StrayComes, StrayGoes, Commands
  <1> QED BY <1>1, <1>2, <1>3, <1>4 DEF HostStep, ProcStep

LEMMA FreshCommands ==
  /\ NoCommand \in Commands
  /\ [NoCommand EXCEPT !.pc = "start", !.ch = 1] \in Commands
  <1>1. 0 \in 0 .. ChCap /\ 1 \in 0 .. ChCap
    BY HostAssumption
  <1>2. NoCommand \in Commands
    BY <1>1 DEF NoCommand, Commands
  <1>3. ASSUME NEW r \in Commands PROVE [r EXCEPT !.pc = "start", !.ch = 1] \in Commands
    BY <1>1 DEF Commands
  <1> QED BY <1>2, <1>3

LEMMA InitType == Init => TypeOK
  <1> SUFFICES ASSUME Init PROVE TypeOK
    OBVIOUS
  <1>1. HostTypeOK
    BY FreshCommands DEF Init, HostInit, HostTypeOK
  <1>2. 0 \in 0 .. OutCap /\ 0 \in 0 .. EventCap /\ 0 \in 0 .. MaxStreams
    BY BatchAssumption
  <1> QED BY <1>1, <1>2 DEF Init, TypeOK

LEMMA NextType == TypeOK /\ [Next]_vars => TypeOK'
  <1> SUFFICES ASSUME TypeOK, [Next]_vars PROVE TypeOK'
    OBVIOUS
  <1> USE DEF TypeOK
  <1>0. /\ Cmds = Users /\ OutCap \in Nat \ {0} /\ EventCap \in Nat \ {0}
        /\ MaxStreams \in Nat
    BY BatchAssumption
  <1>1. CASE CheckBatch \/ Main
    BY <1>1 DEF CheckBatch, Main, Waves, StartWave, EndWave, Return, meta, inner,
      bodies, HostTypeOK
  <1>2. ASSUME NEW c \in Cmds, Check(c) PROVE TypeOK'
    BY <1>2 DEF Check, Decide, meta, bodies, HostTypeOK
  <1>3. ASSUME NEW c \in Cmds, OwnStep(c) PROVE TypeOK'
    <2>1. CASE Begin(c)
      BY <2>1 DEF Begin, Forward, meta, HostTypeOK
    <2>2. CASE ForwardOne(c)
      BY <1>0, <2>2 DEF ForwardOne, Forward, meta, inner, bodies, HostTypeOK
    <2>3. CASE Join(c)
      BY <2>3 DEF Join, Decide, Failure, meta, bodies, HostTypeOK
    <2>4. CASE Report(c)
      BY <2>4 DEF Report, Forward, meta, bodies, HostTypeOK
    <2> QED BY <1>3, <2>1, <2>2, <2>3, <2>4 DEF OwnStep
  <1>4. ASSUME NEW c \in Cmds, BodyStep(c) PROVE TypeOK'
    <2>1. CASE Execute(c)
      <3>1. HostTypeOK'
        BY <1>0, <2>1, FreshCommands, HostBecomes DEF Execute, Stream
      <3> QED BY <1>0, <2>1, <3>1 DEF Execute, meta, inner
    <2>2. CASE Refuse(c)
      BY <2>2 DEF Refuse, End, meta, inner, HostTypeOK
    <2>3. CASE Pump(c)
      <3>0. host[c] \in Commands /\ host[c].ch \in 0 .. ChCap /\ ChCap \in Nat
        BY <1>0, HostAssumption DEF HostTypeOK, Commands
      <3>1. [host[c] EXCEPT !.ch = @ - 1] \in Commands
        BY <2>3, <3>0 DEF Pump, Commands
      <3>2. host' = [host EXCEPT ![c] = [host[c] EXCEPT !.ch = @ - 1]]
        BY <2>3 DEF Pump
      <3>3. HostTypeOK'
        BY <1>0, <3>1, <3>2 DEF HostTypeOK
      <3> QED BY <1>0, <2>3, <3>3 DEF Pump, meta, inner, bodies
    <2>4. CASE EndStream(c)
      BY <2>4 DEF EndStream, End, meta, inner, HostTypeOK
    <2> QED BY <1>4, <2>1, <2>2, <2>3, <2>4 DEF BodyStep
  <1>5. ASSUME NEW c \in Cmds, Hosted(c) PROVE TypeOK'
    <2>1. HostTypeOK'
      BY <1>0, <1>5, HostTypes DEF Hosted, OnHost
    <2> QED BY <1>5, <2>1 DEF Hosted, OnHost, meta, inner, bodies
  <1>6. CASE Emit \/ Receive \/ Cancel
    <2>1. /\ UNCHANGED <<meta, run, inner, bodies, out, host>>
          /\ ctx' \in BOOLEAN /\ relay' \in BOOLEAN
      BY <1>6 DEF Emit, Receive, Cancel
    <2>2. events' \in 0 .. EventCap
      BY <1>0, <1>6 DEF Emit, Receive, Cancel
    <2> QED BY <2>1, <2>2 DEF meta, inner, bodies, HostTypeOK
  <1>7. CASE UNCHANGED vars
    BY <1>7 DEF vars, meta, inner, bodies, HostTypeOK
  <1> QED BY <1>1, <1>2, <1>3, <1>4, <1>5, <1>6, <1>7 DEF Next, Terminated

\* Types: every reachable state of the batch and its commands on the host is
\* well typed (batch.go, host.go), the bounds of the channels included.
THEOREM TypeCorrect == Spec => []TypeOK
  BY InitType, NextType, PTL DEF Spec

-----------------------------------------------------------------------------
(* The invariant.                                                          *)

LEMMA InitInv == Init => Inv
  <1> SUFFICES ASSUME Init PROVE Inv
    OBVIOUS
  <1>1. Outcomes /\ Bodies /\ WavesInOrder
    BY DEF Init, Outcomes, Bodies, WavesInOrder
  <1>2. Processes
    BY BatchAssumption DEF Init, HostInit, NoCommand, Processes
  <1>3. Groups
    BY DEF Init, Groups, Failed
  <1> QED BY <1>1, <1>2, <1>3, InitType DEF Inv

\* The steps that are nobody's progress, as far as outcomes go.
Quiet == UNCHANGED <<meta, pc, outcome>>

LEMMA QuietSteps ==
  ASSUME [Next]_vars
  PROVE  \/ Quiet \/ StartWave
         \/ \E c \in Cmds : Check(c) \/ Begin(c) \/ Join(c) \/ Report(c)
  <1>1. CASE CheckBatch \/ Main
    BY <1>1 DEF CheckBatch, Main, Waves, EndWave, Return, Quiet, inner
  <1>2. ASSUME NEW c \in Cmds, OwnStep(c) \/ BodyStep(c) \/ Hosted(c)
        PROVE  Quiet \/ Begin(c) \/ Join(c) \/ Report(c)
    BY <1>2 DEF OwnStep, BodyStep, Hosted, OnHost, ForwardOne, Execute, Refuse,
      Pump, EndStream, Quiet, inner
  <1>3. CASE Emit \/ Receive \/ Cancel
    BY <1>3 DEF Emit, Receive, Cancel, Quiet, inner
  <1>4. CASE UNCHANGED vars
    BY <1>4 DEF vars, Quiet, inner
  <1> QED BY <1>1, <1>2, <1>3, <1>4 DEF Next, Terminated

\* How one command's place and outcome move.
LEMMA Places ==
  ASSUME TypeOK, [Next]_vars
  PROVE  /\ UNCHANGED meta
         /\ \A c \in Cmds :
              \/ pc'[c] = pc[c] /\ outcome'[c] = outcome[c]
              \/ /\ pc[c] = "idle" /\ pc'[c] = "check" /\ outcome'[c] = outcome[c]
                 /\ Ready(c) /\ run = "wave" /\ run' = "group"
              \/ /\ pc[c] = "check" /\ pc'[c] = "begin" /\ outcome'[c] = outcome[c]
                 /\ run' = run
              \/ /\ pc[c] = "begin" /\ pc'[c] = "loop" /\ outcome'[c] = outcome[c]
                 /\ run' = run
              \/ /\ pc[c] = "report" /\ pc'[c] = "over" /\ outcome'[c] = outcome[c]
                 /\ run' = run
              \/ /\ pc[c] \in {"check", "loop"} /\ pc'[c] \in {"report", "over"}
                 /\ run' = run
                 /\ \/ outcome'[c] = "done"
                    \/ outcome'[c] = "skipped" /\ optional[c]
                    \/ outcome'[c] = "failed" /\ ~optional[c]
  <1> USE DEF TypeOK
  <1>1. CASE Quiet
    BY <1>1 DEF Quiet
  <1>2. CASE StartWave
    BY <1>2 DEF StartWave, meta, Ready
  <1>3. ASSUME NEW d \in Cmds, Check(d) PROVE UNCHANGED <<meta, run>>
    BY <1>3 DEF Check
  <1>4. ASSUME NEW d \in Cmds, Begin(d) \/ Join(d) \/ Report(d)
        PROVE  UNCHANGED <<meta, run>>
    BY <1>4 DEF Begin, Join, Report
  <1>5. ASSUME NEW d \in Cmds, Check(d), NEW c \in Cmds, c # d
        PROVE  pc'[c] = pc[c] /\ outcome'[c] = outcome[c]
    BY <1>5 DEF Check, Decide
  <1>6. ASSUME NEW d \in Cmds, Begin(d) \/ Join(d) \/ Report(d), NEW c \in Cmds, c # d
        PROVE  pc'[c] = pc[c] /\ outcome'[c] = outcome[c]
    BY <1>6 DEF Begin, Join, Report, Decide
  <1>7. ASSUME NEW d \in Cmds, Check(d)
        PROVE  /\ pc[d] = "check"
               /\ \/ pc'[d] = "begin" /\ outcome'[d] = outcome[d]
                  \/ pc'[d] \in {"report", "over"} /\ outcome'[d] = "done"
                  \/ pc'[d] \in {"report", "over"} /\ outcome'[d] = "skipped" /\ optional[d]
                  \/ pc'[d] \in {"report", "over"} /\ outcome'[d] = "failed" /\ ~optional[d]
    BY <1>7 DEF Check, Decide
  <1>8. ASSUME NEW d \in Cmds, Begin(d) \/ Report(d)
        PROVE  /\ outcome'[d] = outcome[d]
               /\ \/ pc[d] = "begin" /\ pc'[d] = "loop"
                  \/ pc[d] = "report" /\ pc'[d] = "over"
    BY <1>8 DEF Begin, Report
  <1>9. ASSUME NEW d \in Cmds, Join(d)
        PROVE  /\ pc[d] = "loop" /\ pc'[d] = "report"
               /\ \/ outcome'[d] = "done"
                  \/ outcome'[d] = "skipped" /\ optional[d]
                  \/ outcome'[d] = "failed" /\ ~optional[d]
    BY <1>9 DEF Join, Decide, Failure
  <1> QED
    <2>1. CASE Quiet \/ StartWave
      BY <2>1, <1>1, <1>2
    <2>2. ASSUME NEW d \in Cmds, Check(d) \/ Begin(d) \/ Join(d) \/ Report(d), NEW c \in Cmds
          PROVE  /\ UNCHANGED <<meta, run>>
                 /\ c # d => pc'[c] = pc[c] /\ outcome'[c] = outcome[c]
      BY <2>2, <1>3, <1>4, <1>5, <1>6
    <2>3. QED
      BY <2>1, <2>2, <1>7, <1>8, <1>9, QuietSteps

LEMMA OutcomesKept == ASSUME Inv, [Next]_vars PROVE Outcomes'
  BY Places DEF Inv, Outcomes, meta

LEMMA OrderKept == ASSUME Inv, [Next]_vars PROVE WavesInOrder'
  <1>1. /\ UNCHANGED <<deps, optional>> /\ deps \in [Cmds -> SUBSET Cmds]
    BY Places, BatchAssumption DEF meta, Inv, TypeOK
  <1>2. ASSUME NEW d \in Cmds, pc[d] = "over"
        PROVE  pc'[d] = "over" /\ outcome'[d] = outcome[d]
    BY <1>2, Places DEF Inv
  <1> SUFFICES ASSUME NEW c \in Cmds, pc'[c] # "idle", NEW d \in deps[c]
               PROVE  pc'[d] = "over" /\ outcome'[d] \in {"done", "skipped"}
    BY <1>1 DEF WavesInOrder
  <1>3. d \in Cmds
    BY <1>1
  <1>4. CASE pc[c] # "idle"
    BY <1>2, <1>3, <1>4 DEF Inv, WavesInOrder
  <1>5. CASE pc[c] = "idle"
    <2>1. Ready(c) /\ run = "wave"
      BY <1>5, Places DEF Inv
    <2>2. pc[d] = "over" /\ outcome[d] # "failed" /\ outcome[d] # "none"
      BY <1>3, <2>1 DEF Ready, Settled, Inv, Groups, Failed, Outcomes
    <2>3. outcome[d] \in {"done", "skipped"}
      BY <1>3, <2>2 DEF Inv, TypeOK
    <2> QED BY <1>2, <1>3, <2>2, <2>3
  <1> QED BY <1>4, <1>5

-----------------------------------------------------------------------------
(* Bodies and processes.                                                   *)

\* How one command's body and channel move.
LEMMA BodyMoves ==
  ASSUME TypeOK, [Next]_vars, NEW c \in Cmds
  PROVE  \/ UNCHANGED <<body[c], out[c]>>
         \/ pc[c] = "begin" /\ pc'[c] = "loop" /\ body'[c] = "run" /\ out'[c] = out[c]
         \/ pc[c] = "loop" /\ body'[c] = body[c] /\ out[c] > 0 /\ pc'[c] = pc[c]
         \/ /\ body[c] = "run" /\ body'[c] \in {"stream", "ended"}
            /\ out'[c] = out[c] /\ pc'[c] = pc[c]
         \/ body[c] = "stream" /\ body'[c] = "stream" /\ pc'[c] = pc[c]
         \/ /\ body[c] = "stream" /\ Over(c) /\ body'[c] \in {"run", "ended"}
            /\ out'[c] = out[c] /\ pc'[c] = pc[c]
  <1> USE DEF TypeOK
  <1>1. CASE CheckBatch \/ Main
    BY <1>1 DEF CheckBatch, Main, Waves, StartWave, EndWave, Return, bodies
  <1>2. ASSUME NEW d \in Cmds, Check(d) \/ Join(d) \/ Report(d)
        PROVE  UNCHANGED <<body[c], out[c]>>
    BY <1>2 DEF Check, Join, Report, bodies
  <1>3. ASSUME NEW d \in Cmds, Begin(d)
        PROVE  \/ UNCHANGED <<body[c], out[c]>>
               \/ pc[c] = "begin" /\ pc'[c] = "loop" /\ body'[c] = "run" /\ out'[c] = out[c]
    BY <1>3 DEF Begin
  <1>4. ASSUME NEW d \in Cmds, ForwardOne(d)
        PROVE  \/ UNCHANGED <<body[c], out[c]>>
               \/ pc[c] = "loop" /\ body'[c] = body[c] /\ out[c] > 0 /\ pc'[c] = pc[c]
    BY <1>4 DEF ForwardOne, bodies, inner
  <1>5. ASSUME NEW d \in Cmds, Execute(d) \/ Refuse(d)
        PROVE  \/ UNCHANGED <<body[c], out[c]>>
               \/ /\ body[c] = "run" /\ body'[c] \in {"stream", "ended"}
                  /\ out'[c] = out[c] /\ pc'[c] = pc[c]
    BY <1>5 DEF Execute, Refuse, End, inner
  <1>6. ASSUME NEW d \in Cmds, Pump(d)
        PROVE  \/ UNCHANGED <<body[c], out[c]>>
               \/ body[c] = "stream" /\ body'[c] = "stream" /\ pc'[c] = pc[c]
    BY <1>6 DEF Pump, bodies, inner
  <1>7. ASSUME NEW d \in Cmds, EndStream(d)
        PROVE  \/ UNCHANGED <<body[c], out[c]>>
               \/ /\ body[c] = "stream" /\ Over(c) /\ body'[c] \in {"run", "ended"}
                  /\ out'[c] = out[c] /\ pc'[c] = pc[c]
    BY <1>7 DEF EndStream, End, inner
  <1>8. ASSUME NEW d \in Cmds, Hosted(d) PROVE UNCHANGED <<body[c], out[c]>>
    BY <1>8 DEF Hosted, OnHost, bodies
  <1>9. CASE Emit \/ Receive \/ Cancel \/ UNCHANGED vars
    BY <1>9 DEF Emit, Receive, Cancel, vars, bodies
  <1> QED BY <1>1, <1>2, <1>3, <1>4, <1>5, <1>6, <1>7, <1>8, <1>9
    DEF Next, OwnStep, BodyStep, Terminated

\* A command is joined when its body has ended and its channel is empty.
LEMMA Joined ==
  ASSUME TypeOK, Bodies, [Next]_vars, NEW c \in Cmds,
         pc[c] \notin {"report", "over"}, pc'[c] \in {"report", "over"}
  PROVE  body[c] \in {"off", "ended"} /\ out[c] = 0 /\ UNCHANGED <<body[c], out[c]>>
  <1> USE DEF TypeOK
  <1>1. PICK d \in Cmds : Check(d) \/ Begin(d) \/ Join(d) \/ Report(d)
    BY QuietSteps DEF Quiet, StartWave
  <1>2. CASE Check(d)
    <2>1. pc[c] = "check"
      BY <1>2 DEF Check, Decide
    <2> QED BY <1>2, <2>1 DEF Check, Bodies, bodies
  <1>3. CASE Begin(d) \/ Report(d)
    BY <1>3 DEF Begin, Report
  <1>4. CASE Join(d)
    <2>1. c = d
      BY <1>4 DEF Join, Decide
    <2> QED BY <1>4, <2>1 DEF Join, bodies
  <1> QED BY <1>1, <1>2, <1>3, <1>4

LEMMA BodiesKept == ASSUME Inv, [Next]_vars PROVE Bodies'
  <1> SUFFICES ASSUME NEW c \in Cmds
      PROVE  /\ pc'[c] \in {"idle", "check", "begin"} => body'[c] = "off"
             /\ pc'[c] \in {"report", "over"} => body'[c] \in {"off", "ended"} /\ out'[c] = 0
             /\ body'[c] = "off" => out'[c] = 0
    BY DEF Bodies
  <1>0. TypeOK /\ Bodies
    BY DEF Inv
  <1>1. CASE pc'[c] \in {"report", "over"} /\ pc[c] \notin {"report", "over"}
    BY <1>0, <1>1, Joined
  <1>2. CASE pc'[c] \in {"report", "over"} /\ pc[c] \in {"report", "over"}
    BY <1>0, <1>2, BodyMoves DEF Bodies
  <1>3. CASE pc'[c] \notin {"report", "over"}
    <2>1. pc'[c] \in {"idle", "check", "begin"} => pc[c] \in {"idle", "check", "begin"}
      BY <1>0, <1>3, Places
    <2> QED BY <1>0, <1>3, <2>1, BodyMoves DEF Bodies, TypeOK
  <1> QED BY <1>1, <1>2, <1>3

\* How one command's process moves, and who may move it.
LEMMA HostMoves ==
  ASSUME TypeOK, [Next]_vars, NEW c \in Cmds
  PROVE  \/ host'[c] = host[c]
         \/ /\ body[c] = "run" /\ body'[c] = "stream"
            /\ host'[c].pc = "start" /\ host'[c].proc = "none"
         \/ /\ body'[c] = body[c]
            /\ host'[c].pc = host[c].pc /\ host'[c].proc = host[c].proc
         \/ /\ body'[c] = body[c] /\ host'[c].pc = host[c].pc
            /\ host'[c].proc # "up"
         \/ /\ body'[c] = body[c] /\ host[c].pc = "start" /\ host'[c].pc = "scan"
         \/ /\ body'[c] = body[c] /\ host[c].pc = "start" /\ host'[c].pc = "exit"
            /\ host'[c].proc = host[c].proc
         \/ /\ body'[c] = body[c] /\ host[c].pc = "scan" /\ host'[c].pc = "wait"
         \/ /\ body'[c] = body[c] /\ host[c].pc = "wait" /\ host'[c].pc = "exit"
            /\ host'[c].proc = "gone"
         \/ /\ body'[c] = body[c] /\ host[c].pc = "exit" /\ host'[c].pc = "closed"
            /\ host'[c].proc = host[c].proc
  <1>0. /\ Users = Cmds /\ host \in [Cmds -> Commands] /\ body \in [Cmds -> {"off", "run", "stream", "ended"}]
        /\ \A d \in Cmds : host[d] \in Commands
    BY BatchAssumption DEF TypeOK, HostTypeOK
  <1>1. CASE CheckBatch \/ Main \/ Emit \/ Receive \/ Cancel \/ UNCHANGED vars
    BY <1>1 DEF CheckBatch, Main, Waves, StartWave, EndWave, Return, Emit, Receive,
      Cancel, vars
  <1>2. ASSUME NEW d \in Cmds, Check(d) \/ OwnStep(d) PROVE host'[c] = host[c]
    BY <1>2 DEF Check, OwnStep, Begin, ForwardOne, Join, Report
  <1>3. ASSUME NEW d \in Cmds, Refuse(d) \/ EndStream(d) PROVE host'[c] = host[c]
    BY <1>3 DEF Refuse, EndStream
  <1>4. ASSUME NEW d \in Cmds, Execute(d)
        PROVE  \/ host'[c] = host[c]
               \/ /\ body[c] = "run" /\ body'[c] = "stream"
                  /\ host'[c].pc = "start" /\ host'[c].proc = "none"
    <2>1. CASE c = d
      BY <1>0, <1>4, <2>1 DEF Execute, Stream, Becomes, NoCommand
    <2>2. CASE c # d
      BY <1>0, <1>4, <2>2 DEF Execute, Stream, Becomes
    <2> QED BY <2>1, <2>2
  <1>5. ASSUME NEW d \in Cmds, Pump(d)
        PROVE  /\ body'[c] = body[c]
               /\ host'[c].pc = host[c].pc /\ host'[c].proc = host[c].proc
    <2>1. host' = [host EXCEPT ![d] = [host[d] EXCEPT !.ch = @ - 1]]
      BY <1>5 DEF Pump
    <2>2. host'[c] = IF c = d THEN [host[d] EXCEPT !.ch = @ - 1] ELSE host[c]
      BY <1>0, <2>1
    <2>3. body' = body
      BY <1>5 DEF Pump, bodies
    <2> QED BY <1>0, <2>2, <2>3 DEF Commands
  <1>6. ASSUME NEW d \in Cmds, Hosted(d), c # d PROVE host'[c] = host[c]
    BY <1>0, <1>6 DEF Hosted, OnHost, HostStep, ProcStep, StartProc, Eof, Reap, Exited,
      Kill, Line, StopScan, ProcEnds, StrayComes, StrayGoes, Becomes
  <1>7. ASSUME Hosted(c)
        PROVE  /\ body'[c] = body[c]
               /\ \/ host'[c].pc = host[c].pc /\ host'[c].proc = host[c].proc
                  \/ host'[c].pc = host[c].pc /\ host'[c].proc # "up"
                  \/ host[c].pc = "start" /\ host'[c].pc = "scan"
                  \/ /\ host[c].pc = "start" /\ host'[c].pc = "exit"
                     /\ host'[c].proc = host[c].proc
                  \/ host[c].pc = "scan" /\ host'[c].pc = "wait"
                  \/ host[c].pc = "wait" /\ host'[c].pc = "exit" /\ host'[c].proc = "gone"
                  \/ /\ host[c].pc = "exit" /\ host'[c].pc = "closed"
                     /\ host'[c].proc = host[c].proc
    <2>0. body' = body
      BY <1>7 DEF Hosted, OnHost, bodies
    <2>1. ASSUME NEW rec, Becomes(c, rec) PROVE host'[c] = rec
      BY <1>0, <2>1 DEF Becomes
    <2>2. CASE HostStep(c, Cut)
      BY <1>0, <2>0, <2>1, <2>2 DEF HostStep, StartProc, Eof, Reap, Exited, Commands
    <2>3. CASE ProcStep(c)
      BY <1>0, <2>0, <2>1, <2>3 DEF ProcStep, Line, StopScan, ProcEnds, StrayComes,
        StrayGoes, Commands
    <2>4. CASE Kill(c, Cut)
      BY <1>0, <2>0, <2>1, <2>4 DEF Kill, Commands
    <2> QED BY <1>7, <2>2, <2>3, <2>4 DEF Hosted, OnHost
  <1> QED BY <1>1, <1>2, <1>3, <1>4, <1>5, <1>6, <1>7
    DEF Next, BodyStep, Terminated

LEMMA ProcessesKept == ASSUME Inv, [Next]_vars PROVE Processes'
  <1> SUFFICES ASSUME NEW c \in Cmds
      PROVE  /\ body'[c] \in {"off", "run", "ended"} => host'[c].pc \in {"off", "closed"}
             /\ host'[c].pc \in {"off", "start", "exit", "closed"} => host'[c].proc # "up"
    BY DEF Processes
  <1>0. /\ TypeOK
        /\ body[c] \in {"off", "run", "ended"} => host[c].pc \in {"off", "closed"}
        /\ host[c].pc \in {"off", "start", "exit", "closed"} => host[c].proc # "up"
        /\ pc[c] = "begin" => body[c] = "off"
    BY DEF Inv, Processes, Bodies
  <1>1. \/ body'[c] = body[c]
        \/ body[c] = "off" /\ body'[c] = "run"
        \/ body[c] = "run" /\ body'[c] \in {"stream", "ended"}
        \/ body[c] = "stream" /\ host[c].pc = "closed" /\ body'[c] \in {"run", "ended"}
    BY <1>0, BodyMoves DEF Over
  <1> QED BY <1>0, <1>1, HostMoves

-----------------------------------------------------------------------------
(* The groups.                                                             *)

LEMMA GroupsKept == ASSUME Inv, [Next]_vars PROVE Groups'
  <1>0. TypeOK /\ Outcomes /\ Groups /\ UNCHANGED meta
    BY Places DEF Inv
  <1>1. Cyclic' = Cyclic
    BY <1>0 DEF Cyclic, meta
  <1>2. ASSUME NEW c \in Cmds, outcome[c] = "failed" PROVE outcome'[c] = "failed"
    BY <1>0, <1>2, Places DEF Outcomes
  <1>3. Failed => Failed'
    BY <1>2 DEF Failed
  <1>4. CASE UNCHANGED <<run, pc, outcome, ctx>>
    BY <1>0, <1>1, <1>4 DEF Groups, Failed
  <1>5. CASE CheckBatch \/ Waves \/ StartWave \/ EndWave \/ Return
    <2>1. outcome' = outcome /\ ctx' = ctx /\ Failed' = Failed
      BY <1>5 DEF CheckBatch, Waves, StartWave, EndWave, Return, inner, Failed
    <2>2. CASE CheckBatch
      BY <1>0, <2>1, <2>2 DEF CheckBatch, Groups, inner
    <2>3. CASE Waves
      BY <1>0, <1>1, <2>1, <2>3 DEF Waves, Groups, inner
    <2>4. CASE StartWave
      BY <1>0, <2>1, <2>4 DEF StartWave, Groups
    <2>5. CASE EndWave
      BY <1>0, <2>1, <2>5 DEF EndWave, Groups, inner
    <2>6. CASE Return
      BY <1>0, <2>1, <2>6 DEF Return, Groups, Settled, inner
    <2> QED BY <1>5, <2>2, <2>3, <2>4, <2>5, <2>6
  <1>6. CASE Cancel
    <2>1. UNCHANGED <<run, pc, outcome>> /\ ctx' = TRUE
      BY <1>6 DEF Cancel, inner
    <2> QED BY <1>0, <2>1 DEF Groups, Failed
  <1>7. ASSUME NEW c \in Cmds, Check(c) \/ OwnStep(c) PROVE Groups'
    <2>1. pc[c] \notin {"idle", "over"}
      BY <1>7 DEF Check, OwnStep, Begin, ForwardOne, Join, Report
    <2>2. run = "group"
      BY <1>0, <2>1 DEF Groups
    <2>3. run' = run
      BY <1>7 DEF Check, OwnStep, Begin, ForwardOne, Join, Report
    <2> QED BY <2>2, <2>3 DEF Groups
  <1>8. ASSUME NEW c \in Cmds, BodyStep(c) \/ Hosted(c)
        PROVE  UNCHANGED <<run, pc, outcome, ctx>>
    BY <1>8 DEF BodyStep, Execute, Refuse, Pump, EndStream, Hosted, OnHost, inner
  <1>9. ASSUME Emit \/ Receive \/ UNCHANGED vars
        PROVE  UNCHANGED <<run, pc, outcome, ctx>>
    BY <1>9 DEF Emit, Receive, vars, inner
  <1> QED BY <1>4, <1>5, <1>6, <1>7, <1>8, <1>9 DEF Next, Main, Terminated

LEMMA NextInv == Inv /\ [Next]_vars => Inv'
  BY NextType, OutcomesKept, BodiesKept, ProcessesKept, GroupsKept, OrderKept DEF Inv

LEMMA Honest == Inv => BatchIsHonest
  <1> SUFFICES ASSUME Inv PROVE BatchIsHonest
    OBVIOUS
  <1>1. VerdictFits
    <2>1. ASSUME run = "ok", NEW c \in Cmds
          PROVE  outcome[c] = "done" \/ (outcome[c] = "skipped" /\ optional[c])
      BY <2>1 DEF Inv, TypeOK, Groups, Failed, Outcomes
    <2> QED BY <2>1 DEF VerdictFits, Inv, Groups, Failed, Outcomes
  <1>2. NothingLeft
    <2> SUFFICES ASSUME Returned, NEW c \in Cmds
        PROVE  /\ pc[c] \in {"idle", "over"} /\ body[c] \in {"off", "ended"} /\ out[c] = 0
               /\ host[c].pc \in {"off", "closed"} /\ host[c].proc # "up"
      BY DEF NothingLeft
    <2>1. pc[c] \in {"idle", "over"}
      BY DEF Returned, Inv, Groups
    <2>2. body[c] \in {"off", "ended"} /\ out[c] = 0
      BY <2>1 DEF Inv, Bodies
    <2> QED BY <2>1, <2>2 DEF Inv, Processes
  <1> QED BY <1>1, <1>2 DEF BatchIsHonest, Inv

\* Batch.Run returns a verdict that fits its commands' outcomes, has kept the
\* order of the waves and leaves no goroutine, event or process behind, for
\* any number of commands and whatever fails, hangs or is cancelled.
THEOREM HonestBatch == Spec => []BatchIsHonest
  BY InitInv, NextInv, Honest, PTL DEF Spec
=============================================================================
