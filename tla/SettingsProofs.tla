--------------------------- MODULE SettingsProofs ---------------------------
(***************************************************************************)
(* Proofs about Settings, for any number of processes, TUIs, tastes and    *)
(* failures.  A fact is safe when it is in the file or somebody is known   *)
(* to have undone it; what is safe stays so, whoever writes the file.  So  *)
(* the markers need no lock: a step that is done has made its facts safe,  *)
(* a process in a later group has left only such steps behind it, and the  *)
(* marker comes last.  Who may undo a fact does need it: see the last part.*)
(***************************************************************************)
EXTENDS Settings, TLAPS

Safe == file.has \union gone \union tuned

\* The steps that are not idle are those of the group their process is at.
Placed ==
  \A p \in Procs, s \in Steps : task[p][s].pc # "idle" =>
    /\ proc[p].phase # "off" /\ proc[p].stage \in DOMAIN Stages[proc[p].phase]
    /\ s \in Stages[proc[p].phase][proc[p].stage]
Within ==
  \A p \in Procs : proc[p].phase # "off" => proc[p].stage \in DOMAIN Stages[proc[p].phase]

\* What only some steps do.
Kinds ==
  \A p \in Procs, s \in Steps :
    /\ task[p][s].pc \in {"tool", "patch"} => s \in Tools
    /\ task[p][s].pc \in {"copy", "fallback", "copying"} => s = "settings"

\* A step that is done has made its facts safe, or failed its process.
Dones ==
  \A p \in Procs, s \in Steps :
    task[p][s].pc = "done" => Wants(s) \subseteq Safe \/ (s \in Required /\ proc[p].failed)

\* The same of the groups that a process has behind it.
BehindOf(p) ==
  /\ proc[p].phase = "create" /\ proc[p].stage > 1 => InSeed \subseteq Safe
  /\ proc[p].phase = "create" /\ proc[p].stage > 2 => Tastes \subseteq Safe
  /\ proc[p].phase = "start" /\ proc[p].stage > 1 => proc[p].failed \/ "auth" \in Safe
  /\ proc[p].phase = "start" /\ proc[p].stage > 2 => "plugins" \in Safe
Behind == \A p \in Procs : BehindOf(p)

Inv == TypeOK /\ Within /\ Placed /\ Kinds /\ Dones /\ Behind /\ MarkersAreHonest

-----------------------------------------------------------------------------
(* The groups and the names of the steps.                                  *)

LEMMA Groups ==
  /\ Phases = {"create", "start", "plugins", "harness"}
  /\ DOMAIN Stages["create"] = 1 .. 3 /\ Len(Stages["create"]) = 3
  /\ Stages["create"][1] = {"settings", "onboarding"}
  /\ Stages["create"][2] = Tastes \union {"rtk"}
  /\ Stages["create"][3] = {"create-marker"}
  /\ DOMAIN Stages["start"] = 1 .. 3 /\ Len(Stages["start"]) = 3
  /\ Stages["start"][1] = {"settings-env"}
  /\ Stages["start"][2] = {"harness", "plugins"}
  /\ Stages["start"][3] = {"start-marker"}
  /\ DOMAIN Stages["plugins"] = 1 .. 1 /\ Len(Stages["plugins"]) = 1
  /\ Stages["plugins"][1] = {"plugins"}
  /\ DOMAIN Stages["harness"] = 1 .. 1 /\ Len(Stages["harness"]) = 1
  /\ Stages["harness"][1] = {"harness"}
BY DEF Phases, Stages

LEMMA AllSteps ==
  Steps = Tastes \union {"settings", "onboarding", "rtk", "create-marker", "settings-env",
                         "harness", "plugins", "start-marker"}
<1> DEFINE All == Tastes \union {"settings", "onboarding", "rtk", "create-marker",
                                 "settings-env", "harness", "plugins", "start-marker"}
<1>1. ASSUME NEW f \in Phases, NEW i \in DOMAIN Stages[f] PROVE Stages[f][i] \subseteq All
  BY <1>1, Groups
<1>2. ASSUME NEW s \in All PROVE \E f \in Phases : \E i \in DOMAIN Stages[f] : s \in Stages[f][i]
  BY <1>2, Groups
<1> QED
  BY <1>1, <1>2 DEF Steps

LEMMA InSteps == \A f \in Phases : \A i \in DOMAIN Stages[f] : Stages[f][i] \subseteq Steps
BY DEF Steps

\* What each step is there for.
LEMMA Purposes ==
  /\ Wants("settings") = {"seed"} /\ Wants("onboarding") = {"skip"}
  /\ Wants("settings-env") = {"auth"} /\ Wants("plugins") = {"plugins"}
  /\ Wants("rtk") = {"rtk"} /\ Wants("harness") = {}
  /\ Wants("create-marker") = {} /\ Wants("start-marker") = {}
  /\ \A f \in Tastes : Wants(f) = {f}
  /\ \A s \in Steps : Wants(s) \subseteq Facts
<1>1. /\ Wants("settings") = {"seed"} /\ Wants("onboarding") = {"skip"}
      /\ Wants("settings-env") = {"auth"} /\ Wants("plugins") = {"plugins"}
      /\ Wants("rtk") = {"rtk"}
  BY SettingsAssumption DEF Wants, Names, Others
<1>2. /\ Wants("harness") = {} /\ Wants("create-marker") = {} /\ Wants("start-marker") = {}
  BY SettingsAssumption DEF Wants, Names, Others
<1>3. \A f \in Tastes : Wants(f) = {f}
  BY SettingsAssumption DEF Wants, Names, Others
<1> QED
  BY <1>1, <1>2, <1>3, AllSteps DEF Facts, Others

-----------------------------------------------------------------------------
(* The types, by themselves, and what a task does when it moves.           *)

Points == {"idle", "check", "tool", "patch", "lock", "write", "copy", "fallback", "copying",
           "done"}
Tasks  == [pc : Points, snap : SUBSET Facts, sure : BOOLEAN]
Procss == [phase : Phases \union {"off"}, stage : 0 .. 3, failed : BOOLEAN]
Files  == {f \in [st : {"none", "torn", "json"}, has : SUBSET Facts] :
             f.st # "json" => f.has = {}}
Starts == [pc : {"idle", "create", "start", "apply", "ready"},
           waits : SUBSET Procs, todo : SUBSET {"plugins", "harness"}]

LEMMA Shapes ==
  TypeOK <=>
    /\ file \in Files /\ created \in BOOLEAN /\ started \in BOOLEAN
    /\ proc \in [Procs -> Procss] /\ task \in [Procs -> [Steps -> Tasks]]
    /\ launch \in [Tuis -> Starts]
    /\ tuned \subseteq Tastes /\ gone \subseteq Facts /\ faults \in 0 .. MaxFaults
BY DEF TypeOK, Points, Tasks, Procss, Files, Starts

\* The task (p, s) goes on to pc; of the others only what they know changes.
Moves(p, s, pc) ==
  /\ task' \in [Procs -> [Steps -> Tasks]]
  /\ task'[p][s].pc = pc
  /\ \A q \in Procs, r \in Steps : q # p \/ r # s => task'[q][r].pc = task[q][r].pc

LEMMA Idles == Idle \in Tasks /\ \A pc \in Points : [Idle EXCEPT !.pc = pc] \in Tasks
BY DEF Idle, Tasks, Points

\* One task is replaced.
LEMMA Replaced ==
  ASSUME task \in [Procs -> [Steps -> Tasks]], NEW p \in Procs, NEW s \in Steps, NEW t \in Tasks,
         task' = [task EXCEPT ![p][s] = t]
  PROVE  Moves(p, s, t.pc)
<1>1. task' = [task EXCEPT ![p] = [task[p] EXCEPT ![s] = t]]
  OBVIOUS
<1>2. task[p] \in [Steps -> Tasks]
  OBVIOUS
<1>3. [task[p] EXCEPT ![s] = t] \in [Steps -> Tasks]
  BY <1>2
<1>4. task' \in [Procs -> [Steps -> Tasks]]
  BY <1>1, <1>3
<1>5. task'[p][s] = t
  BY <1>1, <1>2
<1>6. \A q \in Procs, r \in Steps : q # p \/ r # s => task'[q][r] = task[q][r]
  BY <1>1, <1>2
<1> QED
  BY <1>4, <1>5, <1>6 DEF Moves

LEMMA GoMoves ==
  ASSUME task \in [Procs -> [Steps -> Tasks]], NEW p \in Procs, NEW s \in Steps,
         NEW pc \in Points, Go(p, s, pc)
  PROVE  Moves(p, s, pc)
<1>1. task[p][s] \in Tasks
  OBVIOUS
<1>2. [task[p][s] EXCEPT !.pc = pc] \in Tasks /\ [task[p][s] EXCEPT !.pc = pc].pc = pc
  BY <1>1 DEF Tasks
<1>3. task' = [task EXCEPT ![p][s] = [task[p][s] EXCEPT !.pc = pc]]
  BY DEF Go
<1> QED
  BY <1>2, <1>3, Replaced

LEMMA DoneMoves ==
  ASSUME task \in [Procs -> [Steps -> Tasks]], NEW p \in Procs, NEW s \in Steps, Done(p, s)
  PROVE  Moves(p, s, "done")
<1>1. [Idle EXCEPT !.pc = "done"] \in Tasks /\ [Idle EXCEPT !.pc = "done"].pc = "done"
  BY Idles DEF Idle, Points
<1> QED
  BY <1>1, Replaced DEF Done

LEMMA AfterMoves ==
  ASSUME task \in [Procs -> [Steps -> Tasks]], NEW p \in Procs, NEW s \in Steps,
         NEW pc \in Points, task' = After(p, s, pc)
  PROVE  Moves(p, s, pc)
<1>1. [Idle EXCEPT !.pc = pc] \in Tasks /\ [Idle EXCEPT !.pc = pc].pc = pc
  BY Idles DEF Idle
<1>2. \A t \in Tasks : [t EXCEPT !.sure = FALSE] \in Tasks /\ [t EXCEPT !.sure = FALSE].pc = t.pc
  BY DEF Tasks
<1> DEFINE known(q, r) == \/ task'[q][r] = task[q][r]
                          \/ task'[q][r] = [task[q][r] EXCEPT !.sure = FALSE]
<1>3. task'[p][s] = [Idle EXCEPT !.pc = pc]
  BY DEF After
<1>4. \A q \in Procs, r \in Steps : q # p \/ r # s => known(q, r)
  BY DEF After
<1>5. \A q \in Procs : task'[q] = [r \in Steps |-> task'[q][r]]
  BY DEF After
<1>6. task' = [q \in Procs |-> task'[q]]
  BY DEF After
<1>7. ASSUME NEW q \in Procs, NEW r \in Steps PROVE task'[q][r] \in Tasks
  <2>1. task[q][r] \in Tasks
    OBVIOUS
  <2>2. [task[q][r] EXCEPT !.sure = FALSE] \in Tasks
    BY <2>1, <1>2
  <2>3. CASE q = p /\ r = s
    BY <2>3, <1>1, <1>3
  <2>4. CASE q # p \/ r # s
    BY <2>4, <2>1, <2>2, <1>4
  <2> QED
    BY <2>3, <2>4
<1>8. \A q \in Procs : task'[q] \in [Steps -> Tasks]
  BY <1>5, <1>7
<1>9. task' \in [Procs -> [Steps -> Tasks]]
  BY <1>6, <1>8
<1>10. \A q \in Procs, r \in Steps : q # p \/ r # s => task'[q][r].pc = task[q][r].pc
  BY <1>2, <1>4
<1> QED
  BY <1>1, <1>3, <1>9, <1>10 DEF Moves

LEMMA EnterShape ==
  ASSUME task \in [Procs -> [Steps -> Tasks]], NEW p \in Procs, NEW f \in Phases,
         NEW i \in DOMAIN Stages[f], Enter(p, f, i)
  PROVE  /\ task' \in [Procs -> [Steps -> Tasks]]
         /\ \A s \in Steps : task'[p][s].pc = IF s \in Stages[f][i] THEN "check" ELSE "idle"
         /\ \A q \in Procs : q # p => task'[q] = task[q]
<1> DEFINE new == [s \in Steps |-> IF s \in Stages[f][i] THEN [Idle EXCEPT !.pc = "check"] ELSE Idle]
<1>1. [Idle EXCEPT !.pc = "check"] \in Tasks /\ [Idle EXCEPT !.pc = "check"].pc = "check"
  BY Idles DEF Idle, Points
<1>2. Idle \in Tasks /\ Idle.pc = "idle"
  BY Idles DEF Idle
<1>3. task' = [task EXCEPT ![p] = new]
  BY DEF Enter
<1>4. new \in [Steps -> Tasks]
  BY <1>1, <1>2
<1>5. \A s \in Steps : new[s].pc = IF s \in Stages[f][i] THEN "check" ELSE "idle"
  BY <1>1, <1>2
<1> HIDE DEF new
<1> QED
  BY <1>3, <1>4, <1>5

-----------------------------------------------------------------------------
(* The steps of the processes.                                             *)

LEMMA Types ==
  ASSUME file' \in Files, created' \in BOOLEAN, started' \in BOOLEAN,
         proc' \in [Procs -> Procss], task' \in [Procs -> [Steps -> Tasks]],
         launch' \in [Tuis -> Starts],
         tuned' \subseteq Tastes, gone' \subseteq Facts, faults' \in 0 .. MaxFaults
  PROVE  TypeOK'
BY DEF TypeOK, Points, Tasks, Procss, Files, Starts

\* What the markers claim is safe; no taste is among it but in created.
LEMMA Claims ==
  ASSUME tuned' \subseteq Tastes,
         created' => InSeed \union Tastes \subseteq Safe',
         started' => {"auth", "plugins"} \subseteq Safe'
  PROVE  MarkersAreHonest'
<1>1. "auth" \notin Tastes /\ "plugins" \notin Tastes
  BY SettingsAssumption DEF Others
<1> QED
  BY <1>1 DEF MarkersAreHonest, Safe

LEMMA Claimed ==
  ASSUME Inv
  PROVE  /\ created => InSeed \union Tastes \subseteq Safe
         /\ started => {"auth", "plugins"} \subseteq Safe
BY DEF Inv, MarkersAreHonest, Safe

LEMMA Faults == TypeOK /\ (Fault \/ Fine) => faults' \in 0 .. MaxFaults
BY SettingsAssumption DEF TypeOK, Fault, Fine

\* A process goes on with one task, and may fail.
Fails(p) == proc' = [proc EXCEPT ![p].failed = TRUE]

LEMMA Onwards ==
  ASSUME proc \in [Procs -> Procss], NEW p \in Procs, proc' = proc \/ Fails(p)
  PROVE  /\ proc' \in [Procs -> Procss]
         /\ \A q \in Procs : /\ proc'[q].phase = proc[q].phase /\ proc'[q].stage = proc[q].stage
                             /\ proc[q].failed => proc'[q].failed
<1>1. \A x \in Procss : /\ [x EXCEPT !.failed = TRUE] \in Procss
                        /\ [x EXCEPT !.failed = TRUE].phase = x.phase
                        /\ [x EXCEPT !.failed = TRUE].stage = x.stage
                        /\ [x EXCEPT !.failed = TRUE].failed
  BY DEF Procss
<1>2. CASE proc' = proc
  BY <1>2
<1>3. CASE Fails(p)
  <2>1. proc' = [proc EXCEPT ![p] = [proc[p] EXCEPT !.failed = TRUE]]
    BY <1>3 DEF Fails
  <2>2. proc[p] \in Procss
    OBVIOUS
  <2> QED
    BY <2>1, <2>2, <1>1
<1> QED
  BY <1>2, <1>3

LEMMA TaskKept ==
  ASSUME Inv, NEW p \in Procs, NEW s \in Steps, NEW pc \in Points,
         task[p][s].pc # "idle", Moves(p, s, pc), proc' = proc \/ Fails(p),
         pc \in {"tool", "patch"} => s \in Tools,
         pc \in {"copy", "fallback", "copying"} => s = "settings",
         pc = "done" => Wants(s) \subseteq Safe' \/ (s \in Required /\ proc'[p].failed),
         Safe \subseteq Safe',
         file' \in Files, tuned' \subseteq Tastes, gone' \subseteq Facts,
         Fault \/ Fine, launch' = launch,
         created' \in BOOLEAN, created' => created \/ InSeed \union Tastes \subseteq Safe',
         started' \in BOOLEAN, started' => started \/ {"auth", "plugins"} \subseteq Safe'
  PROVE  Inv'
<1> USE DEF Inv
<1>1. proc \in [Procs -> Procss] /\ launch \in [Tuis -> Starts]
  BY Shapes
<1>2. /\ proc' \in [Procs -> Procss]
      /\ \A q \in Procs : /\ proc'[q].phase = proc[q].phase /\ proc'[q].stage = proc[q].stage
                          /\ proc[q].failed => proc'[q].failed
  BY <1>1, Onwards
<1>3. /\ task'[p][s].pc = pc
      /\ \A q \in Procs, r \in Steps : q # p \/ r # s => task'[q][r].pc = task[q][r].pc
  BY DEF Moves
<1>4. TypeOK'
  BY <1>1, <1>2, Types, Faults DEF Moves
<1>5. Within'
  BY <1>2 DEF Within
<1>6. Placed'
  BY <1>2, <1>3 DEF Placed
<1>7. Kinds'
  BY <1>3 DEF Kinds
<1>8. Dones'
  <2> SUFFICES ASSUME NEW q \in Procs, NEW r \in Steps, task'[q][r].pc = "done"
               PROVE  Wants(r) \subseteq Safe' \/ (r \in Required /\ proc'[q].failed)
    BY DEF Dones
  <2>1. CASE q = p /\ r = s
    BY <2>1, <1>3
  <2>2. CASE q # p \/ r # s
    BY <2>2, <1>2, <1>3 DEF Dones
  <2> QED
    BY <2>1, <2>2
<1>9. Behind'
  BY <1>2 DEF Behind, BehindOf
<1>10. MarkersAreHonest'
  BY Claimed, Claims
<1> QED
  BY <1>4, <1>5, <1>6, <1>7, <1>8, <1>9, <1>10

-----------------------------------------------------------------------------
(* Each action of a step.                                                  *)

\* A file in the place of the old one loses nothing unnoticed.
LEMMA PutKeeps ==
  ASSUME TypeOK, NEW p \in Procs, NEW s \in Steps, NEW pc \in Points,
         NEW st, NEW has \in SUBSET Facts, st = "json" \/ (st = "torn" /\ has = {}),
         s \in Tastes => s \in has, Put(p, s, st, has, pc)
  PROVE  /\ Moves(p, s, pc) /\ file' \in Files /\ tuned' \subseteq Tastes /\ gone' \subseteq Facts
         /\ Safe \subseteq Safe' /\ has \subseteq Safe'
<1>1. Moves(p, s, pc)
  BY Shapes, AfterMoves DEF Put
<1>2. file' = [st |-> st, has |-> has] /\ file'.has = has
  BY DEF Put
<1>3. file' \in Files
  BY <1>2 DEF Files
<1>4. file.has \subseteq Facts /\ gone \subseteq Facts /\ tuned \subseteq Tastes
  BY Shapes DEF Files
<1>5. gone' = (gone \union file.has) \ has /\ tuned \ {s} \subseteq tuned' /\ tuned' \subseteq tuned
      /\ (s \notin Tastes => tuned' = tuned)
  BY DEF Put
<1>6. Safe \subseteq Safe'
  BY <1>2, <1>5 DEF Safe
<1> QED
  BY <1>1, <1>2, <1>3, <1>4, <1>5, <1>6 DEF Safe

\* A fact given up is safe.
LEMMA GivenUp ==
  ASSUME TypeOK, NEW s \in Steps, file' = file, tuned' = tuned,
         gone' = gone \union (Wants(s) \ file.has)
  PROVE  /\ file' \in Files /\ tuned' \subseteq Tastes /\ gone' \subseteq Facts
         /\ Safe \subseteq Safe' /\ Wants(s) \subseteq Safe'
<1>1. Wants(s) \subseteq Facts
  BY Purposes
<1> QED
  BY <1>1, Shapes DEF Safe

LEMMA GiveUpKeeps ==
  ASSUME TypeOK, NEW p \in Procs, NEW s \in Steps, GiveUp(p, s)
  PROVE  /\ Moves(p, s, "done") /\ (proc' = proc \/ Fails(p))
         /\ file' \in Files /\ tuned' \subseteq Tastes /\ gone' \subseteq Facts
         /\ Safe \subseteq Safe'
         /\ Wants(s) \subseteq Safe' \/ (s \in Required /\ proc'[p].failed)
<1>1. Moves(p, s, "done")
  BY Shapes, DoneMoves DEF GiveUp
<1>2. CASE s \in Required
  <2>1. Fails(p) /\ UNCHANGED <<file, gone, tuned>>
    BY <1>2 DEF GiveUp, Fails
  <2>2. proc'[p].failed
    BY <2>1, Shapes DEF Fails, Procss
  <2> QED
    BY <1>1, <1>2, <2>1, <2>2, Shapes DEF Safe
<1>3. CASE s \notin Required
  <2>1. /\ proc' = proc /\ file' = file /\ tuned' = tuned
        /\ gone' = gone \union (Wants(s) \ file.has)
    BY <1>3 DEF GiveUp
  <2> QED
    BY <1>1, <2>1, GivenUp
<1> QED
  BY <1>2, <1>3

\* Nothing of the file changes.
LEMMA Same ==
  ASSUME TypeOK, UNCHANGED <<file, tuned, gone>>
  PROVE  file' \in Files /\ tuned' \subseteq Tastes /\ gone' \subseteq Facts /\ Safe' = Safe
BY Shapes DEF Safe

LEMMA MarksStay ==
  ASSUME TypeOK, UNCHANGED marks
  PROVE  created' \in BOOLEAN /\ started' \in BOOLEAN /\ created' = created /\ started' = started
BY Shapes DEF marks

LEMMA CheckKept ==
  ASSUME Inv, NEW p \in Procs, NEW s \in Steps, Check(p, s)
  PROVE  Inv'
<1>1. TypeOK /\ task[p][s].pc # "idle" /\ Fine /\ launch' = launch /\ proc' = proc
      /\ file' = file /\ tuned' = tuned /\ UNCHANGED marks
  BY DEF Inv, Check, Fine
<1>2. CASE Done(p, s) /\ gone' = gone \union (Wants(s) \ file.has)
  <2>1. Moves(p, s, "done") /\ "done" \in Points
    BY <1>1, <1>2, Shapes, DoneMoves DEF Points
  <2> QED
    BY <1>1, <1>2, <2>1, GivenUp, MarksStay, TaskKept
<1>3. CASE Go(p, s, IF s \in Tools THEN "tool" ELSE "lock") /\ UNCHANGED gone
  <2> DEFINE pc == IF s \in Tools THEN "tool" ELSE "lock"
  <2>1. pc \in Points /\ (pc \in {"tool", "patch"} => s \in Tools)
        /\ pc \notin {"copy", "fallback", "copying", "done"}
    BY DEF Points
  <2>2. Go(p, s, pc)
    BY <1>3
  <2> HIDE DEF pc
  <2>3. Moves(p, s, pc)
    BY <1>1, <2>1, <2>2, Shapes, GoMoves
  <2> QED
    BY <1>1, <1>3, <2>1, <2>3, Same, MarksStay, TaskKept
<1> QED
  BY <1>2, <1>3 DEF Check

LEMMA NextOfTool ==
  ASSUME NEW s \in Tools, NEW pc \in AfterTool(s)
  PROVE  /\ pc \in Points /\ pc \notin {"patch", "copy", "fallback", "copying"}
         /\ pc = "done" => Wants(s) \subseteq {"rtk"}
         /\ s \notin Tastes
<1>1. s \notin Tastes
  BY SettingsAssumption DEF Tools, Others, Names
<1>2. CASE s = "plugins"
  BY <1>1, <1>2 DEF AfterTool, Points
<1>3. CASE s = "harness"
  BY <1>1, <1>3, Purposes DEF AfterTool, Points
<1>4. CASE s = "rtk"
  BY <1>1, <1>4, Purposes DEF AfterTool, Points
<1> QED
  BY <1>2, <1>3, <1>4 DEF Tools

LEMMA Reading ==
  ASSUME TypeOK, NEW p \in Procs, NEW s \in Steps, NEW pc \in Points,
         task' = [task EXCEPT ![p][s] = [pc |-> pc, snap |-> file.has, sure |-> TRUE]]
  PROVE  Moves(p, s, pc)
<1>1. file.has \subseteq Facts
  BY Shapes DEF Files
<1>2. [pc |-> pc, snap |-> file.has, sure |-> TRUE] \in Tasks
  BY <1>1 DEF Tasks
<1> QED
  BY <1>2, Shapes, Replaced

LEMMA ToolKept ==
  ASSUME Inv, NEW p \in Procs, NEW s \in Steps, Tool(p, s)
  PROVE  Inv'
<1>1. /\ TypeOK /\ task[p][s].pc = "tool" /\ s \in Tools /\ Fine /\ launch' = launch
      /\ proc' = proc /\ UNCHANGED <<file, tuned, gone>> /\ UNCHANGED marks
  BY DEF Inv, Tool, Kinds, Fine
<1>2. CASE task' = [task EXCEPT ![p][s] = [pc |-> "patch", snap |-> file.has, sure |-> TRUE]]
  <2>1. Moves(p, s, "patch") /\ "patch" \in Points
    BY <1>1, <1>2, Reading DEF Points
  <2> QED
    BY <1>1, <2>1, Same, MarksStay, TaskKept
<1>3. ASSUME NEW pc \in AfterTool(s), s = "rtk" => "rtk" \in file.has, Go(p, s, pc)
      PROVE  Inv'
  <2>1. /\ pc \in Points /\ pc \notin {"patch", "copy", "fallback", "copying"}
        /\ pc = "done" => Wants(s) \subseteq {"rtk"}
    BY <1>1, NextOfTool
  <2>2. pc = "done" => Wants(s) \subseteq Safe
    <3>1. CASE s = "rtk"
      BY <2>1, <1>3, <3>1 DEF Safe
    <3>2. CASE s = "harness"
      BY <3>2, Purposes
    <3>3. CASE s = "plugins"
      BY <3>3, <1>3 DEF AfterTool
    <3> QED
      BY <1>1, <3>1, <3>2, <3>3 DEF Tools
  <2>3. Moves(p, s, pc)
    BY <1>1, <1>3, <2>1, Shapes, GoMoves
  <2> QED
    BY <1>1, <2>1, <2>2, <2>3, Same, MarksStay, TaskKept
<1> QED
  BY <1>2, <1>3 DEF Tool

LEMMA PatchKept ==
  ASSUME Inv, NEW p \in Procs, NEW s \in Steps, Patch(p, s)
  PROVE  Inv'
<1>1. /\ TypeOK /\ task[p][s].pc = "patch" /\ s \in Tools /\ Fine /\ launch' = launch
      /\ proc' = proc /\ UNCHANGED marks
  BY DEF Inv, Patch, Kinds, Fine
<1> DEFINE has == task[p][s].snap \union (Wants(s) \intersect {"rtk"})
<1>2. PICK pc \in AfterTool(s) : Put(p, s, "json", has, pc)
  BY DEF Patch
<1>3. /\ pc \in Points /\ pc \notin {"patch", "copy", "fallback", "copying"}
      /\ pc = "done" => Wants(s) \subseteq {"rtk"}
      /\ s \notin Tastes
  BY <1>1, NextOfTool
<1>4. has \in SUBSET Facts
  <2>1. task[p][s] \in Tasks
    BY <1>1, Shapes
  <2> QED
    BY <2>1, Purposes DEF Tasks
<1>5. pc = "done" => Wants(s) \subseteq has
  BY <1>3
<1> HIDE DEF has
<1>6. /\ Moves(p, s, pc) /\ file' \in Files /\ tuned' \subseteq Tastes /\ gone' \subseteq Facts
      /\ Safe \subseteq Safe' /\ has \subseteq Safe'
  BY <1>1, <1>2, <1>3, <1>4, PutKeeps
<1> QED
  BY <1>1, <1>3, <1>5, <1>6, MarksStay, TaskKept

LEMMA ToolFailsKept ==
  ASSUME Inv, NEW p \in Procs, NEW s \in Steps, ToolFails(p, s)
  PROVE  Inv'
<1>1. /\ TypeOK /\ task[p][s].pc # "idle" /\ s \in Tools /\ (Fault \/ Fine)
      /\ launch' = launch /\ proc' = proc /\ file' = file /\ tuned' = tuned
      /\ gone' = gone \union (Wants(s) \ file.has) /\ UNCHANGED marks
  BY DEF Inv, ToolFails, Kinds
<1>2. PICK pc \in AfterTool(s) : Go(p, s, pc)
  BY DEF ToolFails
<1>3. pc \in Points /\ pc \notin {"patch", "copy", "fallback", "copying"}
  BY <1>1, NextOfTool
<1>4. Moves(p, s, pc)
  BY <1>1, <1>2, <1>3, Shapes, GoMoves
<1> QED
  BY <1>1, <1>3, <1>4, GivenUp, MarksStay, TaskKept

LEMMA LockKept ==
  ASSUME Inv, NEW p \in Procs, NEW s \in Steps, Lock(p, s)
  PROVE  Inv'
<1>1. /\ TypeOK /\ task[p][s].pc # "idle" /\ Fine /\ launch' = launch /\ UNCHANGED marks
  BY DEF Inv, Lock, Fine
<1>2. ASSUME NEW pc, pc = "write" \/ (pc = "copy" /\ s = "settings"),
             task' = [task EXCEPT ![p][s] = [pc |-> pc, snap |-> file.has, sure |-> TRUE]],
             UNCHANGED <<file, proc, tuned, gone>>
      PROVE  Inv'
  <2>1. /\ pc \in Points /\ pc \notin {"tool", "patch", "fallback", "copying", "done"}
        /\ pc = "copy" => s = "settings"
    BY <1>2 DEF Points
  <2>2. Moves(p, s, pc)
    BY <1>1, <1>2, <2>1, Reading
  <2>3. UNCHANGED <<file, tuned, gone>> /\ proc' = proc
    BY <1>2
  <2> QED
    BY <1>1, <2>1, <2>2, <2>3, Same, MarksStay, TaskKept
<1>3. CASE GiveUp(p, s)
  <2>1. /\ "done" \in Points /\ "done" \notin {"tool", "patch", "copy", "fallback", "copying"}
    BY DEF Points
  <2> QED
    BY <1>1, <1>3, <2>1, GiveUpKeeps, MarksStay, TaskKept
<1> QED
  BY <1>2, <1>3 DEF Lock

\* The results that the steps under the lock put in the place of the file.
LEMMA Results ==
  ASSUME NEW s \in Steps, NEW snap \in SUBSET Facts
  PROVE  /\ Merged(s, snap) \in SUBSET Facts /\ Wants(s) \subseteq Merged(s, snap)
         /\ s \in Tastes => s \in Merged(s, snap)
<1>1. "settings" \notin Tastes
  BY SettingsAssumption DEF Names
<1>2. CASE s = "settings"
  BY <1>1, <1>2, Purposes DEF Merged, InSeed, Facts, Others
<1>3. CASE s # "settings"
  BY <1>3, Purposes DEF Merged
<1> QED
  BY <1>2, <1>3

LEMMA WriteKept ==
  ASSUME Inv, NEW p \in Procs, NEW s \in Steps, Write(p, s)
  PROVE  Inv'
<1> DEFINE has == Merged(s, task[p][s].snap)
<1>1. /\ TypeOK /\ task[p][s].pc # "idle" /\ Fine /\ launch' = launch /\ proc' = proc
      /\ UNCHANGED marks /\ Put(p, s, "json", has, "done")
  BY DEF Inv, Write, Fine
<1>2. task[p][s].snap \in SUBSET Facts
  <2>1. task[p][s] \in Tasks
    BY <1>1, Shapes
  <2> QED
    BY <2>1 DEF Tasks
<1>3. has \in SUBSET Facts /\ Wants(s) \subseteq has /\ (s \in Tastes => s \in has)
  BY <1>2, Results
<1>4. "done" \in Points /\ "done" \notin {"tool", "patch", "copy", "fallback", "copying"}
  BY DEF Points
<1> HIDE DEF has
<1>5. /\ Moves(p, s, "done") /\ file' \in Files /\ tuned' \subseteq Tastes
      /\ gone' \subseteq Facts /\ Safe \subseteq Safe' /\ has \subseteq Safe'
  BY <1>1, <1>3, <1>4, PutKeeps
<1> QED
  BY <1>1, <1>3, <1>4, <1>5, MarksStay, TaskKept

\* A step that gives up.
LEMMA GiveUpKept ==
  ASSUME Inv, NEW p \in Procs, NEW s \in Steps, task[p][s].pc # "idle", GiveUp(p, s),
         Fault, launch' = launch, UNCHANGED marks
  PROVE  Inv'
<1>1. "done" \in Points /\ "done" \notin {"tool", "patch", "copy", "fallback", "copying"}
  BY DEF Points
<1>2. TypeOK
  BY DEF Inv
<1> QED
  BY <1>1, <1>2, GiveUpKeeps, MarksStay, TaskKept

LEMMA WriteFailsKept ==
  ASSUME Inv, NEW p \in Procs, NEW s \in Steps, WriteFails(p, s)
  PROVE  Inv'
<1>1. TypeOK /\ task[p][s].pc # "idle" /\ Fault /\ launch' = launch /\ UNCHANGED marks
  BY DEF Inv, WriteFails
<1>2. CASE s = "settings"
  <2>1. Go(p, s, "fallback") /\ UNCHANGED <<file, tuned, gone>> /\ proc' = proc
    BY <1>2 DEF WriteFails
  <2>2. "fallback" \in Points /\ "fallback" \notin {"tool", "patch", "done"}
    BY DEF Points
  <2>3. Moves(p, s, "fallback")
    BY <1>1, <2>1, <2>2, Shapes, GoMoves
  <2> QED
    BY <1>1, <1>2, <2>1, <2>2, <2>3, Same, MarksStay, TaskKept
<1>3. CASE s # "settings"
  <2>1. GiveUp(p, s)
    BY <1>3 DEF WriteFails
  <2> QED
    BY <1>1, <2>1, GiveUpKept
<1> QED
  BY <1>2, <1>3

LEMMA CopyKept ==
  ASSUME Inv, NEW p \in Procs, NEW s \in Steps, Copy(p, s) \/ Copied(p, s)
  PROVE  Inv'
<1>1. /\ TypeOK /\ task[p][s].pc # "idle" /\ Fine /\ launch' = launch /\ proc' = proc
      /\ UNCHANGED marks /\ s = "settings" /\ s \notin Tastes
  BY SettingsAssumption DEF Inv, Copy, Copied, Kinds, Fine, Names
<1>2. /\ "copying" \in Points /\ "copying" \notin {"tool", "patch", "done"}
      /\ "done" \in Points /\ "done" \notin {"tool", "patch", "copy", "fallback", "copying"}
  BY DEF Points
<1>3. {} \in SUBSET Facts /\ InSeed \in SUBSET Facts /\ Wants(s) \subseteq InSeed
  BY <1>1, Purposes DEF Facts, InSeed, Others
<1>4. CASE Copy(p, s)
  <2>1. Put(p, s, "torn", {}, "copying")
    BY <1>4 DEF Copy
  <2>2. /\ Moves(p, s, "copying") /\ file' \in Files /\ tuned' \subseteq Tastes
        /\ gone' \subseteq Facts /\ Safe \subseteq Safe'
    BY <1>1, <1>2, <1>3, <2>1, PutKeeps
  <2> QED
    BY <1>1, <1>2, <2>2, MarksStay, TaskKept
<1>5. CASE Copied(p, s)
  <2>1. Put(p, s, "json", InSeed, "done")
    BY <1>5 DEF Copied
  <2>2. /\ Moves(p, s, "done") /\ file' \in Files /\ tuned' \subseteq Tastes
        /\ gone' \subseteq Facts /\ Safe \subseteq Safe' /\ InSeed \subseteq Safe'
    BY <1>1, <1>2, <1>3, <2>1, PutKeeps
  <2> QED
    BY <1>1, <1>2, <1>3, <2>2, MarksStay, TaskKept
<1> QED
  BY <1>4, <1>5

LEMMA CopyFailsKept ==
  ASSUME Inv, NEW p \in Procs, NEW s \in Steps, CopyFails(p, s)
  PROVE  Inv'
BY GiveUpKept DEF CopyFails

\* A process that comes to its marker has what the marker stands for behind it.
LEMMA AtMarker ==
  ASSUME Inv, NEW p \in Procs, NEW s \in Marks \intersect Steps, task[p][s].pc # "idle",
         ~proc[p].failed
  PROVE  /\ s = "create-marker" => InSeed \union Tastes \subseteq Safe
         /\ s = "start-marker" => {"auth", "plugins"} \subseteq Safe
<1>1. /\ proc[p].phase # "off" /\ proc[p].stage \in DOMAIN Stages[proc[p].phase]
      /\ s \in Stages[proc[p].phase][proc[p].stage]
  BY DEF Inv, Placed
<1>2. proc[p].phase \in Phases
  BY <1>1, Shapes DEF Inv, Procss
<1>3. s \notin Tastes
  BY SettingsAssumption DEF Names, Marks
<1>4. CASE s = "create-marker"
  <2>1. proc[p].phase = "create" /\ proc[p].stage = 3
    BY <1>1, <1>2, <1>3, <1>4, Groups
  <2> QED
    BY <1>4, <2>1 DEF Inv, Behind, BehindOf
<1>5. CASE s = "start-marker"
  <2>1. proc[p].phase = "start" /\ proc[p].stage = 3
    BY <1>1, <1>2, <1>3, <1>5, Groups
  <2> QED
    BY <1>5, <2>1 DEF Inv, Behind, BehindOf
<1> QED
  BY <1>4, <1>5 DEF Marks

LEMMA MarkKept ==
  ASSUME Inv, NEW p \in Procs, NEW s \in Steps, Mark(p, s)
  PROVE  Inv'
<1>1. TypeOK /\ task[p][s].pc # "idle" /\ s \in Marks \intersect Steps /\ launch' = launch
  BY DEF Inv, Mark
<1>2. "done" \in Points /\ "done" \notin {"tool", "patch", "copy", "fallback", "copying"}
  BY DEF Points
<1>3. Wants(s) \subseteq Safe
  BY <1>1, Purposes DEF Marks
<1>4. ASSUME Done(p, s), Fine, UNCHANGED <<file, proc, tuned, gone>>,
             \/ UNCHANGED marks
             \/ /\ ~proc[p].failed
                /\ created' = (created \/ s = "create-marker")
                /\ started' = (started \/ s = "start-marker")
      PROVE  Inv'
  <2>1. Moves(p, s, "done")
    BY <1>1, <1>4, Shapes, DoneMoves
  <2>2. UNCHANGED <<file, tuned, gone>> /\ proc' = proc
    BY <1>4
  <2>3. /\ file' \in Files /\ tuned' \subseteq Tastes /\ gone' \subseteq Facts /\ Safe' = Safe
    BY <1>1, <2>2, Same
  <2>4. /\ created' \in BOOLEAN /\ started' \in BOOLEAN
        /\ created' => created \/ InSeed \union Tastes \subseteq Safe'
        /\ started' => started \/ {"auth", "plugins"} \subseteq Safe'
    <3>1. CASE UNCHANGED marks
      BY <1>1, <3>1, MarksStay
    <3>2. CASE /\ ~proc[p].failed
               /\ created' = (created \/ s = "create-marker")
               /\ started' = (started \/ s = "start-marker")
      BY <1>1, <2>3, <3>2, AtMarker
    <3> QED
      BY <1>4, <3>1, <3>2
  <2> QED
    BY <1>1, <1>2, <1>3, <1>4, <2>1, <2>2, <2>3, <2>4, TaskKept
<1>5. CASE ~proc[p].failed /\ Fault /\ GiveUp(p, s) /\ UNCHANGED marks
  BY <1>1, <1>5, GiveUpKept
<1>6. CASE proc[p].failed /\ Done(p, s) /\ Fine /\ UNCHANGED <<file, marks, proc, tuned, gone>>
  <2>1. UNCHANGED <<file, proc, tuned, gone>> /\ UNCHANGED marks
    BY <1>6
  <2> QED
    BY <1>4, <1>6, <2>1
<1>7. CASE /\ ~proc[p].failed /\ Done(p, s) /\ Fine /\ UNCHANGED <<file, proc, tuned, gone>>
           /\ created' = (created \/ s = "create-marker")
           /\ started' = (started \/ s = "start-marker")
  BY <1>4, <1>7
<1> QED
  BY <1>5, <1>6, <1>7 DEF Mark

-----------------------------------------------------------------------------
(* The processes and the launches.                                         *)

\* A process goes on as it is, ends, or enters a group with all that the groups
\* before it are there for.
Enters(q, f, i) ==
  /\ proc'[q].phase = f /\ proc'[q].stage = i
  /\ \A s \in Steps : task'[q][s].pc = IF s \in Stages[f][i] THEN "check" ELSE "idle"
Ends(q) == proc'[q] = Off /\ \A s \in Steps : task'[q][s].pc = "idle"

LEMMA ProcsKept ==
  ASSUME Inv, UNCHANGED <<file, tuned, gone>>, created' = created, started' \in {started, FALSE},
         proc' \in [Procs -> Procss], task' \in [Procs -> [Steps -> Tasks]],
         launch' \in [Tuis -> Starts], Fault \/ Fine,
         \A q \in Procs :
           \/ proc'[q] = proc[q] /\ task'[q] = task[q]
           \/ Ends(q)
           \/ BehindOf(q)' /\ \E f \in Phases : \E i \in DOMAIN Stages[f] : Enters(q, f, i)
  PROVE  Inv'
<1>1. TypeOK
  BY DEF Inv
<1>2. file' \in Files /\ tuned' \subseteq Tastes /\ gone' \subseteq Facts /\ Safe' = Safe
  BY <1>1, Same
<1>3. created' \in BOOLEAN /\ started' \in BOOLEAN
  BY <1>1, Shapes
<1>4. TypeOK'
  BY <1>1, <1>2, <1>3, Types, Faults
<1>5. MarkersAreHonest'
  <2>1. started' => started
    OBVIOUS
  <2> QED
    BY <2>1, <1>2, Claimed, Claims
<1>6. ASSUME NEW q \in Procs
      PROVE  /\ proc'[q].phase # "off" => proc'[q].stage \in DOMAIN Stages[proc'[q].phase]
             /\ \A s \in Steps :
                  /\ task'[q][s].pc # "idle" =>
                       /\ proc'[q].phase # "off"
                       /\ proc'[q].stage \in DOMAIN Stages[proc'[q].phase]
                       /\ s \in Stages[proc'[q].phase][proc'[q].stage]
                  /\ task'[q][s].pc \in {"tool", "patch"} => s \in Tools
                  /\ task'[q][s].pc \in {"copy", "fallback", "copying"} => s = "settings"
                  /\ task'[q][s].pc = "done" =>
                       Wants(s) \subseteq Safe' \/ (s \in Required /\ proc'[q].failed)
             /\ BehindOf(q)'
  <2>1. CASE proc'[q] = proc[q] /\ task'[q] = task[q]
    BY <1>2, <2>1 DEF Inv, Within, Placed, Kinds, Dones, Behind, BehindOf
  <2>2. CASE Ends(q)
    BY <2>2 DEF Ends, Off, BehindOf
  <2>3. CASE BehindOf(q)' /\ \E f \in Phases : \E i \in DOMAIN Stages[f] : Enters(q, f, i)
    <3>1. PICK f \in Phases : \E i \in DOMAIN Stages[f] : Enters(q, f, i)
      BY <2>3
    <3>2. PICK i \in DOMAIN Stages[f] : Enters(q, f, i)
      BY <3>1
    <3>3. f # "off"
      BY Groups
    <3> QED
      BY <2>3, <3>2, <3>3 DEF Enters
  <2> QED
    BY <2>1, <2>2, <2>3
<1>7. Within' /\ Placed'
  BY <1>6 DEF Within, Placed
<1>8. Kinds' /\ Dones' /\ Behind'
  BY <1>6 DEF Kinds, Dones, Behind
<1> QED
  BY <1>4, <1>5, <1>7, <1>8 DEF Inv

\* The steps of a group that is through have made their facts safe.
LEMMA GroupDone ==
  ASSUME Inv, NEW p \in Procs, proc[p].phase \in Phases,
         proc[p].stage \in DOMAIN Stages[proc[p].phase], Settled(p)
  PROVE  /\ proc[p].phase = "create" /\ proc[p].stage = 1 => InSeed \subseteq Safe
         /\ proc[p].phase = "create" /\ proc[p].stage = 2 => Tastes \subseteq Safe
         /\ proc[p].phase = "start" /\ proc[p].stage = 1 => proc[p].failed \/ "auth" \in Safe
         /\ proc[p].phase = "start" /\ proc[p].stage = 2 => "plugins" \in Safe
<1>1. ASSUME NEW s \in Stages[proc[p].phase][proc[p].stage]
      PROVE  Wants(s) \subseteq Safe \/ (s \in Required /\ proc[p].failed)
  <2>1. s \in Steps
    BY InSteps
  <2> QED
    BY <2>1 DEF Inv, Dones, Settled
<1>2. CASE proc[p].phase = "create" /\ proc[p].stage = 1
  <2>1. /\ Wants("settings") \subseteq Safe \/ "settings" \in Required
        /\ Wants("onboarding") \subseteq Safe \/ "onboarding" \in Required
    BY <1>1, <1>2, Groups
  <2> QED
    BY <1>2, <2>1, Purposes DEF Required, Marks, InSeed
<1>3. CASE proc[p].phase = "create" /\ proc[p].stage = 2
  <2>1. ASSUME NEW f \in Tastes PROVE f \in Safe
    <3>1. Wants(f) \subseteq Safe \/ f \in Required
      BY <1>1, <1>3, Groups
    <3>2. f \notin Required
      BY SettingsAssumption DEF Required, Marks, Names
    <3>3. Wants(f) = {f}
      BY Purposes
    <3> QED
      BY <3>1, <3>2, <3>3
  <2> QED
    BY <1>3, <2>1
<1>4. CASE proc[p].phase = "start" /\ proc[p].stage = 1
  <2>1. Wants("settings-env") \subseteq Safe \/ proc[p].failed
    BY <1>1, <1>4, Groups
  <2> QED
    BY <1>4, <2>1, Purposes
<1>5. CASE proc[p].phase = "start" /\ proc[p].stage = 2
  <2>1. Wants("plugins") \subseteq Safe \/ "plugins" \in Required
    BY <1>1, <1>5, Groups
  <2> QED
    BY <1>5, <2>1, Purposes DEF Required, Marks
<1> QED
  BY <1>2, <1>3, <1>4, <1>5

LEMMA NextGroupKept ==
  ASSUME Inv, NEW p \in Procs, NextGroup(p)
  PROVE  Inv'
<1> DEFINE f == proc[p].phase
           i == proc[p].stage
<1>1. /\ TypeOK /\ f # "off" /\ Settled(p) /\ i < Len(Stages[f]) /\ Enter(p, f, i + 1)
      /\ proc' = [proc EXCEPT ![p].stage = i + 1] /\ launch' = launch /\ Fine
      /\ UNCHANGED <<file, tuned, gone>> /\ UNCHANGED marks
  BY DEF Inv, NextGroup, Fine
<1>2. proc \in [Procs -> Procss] /\ task \in [Procs -> [Steps -> Tasks]]
      /\ launch \in [Tuis -> Starts] /\ Safe' = Safe
  BY <1>1, Shapes, Same
<1>3. proc[p] \in Procss /\ f \in Phases /\ i \in DOMAIN Stages[f]
  BY <1>1, <1>2 DEF Procss, Inv, Within
<1>4. i + 1 \in DOMAIN Stages[f] /\ i + 1 \in 0 .. 3
  <2>1. i < Len(Stages[f]) /\ i \in DOMAIN Stages[f]
    BY <1>1, <1>3
  <2>2. f = "create" \/ f = "start" \/ f = "plugins" \/ f = "harness"
    BY <1>3, Groups
  <2> HIDE DEF f, i
  <2>3. CASE f = "create"
    BY <2>1, <2>3, Groups
  <2>4. CASE f = "start"
    BY <2>1, <2>4, Groups
  <2>5. CASE f = "plugins" \/ f = "harness"
    BY <2>1, <2>5, Groups
  <2> QED
    BY <2>2, <2>3, <2>4, <2>5
<1>5. /\ [proc[p] EXCEPT !.stage = i + 1] \in Procss
      /\ [proc[p] EXCEPT !.stage = i + 1].stage = i + 1
      /\ [proc[p] EXCEPT !.stage = i + 1].phase = f
      /\ [proc[p] EXCEPT !.stage = i + 1].failed = proc[p].failed
  BY <1>3, <1>4 DEF Procss
<1>6. proc' = [proc EXCEPT ![p] = [proc[p] EXCEPT !.stage = i + 1]]
  BY <1>1
<1>7. /\ proc' \in [Procs -> Procss] /\ proc'[p].stage = i + 1 /\ proc'[p].phase = f
      /\ proc'[p].failed = proc[p].failed
      /\ \A q \in Procs : q # p => proc'[q] = proc[q]
  BY <1>2, <1>5, <1>6
<1>8. /\ task' \in [Procs -> [Steps -> Tasks]]
      /\ \A s \in Steps : task'[p][s].pc = IF s \in Stages[f][i + 1] THEN "check" ELSE "idle"
      /\ \A q \in Procs : q # p => task'[q] = task[q]
  BY <1>1, <1>2, <1>3, <1>4, EnterShape
<1>9. BehindOf(p)'
  <2>1. BehindOf(p)
    BY DEF Inv, Behind
  <2>2. i \in 1 .. 3
    BY <1>3, Groups
  <2>3. /\ f = "create" /\ i = 1 => InSeed \subseteq Safe
        /\ f = "create" /\ i = 2 => Tastes \subseteq Safe
        /\ f = "start" /\ i = 1 => proc[p].failed \/ "auth" \in Safe
        /\ f = "start" /\ i = 2 => "plugins" \in Safe
    BY <1>1, <1>3, GroupDone
  <2>4. i + 1 <= 3
    BY <1>4
  <2> QED
    BY <1>2, <1>7, <2>1, <2>2, <2>3, <2>4 DEF BehindOf
<1>10. Enters(p, f, i + 1)
  BY <1>7, <1>8 DEF Enters
<1> HIDE DEF f, i
<1> QED
  BY <1>1, <1>2, <1>3, <1>4, <1>7, <1>8, <1>9, <1>10, MarksStay, ProcsKept

\* A launch stays a launch, whatever it waits for.
LEMMA LaunchShapes ==
  ASSUME NEW l \in Starts
  PROVE  /\ Onward(l) \in Starts /\ Rest \in Starts
         /\ \A pc \in {"create", "ready"} : [l EXCEPT !.pc = pc] \in Starts
         /\ \A w \in SUBSET Procs : [l EXCEPT !.waits = w] \in Starts
         /\ \A d \in SUBSET {"plugins", "harness"} : [l EXCEPT !.todo = d] \in Starts
         /\ \A w \in SUBSET Procs : \A d \in SUBSET {"plugins", "harness"} :
              [l EXCEPT !.waits = w, !.todo = d] \in Starts
         /\ \A q \in Procs : l.waits \ {q} \in SUBSET Procs /\ l.waits \union {q} \in SUBSET Procs
         /\ l.todo \in SUBSET {"plugins", "harness"}
<1>1. Onward(l) \in Starts
  BY DEF Onward, Starts
<1>2. Rest \in Starts
  BY DEF Rest, Starts
<1> QED
  BY <1>1, <1>2 DEF Starts

LEMMA ExitKept ==
  ASSUME Inv, NEW p \in Procs, Exit(p)
  PROVE  Inv'
<1>1. /\ TypeOK /\ Fine /\ UNCHANGED <<file, tuned, gone>> /\ UNCHANGED marks
      /\ proc' = [proc EXCEPT ![p] = Off]
      /\ task' = [task EXCEPT ![p] = [s \in Steps |-> Idle]]
  BY DEF Inv, Exit, Fine
<1>2. proc \in [Procs -> Procss] /\ task \in [Procs -> [Steps -> Tasks]]
      /\ launch \in [Tuis -> Starts]
  BY <1>1, Shapes
<1>3. Off \in Procss /\ Idle \in Tasks /\ Idle.pc = "idle"
  BY Idles DEF Off, Procss, Idle
<1>4. proc' \in [Procs -> Procss] /\ task' \in [Procs -> [Steps -> Tasks]]
  BY <1>1, <1>2, <1>3
<1>5. Ends(p) /\ \A q \in Procs : q # p => proc'[q] = proc[q] /\ task'[q] = task[q]
  BY <1>1, <1>2, <1>3 DEF Ends
<1>6. launch' \in [Tuis -> Starts]
  <2>1. \A l \in Starts : Onward(l) \in Starts /\ [l EXCEPT !.waits = @ \ {p}] \in Starts
    BY LaunchShapes
  <2>2. launch' = [t \in Tuis |->
          IF p \notin launch[t].waits THEN launch[t]
          ELSE IF launch[t].pc = "apply" \/ proc[p].failed
          THEN [launch[t] EXCEPT !.waits = @ \ {p}]
          ELSE Onward(launch[t])]
    BY DEF Exit
  <2> QED
    BY <1>2, <2>1, <2>2
<1>7. created' = created /\ started' \in {started, FALSE}
  BY <1>1, MarksStay
<1> QED
  BY <1>1, <1>4, <1>5, <1>6, <1>7, ProcsKept

\* What the host does by itself.
LEMMA HostKept ==
  ASSUME Inv, launch' \in [Tuis -> Starts], Fault \/ Fine, UNCHANGED <<proc, task>>,
         UNCHANGED <<file, tuned, gone>>, UNCHANGED marks
  PROVE  Inv'
<1>1. TypeOK
  BY DEF Inv
<1>2. created' = created /\ started' \in {started, FALSE}
  BY <1>1, MarksStay
<1>3. proc' \in [Procs -> Procss] /\ task' \in [Procs -> [Steps -> Tasks]]
  BY <1>1, Shapes
<1> QED
  BY <1>2, <1>3, ProcsKept

LEMMA SpawnKept ==
  ASSUME Inv, NEW t \in Tuis, NEW p \in Procs, NEW f \in Phases,
         NEW d \in SUBSET {"plugins", "harness"}, Spawn(t, p, f, d), Fine,
         UNCHANGED <<file, tuned, gone>>, UNCHANGED marks
  PROVE  Inv'
<1>1. TypeOK
  BY DEF Inv
<1>2. proc \in [Procs -> Procss] /\ task \in [Procs -> [Steps -> Tasks]]
      /\ launch \in [Tuis -> Starts]
  BY <1>1, Shapes
<1>3. 1 \in DOMAIN Stages[f]
  BY Groups
<1>4. [phase |-> f, stage |-> 1, failed |-> FALSE] \in Procss
  BY DEF Procss
<1>5. proc' = [proc EXCEPT ![p] = [phase |-> f, stage |-> 1, failed |-> FALSE]]
  BY DEF Spawn
<1>6. /\ proc' \in [Procs -> Procss] /\ proc'[p].phase = f /\ proc'[p].stage = 1
      /\ \A q \in Procs : q # p => proc'[q] = proc[q]
  BY <1>2, <1>4, <1>5
<1>7. Enter(p, f, 1)
  BY DEF Spawn
<1>8. /\ task' \in [Procs -> [Steps -> Tasks]]
      /\ \A s \in Steps : task'[p][s].pc = IF s \in Stages[f][1] THEN "check" ELSE "idle"
      /\ \A q \in Procs : q # p => task'[q] = task[q]
  BY <1>2, <1>3, <1>7, EnterShape
<1>9. BehindOf(p)' /\ Enters(p, f, 1)
  BY <1>6, <1>8 DEF BehindOf, Enters
<1>10. launch' \in [Tuis -> Starts]
  <2>1. launch' = [launch EXCEPT ![t] =
                     [launch[t] EXCEPT !.waits = launch[t].waits \union {p}, !.todo = d]]
    BY <1>2 DEF Spawn, Starts
  <2> QED
    BY <1>2, <2>1, LaunchShapes
<1>11. created' = created /\ started' \in {started, FALSE}
  BY <1>1, MarksStay
<1> QED
  BY <1>3, <1>6, <1>8, <1>9, <1>10, <1>11, ProcsKept

LEMMA LaunchKept ==
  ASSUME Inv, NEW t \in Tuis, LaunchStep(t)
  PROVE  Inv'
<1>1. launch \in [Tuis -> Starts] /\ launch[t] \in Starts
  BY Shapes DEF Inv
<1>2. Fault \/ Fine
  BY DEF LaunchStep, Launch, Provision, Apply, Ready, Abandon, End, Fine
<1>3. UNCHANGED <<file, tuned, gone>> /\ UNCHANGED marks
  BY DEF LaunchStep, Launch, Provision, Apply, Ready, Abandon, End
<1>4. CASE Launch(t)
  <2>1. launch' \in [Tuis -> Starts] /\ UNCHANGED <<proc, task>>
    BY <1>1, <1>4, LaunchShapes DEF Launch
  <2> QED
    BY <1>2, <1>3, <2>1, HostKept
<1>5. CASE Provision(t)
  <2>1. CASE launch' = [launch EXCEPT ![t] = Onward(@)] /\ UNCHANGED <<proc, task>>
    <3>1. launch' \in [Tuis -> Starts]
      BY <1>1, <2>1, LaunchShapes
    <3> QED
      BY <1>2, <1>3, <2>1, <3>1, HostKept
  <2>2. ASSUME NEW p \in Procs, Spawn(t, p, launch[t].pc, {}) PROVE Inv'
    <3>1. launch[t].pc \in Phases /\ Fine
      BY <1>5, Groups DEF Provision, Fine
    <3> QED
      BY <1>3, <2>2, <3>1, SpawnKept
  <2> QED
    BY <1>5, <2>1, <2>2 DEF Provision
<1>6. CASE Apply(t)
  <2>1. PICK s \in launch[t].todo :
           \/ \E p \in Procs : Spawn(t, p, s, launch[t].todo \ {s})
           \/ /\ launch' = [launch EXCEPT ![t].todo = launch[t].todo \ {s}]
              /\ UNCHANGED <<proc, task>>
    BY <1>6 DEF Apply
  <2>2. s \in Phases /\ launch[t].todo \ {s} \in SUBSET {"plugins", "harness"} /\ Fine
    BY <1>1, <1>6, <2>1, Groups DEF Starts, Apply, Fine
  <2>3. CASE \E p \in Procs : Spawn(t, p, s, launch[t].todo \ {s})
    BY <1>3, <2>2, <2>3, SpawnKept
  <2>4. CASE /\ launch' = [launch EXCEPT ![t].todo = launch[t].todo \ {s}]
             /\ UNCHANGED <<proc, task>>
    <3>1. launch' \in [Tuis -> Starts]
      BY <1>1, <2>2, <2>4, LaunchShapes
    <3> QED
      BY <1>2, <1>3, <2>4, <3>1, HostKept
  <2> QED
    BY <2>1, <2>3, <2>4
<1>7. CASE Ready(t)
  <2>1. launch' \in [Tuis -> Starts] /\ UNCHANGED <<proc, task>>
    BY <1>1, <1>7, LaunchShapes DEF Ready
  <2> QED
    BY <1>2, <1>3, <2>1, HostKept
<1>8. CASE Abandon(t)
  <2>1. PICK p \in launch[t].waits : launch' = [launch EXCEPT ![t].waits = @ \ {p}]
    BY <1>8 DEF Abandon
  <2>2. p \in Procs
    BY <1>1, <2>1 DEF Starts
  <2>3. launch' \in [Tuis -> Starts] /\ UNCHANGED <<proc, task>>
    BY <1>1, <1>8, <2>1, <2>2, LaunchShapes DEF Abandon
  <2> QED
    BY <1>2, <1>3, <2>3, HostKept
<1>9. CASE End(t)
  <2>1. launch' \in [Tuis -> Starts] /\ UNCHANGED <<proc, task>>
    BY <1>1, <1>9, LaunchShapes DEF End
  <2> QED
    BY <1>2, <1>3, <2>1, HostKept
<1> QED
  BY <1>4, <1>5, <1>6, <1>7, <1>8, <1>9 DEF LaunchStep

\* A taste that the user changes is safe as one that the user changed.
LEMMA TuneKept ==
  ASSUME Inv, NEW f \in Tastes, Tune(f)
  PROVE  Inv'
<1>1. /\ TypeOK /\ Fine /\ UNCHANGED marks /\ UNCHANGED <<proc, launch, gone>>
      /\ f \in file.has /\ file' = [file EXCEPT !.has = @ \ {f}] /\ tuned' = tuned \union {f}
      /\ task' = [p \in Procs |-> [s \in Steps |-> [task[p][s] EXCEPT !.snap = @ \ {f}]]]
  BY DEF Inv, Tune, Fine
<1>2. /\ file \in Files /\ created \in BOOLEAN /\ started \in BOOLEAN
      /\ proc \in [Procs -> Procss] /\ task \in [Procs -> [Steps -> Tasks]]
      /\ launch \in [Tuis -> Starts] /\ tuned \subseteq Tastes /\ gone \subseteq Facts
  BY <1>1, Shapes
<1>3. file' \in Files /\ file'.has = file.has \ {f}
  BY <1>1, <1>2 DEF Files
<1>4. Safe \subseteq Safe'
  BY <1>1, <1>3 DEF Safe
<1>5. /\ task' \in [Procs -> [Steps -> Tasks]]
      /\ \A p \in Procs, s \in Steps : task'[p][s].pc = task[p][s].pc
  <2>1. \A x \in Tasks : /\ [x EXCEPT !.snap = @ \ {f}] \in Tasks
                         /\ [x EXCEPT !.snap = @ \ {f}].pc = x.pc
    BY DEF Tasks
  <2>2. ASSUME NEW p \in Procs, NEW s \in Steps
        PROVE  task'[p][s] \in Tasks /\ task'[p][s].pc = task[p][s].pc
    <3>1. task[p][s] \in Tasks /\ task'[p][s] = [task[p][s] EXCEPT !.snap = @ \ {f}]
      BY <1>1, <1>2
    <3> QED
      BY <2>1, <3>1
  <2>3. task' = [p \in Procs |-> [s \in Steps |-> task'[p][s]]]
    BY <1>1
  <2>4. \A p \in Procs : [s \in Steps |-> task'[p][s]] \in [Steps -> Tasks]
    BY <2>2
  <2> QED
    BY <2>2, <2>3, <2>4
<1>6. TypeOK'
  <2>1. tuned' \subseteq Tastes /\ faults' \in 0 .. MaxFaults
    BY <1>1, <1>2, Faults
  <2> QED
    BY <1>1, <1>2, <1>3, <1>5, <2>1, MarksStay, Types
<1>7. Within' /\ Placed' /\ Kinds'
  BY <1>1, <1>5 DEF Inv, Within, Placed, Kinds
<1>8. Dones'
  BY <1>1, <1>4, <1>5 DEF Inv, Dones
<1>9. Behind'
  BY <1>1, <1>4 DEF Inv, Behind, BehindOf
<1>10. MarkersAreHonest'
  BY <1>1, <1>4, <1>6, Claimed, Claims, MarksStay, Shapes DEF TypeOK
<1> QED
  BY <1>6, <1>7, <1>8, <1>9, <1>10 DEF Inv

LEMMA ReplaceKept ==
  ASSUME Inv, Replace
  PROVE  Inv'
<1>1. /\ TypeOK /\ Fault /\ UNCHANGED <<file, tuned, gone>> /\ created' = created
      /\ proc' = [p \in Procs |-> Off]
      /\ task' = [p \in Procs |-> [s \in Steps |-> Idle]]
      /\ launch' = [t \in Tuis |-> [launch[t] EXCEPT !.waits = {}]]
  BY DEF Inv, Replace
<1>2. started' \in {started, FALSE}
  BY DEF Replace
<1>3. Off \in Procss /\ Idle \in Tasks /\ Idle.pc = "idle"
  BY Idles DEF Off, Procss, Idle
<1>4. proc' \in [Procs -> Procss] /\ task' \in [Procs -> [Steps -> Tasks]]
  BY <1>1, <1>3
<1>5. launch' \in [Tuis -> Starts]
  BY <1>1, Shapes, LaunchShapes
<1>6. \A q \in Procs : Ends(q)
  BY <1>1, <1>3 DEF Ends
<1> QED
  BY <1>1, <1>2, <1>4, <1>5, <1>6, ProcsKept

-----------------------------------------------------------------------------
(* The theorems.                                                           *)

LEMMA InitInv == Init => Inv
<1> SUFFICES ASSUME Init PROVE Inv
  OBVIOUS
<1>1. TypeOK
  <2>1. Off \in Procss /\ Idle \in Tasks
    BY Idles DEF Off, Procss
  <2>2. Rest \in Starts
    BY DEF Rest, Starts
  <2>3. file \in Files /\ created \in BOOLEAN /\ started \in BOOLEAN
        /\ tuned \subseteq Tastes /\ gone \subseteq Facts
    BY DEF Init, Files
  <2>4. faults \in 0 .. MaxFaults
    BY SettingsAssumption DEF Init
  <2>5. proc \in [Procs -> Procss] /\ task \in [Procs -> [Steps -> Tasks]]
        /\ launch \in [Tuis -> Starts]
    BY <2>1, <2>2 DEF Init
  <2> QED
    BY <2>3, <2>4, <2>5, Shapes
<1>2. /\ \A p \in Procs : proc[p].phase = "off"
      /\ \A p \in Procs, s \in Steps : task[p][s].pc = "idle"
  BY DEF Init, Off, Idle
<1>3. Within /\ Placed /\ Kinds /\ Dones
  BY <1>2 DEF Within, Placed, Kinds, Dones
<1>4. Behind
  BY <1>2 DEF Behind, BehindOf
<1>5. MarkersAreHonest
  BY DEF Init, MarkersAreHonest
<1> QED
  BY <1>1, <1>3, <1>4, <1>5 DEF Inv

LEMMA NextInv == Inv /\ [Next]_vars => Inv'
<1> SUFFICES ASSUME Inv, [Next]_vars PROVE Inv'
  OBVIOUS
<1>1. ASSUME NEW p \in Procs, NEW s \in Steps, TaskStep(p, s) PROVE Inv'
  BY <1>1, CheckKept, ToolKept, PatchKept, ToolFailsKept, LockKept, WriteKept, WriteFailsKept,
     CopyKept, CopyFailsKept, MarkKept DEF TaskStep
<1>2. ASSUME NEW p \in Procs, NextGroup(p) \/ Exit(p) PROVE Inv'
  BY <1>2, NextGroupKept, ExitKept
<1>3. ASSUME NEW t \in Tuis, LaunchStep(t) PROVE Inv'
  BY <1>3, LaunchKept
<1>4. ASSUME NEW f \in Tastes, Tune(f) PROVE Inv'
  BY <1>4, TuneKept
<1>5. CASE Replace
  BY <1>5, ReplaceKept
<1>6. CASE UNCHANGED vars
  <2>1. /\ launch' = launch /\ Fine /\ UNCHANGED <<proc, task>>
        /\ UNCHANGED <<file, tuned, gone>> /\ UNCHANGED marks
    BY <1>6 DEF vars, Fine
  <2>2. launch' \in [Tuis -> Starts]
    BY <2>1, Shapes DEF Inv
  <2> QED
    BY <2>1, <2>2, HostKept
<1> QED
  BY <1>1, <1>2, <1>3, <1>4, <1>5, <1>6 DEF Next

\* Every reachable state has its type: the stage of a process never runs over
\* its groups, no task holds a fact that there is none of, and an unreadable
\* file says nothing.
THEOREM TypeCorrect == Spec => []TypeOK
<1>1. Inv => TypeOK
  BY DEF Inv
<1> QED
  BY InitInv, NextInv, <1>1, PTL DEF Spec

\* Whatever was killed, timed out, repeated or run at once, a marker in the
\* volume stands for facts that are in settings.json, or that a write or a
\* failed optional step is known to have cost, or that the user changed: a
\* launch that skips the phase for its marker loses nothing unknown by it.
THEOREM MarkersHonest == Spec => []MarkersAreHonest
<1>1. Inv => MarkersAreHonest
  BY DEF Inv
<1> QED
  BY InitInv, NextInv, <1>1, PTL DEF Spec
-----------------------------------------------------------------------------
(* Who undoes what.  A task that is sure of what it read knows the file, and *)
(* one holder of a path's lock is never beside another of its process.       *)

Hold == {"write", "copy", "fallback", "copying"}

OneHolder ==
  \A p \in Procs, r, s \in Steps : task[p][r].pc \in Hold /\ task[p][s].pc \in Hold => r = s

Knows(q, r) ==
  task[q][r].sure =>
    /\ task[q][r].pc \in {"patch", "write"} => file.has \subseteq task[q][r].snap
    /\ task[q][r].pc \in {"copy", "copying"} => file.has = {}

Fresh == \A q \in Procs, r \in Steps : Knows(q, r)

\* Only the task of p and s moves.
Alone(p, s) ==
  \A q \in Procs, r \in Steps : q # p \/ r # s => task'[q][r] = task[q][r]

LEMMA OnlyOne ==
  ASSUME task \in [Procs -> [Steps -> Tasks]], NEW p \in Procs, NEW s \in Steps, NEW x,
         task' = [task EXCEPT ![p][s] = x]
  PROVE  Alone(p, s) /\ task'[p][s] = x
<1>1. task' = [task EXCEPT ![p] = [task[p] EXCEPT ![s] = x]] /\ task[p] \in [Steps -> Tasks]
  OBVIOUS
<1>2. task'[p] = [task[p] EXCEPT ![s] = x] /\ \A q \in Procs : q # p => task'[q] = task[q]
  BY <1>1
<1> QED
  BY <1>1, <1>2 DEF Alone

\* A task that leaves the file alone, and does not read it.
LEMMA Passes ==
  ASSUME OneHolder, Fresh, file' = file, NEW p \in Procs, NEW s \in Steps, Alone(p, s),
         \/ task'[p][s].pc \in Points \ (Hold \union {"patch"})
         \/ task'[p][s].pc = "fallback" /\ task[p][s].pc \in Hold
  PROVE  OneHolder' /\ Fresh'
BY DEF OneHolder, Fresh, Knows, Alone, Hold

\* A task that reads it: a tool, or a step that takes the lock.
LEMMA Reads ==
  ASSUME OneHolder, Fresh, file' = file, NEW p \in Procs, NEW s \in Steps, Alone(p, s),
         task'[p][s].snap = file.has, task'[p][s].pc \in {"patch", "write", "copy"},
         task'[p][s].pc = "copy" => file.has = {},
         task'[p][s].pc # "patch" => \A r \in Steps : task[p][r].pc \notin Hold
  PROVE  OneHolder' /\ Fresh'
BY DEF OneHolder, Fresh, Knows, Alone, Hold

\* A task that writes it: the others are not sure any more.
LEMMA Puts ==
  ASSUME TypeOK, OneHolder, Fresh, NEW p \in Procs, NEW s \in Steps, NEW st, NEW has,
         NEW pc \in {"done", "tool", "lock", "copying"}, Put(p, s, st, has, pc),
         task[p][s].pc \in Hold \union {"patch"},
         pc = "copying" => has = {} /\ task[p][s].pc \in Hold
  PROVE  OneHolder' /\ Fresh'
<1>0. task \in [Procs -> [Steps -> Tasks]]
  BY Shapes
<1>1. task' = After(p, s, pc) /\ file'.has = has
  BY DEF Put
<1>2. Moves(p, s, pc)
  BY <1>0, <1>1, AfterMoves DEF Points
<1>3. OneHolder'
  BY <1>2 DEF Moves, OneHolder, Hold
<1>4. ASSUME NEW q \in Procs, NEW r \in Steps PROVE Knows(q, r)'
  <2>1. CASE q = p /\ r = s
    BY <1>1, <1>2, <2>1 DEF Knows, Moves
  <2>2. CASE q # p \/ r # s
    <3>0. task[q][r] \in Tasks /\ task'[q][r].pc = task[q][r].pc
      BY <1>0, <1>2, <2>2 DEF Moves
    <3>1. CASE task[q][r].pc \notin {"patch", "write", "copy", "fallback", "copying"}
      BY <3>0, <3>1 DEF Knows
    <3>2. CASE task[q][r].pc \in {"patch", "write", "copy", "fallback", "copying"}
      <4>1. q # p \/ task[p][s].pc = "patch" \/ task[q][r].pc = "patch"
        BY <2>2, <3>2 DEF OneHolder, Hold
      <4>2. task'[q][r] = [task[q][r] EXCEPT !.sure = FALSE]
        BY <1>1, <2>2, <3>2, <4>1 DEF After
      <4>3. ~task'[q][r].sure
        BY <3>0, <4>2 DEF Tasks
      <4> QED
        BY <4>3 DEF Knows
    <3> QED
      BY <3>1, <3>2
  <2> QED
    BY <2>1, <2>2
<1> QED
  BY <1>3, <1>4 DEF Fresh

LEMMA TaskFresh ==
  ASSUME TypeOK, Kinds, OneHolder, Fresh, NEW p \in Procs, NEW s \in Steps, TaskStep(p, s)
  PROVE  OneHolder' /\ Fresh'
<1>0. task \in [Procs -> [Steps -> Tasks]] /\ file \in Files
  BY Shapes
<1>1. ASSUME NEW pc \in Points \ (Hold \union {"patch"}), Go(p, s, pc), file' = file
      PROVE  OneHolder' /\ Fresh'
  <2>1. task' = [task EXCEPT ![p][s] = [task[p][s] EXCEPT !.pc = pc]]
    BY <1>1 DEF Go
  <2>2. Alone(p, s) /\ task'[p][s] = [task[p][s] EXCEPT !.pc = pc]
    BY <1>0, <2>1, OnlyOne
  <2>3. task[p][s] \in Tasks
    BY <1>0
  <2>4. task'[p][s].pc = pc
    BY <2>2, <2>3 DEF Tasks
  <2> QED
    BY <1>1, <2>2, <2>4, Passes
<1>2. ASSUME Done(p, s), file' = file PROVE OneHolder' /\ Fresh'
  <2>1. Alone(p, s) /\ task'[p][s] = [Idle EXCEPT !.pc = "done"]
    BY <1>0, <1>2, OnlyOne DEF Done
  <2>2. task'[p][s].pc = "done"
    BY <2>1 DEF Idle
  <2> QED
    BY <1>2, <2>1, <2>2, Passes DEF Points, Hold
<1>3. ASSUME NEW pc \in {"patch", "write", "copy"}, file' = file,
             task' = [task EXCEPT ![p][s] = [pc |-> pc, snap |-> file.has, sure |-> TRUE]],
             pc = "copy" => file.has = {},
             pc # "patch" => \A r \in Steps : task[p][r].pc \notin Hold
      PROVE  OneHolder' /\ Fresh'
  <2>1. Alone(p, s) /\ task'[p][s] = [pc |-> pc, snap |-> file.has, sure |-> TRUE]
    BY <1>0, <1>3, OnlyOne
  <2>2. task'[p][s].pc = pc /\ task'[p][s].snap = file.has
    BY <2>1
  <2> QED
    BY <1>3, <2>1, <2>2, Reads
<1>t. AfterTool(s) \subseteq {"tool", "lock", "done"}
  BY DEF AfterTool
<1>4. CASE Check(p, s)
  <2>1. file' = file /\ (Done(p, s) \/ Go(p, s, "tool") \/ Go(p, s, "lock"))
    BY <1>4 DEF Check
  <2> QED
    BY <1>1, <1>2, <2>1 DEF Points, Hold
<1>5. CASE Tool(p, s)
  <2>1. \/ task' = [task EXCEPT ![p][s] = [pc |-> "patch", snap |-> file.has, sure |-> TRUE]]
        \/ \E pc \in AfterTool(s) : Go(p, s, pc)
    BY <1>5 DEF Tool
  <2>2. file' = file
    BY <1>5 DEF Tool
  <2> QED
    BY <1>1, <1>3, <1>t, <2>1, <2>2 DEF Points, Hold
<1>6. CASE Patch(p, s)
  <2>1. PICK pc \in AfterTool(s) :
          Put(p, s, "json", task[p][s].snap \union (Wants(s) \intersect {"rtk"}), pc)
    BY <1>6 DEF Patch
  <2>2. task[p][s].pc = "patch" /\ pc \in {"tool", "lock", "done"}
    BY <1>6, <1>t DEF Patch
  <2> QED
    BY <2>1, <2>2, Puts
<1>7. CASE ToolFails(p, s)
  <2>1. file' = file /\ \E pc \in AfterTool(s) : Go(p, s, pc)
    BY <1>7 DEF ToolFails
  <2> QED
    BY <1>1, <1>t, <2>1 DEF Points, Hold
<1>8. CASE Lock(p, s)
  <2>1. \A r \in Steps : task[p][r].pc \notin Hold
    BY <1>8 DEF Lock, Holding, Hold
  <2>2. \/ file.st = "json" /\ task' = [task EXCEPT ![p][s] = [pc |-> "write", snap |-> file.has, sure |-> TRUE]]
        \/ file.st = "none" /\ task' = [task EXCEPT ![p][s] = [pc |-> "write", snap |-> file.has, sure |-> TRUE]]
        \/ file.st # "json" /\ task' = [task EXCEPT ![p][s] = [pc |-> "copy", snap |-> file.has, sure |-> TRUE]]
        \/ GiveUp(p, s)
    BY <1>8 DEF Lock
  <2>3. file' = file
    BY <1>8 DEF Lock, GiveUp
  <2>4. file.st # "json" => file.has = {}
    BY <1>0 DEF Files
  <2> QED
    BY <1>2, <1>3, <2>1, <2>2, <2>3, <2>4 DEF GiveUp
<1>9. CASE Write(p, s)
  BY <1>9, Puts DEF Write, Hold
<1>10. CASE WriteFails(p, s)
  <2>1. CASE GiveUp(p, s)
    BY <1>2, <2>1 DEF GiveUp
  <2>2. CASE Go(p, s, "fallback") /\ file' = file
    <3>1. task' = [task EXCEPT ![p][s] = [task[p][s] EXCEPT !.pc = "fallback"]]
      BY <2>2 DEF Go
    <3>2. Alone(p, s) /\ task'[p][s] = [task[p][s] EXCEPT !.pc = "fallback"]
      BY <1>0, <3>1, OnlyOne
    <3>3. task[p][s] \in Tasks
      BY <1>0
    <3>4. task'[p][s].pc = "fallback" /\ task[p][s].pc \in Hold
      BY <1>10, <3>2, <3>3 DEF Tasks, WriteFails, Hold
    <3> QED
      BY <2>2, <3>2, <3>4, Passes
  <2> QED
    BY <1>10, <2>1, <2>2 DEF WriteFails
<1>11. CASE Copy(p, s)
  <2>1. task[p][s].pc \in Hold /\ Put(p, s, "torn", {}, "copying")
    BY <1>11 DEF Copy, Hold
  <2> QED
    BY <2>1, Puts
<1>12. CASE Copied(p, s)
  BY <1>12, Puts DEF Copied, Hold
<1>13. CASE CopyFails(p, s)
  BY <1>2, <1>13 DEF CopyFails, GiveUp
<1>14. CASE Mark(p, s)
  BY <1>2, <1>14 DEF Mark, GiveUp
<1> QED
  BY <1>4, <1>5, <1>6, <1>7, <1>8, <1>9, <1>10, <1>11, <1>12, <1>13, <1>14 DEF TaskStep

\* Whoever starts, ends or is left alone holds no lock and knows nothing.
LEMMA Begun ==
  ASSUME OneHolder, Fresh, file' = file,
         \A q \in Procs, r \in Steps :
           task'[q][r] = task[q][r] \/ task'[q][r].pc \in {"idle", "check"}
  PROVE  OneHolder' /\ Fresh'
BY DEF OneHolder, Fresh, Knows, Hold

LEMMA NextFresh == Inv /\ OneHolder /\ Fresh /\ [Next]_vars => OneHolder' /\ Fresh'
<1> SUFFICES ASSUME Inv, OneHolder, Fresh, [Next]_vars PROVE OneHolder' /\ Fresh'
  OBVIOUS
<1>0. /\ TypeOK /\ Kinds /\ task \in [Procs -> [Steps -> Tasks]] /\ proc \in [Procs -> Procss]
      /\ launch \in [Tuis -> Starts] /\ file \in Files
  BY Shapes DEF Inv
<1>1. ASSUME NEW p \in Procs, NEW s \in Steps, TaskStep(p, s) PROVE OneHolder' /\ Fresh'
  BY <1>0, <1>1, TaskFresh
<1>e. ASSUME NEW p \in Procs, NEW f \in Phases, NEW i \in DOMAIN Stages[f], Enter(p, f, i),
             file' = file
      PROVE  OneHolder' /\ Fresh'
  <2>1. /\ \A s \in Steps : task'[p][s].pc \in {"idle", "check"}
        /\ \A q \in Procs : q # p => task'[q] = task[q]
    BY <1>0, <1>e, EnterShape
  <2>2. \A q \in Procs, r \in Steps : task'[q][r] = task[q][r] \/ task'[q][r].pc \in {"idle", "check"}
    BY <2>1
  <2> QED
    BY <1>e, <2>2, Begun
<1>2. ASSUME NEW p \in Procs, NextGroup(p) PROVE OneHolder' /\ Fresh'
  <2> DEFINE f == proc[p].phase
             i == proc[p].stage
  <2>1. f # "off" /\ i < Len(Stages[f]) /\ Enter(p, f, i + 1) /\ file' = file
    BY <1>2 DEF NextGroup
  <2>2. f \in Phases /\ i \in DOMAIN Stages[f]
    BY <1>0, <2>1 DEF Procss, Inv, Within
  <2>3. i + 1 \in DOMAIN Stages[f]
    <3>1. f = "create" \/ f = "start" \/ f = "plugins" \/ f = "harness"
      BY <2>2, Groups
    <3> HIDE DEF f, i
    <3> QED
      BY <2>1, <2>2, <3>1, Groups
  <2> HIDE DEF f, i
  <2> QED
    BY <1>e, <2>1, <2>2, <2>3
<1>3. ASSUME NEW p \in Procs, Exit(p) PROVE OneHolder' /\ Fresh'
  <2>1. task' = [task EXCEPT ![p] = [s \in Steps |-> Idle]] /\ file' = file
    BY <1>3 DEF Exit
  <2>2. \A q \in Procs, r \in Steps : task'[q][r] = task[q][r] \/ task'[q][r].pc \in {"idle", "check"}
    BY <1>0, <2>1 DEF Idle
  <2> QED
    BY <2>1, <2>2, Begun
<1>u. ASSUME UNCHANGED <<file, task>> PROVE OneHolder' /\ Fresh'
  BY <1>u, Begun
<1>s. ASSUME NEW t \in Tuis, NEW p \in Procs, NEW f \in Phases, NEW d, Spawn(t, p, f, d),
             file' = file
      PROVE  OneHolder' /\ Fresh'
  <2>1. 1 \in DOMAIN Stages[f] /\ Enter(p, f, 1)
    BY <1>s, Groups DEF Spawn
  <2> QED
    BY <1>s, <1>e, <2>1
<1>4. ASSUME NEW t \in Tuis, LaunchStep(t) PROVE OneHolder' /\ Fresh'
  <2>0. file' = file
    BY <1>4 DEF LaunchStep, Launch, Provision, Apply, Ready, Abandon, End
  <2>1. CASE Launch(t) \/ Ready(t) \/ Abandon(t) \/ End(t)
    BY <1>u, <2>1 DEF Launch, Ready, Abandon, End
  <2>2. CASE Provision(t)
    <3>1. launch[t].pc \in Phases
      BY <2>2, Groups DEF Provision
    <3>2. UNCHANGED task \/ \E p \in Procs : Spawn(t, p, launch[t].pc, {})
      BY <2>2 DEF Provision
    <3> QED
      BY <1>s, <1>u, <2>0, <3>1, <3>2
  <2>3. CASE Apply(t)
    <3>1. PICK s \in launch[t].todo :
            UNCHANGED task \/ \E p \in Procs : Spawn(t, p, s, launch[t].todo \ {s})
      BY <2>3 DEF Apply
    <3>2. s \in Phases
      BY <1>0, <3>1, Groups DEF Starts
    <3> QED
      BY <1>s, <1>u, <2>0, <3>1, <3>2
  <2> QED
    BY <1>4, <2>1, <2>2, <2>3 DEF LaunchStep
<1>5. ASSUME NEW f \in Tastes, Tune(f) PROVE OneHolder' /\ Fresh'
  <2>1. /\ file' = [file EXCEPT !.has = @ \ {f}]
        /\ task' = [p \in Procs |-> [s \in Steps |-> [task[p][s] EXCEPT !.snap = @ \ {f}]]]
    BY <1>5 DEF Tune
  <2>2. file'.has = file.has \ {f}
    BY <1>0, <2>1 DEF Files
  <2>3. ASSUME NEW q \in Procs, NEW r \in Steps
        PROVE  /\ task'[q][r].pc = task[q][r].pc /\ task'[q][r].sure = task[q][r].sure
               /\ task'[q][r].snap = task[q][r].snap \ {f}
    <3>1. task[q][r] \in Tasks
      BY <1>0
    <3>2. task'[q][r] = [task[q][r] EXCEPT !.snap = @ \ {f}]
      BY <2>1
    <3> QED
      BY <3>1, <3>2 DEF Tasks
  <2>4. OneHolder'
    BY <2>3 DEF OneHolder
  <2>5. Fresh'
    BY <2>2, <2>3 DEF Fresh, Knows
  <2> QED
    BY <2>4, <2>5
<1>6. CASE Replace
  <2>1. task' = [p \in Procs |-> [s \in Steps |-> Idle]] /\ file' = file
    BY <1>6 DEF Replace
  <2>2. \A q \in Procs, r \in Steps : task'[q][r].pc \in {"idle", "check"}
    BY <2>1 DEF Idle
  <2> QED
    BY <2>1, <2>2, Begun
<1>7. CASE UNCHANGED vars
  BY <1>7, <1>u DEF vars
<1> QED
  BY <1>1, <1>2, <1>3, <1>4, <1>5, <1>6, <1>7 DEF Next

-----------------------------------------------------------------------------
\* A write that loses a fact is excused, if its task is not sure or was meant to.
Excused(f) ==
  f \in tuned' \/ \E p \in Procs, s \in Steps : task'[p][s] # task[p][s] /\ Undoes(p, s, f)

LEMMA PutExcused ==
  ASSUME TypeOK, Fresh, NEW p \in Procs, NEW s \in Steps, NEW st, NEW has, NEW pc \in Points,
         Put(p, s, st, has, pc), task[p][s].pc # pc,
         task[p][s].sure => \A f \in file.has \ has : Undoes(p, s, f),
         NEW f \in file.has \ file'.has
  PROVE  Excused(f)
<1>0. task \in [Procs -> [Steps -> Tasks]]
  BY Shapes
<1>1. task' = After(p, s, pc) /\ file'.has = has
  BY DEF Put
<1>2. task'[p][s].pc = pc
  BY <1>0, <1>1, AfterMoves DEF Moves
<1>3. Undoes(p, s, f)
  BY <1>1 DEF Undoes
<1> QED
  BY <1>2, <1>3 DEF Excused

LEMMA TaskExcused ==
  ASSUME TypeOK, Kinds, Fresh, NEW p \in Procs, NEW s \in Steps, TaskStep(p, s),
         NEW f \in file.has \ file'.has
  PROVE  Excused(f)
<1>0. Knows(p, s)
  BY DEF Fresh
<1>1. CASE Patch(p, s)
  <2>1. PICK pc \in AfterTool(s) :
          Put(p, s, "json", task[p][s].snap \union (Wants(s) \intersect {"rtk"}), pc)
    BY <1>1 DEF Patch
  <2>2. task[p][s].pc = "patch" /\ pc \in Points /\ pc # "patch"
    BY <1>1, <2>1 DEF Patch, AfterTool, Points
  <2>3. task[p][s].sure => file.has \subseteq task[p][s].snap
    BY <1>0, <2>2 DEF Knows
  <2> QED
    BY <2>1, <2>2, <2>3, PutExcused
<1>2. CASE Write(p, s)
  <2>1. task[p][s].pc = "write" /\ Put(p, s, "json", Merged(s, task[p][s].snap), "done")
    BY <1>2 DEF Write
  <2>2. task[p][s].sure => file.has \subseteq task[p][s].snap
    BY <1>0, <2>1 DEF Knows
  <2>3. task[p][s].sure => \A g \in file.has \ Merged(s, task[p][s].snap) : Undoes(p, s, g)
    BY <2>1, <2>2 DEF Merged, Undoes
  <2>4. "done" \in Points
    BY DEF Points
  <2> QED
    BY <2>1, <2>3, <2>4, PutExcused
<1>3. CASE Copy(p, s)
  <2>1. task[p][s].pc \in {"copy", "fallback"} /\ Put(p, s, "torn", {}, "copying")
    BY <1>3 DEF Copy
  <2>2. task[p][s].sure => \A g \in file.has \ {} : Undoes(p, s, g)
    BY <1>0, <2>1 DEF Knows, Undoes
  <2>3. "copying" \in Points
    BY DEF Points
  <2> QED
    BY <2>1, <2>2, <2>3, PutExcused
<1>4. CASE Copied(p, s)
  <2>1. task[p][s].pc = "copying" /\ Put(p, s, "json", InSeed, "done")
    BY <1>4 DEF Copied
  <2>2. task[p][s].sure => file.has = {}
    BY <1>0, <2>1 DEF Knows
  <2>3. "done" \in Points
    BY DEF Points
  <2> QED
    BY <2>1, <2>2, <2>3, PutExcused
<1>5. CASE ~(Patch(p, s) \/ Write(p, s) \/ Copy(p, s) \/ Copied(p, s))
  <2>1. file' = file
    BY <1>5 DEF TaskStep, Check, Tool, ToolFails, Lock, WriteFails, CopyFails, Mark, GiveUp
  <2> QED
    BY <2>1
<1> QED
  BY <1>1, <1>2, <1>3, <1>4, <1>5

LEMMA NextExcused ==
  ASSUME Inv, Fresh, [Next]_vars, NEW f \in file.has \ file'.has
  PROVE  Excused(f)
<1>1. ASSUME NEW p \in Procs, NEW s \in Steps, TaskStep(p, s) PROVE Excused(f)
  BY <1>1, TaskExcused DEF Inv
<1>2. ASSUME NEW g \in Tastes, Tune(g) PROVE Excused(f)
  <2>1. file'.has = file.has \ {g} /\ g \in tuned'
    BY <1>2, Shapes DEF Tune, Inv, Files
  <2> QED
    BY <2>1 DEF Excused
<1>3. ASSUME \/ \E p \in Procs : NextGroup(p) \/ Exit(p)
             \/ \E t \in Tuis : LaunchStep(t)
             \/ Replace \/ UNCHANGED vars
      PROVE  Excused(f)
  <2>1. file' = file
    BY <1>3 DEF NextGroup, Exit, LaunchStep, Launch, Provision, Apply, Ready, Abandon, End, Replace,
                vars
  <2> QED
    BY <2>1
<1> QED
  BY <1>1, <1>2, <1>3 DEF Next

\* A fact leaves settings.json only by a write that was meant to take it out, by
\* the copy of the seed after a failed merge, by the user's choice, or by a
\* writer that another writer had overtaken because it does not share its lock.
THEOREM StrangersUndo == Spec => OnlyStrangersUndo
<1>1. Init => OneHolder /\ Fresh
  BY DEF Init, OneHolder, Fresh, Knows, Idle, Hold
<1>2. Inv /\ Fresh /\ [Next]_vars
        => [\A f \in file.has \ file'.has :
              \/ f \in tuned'
              \/ \E p \in Procs, s \in Steps : task'[p][s] # task[p][s] /\ Undoes(p, s, f)]_vars
  BY NextExcused DEF Excused
<1> QED
  BY <1>1, <1>2, InitInv, NextInv, NextFresh, PTL DEF Spec, OnlyStrangersUndo
=============================================================================
