------------------------------ MODULE Settings ------------------------------
(***************************************************************************)
(* settings.json of the sandbox and the many that write it: the steps of   *)
(* package provision, several at a time in one process, which take the     *)
(* process's lock of the path (jsonlock.go); a second process, which a     *)
(* launch that timed out or was cancelled has left running; and the tools  *)
(* that the steps start, rtk and claude, which know of no lock.  Each      *)
(* reads the file, works on what it read and puts the result in its place. *)
(*                                                                         *)
(* On the host, the steps of steps.Launch that start these processes:      *)
(* provision-create and provision-start, which a marker in the volume      *)
(* satisfies, and plugins and harness, one after the other or, from        *)
(* LaunchBatched, at once.                                                 *)
(*                                                                         *)
(* Of the file only the facts count that a step wants to be there.         *)
(***************************************************************************)
EXTENDS Naturals, Sequences, FiniteSets

CONSTANTS Procs,     \* room for the processes in the container
          Tuis,      \* the TUI processes
          Tastes,    \* the settings that have a step of their own: theme, effort
          MaxFaults  \* bounds the failures and the abandoned processes of a behaviour

Others == {"seed", "skip", "rtk", "auth", "plugins"}

Names  == {"settings", "onboarding", "create-marker", "settings-env", "harness", "start-marker"}

ASSUME SettingsAssumption == Tastes \intersect (Others \union Names) = {} /\ MaxFaults \in Nat

VARIABLES file,      \* settings.json
          created,   \* the create marker is there
          started,   \* the start marker is there and fits
          proc,      \* the processes in the container
          task,      \* their steps
          launch,    \* the launch of each TUI
          tuned,     \* tastes that the user changed and no step has written since
          gone,      \* facts that a write undid or an optional step left out
          faults

marks == <<created, started>>
vars  == <<file, marks, proc, task, launch, tuned, gone, faults>>

Facts    == Tastes \union Others
InSeed   == {"seed", "skip"}   \* config/settings.json
Managed  == {"auth", "rtk"}    \* in the seed's keys env and hooks, but not in the seed

(* The steps that touch the file, in the groups that run side by side.     *)
Stages == [create  |-> <<{"settings", "onboarding"}, Tastes \union {"rtk"}, {"create-marker"}>>,
           start   |-> <<{"settings-env"}, {"harness", "plugins"}, {"start-marker"}>>,
           plugins |-> <<{"plugins"}>>,
           harness |-> <<{"harness"}>>]
Phases == DOMAIN Stages
Steps  == UNION {UNION {Stages[f][i] : i \in DOMAIN Stages[f]} : f \in Phases}
Marks  == {"create-marker", "start-marker"}
Tools  == {"rtk", "harness", "plugins"}  \* they start a tool that writes the file

\* What a step is there for.
Wants(s) == CASE s = "settings"     -> {"seed"}
              [] s = "onboarding"   -> {"skip"}
              [] s = "settings-env" -> {"auth"}
              [] s \in Tastes \union {"rtk", "plugins"} -> {s}
              [] OTHER -> {}

Off  == [phase |-> "off", stage |-> 0, failed |-> FALSE]
Idle == [pc |-> "idle", snap |-> {}, sure |-> TRUE]
Rest == [pc |-> "idle", waits |-> {}, todo |-> {}]

TypeOK ==
  /\ file \in [st : {"none", "torn", "json"}, has : SUBSET Facts]
  /\ file.st # "json" => file.has = {}
  /\ created \in BOOLEAN /\ started \in BOOLEAN
  /\ proc \in [Procs -> [phase : Phases \union {"off"}, stage : 0 .. 3, failed : BOOLEAN]]
  /\ task \in [Procs -> [Steps ->
       [pc : {"idle", "check", "tool", "patch", "lock", "write", "copy", "fallback", "copying",
              "done"},
        snap : SUBSET Facts, sure : BOOLEAN]]]
  /\ launch \in [Tuis -> [pc : {"idle", "create", "start", "apply", "ready"},
                          waits : SUBSET Procs, todo : SUBSET {"plugins", "harness"}]]
  /\ tuned \subseteq Tastes /\ gone \subseteq Facts
  /\ faults \in 0 .. MaxFaults

Init ==
  /\ file = [st |-> "none", has |-> {}]
  /\ created = FALSE /\ started = FALSE
  /\ proc = [p \in Procs |-> Off]
  /\ task = [p \in Procs |-> [s \in Steps |-> Idle]]
  /\ launch = [t \in Tuis |-> Rest]
  /\ tuned = {} /\ gone = {}
  /\ faults = 0

-----------------------------------------------------------------------------
(* Helpers.                                                                *)

Fault == faults < MaxFaults /\ faults' = faults + 1
Fine  == UNCHANGED faults

Live(phase) == \E p \in Procs : proc[p].phase = phase

Go(p, s, pc) == task' = [task EXCEPT ![p][s].pc = pc]
Done(p, s)   == task' = [task EXCEPT ![p][s] = [Idle EXCEPT !.pc = "done"]]

\* The tasks after (p, s) wrote the file and goes on to pc.  Whoever is at work
\* on what it read before is no longer sure of it, unless the lock of p stands
\* between the two.
After(p, s, pc) ==
  LET other(q, r) == q # p \/ task[p][s].pc = "patch" \/ task[q][r].pc = "patch"
  IN [q \in Procs |-> [r \in Steps |->
        IF q = p /\ r = s THEN [Idle EXCEPT !.pc = pc]
        ELSE IF task[q][r].pc \in {"patch", "write", "copy", "fallback", "copying"} /\ other(q, r)
        THEN [task[q][r] EXCEPT !.sure = FALSE]
        ELSE task[q][r]]]

\* The file gets new contents from (p, s).
Put(p, s, st, has, pc) ==
  /\ file' = [st |-> st, has |-> has]
  /\ task' = After(p, s, pc)
  /\ gone' = (gone \union file.has) \ has
  /\ tuned' = IF s \in Tastes THEN tuned \ {s} ELSE tuned

\* The path would have no lock.
MutNoLock(p) == {}

\* The tasks of p that hold its lock of the path (pathMutex).
Holding(p) == {s \in Steps : task[p][s].pc \in {"write", "copy", "fallback", "copying"}}

Settled(p) == \A s \in Stages[proc[p].phase][proc[p].stage] : task[p][s].pc = "done"
Enter(p, phase, i) ==
  task' = [task EXCEPT ![p] = [s \in Steps |->
             IF s \in Stages[phase][i] THEN [Idle EXCEPT !.pc = "check"] ELSE Idle]]

-----------------------------------------------------------------------------
(* A step in the container.                                                *)

\* They call an unreadable file none of their business, and a missing one too.
Lenient == Tastes \union {"plugins"}
\* They start a missing file from nothing.
Makers  == {"onboarding", "settings-env"}
\* They look elsewhere too: at .claude.json, at claude's list of plugins.
Elsewhere == {"onboarding", "plugins", "harness"}

\* What Check says of the file.
Satisfied(s) ==
  \/ Wants(s) \subseteq file.has
  \/ file.st = "torn" /\ s \in Lenient \union {"settings"}
  \/ file.st = "none" /\ s \in Lenient

\* A satisfied step is over, whatever became of what it is there for.
Check(p, s) ==
  /\ task[p][s].pc = "check" /\ s \notin Marks
  /\ \/ Satisfied(s) /\ Done(p, s) /\ gone' = gone \union (Wants(s) \ file.has)
     \/ /\ ~Satisfied(s) \/ s \in Elsewhere
        /\ Go(p, s, IF s \in Tools THEN "tool" ELSE "lock") /\ UNCHANGED gone
  /\ UNCHANGED <<file, marks, proc, launch, tuned, faults>>

\* The steps that are not optional.
Required == Marks \union {"settings-env"}

\* A step that cannot do its work is left out, or fails the process.
GiveUp(p, s) ==
  /\ Done(p, s)
  /\ IF s \in Required
     THEN proc' = [proc EXCEPT ![p].failed = TRUE] /\ UNCHANGED gone
     ELSE gone' = gone \union (Wants(s) \ file.has) /\ UNCHANGED proc
  /\ UNCHANGED <<file, tuned>>

\* plugins and harness start claude again and again; plugins goes on to write
\* enabledPlugins itself.
AfterTool(s) == CASE s = "plugins" -> {"tool", "lock"}
                  [] s = "harness" -> {"tool", "done"}
                  [] OTHER -> {"done"}

\* rtk init, claude plugin install: the tool has read the file, or there is
\* nothing for it to do.
Tool(p, s) ==
  /\ task[p][s].pc = "tool"
  /\ \/ /\ file.st # "torn" /\ ~(s = "rtk" /\ "rtk" \in file.has)
        /\ task' = [task EXCEPT ![p][s] = [pc |-> "patch", snap |-> file.has, sure |-> TRUE]]
     \/ /\ s = "rtk" => "rtk" \in file.has
        /\ \E pc \in AfterTool(s) : Go(p, s, pc)
  /\ UNCHANGED <<file, marks, proc, launch, tuned, gone, faults>>

\* It replaces the file.
Patch(p, s) ==
  /\ task[p][s].pc = "patch"
  /\ \E pc \in AfterTool(s) :
       Put(p, s, "json", task[p][s].snap \union (Wants(s) \intersect {"rtk"}), pc)
  /\ UNCHANGED <<marks, proc, launch, faults>>

\* It fails, as it does of a file it cannot read.
ToolFails(p, s) ==
  /\ task[p][s].pc \in {"tool", "patch"}
  /\ IF file.st = "torn" THEN Fine ELSE Fault
  /\ \E pc \in AfterTool(s) : Go(p, s, pc)
  /\ gone' = gone \union (Wants(s) \ file.has)
  /\ UNCHANGED <<file, marks, proc, launch, tuned>>

\* updateJSON and settingsStep.Run up to what they read under the lock.
Lock(p, s) ==
  /\ task[p][s].pc = "lock" /\ Holding(p) = {}
  /\ LET reads(pc) ==
           /\ task' = [task EXCEPT ![p][s] = [pc |-> pc, snap |-> file.has, sure |-> TRUE]]
           /\ UNCHANGED <<file, proc, tuned, gone>>
     IN \/ file.st = "json" /\ reads("write")
        \/ file.st = "none" /\ s \in Makers /\ reads("write")
        \/ file.st # "json" /\ s = "settings" /\ reads("copy")
        \/ file.st = "torn" /\ s \in Makers /\ GiveUp(p, s)
        \/ file.st # "json" /\ s \in Lenient /\ GiveUp(p, s)
  /\ UNCHANGED <<marks, launch, faults>>

\* mergeSettings gives the seed's managed keys the seed's values and adds what
\* else is missing; the other steps add what they are there for.
Merged(s, snap) ==
  IF s = "settings" THEN (snap \ Managed) \union InSeed ELSE snap \union Wants(s)

\* writeJSON: a new file takes the place of the old one.
Write(p, s) ==
  /\ task[p][s].pc = "write"
  /\ Put(p, s, "json", Merged(s, task[p][s].snap), "done")
  /\ UNCHANGED <<marks, proc, launch, faults>>

\* It cannot be written: settingsStep then copies the seed over the old file.
WriteFails(p, s) ==
  /\ task[p][s].pc = "write" /\ Fault
  /\ IF s = "settings" THEN Go(p, s, "fallback") /\ UNCHANGED <<file, proc, tuned, gone>>
     ELSE GiveUp(p, s)
  /\ UNCHANGED <<marks, launch>>

\* copyFile: the file is emptied and then filled.
Copy(p, s) ==
  /\ task[p][s].pc \in {"copy", "fallback"}
  /\ Put(p, s, "torn", {}, "copying")
  /\ UNCHANGED <<marks, proc, launch, faults>>

Copied(p, s) ==
  /\ task[p][s].pc = "copying"
  /\ Put(p, s, "json", InSeed, "done")
  /\ UNCHANGED <<marks, proc, launch, faults>>

CopyFails(p, s) ==
  /\ task[p][s].pc \in {"copy", "fallback", "copying"} /\ Fault
  /\ GiveUp(p, s)
  /\ UNCHANGED <<marks, launch>>

\* The start marker would be written whatever became of settings-env.
MutMarkAnyway(p, s) ==
  /\ task[p][s].pc = "check" /\ s \in Marks
  /\ \/ /\ Done(p, s) /\ Fine /\ UNCHANGED <<file, proc, tuned, gone>>
        /\ created' = (created \/ s = "create-marker")
        /\ started' = (started \/ s = "start-marker")
     \/ Fault /\ GiveUp(p, s) /\ UNCHANGED marks
  /\ UNCHANGED launch

\* create-marker and start-marker; the latter depends on settings-env, the only
\* step that can have failed the process so far.
Mark(p, s) ==
  /\ task[p][s].pc = "check" /\ s \in Marks
  /\ \/ proc[p].failed /\ Done(p, s) /\ Fine /\ UNCHANGED <<file, marks, proc, tuned, gone>>
     \/ /\ ~proc[p].failed /\ Done(p, s) /\ Fine /\ UNCHANGED <<file, proc, tuned, gone>>
        /\ created' = (created \/ s = "create-marker")
        /\ started' = (started \/ s = "start-marker")
     \/ ~proc[p].failed /\ Fault /\ GiveUp(p, s) /\ UNCHANGED marks
  /\ UNCHANGED launch

-----------------------------------------------------------------------------
(* A process in the container, and the launch that waits for it.           *)

Onward(l) ==
  IF l.pc = "create" THEN [l EXCEPT !.pc = "start", !.waits = {}]
  ELSE [l EXCEPT !.pc = "apply", !.waits = {}, !.todo = {"plugins", "harness"}]

\* The pipeline goes to its next group of steps.
NextGroup(p) ==
  /\ proc[p].phase # "off" /\ Settled(p)
  /\ proc[p].stage < Len(Stages[proc[p].phase])
  /\ proc' = [proc EXCEPT ![p].stage = @ + 1]
  /\ Enter(p, proc[p].phase, proc[p].stage + 1)
  /\ UNCHANGED <<file, marks, launch, tuned, gone, faults>>

\* The process ends.  provision-create and provision-start are tried again when
\* it failed; plugins and harness are optional.
Exit(p) ==
  /\ proc[p].phase # "off" /\ Settled(p)
  /\ proc[p].stage = Len(Stages[proc[p].phase])
  /\ proc' = [proc EXCEPT ![p] = Off]
  /\ task' = [task EXCEPT ![p] = [s \in Steps |-> Idle]]
  /\ launch' = [t \in Tuis |->
       IF p \notin launch[t].waits THEN launch[t]
       ELSE IF launch[t].pc = "apply" \/ proc[p].failed
       THEN [launch[t] EXCEPT !.waits = @ \ {p}]
       ELSE Onward(launch[t])]
  /\ UNCHANGED <<file, marks, tuned, gone, faults>>

Launch(t) ==
  /\ launch[t].pc = "idle"
  /\ launch' = [launch EXCEPT ![t].pc = "create"]
  /\ UNCHANGED <<file, marks, proc, task, tuned, gone, faults>>

\* t starts a process p in the container.
Spawn(t, p, phase, todo) ==
  /\ proc[p].phase = "off"
  /\ proc' = [proc EXCEPT ![p] = [phase |-> phase, stage |-> 1, failed |-> FALSE]]
  /\ Enter(p, phase, 1)
  /\ launch' = [launch EXCEPT ![t].waits = @ \union {p}, ![t].todo = todo]

\* provision-create and provision-start look at their markers.
Marked(phase) == IF phase = "create" THEN created ELSE started

Provision(t) ==
  /\ launch[t].pc \in {"create", "start"} /\ launch[t].waits = {}
  /\ IF Marked(launch[t].pc)
     THEN launch' = [launch EXCEPT ![t] = Onward(@)] /\ UNCHANGED <<proc, task>>
     ELSE \E p \in Procs : Spawn(t, p, launch[t].pc, {})
  /\ UNCHANGED <<file, marks, tuned, gone, faults>>

\* plugins and harness, unless they have nothing to do: at once in the batch of
\* LaunchBatched; one after the other, as Launch has them, is among its orders.
Apply(t) ==
  /\ launch[t].pc = "apply"
  /\ \E s \in launch[t].todo :
       LET todo == launch[t].todo \ {s}
       IN \/ \E p \in Procs : Spawn(t, p, s, todo)
          \/ launch' = [launch EXCEPT ![t].todo = todo] /\ UNCHANGED <<proc, task>>
  /\ UNCHANGED <<file, marks, tuned, gone, faults>>

Ready(t) ==
  /\ launch[t].pc = "apply" /\ launch[t].waits = {} /\ launch[t].todo = {}
  /\ launch' = [launch EXCEPT ![t].pc = "ready"]
  /\ UNCHANGED <<file, marks, proc, task, tuned, gone, faults>>

\* The step times out or is cancelled: docker exec is killed, the process goes
\* on.  The step is tried again, or left out if it is optional, or the launch ends.
Abandon(t) ==
  /\ \E p \in launch[t].waits : launch' = [launch EXCEPT ![t].waits = @ \ {p}]
  /\ Fault
  /\ UNCHANGED <<file, marks, proc, task, tuned, gone>>

\* The launch is cancelled, its attempts are used up, or its session is over.
End(t) ==
  /\ launch[t].pc # "idle" /\ launch[t].waits = {}
  /\ launch' = [launch EXCEPT ![t] = Rest]
  /\ UNCHANGED <<file, marks, proc, task, tuned, gone, faults>>

-----------------------------------------------------------------------------
\* The user asks for another effort between two launches: what the file says,
\* and what others have read of it, is no longer what is wanted.
Tune(f) ==
  /\ \A t \in Tuis : launch[t].pc = "idle"
  /\ ~Live("create") /\ f \in file.has
  /\ file' = [file EXCEPT !.has = @ \ {f}]
  /\ task' = [p \in Procs |-> [s \in Steps |-> [task[p][s] EXCEPT !.snap = @ \ {f}]]]
  /\ tuned' = tuned \union {f}
  /\ UNCHANGED <<marks, proc, launch, gone, faults>>

\* The container is stopped or replaced, and with it all its processes; the
\* marker of a start does not fit a container of another fingerprint.
Replace ==
  /\ Fault
  /\ \E p \in Procs : proc[p].phase # "off"
  /\ proc' = [p \in Procs |-> Off]
  /\ task' = [p \in Procs |-> [s \in Steps |-> Idle]]
  /\ launch' = [t \in Tuis |-> [launch[t] EXCEPT !.waits = {}]]
  /\ started' \in {started, FALSE}
  /\ UNCHANGED <<file, created, tuned, gone>>

-----------------------------------------------------------------------------
TaskStep(p, s) ==
  \/ Check(p, s) \/ Tool(p, s) \/ Patch(p, s) \/ ToolFails(p, s)
  \/ Lock(p, s) \/ Write(p, s) \/ WriteFails(p, s)
  \/ Copy(p, s) \/ Copied(p, s) \/ CopyFails(p, s) \/ Mark(p, s)

LaunchStep(t) ==
  \/ Launch(t) \/ Provision(t) \/ Apply(t) \/ Ready(t) \/ Abandon(t) \/ End(t)

Next ==
  \/ \E p \in Procs, s \in Steps : TaskStep(p, s)
  \/ \E p \in Procs : NextGroup(p) \/ Exit(p)
  \/ \E t \in Tuis : LaunchStep(t)
  \/ \E f \in Tastes : Tune(f)
  \/ Replace

Spec == Init /\ [][Next]_vars

-----------------------------------------------------------------------------
(* Properties.                                                             *)

\* A step takes out of settings.json only what it is meant to: the seed's
\* managed keys when settings is merged again, everything when the merge could
\* not be written and the seed is copied instead, and a taste the user changed.
\* All other losses go back to a writer that does not take the writer's lock: a
\* tool or another process came between its reading and its writing.
Undoes(p, s, f) ==
  \/ ~task[p][s].sure
  \/ task[p][s].pc = "fallback"
  \/ s = "settings" /\ task[p][s].pc = "write" /\ f \in Managed
OnlyStrangersUndo ==
  [][\A f \in file.has \ file'.has :
       \/ f \in tuned'
       \/ \E p \in Procs, s \in Steps : task'[p][s] # task[p][s] /\ Undoes(p, s, f)]_vars

\* What a marker stands for is in settings.json, whatever was killed, timed out
\* or repeated on the way: a launch that skips a phase finds what the phase
\* would have written.  Given up for what a write has undone since (see above),
\* what an optional step could not write or found no readable file for, and what
\* the user changed; not for settings-env, without which no start is marked.
MarkersAreHonest ==
  /\ created => InSeed \union Tastes \subseteq file.has \union gone \union tuned
  /\ started => {"auth", "plugins"} \subseteq file.has \union gone

\* config.go:191: the effort that the user sets is "the effort the next launch
\* will apply".  Not so: the step is part of the create phase, which the marker
\* in the volume satisfies for good (steps/provision.go:60).
TuneIsApplied ==
  \A t \in Tuis : launch[t].pc = "ready" => Tastes \subseteq file.has \union gone
=============================================================================
