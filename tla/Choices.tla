------------------------------ MODULE Choices -------------------------------
(***************************************************************************)
(* What the user chooses on the way to a launch, and what becomes of it:    *)
(* the role, the tune and the optional parts go to the file .env (module    *)
(* DotEnv), and the launch reads them there again, whenever it needs them:  *)
(* for the warning that the container will be replaced, for the list of     *)
(* steps, for the image, the container and the provisioning.  Every TUI     *)
(* process reads and writes the same file.                                  *)
(*                                                                          *)
(* A tune writes one value to EFFORT and to BATCH, by which its two halves  *)
(* are known to belong together.  Of the fingerprint of the sandbox         *)
(* (sandbox.Desired) only the stacks appear; a new commit or another        *)
(* answer about the socket changes it as the owner's edits of STACKS do.    *)
(***************************************************************************)
EXTENDS DotEnv, Functions

CONSTANTS Options,   \* what can be chosen for each key
          Bare,      \* the keys of the config step that offer nothing to choose
          Asked,     \* and those that do, in the order of the form
          Launchers, \* the TUIs that are followed beyond the config step
          First      \* the images that there may be at first

NoImage == [label |-> None, stacks |-> None, true |-> TRUE]
Images == [label : Values \union {None}, stacks : Values \union {None}, true : BOOLEAN]

Groups == Range(Bare) \union Range(Asked)

ASSUME ChoicesAssumption ==
  /\ Bare \in Seq(Keys) /\ Asked \in Seq(Keys) /\ "STACKS" \in Groups
  /\ Options \in [Keys -> SUBSET Values]
  /\ First \subseteq {i \in Images : i.true => i.label = i.stacks}
  /\ Launchers \subseteq Procs \ {None}
  /\ {"LOADOUT", "EFFORT", "BATCH"} \subseteq Keys \ Groups

VARIABLES ui,     \* each TUI, from its menu to the session
          image,  \* the stacks that the image's label tells, and those built in
          box,    \* the container
          claims  \* history: what a TUI may rely on

vars == <<file, ui, image, box, claims>>

NoBox   == [up |-> FALSE, of |-> NoImage]
AtMenu  == [pc |-> "menu", agreed |-> FALSE, batch |-> None, label |-> None]

InMenus  == {"menu", "role", "tune", "tuned", "ask", "warn"}
InLaunch == {"config", "load", "form", "save", "image", "label", "build",
             "container", "down", "up", "provision"}

(* The claims, for the properties below only.  A claim is given up for      *)
(* what the code does not set out to handle, and never because of what it   *)
(* is about.                                                                *)
(*   tune      the TUI's user has set the tune or dropped it, it was        *)
(*             written, and nobody else has set EFFORT or BATCH since;      *)
(*   foreseen  of what decides whether the container is replaced nothing    *)
(*             has changed since the launch was started;                    *)
(*   calm      nor since the step image did.                                *)
Claims == {"tune", "foreseen", "calm"}

TypeOK ==
  /\ EnvTypeOK
  /\ ui \in [Procs -> [pc : InMenus \union InLaunch \union {"session"},
                       agreed : BOOLEAN, batch : Values \union {None},
                       label : Values \union {None}]]
  /\ image \in Images
  /\ box \in [up : BOOLEAN, of : Images]
  /\ claims \in [Launchers -> SUBSET Claims]

Init ==
  /\ EnvInit
  /\ ui = [t \in Procs |-> AtMenu]
  /\ image \in First
  /\ box = [up |-> image # NoImage, of |-> image]
  /\ claims = [t \in Launchers |-> {}]

Goto(t, pc) == ui' = [ui EXCEPT ![t].pc = pc]
ToMenu(t)   == ui' = [ui EXCEPT ![t] = AtMenu]
sandbox     == <<image, box>>

\* What t finds when it comes back from its list of writes.
Wrote(t, pc) ==
  \/ Done(t) /\ Goto(t, pc) /\ Ends(t)
  \/ Failed(t) /\ ToMenu(t) /\ Ends(t)

Desired     == env["STACKS"]
Stale       == ~(box.up /\ box.of.label = Desired)
WillRecreate == box.up /\ box.of.label # Desired

-----------------------------------------------------------------------------
(* From the menu to the launch.                                            *)

\* Launch: the role picker, which is left out if there are no loadouts.  Each
\* launch counts as an event, too.
PickRole(t) ==
  /\ ui[t].pc = "menu"
  /\ \/ \E v \in Options["LOADOUT"] :
          Goto(t, "role") /\ Begins(t, <<[key |-> "LOADOUT", value |-> v]>>)
     \/ Goto(t, "ask") /\ UNCHANGED job
  /\ Event /\ UNCHANGED <<env, due, sandbox>>

RoleWritten(t) ==
  /\ ui[t].pc = "role"
  /\ Wrote(t, "tune")
  /\ Fine /\ UNCHANGED <<env, due, sandbox>>

\* ClearTune would leave BATCH as it is.
MutTuneWrites(v) ==
  IF v = None THEN <<[key |-> "EFFORT", value |-> None]>>
  ELSE <<[key |-> "EFFORT", value |-> v], [key |-> "BATCH", value |-> v]>>

\* WriteTune on enter, ClearTune on esc.
TuneWrites(v) == <<[key |-> "EFFORT", value |-> v], [key |-> "BATCH", value |-> v]>>

Tune(t) ==
  /\ ui[t].pc = "tune"
  /\ \E v \in Options["EFFORT"] \union {None} : Goto(t, "tuned") /\ Begins(t, TuneWrites(v))
  /\ Fine /\ UNCHANGED <<env, due, sandbox>>

\* startLaunch: the list of steps is chosen by BATCH.
StartLaunch(t, agreed) ==
  ui' = [ui EXCEPT ![t] = [AtMenu EXCEPT !.pc = "config", !.agreed = agreed,
                                         !.batch = env["BATCH"]]]

\* The launch would begin without a look at the container.
MutTuneWritten(t) ==
  /\ ui[t].pc = "tuned"
  /\ \/ Done(t) /\ StartLaunch(t, FALSE)
     \/ Failed(t) /\ ToMenu(t)
  /\ Ends(t) /\ Fine /\ UNCHANGED <<env, due, sandbox>>

TuneWritten(t) ==
  /\ ui[t].pc = "tuned"
  /\ Wrote(t, "ask")
  /\ Fine /\ UNCHANGED <<env, due, sandbox>>

MaybeWarnRestart(t) ==
  /\ ui[t].pc = "ask"
  /\ IF WillRecreate THEN Goto(t, "warn") ELSE StartLaunch(t, FALSE)
  /\ Fine /\ UNCHANGED <<env, job, due, sandbox>>

Answer(t) ==
  /\ ui[t].pc = "warn"
  /\ StartLaunch(t, TRUE) \/ ToMenu(t)
  /\ Fine /\ UNCHANGED <<env, job, due, sandbox>>

-----------------------------------------------------------------------------
(* The step config.                                                        *)

\* The groups are saved in their order, each with what was chosen for it.
Selections(groups) == {c \in [DOMAIN groups -> Values] : \A i \in DOMAIN groups : c[i] \in Options[groups[i]]}
Saves(groups, c)   == [i \in DOMAIN groups |-> [key |-> groups[i], value |-> c[i]]]

\* Satisfied if every group is in the file.  Otherwise what has nothing to
\* choose from is saved without a question.
Config(t) ==
  /\ ui[t].pc = "config"
  /\ \/ /\ \A g \in Groups : env[g] # None
        /\ Goto(t, "image") /\ UNCHANGED job
     \/ /\ \E g \in Groups : env[g] = None
        /\ \E c \in Selections(Bare) : Goto(t, "load") /\ Begins(t, Saves(Bare, c))
  /\ Fine /\ UNCHANGED <<env, due, sandbox>>

Loaded(t) ==
  /\ ui[t].pc = "load"
  /\ Wrote(t, IF Asked = <<>> THEN "image" ELSE "form")
  /\ Fine /\ UNCHANGED <<env, due, sandbox>>

Form(t) ==
  /\ ui[t].pc = "form"
  /\ \/ \E c \in Selections(Asked) : Goto(t, "save") /\ Begins(t, Saves(Asked, c))
     \/ ToMenu(t) /\ UNCHANGED job
  /\ Fine /\ UNCHANGED <<env, due, sandbox>>

Saved(t) ==
  /\ ui[t].pc = "save"
  /\ Wrote(t, "image")
  /\ Fine /\ UNCHANGED <<env, due, sandbox>>

-----------------------------------------------------------------------------
(* The image, the container and what runs in it.                           *)

\* It would be content with any container that runs.
MutImage(t) ==
  /\ ui[t].pc = "image" /\ t \in Launchers
  /\ Goto(t, IF box.up THEN "container" ELSE "label")
  /\ Fine /\ UNCHANGED <<env, job, due, sandbox>>

Image(t) ==
  /\ ui[t].pc = "image" /\ t \in Launchers
  /\ Goto(t, IF Stale THEN "label" ELSE "container")
  /\ Fine /\ UNCHANGED <<env, job, due, sandbox>>

\* composeEnv reads the stacks twice: for the label, and for the build.
Label(t) ==
  /\ ui[t].pc = "label"
  /\ ui' = [ui EXCEPT ![t].pc = "build", ![t].label = Desired]
  /\ Fine /\ UNCHANGED <<env, job, due, sandbox>>

Build(t) ==
  /\ ui[t].pc = "build"
  /\ image' = [label |-> ui[t].label, stacks |-> env["STACKS"],
               true |-> "calm" \in claims[t] /\ ~Torn]
  /\ ui' = [ui EXCEPT ![t].pc = "container", ![t].label = None]
  /\ Fine /\ UNCHANGED <<env, job, due, box>>

Container(t) ==
  /\ ui[t].pc = "container"
  /\ \/ Goto(t, IF Stale THEN "down" ELSE "provision") /\ Fine
     \/ box.up /\ Goto(t, "down") /\ Event   \* it is not healthy
  /\ UNCHANGED <<env, job, due, sandbox>>

Down(t) ==
  /\ ui[t].pc = "down"
  /\ box' = IF WillRecreate THEN NoBox ELSE box
  /\ Goto(t, "up")
  /\ Fine /\ UNCHANGED <<env, job, due, image>>

\* compose up also replaces a running container of another image.
Up(t) ==
  /\ ui[t].pc = "up"
  /\ box' = [up |-> TRUE, of |-> image]
  /\ Goto(t, "provision")
  /\ Fine /\ UNCHANGED <<env, job, due, image>>

\* The container does not become healthy, and the step is tried once more.
Retry(t) ==
  /\ ui[t].pc = "up" /\ Goto(t, "down")
  /\ Event /\ UNCHANGED <<env, job, due, sandbox>>

\* The phases of the provisioning are given the loadout and the effort.
Provision(t) ==
  /\ ui[t].pc = "provision"
  /\ ui' = [ui EXCEPT ![t] = [AtMenu EXCEPT !.pc = IF box.up THEN "session" ELSE "menu"]]
  /\ Fine /\ UNCHANGED <<env, job, due, sandbox>>

Leave(t) ==
  /\ ui[t].pc = "session" /\ ToMenu(t)
  /\ Fine /\ UNCHANGED <<env, job, due, sandbox>>

\* A step fails or the user cancels the launch.
LaunchEnds(t) ==
  /\ ui[t].pc \in {"image", "label", "build", "container", "down", "up", "provision"}
  /\ ToMenu(t)
  /\ Event /\ UNCHANGED <<env, job, due, sandbox>>

\* The TUI is killed, or quits while the config step still saves.
Killed(t) ==
  /\ ui[t].pc # "menu" /\ ToMenu(t)
  /\ Dies(t)
  /\ UNCHANGED sandbox

\* Somebody stops the container.
BoxStops ==
  /\ box.up /\ box' = NoBox
  /\ Event /\ UNCHANGED <<env, job, due, ui, image>>

Writes(t)     == FileStep(t) /\ UNCHANGED <<ui, sandbox>>
OwnerEdits(k) == \E v \in Options[k] \union {None} : Edit(k, v) /\ UNCHANGED <<ui, sandbox>>

-----------------------------------------------------------------------------
(* The history of the claims.                                               *)

Tuning == {"EFFORT", "BATCH"}
Changed(S) == \E k \in S : due'[k] # due[k]
Reads == {"ask", "image", "label", "build", "container", "down", "provision"}

\* u gives up its claims at a step of t (None: nobody's).
TuneLost(u, t) ==
  \/ ui[u].pc = "tuned" /\ ui'[u].pc = "menu"   \* half of it may have been written
  \/ t # u /\ Changed(Tuning)
  \/ ui[u].pc # "config" /\ ui'[u].pc = "config" /\ (Torn \/ due["BATCH"] = Lost)

BoxLost(u, t) ==
  \/ Changed({"STACKS"}) \/ due["STACKS"] = Lost
  \/ t # u /\ sandbox' # sandbox
  \/ /\ ui'[u] # ui[u]
     /\ \/ Torn /\ ui[u].pc \in Reads
        \/ ~Stale /\ ui'[u].pc = "down"   \* a container that is not healthy

Gained(t) ==
  (IF ui[t].pc = "tune" /\ ui'[t].pc = "tuned" THEN {"tune"} ELSE {})
  \union (IF ui[t].pc # "config" /\ ui'[t].pc = "config" THEN {"foreseen"} ELSE {})
  \union (IF ui[t].pc = "image" /\ ui'[t].pc # "image" THEN {"calm"} ELSE {})

Observe(t) ==
  claims' = [u \in Launchers |->
    (claims[u] \union IF u = t THEN Gained(u) ELSE {})
      \ ((IF TuneLost(u, t) THEN {"tune"} ELSE {})
         \union (IF BoxLost(u, t) \/ ui'[u].pc \in {"menu", "session"} THEN {"foreseen", "calm"} ELSE {}))]

Menu(t)   == PickRole(t) \/ RoleWritten(t) \/ Tune(t) \/ TuneWritten(t)
             \/ MaybeWarnRestart(t) \/ Answer(t)
Launch(t) == \/ Config(t) \/ Loaded(t) \/ Form(t) \/ Saved(t)
             \/ Image(t) \/ Label(t) \/ Build(t) \/ Container(t) \/ Down(t) \/ Up(t) \/ Retry(t)
             \/ Provision(t) \/ Leave(t) \/ LaunchEnds(t)

Next ==
  \/ \E t \in Procs : (Menu(t) \/ Launch(t) \/ Writes(t) \/ Killed(t)) /\ Observe(t)
  \/ (BoxStops \/ \E k \in Keys : OwnerEdits(k)) /\ Observe(None)

Spec == Init /\ [][Next]_vars

-----------------------------------------------------------------------------
(* Properties                                                              *)

\* A launch runs with one tune: the effort that the provisioning is given and
\* the batch by which the list of steps was chosen, minutes before, come from
\* the same tune or from the same esc, and not half from an older one.
LaunchIsOfOneTune ==
  [][\A t \in Launchers :
       ui[t].pc = "provision" /\ Provision(t) /\ "tune" \in claims[t]
         /\ due["EFFORT"] # Lost /\ ~Torn
       => env["EFFORT"] = ui[t].batch]_vars

\* A container that runs is taken down or replaced only if the user has agreed,
\* or if what calls for it came after the question whether to warn: the form of
\* the config step, another TUI, or a file read while it was empty.
RecreateIsForeseen ==
  [][\A t \in Launchers :
       (Down(t) \/ Up(t)) /\ box.up /\ box'.of # box.of
       => ui[t].agreed \/ "foreseen" \notin claims'[t]]_vars

\* A session runs in a container with the stacks that were chosen last: by its
\* label, and in truth unless they changed between the label and the build.
SessionHasStacks ==
  [][\A t \in Launchers :
       ui[t].pc = "provision" /\ ui'[t].pc = "session" /\ "calm" \in claims[t] /\ ~Torn
       => /\ box.of.label = due["STACKS"]
          /\ box.of.true => box.of.stacks = due["STACKS"]]_vars
=============================================================================
