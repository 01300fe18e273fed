-------------------------------- MODULE App --------------------------------
(* The TUI application of internal/tui/app: the update function of the       *)
(* bubbletea program, the screen stack it keeps in the router, the commands  *)
(* it starts, and the pipelines and external jobs these commands run.        *)
(*                                                                           *)
(* The update function handles one message at a time. A command it returns   *)
(* runs in a goroutine of its own and posts one message when it ends, so     *)
(* messages in flight arrive in any order; `msgs` is their set. A program    *)
(* that takes the terminal (tea.Exec) stops the event loop until it ends.    *)
(*                                                                           *)
(* A handler is an operator from the application's state to the set of its   *)
(* outcomes: the state it returns, the messages its commands post at once,   *)
(* the job it starts, and what it tells the pipeline.                        *)
(*                                                                           *)
(* The pipeline is seen from here as a process that asks its questions in    *)
(* the order of the step list and closes its event channel; module Pipeline  *)
(* has the rest. Events that only repaint rows are left out, and so are the  *)
(* window, the status bar, the clocks that animate the frame, and the copy   *)
(* and open-URL commands, which touch none of this state.                    *)
EXTENDS Naturals, Sequences, FiniteSets

CONSTANTS
  Slots,        \* bound: pipelines that exist at a time
  MaxOvertakes, \* bound: times one of the user's messages is overtaken
  Nil          \* no question, no job, no terminal program

ASSUME AppAssumption ==
  /\ Slots \in Nat \ {0}
  /\ MaxOvertakes \in Nat
  /\ Nil \notin {"launch", "review", "vscode", "self", "packs"}
  /\ Nil \notin {"claude-auth", "config", "gh-auth", "attach"}

Runs == 1 .. Slots

(* The steps of the launch list that may ask, in the order they may ask:     *)
(* two run a program in the terminal, one shows a form, one a device code.   *)
Catalogue == <<"claude-auth", "config", "gh-auth", "attach">>
Questions == {Catalogue[i] : i \in DOMAIN Catalogue}
InTerminal == {"claude-auth", "attach"}
ScreenFor(q) == IF q = "config" THEN "form" ELSE "ghauth"

Overlays == {"gate", "role", "tune", "warn"}
Screens == {"menu", "launch", "form", "ghauth"} \cup Overlays
Jobs == {"vscode", "self", "packs"}
Actions == {"launch", "review", "vscode", "quit"}

Answers == {"none", "choices", "value", "exec", "cancelled"}

Values == {"skip", "self", "packs", "all", "role", "tune",
           "confirm", "cancel", "choices"}
KeyMsgs ==
  [type : {"menu"}, action : Actions]
    \cup [type : {"result"}, from : Overlays \cup {"form"},
          value : Values]
    \cup [type : {"pop"}]
CommandMsgs ==
  [type : {"push"}, screen : {"form", "ghauth"}]
    \cup [type : {"exec", "execdone"}, step : InTerminal]
    \cup [type : {"jobdone"}, job : Jobs]
PipelineMsgs ==
  [type : {"waiting"}, step : Questions]
    \cup [type : {"done"}, failed : BOOLEAN]
UserMsgs == KeyMsgs \cup [type : {"push"}, screen : {"form", "ghauth"}]
Msgs == KeyMsgs \cup CommandMsgs \cup PipelineMsgs

VARIABLES
  app,      \* the App struct
  review,   \* the facade's reviewMode
  msgs,     \* messages in flight
  jobs,     \* external jobs that are running
  terminal, \* the question whose program has the terminal, or Nil
  runs,     \* the pipelines
  overtaken \* history: times the user's messages were overtaken

appVars == <<app, review, msgs, jobs, terminal, runs, overtaken>>

NoRun == [mode    |-> Nil,     \* the step list: launch or review
          state   |-> "unused", \* unused, working, asking, over
          q       |-> Nil,     \* the question asked last
          answer  |-> "none",   \* the answer it got
          refused |-> FALSE,    \* a question was cancelled
          signedOut |-> FALSE,  \* and it was the sign-in
          feed    |-> <<>>,     \* the event channel
          pumps   |-> 0,        \* commands that wait on the channel
          agreed  |-> FALSE]    \* history: nothing to lose, or confirmed

Blank == [stack |-> <<"menu">>, awaiting |-> {}, busy |-> FALSE, pipe |-> 0,
          waiting |-> Nil, launchCancelled |-> FALSE, gateAll |-> FALSE]

AppInit ==
  /\ app = Blank
  /\ review = FALSE
  /\ msgs = {}
  /\ jobs = {}
  /\ terminal = Nil
  /\ runs = [r \in Runs |-> NoRun]
  /\ overtaken = 0

(* The program ends with everything it runs; the next one starts afresh.    *)
QuitProgram ==
  /\ app' = Blank
  /\ review' = FALSE
  /\ msgs' = {}
  /\ jobs' = {}
  /\ terminal' = Nil
  /\ runs' = [r \in Runs |-> NoRun]
  /\ overtaken' = 0

(***************************************************************************)
(* The router and the outcomes of handlers.                                *)
(***************************************************************************)
Depth(a) == Len(a.stack)
Top(a) == a.stack[Depth(a)]
Push(a, screen) == [a EXCEPT !.stack = Append(@, screen)]
Pop(a) ==
  [a EXCEPT !.stack = IF Depth(a) > 1 THEN SubSeq(@, 1, Depth(a) - 1) ELSE @]

Out(a) == [app |-> a, post |-> {}, job |-> Nil, start |-> FALSE,
           agreed |-> FALSE, review |-> review,
           resume |-> Nil, answer |-> "none", pump |-> FALSE, quit |-> FALSE]

BackToMenu(a) == [a EXCEPT !.stack = <<"menu">>]

StartJob(a, job) ==
  [Out(BackToMenu([a EXCEPT !.busy = TRUE])) EXCEPT !.job = job]

(***************************************************************************)
(* From the menu to the pipeline: update gate, role, tune, warning.        *)
(***************************************************************************)
Unused == {r \in Runs : runs[r].state = "unused"}
NextRun == CHOOSE r \in Unused : TRUE

StartLaunch(a, agreed) ==
  IF a.pipe # 0
  THEN {Out(a)}
  ELSE {o \in {[Out(Push([a EXCEPT !.launchCancelled = FALSE, !.pipe = NextRun,
                                   !.busy = TRUE], "launch"))
                  EXCEPT !.start = TRUE, !.agreed = agreed]} : Unused # {}}

(* The launch after the look at what it would replace (maybeWarnRestart).    *)
StartAgreed(a) == StartLaunch(a, TRUE)

MutReviewForgetsMode(a) == StartLaunch(a, FALSE)

StartReview(a) ==
  IF a.pipe # 0
  THEN {Out(a)}
  ELSE {[o EXCEPT !.review = TRUE] : o \in StartLaunch(a, FALSE)}

PushAwaited(a, screen) ==
  {Out(Push([a EXCEPT !.awaiting = @ \cup {screen}], screen))}

PushGate(a) == IF a.pipe # 0 THEN {Out(a)} ELSE PushAwaited(a, "gate")

(* WillRecreateContainer may answer either way.                             *)
MaybeWarnRestart(a) ==
  IF a.pipe # 0
  THEN {Out(a)}
  ELSE StartAgreed(a) \cup PushAwaited(a, "warn")

PushTune(a) == IF a.pipe # 0 THEN {Out(a)} ELSE PushAwaited(a, "tune")

(* The catalogue of loadouts may be empty.                                  *)
PickRole(a) ==
  IF a.pipe # 0
  THEN {Out(a)}
  ELSE PushAwaited(a, "role") \cup MaybeWarnRestart(a)

RunGate(a, choice) ==
  CASE choice = "self"  -> {StartJob([a EXCEPT !.gateAll = FALSE], "self")}
    [] choice = "packs" -> {StartJob([a EXCEPT !.gateAll = FALSE], "packs")}
    [] choice = "all"   -> {StartJob([a EXCEPT !.gateAll = TRUE], "self")}
    [] OTHER            -> PickRole(a)

(* Writing the loadout or the overrides may fail.                           *)
OrError(a, next) == {Out(BackToMenu(a))} \cup next

HandleMenuChosen(a, action) ==
  IF (a.busy \/ a.pipe # 0) /\ action # "quit"
  THEN {Out(BackToMenu(a))}
  ELSE CASE action = "launch" -> PushGate(a)
         [] action = "review" -> StartReview(a)
         [] action = "quit"   -> {[Out(a) EXCEPT !.quit = TRUE]}
         [] action = "vscode" -> {StartJob(a, "vscode")}

(* One awaited screen after the other is asked about in the code's order;   *)
(* a result nobody awaits goes to the waiting step of the pipeline.         *)
Served(a, kind) == [a EXCEPT !.awaiting = @ \ {kind}]

MutEscOnlyPops(a, answer) ==
  IF a.pipe # 0 /\ a.waiting # Nil /\ answer # "cancelled"
  THEN {[Out([a EXCEPT !.waiting = Nil])
          EXCEPT !.resume = a.waiting, !.answer = answer]}
  ELSE {Out([a EXCEPT !.waiting = Nil])}

ResumeWaiting(a, answer) ==
  LET told == [a EXCEPT !.waiting = Nil]
  IN  IF a.pipe # 0 /\ a.waiting # Nil
      THEN {[Out(IF answer = "cancelled"
                 THEN [told EXCEPT !.launchCancelled = TRUE] ELSE told)
              EXCEPT !.resume = a.waiting, !.answer = answer]}
      ELSE {Out(told)}

HandleScreenResult(a0, m) ==
  LET a == Pop(a0)
  IN  CASE "gate" \in a.awaiting ->
             RunGate(Served(a, "gate"), m.value)
        [] "gate" \notin a.awaiting /\ "role" \in a.awaiting ->
             IF m.from \notin {"tune", "form"}
             THEN OrError(Served(a, "role"), PushTune(Served(a, "role")))
             ELSE {Out(BackToMenu(Served(a, "role")))}
        [] a.awaiting \cap {"gate", "role"} = {} /\ "tune" \in a.awaiting ->
             IF m.from = "tune"
             THEN OrError(Served(a, "tune"), MaybeWarnRestart(Served(a, "tune")))
             ELSE {Out(BackToMenu(Served(a, "tune")))}
        [] a.awaiting = {"warn"} ->
             IF m.value = "confirm"
             THEN StartAgreed(Served(a, "warn"))
             ELSE {Out(BackToMenu(Served(a, "warn")))}
        [] a.awaiting = {} ->
             ResumeWaiting(a, IF m.from = "form" THEN "choices" ELSE "value")

HandleScreenPop(a0) ==
  LET a == Pop(a0)
  IN  CASE "gate" \in a.awaiting ->
             RunGate(Served(a, "gate"), "skip")
        [] "gate" \notin a.awaiting /\ "role" \in a.awaiting ->
             {Out(BackToMenu(Served(a, "role")))}
        [] a.awaiting \cap {"gate", "role"} = {} /\ "tune" \in a.awaiting ->
             OrError(Served(a, "tune"), MaybeWarnRestart(Served(a, "tune")))
        [] a.awaiting = {"warn"} ->
             {Out(BackToMenu(Served(a, "warn")))}
        [] a.awaiting = {} -> ResumeWaiting(a, "cancelled")

MutStopsPumping(a, q) ==
  {[Out([a EXCEPT !.waiting = q])
     EXCEPT !.post = IF q \in InTerminal
                     THEN {[type |-> "exec", step |-> q]}
                     ELSE {[type |-> "push", screen |-> ScreenFor(q)]}]}

(***************************************************************************)
(* Messages of the pipeline and of jobs.                                   *)
(***************************************************************************)
HandleWaiting(a, q) ==
  {[Out([a EXCEPT !.waiting = q])
     EXCEPT !.pump = TRUE,
            !.post = IF q \in InTerminal
                     THEN {[type |-> "exec", step |-> q]}
                     ELSE {[type |-> "push", screen |-> ScreenFor(q)]}]}

MutPumpsOn(a) ==
  {IF a.pipe = 0 THEN Out(a)
   ELSE [Out(BackToMenu([a EXCEPT !.pipe = 0, !.busy = FALSE,
                                  !.launchCancelled = FALSE]))
          EXCEPT !.pump = TRUE]}

(* launchCancelled and failed only choose the notice on the menu.           *)
HandlePipelineDone(a) ==
  {Out(IF a.pipe = 0 THEN a
       ELSE BackToMenu([a EXCEPT !.pipe = 0, !.busy = FALSE,
                                 !.launchCancelled = FALSE]))}

HandleExecDone(a, q) ==
  IF a.pipe = 0
  THEN {Out(a)}
  ELSE {[Out(a) EXCEPT !.resume = q, !.answer = "exec"]}

ProceedAfterGate(a) ==
  PickRole(BackToMenu([a EXCEPT !.gateAll = FALSE, !.busy = FALSE]))

(* How a job ended only chooses the notice.                                 *)
HandleJobDone(a, job) ==
  CASE job = "vscode" -> {Out(BackToMenu([a EXCEPT !.busy = FALSE]))}
    [] job = "self" /\ a.gateAll -> {[Out(a) EXCEPT !.job = "packs"]}
    [] OTHER -> ProceedAfterGate(a)

Handle(m) ==
  CASE m.type = "menu"     -> HandleMenuChosen(app, m.action)
    [] m.type = "result"   -> HandleScreenResult(app, m)
    [] m.type = "pop"      -> HandleScreenPop(app)
    [] m.type = "push"     -> {Out(Push(app, m.screen))}
    [] m.type = "waiting"  -> HandleWaiting(app, m.step)
    [] m.type = "done"     -> HandlePipelineDone(app)
    [] m.type = "execdone" -> HandleExecDone(app, m.step)
    [] m.type = "jobdone"  -> HandleJobDone(app, m.job)

MutAnswersAnyStep(run, q, answer) ==
  IF run.state = "asking"
  THEN [run EXCEPT !.state = "working", !.answer = answer]
  ELSE run

(* Resume answers a question only if the pipeline waits for that step.      *)
Resume(run, q, answer) ==
  IF run.state = "asking" /\ run.q = q
  THEN [run EXCEPT !.state = "working", !.answer = answer,
                   !.refused = @ \/ answer = "cancelled",
                   !.signedOut = @ \/ (q = "claude-auth" /\ answer = "cancelled")]
  ELSE run

(* What an outcome does to the pipelines: the one the app has is told the   *)
(* answer or gets a new pump; a new one gets the facade's list of steps; one *)
(* the app has done with, with nothing left of it, makes room.              *)
Told(o) == IF o.resume = Nil THEN runs
           ELSE [runs EXCEPT ![app.pipe] = Resume(@, o.resume, o.answer)]
Pumped(o) == IF ~o.pump THEN Told(o)
             ELSE [Told(o) EXCEPT ![app.pipe].pumps = @ + 1]
Started(o) ==
  LET mode == IF o.review THEN "review" ELSE "launch"
  IN  IF ~o.start THEN Pumped(o)
      ELSE [Pumped(o) EXCEPT ![o.app.pipe] =
              [NoRun EXCEPT !.state = "working", !.pumps = 1, !.mode = mode,
                            !.agreed = o.agreed]]
Spent(run) == run.state = "over" /\ run.feed = <<>> /\ run.pumps = 0
RunsAfter(o) ==
  LET next == Started(o)
  IN  [r \in Runs |-> IF r # o.app.pipe /\ Spent(next[r]) THEN NoRun ELSE next[r]]

(* What is left in flight is overtaken. The bound holds for everything but   *)
(* the user's own messages, which would block each other.                    *)
Overtakes(left) == left \cap UserMsgs # {}

Update(o, left) ==
  /\ app' = o.app
  /\ review' = o.review
  /\ msgs' = left \cup o.post
  /\ jobs' = IF o.job = Nil THEN jobs ELSE jobs \cup {o.job}
  /\ runs' = RunsAfter(o)
  /\ Overtakes(left) =>
       overtaken < MaxOvertakes \/ (msgs \ left) \cap UserMsgs # {}
  /\ overtaken' = IF Overtakes(left) /\ overtaken < MaxOvertakes
                  THEN overtaken + 1 ELSE overtaken
  /\ UNCHANGED terminal
Apply(o, left) == IF o.quit THEN QuitProgram ELSE Update(o, left)

(***************************************************************************)
(* The event loop: it delivers a message, or starts a terminal program.    *)
(***************************************************************************)
LoopFree == terminal = Nil

Deliver(m) ==
  /\ LoopFree
  /\ m \in msgs
  /\ m.type # "exec"
  /\ \E o \in Handle(m) : Apply(o, msgs \ {m})

TakeTerminal(m) ==
  /\ LoopFree
  /\ m \in msgs
  /\ m.type = "exec"
  /\ msgs' = msgs \ {m}
  /\ terminal' = m.step
  /\ UNCHANGED <<app, review, jobs, runs, overtaken>>

ProgramEnds ==
  /\ terminal # Nil
  /\ msgs' = msgs \cup {[type |-> "execdone", step |-> terminal]}
  /\ terminal' = Nil
  /\ UNCHANGED <<app, review, jobs, runs, overtaken>>

JobEnds(job) ==
  /\ job \in jobs
  /\ jobs' = jobs \ {job}
  /\ msgs' = msgs \cup {[type |-> "jobdone", job |-> job]}
  /\ UNCHANGED <<app, review, terminal, runs, overtaken>>

(***************************************************************************)
(* Keys. The user types a key that posts a message only after the last     *)
(* such message was handled (the assumption of unhurried typing).          *)
(***************************************************************************)
Unhurried ==
  /\ msgs \cap KeyMsgs = {}
  /\ overtaken = MaxOvertakes => msgs = {}

Type(m) ==
  /\ LoopFree
  /\ Unhurried
  /\ msgs' = msgs \cup {m}
  /\ UNCHANGED <<app, review, jobs, terminal, runs, overtaken>>

(* Enter on the menu, or esc on it, which is quit. No run is started past   *)
(* the bound.                                                               *)
ChooseAction(action) ==
  /\ Depth(app) = 1
  /\ action \in {"launch", "review"} => Unused # {}
  /\ Type([type |-> "menu", action |-> action])

(* What Enter may post from each screen; keys that only move its cursor are  *)
(* left out, for the cursor can be anywhere.                                 *)
GateChoices == {"skip", "self", "packs", "all"}
RoleChoices == {"role"}
TuneChoices == {"tune"}
WarnChoices == {"cancel", "confirm"}
FormChoices == {"choices"}

Choices(screen) ==
  CASE screen = "gate" -> GateChoices
    [] screen = "role" -> RoleChoices
    [] screen = "tune" -> TuneChoices
    [] screen = "warn" -> WarnChoices
    [] screen = "form" -> FormChoices
    [] OTHER -> {}

Enter(value) ==
  /\ Depth(app) > 1
  /\ value \in Choices(Top(app))
  /\ Type([type |-> "result", from |-> Top(app), value |-> value])

(* ctrl+c aborts a form, which posts the message of its cancel command.     *)
AbortForm ==
  /\ Depth(app) > 1
  /\ Top(app) = "form"
  /\ Type([type |-> "pop"])

(* The app handles esc itself as soon as there is a screen over the menu.   *)
Esc ==
  /\ LoopFree
  /\ Unhurried
  /\ Depth(app) > 1
  /\ \E o \in HandleScreenPop(app) : Apply(o, msgs)

QuitKey ==
  /\ LoopFree
  /\ Unhurried
  /\ Depth(app) = 1
  /\ QuitProgram

(***************************************************************************)
(* The pipelines.                                                          *)
(***************************************************************************)
Index(q) == CHOOSE i \in DOMAIN Catalogue : Catalogue[i] = q

(* A review run asks nothing; the hand-off needs the sign-in before it.     *)
Ask(r, q) ==
  /\ runs[r].state = "working"
  /\ runs[r].mode = "launch"
  /\ runs[r].q # Nil => Index(q) > Index(runs[r].q)
  /\ q = "attach" => ~runs[r].signedOut
  /\ runs' = [runs EXCEPT ![r].state = "asking", ![r].q = q, ![r].answer = "none",
                          ![r].feed = Append(@, [type |-> "waiting", step |-> q])]
  /\ UNCHANGED <<app, review, msgs, jobs, terminal, overtaken>>

(* The sign-in in the browser ends the gh-auth step with no answer at all.  *)
SignedIn(r) ==
  /\ runs[r].state = "asking"
  /\ runs[r].q = "gh-auth"
  /\ runs' = [runs EXCEPT ![r].state = "working"]
  /\ UNCHANGED <<app, review, msgs, jobs, terminal, overtaken>>

End(r) ==
  /\ runs[r].state = "working"
  /\ \E failed \in BOOLEAN :
       /\ runs[r].refused => failed
       /\ runs' = [runs EXCEPT ![r].state = "over",
                               ![r].feed = Append(@, [type |-> "done",
                                                      failed |-> failed])]
  /\ UNCHANGED <<app, review, msgs, jobs, terminal, overtaken>>

(* pumpEvents: one event, or the news that the channel is closed.           *)
Pump(r) ==
  /\ runs[r].pumps > 0
  /\ runs[r].feed # <<>> \/ runs[r].state = "over"
  /\ msgs' = msgs \cup {IF runs[r].feed # <<>> THEN Head(runs[r].feed)
                        ELSE [type |-> "done", failed |-> FALSE]}
  /\ runs' = [runs EXCEPT ![r].pumps = @ - 1,
                          ![r].feed = IF @ # <<>> THEN Tail(@) ELSE @]
  /\ UNCHANGED <<app, review, jobs, terminal, overtaken>>

Keys ==
  \/ \E action \in Actions : ChooseAction(action)
  \/ \E value \in Values : Enter(value)
  \/ AbortForm
  \/ Esc
  \/ QuitKey

Engine(r) == (\E q \in Questions : Ask(r, q)) \/ End(r)

AppNext ==
  \/ Keys
  \/ \E m \in msgs : Deliver(m) \/ TakeTerminal(m)
  \/ ProgramEnds
  \/ \E job \in Jobs : JobEnds(job)
  \/ \E r \in Runs : Engine(r) \/ SignedIn(r) \/ Pump(r)

AppSpec == AppInit /\ [][AppNext]_appVars

(* What the runtime owes the program: every goroutine runs, every message    *)
(* is delivered, a terminal program and a job end some day. Nothing is       *)
(* expected of the user.                                                     *)
MsgTypes == {"menu", "result", "pop", "push", "exec", "execdone", "jobdone",
             "waiting", "done"}

FairAppSpec ==
  /\ AppSpec
  /\ \A t \in MsgTypes :
       WF_appVars(\E m \in msgs : m.type = t /\ (Deliver(m) \/ TakeTerminal(m)))
  /\ WF_appVars(ProgramEnds)
  /\ \A job \in Jobs : WF_appVars(JobEnds(job))
  /\ \A r \in Runs : WF_appVars(Engine(r)) /\ WF_appVars(Pump(r))

-----------------------------------------------------------------------------
AppState ==
  [stack : Seq(Screens), awaiting : SUBSET Overlays, busy : BOOLEAN,
   pipe : 0 .. Slots, waiting : Questions \cup {Nil},
   launchCancelled : BOOLEAN, gateAll : BOOLEAN]

RunState ==
  [mode : {"launch", "review", Nil}, state : {"unused", "working", "asking", "over"},
   q : Questions \cup {Nil}, answer : Answers, refused : BOOLEAN, signedOut : BOOLEAN,
   feed : Seq(PipelineMsgs), pumps : {0, 1}, agreed : BOOLEAN]

AppTypeOK ==
  /\ app \in AppState
  /\ app.stack # <<>> /\ app.stack[1] = "menu"
  /\ review \in BOOLEAN
  /\ msgs \subseteq Msgs
  /\ jobs \subseteq Jobs
  /\ terminal \in InTerminal \cup {Nil}
  /\ runs \in [Runs -> RunState]
  /\ overtaken \in 0 .. MaxOvertakes

Live == {r \in Runs : runs[r].state \in {"working", "asking"}}
JobsDone == {m \in msgs : m.type = "jobdone"}

(* One thing at a time: the app is busy exactly while it has a pipeline or   *)
(* a job whose end it has not handled, it never has two, and it never takes  *)
(* a pipeline that still runs for finished: the one it has is the one that   *)
(* lives.                                                                    *)
OneActivity ==
  /\ app.busy <=> app.pipe # 0 \/ jobs # {} \/ JobsDone # {}
  /\ Cardinality(jobs) + Cardinality(JobsDone)
       + (IF app.pipe # 0 THEN 1 ELSE 0) <= 1
  /\ Live \subseteq {app.pipe}

(* A step gets the kind of answer its question asks for: choices for the     *)
(* form, the end of the program for the terminal, nothing but a              *)
(* cancellation for the device code.                                         *)
Suits(q, answer) ==
  \/ answer \in {"none", "cancelled"}
  \/ q \in InTerminal /\ answer = "exec"
  \/ q = "config" /\ answer = "choices"
AnswersMatch ==
  overtaken = 0 => \A r \in Runs : Suits(runs[r].q, runs[r].answer)

(* A launch that may replace the container was looked at for that, and       *)
(* confirmed by the user if it would.                                        *)
LaunchIsAgreed ==
  \A r \in Runs : runs[r].mode = "launch" => runs[r].agreed

(* An open question keeps its screen until it is answered.                   *)
Shown(q) ==
  /\ app.pipe # 0
  /\ runs[app.pipe].state = "asking"
  /\ runs[app.pipe].q = q
  /\ \E i \in DOMAIN app.stack : app.stack[i] = ScreenFor(q)
OpenQuestionStays ==
  [][\A q \in Questions \ InTerminal :
       Shown(q) =>
         Shown(q)' \/ overtaken' # 0 \/ runs'[app.pipe].state # "asking"]_appVars

(* A busy app becomes free, or a question is in front of the user.           *)
UsersTurn ==
  /\ app.pipe # 0
  /\ runs[app.pipe].state = "asking"
  /\ runs[app.pipe].q \notin InTerminal
FreeOrUsersTurn == app.busy ~> ~app.busy \/ UsersTurn

=============================================================================
