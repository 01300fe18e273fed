-------------------------------- MODULE Serve --------------------------------
(***************************************************************************)
(* The host processes of cmd/mirabilis: every TUI spawns `mirabilis serve`,*)
(* waits for a session key, and registers itself with a pidfile; a serve   *)
(* that gets the lock writes its key, starts the auth proxy on a fixed     *)
(* port, and polls the pidfiles until no client has been there for a grace *)
(* period.  They share nothing but files, the lock and the port.  The      *)
(* length of the grace period is the subject of ReapClock; here a second   *)
(* poll without clients may end it or not.                                 *)
(***************************************************************************)
EXTENDS Naturals, FiniteSets

\* The Mut... operators are slips a bug in this code could be; no action uses
\* them.  Each stands before the definition it would replace.

CONSTANTS
  TUIs,       \* runs of the TUI; the serve a run spawns bears the run's name,
              \* and so does that serve's session key
  None,       \* no process, no file
  MaxFaults   \* how often something may go wrong

ASSUME ServeAssumption == MaxFaults \in Nat /\ None \notin TUIs /\ "empty" \notin TUIs

VARIABLES
  tui,      \* where runTUI is
  serve,    \* where runServe is
  proxy,    \* the serve's proxy: not started, listening, or failed to listen
  lock,     \* the holder of serve.lock
  port,     \* the process bound to the proxy's port
  keyFile,  \* session-key: absent, empty, or the serve whose key it holds
  pidFile,  \* clients/<pid>.pid
  reused,   \* ended TUIs whose pid belongs to some other process now
  zero,     \* zeroSince is set
  todo,     \* directory entries this poll has still to look at
  stale,    \* the entry about to be removed
  count,    \* live clients this poll has seen
  owed,     \* history: the clients registered when this poll began
  keyLost,  \* serves whose key could not be written
  faults

hostVars == <<lock, port, keyFile, reused, keyLost>>
pollVars == <<zero, todo, stale, count, owed>>
vars == <<tui, serve, proxy, pidFile, hostVars, pollVars, faults>>

Running  == {"waiting", "registering", "live"}
Holding  == {"locked", "keying", "serving", "polling", "leaving"}

TypeOK ==
  /\ tui \in [TUIs -> Running \cup {"off", "opened", "gone"}]
  /\ serve \in [TUIs -> Holding \cup {"none", "started", "unlocked", "gone"}]
  /\ proxy \in [TUIs -> {"none", "up", "failed"}]
  /\ lock \in TUIs \cup {None} /\ port \in TUIs \cup {None}
  /\ keyFile \in TUIs \cup {None, "empty"}
  /\ pidFile \in [TUIs -> {"absent", "empty", "full"}]
  /\ reused \subseteq TUIs /\ keyLost \subseteq TUIs
  /\ zero \in [TUIs -> BOOLEAN]
  /\ todo \in [TUIs -> SUBSET TUIs]
  /\ stale \in [TUIs -> TUIs \cup {None}]
  /\ count \in [TUIs -> Nat]
  /\ owed \in [TUIs -> SUBSET TUIs]
  /\ faults \in 0..MaxFaults

Init ==
  /\ tui = [t \in TUIs |-> "off"] /\ serve = [s \in TUIs |-> "none"]
  /\ proxy = [s \in TUIs |-> "none"]
  /\ lock = None /\ port = None /\ keyFile = None
  /\ pidFile = [t \in TUIs |-> "absent"]
  /\ reused = {} /\ keyLost = {}
  /\ zero = [s \in TUIs |-> FALSE] /\ todo = [s \in TUIs |-> {}]
  /\ stale = [s \in TUIs |-> None] /\ count = [s \in TUIs |-> 0]
  /\ owed = [s \in TUIs |-> {}]
  /\ faults = 0

Fault == faults < MaxFaults /\ faults' = faults + 1

GoTUI(t, l)   == tui' = [tui EXCEPT ![t] = l]
GoServe(s, l) == serve' = [serve EXCEPT ![s] = l]

-----------------------------------------------------------------------------
(* runTUI *)

\* ensureServe: starting the child is not waited for, and its failure ignored.
EnsureServe(t) ==
  /\ tui[t] = "off"
  /\ GoTUI(t, "waiting")
  /\ \/ GoServe(t, "started") /\ UNCHANGED faults
     \/ GoServe(t, "gone") /\ Fault
  /\ UNCHANGED <<proxy, pidFile, hostVars, pollVars>>

\* waitForSessionKey ends when the file holds a key, whoever wrote it, or when
\* its two seconds are over.
WaitForKey(t) ==
  /\ tui[t] = "waiting"
  /\ GoTUI(t, "registering")
  /\ UNCHANGED <<serve, proxy, pidFile, hostVars, pollVars, faults>>

\* registerClient: WriteFile creates the file and then fills it.
CreatePidFile(t) ==
  /\ tui[t] = "registering" /\ pidFile[t] = "absent"
  /\ GoTUI(t, "opened")
  /\ pidFile' = [pidFile EXCEPT ![t] = "empty"]
  /\ UNCHANGED <<serve, proxy, hostVars, pollVars, faults>>

\* A file that was removed meanwhile takes the pid with it.
WritePidFile(t) ==
  /\ tui[t] = "opened"
  /\ GoTUI(t, "live")
  /\ pidFile' = [pidFile EXCEPT ![t] = IF @ = "empty" THEN "full" ELSE @]
  /\ UNCHANGED <<serve, proxy, hostVars, pollVars, faults>>

Quit(t) ==
  /\ tui[t] = "live"
  /\ GoTUI(t, "gone")
  /\ pidFile' = [pidFile EXCEPT ![t] = "absent"]
  /\ UNCHANGED <<serve, proxy, hostVars, pollVars, faults>>

\* The TUI ends without its cleanup; while its pidfile is there, its pid may be
\* given to another process.
Crash(t) ==
  /\ tui[t] \in Running \cup {"opened"} /\ Fault
  /\ GoTUI(t, "gone")
  /\ UNCHANGED <<serve, proxy, pidFile, hostVars, pollVars>>

ReusePid(t) ==
  /\ tui[t] = "gone" /\ pidFile[t] # "absent" /\ t \notin reused /\ Fault
  /\ reused' = reused \cup {t}
  /\ UNCHANGED <<tui, serve, proxy, pidFile, lock, port, keyFile, keyLost, pollVars>>

-----------------------------------------------------------------------------
(* runServe, up to the poll loop *)

MutTryFlockIgnored(s) ==
  /\ serve[s] = "started"
  /\ lock' = s /\ GoServe(s, "locked")
  /\ UNCHANGED <<tui, proxy, pidFile, port, keyFile, reused, keyLost, pollVars, faults>>

TryFlock(s) ==
  /\ serve[s] = "started"
  /\ \/ lock = None /\ lock' = s /\ GoServe(s, "locked")
     \/ lock # None /\ UNCHANGED lock /\ GoServe(s, "gone")
  /\ UNCHANGED <<tui, proxy, pidFile, port, keyFile, reused, keyLost, pollVars, faults>>

\* writeSessionKey truncates the file and fills it; when it fails that is
\* logged, and the serve goes on.
TruncateKey(s) ==
  /\ serve[s] = "locked"
  /\ \/ keyFile' = "empty" /\ GoServe(s, "keying") /\ UNCHANGED <<keyLost, faults>>
     \/ UNCHANGED keyFile /\ GoServe(s, "serving") /\ keyLost' = keyLost \cup {s} /\ Fault
  /\ UNCHANGED <<tui, proxy, pidFile, lock, port, reused, pollVars>>

WriteKey(s) ==
  /\ serve[s] = "keying"
  /\ GoServe(s, "serving")
  /\ \/ keyFile' = s /\ UNCHANGED <<keyLost, faults>>
     \/ UNCHANGED keyFile /\ keyLost' = keyLost \cup {s} /\ Fault
  /\ UNCHANGED <<tui, proxy, pidFile, lock, port, reused, pollVars>>

\* proxy.Start, in a goroutine of its own: it listens or fails, once.
Listen(s) ==
  /\ serve[s] \in {"serving", "polling", "leaving", "unlocked"} /\ proxy[s] = "none"
  /\ \/ port = None /\ port' = s /\ proxy' = [proxy EXCEPT ![s] = "up"]
     \/ port # None /\ UNCHANGED port /\ proxy' = [proxy EXCEPT ![s] = "failed"]
  /\ UNCHANGED <<tui, serve, pidFile, lock, keyFile, reused, keyLost, pollVars, faults>>

-----------------------------------------------------------------------------
(* reapLoop and liveClientCount *)

\* A client the documentation speaks of.
Registered(t) == tui[t] = "live" /\ pidFile[t] = "full"

\* The listing; a directory that cannot be read restarts the grace period.
List(s) ==
  /\ serve[s] = "serving"
  /\ \/ /\ todo' = [todo EXCEPT ![s] = {t \in TUIs : pidFile[t] # "absent"}]
        /\ count' = [count EXCEPT ![s] = 0]
        /\ owed' = [owed EXCEPT ![s] = {t \in TUIs : Registered(t)}]
        /\ GoServe(s, "polling")
        /\ UNCHANGED <<zero, faults>>
     \/ /\ zero[s] /\ zero' = [zero EXCEPT ![s] = FALSE]
        /\ Fault
        /\ UNCHANGED <<serve, todo, count, owed>>
  /\ UNCHANGED <<tui, proxy, pidFile, hostVars, stale>>

PidAlive(t) == tui[t] \in Running \cup {"opened"} \/ t \in reused

MutLookTrustsPidFiles(s, t) ==
  /\ serve[s] = "polling" /\ stale[s] = None /\ t \in todo[s]
  /\ todo' = [todo EXCEPT ![s] = @ \ {t}]
  /\ \/ pidFile[t] = "absent" /\ UNCHANGED <<count, stale>>
     \/ /\ pidFile[t] = "full"
        /\ count' = [count EXCEPT ![s] = @ + 1]
        /\ UNCHANGED stale
     \/ /\ pidFile[t] = "empty"
        /\ stale' = [stale EXCEPT ![s] = t]
        /\ UNCHANGED count
  /\ UNCHANGED <<tui, serve, proxy, pidFile, hostVars, zero, owed, faults>>

\* One entry: gone since the listing, a live client, or else to be removed.
Look(s, t) ==
  /\ serve[s] = "polling" /\ stale[s] = None /\ t \in todo[s]
  /\ todo' = [todo EXCEPT ![s] = @ \ {t}]
  /\ \/ pidFile[t] = "absent" /\ UNCHANGED <<count, stale>>
     \/ /\ pidFile[t] = "full" /\ PidAlive(t)
        /\ count' = [count EXCEPT ![s] = @ + 1]
        /\ UNCHANGED stale
     \/ /\ pidFile[t] = "empty" \/ (pidFile[t] = "full" /\ ~PidAlive(t))
        /\ stale' = [stale EXCEPT ![s] = t]
        /\ UNCHANGED count
  /\ UNCHANGED <<tui, serve, proxy, pidFile, hostVars, zero, owed, faults>>

\* os.Remove, whatever the file holds by now.
RemoveStale(s) ==
  /\ serve[s] = "polling" /\ stale[s] # None
  /\ pidFile' = [pidFile EXCEPT ![stale[s]] = "absent"]
  /\ stale' = [stale EXCEPT ![s] = None]
  /\ UNCHANGED <<tui, serve, proxy, hostVars, zero, todo, count, owed, faults>>

\* What a poll has collected is local to it.
PollOver(s) ==
  /\ count' = [count EXCEPT ![s] = 0] /\ owed' = [owed EXCEPT ![s] = {}]
  /\ todo' = [todo EXCEPT ![s] = {}] /\ stale' = [stale EXCEPT ![s] = None]

Looked(s) == serve[s] = "polling" /\ stale[s] = None /\ todo[s] = {}

\* The switch of reapLoop.
EndPoll(s) ==
  /\ Looked(s)
  /\ zero' = [zero EXCEPT ![s] = count[s] = 0]
  /\ GoServe(s, "serving") /\ PollOver(s)
  /\ UNCHANGED <<tui, proxy, pidFile, hostVars, faults>>

MutReapForgetsToCount(s) ==
  /\ Looked(s) /\ zero[s]
  /\ GoServe(s, "leaving") /\ PollOver(s)
  /\ zero' = [zero EXCEPT ![s] = FALSE]
  /\ UNCHANGED <<tui, proxy, pidFile, hostVars, faults>>

Reap(s) ==
  /\ Looked(s) /\ count[s] = 0 /\ zero[s]
  /\ GoServe(s, "leaving") /\ PollOver(s)
  /\ zero' = [zero EXCEPT ![s] = FALSE]
  /\ UNCHANGED <<tui, proxy, pidFile, hostVars, faults>>

\* runServe returns and its deferred calls release the lock; the port is
\* bound until the process has ended, unless a signal closed it before.
Unlock(s) ==
  /\ serve[s] = "leaving"
  /\ lock' = None /\ GoServe(s, "unlocked")
  /\ UNCHANGED <<tui, proxy, pidFile, port, keyFile, reused, keyLost, pollVars, faults>>

Exit(s) ==
  /\ serve[s] = "unlocked"
  /\ GoServe(s, "gone")
  /\ port' = IF port = s THEN None ELSE port
  /\ UNCHANGED <<tui, proxy, pidFile, lock, keyFile, reused, keyLost, pollVars, faults>>

\* A signal: the context of the proxy ends too, which may close its port first.
Signal(s) ==
  /\ serve[s] \in {"serving", "polling"} /\ Fault
  /\ GoServe(s, "leaving") /\ PollOver(s)
  /\ zero' = [zero EXCEPT ![s] = FALSE]
  /\ port' \in {port, IF port = s THEN None ELSE port}
  /\ UNCHANGED <<tui, proxy, pidFile, lock, keyFile, reused, keyLost>>

\* The process is killed, or runServe fails before it has written its key.
Kill(s) ==
  /\ serve[s] \in Holding /\ Fault
  /\ GoServe(s, "gone") /\ PollOver(s)
  /\ zero' = [zero EXCEPT ![s] = FALSE]
  /\ lock' = None
  /\ port' = IF port = s THEN None ELSE port
  /\ UNCHANGED <<tui, proxy, pidFile, keyFile, reused, keyLost>>

-----------------------------------------------------------------------------
ClientStarts(t) == EnsureServe(t) \/ WaitForKey(t) \/ CreatePidFile(t) \/ WritePidFile(t)
ClientEnds(t)   == Quit(t) \/ Crash(t) \/ ReusePid(t)
ServeStarts(s)  == TryFlock(s) \/ TruncateKey(s) \/ WriteKey(s)
Poll(s)         == List(s) \/ (\E t \in TUIs : Look(s, t)) \/ RemoveStale(s) \/ EndPoll(s)
ServeEnds(s)    == Unlock(s) \/ Exit(s)

Next ==
  \E p \in TUIs :
    \/ ClientStarts(p) \/ ClientEnds(p)
    \/ ServeStarts(p) \/ Listen(p) \/ Poll(p) \/ Reap(p) \/ ServeEnds(p)
    \/ Signal(p) \/ Kill(p)

Spec == Init /\ [][Next]_vars

\* Processes that were started are scheduled and their tickers tick; the grace
\* period ends if poll after poll finds nobody.
Fairness ==
  \A p \in TUIs :
    /\ WF_vars(tui[p] # "off" /\ ClientStarts(p))
    /\ WF_vars(ServeStarts(p)) /\ WF_vars(Listen(p))
    /\ WF_vars(Poll(p)) /\ SF_vars(Reap(p)) /\ WF_vars(ServeEnds(p))

FairSpec == Spec /\ Fairness

-----------------------------------------------------------------------------
(* Properties *)

\* The key on disk is the key the running serve accepts: no serve that lost or
\* left the lock overwrites it, and the only exception is a write that failed.
KeyIsServed ==
  \A s \in TUIs : serve[s] \in {"serving", "polling"} /\ s \notin keyLost => keyFile = s

\* A serve that gives up for want of clients was right: whoever had registered
\* when its last poll began has ended since.
ReapSparesRegistered ==
  [][\A s \in TUIs : Reap(s) => \A t \in owed[s] : tui[t] # "live"]_vars

\* When the last TUI has ended, cleanly or not, the lock and the port are free
\* in the end, unless a new TUI comes or a pid was given to somebody else.
Idle == \A t \in TUIs : ~PidAlive(t)
IdleServeEnds == Idle ~> (lock = None /\ port = None) \/ ~Idle
=============================================================================
