------------------------------ MODULE ReapClock ------------------------------
(***************************************************************************)
(* The clock of reapLoop: a running serve polls its clients every Interval *)
(* and ends when a poll finds nobody and none was found for Grace.  Clients*)
(* come and go at any time.  Looking at the pidfiles takes a while, and    *)
(* the loop reads the clock after it, not at the tick.  Serve models what  *)
(* the processes do; this module models when.                              *)
(***************************************************************************)
EXTENDS Naturals

\* The Mut... operators are slips a bug in this code could be; no action uses
\* them.  Each stands before the definition it would replace.

CONSTANTS
  Clients,   \* TUI runs that find this serve's lock taken
  Interval,  \* reapInterval
  Grace,     \* reapGrace
  MaxDelay,  \* how long a poll may take before it reads the clock
  MaxStart,  \* how long a TUI takes from ensureServe to its pidfile
  LastStart, \* clients start and leave, and the disk fails, until then
  Horizon,   \* and time is followed until then
  Never      \* no such time

ASSUME ClockAssumption ==
  /\ Interval \in Nat /\ Grace \in Nat /\ MaxDelay \in Nat /\ MaxStart \in Nat
  /\ MaxDelay < Interval /\ Interval <= Grace
  /\ LastStart \in Nat /\ Horizon \in Nat /\ Never \notin Nat

VARIABLES
  now,
  client,     \* per client: off, starting, live or gone
  began,      \* when it started, then when it registered
  left,       \* when it ended
  loop,      \* asleep until the next tick, polling, or gone
  tick,       \* the last tick
  seen,       \* this poll found a client, or could not read the directory
  blind,      \* history: the last tick at which it could not
  zeroSince,
  exited      \* when the serve ended

clockVars == <<now, client, began, left, loop, tick, seen, blind,
               zeroSince, exited>>

Times == Nat \cup {Never}

ClockTypeOK ==
  /\ now \in Nat
  /\ client \in [Clients -> {"off", "starting", "live", "gone"}]
  /\ began \in [Clients -> Times] /\ left \in [Clients -> Times]
  /\ loop \in {"asleep", "polling", "gone"}
  /\ tick \in Nat /\ seen \in BOOLEAN /\ blind \in Times
  /\ zeroSince \in Times /\ exited \in Times

\* The serve has just started; the client that started it may or may not have
\* registered.
ClockInit ==
  /\ now = 0 /\ loop = "asleep" /\ tick = 0 /\ seen = FALSE
  /\ blind = Never /\ zeroSince = Never /\ exited = Never
  /\ client \in [Clients -> {"off", "live"}]
  /\ began = [c \in Clients |-> IF client[c] = "live" THEN 0 ELSE Never]
  /\ left = [c \in Clients |-> Never]

Due == loop = "asleep" /\ now >= tick + Interval

\* Time passes unless something is due.
Pass ==
  /\ loop # "gone" /\ ~Due /\ now < Horizon
  /\ loop = "polling" => now < tick + MaxDelay
  /\ \A c \in Clients : client[c] = "starting" => now < began[c] + MaxStart
  /\ now' = now + 1
  /\ UNCHANGED <<client, began, left, loop, tick, seen, blind, zeroSince, exited>>

\* runTUI: its own serve finds the lock taken and ends.
Start(c) ==
  /\ client[c] = "off" /\ loop # "gone" /\ now <= LastStart
  /\ client' = [client EXCEPT ![c] = "starting"]
  /\ began' = [began EXCEPT ![c] = now]
  /\ UNCHANGED <<now, left, loop, tick, seen, blind, zeroSince, exited>>

Register(c) ==
  /\ client[c] = "starting"
  /\ client' = [client EXCEPT ![c] = "live"]
  /\ began' = [began EXCEPT ![c] = now]
  /\ UNCHANGED <<now, left, loop, tick, seen, blind, zeroSince, exited>>

\* The TUI quits, or crashes and leaves a pidfile that counts no more.
Leave(c) ==
  /\ client[c] = "live" /\ loop # "gone" /\ now <= LastStart
  /\ client' = [client EXCEPT ![c] = "gone"]
  /\ left' = [left EXCEPT ![c] = now]
  /\ UNCHANGED <<now, began, loop, tick, seen, blind, zeroSince, exited>>

\* The ticker fires and liveClientCount looks at the pidfiles.  When their
\* directory cannot be read the loop goes on as if a client were there.
PollClients ==
  /\ Due
  /\ loop' = "polling" /\ tick' = now
  /\ \/ seen' = (\E c \in Clients : client[c] = "live") /\ UNCHANGED blind
     \/ now <= LastStart /\ seen' = TRUE /\ blind' = now
  /\ UNCHANGED <<now, client, began, left, zeroSince, exited>>

MutKeepsZeroSince ==
  /\ loop = "polling" /\ seen
  /\ loop' = "asleep"
  /\ UNCHANGED <<now, client, began, left, tick, seen, blind, zeroSince, exited>>

SeesClient ==
  /\ loop = "polling" /\ seen
  /\ loop' = "asleep" /\ zeroSince' = Never
  /\ UNCHANGED <<now, client, began, left, tick, seen, blind, exited>>

GraceOver == zeroSince # Never /\ now >= zeroSince + Grace

MutRestartsGrace ==
  /\ loop = "polling" /\ ~seen
  /\ ~GraceOver
  /\ loop' = "asleep"
  /\ zeroSince' = now
  /\ UNCHANGED <<now, client, began, left, tick, seen, blind, exited>>

\* Nobody there: the grace period begins, or goes on.
SeesNobody ==
  /\ loop = "polling" /\ ~seen
  /\ ~GraceOver
  /\ loop' = "asleep"
  /\ zeroSince' = IF zeroSince = Never THEN now ELSE zeroSince
  /\ UNCHANGED <<now, client, began, left, tick, seen, blind, exited>>

MutGivesUpLooking ==
  /\ loop \in {"asleep", "polling"} /\ GraceOver
  /\ loop' = "gone" /\ exited' = now
  /\ UNCHANGED <<now, client, began, left, tick, seen, blind, zeroSince>>

GivesUp ==
  /\ loop = "polling" /\ ~seen
  /\ GraceOver
  /\ loop' = "gone" /\ exited' = now
  /\ UNCHANGED <<now, client, began, left, tick, seen, blind, zeroSince>>

ClockNext ==
  \/ Pass \/ PollClients \/ SeesClient \/ SeesNobody \/ GivesUp
  \/ \E c \in Clients : Start(c) \/ Register(c) \/ Leave(c)

ClockSpec == ClockInit /\ [][ClockNext]_clockVars

-----------------------------------------------------------------------------
(* Properties *)

Deserted == \A c \in Clients : client[c] \in {"off", "gone"}
DesertedSince(n) ==
  /\ Deserted /\ n < now
  /\ blind # Never => blind + n < now
  /\ \A c \in Clients : left[c] # Never => left[c] + n < now

\* After the last client has left, the serve and the proxy's token outlive it
\* by no more than the grace period, two intervals and the delay of two polls:
\* of the one that starts the period, and of the one that ends it.  A poll that
\* could not read the directory counts as a client that was there (reapLoopWith).
ExposureBounded == loop # "gone" => ~DesertedSince(Grace + 2 * Interval + 2 * MaxDelay)

\* A client that was there for longer than an interval is given its grace period.
GraceHolds ==
  loop = "gone" =>
    \A c \in Clients :
      client[c] = "gone" /\ left[c] > began[c] + Interval => exited >= left[c] + Grace

\* Only a client that registered while the last poll was under way, or later,
\* is left without a serve.
AbandonsOnlyTheFresh ==
  loop = "gone" => \A c \in Clients : client[c] = "live" => began[c] + MaxDelay >= exited
=============================================================================
