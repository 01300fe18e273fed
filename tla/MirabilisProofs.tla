-------------------------- MODULE MirabilisProofs --------------------------
(***************************************************************************)
(* Proofs about the processes of the mirabilis binary: the TUIs and serves *)
(* on the host (Serve), the clock of the serve's loop (ReapClock) and the  *)
(* application inside a TUI (App).  The three specifications share no name *)
(* and no variable; each part of this module is about one of them.         *)
(***************************************************************************)
EXTENDS Serve, ReapClock, App, SequenceTheorems, FiniteSetTheorems, TLAPS

-----------------------------------------------------------------------------
(* Serve, for any number of TUIs and faults.  The lock is what makes the key *)
(* right: whoever is past it holds it, so nobody else writes the file        *)
(* meanwhile.  A poll is right about those who had registered when it began, *)
(* although it looks at them one after the other and removes files by name:  *)
(* each of them is still to be looked at, with its pidfile as it was, or has *)
(* been counted, or has ended.                                               *)

\* A serve is past the lock exactly when it holds it, and there is none before
\* its TUI has spawned it.
Locked ==
  \A s \in TUIs :
    /\ serve[s] \in Holding <=> lock = s
    /\ tui[s] = "off" => serve[s] = "none"

\* What a poll has collected; nobody but the holder of the lock polls.
Polls ==
  \A s \in TUIs :
    /\ serve[s] # "polling" => stale[s] = None
    /\ stale[s] # None => stale[s] \notin todo[s]
    /\ serve[s] = "polling" =>
         \A t \in owed[s] : \/ tui[t] = "gone" \/ count[s] > 0
                            \/ t \in todo[s] /\ pidFile[t] = "full" /\ tui[t] = "live"

Inv == TypeOK /\ Locked /\ KeyIsServed /\ Polls

-----------------------------------------------------------------------------
LEMMA NextType == TypeOK /\ [Next]_vars => TypeOK'
  <1> SUFFICES ASSUME TypeOK, [Next]_vars PROVE TypeOK'
    OBVIOUS
  <1> USE ServeAssumption DEF TypeOK, Fault, Holding, Running, GoTUI, GoServe, hostVars, pollVars
  <1>0. faults' = faults + 1 /\ faults < MaxFaults => faults' \in 0 .. MaxFaults
    OBVIOUS
  <1>1. ASSUME NEW t \in TUIs, ClientStarts(t) PROVE TypeOK'
    <2>1. CASE EnsureServe(t)
      BY <1>0, <2>1 DEF EnsureServe
    <2>2. CASE WaitForKey(t)
      BY <2>2 DEF WaitForKey
    <2>3. CASE CreatePidFile(t)
      BY <2>3 DEF CreatePidFile
    <2>4. CASE WritePidFile(t)
      BY <2>4 DEF WritePidFile
    <2> QED BY <1>1, <2>1, <2>2, <2>3, <2>4 DEF ClientStarts
  <1>2. ASSUME NEW t \in TUIs, ClientEnds(t) PROVE TypeOK'
    <2>1. CASE Quit(t)
      BY <2>1 DEF Quit
    <2>2. CASE Crash(t)
      BY <1>0, <2>2 DEF Crash
    <2>3. CASE ReusePid(t)
      BY <1>0, <2>3 DEF ReusePid
    <2> QED BY <1>2, <2>1, <2>2, <2>3 DEF ClientEnds
  <1>3. ASSUME NEW s \in TUIs, ServeStarts(s) \/ Listen(s) PROVE TypeOK'
    <2>1. CASE TryFlock(s)
      BY <2>1 DEF TryFlock
    <2>2. CASE TruncateKey(s)
      BY <1>0, <2>2 DEF TruncateKey
    <2>3. CASE WriteKey(s)
      BY <1>0, <2>3 DEF WriteKey
    <2>4. CASE Listen(s)
      BY <2>4 DEF Listen
    <2> QED BY <1>3, <2>1, <2>2, <2>3, <2>4 DEF ServeStarts
  <1>4. ASSUME NEW s \in TUIs, Poll(s) PROVE TypeOK'
    <2>1. CASE List(s)
      <3>1. {t \in TUIs : pidFile[t] # "absent"} \in SUBSET TUIs /\ {t \in TUIs : Registered(t)} \in SUBSET TUIs
        OBVIOUS
      <3>2. todo' \in [TUIs -> SUBSET TUIs] /\ owed' \in [TUIs -> SUBSET TUIs]
        BY <2>1, <3>1 DEF List
      <3>3. zero' = zero \/ zero' = [zero EXCEPT ![s] = FALSE]
        BY <2>1 DEF List
      <3>4. zero' \in [TUIs -> BOOLEAN]
        BY <3>3
      <3>5. count' \in [TUIs -> Nat] /\ faults' \in 0 .. MaxFaults
        BY <1>0, <2>1 DEF List
      <3>6. UNCHANGED <<tui, proxy, pidFile, hostVars, stale>> /\ (UNCHANGED serve \/ GoServe(s, "polling"))
        BY <2>1 DEF List
      <3> QED BY <3>2, <3>4, <3>5, <3>6
    <2>2. ASSUME NEW t \in TUIs, Look(s, t) PROVE TypeOK'
      BY <2>2 DEF Look
    <2>3. CASE RemoveStale(s)
      BY <2>3 DEF RemoveStale
    <2>4. CASE EndPoll(s)
      BY <2>4 DEF EndPoll, PollOver
    <2> QED BY <1>4, <2>1, <2>2, <2>3, <2>4 DEF Poll
  <1>5. ASSUME NEW s \in TUIs, Reap(s) \/ ServeEnds(s) \/ Signal(s) \/ Kill(s) PROVE TypeOK'
    <2>1. CASE Reap(s)
      BY <2>1 DEF Reap, PollOver
    <2>2. CASE ServeEnds(s)
      BY <2>2 DEF ServeEnds, Unlock, Exit
    <2>3. CASE Signal(s)
      BY <1>0, <2>3 DEF Signal, PollOver
    <2>4. CASE Kill(s)
      BY <1>0, <2>4 DEF Kill, PollOver
    <2> QED BY <1>5, <2>1, <2>2, <2>3, <2>4
  <1>6. CASE UNCHANGED vars
    BY <1>6 DEF vars
  <1> QED BY <1>1, <1>2, <1>3, <1>4, <1>5, <1>6 DEF Next

LEMMA InitInv == Init => Inv
  BY ServeAssumption DEF Init, Inv, TypeOK, Locked, KeyIsServed, Polls, Holding, Running

LEMMA NextLocked == TypeOK /\ Locked /\ [Next]_vars => Locked'
  <1> SUFFICES ASSUME TypeOK, Locked, [Next]_vars PROVE Locked'
    OBVIOUS
  <1> USE ServeAssumption DEF TypeOK, Locked, Holding, GoTUI, GoServe, hostVars, pollVars
  <1>1. ASSUME NEW t \in TUIs, ClientStarts(t) PROVE Locked'
    BY <1>1 DEF ClientStarts, EnsureServe, WaitForKey, CreatePidFile, WritePidFile
  <1>2. ASSUME NEW t \in TUIs, ClientEnds(t) PROVE Locked'
    BY <1>2 DEF ClientEnds, Quit, Crash, ReusePid
  <1>3. ASSUME NEW s \in TUIs, ServeStarts(s) PROVE Locked'
    BY <1>3 DEF ServeStarts, TryFlock, TruncateKey, WriteKey
  <1>4. ASSUME NEW s \in TUIs, Listen(s) PROVE Locked'
    BY <1>4 DEF Listen
  <1>5. ASSUME NEW s \in TUIs, Poll(s) PROVE Locked'
    BY <1>5 DEF Poll, List, Look, RemoveStale, EndPoll, PollOver, Looked
  <1>6. ASSUME NEW s \in TUIs, Reap(s) \/ ServeEnds(s) PROVE Locked'
    BY <1>6 DEF Reap, Looked, PollOver, ServeEnds, Unlock, Exit
  <1>7. ASSUME NEW s \in TUIs, Signal(s) \/ Kill(s) PROVE Locked'
    BY <1>7 DEF Signal, Kill, PollOver
  <1>8. CASE UNCHANGED vars
    BY <1>8 DEF vars
  <1> QED BY <1>1, <1>2, <1>3, <1>4, <1>5, <1>6, <1>7, <1>8 DEF Next

\* Only the holder of the lock writes the key, and it does so before it serves.
LEMMA NextKey == TypeOK /\ Locked /\ KeyIsServed /\ [Next]_vars => KeyIsServed'
  <1> SUFFICES ASSUME TypeOK, Locked, KeyIsServed, [Next]_vars PROVE KeyIsServed'
    OBVIOUS
  <1> USE ServeAssumption DEF TypeOK, Locked, KeyIsServed, Holding, GoTUI, GoServe, hostVars, pollVars
  <1>1. ASSUME NEW t \in TUIs, ClientStarts(t) PROVE KeyIsServed'
    BY <1>1 DEF ClientStarts, EnsureServe, WaitForKey, CreatePidFile, WritePidFile
  <1>2. ASSUME NEW t \in TUIs, ClientEnds(t) PROVE KeyIsServed'
    BY <1>2 DEF ClientEnds, Quit, Crash, ReusePid
  <1>3. ASSUME NEW s \in TUIs, ServeStarts(s) PROVE KeyIsServed'
    <2>1. CASE TryFlock(s)
      BY <2>1 DEF TryFlock
    <2>2. CASE TruncateKey(s)
      BY <2>2 DEF TruncateKey
    <2>3. CASE WriteKey(s)
      BY <2>3 DEF WriteKey
    <2> QED BY <1>3, <2>1, <2>2, <2>3 DEF ServeStarts
  <1>4. ASSUME NEW s \in TUIs, Listen(s) PROVE KeyIsServed'
    BY <1>4 DEF Listen
  <1>5. ASSUME NEW s \in TUIs, Poll(s) PROVE KeyIsServed'
    BY <1>5 DEF Poll, List, Look, RemoveStale, EndPoll, PollOver, Looked
  <1>6. ASSUME NEW s \in TUIs, Reap(s) \/ ServeEnds(s) PROVE KeyIsServed'
    BY <1>6 DEF Reap, Looked, PollOver, ServeEnds, Unlock, Exit
  <1>7. ASSUME NEW s \in TUIs, Signal(s) \/ Kill(s) PROVE KeyIsServed'
    BY <1>7 DEF Signal, Kill, PollOver
  <1>8. CASE UNCHANGED vars
    BY <1>8 DEF vars
  <1> QED BY <1>1, <1>2, <1>3, <1>4, <1>5, <1>6, <1>7, <1>8 DEF Next

-----------------------------------------------------------------------------
\* The poll of one serve, p, is not disturbed by what the TUIs do.
PollOf(p) ==
  /\ serve[p] # "polling" => stale[p] = None
  /\ stale[p] # None => stale[p] \notin todo[p]
  /\ serve[p] = "polling" =>
       \A t \in owed[p] : \/ tui[t] = "gone" \/ count[p] > 0
                          \/ t \in todo[p] /\ pidFile[t] = "full" /\ tui[t] = "live"

LEMMA NextPolls == TypeOK /\ Locked /\ Polls /\ [Next]_vars => Polls'
  <1> SUFFICES ASSUME TypeOK, Locked, Polls, [Next]_vars, NEW p \in TUIs PROVE PollOf(p)'
    BY DEF Polls, PollOf
  <1>0. PollOf(p)
    BY DEF Polls, PollOf
  <1>a. owed[p] \subseteq TUIs /\ todo[p] \subseteq TUIs /\ count[p] \in Nat
    BY DEF TypeOK
  <1> USE ServeAssumption, <1>0, <1>a DEF TypeOK, PollOf, Holding, GoTUI, GoServe, hostVars, pollVars
  <1>1. ASSUME NEW t \in TUIs, ClientStarts(t) PROVE PollOf(p)'
    <2>1. CASE EnsureServe(t)
      BY <2>1 DEF EnsureServe, Locked
    <2>2. CASE WaitForKey(t)
      BY <2>2 DEF WaitForKey
    <2>3. CASE CreatePidFile(t)
      BY <2>3 DEF CreatePidFile
    <2>4. CASE WritePidFile(t)
      BY <2>4 DEF WritePidFile
    <2> QED BY <1>1, <2>1, <2>2, <2>3, <2>4 DEF ClientStarts
  <1>2. ASSUME NEW t \in TUIs, ClientEnds(t) PROVE PollOf(p)'
    <2>1. CASE Quit(t)
      BY <2>1 DEF Quit
    <2>2. CASE Crash(t)
      BY <2>2 DEF Crash, Running
    <2>3. CASE ReusePid(t)
      BY <2>3 DEF ReusePid
    <2> QED BY <1>2, <2>1, <2>2, <2>3 DEF ClientEnds
  <1>3. ASSUME NEW s \in TUIs, ServeStarts(s) \/ Listen(s) PROVE PollOf(p)'
    <2>1. CASE TryFlock(s)
      BY <2>1 DEF TryFlock
    <2>2. CASE TruncateKey(s)
      BY <2>2 DEF TruncateKey
    <2>3. CASE WriteKey(s)
      BY <2>3 DEF WriteKey
    <2>4. CASE Listen(s)
      BY <2>4 DEF Listen
    <2> QED BY <1>3, <2>1, <2>2, <2>3, <2>4 DEF ServeStarts
  <1>4. ASSUME NEW s \in TUIs, Poll(s) PROVE PollOf(p)'
    <2>0. serve[s] = "polling" /\ s # p => serve[p] # "polling"
      BY DEF Locked
    <2>1. CASE List(s)
      BY <2>1 DEF List, Registered
    <2>2. ASSUME NEW t \in TUIs, Look(s, t) PROVE PollOf(p)'
      <3>1. CASE s # p
        BY <2>2, <3>1 DEF Look
      <3>2. CASE s = p
        BY <2>2, <3>2 DEF Look, PidAlive, Running
      <3> QED BY <3>1, <3>2
    <2>3. CASE RemoveStale(s)
      BY <2>0, <2>3 DEF RemoveStale
    <2>4. CASE EndPoll(s)
      BY <2>4 DEF EndPoll, PollOver, Looked
    <2> QED BY <1>4, <2>1, <2>2, <2>3, <2>4 DEF Poll
  <1>5. ASSUME NEW s \in TUIs, Reap(s) \/ ServeEnds(s) \/ Signal(s) \/ Kill(s) PROVE PollOf(p)'
    <2>1. CASE Reap(s)
      BY <2>1 DEF Reap, PollOver, Looked
    <2>2. CASE ServeEnds(s)
      BY <2>2 DEF ServeEnds, Unlock, Exit
    <2>3. CASE Signal(s)
      BY <2>3 DEF Signal, PollOver
    <2>4. CASE Kill(s)
      BY <2>4 DEF Kill, PollOver
    <2> QED BY <1>5, <2>1, <2>2, <2>3, <2>4
  <1>6. CASE UNCHANGED vars
    BY <1>6 DEF vars
  <1> QED BY <1>1, <1>2, <1>3, <1>4, <1>5, <1>6 DEF Next

-----------------------------------------------------------------------------
THEOREM Invariance == Spec => []Inv
  <1>1. Inv /\ [Next]_vars => Inv'
    BY NextType, NextLocked, NextKey, NextPolls DEF Inv
  <1> QED BY InitInv, <1>1, PTL DEF Spec

\* Type correctness: every variable of the host model keeps its type.
THEOREM TypeCorrect == Spec => []TypeOK
  <1>1. Inv => TypeOK
    BY DEF Inv
  <1> QED BY Invariance, <1>1, PTL

\* For any number of TUIs: the key on disk is the one the running serve accepts,
\* unless writing it failed; a serve that lost the race for the lock, or has
\* given it back, never overwrites it (lock.TryFlock, writeSessionKey).
THEOREM KeyOnDisk == Spec => []KeyIsServed
  <1>1. Inv => KeyIsServed
    BY DEF Inv
  <1> QED BY Invariance, <1>1, PTL

\* For any number of TUIs: when reapLoop gives up for want of clients, nobody
\* who had registered when its last poll began is still alive, whatever TUIs
\* register, end or crash while the poll looks at the files one by one.
THEOREM SparesRegistered == Spec => ReapSparesRegistered
  <1>1. Inv /\ [Next]_vars => [\A s \in TUIs : Reap(s) => \A t \in owed[s] : tui[t] # "live"]_vars
    BY DEF Inv, TypeOK, Polls, Reap, Looked
  <1> QED BY Invariance, <1>1, PTL DEF Spec, ReapSparesRegistered

-----------------------------------------------------------------------------
(* The clock of the loop.  A poll begins every Interval, to the tick, since  *)
(* none takes that long; so a client that was there for longer was seen by   *)
(* one, and once the last has left the second tick starts its grace period.  *)

\* The loop keeps its beat.
Beat ==
  /\ tick <= now
  /\ loop = "asleep" => now <= tick + Interval
  /\ loop = "polling" => now <= tick + MaxDelay

\* What is known of the clients' times.
Ages ==
  /\ blind # Never => blind <= tick
  /\ \A c \in Clients :
    /\ client[c] \in {"starting", "live", "gone"} => began[c] \in Nat /\ began[c] <= now
    /\ client[c] = "gone" => left[c] \in Nat /\ left[c] <= now
    /\ client[c] # "gone" => left[c] = Never

\* zeroSince is the time of a poll, and the period it began has not been found
\* over by the polls that have ended.
Count ==
  zeroSince # Never =>
    /\ zeroSince <= now
    /\ loop = "asleep" => tick < zeroSince + Grace
    /\ loop = "polling" => tick < zeroSince + Grace + Interval

\* A client that was there before the tick was seen at it, and its end, if it
\* was there for longer than an Interval, is not in a period already begun.
Seen ==
  loop # "gone" =>
    \A c \in Clients :
      /\ client[c] = "live" /\ began[c] < tick =>
           IF loop = "polling" THEN seen ELSE zeroSince = Never
      /\ client[c] = "gone" /\ left[c] > began[c] + Interval =>
           \/ loop = "polling" /\ seen
           \/ zeroSince = Never \/ zeroSince >= left[c]

\* All have left by x, and no poll after it was blind.
LeftBy(x) ==
  /\ Deserted /\ (blind # Never => blind <= x)
  /\ \A c \in Clients : left[c] # Never => left[c] <= x

\* From the next tick on the loop knows.
Alone ==
  \A x \in Nat :
    loop # "gone" /\ LeftBy(x) /\ x < tick =>
      /\ loop = "polling" => ~seen
      /\ zeroSince = Never => loop = "polling" /\ tick <= x + Interval
      /\ zeroSince # Never => zeroSince <= x + Interval + MaxDelay

\* A poll that finds nobody finds nobody who was there when it began.
Fresh ==
  /\ loop = "polling" /\ ~seen => \A c \in Clients : client[c] = "live" => began[c] >= tick
  /\ loop = "gone" => exited = now

ClockInv ==
  /\ ClockTypeOK /\ Beat /\ Ages /\ Count /\ Seen /\ Alone /\ Fresh
  /\ GraceHolds /\ AbandonsOnlyTheFresh

LEMMA ClockInitInv == ClockInit => ClockInv
<1> SUFFICES ASSUME ClockInit PROVE ClockInv
  OBVIOUS
<1> USE ClockAssumption DEF ClockInit
<1>1. ClockTypeOK
  BY DEF ClockTypeOK, Times
<1>2. Beat /\ Ages /\ Count /\ Seen /\ Fresh /\ GraceHolds /\ AbandonsOnlyTheFresh
  BY DEF Beat, Ages, Count, Seen, Fresh, GraceHolds, AbandonsOnlyTheFresh
<1>3. Alone
  BY DEF Alone
<1> QED
  BY <1>1, <1>2, <1>3 DEF ClockInv

\* The steps of one client.
ClientStep(c) == Start(c) \/ Register(c) \/ Leave(c)

LEMMA ClockTypes == ClockInv /\ [ClockNext]_clockVars => ClockTypeOK'
<1> SUFFICES ASSUME ClockTypeOK, [ClockNext]_clockVars PROVE ClockTypeOK'
  BY DEF ClockInv
<1> USE ClockAssumption DEF ClockTypeOK, Times
<1>1. ASSUME NEW c \in Clients, ClientStep(c) PROVE ClockTypeOK'
  BY <1>1 DEF ClientStep, Start, Register, Leave
<1>2. ASSUME Pass PROVE ClockTypeOK'
  BY <1>2 DEF Pass
<1>3. ASSUME PollClients PROVE ClockTypeOK'
  BY <1>3 DEF PollClients
<1>4. ASSUME SeesClient \/ SeesNobody \/ GivesUp PROVE ClockTypeOK'
  BY <1>4 DEF SeesClient, SeesNobody, GivesUp
<1> QED
  BY <1>1, <1>2, <1>3, <1>4 DEF ClockNext, ClientStep, clockVars

\* Clients come and go at their own time, and leave the loop alone.
LEMMA ClientClock ==
  ASSUME ClockInv, ClockTypeOK', NEW c \in Clients, ClientStep(c)
  PROVE  ClockInv'
<1> USE ClockAssumption
<1>0. /\ ClockTypeOK /\ Beat /\ Ages /\ Count /\ Seen /\ Alone /\ Fresh
      /\ UNCHANGED <<now, loop, tick, seen, blind, zeroSince, exited>>
  BY DEF ClockInv, ClientStep, Start, Register, Leave
<1>1. Beat' /\ Count'
  BY <1>0 DEF Beat, Count
<1>2. Ages'
  BY <1>0 DEF ClockTypeOK, Ages, ClientStep, Start, Register, Leave
<1>3. Seen'
  <2> SUFFICES ASSUME loop # "gone", NEW d \in Clients
               PROVE  /\ client'[d] = "live" /\ began'[d] < tick =>
                           IF loop = "polling" THEN seen ELSE zeroSince = Never
                      /\ client'[d] = "gone" /\ left'[d] > began'[d] + Interval =>
                           \/ loop = "polling" /\ seen
                           \/ zeroSince = Never \/ zeroSince >= left'[d]
    BY <1>0 DEF Seen
  <2>1. CASE d # c
    BY <1>0, <2>1 DEF ClockTypeOK, Seen, ClientStep, Start, Register, Leave
  <2>2. CASE d = c /\ (Start(c) \/ Register(c))
    BY <1>0, <2>2 DEF ClockTypeOK, Beat, Start, Register
  <2>3. CASE d = c /\ Leave(c)
    <3>1. client[c] = "live" /\ client'[c] = "gone" /\ left'[c] = now /\ began' = began
      BY <1>0, <2>3 DEF ClockTypeOK, Leave
    <3>2. began[c] \in Nat /\ now <= tick + Interval
      BY <1>0, <3>1 DEF Ages, Beat, ClockTypeOK
    <3>3. now > began[c] + Interval => began[c] < tick
      BY <1>0, <3>2 DEF ClockTypeOK
    <3> QED
      BY <1>0, <2>3, <3>1, <3>3 DEF Seen, ClockTypeOK
  <2> QED
    BY <2>1, <2>2, <2>3 DEF ClientStep
<1>4. Alone'
  <2> SUFFICES ASSUME NEW x \in Nat, loop # "gone", LeftBy(x)', x < tick
               PROVE  LeftBy(x)
    BY <1>0 DEF Alone
  <2>1. ~(Start(c) \/ Register(c))
    BY <1>0 DEF ClockTypeOK, LeftBy, Deserted, Start, Register
  <2>2. ~Leave(c)
    BY <1>0 DEF ClockTypeOK, Beat, LeftBy, Leave
  <2> QED
    BY <2>1, <2>2 DEF ClientStep
<1>5. Fresh'
  <2>1. loop = "polling" /\ ~seen =>
          \A d \in Clients : client'[d] = "live" => began'[d] >= tick
    BY <1>0 DEF ClockTypeOK, Fresh, Beat, ClientStep, Start, Register, Leave
  <2> QED
    BY <1>0, <2>1 DEF Fresh
<1>6. GraceHolds'
  BY <1>0 DEF ClockInv, ClockTypeOK, GraceHolds, ClientStep, Start, Register, Leave
<1>7. AbandonsOnlyTheFresh'
  BY <1>0 DEF ClockInv, ClockTypeOK, AbandonsOnlyTheFresh, Fresh, ClientStep, Start, Register, Leave
<1> QED
  BY <1>0, <1>1, <1>2, <1>3, <1>4, <1>5, <1>6, <1>7 DEF ClockInv

LEMMA PassClock == ASSUME ClockInv, ClockTypeOK', Pass PROVE ClockInv'
<1> USE ClockAssumption
<1>0. /\ ClockTypeOK /\ Beat /\ Ages /\ Count /\ Seen /\ Alone /\ Fresh
      /\ now' = now + 1 /\ loop # "gone"
      /\ UNCHANGED <<client, began, left, loop, tick, seen, blind, zeroSince, exited>>
  BY DEF ClockInv, Pass
<1>1. Beat'
  BY <1>0 DEF Beat, ClockTypeOK, Pass, Due
<1>2. Ages' /\ Count'
  BY <1>0 DEF Ages, Count, ClockTypeOK, Times
<1>3. Seen' /\ Fresh' /\ GraceHolds' /\ AbandonsOnlyTheFresh'
  BY <1>0 DEF Seen, Fresh, GraceHolds, AbandonsOnlyTheFresh
<1>4. Alone'
  BY <1>0 DEF Alone, LeftBy, Deserted
<1> QED
  BY <1>1, <1>2, <1>3, <1>4 DEF ClockInv

LEMMA PollClock == ASSUME ClockInv, ClockTypeOK', PollClients PROVE ClockInv'
<1> USE ClockAssumption
<1>0. /\ ClockTypeOK /\ Beat /\ Ages /\ Count /\ Seen /\ Alone
      /\ loop = "asleep" /\ loop' = "polling" /\ tick' = now /\ now >= tick + Interval
      /\ UNCHANGED <<now, client, began, left, zeroSince, exited>>
      /\ \/ seen' = (\E c \in Clients : client[c] = "live") /\ blind' = blind
         \/ seen' = TRUE /\ blind' = now
  BY DEF ClockInv, PollClients, Due
<1>a. tick \in Nat /\ now \in Nat /\ tick <= now /\ now <= tick + Interval
  BY <1>0 DEF ClockTypeOK, Beat
<1>b. blind # Never => blind \in Nat /\ blind <= tick /\ blind <= now
  BY <1>0, <1>a DEF ClockTypeOK, Times, Ages
<1>c. blind' = blind \/ blind' = now
  BY <1>0
<1>1. Beat' /\ Ages'
  <2>1. Beat'
    BY <1>0, <1>a DEF Beat
  <2>2. blind' # Never => blind' <= now
    BY <1>a, <1>b, <1>c
  <2> QED
    BY <1>0, <2>1, <2>2 DEF Ages
<1>2. Count'
  BY <1>0 DEF Beat, Count, ClockTypeOK, Times
<1>3. Seen'
  <2>1. \A c \in Clients : client[c] = "live" => seen'
    BY <1>0 DEF ClockTypeOK
  <2> QED
    BY <1>0, <2>1 DEF Seen
<1>4. Alone'
  <2> SUFFICES ASSUME NEW x \in Nat, LeftBy(x)', x < now
               PROVE  /\ ~seen'
                      /\ zeroSince = Never => now <= x + Interval
                      /\ zeroSince # Never => zeroSince <= x + Interval + MaxDelay
    BY <1>0 DEF Alone
  <2>1. Deserted /\ LeftBy(x)
    <3>1. blind # Never => blind <= x
      <4>1. blind' # Never => blind' <= x
        BY DEF LeftBy
      <4>2. now # Never
        BY <1>a
      <4> QED
        BY <1>a, <1>b, <1>c, <4>1, <4>2
    <3> QED
      BY <1>0, <3>1 DEF LeftBy, Deserted
  <2>2. ~seen'
    <3>1. blind' # now
      BY <1>0, <1>a DEF LeftBy
    <3>2. \A c \in Clients : client[c] # "live"
      BY <2>1 DEF LeftBy, Deserted
    <3> QED
      BY <1>0, <3>1, <3>2
  <2>3. now <= tick + Interval
    BY <1>0 DEF Beat
  <2>4. CASE x < tick
    BY <1>0, <2>1, <2>2, <2>4 DEF Alone
  <2>5. CASE ~(x < tick)
    BY <1>0, <2>2, <2>3, <2>5 DEF Count, ClockTypeOK, Times
  <2> QED
    BY <2>4, <2>5
<1>5. Fresh' /\ GraceHolds' /\ AbandonsOnlyTheFresh'
  BY <1>0 DEF Fresh, GraceHolds, AbandonsOnlyTheFresh, ClockTypeOK
<1> QED
  BY <1>1, <1>2, <1>3, <1>4, <1>5 DEF ClockInv

LEMMA EndOfPollClock ==
  ASSUME ClockInv, ClockTypeOK', SeesClient \/ SeesNobody \/ GivesUp PROVE ClockInv'
<1> USE ClockAssumption
<1>0. /\ ClockTypeOK /\ Beat /\ Ages /\ Count /\ Seen /\ Alone /\ Fresh
      /\ loop = "polling" /\ now <= tick + MaxDelay
      /\ UNCHANGED <<now, client, began, left, tick, seen, blind>>
  BY DEF ClockInv, SeesClient, SeesNobody, GivesUp, Beat
<1>1. Beat' /\ Ages'
  BY <1>0 DEF Beat, Ages, ClockTypeOK, Times, SeesClient, SeesNobody, GivesUp
<1>2. Count'
  <2>1. CASE SeesClient
    BY <2>1 DEF SeesClient, Count
  <2>2. CASE SeesNobody /\ zeroSince = Never
    <3>1. zeroSince' = now /\ tick' = tick /\ now' = now /\ loop' = "asleep"
      BY <1>0, <2>2 DEF SeesNobody
    <3>2. tick < now + Grace
      BY <1>0 DEF Beat, ClockTypeOK
    <3> QED
      BY <1>0, <3>1, <3>2 DEF Count, ClockTypeOK
  <2>3. CASE SeesNobody /\ zeroSince # Never
    <3>1. zeroSince' = zeroSince /\ tick' = tick /\ now' = now /\ loop' = "asleep"
      BY <1>0, <2>3 DEF SeesNobody
    <3>2. now < zeroSince + Grace
      BY <1>0, <2>3 DEF SeesNobody, GraceOver, ClockTypeOK, Times
    <3> QED
      BY <1>0, <2>3, <3>1, <3>2 DEF Beat, Count, ClockTypeOK, Times
  <2>4. CASE GivesUp
    BY <1>0, <2>4 DEF GivesUp, Count, ClockTypeOK
  <2> QED
    BY <2>1, <2>2, <2>3, <2>4
<1>3. Seen'
  BY <1>0 DEF Seen, Ages, ClockTypeOK, Times, SeesClient, SeesNobody, GivesUp
<1>4. Alone'
  <2> SUFFICES ASSUME NEW x \in Nat, loop' # "gone", LeftBy(x)', x < tick
               PROVE  /\ zeroSince' # Never
                      /\ zeroSince' <= x + Interval + MaxDelay
    BY <1>0 DEF Alone, SeesClient, SeesNobody, GivesUp
  <2>1. LeftBy(x)
    BY <1>0 DEF LeftBy, Deserted
  <2>2. SeesNobody
    BY <1>0, <2>1 DEF Alone, SeesClient, GivesUp
  <2> QED
    BY <1>0, <2>1, <2>2 DEF Alone, SeesNobody, ClockTypeOK, Times
<1>5. Fresh'
  BY <1>0 DEF Fresh, SeesClient, SeesNobody, GivesUp
<1>6. GraceHolds'
  <2> SUFFICES ASSUME GivesUp, NEW c \in Clients, client[c] = "gone", left[c] > began[c] + Interval
               PROVE  exited' >= left[c] + Grace
    BY <1>0 DEF GraceHolds, SeesClient, SeesNobody, ClockInv
  <2>1. ~seen /\ zeroSince # Never /\ now >= zeroSince + Grace /\ exited' = now
    BY DEF GivesUp, GraceOver
  <2>2. zeroSince >= left[c]
    BY <1>0, <2>1 DEF Seen
  <2> QED
    BY <1>0, <2>1, <2>2 DEF ClockTypeOK, Times, Ages
<1>7. AbandonsOnlyTheFresh'
  <2> SUFFICES ASSUME GivesUp, NEW c \in Clients, client[c] = "live"
               PROVE  began[c] + MaxDelay >= exited'
    BY <1>0 DEF AbandonsOnlyTheFresh, SeesClient, SeesNobody
  <2>1. began[c] >= tick /\ exited' = now
    BY <1>0 DEF Fresh, GivesUp
  <2> QED
    BY <1>0, <2>1 DEF ClockTypeOK, Times, Ages
<1> QED
  BY <1>1, <1>2, <1>3, <1>4, <1>5, <1>6, <1>7 DEF ClockInv

LEMMA ClockStepInv == ClockInv /\ [ClockNext]_clockVars => ClockInv'
<1> SUFFICES ASSUME ClockInv, [ClockNext]_clockVars PROVE ClockInv'
  OBVIOUS
<1>1. ClockTypeOK'
  BY ClockTypes
<1>2. CASE UNCHANGED clockVars
  BY <1>2 DEF clockVars, ClockInv, ClockTypeOK, Beat, Ages, Count, Seen, Alone, LeftBy, Deserted,
       Fresh, GraceHolds, AbandonsOnlyTheFresh
<1>3. CASE ClockNext
  BY <1>1, <1>3, ClientClock, PassClock, PollClock, EndOfPollClock DEF ClockNext, ClientStep
<1> QED
  BY <1>2, <1>3

\* Every reachable state of the clock is well typed.
THEOREM ClockTypeCorrect == ClockSpec => []ClockTypeOK
<1>1. ClockInv => ClockTypeOK
  BY DEF ClockInv
<1> QED
  BY <1>1, ClockInitInv, ClockStepInv, PTL DEF ClockSpec

\* The serve outlives its last client by no more than the bound (reapLoopWith).
THEOREM ServeEndsInTime == ClockSpec => []ExposureBounded
<1>1. ClockInv => ExposureBounded
  <2> DEFINE n == Grace + 2 * Interval + 2 * MaxDelay
  <2> SUFFICES ASSUME ClockInv, loop # "gone", DesertedSince(n) PROVE FALSE
    BY DEF ExposureBounded
  <2> USE ClockAssumption
  <2>0. ClockTypeOK /\ Beat /\ Count /\ Alone
    BY DEF ClockInv
  <2> DEFINE x == now - n - 1
  <2>1. x \in Nat /\ LeftBy(x)
    BY <2>0 DEF DesertedSince, LeftBy, ClockTypeOK, Times
  <2>2. x < tick
    BY <2>0, <2>1 DEF Beat, ClockTypeOK
  <2>3. CASE zeroSince = Never
    <3>1. loop = "polling" /\ tick <= x + Interval
      BY <2>0, <2>1, <2>2, <2>3 DEF Alone
    <3> QED
      BY <2>0, <3>1 DEF Beat, ClockTypeOK
  <2>4. CASE zeroSince # Never
    <3>1. zeroSince <= x + Interval + MaxDelay /\ zeroSince \in Nat
      BY <2>0, <2>1, <2>2, <2>4 DEF Alone, ClockTypeOK, Times
    <3>2. CASE loop = "asleep"
      BY <2>0, <2>4, <3>1, <3>2 DEF Beat, Count, ClockTypeOK
    <3>3. CASE loop = "polling"
      BY <2>0, <2>4, <3>1, <3>3 DEF Beat, Count, ClockTypeOK
    <3> QED
      BY <2>0, <3>2, <3>3 DEF ClockTypeOK
  <2> QED
    BY <2>3, <2>4
<1> QED
  BY <1>1, ClockInitInv, ClockStepInv, PTL DEF ClockSpec

\* A client that stayed for more than an interval is given its grace period.
THEOREM GraceIsGiven == ClockSpec => []GraceHolds
<1>1. ClockInv => GraceHolds
  BY DEF ClockInv
<1> QED
  BY <1>1, ClockInitInv, ClockStepInv, PTL DEF ClockSpec

\* Only who came while the last poll was under way is left alone.
THEOREM FewAreAbandoned == ClockSpec => []AbandonsOnlyTheFresh
<1>1. ClockInv => AbandonsOnlyTheFresh
  BY DEF ClockInv
<1> QED
  BY <1>1, ClockInitInv, ClockStepInv, PTL DEF ClockSpec

-----------------------------------------------------------------------------
(* The menu, the flow to a launch and the activity it starts.                *)

MenusIn(s) == {m \in s : m.type = "menu"}
KeysIn(s) == s \cap KeyMsgs
JobsDoneIn(s) == {m \in s : m.type = "jobdone"}
PipelineIn(s) == s \cap PipelineMsgs
FromOverlay(s) == {m \in s : m.type = "result" /\ m.from \in Overlays}

OverlayShown(a) == \E i \in DOMAIN a.stack : a.stack[i] \in Overlays

\* The user's last key is handled before the next one is typed.
OneKey == \A m, n \in msgs : m \in KeyMsgs /\ n \in KeyMsgs => m = n

JobsOn == jobs # {} \/ JobsDone # {}

\* While a job is on there is no screen of the flow, nor an answer from one.
NoFlowDuringJob == JobsOn => ~OverlayShown(app) /\ FromOverlay(msgs) = {}

\* The update gate and the tuning screen are only awaited by an idle app that
\* shows a screen, and by no flow that started before.
Flow ==
  /\ app.awaiting \cap {"gate", "tune"} # {} =>
       ~app.busy /\ MenusIn(msgs) = {} /\ Depth(app) > 1
  /\ "tune" \in app.awaiting => app.awaiting \cap {"gate", "role"} = {}

\* What a screen posts is one of its choices.
Chosen == \A m \in msgs : m.type = "result" => m.value \in Choices(m.from)

\* The pipeline of the app has one pump, or one message on its way; no other
\* pipeline has any.
OnePump ==
  /\ \A r \in Runs : r # app.pipe => runs[r].pumps = 0
  /\ app.pipe # 0 /\ runs[app.pipe].pumps # 0 => PipelineIn(msgs) = {}
  /\ app.pipe # 0 /\ runs[app.pipe].pumps = 0 => PipelineIn(msgs) # {}
  /\ app.pipe = 0 => PipelineIn(msgs) = {}
  /\ \A m, n \in PipelineIn(msgs) : m = n

\* The last event of a pipeline is the news of its end.
EndIsOver ==
  /\ \A r \in Runs : \A i \in DOMAIN runs[r].feed :
       runs[r].feed[i].type = "done" => runs[r].state = "over"
  /\ \A m \in msgs : m.type = "done" => runs[app.pipe].state = "over"

\* One activity at most, and the app is busy with it.
OneOn ==
  /\ app.busy <=> app.pipe # 0 \/ JobsOn
  /\ \A j, k \in jobs : j = k
  /\ \A m, n \in JobsDone : m = n
  /\ jobs # {} => JobsDone = {}
  /\ JobsOn => app.pipe = 0
  /\ Live \subseteq {app.pipe}

FlowInv ==
  /\ AppTypeOK /\ OneKey /\ NoFlowDuringJob /\ Flow /\ Chosen /\ OnePump /\ EndIsOver
  /\ OneOn /\ LaunchIsAgreed

-----------------------------------------------------------------------------
(* What the helpers of the handlers return. *)

AppOK(a) == a \in AppState /\ a.stack # <<>> /\ a.stack[1] = "menu"

OutcomeOK(o) ==
  /\ AppOK(o.app)
  /\ o.post \subseteq CommandMsgs
  /\ o.job \in Jobs \cup {Nil}
  /\ o.start \in BOOLEAN /\ o.agreed \in BOOLEAN /\ o.review \in BOOLEAN
  /\ o.resume \in Questions \cup {Nil} /\ o.answer \in Answers
  /\ o.pump \in BOOLEAN /\ o.quit \in BOOLEAN

\* The handler only moves on the screens.
Quiet(o) ==
  /\ o.post = {} /\ o.job = Nil /\ ~o.start /\ ~o.agreed /\ o.review = review
  /\ o.resume = Nil /\ o.answer = "none" /\ ~o.pump /\ ~o.quit

LEMMA Strings ==
  /\ Overlays \subseteq Screens /\ {"menu", "launch", "form", "ghauth"} \subseteq Screens
  /\ Nil \notin Jobs
  BY AppAssumption DEF Overlays, Screens, Jobs

LEMMA OutFields ==
  ASSUME NEW a
  PROVE  Out(a).app = a /\ Quiet(Out(a))
  BY DEF Out, Quiet

LEMMA OutIsOK == ASSUME NEW a, AppOK(a), review \in BOOLEAN PROVE OutcomeOK(Out(a))
  BY DEF OutcomeOK, Out, Answers

LEMMA PushFields ==
  ASSUME NEW a, AppOK(a), NEW s \in Screens
  PROVE  /\ AppOK(Push(a, s)) /\ Push(a, s).stack = Append(a.stack, s)
         /\ Depth(Push(a, s)) = Depth(a) + 1 /\ Top(Push(a, s)) = s
         /\ Push(a, s).awaiting = a.awaiting /\ Push(a, s).busy = a.busy
         /\ Push(a, s).pipe = a.pipe /\ Push(a, s).waiting = a.waiting
         /\ Push(a, s).launchCancelled = a.launchCancelled
         /\ Push(a, s).gateAll = a.gateAll
<1>1. a.stack \in Seq(Screens) /\ a.stack # <<>> /\ a.stack[1] = "menu"
  BY DEF AppOK, AppState
<1> DEFINE t == Append(a.stack, s)
<1>2. /\ t \in Seq(Screens) /\ t # <<>> /\ t[1] = "menu" /\ Len(t) = Len(a.stack) + 1
      /\ t[Len(t)] = s
  BY <1>1
<1> HIDE DEF t
<1>3. Push(a, s) = [a EXCEPT !.stack = t]
  BY DEF Push, t, AppOK, AppState
<1>4. /\ Push(a, s) \in AppState /\ Push(a, s).stack = t
      /\ Push(a, s).awaiting = a.awaiting /\ Push(a, s).busy = a.busy
      /\ Push(a, s).pipe = a.pipe /\ Push(a, s).waiting = a.waiting
      /\ Push(a, s).launchCancelled = a.launchCancelled
      /\ Push(a, s).gateAll = a.gateAll
  BY <1>2, <1>3 DEF AppOK, AppState
<1> QED
  BY <1>2, <1>4 DEF AppOK, Depth, Top, t

LEMMA PopFields ==
  ASSUME NEW a, AppOK(a)
  PROVE  /\ AppOK(Pop(a))
         /\ Depth(a) > 1 => Pop(a).stack = SubSeq(a.stack, 1, Depth(a) - 1)
         /\ Depth(a) = 1 => Pop(a).stack = a.stack
         /\ \A i \in DOMAIN Pop(a).stack : i \in DOMAIN a.stack /\ Pop(a).stack[i] = a.stack[i]
         /\ Pop(a).awaiting = a.awaiting /\ Pop(a).busy = a.busy
         /\ Pop(a).pipe = a.pipe /\ Pop(a).waiting = a.waiting
         /\ Pop(a).launchCancelled = a.launchCancelled
         /\ Pop(a).gateAll = a.gateAll
<1>1. a.stack \in Seq(Screens) /\ a.stack # <<>> /\ a.stack[1] = "menu"
  BY DEF AppOK, AppState
<1> DEFINE t == IF Depth(a) > 1 THEN SubSeq(a.stack, 1, Depth(a) - 1) ELSE a.stack
<1>2. /\ t \in Seq(Screens) /\ t # <<>> /\ t[1] = "menu"
      /\ \A i \in DOMAIN t : i \in DOMAIN a.stack /\ t[i] = a.stack[i]
  <2>1. CASE Len(a.stack) > 1
    <3> DEFINE n == Len(a.stack) - 1
    <3>1. t = SubSeq(a.stack, 1, n)
      BY <2>1 DEF Depth
    <3>2. n \in Nat /\ n >= 1 /\ Len(a.stack) = n + 1 /\ \A i \in 1 .. n : a.stack[i] \in Screens
      BY <1>1, <2>1
    <3> HIDE DEF n
    <3>3. SubSeq(a.stack, 1, n) \in Seq(Screens)
      BY <3>2, SubSeqProperties
    <3>4. Len(SubSeq(a.stack, 1, n)) = n
      BY <3>2, SubSeqProperties
    <3>5. \A i \in 1 .. n : SubSeq(a.stack, 1, n)[i] = a.stack[i]
      BY <3>2, SubSeqProperties
    <3> HIDE DEF t
    <3> QED
      BY <1>1, <3>1, <3>2, <3>3, <3>4, <3>5
  <2>2. CASE ~(Len(a.stack) > 1)
    BY <1>1, <2>2 DEF Depth
  <2> QED
    BY <2>1, <2>2
<1>3. /\ Depth(a) > 1 => t = SubSeq(a.stack, 1, Depth(a) - 1)
      /\ Depth(a) = 1 => t = a.stack
  <2>1. Depth(a) = 1 => ~(Depth(a) > 1)
    BY <1>1 DEF Depth
  <2> QED
    BY <2>1
<1> HIDE DEF t
<1>4. Pop(a) = [a EXCEPT !.stack = t]
  BY DEF Pop, t, AppOK, AppState
<1>5. /\ Pop(a) \in AppState /\ Pop(a).stack = t
      /\ Pop(a).awaiting = a.awaiting /\ Pop(a).busy = a.busy
      /\ Pop(a).pipe = a.pipe /\ Pop(a).waiting = a.waiting
      /\ Pop(a).launchCancelled = a.launchCancelled
      /\ Pop(a).gateAll = a.gateAll
  BY <1>2, <1>4 DEF AppOK, AppState
<1> QED
  BY <1>2, <1>3, <1>5 DEF AppOK

LEMMA BackToMenuFields ==
  ASSUME NEW a, AppOK(a)
  PROVE  /\ AppOK(BackToMenu(a)) /\ BackToMenu(a).stack = <<"menu">>
         /\ BackToMenu(a).awaiting = a.awaiting /\ BackToMenu(a).busy = a.busy
         /\ BackToMenu(a).pipe = a.pipe /\ BackToMenu(a).waiting = a.waiting
         /\ BackToMenu(a).launchCancelled = a.launchCancelled
         /\ BackToMenu(a).gateAll = a.gateAll
<1> DEFINE t == <<"menu">>
<1>1. t \in Seq(Screens) /\ t # <<>> /\ t[1] = "menu"
  BY DEF Screens
<1> HIDE DEF t
<1>2. BackToMenu(a) = [a EXCEPT !.stack = t]
  BY DEF BackToMenu, t
<1>3. /\ BackToMenu(a) \in AppState /\ BackToMenu(a).stack = t
      /\ BackToMenu(a).awaiting = a.awaiting /\ BackToMenu(a).busy = a.busy
      /\ BackToMenu(a).pipe = a.pipe /\ BackToMenu(a).waiting = a.waiting
      /\ BackToMenu(a).launchCancelled = a.launchCancelled
      /\ BackToMenu(a).gateAll = a.gateAll
  BY <1>1, <1>2 DEF AppOK, AppState
<1> QED
  BY <1>1, <1>3 DEF AppOK, t

LEMMA ServedFields ==
  ASSUME NEW a, AppOK(a), NEW k
  PROVE  /\ AppOK(Served(a, k)) /\ Served(a, k).stack = a.stack
         /\ Served(a, k).awaiting = a.awaiting \ {k} /\ Served(a, k).busy = a.busy
         /\ Served(a, k).pipe = a.pipe /\ Served(a, k).waiting = a.waiting
         /\ Served(a, k).launchCancelled = a.launchCancelled
         /\ Served(a, k).gateAll = a.gateAll
  BY DEF AppOK, AppState, Served

LEMMA StartLaunchFields ==
  ASSUME NEW a, AppOK(a), a.pipe = 0, review \in BOOLEAN, NEW agreed \in BOOLEAN,
         NEW o \in StartLaunch(a, agreed)
  PROVE  /\ OutcomeOK(o) /\ o.start /\ o.agreed = agreed /\ o.review = review
         /\ o.post = {} /\ o.job = Nil /\ o.resume = Nil /\ ~o.pump /\ ~o.quit
         /\ o.app.pipe \in Unused /\ o.app.busy
         /\ o.app.stack = Append(a.stack, "launch")
         /\ o.app.awaiting = a.awaiting /\ o.app.waiting = a.waiting
<1>1. NextRun \in Unused
  BY DEF StartLaunch, NextRun
<1> DEFINE b == [a EXCEPT !.launchCancelled = FALSE, !.pipe = NextRun, !.busy = TRUE]
<1>2. /\ AppOK(b) /\ b.stack = a.stack /\ b.awaiting = a.awaiting
      /\ b.busy /\ b.pipe = NextRun /\ b.waiting = a.waiting
  <2>1. NextRun \in 0 .. Slots
    BY <1>1, AppAssumption DEF Unused, Runs
  <2> QED
    BY <2>1 DEF AppOK, AppState
<1> HIDE DEF b
<1>3. o = [Out(Push(b, "launch")) EXCEPT !.start = TRUE, !.agreed = agreed]
  BY DEF StartLaunch, b
<1>4. /\ o.app = Push(b, "launch") /\ o.start = TRUE /\ o.agreed = agreed
      /\ o.review = review /\ o.post = {} /\ o.job = Nil /\ o.resume = Nil
      /\ o.pump = FALSE /\ o.quit = FALSE /\ o.answer = "none"
  BY <1>3 DEF Out
<1>5. "launch" \in Screens
  BY DEF Screens
<1> QED
  <2>1. /\ AppOK(Push(b, "launch")) /\ Push(b, "launch").stack = Append(a.stack, "launch")
        /\ Push(b, "launch").awaiting = a.awaiting /\ Push(b, "launch").waiting = a.waiting
        /\ Push(b, "launch").busy /\ Push(b, "launch").pipe = NextRun
    BY <1>2, <1>5, PushFields
  <2> QED
    BY <1>1, <1>4, <2>1 DEF OutcomeOK, Answers

-----------------------------------------------------------------------------
(* What the handlers do to the flow and the activity, with the messages      *)
(* `rest` still in flight.                                                   *)

JobLeft(rest) == jobs # {} \/ JobsDoneIn(rest) # {}

\* The state `a` agrees with what goes on.
Settled(a, rest) ==
  /\ AppOK(a) /\ a.pipe = app.pipe
  /\ a.awaiting \cap {"gate", "tune"} # {} =>
       ~a.busy /\ MenusIn(rest) = {} /\ Depth(a) > 1
  /\ "tune" \in a.awaiting => a.awaiting \cap {"gate", "role"} = {}
  /\ JobLeft(rest) => ~OverlayShown(a) /\ FromOverlay(rest) = {} /\ a.pipe = 0
  /\ a.busy <=> a.pipe # 0 \/ JobLeft(rest)

\* Nothing but a pipeline goes on.
JobFree(a, rest) ==
  /\ AppOK(a) /\ a.pipe = app.pipe
  /\ a.awaiting \cap {"gate", "tune"} = {}
  /\ ~JobLeft(rest) /\ (a.busy <=> a.pipe # 0)

\* An outcome that agrees with what goes on and with what it starts.
Fits(o, rest) ==
  /\ OutcomeOK(o) /\ o.post = {} /\ ~o.pump
  /\ o.app.awaiting \cap {"gate", "tune"} # {} =>
       ~o.app.busy /\ MenusIn(rest) = {} /\ Depth(o.app) > 1
  /\ "tune" \in o.app.awaiting => o.app.awaiting \cap {"gate", "role"} = {}
  /\ JobLeft(rest) \/ o.job # Nil =>
       ~OverlayShown(o.app) /\ FromOverlay(rest) = {} /\ o.app.pipe = 0
  /\ o.app.busy <=> o.app.pipe # 0 \/ JobLeft(rest) \/ o.job # Nil
  /\ o.job # Nil => ~JobLeft(rest)
  /\ o.start => app.pipe = 0 /\ o.app.pipe \in Unused /\ o.resume = Nil /\ (o.review \/ o.agreed)
  /\ ~o.start => o.app.pipe = app.pipe
  /\ o.resume # Nil => app.pipe # 0

LEMMA OutFits ==
  ASSUME review \in BOOLEAN, NEW a, NEW rest, Settled(a, rest)
  PROVE  Fits(Out(a), rest)
<1>1. Out(a).app = a /\ Quiet(Out(a)) /\ OutcomeOK(Out(a))
  BY OutFields, OutIsOK DEF Settled
<1> QED
  BY <1>1 DEF Fits, Settled, Quiet

LEMMA JobFreeSettled ==
  ASSUME NEW a, NEW rest, JobFree(a, rest)
  PROVE  Settled(a, rest)
  BY DEF JobFree, Settled

LEMMA BackToMenuSettled ==
  ASSUME NEW a, NEW rest, AppOK(a), a.pipe = app.pipe,
         a.awaiting \cap {"gate", "tune"} = {},
         JobLeft(rest) => FromOverlay(rest) = {} /\ a.pipe = 0,
         a.busy <=> a.pipe # 0 \/ JobLeft(rest)
  PROVE  Settled(BackToMenu(a), rest)
<1> DEFINE b == BackToMenu(a)
<1>1. /\ AppOK(b) /\ b.stack = <<"menu">> /\ b.awaiting = a.awaiting
      /\ b.busy = a.busy /\ b.pipe = a.pipe
  BY BackToMenuFields
<1>2. ~OverlayShown(b)
  BY <1>1 DEF OverlayShown, Overlays
<1> HIDE DEF b
<1>3. Settled(b, rest)
  BY <1>1, <1>2 DEF Settled
<1> QED
  BY <1>3 DEF b

LEMMA StartLaunchFits ==
  ASSUME review \in BOOLEAN, NEW a, NEW rest, JobFree(a, rest), NEW agreed \in BOOLEAN,
         agreed \/ a.pipe # 0, NEW o \in StartLaunch(a, agreed)
  PROVE  Fits(o, rest)
<1>1. CASE a.pipe # 0
  BY <1>1, OutFits, JobFreeSettled DEF StartLaunch
<1>2. CASE a.pipe = 0
  <2>1. /\ OutcomeOK(o) /\ o.start /\ o.agreed = agreed
        /\ o.post = {} /\ o.job = Nil /\ o.resume = Nil /\ ~o.pump
        /\ o.app.pipe \in Unused /\ o.app.busy /\ o.app.awaiting = a.awaiting
    BY <1>2, StartLaunchFields DEF JobFree
  <2>2. o.app.pipe # 0
    BY <2>1, AppAssumption DEF Unused, Runs
  <2> QED
    BY <1>2, <2>1, <2>2 DEF JobFree, Fits
<1> QED
  BY <1>1, <1>2

LEMMA StartReviewFits ==
  ASSUME review \in BOOLEAN, NEW a, NEW rest, JobFree(a, rest), NEW o \in StartReview(a)
  PROVE  Fits(o, rest)
<1>1. CASE a.pipe # 0
  BY <1>1, OutFits, JobFreeSettled DEF StartReview
<1>2. CASE a.pipe = 0
  <2>0. PICK p \in StartLaunch(a, FALSE) : o = [p EXCEPT !.review = TRUE]
    BY <1>2 DEF StartReview
  <2>1. /\ OutcomeOK(p) /\ p.start
        /\ p.post = {} /\ p.job = Nil /\ p.resume = Nil /\ ~p.pump
        /\ p.app.pipe \in Unused /\ p.app.busy /\ p.app.awaiting = a.awaiting
    BY <1>2, StartLaunchFields DEF JobFree
  <2>2. p.app.pipe # 0
    BY <2>1, AppAssumption DEF Unused, Runs
  <2>3. /\ o.app = p.app /\ o.post = p.post /\ o.job = p.job /\ o.start = p.start
        /\ o.agreed = p.agreed /\ o.review = TRUE /\ o.resume = p.resume
        /\ o.answer = p.answer /\ o.pump = p.pump /\ o.quit = p.quit
    BY <1>2, <2>0 DEF StartLaunch, Out
  <2>4. OutcomeOK(o)
    BY <2>1, <2>3 DEF OutcomeOK
  <2> QED
    BY <1>2, <2>1, <2>2, <2>3, <2>4 DEF JobFree, Fits
<1> QED
  BY <1>1, <1>2

LEMMA AwaitFields ==
  ASSUME NEW a, AppOK(a), NEW k \in Overlays, NEW o \in PushAwaited(a, k)
  PROVE  /\ o = Out(o.app) /\ AppOK(o.app) /\ o.app.stack = Append(a.stack, k)
         /\ Depth(o.app) > 1 /\ Top(o.app) = k
         /\ o.app.awaiting = a.awaiting \cup {k} /\ o.app.busy = a.busy
         /\ o.app.pipe = a.pipe /\ o.app.waiting = a.waiting
<1> DEFINE b == [a EXCEPT !.awaiting = @ \cup {k}]
<1>1. /\ AppOK(b) /\ b.stack = a.stack /\ b.awaiting = a.awaiting \cup {k}
      /\ b.busy = a.busy /\ b.pipe = a.pipe /\ b.waiting = a.waiting
  BY DEF AppOK, AppState
<1>2. o = Out(Push(b, k))
  BY DEF PushAwaited
<1> HIDE DEF b
<1>3. o.app = Push(b, k)
  BY <1>2, OutFields
<1>4. Depth(b) >= 1 /\ Depth(b) \in Nat
  BY <1>1 DEF AppOK, AppState, Depth
<1>5. k \in Screens
  BY Strings
<1> DEFINE c == Push(b, k)
<1>6. /\ AppOK(c) /\ c.stack = Append(b.stack, k) /\ Depth(c) = Depth(b) + 1 /\ Top(c) = k
      /\ c.awaiting = b.awaiting /\ c.busy = b.busy /\ c.pipe = b.pipe /\ c.waiting = b.waiting
  BY <1>1, <1>5, PushFields
<1> HIDE DEF c
<1>7. o.app = c /\ o = Out(c)
  BY <1>2, <1>3 DEF c
<1> QED
  BY <1>1, <1>4, <1>6, <1>7

LEMMA AwaitFits ==
  ASSUME review \in BOOLEAN, NEW a, NEW rest, JobFree(a, rest), a.pipe = 0,
         NEW k \in Overlays, NEW o \in PushAwaited(a, k),
         k \in {"gate", "tune"} => MenusIn(rest) = {},
         k = "tune" => "role" \notin a.awaiting
  PROVE  Fits(o, rest)
<1>1. /\ o = Out(o.app) /\ AppOK(o.app) /\ Depth(o.app) > 1
      /\ o.app.awaiting = a.awaiting \cup {k} /\ o.app.busy = a.busy /\ o.app.pipe = a.pipe
  BY AwaitFields DEF JobFree
<1>2. Settled(o.app, rest)
  BY <1>1 DEF JobFree, Settled
<1> QED
  BY <1>1, <1>2, OutFits

LEMMA MaybeWarnFits ==
  ASSUME review \in BOOLEAN, NEW a, NEW rest, JobFree(a, rest), NEW o \in MaybeWarnRestart(a)
  PROVE  Fits(o, rest)
  BY OutFits, JobFreeSettled, StartLaunchFits, AwaitFits DEF MaybeWarnRestart, StartAgreed, Overlays

LEMMA PickRoleFits ==
  ASSUME review \in BOOLEAN, NEW a, NEW rest, JobFree(a, rest), NEW o \in PickRole(a)
  PROVE  Fits(o, rest)
  BY OutFits, JobFreeSettled, MaybeWarnFits, AwaitFits DEF PickRole, Overlays

LEMMA StartJobFields ==
  ASSUME NEW a, AppOK(a), review \in BOOLEAN, NEW job \in Jobs
  PROVE  LET o == StartJob(a, job)
         IN  /\ OutcomeOK(o) /\ o.job = job /\ ~o.start /\ o.post = {} /\ ~o.pump
             /\ o.resume = Nil /\ ~o.quit /\ o.review = review
             /\ o.app.stack = <<"menu">> /\ o.app.busy /\ o.app.pipe = a.pipe
             /\ o.app.awaiting = a.awaiting /\ o.app.waiting = a.waiting
<1> DEFINE b == [a EXCEPT !.busy = TRUE]
           o == StartJob(a, job)
<1>1. /\ AppOK(b) /\ b.busy /\ b.awaiting = a.awaiting /\ b.pipe = a.pipe
      /\ b.waiting = a.waiting
  BY DEF AppOK, AppState
<1>2. o = [Out(BackToMenu(b)) EXCEPT !.job = job]
  BY DEF StartJob
<1> HIDE DEF b, o
<1>3. /\ o.app = BackToMenu(b) /\ o.job = job /\ o.start = FALSE /\ o.post = {}
      /\ o.pump = FALSE /\ o.resume = Nil /\ o.quit = FALSE /\ o.review = review
      /\ o.agreed = FALSE /\ o.answer = "none"
  BY <1>2 DEF Out
<1>4. OutcomeOK(o)
  BY <1>1, <1>3, BackToMenuFields DEF OutcomeOK, Answers
<1>5. /\ o.app.stack = <<"menu">> /\ o.app.busy /\ o.app.pipe = a.pipe
      /\ o.app.awaiting = a.awaiting /\ o.app.waiting = a.waiting
  BY <1>1, <1>3, BackToMenuFields
<1>6. /\ OutcomeOK(o) /\ o.job = job /\ ~o.start /\ o.post = {} /\ ~o.pump
      /\ o.resume = Nil /\ ~o.quit /\ o.review = review
      /\ o.app.stack = <<"menu">> /\ o.app.busy /\ o.app.pipe = a.pipe
      /\ o.app.awaiting = a.awaiting /\ o.app.waiting = a.waiting
  BY <1>3, <1>4, <1>5
<1> QED
  BY <1>6 DEF o

LEMMA StartJobFits ==
  ASSUME review \in BOOLEAN, NEW a, NEW rest, JobFree(a, rest), a.pipe = 0,
         FromOverlay(rest) = {}, NEW job \in Jobs
  PROVE  Fits(StartJob(a, job), rest)
<1> DEFINE o == StartJob(a, job)
<1>1. /\ OutcomeOK(o) /\ o.job = job /\ ~o.start /\ o.post = {} /\ ~o.pump
      /\ o.resume = Nil /\ o.app.stack = <<"menu">> /\ o.app.busy /\ o.app.pipe = a.pipe
      /\ o.app.awaiting = a.awaiting
  BY StartJobFields DEF JobFree
<1> HIDE DEF o
<1>2. ~OverlayShown(o.app)
  BY <1>1 DEF OverlayShown, Overlays
<1>3. Fits(o, rest)
  BY <1>1, <1>2, Strings DEF Fits, JobFree
<1> QED
  BY <1>3 DEF o

LEMMA RunGateFits ==
  ASSUME review \in BOOLEAN, NEW a, NEW rest, JobFree(a, rest), a.pipe = 0,
         FromOverlay(rest) = {}, NEW choice, NEW o \in RunGate(a, choice)
  PROVE  Fits(o, rest)
<1>1. ASSUME NEW all \in BOOLEAN PROVE JobFree([a EXCEPT !.gateAll = all], rest)
  BY DEF JobFree, AppOK, AppState
<1>2. ASSUME NEW all \in BOOLEAN PROVE [a EXCEPT !.gateAll = all].pipe = 0
  BY DEF JobFree, AppOK, AppState
<1>3. "self" \in Jobs /\ "packs" \in Jobs
  BY DEF Jobs
<1>4. CASE choice \in {"self", "packs", "all"}
  BY <1>1, <1>2, <1>3, <1>4, StartJobFits DEF RunGate
<1>5. CASE choice \notin {"self", "packs", "all"}
  BY <1>5, PickRoleFits DEF RunGate
<1> QED
  BY <1>4, <1>5

LEMMA MsgKinds ==
  ASSUME NEW m \in Msgs
  PROVE  /\ m.type \in MsgTypes
         /\ m \in KeyMsgs <=> m.type \in {"menu", "result", "pop"}
         /\ m \in PipelineMsgs <=> m.type \in {"waiting", "done"}
         /\ m.type = "menu" => m.action \in Actions
         /\ m.type = "result" => m.from \in Overlays \cup {"form"} /\ m.value \in Values
         /\ m.type = "push" => m.screen \in {"form", "ghauth"}
         /\ m.type \in {"exec", "execdone"} => m.step \in InTerminal
         /\ m.type = "jobdone" => m.job \in Jobs
         /\ m.type = "waiting" => m.step \in Questions
  BY DEF Msgs, KeyMsgs, CommandMsgs, PipelineMsgs, MsgTypes

LEMMA KeysLeft ==
  ASSUME AppTypeOK, NEW rest, rest \subseteq msgs, KeysIn(rest) = {}
  PROVE  MenusIn(rest) = {} /\ FromOverlay(rest) = {}
<1>1. \A m \in rest : m \notin KeyMsgs /\ m \in Msgs
  BY DEF AppTypeOK, KeysIn
<1>2. \A m \in rest : m.type \notin {"menu", "result"}
  BY <1>1, MsgKinds
<1> QED
  BY <1>2 DEF MenusIn, FromOverlay

LEMMA MenuChosenFits ==
  ASSUME FlowInv, NEW rest, rest \subseteq msgs, MenusIn(msgs) # {}, KeysIn(rest) = {},
         JobsDoneIn(rest) = JobsDone, NEW action \in Actions, NEW o \in HandleMenuChosen(app, action)
  PROVE  o.quit \/ Fits(o, rest)
<1>0. /\ review \in BOOLEAN /\ AppOK(app) /\ app.awaiting \cap {"gate", "tune"} = {}
      /\ (app.busy <=> app.pipe # 0 \/ JobsOn) /\ (JobsOn => app.pipe = 0)
      /\ MenusIn(rest) = {} /\ FromOverlay(rest) = {}
  <2>1. MenusIn(rest) = {} /\ FromOverlay(rest) = {}
    BY KeysLeft DEF FlowInv
  <2> QED
    BY <2>1 DEF FlowInv, AppTypeOK, AppOK, Flow, OneOn
<1>1. JobLeft(rest) <=> JobsOn
  BY DEF JobLeft, JobsOn
<1>2. CASE (app.busy \/ app.pipe # 0) /\ action # "quit"
  BY <1>0, <1>1, <1>2, BackToMenuSettled, OutFits DEF HandleMenuChosen
<1>3. CASE action = "quit"
  BY <1>3 DEF HandleMenuChosen, Out
<1>4. CASE ~app.busy /\ app.pipe = 0 /\ action # "quit"
  <2>1. JobFree(app, rest)
    BY <1>0, <1>1, <1>4 DEF JobFree
  <2>2. CASE action = "launch"
    BY <1>0, <1>4, <2>1, <2>2, AwaitFits DEF HandleMenuChosen, PushGate, Overlays
  <2>3. CASE action = "review"
    BY <1>0, <1>4, <2>1, <2>3, StartReviewFits DEF HandleMenuChosen
  <2>4. CASE action = "vscode"
    BY <1>0, <1>4, <2>1, <2>4, StartJobFits DEF HandleMenuChosen, Jobs
  <2> QED
    BY <1>4, <2>2, <2>3, <2>4 DEF Actions
<1> QED
  BY <1>2, <1>3, <1>4

LEMMA ResumeFits ==
  ASSUME review \in BOOLEAN, NEW a, NEW rest, Settled(a, rest), NEW answer \in Answers,
         NEW o \in ResumeWaiting(a, answer)
  PROVE  Fits(o, rest)
<1>1. ASSUME NEW b, b = [a EXCEPT !.waiting = Nil]
                    \/ b = [[a EXCEPT !.waiting = Nil] EXCEPT !.launchCancelled = TRUE]
      PROVE  Settled(b, rest)
  <2>1. /\ AppOK(b) /\ b.stack = a.stack /\ b.awaiting = a.awaiting /\ b.busy = a.busy
        /\ b.pipe = a.pipe
    BY <1>1 DEF Settled, AppOK, AppState
  <2> QED
    BY <2>1 DEF Settled, Depth, OverlayShown
<1>2. CASE a.pipe # 0 /\ a.waiting # Nil
  <2>1. PICK b : /\ Settled(b, rest)
                 /\ o = [Out(b) EXCEPT !.resume = a.waiting, !.answer = answer]
    BY <1>1, <1>2 DEF ResumeWaiting
  <2>2. Fits(Out(b), rest) /\ Out(b).app = b /\ Out(b).job = Nil /\ Quiet(Out(b))
    BY <2>1, OutFits, OutFields DEF Quiet
  <2>3. /\ o.app = b /\ o.post = {} /\ o.job = Nil /\ o.start = FALSE /\ o.agreed = FALSE
        /\ o.review = review /\ o.resume = a.waiting /\ o.answer = answer /\ o.pump = FALSE
        /\ o.quit = FALSE
    BY <2>1 DEF Out
  <2>4. a.waiting \in Questions \cup {Nil} /\ a.pipe = app.pipe
    BY DEF Settled, AppOK, AppState
  <2>5. OutcomeOK(o)
    BY <2>1, <2>3, <2>4 DEF OutcomeOK, Settled
  <2> QED
    BY <1>2, <2>2, <2>3, <2>4, <2>5 DEF Fits
<1>3. CASE ~(a.pipe # 0 /\ a.waiting # Nil)
  BY <1>1, <1>3, OutFits DEF ResumeWaiting
<1> QED
  BY <1>2, <1>3

LEMMA OrErrorFits ==
  ASSUME review \in BOOLEAN, NEW a, NEW rest, JobFree(a, rest), NEW next,
         \A o \in next : Fits(o, rest), NEW o \in OrError(a, next)
  PROVE  Fits(o, rest)
<1>1. Settled(BackToMenu(a), rest)
  BY BackToMenuSettled DEF JobFree
<1> QED
  BY <1>1, OutFits DEF OrError

-----------------------------------------------------------------------------
(* What a result or a pop finds when it is handled. *)

LEMMA KeyFinds ==
  ASSUME FlowInv, NEW rest, rest \subseteq msgs, KeysIn(rest) = {},
         JobsDoneIn(rest) = JobsDone
  PROVE  LET a == Pop(app)
         IN  /\ review \in BOOLEAN /\ AppOK(a) /\ a.pipe = app.pipe
             /\ a.awaiting = app.awaiting /\ a.awaiting \subseteq Overlays
             /\ (a.busy <=> a.pipe # 0 \/ JobLeft(rest))
             /\ (JobLeft(rest) => a.pipe = 0 /\ ~OverlayShown(a))
             /\ MenusIn(rest) = {} /\ FromOverlay(rest) = {}
             /\ a.awaiting \cap {"gate", "tune"} # {} => ~JobLeft(rest) /\ a.pipe = 0
             /\ "tune" \in a.awaiting => a.awaiting \cap {"gate", "role"} = {}
<1> DEFINE a == Pop(app)
<1>1. /\ review \in BOOLEAN /\ AppOK(app)
      /\ (app.busy <=> app.pipe # 0 \/ JobsOn) /\ (JobsOn => app.pipe = 0)
      /\ MenusIn(rest) = {} /\ FromOverlay(rest) = {}
      /\ JobsOn => ~OverlayShown(app)
      /\ app.awaiting \cap {"gate", "tune"} # {} => ~app.busy
      /\ "tune" \in app.awaiting => app.awaiting \cap {"gate", "role"} = {}
  <2>1. MenusIn(rest) = {} /\ FromOverlay(rest) = {}
    BY KeysLeft DEF FlowInv
  <2> QED
    BY <2>1 DEF FlowInv, AppTypeOK, AppOK, Flow, OneOn, NoFlowDuringJob
<1>2. JobLeft(rest) <=> JobsOn
  BY DEF JobLeft, JobsOn
<1>3. /\ AppOK(a) /\ a.pipe = app.pipe /\ a.busy = app.busy /\ a.awaiting = app.awaiting
      /\ \A i \in DOMAIN a.stack : i \in DOMAIN app.stack /\ a.stack[i] = app.stack[i]
  BY <1>1, PopFields
<1> HIDE DEF a
<1>4. OverlayShown(a) => OverlayShown(app)
  BY <1>3 DEF OverlayShown
<1>5. a.awaiting \subseteq Overlays
  BY <1>3 DEF AppOK, AppState
<1>6. /\ review \in BOOLEAN /\ AppOK(a) /\ a.pipe = app.pipe
      /\ a.awaiting = app.awaiting /\ a.awaiting \subseteq Overlays
      /\ (a.busy <=> a.pipe # 0 \/ JobLeft(rest))
      /\ (JobLeft(rest) => a.pipe = 0 /\ ~OverlayShown(a))
      /\ MenusIn(rest) = {} /\ FromOverlay(rest) = {}
      /\ a.awaiting \cap {"gate", "tune"} # {} => ~JobLeft(rest) /\ a.pipe = 0
      /\ "tune" \in a.awaiting => a.awaiting \cap {"gate", "role"} = {}
  BY <1>1, <1>2, <1>3, <1>4, <1>5
<1> QED
  BY <1>6 DEF a

LEMMA ScreenPopFits ==
  ASSUME FlowInv, NEW rest, rest \subseteq msgs, KeysIn(rest) = {},
         JobsDoneIn(rest) = JobsDone, NEW o \in HandleScreenPop(app)
  PROVE  Fits(o, rest)
<1> DEFINE a == Pop(app)
<1>0. /\ review \in BOOLEAN /\ AppOK(a) /\ a.pipe = app.pipe
      /\ a.awaiting \subseteq Overlays
      /\ (a.busy <=> a.pipe # 0 \/ JobLeft(rest))
      /\ (JobLeft(rest) => a.pipe = 0 /\ ~OverlayShown(a))
      /\ MenusIn(rest) = {} /\ FromOverlay(rest) = {}
      /\ a.awaiting \cap {"gate", "tune"} # {} => ~JobLeft(rest) /\ a.pipe = 0
      /\ "tune" \in a.awaiting => a.awaiting \cap {"gate", "role"} = {}
  BY KeyFinds
<1> HIDE DEF a
<1>s. \A k : /\ AppOK(Served(a, k)) /\ Served(a, k).awaiting = a.awaiting \ {k}
             /\ Served(a, k).busy = a.busy /\ Served(a, k).pipe = a.pipe
  BY <1>0, ServedFields
<1>1. CASE "gate" \in a.awaiting
  <2>1. JobFree(Served(a, "gate"), rest)
    BY <1>0, <1>1, <1>s DEF JobFree
  <2>2. o \in RunGate(Served(a, "gate"), "skip")
    BY <1>1 DEF HandleScreenPop, a
  <2> QED
    BY <1>0, <1>1, <1>s, <2>1, <2>2, RunGateFits
<1>2. CASE "gate" \notin a.awaiting /\ "role" \in a.awaiting
  <2>1. Settled(BackToMenu(Served(a, "role")), rest)
    BY <1>0, <1>2, <1>s, BackToMenuSettled
  <2> QED
    BY <1>0, <1>2, <2>1, OutFits DEF HandleScreenPop, a
<1>3. CASE a.awaiting \cap {"gate", "role"} = {} /\ "tune" \in a.awaiting
  <2>1. JobFree(Served(a, "tune"), rest)
    BY <1>0, <1>3, <1>s DEF JobFree
  <2>2. o \in OrError(Served(a, "tune"), MaybeWarnRestart(Served(a, "tune")))
    BY <1>3 DEF HandleScreenPop, a
  <2> QED
    BY <1>0, <2>1, <2>2, OrErrorFits, MaybeWarnFits
<1>4. CASE a.awaiting = {"warn"}
  <2>1. Settled(BackToMenu(Served(a, "warn")), rest)
    BY <1>0, <1>4, <1>s, BackToMenuSettled
  <2> QED
    BY <1>0, <1>4, <2>1, OutFits DEF HandleScreenPop, a
<1>5. CASE a.awaiting = {}
  <2>1. Settled(a, rest)
    BY <1>0, <1>5 DEF Settled
  <2>2. o \in ResumeWaiting(a, "cancelled")
    BY <1>5 DEF HandleScreenPop, a
  <2> QED
    BY <1>0, <2>1, <2>2, ResumeFits DEF Answers
<1> QED
  BY <1>0, <1>1, <1>2, <1>3, <1>4, <1>5 DEF Overlays

LEMMA ScreenResultFits ==
  ASSUME FlowInv, NEW rest, rest \subseteq msgs, KeysIn(rest) = {},
         JobsDoneIn(rest) = JobsDone,
         NEW m \in msgs, m.type = "result", NEW o \in HandleScreenResult(app, m)
  PROVE  Fits(o, rest)
<1> DEFINE a == Pop(app)
<1>0. /\ review \in BOOLEAN /\ AppOK(a) /\ a.pipe = app.pipe
      /\ a.awaiting \subseteq Overlays
      /\ (a.busy <=> a.pipe # 0 \/ JobLeft(rest))
      /\ (JobLeft(rest) => a.pipe = 0 /\ ~OverlayShown(a))
      /\ MenusIn(rest) = {} /\ FromOverlay(rest) = {}
      /\ a.awaiting \cap {"gate", "tune"} # {} => ~JobLeft(rest) /\ a.pipe = 0
      /\ "tune" \in a.awaiting => a.awaiting \cap {"gate", "role"} = {}
  BY KeyFinds
<1> HIDE DEF a
<1>s. \A k : /\ AppOK(Served(a, k)) /\ Served(a, k).awaiting = a.awaiting \ {k}
             /\ Served(a, k).busy = a.busy /\ Served(a, k).pipe = a.pipe
  BY <1>0, ServedFields
<1>m. /\ m.from \in Overlays \cup {"form"} /\ m.value \in Choices(m.from)
      /\ m.from \in Overlays => ~JobLeft(rest)
  <2>1. m.from \in Overlays \cup {"form"} /\ m.value \in Choices(m.from)
    BY DEF FlowInv, Chosen, AppTypeOK, Msgs, KeyMsgs, CommandMsgs, PipelineMsgs
  <2>2. m.from \in Overlays => ~JobsOn
    BY DEF FlowInv, NoFlowDuringJob, FromOverlay
  <2> QED
    BY <2>1, <2>2 DEF JobLeft, JobsOn
<1>1. CASE "gate" \in a.awaiting
  <2>1. JobFree(Served(a, "gate"), rest)
    BY <1>0, <1>1, <1>s DEF JobFree
  <2>2. o \in RunGate(Served(a, "gate"), m.value)
    BY <1>1 DEF HandleScreenResult, a
  <2> QED
    BY <1>0, <1>1, <1>s, <2>1, <2>2, RunGateFits
<1>2. CASE "gate" \notin a.awaiting /\ "role" \in a.awaiting
  <2> DEFINE b == Served(a, "role")
  <2>1. Settled(BackToMenu(b), rest)
    BY <1>0, <1>2, <1>s, BackToMenuSettled
  <2>2. CASE m.from \notin {"tune", "form"}
    <3>1. JobFree(b, rest)
      BY <1>0, <1>2, <1>m, <1>s, <2>2 DEF JobFree
    <3>2. ASSUME NEW p \in PushTune(b) PROVE Fits(p, rest)
      <4>1. CASE b.pipe # 0
        BY <1>0, <3>1, <3>2, <4>1, OutFits, JobFreeSettled DEF PushTune
      <4>2. CASE b.pipe = 0
        BY <1>0, <1>s, <3>1, <3>2, <4>2, AwaitFits DEF PushTune, Overlays
      <4> QED
        BY <4>1, <4>2
    <3>3. o \in OrError(b, PushTune(b))
      BY <1>2, <2>2 DEF HandleScreenResult, a
    <3> QED
      BY <1>0, <3>1, <3>2, <3>3, OrErrorFits
  <2>3. CASE m.from \in {"tune", "form"}
    BY <1>0, <1>2, <2>1, <2>3, OutFits DEF HandleScreenResult, a
  <2> QED
    BY <2>2, <2>3
<1>3. CASE a.awaiting \cap {"gate", "role"} = {} /\ "tune" \in a.awaiting
  <2> DEFINE b == Served(a, "tune")
  <2>1. JobFree(b, rest)
    BY <1>0, <1>3, <1>s DEF JobFree
  <2>2. CASE m.from = "tune"
    <3>1. o \in OrError(b, MaybeWarnRestart(b))
      BY <1>3, <2>2 DEF HandleScreenResult, a
    <3> QED
      BY <1>0, <2>1, <3>1, OrErrorFits, MaybeWarnFits
  <2>3. CASE m.from # "tune"
    <3>1. Settled(BackToMenu(b), rest)
      BY <2>1, BackToMenuSettled DEF JobFree
    <3> QED
      BY <1>0, <1>3, <2>3, <3>1, OutFits DEF HandleScreenResult, a
  <2> QED
    BY <2>2, <2>3
<1>4. CASE a.awaiting = {"warn"}
  <2> DEFINE b == Served(a, "warn")
  <2>1. CASE m.value = "confirm"
    <3>1. m.from # "form"
      BY <1>m, <2>1 DEF Choices, FormChoices
    <3>2. JobFree(b, rest)
      BY <1>0, <1>4, <1>m, <1>s, <3>1 DEF JobFree
    <3>3. o \in StartAgreed(b)
      BY <1>4, <2>1 DEF HandleScreenResult, a
    <3> QED
      BY <1>0, <3>2, <3>3, StartLaunchFits DEF StartAgreed
  <2>2. CASE m.value # "confirm"
    <3>1. Settled(BackToMenu(b), rest)
      BY <1>0, <1>4, <1>s, BackToMenuSettled
    <3> QED
      BY <1>0, <1>4, <2>2, <3>1, OutFits DEF HandleScreenResult, a
  <2> QED
    BY <2>1, <2>2
<1>5. CASE a.awaiting = {}
  <2>1. Settled(a, rest)
    BY <1>0, <1>5 DEF Settled
  <2>2. o \in ResumeWaiting(a, IF m.from = "form" THEN "choices" ELSE "value")
    BY <1>5 DEF HandleScreenResult, a
  <2> QED
    BY <1>0, <2>1, <2>2, ResumeFits DEF Answers
<1> QED
  BY <1>0, <1>1, <1>2, <1>3, <1>4, <1>5 DEF Overlays

LEMMA PushFits ==
  ASSUME FlowInv, NEW rest, rest \subseteq msgs, JobsDoneIn(rest) = JobsDone,
         NEW screen \in {"form", "ghauth"}
  PROVE  Fits(Out(Push(app, screen)), rest)
<1> DEFINE b == Push(app, screen)
<1>1. AppOK(app) /\ review \in BOOLEAN /\ screen \in Screens /\ screen \notin Overlays
  BY DEF FlowInv, AppTypeOK, AppOK, Screens, Overlays
<1>2. /\ AppOK(b) /\ b.stack = Append(app.stack, screen) /\ Depth(b) = Depth(app) + 1
      /\ b.awaiting = app.awaiting /\ b.busy = app.busy /\ b.pipe = app.pipe
  BY <1>1, PushFields
<1> HIDE DEF b
<1>3. app.stack \in Seq(Screens) /\ app.stack # <<>>
  BY <1>1 DEF AppOK, AppState
<1>4. OverlayShown(b) => OverlayShown(app)
  <2> SUFFICES ASSUME NEW i \in DOMAIN b.stack, b.stack[i] \in Overlays
               PROVE  \E j \in DOMAIN app.stack : app.stack[j] \in Overlays
    BY DEF OverlayShown
  <2>1. i \in DOMAIN app.stack /\ b.stack[i] = app.stack[i]
    BY <1>1, <1>2, <1>3
  <2> QED
    BY <2>1
<1>5. MenusIn(rest) \subseteq MenusIn(msgs) /\ FromOverlay(rest) \subseteq FromOverlay(msgs)
  BY DEF MenusIn, FromOverlay
<1>6. JobLeft(rest) <=> JobsOn
  BY DEF JobLeft, JobsOn
<1>7. Depth(b) > 1
  BY <1>2, <1>3 DEF Depth
<1>8. Settled(b, rest)
  BY <1>2, <1>4, <1>5, <1>6, <1>7 DEF Settled, FlowInv, NoFlowDuringJob, Flow, OneOn
<1> QED
  BY <1>1, <1>8, OutFits DEF b

LEMMA ExecDoneFits ==
  ASSUME FlowInv, NEW rest, rest \subseteq msgs, JobsDoneIn(rest) = JobsDone,
         NEW q \in InTerminal, NEW o \in HandleExecDone(app, q)
  PROVE  Fits(o, rest)
<1>1. AppOK(app) /\ review \in BOOLEAN
  BY DEF FlowInv, AppTypeOK, AppOK
<1>2. MenusIn(rest) \subseteq MenusIn(msgs) /\ FromOverlay(rest) \subseteq FromOverlay(msgs)
  BY DEF MenusIn, FromOverlay
<1>3. JobLeft(rest) <=> JobsOn
  BY DEF JobLeft, JobsOn
<1>4. Settled(app, rest)
  BY <1>1, <1>2, <1>3 DEF Settled, FlowInv, NoFlowDuringJob, Flow, OneOn
<1>5. Fits(Out(app), rest) /\ Out(app).app = app /\ Quiet(Out(app))
  BY <1>1, <1>4, OutFits, OutFields
<1>6. CASE app.pipe = 0
  BY <1>5, <1>6 DEF HandleExecDone
<1>7. CASE app.pipe # 0
  <2>1. o = [Out(app) EXCEPT !.resume = q, !.answer = "exec"]
    BY <1>7 DEF HandleExecDone
  <2>2. /\ o.app = app /\ o.post = {} /\ o.job = Nil /\ o.start = FALSE /\ o.agreed = FALSE
        /\ o.review = review /\ o.resume = q /\ o.answer = "exec" /\ o.pump = FALSE
        /\ o.quit = FALSE
    BY <2>1 DEF Out
  <2>3. q \in Questions /\ "exec" \in Answers
    BY DEF InTerminal, Questions, Catalogue, Answers
  <2>4. OutcomeOK(o)
    BY <1>1, <2>2, <2>3 DEF OutcomeOK
  <2> QED
    BY <1>5, <1>7, <2>2, <2>4 DEF Fits, Quiet
<1> QED
  BY <1>6, <1>7

\* A job has ended: its message was all that was on.
LEMMA JobDoneFits ==
  ASSUME FlowInv, NEW m \in msgs, m.type = "jobdone",
         NEW o \in HandleJobDone(app, m.job)
  PROVE  Fits(o, msgs \ {m})
<1> DEFINE rest == msgs \ {m}
<1>1. AppOK(app) /\ review \in BOOLEAN
  BY DEF FlowInv, AppTypeOK, AppOK
<1>2. m \in JobsDone /\ jobs = {} /\ app.pipe = 0 /\ app.busy
  BY DEF FlowInv, OneOn, JobsDone, JobsOn
<1>3. ~JobLeft(rest)
  BY <1>2 DEF JobLeft, JobsDoneIn, FlowInv, OneOn, JobsDone
<1>4. FromOverlay(rest) = {} /\ ~OverlayShown(app)
  BY <1>2 DEF FromOverlay, FlowInv, NoFlowDuringJob, JobsOn
<1>5. app.awaiting \cap {"gate", "tune"} = {}
  BY <1>2 DEF FlowInv, Flow
<1> HIDE DEF rest
<1>6. CASE m.job = "vscode"
  <2> DEFINE b == [app EXCEPT !.busy = FALSE]
  <2>1. AppOK(b) /\ b.awaiting = app.awaiting /\ b.busy = FALSE /\ b.pipe = app.pipe
    BY <1>1 DEF AppOK, AppState
  <2>2. o = Out(BackToMenu(b))
    BY <1>6 DEF HandleJobDone
  <2> HIDE DEF b
  <2>3. Settled(BackToMenu(b), rest)
    BY <1>2, <1>3, <1>5, <2>1, BackToMenuSettled
  <2> QED
    BY <1>1, <2>2, <2>3, OutFits DEF rest
<1>7. CASE m.job = "self" /\ app.gateAll
  <2>1. o = [Out(app) EXCEPT !.job = "packs"]
    BY <1>7 DEF HandleJobDone
  <2>2. /\ o.app = app /\ o.post = {} /\ o.job = "packs" /\ o.start = FALSE /\ o.agreed = FALSE
        /\ o.review = review /\ o.resume = Nil /\ o.answer = "none" /\ o.pump = FALSE
        /\ o.quit = FALSE
    BY <2>1 DEF Out
  <2>3. "packs" \in Jobs
    BY DEF Jobs
  <2>4. OutcomeOK(o)
    BY <1>1, <2>2, <2>3 DEF OutcomeOK, Answers
  <2>5. Fits(o, rest)
    BY <1>2, <1>3, <1>4, <1>5, <2>2, <2>3, <2>4, Strings DEF Fits
  <2> QED
    BY <2>5 DEF rest
<1>8. CASE m.job # "vscode" /\ ~(m.job = "self" /\ app.gateAll)
  <2> DEFINE c == [app EXCEPT !.gateAll = FALSE, !.busy = FALSE]
             b == BackToMenu(c)
  <2>1. AppOK(c) /\ c.awaiting = app.awaiting /\ c.busy = FALSE /\ c.pipe = app.pipe
    BY <1>1 DEF AppOK, AppState
  <2>2. o \in PickRole(b)
    BY <1>8 DEF HandleJobDone, ProceedAfterGate
  <2> HIDE DEF c
  <2>3. AppOK(b) /\ b.awaiting = app.awaiting /\ b.busy = FALSE /\ b.pipe = app.pipe
    BY <2>1, BackToMenuFields
  <2> HIDE DEF b
  <2>4. JobFree(b, rest)
    BY <1>2, <1>3, <1>5, <2>3 DEF JobFree
  <2> QED
    BY <1>1, <2>2, <2>4, PickRoleFits DEF rest
<1> QED
  BY <1>6, <1>7, <1>8

-----------------------------------------------------------------------------
(* What an outcome does to the pipelines. *)

FreshRun(o) == [NoRun EXCEPT !.state = "working", !.pumps = 1,
                  !.mode = IF o.review THEN "review" ELSE "launch", !.agreed = o.agreed]

LEMMA NoRunIs ==
  /\ NoRun \in RunState /\ NoRun.state = "unused" /\ NoRun.feed = <<>> /\ NoRun.pumps = 0
  /\ NoRun.mode = Nil /\ NoRun.q = Nil /\ NoRun.answer = "none"
  BY DEF NoRun, RunState, Answers

LEMMA FreshRunIs ==
  ASSUME NEW o, OutcomeOK(o)
  PROVE  LET n == FreshRun(o)
         IN  /\ n \in RunState /\ n.state = "working" /\ n.feed = <<>> /\ n.pumps = 1
             /\ n.mode = (IF o.review THEN "review" ELSE "launch") /\ n.agreed = o.agreed
             /\ n.q = Nil /\ n.answer = "none"
<1>1. o.agreed \in BOOLEAN /\ o.review \in BOOLEAN
  BY DEF OutcomeOK
<1> DEFINE mode == IF o.review THEN "review" ELSE "launch"
<1>2. mode \in {"launch", "review"}
  BY <1>1
<1>3. FreshRun(o) = [NoRun EXCEPT !.state = "working", !.pumps = 1, !.mode = mode,
                                  !.agreed = o.agreed]
  BY DEF FreshRun
<1> HIDE DEF mode
<1>4. LET n == FreshRun(o)
      IN  /\ n \in RunState /\ n.state = "working" /\ n.feed = <<>> /\ n.pumps = 1
          /\ n.mode = mode /\ n.agreed = o.agreed /\ n.q = Nil /\ n.answer = "none"
  <2>1. o.agreed \in BOOLEAN
    BY <1>1
  <2>2. FreshRun(o) \in RunState
    BY <1>2, <1>3, <2>1, NoRunIs DEF RunState
  <2>3. /\ FreshRun(o).state = "working" /\ FreshRun(o).feed = NoRun.feed
        /\ FreshRun(o).pumps = 1 /\ FreshRun(o).mode = mode /\ FreshRun(o).agreed = o.agreed
        /\ FreshRun(o).q = NoRun.q /\ FreshRun(o).answer = NoRun.answer
    BY <1>3, NoRunIs DEF RunState
  <2> QED
    BY <2>2, <2>3, NoRunIs
<1> QED
  BY <1>4 DEF mode

LEMMA ResumeIs ==
  ASSUME NEW run \in RunState, NEW q \in Questions, NEW answer \in Answers
  PROVE  LET n == Resume(run, q, answer)
         IN  /\ n \in RunState /\ n.feed = run.feed /\ n.pumps = run.pumps
             /\ n.mode = run.mode /\ n.agreed = run.agreed /\ n.q = run.q
             /\ ~(run.state = "asking" /\ run.q = q) => n = run
             /\ run.state = "asking" /\ run.q = q => n.state = "working" /\ n.answer = answer
  BY DEF Resume, RunState

\* The pipelines after an outcome that is not about a message of theirs.
LEMMA RunsAfterIs ==
  ASSUME FlowInv, NEW rest, NEW o, Fits(o, rest)
  PROVE  /\ RunsAfter(o) \in [Runs -> RunState]
         /\ \A r \in Runs :
              LET n == RunsAfter(o)[r]
              IN  \/ n = NoRun /\ r # o.app.pipe
                  \/ o.start /\ r = o.app.pipe /\ n = FreshRun(o)
                  \/ ~o.start /\ o.resume # Nil /\ r = app.pipe
                       /\ n = Resume(runs[r], o.resume, o.answer)
                  \/ n = runs[r] /\ ~(o.start /\ r = o.app.pipe)
                       /\ ~(o.resume # Nil /\ r = app.pipe)
<1>0. runs \in [Runs -> RunState] /\ OutcomeOK(o) /\ ~o.pump /\ app.pipe \in 0 .. Slots
  BY DEF FlowInv, AppTypeOK, Fits, AppState
<1>1. Pumped(o) = Told(o)
  BY <1>0 DEF Pumped
<1>2. CASE o.start
  <2>1. o.resume = Nil /\ o.app.pipe \in Runs
    BY <1>2 DEF Fits, Unused
  <2>2. Started(o) = [runs EXCEPT ![o.app.pipe] = FreshRun(o)]
    BY <1>1, <1>2, <2>1 DEF Started, Told, FreshRun
  <2> QED
    BY <1>0, <1>2, <2>1, <2>2, FreshRunIs, NoRunIs DEF RunsAfter
<1>3. CASE ~o.start /\ o.resume # Nil
  <2>1. o.resume \in Questions /\ o.answer \in Answers /\ app.pipe \in Runs
    BY <1>0, <1>3, AppAssumption DEF Fits, OutcomeOK, Runs
  <2>2. Started(o) = [runs EXCEPT ![app.pipe] = Resume(runs[app.pipe], o.resume, o.answer)]
    BY <1>0, <1>1, <1>3, <2>1 DEF Started, Told
  <2> QED
    BY <1>0, <1>3, <2>1, <2>2, ResumeIs, NoRunIs DEF RunsAfter
<1>4. CASE ~o.start /\ o.resume = Nil
  <2>1. Started(o) = runs
    BY <1>1, <1>4 DEF Started, Told
  <2> QED
    BY <1>0, <1>4, <2>1, NoRunIs DEF RunsAfter
<1> QED
  BY <1>2, <1>3, <1>4

-----------------------------------------------------------------------------
(* The steps. *)

LEMMA UpdateFlow ==
  ASSUME FlowInv, NEW rest, rest \subseteq msgs, PipelineIn(rest) = PipelineIn(msgs),
         NEW o, Fits(o, rest), Update(o, rest)
  PROVE  FlowInv'
<1>0. /\ app' = o.app /\ review' = o.review /\ msgs' = rest /\ runs' = RunsAfter(o)
      /\ jobs' = (IF o.job = Nil THEN jobs ELSE jobs \cup {o.job})
      /\ terminal' = terminal
  BY DEF Update, Fits
<1>t. AppTypeOK /\ OutcomeOK(o)
  BY DEF FlowInv, Fits
<1>r. /\ RunsAfter(o) \in [Runs -> RunState]
      /\ \A r \in Runs :
           LET n == RunsAfter(o)[r]
           IN  \/ n = NoRun /\ r # o.app.pipe
               \/ o.start /\ r = o.app.pipe /\ n = FreshRun(o)
               \/ ~o.start /\ o.resume # Nil /\ r = app.pipe
                    /\ n = Resume(runs[r], o.resume, o.answer)
               \/ n = runs[r] /\ ~(o.start /\ r = o.app.pipe)
                    /\ ~(o.resume # Nil /\ r = app.pipe)
  BY RunsAfterIs
<1>1. AppTypeOK'
  <2>1. overtaken' \in 0 .. MaxOvertakes
    BY <1>t, AppAssumption DEF Update, AppTypeOK
  <2>2. jobs' \subseteq Jobs
    BY <1>0, <1>t DEF OutcomeOK, AppTypeOK
  <2> QED
    BY <1>0, <1>t, <1>r, <2>1, <2>2 DEF AppTypeOK, OutcomeOK, AppOK
<1>2. OneKey' /\ Chosen'
  BY <1>0 DEF FlowInv, OneKey, Chosen
<1>3. JobsDone' = JobsDoneIn(rest)
  BY <1>0 DEF JobsDone, JobsDoneIn
<1>4. JobsOn' <=> JobLeft(rest) \/ o.job # Nil
  BY <1>0, <1>3 DEF JobsOn, JobLeft
<1>5. NoFlowDuringJob'
  BY <1>0, <1>4 DEF NoFlowDuringJob, Fits, OverlayShown
<1>6. Flow'
  BY <1>0 DEF Flow, Fits, Depth
<1>7. ASSUME NEW r \in Runs
      PROVE  /\ ~o.start /\ r # app.pipe => runs'[r].pumps = 0
             /\ ~o.start /\ r = app.pipe => runs'[r].pumps = runs[r].pumps
             /\ o.start /\ r # o.app.pipe => runs'[r].pumps = 0
             /\ o.start /\ r = o.app.pipe => runs'[r].pumps = 1
  <2>1. /\ o.app.pipe # 0 => o.app.pipe \in Runs
        /\ ~o.start => o.app.pipe = app.pipe
        /\ o.start => app.pipe = 0 /\ o.resume = Nil
    BY <1>t, AppAssumption DEF Fits, OutcomeOK, AppOK, AppState, Runs
  <2>2. r # app.pipe => runs[r].pumps = 0
    BY DEF FlowInv, OnePump
  <2>3. runs[r] \in RunState /\ r # 0
    BY <1>t, AppAssumption DEF AppTypeOK, Runs
  <2>4. NoRun.pumps = 0 /\ FreshRun(o).pumps = 1
    BY <1>t, NoRunIs, FreshRunIs
  <2>5. o.resume # Nil => Resume(runs[r], o.resume, o.answer).pumps = runs[r].pumps
    BY <1>t, <2>3, ResumeIs DEF OutcomeOK
  <2> QED
    BY <1>0, <1>r, <2>1, <2>2, <2>3, <2>4, <2>5
<1>8. OnePump'
  <2>1. PipelineIn(msgs)' = PipelineIn(msgs)
    BY <1>0 DEF PipelineIn
  <2>2. app.pipe \in 0 .. Slots /\ o.app.pipe \in 0 .. Slots
    BY <1>t DEF AppTypeOK, OutcomeOK, AppOK, AppState
  <2>3. CASE o.start
    <3>1. app.pipe = 0 /\ o.app.pipe \in Runs
      BY <2>3 DEF Fits, Unused
    <3> QED
      BY <1>0, <1>7, <2>1, <2>3, <3>1, AppAssumption DEF OnePump, FlowInv, Runs
  <2>4. CASE ~o.start
    <3>1. o.app.pipe = app.pipe
      BY <2>4 DEF Fits
    <3>2. app.pipe # 0 => app.pipe \in Runs
      BY <2>2, AppAssumption DEF Runs
    <3> QED
      BY <1>0, <1>7, <2>1, <2>4, <3>1, <3>2 DEF OnePump, FlowInv
  <2> QED
    BY <2>3, <2>4
<1>9. ASSUME NEW r \in Runs
      PROVE  /\ \/ runs'[r].feed = <<>>
                \/ runs'[r].feed = runs[r].feed /\ (runs[r].state = "over" => runs'[r].state = "over")
             /\ r # o.app.pipe /\ runs[r].state \in {"unused", "over"} =>
                  runs'[r].state \in {"unused", "over"}
             /\ r = app.pipe /\ ~o.start /\ runs[r].state = "over" => runs'[r].state = "over"
             /\ runs'[r].mode = "launch" => runs'[r].agreed
  <2>1. runs[r] \in RunState
    BY <1>t DEF AppTypeOK
  <2>2. CASE runs'[r] = NoRun /\ r # o.app.pipe
    <3>1. r = app.pipe => o.start
      BY <2>2 DEF Fits
    <3> QED
      BY <2>2, <3>1, NoRunIs, AppAssumption
  <2>3. CASE o.start /\ r = o.app.pipe /\ runs'[r] = FreshRun(o)
    BY <1>t, <2>3, FreshRunIs DEF Fits
  <2>4. CASE ~o.start /\ o.resume # Nil /\ r = app.pipe
               /\ runs'[r] = Resume(runs[r], o.resume, o.answer)
    <3>1. o.resume \in Questions /\ o.answer \in Answers
      BY <1>t, <2>4 DEF OutcomeOK
    <3>2. /\ runs'[r].feed = runs[r].feed /\ runs'[r].mode = runs[r].mode
          /\ runs'[r].agreed = runs[r].agreed
          /\ runs[r].state # "asking" => runs'[r] = runs[r]
      BY <2>1, <2>4, <3>1, ResumeIs
    <3>3. o.app.pipe = app.pipe
      BY <2>4 DEF Fits
    <3> QED
      BY <2>4, <3>2, <3>3 DEF FlowInv, LaunchIsAgreed
  <2>5. CASE runs'[r] = runs[r]
    BY <2>5 DEF FlowInv, LaunchIsAgreed
  <2> QED
    BY <1>0, <1>r, <2>2, <2>3, <2>4, <2>5
<1>10. LaunchIsAgreed'
  BY <1>9 DEF LaunchIsAgreed
<1>11. EndIsOver'
  <2>1. \A r \in Runs : \A i \in DOMAIN runs'[r].feed :
          runs'[r].feed[i].type = "done" => runs'[r].state = "over"
    BY <1>9 DEF FlowInv, EndIsOver
  <2>2. ASSUME NEW m \in msgs', m.type = "done" PROVE runs'[app'.pipe].state = "over"
    <3>1. m \in PipelineIn(msgs) /\ runs[app.pipe].state = "over"
      BY <1>0, <1>t, <2>2, MsgKinds DEF AppTypeOK, PipelineIn, FlowInv, EndIsOver
    <3>2. app.pipe \in Runs
      BY <1>t, <3>1, AppAssumption DEF FlowInv, OnePump, AppTypeOK, AppState, Runs
    <3>3. ~o.start /\ o.app.pipe = app.pipe
      BY <3>2, AppAssumption DEF Fits, Runs
    <3> QED
      BY <1>0, <1>9, <3>1, <3>2, <3>3
  <2> QED
    BY <2>1, <2>2 DEF EndIsOver
<1>12. OneOn'
  <2>1. app'.busy <=> app'.pipe # 0 \/ JobsOn'
    BY <1>0, <1>4 DEF Fits
  <2>2. JobsOn' => app'.pipe = 0
    BY <1>0, <1>4 DEF Fits
  <2>3. /\ \A j, k \in jobs' : j = k
        /\ \A m, n \in JobsDone' : m = n
        /\ jobs' # {} => JobsDone' = {}
    <3>1. JobsDoneIn(rest) \subseteq JobsDone
      BY DEF JobsDone, JobsDoneIn
    <3> QED
      BY <1>0, <1>3, <3>1 DEF Fits, FlowInv, OneOn, JobLeft
  <2>4. Live' \subseteq {app'.pipe}
    <3> SUFFICES ASSUME NEW r \in Runs, r # o.app.pipe
                 PROVE  runs'[r].state \notin {"working", "asking"}
      BY <1>0 DEF Live
    <3>1. r # app.pipe
      BY AppAssumption DEF Fits, Runs
    <3>2. runs[r].state \notin {"working", "asking"} /\ runs[r] \in RunState
      BY <1>t, <3>1 DEF FlowInv, OneOn, Live, AppTypeOK
    <3>3. runs[r].state \in {"unused", "over"}
      BY <3>2 DEF RunState
    <3> QED
      BY <1>9, <3>3
  <2> QED
    BY <2>1, <2>2, <2>3, <2>4 DEF OneOn
<1> QED
  BY <1>1, <1>2, <1>5, <1>6, <1>8, <1>10, <1>11, <1>12 DEF FlowInv

\* The app's pipeline has sent an event, and its pump waits no more.
LEMMA EventFinds ==
  ASSUME FlowInv, NEW m \in msgs, m.type \in {"waiting", "done"}
  PROVE  /\ app.pipe \in Runs /\ runs[app.pipe] \in RunState /\ runs[app.pipe].pumps = 0
         /\ PipelineIn(msgs \ {m}) = {}
         /\ app.busy /\ ~JobsOn /\ app.awaiting \cap {"gate", "tune"} = {}
         /\ AppOK(app) /\ runs \in [Runs -> RunState] /\ review \in BOOLEAN
<1>1. m \in PipelineIn(msgs)
  BY MsgKinds DEF FlowInv, AppTypeOK, PipelineIn
<1>2. app.pipe # 0 /\ runs[app.pipe].pumps = 0 /\ \A n \in PipelineIn(msgs) : n = m
  BY <1>1 DEF FlowInv, OnePump
<1>3. app.pipe \in Runs /\ AppOK(app) /\ runs \in [Runs -> RunState] /\ review \in BOOLEAN
  BY <1>2, AppAssumption DEF FlowInv, AppTypeOK, AppState, AppOK, Runs
<1>4. app.busy /\ ~JobsOn
  BY <1>2 DEF FlowInv, OneOn
<1>5. app.awaiting \cap {"gate", "tune"} = {}
  BY <1>4 DEF FlowInv, Flow
<1> QED
  BY <1>2, <1>3, <1>4, <1>5 DEF PipelineIn

LEMMA WaitingIs ==
  ASSUME FlowInv, NEW q \in Questions, NEW o \in HandleWaiting(app, q)
  PROVE  \E p \in CommandMsgs :
           /\ p.type \in {"push", "exec"}
           /\ p = IF q \in InTerminal THEN [type |-> "exec", step |-> q]
                  ELSE [type |-> "push", screen |-> ScreenFor(q)]
           /\ o.post = {p} /\ o.app = [app EXCEPT !.waiting = q]
           /\ o.job = Nil /\ ~o.start /\ o.review = review /\ o.resume = Nil /\ o.pump /\ ~o.quit
<1> DEFINE p == IF q \in InTerminal THEN [type |-> "exec", step |-> q]
                ELSE [type |-> "push", screen |-> ScreenFor(q)]
<1>1. o = [Out([app EXCEPT !.waiting = q]) EXCEPT !.pump = TRUE, !.post = {p}]
  BY DEF HandleWaiting
<1>2. p \in CommandMsgs /\ p.type \in {"push", "exec"}
  BY DEF CommandMsgs, ScreenFor
<1> HIDE DEF p
<1>3. /\ o.post = {p} /\ o.app = [app EXCEPT !.waiting = q] /\ o.job = Nil
      /\ o.start = FALSE /\ o.review = review /\ o.resume = Nil /\ o.pump = TRUE
      /\ o.quit = FALSE
  BY <1>1 DEF Out
<1> QED
  BY <1>2, <1>3 DEF p

LEMMA WaitingFlow ==
  ASSUME FlowInv, NEW m \in msgs, m.type = "waiting",
         NEW o \in HandleWaiting(app, m.step), Update(o, msgs \ {m})
  PROVE  FlowInv'
<1>0. /\ app.pipe \in Runs /\ runs[app.pipe] \in RunState /\ runs[app.pipe].pumps = 0
      /\ PipelineIn(msgs \ {m}) = {} /\ app.busy /\ ~JobsOn
      /\ app.awaiting \cap {"gate", "tune"} = {}
      /\ AppOK(app) /\ runs \in [Runs -> RunState] /\ review \in BOOLEAN
  BY EventFinds
<1>q. m.step \in Questions
  BY MsgKinds DEF FlowInv, AppTypeOK
<1>p. PICK p \in CommandMsgs :
        /\ p.type \in {"push", "exec"}
        /\ o.post = {p} /\ o.app = [app EXCEPT !.waiting = m.step]
        /\ o.job = Nil /\ ~o.start /\ o.review = review /\ o.resume = Nil /\ o.pump /\ ~o.quit
  BY <1>q, WaitingIs
<1>a. /\ AppOK(o.app) /\ o.app.stack = app.stack /\ o.app.awaiting = app.awaiting
      /\ o.app.busy = app.busy /\ o.app.pipe = app.pipe
  BY <1>0, <1>p, <1>q DEF AppOK, AppState
<1>1. /\ app' = o.app /\ review' = review /\ msgs' = (msgs \ {m}) \cup {p}
      /\ runs' = RunsAfter(o) /\ jobs' = jobs /\ terminal' = terminal
  BY <1>p DEF Update
<1>r. ASSUME NEW r \in Runs
      PROVE  \/ r # app.pipe /\ runs'[r] = NoRun
             \/ r # app.pipe /\ runs'[r] = runs[r]
             \/ r = app.pipe /\ runs'[r] = [runs[r] EXCEPT !.pumps = 1]
  <2>1. Started(o) = [runs EXCEPT ![app.pipe].pumps = 1]
    <3>1. Started(o) = [runs EXCEPT ![app.pipe].pumps = @ + 1]
      BY <1>p DEF Started, Pumped, Told
    <3>2. runs[app.pipe].pumps + 1 = 1
      BY <1>0
    <3> QED
      BY <3>1, <3>2
  <2> QED
    BY <1>0, <1>1, <1>a, <2>1 DEF RunsAfter
<1>s. /\ \A r \in Runs : runs'[r] \in RunState
      /\ runs' = [r \in Runs |-> runs'[r]]
  <2>1. [runs[app.pipe] EXCEPT !.pumps = 1] \in RunState
    BY <1>0 DEF RunState
  <2> QED
    BY <1>0, <1>1, <1>r, <2>1, NoRunIs DEF RunsAfter
<1>f. ASSUME NEW r \in Runs
      PROVE  /\ runs'[r].pumps = IF r = app.pipe THEN 1 ELSE 0
             /\ \/ runs'[r] = NoRun /\ r # app.pipe
                \/ /\ runs'[r].feed = runs[r].feed /\ runs'[r].state = runs[r].state
                   /\ runs'[r].mode = runs[r].mode /\ runs'[r].agreed = runs[r].agreed
  <2>1. r # app.pipe => runs[r].pumps = 0
    BY DEF FlowInv, OnePump
  <2>2. runs[r] \in RunState
    BY <1>0
  <2> QED
    BY <1>r, <2>1, <2>2, NoRunIs DEF RunState
<1>m. /\ p \in Msgs /\ p \notin KeyMsgs /\ p \notin PipelineMsgs
  BY <1>p, MsgKinds DEF Msgs
<1>2. AppTypeOK'
  <2>1. overtaken' \in 0 .. MaxOvertakes
    BY AppAssumption DEF Update, AppTypeOK, FlowInv
  <2>2. msgs' \subseteq Msgs
    BY <1>1, <1>m DEF AppTypeOK, FlowInv
  <2>3. runs' \in [Runs -> RunState]
    BY <1>s
  <2> QED
    BY <1>0, <1>1, <1>a, <2>1, <2>2, <2>3 DEF AppTypeOK, FlowInv, AppOK
<1>3. OneKey' /\ Chosen'
  BY <1>1, <1>m, <1>p DEF FlowInv, OneKey, Chosen
<1>4. JobsDone' = JobsDone
  BY <1>1, <1>p DEF JobsDone
<1>5. NoFlowDuringJob' /\ Flow'
  BY <1>0, <1>1, <1>4, <1>a DEF NoFlowDuringJob, Flow, JobsOn
<1>6. OneOn'
  <2>1. Live' \subseteq {app'.pipe}
    BY <1>1, <1>a, <1>f, NoRunIs DEF Live, FlowInv, OneOn
  <2> QED
    BY <1>0, <1>1, <1>4, <1>a, <2>1 DEF FlowInv, OneOn, JobsOn
<1>7. OnePump'
  <2>1. PipelineIn(msgs)' = {}
    BY <1>0, <1>1, <1>m DEF PipelineIn
  <2> QED
    <3>1. app'.pipe = app.pipe /\ app.pipe # 0
      BY <1>0, <1>1, <1>a, AppAssumption DEF Runs
    <3>2. runs'[app.pipe].pumps = 1 /\ \A r \in Runs : r # app.pipe => runs'[r].pumps = 0
      BY <1>0, <1>f
    <3> QED
      BY <2>1, <3>1, <3>2 DEF OnePump
<1>8. EndIsOver'
  <2>1. \A n \in msgs' : n.type # "done"
    BY <1>0, <1>1, <1>p, MsgKinds DEF PipelineIn, FlowInv, AppTypeOK
  <2>2. \A r \in Runs : \A i \in DOMAIN runs'[r].feed :
          runs'[r].feed[i].type = "done" => runs'[r].state = "over"
    BY <1>f, NoRunIs DEF FlowInv, EndIsOver
  <2> QED
    BY <2>1, <2>2 DEF EndIsOver
<1>9. LaunchIsAgreed'
  BY <1>f, NoRunIs, AppAssumption DEF FlowInv, LaunchIsAgreed
<1> QED
  BY <1>2, <1>3, <1>5, <1>6, <1>7, <1>8, <1>9 DEF FlowInv

LEMMA DoneFlow ==
  ASSUME FlowInv, NEW m \in msgs, m.type = "done",
         NEW o \in HandlePipelineDone(app), Update(o, msgs \ {m})
  PROVE  FlowInv'
<1>0. /\ app.pipe \in Runs /\ runs[app.pipe] \in RunState /\ runs[app.pipe].pumps = 0
      /\ PipelineIn(msgs \ {m}) = {} /\ app.busy /\ ~JobsOn
      /\ app.awaiting \cap {"gate", "tune"} = {}
      /\ AppOK(app) /\ runs \in [Runs -> RunState] /\ review \in BOOLEAN
  BY EventFinds
<1> DEFINE b == [app EXCEPT !.pipe = 0, !.busy = FALSE, !.launchCancelled = FALSE]
<1>b. AppOK(b) /\ b.awaiting = app.awaiting /\ b.busy = FALSE /\ b.pipe = 0
  <2>1. 0 \in 0 .. Slots
    BY AppAssumption
  <2> QED
    BY <1>0, <2>1 DEF AppOK, AppState
<1>o. o = Out(BackToMenu(b))
  BY <1>0, AppAssumption DEF HandlePipelineDone, Runs
<1> HIDE DEF b
<1>a. /\ AppOK(o.app) /\ o.app.stack = <<"menu">> /\ o.app.awaiting = app.awaiting
      /\ o.app.busy = FALSE /\ o.app.pipe = 0 /\ Quiet(o)
  BY <1>b, <1>o, BackToMenuFields, OutFields
<1>1. /\ app' = o.app /\ review' = review /\ msgs' = msgs \ {m}
      /\ runs' = RunsAfter(o) /\ jobs' = jobs /\ terminal' = terminal
  BY <1>a DEF Update, Quiet
<1>r. /\ runs' \in [Runs -> RunState]
      /\ \A r \in Runs : runs'[r] = NoRun \/ runs'[r] = runs[r]
  <2>1. Started(o) = runs
    BY <1>a DEF Started, Pumped, Told, Quiet
  <2> QED
    BY <1>0, <1>1, <2>1, NoRunIs DEF RunsAfter
<1>2. AppTypeOK'
  <2>1. overtaken' \in 0 .. MaxOvertakes
    BY AppAssumption DEF Update, AppTypeOK, FlowInv
  <2> QED
    BY <1>0, <1>1, <1>a, <1>r, <2>1 DEF AppTypeOK, FlowInv, AppOK
<1>3. OneKey' /\ Chosen'
  BY <1>1 DEF FlowInv, OneKey, Chosen
<1>4. JobsDone' \subseteq JobsDone
  BY <1>1 DEF JobsDone
<1>5. NoFlowDuringJob' /\ Flow'
  BY <1>0, <1>1, <1>4, <1>a DEF NoFlowDuringJob, Flow, JobsOn
<1>6. OneOn'
  <2>1. runs[app.pipe].state = "over"
    BY DEF FlowInv, EndIsOver
  <2>2. Live' = {}
    BY <1>1, <1>r, <2>1, NoRunIs DEF Live, FlowInv, OneOn
  <2> QED
    BY <1>0, <1>1, <1>4, <1>a, <2>2 DEF FlowInv, OneOn, JobsOn
<1>7. OnePump'
  <2>1. PipelineIn(msgs)' = {}
    BY <1>0, <1>1 DEF PipelineIn
  <2>2. \A r \in Runs : runs'[r].pumps = 0
    BY <1>0, <1>r, NoRunIs DEF FlowInv, OnePump
  <2> QED
    BY <1>1, <1>a, <2>1, <2>2 DEF OnePump
<1>8. EndIsOver'
  <2>1. \A n \in msgs' : n.type # "done"
    BY <1>0, <1>1, MsgKinds DEF PipelineIn, FlowInv, AppTypeOK
  <2>2. \A r \in Runs : \A i \in DOMAIN runs'[r].feed :
          runs'[r].feed[i].type = "done" => runs'[r].state = "over"
    BY <1>r, NoRunIs DEF FlowInv, EndIsOver
  <2> QED
    BY <2>1, <2>2 DEF EndIsOver
<1>9. LaunchIsAgreed'
  BY <1>r, NoRunIs, AppAssumption DEF FlowInv, LaunchIsAgreed
<1> QED
  BY <1>2, <1>3, <1>5, <1>6, <1>7, <1>8, <1>9 DEF FlowInv

LEMMA QuitFlow == QuitProgram => FlowInv'
<1> SUFFICES ASSUME QuitProgram PROVE FlowInv'
  OBVIOUS
<1>0. /\ app' = Blank /\ review' = FALSE /\ msgs' = {} /\ jobs' = {} /\ terminal' = Nil
      /\ runs' = [r \in Runs |-> NoRun] /\ overtaken' = 0
  BY DEF QuitProgram
<1>1. AppOK(Blank) /\ Blank.awaiting = {} /\ Blank.busy = FALSE /\ Blank.pipe = 0
  BY AppAssumption DEF AppOK, AppState, Blank, Screens
<1>2. AppTypeOK'
  <2>1. app' \in AppState /\ app'.stack # <<>> /\ app'.stack[1] = "menu"
    BY <1>0, <1>1 DEF AppOK
  <2>2. runs' \in [Runs -> RunState]
    BY <1>0, NoRunIs
  <2>3. overtaken' \in 0 .. MaxOvertakes
    BY <1>0, AppAssumption
  <2> QED
    BY <1>0, <2>1, <2>2, <2>3 DEF AppTypeOK
<1>3. OneKey' /\ NoFlowDuringJob' /\ Flow' /\ Chosen' /\ EndIsOver' /\ LaunchIsAgreed'
  BY <1>0, <1>1, NoRunIs, AppAssumption DEF OneKey, NoFlowDuringJob, Flow, Chosen, EndIsOver,
     LaunchIsAgreed, JobsOn, JobsDone
<1>4. OnePump' /\ OneOn'
  BY <1>0, <1>1, NoRunIs DEF OnePump, OneOn, PipelineIn, JobsOn, JobsDone, Live
<1> QED
  BY <1>2, <1>3, <1>4 DEF FlowInv

LEMMA DeliverFits ==
  ASSUME FlowInv, NEW m \in msgs, m.type \notin {"waiting", "done", "exec"},
         NEW o \in Handle(m), ~o.quit
  PROVE  Fits(o, msgs \ {m})
<1> DEFINE rest == msgs \ {m}
<1>1. m \in Msgs /\ m.type \in MsgTypes
  BY MsgKinds DEF FlowInv, AppTypeOK
<1>2. rest \subseteq msgs /\ (m \in KeyMsgs => KeysIn(rest) = {})
  BY DEF FlowInv, OneKey, KeysIn
<1>3. m.type # "jobdone" => JobsDoneIn(rest) = JobsDone
  BY DEF JobsDoneIn, JobsDone
<1> HIDE DEF rest
<1>4. CASE m.type = "menu"
  <2>1. m.action \in Actions /\ MenusIn(msgs) # {} /\ KeysIn(rest) = {}
    BY <1>1, <1>2, <1>4, MsgKinds DEF MenusIn
  <2>2. o \in HandleMenuChosen(app, m.action)
    BY <1>4 DEF Handle
  <2> QED
    BY <1>2, <1>3, <1>4, <2>1, <2>2, MenuChosenFits DEF rest
<1>5. CASE m.type = "result"
  <2>1. KeysIn(rest) = {} /\ o \in HandleScreenResult(app, m)
    BY <1>1, <1>2, <1>5, MsgKinds DEF Handle
  <2> QED
    BY <1>2, <1>3, <1>5, <2>1, ScreenResultFits DEF rest
<1>6. CASE m.type = "pop"
  <2>1. KeysIn(rest) = {} /\ o \in HandleScreenPop(app)
    BY <1>1, <1>2, <1>6, MsgKinds DEF Handle
  <2> QED
    BY <1>2, <1>3, <1>6, <2>1, ScreenPopFits DEF rest
<1>7. CASE m.type = "push"
  <2>1. m.screen \in {"form", "ghauth"} /\ o = Out(Push(app, m.screen))
    BY <1>1, <1>7, MsgKinds DEF Handle
  <2> QED
    BY <1>2, <1>3, <1>7, <2>1, PushFits DEF rest
<1>8. CASE m.type = "execdone"
  <2>1. m.step \in InTerminal /\ o \in HandleExecDone(app, m.step)
    BY <1>1, <1>8, MsgKinds DEF Handle
  <2> QED
    BY <1>2, <1>3, <1>8, <2>1, ExecDoneFits DEF rest
<1>9. CASE m.type = "jobdone"
  <2>1. o \in HandleJobDone(app, m.job)
    BY <1>9 DEF Handle
  <2> QED
    BY <1>9, <2>1, JobDoneFits
<1> QED
  BY <1>1, <1>4, <1>5, <1>6, <1>7, <1>8, <1>9 DEF MsgTypes

LEMMA DeliverFlow == ASSUME FlowInv, NEW m \in msgs, Deliver(m) PROVE FlowInv'
<1>0. PICK o \in Handle(m) : Apply(o, msgs \ {m})
  BY DEF Deliver
<1>1. m \in Msgs /\ m.type # "exec"
  BY DEF Deliver, FlowInv, AppTypeOK
<1>2. CASE o.quit
  BY <1>0, <1>2, QuitFlow DEF Apply
<1>3. CASE m.type \in {"waiting", "done"} /\ ~o.quit
  BY <1>0, <1>3, WaitingFlow, DoneFlow DEF Apply, Handle
<1>4. CASE m.type \notin {"waiting", "done"} /\ ~o.quit
  <2>1. PipelineIn(msgs \ {m}) = PipelineIn(msgs)
    BY <1>1, <1>4, MsgKinds DEF PipelineIn
  <2>2. Update(o, msgs \ {m}) /\ Fits(o, msgs \ {m})
    BY <1>0, <1>1, <1>4, DeliverFits DEF Apply
  <2> QED
    BY <2>1, <2>2, UpdateFlow
<1> QED
  BY <1>2, <1>3, <1>4

LEMMA EscFlow == ASSUME FlowInv, Esc PROVE FlowInv'
<1>1. PICK o \in HandleScreenPop(app) : Apply(o, msgs)
  BY DEF Esc
<1>2. CASE o.quit
  BY <1>1, <1>2, QuitFlow DEF Apply
<1>3. CASE ~o.quit
  <2>1. KeysIn(msgs) = {} /\ JobsDoneIn(msgs) = JobsDone
    BY DEF Esc, Unhurried, KeysIn, JobsDoneIn, JobsDone
  <2>2. Fits(o, msgs)
    BY <1>1, <2>1, ScreenPopFits
  <2> QED
    BY <1>1, <1>3, <2>2, UpdateFlow DEF Apply
<1> QED
  BY <1>2, <1>3

\* A key that posts a message.
LEMMA TypeFlow ==
  ASSUME FlowInv, NEW m \in KeyMsgs, Type(m),
         m.type = "menu" => Depth(app) = 1,
         m.type = "result" => /\ Depth(app) > 1 /\ m.from = Top(app)
                              /\ m.value \in Choices(m.from)
  PROVE  FlowInv'
<1>0. /\ msgs' = msgs \cup {m} /\ KeysIn(msgs) = {}
      /\ UNCHANGED <<app, review, jobs, terminal, runs, overtaken>>
  BY DEF Type, Unhurried, KeysIn
<1>m. m \in Msgs /\ m.type \in {"menu", "result", "pop"} /\ m \notin PipelineMsgs
  BY MsgKinds DEF Msgs
<1>1. AppTypeOK'
  BY <1>0, <1>m DEF FlowInv, AppTypeOK
<1>2. OneKey' /\ Chosen'
  BY <1>0, <1>m DEF FlowInv, OneKey, Chosen, KeysIn
<1>3. JobsDone' = JobsDone /\ PipelineIn(msgs)' = PipelineIn(msgs)
  BY <1>0, <1>m DEF JobsDone, PipelineIn
<1>4. NoFlowDuringJob'
  <2>1. CASE JobsOn /\ m.type = "result"
    <3>1. Top(app) \notin Overlays
      BY <2>1 DEF FlowInv, NoFlowDuringJob, OverlayShown, Top, Depth, AppTypeOK, AppState
    <3> QED
      BY <1>0, <1>3, <2>1, <3>1 DEF FlowInv, NoFlowDuringJob, FromOverlay, OverlayShown, JobsOn
  <2>2. CASE m.type # "result"
    BY <1>0, <1>3, <2>2 DEF FlowInv, NoFlowDuringJob, FromOverlay, OverlayShown, JobsOn
  <2>3. CASE ~JobsOn
    BY <1>0, <1>3, <2>3 DEF NoFlowDuringJob, JobsOn
  <2> QED
    BY <2>1, <2>2, <2>3
<1>5. Flow'
  <2>1. m.type = "menu" => app.awaiting \cap {"gate", "tune"} = {}
    BY DEF FlowInv, Flow
  <2> QED
    BY <1>0, <2>1 DEF FlowInv, Flow, MenusIn, Depth
<1>6. OnePump' /\ EndIsOver' /\ LaunchIsAgreed'
  BY <1>0, <1>3, <1>m DEF FlowInv, OnePump, EndIsOver, LaunchIsAgreed
<1>7. OneOn'
  BY <1>0, <1>3 DEF FlowInv, OneOn, JobsOn, Live
<1> QED
  BY <1>1, <1>2, <1>4, <1>5, <1>6, <1>7 DEF FlowInv

LEMMA KeysFlow == ASSUME FlowInv, Keys PROVE FlowInv'
<1>1. ASSUME NEW action \in Actions, ChooseAction(action) PROVE FlowInv'
  <2> DEFINE m == [type |-> "menu", action |-> action]
  <2>1. m \in KeyMsgs /\ m.type = "menu"
    BY DEF KeyMsgs
  <2>2. Type(m) /\ Depth(app) = 1
    BY <1>1 DEF ChooseAction
  <2> HIDE DEF m
  <2> QED
    BY <2>1, <2>2, TypeFlow
<1>2. ASSUME NEW value \in Values, Enter(value) PROVE FlowInv'
  <2> DEFINE m == [type |-> "result", from |-> Top(app), value |-> value]
  <2>1. Top(app) \in Overlays \cup {"form"}
    BY <1>2 DEF Enter, Choices, Overlays
  <2>2. /\ m \in KeyMsgs /\ m.type = "result" /\ m.from = Top(app) /\ m.value = value
    BY <2>1 DEF KeyMsgs
  <2>3. Type(m) /\ Depth(app) > 1 /\ value \in Choices(Top(app))
    BY <1>2 DEF Enter
  <2> HIDE DEF m
  <2> QED
    BY <2>2, <2>3, TypeFlow
<1>3. ASSUME AbortForm PROVE FlowInv'
  <2> DEFINE m == [type |-> "pop"]
  <2>1. m \in KeyMsgs /\ m.type = "pop" /\ Type(m)
    BY <1>3 DEF KeyMsgs, AbortForm
  <2> HIDE DEF m
  <2> QED
    BY <2>1, TypeFlow
<1> QED
  BY <1>1, <1>2, <1>3, EscFlow, QuitFlow DEF Keys, QuitKey

\* A program takes the terminal or leaves it, or an external job ends.
LEMMA ProgramFlow ==
  ASSUME FlowInv, (\E m \in msgs : TakeTerminal(m)) \/ ProgramEnds
  PROVE  FlowInv'
<1>1. PICK gone \in SUBSET {m \in msgs : m.type = "exec"}, new \in SUBSET {m \in Msgs : m.type = "execdone"} :
        /\ msgs' = (msgs \ gone) \cup new
        /\ terminal' \in InTerminal \cup {Nil}
        /\ UNCHANGED <<app, review, jobs, runs, overtaken>>
  <2>1. ASSUME NEW m \in msgs, TakeTerminal(m)
        PROVE  /\ m.type = "exec" /\ m.step \in InTerminal /\ msgs' = (msgs \ {m}) \cup {}
               /\ terminal' = m.step /\ UNCHANGED <<app, review, jobs, runs, overtaken>>
    BY <2>1, MsgKinds DEF TakeTerminal, FlowInv, AppTypeOK
  <2>2. ASSUME ProgramEnds
        PROVE  /\ [type |-> "execdone", step |-> terminal] \in {m \in Msgs : m.type = "execdone"}
               /\ msgs' = (msgs \ {}) \cup {[type |-> "execdone", step |-> terminal]}
               /\ terminal' = Nil /\ UNCHANGED <<app, review, jobs, runs, overtaken>>
    BY <2>2 DEF ProgramEnds, FlowInv, AppTypeOK, Msgs, CommandMsgs
  <2>3. ASSUME NEW m \in msgs, TakeTerminal(m)
        PROVE  \E gone \in SUBSET {n \in msgs : n.type = "exec"},
                  new \in SUBSET {n \in Msgs : n.type = "execdone"} :
                 /\ msgs' = (msgs \ gone) \cup new
                 /\ terminal' \in InTerminal \cup {Nil}
                 /\ UNCHANGED <<app, review, jobs, runs, overtaken>>
    <3>1. /\ {m} \in SUBSET {n \in msgs : n.type = "exec"}
          /\ {} \in SUBSET {n \in Msgs : n.type = "execdone"}
      BY <2>1, <2>3
    <3> QED
      BY <2>1, <2>3, <3>1
  <2>4. CASE ProgramEnds
    BY <2>2, <2>4
  <2> QED
    BY <2>3, <2>4
<1>2. \A m \in new : m \notin KeyMsgs /\ m \notin PipelineMsgs /\ m \in Msgs
  BY MsgKinds
<1>3. \A m \in gone : m \notin PipelineMsgs
  BY MsgKinds DEF FlowInv, AppTypeOK
<1>4. AppTypeOK'
  BY <1>1, <1>2 DEF FlowInv, AppTypeOK
<1>5. OneKey' /\ Chosen'
  BY <1>1, <1>2 DEF FlowInv, OneKey, Chosen
<1>6. JobsDone' = JobsDone /\ PipelineIn(msgs)' = PipelineIn(msgs)
  BY <1>1, <1>2, <1>3 DEF JobsDone, PipelineIn
<1>7. NoFlowDuringJob' /\ Flow'
  BY <1>1, <1>2, <1>6 DEF FlowInv, NoFlowDuringJob, Flow, JobsOn, OverlayShown, FromOverlay,
     MenusIn, Depth
<1>8. OnePump' /\ EndIsOver' /\ LaunchIsAgreed'
  BY <1>1, <1>2, <1>6 DEF FlowInv, OnePump, EndIsOver, LaunchIsAgreed
<1>9. OneOn'
  BY <1>1, <1>6 DEF FlowInv, OneOn, JobsOn, Live
<1> QED
  BY <1>4, <1>5, <1>7, <1>8, <1>9 DEF FlowInv

LEMMA JobFlow == ASSUME FlowInv, NEW job \in Jobs, JobEnds(job) PROVE FlowInv'
<1> DEFINE m == [type |-> "jobdone", job |-> job]
<1>0. /\ msgs' = msgs \cup {m} /\ job \in jobs /\ jobs' = jobs \ {job}
      /\ UNCHANGED <<app, review, terminal, runs, overtaken>>
  BY DEF JobEnds
<1>m. m \in Msgs /\ m.type = "jobdone"
  BY DEF Msgs, CommandMsgs
<1> HIDE DEF m
<1>n. m \notin KeyMsgs /\ m \notin PipelineMsgs
  BY <1>m, MsgKinds
<1>1. jobs' = {} /\ JobsDone = {} /\ app.pipe = 0 /\ app.busy
  BY <1>0 DEF FlowInv, OneOn, JobsOn
<1>2. JobsDone' = {m}
  BY <1>0, <1>1, <1>m DEF JobsDone
<1>3. PipelineIn(msgs)' = PipelineIn(msgs)
  BY <1>0, <1>n DEF PipelineIn
<1>4. AppTypeOK'
  BY <1>0, <1>m DEF FlowInv, AppTypeOK
<1>5. OneKey' /\ Chosen'
  BY <1>0, <1>m, <1>n DEF FlowInv, OneKey, Chosen
<1>6. NoFlowDuringJob' /\ Flow'
  BY <1>0, <1>m DEF FlowInv, NoFlowDuringJob, Flow, JobsOn, OverlayShown, FromOverlay,
     MenusIn, Depth
<1>7. OnePump' /\ EndIsOver' /\ LaunchIsAgreed'
  BY <1>0, <1>3, <1>m DEF FlowInv, OnePump, EndIsOver, LaunchIsAgreed
<1>8. OneOn'
  BY <1>0, <1>1, <1>2 DEF FlowInv, OneOn, JobsOn, Live
<1> QED
  BY <1>4, <1>5, <1>6, <1>7, <1>8 DEF FlowInv

\* A pipeline that works or asks is the app's.
EngineStep(r) == (\E q \in Questions : Ask(r, q)) \/ SignedIn(r) \/ End(r)

\* What a step of the pipeline itself does.
LEMMA EngineIs ==
  ASSUME FlowInv, NEW r \in Runs, EngineStep(r)
  PROVE  /\ r = app.pipe /\ runs[r].state \in {"working", "asking"}
         /\ UNCHANGED <<app, review, msgs, jobs, terminal, overtaken>>
         /\ \E new \in RunState :
              /\ runs' = [runs EXCEPT ![r] = new]
              /\ new.mode = runs[r].mode /\ new.agreed = runs[r].agreed
              /\ new.pumps = runs[r].pumps
              /\ \/ new.feed = runs[r].feed
                 \/ \E e \in PipelineMsgs :
                      /\ new.feed = Append(runs[r].feed, e)
                      /\ e.type = "done" => new.state = "over"
<1>0. runs \in [Runs -> RunState]
  BY DEF FlowInv, AppTypeOK
<1>1. ASSUME NEW q \in Questions, Ask(r, q)
      PROVE  \E new \in RunState :
               /\ runs' = [runs EXCEPT ![r] = new]
               /\ new.mode = runs[r].mode /\ new.agreed = runs[r].agreed
               /\ new.pumps = runs[r].pumps
               /\ \E e \in PipelineMsgs :
                    /\ new.feed = Append(runs[r].feed, e)
                    /\ e.type = "done" => new.state = "over"
  <2> DEFINE e == [type |-> "waiting", step |-> q]
             f == Append(runs[r].feed, e)
             new == [runs[r] EXCEPT !.state = "asking", !.q = q, !.answer = "none", !.feed = f]
  <2>1. e \in PipelineMsgs /\ e.type = "waiting"
    BY DEF PipelineMsgs
  <2>2. f \in Seq(PipelineMsgs)
    BY <1>0, <2>1 DEF RunState
  <2>3. runs' = [runs EXCEPT ![r] = new]
    BY <1>0, <1>1 DEF Ask
  <2> HIDE DEF f
  <2>4. /\ new \in RunState /\ new.mode = runs[r].mode /\ new.agreed = runs[r].agreed
        /\ new.pumps = runs[r].pumps /\ new.feed = f
    BY <1>0, <2>2 DEF RunState, Answers
  <2> HIDE DEF new, e
  <2> QED
    BY <2>1, <2>3, <2>4 DEF f
<1>2. ASSUME SignedIn(r)
      PROVE  \E new \in RunState :
               /\ runs' = [runs EXCEPT ![r] = new]
               /\ new.mode = runs[r].mode /\ new.agreed = runs[r].agreed
               /\ new.pumps = runs[r].pumps /\ new.feed = runs[r].feed
  <2> DEFINE new == [runs[r] EXCEPT !.state = "working"]
  <2>1. runs' = [runs EXCEPT ![r] = new]
    BY <1>0, <1>2 DEF SignedIn
  <2>2. /\ new \in RunState /\ new.mode = runs[r].mode /\ new.agreed = runs[r].agreed
        /\ new.pumps = runs[r].pumps /\ new.feed = runs[r].feed
    BY <1>0 DEF RunState
  <2> HIDE DEF new
  <2> QED
    BY <2>1, <2>2
<1>3. ASSUME End(r)
      PROVE  \E new \in RunState :
               /\ runs' = [runs EXCEPT ![r] = new]
               /\ new.mode = runs[r].mode /\ new.agreed = runs[r].agreed
               /\ new.pumps = runs[r].pumps
               /\ \E e \in PipelineMsgs :
                    /\ new.feed = Append(runs[r].feed, e)
                    /\ e.type = "done" => new.state = "over"
  <2>0. PICK failed \in BOOLEAN :
          runs' = [runs EXCEPT ![r].state = "over",
                               ![r].feed = Append(@, [type |-> "done", failed |-> failed])]
    BY <1>3 DEF End
  <2> DEFINE e == [type |-> "done", failed |-> failed]
             f == Append(runs[r].feed, e)
             new == [runs[r] EXCEPT !.state = "over", !.feed = f]
  <2>1. e \in PipelineMsgs
    BY DEF PipelineMsgs
  <2>2. f \in Seq(PipelineMsgs)
    BY <1>0, <2>1 DEF RunState
  <2>3. runs' = [runs EXCEPT ![r] = new]
    BY <1>0, <2>0
  <2> HIDE DEF f
  <2>4. /\ new \in RunState /\ new.mode = runs[r].mode /\ new.agreed = runs[r].agreed
        /\ new.pumps = runs[r].pumps /\ new.feed = f /\ new.state = "over"
    BY <1>0, <2>2 DEF RunState
  <2> HIDE DEF new, e
  <2> QED
    BY <2>1, <2>3, <2>4 DEF f
<1>4. runs[r].state \in {"working", "asking"}
  BY DEF EngineStep, Ask, SignedIn, End
<1>5. r = app.pipe
  BY <1>4 DEF FlowInv, OneOn, Live
<1>6. UNCHANGED <<app, review, msgs, jobs, terminal, overtaken>>
  BY DEF EngineStep, Ask, SignedIn, End
<1> QED
  BY <1>1, <1>2, <1>3, <1>4, <1>5, <1>6 DEF EngineStep

LEMMA EngineFlow == ASSUME FlowInv, NEW r \in Runs, EngineStep(r) PROVE FlowInv'
<1>0. /\ r = app.pipe /\ runs[r].state \in {"working", "asking"}
      /\ UNCHANGED <<app, review, msgs, jobs, terminal, overtaken>>
      /\ runs \in [Runs -> RunState]
  BY EngineIs DEF FlowInv, AppTypeOK
<1>1. PICK new \in RunState :
        /\ runs' = [runs EXCEPT ![r] = new]
        /\ new.mode = runs[r].mode /\ new.agreed = runs[r].agreed
        /\ new.pumps = runs[r].pumps
        /\ \/ new.feed = runs[r].feed
           \/ \E e \in PipelineMsgs :
                /\ new.feed = Append(runs[r].feed, e)
                /\ e.type = "done" => new.state = "over"
  BY EngineIs
<1>2. AppTypeOK'
  BY <1>0, <1>1 DEF FlowInv, AppTypeOK
<1>3. OneKey' /\ Chosen' /\ NoFlowDuringJob' /\ Flow'
  BY <1>0 DEF FlowInv, OneKey, Chosen, NoFlowDuringJob, Flow, JobsOn, JobsDone, OverlayShown,
     FromOverlay, MenusIn, Depth
<1>4. OnePump' /\ LaunchIsAgreed'
  BY <1>0, <1>1 DEF FlowInv, OnePump, PipelineIn, LaunchIsAgreed
<1>5. OneOn'
  BY <1>0, <1>1 DEF FlowInv, OneOn, JobsOn, JobsDone, Live
<1>6. EndIsOver'
  <2>1. \A m \in msgs : m.type # "done"
    BY <1>0 DEF FlowInv, EndIsOver
  <2>2. \A i \in DOMAIN runs[r].feed : runs[r].feed[i].type # "done"
    BY <1>0 DEF FlowInv, EndIsOver
  <2>3. runs[r].feed \in Seq(PipelineMsgs)
    BY <1>0 DEF RunState
  <2>4. \A i \in DOMAIN new.feed : new.feed[i].type = "done" => new.state = "over"
    <3>1. CASE new.feed = runs[r].feed
      BY <2>2, <3>1
    <3>2. ASSUME NEW e \in PipelineMsgs, new.feed = Append(runs[r].feed, e),
                 e.type = "done" => new.state = "over",
                 NEW i \in DOMAIN new.feed, new.feed[i].type = "done"
          PROVE  new.state = "over"
      <4>1. (i \in DOMAIN runs[r].feed /\ new.feed[i] = runs[r].feed[i]) \/ new.feed[i] = e
        BY <2>3, <3>2
      <4> QED
        BY <2>2, <3>2, <4>1
    <3> QED
      BY <1>1, <3>1, <3>2
  <2>5. \A s \in Runs : runs'[s] = IF s = r THEN new ELSE runs[s]
    BY <1>0, <1>1
  <2>6. \A s \in Runs : \A i \in DOMAIN runs'[s].feed :
          runs'[s].feed[i].type = "done" => runs'[s].state = "over"
    BY <2>4, <2>5 DEF FlowInv, EndIsOver
  <2> QED
    BY <1>0, <2>1, <2>6 DEF EndIsOver
<1> QED
  BY <1>2, <1>3, <1>4, <1>5, <1>6 DEF FlowInv

LEMMA PumpIs ==
  ASSUME FlowInv, NEW r \in Runs, Pump(r)
  PROVE  /\ r = app.pipe /\ PipelineIn(msgs) = {}
         /\ UNCHANGED <<app, review, jobs, terminal, overtaken>>
         /\ \E e \in PipelineMsgs, f \in Seq(PipelineMsgs) :
              /\ msgs' = msgs \cup {e}
              /\ runs' = [runs EXCEPT ![r] = [@ EXCEPT !.pumps = 0, !.feed = f]]
              /\ \/ runs[r].feed # <<>> /\ e = Head(runs[r].feed) /\ f = Tail(runs[r].feed)
                 \/ runs[r].feed = <<>> /\ f = <<>> /\ e.type = "done" /\ runs[r].state = "over"
<1>0. runs[r] \in RunState /\ runs \in [Runs -> RunState] /\ r # 0
  BY AppAssumption DEF FlowInv, AppTypeOK, Runs
<1>1. runs[r].pumps = 1 /\ runs[r].feed \in Seq(PipelineMsgs)
  BY <1>0 DEF Pump, RunState
<1>2. r = app.pipe /\ PipelineIn(msgs) = {}
  BY <1>0, <1>1 DEF FlowInv, OnePump
<1>3. UNCHANGED <<app, review, jobs, terminal, overtaken>>
  BY DEF Pump
<1> DEFINE e == IF runs[r].feed # <<>> THEN Head(runs[r].feed)
                ELSE [type |-> "done", failed |-> FALSE]
           f == IF runs[r].feed # <<>> THEN Tail(runs[r].feed) ELSE runs[r].feed
<1>4. e \in PipelineMsgs /\ f \in Seq(PipelineMsgs)
  <2>1. [type |-> "done", failed |-> FALSE] \in PipelineMsgs
    BY DEF PipelineMsgs
  <2> QED
    BY <1>1, <2>1
<1>5. msgs' = msgs \cup {e}
  BY DEF Pump
<1>6. /\ \/ runs[r].feed # <<>> /\ e = Head(runs[r].feed) /\ f = Tail(runs[r].feed)
         \/ runs[r].feed = <<>> /\ f = <<>> /\ e.type = "done" /\ runs[r].state = "over"
  BY DEF Pump
<1>7. runs' = [runs EXCEPT ![r] = [@ EXCEPT !.pumps = 0, !.feed = f]]
  <2>1. runs' = [runs EXCEPT ![r].pumps = @ - 1,
                             ![r].feed = IF @ # <<>> THEN Tail(@) ELSE @]
    BY DEF Pump
  <2>2. runs[r].pumps - 1 = 0
    BY <1>1
  <2> QED
    BY <1>0, <2>1, <2>2 DEF RunState
<1> HIDE DEF e, f
<1> QED
  BY <1>2, <1>3, <1>4, <1>5, <1>6, <1>7

LEMMA PumpFlow == ASSUME FlowInv, NEW r \in Runs, Pump(r) PROVE FlowInv'
<1>0. /\ r = app.pipe /\ PipelineIn(msgs) = {} /\ r # 0
      /\ UNCHANGED <<app, review, jobs, terminal, overtaken>>
      /\ runs \in [Runs -> RunState]
  <2>1. r # 0 /\ runs \in [Runs -> RunState]
    BY AppAssumption DEF FlowInv, AppTypeOK, Runs
  <2> QED
    BY <2>1, PumpIs
<1>1. PICK e \in PipelineMsgs, f \in Seq(PipelineMsgs) :
        /\ msgs' = msgs \cup {e}
        /\ runs' = [runs EXCEPT ![r] = [@ EXCEPT !.pumps = 0, !.feed = f]]
        /\ \/ runs[r].feed # <<>> /\ e = Head(runs[r].feed) /\ f = Tail(runs[r].feed)
           \/ runs[r].feed = <<>> /\ f = <<>> /\ e.type = "done" /\ runs[r].state = "over"
  BY PumpIs
<1> DEFINE new == [runs[r] EXCEPT !.pumps = 0, !.feed = f]
<1>2. /\ runs' = [runs EXCEPT ![r] = new] /\ new \in RunState
      /\ new.pumps = 0 /\ new.feed = f /\ new.state = runs[r].state
      /\ new.mode = runs[r].mode /\ new.agreed = runs[r].agreed
  BY <1>0, <1>1 DEF RunState
<1> HIDE DEF new
<1>3. \A s \in Runs : runs'[s] = IF s = r THEN new ELSE runs[s]
  BY <1>0, <1>2
<1>e. e \in Msgs /\ e \notin KeyMsgs /\ e.type \in {"waiting", "done"}
  BY MsgKinds DEF Msgs
<1>4. AppTypeOK'
  BY <1>0, <1>1, <1>2, <1>e DEF FlowInv, AppTypeOK
<1>5. OneKey' /\ Chosen'
  BY <1>0, <1>1, <1>e DEF FlowInv, OneKey, Chosen
<1>6. JobsDone' = JobsDone /\ PipelineIn(msgs)' = {e}
  BY <1>0, <1>1, <1>e DEF JobsDone, PipelineIn
<1>7. NoFlowDuringJob' /\ Flow'
  BY <1>0, <1>1, <1>6, <1>e DEF FlowInv, NoFlowDuringJob, Flow, JobsOn, OverlayShown,
     FromOverlay, MenusIn, Depth
<1>8. OnePump'
  BY <1>0, <1>2, <1>3, <1>6 DEF FlowInv, OnePump
<1>9. LaunchIsAgreed' /\ OneOn'
  BY <1>0, <1>2, <1>3, <1>6 DEF FlowInv, LaunchIsAgreed, OneOn, JobsOn, Live
<1>10. EndIsOver'
  <2>1. runs[r].feed \in Seq(PipelineMsgs)
    BY <1>0 DEF RunState
  <2>2. CASE runs[r].feed # <<>> /\ e = Head(runs[r].feed) /\ f = Tail(runs[r].feed)
    <3>1. e = runs[r].feed[1] /\ 1 \in DOMAIN runs[r].feed
      BY <2>1, <2>2
    <3>2. \A i \in DOMAIN f : i + 1 \in DOMAIN runs[r].feed /\ f[i] = runs[r].feed[i + 1]
      BY <2>1, <2>2
    <3>3. e.type = "done" => runs[r].state = "over"
      BY <3>1 DEF FlowInv, EndIsOver
    <3>4. \A i \in DOMAIN f : f[i].type = "done" => runs[r].state = "over"
      BY <3>2 DEF FlowInv, EndIsOver
    <3>5. \A m \in msgs : m.type # "done"
      BY <1>0, MsgKinds DEF PipelineIn, FlowInv, AppTypeOK
    <3> QED
      BY <1>0, <1>1, <1>2, <1>3, <3>3, <3>4, <3>5 DEF FlowInv, EndIsOver
  <2>3. CASE runs[r].feed = <<>> /\ f = <<>> /\ e.type = "done" /\ runs[r].state = "over"
    BY <1>0, <1>1, <1>2, <1>3, <2>3 DEF FlowInv, EndIsOver
  <2> QED
    BY <1>1, <2>2, <2>3
<1> QED
  BY <1>4, <1>5, <1>7, <1>8, <1>9, <1>10 DEF FlowInv

LEMMA FlowInitInv == AppInit => FlowInv
<1> SUFFICES ASSUME AppInit PROVE FlowInv
  OBVIOUS
<1>0. /\ app = Blank /\ review = FALSE /\ msgs = {} /\ jobs = {} /\ terminal = Nil
      /\ runs = [r \in Runs |-> NoRun] /\ overtaken = 0
  BY DEF AppInit
<1>1. AppOK(Blank) /\ Blank.awaiting = {} /\ Blank.busy = FALSE /\ Blank.pipe = 0
  BY AppAssumption DEF AppOK, AppState, Blank, Screens
<1>2. AppTypeOK
  <2>1. app \in AppState /\ app.stack # <<>> /\ app.stack[1] = "menu"
    BY <1>0, <1>1 DEF AppOK
  <2>2. runs \in [Runs -> RunState]
    BY <1>0, NoRunIs
  <2>3. overtaken \in 0 .. MaxOvertakes
    BY <1>0, AppAssumption
  <2> QED
    BY <1>0, <2>1, <2>2, <2>3 DEF AppTypeOK
<1>3. OneKey /\ NoFlowDuringJob /\ Flow /\ Chosen /\ EndIsOver /\ LaunchIsAgreed
  BY <1>0, <1>1, NoRunIs, AppAssumption DEF OneKey, NoFlowDuringJob, Flow, Chosen, EndIsOver,
     LaunchIsAgreed, JobsOn, JobsDone
<1>4. OnePump /\ OneOn
  BY <1>0, <1>1, NoRunIs DEF OnePump, OneOn, PipelineIn, JobsOn, JobsDone, Live
<1> QED
  BY <1>2, <1>3, <1>4 DEF FlowInv

LEMMA FlowStepInv == FlowInv /\ [AppNext]_appVars => FlowInv'
<1> SUFFICES ASSUME FlowInv, [AppNext]_appVars PROVE FlowInv'
  OBVIOUS
<1>1. CASE UNCHANGED appVars
  BY <1>1 DEF appVars, FlowInv, AppTypeOK, OneKey, NoFlowDuringJob, Flow, Chosen, OnePump,
     EndIsOver, OneOn, LaunchIsAgreed, JobsOn, JobsDone, OverlayShown, FromOverlay, MenusIn,
     PipelineIn, Live, Depth
<1>2. CASE AppNext
  BY <1>2, KeysFlow, DeliverFlow, ProgramFlow, JobFlow, EngineFlow, PumpFlow
     DEF AppNext, Engine, EngineStep
<1> QED
  BY <1>1, <1>2

\* Every reachable state of the application is well typed.
THEOREM AppTypeCorrect == AppSpec => []AppTypeOK
<1>1. FlowInv => AppTypeOK
  BY DEF FlowInv
<1> QED
  BY <1>1, FlowInitInv, FlowStepInv, PTL DEF AppSpec

\* One thing at a time, whatever order messages arrive in.
THEOREM OneAtATime == AppSpec => []OneActivity
<1>1. FlowInv => OneActivity
  <2> SUFFICES ASSUME FlowInv PROVE OneActivity
    OBVIOUS
  <2>1. \A S : (\A x, y \in S : x = y) => Cardinality(S) = IF S = {} THEN 0 ELSE 1
    <3> SUFFICES ASSUME NEW S, \A x, y \in S : x = y
                 PROVE  Cardinality(S) = IF S = {} THEN 0 ELSE 1
      OBVIOUS
    <3>1. CASE S = {}
      BY <3>1, FS_EmptySet
    <3>2. ASSUME NEW x \in S PROVE S = {x} /\ Cardinality(S) = 1
      BY FS_Singleton
    <3> QED
      BY <3>1, <3>2
  <2>2. /\ Cardinality(jobs) = IF jobs = {} THEN 0 ELSE 1
        /\ Cardinality(JobsDone) = IF JobsDone = {} THEN 0 ELSE 1
    BY <2>1 DEF FlowInv, OneOn
  <2> QED
    BY <2>2 DEF FlowInv, OneOn, OneActivity, JobsOn
<1> QED
  BY <1>1, FlowInitInv, FlowStepInv, PTL DEF AppSpec

\* No launch that may replace the container without the look at it.
THEOREM LaunchesAreAgreed == AppSpec => []LaunchIsAgreed
<1>1. FlowInv => LaunchIsAgreed
  BY DEF FlowInv
<1> QED
  BY <1>1, FlowInitInv, FlowStepInv, PTL DEF AppSpec

-----------------------------------------------------------------------------
(* Questions and answers, as long as nothing overtakes the user's messages.  *)

UsersIn(s) == s \cap UserMsgs
PushesIn(s) == {m \in s : m.type = "push"}
Shows(a, screen) == \E i \in DOMAIN a.stack : a.stack[i] = screen
Coming(a, s, screen) == Shows(a, screen) \/ \E m \in PushesIn(s) : m.screen = screen

\* With no overtaking at all, the user's messages come one by one.
OneUserMsg == MaxOvertakes = 0 => \A m, n \in UsersIn(msgs) : m = n

\* A key finds the app as it was when it was typed.
KeysFresh(a, s) == \A m \in s :
  /\ m.type = "result" => Depth(a) > 1 /\ Top(a) = m.from
  /\ m.type = "pop" => Depth(a) > 1 /\ Top(a) = "form"
  /\ m.type = "menu" => Depth(a) = 1

\* The flow to a launch shows one screen at a time, the one it awaits.
Framed(a) ==
  \/ Depth(a) = 1 /\ a.awaiting = {}
  \/ \E k \in Overlays : Depth(a) = 2 /\ Top(a) = k /\ a.awaiting = {k}

\* No screen of the flow over a pipeline, no screen of a pipeline without it.
Shape(a, s) ==
  /\ a.pipe = 0 => PushesIn(s) = {} /\ Framed(a)
  /\ a.pipe # 0 => a.awaiting = {} /\ ~OverlayShown(a)

AsksFor(run, q) == run.state = "asking" /\ run.q = q

\* The app knows all that the pipeline had to say.
Heard(run) == run.feed = <<>> /\ run.pumps = 1

\* The form is there, on top, exactly for an open question for choices.
FormOpen(a, run) == a.waiting = "config" => a.pipe # 0 /\ AsksFor(run, "config") /\ Heard(run)
FormHere(a, s) ==
  /\ Coming(a, s, "form") => a.waiting = "config"
  /\ \A i \in DOMAIN a.stack : a.stack[i] = "form" =>
       i = Depth(a) /\ \A m \in PushesIn(s) : m.screen # "form"

\* The device code may outlive its question, but is not there before it.
CodeHere(a, s, run) == Coming(a, s, "ghauth") =>
  /\ a.pipe # 0 /\ run.q \in {"gh-auth", "attach"}
  /\ AsksFor(run, "gh-auth") => a.waiting = "gh-auth" /\ Heard(run)

\* What a question on its way to the app says of the pipeline.
EventFits(a, e, run) ==
  /\ run.q # Nil /\ Index(e.step) <= Index(run.q)
  /\ e.step = "config" => AsksFor(run, "config") /\ a.waiting # "config"
EventsFit(a, s, run) ==
  /\ \A i \in DOMAIN run.feed : run.feed[i].type = "waiting" =>
       /\ EventFits(a, run.feed[i], run)
       /\ AsksFor(run, run.feed[i].step) => i = Len(run.feed)
  /\ \A m \in s : m.type = "waiting" =>
       /\ EventFits(a, m, run)
       /\ AsksFor(run, m.step) => run.feed = <<>>

Calm(a, s, run) ==
  /\ KeysFresh(a, s) /\ Shape(a, s)
  /\ FormOpen(a, run) /\ FormHere(a, s) /\ CodeHere(a, s, run)
  /\ a.pipe # 0 => EventsFit(a, s, run)

Current == IF app.pipe = 0 THEN NoRun ELSE runs[app.pipe]
Answered == \A r \in Runs : Suits(runs[r].q, runs[r].answer)

CalmNow == OneUserMsg /\ Calm(app, msgs, Current) /\ Answered
CalmInv == overtaken = 0 => CalmNow

-----------------------------------------------------------------------------
(* What handlers do while there is no pipeline. *)

AtMenu(a) ==
  /\ AppOK(a) /\ a.pipe = 0 /\ Depth(a) = 1 /\ a.awaiting = {} /\ a.waiting # "config"

FreeOutcome(o) ==
  /\ o.resume = Nil /\ o.app.waiting # "config"
  /\ o.start => /\ o.app.pipe \in Unused /\ o.app.awaiting = {}
                /\ Depth(o.app) = 2 /\ Top(o.app) = "launch"
  /\ ~o.start => o.app.pipe = 0 /\ Framed(o.app)

LEMMA OutFree ==
  ASSUME NEW a, AppOK(a), a.pipe = 0, Framed(a), a.waiting # "config"
  PROVE  FreeOutcome(Out(a))
<1>1. Out(a).app = a /\ Quiet(Out(a))
  BY OutFields
<1> QED
  BY <1>1 DEF FreeOutcome, Quiet

LEMMA AtMenuFramed == ASSUME NEW a, AtMenu(a) PROVE Framed(a) /\ AppOK(a)
  BY DEF AtMenu, Framed

LEMMA BackFree ==
  ASSUME NEW a, AppOK(a), a.pipe = 0, a.awaiting = {}, a.waiting # "config"
  PROVE  AtMenu(BackToMenu(a)) /\ FreeOutcome(Out(BackToMenu(a)))
<1>1. AtMenu(BackToMenu(a))
  BY BackToMenuFields DEF AtMenu, Depth
<1> QED
  BY <1>1, AtMenuFramed, OutFree DEF AtMenu

LEMMA StartLaunchFree ==
  ASSUME review \in BOOLEAN, NEW a, AtMenu(a), NEW agreed \in BOOLEAN, NEW o \in StartLaunch(a, agreed)
  PROVE  FreeOutcome(o)
<1>1. /\ o.start /\ o.resume = Nil /\ o.app.pipe \in Unused
      /\ o.app.stack = Append(a.stack, "launch")
      /\ o.app.awaiting = a.awaiting /\ o.app.waiting = a.waiting
  BY StartLaunchFields DEF AtMenu
<1>2. Depth(o.app) = 2 /\ Top(o.app) = "launch"
  BY <1>1, Strings DEF AtMenu, AppOK, AppState, Depth, Top
<1> QED
  BY <1>1, <1>2 DEF FreeOutcome, AtMenu

LEMMA StartReviewFree ==
  ASSUME review \in BOOLEAN, NEW a, AtMenu(a), NEW o \in StartReview(a)
  PROVE  FreeOutcome(o)
<1>1. PICK p \in StartLaunch(a, FALSE) : o = [p EXCEPT !.review = TRUE]
  BY DEF StartReview, AtMenu
<1>2. FreeOutcome(p)
  BY <1>1, StartLaunchFree
<1>3. o.app = p.app /\ o.start = p.start /\ o.resume = p.resume
  BY <1>1 DEF StartLaunch, AtMenu, Out
<1> QED
  BY <1>2, <1>3 DEF FreeOutcome

LEMMA AwaitFree ==
  ASSUME review \in BOOLEAN, NEW a, AtMenu(a), NEW k \in Overlays, NEW o \in PushAwaited(a, k)
  PROVE  FreeOutcome(o)
<1>1. /\ o = Out(o.app) /\ AppOK(o.app) /\ o.app.stack = Append(a.stack, k) /\ Top(o.app) = k
      /\ o.app.awaiting = a.awaiting \cup {k} /\ o.app.pipe = a.pipe
      /\ o.app.waiting = a.waiting
  BY AwaitFields DEF AtMenu
<1>2. Depth(o.app) = 2
  BY <1>1, Strings DEF AtMenu, AppOK, AppState, Depth
<1>3. FreeOutcome(Out(o.app))
  BY <1>1, <1>2, OutFree DEF AtMenu, Framed
<1> QED
  BY <1>1, <1>3

LEMMA MaybeWarnFree ==
  ASSUME review \in BOOLEAN, NEW a, AtMenu(a), NEW o \in MaybeWarnRestart(a)
  PROVE  FreeOutcome(o)
  BY StartLaunchFree, AwaitFree DEF MaybeWarnRestart, StartAgreed, Overlays, AtMenu

LEMMA PickRoleFree ==
  ASSUME review \in BOOLEAN, NEW a, AtMenu(a), NEW o \in PickRole(a)
  PROVE  FreeOutcome(o)
  BY MaybeWarnFree, AwaitFree DEF PickRole, Overlays, AtMenu

LEMMA StartJobFree ==
  ASSUME review \in BOOLEAN, NEW a, AtMenu(a), NEW job \in Jobs
  PROVE  FreeOutcome(StartJob(a, job))
<1> DEFINE o == StartJob(a, job)
<1>1. /\ ~o.start /\ o.resume = Nil /\ o.app.stack = <<"menu">> /\ o.app.pipe = a.pipe
      /\ o.app.awaiting = a.awaiting /\ o.app.waiting = a.waiting
  BY StartJobFields DEF AtMenu
<1> HIDE DEF o
<1>2. FreeOutcome(o)
  BY <1>1 DEF FreeOutcome, Framed, AtMenu, Depth
<1> QED
  BY <1>2 DEF o

LEMMA RunGateFree ==
  ASSUME review \in BOOLEAN, NEW a, AtMenu(a), NEW choice, NEW o \in RunGate(a, choice)
  PROVE  FreeOutcome(o)
<1>1. ASSUME NEW all \in BOOLEAN PROVE AtMenu([a EXCEPT !.gateAll = all])
  BY DEF AtMenu, AppOK, AppState, Depth
<1>2. "self" \in Jobs /\ "packs" \in Jobs
  BY DEF Jobs
<1>3. CASE choice \in {"self", "packs", "all"}
  BY <1>1, <1>2, <1>3, StartJobFree DEF RunGate
<1>4. CASE choice \notin {"self", "packs", "all"}
  BY <1>4, PickRoleFree DEF RunGate
<1> QED
  BY <1>3, <1>4

LEMMA OrErrorFree ==
  ASSUME review \in BOOLEAN, NEW a, AtMenu(a), NEW next, \A o \in next : FreeOutcome(o),
         NEW o \in OrError(a, next)
  PROVE  FreeOutcome(o)
  BY BackFree DEF OrError, AtMenu

\* A key over a screen of the flow finds the one that is awaited.
LEMMA FlowKeyFinds ==
  ASSUME AppOK(app), app.pipe = 0, Framed(app), app.waiting # "config", Depth(app) > 1
  PROVE  \E k \in Overlays :
           /\ Pop(app).awaiting = {k} /\ AtMenu(Served(Pop(app), k))
           /\ Top(app) = k
<1>1. PICK k \in Overlays : Depth(app) = 2 /\ Top(app) = k /\ app.awaiting = {k}
  BY DEF Framed
<1> DEFINE a == Pop(app)
<1>2. /\ AppOK(a) /\ a.stack = SubSeq(app.stack, 1, Depth(app) - 1)
      /\ a.awaiting = {k} /\ a.pipe = 0 /\ a.waiting # "config"
  BY <1>1, PopFields
<1>3. Depth(a) = 1
  BY <1>1, <1>2 DEF Depth, AppOK, AppState
<1> HIDE DEF a
<1>4. AtMenu(Served(a, k))
  <2> DEFINE b == Served(a, k)
  <2>1. AppOK(b) /\ b.stack = a.stack /\ b.awaiting = {} /\ b.pipe = a.pipe /\ b.waiting = a.waiting
    BY <1>2, ServedFields
  <2> HIDE DEF b
  <2>2. AtMenu(b)
    BY <1>2, <1>3, <2>1 DEF AtMenu, Depth
  <2> QED
    BY <2>2 DEF b
<1> QED
  BY <1>1, <1>2, <1>4 DEF a

LEMMA PopFree ==
  ASSUME review \in BOOLEAN, AppOK(app), app.pipe = 0, Framed(app), app.waiting # "config",
         Depth(app) > 1, NEW o \in HandleScreenPop(app)
  PROVE  FreeOutcome(o)
<1> DEFINE a == Pop(app)
<1>1. PICK k \in Overlays : a.awaiting = {k} /\ AtMenu(Served(a, k))
  BY FlowKeyFinds
<1>2. /\ FreeOutcome(Out(BackToMenu(Served(a, k))))
      /\ \A p \in MaybeWarnRestart(Served(a, k)) : FreeOutcome(p)
  BY <1>1, BackFree, MaybeWarnFree DEF AtMenu
<1> HIDE DEF a
<1>3. CASE k = "gate"
  BY <1>1, <1>3, RunGateFree DEF HandleScreenPop, a
<1>4. CASE k = "role"
  BY <1>1, <1>2, <1>4 DEF HandleScreenPop, a
<1>5. CASE k = "tune"
  BY <1>1, <1>2, <1>5, OrErrorFree DEF HandleScreenPop, a
<1>6. CASE k = "warn"
  BY <1>1, <1>2, <1>6 DEF HandleScreenPop, a
<1> QED
  BY <1>3, <1>4, <1>5, <1>6 DEF Overlays

LEMMA ResultFree ==
  ASSUME review \in BOOLEAN, AppOK(app), app.pipe = 0, Framed(app), app.waiting # "config",
         Depth(app) > 1, NEW m, NEW o \in HandleScreenResult(app, m)
  PROVE  FreeOutcome(o)
<1> DEFINE a == Pop(app)
<1>1. PICK k \in Overlays : a.awaiting = {k} /\ AtMenu(Served(a, k))
  BY FlowKeyFinds
<1> DEFINE b == Served(a, k)
<1>2. /\ FreeOutcome(Out(BackToMenu(b)))
      /\ \A p \in MaybeWarnRestart(b) : FreeOutcome(p)
      /\ \A p \in PushTune(b) : FreeOutcome(p)
      /\ \A p \in StartAgreed(b) : FreeOutcome(p)
  BY <1>1, BackFree, MaybeWarnFree, AwaitFree, StartLaunchFree
     DEF PushTune, StartAgreed, Overlays, AtMenu
<1> HIDE DEF a
<1>3. CASE k = "gate"
  BY <1>1, <1>3, RunGateFree DEF HandleScreenResult, a
<1>4. CASE k = "role"
  BY <1>1, <1>2, <1>4, OrErrorFree DEF HandleScreenResult, a
<1>5. CASE k = "tune"
  BY <1>1, <1>2, <1>5, OrErrorFree DEF HandleScreenResult, a
<1>6. CASE k = "warn"
  BY <1>1, <1>2, <1>6 DEF HandleScreenResult, a
<1> QED
  BY <1>3, <1>4, <1>5, <1>6 DEF Overlays

LEMMA MenuFree ==
  ASSUME review \in BOOLEAN, AppOK(app), app.pipe = 0, Framed(app), app.waiting # "config",
         Depth(app) = 1, NEW action \in Actions, NEW o \in HandleMenuChosen(app, action)
  PROVE  o.quit \/ FreeOutcome(o)
<1>1. AtMenu(app)
  BY DEF AtMenu, Framed
<1>2. CASE app.busy /\ action # "quit"
  BY <1>1, <1>2, BackFree DEF HandleMenuChosen, AtMenu
<1>3. CASE action = "quit"
  BY <1>3 DEF HandleMenuChosen, Out
<1>4. CASE ~app.busy /\ action = "launch"
  BY <1>1, <1>4, AwaitFree DEF HandleMenuChosen, PushGate, Overlays
<1>5. CASE ~app.busy /\ action = "review"
  BY <1>1, <1>5, StartReviewFree DEF HandleMenuChosen
<1>6. CASE ~app.busy /\ action = "vscode"
  BY <1>1, <1>6, StartJobFree DEF HandleMenuChosen, Jobs
<1> QED
  BY <1>2, <1>3, <1>4, <1>5, <1>6 DEF Actions

LEMMA JobDoneFree ==
  ASSUME review \in BOOLEAN, AppOK(app), app.pipe = 0, Framed(app), app.waiting # "config",
         ~OverlayShown(app), NEW job, NEW o \in HandleJobDone(app, job)
  PROVE  FreeOutcome(o)
<1>1. app.awaiting = {}
  <2>1. Top(app) \notin Overlays
    BY DEF OverlayShown, Top, Depth, AppOK, AppState
  <2> QED
    BY <2>1 DEF Framed
<1>2. ASSUME NEW b, b = [app EXCEPT !.busy = FALSE] \/ b = [app EXCEPT !.gateAll = FALSE, !.busy = FALSE]
      PROVE  AtMenu(BackToMenu(b)) /\ FreeOutcome(Out(BackToMenu(b)))
  <2>1. AppOK(b) /\ b.pipe = 0 /\ b.awaiting = {} /\ b.waiting # "config"
    BY <1>1, <1>2 DEF AppOK, AppState
  <2> QED
    BY <2>1, BackFree
<1>3. CASE job = "vscode"
  BY <1>2, <1>3 DEF HandleJobDone
<1>4. CASE job = "self" /\ app.gateAll
  <2>1. o = [Out(app) EXCEPT !.job = "packs"]
    BY <1>4 DEF HandleJobDone
  <2>2. o.app = app /\ o.start = FALSE /\ o.resume = Nil
    BY <2>1 DEF Out
  <2> QED
    BY <2>2 DEF FreeOutcome
<1>5. CASE job # "vscode" /\ ~(job = "self" /\ app.gateAll)
  <2>1. o \in PickRole(BackToMenu([app EXCEPT !.gateAll = FALSE, !.busy = FALSE]))
    BY <1>5 DEF HandleJobDone, ProceedAfterGate
  <2> QED
    BY <1>2, <2>1, PickRoleFree
<1> QED
  BY <1>3, <1>4, <1>5

-----------------------------------------------------------------------------
(* What handlers do while there is a pipeline. *)

TurnOutcome(o) ==
  /\ ~o.start /\ o.app.pipe = app.pipe /\ o.app.awaiting = {}
  /\ \/ /\ o.app.stack = app.stack /\ o.app.waiting = app.waiting
        /\ o.resume # Nil => o.resume \in InTerminal /\ o.answer = "exec"
     \/ /\ o.app.stack = Pop(app).stack /\ o.app.waiting = Nil /\ o.resume = app.waiting
        /\ o.resume # Nil => o.answer = "cancelled" \/ (o.answer = "choices" /\ o.resume = "config")

LEMMA OutTurn ==
  ASSUME NEW a, a.pipe = app.pipe, a.awaiting = {}, a.stack = app.stack, a.waiting = app.waiting
  PROVE  TurnOutcome(Out(a))
<1>1. Out(a).app = a /\ Quiet(Out(a))
  BY OutFields
<1> QED
  BY <1>1 DEF TurnOutcome, Quiet

LEMMA ResumeTurn ==
  ASSUME NEW a, AppOK(a), a.pipe = app.pipe, app.pipe # 0, a.awaiting = {},
         a.stack = Pop(app).stack, a.waiting = app.waiting,
         NEW answer, answer = "cancelled" \/ (answer = "choices" /\ app.waiting = "config"),
         NEW o \in ResumeWaiting(a, answer)
  PROVE  TurnOutcome(o)
<1>1. PICK b : /\ b.pipe = a.pipe /\ b.awaiting = {} /\ b.stack = a.stack /\ b.waiting = Nil
               /\ \/ a.waiting = Nil /\ o = Out(b)
                  \/ a.waiting # Nil /\ o = [Out(b) EXCEPT !.resume = a.waiting, !.answer = answer]
  <2>1. ASSUME NEW b, b = [a EXCEPT !.waiting = Nil]
                      \/ b = [[a EXCEPT !.waiting = Nil] EXCEPT !.launchCancelled = TRUE]
        PROVE  b.pipe = a.pipe /\ b.awaiting = {} /\ b.stack = a.stack /\ b.waiting = Nil
    BY <2>1 DEF AppOK, AppState
  <2>2. CASE a.waiting = Nil
    BY <2>1, <2>2 DEF ResumeWaiting
  <2>3. CASE a.waiting # Nil
    BY <2>1, <2>3 DEF ResumeWaiting
  <2> QED
    BY <2>2, <2>3
<1>2. CASE a.waiting = Nil
  <2>1. o = Out(b)
    BY <1>1, <1>2
  <2>2. o.app = b /\ o.start = FALSE /\ o.resume = Nil
    BY <2>1 DEF Out
  <2> QED
    BY <1>1, <1>2, <2>2 DEF TurnOutcome
<1>3. CASE a.waiting # Nil
  <2>1. o = [Out(b) EXCEPT !.resume = a.waiting, !.answer = answer]
    BY <1>1, <1>3
  <2>2. o.app = b /\ o.start = FALSE /\ o.resume = a.waiting /\ o.answer = answer
    BY <2>1 DEF Out
  <2> QED
    BY <1>1, <2>2 DEF TurnOutcome
<1> QED
  BY <1>2, <1>3

LEMMA MenuTurn ==
  ASSUME AppOK(app), app.pipe # 0, app.awaiting = {}, Depth(app) = 1,
         NEW action \in Actions, NEW o \in HandleMenuChosen(app, action)
  PROVE  o.quit \/ TurnOutcome(o)
<1>1. CASE action = "quit"
  BY <1>1 DEF HandleMenuChosen, Out
<1>2. CASE action # "quit"
  <2>1. o = Out(BackToMenu(app))
    BY <1>2 DEF HandleMenuChosen
  <2>2. app.stack = <<"menu">>
    BY DEF Depth, AppOK, AppState
  <2> QED
    BY <2>1, <2>2, BackToMenuFields, OutTurn
<1> QED
  BY <1>1, <1>2

LEMMA PopTurn ==
  ASSUME AppOK(app), app.pipe # 0, app.awaiting = {}, NEW o \in HandleScreenPop(app)
  PROVE  TurnOutcome(o)
<1> DEFINE a == Pop(app)
<1>1. AppOK(a) /\ a.pipe = app.pipe /\ a.awaiting = {} /\ a.waiting = app.waiting
  BY PopFields
<1>2. a.stack = Pop(app).stack
  OBVIOUS
<1> HIDE DEF a
<1>3. o \in ResumeWaiting(a, "cancelled")
  BY <1>1 DEF HandleScreenPop, a
<1> QED
  BY <1>1, <1>2, <1>3, ResumeTurn

LEMMA ResultTurn ==
  ASSUME AppOK(app), app.pipe # 0, app.awaiting = {}, NEW m, m.from = "form",
         app.waiting = "config", NEW o \in HandleScreenResult(app, m)
  PROVE  TurnOutcome(o)
<1> DEFINE a == Pop(app)
<1>1. AppOK(a) /\ a.pipe = app.pipe /\ a.awaiting = {} /\ a.waiting = app.waiting
  BY PopFields
<1>2. a.stack = Pop(app).stack
  OBVIOUS
<1> HIDE DEF a
<1>3. o \in ResumeWaiting(a, "choices")
  BY <1>1 DEF HandleScreenResult, a
<1> QED
  BY <1>1, <1>2, <1>3, ResumeTurn

LEMMA ExecDoneTurn ==
  ASSUME app.pipe # 0, app.awaiting = {}, NEW q \in InTerminal, NEW o \in HandleExecDone(app, q)
  PROVE  TurnOutcome(o)
<1>1. o = [Out(app) EXCEPT !.resume = q, !.answer = "exec"]
  BY DEF HandleExecDone
<1>2. o.app = app /\ o.start = FALSE /\ o.resume = q /\ o.answer = "exec"
  BY <1>1 DEF Out
<1> QED
  BY <1>2 DEF TurnOutcome

\* Pop takes the top screen away, but never the menu.
LEMMA PopHidesTop ==
  ASSUME AppOK(app), NEW i \in DOMAIN Pop(app).stack
  PROVE  /\ i \in DOMAIN app.stack /\ Pop(app).stack[i] = app.stack[i]
         /\ i = Depth(app) => app.stack[i] = "menu"
<1> DEFINE t == Pop(app).stack
<1>1. /\ Depth(app) > 1 => t = SubSeq(app.stack, 1, Depth(app) - 1)
      /\ i \in DOMAIN app.stack /\ t[i] = app.stack[i]
  BY PopFields
<1>2. i \in DOMAIN t
  OBVIOUS
<1> HIDE DEF t
<1>3. CASE Depth(app) > 1
  <2>1. i # Depth(app)
    BY <1>1, <1>2, <1>3 DEF AppOK, AppState, Depth
  <2> QED
    BY <1>1, <2>1 DEF t
<1>4. CASE ~(Depth(app) > 1)
  BY <1>1, <1>4 DEF AppOK, AppState, Depth, t
<1> QED
  BY <1>3, <1>4

-----------------------------------------------------------------------------
(* A calm application stays calm. *)

\* The messages a calm state says nothing of.
LEMMA UserKinds ==
  ASSUME NEW m \in Msgs
  PROVE  m \in UserMsgs <=> m.type \in {"menu", "result", "pop", "push"}
  BY DEF UserMsgs, Msgs, KeyMsgs, CommandMsgs, PipelineMsgs

LEMMA NoUsers ==
  ASSUME AppTypeOK, NEW rest, rest \subseteq msgs, UsersIn(rest) = {}
  PROVE  /\ \A m \in rest : m.type \notin {"menu", "result", "pop", "push"}
         /\ PushesIn(rest) = {}
<1>1. \A m \in rest : m.type \notin {"menu", "result", "pop", "push"}
  BY UserKinds DEF AppTypeOK, UsersIn
<1> QED
  BY <1>1 DEF PushesIn

LEMMA NoEvents ==
  ASSUME AppTypeOK, NEW rest, rest \subseteq msgs, PipelineIn(rest) = {}
  PROVE  \A m \in rest : m.type # "waiting"
  BY MsgKinds DEF AppTypeOK, PipelineIn

LEMMA NilIsNoQuestion == Nil \notin Questions /\ Questions = {"claude-auth", "config", "gh-auth", "attach"}
  BY AppAssumption DEF Questions, Catalogue

LEMMA FreeCalm ==
  ASSUME FlowInv, app.pipe = 0, NEW rest, rest \subseteq msgs, UsersIn(rest) = {},
         NEW o, OutcomeOK(o), FreeOutcome(o),
         NEW run, run = IF o.app.pipe = 0 THEN NoRun ELSE FreshRun(o)
  PROVE  Calm(o.app, rest, run)
<1> DEFINE a == o.app
<1>1. /\ \A m \in rest : m.type \notin {"menu", "result", "pop", "push", "waiting"}
      /\ PushesIn(rest) = {}
  BY NoUsers, NoEvents DEF FlowInv, OnePump, PipelineIn
<1>2. AppOK(a) /\ a.waiting # "config" /\ run.feed = <<>>
  BY NoRunIs, FreshRunIs DEF OutcomeOK, FreeOutcome
<1>3. \/ a.pipe = 0 /\ Framed(a)
      \/ a.pipe # 0 /\ a.awaiting = {} /\ Depth(a) = 2 /\ Top(a) = "launch"
  BY AppAssumption DEF FreeOutcome, Unused, Runs
<1> HIDE DEF a
<1>4. \A i \in DOMAIN a.stack :
        /\ a.stack[i] \in Overlays \cup {"menu", "launch"}
        /\ a.pipe # 0 => a.stack[i] \notin Overlays
  <2> SUFFICES ASSUME NEW i \in DOMAIN a.stack
               PROVE  /\ a.stack[i] \in Overlays \cup {"menu", "launch"}
                      /\ a.pipe # 0 => a.stack[i] \notin Overlays
    OBVIOUS
  <2>1. a.stack \in Seq(Screens) /\ a.stack[1] = "menu" /\ i \in 1 .. Len(a.stack)
    BY <1>2 DEF AppOK, AppState
  <2>2. i = 1 \/ (Depth(a) = 2 /\ a.stack[i] = Top(a))
    BY <1>3, <2>1 DEF Framed, Depth, Top
  <2> QED
    BY <1>3, <2>1, <2>2 DEF Framed, Overlays
<1>5. ~Coming(a, rest, "form") /\ ~Coming(a, rest, "ghauth") /\ (a.pipe # 0 => ~OverlayShown(a))
  BY <1>1, <1>4 DEF Coming, Shows, OverlayShown, Overlays
<1>6. KeysFresh(a, rest) /\ Shape(a, rest)
  BY <1>1, <1>3, <1>5 DEF KeysFresh, Shape
<1>7. FormOpen(a, run) /\ FormHere(a, rest) /\ CodeHere(a, rest, run)
  BY <1>2, <1>5 DEF FormOpen, FormHere, CodeHere, Coming, Shows
<1>8. EventsFit(a, rest, run)
  BY <1>1, <1>2 DEF EventsFit
<1>9. Calm(a, rest, run)
  BY <1>6, <1>7, <1>8 DEF Calm
<1> QED
  BY <1>9 DEF a

\* An answer reaches the pipeline if it is for the question that is open.
RunTold(run, o) == IF o.resume = Nil THEN run ELSE Resume(run, o.resume, o.answer)

LEMMA ToldIs ==
  ASSUME NEW run \in RunState, NEW o, OutcomeOK(o)
  PROVE  LET n == RunTold(run, o)
         IN  /\ n.feed = run.feed /\ n.pumps = run.pumps /\ n.q = run.q
             /\ \/ n = run /\ (o.resume = Nil \/ ~AsksFor(run, o.resume))
                \/ /\ o.resume # Nil /\ AsksFor(run, o.resume)
                   /\ n.state = "working" /\ n.answer = o.answer
<1>1. CASE o.resume = Nil
  BY <1>1 DEF RunTold
<1>2. CASE o.resume # Nil
  <2>1. o.resume \in Questions /\ o.answer \in Answers
    BY <1>2 DEF OutcomeOK
  <2> QED
    BY <1>2, <2>1, ResumeIs DEF RunTold, AsksFor
<1> QED
  BY <1>1, <1>2

LEMMA TurnCalm ==
  ASSUME FlowInv, app.pipe # 0, NEW run \in RunState, Calm(app, msgs, run),
         NEW rest, rest \subseteq msgs, UsersIn(rest) = {},
         NEW o, OutcomeOK(o), TurnOutcome(o)
  PROVE  Calm(o.app, rest, RunTold(run, o))
<1> DEFINE a == o.app
           n == RunTold(run, o)
<1>1. /\ \A m \in rest : m.type \notin {"menu", "result", "pop", "push"}
      /\ PushesIn(rest) = {} /\ AppOK(app)
  BY NoUsers DEF FlowInv, AppTypeOK, AppOK
<1>2. /\ n.feed = run.feed /\ n.pumps = run.pumps /\ n.q = run.q
      /\ \/ n = run /\ (o.resume = Nil \/ ~AsksFor(run, o.resume))
         \/ /\ o.resume # Nil /\ AsksFor(run, o.resume)
            /\ n.state = "working" /\ n.answer = o.answer
  BY ToldIs
<1>3. /\ a.pipe = app.pipe /\ a.awaiting = {}
      /\ \/ /\ a.stack = app.stack /\ a.waiting = app.waiting
            /\ o.resume # Nil => o.resume \in InTerminal
         \/ /\ a.stack = Pop(app).stack /\ a.waiting = Nil /\ o.resume = app.waiting
  BY DEF TurnOutcome
<1>4. /\ Shape(app, msgs) /\ FormOpen(app, run) /\ FormHere(app, msgs)
      /\ CodeHere(app, msgs, run) /\ EventsFit(app, msgs, run)
  BY DEF Calm
<1> HIDE DEF a, n
<1>5. ASSUME NEW q, AsksFor(n, q) PROVE n = run
  BY <1>2, <1>5 DEF AsksFor
<1>6. \A i \in DOMAIN a.stack :
        /\ i \in DOMAIN app.stack /\ a.stack[i] = app.stack[i]
        /\ a.waiting = app.waiting \/ (i = Depth(app) => a.stack[i] = "menu")
  BY <1>1, <1>3, PopHidesTop
<1>7. KeysFresh(a, rest) /\ Shape(a, rest)
  BY <1>1, <1>3, <1>4, <1>6 DEF KeysFresh, Shape, OverlayShown
<1>8. FormOpen(a, n)
  <2> SUFFICES ASSUME a.waiting = "config" PROVE AsksFor(n, "config") /\ Heard(n)
    BY <1>3 DEF FormOpen
  <2>1. /\ app.waiting = "config" /\ (o.resume # Nil => o.resume \in InTerminal)
        /\ AsksFor(run, "config") /\ Heard(run)
    BY <1>3, <1>4, AppAssumption DEF FormOpen
  <2>2. n = run
    BY <1>2, <2>1 DEF AsksFor, InTerminal
  <2> QED
    BY <2>1, <2>2
<1>9. FormHere(a, rest)
  <2>1. ASSUME NEW i \in DOMAIN a.stack, a.stack[i] = "form"
        PROVE  a.waiting = "config" /\ i = Depth(a)
    <3>1. i = Depth(app) /\ app.waiting = "config"
      BY <1>4, <1>6, <2>1 DEF FormHere, Coming, Shows
    <3>2. a.waiting = app.waiting
      BY <1>6, <2>1, <3>1
    <3>3. a.stack = app.stack
      BY <1>3, <3>1, <3>2, AppAssumption
    <3> QED
      BY <3>1, <3>2, <3>3 DEF Depth
  <2> QED
    BY <1>1, <2>1 DEF FormHere, Coming, Shows
<1>10. CodeHere(a, rest, n)
  <2> SUFFICES ASSUME Coming(a, rest, "ghauth")
               PROVE  /\ a.pipe # 0 /\ n.q \in {"gh-auth", "attach"}
                      /\ AsksFor(n, "gh-auth") => a.waiting = "gh-auth" /\ Heard(n)
    BY DEF CodeHere
  <2>1. Coming(app, msgs, "ghauth")
    BY <1>1, <1>6 DEF Coming, Shows
  <2>2. /\ run.q \in {"gh-auth", "attach"}
        /\ AsksFor(run, "gh-auth") => app.waiting = "gh-auth" /\ Heard(run)
    BY <1>4, <2>1 DEF CodeHere
  <2>3. ASSUME AsksFor(n, "gh-auth") PROVE a.waiting = "gh-auth" /\ Heard(n)
    <3>1. n = run /\ app.waiting = "gh-auth" /\ Heard(n)
      BY <1>5, <2>2, <2>3
    <3>2. a.waiting = app.waiting
      BY <1>2, <1>3, <2>3, <3>1, AppAssumption DEF AsksFor
    <3> QED
      BY <3>1, <3>2
  <2> QED
    BY <1>2, <1>3, <2>2, <2>3
<1>11. EventsFit(a, rest, n)
  <2>1. ASSUME NEW e, EventFits(app, e, run) PROVE EventFits(a, e, n)
    <3>1. CASE e.step = "config"
      <4>1. AsksFor(run, "config") /\ app.waiting # "config"
        BY <2>1, <3>1 DEF EventFits
      <4>2. a.waiting # "config"
        BY <1>3, <4>1, AppAssumption
      <4>3. o.resume # "config"
        BY <1>3, <4>1, AppAssumption DEF InTerminal
      <4>4. n = run
        BY <1>2, <4>1, <4>3 DEF AsksFor
      <4> QED
        BY <2>1, <4>2, <4>4 DEF EventFits
    <3>2. CASE e.step # "config"
      BY <1>2, <2>1, <3>2 DEF EventFits
    <3> QED
      BY <3>1, <3>2
  <2>2. \A q : AsksFor(n, q) => AsksFor(run, q)
    BY <1>5
  <2> QED
    BY <1>2, <1>4, <2>1, <2>2 DEF EventsFit
<1>12. Calm(a, rest, n)
  BY <1>7, <1>8, <1>9, <1>10, <1>11 DEF Calm
<1> QED
  BY <1>12 DEF a, n

\* A screen of a question appears.
LEMMA PushCalm ==
  ASSUME FlowInv, app.pipe # 0, NEW run, Calm(app, msgs, run),
         NEW m \in msgs, m.type = "push", UsersIn(msgs \ {m}) = {}
  PROVE  Calm(Push(app, m.screen), msgs \ {m}, run)
<1> DEFINE a == Push(app, m.screen)
           rest == msgs \ {m}
<1>1. /\ \A x \in rest : x.type \notin {"menu", "result", "pop", "push"}
      /\ PushesIn(rest) = {} /\ m \in PushesIn(msgs)
  BY NoUsers DEF FlowInv, PushesIn
<1>2. /\ m.screen \in {"form", "ghauth"} /\ AppOK(app)
      /\ m.screen \in Screens /\ m.screen \notin Overlays
  BY MsgKinds DEF FlowInv, AppTypeOK, AppOK, Screens, Overlays
<1>3. /\ a.stack = Append(app.stack, m.screen) /\ a.awaiting = app.awaiting
      /\ a.pipe = app.pipe /\ a.waiting = app.waiting
  BY <1>2, PushFields
<1>4. /\ Shape(app, msgs) /\ FormOpen(app, run) /\ FormHere(app, msgs)
      /\ CodeHere(app, msgs, run) /\ EventsFit(app, msgs, run)
  BY DEF Calm
<1>5. ASSUME NEW i \in DOMAIN a.stack
      PROVE  \/ i = Depth(a) /\ a.stack[i] = m.screen
             \/ i \in DOMAIN app.stack /\ a.stack[i] = app.stack[i]
  <2> HIDE DEF a
  <2> QED
    BY <1>2, <1>3, <1>5 DEF AppOK, AppState, Depth
<1>6. rest \subseteq msgs /\ PushesIn(rest) \subseteq PushesIn(msgs)
  BY DEF PushesIn
<1> HIDE DEF a, rest
<1>7. KeysFresh(a, rest) /\ Shape(a, rest)
  BY <1>1, <1>2, <1>3, <1>4, <1>5 DEF KeysFresh, Shape, OverlayShown
<1>8. FormOpen(a, run)
  BY <1>3, <1>4 DEF FormOpen
<1>9. \A screen : Coming(a, rest, screen) => Coming(app, msgs, screen)
  BY <1>1, <1>5, <1>6 DEF Coming, Shows
<1>10. FormHere(a, rest)
  <2>1. Coming(a, rest, "form") => a.waiting = "config"
    BY <1>3, <1>4, <1>9 DEF FormHere
  <2>2. ASSUME NEW i \in DOMAIN a.stack, a.stack[i] = "form" PROVE i = Depth(a)
    <3> SUFFICES ASSUME i \in DOMAIN app.stack, app.stack[i] = "form" PROVE FALSE
      BY <1>5, <2>2
    <3>1. m.screen = "ghauth" /\ app.waiting = "config"
      BY <1>1, <1>2, <1>4 DEF FormHere, Coming, Shows
    <3>2. Coming(app, msgs, "ghauth") /\ AsksFor(run, "config")
      BY <1>1, <1>4, <3>1 DEF Coming, FormOpen
    <3> QED
      BY <1>4, <3>2 DEF CodeHere, AsksFor
  <2> QED
    BY <1>1, <2>1, <2>2 DEF FormHere
<1>11. CodeHere(a, rest, run)
  BY <1>3, <1>4, <1>9 DEF CodeHere
<1>12. EventsFit(a, rest, run)
  BY <1>3, <1>4, <1>6 DEF EventsFit, EventFits
<1>13. Calm(a, rest, run)
  BY <1>7, <1>8, <1>10, <1>11, <1>12 DEF Calm
<1> QED
  BY <1>13 DEF a, rest

LEMMA IndexIs ==
  /\ Index("claude-auth") = 1 /\ Index("config") = 2 /\ Index("gh-auth") = 3 /\ Index("attach") = 4
<1>1. DOMAIN Catalogue = 1 .. 4
  BY DEF Catalogue
<1>2. /\ \A i \in 1 .. 4 : Catalogue[i] = "claude-auth" <=> i = 1
      /\ \A i \in 1 .. 4 : Catalogue[i] = "config" <=> i = 2
      /\ \A i \in 1 .. 4 : Catalogue[i] = "gh-auth" <=> i = 3
      /\ \A i \in 1 .. 4 : Catalogue[i] = "attach" <=> i = 4
  BY DEF Catalogue
<1> QED
  BY <1>1, <1>2 DEF Index

\* The app learns of a question.
LEMMA WaitingCalm ==
  ASSUME FlowInv, app.pipe # 0, NEW run \in RunState, run.pumps = 0, Calm(app, msgs, run),
         NEW m \in msgs, m.type = "waiting", UsersIn(msgs \ {m}) = {},
         PipelineIn(msgs \ {m}) = {},
         NEW p, p = IF m.step \in InTerminal THEN [type |-> "exec", step |-> m.step]
                    ELSE [type |-> "push", screen |-> ScreenFor(m.step)],
         NEW a, a = [app EXCEPT !.waiting = m.step],
         NEW n, n = [run EXCEPT !.pumps = 1]
  PROVE  Calm(a, (msgs \ {m}) \cup {p}, n)
<1> DEFINE rest == msgs \ {m}
           s == rest \cup {p}
           q == m.step
<1>1. /\ \A x \in rest : x.type \notin {"menu", "result", "pop", "push", "waiting"}
      /\ PushesIn(rest) = {}
  BY NoUsers, NoEvents DEF FlowInv
<1>2. q \in Questions /\ AppOK(app)
  BY MsgKinds DEF FlowInv, AppTypeOK, AppOK
<1>3. /\ a.stack = app.stack /\ a.awaiting = app.awaiting /\ a.pipe = app.pipe /\ a.waiting = q
  BY <1>2 DEF AppOK, AppState
<1>4. n.feed = run.feed /\ n.state = run.state /\ n.q = run.q /\ n.pumps = 1
  BY DEF RunState
<1>5. \/ p.type = "exec" /\ q \in {"claude-auth", "attach"}
      \/ p.type = "push" /\ p.screen = "form" /\ q = "config"
      \/ p.type = "push" /\ p.screen = "ghauth" /\ q = "gh-auth"
  BY <1>2, NilIsNoQuestion DEF InTerminal, ScreenFor
<1>6. /\ Shape(app, msgs) /\ FormOpen(app, run) /\ FormHere(app, msgs)
      /\ CodeHere(app, msgs, run) /\ EventsFit(app, msgs, run)
  BY DEF Calm
<1>7. EventFits(app, m, run) /\ (AsksFor(run, q) => run.feed = <<>>)
  BY <1>6 DEF EventsFit
<1>8. ~Heard(run)
  BY DEF Heard
<1>9. \A k : AsksFor(n, k) <=> AsksFor(run, k)
  BY <1>4 DEF AsksFor
<1>10. /\ \A x \in s : x \in rest \/ x = p
       /\ \A x \in PushesIn(s) : x = p
  BY <1>1 DEF PushesIn
<1> HIDE DEF rest, s, q
<1>11. ~Shows(app, "form")
  BY <1>6, <1>8 DEF FormHere, FormOpen, Coming
<1>12. Shows(app, "ghauth") => run.q \in {"gh-auth", "attach"} /\ ~AsksFor(run, "gh-auth")
  BY <1>6, <1>8 DEF CodeHere, Coming
<1>13. KeysFresh(a, s)
  BY <1>1, <1>5, <1>10 DEF KeysFresh
<1>14. Shape(a, s)
  BY <1>3, <1>6 DEF Shape, OverlayShown
<1>15. FormOpen(a, n)
  BY <1>3, <1>4, <1>7, <1>9 DEF FormOpen, EventFits, Heard, q
<1>16. FormHere(a, s)
  BY <1>3, <1>5, <1>10, <1>11 DEF FormHere, Coming, Shows, PushesIn
<1>17. CodeHere(a, s, n)
  <2> SUFFICES ASSUME Coming(a, s, "ghauth")
               PROVE  /\ n.q \in {"gh-auth", "attach"}
                      /\ AsksFor(n, "gh-auth") => a.waiting = "gh-auth" /\ Heard(n)
    BY <1>3 DEF CodeHere
  <2>1. CASE Shows(app, "ghauth")
    BY <1>4, <1>9, <1>12, <2>1
  <2>2. CASE q = "gh-auth"
    <3>1. run.q \in Questions /\ 3 <= Index(run.q)
      BY <1>7, <2>2, IndexIs DEF EventFits, RunState, q
    <3>2. run.q \in {"gh-auth", "attach"}
      BY <3>1, IndexIs, NilIsNoQuestion
    <3> QED
      BY <1>3, <1>4, <1>7, <1>9, <2>2, <3>2 DEF Heard
  <2> QED
    BY <1>3, <1>5, <1>10, <2>1, <2>2 DEF Coming, Shows, PushesIn
<1>18. EventsFit(a, s, n)
  <2>1. \A x \in s : x.type # "waiting"
    BY <1>1, <1>5, <1>10
  <2>2. ASSUME NEW i \in DOMAIN run.feed, run.feed[i].type = "waiting"
        PROVE  /\ EventFits(a, run.feed[i], n)
               /\ AsksFor(n, run.feed[i].step) => i = Len(n.feed)
    <3>1. EventFits(app, run.feed[i], run) /\ (AsksFor(run, run.feed[i].step) => i = Len(run.feed))
      BY <1>6, <2>2 DEF EventsFit
    <3>2. run.feed # <<>>
      BY <2>2
    <3>3. run.feed[i].step = "config" => q # "config"
      BY <1>7, <3>1, <3>2 DEF EventFits
    <3> QED
      BY <1>3, <1>4, <1>9, <3>1, <3>3 DEF EventFits
  <2> QED
    BY <1>4, <2>1, <2>2 DEF EventsFit
<1>19. Calm(a, s, n)
  BY <1>13, <1>14, <1>15, <1>16, <1>17, <1>18 DEF Calm
<1> QED
  BY <1>19 DEF s, rest

\* The app learns of the end of its pipeline.
LEMMA DoneCalm ==
  ASSUME FlowInv, app.pipe # 0, NEW run, run.pumps = 0, Calm(app, msgs, run),
         NEW rest, rest \subseteq msgs, UsersIn(rest) = {},
         NEW a, AppOK(a), a.stack = <<"menu">>, a.awaiting = app.awaiting, a.pipe = 0,
         a.waiting = app.waiting
  PROVE  Calm(a, rest, NoRun)
<1>1. /\ \A m \in rest : m.type \notin {"menu", "result", "pop", "push"}
      /\ PushesIn(rest) = {}
  BY NoUsers DEF FlowInv
<1>2. a.waiting # "config" /\ a.awaiting = {}
  BY DEF Calm, FormOpen, Heard, Shape
<1>3. Depth(a) = 1 /\ \A i \in DOMAIN a.stack : a.stack[i] = "menu"
  BY DEF Depth
<1> QED
  BY <1>1, <1>2, <1>3
     DEF Calm, KeysFresh, Shape, Framed, FormOpen, FormHere, CodeHere, Coming, Shows

\* Other messages come and go.
LEMMA OthersCalm ==
  ASSUME NEW run, Calm(app, msgs, run), NEW s,
         \A m \in s : m \in msgs \/ m.type \notin {"menu", "result", "pop", "push", "waiting"}
  PROVE  Calm(app, s, run)
<1>1. KeysFresh(app, s)
  BY DEF Calm, KeysFresh
<1>2. PushesIn(s) \subseteq PushesIn(msgs)
  BY DEF PushesIn
<1>3. Shape(app, s) /\ FormHere(app, s) /\ CodeHere(app, s, run)
  BY <1>2 DEF Calm, Shape, FormHere, CodeHere, Coming
<1>4. app.pipe # 0 => EventsFit(app, s, run)
  BY DEF Calm, EventsFit
<1> QED
  BY <1>1, <1>3, <1>4 DEF Calm

\* The user types a key.
LEMMA TypedCalm ==
  ASSUME NEW run, Calm(app, msgs, run), NEW m \in KeyMsgs, KeysFresh(app, {m})
  PROVE  Calm(app, msgs \cup {m}, run)
<1>0. m.type \in {"menu", "result", "pop"}
  BY MsgKinds DEF Msgs
<1>1. KeysFresh(app, msgs \cup {m})
  BY DEF Calm, KeysFresh
<1>2. PushesIn(msgs \cup {m}) = PushesIn(msgs)
  BY <1>0 DEF PushesIn
<1>3. /\ Shape(app, msgs \cup {m}) /\ FormHere(app, msgs \cup {m})
      /\ CodeHere(app, msgs \cup {m}, run)
  BY <1>2 DEF Calm, Shape, FormHere, CodeHere, Coming
<1>4. app.pipe # 0 => EventsFit(app, msgs \cup {m}, run)
  BY <1>0 DEF Calm, EventsFit
<1> QED
  BY <1>1, <1>3, <1>4 DEF Calm

\* The pipeline asks the next question.
LEMMA AskCalm ==
  ASSUME FlowInv, app.pipe # 0, NEW run \in RunState, run.state = "working", Calm(app, msgs, run),
         NEW q \in Questions, run.q # Nil => Index(q) > Index(run.q),
         NEW e, e.type = "waiting", e.step = q,
         NEW n, n.feed = Append(run.feed, e), n.state = "asking", n.q = q
  PROVE  Calm(app, msgs, n)
<1>1. /\ FormOpen(app, run) /\ FormHere(app, msgs)
      /\ CodeHere(app, msgs, run) /\ EventsFit(app, msgs, run)
  BY DEF Calm
<1>2. \A k : ~AsksFor(run, k)
  BY DEF AsksFor
<1>3. app.waiting # "config"
  BY <1>1, <1>2 DEF FormOpen
<1>4. \A k \in Questions : Index(k) \in Nat
  BY IndexIs, NilIsNoQuestion
<1>5. q # Nil /\ \A k : AsksFor(n, k) <=> k = q
  BY NilIsNoQuestion DEF AsksFor
<1>6. CodeHere(app, msgs, n)
  <2> SUFFICES ASSUME Coming(app, msgs, "ghauth")
               PROVE  q \in {"gh-auth", "attach"} /\ q # "gh-auth"
    BY <1>5 DEF CodeHere
  <2>1. run.q \in {"gh-auth", "attach"}
    BY <1>1 DEF CodeHere
  <2>2. Index(q) > 3
    BY <2>1, <1>4, IndexIs, NilIsNoQuestion
  <2> QED
    BY <2>2, IndexIs, NilIsNoQuestion
<1>7. ASSUME NEW k, EventFits(app, k, run), k.step \in Questions
      PROVE  EventFits(app, k, n) /\ k.step # q
  <2>1. run.q \in Questions /\ Index(k.step) <= Index(run.q) /\ k.step # "config"
    BY <1>2, <1>7 DEF EventFits, RunState
  <2>2. Index(k.step) < Index(q)
    BY <1>4, <1>7, <2>1, NilIsNoQuestion
  <2> QED
    BY <1>4, <1>5, <1>7, <2>1, <2>2 DEF EventFits
<1>8. EventFits(app, e, n)
  BY <1>3, <1>4, <1>5 DEF EventFits
<1>9. run.feed \in Seq(PipelineMsgs)
  BY DEF RunState
<1>10. \A k \in PipelineMsgs : k.type = "waiting" => k.step \in Questions
  BY DEF PipelineMsgs
<1>11. ASSUME NEW i \in DOMAIN n.feed, n.feed[i].type = "waiting"
       PROVE  EventFits(app, n.feed[i], n) /\ (AsksFor(n, n.feed[i].step) => i = Len(n.feed))
  <2>1. \/ i \in DOMAIN run.feed /\ n.feed[i] = run.feed[i] /\ run.feed[i] \in PipelineMsgs
        \/ i = Len(n.feed) /\ n.feed[i] = e
    BY <1>9, <1>11
  <2>2. CASE i \in DOMAIN run.feed /\ n.feed[i] = run.feed[i] /\ run.feed[i] \in PipelineMsgs
    <3>1. EventFits(app, run.feed[i], run) /\ run.feed[i].step \in Questions
      BY <1>1, <1>10, <1>11, <2>2 DEF EventsFit
    <3> QED
      BY <1>5, <1>7, <2>2, <3>1
  <2> QED
    BY <1>8, <2>1, <2>2
<1>12. ASSUME NEW m \in msgs, m.type = "waiting"
       PROVE  EventFits(app, m, n) /\ ~AsksFor(n, m.step)
  <2>1. EventFits(app, m, run) /\ m.step \in Questions
    BY <1>1, <1>12, MsgKinds DEF EventsFit, FlowInv, AppTypeOK
  <2> QED
    BY <1>5, <1>7, <2>1
<1>13. EventsFit(app, msgs, n)
  BY <1>11, <1>12 DEF EventsFit
<1> QED
  BY <1>1, <1>3, <1>6, <1>13 DEF Calm, FormOpen

\* The pipeline goes on or ends, with no answer of the user's.
LEMMA StopCalm ==
  ASSUME app.pipe # 0, NEW run \in RunState, Calm(app, msgs, run),
         run.state = "working" \/ AsksFor(run, "gh-auth"),
         NEW n, n.q = run.q, n.state # "asking",
         n.feed = run.feed \/ \E e : e.type = "done" /\ n.feed = Append(run.feed, e)
  PROVE  Calm(app, msgs, n)
<1>1. /\ FormOpen(app, run) /\ FormHere(app, msgs)
      /\ CodeHere(app, msgs, run) /\ EventsFit(app, msgs, run)
  BY DEF Calm
<1>2. \A k : ~AsksFor(n, k)
  BY DEF AsksFor
<1>3. ~AsksFor(run, "config")
  BY DEF AsksFor
<1>4. FormOpen(app, n) /\ CodeHere(app, msgs, n)
  BY <1>1, <1>2, <1>3 DEF FormOpen, CodeHere
<1>5. \A k : EventFits(app, k, run) => EventFits(app, k, n)
  BY <1>3 DEF EventFits
<1>6. run.feed \in Seq(PipelineMsgs)
  BY DEF RunState
<1>7. ASSUME NEW i \in DOMAIN n.feed, n.feed[i].type = "waiting"
      PROVE  EventFits(app, n.feed[i], n)
  <2>1. i \in DOMAIN run.feed /\ n.feed[i] = run.feed[i]
    BY <1>6, <1>7
  <2> QED
    BY <1>1, <1>5, <1>7, <2>1 DEF EventsFit
<1>8. EventsFit(app, msgs, n)
  BY <1>1, <1>2, <1>5, <1>7 DEF EventsFit
<1> QED
  BY <1>1, <1>4, <1>8 DEF Calm

\* An event leaves the channel for the app.
LEMMA PumpCalm ==
  ASSUME FlowInv, app.pipe # 0, NEW run \in RunState, Calm(app, msgs, run),
         PipelineIn(msgs) = {}, NEW e \in PipelineMsgs, NEW f,
         \/ run.feed # <<>> /\ e = Head(run.feed) /\ f = Tail(run.feed)
         \/ run.feed = <<>> /\ f = <<>> /\ e.type = "done" /\ run.state = "over",
         NEW n, n.q = run.q, n.state = run.state, n.feed = f
  PROVE  Calm(app, msgs \cup {e}, n)
<1> DEFINE s == msgs \cup {e}
<1>0. /\ KeysFresh(app, msgs) /\ Shape(app, msgs) /\ FormOpen(app, run) /\ FormHere(app, msgs)
      /\ CodeHere(app, msgs, run) /\ EventsFit(app, msgs, run)
  BY DEF Calm
<1>1. e.type \in {"waiting", "done"}
  BY DEF PipelineMsgs
<1>2. PushesIn(s) = PushesIn(msgs) /\ \A x \in s : x \in msgs \/ x = e
  BY <1>1 DEF PushesIn
<1>3. \A m \in msgs : m.type # "waiting"
  BY NoEvents DEF FlowInv
<1>4. \A k : AsksFor(n, k) <=> AsksFor(run, k)
  BY DEF AsksFor
<1>5. ASSUME NEW k, AsksFor(run, k) PROVE ~Heard(run)
  BY <1>5 DEF AsksFor, Heard
<1> HIDE DEF s
<1>6. KeysFresh(app, s) /\ Shape(app, s) /\ FormHere(app, s)
  BY <1>0, <1>1, <1>2 DEF KeysFresh, Shape, FormHere, Coming
<1>7. FormOpen(app, n) /\ CodeHere(app, s, n)
  BY <1>0, <1>2, <1>4, <1>5 DEF FormOpen, CodeHere, Coming
<1>8. \A k : EventFits(app, k, run) => EventFits(app, k, n)
  BY <1>4 DEF EventFits
<1>9. EventsFit(app, s, n)
  <2>1. CASE run.feed # <<>> /\ e = Head(run.feed) /\ f = Tail(run.feed)
    <3>1. run.feed \in Seq(PipelineMsgs)
      BY DEF RunState
    <3>2. e = run.feed[1] /\ 1 \in DOMAIN run.feed /\ Len(f) = Len(run.feed) - 1 /\ (Len(run.feed) = 1 => f = <<>>)
      BY <2>1, <3>1
    <3>3. \A i \in DOMAIN f : i + 1 \in DOMAIN run.feed /\ f[i] = run.feed[i + 1] /\ i \in Int
      BY <2>1, <3>1
    <3>4. e.type = "waiting" => EventFits(app, e, n) /\ (AsksFor(n, e.step) => f = <<>>)
      BY <1>0, <1>4, <1>8, <3>2 DEF EventsFit
    <3>5. ASSUME NEW i \in DOMAIN f, f[i].type = "waiting"
          PROVE  EventFits(app, f[i], n) /\ (AsksFor(n, f[i].step) => i = Len(f))
      <4>1. EventFits(app, f[i], run) /\ (AsksFor(run, f[i].step) => i + 1 = Len(run.feed))
        BY <1>0, <3>3, <3>5 DEF EventsFit
      <4>2. i + 1 = Len(run.feed) => i = Len(f)
        BY <3>1, <3>2, <3>3
      <4> QED
        BY <1>4, <1>8, <4>1, <4>2
    <3> QED
      BY <1>2, <1>3, <3>4, <3>5 DEF EventsFit
  <2>2. CASE run.feed = <<>> /\ f = <<>> /\ e.type = "done"
    BY <1>2, <1>3, <2>2 DEF EventsFit
  <2> QED
    BY <2>1, <2>2
<1>10. Calm(app, s, n)
  BY <1>6, <1>7, <1>9 DEF Calm
<1> QED
  BY <1>10 DEF s

-----------------------------------------------------------------------------
(* The steps. *)

\* What a calm application looks like to a handler.
LEMMA CalmFinds ==
  ASSUME FlowInv, CalmNow
  PROVE  /\ review \in BOOLEAN /\ AppOK(app) /\ Current \in RunState
         /\ KeysFresh(app, msgs) /\ Shape(app, msgs) /\ FormOpen(app, Current)
         /\ FormHere(app, msgs) /\ CodeHere(app, msgs, Current)
         /\ app.pipe # 0 => /\ EventsFit(app, msgs, Current) /\ Current = runs[app.pipe]
                            /\ app.pipe \in Runs /\ app.awaiting = {} /\ ~OverlayShown(app)
         /\ app.pipe = 0 => /\ Current = NoRun /\ app.waiting # "config"
                            /\ PushesIn(msgs) = {} /\ Framed(app)
<1>1. review \in BOOLEAN /\ AppOK(app) /\ runs \in [Runs -> RunState]
  BY DEF FlowInv, AppTypeOK, AppOK
<1>2. app.pipe # 0 => app.pipe \in Runs
  BY <1>1, AppAssumption DEF AppOK, AppState, Runs
<1>3. Calm(app, msgs, Current)
  BY DEF CalmNow
<1> QED
  BY <1>1, <1>2, <1>3, NoRunIs DEF Calm, Current, FormOpen, Shape

\* A calm step handles the last of the user's messages, if there is any.
LEMMA NoneOvertaken ==
  ASSUME FlowInv, OneUserMsg, NEW rest, rest \subseteq msgs, NEW o, Update(o, rest), overtaken' = 0
  PROVE  overtaken = 0 /\ UsersIn(rest) = {}
<1>1. overtaken \in Nat /\ MaxOvertakes \in Nat /\ overtaken <= MaxOvertakes
  BY AppAssumption DEF FlowInv, AppTypeOK
<1>2. overtaken' = IF Overtakes(rest) /\ overtaken < MaxOvertakes THEN overtaken + 1 ELSE overtaken
  BY DEF Update
<1>3. overtaken = 0 /\ ~(Overtakes(rest) /\ overtaken < MaxOvertakes)
  BY <1>1, <1>2
<1>4. ASSUME Overtakes(rest) PROVE FALSE
  <2>1. MaxOvertakes = 0
    BY <1>1, <1>3, <1>4
  <2>2. (msgs \ rest) \cap UserMsgs # {}
    BY <1>4, <2>1, <1>3 DEF Update
  <2> QED
    BY <1>4, <2>1, <2>2 DEF Overtakes, OneUserMsg, UsersIn
<1> QED
  BY <1>3, <1>4 DEF Overtakes, UsersIn

\* A step of the user's flow or of the answers.
Meek(o, rest) ==
  /\ Fits(o, rest)
  /\ app.pipe = 0 => FreeOutcome(o)
  /\ app.pipe # 0 => TurnOutcome(o)

LEMMA TurnRun ==
  ASSUME FlowInv, app.pipe \in Runs, NEW rest, NEW o, Fits(o, rest), TurnOutcome(o)
  PROVE  RunsAfter(o)[app.pipe] = RunTold(runs[app.pipe], o)
<1>1. ~o.start /\ o.app.pipe = app.pipe
  BY DEF TurnOutcome
<1>2. LET n == RunsAfter(o)[app.pipe]
      IN  \/ o.resume # Nil /\ n = Resume(runs[app.pipe], o.resume, o.answer)
          \/ o.resume = Nil /\ n = runs[app.pipe]
  BY <1>1, RunsAfterIs
<1> QED
  BY <1>2 DEF RunTold

LEMMA MeekCalm ==
  ASSUME FlowInv, CalmNow, NEW rest, rest \subseteq msgs, UsersIn(rest) = {},
         NEW o, Meek(o, rest), Update(o, rest)
  PROVE  CalmNow'
<1>0. /\ app' = o.app /\ msgs' = rest /\ runs' = RunsAfter(o)
      /\ Fits(o, rest) /\ OutcomeOK(o) /\ runs \in [Runs -> RunState]
  BY DEF Update, Meek, Fits, FlowInv, AppTypeOK
<1>r. /\ RunsAfter(o) \in [Runs -> RunState]
      /\ \A r \in Runs :
           LET n == RunsAfter(o)[r]
           IN  \/ n = NoRun /\ r # o.app.pipe
               \/ o.start /\ r = o.app.pipe /\ n = FreshRun(o)
               \/ ~o.start /\ o.resume # Nil /\ r = app.pipe
                    /\ n = Resume(runs[r], o.resume, o.answer)
               \/ n = runs[r] /\ ~(o.start /\ r = o.app.pipe)
                    /\ ~(o.resume # Nil /\ r = app.pipe)
  BY <1>0, RunsAfterIs
<1>f. /\ Current \in RunState
      /\ app.pipe # 0 => Current = runs[app.pipe] /\ app.pipe \in Runs
  BY CalmFinds
<1>1. OneUserMsg'
  BY <1>0 DEF OneUserMsg
<1>2. CASE app.pipe = 0
  <2>1. FreeOutcome(o)
    BY <1>2 DEF Meek
  <2>2. Current' = IF o.app.pipe = 0 THEN NoRun ELSE FreshRun(o)
    BY <1>0, <1>r, <2>1 DEF Current, FreeOutcome, Unused
  <2>3. Calm(o.app, rest, Current')
    BY <1>0, <1>2, <2>1, <2>2, FreeCalm
  <2>4. \A r \in Runs : runs'[r] \in {NoRun, FreshRun(o), runs[r]}
    BY <1>0, <1>r, <2>1 DEF FreeOutcome
  <2>5. NoRun.answer = "none" /\ FreshRun(o).answer = "none"
    BY <1>0, NoRunIs, FreshRunIs
  <2>6. Answered'
    BY <2>4, <2>5 DEF CalmNow, Answered, Suits
  <2> QED
    BY <1>0, <1>1, <2>3, <2>6 DEF CalmNow
<1>3. CASE app.pipe # 0
  <2>1. TurnOutcome(o) /\ ~o.start /\ o.app.pipe = app.pipe
    BY <1>3 DEF Meek, TurnOutcome
  <2>2. runs'[app.pipe] = RunTold(Current, o)
    BY <1>0, <1>3, <1>f, <2>1, TurnRun
  <2>3. Calm(o.app, rest, RunTold(Current, o))
    BY <1>0, <1>3, <1>f, <2>1, TurnCalm DEF CalmNow
  <2>4. Current' = RunTold(Current, o)
    BY <1>0, <1>3, <2>1, <2>2 DEF Current
  <2>5. Suits(runs'[app.pipe].q, runs'[app.pipe].answer)
    <3>1. Suits(Current.q, Current.answer)
      BY <1>3, <1>f DEF CalmNow, Answered
    <3>2. \/ RunTold(Current, o) = Current
          \/ /\ o.resume # Nil /\ Current.q = o.resume
             /\ RunTold(Current, o).q = Current.q /\ RunTold(Current, o).answer = o.answer
      BY <1>0, <1>f, ToldIs DEF AsksFor
    <3>3. o.resume # Nil => Suits(o.resume, o.answer)
      BY <2>1 DEF TurnOutcome, Suits
    <3> QED
      BY <2>2, <3>1, <3>2, <3>3
  <2>6. \A r \in Runs : r # app.pipe => runs'[r] \in {NoRun, runs[r]}
    BY <1>0, <1>r, <2>1
  <2>7. Answered'
    BY <2>5, <2>6, NoRunIs DEF CalmNow, Answered, Suits
  <2> QED
    BY <1>0, <1>1, <2>3, <2>4, <2>7 DEF CalmNow
<1> QED
  BY <1>2, <1>3

\* What a message but the pipeline's and the screen of a question leads to.
LEMMA DeliverMeek ==
  ASSUME FlowInv, CalmNow, NEW m \in msgs, m.type \notin {"waiting", "done", "exec", "push"},
         NEW o \in Handle(m), ~o.quit
  PROVE  Meek(o, msgs \ {m})
<1>1. Fits(o, msgs \ {m})
  BY DeliverFits
<1>2. m \in Msgs /\ m.type \in MsgTypes
  BY MsgKinds DEF FlowInv, AppTypeOK
<1>3. /\ review \in BOOLEAN /\ AppOK(app) /\ KeysFresh(app, msgs) /\ FormHere(app, msgs)
      /\ app.pipe # 0 => app.awaiting = {} /\ ~OverlayShown(app)
      /\ app.pipe = 0 => app.waiting # "config" /\ Framed(app)
  BY CalmFinds
<1>4. CASE m.type = "menu"
  <2>1. m.action \in Actions /\ o \in HandleMenuChosen(app, m.action) /\ Depth(app) = 1
    BY <1>2, <1>3, <1>4, MsgKinds DEF Handle, KeysFresh
  <2> QED
    BY <1>1, <1>3, <2>1, MenuFree, MenuTurn DEF Meek
<1>5. CASE m.type = "result"
  <2>1. /\ m.from \in Overlays \cup {"form"} /\ o \in HandleScreenResult(app, m)
        /\ Depth(app) > 1 /\ Top(app) = m.from
    BY <1>2, <1>3, <1>5, MsgKinds DEF Handle, KeysFresh
  <2>2. app.pipe = 0 => FreeOutcome(o)
    BY <1>3, <2>1, ResultFree
  <2>3. ASSUME app.pipe # 0 PROVE TurnOutcome(o)
    <3>1. Depth(app) \in DOMAIN app.stack
      BY <1>3 DEF AppOK, AppState, Depth
    <3>2. m.from = "form"
      BY <1>3, <2>1, <2>3, <3>1 DEF OverlayShown, Top
    <3>3. app.waiting = "config"
      BY <1>3, <2>1, <3>1, <3>2 DEF FormHere, Coming, Shows, Top
    <3> QED
      BY <1>3, <2>1, <2>3, <3>2, <3>3, ResultTurn
  <2> QED
    BY <1>1, <2>2, <2>3 DEF Meek
<1>6. CASE m.type = "pop"
  <2>1. o \in HandleScreenPop(app) /\ Depth(app) > 1
    BY <1>3, <1>6 DEF Handle, KeysFresh
  <2> QED
    BY <1>1, <1>3, <2>1, PopFree, PopTurn DEF Meek
<1>7. CASE m.type = "execdone"
  <2>1. m.step \in InTerminal /\ o \in HandleExecDone(app, m.step)
    BY <1>2, <1>7, MsgKinds DEF Handle
  <2>2. app.pipe = 0 => FreeOutcome(o)
    BY <1>3, <2>1, OutFree DEF HandleExecDone
  <2> QED
    BY <1>1, <1>3, <2>1, <2>2, ExecDoneTurn DEF Meek
<1>8. CASE m.type = "jobdone"
  <2>1. o \in HandleJobDone(app, m.job)
    BY <1>8 DEF Handle
  <2>2. JobsOn
    BY <1>8 DEF JobsOn, JobsDone
  <2>3. app.pipe = 0 /\ ~OverlayShown(app)
    BY <2>2 DEF FlowInv, OneOn, NoFlowDuringJob
  <2> QED
    BY <1>1, <1>3, <2>1, <2>3, JobDoneFree DEF Meek
<1> QED
  BY <1>2, <1>4, <1>5, <1>6, <1>7, <1>8 DEF MsgTypes

\* A question screen that arrives changes the stack only.
LEMMA PushIs ==
  ASSUME FlowInv, NEW m \in msgs, m.type = "push", NEW o \in Handle(m), Update(o, msgs \ {m})
  PROVE  /\ ~o.quit /\ app' = Push(app, m.screen) /\ msgs' = msgs \ {m}
         /\ Push(app, m.screen).pipe = app.pipe
         /\ \A r \in Runs : runs'[r] = runs[r] \/ (runs'[r] = NoRun /\ r # app.pipe)
<1>1. o = Out(Push(app, m.screen))
  BY DEF Handle
<1>2. o.app = Push(app, m.screen) /\ Quiet(o)
  BY <1>1, OutFields
<1>3. Push(app, m.screen).pipe = app.pipe
  <2>1. AppOK(app) /\ m.screen \in Screens
    BY MsgKinds DEF FlowInv, AppTypeOK, AppOK, Screens
  <2> QED
    BY <2>1, PushFields
<1>4. Started(o) = runs
  BY <1>2 DEF Started, Pumped, Told, Quiet
<1>5. \A r \in Runs : runs'[r] = runs[r] \/ (runs'[r] = NoRun /\ r # app.pipe)
  BY <1>2, <1>3, <1>4 DEF Update, RunsAfter
<1> QED
  BY <1>2, <1>3, <1>5 DEF Update, Quiet

LEMMA PushedCalm ==
  ASSUME FlowInv, CalmNow, NEW m \in msgs, m.type = "push", UsersIn(msgs \ {m}) = {},
         NEW o \in Handle(m), Update(o, msgs \ {m})
  PROVE  CalmNow'
<1>1. /\ app' = Push(app, m.screen) /\ msgs' = msgs \ {m}
      /\ Push(app, m.screen).pipe = app.pipe
      /\ \A r \in Runs : runs'[r] = runs[r] \/ (runs'[r] = NoRun /\ r # app.pipe)
  BY PushIs
<1>2. /\ app.pipe # 0 => app.pipe \in Runs /\ Current = runs[app.pipe]
      /\ app.pipe = 0 => PushesIn(msgs) = {}
  BY CalmFinds
<1>3. app.pipe # 0
  BY <1>2 DEF PushesIn
<1>4. Current' = Current
  BY <1>1, <1>2, <1>3 DEF Current
<1>5. Calm(Push(app, m.screen), msgs \ {m}, Current)
  BY <1>3, PushCalm DEF CalmNow
<1>6. OneUserMsg' /\ Answered'
  BY <1>1, NoRunIs DEF CalmNow, OneUserMsg, UsersIn, Answered, Suits
<1> QED
  BY <1>1, <1>4, <1>5, <1>6 DEF CalmNow

LEMMA WaitingStep ==
  ASSUME FlowInv, CalmNow, NEW m \in msgs, m.type = "waiting", UsersIn(msgs \ {m}) = {},
         NEW o \in Handle(m), Update(o, msgs \ {m})
  PROVE  CalmNow'
<1>0. /\ app.pipe \in Runs /\ runs[app.pipe] \in RunState /\ runs[app.pipe].pumps = 0
      /\ PipelineIn(msgs \ {m}) = {} /\ AppOK(app) /\ runs \in [Runs -> RunState]
  BY EventFinds
<1>q. m.step \in Questions /\ o \in HandleWaiting(app, m.step) /\ app.pipe # 0
  BY <1>0, MsgKinds, AppAssumption DEF FlowInv, AppTypeOK, Handle, Runs
<1>p. PICK p \in CommandMsgs :
        /\ p = IF m.step \in InTerminal THEN [type |-> "exec", step |-> m.step]
               ELSE [type |-> "push", screen |-> ScreenFor(m.step)]
        /\ o.post = {p} /\ o.app = [app EXCEPT !.waiting = m.step]
        /\ ~o.start /\ o.resume = Nil /\ o.pump
  BY <1>q, WaitingIs
<1>1. app' = o.app /\ o.app.pipe = app.pipe /\ msgs' = (msgs \ {m}) \cup {p}
  BY <1>0, <1>p, <1>q DEF Update, AppOK, AppState
<1>2. Started(o) = [runs EXCEPT ![app.pipe].pumps = 1]
  <2>1. Started(o) = [runs EXCEPT ![app.pipe].pumps = @ + 1]
    BY <1>p DEF Started, Pumped, Told
  <2>2. runs[app.pipe].pumps + 1 = 1
    BY <1>0
  <2> QED
    BY <2>1, <2>2
<1>3. \A r \in Runs : runs'[r] = IF r = app.pipe THEN [runs[r] EXCEPT !.pumps = 1]
                                 ELSE IF Spent(runs[r]) THEN NoRun ELSE runs[r]
  BY <1>0, <1>1, <1>2 DEF Update, RunsAfter
<1>4. Current = runs[app.pipe] /\ Current' = [Current EXCEPT !.pumps = 1]
  BY <1>0, <1>1, <1>3, <1>q DEF Current
<1>5. Calm(o.app, (msgs \ {m}) \cup {p}, Current')
  BY <1>0, <1>4, <1>p, <1>q, WaitingCalm DEF CalmNow
<1>6. Answered'
  <2>1. /\ [runs[app.pipe] EXCEPT !.pumps = 1].q = runs[app.pipe].q
        /\ [runs[app.pipe] EXCEPT !.pumps = 1].answer = runs[app.pipe].answer
    BY <1>0 DEF RunState
  <2> QED
    BY <1>0, <1>3, <2>1, NoRunIs DEF CalmNow, Answered, Suits
<1>7. OneUserMsg'
  BY <1>1 DEF OneUserMsg, UsersIn
<1> QED
  BY <1>1, <1>5, <1>6, <1>7 DEF CalmNow

LEMMA DoneStep ==
  ASSUME FlowInv, CalmNow, NEW m \in msgs, m.type = "done", UsersIn(msgs \ {m}) = {},
         NEW o \in Handle(m), Update(o, msgs \ {m})
  PROVE  CalmNow'
<1>0. /\ app.pipe \in Runs /\ runs[app.pipe] \in RunState /\ runs[app.pipe].pumps = 0
      /\ AppOK(app) /\ app.pipe # 0
  BY EventFinds, AppAssumption DEF Runs
<1> DEFINE b == [app EXCEPT !.pipe = 0, !.busy = FALSE, !.launchCancelled = FALSE]
<1>1. /\ AppOK(b) /\ b.awaiting = app.awaiting /\ b.pipe = 0 /\ b.waiting = app.waiting
  <2>1. 0 \in 0 .. Slots
    BY AppAssumption
  <2> QED
    BY <1>0, <2>1 DEF AppOK, AppState
<1>2. o = Out(BackToMenu(b))
  BY <1>0 DEF Handle, HandlePipelineDone
<1> HIDE DEF b
<1>3. /\ AppOK(o.app) /\ o.app.stack = <<"menu">> /\ o.app.awaiting = app.awaiting
      /\ o.app.pipe = 0 /\ o.app.waiting = app.waiting /\ Quiet(o)
  BY <1>1, <1>2, BackToMenuFields, OutFields
<1>4. app' = o.app /\ msgs' = msgs \ {m} /\ runs' = RunsAfter(o)
  BY <1>3 DEF Update, Quiet
<1>5. \A r \in Runs : runs'[r] = NoRun \/ runs'[r] = runs[r]
  <2>1. Started(o) = runs
    BY <1>3 DEF Started, Pumped, Told, Quiet
  <2> QED
    BY <1>4, <2>1 DEF RunsAfter
<1>6. Current = runs[app.pipe] /\ Current' = NoRun
  BY <1>0, <1>3, <1>4 DEF Current
<1>7. Calm(o.app, msgs \ {m}, Current')
  BY <1>0, <1>3, <1>6, DoneCalm DEF CalmNow
<1>8. OneUserMsg' /\ Answered'
  BY <1>4, <1>5, NoRunIs DEF CalmNow, OneUserMsg, UsersIn, Answered, Suits
<1> QED
  BY <1>4, <1>7, <1>8 DEF CalmNow

\* A message is handled.
LEMMA DeliverCalm ==
  ASSUME FlowInv, CalmNow, NEW m \in msgs, Deliver(m), overtaken' = 0
  PROVE  QuitProgram \/ CalmNow'
<1>1. PICK o \in Handle(m) : Apply(o, msgs \ {m})
  BY DEF Deliver
<1>2. CASE o.quit
  BY <1>1, <1>2 DEF Apply
<1>3. CASE ~o.quit
  <2>1. Update(o, msgs \ {m}) /\ m.type # "exec"
    BY <1>1, <1>3 DEF Apply, Deliver
  <2>2. UsersIn(msgs \ {m}) = {}
    BY <2>1, NoneOvertaken DEF CalmNow
  <2>3. CASE m.type = "push"
    BY <2>1, <2>2, <2>3, PushedCalm
  <2>4. CASE m.type = "waiting"
    BY <2>1, <2>2, <2>4, WaitingStep
  <2>5. CASE m.type = "done"
    BY <2>1, <2>2, <2>5, DoneStep
  <2>6. CASE m.type \notin {"push", "waiting", "done"}
    <3>1. Meek(o, msgs \ {m})
      BY <1>3, <2>1, <2>6, DeliverMeek
    <3> QED
      BY <2>1, <2>2, <3>1, MeekCalm
  <2> QED
    BY <2>3, <2>4, <2>5, <2>6
<1> QED
  BY <1>2, <1>3

LEMMA EscMeek ==
  ASSUME FlowInv, CalmNow, Esc, NEW o \in HandleScreenPop(app)
  PROVE  Meek(o, msgs)
<1>1. /\ review \in BOOLEAN /\ AppOK(app) /\ Depth(app) > 1
      /\ app.pipe # 0 => app.awaiting = {}
      /\ app.pipe = 0 => app.waiting # "config" /\ Framed(app)
  BY CalmFinds DEF Esc
<1>2. KeysIn(msgs) = {} /\ JobsDoneIn(msgs) = JobsDone
  BY DEF Esc, Unhurried, KeysIn, JobsDoneIn, JobsDone
<1>3. Fits(o, msgs)
  BY <1>2, ScreenPopFits
<1> QED
  BY <1>1, <1>3, PopFree, PopTurn DEF Meek

LEMMA EscCalm ==
  ASSUME FlowInv, CalmNow, Esc, overtaken' = 0
  PROVE  QuitProgram \/ CalmNow'
<1>1. PICK o \in HandleScreenPop(app) : Apply(o, msgs)
  BY DEF Esc
<1>2. CASE o.quit
  BY <1>1, <1>2 DEF Apply
<1>3. CASE ~o.quit
  <2>1. Update(o, msgs)
    BY <1>1, <1>3 DEF Apply
  <2>2. UsersIn(msgs) = {} /\ Meek(o, msgs)
    BY <2>1, NoneOvertaken, EscMeek DEF CalmNow
  <2> QED
    BY <2>1, <2>2, MeekCalm
<1> QED
  BY <1>2, <1>3

\* The invariant when the application and its pipeline stay as they are.
LEMMA SameCalm ==
  ASSUME CalmNow, app' = app, runs' = runs, Calm(app, msgs', Current), OneUserMsg'
  PROVE  CalmNow'
<1>1. Current' = Current
  BY DEF Current
<1> QED
  BY <1>1 DEF CalmNow, Answered

LEMMA TypeCalm ==
  ASSUME FlowInv, CalmNow, NEW m \in KeyMsgs, Type(m), KeysFresh(app, {m}), overtaken' = 0
  PROVE  CalmNow'
<1>1. msgs' = msgs \cup {m} /\ app' = app /\ runs' = runs /\ overtaken = 0
  BY DEF Type
<1>2. Calm(app, msgs', Current)
  BY <1>1, TypedCalm DEF CalmNow
<1>3. OneUserMsg'
  <2>1. MaxOvertakes = 0 => msgs = {}
    BY <1>1 DEF Type, Unhurried
  <2> QED
    BY <1>1, <2>1 DEF OneUserMsg, UsersIn
<1> QED
  BY <1>1, <1>2, <1>3, SameCalm

LEMMA KeysCalm ==
  ASSUME FlowInv, CalmNow, Keys, overtaken' = 0
  PROVE  QuitProgram \/ CalmNow'
<1>1. ASSUME NEW action \in Actions, ChooseAction(action) PROVE CalmNow'
  <2> DEFINE m == [type |-> "menu", action |-> action]
  <2>1. m \in KeyMsgs /\ KeysFresh(app, {m})
    BY <1>1 DEF KeyMsgs, KeysFresh, ChooseAction
  <2>2. Type(m)
    BY <1>1 DEF ChooseAction
  <2> HIDE DEF m
  <2> QED
    BY <2>1, <2>2, TypeCalm
<1>2. ASSUME NEW value \in Values, Enter(value) PROVE CalmNow'
  <2> DEFINE m == [type |-> "result", from |-> Top(app), value |-> value]
  <2>1. Top(app) \in Overlays \cup {"form"}
    BY <1>2 DEF Enter, Choices, Overlays
  <2>2. m \in KeyMsgs /\ m.type = "result" /\ m.from = Top(app)
    BY <2>1 DEF KeyMsgs
  <2>3. Type(m) /\ Depth(app) > 1
    BY <1>2 DEF Enter
  <2> HIDE DEF m
  <2>4. KeysFresh(app, {m})
    BY <2>2, <2>3 DEF KeysFresh
  <2> QED
    BY <2>2, <2>3, <2>4, TypeCalm
<1>3. ASSUME AbortForm PROVE CalmNow'
  <2> DEFINE m == [type |-> "pop"]
  <2>1. m \in KeyMsgs /\ Type(m) /\ KeysFresh(app, {m})
    BY <1>3 DEF KeyMsgs, AbortForm, KeysFresh
  <2> HIDE DEF m
  <2> QED
    BY <2>1, TypeCalm
<1> QED
  BY <1>1, <1>2, <1>3, EscCalm DEF Keys, QuitKey

\* A program takes the terminal or leaves it, or a job ends.
LEMMA OutsideCalm ==
  ASSUME FlowInv, CalmNow,
         (\E m \in msgs : TakeTerminal(m)) \/ ProgramEnds \/ (\E job \in Jobs : JobEnds(job))
  PROVE  CalmNow'
<1>1. PICK new : /\ \A m \in msgs' : m \in msgs \/ m = new
                 /\ new.type \in {"execdone", "jobdone"}
                 /\ app' = app /\ runs' = runs
  <2>1. ASSUME NEW m \in msgs, TakeTerminal(m)
        PROVE  msgs' \subseteq msgs /\ app' = app /\ runs' = runs
    BY <2>1 DEF TakeTerminal
  <2>2. ASSUME ProgramEnds
        PROVE  /\ msgs' = msgs \cup {[type |-> "execdone", step |-> terminal]}
               /\ app' = app /\ runs' = runs
    BY <2>2 DEF ProgramEnds
  <2>3. ASSUME NEW job \in Jobs, JobEnds(job)
        PROVE  /\ msgs' = msgs \cup {[type |-> "jobdone", job |-> job]}
               /\ app' = app /\ runs' = runs
    BY <2>3 DEF JobEnds
  <2>4. ASSUME NEW x PROVE [type |-> "execdone", step |-> x].type = "execdone" /\ [type |-> "jobdone", job |-> x].type = "jobdone"
    OBVIOUS
  <2> QED
    BY <2>1, <2>2, <2>3, <2>4
<1>2. Calm(app, msgs', Current)
  BY <1>1, OthersCalm DEF CalmNow
<1>3. OneUserMsg'
  <2>1. new \notin UserMsgs
    BY <1>1 DEF UserMsgs, KeyMsgs
  <2> QED
    BY <1>1, <2>1 DEF CalmNow, OneUserMsg, UsersIn
<1> QED
  BY <1>1, <1>2, <1>3, SameCalm

\* The pipeline of the app goes on.
LEMMA RunCalm ==
  ASSUME FlowInv, CalmNow, app.pipe \in Runs, app' = app, msgs' \subseteq msgs \cup PipelineMsgs,
         NEW n, runs' = [runs EXCEPT ![app.pipe] = n], Calm(app, msgs', n),
         (n.q = Current.q /\ n.answer = Current.answer) \/ n.answer = "none"
  PROVE  CalmNow'
<1>1. Current = runs[app.pipe] /\ Current' = n
  BY AppAssumption DEF Current, FlowInv, AppTypeOK, Runs
<1>2. Answered'
  BY <1>1 DEF CalmNow, Answered, Suits, FlowInv, AppTypeOK
<1>3. OneUserMsg'
  <2>1. \A m \in PipelineMsgs : m \notin UserMsgs
    BY UserKinds, MsgKinds DEF Msgs
  <2> QED
    BY <2>1 DEF CalmNow, OneUserMsg, UsersIn
<1> QED
  BY <1>1, <1>2, <1>3 DEF CalmNow

LEMMA EngineCalm ==
  ASSUME FlowInv, CalmNow, NEW r \in Runs, EngineStep(r)
  PROVE  CalmNow'
<1>0. /\ r = app.pipe /\ UNCHANGED <<app, msgs>> /\ runs \in [Runs -> RunState] /\ app.pipe # 0
  BY EngineIs, AppAssumption DEF FlowInv, AppTypeOK, Runs
<1> DEFINE run == runs[r]
<1>c. run = Current /\ run \in RunState /\ Calm(app, msgs, run)
  BY <1>0 DEF Current, CalmNow
<1>1. ASSUME NEW q \in Questions, Ask(r, q) PROVE CalmNow'
  <2> DEFINE e == [type |-> "waiting", step |-> q]
             f == Append(run.feed, e)
             n == [run EXCEPT !.state = "asking", !.q = q, !.answer = "none", !.feed = f]
  <2>1. runs' = [runs EXCEPT ![r] = n]
    BY <1>0, <1>1 DEF Ask
  <2>2. run.state = "working" /\ (run.q # Nil => Index(q) > Index(run.q))
    BY <1>1 DEF Ask
  <2>3. e.type = "waiting" /\ e.step = q
    OBVIOUS
  <2> HIDE DEF e, run
  <2>4. n.feed = f /\ n.state = "asking" /\ n.q = q /\ n.answer = "none"
    BY <1>c DEF RunState
  <2> HIDE DEF n
  <2>5. Calm(app, msgs, n)
    BY <1>0, <1>c, <2>2, <2>3, <2>4, AskCalm
  <2> QED
    BY <1>0, <2>1, <2>4, <2>5, RunCalm
<1>2. ASSUME SignedIn(r) PROVE CalmNow'
  <2> DEFINE n == [run EXCEPT !.state = "working"]
  <2>1. runs' = [runs EXCEPT ![r] = n]
    BY <1>0, <1>2 DEF SignedIn
  <2>2. AsksFor(run, "gh-auth")
    BY <1>2 DEF SignedIn, AsksFor
  <2> HIDE DEF run
  <2>3. n.feed = run.feed /\ n.state = "working" /\ n.q = run.q /\ n.answer = run.answer
    BY <1>c DEF RunState
  <2> HIDE DEF n
  <2>4. Calm(app, msgs, n)
    BY <1>0, <1>c, <2>2, <2>3, StopCalm
  <2> QED
    BY <1>0, <1>c, <2>1, <2>3, <2>4, RunCalm
<1>3. ASSUME End(r) PROVE CalmNow'
  <2>0. PICK failed \in BOOLEAN :
          runs' = [runs EXCEPT ![r].state = "over",
                               ![r].feed = Append(@, [type |-> "done", failed |-> failed])]
    BY <1>3 DEF End
  <2> DEFINE e == [type |-> "done", failed |-> failed]
             f == Append(run.feed, e)
             n == [run EXCEPT !.state = "over", !.feed = f]
  <2>1. runs' = [runs EXCEPT ![r] = n]
    BY <1>0, <2>0
  <2>2. run.state = "working" /\ e.type = "done"
    BY <1>3 DEF End
  <2> HIDE DEF e, run
  <2>3. n.feed = f /\ n.state = "over" /\ n.q = run.q /\ n.answer = run.answer
    BY <1>c DEF RunState
  <2> HIDE DEF n
  <2>4. Calm(app, msgs, n)
    BY <1>0, <1>c, <2>2, <2>3, StopCalm
  <2> QED
    BY <1>0, <1>c, <2>1, <2>3, <2>4, RunCalm
<1> QED
  BY <1>1, <1>2, <1>3 DEF EngineStep

LEMMA PumpedCalm ==
  ASSUME FlowInv, CalmNow, NEW r \in Runs, Pump(r)
  PROVE  CalmNow'
<1>0. /\ r = app.pipe /\ app' = app /\ PipelineIn(msgs) = {}
      /\ runs \in [Runs -> RunState] /\ app.pipe # 0
  <2>1. r # 0 /\ runs \in [Runs -> RunState]
    BY AppAssumption DEF FlowInv, AppTypeOK, Runs
  <2> QED
    BY <2>1, PumpIs
<1>1. PICK e \in PipelineMsgs, f \in Seq(PipelineMsgs) :
        /\ msgs' = msgs \cup {e}
        /\ runs' = [runs EXCEPT ![r] = [@ EXCEPT !.pumps = 0, !.feed = f]]
        /\ \/ runs[r].feed # <<>> /\ e = Head(runs[r].feed) /\ f = Tail(runs[r].feed)
           \/ runs[r].feed = <<>> /\ f = <<>> /\ e.type = "done" /\ runs[r].state = "over"
  BY PumpIs
<1> DEFINE run == runs[r]
           n == [run EXCEPT !.pumps = 0, !.feed = f]
<1>2. run = Current /\ run \in RunState /\ Calm(app, msgs, run)
  BY <1>0 DEF Current, CalmNow
<1>3. /\ runs' = [runs EXCEPT ![r] = n]
      /\ \/ run.feed # <<>> /\ e = Head(run.feed) /\ f = Tail(run.feed)
         \/ run.feed = <<>> /\ f = <<>> /\ e.type = "done" /\ run.state = "over"
  BY <1>0, <1>1
<1> HIDE DEF run
<1>4. n.feed = f /\ n.state = run.state /\ n.q = run.q /\ n.answer = run.answer
  BY <1>2 DEF RunState
<1> HIDE DEF n
<1>5. Calm(app, msgs', n)
  BY <1>0, <1>1, <1>2, <1>3, <1>4, PumpCalm
<1> QED
  BY <1>0, <1>1, <1>2, <1>3, <1>4, <1>5, RunCalm

\* The application that starts, for the first time or again, is calm.
LEMMA BlankCalm == Calm(Blank, {}, NoRun)
<1>1. Blank.pipe = 0 /\ Blank.stack = <<"menu">> /\ Blank.awaiting = {} /\ Blank.waiting = Nil
  BY DEF Blank
<1>2. Depth(Blank) = 1 /\ \A i \in DOMAIN Blank.stack : Blank.stack[i] = "menu"
  BY <1>1 DEF Depth
<1> QED
  BY <1>1, <1>2, AppAssumption DEF Calm, KeysFresh, Shape, Framed, FormOpen, FormHere, CodeHere,
     Coming, Shows, PushesIn

LEMMA CalmInitInv == AppInit => CalmInv
<1> SUFFICES ASSUME AppInit PROVE CalmNow
  BY DEF CalmInv
<1>1. app = Blank /\ msgs = {} /\ Current = NoRun /\ \A r \in Runs : runs[r] = NoRun
  BY DEF AppInit, Current, Blank
<1> QED
  BY <1>1, BlankCalm, NoRunIs DEF CalmNow, OneUserMsg, UsersIn, Answered, Suits

LEMMA QuitCalm == QuitProgram => CalmNow'
<1> SUFFICES ASSUME QuitProgram PROVE CalmNow'
  OBVIOUS
<1>1. app' = Blank /\ msgs' = {} /\ Current' = NoRun /\ \A r \in Runs : runs'[r] = NoRun
  BY DEF QuitProgram, Current, Blank
<1> QED
  BY <1>1, BlankCalm, NoRunIs DEF CalmNow, OneUserMsg, UsersIn, Answered, Suits

\* Overtakes are only forgotten when the program ends.
LEMMA CalmBefore ==
  ASSUME FlowInv, [AppNext]_appVars, overtaken' = 0
  PROVE  QuitProgram \/ overtaken = 0
<1>1. overtaken \in Nat
  BY AppAssumption DEF FlowInv, AppTypeOK
<1>2. ASSUME NEW o, NEW rest, Apply(o, rest) PROVE QuitProgram \/ overtaken = 0
  BY <1>1, <1>2 DEF Apply, Update
<1>3. CASE Keys
  <2>1. CASE Esc
    BY <1>2, <2>1 DEF Esc
  <2>2. CASE QuitKey
    BY <2>2 DEF QuitKey
  <2> QED
    BY <1>3, <2>1, <2>2 DEF Keys, ChooseAction, Enter, AbortForm, Type
<1>4. ASSUME NEW m \in msgs, Deliver(m) \/ TakeTerminal(m) PROVE QuitProgram \/ overtaken = 0
  BY <1>2, <1>4 DEF Deliver, TakeTerminal
<1>5. CASE UNCHANGED appVars
  BY <1>5 DEF appVars
<1>6. CASE ProgramEnds \/ \E job \in Jobs : JobEnds(job)
  BY <1>6 DEF ProgramEnds, JobEnds
<1>7. ASSUME NEW r \in Runs, Engine(r) \/ SignedIn(r) \/ Pump(r) PROVE overtaken = 0
  BY <1>7 DEF Engine, Ask, End, SignedIn, Pump
<1> QED
  BY <1>3, <1>4, <1>5, <1>6, <1>7 DEF AppNext

LEMMA CalmStepInv == FlowInv /\ CalmInv /\ [AppNext]_appVars => CalmInv'
<1> SUFFICES ASSUME FlowInv, CalmInv, [AppNext]_appVars, overtaken' = 0 PROVE CalmNow'
  BY DEF CalmInv
<1>1. CASE QuitProgram
  BY <1>1, QuitCalm
<1>2. CASE ~QuitProgram
  <2>1. CalmNow
    BY <1>2, CalmBefore DEF CalmInv
  <2>2. CASE UNCHANGED appVars
    BY <2>1, <2>2, SameCalm DEF appVars, CalmNow, OneUserMsg, UsersIn
  <2>3. CASE AppNext
    BY <1>2, <2>1, <2>3, KeysCalm, DeliverCalm, OutsideCalm, EngineCalm, PumpedCalm
       DEF AppNext, Engine, EngineStep
  <2> QED
    BY <2>2, <2>3
<1> QED
  BY <1>1, <1>2

\* As long as nothing overtakes the user's messages, a step of the pipeline
\* gets the kind of answer its question asks for.
THEOREM AnswersSuit == AppSpec => []AnswersMatch
<1>1. CalmInv => AnswersMatch
  BY DEF CalmInv, CalmNow, Answered, AnswersMatch
<1> QED
  BY <1>1, FlowInitInv, FlowStepInv, CalmInitInv, CalmStepInv, PTL DEF AppSpec

-----------------------------------------------------------------------------
(* An open question stays. *)

LEMMA ShownFinds ==
  ASSUME FlowInv, CalmNow, NEW q \in Questions \ InTerminal, Shown(q)
  PROVE  /\ app.pipe \in Runs /\ app.pipe # 0 /\ runs[app.pipe] \in RunState
         /\ AsksFor(runs[app.pipe], q) /\ Heard(runs[app.pipe]) /\ app.waiting = q
<1>1. /\ app.pipe # 0 /\ app.pipe \in Runs /\ Current = runs[app.pipe] /\ Current \in RunState
      /\ FormOpen(app, Current) /\ FormHere(app, msgs) /\ CodeHere(app, msgs, Current)
  BY CalmFinds DEF Shown
<1>2. AsksFor(Current, q) /\ Coming(app, msgs, ScreenFor(q))
  BY <1>1 DEF Shown, AsksFor, Coming, Shows
<1>3. q \in {"config", "gh-auth"}
  BY NilIsNoQuestion DEF InTerminal
<1>4. CASE q = "config"
  BY <1>1, <1>2, <1>4 DEF FormHere, FormOpen, ScreenFor
<1>5. CASE q = "gh-auth"
  BY <1>1, <1>2, <1>5 DEF CodeHere, ScreenFor
<1> QED
  BY <1>1, <1>2, <1>3, <1>4, <1>5

LEMMA MeekShown ==
  ASSUME FlowInv, CalmNow, NEW q \in Questions \ InTerminal, Shown(q),
         NEW rest, NEW o, Meek(o, rest), Update(o, rest), runs'[app.pipe].state = "asking"
  PROVE  Shown(q)'
<1>1. /\ app.pipe \in Runs /\ app.pipe # 0 /\ runs[app.pipe] \in RunState
      /\ AsksFor(runs[app.pipe], q) /\ app.waiting = q
  BY ShownFinds
<1>2. Fits(o, rest) /\ OutcomeOK(o) /\ TurnOutcome(o)
  BY <1>1 DEF Meek, Fits
<1>3. app' = o.app /\ o.app.pipe = app.pipe /\ runs'[app.pipe] = RunTold(runs[app.pipe], o)
  BY <1>1, <1>2, TurnRun DEF Update, TurnOutcome
<1>4. runs'[app.pipe] = runs[app.pipe] /\ o.resume # q
  BY <1>1, <1>2, <1>3, ToldIs, NilIsNoQuestion DEF AsksFor
<1>5. o.app.stack = app.stack
  BY <1>1, <1>2, <1>4 DEF TurnOutcome
<1> QED
  BY <1>3, <1>4, <1>5 DEF Shown

LEMMA PushShown ==
  ASSUME FlowInv, CalmNow, NEW q \in Questions \ InTerminal, Shown(q),
         NEW m \in msgs, m.type = "push", NEW o \in Handle(m), Update(o, msgs \ {m})
  PROVE  Shown(q)'
<1>1. app.pipe \in Runs /\ app.pipe # 0
  BY ShownFinds
<1>2. /\ app' = Push(app, m.screen) /\ Push(app, m.screen).pipe = app.pipe
      /\ runs'[app.pipe] = runs[app.pipe]
  BY <1>1, PushIs
<1>3. AppOK(app) /\ m.screen \in Screens
  BY MsgKinds DEF FlowInv, AppTypeOK, AppOK, Screens
<1>4. Push(app, m.screen).stack = Append(app.stack, m.screen)
  BY <1>3, PushFields
<1>5. ASSUME NEW i \in DOMAIN app.stack
      PROVE  i \in DOMAIN Append(app.stack, m.screen) /\ Append(app.stack, m.screen)[i] = app.stack[i]
  BY <1>3 DEF AppOK, AppState
<1> QED
  BY <1>2, <1>4, <1>5 DEF Shown

LEMMA DeliverShown ==
  ASSUME FlowInv, CalmNow, NEW q \in Questions \ InTerminal, Shown(q),
         NEW m \in msgs, Deliver(m), ~QuitProgram, runs'[app.pipe].state = "asking"
  PROVE  Shown(q)'
<1>1. PICK o \in Handle(m) : Update(o, msgs \ {m}) /\ ~o.quit /\ m.type # "exec"
  BY DEF Deliver, Apply
<1>2. CASE m.type \in {"waiting", "done"}
  <2>1. runs[app.pipe].pumps = 0
    BY <1>2, EventFinds
  <2>2. runs[app.pipe].pumps = 1
    BY ShownFinds DEF Heard
  <2> QED
    BY <2>1, <2>2
<1>3. CASE m.type = "push"
  BY <1>1, <1>3, PushShown
<1>4. CASE m.type \notin {"waiting", "done", "push"}
  <2>1. Meek(o, msgs \ {m})
    BY <1>1, <1>4, DeliverMeek
  <2> QED
    BY <1>1, <2>1, MeekShown
<1> QED
  BY <1>2, <1>3, <1>4

LEMMA EscShown ==
  ASSUME FlowInv, CalmNow, NEW q \in Questions \ InTerminal, Shown(q),
         Esc, ~QuitProgram, runs'[app.pipe].state = "asking"
  PROVE  Shown(q)'
<1>1. PICK o \in HandleScreenPop(app) : Update(o, msgs)
  BY DEF Esc, Apply
<1> QED
  BY <1>1, EscMeek, MeekShown

\* What the pipelines do by themselves does not touch the screens.
LEMMA RunShown ==
  ASSUME FlowInv, CalmNow, NEW q \in Questions \ InTerminal, Shown(q),
         NEW r \in Runs, EngineStep(r) \/ Pump(r), runs'[app.pipe].state = "asking"
  PROVE  Shown(q)'
<1>1. /\ app.pipe \in Runs /\ AsksFor(runs[app.pipe], q) /\ runs[app.pipe] \in RunState
      /\ runs \in [Runs -> RunState]
  BY ShownFinds DEF FlowInv, AppTypeOK
<1>2. CASE EngineStep(r)
  <2>1. r = app.pipe /\ runs[r].state = "asking"
    BY <1>1, <1>2, EngineIs DEF AsksFor
  <2>2. SignedIn(r)
    BY <1>2, <2>1 DEF EngineStep, Ask, End
  <2>3. runs'[r].state = "working"
    BY <1>1, <2>2 DEF SignedIn, RunState
  <2> QED
    BY <2>1, <2>3
<1>3. CASE Pump(r)
  <2>1. PICK f : /\ r = app.pipe /\ app' = app
                 /\ runs' = [runs EXCEPT ![r] = [@ EXCEPT !.pumps = 0, !.feed = f]]
    BY <1>3, PumpIs
  <2>2. runs'[r].state = runs[r].state /\ runs'[r].q = runs[r].q
    BY <1>1, <2>1 DEF RunState
  <2> QED
    BY <2>1, <2>2 DEF Shown
<1> QED
  BY <1>2, <1>3

LEMMA ShownStep ==
  ASSUME FlowInv, CalmInv, [AppNext]_appVars, NEW q \in Questions \ InTerminal, Shown(q),
         overtaken' = 0, runs'[app.pipe].state = "asking"
  PROVE  Shown(q)'
<1>1. ~QuitProgram
  <2>1. app.pipe \in Runs
    BY AppAssumption DEF Shown, FlowInv, AppTypeOK, AppState, Runs
  <2> QED
    BY <2>1, NoRunIs DEF QuitProgram
<1>2. CalmNow
  BY <1>1, CalmBefore DEF CalmInv
<1>3. ASSUME app' = app, runs' = runs PROVE Shown(q)'
  BY <1>3 DEF Shown
<1>4. CASE UNCHANGED appVars
  BY <1>3, <1>4 DEF appVars
<1>5. CASE Keys
  <2>1. CASE Esc
    BY <1>1, <1>2, <2>1, EscShown
  <2>2. CASE ~Esc
    BY <1>1, <1>3, <1>5, <2>2 DEF Keys, ChooseAction, Enter, AbortForm, QuitKey, Type
  <2> QED
    BY <2>1, <2>2
<1>6. ASSUME NEW m \in msgs, Deliver(m) PROVE Shown(q)'
  BY <1>1, <1>2, <1>6, DeliverShown
<1>7. ASSUME NEW m \in msgs, TakeTerminal(m) PROVE Shown(q)'
  BY <1>3, <1>7 DEF TakeTerminal
<1>8. CASE ProgramEnds \/ \E job \in Jobs : JobEnds(job)
  BY <1>3, <1>8 DEF ProgramEnds, JobEnds
<1>9. ASSUME NEW r \in Runs, Engine(r) \/ SignedIn(r) \/ Pump(r) PROVE Shown(q)'
  <2>1. EngineStep(r) \/ Pump(r)
    BY <1>9 DEF Engine, EngineStep
  <2> QED
    BY <1>2, <2>1, RunShown
<1> QED
  BY <1>4, <1>5, <1>6, <1>7, <1>8, <1>9 DEF AppNext

\* As long as nothing overtakes the user's messages, a question that shows its
\* screen keeps it until it is answered.
THEOREM QuestionsStay == AppSpec => OpenQuestionStays
<1>1. FlowInv /\ CalmInv /\ [AppNext]_appVars =>
        [\A q \in Questions \ InTerminal :
           Shown(q) => Shown(q)' \/ overtaken' # 0 \/ runs'[app.pipe].state # "asking"]_appVars
  BY ShownStep
<1> QED
  BY <1>1, FlowInitInv, FlowStepInv, CalmInitInv, CalmStepInv, PTL DEF AppSpec, OpenQuestionStays
=============================================================================
