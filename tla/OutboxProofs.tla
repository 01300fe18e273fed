---------------------------- MODULE OutboxProofs ----------------------------
(***************************************************************************)
(* Proofs about Outbox.  The argument: a job the watcher may still send is *)
(* one whose copies have all been paid for by faults; acknowledging it     *)
(* takes it out of the watcher's sight, and only a fault brings it back.   *)
(***************************************************************************)
EXTENDS Outbox, TLAPS

\* The watcher may send j (again) without a further fault.
Open(j) == /\ j \in jobs
           /\ status[j] = None \/ (pc = "pruneStatus" /\ at = j)
           /\ ~(pc = "record" /\ at = j)

Ending == IF stopping THEN 1 ELSE 0

\* Where the watcher stands agrees with the directory.
Place ==
  /\ pc = "off" => ~stopping /\ \A j \in Jobs : count[j] = 0
  /\ pc = "prune" => \A j \in todo : status[j] # None
  /\ pc = "pruneStatus" => status[at] # None /\ \A j \in todo \ {at} : status[j] # None
  /\ pc = "deliver" => \A j \in todo : j \in jobs /\ status[j] = None
  /\ pc \in {"send", "record"} => \A j \in todo \cup {at} : j \in jobs /\ status[j] = None
  /\ pc \in {"send", "record"} => at \notin todo
  /\ pc = "record" => verdict # None
  /\ stopping => faults > 0

Written == \A j \in Jobs :
  /\ hook[j] # "done" => j \notin jobs /\ copies[j] = 0 /\ tries[j] = 0
  /\ hook[j] = "done" /\ j \notin settled => j \in jobs
  /\ status[j] # None => j \in settled

Paid == \A j \in Jobs :
  copies[j] + Ending <= faults + (IF Open(j) THEN 0 ELSE 1)

\* What the watcher is about to write, and has written, is true.
Honest ==
  /\ pc = "record" =>
       /\ verdict = "ok" => copies[at] > 0
       /\ verdict = "failed" /\ faults = 0 => copies[at] = 0 /\ tries[at] > 0
  /\ StatusIsHonest

Inv == TypeOK /\ Place /\ Written /\ Paid /\ Honest

-----------------------------------------------------------------------------
LEMMA Fresh == [j \in Jobs |-> 0] \in [Jobs -> 0..MaxAttempts - 1]
  BY OutboxAssumption

LEMMA InitInv == Init => Inv
<1> SUFFICES ASSUME Init PROVE Inv
  OBVIOUS
<1>1. TypeOK
  <2>1. 0 \in 0..MaxFaults /\ [j \in Jobs |-> 0] \in [Jobs -> Nat]
    BY OutboxAssumption
  <2> QED
    BY <2>1, Fresh DEF Init, TypeOK, None
<1>2. Place /\ Written /\ Honest
  BY DEF Init, Place, Written, Honest, StatusIsHonest, None
<1>3. Paid
  BY DEF Init, Paid, Ending, Open
<1> QED
  BY <1>1, <1>2, <1>3 DEF Inv

LEMMA TypesStep == TypeOK /\ [Next]_vars => TypeOK'
<1> SUFFICES ASSUME TypeOK, [Next]_vars PROVE TypeOK'
  OBVIOUS
<1> USE OutboxAssumption DEF TypeOK, None, watcherVars, dirVars, history
<1>1. ASSUME NEW j \in Jobs, Hook(j) \/ GiveUp(j) \/ Age(j) PROVE TypeOK'
  BY <1>1 DEF Hook, CreateTemp, Rename, GiveUp, Age, Fault
<1>2. CASE Start
  BY <1>2, Fresh DEF Start
<1>3. CASE Signal
  BY <1>3 DEF Signal, Fault
<1>9. CASE Die
  <2>1. copies' \in [Jobs -> Nat] /\ tries' \in [Jobs -> Nat]
    BY <1>9 DEF Die
  <2>2. faults' \in 0..MaxFaults
    BY <1>9 DEF Die, Fault
  <2> QED
    BY <1>9, <2>1, <2>2, Fresh DEF Die
<1>4. CASE Tick
  BY <1>4 DEF Tick, Fault
<1>5. CASE Prune
  BY <1>5 DEF Prune, KeepRecent, PruneJob, PruneStatus, Fault
<1>6. CASE Scan \/ EndTick
  BY <1>6 DEF Scan, EndTick, Pending, Fault
<1>7. CASE Deliver
  <2>1. ASSUME NEW j \in Jobs, Read(j) PROVE TypeOK'
    BY <2>1 DEF Read, Fault
  <2>2. CASE SendOk \/ SendRefused \/ SendPanics
    BY <2>2 DEF SendOk, SendRefused, SendPanics, Tried, Forget, Fault
  <2>3. CASE SendFailed
    BY <2>3 DEF SendFailed, Transient, Tried, Forget
  <2>4. CASE SendLost
    BY <2>4 DEF SendLost, Transient, Tried, Forget, Fault
  <2>5. CASE Record
    BY <2>5 DEF Record, Fault
  <2> QED
    BY <1>7, <2>1, <2>2, <2>3, <2>4, <2>5 DEF Deliver
<1>8. CASE UNCHANGED vars
  BY <1>8 DEF vars
<1> QED
  BY <1>1, <1>2, <1>3, <1>4, <1>5, <1>6, <1>7, <1>8, <1>9 DEF Next, Watcher

-----------------------------------------------------------------------------
\* The steps of the hooks, of time and of the watcher's process.
LEMMA OutsideStep ==
  ASSUME Inv, TypeOK', NEW j \in Jobs, Hook(j) \/ GiveUp(j) \/ Age(j)
  PROVE  Inv'
<1>1. CASE CreateTemp(j) \/ GiveUp(j)
  BY <1>1 DEF CreateTemp, GiveUp, Fault, Inv, TypeOK, Place, Written, Paid, Honest, Open, Ending,
     StatusIsHonest, dirVars, watcherVars, history
<1>2. CASE Rename(j)
  <2>1. copies[j] = 0 /\ j \notin jobs
    BY <1>2 DEF Inv, Written, Rename
  <2>2. Place' /\ Written' /\ Honest'
    BY <1>2 DEF Rename, Inv, TypeOK, Place, Written, Honest, StatusIsHonest, watcherVars, history
  <2>3. Paid'
    BY <1>2, <2>1 DEF Rename, Inv, TypeOK, Place, Paid, Open, Ending, watcherVars, history
  <2> QED
    BY <2>2, <2>3 DEF Inv
<1>3. CASE Age(j)
  BY <1>3 DEF Age, Inv, TypeOK, Place, Written, Paid, Honest, Open, Ending, StatusIsHonest,
     dirVars, watcherVars, history
<1> QED
  BY <1>1, <1>2, <1>3 DEF Hook

LEMMA ProcessStep == ASSUME Inv, TypeOK', Start \/ Signal \/ Die PROVE Inv'
<1>1. CASE Start
  BY <1>1 DEF Start, Inv, TypeOK, Place, Written, Paid, Honest, Open, Ending, StatusIsHonest,
     dirVars, history
<1>2. CASE Signal
  BY <1>2 DEF Signal, Fault, Inv, TypeOK, Place, Written, Paid, Honest, Open, Ending,
     StatusIsHonest, dirVars, watcherVars, history
<1>3. CASE Die
  <2> USE <1>3 DEF Die, Inv, TypeOK
  <2>1. Place'
    BY DEF Place
  <2>2. Written'
    <3>1. pc = "send" => hook[at] = "done"
      BY DEF Written, Place
    <3>2. \A j \in Jobs : copies'[j] # copies[j] \/ tries'[j] # tries[j] => pc = "send" /\ j = at
      OBVIOUS
    <3>3. hook' = hook /\ jobs' = jobs /\ status' = status /\ settled' = settled
      BY DEF dirVars
    <3> QED
      BY <3>1, <3>2, <3>3 DEF Written
  <2>3. Paid'
    BY DEF Paid, Place, Open, Ending, Fault
  <2>4. Honest'
    <3>1. faults' # 0
      BY DEF Place, Fault
    <3>2. \A j \in Jobs : copies'[j] >= copies[j]
      OBVIOUS
    <3>3. \A j \in Jobs : status[j] = "ok" => copies'[j] > 0
      BY <3>2 DEF Honest, StatusIsHonest
    <3>4. pc' = "off" /\ status' = status
      BY DEF dirVars
    <3> QED
      BY <3>1, <3>3, <3>4 DEF Honest, StatusIsHonest
  <2> QED
    BY <2>1, <2>2, <2>3, <2>4
<1> QED
  BY <1>1, <1>2, <1>3

\* Pruning: a status goes only after its job, or after a fault.
LEMMA PruneStep ==
  ASSUME Inv, TypeOK', Tick \/ Prune \/ Scan \/ EndTick PROVE Inv'
<1> USE DEF Inv, TypeOK, dirVars, history
<1>1. CASE Tick \/ Scan \/ EndTick
  <2> USE <1>1 DEF Tick, Scan, EndTick, Fault, Pending
  <2>1. Place' /\ Written'
    BY DEF Place, Written
  <2>2. Paid'
    BY DEF Paid, Open, Ending
  <2>3. Honest'
    BY DEF Honest, StatusIsHonest
  <2> QED
    BY <2>1, <2>2, <2>3
<1>2. ASSUME NEW j \in Jobs, KeepRecent(j) PROVE Inv'
  BY <1>2 DEF KeepRecent, Place, Written, Paid, Open, Ending, Honest, StatusIsHonest
<1>3. ASSUME NEW j \in Jobs, PruneJob(j) PROVE Inv'
  <2> USE <1>3 DEF PruneJob, Fault
  <2>1. Place' /\ Written'
    BY DEF Place, Written
  <2>2. Paid'
    BY DEF Paid, Open, Ending, Place
  <2>3. Honest'
    BY DEF Honest, StatusIsHonest
  <2> QED
    BY <2>1, <2>2, <2>3
<1>4. CASE PruneStatus
  <2> USE <1>4 DEF PruneStatus, Fault, None
  <2>1. Place' /\ Written'
    BY DEF Place, Written
  <2>2. Paid'
    BY DEF Paid, Open, Ending, Place
  <2>3. Honest'
    BY DEF Honest, StatusIsHonest
  <2> QED
    BY <2>1, <2>2, <2>3
<1> QED
  BY <1>1, <1>2, <1>3, <1>4 DEF Prune

LEMMA DeliverStep == ASSUME Inv, TypeOK', Deliver PROVE Inv'
<1> USE DEF Inv, TypeOK, dirVars, history, Tried, Forget
<1>1. ASSUME NEW j \in Jobs, Read(j) PROVE Inv'
  BY <1>1 DEF Read, Fault, Place, Written, Paid, Open, Ending, Honest, StatusIsHonest
<1>2. CASE SendOk
  <2> USE <1>2 DEF SendOk
  <2>1. Place' /\ Written'
    BY DEF Place, Written, None
  <2>2. Paid'
    BY DEF Paid, Open, Ending, Place
  <2>3. Honest'
    BY DEF Honest, StatusIsHonest, Place, None
  <2> QED
    BY <2>1, <2>2, <2>3
<1>3. CASE SendRefused
  <2> USE <1>3 DEF SendRefused
  <2>1. Place' /\ Written'
    BY DEF Place, Written, None
  <2>2. Paid'
    BY DEF Paid, Open, Ending, Place
  <2>3. Honest'
    BY DEF Honest, StatusIsHonest, Place, Paid, Open, Ending, None
  <2> QED
    BY <2>1, <2>2, <2>3
<1>4. CASE SendFailed
  <2> USE <1>4 DEF SendFailed, Transient
  <2>1. Place' /\ Written'
    BY DEF Place, Written, None
  <2>2. Paid'
    BY DEF Paid, Open, Ending, Place
  <2>3. Honest'
    BY DEF Honest, StatusIsHonest, Place, Paid, Open, Ending, None
  <2> QED
    BY <2>1, <2>2, <2>3
<1>5. CASE SendLost
  <2> USE <1>5 DEF SendLost, Transient, Fault
  <2>1. Place' /\ Written'
    BY DEF Place, Written, None
  <2>2. Paid'
    BY DEF Paid, Open, Ending, Place
  <2>3. Honest'
    BY DEF Honest, StatusIsHonest, Place, None
  <2> QED
    BY <2>1, <2>2, <2>3
<1>6. CASE SendPanics
  <2> USE <1>6 DEF SendPanics, Fault
  <2>1. Place' /\ Written'
    BY DEF Place, Written
  <2>2. Paid'
    BY DEF Paid, Open, Ending, Place
  <2>3. Honest'
    BY DEF Honest, StatusIsHonest
  <2> QED
    BY <2>1, <2>2, <2>3
<1>7. CASE Record
  <2> USE <1>7 DEF Record, Fault
  <2>1. Place' /\ Written'
    BY DEF Place, Written
  <2>2. Paid'
    BY DEF Paid, Open, Ending, Place
  <2>3. Honest'
    BY DEF Honest, StatusIsHonest, Place
  <2> QED
    BY <2>1, <2>2, <2>3
<1> QED
  BY <1>1, <1>2, <1>3, <1>4, <1>5, <1>6, <1>7 DEF Deliver

LEMMA Inductive == Inv /\ [Next]_vars => Inv'
<1> SUFFICES ASSUME Inv, [Next]_vars PROVE Inv'
  OBVIOUS
<1>1. TypeOK'
  BY TypesStep DEF Inv
<1>2. CASE UNCHANGED vars
  BY <1>2 DEF vars, dirVars, watcherVars, history, Inv, TypeOK, Place, Written, Paid, Open,
     Ending, Honest, StatusIsHonest
<1> QED
  BY <1>1, <1>2, OutsideStep, ProcessStep, PruneStep, DeliverStep DEF Next, Watcher

THEOREM InvHolds == Spec => []Inv
  BY InitInv, Inductive, PTL DEF Spec

-----------------------------------------------------------------------------
\* Every copy beyond the first is paid for by a fault, for any number of jobs,
\* attempts and faults.
THEOREM CopiesPaidFor == Spec => []DuplicatesNeedFaults
<1>1. Inv => DuplicatesNeedFaults
  BY DEF Inv, TypeOK, Paid, Ending, DuplicatesNeedFaults
<1> QED
  BY <1>1, InvHolds, PTL

\* A status says what happened to the message.
THEOREM HonestStatus == Spec => []StatusIsHonest
<1>1. Inv => StatusIsHonest
  BY DEF Inv, Honest
<1> QED
  BY <1>1, InvHolds, PTL

\* No job is read while it is written, and none disappears before its status.
THEOREM NothingTornOrLost == Spec => []NoJobTornOrLost
<1>1. Inv => NoJobTornOrLost
  BY DEF Inv, Written, NoJobTornOrLost
<1> QED
  BY <1>1, InvHolds, PTL

-----------------------------------------------------------------------------
\* What the faults so far allow, and what a job may still have used of it.
Budget == MaxAttempts * faults

Rounds == \A j \in Jobs :
  tries[j] + (IF stopping THEN MaxAttempts ELSE 0)
    <= Budget + (IF Open(j) THEN count[j] ELSE MaxAttempts)

LEMMA BudgetSteps ==
  ASSUME TypeOK
  PROVE  /\ Budget \in Nat
         /\ Fault => Budget' = Budget + MaxAttempts
         /\ faults' = faults => Budget' = Budget
         /\ MaxAttempts * (1 + faults) = MaxAttempts + Budget
         /\ faults > 0 => Budget >= MaxAttempts
<1>1. MaxAttempts \in Nat /\ faults \in Nat
  BY OutboxAssumption DEF TypeOK
<1>2. MaxAttempts * (faults + 1) = MaxAttempts * faults + MaxAttempts
  BY <1>1
<1>3. faults > 0 => faults - 1 \in Nat /\ MaxAttempts * (faults - 1) \in Nat
                   /\ MaxAttempts * faults = MaxAttempts * (faults - 1) + MaxAttempts
  BY <1>1
<1> QED
  BY <1>1, <1>2, <1>3 DEF Budget, Fault

LEMMA RoundsStep == ASSUME Inv, Inv', Rounds, [Next]_vars PROVE Rounds'
<1>1. TypeOK /\ TypeOK' /\ Place /\ Written
  BY DEF Inv
<1>2. /\ MaxAttempts \in Nat \ {0}
      /\ Budget \in Nat
      /\ Fault => Budget' = Budget + MaxAttempts
      /\ faults' = faults => Budget' = Budget
      /\ stopping => Budget >= MaxAttempts
  BY <1>1, BudgetSteps, OutboxAssumption DEF Place
<1>3. \A j \in Jobs : count[j] \in Nat /\ count[j] < MaxAttempts
  BY <1>1, <1>2 DEF TypeOK
<1>4. SUFFICES ASSUME NEW k \in Jobs
               PROVE  (tries[k] + (IF stopping THEN MaxAttempts ELSE 0)
                        <= Budget + (IF Open(k) THEN count[k] ELSE MaxAttempts))'
  BY DEF Rounds
<1>5. /\ tries[k] \in Nat /\ tries'[k] \in Nat /\ count[k] \in Nat /\ count'[k] \in Nat
      /\ stopping \in BOOLEAN
      /\ tries[k] + (IF stopping THEN MaxAttempts ELSE 0)
           <= Budget + (IF Open(k) THEN count[k] ELSE MaxAttempts)
  BY <1>1 DEF Rounds, TypeOK
<1> DEFINE G == tries[k] + (IF stopping THEN MaxAttempts ELSE 0)
                 <= Budget + (IF Open(k) THEN count[k] ELSE MaxAttempts)
<1> USE <1>1, <1>2, <1>5 DEF dirVars, history, watcherVars, TypeOK
<1>6. ASSUME NEW j \in Jobs, Hook(j) PROVE G'
  <2>1. CASE CreateTemp(j)
    BY <2>1 DEF CreateTemp, Open
  <2>2. CASE Rename(j) /\ j # k
    BY <2>2 DEF Rename, Open
  <2>3. CASE Rename(j) /\ j = k
    <3>1. tries[k] = 0
      BY <2>3 DEF Rename, Written
    <3> QED
      BY <2>3, <3>1 DEF Rename
  <2> QED
    BY <1>6, <2>1, <2>2, <2>3 DEF Hook
<1>7. ASSUME NEW j \in Jobs, GiveUp(j) \/ Age(j) PROVE G'
  BY <1>7 DEF GiveUp, Age, Open
<1>8. CASE Start \/ Signal
  BY <1>8 DEF Start, Signal, Open, Place
<1>17. CASE Die
  <2>1. tries'[k] = tries[k] \/ (tries'[k] = tries[k] + 1 /\ Open(k))
    BY <1>17 DEF Die, Open, Place
  <2>2. tries'[k] + (IF stopping THEN MaxAttempts ELSE 0) <= Budget + MaxAttempts
    BY <1>3, <2>1
  <2>3. stopping' = FALSE /\ (stopping \/ Budget' = Budget + MaxAttempts)
        /\ (stopping => Budget' = Budget)
    BY <1>17 DEF Die
  <2>4. tries'[k] <= Budget' /\ count'[k] >= 0 /\ Budget' \in Nat
    BY <2>2, <2>3
  <2> QED
    BY <2>3, <2>4
<1>9. CASE Tick \/ Scan \/ EndTick
  BY <1>9 DEF Tick, Scan, EndTick, Open
<1>10. CASE Prune
  BY <1>10 DEF Prune, KeepRecent, PruneJob, PruneStatus, Open, Place
<1>11. ASSUME NEW j \in Jobs, Read(j) PROVE G'
  BY <1>11 DEF Read, Open
<1>12. CASE SendOk \/ SendRefused \/ SendPanics
  BY <1>12 DEF SendOk, SendRefused, SendPanics, Tried, Forget, Open, Place
<1>13. CASE SendFailed
  BY <1>13 DEF SendFailed, Transient, Tried, Forget, Open, Place
<1>14. CASE SendLost
  BY <1>14 DEF SendLost, Transient, Tried, Forget, Open, Place
<1>15. CASE Record
  BY <1>15 DEF Record, Open, Place
<1>16. CASE UNCHANGED vars
  BY <1>16 DEF vars, Open
<1> QED
  BY <1>6, <1>7, <1>8, <1>9, <1>10, <1>11, <1>12, <1>13, <1>14, <1>15, <1>16,
     <1>17 DEF Next, Watcher, Deliver

\* The calls of the API for one job are bounded by the faults, for any number of
\* attempts per round.
THEOREM BoundedRetries == Spec => []RetriesAreBounded
<1>1. Init => Rounds
  <2>1. ASSUME Init PROVE Budget \in Nat
    BY <2>1, InitInv, BudgetSteps DEF Inv
  <2> SUFFICES ASSUME Init, NEW j \in Jobs
               PROVE  tries[j] + (IF stopping THEN MaxAttempts ELSE 0)
                        <= Budget + (IF Open(j) THEN count[j] ELSE MaxAttempts)
    BY DEF Rounds
  <2>2. tries[j] = 0 /\ count[j] = 0 /\ ~stopping
    BY DEF Init
  <2> QED
    BY <2>1, <2>2, OutboxAssumption
<1>2. Inv /\ Inv' /\ Rounds /\ [Next]_vars => Rounds'
  BY RoundsStep
<1>3. Inv /\ Rounds => RetriesAreBounded
  <2> SUFFICES ASSUME Inv, Rounds, NEW j \in Jobs
               PROVE  tries[j] <= MaxAttempts * (1 + faults)
    BY DEF RetriesAreBounded
  <2>1. TypeOK
    BY DEF Inv
  <2>2. Budget \in Nat /\ MaxAttempts * (1 + faults) = MaxAttempts + Budget
    BY <2>1, BudgetSteps
  <2>3. tries[j] \in Nat /\ count[j] \in Nat /\ count[j] < MaxAttempts
    BY <2>1, OutboxAssumption DEF TypeOK
  <2> QED
    BY <2>2, <2>3, OutboxAssumption DEF Rounds
<1> QED
  BY <1>1, <1>2, <1>3, InvHolds, PTL DEF Spec

\* Every variable keeps its type.
THEOREM TypeCorrect == Spec => []TypeOK
<1>1. Init => TypeOK
  BY InitInv DEF Inv
<1> QED
  BY <1>1, TypesStep, PTL DEF Spec
=============================================================================
