------------------------------- MODULE Outbox -------------------------------
(***************************************************************************)
(* The Telegram outbox of internal/engine/notify.  A hook inside the       *)
(* container writes a .job file; the watcher inside the host's serve       *)
(* process scans the directory on every tick, sends what has no .status    *)
(* file, writes the status, and prunes old pairs.  The directory is all    *)
(* that survives the end of a process, and serve does not wait for the     *)
(* watcher when it ends.                                                   *)
(***************************************************************************)
EXTENDS Naturals, FiniteSets

\* The Mut... operators are slips a bug in this code could be; no action uses
\* them.  Each stands before the definition it would replace.

CONSTANTS
  Jobs,         \* job identifiers, one hook process each
  MaxAttempts,  \* maxTransientAttempts
  MaxFaults     \* bound on what may go wrong in one behaviour

None == "none"

ASSUME OutboxAssumption ==
  MaxAttempts \in Nat \ {0} /\ MaxFaults \in Nat /\ None \notin Jobs

VARIABLES
  hook,      \* the hook process of a job
  jobs,      \* the .job files
  status,    \* the .status files
  old,       \* the statuses older than DeliveredRetention
  pc,        \* where the watcher is
  at,        \* the job it works on
  todo,      \* what its present loop has left
  verdict,   \* the status it is about to write
  count,     \* attemptTracker.seen
  stopping,  \* the context of serve is cancelled
  faults,    \* failures and process ends so far
  tries,     \* calls of Send, per job
  copies,    \* messages that reached the chat, per job
  settled    \* jobs that have been given a status

dirVars     == <<jobs, status, old>>
watcherVars == <<pc, at, todo, verdict, count>>
history     == <<tries, copies, settled>>
vars == <<hook, dirVars, watcherVars, stopping, faults, history>>

TypeOK ==
  /\ hook \in [Jobs -> {"new", "writing", "done", "dead"}]
  /\ jobs \subseteq Jobs
  /\ status \in [Jobs -> {None, "ok", "failed"}]
  /\ old \subseteq Jobs
  /\ pc \in {"off", "wait", "prune", "pruneStatus", "deliver", "send", "record"}
  /\ at \in Jobs \cup {None}
  /\ pc \in {"pruneStatus", "send", "record"} <=> at # None
  /\ todo \subseteq Jobs
  /\ verdict \in {None, "ok", "failed"}
  /\ count \in [Jobs -> 0..MaxAttempts - 1]
  /\ stopping \in BOOLEAN
  /\ faults \in 0..MaxFaults
  /\ tries \in [Jobs -> Nat]
  /\ copies \in [Jobs -> Nat]
  /\ settled \subseteq Jobs

Init ==
  /\ hook = [j \in Jobs |-> "new"]
  /\ jobs = {} /\ status = [j \in Jobs |-> None] /\ old = {}
  /\ pc = "off" /\ at = None /\ todo = {} /\ verdict = None
  /\ count = [j \in Jobs |-> 0]
  /\ stopping = FALSE /\ faults = 0
  /\ tries = [j \in Jobs |-> 0] /\ copies = [j \in Jobs |-> 0] /\ settled = {}

Fault == faults < MaxFaults /\ faults' = faults + 1

-----------------------------------------------------------------------------
(* The hook process: WriteJob and writeAtomic.  The temporary file carries a *)
(* name the watcher does not look at.                                        *)

MutWriteJobInPlace(j) ==
  /\ hook[j] = "new"
  /\ hook' = [hook EXCEPT ![j] = "writing"]
  /\ jobs' = jobs \cup {j}
  /\ UNCHANGED <<status, old, watcherVars, stopping, faults, history>>

CreateTemp(j) ==
  /\ hook[j] = "new"
  /\ hook' = [hook EXCEPT ![j] = "writing"]
  /\ UNCHANGED <<dirVars, watcherVars, stopping, faults, history>>

Rename(j) ==
  /\ hook[j] = "writing"
  /\ hook' = [hook EXCEPT ![j] = "done"]
  /\ jobs' = jobs \cup {j}
  /\ UNCHANGED <<status, old, watcherVars, stopping, faults, history>>

\* A write that fails, or a hook killed before the rename: the job is given up.
GiveUp(j) ==
  /\ hook[j] \in {"new", "writing"} /\ Fault
  /\ hook' = [hook EXCEPT ![j] = "dead"]
  /\ UNCHANGED <<dirVars, watcherVars, stopping, history>>

-----------------------------------------------------------------------------
(* The watcher's process *)

\* Watch: attempts starts empty, so a new process knows nothing of the
\* attempts of the one before.
Start ==
  /\ pc = "off"
  /\ pc' = "wait"
  /\ count' = [j \in Jobs |-> 0]
  /\ UNCHANGED <<hook, dirVars, at, todo, verdict, stopping, faults, history>>

Signal ==
  /\ pc # "off" /\ ~stopping /\ Fault
  /\ stopping' = TRUE
  /\ UNCHANGED <<hook, dirVars, watcherVars, history>>

\* serve ends: on a signal, when its last client is gone, or by a crash.  Its
\* main goroutine returns without waiting for the watcher, whatever that is
\* doing; a request under way may or may not have reached the chat.
Die ==
  /\ pc # "off"
  /\ IF stopping THEN UNCHANGED faults ELSE Fault
  /\ \/ UNCHANGED copies
     \/ pc = "send" /\ copies' = [copies EXCEPT ![at] = @ + 1]
  /\ tries' = IF pc = "send" THEN [tries EXCEPT ![at] = @ + 1] ELSE tries
  /\ pc' = "off" /\ at' = None /\ todo' = {} /\ verdict' = None
  /\ count' = [j \in Jobs |-> 0]
  /\ stopping' = FALSE
  /\ UNCHANGED <<hook, dirVars, settled>>

-----------------------------------------------------------------------------
(* tick: PruneDelivered *)

\* The listing of statuses; a directory that cannot be read ends the pruning.
Tick ==
  /\ pc = "wait"
  /\ pc' = "prune"
  /\ \/ todo' = {j \in Jobs : status[j] # None} /\ UNCHANGED faults
     \/ todo' = {} /\ Fault
  /\ UNCHANGED <<hook, dirVars, at, verdict, count, stopping, history>>

KeepRecent(j) ==
  /\ pc = "prune" /\ j \in todo /\ j \notin old
  /\ todo' = todo \ {j}
  /\ UNCHANGED <<hook, dirVars, pc, at, verdict, count, stopping, faults, history>>

\* A job file that cannot be removed does not keep its status.
PruneJob(j) ==
  /\ pc = "prune" /\ j \in todo /\ j \in old
  /\ \/ jobs' = jobs \ {j} /\ UNCHANGED faults
     \/ j \in jobs /\ UNCHANGED jobs /\ Fault
  /\ pc' = "pruneStatus" /\ at' = j
  /\ UNCHANGED <<hook, status, old, todo, verdict, count, stopping, history>>

PruneStatus ==
  /\ pc = "pruneStatus"
  /\ \/ /\ status' = [status EXCEPT ![at] = None]
        /\ old' = old \ {at}
        /\ UNCHANGED faults
     \/ UNCHANGED <<status, old>> /\ Fault
  /\ todo' = todo \ {at}
  /\ pc' = "prune" /\ at' = None
  /\ UNCHANGED <<hook, jobs, verdict, count, stopping, history>>

Age(j) ==
  /\ status[j] # None /\ j \notin old
  /\ old' = old \cup {j}
  /\ UNCHANGED <<hook, jobs, status, watcherVars, stopping, faults, history>>

-----------------------------------------------------------------------------
(* tick: PendingJobs and deliver *)

MutPendingIgnoresStatus == jobs

MutPendingSkipsTried == {j \in jobs : status[j] = None /\ count[j] = 0}

Pending == {j \in jobs : status[j] = None}

Scan ==
  /\ pc = "prune" /\ todo = {}
  /\ \/ pc' = "deliver" /\ todo' = Pending /\ UNCHANGED faults
     \/ pc' = "wait" /\ UNCHANGED todo /\ Fault
  /\ UNCHANGED <<hook, dirVars, at, verdict, count, stopping, history>>

EndTick ==
  /\ pc = "deliver" /\ (todo = {} \/ stopping)
  /\ pc' = "wait" /\ todo' = {}
  /\ UNCHANGED <<hook, dirVars, at, verdict, count, stopping, faults, history>>

Read(j) ==
  /\ pc = "deliver" /\ j \in todo /\ ~stopping
  /\ todo' = todo \ {j}
  /\ \/ pc' = "send" /\ at' = j /\ UNCHANGED faults
     \/ UNCHANGED <<pc, at>> /\ Fault
  /\ UNCHANGED <<hook, dirVars, verdict, count, stopping, history>>

Tried == tries' = [tries EXCEPT ![at] = @ + 1]
Forget == count' = [count EXCEPT ![at] = 0]

\* The API acknowledged the message.
SendOk ==
  /\ pc = "send" /\ Tried
  /\ copies' = [copies EXCEPT ![at] = @ + 1]
  /\ verdict' = "ok" /\ Forget
  /\ pc' = "record"
  /\ UNCHANGED <<hook, dirVars, at, todo, stopping, faults, settled>>

MutSendRefusedUnnoticed ==
  /\ pc = "send" /\ Tried
  /\ verdict' = "ok" /\ Forget
  /\ pc' = "record"
  /\ UNCHANGED <<hook, dirVars, at, todo, stopping, faults, copies, settled>>

\* ErrPermanent: the API refused the message.
SendRefused ==
  /\ pc = "send" /\ Tried
  /\ verdict' = "failed" /\ Forget
  /\ pc' = "record"
  /\ UNCHANGED <<hook, dirVars, at, todo, stopping, faults, copies, settled>>

\* Any other error counts, and is final when it is the third.
Transient ==
  \/ /\ count[at] + 1 < MaxAttempts
     /\ count' = [count EXCEPT ![at] = @ + 1]
     /\ pc' = "deliver" /\ at' = None /\ UNCHANGED verdict
  \/ /\ count[at] + 1 >= MaxAttempts
     /\ Forget /\ verdict' = "failed"
     /\ pc' = "record" /\ UNCHANGED at

\* No token, no network, a cancelled context: nothing reached the chat.
SendFailed ==
  /\ pc = "send" /\ Tried /\ Transient
  /\ UNCHANGED <<hook, dirVars, todo, stopping, faults, copies, settled>>

\* The message reached the chat and its acknowledgement did not come back.
SendLost ==
  /\ pc = "send" /\ Tried /\ Transient /\ Fault
  /\ copies' = [copies EXCEPT ![at] = @ + 1]
  /\ UNCHANGED <<hook, dirVars, todo, stopping, settled>>

\* A notifier that panics is recovered by tick, which ends.
SendPanics ==
  /\ pc = "send" /\ Tried /\ Fault
  /\ pc' = "wait" /\ at' = None /\ todo' = {}
  /\ UNCHANGED <<hook, dirVars, verdict, count, stopping, copies, settled>>

\* WriteStatus.  When it fails the job stays pending, its attempts forgotten.
Record ==
  /\ pc = "record"
  /\ \/ /\ status' = [status EXCEPT ![at] = verdict]
        /\ settled' = settled \cup {at}
        /\ UNCHANGED faults
     \/ UNCHANGED <<status, settled>> /\ Fault
  /\ pc' = "deliver" /\ at' = None /\ verdict' = None
  /\ UNCHANGED <<hook, jobs, old, todo, count, stopping, tries, copies>>

-----------------------------------------------------------------------------
Hook(j)  == CreateTemp(j) \/ Rename(j)
Prune    == (\E j \in Jobs : KeepRecent(j) \/ PruneJob(j)) \/ PruneStatus
Deliver  == \/ \E j \in Jobs : Read(j)
            \/ SendOk \/ SendRefused \/ SendFailed \/ SendLost \/ SendPanics \/ Record
Watcher  == Tick \/ Prune \/ Scan \/ EndTick \/ Deliver

Next ==
  \/ \E j \in Jobs : Hook(j) \/ GiveUp(j) \/ Age(j)
  \/ Start \/ Signal \/ Die
  \/ Watcher

Spec == Init /\ [][Next]_vars

\* The watcher's goroutine is scheduled, a started hook goes on, time passes,
\* a signalled process ends, and the user starts mirabilis again.
Fairness ==
  /\ WF_vars(Watcher) /\ WF_vars(Start)
  /\ \A j \in Jobs : WF_vars(Rename(j)) /\ WF_vars(Age(j))
  /\ WF_vars(stopping /\ Die)

FairSpec == Spec /\ Fairness

-----------------------------------------------------------------------------
(* Properties *)

\* Every copy of a message beyond the first was paid for by a fault: a process
\* that ended, an acknowledgement or a status lost, a job that could not be
\* pruned.  Neither the retries nor the pruning duplicate a message.
DuplicatesNeedFaults == \A j \in Jobs : copies[j] <= 1 + faults

\* A job costs at most three calls of the API for each round, and a new round
\* needs a fault.
RetriesAreBounded == \A j \in Jobs : tries[j] <= MaxAttempts * (1 + faults)

\* What a status says is what happened: "ok" only of a message in the chat, and
\* "failed", as long as nothing went wrong but the sending, only of one that is
\* not there and was refused or tried three times.
StatusIsHonest ==
  \A j \in Jobs :
    /\ status[j] = "ok" => copies[j] > 0
    /\ status[j] = "failed" /\ faults = 0 => copies[j] = 0 /\ tries[j] > 0

\* The watcher never sees a job that is still being written, and a job that was
\* queued is in the directory until it has been given a status.
NoJobTornOrLost ==
  \A j \in Jobs : /\ j \in jobs => hook[j] = "done"
                  /\ hook[j] = "done" /\ j \notin settled => j \in jobs

\* A queued job is given a status in the end, however the API behaves and
\* whenever serve is restarted, if things stop going wrong.
QueuedIsSettled == \A j \in Jobs : j \in jobs ~> j \in settled
=============================================================================
