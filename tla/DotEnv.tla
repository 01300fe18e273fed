------------------------------- MODULE DotEnv -------------------------------
(***************************************************************************)
(* The file .env of the repository (envRead, envWrite and envClear of      *)
(* internal/engine/config), which every TUI process reads and writes.  A   *)
(* write reads the whole file, takes one key out or puts it at the end,    *)
(* and writes the whole file back with os.WriteFile: the file is empty     *)
(* between its truncation and the write, and nothing keeps two processes   *)
(* from doing this at the same time.                                       *)
(*                                                                         *)
(* A process has a list of such writes to do, one after the other, and     *)
(* stops at the first error: the facade's SelectLoadout, WriteTune and     *)
(* ClearTune and the saves of the config step are lists of this kind.      *)
(***************************************************************************)
EXTENDS Naturals, Sequences, FiniteSets

CONSTANTS Procs,     \* the processes that write
          Keys,
          Values,
          None,      \* a key that is not there; as what is to be written: envClear
          Lost,      \* history: nobody can tell what the file has
          Files,     \* what the file may have at first
          MaxEvents  \* bounds the errors, the killed processes and the owner's edits


VARIABLES env,    \* the value that envRead finds of each key
          job,    \* the writes of each process
          events,
          due     \* history: the value that was written last, or Lost

file == <<env, job, events, due>>

Contents == [Keys -> Values \union {None}]

ASSUME DotEnvAssumption ==
  /\ None \notin Values /\ Lost \notin Values \union {None}
  /\ Files \subseteq Contents /\ MaxEvents \in Nat

Empty    == [k \in Keys |-> None]
Write    == [key : Keys, value : Values \union {None}]
Jobs     == [pc   : {"idle", "read", "open", "write", "failed"},
             todo : Seq(Write),
             copy : Contents]         \* what the process has read
NoJob    == [pc |-> "idle", todo |-> <<>>, copy |-> Empty]

EnvTypeOK ==
  /\ env \in Contents /\ due \in [Keys -> Values \union {None, Lost}]
  /\ job \in [Procs -> Jobs]
  /\ \A p \in Procs : job[p].pc \in {"open", "write"} => job[p].todo # <<>>
  /\ events \in 0 .. MaxEvents

EnvInit ==
  /\ env \in Files /\ due = env
  /\ job = [p \in Procs |-> NoJob]
  /\ events = 0

Key(p)    == Head(job[p].todo).key
Value(p)  == Head(job[p].todo).value
Torn      == \E p \in Procs : job[p].pc = "write"   \* the file is being written
Done(p)   == job[p].pc = "read" /\ job[p].todo = <<>>
Failed(p) == job[p].pc = "failed"

Event == events < MaxEvents /\ events' = events + 1
Fine  == UNCHANGED events

Put(p, at, todo, copy) ==
  job' = [job EXCEPT ![p] = [pc |-> at, todo |-> todo, copy |-> copy]]
Goes(p, at)     == Put(p, at, job[p].todo, job[p].copy)
Begins(p, todo) == Put(p, "read", todo, Empty)
Ends(p)         == job' = [job EXCEPT ![p] = NoJob]

Knows(k, v) == due' = [due EXCEPT ![k] = v]
Loses(S)    == due' = [k \in Keys |-> IF k \in S THEN Lost ELSE due[k]]

-----------------------------------------------------------------------------
(* The keys that p puts at stake when it reads the file in order to write  *)
(* it.  Whoever has read it and not written it yet will undo what p        *)
(* writes, or p what the other one writes; in a file that is being written *)
(* p finds nothing.                                                        *)
Others(p)  == {q \in Procs \ {p} : job[q].pc \in {"open", "write"}}
AtStake(p) ==
  IF \E q \in Others(p) : job[q].pc = "write" THEN Keys
  ELSE UNION {{Key(p), Key(q)} : q \in Others(p)}

\* What is known of p's key when p has written it, or left it as it is.
Outcome(p) ==
  IF Others(p) = {} /\ (Value(p) # None \/ env[Key(p)] = None) THEN Value(p) ELSE Lost

\* envClear finds nothing to clear.
Skip(p) ==
  /\ job[p].pc = "read" /\ job[p].todo # <<>>
  /\ Value(p) = None /\ env[Key(p)] = None
  /\ Begins(p, Tail(job[p].todo))
  /\ Knows(Key(p), Outcome(p))
  /\ Fine /\ UNCHANGED env

ReadFile(p) ==
  /\ job[p].pc = "read" /\ job[p].todo # <<>>
  /\ Value(p) # None \/ env[Key(p)] # None
  /\ Put(p, "open", job[p].todo, env)
  /\ Loses(AtStake(p))
  /\ Fine /\ UNCHANGED env

\* envWrite takes a file that it cannot read for an empty one; envClear does not.
ReadFails(p) ==
  /\ job[p].pc = "read" /\ job[p].todo # <<>>
  /\ Event
  /\ IF Value(p) = None THEN Goes(p, "failed") /\ UNCHANGED due
     ELSE Put(p, "open", job[p].todo, Empty) /\ Loses(Keys)
  /\ UNCHANGED env

\* os.WriteFile: the file is opened, and with that it is empty ...
Truncate(p) ==
  /\ job[p].pc = "open"
  /\ env' = Empty /\ Goes(p, "write")
  /\ Fine /\ UNCHANGED due

OpenFails(p) ==
  /\ job[p].pc = "open"
  /\ Goes(p, "failed")
  /\ Event /\ UNCHANGED <<env, due>>

\* envWrite would keep no line but its own.
MutKeepsNothing(p) == [Empty EXCEPT ![Key(p)] = Value(p)]

\* ... and written from its beginning.  Of what another process has put there
\* meanwhile the end may remain, and envRead takes the first line of a key.
NewContents(p) == [job[p].copy EXCEPT ![Key(p)] = Value(p)]

Over(old, new, rest) ==
  [k \in Keys |-> IF new[k] = None /\ k \in rest THEN old[k] ELSE new[k]]

WriteOut(p) ==
  /\ job[p].pc = "write"
  /\ \E rest \in SUBSET {k \in Keys : env[k] # None} : env' = Over(env, NewContents(p), rest)
  /\ Knows(Key(p), Outcome(p))
  /\ Begins(p, Tail(job[p].todo))
  /\ Fine

\* The disk is full: the file stays empty.
WriteFails(p) ==
  /\ job[p].pc = "write"
  /\ Goes(p, "failed") /\ Loses(Keys)
  /\ Event /\ UNCHANGED env

FileStep(p) ==
  \/ Skip(p) \/ ReadFile(p) \/ ReadFails(p)
  \/ Truncate(p) \/ OpenFails(p) \/ WriteOut(p) \/ WriteFails(p)

\* The process ends, at whatever it was.
Dies(p) ==
  /\ Ends(p)
  /\ Loses(IF job[p].pc = "write" THEN Keys ELSE {})
  /\ Event /\ UNCHANGED env

\* The owner changes a key with an editor, in a moment in which it is whole.
Edit(k, v) ==
  /\ ~Torn /\ env[k] # v
  /\ env' = [env EXCEPT ![k] = v]
  /\ Knows(k, IF \E p \in Procs : job[p].pc = "open" THEN Lost ELSE v)
  /\ Event /\ UNCHANGED job

-----------------------------------------------------------------------------
(* Property *)

\* A key keeps the value that was written last, whatever is written to the
\* other keys, by whom and in whichever order: it is lost only to a process
\* that was at the same key or whose write it overlapped, to a file read while
\* it was empty, and to a write that was broken off.
SavedIsKept == ~Torn => \A k \in Keys : due[k] \in {env[k], Lost}
=============================================================================
