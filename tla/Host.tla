-------------------------------- MODULE Host --------------------------------
(***************************************************************************)
(* A command on the host (internal/engine/exec): Stream starts it, two     *)
(* goroutines pass its output on until the pipes are at their end, and     *)
(* only then is it waited for.  A cancelled context kills its process      *)
(* group.  A child that has left the group and keeps a pipe is a stray:    *)
(* WaitDelay closes nothing as long as Wait has not been called.           *)
(*                                                                         *)
(* There is one command at a time per member of Users; who reads its       *)
(* events is the module's user.  Lines are counted, not told apart.        *)
(***************************************************************************)
EXTENDS Naturals

CONSTANTS Users,  \* who runs commands
          ChCap   \* chanBuffer, 16 in the code

ASSUME HostAssumption == ChCap \in Nat \ {0}

VARIABLE host     \* per user: its command

NoCommand == [pc |-> "off", proc |-> "none", bad |-> FALSE, stray |-> FALSE, ch |-> 0]

Commands == [pc    : {"off", "start", "scan", "wait", "exit", "closed"},  \* Stream's goroutine
             proc  : {"none", "up", "gone"},
             bad   : BOOLEAN,      \* how it ended
             stray : BOOLEAN,
             ch    : 0 .. ChCap]   \* events not read yet

HostTypeOK == host \in [Users -> Commands]
HostInit   == host = [u \in Users |-> NoCommand]

Becomes(u, changes) == host' = [host EXCEPT ![u] = changes]
Over(u) == host[u].pc = "closed" /\ host[u].ch = 0

-----------------------------------------------------------------------------
\* The channel and its first event.
Stream(u) == Becomes(u, [NoCommand EXCEPT !.pc = "start", !.ch = 1])

\* cmd.Start, which fails of a context that is done.
StartProc(u, done) ==
  /\ host[u].pc = "start"
  /\ \/ ~done /\ Becomes(u, [host[u] EXCEPT !.pc = "scan", !.proc = "up"])
     \/ Becomes(u, [host[u] EXCEPT !.pc = "exit", !.bad = TRUE])

\* scanPipe sends a line.
Line(u) ==
  /\ host[u].pc = "scan" /\ host[u].ch < ChCap
  /\ host[u].proc = "up" \/ host[u].stray
  /\ Becomes(u, [host[u] EXCEPT !.ch = @ + 1])

\* The pipes are at their end ...
Eof(u) ==
  /\ host[u].pc = "scan" /\ host[u].proc = "gone" /\ ~host[u].stray
  /\ Becomes(u, [host[u] EXCEPT !.pc = "wait"])

\* ... or the process has closed them, or has sent too long a line.
StopScan(u) ==
  /\ host[u].pc = "scan" /\ ~host[u].stray
  /\ Becomes(u, [host[u] EXCEPT !.pc = "wait"])

\* cmd.Wait
Reap(u) ==
  /\ host[u].pc = "wait" /\ host[u].proc = "gone"
  /\ Becomes(u, [host[u] EXCEPT !.pc = "exit"])

\* The last event, KindExited, and the close of the channel.
Exited(u) ==
  /\ host[u].pc = "exit" /\ host[u].ch < ChCap
  /\ Becomes(u, [host[u] EXCEPT !.pc = "closed"])

\* cmd.Cancel, called by the goroutine that watches the context.
Kill(u, done) ==
  /\ done /\ host[u].proc = "up"
  /\ Becomes(u, [host[u] EXCEPT !.proc = "gone", !.bad = TRUE])

-----------------------------------------------------------------------------
(* The process: it ends when it likes to, and may leave a child behind.    *)

ProcEnds(u) ==
  /\ host[u].proc = "up"
  /\ \E bad \in BOOLEAN : Becomes(u, [host[u] EXCEPT !.proc = "gone", !.bad = bad])

StrayComes(u) ==
  /\ host[u].proc = "up" /\ host[u].pc = "scan" /\ ~host[u].stray
  /\ Becomes(u, [host[u] EXCEPT !.stray = TRUE])

StrayGoes(u) ==
  /\ host[u].stray
  /\ Becomes(u, [host[u] EXCEPT !.stray = FALSE])

-----------------------------------------------------------------------------
\* What Stream does by itself, and what its process does.
HostStep(u, done) == StartProc(u, done) \/ Eof(u) \/ Reap(u) \/ Exited(u)
ProcStep(u) == Line(u) \/ StopScan(u) \/ ProcEnds(u) \/ StrayComes(u) \/ StrayGoes(u)
=============================================================================
