------------------------------ MODULE Secrets ------------------------------
(***************************************************************************)
(* The Claude token: where it is kept (internal/engine/secrets), how it is *)
(* cached (claudeauth.CachedSource), who asks for it (the requests of the  *)
(* auth proxy in the serve process, the Check of the claude-auth step in a *)
(* TUI) and who stores it (StoreInBackground after claude setup-token).    *)
(*                                                                         *)
(* On macOS it is in the keychain's entry, or still in one of two places   *)
(* older releases used, an entry of another name and a file, from which    *)
(* the first Get moves it.  Elsewhere it is in that file.  Every command   *)
(* and file operation is a step of its own, as no lock is held over them.  *)
(***************************************************************************)
EXTENDS Naturals, FiniteSets

CONSTANTS Tokens,     \* what claude setup-token gives
          Old,        \* the one an earlier session stored
          Requests,   \* what handles the proxy's requests in the serve process
          Tuis,       \* the TUI processes
          Serve,      \* the serve process
          None,       \* no value
          Blank,      \* a value without the token's prefix, as an emptied file's
          MaxFaults   \* bounds the failures and crashes of a behaviour

ASSUME SecretsAssumption ==
  /\ Old \in Tokens
  /\ None \notin Tokens \union {Blank, "entry", "file", "set"}
  /\ Blank \notin Tokens
  /\ Serve \notin Tuis
  /\ MaxFaults \in Nat
  /\ IsFiniteSet(Requests)

VARIABLES platform,         \* "darwin" or not
          main, legacy,     \* the keychain's entries, of today and of before
          file,             \* the file in ~/.claude
          cache,            \* CachedSource.token of each process
          th,               \* what each goroutine that uses the store does
          wanted,           \* the TUIs whose Check found no token
          used, revoked,    \* the tokens given out, and those no longer good
          told, excused,    \* the token last reported as stored; see ToldIsStored
          late,             \* requests refused for another token than the stored
          faults

stores == <<main, legacy, file>>
said   == <<told, excused, late>>
server == <<used, revoked>>
vars   == <<platform, stores, cache, th, wanted, server, said, faults>>

Checks    == Tuis \X {"check"}
Storing   == Tuis \X {"store"}
Readers   == Requests \union Checks
Threads   == Readers \union Storing
Processes == {Serve} \union Tuis
Values    == Tokens \union {Blank}

ProcessOf(t) == IF t \in Requests THEN Serve ELSE t[1]

Idle == [pc |-> "idle", val |-> None, from |-> None]

\* Where the token is, as far as this platform's store is concerned.
Stored == IF platform = "darwin" THEN main ELSE file

\* How far a goroutine is, the value in its hands, and for whom Set is called:
\* for migrate, which then empties the place the value is from, or for itself.
Steps == {"idle", "main", "legacy", "file", "add", "readback", "dropEntry", "dropFile",
          "truncate", "write", "fill", "upstream"}
Calls == [pc : Steps, val : Values \union {None}, from : {None, "entry", "file", "set"}]

TypeOK ==
  /\ platform \in {"darwin", "linux"}
  /\ main \in Values \union {None} /\ legacy \in Tokens \union {None}
  /\ file \in Values \union {None}
  /\ cache \in [Processes -> Tokens \union {None}]
  /\ th \in [Threads -> Calls]
  /\ \A r \in Requests : th[r].pc = "upstream" => th[r].val \in Tokens
  /\ wanted \subseteq Tuis /\ used \subseteq Tokens /\ revoked \subseteq used
  /\ told \in Tokens \union {None} /\ excused \in BOOLEAN
  /\ late \in Nat /\ faults \in 0 .. MaxFaults

Init ==
  /\ platform \in {"darwin", "linux"}
  /\ main \in {None, Old} /\ legacy \in {None, Old} /\ file \in {None, Old}
  /\ platform = "linux" => main = None /\ legacy = None
  /\ cache = [p \in Processes |-> None]
  /\ th = [t \in Threads |-> Idle]
  /\ wanted = {} /\ used = {Old} /\ revoked = {}
  /\ told = None /\ excused = FALSE /\ late = 0 /\ faults = 0

-----------------------------------------------------------------------------
(* Helpers.                                                                *)

Fault == faults < MaxFaults /\ faults' = faults + 1
Fine  == UNCHANGED faults

To(t, pc) == th' = [th EXCEPT ![t].pc = pc] /\ UNCHANGED wanted

Hold(t, pc, v, from) ==
  th' = [th EXCEPT ![t] = [pc |-> pc, val |-> v, from |-> from]] /\ UNCHANGED wanted

\* The call ends with an error: a request is answered 503, a Check says that
\* the token is absent, a background store is reported as failed.
Fail(t) ==
  /\ th' = [th EXCEPT ![t] = Idle]
  /\ wanted' = IF t \in Checks THEN wanted \union {t[1]} ELSE wanted

\* Whoever is between looking into the store and writing to it.
Writing(t) == \/ th[t].pc \in {"legacy", "add", "readback", "truncate", "write"}
              \/ th[t].pc = "file" /\ platform = "darwin"

\* A reader that has its token: the proxy goes on to the upstream, a Check
\* says that the token is present.
Proceed(t, v) ==
  IF t \in Requests THEN Hold(t, "upstream", v, None)
  ELSE th' = [th EXCEPT ![t] = Idle] /\ wanted' = wanted \ {t[1]}

-----------------------------------------------------------------------------
(* CachedSource.Token and Invalidate, and what calls them.                 *)

\* A request with the session key arrives, or a launch runs the Check.
Token(t) ==
  /\ th[t].pc = "idle"
  /\ IF cache[ProcessOf(t)] # None THEN Proceed(t, cache[ProcessOf(t)])
     ELSE To(t, IF platform = "darwin" THEN "main" ELSE "file")
  /\ UNCHANGED <<platform, stores, cache, server, said, faults>>

\* The store has answered.  Another goroutine of the process may have filled
\* the cache meanwhile: its token is the one that is used.
Fill(t) ==
  LET p == ProcessOf(t) IN
  /\ th[t].pc = "fill"
  /\ \/ th[t].val = Blank /\ Fail(t) /\ UNCHANGED cache
     \/ /\ th[t].val # Blank
        /\ cache' = IF cache[p] = None THEN [cache EXCEPT ![p] = th[t].val] ELSE cache
        /\ Proceed(t, cache'[p])
  /\ UNCHANGED <<platform, stores, server, said, faults>>

\* A plausible bug: the proxy keeps the token the upstream has refused.
MutUpstreamKeepsToken(r) ==
  /\ th[r].pc = "upstream"
  /\ late' = IF th[r].val \in revoked /\ th[r].val # Stored THEN late + 1 ELSE late
  /\ th' = [th EXCEPT ![r] = Idle]
  /\ UNCHANGED <<platform, stores, cache, wanted, server, told, excused, faults>>

\* The upstream answers, or fails to; on a 401 the proxy drops the cached
\* token, whichever it is by now.
Upstream(r) ==
  /\ th[r].pc = "upstream"
  /\ \/ th[r].val \notin revoked /\ UNCHANGED <<cache, late>>
     \/ /\ th[r].val \in revoked
        /\ cache' = [cache EXCEPT ![Serve] = None]
        /\ late' = IF th[r].val # Stored THEN late + 1 ELSE late
  /\ th' = [th EXCEPT ![r] = Idle]
  /\ UNCHANGED <<platform, stores, wanted, server, told, excused, faults>>

-----------------------------------------------------------------------------
(* KeychainStore.Get and migrate, FileStore.Get.                           *)

\* A plausible bug: a find that missed its deadline is taken for "no entry" too.
MutFindMainTimesOut(t) ==
  /\ th[t].pc = "main"
  /\ \/ main # None /\ Hold(t, "fill", main, None) /\ Fine /\ UNCHANGED excused
     \/ main = None /\ To(t, "legacy") /\ Fine /\ UNCHANGED excused
     \/ main # None /\ Fault /\ To(t, "legacy") /\ UNCHANGED excused
  /\ UNCHANGED <<platform, stores, cache, server, told, late>>

\* A command that ends on its deadline ends the call; any other failure of it
\* is taken for "there is no such entry".
FindMain(t) ==
  /\ th[t].pc = "main"
  /\ \/ main # None /\ Hold(t, "fill", main, None) /\ Fine /\ UNCHANGED excused
     \/ main = None /\ To(t, "legacy") /\ Fine /\ UNCHANGED excused
     \/ Fault /\ Fail(t) /\ UNCHANGED excused
     \/ main # None /\ Fault /\ To(t, "legacy") /\ excused' = TRUE
  /\ UNCHANGED <<platform, stores, cache, server, told, late>>

FindLegacy(t) ==
  /\ th[t].pc = "legacy"
  /\ \/ legacy # None /\ Hold(t, "add", legacy, "entry") /\ Fine
     \/ legacy = None /\ To(t, "file") /\ Fine
     \/ Fault /\ Fail(t)
     \/ legacy # None /\ Fault /\ To(t, "file")
  /\ UNCHANGED <<platform, stores, cache, server, said>>

ReadFile(t) ==
  /\ th[t].pc = "file"
  /\ \/ file = None /\ Fail(t) /\ Fine
     \/ file # None /\ Fault /\ Fail(t)
     \/ /\ file # None /\ Fine
        /\ IF platform = "darwin" THEN Hold(t, "add", file, "file")
           ELSE Hold(t, "fill", file, None)
  /\ UNCHANGED <<platform, stores, cache, server, said>>

\* What migrate deletes once the value is in its new place, errors ignored.
DropEntry(t) ==
  /\ th[t].pc = "dropEntry"
  /\ \/ legacy' = None /\ Fine
     \/ UNCHANGED legacy /\ Fault
  /\ To(t, "dropFile")
  /\ UNCHANGED <<platform, main, file, cache, server, said>>

DropFile(t) ==
  /\ th[t].pc = "dropFile"
  /\ \/ file' = None /\ Fine
     \/ file # None /\ UNCHANGED file /\ Fault
  /\ To(t, "fill")
  /\ UNCHANGED <<platform, main, legacy, cache, server, said>>

-----------------------------------------------------------------------------
(* Set: StoreInBackground's, and the one migrate calls.                    *)

\* claude setup-token, run as the Check found no token, has printed one.
StoreInBackground(t) ==
  /\ th[t].pc = "idle" /\ t[1] \in wanted
  /\ \E v \in Tokens \ used :
       /\ th' = [th EXCEPT ![t] = [pc |-> IF platform = "darwin" THEN "add" ELSE "truncate",
                                   val |-> v, from |-> "set"]]
       /\ used' = used \union {v}
  /\ wanted' = wanted \ {t[1]}
  /\ told' = None /\ excused' = FALSE
  /\ UNCHANGED <<platform, stores, cache, revoked, late, faults>>

\* The log and the status say "token stored".
Report(t) ==
  /\ told' = th[t].val
  /\ excused' = \E u \in Threads \ {t} : Writing(u)
  /\ th' = [th EXCEPT ![t] = Idle]
  /\ UNCHANGED wanted

\* security -i: it may fail before or after it has written, and it also ends
\* well when the command it was given failed.
Add(t) ==
  /\ th[t].pc = "add"
  /\ \/ main' = th[t].val /\ To(t, "readback") /\ Fine
     \/ main' \in {main, th[t].val} /\ Fail(t) /\ Fault
     \/ UNCHANGED main /\ To(t, "readback") /\ Fault
  /\ late' = 0
  /\ UNCHANGED <<platform, legacy, file, cache, server, told, excused>>

\* A plausible bug: what was written is not read back.
MutReadBackTrusts(t) ==
  /\ th[t].pc = "readback"
  /\ \/ th[t].from = "set" /\ Report(t)
     \/ th[t].from = "entry" /\ To(t, "dropEntry") /\ UNCHANGED <<told, excused>>
     \/ th[t].from = "file" /\ To(t, "dropFile") /\ UNCHANGED <<told, excused>>
  /\ UNCHANGED <<platform, stores, cache, server, late, faults>>

ReadBack(t) ==
  /\ th[t].pc = "readback"
  /\ \/ /\ main = th[t].val /\ Fine
        /\ \/ th[t].from = "set" /\ Report(t)
           \/ th[t].from = "entry" /\ To(t, "dropEntry") /\ UNCHANGED <<told, excused>>
           \/ th[t].from = "file" /\ To(t, "dropFile") /\ UNCHANGED <<told, excused>>
     \/ main # th[t].val /\ Fail(t) /\ Fine /\ UNCHANGED <<told, excused>>
     \/ Fault /\ Fail(t) /\ UNCHANGED <<told, excused>>
  /\ UNCHANGED <<platform, stores, cache, server, late>>

\* os.WriteFile of FileStore.Set: it empties the file, then fills it.
Truncate(t) ==
  /\ th[t].pc = "truncate"
  /\ \/ file' = Blank /\ To(t, "write") /\ Fine
     \/ UNCHANGED file /\ Fail(t) /\ Fault
  /\ late' = 0
  /\ UNCHANGED <<platform, main, legacy, cache, server, told, excused>>

Write(t) ==
  /\ th[t].pc = "write"
  /\ \/ file' = th[t].val /\ Report(t) /\ Fine
     \/ file' \in {file, th[t].val} /\ Fail(t) /\ Fault /\ UNCHANGED <<told, excused>>
  /\ late' = 0
  /\ UNCHANGED <<platform, main, legacy, cache, server>>

-----------------------------------------------------------------------------
(* The rest of the world.                                                  *)

Revoke(v) ==
  /\ v \in used \ revoked
  /\ revoked' = revoked \union {v}
  /\ UNCHANGED <<platform, stores, cache, th, wanted, used, said, faults>>

\* The process ends, goroutines that use the store included, and starts again.
Restart(p) ==
  /\ Fault
  /\ cache' = [cache EXCEPT ![p] = None]
  /\ th' = [t \in Threads |-> IF ProcessOf(t) = p THEN Idle ELSE th[t]]
  /\ wanted' = wanted \ {p}
  /\ UNCHANGED <<platform, stores, server, said>>

Next ==
  \/ \E t \in Readers : Token(t) \/ Fill(t) \/ FindMain(t) \/ FindLegacy(t)
                          \/ ReadFile(t) \/ DropEntry(t) \/ DropFile(t)
  \/ \E r \in Requests : Upstream(r)
  \/ \E t \in Storing : StoreInBackground(t) \/ Truncate(t) \/ Write(t)
  \/ \E t \in Threads : Add(t) \/ ReadBack(t)
  \/ \E v \in Tokens : Revoke(v)
  \/ \E p \in Processes : Restart(p)

Spec == Init /\ [][Next]_vars

-----------------------------------------------------------------------------
(* Properties.                                                             *)

\* Moving the token to the keychain never loses it: an old place is emptied
\* only while the keychain has it, whatever failed before and whoever else is
\* moving it (keychain.go, migrate and the readback of Set).
MoveKeepsACopy ==
  [][\/ legacy # None /\ legacy' = None
     \/ platform = "darwin" /\ file # None /\ file' = None
     => main # None]_vars

\* What "token stored" says stays true until the next setup, of which the
\* only ways out are those "excused" records: somebody was moving an old token
\* into the keychain when the report was made, or a find failed later for
\* another reason than its deadline and was taken for "no entry"
\* (setuptoken.go, StoreInBackground; keychain.go, Get).
ToldIsStored == told # None /\ ~excused => Stored = told

\* After a new token was stored the upstream refuses the one before it no more
\* than a bounded number of times.  Invalidate does not stop the fills under
\* way, and each of them can put an old token back into the cache, for every
\* request that is not itself filling to take (source.go, Token, Invalidate).
LateRefusalsBounded ==
  LET n == Cardinality(Requests) IN late <= (n * (n + 1)) \div 2

=============================================================================
