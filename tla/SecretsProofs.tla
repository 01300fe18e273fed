--------------------------- MODULE SecretsProofs ---------------------------
(***************************************************************************)
(* Proofs about Secrets, for any number of requests, TUIs, tokens and      *)
(* faults.  The argument: whoever is past the readback has seen the        *)
(* keychain hold a value, and nothing takes a value out of it; and between *)
(* two setups the store changes only by somebody who was already at it     *)
(* when the token was reported, or who was told that it is not there.  The *)
(* last part counts the refusals of a token that was replaced.             *)
(***************************************************************************)
EXTENDS Secrets, FiniteSetTheorems, TLAPS

\* What a goroutine at a step holds there.
InHand ==
  \A t \in Threads :
    /\ th[t].pc \in {"add", "readback", "dropEntry", "dropFile", "fill", "truncate", "write"}
         => th[t].val \in Values
    /\ th[t].pc \in {"truncate", "write"} \/ th[t].from = "set" => th[t].val \in Tokens

\* Past the readback the keychain has a value.
Moved == \A t \in Threads : th[t].pc \in {"dropEntry", "dropFile"} => main # None

\* Each platform has its own steps.
Sides ==
  \A t \in Threads :
    /\ platform # "darwin" => th[t].pc \notin {"main", "legacy", "add", "readback", "dropEntry", "dropFile"}
    /\ platform = "darwin" => th[t].pc \notin {"truncate", "write"}

\* While the report stands nobody is on the way to write.
Quiet == told # None /\ ~excused => Stored = told /\ \A t \in Threads : ~Writing(t)

Inv == TypeOK /\ InHand /\ Moved /\ Sides /\ Quiet

-----------------------------------------------------------------------------
LEMMA InitInv == Init => Inv
<1> SUFFICES ASSUME Init PROVE Inv
  OBVIOUS
<1>1. \A t \in Threads : th[t] = Idle
  BY DEF Init
<1>2. TypeOK
  <2>1. Idle \in Calls
    BY DEF Idle, Calls, Steps
  <2>2. th \in [Threads -> Calls]
    BY <2>1 DEF Init
  <2>3. \A r \in Requests : th[r].pc # "upstream"
    BY <1>1 DEF Idle, Threads, Readers
  <2>4. /\ platform \in {"darwin", "linux"}
        /\ main \in Values \union {None} /\ legacy \in Tokens \union {None}
        /\ file \in Values \union {None}
    BY SecretsAssumption DEF Init, Values
  <2>5. cache \in [Processes -> Tokens \union {None}]
    BY DEF Init
  <2>6. wanted \subseteq Tuis /\ used \subseteq Tokens /\ revoked \subseteq used
    BY SecretsAssumption DEF Init
  <2>7. told \in Tokens \union {None} /\ late \in Nat /\ faults \in 0 .. MaxFaults
    BY SecretsAssumption DEF Init
  <2>8. excused \in BOOLEAN
    BY DEF Init
  <2> QED
    BY <2>2, <2>3, <2>4, <2>5, <2>6, <2>7, <2>8 DEF TypeOK
<1>3. InHand /\ Moved /\ Sides
  BY <1>1, SecretsAssumption DEF InHand, Moved, Sides, Idle
<1>4. Quiet
  BY DEF Init, Quiet
<1> QED
  BY <1>2, <1>3, <1>4 DEF Inv

\* The process of a goroutine is one of the processes.
LEMMA ProcessType == \A t \in Threads : ProcessOf(t) \in Processes
  BY DEF Threads, Readers, Checks, Storing, ProcessOf, Processes

\* Where a step leaves a goroutine.
Now(t, pc, v, from) == th'[t].pc = pc /\ th'[t].val = v /\ th'[t].from = from

\* The three ways a goroutine moves on keep the types of th and wanted.
LEMMA MoveType ==
  ASSUME TypeOK, NEW t \in Threads
  PROVE /\ \A pc \in Steps : To(t, pc) => /\ th' \in [Threads -> Calls] /\ wanted' \subseteq Tuis
                                        /\ Now(t, pc, th[t].val, th[t].from)
                                        /\ \A u \in Threads \ {t} : th'[u] = th[u]
        /\ \A pc \in Steps, v \in Values \union {None}, from \in {None, "entry", "file", "set"} :
             Hold(t, pc, v, from) => /\ th' \in [Threads -> Calls] /\ wanted' \subseteq Tuis
                                     /\ Now(t, pc, v, from)
                                     /\ \A u \in Threads \ {t} : th'[u] = th[u]
        /\ Fail(t) => /\ th' \in [Threads -> Calls] /\ wanted' \subseteq Tuis /\ Now(t, "idle", None, None)
                      /\ \A u \in Threads \ {t} : th'[u] = th[u]
<1> th \in [Threads -> Calls] /\ wanted \subseteq Tuis
  BY DEF TypeOK
<1>1. \A pc \in Steps : [th[t] EXCEPT !.pc = pc] \in Calls
  BY DEF Calls
<1>2. Idle \in Calls
  BY DEF Idle, Calls, Steps
<1>3. t \in Checks => t[1] \in Tuis
  BY DEF Checks
<1>4. ASSUME NEW pc \in Steps, To(t, pc)
      PROVE /\ th' \in [Threads -> Calls] /\ wanted' \subseteq Tuis
            /\ Now(t, pc, th[t].val, th[t].from)
            /\ \A u \in Threads \ {t} : th'[u] = th[u]
  BY <1>1, <1>4 DEF To, Now, Calls
<1>5. ASSUME NEW pc \in Steps, NEW v \in Values \union {None},
             NEW from \in {None, "entry", "file", "set"}, Hold(t, pc, v, from)
      PROVE /\ th' \in [Threads -> Calls] /\ wanted' \subseteq Tuis
            /\ Now(t, pc, v, from)
            /\ \A u \in Threads \ {t} : th'[u] = th[u]
  <2>1. [pc |-> pc, val |-> v, from |-> from] \in Calls
    BY DEF Calls
  <2> QED
    BY <1>5, <2>1 DEF Hold, Now
<1>6. ASSUME Fail(t)
      PROVE /\ th' \in [Threads -> Calls] /\ wanted' \subseteq Tuis /\ Now(t, "idle", None, None)
            /\ \A u \in Threads \ {t} : th'[u] = th[u]
  BY <1>2, <1>3, <1>6 DEF Fail, Now, Idle
<1> QED
  BY <1>4, <1>5, <1>6

\* A step in which only t moves keeps what is said of every goroutine, if it
\* leaves the keychain with a value and is right about t.
LEMMA OneMoves ==
  ASSUME InHand, Moved, Sides, platform' = platform, main # None => main' # None,
         NEW t \in Threads, \A u \in Threads \ {t} : th'[u] = th[u],
         th'[t].pc \in {"add", "readback", "dropEntry", "dropFile", "fill", "truncate", "write"}
           => th'[t].val \in Values,
         th'[t].pc \in {"truncate", "write"} \/ th'[t].from = "set" => th'[t].val \in Tokens,
         th'[t].pc \in {"dropEntry", "dropFile"} => main' # None,
         platform # "darwin" =>
           th'[t].pc \notin {"main", "legacy", "add", "readback", "dropEntry", "dropFile"},
         platform = "darwin" => th'[t].pc \notin {"truncate", "write"}
  PROVE  InHand' /\ Moved' /\ Sides'
<1>1. InHand'
  BY DEF InHand, Values
<1>2. Moved'
  BY DEF Moved
<1>3. Sides'
  BY DEF Sides
<1> QED
  BY <1>1, <1>2, <1>3

\* The report stands through a step after which the store is as it was, and in
\* which nobody sets out to write.
LEMMA StaysQuiet ==
  ASSUME Quiet, platform' = platform, told' = told, ~excused' => ~excused,
         told # None /\ ~excused' =>
           /\ Stored' = Stored
           /\ \A u \in Threads : Writing(u)' => Writing(u)
  PROVE  Quiet'
BY DEF Quiet

\* The types of the variables but th, which are kept apart from it.
RestType ==
  /\ platform \in {"darwin", "linux"}
  /\ main \in Values \union {None} /\ legacy \in Tokens \union {None}
  /\ file \in Values \union {None}
  /\ cache \in [Processes -> Tokens \union {None}]
  /\ used \subseteq Tokens /\ revoked \subseteq used
  /\ told \in Tokens \union {None} /\ excused \in BOOLEAN
  /\ late \in Nat

LEMMA OneTyped ==
  ASSUME TypeOK, RestType', Fault \/ Fine, NEW t \in Threads,
         th' \in [Threads -> Calls], wanted' \subseteq Tuis,
         \A u \in Threads \ {t} : th'[u] = th[u],
         t \in Requests /\ th'[t].pc = "upstream" => th'[t].val \in Tokens
  PROVE  TypeOK'
<1>1. faults' \in 0 .. MaxFaults
  BY SecretsAssumption DEF TypeOK, Fault, Fine
<1>2. \A r \in Requests : th'[r].pc = "upstream" => th'[r].val \in Tokens
  BY DEF TypeOK, Threads, Readers
<1> QED
  BY <1>1, <1>2 DEF TypeOK, RestType

LEMMA ProceedType ==
  ASSUME TypeOK, NEW t \in Threads, NEW v \in Tokens, Proceed(t, v)
  PROVE  /\ th' \in [Threads -> Calls] /\ wanted' \subseteq Tuis
         /\ \A u \in Threads \ {t} : th'[u] = th[u]
         /\ Now(t, "upstream", v, None) \/ Now(t, "idle", None, None)
<1> th \in [Threads -> Calls] /\ wanted \subseteq Tuis
  BY DEF TypeOK
<1>1. CASE t \in Requests
  BY <1>1, MoveType DEF Proceed, Steps, Values
<1>2. CASE t \notin Requests
  <2>1. Idle \in Calls
    BY DEF Idle, Calls, Steps
  <2> QED
    BY <1>2, <2>1 DEF Proceed, Now, Idle
<1> QED
  BY <1>1, <1>2

\* What all the steps that leave the report and the store alone have in common.
LEMMA KeepsInv ==
  ASSUME Inv, RestType', Fault \/ Fine, NEW t \in Threads,
         th' \in [Threads -> Calls], wanted' \subseteq Tuis,
         \A u \in Threads \ {t} : th'[u] = th[u],
         platform' = platform, told' = told, excused' = excused,
         told # None /\ ~excused => Stored' = Stored /\ ~Writing(t)',
         main # None => main' # None,
         th'[t].pc = "upstream" => th'[t].val \in Tokens,
         th'[t].pc \in {"add", "readback", "dropEntry", "dropFile", "fill", "truncate", "write"}
           => th'[t].val \in Values,
         th'[t].pc \in {"truncate", "write"} \/ th'[t].from = "set" => th'[t].val \in Tokens,
         th'[t].pc \in {"dropEntry", "dropFile"} => main' # None,
         platform # "darwin" =>
           th'[t].pc \notin {"main", "legacy", "add", "readback", "dropEntry", "dropFile"},
         platform = "darwin" => th'[t].pc \notin {"truncate", "write"}
  PROVE  Inv'
<1>1. TypeOK'
  BY OneTyped DEF Inv
<1>2. InHand' /\ Moved' /\ Sides'
  BY OneMoves DEF Inv
<1>3. Quiet'
  <2>1. \A u \in Threads \ {t} : Writing(u)' => Writing(u)
    BY DEF Writing
  <2> QED
    BY <2>1 DEF Inv, Quiet
<1> QED
  BY <1>1, <1>2, <1>3 DEF Inv

-----------------------------------------------------------------------------
(* One lemma per action.                                                   *)

LEMMA FindMainInv == ASSUME Inv, NEW t \in Readers, FindMain(t) PROVE Inv'
<1> USE DEF Inv
<1>0. t \in Threads /\ TypeOK /\ th[t] \in Calls
  BY DEF Threads, TypeOK
<1>1. /\ th' \in [Threads -> Calls] /\ wanted' \subseteq Tuis
      /\ \A u \in Threads \ {t} : th'[u] = th[u]
      /\ \/ main # None /\ Now(t, "fill", main, None)
         \/ main = None /\ Now(t, "legacy", th[t].val, th[t].from)
         \/ Now(t, "idle", None, None)
         \/ excused' /\ Now(t, "legacy", th[t].val, th[t].from)
  <2>1. CASE main # None /\ Hold(t, "fill", main, None)
    BY <1>0, <2>1, MoveType DEF Steps, TypeOK
  <2>2. CASE main = None /\ To(t, "legacy")
    BY <1>0, <2>2, MoveType DEF Steps
  <2>3. CASE Fail(t)
    BY <1>0, <2>3, MoveType
  <2>4. CASE To(t, "legacy") /\ excused'
    BY <1>0, <2>4, MoveType DEF Steps
  <2> QED
    BY <2>1, <2>2, <2>3, <2>4 DEF FindMain
<1>2. Fault \/ Fine
  BY DEF FindMain
<1>3. /\ UNCHANGED <<platform, stores, cache, server, told, late>> /\ th[t].pc = "main"
  BY DEF FindMain
<1>8. excused' \in BOOLEAN /\ (~excused' => ~excused)
  BY <1>0 DEF FindMain, TypeOK
<1>4. RestType'
  BY <1>0, <1>3, <1>8 DEF RestType, TypeOK, stores, server
<1>5. TypeOK'
  BY <1>0, <1>1, <1>2, <1>4, OneTyped DEF Now
<1>6. InHand' /\ Moved' /\ Sides'
  <2>1. main' = main /\ platform' = platform
    BY <1>3 DEF stores
  <2>2. th'[t].pc \in {"fill", "legacy", "idle"} /\ (th'[t].pc = "legacy" => platform = "darwin")
    BY <1>0, <1>1, <1>3 DEF Now, Sides
  <2>3. th'[t].pc = "fill" => th'[t].val \in Values
    BY <1>0, <1>1 DEF Now, TypeOK
  <2>4. th'[t].from = "set" => th'[t].val \in Tokens
    BY <1>0, <1>1, SecretsAssumption DEF Now, InHand
  <2> QED
    BY <1>0, <1>1, <2>1, <2>2, <2>3, <2>4, OneMoves
<1>7. Quiet'
  <2>1. told # None /\ ~excused' => main # None \/ platform # "darwin"
    BY <1>3, <1>8 DEF Quiet, Stored
  <2>2. ASSUME told # None, ~excused' PROVE ~Writing(t)'
    BY <1>0, <1>1, <1>3, <2>1, <2>2 DEF Now, Writing, Sides
  <2>3. platform' = platform /\ told' = told /\ Stored' = Stored
    BY <1>3 DEF stores, Stored
  <2>4. \A u \in Threads \ {t} : Writing(u)' => Writing(u)
    BY <1>1, <2>3 DEF Writing
  <2> QED
    BY <1>8, <2>2, <2>3, <2>4, StaysQuiet
<1> QED
  BY <1>5, <1>6, <1>7

LEMMA TokenInv == ASSUME Inv, NEW t \in Readers, Token(t) PROVE Inv'
<1>0. t \in Threads /\ TypeOK /\ th[t] \in Calls /\ InHand /\ th[t].pc = "idle"
  BY DEF Threads, TypeOK, Inv, Token
<1>1. UNCHANGED <<platform, stores, cache, server, told, excused, late, faults>>
  BY DEF Token, said
<1>2. RestType' /\ Fine
  BY <1>0, <1>1 DEF RestType, TypeOK, stores, server, Fine
<1>3. CASE cache[ProcessOf(t)] # None
  <2>1. cache[ProcessOf(t)] \in Tokens /\ Proceed(t, cache[ProcessOf(t)])
    BY <1>0, <1>3, ProcessType DEF Token, TypeOK
  <2> HIDE DEF Proceed
  <2>2. /\ th' \in [Threads -> Calls] /\ wanted' \subseteq Tuis
        /\ \A u \in Threads \ {t} : th'[u] = th[u]
        /\ \/ Now(t, "upstream", cache[ProcessOf(t)], None)
           \/ Now(t, "idle", None, None)
    BY <1>0, <2>1, ProceedType
  <2>3. ~Writing(t)' /\ Stored' = Stored /\ main' = main
    BY <1>1, <2>2 DEF Now, Writing, Stored, stores
  <2> QED
    BY <1>0, <1>1, <1>2, <2>1, <2>2, <2>3, KeepsInv, SecretsAssumption DEF Now
<1>4. CASE cache[ProcessOf(t)] = None
  <2>1. PICK pc \in {"main", "file"} :
          To(t, pc) /\ (pc = "main" <=> platform = "darwin")
    BY <1>4 DEF Token
  <2>2. /\ th' \in [Threads -> Calls] /\ wanted' \subseteq Tuis
        /\ \A u \in Threads \ {t} : th'[u] = th[u]
        /\ Now(t, pc, th[t].val, th[t].from)
    BY <1>0, <2>1, MoveType DEF Steps
  <2>3. ~Writing(t)' /\ Stored' = Stored /\ main' = main
    BY <1>1, <2>1, <2>2 DEF Now, Writing, Stored, stores
  <2> QED
    BY <1>0, <1>1, <1>2, <2>1, <2>2, <2>3, KeepsInv DEF Now, InHand
<1> QED
  BY <1>3, <1>4

LEMMA FillInv == ASSUME Inv, NEW t \in Readers, Fill(t) PROVE Inv'
<1> DEFINE p == ProcessOf(t)
<1>0. t \in Threads /\ TypeOK /\ th[t] \in Calls /\ th[t].val \in Values /\ p \in Processes
  BY ProcessType DEF Threads, TypeOK, Inv, Fill, InHand
<1>1. UNCHANGED <<platform, stores, server, told, excused, late, faults>>
  BY DEF Fill, said
<1>2. \/ Fail(t) /\ cache' = cache
      \/ /\ th[t].val # Blank /\ Proceed(t, cache'[p])
         /\ cache' = IF cache[p] = None THEN [cache EXCEPT ![p] = th[t].val] ELSE cache
  BY DEF Fill
<1>3. cache' \in [Processes -> Tokens \union {None}]
  BY <1>0, <1>2 DEF TypeOK, Values
<1>4. RestType' /\ Fine
  BY <1>0, <1>1, <1>3 DEF RestType, TypeOK, stores, server, Fine
<1>5. /\ th' \in [Threads -> Calls] /\ wanted' \subseteq Tuis
      /\ \A u \in Threads \ {t} : th'[u] = th[u]
      /\ \/ Now(t, "upstream", cache'[p], None) /\ cache'[p] \in Tokens
         \/ Now(t, "idle", None, None)
  <2>1. CASE Fail(t)
    BY <1>0, <2>1, MoveType
  <2>2. CASE /\ th[t].val # Blank /\ Proceed(t, cache'[p])
             /\ cache' = IF cache[p] = None THEN [cache EXCEPT ![p] = th[t].val] ELSE cache
    <3>1. cache'[p] \in Tokens
      BY <1>0, <2>2 DEF TypeOK, Values
    <3> QED
      BY <1>0, <2>2, <3>1, ProceedType
  <2> QED
    BY <1>2, <2>1, <2>2
<1>6. ~Writing(t)' /\ Stored' = Stored /\ main' = main
  BY <1>1, <1>5 DEF Now, Writing, Stored, stores
<1> QED
  BY <1>0, <1>1, <1>4, <1>5, <1>6, KeepsInv, SecretsAssumption DEF Now

LEMMA UpstreamInv == ASSUME Inv, NEW t \in Requests, Upstream(t) PROVE Inv'
<1>0. t \in Threads /\ TypeOK
  BY DEF Threads, Readers, Inv
<1>1. UNCHANGED <<platform, stores, wanted, server, told, excused, faults>>
  BY DEF Upstream
<1>2. cache' \in [Processes -> Tokens \union {None}] /\ late' \in Nat
  BY <1>0 DEF Upstream, TypeOK
<1>3. RestType' /\ Fine
  BY <1>0, <1>1, <1>2 DEF RestType, TypeOK, stores, server, Fine
<1>4. /\ th' \in [Threads -> Calls] /\ wanted' \subseteq Tuis
      /\ \A u \in Threads \ {t} : th'[u] = th[u]
      /\ Now(t, "idle", None, None)
  <2>1. Idle \in Calls
    BY DEF Idle, Calls, Steps
  <2>2. th \in [Threads -> Calls] /\ wanted \subseteq Tuis /\ th' = [th EXCEPT ![t] = Idle]
    BY <1>0 DEF TypeOK, Upstream
  <2> QED
    BY <1>0, <1>1, <2>1, <2>2 DEF Now, Idle
<1>5. ~Writing(t)' /\ Stored' = Stored /\ main' = main
  BY <1>1, <1>4 DEF Now, Writing, Stored, stores
<1> QED
  BY <1>0, <1>1, <1>3, <1>4, <1>5, KeepsInv, SecretsAssumption DEF Now

LEMMA FindLegacyInv == ASSUME Inv, NEW t \in Readers, FindLegacy(t) PROVE Inv'
<1>0. t \in Threads /\ TypeOK /\ th[t] \in Calls /\ th[t].pc = "legacy" /\ platform = "darwin"
  BY DEF Threads, TypeOK, Inv, FindLegacy, Sides
<1>1. UNCHANGED <<platform, stores, cache, server, told, excused, late>> /\ (Fault \/ Fine)
  BY DEF FindLegacy, said
<1>2. RestType'
  BY <1>0, <1>1 DEF RestType, TypeOK, stores, server
<1>3. /\ th' \in [Threads -> Calls] /\ wanted' \subseteq Tuis
      /\ \A u \in Threads \ {t} : th'[u] = th[u]
      /\ \/ legacy \in Tokens /\ Now(t, "add", legacy, "entry")
         \/ Now(t, "file", th[t].val, th[t].from)
         \/ Now(t, "idle", None, None)
  <2>1. CASE legacy # None /\ Hold(t, "add", legacy, "entry")
    BY <1>0, <2>1, MoveType DEF Steps, TypeOK, Values
  <2>2. CASE To(t, "file")
    BY <1>0, <2>2, MoveType DEF Steps
  <2>3. CASE Fail(t)
    BY <1>0, <2>3, MoveType
  <2> QED
    BY <2>1, <2>2, <2>3 DEF FindLegacy
<1>4. ~(told # None /\ ~excused)
  BY <1>0 DEF Inv, Quiet, Writing
<1>5. th'[t].from = "set" => th'[t].val \in Tokens
  BY <1>0, <1>3, SecretsAssumption DEF Now, Inv, InHand
<1>6. main' = main
  BY <1>1 DEF stores
<1> QED
  BY <1>0, <1>1, <1>2, <1>3, <1>4, <1>5, <1>6, KeepsInv DEF Now, Values

LEMMA ReadFileInv == ASSUME Inv, NEW t \in Readers, ReadFile(t) PROVE Inv'
<1>0. t \in Threads /\ TypeOK /\ th[t] \in Calls /\ th[t].pc = "file"
  BY DEF Threads, TypeOK, Inv, ReadFile
<1>1. UNCHANGED <<platform, stores, cache, server, told, excused, late>> /\ (Fault \/ Fine)
  BY DEF ReadFile, said
<1>2. RestType'
  BY <1>0, <1>1 DEF RestType, TypeOK, stores, server
<1>3. /\ th' \in [Threads -> Calls] /\ wanted' \subseteq Tuis
      /\ \A u \in Threads \ {t} : th'[u] = th[u]
      /\ \/ platform = "darwin" /\ file \in Values /\ Now(t, "add", file, "file")
         \/ platform # "darwin" /\ file \in Values /\ Now(t, "fill", file, None)
         \/ Now(t, "idle", None, None)
  <2>1. CASE file # None /\ platform = "darwin" /\ Hold(t, "add", file, "file")
    BY <1>0, <2>1, MoveType DEF Steps, TypeOK
  <2>2. CASE file # None /\ platform # "darwin" /\ Hold(t, "fill", file, None)
    BY <1>0, <2>2, MoveType DEF Steps, TypeOK
  <2>3. CASE Fail(t)
    BY <1>0, <2>3, MoveType
  <2> QED
    BY <2>1, <2>2, <2>3 DEF ReadFile
<1>4. told # None /\ ~excused => Stored' = Stored /\ ~Writing(t)'
  <2>1. platform = "darwin" => ~(told # None /\ ~excused)
    BY <1>0 DEF Inv, Quiet, Writing
  <2>2. platform # "darwin" => Stored' = Stored /\ ~Writing(t)'
    BY <1>1, <1>3 DEF Now, Writing, Stored, stores
  <2> QED
    BY <2>1, <2>2
<1>5. th'[t].from # "set"
  BY <1>3, SecretsAssumption DEF Now
<1>6. main' = main
  BY <1>1 DEF stores
<1> QED
  BY <1>0, <1>1, <1>2, <1>3, <1>4, <1>5, <1>6, KeepsInv DEF Now

LEMMA DropEntryInv == ASSUME Inv, NEW t \in Readers, DropEntry(t) PROVE Inv'
<1>0. /\ t \in Threads /\ TypeOK /\ th[t] \in Calls /\ th[t].pc = "dropEntry"
      /\ main # None /\ platform = "darwin"
  BY DEF Threads, TypeOK, Inv, DropEntry, Moved, Sides
<1>1. /\ UNCHANGED <<platform, main, file, cache, server, told, excused, late>> /\ (Fault \/ Fine)
      /\ legacy' \in {None, legacy} /\ To(t, "dropFile")
  BY DEF DropEntry, said
<1>2. RestType'
  BY <1>0, <1>1 DEF RestType, TypeOK, server
<1>3. /\ th' \in [Threads -> Calls] /\ wanted' \subseteq Tuis
      /\ \A u \in Threads \ {t} : th'[u] = th[u]
      /\ Now(t, "dropFile", th[t].val, th[t].from)
  BY <1>0, <1>1, MoveType DEF Steps
<1>4. Stored' = Stored /\ ~Writing(t)'
  BY <1>1, <1>3 DEF Now, Writing, Stored
<1>5. /\ th'[t].from = "set" => th'[t].val \in Tokens
      /\ th'[t].val \in Values
  BY <1>0, <1>3 DEF Now, Inv, InHand
<1> QED
  BY <1>0, <1>1, <1>2, <1>3, <1>4, <1>5, KeepsInv DEF Now

LEMMA DropFileInv == ASSUME Inv, NEW t \in Readers, DropFile(t) PROVE Inv'
<1>0. /\ t \in Threads /\ TypeOK /\ th[t] \in Calls /\ th[t].pc = "dropFile"
      /\ main # None /\ platform = "darwin"
  BY DEF Threads, TypeOK, Inv, DropFile, Moved, Sides
<1>1. /\ UNCHANGED <<platform, main, legacy, cache, server, told, excused, late>> /\ (Fault \/ Fine)
      /\ file' \in {None, file} /\ To(t, "fill")
  BY DEF DropFile, said
<1>2. RestType'
  BY <1>0, <1>1 DEF RestType, TypeOK, server
<1>3. /\ th' \in [Threads -> Calls] /\ wanted' \subseteq Tuis
      /\ \A u \in Threads \ {t} : th'[u] = th[u]
      /\ Now(t, "fill", th[t].val, th[t].from)
  BY <1>0, <1>1, MoveType DEF Steps
<1>4. Stored' = Stored /\ ~Writing(t)'
  BY <1>0, <1>1, <1>3 DEF Now, Writing, Stored
<1>5. /\ th'[t].from = "set" => th'[t].val \in Tokens
      /\ th'[t].val \in Values
  BY <1>0, <1>3 DEF Now, Inv, InHand
<1> QED
  BY <1>0, <1>1, <1>2, <1>3, <1>4, <1>5, KeepsInv DEF Now

LEMMA StoreInBackgroundInv ==
  ASSUME Inv, NEW t \in Storing, StoreInBackground(t) PROVE Inv'
<1>0. t \in Threads /\ TypeOK
  BY DEF Threads, Inv
<1>1. /\ UNCHANGED <<platform, stores, cache, revoked, late, faults>>
      /\ told' = None /\ excused' = FALSE /\ wanted' = wanted \ {t[1]}
  BY DEF StoreInBackground
<1>2. PICK v \in Tokens \ used :
        /\ th' = [th EXCEPT ![t] = [pc |-> IF platform = "darwin" THEN "add" ELSE "truncate",
                                    val |-> v, from |-> "set"]]
        /\ used' = used \union {v}
  BY DEF StoreInBackground
<1> DEFINE pc == IF platform = "darwin" THEN "add" ELSE "truncate"
<1>3. /\ th' \in [Threads -> Calls] /\ wanted' \subseteq Tuis
      /\ \A u \in Threads \ {t} : th'[u] = th[u]
      /\ Now(t, pc, v, "set")
  <2>1. [pc |-> pc, val |-> v, from |-> "set"] \in Calls
    BY DEF Calls, Steps, Values
  <2>2. th \in [Threads -> Calls] /\ wanted \subseteq Tuis
    BY <1>0 DEF TypeOK
  <2> QED
    BY <1>0, <1>1, <1>2, <2>1, <2>2 DEF Now
<1>4. RestType' /\ Fine
  BY <1>0, <1>1, <1>2 DEF RestType, TypeOK, stores, Fine
<1>5. TypeOK'
  BY <1>0, <1>3, <1>4, OneTyped DEF Now
<1>6. InHand' /\ Moved' /\ Sides'
  <2>1. platform' = platform /\ main' = main
    BY <1>1 DEF stores
  <2> QED
    BY <1>0, <1>3, <2>1, OneMoves DEF Now, Inv, Values
<1>7. Quiet'
  BY <1>1 DEF Quiet
<1> QED
  BY <1>5, <1>6, <1>7 DEF Inv

LEMMA AddInv == ASSUME Inv, NEW t \in Threads, Add(t) PROVE Inv'
<1>0. /\ TypeOK /\ th[t] \in Calls /\ th[t].pc = "add" /\ platform = "darwin"
      /\ th[t].val \in Values
  BY DEF TypeOK, Inv, Add, Sides, InHand
<1>1. /\ UNCHANGED <<platform, legacy, file, cache, server, told, excused>>
      /\ Fault \/ Fine
      /\ late' = 0 /\ main' \in {main, th[t].val}
  BY DEF Add
<1>2. RestType'
  BY <1>0, <1>1 DEF RestType, TypeOK, server
<1>3. /\ th' \in [Threads -> Calls] /\ wanted' \subseteq Tuis
      /\ \A u \in Threads \ {t} : th'[u] = th[u]
      /\ \/ Now(t, "readback", th[t].val, th[t].from)
         \/ Now(t, "idle", None, None)
  <2>1. CASE To(t, "readback")
    BY <1>0, <2>1, MoveType DEF Steps
  <2>2. CASE Fail(t)
    BY <1>0, <2>2, MoveType
  <2> QED
    BY <2>1, <2>2 DEF Add
<1>4. ~(told # None /\ ~excused)
  BY <1>0 DEF Inv, Quiet, Writing
<1>5. main # None => main' # None
  BY <1>0, <1>1, SecretsAssumption DEF Values
<1>6. th'[t].from = "set" => th'[t].val \in Tokens
  BY <1>0, <1>3, SecretsAssumption DEF Now, Inv, InHand
<1> QED
  BY <1>0, <1>1, <1>2, <1>3, <1>4, <1>5, <1>6, KeepsInv DEF Now

LEMMA TruncateInv == ASSUME Inv, NEW t \in Storing, Truncate(t) PROVE Inv'
<1>0. /\ t \in Threads /\ TypeOK /\ th[t] \in Calls /\ th[t].pc = "truncate"
      /\ platform # "darwin" /\ th[t].val \in Tokens
  BY DEF Threads, TypeOK, Inv, Truncate, Sides, InHand
<1>1. /\ UNCHANGED <<platform, main, legacy, cache, server, told, excused>>
      /\ Fault \/ Fine
      /\ late' = 0 /\ file' \in {file, Blank}
  BY DEF Truncate
<1>2. RestType'
  BY <1>0, <1>1 DEF RestType, TypeOK, server, Values
<1>3. /\ th' \in [Threads -> Calls] /\ wanted' \subseteq Tuis
      /\ \A u \in Threads \ {t} : th'[u] = th[u]
      /\ \/ Now(t, "write", th[t].val, th[t].from)
         \/ Now(t, "idle", None, None)
  <2>1. CASE To(t, "write")
    BY <1>0, <2>1, MoveType DEF Steps
  <2>2. CASE Fail(t)
    BY <1>0, <2>2, MoveType
  <2> QED
    BY <2>1, <2>2 DEF Truncate
<1>4. ~(told # None /\ ~excused)
  BY <1>0 DEF Inv, Quiet, Writing
<1>5. th'[t].pc = "write" \/ th'[t].from = "set" => th'[t].val \in Tokens
  BY <1>0, <1>3, SecretsAssumption DEF Now
<1> QED
  BY <1>0, <1>1, <1>2, <1>3, <1>4, <1>5, KeepsInv DEF Now, Values

\* A report is true when it is made, and only who is at it then can change that.
LEMMA ReportInv ==
  ASSUME Inv, NEW t \in Threads, Report(t), Fault \/ Fine, RestType',
         platform' = platform, main # None => main' # None, Stored' = th[t].val
  PROVE  Inv'
<1>0. TypeOK /\ told' = th[t].val /\ wanted' = wanted
  BY DEF Inv, Report
<1>1. /\ th' \in [Threads -> Calls] /\ wanted' \subseteq Tuis
      /\ \A u \in Threads \ {t} : th'[u] = th[u]
      /\ Now(t, "idle", None, None)
  <2>1. Idle \in Calls
    BY DEF Idle, Calls, Steps
  <2>2. th \in [Threads -> Calls] /\ wanted \subseteq Tuis /\ th' = [th EXCEPT ![t] = Idle]
    BY <1>0 DEF TypeOK, Report
  <2> QED
    BY <1>0, <2>1, <2>2 DEF Now, Idle
<1>2. TypeOK'
  BY <1>0, <1>1, OneTyped DEF Now
<1>3. InHand' /\ Moved' /\ Sides'
  BY <1>1, OneMoves, SecretsAssumption DEF Inv, Now
<1>4. Quiet'
  <2>1. ASSUME ~excused' PROVE \A u \in Threads \ {t} : ~Writing(u)
    BY <2>1 DEF Report
  <2>2. ~Writing(t)'
    BY <1>1 DEF Now, Writing
  <2>3. ASSUME NEW u \in Threads \ {t}, ~Writing(u) PROVE ~Writing(u)'
    BY <1>1, <2>3 DEF Writing
  <2> QED
    BY <1>0, <2>1, <2>2, <2>3 DEF Quiet
<1> QED
  BY <1>2, <1>3, <1>4 DEF Inv

LEMMA ReadBackInv == ASSUME Inv, NEW t \in Threads, ReadBack(t) PROVE Inv'
<1>0. /\ TypeOK /\ th[t] \in Calls /\ th[t].pc = "readback" /\ platform = "darwin"
      /\ th[t].val \in Values
  BY DEF TypeOK, Inv, ReadBack, Sides, InHand
<1>1. /\ UNCHANGED <<platform, stores, cache, server, late>>
      /\ Fault \/ Fine
  BY DEF ReadBack
<1>2. Stored' = main /\ main' = main /\ platform' = platform
  BY <1>0, <1>1 DEF Stored, stores
<1>3. CASE main = th[t].val /\ th[t].from = "set" /\ Report(t)
  <2>1. th[t].val \in Tokens /\ told' = th[t].val /\ excused' \in BOOLEAN
    BY <1>0, <1>3 DEF Inv, InHand, Report
  <2>2. RestType'
    BY <1>0, <1>1, <2>1 DEF RestType, TypeOK, server, stores
  <2> QED
    BY <1>1, <1>2, <1>3, <2>2, ReportInv
<1>4. CASE \/ main = th[t].val /\ th[t].from = "entry" /\ To(t, "dropEntry") /\ UNCHANGED <<told, excused>>
           \/ main = th[t].val /\ th[t].from = "file" /\ To(t, "dropFile") /\ UNCHANGED <<told, excused>>
           \/ Fail(t) /\ UNCHANGED <<told, excused>>
  <2>1. told' = told /\ excused' = excused
    BY <1>4
  <2>2. RestType'
    BY <1>0, <1>1, <2>1 DEF RestType, TypeOK, server, stores
  <2>3. /\ th' \in [Threads -> Calls] /\ wanted' \subseteq Tuis
        /\ \A u \in Threads \ {t} : th'[u] = th[u]
        /\ \/ main = th[t].val /\ Now(t, "dropEntry", th[t].val, th[t].from)
           \/ main = th[t].val /\ Now(t, "dropFile", th[t].val, th[t].from)
           \/ Now(t, "idle", None, None)
    <3>1. CASE main = th[t].val /\ To(t, "dropEntry")
      BY <1>0, <3>1, MoveType DEF Steps
    <3>2. CASE main = th[t].val /\ To(t, "dropFile")
      BY <1>0, <3>2, MoveType DEF Steps
    <3>3. CASE Fail(t)
      BY <1>0, <3>3, MoveType
    <3> QED
      BY <1>4, <3>1, <3>2, <3>3
  <2>4. ~(told # None /\ ~excused)
    BY <1>0 DEF Inv, Quiet, Writing
  <2>5. th'[t].from = "set" => th'[t].val \in Tokens
    BY <1>0, <2>3, SecretsAssumption DEF Now, Inv, InHand
  <2>6. th'[t].pc \in {"dropEntry", "dropFile"} => main' # None
    BY <1>0, <1>2, <2>3, SecretsAssumption DEF Now, Values
  <2> QED
    BY <1>0, <1>1, <1>2, <2>1, <2>2, <2>3, <2>4, <2>5, <2>6, KeepsInv DEF Now
<1> QED
  BY <1>3, <1>4 DEF ReadBack

LEMMA WriteInv == ASSUME Inv, NEW t \in Storing, Write(t) PROVE Inv'
<1>0. /\ t \in Threads /\ TypeOK /\ th[t] \in Calls /\ th[t].pc = "write"
      /\ platform # "darwin" /\ th[t].val \in Tokens
  BY DEF Threads, TypeOK, Inv, Write, Sides, InHand
<1>1. /\ UNCHANGED <<platform, main, legacy, cache, server>>
      /\ Fault \/ Fine
      /\ late' = 0 /\ file' \in {file, th[t].val}
  BY DEF Write
<1>2. CASE file' = th[t].val /\ Report(t)
  <2>1. told' = th[t].val /\ excused' \in BOOLEAN
    BY <1>2 DEF Report
  <2>2. RestType'
    BY <1>0, <1>1, <2>1 DEF RestType, TypeOK, server, Values
  <2>3. Stored' = th[t].val
    BY <1>0, <1>1, <1>2 DEF Stored
  <2> QED
    BY <1>0, <1>1, <1>2, <2>2, <2>3, ReportInv
<1>3. CASE Fail(t) /\ UNCHANGED <<told, excused>>
  <2>1. RestType'
    BY <1>0, <1>1, <1>3 DEF RestType, TypeOK, server, Values
  <2>2. /\ th' \in [Threads -> Calls] /\ wanted' \subseteq Tuis
        /\ \A u \in Threads \ {t} : th'[u] = th[u]
        /\ Now(t, "idle", None, None)
    BY <1>0, <1>3, MoveType
  <2>3. ~(told # None /\ ~excused)
    BY <1>0 DEF Inv, Quiet, Writing
  <2> QED
    BY <1>0, <1>1, <1>3, <2>1, <2>2, <2>3, KeepsInv, SecretsAssumption DEF Now
<1> QED
  BY <1>2, <1>3 DEF Write

LEMMA RestartInv == ASSUME Inv, NEW p \in Processes, Restart(p) PROVE Inv'
<1>0. TypeOK /\ th \in [Threads -> Calls]
  BY DEF Inv, TypeOK
<1>1. UNCHANGED <<platform, stores, server, told, excused, late>> /\ Fault
  BY DEF Restart, said
<1>2. Idle \in Calls /\ Idle.pc = "idle" /\ Idle.val = None /\ Idle.from = None
  BY DEF Idle, Calls, Steps
<1>3. /\ th' \in [Threads -> Calls]
      /\ \A t \in Threads : th'[t] = Idle \/ th'[t] = th[t]
  BY <1>0, <1>2 DEF Restart
<1>4. TypeOK'
  <2>1. RestType'
    <3>1. cache' \in [Processes -> Tokens \union {None}]
      BY <1>0 DEF TypeOK, Restart
    <3> QED
      BY <1>0, <1>1, <3>1 DEF RestType, TypeOK, stores, server
  <2>2. faults' \in 0 .. MaxFaults /\ wanted' \subseteq Tuis
    BY <1>0, SecretsAssumption DEF Restart, TypeOK, Fault
  <2>3. \A r \in Requests : th'[r].pc = "upstream" => th'[r].val \in Tokens
    BY <1>0, <1>2, <1>3 DEF TypeOK, Threads, Readers
  <2> QED
    BY <1>3, <2>1, <2>2, <2>3 DEF TypeOK, RestType
<1>5. InHand' /\ Moved' /\ Sides'
  <2>1. main' = main /\ platform' = platform
    BY <1>1 DEF stores
  <2>2. InHand'
    BY <1>2, <1>3, SecretsAssumption DEF Inv, InHand, Values
  <2>3. Moved'
    BY <1>2, <1>3, <2>1 DEF Inv, Moved
  <2>4. Sides'
    BY <1>2, <1>3, <2>1 DEF Inv, Sides
  <2> QED
    BY <2>2, <2>3, <2>4
<1>6. Quiet'
  <2>1. Stored' = Stored /\ platform' = platform
    BY <1>1 DEF stores, Stored
  <2>2. \A t \in Threads : Writing(t)' => Writing(t)
    BY <1>2, <1>3, <2>1 DEF Writing
  <2> QED
    BY <1>1, <2>1, <2>2 DEF Inv, Quiet
<1> QED
  BY <1>4, <1>5, <1>6 DEF Inv

LEMMA StillInv ==
  ASSUME Inv, UNCHANGED vars \/ \E v \in Tokens : Revoke(v) PROVE Inv'
<1>1. UNCHANGED <<platform, main, legacy, file, cache, th, wanted, used, told, excused, late, faults>>
      /\ revoked' \subseteq used
  BY DEF Revoke, vars, stores, said, server, Inv, TypeOK
<1>2. Stored' = Stored /\ \A t \in Threads : Writing(t)' = Writing(t)
  BY <1>1 DEF Stored, Writing
<1>3. TypeOK'
  BY <1>1 DEF Inv, TypeOK
<1>4. InHand' /\ Moved' /\ Sides'
  BY <1>1 DEF Inv, InHand, Moved, Sides
<1>5. Quiet'
  BY <1>1, <1>2 DEF Inv, Quiet
<1> QED
  BY <1>3, <1>4, <1>5 DEF Inv

LEMMA StepInv == Inv /\ [Next]_vars => Inv'
<1> SUFFICES ASSUME Inv, [Next]_vars PROVE Inv'
  OBVIOUS
<1>1. CASE \E t \in Readers : Token(t) \/ Fill(t) \/ FindMain(t) \/ FindLegacy(t)
                                 \/ ReadFile(t) \/ DropEntry(t) \/ DropFile(t)
  BY <1>1, TokenInv, FillInv, FindMainInv, FindLegacyInv, ReadFileInv, DropEntryInv, DropFileInv
<1>2. CASE \E r \in Requests : Upstream(r)
  BY <1>2, UpstreamInv
<1>3. CASE \E t \in Storing : StoreInBackground(t) \/ Truncate(t) \/ Write(t)
  BY <1>3, StoreInBackgroundInv, TruncateInv, WriteInv
<1>4. CASE \E t \in Threads : Add(t) \/ ReadBack(t)
  BY <1>4, AddInv, ReadBackInv
<1>5. CASE \E p \in Processes : Restart(p)
  BY <1>5, RestartInv
<1>6. CASE UNCHANGED vars \/ \E v \in Tokens : Revoke(v)
  BY <1>6, StillInv
<1> QED
  BY <1>1, <1>2, <1>3, <1>4, <1>5, <1>6 DEF Next

-----------------------------------------------------------------------------
\* The types, of which the one that matters: only what has a token's prefix is
\* cached or sent to the upstream (source.go, Token).
THEOREM TypeCorrect == Spec => []TypeOK
<1>1. Inv => TypeOK
  BY DEF Inv
<1> QED
  BY <1>1, InitInv, StepInv, PTL DEF Spec

\* "Token stored" stays true (setuptoken.go, StoreInBackground; keychain.go).
THEOREM Told == Spec => []ToldIsStored
<1>1. Inv => ToldIsStored
  BY DEF Inv, Quiet, ToldIsStored
<1> QED
  BY <1>1, InitInv, StepInv, PTL DEF Spec

\* An old place is emptied only while the keychain has the token (keychain.go,
\* migrate, Set).
THEOREM MoveIsSafe == Spec => MoveKeepsACopy
<1>1. ASSUME Inv, [Next]_vars
      PROVE  [\/ legacy # None /\ legacy' = None
              \/ platform = "darwin" /\ file # None /\ file' = None
              => main # None]_vars
  <2> SUFFICES ASSUME Next,
                      \/ legacy # None /\ legacy' = None
                      \/ platform = "darwin" /\ file # None /\ file' = None
               PROVE  main # None
    BY <1>1
  <2>1. PICK t \in Threads : th[t].pc \in {"dropEntry", "dropFile"}
    <3>1. ASSUME NEW t \in Threads, Write(t)
          PROVE  platform # "darwin"
      BY <1>1, <3>1 DEF Inv, Sides, Write
    <3>2. ASSUME NEW t \in Threads, Truncate(t)
          PROVE  legacy' = legacy /\ platform # "darwin"
      BY <1>1, <3>2 DEF Inv, Sides, Truncate
    <3> QED
      BY <3>1, <3>2 DEF Next, Token, Fill, Upstream, FindMain, FindLegacy, ReadFile, DropEntry,
           DropFile, StoreInBackground, Add, ReadBack, Truncate, Write, Revoke, Restart, stores,
           Threads, Readers
  <2> QED
    BY <1>1, <2>1 DEF Inv, Moved
<1> QED
  BY <1>1, InitInv, StepInv, PTL DEF Spec, MoveKeepsACopy
-----------------------------------------------------------------------------
(* How often a token that was replaced is still refused.  A request holds an *)
(* old token while it fills; the others are free, and all of them can be     *)
(* given the old token while the cache has it.  Each round of refusals costs *)
(* a fill, and leaves one more request free: what was refused, and what is   *)
(* still owed, is at most the sum of the first numbers up to the free ones.  *)

Filling == {"readback", "dropEntry", "dropFile", "fill"}

Holds(r) == th[r].pc \in Filling /\ th[r].val # Stored
Uses(r)  == th[r].pc = "upstream" /\ th[r].val # Stored

Free  == {r \in Requests : ~Holds(r)}
Using == {r \in Requests : Uses(r)}
Stale == cache[Serve] \notin {None, Stored}
Owed  == Cardinality(IF Stale THEN Free ELSE Using)

Paid == 2 * (late + Owed) <= Cardinality(Free) * (Cardinality(Free) + 1)

Sized ==
  /\ IsFiniteSet(Free) /\ IsFiniteSet(Using) /\ Using \subseteq Free
  /\ Cardinality(Free) \in Nat /\ Cardinality(Using) \in Nat
  /\ Cardinality(Using) <= Cardinality(Free)
  /\ Cardinality(Free) <= Cardinality(Requests) /\ Cardinality(Requests) \in Nat

LEMMA Sizes == Sized /\ Sized'
<1>1. Using \subseteq Free /\ Free \subseteq Requests
  BY DEF Using, Free, Uses, Holds, Filling
<1>2. Using' \subseteq Free' /\ Free' \subseteq Requests
  BY DEF Using, Free, Uses, Holds, Filling
<1>3. IsFiniteSet(Requests)
  BY SecretsAssumption
<1> QED
  BY <1>1, <1>2, <1>3, FS_Subset, FS_CardinalityType DEF Sized

\* The sums grow with every request that becomes free.
LEMMA Sums ==
  ASSUME NEW l \in Nat, NEW m \in Nat, NEW n \in Nat, m <= n
  PROVE  /\ m * (m + 1) <= n * (n + 1)
         /\ 2 * m <= m * (m + 1)
         /\ 2 * (l + m) <= m * (m + 1) => 2 * (l + n) <= n * (n + 1)
         /\ m < n /\ 2 * l <= m * (m + 1) => 2 * (l + n) <= n * (n + 1)
<1>1. PICK d \in Nat : n = m + d
  <2>1. n - m \in Nat /\ n = m + (n - m)
    OBVIOUS
  <2> QED
    BY <2>1
<1>2. n * (n + 1) = m * (m + 1) + 2 * (m * d) + d * (d + 1)
  BY <1>1, SMTT(30)
<1>3. m * d \in Nat /\ m * (m + 1) \in Nat
  BY SMT
<1>4. d * (d + 1) >= 2 * d
  BY SMTT(30)
<1>5. d > 0 => m * d >= m
  BY SMTT(30)
<1>6. 2 * m <= m * (m + 1)
  BY SMTT(30)
<1>7. d * (d + 1) \in Nat /\ n * (n + 1) \in Nat
  BY <1>1, SMT
<1> DEFINE md == m * d  mm == m * (m + 1)  dd == d * (d + 1)  nn == n * (n + 1)
<1>8. /\ md \in Nat /\ mm \in Nat /\ dd \in Nat /\ nn \in Nat
      /\ nn = mm + 2 * md + dd /\ dd >= 2 * d /\ (d > 0 => md >= m) /\ 2 * m <= mm
  BY <1>2, <1>3, <1>4, <1>5, <1>6, <1>7
<1> HIDE DEF md, mm, dd, nn
<1>9. /\ mm <= nn /\ 2 * m <= mm
      /\ 2 * (l + m) <= mm => 2 * (l + n) <= nn
      /\ m < n /\ 2 * l <= mm => 2 * (l + n) <= nn
  BY <1>1, <1>8
<1> QED
  BY <1>9 DEF mm, nn

\* A write to the store makes a new start.
LEMMA ResetPaid == ASSUME late' = 0 PROVE Paid'
<1>1. Owed' <= Cardinality(Free') /\ Owed' \in Nat /\ Cardinality(Free') \in Nat
  BY Sizes DEF Owed, Sized
<1>2. 2 * Cardinality(Free') <= Cardinality(Free') * (Cardinality(Free') + 1)
  BY <1>1, Sums
<1> QED
  BY <1>1, <1>2 DEF Paid

\* While a request is given the old token none is lost from the free ones, and
\* while the cache has another one nobody is given the old token.
LEMMA GrowPaid ==
  ASSUME TypeOK, Paid, late' = late, Free \subseteq Free',
         \/ Stale /\ Stale'
         \/ ~Stale' /\ Using' \subseteq Using
         \/ Stale' /\ Free # Free'
  PROVE  Paid'
<1> DEFINE m == Cardinality(Free)  n == Cardinality(Free')
           u == Cardinality(Using) v == Cardinality(Using')
<1>1. /\ m \in Nat /\ n \in Nat /\ u \in Nat /\ v \in Nat /\ u <= m /\ v <= n
      /\ IsFiniteSet(Free') /\ IsFiniteSet(Using)
  BY Sizes DEF Sized
<1>2. m <= n /\ (Free # Free' => m < n)
  <2>1. m <= n /\ (m = n => Free = Free')
    BY <1>1, FS_Subset
  <2> QED
    BY <1>1, <2>1
<1>3. Using' \subseteq Using => v <= u
  BY <1>1, FS_Subset
<1>4. late \in Nat /\ late' = late
  BY DEF TypeOK
<1>5. Owed = (IF Stale THEN m ELSE u) /\ Owed' = (IF Stale' THEN n ELSE v)
  BY DEF Owed
<1> HIDE DEF m, n, u, v
<1>6. 2 * (late + Owed) <= m * (m + 1)
  BY DEF Paid, m
<1>7. m * (m + 1) \in Nat /\ n * (n + 1) \in Nat
  BY <1>1
<1>8. 2 * (late + Owed') <= n * (n + 1)
  <2>1. CASE Stale /\ Stale'
    <3>1. 2 * (late + m) <= m * (m + 1) => 2 * (late + n) <= n * (n + 1)
      BY <1>1, <1>2, <1>4, Sums
    <3> QED
      BY <1>5, <1>6, <2>1, <3>1
  <2>2. CASE ~Stale' /\ Using' \subseteq Using
    <3>1. m * (m + 1) <= n * (n + 1)
      BY <1>1, <1>2, <1>4, Sums
    <3>2. v <= Owed /\ Owed \in Nat /\ Owed' = v
      BY <1>1, <1>3, <1>5, <2>2
    <3> QED
      BY <1>1, <1>4, <1>6, <1>7, <3>1, <3>2
  <2>3. CASE Stale' /\ Free # Free'
    <3>1. m < n /\ 2 * late <= m * (m + 1) => 2 * (late + n) <= n * (n + 1)
      BY <1>1, <1>2, <1>4, Sums
    <3>2. 2 * late <= m * (m + 1)
      BY <1>1, <1>4, <1>5, <1>6, <1>7
    <3> QED
      BY <1>2, <1>5, <2>3, <3>1, <3>2
  <2> QED
    BY <2>1, <2>2, <2>3
<1> QED
  BY <1>4, <1>8 DEF Paid, n

\* A step of one goroutine that leaves the store and the cache of the serve
\* process alone, sets out to fill with nothing old, and takes to the upstream
\* only what the store or the cache has.
LEMMA GentlePaid ==
  ASSUME TypeOK, Paid, late' = late, Stored' = Stored, cache'[Serve] = cache[Serve],
         NEW t \in Threads, \A u \in Threads \ {t} : th'[u] = th[u],
         Holds(t)' => Holds(t),
         Uses(t)' => Uses(t) \/ Stale
  PROVE  Paid'
<1>1. Stale' = Stale
  BY DEF Stale
<1>2. \A r \in Requests : Holds(r)' => Holds(r)
  BY DEF Holds, Threads, Readers
<1>3. ~Stale => \A r \in Requests : Uses(r)' => Uses(r)
  BY DEF Uses, Threads, Readers
<1>4. Free \subseteq Free'
  BY <1>2 DEF Free
<1>5. ~Stale => Using' \subseteq Using
  BY <1>3 DEF Using
<1> QED
  BY <1>1, <1>4, <1>5, GrowPaid

LEMMA UpstreamPaid ==
  ASSUME Inv, Paid, NEW r \in Requests, Upstream(r) PROVE Paid'
<1>0. /\ TypeOK /\ r \in Threads /\ th[r].pc = "upstream" /\ Stored' = Stored
      /\ th \in [Threads -> Calls] /\ cache \in [Processes -> Tokens \union {None}]
  BY DEF Inv, TypeOK, Threads, Readers, Upstream, Stored, stores
<1>1. th'[r].pc = "idle" /\ \A u \in Threads \ {r} : th'[u] = th[u]
  BY <1>0 DEF Upstream, Idle
<1>2. ~Holds(r) /\ ~Holds(r)' /\ ~Uses(r)'
  BY <1>0, <1>1 DEF Holds, Uses, Filling
<1>3. Free' = Free /\ Using' = Using \ {r}
  BY <1>0, <1>1, <1>2 DEF Free, Using, Holds, Uses, Threads, Readers
<1>4. CASE th[r].val \notin revoked
  BY <1>0, <1>1, <1>2, <1>4, GentlePaid DEF Upstream
<1>5. CASE th[r].val \in revoked /\ ~Uses(r)
  <2>1. ~Stale' /\ late' = late
    BY <1>0, <1>5 DEF Upstream, Stale, Uses, Processes
  <2> QED
    BY <1>0, <1>3, <2>1, GrowPaid
<1>6. CASE th[r].val \in revoked /\ Uses(r)
  <2>1. ~Stale' /\ late' = late + 1 /\ late \in Nat
    BY <1>0, <1>6 DEF Upstream, Stale, Uses, Processes, TypeOK
  <2>2. /\ Cardinality(Using') = Cardinality(Using) - 1
        /\ Cardinality(Using) \in Nat /\ Cardinality(Using') \in Nat
        /\ Cardinality(Free) \in Nat /\ Cardinality(Using) <= Cardinality(Free)
    <3>1. r \in Using
      BY <1>6 DEF Using
    <3> QED
      BY <1>3, <3>1, Sizes, FS_RemoveElement DEF Sized
  <2>3. Owed' = Cardinality(Using') /\ Owed \in Nat /\ Cardinality(Using) <= Owed
    BY <2>1, <2>2 DEF Owed
  <2>4. late' + Owed' <= late + Owed /\ late' + Owed' \in Nat /\ late + Owed \in Nat
    BY <2>1, <2>2, <2>3
  <2>5. Cardinality(Free) * (Cardinality(Free) + 1) \in Nat
    BY <2>2
  <2> QED
    BY <1>3, <2>4, <2>5 DEF Paid
<1> QED
  BY <1>4, <1>5, <1>6

LEMMA FillPaid ==
  ASSUME Inv, Paid, NEW t \in Readers, Fill(t) PROVE Paid'
<1> DEFINE p == ProcessOf(t)
<1>0. /\ t \in Threads /\ TypeOK /\ th[t].val \in Values /\ p \in Processes /\ th[t].pc = "fill"
      /\ cache \in [Processes -> Tokens \union {None}] /\ Serve \in Processes
      /\ late' = late /\ Stored' = Stored
  BY ProcessType DEF Threads, TypeOK, Inv, Fill, InHand, said, Stored, stores, Processes
<1>1. CASE Fail(t) /\ cache' = cache
  <2>1. th'[t].pc = "idle" /\ \A u \in Threads \ {t} : th'[u] = th[u]
    BY <1>0, <1>1, MoveType DEF Now
  <2> QED
    BY <1>0, <1>1, <2>1, GentlePaid DEF Holds, Uses, Filling
<1>2. CASE /\ th[t].val # Blank /\ Proceed(t, cache'[p])
           /\ cache' = IF cache[p] = None THEN [cache EXCEPT ![p] = th[t].val] ELSE cache
  <2>1. /\ cache'[p] = IF cache[p] = None THEN th[t].val ELSE cache[p]
        /\ cache'[p] \in Tokens
    BY <1>0, <1>2 DEF Values
  <2>2. /\ \A u \in Threads \ {t} : th'[u] = th[u]
        /\ Now(t, "upstream", cache'[p], None) \/ Now(t, "idle", None, None)
    BY <1>0, <1>2, <2>1, ProceedType
  <2>3. ~Holds(t)'
    BY <2>2 DEF Now, Holds, Filling
  <2>4. CASE p # Serve
    <3>1. cache'[Serve] = cache[Serve]
      BY <1>0, <1>2, <2>4
    <3>2. t \notin Requests
      BY <2>4 DEF ProcessOf
    <3>3. th'[t].pc = "idle"
      BY <1>0, <1>2, <3>2 DEF Proceed, Idle, TypeOK
    <3> QED
      BY <1>0, <2>2, <2>3, <3>1, <3>3, GentlePaid DEF Uses
  <2>5. CASE p = Serve /\ cache[p] # None
    BY <1>0, <1>2, <2>1, <2>2, <2>3, <2>5, GentlePaid DEF Now, Uses, Stale
  <2>6. CASE p = Serve /\ cache[p] = None
    <3>1. t \in Requests
      BY <2>6, SecretsAssumption DEF ProcessOf, Readers, Checks
    <3>2. Free' = Free \union {t}
      BY <1>0, <2>2, <2>3, <3>1 DEF Free, Holds, Threads, Readers
    <3>3. CASE th[t].val = Stored
      <4>1. ~Stale' /\ Using' \subseteq Using
        BY <1>0, <2>1, <2>2, <2>6, <3>3 DEF Stale, Using, Uses, Now, Threads, Readers
      <4> QED
        BY <1>0, <3>2, <4>1, GrowPaid
    <3>4. CASE th[t].val # Stored
      <4>1. Stale' /\ t \notin Free
        BY <1>0, <2>1, <2>6, <3>4, SecretsAssumption DEF Stale, Free, Holds, Filling, Values
      <4> QED
        BY <1>0, <3>2, <4>1, GrowPaid
    <3> QED
      BY <3>3, <3>4
  <2> QED
    BY <2>4, <2>5, <2>6
<1> QED
  BY <1>1, <1>2 DEF Fill

LEMMA LookPaid ==
  ASSUME Inv, Paid, NEW t \in Readers, Token(t) \/ FindMain(t) \/ FindLegacy(t) \/ ReadFile(t)
  PROVE  Paid'
<1>0. /\ t \in Threads /\ TypeOK /\ Sides
      /\ late' = late /\ Stored' = Stored /\ cache' = cache
  BY DEF Inv, Threads, Token, FindMain, FindLegacy, ReadFile, said, Stored, stores
<1>1. CASE Token(t)
  <2>1. CASE cache[ProcessOf(t)] # None /\ Proceed(t, cache[ProcessOf(t)])
    <3>1. cache[ProcessOf(t)] \in Tokens
      BY <1>0, <2>1, ProcessType DEF TypeOK
    <3>2. /\ \A u \in Threads \ {t} : th'[u] = th[u]
          /\ Now(t, "upstream", cache[ProcessOf(t)], None) \/ Now(t, "idle", None, None)
      BY <1>0, <2>1, <3>1, ProceedType
    <3>3. CASE t \in Requests
      BY <1>0, <2>1, <3>2, <3>3, GentlePaid DEF ProcessOf, Now, Holds, Uses, Filling, Stale
    <3>4. CASE t \notin Requests
      <4>1. th'[t].pc = "idle"
        BY <1>0, <2>1, <3>4 DEF Proceed, Idle, TypeOK
      <4> QED
        BY <1>0, <3>2, <4>1, GentlePaid DEF Holds, Uses, Filling
    <3> QED
      BY <3>3, <3>4
  <2>2. CASE To(t, "main") \/ To(t, "file")
    <3>1. /\ \A u \in Threads \ {t} : th'[u] = th[u]
          /\ th'[t].pc \in {"main", "file"}
      BY <1>0, <2>2, MoveType DEF Now, Steps
    <3> QED
      BY <1>0, <3>1, GentlePaid DEF Holds, Uses, Filling
  <2> QED
    BY <1>1, <2>1, <2>2 DEF Token
<1>2. CASE FindMain(t) \/ FindLegacy(t) \/ ReadFile(t)
  <2>1. /\ \A u \in Threads \ {t} : th'[u] = th[u]
        /\ \/ th'[t].pc \in {"idle", "legacy", "file", "add"}
           \/ th'[t].pc = "fill" /\ th'[t].val = Stored
    <3>1. CASE FindMain(t)
      <4>1. \/ main # None /\ Hold(t, "fill", main, None)
            \/ To(t, "legacy") \/ Fail(t)
        BY <3>1 DEF FindMain
      <4>2. platform = "darwin" /\ main \in Values \union {None}
        BY <1>0, <3>1 DEF FindMain, Sides, TypeOK
      <4> QED
        BY <1>0, <4>1, <4>2, MoveType DEF Now, Steps, Stored
    <3>2. CASE FindLegacy(t)
      <4>1. Hold(t, "add", legacy, "entry") \/ To(t, "file") \/ Fail(t)
        BY <3>2 DEF FindLegacy
      <4>2. legacy \in Values \union {None}
        BY <1>0 DEF TypeOK, Values
      <4> QED
        BY <1>0, <4>1, <4>2, MoveType DEF Now, Steps
    <3>3. CASE ReadFile(t)
      <4>1. \/ Hold(t, "add", file, "file") \/ Fail(t)
            \/ platform # "darwin" /\ Hold(t, "fill", file, None)
        BY <3>3 DEF ReadFile
      <4>2. file \in Values \union {None}
        BY <1>0 DEF TypeOK
      <4> QED
        BY <1>0, <4>1, <4>2, MoveType DEF Now, Steps, Stored
    <3> QED
      BY <1>2, <3>1, <3>2, <3>3
  <2> QED
    BY <1>0, <2>1, GentlePaid DEF Holds, Uses, Filling
<1> QED
  BY <1>1, <1>2

\* What a migration deletes is not the entry it has moved to.
LEMMA DropPaid ==
  ASSUME Inv, Paid, NEW t \in Readers, DropEntry(t) \/ DropFile(t)
  PROVE  Paid'
<1>0. t \in Threads /\ TypeOK /\ platform = "darwin" /\ th[t].pc \in Filling
  BY DEF Inv, Threads, DropEntry, DropFile, Sides, Filling
<1>1. late' = late /\ cache' = cache /\ Stored' = Stored
  BY <1>0 DEF DropEntry, DropFile, said, Stored
<1>2. To(t, "dropFile") \/ To(t, "fill")
  BY DEF DropEntry, DropFile
<1>3. /\ \A u \in Threads \ {t} : th'[u] = th[u]
      /\ th'[t].pc \in {"dropFile", "fill"} /\ th'[t].val = th[t].val
  BY <1>0, <1>2, MoveType DEF Now, Steps
<1> QED
  BY <1>0, <1>1, <1>3, GentlePaid DEF Holds, Uses

LEMMA ReadBackPaid ==
  ASSUME Inv, Paid, NEW t \in Threads, ReadBack(t) PROVE Paid'
<1>0. TypeOK /\ th[t].pc \in Filling /\ late' = late /\ cache' = cache /\ Stored' = Stored
  BY DEF Inv, ReadBack, Filling, Stored, stores
<1>1. Report(t) \/ To(t, "dropEntry") \/ To(t, "dropFile") \/ Fail(t)
  BY DEF ReadBack
<1>2. /\ \A u \in Threads \ {t} : th'[u] = th[u]
      /\ \/ th'[t].pc \in {"dropEntry", "dropFile"} /\ th'[t].val = th[t].val
         \/ th'[t].pc = "idle"
  <2>1. CASE Report(t)
    BY <1>0, <2>1 DEF Report, Idle, TypeOK
  <2>2. CASE To(t, "dropEntry") \/ To(t, "dropFile") \/ Fail(t)
    BY <1>0, <2>2, MoveType DEF Now, Steps
  <2> QED
    BY <1>1, <2>1, <2>2
<1> QED
  BY <1>0, <1>2, GentlePaid DEF Holds, Uses, Filling

LEMMA StoreInBackgroundPaid ==
  ASSUME Inv, Paid, NEW t \in Storing, StoreInBackground(t) PROVE Paid'
<1>0. t \in Threads /\ TypeOK /\ late' = late /\ cache' = cache /\ Stored' = Stored
  BY DEF Inv, Threads, StoreInBackground, Stored, stores
<1>1. \A u \in Threads \ {t} : th'[u] = th[u]
  BY <1>0 DEF StoreInBackground, TypeOK
<1>2. th'[t].pc \in {"add", "truncate"}
  BY <1>0 DEF StoreInBackground, TypeOK
<1> QED
  BY <1>0, <1>1, <1>2, GentlePaid DEF Holds, Uses, Filling

LEMMA RestartPaid ==
  ASSUME Inv, Paid, NEW p \in Processes, Restart(p) PROVE Paid'
<1>0. /\ TypeOK /\ late' = late /\ Stored' = Stored
      /\ cache \in [Processes -> Tokens \union {None}] /\ Serve \in Processes
  BY DEF Inv, TypeOK, Restart, said, Stored, stores, Processes
<1>1. \A r \in Threads : th'[r].pc = "idle" \/ th'[r] = th[r]
  BY DEF Restart, Idle
<1>2. \A r \in Requests : (Holds(r)' => Holds(r)) /\ (Uses(r)' => Uses(r))
  BY <1>0, <1>1 DEF Holds, Uses, Filling, Threads, Readers
<1>3. Free \subseteq Free' /\ Using' \subseteq Using
  BY <1>2 DEF Free, Using
<1>4. Stale' => Stale
  BY <1>0 DEF Restart, Stale
<1> QED
  BY <1>0, <1>3, <1>4, GrowPaid

LEMMA StillPaid ==
  ASSUME Paid, UNCHANGED vars \/ \E v \in Tokens : Revoke(v) PROVE Paid'
<1>1. UNCHANGED <<platform, main, file, cache, th, late>>
  BY DEF Revoke, vars, stores, said
<1>2. Stored' = Stored /\ Free' = Free /\ Using' = Using /\ Stale' = Stale
  BY <1>1 DEF Stored, Free, Using, Stale, Holds, Uses
<1>3. Owed' = Owed
  BY <1>2 DEF Owed
<1> QED
  BY <1>1, <1>2, <1>3 DEF Paid

LEMMA StepPaid == Inv /\ Paid /\ [Next]_vars => Paid'
<1> SUFFICES ASSUME Inv, Paid, [Next]_vars PROVE Paid'
  OBVIOUS
<1>1. CASE \E t \in Readers : Token(t) \/ Fill(t) \/ FindMain(t) \/ FindLegacy(t)
                                 \/ ReadFile(t) \/ DropEntry(t) \/ DropFile(t)
  BY <1>1, LookPaid, FillPaid, DropPaid
<1>2. CASE \E r \in Requests : Upstream(r)
  BY <1>2, UpstreamPaid
<1>3. CASE \E t \in Storing : StoreInBackground(t) \/ Truncate(t) \/ Write(t)
  <2>1. \A t \in Storing : Truncate(t) \/ Write(t) => late' = 0
    BY DEF Truncate, Write
  <2> QED
    BY <1>3, <2>1, StoreInBackgroundPaid, ResetPaid
<1>4. CASE \E t \in Threads : Add(t) \/ ReadBack(t)
  <2>1. \A t \in Threads : Add(t) => late' = 0
    BY DEF Add
  <2> QED
    BY <1>4, <2>1, ReadBackPaid, ResetPaid
<1>5. CASE \E p \in Processes : Restart(p)
  BY <1>5, RestartPaid
<1>6. CASE UNCHANGED vars \/ \E v \in Tokens : Revoke(v)
  BY <1>6, StillPaid
<1> QED
  BY <1>1, <1>2, <1>3, <1>4, <1>5, <1>6 DEF Next

LEMMA InitPaid == Init => Paid
<1> SUFFICES ASSUME Init PROVE Paid
  OBVIOUS
<1>1. late = 0 /\ Owed <= Cardinality(Free) /\ Owed \in Nat /\ Cardinality(Free) \in Nat
  BY Sizes DEF Init, Owed, Sized
<1>2. 2 * Cardinality(Free) <= Cardinality(Free) * (Cardinality(Free) + 1)
  BY <1>1, Sums
<1> QED
  BY <1>1, <1>2 DEF Paid

\* A token that was replaced is refused no more than a bounded number of times,
\* for any number of requests, TUIs and faults (source.go, Token, Invalidate).
THEOREM RefusalsEnd == Spec => []LateRefusalsBounded
<1>1. Inv /\ Paid => LateRefusalsBounded
  <2> SUFFICES ASSUME Inv, Paid PROVE LateRefusalsBounded
    OBVIOUS
  <2> DEFINE m == Cardinality(Free)  n == Cardinality(Requests)
  <2>1. m \in Nat /\ n \in Nat /\ m <= n /\ Owed \in Nat /\ late \in Nat
    BY Sizes DEF Sized, Owed, Inv, TypeOK
  <2>2. 2 * (late + Owed) <= m * (m + 1)
    BY DEF Paid
  <2> HIDE DEF m, n
  <2>3. m * (m + 1) <= n * (n + 1)
    BY <2>1, Sums
  <2>4. n * (n + 1) \in Nat /\ m * (m + 1) \in Nat
    BY <2>1
  <2>5. 2 * late <= n * (n + 1)
    BY <2>1, <2>2, <2>3, <2>4
  <2>6. \A k \in Nat : 2 * late <= k => late <= k \div 2
    BY <2>1
  <2> QED
    BY <2>4, <2>5, <2>6 DEF LateRefusalsBounded, n
<1> QED
  BY <1>1, InitInv, StepInv, InitPaid, StepPaid, PTL DEF Spec

=============================================================================
