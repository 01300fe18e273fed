--------------------------- MODULE SessionProofs ---------------------------
(***************************************************************************)
(* Proofs about Session, for any number of keys, fingerprints, TUIs, start *)
(* phases at a time and failures.  The argument, for each of the three     *)
(* claims: what a process, the marker or a launch still claims is true     *)
(* now, and nobody who could make it false is left running.  For the key   *)
(* that is every live process having the key of the key file.              *)
(***************************************************************************)
EXTENDS Session, TLAPS

\* A launch that does not wait may make another attempt; one that waits waits
\* for a process.  There is an image before there is a container.
Turns ==
  /\ \A t \in Tuis : /\ launch[t].pc # "wait" => launch[t].tries < Attempts
                     /\ launch[t].pc = "wait" => launch[t].exec \in Execs
                     /\ launch[t].pc \in {"container", "up"} => image # None
  /\ box.up => image # None

\* Every live process has the key of the key file, and so has settings.json.
NoStray == \A x \in Execs : Live(x) => exec[x].key = filed
Good    == filed # None => NoStray /\ settings = filed

\* The phase of e has not failed.
Fit(e) == exec[e].pc = "exit" => ~exec[e].failed

KeyInv ==
  /\ \A e \in Execs : exec[e].pc # "off" /\ "key" \in exec[e].sure =>
       /\ exec[e].key = filed
       /\ filed # None => NoStray
       /\ exec[e].pc \in {"marker", "exit"} /\ Fit(e) => Good
  /\ "key" \in marker.sure /\ marker.key = filed => Good
  /\ \A t \in Tuis : launch[t].pc = "attach" /\ "key" \in launch[t].sure => Good

HeadroomInv == box.up =>
  /\ \A e \in Execs : exec[e].pc # "off" /\ Fit(e) /\ "headroom" \in exec[e].sure => headroom
  /\ "headroom" \in marker.sure /\ marker.fp = box.fp => headroom
  /\ \A t \in Tuis : launch[t].pc = "attach" /\ "headroom" \in launch[t].sure => headroom

LoginInv ==
  /\ \A e \in Execs : exec[e].pc \in {"headroom", "env", "marker", "exit"} =>
       (~exec[e].failed /\ "login" \in exec[e].sure => ~creds)
  /\ "login" \notin marker.sure
  /\ \A t \in Tuis : launch[t].pc = "attach" /\ "login" \in launch[t].sure => ~creds

Claimed == KeyInv /\ HeadroomInv /\ LoginInv
Inv     == TypeOK /\ Turns /\ Claimed

\* The types of TypeOK, by themselves.
Launches == [pc : {"idle", "image", "container", "up", "check", "run", "wait", "attach",
                   "attached"},
             tries : 0 .. Attempts, exec : Execs \union {None}, sure : SUBSET Claims]
Phases   == [pc : {"off", "creds", "headroom", "env", "marker", "exit"},
             key : issued \union {None}, failed : BOOLEAN, sure : SUBSET Claims]

LEMMA Shapes == TypeOK => launch \in [Tuis -> Launches] /\ exec \in [Execs -> Phases]
BY DEF TypeOK, Launches, Phases

LEMMA InitInv == Init => Inv
<1> SUFFICES ASSUME Init PROVE Inv
  OBVIOUS
<1>1. Rest \in Launches /\ Off \in Phases
  BY DEF Rest, Off, Launches, Phases, Claims, Attempts
<1>2. launch \in [Tuis -> Launches] /\ exec \in [Execs -> Phases]
  BY <1>1 DEF Init
<1>3. marker \in [fp : Prints \union {None}, key : issued \union {None}, sure : SUBSET Claims]
  BY DEF Init, NoMark
<1>4. box \in [up : BOOLEAN, fp : Prints \union {None}] /\ (box.up => box.fp # None)
  BY DEF Init, NoBox
<1>5. faults \in 0 .. MaxFaults
  BY SessionAssumption DEF Init
<1>6. TypeOK
  BY <1>2, <1>3, <1>4, <1>5 DEF Init, TypeOK, Launches, Phases
<1>7. /\ \A e \in Execs : exec[e].pc = "off"
      /\ \A t \in Tuis : launch[t].pc = "idle" /\ launch[t].tries = 0
      /\ marker.sure = {} /\ ~box.up
  BY DEF Init, Off, Rest, NoMark, NoBox
<1>8. Turns
  BY <1>7 DEF Turns, Attempts
<1>9. Claimed
  BY <1>7 DEF Claimed, KeyInv, HeadroomInv, LoginInv
<1> QED
  BY <1>6, <1>8, <1>9 DEF Inv

-----------------------------------------------------------------------------
(* Steps of the host that leave the container alone.                       *)

\* A launch that goes on to attach takes over claims that are true; a phase
\* whose exit nobody waits for any longer is forgotten.
LEMMA LaunchMoves ==
  ASSUME Inv, NEW t \in Tuis, launch' \in [Tuis -> Launches], exec' \in [Execs -> Phases],
         \A u \in Tuis \ {t} : launch'[u] = launch[u],
         \A x \in Execs : exec'[x] = exec[x] \/ exec'[x].pc = "off",
         UNCHANGED <<filed, issued, desired, box, volume, headroom>>,
         image' \in Prints \union {None}, Fault \/ Fine,
         image # None => image' # None,
         launch'[t].pc # "wait" => launch'[t].tries < Attempts,
         launch'[t].pc = "wait" => launch'[t].exec \in Execs,
         launch'[t].pc \in {"container", "up"} => image' # None,
         launch'[t].pc = "attach" =>
           /\ "key" \in launch'[t].sure => Good
           /\ "headroom" \in launch'[t].sure /\ box.up => headroom
           /\ "login" \in launch'[t].sure => ~creds
  PROVE  Inv'
<1>1. faults' \in 0 .. MaxFaults
  BY SessionAssumption DEF Inv, TypeOK, Fault, Fine
<1>2. TypeOK'
  BY <1>1 DEF Inv, TypeOK, Launches, Phases, volume
<1>3. Turns'
  BY DEF Inv, Turns
<1>4. /\ NoStray => NoStray'
      /\ Good => Good'
  BY DEF Good, NoStray, Live, volume
<1>5. KeyInv'
  <2>1. ASSUME NEW x \in Execs, exec'[x].pc # "off", "key" \in exec'[x].sure
        PROVE  /\ exec'[x].key = filed'
               /\ filed' # None => NoStray'
               /\ exec'[x].pc \in {"marker", "exit"} /\ Fit(x)' => Good'
    <3>1. exec'[x] = exec[x]
      BY <2>1
    <3> QED
      BY <1>4, <2>1, <3>1 DEF Inv, Claimed, KeyInv, Fit
  <2>2. "key" \in marker'.sure /\ marker'.key = filed' => Good'
    BY <1>4 DEF Inv, Claimed, KeyInv, volume
  <2>3. ASSUME NEW u \in Tuis, launch'[u].pc = "attach", "key" \in launch'[u].sure
        PROVE  Good'
    BY <1>4, <2>3 DEF Inv, Claimed, KeyInv
  <2> QED
    BY <2>1, <2>2, <2>3 DEF KeyInv
<1>6. HeadroomInv'
  BY DEF Inv, Claimed, HeadroomInv, volume, Fit
<1>7. LoginInv'
  BY DEF Inv, Claimed, LoginInv, volume
<1> QED
  BY <1>2, <1>3, <1>5, <1>6, <1>7 DEF Inv, Claimed

\* What Go and End do to one launch.
LEMMA GoType ==
  ASSUME Inv, NEW t \in Tuis, launch[t].pc # "wait",
         NEW pc \in {"image", "container", "up", "check", "run", "attached"},
         Go(t, pc) \/ End(t)
  PROVE  /\ launch' \in [Tuis -> Launches]
         /\ \A u \in Tuis \ {t} : launch'[u] = launch[u]
         /\ launch'[t].pc \in {pc, "idle"}
         /\ launch'[t].tries < Attempts
<1> launch \in [Tuis -> Launches] /\ Rest \in Launches
  BY Shapes DEF Inv, Rest, Launches, Attempts
<1>1. launch[t].tries < Attempts
  BY DEF Inv, Turns
<1>2. CASE Go(t, pc)
  <2>1. [launch[t] EXCEPT !.pc = pc] \in Launches
    BY DEF Launches
  <2>2. launch' = [launch EXCEPT ![t] = [launch[t] EXCEPT !.pc = pc]]
    BY <1>2 DEF Go
  <2> QED
    BY <1>1, <2>1, <2>2 DEF Launches
<1>3. CASE End(t)
  BY <1>3 DEF End, Rest, Attempts
<1> QED
  BY <1>2, <1>3

LEMMA GoInv ==
  ASSUME Inv, NEW t \in Tuis, Launch(t) \/ Image(t) \/ Attach(t) \/ Leave(t)
  PROVE  Inv'
<1> /\ desired \in Prints /\ image \in Prints \union {None} /\ None \notin Prints
    /\ exec \in [Execs -> Phases]
  BY Shapes, SessionAssumption DEF Inv, TypeOK
<1>1. /\ launch[t].pc # "wait"
      /\ \E pc \in {"image", "container", "attached"} : Go(t, pc) \/ End(t)
      /\ Image(t) \/ \E pc \in {"image", "attached"} : Go(t, pc) \/ End(t)
  BY DEF Launch, Image, Attach, Leave
<1>2. /\ launch' \in [Tuis -> Launches]
      /\ \A u \in Tuis \ {t} : launch'[u] = launch[u]
      /\ launch'[t].pc \in {"image", "container", "attached", "idle"}
      /\ launch'[t].tries < Attempts
      /\ Image(t) \/ launch'[t].pc # "container"
  BY <1>1, GoType
<1>3. UNCHANGED <<filed, issued, desired, box, volume, headroom, exec>> /\ (Fault \/ Fine)
  BY DEF Launch, Image, Attach, Leave, host, docker, Fine
<1>4. image' \in {image, desired}
  BY DEF Launch, Image, Attach, Leave, docker
<1>5. ASSUME Image(t), launch'[t].pc = "container" PROVE image' # None
  <2>1. CASE box.up /\ box.fp = desired
    BY <1>5, <2>1 DEF Image, Inv, Turns
  <2>2. CASE ~(box.up /\ box.fp = desired) /\ image' = desired
    BY <2>2
  <2>3. CASE End(t)
    BY <1>5, <2>3, Shapes DEF End, Rest, Inv
  <2> QED
    BY <1>5, <2>1, <2>2, <2>3 DEF Image
<1>6. launch'[t].pc \in {"container", "up"} => image' # None
  BY <1>2, <1>5
<1> QED
  BY <1>2, <1>3, <1>4, <1>6, LaunchMoves

LEMMA AttachType ==
  ASSUME NEW c \in SUBSET Claims
  PROVE  \E l \in Launches : /\ l = [Rest EXCEPT !.pc = "attach", !.sure = c]
                             /\ l.pc = "attach" /\ l.tries < Attempts /\ l.sure = c
<1> DEFINE r == [pc |-> "attach", tries |-> 0, exec |-> None, sure |-> {}]
           l == [pc |-> "attach", tries |-> 0, exec |-> None, sure |-> c]
<1>1. [Rest EXCEPT !.pc = "attach"] = r
  BY DEF Rest
<1>2. [r EXCEPT !.sure = c] = l
  OBVIOUS
<1>3. l \in Launches /\ 0 < Attempts
  BY DEF Launches, Attempts
<1>4. l.pc = "attach" /\ l.tries = 0 /\ l.sure = c
  OBVIOUS
<1> HIDE DEF r, l
<1>5. l = [Rest EXCEPT !.pc = "attach", !.sure = c]
  BY <1>1, <1>2, Zenon
<1> QED
  BY <1>3, <1>4, <1>5

LEMMA StartCheckInv ==
  ASSUME Inv, NEW t \in Tuis, StartCheck(t)
  PROVE  Inv'
<1> launch \in [Tuis -> Launches] /\ exec \in [Execs -> Phases]
  BY Shapes DEF Inv
<1>1. launch[t].tries < Attempts /\ launch[t].pc = "check"
  BY DEF Inv, Turns, StartCheck
<1>2. UNCHANGED <<filed, issued, desired, image, box, volume, headroom, exec>> /\ Fine
  BY DEF StartCheck, host, docker, Fine
<1>3. CASE Marked
  <2> DEFINE sure == IF box.fp = desired THEN marker.sure ELSE marker.sure \ {"headroom"}
             l    == [Rest EXCEPT !.pc = "attach", !.sure = sure]
  <2>1. launch' = [launch EXCEPT ![t] = l]
    BY <1>3 DEF StartCheck
  <2>2. sure \in SUBSET Claims
    BY DEF Inv, TypeOK
  <2> HIDE DEF sure
  <2>3. l \in Launches /\ l.pc = "attach" /\ l.tries < Attempts /\ l.sure = sure
    BY <2>2, AttachType
  <2> HIDE DEF l
  <2>4. /\ "key" \in sure => Good
        /\ "headroom" \in sure /\ box.up => headroom
        /\ "login" \notin sure
    BY <1>3 DEF Inv, Claimed, KeyInv, HeadroomInv, LoginInv, Marked, sure
  <2>5. launch'[t] = l /\ \A u \in Tuis \ {t} : launch'[u] = launch[u]
    BY <2>1
  <2>6. launch' \in [Tuis -> Launches]
    BY <2>1, <2>3
  <2> QED
    BY <1>2, <2>3, <2>4, <2>5, <2>6, LaunchMoves DEF Inv, TypeOK
<1>4. CASE ~Marked
  <2>1. Go(t, "run")
    BY <1>4 DEF StartCheck
  <2>2. /\ launch' \in [Tuis -> Launches]
        /\ \A u \in Tuis \ {t} : launch'[u] = launch[u]
        /\ launch'[t].pc \in {"run", "idle"}
        /\ launch'[t].tries < Attempts
    BY <1>1, <2>1, GoType
  <2> QED
    BY <1>2, <2>2, LaunchMoves DEF Inv, TypeOK
<1> QED
  BY <1>3, <1>4

LEMMA StartRunFailsInv ==
  ASSUME Inv, NEW t \in Tuis, StartRunFails(t)
  PROVE  Inv'
<1> launch \in [Tuis -> Launches] /\ exec \in [Execs -> Phases]
  BY Shapes DEF Inv
<1>1. UNCHANGED <<filed, issued, desired, image, box, volume, headroom, exec>> /\ (Fault \/ Fine)
  BY DEF StartRunFails, host, docker, Fine
<1>2. CASE launch[t].tries + 1 < Attempts
  <2> DEFINE l == [launch[t] EXCEPT !.pc = "check", !.tries = @ + 1]
  <2>1. launch' = [launch EXCEPT ![t] = l]
    BY <1>2 DEF StartRunFails
  <2> launch[t] \in Launches /\ launch[t].tries + 1 \in 0 .. Attempts
    BY <1>2 DEF Launches, Attempts
  <2>2. l \in Launches /\ l.pc = "check" /\ l.tries < Attempts
    BY <1>2 DEF Launches
  <2> HIDE DEF l
  <2>3. /\ launch'[t] = l /\ \A u \in Tuis \ {t} : launch'[u] = launch[u]
        /\ launch' \in [Tuis -> Launches]
    BY <2>1, <2>2
  <2> QED
    BY <1>1, <2>2, <2>3, LaunchMoves DEF Inv, TypeOK
<1>3. CASE ~(launch[t].tries + 1 < Attempts)
  <2>1. End(t) /\ launch[t].pc = "run"
    BY <1>3 DEF StartRunFails
  <2>2. /\ launch' \in [Tuis -> Launches]
        /\ \A u \in Tuis \ {t} : launch'[u] = launch[u]
        /\ launch'[t].pc \in {"run", "idle"}
        /\ launch'[t].tries < Attempts
    BY <2>1, GoType
  <2> QED
    BY <1>1, <2>2, LaunchMoves DEF Inv, TypeOK
<1> QED
  BY <1>2, <1>3

\* Where an attempt leaves its launch, and a launch that is given up.
LEMMA RetryType ==
  ASSUME Inv, NEW t \in Tuis, Retry(t) \/ End(t)
  PROVE  /\ launch' \in [Tuis -> Launches]
         /\ \A u \in Tuis \ {t} : launch'[u] = launch[u]
         /\ launch'[t].pc \in {"check", "idle"}
         /\ launch'[t].tries < Attempts
<1> launch \in [Tuis -> Launches] /\ Rest \in Launches
  BY Shapes DEF Inv, Rest, Launches, Attempts
<1> DEFINE l == [launch[t] EXCEPT !.pc = "check", !.exec = None]
<1>1. CASE launch' = [launch EXCEPT ![t] = l] /\ launch[t].tries < Attempts
  <2>1. l \in Launches /\ l.pc = "check" /\ l.tries < Attempts
    BY <1>1 DEF Launches
  <2> HIDE DEF l
  <2> QED
    BY <1>1, <2>1
<1>2. CASE End(t)
  BY <1>2 DEF End, Rest, Attempts
<1> QED
  BY <1>1, <1>2 DEF Retry

LEMMA StopsWaitingType ==
  ASSUME Inv, NEW t \in Tuis, StopsWaiting(t)
  PROVE  /\ exec' \in [Execs -> Phases]
         /\ \A x \in Execs : exec'[x] = exec[x] \/ exec'[x].pc = "off"
BY Shapes DEF StopsWaiting, Inv, Off, Phases

LEMMA GivesUpInv ==
  ASSUME Inv, NEW t \in Tuis, Timeout(t) \/ Cancel(t)
  PROVE  Inv'
<1>1. /\ UNCHANGED <<filed, issued, desired, image, box, volume, headroom>> /\ Fine
      /\ StopsWaiting(t) /\ (Retry(t) \/ End(t))
  BY DEF Timeout, Cancel, host, docker, Fine
<1> QED
  BY <1>1, RetryType, StopsWaitingType, LaunchMoves DEF Inv, TypeOK

\* A phase that ended well hands its claims to the launch.
LEMMA StartDoneInv ==
  ASSUME Inv, NEW t \in Tuis, StartDone(t)
  PROVE  Inv'
<1> launch \in [Tuis -> Launches] /\ exec \in [Execs -> Phases] /\ Off \in Phases
  BY Shapes DEF Inv, Off, Phases
<1> DEFINE e == launch[t].exec
<1>1. e \in Execs /\ exec[e].pc = "exit"
  BY DEF StartDone, Inv, Turns
<1>2. UNCHANGED <<filed, issued, desired, image, box, volume, headroom>> /\ Fine
  BY DEF StartDone, host, docker, Fine
<1>3. exec' = [exec EXCEPT ![e] = Off]
  BY DEF StartDone
<1> HIDE DEF e
<1>4. /\ exec' \in [Execs -> Phases]
      /\ \A x \in Execs : exec'[x] = exec[x] \/ exec'[x].pc = "off"
  BY <1>1, <1>3 DEF Off
<1>5. CASE exec[e].failed
  <2>1. Retry(t)
    BY <1>5 DEF StartDone, e
  <2> QED
    BY <1>2, <1>4, <2>1, RetryType, LaunchMoves DEF Inv, TypeOK
<1>6. CASE ~exec[e].failed
  <2> DEFINE l == [Rest EXCEPT !.pc = "attach", !.sure = exec[e].sure]
  <2>1. launch' = [launch EXCEPT ![t] = l]
    BY <1>6 DEF StartDone, e
  <2>2. exec[e].sure \in SUBSET Claims
    BY <1>1 DEF Phases
  <2>3. l \in Launches /\ l.pc = "attach" /\ l.tries < Attempts /\ l.sure = exec[e].sure
    BY <2>2, AttachType
  <2> HIDE DEF l
  <2>4. /\ "key" \in exec[e].sure => Good
        /\ "headroom" \in exec[e].sure /\ box.up => headroom
        /\ "login" \in exec[e].sure => ~creds
    BY <1>1, <1>6 DEF Inv, Claimed, KeyInv, HeadroomInv, LoginInv, Fit
  <2>5. /\ launch'[t] = l /\ \A u \in Tuis \ {t} : launch'[u] = launch[u]
        /\ launch' \in [Tuis -> Launches]
    BY <2>1, <2>3
  <2> QED
    BY <1>2, <1>4, <2>3, <2>4, <2>5, LaunchMoves DEF Inv, TypeOK
<1> QED
  BY <1>5, <1>6 DEF Phases

\* A new phase has the key of the key file; it is sure of settings.json if no
\* phase with another key is left.
LEMMA StartRunInv ==
  ASSUME Inv, NEW t \in Tuis, StartRun(t)
  PROVE  Inv'
<1> launch \in [Tuis -> Launches] /\ exec \in [Execs -> Phases]
  BY Shapes DEF Inv
<1> USE DEF volume
<1>1. UNCHANGED <<filed, issued, desired, image, box, volume, headroom, faults>>
  BY DEF StartRun, host, docker
<1> DEFINE others == {x \in Execs : Live(x) /\ exec[x].key # filed}
           sure   == IF others = {} THEN {"key", "login"} ELSE {"login"}
           new    == [pc |-> "creds", key |-> filed, failed |-> FALSE, sure |-> sure]
<1>2. PICK e \in Execs :
        /\ exec[e].pc = "off"
        /\ exec' = [x \in Execs |-> IF x = e THEN new
                                    ELSE IF x \in others THEN [exec[x] EXCEPT !.sure = @ \ {"key"}]
                                    ELSE exec[x]]
        /\ launch' = [launch EXCEPT ![t].pc = "wait", ![t].exec = e, ![t].tries = @ + 1]
  BY DEF StartRun
<1>3. new \in Phases /\ new.pc = "creds" /\ new.key = filed /\ new.sure \subseteq {"key", "login"}
      /\ ("key" \in new.sure => others = {})
  BY DEF Phases, Claims, Inv, TypeOK
<1> HIDE DEF new, sure
<1>4. ASSUME NEW x \in Execs, x # e
      PROVE  /\ exec'[x] \in Phases
             /\ exec'[x].pc = exec[x].pc /\ exec'[x].key = exec[x].key
             /\ exec'[x].failed = exec[x].failed /\ exec'[x].sure \subseteq exec[x].sure
  BY <1>2, <1>4 DEF Phases
<1>5. exec'[e] = new
  BY <1>2
<1>6. exec' \in [Execs -> Phases]
  <2>1. exec' = [x \in Execs |-> exec'[x]]
    BY <1>2
  <2> QED
    BY <1>3, <1>4, <1>5, <2>1
<1>7. launch[t].pc = "run" /\ launch[t].tries < Attempts
  BY DEF StartRun, Inv, Turns
<1>8. /\ launch' \in [Tuis -> Launches]
      /\ launch'[t].pc = "wait" /\ launch'[t].exec = e
      /\ \A u \in Tuis \ {t} : launch'[u] = launch[u]
  <2> DEFINE l == [pc |-> "wait", tries |-> launch[t].tries + 1, exec |-> e, sure |-> launch[t].sure]
  <2>1. l \in Launches /\ l.pc = "wait" /\ l.exec = e
    BY <1>7 DEF Launches, Attempts
  <2>2. launch' = [launch EXCEPT ![t] = l]
    BY <1>2 DEF Launches
  <2> HIDE DEF l
  <2> QED
    BY <2>1, <2>2
<1>9. TypeOK'
  BY <1>1, <1>6, <1>8 DEF Inv, TypeOK, Launches, Phases
<1>10. Turns'
  BY <1>1, <1>8 DEF Inv, Turns
<1>11. NoStray => NoStray'
  BY <1>1, <1>3, <1>4, <1>5 DEF NoStray, Live
<1>12. Good => Good'
  BY <1>1, <1>11 DEF Good
<1>13. KeyInv'
  <2>1. ASSUME NEW x \in Execs, exec'[x].pc # "off", "key" \in exec'[x].sure
        PROVE  /\ exec'[x].key = filed'
               /\ filed' # None => NoStray'
               /\ exec'[x].pc \in {"marker", "exit"} /\ Fit(x)' => Good'
    <3>1. CASE x = e
      <4>1. NoStray
        BY <1>3, <1>5, <2>1, <3>1 DEF NoStray
      <4> QED
        BY <1>1, <1>3, <1>5, <1>11, <3>1, <4>1
    <3>2. CASE x # e
      BY <1>1, <1>4, <1>11, <1>12, <2>1, <3>2 DEF Inv, Claimed, KeyInv, Fit
    <3> QED
      BY <3>1, <3>2
  <2>2. "key" \in marker'.sure /\ marker'.key = filed' => Good'
    BY <1>1, <1>12 DEF Inv, Claimed, KeyInv
  <2>3. ASSUME NEW u \in Tuis, launch'[u].pc = "attach", "key" \in launch'[u].sure
        PROVE  Good'
    BY <1>8, <1>12, <2>3 DEF Inv, Claimed, KeyInv
  <2> QED
    BY <2>1, <2>2, <2>3 DEF KeyInv
<1>14. HeadroomInv'
  BY <1>1, <1>3, <1>4, <1>5, <1>8 DEF Inv, Claimed, HeadroomInv, Fit
<1>15. LoginInv'
  BY <1>1, <1>3, <1>4, <1>5, <1>8 DEF Inv, Claimed, LoginInv
<1> QED
  BY <1>9, <1>10, <1>13, <1>14, <1>15 DEF Inv, Claimed

-----------------------------------------------------------------------------
(* Steps of a start phase.                                                 *)

\* What a step of phase e that leaves it in r does for the claims.
Moves(e, r) ==
  /\ Live(e) /\ exec' = [exec EXCEPT ![e] = r]
  /\ UNCHANGED <<filed, issued, desired, image, box, launch>> /\ (Fault \/ Fine)
  /\ r.pc # "off" => r.key = exec[e].key
  /\ {"key", "login"} \intersect r.sure \subseteq exec[e].sure
  /\ settings' = settings \/ (exec[e].key # None /\ settings' = exec[e].key)
  /\ r.pc \in {"marker", "exit"} /\ (r.pc = "exit" => ~r.failed) =>
       exec[e].pc = "marker" \/ (exec[e].key # None => settings' = exec[e].key)
  /\ headroom => headroom'
  /\ "headroom" \in r.sure => headroom' \/ "headroom" \in exec[e].sure
  /\ creds' => creds
  /\ r.pc # "off" /\ ~r.failed =>
       ~creds' \/ (exec[e].pc \in {"headroom", "env", "marker"} /\ ~exec[e].failed)
  /\ \/ marker' = marker
     \/ /\ exec[e].pc = "marker"
        /\ marker' = [fp |-> box.fp, key |-> exec[e].key, sure |-> exec[e].sure \ {"login"}]

LEMMA EndedType ==
  ASSUME Inv, NEW e \in Execs, NEW bad \in BOOLEAN
  PROVE  /\ Ended(e, bad) \in Phases
         /\ \/ Ended(e, bad).pc = "off" /\ Ended(e, bad).sure = {}
            \/ /\ Ended(e, bad).pc = "exit" /\ Ended(e, bad).failed = bad
               /\ Ended(e, bad).key = exec[e].key /\ Ended(e, bad).sure = exec[e].sure
<1> exec[e] \in Phases
  BY Shapes DEF Inv
<1>1. CASE Awaited(e)
  <2>1. Ended(e, bad) = [pc |-> "exit", key |-> exec[e].key, failed |-> bad, sure |-> exec[e].sure]
    BY <1>1 DEF Ended, Phases
  <2> QED
    BY <2>1 DEF Phases
<1>2. CASE ~Awaited(e)
  BY <1>2 DEF Ended, Off, Phases
<1> QED
  BY <1>1, <1>2

LEMMA CredentialsMoves ==
  ASSUME Inv, NEW e \in Execs, Credentials(e)
  PROVE  \E r \in Phases : Moves(e, r)
<1> exec \in [Execs -> Phases]
  BY Shapes DEF Inv
<1> DEFINE r == [exec[e] EXCEPT !.pc = "headroom"]
           f == [exec[e] EXCEPT !.pc = "headroom", !.failed = TRUE]
<1>1. /\ Live(e) /\ exec[e].pc = "creds" /\ creds \in BOOLEAN
      /\ UNCHANGED <<filed, issued, desired, image, box, launch, headroom, settings, marker>>
      /\ Fault \/ Fine
  BY DEF Credentials, Live, host, docker, Inv, TypeOK
<1>2. CASE creds' = FALSE /\ Exec(e, "headroom")
  <2>1. r \in Phases /\ r.pc = "headroom" /\ r.key = exec[e].key /\ r.sure = exec[e].sure
    BY DEF Phases
  <2>2. exec' = [exec EXCEPT ![e] = r]
    BY <1>2 DEF Exec
  <2> HIDE DEF r
  <2> QED
    BY <1>1, <1>2, <2>1, <2>2 DEF Moves
<1>3. CASE /\ UNCHANGED creds
           /\ exec' = [exec EXCEPT ![e].pc = "headroom", ![e].failed = TRUE]
  <2>1. /\ f \in Phases /\ f.pc = "headroom" /\ f.key = exec[e].key /\ f.sure = exec[e].sure
        /\ f.failed
    BY DEF Phases
  <2>2. exec' = [exec EXCEPT ![e] = f]
    BY <1>3
  <2> HIDE DEF f
  <2> QED
    BY <1>1, <1>3, <2>1, <2>2 DEF Moves
<1> QED
  BY <1>2, <1>3 DEF Credentials

LEMMA HeadroomMoves ==
  ASSUME Inv, NEW e \in Execs, Headroom(e)
  PROVE  \E r \in Phases : Moves(e, r)
<1> exec \in [Execs -> Phases]
  BY Shapes DEF Inv
<1> DEFINE r == [exec[e] EXCEPT !.pc = "env", !.sure = @ \union {"headroom"}]
           f == [exec[e] EXCEPT !.pc = "env"]
<1>1. /\ Live(e) /\ exec[e].pc = "headroom"
      /\ UNCHANGED <<filed, issued, desired, image, box, launch, creds, settings, marker>>
      /\ Fault \/ Fine
  BY DEF Headroom, Live, host, docker, volume
<1>2. CASE /\ headroom' = TRUE
           /\ exec' = [exec EXCEPT ![e].pc = "env", ![e].sure = @ \union {"headroom"}]
  <2>1. /\ r \in Phases /\ r.pc = "env" /\ r.key = exec[e].key
        /\ r.sure = exec[e].sure \union {"headroom"} /\ r.failed = exec[e].failed
    BY DEF Phases, Claims
  <2>2. exec' = [exec EXCEPT ![e] = r]
    BY <1>2
  <2> HIDE DEF r
  <2> QED
    BY <1>1, <1>2, <2>1, <2>2 DEF Moves
<1>3. CASE UNCHANGED headroom /\ Exec(e, "env")
  <2>1. /\ f \in Phases /\ f.pc = "env" /\ f.key = exec[e].key /\ f.sure = exec[e].sure
        /\ f.failed = exec[e].failed
    BY DEF Phases
  <2>2. exec' = [exec EXCEPT ![e] = f]
    BY <1>3 DEF Exec
  <2> HIDE DEF f
  <2> QED
    BY <1>1, <1>3, <2>1, <2>2 DEF Moves
<1> QED
  BY <1>2, <1>3 DEF Headroom

LEMMA SettingsEnvMoves ==
  ASSUME Inv, NEW e \in Execs, SettingsEnv(e)
  PROVE  \E r \in Phases : Moves(e, r)
<1> exec \in [Execs -> Phases]
  BY Shapes DEF Inv
<1> DEFINE r == [exec[e] EXCEPT !.pc = "marker"]
<1>1. /\ Live(e) /\ exec[e].pc = "env"
      /\ UNCHANGED <<filed, issued, desired, image, box, launch, creds, headroom, marker>>
      /\ Fault \/ Fine
  BY DEF SettingsEnv, Live, host, docker
<1>2. CASE /\ settings' = IF exec[e].key = None THEN settings ELSE exec[e].key
           /\ Exec(e, "marker")
  <2>1. /\ r \in Phases /\ r.pc = "marker" /\ r.key = exec[e].key /\ r.sure = exec[e].sure
        /\ r.failed = exec[e].failed
    BY DEF Phases
  <2>2. exec' = [exec EXCEPT ![e] = r]
    BY <1>2 DEF Exec
  <2> HIDE DEF r
  <2> QED
    BY <1>1, <1>2, <2>1, <2>2 DEF Moves
<1>3. CASE UNCHANGED settings /\ exec' = [exec EXCEPT ![e] = Ended(e, TRUE)]
  BY <1>1, <1>3, EndedType DEF Moves
<1> QED
  BY <1>2, <1>3 DEF SettingsEnv

LEMMA StartMarkerMoves ==
  ASSUME Inv, NEW e \in Execs, StartMarker(e)
  PROVE  \E r \in Phases : Moves(e, r)
<1> exec \in [Execs -> Phases]
  BY Shapes DEF Inv
<1>1. /\ Live(e) /\ exec[e].pc = "marker" /\ exec[e].failed \in BOOLEAN
      /\ UNCHANGED <<filed, issued, desired, image, box, launch, creds, headroom, settings>>
      /\ Fault \/ Fine
  BY DEF StartMarker, Live, host, docker, Phases
<1>2. CASE /\ marker' = [fp |-> box.fp, key |-> exec[e].key, sure |-> exec[e].sure \ {"login"}]
           /\ exec' = [exec EXCEPT ![e] = Ended(e, exec[e].failed)]
  BY <1>1, <1>2, EndedType DEF Moves
<1>3. CASE UNCHANGED marker /\ exec' = [exec EXCEPT ![e] = Ended(e, TRUE)]
  BY <1>1, <1>3, EndedType DEF Moves
<1> QED
  BY <1>2, <1>3 DEF StartMarker

LEMMA MovesInv ==
  ASSUME Inv, NEW e \in Execs, NEW r \in Phases, Moves(e, r),
         creds' \in BOOLEAN, headroom' \in BOOLEAN
  PROVE  Inv'
<1> launch \in [Tuis -> Launches] /\ exec \in [Execs -> Phases]
  BY Shapes DEF Inv
<1>1. /\ exec' \in [Execs -> Phases] /\ exec'[e] = r
      /\ \A x \in Execs \ {e} : exec'[x] = exec[x]
  BY DEF Moves
<1>2. UNCHANGED <<filed, issued, desired, image, box, launch>> /\ (Fault \/ Fine)
  BY DEF Moves
<1>3. faults' \in 0 .. MaxFaults
  BY <1>2, SessionAssumption DEF Inv, TypeOK, Fault, Fine
<1>4. settings' \in issued' \union {None}
  BY <1>2 DEF Moves, Inv, TypeOK, Phases
<1>5. marker' \in [fp : Prints \union {None}, key : issued' \union {None}, sure : SUBSET Claims]
  BY <1>2 DEF Moves, Inv, TypeOK, Phases
<1>6. TypeOK'
  BY <1>1, <1>2, <1>3, <1>4, <1>5 DEF Inv, TypeOK, Phases
<1>7. Turns'
  BY <1>2 DEF Inv, Turns
<1>8. NoStray => NoStray'
  BY <1>1, <1>2 DEF NoStray, Live, Moves
<1>9. Good => Good'
  BY <1>2, <1>8 DEF Good, NoStray, Moves
<1>10. KeyInv'
  <2>1. ASSUME NEW x \in Execs, exec'[x].pc # "off", "key" \in exec'[x].sure
        PROVE  /\ exec'[x].key = filed'
               /\ filed' # None => NoStray'
               /\ exec'[x].pc \in {"marker", "exit"} /\ Fit(x)' => Good'
    <3>1. CASE x = e
      <4>1. exec[e].pc # "off" /\ "key" \in exec[e].sure /\ r.key = exec[e].key
        BY <1>1, <2>1, <3>1 DEF Moves, Live
      <4>2. exec[e].key = filed /\ (filed # None => NoStray)
        BY <4>1 DEF Inv, Claimed, KeyInv
      <4>3. exec[e].pc = "marker" => Good
        BY <4>1 DEF Inv, Claimed, KeyInv, Fit
      <4>4. ASSUME r.pc \in {"marker", "exit"}, Fit(e)' PROVE Good'
        <5>1. exec[e].pc = "marker" \/ (exec[e].key # None => settings' = exec[e].key)
          BY <1>1, <4>4 DEF Moves, Fit
        <5> QED
          BY <1>2, <1>8, <1>9, <4>2, <4>3, <5>1 DEF Good
      <4> QED
        BY <1>1, <1>2, <1>8, <3>1, <4>1, <4>2, <4>4
    <3>2. CASE x # e
      BY <1>1, <1>2, <1>8, <1>9, <2>1, <3>2 DEF Inv, Claimed, KeyInv, Fit
    <3> QED
      BY <3>1, <3>2
  <2>2. ASSUME "key" \in marker'.sure, marker'.key = filed' PROVE Good'
    <3>1. CASE marker' = marker
      BY <1>2, <1>9, <2>2, <3>1 DEF Inv, Claimed, KeyInv
    <3>2. CASE /\ exec[e].pc = "marker"
               /\ marker' = [fp |-> box.fp, key |-> exec[e].key,
                             sure |-> exec[e].sure \ {"login"}]
      BY <1>9, <2>2, <3>2 DEF Inv, Claimed, KeyInv, Fit
    <3> QED
      BY <3>1, <3>2 DEF Moves
  <2>3. ASSUME NEW u \in Tuis, launch'[u].pc = "attach", "key" \in launch'[u].sure
        PROVE  Good'
    BY <1>2, <1>9, <2>3 DEF Inv, Claimed, KeyInv
  <2> QED
    BY <2>1, <2>2, <2>3 DEF KeyInv
<1>11. headroom => headroom'
  BY DEF Moves
<1>12. ASSUME box.up PROVE HeadroomInv'
  <2>1. ASSUME NEW x \in Execs, exec'[x].pc # "off", Fit(x)', "headroom" \in exec'[x].sure
        PROVE  headroom'
    <3>1. CASE x = e
      <4>1. exec[e].pc \notin {"off", "exit"}
        BY DEF Moves, Live
      <4>2. "headroom" \in exec[e].sure => headroom
        BY <1>12, <4>1 DEF Inv, Claimed, HeadroomInv, Fit
      <4> QED
        BY <1>1, <1>11, <2>1, <3>1, <4>2 DEF Moves
    <3>2. CASE x # e
      BY <1>1, <1>11, <1>12, <2>1, <3>2 DEF Inv, Claimed, HeadroomInv, Fit
    <3> QED
      BY <3>1, <3>2
  <2>2. ASSUME "headroom" \in marker'.sure, marker'.fp = box'.fp PROVE headroom'
    <3>1. CASE marker' = marker
      BY <1>2, <1>11, <1>12, <2>2, <3>1 DEF Inv, Claimed, HeadroomInv
    <3>2. CASE /\ exec[e].pc = "marker"
               /\ marker' = [fp |-> box.fp, key |-> exec[e].key,
                             sure |-> exec[e].sure \ {"login"}]
      BY <1>11, <1>12, <2>2, <3>2 DEF Inv, Claimed, HeadroomInv, Fit
    <3> QED
      BY <3>1, <3>2 DEF Moves
  <2>3. ASSUME NEW u \in Tuis, launch'[u].pc = "attach", "headroom" \in launch'[u].sure
        PROVE  headroom'
    BY <1>2, <1>11, <1>12, <2>3 DEF Inv, Claimed, HeadroomInv
  <2> QED
    BY <2>1, <2>2, <2>3 DEF HeadroomInv
<1>13. HeadroomInv'
  BY <1>2, <1>12 DEF HeadroomInv
<1>14. LoginInv'
  <2>1. creds' => creds
    BY DEF Moves
  <2>2. ASSUME NEW x \in Execs, exec'[x].pc \in {"headroom", "env", "marker", "exit"},
               ~exec'[x].failed, "login" \in exec'[x].sure
        PROVE  ~creds'
    <3>1. CASE x = e
      <4>1. ~creds' \/ (exec[e].pc \in {"headroom", "env", "marker"} /\ ~exec[e].failed)
        BY <1>1, <2>2, <3>1 DEF Moves
      <4>2. "login" \in exec[e].sure
        BY <1>1, <2>2, <3>1 DEF Moves
      <4> QED
        BY <2>1, <4>1, <4>2 DEF Inv, Claimed, LoginInv
    <3>2. CASE x # e
      BY <1>1, <2>1, <2>2, <3>2 DEF Inv, Claimed, LoginInv
    <3> QED
      BY <3>1, <3>2
  <2>3. "login" \notin marker'.sure
    BY DEF Moves, Inv, Claimed, LoginInv
  <2>4. ASSUME NEW u \in Tuis, launch'[u].pc = "attach", "login" \in launch'[u].sure
        PROVE  ~creds'
    BY <1>2, <2>1, <2>4 DEF Inv, Claimed, LoginInv
  <2> QED
    BY <2>2, <2>3, <2>4 DEF LoginInv
<1> QED
  BY <1>6, <1>7, <1>10, <1>13, <1>14 DEF Inv, Claimed

LEMMA ExecInv ==
  ASSUME Inv, NEW e \in Execs, ExecStep(e)
  PROVE  Inv'
<1>1. \E r \in Phases : Moves(e, r)
  BY CredentialsMoves, HeadroomMoves, SettingsEnvMoves, StartMarkerMoves DEF ExecStep
<1>2. creds' \in BOOLEAN
  BY DEF ExecStep, Credentials, Headroom, SettingsEnv, StartMarker, volume, Inv, TypeOK
<1>3. headroom' \in BOOLEAN
  BY DEF ExecStep, Credentials, Headroom, SettingsEnv, StartMarker, Inv, TypeOK
<1> QED
  BY <1>1, <1>2, <1>3, MovesInv

-----------------------------------------------------------------------------
(* Steps that end or start the container.                                  *)

\* No phase is left alive, and nothing is claimed of headroom in a new set of
\* processes.
LEMMA KillInv ==
  ASSUME Inv, Kill, launch' \in [Tuis -> Launches],
         UNCHANGED <<filed, issued, desired, image, creds, settings>>,
         headroom' = FALSE, Fault \/ Fine,
         box' \in [up : BOOLEAN, fp : Prints \union {None}],
         box'.up => box'.fp # None /\ image # None,
         marker' \in [fp : Prints \union {None}, key : issued \union {None}, sure : SUBSET Claims],
         marker'.key = marker.key, marker'.sure \subseteq marker.sure,
         box'.up /\ marker'.fp = box'.fp => "headroom" \notin marker'.sure,
         \A t \in Tuis :
           /\ launch'[t].pc # "wait" => launch'[t].tries < Attempts
           /\ launch'[t].pc = "wait" => launch'[t].exec \in Execs
           /\ launch'[t].pc \in {"container", "up"} => image # None
           /\ launch'[t].pc = "attach" => /\ launch[t].pc = "attach"
                                          /\ launch'[t].sure \subseteq launch[t].sure
                                          /\ box'.up => "headroom" \notin launch'[t].sure
  PROVE  Inv'
<1> launch \in [Tuis -> Launches] /\ exec \in [Execs -> Phases]
  BY Shapes DEF Inv
<1>1. ASSUME NEW x \in Execs
      PROVE  /\ exec'[x] \in Phases
             /\ \/ exec'[x].pc = "off"
                \/ exec'[x].pc = "exit" /\ exec'[x].failed /\ exec'[x].key = exec[x].key
                   /\ exec'[x].sure = exec[x].sure /\ exec[x].pc # "off"
                \/ exec'[x].pc = "exit" /\ exec[x].pc = "exit" /\ exec'[x].key = exec[x].key
                   /\ exec'[x].failed = exec[x].failed
                   /\ exec'[x].sure = exec[x].sure \ {"headroom"}
  <2>1. CASE Live(x)
    <3>1. exec'[x] = Ended(x, TRUE)
      BY <2>1 DEF Kill
    <3>2. /\ Ended(x, TRUE) \in Phases
          /\ \/ Ended(x, TRUE).pc = "off"
             \/ /\ Ended(x, TRUE).pc = "exit" /\ Ended(x, TRUE).failed = TRUE
                /\ Ended(x, TRUE).key = exec[x].key /\ Ended(x, TRUE).sure = exec[x].sure
      BY EndedType
    <3> QED
      BY <2>1, <3>1, <3>2 DEF Live
  <2>2. CASE ~Live(x)
    <3>1. exec'[x] = [exec[x] EXCEPT !.sure = @ \ {"headroom"}]
      BY <2>2 DEF Kill
    <3> QED
      BY <2>2, <3>1 DEF Live, Phases
  <2> QED
    BY <2>1, <2>2
<1>2. exec' \in [Execs -> Phases]
  <2>1. exec' = [x \in Execs |-> exec'[x]]
    BY DEF Kill
  <2> QED
    BY <1>1, <2>1
<1>3. faults' \in 0 .. MaxFaults
  BY SessionAssumption DEF Inv, TypeOK, Fault, Fine
<1>4. TypeOK'
  BY <1>2, <1>3 DEF Inv, TypeOK, Launches, Phases
<1>5. Turns'
  BY DEF Turns
<1>6. NoStray'
  BY <1>1 DEF NoStray, Live
<1>7. Good => Good'
  BY <1>6 DEF Good
<1>8. KeyInv'
  <2>1. ASSUME NEW x \in Execs, exec'[x].pc # "off", "key" \in exec'[x].sure
        PROVE  /\ exec'[x].key = filed'
               /\ filed' # None => NoStray'
               /\ exec'[x].pc \in {"marker", "exit"} /\ Fit(x)' => Good'
    <3>1. /\ exec[x].pc # "off" /\ "key" \in exec[x].sure /\ exec'[x].key = exec[x].key
          /\ Fit(x)' => exec[x].pc = "exit" /\ Fit(x)
      BY <1>1, <2>1 DEF Fit
    <3>2. exec[x].key = filed /\ (Fit(x)' => Good)
      BY <3>1 DEF Inv, Claimed, KeyInv
    <3> QED
      BY <1>6, <1>7, <3>1, <3>2
  <2>2. "key" \in marker'.sure /\ marker'.key = filed' => Good'
    BY <1>7 DEF Inv, Claimed, KeyInv
  <2>3. ASSUME NEW u \in Tuis, launch'[u].pc = "attach", "key" \in launch'[u].sure
        PROVE  Good'
    BY <1>7, <2>3 DEF Inv, Claimed, KeyInv
  <2> QED
    BY <2>1, <2>2, <2>3 DEF KeyInv
<1>9. HeadroomInv'
  <2>1. ASSUME NEW x \in Execs, exec'[x].pc # "off", Fit(x)' PROVE "headroom" \notin exec'[x].sure
    BY <1>1, <2>1 DEF Fit
  <2> QED
    BY <2>1 DEF HeadroomInv
<1>10. LoginInv'
  <2>1. ASSUME NEW x \in Execs, exec'[x].pc \in {"headroom", "env", "marker", "exit"},
               ~exec'[x].failed, "login" \in exec'[x].sure
        PROVE  ~creds'
    BY <1>1, <2>1 DEF Inv, Claimed, LoginInv
  <2> QED
    BY <2>1 DEF Inv, Claimed, LoginInv
<1> QED
  BY <1>4, <1>5, <1>8, <1>9, <1>10 DEF Inv, Claimed

\* What Boot does to the marker and the launches.
LEMMA BootInv ==
  ASSUME Inv, NEW l \in [Tuis -> Launches], NEW fp \in Prints \union {None}, Boot(l, fp),
         fp # None, image # None,
         UNCHANGED <<filed, issued, desired, image, creds, settings>>, Fault \/ Fine,
         \A t \in Tuis : /\ l[t].pc # "wait" => l[t].tries < Attempts
                         /\ l[t].pc = "wait" => l[t].exec \in Execs
                         /\ l[t].pc = "attach" => l[t] = launch[t]
  PROVE  Inv'
<1>1. Kill /\ headroom' = FALSE /\ box' = [up |-> TRUE, fp |-> fp]
  BY DEF Boot
<1>2. ASSUME NEW t \in Tuis
      PROVE  /\ launch'[t] \in Launches /\ launch'[t].pc = l[t].pc
             /\ launch'[t].tries = l[t].tries /\ launch'[t].exec = l[t].exec
             /\ launch'[t].sure = l[t].sure \ {"headroom"}
  <2>1. launch'[t] = [l[t] EXCEPT !.sure = @ \ {"headroom"}]
    BY DEF Boot, Without
  <2> QED
    BY <2>1 DEF Launches
<1>3. launch' \in [Tuis -> Launches]
  <2>1. launch' = [t \in Tuis |-> launch'[t]]
    BY DEF Boot, Without
  <2> QED
    BY <1>2, <2>1
<1>4. marker \in [fp : Prints \union {None}, key : issued \union {None}, sure : SUBSET Claims]
  BY DEF Inv, TypeOK
<1>5. /\ marker' \in [fp : Prints \union {None}, key : issued \union {None}, sure : SUBSET Claims]
      /\ marker'.key = marker.key /\ marker'.sure \subseteq marker.sure
      /\ marker'.fp = fp => "headroom" \notin marker'.sure
  <2>1. CASE marker.fp = fp
    <3>1. marker' = [marker EXCEPT !.sure = @ \ {"headroom"}]
      BY <2>1 DEF Boot
    <3> QED
      BY <1>4, <3>1
  <2>2. CASE marker.fp # fp
    BY <1>4, <2>2 DEF Boot
  <2> QED
    BY <2>1, <2>2
<1> QED
  BY <1>1, <1>2, <1>3, <1>5, KillInv

\* compose down, or the container is stopped.
LEMMA DownInv ==
  ASSUME Inv, Kill, headroom' = FALSE, box' = NoBox \/ box' = [box EXCEPT !.up = FALSE],
         UNCHANGED <<filed, issued, desired, image, volume>>, Fault \/ Fine,
         launch' \in [Tuis -> Launches],
         \A t \in Tuis : \/ launch'[t] = launch[t]
                         \/ /\ launch'[t].pc \notin {"wait", "attach"}
                            /\ launch'[t].tries < Attempts
                            /\ launch'[t].pc \in {"container", "up"} => image # None
  PROVE  Inv'
<1>1. box' \in [up : BOOLEAN, fp : Prints \union {None}] /\ ~box'.up
  <2>1. CASE box' = NoBox
    BY <2>1 DEF NoBox
  <2>2. CASE box' = [box EXCEPT !.up = FALSE]
    <3>1. box \in [up : BOOLEAN, fp : Prints \union {None}]
      BY DEF Inv, TypeOK
    <3> QED
      BY <2>2, <3>1
  <2> QED
    BY <2>1, <2>2
<1>2. marker' \in [fp : Prints \union {None}, key : issued \union {None}, sure : SUBSET Claims]
  BY DEF Inv, TypeOK, volume
<1>3. \A t \in Tuis :
        /\ launch'[t].pc # "wait" => launch'[t].tries < Attempts
        /\ launch'[t].pc = "wait" => launch'[t].exec \in Execs
        /\ launch'[t].pc \in {"container", "up"} => image # None
        /\ launch'[t].pc = "attach" => launch[t].pc = "attach" /\ launch'[t] = launch[t]
  BY DEF Inv, Turns
<1> QED
  BY <1>1, <1>2, <1>3, KillInv DEF volume

LEMMA ContainerInv ==
  ASSUME Inv, NEW t \in Tuis, Container(t) \/ ContainerFails(t)
  PROVE  Inv'
<1> launch \in [Tuis -> Launches] /\ exec \in [Execs -> Phases]
  BY Shapes DEF Inv
<1>1. /\ launch[t].pc \in {"container", "up"}
      /\ UNCHANGED <<filed, issued, desired, image, volume>> /\ (Fault \/ Fine)
      /\ \E pc \in {"container", "up", "check"} : Go(t, pc) \/ End(t)
      /\ \/ UNCHANGED <<box, headroom, exec>>
         \/ box' = NoBox /\ Kill /\ headroom' = FALSE
  BY DEF Container, ContainerFails, host, Fine
<1>2. launch[t].pc # "wait" /\ image # None
  BY <1>1 DEF Inv, Turns
<1>3. /\ launch' \in [Tuis -> Launches]
      /\ \A u \in Tuis \ {t} : launch'[u] = launch[u]
      /\ launch'[t].pc \notin {"wait", "attach"}
      /\ launch'[t].tries < Attempts
  <2>1. PICK pc \in {"container", "up", "check"} : Go(t, pc) \/ End(t)
    BY <1>1
  <2> QED
    BY <1>2, <2>1, GoType
<1>4. CASE UNCHANGED <<box, headroom, exec>>
  BY <1>1, <1>2, <1>3, <1>4, LaunchMoves DEF Inv, TypeOK
<1>5. CASE box' = NoBox /\ Kill /\ headroom' = FALSE
  BY <1>1, <1>2, <1>3, <1>5, DownInv
<1> QED
  BY <1>1, <1>4, <1>5

LEMMA UpInv ==
  ASSUME Inv, NEW t \in Tuis, Up(t)
  PROVE  Inv'
<1> launch \in [Tuis -> Launches] /\ exec \in [Execs -> Phases]
  BY Shapes DEF Inv
<1>1. /\ launch[t].pc = "up" /\ image # None /\ launch[t].tries < Attempts
      /\ UNCHANGED <<filed, issued, desired, image, creds, settings>> /\ Fine
      /\ image \in Prints \union {None}
  BY DEF Up, host, Inv, Turns, TypeOK, Fine
<1>2. CASE box.up /\ box.fp = image
  <2>1. Go(t, "check") /\ UNCHANGED <<box, headroom, marker, exec>>
    BY <1>2 DEF Up
  <2>2. /\ launch' \in [Tuis -> Launches]
        /\ \A u \in Tuis \ {t} : launch'[u] = launch[u]
        /\ launch'[t].pc \in {"check", "idle"}
        /\ launch'[t].tries < Attempts
    BY <1>1, <2>1, GoType
  <2> QED
    BY <1>1, <2>1, <2>2, LaunchMoves DEF volume, Inv, TypeOK
<1>3. CASE ~(box.up /\ box.fp = image)
  <2> DEFINE l == [launch EXCEPT ![t].pc = "check"]
  <2>1. Boot(l, image)
    BY <1>3 DEF Up
  <2>2. /\ l \in [Tuis -> Launches] /\ l[t].pc = "check" /\ l[t].tries = launch[t].tries
        /\ \A u \in Tuis \ {t} : l[u] = launch[u]
    BY DEF Launches
  <2> HIDE DEF l
  <2>3. \A u \in Tuis : /\ l[u].pc # "wait" => l[u].tries < Attempts
                        /\ l[u].pc = "wait" => l[u].exec \in Execs
                        /\ l[u].pc = "attach" => l[u] = launch[u]
                        /\ l[u].pc \in {"container", "up"} => image # None
    BY <1>1, <2>2 DEF Inv, Turns
  <2> QED
    BY <1>1, <2>1, <2>2, <2>3, BootInv
<1> QED
  BY <1>2, <1>3

LEMMA BoxInv ==
  ASSUME Inv, BoxRestarts \/ BoxStops
  PROVE  Inv'
<1> launch \in [Tuis -> Launches]
  BY Shapes DEF Inv
<1>1. CASE BoxRestarts
  <2>1. /\ Boot(launch, box.fp) /\ Fault
        /\ UNCHANGED <<filed, issued, desired, image, creds, settings>>
    BY <1>1 DEF BoxRestarts, host
  <2>2. box.fp \in Prints \union {None} /\ box.fp # None /\ image # None
    BY <1>1 DEF BoxRestarts, Inv, TypeOK, Turns
  <2>3. \A t \in Tuis : /\ launch[t].pc # "wait" => launch[t].tries < Attempts
                        /\ launch[t].pc = "wait" => launch[t].exec \in Execs
    BY DEF Inv, Turns
  <2> QED
    BY <2>1, <2>2, <2>3, BootInv
<1>2. CASE BoxStops
  BY <1>2, DownInv DEF BoxStops, host
<1> QED
  BY <1>1, <1>2

-----------------------------------------------------------------------------
(* The key, the repository and the user.                                   *)

\* Launches that give up a claim.
LEMMA WithoutType ==
  ASSUME Inv, NEW c, launch' = Without(launch, c)
  PROVE  /\ launch' \in [Tuis -> Launches]
         /\ \A t \in Tuis : /\ launch'[t].pc = launch[t].pc /\ launch'[t].tries = launch[t].tries
                            /\ launch'[t].exec = launch[t].exec
                            /\ launch'[t].sure = launch[t].sure \ {c}
<1> launch \in [Tuis -> Launches]
  BY Shapes DEF Inv
<1>1. ASSUME NEW t \in Tuis
      PROVE  /\ launch'[t] \in Launches
             /\ launch'[t].pc = launch[t].pc /\ launch'[t].tries = launch[t].tries
             /\ launch'[t].exec = launch[t].exec
             /\ launch'[t].sure = launch[t].sure \ {c}
  <2>1. launch'[t] = [launch[t] EXCEPT !.sure = @ \ {c}]
    BY DEF Without
  <2> QED
    BY <2>1 DEF Launches
<1>2. launch' = [t \in Tuis |-> launch'[t]]
  BY DEF Without
<1> QED
  BY <1>1, <1>2

\* Phases that give up a claim.
LEMMA GiveUpType ==
  ASSUME Inv, NEW c, exec' = [e \in Execs |-> [exec[e] EXCEPT !.sure = @ \ {c}]]
  PROVE  /\ exec' \in [Execs -> Phases]
         /\ \A e \in Execs : /\ exec'[e].pc = exec[e].pc /\ exec'[e].key = exec[e].key
                             /\ exec'[e].failed = exec[e].failed
                             /\ exec'[e].sure = exec[e].sure \ {c}
<1> exec \in [Execs -> Phases]
  BY Shapes DEF Inv
<1>1. ASSUME NEW e \in Execs
      PROVE  /\ exec'[e] \in Phases
             /\ exec'[e].pc = exec[e].pc /\ exec'[e].key = exec[e].key
             /\ exec'[e].failed = exec[e].failed
             /\ exec'[e].sure = exec[e].sure \ {c}
  <2>1. exec'[e] = [exec[e] EXCEPT !.sure = @ \ {c}]
    OBVIOUS
  <2> QED
    BY <2>1 DEF Phases
<1>2. exec' = [e \in Execs |-> exec'[e]]
  OBVIOUS
<1> QED
  BY <1>1, <1>2

\* A marker may still name the old key, which no serve makes again.
LEMMA RekeyInv ==
  ASSUME Inv, TruncateKey \/ WriteKey
  PROVE  Inv'
<1>1. PICK k \in Keys \union {None} :
        /\ Rekey(k) /\ (k = None \/ k \notin issued)
        /\ issued' \subseteq Keys /\ issued \subseteq issued' /\ k \in issued' \union {None}
  <2> issued \subseteq Keys
    BY DEF Inv, TypeOK
  <2>1. CASE TruncateKey
    BY <2>1 DEF TruncateKey
  <2>2. CASE WriteKey
    BY <2>2 DEF WriteKey
  <2> QED
    BY <2>1, <2>2
<1>2. /\ filed' = k
      /\ UNCHANGED <<desired, image, box, creds, settings, marker, headroom, faults>>
      /\ exec' = [e \in Execs |-> [exec[e] EXCEPT !.sure = @ \ {"key"}]]
      /\ launch' = Without(launch, "key")
  BY <1>1 DEF Rekey, docker, volume
<1>3. /\ launch' \in [Tuis -> Launches]
      /\ \A t \in Tuis : /\ launch'[t].pc = launch[t].pc /\ launch'[t].tries = launch[t].tries
                         /\ launch'[t].exec = launch[t].exec
                         /\ launch'[t].sure = launch[t].sure \ {"key"}
  BY <1>2, WithoutType
<1>4. /\ exec' \in [Execs -> Phases]
      /\ \A e \in Execs : /\ exec'[e].pc = exec[e].pc /\ exec'[e].key = exec[e].key
                          /\ exec'[e].failed = exec[e].failed
                          /\ exec'[e].sure = exec[e].sure \ {"key"}
  BY <1>2, GiveUpType
<1>5. exec' \in [Execs -> [pc : {"off", "creds", "headroom", "env", "marker", "exit"},
                          key : issued' \union {None}, failed : BOOLEAN, sure : SUBSET Claims]]
  <2>1. ASSUME NEW e \in Execs
        PROVE  exec'[e] \in [pc : {"off", "creds", "headroom", "env", "marker", "exit"},
                             key : issued' \union {None}, failed : BOOLEAN, sure : SUBSET Claims]
    BY <1>1, <1>4 DEF Phases
  <2> QED
    BY <1>4, <2>1
<1>6. TypeOK'
  BY <1>1, <1>2, <1>3, <1>5 DEF Inv, TypeOK, Launches
<1>7. Turns'
  BY <1>2, <1>3 DEF Inv, Turns
<1>8. marker.key = k => Good'
  BY <1>1, <1>2 DEF Inv, TypeOK, Good
<1>9. KeyInv'
  BY <1>2, <1>3, <1>4, <1>8 DEF KeyInv
<1>10. HeadroomInv'
  BY <1>2, <1>3, <1>4 DEF Inv, Claimed, HeadroomInv, Fit
<1>11. LoginInv'
  BY <1>2, <1>3, <1>4 DEF Inv, Claimed, LoginInv
<1> QED
  BY <1>6, <1>7, <1>9, <1>10, <1>11 DEF Inv, Claimed

LEMMA LoginStepInv ==
  ASSUME Inv, NEW t \in Tuis, Login(t)
  PROVE  Inv'
<1>1. /\ creds' = TRUE
      /\ UNCHANGED <<filed, issued, desired, image, box, settings, marker, headroom, faults>>
      /\ exec' = [e \in Execs |-> [exec[e] EXCEPT !.sure = @ \ {"login"}]]
      /\ launch' = Without(launch, "login")
  BY DEF Login, host, docker
<1>2. /\ launch' \in [Tuis -> Launches]
      /\ \A u \in Tuis : /\ launch'[u].pc = launch[u].pc /\ launch'[u].tries = launch[u].tries
                         /\ launch'[u].exec = launch[u].exec
                         /\ launch'[u].sure = launch[u].sure \ {"login"}
  BY <1>1, WithoutType
<1>3. /\ exec' \in [Execs -> Phases]
      /\ \A e \in Execs : /\ exec'[e].pc = exec[e].pc /\ exec'[e].key = exec[e].key
                          /\ exec'[e].failed = exec[e].failed
                          /\ exec'[e].sure = exec[e].sure \ {"login"}
  BY <1>1, GiveUpType
<1>4. TypeOK'
  BY <1>1, <1>2, <1>3 DEF Inv, TypeOK, Launches, Phases
<1>5. Turns'
  BY <1>1, <1>2 DEF Inv, Turns
<1>6. (NoStray => NoStray') /\ (Good => Good')
  BY <1>1, <1>3 DEF Good, NoStray, Live
<1>7. KeyInv'
  BY <1>1, <1>2, <1>3, <1>6 DEF Inv, Claimed, KeyInv, Fit
<1>8. HeadroomInv'
  BY <1>1, <1>2, <1>3 DEF Inv, Claimed, HeadroomInv, Fit
<1>9. LoginInv'
  BY <1>1, <1>2, <1>3 DEF Inv, Claimed, LoginInv
<1> QED
  BY <1>4, <1>5, <1>7, <1>8, <1>9 DEF Inv, Claimed

LEMMA SameInv ==
  ASSUME Inv, ChangeRequest \/ UNCHANGED vars
  PROVE  Inv'
<1>1. /\ UNCHANGED <<filed, issued, image, box, creds, settings, marker, headroom, exec, launch,
                     faults>>
      /\ desired' \in Prints
  BY DEF ChangeRequest, vars, host, docker, volume, Inv, TypeOK
<1>2. TypeOK' /\ Turns'
  BY <1>1 DEF Inv, TypeOK, Turns
<1>3. Claimed'
  BY <1>1 DEF Inv, Claimed, KeyInv, HeadroomInv, LoginInv, Good, NoStray, Live, Fit
<1> QED
  BY <1>2, <1>3 DEF Inv

-----------------------------------------------------------------------------
(* The theorems.                                                           *)

LEMMA StepInv == Inv /\ [Next]_vars => Inv'
<1> SUFFICES ASSUME Inv, [Next]_vars PROVE Inv'
  OBVIOUS
<1>1. ASSUME NEW t \in Tuis, HostStep(t) PROVE Inv'
  BY <1>1, GoInv, ContainerInv, UpInv, StartCheckInv, StartRunInv, StartRunFailsInv,
     StartDoneInv, GivesUpInv, LoginStepInv DEF HostStep
<1>2. ASSUME NEW e \in Execs, ExecStep(e) PROVE Inv'
  BY <1>2, ExecInv
<1>3. CASE TruncateKey \/ WriteKey
  BY <1>3, RekeyInv
<1>4. CASE ChangeRequest \/ UNCHANGED vars
  BY <1>4, SameInv
<1>5. CASE BoxRestarts \/ BoxStops
  BY <1>5, BoxInv
<1> QED
  BY <1>1, <1>2, <1>3, <1>4, <1>5 DEF Next

LEMMA Always == Spec => []Inv
BY InitInv, StepInv, PTL DEF Spec

\* Only Attach gives the terminal to claude, in a running container.
LEMMA AttachIsUp ==
  ASSUME Inv, [Next]_vars, NEW t \in Tuis, Attaches(t)
  PROVE  box.up
<1> launch \in [Tuis -> Launches]
  BY Shapes DEF Inv
<1>1. launch[t].pc = "attach" /\ launch'[t].pc = "attached"
  BY DEF Attaches
<1>2. ASSUME NEW u \in Tuis, NEW pc \in {"image", "container", "up", "check", "run"},
             Go(u, pc) \/ End(u) \/ Retry(u)
      PROVE  FALSE
  BY <1>1, <1>2 DEF Go, End, Retry, Rest, Launches
<1>3. ASSUME NEW c, launch' = Without(launch, c) PROVE FALSE
  BY <1>1, <1>3, WithoutType
<1>4. ASSUME NEW u \in Tuis, launch[u].pc # "attach", \A x \in Tuis \ {u} : launch'[x] = launch[x]
      PROVE  FALSE
  BY <1>1, <1>4
<1>5. ASSUME NEW u \in Tuis, HostStep(u) PROVE box.up
  <2>1. CASE Launch(u) \/ Image(u) \/ Container(u) \/ ContainerFails(u)
    BY <1>2, <2>1 DEF Launch, Image, Container, ContainerFails
  <2>2. CASE Up(u)
    <3>1. CASE Go(u, "check")
      BY <1>2, <3>1
    <3>2. CASE launch' = Without([launch EXCEPT ![u].pc = "check"], "headroom")
      <4>1. launch'[t].pc = "check" \/ launch'[t].pc = launch[t].pc
        BY <3>2 DEF Without, Launches
      <4> QED
        BY <1>1, <4>1
    <3> QED
      BY <2>2, <3>1, <3>2 DEF Up, Boot
  <2>3. CASE StartCheck(u) \/ StartRun(u) \/ StartRunFails(u) \/ StartDone(u)
    <3>1. launch[u].pc # "attach"
      BY <2>3 DEF StartCheck, StartRun, StartRunFails, StartDone
    <3>2. \A x \in Tuis \ {u} : launch'[x] = launch[x]
      BY <2>3 DEF StartCheck, StartRun, StartRunFails, StartDone, Go, End, Retry
    <3> QED
      BY <1>4, <3>1, <3>2
  <2>4. CASE Timeout(u) \/ Cancel(u) \/ Leave(u)
    BY <1>2, <2>4 DEF Timeout, Cancel, Leave
  <2>5. CASE Attach(u)
    BY <1>2, <2>5 DEF Attach
  <2>6. CASE Login(u)
    BY <1>3, <2>6 DEF Login
  <2> QED
    BY <1>5, <2>1, <2>2, <2>3, <2>4, <2>5, <2>6 DEF HostStep
<1>6. ASSUME NEW e \in Execs, ExecStep(e) PROVE FALSE
  BY <1>1, <1>6 DEF ExecStep, Credentials, Headroom, SettingsEnv, StartMarker
<1>7. CASE TruncateKey \/ WriteKey
  BY <1>3, <1>7 DEF TruncateKey, WriteKey, Rekey
<1>8. CASE ChangeRequest \/ UNCHANGED vars \/ BoxStops
  BY <1>1, <1>8 DEF ChangeRequest, vars, BoxStops
<1>9. CASE BoxRestarts
  BY <1>3, <1>9 DEF BoxRestarts, Boot
<1> QED
  BY <1>5, <1>6, <1>7, <1>8, <1>9 DEF Next

\* Types, for any number of launches, phases and keys.
THEOREM TypeCorrect == Spec => []TypeOK
<1>1. Inv => TypeOK
  BY DEF Inv
<1> QED
  BY <1>1, Always, PTL

\* A marker that names the key of the key file tells the truth about
\* settings.json, whatever phases were left running.
THEOREM MarkerHonest == Spec => []MarkerTellsKey
<1>1. Inv => MarkerTellsKey
  BY DEF Inv, Claimed, KeyInv, Good, MarkerTellsKey
<1> QED
  BY <1>1, Always, PTL

\* No session starts with another key than that of the running serve.
THEOREM SessionHasKey == Spec => KeyAtAttach
<1>1. Inv /\ [Next]_vars =>
        [\A t \in Tuis :
           Attaches(t) /\ "key" \in launch[t].sure /\ filed # None => settings = filed]_vars
  BY DEF Inv, Claimed, KeyInv, Good, Attaches
<1> QED
  BY <1>1, Always, PTL DEF Spec, KeyAtAttach

\* No session starts without headroom, where the launch relies on it.
THEOREM SessionHasHeadroom == Spec => HeadroomAtAttach
<1>1. Inv /\ [Next]_vars =>
        [\A t \in Tuis : Attaches(t) /\ "headroom" \in launch[t].sure => headroom]_vars
  BY AttachIsUp DEF Inv, Claimed, HeadroomInv, Attaches
<1> QED
  BY <1>1, Always, PTL DEF Spec, HeadroomAtAttach

\* No session starts with a login that its launch removed.
THEOREM SessionHasNoLogin == Spec => LoginIsRemoved
<1>1. Inv /\ [Next]_vars =>
        [\A t \in Tuis : Attaches(t) /\ "login" \in launch[t].sure => ~creds]_vars
  BY DEF Inv, Claimed, LoginInv, Attaches
<1> QED
  BY <1>1, Always, PTL DEF Spec, LoginIsRemoved
=============================================================================
