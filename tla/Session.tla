------------------------------ MODULE Session ------------------------------
(***************************************************************************)
(* What a launch leaves in the sandbox for the session it attaches to: the *)
(* steps image, container, provision-start and attach of steps.Launch on   *)
(* the host, and in the container the start phase of package provision,    *)
(* which removes a login, starts headroom, writes the session key into     *)
(* settings.json and marks what it was done for.  A start phase whose mark *)
(* fits the request is skipped.                                            *)
(*                                                                         *)
(* The start phase is a process of its own, which docker exec starts and   *)
(* does not end: a launch that times out or is cancelled leaves it running *)
(* beside the next one.  The volume that holds settings.json, the mark and *)
(* the login outlives the container; headroom does not.                    *)
(***************************************************************************)
EXTENDS Naturals, FiniteSets

CONSTANTS Keys,      \* the session keys, one for each start of serve
          Prints,    \* the fingerprints: commit, stacks and socket
          Tuis,      \* the TUI processes
          Execs,     \* room for the provision processes that run at a time
          None,      \* no key, no image, no container, no mark
          MaxFaults  \* bounds the failures of a behaviour

ASSUME SessionAssumption ==
  None \notin Keys \union Prints \union Execs /\ MaxFaults \in Nat

VARIABLES filed, issued,   \* the key in the key file, the keys serves have made
          desired,         \* the fingerprint of the repository as it is now
          image,           \* the fingerprint in the image
          box,             \* the container
          creds,           \* .credentials.json is there
          headroom,        \* headroom answers
          settings,        \* the key in settings.json
          marker,          \* the start marker
          exec,            \* the provision processes
          launch,          \* the launch of each TUI
          faults

host   == <<filed, issued, desired>>
docker == <<image, box>>
volume == <<creds, settings, marker>>
vars   == <<host, docker, volume, headroom, exec, launch, faults>>

Attempts == 2   \* RetryPolicy of provision-start

(* What a marker, a process or a launch may claim about the session, for   *)
(* the properties below only: that settings.json has the key, that         *)
(* headroom runs, that there is no login.  Each claim is given up when     *)
(* something happens that the code does not set out to handle.             *)
Claims == {"key", "headroom", "login"}

Off    == [pc |-> "off", key |-> None, failed |-> FALSE, sure |-> {}]
Rest   == [pc |-> "idle", tries |-> 0, exec |-> None, sure |-> {}]
NoBox  == [up |-> FALSE, fp |-> None]
NoMark == [fp |-> None, key |-> None, sure |-> {}]

TypeOK ==
  /\ filed \in issued \union {None} /\ issued \subseteq Keys
  /\ desired \in Prints /\ image \in Prints \union {None}
  /\ box \in [up : BOOLEAN, fp : Prints \union {None}]
  /\ box.up => box.fp # None
  /\ creds \in BOOLEAN /\ headroom \in BOOLEAN /\ settings \in issued \union {None}
  /\ marker \in [fp : Prints \union {None}, key : issued \union {None}, sure : SUBSET Claims]
  /\ exec \in [Execs -> [pc : {"off", "creds", "headroom", "env", "marker", "exit"},
                         key : issued \union {None}, failed : BOOLEAN, sure : SUBSET Claims]]
  /\ launch \in [Tuis -> [pc : {"idle", "image", "container", "up", "check", "run", "wait",
                                "attach", "attached"},
                          tries : 0 .. Attempts, exec : Execs \union {None},
                          sure : SUBSET Claims]]
  /\ faults \in 0 .. MaxFaults

Init ==
  /\ filed = None /\ issued = {}
  /\ desired \in Prints /\ image = None /\ box = NoBox
  /\ creds = FALSE /\ headroom = FALSE /\ settings = None /\ marker = NoMark
  /\ exec = [e \in Execs |-> Off]
  /\ launch = [t \in Tuis |-> Rest]
  /\ faults = 0

-----------------------------------------------------------------------------
(* Helpers.                                                                *)

Fault == faults < MaxFaults /\ faults' = faults + 1
Fine  == UNCHANGED faults

Go(t, pc) == launch' = [launch EXCEPT ![t].pc = pc]
End(t)    == launch' = [launch EXCEPT ![t] = Rest]

Live(e)    == exec[e].pc \notin {"off", "exit"}
Awaited(e) == \E t \in Tuis : launch[t].exec = e

\* Nothing is claimed any longer about c, by the launches in l.
Without(l, c) == [t \in Tuis |-> [l[t] EXCEPT !.sure = @ \ {c}]]

\* Where a process ends: docker exec reports its exit, if its client is alive.
Ended(e, bad) == IF Awaited(e) THEN [exec[e] EXCEPT !.pc = "exit", !.failed = bad] ELSE Off

\* The container's processes end; those whose client waits look failed.
Kill == exec' = [e \in Execs |-> IF Live(e) THEN Ended(e, TRUE)
                                 ELSE [exec[e] EXCEPT !.sure = @ \ {"headroom"}]]

\* A container starts, with a new set of processes, and t's launch goes on.
Boot(l, fp) ==
  /\ box' = [up |-> TRUE, fp |-> fp]
  /\ Kill
  /\ headroom' = FALSE
  /\ marker' = IF marker.fp = fp THEN [marker EXCEPT !.sure = @ \ {"headroom"}] ELSE marker
  /\ launch' = Without(l, "headroom")

-----------------------------------------------------------------------------
(* The launch on the host.                                                 *)

Launch(t) ==
  /\ launch[t].pc = "idle"
  /\ Go(t, "image")
  /\ UNCHANGED <<host, docker, volume, headroom, exec, faults>>

\* imageStep: the image is built unless the running container is of today's
\* fingerprint already.
Image(t) ==
  /\ launch[t].pc = "image"
  /\ \/ box.up /\ box.fp = desired /\ Go(t, "container") /\ Fine /\ UNCHANGED image
     \/ ~(box.up /\ box.fp = desired) /\ image' = desired /\ Go(t, "container") /\ Fine
     \/ ~(box.up /\ box.fp = desired) /\ End(t) /\ Fault /\ UNCHANGED image
  /\ UNCHANGED <<host, box, volume, headroom, exec>>

\* containerStep up to compose down, which it runs for a container of another
\* fingerprint only.
Container(t) ==
  /\ launch[t].pc = "container"
  /\ \/ box.up /\ box.fp = desired /\ Go(t, "check")
        /\ UNCHANGED <<box, headroom, exec>>
     \/ ~box.up /\ Go(t, "up")
        /\ UNCHANGED <<box, headroom, exec>>
     \/ box.up /\ box.fp # desired /\ Go(t, "up")
        /\ box' = NoBox /\ Kill /\ headroom' = FALSE
  /\ UNCHANGED <<host, image, volume, faults>>

\* compose up starts a stopped container and replaces one of another image.
Up(t) ==
  /\ launch[t].pc = "up"
  /\ IF box.up /\ box.fp = image
     THEN Go(t, "check") /\ UNCHANGED <<box, headroom, marker, exec>>
     ELSE Boot([launch EXCEPT ![t].pc = "check"], image)
  /\ UNCHANGED <<host, image, creds, settings, faults>>

\* compose fails, with or without the old container gone: the step is tried
\* again, or the launch ends.
ContainerFails(t) ==
  /\ launch[t].pc \in {"container", "up"} /\ ~(box.up /\ box.fp = desired)
  /\ Fault
  /\ Go(t, "container") \/ End(t)
  /\ \/ UNCHANGED <<box, headroom, exec>>
     \/ box' = NoBox /\ Kill /\ headroom' = FALSE
  /\ UNCHANGED <<host, image, volume>>

\* The marker would be taken for any key, or for any fingerprint.
MutMarkedAnyKey   == box.up /\ marker.fp = desired
MutMarkedAnyPrint == box.up /\ marker.key = filed /\ marker # NoMark

\* provisionStep.Check of the start phase, before the first attempt and before
\* each other one.
Marked == box.up /\ marker.fp = desired /\ marker.key = filed

StartCheck(t) ==
  /\ launch[t].pc = "check"
  /\ IF Marked
     THEN launch' = [launch EXCEPT ![t] = [Rest EXCEPT
            !.pc = "attach",
            !.sure = IF box.fp = desired THEN marker.sure ELSE marker.sure \ {"headroom"}]]
     ELSE Go(t, "run")
  /\ UNCHANGED <<host, docker, volume, headroom, exec, faults>>

\* An attempt is over without success: another one, or the launch has failed.
Retry(t) ==
  IF launch[t].tries < Attempts
  THEN launch' = [launch EXCEPT ![t].pc = "check", ![t].exec = None]
  ELSE End(t)

\* provisionStep.Run: docker exec with the key of the moment on its standard
\* input.  It may run beside processes that earlier launches left.
StartRun(t) ==
  /\ launch[t].pc = "run" /\ box.up
  /\ \E e \in Execs :
       LET others == {x \in Execs : Live(x) /\ exec[x].key # filed}
           sure   == IF others = {} THEN {"key", "login"} ELSE {"login"}
       IN /\ exec[e].pc = "off"
          /\ exec' = [x \in Execs |->
               IF x = e THEN [pc |-> "creds", key |-> filed, failed |-> FALSE, sure |-> sure]
               ELSE IF x \in others THEN [exec[x] EXCEPT !.sure = @ \ {"key"}]
               ELSE exec[x]]
          /\ launch' = [launch EXCEPT ![t].pc = "wait", ![t].exec = e, ![t].tries = @ + 1]
  /\ UNCHANGED <<host, docker, volume, headroom, faults>>

\* docker exec cannot start it.
StartRunFails(t) ==
  /\ launch[t].pc = "run"
  /\ IF box.up THEN Fault ELSE Fine
  /\ IF launch[t].tries + 1 < Attempts
     THEN launch' = [launch EXCEPT ![t].pc = "check", ![t].tries = @ + 1]
     ELSE End(t)
  /\ UNCHANGED <<host, docker, volume, headroom, exec>>

StartDone(t) ==
  /\ launch[t].pc = "wait" /\ exec[launch[t].exec].pc = "exit"
  /\ exec' = [exec EXCEPT ![launch[t].exec] = Off]
  /\ IF exec[launch[t].exec].failed THEN Retry(t)
     ELSE launch' = [launch EXCEPT ![t] = [Rest EXCEPT
            !.pc = "attach", !.sure = exec[launch[t].exec].sure]]
  /\ UNCHANGED <<host, docker, volume, headroom, faults>>

\* The host stops waiting, and its docker exec is killed: on the step's timeout
\* (Again) or because the user cancels the launch.  The process goes on.
StopsWaiting(t) ==
  exec' = [e \in Execs |-> IF e = launch[t].exec /\ exec[e].pc = "exit" THEN Off ELSE exec[e]]

Timeout(t) ==
  /\ launch[t].pc = "wait"
  /\ StopsWaiting(t) /\ Retry(t)
  /\ UNCHANGED <<host, docker, volume, headroom, faults>>

Cancel(t) ==
  /\ launch[t].pc \notin {"idle", "attached"}
  /\ StopsWaiting(t) /\ End(t)
  /\ UNCHANGED <<host, docker, volume, headroom, faults>>

\* attachStep: the preflight, and then the terminal is the user's.
Attach(t) ==
  /\ launch[t].pc = "attach"
  /\ IF box.up THEN Go(t, "attached") ELSE End(t)
  /\ UNCHANGED <<host, docker, volume, headroom, exec, faults>>

-----------------------------------------------------------------------------
(* The start phase in the container.                                       *)

Exec(e, pc) == exec' = [exec EXCEPT ![e].pc = pc]

\* claude-credentials would be optional, as headroom is.
MutCredentialsOptional(e) ==
  /\ exec[e].pc = "creds"
  /\ \/ creds' = FALSE /\ Fine
     \/ creds /\ Fault /\ UNCHANGED creds
  /\ Exec(e, "headroom")
  /\ UNCHANGED <<host, docker, settings, marker, headroom, launch>>

\* claude-credentials.  If it fails the phase fails, but nothing depends on it.
Credentials(e) ==
  /\ exec[e].pc = "creds"
  /\ \/ creds' = FALSE /\ Exec(e, "headroom") /\ Fine
     \/ /\ creds /\ Fault /\ UNCHANGED creds
        /\ exec' = [exec EXCEPT ![e].pc = "headroom", ![e].failed = TRUE]
  /\ UNCHANGED <<host, docker, settings, marker, headroom, launch>>

\* headroom is optional: the phase goes on without it.
Headroom(e) ==
  /\ exec[e].pc = "headroom"
  /\ \/ headroom' = TRUE /\ Fine
        /\ exec' = [exec EXCEPT ![e].pc = "env", ![e].sure = @ \union {"headroom"}]
     \/ ~headroom /\ Exec(e, "env") /\ Fault /\ UNCHANGED headroom
  /\ UNCHANGED <<host, docker, volume, launch>>

\* start-marker would not depend on settings-env.
MutMarkAnyway(e) ==
  /\ exec[e].pc = "env"
  /\ \/ /\ settings' = IF exec[e].key = None THEN settings ELSE exec[e].key
        /\ Exec(e, "marker") /\ Fine
     \/ /\ exec[e].key \notin {None, settings} /\ Fault /\ UNCHANGED settings
        /\ exec' = [exec EXCEPT ![e].pc = "marker", ![e].failed = TRUE]
  /\ UNCHANGED <<host, docker, creds, marker, headroom, launch>>

\* settings-env leaves the key in the file alone if it was given none.  If it
\* fails, start-marker is not run.
SettingsEnv(e) ==
  /\ exec[e].pc = "env"
  /\ \/ /\ settings' = IF exec[e].key = None THEN settings ELSE exec[e].key
        /\ Exec(e, "marker") /\ Fine
     \/ /\ exec[e].key \notin {None, settings} /\ Fault /\ UNCHANGED settings
        /\ exec' = [exec EXCEPT ![e] = Ended(e, TRUE)]
  /\ UNCHANGED <<host, docker, creds, marker, headroom, launch>>

\* start-marker, with the fingerprint of the container, and the exit.
StartMarker(e) ==
  /\ exec[e].pc = "marker"
  /\ \/ /\ marker' = [fp |-> box.fp, key |-> exec[e].key, sure |-> exec[e].sure \ {"login"}]
        /\ exec' = [exec EXCEPT ![e] = Ended(e, exec[e].failed)]
        /\ Fine
     \/ /\ exec' = [exec EXCEPT ![e] = Ended(e, TRUE)]
        /\ Fault /\ UNCHANGED marker
  /\ UNCHANGED <<host, docker, creds, settings, headroom, launch>>

-----------------------------------------------------------------------------
(* The user, serve, the repository and Docker.                             *)

Leave(t) ==
  /\ launch[t].pc = "attached"
  /\ End(t)
  /\ UNCHANGED <<host, docker, volume, headroom, exec, faults>>

\* claude /login in a session.
Login(t) ==
  /\ launch[t].pc = "attached" /\ box.up /\ ~creds
  /\ creds' = TRUE
  /\ exec' = [e \in Execs |-> [exec[e] EXCEPT !.sure = @ \ {"login"}]]
  /\ launch' = Without(launch, "login")
  /\ UNCHANGED <<host, docker, settings, marker, headroom, faults>>

\* A new serve empties the key file and fills it with a key of its own.
Rekey(k) ==
  /\ filed' = k
  /\ exec' = [e \in Execs |-> [exec[e] EXCEPT !.sure = @ \ {"key"}]]
  /\ launch' = Without(launch, "key")
  /\ UNCHANGED <<desired, docker, volume, headroom, faults>>

TruncateKey == issued # Keys /\ filed # None /\ Rekey(None) /\ UNCHANGED issued
WriteKey    == \E k \in Keys \ issued : filed = None /\ Rekey(k) /\ issued' = issued \union {k}

\* A commit, other stacks or another answer about the socket.
ChangeRequest ==
  /\ desired' \in Prints \ {desired}
  /\ UNCHANGED <<filed, issued, docker, volume, headroom, exec, launch, faults>>

\* Docker or the host is restarted and with it the container (restart:
\* unless-stopped), or somebody stops it.
BoxRestarts ==
  /\ box.up /\ Fault
  /\ Boot(launch, box.fp)
  /\ UNCHANGED <<host, image, creds, settings>>

BoxStops ==
  /\ box.up /\ Fault
  /\ box' = [box EXCEPT !.up = FALSE] /\ Kill /\ headroom' = FALSE
  /\ UNCHANGED <<host, image, volume, launch>>

-----------------------------------------------------------------------------
HostStep(t) ==
  \/ Launch(t) \/ Image(t) \/ Container(t) \/ Up(t) \/ ContainerFails(t)
  \/ StartCheck(t) \/ StartRun(t) \/ StartRunFails(t) \/ StartDone(t)
  \/ Timeout(t) \/ Cancel(t) \/ Attach(t) \/ Leave(t) \/ Login(t)

ExecStep(e) == Credentials(e) \/ Headroom(e) \/ SettingsEnv(e) \/ StartMarker(e)

Next ==
  \/ \E t \in Tuis : HostStep(t)
  \/ \E e \in Execs : ExecStep(e)
  \/ TruncateKey \/ WriteKey \/ ChangeRequest \/ BoxRestarts \/ BoxStops

Spec == Init /\ [][Next]_vars

-----------------------------------------------------------------------------
(* Properties.  Attaches(t) is a step that gives the terminal to claude.   *)

Attaches(t) == launch[t].pc = "attach" /\ launch'[t].pc = "attached"

\* The start marker stands for the key in settings.json: when it names the key
\* of the key file, settings.json has that key, whatever failed, was killed or
\* timed out on the way.  Given up for a phase that ran beside one with another
\* key, as nothing orders their writes (settingsenv.go:43, marker.go:68).
MarkerTellsKey ==
  "key" \in marker.sure /\ marker.key = filed /\ filed # None => settings = filed

\* A session starts with the key of the running serve in settings.json, whether
\* its launch ran the start phase, repeated it or skipped it: otherwise every
\* request of the session is refused (authproxy.go).  Given up when a new serve
\* writes its key after the launch's last look, or as for the marker.
KeyAtAttach ==
  [][\A t \in Tuis :
       Attaches(t) /\ "key" \in launch[t].sure /\ filed # None => settings = filed]_vars

\* A session starts with headroom up, through which settings.json sends it: the
\* start phase is not skipped in a container that the launch has just made.
\* Given up when headroom did not come up (the step is optional), and when the
\* container was started again with a marker of its own fingerprint.
HeadroomAtAttach ==
  [][\A t \in Tuis : Attaches(t) /\ "headroom" \in launch[t].sure => headroom]_vars

\* A launch whose start phase ran and ended well starts its session without a
\* login, unless somebody logged in since (credentials.go: the step is not
\* optional, so its failure is the phase's).
LoginIsRemoved ==
  [][\A t \in Tuis : Attaches(t) /\ "login" \in launch[t].sure => ~creds]_vars

================================================================================
