--------------------------- MODULE ChoicesProofs ---------------------------
(***************************************************************************)
(* Proofs about Choices, for any processes, keys, values and number of     *)
(* events.  The file first: what a process is about to write over it is    *)
(* right, but for its own key and for keys that are lost already; two      *)
(* processes that have both read it have lost both their keys; and while   *)
(* it is being written a key has what it should have, or nothing, unless   *)
(* it is lost or somebody is about to write it.  On this rest two          *)
(* invariants of the launches: what is left of a tune's list of writes     *)
(* tells what was written, and each step of a launch leaves to the next    *)
(* one a fact about the labels of the image and of the container.          *)
(***************************************************************************)
EXTENDS Choices, TLAPS

Active(p) == job[p].pc \in {"open", "write"}

CopyFits ==
  \A p \in Procs : Active(p) =>
    \A k \in Keys \ {Key(p)} : due[k] \in {job[p].copy[k], Lost}

TornFits ==
  Torn => \A k \in Keys : \/ due[k] = Lost
                          \/ env[k] \in {None, due[k]}
                          \/ \E p \in Procs : Active(p) /\ Key(p) = k

Apart ==
  \A p, q \in Procs : p # q /\ Active(p) /\ Active(q) => due[Key(p)] = Lost

Fits == SavedIsKept /\ CopyFits /\ TornFits /\ Apart

\* Only a menu or a step that waits for its writes has any.
Busy ==
  \A t \in Procs : ui[t].pc \in {"role", "tuned", "load", "save"} \/ job[t].pc = "idle"

Inv == TypeOK /\ Fits /\ Busy

-----------------------------------------------------------------------------
(* Types.                                                                  *)

LEMMA EmptyContents == Empty \in Contents
  BY DEF Empty, Contents

LEMMA Shape ==
  ASSUME EnvTypeOK, NEW p \in Procs, job[p].todo # <<>>
  PROVE  /\ Key(p) \in Keys /\ Value(p) \in Values \union {None}
         /\ job[p].todo \in Seq(Write) /\ Tail(job[p].todo) \in Seq(Write)
  <1>1. job[p].todo \in Seq(Write)
    BY DEF EnvTypeOK, Jobs
  <1>2. Head(job[p].todo) \in Write /\ Tail(job[p].todo) \in Seq(Write)
    BY <1>1
  <1> QED BY <1>1, <1>2 DEF Key, Value, Write

LEMMA ActiveShape ==
  ASSUME EnvTypeOK, NEW p \in Procs, Active(p)
  PROVE  job[p].todo # <<>> /\ Key(p) \in Keys /\ Value(p) \in Values \union {None}
  BY Shape DEF EnvTypeOK, Active

\* What a step of p does to the jobs.
LEMMA PutIs ==
  ASSUME EnvTypeOK, NEW p \in Procs, NEW at, NEW todo, NEW copy, Put(p, at, todo, copy)
  PROVE  /\ job'[p] = [pc |-> at, todo |-> todo, copy |-> copy]
         /\ \A q \in Procs \ {p} : job'[q] = job[q]
         /\ DOMAIN job' = Procs
         /\ job' = [q \in Procs |-> IF q = p THEN [pc |-> at, todo |-> todo, copy |-> copy] ELSE job[q]]
  BY DEF Put, EnvTypeOK

LEMMA BeginsIs ==
  ASSUME EnvTypeOK, NEW p \in Procs, NEW todo, Begins(p, todo)
  PROVE  /\ job'[p].pc = "read" /\ job'[p].todo = todo
         /\ \A q \in Procs \ {p} : job'[q] = job[q]
  BY DEF Begins, Put, EnvTypeOK

LEMMA GoesIs ==
  ASSUME EnvTypeOK, NEW p \in Procs, NEW at, Goes(p, at)
  PROVE  job'[p].pc = at /\ \A q \in Procs \ {p} : job'[q] = job[q]
  BY DEF Goes, Put, EnvTypeOK

LEMMA PutTypes ==
  ASSUME EnvTypeOK, NEW p \in Procs,
         NEW at \in {"idle", "read", "open", "write", "failed"},
         NEW todo \in Seq(Write), NEW copy \in Contents,
         at \in {"open", "write"} => todo # <<>>,
         Put(p, at, todo, copy)
  PROVE  /\ job' \in [Procs -> Jobs]
         /\ \A q \in Procs : job'[q].pc \in {"open", "write"} => job'[q].todo # <<>>
  <1>1. [pc |-> at, todo |-> todo, copy |-> copy] \in Jobs
    BY DEF Jobs
  <1> QED BY <1>1, PutIs DEF EnvTypeOK

LEMMA NoJobIsAJob == NoJob \in Jobs
  <1>1. <<>> \in Seq(Write)
    OBVIOUS
  <1> QED BY <1>1, EmptyContents DEF NoJob, Jobs

LEMMA EndsIs ==
  ASSUME EnvTypeOK, NEW p \in Procs, Ends(p)
  PROVE  /\ Put(p, "idle", <<>>, Empty)
         /\ job'[p] = NoJob
         /\ \A q \in Procs \ {p} : job'[q] = job[q]
  BY DEF Ends, NoJob, Put, EnvTypeOK

LEMMA Counted ==
  ASSUME EnvTypeOK, Event \/ Fine
  PROVE  events' \in 0 .. MaxEvents
  <1>1. events \in Nat /\ MaxEvents \in Nat
    BY DotEnvAssumption DEF EnvTypeOK
  <1> QED BY <1>1 DEF EnvTypeOK, Event, Fine

LEMMA EnvTypes ==
  ASSUME EnvTypeOK, NEW p \in Procs, FileStep(p)
  PROVE  EnvTypeOK'
  <1>0. /\ job[p] \in Jobs /\ job[p].todo \in Seq(Write) /\ job[p].copy \in Contents
        /\ env \in Contents /\ Empty \in Contents
        /\ job[p].pc \in {"open", "write"} => job[p].todo # <<>>
    BY EmptyContents DEF EnvTypeOK, Jobs
  <1>1. events' \in 0 .. MaxEvents
    BY Counted DEF FileStep, Skip, ReadFile, ReadFails, Truncate, OpenFails, WriteOut, WriteFails
  <1>2. due' \in [Keys -> Values \union {None, Lost}]
    <2>1. \A S : Loses(S) => due' \in [Keys -> Values \union {None, Lost}]
      BY DEF Loses, EnvTypeOK
    <2>2. ASSUME job[p].todo # <<>>, Knows(Key(p), Outcome(p))
          PROVE  due' \in [Keys -> Values \union {None, Lost}]
      <3>1. Key(p) \in Keys /\ Outcome(p) \in Values \union {None, Lost}
        BY <2>2, Shape DEF Outcome
      <3> QED BY <2>2, <3>1 DEF Knows, EnvTypeOK
    <2> QED BY <1>0, <2>1, <2>2 DEF FileStep, Skip, ReadFile, ReadFails, Truncate, OpenFails,
              WriteOut, WriteFails, EnvTypeOK
  <1>3. env' \in Contents
    <2>1. CASE WriteOut(p)
      <3>1. PICK rest \in SUBSET {k \in Keys : env[k] # None} :
              env' = Over(env, NewContents(p), rest)
        BY <2>1 DEF WriteOut
      <3>2. Key(p) \in Keys /\ Value(p) \in Values \union {None}
        BY <1>0, <2>1, Shape DEF WriteOut
      <3>3. NewContents(p) \in Contents
        BY <1>0, <3>2 DEF NewContents, Contents
      <3> QED BY <1>0, <3>1, <3>3 DEF Over, Contents
    <2> QED BY <1>0, <2>1 DEF FileStep, Skip, ReadFile, ReadFails, Truncate, OpenFails, WriteFails
  <1>4. /\ job' \in [Procs -> Jobs]
        /\ \A q \in Procs : job'[q].pc \in {"open", "write"} => job'[q].todo # <<>>
    <2>1. CASE Skip(p) \/ WriteOut(p)
      <3>1. Tail(job[p].todo) \in Seq(Write)
        BY <1>0, <2>1 DEF Skip, WriteOut
      <3> QED BY <1>0, <2>1, <3>1, PutTypes DEF Skip, WriteOut, Begins
    <2>2. CASE ReadFile(p)
      BY <1>0, <2>2, PutTypes DEF ReadFile
    <2>3. CASE ReadFails(p)
      BY <1>0, <2>3, PutTypes DEF ReadFails, Goes
    <2>4. CASE Truncate(p) \/ OpenFails(p) \/ WriteFails(p)
      BY <1>0, <2>4, PutTypes DEF Truncate, OpenFails, WriteFails, Goes
    <2> QED BY <2>1, <2>2, <2>3, <2>4 DEF FileStep
  <1> QED BY <1>1, <1>2, <1>3, <1>4 DEF EnvTypeOK

-----------------------------------------------------------------------------
(* The file.                                                               *)

LEMMA Rest ==
  ASSUME NEW p \in Procs, \A q \in Procs \ {p} : job'[q] = job[q]
  PROVE  \A q \in Procs \ {p} : Active(q)' = Active(q) /\ Key(q)' = Key(q)
  BY DEF Active, Key

\* Nothing of the file changes, and p is, or comes, to rest.
LEMMA Quiet ==
  ASSUME Fits, EnvTypeOK, NEW p \in Procs, job[p].pc # "write",
         job'[p].pc \notin {"open", "write"},
         \A q \in Procs \ {p} : job'[q] = job[q],
         UNCHANGED <<env, due>>
  PROVE  Fits'
  <1> USE DEF Fits
  <1>1. \A q \in Procs : Active(q)' => q # p /\ Active(q) /\ Key(q)' = Key(q) /\ job'[q] = job[q]
    BY Rest DEF Active
  <1>2. Torn' = Torn
    BY DEF Torn
  <1>3. SavedIsKept'
    BY <1>2 DEF SavedIsKept
  <1>4. CopyFits'
    BY <1>1 DEF CopyFits
  <1>5. Apart'
    BY <1>1 DEF Apart
  <1>6. TornFits'
    <2> SUFFICES ASSUME Torn', NEW k \in Keys, due[k] # Lost, env[k] \notin {None, due[k]}
                 PROVE  \E q \in Procs : Active(q)' /\ Key(q)' = k
      BY DEF TornFits
    <2>1. PICK q \in Procs : Active(q) /\ Key(q) = k
      BY <1>2 DEF TornFits
    <2>2. PICK r \in Procs : r # p /\ Active(r)
      BY <1>2 DEF Torn, Active
    <2>3. q # p
      BY <2>1, <2>2 DEF Apart
    <2> QED BY <2>1, <2>3, Rest
  <1> QED BY <1>3, <1>4, <1>5, <1>6

\* All keys are lost.
LEMMA AllLost ==
  ASSUME EnvTypeOK', \A k \in Keys : due'[k] = Lost
  PROVE  Fits'
  <1>1. \A p \in Procs : Active(p)' => Key(p)' \in Keys
    <2> SUFFICES ASSUME NEW p \in Procs, job'[p].pc \in {"open", "write"}
                 PROVE  Head(job'[p].todo).key \in Keys
      BY DEF Active, Key
    <2>1. job'[p].todo \in Seq(Write) /\ job'[p].todo # <<>>
      BY DEF EnvTypeOK, Jobs
    <2>2. Head(job'[p].todo) \in Write
      BY <2>1
    <2> QED BY <2>2 DEF Write
  <1> QED BY <1>1 DEF Fits, SavedIsKept, CopyFits, TornFits, Apart

LEMMA SkipFits ==
  ASSUME Fits, EnvTypeOK, NEW p \in Procs, Skip(p)
  PROVE  Fits'
  <1> USE DEF Fits
  <1>1. /\ job'[p].pc = "read" /\ job[p].pc = "read"
        /\ \A q \in Procs \ {p} : job'[q] = job[q]
    BY BeginsIs DEF Skip
  <1>2. \A q \in Procs : Active(q)' => q # p /\ Active(q) /\ Key(q)' = Key(q) /\ job'[q] = job[q]
    BY <1>1, Rest DEF Active
  <1>3. \A q \in Procs : Active(q) => Active(q)' /\ Key(q)' = Key(q)
    BY <1>1, Rest DEF Active
  <1>4. Torn' = Torn
    BY <1>1 DEF Torn
  <1>5. Key(p) \in Keys
    BY Shape DEF Skip
  <1>6. /\ \A k \in Keys \ {Key(p)} : due'[k] = due[k]
        /\ due'[Key(p)] \in {env[Key(p)], Lost}
        /\ (\E q \in Procs : Active(q)) => due'[Key(p)] = Lost
    <2>1. due'[Key(p)] = Outcome(p) /\ \A k \in Keys \ {Key(p)} : due'[k] = due[k]
      BY <1>5 DEF Skip, Knows, EnvTypeOK
    <2>2. Outcome(p) \in {env[Key(p)], Lost}
      BY DEF Skip, Outcome
    <2>3. (\E q \in Procs : Active(q)) => Others(p) # {}
      BY <1>1 DEF Others, Active
    <2> QED BY <2>1, <2>2, <2>3 DEF Outcome
  <1>7. env' = env
    BY DEF Skip
  <1>8. SavedIsKept'
    BY <1>4, <1>6, <1>7 DEF SavedIsKept
  <1>9. CopyFits'
    BY <1>2, <1>6 DEF CopyFits
  <1>10. Apart'
    <2> SUFFICES ASSUME NEW q \in Procs, NEW r \in Procs, q # r, Active(q)', Active(r)'
                 PROVE  due'[Key(q)'] = Lost
      BY DEF Apart
    <2>1. Active(q) /\ Active(r) /\ Key(q)' = Key(q) /\ due[Key(q)] = Lost
      BY <1>2 DEF Apart
    <2>2. Key(q) \in Keys
      BY <2>1, ActiveShape
    <2> QED BY <1>6, <2>1, <2>2
  <1>11. TornFits'
    BY <1>3, <1>4, <1>6, <1>7 DEF TornFits
  <1> QED BY <1>8, <1>9, <1>10, <1>11

LEMMA ReadFits ==
  ASSUME Fits, EnvTypeOK, NEW p \in Procs, ReadFile(p)
  PROVE  Fits'
  <1> USE DEF Fits
  <1>1. /\ job'[p] = [pc |-> "open", todo |-> job[p].todo, copy |-> env]
        /\ \A q \in Procs \ {p} : job'[q] = job[q]
    BY PutIs DEF ReadFile
  <1>2. \A q \in Procs : Active(q)' = (q = p \/ Active(q)) /\ Key(q)' = Key(q)
    BY <1>1, Rest DEF Active, Key
  <1>3. Torn' = Torn
    BY <1>1 DEF Torn, ReadFile
  <1>4. /\ \A k \in Keys : due'[k] \in {due[k], Lost}
        /\ \A k \in AtStake(p) \intersect Keys : due'[k] = Lost
    BY DEF ReadFile, Loses
  <1>5. job[p].pc = "read" /\ env' = env /\ Key(p) \in Keys
    BY Shape DEF ReadFile
  <1>6. \A q \in Procs : Active(q) => Key(q) \in Keys
    BY ActiveShape
  <1>7. \A q \in Procs : Active(q) =>
          {Key(p), Key(q)} \subseteq AtStake(p) /\ (job[q].pc = "write" => AtStake(p) = Keys)
    BY <1>5, <1>6 DEF AtStake, Others, Active
  <1>8. SavedIsKept'
    BY <1>3, <1>4, <1>5 DEF SavedIsKept
  <1>9. CopyFits'
    <2> SUFFICES ASSUME NEW q \in Procs, Active(q)', NEW k \in Keys \ {Key(q)}
                 PROVE  due'[k] \in {job'[q].copy[k], Lost}
      BY <1>2 DEF CopyFits
    <2>1. CASE q # p
      BY <1>1, <1>2, <1>4, <2>1 DEF CopyFits
    <2>2. CASE q = p /\ Torn
      BY <1>4, <1>7, <2>2 DEF Torn, Active
    <2>3. CASE q = p /\ ~Torn
      BY <1>1, <1>4, <2>3 DEF SavedIsKept
    <2> QED BY <2>1, <2>2, <2>3
  <1>10. Apart'
    <2> SUFFICES ASSUME NEW q \in Procs, NEW r \in Procs, q # r, Active(q)', Active(r)'
                 PROVE  due'[Key(q)] = Lost
      BY <1>2 DEF Apart
    <2>1. Key(q) \in Keys /\ Key(r) \in Keys
      BY <1>2, <1>5, <1>6
    <2>2. CASE q # p /\ r # p
      BY <1>2, <1>4, <2>1, <2>2 DEF Apart
    <2>3. CASE q = p \/ r = p
      BY <1>2, <1>4, <1>7, <2>1, <2>3
    <2> QED BY <2>2, <2>3
  <1>11. TornFits'
    BY <1>2, <1>3, <1>4, <1>5 DEF TornFits
  <1> QED BY <1>8, <1>9, <1>10, <1>11

LEMMA TruncateFits ==
  ASSUME Fits, EnvTypeOK, NEW p \in Procs, Truncate(p)
  PROVE  Fits'
  <1> USE DEF Fits
  <1>1. /\ job'[p] = [pc |-> "write", todo |-> job[p].todo, copy |-> job[p].copy]
        /\ \A q \in Procs \ {p} : job'[q] = job[q]
        /\ job[p].pc = "open"
    <2>1. Put(p, "write", job[p].todo, job[p].copy) /\ job[p].pc = "open"
      BY DEF Truncate, Goes
    <2> QED BY <2>1, PutIs
  <1>2. \A q \in Procs : Active(q)' = Active(q) /\ Key(q)' = Key(q) /\ job'[q].copy = job[q].copy
    BY <1>1 DEF Active, Key
  <1>3. Torn' /\ due' = due /\ env' = Empty
    BY <1>1 DEF Torn, Truncate
  <1>4. SavedIsKept' /\ TornFits'
    BY <1>3 DEF SavedIsKept, TornFits, Empty
  <1>5. CopyFits' /\ Apart'
    BY <1>2, <1>3 DEF CopyFits, Apart
  <1> QED BY <1>4, <1>5

LEMMA WriteOutFits ==
  ASSUME Fits, EnvTypeOK, NEW p \in Procs, WriteOut(p)
  PROVE  Fits'
  <1> USE DEF Fits
  <1>1. /\ job'[p].pc = "read" /\ job[p].pc = "write"
        /\ \A q \in Procs \ {p} : job'[q] = job[q]
    BY BeginsIs DEF WriteOut
  <1>2. \A q \in Procs : Active(q)' => q # p /\ Active(q) /\ Key(q)' = Key(q) /\ job'[q] = job[q]
    BY <1>1, Rest DEF Active
  <1>3. Active(p) /\ Torn
    BY <1>1 DEF Active, Torn
  <1>4. Key(p) \in Keys
    BY <1>3, ActiveShape
  <1>5. /\ \A k \in Keys \ {Key(p)} : due'[k] = due[k]
        /\ due'[Key(p)] = Outcome(p)
    BY <1>4 DEF WriteOut, Knows, EnvTypeOK
  <1>6. ASSUME NEW q \in Procs, Active(q), q # p PROVE Outcome(p) = Lost
    BY <1>6 DEF Outcome, Others, Active
  <1>7. PICK rest \in SUBSET {k \in Keys : env[k] # None} : env' = Over(env, NewContents(p), rest)
    BY DEF WriteOut
  <1>8. /\ \A k \in Keys \ {Key(p)} : NewContents(p)[k] = job[p].copy[k]
        /\ NewContents(p)[Key(p)] = Value(p)
    <2>1. job[p].copy \in [Keys -> Values \union {None}]
      BY DEF EnvTypeOK, Jobs, Contents
    <2> QED BY <1>4, <2>1 DEF NewContents
  <1>9. \A k \in Keys : due'[k] \in {env'[k], Lost}
    <2> SUFFICES ASSUME NEW k \in Keys, due'[k] # Lost PROVE due'[k] = env'[k]
      OBVIOUS
    <2>0. env'[k] = IF NewContents(p)[k] = None /\ k \in rest THEN env[k] ELSE NewContents(p)[k]
      BY <1>7 DEF Over
    <2>1. CASE k = Key(p)
      <3>1. due'[k] = Value(p) /\ (Value(p) # None \/ env[k] = None)
        BY <1>5, <2>1 DEF Outcome
      <3>2. CASE Value(p) = None
        BY <1>8, <2>0, <2>1, <3>1, <3>2
      <3>3. CASE Value(p) # None
        BY <1>8, <2>0, <2>1, <3>1, <3>3
      <3> QED BY <3>2, <3>3
    <2>2. CASE k # Key(p)
      <3>1. due'[k] = due[k] /\ due[k] = job[p].copy[k] /\ NewContents(p)[k] = job[p].copy[k]
        BY <1>3, <1>5, <1>8, <2>2 DEF CopyFits
      <3>2. CASE job[p].copy[k] = None /\ k \in rest
        <4>1. env[k] # None /\ env[k] # due[k] /\ due[k] # Lost
          BY <3>1, <3>2
        <4>2. PICK q \in Procs : Active(q) /\ Key(q) = k
          BY <1>3, <4>1 DEF TornFits
        <4>3. q # p /\ due[Key(q)] = Lost
          BY <1>3, <2>2, <4>2 DEF Apart
        <4> QED BY <4>1, <4>2, <4>3
      <3>3. CASE ~(job[p].copy[k] = None /\ k \in rest)
        BY <2>0, <3>1, <3>3
      <3> QED BY <3>2, <3>3
    <2> QED BY <2>1, <2>2
  <1>10. SavedIsKept'
    BY <1>9 DEF SavedIsKept
  <1>11. TornFits'
    BY <1>9 DEF TornFits
  <1>12. CopyFits'
    <2> SUFFICES ASSUME NEW q \in Procs, Active(q)', NEW k \in Keys \ {Key(q)'}
                 PROVE  due'[k] \in {job'[q].copy[k], Lost}
      BY DEF CopyFits
    <2>1. q # p /\ Active(q) /\ Key(q)' = Key(q) /\ job'[q] = job[q]
      BY <1>2
    <2>2. due'[Key(p)] = Lost
      BY <1>5, <1>6, <2>1
    <2> QED BY <1>5, <2>1, <2>2 DEF CopyFits
  <1>13. Apart'
    <2> SUFFICES ASSUME NEW q \in Procs, NEW r \in Procs, q # r, Active(q)', Active(r)'
                 PROVE  due'[Key(q)'] = Lost
      BY DEF Apart
    <2>1. Active(q) /\ Active(r) /\ Key(q)' = Key(q) /\ due[Key(q)] = Lost /\ q # p
      BY <1>2 DEF Apart
    <2>2. Key(q) \in Keys
      BY <2>1, ActiveShape
    <2>3. CASE Key(q) = Key(p)
      BY <1>5, <1>6, <2>1, <2>3
    <2>4. CASE Key(q) # Key(p)
      BY <1>5, <2>1, <2>2, <2>4
    <2> QED BY <2>3, <2>4
  <1> QED BY <1>10, <1>11, <1>12, <1>13

LEMMA EditFits ==
  ASSUME Fits, EnvTypeOK, NEW k \in Keys, NEW v \in Values \union {None}, Edit(k, v)
  PROVE  Fits' /\ EnvTypeOK'
  <1> USE DEF Fits
  <1>1. UNCHANGED job /\ ~Torn
    BY DEF Edit
  <1>2. /\ \A q \in Procs : Active(q)' = Active(q) /\ Key(q)' = Key(q)
        /\ Torn' = Torn
    BY <1>1 DEF Active, Key, Torn
  <1>3. /\ env'[k] = v /\ due'[k] \in {v, Lost}
        /\ \A j \in Keys \ {k} : env'[j] = env[j] /\ due'[j] = due[j]
        /\ (\E p \in Procs : Active(p)) => due'[k] = Lost
    BY <1>1 DEF Edit, Knows, EnvTypeOK, Contents, Active, Torn
  <1>4. SavedIsKept' /\ TornFits'
    BY <1>1, <1>2, <1>3 DEF SavedIsKept, TornFits
  <1>5. CopyFits'
    BY <1>1, <1>2, <1>3 DEF CopyFits
  <1>6. Apart'
    BY <1>2, <1>3, ActiveShape DEF Apart
  <1>7. EnvTypeOK'
    <2>1. events' \in 0 .. MaxEvents
      BY Counted DEF Edit
    <2>2. env' \in Contents /\ due' \in [Keys -> Values \union {None, Lost}]
      BY DEF Edit, Knows, EnvTypeOK, Contents
    <2> QED BY <1>1, <2>1, <2>2 DEF EnvTypeOK
  <1> QED BY <1>4, <1>5, <1>6, <1>7

LEMMA FileFits ==
  ASSUME Fits, EnvTypeOK, NEW p \in Procs, FileStep(p)
  PROVE  Fits' /\ EnvTypeOK'
  <1>0. EnvTypeOK'
    BY EnvTypes
  <1>1. Goes(p, "failed") /\ job[p].pc # "write" /\ UNCHANGED <<env, due>> => Fits'
    BY GoesIs, Quiet
  <1>2. CASE OpenFails(p)
    BY <1>0, <1>1, <1>2 DEF OpenFails
  <1>3. CASE ReadFails(p)
    BY <1>0, <1>1, <1>3, AllLost DEF ReadFails, Loses
  <1>4. CASE WriteFails(p)
    BY <1>0, <1>4, AllLost DEF WriteFails, Loses
  <1> QED BY <1>0, <1>2, <1>3, <1>4, SkipFits, ReadFits, TruncateFits, WriteOutFits DEF FileStep

\* A TUI begins a list of writes, comes back from one, or leaves it alone.
JobMoves(p) ==
  \/ \E todo \in Seq(Write) : Begins(p, todo) /\ job[p].pc = "idle"
  \/ Ends(p) /\ job[p].pc \notin {"open", "write"}
  \/ UNCHANGED job

LEMMA MoveFits ==
  ASSUME Fits, EnvTypeOK, NEW p \in Procs, JobMoves(p), UNCHANGED <<env, due>>, Event \/ Fine
  PROVE  Fits' /\ EnvTypeOK'
  <1>0. /\ events' \in 0 .. MaxEvents
        /\ env' \in Contents /\ due' \in [Keys -> Values \union {None, Lost}]
    BY Counted DEF EnvTypeOK
  <1>1. CASE \E todo \in Seq(Write) : Begins(p, todo) /\ job[p].pc = "idle"
    <2>1. PICK todo \in Seq(Write) : Begins(p, todo) /\ job[p].pc = "idle"
      BY <1>1
    <2>2. job'[p].pc = "read" /\ \A q \in Procs \ {p} : job'[q] = job[q]
      BY <2>1, BeginsIs
    <2>3. Put(p, "read", todo, Empty)
      BY <2>1 DEF Begins
    <2>4. EnvTypeOK'
      BY <1>0, <2>3, PutTypes, EmptyContents DEF EnvTypeOK
    <2> QED BY <2>1, <2>2, <2>4, Quiet
  <1>2. CASE Ends(p) /\ job[p].pc \notin {"open", "write"}
    <2>1. job'[p].pc = "idle" /\ \A q \in Procs \ {p} : job'[q] = job[q]
      BY <1>2, EndsIs DEF NoJob
    <2>2. EnvTypeOK'
      BY <1>0, <1>2, NoJobIsAJob DEF EnvTypeOK, Ends, NoJob
    <2> QED BY <1>2, <2>1, <2>2, Quiet
  <1>3. CASE UNCHANGED job
    BY <1>0, <1>3 DEF Fits, SavedIsKept, CopyFits, TornFits, Apart, Active, Key, Torn, EnvTypeOK
  <1> QED BY <1>1, <1>2, <1>3 DEF JobMoves

LEMMA DeathFits ==
  ASSUME Fits, EnvTypeOK, NEW p \in Procs, Dies(p)
  PROVE  Fits' /\ EnvTypeOK' /\ job'[p].pc = "idle" /\ \A q \in Procs \ {p} : job'[q] = job[q]
  <1>1. job'[p].pc = "idle" /\ \A q \in Procs \ {p} : job'[q] = job[q]
    BY EndsIs DEF Dies, NoJob
  <1>2. EnvTypeOK'
    <2>1. events' \in 0 .. MaxEvents
      BY Counted DEF Dies
    <2>2. due' \in [Keys -> Values \union {None, Lost}]
      BY DEF Dies, Loses, EnvTypeOK
    <2> QED BY <2>1, <2>2, NoJobIsAJob DEF EnvTypeOK, Dies, Ends, NoJob
  <1>3. CASE job[p].pc = "write"
    BY <1>1, <1>2, <1>3, AllLost DEF Dies, Loses
  <1>4. CASE job[p].pc # "write"
    <2>1. due' = due /\ env' = env
      BY <1>4 DEF Dies, Loses, EnvTypeOK
    <2> QED BY <1>1, <1>2, <1>4, <2>1, Quiet
  <1> QED BY <1>1, <1>2, <1>3, <1>4

-----------------------------------------------------------------------------
(* The TUIs.                                                               *)

Pcs     == InMenus \union InLaunch \union {"session"}
Uis     == [pc : Pcs, agreed : BOOLEAN, batch : Values \union {None}, label : Values \union {None}]
Waiting == {"role", "tuned", "load", "save"}

\* What a step of the TUI t does, apart from what it writes.
TuiMoves(t) ==
  /\ ui'[t] \in Uis /\ ui' = [ui EXCEPT ![t] = ui'[t]]
  /\ ui'[t].pc \in Waiting \/ job'[t].pc = "idle"
  /\ JobMoves(t)
  /\ image' \in Images /\ box' \in [up : BOOLEAN, of : Images]
  /\ UNCHANGED <<env, due>> /\ (Event \/ Fine)

LEMMA GotoMoves ==
  ASSUME TypeOK, NEW t \in Procs, NEW pc \in Pcs, Goto(t, pc)
  PROVE  ui'[t] \in Uis /\ ui' = [ui EXCEPT ![t] = ui'[t]] /\ ui'[t].pc = pc
  <1>1. ui[t] \in Uis
    BY DEF TypeOK, Uis, Pcs
  <1>2. ui'[t] = [ui[t] EXCEPT !.pc = pc] /\ ui' = [ui EXCEPT ![t] = [ui[t] EXCEPT !.pc = pc]]
    BY DEF Goto, TypeOK
  <1>3. [ui[t] EXCEPT !.pc = pc] \in Uis /\ [ui[t] EXCEPT !.pc = pc].pc = pc
    BY <1>1 DEF Uis
  <1> QED BY <1>2, <1>3

LEMMA MenuMoves ==
  ASSUME TypeOK, NEW t \in Procs, ToMenu(t)
  PROVE  ui'[t] \in Uis /\ ui' = [ui EXCEPT ![t] = ui'[t]] /\ ui'[t].pc = "menu"
  BY DEF ToMenu, AtMenu, TypeOK, Uis, Pcs, InMenus

LEMMA StartMoves ==
  ASSUME TypeOK, NEW t \in Procs, NEW agreed \in BOOLEAN, StartLaunch(t, agreed)
  PROVE  ui'[t] \in Uis /\ ui' = [ui EXCEPT ![t] = ui'[t]] /\ ui'[t].pc = "config"
  <1>1. "BATCH" \in Keys
    BY ChoicesAssumption
  <1>2. env["BATCH"] \in Values \union {None}
    BY <1>1 DEF TypeOK, EnvTypeOK, Contents
  <1>3. [AtMenu EXCEPT !.pc = "config", !.agreed = agreed, !.batch = env["BATCH"]] \in Uis
    BY <1>2 DEF AtMenu, Uis, Pcs, InLaunch
  <1>4. [AtMenu EXCEPT !.pc = "config", !.agreed = agreed, !.batch = env["BATCH"]].pc = "config"
    BY DEF AtMenu
  <1> QED BY <1>3, <1>4 DEF StartLaunch, TypeOK

LEMMA WroteMoves ==
  ASSUME Inv, NEW t \in Procs, NEW pc \in Pcs, Wrote(t, pc)
  PROVE  /\ ui'[t] \in Uis /\ ui' = [ui EXCEPT ![t] = ui'[t]]
         /\ job'[t].pc = "idle" /\ JobMoves(t)
  <1>0. TypeOK /\ EnvTypeOK
    BY DEF Inv, TypeOK
  <1>1. Ends(t) /\ job[t].pc \in {"read", "failed"}
    BY DEF Wrote, Done, Failed
  <1>2. job'[t].pc = "idle"
    BY <1>0, <1>1, EndsIs DEF NoJob
  <1>3. ui'[t] \in Uis /\ ui' = [ui EXCEPT ![t] = ui'[t]]
    BY <1>0, GotoMoves, MenuMoves DEF Wrote
  <1> QED BY <1>1, <1>2, <1>3 DEF JobMoves

LEMMA SavesTypes ==
  ASSUME NEW groups \in Seq(Keys), NEW c \in Selections(groups)
  PROVE  Saves(groups, c) \in Seq(Write)
  <1>1. /\ Len(groups) \in Nat /\ DOMAIN groups = 1 .. Len(groups)
        /\ \A i \in DOMAIN groups : groups[i] \in Keys /\ c[i] \in Values
    BY DEF Selections
  <1>2. Saves(groups, c) \in [1 .. Len(groups) -> Write]
    BY <1>1 DEF Saves, Write
  <1> QED BY <1>1, <1>2

LEMMA TuneTypes ==
  ASSUME NEW v \in Values \union {None}
  PROVE  TuneWrites(v) \in Seq(Write)
  <1>1. "EFFORT" \in Keys /\ "BATCH" \in Keys
    BY ChoicesAssumption
  <1>2. [key |-> "EFFORT", value |-> v] \in Write /\ [key |-> "BATCH", value |-> v] \in Write
    BY <1>1 DEF Write
  <1> QED BY <1>2 DEF TuneWrites

LEMMA BeginMoves ==
  ASSUME Inv, NEW t \in Procs, ui[t].pc \notin Waiting, NEW todo \in Seq(Write), Begins(t, todo)
  PROVE  JobMoves(t)
  <1>1. job[t].pc = "idle"
    BY DEF Inv, Busy, Waiting
  <1> QED BY <1>1 DEF JobMoves

\* Every step of a menu or of a launch is such a move.
LEMMA TuiStep ==
  ASSUME Inv, NEW t \in Procs, Menu(t) \/ Launch(t)
  PROVE  TuiMoves(t)
  <1>0. /\ TypeOK /\ image \in Images /\ box \in [up : BOOLEAN, of : Images]
        /\ env \in Contents /\ ui[t] \in Uis
    BY DEF Inv, TypeOK, EnvTypeOK, Uis, Pcs
  <1>1. ui[t].pc \notin Waiting => job[t].pc = "idle"
    BY DEF Inv, Busy, Waiting
  <1>2. ASSUME Wrote(t, "tune") \/ Wrote(t, "ask") \/ Wrote(t, "image") \/ Wrote(t, "form")
        PROVE  /\ ui'[t] \in Uis /\ ui' = [ui EXCEPT ![t] = ui'[t]]
               /\ job'[t].pc = "idle" /\ JobMoves(t)
    BY <1>2, WroteMoves DEF Pcs, InMenus, InLaunch
  <1>3. CASE PickRole(t)
    <2>1. CASE Goto(t, "ask") /\ UNCHANGED job
      BY <1>0, <1>1, <1>3, <2>1, GotoMoves DEF PickRole, TuiMoves, JobMoves, Waiting, Pcs, InMenus, sandbox
    <2>2. ASSUME NEW v \in Options["LOADOUT"], Goto(t, "role"),
                 Begins(t, <<[key |-> "LOADOUT", value |-> v]>>)
          PROVE  TuiMoves(t)
      <3>1. "LOADOUT" \in Keys /\ v \in Values
        BY ChoicesAssumption
      <3>2. <<[key |-> "LOADOUT", value |-> v]>> \in Seq(Write)
        BY <3>1 DEF Write
      <3>3. JobMoves(t)
        BY <1>3, <2>2, <3>2, BeginMoves DEF PickRole, Waiting
      <3> QED BY <1>0, <1>3, <2>2, <3>3, GotoMoves DEF PickRole, TuiMoves, Waiting, Pcs, InMenus, sandbox
    <2> QED BY <1>3, <2>1, <2>2 DEF PickRole
  <1>4. CASE RoleWritten(t) \/ TuneWritten(t) \/ Loaded(t) \/ Saved(t)
    BY <1>0, <1>2, <1>4 DEF RoleWritten, TuneWritten, Loaded, Saved, TuiMoves, sandbox
  <1>5. CASE Tune(t)
    <2>1. PICK v \in Options["EFFORT"] \union {None} : Goto(t, "tuned") /\ Begins(t, TuneWrites(v))
      BY <1>5 DEF Tune
    <2>2. v \in Values \union {None}
      BY ChoicesAssumption
    <2>3. JobMoves(t)
      BY <1>5, <2>1, <2>2, TuneTypes, BeginMoves DEF Tune, Waiting
    <2> QED BY <1>0, <1>5, <2>1, <2>3, GotoMoves DEF Tune, TuiMoves, Waiting, Pcs, InMenus, sandbox
  <1>6. CASE MaybeWarnRestart(t) \/ Answer(t)
    BY <1>0, <1>1, <1>6, GotoMoves, StartMoves, MenuMoves
      DEF MaybeWarnRestart, Answer, TuiMoves, JobMoves, Waiting, Pcs, InMenus, sandbox
  <1>7. CASE Config(t)
    <2>1. CASE Goto(t, "image") /\ UNCHANGED job
      BY <1>0, <1>1, <1>7, <2>1, GotoMoves DEF Config, TuiMoves, JobMoves, Waiting, Pcs, InLaunch, sandbox
    <2>2. ASSUME NEW c \in Selections(Bare), Goto(t, "load"), Begins(t, Saves(Bare, c))
          PROVE  TuiMoves(t)
      <3>1. JobMoves(t)
        BY <1>7, <2>2, SavesTypes, BeginMoves, ChoicesAssumption DEF Config, Waiting
      <3> QED BY <1>0, <1>7, <2>2, <3>1, GotoMoves DEF Config, TuiMoves, Waiting, Pcs, InLaunch, sandbox
    <2> QED BY <1>7, <2>1, <2>2 DEF Config
  <1>8. CASE Form(t)
    <2>1. CASE ToMenu(t) /\ UNCHANGED job
      BY <1>0, <1>1, <1>8, <2>1, MenuMoves DEF Form, TuiMoves, JobMoves, Waiting, sandbox
    <2>2. ASSUME NEW c \in Selections(Asked), Goto(t, "save"), Begins(t, Saves(Asked, c))
          PROVE  TuiMoves(t)
      <3>1. JobMoves(t)
        BY <1>8, <2>2, SavesTypes, BeginMoves, ChoicesAssumption DEF Form, Waiting
      <3> QED BY <1>0, <1>8, <2>2, <3>1, GotoMoves DEF Form, TuiMoves, Waiting, Pcs, InLaunch, sandbox
    <2> QED BY <1>8, <2>1, <2>2 DEF Form
  <1>9. CASE Image(t) \/ Container(t) \/ Retry(t)
    <2>1. /\ \E pc \in {"label", "container", "down", "provision"} : Goto(t, pc)
          /\ ui[t].pc \notin Waiting /\ UNCHANGED <<env, job, due, sandbox>> /\ (Event \/ Fine)
      BY <1>9 DEF Image, Container, Retry, Waiting
    <2> QED BY <1>0, <1>1, <2>1, GotoMoves DEF TuiMoves, JobMoves, Waiting, Pcs, InLaunch, sandbox
  <1>10. CASE Label(t) \/ Build(t)
    <2>1. env["STACKS"] \in Values \union {None}
      <3>1. "STACKS" \in Keys
        <4>1. \A s \in Seq(Keys) : Range(s) \subseteq Keys
          BY DEF Range
        <4> QED BY <4>1, ChoicesAssumption DEF Groups
      <3> QED BY <1>0, <3>1 DEF Contents
    <2>2. image' \in Images
      <3>1. ui[t].label \in Values \union {None} /\ ("calm" \in claims[t] /\ ~Torn) \in BOOLEAN
        BY <1>0 DEF Uis
      <3>2. CASE Build(t)
        BY <2>1, <3>1, <3>2 DEF Build, Images
      <3> QED BY <1>0, <1>10, <3>2 DEF Label, sandbox
    <2>3. ui'[t] \in Uis /\ ui' = [ui EXCEPT ![t] = ui'[t]]
      <3>1. ASSUME NEW pc \in Pcs, NEW l \in Values \union {None},
                   ui' = [ui EXCEPT ![t].pc = pc, ![t].label = l]
            PROVE  ui'[t] \in Uis /\ ui' = [ui EXCEPT ![t] = ui'[t]]
        <4>1. ui' = [ui EXCEPT ![t] = [ui[t] EXCEPT !.pc = pc, !.label = l]]
          BY <1>0, <3>1 DEF TypeOK
        <4>2. [ui[t] EXCEPT !.pc = pc, !.label = l] \in Uis
          BY <1>0 DEF Uis
        <4> QED BY <1>0, <4>1, <4>2 DEF TypeOK
      <3> QED BY <1>10, <2>1, <3>1 DEF Label, Build, Desired, Pcs, InLaunch
    <2>4. UNCHANGED <<env, job, due, box>> /\ Fine /\ ui[t].pc \notin Waiting
      BY <1>10 DEF Label, Build, sandbox, Waiting
    <2> QED BY <1>0, <1>1, <2>2, <2>3, <2>4 DEF TuiMoves, JobMoves
  <1>11. CASE Down(t) \/ Up(t)
    <2>1. /\ \E pc \in {"up", "provision"} : Goto(t, pc)
          /\ UNCHANGED <<env, job, due, image>> /\ Fine /\ ui[t].pc \notin Waiting
      BY <1>11 DEF Down, Up, Waiting
    <2>2. NoBox \in [up : BOOLEAN, of : Images]
      BY DEF NoBox, NoImage, Images
    <2>3. box' \in [up : BOOLEAN, of : Images]
      <3>1. [up |-> TRUE, of |-> image] \in [up : BOOLEAN, of : Images]
        BY <1>0
      <3> QED BY <1>0, <1>11, <2>2, <3>1 DEF Down, Up
    <2> QED BY <1>0, <1>1, <2>1, <2>3, GotoMoves DEF TuiMoves, JobMoves, Waiting, Pcs, InLaunch
  <1>12. CASE Provision(t)
    <2>1. /\ ui'[t] \in Uis /\ ui' = [ui EXCEPT ![t] = ui'[t]]
      <3>1. [AtMenu EXCEPT !.pc = IF box.up THEN "session" ELSE "menu"] \in Uis
        BY DEF AtMenu, Uis, Pcs, InMenus
      <3> QED BY <1>0, <1>12, <3>1 DEF Provision, TypeOK
    <2> QED BY <1>0, <1>1, <1>12, <2>1 DEF Provision, TuiMoves, JobMoves, Waiting, sandbox
  <1>13. CASE Leave(t) \/ LaunchEnds(t)
    <2>1. /\ ToMenu(t) /\ UNCHANGED <<env, job, due, sandbox>> /\ ui[t].pc \notin Waiting
          /\ (Event \/ Fine)
      BY <1>13 DEF Leave, LaunchEnds, Waiting
    <2> QED BY <1>0, <1>1, <2>1, MenuMoves DEF TuiMoves, JobMoves, Waiting, sandbox
  <1> QED BY <1>3, <1>4, <1>5, <1>6, <1>7, <1>8, <1>9, <1>10, <1>11, <1>12, <1>13 DEF Menu, Launch

LEMMA ClaimTypes ==
  ASSUME TypeOK, NEW t, Observe(t)
  PROVE  claims' \in [Launchers -> SUBSET Claims]
  <1>1. \A u \in Launchers : claims[u] \subseteq Claims /\ Gained(u) \subseteq Claims
    BY DEF TypeOK, Gained, Claims
  <1> QED BY <1>1 DEF Observe

LEMMA InitInv == Init => Inv
  <1> SUFFICES ASSUME Init PROVE Inv
    OBVIOUS
  <1>1. /\ env \in Contents /\ due = env /\ events = 0 /\ 0 \in 0 .. MaxEvents
        /\ \A p \in Procs : job[p] = NoJob
        /\ job \in [Procs -> Jobs]
    BY DotEnvAssumption, NoJobIsAJob DEF Init, EnvInit
  <1>2. EnvTypeOK
    BY <1>1 DEF EnvTypeOK, Contents, NoJob
  <1>3. Fits
    BY <1>1 DEF Fits, SavedIsKept, CopyFits, TornFits, Apart, Active, Torn, NoJob
  <1>4. /\ image \in Images /\ box \in [up : BOOLEAN, of : Images]
        /\ claims \in [Launchers -> SUBSET Claims]
    BY ChoicesAssumption DEF Init
  <1>5. AtMenu \in Uis
    BY DEF AtMenu, Uis, Pcs, InMenus
  <1>6. TypeOK
    BY <1>2, <1>4, <1>5 DEF Init, TypeOK, Uis, Pcs
  <1>7. Busy
    BY <1>1 DEF Busy, NoJob
  <1> QED BY <1>3, <1>6, <1>7 DEF Inv

LEMMA TuiInv ==
  ASSUME Inv, NEW t \in Procs, TuiMoves(t), Observe(t)
  PROVE  Inv'
  <1>0. TypeOK /\ EnvTypeOK /\ Fits /\ Busy
    BY DEF Inv, TypeOK
  <1>1. Fits' /\ EnvTypeOK'
    BY <1>0, MoveFits DEF TuiMoves
  <1>2. ui' \in [Procs -> Uis] /\ \A q \in Procs \ {t} : ui'[q] = ui[q]
    BY <1>0 DEF TuiMoves, TypeOK, Uis, Pcs
  <1>3. TypeOK'
    BY <1>0, <1>1, <1>2, ClaimTypes DEF TuiMoves, TypeOK, Uis, Pcs
  <1>4. \A q \in Procs \ {t} : job'[q] = job[q]
    BY <1>0, BeginsIs, EndsIs DEF TuiMoves, JobMoves
  <1>5. Busy'
    BY <1>0, <1>2, <1>4 DEF TuiMoves, Busy, Waiting
  <1> QED BY <1>1, <1>3, <1>5 DEF Inv

LEMMA NextInv == Inv /\ [Next]_vars => Inv'
  <1> SUFFICES ASSUME Inv, [Next]_vars PROVE Inv'
    OBVIOUS
  <1>0. TypeOK /\ EnvTypeOK /\ Fits /\ Busy
    BY DEF Inv, TypeOK
  <1>1. ASSUME NEW t \in Procs, Menu(t) \/ Launch(t), Observe(t) PROVE Inv'
    BY <1>1, TuiStep, TuiInv
  <1>2. ASSUME NEW t \in Procs, Writes(t), Observe(t) PROVE Inv'
    <2>1. FileStep(t) /\ UNCHANGED <<ui, image, box>>
      BY <1>2 DEF Writes, sandbox
    <2>2. Fits' /\ EnvTypeOK'
      BY <1>0, <2>1, FileFits
    <2>3. TypeOK'
      BY <1>0, <1>2, <2>1, <2>2, ClaimTypes DEF TypeOK
    <2>4. job[t].pc # "idle" /\ \A q \in Procs \ {t} : job'[q] = job[q]
      BY <1>0, <2>1, PutIs, GoesIs, BeginsIs
        DEF FileStep, Skip, ReadFile, ReadFails, Truncate, OpenFails, WriteOut, WriteFails
    <2>5. Busy'
      BY <1>0, <2>1, <2>4 DEF Busy
    <2> QED BY <2>2, <2>3, <2>5 DEF Inv
  <1>3. ASSUME NEW t \in Procs, Killed(t), Observe(t) PROVE Inv'
    <2>1. /\ Fits' /\ EnvTypeOK' /\ job'[t].pc = "idle"
          /\ \A q \in Procs \ {t} : job'[q] = job[q]
      BY <1>0, <1>3, DeathFits DEF Killed
    <2>2. ui' \in [Procs -> Uis] /\ \A q \in Procs \ {t} : ui'[q] = ui[q]
      BY <1>0, <1>3, MenuMoves DEF Killed, TypeOK, Uis, Pcs
    <2>3. TypeOK'
      BY <1>0, <1>3, <2>1, <2>2, ClaimTypes DEF Killed, TypeOK, Uis, Pcs, sandbox
    <2>4. Busy'
      BY <1>0, <2>1, <2>2 DEF Busy
    <2> QED BY <2>1, <2>3, <2>4 DEF Inv
  <1>4. ASSUME BoxStops, Observe(None) PROVE Inv'
    <2>1. UNCHANGED <<env, due, job, ui, image>> /\ Event
      BY <1>4 DEF BoxStops
    <2>2. events' \in 0 .. MaxEvents
      BY <1>0, <2>1, Counted
    <2>3. EnvTypeOK'
      BY <1>0, <2>1, <2>2 DEF EnvTypeOK
    <2>4. Fits'
      BY <1>0, <2>1 DEF Fits, SavedIsKept, CopyFits, TornFits, Apart, Active, Key, Torn
    <2>5. NoBox \in [up : BOOLEAN, of : Images]
      BY DEF NoBox, NoImage, Images
    <2>6. TypeOK'
      BY <1>0, <1>4, <2>1, <2>3, <2>5, ClaimTypes DEF BoxStops, TypeOK
    <2> QED BY <1>0, <2>1, <2>4, <2>6 DEF Inv, Busy
  <1>5. ASSUME NEW k \in Keys, OwnerEdits(k), Observe(None) PROVE Inv'
    <2>1. PICK v \in Options[k] \union {None} : Edit(k, v) /\ UNCHANGED <<ui, sandbox>>
      BY <1>5 DEF OwnerEdits
    <2>2. v \in Values \union {None}
      BY ChoicesAssumption
    <2>3. Fits' /\ EnvTypeOK'
      BY <1>0, <2>1, <2>2, EditFits
    <2>4. TypeOK'
      BY <1>0, <1>5, <2>1, <2>3, ClaimTypes DEF TypeOK, sandbox
    <2> QED BY <1>0, <2>1, <2>3, <2>4 DEF Inv, Busy, Edit
  <1>6. CASE UNCHANGED vars
    BY <1>0, <1>6 DEF vars, file, Inv, TypeOK, EnvTypeOK, Busy, Fits, SavedIsKept, CopyFits, TornFits,
      Apart, Active, Key, Torn
  <1> QED BY <1>1, <1>2, <1>3, <1>4, <1>5, <1>6 DEF Next

LEMMA Invariance == Spec => []Inv
  <1> QED BY InitInv, NextInv, PTL DEF Spec

\* Every reachable state is well typed: what the file has, what each process has
\* read of it and has still to write, where each TUI is, the image, the container
\* and the claims.
THEOREM TypeCorrect == Spec => []TypeOK
  <1>1. Inv => TypeOK
    BY DEF Inv
  <1> QED BY <1>1, Invariance, PTL

\* A key of .env keeps the value that was written last, unless it is lost in one
\* of the ways that the history names: for any number of TUIs, keys and values.
THEOREM KeysAreKept == Spec => []SavedIsKept
  <1>1. Inv => SavedIsKept
    BY DEF Inv, Fits
  <1> QED BY <1>1, Invariance, PTL

-----------------------------------------------------------------------------
(* A tune and its launch.  What a TUI has still to write of a tune tells    *)
(* what it has written; the other lists leave the tune alone.               *)

OneTune == due["EFFORT"] = Lost \/ due["BATCH"] = Lost \/ due["EFFORT"] = due["BATCH"]

Batch(v) == [key |-> "BATCH", value |-> v]

TodoFits(u) ==
  /\ ui[u].pc \in {"role", "load", "save"} =>
       \A i \in DOMAIN job[u].todo : job[u].todo[i].key \notin Tuning
  /\ ui[u].pc = "tuned" /\ job[u].pc # "failed" =>
       \/ job[u].todo = <<>>
       \/ \E v \in Values \union {None} : job[u].todo \in {<<Batch(v)>>, TuneWrites(v)}

TuneFits(u) ==
  "tune" \in claims[u] =>
    /\ ui[u].pc # "tuned" => OneTune
    /\ ui[u].pc \in InLaunch => due["EFFORT"] \in {ui[u].batch, Lost}
    /\ ui[u].pc = "tuned" /\ job[u].pc # "failed" =>
         /\ job[u].todo = <<>> => OneTune
         /\ \A v \in Values \union {None} : job[u].todo = <<Batch(v)>> => due["EFFORT"] \in {v, Lost}

TuneInv == \A u \in Launchers : TodoFits(u) /\ TuneFits(u)

LEMMA Names == {"LOADOUT", "EFFORT", "BATCH"} \subseteq Keys /\ Tuning \subseteq Keys
  BY ChoicesAssumption DEF Tuning

\* What a claim about the tune tells after a step.
LEMMA Claimed ==
  ASSUME NEW u \in Launchers, NEW t, Observe(t), "tune" \in claims'[u]
  PROVE  /\ "tune" \in claims[u] \/ (t = u /\ ui[u].pc = "tune" /\ ui'[u].pc = "tuned")
         /\ ~TuneLost(u, t)
  BY DEF Observe, Gained

\* Two writes, one write, none.
LEMMA TuneLists ==
  ASSUME NEW v \in Values \union {None}
  PROVE  /\ TuneWrites(v) # <<>> /\ <<Batch(v)>> # <<>>
         /\ Head(TuneWrites(v)) = [key |-> "EFFORT", value |-> v]
         /\ Tail(TuneWrites(v)) = <<Batch(v)>>
         /\ Head(<<Batch(v)>>) = Batch(v) /\ Tail(<<Batch(v)>>) = <<>>
         /\ \A w \in Values \union {None} : /\ <<Batch(w)>> # TuneWrites(v)
                                           /\ <<Batch(w)>> = <<Batch(v)>> => w = v
  <1>1. Tail(TuneWrites(v)) = <<Batch(v)>> /\ Tail(<<Batch(v)>>) = <<>>
    BY DEF TuneWrites, Batch
  <1>2. \A w : <<Batch(w)>> = <<Batch(v)>> => w = v
    <2>1. \A w : <<Batch(w)>>[1].value = w
      BY DEF Batch
    <2> QED BY <2>1
  <1>3. \A w : Len(<<Batch(w)>>) = 1 /\ Len(TuneWrites(v)) = 2
    BY DEF TuneWrites
  <1> QED BY <1>1, <1>2, <1>3 DEF TuneWrites, Batch

\* The steps of the others, and the owner's.
LEMMA OthersKeepTune ==
  ASSUME Inv, TuneInv, NEW t, Observe(t), NEW u \in Launchers, t # u,
         ui'[u] = ui[u], job'[u] = job[u]
  PROVE  TodoFits(u)' /\ TuneFits(u)'
  <1>1. TodoFits(u)'
    BY DEF TuneInv, TodoFits
  <1>2. "tune" \in claims'[u] => /\ "tune" \in claims[u]
                                 /\ \A k \in Tuning : due'[k] = due[k]
    BY Claimed DEF TuneLost, Changed
  <1>3. TuneFits(u)'
    BY <1>2 DEF TuneInv, TuneFits, OneTune, Tuning
  <1> QED BY <1>1, <1>3

\* A step of a list either keeps the list, and every key what it has or loses it,
\* or does the first write of it.
Keeps(p) ==
  /\ job'[p].todo = job[p].todo
  /\ \A k \in Keys : due'[k] \in {due[k], Lost}

Advances(p) ==
  /\ job[p].todo # <<>> /\ job'[p].todo = Tail(job[p].todo)
  /\ due'[Key(p)] \in {Value(p), Lost}
  /\ \A k \in Keys \ {Key(p)} : due'[k] = due[k]

LEMMA WriteMoves ==
  ASSUME EnvTypeOK, NEW p \in Procs, FileStep(p)
  PROVE  job[p].pc \in {"read", "open", "write"} /\ (Keeps(p) \/ Advances(p))
  <1>1. CASE ReadFile(p)
    <2>1. job'[p].todo = job[p].todo
      BY <1>1 DEF ReadFile, Put, EnvTypeOK
    <2> QED BY <1>1, <2>1 DEF ReadFile, Keeps, Loses
  <1>2. ASSUME NEW at, Goes(p, at) PROVE job'[p].todo = job[p].todo
    BY <1>2 DEF Goes, Put, EnvTypeOK
  <1>3. CASE ReadFails(p)
    <2>1. CASE Value(p) = None
      BY <1>2, <1>3, <2>1 DEF ReadFails, Keeps
    <2>2. CASE Value(p) # None
      <3>1. job'[p].todo = job[p].todo
        BY <1>3, <2>2 DEF ReadFails, Put, EnvTypeOK
      <3> QED BY <1>3, <2>2, <3>1 DEF ReadFails, Keeps, Loses
    <2> QED BY <2>1, <2>2
  <1>4. CASE Truncate(p) \/ OpenFails(p) \/ WriteFails(p)
    BY <1>2, <1>4 DEF Truncate, OpenFails, WriteFails, Keeps, Loses
  <1>5. CASE Skip(p) \/ WriteOut(p)
    <2>1. /\ job[p].todo # <<>> /\ Begins(p, Tail(job[p].todo)) /\ Knows(Key(p), Outcome(p))
          /\ job[p].pc \in {"read", "write"}
      BY <1>5 DEF Skip, WriteOut, EnvTypeOK
    <2>2. Key(p) \in Keys
      BY <2>1, Shape
    <2>3. due'[Key(p)] = Outcome(p) /\ \A k \in Keys \ {Key(p)} : due'[k] = due[k]
      BY <2>1, <2>2 DEF Knows, EnvTypeOK
    <2>4. job'[p].todo = Tail(job[p].todo)
      BY <2>1, BeginsIs
    <2> QED BY <2>1, <2>3, <2>4 DEF Advances, Outcome
  <1> QED BY <1>1, <1>3, <1>4, <1>5 DEF FileStep

LEMMA OwnWritesKeepTune ==
  ASSUME Inv, TuneInv, NEW u \in Launchers, FileStep(u), ui' = ui, Observe(u)
  PROVE  TodoFits(u)' /\ TuneFits(u)'
  <1>0. /\ EnvTypeOK /\ u \in Procs /\ TodoFits(u) /\ TuneFits(u)
        /\ "EFFORT" \in Keys /\ "BATCH" \in Keys /\ "EFFORT" \in Tuning /\ "BATCH" \in Tuning
    BY ChoicesAssumption, Names DEF Inv, TypeOK, TuneInv, Tuning
  <1>1. /\ job[u].pc \in {"read", "open", "write"} /\ (Keeps(u) \/ Advances(u))
        /\ ui[u].pc \in Waiting
    BY <1>0, WriteMoves DEF Inv, Busy, Waiting
  <1>2. ui[u].pc \notin InLaunch \/ ui[u].pc \in {"load", "save"}
    BY <1>1 DEF Waiting, InLaunch
  <1>3. "tune" \in claims'[u] => "tune" \in claims[u]
    BY Claimed
  <1>4. CASE Keeps(u)
    <2>1. TodoFits(u)'
      BY <1>0, <1>1, <1>4 DEF TodoFits, Keeps
    <2>2. OneTune => OneTune'
      BY <1>0, <1>4 DEF OneTune, Keeps
    <2>3. TuneFits(u)'
      BY <1>0, <1>1, <1>3, <1>4, <2>2 DEF TuneFits, Keeps
    <2> QED BY <2>1, <2>3
  <1>5. CASE Advances(u) /\ ui[u].pc # "tuned"
    <2>1. /\ ui[u].pc \in {"role", "load", "save"} /\ job[u].todo \in Seq(Write)
          /\ job[u].todo # <<>>
      BY <1>0, <1>1, <1>5, Shape DEF Waiting, Advances
    <2>2. /\ Key(u) \notin Tuning
          /\ \A i \in DOMAIN Tail(job[u].todo) : Tail(job[u].todo)[i].key \notin Tuning
      <3>1. \A i \in DOMAIN job[u].todo : job[u].todo[i].key \notin Tuning
        BY <1>0, <2>1 DEF TodoFits
      <3>2. 1 \in DOMAIN job[u].todo /\ Head(job[u].todo) = job[u].todo[1]
        BY <2>1
      <3>3. \A i \in DOMAIN Tail(job[u].todo) :
              i + 1 \in DOMAIN job[u].todo /\ Tail(job[u].todo)[i] = job[u].todo[i + 1]
        BY <2>1
      <3> QED BY <3>1, <3>2, <3>3 DEF Key
    <2>3. due'["EFFORT"] = due["EFFORT"] /\ due'["BATCH"] = due["BATCH"]
      BY <1>0, <1>5, <2>2 DEF Advances
    <2>4. TodoFits(u)'
      BY <1>5, <2>1, <2>2 DEF TodoFits, Advances
    <2>5. TuneFits(u)'
      BY <1>0, <1>3, <1>5, <2>3 DEF TuneFits, OneTune
    <2> QED BY <2>4, <2>5
  <1>6. CASE Advances(u) /\ ui[u].pc = "tuned"
    <2>1. PICK v \in Values \union {None} : job[u].todo \in {<<Batch(v)>>, TuneWrites(v)}
      BY <1>0, <1>1, <1>6 DEF TodoFits, Advances
    <2>2. CASE job[u].todo = TuneWrites(v)
      <3>1. /\ Key(u) = "EFFORT" /\ Value(u) = v /\ job'[u].todo = <<Batch(v)>>
            /\ <<Batch(v)>> # <<>>
        BY <1>6, <2>2, TuneLists DEF Key, Value, Advances
      <3>2. due'["EFFORT"] \in {v, Lost}
        BY <1>6, <3>1 DEF Advances
      <3>3. \A w \in Values \union {None} : <<Batch(w)>> = <<Batch(v)>> => w = v
        BY TuneLists
      <3>4. TodoFits(u)'
        BY <1>6, <3>1 DEF TodoFits
      <3>5. TuneFits(u)'
        BY <1>6, <3>1, <3>2, <3>3 DEF TuneFits, InLaunch
      <3> QED BY <3>4, <3>5
    <2>3. CASE job[u].todo = <<Batch(v)>>
      <3>1. Key(u) = "BATCH" /\ Value(u) = v /\ job'[u].todo = <<>>
        BY <1>6, <2>3, TuneLists DEF Key, Value, Advances, Batch
      <3>2. "tune" \in claims[u] => due["EFFORT"] \in {v, Lost}
        BY <1>0, <1>1, <1>6, <2>3 DEF TuneFits
      <3>3. due'["BATCH"] \in {v, Lost} /\ due'["EFFORT"] = due["EFFORT"]
        BY <1>0, <1>6, <3>1 DEF Advances
      <3>4. \A w : <<Batch(w)>> # <<>>
        OBVIOUS
      <3>5. TodoFits(u)'
        BY <1>6, <3>1 DEF TodoFits
      <3>6. TuneFits(u)'
        BY <1>3, <1>6, <3>1, <3>2, <3>3, <3>4 DEF TuneFits, OneTune, InLaunch
      <3> QED BY <3>5, <3>6
    <2> QED BY <2>1, <2>2, <2>3
  <1> QED BY <1>1, <1>4, <1>5, <1>6

\* A step of the TUI itself.  Outside the writes nothing of the file changes, so
\* all that matters is from where to where the TUI goes.
LEMMA OwnMovesKeepTune ==
  ASSUME Inv, TuneInv, NEW u \in Launchers, Menu(u) \/ Launch(u), Observe(u)
  PROVE  TodoFits(u)' /\ TuneFits(u)'
  <1>0. /\ TypeOK /\ EnvTypeOK /\ u \in Procs /\ TodoFits(u) /\ TuneFits(u) /\ due' = due
        /\ OneTune' = OneTune
    <2>1. u \in Procs
      BY ChoicesAssumption
    <2>2. due' = due
      BY <2>1, TuiStep DEF TuiMoves
    <2> QED BY <2>1, <2>2 DEF Inv, TypeOK, TuneInv, OneTune
  <1>1. ASSUME ui[u].pc # "tuned", ui'[u].pc \notin Waiting, ui[u].pc \in InLaunch \/ ui'[u].pc \notin InLaunch,
               ui'[u].pc \in InLaunch => ui'[u].batch = ui[u].batch
        PROVE  TodoFits(u)' /\ TuneFits(u)'
    <2>1. TodoFits(u)'
      BY <1>1 DEF TodoFits, Waiting
    <2>2. "tune" \in claims'[u] => "tune" \in claims[u]
      BY <1>1, Claimed DEF Waiting
    <2>3. TuneFits(u)'
      BY <1>0, <1>1, <2>2 DEF TuneFits, Waiting
    <2> QED BY <2>1, <2>3
  <1>2. ASSUME NEW pc \in Pcs, Goto(u, pc) PROVE ui'[u].pc = pc /\ ui'[u].batch = ui[u].batch
    BY <1>0, <1>2 DEF Goto, TypeOK
  <1>3. ToMenu(u) => ui'[u].pc = "menu"
    BY <1>0, MenuMoves
  <1>4. ASSUME ui[u].pc \in {"menu", "config", "form"}, ui'[u].pc \in {"role", "load", "save"},
               ui'[u].batch = ui[u].batch, ui[u].pc = "menu" <=> ui'[u].pc = "role",
               \A i \in DOMAIN job'[u].todo : job'[u].todo[i].key \notin Tuning
        PROVE  TodoFits(u)' /\ TuneFits(u)'
    <2>1. TodoFits(u)'
      BY <1>4 DEF TodoFits
    <2>2. "tune" \in claims'[u] => "tune" \in claims[u]
      BY <1>4, Claimed
    <2>3. TuneFits(u)'
      BY <1>0, <1>4, <2>2 DEF TuneFits, InLaunch
    <2> QED BY <2>1, <2>3
  <1>5. ASSUME NEW groups \in {Bare, Asked}, NEW c, Begins(u, Saves(groups, c))
        PROVE  \A i \in DOMAIN job'[u].todo : job'[u].todo[i].key \notin Tuning
    <2>1. job'[u].todo = Saves(groups, c)
      BY <1>0, <1>5, BeginsIs
    <2>2. \A i \in DOMAIN groups : groups[i] \in Groups
      BY DEF Groups, Range
    <2>3. \A g \in Groups : g \notin Tuning
      BY ChoicesAssumption DEF Tuning
    <2> QED BY <2>1, <2>2, <2>3 DEF Saves
  <1>6. CASE PickRole(u)
    <2>1. CASE Goto(u, "ask")
      <3>1. ui'[u].pc = "ask" /\ ui'[u].batch = ui[u].batch
        BY <1>2, <2>1 DEF Pcs, InMenus
      <3> QED BY <1>1, <1>6, <3>1 DEF PickRole, Waiting, InLaunch
    <2>2. ASSUME NEW v \in Options["LOADOUT"], Goto(u, "role"),
                 Begins(u, <<[key |-> "LOADOUT", value |-> v]>>)
          PROVE  TodoFits(u)' /\ TuneFits(u)'
      <3>1. ui'[u].pc = "role" /\ ui'[u].batch = ui[u].batch
        BY <1>2, <2>2 DEF Pcs, InMenus
      <3>2. job'[u].todo = <<[key |-> "LOADOUT", value |-> v]>>
        BY <1>0, <2>2, BeginsIs
      <3>3. \A i \in DOMAIN job'[u].todo : job'[u].todo[i].key = "LOADOUT"
        BY <3>2
      <3> QED BY <1>4, <1>6, <3>1, <3>3 DEF PickRole, Tuning
    <2> QED BY <1>6, <2>1, <2>2 DEF PickRole
  <1>7. CASE RoleWritten(u) \/ Loaded(u) \/ Saved(u)
    <2>1. /\ ui[u].pc \in {"role", "load", "save"}
          /\ ui'[u].pc \in {"tune", "image", "form", "menu"}
          /\ ui'[u].pc \in {"image", "form"} => ui'[u].batch = ui[u].batch /\ ui[u].pc \in {"load", "save"}
      BY <1>2, <1>3, <1>7 DEF RoleWritten, Loaded, Saved, Wrote, Pcs, InMenus, InLaunch
    <2> QED BY <1>1, <2>1 DEF Waiting, InLaunch
  <1>8. CASE Tune(u)
    <2>1. PICK v \in Options["EFFORT"] \union {None} : Goto(u, "tuned") /\ Begins(u, TuneWrites(v))
      BY <1>8 DEF Tune
    <2>2. v \in Values \union {None}
      BY ChoicesAssumption
    <2>3. ui'[u].pc = "tuned" /\ job'[u].todo = TuneWrites(v)
      BY <1>0, <1>2, <2>1, BeginsIs DEF Pcs, InMenus
    <2>4. TodoFits(u)'
      BY <2>2, <2>3 DEF TodoFits
    <2>5. TuneFits(u)'
      BY <2>2, <2>3, TuneLists DEF TuneFits, InLaunch
    <2> QED BY <2>4, <2>5
  <1>9. CASE TuneWritten(u)
    <2>1. CASE Done(u) /\ Goto(u, "ask")
      <3>1. ui[u].pc = "tuned" /\ ui'[u].pc = "ask" /\ job[u].todo = <<>> /\ job[u].pc = "read"
        BY <1>2, <1>9, <2>1 DEF TuneWritten, Done, Pcs, InMenus
      <3>2. "tune" \in claims'[u] => "tune" \in claims[u]
        BY <3>1, Claimed
      <3>3. TodoFits(u)' /\ TuneFits(u)'
        BY <1>0, <3>1, <3>2 DEF TodoFits, TuneFits, InLaunch
      <3> QED BY <3>3
    <2>2. CASE ToMenu(u)
      <3>1. ui[u].pc = "tuned" /\ ui'[u].pc = "menu"
        BY <1>3, <1>9, <2>2 DEF TuneWritten
      <3>2. "tune" \notin claims'[u]
        BY <3>1, Claimed DEF TuneLost
      <3> QED BY <3>1, <3>2 DEF TodoFits, TuneFits
    <2> QED BY <1>9, <2>1, <2>2 DEF TuneWritten, Wrote
  <1>10. ASSUME NEW agreed \in BOOLEAN, StartLaunch(u, agreed), ui[u].pc \in {"ask", "warn"}
         PROVE  TodoFits(u)' /\ TuneFits(u)'
    <2>1. ui'[u].pc = "config" /\ ui'[u].batch = env["BATCH"]
      BY <1>0, <1>10 DEF StartLaunch, AtMenu, TypeOK
    <2>2. "tune" \in claims'[u] => "tune" \in claims[u] /\ ~Torn /\ due["BATCH"] # Lost
      BY <1>10, <2>1, Claimed DEF TuneLost
    <2>3. ~Torn => due["BATCH"] \in {env["BATCH"], Lost}
      BY Names DEF Inv, Fits, SavedIsKept
    <2>4. TodoFits(u)'
      BY <2>1 DEF TodoFits
    <2>5. TuneFits(u)'
      BY <1>0, <1>10, <2>1, <2>2, <2>3 DEF TuneFits, OneTune
    <2> QED BY <2>4, <2>5
  <1>11. CASE MaybeWarnRestart(u) \/ Answer(u)
    <2>1. CASE Goto(u, "warn") \/ ToMenu(u)
      <3>1. ui'[u].pc \in {"warn", "menu"}
        BY <1>2, <1>3, <2>1 DEF Pcs, InMenus
      <3> QED BY <1>1, <1>11, <3>1 DEF MaybeWarnRestart, Answer, Waiting, InLaunch
    <2> QED BY <1>10, <1>11, <2>1 DEF MaybeWarnRestart, Answer
  <1>12. CASE Config(u)
    <2>1. CASE Goto(u, "image")
      <3>1. ui'[u].pc = "image" /\ ui'[u].batch = ui[u].batch
        BY <1>2, <2>1 DEF Pcs, InLaunch
      <3> QED BY <1>1, <1>12, <3>1 DEF Config, Waiting, InLaunch
    <2>2. ASSUME NEW c, Goto(u, "load"), Begins(u, Saves(Bare, c))
          PROVE  TodoFits(u)' /\ TuneFits(u)'
      <3>1. ui'[u].pc = "load" /\ ui'[u].batch = ui[u].batch
        BY <1>2, <2>2 DEF Pcs, InLaunch
      <3> QED BY <1>4, <1>5, <1>12, <2>2, <3>1 DEF Config
    <2> QED BY <1>12, <2>1, <2>2 DEF Config
  <1>13. CASE Form(u)
    <2>1. CASE ToMenu(u)
      BY <1>1, <1>3, <1>13, <2>1 DEF Form, Waiting, InLaunch
    <2>2. ASSUME NEW c, Goto(u, "save"), Begins(u, Saves(Asked, c))
          PROVE  TodoFits(u)' /\ TuneFits(u)'
      <3>1. ui'[u].pc = "save" /\ ui'[u].batch = ui[u].batch
        BY <1>2, <2>2 DEF Pcs, InLaunch
      <3> QED BY <1>4, <1>5, <1>13, <2>2, <3>1 DEF Form
    <2> QED BY <1>13, <2>1, <2>2 DEF Form
  <1>14. CASE Image(u) \/ Container(u) \/ Retry(u) \/ Down(u) \/ Up(u)
    <2>1. /\ \E pc \in {"label", "container", "down", "provision", "up"} : Goto(u, pc)
          /\ ui[u].pc \in InLaunch \ Waiting
      BY <1>14 DEF Image, Container, Retry, Down, Up, Waiting, InLaunch
    <2>2. ui'[u].pc \in InLaunch \ Waiting /\ ui'[u].batch = ui[u].batch
      BY <1>2, <2>1 DEF Pcs, InLaunch, Waiting
    <2> QED BY <1>1, <2>1, <2>2 DEF Waiting
  <1>15. CASE Label(u) \/ Build(u)
    <2>1. /\ ui[u].pc \in InLaunch \ Waiting /\ ui'[u].pc \in InLaunch \ Waiting
          /\ ui'[u].batch = ui[u].batch
      BY <1>0, <1>15 DEF Label, Build, TypeOK, InLaunch, Waiting
    <2> QED BY <1>1, <2>1 DEF Waiting
  <1>16. CASE Provision(u)
    <2>1. ui[u].pc = "provision" /\ ui'[u].pc \in {"session", "menu"}
      BY <1>0, <1>16 DEF Provision, AtMenu, TypeOK
    <2> QED BY <1>1, <2>1 DEF Waiting, InLaunch
  <1>17. CASE Leave(u) \/ LaunchEnds(u)
    BY <1>1, <1>3, <1>17 DEF Leave, LaunchEnds, Waiting, InLaunch
  <1> QED BY <1>6, <1>7, <1>8, <1>9, <1>11, <1>12, <1>13, <1>14, <1>15, <1>16, <1>17 DEF Menu, Launch

LEMMA DeathKeepsTune ==
  ASSUME Inv, TuneInv, NEW u \in Launchers, Killed(u), Observe(u)
  PROVE  TodoFits(u)' /\ TuneFits(u)'
  <1>0. TypeOK /\ EnvTypeOK /\ u \in Procs /\ TuneFits(u)
    BY ChoicesAssumption DEF Inv, TypeOK, TuneInv
  <1>1. ui'[u].pc = "menu"
    BY <1>0, MenuMoves DEF Killed
  <1>2. \A k \in Keys : due'[k] \in {due[k], Lost}
    BY DEF Killed, Dies, Loses
  <1>3. "tune" \in claims'[u] => "tune" \in claims[u] /\ ui[u].pc # "tuned"
    BY <1>1, Claimed DEF TuneLost
  <1>4. TodoFits(u)'
    BY <1>1 DEF TodoFits
  <1>5. TuneFits(u)'
    BY <1>0, <1>1, <1>2, <1>3, Names DEF TuneFits, OneTune, InLaunch
  <1> QED BY <1>4, <1>5

LEMMA TuneInit == Init => TuneInv
  <1> SUFFICES ASSUME Init, NEW u \in Launchers PROVE TodoFits(u) /\ TuneFits(u)
    BY DEF TuneInv
  <1>1. ui[u].pc = "menu" /\ claims[u] = {}
    BY ChoicesAssumption DEF Init, AtMenu
  <1> QED BY <1>1 DEF TodoFits, TuneFits

LEMMA TuneNext == Inv /\ TuneInv /\ [Next]_vars => TuneInv'
  <1> SUFFICES ASSUME Inv, TuneInv, [Next]_vars, NEW u \in Launchers
               PROVE  TodoFits(u)' /\ TuneFits(u)'
    BY DEF TuneInv
  <1>0. TypeOK /\ EnvTypeOK /\ Fits /\ u \in Procs
    BY ChoicesAssumption DEF Inv, TypeOK
  <1>1. ASSUME NEW t \in Procs, Menu(t) \/ Launch(t), Observe(t)
        PROVE  TodoFits(u)' /\ TuneFits(u)'
    <2>1. CASE t = u
      BY <1>1, <2>1, OwnMovesKeepTune
    <2>2. CASE t # u
      <3>1. TuiMoves(t)
        BY <1>1, TuiStep
      <3>2. ui'[u] = ui[u] /\ job'[u] = job[u]
        BY <1>0, <2>2, <3>1, BeginsIs, EndsIs DEF TuiMoves, JobMoves, TypeOK
      <3> QED BY <1>1, <2>2, <3>2, OthersKeepTune
    <2> QED BY <2>1, <2>2
  <1>2. ASSUME NEW t \in Procs, Writes(t), Observe(t)
        PROVE  TodoFits(u)' /\ TuneFits(u)'
    <2>0. FileStep(t) /\ ui' = ui
      BY <1>2 DEF Writes
    <2>1. CASE t = u
      BY <1>2, <2>0, <2>1, OwnWritesKeepTune
    <2>2. CASE t # u
      <3>1. \A q \in Procs \ {t} : job'[q] = job[q]
        BY <1>0, <2>0, PutIs, GoesIs, BeginsIs
          DEF FileStep, Skip, ReadFile, ReadFails, Truncate, OpenFails, WriteOut, WriteFails
      <3> QED BY <1>0, <1>2, <2>0, <2>2, <3>1, OthersKeepTune
    <2> QED BY <2>1, <2>2
  <1>3. ASSUME NEW t \in Procs, Killed(t), Observe(t)
        PROVE  TodoFits(u)' /\ TuneFits(u)'
    <2>1. CASE t = u
      BY <1>3, <2>1, DeathKeepsTune
    <2>2. CASE t # u
      <3>1. job'[u] = job[u] /\ ui'[u] = ui[u]
        BY <1>0, <1>3, <2>2, DeathFits, MenuMoves DEF Killed, TypeOK
      <3> QED BY <1>3, <2>2, <3>1, OthersKeepTune
    <2> QED BY <2>1, <2>2
  <1>4. ASSUME BoxStops \/ \E k \in Keys : OwnerEdits(k), Observe(None)
        PROVE  TodoFits(u)' /\ TuneFits(u)'
    <2>1. UNCHANGED <<ui, job>>
      BY <1>4 DEF BoxStops, OwnerEdits, Edit
    <2> QED BY <1>4, <2>1, OthersKeepTune, ChoicesAssumption
  <1>5. CASE UNCHANGED vars
    BY <1>5 DEF vars, file, TuneInv, TodoFits, TuneFits, OneTune
  <1> QED BY <1>1, <1>2, <1>3, <1>4, <1>5 DEF Next

\* A launch runs with the effort and the batch of one tune, for any processes,
\* keys, values and number of events.
THEOREM OneTuneAtATime == Spec => LaunchIsOfOneTune
  <1>1. Inv /\ TuneInv /\ [Next]_vars =>
          [\A t \in Launchers :
             ui[t].pc = "provision" /\ Provision(t) /\ "tune" \in claims[t]
               /\ due["EFFORT"] # Lost /\ ~Torn
             => env["EFFORT"] = ui[t].batch]_vars
    <2> SUFFICES ASSUME Inv, TuneInv, NEW t \in Launchers, ui[t].pc = "provision",
                        "tune" \in claims[t], due["EFFORT"] # Lost, ~Torn
                 PROVE  env["EFFORT"] = ui[t].batch
      OBVIOUS
    <2>1. due["EFFORT"] = ui[t].batch
      BY DEF TuneInv, TuneFits, InLaunch
    <2>2. due["EFFORT"] = env["EFFORT"]
      BY Names DEF Inv, Fits, SavedIsKept
    <2> QED BY <2>1, <2>2
  <1> QED BY <1>1, InitInv, NextInv, TuneInit, TuneNext, PTL DEF Spec, LaunchIsOfOneTune

-----------------------------------------------------------------------------
(* The container.  While its claims stand, a launch goes from one fact about *)
(* the label to the next: the label it is going to write, that of the image, *)
(* that of the container; and a launch that the user was not asked about     *)
(* finds no container that runs where it could replace one.                  *)

Stacks == due["STACKS"]

LaunchersOnly ==
  \A t \in Procs : t \in Launchers \/ ui[t].pc \in InMenus \union {"config", "load", "form", "save", "image"}

TrueImages ==
  /\ image.true => image.label = image.stacks
  /\ box.of.true => box.of.label = box.of.stacks

CalmFits(u) ==
  "calm" \in claims[u] =>
    /\ Stacks # Lost
    /\ ui[u].pc = "build" => ui[u].label = Stacks
    /\ ui[u].pc = "container" => (box.up /\ box.of.label = Stacks) \/ image.label = Stacks
    /\ ui[u].pc \in {"down", "up"} => image.label = Stacks
    /\ ui[u].pc = "provision" => box.up /\ box.of.label = Stacks

ForeseenFits(u) ==
  "foreseen" \in claims[u] /\ ~ui[u].agreed =>
    /\ Stacks # Lost
    /\ ui[u].pc \in {"config", "load", "form", "save", "image", "container"} /\ box.up => box.of.label = Stacks
    /\ ui[u].pc \in {"label", "build", "down", "up"} => ~box.up

BoxInv == LaunchersOnly /\ TrueImages /\ \A u \in Launchers : CalmFits(u) /\ ForeseenFits(u)

\* What the claims about the container tell after a step.
LEMMA BoxClaimed ==
  ASSUME NEW u \in Launchers, NEW t, Observe(t), NEW c \in {"foreseen", "calm"}, c \in claims'[u]
  PROVE  /\ ~BoxLost(u, t) /\ ui'[u].pc \notin {"menu", "session"}
         /\ \/ c \in claims[u]
            \/ c = "foreseen" /\ ui[u].pc # "config" /\ ui'[u].pc = "config" /\ t = u
            \/ c = "calm" /\ ui[u].pc = "image" /\ ui'[u].pc # "image" /\ t = u
  BY DEF Observe, Gained

LEMMA StacksIsAKey == "STACKS" \in Keys
  <1>1. \A s \in Seq(Keys) : Range(s) \subseteq Keys
    BY DEF Range
  <1> QED BY <1>1, ChoicesAssumption DEF Groups

\* Where the TUI stays, and with it or against it the container does.
LEMMA StillFits ==
  ASSUME BoxInv, NEW u \in Launchers, NEW t, Observe(t), ui'[u] = ui[u],
         t # u \/ UNCHANGED <<image, box>>
  PROVE  CalmFits(u)' /\ ForeseenFits(u)'
  <1>1. ASSUME NEW c \in {"foreseen", "calm"}, c \in claims'[u]
        PROVE  /\ c \in claims[u] /\ due'["STACKS"] = due["STACKS"] /\ due["STACKS"] # Lost
               /\ UNCHANGED <<image, box>>
    BY <1>1, BoxClaimed DEF BoxLost, Changed, sandbox
  <1>2. CalmFits(u)'
    BY <1>1 DEF BoxInv, CalmFits, Stacks
  <1>3. ForeseenFits(u)'
    BY <1>1 DEF BoxInv, ForeseenFits, Stacks
  <1> QED BY <1>2, <1>3

LEMMA MovesFit ==
  ASSUME Inv, BoxInv, NEW u \in Launchers, Menu(u) \/ Launch(u), Observe(u)
  PROVE  CalmFits(u)' /\ ForeseenFits(u)'
  <1>0. /\ TypeOK /\ u \in Procs /\ CalmFits(u) /\ ForeseenFits(u) /\ SavedIsKept
        /\ due' = due /\ Stacks' = Stacks
    <2>1. u \in Procs
      BY ChoicesAssumption
    <2>2. due' = due
      BY <2>1, TuiStep DEF TuiMoves
    <2> QED BY <2>1, <2>2 DEF Inv, Fits, BoxInv, Stacks
  <1>1. ASSUME NEW c \in {"foreseen", "calm"}, c \in claims'[u]
        PROVE  /\ Stacks # Lost
               /\ ui[u].pc \in Reads /\ ui'[u] # ui[u] => Desired = Stacks
               /\ ui'[u].pc = "down" /\ ui[u].pc # "down" => Stale
               /\ ui'[u].pc \notin {"menu", "session"}
               /\ \/ c \in claims[u]
                  \/ c = "foreseen" /\ ui[u].pc # "config" /\ ui'[u].pc = "config"
                  \/ c = "calm" /\ ui[u].pc = "image"
    <2>1. ~BoxLost(u, u) /\ Stacks # Lost
      BY <1>1, BoxClaimed DEF BoxLost, Stacks
    <2>2. ~Torn => Desired = Stacks
      BY <1>0, <2>1, StacksIsAKey DEF SavedIsKept, Desired, Stacks
    <2> QED BY <1>1, <2>1, <2>2, BoxClaimed DEF BoxLost
  <1>2. ASSUME NEW pc \in Pcs, Goto(u, pc) PROVE /\ ui'[u].pc = pc /\ ui'[u].agreed = ui[u].agreed
                                               /\ ui'[u].label = ui[u].label
    BY <1>0, <1>2 DEF Goto, TypeOK
  <1>3. ToMenu(u) => ui'[u].pc = "menu"
    BY <1>0, MenuMoves
  <1>4. CASE ui'[u].pc \in InMenus \union {"session"}
    BY <1>0, <1>1, <1>4 DEF CalmFits, ForeseenFits, InMenus
  <1>5. ASSUME UNCHANGED box, ui'[u].agreed = ui[u].agreed,
               ui[u].pc \in {"config", "load", "form", "save"},
               ui'[u].pc \in {"load", "form", "save", "image"}
        PROVE  CalmFits(u)' /\ ForeseenFits(u)'
    <2>1. "calm" \in claims'[u] => "calm" \in claims[u] /\ Stacks # Lost
      BY <1>1, <1>5
    <2>2. "foreseen" \in claims'[u] => "foreseen" \in claims[u] /\ Stacks # Lost
      BY <1>1, <1>5
    <2> QED BY <1>0, <1>5, <2>1, <2>2 DEF CalmFits, ForeseenFits
  <1>6. CASE MaybeWarnRestart(u) \/ Answer(u)
    <2>1. ASSUME NEW agreed \in BOOLEAN, StartLaunch(u, agreed)
          PROVE  ui'[u].pc = "config" /\ ui'[u].agreed = agreed
      BY <1>0, <2>1 DEF StartLaunch, AtMenu, TypeOK
    <2>2. CASE Goto(u, "warn") \/ ToMenu(u)
      BY <1>2, <1>3, <1>4, <2>2 DEF Pcs, InMenus
    <2>3. CASE StartLaunch(u, TRUE)
      <3>1. ui'[u].pc = "config" /\ ui'[u].agreed = TRUE
        BY <2>1, <2>3
      <3> QED BY <1>0, <1>1, <3>1 DEF CalmFits, ForeseenFits
    <2>4. CASE MaybeWarnRestart(u) /\ ~WillRecreate /\ StartLaunch(u, FALSE)
      <3>1. ui'[u].pc = "config" /\ ui[u].pc = "ask" /\ UNCHANGED box /\ ui'[u] # ui[u]
        BY <2>1, <2>4 DEF MaybeWarnRestart, sandbox
      <3>2. "foreseen" \in claims'[u] => Stacks # Lost /\ (box.up => box.of.label = Stacks)
        BY <1>1, <2>4, <3>1 DEF WillRecreate, Reads
      <3> QED BY <1>0, <1>1, <3>1, <3>2 DEF CalmFits, ForeseenFits
    <2> QED BY <1>6, <2>2, <2>3, <2>4 DEF MaybeWarnRestart, Answer
  <1>7. CASE PickRole(u) \/ RoleWritten(u) \/ Tune(u) \/ TuneWritten(u)
    BY <1>2, <1>3, <1>4, <1>7 DEF PickRole, RoleWritten, Tune, TuneWritten, Wrote, Pcs, InMenus
  <1>8. CASE Config(u) \/ Loaded(u) \/ Form(u) \/ Saved(u)
    <2>1. CASE ToMenu(u)
      BY <1>3, <1>4, <2>1 DEF InMenus
    <2>2. CASE ~ToMenu(u)
      <3>1. \E pc \in {"load", "form", "save", "image"} : Goto(u, pc)
        BY <1>8, <2>2 DEF Config, Loaded, Form, Saved, Wrote
      <3>2. ui'[u].pc \in {"load", "form", "save", "image"} /\ ui'[u].agreed = ui[u].agreed
        BY <1>2, <3>1 DEF Pcs, InLaunch
      <3> QED BY <1>5, <1>8, <3>2 DEF Config, Loaded, Form, Saved, sandbox
    <2> QED BY <2>1, <2>2
  <1>9. CASE Image(u)
    <2>1. /\ ui[u].pc = "image" /\ UNCHANGED <<image, box>>
          /\ ui'[u].pc = (IF Stale THEN "label" ELSE "container") /\ ui'[u].agreed = ui[u].agreed
      BY <1>2, <1>9 DEF Image, sandbox, Pcs, InLaunch
    <2>2. ui'[u] # ui[u]
      BY <2>1
    <2> QED BY <1>0, <1>1, <2>1, <2>2 DEF CalmFits, ForeseenFits, Stale, Reads
  <1>10. CASE Label(u)
    <2>1. /\ ui[u].pc = "label" /\ UNCHANGED <<image, box>> /\ ui'[u].pc = "build"
          /\ ui'[u].label = Desired /\ ui'[u].agreed = ui[u].agreed
      BY <1>0, <1>10 DEF Label, sandbox, TypeOK
    <2>2. ui'[u] # ui[u]
      BY <2>1
    <2> QED BY <1>0, <1>1, <2>1, <2>2 DEF CalmFits, ForeseenFits, Reads
  <1>11. CASE Build(u)
    <2>1. /\ ui[u].pc = "build" /\ UNCHANGED box /\ ui'[u].pc = "container"
          /\ image'.label = ui[u].label /\ ui'[u].agreed = ui[u].agreed
      BY <1>0, <1>11 DEF Build, TypeOK
    <2> QED BY <1>0, <1>1, <2>1 DEF CalmFits, ForeseenFits
  <1>12. CASE Container(u)
    <2>1. /\ ui[u].pc = "container" /\ UNCHANGED <<image, box>>
          /\ ui'[u].pc \in {"down", "provision"} /\ ui'[u].agreed = ui[u].agreed
          /\ ui'[u].pc = "provision" => ~Stale
      BY <1>2, <1>12 DEF Container, sandbox, Pcs, InLaunch
    <2>2. ui'[u] # ui[u]
      BY <2>1
    <2> QED BY <1>0, <1>1, <2>1, <2>2 DEF CalmFits, ForeseenFits, Stale, Reads
  <1>13. CASE Down(u)
    <2>1. /\ ui[u].pc = "down" /\ UNCHANGED image /\ ui'[u].pc = "up"
          /\ ui'[u].agreed = ui[u].agreed /\ (~box.up => ~box'.up)
      BY <1>2, <1>13 DEF Down, NoBox, Pcs, InLaunch
    <2> QED BY <1>0, <1>1, <2>1 DEF CalmFits, ForeseenFits
  <1>14. CASE Up(u)
    <2>1. /\ ui[u].pc = "up" /\ box'.up /\ box'.of.label = image.label
          /\ ui'[u].pc = "provision" /\ ui'[u].agreed = ui[u].agreed
      BY <1>2, <1>14 DEF Up, Pcs, InLaunch
    <2> QED BY <1>0, <1>1, <2>1 DEF CalmFits, ForeseenFits
  <1>15. CASE Retry(u)
    <2>1. /\ ui[u].pc = "up" /\ UNCHANGED <<image, box>>
          /\ ui'[u].pc = "down" /\ ui'[u].agreed = ui[u].agreed
      BY <1>2, <1>15 DEF Retry, sandbox, Pcs, InLaunch
    <2> QED BY <1>0, <1>1, <2>1 DEF CalmFits, ForeseenFits
  <1>16. CASE Provision(u) \/ Leave(u) \/ LaunchEnds(u)
    <2>1. ui'[u].pc \in {"session", "menu"}
      BY <1>0, <1>3, <1>16 DEF Provision, Leave, LaunchEnds, AtMenu, TypeOK
    <2> QED BY <1>4, <2>1 DEF InMenus
  <1> QED BY <1>6, <1>7, <1>8, <1>9, <1>10, <1>11, <1>12, <1>13, <1>14, <1>15, <1>16 DEF Menu, Launch

\* The images that were built in quiet have what their label says.
LEMMA ImagesStayTrue ==
  ASSUME Inv, BoxInv, NEW t \in Procs, Menu(t) \/ Launch(t)
  PROVE  TrueImages' /\ LaunchersOnly'
  <1>0. TypeOK /\ TrueImages /\ LaunchersOnly
    BY DEF Inv, BoxInv
  <1>1. TrueImages'
    <2>1. CASE Build(t)
      <3>1. t \in Launchers
        BY <1>0, <2>1 DEF LaunchersOnly, Build, InMenus
      <3>2. "calm" \in claims[t] /\ ~Torn => ui[t].label = env["STACKS"]
        BY <2>1, <3>1, StacksIsAKey DEF Build, BoxInv, CalmFits, Stacks, Inv, Fits, SavedIsKept
      <3> QED BY <1>0, <2>1, <3>2 DEF Build, TrueImages
    <2>2. CASE Down(t) \/ Up(t)
      BY <1>0, <2>2 DEF Down, Up, TrueImages, NoBox, NoImage
    <2>3. UNCHANGED <<image, box>> => TrueImages'
      BY <1>0 DEF TrueImages
    <2>4. (Menu(t) \/ Launch(t)) /\ ~Build(t) /\ ~Down(t) /\ ~Up(t) => UNCHANGED <<image, box>>
      BY DEF Menu, Launch, PickRole, RoleWritten, Tune, TuneWritten, MaybeWarnRestart, Answer,
        Config, Loaded, Form, Saved, Image, Label, Container, Retry, Provision, Leave, LaunchEnds, sandbox
    <2> QED BY <2>1, <2>2, <2>3, <2>4
  <1>2. LaunchersOnly'
    <2>1. \A q \in Procs \ {t} : ui'[q] = ui[q]
      BY TuiStep, <1>0 DEF TuiMoves, TypeOK
    <2>2. CASE t \in Launchers
      BY <1>0, <2>1, <2>2 DEF LaunchersOnly
    <2>3. CASE t \notin Launchers
      <3>0. ui[t].pc \in InMenus \union {"config", "load", "form", "save", "image"}
        BY <1>0, <2>3 DEF LaunchersOnly
      <3>1. ASSUME NEW pc \in Pcs, Goto(t, pc) PROVE ui'[t].pc = pc
        BY <1>0, <3>1, GotoMoves
      <3>2. /\ ToMenu(t) => ui'[t].pc = "menu"
            /\ \A agreed \in BOOLEAN : StartLaunch(t, agreed) => ui'[t].pc = "config"
        BY <1>0, MenuMoves, StartMoves
      <3>3. ASSUME Menu(t) PROVE ui'[t].pc \in InMenus \union {"config"}
        BY <3>1, <3>2, <3>3 DEF Menu, PickRole, RoleWritten, Tune, TuneWritten, MaybeWarnRestart, Answer,
          Wrote, Pcs, InMenus
      <3>4. ASSUME Config(t) \/ Loaded(t) \/ Form(t) \/ Saved(t) \/ LaunchEnds(t)
            PROVE  ui'[t].pc \in {"load", "form", "save", "image", "menu"}
        BY <3>1, <3>2, <3>4 DEF Config, Loaded, Form, Saved, LaunchEnds, Wrote, Pcs, InMenus, InLaunch
      <3>5. ~(\/ Image(t) \/ Label(t) \/ Build(t) \/ Container(t) \/ Down(t) \/ Up(t) \/ Retry(t)
              \/ Provision(t) \/ Leave(t))
        <4>1. Image(t) => t \in Launchers
          BY DEF Image
        <4>2. Label(t) \/ Build(t) \/ Container(t) \/ Down(t) \/ Up(t) \/ Retry(t) \/ Provision(t) \/ Leave(t)
                => ui[t].pc \in {"label", "build", "container", "down", "up", "provision", "session"}
          BY DEF Label, Build, Container, Down, Up, Retry, Provision, Leave
        <4> QED BY <2>3, <3>0, <4>1, <4>2 DEF InMenus
      <3>6. ui'[t].pc \in InMenus \union {"config", "load", "form", "save", "image"}
        BY <3>3, <3>4, <3>5 DEF Launch, InMenus
      <3> QED BY <1>0, <2>1, <3>6 DEF LaunchersOnly
    <2> QED BY <2>2, <2>3
  <1> QED BY <1>1, <1>2

LEMMA BoxInit == Init => BoxInv
  <1> SUFFICES ASSUME Init PROVE BoxInv
    OBVIOUS
  <1>1. \A u \in Procs : ui[u].pc = "menu"
    BY DEF Init, AtMenu
  <1>2. \A u \in Launchers : claims[u] = {}
    BY DEF Init
  <1>3. TrueImages
    BY ChoicesAssumption DEF Init, TrueImages
  <1> QED BY <1>1, <1>2, <1>3 DEF BoxInv, LaunchersOnly, InMenus, CalmFits, ForeseenFits

LEMMA BoxNext == Inv /\ BoxInv /\ [Next]_vars => BoxInv'
  <1> SUFFICES ASSUME Inv, BoxInv, [Next]_vars PROVE BoxInv'
    OBVIOUS
  <1>0. /\ TypeOK /\ EnvTypeOK /\ Fits /\ TrueImages /\ LaunchersOnly
        /\ Launchers \subseteq Procs \ {None}
    BY ChoicesAssumption DEF Inv, TypeOK, BoxInv
  <1>1. ASSUME NEW t \in Procs, Menu(t) \/ Launch(t), Observe(t) PROVE BoxInv'
    <2>1. \A u \in Procs \ {t} : ui'[u] = ui[u]
      BY <1>0, <1>1, TuiStep DEF TuiMoves, TypeOK
    <2>2. ASSUME NEW u \in Launchers PROVE CalmFits(u)' /\ ForeseenFits(u)'
      BY <1>0, <1>1, <2>1, StillFits, MovesFit
    <2> QED BY <1>1, <2>2, ImagesStayTrue DEF BoxInv
  <1>2. ASSUME NEW t \in Procs, Writes(t), Observe(t) PROVE BoxInv'
    <2>1. UNCHANGED <<ui, image, box>>
      BY <1>2 DEF Writes, sandbox
    <2>2. ASSUME NEW u \in Launchers PROVE CalmFits(u)' /\ ForeseenFits(u)'
      BY <1>2, <2>1, StillFits
    <2> QED BY <1>0, <2>1, <2>2 DEF BoxInv, TrueImages, LaunchersOnly
  <1>3. ASSUME NEW t \in Procs, Killed(t), Observe(t) PROVE BoxInv'
    <2>1. /\ UNCHANGED <<image, box>> /\ ui'[t].pc = "menu"
          /\ \A u \in Procs \ {t} : ui'[u] = ui[u]
      BY <1>0, <1>3, MenuMoves DEF Killed, sandbox, TypeOK
    <2>2. ASSUME NEW u \in Launchers PROVE CalmFits(u)' /\ ForeseenFits(u)'
      <3>1. CASE u = t
        BY <1>3, <2>1, <3>1, BoxClaimed DEF CalmFits, ForeseenFits
      <3>2. CASE u # t
        BY <1>0, <1>3, <2>1, <3>2, StillFits
      <3> QED BY <3>1, <3>2
    <2>3. LaunchersOnly'
      BY <1>0, <2>1 DEF LaunchersOnly, InMenus
    <2> QED BY <1>0, <2>1, <2>2, <2>3 DEF BoxInv, TrueImages
  <1>4. ASSUME BoxStops \/ \E k \in Keys : OwnerEdits(k), Observe(None) PROVE BoxInv'
    <2>1. UNCHANGED <<ui, image>> /\ box' \in {box, NoBox}
      BY <1>4 DEF BoxStops, OwnerEdits, sandbox
    <2>2. ASSUME NEW u \in Launchers PROVE CalmFits(u)' /\ ForeseenFits(u)'
      BY <1>0, <1>4, <2>1, StillFits
    <2> QED BY <1>0, <2>1, <2>2 DEF BoxInv, TrueImages, LaunchersOnly, NoBox, NoImage
  <1>5. CASE UNCHANGED vars
    BY <1>0, <1>5 DEF vars, file, BoxInv, TrueImages, LaunchersOnly, CalmFits, ForeseenFits, Stacks
  <1> QED BY <1>1, <1>2, <1>3, <1>4, <1>5 DEF Next

\* A launch does not take down or replace a container that runs, unless its user
\* was asked or the claim was lost: for any processes, keys, values and events.
THEOREM NoSurprise == Spec => RecreateIsForeseen
  <1>1. Inv /\ BoxInv /\ [Next]_vars =>
          [\A t \in Launchers :
             (Down(t) \/ Up(t)) /\ box.up /\ box'.of # box.of
             => ui[t].agreed \/ "foreseen" \notin claims'[t]]_vars
    <2> SUFFICES ASSUME Inv, BoxInv, Next, NEW t \in Launchers, Down(t) \/ Up(t), box.up,
                        ~ui[t].agreed, "foreseen" \in claims'[t]
                 PROVE  FALSE
      OBVIOUS
    <2>1. PICK s \in Procs \union {None} : Observe(s)
      BY DEF Next
    <2>2. ui[t].pc \in {"down", "up"} /\ ui'[t].pc \in {"up", "provision"}
      <3>1. t \in Procs /\ TypeOK
        BY ChoicesAssumption DEF Inv
      <3> QED BY <3>1 DEF Down, Up, Goto, TypeOK
    <2>3. "foreseen" \in claims[t]
      BY <2>1, <2>2, BoxClaimed
    <2> QED BY <2>2, <2>3 DEF BoxInv, ForeseenFits
  <1> QED BY <1>1, InitInv, NextInv, BoxInit, BoxNext, PTL DEF Spec, RecreateIsForeseen

\* A session's container has the stacks that were chosen last, by its label and,
\* unless they changed between the label and the build, in truth.
THEOREM ChosenStacks == Spec => SessionHasStacks
  <1>1. Inv /\ BoxInv /\ [Next]_vars =>
          [\A t \in Launchers :
             ui[t].pc = "provision" /\ ui'[t].pc = "session" /\ "calm" \in claims[t] /\ ~Torn
             => /\ box.of.label = due["STACKS"]
                /\ box.of.true => box.of.stacks = due["STACKS"]]_vars
    BY DEF BoxInv, CalmFits, TrueImages, Stacks
  <1> QED BY <1>1, InitInv, NextInv, BoxInit, BoxNext, PTL DEF Spec, SessionHasStacks
=============================================================================
