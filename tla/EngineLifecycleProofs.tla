------------------------ MODULE EngineLifecycleProofs ------------------------
(***************************************************************************)
(* For any number of processes, handles, pids, queries and engines: closing *)
(* a handle leaves the engines to the others, no                           *)
(* engine of a live process is lost with its db process or its segments,   *)
(* a healthy hot-load has its segments, and a hot-load is refused only for *)
(* the sake of processes that run.                                         *)
(*                                                                         *)
(* Most steps end in Release, which closes some engines and collects those *)
(* without a reference; ReleaseFacts says what it leaves, engine by engine.*)
(* The invariant then says of each resource who is to give it back: of a   *)
(* directory, a loaded engine or the handle that still writes it           *)
(* (Segments); of a db process, an engine in use (Used) or the history of  *)
(* engines closed under a run (Runners).                                   *)
(***************************************************************************)
EXTENDS EngineLifecycle, FiniteSetTheorems, TLAPS

Building(s) == pc[s] \in {"stage", "write"}

Owners ==
  /\ \A s \in open : Of(s) \in alive
  /\ \A p \in alive : pid[p] # None
  /\ \A e \in EngineId : eng[e].of # None => pid[eng[e].of] # None
  /\ \A e \in stray \cup hurt : Live(e)
  /\ \A p \in Process : \A q \in Query :
       bound[p][q] # None => p \in alive /\ eng[bound[p][q]].of = p

Calls ==
  \A s \in Session :
    /\ pc[s] \in {"idle", "raised"} <=> mine[s] = None
    /\ pc[s] # "idle" => s \in open
    /\ old[s] # None => pc[s] \in {"stage", "write", "register"}

Builders ==
  /\ \A s \in Session : Building(s) => ~eng[mine[s]].loaded
  /\ \A s \in Session : pc[s] = "write" => mine[s] \in dirs
  /\ \A s, t \in Session : Building(s) /\ Building(t) /\ mine[s] = mine[t] => s = t

Segments ==
  /\ \A e \in EngineId : Live(e) /\ eng[e].loaded => e \in dirs
  /\ \A e \in dirs : Live(e) /\ e \notin hurt =>
       eng[e].loaded \/ \E s \in Session : pc[s] = "write" /\ mine[s] = e

Runners ==
  /\ stray \subseteq hurt
  /\ \A s \in cut : mine[s] \in hurt
  /\ \A s \in Session : pc[s] = "launch" /\ s \notin cut /\ eng[mine[s]].plane = "shm"
                        => eng[mine[s]].loaded

Used == \A e \in EngineId : Live(e) /\ (eng[e].up \/ eng[e].loaded) => InUse(e)

IInv == TypeOK /\ Owners /\ Calls /\ Builders /\ Segments /\ Runners /\ Used
-----------------------------------------------------------------------------
LEMMA NewType ==
  ASSUME NEW p \in Process, NEW plane \in {"parquet", "shm"}
  PROVE  New(p, plane) \in Engine
BY DEF New, Engine

LEMMA NoEngineType ==
  /\ NoEngine \in Engine /\ NoEngine.of = None /\ NoEngine.closed
  /\ ~NoEngine.loaded /\ ~NoEngine.up
BY DEF NoEngine, Closed, New, Engine

LEMMA ClosedType ==
  ASSUME NEW e \in Engine
  PROVE  /\ Closed(e) \in Engine /\ Closed(e).of = e.of /\ Closed(e).plane = e.plane
         /\ Closed(e).closed /\ ~Closed(e).loaded /\ ~Closed(e).up
BY DEF Closed, Engine

(* The sweep takes the directories of dead processes and no others. *)
LEMMA OrphanIsDead == \A d : Orphan(d) <=> ~Live(d)
BY DEF Orphan, Live

\* The open handles of a process.
OpenOf(p) == {r \in open : Of(r) = p}

LEMMA OpenIsFinite ==
  ASSUME TypeOK, NEW p
  PROVE  IsFiniteSet(OpenOf(p)) /\ Cardinality(OpenOf(p)) \in Nat
<1>1. IsFiniteSet({p} \X Handle)
  BY FS_Singleton, FS_Product, Handles
<1>2. OpenOf(p) \subseteq {p} \X Handle
  BY DEF OpenOf, TypeOK, Session, Of
<1>3. IsFiniteSet(OpenOf(p))
  BY <1>1, <1>2, FS_Subset
<1> QED BY <1>3, FS_CardinalityType

(* The shared count of a process is positive while it has an open handle.  *)
LEMMA OpenCounts ==
  ASSUME TypeOK, NEW s \in open
  PROVE  refs[Of(s)] \in Nat /\ refs[Of(s)] > 0
<1>1. s \in OpenOf(Of(s)) /\ Of(s) \in Process
  BY DEF TypeOK, Session, Of, OpenOf
<1>2. Cardinality(OpenOf(Of(s))) \in Nat /\ Cardinality(OpenOf(Of(s))) # 0
  BY <1>1, OpenIsFinite, FS_EmptySet
<1>3. refs[Of(s)] = Cardinality(OpenOf(Of(s)))
  BY <1>1 DEF TypeOK, OpenOf
<1> QED BY <1>2, <1>3

(* Whoever can still run an engine has an open handle of its process. *)
LEMMA InUseCounts ==
  ASSUME IInv, NEW e \in EngineId, Live(e), InUse(e)
  PROVE  refs[eng[e].of] > 0
<1>1. CASE \E s \in Session : e \in {mine[s], old[s]}
  <2> PICK s \in Session : e \in {mine[s], old[s]}
    BY <1>1
  <2>1. e # None
    BY NoneIsNew
  <2>2. s \in open
    BY <2>1 DEF IInv, Calls
  <2>3. eng[e].of = Of(s)
    BY <2>1 DEF IInv, TypeOK
  <2> QED BY <2>2, <2>3, OpenCounts DEF IInv
<1> QED BY <1>1 DEF InUse

\* The engine is collected: nothing refers to it after the step.
Lost(e) == Live(e) /\ ~Referenced(e, bound', mine', old')

(* What Release leaves of each engine: it stays as E has it, or it is      *)
(* closed; only an unreferenced one without resources disappears.          *)
LEMMA ReleaseFacts ==
  ASSUME TypeOK, NEW E \in [EngineId -> Engine], NEW D \in SUBSET EngineId,
         NEW C \in SUBSET EngineId, Release(E, D, C),
         mine' \in [Session -> EngineId \cup {None}]
  PROVE  /\ eng' \in [EngineId -> Engine]
         /\ dirs' \subseteq D
         /\ \A e \in EngineId :
              /\ eng'[e] = E[e] \/ (eng'[e].closed /\ ~eng'[e].loaded /\ ~eng'[e].up)
              /\ \/ eng'[e].of = E[e].of /\ eng'[e].plane = E[e].plane
                 \/ eng'[e].of = None /\ Lost(e) /\ e \notin dirs' \cup stray \cup hurt'
              /\ Lost(e) \/ e \in C => ~eng'[e].loaded /\ ~eng'[e].up
              /\ e \in D \ dirs' => eng[e].loaded /\ ~eng'[e].loaded
              /\ e \in dirs' /\ eng[e].loaded => eng'[e] = E[e]
              /\ e \in hurt => e \in hurt' \/ (Lost(e) /\ e \notin dirs' \cup stray)
         /\ \A e \in hurt' : e \in hurt \/ \E s \in Session : mine'[s] = e /\ e \in EngineId
         /\ \A s \in cut' : s \in Session /\ mine'[s] # None
                            /\ (s \in cut \/ mine'[s] \in hurt')
         /\ \A s \in cut : mine'[s] # None => s \in cut'
         /\ \A s \in Session : pc[s] = "launch" /\ mine'[s] # None /\ s \notin cut'
                               => eng'[mine'[s]] = E[mine'[s]]
<1> DEFINE free == {e \in EngineId : Live(e) /\ ~Referenced(e, bound', mine', old')}
           shut == C \cup free
           left == D \ {e \in shut : eng[e].loaded}
           late == {s \in Session : mine'[s] \in shut /\ pc[s] = "launch"}
           gone == free \ (left \cup stray)
<1>1. /\ eng' = [e \in EngineId |-> IF e \in gone THEN NoEngine
                                    ELSE IF e \in shut THEN Closed(E[e]) ELSE E[e]]
      /\ dirs' = left
      /\ cut' = {s \in cut \cup late : mine'[s] # None}
      /\ hurt' = (hurt \cup {mine'[s] : s \in late}) \ gone
  BY DEF Release
<1>2. shut \subseteq EngineId /\ gone \subseteq shut /\ gone \subseteq free
  OBVIOUS
<1>3. \A s \in Session : mine'[s] \notin free
  BY DEF Referenced
<1>4. \A e \in EngineId :
        /\ e \in gone => eng'[e] = NoEngine
        /\ e \in shut \ gone => eng'[e] = Closed(E[e])
        /\ e \notin shut => eng'[e] = E[e]
  BY <1>1, <1>2
<1>5. eng' \in [EngineId -> Engine]
  <2>1. \A e \in EngineId : E[e] \in Engine /\ Closed(E[e]) \in Engine /\ NoEngine \in Engine
    BY ClosedType, NoEngineType
  <2> QED BY <1>1, <2>1
<1>6. dirs' \subseteq D
  BY <1>1
<1>7. ASSUME NEW e \in EngineId
      PROVE   /\ eng'[e] = E[e] \/ (eng'[e].closed /\ ~eng'[e].loaded /\ ~eng'[e].up)
              /\ \/ eng'[e].of = E[e].of /\ eng'[e].plane = E[e].plane
                 \/ eng'[e].of = None /\ Lost(e) /\ e \notin dirs' \cup stray \cup hurt'
              /\ Lost(e) \/ e \in C => ~eng'[e].loaded /\ ~eng'[e].up
              /\ e \in D \ dirs' => eng[e].loaded /\ ~eng'[e].loaded
              /\ e \in dirs' /\ eng[e].loaded => eng'[e] = E[e]
              /\ e \in hurt => e \in hurt' \/ (Lost(e) /\ e \notin dirs' \cup stray)
  <2>1. /\ e \in free <=> (Live(e) /\ ~Referenced(e, bound', mine', old'))
        /\ e \in free <=> Lost(e)
        /\ E[e] \in Engine
    BY DEF Lost
  <2>2. CASE e \in gone
    <3>1. eng'[e] = NoEngine
      BY <1>4, <2>2
    <3>2. e \in free /\ e \notin dirs' /\ e \notin stray /\ e \notin hurt'
      BY <1>1, <2>2
    <3>3. e \in D => eng[e].loaded
      BY <2>2
    <3> QED BY <2>1, <3>1, <3>2, <3>3, NoEngineType
  <2>3. CASE e \in shut \ gone
    <3>1. eng'[e] = Closed(E[e])
      BY <1>4, <2>3
    <3>2. e \in D \ dirs' => eng[e].loaded
      BY <1>1
    <3>3. e \in dirs' => ~eng[e].loaded
      BY <1>1, <2>3
    <3>4. e \in hurt => e \in hurt'
      BY <1>1, <2>3
    <3> QED BY <2>1, <3>1, <3>2, <3>3, <3>4, ClosedType
  <2>4. CASE e \notin shut
    <3>1. eng'[e] = E[e]
      BY <1>4, <2>4
    <3>2. e \notin D \ dirs' /\ e \notin free /\ e \notin C
      BY <1>1, <2>4
    <3>3. e \in hurt => e \in hurt'
      BY <1>1, <1>2, <2>4
    <3> QED BY <2>1, <3>1, <3>2, <3>3
  <2> QED BY <1>2, <2>2, <2>3, <2>4
<1>8. \A e \in hurt' : e \in hurt \/ \E s \in Session : mine'[s] = e /\ e \in EngineId
  BY <1>1, <1>2
<1>9. ASSUME NEW s \in cut'
      PROVE  s \in Session /\ mine'[s] # None /\ (s \in cut \/ mine'[s] \in hurt')
  <2>1. s \in Session
    BY <1>1 DEF TypeOK
  <2>2. s \in late => mine'[s] \in hurt'
    BY <1>1, <1>2, <1>3
  <2> QED BY <1>1, <2>1, <2>2
<1>10. ASSUME NEW s \in Session, pc[s] = "launch", mine'[s] # None, s \notin cut'
       PROVE  eng'[mine'[s]] = E[mine'[s]]
  <2>1. mine'[s] \notin shut
    BY <1>1, <1>10
  <2> QED BY <1>4, <1>10, <2>1
<1>11. \A s \in cut : mine'[s] # None => s \in cut'
  BY <1>1
<1> HIDE DEF free, shut, left, late, gone
<1> QED BY <1>5, <1>6, <1>7, <1>8, <1>9, <1>10, <1>11

(* What the steps that end in Release have in common: the handle s goes on *)
(* with its engines or has dropped them; what it binds is its own engine;  *)
(* E and D differ from eng and dirs by what dead processes left, and by    *)
(* the directory s was writing.                                            *)
Releasing(s, E, D, C) ==
  /\ UNCHANGED <<alive, pid, stray>>
  /\ C \subseteq EngineId /\ D \subseteq dirs
  /\ E \in [EngineId -> Engine]
  /\ \A e \in EngineId : E[e] = eng[e] \/ (E[e] = NoEngine /\ ~Live(e) /\ e \notin D)
  /\ \A e \in dirs \ D : Live(e) => pc[s] = "write" /\ mine[s] = e
  /\ \/ mine' = mine /\ old' = old /\ pc' = pc /\ pc[s] # "write"
     \/ Drop(s) /\ \E l \in {"idle", "raised"} : Goto(s, l)
  /\ pc[s] = "write" => mine[s] \notin D
  /\ bound' \in [Process -> [Query -> EngineId \cup {None}]]
  /\ \A p \in Process : \A q \in Query :
       bound'[p][q] = bound[p][q] \/ (p = Of(s) /\ bound'[p][q] = mine[s])
  /\ open' \subseteq open
  /\ \A p \in Process : refs[p] > 0 => \/ refs'[p] > 0
                                       \/ \A q \in Query : bound'[p][q] \in C \cup {None}
  /\ Release(E, D, C)

LEMMA ReleaseKeeps ==
  ASSUME IInv, NEW s \in Session, NEW E, NEW D, NEW C, Releasing(s, E, D, C),
         Of(s) \in alive
  PROVE  /\ eng' \in [EngineId -> Engine]
         /\ \A e \in dirs' \cup stray' \cup hurt' : e \in EngineId /\ eng'[e].of \in Process
         /\ cut' \subseteq Session
         /\ pc' \in [Session -> {"idle", "stage", "write", "register", "raised", "matched",
                                 "launch", "running"}]
         /\ mine' \in [Session -> EngineId \cup {None}]
         /\ old' \in [Session -> EngineId \cup {None}]
         /\ \A t \in Session : \A e \in {mine'[t], old'[t]} \ {None} :
               eng'[e].of = Of(t) /\ Live(e)'
         /\ Owners' /\ Builders' /\ Segments' /\ Runners' /\ Used'
<1> USE NoEngineType, NoneIsNew
<1>1. /\ mine' \in [Session -> EngineId \cup {None}]
      /\ old' \in [Session -> EngineId \cup {None}]
      /\ pc' \in [Session -> {"idle", "stage", "write", "register", "raised", "matched",
                              "launch", "running"}]
      /\ \A t \in Session :
           \/ mine'[t] = mine[t] /\ old'[t] = old[t] /\ pc'[t] = pc[t]
           \/ t = s /\ mine'[t] = None /\ old'[t] = None /\ pc'[t] \in {"idle", "raised"}
      /\ pc[s] = "write" => mine'[s] = None /\ pc'[s] # "write"
  <2>1. CASE mine' = mine /\ old' = old /\ pc' = pc /\ pc[s] # "write"
    BY <2>1 DEF IInv, TypeOK
  <2>2. CASE Drop(s) /\ \E l \in {"idle", "raised"} : Goto(s, l)
    <3>1. /\ mine' = [mine EXCEPT ![s] = None] /\ old' = [old EXCEPT ![s] = None]
          /\ \E l \in {"idle", "raised"} : pc' = [pc EXCEPT ![s] = l]
      BY <2>2 DEF Drop, Goto
    <3> QED BY <3>1 DEF IInv, TypeOK
  <2> QED BY <2>1, <2>2 DEF Releasing
<1>2. /\ eng' \in [EngineId -> Engine]
      /\ dirs' \subseteq D
      /\ \A e \in EngineId :
           /\ eng'[e] = E[e] \/ (eng'[e].closed /\ ~eng'[e].loaded /\ ~eng'[e].up)
           /\ \/ eng'[e].of = E[e].of /\ eng'[e].plane = E[e].plane
              \/ eng'[e].of = None /\ Lost(e) /\ e \notin dirs' \cup stray \cup hurt'
           /\ Lost(e) \/ e \in C => ~eng'[e].loaded /\ ~eng'[e].up
           /\ e \in D \ dirs' => eng[e].loaded /\ ~eng'[e].loaded
           /\ e \in dirs' /\ eng[e].loaded => eng'[e] = E[e]
           /\ e \in hurt => e \in hurt' \/ (Lost(e) /\ e \notin dirs' \cup stray)
      /\ \A e \in hurt' : e \in hurt \/ \E t \in Session : mine'[t] = e /\ e \in EngineId
      /\ \A t \in cut' : t \in Session /\ mine'[t] # None
                         /\ (t \in cut \/ mine'[t] \in hurt')
      /\ \A t \in cut : mine'[t] # None => t \in cut'
      /\ \A t \in Session : pc[t] = "launch" /\ mine'[t] # None /\ t \notin cut'
                            => eng'[mine'[t]] = E[mine'[t]]
  <2>1. D \in SUBSET EngineId /\ C \in SUBSET EngineId
    BY DEF Releasing, IInv, TypeOK
  <2>2. TypeOK /\ E \in [EngineId -> Engine] /\ Release(E, D, C)
    BY DEF Releasing, IInv
  <2> QED BY <1>1, <2>1, <2>2, ReleaseFacts, ZenonT(30)
<1>3. alive' = alive /\ pid' = pid /\ stray' = stray /\ None \notin alive
  BY DEF Releasing, IInv, TypeOK
\* An engine alive afterwards is one that was, closed at most.
<1>4. \A e \in EngineId : Live(e)' =>
        /\ Live(e) /\ E[e] = eng[e]
        /\ eng'[e].of = eng[e].of /\ eng'[e].plane = eng[e].plane
        /\ eng'[e] = eng[e] \/ (~eng'[e].loaded /\ ~eng'[e].up)
  BY <1>2, <1>3 DEF Releasing, Live
<1>5. \A e \in EngineId : Live(e) /\ Referenced(e, bound', mine', old') =>
        Live(e)' /\ eng'[e].of = eng[e].of
  BY <1>2, <1>3 DEF Releasing, Live, Lost
<1>6. \A t \in Session : \A e \in {mine'[t], old'[t]} \ {None} :
        /\ e \in EngineId /\ e \in {mine[t], old[t]}
        /\ Referenced(e, bound', mine', old')
        /\ eng'[e].of = Of(t) /\ Live(e)'
  <2> TAKE t \in Session
  <2> TAKE e \in {mine'[t], old'[t]} \ {None}
  <2>1. e \in EngineId /\ e \in {mine[t], old[t]}
    BY <1>1
  <2>2. eng[e].of = Of(t) /\ Live(e)
    BY <2>1 DEF IInv, TypeOK
  <2>3. Referenced(e, bound', mine', old')
    BY DEF Referenced
  <2> QED BY <1>5, <2>1, <2>2, <2>3
<1>7. \A e \in dirs' \cup stray' \cup hurt' :
        e \in EngineId /\ eng'[e].of \in Process /\ eng'[e].of = eng[e].of
  <2> TAKE e \in dirs' \cup stray' \cup hurt'
  <2>1. e \in EngineId /\ eng[e].of \in Process
    <3>1. e \in dirs \cup stray \cup hurt \/ \E t \in Session : mine'[t] = e /\ e # None
      <4>1. CASE e \in hurt'
        BY <1>2, <1>3, <1>1, <4>1, NoneIsNew DEF IInv, TypeOK
      <4>2. CASE e \in dirs' \cup stray'
        BY <1>2, <1>3, <4>2 DEF Releasing
      <4> QED BY <4>1, <4>2
    <3>2. ASSUME NEW t \in Session, mine'[t] = e, e # None
          PROVE  e \in EngineId /\ eng[e].of = Of(t) /\ Of(t) \in Process
      BY <1>6, <3>2 DEF IInv, TypeOK, Session, Of
    <3> QED BY <3>1, <3>2 DEF IInv, TypeOK
  <2>2. E[e] = eng[e]
    <3>1. CASE e \in dirs'
      BY <1>2, <2>1, <3>1 DEF Releasing
    <3>2. CASE e \in stray' \cup hurt'
      <4>1. Live(e)
        <5>1. e \in stray \cup hurt \/ \E t \in Session : mine'[t] = e /\ e # None
          BY <1>2, <1>3, <1>1, <3>2, <2>1
        <5> QED BY <5>1, <1>6 DEF IInv, Owners, TypeOK
      <4> QED BY <2>1, <4>1 DEF Releasing
    <3> QED BY <3>1, <3>2
  <2> QED BY <1>2, <1>3, <2>1, <2>2
<1>8. cut' \subseteq Session
  BY <1>2
<1>9. Owners'
  <2>1. \A t \in open' : Of(t) \in alive'
    BY <1>3 DEF Releasing, IInv, Owners
  <2>2. \A p \in alive' : pid'[p] # None
    BY <1>3 DEF IInv, Owners
  <2>3. \A e \in EngineId : eng'[e].of # None => pid'[eng'[e].of] # None
    BY <1>2, <1>3 DEF Releasing, IInv, Owners
  <2>4. \A e \in stray' \cup hurt' : Live(e)'
    <3> TAKE e \in stray' \cup hurt'
    <3>1. e \in stray \cup hurt \/ \E t \in Session : mine'[t] = e /\ e # None
      BY <1>2, <1>3, <1>1, <1>7
    <3>2. Live(e)
      BY <3>1, <1>6 DEF IInv, Owners, TypeOK
    <3> QED BY <1>3, <1>7, <3>2 DEF Live
  <2>5. ASSUME NEW p \in Process, NEW q \in Query, bound'[p][q] # None
        PROVE  p \in alive' /\ eng'[bound'[p][q]].of = p
    <3> DEFINE e == bound'[p][q]
    <3>1. e \in EngineId
      BY <2>5 DEF Releasing
    <3>2. p \in alive /\ eng[e].of = p
      <4>1. CASE e = bound[p][q]
        BY <2>5, <4>1 DEF IInv, Owners
      <4>2. CASE p = Of(s) /\ e = mine[s]
        BY <2>5, <4>2 DEF IInv, TypeOK, Live
      <4> QED BY <4>1, <4>2 DEF Releasing
    <3>3. Referenced(e, bound', mine', old') /\ Live(e)
      BY <3>1, <3>2 DEF Referenced, Live
    <3> QED BY <1>3, <1>5, <3>1, <3>2, <3>3
  <2> QED BY <2>1, <2>2, <2>3, <2>4, <2>5 DEF Owners
<1>10. Builders'
  <2>1. ASSUME NEW t \in Session, pc'[t] \in {"stage", "write"}
        PROVE  /\ mine'[t] = mine[t] /\ pc'[t] = pc[t] /\ mine[t] \in EngineId
               /\ ~eng[mine[t]].loaded /\ ~eng'[mine[t]].loaded /\ Live(mine[t])
               /\ (pc[t] = "write" => t # s)
    <3>1. mine'[t] = mine[t] /\ pc'[t] = pc[t] /\ (pc[t] = "write" => t # s)
      BY <1>1, <2>1
    <3>2. mine[t] \in EngineId /\ mine[t] # None
      BY <2>1, <3>1 DEF IInv, Calls, TypeOK
    <3>3. ~eng[mine[t]].loaded /\ Live(mine[t])
      BY <2>1, <3>1, <3>2 DEF IInv, Builders, Building, TypeOK
    <3> QED BY <1>2, <3>1, <3>2, <3>3 DEF Releasing
  <2>2. ASSUME NEW t \in Session, pc'[t] = "write"
        PROVE  mine'[t] \in dirs'
    <3>1. mine[t] \in dirs /\ t # s /\ pc[t] = "write"
      BY <2>1, <2>2 DEF IInv, Builders
    <3>2. mine[t] \in D
      BY <2>1, <2>2, <3>1 DEF Releasing, IInv, Builders, Building
    <3> QED BY <1>2, <2>1, <2>2, <3>2
  <2>3. \A t, u \in Session : Building(t)' /\ Building(u)' /\ mine'[t] = mine'[u] => t = u
    BY <2>1 DEF Building, IInv, Builders
  <2> QED BY <2>1, <2>2, <2>3 DEF Builders, Building
<1>11. Segments'
  <2>1. ASSUME NEW e \in EngineId, Live(e)', eng'[e].loaded
        PROVE  e \in dirs'
    <3>1. Live(e) /\ eng[e].loaded /\ eng'[e] = eng[e]
      BY <1>4, <2>1
    <3>2. e \in dirs
      BY <3>1 DEF IInv, Segments
    <3>3. e \in D
      BY <3>1, <3>2 DEF Releasing, IInv, Builders, Building
    <3> QED BY <1>2, <2>1, <3>3
  <2>2. ASSUME NEW e \in dirs', Live(e)', e \notin hurt'
        PROVE  eng'[e].loaded \/ \E t \in Session : pc'[t] = "write" /\ mine'[t] = e
    <3>1. e \in EngineId /\ e \in D /\ e \in dirs /\ Live(e)
      BY <1>2, <1>4, <1>7, <2>2 DEF Releasing
    <3>2. e \notin hurt
      BY <1>2, <2>2, <3>1
    <3>3. CASE eng[e].loaded
      BY <1>2, <1>4, <2>2, <3>1, <3>3
    <3>4. CASE \E t \in Session : pc[t] = "write" /\ mine[t] = e
      <4> PICK t \in Session : pc[t] = "write" /\ mine[t] = e
        BY <3>4
      <4>1. t # s
        BY <3>1 DEF Releasing
      <4> QED BY <1>1, <4>1
    <3> QED BY <3>1, <3>2, <3>3, <3>4 DEF IInv, Segments
  <2> QED BY <2>1, <2>2 DEF Segments
<1>12. Runners'
  <2>1. ASSUME NEW e \in stray'
        PROVE  e \in hurt'
    <3>1. e \in hurt /\ e \in EngineId
      BY <1>3, <1>7, <2>1 DEF IInv, Runners
    <3> QED BY <1>2, <1>3, <2>1, <3>1
  <2>2. ASSUME NEW t \in cut'
        PROVE  mine'[t] \in hurt'
    <3>1. t \in Session /\ mine'[t] # None
      BY <1>2
    <3>2. mine'[t] = mine[t] /\ mine[t] \in EngineId /\ Referenced(mine[t], bound', mine', old')
      BY <1>1, <1>6, <3>1
    <3>3. CASE t \in cut
      BY <1>2, <3>2, <3>3 DEF IInv, Runners, Lost
    <3> QED BY <1>2, <3>3
  <2>3. ASSUME NEW t \in Session, pc'[t] = "launch", t \notin cut', eng'[mine'[t]].plane = "shm"
        PROVE  eng'[mine'[t]].loaded
    <3>1. pc[t] = "launch" /\ mine'[t] = mine[t]
      BY <1>1, <2>3
    <3>2. mine[t] # None /\ mine[t] \in EngineId
      BY <3>1 DEF IInv, Calls, TypeOK
    <3>3. Live(mine[t]) /\ E[mine[t]] = eng[mine[t]]
      BY <1>1, <3>2 DEF Releasing, IInv, TypeOK
    <3>4. eng'[mine[t]] = eng[mine[t]]
      BY <1>2, <2>3, <3>1, <3>2, <3>3
    <3>5. t \notin cut
      BY <1>2, <2>3, <3>1, <3>2
    <3> QED BY <2>3, <3>1, <3>4, <3>5 DEF IInv, Runners
  <2> QED BY <2>1, <2>2, <2>3 DEF Runners
<1>13. Used'
  <2> SUFFICES ASSUME NEW e \in EngineId, Live(e)', eng'[e].up \/ eng'[e].loaded
               PROVE  InUse(e)'
    BY DEF Used
  <2>1. Live(e) /\ eng'[e] = eng[e] /\ eng'[e].of = eng[e].of
    BY <1>4
  <2>2. InUse(e)
    BY <2>1 DEF IInv, Used
  <2>3. refs[eng[e].of] > 0 /\ eng[e].of \in Process
    BY <2>1, <2>2, InUseCounts DEF Live, IInv, TypeOK
  <2>4. e \notin C /\ Referenced(e, bound', mine', old')
    BY <1>2, <2>1 DEF Lost
  <2>5. CASE \E t \in Session : e \in {mine'[t], old'[t]}
    BY <2>5 DEF InUse
  <2>6. CASE \E q \in Query : bound'[eng[e].of][q] = e
    <3>1. refs'[eng[e].of] > 0
      BY <2>3, <2>4, <2>6, NoneIsNew DEF Releasing
    <3> QED BY <2>1, <2>6, <3>1 DEF InUse
  <2> QED BY <2>4, <2>5, <2>6 DEF Referenced
<1> QED BY <1>1, <1>2, <1>6, <1>7, <1>8, <1>9, <1>10, <1>11, <1>12, <1>13

LEMMA SweptFacts ==
  ASSUME TypeOK
  PROVE  /\ Swept \in [EngineId -> Engine] /\ Kept \subseteq dirs
         /\ \A e \in EngineId :
              Swept[e] = eng[e] \/ (Swept[e] = NoEngine /\ ~Live(e) /\ e \notin Kept)
         /\ \A e \in dirs : Live(e) <=> e \in Kept
BY OrphanIsDead, NoEngineType DEF Swept, Kept, TypeOK

(* The steps that drop the engines of a call, handles as they were. *)
LEMMA DropKeeps ==
  ASSUME IInv, NEW s \in Session, pc[s] # "idle", NEW E, NEW D, NEW C, Releasing(s, E, D, C),
         Drop(s), \E l \in {"idle", "raised"} : Goto(s, l),
         known' \in {known, known \cup {s}}, fails' \in 0..MaxFail,
         UNCHANGED <<tables, handleVars>>
  PROVE  IInv'
<1>1. s \in open /\ Of(s) \in alive /\ s \in made
  BY DEF IInv, Calls, Owners, TypeOK
<1>2. next' = [next EXCEPT ![s] = 1] /\ 1 \in Query
  BY Package DEF Drop, Query
<1>3. TypeOK'
  <2>1. /\ eng' \in [EngineId -> Engine] /\ cut' \subseteq Session
        /\ \A e \in dirs' \cup stray' \cup hurt' : e \in EngineId /\ eng'[e].of \in Process
        /\ pc' \in [Session -> {"idle", "stage", "write", "register", "raised", "matched",
                                "launch", "running"}]
        /\ mine' \in [Session -> EngineId \cup {None}]
        /\ old' \in [Session -> EngineId \cup {None}]
        /\ \A t \in Session : \A e \in {mine'[t], old'[t]} \ {None} :
              eng'[e].of = Of(t) /\ Live(e)'
    BY <1>1, ReleaseKeeps
  <2>2. bound' \in [Process -> [Query -> EngineId \cup {None}]]
    BY DEF Releasing
  <2>3. next' \in [Session -> Query] /\ known' \subseteq made'
    BY <1>1, <1>2 DEF IInv, TypeOK, handleVars
  <2>4. /\ bundled' \in BOOLEAN /\ alive' \subseteq Process
        /\ pid' \in [Process -> Pid \cup {None}] /\ tables' \subseteq alive'
        /\ open' \subseteq made' /\ made' \subseteq Session
        /\ refs' = [p \in Process |-> Cardinality({t \in open' : Of(t) = p})]
    BY DEF IInv, TypeOK, handleVars
  <2> QED BY <2>1, <2>2, <2>3, <2>4 DEF TypeOK
<1>4. Calls'
  <2>1. /\ mine' = [mine EXCEPT ![s] = None] /\ old' = [old EXCEPT ![s] = None]
        /\ \E l \in {"idle", "raised"} : pc' = [pc EXCEPT ![s] = l]
    BY DEF Drop, Goto
  <2>2. open' = open
    BY DEF handleVars
  <2> QED BY <1>1, <2>1, <2>2 DEF Calls, IInv, TypeOK
<1> QED BY <1>1, <1>3, <1>4, ReleaseKeeps DEF IInv

LEMMA GiveUpKeeps ==
  ASSUME IInv, NEW s \in Session, GiveUp(s)
  PROVE  IInv'
<1>1. mine[s] \in EngineId /\ pc[s] = "stage"
  BY DEF GiveUp, At, IInv, Calls, TypeOK
<1>2. Releasing(s, Swept, Kept, {mine[s]})
  BY <1>1, SweptFacts DEF GiveUp, Releasing, IInv, TypeOK, handleVars
<1> QED BY <1>1, <1>2, DropKeeps DEF GiveUp, IInv, TypeOK

LEMMA PromotionRefusedKeeps ==
  ASSUME IInv, NEW s \in Session, PromotionRefused(s)
  PROVE  IInv'
<1>1. pc[s] = "stage"
  BY DEF PromotionRefused, At
<1>2. Releasing(s, Swept, Kept, {})
  BY <1>1, SweptFacts DEF PromotionRefused, Releasing, IInv, TypeOK, handleVars
<1> QED BY <1>1, <1>2, DropKeeps DEF PromotionRefused, IInv, TypeOK

LEMMA WriteFailsKeeps ==
  ASSUME IInv, NEW s \in Session, WriteFails(s)
  PROVE  IInv'
<1>1. pc[s] = "write" /\ fails' \in 0..MaxFail
  BY Bounds DEF WriteFails, At, IInv, TypeOK
<1>2. \E l \in {"idle", "raised"} : Goto(s, l)
  BY DEF WriteFails
<1>3. Releasing(s, eng, dirs \ {mine[s]}, {})
  BY <1>1, <1>2 DEF WriteFails, Releasing, IInv, TypeOK, handleVars
<1> QED BY <1>1, <1>2, <1>3, DropKeeps DEF WriteFails, IInv, TypeOK

LEMMA RegisterKeeps ==
  ASSUME IInv, NEW s \in Session, Register(s)
  PROVE  IInv'
<1>1. /\ pc[s] = "register" /\ mine[s] \in EngineId /\ s \in open /\ Of(s) \in alive
      /\ next[s] \in Query /\ Of(s) \in Process
  BY DEF Register, At, IInv, Calls, Owners, TypeOK, Session, Of
<1>2. /\ bound' \in [Process -> [Query -> EngineId \cup {None}]]
      /\ \A p \in Process : \A q \in Query :
           bound'[p][q] = bound[p][q] \/ (p = Of(s) /\ bound'[p][q] = mine[s])
  BY <1>1 DEF Register, IInv, TypeOK
<1>3. Releasing(s, eng, dirs, {})
  BY <1>1, <1>2 DEF Register, Releasing, IInv, TypeOK, handleVars
<1>4. next' \in [Session -> Query]
  BY <1>1, Package DEF Register, Query, IInv, TypeOK
<1>5. TypeOK'
  BY <1>1, <1>2, <1>3, <1>4, ReleaseKeeps DEF Register, IInv, TypeOK, handleVars
<1>6. Calls'
  BY DEF Register, Calls, IInv, handleVars
<1> QED BY <1>1, <1>3, <1>5, <1>6, ReleaseKeeps DEF IInv

LEMMA BoundKeeps ==
  ASSUME IInv, NEW s \in Session, Bound(s)
  PROVE  IInv'
<1>1. /\ pc[s] = "register" /\ mine[s] \in EngineId /\ Of(s) \in Process
      /\ Queries \in Query
  BY Package DEF Bound, At, IInv, Calls, TypeOK, Session, Of, Query
<1>2. /\ bound' \in [Process -> [Query -> EngineId \cup {None}]]
      /\ \A p \in Process : \A q \in Query :
           bound'[p][q] = bound[p][q] \/ (p = Of(s) /\ bound'[p][q] = mine[s])
  BY <1>1 DEF Bound, IInv, TypeOK
<1>3. Releasing(s, eng, dirs, {})
  BY <1>1, <1>2 DEF Bound, Releasing, IInv, TypeOK, handleVars
<1> QED BY <1>1, <1>3, DropKeeps DEF Bound, IInv, TypeOK

LEMMA PromotedKeeps ==
  ASSUME IInv, NEW s \in Session, Promoted(s)
  PROVE  IInv'
<1>1. /\ pc[s] = "register" /\ mine[s] \in EngineId /\ Of(s) \in Process
      /\ old[s] \in EngineId /\ Queries \in Query
  BY Package DEF Promoted, At, IInv, Calls, TypeOK, Session, Of, Query
<1>2. /\ bound' \in [Process -> [Query -> EngineId \cup {None}]]
      /\ \A p \in Process : \A q \in Query :
           bound'[p][q] = bound[p][q] \/ (p = Of(s) /\ bound'[p][q] = mine[s])
  BY <1>1 DEF Promoted, IInv, TypeOK
<1>3. Releasing(s, eng, dirs, {old[s]})
  BY <1>1, <1>2 DEF Promoted, Releasing, IInv, TypeOK, handleVars
<1> QED BY <1>1, <1>3, DropKeeps DEF Promoted, IInv, TypeOK

LEMMA RegisterFailsKeeps ==
  ASSUME IInv, NEW s \in Session, RegisterFails(s)
  PROVE  IInv'
<1>1. pc[s] = "register" /\ mine[s] \in EngineId /\ fails' \in 0..MaxFail
  BY Bounds DEF RegisterFails, At, IInv, Calls, TypeOK
<1>2. Releasing(s, eng, dirs, {mine[s]})
  BY <1>1 DEF RegisterFails, Releasing, IInv, TypeOK, handleVars
<1> QED BY <1>1, <1>2, DropKeeps DEF RegisterFails

LEMMA NotLoadedKeeps ==
  ASSUME IInv, NEW s \in Session, NotLoaded(s)
  PROVE  IInv'
<1>1. pc[s] = "matched"
  BY DEF NotLoaded, At
<1>2. Releasing(s, eng, dirs, {})
  BY <1>1 DEF NotLoaded, Releasing, IInv, TypeOK, handleVars
<1> QED BY <1>1, <1>2, DropKeeps DEF NotLoaded, IInv, TypeOK

LEMMA ReturnKeeps ==
  ASSUME IInv, NEW s \in Session, Return(s)
  PROVE  IInv'
<1>1. pc[s] = "running"
  BY DEF Return, At
<1>2. Releasing(s, eng, dirs, {})
  BY <1>1 DEF Return, Releasing, IInv, TypeOK, handleVars
<1> QED BY <1>1, <1>2, DropKeeps DEF Return, IInv, TypeOK

(* Closing a handle takes it off the count of its process. *)
LEMMA CloseCounts ==
  ASSUME TypeOK, NEW s \in open, open' = open \ {s},
         refs' = [refs EXCEPT ![Of(s)] = @ - 1]
  PROVE  refs' = [p \in Process |-> Cardinality({r \in open' : Of(r) = p})]
<1>1. Of(s) \in Process
  BY DEF TypeOK, Session, Of
<1>2. ASSUME NEW p \in Process
      PROVE  refs'[p] = Cardinality({r \in open' : Of(r) = p})
  <2>1. refs[p] = Cardinality(OpenOf(p))
    BY DEF TypeOK, OpenOf
  <2>2. CASE p = Of(s)
    <3>1. {r \in open' : Of(r) = p} = OpenOf(p) \ {s} /\ s \in OpenOf(p)
      BY <2>2 DEF OpenOf
    <3>2. Cardinality(OpenOf(p) \ {s}) = Cardinality(OpenOf(p)) - 1
      BY <3>1, OpenIsFinite, FS_RemoveElement
    <3>3. refs'[p] = refs[p] - 1
      BY <1>1, <2>2 DEF TypeOK
    <3> QED BY <2>1, <3>1, <3>2, <3>3
  <2>3. CASE p # Of(s)
    <3>1. {r \in open' : Of(r) = p} = OpenOf(p)
      BY <2>3 DEF OpenOf
    <3>2. refs'[p] = refs[p]
      BY <2>3 DEF TypeOK
    <3> QED BY <2>1, <3>1, <3>2
  <2> QED BY <2>2, <2>3
<1> QED BY <1>2 DEF TypeOK

LEMMA CloseHandleKeeps ==
  ASSUME IInv, NEW s \in Session, CloseHandle(s)
  PROVE  IInv'
<1> DEFINE C == IF refs'[Of(s)] <= 0 THEN {bound[Of(s)][q] : q \in Query} \ {None} ELSE {}
<1>1. /\ s \in open /\ pc[s] = "idle" /\ open' = open \ {s}
      /\ Of(s) \in alive /\ Of(s) \in Process
  BY DEF CloseHandle, Rests, At, IInv, Owners, TypeOK, Session, Of
<1>2. refs' = [p \in Process |-> Cardinality({r \in open' : Of(r) = p})]
  BY <1>1, CloseCounts DEF CloseHandle, IInv
<1>3. Releasing(s, eng, dirs, C)
  <2>1. C \subseteq EngineId
    BY <1>1 DEF IInv, TypeOK
  <2>2. \A p \in Process : refs[p] > 0 => \/ refs'[p] > 0
                                          \/ \A q \in Query : bound'[p][q] \in C \cup {None}
    <3> SUFFICES ASSUME NEW p \in Process, refs[p] > 0, ~(refs'[p] > 0)
                 PROVE  \A q \in Query : bound'[p][q] \in C \cup {None}
      OBVIOUS
    <3>1. CASE p = Of(s)
      <4>1. refs[p] \in Nat /\ refs'[p] = refs[p] - 1
        BY <1>1, <3>1, OpenCounts DEF CloseHandle, IInv, TypeOK
      <4>2. refs'[Of(s)] <= 0
        BY <3>1, <4>1
      <4> QED BY <3>1, <4>2 DEF CloseHandle
    <3>2. CASE p # Of(s)
      BY <1>1, <3>2 DEF CloseHandle, IInv, TypeOK
    <3> QED BY <3>1, <3>2
  <2>3. Release(eng, dirs, C) /\ UNCHANGED <<alive, pid, stray, bound, mine, old, pc>>
    BY DEF CloseHandle
  <2> HIDE DEF C
  <2> QED BY <1>1, <2>1, <2>2, <2>3 DEF Releasing, IInv, TypeOK
<1> HIDE DEF C
<1>4. TypeOK'
  <2>1. /\ eng' \in [EngineId -> Engine] /\ cut' \subseteq Session
        /\ \A e \in dirs' \cup stray' \cup hurt' : e \in EngineId /\ eng'[e].of \in Process
        /\ \A t \in Session : \A e \in {mine'[t], old'[t]} \ {None} :
              eng'[e].of = Of(t) /\ Live(e)'
    BY <1>1, <1>3, ReleaseKeeps
  <2>2. open' \subseteq made' /\ made' \subseteq Session /\ known' \subseteq made'
    BY <1>1 DEF CloseHandle, IInv, TypeOK
  <2> QED BY <1>2, <2>1, <2>2 DEF CloseHandle, IInv, TypeOK
<1>5. Calls'
  BY <1>1 DEF CloseHandle, Calls, IInv
<1> QED BY <1>1, <1>3, <1>4, <1>5, ReleaseKeeps DEF IInv

(* The steps of one handle that only go on with its call: no engine, no    *)
(* directory, no binding changes.                                          *)
LEMMA RaisedKeeps ==
  ASSUME IInv, NEW s \in Session, Raised(s)
  PROVE  IInv'
<1>1. /\ pc[s] = "raised" /\ pc' = [pc EXCEPT ![s] = "idle"] /\ mine[s] = None
      /\ UNCHANGED <<tables, bound, known, fails, engineVars, handleVars, callVars>>
  BY DEF Raised, At, Goto, IInv, Calls
<1> USE DEF engineVars, handleVars, callVars
<1>2. TypeOK'
  BY <1>1 DEF IInv, TypeOK, Live
<1>3. Owners' /\ Calls'
  BY <1>1 DEF IInv, Owners, Calls, Live, TypeOK
<1>4. Builders' /\ Segments'
  BY <1>1 DEF IInv, Builders, Building, Segments, Live, TypeOK
<1>5. Runners' /\ Used'
  BY <1>1 DEF IInv, Runners, Used, InUse, Live, TypeOK
<1> QED BY <1>2, <1>3, <1>4, <1>5 DEF IInv

LEMMA GetRunnerKeeps ==
  ASSUME IInv, NEW s \in Session, GetRunner(s)
  PROVE  IInv'
<1>1. /\ pc[s] = "matched" /\ pc' = [pc EXCEPT ![s] = "launch"]
      /\ eng[mine[s]].plane = "shm" => eng[mine[s]].loaded
      /\ UNCHANGED <<tables, bound, known, fails, engineVars, handleVars, callVars>>
  BY DEF GetRunner, At, Goto
<1> USE DEF engineVars, handleVars, callVars
<1>2. TypeOK'
  BY <1>1 DEF IInv, TypeOK, Live
<1>3. Owners' /\ Calls'
  <2>1. Owners'
    BY <1>1 DEF IInv, Owners, Live
  <2>2. Calls'
    BY <1>1 DEF IInv, Calls, TypeOK
  <2> QED BY <2>1, <2>2
<1>4. Builders' /\ Segments'
  BY <1>1 DEF IInv, Builders, Building, Segments, Live, TypeOK
<1>5. Runners' /\ Used'
  BY <1>1 DEF IInv, Runners, Used, InUse, Live, TypeOK
<1> QED BY <1>2, <1>3, <1>4, <1>5 DEF IInv

LEMMA LoadTablesKeeps ==
  ASSUME IInv, NEW p \in Process, LoadTables(p)
  PROVE  IInv'
<1>1. /\ tables' = tables \cup {p} /\ p \in alive
      /\ UNCHANGED <<bound, known, pc, fails, engineVars, handleVars, callVars>>
  BY DEF LoadTables
<1> USE DEF engineVars, handleVars, callVars
<1>2. TypeOK'
  BY <1>1 DEF IInv, TypeOK, Live
<1>3. Owners' /\ Calls'
  BY <1>1 DEF IInv, Owners, Calls, Live
<1>4. Builders' /\ Segments'
  BY <1>1 DEF IInv, Builders, Building, Segments, Live
<1>5. Runners' /\ Used'
  BY <1>1 DEF IInv, Runners, Used, InUse, Live
<1> QED BY <1>2, <1>3, <1>4, <1>5 DEF IInv

(* The steps that pick a bound engine up. *)
LEMMA MatchKeeps ==
  ASSUME IInv, NEW s \in Session, Match(s) \/ Warm(s)
  PROVE  IInv'
<1> DEFINE p == Of(s)
<1>1. PICK q \in Query : /\ bound[p][q] # None
                         /\ mine' = [mine EXCEPT ![s] = bound[p][q]]
  BY DEF Match, Warm
<1> DEFINE e == bound[p][q]
<1>2. /\ pc[s] = "idle" /\ s \in open /\ pc' = [pc EXCEPT ![s] = "matched"]
      /\ UNCHANGED <<tables, bound, known, fails, old, next, engineVars, handleVars>>
  BY DEF Match, Warm, Rests, At, Goto
<1>3. p \in Process /\ e \in EngineId /\ e # None /\ eng[e].of = p /\ Live(e)
  BY <1>1, NoneIsNew DEF IInv, TypeOK, Owners, Live, Session, Of
<1>4. mine[s] = None /\ old[s] = None
  BY <1>2 DEF IInv, Calls
<1>5. mine' = [mine EXCEPT ![s] = e]
  BY <1>1
<1> HIDE DEF p, e
<1> USE DEF engineVars, handleVars
<1>6. TypeOK'
  <2>1. \A t \in Session : \A d \in {mine'[t], old'[t]} \ {None} :
          eng'[d].of = Of(t) /\ Live(d)'
    BY <1>2, <1>3, <1>5 DEF IInv, TypeOK, Live, p
  <2>2. mine' \in [Session -> EngineId \cup {None}]
    BY <1>3, <1>5 DEF IInv, TypeOK
  <2> QED BY <1>2, <2>1, <2>2 DEF IInv, TypeOK
<1>7. Owners' /\ Calls'
  BY <1>2, <1>3, <1>5 DEF IInv, Owners, Calls, Live, TypeOK
<1>8. Builders' /\ Segments'
  BY <1>2, <1>3, <1>5 DEF IInv, Builders, Building, Segments, Live, TypeOK
<1>9. s \notin cut
  BY <1>4, NoneIsNew DEF IInv, Runners, TypeOK
<1>10. Runners'
  BY <1>2, <1>3, <1>5, <1>9 DEF IInv, Runners, TypeOK
<1>11. Used'
  BY <1>2, <1>3, <1>4, <1>5, NoneIsNew DEF IInv, Used, InUse, Live, TypeOK
<1> QED BY <1>6, <1>7, <1>8, <1>10, <1>11 DEF IInv

(* The steps that make an engine. *)
LEMMA MakeKeeps ==
  ASSUME IInv, NEW s \in Session, BindLive(s) \/ BindSnapshot(s) \/ Promote(s)
  PROVE  IInv'
<1> DEFINE p == Of(s)
<1> USE NoEngineType, NoneIsNew
<1>1. PICK plane \in {"parquet", "shm"}, l \in {"stage", "register"} : Make(s, plane, l)
  BY DEF BindLive, BindSnapshot, Promote
<1>2. PICK e \in EngineId : /\ eng[e] = NoEngine /\ eng' = [eng EXCEPT ![e] = New(p, plane)]
                            /\ mine' = [mine EXCEPT ![s] = e]
  BY <1>1 DEF Make
<1>3. /\ pc[s] = "idle" /\ s \in open /\ p \in alive /\ p \in Process
      /\ pc' = [pc EXCEPT ![s] = l] /\ mine[s] = None /\ old[s] = None
      /\ UNCHANGED <<bound, known, fails, next, dirs, stray, cut, hurt, handleVars>>
  BY <1>1 DEF Make, Goto, BindLive, BindSnapshot, Promote, Rests, At, IInv, Calls, Owners,
              TypeOK, Session, Of
<1>4. tables' \in {tables, tables \cup {p}}
  BY DEF BindLive, BindSnapshot, Promote
<1>5. \/ old' = old
      \/ \E d \in EngineId : old' = [old EXCEPT ![s] = d] /\ eng[d].of = p
  <2>1. CASE Promote(s)
    <3>1. 1 \in Query
      BY Package DEF Query
    <3>2. bound[p][1] # None /\ old' = [old EXCEPT ![s] = bound[p][1]]
      BY <2>1 DEF Promote
    <3>3. bound[p][1] \in EngineId /\ eng[bound[p][1]].of = p
      BY <1>3, <3>1, <3>2 DEF IInv, TypeOK, Owners
    <3> QED BY <3>2, <3>3
  <2> QED BY <2>1 DEF BindLive, BindSnapshot
<1>6. /\ New(p, plane) \in Engine /\ New(p, plane).of = p
      /\ ~New(p, plane).loaded /\ ~New(p, plane).up
  BY <1>3, NewType DEF New
<1>7. /\ e \notin dirs /\ e \notin stray /\ e \notin hurt
      /\ \A t \in Session : mine[t] # e /\ old[t] # e
      /\ \A r \in Process : \A q \in Query : bound[r][q] # e
  <2>1. eng[e].of = None /\ None \notin Process
    BY <1>2
  <2>2. \A t \in Session : Of(t) \in Process /\ mine[t] # e /\ old[t] # e
    BY <2>1 DEF IInv, TypeOK, Session, Of
  <2> QED BY <2>1, <2>2 DEF IInv, TypeOK, Owners
<1>8. /\ eng' \in [EngineId -> Engine] /\ eng'[e] = New(p, plane)
      /\ \A d \in EngineId \ {e} : eng'[d] = eng[d] /\ (Live(d)' <=> Live(d))
  BY <1>2, <1>3, <1>6 DEF IInv, TypeOK, Live, handleVars
<1>9. /\ mine' \in [Session -> EngineId \cup {None}] /\ mine'[s] = e
      /\ old' \in [Session -> EngineId \cup {None}]
      /\ \A t \in Session \ {s} : mine'[t] = mine[t] /\ old'[t] = old[t] /\ pc'[t] = pc[t]
      /\ pc'[s] = l
  BY <1>2, <1>3, <1>5 DEF IInv, TypeOK
<1>10. \A t \in Session : \A d \in {mine'[t], old'[t]} \ {None} :
         d \in EngineId /\ eng'[d].of = Of(t) /\ Live(d)'
  <2>1. Live(e)' /\ eng'[e].of = p
    BY <1>3, <1>6, <1>8 DEF Live, handleVars
  <2>2. \A d \in {old'[s]} \ {None} : d \in EngineId /\ d # e /\ eng[d].of = p /\ Live(d)
    BY <1>2, <1>3, <1>5, <1>7 DEF IInv, TypeOK, Live
  <2>3. \A t \in Session \ {s} : \A d \in {mine'[t], old'[t]} \ {None} :
          d \in EngineId /\ d # e /\ eng[d].of = Of(t) /\ Live(d)
    BY <1>7, <1>9 DEF IInv, TypeOK
  <2> QED BY <1>8, <1>9, <2>1, <2>2, <2>3
<1> HIDE DEF p
<1>11. TypeOK'
  <2>1. \A d \in dirs' \cup stray' \cup hurt' : d \in EngineId /\ eng'[d].of \in Process
    BY <1>3, <1>7, <1>8 DEF IInv, TypeOK
  <2>2. tables' \subseteq alive' /\ pc' \in [Session -> {"idle", "stage", "write", "register",
                                     "raised", "matched", "launch", "running"}]
    BY <1>3, <1>4 DEF IInv, TypeOK, handleVars
  <2> QED BY <1>3, <1>8, <1>9, <1>10, <2>1, <2>2 DEF IInv, TypeOK, handleVars
<1>12. Owners'
  <2>1. \A d \in EngineId : eng'[d].of # None => pid'[eng'[d].of] # None
    BY <1>3, <1>6, <1>8 DEF IInv, Owners, handleVars
  <2>2. \A d \in stray' \cup hurt' : Live(d)'
    BY <1>3, <1>7, <1>8 DEF IInv, Owners, TypeOK
  <2>3. \A r \in Process : \A q \in Query :
          bound'[r][q] # None => r \in alive' /\ eng'[bound'[r][q]].of = r
    BY <1>3, <1>7, <1>8 DEF IInv, Owners, TypeOK, handleVars
  <2> QED BY <1>3, <2>1, <2>2, <2>3 DEF IInv, Owners, handleVars
<1>13. Calls'
  BY <1>3, <1>5, <1>9 DEF IInv, Calls, TypeOK, handleVars, BindLive, BindSnapshot, Promote
<1>14. Builders'
  BY <1>3, <1>6, <1>7, <1>8, <1>9 DEF IInv, Builders, Building, Calls, TypeOK
<1>15. Segments'
  <2>1. \A d \in EngineId : Live(d)' /\ eng'[d].loaded => d \in dirs'
    BY <1>3, <1>6, <1>8 DEF IInv, Segments
  <2>2. ASSUME NEW d \in dirs', Live(d)', d \notin hurt'
        PROVE  eng'[d].loaded \/ \E t \in Session : pc'[t] = "write" /\ mine'[t] = d
    <3>1. d \in EngineId \ {e} /\ d \in dirs /\ d \notin hurt
      BY <1>3, <1>7, <2>2 DEF IInv, TypeOK
    <3>2. Live(d) /\ eng'[d] = eng[d]
      BY <1>8, <2>2, <3>1
    <3>3. ASSUME NEW t \in Session, pc[t] = "write", mine[t] = d
          PROVE  pc'[t] = "write" /\ mine'[t] = d
      BY <1>3, <1>9, <3>3
    <3> QED BY <3>1, <3>2, <3>3 DEF IInv, Segments
  <2> QED BY <2>1, <2>2 DEF Segments
<1>16. s \notin cut
  BY <1>3 DEF IInv, Runners, TypeOK
<1>17. Runners'
  <2>1. \A t \in cut' : t \in Session \ {s}
    BY <1>3, <1>16 DEF IInv, TypeOK
  <2>2. \A t \in cut' : mine'[t] \in hurt'
    BY <1>3, <1>9, <2>1 DEF IInv, Runners
  <2>3. ASSUME NEW t \in Session, pc'[t] = "launch", t \notin cut', eng'[mine'[t]].plane = "shm"
        PROVE  eng'[mine'[t]].loaded
    <3>1. t # s
      BY <1>9, <2>3
    <3>2. pc[t] = "launch" /\ mine'[t] = mine[t] /\ t \notin cut
      BY <1>3, <1>9, <2>3, <3>1
    <3>3. mine[t] \in EngineId \ {e}
      BY <1>7, <3>2 DEF IInv, Calls, TypeOK
    <3>4. eng'[mine[t]] = eng[mine[t]]
      BY <1>8, <3>3
    <3> QED BY <2>3, <3>2, <3>4 DEF IInv, Runners
  <2> QED BY <1>3, <2>2, <2>3 DEF IInv, Runners
<1>18. Used'
  <2> SUFFICES ASSUME NEW d \in EngineId, Live(d)', eng'[d].up \/ eng'[d].loaded
               PROVE  InUse(d)'
    BY DEF Used
  <2>1. d # e /\ eng'[d] = eng[d] /\ Live(d)
    BY <1>6, <1>8
  <2>2. InUse(d)
    BY <2>1 DEF IInv, Used
  <2>3. ASSUME NEW t \in Session, d \in {mine[t], old[t]}
        PROVE  d \in {mine'[t], old'[t]}
    BY <1>3, <1>9, <2>3
  <2> QED BY <1>3, <2>1, <2>2, <2>3 DEF InUse, handleVars
<1> QED BY <1>11, <1>12, <1>13, <1>14, <1>15, <1>17, <1>18 DEF IInv

(* The steps of a hot-load. *)
LEMMA SweepKeeps ==
  ASSUME IInv, NEW s \in Session, pc[s] = "stage"
  PROVE  /\ mine[s] \in EngineId /\ Live(mine[s]) /\ s \in open
         /\ Swept \in [EngineId -> Engine] /\ Kept \subseteq dirs
         /\ \A e \in EngineId : Live(e) => Swept[e] = eng[e]
         /\ \A e \in EngineId : Swept[e].of \in alive => Live(e)
         /\ \A e \in EngineId : Swept[e].of # None => Swept[e] = eng[e]
         /\ \A e \in dirs : Live(e) => e \in Kept
         /\ \A e \in Kept \cup stray \cup hurt : Live(e)
<1>1. mine[s] \in EngineId /\ Live(mine[s]) /\ s \in open
  BY DEF IInv, Calls, TypeOK
<1>2. None \notin alive
  BY NoneIsNew DEF IInv, TypeOK
<1> QED BY <1>1, <1>2, SweptFacts, NoEngineType DEF IInv, TypeOK, Owners, Live

LEMMA StageKeeps ==
  ASSUME IInv, NEW s \in Session, Stage(s)
  PROVE  IInv'
<1>1. /\ pc[s] = "stage" /\ pc' = [pc EXCEPT ![s] = "write"]
      /\ dirs' = Kept \cup {mine[s]} /\ eng' = Swept
      /\ UNCHANGED <<tables, bound, known, fails, stray, cut, hurt, handleVars, callVars>>
  BY DEF Stage, At, Goto
<1>2. /\ mine[s] \in EngineId /\ Live(mine[s]) /\ s \in open
      /\ eng' \in [EngineId -> Engine] /\ Kept \subseteq dirs
      /\ \A e \in EngineId : Live(e) => eng'[e] = eng[e]
      /\ \A e \in EngineId : eng'[e].of \in alive => Live(e)
      /\ \A e \in EngineId : eng'[e].of # None => eng'[e] = eng[e]
      /\ \A e \in dirs : Live(e) => e \in Kept
      /\ \A e \in Kept \cup stray \cup hurt : Live(e)
  BY <1>1, SweepKeeps
<1>3. alive' = alive /\ pid' = pid /\ mine' = mine /\ old' = old /\ bound' = bound
      /\ stray' = stray /\ hurt' = hurt /\ cut' = cut /\ open' = open /\ refs' = refs
  BY <1>1 DEF handleVars, callVars
<1>4. \A e \in EngineId : Live(e)' <=> Live(e)
  BY <1>2, <1>3 DEF Live
<1>5. \A t \in Session : \A e \in {mine[t], old[t]} \ {None} :
        e \in EngineId /\ eng'[e] = eng[e] /\ Live(e)
  BY <1>2 DEF IInv, TypeOK
<1>6. TypeOK'
  <2>1. \A e \in dirs' \cup stray' \cup hurt' : e \in EngineId /\ eng'[e].of \in Process
    BY <1>1, <1>2, <1>3 DEF IInv, TypeOK, Live
  <2>2. \A t \in Session : \A e \in {mine'[t], old'[t]} \ {None} :
          eng'[e].of = Of(t) /\ Live(e)'
    BY <1>3, <1>4, <1>5 DEF IInv, TypeOK
  <2>3. pc' \in [Session -> {"idle", "stage", "write", "register", "raised", "matched",
                             "launch", "running"}]
    BY <1>1 DEF IInv, TypeOK
  <2> QED BY <1>1, <1>2, <2>1, <2>2, <2>3 DEF IInv, TypeOK, handleVars, callVars
<1>7. Owners'
  <2>1. \A p \in Process : \A q \in Query : bound[p][q] # None =>
          eng'[bound[p][q]] = eng[bound[p][q]]
    BY <1>2 DEF IInv, Owners, TypeOK, Live
  <2>2. \A e \in stray' \cup hurt' : Live(e)'
    BY <1>2, <1>3, <1>4 DEF IInv, TypeOK
  <2> QED BY <1>2, <1>3, <2>1, <2>2 DEF IInv, Owners
<1>8. Calls'
  BY <1>1, <1>2, <1>3 DEF IInv, Calls, TypeOK
<1>9. Builders'
  <2>1. ASSUME NEW t \in Session, Building(t)'
        PROVE  Building(t) /\ mine[t] \in EngineId /\ eng'[mine[t]] = eng[mine[t]]
    <3>1. Building(t)
      BY <1>1, <2>1 DEF Building, IInv, TypeOK
    <3>2. mine[t] # None
      BY <3>1 DEF Building, IInv, Calls
    <3> QED BY <1>5, <3>1, <3>2
  <2>2. ASSUME NEW t \in Session, pc'[t] = "write"
        PROVE  mine[t] \in dirs'
    <3>1. CASE t = s
      BY <1>1, <3>1
    <3>2. CASE t # s
      <4>1. pc[t] = "write" /\ mine[t] # None
        BY <1>1, <2>2, <3>2 DEF IInv, TypeOK, Calls
      <4> QED BY <1>1, <1>2, <1>5, <4>1 DEF IInv, Builders
    <3> QED BY <3>1, <3>2
  <2> QED BY <1>3, <2>1, <2>2 DEF IInv, Builders, Building
<1>10. Segments'
  <2>1. \A e \in EngineId : Live(e)' /\ eng'[e].loaded => e \in dirs'
    BY <1>1, <1>2, <1>4 DEF IInv, Segments
  <2>2. ASSUME NEW e \in dirs', Live(e)', e \notin hurt'
        PROVE  eng'[e].loaded \/ \E t \in Session : pc'[t] = "write" /\ mine'[t] = e
    <3>1. CASE e = mine[s]
      BY <1>1, <1>3, <3>1 DEF IInv, TypeOK
    <3>2. CASE e \in Kept
      <4>1. e \in EngineId /\ e \in dirs /\ Live(e) /\ eng'[e] = eng[e]
        BY <1>2, <3>2 DEF IInv, TypeOK
      <4>2. ASSUME NEW t \in Session, pc[t] = "write", mine[t] = e
            PROVE  pc'[t] = "write" /\ mine'[t] = e
        BY <1>1, <1>3, <4>2 DEF IInv, TypeOK
      <4> QED BY <1>3, <2>2, <4>1, <4>2 DEF IInv, Segments
    <3> QED BY <1>1, <3>1, <3>2
  <2> QED BY <2>1, <2>2 DEF Segments
<1>11. Runners'
  <2>1. ASSUME NEW t \in Session, pc'[t] = "launch", t \notin cut', eng'[mine'[t]].plane = "shm"
        PROVE  eng'[mine'[t]].loaded
    <3>1. pc[t] = "launch" /\ mine[t] # None
      BY <1>1, <2>1 DEF IInv, TypeOK, Calls
    <3> QED BY <1>3, <1>5, <2>1, <3>1 DEF IInv, Runners
  <2> QED BY <1>3, <2>1 DEF IInv, Runners
<1>12. Used'
  BY <1>2, <1>3, <1>4 DEF IInv, Used, InUse
<1> QED BY <1>6, <1>7, <1>8, <1>9, <1>10, <1>11, <1>12 DEF IInv

LEMMA DegradeKeeps ==
  ASSUME IInv, NEW s \in Session, Degrade(s)
  PROVE  IInv'
<1>1. /\ pc[s] = "stage" /\ pc' = [pc EXCEPT ![s] = "register"] /\ dirs' = Kept
      /\ eng' = [Swept EXCEPT ![mine[s]].plane = "parquet"]
      /\ UNCHANGED <<tables, bound, known, fails, stray, cut, hurt, handleVars, callVars>>
  BY DEF Degrade, At, Goto
<1>2. /\ mine[s] \in EngineId /\ Live(mine[s]) /\ s \in open
      /\ eng' \in [EngineId -> Engine] /\ Kept \subseteq dirs
      /\ \A e \in EngineId : Live(e) =>
           /\ eng'[e].of = eng[e].of /\ eng'[e].loaded = eng[e].loaded /\ eng'[e].up = eng[e].up
           /\ eng'[e].plane = "shm" => eng[e].plane = "shm"
      /\ \A e \in EngineId : eng'[e].of \in alive => Live(e)
      /\ \A e \in EngineId : eng'[e].of # None => eng'[e].of = eng[e].of
      /\ \A e \in dirs : Live(e) => e \in Kept
      /\ \A e \in Kept \cup stray \cup hurt : Live(e)
  <2>1. mine[s] \in EngineId /\ Live(mine[s]) /\ Swept \in [EngineId -> Engine]
        /\ Swept[mine[s]] = eng[mine[s]]
    BY <1>1, SweepKeeps
  <2>2. /\ eng'[mine[s]] = [eng[mine[s]] EXCEPT !.plane = "parquet"]
        /\ \A e \in EngineId \ {mine[s]} : eng'[e] = Swept[e]
        /\ eng' \in [EngineId -> Engine] /\ eng[mine[s]] \in Engine
    <3>1. eng[mine[s]] \in Engine
      BY <2>1 DEF IInv, TypeOK
    <3>2. [eng[mine[s]] EXCEPT !.plane = "parquet"] \in Engine
      BY <3>1 DEF Engine
    <3>3. eng' = [Swept EXCEPT ![mine[s]] = [eng[mine[s]] EXCEPT !.plane = "parquet"]]
      BY <1>1, <2>1
    <3> QED BY <2>1, <3>1, <3>2, <3>3
  <2>3. /\ eng'[mine[s]].of = eng[mine[s]].of /\ eng'[mine[s]].loaded = eng[mine[s]].loaded
        /\ eng'[mine[s]].up = eng[mine[s]].up /\ eng'[mine[s]].plane = "parquet"
    BY <2>2 DEF Engine
  <2> QED BY <1>1, <2>1, <2>2, <2>3, SweepKeeps
<1>3. alive' = alive /\ pid' = pid /\ mine' = mine /\ old' = old /\ bound' = bound
      /\ stray' = stray /\ hurt' = hurt /\ cut' = cut /\ open' = open /\ refs' = refs
  BY <1>1 DEF handleVars, callVars
<1>4. \A e \in EngineId : Live(e)' <=> Live(e)
  BY <1>2, <1>3 DEF Live
<1>5. \A t \in Session : \A e \in {mine[t], old[t]} \ {None} :
        e \in EngineId /\ eng'[e].of = eng[e].of /\ eng'[e].loaded = eng[e].loaded /\ Live(e)
  BY <1>2 DEF IInv, TypeOK
<1>6. TypeOK'
  <2>1. \A e \in dirs' \cup stray' \cup hurt' : e \in EngineId /\ eng'[e].of \in Process
    BY <1>1, <1>2, <1>3 DEF IInv, TypeOK, Live
  <2>2. \A t \in Session : \A e \in {mine'[t], old'[t]} \ {None} :
          eng'[e].of = Of(t) /\ Live(e)'
    BY <1>3, <1>4, <1>5 DEF IInv, TypeOK
  <2>3. pc' \in [Session -> {"idle", "stage", "write", "register", "raised", "matched",
                             "launch", "running"}]
    BY <1>1 DEF IInv, TypeOK
  <2> QED BY <1>1, <1>2, <2>1, <2>2, <2>3 DEF IInv, TypeOK, handleVars, callVars
<1>7. Owners'
  <2>1. \A p \in Process : \A q \in Query : bound[p][q] # None =>
          eng'[bound[p][q]].of = eng[bound[p][q]].of
    BY <1>2 DEF IInv, Owners, TypeOK, Live
  <2>2. \A e \in stray' \cup hurt' : Live(e)'
    BY <1>2, <1>3, <1>4 DEF IInv, TypeOK
  <2> QED BY <1>2, <1>3, <2>1, <2>2 DEF IInv, Owners
<1>8. Calls'
  BY <1>1, <1>2, <1>3 DEF IInv, Calls, TypeOK
<1>9. Builders'
  <2>1. ASSUME NEW t \in Session, Building(t)'
        PROVE  /\ Building(t) /\ mine[t] \in EngineId /\ eng'[mine[t]].loaded = eng[mine[t]].loaded
               /\ pc'[t] = pc[t] /\ Live(mine[t])
    <3>1. Building(t) /\ pc'[t] = pc[t]
      BY <1>1, <2>1 DEF Building, IInv, TypeOK
    <3>2. mine[t] # None
      BY <3>1 DEF Building, IInv, Calls
    <3> QED BY <1>5, <3>1, <3>2
  <2> QED BY <1>1, <1>2, <1>3, <2>1 DEF IInv, Builders, Building
<1>10. Segments'
  <2>1. \A e \in EngineId : Live(e)' /\ eng'[e].loaded => e \in dirs'
    BY <1>1, <1>2, <1>4 DEF IInv, Segments
  <2>2. ASSUME NEW e \in dirs', Live(e)', e \notin hurt'
        PROVE  eng'[e].loaded \/ \E t \in Session : pc'[t] = "write" /\ mine'[t] = e
    <3>1. e \in EngineId /\ e \in dirs /\ Live(e) /\ eng'[e].loaded = eng[e].loaded
      BY <1>1, <1>2, <2>2 DEF IInv, TypeOK
    <3>2. ASSUME NEW t \in Session, pc[t] = "write", mine[t] = e
          PROVE  pc'[t] = "write" /\ mine'[t] = e
      BY <1>1, <1>3, <3>2 DEF IInv, TypeOK
    <3> QED BY <1>3, <2>2, <3>1, <3>2 DEF IInv, Segments
  <2> QED BY <2>1, <2>2 DEF Segments
<1>11. Runners'
  <2>1. ASSUME NEW t \in Session, pc'[t] = "launch", t \notin cut', eng'[mine'[t]].plane = "shm"
        PROVE  eng'[mine'[t]].loaded
    <3>1. pc[t] = "launch" /\ mine[t] \in EngineId /\ Live(mine[t])
      <4>1. pc[t] = "launch" /\ mine[t] # None
        BY <1>1, <2>1 DEF IInv, TypeOK, Calls
      <4> QED BY <1>5, <4>1
    <3> QED BY <1>2, <1>3, <1>5, <2>1, <3>1 DEF IInv, Runners
  <2> QED BY <1>3, <2>1 DEF IInv, Runners
<1>12. Used'
  BY <1>2, <1>3, <1>4 DEF IInv, Used, InUse
<1> QED BY <1>6, <1>7, <1>8, <1>9, <1>10, <1>11, <1>12 DEF IInv

LEMMA WriteSegmentsKeeps ==
  ASSUME IInv, NEW s \in Session, WriteSegments(s)
  PROVE  IInv'
<1>1. /\ pc[s] = "write" /\ pc' = [pc EXCEPT ![s] = "register"]
      /\ eng' = [eng EXCEPT ![mine[s]].loaded = TRUE]
      /\ UNCHANGED <<tables, bound, known, fails, dirs, stray, cut, hurt, handleVars, callVars>>
  BY DEF WriteSegments, At, Goto
<1>2. mine[s] \in EngineId /\ mine[s] \in dirs /\ s \in open
  BY <1>1 DEF IInv, Calls, Builders, TypeOK
<1>3. /\ alive' = alive /\ pid' = pid /\ mine' = mine /\ old' = old /\ bound' = bound
      /\ stray' = stray /\ hurt' = hurt /\ cut' = cut /\ open' = open /\ refs' = refs
      /\ dirs' = dirs
  BY <1>1 DEF handleVars, callVars
<1>4. /\ eng' \in [EngineId -> Engine]
      /\ \A e \in EngineId : /\ eng'[e].of = eng[e].of /\ eng'[e].plane = eng[e].plane
                             /\ e # mine[s] => eng'[e] = eng[e]
      /\ eng'[mine[s]].loaded
  <2>1. /\ eng' \in [EngineId -> Engine] /\ eng[mine[s]] \in Engine
        /\ eng'[mine[s]] = [eng[mine[s]] EXCEPT !.loaded = TRUE]
        /\ \A e \in EngineId \ {mine[s]} : eng'[e] = eng[e]
    <3>1. eng \in [EngineId -> Engine] /\ eng[mine[s]] \in Engine
      BY <1>2 DEF IInv, TypeOK
    <3>2. [eng[mine[s]] EXCEPT !.loaded = TRUE] \in Engine
      BY <3>1 DEF Engine
    <3> QED BY <1>1, <1>2, <3>1, <3>2
  <2> QED BY <2>1 DEF Engine
<1>5. \A e \in EngineId : Live(e)' <=> Live(e)
  BY <1>3, <1>4 DEF Live
<1>6. TypeOK'
  <2>1. \A t \in Session : \A e \in {mine'[t], old'[t]} \ {None} :
          eng'[e].of = Of(t) /\ Live(e)'
    <3> TAKE t \in Session
    <3> TAKE e \in {mine'[t], old'[t]} \ {None}
    <3>1. e \in EngineId /\ e \in {mine[t], old[t]} \ {None}
      BY <1>3 DEF IInv, TypeOK
    <3>2. eng[e].of = Of(t) /\ Live(e)
      BY <3>1 DEF IInv, TypeOK
    <3> QED BY <1>4, <1>5, <3>1, <3>2
  <2>2. pc' \in [Session -> {"idle", "stage", "write", "register", "raised", "matched",
                             "launch", "running"}]
    BY <1>1 DEF IInv, TypeOK
  <2> QED BY <1>1, <1>4, <2>1, <2>2 DEF IInv, TypeOK, handleVars, callVars
<1>7. Owners'
  <2>1. \A p \in Process : \A q \in Query :
          bound'[p][q] # None => eng'[bound'[p][q]].of = eng[bound[p][q]].of
    BY <1>3, <1>4 DEF IInv, TypeOK
  <2>2. \A e \in stray' \cup hurt' : Live(e)'
    BY <1>3, <1>5 DEF IInv, Owners, TypeOK
  <2> QED BY <1>3, <1>4, <2>1, <2>2 DEF IInv, Owners
<1>8. Calls'
  BY <1>1, <1>2, <1>3 DEF IInv, Calls, TypeOK
<1>9. Builders'
  <2>1. ASSUME NEW t \in Session, Building(t)'
        PROVE  Building(t) /\ pc'[t] = pc[t] /\ mine[t] \in EngineId /\ mine[t] # mine[s]
    <3>1. Building(t) /\ pc'[t] = pc[t] /\ t # s
      BY <1>1, <2>1 DEF Building, IInv, TypeOK
    <3>2. mine[t] # None
      BY <3>1 DEF Building, IInv, Calls
    <3>3. mine[t] # mine[s]
      BY <1>1, <3>1 DEF Building, IInv, Builders
    <3> QED BY <3>1, <3>2, <3>3 DEF IInv, TypeOK
  <2> QED BY <1>3, <1>4, <2>1 DEF IInv, Builders, Building
<1>10. Segments'
  <2>1. \A e \in EngineId : Live(e)' /\ eng'[e].loaded => e \in dirs'
    BY <1>2, <1>3, <1>4, <1>5 DEF IInv, Segments
  <2>2. ASSUME NEW e \in dirs', Live(e)', e \notin hurt', e # mine[s]
        PROVE  eng'[e].loaded \/ \E t \in Session : pc'[t] = "write" /\ mine'[t] = e
    <3>1. e \in EngineId /\ e \in dirs /\ Live(e) /\ eng'[e] = eng[e]
      BY <1>3, <1>4, <1>5, <2>2 DEF IInv, TypeOK
    <3>2. ASSUME NEW t \in Session, pc[t] = "write", mine[t] = e
          PROVE  pc'[t] = "write" /\ mine'[t] = e
      BY <1>1, <1>3, <2>2, <3>2 DEF IInv, TypeOK
    <3> QED BY <1>3, <2>2, <3>1, <3>2 DEF IInv, Segments
  <2> QED BY <1>4, <2>1, <2>2 DEF Segments
<1>11. Runners'
  <2>1. ASSUME NEW t \in Session, pc'[t] = "launch", t \notin cut', eng'[mine'[t]].plane = "shm"
        PROVE  eng'[mine'[t]].loaded
    <3>1. pc[t] = "launch" /\ mine[t] \in EngineId
      BY <1>1, <2>1 DEF IInv, TypeOK, Calls
    <3> QED BY <1>3, <1>4, <2>1, <3>1 DEF IInv, Runners
  <2> QED BY <1>3, <2>1 DEF IInv, Runners
<1>12. Used'
  <2>1. \A e \in EngineId : InUse(e) => InUse(e)'
    BY <1>3, <1>4 DEF InUse
  <2>2. InUse(mine[s])
    BY DEF InUse
  <2> QED BY <1>4, <1>5, <2>1, <2>2 DEF IInv, Used
<1> QED BY <1>6, <1>7, <1>8, <1>9, <1>10, <1>11, <1>12 DEF IInv

LEMMA LaunchKeeps ==
  ASSUME IInv, NEW s \in Session, Launch(s)
  PROVE  IInv'
<1>1. /\ pc[s] = "launch" /\ pc' = [pc EXCEPT ![s] = "running"]
      /\ UNCHANGED <<tables, bound, known, fails, cut, hurt, handleVars, callVars>>
  BY DEF Launch, At, Goto
<1>2. mine[s] \in EngineId /\ Live(mine[s]) /\ s \in open
  BY <1>1 DEF IInv, Calls, TypeOK
<1>3. /\ alive' = alive /\ pid' = pid /\ mine' = mine /\ old' = old /\ bound' = bound
      /\ hurt' = hurt /\ cut' = cut /\ open' = open /\ refs' = refs
  BY <1>1 DEF handleVars, callVars
<1>4. /\ dirs' = dirs \/ (dirs' = dirs \cup {mine[s]} /\ eng[mine[s]].plane = "shm")
      /\ stray' = stray \/ (stray' = stray \cup {mine[s]} /\ s \in cut)
  BY DEF Launch
<1>5. /\ eng' \in [EngineId -> Engine]
      /\ \A e \in EngineId : /\ eng'[e].of = eng[e].of /\ eng'[e].plane = eng[e].plane
                             /\ eng'[e].loaded = eng[e].loaded
                             /\ e # mine[s] => eng'[e] = eng[e]
  <2>1. eng' = eng \/ eng' = [eng EXCEPT ![mine[s]].up = TRUE]
    BY DEF Launch
  <2>2. eng \in [EngineId -> Engine] /\ eng[mine[s]] \in Engine
    BY <1>2 DEF IInv, TypeOK
  <2>3. [eng[mine[s]] EXCEPT !.up = TRUE] \in Engine
    BY <2>2 DEF Engine
  <2>4. CASE eng' = [eng EXCEPT ![mine[s]].up = TRUE]
    <3>1. /\ eng' \in [EngineId -> Engine]
          /\ eng'[mine[s]] = [eng[mine[s]] EXCEPT !.up = TRUE]
          /\ \A e \in EngineId \ {mine[s]} : eng'[e] = eng[e]
      BY <1>2, <2>2, <2>3, <2>4
    <3> QED BY <2>2, <3>1 DEF Engine
  <2> QED BY <2>1, <2>2, <2>4
<1>6. \A e \in EngineId : Live(e)' <=> Live(e)
  BY <1>3, <1>5 DEF Live
<1>7. s \in cut => mine[s] \in hurt
  BY DEF IInv, Runners
<1>8. TypeOK'
  <2>1. \A t \in Session : \A e \in {mine'[t], old'[t]} \ {None} :
          eng'[e].of = Of(t) /\ Live(e)'
    BY <1>3, <1>5, <1>6 DEF IInv, TypeOK
  <2>2. \A e \in dirs' \cup stray' \cup hurt' : e \in EngineId /\ eng'[e].of \in Process
    BY <1>2, <1>3, <1>4, <1>5 DEF IInv, TypeOK, Live
  <2>3. pc' \in [Session -> {"idle", "stage", "write", "register", "raised", "matched",
                             "launch", "running"}]
    BY <1>1 DEF IInv, TypeOK
  <2> QED BY <1>1, <1>5, <2>1, <2>2, <2>3 DEF IInv, TypeOK, handleVars, callVars
<1>9. Owners'
  <2>1. \A e \in stray' \cup hurt' : Live(e)'
    BY <1>2, <1>3, <1>4, <1>6 DEF IInv, Owners, TypeOK
  <2>2. \A p \in Process : \A q \in Query :
          bound'[p][q] # None => eng'[bound'[p][q]].of = eng[bound[p][q]].of
    BY <1>3, <1>5 DEF IInv, TypeOK
  <2> QED BY <1>3, <1>5, <2>1, <2>2 DEF IInv, Owners
<1>10. Calls'
  BY <1>1, <1>2, <1>3 DEF IInv, Calls, TypeOK
<1>11. Builders'
  <2>1. ASSUME NEW t \in Session, Building(t)'
        PROVE  Building(t) /\ pc'[t] = pc[t] /\ mine[t] \in EngineId
    BY <1>1, <2>1 DEF Building, IInv, TypeOK, Calls
  <2> QED BY <1>3, <1>4, <1>5, <2>1 DEF IInv, Builders, Building
<1>12. Segments'
  <2>1. \A e \in EngineId : Live(e)' /\ eng'[e].loaded => e \in dirs'
    BY <1>4, <1>5, <1>6 DEF IInv, Segments
  <2>2. ASSUME NEW e \in dirs', Live(e)', e \notin hurt'
        PROVE  eng'[e].loaded \/ \E t \in Session : pc'[t] = "write" /\ mine'[t] = e
    <3>1. CASE e \in dirs
      <4>1. e \in EngineId /\ Live(e) /\ eng'[e].loaded = eng[e].loaded
        BY <1>5, <1>6, <2>2, <3>1 DEF IInv, TypeOK
      <4>2. ASSUME NEW t \in Session, pc[t] = "write", mine[t] = e
            PROVE  pc'[t] = "write" /\ mine'[t] = e
        BY <1>1, <1>3, <4>2 DEF IInv, TypeOK
      <4> QED BY <1>3, <2>2, <3>1, <4>1, <4>2 DEF IInv, Segments
    <3>2. CASE e \notin dirs
      <4>1. e = mine[s] /\ eng[e].plane = "shm" /\ s \notin cut
        BY <1>3, <1>4, <1>7, <2>2, <3>2
      <4>2. eng[e].loaded
        BY <1>1, <4>1 DEF IInv, Runners
      <4> QED BY <1>2, <1>5, <4>1, <4>2
    <3> QED BY <3>1, <3>2
  <2> QED BY <2>1, <2>2 DEF Segments
<1>13. Runners'
  <2>1. ASSUME NEW t \in Session, pc'[t] = "launch", t \notin cut', eng'[mine'[t]].plane = "shm"
        PROVE  eng'[mine'[t]].loaded
    <3>1. pc[t] = "launch" /\ mine[t] \in EngineId
      BY <1>1, <2>1 DEF IInv, TypeOK, Calls
    <3> QED BY <1>3, <1>5, <2>1, <3>1 DEF IInv, Runners
  <2> QED BY <1>3, <1>4, <1>7, <2>1 DEF IInv, Runners
<1>14. Used'
  <2>1. \A e \in EngineId : InUse(e) => InUse(e)'
    BY <1>3, <1>5 DEF InUse
  <2>2. InUse(mine[s])
    BY DEF InUse
  <2> QED BY <1>5, <1>6, <2>1, <2>2 DEF IInv, Used
<1> QED BY <1>8, <1>9, <1>10, <1>11, <1>12, <1>13, <1>14 DEF IInv

(* Processes and cursors. *)
LEMMA OpenCursorKeeps ==
  ASSUME IInv, NEW s \in Session, OpenCursor(s)
  PROVE  IInv'
<1> DEFINE p == Of(s)
<1>1. /\ s \notin made /\ open' = open \cup {s} /\ made' = made \cup {s}
      /\ refs' = [refs EXCEPT ![p] = @ + 1]
      /\ UNCHANGED <<bundled, alive, pid, tables, bound, known, pc, fails, engineVars, callVars>>
  BY DEF OpenCursor
<1>2. PICK r \in open : Of(r) = p
  BY DEF OpenCursor
<1>3. p \in alive /\ p \in Process /\ s \notin open
  BY <1>1, <1>2 DEF IInv, Owners, TypeOK, Session, Of
<1>4. ASSUME NEW o \in Process
      PROVE  /\ refs[o] = Cardinality(OpenOf(o)) /\ refs[o] \in Nat
             /\ refs'[o] = Cardinality({t \in open' : Of(t) = o})
             /\ refs'[o] \in Nat /\ refs'[o] >= refs[o]
  <2>1. refs[o] = Cardinality(OpenOf(o)) /\ refs[o] \in Nat
    <3>1. refs[o] = Cardinality(OpenOf(o))
      BY DEF IInv, TypeOK, OpenOf
    <3> QED BY <3>1, OpenIsFinite DEF IInv
  <2>2. CASE o = p
    <3>1. {t \in open' : Of(t) = o} = OpenOf(o) \cup {s} /\ s \notin OpenOf(o)
      BY <1>1, <1>3, <2>2 DEF OpenOf
    <3>2. Cardinality(OpenOf(o) \cup {s}) = Cardinality(OpenOf(o)) + 1
      BY <3>1, OpenIsFinite, FS_AddElement DEF IInv
    <3>3. refs'[o] = refs[o] + 1
      BY <1>1, <2>2 DEF IInv, TypeOK
    <3>4. refs'[o] = Cardinality({t \in open' : Of(t) = o})
      BY <2>1, <3>1, <3>2, <3>3
    <3> QED BY <2>1, <3>3, <3>4
  <2>3. CASE o # p
    <3>1. {t \in open' : Of(t) = o} = OpenOf(o)
      BY <1>1, <2>3 DEF OpenOf
    <3>2. refs'[o] = refs[o]
      BY <1>1, <2>3 DEF IInv, TypeOK
    <3> QED BY <2>1, <3>1, <3>2
  <2> QED BY <2>2, <2>3
<1> USE DEF engineVars, callVars
<1>5. TypeOK'
  <2>1. refs' = [o \in Process |-> Cardinality({t \in open' : Of(t) = o})]
    BY <1>1, <1>4 DEF IInv, TypeOK
  <2>2. open' \subseteq made' /\ made' \subseteq Session /\ known' \subseteq made'
    BY <1>1 DEF IInv, TypeOK
  <2> QED BY <1>1, <2>1, <2>2 DEF IInv, TypeOK, Live
<1>6. Owners' /\ Calls'
  BY <1>1, <1>3 DEF IInv, Owners, Calls, Live
<1>7. Builders' /\ Segments' /\ Runners'
  BY <1>1 DEF IInv, Builders, Building, Segments, Runners, Live
<1>8. Used'
  <2> SUFFICES ASSUME NEW e \in EngineId, Live(e), InUse(e)
               PROVE  InUse(e)'
    BY <1>1 DEF IInv, Used, Live
  <2>1. eng[e].of \in Process
    BY DEF Live, IInv, TypeOK
  <2>2. eng' = eng /\ bound' = bound /\ mine' = mine /\ old' = old
    BY <1>1
  <2>3. /\ refs[eng[e].of] \in Nat /\ refs'[eng[e].of] \in Nat
        /\ refs'[eng[e].of] >= refs[eng[e].of]
    BY <1>4, <2>1
  <2>4. refs[eng[e].of] > 0 => refs'[eng[e].of] > 0
    BY <2>3
  <2> QED BY <2>2, <2>4 DEF InUse
<1> QED BY <1>5, <1>6, <1>7, <1>8 DEF IInv

LEMMA StartProcessKeeps ==
  ASSUME IInv, NEW p \in Process, StartProcess(p)
  PROVE  IInv'
<1> DEFINE m == <<p, Main>>
<1>1. /\ pid[p] = None /\ alive' = alive \cup {p}
      /\ open' = open \cup {m} /\ made' = made \cup {m} /\ refs' = [refs EXCEPT ![p] = 1]
      /\ UNCHANGED <<bundled, tables, bound, known, pc, fails, engineVars, callVars>>
  BY DEF StartProcess
<1>2. PICK i \in Pid : pid' = [pid EXCEPT ![p] = i]
  BY DEF StartProcess
<1>3. p \notin alive /\ m \in Session /\ Of(m) = p /\ i # None
  BY <1>1, Handles, NoneIsNew DEF IInv, Owners, Session, Of
<1>4. \A e \in EngineId : eng[e].of # p
  BY <1>1, NoneIsNew DEF IInv, Owners
<1>5. OpenOf(p) = {} /\ refs[p] = 0
  <2>1. OpenOf(p) = {}
    BY <1>3 DEF IInv, Owners, OpenOf
  <2> QED BY <2>1, FS_EmptySet DEF IInv, TypeOK, OpenOf
<1> USE DEF engineVars, callVars
<1>6. refs' = [o \in Process |-> Cardinality({t \in open' : Of(t) = o})]
  <2>1. ASSUME NEW o \in Process
        PROVE  refs'[o] = Cardinality({t \in open' : Of(t) = o})
    <3>1. CASE o = p
      <4>1. {t \in open' : Of(t) = o} = {m}
        BY <1>1, <1>3, <1>5, <3>1 DEF OpenOf
      <4>2. Cardinality({m}) = 1
        BY FS_Singleton
      <4>3. refs'[o] = 1
        BY <1>1, <3>1 DEF IInv, TypeOK
      <4> QED BY <4>1, <4>2, <4>3
    <3>2. CASE o # p
      <4>1. {t \in open' : Of(t) = o} = {t \in open : Of(t) = o}
        BY <1>1, <1>3, <3>2
      <4>2. refs'[o] = refs[o]
        BY <1>1, <3>2 DEF IInv, TypeOK
      <4> QED BY <4>1, <4>2 DEF IInv, TypeOK
    <3> QED BY <3>1, <3>2
  <2> QED BY <1>1, <2>1 DEF IInv, TypeOK
<1>7. \A e \in EngineId : Live(e)' <=> Live(e)
  BY <1>1, <1>4 DEF Live
<1> HIDE DEF m
<1>8. TypeOK'
  <2>1. open' \subseteq made' /\ made' \subseteq Session /\ known' \subseteq made'
    BY <1>1, <1>3 DEF IInv, TypeOK
  <2>2. alive' \subseteq Process /\ tables' \subseteq alive' /\ pid' \in [Process -> Pid \cup {None}]
    BY <1>1, <1>2 DEF IInv, TypeOK
  <2>3. \A t \in Session : \A e \in {mine'[t], old'[t]} \ {None} : eng'[e].of = Of(t) /\ Live(e)'
    BY <1>1 DEF IInv, TypeOK, Live
  <2> QED BY <1>1, <1>6, <2>1, <2>2, <2>3 DEF IInv, TypeOK
<1>9. Owners'
  <2>1. \A t \in open' : Of(t) \in alive'
    BY <1>1, <1>3 DEF IInv, Owners
  <2>2. \A o \in Process : pid[o] # None => pid'[o] # None
    BY <1>2, <1>3 DEF IInv, TypeOK
  <2>3. \A o \in alive' : pid'[o] # None
    BY <1>1, <1>2, <1>3, <2>2 DEF IInv, Owners, TypeOK
  <2>4. \A e \in EngineId : eng'[e].of # None => pid'[eng'[e].of] # None
    BY <1>1, <2>2 DEF IInv, Owners, TypeOK, Engine
  <2>5. \A e \in stray' \cup hurt' : Live(e)'
    BY <1>1 DEF IInv, Owners, Live
  <2> QED BY <1>1, <2>1, <2>3, <2>4, <2>5 DEF IInv, Owners
<1>10. Calls'
  BY <1>1 DEF IInv, Calls
<1>11. Builders' /\ Runners'
  BY <1>1 DEF IInv, Builders, Building, Runners
<1>12. Segments'
  BY <1>1, <1>7 DEF IInv, Segments, TypeOK
<1>13. Used'
  <2> SUFFICES ASSUME NEW e \in EngineId, Live(e), InUse(e)
               PROVE  InUse(e)'
    BY <1>1, <1>7 DEF IInv, Used
  <2>1. eng[e].of \in Process /\ eng[e].of # p
    BY <1>3 DEF Live, IInv, TypeOK
  <2>2. refs'[eng[e].of] = refs[eng[e].of]
    BY <1>1, <2>1 DEF IInv, TypeOK
  <2> QED BY <1>1, <2>2 DEF InUse
<1> QED BY <1>8, <1>9, <1>10, <1>11, <1>12, <1>13 DEF IInv

LEMMA KillKeeps ==
  ASSUME IInv, NEW p \in Process, Kill(p)
  PROVE  IInv'
<1> USE NoneIsNew, NoEngineType
<1>1. /\ p \in alive /\ alive' = alive \ {p} /\ tables' = tables \ {p}
      /\ bound' = [bound EXCEPT ![p] = [q \in Query |-> None]]
      /\ refs' = [refs EXCEPT ![p] = 0]
      /\ UNCHANGED <<bundled, pid, dirs, fails>>
  BY DEF Kill
<1>2. /\ open' = open \ {p} \X Handle /\ made' = made \ {p} \X Handle
      /\ known' = known \ {p} \X Handle /\ cut' = cut \ {p} \X Handle
      /\ stray' = {e \in stray : eng[e].of # p} /\ hurt' = {e \in hurt : eng[e].of # p}
  BY DEF Kill
<1>3. /\ pc' = [s \in Session |-> IF s \in {p} \X Handle THEN "idle" ELSE pc[s]]
      /\ mine' = [s \in Session |-> IF s \in {p} \X Handle THEN None ELSE mine[s]]
      /\ old' = [s \in Session |-> IF s \in {p} \X Handle THEN None ELSE old[s]]
      /\ next' = [s \in Session |-> IF s \in {p} \X Handle THEN 1 ELSE next[s]]
  BY DEF Kill
<1>4. \A s \in Session : s \in {p} \X Handle <=> Of(s) = p
  BY DEF Session, Of
<1>5. \A s \in Session :
        /\ Of(s) = p => pc'[s] = "idle" /\ mine'[s] = None /\ old'[s] = None /\ next'[s] = 1
        /\ Of(s) # p => pc'[s] = pc[s] /\ mine'[s] = mine[s] /\ old'[s] = old[s]
                        /\ next'[s] = next[s]
  BY <1>3, <1>4
<1>6. eng' = [e \in EngineId |-> IF eng[e].of # p THEN eng[e]
                                 ELSE IF e \in dirs THEN Closed(New(p, "shm")) ELSE NoEngine]
  BY DEF Kill
<1>7. /\ eng' \in [EngineId -> Engine]
      /\ \A e \in EngineId : /\ eng[e].of # p => eng'[e] = eng[e]
                             /\ eng[e].of = p => \/ eng'[e].of = p
                                                 \/ eng'[e].of = None /\ e \notin dirs
  <2>1. Closed(New(p, "shm")) \in Engine /\ Closed(New(p, "shm")).of = p
    <3>1. New(p, "shm") \in Engine /\ New(p, "shm").of = p
      BY NewType DEF New
    <3> QED BY <3>1, ClosedType
  <2> QED BY <1>6, <2>1 DEF IInv, TypeOK
<1>8. \A e \in EngineId : /\ Live(e)' => Live(e) /\ eng[e].of # p /\ eng'[e] = eng[e]
                          /\ Live(e) /\ eng[e].of # p => Live(e)'
  BY <1>1, <1>7 DEF Live, IInv, TypeOK
<1>9. \A s \in Session : \A e \in {mine'[s], old'[s]} \ {None} :
        /\ Of(s) # p /\ e \in EngineId /\ e \in {mine[s], old[s]}
        /\ eng'[e] = eng[e] /\ eng[e].of = Of(s) /\ Live(e)'
  <2> TAKE s \in Session
  <2> TAKE e \in {mine'[s], old'[s]} \ {None}
  <2>1. Of(s) # p /\ e \in {mine[s], old[s]} \ {None}
    BY <1>5
  <2>2. e \in EngineId /\ eng[e].of = Of(s) /\ Live(e)
    BY <2>1 DEF IInv, TypeOK
  <2> QED BY <1>7, <1>8, <2>1, <2>2
<1>10. open' \subseteq Session /\ \A s \in open' : s \in open /\ Of(s) # p
  BY <1>2, <1>4 DEF IInv, TypeOK
<1>11. TypeOK'
  <2>1. refs' = [o \in Process |-> Cardinality({t \in open' : Of(t) = o})]
    <3>1. ASSUME NEW o \in Process
          PROVE  refs'[o] = Cardinality({t \in open' : Of(t) = o})
      <4>1. CASE o = p
        <5>1. {t \in open' : Of(t) = o} = {}
          BY <1>10, <4>1
        <5> QED BY <1>1, <4>1, <5>1, FS_EmptySet DEF IInv, TypeOK
      <4>2. CASE o # p
        <5>1. {t \in open' : Of(t) = o} = {t \in open : Of(t) = o}
          BY <1>2, <1>4, <4>2 DEF IInv, TypeOK
        <5>2. refs'[o] = refs[o]
          BY <1>1, <4>2 DEF IInv, TypeOK
        <5> QED BY <5>1, <5>2 DEF IInv, TypeOK
      <4> QED BY <4>1, <4>2
    <3> QED BY <1>1, <3>1 DEF IInv, TypeOK
  <2>2. \A e \in dirs' \cup stray' \cup hurt' : e \in EngineId /\ eng'[e].of \in Process
    <3> TAKE e \in dirs' \cup stray' \cup hurt'
    <3>1. e \in EngineId /\ eng[e].of \in Process /\ (e \in dirs \/ eng[e].of # p)
      BY <1>1, <1>2 DEF IInv, TypeOK
    <3> QED BY <1>7, <3>1
  <2>3. /\ pc' \in [Session -> {"idle", "stage", "write", "register", "raised", "matched",
                                "launch", "running"}]
        /\ mine' \in [Session -> EngineId \cup {None}]
        /\ old' \in [Session -> EngineId \cup {None}]
    BY <1>3 DEF IInv, TypeOK
  <2>4. next' \in [Session -> Query]
    BY <1>3, Package DEF IInv, TypeOK, Query
  <2>5. bound' \in [Process -> [Query -> EngineId \cup {None}]]
    BY <1>1 DEF IInv, TypeOK
  <2>6. /\ open' \subseteq made' /\ made' \subseteq Session /\ known' \subseteq made'
        /\ cut' \subseteq Session
    BY <1>2 DEF IInv, TypeOK
  <2>7. alive' \subseteq Process /\ tables' \subseteq alive'
    BY <1>1 DEF IInv, TypeOK
  <2>8. \A s \in Session : \A e \in {mine'[s], old'[s]} \ {None} :
          eng'[e].of = Of(s) /\ Live(e)'
    BY <1>9
  <2>9. bundled' \in BOOLEAN /\ pid' \in [Process -> Pid \cup {None}] /\ fails' \in 0..MaxFail
    BY <1>1 DEF IInv, TypeOK
  <2>10. eng' \in [EngineId -> Engine]
    BY <1>7
  <2> QED BY <2>1, <2>2, <2>3, <2>4, <2>5, <2>6, <2>7, <2>8, <2>9, <2>10 DEF TypeOK
<1>12. Owners'
  <2>1. \A s \in open' : Of(s) \in alive'
    BY <1>1, <1>10 DEF IInv, Owners
  <2>2. \A o \in alive' : pid'[o] # None
    BY <1>1 DEF IInv, Owners
  <2>3. \A e \in EngineId : eng'[e].of # None => pid'[eng'[e].of] # None
    BY <1>1, <1>7 DEF IInv, Owners
  <2>4. \A e \in stray' \cup hurt' : Live(e)'
    BY <1>2, <1>8 DEF IInv, Owners, TypeOK
  <2>5. ASSUME NEW o \in Process, NEW q \in Query, bound'[o][q] # None
        PROVE  o \in alive' /\ eng'[bound'[o][q]].of = o
    <3>1. o # p /\ bound'[o][q] = bound[o][q]
      BY <1>1, <2>5 DEF IInv, TypeOK
    <3>2. o \in alive /\ eng[bound[o][q]].of = o /\ bound[o][q] \in EngineId
      BY <2>5, <3>1 DEF IInv, Owners, TypeOK
    <3> QED BY <1>1, <1>7, <3>1, <3>2
  <2> QED BY <2>1, <2>2, <2>3, <2>4, <2>5 DEF Owners
<1>13. Calls'
  <2> SUFFICES ASSUME NEW s \in Session
               PROVE  /\ pc'[s] \in {"idle", "raised"} <=> mine'[s] = None
                      /\ pc'[s] # "idle" => s \in open'
                      /\ old'[s] # None => pc'[s] \in {"stage", "write", "register"}
    BY DEF Calls
  <2>1. CASE Of(s) = p
    BY <1>5, <2>1
  <2>2. CASE Of(s) # p
    BY <1>2, <1>4, <1>5, <2>2 DEF IInv, Calls
  <2> QED BY <2>1, <2>2
<1>14. Builders'
  <2>1. ASSUME NEW s \in Session, Building(s)'
        PROVE  /\ Building(s) /\ pc'[s] = pc[s] /\ mine'[s] = mine[s]
               /\ eng'[mine[s]] = eng[mine[s]]
    <3>1. Of(s) # p
      BY <1>5, <2>1 DEF Building
    <3>2. Building(s) /\ pc'[s] = pc[s] /\ mine'[s] = mine[s] /\ mine[s] # None
      BY <1>5, <2>1, <3>1 DEF Building, IInv, Calls
    <3> QED BY <1>9, <3>2
  <2> QED BY <1>1, <2>1 DEF IInv, Builders, Building
<1>15. Segments'
  <2>1. \A e \in EngineId : Live(e)' /\ eng'[e].loaded => e \in dirs'
    BY <1>1, <1>8 DEF IInv, Segments
  <2>2. ASSUME NEW e \in dirs', Live(e)', e \notin hurt'
        PROVE  eng'[e].loaded \/ \E s \in Session : pc'[s] = "write" /\ mine'[s] = e
    <3>1. e \in EngineId /\ e \in dirs /\ Live(e) /\ eng[e].of # p /\ eng'[e] = eng[e]
      BY <1>1, <1>8, <2>2 DEF IInv, TypeOK
    <3>2. ASSUME NEW s \in Session, pc[s] = "write", mine[s] = e
          PROVE  pc'[s] = "write" /\ mine'[s] = e
      BY <1>5, <3>1, <3>2 DEF IInv, TypeOK
    <3>3. e \notin hurt
      BY <1>2, <2>2, <3>1
    <3> QED BY <3>1, <3>2, <3>3 DEF IInv, Segments
  <2> QED BY <2>1, <2>2 DEF Segments
<1>16. Runners'
  <2>1. stray' \subseteq hurt'
    BY <1>2 DEF IInv, Runners
  <2>2. ASSUME NEW s \in cut'
        PROVE  mine'[s] \in hurt'
    <3>1. s \in Session /\ s \in cut /\ Of(s) # p
      BY <1>2, <1>4 DEF IInv, TypeOK
    <3>2. mine'[s] = mine[s] /\ mine[s] \in hurt /\ mine[s] # None
      BY <1>5, <3>1 DEF IInv, Runners, TypeOK
    <3>3. eng[mine[s]].of = Of(s)
      BY <1>9, <3>1, <3>2
    <3> QED BY <1>2, <3>1, <3>2, <3>3
  <2>3. ASSUME NEW s \in Session, pc'[s] = "launch", s \notin cut', eng'[mine'[s]].plane = "shm"
        PROVE  eng'[mine'[s]].loaded
    <3>1. Of(s) # p /\ pc[s] = "launch" /\ mine'[s] = mine[s] /\ s \notin cut
      BY <1>2, <1>4, <1>5, <2>3
    <3>2. mine[s] # None
      BY <3>1 DEF IInv, Calls
    <3>3. eng'[mine[s]] = eng[mine[s]]
      BY <1>9, <3>1, <3>2
    <3> QED BY <2>3, <3>1, <3>3 DEF IInv, Runners
  <2> QED BY <2>1, <2>2, <2>3 DEF Runners
<1>17. Used'
  <2> SUFFICES ASSUME NEW e \in EngineId, Live(e)', eng'[e].up \/ eng'[e].loaded
               PROVE  InUse(e)'
    BY DEF Used
  <2>1. Live(e) /\ eng[e].of # p /\ eng'[e] = eng[e] /\ eng[e].of \in Process
    BY <1>8 DEF Live, IInv, TypeOK
  <2>2. InUse(e)
    BY <2>1 DEF IInv, Used
  <2>3. bound'[eng[e].of] = bound[eng[e].of] /\ refs'[eng[e].of] = refs[eng[e].of]
    BY <1>1, <2>1 DEF IInv, TypeOK
  <2>4. ASSUME NEW s \in Session, e \in {mine[s], old[s]}
        PROVE  e \in {mine'[s], old'[s]}
    <3>1. eng[e].of = Of(s)
      BY <2>4 DEF IInv, TypeOK
    <3> QED BY <1>5, <2>1, <2>4, <3>1
  <2> QED BY <2>1, <2>2, <2>3, <2>4 DEF InUse
<1> QED BY <1>11, <1>12, <1>13, <1>14, <1>15, <1>16, <1>17 DEF IInv
-----------------------------------------------------------------------------
LEMMA InitIInv == Init => IInv
<1> SUFFICES ASSUME Init
             PROVE  IInv
  OBVIOUS
<1> USE NoEngineType, NoneIsNew
<1>1. \A e \in EngineId : eng[e] = NoEngine /\ ~Live(e)
  BY DEF Init, Live
<1>2. TypeOK
  <2>1. refs = [p \in Process |-> Cardinality({s \in open : Of(s) = p})]
    <3>1. \A p \in Process : {s \in open : Of(s) = p} = {}
      BY DEF Init
    <3> QED BY <3>1, FS_EmptySet DEF Init
  <2>2. next \in [Session -> Query] /\ fails \in 0..MaxFail
    BY Package, Bounds DEF Init, Query
  <2>3. eng \in [EngineId -> Engine]
    BY DEF Init
  <2> QED BY <2>1, <2>2, <2>3 DEF Init, TypeOK
<1>3. Owners /\ Calls /\ Builders /\ Segments /\ Runners /\ Used
  BY <1>1 DEF Init, Owners, Calls, Builders, Building, Segments, Runners, Used
<1> QED BY <1>2, <1>3 DEF IInv

LEMMA NextIInv ==
  ASSUME IInv, Next
  PROVE  IInv'
<1>1. ASSUME NEW p \in Process, StartProcess(p) \/ Kill(p) \/ LoadTables(p)
      PROVE  IInv'
  BY <1>1, StartProcessKeeps, KillKeeps, LoadTablesKeeps
<1>2. ASSUME NEW s \in Session, HandleStep(s)
      PROVE  IInv'
  <2>1. CASE OpenCursor(s) \/ CloseHandle(s)
    BY <2>1, OpenCursorKeeps, CloseHandleKeeps
  <2>2. CASE BindLive(s) \/ BindSnapshot(s) \/ Promote(s)
    BY <2>2, MakeKeeps
  <2>3. CASE Stage(s) \/ Degrade(s) \/ GiveUp(s) \/ PromotionRefused(s) \/ Raised(s)
    BY <2>3, StageKeeps, DegradeKeeps, GiveUpKeeps, PromotionRefusedKeeps, RaisedKeeps
  <2>4. CASE WriteSegments(s) \/ WriteFails(s)
    BY <2>4, WriteSegmentsKeeps, WriteFailsKeeps
  <2>5. CASE Register(s) \/ Bound(s) \/ Promoted(s) \/ RegisterFails(s)
    BY <2>5, RegisterKeeps, BoundKeeps, PromotedKeeps, RegisterFailsKeeps
  <2>6. CASE Match(s) \/ Warm(s) \/ NotLoaded(s) \/ GetRunner(s) \/ Launch(s) \/ Return(s)
    BY <2>6, MatchKeeps, NotLoadedKeeps, GetRunnerKeeps, LaunchKeeps, ReturnKeeps
  <2> QED BY <1>2, <2>1, <2>2, <2>3, <2>4, <2>5, <2>6 DEF HandleStep
<1> QED BY <1>1, <1>2 DEF Next

LEMMA StutterIInv ==
  ASSUME IInv, UNCHANGED vars
  PROVE  IInv'
<1> USE DEF vars, engineVars, handleVars, callVars
<1>1. TypeOK'
  BY DEF IInv, TypeOK, Live
<1>2. Owners' /\ Calls' /\ Builders' /\ Segments' /\ Runners' /\ Used'
  BY DEF IInv, Owners, Calls, Builders, Building, Segments, Runners, Used, InUse, Live
<1> QED BY <1>1, <1>2 DEF IInv

LEMMA Invariance == Spec => []IInv
<1>1. IInv /\ [Next]_vars => IInv'
  BY NextIInv, StutterIInv
<1> QED BY InitIInv, <1>1, PTL DEF Spec

(* What a handle holds is an engine of its own process, and the shared     *)
(* count of connection.py is the number of open handles.                   *)
THEOREM Typed == Spec => []TypeOK
<1>1. IInv => TypeOK
  BY DEF IInv
<1> QED BY Invariance, <1>1, PTL

(* ShmHotLoadEngine.health: a hot-load that reports itself healthy has its *)
(* segments in /dev/shm.                                                   *)
THEOREM SegmentsStay == Spec => []HealthyHasSegments
<1>1. IInv => HealthyHasSegments
  BY DEF IInv, Segments, HealthyHasSegments, Healthy
<1> QED BY Invariance, <1>1, PTL

(* The db processes and segments of a live application belong to engines   *)
(* in use (close, __del__ and the except clauses of discovery.py), unless  *)
(* a runner was obtained before a close.                                   *)
THEOREM NoLeak == Spec => []NothingLeaks
<1>1. ASSUME IInv
      PROVE  NothingLeaks
  <2> SUFFICES ASSUME NEW e \in EngineId, Live(e), e \notin hurt,
                      e \in dirs \/ e \in stray \/ eng[e].up
               PROVE  InUse(e)
    BY DEF NothingLeaks
  <2>1. e \notin stray
    BY <1>1 DEF IInv, Runners
  <2>2. CASE eng[e].up \/ eng[e].loaded
    BY <1>1, <2>2 DEF IInv, Used
  <2>3. CASE \E s \in Session : pc[s] = "write" /\ mine[s] = e
    BY <2>3 DEF InUse
  <2> QED BY <1>1, <2>1, <2>2, <2>3 DEF IInv, Segments
<1> QED BY Invariance, <1>1, PTL

(* Every step that takes a handle off "stage" and leaves its process alive *)
(* is one of the stage steps of that handle.                               *)
LEMMA LeavesStage ==
  ASSUME IInv, Next, NEW s \in Session, pc[s] = "stage", pc'[s] \notin {"stage", "write"},
         Of(s) \in alive'
  PROVE  Degrade(s) \/ GiveUp(s) \/ PromotionRefused(s)
<1>1. ASSUME NEW p \in Process, StartProcess(p) \/ Kill(p) \/ LoadTables(p)
      PROVE  pc'[s] = "stage"
  <2>1. CASE Kill(p)
    <3>1. Of(s) # p /\ (s \in {p} \X Handle => Of(s) = p)
      BY <2>1 DEF Kill, Of
    <3> QED BY <2>1, <3>1 DEF Kill
  <2> QED BY <1>1, <2>1 DEF StartProcess, LoadTables
<1>2. ASSUME NEW t \in Session, HandleStep(t), t # s
      PROVE  pc'[s] = "stage"
  <2>1. pc' = pc \/ \E l : pc' = [pc EXCEPT ![t] = l]
    BY <1>2 DEF HandleStep, OpenCursor, CloseHandle, BindLive, BindSnapshot, Promote, Make, Stage,
                Degrade, GiveUp, PromotionRefused, Raised, WriteSegments, WriteFails, Register,
                Bound, Promoted, RegisterFails, Match, Warm, NotLoaded, GetRunner, Launch,
                Return, Goto
  <2> QED BY <1>2, <2>1 DEF IInv, TypeOK
<1>3. ASSUME HandleStep(s)
      PROVE  pc' = pc \/ Stage(s) \/ Degrade(s) \/ GiveUp(s) \/ PromotionRefused(s)
  BY <1>3 DEF HandleStep, OpenCursor, CloseHandle, BindLive, BindSnapshot, Promote, Raised,
              WriteSegments, WriteFails, Bound, Promoted, Register, RegisterFails, Match, Warm,
              NotLoaded, GetRunner, Launch, Return, Rests, At
<1>4. Stage(s) => pc'[s] = "write"
  BY DEF Stage, Goto, IInv, TypeOK
<1> QED BY <1>1, <1>2, <1>3, <1>4 DEF Next

(* sweep_ingest_orphans and check_shm_budget: a hot-load is refused only   *)
(* for the sake of processes that run, whatever pids were used again.      *)
THEOREM Refused == Spec => RefusedByTheLiving
<1>1. ASSUME IInv, Next, NEW s \in Session, At(s, "stage"),
             pc'[s] \notin {"stage", "write"}, Of(s) \in alive', NEW d \in dirs'
      PROVE  Live(d)'
  <2>1. pc[s] = "stage" /\ (Degrade(s) \/ GiveUp(s) \/ PromotionRefused(s))
    BY <1>1, LeavesStage DEF At
  <2>2. TypeOK'
    BY <1>1, <2>1, DegradeKeeps, GiveUpKeeps, PromotionRefusedKeeps DEF IInv
  <2>3. d \in EngineId /\ eng'[d].of \in Process
    BY <1>1, <2>2 DEF TypeOK
  <2>4. mine[s] \in EngineId /\ Swept \in [EngineId -> Engine] /\ Kept \subseteq EngineId
    BY <1>1, <2>1, SweepKeeps DEF IInv, TypeOK
  <2>5. /\ dirs' \subseteq Kept /\ alive' = alive
        /\ eng'[d].of = Swept[d].of \/ eng'[d].of = None
    <3>1. CASE Degrade(s)
      <4>1. dirs' = Kept /\ alive' = alive /\ eng' = [Swept EXCEPT ![mine[s]].plane = "parquet"]
        BY <3>1 DEF Degrade, handleVars
      <4> QED BY <2>3, <2>4, <4>1 DEF Engine
    <3>2. CASE GiveUp(s) \/ PromotionRefused(s)
      <4>1. PICK C \in {{}, {mine[s]}} : Release(Swept, Kept, C)
        BY <3>2 DEF GiveUp, PromotionRefused
      <4>2. alive' = alive
        BY <3>2 DEF GiveUp, PromotionRefused, handleVars
      <4>3. C \in SUBSET EngineId /\ mine' \in [Session -> EngineId \cup {None}]
        BY <2>2, <2>4 DEF TypeOK
      <4>4. dirs' \subseteq Kept /\ (eng'[d].of = Swept[d].of \/ eng'[d].of = None)
        BY <1>1, <2>3, <2>4, <4>1, <4>3, ReleaseFacts DEF IInv
      <4> QED BY <4>2, <4>4
    <3> QED BY <2>1, <3>1, <3>2
  <2>6. Live(d) /\ Swept[d] = eng[d]
    BY <1>1, <2>1, <2>3, <2>5, SweepKeeps
  <2> QED BY <2>3, <2>5, <2>6, NoneIsNew DEF Live
<1>2. IInv /\ [Next]_vars =>
        [\A s \in Session : At(s, "stage") /\ pc'[s] \notin {"stage", "write"} /\ Of(s) \in alive'
           => \A d \in dirs' : Live(d)']_vars
  BY <1>1
<1> QED BY Invariance, <1>2, PTL DEF Spec, RefusedByTheLiving

\* An engine nothing refers to has been closed, and is kept for what it left.
Collected ==
  \A e \in EngineId : Live(e) /\ ~Referenced(e, bound, mine, old)
    => eng[e] = Closed(eng[e]) /\ e \in dirs \cup stray

LEMMA ReleaseCollects ==
  ASSUME IInv, NEW E \in [EngineId -> Engine], NEW D, NEW C, Release(E, D, C),
         UNCHANGED <<alive, stray>>, C \subseteq EngineId,
         \A e \in EngineId : E[e] = eng[e] \/ (E[e] = NoEngine /\ ~Live(e))
  PROVE  Collected'
<1> USE NoEngineType, NoneIsNew
<1> SUFFICES ASSUME NEW e \in EngineId, Live(e)', ~Referenced(e, bound, mine, old)'
             PROVE  eng'[e] = Closed(eng'[e]) /\ e \in dirs' \cup stray'
  BY DEF Collected
<1> DEFINE free == {d \in EngineId : Live(d) /\ ~Referenced(d, bound', mine', old')}
           left == D \ {d \in C \cup free : eng[d].loaded}
<1>1. eng'[e] = IF e \in free \ (left \cup stray) THEN NoEngine
                ELSE IF e \in C \cup free THEN Closed(E[e]) ELSE E[e]
  BY DEF Release
<1>2. dirs' = left
  BY DEF Release
<1>3. E[e] \in Engine /\ Closed(E[e]) \in Engine /\ Closed(E[e]).of = E[e].of
  BY ClosedType
<1>4. eng'[e].of \in alive /\ None \notin alive
  BY DEF Live, IInv, TypeOK
<1>5. E[e] = eng[e] /\ eng'[e].of = eng[e].of /\ Live(e)
  BY <1>1, <1>3, <1>4 DEF Live
<1>6. ~Referenced(e, bound', mine', old')
  BY <1>5 DEF Referenced
<1>7. e \in free /\ e \in left \cup stray
  BY <1>1, <1>4, <1>5, <1>6
<1>8. eng'[e] = Closed(E[e])
  BY <1>1, <1>7
<1>9. Closed(Closed(E[e])) = Closed(E[e])
  BY <1>3 DEF Closed, Engine
<1> QED BY <1>2, <1>7, <1>8, <1>9

LEMMA NextCollected ==
  ASSUME IInv, Collected, Next
  PROVE  Collected'
<1> USE NoEngineType, NoneIsNew
<1>1. ASSUME NEW s \in Session,
             \/ CloseHandle(s) \/ GiveUp(s) \/ PromotionRefused(s) \/ WriteFails(s)
             \/ Register(s) \/ Bound(s) \/ Promoted(s) \/ RegisterFails(s)
             \/ NotLoaded(s) \/ Return(s)
      PROVE  Collected'
  <2>1. PICK E \in {eng, Swept}, D, C \in SUBSET EngineId : Release(E, D, C)
    <3>1. mine[s] # None => mine[s] \in EngineId
      BY DEF IInv, TypeOK
    <3>2. pc[s] \in {"stage", "register"} => mine[s] \in EngineId
      BY <3>1 DEF IInv, Calls
    <3>3. old[s] # None => old[s] \in EngineId
      BY DEF IInv, TypeOK
    <3>4. {dirs, dirs \ {mine[s]}, Kept} \subseteq SUBSET EngineId
      BY SweptFacts DEF IInv, TypeOK
    <3>5. CASE CloseHandle(s)
      <4> DEFINE all == {bound[Of(s)][q] : q \in Query} \ {None}
      <4>1. all \subseteq EngineId
        BY DEF IInv, TypeOK, Session, Of
      <4>2. Release(eng, dirs, all) \/ Release(eng, dirs, {})
        BY <3>5 DEF CloseHandle
      <4> QED BY <3>4, <4>1, <4>2
    <3>6. CASE GiveUp(s) \/ PromotionRefused(s)
      <4>1. Release(Swept, Kept, {mine[s]}) \/ Release(Swept, Kept, {})
        BY <3>6 DEF GiveUp, PromotionRefused
      <4>2. {mine[s]} \subseteq EngineId
        BY <3>2, <3>6 DEF GiveUp, PromotionRefused, At
      <4> QED BY <3>4, <4>1, <4>2
    <3>7. CASE Promoted(s) \/ RegisterFails(s)
      <4>1. PICK e \in EngineId : Release(eng, dirs, {e})
        BY <3>2, <3>3, <3>7 DEF Promoted, RegisterFails, At
      <4> QED BY <3>4, <4>1
    <3>8. CASE WriteFails(s) \/ Register(s) \/ Bound(s) \/ NotLoaded(s) \/ Return(s)
      <4>1. Release(eng, dirs, {}) \/ Release(eng, dirs \ {mine[s]}, {})
        BY <3>8 DEF WriteFails, Register, Bound, NotLoaded, Return
      <4> QED BY <3>4, <4>1
    <3> QED BY <1>1, <3>5, <3>6, <3>7, <3>8
  <2>2. UNCHANGED <<alive, stray>>
    BY <1>1 DEF CloseHandle, GiveUp, PromotionRefused, WriteFails, Register, Bound, Promoted,
                RegisterFails, NotLoaded, Return, handleVars
  <2>3. E \in [EngineId -> Engine]
        /\ \A e \in EngineId : E[e] = eng[e] \/ (E[e] = NoEngine /\ ~Live(e))
    BY <2>1, SweptFacts DEF IInv, TypeOK
  <2> QED BY <2>1, <2>2, <2>3, ReleaseCollects
<1>2. ASSUME NEW s \in Session, BindLive(s) \/ BindSnapshot(s) \/ Promote(s)
      PROVE  Collected'
  <2>1. PICK e \in EngineId, plane \in {"parquet", "shm"} :
          /\ eng[e] = NoEngine /\ eng' = [eng EXCEPT ![e] = New(Of(s), plane)]
          /\ mine' = [mine EXCEPT ![s] = e] /\ UNCHANGED <<bound, dirs, stray, alive>>
    BY <1>2 DEF BindLive, BindSnapshot, Promote, Make, handleVars
  <2>2. pc[s] = "idle" /\ mine[s] = None /\ old[s] = None
    BY <1>2 DEF BindLive, BindSnapshot, Promote, Rests, At, IInv, Calls
  <2>3. \A t \in Session \ {s} : mine'[t] = mine[t] /\ old'[t] = old[t]
    BY <1>2, <2>1 DEF BindLive, BindSnapshot, Promote, IInv, TypeOK
  <2>4. mine'[s] = e
    BY <2>1 DEF IInv, TypeOK
  <2> SUFFICES ASSUME NEW d \in EngineId, Live(d)', ~Referenced(d, bound, mine, old)'
               PROVE  eng'[d] = Closed(eng'[d]) /\ d \in dirs' \cup stray'
    BY DEF Collected
  <2>5. d # e /\ eng'[d] = eng[d] /\ Live(d)
    BY <2>1, <2>4 DEF Referenced, Live, IInv, TypeOK
  <2>6. ~Referenced(d, bound, mine, old)
    BY <2>1, <2>2, <2>3, <2>5 DEF Referenced
  <2> QED BY <2>1, <2>5, <2>6 DEF Collected
<1>3. ASSUME NEW s \in Session, Match(s) \/ Warm(s)
      PROVE  Collected'
  <2>1. /\ UNCHANGED <<eng, dirs, stray, bound, old, alive>>
        /\ \E e : mine' = [mine EXCEPT ![s] = e]
    BY <1>3 DEF Match, Warm, engineVars, handleVars
  <2>2. mine[s] = None
    BY <1>3 DEF Match, Warm, Rests, At, IInv, Calls
  <2>3. \A e \in EngineId : Referenced(e, bound, mine, old) => Referenced(e, bound, mine, old)'
    BY <2>1, <2>2 DEF Referenced, IInv, TypeOK
  <2> QED BY <2>1, <2>3 DEF Collected, Live
<1>4. ASSUME NEW s \in Session, Stage(s)
      PROVE  Collected'
  <2>1. /\ pc[s] = "stage" /\ dirs' = Kept \cup {mine[s]} /\ eng' = Swept
        /\ UNCHANGED <<stray, bound, mine, old, alive>>
    BY <1>4 DEF Stage, At, handleVars, callVars
  <2>2. \A e \in EngineId : Live(e)' => Live(e) /\ eng'[e] = eng[e] /\ (e \in dirs => e \in dirs')
    BY <2>1, SweepKeeps DEF Live
  <2> QED BY <2>1, <2>2 DEF Collected, Referenced
<1>5. ASSUME NEW s \in Session, Degrade(s)
      PROVE  Collected'
  <2>1. /\ pc[s] = "stage" /\ dirs' = Kept /\ eng' = [Swept EXCEPT ![mine[s]].plane = "parquet"]
        /\ UNCHANGED <<stray, bound, mine, old, alive>>
    BY <1>5 DEF Degrade, At, handleVars, callVars
  <2>2. /\ mine[s] \in EngineId /\ Swept \in [EngineId -> Engine]
        /\ \A e \in EngineId \ {mine[s]} : eng'[e] = Swept[e]
    BY <2>1, SweepKeeps
  <2>3. \A e \in EngineId \ {mine[s]} :
          Live(e)' => Live(e) /\ eng'[e] = eng[e] /\ (e \in dirs => e \in dirs')
    BY <2>1, <2>2, SweepKeeps DEF Live
  <2>4. Referenced(mine[s], bound, mine, old)'
    BY <2>1 DEF Referenced
  <2> QED BY <2>1, <2>3, <2>4 DEF Collected, Referenced
<1>6. ASSUME NEW s \in Session, WriteSegments(s) \/ Launch(s)
      PROVE  Collected'
  <2>1. /\ \/ eng' = eng \/ eng' = [eng EXCEPT ![mine[s]].loaded = TRUE]
           \/ eng' = [eng EXCEPT ![mine[s]].up = TRUE]
        /\ dirs \subseteq dirs' /\ stray \subseteq stray'
        /\ UNCHANGED <<bound, mine, old, alive>>
    BY <1>6 DEF WriteSegments, Launch, handleVars, callVars
  <2>2. \A e \in EngineId \ {mine[s]} : eng'[e] = eng[e]
    BY <2>1 DEF IInv, TypeOK
  <2>3. mine[s] \in EngineId => Referenced(mine[s], bound, mine, old)'
    BY <2>1 DEF Referenced
  <2> QED BY <2>1, <2>2, <2>3 DEF Collected, Referenced, Live
<1>7. ASSUME NEW s \in Session, OpenCursor(s) \/ Raised(s) \/ GetRunner(s)
      PROVE  Collected'
  <2>1. UNCHANGED <<eng, dirs, stray, bound, mine, old, alive>>
    BY <1>7 DEF OpenCursor, Raised, GetRunner, engineVars, handleVars, callVars
  <2> QED BY <2>1 DEF Collected, Referenced, Live
<1>8. ASSUME NEW p \in Process, StartProcess(p) \/ LoadTables(p)
      PROVE  Collected'
  <2>1. UNCHANGED <<eng, dirs, stray, bound, mine, old>> /\ alive' \subseteq alive \cup {p}
        /\ (p \in alive \/ pid[p] = None)
    BY <1>8 DEF StartProcess, LoadTables, engineVars, handleVars, callVars
  <2>2. \A e \in EngineId : Live(e)' => Live(e)
    BY <2>1 DEF Live, IInv, Owners
  <2> QED BY <2>1, <2>2 DEF Collected, Referenced
<1>9. ASSUME NEW p \in Process, Kill(p)
      PROVE  Collected'
  <2> SUFFICES ASSUME NEW e \in EngineId, Live(e)', ~Referenced(e, bound, mine, old)'
               PROVE  eng'[e] = Closed(eng'[e]) /\ e \in dirs' \cup stray'
    BY DEF Collected
  <2>1. eng'[e] = IF eng[e].of # p THEN eng[e]
                  ELSE IF e \in dirs THEN Closed(New(p, "shm")) ELSE NoEngine
    BY <1>9 DEF Kill
  <2>2. Closed(New(p, "shm")).of = p /\ p \notin alive' /\ None \notin alive'
    BY <1>9 DEF Closed, New, Kill, IInv, TypeOK
  <2>3. eng'[e] = eng[e] /\ eng[e].of # p /\ Live(e)
    BY <1>9, <2>1, <2>2 DEF Live, Kill
  <2>4. eng[e].of \in Process /\ bound'[eng[e].of] = bound[eng[e].of]
    BY <1>9, <2>3 DEF Kill, Live, IInv, TypeOK
  <2>5. \A s \in Session : e \in {mine[s], old[s]} => e \in {mine'[s], old'[s]}
    <3> SUFFICES ASSUME NEW s \in Session, e \in {mine[s], old[s]}
                 PROVE  e \in {mine'[s], old'[s]}
      OBVIOUS
    <3>1. eng[e].of = Of(s)
      BY DEF IInv, TypeOK
    <3>2. s \notin {p} \X Handle
      BY <2>3, <3>1 DEF Of
    <3> QED BY <1>9, <3>2 DEF Kill
  <2>6. ~Referenced(e, bound, mine, old)
    BY <2>3, <2>4, <2>5 DEF Referenced
  <2>7. e \in dirs \cup stray => e \in dirs' \cup stray'
    BY <1>9, <2>3 DEF Kill
  <2> QED BY <2>3, <2>6, <2>7 DEF Collected
<1> QED BY <1>1, <1>2, <1>3, <1>4, <1>5, <1>6, <1>7, <1>8, <1>9 DEF Next, HandleStep

LEMMA AlwaysCollected == Spec => []Collected
<1>1. Init => Collected
  BY NoneIsNew, NoEngineType DEF Init, Collected, Live
<1>2. IInv /\ Collected /\ [Next]_vars => Collected'
  <2>1. UNCHANGED vars /\ Collected => Collected'
    BY DEF vars, engineVars, handleVars, callVars, Collected, Live, Referenced
  <2> QED BY <2>1, NextCollected
<1> QED BY Invariance, <1>1, <1>2, PTL DEF Spec

\* Only close() takes a handle of a process that lives on from the others.
LEMMA LeavesOpen ==
  ASSUME IInv, Next, NEW s \in open, s \notin open', Of(s) \in alive'
  PROVE  CloseHandle(s)
<1>1. \A p \in Process : ~StartProcess(p) /\ ~LoadTables(p)
  BY DEF StartProcess, LoadTables, handleVars
<1>2. ASSUME NEW p \in Process, Kill(p)
      PROVE  FALSE
  <2>1. Of(s) # p /\ (s \in {p} \X Handle => Of(s) = p)
    BY <1>2 DEF Kill, Of
  <2> QED BY <1>2, <2>1 DEF Kill
<1>3. ASSUME NEW t \in Session, HandleStep(t)
      PROVE  CloseHandle(s)
  <2>1. CloseHandle(t) \/ open \subseteq open'
    BY <1>3 DEF HandleStep, OpenCursor, BindLive, BindSnapshot, Promote, Make, Stage,
                Degrade, GiveUp, PromotionRefused, Raised, WriteSegments, WriteFails, Register,
                Bound, Promoted, RegisterFails, Match, Warm, NotLoaded, GetRunner, Launch,
                Return, handleVars
  <2>2. CloseHandle(t) => t = s
    BY DEF CloseHandle
  <2> QED BY <2>1, <2>2
<1> QED BY <1>1, <1>2, <1>3 DEF Next

(* connection.py: closing a handle never tears down engines that another   *)
(* handle still uses.                                                      *)
THEOREM Outlive == Spec => EnginesOutliveHandles
<1>1. ASSUME IInv, Collected, Next, NEW s \in open \ open', Of(s) \in alive',
             NEW r \in open', Of(r) = Of(s), NEW e \in EngineId
      PROVE  eng'[e] = eng[e]
  <2>1. CloseHandle(s)
    BY <1>1, LeavesOpen
  <2>2. s \in open /\ s \in Session /\ Of(s) \in Process /\ open' = open \ {s}
    BY <1>1, <2>1 DEF CloseHandle, IInv, TypeOK, Session, Of
  <2>3. refs'[Of(s)] = Cardinality(OpenOf(Of(s)) \ {s})
    <3>1. refs' = [p \in Process |-> Cardinality({t \in open' : Of(t) = p})]
      BY <1>1, <2>1, CloseCounts DEF CloseHandle, IInv
    <3>2. {t \in open' : Of(t) = Of(s)} = OpenOf(Of(s)) \ {s}
      BY <2>2 DEF OpenOf
    <3> QED BY <2>2, <3>1, <3>2
  <2>4. r \in OpenOf(Of(s)) \ {s} /\ IsFiniteSet(OpenOf(Of(s)) \ {s})
    BY <1>1, <2>2, OpenIsFinite, FS_Subset DEF OpenOf, IInv
  <2>5. ~(refs'[Of(s)] <= 0)
    <3>1. /\ Cardinality(OpenOf(Of(s)) \ {s}) \in Nat
          /\ Cardinality(OpenOf(Of(s)) \ {s}) # 0
      BY <2>4, FS_CardinalityType, FS_EmptySet
    <3> QED BY <2>3, <3>1
  <2>6. Release(eng, dirs, {}) /\ UNCHANGED <<bound, mine, old>>
    BY <2>1, <2>5 DEF CloseHandle
  <2> DEFINE free == {d \in EngineId : Live(d) /\ ~Referenced(d, bound', mine', old')}
             left == dirs \ {d \in {} \cup free : eng[d].loaded}
  <2>7. eng'[e] = IF e \in free \ (left \cup stray) THEN NoEngine
                  ELSE IF e \in {} \cup free THEN Closed(eng[e]) ELSE eng[e]
    BY <2>6 DEF Release
  <2>8. ASSUME e \in free
        PROVE  Closed(eng[e]) = eng[e] /\ e \in left \cup stray
    <3>1. eng[e] = Closed(eng[e]) /\ e \in dirs \cup stray
      BY <1>1, <2>6, <2>8 DEF Collected
    <3>2. ~eng[e].loaded
      BY <1>1, <3>1, ClosedType DEF IInv, TypeOK
    <3> QED BY <3>1, <3>2
  <2> QED BY <2>7, <2>8
<1>2. IInv /\ Collected /\ [Next]_vars =>
        [\A s \in open \ open' :
           (Of(s) \in alive' /\ \E r \in open' : Of(r) = Of(s))
           => \A e \in EngineId : eng[e].of = Of(s) => eng'[e] = eng[e]]_vars
  BY <1>1
<1> QED BY Invariance, AlwaysCollected, <1>2, PTL DEF Spec, EnginesOutliveHandles
==============================================================================
