----------------------- MODULE EnginePublicationProofs -----------------------
(***************************************************************************)
(* What is visible in the engines directory is whole and proven, whatever  *)
(* the number of publishers, names and engines and wherever they are       *)
(* killed.                                                                 *)
(***************************************************************************)
EXTENDS EnginePublication, TLAPS

AtWork == {"populate", "move", "flip", "gc"}

\* A publisher past the lock of its name is the only one.
LockCovers ==
  \A p \in Publisher :
    pc[p] \in {"stage"} \cup AtWork /\ Named(p) => lock[job[p].slot] = p

\* A receipt is of a build that passed on its plane.
ReceiptProven ==
  \A p \in Publisher : receipt[p] # None => <<receipt[p].build, receipt[p].plane>> \in proven

\* What is to be published was validated, and once staged is the publisher's own.
JobProven ==
  \A p \in Publisher : pc[p] \in {"begin", "stage"} =>
    \A plane \in job[p].planes : <<disk[p], plane>> \in proven

OwnProven ==
  \A p \in Publisher : pc[p] \in AtWork =>
    \A plane \in package[own[p]].planes : <<package[own[p]].build, plane>> \in proven

OwnPlaced ==
  \A p \in Publisher :
    /\ pc[p] \in {"populate", "move"} => place[own[p]] = "staging"
    /\ pc[p] \in {"move", "flip", "gc"} => package[own[p]].complete
    /\ pc[p] \in {"flip", "gc"} =>
         Named(p) /\ place[own[p]] = "version" /\ version[own[p]] = job[p].slot
    /\ pc[p] = "gc" => entry[job[p].slot] = own[p]

OwnUnique ==
  \A p, q \in Publisher : own[p] = own[q] /\ own[p] # None => p = q

\* A link leads to a version of its own name, and no two slots share one.
EntryPlaced ==
  \A s \in Slot : entry[s] # None /\ place[entry[s]] = "version" =>
    s \in Name /\ version[entry[s]] = s

EntryUnique ==
  \A s, t \in Slot : entry[s] = entry[t] /\ entry[s] # None => s = t

\* A binding stays proven: its package is not written again.
BoundProven ==
  \A s \in Slot : bound[s] # None =>
    /\ place[bound[s].dir] # "free"
    /\ <<package[bound[s].dir].build, bound[s].plane>> \in proven

IInv ==
  /\ TypeOK /\ LockCovers /\ ReceiptProven /\ JobProven /\ OwnProven /\ OwnPlaced /\ OwnUnique
  /\ EntryPlaced /\ EntryUnique /\ VisibleIsWhole /\ VisibleIsProven /\ BoundProven

LEMMA LegacyDirs ==
  /\ LegacyDir \in [Legacy -> Dir]
  /\ \A m, n \in Legacy : LegacyDir[m] = LegacyDir[n] => m = n
BY PublicationAssumption DEF LegacyDir, Dir

LEMMA OldBuild == Old \in Build
<1>1. PICK e \in Engine : TRUE
  BY PublicationAssumption
<1>2. PICK r \in Rev : TRUE
  BY PublicationAssumption
<1>3. [engine |-> e, rev |-> r] \in Build
  BY <1>1, <1>2 DEF Build
<1> QED
  BY <1>3 DEF Old

LEMMA InitIInv == Init => IInv
<1> SUFFICES ASSUME Init PROVE IInv
  OBVIOUS
<1>0. /\ None \notin Dir /\ Legacy \subseteq Name /\ Name \subseteq Slot
      /\ Name \cap Engine = {} /\ MaxCheck \in Nat /\ MaxKill \in Nat
  BY PublicationAssumption DEF Dir, Slot
<1>1. \A s \in Slot : entry[s] # None => s \in Legacy /\ entry[s] = LegacyDir[s]
  BY DEF Init
<1>2. \A s \in Slot : entry[s] # None => entry[s] \in Dir /\ place[entry[s]] = "dest"
  BY <1>0, <1>1, LegacyDirs DEF Init
<1>3. TypeOK
  BY <1>0, LegacyDirs, OldBuild DEF Init, TypeOK, PublisherStates, Package, Plane
<1>4. LockCovers /\ ReceiptProven /\ JobProven /\ OwnProven /\ OwnPlaced /\ OwnUnique
  BY DEF Init, LockCovers, ReceiptProven, JobProven, OwnProven, OwnPlaced, OwnUnique, AtWork
<1>5. EntryPlaced /\ EntryUnique
  BY <1>1, <1>2, LegacyDirs DEF EntryPlaced, EntryUnique
<1>6. VisibleIsWhole /\ VisibleIsProven /\ BoundProven
  BY <1>2 DEF Init, VisibleIsWhole, VisibleIsProven, BoundProven
<1> QED
  BY <1>3, <1>4, <1>5, <1>6 DEF IInv

\* The publisher's variables after a return keep their types.
ReturnedOK(p) ==
  /\ pc' \in [Publisher -> PublisherStates]
  /\ job' \in [Publisher -> [slot: Slot, planes: SUBSET Plane] \cup {None}]
  /\ own' \in [Publisher -> Dir \cup {None}]
  /\ lock' \in [Name -> Publisher \cup {None}]
  /\ \A q \in Publisher :
       /\ pc'[q] # "idle" => job'[q] \in [slot: Slot, planes: SUBSET Plane]
       /\ pc'[q] \in {"populate", "move", "flip", "gc"} <=> own'[q] # None
       /\ pc'[q] \in {"flip", "gc"} => job'[q].slot \in Name

LEMMA ReturnsType ==
  ASSUME TypeOK, NEW p \in Publisher, Returns(p)
  PROVE  ReturnedOK(p)
<1>1. \A q \in Publisher : q # p => pc'[q] = pc[q] /\ job'[q] = job[q] /\ own'[q] = own[q]
  BY DEF TypeOK, Returns, Goto
<1>2. pc'[p] = "idle" /\ own'[p] = None
  BY DEF TypeOK, Returns, Goto
<1>3. /\ pc' \in [Publisher -> PublisherStates]
      /\ job' \in [Publisher -> [slot: Slot, planes: SUBSET Plane] \cup {None}]
      /\ own' \in [Publisher -> Dir \cup {None}]
      /\ lock' \in [Name -> Publisher \cup {None}]
  BY DEF TypeOK, Returns, Goto, PublisherStates
<1> QED
  BY <1>1, <1>2, <1>3 DEF TypeOK, Named, ReturnedOK

LEMMA TypeNext == TypeOK /\ [Next]_vars => TypeOK'
<1> SUFFICES ASSUME TypeOK, [Next]_vars PROVE TypeOK'
  OBVIOUS
<1>0. /\ None \notin Dir /\ None \notin Publisher /\ None \notin Slot
      /\ MaxCheck \in Nat /\ MaxKill \in Nat
  BY PublicationAssumption DEF Dir, Slot
<1> USE DEF TypeOK, PublisherStates, Named, Goto, Put
<1>1. ASSUME NEW p \in Publisher, Rebuild(p) PROVE TypeOK'
  BY <1>1 DEF Rebuild, dirVars, history
<1>2. ASSUME NEW p \in Publisher, Validate(p) PROVE TypeOK'
  <2>1. receipt' \in [Publisher -> [build: Build, plane: Plane] \cup {None}]
    <3>1. \A plane \in Plane : [build |-> disk[p], plane |-> plane] \in [build: Build, plane: Plane]
      OBVIOUS
    <3> QED
      <4>1. CASE receipt' = [receipt EXCEPT ![p] = None]
        BY <4>1
      <4>2. CASE \E plane \in Plane :
                   receipt' = [receipt EXCEPT ![p] = [build |-> disk[p], plane |-> plane]]
        BY <4>2, <3>1
      <4> QED
        BY <1>2, <4>1, <4>2 DEF Validate
  <2>2. proven' \subseteq Build \X Plane /\ checks' \in 0..MaxCheck
    BY <1>2, <1>0 DEF Validate
  <2> QED
    BY <1>2, <2>1, <2>2 DEF Validate, dirVars
<1>3. ASSUME NEW p \in Publisher, NEW s \in Slot, NEW planes \in SUBSET Plane,
             Publish(p, s, planes) PROVE TypeOK'
  <2>1. Offered(p, planes) \in SUBSET Plane
    BY DEF Offered
  <2>2. [slot |-> s, planes |-> Offered(p, planes)] \in [slot: Slot, planes: SUBSET Plane]
    BY <2>1
  <2>3. /\ job' = [job EXCEPT ![p] = [slot |-> s, planes |-> Offered(p, planes)]]
        /\ pc[p] = "idle" /\ pc' = [pc EXCEPT ![p] = "begin"]
        /\ UNCHANGED <<disk, receipt, own, place, version, package, entry, lock, bound,
                       proven, checks, kills>>
    BY <1>3 DEF Publish, dirVars, history
  <2> QED
    BY <2>2, <2>3 DEF Named
<1>4. ASSUME NEW p \in Publisher, Lock(p) PROVE TypeOK'
  BY <1>4, <1>0 DEF Lock, dirVars, history, Named
<1>5. ASSUME NEW p \in Publisher, Dedup(p) PROVE TypeOK'
  <2>1. CASE Returns(p)
    BY <1>5, <2>1, ReturnsType DEF Dedup, dirVars, history, ReturnedOK
  <2>2. CASE Goto(p, "stage") /\ UNCHANGED <<job, own, lock>>
    BY <1>5, <2>2 DEF Dedup, dirVars, history
  <2> QED
    BY <1>5, <2>1, <2>2 DEF Dedup
<1>6. ASSUME NEW p \in Publisher, Stage(p) PROVE TypeOK'
  <2>1. PICK d \in Dir :
          /\ place' = [place EXCEPT ![d] = "staging"]
          /\ own' = [own EXCEPT ![p] = d]
          /\ package' = [package EXCEPT ![d] = [build |-> disk[p], planes |-> job[p].planes,
                                                complete |-> FALSE]]
    BY <1>6 DEF Stage
  <2>2. job[p] \in [slot: Slot, planes: SUBSET Plane]
    BY <1>6 DEF Stage
  <2>3. [build |-> disk[p], planes |-> job[p].planes, complete |-> FALSE] \in Package
    BY <2>2 DEF Package
  <2>4. package' \in [Dir -> Package]
    BY <2>1, <2>3
  <2> QED
    BY <1>6, <1>0, <2>1, <2>4 DEF Stage, history
<1>7. ASSUME NEW p \in Publisher, Populate(p) PROVE TypeOK'
  <2>1. own[p] \in Dir
    BY <1>7 DEF Populate
  <2>2. [package[own[p]] EXCEPT !.complete = TRUE] \in Package
    <3>1. package[own[p]] \in Package
      BY <2>1
    <3> QED
      BY <3>1 DEF Package
  <2>3. package' \in [Dir -> Package]
    BY <1>7, <2>1, <2>2 DEF Populate
  <2> QED
    BY <1>7, <2>3 DEF Populate, history
<1>8. ASSUME NEW p \in Publisher, StagingFails(p) PROVE TypeOK'
  BY <1>8, ReturnsType DEF StagingFails, history, ReturnedOK
<1>9. ASSUME NEW p \in Publisher, Place(p) PROVE TypeOK'
  <2>1. own[p] \in Dir /\ job[p].slot \in Slot
    BY <1>9 DEF Place
  <2>2. place' \in [Dir -> {"free", "staging", "version", "dest", "removed"}]
    BY <1>9, <2>1 DEF Place
  <2>3. entry' \in [Slot -> Dir \cup {None}]
    BY <1>9, <2>1 DEF Place
  <2> QED
    BY <1>9, <2>2, <2>3, ReturnsType DEF Place, history, ReturnedOK
<1>10. ASSUME NEW p \in Publisher, Materialize(p) PROVE TypeOK'
  BY <1>10, <1>0 DEF Materialize, history, Named
<1>11. ASSUME NEW p \in Publisher, Migrate(p) PROVE TypeOK'
  BY <1>11, <1>0 DEF Migrate, history, publisherVars
<1>12. ASSUME NEW p \in Publisher, Flip(p) PROVE TypeOK'
  BY <1>12, <1>0 DEF Flip, history
<1>13. ASSUME NEW p \in Publisher, FlipFails(p) PROVE TypeOK'
  BY <1>13, ReturnsType DEF FlipFails, dirVars, history, ReturnedOK
<1>14. ASSUME NEW p \in Publisher, Gc(p) PROVE TypeOK'
  BY <1>14, <1>0 DEF Gc, Superseded, publisherVars, history
<1>15. ASSUME NEW p \in Publisher, Published(p) PROVE TypeOK'
  BY <1>15, ReturnsType DEF Published, dirVars, history, ReturnedOK
<1>16. ASSUME NEW p \in Publisher, Kill(p) PROVE TypeOK'
  BY <1>16, <1>0, ReturnsType DEF Kill, dirVars, ReturnedOK
<1>17. ASSUME NEW s \in Slot, Bind(s) \/ Promote(s) PROVE TypeOK'
  <2>1. PICK plane \in Plane : bound' = [bound EXCEPT ![s] = [dir |-> entry[s], plane |-> plane]]
    <3>1. CASE Bind(s)
      <4>1. Manifest(s) \in Package
        BY <3>1 DEF Bind, Manifest
      <4> QED
        BY <3>1, <4>1 DEF Bind, Package
    <3>2. CASE Promote(s)
      BY <3>2 DEF Promote, Plane
    <3> QED
      BY <1>17, <3>1, <3>2
  <2>2. [dir |-> entry[s], plane |-> plane] \in [dir: Dir, plane: Plane]
    BY <1>17 DEF Bind, Promote
  <2> QED
    BY <1>17, <2>1, <2>2 DEF Bind, Promote, publisherVars, dirVars, history
<1>18. CASE UNCHANGED vars
  BY <1>18 DEF vars, publisherVars, dirVars, history
<1> QED
  BY <1>1, <1>2, <1>3, <1>4, <1>5, <1>6, <1>7, <1>8, <1>9, <1>10, <1>11, <1>12, <1>13,
     <1>14, <1>15, <1>16, <1>17, <1>18, PublicationAssumption DEF Next, PublisherStep, Slot

\* One lemma per action: the conjuncts it disturbs, then those it does not.

LEMMA RebuildIInv ==
  ASSUME IInv, TypeOK', NEW p \in Publisher, Rebuild(p)
  PROVE  IInv'
<1> USE DEF AtWork
<1>0. TypeOK /\ None \notin Dir /\ Name \cap Engine = {} /\ None \notin Publisher
  BY PublicationAssumption DEF IInv, Dir
<1>1. JobProven'
  BY <1>0 DEF IInv, JobProven, TypeOK, Rebuild, Goto, Named, publisherVars, dirVars, history
<1>2. LockCovers' /\ ReceiptProven' /\ OwnProven' /\ OwnPlaced' /\ OwnUnique' /\ EntryPlaced'
     /\ EntryUnique' /\ VisibleIsWhole' /\ VisibleIsProven' /\ BoundProven'
  BY DEF IInv, LockCovers, ReceiptProven, OwnProven, OwnPlaced, OwnUnique, EntryPlaced,
     EntryUnique, VisibleIsWhole, VisibleIsProven, BoundProven, Named, Rebuild,
     publisherVars, dirVars, history
<1> QED
  BY <1>1, <1>2 DEF IInv

LEMMA ValidateIInv ==
  ASSUME IInv, TypeOK', NEW p \in Publisher, Validate(p)
  PROVE  IInv'
<1> USE DEF AtWork
<1>0. TypeOK /\ None \notin Dir /\ Name \cap Engine = {} /\ None \notin Publisher
  BY PublicationAssumption DEF IInv, Dir
<1>1. ReceiptProven'
  BY <1>0 DEF IInv, ReceiptProven, TypeOK, Validate, Named, publisherVars, dirVars, history
<1>2. JobProven'
  BY <1>0 DEF IInv, JobProven, TypeOK, Validate, Goto, Named, publisherVars, dirVars, history
<1>3. OwnProven'
  BY <1>0 DEF IInv, OwnProven, TypeOK, Validate, Goto, Named, publisherVars, dirVars, history
<1>4. VisibleIsProven'
  BY <1>0 DEF IInv, VisibleIsProven, TypeOK, Validate, Put, Named, publisherVars, dirVars,
     history
<1>5. BoundProven'
  BY <1>0 DEF IInv, BoundProven, TypeOK, Validate, Put, Named, publisherVars, dirVars, history
<1>6. LockCovers' /\ OwnPlaced' /\ OwnUnique' /\ EntryPlaced' /\ EntryUnique' /\ VisibleIsWhole'
  BY DEF IInv, LockCovers, OwnPlaced, OwnUnique, EntryPlaced, EntryUnique, VisibleIsWhole,
     Named, Validate, publisherVars, dirVars, history
<1> QED
  BY <1>1, <1>2, <1>3, <1>4, <1>5, <1>6 DEF IInv

LEMMA LockIInv ==
  ASSUME IInv, TypeOK', NEW p \in Publisher, Lock(p)
  PROVE  IInv'
<1> USE DEF AtWork
<1>0. TypeOK /\ None \notin Dir /\ Name \cap Engine = {} /\ None \notin Publisher
  BY PublicationAssumption DEF IInv, Dir
<1>1. LockCovers'
  BY <1>0 DEF IInv, LockCovers, TypeOK, Lock, Goto, Named, publisherVars, dirVars, history
<1>2. JobProven'
  BY <1>0 DEF IInv, JobProven, TypeOK, Lock, Goto, Named, publisherVars, dirVars, history
<1>3. OwnProven'
  BY <1>0 DEF IInv, OwnProven, TypeOK, Lock, Goto, Named, publisherVars, dirVars, history
<1>4. OwnPlaced'
  BY <1>0 DEF IInv, OwnPlaced, TypeOK, Lock, Goto, Put, Named, publisherVars, dirVars, history
<1>5. ReceiptProven' /\ OwnUnique' /\ EntryPlaced' /\ EntryUnique' /\ VisibleIsWhole' /\
     VisibleIsProven' /\ BoundProven'
  BY DEF IInv, ReceiptProven, OwnUnique, EntryPlaced, EntryUnique, VisibleIsWhole,
     VisibleIsProven, BoundProven, Named, Lock, publisherVars, dirVars, history
<1> QED
  BY <1>1, <1>2, <1>3, <1>4, <1>5 DEF IInv

LEMMA DedupIInv ==
  ASSUME IInv, TypeOK', NEW p \in Publisher, Dedup(p)
  PROVE  IInv'
<1> USE DEF AtWork
<1>0. TypeOK /\ None \notin Dir /\ Name \cap Engine = {} /\ None \notin Publisher
  BY PublicationAssumption DEF IInv, Dir
<1>1. LockCovers'
  <2>1. CASE Returns(p)
    BY <1>0, <2>1 DEF IInv, LockCovers, TypeOK, Dedup, Goto, Named, Returns
  <2>2. CASE Goto(p, "stage") /\ UNCHANGED <<job, own, lock>>
    BY <1>0, <2>2 DEF IInv, LockCovers, TypeOK, Dedup, Goto, Named
  <2> QED
    BY <2>1, <2>2 DEF Dedup
<1>2. JobProven'
  BY <1>0 DEF IInv, JobProven, TypeOK, Dedup, Goto, Named, Returns, publisherVars, dirVars,
     history
<1>3. OwnProven'
  BY <1>0 DEF IInv, OwnProven, TypeOK, Dedup, Goto, Named, Returns, publisherVars, dirVars,
     history
<1>4. OwnPlaced'
  BY <1>0 DEF IInv, OwnPlaced, TypeOK, Dedup, Goto, Put, Named, Returns, publisherVars,
     dirVars, history
<1>5. OwnUnique'
  BY <1>0 DEF IInv, OwnUnique, TypeOK, Dedup, Goto, Named, Returns, publisherVars, dirVars,
     history
<1>6. ReceiptProven' /\ EntryPlaced' /\ EntryUnique' /\ VisibleIsWhole' /\ VisibleIsProven'
     /\ BoundProven'
  BY DEF IInv, ReceiptProven, EntryPlaced, EntryUnique, VisibleIsWhole, VisibleIsProven,
     BoundProven, Named, Dedup, publisherVars, dirVars, history
<1> QED
  BY <1>1, <1>2, <1>3, <1>4, <1>5, <1>6 DEF IInv

LEMMA StageIInv ==
  ASSUME IInv, TypeOK', NEW p \in Publisher, Stage(p)
  PROVE  IInv'
<1> USE DEF AtWork
<1>0. TypeOK /\ None \notin Dir /\ Name \cap Engine = {} /\ None \notin Publisher
  BY PublicationAssumption DEF IInv, Dir
<1>a. PICK d \in Dir :
        /\ place[d] = "free"
        /\ place' = [place EXCEPT ![d] = "staging"]
        /\ own' = [own EXCEPT ![p] = d]
        /\ package' = [package EXCEPT ![d] = [build |-> disk[p], planes |-> job[p].planes,
                                              complete |-> FALSE]]
  BY DEF Stage, Put
<1>b. \A q \in Publisher : own[q] # d
  BY <1>0, <1>a DEF IInv, TypeOK, OwnPlaced
<1>c. \A s \in Slot : entry[s] # d
  BY <1>0, <1>a DEF IInv, VisibleIsWhole
<1>d. \A s \in Slot : bound[s] # None => bound[s].dir \in Dir /\ bound[s].dir # d
  BY <1>0, <1>a DEF IInv, TypeOK, BoundProven
<1>1. LockCovers'
  BY <1>0, <1>a, <1>b, <1>c, <1>d DEF IInv, LockCovers, TypeOK, Stage, Goto, Named,
     publisherVars, dirVars, history
<1>2. JobProven'
  BY <1>0, <1>a, <1>b, <1>c, <1>d DEF IInv, JobProven, TypeOK, Stage, Goto, Named,
     publisherVars, dirVars, history
<1>3. OwnProven'
  BY <1>0, <1>a, <1>b, <1>c, <1>d DEF IInv, OwnProven, JobProven, TypeOK, Stage, Goto, Named,
     publisherVars, dirVars, history
<1>4. OwnPlaced'
  BY <1>0, <1>a, <1>b, <1>c, <1>d DEF IInv, OwnPlaced, TypeOK, Stage, Goto, Put, Named,
     publisherVars, dirVars, history
<1>5. OwnUnique'
  BY <1>0, <1>a, <1>b, <1>c, <1>d DEF IInv, OwnUnique, TypeOK, Stage, Named, publisherVars,
     dirVars, history
<1>6. EntryPlaced'
  BY <1>0, <1>a, <1>b, <1>c, <1>d DEF IInv, EntryPlaced, TypeOK, Stage, Put, Named,
     publisherVars, dirVars, history
<1>7. VisibleIsWhole'
  BY <1>0, <1>a, <1>b, <1>c, <1>d DEF IInv, VisibleIsWhole, TypeOK, Stage, Put, Named,
     publisherVars, dirVars, history
<1>8. VisibleIsProven'
  BY <1>0, <1>a, <1>b, <1>c, <1>d DEF IInv, VisibleIsProven, TypeOK, Stage, Put, Named,
     publisherVars, dirVars, history
<1>9. BoundProven'
  BY <1>0, <1>a, <1>b, <1>c, <1>d DEF IInv, BoundProven, TypeOK, Stage, Put, Named,
     publisherVars, dirVars, history
<1>10. ReceiptProven' /\ EntryUnique'
  BY DEF IInv, ReceiptProven, EntryUnique, Named, Stage, publisherVars, dirVars, history
<1> QED
  BY <1>1, <1>2, <1>3, <1>4, <1>5, <1>6, <1>7, <1>8, <1>9, <1>10 DEF IInv

LEMMA PopulateIInv ==
  ASSUME IInv, TypeOK', NEW p \in Publisher, Populate(p)
  PROVE  IInv'
<1> USE DEF AtWork
<1>0. TypeOK /\ None \notin Dir /\ Name \cap Engine = {} /\ None \notin Publisher
  BY PublicationAssumption DEF IInv, Dir
<1>1. LockCovers'
  BY <1>0 DEF IInv, LockCovers, TypeOK, Populate, Goto, Named, publisherVars, dirVars, history
<1>2. JobProven'
  BY <1>0 DEF IInv, JobProven, TypeOK, Populate, Goto, Named, publisherVars, dirVars, history
<1>3. OwnProven'
  BY <1>0 DEF IInv, OwnProven, TypeOK, Populate, Goto, Named, publisherVars, dirVars, history
<1>4. OwnPlaced'
  BY <1>0 DEF IInv, OwnPlaced, TypeOK, Populate, Goto, Put, Named, publisherVars, dirVars,
     history
<1>5. VisibleIsWhole'
  BY <1>0 DEF IInv, VisibleIsWhole, TypeOK, Populate, Put, Named, publisherVars, dirVars,
     history
<1>6. VisibleIsProven'
  BY <1>0 DEF IInv, VisibleIsProven, TypeOK, Populate, Put, Named, publisherVars, dirVars,
     history
<1>7. BoundProven'
  BY <1>0 DEF IInv, BoundProven, TypeOK, Populate, Put, Named, publisherVars, dirVars, history
<1>8. ReceiptProven' /\ OwnUnique' /\ EntryPlaced' /\ EntryUnique'
  BY DEF IInv, ReceiptProven, OwnUnique, EntryPlaced, EntryUnique, Named, Populate,
     publisherVars, dirVars, history
<1> QED
  BY <1>1, <1>2, <1>3, <1>4, <1>5, <1>6, <1>7, <1>8 DEF IInv

LEMMA StagingFailsIInv ==
  ASSUME IInv, TypeOK', NEW p \in Publisher, StagingFails(p)
  PROVE  IInv'
<1> USE DEF AtWork
<1>0. TypeOK /\ None \notin Dir /\ Name \cap Engine = {} /\ None \notin Publisher
  BY PublicationAssumption DEF IInv, Dir
<1>1. LockCovers'
  BY <1>0 DEF IInv, LockCovers, TypeOK, StagingFails, Goto, Named, Returns, publisherVars,
     dirVars, history
<1>2. JobProven'
  BY <1>0 DEF IInv, JobProven, TypeOK, StagingFails, Goto, Named, Returns, publisherVars,
     dirVars, history
<1>3. OwnProven'
  BY <1>0 DEF IInv, OwnProven, TypeOK, StagingFails, Goto, Named, Returns, publisherVars,
     dirVars, history
<1>4. OwnPlaced'
  BY <1>0 DEF IInv, OwnPlaced, OwnUnique, TypeOK, StagingFails, Goto, Put, Named, Returns,
     publisherVars, dirVars, history
<1>5. OwnUnique'
  BY <1>0 DEF IInv, OwnUnique, TypeOK, StagingFails, Goto, Named, Returns, publisherVars,
     dirVars, history
<1>6. EntryPlaced'
  BY <1>0 DEF IInv, EntryPlaced, TypeOK, StagingFails, Goto, Put, Named, Returns,
     publisherVars, dirVars, history
<1>7. VisibleIsWhole'
  BY <1>0 DEF IInv, VisibleIsWhole, OwnPlaced, TypeOK, StagingFails, Goto, Put, Named,
     Returns, publisherVars, dirVars, history
<1>8. BoundProven'
  BY <1>0 DEF IInv, BoundProven, TypeOK, StagingFails, Goto, Put, Named, Returns,
     publisherVars, dirVars, history
<1>9. ReceiptProven' /\ EntryUnique' /\ VisibleIsProven'
  BY DEF IInv, ReceiptProven, EntryUnique, VisibleIsProven, Named, StagingFails,
     publisherVars, dirVars, history
<1> QED
  BY <1>1, <1>2, <1>3, <1>4, <1>5, <1>6, <1>7, <1>8, <1>9 DEF IInv

LEMMA PlaceIInv ==
  ASSUME IInv, TypeOK', NEW p \in Publisher, Place(p)
  PROVE  IInv'
<1> USE DEF AtWork
<1>0. TypeOK /\ None \notin Dir /\ Name \cap Engine = {} /\ None \notin Publisher
  BY PublicationAssumption DEF IInv, Dir
<1>1. LockCovers'
  BY <1>0 DEF IInv, LockCovers, TypeOK, Place, Goto, Named, Returns, publisherVars, dirVars,
     history
<1>2. JobProven'
  BY <1>0 DEF IInv, JobProven, TypeOK, Place, Goto, Named, Returns, publisherVars, dirVars,
     history
<1>3. OwnProven'
  BY <1>0 DEF IInv, OwnProven, TypeOK, Place, Goto, Named, Returns, publisherVars, dirVars,
     history
<1>4. OwnPlaced'
  BY <1>0 DEF IInv, OwnPlaced, OwnUnique, TypeOK, Place, Goto, Put, Named, Returns,
     publisherVars, dirVars, history
<1>5. OwnUnique'
  BY <1>0 DEF IInv, OwnUnique, TypeOK, Place, Goto, Named, Returns, publisherVars, dirVars,
     history
<1>6. EntryPlaced'
  BY <1>0 DEF IInv, EntryPlaced, TypeOK, Place, Goto, Put, Named, Returns, publisherVars,
     dirVars, history
<1>7. EntryUnique'
  BY <1>0 DEF IInv, EntryUnique, OwnPlaced, VisibleIsWhole, TypeOK, Place, Goto, Put, Named,
     Returns, publisherVars, dirVars, history
<1>8. VisibleIsWhole'
  <2>1. own[p] \in Dir /\ place[own[p]] = "staging" /\ package[own[p]].complete
    BY <1>0 DEF IInv, OwnPlaced, TypeOK, Place
  <2>2. \A s \in Slot : entry[s] # own[p]
    BY <1>0, <2>1 DEF IInv, VisibleIsWhole
  <2>3. CASE entry[job[p].slot] = None
    BY <1>0, <2>1, <2>2, <2>3 DEF IInv, VisibleIsWhole, TypeOK, Place, Put
  <2>4. CASE entry[job[p].slot] # None
    BY <1>0, <2>1, <2>2, <2>4 DEF IInv, VisibleIsWhole, TypeOK, Place, Put
  <2> QED
    BY <2>3, <2>4
<1>9. VisibleIsProven'
  <2>1. /\ package' = package /\ proven' = proven
        /\ entry' = entry \/ entry' = [entry EXCEPT ![job[p].slot] = own[p]]
    BY DEF Place, history
  <2>2. \A plane \in package[own[p]].planes : <<package[own[p]].build, plane>> \in proven
    BY DEF IInv, OwnProven, Place
  <2> QED
    BY <1>0, <2>1, <2>2 DEF IInv, VisibleIsProven, TypeOK
<1>10. BoundProven'
  BY <1>0 DEF IInv, BoundProven, TypeOK, Place, Goto, Put, Named, Returns, publisherVars,
     dirVars, history
<1>11. ReceiptProven'
  BY DEF IInv, ReceiptProven, Named, Place, publisherVars, dirVars, history
<1> QED
  BY <1>1, <1>2, <1>3, <1>4, <1>5, <1>6, <1>7, <1>8, <1>9, <1>10, <1>11 DEF IInv

LEMMA MaterializeIInv ==
  ASSUME IInv, TypeOK', NEW p \in Publisher, Materialize(p)
  PROVE  IInv'
<1> USE DEF AtWork
<1>0. TypeOK /\ None \notin Dir /\ Name \cap Engine = {} /\ None \notin Publisher
  BY PublicationAssumption DEF IInv, Dir
<1>1. LockCovers'
  BY <1>0 DEF IInv, LockCovers, TypeOK, Materialize, Goto, Named, publisherVars, dirVars,
     history
<1>2. JobProven'
  BY <1>0 DEF IInv, JobProven, TypeOK, Materialize, Goto, Named, publisherVars, dirVars, history
<1>3. OwnProven'
  BY <1>0 DEF IInv, OwnProven, TypeOK, Materialize, Goto, Named, publisherVars, dirVars, history
<1>4. OwnPlaced'
  BY <1>0 DEF IInv, OwnPlaced, OwnUnique, TypeOK, Materialize, Goto, Put, Named,
     publisherVars, dirVars, history
<1>5. EntryPlaced'
  BY <1>0 DEF IInv, EntryPlaced, OwnPlaced, VisibleIsWhole, TypeOK, Materialize, Put, Named,
     publisherVars, dirVars, history
<1>6. VisibleIsWhole'
  BY <1>0 DEF IInv, VisibleIsWhole, TypeOK, Materialize, Put, Named, publisherVars, dirVars,
     history
<1>7. BoundProven'
  BY <1>0 DEF IInv, BoundProven, TypeOK, Materialize, Put, Named, publisherVars, dirVars,
     history
<1>8. ReceiptProven' /\ OwnUnique' /\ EntryUnique' /\ VisibleIsProven'
  BY DEF IInv, ReceiptProven, OwnUnique, EntryUnique, VisibleIsProven, Named, Materialize,
     publisherVars, dirVars, history
<1> QED
  BY <1>1, <1>2, <1>3, <1>4, <1>5, <1>6, <1>7, <1>8 DEF IInv

LEMMA MigrateIInv ==
  ASSUME IInv, TypeOK', NEW p \in Publisher, Migrate(p)
  PROVE  IInv'
<1> USE DEF AtWork
<1>0. TypeOK /\ None \notin Dir /\ Name \cap Engine = {} /\ None \notin Publisher
  BY PublicationAssumption DEF IInv, Dir
<1>1. OwnPlaced'
  BY <1>0 DEF IInv, OwnPlaced, TypeOK, Migrate, Goto, Put, Named, publisherVars, dirVars,
     history
<1>2. EntryPlaced'
  BY <1>0 DEF IInv, EntryPlaced, EntryUnique, TypeOK, Migrate, Put, Named, publisherVars,
     dirVars, history
<1>3. EntryUnique'
  BY <1>0 DEF IInv, EntryUnique, TypeOK, Migrate, Put, Named, publisherVars, dirVars, history
<1>4. VisibleIsWhole'
  BY <1>0 DEF IInv, VisibleIsWhole, TypeOK, Migrate, Put, Named, publisherVars, dirVars, history
<1>5. VisibleIsProven'
  BY <1>0 DEF IInv, VisibleIsProven, TypeOK, Migrate, Put, Named, publisherVars, dirVars,
     history
<1>6. BoundProven'
  BY <1>0 DEF IInv, BoundProven, TypeOK, Migrate, Put, Named, publisherVars, dirVars, history
<1>7. LockCovers' /\ ReceiptProven' /\ JobProven' /\ OwnProven' /\ OwnUnique'
  BY DEF IInv, LockCovers, ReceiptProven, JobProven, OwnProven, OwnUnique, Named, Migrate,
     publisherVars, dirVars, history
<1> QED
  BY <1>1, <1>2, <1>3, <1>4, <1>5, <1>6, <1>7 DEF IInv

LEMMA FlipIInv ==
  ASSUME IInv, TypeOK', NEW p \in Publisher, Flip(p)
  PROVE  IInv'
<1> USE DEF AtWork
<1>0. TypeOK /\ None \notin Dir /\ Name \cap Engine = {} /\ None \notin Publisher
  BY PublicationAssumption DEF IInv, Dir
<1>1. LockCovers'
  BY <1>0 DEF IInv, LockCovers, TypeOK, Flip, Goto, Named, publisherVars, dirVars, history
<1>2. JobProven'
  BY <1>0 DEF IInv, JobProven, TypeOK, Flip, Goto, Named, publisherVars, dirVars, history
<1>3. OwnProven'
  BY <1>0 DEF IInv, OwnProven, TypeOK, Flip, Goto, Named, publisherVars, dirVars, history
<1>4. OwnPlaced'
  BY <1>0 DEF IInv, OwnPlaced, LockCovers, TypeOK, Flip, Goto, Put, Named, publisherVars,
     dirVars, history
<1>5. EntryPlaced'
  BY <1>0 DEF IInv, EntryPlaced, OwnPlaced, TypeOK, Flip, Put, Named, publisherVars, dirVars,
     history
<1>6. EntryUnique'
  BY <1>0 DEF IInv, EntryUnique, OwnPlaced, EntryPlaced, TypeOK, Flip, Put, Named,
     publisherVars, dirVars, history
<1>7. VisibleIsWhole'
  BY <1>0 DEF IInv, VisibleIsWhole, OwnPlaced, TypeOK, Flip, Put, Named, publisherVars,
     dirVars, history
<1>8. VisibleIsProven'
  BY <1>0 DEF IInv, VisibleIsProven, OwnProven, TypeOK, Flip, Put, Named, publisherVars,
     dirVars, history
<1>9. ReceiptProven' /\ OwnUnique' /\ BoundProven'
  BY DEF IInv, ReceiptProven, OwnUnique, BoundProven, Named, Flip, publisherVars, dirVars,
     history
<1> QED
  BY <1>1, <1>2, <1>3, <1>4, <1>5, <1>6, <1>7, <1>8, <1>9 DEF IInv

LEMMA FlipFailsIInv ==
  ASSUME IInv, TypeOK', NEW p \in Publisher, FlipFails(p)
  PROVE  IInv'
<1> USE DEF AtWork
<1>0. TypeOK /\ None \notin Dir /\ Name \cap Engine = {} /\ None \notin Publisher
  BY PublicationAssumption DEF IInv, Dir
<1>1. LockCovers'
  BY <1>0 DEF IInv, LockCovers, TypeOK, FlipFails, Goto, Named, Returns, publisherVars,
     dirVars, history
<1>2. JobProven'
  BY <1>0 DEF IInv, JobProven, TypeOK, FlipFails, Goto, Named, Returns, publisherVars,
     dirVars, history
<1>3. OwnProven'
  BY <1>0 DEF IInv, OwnProven, TypeOK, FlipFails, Goto, Named, Returns, publisherVars,
     dirVars, history
<1>4. OwnPlaced'
  BY <1>0 DEF IInv, OwnPlaced, TypeOK, FlipFails, Goto, Put, Named, Returns, publisherVars,
     dirVars, history
<1>5. OwnUnique'
  BY <1>0 DEF IInv, OwnUnique, TypeOK, FlipFails, Goto, Named, Returns, publisherVars,
     dirVars, history
<1>6. ReceiptProven' /\ EntryPlaced' /\ EntryUnique' /\ VisibleIsWhole' /\ VisibleIsProven'
     /\ BoundProven'
  BY DEF IInv, ReceiptProven, EntryPlaced, EntryUnique, VisibleIsWhole, VisibleIsProven,
     BoundProven, Named, FlipFails, publisherVars, dirVars, history
<1> QED
  BY <1>1, <1>2, <1>3, <1>4, <1>5, <1>6 DEF IInv

LEMMA GcIInv ==
  ASSUME IInv, TypeOK', NEW p \in Publisher, Gc(p)
  PROVE  IInv'
<1> USE DEF AtWork
<1>0. TypeOK /\ None \notin Dir /\ Name \cap Engine = {} /\ None \notin Publisher
  BY PublicationAssumption DEF IInv, Dir
<1>1. OwnPlaced'
  BY <1>0 DEF IInv, OwnPlaced, LockCovers, OwnUnique, TypeOK, Gc, Goto, Put, Named,
     Superseded, publisherVars, dirVars, history
<1>2. EntryPlaced'
  BY <1>0 DEF IInv, EntryPlaced, TypeOK, Gc, Put, Named, Superseded, publisherVars, dirVars,
     history
<1>3. VisibleIsWhole'
  BY <1>0 DEF IInv, VisibleIsWhole, OwnPlaced, EntryPlaced, EntryUnique, TypeOK, Gc, Put,
     Named, Superseded, publisherVars, dirVars, history
<1>4. BoundProven'
  BY <1>0 DEF IInv, BoundProven, TypeOK, Gc, Put, Named, Superseded, publisherVars, dirVars,
     history
<1>5. LockCovers' /\ ReceiptProven' /\ JobProven' /\ OwnProven' /\ OwnUnique' /\ EntryUnique'
     /\ VisibleIsProven'
  BY DEF IInv, LockCovers, ReceiptProven, JobProven, OwnProven, OwnUnique, EntryUnique,
     VisibleIsProven, Named, Gc, publisherVars, dirVars, history
<1> QED
  BY <1>1, <1>2, <1>3, <1>4, <1>5 DEF IInv

LEMMA PublishedIInv ==
  ASSUME IInv, TypeOK', NEW p \in Publisher, Published(p)
  PROVE  IInv'
<1> USE DEF AtWork
<1>0. TypeOK /\ None \notin Dir /\ Name \cap Engine = {} /\ None \notin Publisher
  BY PublicationAssumption DEF IInv, Dir
<1>1. LockCovers'
  BY <1>0 DEF IInv, LockCovers, TypeOK, Published, Goto, Named, Returns, publisherVars,
     dirVars, history
<1>2. JobProven'
  BY <1>0 DEF IInv, JobProven, TypeOK, Published, Goto, Named, Returns, publisherVars,
     dirVars, history
<1>3. OwnProven'
  BY <1>0 DEF IInv, OwnProven, TypeOK, Published, Goto, Named, Returns, publisherVars,
     dirVars, history
<1>4. OwnPlaced'
  BY <1>0 DEF IInv, OwnPlaced, TypeOK, Published, Goto, Put, Named, Returns, publisherVars,
     dirVars, history
<1>5. OwnUnique'
  BY <1>0 DEF IInv, OwnUnique, TypeOK, Published, Goto, Named, Returns, publisherVars,
     dirVars, history
<1>6. ReceiptProven' /\ EntryPlaced' /\ EntryUnique' /\ VisibleIsWhole' /\ VisibleIsProven'
     /\ BoundProven'
  BY DEF IInv, ReceiptProven, EntryPlaced, EntryUnique, VisibleIsWhole, VisibleIsProven,
     BoundProven, Named, Published, publisherVars, dirVars, history
<1> QED
  BY <1>1, <1>2, <1>3, <1>4, <1>5, <1>6 DEF IInv

LEMMA KillIInv ==
  ASSUME IInv, TypeOK', NEW p \in Publisher, Kill(p)
  PROVE  IInv'
<1> USE DEF AtWork
<1>0. TypeOK /\ None \notin Dir /\ Name \cap Engine = {} /\ None \notin Publisher
  BY PublicationAssumption DEF IInv, Dir
<1>1. LockCovers'
  BY <1>0 DEF IInv, LockCovers, TypeOK, Kill, Goto, Named, Returns, publisherVars, dirVars,
     history
<1>2. ReceiptProven'
  BY <1>0 DEF IInv, ReceiptProven, TypeOK, Kill, Goto, Named, Returns, publisherVars,
     dirVars, history
<1>3. JobProven'
  BY <1>0 DEF IInv, JobProven, TypeOK, Kill, Goto, Named, Returns, publisherVars, dirVars,
     history
<1>4. OwnProven'
  BY <1>0 DEF IInv, OwnProven, TypeOK, Kill, Goto, Named, Returns, publisherVars, dirVars,
     history
<1>5. OwnPlaced'
  BY <1>0 DEF IInv, OwnPlaced, TypeOK, Kill, Goto, Put, Named, Returns, publisherVars,
     dirVars, history
<1>6. OwnUnique'
  BY <1>0 DEF IInv, OwnUnique, TypeOK, Kill, Goto, Named, Returns, publisherVars, dirVars,
     history
<1>7. EntryPlaced' /\ EntryUnique' /\ VisibleIsWhole' /\ VisibleIsProven' /\ BoundProven'
  BY DEF IInv, EntryPlaced, EntryUnique, VisibleIsWhole, VisibleIsProven, BoundProven, Named,
     Kill, publisherVars, dirVars, history
<1> QED
  BY <1>1, <1>2, <1>3, <1>4, <1>5, <1>6, <1>7 DEF IInv

LEMMA BindIInv ==
  ASSUME IInv, TypeOK', NEW s \in Slot, Bind(s)
  PROVE  IInv'
<1> USE DEF AtWork
<1>0. TypeOK /\ None \notin Dir /\ Name \cap Engine = {} /\ None \notin Publisher
  BY PublicationAssumption DEF IInv, Dir
<1>1. BoundProven'
  BY <1>0 DEF IInv, BoundProven, VisibleIsProven, VisibleIsWhole, TypeOK, Bind, Put, Named,
     Manifest, publisherVars, dirVars, history
<1>2. LockCovers' /\ ReceiptProven' /\ JobProven' /\ OwnProven' /\ OwnPlaced' /\ OwnUnique'
     /\ EntryPlaced' /\ EntryUnique' /\ VisibleIsWhole' /\ VisibleIsProven'
  BY DEF IInv, LockCovers, ReceiptProven, JobProven, OwnProven, OwnPlaced, OwnUnique,
     EntryPlaced, EntryUnique, VisibleIsWhole, VisibleIsProven, Named, Bind, publisherVars,
     dirVars, history
<1> QED
  BY <1>1, <1>2 DEF IInv

LEMMA PromoteIInv ==
  ASSUME IInv, TypeOK', NEW s \in Slot, Promote(s)
  PROVE  IInv'
<1> USE DEF AtWork
<1>0. TypeOK /\ None \notin Dir /\ Name \cap Engine = {} /\ None \notin Publisher
  BY PublicationAssumption DEF IInv, Dir
<1>1. BoundProven'
  BY <1>0 DEF IInv, BoundProven, VisibleIsProven, VisibleIsWhole, TypeOK, Promote, Put,
     Named, Manifest, EngineOf, publisherVars, dirVars, history
<1>2. LockCovers' /\ ReceiptProven' /\ JobProven' /\ OwnProven' /\ OwnPlaced' /\ OwnUnique'
     /\ EntryPlaced' /\ EntryUnique' /\ VisibleIsWhole' /\ VisibleIsProven'
  BY DEF IInv, LockCovers, ReceiptProven, JobProven, OwnProven, OwnPlaced, OwnUnique,
     EntryPlaced, EntryUnique, VisibleIsWhole, VisibleIsProven, Named, Promote,
     publisherVars, dirVars, history
<1> QED
  BY <1>1, <1>2 DEF IInv

LEMMA PublishIInv ==
  ASSUME IInv, TypeOK', NEW p \in Publisher, NEW s \in Slot, NEW planes \in SUBSET Plane,
         Publish(p, s, planes)
  PROVE  IInv'
<1> USE DEF AtWork
<1>0. TypeOK
  BY DEF IInv
<1>a. /\ pc' = [pc EXCEPT ![p] = "begin"] /\ own[p] = None
      /\ job' = [job EXCEPT ![p] = [slot |-> s, planes |-> Offered(p, planes)]]
      /\ UNCHANGED <<disk, own, place, version, package, entry, lock, bound, proven>>
  BY <1>0 DEF Publish, Goto, dirVars, history, TypeOK
<1>1. LockCovers' /\ OwnProven'
  BY <1>0, <1>a DEF IInv, LockCovers, OwnProven, TypeOK, Named
<1>2. JobProven'
  <2>1. <<disk[p], receipt[p].plane>> \in proven /\ receipt[p].plane \in Plane
    BY <1>0 DEF IInv, ReceiptProven, TypeOK, Publish, Verified
  <2>2. Offered(p, planes) \subseteq {receipt[p].plane}
    BY <2>1 DEF Offered, Publish, Plane
  <2> QED
    BY <1>0, <1>a, <2>1, <2>2 DEF IInv, JobProven, TypeOK
<1>3. OwnPlaced' /\ OwnUnique'
  BY <1>0, <1>a DEF IInv, OwnPlaced, OwnUnique, TypeOK, Named
<1>4. EntryPlaced' /\ EntryUnique'
  BY <1>a DEF IInv, EntryPlaced, EntryUnique
<1>5. VisibleIsWhole' /\ VisibleIsProven'
  BY <1>a DEF IInv, VisibleIsWhole, VisibleIsProven
<1>6. BoundProven' /\ ReceiptProven'
  BY <1>a DEF IInv, BoundProven, ReceiptProven, Publish
<1> QED
  BY <1>0, <1>1, <1>2, <1>3, <1>4, <1>5, <1>6 DEF IInv

LEMMA StepIInv == IInv /\ [Next]_vars => IInv'
<1> SUFFICES ASSUME IInv, [Next]_vars PROVE IInv'
  OBVIOUS
<1>0. TypeOK'
  BY TypeNext DEF IInv
<1>1. CASE \E p \in Publisher : Rebuild(p) \/ Validate(p) \/ Kill(p)
  BY <1>0, <1>1, RebuildIInv, ValidateIInv, KillIInv
<1>2. CASE \E p \in Publisher : PublisherStep(p)
  BY <1>0, <1>2, LockIInv, DedupIInv, StageIInv, PopulateIInv, StagingFailsIInv, PlaceIInv,
     MaterializeIInv, MigrateIInv, FlipIInv, FlipFailsIInv, GcIInv, PublishedIInv
     DEF PublisherStep
<1>3. CASE \E p \in Publisher, slot \in Slot, planes \in SUBSET Plane : Publish(p, slot, planes)
  BY <1>0, <1>3, PublishIInv
<1>4. CASE \E s \in Watched : Bind(s) \/ Promote(s)
  BY <1>0, <1>4, BindIInv, PromoteIInv, PublicationAssumption DEF Slot
<1>5. CASE UNCHANGED vars
  BY <1>5 DEF vars, publisherVars, dirVars, history, IInv, AtWork, TypeOK, LockCovers, JobProven,
     ReceiptProven, OwnProven, OwnPlaced, OwnUnique, EntryPlaced, EntryUnique, VisibleIsWhole, VisibleIsProven,
     BoundProven, Named
<1> QED
  BY <1>1, <1>2, <1>3, <1>4, <1>5 DEF Next

LEMMA Inductive == Spec => []IInv
BY InitIInv, StepIInv, PTL DEF Spec

\* Whoever publishes and whoever is killed, the variables keep their types.
THEOREM Typed == Spec => []TypeOK
BY Inductive, PTL DEF IInv

\* No reader of the directory meets a missing or an unfinished package.
THEOREM Whole == Spec => []VisibleIsWhole
BY Inductive, PTL DEF IInv

\* The gate holds for whatever is visible: validated, on every plane offered.
THEOREM Proven == Spec => []VisibleIsProven
BY Inductive, PTL DEF IInv

\* A binding whose package is still shown serves a validated build and plane.
THEOREM Serves == Spec => []ServesProven
<1>1. IInv => ServesProven
  BY DEF IInv, BoundProven, ServesProven
<1> QED
  BY <1>1, Inductive, PTL

\* No step takes an engine away, or changes what an engine id stands for.
THEOREM Stays == Spec => EntryStays
<1>1. IInv /\ [Next]_vars =>
        [\A s \in Slot :
           /\ entry[s] # None /\ place[entry[s]] # "dest" => entry'[s] # None
           /\ entry[s] # None /\ s \in Engine => entry'[s] = entry[s]]_vars
  <2> SUFFICES ASSUME IInv, Next, NEW s \in Slot, entry[s] # None
               PROVE  /\ place[entry[s]] # "dest" => entry'[s] # None
                      /\ s \in Engine => entry'[s] = entry[s]
    OBVIOUS
  <2>0. TypeOK /\ Name \cap Engine = {} /\ None \notin Dir
    BY PublicationAssumption DEF IInv, Dir
  <2>1. CASE UNCHANGED entry
    BY <2>1
  <2>2. ASSUME NEW p \in Publisher, Place(p) PROVE UNCHANGED entry \/ entry'[s] = entry[s]
    BY <2>0, <2>2 DEF Place, TypeOK
  <2>3. ASSUME NEW p \in Publisher, Migrate(p)
        PROVE  entry'[s] = entry[s] \/ (s \in Name /\ place[entry[s]] = "dest")
    BY <2>0, <2>3 DEF Migrate, TypeOK, Named
  <2>4. ASSUME NEW p \in Publisher, Flip(p)
        PROVE  entry'[s] = entry[s] \/ (s \in Name /\ entry'[s] # None)
    BY <2>0, <2>4 DEF Flip, TypeOK, Named
  <2>5. \/ UNCHANGED entry
        \/ \E p \in Publisher : Place(p) \/ Migrate(p) \/ Flip(p)
    BY DEF Next, PublisherStep, Rebuild, Validate, Publish, Kill, Lock, Dedup, Stage, Populate,
       StagingFails, Materialize, FlipFails, Gc, Published, Bind, Promote, dirVars
  <2> QED
    BY <2>0, <2>1, <2>2, <2>3, <2>4, <2>5
<1> QED
  BY <1>1, Inductive, PTL DEF Spec, EntryStays
---------------------------------------------------------------------------
(* The engines directory is a catalogue.                                   *)

\* What is published under an engine id is of that engine, from the gate to
\* the rename.
EngineKept ==
  \A p \in Publisher :
    /\ pc[p] \in {"begin", "stage"} /\ ~Named(p) => job[p].slot = disk[p].engine
    /\ pc[p] \in AtWork /\ ~Named(p) => package[own[p]].build.engine = job[p].slot

LEMMA EngineKeptStep == IInv /\ EngineKept /\ [Next]_vars => EngineKept'
<1> SUFFICES ASSUME IInv, EngineKept, [Next]_vars PROVE EngineKept'
  OBVIOUS
<1>0. TypeOK /\ None \notin Dir
  BY PublicationAssumption DEF IInv, Dir
<1> USE DEF AtWork, Named
<1>1. ASSUME NEW p \in Publisher, Rebuild(p) PROVE EngineKept'
  BY <1>0, <1>1 DEF EngineKept, TypeOK, Rebuild, dirVars
<1>2. ASSUME NEW p \in Publisher, Validate(p) PROVE EngineKept'
  BY <1>2 DEF EngineKept, Validate, dirVars
<1>3. ASSUME NEW p \in Publisher, NEW s \in Slot, NEW planes \in SUBSET Plane,
             Publish(p, s, planes) PROVE EngineKept'
  <2>1. /\ pc' = [pc EXCEPT ![p] = "begin"]
        /\ job' = [job EXCEPT ![p] = [slot |-> s, planes |-> Offered(p, planes)]]
        /\ s \in Name \cup {disk[p].engine} /\ UNCHANGED <<disk, own, package>>
    BY <1>3 DEF Publish, Goto, dirVars
  <2> QED
    BY <1>0, <2>1 DEF EngineKept, TypeOK
<1>4. ASSUME NEW p \in Publisher,
             Lock(p) \/ Materialize(p) \/ Migrate(p) \/ Flip(p) \/ Gc(p)
      PROVE  EngineKept'
  BY <1>0, <1>4 DEF EngineKept, TypeOK, Goto, Lock, Materialize, Migrate, Flip, Gc,
                    dirVars, publisherVars
<1>5. ASSUME NEW p \in Publisher, Returns(p), UNCHANGED <<disk, package>> PROVE EngineKept'
  BY <1>0, <1>5 DEF EngineKept, TypeOK, Returns, Goto
<1>6. ASSUME NEW p \in Publisher,
             StagingFails(p) \/ Place(p) \/ FlipFails(p) \/ Published(p) \/ Kill(p)
      PROVE  EngineKept'
  BY <1>5, <1>6 DEF StagingFails, Place, FlipFails, Published, Kill, dirVars
<1>7. ASSUME NEW p \in Publisher, Dedup(p) PROVE EngineKept'
  <2>1. CASE Returns(p)
    BY <1>5, <1>7, <2>1 DEF Dedup, dirVars
  <2>2. CASE Goto(p, "stage") /\ UNCHANGED <<job, own, lock>>
    BY <1>0, <1>7, <2>2 DEF Dedup, dirVars, Goto, EngineKept, TypeOK
  <2> QED
    BY <1>7, <2>1, <2>2 DEF Dedup
<1>8. ASSUME NEW p \in Publisher, Stage(p) PROVE EngineKept'
  <2>1. PICK d \in Dir :
          /\ place[d] = "free" /\ own' = [own EXCEPT ![p] = d]
          /\ package' = [package EXCEPT ![d] = [build |-> disk[p], planes |-> job[p].planes,
                                                complete |-> FALSE]]
    BY <1>8 DEF Stage
  <2>2. \A q \in Publisher : pc[q] \in AtWork => own[q] # d
    BY <1>0, <2>1 DEF IInv, TypeOK, OwnPlaced
  <2>3. pc[p] = "stage" /\ pc' = [pc EXCEPT ![p] = "populate"] /\ UNCHANGED <<disk, job>>
    BY <1>8 DEF Stage, Goto
  <2>4. package'[own'[p]].build = disk[p]
    BY <1>0, <2>1 DEF TypeOK
  <2>5. \A q \in Publisher \ {p} : pc[q] \in AtWork => package'[own'[q]] = package[own[q]]
    BY <1>0, <2>1, <2>2 DEF TypeOK
  <2> QED
    BY <1>0, <2>3, <2>4, <2>5 DEF EngineKept, TypeOK
<1>9. ASSUME NEW p \in Publisher, Populate(p) PROVE EngineKept'
  <2>1. /\ package' = [package EXCEPT ![own[p]].complete = TRUE]
        /\ pc[p] = "populate" /\ pc' = [pc EXCEPT ![p] = "move"]
        /\ UNCHANGED <<disk, job, own>>
    BY <1>9 DEF Populate, Goto
  <2>2. \A d \in Dir : package'[d].build = package[d].build
    BY <1>0, <2>1 DEF TypeOK, Package
  <2> QED
    BY <1>0, <2>1, <2>2 DEF EngineKept, TypeOK
<1>10. ASSUME NEW s \in Watched, Bind(s) \/ Promote(s) PROVE EngineKept'
  BY <1>10 DEF EngineKept, Bind, Promote, publisherVars, dirVars
<1>11. CASE UNCHANGED vars
  BY <1>11 DEF EngineKept, vars, publisherVars, dirVars
<1> QED
  BY <1>1, <1>2, <1>3, <1>4, <1>6, <1>7, <1>8, <1>9, <1>10, <1>11 DEF Next, PublisherStep

\* What readers see does not change by what is done to directories that no
\* slot leads to.
LEMMA HiddenStep ==
  ASSUME UNCHANGED <<entry, bound, proven>>,
         \A s \in Slot : entry[s] # None =>
           package'[entry[s]] = package[entry[s]] /\ place'[entry[s]] = place[entry[s]],
         \A s \in Slot : bound[s] # None =>
           package'[bound[s].dir].build = package[bound[s].dir].build
  PROVE  UNCHANGED Catalogue!vars
<1>1. Shown' = Shown
  BY DEF Shown
<1>2. Real' = Real
  BY DEF Real, Slot
<1>3. Serving' = Serving
  BY DEF Serving
<1> QED
  BY <1>1, <1>2, <1>3 DEF Catalogue!vars

LEMMA HiddenMaps ==
  ASSUME IInv, NEW p \in Publisher,
         \/ Rebuild(p) \/ Lock(p) \/ Dedup(p) \/ FlipFails(p) \/ Published(p) \/ Kill(p)
         \/ Stage(p) \/ Populate(p) \/ StagingFails(p) \/ Materialize(p) \/ Gc(p)
         \/ \E s \in Slot, planes \in SUBSET Plane : Publish(p, s, planes)
  PROVE  UNCHANGED Catalogue!vars
<1>0. TypeOK /\ None \notin Dir
  BY PublicationAssumption DEF IInv, Dir
<1>a. /\ \A s \in Slot : entry[s] # None =>
           entry[s] \in Dir /\ package[entry[s]].complete /\ place[entry[s]] \in {"dest", "version"}
      /\ \A s \in Slot : bound[s] # None => bound[s].dir \in Dir /\ place[bound[s].dir] # "free"
  BY <1>0 DEF IInv, TypeOK, VisibleIsWhole, BoundProven
<1>1. CASE \/ Rebuild(p) \/ Lock(p) \/ Dedup(p) \/ FlipFails(p) \/ Published(p) \/ Kill(p)
           \/ \E s \in Slot, planes \in SUBSET Plane : Publish(p, s, planes)
  <2>1. UNCHANGED <<entry, bound, proven, package, place>>
    BY <1>1 DEF Rebuild, Lock, Dedup, FlipFails, Published, Kill, Publish, dirVars, history
  <2> QED
    BY <2>1, HiddenStep
<1>2. CASE Stage(p)
  <2>1. PICK d \in Dir :
          /\ place[d] = "free" /\ place' = [place EXCEPT ![d] = "staging"]
          /\ package' = [package EXCEPT ![d] = [build |-> disk[p], planes |-> job[p].planes,
                                                complete |-> FALSE]]
    BY <1>2 DEF Stage, Put
  <2>2. UNCHANGED <<entry, bound, proven>>
    BY <1>2 DEF Stage, history
  <2>3. \A e \in Dir \ {d} : package'[e] = package[e] /\ place'[e] = place[e]
    BY <1>0, <2>1 DEF TypeOK
  <2> QED
    BY <1>a, <2>1, <2>2, <2>3, HiddenStep
<1>3. CASE Populate(p)
  <2>1. /\ package' = [package EXCEPT ![own[p]].complete = TRUE]
        /\ UNCHANGED <<entry, bound, proven, place>>
        /\ own[p] \in Dir /\ place[own[p]] = "staging"
    BY <1>0, <1>3 DEF Populate, history, IInv, TypeOK, OwnPlaced
  <2>2. \A e \in Dir :
          package'[e].build = package[e].build /\ (e # own[p] => package'[e] = package[e])
    BY <1>0, <2>1 DEF TypeOK, Package
  <2> QED
    BY <1>a, <2>1, <2>2, HiddenStep
<1>4. CASE StagingFails(p) \/ Materialize(p)
  <2>1. /\ UNCHANGED <<entry, bound, proven, package>>
        /\ place' = [place EXCEPT ![own[p]] = place'[own[p]]]
        /\ own[p] \in Dir /\ place[own[p]] = "staging"
    BY <1>0, <1>4 DEF StagingFails, Materialize, Put, history, IInv, TypeOK, OwnPlaced
  <2>2. \A e \in Dir \ {own[p]} : place'[e] = place[e]
    BY <1>0, <2>1 DEF TypeOK
  <2> QED
    BY <1>a, <2>1, <2>2, HiddenStep
<1>5. CASE Gc(p)
  <2>1. PICK d \in Superseded(p) : place' = [place EXCEPT ![d] = "removed"]
    BY <1>5 DEF Gc, Put
  <2>2. /\ UNCHANGED <<entry, bound, proven, package>> /\ pc[p] = "gc"
        /\ d \in Dir /\ place[d] = "version" /\ version[d] = job[p].slot /\ d # own[p]
    BY <1>5 DEF Gc, history, Superseded
  <2>3. entry[job[p].slot] = own[p]
    BY <2>2 DEF IInv, OwnPlaced
  <2>4. \A s \in Slot : entry[s] # None => entry[s] # d
    BY <2>2, <2>3 DEF IInv, EntryPlaced
  <2>5. \A e \in Dir \ {d} : place'[e] = place[e]
    BY <1>0, <2>1 DEF TypeOK
  <2> QED
    BY <1>a, <2>2, <2>4, <2>5, HiddenStep
<1> QED
  BY <1>1, <1>2, <1>3, <1>4, <1>5

\* What is put in by a rename or a link is whole, proven and in its place.
LEMMA OwnIsPackage ==
  ASSUME IInv, NEW p \in Publisher, pc[p] \in {"move", "flip"},
         NEW t \in {"dest", "version"}
  PROVE  [build |-> package[own[p]].build, planes |-> package[own[p]].planes,
          whole |-> package[own[p]].complete /\ t \in {"dest", "version"}]
           \in Catalogue!Packages
<1>1. own[p] \in Dir /\ package[own[p]] \in Package /\ package[own[p]].complete
  BY DEF IInv, TypeOK, OwnPlaced
<1>2. \A plane \in package[own[p]].planes : <<package[own[p]].build, plane>> \in proven
  BY DEF IInv, OwnProven, AtWork
<1> QED
  BY <1>1, <1>2 DEF Catalogue!Packages, Catalogue!Proven, Package

LEMMA ServingStays ==
  ASSUME UNCHANGED <<bound, package>> PROVE UNCHANGED Serving
  BY DEF Serving

LEMMA PlaceMaps ==
  ASSUME IInv, EngineKept, NEW p \in Publisher, Place(p)
  PROVE  Catalogue!Next \/ UNCHANGED Catalogue!vars
<1>0. TypeOK /\ None \notin Dir /\ Name \cap Engine = {}
  BY PublicationAssumption DEF IInv, Dir
<1> DEFINE e == job[p].slot
           d == own[p]
<1>1. /\ pc[p] = "move" /\ ~Named(p) /\ e \in Engine /\ e \in Slot /\ d \in Dir
      /\ place[d] = "staging" /\ package[d].build.engine = e
      /\ place' = [place EXCEPT ![d] = place'[d]]
      /\ UNCHANGED <<package, bound, proven>>
  BY <1>0 DEF Place, Put, Named, IInv, TypeOK, OwnPlaced, EngineKept, AtWork, Slot, history
<1>2. \A s \in Slot : entry[s] # None =>
        entry[s] \in Dir /\ entry[s] # d /\ place'[entry[s]] = place[entry[s]]
  BY <1>0, <1>1 DEF IInv, TypeOK, VisibleIsWhole
<1>3. CASE entry[e] # None
  <2>1. UNCHANGED entry
    BY <1>3 DEF Place
  <2> QED
    BY <1>1, <1>2, <2>1, HiddenStep
<1>4. CASE entry[e] = None
  <2>1. entry' = [entry EXCEPT ![e] = d] /\ place'[d] = "dest"
    BY <1>0, <1>1, <1>4 DEF Place, Put, TypeOK
  <2> DEFINE new == [build |-> package[d].build, planes |-> package[d].planes,
                     whole |-> package[d].complete /\ "dest" \in {"dest", "version"}]
  <2>2. new \in Catalogue!Packages /\ new.build.engine = e
    BY <1>1, OwnIsPackage
  <2>3. Shown[e] = None /\ \A s \in Slot \ {e} : entry'[s] = entry[s]
    BY <1>0, <1>1, <1>4, <2>1 DEF Shown, TypeOK
  <2>4. Shown' = [Shown EXCEPT ![e] = new]
    <3>1. Shown'[e] = new
      BY <1>0, <1>1, <2>1 DEF Shown, TypeOK
    <3>2. \A s \in Slot \ {e} : Shown'[s] = Shown[s]
      BY <1>1, <1>2, <2>3 DEF Shown
    <3>3. Shown = [s \in Slot |-> Shown[s]] /\ Shown' = [s \in Slot |-> Shown'[s]]
      BY DEF Shown
    <3> HIDE DEF Shown, new
    <3> QED
      BY <3>1, <3>2, <3>3
  <2>5. UNCHANGED Real
    BY <1>0, <1>1, <1>2, <2>3 DEF Real, Slot
  <2> HIDE DEF new
  <2>6. Catalogue!PutOnce(e)
    BY <1>1, <2>2, <2>3, <2>4, <2>5, ServingStays DEF Catalogue!PutOnce
  <2> QED
    BY <1>1, <2>6 DEF Catalogue!Next
<1> QED
  BY <1>3, <1>4

LEMMA MigrateMaps ==
  ASSUME IInv, NEW p \in Publisher, Migrate(p)
  PROVE  Catalogue!Next
<1>0. TypeOK /\ None \notin Dir
  BY PublicationAssumption DEF IInv, Dir
<1> DEFINE n == job[p].slot
           d == entry[n]
<1>1. /\ n \in Name /\ n \in Slot /\ d # None /\ d \in Dir /\ place[d] = "dest"
      /\ place' = [place EXCEPT ![d] = "version"] /\ entry' = [entry EXCEPT ![n] = None]
      /\ UNCHANGED <<package, bound, proven>>
  BY <1>0 DEF Migrate, Put, Named, TypeOK, Slot, history
<1>2. /\ entry'[n] = None
      /\ \A s \in Slot \ {n} : entry'[s] = entry[s]
      /\ \A s \in Slot \ {n} : entry[s] # None =>
           entry[s] \in Dir /\ place'[entry[s]] = place[entry[s]]
  BY <1>0, <1>1 DEF IInv, TypeOK, EntryUnique
<1>3. Shown' = [Shown EXCEPT ![n] = None]
  <2>1. Shown'[n] = None /\ \A s \in Slot \ {n} : Shown'[s] = Shown[s]
    BY <1>1, <1>2 DEF Shown
  <2>2. Shown = [s \in Slot |-> Shown[s]] /\ Shown' = [s \in Slot |-> Shown'[s]]
    BY DEF Shown
  <2> HIDE DEF Shown
  <2> QED
    BY <2>1, <2>2
<1>4. n \in Real /\ Real' = Real \ {n}
  BY <1>1, <1>2 DEF Real, Slot
<1>5. Catalogue!Withdraw(n)
  BY <1>1, <1>3, <1>4, ServingStays DEF Catalogue!Withdraw
<1> QED
  BY <1>1, <1>5 DEF Catalogue!Next

LEMMA FlipMaps ==
  ASSUME IInv, NEW p \in Publisher, Flip(p)
  PROVE  Catalogue!Next
<1>0. TypeOK /\ None \notin Dir
  BY PublicationAssumption DEF IInv, Dir
<1> DEFINE n == job[p].slot
           d == own[p]
           new == [build |-> package[d].build, planes |-> package[d].planes,
                   whole |-> package[d].complete /\ "version" \in {"dest", "version"}]
<1>1. /\ pc[p] = "flip" /\ n \in Name /\ n \in Slot /\ d \in Dir /\ place[d] = "version"
      /\ entry[n] # None => place[entry[n]] # "dest"
      /\ entry' = [entry EXCEPT ![n] = d] /\ UNCHANGED <<package, bound, proven, place>>
  BY <1>0 DEF Flip, Named, IInv, TypeOK, OwnPlaced, Slot, history
<1>2. entry'[n] = d /\ \A s \in Slot \ {n} : entry'[s] = entry[s]
  BY <1>0, <1>1 DEF TypeOK
<1>3. new \in Catalogue!Packages
  BY <1>1, OwnIsPackage
<1>4. Shown' = [Shown EXCEPT ![n] = new]
  <2>1. Shown'[n] = new
    BY <1>0, <1>1, <1>2 DEF Shown
  <2>2. \A s \in Slot \ {n} : Shown'[s] = Shown[s]
    BY <1>1, <1>2 DEF Shown
  <2>3. Shown = [s \in Slot |-> Shown[s]] /\ Shown' = [s \in Slot |-> Shown'[s]]
    BY DEF Shown
  <2> HIDE DEF Shown, new
  <2> QED
    BY <2>1, <2>2, <2>3
<1>5. n \notin Real /\ UNCHANGED Real
  BY <1>0, <1>1, <1>2 DEF Real, Slot
<1> HIDE DEF new
<1>6. Catalogue!Put(n)
  BY <1>1, <1>3, <1>4, <1>5, ServingStays DEF Catalogue!Put
<1> QED
  BY <1>1, <1>6 DEF Catalogue!Next

LEMMA NoneIsNew ==
  ASSUME TypeOK, NEW s \in Slot
  PROVE  /\ Shown[s] # None <=> entry[s] # None
         /\ Serving[s] # None <=> bound[s] # None
<1>1. ASSUME entry[s] # None PROVE Shown[s] # None
  <2>1. entry[s] \in Dir /\ package[entry[s]] \in Package
    BY <1>1 DEF TypeOK
  <2>2. Shown[s] \in [build: Build, planes: SUBSET Plane, whole: BOOLEAN]
    BY <1>1, <2>1 DEF Shown, Package
  <2> QED
    BY <2>2, NoneAssumption
<1>2. ASSUME bound[s] # None PROVE Serving[s] # None
  <2>1. bound[s] \in [dir: Dir, plane: Plane] /\ package[bound[s].dir] \in Package
    BY <1>2 DEF TypeOK
  <2>2. Serving[s] \in [build: Build, plane: Plane]
    BY <1>2, <2>1 DEF Serving, Package
  <2> QED
    BY <2>2, NoneAssumption
<1> QED
  BY <1>1, <1>2 DEF Shown, Serving

LEMMA ServingStep ==
  ASSUME TypeOK, NEW s \in Slot, NEW plane \in Plane, entry[s] # None,
         bound' = [bound EXCEPT ![s] = [dir |-> entry[s], plane |-> plane]], UNCHANGED dirVars
  PROVE  /\ UNCHANGED <<Shown, Real>> /\ Shown[s] # None
         /\ Shown[s].build = Manifest(s).build /\ Shown[s].planes = Manifest(s).planes
         /\ Serving[s] # None <=> bound[s] # None
         /\ bound[s] # None => /\ Serving[s].build.engine = EngineOf(bound[s])
                               /\ Serving[s].plane = bound[s].plane
         /\ Serving' = [Serving EXCEPT ![s] = [build |-> Shown[s].build, plane |-> plane]]
<1>0. None \notin Dir
  BY PublicationAssumption DEF Dir
<1>1. UNCHANGED <<Shown, Real>>
  BY DEF Shown, Real, dirVars
<1>2. /\ Shown[s] # None
      /\ Shown[s].build = Manifest(s).build /\ Shown[s].planes = Manifest(s).planes
  BY NoneIsNew DEF Shown, Manifest
<1>3. /\ Serving[s] # None <=> bound[s] # None
      /\ bound[s] # None => /\ Serving[s].build.engine = EngineOf(bound[s])
                            /\ Serving[s].plane = bound[s].plane
  BY NoneIsNew DEF Serving, EngineOf
<1>4. bound'[s] # None
  BY NoneAssumption DEF TypeOK
<1>5. Serving' = [Serving EXCEPT ![s] = [build |-> Shown[s].build, plane |-> plane]]
  <2>1. Serving'[s] = [build |-> Shown[s].build, plane |-> plane]
    BY <1>2, <1>4 DEF Serving, TypeOK, Manifest, dirVars
  <2>2. \A t \in Slot \ {s} : Serving'[t] = Serving[t]
    BY DEF Serving, TypeOK, dirVars
  <2>3. Serving = [t \in Slot |-> Serving[t]] /\ Serving' = [t \in Slot |-> Serving'[t]]
    BY DEF Serving
  <2> HIDE DEF Serving
  <2> QED
    BY <2>1, <2>2, <2>3
<1> QED
  BY <1>1, <1>2, <1>3, <1>5

LEMMA RuntimeMaps ==
  ASSUME IInv, NEW s \in Watched, Bind(s) \/ Promote(s)
  PROVE  Catalogue!Next
<1>0. TypeOK /\ s \in Slot /\ s \in Name \cup Engine
  BY PublicationAssumption DEF IInv, Slot
<1>1. CASE Bind(s)
  <2>1. PICK plane \in Manifest(s).planes :
          bound' = [bound EXCEPT ![s] = [dir |-> entry[s], plane |-> plane]]
    BY <1>1 DEF Bind
  <2>2. /\ entry[s] # None /\ UNCHANGED <<dirVars, proven>>
        /\ bound[s] # None => EngineOf(bound[s]) # Manifest(s).build.engine
    BY <1>1 DEF Bind, history
  <2>3. plane \in Plane
    BY <1>0, <2>1, <2>2 DEF TypeOK, Manifest, Package
  <2>4. Catalogue!Bind(s)
    BY <1>0, <2>1, <2>2, <2>3, ServingStep DEF Catalogue!Bind
  <2> QED
    BY <1>0, <2>4 DEF Catalogue!Next, Catalogue!Slot
<1>2. CASE Promote(s)
  <2>1. /\ bound' = [bound EXCEPT ![s] = [dir |-> entry[s], plane |-> "shm"]]
        /\ entry[s] # None /\ UNCHANGED <<dirVars, proven>>
        /\ bound[s] # None /\ EngineOf(bound[s]) = Manifest(s).build.engine
        /\ bound[s].plane = "parquet" /\ "shm" \in Manifest(s).planes
    BY <1>2 DEF Promote, history
  <2>2. "shm" \in Plane
    BY DEF Plane
  <2>3. Catalogue!Promote(s)
    BY <1>0, <2>1, <2>2, ServingStep DEF Catalogue!Promote
  <2> QED
    BY <1>0, <2>3 DEF Catalogue!Next, Catalogue!Slot
<1> QED
  BY <1>1, <1>2

LEMMA ValidateMaps ==
  ASSUME NEW p \in Publisher, Validate(p)
  PROVE  [Catalogue!Next]_(Catalogue!vars)
<1>1. UNCHANGED <<Shown, Real, Serving>> /\ proven \subseteq proven'
  BY DEF Validate, dirVars, Shown, Real, Serving
<1> QED
  BY <1>1 DEF Catalogue!Next, Catalogue!Pass

LEMMA StepMaps ==
  IInv /\ EngineKept /\ [Next]_vars => [Catalogue!Next]_(Catalogue!vars)
<1> SUFFICES ASSUME IInv, EngineKept, [Next]_vars
             PROVE  [Catalogue!Next]_(Catalogue!vars)
  OBVIOUS
<1>1. ASSUME NEW p \in Publisher,
             \/ Rebuild(p) \/ Lock(p) \/ Dedup(p) \/ FlipFails(p) \/ Published(p) \/ Kill(p)
             \/ Stage(p) \/ Populate(p) \/ StagingFails(p) \/ Materialize(p) \/ Gc(p)
             \/ \E s \in Slot, planes \in SUBSET Plane : Publish(p, s, planes)
      PROVE  UNCHANGED Catalogue!vars
  BY <1>1, HiddenMaps
<1>2. ASSUME NEW p \in Publisher, Validate(p) PROVE [Catalogue!Next]_(Catalogue!vars)
  BY <1>2, ValidateMaps
<1>3. ASSUME NEW p \in Publisher, Place(p) \/ Migrate(p) \/ Flip(p)
      PROVE  Catalogue!Next \/ UNCHANGED Catalogue!vars
  BY <1>3, PlaceMaps, MigrateMaps, FlipMaps
<1>4. ASSUME NEW s \in Watched, Bind(s) \/ Promote(s) PROVE Catalogue!Next
  BY <1>4, RuntimeMaps
<1>5. CASE UNCHANGED vars
  <2>1. UNCHANGED <<entry, bound, proven, package, place>>
    BY <1>5 DEF vars, dirVars, history
  <2> QED
    BY <2>1, HiddenStep
<1> QED
  BY <1>1, <1>2, <1>3, <1>4, <1>5 DEF Next, PublisherStep

LEMMA InitMaps == Init => Catalogue!Init /\ EngineKept
<1> SUFFICES ASSUME Init PROVE Catalogue!Init /\ EngineKept
  OBVIOUS
<1>0. TypeOK /\ None \notin Dir /\ Legacy \subseteq Name /\ Name \cap Engine = {}
  BY InitIInv, PublicationAssumption DEF IInv, Dir
<1>1. EngineKept
  BY DEF Init, EngineKept, AtWork
<1>2. \A s \in Slot : entry[s] # None =>
        /\ s \in Legacy /\ entry[s] \in Dir /\ place[entry[s]] = "dest"
        /\ package[entry[s]] = [build |-> Old, planes |-> {"parquet"}, complete |-> TRUE]
  <2>1. \A n \in Legacy : LegacyDir[n] \in Dir
    BY LegacyDirs
  <2> QED
    BY <2>1 DEF Init
<1>3. \A s \in Slot : Shown[s] # None => Shown[s].whole /\ Catalogue!Proven(Shown[s])
  <2> SUFFICES ASSUME NEW s \in Slot, entry[s] # None
               PROVE  Shown[s].whole /\ Catalogue!Proven(Shown[s])
    BY DEF Shown
  <2>1. /\ Shown[s].build = Old /\ Shown[s].planes = {"parquet"} /\ Shown[s].whole
        /\ <<Old, "parquet">> \in proven
    BY <1>2 DEF Shown, Init
  <2> QED
    BY <2>1 DEF Catalogue!Proven
<1>4. \A e \in Engine : Shown[e] = None
  BY <1>0, <1>2 DEF Shown, Slot
<1>5. Real = {n \in Name : Shown[n] # None}
  BY <1>0, <1>2, NoneIsNew DEF Real, Slot
<1>6. Serving = [s \in Slot |-> None]
  BY DEF Serving, Init
<1> QED
  BY <1>1, <1>3, <1>4, <1>5, <1>6 DEF Catalogue!Init, Catalogue!Slot, Slot

\* The engines directory, with all it takes to publish into it, is to those
\* who read it the catalogue of EngineCatalogue.
THEOREM DirectoryIsCatalogue == Spec => IsCatalogue
<1>1. Init => Catalogue!Init /\ EngineKept
  BY InitMaps
<1>2. IInv /\ EngineKept /\ [Next]_vars => EngineKept'
  BY EngineKeptStep
<1>3. IInv /\ EngineKept /\ [Next]_vars => [Catalogue!Next]_(Catalogue!vars)
  BY StepMaps
<1> QED
  BY <1>1, <1>2, <1>3, Inductive, PTL DEF Spec, IsCatalogue, Catalogue!Spec
=============================================================================
