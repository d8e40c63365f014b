-------------------------- MODULE ReplayChainProofs --------------------------
(***************************************************************************)
(* For any number of workspaces, processes, edits and commits: an entry of *)
(* the caches says what doing the operation on the snapshot of its key     *)
(* does, whoever recorded it and whoever was killed meanwhile, and a       *)
(* publish receipt attests the binaries that were run.                     *)
(*                                                                         *)
(* The argument goes along the life of an operation.  AtWork says what its *)
(* process knows at each step: the tracked files are the effect of the     *)
(* operation on the snapshot of its key, then so is the commit, then the   *)
(* commit has a ref (Refs).  What is written to a temporary file is right  *)
(* for its key (Temporaries), so it does not matter whose file a rename    *)
(* publishes, nor which of two equal commits a ref names in the end.       *)
(*                                                                         *)
(* That the caches are transparent also needs whose child a commit is      *)
(* (KinInv): the line of snapshots of a workspace that replays what others *)
(* recorded is then the line it would have made itself.  Ancestors is      *)
(* recursive; what is said of it goes by the earliest commit that fails.   *)
(***************************************************************************)
EXTENDS ReplayChain, SequenceTheorems, FiniteSetTheorems, WellFoundedInduction, TLAPS

Refs ==
  \A k \in Key :
    ref[k] # None =>
      /\ k[1] # "build" /\ k[2] \in 1..Len(store) /\ ref[k] \in 1..Len(store)
      /\ Contents(ref[k]) = Effect(k[1], Contents(k[2]))

Entries == \A k \in Key : entry[k] # None => Faithful(k, entry[k])
Temporaries == \A k \in Key : tmp[k] # None => Faithful(k, tmp[k])

AtWork(w) ==
  LET j == job[w]
      k == job[w].key
  IN  /\ head[w] \in 1..Len(store)
      /\ pc[w] \in {"idle", "validate", "dump", "write", "replace"} =>
           tree[w] = Contents(head[w])
      /\ pc[w] \notin {"off", "idle"} => k \in Key
      /\ pc[w] \in {"name", "commit", "ref"} =>
           k[1] # "build" /\ k[2] = head[w] /\ tree[w] = Effect(k[1], Contents(head[w]))
      /\ pc[w] = "ref" => j.commit \in 1..Len(store) /\ Contents(j.commit) = tree[w]
      /\ pc[w] \in {"dump", "write", "replace"} => Faithful(k, j)
      /\ pc[w] \notin {"off", "idle"} /\ k[1] = "build" =>
           /\ k[2] = head[w] /\ j.of = tree[w]
           /\ j.cached \/ (Compiles(tree[w]) => bin[w] = tree[w])
      /\ pc[w] \in {"dump", "write", "replace"} /\ k[1] = "build" => ~j.cached
      /\ pc[w] = "validate" => k[1] = "build" /\ Compiles(tree[w])
      /\ pc[w] \notin {"off", "idle"} /\ k[1] = "run" =>
           j.of = Contents(k[2]) /\ bin[w] = j.of
      /\ j.forced => ~j.cached

IInv ==
  /\ TypeOK
  /\ Refs
  /\ Entries
  /\ Temporaries
  /\ \A w \in Workspace : AtWork(w)
  /\ ReceiptHonest

\* What every step does to the repository: commits stay as they are, and a
\* snapshot that has a ref keeps one.
Grows ==
  /\ 1..Len(store) \subseteq 1..Len(store')
  /\ \A c \in 1..Len(store) : store'[c] = store[c]
  /\ \A k \in Key : ref[k] # None => ref'[k] # None

-----------------------------------------------------------------------------
(* In the initial state there are no entries, and every process is off. *)
LEMMA InitIInv == Init => IInv
<1> SUFFICES ASSUME Init PROVE IInv
    OBVIOUS
<1> USE DEF Init
<1>1. Len(store) = 1 /\ store[1] = [tree |-> {}, parent |-> None] /\ Contents(1) = {}
  BY DEF Contents
<1>2. TypeOK
  BY <1>1, Bounds DEF TypeOK, Tree, Commit, Base, Entry, Job, Idle, Key
<1>3. Refs /\ Entries /\ Temporaries /\ ReceiptHonest
  BY DEF Refs, Entries, Temporaries, ReceiptHonest
<1>4. \A w \in Workspace : AtWork(w)
  <2> TAKE w \in Workspace
  <2>1. pc[w] = "off" /\ head[w] = 1 /\ job[w] = Idle
    BY DEF Base
  <2> QED BY <1>1, <2>1 DEF AtWork, Idle
<1> QED BY <1>2, <1>3, <1>4 DEF IInv

(* Nothing that was right of the entries is undone by what others commit. *)
LEMMA EntriesStay ==
  ASSUME IInv, Grows, entry' = entry
  PROVE  Entries'
BY DEF IInv, TypeOK, Grows, Entries, Faithful, Contents, Entry, Key

LEMMA TemporariesStay ==
  ASSUME IInv, Grows, tmp' = tmp
  PROVE  Temporaries'
BY DEF IInv, TypeOK, Grows, Temporaries, Faithful, Contents, Entry, Key

LEMMA RefsStay ==
  ASSUME IInv, Grows, ref' = ref
  PROVE  Refs'
BY DEF IInv, TypeOK, Grows, Refs, Contents, Key

(* What a process knows of its operation is not undone by other processes. *)
LEMMA OthersStay ==
  ASSUME IInv, Grows, NEW v \in Workspace, pc'[v] = pc[v], tree'[v] = tree[v],
         head'[v] = head[v], bin'[v] = bin[v], job'[v] = job[v]
  PROVE  AtWork(v)'
<1>1. AtWork(v)
  BY DEF IInv
<1>2. head[v] \in 1..Len(store) /\ head[v] \in 1..Len(store')
  BY <1>1 DEF AtWork, Grows
<1>3. Contents(head[v])' = Contents(head[v])
  BY <1>2 DEF Contents, Grows
<1>4. ASSUME job[v].key \in Key, Faithful(job[v].key, job[v])
      PROVE  Faithful(job[v].key, job[v])'
  BY <1>4 DEF Faithful, Grows, Contents
<1>5. ASSUME job[v].commit \in 1..Len(store), Contents(job[v].commit) = tree[v]
      PROVE  job[v].commit \in 1..Len(store') /\ Contents(job[v].commit)' = tree[v]
  BY <1>5 DEF Grows, Contents
<1>6. ASSUME pc[v] \notin {"off", "idle"}, job[v].key[1] = "run"
      PROVE  Contents(job[v].key[2])' = Contents(job[v].key[2])
  <2>1. CASE pc[v] \in {"name", "commit", "ref"}
    BY <1>1, <1>3, <2>1 DEF AtWork
  <2>2. CASE pc[v] \in {"dump", "write", "replace"}
    BY <1>1, <2>2 DEF AtWork, Faithful, Grows, Contents
  <2>3. CASE pc[v] = "validate"
    BY <1>1, <1>6, <2>3 DEF AtWork
  <2> QED BY <1>6, <2>1, <2>2, <2>3 DEF IInv, TypeOK
<1>7. pc[v] \notin {"off", "idle"} => job[v].key \in Key
  BY <1>1 DEF AtWork
<1> QED BY <1>1, <1>2, <1>3, <1>4, <1>5, <1>6, <1>7 DEF AtWork, Compiles

(* The step of a process leaves the invariant, if it leaves the types, grows the
   repository, files what is right, and its process knows what it is doing. *)
LEMMA Preserved ==
  ASSUME IInv, NEW w \in Workspace, Grows, TypeOK', Refs', Entries', Temporaries',
         AtWork(w)', ReceiptHonest',
         \A v \in Workspace \ {w} :
           /\ pc'[v] = pc[v] /\ tree'[v] = tree[v] /\ head'[v] = head[v]
           /\ bin'[v] = bin[v] /\ job'[v] = job[v]
  PROVE  IInv'
<1>1. \A v \in Workspace \ {w} : AtWork(v)'
  BY OthersStay
<1>2. \A v \in Workspace : AtWork(v)'
  BY <1>1
<1> QED BY <1>2 DEF IInv

(* The steps that leave the repository and the caches alone. *)
LEMMA PreservedAlone ==
  ASSUME IInv, NEW w \in Workspace, UNCHANGED shared, TypeOK', AtWork(w)',
         ReceiptHonest',
         \A v \in Workspace \ {w} :
           /\ pc'[v] = pc[v] /\ tree'[v] = tree[v] /\ head'[v] = head[v]
           /\ bin'[v] = bin[v] /\ job'[v] = job[v]
  PROVE  IInv'
<1>1. Grows
  BY DEF Grows, shared
<1>2. Refs' /\ Entries' /\ Temporaries'
  BY <1>1, RefsStay, EntriesStay, TemporariesStay DEF shared
<1> QED BY <1>1, <1>2, Preserved

(* A process without a job knows nothing but its snapshot. *)
LEMMA AtRest ==
  ASSUME NEW w \in Workspace, pc'[w] \in {"off", "idle"}, job'[w] = Idle,
         head'[w] \in 1..Len(store'),
         pc'[w] = "idle" => tree'[w] = store'[head'[w]].tree
  PROVE  AtWork(w)'
BY DEF AtWork, Idle, Contents

(* A snapshot that is restored is a commit, and a tree. *)
LEMMA Snapshot ==
  ASSUME TypeOK, NEW c \in 1..Len(store)
  PROVE  Contents(c) \in Tree /\ c \in Commit
<1>1. store[c] \in [tree : Tree, parent : Commit \cup {None}]
  BY ElementOfSeq DEF TypeOK
<1>2. Contents(c) \in Tree
  BY <1>1 DEF Contents
<1>3. c \in Commit
  BY Bounds DEF TypeOK, Commit
<1> QED BY <1>2, <1>3

-----------------------------------------------------------------------------
(* The processes. *)

(* A process starts on the empty snapshot. *)
LEMMA StartIInv ==
  ASSUME IInv, NEW w \in Workspace, Start(w)
  PROVE  IInv'
<1> USE DEF IInv
<1>1. Base \in 1..Len(store)
  BY DEF TypeOK, Commit, Base
<1>2. TypeOK'
  BY <1>1, Snapshot, Bounds DEF TypeOK, Start, Restore, Goto, shared
<1>3. /\ pc'[w] = "idle" /\ job'[w] = Idle /\ head'[w] = Base
      /\ tree'[w] = Contents(Base)
  BY DEF TypeOK, Start, Restore, Goto
<1>4. AtWork(w)'
  BY <1>1, <1>3, AtRest DEF Start, shared, Contents
<1> QED BY <1>2, <1>4, PreservedAlone
        DEF Start, Restore, Goto, shared, ReceiptHonest, TypeOK

(* A process ends: it forgets what it was doing. *)
LEMMA KillIInv ==
  ASSUME IInv, NEW w \in Workspace, Kill(w)
  PROVE  IInv'
<1> USE DEF IInv
<1>1. Idle \in Job
  BY DEF Idle, Job
<1>2. TypeOK'
  BY <1>1 DEF TypeOK, Kill, Ends, Goto, shared
<1>3. pc'[w] = "off" /\ job'[w] = Idle /\ head'[w] \in 1..Len(store')
  BY DEF TypeOK, Kill, Ends, Goto, AtWork, shared
<1>4. AtWork(w)'
  BY <1>3, AtRest
<1> QED BY <1>2, <1>4, PreservedAlone
        DEF Kill, Ends, Goto, shared, ReceiptHonest, TypeOK

(* A stage is reverted to a snapshot it passed. *)
LEMMA RevertIInv ==
  ASSUME IInv, NEW w \in Workspace, Revert(w)
  PROVE  IInv'
<1> USE DEF IInv
<1>1. PICK c \in 1..Len(store) : Restore(w, c)
  BY DEF Revert
<1>2. TypeOK'
  BY <1>1, Snapshot DEF TypeOK, Revert, Restore, shared
<1>3. /\ pc'[w] = "idle" /\ job'[w] = Idle /\ head'[w] = c
      /\ tree'[w] = Contents(c)
  BY <1>1 DEF TypeOK, Revert, Restore
<1>4. AtWork(w)'
  BY <1>3, AtRest DEF Revert, shared, Contents
<1> QED BY <1>1, <1>2, <1>4, PreservedAlone
        DEF Revert, Restore, shared, ReceiptHonest, TypeOK

(* An edit or a command is answered by its entry. *)
LEMMA HitIInv ==
  ASSUME IInv, NEW w \in Workspace, NEW o \in Edit, Hit(w, o)
  PROVE  IInv'
<1> USE DEF IInv
<1> DEFINE c == entry[<<o, head[w]>>].commit
<1>1. c \in 1..Len(store)
  BY Tools DEF Hit, TypeOK, Entries, Faithful, Key
<1>2. Restore(w, c)
  BY DEF Hit
<1>3. TypeOK'
  BY <1>1, <1>2, Snapshot DEF TypeOK, Hit, Restore, shared
<1>4. /\ pc'[w] = "idle" /\ job'[w] = Idle /\ head'[w] = c
      /\ tree'[w] = Contents(c)
  BY <1>2 DEF TypeOK, Hit, Restore
<1>5. AtWork(w)'
  BY <1>1, <1>4, AtRest DEF Hit, shared, Contents
<1> QED BY <1>2, <1>3, <1>5, PreservedAlone
        DEF Hit, Restore, shared, ReceiptHonest, TypeOK

(* A miss: a replay ends, a live process does the work. *)
LEMMA MissIInv ==
  ASSUME IInv, NEW w \in Workspace, NEW o \in Edit, Miss(w, o)
  PROVE  IInv'
<1> USE DEF IInv
<1>1. CASE replay[w]
  <2>1. Idle \in Job
    BY DEF Idle, Job
  <2>2. TypeOK'
    BY <1>1, <2>1 DEF TypeOK, Miss, Ends, Goto, shared
  <2>3. pc'[w] = "off" /\ job'[w] = Idle /\ head'[w] \in 1..Len(store')
    BY <1>1 DEF TypeOK, Miss, Ends, Goto, AtWork, shared
  <2>4. AtWork(w)'
    BY <2>3, AtRest
  <2> QED BY <1>1, <2>2, <2>4, PreservedAlone
          DEF Miss, Ends, Goto, shared, ReceiptHonest, TypeOK
<1>2. CASE ~replay[w]
  <2> DEFINE k == <<o, head[w]>>
  <2>1. k \in Key /\ o # "build" /\ o # "run"
    BY Tools DEF TypeOK, Key
  <2>2. /\ head[w] \in 1..Len(store) /\ tree[w] = Contents(head[w]) /\ tree[w] \in Tree
        /\ pc[w] = "idle"
    BY DEF AtWork, Miss, TypeOK
  <2>3. Effect(o, tree[w]) \in Tree
    BY <2>2 DEF Effect, Tree
  <2>4. /\ pc' = [pc EXCEPT ![w] = "name"]
        /\ tree' = [tree EXCEPT ![w] = Effect(o, tree[w])]
        /\ job' = [job EXCEPT ![w] = [Idle EXCEPT !.key = k]]
        /\ UNCHANGED <<shared, head, bin, replay, starts, receipt>>
    BY <1>2 DEF Miss, Goto
  <2>5. [Idle EXCEPT !.key = k] \in Job
    BY <2>1 DEF Idle, Job
  <2>6. TypeOK'
    BY <2>3, <2>4, <2>5 DEF TypeOK, shared
  <2>7. AtWork(w)'
    <3>1. /\ pc'[w] = "name" /\ job'[w] = [Idle EXCEPT !.key = k]
          /\ head'[w] = head[w] /\ tree'[w] = Effect(o, Contents(head[w]))
          /\ store' = store
      BY <2>2, <2>4 DEF TypeOK, shared
    <3>2. /\ job'[w].key = k /\ job'[w].forced = FALSE /\ k[1] = o /\ k[2] = head[w]
      BY <3>1 DEF Idle
    <3> QED BY <2>1, <2>2, <3>1, <3>2 DEF AtWork, Contents
  <2> QED BY <2>4, <2>6, <2>7, PreservedAlone DEF shared, ReceiptHonest, TypeOK
<1> QED BY <1>1, <1>2

-----------------------------------------------------------------------------
(* Snapshots. *)

(* The step of a process that ends. *)
LEMMA EndsIInv ==
  ASSUME IInv, NEW w \in Workspace, Ends(w),
         UNCHANGED <<shared, tree, head, bin, replay, starts, receipt>>
  PROVE  IInv'
<1> USE DEF IInv
<1>1. Idle \in Job
  BY DEF Idle, Job
<1>2. TypeOK'
  BY <1>1 DEF TypeOK, Ends, Goto, shared
<1>3. pc'[w] = "off" /\ job'[w] = Idle /\ head'[w] \in 1..Len(store')
  BY DEF TypeOK, Ends, Goto, AtWork, shared
<1>4. AtWork(w)'
  BY <1>3, AtRest
<1> QED BY <1>2, <1>4, PreservedAlone
        DEF Ends, Goto, shared, ReceiptHonest, TypeOK

(* The name of a snapshot is unused, or the process ends. *)
LEMMA NameIInv ==
  ASSUME IInv, NEW w \in Workspace, Name(w)
  PROVE  IInv'
<1>1. CASE ref[job[w].key] # None
  BY <1>1, EndsIInv DEF Name
<1>2. CASE ref[job[w].key] = None
  <2> USE <1>2 DEF IInv
  <2>1. TypeOK'
    BY DEF TypeOK, Name, Goto, shared
  <2>2. AtWork(w)'
    <3>1. pc'[w] = "commit" /\ pc[w] = "name"
      BY DEF Name, Goto, TypeOK
    <3>2. UNCHANGED <<store, ref, tree, head, bin, job>>
      BY DEF Name, shared
    <3> QED BY <3>1, <3>2 DEF AtWork, Contents
  <2> QED BY <2>1, <2>2, PreservedAlone
          DEF Name, Goto, shared, ReceiptHonest, TypeOK
<1> QED BY <1>1, <1>2

(* The tracked files are committed, or are those of the parent already. *)
LEMMA CommitTreeIInv ==
  ASSUME IInv, NEW w \in Workspace, CommitTree(w)
  PROVE  IInv'
<1> USE DEF IInv
<1> DEFINE n == job'[w].commit
<1>1. /\ pc[w] = "commit" /\ pc' = [pc EXCEPT ![w] = "ref"]
      /\ UNCHANGED <<ref, entry, tmp, tree, head, bin, replay, starts, receipt>>
  BY DEF CommitTree, Goto
<1>2. head[w] \in 1..Len(store) /\ head[w] \in Commit /\ tree[w] \in Tree
  BY DEF AtWork, TypeOK
<1>3. Len(store) \in Nat /\ Len(store) \in Commit
  BY DEF TypeOK
<1>4. /\ Grows /\ n \in 1..Len(store') /\ store'[n].tree = tree[w]
      /\ job' = [job EXCEPT ![w].commit = n] /\ n \in Commit
      /\ store' \in Seq([tree : Tree, parent : Commit \cup {None}])
      /\ Len(store') \in Commit
      /\ \A c \in 1..Len(store') : store'[c].parent \in 1..c-1 \cup {None}
  <2>1. CASE tree[w] = Contents(head[w])
    <3>1. job' = [job EXCEPT ![w].commit = head[w]] /\ store' = store
      BY <2>1 DEF CommitTree
    <3>2. n = head[w]
      BY <3>1 DEF TypeOK, Job
    <3> QED BY <1>1, <1>2, <2>1, <3>1, <3>2 DEF Grows, Contents, TypeOK
  <2>2. CASE tree[w] # Contents(head[w])
    <3> DEFINE r == [tree |-> tree[w], parent |-> head[w]]
    <3>1. /\ Len(store) < MaxCommit /\ store' = Append(store, r)
          /\ job' = [job EXCEPT ![w].commit = Len(store')]
      BY <2>2 DEF CommitTree
    <3>2. r \in [tree : Tree, parent : Commit \cup {None}]
      BY <1>2
    <3>3. store' \in Seq([tree : Tree, parent : Commit \cup {None}])
      BY <3>1, <3>2 DEF TypeOK
    <3>4. /\ Len(store') = Len(store) + 1 /\ store'[Len(store) + 1] = r
          /\ \A c \in 1..Len(store) : store'[c] = store[c]
      BY <3>1, <3>2 DEF TypeOK
    <3>5. n = Len(store) + 1
      BY <3>1, <3>4 DEF TypeOK, Job
    <3>6. Len(store') \in Commit
      BY <1>3, <3>1, <3>4, Bounds DEF Commit
    <3>7. Grows
      BY <1>1, <1>3, <3>4 DEF Grows
    <3>8. \A c \in 1..Len(store') : store'[c].parent \in 1..c-1 \cup {None}
      <4> TAKE c \in 1..Len(store')
      <4>1. CASE c \in 1..Len(store)
        BY <3>4, <4>1 DEF TypeOK
      <4>2. CASE c = Len(store) + 1
        BY <1>2, <1>3, <3>4, <4>2
      <4> QED BY <1>3, <3>4, <4>1, <4>2
    <3>9. n \in 1..Len(store') /\ n \in Commit /\ store'[n].tree = tree[w]
      BY <1>3, <3>1, <3>4, <3>5, <3>6
    <3>10. job' = [job EXCEPT ![w].commit = n]
      BY <3>1, <3>4, <3>5
    <3> QED BY <3>3, <3>6, <3>7, <3>8, <3>9, <3>10
  <2> QED BY <2>1, <2>2
<1> HIDE DEF n
<1>5. TypeOK'
  <2>1. [job[w] EXCEPT !.commit = n] \in Job
    BY <1>4 DEF TypeOK, Job
  <2>2. job' \in [Workspace -> Job]
    BY <1>4, <2>1 DEF TypeOK
  <2> QED BY <1>1, <1>4, <2>2 DEF TypeOK
<1>6. Refs' /\ Entries' /\ Temporaries'
  BY <1>1, <1>4, RefsStay, EntriesStay, TemporariesStay
<1>7. AtWork(w)'
  <2>1. /\ pc'[w] = "ref" /\ job'[w] = [job[w] EXCEPT !.commit = n]
    BY <1>1, <1>4 DEF TypeOK
  <2>2. /\ job'[w].commit = n /\ job'[w].key = job[w].key /\ job'[w].of = job[w].of
        /\ job'[w].forced = job[w].forced /\ job'[w].cached = job[w].cached
    BY <2>1 DEF TypeOK, Job
  <2>3. Contents(head[w])' = Contents(head[w])
    BY <1>1, <1>2, <1>4 DEF Grows, Contents
  <2>4. /\ job[w].key \in Key /\ job[w].key[1] # "build" /\ job[w].key[2] = head[w]
        /\ tree[w] = Effect(job[w].key[1], Contents(head[w]))
        /\ job[w].key[1] = "run" => job[w].of = Contents(head[w]) /\ bin[w] = job[w].of
        /\ job[w].forced => ~job[w].cached
    BY <1>1 DEF AtWork
  <2>5. head[w] \in 1..Len(store')
    BY <1>2, <1>4 DEF Grows
  <2> QED BY <1>1, <1>4, <2>1, <2>2, <2>3, <2>4, <2>5 DEF AtWork, Contents
<1>8. \A v \in Workspace \ {w} : pc'[v] = pc[v] /\ job'[v] = job[v]
  BY <1>1, <1>4 DEF TypeOK
<1> QED BY <1>1, <1>4, <1>5, <1>6, <1>7, <1>8, Preserved DEF ReceiptHonest

(* The ref is written, whoever wrote it before: it names an equal tree. *)
LEMMA UpdateRefIInv ==
  ASSUME IInv, NEW w \in Workspace, UpdateRef(w)
  PROVE  IInv'
<1> USE DEF IInv
<1> DEFINE k == job[w].key
           c == job[w].commit
<1>1. /\ pc[w] = "ref" /\ pc' = [pc EXCEPT ![w] = "dump"]
      /\ ref' = [ref EXCEPT ![k] = c] /\ head' = [head EXCEPT ![w] = c]
      /\ UNCHANGED <<store, entry, tmp, tree, bin, replay, job, starts, receipt>>
  BY DEF UpdateRef, Goto
<1>2. /\ k \in Key /\ k[1] # "build" /\ k[2] = head[w] /\ head[w] \in 1..Len(store)
      /\ tree[w] = Effect(k[1], Contents(head[w]))
      /\ c \in 1..Len(store) /\ Contents(c) = tree[w]
      /\ k[1] = "run" => job[w].of = Contents(k[2]) /\ bin[w] = job[w].of
      /\ job[w].forced => ~job[w].cached
  BY <1>1 DEF AtWork
<1>3. c \in Commit /\ c # None
  BY <1>2, Snapshot, NoneIsNew DEF Commit
<1>4. TypeOK'
  BY <1>1, <1>3 DEF TypeOK
<1>5. Grows
  BY <1>1, <1>3 DEF Grows, TypeOK
<1>6. Refs'
  BY <1>1, <1>2 DEF Refs, Contents, TypeOK
<1>7. Entries' /\ Temporaries'
  BY <1>1, <1>5, EntriesStay, TemporariesStay
<1>8. AtWork(w)'
  <2>1. pc'[w] = "dump" /\ head'[w] = c /\ ref'[k] = c /\ job'[w] = job[w]
    BY <1>1, <1>2 DEF TypeOK
  <2>2. Faithful(k, job[w])'
    BY <1>1, <1>2, <1>3, <2>1 DEF Faithful, Contents
  <2> QED BY <1>1, <1>2, <2>1, <2>2 DEF AtWork, Contents
<1> QED BY <1>1, <1>4, <1>5, <1>6, <1>7, <1>8, Preserved DEF ReceiptHonest, TypeOK

-----------------------------------------------------------------------------
(* Entries. *)

(* The entry does not exist yet, or the process ends. *)
LEMMA DumpIInv ==
  ASSUME IInv, NEW w \in Workspace, Dump(w)
  PROVE  IInv'
<1>1. CASE entry[job[w].key] # None
  BY <1>1, EndsIInv DEF Dump
<1>2. CASE entry[job[w].key] = None
  <2> USE <1>2 DEF IInv
  <2>1. TypeOK'
    BY DEF TypeOK, Dump, Goto, shared
  <2>2. AtWork(w)'
    <3>1. pc'[w] = "write" /\ pc[w] = "dump"
      BY DEF Dump, Goto, TypeOK
    <3>2. UNCHANGED <<store, ref, tree, head, bin, job>>
      BY DEF Dump, shared
    <3> QED BY <3>1, <3>2 DEF AtWork, Contents, Faithful, Compiles
  <2> QED BY <2>1, <2>2, PreservedAlone
          DEF Dump, Goto, shared, ReceiptHonest, TypeOK
<1> QED BY <1>1, <1>2

(* The temporary file is right for its key, like the job it is written for. *)
LEMMA WriteIInv ==
  ASSUME IInv, NEW w \in Workspace, Write(w)
  PROVE  IInv'
<1> USE DEF IInv
<1> DEFINE k == job[w].key
           x == [commit |-> job[w].commit, of |-> job[w].of]
<1>1. /\ pc[w] = "write" /\ pc' = [pc EXCEPT ![w] = "replace"]
      /\ tmp' = [tmp EXCEPT ![k] = x]
      /\ UNCHANGED <<store, ref, entry, tree, head, bin, replay, job, starts, receipt>>
  BY DEF Write, Goto, local
<1>2. k \in Key /\ Faithful(k, job[w])
  BY <1>1 DEF AtWork
<1>3. x \in Entry
  BY DEF TypeOK, Job, Entry
<1>4. TypeOK'
  BY <1>1, <1>3 DEF TypeOK
<1>5. Grows
  BY <1>1 DEF Grows
<1>6. Refs' /\ Entries'
  BY <1>1, <1>5, RefsStay, EntriesStay
<1>7. Faithful(k, x)
  BY <1>2 DEF Faithful
<1>8. Temporaries'
  BY <1>1, <1>2, <1>7 DEF Temporaries, Faithful, Contents, TypeOK
<1>9. AtWork(w)'
  <2>1. pc'[w] = "replace" /\ job'[w] = job[w]
    BY <1>1 DEF TypeOK
  <2> QED BY <1>1, <2>1 DEF AtWork, Faithful, Contents, Compiles
<1> QED BY <1>1, <1>4, <1>5, <1>6, <1>8, <1>9, Preserved DEF ReceiptHonest, TypeOK

(* The rename publishes a temporary file that is right, whoever wrote it. *)
LEMMA ReplaceIInv ==
  ASSUME IInv, NEW w \in Workspace, Replace(w)
  PROVE  IInv'
<1> DEFINE k == job[w].key
<1>1. CASE tmp[k] = None
  BY <1>1, EndsIInv DEF Replace, shared
<1>2. CASE tmp[k] # None
  <2> USE <1>2 DEF IInv
  <2>1. /\ pc[w] = "replace"
        /\ entry' = [entry EXCEPT ![k] = tmp[k]]
        /\ tmp' = [tmp EXCEPT ![k] = None]
        /\ IF k[1] = "run" THEN Attest(w, job[w].of) ELSE UNCHANGED receipt
        /\ Continue(w)
        /\ UNCHANGED <<store, ref, tree, head, bin, replay, starts>>
    BY DEF Replace
  <2>2. /\ k \in Key /\ Faithful(k, job[w]) /\ head[w] \in 1..Len(store)
        /\ tree[w] = Contents(head[w])
    BY <2>1 DEF AtWork
  <2>3. Grows
    BY <2>1 DEF Grows
  <2>4. Entries' /\ Temporaries'
    BY <2>1, <2>2 DEF Entries, Temporaries, Faithful, Contents, TypeOK
  <2>5. Refs'
    BY <2>1, <2>3, RefsStay
  <2>6. receipt' \subseteq [built : Tree \cup {None}, ran : Tree \cup {None}] /\ ReceiptHonest'
    <3>1. CASE k[1] = "run" /\ job[w].forced
      <4>1. receipt' = receipt \cup {[built |-> bin[w], ran |-> job[w].of]}
        BY <2>1, <3>1 DEF Attest
      <4>2. bin[w] = job[w].of /\ bin[w] \in Tree \cup {None}
        BY <2>1, <3>1 DEF AtWork, TypeOK
      <4> QED BY <4>1, <4>2 DEF TypeOK, ReceiptHonest
    <3>2. CASE ~(k[1] = "run" /\ job[w].forced)
      BY <2>1, <3>2 DEF Attest, TypeOK, ReceiptHonest
    <3> QED BY <3>1, <3>2
  <2>7. CASE k[1] = "build" /\ job[w].runs /\ Compiles(job[w].of)
    <3>1. pc' = [pc EXCEPT ![w] = "validate"] /\ job' = job
      BY <2>1, <2>7 DEF Continue, Goto
    <3>2. TypeOK'
      BY <2>1, <2>2, <2>6, <3>1 DEF TypeOK
    <3>3. AtWork(w)'
      <4>1. pc'[w] = "validate" /\ job'[w] = job[w]
        BY <3>1 DEF TypeOK
      <4>2. job[w].of = tree[w]
        BY <2>1, <2>7 DEF AtWork
      <4> QED BY <2>1, <2>2, <2>7, <4>1, <4>2 DEF AtWork, Contents, Compiles
    <3> QED BY <2>1, <2>3, <2>4, <2>5, <2>6, <3>1, <3>2, <3>3, Preserved DEF TypeOK
  <2>8. CASE ~(k[1] = "build" /\ job[w].runs /\ Compiles(job[w].of))
    <3>1. pc' = [pc EXCEPT ![w] = "idle"] /\ job' = [job EXCEPT ![w] = Idle]
      BY <2>1, <2>8 DEF Continue, Goto
    <3>2. Idle \in Job
      BY DEF Idle, Job
    <3>3. TypeOK'
      BY <2>1, <2>2, <2>6, <3>1, <3>2 DEF TypeOK
    <3>4. AtWork(w)'
      BY <2>1, <2>2, <3>1, AtRest DEF TypeOK, Contents
    <3> QED BY <2>1, <2>3, <2>4, <2>5, <2>6, <3>1, <3>3, <3>4, Preserved DEF TypeOK
  <2> QED BY <2>7, <2>8
<1> QED BY <1>1, <1>2

-----------------------------------------------------------------------------
(* Compilation and validation. *)

(* A verdict is served, or the tree is built: the binaries are then its own, or
   those of a tree that compiled before. *)
LEMMA CompileIInv ==
  ASSUME IInv, NEW w \in Workspace, NEW runs \in BOOLEAN, NEW forced \in BOOLEAN,
         Compile(w, runs, forced)
  PROVE  IInv'
<1> USE DEF IInv
<1> DEFINE k == <<"build", head[w]>>
           j == [key |-> k, commit |-> None, of |-> tree[w],
                 runs |-> runs, forced |-> forced, cached |-> FALSE]
           jc == [key |-> k, commit |-> None, of |-> tree[w],
                  runs |-> runs, forced |-> forced, cached |-> TRUE]
<1>1. /\ pc[w] = "idle" /\ job[w] = Idle
      /\ UNCHANGED <<shared, tree, head, replay, starts, receipt>>
  BY DEF Compile, TypeOK
<1>2. /\ head[w] \in 1..Len(store) /\ tree[w] = Contents(head[w])
      /\ tree[w] \in Tree /\ k \in Key
  BY <1>1 DEF AtWork, TypeOK, Key
<1>3. /\ j = [key |-> k, commit |-> None, of |-> tree[w],
              runs |-> runs, forced |-> forced, cached |-> FALSE]
      /\ jc = [key |-> k, commit |-> None, of |-> tree[w],
               runs |-> runs, forced |-> forced, cached |-> TRUE]
  OBVIOUS
<1>4. j \in Job /\ jc \in Job
  BY <1>2, <1>3 DEF Job
<1>5. \/ /\ Answered(w, k, forced) /\ Compiles(entry[k].of)
         /\ pc' = [pc EXCEPT ![w] = "validate"] /\ job' = [job EXCEPT ![w] = jc]
         /\ UNCHANGED bin
      \/ UNCHANGED <<pc, job, bin>>
      \/ Ends(w) /\ UNCHANGED bin
      \/ /\ Built(w, tree[w]) /\ ~Compiles(tree[w]) /\ UNCHANGED <<pc, job>>
      \/ /\ Built(w, tree[w]) /\ Compiles(tree[w])
         /\ pc' = [pc EXCEPT ![w] = "validate"] /\ job' = [job EXCEPT ![w] = j]
      \/ /\ Built(w, tree[w])
         /\ pc' = [pc EXCEPT ![w] = "dump"] /\ job' = [job EXCEPT ![w] = j]
  <2>1. CASE Answered(w, k, forced)
    BY <2>1 DEF Compile, Goto
  <2>2. CASE ~Answered(w, k, forced)
    BY <2>2 DEF Compile, Goto
  <2> QED BY <2>1, <2>2
<1> HIDE DEF k, j, jc
<1>6. CASE UNCHANGED <<pc, job>> /\ (UNCHANGED bin \/ Built(w, tree[w]))
  <2>1. TypeOK' /\ \A v \in Workspace \ {w} : bin'[v] = bin[v]
    BY <1>1, <1>2, <1>6 DEF TypeOK, shared, Built
  <2>2. AtWork(w)'
    BY <1>1, <1>2, <1>6, AtRest DEF shared, Contents
  <2> QED BY <1>1, <1>6, <2>1, <2>2, PreservedAlone DEF shared, ReceiptHonest, TypeOK
<1>7. CASE Ends(w) /\ UNCHANGED bin
  BY <1>1, <1>7, EndsIInv
<1>8. CASE /\ Answered(w, k, forced) /\ Compiles(entry[k].of)
           /\ pc' = [pc EXCEPT ![w] = "validate"] /\ job' = [job EXCEPT ![w] = jc]
           /\ UNCHANGED bin
  <2>1. TypeOK'
    BY <1>1, <1>4, <1>8 DEF TypeOK, shared
  <2>2. entry[k].of = tree[w] /\ ~forced
    BY <1>2, <1>8 DEF Answered, Entries, Faithful, k
  <2>3. /\ pc'[w] = "validate" /\ job'[w] = jc
        /\ UNCHANGED <<store, ref, tree, head, bin>>
    BY <1>1, <1>8 DEF TypeOK, shared
  <2>4. AtWork(w)'
    BY <1>2, <1>3, <1>8, <2>2, <2>3 DEF AtWork, Contents, Compiles, k
  <2> QED BY <1>1, <1>8, <2>1, <2>4, PreservedAlone DEF shared, ReceiptHonest, TypeOK
<1>9. CASE /\ Built(w, tree[w])
           /\ \/ Compiles(tree[w]) /\ pc' = [pc EXCEPT ![w] = "validate"]
              \/ pc' = [pc EXCEPT ![w] = "dump"]
           /\ job' = [job EXCEPT ![w] = j]
  <2>1. TypeOK' /\ \A v \in Workspace \ {w} : bin'[v] = bin[v]
    BY <1>1, <1>2, <1>4, <1>9 DEF TypeOK, shared, Built
  <2>2. Compiles(tree[w]) => bin'[w] = tree[w]
    BY <1>9 DEF Built, TypeOK
  <2>3. /\ pc'[w] \in {"validate", "dump"} /\ job'[w] = j
        /\ pc'[w] = "validate" => Compiles(tree[w])
        /\ UNCHANGED <<store, ref, tree, head>>
    BY <1>1, <1>9 DEF TypeOK, shared
  <2>4. /\ job'[w].key = k /\ job'[w].of = tree[w] /\ job'[w].cached = FALSE
        /\ k[1] = "build" /\ k[2] = head[w]
    BY <1>3, <2>3 DEF k
  <2>5. Faithful(job[w].key, job[w])'
    BY <1>2, <2>3, <2>4 DEF Faithful, Contents
  <2>6. AtWork(w)'
    BY <1>2, <2>2, <2>3, <2>4, <2>5 DEF AtWork, Contents, Compiles
  <2> QED BY <1>1, <1>9, <2>1, <2>6, PreservedAlone DEF shared, ReceiptHonest, TypeOK
<1> QED BY <1>5, <1>6, <1>7, <1>8, <1>9

(* A recorded verdict is given: for a forced build, by the binaries it made. *)
LEMMA ReplayedIInv ==
  ASSUME IInv, NEW w \in Workspace, Replayed(w)
  PROVE  IInv'
<1> USE DEF IInv
<1> DEFINE k == <<"run", head[w]>>
           e == entry[k]
<1>1. /\ pc[w] = "validate" /\ e # None /\ Restore(w, e.commit)
      /\ IF job[w].cached \/ job[w].forced
           THEN /\ Attest(w, e.of)
                /\ Goto(w, "idle") /\ job' = [job EXCEPT ![w] = Idle]
           ELSE Ends(w) /\ UNCHANGED receipt
      /\ UNCHANGED <<shared, bin, replay, starts>>
  BY DEF Replayed
<1>2. /\ head[w] \in 1..Len(store) /\ tree[w] = Contents(head[w])
      /\ tree[w] \in Tree /\ k \in Key /\ Compiles(tree[w])
      /\ job[w].cached \/ (Compiles(tree[w]) => bin[w] = tree[w])
      /\ job[w].forced => ~job[w].cached
  BY <1>1 DEF AtWork, TypeOK, Key
<1>3. Faithful(k, e)
  BY <1>1, <1>2 DEF Entries
<1>4. e.commit \in 1..Len(store) /\ e.of = tree[w]
  BY <1>2, <1>3 DEF Faithful
<1>5. Idle \in Job
  BY DEF Idle, Job
<1>6. /\ pc' \in {[pc EXCEPT ![w] = "idle"], [pc EXCEPT ![w] = "off"]}
      /\ job' = [job EXCEPT ![w] = Idle]
      /\ \/ UNCHANGED receipt
         \/ job[w].forced /\ receipt' = receipt \cup {[built |-> bin[w], ran |-> e.of]}
  BY <1>1 DEF Ends, Goto, Attest
<1>7. receipt' \subseteq [built : Tree \cup {None}, ran : Tree \cup {None}] /\ ReceiptHonest'
  BY <1>2, <1>4, <1>6 DEF TypeOK, ReceiptHonest
<1>8. TypeOK'
  BY <1>1, <1>4, <1>5, <1>6, <1>7, Snapshot DEF TypeOK, Restore, shared
<1>9. AtWork(w)'
  BY <1>1, <1>4, <1>6, AtRest DEF TypeOK, Restore, Contents, shared
<1> QED BY <1>1, <1>6, <1>7, <1>8, <1>9, PreservedAlone DEF Restore, TypeOK

(* The queries run on binaries of the snapshot: those its build left, or those
   of the rebuild when the build's verdict was served. *)
LEMMA ExecutedIInv ==
  ASSUME IInv, NEW w \in Workspace, Executed(w)
  PROVE  IInv'
<1> USE DEF IInv
<1>1. pc[w] = "validate" /\ UNCHANGED <<shared, tree, head, replay, starts, receipt>>
  BY DEF Executed
<1>2. CASE replay[w]
  BY <1>1, <1>2, EndsIInv DEF Executed
<1>3. CASE ~replay[w]
  <2> DEFINE k == <<"run", head[w]>>
  <2>1. /\ IF job[w].cached THEN Built(w, tree[w]) ELSE UNCHANGED bin
        /\ job' = [job EXCEPT ![w].key = k, ![w].of = bin'[w]]
        /\ pc' = [pc EXCEPT ![w] = "name"]
    BY <1>3 DEF Executed, Goto
  <2>2. /\ head[w] \in 1..Len(store) /\ tree[w] = Contents(head[w])
        /\ tree[w] \in Tree /\ k \in Key /\ Compiles(tree[w])
        /\ job[w].cached \/ bin[w] = tree[w]
        /\ job[w].forced => ~job[w].cached
    BY <1>1 DEF AtWork, TypeOK, Key
  <2>3. bin' = [bin EXCEPT ![w] = bin'[w]] /\ bin'[w] = tree[w]
    BY <2>1, <2>2 DEF Built, TypeOK
  <2>4. /\ job' = [job EXCEPT ![w] = [job[w] EXCEPT !.key = k, !.of = tree[w]]]
        /\ [job[w] EXCEPT !.key = k, !.of = tree[w]] \in Job
    <3>1. job[w] \in Job
      BY <1>1 DEF TypeOK
    <3>2. [job[w] EXCEPT !.key = k, !.of = tree[w]] \in Job
      BY <2>2, <3>1 DEF Job
    <3>3. job' = [job EXCEPT ![w] = [job[w] EXCEPT !.key = k, !.of = tree[w]]]
      BY <2>1, <2>3
    <3> QED BY <3>2, <3>3
  <2>5. TypeOK'
    BY <1>1, <2>1, <2>2, <2>3, <2>4 DEF TypeOK, shared
  <2>6. /\ pc'[w] = "name" /\ job'[w].key = k /\ job'[w].of = tree[w]
        /\ job'[w].forced = job[w].forced /\ job'[w].cached = job[w].cached
    <3>1. pc'[w] = "name" /\ job'[w] = [job[w] EXCEPT !.key = k, !.of = tree[w]]
      BY <1>1, <2>1, <2>4 DEF TypeOK
    <3>2. job[w] \in Job
      BY <1>1 DEF TypeOK
    <3> QED BY <3>1, <3>2 DEF Job
  <2>7. k[1] = "run" /\ k[2] = head[w] /\ Effect(k[1], Contents(head[w])) = tree[w]
    BY <2>2 DEF Effect
  <2>8. AtWork(w)'
    BY <1>1, <2>2, <2>3, <2>6, <2>7 DEF AtWork, Contents, Effect, shared
  <2> QED BY <1>1, <2>1, <2>3, <2>4, <2>5, <2>8, PreservedAlone DEF ReceiptHonest, TypeOK
<1> QED BY <1>2, <1>3

-----------------------------------------------------------------------------
(* The theorems. *)

(* Every step keeps the inductive invariant. *)
LEMMA StepIInv == IInv /\ [Next]_vars => IInv'
<1> SUFFICES ASSUME IInv, [Next]_vars PROVE IInv'
    OBVIOUS
<1>1. CASE UNCHANGED vars
  BY <1>1 DEF IInv, TypeOK, Refs, Entries, Temporaries, AtWork, ReceiptHonest, Faithful,
              Contents, Compiles, vars, shared, local
<1>2. ASSUME NEW w \in Workspace,
             \/ Start(w) \/ Kill(w) \/ Revert(w)
             \/ \E o \in Edit : Hit(w, o) \/ Miss(w, o)
             \/ Name(w) \/ CommitTree(w) \/ UpdateRef(w)
             \/ Dump(w) \/ Write(w) \/ Replace(w)
             \/ \E runs, forced \in BOOLEAN : Compile(w, runs, forced)
             \/ Replayed(w) \/ Executed(w)
      PROVE  IInv'
  BY <1>2, StartIInv, KillIInv, RevertIInv, HitIInv, MissIInv, NameIInv, CommitTreeIInv,
     UpdateRefIInv, DumpIInv, WriteIInv, ReplaceIInv, CompileIInv, ReplayedIInv,
     ExecutedIInv
<1> QED BY <1>1, <1>2 DEF Next

(* IInv is an invariant of the model. *)
LEMMA Inductive == Spec => []IInv
BY InitIInv, StepIInv, PTL DEF Spec

(* The variables keep their types, and every commit has an earlier parent. *)
THEOREM Typed == Spec => []TypeOK
<1>1. IInv => TypeOK
  BY DEF IInv
<1> QED BY <1>1, Inductive, PTL

(* Between operations the tracked files are those of the snapshot every key is
   computed from. *)
THEOREM AtHead == Spec => []TreeIsHead
<1>1. IInv => TreeIsHead
  BY DEF IInv, AtWork, TreeIsHead
<1> QED BY <1>1, Inductive, PTL

(* An entry says what doing the operation does. *)
THEOREM FaithfulEntries == Spec => []EntryFaithful
<1>1. IInv => EntryFaithful
  BY DEF IInv, TypeOK, Entries, Faithful, EntryFaithful
<1> QED BY <1>1, Inductive, PTL

(* The snapshot an entry restores has a ref with an equal tree. *)
THEOREM Anchored == Spec => []EntryAnchored
<1>1. ASSUME IInv, NEW k \in Key, entry[k] # None, k[1] # "build"
      PROVE  ref[k] # None /\ Contents(ref[k]) = Contents(entry[k].commit)
  BY <1>1 DEF IInv, Entries, Faithful, Refs
<1>2. IInv => EntryAnchored
  BY <1>1 DEF EntryAnchored
<1> QED BY <1>2, Inductive, PTL

(* A publish receipt attests the binaries that were run. *)
THEOREM Honest == Spec => []ReceiptHonest
<1>1. IInv => ReceiptHonest
  BY DEF IInv
<1> QED BY <1>1, Inductive, PTL

\* A process that runs only from the caches is never in the middle of a write.
Reads ==
  \A w \in Workspace : replay[w] => pc[w] \in {"off", "idle", "validate"}

(* A replay reaches no step that writes. *)
LEMMA ReadsStays == TypeOK /\ Reads /\ [Next]_vars => Reads'
<1> SUFFICES ASSUME TypeOK, Reads, [Next]_vars PROVE Reads'
    OBVIOUS
<1> USE DEF Reads
<1>1. CASE UNCHANGED vars
  BY <1>1 DEF vars, local
<1>2. ASSUME NEW w \in Workspace,
             Start(w) \/ Kill(w) \/ Revert(w) \/ \E o \in Edit : Hit(w, o) \/ Miss(w, o)
      PROVE  Reads'
  BY <1>2 DEF TypeOK, Start, Kill, Revert, Hit, Miss, Ends, Goto, Restore
<1>3. ASSUME NEW w \in Workspace, Name(w) \/ CommitTree(w) \/ UpdateRef(w)
      PROVE  Reads'
  BY <1>3 DEF TypeOK, Name, CommitTree, UpdateRef, Ends, Goto
<1>4. ASSUME NEW w \in Workspace, Dump(w) \/ Write(w) \/ Replace(w)
      PROVE  Reads'
  BY <1>4 DEF TypeOK, Dump, Write, Replace, Continue, Ends, Goto, local
<1>5. ASSUME NEW w \in Workspace, NEW runs \in BOOLEAN, NEW forced \in BOOLEAN,
             Compile(w, runs, forced)
      PROVE  Reads'
  <2> DEFINE k == <<"build", head[w]>>
  <2>1. /\ replay' = replay
        /\ \A v \in Workspace \ {w} : pc'[v] = pc[v]
        /\ pc'[w] = "dump" => ~replay[w]
        /\ pc'[w] \in {"off", "idle", "validate", "dump"}
    <3>1. CASE Answered(w, k, forced)
      BY <1>5, <3>1 DEF TypeOK, Compile, Goto
    <3>2. CASE ~Answered(w, k, forced) /\ replay[w] /\ ~forced
      BY <1>5, <3>2 DEF TypeOK, Compile, Ends, Goto
    <3>3. CASE ~Answered(w, k, forced) /\ (forced \/ ~replay[w])
      <4>1. CASE Recorded(w, k)
        BY <1>5, <3>3, <4>1 DEF TypeOK, Compile, Recorded, Goto
      <4>2. CASE ~Recorded(w, k)
        BY <1>5, <3>3, <4>2 DEF TypeOK, Compile, Goto
      <4> QED BY <4>1, <4>2
    <3> QED BY <3>1, <3>2, <3>3
  <2> QED BY <2>1
<1>6. ASSUME NEW w \in Workspace, Replayed(w) \/ Executed(w)
      PROVE  Reads'
  BY <1>6 DEF TypeOK, Replayed, Executed, Ends, Goto, Restore
<1> QED BY <1>1, <1>2, <1>3, <1>4, <1>5, <1>6 DEF Next

(* When only replays run, nothing is written to the repository or the caches. *)
THEOREM ReplayIsReadOnly == Spec => ReplayWritesNothing
<1>1. Init => Reads
  BY DEF Init, Reads
<1>2. ASSUME TypeOK, Reads, [Next]_vars,
             \A w \in Workspace : pc[w] # "off" => replay[w]
      PROVE  UNCHANGED shared
  <2>1. CASE UNCHANGED vars
    BY <2>1 DEF vars
  <2>2. ASSUME NEW w \in Workspace, pc[w] \in {"name", "commit", "ref", "dump", "write", "replace"}
        PROVE  FALSE
    BY <1>2, <2>2 DEF Reads
  <2>3. ASSUME NEW w \in Workspace,
               Start(w) \/ Kill(w) \/ Revert(w) \/ \E o \in Edit : Hit(w, o) \/ Miss(w, o)
        PROVE  UNCHANGED shared
    BY <2>3 DEF Start, Kill, Revert, Hit, Miss
  <2>4. ASSUME NEW w \in Workspace,
               Name(w) \/ CommitTree(w) \/ UpdateRef(w) \/ Dump(w) \/ Write(w) \/ Replace(w)
        PROVE  FALSE
    BY <2>2, <2>4 DEF Name, CommitTree, UpdateRef, Dump, Write, Replace
  <2>5. ASSUME NEW w \in Workspace,
               (\E runs, forced \in BOOLEAN : Compile(w, runs, forced))
                 \/ Replayed(w) \/ Executed(w)
        PROVE  UNCHANGED shared
    BY <2>5 DEF Compile, Replayed, Executed
  <2> QED BY <1>2, <2>1, <2>3, <2>4, <2>5 DEF Next
<1>3. IInv => TypeOK
  BY DEF IInv
<1>4. TypeOK /\ Reads /\ [Next]_vars =>
        ((\A w \in Workspace : pc[w] # "off" => replay[w]) => UNCHANGED shared)
  BY <1>2
<1>5. Spec => [](TypeOK /\ Reads)
  BY <1>1, <1>3, Inductive, ReadsStays, PTL DEF Spec
<1> QED BY <1>4, <1>5, PTL DEF Spec, ReplayWritesNothing

-----------------------------------------------------------------------------
(* Lineages. *)

(* A set of natural numbers that is not empty has a least one: intervals 1..n
   are well-founded. *)
LEMMA Least ==
  ASSUME NEW S \in SUBSET Nat, S # {}
  PROVE  \E n \in S : \A m \in S : n <= m
<1> DEFINE T == {1..n : n \in S}
<1>1. T # {}
  OBVIOUS
<1>2. T \subseteq FiniteSubsetsOf(Nat)
  <2>1. \A n \in Nat : 1..n \subseteq Nat /\ IsFiniteSet(1..n)
    BY FS_Interval
  <2> QED BY <2>1 DEF FiniteSubsetsOf
<1>3. PICK X \in T : \A Y \in T : ~(<<Y, X>> \in StrictSubsetOrdering(Nat))
  <2> HIDE DEF T
  <2> QED BY <1>1, <1>2, FS_StrictSubsetOrderingWellFounded, WFMin
<1>4. PICK n \in S : X = 1..n
  OBVIOUS
<1>5. ASSUME NEW m \in S, m < n PROVE FALSE
  <2>1. 1..m \subseteq 1..n /\ n \in 1..n /\ n \notin 1..m
    BY <1>5
  <2>2. <<1..m, 1..n>> \in StrictSubsetOrdering(Nat)
    BY <2>1 DEF StrictSubsetOrdering
  <2> QED BY <1>3, <1>4, <2>2
<1> QED BY <1>5

\* The equation of the recursive function of Ancestors, on the first n commits.
IsUp(g, n) ==
  g = [d \in 1..n |->
         {d} \cup (IF store[d].parent = None THEN {} ELSE g[store[d].parent])]

(* It has a solution, since parents are earlier commits. *)
LEMMA UpExists ==
  ASSUME TypeOK
  PROVE  \A n \in 0..Len(store) : \E g : IsUp(g, n)
<1> DEFINE S == {n \in 0..Len(store) : ~\E g : IsUp(g, n)}
<1>1. SUFFICES ASSUME S # {} PROVE FALSE
  OBVIOUS
<1>2. Len(store) \in Nat
  BY DEF TypeOK
<1>3. PICK n \in S : \A m \in S : n <= m
  <2>1. S \in SUBSET Nat
    BY <1>2
  <2> HIDE DEF S
  <2> QED BY <1>1, <2>1, Least
<1>4. n # 0
  <2> DEFINE g == [d \in 1..0 |-> {}]
  <2>1. IsUp(g, 0)
    BY DEF IsUp
  <2> QED BY <2>1
<1>5. n - 1 \in 0..Len(store) /\ n - 1 \notin S /\ n \in 1..Len(store)
  BY <1>2, <1>3, <1>4
<1>6. PICK g : IsUp(g, n - 1)
  BY <1>5
<1> DEFINE U(f, d) == {d} \cup (IF store[d].parent = None THEN {} ELSE f[store[d].parent])
           h == [d \in 1..n |-> IF d = n THEN U(g, n) ELSE g[d]]
           H == [d \in 1..n |-> U(h, d)]
<1>7. \A d \in 1..(n - 1) : g[d] = U(g, d)
  BY <1>6 DEF IsUp
<1>8. \A d \in 1..n : h[d] = H[d]
  <2> SUFFICES ASSUME NEW d \in 1..n PROVE h[d] = H[d]
    OBVIOUS
  <2>1. store[d].parent \in 1..(d - 1) \cup {None}
    BY <1>2, <1>5 DEF TypeOK
  <2>2. U(h, d) = U(g, d)
    <3>1. CASE store[d].parent = None
      BY <3>1
    <3>2. CASE store[d].parent # None
      <4>1. store[d].parent \in 1..n /\ store[d].parent # n
        BY <2>1, <3>2, <1>5
      <4> QED BY <4>1
    <3> QED BY <3>1, <3>2
  <2>3. h[d] = U(g, d)
    <3>1. CASE d = n
      BY <3>1
    <3>2. CASE d # n
      <4>1. d \in 1..(n - 1)
        BY <3>2, <1>5
      <4>2. h[d] = g[d]
        BY <3>2
      <4> QED BY <1>7, <4>1, <4>2
    <3> QED BY <3>1, <3>2
  <2>4. H[d] = U(h, d)
    OBVIOUS
  <2> QED BY <2>2, <2>3, <2>4
<1>9. h = H
  <2>1. h = [d \in 1..n |-> h[d]] /\ H = [d \in 1..n |-> H[d]]
    OBVIOUS
  <2> HIDE DEF h, H
  <2> QED BY <1>8, <2>1
<1>10. IsUp(h, n)
  <2> HIDE DEF h
  <2> QED BY <1>9 DEF IsUp
<1> QED BY <1>10

(* What the ancestors of a commit are: itself, and those of its parent. *)
Lineage ==
  \A c \in 1..Len(store) :
    Ancestors(c) =
      {c} \cup (IF store[c].parent = None THEN {} ELSE Ancestors(store[c].parent))

LEMMA AncestorsAre == TypeOK => Lineage
<1> SUFFICES ASSUME TypeOK, NEW c \in 1..Len(store)
             PROVE  Ancestors(c) = {c} \cup (IF store[c].parent = None THEN {}
                                            ELSE Ancestors(store[c].parent))
  BY DEF Lineage
<1> DEFINE Is(g) == IsUp(g, Len(store))
           up == CHOOSE g : Is(g)
<1>1. Len(store) \in 0..Len(store)
  BY DEF TypeOK
<1>2. \E g : Is(g)
  BY <1>1, UpExists
<1>3. Is(up)
  <2> HIDE DEF Is
  <2> QED BY <1>2
<1>4. \A d : Ancestors(d) = up[d]
  BY DEF Ancestors, IsUp
<1> HIDE DEF up
<1>5. up[c] = {c} \cup (IF store[c].parent = None THEN {} ELSE up[store[c].parent])
  BY <1>3 DEF IsUp
<1> QED BY <1>4, <1>5

(* The same, after a step. *)
LEMMA AncestorsAreThen == TypeOK' => Lineage'
  BY AncestorsAre, PTL

(* An ancestor is an earlier commit, and its ancestors are ancestors. *)
LEMMA AncestorsDown ==
  ASSUME TypeOK
  PROVE  \A c \in 1..Len(store) : \A d \in Ancestors(c) :
            d \in 1..c /\ Ancestors(d) \subseteq Ancestors(c)
<1> DEFINE Down(c) == \A d \in Ancestors(c) : d \in 1..c /\ Ancestors(d) \subseteq Ancestors(c)
           S == {c \in 1..Len(store) : ~Down(c)}
<1>1. SUFFICES ASSUME S # {} PROVE FALSE
  OBVIOUS
<1>2. PICK c \in S : \A m \in S : c <= m
  <2>1. S \in SUBSET Nat
    BY DEF TypeOK
  <2> HIDE DEF S
  <2> QED BY <1>1, <2>1, Least
<1> DEFINE p == store[c].parent
<1>3. /\ c \in 1..Len(store) /\ p \in 1..(c - 1) \cup {None}
      /\ Ancestors(c) = {c} \cup (IF p = None THEN {} ELSE Ancestors(p))
  BY <1>2, AncestorsAre DEF TypeOK, Lineage
<1>4. ASSUME p # None PROVE Down(p) /\ p \in 1..(c - 1)
  <2>1. p \in 1..(c - 1) /\ p \in 1..Len(store)
    BY <1>3, <1>4
  <2>2. p \notin S
    BY <1>2, <2>1
  <2> QED BY <2>1, <2>2
<1>5. Down(c)
  <2> SUFFICES ASSUME NEW d \in Ancestors(c)
               PROVE  d \in 1..c /\ Ancestors(d) \subseteq Ancestors(c)
    OBVIOUS
  <2>1. CASE d = c
    BY <1>3, <2>1
  <2>2. CASE d # c
    <3>1. p # None /\ d \in Ancestors(p)
      BY <1>3, <2>2
    <3>2. d \in 1..p /\ Ancestors(d) \subseteq Ancestors(p) /\ p \in 1..(c - 1)
      BY <1>4, <3>1
    <3> QED BY <1>3, <3>1, <3>2
  <2> QED BY <2>1, <2>2
<1> QED BY <1>2, <1>5

(* A commit keeps its ancestors. *)
LEMMA AncestorsStay ==
  ASSUME TypeOK, TypeOK', Grows
  PROVE  \A c \in 1..Len(store) : Ancestors(c)' = Ancestors(c)
<1> DEFINE S == {c \in 1..Len(store) : Ancestors(c)' # Ancestors(c)}
<1>1. SUFFICES ASSUME S # {} PROVE FALSE
  OBVIOUS
<1>2. PICK c \in S : \A m \in S : c <= m
  <2>1. S \in SUBSET Nat
    BY DEF TypeOK
  <2> HIDE DEF S
  <2> QED BY <1>1, <2>1, Least
<1>3. PICK p : p = store[c].parent
  OBVIOUS
<1>4. /\ c \in 1..Len(store) /\ c \in 1..Len(store')
      /\ store'[c].parent = p /\ p \in 1..(c - 1) \cup {None}
  BY <1>2, <1>3 DEF Grows, TypeOK
<1>5. Ancestors(c) = {c} \cup (IF p = None THEN {} ELSE Ancestors(p))
  BY <1>3, <1>4, AncestorsAre DEF Lineage
<1>6. Ancestors(c)' = {c} \cup (IF p = None THEN {} ELSE Ancestors(p)')
  BY <1>4, AncestorsAreThen DEF Lineage
<1>7. p # None => Ancestors(p)' = Ancestors(p)
  <2> SUFFICES ASSUME p # None PROVE p \in 1..Len(store) /\ p \notin S
    OBVIOUS
  <2> QED BY <1>2, <1>4
<1> QED BY <1>2, <1>5, <1>6, <1>7

-----------------------------------------------------------------------------
(* Whose child a commit is. *)

\* The commit of an edit is a child of the snapshot of its key, since an edit
\* always changes something; that of a run is that snapshot.
Kin(k, x) ==
  /\ k[1] \in Edit => store[x.commit].parent = k[2]
  /\ k[1] = "run" => x.commit = k[2]

Knows(w) ==
  LET k == job[w].key IN
  /\ pc[w] \in {"ref", "dump", "write", "replace"} => Kin(k, job[w])
  /\ pc[w] \in {"dump", "write", "replace"} /\ k[1] # "build" => head[w] = job[w].commit
  /\ pc[w] \notin {"off", "idle"} /\ k[1] = "run" => Compiles(job[w].of)

EntriesKin == \A k \in Key : entry[k] # None => Kin(k, entry[k])
TemporariesKin == \A k \in Key : tmp[k] # None => Kin(k, tmp[k])

KinInv == EntriesKin /\ TemporariesKin /\ \A w \in Workspace : Knows(w)

Step(w) ==
  \/ Start(w) \/ Kill(w) \/ Revert(w)
  \/ \E o \in Edit : Hit(w, o) \/ Miss(w, o)
  \/ Name(w) \/ CommitTree(w) \/ UpdateRef(w)
  \/ Dump(w) \/ Write(w) \/ Replace(w)
  \/ \E runs, forced \in BOOLEAN : Compile(w, runs, forced)
  \/ Replayed(w) \/ Executed(w)

(* What a compilation leaves alone, and where it goes. *)
LEMMA RestOfCompile ==
  ASSUME NEW w \in Workspace, NEW runs \in BOOLEAN, NEW forced \in BOOLEAN,
         Compile(w, runs, forced)
  PROVE  /\ pc[w] = "idle" /\ UNCHANGED <<shared, tree, head, replay, starts, receipt>>
         /\ \/ UNCHANGED <<pc, job>>
            \/ Ends(w)
            \/ \E cached \in BOOLEAN :
                 /\ Goto(w, "validate") \/ Goto(w, "dump")
                 /\ job' = [job EXCEPT ![w] =
                      [key |-> <<"build", head[w]>>, commit |-> None, of |-> tree[w],
                       runs |-> runs, forced |-> forced, cached |-> cached]]
<1> DEFINE k == <<"build", head[w]>>
<1>1. CASE Answered(w, k, forced)
  BY <1>1 DEF Compile
<1>2. CASE ~Answered(w, k, forced)
  BY <1>2 DEF Compile
<1> QED BY <1>1, <1>2

(* A process is on its own worktree, at its own place. *)
LEMMA StepIsLocal ==
  ASSUME TypeOK, NEW w \in Workspace, Step(w)
  PROVE  /\ \A v \in Workspace \ {w} :
              pc'[v] = pc[v] /\ tree'[v] = tree[v] /\ head'[v] = head[v] /\ job'[v] = job[v]
         /\ tree' = [tree EXCEPT ![w] = tree'[w]]
<1>1. CASE Start(w) \/ Kill(w) \/ Revert(w) \/ \E o \in Edit : Hit(w, o) \/ Miss(w, o)
  BY <1>1 DEF TypeOK, Start, Kill, Revert, Hit, Miss, Ends, Goto, Restore
<1>2. CASE Name(w) \/ CommitTree(w) \/ UpdateRef(w)
  BY <1>2 DEF TypeOK, Name, CommitTree, UpdateRef, Ends, Goto
<1>3. CASE Dump(w) \/ Write(w) \/ Replace(w)
  BY <1>3 DEF TypeOK, Dump, Write, Replace, Continue, Ends, Goto, local
<1>4. ASSUME NEW runs \in BOOLEAN, NEW forced \in BOOLEAN, Compile(w, runs, forced)
      PROVE  /\ UNCHANGED <<tree, head>>
             /\ \A v \in Workspace \ {w} : pc'[v] = pc[v] /\ job'[v] = job[v]
  BY <1>4, RestOfCompile DEF TypeOK, Goto, Ends
<1>5. CASE Replayed(w) \/ Executed(w)
  BY <1>5 DEF TypeOK, Replayed, Executed, Ends, Goto, Restore
<1> QED BY <1>1, <1>2, <1>3, <1>4, <1>5 DEF Step, TypeOK

(* Commits stay, and refs. *)
LEMMA StepGrows ==
  ASSUME IInv, NEW w \in Workspace, Step(w)
  PROVE  Grows
<1> USE DEF IInv
<1>1. CASE CommitTree(w)
  <2>1. UNCHANGED ref /\ \/ UNCHANGED store
                         \/ store' = Append(store, [tree |-> tree[w], parent |-> head[w]])
    BY <1>1 DEF CommitTree
  <2>2. [tree |-> tree[w], parent |-> head[w]] \in [tree : Tree, parent : Commit \cup {None}]
    BY DEF TypeOK
  <2>3. store \in Seq([tree : Tree, parent : Commit \cup {None}])
    BY DEF TypeOK
  <2> QED BY <2>1, <2>2, <2>3 DEF Grows
<1>2. CASE UpdateRef(w)
  <2>1. job[w].commit \in 1..Len(store) /\ UNCHANGED store
        /\ ref' = [ref EXCEPT ![job[w].key] = job[w].commit]
    BY <1>2 DEF UpdateRef, AtWork
  <2>2. job[w].commit # None
    BY <2>1, NoneIsNew DEF TypeOK, Commit
  <2> QED BY <2>1, <2>2 DEF Grows, TypeOK
<1>3. CASE ~CommitTree(w) /\ ~UpdateRef(w)
  <2>1. UNCHANGED <<store, ref>>
    BY <1>3 DEF Step, Start, Kill, Revert, Hit, Miss, Name, Dump, Write, Replace, Compile,
                Replayed, Executed, shared
  <2> QED BY <2>1 DEF Grows
<1> QED BY <1>1, <1>2, <1>3

(* As the repository grows, whose child a commit is stays. *)
LEMMA KinStays ==
  ASSUME TypeOK, Grows, NEW k \in Key, NEW x, Kin(k, x),
         k[1] # "build" => x.commit \in 1..Len(store)
  PROVE  Kin(k, x)'
<1>1. k[1] \in Edit => k[1] # "build"
  BY Tools
<1> QED BY <1>1 DEF Kin, Grows

(* So it stays for the entries, the temporary files and the other processes. *)
LEMMA EntriesStayKin ==
  ASSUME IInv, EntriesKin, Grows, UNCHANGED entry PROVE EntriesKin'
<1> SUFFICES ASSUME NEW k \in Key, entry[k] # None PROVE Kin(k, entry[k])'
  BY DEF EntriesKin
<1>1. Kin(k, entry[k]) /\ (k[1] # "build" => entry[k].commit \in 1..Len(store))
  BY DEF EntriesKin, IInv, Entries, Faithful
<1> QED BY <1>1, KinStays DEF IInv

LEMMA TemporariesStayKin ==
  ASSUME IInv, TemporariesKin, Grows, UNCHANGED tmp PROVE TemporariesKin'
<1> SUFFICES ASSUME NEW k \in Key, tmp[k] # None PROVE Kin(k, tmp[k])'
  BY DEF TemporariesKin
<1>1. Kin(k, tmp[k]) /\ (k[1] # "build" => tmp[k].commit \in 1..Len(store))
  BY DEF TemporariesKin, IInv, Temporaries, Faithful
<1> QED BY <1>1, KinStays DEF IInv

LEMMA OthersKnow ==
  ASSUME IInv, Grows, NEW v \in Workspace, Knows(v),
         pc'[v] = pc[v], head'[v] = head[v], job'[v] = job[v]
  PROVE  Knows(v)'
<1>1. ASSUME pc[v] \in {"ref", "dump", "write", "replace"} PROVE Kin(job[v].key, job[v])'
  <2>1. Kin(job[v].key, job[v]) /\ AtWork(v)
    BY <1>1 DEF Knows, IInv
  <2>2. job[v].key \in Key /\ (job[v].key[1] # "build" => job[v].commit \in 1..Len(store))
    BY <1>1, <2>1 DEF AtWork, Faithful
  <2> QED BY <2>1, <2>2, KinStays DEF IInv
<1> QED BY <1>1 DEF Knows, Compiles


(* What the process of a step knows after it. *)
LEMMA AtRestKnows ==
  ASSUME NEW w \in Workspace, pc'[w] \in {"off", "idle"} PROVE Knows(w)'
  BY DEF Knows

LEMMA EndsKnows ==
  ASSUME TypeOK, NEW w \in Workspace, Ends(w) PROVE Knows(w)'
  BY DEF Knows, TypeOK, Ends, Goto

(* A miss: nothing is committed yet. *)
LEMMA MissKnows ==
  ASSUME IInv, NEW w \in Workspace, NEW o \in Edit, Miss(w, o) PROVE Knows(w)'
<1>1. TypeOK
  BY DEF IInv
<1>2. CASE replay[w]
  BY <1>1, <1>2, EndsKnows DEF Miss
<1>3. CASE ~replay[w]
  <2>1. pc'[w] = "name" /\ job'[w] = [Idle EXCEPT !.key = <<o, head[w]>>]
    BY <1>1, <1>3 DEF Miss, Goto, TypeOK
  <2>2. job'[w].key[1] # "run"
    BY <2>1, Tools DEF Idle
  <2> QED BY <2>1, <2>2 DEF Knows
<1> QED BY <1>2, <1>3

(* An edit is committed on top of the snapshot of its key; for a run that
   snapshot is taken again. *)
LEMMA CommitTreeKnows ==
  ASSUME IInv, NEW w \in Workspace, Knows(w), CommitTree(w) PROVE Knows(w)'
<1> DEFINE k == job[w].key
           n == job'[w].commit
<1> USE DEF IInv
<1>1. /\ pc[w] = "commit" /\ pc'[w] = "ref" /\ UNCHANGED <<tree, head>>
      /\ k \in Key /\ k[1] # "build" /\ k[2] = head[w] /\ job[w] \in Job
      /\ tree[w] = Effect(k[1], Contents(head[w]))
  BY DEF CommitTree, Goto, TypeOK, AtWork
<1>2. k[1] \in Edit => tree[w] # Contents(head[w])
  BY <1>1, Tools DEF Effect
<1>3. k[1] = "run" => tree[w] = Contents(head[w])
  BY <1>1 DEF Effect
<1>4. CASE tree[w] = Contents(head[w])
  <2>1. job'[w] = [job[w] EXCEPT !.commit = head[w]]
    BY <1>4 DEF CommitTree, TypeOK
  <2>2. job'[w].key = k /\ job'[w].of = job[w].of /\ n = head[w]
    BY <1>1, <2>1 DEF Job
  <2> QED BY <1>1, <1>2, <1>4, <2>2 DEF Knows, Kin, Compiles
<1>5. CASE tree[w] # Contents(head[w])
  <2> DEFINE r == [tree |-> tree[w], parent |-> head[w]]
  <2>1. store' = Append(store, r) /\ job'[w] = [job[w] EXCEPT !.commit = Len(store')]
    BY <1>5 DEF CommitTree, TypeOK
  <2>2. job'[w].key = k /\ job'[w].of = job[w].of /\ n = Len(store')
    BY <1>1, <2>1 DEF Job
  <2>3. r \in [tree : Tree, parent : Commit \cup {None}]
    BY DEF TypeOK
  <2>4. store'[Len(store')] = r
    BY <2>1, <2>3 DEF TypeOK
  <2>5. store'[n].parent = k[2]
    BY <1>1, <2>2, <2>4
  <2> QED BY <1>1, <1>3, <1>5, <2>2, <2>5 DEF Knows, Kin, Compiles
<1> QED BY <1>4, <1>5

(* The steps that carry the job on. *)
LEMMA GoingOnKnows ==
  ASSUME TypeOK, Grows, NEW w \in Workspace, Knows(w), AtWork(w),
         Name(w) \/ UpdateRef(w) \/ Dump(w) \/ Write(w) \/ Replace(w)
  PROVE  Knows(w)'
<1>1. CASE Ends(w)
  BY <1>1, EndsKnows
<1>2. CASE Name(w) /\ ~Ends(w)
  BY <1>2 DEF Knows, TypeOK, Name, Goto, Compiles
<1>3. CASE UpdateRef(w) \/ Write(w) \/ (Dump(w) /\ ~Ends(w))
  <2>1. /\ UNCHANGED job /\ pc[w] \in {"ref", "dump", "write"}
        /\ pc'[w] \in {"dump", "write", "replace"}
        /\ pc[w] = "ref" => head'[w] = job[w].commit
        /\ pc[w] # "ref" => UNCHANGED head
    BY <1>3 DEF TypeOK, UpdateRef, Write, Dump, Goto, local
  <2>2. Kin(job[w].key, job[w])
    BY <2>1 DEF Knows
  <2>3. job[w].key \in Key /\ (job[w].key[1] # "build" => job[w].commit \in 1..Len(store))
    BY <2>1 DEF AtWork, Faithful
  <2>4. Kin(job[w].key, job[w])'
    BY <2>1, <2>2, <2>3, KinStays
  <2> QED BY <2>1, <2>4 DEF Knows, Compiles
<1>4. CASE Replace(w) /\ ~Ends(w)
  <2>1. Continue(w)
    BY <1>4 DEF Replace
  <2>2. \/ pc'[w] = "idle"
        \/ pc'[w] = "validate" /\ UNCHANGED job /\ job[w].key[1] = "build"
    BY <2>1 DEF TypeOK, Continue, Goto
  <2> QED BY <2>2 DEF Knows
<1> QED BY <1>1, <1>2, <1>3, <1>4

(* A compilation has no commit. *)
LEMMA CompileKnows ==
  ASSUME TypeOK, NEW w \in Workspace, NEW runs \in BOOLEAN, NEW forced \in BOOLEAN,
         Compile(w, runs, forced)
  PROVE  Knows(w)'
<1>1. CASE UNCHANGED <<pc, job>> \/ Ends(w)
  <2>1. pc[w] = "idle"
    BY RestOfCompile
  <2> QED BY <1>1, <2>1, EndsKnows, AtRestKnows
<1>2. CASE \E cached \in BOOLEAN :
             /\ Goto(w, "validate") \/ Goto(w, "dump")
             /\ job' = [job EXCEPT ![w] =
                  [key |-> <<"build", head[w]>>, commit |-> None, of |-> tree[w],
                   runs |-> runs, forced |-> forced, cached |-> cached]]
  <2>1. pc'[w] \in {"validate", "dump"} /\ job'[w].key = <<"build", head[w]>>
    BY <1>2 DEF TypeOK, Goto
  <2>2. job'[w].key[1] = "build"
    BY <2>1
  <2>3. job'[w].key[1] \notin Edit
    BY <2>2, Tools
  <2> QED BY <2>1, <2>2, <2>3 DEF Knows, Kin
<1> QED BY <1>1, <1>2, RestOfCompile

(* Only what compiles is run. *)
LEMMA ExecutedKnows ==
  ASSUME IInv, NEW w \in Workspace, Executed(w) PROVE Knows(w)'
<1>1. TypeOK /\ AtWork(w)
  BY DEF IInv
<1>2. CASE replay[w]
  BY <1>1, <1>2, EndsKnows DEF Executed
<1>3. CASE ~replay[w]
  <2>1. /\ pc'[w] = "name" /\ pc[w] = "validate"
        /\ job'[w] = [job[w] EXCEPT !.key = <<"run", head[w]>>, !.of = bin'[w]]
        /\ IF job[w].cached THEN Built(w, tree[w]) ELSE UNCHANGED bin
    BY <1>1, <1>3 DEF TypeOK, Executed, Goto
  <2>2. Compiles(tree[w]) /\ bin'[w] = tree[w]
    BY <1>1, <2>1 DEF AtWork, Built, TypeOK
  <2>3. job[w] \in Job
    BY <1>1 DEF TypeOK
  <2>4. job'[w].of = tree[w]
    BY <2>1, <2>2, <2>3 DEF Job
  <2> QED BY <2>1, <2>2, <2>4 DEF Knows, Compiles
<1> QED BY <1>2, <1>3

(* All of them. *)
LEMMA StepKnows ==
  ASSUME IInv, NEW w \in Workspace, Knows(w), Step(w)
  PROVE  Knows(w)'
<1>1. TypeOK /\ AtWork(w) /\ Grows
  BY StepGrows DEF IInv
<1>2. CASE Start(w) \/ Kill(w) \/ Revert(w) \/ Replayed(w) \/ \E o \in Edit : Hit(w, o)
  <2>1. pc'[w] \in {"off", "idle"}
    BY <1>1, <1>2 DEF TypeOK, Start, Kill, Revert, Replayed, Hit, Goto, Ends
  <2> QED BY <2>1, AtRestKnows
<1>3. CASE \E o \in Edit : Miss(w, o)
  BY <1>3, MissKnows
<1>4. CASE CommitTree(w)
  BY <1>4, CommitTreeKnows
<1>5. CASE Name(w) \/ UpdateRef(w) \/ Dump(w) \/ Write(w) \/ Replace(w)
  BY <1>1, <1>5, GoingOnKnows
<1>6. CASE \E runs, forced \in BOOLEAN : Compile(w, runs, forced)
  BY <1>1, <1>6, CompileKnows
<1>7. CASE Executed(w)
  BY <1>7, ExecutedKnows
<1> QED BY <1>2, <1>3, <1>4, <1>5, <1>6, <1>7 DEF Step

(* KinInv is kept: a rename publishes what the temporary file says. *)
LEMMA StepKin ==
  ASSUME IInv, KinInv, NEW w \in Workspace, Step(w)
  PROVE  KinInv'
<1>1. TypeOK /\ Grows
  BY StepGrows DEF IInv
<1>2. \A v \in Workspace : Knows(v)'
  <2>1. Knows(w)'
    BY StepKnows DEF KinInv
  <2>2. \A v \in Workspace \ {w} : Knows(v)'
    BY <1>1, StepIsLocal, OthersKnow DEF KinInv
  <2> QED BY <2>1, <2>2
<1> DEFINE k == job[w].key
<1>3. CASE Write(w)
  <2>1. /\ UNCHANGED <<store, entry>> /\ k \in Key /\ Kin(k, job[w])
        /\ tmp' = [tmp EXCEPT ![k] = [commit |-> job[w].commit, of |-> job[w].of]]
    BY <1>3 DEF Write, IInv, AtWork, KinInv, Knows
  <2>2. EntriesKin'
    BY <1>1, <2>1, EntriesStayKin DEF KinInv
  <2>3. TemporariesKin'
    BY <1>1, <2>1 DEF KinInv, TemporariesKin, Kin, TypeOK
  <2> QED BY <1>2, <2>2, <2>3 DEF KinInv
<1>4. CASE Replace(w) /\ tmp[k] # None
  <2>1. /\ UNCHANGED store /\ k \in Key
        /\ entry' = [entry EXCEPT ![k] = tmp[k]] /\ tmp' = [tmp EXCEPT ![k] = None]
    BY <1>4 DEF Replace, IInv, AtWork
  <2>2. EntriesKin' /\ TemporariesKin'
    BY <1>1, <1>4, <2>1 DEF KinInv, EntriesKin, TemporariesKin, Kin, TypeOK
  <2> QED BY <1>2, <2>2 DEF KinInv
<1>5. CASE ~Write(w) /\ ~(Replace(w) /\ tmp[k] # None)
  <2>1. UNCHANGED <<entry, tmp>>
    BY <1>5 DEF Step, Start, Kill, Revert, Hit, Miss, Name, CommitTree, UpdateRef, Dump,
                Replace, Compile, Replayed, Executed, shared
  <2>2. EntriesKin' /\ TemporariesKin'
    BY <1>1, <2>1, EntriesStayKin, TemporariesStayKin DEF KinInv
  <2> QED BY <1>2, <2>2 DEF KinInv
<1> QED BY <1>3, <1>4, <1>5


-----------------------------------------------------------------------------
(* The mapping. *)

LineInv == IInv /\ KinInv /\ store[Base] = [tree |-> {}, parent |-> None]

(* What a workspace had is what its process made of it: the line of a commit is
   that of its parent and itself. *)
LEMMA LineOf ==
  ASSUME TypeOK, NEW c \in 1..Len(store), store[c].parent # None
  PROVE  Line(c) = {Contents(c)} \cup Line(store[c].parent)
  BY AncestorsAre DEF Lineage, Line

(* A line stays as it is while others commit. *)
LEMMA LineStays ==
  ASSUME TypeOK, TypeOK', Grows, NEW c \in 1..Len(store)
  PROVE  Line(c)' = Line(c)
<1>1. Ancestors(c)' = Ancestors(c)
  BY AncestorsStay
<1>2. \A d \in Ancestors(c) : Contents(d)' = Contents(d)
  BY AncestorsDown DEF Contents, Grows, TypeOK
<1> QED BY <1>1, <1>2 DEF Line

(* A snapshot is on its own line. *)
LEMMA HeadOnLine ==
  ASSUME TypeOK, NEW c \in 1..Len(store) PROVE Contents(c) \in Line(c)
  BY AncestorsAre DEF Lineage, Line

\* What a workspace had, whoever works on it.
Had(w) == {tree[w]} \cup Line(head[w])

(* A step changes the mapping of its own workspace only. *)
LEMMA OthersMap ==
  ASSUME IInv, IInv', NEW w \in Workspace, Step(w)
  PROVE  /\ On' = [On EXCEPT ![w] = pc'[w] # "off"]
         /\ Past' = [Past EXCEPT ![w] = IF pc'[w] = "off" THEN {} ELSE Had(w)']
<1>1. \A v \in Workspace \ {w} : pc'[v] = pc[v] /\ tree'[v] = tree[v] /\ head'[v] = head[v]
  BY StepIsLocal DEF IInv
<1>2. \A v \in Workspace : head[v] \in 1..Len(store)
  BY DEF IInv, AtWork
<1>3. \A v \in Workspace : Line(head[v])' = {Contents(d) : d \in Ancestors(head[v])}'
  BY DEF Line
<1>4. ASSUME NEW v \in Workspace \ {w} PROVE Line(head[v])' = Line(head[v])
  <2>1. PICK c \in 1..Len(store) : c = head[v] /\ c = head'[v]
    BY <1>1, <1>2
  <2>2. Line(c)' = Line(c)
    BY StepGrows, LineStays DEF IInv
  <2> QED BY <2>1, <2>2
<1>5. \A v \in Workspace \ {w} : On'[v] = On[v] /\ Past'[v] = Past[v]
  BY <1>1, <1>4 DEF On, Past
<1>6. /\ On'[w] = (pc'[w] # "off")
      /\ Past'[w] = IF pc'[w] = "off" THEN {} ELSE Had(w)'
  BY DEF On, Past, Had
<1>7. /\ On = [v \in Workspace |-> On[v]] /\ On' = [v \in Workspace |-> On'[v]]
      /\ Past = [v \in Workspace |-> Past[v]] /\ Past' = [v \in Workspace |-> Past'[v]]
  BY DEF On, Past
<1> HIDE DEF On, Past
<1> QED BY <1>5, <1>6, <1>7


(* A step that changes neither files nor line is a stutter. *)
LEMMA StutterMaps ==
  ASSUME IInv, IInv', NEW w \in Workspace, Step(w), pc[w] # "off", pc'[w] # "off",
         UNCHANGED <<tree, receipt>>, Had(w)' = Had(w)
  PROVE  UNCHANGED Direct!vars
<1>1. On[w] = TRUE /\ Past[w] = Had(w)
  BY DEF On, Past, Had
<1>2. On' = [On EXCEPT ![w] = TRUE] /\ Past' = [Past EXCEPT ![w] = Had(w)]
  BY OthersMap
<1>3. On = [v \in Workspace |-> On[v]] /\ Past = [v \in Workspace |-> Past[v]]
  BY DEF On, Past
<1> HIDE DEF On, Past
<1> QED BY <1>1, <1>2, <1>3 DEF Direct!vars

(* A process that ends stops, wherever it is. *)
LEMMA EndMaps ==
  ASSUME IInv, IInv', NEW w \in Workspace, Step(w), pc[w] # "off", pc'[w] = "off",
         UNCHANGED <<tree, receipt>>
  PROVE  Direct!Stop(w)
<1>1. On[w]
  BY DEF On
<1>2. On' = [On EXCEPT ![w] = FALSE] /\ Past' = [Past EXCEPT ![w] = {}]
  BY OthersMap
<1> QED BY <1>1, <1>2 DEF Direct!Stop

(* A workspace that is at rest has the files of its snapshot. *)
LEMMA HadAtHead ==
  ASSUME IInv, NEW w \in Workspace, tree[w] = Contents(head[w])
  PROVE  Had(w) = Line(head[w])
  BY HeadOnLine DEF IInv, AtWork, Had

(* A process starts on a line of one snapshot, the empty one. *)
LEMMA StartMaps ==
  ASSUME LineInv, IInv', NEW w \in Workspace, Start(w) PROVE Direct!Begin(w)
<1>1. /\ pc[w] = "off" /\ pc'[w] = "idle" /\ UNCHANGED <<store, receipt>>
      /\ tree' = [tree EXCEPT ![w] = {}] /\ head'[w] = Base
  BY DEF Start, Restore, Goto, shared, LineInv, IInv, TypeOK, Contents
<1>2. Line(Base) = {{}}
  <2>1. Base \in 1..Len(store)
    BY DEF LineInv, IInv, TypeOK, Commit, Base
  <2>2. Ancestors(Base) = {Base}
    BY <2>1, AncestorsAre DEF LineInv, IInv, Lineage
  <2> QED BY <2>2 DEF Line, Contents, LineInv
<1>3. Had(w)' = {{}}
  <2>1. tree'[w] = {}
    BY <1>1 DEF LineInv, IInv, TypeOK
  <2>2. Line(head[w])' = Line(Base)
    BY <1>1 DEF Line, Ancestors, Contents
  <2> QED BY <1>2, <2>1, <2>2 DEF Had
<1>4. ~On[w] /\ On' = [On EXCEPT ![w] = TRUE] /\ Past' = [Past EXCEPT ![w] = {{}}]
  BY <1>1, <1>3, OthersMap DEF On, LineInv, Step
<1> QED BY <1>1, <1>4 DEF Direct!Begin

(* A revert goes to an ancestor, whose line is part of the line there is. *)
LEMMA RevertMaps ==
  ASSUME IInv, IInv', NEW w \in Workspace, Revert(w) PROVE Direct!Back(w)
<1>1. PICK c \in 1..Len(store) : c \in Ancestors(head[w]) /\ Restore(w, c)
  BY DEF Revert
<1>2. /\ pc[w] = "idle" /\ pc'[w] = "idle" /\ UNCHANGED <<store, receipt>>
      /\ tree' = [tree EXCEPT ![w] = Contents(c)] /\ head'[w] = c
      /\ tree'[w] = Contents(c)
  BY <1>1 DEF Revert, Restore, shared, IInv, TypeOK
<1>3. Line(head[w])' = Line(c)
  BY <1>2 DEF Line, Ancestors, Contents
<1>4. Had(w)' = Line(c) /\ Contents(c) \in Line(c)
  BY <1>2, <1>3, HeadOnLine DEF Had, IInv
<1>5. head[w] \in 1..Len(store)
  BY DEF IInv, AtWork
<1>6. Line(c) \subseteq Line(head[w])
  BY <1>1, <1>5, AncestorsDown DEF Line, IInv
<1>7. On[w] /\ Past[w] = Had(w) /\ Line(c) \in SUBSET Past[w]
  BY <1>2, <1>6 DEF On, Past, Had
<1>8. On' = [On EXCEPT ![w] = TRUE] /\ Past' = [Past EXCEPT ![w] = Line(c)]
  BY <1>2, <1>4, OthersMap DEF Step
<1>9. UNCHANGED On
  <2>1. On = [v \in Workspace |-> On[v]]
    BY DEF On
  <2> HIDE DEF On
  <2> QED BY <1>7, <1>8, <2>1
<1> QED BY <1>2, <1>4, <1>7, <1>8, <1>9 DEF Direct!Back

(* An operation is done, or the entry that says what it does is restored. *)
LEMMA DoMaps ==
  ASSUME IInv, IInv', NEW w \in Workspace, NEW o \in Edit, Step(w),
         pc[w] = "idle", pc'[w] # "off", UNCHANGED receipt,
         tree' = [tree EXCEPT ![w] = Effect(o, @)],
         Line(head[w])' \in {Line(head[w]), Line(head[w]) \cup {tree'[w]}}
  PROVE  Direct!Do(w, o)
<1>1. Past[w] = Line(head[w])
  <2>1. Past[w] = Had(w)
    BY DEF Past, Had
  <2>2. tree[w] = Contents(head[w])
    BY DEF IInv, AtWork
  <2> QED BY <2>1, <2>2, HadAtHead
<1>2. Had(w)' = Past[w] \cup {tree'[w]}
  BY <1>1 DEF Had
<1>3. On[w] = TRUE /\ On' = [On EXCEPT ![w] = TRUE]
  BY OthersMap DEF On
<1>4. Past' = [Past EXCEPT ![w] = Past[w] \cup {tree'[w]}]
  BY <1>2, OthersMap
<1>5. UNCHANGED On
  <2>1. On = [v \in Workspace |-> On[v]]
    BY DEF On
  <2> HIDE DEF On
  <2> QED BY <1>3, <2>1
<1> QED BY <1>3, <1>4, <1>5 DEF Direct!Do

(* A hit: the commit of the entry is a child of the snapshot, with the files
   the operation would have left. *)
LEMMA HitMaps ==
  ASSUME LineInv, IInv', NEW w \in Workspace, NEW o \in Edit, Hit(w, o)
  PROVE  Direct!Do(w, o)
<1> USE DEF LineInv, IInv
<1> DEFINE k == <<o, head[w]>>
           c == entry[k].commit
<1>1. /\ pc[w] = "idle" /\ pc' = pc /\ UNCHANGED <<store, receipt>> /\ entry[k] # None
      /\ tree' = [tree EXCEPT ![w] = Contents(c)] /\ head'[w] = c
  BY DEF Hit, Restore, shared, TypeOK
<1>2. k \in Key /\ k[1] = o /\ k[2] = head[w] /\ o # "build" /\ head[w] \in 1..Len(store)
  BY Tools DEF AtWork, TypeOK, Key
<1>3. /\ c \in 1..Len(store) /\ Contents(c) = Effect(o, Contents(head[w]))
      /\ store[c].parent = head[w]
  BY <1>1, <1>2 DEF Entries, Faithful, KinInv, EntriesKin, Kin
<1>4. tree[w] = Contents(head[w])
  BY <1>1 DEF AtWork
<1>5. Line(head[w])' = Line(c)
  BY <1>1 DEF Line, Ancestors, Contents
<1>6. Line(c) = {Contents(c)} \cup Line(head[w])
  <2>1. head[w] # None
    BY <1>2, NoneIsNew
  <2> QED BY <1>3, <2>1, LineOf
<1>7. tree' = [tree EXCEPT ![w] = Effect(o, @)] /\ tree'[w] = Contents(c)
  BY <1>1, <1>3, <1>4 DEF TypeOK
<1> HIDE DEF c, k
<1> QED BY <1>1, <1>5, <1>6, <1>7, DoMaps DEF Step


(* A miss does the operation, or ends a replay. *)
LEMMA MissMaps ==
  ASSUME IInv, IInv', NEW w \in Workspace, NEW o \in Edit, Miss(w, o)
  PROVE  Direct!Do(w, o) \/ Direct!Stop(w)
<1>1. Step(w) /\ pc[w] = "idle" /\ UNCHANGED <<store, head, receipt>>
  BY DEF Step, Miss, shared
<1>2. CASE replay[w]
  <2>1. pc'[w] = "off" /\ UNCHANGED tree
    BY <1>2 DEF Miss, Ends, Goto, IInv, TypeOK
  <2> QED BY <1>1, <2>1, EndMaps
<1>3. CASE ~replay[w]
  <2>1. pc'[w] = "name" /\ tree' = [tree EXCEPT ![w] = Effect(o, @)]
    BY <1>3 DEF Miss, Goto, IInv, TypeOK
  <2>2. Line(head[w])' = Line(head[w])
    BY <1>1 DEF Line, Ancestors, Contents
  <2> QED BY <1>1, <2>1, <2>2, DoMaps
<1> QED BY <1>2, <1>3

\* The files of every snapshot of the line, as the repository grows.
SameLine(w) == UNCHANGED <<tree, receipt>> /\ Line(head[w])' = Line(head[w])

(* The rest: a process goes on, or ends. *)
LEMMA SameLineMaps ==
  ASSUME IInv, IInv', NEW w \in Workspace, Step(w), pc[w] # "off", SameLine(w)
  PROVE  Direct!Next \/ UNCHANGED Direct!vars
<1>1. CASE pc'[w] = "off"
  BY <1>1, EndMaps DEF SameLine, Direct!Next
<1>2. CASE pc'[w] # "off"
  <2>1. Had(w)' = Had(w)
    BY DEF SameLine, Had
  <2> QED BY <1>2, <2>1, StutterMaps DEF SameLine
<1> QED BY <1>1, <1>2

(* The steps of a snapshot and of an entry, and a compilation. *)
LEMMA QuietMaps ==
  ASSUME IInv, IInv', NEW w \in Workspace,
         \/ Kill(w) \/ Name(w) \/ CommitTree(w) \/ Dump(w) \/ Write(w) \/ Executed(w)
         \/ \E runs, forced \in BOOLEAN : Compile(w, runs, forced)
  PROVE  Direct!Next \/ UNCHANGED Direct!vars
<1>1. Step(w) /\ pc[w] # "off" /\ UNCHANGED <<tree, head, receipt>>
  BY DEF Step, Kill, Name, CommitTree, Dump, Write, Executed, Compile, local
<1>2. Line(head[w])' = Line(head[w])
  <2>1. PICK c \in 1..Len(store) : c = head[w] /\ c = head'[w]
    BY <1>1 DEF IInv, AtWork
  <2>2. Line(c)' = Line(c)
    BY <1>1, StepGrows, LineStays DEF IInv
  <2>3. Line(head[w])' = Line(c)'
    BY <2>1 DEF Line
  <2> QED BY <2>1, <2>2, <2>3
<1> QED BY <1>1, <1>2, SameLineMaps DEF SameLine

(* The commit of an operation goes on from the line it was done on. *)
LEMMA UpdateRefMaps ==
  ASSUME LineInv, IInv', NEW w \in Workspace, UpdateRef(w)
  PROVE  UNCHANGED Direct!vars
<1> USE DEF LineInv, IInv
<1> DEFINE k == job[w].key
           c == job[w].commit
<1>1. /\ pc[w] = "ref" /\ pc'[w] = "dump" /\ head'[w] = c
      /\ UNCHANGED <<store, tree, receipt>>
  BY DEF UpdateRef, Goto, TypeOK
<1>2. /\ k \in Key /\ k[1] # "build" /\ k[2] = head[w] /\ head[w] \in 1..Len(store)
      /\ c \in 1..Len(store) /\ Contents(c) = tree[w] /\ Kin(k, job[w])
  BY <1>1 DEF AtWork, KinInv, Knows
<1>3. Line(head[w])' = Line(c)
  BY <1>1 DEF Line, Ancestors, Contents
<1>4. {tree[w]} \cup Line(c) = {tree[w]} \cup Line(head[w])
  <2>1. CASE k[1] = "run"
    BY <1>2, <2>1 DEF Kin
  <2>2. CASE k[1] # "run"
    <3>1. store[c].parent = head[w] /\ head[w] # None
      BY <1>2, <2>2, NoneIsNew DEF Key, Kin
    <3>2. Line(c) = {tree[w]} \cup Line(head[w])
      BY <1>2, <3>1, LineOf
    <3> QED BY <3>2
  <2> QED BY <2>1, <2>2
<1>5. Had(w)' = Had(w)
  BY <1>1, <1>3, <1>4 DEF Had
<1> QED BY <1>1, <1>5, StutterMaps DEF Step

(* A receipt is for the files that are there. *)
LEMMA AttestMaps ==
  ASSUME IInv, IInv', NEW w \in Workspace, Step(w), pc[w] # "off", pc'[w] # "off",
         UNCHANGED tree, Line(head[w])' = Line(head[w]), Compiles(tree[w]),
         receipt' = receipt \cup {[built |-> tree[w], ran |-> tree[w]]}
  PROVE  Direct!Attest(w)
<1>1. On[w] = TRUE /\ Past[w] = Had(w) /\ Had(w)' = Had(w)
  BY DEF On, Past, Had
<1>2. On' = [On EXCEPT ![w] = TRUE] /\ Past' = [Past EXCEPT ![w] = Had(w)]
  BY <1>1, OthersMap
<1>3. On = [v \in Workspace |-> On[v]] /\ Past = [v \in Workspace |-> Past[v]]
  BY DEF On, Past
<1> HIDE DEF On, Past
<1> QED BY <1>1, <1>2, <1>3 DEF Direct!Attest

(* A verdict just recorded was given for the files that are there. *)
LEMMA ReplaceMaps ==
  ASSUME LineInv, IInv', NEW w \in Workspace, Replace(w)
  PROVE  Direct!Next \/ UNCHANGED Direct!vars
<1> USE DEF LineInv, IInv
<1> DEFINE k == job[w].key
<1>1. Step(w) /\ pc[w] = "replace" /\ UNCHANGED <<store, tree, head>>
  BY DEF Step, Replace
<1>2. Line(head[w])' = Line(head[w])
  BY <1>1 DEF Line, Ancestors, Contents
<1>3. CASE UNCHANGED receipt
  BY <1>1, <1>2, <1>3, SameLineMaps DEF SameLine
<1>4. CASE ~UNCHANGED receipt
  <2>1. /\ k[1] = "run" /\ Continue(w)
        /\ receipt' = receipt \cup {[built |-> bin[w], ran |-> job[w].of]}
    BY <1>4 DEF Replace, Attest
  <2>2. pc'[w] = "idle"
    BY <2>1 DEF Continue, Goto, TypeOK
  <2>3. /\ job[w].of = Contents(k[2]) /\ bin[w] = job[w].of /\ k \in Key
        /\ tree[w] = Contents(head[w])
    BY <1>1, <2>1 DEF AtWork
  <2>4. head[w] = job[w].commit /\ job[w].commit = k[2] /\ Compiles(job[w].of)
    BY <1>1, <2>1 DEF KinInv, Knows, Kin
  <2> QED BY <1>1, <1>2, <2>1, <2>2, <2>3, <2>4, AttestMaps DEF Direct!Next
<1> QED BY <1>3, <1>4

(* A verdict from the cache is for the same files, which the forced build of the
   publish gate has just compiled. *)
LEMMA ReplayedMaps ==
  ASSUME LineInv, IInv', NEW w \in Workspace, Replayed(w)
  PROVE  Direct!Next \/ UNCHANGED Direct!vars
<1> USE DEF LineInv, IInv
<1> DEFINE k == <<"run", head[w]>>
           e == entry[k]
<1>1. /\ Step(w) /\ pc[w] = "validate" /\ e # None /\ Restore(w, e.commit)
      /\ UNCHANGED <<store, bin>>
  BY DEF Step, Replayed, shared
<1>2. /\ k \in Key /\ k[1] = "run" /\ k[2] = head[w] /\ head[w] \in 1..Len(store)
      /\ tree[w] = Contents(head[w]) /\ Compiles(tree[w])
      /\ job[w].forced => bin[w] = tree[w]
  BY <1>1 DEF AtWork, TypeOK, Key
<1>3. e.commit = head[w] /\ e.of = tree[w]
  BY <1>1, <1>2 DEF Entries, Faithful, KinInv, EntriesKin, Kin
<1>4. UNCHANGED <<tree, head>>
  BY <1>1, <1>2, <1>3 DEF Restore, TypeOK
<1>5. Line(head[w])' = Line(head[w])
  BY <1>1, <1>4 DEF Line, Ancestors, Contents
<1>6. CASE UNCHANGED receipt
  BY <1>1, <1>4, <1>5, <1>6, SameLineMaps DEF SameLine
<1>7. CASE ~UNCHANGED receipt
  <2>1. /\ job[w].forced /\ pc'[w] = "idle"
        /\ receipt' = receipt \cup {[built |-> bin[w], ran |-> e.of]}
    BY <1>7 DEF Replayed, Attest, Goto, TypeOK
  <2> QED BY <1>1, <1>2, <1>3, <1>4, <1>5, <2>1, AttestMaps DEF Direct!Next
<1> QED BY <1>6, <1>7

(* Every step of a process. *)
LEMMA StepMaps ==
  ASSUME LineInv, IInv', NEW w \in Workspace, Step(w)
  PROVE  Direct!Next \/ UNCHANGED Direct!vars
<1>1. CASE Start(w) \/ Revert(w)
  BY <1>1, StartMaps, RevertMaps DEF LineInv, Direct!Next
<1>2. CASE \E o \in Edit : Hit(w, o) \/ Miss(w, o)
  BY <1>2, HitMaps, MissMaps DEF LineInv, Direct!Next
<1>3. CASE UpdateRef(w) \/ Replace(w) \/ Replayed(w)
  BY <1>3, UpdateRefMaps, ReplaceMaps, ReplayedMaps
<1> QED BY <1>1, <1>2, <1>3, QuietMaps DEF Step, LineInv

(* It holds at the start. *)
LEMMA LineInitInv == Init => LineInv
<1> SUFFICES ASSUME Init PROVE LineInv
  OBVIOUS
<1>1. IInv
  BY InitIInv
<1>2. KinInv
  BY DEF Init, KinInv, EntriesKin, TemporariesKin, Knows
<1>3. store[Base] = [tree |-> {}, parent |-> None]
  BY DEF Init, Base
<1> QED BY <1>1, <1>2, <1>3 DEF LineInv

(* What the mapping needs to know is inductive. *)
LEMMA LineStep == LineInv /\ [Next]_vars => LineInv'
<1> SUFFICES ASSUME LineInv, [Next]_vars PROVE LineInv'
  OBVIOUS
<1>1. IInv'
  BY StepIInv DEF LineInv
<1>2. CASE UNCHANGED vars
  BY <1>1, <1>2
  DEF LineInv, KinInv, EntriesKin, TemporariesKin, Knows, Kin, Compiles, vars, shared, local
<1>3. ASSUME NEW w \in Workspace, Step(w) PROVE LineInv'
  <2>1. Base \in 1..Len(store)
    BY DEF LineInv, IInv, TypeOK, Commit, Base
  <2> QED BY <1>1, <1>3, <2>1, StepKin, StepGrows DEF LineInv, Grows
<1> QED BY <1>2, <1>3 DEF Next, Step

(* The initial state maps to the initial state, and a step to a step. *)
LEMMA InitMaps == Init => Direct!Init
  BY DEF Init, Direct!Init, On, Past

LEMMA NextMaps == LineInv /\ LineInv' /\ [Next]_vars => [Direct!Next]_(Direct!vars)
<1> SUFFICES ASSUME LineInv, LineInv', [Next]_vars
             PROVE  Direct!Next \/ UNCHANGED Direct!vars
  OBVIOUS
<1>1. CASE UNCHANGED vars
  BY <1>1 DEF vars, shared, local, Direct!vars, On, Past, Line, Ancestors, Contents
<1>2. ASSUME NEW w \in Workspace, Step(w) PROVE Direct!Next \/ UNCHANGED Direct!vars
  BY <1>2, StepMaps DEF LineInv
<1> QED BY <1>1, <1>2 DEF Next, Step

(* Snapshots and caches are transparent, for any number of workspaces,     *)
(* edits, commits and processes: every step is a step of the work done     *)
(* without them, or a stutter.                                             *)
THEOREM CachesAreTransparent == Spec => Transparent
  BY LineInitInv, LineStep, InitMaps, NextMaps, PTL DEF Spec, Transparent, Direct!Spec

==============================================================================
