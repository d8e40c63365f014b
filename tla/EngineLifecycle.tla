--------------------------- MODULE EngineLifecycle ---------------------------
(***************************************************************************)
(* Who owns an engine of the serving side, its db process and its segments *)
(* in /dev/shm: SynnoConnection (duckdb_compat/connection.py) with its     *)
(* cursors, discovery (duckdb_compat/discovery.py) and the engines of the  *)
(* two data planes (router/process_engine.py, router/shm_transport.py).    *)
(*                                                                         *)
(* One package is published: shm-capable, with a snapshot or without, its  *)
(* schema matching the tables.  Each application process has one database  *)
(* and one router; its handles, the connection and its cursors, run in     *)
(* threads of their own.  A process is named by its incarnation, which is  *)
(* what a pid and a start time identify; pids are used again.  An engine   *)
(* object without a reference left is closed at once by __del__ (reference *)
(* counting).  What a run answers is left to QueryRouter.                  *)
(***************************************************************************)
EXTENDS Integers, FiniteSets

CONSTANTS
  Process,    \* incarnations of application processes
  Handle,     \* handles of one process
  Main,       \* the handle connect() returns
  Pid,        \* process ids
  None,       \* no pid yet, no engine
  Queries,    \* queries of the package, registered one after the other
  Room,       \* hot-loads the budget of /dev/shm admits
  EngineId,   \* names for the engines that exist at a time
  MaxCursor,  \* bound: cursors that exist at a time
  MaxFail     \* bound: segment writes and registrations that fail

ASSUME Handles == Main \in Handle /\ IsFiniteSet(Handle)
ASSUME NoneIsNew == None \notin Pid \cup EngineId \cup Process
ASSUME Package == Queries \in Nat \ {0}
ASSUME Bounds == {Room, MaxCursor, MaxFail} \subseteq Nat

VARIABLES
  bundled, \* the package has a snapshot (manifest.parquet_dir)
  alive,   \* processes that run
  pid,     \* the pid a process has or had
  tables,  \* processes whose database has the tables of the package
  eng,     \* the engines: objects, and what processes left that were killed
  dirs,    \* engines whose ingest directory is in /dev/shm
  stray,   \* engines with a db process that no engine object refers to
  bound,   \* the registry of each process: query -> engine or None
  refs,    \* _engine_refcount of each process
  open,    \* handles made and not yet closed
  made,    \* handles made
  known,   \* handles with the package in _registered
  pc,      \* where the call of each handle is
  mine,    \* the engine it builds or runs on, or None
  old,     \* the engine its promotion is to supersede, or None
  next,    \* the query it registers next
  cut,     \* handles whose runner a close() has dropped since they got it
  hurt,    \* history: engines closed while some handle had their runner
  fails    \* bound: failures so far

engineVars == <<eng, dirs, stray, cut, hurt>>
handleVars == <<bundled, alive, pid, refs, open, made>>
callVars == <<mine, old, next>>
vars == <<tables, bound, known, pc, fails, engineVars, handleVars, callVars>>

Session == Process \X Handle
Of(s) == s[1]
Query == 1..Queries

\* An engine object: its plane, _closed, _loaded of the hot-load, and
\* whether its HotpatchProc has a child.
Engine == [of : Process \cup {None}, plane : {"parquet", "shm"}, closed : BOOLEAN,
           loaded : BOOLEAN, up : BOOLEAN]

New(p, plane) ==
  [of |-> p, plane |-> plane, closed |-> FALSE, loaded |-> FALSE, up |-> FALSE]

\* close(): the runner is terminated and dropped, the segments are removed.
Closed(e) == [e EXCEPT !.closed = TRUE, !.loaded = FALSE, !.up = FALSE]

NoEngine == Closed(New(None, "parquet"))

\* health(), the binary being there.
Healthy(e) == ~e.closed /\ (e.plane = "shm" => e.loaded)

Init ==
  /\ bundled \in BOOLEAN
  /\ alive = {} /\ pid = [p \in Process |-> None] /\ tables = {}
  /\ eng = [e \in EngineId |-> NoEngine]
  /\ dirs = {} /\ stray = {} /\ cut = {} /\ hurt = {}
  /\ bound = [p \in Process |-> [q \in Query |-> None]]
  /\ refs = [p \in Process |-> 0] /\ open = {} /\ made = {} /\ known = {}
  /\ pc = [s \in Session |-> "idle"]
  /\ mine = [s \in Session |-> None] /\ old = [s \in Session |-> None]
  /\ next = [s \in Session |-> 1]
  /\ fails = 0

At(s, l) == pc[s] = l
Goto(s, l) == pc' = [pc EXCEPT ![s] = l]
Rests(s) == s \in open /\ At(s, "idle")
Live(e) == eng[e].of \in alive

\* Some registry, or a call in progress, refers to the engine.
Referenced(e, b, m, o) ==
  \/ \E q \in Query : b[eng[e].of][q] = e
  \/ \E s \in Session : e \in {m[s], o[s]}

\* The engines C are closed, and with them those the step leaves without a
\* reference, which are gone; E and D are the engines and the directories
\* before that.  An engine knows its directory while it is
\* loaded.
Release(E, D, C) ==
  LET free == {e \in EngineId : Live(e) /\ ~Referenced(e, bound', mine', old')}
      shut == C \cup free
      left == D \ {e \in shut : eng[e].loaded}
      late == {s \in Session : mine'[s] \in shut /\ pc[s] = "launch"}
  IN /\ eng' = [e \in EngineId |->
                  IF e \in free \ (left \cup stray) THEN NoEngine
                  ELSE IF e \in shut THEN Closed(E[e]) ELSE E[e]]
     /\ dirs' = left
     /\ cut' = {s \in cut \cup late : mine'[s] # None}
     /\ hurt' = (hurt \cup {mine'[s] : s \in late}) \ (free \ (left \cup stray))

\* The call of s is done with its engines.
Drop(s) ==
  /\ mine' = [mine EXCEPT ![s] = None]
  /\ old' = [old EXCEPT ![s] = None]
  /\ next' = [next EXCEPT ![s] = 1]
---------------------------------------------------------------------------
(* Application processes and their handles.                                *)

\* connect().
StartProcess(p) ==
  /\ pid[p] = None
  /\ \E i \in Pid \ {pid[r] : r \in alive} : pid' = [pid EXCEPT ![p] = i]
  /\ alive' = alive \cup {p}
  /\ open' = open \cup {<<p, Main>>} /\ made' = made \cup {<<p, Main>>}
  /\ refs' = [refs EXCEPT ![p] = 1]
  /\ UNCHANGED <<bundled, tables, bound, known, pc, fails, engineVars, callVars>>

\* SIGKILL: what is in memory is gone, the db processes die with their
\* parent (PR_SET_PDEATHSIG), the directories stay.
Kill(p) ==
  /\ p \in alive
  /\ LET gone == {p} \X Handle IN
     /\ alive' = alive \ {p}
     /\ tables' = tables \ {p}
     /\ bound' = [bound EXCEPT ![p] = [q \in Query |-> None]]
     /\ refs' = [refs EXCEPT ![p] = 0]
     /\ open' = open \ gone /\ made' = made \ gone
     /\ known' = known \ gone /\ cut' = cut \ gone
     /\ pc' = [s \in Session |-> IF s \in gone THEN "idle" ELSE pc[s]]
     /\ mine' = [s \in Session |-> IF s \in gone THEN None ELSE mine[s]]
     /\ old' = [s \in Session |-> IF s \in gone THEN None ELSE old[s]]
     /\ next' = [s \in Session |-> IF s \in gone THEN 1 ELSE next[s]]
     /\ eng' = [e \in EngineId |-> IF eng[e].of # p THEN eng[e]
                                   ELSE IF e \in dirs THEN Closed(New(p, "shm")) ELSE NoEngine]
     /\ stray' = {e \in stray : eng[e].of # p}
     /\ hurt' = {e \in hurt : eng[e].of # p}
  /\ UNCHANGED <<bundled, pid, dirs, fails>>

LoadTables(p) ==
  /\ p \in alive \ tables
  /\ tables' = tables \cup {p}
  /\ UNCHANGED <<bound, known, pc, fails, engineVars, handleVars, callVars>>

\* cursor(): a handle of its own, with an empty _registered.
OpenCursor(s) ==
  /\ Cardinality({r \in made : r[2] # Main}) < MaxCursor
  /\ s \notin made /\ \E r \in open : Of(r) = Of(s)
  /\ open' = open \cup {s} /\ made' = made \cup {s}
  /\ refs' = [refs EXCEPT ![Of(s)] = @ + 1]
  /\ UNCHANGED <<bundled, alive, pid, tables, bound, known, pc, fails, engineVars, callVars>>

\* Bug: the connection's close() takes the engines along.
CloseByMain(s) ==
  /\ Rests(s)
  /\ open' = open \ {s}
  /\ refs' = [refs EXCEPT ![Of(s)] = @ - 1]
  /\ UNCHANGED <<bound, mine, old>>
  /\ Release(eng, dirs, IF s[2] = Main
                        THEN {bound[Of(s)][q] : q \in Query} \ {None} ELSE {})
  /\ UNCHANGED <<bundled, alive, pid, made, tables, known, pc, next, stray, fails>>

\* The last handle closes the engines of the registry, which keeps them.
CloseHandle(s) ==
  /\ Rests(s)
  /\ open' = open \ {s}
  /\ refs' = [refs EXCEPT ![Of(s)] = @ - 1]
  /\ UNCHANGED <<bound, mine, old>>
  /\ Release(eng, dirs, IF refs'[Of(s)] <= 0
                        THEN {bound[Of(s)][q] : q \in Query} \ {None} ELSE {})
  /\ UNCHANGED <<bundled, alive, pid, made, tables, known, pc, next, stray, fails>>
---------------------------------------------------------------------------
(* Discovery: _bind_engine and _promote_to_shm, run by execute before the  *)
(* query is routed.                                                        *)

\* The handle s has made an engine and goes on with it.
Make(s, plane, l) ==
  /\ \E e \in EngineId :
       /\ eng[e] = NoEngine
       /\ eng' = [eng EXCEPT ![e] = New(Of(s), plane)]
       /\ mine' = [mine EXCEPT ![s] = e]
  /\ Goto(s, l)
  /\ UNCHANGED <<bound, known, fails, next, dirs, stray, cut, hurt, handleVars>>

BindLive(s) ==
  /\ Rests(s) /\ s \notin known /\ Of(s) \in tables
  /\ Make(s, "shm", "stage")
  /\ UNCHANGED <<tables, old>>

\* The tables are absent: the snapshot is mounted as views.
BindSnapshot(s) ==
  /\ Rests(s) /\ s \notin known /\ Of(s) \notin tables /\ bundled
  /\ tables' = tables \cup {Of(s)}
  /\ Make(s, "parquet", "register")
  /\ UNCHANGED old

\* The first binding of the package is on the parquet plane.
Promote(s) ==
  LET current == bound[Of(s)][1] IN
  /\ Rests(s) /\ s \in known /\ Of(s) \in tables
  /\ current # None /\ eng[current].plane = "parquet"
  /\ old' = [old EXCEPT ![s] = current]
  /\ Make(s, "shm", "stage")
  /\ UNCHANGED tables

\* sweep_ingest_orphans: the owner is gone if no process has its pid, or
\* the one that has it started at another time.
OrphanByPid(d) == \A p \in alive : pid[p] # pid[eng[d].of]   \* bug: a pid used again
OrphanOfAny(d) == \E p \in alive : p # eng[d].of              \* bug: one other is enough
Orphan(d) == \A p \in alive : pid[p] = pid[eng[d].of] => p # eng[d].of

Kept == {d \in dirs : ~Orphan(d)}
Swept == [e \in EngineId |-> IF e \in dirs \ Kept /\ ~Live(e) THEN NoEngine ELSE eng[e]]
Fits == Cardinality(Kept) < Room

\* ingest: the orphans are swept, the budget admits it, mkdtemp.
Stage(s) ==
  /\ At(s, "stage") /\ Fits
  /\ dirs' = Kept \cup {mine[s]}
  /\ eng' = Swept
  /\ Goto(s, "write")
  /\ UNCHANGED <<tables, bound, known, fails, stray, cut, hurt, handleVars, callVars>>

\* EngineResourceError out of a first binding: an engine on the parquet
\* plane takes the place of the hot-load, which has left nothing.
Degrade(s) ==
  /\ At(s, "stage") /\ ~Fits /\ old[s] = None /\ bundled
  /\ dirs' = Kept
  /\ eng' = [Swept EXCEPT ![mine[s]].plane = "parquet"]
  /\ Goto(s, "register")
  /\ UNCHANGED <<tables, bound, known, fails, stray, cut, hurt, handleVars, callVars>>

\* There is no snapshot: the package is recorded and not tried again.
GiveUp(s) ==
  /\ At(s, "stage") /\ ~Fits /\ old[s] = None /\ ~bundled
  /\ known' = known \cup {s}
  /\ Goto(s, "idle")
  /\ Drop(s) /\ UNCHANGED bound
  /\ Release(Swept, Kept, {mine[s]})
  /\ UNCHANGED <<tables, fails, stray, handleVars>>

\* The ingest of a promotion is refused or its write fails: nothing catches
\* the error on the way out of execute.
PromotionRefused(s) ==
  /\ At(s, "stage") /\ ~Fits /\ old[s] # None
  /\ Goto(s, "raised")
  /\ Drop(s) /\ UNCHANGED bound
  /\ Release(Swept, Kept, {})
  /\ UNCHANGED <<tables, known, fails, stray, handleVars>>

\* The caller has the exception and the handle is free again.
Raised(s) ==
  /\ At(s, "raised")
  /\ Goto(s, "idle")
  /\ UNCHANGED <<tables, bound, known, fails, engineVars, handleVars, callVars>>

WriteSegments(s) ==
  /\ At(s, "write")
  /\ eng' = [eng EXCEPT ![mine[s]].loaded = TRUE]
  /\ Goto(s, "register")
  /\ UNCHANGED <<tables, bound, known, fails, dirs, stray, cut, hurt, handleVars, callVars>>

\* Bug: the partial directory is left.
WriteFailsPartial(s) ==
  /\ At(s, "write") /\ fails < MaxFail
  /\ fails' = fails + 1
  /\ Goto(s, IF old[s] = None THEN "idle" ELSE "raised")
  /\ Drop(s) /\ UNCHANGED bound
  /\ Release(eng, dirs, {})
  /\ UNCHANGED <<tables, known, stray, handleVars>>

\* The partial directory is removed; a first binding is tried again later.
WriteFails(s) ==
  /\ At(s, "write") /\ fails < MaxFail
  /\ fails' = fails + 1
  /\ Goto(s, IF old[s] = None THEN "idle" ELSE "raised")
  /\ Drop(s) /\ UNCHANGED bound
  /\ Release(eng, dirs \ {mine[s]}, {})
  /\ UNCHANGED <<tables, known, stray, handleVars>>

\* register_manifest: one query after the other is bound to the engine; an
\* engine without a reference left goes with the last binding it had.
Register(s) ==
  /\ At(s, "register") /\ next[s] < Queries
  /\ bound' = [bound EXCEPT ![Of(s)][next[s]] = mine[s]]
  /\ next' = [next EXCEPT ![s] = @ + 1]
  /\ UNCHANGED <<mine, old>>
  /\ Release(eng, dirs, {})
  /\ UNCHANGED <<tables, known, pc, fails, stray, handleVars>>

\* The last one of a first binding: the package is recorded.
Bound(s) ==
  /\ At(s, "register") /\ next[s] = Queries /\ old[s] = None
  /\ bound' = [bound EXCEPT ![Of(s)][Queries] = mine[s]]
  /\ known' = known \cup {s}
  /\ Goto(s, "idle")
  /\ Drop(s)
  /\ Release(eng, dirs, {})
  /\ UNCHANGED <<tables, fails, stray, handleVars>>

\* The last one of a promotion: the superseded engine is closed.
Promoted(s) ==
  /\ At(s, "register") /\ next[s] = Queries /\ old[s] # None
  /\ bound' = [bound EXCEPT ![Of(s)][Queries] = mine[s]]
  /\ Goto(s, "idle")
  /\ Drop(s)
  /\ Release(eng, dirs, {old[s]})
  /\ UNCHANGED <<tables, known, fails, stray, handleVars>>

\* A binding cannot be made: the engine is closed, whatever is bound to it.
\* A first binding is recorded or not, as the exception is a SynnoError.
RegisterFails(s) ==
  /\ At(s, "register") /\ fails < MaxFail
  /\ fails' = fails + 1
  /\ known' \in {known, known \cup {s}}
  /\ Goto(s, "idle")
  /\ Drop(s) /\ UNCHANGED bound
  /\ Release(eng, dirs, {mine[s]})
  /\ UNCHANGED <<tables, stray, handleVars>>
---------------------------------------------------------------------------
(* Queries, and the loading of data ahead of them.                         *)

\* route matches a query and engine_ready_guard finds its engine healthy.
Match(s) ==
  /\ Rests(s)
  /\ \E q \in Query : LET e == bound[Of(s)][q] IN
       /\ e # None /\ Healthy(eng[e])
       /\ mine' = [mine EXCEPT ![s] = e]
  /\ Goto(s, "matched")
  /\ UNCHANGED <<tables, bound, known, fails, old, next, engineVars, handleVars>>

\* synno_ingest_data asks every bound engine, without its health.
Warm(s) ==
  /\ Rests(s)
  /\ \E q \in Query : LET e == bound[Of(s)][q] IN
       /\ e # None /\ ~Healthy(eng[e])
       /\ mine' = [mine EXCEPT ![s] = e]
  /\ Goto(s, "matched")
  /\ UNCHANGED <<tables, bound, known, fails, old, next, engineVars, handleVars>>

\* ShmHotLoadEngine.run and load_data: no data is staged, or no longer.
NotLoaded(s) ==
  /\ At(s, "matched") /\ eng[mine[s]].plane = "shm" /\ ~eng[mine[s]].loaded
  /\ Goto(s, "idle")
  /\ Drop(s) /\ UNCHANGED bound
  /\ Release(eng, dirs, {})
  /\ UNCHANGED <<tables, known, fails, stray, handleVars>>

\* _runner(), which does not ask whether the engine is closed.
GetRunner(s) ==
  /\ At(s, "matched") /\ (eng[mine[s]].plane = "shm" => eng[mine[s]].loaded)
  /\ Goto(s, "launch")
  /\ UNCHANGED <<tables, bound, known, fails, engineVars, handleVars, callVars>>

\* The result directory is made if it is missing, which for the hot-load is
\* the ingest directory, and HotpatchProc starts the child.  If a close()
\* has dropped the runner meanwhile, the child is nobody's.
Launch(s) ==
  /\ At(s, "launch")
  /\ dirs' = dirs \cup (IF eng[mine[s]].plane = "shm" THEN {mine[s]} ELSE {})
  /\ IF s \in cut
     THEN stray' = stray \cup {mine[s]} /\ UNCHANGED eng
     ELSE eng' = [eng EXCEPT ![mine[s]].up = TRUE] /\ UNCHANGED stray
  /\ Goto(s, "running")
  /\ UNCHANGED <<tables, bound, known, fails, cut, hurt, handleVars, callVars>>

\* The run returns or raises, and the reference to the engine is gone.
Return(s) ==
  /\ At(s, "running")
  /\ Goto(s, "idle")
  /\ Drop(s) /\ UNCHANGED bound
  /\ Release(eng, dirs, {})
  /\ UNCHANGED <<tables, known, fails, stray, handleVars>>

HandleStep(s) ==
  \/ OpenCursor(s) \/ CloseHandle(s)
  \/ BindLive(s) \/ BindSnapshot(s) \/ Promote(s)
  \/ Stage(s) \/ Degrade(s) \/ GiveUp(s) \/ PromotionRefused(s) \/ Raised(s)
  \/ WriteSegments(s) \/ WriteFails(s)
  \/ Register(s) \/ Bound(s) \/ Promoted(s) \/ RegisterFails(s)
  \/ Match(s) \/ Warm(s) \/ NotLoaded(s) \/ GetRunner(s) \/ Launch(s) \/ Return(s)

Next ==
  \/ \E p \in Process : StartProcess(p) \/ Kill(p) \/ LoadTables(p)
  \/ \E s \in Session : HandleStep(s)

Spec == Init /\ [][Next]_vars
---------------------------------------------------------------------------
(* Properties.                                                             *)

(* Types: what a handle holds is an engine of its own process, and the     *)
(* shared count is the number of open handles.                             *)
TypeOK ==
  /\ bundled \in BOOLEAN
  /\ alive \subseteq Process /\ pid \in [Process -> Pid \cup {None}]
  /\ tables \subseteq alive
  /\ eng \in [EngineId -> Engine]
  /\ \A e \in dirs \cup stray \cup hurt : e \in EngineId /\ eng[e].of \in Process
  /\ bound \in [Process -> [Query -> EngineId \cup {None}]]
  /\ open \subseteq made /\ made \subseteq Session /\ known \subseteq made
  /\ cut \subseteq Session
  /\ refs = [p \in Process |-> Cardinality({s \in open : Of(s) = p})]
  /\ pc \in [Session -> {"idle", "stage", "write", "register", "raised", "matched",
                         "launch", "running"}]
  /\ next \in [Session -> Query]
  /\ mine \in [Session -> EngineId \cup {None}] /\ old \in [Session -> EngineId \cup {None}]
  /\ \A s \in Session : \A e \in {mine[s], old[s]} \ {None} :
        eng[e].of = Of(s) /\ Live(e)
  /\ fails \in 0..MaxFail

(* A hot-load that says it is healthy has its segments: no sweep of any    *)
(* process, no failed write and no close of another engine takes them.     *)
HealthyHasSegments ==
  \A e \in EngineId :
     Live(e) /\ Healthy(eng[e]) /\ eng[e].plane = "shm" => e \in dirs

\* Some query of a live process can still come to run on the engine.
InUse(e) ==
  \/ refs[eng[e].of] > 0 /\ \E q \in Query : bound[eng[e].of][q] = e
  \/ \E s \in Session : e \in {mine[s], old[s]}

(* No engine is lost with its process or its segments: those of a live     *)
(* application belong to an engine in use, whatever was re-discovered,     *)
(* promoted, refused or abandoned.  Left out is an engine closed between   *)
(* another handle's _runner() and its run.                                 *)
NothingLeaks ==
  \A e \in EngineId :
     /\ Live(e) /\ e \notin hurt
     /\ e \in dirs \/ e \in stray \/ eng[e].up
     => InUse(e)

(* connection.py: closing a handle never tears down engines that another   *)
(* handle still uses.                                                      *)
EnginesOutliveHandles ==
  [][\A s \in open \ open' :
        (Of(s) \in alive' /\ \E r \in open' : Of(r) = Of(s))
        => \A e \in EngineId : eng[e].of = Of(s) => eng'[e] = eng[e]]_vars

(* A hot-load is refused only for the sake of processes that run: what a   *)
(* killed one left never takes up the budget, though its pid be used again. *)
RefusedByTheLiving ==
  [][\A s \in Session : At(s, "stage") /\ pc'[s] \notin {"stage", "write"} /\ Of(s) \in alive'
        => \A d \in dirs' : Live(d)']_vars

(* discovery.py: a query never crashes over discovery.                     *)
QueriesSurviveDiscovery == \A s \in Session : ~At(s, "raised")
===========================================================================
