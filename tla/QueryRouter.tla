---------------------------- MODULE QueryRouter ----------------------------
(***************************************************************************)
(* SynnoRouter (router/router.py) and TemplateRegistry (router/registry.py)*)
(* as the connections and cursors that share them see them: SynnoConnection*)
(* .cursor passes its router on, so several threads run execute, and with  *)
(* it discovery and route, over the same counters and the same bindings.   *)
(* There is one template; its template_id is engine_id::query_id, so every *)
(* engine instance bound to it (a re-discovery by a cursor, a promotion to *)
(* the shm plane) has the same one.                                        *)
(*                                                                         *)
(* mode is SAMPLED and 0 < cross_check_rate < 1: a check past the burn-in  *)
(* is a free choice.  An engine result is "right" when results_equal would *)
(* find it equal to DuckDB's.                                              *)
(***************************************************************************)
EXTENDS Integers, FiniteSets

CONSTANTS
  Sessions,     \* the connection and its cursors, one thread each
  VerifyFirst,  \* policy.verify_first_n
  Threshold,    \* policy.breaker_threshold
  MaxQuery,     \* bound: queries that match the template
  MaxBind,      \* bound: engine instances bound to it
  MaxRefError,  \* bound: reference executions that fail
  MaxCmpError   \* bound: comparisons that raise

ASSUME RouterAssumption ==
  /\ VerifyFirst \in Nat
  /\ Threshold \in Nat \ {0}
  /\ {MaxQuery, MaxBind, MaxRefError, MaxCmpError} \subseteq Nat

VARIABLES
  bound,        \* the instance in _by_norm, 0 if there is none
  plane,        \* its data plane
  closed,       \* instances close() was called on
  known,        \* sessions with the package in _registered
  quarantined,  \* template_id in _quarantined
  failures,     \* _failures[template_id]
  execs,        \* _exec_counts[template_id]
  pc,           \* where each session is
  held,         \* the instance each session matched, or is about to close
  result,       \* what the engine returned to it
  seen,         \* a counter it has read and not yet written back
  checked,      \* whether it tried to check the result
  answer,       \* the last answer it gave its caller
  used,         \* bounds: [query, ref, cmp]
  hist          \* history, see HistInit

registryVars == <<bound, plane, closed, known>>
sharedVars   == <<quarantined, failures, execs>>
localVars    == <<held, result, seen, checked>>
vars == <<registryVars, sharedVars, pc, localVars, answer, used, hist>>

Steps == {"idle", "promoting", "closing", "guard", "run", "count", "store", "sample", "check",
          "fail", "trip", "serve"}
NoAnswer == [by |-> "none", result |-> "none", checked |-> FALSE]
Fallback == [by |-> "duckdb", result |-> "right", checked |-> FALSE]
Reference == [by |-> "duckdb", result |-> "right", checked |-> TRUE]

\* attempts: executions followed by a check; proven: those found equal;
\* recorded and streak: failures recorded, ever and since the last success;
\* diverged: whether a check found a difference; cut: the sessions inside
\* route when the quarantine began; late: engine answers since then.
HistInit == [attempts |-> 0, proven |-> 0, recorded |-> 0, streak |-> 0,
             diverged |-> FALSE, cut |-> {}, late |-> [c \in Sessions |-> 0]]

Init ==
  /\ bound = 0 /\ plane = "none" /\ closed = {} /\ known = {}
  /\ quarantined = FALSE /\ failures = 0 /\ execs = 0
  /\ pc = [c \in Sessions |-> "idle"]
  /\ held = [c \in Sessions |-> 0]
  /\ result = [c \in Sessions |-> "none"]
  /\ seen = [c \in Sessions |-> 0]
  /\ checked = [c \in Sessions |-> FALSE]
  /\ answer = [c \in Sessions |-> NoAnswer]
  /\ used = [query |-> 0, ref |-> 0, cmp |-> 0]
  /\ hist = HistInit

At(c, p) == pc[c] = p
Goto(c, p) == pc' = [pc EXCEPT ![c] = p]
Answer(c, a) == answer' = [answer EXCEPT ![c] = a] /\ Goto(c, "idle")

\* The sessions that hold a binding and may still serve from it.
Outside == {"idle", "promoting", "closing"}
Inside == {c \in Sessions : pc[c] \notin Outside}

\* TemplateRegistry.quarantine, and the history of its first call.
Quarantine(c, h) ==
  /\ quarantined' = TRUE
  /\ hist' = IF quarantined THEN h ELSE [h EXCEPT !.cut = Inside \ {c}]

BurnInShort == execs < VerifyFirst   \* bug variant of BurnIn: off by one

\* _should_cross_check's burn-in: the count was raised before it is asked.
BurnIn == execs <= VerifyFirst
---------------------------------------------------------------------------
(* Bug variants of the steps, for the properties to catch.                 *)

CloseUnpromoted(c) ==       \* PromotionFails: the wrong instance is dropped
  /\ At(c, "promoting")
  /\ closed' = closed \cup {held[c]}
  /\ Goto(c, "idle")
  /\ UNCHANGED <<bound, plane, known, sharedVars, localVars, answer, used, hist>>

MatchQuarantined(c) ==      \* Match: the quarantine is not looked up
  /\ At(c, "idle") /\ used.query < MaxQuery /\ bound # 0
  /\ used' = [used EXCEPT !.query = @ + 1]
  /\ held' = [held EXCEPT ![c] = bound]
  /\ checked' = [checked EXCEPT ![c] = FALSE]
  /\ Goto(c, "guard")
  /\ UNCHANGED <<registryVars, sharedVars, result, seen, answer, hist>>

ServeUncompared(c) ==       \* CompareRaises: fail open
  /\ At(c, "check") /\ used.cmp < MaxCmpError
  /\ used' = [used EXCEPT !.cmp = @ + 1]
  /\ hist' = [hist EXCEPT !.attempts = @ + 1]
  /\ Goto(c, "serve")
  /\ UNCHANGED <<registryVars, sharedVars, localVars, answer>>

TripEarly(c) ==             \* TripBreaker: the threshold is off by one
  /\ At(c, "trip")
  /\ failures' = seen[c]
  /\ LET h == [hist EXCEPT !.recorded = @ + 1, !.streak = @ + 1] IN
     IF seen[c] + 1 >= Threshold THEN Quarantine(c, h)
                                 ELSE hist' = h /\ UNCHANGED quarantined
  /\ Answer(c, IF result[c] = "fault" THEN Fallback ELSE Reference)
  /\ UNCHANGED <<registryVars, execs, localVars, used>>

ServeKeepsFailures(c) ==    \* ServeEngine: _record_success is missing
  /\ At(c, "serve")
  /\ Answer(c, [by |-> "engine", result |-> result[c], checked |-> checked[c]])
  /\ hist' = [hist EXCEPT !.streak = 0, !.late[c] = @ + (IF quarantined THEN 1 ELSE 0)]
  /\ UNCHANGED <<registryVars, sharedVars, localVars, used>>
---------------------------------------------------------------------------
(* Discovery, run by execute before route.                                 *)

\* The package is new to this connection (a cursor starts with an empty
\* _registered): bind an instance of its own, replacing whatever is bound.
\* Nobody closes the one it replaces; it goes when its last query does.
Discover(c) ==
  /\ At(c, "idle") /\ c \notin known /\ bound < MaxBind
  /\ bound' = bound + 1
  /\ plane' \in {"parquet", "shm"}
  /\ known' = known \cup {c}
  /\ UNCHANGED <<closed, sharedVars, pc, localVars, answer, used, hist>>

\* _promote_to_shm: look up the current instance and ingest into a new one,
\* which takes a while; register it; close the old one.
BeginPromotion(c) ==
  /\ At(c, "idle") /\ c \in known /\ plane = "parquet"
  /\ held' = [held EXCEPT ![c] = bound]
  /\ Goto(c, "promoting")
  /\ UNCHANGED <<registryVars, sharedVars, result, seen, checked, answer, used, hist>>

Promote(c) ==
  /\ At(c, "promoting") /\ bound < MaxBind
  /\ bound' = bound + 1
  /\ plane' = "shm"
  /\ Goto(c, "closing")
  /\ UNCHANGED <<closed, known, sharedVars, localVars, answer, used, hist>>

\* The ingest or register_manifest raised: the new instance is dropped.
PromotionFails(c) ==
  /\ At(c, "promoting")
  /\ Goto(c, "idle")
  /\ UNCHANGED <<registryVars, sharedVars, localVars, answer, used, hist>>

CloseSuperseded(c) ==
  /\ At(c, "closing")
  /\ closed' = closed \cup {held[c]}
  /\ Goto(c, "idle")
  /\ UNCHANGED <<bound, plane, known, sharedVars, localVars, answer, used, hist>>
---------------------------------------------------------------------------
(* SynnoRouter.route.                                                      *)

\* registry.match: bound and not quarantined, or DuckDB.
Match(c) ==
  /\ At(c, "idle") /\ used.query < MaxQuery
  /\ used' = [used EXCEPT !.query = @ + 1]
  /\ IF bound # 0 /\ ~quarantined
     THEN /\ held' = [held EXCEPT ![c] = bound]
          /\ checked' = [checked EXCEPT ![c] = FALSE]
          /\ Goto(c, "guard")
          /\ UNCHANGED answer
     ELSE Answer(c, Fallback) /\ UNCHANGED <<held, checked>>
  /\ UNCHANGED <<registryVars, sharedVars, result, seen, hist>>

\* The guards and the binding of the placeholders; engine_ready_guard asks
\* the instance's health, which a closed instance has not got.
GuardsPass(c) ==
  /\ At(c, "guard") /\ held[c] \notin closed
  /\ Goto(c, "run")
  /\ UNCHANGED <<registryVars, sharedVars, localVars, answer, used, hist>>

GuardsRefuse(c) ==
  /\ At(c, "guard")
  /\ Answer(c, Fallback)
  /\ UNCHANGED <<registryVars, sharedVars, localVars, used, hist>>

\* engine.run returns a table or raises.
RunEngine(c) ==
  /\ At(c, "run")
  /\ \E r \in {"right", "wrong", "fault"} :
        /\ result' = [result EXCEPT ![c] = r]
        /\ Goto(c, IF r = "fault" THEN "fail" ELSE "count")
  /\ UNCHANGED <<registryVars, sharedVars, held, seen, checked, answer, used, hist>>

\* _exec_counts is read and written back without a lock.
ReadExecs(c) ==
  /\ At(c, "count")
  /\ seen' = [seen EXCEPT ![c] = execs + 1]
  /\ Goto(c, "store")
  /\ UNCHANGED <<registryVars, sharedVars, held, result, checked, answer, used, hist>>

StoreExecs(c) ==
  /\ At(c, "store")
  /\ execs' = seen[c]
  /\ Goto(c, "sample")
  /\ UNCHANGED <<registryVars, quarantined, failures, localVars, answer, used, hist>>

\* _should_cross_check reads the count again.
CrossCheck(c) ==
  /\ At(c, "sample")
  /\ checked' = [checked EXCEPT ![c] = TRUE]
  /\ Goto(c, "check")
  /\ UNCHANGED <<registryVars, sharedVars, held, result, seen, answer, used, hist>>

SkipCheck(c) ==
  /\ At(c, "sample") /\ ~BurnIn
  /\ Goto(c, "serve")
  /\ UNCHANGED <<registryVars, sharedVars, localVars, answer, used, hist>>

\* DuckDB fails on the query: fall back and let the caller meet the error.
ReferenceFails(c) ==
  /\ At(c, "check") /\ used.ref < MaxRefError
  /\ used' = [used EXCEPT !.ref = @ + 1]
  /\ hist' = [hist EXCEPT !.attempts = @ + 1]
  /\ Answer(c, Fallback)
  /\ UNCHANGED <<registryVars, sharedVars, localVars>>

\* results_equal raises: a failure of the engine, and the reference is served.
CompareRaises(c) ==
  /\ At(c, "check") /\ used.cmp < MaxCmpError
  /\ used' = [used EXCEPT !.cmp = @ + 1]
  /\ hist' = [hist EXCEPT !.attempts = @ + 1]
  /\ Goto(c, "fail")
  /\ UNCHANGED <<registryVars, sharedVars, localVars, answer>>

Verified(c) ==
  /\ At(c, "check") /\ result[c] = "right"
  /\ hist' = [hist EXCEPT !.attempts = @ + 1, !.proven = @ + 1]
  /\ Goto(c, "serve")
  /\ UNCHANGED <<registryVars, sharedVars, localVars, answer, used>>

Diverged(c) ==
  /\ At(c, "check") /\ result[c] = "wrong"
  /\ Quarantine(c, [hist EXCEPT !.attempts = @ + 1, !.diverged = TRUE])
  /\ Answer(c, Reference)
  /\ UNCHANGED <<registryVars, failures, execs, localVars, used>>

\* _record_failure: read, write back and trip the breaker.  A session that
\* matches between the last two could as well have matched before them.
ReadFailures(c) ==
  /\ At(c, "fail")
  /\ seen' = [seen EXCEPT ![c] = failures + 1]
  /\ Goto(c, "trip")
  /\ UNCHANGED <<registryVars, sharedVars, held, result, checked, answer, used, hist>>

TripBreaker(c) ==
  /\ At(c, "trip")
  /\ failures' = seen[c]
  /\ LET h == [hist EXCEPT !.recorded = @ + 1, !.streak = @ + 1] IN
     IF seen[c] >= Threshold THEN Quarantine(c, h)
                             ELSE hist' = h /\ UNCHANGED quarantined
  /\ Answer(c, IF result[c] = "fault" THEN Fallback ELSE Reference)
  /\ UNCHANGED <<registryVars, execs, localVars, used>>

\* _record_success, and the engine's result goes to the caller.
ServeEngine(c) ==
  /\ At(c, "serve")
  /\ failures' = 0
  /\ Answer(c, [by |-> "engine", result |-> result[c], checked |-> checked[c]])
  /\ hist' = [hist EXCEPT !.streak = 0, !.late[c] = @ + (IF quarantined THEN 1 ELSE 0)]
  /\ UNCHANGED <<registryVars, quarantined, execs, localVars, used>>

SessionStep(c) ==
  \/ Discover(c) \/ BeginPromotion(c) \/ Promote(c) \/ PromotionFails(c)
  \/ CloseSuperseded(c)
  \/ Match(c) \/ GuardsPass(c) \/ GuardsRefuse(c) \/ RunEngine(c)
  \/ ReadExecs(c) \/ StoreExecs(c) \/ CrossCheck(c) \/ SkipCheck(c)
  \/ ReferenceFails(c) \/ CompareRaises(c) \/ Verified(c) \/ Diverged(c)
  \/ ReadFailures(c) \/ TripBreaker(c) \/ ServeEngine(c)

\* Every session is between two calls.
Resting == (\A c \in Sessions : At(c, "idle")) /\ UNCHANGED vars

Next == (\E c \in Sessions : SessionStep(c)) \/ Resting

Spec == Init /\ [][Next]_vars
---------------------------------------------------------------------------
(* Properties.                                                             *)

Answers == [by : {"none", "engine", "duckdb"}, result : {"none", "right", "wrong"},
            checked : BOOLEAN]

Histories == [attempts : Nat, proven : Nat, recorded : Nat, streak : Nat,
              diverged : BOOLEAN, cut : SUBSET Sessions, late : [Sessions -> Nat]]

(* Types: counters stay natural numbers, and an answer to a caller is      *)
(* never an engine fault.                                                  *)
TypeOK ==
  /\ bound \in 0..MaxBind /\ plane \in {"none", "parquet", "shm"}
  /\ closed \subseteq 1..MaxBind /\ known \subseteq Sessions
  /\ quarantined \in BOOLEAN /\ failures \in Nat /\ execs \in Nat
  /\ pc \in [Sessions -> Steps]
  /\ held \in [Sessions -> 0..MaxBind]
  /\ result \in [Sessions -> {"none", "right", "wrong", "fault"}]
  /\ seen \in [Sessions -> Nat]
  /\ checked \in [Sessions -> BOOLEAN]
  /\ answer \in [Sessions -> Answers]
  /\ used \in [query : 0..MaxQuery, ref : 0..MaxRefError, cmp : 0..MaxCmpError]
  /\ hist \in Histories

(* Fail closed: once route has tried to check a result, the engine's own   *)
(* result is served only if it was found equal to DuckDB's.                *)
FailClosed ==
  \A c \in Sessions :
     answer[c].by = "engine" /\ answer[c].checked => answer[c].result = "right"

(* Quarantine takes effect at once for every query that comes later: after *)
(* it each session serves at most the one engine answer it was already     *)
(* inside route for.  Re-registration does not bring the template back.    *)
LateServesBounded ==
  \A c \in Sessions : hist.late[c] <= IF c \in hist.cut THEN 1 ELSE 0

(* The engine queries are matched to is never one that was closed: racing  *)
(* promotions and re-discoveries close only what they have replaced.       *)
BoundIsOpen == bound \notin closed

(* The breaker never opens on fewer failures than its threshold, however   *)
(* the unlocked counters of several sessions interleave.                   *)
BreakerNeedsFailures ==
  quarantined => hist.diverged \/ hist.recorded >= Threshold

\* No session but one has ever been inside route.
Alone ==
  \E c \in Sessions : \A d \in Sessions \ {c} : answer[d] = NoAnswer /\ pc[d] \in Outside

(* A session alone, others discovering and promoting beside it, opens the  *)
(* breaker exactly at Threshold failures in a row, and at a divergence.    *)
BreakerExact ==
  Alone => (quarantined <=> hist.diverged \/ hist.streak >= Threshold)

(* For a session alone the first VerifyFirst results of a template are     *)
(* each followed by a check: an unchecked answer of the engine comes later.*)
BurnInChecked ==
  Alone => \A c \in Sessions :
     answer[c].by = "engine" /\ ~answer[c].checked => hist.attempts >= VerifyFirst

(* policy.py: an engine serves no unverified result before it has proven   *)
(* itself on the first verify_first_n executions.                          *)
ProvenFirst ==
  \A c \in Sessions :
     answer[c].by = "engine" /\ ~answer[c].checked => hist.proven >= VerifyFirst

(* The refinement mapping to what a caller is promised: a session asks     *)
(* while it is inside route, and the failures are those recorded, whatever *)
(* became of the counter.                                                  *)
Guarded == INSTANCE GuardedAnswers WITH
  asking   <- Inside,
  trusted  <- ~quarantined,
  failures <- hist.recorded

(* Every query is answered once, by DuckDB or by an engine that was not    *)
(* quarantined when the query came, with a result that was found equal if  *)
(* it was compared; the quarantine begins at a divergence, or not before   *)
(* Threshold failures, and ends never: whichever sessions count, trip,     *)
(* discover and promote meanwhile.                                         *)
AnswersGuarded == Guarded!Spec
===========================================================================
