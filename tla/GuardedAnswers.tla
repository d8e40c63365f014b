--------------------------- MODULE GuardedAnswers ---------------------------
(***************************************************************************)
(* What a caller is promised whose queries may be answered by a generated  *)
(* engine (router/router.py): every query is answered once, by DuckDB or   *)
(* by an engine that was trusted when the query came; a result that was    *)
(* compared is the engine's own only if it was right; trust is withdrawn   *)
(* at a difference, or after Threshold failures and not before, for good.  *)
(* How results are compared, by whom, and who counts, is no part of this.  *)
(***************************************************************************)
EXTENDS Naturals

CONSTANTS Sessions, Threshold

VARIABLES
  asking,    \* the sessions whose query the engine may answer
  answer,    \* the last answer each session got
  trusted,   \* new queries may go to the engine
  failures   \* of the engine, ever

vars == <<asking, answer, trusted, failures>>

Init ==
  /\ asking = {} /\ trusted = TRUE /\ failures = 0
  /\ \A c \in Sessions : answer[c].by = "none"

Ask(c) ==
  /\ c \notin asking /\ trusted
  /\ asking' = asking \cup {c}
  /\ UNCHANGED <<answer, trusted, failures>>

\* Of the engine's own results one that was compared is right.
Sound(a) == a.checked => a.result = "right"

Answered(c, a) ==
  /\ answer' = [answer EXCEPT ![c] = a]
  /\ asking' = asking \ {c}

FromDuckDB(c) ==
  \E checked \in BOOLEAN :
    Answered(c, [by |-> "duckdb", result |-> "right", checked |-> checked])

\* The engine answers what it was asked.
Engine(c) ==
  /\ c \in asking
  /\ \E result \in {"right", "wrong"}, checked \in BOOLEAN :
       LET a == [by |-> "engine", result |-> result, checked |-> checked] IN
       Sound(a) /\ Answered(c, a)
  /\ UNCHANGED <<trusted, failures>>

\* DuckDB answers: nothing was asked of the engine, or it is not used.
Fallback(c) == FromDuckDB(c) /\ UNCHANGED <<trusted, failures>>

\* The engine's result was compared, and differs.
Diverge(c) ==
  /\ c \in asking /\ FromDuckDB(c)
  /\ trusted' = FALSE
  /\ UNCHANGED failures

\* The engine has failed, or its result could not be compared.
Fail(c) ==
  /\ c \in asking /\ FromDuckDB(c)
  /\ failures' = failures + 1
  /\ \/ UNCHANGED trusted
     \/ trusted' = FALSE /\ failures' >= Threshold

Next == \E c \in Sessions : Ask(c) \/ Engine(c) \/ Fallback(c) \/ Diverge(c) \/ Fail(c)

Spec == Init /\ [][Next]_vars
=============================================================================
