---------------------------- MODULE PinnedPages ----------------------------
(***************************************************************************)
(* What the page buffer pool promises to the threads of a query            *)
(* (ssd/buffer_pool.hpp): a page that is pinned is read as what it is      *)
(* until it is unpinned, whatever the others pin, and unpinning it is      *)
(* never refused; a pin is refused only if N other pages are in use, or    *)
(* its read fails.  There are no frames here, no map and no clock.         *)
(***************************************************************************)
EXTENDS FiniteSets

CONSTANTS Threads, Pages, N, None

VARIABLES
  views,    \* the pages a thread has pinned, with what it reads there
  asks,     \* the page it is pinning, or None
  over,     \* the threads that have thrown
  left,     \* the pages whose pins they left behind
  broken    \* a read has failed that others waited for: nothing is promised

vars == <<views, asks, over, left, broken>>

Init ==
  /\ views = [t \in Threads |-> {}]
  /\ asks = [t \in Threads |-> None]
  /\ over = {} /\ left = {}
  /\ broken = FALSE

Held(t) == {v[1] : v \in views[t]}

\* The pages that may not leave the pool.
Busy == left \cup UNION {Held(t) \cup ({asks[t]} \ {None}) : t \in Threads}

Free(t, p) == t \notin over /\ asks[t] = None /\ p \notin Held(t)

\* What thread t gets is page p, and it reads page p there.
Shown(t, p) == views' = [views EXCEPT ![t] = @ \cup {<<p, p>>}]

\* The page has to be read, or is being read by another thread.
Ask(t, p) ==
  /\ Free(t, p)
  /\ asks' = [asks EXCEPT ![t] = p]
  /\ UNCHANGED <<views, over, left, broken>>

Get(t) ==
  /\ asks[t] # None
  /\ Shown(t, asks[t])
  /\ asks' = [asks EXCEPT ![t] = None]
  /\ UNCHANGED <<over, left, broken>>

PinAtOnce(t, p) ==
  /\ Free(t, p)
  /\ Shown(t, p)
  /\ UNCHANGED <<asks, over, left, broken>>

Unpin(t) ==
  /\ t \notin over /\ asks[t] = None
  /\ \E v \in views[t] : views' = [views EXCEPT ![t] = @ \ {v}]
  /\ UNCHANGED <<asks, over, left, broken>>

Throws(t) ==
  /\ over' = over \cup {t}
  /\ left' = left \cup Held(t)
  /\ views' = [views EXCEPT ![t] = {}]
  /\ asks' = [asks EXCEPT ![t] = None]

Refuse(t, p) ==
  /\ Free(t, p)
  /\ \E S \in SUBSET (Busy \ {p}) : Cardinality(S) = N
  /\ Throws(t)
  /\ UNCHANGED broken

ReadFails(t) ==
  /\ asks[t] # None
  /\ Throws(t)
  /\ broken' = \E u \in Threads \ {t} : asks[u] = asks[t]

AtRest == \A t \in Threads : t \in over \/ (views[t] = {} /\ asks[t] = None)

NextQuery ==
  /\ AtRest
  /\ over' = {}
  /\ UNCHANGED <<views, asks, left, broken>>

Clear ==
  /\ AtRest
  /\ over' = {} /\ left' = {} /\ broken' = FALSE
  /\ UNCHANGED <<views, asks>>

Kept ==
  \/ \E t \in Threads : Get(t) \/ Unpin(t) \/ ReadFails(t)
  \/ \E t \in Threads, p \in Pages : Ask(t, p) \/ PinAtOnce(t, p) \/ Refuse(t, p)
  \/ NextQuery

\* While the promise is off, only a clear brings it back.
Next == (~broken /\ Kept) \/ (broken /\ broken') \/ Clear

Spec == Init /\ [][Next]_vars
============================================================================
