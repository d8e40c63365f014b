----------------------------- MODULE BufferPool -----------------------------
(***************************************************************************)
(* The page buffer pool of a generated SSD engine (ssd/buffer_pool.hpp)    *)
(* under the threads of a query that pin and unpin pages through their     *)
(* column handles.  Everything under mu_ is one step; the read of a page   *)
(* happens outside it.  A page is one of a column, of any column.          *)
(*                                                                         *)
(* A pin has no owner that could release it: a thread that throws leaves   *)
(* its pins behind, query() goes on with the next query, and only a clear, *)
(* if the engine drops its caches between queries, takes them back.        *)
(***************************************************************************)
EXTENDS Integers, FiniteSets

CONSTANTS
  Threads,   \* tids of the query's threads
  Pages,
  N,         \* number of frames
  MaxHold,   \* bound: pages a thread keeps pinned at once
  MaxQuery   \* bound: queries between two clears

ASSUME BufferAssumption ==
  /\ IsFiniteSet(Threads) /\ IsFiniteSet(Pages)
  /\ N \in Nat \ {0}
  /\ Pages \cap Int = {}
  /\ {MaxHold, MaxQuery} \subseteq Nat \ {0}

Frames == 0..(N - 1)
None == -1

VARIABLES
  frame,    \* frames_: [page, pins, bit, loading]; page is None if it has none
  buffer,   \* the page whose bytes are in each frame's data, None if torn
  pageMap,  \* page_map_: the frame of each page, or None
  hand,     \* clock_hand_
  pc,       \* what each thread is doing
  want,     \* the page it is pinning
  at,       \* the frame it waits for or reads into
  holds,    \* its pins: pages with the frame whose data it was given
  leaked,   \* history: pins of each frame whose thread has thrown
  spoiled,  \* history: a read failed while others waited for its page
  queries   \* bound: queries since the last clear

poolVars == <<frame, buffer, pageMap, hand>>
threadVars == <<pc, want, at, holds>>
vars == <<poolVars, threadVars, leaked, spoiled, queries>>

Empty == [page |-> None, pins |-> 0, bit |-> FALSE, loading |-> FALSE]

Init ==
  /\ frame = [f \in Frames |-> Empty]
  /\ buffer = [f \in Frames |-> None]
  /\ pageMap = [p \in Pages |-> None]
  /\ hand = 0
  /\ pc = [t \in Threads |-> "run"]
  /\ want = [t \in Threads |-> None]
  /\ at = [t \in Threads |-> None]
  /\ holds = [t \in Threads |-> {}]
  /\ leaked = [f \in Frames |-> 0]
  /\ spoiled = FALSE
  /\ queries = 1

Goto(t, p) == pc' = [pc EXCEPT ![t] = p]
Pinned(f) == frame[f].pins > 0

\* pin_page gives thread t its pointer.
Given(t, p, f) == holds' = [holds EXCEPT ![t] = @ \cup {<<p, f>>}]

\* Thread t leaves its callable by an exception, and its pins behind.
Unwinds(t) ==
  /\ Goto(t, "over")
  /\ holds' = [holds EXCEPT ![t] = {}]
  /\ leaked' = [f \in Frames |-> leaked[f] + Cardinality({h \in holds[t] : h[2] = f})]
---------------------------------------------------------------------------
(* evict_locked.                                                           *)

\* One turn of the loop, unless a victim was found: a cold unpinned frame is
\* the victim, a warm one loses its bit, and the hand moves on.
Try(s) ==
  IF s.victim # None THEN s
  ELSE [victim |-> IF ~Pinned(s.hand) /\ ~s.bit[s.hand] THEN s.hand ELSE None,
        bit    |-> IF Pinned(s.hand) THEN s.bit ELSE [s.bit EXCEPT ![s.hand] = FALSE],
        hand   |-> (s.hand + 1) % N]

\* The loop after k turns.
Turns[k \in 0..(2 * N)] ==
  IF k = 0
  THEN [victim |-> None, hand |-> hand, bit |-> [f \in Frames |-> frame[f].bit]]
  ELSE Try(Turns[k - 1])

SweepOnce == Turns[N]     \* bug variant of Sweep

Sweep == Turns[2 * N]
---------------------------------------------------------------------------
(* Bug variants of the steps below, for the properties to catch.           *)

HitAtOnce(t, p) ==          \* Hit: nobody waits for the read
  /\ pc[t] = "run" /\ Cardinality(holds[t]) < MaxHold
  /\ pageMap[p] # None
  /\ frame' = [frame EXCEPT ![pageMap[p]].pins = @ + 1, ![pageMap[p]].bit = TRUE]
  /\ Given(t, p, pageMap[p])
  /\ UNCHANGED <<buffer, pageMap, hand, pc, want, at, leaked, spoiled, queries>>

MissKeepsKey(t, p) ==       \* Miss: the evicted page stays in page_map_
  /\ pc[t] = "run" /\ Cardinality(holds[t]) < MaxHold
  /\ pageMap[p] = None /\ Sweep.victim # None
  /\ LET v == Sweep.victim IN
     /\ frame' = [f \in Frames |->
          IF f = v THEN [page |-> p, pins |-> 1, bit |-> TRUE, loading |-> TRUE]
          ELSE [frame[f] EXCEPT !.bit = Sweep.bit[f]]]
     /\ buffer' = [buffer EXCEPT ![v] = None]
     /\ pageMap' = [pageMap EXCEPT ![p] = v]
     /\ at' = [at EXCEPT ![t] = v]
  /\ hand' = Sweep.hand
  /\ want' = [want EXCEPT ![t] = p]
  /\ Goto(t, "read")
  /\ UNCHANGED <<holds, leaked, spoiled, queries>>

ReadKeepsLoading(t) ==      \* ReadDone: loading is not reset
  /\ pc[t] = "read"
  /\ buffer' = [buffer EXCEPT ![at[t]] = want[t]]
  /\ Given(t, want[t], at[t])
  /\ Goto(t, "run")
  /\ UNCHANGED <<frame, pageMap, hand, want, at, leaked, spoiled, queries>>

ReadPinsAgain(t) ==         \* ReadDone: the pin of the miss is taken twice
  /\ pc[t] = "read"
  /\ buffer' = [buffer EXCEPT ![at[t]] = want[t]]
  /\ frame' = [frame EXCEPT ![at[t]].loading = FALSE, ![at[t]].pins = @ + 1]
  /\ Given(t, want[t], at[t])
  /\ Goto(t, "run")
  /\ UNCHANGED <<pageMap, hand, want, at, leaked, spoiled, queries>>
---------------------------------------------------------------------------
(* pin_page and unpin_page.                                                *)

\* A thread that may pin page p: no handle pins a page it has pinned.
MayPin(t, p) ==
  /\ pc[t] = "run" /\ Cardinality(holds[t]) < MaxHold
  /\ \A h \in holds[t] : h[1] # p

Hit(t, p) ==
  /\ MayPin(t, p) /\ pageMap[p] # None
  /\ LET f == pageMap[p] IN
     /\ frame' = [frame EXCEPT ![f].pins = @ + 1, ![f].bit = TRUE]
     /\ IF frame[f].loading
        THEN /\ want' = [want EXCEPT ![t] = p]
             /\ at' = [at EXCEPT ![t] = f]
             /\ Goto(t, "wait")
             /\ UNCHANGED holds
        ELSE Given(t, p, f) /\ UNCHANGED <<pc, want, at>>
  /\ UNCHANGED <<buffer, pageMap, hand, leaked, spoiled, queries>>

\* The wait asks the frame, not the page, and the answer is taken as it is.
WaitOver(t) ==
  /\ pc[t] = "wait" /\ ~frame[at[t]].loading
  /\ Given(t, want[t], at[t])
  /\ Goto(t, "run")
  /\ UNCHANGED <<poolVars, want, at, leaked, spoiled, queries>>

\* The victim's page leaves the map, and p takes the frame; then the lock is
\* dropped and the read begins to overwrite the data.
Miss(t, p) ==
  /\ MayPin(t, p) /\ pageMap[p] = None /\ Sweep.victim # None
  /\ LET v == Sweep.victim IN
     /\ frame' = [f \in Frames |->
          IF f = v THEN [page |-> p, pins |-> 1, bit |-> TRUE, loading |-> TRUE]
          ELSE [frame[f] EXCEPT !.bit = Sweep.bit[f]]]
     /\ buffer' = [buffer EXCEPT ![v] = None]
     /\ pageMap' = [q \in Pages |-> IF q = p THEN v
                                    ELSE IF q = frame[v].page THEN None ELSE pageMap[q]]
     /\ at' = [at EXCEPT ![t] = v]
  /\ hand' = Sweep.hand
  /\ want' = [want EXCEPT ![t] = p]
  /\ Goto(t, "read")
  /\ UNCHANGED <<holds, leaked, spoiled, queries>>

\* "all frames pinned".
Full(t, p) ==
  /\ MayPin(t, p) /\ pageMap[p] = None /\ Sweep.victim = None
  /\ Unwinds(t)
  /\ UNCHANGED <<poolVars, want, at, spoiled, queries>>

ReadDone(t) ==
  /\ pc[t] = "read"
  /\ buffer' = [buffer EXCEPT ![at[t]] = want[t]]
  /\ frame' = [frame EXCEPT ![at[t]].loading = FALSE]
  /\ Given(t, want[t], at[t])
  /\ Goto(t, "run")
  /\ UNCHANGED <<pageMap, hand, want, at, leaked, spoiled, queries>>

\* pread fails or ends early: the frame is given up, with whatever pins it has.
ReadFails(t) ==
  /\ pc[t] = "read"
  /\ pageMap' = [pageMap EXCEPT ![want[t]] = None]
  /\ frame' = [frame EXCEPT ![at[t]] = Empty]
  /\ spoiled' = (spoiled \/ \E u \in Threads : pc[u] = "wait" /\ at[u] = at[t])
  /\ Unwinds(t)
  /\ UNCHANGED <<buffer, hand, want, at, queries>>

\* unpin_page looks the page up again.
Unpin(t, h) ==
  /\ pc[t] = "run" /\ h \in holds[t]
  /\ pageMap[h[1]] # None /\ Pinned(pageMap[h[1]])
  /\ frame' = [frame EXCEPT ![pageMap[h[1]]].pins = @ - 1]
  /\ holds' = [holds EXCEPT ![t] = @ \ {h}]
  /\ UNCHANGED <<buffer, pageMap, hand, pc, want, at, leaked, spoiled, queries>>

\* "not pinned", or "pin count negative".
UnpinRefused(t, h) ==
  /\ pc[t] = "run" /\ h \in holds[t]
  /\ pageMap[h[1]] # None => ~Pinned(pageMap[h[1]])
  /\ Unwinds(t)
  /\ UNCHANGED <<poolVars, want, at, spoiled, queries>>
---------------------------------------------------------------------------
(* query(): one query after the other, each on all threads.                *)

Ended == \A t \in Threads : pc[t] = "over" \/ (pc[t] = "run" /\ holds[t] = {})

StartQuery ==
  /\ pc' = [t \in Threads |-> "run"]
  /\ UNCHANGED <<buffer, want, at, holds>>

NextQuery ==
  /\ Ended /\ queries < MaxQuery
  /\ StartQuery
  /\ queries' = queries + 1
  /\ UNCHANGED <<frame, pageMap, hand, leaked, spoiled>>

\* drop_buffer_and_os_caches clears the pool before the query.
ClearAndNextQuery ==
  /\ Ended
  /\ StartQuery
  /\ pageMap' = [p \in Pages |-> None]
  /\ frame' = [f \in Frames |-> Empty]
  /\ hand' = 0
  /\ queries' = 1
  /\ leaked' = [f \in Frames |-> 0]
  /\ spoiled' = FALSE

\* What a thread cannot put off once it has called pin_page.
Reads(t) == ReadDone(t) \/ ReadFails(t)

ThreadStep(t) ==
  \/ WaitOver(t) \/ Reads(t)
  \/ \E p \in Pages : Hit(t, p) \/ Miss(t, p) \/ Full(t, p)
  \/ \E h \in holds[t] : Unpin(t, h) \/ UnpinRefused(t, h)

Next == (\E t \in Threads : ThreadStep(t)) \/ NextQuery \/ ClearAndNextQuery

\* A read ends, and a waiter that was notified gets the lock back.
Spec == Init /\ [][Next]_vars
             /\ \A t \in Threads : WF_vars(WaitOver(t)) /\ WF_vars(Reads(t))
---------------------------------------------------------------------------
(* Properties.                                                             *)

FrameStates == [page : Pages \cup {None}, pins : Nat, bit : BOOLEAN, loading : BOOLEAN]

(* Types: pin counts stay natural numbers, also where pins were lost.      *)
TypeOK ==
  /\ frame \in [Frames -> FrameStates]
  /\ buffer \in [Frames -> Pages \cup {None}]
  /\ pageMap \in [Pages -> Frames \cup {None}]
  /\ hand \in Frames
  /\ pc \in [Threads -> {"run", "wait", "read", "over"}]
  /\ want \in [Threads -> Pages \cup {None}]
  /\ at \in [Threads -> Frames \cup {None}]
  /\ holds \in [Threads -> SUBSET (Pages \X Frames)]
  /\ leaked \in [Frames -> Nat]
  /\ spoiled \in BOOLEAN
  /\ queries \in 1..MaxQuery

(* "Pin a page into a frame and return a pointer to its raw bytes": what a *)
(* thread reads through the pointer it was given is its page, until it     *)
(* unpins it.                                                              *)
PinShowsPage == \A t \in Threads : \A h \in holds[t] : buffer[h[2]] = h[1]

(* That holds as long as no read fails while others wait for its page:     *)
(* neither eviction nor the read of another page touches a frame someone   *)
(* has a pointer to, whatever was thrown before.                           *)
PinShowsPageUnlessSpoiled == ~spoiled => PinShowsPage

Users(f) == {t \in Threads : pc[t] \in {"wait", "read"} /\ at[t] = f}
Holders(f) == {t \in Threads : \E h \in holds[t] : h[2] = f}

(* No pin is lost or made up: a frame's count is that of the threads that  *)
(* have its pointer, read into it or wait for it, and of the pins left     *)
(* behind by exceptions.                                                   *)
PinsExact ==
  ~spoiled => \A f \in Frames :
     frame[f].pins = Cardinality(Users(f)) + Cardinality(Holders(f)) + leaked[f]

(* No page is in two frames, and the map has no entry for a page that is   *)
(* gone.                                                                   *)
MapExact ==
  ~spoiled => \A f \in Frames, p \in Pages : pageMap[p] = f <=> frame[f].page = p

\* How far the hand is from frame f.
Ahead(f) == (f - hand) % N

(* The bounded loop of evict_locked is the CLOCK policy: it gives up only  *)
(* if every frame is pinned, prefers a frame not used since the hand last  *)
(* passed, and takes the one the hand reaches first.                       *)
SweepIsClock ==
  LET free == {f \in Frames : ~Pinned(f)}
      cold == {f \in free : ~frame[f].bit}
      best == IF cold # {} THEN cold ELSE free
  IN IF free = {} THEN Sweep.victim = None
     ELSE /\ Sweep.victim \in best
          /\ \A f \in best : Ahead(Sweep.victim) <= Ahead(f)

(* A thread that waits for another's read gets its page when the read ends.*)
WaiterServed ==
  \A t \in Threads : pc[t] = "wait" ~> (pc[t] # "wait" \/ spoiled)

(* The refinement mapping to what the pool promises: what a thread sees is *)
(* what is in the bytes it has a pointer to.                               *)
Views == [t \in Threads |-> {<<h[1], buffer[h[2]]>> : h \in holds[t]}]

Asks == [t \in Threads |-> IF pc[t] \in {"wait", "read"} THEN want[t] ELSE None]

Left == {frame[f].page : f \in {g \in Frames : leaked[g] # 0}}

Promised == INSTANCE PinnedPages WITH
  views <- Views, asks <- Asks, over <- {t \in Threads : pc[t] = "over"}, left <- Left,
  broken <- spoiled

(* As long as no read fails while others wait for its page, a thread reads *)
(* its page through the pointer it was given until it unpins it, which is  *)
(* never refused; pin_page throws only if its own read failed or there are *)
(* N other pages in use: whatever is evicted, read and thrown meanwhile.   *)
PinsKept == Promised!Spec
===========================================================================
