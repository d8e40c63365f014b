--------------------------- MODULE BufferPoolProofs ---------------------------
(***************************************************************************)
(* Proofs about the page buffer pool, for any number of threads, pages and *)
(* frames.                                                                 *)
(*                                                                         *)
(* The sweep of evict_locked is a loop of up to 2N turns.  What a loop of  *)
(* k turns has done (SweptFor) is shown for all k by induction; after 2N   *)
(* turns it is what SweepIsClock says.  The rest is an inductive invariant *)
(* IInv: who may hold a pointer or wait (Calls), that pointers, pending    *)
(* reads and loaded frames are disjoint in the way mu_ keeps them (Sound), *)
(* the exact page map, and the exact pin counts.  A failed read under      *)
(* waiters ends all but the types; a clear makes the pool sound again.     *)
(* At the end, every operation is mapped to one of PinnedPages.            *)
(***************************************************************************)
EXTENDS BufferPool, FiniteSetTheorems, WellFoundedInduction, TLAPS

(* Induction over the natural numbers, for a set instead of a predicate:   *)
(* a number that S lacks would have a least interval 1..n among its like.  *)
LEMMA Induction ==
  ASSUME NEW S, 0 \in S, \A n \in Nat : n \in S => n + 1 \in S
  PROVE  Nat \subseteq S
<1> DEFINE T == {1..n : n \in Nat \ S}
<1>1. SUFFICES ASSUME Nat \ S # {} PROVE FALSE
  OBVIOUS
<1>2. T # {}
  BY <1>1
<1>3. T \subseteq FiniteSubsetsOf(Nat)
  <2>1. \A n \in Nat : 1..n \subseteq Nat /\ IsFiniteSet(1..n)
    BY FS_Interval
  <2> QED BY <2>1 DEF FiniteSubsetsOf
<1>4. PICK X \in T : \A Y \in T : ~(<<Y, X>> \in StrictSubsetOrdering(Nat))
  <2> HIDE DEF T
  <2> QED BY <1>2, <1>3, FS_StrictSubsetOrderingWellFounded, WFMin
<1>5. PICK n \in Nat \ S : X = 1..n
  OBVIOUS
<1>6. n # 0 /\ n - 1 \in Nat /\ n = (n - 1) + 1
  OBVIOUS
<1>7. n - 1 \notin S
  BY <1>6
<1>8. 1..(n - 1) \in T
  BY <1>6, <1>7
<1>9. 1..(n - 1) \subseteq 1..n /\ n \in 1..n /\ n \notin 1..(n - 1)
  BY <1>6
<1>10. <<1..(n - 1), 1..n>> \in StrictSubsetOrdering(Nat)
  BY <1>9 DEF StrictSubsetOrdering
<1> QED
  BY <1>4, <1>5, <1>8, <1>10

(* What the constants are, and what a frame or a page is not.              *)
LEMMA Constants == N \in Nat \ {0} /\ None = -1 /\ None \notin Frames /\ None \notin Pages
  BY BufferAssumption DEF None, Frames
---------------------------------------------------------------------------
Start == [victim |-> None, hand |-> hand, bit |-> [f \in Frames |-> frame[f].bit]]

(* The recursive definition of Turns is one: there is such a function on   *)
(* 0..n for every n.                                                       *)
LEMMA TurnsExists ==
  \A n \in Nat : \E g : g = [k \in 0..n |-> IF k = 0 THEN Start ELSE Try(g[k - 1])]
<1> DEFINE S == {n \in Nat : \E g : g = [k \in 0..n |-> IF k = 0 THEN Start ELSE Try(g[k - 1])]}
<1>1. 0 \in S
  <2> DEFINE g == [k \in 0..0 |-> Start]
  <2>1. g = [k \in 0..0 |-> IF k = 0 THEN Start ELSE Try(g[k - 1])]
    OBVIOUS
  <2> QED BY <2>1
<1>2. ASSUME NEW n \in Nat, n \in S PROVE n + 1 \in S
  <2>1. PICK g : g = [k \in 0..n |-> IF k = 0 THEN Start ELSE Try(g[k - 1])]
    BY <1>2
  <2> DEFINE h == [k \in 0..(n + 1) |-> IF k = n + 1 THEN Try(g[n]) ELSE g[k]]
             G == [k \in 0..(n + 1) |-> IF k = 0 THEN Start ELSE Try(h[k - 1])]
  <2>2. \A k \in 0..n : g[k] = IF k = 0 THEN Start ELSE Try(g[k - 1])
    BY <2>1
  <2>3. \A k \in 0..(n + 1) : h[k] = G[k]
    <3> SUFFICES ASSUME NEW k \in 0..(n + 1) PROVE h[k] = G[k]
      OBVIOUS
    <3>1. CASE k = n + 1
      <4>1. h[n] = g[n] /\ k # 0 /\ k - 1 = n
        BY <3>1
      <4> QED BY <3>1, <4>1
    <3>2. CASE k # n + 1 /\ k # 0
      <4>1. k \in 0..n /\ k - 1 \in 0..n /\ k - 1 # n + 1 /\ k - 1 \in 0..(n + 1)
        BY <3>2
      <4>2. h[k] = g[k] /\ h[k - 1] = g[k - 1]
        BY <3>2, <4>1
      <4> QED BY <2>2, <3>2, <4>1, <4>2
    <3>3. CASE k = 0
      BY <3>3, <2>2
    <3> QED BY <3>1, <3>2, <3>3
  <2>4. h = G
    <3>1. h = [k \in 0..(n + 1) |-> h[k]] /\ G = [k \in 0..(n + 1) |-> G[k]]
      OBVIOUS
    <3> HIDE DEF h, G
    <3> QED BY <2>3, <3>1
  <2> HIDE DEF h
  <2> QED BY <2>4
<1> HIDE DEF S
<1>3. Nat \subseteq S
  BY <1>1, <1>2, Induction
<1> QED BY <1>3 DEF S

(* What Turns is: the start of the loop, and one Try after another.        *)
LEMMA TurnsAre ==
  \A k \in 0..(2 * N) : Turns[k] = IF k = 0 THEN Start ELSE Try(Turns[k - 1])
<1> DEFINE Is(g) == g = [k \in 0..(2 * N) |-> IF k = 0 THEN Start ELSE Try(g[k - 1])]
<1>1. 2 * N \in Nat
  BY Constants
<1>2. Turns = CHOOSE g : Is(g)
  BY DEF Turns, Start
<1>3. \E g : Is(g)
  BY <1>1, TurnsExists
<1>4. Is(Turns)
  <2> HIDE DEF Is
  <2> QED BY <1>2, <1>3
<1> QED
  BY <1>4
---------------------------------------------------------------------------
(* The sweep.                                                              *)

\* How far the hand is from frame f, without the remainder.
Dist(f) == IF f >= hand THEN f - hand ELSE f - hand + N

(* The remainder by N of a number at most N outside of 0..N-1.             *)
LEMMA Remainder ==
  ASSUME NEW x \in Int, NEW y \in Frames, x = y \/ x = y - N \/ x = y + N
  PROVE  x % N = y
  BY Constants DEF Frames

(* Ahead without the remainder.                                            *)
LEMMA AheadIsDist ==
  ASSUME TypeOK, NEW f \in Frames
  PROVE  Ahead(f) = Dist(f) /\ Dist(f) \in 0..(N - 1)
<1>1. hand \in 0..(N - 1) /\ f \in 0..(N - 1) /\ N \in Nat /\ Dist(f) \in Frames
  BY Constants DEF TypeOK, Frames, Dist
<1>2. f - hand = Dist(f) \/ f - hand = Dist(f) - N
  BY <1>1 DEF Dist
<1>3. (f - hand) % N = Dist(f)
  <2> DEFINE x == f - hand
             y == Dist(f)
  <2>1. x \in Int /\ y \in Frames /\ (x = y \/ x = y - N \/ x = y + N)
    BY <1>1, <1>2
  <2> HIDE DEF x, y
  <2>2. x % N = y
    BY <2>1, Remainder
  <2> QED BY <2>2 DEF x, y
<1> QED BY <1>1, <1>3 DEF Ahead, Frames

(* No two frames are as far from the hand.                                 *)
LEMMA DistDiffers ==
  ASSUME TypeOK, NEW f \in Frames, NEW g \in Frames, Dist(f) = Dist(g)
  PROVE  f = g
  BY Constants DEF TypeOK, Frames, Dist

(* The hand moves one frame on, and round to where it began.               *)
LEMMA Onwards ==
  ASSUME TypeOK, NEW h \in Frames
  PROVE  /\ (h + 1) % N \in Frames
         /\ Dist((h + 1) % N) = IF Dist(h) = N - 1 THEN 0 ELSE Dist(h) + 1
<1>1. hand \in 0..(N - 1) /\ h \in 0..(N - 1) /\ N \in Nat \ {0}
  BY Constants DEF TypeOK, Frames
<1>2. CASE h + 1 = N
  <2>1. 0 \in Frames /\ h + 1 = 0 + N
    BY <1>1, <1>2 DEF Frames
  <2>2. (h + 1) % N = 0
    BY <1>1, <2>1, Remainder
  <2> QED BY <1>1, <1>2, <2>1, <2>2 DEF Dist
<1>3. CASE h + 1 # N
  <2>1. h + 1 \in Frames
    BY <1>1, <1>3 DEF Frames
  <2>2. (h + 1) % N = h + 1
    BY <1>1, <2>1, Remainder
  <2> QED BY <1>1, <1>3, <2>1, <2>2 DEF Dist
<1> QED BY <1>2, <1>3

Free(f) == ~Pinned(f)
Cold(f) == Free(f) /\ ~frame[f].bit

\* The frame CLOCK takes: the first cold one, or if there is none the first.
First(v) ==
  /\ v \in Frames /\ Free(v)
  /\ Cold(v) => \A f \in Frames : Cold(f) => Dist(v) <= Dist(f)
  /\ ~Cold(v) => \A f \in Frames : ~Cold(f) /\ (Free(f) => Dist(v) <= Dist(f))

\* Without a victim after k turns, the frames passed once are pinned or warm
\* and have lost their bit, those passed twice are pinned.
Passed(k, s) ==
  /\ k < N => Dist(s.hand) = k
  /\ N <= k /\ k < 2 * N => Dist(s.hand) = k - N
  /\ \A f \in Frames : Dist(f) < k /\ Free(f) => frame[f].bit /\ ~s.bit[f]
  /\ \A f \in Frames : Dist(f) >= k => s.bit[f] = frame[f].bit
  /\ \A f \in Frames : Dist(f) + N < k => ~Free(f)

SweptFor(k, s) ==
  /\ s \in [victim : Frames \cup {None}, hand : Frames, bit : [Frames -> BOOLEAN]]
  /\ s.victim # None => First(s.victim)
  /\ s.victim = None => Passed(k, s)

(* One turn of the loop keeps what the turns before it have done.          *)
LEMMA TurnSwept ==
  ASSUME TypeOK, NEW k \in Nat, k < 2 * N, NEW s, SweptFor(k, s)
  PROVE  SweptFor(k + 1, Try(s))
<1>1. CASE s.victim # None
  BY <1>1 DEF Try, SweptFor
<1>2. CASE s.victim = None
  <2> DEFINE h == s.hand
             r == Try(s)
             State == [victim : Frames \cup {None}, hand : Frames, bit : [Frames -> BOOLEAN]]
  <2>1. /\ s.victim = None /\ h \in Frames /\ s.bit \in [Frames -> BOOLEAN]
        /\ k < N => Dist(h) = k
        /\ N <= k => Dist(h) = k - N
        /\ \A f \in Frames : Dist(f) < k /\ Free(f) => frame[f].bit /\ ~s.bit[f]
        /\ \A f \in Frames : Dist(f) >= k => s.bit[f] = frame[f].bit
        /\ \A f \in Frames : Dist(f) + N < k => ~Free(f)
    BY <1>2 DEF SweptFor, Passed
  <2>2. N \in Nat \ {0} /\ \A f \in Frames : Dist(f) \in 0..(N - 1) /\ frame[f].bit \in BOOLEAN
    BY Constants, AheadIsDist DEF TypeOK, FrameStates
  <2>3. r.hand \in Frames /\ Dist(r.hand) = IF Dist(h) = N - 1 THEN 0 ELSE Dist(h) + 1
    <3>1. r.hand = (h + 1) % N
      BY <1>2 DEF Try
    <3> QED BY <2>1, <3>1, Onwards
  <2>4. /\ k + 1 < N => Dist(r.hand) = k + 1
        /\ N <= k + 1 /\ k + 1 < 2 * N => Dist(r.hand) = k + 1 - N
    BY <2>1, <2>2, <2>3
  <2>5. r.victim = (IF Free(h) /\ ~s.bit[h] THEN h ELSE None)
    BY <1>2 DEF Try, Free
  <2>6. r.bit = IF ~Free(h) THEN s.bit ELSE [s.bit EXCEPT ![h] = FALSE]
    BY <1>2 DEF Try, Free
  <2>7. r \in State
    BY <2>1, <2>3, <2>5, <2>6, <1>2 DEF Try
  <2> SUFFICES SweptFor(k + 1, r)
    OBVIOUS
  <2> HIDE DEF r
  <2>8. CASE Free(h) /\ ~s.bit[h]
    <3>1. CASE k < N
      <4>1. ~frame[h].bit
        BY <2>1, <2>2, <2>8, <3>1
      <4>2. \A f \in Frames : Cold(f) => Dist(h) <= Dist(f)
        BY <2>1, <2>2, <3>1 DEF Cold
      <4>3. First(h)
        BY <2>1, <2>8, <4>1, <4>2 DEF First, Cold
      <4> QED BY <2>5, <2>7, <2>8, <4>3, <2>1, Constants DEF SweptFor
    <3>2. CASE k >= N
      <4>1. \A f \in Frames : ~Cold(f)
        BY <2>1, <2>2, <3>2 DEF Cold
      <4>2. \A f \in Frames : Free(f) => Dist(h) <= Dist(f)
        BY <2>1, <2>2, <3>2
      <4>3. First(h)
        BY <2>1, <2>8, <4>1, <4>2 DEF First
      <4> QED BY <2>5, <2>7, <2>8, <4>3, <2>1, Constants DEF SweptFor
    <3> QED BY <3>1, <3>2, <2>2
  <2>9. CASE ~Free(h)
    <3>1. r.victim = None /\ r.bit = s.bit
      BY <2>5, <2>6, <2>9
    <3>2. \A f \in Frames : Dist(f) < k + 1 /\ Free(f) => frame[f].bit /\ ~s.bit[f]
      <4> SUFFICES ASSUME NEW f \in Frames, Dist(f) < k + 1, Free(f)
                   PROVE  frame[f].bit /\ ~s.bit[f]
        OBVIOUS
      <4>1. Dist(f) # Dist(h)
        BY <2>1, <2>9, DistDiffers
      <4> QED BY <4>1, <2>1, <2>2
    <3>3. \A f \in Frames : Dist(f) + N < k + 1 => ~Free(f)
      <4> SUFFICES ASSUME NEW f \in Frames, Dist(f) + N < k + 1, Free(f) PROVE FALSE
        OBVIOUS
      <4>1. Dist(f) # Dist(h)
        BY <2>1, <2>9, DistDiffers
      <4> QED BY <4>1, <2>1, <2>2
    <3>4. \A f \in Frames : Dist(f) >= k + 1 => s.bit[f] = frame[f].bit
      BY <2>1, <2>2
    <3>9. r.victim = None /\ r \in State
      BY <2>7, <3>1
    <3>10. Passed(k + 1, r)
      BY <2>2, <2>4, <3>1, <3>2, <3>3, <3>4 DEF Passed
    <3> QED BY <3>9, <3>10 DEF SweptFor
  <2>10. CASE Free(h) /\ s.bit[h]
    <3>1. k < N /\ frame[h].bit
      BY <2>1, <2>2, <2>10
    <3>2. r.victim = None /\ r.bit = [s.bit EXCEPT ![h] = FALSE]
      BY <2>5, <2>6, <2>10
    <3>3. \A f \in Frames : Dist(f) < k + 1 /\ Free(f) => frame[f].bit /\ ~r.bit[f]
      <4> SUFFICES ASSUME NEW f \in Frames, Dist(f) < k + 1, Free(f)
                   PROVE  frame[f].bit /\ ~r.bit[f]
        OBVIOUS
      <4>1. CASE f = h
        BY <4>1, <3>1, <3>2, <2>1
      <4>2. CASE f # h
        <5>1. Dist(f) # Dist(h)
          BY <2>1, <4>2, DistDiffers
        <5> QED BY <5>1, <4>2, <3>1, <3>2, <2>1, <2>2
      <4> QED BY <4>1, <4>2
    <3>4. \A f \in Frames : Dist(f) >= k + 1 => r.bit[f] = frame[f].bit
      <4> SUFFICES ASSUME NEW f \in Frames, Dist(f) >= k + 1 PROVE r.bit[f] = frame[f].bit
        OBVIOUS
      <4>1. f # h
        BY <3>1, <2>1, <2>2
      <4> QED BY <4>1, <3>2, <2>1, <2>2
    <3>5. \A f \in Frames : Dist(f) + N < k + 1 => ~Free(f)
      BY <3>1, <2>2
    <3>9. r.victim = None /\ r \in State
      BY <2>7, <3>2
    <3>10. Passed(k + 1, r)
      BY <2>2, <2>4, <3>3, <3>4, <3>5 DEF Passed
    <3> QED BY <3>9, <3>10 DEF SweptFor
  <2> QED BY <2>8, <2>9, <2>10, <2>1
<1> QED BY <1>1, <1>2

(* The whole loop, by induction over its turns.                            *)
LEMMA SweepEnds == TypeOK => SweptFor(2 * N, Sweep)
<1> SUFFICES ASSUME TypeOK PROVE SweptFor(2 * N, Sweep)
  OBVIOUS
<1> DEFINE S == {k \in Nat : k <= 2 * N => SweptFor(k, Turns[k])}
<1>0. N \in Nat \ {0} /\ 2 * N \in Nat
  BY Constants
<1>1. 0 \in S
  <2>1. Turns[0] = Start
    BY <1>0, TurnsAre
  <2>2. /\ hand \in Frames /\ Dist(hand) = 0
        /\ \A f \in Frames : Dist(f) \in 0..(N - 1) /\ frame[f].bit \in BOOLEAN
    <3>1. hand \in Frames /\ Dist(hand) = 0
      BY <1>0 DEF TypeOK, Frames, Dist
    <3> QED BY <3>1, AheadIsDist DEF TypeOK, FrameStates
  <2>3. Start \in [victim : Frames \cup {None}, hand : Frames, bit : [Frames -> BOOLEAN]]
    BY <2>2 DEF Start
  <2>4. /\ Start.victim = None /\ Start.hand = hand
        /\ \A f \in Frames : Start.bit[f] = frame[f].bit
    BY DEF Start
  <2>5. SweptFor(0, Start)
    BY <1>0, <2>2, <2>3, <2>4 DEF SweptFor, Passed
  <2> QED BY <2>1, <2>5
<1>2. ASSUME NEW k \in Nat, k \in S PROVE k + 1 \in S
  <2>1. SUFFICES ASSUME k + 1 <= 2 * N PROVE SweptFor(k + 1, Turns[k + 1])
    OBVIOUS
  <2>2. SweptFor(k, Turns[k])
    BY <1>0, <1>2, <2>1
  <2>3. Turns[k + 1] = Try(Turns[k])
    <3>1. k + 1 \in 0..(2 * N) /\ k + 1 # 0 /\ (k + 1) - 1 = k
      BY <1>0, <2>1
    <3> QED BY <3>1, TurnsAre
  <2>4. k < 2 * N
    BY <1>0, <2>1
  <2> QED BY <2>2, <2>3, <2>4, TurnSwept
<1> HIDE DEF S
<1>3. Nat \subseteq S
  BY <1>1, <1>2, Induction
<1>4. SweptFor(2 * N, Turns[2 * N])
  BY <1>0, <1>3 DEF S
<1> QED
  BY <1>4 DEF Sweep

(* Two rounds find a victim unless every frame is pinned.                  *)
LEMMA SweepFinds ==
  TypeOK =>
    /\ Sweep \in [victim : Frames \cup {None}, hand : Frames, bit : [Frames -> BOOLEAN]]
    /\ Sweep.victim # None => ~Pinned(Sweep.victim)
    /\ Sweep.victim = None => \A f \in Frames : Pinned(f)
<1> SUFFICES ASSUME TypeOK
             PROVE  /\ Sweep \in [victim : Frames \cup {None}, hand : Frames, bit : [Frames -> BOOLEAN]]
                    /\ Sweep.victim # None => ~Pinned(Sweep.victim)
                    /\ Sweep.victim = None => \A f \in Frames : Pinned(f)
  OBVIOUS
<1>1. N \in Nat /\ \A f \in Frames : Dist(f) \in 0..(N - 1)
  BY Constants, AheadIsDist
<1>2. \A f \in Frames : Dist(f) + N < 2 * N
  BY <1>1
<1> QED BY <1>2, SweepEnds DEF SweptFor, Passed, First, Free

(* What the loop does is what CLOCK asks for.                              *)
LEMMA ClockSweep == TypeOK => SweepIsClock
<1> SUFFICES ASSUME TypeOK PROVE SweepIsClock
  OBVIOUS
<1> DEFINE free == {f \in Frames : ~Pinned(f)}
           cold == {f \in free : ~frame[f].bit}
           best == IF cold # {} THEN cold ELSE free
<1>1. CASE free = {}
  <2>1. Sweep.victim = None
    BY <1>1, SweepFinds
  <2> QED BY <1>1, <2>1 DEF SweepIsClock
<1>2. CASE free # {}
  <2> DEFINE v == Sweep.victim
  <2>1. First(v)
    BY <1>2, SweepFinds, SweepEnds DEF SweptFor
  <2>2. \A f \in Frames : Ahead(f) = Dist(f)
    BY AheadIsDist
  <2>3. v \in best /\ \A f \in best : Dist(v) <= Dist(f)
    BY <2>1 DEF First, Cold, Free
  <2>4. \A f \in best : f \in Frames
    OBVIOUS
  <2>5. \A f \in best : Ahead(v) <= Ahead(f)
    BY <2>1, <2>2, <2>3, <2>4 DEF First
  <2> QED BY <1>2, <2>3, <2>5 DEF SweepIsClock
<1> QED BY <1>1, <1>2
---------------------------------------------------------------------------
(* The inductive invariant.                                                *)

\* A thread in pin_page wants a page it does not hold; one that is over
\* holds nothing.
Calls ==
  \A t \in Threads :
    /\ pc[t] \in {"wait", "read"} =>
         want[t] \in Pages /\ at[t] \in Frames /\ \A h \in holds[t] : h[1] # want[t]
    /\ pc[t] = "over" => holds[t] = {}

\* What a thread holds is in its frame, and read.
Pointers ==
  \A t \in Threads : \A h \in holds[t] :
    frame[h[2]].page = h[1] /\ ~frame[h[2]].loading

\* What a thread waits for or reads is the page of the frame; a frame is read
\* by one thread.
Pending ==
  /\ \A t \in Threads : pc[t] \in {"wait", "read"} => frame[at[t]].page = want[t]
  /\ \A t \in Threads : pc[t] = "read" => frame[at[t]].loading
  /\ \A t, u \in Threads : pc[t] = "read" /\ pc[u] = "read" /\ at[t] = at[u] => t = u

\* A page that is not being read is there; a frame that is has lost no pin.
Loaded ==
  \A f \in Frames :
    /\ frame[f].page # None /\ ~frame[f].loading => buffer[f] = frame[f].page
    /\ frame[f].loading => leaked[f] = 0

Sound == ~spoiled => Pointers /\ Pending /\ Loaded

IInv == TypeOK /\ Calls /\ Sound /\ MapExact /\ PinsExact
---------------------------------------------------------------------------
(* Counting pins.                                                          *)

(* The threads of a frame are counted.                                     *)
LEMMA Finite ==
  ASSUME NEW f
  PROVE  /\ IsFiniteSet(Users(f)) /\ Cardinality(Users(f)) \in Nat
         /\ IsFiniteSet(Holders(f)) /\ Cardinality(Holders(f)) \in Nat
<1>1. Users(f) \in SUBSET Threads /\ Holders(f) \in SUBSET Threads
  BY DEF Users, Holders
<1> QED BY <1>1, BufferAssumption, FS_Subset, FS_CardinalityType

(* A thread's pins of a frame are counted.                                 *)
LEMMA HoldsFinite ==
  ASSUME TypeOK, NEW t \in Threads, NEW f
  PROVE  /\ IsFiniteSet({h \in holds[t] : h[2] = f})
         /\ Cardinality({h \in holds[t] : h[2] = f}) \in Nat
<1>1. IsFiniteSet(Frames)
  BY Constants, FS_Interval DEF Frames
<1>2. IsFiniteSet(Pages \X Frames)
  BY <1>1, BufferAssumption, FS_Product
<1>3. {h \in holds[t] : h[2] = f} \in SUBSET (Pages \X Frames)
  BY DEF TypeOK
<1>4. IsFiniteSet({h \in holds[t] : h[2] = f})
  BY <1>2, <1>3, FS_Subset
<1> QED BY <1>4, FS_CardinalityType

(* A thread has at most one pin of a frame.                                *)
LEMMA OnePin ==
  ASSUME TypeOK, Pointers, NEW t \in Threads, NEW f \in Frames
  PROVE  Cardinality({h \in holds[t] : h[2] = f}) = IF t \in Holders(f) THEN 1 ELSE 0
<1> DEFINE H == {h \in holds[t] : h[2] = f}
<1>1. CASE t \in Holders(f)
  <2>1. PICK h \in holds[t] : h[2] = f
    BY <1>1 DEF Holders
  <2>2. ASSUME NEW g \in H PROVE g = h
    <3>1. g \in Pages \X Frames /\ h \in Pages \X Frames
      BY <2>1 DEF TypeOK
    <3>2. g[1] = h[1] /\ g[2] = h[2]
      BY <2>1 DEF Pointers
    <3> QED BY <3>1, <3>2
  <2>3. H = {h}
    BY <2>1, <2>2
  <2> HIDE DEF H
  <2> QED BY <1>1, <2>3, FS_Singleton DEF H
<1>2. CASE t \notin Holders(f)
  <2>1. H = {}
    BY <1>2 DEF Holders
  <2> HIDE DEF H
  <2> QED BY <1>2, <2>1, FS_EmptySet DEF H
<1> QED BY <1>1, <1>2

(* The pins of a thread that throws are left behind, frame by frame.       *)
LEMMA UnwindsTypes ==
  ASSUME TypeOK, NEW t \in Threads, Unwinds(t)
  PROVE  /\ pc' \in [Threads -> {"run", "wait", "read", "over"}]
         /\ holds' \in [Threads -> SUBSET (Pages \X Frames)]
         /\ leaked' \in [Frames -> Nat]
         /\ pc'[t] = "over" /\ holds'[t] = {}
         /\ \A u \in Threads \ {t} : pc'[u] = pc[u] /\ holds'[u] = holds[u]
<1>1. \A f \in Frames : leaked[f] + Cardinality({h \in holds[t] : h[2] = f}) \in Nat
  <2> TAKE f \in Frames
  <2>1. leaked[f] \in Nat /\ Cardinality({h \in holds[t] : h[2] = f}) \in Nat
    BY HoldsFinite DEF TypeOK
  <2> QED BY <2>1
<1> QED BY <1>1 DEF Unwinds, Goto, TypeOK

(* Its pins turn from held to leaked: their sum stays.                     *)
LEMMA UnwindsCounts ==
  ASSUME TypeOK, Pointers, NEW t \in Threads, Unwinds(t), NEW f \in Frames
  PROVE  /\ Cardinality(Holders(f)') + leaked'[f] = Cardinality(Holders(f)) + leaked[f]
         /\ t \notin Holders(f) => leaked'[f] = leaked[f]
<1>1. Holders(f)' = Holders(f) \ {t}
  BY UnwindsTypes DEF Holders
<1>2. leaked'[f] = leaked[f] + IF t \in Holders(f) THEN 1 ELSE 0
  BY OnePin DEF Unwinds
<1>3. Cardinality(Holders(f) \ {t})
        = IF t \in Holders(f) THEN Cardinality(Holders(f)) - 1 ELSE Cardinality(Holders(f))
  BY Finite, FS_RemoveElement
<1>4. leaked[f] \in Nat /\ Cardinality(Holders(f)) \in Nat
  BY Finite DEF TypeOK
<1> QED BY <1>1, <1>2, <1>3, <1>4

(* Who holds which frame after pin_page returned.                          *)
LEMMA GivenHolds ==
  ASSUME TypeOK, NEW t \in Threads, NEW p, NEW f, Given(t, p, f), NEW g
  PROVE  /\ \A u \in Threads :
              holds'[u] = IF u = t THEN holds[u] \cup {<<p, f>>} ELSE holds[u]
         /\ Holders(g)' = IF g = f THEN Holders(g) \cup {t} ELSE Holders(g)
<1>1. \A u \in Threads : holds'[u] = IF u = t THEN holds[u] \cup {<<p, f>>} ELSE holds[u]
  BY DEF Given, TypeOK
<1>2. \A u \in Threads :
        (\E h \in holds'[u] : h[2] = g) <=> (\E h \in holds[u] : h[2] = g) \/ (u = t /\ g = f)
  <2> TAKE u \in Threads
  <2>1. CASE u # t
    BY <1>1, <2>1
  <2>2. CASE u = t
    <3>1. <<p, f>>[2] = f /\ <<p, f>> \in holds'[u] /\ holds[u] \subseteq holds'[u]
      BY <1>1, <2>2
    <3>2. \A h \in holds'[u] : h \in holds[u] \/ h = <<p, f>>
      BY <1>1, <2>2
    <3> QED BY <2>2, <3>1, <3>2
  <2> QED BY <2>1, <2>2
<1>3. Holders(g)' = {u \in Threads : (\E h \in holds[u] : h[2] = g) \/ (u = t /\ g = f)}
  BY <1>2 DEF Holders
<1> QED BY <1>1, <1>3 DEF Holders

(* A frame someone uses, holds or has leaked is pinned.                    *)
LEMMA UnpinnedIsUnused ==
  ASSUME TypeOK, PinsExact, ~spoiled, NEW f \in Frames, ~Pinned(f)
  PROVE  /\ Users(f) = {} /\ Holders(f) = {} /\ leaked[f] = 0 /\ frame[f].pins = 0
<1>1. frame[f].pins \in Nat /\ leaked[f] \in Nat
  BY DEF TypeOK, FrameStates
<1>2. frame[f].pins = Cardinality(Users(f)) + Cardinality(Holders(f)) + leaked[f]
  BY DEF PinsExact
<1>3. frame[f].pins = 0
  BY <1>1 DEF Pinned
<1>4. Cardinality(Users(f)) = 0 /\ Cardinality(Holders(f)) = 0 /\ leaked[f] = 0
  BY <1>1, <1>2, <1>3, Finite
<1> QED BY <1>3, <1>4, Finite, FS_EmptySet
---------------------------------------------------------------------------
(* An empty pool, and no calls.                                            *)
LEMMA InitIInv == Init => IInv
<1> SUFFICES ASSUME Init PROVE IInv
  OBVIOUS
<1>1. TypeOK
  <2>1. Empty \in FrameStates /\ 0 \in Frames /\ 1 \in 1..MaxQuery
    BY Constants, BufferAssumption DEF Empty, FrameStates, Frames
  <2> QED BY <2>1 DEF Init, TypeOK
<1>2. Calls /\ Sound /\ MapExact
  BY Constants DEF Init, Calls, Sound, Pointers, Pending, Loaded, MapExact, Empty
<1>3. \A f \in Frames : Users(f) = {} /\ Holders(f) = {}
  BY DEF Init, Users, Holders
<1>4. PinsExact
  <2>1. Cardinality({}) = 0
    BY FS_EmptySet
  <2>2. \A f \in Frames : frame[f].pins = 0 /\ leaked[f] = 0
    BY DEF Init, Empty
  <2> QED BY <1>3, <2>1, <2>2 DEF PinsExact
<1> QED BY <1>1, <1>2, <1>4 DEF IInv

\* Typing a frame of which only the count and the bits change.
LEMMA FrameType ==
  ASSUME TypeOK, NEW f \in Frames
  PROVE  /\ frame[f] \in FrameStates /\ frame[f].page \in Pages \cup {None}
         /\ frame[f].pins \in Nat /\ frame[f].bit \in BOOLEAN /\ frame[f].loading \in BOOLEAN
         /\ leaked[f] \in Nat /\ buffer[f] \in Pages \cup {None}
  BY DEF TypeOK, FrameStates

(* A thread that comes back from pin_page, or out of it by an exception.   *)
LEMMA Leaves ==
  ASSUME NEW t \in Threads, pc[t] \in {"wait", "read"}, at' = at,
         pc'[t] \in {"run", "over"}, \A u \in Threads \ {t} : pc'[u] = pc[u],
         NEW g
  PROVE  /\ at[t] = g => t \in Users(g) /\ Users(g)' = Users(g) \ {t}
         /\ at[t] # g => Users(g)' = Users(g)
<1>1. \A u \in Threads : (pc'[u] \in {"wait", "read"} /\ at'[u] = g)
                          <=> (pc[u] \in {"wait", "read"} /\ at[u] = g /\ u # t)
  <2> TAKE u \in Threads
  <2>1. CASE u = t
    BY <2>1
  <2>2. CASE u # t
    BY <2>2
  <2> QED BY <2>1, <2>2
<1>2. Users(g)' = {u \in Threads : pc[u] \in {"wait", "read"} /\ at[u] = g /\ u # t}
  BY <1>1 DEF Users
<1> QED BY <1>2 DEF Users

(* A hit: one more user of a frame, or one more holder.                    *)
LEMMA HitIInv ==
  ASSUME IInv, NEW t \in Threads, NEW p \in Pages, Hit(t, p)
  PROVE  IInv'
<1> USE Constants
<1> DEFINE f == pageMap[p]
<1>0. TypeOK
  BY DEF IInv
<1>1. /\ pc[t] = "run" /\ f \in Frames /\ \A h \in holds[t] : h[1] # p
      /\ UNCHANGED <<buffer, pageMap, hand, leaked, spoiled, queries>>
  BY <1>0 DEF Hit, MayPin, TypeOK
<1>2. /\ frame' \in [Frames -> FrameStates]
      /\ frame'[f].pins = frame[f].pins + 1
      /\ \A g \in Frames : frame'[g].page = frame[g].page /\ frame'[g].loading = frame[g].loading
      /\ \A g \in Frames \ {f} : frame'[g] = frame[g]
  <2>1. frame' = [frame EXCEPT ![f] = [frame[f] EXCEPT !.pins = @ + 1, !.bit = TRUE]]
    BY DEF Hit
  <2>2. [frame[f] EXCEPT !.pins = @ + 1, !.bit = TRUE] \in FrameStates
    <3> DEFINE x == frame[f]
    <3>1. x \in FrameStates /\ x.pins + 1 \in Nat
      BY <1>0, <1>1, FrameType
    <3> HIDE DEF x
    <3>2. [x EXCEPT !.pins = @ + 1, !.bit = TRUE] \in FrameStates
      BY <3>1 DEF FrameStates
    <3> QED BY <3>2 DEF x
  <2> QED BY <1>0, <1>1, <2>1, <2>2, FrameType DEF TypeOK, FrameStates
<1>3. CASE frame[f].loading
  <2>1. /\ want' = [want EXCEPT ![t] = p] /\ at' = [at EXCEPT ![t] = f]
        /\ pc' = [pc EXCEPT ![t] = "wait"] /\ holds' = holds
    BY <1>3 DEF Hit, Goto
  <2>2. TypeOK'
    BY <1>0, <1>1, <1>2, <2>1 DEF TypeOK
  <2>3. Calls'
    BY <1>0, <1>1, <2>1 DEF IInv, Calls, TypeOK
  <2>4. Sound'
    <3> SUFFICES ASSUME ~spoiled PROVE Pointers' /\ Pending' /\ Loaded'
      BY <1>1 DEF Sound
    <3>1. Pointers /\ Pending /\ Loaded /\ frame[f].page = p
      BY <1>1 DEF IInv, Sound, MapExact
    <3>2. Pointers'
      BY <1>0, <1>2, <2>1, <3>1 DEF Pointers, TypeOK
    <3>3. Pending'
      <4>1. \A u \in Threads : pc'[u] \in {"wait", "read"} => frame'[at'[u]].page = want'[u]
        BY <1>0, <1>1, <1>2, <2>1, <3>1 DEF Pending, TypeOK, IInv, Calls
      <4>2. \A u \in Threads : pc'[u] = "read" => pc[u] = "read" /\ at'[u] = at[u] /\ at[u] \in Frames
        BY <1>0, <2>1 DEF TypeOK, IInv, Calls
      <4> QED BY <4>1, <4>2, <1>2, <3>1 DEF Pending
    <3>4. Loaded'
      BY <1>1, <1>2, <3>1 DEF Loaded
    <3> QED BY <3>2, <3>3, <3>4
  <2>5. MapExact'
    BY <1>1, <1>2 DEF IInv, MapExact
  <2>6. PinsExact'
    <3> SUFFICES ASSUME ~spoiled, NEW g \in Frames
                 PROVE  frame'[g].pins = Cardinality(Users(g)') + Cardinality(Holders(g)') + leaked[g]
      BY <1>1 DEF PinsExact
    <3>1. /\ frame[g].pins = Cardinality(Users(g)) + Cardinality(Holders(g)) + leaked[g]
          /\ Holders(g)' = Holders(g) /\ t \notin Users(g)
      BY <1>1, <2>1 DEF IInv, PinsExact, Holders, Users
    <3>2. CASE g = f
      <4>1. Users(g)' = Users(g) \cup {t}
        BY <1>0, <2>1, <3>2 DEF Users, TypeOK
      <4>2. Cardinality(Users(g)') = Cardinality(Users(g)) + 1
        BY <3>1, <4>1, Finite, FS_AddElement
      <4> QED BY <1>0, <1>2, <3>1, <3>2, <4>2, Finite, FrameType
    <3>3. CASE g # f
      <4>1. Users(g)' = Users(g)
        BY <1>0, <1>1, <2>1, <3>3 DEF Users, TypeOK
      <4> QED BY <1>2, <3>1, <3>3, <4>1
    <3> QED BY <3>2, <3>3
  <2> QED BY <2>2, <2>3, <2>4, <2>5, <2>6 DEF IInv
<1>4. CASE ~frame[f].loading
  <2>1. /\ Given(t, p, f) /\ UNCHANGED <<pc, want, at>>
        /\ holds' = [holds EXCEPT ![t] = @ \cup {<<p, f>>}]
    BY <1>4 DEF Hit, Given
  <2>2. TypeOK'
    BY <1>0, <1>1, <1>2, <2>1 DEF TypeOK
  <2>3. Calls'
    BY <1>0, <1>1, <2>1 DEF IInv, Calls, TypeOK
  <2>4. Sound'
    <3> SUFFICES ASSUME ~spoiled PROVE Pointers' /\ Pending' /\ Loaded'
      BY <1>1 DEF Sound
    <3>1. Pointers /\ Pending /\ Loaded /\ frame[f].page = p
      BY <1>1 DEF IInv, Sound, MapExact
    <3>2. Pointers'
      <4> SUFFICES ASSUME NEW u \in Threads, NEW h \in holds'[u]
                   PROVE  frame'[h[2]].page = h[1] /\ ~frame'[h[2]].loading
        BY DEF Pointers
      <4>1. h \in holds[u] \/ h = <<p, f>>
        BY <1>0, <2>1 DEF TypeOK
      <4>2. h \in holds[u] => h[2] \in Frames
        BY <1>0 DEF TypeOK
      <4> QED BY <4>1, <4>2, <1>1, <1>2, <1>4, <3>1 DEF Pointers
    <3>3. Pending'
      BY <1>2, <2>1, <3>1 DEF Pending, IInv, Calls
    <3>4. Loaded'
      BY <1>1, <1>2, <3>1 DEF Loaded
    <3> QED BY <3>2, <3>3, <3>4
  <2>5. MapExact'
    BY <1>1, <1>2 DEF IInv, MapExact
  <2>6. PinsExact'
    <3> SUFFICES ASSUME ~spoiled, NEW g \in Frames
                 PROVE  frame'[g].pins = Cardinality(Users(g)') + Cardinality(Holders(g)') + leaked[g]
      BY <1>1 DEF PinsExact
    <3>1. /\ frame[g].pins = Cardinality(Users(g)) + Cardinality(Holders(g)) + leaked[g]
          /\ Users(g)' = Users(g)
      BY <2>1 DEF IInv, PinsExact, Users
    <3>2. CASE g = f
      <4>1. Holders(g)' = Holders(g) \cup {t}
        BY <1>0, <2>1, <3>2, GivenHolds
      <4>2. t \notin Holders(g)
        BY <1>1, <3>2 DEF IInv, Sound, Pointers, MapExact, Holders
      <4>3. Cardinality(Holders(g)') = Cardinality(Holders(g)) + 1
        BY <4>1, <4>2, Finite, FS_AddElement
      <4> QED BY <1>0, <1>2, <3>1, <3>2, <4>3, Finite, FrameType
    <3>3. CASE g # f
      <4>1. Holders(g)' = Holders(g)
        BY <1>0, <2>1, <3>3, GivenHolds
      <4> QED BY <1>2, <3>1, <3>3, <4>1
    <3> QED BY <3>2, <3>3
  <2> QED BY <2>2, <2>3, <2>4, <2>5, <2>6 DEF IInv
<1> QED BY <1>3, <1>4, <1>0, <1>1, FrameType

(* A waiter becomes a holder.                                              *)
LEMMA WaitOverIInv ==
  ASSUME IInv, NEW t \in Threads, WaitOver(t)
  PROVE  IInv'
<1> USE Constants
<1> DEFINE f == at[t]
           p == want[t]
<1>0. TypeOK
  BY DEF IInv
<1>1. /\ pc[t] = "wait" /\ f \in Frames /\ p \in Pages /\ \A h \in holds[t] : h[1] # p
      /\ ~frame[f].loading /\ Given(t, p, f)
      /\ pc' = [pc EXCEPT ![t] = "run"]
      /\ UNCHANGED <<poolVars, want, at, leaked, spoiled, queries>>
  BY DEF WaitOver, Goto, IInv, Calls
<1>2. \A u \in Threads :
        /\ holds'[u] = IF u = t THEN holds[u] \cup {<<p, f>>} ELSE holds[u]
        /\ pc'[u] = IF u = t THEN "run" ELSE pc[u]
  BY <1>0, <1>1, GivenHolds DEF TypeOK
<1> USE DEF poolVars
<1>3. TypeOK'
  BY <1>0, <1>1, <1>2 DEF TypeOK, Given
<1>4. Calls'
  <2> SUFFICES ASSUME NEW u \in Threads, pc'[u] \in {"wait", "read", "over"}
               PROVE  /\ pc'[u] = pc[u] /\ want'[u] = want[u] /\ at'[u] = at[u]
                      /\ holds'[u] = holds[u]
    BY DEF IInv, Calls
  <2>1. u # t
    BY <1>2
  <2>2. pc'[u] = pc[u] /\ holds'[u] = holds[u]
    BY <1>2, <2>1
  <2>3. want' = want /\ at' = at
    BY <1>1
  <2> QED BY <2>2, <2>3
<1>5. Sound'
  <2> SUFFICES ASSUME ~spoiled PROVE Pointers' /\ Pending' /\ Loaded'
    BY <1>1 DEF Sound
  <2>1. Pointers /\ Pending /\ Loaded /\ frame[f].page = p
    BY <1>1 DEF IInv, Sound, Pending
  <2>2. Pointers'
    <3> SUFFICES ASSUME NEW u \in Threads, NEW h \in holds'[u]
                 PROVE  frame[h[2]].page = h[1] /\ ~frame[h[2]].loading
      BY <1>1 DEF Pointers
    <3>1. h \in holds[u] \/ h = <<p, f>>
      BY <1>2
    <3> QED BY <3>1, <1>1, <2>1 DEF Pointers
  <2>3. Pending'
    BY <1>1, <1>2, <2>1 DEF Pending
  <2>4. Loaded'
    BY <1>1, <2>1 DEF Loaded
  <2> QED BY <2>2, <2>3, <2>4
<1>6. MapExact'
  BY <1>1 DEF IInv, MapExact
<1>7. PinsExact'
  <2> SUFFICES ASSUME ~spoiled, NEW g \in Frames
               PROVE  frame[g].pins = Cardinality(Users(g)') + Cardinality(Holders(g)') + leaked[g]
    BY <1>1 DEF PinsExact
  <2>1. frame[g].pins = Cardinality(Users(g)) + Cardinality(Holders(g)) + leaked[g]
    BY DEF IInv, PinsExact
  <2>2. CASE g = f
    <3>1. Users(g)' = Users(g) \ {t} /\ t \in Users(g)
      BY <1>1, <1>2, <2>2, Leaves
    <3>2. Holders(g)' = Holders(g) \cup {t} /\ t \notin Holders(g)
      BY <1>0, <1>1, <2>2, GivenHolds DEF IInv, Sound, Pointers, Pending, Holders
    <3>3. Cardinality(Users(g)') = Cardinality(Users(g)) - 1
      BY <3>1, Finite, FS_RemoveElement
    <3>4. Cardinality(Holders(g)') = Cardinality(Holders(g)) + 1
      BY <3>2, Finite, FS_AddElement
    <3> QED BY <1>0, <2>1, <3>3, <3>4, Finite, FrameType
  <2>3. CASE g # f
    <3>1. Users(g)' = Users(g)
      BY <1>1, <1>2, <2>3, Leaves
    <3>2. Holders(g)' = Holders(g)
      BY <1>0, <1>1, <2>3, GivenHolds
    <3> QED BY <2>1, <3>1, <3>2
  <2> QED BY <2>2, <2>3
<1> QED BY <1>3, <1>4, <1>5, <1>6, <1>7 DEF IInv

(* The reader becomes a holder, and the frame shows its page.              *)
LEMMA ReadDoneIInv ==
  ASSUME IInv, NEW t \in Threads, ReadDone(t)
  PROVE  IInv'
<1> USE Constants
<1> DEFINE f == at[t]
           p == want[t]
<1>0. TypeOK
  BY DEF IInv
<1>1. /\ pc[t] = "read" /\ f \in Frames /\ p \in Pages /\ \A h \in holds[t] : h[1] # p
      /\ buffer' = [buffer EXCEPT ![f] = p] /\ Given(t, p, f)
      /\ frame' = [frame EXCEPT ![f].loading = FALSE]
      /\ pc' = [pc EXCEPT ![t] = "run"]
      /\ UNCHANGED <<pageMap, hand, want, at, leaked, spoiled, queries>>
  BY DEF ReadDone, Goto, IInv, Calls
<1>2. \A u \in Threads :
        /\ holds'[u] = IF u = t THEN holds[u] \cup {<<p, f>>} ELSE holds[u]
        /\ pc'[u] = IF u = t THEN "run" ELSE pc[u]
  BY <1>0, <1>1, GivenHolds DEF TypeOK
<1>3. /\ frame' \in [Frames -> FrameStates] /\ frame'[f].loading = FALSE
      /\ \A g \in Frames : frame'[g].page = frame[g].page /\ frame'[g].pins = frame[g].pins
      /\ \A g \in Frames \ {f} : frame'[g] = frame[g]
  <2>1. [frame[f] EXCEPT !.loading = FALSE] \in FrameStates
    <3>1. frame[f] \in FrameStates
      BY <1>0, <1>1, FrameType
    <3> QED BY <3>1 DEF FrameStates
  <2> QED BY <1>0, <1>1, <2>1 DEF TypeOK, FrameStates
<1>4. TypeOK'
  BY <1>0, <1>1, <1>2, <1>3 DEF TypeOK, Given
<1>5. Calls'
  <2> SUFFICES ASSUME NEW u \in Threads, pc'[u] \in {"wait", "read", "over"}
               PROVE  /\ pc'[u] = pc[u] /\ want'[u] = want[u] /\ at'[u] = at[u]
                      /\ holds'[u] = holds[u]
    BY DEF IInv, Calls
  <2>1. u # t
    BY <1>2
  <2>2. pc'[u] = pc[u] /\ holds'[u] = holds[u]
    BY <1>2, <2>1
  <2>3. want' = want /\ at' = at
    BY <1>1
  <2> QED BY <2>2, <2>3
<1>6. Sound'
  <2> SUFFICES ASSUME ~spoiled PROVE Pointers' /\ Pending' /\ Loaded'
    BY <1>1 DEF Sound
  <2>1. Pointers /\ Pending /\ Loaded /\ frame[f].page = p /\ frame[f].loading
    BY <1>1 DEF IInv, Sound, Pending
  <2>2. Pointers'
    <3> SUFFICES ASSUME NEW u \in Threads, NEW h \in holds'[u]
                 PROVE  frame'[h[2]].page = h[1] /\ ~frame'[h[2]].loading
      BY DEF Pointers
    <3>1. h \in holds[u] \/ h = <<p, f>>
      BY <1>2
    <3>2. h \in holds[u] => h[2] \in Frames
      BY <1>0 DEF TypeOK
    <3> QED BY <3>1, <3>2, <1>1, <1>3, <2>1 DEF Pointers
  <2>3. Pending'
    <3>1. \A u \in Threads : pc'[u] \in {"wait", "read"} => pc[u] = pc'[u] /\ u # t /\ at[u] \in Frames
      BY <1>2 DEF IInv, Calls
    <3> QED BY <1>1, <1>3, <2>1, <3>1 DEF Pending
  <2>4. Loaded'
    BY <1>0, <1>1, <1>3, <2>1 DEF Loaded, TypeOK
  <2> QED BY <2>2, <2>3, <2>4
<1>7. MapExact'
  BY <1>1, <1>3 DEF IInv, MapExact
<1>8. PinsExact'
  <2> SUFFICES ASSUME ~spoiled, NEW g \in Frames
               PROVE  frame'[g].pins = Cardinality(Users(g)') + Cardinality(Holders(g)') + leaked[g]
    BY <1>1 DEF PinsExact
  <2>1. frame'[g].pins = Cardinality(Users(g)) + Cardinality(Holders(g)) + leaked[g]
    BY <1>3 DEF IInv, PinsExact
  <2>2. CASE g = f
    <3>1. Users(g)' = Users(g) \ {t} /\ t \in Users(g)
      BY <1>1, <1>2, <2>2, Leaves
    <3>2. Holders(g)' = Holders(g) \cup {t} /\ t \notin Holders(g)
      <4>1. Holders(g)' = Holders(g) \cup {t}
        BY <1>0, <1>1, <2>2, GivenHolds
      <4>2. frame[g].page = p /\ \A h \in holds[t] : frame[h[2]].page = h[1]
        BY <1>1, <2>2 DEF IInv, Sound, Pointers, Pending
      <4>3. t \notin Holders(g)
        BY <1>1, <4>2 DEF Holders
      <4> QED BY <4>1, <4>3
    <3>3. Cardinality(Users(g)') = Cardinality(Users(g)) - 1
      BY <3>1, Finite, FS_RemoveElement
    <3>4. Cardinality(Holders(g)') = Cardinality(Holders(g)) + 1
      BY <3>2, Finite, FS_AddElement
    <3> QED BY <1>0, <2>1, <3>3, <3>4, Finite, FrameType
  <2>3. CASE g # f
    <3>1. Users(g)' = Users(g)
      <4>1. \A u \in Threads \ {t} : pc'[u] = pc[u]
        BY <1>2
      <4>2. pc'[t] \in {"run", "over"} /\ at' = at
        BY <1>1, <1>2
      <4> QED BY <1>1, <2>3, <4>1, <4>2, Leaves
    <3>2. Holders(g)' = Holders(g)
      BY <1>0, <1>1, <2>3, GivenHolds
    <3> QED BY <2>1, <3>1, <3>2
  <2> QED BY <2>2, <2>3
<1> QED BY <1>4, <1>5, <1>6, <1>7, <1>8 DEF IInv

(* No victim: the caller leaves its pins behind.                           *)
LEMMA FullIInv ==
  ASSUME IInv, NEW t \in Threads, pc[t] = "run", Unwinds(t),
         UNCHANGED <<poolVars, want, at, spoiled, queries>>
  PROVE  IInv'
<1>0. TypeOK
  BY DEF IInv
<1>1. /\ holds'[t] = {} /\ pc'[t] = "over"
      /\ \A u \in Threads \ {t} : pc'[u] = pc[u] /\ holds'[u] = holds[u]
  BY <1>0, UnwindsTypes
<1> USE DEF poolVars
<1>2. TypeOK'
  BY <1>0, UnwindsTypes DEF TypeOK
<1>3. Calls'
  BY <1>1 DEF IInv, Calls
<1>4. Sound'
  <2> SUFFICES ASSUME ~spoiled PROVE Pointers' /\ Pending' /\ Loaded'
    BY DEF Sound
  <2>1. Pointers /\ Pending /\ Loaded
    BY DEF IInv, Sound
  <2>2. Pointers' /\ Pending'
    BY <1>1, <2>1 DEF Pointers, Pending
  <2>3. \A f \in Frames : frame[f].loading => t \notin Holders(f)
    BY <2>1 DEF Pointers, Holders
  <2>4. Loaded'
    BY <1>0, <2>1, <2>3, UnwindsCounts DEF Loaded
  <2> QED BY <2>2, <2>4
<1>5. MapExact'
  BY DEF IInv, MapExact
<1>6. PinsExact'
  <2> SUFFICES ASSUME ~spoiled, NEW g \in Frames
               PROVE  frame[g].pins = Cardinality(Users(g)') + Cardinality(Holders(g)') + leaked'[g]
    BY DEF PinsExact
  <2>1. frame[g].pins = Cardinality(Users(g)) + Cardinality(Holders(g)) + leaked[g]
    BY DEF IInv, PinsExact
  <2>2. Users(g)' = Users(g)
    BY <1>1 DEF Users
  <2>3. /\ Cardinality(Holders(g)') + leaked'[g] = Cardinality(Holders(g)) + leaked[g]
    BY <1>0, UnwindsCounts DEF IInv, Sound
  <2>4. leaked[g] \in Nat /\ leaked'[g] \in Nat /\ Cardinality(Holders(g)') \in Nat
    <3>1. Holders(g)' = Holders(g) \ {t}
      BY <1>1 DEF Holders
    <3>2. Cardinality(Holders(g) \ {t}) \in Nat
      BY Finite, FS_RemoveElement, FS_CardinalityType
    <3> QED BY <1>0, <1>2, <3>1, <3>2 DEF TypeOK
  <2> QED BY <2>1, <2>2, <2>3, <2>4, Finite
<1> QED BY <1>2, <1>3, <1>4, <1>5, <1>6 DEF IInv

(* A failed read under waiters spoils the pool; else it frees its frame.   *)
LEMMA ReadFailsIInv ==
  ASSUME IInv, NEW t \in Threads, ReadFails(t)
  PROVE  IInv'
<1> USE Constants
<1> DEFINE f == at[t]
           p == want[t]
<1>0. TypeOK
  BY DEF IInv
<1>1. /\ pc[t] = "read" /\ f \in Frames /\ p \in Pages /\ Unwinds(t)
      /\ pageMap' = [pageMap EXCEPT ![p] = None] /\ frame' = [frame EXCEPT ![f] = Empty]
      /\ spoiled' = (spoiled \/ \E u \in Threads : pc[u] = "wait" /\ at[u] = f)
      /\ UNCHANGED <<buffer, hand, want, at, queries>>
  BY DEF ReadFails, IInv, Calls
<1>2. /\ holds'[t] = {} /\ pc'[t] = "over"
      /\ \A u \in Threads \ {t} : pc'[u] = pc[u] /\ holds'[u] = holds[u]
  BY <1>0, <1>1, UnwindsTypes
<1>3. /\ Empty \in FrameStates /\ Empty.page = None /\ Empty.pins = 0 /\ ~Empty.loading
      /\ frame' \in [Frames -> FrameStates] /\ frame'[f] = Empty
      /\ \A g \in Frames \ {f} : frame'[g] = frame[g]
  <2>1. /\ Empty \in FrameStates /\ Empty.page = None /\ Empty.pins = 0 /\ ~Empty.loading
    BY DEF Empty, FrameStates
  <2> QED BY <1>0, <1>1, <2>1 DEF TypeOK
<1>4. TypeOK'
  <2>1. spoiled' \in BOOLEAN
    BY <1>0, <1>1 DEF TypeOK
  <2> QED BY <1>0, <1>1, <1>3, <2>1, UnwindsTypes DEF TypeOK
<1>5. Calls'
  BY <1>1, <1>2 DEF IInv, Calls
<1>6. ASSUME ~spoiled' PROVE Pointers' /\ Pending' /\ Loaded' /\ MapExact' /\ PinsExact'
  <2>1. /\ ~spoiled /\ Pointers /\ Pending /\ Loaded /\ PinsExact
        /\ \A u \in Threads : pc[u] # "wait" \/ at[u] # f
    BY <1>1, <1>6 DEF IInv, Sound
  <2>2. frame[f].page = p /\ frame[f].loading /\ leaked[f] = 0
    BY <1>1, <2>1 DEF Pending, Loaded
  <2>3. t \in Users(f) /\ Users(f) = {t}
    BY <1>1, <2>1 DEF Users, Pending
  <2>4. Holders(f) = {}
    BY <2>1, <2>2 DEF Holders, Pointers
  <2>5. Pointers'
    <3> SUFFICES ASSUME NEW u \in Threads, NEW h \in holds'[u]
                 PROVE  frame'[h[2]].page = h[1] /\ ~frame'[h[2]].loading
      BY DEF Pointers
    <3>1. u # t /\ h \in holds[u]
      BY <1>2
    <3>2. h[2] \in Frames /\ h[2] # f
      BY <1>0, <2>4, <3>1 DEF TypeOK, Holders
    <3> QED BY <1>3, <2>1, <3>1, <3>2 DEF Pointers
  <2>6. Pending'
    <3>1. \A u \in Threads : pc'[u] \in {"wait", "read"} =>
            pc[u] = pc'[u] /\ u # t /\ at[u] \in Frames
      BY <1>2 DEF IInv, Calls
    <3>2. \A u \in Threads : pc'[u] \in {"wait", "read"} => at[u] # f
      BY <1>1, <2>1, <3>1 DEF Pending
    <3> QED BY <1>1, <1>3, <2>1, <3>1, <3>2 DEF Pending
  <2>7. Loaded'
    <3>1. \A g \in Frames : g # f /\ frame[g].loading => leaked'[g] = leaked[g]
      <4> SUFFICES ASSUME NEW g \in Frames, frame[g].loading PROVE leaked'[g] = leaked[g]
        OBVIOUS
      <4>1. t \notin Holders(g)
        BY <2>1 DEF Holders, Pointers
      <4> QED BY <1>0, <1>1, <2>1, <4>1, UnwindsCounts
    <3> QED BY <1>1, <1>3, <2>1, <3>1 DEF Loaded
  <2>8. MapExact'
    <3> SUFFICES ASSUME NEW g \in Frames, NEW q \in Pages
                 PROVE  pageMap'[q] = g <=> frame'[g].page = q
      BY DEF MapExact
    <3>1. pageMap[q] = g <=> frame[g].page = q
      BY <2>1 DEF IInv, MapExact
    <3>2. pageMap'[q] = IF q = p THEN None ELSE pageMap[q]
      BY <1>0, <1>1 DEF TypeOK
    <3>3. pageMap[p] = f
      BY <1>1, <2>1, <2>2 DEF IInv, MapExact
    <3>4. CASE g = f
      BY <1>3, <2>2, <3>1, <3>2, <3>4
    <3>5. CASE g # f
      BY <1>3, <3>1, <3>2, <3>3, <3>5
    <3> QED BY <3>4, <3>5
  <2>9. PinsExact'
    <3> SUFFICES ASSUME NEW g \in Frames
                 PROVE  frame'[g].pins = Cardinality(Users(g)') + Cardinality(Holders(g)') + leaked'[g]
      BY DEF PinsExact
    <3>1. frame[g].pins = Cardinality(Users(g)) + Cardinality(Holders(g)) + leaked[g]
      BY <2>1 DEF PinsExact
    <3>2. /\ Cardinality(Holders(g)') + leaked'[g] = Cardinality(Holders(g)) + leaked[g]
          /\ t \notin Holders(g) => leaked'[g] = leaked[g]
      BY <1>0, <1>1, <2>1, UnwindsCounts
    <3>3. Holders(g)' = Holders(g) \ {t}
      BY <1>2 DEF Holders
    <3>4. CASE g = f
      <4>1. Users(g)' = {} /\ Holders(g)' = {} /\ leaked'[g] = 0
        BY <1>1, <1>2, <2>2, <2>3, <2>4, <3>2, <3>3, <3>4, Leaves
      <4> QED BY <1>3, <3>4, <4>1, FS_EmptySet
    <3>5. CASE g # f
      <4>1. Users(g)' = Users(g)
        BY <1>1, <1>2, <3>5, Leaves
      <4>2. Cardinality(Holders(g)') \in Nat /\ leaked'[g] \in Nat /\ leaked[g] \in Nat
        BY <1>0, <1>4, <3>3, Finite, FS_RemoveElement, FS_CardinalityType DEF TypeOK
      <4> QED BY <1>3, <3>1, <3>2, <3>5, <4>1, <4>2, Finite
    <3> QED BY <3>4, <3>5
  <2> QED BY <2>5, <2>6, <2>7, <2>8, <2>9
<1>7. Sound' /\ MapExact' /\ PinsExact'
  BY <1>6 DEF Sound, MapExact, PinsExact
<1> QED BY <1>4, <1>5, <1>7 DEF IInv

(* The victim is nobody's: the page takes its frame and its entry.         *)
LEMMA MissIInv ==
  ASSUME IInv, NEW t \in Threads, NEW p \in Pages, Miss(t, p)
  PROVE  IInv'
<1> USE Constants
<1> DEFINE v == Sweep.victim
           new == [page |-> p, pins |-> 1, bit |-> TRUE, loading |-> TRUE]
<1>0. TypeOK
  BY DEF IInv
<1>1. /\ pc[t] = "run" /\ \A h \in holds[t] : h[1] # p
      /\ pageMap[p] = None
      /\ frame' = [f \in Frames |-> IF f = v THEN new ELSE [frame[f] EXCEPT !.bit = Sweep.bit[f]]]
      /\ buffer' = [buffer EXCEPT ![v] = None]
      /\ pageMap' = [q \in Pages |-> IF q = p THEN v
                                     ELSE IF q = frame[v].page THEN None ELSE pageMap[q]]
      /\ at' = [at EXCEPT ![t] = v] /\ want' = [want EXCEPT ![t] = p]
      /\ pc' = [pc EXCEPT ![t] = "read"] /\ hand' = Sweep.hand
      /\ UNCHANGED <<holds, leaked, spoiled, queries>>
  BY DEF Miss, MayPin, Goto
<1>2. /\ v \in Frames /\ ~Pinned(v) /\ Sweep.hand \in Frames
      /\ Sweep.bit \in [Frames -> BOOLEAN]
  BY <1>0, SweepFinds DEF Miss
<1> HIDE DEF v
<1>3. /\ frame' \in [Frames -> FrameStates] /\ frame'[v] = new
      /\ \A g \in Frames \ {v} : /\ frame'[g].page = frame[g].page
                                /\ frame'[g].pins = frame[g].pins
                                /\ frame'[g].loading = frame[g].loading
  <2>1. new \in FrameStates
    BY DEF FrameStates
  <2>2. ASSUME NEW g \in Frames
        PROVE  /\ [frame[g] EXCEPT !.bit = Sweep.bit[g]] \in FrameStates
               /\ [frame[g] EXCEPT !.bit = Sweep.bit[g]].page = frame[g].page
               /\ [frame[g] EXCEPT !.bit = Sweep.bit[g]].pins = frame[g].pins
               /\ [frame[g] EXCEPT !.bit = Sweep.bit[g]].loading = frame[g].loading
    <3>1. frame[g] \in FrameStates /\ Sweep.bit[g] \in BOOLEAN
      BY <1>0, <1>2, FrameType
    <3> QED BY <3>1 DEF FrameStates
  <2> HIDE DEF new
  <2> QED BY <1>1, <1>2, <2>1, <2>2
<1>4. TypeOK'
  <2>1. pageMap' \in [Pages -> Frames \cup {None}]
    BY <1>0, <1>1, <1>2 DEF TypeOK
  <2> HIDE DEF new
  <2> QED BY <1>0, <1>1, <1>2, <1>3, <2>1 DEF TypeOK
<1>5. \A u \in Threads :
        /\ pc'[u] = IF u = t THEN "read" ELSE pc[u]
        /\ at'[u] = IF u = t THEN v ELSE at[u]
        /\ want'[u] = IF u = t THEN p ELSE want[u]
  BY <1>0, <1>1 DEF TypeOK
<1>6. Calls'
  <2> SUFFICES ASSUME NEW u \in Threads
               PROVE  /\ pc'[u] \in {"wait", "read"} =>
                           /\ want'[u] \in Pages /\ at'[u] \in Frames
                           /\ \A h \in holds[u] : h[1] # want'[u]
                      /\ pc'[u] = "over" => holds[u] = {}
    BY <1>1 DEF Calls
  <2>1. CASE u = t
    BY <1>1, <1>2, <1>5, <2>1
  <2>2. CASE u # t
    BY <1>5, <2>2 DEF IInv, Calls
  <2> QED BY <2>1, <2>2
<1>7. ASSUME ~spoiled PROVE Pointers' /\ Pending' /\ Loaded' /\ MapExact' /\ PinsExact'
  <2>1. /\ Pointers /\ Pending /\ Loaded /\ PinsExact
    BY <1>7 DEF IInv, Sound
  <2>2. Users(v) = {} /\ Holders(v) = {} /\ leaked[v] = 0
    BY <1>0, <1>2, <1>7, <2>1, UnpinnedIsUnused
  <2>3. Pointers'
    <3> SUFFICES ASSUME NEW u \in Threads, NEW h \in holds[u]
                 PROVE  frame'[h[2]].page = h[1] /\ ~frame'[h[2]].loading
      BY <1>1 DEF Pointers
    <3>1. h[2] \in Frames /\ h[2] # v
      BY <1>0, <2>2 DEF TypeOK, Holders
    <3> QED BY <1>3, <2>1, <3>1 DEF Pointers
  <2>4. Pending'
    <3>1. \A u \in Threads : u # t /\ pc'[u] \in {"wait", "read"} =>
            /\ pc[u] = pc'[u] /\ at'[u] = at[u] /\ want'[u] = want[u]
            /\ at[u] \in Frames /\ at[u] # v
      BY <1>5, <2>2 DEF IInv, Calls, Users
    <3>2. pc'[t] = "read" /\ at'[t] = v /\ want'[t] = p
      BY <1>5
    <3>3. frame'[v].page = p /\ frame'[v].loading
      BY <1>3
    <3> HIDE DEF new
    <3>4. \A u \in Threads : pc'[u] \in {"wait", "read"} => frame'[at'[u]].page = want'[u]
      BY <1>3, <2>1, <3>1, <3>2, <3>3 DEF Pending
    <3>5. \A u \in Threads : pc'[u] = "read" => frame'[at'[u]].loading
      BY <1>3, <2>1, <3>1, <3>2, <3>3 DEF Pending
    <3>6. \A u, w \in Threads : pc'[u] = "read" /\ pc'[w] = "read" /\ at'[u] = at'[w] => u = w
      BY <2>1, <3>1, <3>2 DEF Pending
    <3> QED BY <3>4, <3>5, <3>6 DEF Pending
  <2>5. Loaded'
    BY <1>0, <1>1, <1>2, <1>3, <2>1, <2>2 DEF Loaded, TypeOK
  <2>6. MapExact'
    <3> SUFFICES ASSUME NEW g \in Frames, NEW q \in Pages
                 PROVE  pageMap'[q] = g <=> frame'[g].page = q
      BY DEF MapExact
    <3>1. \A x \in Frames, y \in Pages : pageMap[y] = x <=> frame[x].page = y
      BY <1>7 DEF IInv, MapExact
    <3>2. pageMap'[q] = IF q = p THEN v ELSE IF q = frame[v].page THEN None ELSE pageMap[q]
      BY <1>1
    <3>3. frame'[g].page = IF g = v THEN p ELSE frame[g].page
      BY <1>3
    <3>4. CASE g = v
      BY <1>2, <3>1, <3>2, <3>3, <3>4
    <3>5. CASE g # v
      <4>1. CASE q = p
        <5>1. frame'[g].page = frame[g].page /\ pageMap'[q] = v
          BY <3>2, <3>3, <3>5, <4>1
        <5>2. pageMap[q] # g
          BY <1>1, <4>1, Constants
        <5> QED BY <3>1, <3>5, <5>1, <5>2
      <4>2. CASE q # p /\ q = frame[v].page
        <5>1. pageMap[q] = v
          BY <1>2, <3>1, <4>2
        <5> QED BY <3>1, <3>2, <3>3, <3>5, <4>2, <5>1
      <4>3. CASE q # p /\ q # frame[v].page
        BY <3>1, <3>2, <3>3, <3>5, <4>3
      <4> QED BY <4>1, <4>2, <4>3
    <3> QED BY <3>4, <3>5
  <2>7. PinsExact'
    <3> SUFFICES ASSUME NEW g \in Frames
                 PROVE  frame'[g].pins = Cardinality(Users(g)') + Cardinality(Holders(g)') + leaked[g]
      BY <1>1 DEF PinsExact
    <3>1. /\ frame[g].pins = Cardinality(Users(g)) + Cardinality(Holders(g)) + leaked[g]
          /\ Holders(g)' = Holders(g)
      BY <1>1, <2>1, <1>7 DEF PinsExact, Holders
    <3>2. Users(g)' = IF g = v THEN Users(g) \cup {t} ELSE Users(g)
      BY <1>1, <1>5 DEF Users
    <3>3. CASE g = v
      <4>1. Users(g)' = {t} /\ Holders(g)' = {} /\ leaked[g] = 0
        BY <2>2, <3>1, <3>2, <3>3
      <4>2. frame'[g].pins = 1
        BY <1>3, <3>3
      <4>3. Cardinality({t}) = 1 /\ Cardinality({}) = 0
        BY FS_EmptySet, FS_Singleton
      <4> QED BY <4>1, <4>2, <4>3
    <3>4. CASE g # v
      BY <1>3, <3>1, <3>2, <3>4
    <3> QED BY <3>3, <3>4
  <2> QED BY <2>3, <2>4, <2>5, <2>6, <2>7
<1>8. Sound' /\ MapExact' /\ PinsExact'
  BY <1>1, <1>7 DEF Sound, MapExact, PinsExact
<1> QED BY <1>4, <1>6, <1>8 DEF IInv

(* A holder gives its pin back, to the frame it has a pointer into.        *)
LEMMA UnpinIInv ==
  ASSUME IInv, NEW t \in Threads, NEW h \in holds[t], Unpin(t, h)
  PROVE  IInv'
<1> USE Constants
<1> DEFINE f == pageMap[h[1]]
<1>0. TypeOK /\ h \in Pages \X Frames
  BY DEF IInv, TypeOK
<1>1. /\ pc[t] = "run" /\ f \in Frames /\ Pinned(f)
      /\ frame' = [frame EXCEPT ![f].pins = @ - 1]
      /\ holds' = [holds EXCEPT ![t] = @ \ {h}]
      /\ UNCHANGED <<buffer, pageMap, hand, pc, want, at, leaked, spoiled, queries>>
  BY <1>0 DEF Unpin, TypeOK
<1>2. /\ frame' \in [Frames -> FrameStates] /\ frame'[f].pins = frame[f].pins - 1
      /\ \A g \in Frames : frame'[g].page = frame[g].page /\ frame'[g].loading = frame[g].loading
      /\ \A g \in Frames \ {f} : frame'[g] = frame[g]
  <2> DEFINE x == frame[f]
  <2>1. x \in FrameStates /\ x.pins - 1 \in Nat
    BY <1>0, <1>1, FrameType DEF Pinned
  <2>2. frame' = [frame EXCEPT ![f] = [x EXCEPT !.pins = @ - 1]]
    BY <1>1
  <2>3. /\ [x EXCEPT !.pins = @ - 1] \in FrameStates
        /\ [x EXCEPT !.pins = @ - 1].pins = x.pins - 1
        /\ [x EXCEPT !.pins = @ - 1].page = x.page
        /\ [x EXCEPT !.pins = @ - 1].loading = x.loading
    <3> HIDE DEF x
    <3> QED BY <2>1 DEF FrameStates
  <2> QED BY <1>0, <1>1, <2>2, <2>3 DEF TypeOK
<1>3. \A u \in Threads : holds'[u] = IF u = t THEN holds[u] \ {h} ELSE holds[u]
  BY <1>0, <1>1 DEF TypeOK
<1>4. TypeOK'
  BY <1>0, <1>1, <1>2, <1>3 DEF TypeOK
<1>5. Calls'
  BY <1>1, <1>3 DEF IInv, Calls
<1>6. ASSUME ~spoiled PROVE Pointers' /\ Pending' /\ Loaded' /\ MapExact' /\ PinsExact'
  <2>1. Pointers /\ Pending /\ Loaded /\ PinsExact /\ MapExact
    BY <1>6 DEF IInv, Sound
  <2>2. f = h[2]
    BY <1>0, <1>6, <2>1 DEF Pointers, MapExact
  <2>3. Pointers'
    <3> SUFFICES ASSUME NEW u \in Threads, NEW k \in holds'[u]
                 PROVE  frame'[k[2]].page = k[1] /\ ~frame'[k[2]].loading
      BY DEF Pointers
    <3>1. k \in holds[u]
      BY <1>3
    <3>2. k \in Pages \X Frames
      <4> USE <3>1
      <4> QED BY <1>0 DEF TypeOK
    <3>3. k[2] \in Frames
      BY <3>2
    <3>4. frame[k[2]].page = k[1] /\ ~frame[k[2]].loading
      BY <2>1, <3>1 DEF Pointers
    <3> QED BY <1>2, <3>3, <3>4
  <2>4. Pending'
    BY <1>1, <1>2, <2>1 DEF Pending, IInv, Calls
  <2>5. Loaded'
    BY <1>1, <1>2, <2>1 DEF Loaded
  <2>6. MapExact'
    BY <1>1, <1>2, <2>1 DEF MapExact
  <2>7. PinsExact'
    <3> SUFFICES ASSUME NEW g \in Frames
                 PROVE  frame'[g].pins = Cardinality(Users(g)') + Cardinality(Holders(g)') + leaked[g]
      BY <1>1 DEF PinsExact
    <3>1. /\ frame[g].pins = Cardinality(Users(g)) + Cardinality(Holders(g)) + leaked[g]
          /\ Users(g)' = Users(g)
      BY <1>1, <1>6, <2>1 DEF PinsExact, Users
    <3>2. CASE g = f
      <4>1. \A k \in holds[t] : k[2] = g => k = h
        <5> SUFFICES ASSUME NEW k \in holds[t], k[2] = g PROVE k = h
          OBVIOUS
        <5>1. k[1] = h[1] /\ k[2] = h[2] /\ k \in Pages \X Frames
          BY <1>0, <2>1, <2>2, <3>2 DEF Pointers, TypeOK
        <5> QED BY <1>0, <5>1
      <4>2. Holders(g)' = Holders(g) \ {t} /\ t \in Holders(g)
        BY <1>3, <2>2, <3>2, <4>1 DEF Holders
      <4>3. Cardinality(Holders(g)') = Cardinality(Holders(g)) - 1
        BY <4>2, Finite, FS_RemoveElement
      <4> QED BY <1>0, <1>2, <3>1, <3>2, <4>3, Finite, FrameType
    <3>3. CASE g # f
      <4>1. Holders(g)' = Holders(g)
        BY <1>3, <2>2, <3>3 DEF Holders
      <4> QED BY <1>2, <3>1, <3>3, <4>1
    <3> QED BY <3>2, <3>3
  <2> QED BY <2>3, <2>4, <2>5, <2>6, <2>7
<1>7. Sound' /\ MapExact' /\ PinsExact'
  BY <1>1, <1>6 DEF Sound, MapExact, PinsExact
<1> QED BY <1>4, <1>5, <1>7 DEF IInv

(* The next query finds only the pins left behind.                         *)
LEMMA NextQueryIInv == ASSUME IInv, NextQuery PROVE IInv'
<1>1. /\ \A t \in Threads : pc[t] \in {"run", "over"} /\ pc'[t] = "run"
      /\ pc' \in [Threads -> {"run", "wait", "read", "over"}]
      /\ queries' = queries + 1 /\ queries < MaxQuery
      /\ UNCHANGED <<frame, pageMap, hand, leaked, spoiled, buffer, want, at, holds>>
  BY DEF NextQuery, StartQuery, Ended
<1>2. TypeOK'
  <2>1. queries' \in 1..MaxQuery
    BY <1>1, BufferAssumption DEF IInv, TypeOK
  <2> QED BY <1>1, <2>1 DEF IInv, TypeOK
<1>3. Calls' /\ Sound' /\ MapExact'
  BY <1>1 DEF IInv, Calls, Sound, Pointers, Pending, Loaded, MapExact
<1>4. \A f : Users(f)' = {} /\ Users(f) = {} /\ Holders(f)' = Holders(f)
  BY <1>1 DEF Users, Holders
<1>5. PinsExact'
  BY <1>1, <1>4 DEF IInv, PinsExact
<1> QED BY <1>2, <1>3, <1>5 DEF IInv

(* A cleared pool is an empty one.                                         *)
LEMMA ClearIInv == ASSUME IInv, ClearAndNextQuery PROVE IInv'
<1> USE Constants
<1>1. /\ \A t \in Threads : pc'[t] = "run" /\ holds[t] = {}
      /\ pc' \in [Threads -> {"run", "wait", "read", "over"}]
      /\ pageMap' = [p \in Pages |-> None] /\ frame' = [f \in Frames |-> Empty]
      /\ hand' = 0 /\ queries' = 1 /\ leaked' = [f \in Frames |-> 0] /\ spoiled' = FALSE
      /\ UNCHANGED <<buffer, want, at, holds>>
  BY DEF ClearAndNextQuery, StartQuery, Ended, IInv, Calls
<1>2. /\ Empty \in FrameStates /\ Empty.page = None /\ Empty.pins = 0 /\ ~Empty.loading
      /\ 0 \in Frames /\ 1 \in 1..MaxQuery
  BY BufferAssumption DEF Empty, FrameStates, Frames
<1>3. TypeOK'
  BY <1>1, <1>2 DEF IInv, TypeOK
<1>4. Calls' /\ Sound' /\ MapExact'
  BY <1>1, <1>2 DEF Calls, Sound, Pointers, Pending, Loaded, MapExact
<1>5. \A f : Users(f)' = {} /\ Holders(f)' = {}
  BY <1>1 DEF Users, Holders
<1>6. PinsExact'
  <2>1. Cardinality({}) = 0
    BY FS_EmptySet
  <2> QED BY <1>1, <1>2, <1>5, <2>1 DEF PinsExact
<1> QED BY <1>3, <1>4, <1>6 DEF IInv

(* Every step keeps the invariant.                                         *)
LEMMA StepIInv == IInv /\ [Next]_vars => IInv'
<1> SUFFICES ASSUME IInv, [Next]_vars PROVE IInv'
  OBVIOUS
<1>1. CASE UNCHANGED vars
  <2> USE <1>1 DEF vars, poolVars, threadVars
  <2>1. TypeOK' /\ Calls' /\ Sound' /\ MapExact'
    BY DEF IInv, TypeOK, Calls, Sound, Pointers, Pending, Loaded, MapExact
  <2>2. \A f : Users(f)' = Users(f) /\ Holders(f)' = Holders(f)
    BY DEF Users, Holders
  <2>3. PinsExact'
    BY <2>2 DEF IInv, PinsExact
  <2> QED BY <2>1, <2>3 DEF IInv
<1>2. ASSUME NEW t \in Threads, WaitOver(t) \/ Reads(t) PROVE IInv'
  BY <1>2, WaitOverIInv, ReadDoneIInv, ReadFailsIInv DEF Reads
<1>3. ASSUME NEW t \in Threads, NEW p \in Pages, Hit(t, p) \/ Miss(t, p) \/ Full(t, p)
      PROVE  IInv'
  <2>1. CASE Full(t, p)
    BY <2>1, FullIInv DEF Full, MayPin
  <2> QED BY <1>3, <2>1, HitIInv, MissIInv
<1>4. ASSUME NEW t \in Threads, NEW h \in holds[t], Unpin(t, h) \/ UnpinRefused(t, h)
      PROVE  IInv'
  <2>1. CASE UnpinRefused(t, h)
    BY <2>1, FullIInv DEF UnpinRefused
  <2> QED BY <1>4, <2>1, UnpinIInv
<1> QED
  BY <1>1, <1>2, <1>3, <1>4, NextQueryIInv, ClearIInv DEF Next, ThreadStep

(* The invariant holds throughout.                                         *)
LEMMA Inductive == Spec => []IInv
<1> QED BY InitIInv, StepIInv, PTL DEF Spec
---------------------------------------------------------------------------
(* The theorems.                                                           *)

(* Every variable has its type; pin counts stay natural numbers, also      *)
(* where pins were lost.                                                   *)
THEOREM BufferTyped == Spec => []TypeOK
<1>1. IInv => TypeOK
  BY DEF IInv
<1> QED BY <1>1, Inductive, PTL

(* A page is in the frame the map says, and in no other.                   *)
THEOREM MapHolds == Spec => []MapExact
<1>1. IInv => MapExact
  BY DEF IInv
<1> QED BY <1>1, Inductive, PTL

(* No pin is lost or made up.                                              *)
THEOREM PinsCount == Spec => []PinsExact
<1>1. IInv => PinsExact
  BY DEF IInv
<1> QED BY <1>1, Inductive, PTL

(* What a thread holds is in the bytes it has a pointer to.                *)
LEMMA Shows == IInv => PinShowsPageUnlessSpoiled
<1> SUFFICES ASSUME IInv, ~spoiled, NEW t \in Threads, NEW h \in holds[t]
             PROVE  buffer[h[2]] = h[1]
  BY DEF PinShowsPageUnlessSpoiled, PinShowsPage
<1>1. h[1] \in Pages /\ h[2] \in Frames
  BY DEF IInv, TypeOK
<1>2. frame[h[2]].page = h[1] /\ ~frame[h[2]].loading
  BY DEF IInv, Sound, Pointers
<1> QED BY <1>1, <1>2, Constants DEF IInv, Sound, Loaded

(* A thread reads its page through the pointer pin_page gave it, as long   *)
(* as no read fails while others wait for its page.                        *)
THEOREM PinsShow == Spec => []PinShowsPageUnlessSpoiled
  BY Shows, Inductive, PTL

(* The bounded loop of evict_locked finds the frame that CLOCK takes, for  *)
(* every number of frames, and gives up only if all are pinned.            *)
THEOREM SweepFindsClock == Spec => []SweepIsClock
<1>1. IInv => SweepIsClock
  BY ClockSweep DEF IInv
<1> QED BY <1>1, Inductive, PTL
---------------------------------------------------------------------------
(* The pool keeps its promise, as long as it is not spoiled.               *)

Over == {t \in Threads : pc[t] = "over"}

(* The pages a thread has pinned.                                          *)
LEMMA HeldPages ==
  ASSUME TypeOK, NEW t \in Threads
  PROVE  Promised!Held(t) = {h[1] : h \in holds[t]}
<1>1. Views[t] = {<<h[1], buffer[h[2]]>> : h \in holds[t]}
  BY DEF Views
<1>2. \A v \in Views[t] : \E h \in holds[t] : v[1] = h[1]
  BY <1>1
<1>3. \A h \in holds[t] : \E v \in Views[t] : v[1] = h[1]
  <2> TAKE h \in holds[t]
  <2> DEFINE v == <<h[1], buffer[h[2]]>>
  <2>1. v \in Views[t] /\ v[1] = h[1]
    BY <1>1
  <2> QED BY <2>1
<1> HIDE DEF Views
<1> QED BY <1>2, <1>3 DEF Promised!Held

(* A thread in run that does not have page p may pin it.                   *)
LEMMA MayPinIsFree ==
  ASSUME TypeOK, NEW t \in Threads, NEW p \in Pages, MayPin(t, p)
  PROVE  Promised!Free(t, p)
<1>1. t \notin Over /\ Asks[t] = None
  BY DEF MayPin, Over, Asks
<1>2. p \notin Promised!Held(t)
  BY HeldPages DEF MayPin
<1> QED BY <1>1, <1>2 DEF Promised!Free, Over

(* A thread's view stays when nobody writes to its frames.                 *)
LEMMA ViewStays ==
  ASSUME NEW t \in Threads, holds'[t] = holds[t],
         \A h \in holds[t] : buffer'[h[2]] = buffer[h[2]]
  PROVE  Views'[t] = Views[t]
  BY DEF Views

(* What was left behind stays where it is.                                 *)
LEMMA LeftStays ==
  ASSUME leaked' = leaked,
         \A f \in Frames : leaked[f] # 0 => frame'[f].page = frame[f].page
  PROVE  Left' = Left
  BY DEF Left

(* Views and Asks are functions of the threads.                            *)
LEMMA MappedAre ==
  /\ Views = [t \in Threads |-> Views[t]] /\ Views' = [t \in Threads |-> Views'[t]]
  /\ Asks = [t \in Threads |-> Asks[t]] /\ Asks' = [t \in Threads |-> Asks'[t]]
  BY DEF Views, Asks

(* Thread t gets its pointer, and nobody else's bytes change.              *)
LEMMA GivenShown ==
  ASSUME TypeOK, NEW t \in Threads, NEW p, NEW f, Given(t, p, f), buffer'[f] = p,
         \A u \in Threads : \A h \in holds[u] : buffer'[h[2]] = buffer[h[2]]
  PROVE  Promised!Shown(t, p)
<1>1. \A u \in Threads : holds'[u] = IF u = t THEN holds[u] \cup {<<p, f>>} ELSE holds[u]
  BY GivenHolds
<1>2. \A u \in Threads \ {t} : Views'[u] = Views[u]
  BY <1>1, ViewStays
<1>3. Views'[t] = Views[t] \cup {<<p, p>>}
  <2>1. Views'[t] = {<<h[1], buffer'[h[2]]>> : h \in holds[t] \cup {<<p, f>>}}
    BY <1>1 DEF Views
  <2>2. Views[t] = {<<h[1], buffer'[h[2]]>> : h \in holds[t]}
    BY DEF Views
  <2> DEFINE q == <<p, f>>
  <2>3. <<q[1], buffer'[q[2]]>> = <<p, p>>
    OBVIOUS
  <2>4. Views'[t] = {<<h[1], buffer'[h[2]]>> : h \in holds[t] \cup {q}}
    BY <2>1
  <2> HIDE DEF q, Views
  <2>5. Views'[t] = {<<h[1], buffer'[h[2]]>> : h \in holds[t]} \cup {<<q[1], buffer'[q[2]]>>}
    BY <2>4
  <2> QED BY <2>2, <2>3, <2>5
<1>4. Views' = [Views EXCEPT ![t] = @ \cup {<<p, p>>}]
  <2> HIDE DEF Views
  <2> QED BY <1>2, <1>3, MappedAre
<1> QED BY <1>4 DEF Promised!Shown

(* Thread t throws: its pins are left behind.                              *)
LEMMA UnwindsThrows ==
  ASSUME IInv, ~spoiled, NEW t \in Threads, Unwinds(t), UNCHANGED <<buffer, want>>,
         \A f \in Frames : leaked'[f] # 0 => frame'[f].page = frame[f].page
  PROVE  Promised!Throws(t)
<1>0. TypeOK /\ Pointers
  BY DEF IInv, Sound
<1>1. /\ pc' = [pc EXCEPT ![t] = "over"] /\ pc'[t] = "over" /\ holds'[t] = {}
      /\ \A u \in Threads \ {t} : pc'[u] = pc[u] /\ holds'[u] = holds[u]
  BY <1>0, UnwindsTypes DEF Unwinds, Goto
<1>2. Over' = Over \cup {t}
  BY <1>1 DEF Over
<1>3. Views' = [Views EXCEPT ![t] = {}]
  <2>1. Views'[t] = {} /\ \A u \in Threads \ {t} : Views'[u] = Views[u]
    BY <1>1, ViewStays DEF Views
  <2> HIDE DEF Views
  <2> QED BY <2>1, MappedAre
<1>4. Asks' = [Asks EXCEPT ![t] = None]
  <2>1. Asks'[t] = None /\ \A u \in Threads \ {t} : Asks'[u] = Asks[u]
    BY <1>1 DEF Asks
  <2> HIDE DEF Asks
  <2> QED BY <2>1, MappedAre
<1>5. Left' = Left \cup Promised!Held(t)
  <2>1. \A f \in Frames : leaked'[f] # 0 <=> leaked[f] # 0 \/ t \in Holders(f)
    <3> TAKE f \in Frames
    <3>1. leaked'[f] = leaked[f] + IF t \in Holders(f) THEN 1 ELSE 0
      BY <1>0, OnePin DEF Unwinds
    <3>2. leaked[f] \in Nat
      BY <1>0 DEF TypeOK
    <3> QED BY <3>1, <3>2
  <2>2. Left' = {frame[f].page : f \in {g \in Frames : leaked'[g] # 0}}
    BY DEF Left
  <2>3. Left' = Left \cup {frame[f].page : f \in {g \in Frames : t \in Holders(g)}}
    BY <2>1, <2>2 DEF Left
  <2>4. {frame[f].page : f \in {g \in Frames : t \in Holders(g)}} = {h[1] : h \in holds[t]}
    <3>1. \A h \in holds[t] : h[2] \in Frames /\ frame[h[2]].page = h[1] /\ t \in Holders(h[2])
      BY <1>0 DEF TypeOK, Pointers, Holders
    <3>2. \A g \in Frames : t \in Holders(g) => \E h \in holds[t] : h[2] = g
      BY DEF Holders
    <3> QED BY <3>1, <3>2
  <2> QED BY <1>0, <2>3, <2>4, HeldPages
<1> QED BY <1>2, <1>3, <1>4, <1>5 DEF Promised!Throws, Over

(* What is not written to: the bytes of the frames someone has a pointer   *)
(* to, and the page of a frame with pins left behind.                      *)
Untouched ==
  /\ \A u \in Threads : \A h \in holds[u] : buffer'[h[2]] = buffer[h[2]]
  /\ \A f \in Frames : leaked[f] # 0 => frame'[f].page = frame[f].page

(* A thread begins to wait for a page, or to read it.                      *)
LEMMA AskMaps ==
  ASSUME TypeOK, NEW t \in Threads, NEW p \in Pages, MayPin(t, p), Untouched,
         NEW w \in {"wait", "read"}, pc' = [pc EXCEPT ![t] = w],
         want' = [want EXCEPT ![t] = p], UNCHANGED <<holds, leaked, spoiled>>
  PROVE  Promised!Ask(t, p)
<1>1. Promised!Free(t, p)
  BY MayPinIsFree
<1>2. Asks' = [Asks EXCEPT ![t] = p]
  <2>1. Asks'[t] = p /\ \A u \in Threads \ {t} : Asks'[u] = Asks[u]
    BY DEF Asks, TypeOK
  <2> HIDE DEF Asks
  <2> QED BY <2>1, MappedAre
<1>3. Views' = Views
  <2>1. \A u \in Threads : Views'[u] = Views[u]
    BY ViewStays DEF Untouched
  <2> HIDE DEF Views
  <2> QED BY <2>1, MappedAre
<1>4. Over' = Over
  BY DEF Over, MayPin, TypeOK
<1>5. Left' = Left
  BY LeftStays DEF Untouched
<1> QED BY <1>1, <1>2, <1>3, <1>4, <1>5 DEF Promised!Ask, Over

(* A thread gets the page it has asked for.                                *)
LEMMA GetMaps ==
  ASSUME IInv, NEW t \in Threads, pc[t] \in {"wait", "read"}, Untouched,
         pc' = [pc EXCEPT ![t] = "run"], Given(t, want[t], at[t]), buffer'[at[t]] = want[t],
         UNCHANGED <<want, leaked, spoiled>>
  PROVE  Promised!Get(t)
<1>0. TypeOK /\ want[t] \in Pages
  BY DEF IInv, Calls
<1>1. Asks[t] = want[t] /\ Asks[t] # None
  BY <1>0, Constants DEF Asks
<1>2. Promised!Shown(t, Asks[t])
  BY <1>0, <1>1, GivenShown DEF Untouched
<1>3. Asks' = [Asks EXCEPT ![t] = None]
  <2>1. Asks'[t] = None /\ \A u \in Threads \ {t} : Asks'[u] = Asks[u]
    BY <1>0 DEF Asks, TypeOK
  <2> HIDE DEF Asks
  <2> QED BY <2>1, MappedAre
<1>4. Over' = Over
  BY <1>0 DEF Over, TypeOK
<1>5. Left' = Left
  BY LeftStays DEF Untouched
<1> QED BY <1>1, <1>2, <1>3, <1>4, <1>5 DEF Promised!Get, Over

LEMMA HitMaps ==
  ASSUME IInv, ~spoiled, NEW t \in Threads, NEW p \in Pages, Hit(t, p)
  PROVE  Promised!Ask(t, p) \/ Promised!PinAtOnce(t, p)
<1> DEFINE f == pageMap[p]
<1>0. TypeOK /\ f \in Frames
  BY DEF IInv, Hit, TypeOK
<1>1. /\ MayPin(t, p) /\ UNCHANGED <<buffer, leaked, spoiled>>
      /\ frame' = [frame EXCEPT ![f].pins = @ + 1, ![f].bit = TRUE]
  BY DEF Hit
<1>2. \A g \in Frames : frame'[g].page = frame[g].page
  BY <1>0, <1>1 DEF TypeOK, FrameStates
<1>3. Untouched
  BY <1>1, <1>2 DEF Untouched
<1>4. CASE frame[f].loading
  BY <1>0, <1>1, <1>3, <1>4, AskMaps DEF Hit, Goto
<1>5. CASE ~frame[f].loading
  <2>1. Given(t, p, f) /\ UNCHANGED <<pc, want>>
    BY <1>5 DEF Hit
  <2>2. frame[f].page = p
    BY <1>0 DEF IInv, MapExact
  <2>3. buffer'[f] = p
    BY <1>0, <1>1, <1>5, <2>2, Constants DEF IInv, Sound, Loaded
  <2>4. Promised!Shown(t, p)
    BY <1>0, <2>1, <2>3, <1>3, GivenShown DEF Untouched
  <2>5. UNCHANGED <<Asks, Over, Left>>
    BY <1>1, <1>3, <2>1, LeftStays DEF Asks, Over, Untouched
  <2>6. Promised!Free(t, p)
    BY <1>0, <1>1, MayPinIsFree
  <2> QED BY <1>1, <2>4, <2>5, <2>6 DEF Promised!PinAtOnce, Over
<1> QED BY <1>4, <1>5

(* The victim is nobody's.                                                 *)
LEMMA MissMaps ==
  ASSUME IInv, ~spoiled, NEW t \in Threads, NEW p \in Pages, Miss(t, p)
  PROVE  Promised!Ask(t, p)
<1> DEFINE v == Sweep.victim
<1>0. TypeOK
  BY DEF IInv
<1>1. /\ MayPin(t, p) /\ v # None /\ UNCHANGED <<holds, leaked, spoiled>>
      /\ pc' = [pc EXCEPT ![t] = "read"] /\ want' = [want EXCEPT ![t] = p]
      /\ buffer' = [buffer EXCEPT ![v] = None]
      /\ frame' = [f \in Frames |->
           IF f = v THEN [page |-> p, pins |-> 1, bit |-> TRUE, loading |-> TRUE]
           ELSE [frame[f] EXCEPT !.bit = Sweep.bit[f]]]
  BY DEF Miss, Goto
<1>2. v \in Frames /\ ~Pinned(v)
  BY <1>0, <1>1, SweepEnds, SweepFinds DEF SweptFor, First, Free
<1> HIDE DEF v
<1>3. Holders(v) = {} /\ leaked[v] = 0
  BY <1>0, <1>2, UnpinnedIsUnused DEF IInv
<1>4. \A u \in Threads : \A h \in holds[u] : h[2] \in Frames /\ h[2] # v
  BY <1>0, <1>3 DEF Holders, TypeOK
<1>5. \A f \in Frames \ {v} : buffer'[f] = buffer[f] /\ frame'[f].page = frame[f].page
  BY <1>0, <1>1 DEF TypeOK, FrameStates
<1>6. Untouched
  BY <1>3, <1>4, <1>5 DEF Untouched
<1> QED BY <1>0, <1>1, <1>6, AskMaps

LEMMA WaitOverMaps ==
  ASSUME IInv, ~spoiled, NEW t \in Threads, WaitOver(t)
  PROVE  Promised!Get(t)
<1>0. TypeOK /\ want[t] \in Pages /\ at[t] \in Frames /\ pc[t] = "wait"
  BY DEF IInv, Calls, WaitOver
<1>1. /\ Given(t, want[t], at[t]) /\ pc' = [pc EXCEPT ![t] = "run"]
      /\ UNCHANGED <<frame, buffer, want, leaked, spoiled>>
  BY DEF WaitOver, Goto, poolVars
<1>2. frame[at[t]].page = want[t] /\ ~frame[at[t]].loading
  BY <1>0 DEF IInv, Sound, Pending, WaitOver
<1>3. buffer'[at[t]] = want[t]
  BY <1>0, <1>1, <1>2, Constants DEF IInv, Sound, Loaded
<1>4. Untouched
  BY <1>1 DEF Untouched
<1> QED BY <1>0, <1>1, <1>3, <1>4, GetMaps

(* Nobody has a pointer to a frame that is read.                           *)
LEMMA ReadDoneMaps ==
  ASSUME IInv, ~spoiled, NEW t \in Threads, ReadDone(t)
  PROVE  Promised!Get(t)
<1>0. TypeOK /\ want[t] \in Pages /\ at[t] \in Frames /\ pc[t] = "read"
  BY DEF IInv, Calls, ReadDone
<1>1. /\ Given(t, want[t], at[t]) /\ pc' = [pc EXCEPT ![t] = "run"]
      /\ buffer' = [buffer EXCEPT ![at[t]] = want[t]]
      /\ frame' = [frame EXCEPT ![at[t]].loading = FALSE]
      /\ UNCHANGED <<want, leaked, spoiled>>
  BY DEF ReadDone, Goto
<1>2. frame[at[t]].loading
  BY <1>0 DEF IInv, Sound, Pending
<1>3. \A u \in Threads : \A h \in holds[u] : h[2] \in Frames /\ h[2] # at[t]
  BY <1>0, <1>2 DEF IInv, Sound, Pointers, TypeOK
<1>4. buffer'[at[t]] = want[t] /\ \A f \in Frames \ {at[t]} : buffer'[f] = buffer[f]
  BY <1>0, <1>1 DEF TypeOK
<1>5. \A f \in Frames : frame'[f].page = frame[f].page
  BY <1>0, <1>1 DEF TypeOK, FrameStates
<1>6. Untouched
  BY <1>3, <1>4, <1>5 DEF Untouched
<1> QED BY <1>0, <1>1, <1>4, <1>6, GetMaps

(* A page is found again where it was pinned.                              *)
LEMMA HeldIsMapped ==
  ASSUME IInv, ~spoiled, NEW t \in Threads, NEW h \in holds[t]
  PROVE  /\ h[1] \in Pages /\ h[2] \in Frames /\ h = <<h[1], h[2]>>
         /\ pageMap[h[1]] = h[2] /\ Pinned(h[2])
<1>0. TypeOK /\ h[1] \in Pages /\ h[2] \in Frames /\ h = <<h[1], h[2]>>
  BY DEF IInv, TypeOK
<1>1. frame[h[2]].page = h[1]
  BY DEF IInv, Sound, Pointers
<1>2. pageMap[h[1]] = h[2]
  BY <1>0, <1>1 DEF IInv, MapExact
<1>3. Pinned(h[2])
  <2>1. t \in Holders(h[2])
    BY DEF Holders
  <2> QED BY <1>0, <2>1, UnpinnedIsUnused DEF IInv
<1> QED BY <1>0, <1>2, <1>3

LEMMA UnpinMaps ==
  ASSUME IInv, ~spoiled, NEW t \in Threads, NEW h \in holds[t], Unpin(t, h)
  PROVE  Promised!Unpin(t)
<1>0. TypeOK /\ pc[t] = "run" /\ pageMap[h[1]] \in Frames
  BY HeldIsMapped DEF IInv, Unpin
<1>1. /\ frame' = [frame EXCEPT ![pageMap[h[1]]].pins = @ - 1]
      /\ holds' = [holds EXCEPT ![t] = @ \ {h}]
      /\ UNCHANGED <<buffer, pc, want, leaked, spoiled>>
  BY DEF Unpin
<1>2. \A f \in Frames : frame'[f].page = frame[f].page
  BY <1>0, <1>1 DEF TypeOK, FrameStates
<1>3. UNCHANGED <<Asks, Over, Left>>
  BY <1>1, <1>2, LeftStays DEF Asks, Over
<1>4. \A u \in Threads \ {t} : Views'[u] = Views[u]
  <2>1. \A u \in Threads \ {t} : holds'[u] = holds[u]
    BY <1>0, <1>1 DEF TypeOK
  <2> QED BY <1>1, <2>1, ViewStays
<1> DEFINE v == <<h[1], buffer[h[2]]>>
<1>5. v \in Views[t] /\ Views'[t] = Views[t] \ {v}
  <2>1. Views[t] = {<<g[1], buffer[g[2]]>> : g \in holds[t]}
    BY DEF Views
  <2>2. Views'[t] = {<<g[1], buffer[g[2]]>> : g \in holds[t] \ {h}}
    BY <1>0, <1>1 DEF Views, TypeOK
  <2>3. \A g \in holds[t] \ {h} : <<g[1], buffer[g[2]]>> # v
    <3> SUFFICES ASSUME NEW g \in holds[t], g[1] = h[1] PROVE g = h
      OBVIOUS
    <3> QED BY HeldIsMapped
  <2> QED BY <2>1, <2>2, <2>3
<1>6. Views' = [Views EXCEPT ![t] = @ \ {v}]
  <2> HIDE DEF Views, v
  <2> QED BY <1>4, <1>5, MappedAre
<1>7. t \notin Over /\ Asks[t] = None
  BY <1>0 DEF Over, Asks
<1> HIDE DEF v
<1> QED BY <1>1, <1>3, <1>5, <1>6, <1>7 DEF Promised!Unpin, Over

LEMMA UnpinNotRefused ==
  ASSUME IInv, ~spoiled, NEW t \in Threads, NEW h \in holds[t]
  PROVE  ~UnpinRefused(t, h)
  BY HeldIsMapped, Constants DEF UnpinRefused

(* The read that fails is waited for by those who have asked for its page. *)
LEMMA ReadFailsMaps ==
  ASSUME IInv, ~spoiled, NEW t \in Threads, ReadFails(t)
  PROVE  Promised!ReadFails(t)
<1> DEFINE f == at[t]
<1>0. /\ TypeOK /\ Pointers /\ Pending /\ Loaded /\ MapExact
      /\ want[t] \in Pages /\ f \in Frames /\ pc[t] = "read"
  BY DEF IInv, Sound, Calls, ReadFails
<1>1. /\ Unwinds(t) /\ frame' = [frame EXCEPT ![f] = Empty]
      /\ UNCHANGED <<buffer, want>>
      /\ spoiled' = \E u \in Threads : pc[u] = "wait" /\ at[u] = f
  BY DEF ReadFails
<1>2. frame[f].page = want[t] /\ frame[f].loading /\ leaked[f] = 0
  BY <1>0 DEF Pending, Loaded
<1>3. leaked'[f] = 0
  <2>1. t \notin Holders(f)
    BY <1>0, <1>2 DEF Pointers, Holders
  <2> QED BY <1>0, <1>1, <1>2, <2>1, UnwindsCounts
<1>4. Promised!Throws(t)
  <2>1. \A g \in Frames \ {f} : frame'[g] = frame[g]
    BY <1>0, <1>1 DEF TypeOK
  <2> QED BY <1>1, <1>3, <2>1, UnwindsThrows
<1>5. Asks[t] = want[t] /\ Asks[t] # None
  BY <1>0, Constants DEF Asks
<1>6. \A u \in Threads \ {t} : Asks[u] = Asks[t] <=> pc[u] = "wait" /\ at[u] = f
  <2> TAKE u \in Threads \ {t}
  <2>1. ASSUME Asks[u] = Asks[t] PROVE pc[u] = "wait" /\ at[u] = f
    <3>1. pc[u] \in {"wait", "read"} /\ want[u] = want[t]
      BY <1>5, <2>1 DEF Asks
    <3>2. at[u] \in Frames /\ frame[at[u]].page = want[t]
      BY <1>0, <3>1 DEF Pending, IInv, Calls
    <3>3. at[u] = f
      BY <1>0, <1>2, <3>2 DEF MapExact
    <3> QED BY <1>0, <3>1, <3>3 DEF Pending
  <2>2. ASSUME pc[u] = "wait", at[u] = f PROVE Asks[u] = Asks[t]
    BY <1>0, <1>2, <1>5, <2>2 DEF Pending, Asks
  <2> QED BY <2>1, <2>2
<1>7. spoiled' = \E u \in Threads \ {t} : Asks[u] = Asks[t]
  BY <1>0, <1>1, <1>6
<1> HIDE DEF f
<1> QED BY <1>4, <1>5, <1>7 DEF Promised!ReadFails

(* A frame whose pins were left behind has a page.                         *)
LeftHavePages == ~spoiled => \A f \in Frames : leaked[f] # 0 => frame[f].page # None

LEMMA LeftPagesInit == Init => LeftHavePages
  BY DEF Init, LeftHavePages

LEMMA UnwindsLeft ==
  ASSUME IInv, LeftHavePages, ~spoiled, NEW t \in Threads, Unwinds(t),
         NEW f \in Frames, frame'[f].page = frame[f].page, leaked'[f] # 0
  PROVE  frame'[f].page # None
<1>0. TypeOK /\ Pointers
  BY DEF IInv, Sound
<1>1. CASE t \in Holders(f)
  <2>1. PICK h \in holds[t] : h[2] = f
    BY <1>1 DEF Holders
  <2> QED BY <1>0, <2>1, Constants DEF Pointers, TypeOK
<1>2. CASE t \notin Holders(f)
  BY <1>0, <1>2, UnwindsCounts DEF LeftHavePages
<1> QED BY <1>1, <1>2

LEMMA LeftPagesStep ==
  ASSUME IInv, LeftHavePages, [Next]_vars
  PROVE  LeftHavePages'
<1>0. TypeOK
  BY DEF IInv
<1>1. ASSUME NEW t \in Threads, ReadDone(t) \/ WaitOver(t) PROVE LeftHavePages'
  <2>1. UNCHANGED <<leaked, spoiled>> /\ \A f \in Frames : frame'[f].page = frame[f].page
    BY <1>0, <1>1 DEF ReadDone, WaitOver, poolVars, TypeOK, FrameStates
  <2> QED BY <2>1 DEF LeftHavePages
<1>2. ASSUME NEW t \in Threads, ReadFails(t) PROVE LeftHavePages'
  <2> SUFFICES ASSUME ~spoiled', NEW f \in Frames, leaked'[f] # 0
               PROVE  frame'[f].page # None
    BY DEF LeftHavePages
  <2>1. /\ ~spoiled /\ Unwinds(t) /\ pc[t] = "read" /\ at[t] \in Frames
        /\ frame' = [frame EXCEPT ![at[t]] = Empty]
    BY <1>2 DEF ReadFails, IInv, Calls
  <2>2. Pointers /\ frame[at[t]].loading /\ leaked[at[t]] = 0
    BY <2>1 DEF IInv, Sound, Pending, Loaded
  <2>3. t \notin Holders(at[t])
    BY <2>2 DEF Pointers, Holders
  <2>4. f # at[t]
    BY <1>0, <2>1, <2>2, <2>3, UnwindsCounts
  <2> QED BY <1>0, <2>1, <2>4, UnwindsLeft DEF TypeOK
<1>3. ASSUME NEW t \in Threads, NEW p \in Pages, Hit(t, p) PROVE LeftHavePages'
  <2>1. pageMap[p] \in Frames
    BY <1>0, <1>3 DEF Hit, TypeOK
  <2>2. UNCHANGED <<leaked, spoiled>> /\ \A f \in Frames : frame'[f].page = frame[f].page
    BY <1>0, <1>3, <2>1 DEF Hit, TypeOK, FrameStates
  <2> QED BY <2>2 DEF LeftHavePages
<1>4. ASSUME NEW t \in Threads, NEW p \in Pages, Miss(t, p) PROVE LeftHavePages'
  <2>1. /\ UNCHANGED <<leaked, spoiled>>
        /\ \A f \in Frames : frame'[f].page = IF f = Sweep.victim THEN p ELSE frame[f].page
    BY <1>0, <1>4 DEF Miss, TypeOK, FrameStates
  <2> QED BY <2>1, Constants DEF LeftHavePages
<1>5. ASSUME NEW t \in Threads, NEW p \in Pages, Full(t, p) PROVE LeftHavePages'
  BY <1>5, UnwindsLeft DEF Full, poolVars, LeftHavePages
<1>6. ASSUME NEW t \in Threads, NEW h \in holds[t], Unpin(t, h) PROVE LeftHavePages'
  <2>1. pageMap[h[1]] \in Frames
    BY <1>0, <1>6 DEF Unpin, TypeOK
  <2>2. UNCHANGED <<leaked, spoiled>> /\ \A f \in Frames : frame'[f].page = frame[f].page
    BY <1>0, <1>6, <2>1 DEF Unpin, TypeOK, FrameStates
  <2> QED BY <2>2 DEF LeftHavePages
<1>7. ASSUME NEW t \in Threads, NEW h \in holds[t], UnpinRefused(t, h) PROVE LeftHavePages'
  BY <1>7, UnwindsLeft DEF UnpinRefused, poolVars, LeftHavePages
<1>8. CASE NextQuery
  BY <1>8 DEF NextQuery, LeftHavePages
<1>9. CASE ClearAndNextQuery
  BY <1>9 DEF ClearAndNextQuery, LeftHavePages
<1>10. CASE UNCHANGED vars
  BY <1>10 DEF vars, poolVars, LeftHavePages
<1> QED
  BY <1>1, <1>2, <1>3, <1>4, <1>5, <1>6, <1>7, <1>8, <1>9, <1>10 DEF Next, ThreadStep, Reads

(* A pinned frame has a page that is in use, and not the one pin_page      *)
(* found nowhere.                                                          *)
LEMMA PinnedIsBusy ==
  ASSUME IInv, LeftHavePages, ~spoiled, NEW f \in Frames, Pinned(f),
         NEW p \in Pages, pageMap[p] = None
  PROVE  frame[f].page \in Pages /\ frame[f].page \in Promised!Busy \ {p}
<1>0. TypeOK /\ Pointers /\ Pending
  BY DEF IInv, Sound
<1>1. Users(f) # {} \/ Holders(f) # {} \/ leaked[f] # 0
  <2>1. frame[f].pins \in Nat /\ frame[f].pins > 0
    BY <1>0, FrameType DEF Pinned
  <2>2. frame[f].pins = Cardinality(Users(f)) + Cardinality(Holders(f)) + leaked[f]
    BY DEF IInv, PinsExact
  <2>3. Cardinality({}) = 0
    BY FS_EmptySet
  <2>4. CASE Users(f) = {} /\ Holders(f) = {} /\ leaked[f] = 0
    BY <2>1, <2>2, <2>3, <2>4
  <2> QED BY <2>4
<1>2. frame[f].page \in Pages /\ frame[f].page \in Promised!Busy
  <2>1. CASE Users(f) # {}
    <3>1. PICK u \in Threads : pc[u] \in {"wait", "read"} /\ at[u] = f
      BY <2>1 DEF Users
    <3>2. frame[f].page = want[u] /\ want[u] \in Pages
      BY <1>0, <3>1 DEF Pending, IInv, Calls
    <3>3. Asks[u] = frame[f].page /\ Asks[u] # None
      BY <3>1, <3>2, Constants DEF Asks
    <3> HIDE DEF Asks, Views, Left
    <3> QED BY <3>2, <3>3 DEF Promised!Busy
  <2>2. CASE Holders(f) # {}
    <3>1. PICK u \in Threads : \E h \in holds[u] : h[2] = f
      BY <2>2 DEF Holders
    <3>2. PICK h \in holds[u] : h[2] = f
      BY <3>1
    <3>3. frame[f].page = h[1] /\ h[1] \in Pages
      BY <1>0, <3>2 DEF Pointers, TypeOK
    <3>4. h[1] \in Promised!Held(u)
      BY <1>0, HeldPages
    <3> HIDE DEF Asks, Views, Left
    <3> QED BY <3>3, <3>4 DEF Promised!Busy
  <2>3. CASE leaked[f] # 0
    <3>1. frame[f].page \in Left
      BY <2>3 DEF Left
    <3>2. frame[f].page \in Pages
      BY <1>0, <2>3, FrameType DEF LeftHavePages
    <3> HIDE DEF Asks, Views, Left
    <3> QED BY <3>1, <3>2 DEF Promised!Busy
  <2> QED BY <1>1, <2>1, <2>2, <2>3
<1>3. frame[f].page # p
  BY <1>0, Constants DEF IInv, MapExact
<1> QED BY <1>2, <1>3

(* "all frames pinned": then N other pages are in use.                     *)
LEMMA FullMaps ==
  ASSUME IInv, LeftHavePages, ~spoiled, NEW t \in Threads, NEW p \in Pages, Full(t, p)
  PROVE  Promised!Refuse(t, p)
<1>0. TypeOK
  BY DEF IInv
<1>1. /\ MayPin(t, p) /\ pageMap[p] = None /\ Sweep.victim = None /\ Unwinds(t)
      /\ UNCHANGED <<frame, buffer, want, spoiled>>
  BY DEF Full, poolVars
<1>2. \A f \in Frames : frame[f].page \in Pages /\ frame[f].page \in Promised!Busy \ {p}
  <2>1. \A f \in Frames : Pinned(f)
    BY <1>0, <1>1, SweepFinds
  <2> QED BY <1>1, <2>1, PinnedIsBusy
<1> DEFINE S == {frame[f].page : f \in Frames}
           F == [f \in Frames |-> frame[f].page]
<1>3. S \in SUBSET (Promised!Busy \ {p})
  BY <1>2
<1>4. Cardinality(S) = N
  <2>1. F \in Surjection(Frames, S)
    BY DEF Surjection
  <2>2. ASSUME NEW f \in Frames, NEW g \in Frames, frame[f].page = frame[g].page
        PROVE  f = g
    BY <1>2, <2>2 DEF IInv, MapExact
  <2>3. F \in Injection(Frames, S)
    BY <2>2 DEF Injection, IsInjective
  <2>4. IsFiniteSet(Frames) /\ Cardinality(Frames) = N
    BY Constants, FS_Interval DEF Frames
  <2> HIDE DEF F, S
  <2> QED BY <2>1, <2>3, <2>4, FS_Surjection
<1>5. Promised!Throws(t)
  BY <1>1, UnwindsThrows
<1>6. Promised!Free(t, p)
  BY <1>0, <1>1, MayPinIsFree
<1>7. \A T : Promised!Cardinality(T) = Cardinality(T)
  BY DEF Promised!Cardinality, Cardinality
<1>8. \E T \in SUBSET (Promised!Busy \ {p}) : Cardinality(T) = N
  <2> HIDE DEF S
  <2> QED BY <1>3, <1>4
<1> QED BY <1>1, <1>5, <1>6, <1>7, <1>8 DEF Promised!Refuse

(* Between two queries no thread has or asks for a page.                   *)
LEMMA EndedAtRest ==
  ASSUME TypeOK, Calls, Ended, StartQuery
  PROVE  Promised!AtRest /\ UNCHANGED <<Views, Asks>> /\ Over' = {}
<1>1. \A t \in Threads : holds[t] = {} /\ pc[t] \notin {"wait", "read"}
  BY DEF Ended, Calls
<1>2. \A t \in Threads : Views[t] = {} /\ Asks[t] = None
  BY <1>1 DEF Views, Asks
<1>3. Promised!AtRest
  <2> HIDE DEF Views, Asks
  <2> QED BY <1>2 DEF Promised!AtRest
<1>4. Views' = Views /\ Over' = {}
  BY DEF StartQuery, Views, Over
<1>5. Asks' = Asks
  <2>1. \A t \in Threads : Asks'[t] = None
    BY DEF StartQuery, Asks
  <2> HIDE DEF Asks
  <2> QED BY <1>2, <2>1, MappedAre
<1> QED BY <1>3, <1>4, <1>5

LEMMA NextQueryMaps ==
  ASSUME IInv, NextQuery
  PROVE  Promised!NextQuery
<1>1. Promised!AtRest /\ UNCHANGED <<Views, Asks>> /\ Over' = {}
  BY EndedAtRest DEF NextQuery, IInv
<1>2. UNCHANGED <<Left, spoiled>>
  BY DEF NextQuery, Left
<1> QED BY <1>1, <1>2 DEF Promised!NextQuery, Over

LEMMA ClearMaps ==
  ASSUME IInv, ClearAndNextQuery
  PROVE  Promised!Clear
<1>1. Promised!AtRest /\ UNCHANGED <<Views, Asks>> /\ Over' = {}
  BY EndedAtRest DEF ClearAndNextQuery, IInv
<1>2. spoiled' = FALSE /\ Left' = {}
  BY DEF ClearAndNextQuery, Left
<1> QED BY <1>1, <1>2 DEF Promised!Clear, Over

LEMMA SpoiledStays ==
  ASSUME IInv, spoiled, Next
  PROVE  spoiled' \/ ClearAndNextQuery
<1>1. ASSUME NEW t \in Threads, ThreadStep(t) PROVE spoiled'
  BY <1>1 DEF ThreadStep, Reads, WaitOver, ReadDone, ReadFails, Hit, Miss, Full, Unpin,
              UnpinRefused
<1>2. CASE NextQuery
  BY <1>2 DEF NextQuery
<1> QED BY <1>1, <1>2 DEF Next

(* A step of the pool that is not spoiled.                                 *)
LEMMA KeptMaps ==
  ASSUME IInv, LeftHavePages, ~spoiled, Next
  PROVE  Promised!Kept \/ Promised!Clear
<1>1. ASSUME NEW t \in Threads, ThreadStep(t) PROVE Promised!Kept
  <2>1. CASE WaitOver(t) \/ ReadDone(t) \/ ReadFails(t)
    BY <2>1, WaitOverMaps, ReadDoneMaps, ReadFailsMaps DEF Promised!Kept
  <2>2. ASSUME NEW p \in Pages, Hit(t, p) \/ Miss(t, p) \/ Full(t, p) PROVE Promised!Kept
    BY <2>2, HitMaps, MissMaps, FullMaps DEF Promised!Kept
  <2>3. ASSUME NEW h \in holds[t], Unpin(t, h) \/ UnpinRefused(t, h) PROVE Promised!Kept
    BY <2>3, UnpinMaps, UnpinNotRefused DEF Promised!Kept
  <2> QED BY <1>1, <2>1, <2>2, <2>3 DEF ThreadStep, Reads
<1>2. CASE NextQuery
  BY <1>2, NextQueryMaps DEF Promised!Kept
<1>3. CASE ClearAndNextQuery
  BY <1>3, ClearMaps
<1> QED BY <1>1, <1>2, <1>3 DEF Next

LEMMA PinStepMaps ==
  ASSUME IInv, LeftHavePages, [Next]_vars
  PROVE  [Promised!Next]_(Promised!vars)
<1>1. CASE Next /\ ~spoiled
  BY <1>1, KeptMaps DEF Promised!Next
<1>2. CASE Next /\ spoiled
  BY <1>2, SpoiledStays, ClearMaps DEF Promised!Next
<1>3. CASE UNCHANGED vars
  <2>1. UNCHANGED <<Views, Asks, Over, Left, spoiled>>
    BY <1>3 DEF vars, poolVars, threadVars, Views, Asks, Over, Left
  <2> QED BY <2>1 DEF Promised!vars, Over
<1>4. spoiled \in BOOLEAN
  BY DEF IInv, TypeOK
<1> QED BY <1>1, <1>2, <1>3, <1>4

LEMMA PinInitMaps == Init => Promised!Init
<1> SUFFICES ASSUME Init PROVE Promised!Init
  OBVIOUS
<1>1. Views = [t \in Threads |-> {}] /\ Asks = [t \in Threads |-> None]
  BY DEF Init, Views, Asks
<1>2. Over = {} /\ Left = {} /\ spoiled = FALSE
  BY DEF Init, Over, Left
<1> QED BY <1>1, <1>2 DEF Promised!Init, Over

(* For any number of threads, pages and frames: the pool keeps the promise *)
(* of PinnedPages, as long as no read fails while others wait for it.      *)
THEOREM PoolKeepsPins == Spec => PinsKept
<1>1. IInv /\ LeftHavePages /\ [Next]_vars => LeftHavePages'
  BY LeftPagesStep
<1>2. IInv /\ LeftHavePages /\ [Next]_vars => [Promised!Next]_(Promised!vars)
  BY PinStepMaps
<1> QED
  BY PinInitMaps, LeftPagesInit, Inductive, <1>1, <1>2, PTL
     DEF Spec, PinsKept, Promised!Spec
===========================================================================
