------------------------- MODULE QueryRouterProofs -------------------------
(***************************************************************************)
(* What the router guarantees for any number of connections and cursors,   *)
(* any thresholds and any interleaving of their unlocked counters; and     *)
(* that this is what GuardedAnswers promises to a caller.                  *)
(***************************************************************************)
EXTENDS QueryRouter, TLAPS

AnyAnswer == [by : {"none", "engine", "duckdb"},
              result : {"none", "right", "wrong", "fault"}, checked : BOOLEAN]

(* What the proofs need of the types.                                      *)
Types ==
  /\ quarantined \in BOOLEAN
  /\ failures \in Nat
  /\ pc \in [Sessions -> Steps]
  /\ result \in [Sessions -> {"none", "right", "wrong", "fault"}]
  /\ seen \in [Sessions -> Nat]
  /\ execs \in Nat
  /\ checked \in [Sessions -> BOOLEAN]
  /\ answer \in [Sessions -> AnyAnswer]
  /\ hist \in Histories

(* A result is marked as checked only from the check on, and a checked     *)
(* result that is about to be served has been found equal.                 *)
CheckedIsEqual ==
  /\ \A c \in Sessions : pc[c] \in {"guard", "run", "count", "store", "sample"} => ~checked[c]
  /\ \A c \in Sessions : pc[c] = "serve" /\ checked[c] => result[c] = "right"
  /\ FailClosed

(* A session inside route after the quarantine was inside when it began    *)
(* and has served nothing since.                                           *)
InsideIsCut ==
  /\ ~quarantined => \A c \in Sessions : hist.late[c] = 0
  /\ quarantined => \A c \in Sessions :
                       pc[c] \notin Outside => c \in hist.cut /\ hist.late[c] = 0
  /\ LateServesBounded

(* The counter lags behind the failures it counts, also in the copy a      *)
(* session is about to write back.                                         *)
CounterLags ==
  /\ failures <= hist.recorded
  /\ \A c \in Sessions : pc[c] = "trip" => seen[c] <= hist.recorded + 1
  /\ BreakerNeedsFailures

(* An instance that was closed, or that a promotion is about to close, is  *)
(* older than the one bound.                                               *)
ClosedIsOlder ==
  /\ bound \in Nat /\ closed \subseteq Nat /\ held \in [Sessions -> Nat]
  /\ \A i \in closed : i < bound
  /\ \A c \in Sessions : /\ held[c] <= bound
                         /\ pc[c] = "closing" => held[c] < bound

RouterInv == Types /\ CheckedIsEqual /\ InsideIsCut /\ CounterLags /\ ClosedIsOlder
---------------------------------------------------------------------------
LEMMA AnswerTypes ==
  /\ Fallback \in AnyAnswer /\ Reference \in AnyAnswer /\ NoAnswer \in AnyAnswer
  /\ \A r \in {"none", "right", "wrong", "fault"}, b \in BOOLEAN :
        [by |-> "engine", result |-> r, checked |-> b] \in AnyAnswer
  BY DEF Fallback, Reference, NoAnswer, AnyAnswer

(* The history stays one under the updates of the steps.                   *)
LEMMA HistTypes ==
  ASSUME NEW h \in Histories, NEW c \in Sessions
  PROVE  /\ [h EXCEPT !.attempts = @ + 1] \in Histories
         /\ [h EXCEPT !.attempts = @ + 1, !.proven = @ + 1] \in Histories
         /\ [h EXCEPT !.attempts = @ + 1, !.diverged = TRUE] \in Histories
         /\ [h EXCEPT !.recorded = @ + 1, !.streak = @ + 1] \in Histories
         /\ [h EXCEPT !.cut = Inside \ {c}] \in Histories
         /\ \A n \in {0, 1} : [h EXCEPT !.streak = 0, !.late[c] = @ + n] \in Histories
<1>1. /\ h.attempts + 1 \in Nat /\ h.proven + 1 \in Nat /\ h.recorded + 1 \in Nat
      /\ h.streak + 1 \in Nat /\ 0 \in Nat
  BY DEF Histories
<1>2. \A n \in {0, 1} : [h.late EXCEPT ![c] = @ + n] \in [Sessions -> Nat]
  BY DEF Histories
<1>3. Inside \ {c} \subseteq Sessions
  BY DEF Inside
<1>4. [h EXCEPT !.attempts = @ + 1] \in Histories
  BY <1>1 DEF Histories
<1>5. [h EXCEPT !.attempts = @ + 1, !.proven = @ + 1] \in Histories
  BY <1>1 DEF Histories
<1>6. [h EXCEPT !.attempts = @ + 1, !.diverged = TRUE] \in Histories
  BY <1>1 DEF Histories
<1>7. [h EXCEPT !.recorded = @ + 1, !.streak = @ + 1] \in Histories
  BY <1>1 DEF Histories
<1>8. [h EXCEPT !.cut = Inside \ {c}] \in Histories
  BY <1>3 DEF Histories
<1>9. \A n \in {0, 1} : [h EXCEPT !.streak = 0, !.late[c] = @ + n] \in Histories
  BY <1>1, <1>2 DEF Histories
<1> QED
  BY <1>4, <1>5, <1>6, <1>7, <1>8, <1>9

LEMMA QuarantineTypes ==
  ASSUME NEW h \in Histories, NEW c \in Sessions, Quarantine(c, h)
  PROVE  quarantined' \in BOOLEAN /\ hist' \in Histories
  BY HistTypes DEF Quarantine

LEMMA RouterInit == Init => RouterInv
<1> SUFFICES ASSUME Init PROVE RouterInv
  OBVIOUS
<1>1. HistInit \in Histories
  BY DEF HistInit, Histories
<1>2. Types
  BY <1>1, AnswerTypes DEF Init, Types, Steps
<1>3. CheckedIsEqual
  BY DEF Init, CheckedIsEqual, FailClosed, NoAnswer
<1>4. InsideIsCut
  BY DEF Init, InsideIsCut, LateServesBounded, HistInit
<1>5. CounterLags
  BY DEF Init, CounterLags, BreakerNeedsFailures, HistInit
<1>6. ClosedIsOlder
  BY DEF Init, ClosedIsOlder
<1> QED
  BY <1>2, <1>3, <1>4, <1>5, <1>6 DEF RouterInv

LEMMA TypesStep == Types /\ [Next]_vars => Types'
<1> SUFFICES ASSUME Types, [Next]_vars PROVE Types'
  OBVIOUS
<1> USE DEF Types
<1>1. ASSUME NEW c \in Sessions, Discover(c) PROVE Types'
  BY <1>1 DEF Discover, At, sharedVars, localVars, Steps
<1>2. ASSUME NEW c \in Sessions, Promote(c) PROVE Types'
  BY <1>2 DEF Promote, At, Goto, sharedVars, localVars, Steps
<1>3. ASSUME NEW c \in Sessions, CloseSuperseded(c) PROVE Types'
  BY <1>3 DEF CloseSuperseded, At, Goto, sharedVars, localVars, Steps
<1>4. ASSUME NEW c \in Sessions, Match(c) PROVE Types'
  BY <1>4, AnswerTypes DEF Match, At, Goto, Answer, sharedVars, Steps
<1>5. ASSUME NEW c \in Sessions, GuardsPass(c) PROVE Types'
  BY <1>5 DEF GuardsPass, At, Goto, sharedVars, localVars, Steps
<1>6. ASSUME NEW c \in Sessions, GuardsRefuse(c) PROVE Types'
  BY <1>6, AnswerTypes DEF GuardsRefuse, At, Answer, Goto, sharedVars, localVars, Steps
<1>7. ASSUME NEW c \in Sessions, RunEngine(c) PROVE Types'
  BY <1>7 DEF RunEngine, At, Goto, sharedVars, Steps
<1>8. ASSUME NEW c \in Sessions, ReadExecs(c) PROVE Types'
  BY <1>8 DEF ReadExecs, At, Goto, sharedVars, Steps
<1>9. ASSUME NEW c \in Sessions, StoreExecs(c) PROVE Types'
  BY <1>9 DEF StoreExecs, At, Goto, localVars, Steps
<1>10. ASSUME NEW c \in Sessions, CrossCheck(c) PROVE Types'
  BY <1>10 DEF CrossCheck, At, Goto, sharedVars, Steps
<1>11. ASSUME NEW c \in Sessions, SkipCheck(c) PROVE Types'
  BY <1>11 DEF SkipCheck, At, Goto, BurnIn, sharedVars, localVars, Steps
<1>12. ASSUME NEW c \in Sessions, ReferenceFails(c) PROVE Types'
  BY <1>12, AnswerTypes, HistTypes DEF ReferenceFails, At, Answer, Goto, sharedVars,
     localVars, Steps
<1>13. ASSUME NEW c \in Sessions, CompareRaises(c) PROVE Types'
  BY <1>13, HistTypes DEF CompareRaises, At, Goto, sharedVars, localVars, Steps
<1>14. ASSUME NEW c \in Sessions, Verified(c) PROVE Types'
  BY <1>14, HistTypes DEF Verified, At, Goto, sharedVars, localVars, Steps
<1>15. ASSUME NEW c \in Sessions, Diverged(c) PROVE Types'
  BY <1>15, AnswerTypes, HistTypes, QuarantineTypes DEF Diverged, At, Answer, Goto,
     localVars, Steps
<1>16. ASSUME NEW c \in Sessions, ReadFailures(c) PROVE Types'
  BY <1>16 DEF ReadFailures, At, Goto, sharedVars, Steps
<1>17. ASSUME NEW c \in Sessions, TripBreaker(c) PROVE Types'
  BY <1>17, AnswerTypes, HistTypes, QuarantineTypes DEF TripBreaker, At, Answer, Goto,
     localVars, Steps
<1>18. ASSUME NEW c \in Sessions, ServeEngine(c) PROVE Types'
  BY <1>18, AnswerTypes, HistTypes DEF ServeEngine, At, Answer, Goto, localVars, Steps
<1>20. ASSUME NEW c \in Sessions, BeginPromotion(c) PROVE Types'
  BY <1>20 DEF BeginPromotion, At, Goto, sharedVars, Steps
<1>21. ASSUME NEW c \in Sessions, PromotionFails(c) PROVE Types'
  BY <1>21 DEF PromotionFails, At, Goto, sharedVars, localVars, Steps
<1>19. ASSUME UNCHANGED vars PROVE Types'
  BY <1>19 DEF vars, sharedVars, localVars
<1> QED
  BY <1>1, <1>2, <1>3, <1>4, <1>5, <1>6, <1>7, <1>8, <1>9, <1>10, <1>11, <1>12, <1>13,
     <1>14, <1>15, <1>16, <1>17, <1>18, <1>19, <1>20, <1>21 DEF Next, SessionStep, Resting

LEMMA CheckedStep == Types /\ CheckedIsEqual /\ [Next]_vars => CheckedIsEqual'
<1> SUFFICES ASSUME Types, CheckedIsEqual, [Next]_vars PROVE CheckedIsEqual'
  OBVIOUS
<1> USE DEF Types, CheckedIsEqual, FailClosed
<1>1. ASSUME NEW c \in Sessions, Discover(c) PROVE CheckedIsEqual'
  BY <1>1 DEF Discover, At, sharedVars, localVars
<1>2. ASSUME NEW c \in Sessions, Promote(c) PROVE CheckedIsEqual'
  BY <1>2 DEF Promote, At, Goto, sharedVars, localVars
<1>3. ASSUME NEW c \in Sessions, CloseSuperseded(c) PROVE CheckedIsEqual'
  BY <1>3 DEF CloseSuperseded, At, Goto, sharedVars, localVars
<1>4. ASSUME NEW c \in Sessions, Match(c) PROVE CheckedIsEqual'
  BY <1>4 DEF Match, At, Goto, Answer, Fallback, sharedVars
<1>5. ASSUME NEW c \in Sessions, GuardsPass(c) PROVE CheckedIsEqual'
  BY <1>5 DEF GuardsPass, At, Goto, sharedVars, localVars
<1>6. ASSUME NEW c \in Sessions, GuardsRefuse(c) PROVE CheckedIsEqual'
  BY <1>6 DEF GuardsRefuse, At, Answer, Goto, Fallback, sharedVars, localVars
<1>7. ASSUME NEW c \in Sessions, RunEngine(c) PROVE CheckedIsEqual'
  BY <1>7 DEF RunEngine, At, Goto, sharedVars
<1>8. ASSUME NEW c \in Sessions, ReadExecs(c) PROVE CheckedIsEqual'
  BY <1>8 DEF ReadExecs, At, Goto, sharedVars
<1>9. ASSUME NEW c \in Sessions, StoreExecs(c) PROVE CheckedIsEqual'
  BY <1>9 DEF StoreExecs, At, Goto, localVars
<1>10. ASSUME NEW c \in Sessions, CrossCheck(c) PROVE CheckedIsEqual'
  BY <1>10 DEF CrossCheck, At, Goto, sharedVars
<1>11. ASSUME NEW c \in Sessions, SkipCheck(c) PROVE CheckedIsEqual'
  BY <1>11 DEF SkipCheck, At, Goto, BurnIn, sharedVars, localVars
<1>12. ASSUME NEW c \in Sessions, ReferenceFails(c) PROVE CheckedIsEqual'
  BY <1>12 DEF ReferenceFails, At, Answer, Goto, Fallback, sharedVars, localVars
<1>13. ASSUME NEW c \in Sessions, CompareRaises(c) PROVE CheckedIsEqual'
  BY <1>13 DEF CompareRaises, At, Goto, sharedVars, localVars
<1>14. ASSUME NEW c \in Sessions, Verified(c) PROVE CheckedIsEqual'
  BY <1>14 DEF Verified, At, Goto, sharedVars, localVars
<1>15. ASSUME NEW c \in Sessions, Diverged(c) PROVE CheckedIsEqual'
  BY <1>15 DEF Diverged, At, Answer, Goto, Reference, Quarantine, Inside, localVars
<1>16. ASSUME NEW c \in Sessions, ReadFailures(c) PROVE CheckedIsEqual'
  BY <1>16 DEF ReadFailures, At, Goto, sharedVars
<1>17. ASSUME NEW c \in Sessions, TripBreaker(c) PROVE CheckedIsEqual'
  BY <1>17 DEF TripBreaker, At, Answer, Goto, Fallback, Reference, Quarantine, Inside,
     localVars
<1>18. ASSUME NEW c \in Sessions, ServeEngine(c) PROVE CheckedIsEqual'
  BY <1>18 DEF ServeEngine, At, Answer, Goto, localVars
<1>20. ASSUME NEW c \in Sessions, BeginPromotion(c) PROVE CheckedIsEqual'
  BY <1>20 DEF BeginPromotion, At, Goto, sharedVars
<1>21. ASSUME NEW c \in Sessions, PromotionFails(c) PROVE CheckedIsEqual'
  BY <1>21 DEF PromotionFails, At, Goto, sharedVars, localVars
<1>19. ASSUME UNCHANGED vars PROVE CheckedIsEqual'
  BY <1>19 DEF vars, sharedVars, localVars
<1> QED
  BY <1>1, <1>2, <1>3, <1>4, <1>5, <1>6, <1>7, <1>8, <1>9, <1>10, <1>11, <1>12, <1>13,
     <1>14, <1>15, <1>16, <1>17, <1>18, <1>19, <1>20, <1>21 DEF Next, SessionStep, Resting

LEMMA InsideStep == Types /\ InsideIsCut /\ [Next]_vars => InsideIsCut'
<1> SUFFICES ASSUME Types, InsideIsCut, [Next]_vars PROVE InsideIsCut'
  OBVIOUS
<1> USE DEF Types, InsideIsCut, LateServesBounded, Outside
<1>1. ASSUME NEW c \in Sessions, Discover(c) PROVE InsideIsCut'
  BY <1>1 DEF Discover, At, sharedVars, localVars
<1>2. ASSUME NEW c \in Sessions, Promote(c) PROVE InsideIsCut'
  BY <1>2 DEF Promote, At, Goto, sharedVars, localVars
<1>3. ASSUME NEW c \in Sessions, CloseSuperseded(c) PROVE InsideIsCut'
  BY <1>3 DEF CloseSuperseded, At, Goto, sharedVars, localVars
<1>4. ASSUME NEW c \in Sessions, Match(c) PROVE InsideIsCut'
  BY <1>4 DEF Match, At, Goto, Answer, Fallback, sharedVars
<1>5. ASSUME NEW c \in Sessions, GuardsPass(c) PROVE InsideIsCut'
  BY <1>5 DEF GuardsPass, At, Goto, sharedVars, localVars
<1>6. ASSUME NEW c \in Sessions, GuardsRefuse(c) PROVE InsideIsCut'
  BY <1>6 DEF GuardsRefuse, At, Answer, Goto, Fallback, sharedVars, localVars
<1>7. ASSUME NEW c \in Sessions, RunEngine(c) PROVE InsideIsCut'
  BY <1>7 DEF RunEngine, At, Goto, sharedVars
<1>8. ASSUME NEW c \in Sessions, ReadExecs(c) PROVE InsideIsCut'
  BY <1>8 DEF ReadExecs, At, Goto, sharedVars
<1>9. ASSUME NEW c \in Sessions, StoreExecs(c) PROVE InsideIsCut'
  BY <1>9 DEF StoreExecs, At, Goto, localVars
<1>10. ASSUME NEW c \in Sessions, CrossCheck(c) PROVE InsideIsCut'
  BY <1>10 DEF CrossCheck, At, Goto, sharedVars
<1>11. ASSUME NEW c \in Sessions, SkipCheck(c) PROVE InsideIsCut'
  BY <1>11 DEF SkipCheck, At, Goto, BurnIn, sharedVars, localVars
<1>12. ASSUME NEW c \in Sessions, ReferenceFails(c) PROVE InsideIsCut'
  BY <1>12 DEF ReferenceFails, At, Answer, Goto, Fallback, sharedVars, localVars
<1>13. ASSUME NEW c \in Sessions, CompareRaises(c) PROVE InsideIsCut'
  BY <1>13 DEF CompareRaises, At, Goto, sharedVars, localVars
<1>14. ASSUME NEW c \in Sessions, Verified(c) PROVE InsideIsCut'
  BY <1>14 DEF Verified, At, Goto, sharedVars, localVars
<1>15. ASSUME NEW c \in Sessions, Diverged(c) PROVE InsideIsCut'
  BY <1>15 DEF Diverged, At, Answer, Goto, Reference, Quarantine, Inside, localVars
<1>16. ASSUME NEW c \in Sessions, ReadFailures(c) PROVE InsideIsCut'
  BY <1>16 DEF ReadFailures, At, Goto, sharedVars
<1>17. ASSUME NEW c \in Sessions, TripBreaker(c) PROVE InsideIsCut'
  <2> DEFINE h == [hist EXCEPT !.recorded = @ + 1, !.streak = @ + 1]
  <2>0. h \in Histories
    BY HistTypes
  <2>1. h.late = hist.late /\ h.cut = hist.cut /\ h \in Histories
    BY <2>0 DEF Histories
  <2>2. pc[c] = "trip" /\ pc' = [pc EXCEPT ![c] = "idle"]
    BY <1>17 DEF TripBreaker, At, Answer, Goto
  <2>3. CASE seen[c] >= Threshold
    <3>1. Quarantine(c, h)
      BY <1>17, <2>3 DEF TripBreaker
    <3>2. CASE quarantined
      BY <2>1, <2>2, <3>1, <3>2 DEF Quarantine
    <3>3. CASE ~quarantined
      <4>1. hist'.late = hist.late /\ hist'.cut = Inside \ {c}
        BY <2>1, <3>1, <3>3 DEF Quarantine, Histories
      <4> QED
        BY <2>2, <3>1, <3>3, <4>1 DEF Quarantine, Inside
    <3> QED
      BY <3>2, <3>3
  <2>4. CASE ~(seen[c] >= Threshold)
    <3>1. hist' = h /\ UNCHANGED quarantined
      BY <1>17, <2>4 DEF TripBreaker
    <3> QED
      BY <2>1, <2>2, <3>1
  <2> QED
    BY <2>3, <2>4
<1>18. ASSUME NEW c \in Sessions, ServeEngine(c) PROVE InsideIsCut'
  BY <1>18 DEF ServeEngine, At, Answer, Goto, localVars
<1>20. ASSUME NEW c \in Sessions, BeginPromotion(c) PROVE InsideIsCut'
  BY <1>20 DEF BeginPromotion, At, Goto, sharedVars
<1>21. ASSUME NEW c \in Sessions, PromotionFails(c) PROVE InsideIsCut'
  BY <1>21 DEF PromotionFails, At, Goto, sharedVars, localVars
<1>19. ASSUME UNCHANGED vars PROVE InsideIsCut'
  BY <1>19 DEF vars, sharedVars, localVars
<1> QED
  BY <1>1, <1>2, <1>3, <1>4, <1>5, <1>6, <1>7, <1>8, <1>9, <1>10, <1>11, <1>12, <1>13,
     <1>14, <1>15, <1>16, <1>17, <1>18, <1>19, <1>20, <1>21 DEF Next, SessionStep, Resting

LEMMA CounterStep == Types /\ CounterLags /\ [Next]_vars => CounterLags'
<1> SUFFICES ASSUME Types, CounterLags, [Next]_vars PROVE CounterLags'
  OBVIOUS
<1> USE DEF Types, CounterLags, BreakerNeedsFailures, Histories
<1>1. ASSUME NEW c \in Sessions, Discover(c) PROVE CounterLags'
  BY <1>1 DEF Discover, At, sharedVars, localVars
<1>2. ASSUME NEW c \in Sessions, Promote(c) PROVE CounterLags'
  BY <1>2 DEF Promote, At, Goto, sharedVars, localVars
<1>3. ASSUME NEW c \in Sessions, CloseSuperseded(c) PROVE CounterLags'
  BY <1>3 DEF CloseSuperseded, At, Goto, sharedVars, localVars
<1>4. ASSUME NEW c \in Sessions, Match(c) PROVE CounterLags'
  BY <1>4 DEF Match, At, Goto, Answer, Fallback, sharedVars
<1>5. ASSUME NEW c \in Sessions, GuardsPass(c) PROVE CounterLags'
  BY <1>5 DEF GuardsPass, At, Goto, sharedVars, localVars
<1>6. ASSUME NEW c \in Sessions, GuardsRefuse(c) PROVE CounterLags'
  BY <1>6 DEF GuardsRefuse, At, Answer, Goto, Fallback, sharedVars, localVars
<1>7. ASSUME NEW c \in Sessions, RunEngine(c) PROVE CounterLags'
  BY <1>7 DEF RunEngine, At, Goto, sharedVars
<1>8. ASSUME NEW c \in Sessions, ReadExecs(c) PROVE CounterLags'
  BY <1>8 DEF ReadExecs, At, Goto, sharedVars
<1>9. ASSUME NEW c \in Sessions, StoreExecs(c) PROVE CounterLags'
  BY <1>9 DEF StoreExecs, At, Goto, localVars
<1>10. ASSUME NEW c \in Sessions, CrossCheck(c) PROVE CounterLags'
  BY <1>10 DEF CrossCheck, At, Goto, sharedVars
<1>11. ASSUME NEW c \in Sessions, SkipCheck(c) PROVE CounterLags'
  BY <1>11 DEF SkipCheck, At, Goto, BurnIn, sharedVars, localVars
<1>12. ASSUME NEW c \in Sessions, ReferenceFails(c) PROVE CounterLags'
  BY <1>12 DEF ReferenceFails, At, Answer, Goto, Fallback, sharedVars, localVars
<1>13. ASSUME NEW c \in Sessions, CompareRaises(c) PROVE CounterLags'
  BY <1>13 DEF CompareRaises, At, Goto, sharedVars, localVars
<1>14. ASSUME NEW c \in Sessions, Verified(c) PROVE CounterLags'
  BY <1>14 DEF Verified, At, Goto, sharedVars, localVars
<1>15. ASSUME NEW c \in Sessions, Diverged(c) PROVE CounterLags'
  BY <1>15 DEF Diverged, At, Answer, Goto, Reference, Quarantine, Inside, localVars
<1>16. ASSUME NEW c \in Sessions, ReadFailures(c) PROVE CounterLags'
  BY <1>16 DEF ReadFailures, At, Goto, sharedVars
<1>17. ASSUME NEW c \in Sessions, TripBreaker(c) PROVE CounterLags'
  <2> DEFINE h == [hist EXCEPT !.recorded = @ + 1, !.streak = @ + 1]
  <2>1. /\ h.recorded = hist.recorded + 1 /\ h.diverged = hist.diverged
        /\ hist.recorded \in Nat
    BY DEF Histories
  <2>2. /\ pc[c] = "trip" /\ pc' = [pc EXCEPT ![c] = "idle"] /\ seen' = seen
        /\ failures' = seen[c]
    BY <1>17 DEF TripBreaker, At, Answer, Goto, localVars
  <2>3. hist'.recorded = hist.recorded + 1 /\ hist'.diverged = hist.diverged
    BY <1>17, <2>1 DEF TripBreaker, Quarantine, Histories
  <2>4. failures' <= hist'.recorded
    BY <2>2, <2>3
  <2>5. \A d \in Sessions : pc'[d] = "trip" => seen'[d] <= hist'.recorded + 1
    BY <2>1, <2>2, <2>3
  <2>6. BreakerNeedsFailures'
    <3>1. CASE seen[c] >= Threshold
      BY <2>1, <2>2, <2>3, <3>1, RouterAssumption
    <3>2. CASE ~(seen[c] >= Threshold)
      <4>1. UNCHANGED quarantined
        BY <1>17, <3>2 DEF TripBreaker
      <4>2. Threshold \in Nat
        BY RouterAssumption
      <4> QED
        BY <2>1, <2>3, <4>1, <4>2
    <3> QED
      BY <3>1, <3>2
  <2> QED
    BY <2>4, <2>5, <2>6
<1>18. ASSUME NEW c \in Sessions, ServeEngine(c) PROVE CounterLags'
  BY <1>18 DEF ServeEngine, At, Answer, Goto, localVars
<1>20. ASSUME NEW c \in Sessions, BeginPromotion(c) PROVE CounterLags'
  BY <1>20 DEF BeginPromotion, At, Goto, sharedVars
<1>21. ASSUME NEW c \in Sessions, PromotionFails(c) PROVE CounterLags'
  BY <1>21 DEF PromotionFails, At, Goto, sharedVars, localVars
<1>19. ASSUME UNCHANGED vars PROVE CounterLags'
  BY <1>19 DEF vars, sharedVars, localVars
<1> QED
  BY <1>1, <1>2, <1>3, <1>4, <1>5, <1>6, <1>7, <1>8, <1>9, <1>10, <1>11, <1>12, <1>13,
     <1>14, <1>15, <1>16, <1>17, <1>18, <1>19, <1>20, <1>21 DEF Next, SessionStep, Resting

LEMMA ClosedStep == Types /\ ClosedIsOlder /\ [Next]_vars => ClosedIsOlder'
<1> SUFFICES ASSUME Types, ClosedIsOlder, [Next]_vars PROVE ClosedIsOlder'
  OBVIOUS
<1> USE DEF ClosedIsOlder
<1>0. pc \in [Sessions -> Steps]
  BY DEF Types
<1>1. ASSUME NEW c \in Sessions, Discover(c) PROVE ClosedIsOlder'
  BY <1>0, <1>1 DEF Discover, localVars
<1>2. ASSUME NEW c \in Sessions, BeginPromotion(c) PROVE ClosedIsOlder'
  BY <1>0, <1>2 DEF BeginPromotion, Goto, registryVars
<1>3. ASSUME NEW c \in Sessions, Promote(c) PROVE ClosedIsOlder'
  BY <1>0, <1>3 DEF Promote, Goto, localVars
<1>4. ASSUME NEW c \in Sessions, CloseSuperseded(c) PROVE ClosedIsOlder'
  BY <1>0, <1>4 DEF CloseSuperseded, At, Goto, localVars
<1>5. ASSUME NEW c \in Sessions, Match(c) PROVE ClosedIsOlder'
  BY <1>0, <1>5 DEF Match, Answer, Goto, registryVars
(* Every other step leaves the registry alone and does not begin closing.  *)
<1>6. ASSUME UNCHANGED registryVars, UNCHANGED held,
             NEW c \in Sessions, NEW p \in Steps \ {"closing"}, pc' = [pc EXCEPT ![c] = p]
      PROVE  ClosedIsOlder'
  BY <1>0, <1>6 DEF registryVars
<1>7. ASSUME NEW c \in Sessions,
             \/ PromotionFails(c) \/ GuardsPass(c) \/ GuardsRefuse(c) \/ RunEngine(c)
             \/ ReadExecs(c) \/ StoreExecs(c) \/ CrossCheck(c) \/ SkipCheck(c)
             \/ ReferenceFails(c) \/ CompareRaises(c) \/ Verified(c) \/ Diverged(c)
             \/ ReadFailures(c) \/ TripBreaker(c) \/ ServeEngine(c)
      PROVE  ClosedIsOlder'
  <2>1. \E p \in Steps \ {"closing"} : pc' = [pc EXCEPT ![c] = p]
    BY <1>7 DEF PromotionFails, GuardsPass, GuardsRefuse, RunEngine, ReadExecs, StoreExecs,
       CrossCheck, SkipCheck, ReferenceFails, CompareRaises, Verified, Diverged,
       ReadFailures, TripBreaker, ServeEngine, Answer, Goto, Steps
  <2>2. UNCHANGED registryVars /\ UNCHANGED held
    BY <1>7 DEF PromotionFails, GuardsPass, GuardsRefuse, RunEngine, ReadExecs, StoreExecs,
       CrossCheck, SkipCheck, ReferenceFails, CompareRaises, Verified, Diverged,
       ReadFailures, TripBreaker, ServeEngine, localVars
  <2> QED
    BY <1>6, <2>1, <2>2
<1>8. ASSUME UNCHANGED vars PROVE ClosedIsOlder'
  BY <1>8 DEF vars, registryVars, localVars
<1> QED
  BY <1>1, <1>2, <1>3, <1>4, <1>5, <1>7, <1>8 DEF Next, SessionStep, Resting

(* The bounds of the registry: whatever is promoted or closed was bound    *)
(* before, and a fault never gets past the engine's run.                   *)
Registry ==
  /\ bound \in 0..MaxBind /\ plane \in {"none", "parquet", "shm"}
  /\ closed \subseteq 1..MaxBind /\ known \subseteq Sessions
  /\ held \in [Sessions -> 0..MaxBind]
  /\ plane # "none" => bound # 0
  /\ \A c \in Sessions : pc[c] \in {"promoting", "closing"} => held[c] # 0

Served ==
  /\ answer \in [Sessions -> Answers]
  /\ used \in [query : 0..MaxQuery, ref : 0..MaxRefError, cmp : 0..MaxCmpError]
  /\ \A c \in Sessions :
        pc[c] \in {"count", "store", "sample", "check", "serve"} =>
          result[c] \in {"right", "wrong"}

LEMMA RegistryStep == Types /\ Registry /\ [Next]_vars => Registry'
<1> SUFFICES ASSUME Types, Registry, [Next]_vars PROVE Registry'
  OBVIOUS
<1> USE RouterAssumption DEF Registry
<1>0. pc \in [Sessions -> Steps]
  BY DEF Types
<1>1. ASSUME NEW c \in Sessions, Discover(c) PROVE Registry'
  BY <1>0, <1>1 DEF Discover, localVars
<1>2. ASSUME NEW c \in Sessions, BeginPromotion(c) PROVE Registry'
  BY <1>0, <1>2 DEF BeginPromotion, Goto, registryVars
<1>3. ASSUME NEW c \in Sessions, Promote(c) PROVE Registry'
  BY <1>0, <1>3 DEF Promote, At, Goto, localVars
<1>4. ASSUME NEW c \in Sessions, CloseSuperseded(c) PROVE Registry'
  <2>0. MaxBind \in Nat /\ held[c] \in 0..MaxBind /\ held[c] # 0
    BY <1>4 DEF CloseSuperseded, At
  <2>1. held[c] \in 1..MaxBind
    BY <2>0
  <2>2. closed' = closed \cup {held[c]} /\ pc' = [pc EXCEPT ![c] = "idle"]
        /\ UNCHANGED <<bound, plane, known, held>>
    BY <1>4 DEF CloseSuperseded, Goto, localVars
  <2> QED
    BY <1>0, <2>1, <2>2
<1>5. ASSUME NEW c \in Sessions, Match(c) PROVE Registry'
  BY <1>0, <1>5 DEF Match, Answer, Goto, registryVars
<1>6. ASSUME UNCHANGED registryVars, UNCHANGED held, NEW c \in Sessions,
             NEW p \in Steps \ {"promoting", "closing"}, pc' = [pc EXCEPT ![c] = p]
      PROVE  Registry'
  BY <1>0, <1>6 DEF registryVars
<1>7. ASSUME NEW c \in Sessions,
             \/ PromotionFails(c) \/ GuardsPass(c) \/ GuardsRefuse(c) \/ RunEngine(c)
             \/ ReadExecs(c) \/ StoreExecs(c) \/ CrossCheck(c) \/ SkipCheck(c)
             \/ ReferenceFails(c) \/ CompareRaises(c) \/ Verified(c) \/ Diverged(c)
             \/ ReadFailures(c) \/ TripBreaker(c) \/ ServeEngine(c)
      PROVE  Registry'
  <2>1. \E p \in Steps \ {"promoting", "closing"} : pc' = [pc EXCEPT ![c] = p]
    BY <1>7 DEF PromotionFails, GuardsPass, GuardsRefuse, RunEngine, ReadExecs, StoreExecs,
       CrossCheck, SkipCheck, ReferenceFails, CompareRaises, Verified, Diverged,
       ReadFailures, TripBreaker, ServeEngine, Answer, Goto, Steps
  <2>2. UNCHANGED registryVars /\ UNCHANGED held
    BY <1>7 DEF PromotionFails, GuardsPass, GuardsRefuse, RunEngine, ReadExecs, StoreExecs,
       CrossCheck, SkipCheck, ReferenceFails, CompareRaises, Verified, Diverged,
       ReadFailures, TripBreaker, ServeEngine, localVars
  <2> QED
    BY <1>6, <2>1, <2>2
<1>8. ASSUME UNCHANGED vars PROVE Registry'
  BY <1>8 DEF vars, registryVars, localVars
<1> QED
  BY <1>1, <1>2, <1>3, <1>4, <1>5, <1>7, <1>8 DEF Next, SessionStep, Resting

LEMMA ServedStep == Types /\ Served /\ [Next]_vars => Served'
<1> SUFFICES ASSUME Types, Served, [Next]_vars PROVE Served'
  OBVIOUS
<1> USE RouterAssumption DEF Served
<1>0. /\ pc \in [Sessions -> Steps]
      /\ result \in [Sessions -> {"none", "right", "wrong", "fault"}]
      /\ checked \in [Sessions -> BOOLEAN]
  BY DEF Types
<1>1. Fallback \in Answers /\ Reference \in Answers
  BY DEF Fallback, Reference, Answers
<1>2. ASSUME NEW c \in Sessions, Match(c) PROVE Served'
  BY <1>0, <1>1, <1>2 DEF Match, Answer, Goto
<1>3. ASSUME NEW c \in Sessions, RunEngine(c) PROVE Served'
  BY <1>0, <1>3 DEF RunEngine, Goto
<1>4. ASSUME NEW c \in Sessions, GuardsRefuse(c) \/ ReferenceFails(c) PROVE Served'
  BY <1>0, <1>1, <1>4 DEF GuardsRefuse, ReferenceFails, Answer, Goto, localVars
<1>5. ASSUME NEW c \in Sessions, Diverged(c) \/ TripBreaker(c) PROVE Served'
  BY <1>0, <1>1, <1>5 DEF Diverged, TripBreaker, Answer, Goto, localVars
<1>6. ASSUME NEW c \in Sessions, ServeEngine(c) PROVE Served'
  <2>1. [by |-> "engine", result |-> result[c], checked |-> checked[c]] \in Answers
    BY <1>0, <1>6 DEF ServeEngine, At, Answers
  <2> QED
    BY <1>0, <1>6, <2>1 DEF ServeEngine, Answer, Goto, localVars
<1>7. ASSUME NEW c \in Sessions, CompareRaises(c) \/ Verified(c) PROVE Served'
  BY <1>0, <1>7 DEF CompareRaises, Verified, At, Goto, localVars
<1>8. ASSUME NEW c \in Sessions,
             \/ ReadExecs(c) \/ StoreExecs(c) \/ CrossCheck(c) \/ SkipCheck(c)
             \/ ReadFailures(c) \/ GuardsPass(c)
      PROVE  Served'
  BY <1>0, <1>8 DEF ReadExecs, StoreExecs, CrossCheck, SkipCheck, ReadFailures, GuardsPass,
     At, Goto, localVars
<1>9. ASSUME NEW c \in Sessions,
             \/ Discover(c) \/ BeginPromotion(c) \/ Promote(c) \/ PromotionFails(c)
             \/ CloseSuperseded(c)
      PROVE  Served'
  BY <1>0, <1>9 DEF Discover, BeginPromotion, Promote, PromotionFails, CloseSuperseded,
     Goto, localVars
<1>10. ASSUME UNCHANGED vars PROVE Served'
  BY <1>10 DEF vars, localVars
<1> QED
  BY <1>2, <1>3, <1>4, <1>5, <1>6, <1>7, <1>8, <1>9, <1>10 DEF Next, SessionStep, Resting
---------------------------------------------------------------------------
(* The counters of a session alone.  A session counts from when it first   *)
(* enters route, and never stops counting.                                 *)
Entered(d) == answer[d] # NoAnswer \/ pc[d] \notin Outside

(* failures is the streak and execs the attempts, but for the copies the   *)
(* session is about to write back or to check; the quarantine finds it     *)
(* outside.                                                                *)
Exact ==
  /\ failures = hist.streak
  /\ quarantined <=> hist.diverged \/ hist.streak >= Threshold
  /\ \A c \in Sessions :
        /\ pc[c] \notin Outside => ~quarantined
        /\ pc[c] = "trip" => seen[c] = failures + 1
        /\ pc[c] = "store" => seen[c] = execs + 1
        /\ pc[c] = "check" => checked[c]
        /\ pc[c] \in {"sample", "check"} =>
              execs <= hist.attempts + 1 \/ hist.attempts >= VerifyFirst
        /\ pc[c] = "serve" /\ ~checked[c] => hist.attempts >= VerifyFirst
        /\ answer[c].by = "engine" /\ ~answer[c].checked => hist.attempts >= VerifyFirst
  /\ (\A c \in Sessions : pc[c] \notin {"sample", "check"}) =>
        execs <= hist.attempts \/ hist.attempts >= VerifyFirst

AloneExact == Alone => Exact

LEMMA EnteredStays ==
  ASSUME Types, NEW c \in Sessions, SessionStep(c)
  PROVE  /\ \A d \in Sessions \ {c} : pc'[d] = pc[d] /\ answer'[d] = answer[d]
         /\ Entered(c) => Entered(c)'
<1> USE DEF Outside, Entered
<1>0. /\ pc \in [Sessions -> Steps] /\ answer \in [Sessions -> AnyAnswer]
      /\ Fallback # NoAnswer /\ Reference # NoAnswer
      /\ \A r, b : [by |-> "engine", result |-> r, checked |-> b] # NoAnswer
  BY DEF Types, Fallback, Reference, NoAnswer
<1>1. CASE \/ Discover(c) \/ BeginPromotion(c) \/ Promote(c) \/ PromotionFails(c)
           \/ CloseSuperseded(c)
  BY <1>0, <1>1 DEF Discover, BeginPromotion, Promote, PromotionFails, CloseSuperseded,
     At, Goto
<1>2. CASE Match(c) \/ GuardsPass(c) \/ GuardsRefuse(c) \/ ReferenceFails(c)
  BY <1>0, <1>2 DEF Match, GuardsPass, GuardsRefuse, ReferenceFails, At, Answer, Goto
<1>3. CASE \/ RunEngine(c) \/ ReadExecs(c) \/ StoreExecs(c) \/ CrossCheck(c)
           \/ SkipCheck(c) \/ CompareRaises(c) \/ Verified(c) \/ ReadFailures(c)
  BY <1>0, <1>3 DEF RunEngine, ReadExecs, StoreExecs, CrossCheck, SkipCheck,
     CompareRaises, Verified, ReadFailures, At, Goto
<1>4. CASE Diverged(c) \/ TripBreaker(c) \/ ServeEngine(c)
  BY <1>0, <1>4 DEF Diverged, TripBreaker, ServeEngine, At, Answer, Goto
<1> QED
  BY <1>1, <1>2, <1>3, <1>4 DEF SessionStep

(* Once a session has entered, a later Alone is about that session.        *)
LEMMA StillAlone ==
  ASSUME Types, NEW c \in Sessions, SessionStep(c), Alone'
  PROVE  /\ Alone
         /\ Entered(c)' => \A d \in Sessions \ {c} :
               /\ pc[d] \in Outside /\ pc'[d] = pc[d]
               /\ answer[d] = NoAnswer /\ answer'[d] = NoAnswer
<1>1. PICK w \in Sessions : \A d \in Sessions \ {w} : ~Entered(d)'
  BY DEF Alone, Entered
<1>2. \A d \in Sessions : Entered(d) => Entered(d)'
  BY EnteredStays DEF Entered
<1>3. Alone
  BY <1>1, <1>2 DEF Alone, Entered
<1>4. ASSUME Entered(c)', NEW d \in Sessions \ {c}
      PROVE  /\ pc[d] \in Outside /\ pc'[d] = pc[d]
             /\ answer[d] = NoAnswer /\ answer'[d] = NoAnswer
  <2>1. ~Entered(d)'
    BY <1>1, <1>4
  <2> QED
    BY <1>4, <2>1, EnteredStays DEF Entered
<1> QED
  BY <1>3, <1>4

LEMMA AloneStep == Types /\ AloneExact /\ [Next]_vars => AloneExact'
<1> SUFFICES ASSUME Types, AloneExact, [Next]_vars, Alone' PROVE Exact'
  BY DEF AloneExact
<1> USE DEF Types, Histories
<1>0. VerifyFirst \in Nat /\ Threshold \in Nat \ {0}
  BY RouterAssumption
(* Discovery leaves route's counters alone.                                *)
<1>1. ASSUME NEW c \in Sessions,
             \/ Discover(c) \/ BeginPromotion(c) \/ Promote(c) \/ PromotionFails(c)
             \/ CloseSuperseded(c)
      PROVE  Exact'
  <2>1. Exact
    BY <1>1, StillAlone DEF AloneExact, SessionStep
  <2>2. /\ UNCHANGED <<failures, execs, quarantined, hist, seen, checked, answer>>
        /\ pc[c] \in Outside /\ \E p \in Outside : pc' = [pc EXCEPT ![c] = p]
    BY <1>1 DEF Discover, BeginPromotion, Promote, PromotionFails, CloseSuperseded, At,
       Goto, Outside, sharedVars, localVars
  <2> QED
    BY <2>1, <2>2 DEF Exact, Outside
<1>2. ASSUME NEW c \in Sessions, SessionStep(c), Entered(c)'
      PROVE  /\ Exact
             /\ \A d \in Sessions \ {c} : /\ pc[d] \in Outside /\ pc'[d] = pc[d]
                                          /\ answer'[d] = NoAnswer
  BY <1>2, StillAlone DEF AloneExact
<1> DEFINE Others(c) == \A d \in Sessions \ {c} : /\ pc[d] \in Outside /\ pc'[d] = pc[d]
                                                  /\ answer'[d] = NoAnswer
<1>3. ASSUME NEW c \in Sessions, Match(c) PROVE Exact'
  <2>1. Exact /\ Others(c)
    BY <1>2, <1>3 DEF SessionStep, Entered, Match, Answer, Goto, Outside, Fallback, NoAnswer
  <2> QED
    BY <1>3, <2>1 DEF Exact, Match, At, Answer, Goto, Fallback, NoAnswer, Outside, sharedVars
<1>4. ASSUME NEW c \in Sessions, GuardsPass(c) \/ RunEngine(c) PROVE Exact'
  <2>1. Exact /\ Others(c)
    BY <1>2, <1>4 DEF SessionStep, Entered, GuardsPass, RunEngine, Goto, Outside
  <2> QED
    BY <1>4, <2>1 DEF Exact, GuardsPass, RunEngine, At, Goto, NoAnswer, Outside, sharedVars,
       localVars
<1>5. ASSUME NEW c \in Sessions, GuardsRefuse(c) PROVE Exact'
  <2>1. Exact /\ Others(c)
    BY <1>2, <1>5 DEF SessionStep, Entered, GuardsRefuse, Answer, Goto, Fallback, NoAnswer
  <2> QED
    BY <1>5, <2>1 DEF Exact, GuardsRefuse, At, Answer, Goto, Fallback, NoAnswer, Outside,
       sharedVars, localVars
<1>6. ASSUME NEW c \in Sessions, ReadExecs(c) \/ ReadFailures(c) PROVE Exact'
  <2>1. Exact /\ Others(c)
    BY <1>2, <1>6 DEF SessionStep, Entered, ReadExecs, ReadFailures, Goto, Outside
  <2> QED
    BY <1>6, <2>1 DEF Exact, ReadExecs, ReadFailures, At, Goto, NoAnswer, Outside, sharedVars
<1>7. ASSUME NEW c \in Sessions, StoreExecs(c) PROVE Exact'
  <2>1. Exact /\ Others(c)
    BY <1>2, <1>7 DEF SessionStep, Entered, StoreExecs, Goto, Outside
  <2> QED
    BY <1>0, <1>7, <2>1 DEF Exact, StoreExecs, At, Goto, NoAnswer, Outside, localVars
<1>8. ASSUME NEW c \in Sessions, CrossCheck(c) PROVE Exact'
  <2>1. Exact /\ Others(c)
    BY <1>2, <1>8 DEF SessionStep, Entered, CrossCheck, Goto, Outside
  <2> QED
    BY <1>8, <2>1 DEF Exact, CrossCheck, At, Goto, NoAnswer, Outside, sharedVars
<1>9. ASSUME NEW c \in Sessions, SkipCheck(c) PROVE Exact'
  <2>1. Exact /\ Others(c)
    BY <1>2, <1>9 DEF SessionStep, Entered, SkipCheck, Goto, Outside
  <2> QED
    BY <1>0, <1>9, <2>1 DEF Exact, SkipCheck, BurnIn, At, Goto, NoAnswer, Outside,
       sharedVars, localVars
<1>10. ASSUME NEW c \in Sessions, ReferenceFails(c) \/ CompareRaises(c) PROVE Exact'
  <2>1. Exact /\ Others(c)
    BY <1>2, <1>10 DEF SessionStep, Entered, ReferenceFails, CompareRaises, Answer, Goto,
       Outside, Fallback, NoAnswer
  <2> QED
    BY <1>0, <1>10, <2>1 DEF Exact, ReferenceFails, CompareRaises, At, Answer, Goto,
       Fallback, NoAnswer, Outside, sharedVars, localVars
<1>11. ASSUME NEW c \in Sessions, Verified(c) PROVE Exact'
  <2>1. Exact /\ Others(c)
    BY <1>2, <1>11 DEF SessionStep, Entered, Verified, Goto, Outside
  <2>2. /\ hist'.attempts = hist.attempts + 1 /\ hist'.streak = hist.streak
        /\ hist'.diverged = hist.diverged
    BY <1>11 DEF Verified
  <2>3. /\ UNCHANGED <<failures, execs, quarantined, seen, checked, answer>>
        /\ pc[c] = "check" /\ pc' = [pc EXCEPT ![c] = "serve"]
    BY <1>11 DEF Verified, At, Goto, sharedVars, localVars
  <2>4. execs <= hist'.attempts \/ hist'.attempts >= VerifyFirst
    BY <1>0, <2>1, <2>2, <2>3 DEF Exact
  <2>5. pc'[c] = "serve" /\ ~checked[c] => hist'.attempts >= VerifyFirst
    BY <2>1, <2>3 DEF Exact
  <2> QED
    BY <1>0, <2>1, <2>2, <2>3, <2>4, <2>5 DEF Exact, NoAnswer, Outside
<1>12. ASSUME NEW c \in Sessions, Diverged(c) PROVE Exact'
  <2>1. Exact /\ Others(c)
    BY <1>2, <1>12 DEF SessionStep, Entered, Diverged, Answer, Goto, Reference, NoAnswer
  <2>2. ~quarantined
    BY <1>12, <2>1 DEF Exact, Diverged, At, Outside
  <2>3. /\ quarantined' /\ hist'.diverged /\ hist'.streak = hist.streak
        /\ hist'.attempts = hist.attempts + 1
    BY <1>12, <2>2 DEF Diverged, Quarantine
  <2> QED
    BY <1>0, <1>12, <2>1, <2>3 DEF Exact, Diverged, At, Answer, Goto, Reference, NoAnswer,
       Outside, localVars
<1>13. ASSUME NEW c \in Sessions, TripBreaker(c) PROVE Exact'
  <2>1. Exact /\ Others(c)
    BY <1>2, <1>13 DEF SessionStep, Entered, TripBreaker, Answer, Goto, Reference, Fallback,
       NoAnswer
  <2>2. ~quarantined /\ seen[c] = hist.streak + 1 /\ ~hist.diverged
    BY <1>13, <2>1 DEF Exact, TripBreaker, At, Outside
  <2>3. /\ quarantined' <=> seen[c] >= Threshold
        /\ hist'.diverged = hist.diverged /\ hist'.streak = hist.streak + 1
        /\ hist'.attempts = hist.attempts
    BY <1>13, <2>2 DEF TripBreaker, Quarantine
  <2> QED
    BY <1>0, <1>13, <2>1, <2>2, <2>3 DEF Exact, TripBreaker, At, Answer, Goto, Reference,
       Fallback, NoAnswer, Outside, localVars
<1>14. ASSUME NEW c \in Sessions, ServeEngine(c) PROVE Exact'
  <2>1. Exact /\ Others(c)
    BY <1>2, <1>14 DEF SessionStep, Entered, ServeEngine, Answer, Goto, NoAnswer
  <2> QED
    BY <1>0, <1>14, <2>1 DEF Exact, ServeEngine, At, Answer, Goto, NoAnswer, Outside,
       localVars
<1>15. ASSUME UNCHANGED vars PROVE Exact'
  BY <1>15 DEF AloneExact, Alone, Exact, vars, sharedVars, localVars
<1> QED
  BY <1>1, <1>3, <1>4, <1>5, <1>6, <1>7, <1>8, <1>9, <1>10, <1>11, <1>12, <1>13, <1>14,
     <1>15 DEF Next, SessionStep, Resting

LEMMA MoreInit == Init => Registry /\ Served /\ AloneExact
<1> SUFFICES ASSUME Init PROVE Registry /\ Served /\ AloneExact
  OBVIOUS
<1> USE RouterAssumption DEF Init
<1>1. Registry
  BY DEF Registry
<1>2. Served
  BY DEF Served, NoAnswer, Answers
<1>3. AloneExact
  BY DEF AloneExact, Exact, HistInit, NoAnswer, Outside
<1> QED
  BY <1>1, <1>2, <1>3

LEMMA RouterInvariant == Spec => []RouterInv
<1>1. RouterInv /\ [Next]_vars => RouterInv'
  BY TypesStep, CheckedStep, InsideStep, CounterStep, ClosedStep DEF RouterInv
<1> QED
  BY RouterInit, <1>1, PTL DEF Spec
---------------------------------------------------------------------------
(* route never serves an engine result whose check failed, raised or       *)
(* could not be made.                                                      *)
THEOREM NeverFailsOpen == Spec => []FailClosed
  BY RouterInvariant, PTL DEF RouterInv, CheckedIsEqual

(* After the quarantine of a template every session serves at most the one *)
(* engine answer it had already matched, whatever discovery registers.     *)
THEOREM QuarantineHolds == Spec => []LateServesBounded
  BY RouterInvariant, PTL DEF RouterInv, InsideIsCut

(* However many sessions promote and re-discover at once, the bound engine *)
(* stays open.                                                             *)
THEOREM BoundStaysOpen == Spec => []BoundIsOpen
<1>1. RouterInv => BoundIsOpen
  BY DEF RouterInv, ClosedIsOlder, BoundIsOpen
<1> QED
  BY RouterInvariant, <1>1, PTL

(* Lost updates of the unlocked failure counter never open the breaker     *)
(* early.                                                                  *)
THEOREM NoEarlyBreak == Spec => []BreakerNeedsFailures
  BY RouterInvariant, PTL DEF RouterInv, CounterLags

LEMMA MoreInvariant == Spec => [](Registry /\ Served /\ AloneExact)
<1>1. /\ Types /\ Registry /\ Served /\ AloneExact /\ [Next]_vars
      => Registry' /\ Served' /\ AloneExact'
  BY RegistryStep, ServedStep, AloneStep
<1>2. RouterInv => Types
  BY DEF RouterInv
<1> QED
  BY MoreInit, RouterInvariant, <1>1, <1>2, PTL DEF Spec

(* The variables keep their types; no caller ever gets a fault.            *)
THEOREM RouterTyped == Spec => []TypeOK
<1>1. RouterInv /\ Registry /\ Served => TypeOK
  BY DEF RouterInv, Types, Registry, Served, TypeOK
<1> QED
  BY RouterInvariant, MoreInvariant, <1>1, PTL

(* A session alone trips the breaker at Threshold failures in a row or at  *)
(* a divergence, and not before.                                           *)
THEOREM BreakerIsExact == Spec => []BreakerExact
<1>1. AloneExact => BreakerExact
  BY DEF AloneExact, Exact, BreakerExact
<1> QED
  BY MoreInvariant, <1>1, PTL

(* A session alone checks the first VerifyFirst executions.                *)
THEOREM BurnInHolds == Spec => []BurnInChecked
<1>1. AloneExact => BurnInChecked
  BY DEF AloneExact, Exact, BurnInChecked
<1> QED
  BY MoreInvariant, <1>1, PTL
---------------------------------------------------------------------------
(* The router keeps what its callers are promised.                         *)

\* What runs beside the queries of the others, and what decides nothing yet.
LEMMA OutsideMaps ==
  ASSUME Types, NEW c \in Sessions,
         \/ Discover(c) \/ BeginPromotion(c) \/ Promote(c) \/ PromotionFails(c)
         \/ CloseSuperseded(c) \/ GuardsPass(c) \/ ReadExecs(c) \/ StoreExecs(c)
         \/ CrossCheck(c) \/ SkipCheck(c) \/ CompareRaises(c) \/ Verified(c)
         \/ ReadFailures(c) \/ RunEngine(c)
  PROVE  UNCHANGED Guarded!vars
<1>1. UNCHANGED <<quarantined, answer, hist.recorded>>
  BY DEF Types, Histories, Discover, BeginPromotion, Promote, PromotionFails, CloseSuperseded,
         GuardsPass, ReadExecs, StoreExecs, CrossCheck, SkipCheck, CompareRaises, Verified,
         ReadFailures, RunEngine, sharedVars
<1>2. /\ \A d \in Sessions \ {c} : pc'[d] = pc[d]
      /\ pc'[c] \in Outside <=> pc[c] \in Outside
  BY DEF Types, At, Goto, Outside, Discover, BeginPromotion, Promote, PromotionFails,
         CloseSuperseded, GuardsPass, ReadExecs, StoreExecs, CrossCheck, SkipCheck,
         CompareRaises, Verified, ReadFailures, RunEngine
<1>3. Inside' = Inside
  BY <1>2 DEF Inside
<1> QED
  BY <1>1, <1>3 DEF Guarded!vars

\* Who gets an answer is outside then.
LEMMA AnswerLeaves ==
  ASSUME Types, NEW c \in Sessions, NEW a, Answer(c, a)
  PROVE  Guarded!Answered(c, a)
<1>1. pc' = [pc EXCEPT ![c] = "idle"] /\ answer' = [answer EXCEPT ![c] = a]
  BY DEF Answer, Goto
<1>2. Inside' = Inside \ {c}
  BY <1>1 DEF Inside, Outside, Types
<1> QED
  BY <1>1, <1>2 DEF Guarded!Answered

LEMMA DuckDBAnswers ==
  ASSUME Types, NEW c \in Sessions, Answer(c, Fallback) \/ Answer(c, Reference)
  PROVE  Guarded!FromDuckDB(c)
  BY AnswerLeaves DEF Fallback, Reference, Guarded!FromDuckDB

LEMMA MatchMaps ==
  ASSUME Types, NEW c \in Sessions, Match(c)
  PROVE  Guarded!Ask(c) \/ Guarded!Fallback(c)
<1>1. UNCHANGED <<quarantined, hist>> /\ pc[c] = "idle"
  BY DEF Match, sharedVars, At
<1>2. CASE bound # 0 /\ ~quarantined
  <2>1. pc' = [pc EXCEPT ![c] = "guard"] /\ UNCHANGED answer
    BY <1>2 DEF Match, Goto
  <2>2. c \notin Inside /\ Inside' = Inside \cup {c}
    BY <1>1, <2>1 DEF Inside, Outside, Types
  <2> QED
    BY <1>1, <1>2, <2>1, <2>2 DEF Guarded!Ask
<1>3. CASE ~(bound # 0 /\ ~quarantined)
  BY <1>1, <1>3, DuckDBAnswers DEF Match, Guarded!Fallback
<1> QED
  BY <1>2, <1>3

LEMMA ServeMaps ==
  ASSUME Types, CheckedIsEqual, NEW c \in Sessions, ServeEngine(c),
         Served
  PROVE  Guarded!Engine(c)
<1> DEFINE a == [by |-> "engine", result |-> result[c], checked |-> checked[c]]
<1>1. /\ Answer(c, a) /\ pc[c] = "serve" /\ UNCHANGED quarantined
      /\ hist' = [hist EXCEPT !.streak = 0, !.late[c] = @ + (IF quarantined THEN 1 ELSE 0)]
  BY DEF ServeEngine, At
<1>2. c \in Inside
  BY <1>1 DEF Inside, Outside
<1>3. result[c] \in {"right", "wrong"} /\ checked[c] \in BOOLEAN
  BY <1>1 DEF Types, Served
<1>4. checked[c] => result[c] = "right"
  BY <1>1 DEF CheckedIsEqual
<1>5. UNCHANGED hist.recorded
  BY <1>1 DEF Types, Histories
<1>6. Guarded!Sound(a) /\ Guarded!Answered(c, a)
  BY <1>1, <1>4, AnswerLeaves DEF Guarded!Sound
<1> QED
  BY <1>1, <1>2, <1>3, <1>5, <1>6 DEF Guarded!Engine

LEMMA FallbackMaps ==
  ASSUME Types, NEW c \in Sessions, GuardsRefuse(c) \/ ReferenceFails(c)
  PROVE  Guarded!Fallback(c)
<1>1. Answer(c, Fallback) /\ UNCHANGED <<quarantined, hist.recorded>>
  BY DEF GuardsRefuse, ReferenceFails, sharedVars, Types, Histories
<1> QED
  BY <1>1, DuckDBAnswers DEF Guarded!Fallback

\* The steps that may begin the quarantine.
LEMMA QuarantineFrames ==
  ASSUME Types, NEW c \in Sessions, NEW h \in Histories, Quarantine(c, h)
  PROVE  quarantined' = TRUE /\ hist'.recorded = h.recorded
  BY DEF Quarantine, Histories

LEMMA DivergedMaps ==
  ASSUME Types, NEW c \in Sessions, Diverged(c)
  PROVE  Guarded!Diverge(c)
<1> DEFINE h == [hist EXCEPT !.attempts = @ + 1, !.diverged = TRUE]
<1>1. h \in Histories /\ h.recorded = hist.recorded
  <2>1. hist \in Histories
    BY DEF Types
  <2>2. h \in Histories
    BY <2>1, HistTypes
  <2>3. h.recorded = hist.recorded
    BY <2>1 DEF Histories
  <2> QED
    BY <2>2, <2>3
<1>2. Answer(c, Reference) /\ Quarantine(c, h) /\ pc[c] = "check"
  BY DEF Diverged, At
<1>3. c \in Inside
  BY <1>2 DEF Inside, Outside
<1> HIDE DEF h
<1> QED
  BY <1>1, <1>2, <1>3, DuckDBAnswers, QuarantineFrames DEF Guarded!Diverge

LEMMA TripMaps ==
  ASSUME Types, CounterLags, NEW c \in Sessions, TripBreaker(c)
  PROVE  Guarded!Fail(c)
<1> DEFINE h == [hist EXCEPT !.recorded = @ + 1, !.streak = @ + 1]
<1>1. h \in Histories /\ h.recorded = hist.recorded + 1
  <2>1. hist \in Histories
    BY DEF Types
  <2>2. h \in Histories
    BY <2>1, HistTypes
  <2>3. h.recorded = hist.recorded + 1
    BY <2>1 DEF Histories
  <2> QED
    BY <2>2, <2>3
<1>2. /\ Answer(c, Fallback) \/ Answer(c, Reference)
      /\ pc[c] = "trip" /\ seen[c] <= hist.recorded + 1
      /\ IF seen[c] >= Threshold THEN Quarantine(c, h) ELSE hist' = h /\ UNCHANGED quarantined
  BY DEF TripBreaker, At, CounterLags
<1>3. c \in Inside
  BY <1>2 DEF Inside, Outside
<1>4. hist'.recorded = hist.recorded + 1
  <2> HIDE DEF h
  <2> QED
    BY <1>1, <1>2, QuarantineFrames
<1>5. \/ UNCHANGED quarantined
      \/ quarantined' = TRUE /\ hist.recorded + 1 >= Threshold
  <2>1. CASE seen[c] >= Threshold
    <3>1. hist.recorded + 1 >= Threshold
      BY <1>2, <2>1, RouterAssumption DEF Types, Histories
    <3>2. Quarantine(c, h)
      BY <1>2, <2>1
    <3> HIDE DEF h
    <3> QED
      BY <1>1, <3>1, <3>2, QuarantineFrames
  <2>2. CASE ~(seen[c] >= Threshold)
    BY <1>2, <2>2
  <2> QED
    BY <2>1, <2>2
<1>6. Guarded!FromDuckDB(c)
  BY <1>2, DuckDBAnswers
<1>7. \/ UNCHANGED (~quarantined)
      \/ (~quarantined)' = FALSE /\ hist'.recorded >= Threshold
  <2>1. ASSUME quarantined' = TRUE PROVE (~quarantined)' = FALSE
    BY <2>1
  <2>2. ASSUME UNCHANGED quarantined PROVE UNCHANGED (~quarantined)
    BY <2>2
  <2> QED
    BY <1>4, <1>5, <2>1, <2>2
<1> HIDE DEF h
<1> QED
  BY <1>3, <1>4, <1>6, <1>7 DEF Guarded!Fail

LEMMA RouterMaps == RouterInv /\ Served /\ [Next]_vars => [Guarded!Next]_(Guarded!vars)
<1> SUFFICES ASSUME RouterInv, Served, [Next]_vars PROVE [Guarded!Next]_(Guarded!vars)
  OBVIOUS
<1>0. Types /\ CheckedIsEqual /\ CounterLags
  BY DEF RouterInv
<1>1. ASSUME NEW c \in Sessions, SessionStep(c) PROVE [Guarded!Next]_(Guarded!vars)
  <2>1. CASE \/ Discover(c) \/ BeginPromotion(c) \/ Promote(c) \/ PromotionFails(c)
             \/ CloseSuperseded(c) \/ GuardsPass(c) \/ ReadExecs(c) \/ StoreExecs(c)
             \/ CrossCheck(c) \/ SkipCheck(c) \/ CompareRaises(c) \/ Verified(c)
             \/ ReadFailures(c) \/ RunEngine(c)
    BY <1>0, <2>1, OutsideMaps
  <2>2. CASE \/ Match(c) \/ ServeEngine(c) \/ GuardsRefuse(c) \/ ReferenceFails(c)
             \/ Diverged(c) \/ TripBreaker(c)
    BY <1>0, <2>2, MatchMaps, ServeMaps, FallbackMaps, DivergedMaps, TripMaps
       DEF Guarded!Next
  <2> QED
    BY <1>1, <2>1, <2>2 DEF SessionStep
<1>2. CASE UNCHANGED vars
  BY <1>2 DEF vars, sharedVars, Guarded!vars, Inside
<1> QED
  BY <1>1, <1>2 DEF Next, Resting

LEMMA RouterInitMaps == Init => Guarded!Init
  BY DEF Init, Guarded!Init, Inside, Outside, HistInit, NoAnswer

(* For any number of sessions: whatever they count, trip, discover and     *)
(* promote at once, each caller gets what GuardedAnswers promises.         *)
THEOREM RouterGuardsAnswers == Spec => AnswersGuarded
<1>1. RouterInv /\ Served /\ [Next]_vars => [Guarded!Next]_(Guarded!vars)
  BY RouterMaps
<1> QED
  BY RouterInitMaps, RouterInvariant, MoreInvariant, <1>1, PTL
     DEF Spec, AnswersGuarded, Guarded!Spec
===========================================================================
