--------------------------- MODULE PipelineProofs ---------------------------
(* Theorems about Pipeline, for every size of the pools and of the target. *)
EXTENDS Pipeline, FiniteSetTheorems, TLAPS

-----------------------------------------------------------------------------
(* Type correctness. *)

LEMMA InitTypeOK == Init => TypeOK
  <1>. SUFFICES ASSUME Init PROVE TypeOK
    OBVIOUS
  <1>1. TypeCounters
    BY PipelineAssumption DEF PipelineAssumption, Init, TypeCounters
  <1>2. TypeWorkers
    BY DEF Init, TypeWorkers
  <1>3. TypeFates
    BY DEF Init, TypeFates, Fate, HeldByP, HeldByC, HeldByO
  <1>4. TypeControl
    BY DEF Init, TypeControl
  <1>. QED
    BY <1>1, <1>2, <1>3, <1>4 DEF TypeOK

LEMMA StaleCount == Cardinality(With({"stale"})) \in Nat
  BY PipelineAssumption, FS_Subset, FS_CardinalityType DEF PipelineAssumption, With

LEMMA StepTypeOK ==
  ASSUME TypeOK, [Next]_vars
  PROVE  TypeOK'
  <1> USE PipelineAssumption, StaleCount
      DEF PipelineAssumption, TypeOK, TypeCounters, TypeWorkers, TypeFates, TypeControl,
          Fate, HeldByP, HeldByC, HeldByO, InQueue, Ended
  <1>1. ASSUME NEW w \in SPool, SStop(w) PROVE TypeOK'
    BY <1>1 DEF SStop, seats, tokens, slots, sems, control
  <1>2. ASSUME NEW w \in SPool, SStart(w) PROVE TypeOK'
    BY <1>2 DEF SStart, Purged, QFreed, TFreed, seats, control, Freed
  <1>3. ASSUME NEW w \in SPool, SSolve(w) PROVE TypeOK'
    BY <1>3 DEF SSolve, Freed, seats, tokens, slots, control
  <1>4. ASSUME NEW w \in SPool, SPutT(w) PROVE TypeOK'
    BY <1>4 DEF SPutT, Purged, QFreed, TFreed, seats, sems, control, Freed
  <1>5. ASSUME NEW w \in SPool, SPutTCancelled(w) PROVE TypeOK'
    BY <1>5 DEF SPutTCancelled, seats, tokens, slots, sems, control
  <1>6. ASSUME NEW w \in PPool, PStop(w) PROVE TypeOK'
    BY <1>6 DEF PStop, seats, tokens, slots, sems, control
  <1>7. ASSUME NEW w \in PPool, PStart(w) PROVE TypeOK'
    BY <1>7 DEF PStart, Purged, QFreed, TFreed, seats, sems, control, Freed
  <1>8. ASSUME NEW w \in PPool, PReload(w) PROVE TypeOK'
    BY <1>8 DEF PReload, seats, tokens, slots, sems, control
  <1>9. ASSUME NEW w \in PPool, PReserve(w) PROVE TypeOK'
    BY <1>9 DEF PReserve, Move, tokens, slots, sems, control
  <1>10. ASSUME NEW w \in PPool, NEW a \in Attempts, PAcquire(w, a) PROVE TypeOK'
    BY <1>10 DEF PAcquire, Move, Holds, seats, tokens, slots, pools, control
  <1>11. ASSUME NEW w \in PPool, NEW a \in Attempts, PAcquireCancelled(w, a) PROVE TypeOK'
    BY <1>11 DEF PAcquireCancelled, ReleaseReserve, Move, Holds, tokens, slots, sems, control
  <1>12. ASSUME NEW w \in PPool, NEW a \in Attempts, PMailFail(w, a) PROVE TypeOK'
    BY <1>12 DEF PMailFail, ReleaseReserve, Freed, Move, Holds, tokens, slots, control
  <1>13. ASSUME NEW w \in PPool, NEW a \in Attempts, PMail(w, a) PROVE TypeOK'
    BY <1>13 DEF PMail, Move, Holds, seats, tokens, slots, sems, pools, control
  <1>14. ASSUME NEW w \in PPool, NEW a \in Attempts, PPutQ(w, a) PROVE TypeOK'
    BY <1>14 DEF PPutQ, Freed, Purged, QFreed, TFreed, Holds, seats, control
  <1>15. ASSUME NEW w \in PPool, NEW a \in Attempts, PPutQCancelled(w, a) PROVE TypeOK'
    BY <1>15 DEF PPutQCancelled, ReleaseReserve, Freed, Move, Holds, tokens, slots, control
  <1>16. ASSUME NEW w \in CPool, CStop(w) PROVE TypeOK'
    BY <1>16 DEF CStop, seats, tokens, slots, sems, control
  <1>17. ASSUME NEW w \in CPool, CWait(w) PROVE TypeOK'
    BY <1>17 DEF CWait, Purged, QFreed, TFreed, seats, sems, control, Freed
  <1>18. ASSUME NEW w \in CPool, NEW a \in Attempts, CClaim(w, a) PROVE TypeOK'
    BY <1>18 DEF CClaim, Purged, QFreed, TFreed, seats, sems, control, Freed
  <1>19. ASSUME NEW w \in CPool, NEW a \in Attempts, CRefused(w, a) PROVE TypeOK'
    BY <1>19 DEF CRefused, ReleaseReserve, Freed, Move, Holds, tokens, sems, control
  <1>20. ASSUME NEW w \in CPool, NEW a \in Attempts, CSignup(w, a) PROVE TypeOK'
    BY <1>20 DEF CSignup, Freed, Move, Holds, seats, tokens, sems, pools, control
  <1>21. ASSUME NEW w \in CPool, NEW a \in Attempts, CSend(w, a) PROVE TypeOK'
    BY <1>21 DEF CSend, Move, Holds, seats, tokens, slots, sems, control
  <1>22. ASSUME NEW w \in CPool, NEW a \in Attempts, CSendCancelled(w, a) PROVE TypeOK'
    BY <1>22 DEF CSendCancelled, ReleaseReserve, Move, Holds, tokens, slots, sems, control
  <1>23. ASSUME NEW w \in CPool, NEW a \in Attempts, CSendClosed(w, a) PROVE TypeOK'
    BY <1>23 DEF CSendClosed, Holds, seats, tokens, slots, sems, pools
  <1>24. ASSUME NEW w \in OPool, OExit(w) PROVE TypeOK'
    BY <1>24 DEF OExit, seats, tokens, slots, sems, control
  <1>25. ASSUME NEW w \in OPool, NEW a \in Attempts, OTakeSurplus(w, a) PROVE TypeOK'
    BY <1>25 DEF OTakeSurplus, ReleaseReserve, Move, tokens, slots, sems, pools, control
  <1>26. ASSUME NEW w \in OPool, NEW a \in Attempts, OTake(w, a) PROVE TypeOK'
    BY <1>26 DEF OTake, Move, seats, tokens, slots, sems, control
  <1>27. ASSUME NEW w \in OPool, NEW a \in Attempts, ODelay(w, a) PROVE TypeOK'
    BY <1>27 DEF ODelay, Move, Holds, seats, tokens, slots, sems, pools, control
  <1>28. ASSUME NEW w \in OPool, NEW a \in Attempts, ODelayCancelled(w, a) PROVE TypeOK'
    BY <1>28 DEF ODelayCancelled, Move, Holds, seats, tokens, slots, sems, control
  <1>29. ASSUME NEW w \in OPool, NEW a \in Attempts, OAuthFail(w, a) PROVE TypeOK'
    BY <1>29 DEF OAuthFail, ReleaseReserve, Move, Holds, tokens, slots, sems, control
  <1>30. ASSUME NEW w \in OPool, NEW a \in Attempts, OAuthOk(w, a) PROVE TypeOK'
    BY <1>30 DEF OAuthOk, Move, Holds, seats, tokens, slots, sems, pools, control
  <1>31. ASSUME NEW w \in OPool, NEW a \in Attempts, OProbeFail(w, a) PROVE TypeOK'
    BY <1>31 DEF OProbeFail, ReleaseReserve, Move, Holds, tokens, slots, sems, control
  <1>32. ASSUME NEW w \in OPool, NEW a \in Attempts, OComplete(w, a) PROVE TypeOK'
    BY <1>32 DEF OComplete, Move, Holds, tokens, slots, sems, pools, control
  <1>33. ASSUME NEW w \in OPool, NEW a \in Attempts, OSettle(w, a) PROVE TypeOK'
    BY <1>33 DEF OSettle, ReleaseReserve, Move, Holds, tokens, slots, sems, pools, control
  <1>34. ASSUME NEW w \in OPool, NEW a \in Attempts, OSurplus(w, a) PROVE TypeOK'
    BY <1>34 DEF OSurplus, ReleaseReserve, Move, Holds, tokens, slots, sems, control
  <1>35. ASSUME NEW w \in OPool, NEW a \in Attempts, OWriteFail(w, a) PROVE TypeOK'
    BY <1>35 DEF OWriteFail, Move, Holds, seats, tokens, slots, sems, control
  <1>36. ASSUME NEW w \in OPool, NEW a \in Attempts, OExport(w, a) PROVE TypeOK'
    <2>1. TypeCounters'
      BY <1>36 DEF OExport, Purged, QFreed, TFreed, Holds, seats, sems, control, Freed
    <2>2. TypeWorkers'
      BY <1>36 DEF OExport, Purged, QFreed, TFreed, Holds, seats, sems, control, Freed
    <2>3. fate' \in [Attempts -> Fate] /\ fate'[a] \in Ended
      BY <1>36 DEF OExport, Purged, QFreed, TFreed, Holds, seats, sems, control, Freed
    <2>4. \A b \in Attempts \ {a} : fate'[b] = Purged[b] /\ by'[b] = by[b]
      BY <1>36 DEF OExport, Purged, QFreed, TFreed, Holds, seats, sems, control, Freed
    <2>5. TypeFates'
      BY <1>36, <2>3, <2>4 DEF OExport, Purged, QFreed, TFreed, Holds, seats, sems, control, Freed
    <2>6. TypeControl'
      BY <1>36 DEF OExport, control
    <2>. QED
      BY <2>1, <2>2, <2>5, <2>6
  <1>37. ASSUME NEW a \in Attempts, ExpireQ(a) PROVE TypeOK'
    BY <1>37 DEF ExpireQ, seats, tokens, slots, sems, pools, control
  <1>38. CASE ExpireT
    BY <1>38 DEF ExpireT, seats, slots, sems, pools, control
  <1>39. CASE Purge
    BY <1>39 DEF Purge, Purged, QFreed, TFreed, seats, sems, pools, control, Freed
  <1>40. CASE Stop
    BY <1>40 DEF Stop, seats, tokens, slots, sems, pools
  <1>41. CASE MainLeaveLoop
    BY <1>41 DEF MainLeaveLoop, seats, tokens, slots, sems, pools
  <1>42. CASE MainCloseChannel
    BY <1>42 DEF MainCloseChannel, seats, tokens, slots, sems, pools
  <1>43. CASE MainFinish \/ MainClose
    BY <1>43 DEF MainFinish, MainClose, seats, tokens, slots, sems, pools
  <1>44. CASE UNCHANGED vars
    BY <1>44 DEF vars, seats, tokens, slots, sems, pools, control
  <1>45. ASSUME NEW w \in SPool, SGate(w) PROVE TypeOK'
    BY <1>45 DEF SGate, seats, tokens, slots, sems, control
  <1>46. ASSUME NEW w \in SPool, SEnough(w) PROVE TypeOK'
    BY <1>46 DEF SEnough, Purged, QFreed, TFreed, seats, sems, control, Freed
  <1>47. ASSUME NEW w \in PPool, PGate(w) PROVE TypeOK'
    BY <1>47 DEF PGate, seats, tokens, slots, sems, control
  <1>48. ASSUME NEW w \in PPool, PEnough(w) PROVE TypeOK'
    BY <1>48 DEF PEnough, Purged, QFreed, TFreed, seats, sems, control, Freed
  <1>. QED
    BY <1>1, <1>2, <1>3, <1>4, <1>5, <1>6, <1>7, <1>8, <1>9, <1>10, <1>11, <1>12, <1>13,
       <1>14, <1>15, <1>16, <1>17, <1>18, <1>19, <1>20, <1>21, <1>22, <1>23, <1>24,
       <1>25, <1>26, <1>27, <1>28, <1>29, <1>30, <1>31, <1>32, <1>33, <1>34, <1>35,
       <1>36, <1>37, <1>38, <1>39, <1>40, <1>41, <1>42, <1>43, <1>44, <1>45, <1>46, <1>47, <1>48
    DEF Next, SLocal, PLocal, CLocal, OLocal, PCall, CCall, OCall, Main, Over

(* Every counter, worker state and fate keeps its type and every attempt in a
   worker's hands belongs to a worker of the right pool. *)
THEOREM TypeCorrect == Spec => []TypeOK
  BY InitTypeOK, StepTypeOK, PTL DEF Spec

-----------------------------------------------------------------------------
(* Seats: every step keeps the seats, takes one and counts it in reserved, or
   gives one back and uncounts it. *)

Seated == With(InFlight \cup {"counted", "leaked"})
SeatsKept == Seated' = Seated /\ reserved' = reserved
SeatTaken(a) == a \notin Seated /\ Seated' = Seated \cup {a} /\ reserved' = reserved + 1
SeatReturned(a) == a \in Seated /\ Seated' = Seated \ {a} /\ ReleaseReserve

LEMMA SeatStep ==
  ASSUME TypeOK, [Next]_vars
  PROVE  SeatsKept \/ \E a \in Attempts : SeatTaken(a) \/ SeatReturned(a)
  <1> USE DEF SeatsKept, SeatTaken, SeatReturned, Seated, With, InFlight,
              TypeOK, TypeFates
  <1>1. ASSUME NEW w \in SPool, SStop(w) PROVE SeatsKept
    BY <1>1 DEF SStop, seats, tokens, slots, sems, control
  <1>2. ASSUME NEW w \in SPool, SStart(w) PROVE SeatsKept
    BY <1>2 DEF SStart, Purged, QFreed, TFreed, seats, control, Freed
  <1>3. ASSUME NEW w \in SPool, SSolve(w) PROVE SeatsKept
    BY <1>3 DEF SSolve, Freed, seats, tokens, slots, control
  <1>4. ASSUME NEW w \in SPool, SPutT(w) PROVE SeatsKept
    BY <1>4 DEF SPutT, Purged, QFreed, TFreed, seats, sems, control, Freed
  <1>5. ASSUME NEW w \in SPool, SPutTCancelled(w) PROVE SeatsKept
    BY <1>5 DEF SPutTCancelled, seats, tokens, slots, sems, control
  <1>6. ASSUME NEW w \in PPool, PStop(w) PROVE SeatsKept
    BY <1>6 DEF PStop, seats, tokens, slots, sems, control
  <1>7. ASSUME NEW w \in PPool, PStart(w) PROVE SeatsKept
    BY <1>7 DEF PStart, Purged, QFreed, TFreed, seats, sems, control, Freed
  <1>8. ASSUME NEW w \in PPool, PReload(w) PROVE SeatsKept
    BY <1>8 DEF PReload, seats, tokens, slots, sems, control
  <1>9. ASSUME NEW w \in PPool, PReserve(w) PROVE SeatsKept \/ \E a \in Attempts : SeatTaken(a)
    BY <1>9 DEF PReserve, Move, tokens, slots, sems, control
  <1>10. ASSUME NEW w \in PPool, NEW a \in Attempts, PAcquire(w, a) PROVE SeatsKept
    BY <1>10 DEF PAcquire, Move, Holds, seats, tokens, slots, pools, control
  <1>11. ASSUME NEW w \in PPool, NEW a \in Attempts, PAcquireCancelled(w, a) PROVE SeatReturned(a)
    BY <1>11 DEF PAcquireCancelled, ReleaseReserve, Move, Holds, tokens, slots, sems, control
  <1>12. ASSUME NEW w \in PPool, NEW a \in Attempts, PMailFail(w, a) PROVE SeatReturned(a)
    BY <1>12 DEF PMailFail, ReleaseReserve, Freed, Move, Holds, tokens, slots, control
  <1>13. ASSUME NEW w \in PPool, NEW a \in Attempts, PMail(w, a) PROVE SeatsKept
    BY <1>13 DEF PMail, Move, Holds, seats, tokens, slots, sems, pools, control
  <1>14. ASSUME NEW w \in PPool, NEW a \in Attempts, PPutQ(w, a) PROVE SeatsKept
    BY <1>14 DEF PPutQ, Freed, Purged, QFreed, TFreed, Holds, seats, control
  <1>15. ASSUME NEW w \in PPool, NEW a \in Attempts, PPutQCancelled(w, a) PROVE SeatReturned(a)
    BY <1>15 DEF PPutQCancelled, ReleaseReserve, Freed, Move, Holds, tokens, slots, control
  <1>16. ASSUME NEW w \in CPool, CStop(w) PROVE SeatsKept
    BY <1>16 DEF CStop, seats, tokens, slots, sems, control
  <1>17. ASSUME NEW w \in CPool, CWait(w) PROVE SeatsKept
    BY <1>17 DEF CWait, Purged, QFreed, TFreed, seats, sems, control, Freed
  <1>18. ASSUME NEW w \in CPool, NEW a \in Attempts, CClaim(w, a) PROVE SeatsKept
    BY <1>18 DEF CClaim, Purged, QFreed, TFreed, seats, sems, control, Freed
  <1>19. ASSUME NEW w \in CPool, NEW a \in Attempts, CRefused(w, a) PROVE SeatReturned(a)
    BY <1>19 DEF CRefused, ReleaseReserve, Freed, Move, Holds, tokens, sems, control
  <1>20. ASSUME NEW w \in CPool, NEW a \in Attempts, CSignup(w, a) PROVE SeatsKept
    BY <1>20 DEF CSignup, Freed, Move, Holds, seats, tokens, sems, pools, control
  <1>21. ASSUME NEW w \in CPool, NEW a \in Attempts, CSend(w, a) PROVE SeatsKept
    BY <1>21 DEF CSend, Move, Holds, seats, tokens, slots, sems, control
  <1>22. ASSUME NEW w \in CPool, NEW a \in Attempts, CSendCancelled(w, a) PROVE SeatReturned(a)
    BY <1>22 DEF CSendCancelled, ReleaseReserve, Move, Holds, tokens, slots, sems, control
  <1>23. ASSUME NEW w \in CPool, NEW a \in Attempts, CSendClosed(w, a) PROVE SeatsKept
    BY <1>23 DEF CSendClosed, Holds, seats, tokens, slots, sems, pools
  <1>24. ASSUME NEW w \in OPool, OExit(w) PROVE SeatsKept
    BY <1>24 DEF OExit, seats, tokens, slots, sems, control
  <1>25. ASSUME NEW w \in OPool, NEW a \in Attempts, OTakeSurplus(w, a) PROVE SeatReturned(a)
    BY <1>25 DEF OTakeSurplus, ReleaseReserve, Move, tokens, slots, sems, pools, control
  <1>26. ASSUME NEW w \in OPool, NEW a \in Attempts, OTake(w, a) PROVE SeatsKept
    BY <1>26 DEF OTake, Move, seats, tokens, slots, sems, control
  <1>27. ASSUME NEW w \in OPool, NEW a \in Attempts, ODelay(w, a) PROVE SeatsKept
    BY <1>27 DEF ODelay, Move, Holds, seats, tokens, slots, sems, pools, control
  <1>28. ASSUME NEW w \in OPool, NEW a \in Attempts, ODelayCancelled(w, a) PROVE SeatsKept
    BY <1>28 DEF ODelayCancelled, Move, Holds, seats, tokens, slots, sems, control
  <1>29. ASSUME NEW w \in OPool, NEW a \in Attempts, OAuthFail(w, a) PROVE SeatReturned(a)
    BY <1>29 DEF OAuthFail, ReleaseReserve, Move, Holds, tokens, slots, sems, control
  <1>30. ASSUME NEW w \in OPool, NEW a \in Attempts, OAuthOk(w, a) PROVE SeatsKept
    BY <1>30 DEF OAuthOk, Move, Holds, seats, tokens, slots, sems, pools, control
  <1>31. ASSUME NEW w \in OPool, NEW a \in Attempts, OProbeFail(w, a) PROVE SeatReturned(a)
    BY <1>31 DEF OProbeFail, ReleaseReserve, Move, Holds, tokens, slots, sems, control
  <1>32. ASSUME NEW w \in OPool, NEW a \in Attempts, OComplete(w, a) PROVE SeatsKept
    BY <1>32 DEF OComplete, Move, Holds, tokens, slots, sems, pools, control
  <1>33. ASSUME NEW w \in OPool, NEW a \in Attempts, OSettle(w, a) PROVE SeatReturned(a)
    BY <1>33 DEF OSettle, ReleaseReserve, Move, Holds, tokens, slots, sems, pools, control
  <1>34. ASSUME NEW w \in OPool, NEW a \in Attempts, OSurplus(w, a) PROVE SeatReturned(a)
    BY <1>34 DEF OSurplus, ReleaseReserve, Move, Holds, tokens, slots, sems, control
  <1>35. ASSUME NEW w \in OPool, NEW a \in Attempts, OWriteFail(w, a) PROVE SeatsKept
    BY <1>35 DEF OWriteFail, Move, Holds, seats, tokens, slots, sems, control
  <1>36. ASSUME NEW w \in OPool, NEW a \in Attempts, OExport(w, a) PROVE SeatsKept
    BY <1>36 DEF OExport, Purged, QFreed, TFreed, Holds, seats, sems, control, Freed
  <1>37. ASSUME NEW a \in Attempts, ExpireQ(a) PROVE SeatsKept
    BY <1>37 DEF ExpireQ, seats, tokens, slots, sems, pools, control
  <1>38. ASSUME ExpireT PROVE SeatsKept
    BY <1>38 DEF ExpireT, seats, slots, sems, pools, control
  <1>39. ASSUME Purge PROVE SeatsKept
    BY <1>39 DEF Purge, Purged, QFreed, TFreed, seats, sems, pools, control, Freed
  <1>40. ASSUME Stop PROVE SeatsKept
    BY <1>40 DEF Stop, seats, tokens, slots, sems, pools
  <1>41. ASSUME MainLeaveLoop PROVE SeatsKept
    BY <1>41 DEF MainLeaveLoop, seats, tokens, slots, sems, pools
  <1>42. ASSUME MainCloseChannel PROVE SeatsKept
    BY <1>42 DEF MainCloseChannel, seats, tokens, slots, sems, pools
  <1>43. ASSUME MainFinish \/ MainClose PROVE SeatsKept
    BY <1>43 DEF MainFinish, MainClose, seats, tokens, slots, sems, pools
  <1>44. ASSUME UNCHANGED vars PROVE SeatsKept
    BY <1>44 DEF vars, seats, tokens, slots, sems, pools, control
  <1>45. ASSUME NEW w \in SPool, SGate(w) PROVE SeatsKept
    BY <1>45 DEF SGate, seats, tokens, slots, sems, control
  <1>46. ASSUME NEW w \in SPool, SEnough(w) PROVE SeatsKept
    BY <1>46 DEF SEnough, Purged, QFreed, TFreed, seats, sems, control, Freed
  <1>47. ASSUME NEW w \in PPool, PGate(w) PROVE SeatsKept
    BY <1>47 DEF PGate, seats, tokens, slots, sems, control
  <1>48. ASSUME NEW w \in PPool, PEnough(w) PROVE SeatsKept
    BY <1>48 DEF PEnough, Purged, QFreed, TFreed, seats, sems, control, Freed
  <1>. QED
    BY <1>1, <1>2, <1>3, <1>4, <1>5, <1>6, <1>7, <1>8, <1>9, <1>10, <1>11, <1>12, <1>13,
       <1>14, <1>15, <1>16, <1>17, <1>18, <1>19, <1>20, <1>21, <1>22, <1>23, <1>24,
       <1>25, <1>26, <1>27, <1>28, <1>29, <1>30, <1>31, <1>32, <1>33, <1>34, <1>35,
       <1>36, <1>37, <1>38, <1>39, <1>40, <1>41, <1>42, <1>43, <1>44, <1>45, <1>46, <1>47, <1>48
    DEF Next, SLocal, PLocal, CLocal, OLocal, PCall, CCall, OCall, Main, Over

(* Successes: only OComplete adds one, below the target, and none is lost. *)

Successes == With(Counted)
SuccessesKept == Successes' = Successes /\ done' = done
SuccessCounted(a) ==
  a \notin Successes /\ Successes' = Successes \cup {a} /\ done' = done + 1 /\ done < Target

LEMMA SuccessStep ==
  ASSUME TypeOK, [Next]_vars
  PROVE  SuccessesKept \/ \E a \in Attempts : SuccessCounted(a)
  <1> USE DEF SuccessesKept, SuccessCounted, Successes, With, Counted, TypeOK, TypeFates
  <1>1. ASSUME NEW w \in SPool, SStop(w) PROVE SuccessesKept
    BY <1>1 DEF SStop, seats, tokens, slots, sems, control
  <1>2. ASSUME NEW w \in SPool, SStart(w) PROVE SuccessesKept
    BY <1>2 DEF SStart, Purged, QFreed, TFreed, seats, control, Freed
  <1>3. ASSUME NEW w \in SPool, SSolve(w) PROVE SuccessesKept
    BY <1>3 DEF SSolve, Freed, seats, tokens, slots, control
  <1>4. ASSUME NEW w \in SPool, SPutT(w) PROVE SuccessesKept
    BY <1>4 DEF SPutT, Purged, QFreed, TFreed, seats, sems, control, Freed
  <1>5. ASSUME NEW w \in SPool, SPutTCancelled(w) PROVE SuccessesKept
    BY <1>5 DEF SPutTCancelled, seats, tokens, slots, sems, control
  <1>6. ASSUME NEW w \in PPool, PStop(w) PROVE SuccessesKept
    BY <1>6 DEF PStop, seats, tokens, slots, sems, control
  <1>7. ASSUME NEW w \in PPool, PStart(w) PROVE SuccessesKept
    BY <1>7 DEF PStart, Purged, QFreed, TFreed, seats, sems, control, Freed
  <1>8. ASSUME NEW w \in PPool, PReload(w) PROVE SuccessesKept
    BY <1>8 DEF PReload, seats, tokens, slots, sems, control
  <1>9. ASSUME NEW w \in PPool, PReserve(w) PROVE SuccessesKept
    BY <1>9 DEF PReserve, Move, tokens, slots, sems, control
  <1>10. ASSUME NEW w \in PPool, NEW a \in Attempts, PAcquire(w, a) PROVE SuccessesKept
    BY <1>10 DEF PAcquire, Move, Holds, seats, tokens, slots, pools, control
  <1>11. ASSUME NEW w \in PPool, NEW a \in Attempts, PAcquireCancelled(w, a) PROVE SuccessesKept
    BY <1>11 DEF PAcquireCancelled, ReleaseReserve, Move, Holds, tokens, slots, sems, control
  <1>12. ASSUME NEW w \in PPool, NEW a \in Attempts, PMailFail(w, a) PROVE SuccessesKept
    BY <1>12 DEF PMailFail, ReleaseReserve, Freed, Move, Holds, tokens, slots, control
  <1>13. ASSUME NEW w \in PPool, NEW a \in Attempts, PMail(w, a) PROVE SuccessesKept
    BY <1>13 DEF PMail, Move, Holds, seats, tokens, slots, sems, pools, control
  <1>14. ASSUME NEW w \in PPool, NEW a \in Attempts, PPutQ(w, a) PROVE SuccessesKept
    BY <1>14 DEF PPutQ, Freed, Purged, QFreed, TFreed, Holds, seats, control
  <1>15. ASSUME NEW w \in PPool, NEW a \in Attempts, PPutQCancelled(w, a) PROVE SuccessesKept
    BY <1>15 DEF PPutQCancelled, ReleaseReserve, Freed, Move, Holds, tokens, slots, control
  <1>16. ASSUME NEW w \in CPool, CStop(w) PROVE SuccessesKept
    BY <1>16 DEF CStop, seats, tokens, slots, sems, control
  <1>17. ASSUME NEW w \in CPool, CWait(w) PROVE SuccessesKept
    BY <1>17 DEF CWait, Purged, QFreed, TFreed, seats, sems, control, Freed
  <1>18. ASSUME NEW w \in CPool, NEW a \in Attempts, CClaim(w, a) PROVE SuccessesKept
    BY <1>18 DEF CClaim, Purged, QFreed, TFreed, seats, sems, control, Freed
  <1>19. ASSUME NEW w \in CPool, NEW a \in Attempts, CRefused(w, a) PROVE SuccessesKept
    BY <1>19 DEF CRefused, ReleaseReserve, Freed, Move, Holds, tokens, sems, control
  <1>20. ASSUME NEW w \in CPool, NEW a \in Attempts, CSignup(w, a) PROVE SuccessesKept
    BY <1>20 DEF CSignup, Freed, Move, Holds, seats, tokens, sems, pools, control
  <1>21. ASSUME NEW w \in CPool, NEW a \in Attempts, CSend(w, a) PROVE SuccessesKept
    BY <1>21 DEF CSend, Move, Holds, seats, tokens, slots, sems, control
  <1>22. ASSUME NEW w \in CPool, NEW a \in Attempts, CSendCancelled(w, a) PROVE SuccessesKept
    BY <1>22 DEF CSendCancelled, ReleaseReserve, Move, Holds, tokens, slots, sems, control
  <1>23. ASSUME NEW w \in CPool, NEW a \in Attempts, CSendClosed(w, a) PROVE SuccessesKept
    BY <1>23 DEF CSendClosed, Holds, seats, tokens, slots, sems, pools
  <1>24. ASSUME NEW w \in OPool, OExit(w) PROVE SuccessesKept
    BY <1>24 DEF OExit, seats, tokens, slots, sems, control
  <1>25. ASSUME NEW w \in OPool, NEW a \in Attempts, OTakeSurplus(w, a) PROVE SuccessesKept
    BY <1>25 DEF OTakeSurplus, ReleaseReserve, Move, tokens, slots, sems, pools, control
  <1>26. ASSUME NEW w \in OPool, NEW a \in Attempts, OTake(w, a) PROVE SuccessesKept
    BY <1>26 DEF OTake, Move, seats, tokens, slots, sems, control
  <1>27. ASSUME NEW w \in OPool, NEW a \in Attempts, ODelay(w, a) PROVE SuccessesKept
    BY <1>27 DEF ODelay, Move, Holds, seats, tokens, slots, sems, pools, control
  <1>28. ASSUME NEW w \in OPool, NEW a \in Attempts, ODelayCancelled(w, a) PROVE SuccessesKept
    BY <1>28 DEF ODelayCancelled, Move, Holds, seats, tokens, slots, sems, control
  <1>29. ASSUME NEW w \in OPool, NEW a \in Attempts, OAuthFail(w, a) PROVE SuccessesKept
    BY <1>29 DEF OAuthFail, ReleaseReserve, Move, Holds, tokens, slots, sems, control
  <1>30. ASSUME NEW w \in OPool, NEW a \in Attempts, OAuthOk(w, a) PROVE SuccessesKept
    BY <1>30 DEF OAuthOk, Move, Holds, seats, tokens, slots, sems, pools, control
  <1>31. ASSUME NEW w \in OPool, NEW a \in Attempts, OProbeFail(w, a) PROVE SuccessesKept
    BY <1>31 DEF OProbeFail, ReleaseReserve, Move, Holds, tokens, slots, sems, control
  <1>32. ASSUME NEW w \in OPool, NEW a \in Attempts, OComplete(w, a) PROVE SuccessCounted(a)
    BY <1>32 DEF OComplete, Move, Holds, tokens, slots, sems, pools, control
  <1>33. ASSUME NEW w \in OPool, NEW a \in Attempts, OSettle(w, a) PROVE SuccessesKept
    BY <1>33 DEF OSettle, ReleaseReserve, Move, Holds, tokens, slots, sems, pools, control
  <1>34. ASSUME NEW w \in OPool, NEW a \in Attempts, OSurplus(w, a) PROVE SuccessesKept
    BY <1>34 DEF OSurplus, ReleaseReserve, Move, Holds, tokens, slots, sems, control
  <1>35. ASSUME NEW w \in OPool, NEW a \in Attempts, OWriteFail(w, a) PROVE SuccessesKept
    BY <1>35 DEF OWriteFail, Move, Holds, seats, tokens, slots, sems, control
  <1>36. ASSUME NEW w \in OPool, NEW a \in Attempts, OExport(w, a) PROVE SuccessesKept
    BY <1>36 DEF OExport, Purged, QFreed, TFreed, Holds, seats, sems, control, Freed
  <1>37. ASSUME NEW a \in Attempts, ExpireQ(a) PROVE SuccessesKept
    BY <1>37 DEF ExpireQ, seats, tokens, slots, sems, pools, control
  <1>38. ASSUME ExpireT PROVE SuccessesKept
    BY <1>38 DEF ExpireT, seats, slots, sems, pools, control
  <1>39. ASSUME Purge PROVE SuccessesKept
    BY <1>39 DEF Purge, Purged, QFreed, TFreed, seats, sems, pools, control, Freed
  <1>40. ASSUME Stop PROVE SuccessesKept
    BY <1>40 DEF Stop, seats, tokens, slots, sems, pools
  <1>41. ASSUME MainLeaveLoop PROVE SuccessesKept
    BY <1>41 DEF MainLeaveLoop, seats, tokens, slots, sems, pools
  <1>42. ASSUME MainCloseChannel PROVE SuccessesKept
    BY <1>42 DEF MainCloseChannel, seats, tokens, slots, sems, pools
  <1>43. ASSUME MainFinish \/ MainClose PROVE SuccessesKept
    BY <1>43 DEF MainFinish, MainClose, seats, tokens, slots, sems, pools
  <1>44. ASSUME UNCHANGED vars PROVE SuccessesKept
    BY <1>44 DEF vars, seats, tokens, slots, sems, pools, control
  <1>45. ASSUME NEW w \in SPool, SGate(w) PROVE SuccessesKept
    BY <1>45 DEF SGate, seats, tokens, slots, sems, control
  <1>46. ASSUME NEW w \in SPool, SEnough(w) PROVE SuccessesKept
    BY <1>46 DEF SEnough, Purged, QFreed, TFreed, seats, sems, control, Freed
  <1>47. ASSUME NEW w \in PPool, PGate(w) PROVE SuccessesKept
    BY <1>47 DEF PGate, seats, tokens, slots, sems, control
  <1>48. ASSUME NEW w \in PPool, PEnough(w) PROVE SuccessesKept
    BY <1>48 DEF PEnough, Purged, QFreed, TFreed, seats, sems, control, Freed
  <1>. QED
    BY <1>1, <1>2, <1>3, <1>4, <1>5, <1>6, <1>7, <1>8, <1>9, <1>10, <1>11, <1>12, <1>13,
       <1>14, <1>15, <1>16, <1>17, <1>18, <1>19, <1>20, <1>21, <1>22, <1>23, <1>24,
       <1>25, <1>26, <1>27, <1>28, <1>29, <1>30, <1>31, <1>32, <1>33, <1>34, <1>35,
       <1>36, <1>37, <1>38, <1>39, <1>40, <1>41, <1>42, <1>43, <1>44, <1>45, <1>46, <1>47, <1>48
    DEF Next, SLocal, PLocal, CLocal, OLocal, PCall, CCall, OCall, Main, Over

(* tryReserve bounds reserved although the done it adds may be old. *)
LEMMA ReservedStep ==
  ASSUME TypeOK, reserved <= Target, [Next]_vars
  PROVE  reserved' <= Target
  <1> USE PipelineAssumption DEF PipelineAssumption, TypeOK, TypeCounters, TypeWorkers
  <1>1. ASSUME NEW w \in SPool, SStop(w) PROVE reserved' <= Target
    BY <1>1 DEF SStop, seats, tokens, slots, sems, control
  <1>2. ASSUME NEW w \in SPool, SStart(w) PROVE reserved' <= Target
    BY <1>2 DEF SStart, Purged, QFreed, TFreed, seats, control, Freed
  <1>3. ASSUME NEW w \in SPool, SSolve(w) PROVE reserved' <= Target
    BY <1>3 DEF SSolve, Freed, seats, tokens, slots, control
  <1>4. ASSUME NEW w \in SPool, SPutT(w) PROVE reserved' <= Target
    BY <1>4 DEF SPutT, Purged, QFreed, TFreed, seats, sems, control, Freed
  <1>5. ASSUME NEW w \in SPool, SPutTCancelled(w) PROVE reserved' <= Target
    BY <1>5 DEF SPutTCancelled, seats, tokens, slots, sems, control
  <1>6. ASSUME NEW w \in PPool, PStop(w) PROVE reserved' <= Target
    BY <1>6 DEF PStop, seats, tokens, slots, sems, control
  <1>7. ASSUME NEW w \in PPool, PStart(w) PROVE reserved' <= Target
    BY <1>7 DEF PStart, Purged, QFreed, TFreed, seats, sems, control, Freed
  <1>8. ASSUME NEW w \in PPool, PReload(w) PROVE reserved' <= Target
    BY <1>8 DEF PReload, seats, tokens, slots, sems, control
  <1>9. ASSUME NEW w \in PPool, PReserve(w) PROVE reserved' <= Target
    <2>1. pd[w] \in Nat
      OBVIOUS
    <2>. QED
      BY <1>9, <2>1 DEF PReserve
  <1>10. ASSUME NEW w \in PPool, NEW a \in Attempts, PAcquire(w, a) PROVE reserved' <= Target
    BY <1>10 DEF PAcquire, Move, Holds, seats, tokens, slots, pools, control
  <1>11. ASSUME NEW w \in PPool, NEW a \in Attempts, PAcquireCancelled(w, a) PROVE reserved' <= Target
    BY <1>11 DEF PAcquireCancelled, ReleaseReserve, Move, Holds, tokens, slots, sems, control
  <1>12. ASSUME NEW w \in PPool, NEW a \in Attempts, PMailFail(w, a) PROVE reserved' <= Target
    BY <1>12 DEF PMailFail, ReleaseReserve, Freed, Move, Holds, tokens, slots, control
  <1>13. ASSUME NEW w \in PPool, NEW a \in Attempts, PMail(w, a) PROVE reserved' <= Target
    BY <1>13 DEF PMail, Move, Holds, seats, tokens, slots, sems, pools, control
  <1>14. ASSUME NEW w \in PPool, NEW a \in Attempts, PPutQ(w, a) PROVE reserved' <= Target
    BY <1>14 DEF PPutQ, Freed, Purged, QFreed, TFreed, Holds, seats, control
  <1>15. ASSUME NEW w \in PPool, NEW a \in Attempts, PPutQCancelled(w, a) PROVE reserved' <= Target
    BY <1>15 DEF PPutQCancelled, ReleaseReserve, Freed, Move, Holds, tokens, slots, control
  <1>16. ASSUME NEW w \in CPool, CStop(w) PROVE reserved' <= Target
    BY <1>16 DEF CStop, seats, tokens, slots, sems, control
  <1>17. ASSUME NEW w \in CPool, CWait(w) PROVE reserved' <= Target
    BY <1>17 DEF CWait, Purged, QFreed, TFreed, seats, sems, control, Freed
  <1>18. ASSUME NEW w \in CPool, NEW a \in Attempts, CClaim(w, a) PROVE reserved' <= Target
    BY <1>18 DEF CClaim, Purged, QFreed, TFreed, seats, sems, control, Freed
  <1>19. ASSUME NEW w \in CPool, NEW a \in Attempts, CRefused(w, a) PROVE reserved' <= Target
    BY <1>19 DEF CRefused, ReleaseReserve, Freed, Move, Holds, tokens, sems, control
  <1>20. ASSUME NEW w \in CPool, NEW a \in Attempts, CSignup(w, a) PROVE reserved' <= Target
    BY <1>20 DEF CSignup, Freed, Move, Holds, seats, tokens, sems, pools, control
  <1>21. ASSUME NEW w \in CPool, NEW a \in Attempts, CSend(w, a) PROVE reserved' <= Target
    BY <1>21 DEF CSend, Move, Holds, seats, tokens, slots, sems, control
  <1>22. ASSUME NEW w \in CPool, NEW a \in Attempts, CSendCancelled(w, a) PROVE reserved' <= Target
    BY <1>22 DEF CSendCancelled, ReleaseReserve, Move, Holds, tokens, slots, sems, control
  <1>23. ASSUME NEW w \in CPool, NEW a \in Attempts, CSendClosed(w, a) PROVE reserved' <= Target
    BY <1>23 DEF CSendClosed, Holds, seats, tokens, slots, sems, pools
  <1>24. ASSUME NEW w \in OPool, OExit(w) PROVE reserved' <= Target
    BY <1>24 DEF OExit, seats, tokens, slots, sems, control
  <1>25. ASSUME NEW w \in OPool, NEW a \in Attempts, OTakeSurplus(w, a) PROVE reserved' <= Target
    BY <1>25 DEF OTakeSurplus, ReleaseReserve, Move, tokens, slots, sems, pools, control
  <1>26. ASSUME NEW w \in OPool, NEW a \in Attempts, OTake(w, a) PROVE reserved' <= Target
    BY <1>26 DEF OTake, Move, seats, tokens, slots, sems, control
  <1>27. ASSUME NEW w \in OPool, NEW a \in Attempts, ODelay(w, a) PROVE reserved' <= Target
    BY <1>27 DEF ODelay, Move, Holds, seats, tokens, slots, sems, pools, control
  <1>28. ASSUME NEW w \in OPool, NEW a \in Attempts, ODelayCancelled(w, a) PROVE reserved' <= Target
    BY <1>28 DEF ODelayCancelled, Move, Holds, seats, tokens, slots, sems, control
  <1>29. ASSUME NEW w \in OPool, NEW a \in Attempts, OAuthFail(w, a) PROVE reserved' <= Target
    BY <1>29 DEF OAuthFail, ReleaseReserve, Move, Holds, tokens, slots, sems, control
  <1>30. ASSUME NEW w \in OPool, NEW a \in Attempts, OAuthOk(w, a) PROVE reserved' <= Target
    BY <1>30 DEF OAuthOk, Move, Holds, seats, tokens, slots, sems, pools, control
  <1>31. ASSUME NEW w \in OPool, NEW a \in Attempts, OProbeFail(w, a) PROVE reserved' <= Target
    BY <1>31 DEF OProbeFail, ReleaseReserve, Move, Holds, tokens, slots, sems, control
  <1>32. ASSUME NEW w \in OPool, NEW a \in Attempts, OComplete(w, a) PROVE reserved' <= Target
    BY <1>32 DEF OComplete, Move, Holds, tokens, slots, sems, pools, control
  <1>33. ASSUME NEW w \in OPool, NEW a \in Attempts, OSettle(w, a) PROVE reserved' <= Target
    BY <1>33 DEF OSettle, ReleaseReserve, Move, Holds, tokens, slots, sems, pools, control
  <1>34. ASSUME NEW w \in OPool, NEW a \in Attempts, OSurplus(w, a) PROVE reserved' <= Target
    BY <1>34 DEF OSurplus, ReleaseReserve, Move, Holds, tokens, slots, sems, control
  <1>35. ASSUME NEW w \in OPool, NEW a \in Attempts, OWriteFail(w, a) PROVE reserved' <= Target
    BY <1>35 DEF OWriteFail, Move, Holds, seats, tokens, slots, sems, control
  <1>36. ASSUME NEW w \in OPool, NEW a \in Attempts, OExport(w, a) PROVE reserved' <= Target
    BY <1>36 DEF OExport, Purged, QFreed, TFreed, Holds, seats, sems, control, Freed
  <1>37. ASSUME NEW a \in Attempts, ExpireQ(a) PROVE reserved' <= Target
    BY <1>37 DEF ExpireQ, seats, tokens, slots, sems, pools, control
  <1>38. ASSUME ExpireT PROVE reserved' <= Target
    BY <1>38 DEF ExpireT, seats, slots, sems, pools, control
  <1>39. ASSUME Purge PROVE reserved' <= Target
    BY <1>39 DEF Purge, Purged, QFreed, TFreed, seats, sems, pools, control, Freed
  <1>40. ASSUME Stop PROVE reserved' <= Target
    BY <1>40 DEF Stop, seats, tokens, slots, sems, pools
  <1>41. ASSUME MainLeaveLoop PROVE reserved' <= Target
    BY <1>41 DEF MainLeaveLoop, seats, tokens, slots, sems, pools
  <1>42. ASSUME MainCloseChannel PROVE reserved' <= Target
    BY <1>42 DEF MainCloseChannel, seats, tokens, slots, sems, pools
  <1>43. ASSUME MainFinish \/ MainClose PROVE reserved' <= Target
    BY <1>43 DEF MainFinish, MainClose, seats, tokens, slots, sems, pools
  <1>44. ASSUME UNCHANGED vars PROVE reserved' <= Target
    BY <1>44 DEF vars, seats, tokens, slots, sems, pools, control
  <1>45. ASSUME NEW w \in SPool, SGate(w) PROVE reserved' <= Target
    BY <1>45 DEF SGate, seats, tokens, slots, sems, control
  <1>46. ASSUME NEW w \in SPool, SEnough(w) PROVE reserved' <= Target
    BY <1>46 DEF SEnough, Purged, QFreed, TFreed, seats, sems, control, Freed
  <1>47. ASSUME NEW w \in PPool, PGate(w) PROVE reserved' <= Target
    BY <1>47 DEF PGate, seats, tokens, slots, sems, control
  <1>48. ASSUME NEW w \in PPool, PEnough(w) PROVE reserved' <= Target
    BY <1>48 DEF PEnough, Purged, QFreed, TFreed, seats, sems, control, Freed
  <1>. QED
    BY <1>1, <1>2, <1>3, <1>4, <1>5, <1>6, <1>7, <1>8, <1>9, <1>10, <1>11, <1>12, <1>13,
       <1>14, <1>15, <1>16, <1>17, <1>18, <1>19, <1>20, <1>21, <1>22, <1>23, <1>24,
       <1>25, <1>26, <1>27, <1>28, <1>29, <1>30, <1>31, <1>32, <1>33, <1>34, <1>35,
       <1>36, <1>37, <1>38, <1>39, <1>40, <1>41, <1>42, <1>43, <1>44, <1>45, <1>46, <1>47, <1>48
    DEF Next, SLocal, PLocal, CLocal, OLocal, PCall, CCall, OCall, Main, Over

-----------------------------------------------------------------------------
(* The inductive invariant: SeatsAccounted and SeatsWithinTarget with the types
   they need.  Finiteness turns the set steps above into steps of a counter. *)

SeatInv == TypeOK /\ SeatsAccounted /\ SeatsWithinTarget

LEMMA FiniteAttempts == \A fates : IsFiniteSet(With(fates)) /\ Cardinality(With(fates)) \in Nat
  BY PipelineAssumption, FS_Subset, FS_CardinalityType DEF PipelineAssumption, With

LEMMA InitSeatInv == Init => SeatInv
  <1>. SUFFICES ASSUME Init PROVE SeatInv
    OBVIOUS
  <1>1. With(InFlight \cup {"counted", "leaked"}) = {} /\ With(Counted) = {}
    BY DEF Init, With, InFlight, Counted
  <1>2. SeatsAccounted
    BY <1>1, FS_EmptySet DEF Init, SeatsAccounted
  <1>3. SeatsWithinTarget
    BY <1>1, FS_EmptySet, PipelineAssumption DEF PipelineAssumption, Init, SeatsWithinTarget
  <1>. QED
    BY <1>2, <1>3, InitTypeOK DEF SeatInv

LEMMA StepSeatInv ==
  ASSUME SeatInv, [Next]_vars
  PROVE  SeatInv'
  <1>1. TypeOK /\ TypeOK'
    BY StepTypeOK DEF SeatInv
  <1>2. IsFiniteSet(Seated) /\ IsFiniteSet(Successes)
    BY FiniteAttempts DEF Seated, Successes
  <1>3. reserved \in Nat /\ done \in Nat /\ Target \in Nat
    BY <1>1, PipelineAssumption DEF PipelineAssumption, TypeOK, TypeCounters
  <1>4. reserved = Cardinality(Seated) /\ done = Cardinality(Successes)
    BY DEF SeatInv, SeatsAccounted, SeatsWithinTarget, Seated, Successes
  <1>5. reserved' = Cardinality(Seated')
    <2>1. CASE SeatsKept
      BY <2>1, <1>4 DEF SeatsKept
    <2>2. ASSUME NEW a \in Attempts, SeatTaken(a) PROVE reserved' = Cardinality(Seated')
      BY <2>2, <1>2, <1>4, FS_AddElement DEF SeatTaken
    <2>3. ASSUME NEW a \in Attempts, SeatReturned(a) PROVE reserved' = Cardinality(Seated')
      <3>1. Cardinality(Seated') = reserved - 1
        BY <2>3, <1>2, <1>4, FS_RemoveElement DEF SeatReturned
      <3>2. reserved # 0
        BY <2>3, <1>2, <1>4, FS_EmptySet DEF SeatReturned
      <3>. QED
        BY <3>1, <3>2, <2>3, <1>3 DEF SeatReturned, ReleaseReserve
    <2>. QED
      BY <2>1, <2>2, <2>3, <1>1, SeatStep
  <1>6. done' = Cardinality(Successes') /\ done' <= Target
    <2>1. CASE SuccessesKept
      BY <2>1, <1>4 DEF SuccessesKept, SeatInv, SeatsWithinTarget
    <2>2. ASSUME NEW a \in Attempts, SuccessCounted(a)
          PROVE  done' = Cardinality(Successes') /\ done' <= Target
      <3>1. Cardinality(Successes') = done'
        BY <2>2, <1>2, <1>4, FS_AddElement DEF SuccessCounted
      <3>2. done' <= Target
        BY <2>2, <1>3 DEF SuccessCounted
      <3>. QED
        BY <3>1, <3>2
    <2>. QED
      BY <2>1, <2>2, <1>1, SuccessStep
  <1>7. reserved' <= Target
    BY <1>1, ReservedStep DEF SeatInv, SeatsWithinTarget
  <1>8. SeatsAccounted'
    BY <1>5 DEF SeatsAccounted, Seated
  <1>9. SeatsWithinTarget'
    BY <1>6, <1>7 DEF SeatsWithinTarget, Successes
  <1>. QED
    BY <1>1, <1>8, <1>9 DEF SeatInv

LEMMA SeatInvariant == Spec => []SeatInv
  BY InitSeatInv, StepSeatInv, PTL DEF Spec

(* Every failure path of the four loops returns its seat once and only once; an
   expired mailbox and a cancelled interval are the only leaks. *)
THEOREM SeatsAreAccounted == Spec => []SeatsAccounted
  <1>1. SeatInv => SeatsAccounted
    BY DEF SeatInv
  <1>. QED
    BY <1>1, SeatInvariant, PTL

(* However many workers race, done never passes -t and reserved never does. *)
THEOREM TargetIsNeverExceeded == Spec => []SeatsWithinTarget
  <1>1. SeatInv => SeatsWithinTarget
    BY DEF SeatInv
  <1>. QED
    BY <1>1, SeatInvariant, PTL

-----------------------------------------------------------------------------
(* Jobs: a step leaves what the workers have in hand alone, or one worker of one
   pool takes an account, carries on with it, or passes it on. *)

Held == HeldByP \cup HeldByC \cup HeldByO
Untouched(a) == fate[a] \in Held \/ fate'[a] \in Held => fate'[a] = fate[a] /\ by'[a] = by[a]
SameBusy(st, others) == \A v \in others : st'[v] = "busy" <=> st[v] = "busy"

Takes(st, Pool, held, w, a) ==
  /\ fate[a] \notin Held /\ fate'[a] \in held /\ by'[a] = w
  /\ st[w] # "busy" /\ st'[w] = "busy" /\ SameBusy(st, Pool \ {w})
Works(st, Pool, held, w, a) ==
  /\ {fate[a], fate'[a]} \subseteq held /\ by[a] = w /\ by'[a] = w
  /\ SameBusy(st, Pool)
Passes(st, Pool, held, w, a) ==
  /\ fate[a] \in held /\ by[a] = w /\ fate'[a] \notin Held
  /\ st'[w] # "busy" /\ SameBusy(st, Pool \ {w})
JobMoves(st, Pool, held, w, a) ==
  /\ \A b \in Attempts \ {a} : Untouched(b)
  /\ Takes(st, Pool, held, w, a) \/ Works(st, Pool, held, w, a) \/ Passes(st, Pool, held, w, a)

JobsKept ==
  /\ \A a \in Attempts : Untouched(a)
  /\ SameBusy(pw, PPool) /\ SameBusy(cw, CPool) /\ SameBusy(ow, OPool)
PMoves(w, a) == JobMoves(pw, PPool, HeldByP, w, a) /\ UNCHANGED <<cw, ow>>
CMoves(w, a) == JobMoves(cw, CPool, HeldByC, w, a) /\ UNCHANGED <<pw, ow>>
OMoves(w, a) == JobMoves(ow, OPool, HeldByO, w, a) /\ UNCHANGED <<pw, cw>>

LEMMA JobStep ==
  ASSUME TypeOK, [Next]_vars
  PROVE  \/ JobsKept
         \/ \E w \in PPool, a \in Attempts : PMoves(w, a)
         \/ \E w \in CPool, a \in Attempts : CMoves(w, a)
         \/ \E w \in OPool, a \in Attempts : OMoves(w, a)
  <1> USE DEF JobMoves, Takes, Works, Passes, SameBusy, Untouched, Held, HeldByP, HeldByC, HeldByO, Move, Holds
  <1>0. TypeFates /\ TypeWorkers
    BY DEF TypeOK
  <1>1. ASSUME NEW w \in SPool, SLocal(w) \/ SSolve(w) PROVE JobsKept
    BY <1>0, <1>1 DEF JobsKept, SLocal, SStop, SGate, SEnough, SStart, SPutT, SPutTCancelled, SSolve, Purged, TypeFates
  <1>2. ASSUME NEW w \in PPool, PStop(w) \/ PGate(w) \/ PEnough(w) \/ PStart(w) \/ PReload(w) PROVE JobsKept
    BY <1>0, <1>2 DEF JobsKept, PStop, PGate, PEnough, PStart, PReload, Purged, TypeFates, TypeWorkers
  <1>3. ASSUME NEW w \in PPool, PReserve(w) PROVE JobsKept \/ \E a \in Attempts : PMoves(w, a)
    BY <1>0, <1>3 DEF JobsKept, PMoves, PReserve, TypeFates, TypeWorkers, With
  <1>4. ASSUME NEW w \in PPool, NEW a \in Attempts,
               PAcquire(w, a) \/ PMail(w, a)
        PROVE  PMoves(w, a)
    BY <1>0, <1>4 DEF PMoves, PAcquire, PMail, TypeFates, TypeWorkers, pools
  <1>5. ASSUME NEW w \in PPool, NEW a \in Attempts,
               PAcquireCancelled(w, a) \/ PMailFail(w, a) \/ PPutQ(w, a) \/ PPutQCancelled(w, a)
        PROVE  PMoves(w, a)
    BY <1>0, <1>5 DEF PMoves, PAcquireCancelled, PMailFail, PPutQ, PPutQCancelled, Purged, TypeFates, TypeWorkers
  <1>6. ASSUME NEW w \in CPool, CStop(w) \/ CWait(w) PROVE JobsKept
    BY <1>0, <1>6 DEF JobsKept, CStop, CWait, Purged, TypeFates, TypeWorkers
  <1>7. ASSUME NEW w \in CPool, NEW a \in Attempts, CClaim(w, a) PROVE CMoves(w, a)
    BY <1>0, <1>7 DEF CMoves, CClaim, Purged, TypeFates, TypeWorkers
  <1>8. ASSUME NEW w \in CPool, NEW a \in Attempts,
               CRefused(w, a) \/ CSignup(w, a) \/ CSend(w, a) \/ CSendCancelled(w, a)
        PROVE  CMoves(w, a)
    BY <1>0, <1>8 DEF CMoves, CRefused, CSignup, CSend, CSendCancelled, TypeFates, TypeWorkers, pools
  <1>9. ASSUME NEW w \in CPool, NEW a \in Attempts, CSendClosed(w, a) PROVE JobsKept
    BY <1>9 DEF JobsKept, CSendClosed, pools
  <1>10. ASSUME NEW w \in OPool, OExit(w) PROVE JobsKept
    BY <1>0, <1>10 DEF JobsKept, OExit, TypeWorkers
  <1>11. ASSUME NEW w \in OPool, NEW a \in Attempts, OTakeSurplus(w, a) PROVE JobsKept
    BY <1>0, <1>11 DEF JobsKept, OTakeSurplus, pools, TypeFates
  <1>12. ASSUME NEW w \in OPool, NEW a \in Attempts, OTake(w, a) PROVE OMoves(w, a)
    BY <1>0, <1>12 DEF OMoves, OTake, TypeFates, TypeWorkers
  <1>13. ASSUME NEW w \in OPool, NEW a \in Attempts,
                ODelay(w, a) \/ OAuthOk(w, a) \/ OComplete(w, a) \/ OSettle(w, a)
         PROVE  OMoves(w, a)
    <2>1. CASE ODelay(w, a)
      BY <1>0, <2>1 DEF OMoves, ODelay, TypeFates, TypeWorkers, pools
    <2>2. CASE OAuthOk(w, a)
      BY <1>0, <2>2 DEF OMoves, OAuthOk, TypeFates, TypeWorkers, pools
    <2>3. CASE OComplete(w, a)
      BY <1>0, <2>3 DEF OMoves, OComplete, TypeFates, TypeWorkers, pools
    <2>4. CASE OSettle(w, a)
      BY <1>0, <2>4 DEF OMoves, OSettle, TypeFates, TypeWorkers, pools
    <2> QED
      BY <1>13, <2>1, <2>2, <2>3, <2>4
  <1>14. ASSUME NEW w \in OPool, NEW a \in Attempts,
                \/ ODelayCancelled(w, a) \/ OAuthFail(w, a) \/ OProbeFail(w, a)
                \/ OSurplus(w, a) \/ OWriteFail(w, a) \/ OExport(w, a)
         PROVE  OMoves(w, a)
    <2>1. CASE ODelayCancelled(w, a)
      BY <1>0, <2>1 DEF OMoves, ODelayCancelled, Purged, TypeFates, TypeWorkers
    <2>2. CASE OAuthFail(w, a)
      BY <1>0, <2>2 DEF OMoves, OAuthFail, Purged, TypeFates, TypeWorkers
    <2>3. CASE OProbeFail(w, a)
      BY <1>0, <2>3 DEF OMoves, OProbeFail, Purged, TypeFates, TypeWorkers
    <2>4. CASE OSurplus(w, a)
      BY <1>0, <2>4 DEF OMoves, OSurplus, Purged, TypeFates, TypeWorkers
    <2>5. CASE OWriteFail(w, a)
      BY <1>0, <2>5 DEF OMoves, OWriteFail, Purged, TypeFates, TypeWorkers
    <2>6. CASE OExport(w, a)
      BY <1>0, <2>6 DEF OMoves, OExport, Purged, TypeFates, TypeWorkers
    <2> QED
      BY <1>14, <2>1, <2>2, <2>3, <2>4, <2>5, <2>6
  <1>15. ASSUME ExpireT \/ (\E a \in Attempts : ExpireQ(a)) \/ Purge \/ Stop \/ Main \/ UNCHANGED vars
         PROVE  JobsKept
    BY <1>0, <1>15 DEF JobsKept, ExpireT, ExpireQ, Purge, Purged, Stop, Main, MainLeaveLoop,
                       MainCloseChannel, MainFinish, MainClose, pools, vars, TypeFates
  <1> QED
    BY <1>1, <1>2, <1>3, <1>4, <1>5, <1>6, <1>7, <1>8, <1>9, <1>10, <1>11, <1>12, <1>13, <1>14, <1>15
    DEF Next, PLocal, CLocal, OLocal, PCall, CCall, OCall, Over

(* A worker of one pool is busy exactly while it holds an account, and then one. *)
JobOf(st, Pool, held) ==
  \A w \in Pool :
    /\ st[w] = "busy" <=> \E a \in Attempts : fate[a] \in held /\ by[a] = w
    /\ \A a, b \in Attempts :
         fate[a] \in held /\ by[a] = w /\ fate[b] \in held /\ by[b] = w => a = b
PJob == JobOf(pw, PPool, HeldByP)
CJob == JobOf(cw, CPool, HeldByC)
OJob == JobOf(ow, OPool, HeldByO)
JobInv == PJob /\ CJob /\ OJob

LEMMA JobInit == Init => JobInv
  BY DEF Init, JobInv, PJob, CJob, OJob, JobOf, HeldByP, HeldByC, HeldByO

LEMMA JobNext ==
  ASSUME TypeOK, JobInv, [Next]_vars
  PROVE  JobInv'
  <1> USE DEF JobInv, PJob, CJob, OJob, JobOf
  <1>0. /\ HeldByP \subseteq Held /\ HeldByC \subseteq Held /\ HeldByO \subseteq Held
        /\ HeldByP \cap HeldByC = {} /\ HeldByP \cap HeldByO = {} /\ HeldByC \cap HeldByO = {}
    BY DEF Held, HeldByP, HeldByC, HeldByO
  <1>1. CASE JobsKept
    <2>1. PJob'
      BY <1>0, <1>1 DEF JobsKept, Untouched, SameBusy
    <2>2. CJob'
      BY <1>0, <1>1 DEF JobsKept, Untouched, SameBusy
    <2>3. OJob'
      BY <1>0, <1>1 DEF JobsKept, Untouched, SameBusy
    <2> QED
      BY <2>1, <2>2, <2>3
  <1>2. ASSUME NEW w \in PPool, NEW a \in Attempts, PMoves(w, a) PROVE JobInv'
    <2>0. \A b \in Attempts \ {a} : Untouched(b)
      BY <1>2 DEF PMoves, JobMoves
    <2>1. PJob'
      <3>1. CASE Takes(pw, PPool, HeldByP, w, a)
        BY <1>0, <2>0, <3>1 DEF Takes, Untouched, SameBusy
      <3>2. CASE Works(pw, PPool, HeldByP, w, a)
        BY <1>0, <2>0, <3>2 DEF Works, Untouched, SameBusy
      <3>3. CASE Passes(pw, PPool, HeldByP, w, a)
        BY <1>0, <2>0, <3>3 DEF Passes, Untouched, SameBusy
      <3> QED
        BY <1>2, <3>1, <3>2, <3>3 DEF PMoves, JobMoves
    <2>2. fate[a] \notin HeldByC \cup HeldByO /\ fate'[a] \notin HeldByC \cup HeldByO
      BY <1>0, <1>2 DEF PMoves, JobMoves, Takes, Works, Passes
    <2>3. CJob' /\ OJob'
      BY <1>0, <1>2, <2>0, <2>2 DEF PMoves, Untouched
    <2> QED
      BY <2>1, <2>3
  <1>3. ASSUME NEW w \in CPool, NEW a \in Attempts, CMoves(w, a) PROVE JobInv'
    <2>0. \A b \in Attempts \ {a} : Untouched(b)
      BY <1>3 DEF CMoves, JobMoves
    <2>1. CJob'
      <3>1. CASE Takes(cw, CPool, HeldByC, w, a)
        BY <1>0, <2>0, <3>1 DEF Takes, Untouched, SameBusy
      <3>2. CASE Works(cw, CPool, HeldByC, w, a)
        BY <1>0, <2>0, <3>2 DEF Works, Untouched, SameBusy
      <3>3. CASE Passes(cw, CPool, HeldByC, w, a)
        BY <1>0, <2>0, <3>3 DEF Passes, Untouched, SameBusy
      <3> QED
        BY <1>3, <3>1, <3>2, <3>3 DEF CMoves, JobMoves
    <2>2. fate[a] \notin HeldByP \cup HeldByO /\ fate'[a] \notin HeldByP \cup HeldByO
      BY <1>0, <1>3 DEF CMoves, JobMoves, Takes, Works, Passes
    <2>3. PJob' /\ OJob'
      BY <1>0, <1>3, <2>0, <2>2 DEF CMoves, Untouched
    <2> QED
      BY <2>1, <2>3
  <1>4. ASSUME NEW w \in OPool, NEW a \in Attempts, OMoves(w, a) PROVE JobInv'
    <2>0. \A b \in Attempts \ {a} : Untouched(b)
      BY <1>4 DEF OMoves, JobMoves
    <2>1. OJob'
      <3>1. CASE Takes(ow, OPool, HeldByO, w, a)
        BY <1>0, <2>0, <3>1 DEF Takes, Untouched, SameBusy
      <3>2. CASE Works(ow, OPool, HeldByO, w, a)
        BY <1>0, <2>0, <3>2 DEF Works, Untouched, SameBusy
      <3>3. CASE Passes(ow, OPool, HeldByO, w, a)
        BY <1>0, <2>0, <3>3 DEF Passes, Untouched, SameBusy
      <3> QED
        BY <1>4, <3>1, <3>2, <3>3 DEF OMoves, JobMoves
    <2>2. fate[a] \notin HeldByP \cup HeldByC /\ fate'[a] \notin HeldByP \cup HeldByC
      BY <1>0, <1>4 DEF OMoves, JobMoves, Takes, Works, Passes
    <2>3. PJob' /\ CJob'
      BY <1>0, <1>4, <2>0, <2>2 DEF OMoves, Untouched
    <2> QED
      BY <2>1, <2>3
  <1> QED
    BY <1>1, <1>2, <1>3, <1>4, JobStep

LEMMA OneInHand ==
  ASSUME NEW Pool, NEW st, NEW held, JobOf(st, Pool, held), NEW w \in Pool
  PROVE  Cardinality({a \in With(held) : by[a] = w}) = IF st[w] = "busy" THEN 1 ELSE 0
  <1> DEFINE H == {a \in With(held) : by[a] = w}
  <1>0. H = {a \in Attempts : fate[a] \in held /\ by[a] = w}
    BY DEF With
  <1>1. CASE st[w] = "busy"
    <2>1. PICK a \in H : H = {a}
      BY <1>0, <1>1 DEF JobOf
    <2>2. Cardinality({a}) = 1
      BY FS_Singleton
    <2> QED
      BY <1>1, <2>1, <2>2
  <1>2. CASE st[w] # "busy"
    <2>1. H = {}
      BY <1>0, <1>2 DEF JobOf
    <2> QED
      BY <1>2, <2>1, FS_EmptySet
  <1> QED
    BY <1>1, <1>2

LEMMA JobTells == JobInv => OneJobPerWorker
  <1> SUFFICES ASSUME JobInv PROVE OneJobPerWorker
    OBVIOUS
  <1>1. ASSUME NEW w \in PPool
        PROVE Cardinality({a \in With(HeldByP) : by[a] = w}) = IF pw[w] = "busy" THEN 1 ELSE 0
    BY OneInHand DEF JobInv, PJob
  <1>2. ASSUME NEW w \in CPool
        PROVE Cardinality({a \in With(HeldByC) : by[a] = w}) = IF cw[w] = "busy" THEN 1 ELSE 0
    BY OneInHand DEF JobInv, CJob
  <1>3. ASSUME NEW w \in OPool
        PROVE Cardinality({a \in With(HeldByO) : by[a] = w}) = IF ow[w] = "busy" THEN 1 ELSE 0
    BY OneInHand DEF JobInv, OJob
  <1> QED
    BY <1>1, <1>2, <1>3 DEF OneJobPerWorker

-----------------------------------------------------------------------------
(* A C worker that has left does not come back. *)
LEMMA CWorkerStaysGone ==
  ASSUME TypeOK, JobInv, [Next]_vars, NEW v \in CPool, cw[v] = "exit"
  PROVE  cw'[v] = "exit"
  <1>0. TypeWorkers
    BY DEF TypeOK
  <1>1. ASSUME NEW w \in CPool, NEW a \in Attempts, fate[a] \in HeldByC, by[a] = w PROVE w # v
    BY <1>1 DEF JobInv, CJob, JobOf
  <1>2. ASSUME NEW w \in CPool, CLocal(w) \/ CCall(w) PROVE cw'[v] = "exit"
    <2>1. CASE CStop(w) \/ CWait(w)
      BY <1>0, <2>1 DEF CStop, CWait, TypeWorkers
    <2>2. ASSUME NEW a \in Attempts, CClaim(w, a) PROVE cw'[v] = "exit"
      BY <1>0, <2>2 DEF CClaim, TypeWorkers
    <2>3. ASSUME NEW a \in Attempts,
                 CSend(w, a) \/ CSendCancelled(w, a) \/ CSendClosed(w, a) \/ CSignup(w, a) \/ CRefused(w, a)
          PROVE  cw'[v] = "exit"
      BY <1>0, <1>1, <2>3 DEF CSend, CSendCancelled, CSendClosed, CSignup, CRefused, Holds, HeldByC,
                              TypeWorkers, pools
    <2> QED
      BY <1>2, <2>1, <2>2, <2>3 DEF CLocal, CCall
  <1>3. ASSUME NEW w \in SPool, SLocal(w) \/ SSolve(w) PROVE UNCHANGED cw
    BY <1>3 DEF SLocal, SStop, SGate, SEnough, SStart, SPutT, SPutTCancelled, SSolve
  <1>4. ASSUME NEW w \in PPool, PLocal(w) \/ PCall(w) PROVE UNCHANGED cw
    BY <1>4 DEF PLocal, PCall, PStop, PGate, PEnough, PStart, PReload, PReserve, PAcquire, PMail,
                PAcquireCancelled, PMailFail, PPutQ, PPutQCancelled, pools
  <1>5. ASSUME NEW w \in OPool, OLocal(w) \/ OCall(w) PROVE UNCHANGED cw
    BY <1>5 DEF OLocal, OCall, OExit, OTakeSurplus, OTake, ODelay, ODelayCancelled, OSettle, OWriteFail,
                OExport, OAuthFail, OAuthOk, OProbeFail, OComplete, OSurplus, pools
  <1>6. ASSUME ExpireT \/ (\E a \in Attempts : ExpireQ(a)) \/ Purge \/ Stop \/ Main \/ Over \/ UNCHANGED vars
        PROVE  UNCHANGED cw
    BY <1>6 DEF ExpireT, ExpireQ, Purge, Stop, Main, MainLeaveLoop, MainCloseChannel, MainFinish, MainClose, Over,
                pools, vars
  <1> QED
    BY <1>2, <1>3, <1>4, <1>5, <1>6 DEF Next

(* Nobody can send on the closed channel unless run closed it by force. *)
ClosedInOrder == closed /\ ~forced => \A w \in CPool : cw[w] = "exit"
CrashInv == ClosedInOrder /\ CrashOnlyAfterTimeout

LEMMA CrashNext ==
  ASSUME TypeOK, JobInv, CrashInv, [Next]_vars
  PROVE  CrashInv'
  <1> USE DEF CrashInv, ClosedInOrder, CrashOnlyAfterTimeout
  <1>1. ASSUME UNCHANGED <<closed, forced, crashed>> PROVE CrashInv'
    BY <1>1, CWorkerStaysGone
  <1>2. CASE MainCloseChannel
    BY <1>2 DEF MainCloseChannel, Alive, RegistersGone, pools
  <1>3. ASSUME NEW w \in CPool, NEW a \in Attempts, CSendClosed(w, a) PROVE CrashInv'
    <2>1. cw[w] = "busy"
      BY <1>3 DEF CSendClosed, Holds, HeldByC, JobInv, CJob, JobOf
    <2> QED
      BY <1>3, <2>1 DEF CSendClosed, pools
  <1>4. ASSUME NEW w \in SPool, SLocal(w) \/ SSolve(w) PROVE UNCHANGED <<closed, forced, crashed>>
    BY <1>4 DEF SLocal, SStop, SGate, SEnough, SStart, SPutT, SPutTCancelled, SSolve, control
  <1>5. ASSUME NEW w \in PPool, PLocal(w) \/ PCall(w) PROVE UNCHANGED <<closed, forced, crashed>>
    BY <1>5 DEF PLocal, PCall, PStop, PGate, PEnough, PStart, PReload, PReserve, PAcquire, PMail,
                PAcquireCancelled, PMailFail, PPutQ, PPutQCancelled, control
  <1>6. ASSUME NEW w \in CPool, CLocal(w) \/ CCall(w), ~\E a \in Attempts : CSendClosed(w, a)
        PROVE  UNCHANGED <<closed, forced, crashed>>
    BY <1>6 DEF CLocal, CCall, CStop, CWait, CClaim, CSend, CSendCancelled, CSignup, CRefused, control
  <1>7. ASSUME NEW w \in OPool, OLocal(w) \/ OCall(w) PROVE UNCHANGED <<closed, forced, crashed>>
    BY <1>7 DEF OLocal, OCall, OExit, OTakeSurplus, OTake, ODelay, ODelayCancelled, OSettle, OWriteFail,
                OExport, OAuthFail, OAuthOk, OProbeFail, OComplete, OSurplus, control
  <1>8. ASSUME \/ ExpireT \/ (\E a \in Attempts : ExpireQ(a)) \/ Purge \/ Stop
               \/ MainLeaveLoop \/ MainFinish \/ MainClose \/ Over \/ UNCHANGED vars
        PROVE  UNCHANGED <<closed, forced, crashed>>
    BY <1>8 DEF ExpireT, ExpireQ, Purge, Stop, MainLeaveLoop, MainFinish, MainClose, Over, control, vars
  <1> QED
    BY <1>1, <1>2, <1>3, <1>4, <1>5, <1>6, <1>7, <1>8 DEF Next, Main

-----------------------------------------------------------------------------
(* Slots.  A slot is free, or held by a token, by an account of one of five fates
   or by a worker that solves; the accounts are counted fate by fate. *)

N(f) == Cardinality(With({f}))
Stays(f) == With({f})' = With({f})
Enters(f, a) == a \notin With({f}) /\ With({f})' = With({f}) \cup {a}
Leaves(f, a) == a \in With({f}) /\ With({f})' = With({f}) \ {a}
Emptied(f) == With({f})' = {}

LEMMA Counting ==
  ASSUME NEW f
  PROVE  /\ N(f) \in Nat /\ N(f)' \in Nat
         /\ Stays(f) => N(f)' = N(f)
         /\ Emptied(f) => N(f)' = 0
         /\ \A a : Enters(f, a) => N(f)' = N(f) + 1
         /\ \A a : Leaves(f, a) => N(f)' = N(f) - 1
  <1>1. IsFiniteSet(With({f})) /\ N(f) \in Nat
    BY FiniteAttempts DEF N
  <1>2. N(f)' \in Nat
    BY PipelineAssumption, FS_Subset, FS_CardinalityType DEF PipelineAssumption, With, N
  <1>3. Stays(f) => N(f)' = N(f)
    BY DEF Stays, N
  <1>4. Emptied(f) => N(f)' = 0
    BY FS_EmptySet DEF Emptied, N
  <1>5. ASSUME NEW a, Enters(f, a) PROVE N(f)' = N(f) + 1
    BY <1>1, <1>5, FS_AddElement DEF Enters, N
  <1>6. ASSUME NEW a, Leaves(f, a) PROVE N(f)' = N(f) - 1
    BY <1>1, <1>6, FS_RemoveElement DEF Leaves, N
  <1> QED
    BY <1>1, <1>2, <1>3, <1>4, <1>5, <1>6

TokenSlots == tSlots + tFresh + tStale + N("signup") = Width
MailSlots == qSlots + N("queued") + N("stale") + N("signup") = Width
CodeSlots == qPending + N("email") + N("mailed") = Width
AccountSlots == TokenSlots /\ MailSlots /\ CodeSlots

Watched == {"queued", "stale", "signup", "email", "mailed"}
NoneMoves == \A f \in Watched : Stays(f)
Purges == Emptied("stale") /\ \A f \in Watched \ {"stale"} : Stays(f)

LEMMA AccountSlotsNext ==
  ASSUME TypeOK, TypeOK', AccountSlots, [Next]_vars
  PROVE  AccountSlots'
  <1> USE PipelineAssumption DEF PipelineAssumption, TypeOK, TypeCounters, TypeFates
  <1>0. \A f \in Watched : N(f) \in Nat /\ N(f)' \in Nat
    BY Counting
  <1>1. ASSUME NoneMoves, UNCHANGED <<tokens, slots, qPending>> PROVE AccountSlots'
    BY <1>1, Counting DEF NoneMoves, Watched, tokens, slots, AccountSlots, TokenSlots, MailSlots, CodeSlots
  <1>2. ASSUME Purges, UNCHANGED <<tFresh, qPending>>, tStale' = 0,
               tSlots' = TFreed(tSlots), qSlots' = QFreed(qSlots)
        PROVE  AccountSlots'
    <2>1. /\ N("stale")' = 0 /\ N("queued")' = N("queued") /\ N("signup")' = N("signup")
          /\ N("email")' = N("email") /\ N("mailed")' = N("mailed")
      BY <1>2, Counting DEF Purges, Watched
    <2> QED
      BY <1>0, <1>2, <2>1 DEF TFreed, QFreed, Freed, Watched, AccountSlots, TokenSlots, MailSlots, CodeSlots, N
  (* Steps that leave the five fates and their slots alone. *)
  <1>3. ASSUME NEW w \in SPool, SStop(w) \/ SGate(w) \/ SSolve(w) \/ SPutTCancelled(w) PROVE AccountSlots'
    BY <1>1, <1>3 DEF SStop, SGate, SSolve, SPutTCancelled, NoneMoves, Stays, With, sems
  <1>4. ASSUME NEW w \in PPool, PStop(w) \/ PGate(w) \/ PReload(w) PROVE AccountSlots'
    BY <1>1, <1>4 DEF PStop, PGate, PReload, NoneMoves, Stays, With, sems
  <1>5. ASSUME NEW w \in PPool, PReserve(w) PROVE AccountSlots'
    <2>1. NoneMoves
      BY <1>5 DEF PReserve, Move, NoneMoves, Stays, With, Watched
    <2> QED
      BY <1>1, <1>5, <2>1 DEF PReserve, sems
  <1>6. ASSUME NEW w \in PPool, NEW a \in Attempts, PAcquireCancelled(w, a) PROVE AccountSlots'
    <2>1. NoneMoves
      BY <1>6 DEF PAcquireCancelled, Holds, Move, NoneMoves, Stays, With, Watched
    <2> QED
      BY <1>1, <1>6, <2>1 DEF PAcquireCancelled, sems
  <1>7. ASSUME NEW w \in CPool, CStop(w) PROVE AccountSlots'
    BY <1>1, <1>7 DEF CStop, NoneMoves, Stays, With, sems
  <1>8. ASSUME NEW w \in CPool, NEW a \in Attempts, CSend(w, a) \/ CSendCancelled(w, a) \/ CSendClosed(w, a)
        PROVE  AccountSlots'
    <2>1. NoneMoves
      BY <1>8 DEF CSend, CSendCancelled, CSendClosed, Holds, Move, NoneMoves, Stays, With, Watched
    <2> QED
      BY <1>1, <1>8, <2>1 DEF CSend, CSendCancelled, CSendClosed, sems
  <1>9. ASSUME NEW w \in OPool, NEW a \in Attempts,
               \/ OTakeSurplus(w, a) \/ OTake(w, a) \/ ODelay(w, a) \/ ODelayCancelled(w, a)
               \/ OAuthFail(w, a) \/ OAuthOk(w, a) \/ OProbeFail(w, a) \/ OComplete(w, a)
               \/ OSettle(w, a) \/ OSurplus(w, a) \/ OWriteFail(w, a)
        PROVE  AccountSlots'
    <2>1. PICK f \in {"handoff", "delay", "oauth", "probe", "counted", "export"},
                    g \in Fate \ Watched, v \in OPool \cup {NoWorker} :
            fate[a] = f /\ Move(a, g, v)
      BY <1>9 DEF OTakeSurplus, OTake, ODelay, ODelayCancelled, OAuthFail, OAuthOk, OProbeFail, OComplete,
                  OSettle, OSurplus, OWriteFail, Holds, Fate, HeldByP, HeldByC, HeldByO, InQueue, Ended, Watched
    <2>2. NoneMoves
      BY <2>1 DEF Move, NoneMoves, Stays, With, Watched
    <2>3. UNCHANGED <<tokens, slots, qPending>>
      BY <1>9 DEF OTakeSurplus, OTake, ODelay, ODelayCancelled, OAuthFail, OAuthOk, OProbeFail, OComplete,
                  OSettle, OSurplus, OWriteFail, sems
    <2> QED
      BY <1>1, <2>2, <2>3
  <1>10. ASSUME (\E w \in OPool : OExit(w)) \/ Stop \/ Main \/ UNCHANGED vars PROVE AccountSlots'
    BY <1>1, <1>10 DEF OExit, Stop, Main, MainLeaveLoop, MainCloseChannel, MainFinish, MainClose, vars,
                       NoneMoves, Stays, With, sems

  (* Steps that purge and move nothing else. *)
  <1>11. Purged = [a \in Attempts |-> IF fate[a] = "stale" THEN "leaked" ELSE fate[a]]
    BY DEF Purged
  <1>12. ASSUME fate' = Purged PROVE Purges
    BY <1>12 DEF Purged, Purges, Emptied, Stays, With, Watched
  <1>13. ASSUME NEW w \in SPool, SEnough(w) \/ SStart(w) PROVE AccountSlots'
    BY <1>2, <1>12, <1>13 DEF SEnough, SStart, sems
  <1>14. ASSUME NEW w \in PPool, PEnough(w) \/ PStart(w) PROVE AccountSlots'
    BY <1>2, <1>12, <1>14 DEF PEnough, PStart, sems
  <1>15. ASSUME (\E w \in CPool : CWait(w)) \/ Purge PROVE AccountSlots'
    BY <1>2, <1>12, <1>15 DEF CWait, Purge, sems
  <1>16. ASSUME NEW w \in OPool, NEW a \in Attempts, OExport(w, a) PROVE AccountSlots'
    <2>1. Purges
      BY <1>16 DEF OExport, Holds, Purged, Purges, Emptied, Stays, With, Watched
    <2> QED
      BY <1>2, <1>16, <2>1 DEF OExport, sems

  (* Steps that take or give back a slot. *)
  <1> USE DEF AccountSlots, TokenSlots, MailSlots, CodeSlots, Watched
  <1>17. ASSUME NEW w \in SPool, SPutT(w) PROVE AccountSlots'
    <2>1. Purges
      BY <1>12, <1>17 DEF SPutT
    <2>2. /\ N("stale")' = 0 /\ N("queued")' = N("queued") /\ N("signup")' = N("signup")
          /\ N("email")' = N("email") /\ N("mailed")' = N("mailed")
      BY <2>1, Counting DEF Purges
    <2>3. TokenSlots'
      BY <1>0, <1>17, <2>2 DEF SPutT, TFreed, Freed
    <2>4. MailSlots' /\ CodeSlots'
      BY <1>0, <1>17, <2>2 DEF SPutT, QFreed, Freed, sems, N
    <2> QED
      BY <2>3, <2>4
  <1>18. ASSUME NEW w \in PPool, NEW a \in Attempts, PAcquire(w, a) PROVE AccountSlots'
    <2>1. Enters("email", a) /\ \A f \in Watched \ {"email"} : Stays(f)
      BY <1>18 DEF PAcquire, Holds, Move, Enters, Stays, With
    <2>2. N("email")' = N("email") + 1 /\ \A f \in Watched \ {"email"} : N(f)' = N(f)
      BY <2>1, Counting
    <2> QED
      BY <1>0, <1>18, <2>2 DEF PAcquire, tokens, slots
  <1>19. ASSUME NEW w \in PPool, NEW a \in Attempts, PMailFail(w, a) PROVE AccountSlots'
    <2>1. Leaves("email", a) /\ \A f \in Watched \ {"email"} : Stays(f)
      BY <1>19 DEF PMailFail, Holds, Move, Leaves, Stays, With
    <2>2. N("email")' = N("email") - 1 /\ \A f \in Watched \ {"email"} : N(f)' = N(f)
      BY <2>1, Counting
    <2> QED
      BY <1>0, <1>19, <2>2 DEF PMailFail, Freed, tokens, slots
  <1>20. ASSUME NEW w \in PPool, NEW a \in Attempts, PMail(w, a) PROVE AccountSlots'
    <2>1. Leaves("email", a) /\ Enters("mailed", a) /\ \A f \in Watched \ {"email", "mailed"} : Stays(f)
      BY <1>20 DEF PMail, Holds, Move, Leaves, Enters, Stays, With
    <2>2. /\ N("email")' = N("email") - 1 /\ N("mailed")' = N("mailed") + 1
          /\ \A f \in Watched \ {"email", "mailed"} : N(f)' = N(f)
      BY <2>1, Counting
    <2> QED
      BY <1>0, <1>20, <2>2 DEF PMail, tokens, slots, sems
  <1>21. ASSUME NEW w \in PPool, NEW a \in Attempts, PPutQ(w, a) PROVE AccountSlots'
    <2>1. /\ Leaves("mailed", a) /\ Enters("queued", a) /\ Emptied("stale")
          /\ Stays("signup") /\ Stays("email")
      BY <1>21 DEF PPutQ, Holds, Purged, Leaves, Enters, Emptied, Stays, With
    <2>2. /\ N("mailed")' = N("mailed") - 1 /\ N("queued")' = N("queued") + 1 /\ N("stale")' = 0
          /\ N("signup")' = N("signup") /\ N("email")' = N("email")
      BY <2>1, Counting
    <2> QED
      BY <1>0, <1>21, <2>2 DEF PPutQ, TFreed, QFreed, Freed, N
  <1>22. ASSUME NEW w \in PPool, NEW a \in Attempts, PPutQCancelled(w, a) PROVE AccountSlots'
    <2>1. Leaves("mailed", a) /\ \A f \in Watched \ {"mailed"} : Stays(f)
      BY <1>22 DEF PPutQCancelled, Holds, Move, Leaves, Stays, With
    <2>2. N("mailed")' = N("mailed") - 1 /\ \A f \in Watched \ {"mailed"} : N(f)' = N(f)
      BY <2>1, Counting
    <2> QED
      BY <1>0, <1>22, <2>2 DEF PPutQCancelled, Freed, tokens, slots
  <1>23. ASSUME NEW w \in CPool, NEW a \in Attempts, CClaim(w, a) PROVE AccountSlots'
    <2>1. /\ Leaves("queued", a) /\ Enters("signup", a) /\ Emptied("stale")
          /\ Stays("email") /\ Stays("mailed")
      BY <1>23 DEF CClaim, Purged, Leaves, Enters, Emptied, Stays, With
    <2>2. /\ N("queued")' = N("queued") - 1 /\ N("signup")' = N("signup") + 1 /\ N("stale")' = 0
          /\ N("email")' = N("email") /\ N("mailed")' = N("mailed")
      BY <2>1, Counting
    <2>3. /\ tFresh' = tFresh - 1 /\ tStale' = 0 /\ qPending' = qPending
          /\ tSlots' = Freed(tSlots, tStale) /\ qSlots' = Freed(qSlots, N("stale"))
      BY <1>23 DEF CClaim, TFreed, QFreed, sems, N
    <2>4. TokenSlots'
      BY <1>0, <2>2, <2>3 DEF Freed
    <2>5. MailSlots'
      BY <1>0, <2>2, <2>3 DEF Freed
    <2> QED
      BY <2>2, <2>3, <2>4, <2>5
  <1>24. ASSUME NEW w \in CPool, NEW a \in Attempts, CRefused(w, a) \/ CSignup(w, a) PROVE AccountSlots'
    <2>1. Leaves("signup", a) /\ \A f \in Watched \ {"signup"} : Stays(f)
      BY <1>24 DEF CRefused, CSignup, Holds, Move, Leaves, Stays, With
    <2>2. N("signup")' = N("signup") - 1 /\ \A f \in Watched \ {"signup"} : N(f)' = N(f)
      BY <2>1, Counting
    <2> QED
      BY <1>0, <1>24, <2>2 DEF CRefused, CSignup, Freed, tokens, sems
  <1>25. CASE ExpireT
    <2>1. NoneMoves
      BY <1>25 DEF ExpireT, NoneMoves, Stays, With
    <2>2. \A f \in Watched : N(f)' = N(f)
      BY <2>1, Counting DEF NoneMoves
    <2> QED
      BY <1>0, <1>25, <2>2 DEF ExpireT, slots, sems
  <1>26. ASSUME NEW a \in Attempts, ExpireQ(a) PROVE AccountSlots'
    <2>1. Leaves("queued", a) /\ Enters("stale", a) /\ \A f \in Watched \ {"queued", "stale"} : Stays(f)
      BY <1>26 DEF ExpireQ, Leaves, Enters, Stays, With
    <2>2. /\ N("queued")' = N("queued") - 1 /\ N("stale")' = N("stale") + 1
          /\ \A f \in Watched \ {"queued", "stale"} : N(f)' = N(f)
      BY <2>1, Counting
    <2> QED
      BY <1>0, <1>26, <2>2 DEF ExpireQ, tokens, slots, sems
  <1>27. ASSUME NEW w \in SPool, SLocal(w) \/ SSolve(w) PROVE AccountSlots'
    BY <1>3, <1>13, <1>17, <1>27 DEF SLocal
  <1>28. ASSUME NEW w \in PPool, PLocal(w) \/ PCall(w) PROVE AccountSlots'
    BY <1>4, <1>5, <1>6, <1>14, <1>18, <1>19, <1>20, <1>21, <1>22, <1>28 DEF PLocal, PCall
  <1>29. ASSUME NEW w \in CPool, CLocal(w) \/ CCall(w) PROVE AccountSlots'
    BY <1>7, <1>8, <1>15, <1>23, <1>24, <1>29 DEF CLocal, CCall
  <1>30. ASSUME NEW w \in OPool, OLocal(w) \/ OCall(w) PROVE AccountSlots'
    BY <1>9, <1>10, <1>16, <1>30 DEF OLocal, OCall
  <1> QED
    BY <1>10, <1>15, <1>25, <1>26, <1>27, <1>28, <1>29, <1>30 DEF Next, Over

(* Browser slots: a worker that solves holds one. *)
Solving == {w \in SPool : sw[w] = "solving"}
BrowserSlots == phys + Cardinality(Solving) = Width

LEMMA BrowserSlotsNext ==
  ASSUME TypeOK, BrowserSlots, [Next]_vars
  PROVE  BrowserSlots'
  <1>0. /\ IsFiniteSet(Solving) /\ Cardinality(Solving) \in Nat
        /\ phys \in 0..Width /\ Width \in Nat /\ sw \in [SPool -> {"idle", "gate", "solving", "put", "exit"}]
    BY PipelineAssumption, FS_Subset, FS_CardinalityType
    DEF PipelineAssumption, Solving, TypeOK, TypeCounters, TypeWorkers
  <1>1. ASSUME phys' = phys, Solving' = Solving PROVE BrowserSlots'
    BY <1>1 DEF BrowserSlots
  <1>2. ASSUME NEW w \in SPool, SLocal(w) \/ SSolve(w) PROVE BrowserSlots'
    <2>1. CASE SStop(w) \/ SGate(w) \/ SEnough(w) \/ SPutT(w) \/ SPutTCancelled(w)
      BY <1>0, <1>1, <2>1 DEF SStop, SGate, SEnough, SPutT, SPutTCancelled, Solving, sems
    <2>2. CASE SStart(w)
      <3>1. w \notin Solving /\ Solving' = Solving \cup {w}
        BY <1>0, <2>2 DEF SStart, Solving
      <3>2. Cardinality(Solving') = Cardinality(Solving) + 1
        BY <1>0, <3>1, FS_AddElement
      <3> QED
        BY <1>0, <2>2, <3>2 DEF SStart, BrowserSlots
    <2>3. CASE SSolve(w)
      <3>1. w \in Solving /\ Solving' = Solving \ {w}
        BY <1>0, <2>3 DEF SSolve, Solving
      <3>2. Cardinality(Solving') = Cardinality(Solving) - 1 /\ Cardinality(Solving') \in Nat
        BY <1>0, <3>1, FS_RemoveElement, FS_CardinalityType
      <3> QED
        BY <1>0, <2>3, <3>2 DEF SSolve, BrowserSlots, Freed
    <2> QED
      BY <1>2, <2>1, <2>2, <2>3 DEF SLocal
  <1>3. ASSUME NEW w \in PPool, PLocal(w) \/ PCall(w) PROVE UNCHANGED <<phys, sw>>
    BY <1>3 DEF PLocal, PCall, PStop, PGate, PEnough, PStart, PReload, PReserve, PAcquire, PMail,
                PAcquireCancelled, PMailFail, PPutQ, PPutQCancelled, pools, sems
  <1>4. ASSUME NEW w \in CPool, CLocal(w) \/ CCall(w) PROVE UNCHANGED <<phys, sw>>
    BY <1>4 DEF CLocal, CCall, CStop, CWait, CClaim, CSend, CSendCancelled, CSendClosed, CSignup, CRefused,
                pools, sems
  <1>5. ASSUME NEW w \in OPool, OLocal(w) \/ OCall(w) PROVE UNCHANGED <<phys, sw>>
    BY <1>5 DEF OLocal, OCall, OExit, OTakeSurplus, OTake, ODelay, ODelayCancelled, OSettle, OWriteFail,
                OExport, OAuthFail, OAuthOk, OProbeFail, OComplete, OSurplus, pools, sems
  <1>6. ASSUME ExpireT \/ (\E a \in Attempts : ExpireQ(a)) \/ Purge \/ Stop \/ Main \/ Over \/ UNCHANGED vars
        PROVE  UNCHANGED <<phys, sw>>
    BY <1>6 DEF ExpireT, ExpireQ, Purge, Stop, Main, MainLeaveLoop, MainCloseChannel, MainFinish, MainClose, Over,
                pools, sems, vars
  <1> QED
    BY <1>1, <1>2, <1>3, <1>4, <1>5, <1>6 DEF Next, Solving

SlotInv == AccountSlots /\ BrowserSlots

LEMMA SlotInit == Init => SlotInv
  <1> SUFFICES ASSUME Init PROVE SlotInv
    OBVIOUS
  <1>1. Solving = {} /\ \A f \in Watched : With({f}) = {}
    BY DEF Init, Solving, With, Watched
  <1>2. Cardinality(Solving) = 0 /\ \A f \in Watched : N(f) = 0
    BY <1>1, FS_EmptySet DEF N
  <1> QED
    BY <1>2, PipelineAssumption
    DEF PipelineAssumption, Init, Watched, SlotInv, AccountSlots, TokenSlots, MailSlots, CodeSlots, BrowserSlots

LEMMA Disjoint ==
  ASSUME NEW S, NEW T, IsFiniteSet(S), IsFiniteSet(T), S \cap T = {}
  PROVE  Cardinality(S \cup T) = Cardinality(S) + Cardinality(T)
  <1>1. /\ Cardinality(S) \in Nat /\ Cardinality(T) \in Nat
        /\ Cardinality(S \cup T) = Cardinality(S) + Cardinality(T) - Cardinality(S \cap T)
    BY FS_Union, FS_CardinalityType
  <1> QED
    BY <1>1, FS_EmptySet

LEMMA SlotsTell == TypeOK /\ SlotInv => SlotsConserved
  <1> SUFFICES ASSUME TypeOK, SlotInv PROVE SlotsConserved
    OBVIOUS
  <1>1. \A f : IsFiniteSet(With({f}))
    BY FiniteAttempts
  <1>2. Cardinality(With({"email"}) \cup With({"mailed"})) = N("email") + N("mailed")
    BY <1>1, Disjoint DEF With, N
  <1>3. IsFiniteSet(With({"queued", "stale"}))
    BY FiniteAttempts
  <1>4. Cardinality(With({"queued"}) \cup With({"stale"})) = N("queued") + N("stale")
    BY <1>1, Disjoint DEF With, N
  <1>5. Cardinality(With({"queued", "stale"}) \cup With({"signup"}))
          = Cardinality(With({"queued", "stale"})) + N("signup")
    BY <1>1, <1>3, Disjoint DEF With, N
  <1>6. /\ With({"email"}) \cup With({"mailed"}) = With({"email", "mailed"})
        /\ With({"queued"}) \cup With({"stale"}) = With({"queued", "stale"})
        /\ With({"queued", "stale"}) \cup With({"signup"}) = With({"queued", "stale", "signup"})
    BY DEF With
  <1>7. /\ Cardinality(With({"email", "mailed"})) = N("email") + N("mailed")
        /\ Cardinality(With({"queued", "stale", "signup"})) = N("queued") + N("stale") + N("signup")
    BY <1>2, <1>4, <1>5, <1>6
  <1>8. qSlots \in Int /\ qPending \in Int /\ \A f : N(f) \in Nat
    BY Counting DEF TypeOK, TypeCounters
  <1>9. qSlots + Cardinality(With({"queued", "stale", "signup"})) = Width
    BY <1>7, <1>8 DEF SlotInv, AccountSlots, MailSlots
  <1>10. qPending + Cardinality(With({"email", "mailed"})) = Width
    BY <1>7, <1>8 DEF SlotInv, AccountSlots, CodeSlots
  <1> QED
    BY <1>9, <1>10 DEF SlotInv, AccountSlots, TokenSlots, BrowserSlots, Solving, SlotsConserved, N

-----------------------------------------------------------------------------
(* The manual flow drains: no exchange is spaced, nothing expires, and a worker of
   the last pool leaves only when the closed channel is empty. *)

Draining ==
  /\ \A w \in OPool : ~ran[w]
  /\ \A a \in Attempts : fate[a] \notin {"delay", "stale", "leaked"}
  /\ \A w \in OPool : ow[w] = "exit" => closed /\ \A a \in Attempts : fate[a] # "handoff"
  /\ main \in {"drainOAuth", "closing", "finished"} => closed
  /\ main \in {"closing", "finished"} /\ ~rushed => OAuthGone
DrainInv == ManualOAuth /\ ~Expiry => Draining

LEMMA DrainNext ==
  ASSUME TypeOK, JobInv, DrainInv, [Next]_vars
  PROVE  DrainInv'
  <1> SUFFICES ASSUME ManualOAuth, ~Expiry, Draining PROVE Draining'
    BY DEF DrainInv
  <1> USE DEF Draining, OAuthGone
  <1>0. TypeFates /\ TypeWorkers
    BY DEF TypeOK
  <1>1. Purged = fate
    BY <1>0 DEF Purged, TypeFates
  <1>2. ASSUME main # "finished", UNCHANGED <<ow, ran, closed, main, rushed>>,
               NEW a \in Attempts, NEW g \in Fate \ {"delay", "stale", "leaked", "handoff"},
               fate' = [fate EXCEPT ![a] = g]
        PROVE  Draining'
    BY <1>0, <1>2 DEF TypeFates
  <1>3. ASSUME main # "finished", UNCHANGED <<ow, ran, closed, main, rushed, fate>> PROVE Draining'
    BY <1>3
  <1>4. ASSUME UNCHANGED vars PROVE Draining'
    BY <1>4 DEF vars, pools, control, With
  <1>5. ASSUME NEW w \in SPool, SLocal(w) \/ SSolve(w) PROVE Draining'
    BY <1>1, <1>3, <1>5 DEF SLocal, SStop, SGate, SEnough, SStart, SPutT, SPutTCancelled, SSolve, Alive, control
  <1>6. ASSUME NEW w \in PPool, PStop(w) \/ PGate(w) \/ PEnough(w) \/ PStart(w) \/ PReload(w) PROVE Draining'
    BY <1>1, <1>3, <1>6 DEF PStop, PGate, PEnough, PStart, PReload, Alive, control
  <1>7. ASSUME NEW w \in PPool, PReserve(w) PROVE Draining'
    BY <1>2, <1>3, <1>7 DEF PReserve, Move, With, Alive, control, Fate, HeldByP
  <1>8. ASSUME NEW w \in PPool, NEW a \in Attempts,
               \/ PAcquire(w, a) \/ PAcquireCancelled(w, a) \/ PMailFail(w, a) \/ PMail(w, a)
               \/ PPutQ(w, a) \/ PPutQCancelled(w, a)
        PROVE  Draining'
    BY <1>1, <1>2, <1>8 DEF PAcquire, PAcquireCancelled, PMailFail, PMail, PPutQ, PPutQCancelled,
                            Move, Alive, control, pools, Fate, HeldByP, InQueue, Ended
  <1>9. ASSUME NEW w \in CPool, CStop(w) \/ CWait(w) PROVE Draining'
    BY <1>1, <1>3, <1>9 DEF CStop, CWait, Alive, control
  <1>10. ASSUME NEW w \in CPool, NEW a \in Attempts,
                CClaim(w, a) \/ CRefused(w, a) \/ CSignup(w, a) \/ CSendCancelled(w, a)
         PROVE  Draining'
    BY <1>1, <1>2, <1>10 DEF CClaim, CRefused, CSignup, CSendCancelled,
                             Move, Alive, control, pools, Fate, HeldByC, Ended
  <1>11. ASSUME NEW w \in CPool, NEW a \in Attempts, CSend(w, a) PROVE Draining'
    BY <1>0, <1>11 DEF CSend, Move, Alive, control, TypeFates
  <1>12. ASSUME NEW w \in CPool, NEW a \in Attempts, CSendClosed(w, a) PROVE Draining'
    BY <1>3, <1>12 DEF CSendClosed, Alive, pools
  <1>13. ASSUME NEW w \in OPool, NEW a \in Attempts, OTakeSurplus(w, a) PROVE Draining'
    BY <1>2, <1>13 DEF OTakeSurplus, Move, Alive, control, pools, Fate, Ended
  <1>14. ASSUME NEW w \in OPool, NEW a \in Attempts, OTake(w, a) PROVE Draining'
    BY <1>0, <1>14 DEF OTake, Move, Alive, control, TypeFates, TypeWorkers
  <1>15. ASSUME NEW w \in OPool, NEW a \in Attempts,
                ODelay(w, a) \/ OAuthOk(w, a) \/ OComplete(w, a) \/ OSettle(w, a)
         PROVE  Draining'
    BY <1>2, <1>15 DEF ODelay, OAuthOk, OComplete, OSettle, Move, Alive, control, pools, Fate, HeldByO
  <1>16. ASSUME NEW w \in OPool, NEW a \in Attempts, ODelayCancelled(w, a) PROVE FALSE
    BY <1>16 DEF ODelayCancelled, Holds
  <1>17. ASSUME NEW w \in OPool, NEW a \in Attempts,
                \/ OAuthFail(w, a) \/ OProbeFail(w, a) \/ OSurplus(w, a) \/ OWriteFail(w, a)
                \/ OExport(w, a)
         PROVE  Draining'
    <2>1. fate[a] \in HeldByO /\ by[a] = w
      BY <1>17 DEF OAuthFail, OProbeFail, OSurplus, OWriteFail, OExport, Holds, HeldByO
    <2>2. ow[w] = "busy"
      BY <2>1 DEF JobInv, OJob, JobOf
    <2>3. /\ main # "finished" /\ UNCHANGED <<ran, closed, main, rushed>> /\ ow' = [ow EXCEPT ![w] = "idle"]
          /\ \E g \in {"released", "unexported", "ready"} : fate' = [fate EXCEPT ![a] = g]
      BY <1>1, <1>17 DEF OAuthFail, OProbeFail, OSurplus, OWriteFail, OExport, Move, Alive, control
    <2> QED
      BY <1>0, <2>2, <2>3 DEF TypeFates, TypeWorkers
  <1>18. ASSUME NEW w \in OPool, OExit(w) PROVE Draining'
    BY <1>0, <1>18 DEF OExit, Alive, control, With, TypeWorkers
  <1>19. ASSUME ExpireT \/ (\E a \in Attempts : ExpireQ(a)) PROVE FALSE
    BY <1>19 DEF ExpireT, ExpireQ
  <1>20. ASSUME Purge \/ Stop PROVE Draining'
    BY <1>1, <1>3, <1>20 DEF Purge, Stop, Alive, control, pools
  <1>21. CASE MainLeaveLoop \/ MainCloseChannel
    BY <1>21 DEF MainLeaveLoop, MainCloseChannel, Alive, pools
  <1>22. CASE MainFinish \/ MainClose
    BY <1>22 DEF MainFinish, MainClose, Alive, pools
  <1>23. ASSUME NEW w \in PPool, PLocal(w) \/ PCall(w) PROVE Draining'
    BY <1>6, <1>7, <1>8, <1>23 DEF PLocal, PCall
  <1>24. ASSUME NEW w \in CPool, CLocal(w) \/ CCall(w) PROVE Draining'
    BY <1>9, <1>10, <1>11, <1>12, <1>24 DEF CLocal, CCall
  <1>25. ASSUME NEW w \in OPool, OLocal(w) \/ OCall(w) PROVE Draining'
    BY <1>13, <1>14, <1>15, <1>16, <1>17, <1>18, <1>25 DEF OLocal, OCall
  <1> QED
    BY <1>4, <1>5, <1>19, <1>20, <1>21, <1>22, <1>23, <1>24, <1>25 DEF Next, Main, Over

LEMMA DrainTells == TypeOK /\ JobInv /\ CrashInv /\ DrainInv => ManualStopDrains
  <1> SUFFICES ASSUME TypeOK, JobInv, CrashInv, DrainInv, ManualOAuth, ~Expiry,
                      main \in {"closing", "finished"}, ~forced, ~rushed
               PROVE  With({"registered", "handoff", "delay", "counted", "export", "leaked"}) = {}
    BY DEF ManualStopDrains
  <1>1. Draining /\ closed /\ \A w \in OPool : ow[w] = "exit"
    BY DEF DrainInv, Draining, OAuthGone
  <1>2. \A a \in Attempts : fate[a] \notin {"handoff", "delay", "leaked"}
    BY <1>1, SomeWorkerAuthorizes DEF SomeWorkerAuthorizes, Draining
  <1>3. \A a \in Attempts : fate[a] \notin HeldByO
    BY <1>1 DEF JobInv, OJob, JobOf, TypeOK, TypeFates
  <1>4. \A w \in CPool : cw[w] = "exit"
    BY <1>1 DEF CrashInv, ClosedInOrder
  <1>5. \A a \in Attempts : fate[a] \notin HeldByC
    BY <1>4 DEF JobInv, CJob, JobOf, TypeOK, TypeFates
  <1> QED
    BY <1>2, <1>3, <1>5 DEF With, HeldByC, HeldByO

-----------------------------------------------------------------------------
(* The inductive invariant of the four, and the theorems. *)

WorkInv == TypeOK /\ JobInv /\ CrashInv /\ SlotInv /\ DrainInv

LEMMA InitWorkInv == Init => WorkInv
  <1>1. Init => CrashInv
    BY DEF Init, CrashInv, ClosedInOrder, CrashOnlyAfterTimeout
  <1>2. Init => DrainInv
    BY DEF Init, DrainInv, Draining
  <1> QED
    BY <1>1, <1>2, InitTypeOK, JobInit, SlotInit DEF WorkInv

LEMMA StepWorkInv == WorkInv /\ [Next]_vars => WorkInv'
  <1> SUFFICES ASSUME WorkInv, [Next]_vars PROVE WorkInv'
    OBVIOUS
  <1>1. TypeOK'
    BY StepTypeOK DEF WorkInv
  <1>2. JobInv' /\ CrashInv' /\ DrainInv'
    BY JobNext, CrashNext, DrainNext DEF WorkInv
  <1>3. SlotInv'
    BY <1>1, AccountSlotsNext, BrowserSlotsNext DEF WorkInv, SlotInv
  <1> QED
    BY <1>1, <1>2, <1>3 DEF WorkInv

LEMMA WorkInvariant == Spec => []WorkInv
  BY InitWorkInv, StepWorkInv, PTL DEF Spec

(* No worker starts an account before the one in hand is passed on or settled,
   and none is busy without one: the loops of engine.go, for any pool sizes. *)
THEOREM OneJobAlways == Spec => []OneJobPerWorker
  <1>1. WorkInv => OneJobPerWorker
    BY JobTells DEF WorkInv
  <1> QED
    BY <1>1, WorkInvariant, PTL

(* The send on oauthCh meets a closed channel only when run stopped waiting for
   the register workers. *)
THEOREM CrashNeedsTimeout == Spec => []CrashOnlyAfterTimeout
  <1>1. WorkInv => CrashOnlyAfterTimeout
    BY DEF WorkInv, CrashInv
  <1> QED
    BY <1>1, WorkInvariant, PTL

(* No path through the four loops or the inventory leaks a slot of the four
   semaphores or gives one back twice. *)
THEOREM SlotsAlwaysConserved == Spec => []SlotsConserved
  <1>1. WorkInv => SlotsConserved
    BY SlotsTell DEF WorkInv
  <1> QED
    BY <1>1, WorkInvariant, PTL

(* In the manual flow an orderly stop leaves no account between the signup and
   its settlement. *)
THEOREM ManualStopAlwaysDrains == Spec => []ManualStopDrains
  <1>1. WorkInv => ManualStopDrains
    BY DrainTells DEF WorkInv
  <1> QED
    BY <1>1, WorkInvariant, PTL

-----------------------------------------------------------------------------
(* The engine implements SeatLedger: per account, whatever the pools do. *)
(* What a step of the engine does to the ledger it implements. *)

ViewKept == LedgerView' = LedgerView
ViewOpened(a) ==
  LedgerView[a] = "unused" /\ LedgerView' = [LedgerView EXCEPT ![a] = "open"]
ViewCounted(a) ==
  /\ LedgerView[a] = "open" /\ done < Target
  /\ LedgerView' = [LedgerView EXCEPT ![a] = "counted"]
ViewClosed(S) ==
  /\ S \subseteq {a \in Attempts : LedgerView[a] = "open"}
  /\ LedgerView' = [a \in Attempts |-> IF a \in S THEN "closed" ELSE LedgerView[a]]

LEMMA ViewStep ==
  ASSUME TypeOK, [Next]_vars
  PROVE  \/ ViewKept
         \/ \E a \in Attempts : ViewOpened(a) \/ ViewCounted(a)
         \/ \E S \in SUBSET Attempts : ViewClosed(S)
  <1> USE DEF ViewKept, ViewOpened, ViewCounted, ViewClosed, LedgerView, InFlight,
          Counted, With, TypeOK, TypeFates
  <1>1. ASSUME NEW w \in SPool, SStop(w) PROVE ViewKept
    BY <1>1 DEF SStop, seats, tokens, slots, sems, control
  <1>2. ASSUME NEW w \in SPool, SStart(w) PROVE ViewClosed(With({"stale"}))
    BY <1>2 DEF SStart, Purged, QFreed, TFreed, seats, control, Freed
  <1>3. ASSUME NEW w \in SPool, SSolve(w) PROVE ViewKept
    BY <1>3 DEF SSolve, Freed, seats, tokens, slots, control
  <1>4. ASSUME NEW w \in SPool, SPutT(w) PROVE ViewClosed(With({"stale"}))
    BY <1>4 DEF SPutT, Purged, QFreed, TFreed, seats, sems, control, Freed
  <1>5. ASSUME NEW w \in SPool, SPutTCancelled(w) PROVE ViewKept
    BY <1>5 DEF SPutTCancelled, seats, tokens, slots, sems, control
  <1>6. ASSUME NEW w \in PPool, PStop(w) PROVE ViewKept
    BY <1>6 DEF PStop, seats, tokens, slots, sems, control
  <1>7. ASSUME NEW w \in PPool, PStart(w) PROVE ViewClosed(With({"stale"}))
    BY <1>7 DEF PStart, Purged, QFreed, TFreed, seats, sems, control, Freed
  <1>8. ASSUME NEW w \in PPool, PReload(w) PROVE ViewKept
    BY <1>8 DEF PReload, seats, tokens, slots, sems, control
  <1>9. ASSUME NEW w \in PPool, PReserve(w) PROVE ViewKept \/ \E a \in Attempts : ViewOpened(a)
    <2>1. ASSUME NEW a \in With({"unused"}), Move(a, "seated", w) PROVE ViewOpened(a) /\ a \in Attempts
      BY <2>1 DEF Move
    <2>. QED
      BY <1>9, <2>1 DEF PReserve
  <1>10. ASSUME NEW w \in PPool, NEW a \in Attempts, PAcquire(w, a) PROVE ViewKept
    BY <1>10 DEF PAcquire, Move, Holds, seats, tokens, slots, pools, control
  <1>11. ASSUME NEW w \in PPool, NEW a \in Attempts, PAcquireCancelled(w, a) PROVE ViewClosed({a})
    BY <1>11 DEF PAcquireCancelled, ReleaseReserve, Move, Holds, tokens, slots, sems, control
  <1>12. ASSUME NEW w \in PPool, NEW a \in Attempts, PMailFail(w, a) PROVE ViewClosed({a})
    BY <1>12 DEF PMailFail, ReleaseReserve, Freed, Move, Holds, tokens, slots, control
  <1>13. ASSUME NEW w \in PPool, NEW a \in Attempts, PMail(w, a) PROVE ViewKept
    BY <1>13 DEF PMail, Move, Holds, seats, tokens, slots, sems, pools, control
  <1>14. ASSUME NEW w \in PPool, NEW a \in Attempts, PPutQ(w, a) PROVE ViewClosed(With({"stale"}))
    BY <1>14 DEF PPutQ, Freed, Purged, QFreed, TFreed, Holds, seats, control
  <1>15. ASSUME NEW w \in PPool, NEW a \in Attempts, PPutQCancelled(w, a) PROVE ViewClosed({a})
    BY <1>15 DEF PPutQCancelled, ReleaseReserve, Freed, Move, Holds, tokens, slots, control
  <1>16. ASSUME NEW w \in CPool, CStop(w) PROVE ViewKept
    BY <1>16 DEF CStop, seats, tokens, slots, sems, control
  <1>17. ASSUME NEW w \in CPool, CWait(w) PROVE ViewClosed(With({"stale"}))
    BY <1>17 DEF CWait, Purged, QFreed, TFreed, seats, sems, control, Freed
  <1>18. ASSUME NEW w \in CPool, NEW a \in Attempts, CClaim(w, a) PROVE ViewClosed(With({"stale"}))
    BY <1>18 DEF CClaim, Purged, QFreed, TFreed, seats, sems, control, Freed
  <1>19. ASSUME NEW w \in CPool, NEW a \in Attempts, CRefused(w, a) PROVE ViewClosed({a})
    BY <1>19 DEF CRefused, ReleaseReserve, Freed, Move, Holds, tokens, sems, control
  <1>20. ASSUME NEW w \in CPool, NEW a \in Attempts, CSignup(w, a) PROVE ViewKept
    BY <1>20 DEF CSignup, Freed, Move, Holds, seats, tokens, sems, pools, control
  <1>21. ASSUME NEW w \in CPool, NEW a \in Attempts, CSend(w, a) PROVE ViewKept
    BY <1>21 DEF CSend, Move, Holds, seats, tokens, slots, sems, control
  <1>22. ASSUME NEW w \in CPool, NEW a \in Attempts, CSendCancelled(w, a) PROVE ViewClosed({a})
    BY <1>22 DEF CSendCancelled, ReleaseReserve, Move, Holds, tokens, slots, sems, control
  <1>23. ASSUME NEW w \in CPool, NEW a \in Attempts, CSendClosed(w, a) PROVE ViewKept
    BY <1>23 DEF CSendClosed, Holds, seats, tokens, slots, sems, pools
  <1>24. ASSUME NEW w \in OPool, OExit(w) PROVE ViewKept
    BY <1>24 DEF OExit, seats, tokens, slots, sems, control
  <1>25. ASSUME NEW w \in OPool, NEW a \in Attempts, OTakeSurplus(w, a) PROVE ViewClosed({a})
    BY <1>25 DEF OTakeSurplus, ReleaseReserve, Move, tokens, slots, sems, pools, control
  <1>26. ASSUME NEW w \in OPool, NEW a \in Attempts, OTake(w, a) PROVE ViewKept
    BY <1>26 DEF OTake, Move, seats, tokens, slots, sems, control
  <1>27. ASSUME NEW w \in OPool, NEW a \in Attempts, ODelay(w, a) PROVE ViewKept
    BY <1>27 DEF ODelay, Move, Holds, seats, tokens, slots, sems, pools, control
  <1>28. ASSUME NEW w \in OPool, NEW a \in Attempts, ODelayCancelled(w, a) PROVE ViewClosed({a})
    BY <1>28 DEF ODelayCancelled, Move, Holds, seats, tokens, slots, sems, control
  <1>29. ASSUME NEW w \in OPool, NEW a \in Attempts, OAuthFail(w, a) PROVE ViewClosed({a})
    BY <1>29 DEF OAuthFail, ReleaseReserve, Move, Holds, tokens, slots, sems, control
  <1>30. ASSUME NEW w \in OPool, NEW a \in Attempts, OAuthOk(w, a) PROVE ViewKept
    BY <1>30 DEF OAuthOk, Move, Holds, seats, tokens, slots, sems, pools, control
  <1>31. ASSUME NEW w \in OPool, NEW a \in Attempts, OProbeFail(w, a) PROVE ViewClosed({a})
    BY <1>31 DEF OProbeFail, ReleaseReserve, Move, Holds, tokens, slots, sems, control
  <1>32. ASSUME NEW w \in OPool, NEW a \in Attempts, OComplete(w, a) PROVE ViewCounted(a)
    BY <1>32 DEF OComplete, Move, Holds, tokens, slots, sems, pools, control
  <1>33. ASSUME NEW w \in OPool, NEW a \in Attempts, OSettle(w, a) PROVE ViewKept
    BY <1>33 DEF OSettle, ReleaseReserve, Move, Holds, tokens, slots, sems, pools, control
  <1>34. ASSUME NEW w \in OPool, NEW a \in Attempts, OSurplus(w, a) PROVE ViewClosed({a})
    BY <1>34 DEF OSurplus, ReleaseReserve, Move, Holds, tokens, slots, sems, control
  <1>35. ASSUME NEW w \in OPool, NEW a \in Attempts, OWriteFail(w, a) PROVE ViewKept
    BY <1>35 DEF OWriteFail, Move, Holds, seats, tokens, slots, sems, control
  <1>36. ASSUME NEW w \in OPool, NEW a \in Attempts, OExport(w, a) PROVE ViewClosed(With({"stale"}))
    BY <1>36 DEF OExport, Purged, QFreed, TFreed, Holds, seats, sems, control, Freed
  <1>37. ASSUME NEW a \in Attempts, ExpireQ(a) PROVE ViewKept
    BY <1>37 DEF ExpireQ, seats, tokens, slots, sems, pools, control
  <1>38. ASSUME ExpireT PROVE ViewKept
    BY <1>38 DEF ExpireT, seats, slots, sems, pools, control
  <1>39. ASSUME Purge PROVE ViewClosed(With({"stale"}))
    BY <1>39 DEF Purge, Purged, QFreed, TFreed, seats, sems, pools, control, Freed
  <1>40. ASSUME Stop PROVE ViewKept
    BY <1>40 DEF Stop, seats, tokens, slots, sems, pools
  <1>41. ASSUME MainLeaveLoop PROVE ViewKept
    BY <1>41 DEF MainLeaveLoop, seats, tokens, slots, sems, pools
  <1>42. ASSUME MainCloseChannel PROVE ViewKept
    BY <1>42 DEF MainCloseChannel, seats, tokens, slots, sems, pools
  <1>43. ASSUME MainFinish \/ MainClose PROVE ViewKept
    BY <1>43 DEF MainFinish, MainClose, seats, tokens, slots, sems, pools
  <1>44. ASSUME UNCHANGED vars PROVE ViewKept
    BY <1>44 DEF vars, seats, tokens, slots, sems, pools, control
  <1>45. ASSUME NEW w \in SPool, SGate(w) PROVE ViewKept
    BY <1>45 DEF SGate, seats, tokens, slots, sems, control
  <1>46. ASSUME NEW w \in SPool, SEnough(w) PROVE ViewClosed(With({"stale"}))
    BY <1>46 DEF SEnough, Purged, QFreed, TFreed, seats, sems, control, Freed
  <1>47. ASSUME NEW w \in PPool, PGate(w) PROVE ViewKept
    BY <1>47 DEF PGate, seats, tokens, slots, sems, control
  <1>48. ASSUME NEW w \in PPool, PEnough(w) PROVE ViewClosed(With({"stale"}))
    BY <1>48 DEF PEnough, Purged, QFreed, TFreed, seats, sems, control, Freed
  <1>. HIDE DEF ViewKept, ViewOpened, ViewCounted, ViewClosed, LedgerView, InFlight,
            Counted, TypeOK, TypeFates
  <1>. QED
    BY <1>1, <1>2, <1>3, <1>4, <1>5, <1>6, <1>7, <1>8, <1>9, <1>10, <1>11, <1>12, <1>13,
       <1>14, <1>15, <1>16, <1>17, <1>18, <1>19, <1>20, <1>21, <1>22, <1>23, <1>24,
       <1>25, <1>26, <1>27, <1>28, <1>29, <1>30, <1>31, <1>32, <1>33, <1>34, <1>35,
       <1>36, <1>37, <1>38, <1>39, <1>40, <1>41, <1>42, <1>43, <1>44, <1>45, <1>46, <1>47, <1>48
    DEF Next, SLocal, PLocal, CLocal, OLocal, PCall, CCall, OCall, Main, Over

-----------------------------------------------------------------------------
(* The counted entries of the ledger are the successes that done counts. *)
LEMMA LedgerCounts == Ledger!In("counted") = Successes
  BY DEF Ledger!In, LedgerView, Successes, With, Counted, InFlight

(* The ledger counts with its own instance of the same operator. *)
LEMMA SameCardinality == \A S : Ledger!Cardinality(S) = Cardinality(S)
  BY DEF Ledger!Cardinality, Cardinality, Ledger!IsFiniteSet, IsFiniteSet

LEMMA LedgerInit == Init => Ledger!Init
  BY DEF Init, Ledger!Init, LedgerView

LEMMA LedgerStep ==
  ASSUME SeatInv, [Next]_vars
  PROVE  [Ledger!Next]_LedgerView
  <1>1. TypeOK /\ done = Cardinality(Successes)
    BY DEF SeatInv, SeatsWithinTarget, Successes
  <1>2. CASE ViewKept
    BY <1>2 DEF ViewKept
  <1>3. ASSUME NEW a \in Attempts, ViewOpened(a) PROVE Ledger!Next
    BY <1>3 DEF ViewOpened, Ledger!Next, Ledger!Open
  <1>4. ASSUME NEW a \in Attempts, ViewCounted(a) PROVE Ledger!Next
    BY <1>1, <1>4, LedgerCounts, SameCardinality DEF ViewCounted, Ledger!Next, Ledger!Count
  <1>5. ASSUME NEW S \in SUBSET Attempts, ViewClosed(S) PROVE [Ledger!Next]_LedgerView
    <2>1. CASE S = {}
      <3>1. LedgerView' = [a \in Attempts |-> LedgerView[a]]
        BY <1>5, <2>1 DEF ViewClosed
      <3>2. LedgerView = [a \in Attempts |-> LedgerView[a]]
        BY DEF LedgerView
      <3>. QED
        BY <3>1, <3>2
    <2>2. CASE S # {}
      <3>1. S \in SUBSET Ledger!In("open") /\ Ledger!Close(S)
        BY <1>5, <2>2 DEF ViewClosed, Ledger!Close, Ledger!In
      <3>. QED
        BY <3>1 DEF Ledger!Next
    <2>. QED
      BY <2>1, <2>2
  <1>. QED
    BY <1>1, <1>2, <1>3, <1>4, <1>5, ViewStep

(* Every run of the engine is a run of the ledger: an attempt is opened once, ends
   once, is never counted twice or taken back, and at most Target are counted. *)
THEOREM LedgerImplemented == Spec => ImplementsLedger
  BY LedgerInit, LedgerStep, SeatInvariant, PTL DEF Spec, ImplementsLedger, Ledger!Spec
=============================================================================
