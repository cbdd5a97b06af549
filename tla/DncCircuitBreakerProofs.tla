---------------------- MODULE DncCircuitBreakerProofs ----------------------
(* Proofs about DncCircuitBreaker, for any number of callers and any thresholds. *)
EXTENDS DncCircuitBreaker, TLAPS

USE ThresholdAssumption, BoundAssumption

\* Every interleaving of the atomic operations keeps the state one of the three
\* and the counters natural numbers.
THEOREM TypeCorrect == Spec => []TypeOK
<1>1. Init => TypeOK
  BY DEF Init, TypeOK, CallerPc, Longer
<1>2. ASSUME TypeOK, [Next]_vars PROVE TypeOK'
  <2> USE <1>2 DEF TypeOK, CallerPc, counters, Longer
  <2>1. ASSUME NEW c \in Callers, EnterClosed(c) PROVE TypeOK'
    BY <2>1 DEF EnterClosed, Step
  <2>2. ASSUME NEW c \in Callers, EnterOpen(c) PROVE TypeOK'
    BY <2>2 DEF EnterOpen, Step
  <2>3. ASSUME NEW c \in Callers, EnterHalfOpen(c) PROVE TypeOK'
    BY <2>3 DEF EnterHalfOpen, Step
  <2>4. ASSUME NEW c \in Callers, CheckTimeout(c) PROVE TypeOK'
    BY <2>4 DEF CheckTimeout, Step
  <2>5. ASSUME NEW c \in Callers, Probe(c) PROVE TypeOK'
    BY <2>5 DEF Probe, Step, Swap
  <2>6. ASSUME NEW c \in Callers, CheckLimit(c) PROVE TypeOK'
    BY <2>6 DEF CheckLimit, Step
  <2>7. ASSUME NEW c \in Callers, RequestFails(c) PROVE TypeOK'
    BY <2>7 DEF RequestFails, Step
  <2>8. ASSUME NEW c \in Callers, CountFailure(c) PROVE TypeOK'
    BY <2>8 DEF CountFailure, Step
  <2>9. ASSUME NEW c \in Callers, StampFailure(c) PROVE TypeOK'
    BY <2>9 DEF StampFailure, Step
  <2>10. ASSUME NEW c \in Callers, CheckState(c) PROVE TypeOK'
    BY <2>10 DEF CheckState, Step
  <2>11. ASSUME NEW c \in Callers, LoadFailures(c) PROVE TypeOK'
    BY <2>11 DEF LoadFailures, Step
  <2>12. ASSUME NEW c \in Callers, LoadTotal(c) PROVE TypeOK'
    BY <2>12 DEF LoadTotal, Step
  <2>13. ASSUME NEW c \in Callers, Trip(c) PROVE TypeOK'
    BY <2>13 DEF Trip, Step, Swap
  <2>14. ASSUME NEW c \in Callers, RequestSucceeds(c) PROVE TypeOK'
    BY <2>14 DEF RequestSucceeds, Step
  <2>15. ASSUME NEW c \in Callers, CountSuccess(c) PROVE TypeOK'
    BY <2>15 DEF CountSuccess, Step
  <2>16. ASSUME NEW c \in Callers, LoadState(c) PROVE TypeOK'
    BY <2>16 DEF LoadState, Step
  <2>17. ASSUME NEW c \in Callers, LoadSuccesses(c) PROVE TypeOK'
    BY <2>17 DEF LoadSuccesses, Step
  <2>18. ASSUME NEW c \in Callers, Close(c) PROVE TypeOK'
    BY <2>18 DEF Close, Step, Swap
  <2>19. ASSUME NEW c \in Callers, ClearFailures(c) PROVE TypeOK'
    BY <2>19 DEF ClearFailures, Step
  <2>20. ASSUME NEW c \in Callers, ClearSuccesses(c) PROVE TypeOK'
    BY <2>20 DEF ClearSuccesses, Step
  <2>21. ASSUME NEW c \in Callers, ClearTotal(c) PROVE TypeOK'
    BY <2>21 DEF ClearTotal, Step
  <2>22. CASE ResetState
    BY <2>22 DEF ResetState
  <2>23. CASE ResetFailures
    BY <2>23 DEF ResetFailures
  <2>24. CASE ResetSuccesses
    BY <2>24 DEF ResetSuccesses
  <2>25. CASE ResetTotal
    BY <2>25 DEF ResetTotal
  <2>26. CASE ResetTime
    BY <2>26 DEF ResetTime
  <2>27. CASE Tick
    BY <2>27 DEF Tick
  <2>28. CASE UNCHANGED vars
    BY <2>28 DEF vars
  <2> QED
    BY <2>1, <2>2, <2>3, <2>4, <2>5, <2>6, <2>7, <2>8, <2>9, <2>10, <2>11, <2>12, <2>13, <2>14, <2>15, <2>16, <2>17, <2>18, <2>19, <2>20, <2>21, <2>22, <2>23, <2>24, <2>25, <2>26, <2>27, <2>28 DEF Next, Execute, Continue, Reset
<1> QED
  BY <1>1, <1>2, PTL DEF Spec

-----------------------------------------------------------------------------
\* A failing call adds to the counter before it looks whether to open, and the
\* calls that close the circuit clear the counter after: so whoever raised it to
\* the threshold opens the circuit, unless another goroutine is about to clear it.
THEOREM NoTripIsMissed == Spec => []NoMissedTrip
<1>1. Init => NoMissedTrip
  BY DEF Init, NoMissedTrip
<1>2. ASSUME TypeOK, NoMissedTrip, [Next]_vars PROVE NoMissedTrip'
  <2> USE <1>2 DEF TypeOK, CallerPc, NoMissedTrip, WillTripOrClear, counters
  <2>1. ASSUME NEW c \in Callers, EnterClosed(c) PROVE NoMissedTrip'
    BY <2>1 DEF EnterClosed, Step
  <2>2. ASSUME NEW c \in Callers, EnterOpen(c) PROVE NoMissedTrip'
    BY <2>2 DEF EnterOpen, Step
  <2>3. ASSUME NEW c \in Callers, EnterHalfOpen(c) PROVE NoMissedTrip'
    BY <2>3 DEF EnterHalfOpen, Step
  <2>4. ASSUME NEW c \in Callers, CheckTimeout(c) PROVE NoMissedTrip'
    BY <2>4 DEF CheckTimeout, Step
  <2>5. ASSUME NEW c \in Callers, Probe(c) PROVE NoMissedTrip'
    BY <2>5 DEF Probe, Step, Swap
  <2>6. ASSUME NEW c \in Callers, CheckLimit(c) PROVE NoMissedTrip'
    BY <2>6 DEF CheckLimit, Step
  <2>7. ASSUME NEW c \in Callers, RequestFails(c) PROVE NoMissedTrip'
    BY <2>7 DEF RequestFails, Step
  <2>8. ASSUME NEW c \in Callers, CountFailure(c) PROVE NoMissedTrip'
    BY <2>8 DEF CountFailure, Step
  <2>9. ASSUME NEW c \in Callers, StampFailure(c) PROVE NoMissedTrip'
    BY <2>9 DEF StampFailure, Step
  <2>10. ASSUME NEW c \in Callers, CheckState(c) PROVE NoMissedTrip'
    BY <2>10 DEF CheckState, Step
  <2>11. ASSUME NEW c \in Callers, LoadFailures(c) PROVE NoMissedTrip'
    BY <2>11 DEF LoadFailures, Step
  <2>12. ASSUME NEW c \in Callers, LoadTotal(c) PROVE NoMissedTrip'
    BY <2>12 DEF LoadTotal, Step, ShouldOpen
  <2>13. ASSUME NEW c \in Callers, Trip(c) PROVE NoMissedTrip'
    BY <2>13 DEF Trip, Step, Swap
  <2>14. ASSUME NEW c \in Callers, RequestSucceeds(c) PROVE NoMissedTrip'
    BY <2>14 DEF RequestSucceeds, Step
  <2>15. ASSUME NEW c \in Callers, CountSuccess(c) PROVE NoMissedTrip'
    BY <2>15 DEF CountSuccess, Step
  <2>16. ASSUME NEW c \in Callers, LoadState(c) PROVE NoMissedTrip'
    BY <2>16 DEF LoadState, Step
  <2>17. ASSUME NEW c \in Callers, LoadSuccesses(c) PROVE NoMissedTrip'
    BY <2>17 DEF LoadSuccesses, Step
  <2>18. ASSUME NEW c \in Callers, Close(c) PROVE NoMissedTrip'
    BY <2>18 DEF Close, Step, Swap
  <2>19. ASSUME NEW c \in Callers, ClearFailures(c) PROVE NoMissedTrip'
    BY <2>19 DEF ClearFailures, Step
  <2>20. ASSUME NEW c \in Callers, ClearSuccesses(c) PROVE NoMissedTrip'
    BY <2>20 DEF ClearSuccesses, Step
  <2>21. ASSUME NEW c \in Callers, ClearTotal(c) PROVE NoMissedTrip'
    BY <2>21 DEF ClearTotal, Step
  <2>22. CASE ResetState
    BY <2>22 DEF ResetState
  <2>23. CASE ResetFailures
    BY <2>23 DEF ResetFailures
  <2>24. CASE ResetSuccesses
    BY <2>24 DEF ResetSuccesses
  <2>25. CASE ResetTotal
    BY <2>25 DEF ResetTotal
  <2>26. CASE ResetTime
    BY <2>26 DEF ResetTime
  <2>27. CASE Tick
    BY <2>27 DEF Tick
  <2>28. CASE UNCHANGED vars
    BY <2>28 DEF vars
  <2> QED
    BY <2>1, <2>2, <2>3, <2>4, <2>5, <2>6, <2>7, <2>8, <2>9, <2>10, <2>11, <2>12, <2>13, <2>14, <2>15, <2>16, <2>17, <2>18, <2>19, <2>20, <2>21, <2>22, <2>23, <2>24, <2>25, <2>26, <2>27, <2>28 DEF Next, Execute, Continue, Reset
<1> QED
  BY <1>1, <1>2, TypeCorrect, PTL DEF Spec
=============================================================================
