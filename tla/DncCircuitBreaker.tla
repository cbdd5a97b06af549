------------------------- MODULE DncCircuitBreaker -------------------------
(***************************************************************************)
(* The lock-free circuit breaker of the DNC service, in front of one       *)
(* provider.  Its fields are separate atomics: every load, store, add and  *)
(* compare-and-swap is a step of its own, and the steps of concurrent      *)
(* Execute calls, and of a Reset, interleave.  Reset's mutex only keeps    *)
(* other Resets out, so there is one Reset at a time.                      *)
(***************************************************************************)
EXTENDS Integers

CONSTANTS
  Callers,             \* goroutines that call Execute
  FailureThreshold, SuccessThreshold, MaxRequests, MinRequests,
  RateNum, RateDen,    \* FailureRateThreshold is RateNum / RateDen
  Timeout,             \* the clock ticks an open circuit waits
  MaxTotal             \* bound: no call starts in a closed circuit beyond it

ASSUME ThresholdAssumption ==
  /\ FailureThreshold \in Nat \ {0} /\ SuccessThreshold \in Nat \ {0}
  /\ MaxRequests \in Nat \ {0} /\ MinRequests \in Nat \ {0}
  /\ RateNum \in Nat /\ RateDen \in Nat \ {0}
ASSUME BoundAssumption == Timeout \in Nat /\ MaxTotal \in Nat

VARIABLES
  state,       \* "closed", "open" or "half-open"
  elapsed,     \* time since lastFailureTime, Timeout + 1 standing for anything longer
  failures, successes, total,
  pc,          \* the next step of each caller
  seen,        \* the failures checkShouldOpen loaded, 0 outside it
  resetting    \* the next store of Reset, "idle" when none runs

counters == <<failures, successes, total>>
vars == <<state, elapsed, counters, pc, seen, resetting>>

Longer == Timeout + 1

Init ==
  /\ state = "closed"
  /\ elapsed = Longer   \* lastFailureTime is 0
  /\ failures = 0 /\ successes = 0 /\ total = 0
  /\ pc = [c \in Callers |-> "idle"]
  /\ seen = [c \in Callers |-> 0]
  /\ resetting = "idle"

\* Caller c moves on from one step to another.
Step(c, from, to) == pc[c] = from /\ pc' = [pc EXCEPT ![c] = to]

\* CompareAndSwapInt32: state moves only if it still is what it should be.
Swap(old, new) == state' = IF state = old THEN new ELSE state

-----------------------------------------------------------------------------
(* allowRequest *)

EnterClosed(c) ==
  /\ state = "closed"
  /\ total < MaxTotal
  /\ Step(c, "idle", "calling")
  /\ UNCHANGED <<state, elapsed, counters, seen, resetting>>

EnterOpen(c) ==
  /\ state = "open"
  /\ Step(c, "idle", "timeout")
  /\ UNCHANGED <<state, elapsed, counters, seen, resetting>>

EnterHalfOpen(c) ==
  /\ state = "half-open"
  /\ Step(c, "idle", "limit")
  /\ UNCHANGED <<state, elapsed, counters, seen, resetting>>

\* Mutant: the comparison with the timeout is the wrong way round.
CheckTimeout_Backwards(c) ==
  /\ Step(c, "timeout", IF elapsed < Timeout THEN "probe" ELSE "idle")
  /\ UNCHANGED <<state, elapsed, counters, seen, resetting>>

CheckTimeout(c) ==
  /\ Step(c, "timeout", IF elapsed > Timeout THEN "probe" ELSE "idle")
  /\ UNCHANGED <<state, elapsed, counters, seen, resetting>>

\* The request goes ahead whether or not this caller won the swap.
Probe(c) ==
  /\ Step(c, "probe", "calling")
  /\ Swap("open", "half-open")
  /\ UNCHANGED <<elapsed, counters, seen, resetting>>

CheckLimit(c) ==
  /\ Step(c, "limit", IF total < MaxRequests THEN "calling" ELSE "idle")
  /\ UNCHANGED <<state, elapsed, counters, seen, resetting>>

-----------------------------------------------------------------------------
(* recordFailure and checkShouldOpen *)

RequestFails(c) ==
  /\ Step(c, "calling", "failTotal")
  /\ failures' = failures + 1
  /\ UNCHANGED <<state, elapsed, successes, total, seen, resetting>>

CountFailure(c) ==
  /\ Step(c, "failTotal", "failTime")
  /\ total' = total + 1
  /\ UNCHANGED <<state, elapsed, failures, successes, seen, resetting>>

StampFailure(c) ==
  /\ Step(c, "failTime", "checkState")
  /\ elapsed' = 0
  /\ UNCHANGED <<state, counters, seen, resetting>>

CheckState(c) ==
  /\ Step(c, "checkState", IF state = "closed" THEN "loadFailures" ELSE "idle")
  /\ UNCHANGED <<state, elapsed, counters, seen, resetting>>

LoadFailures(c) ==
  /\ Step(c, "loadFailures", "loadTotal")
  /\ seen' = [seen EXCEPT ![c] = failures]
  /\ UNCHANGED <<state, elapsed, counters, resetting>>

ShouldOpen(failed, all) ==
  \/ failed >= FailureThreshold
  \/ all >= MinRequests /\ failed * RateDen >= RateNum * all

LoadTotal(c) ==
  /\ Step(c, "loadTotal", IF ShouldOpen(seen[c], total) THEN "trip" ELSE "idle")
  /\ seen' = [seen EXCEPT ![c] = 0]
  /\ UNCHANGED <<state, elapsed, counters, resetting>>

Trip(c) ==
  /\ Step(c, "trip", "idle")
  /\ Swap("closed", "open")
  /\ UNCHANGED <<elapsed, counters, seen, resetting>>

-----------------------------------------------------------------------------
(* recordSuccess *)

RequestSucceeds(c) ==
  /\ Step(c, "calling", "succTotal")
  /\ successes' = successes + 1
  /\ UNCHANGED <<state, elapsed, failures, total, seen, resetting>>

CountSuccess(c) ==
  /\ Step(c, "succTotal", "succState")
  /\ total' = total + 1
  /\ UNCHANGED <<state, elapsed, failures, successes, seen, resetting>>

LoadState(c) ==
  /\ Step(c, "succState", IF state = "half-open" THEN "loadSuccesses" ELSE "idle")
  /\ UNCHANGED <<state, elapsed, counters, seen, resetting>>

LoadSuccesses(c) ==
  /\ Step(c, "loadSuccesses", IF successes >= SuccessThreshold THEN "close" ELSE "idle")
  /\ UNCHANGED <<state, elapsed, counters, seen, resetting>>

\* Mutant: closing the circuit forgets to clear the failure counter.
Close_KeepsFailures(c) ==
  /\ Step(c, "close", IF state = "half-open" THEN "clearSuccesses" ELSE "idle")
  /\ Swap("half-open", "closed")
  /\ UNCHANGED <<elapsed, counters, seen, resetting>>

\* Only the caller that wins the swap clears the counters.
Close(c) ==
  /\ Step(c, "close", IF state = "half-open" THEN "clearFailures" ELSE "idle")
  /\ Swap("half-open", "closed")
  /\ UNCHANGED <<elapsed, counters, seen, resetting>>

ClearFailures(c) ==
  /\ Step(c, "clearFailures", "clearSuccesses")
  /\ failures' = 0
  /\ UNCHANGED <<state, elapsed, successes, total, seen, resetting>>

\* Mutant: the successes that closed the circuit are subtracted, not cleared.
ClearSuccesses_Subtracts(c) ==
  /\ Step(c, "clearSuccesses", "clearTotal")
  /\ successes' = successes - SuccessThreshold
  /\ UNCHANGED <<state, elapsed, failures, total, seen, resetting>>

ClearSuccesses(c) ==
  /\ Step(c, "clearSuccesses", "clearTotal")
  /\ successes' = 0
  /\ UNCHANGED <<state, elapsed, failures, total, seen, resetting>>

ClearTotal(c) ==
  /\ Step(c, "clearTotal", "idle")
  /\ total' = 0
  /\ UNCHANGED <<state, elapsed, failures, successes, seen, resetting>>

-----------------------------------------------------------------------------
(* Reset: five stores. *)

ResetState ==
  /\ resetting = "idle" /\ resetting' = "failures"
  /\ state' = "closed"
  /\ UNCHANGED <<elapsed, counters, pc, seen>>

ResetFailures ==
  /\ resetting = "failures" /\ resetting' = "successes"
  /\ failures' = 0
  /\ UNCHANGED <<state, elapsed, successes, total, pc, seen>>

ResetSuccesses ==
  /\ resetting = "successes" /\ resetting' = "total"
  /\ successes' = 0
  /\ UNCHANGED <<state, elapsed, failures, total, pc, seen>>

ResetTotal ==
  /\ resetting = "total" /\ resetting' = "time"
  /\ total' = 0
  /\ UNCHANGED <<state, elapsed, failures, successes, pc, seen>>

ResetTime ==
  /\ resetting = "time" /\ resetting' = "idle"
  /\ elapsed' = Longer
  /\ UNCHANGED <<state, counters, pc, seen>>

-----------------------------------------------------------------------------
(* Time passes. *)

Tick ==
  /\ elapsed < Longer
  /\ elapsed' = elapsed + 1
  /\ UNCHANGED <<state, counters, pc, seen, resetting>>

-----------------------------------------------------------------------------
Execute(c) == EnterClosed(c) \/ EnterOpen(c) \/ EnterHalfOpen(c)

Continue(c) ==
  \/ CheckTimeout(c) \/ Probe(c) \/ CheckLimit(c)
  \/ RequestFails(c) \/ CountFailure(c) \/ StampFailure(c)
  \/ CheckState(c) \/ LoadFailures(c) \/ LoadTotal(c) \/ Trip(c)
  \/ RequestSucceeds(c) \/ CountSuccess(c) \/ LoadState(c) \/ LoadSuccesses(c)
  \/ Close(c) \/ ClearFailures(c) \/ ClearSuccesses(c) \/ ClearTotal(c)

Reset == ResetState \/ ResetFailures \/ ResetSuccesses \/ ResetTotal \/ ResetTime

Next == (\E c \in Callers : Execute(c) \/ Continue(c)) \/ Reset \/ Tick

Spec == Init /\ [][Next]_vars

\* Time passes, the scheduler runs every goroutine, the client's HTTP timeout
\* ends every request, and DNC checks keep coming.  Nobody has to call Reset.
Fairness ==
  /\ \A c \in Callers : WF_vars(Continue(c)) /\ WF_vars(Execute(c))
  /\ WF_vars(Tick)

FairSpec == Spec /\ Fairness

\* Operation without an operator: Reset is never called.
UnattendedSpec == Init /\ [][Next /\ ~Reset]_vars /\ Fairness

-----------------------------------------------------------------------------
(* Properties *)

CallerPc ==
  {"idle", "timeout", "probe", "limit", "calling",
   "failTotal", "failTime", "checkState", "loadFailures", "loadTotal", "trip",
   "succTotal", "succState", "loadSuccesses", "close",
   "clearFailures", "clearSuccesses", "clearTotal"}

\* The circuit is in one of its three states and no counter is ever negative,
\* however the adds of callers interleave with the stores that clear them.
TypeOK ==
  /\ state \in {"closed", "open", "half-open"}
  /\ elapsed \in 0 .. Longer
  /\ failures \in Nat /\ successes \in Nat /\ total \in Nat
  /\ pc \in [Callers -> CallerPc]
  /\ seen \in [Callers -> Nat]
  /\ resetting \in {"idle", "failures", "successes", "total", "time"}

\* A goroutine that will open the circuit, or clear its failures, if it runs on.
WillTripOrClear(c) ==
  \/ pc[c] \in {"failTotal", "failTime", "checkState", "loadFailures", "trip", "clearFailures"}
  \/ pc[c] = "loadTotal" /\ seen[c] >= FailureThreshold

\* No trip is missed: a closed circuit whose failure counter has reached the
\* threshold has a goroutine on its way to open it, or to clear the counter.
\* So a closed circuit in which nothing is being recorded is below the threshold.
NoMissedTrip ==
  state = "closed" /\ failures >= FailureThreshold =>
    resetting = "failures" \/ \E c \in Callers : WillTripOrClear(c)

\* An open circuit does not stay open: once Timeout has passed since the last
\* failure, a check is let through and the circuit is half-open.
OpenEnds == state = "open" ~> state # "open"

\* The circuit recovers with its provider: when requests no longer fail, after
\* "how long to wait before attempting half-open" come the "successes to close
\* circuit from half-open".
ClosesAfterRecovery ==
  <>[][\A c \in Callers : ~RequestFails(c)]_vars => []<>(state = "closed")
=============================================================================
