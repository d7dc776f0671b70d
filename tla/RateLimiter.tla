---------------------------- MODULE RateLimiter ----------------------------
(***************************************************************************)
(* RateLimitMiddleware: one fixed-window counter per API key or client     *)
(* address, kept in the memory of the API process.                         *)
(*                                                                         *)
(* The middleware reads and writes its counter without an await, so a      *)
(* request is one step.  It measures windows with time(), the wall clock,  *)
(* which an operator or NTP may set; the clients live by real time.  Both  *)
(* clocks count ticks, TicksPerSecond of them to a second, because time()  *)
(* has fractions and Retry-After has none.                                 *)
(*                                                                         *)
(* Bounds: MaxTicks of real time, MaxRequests per key, MaxClockSteps       *)
(* changes of the wall clock, MaxRestarts of the process.                  *)
(***************************************************************************)
EXTENDS Integers, Sequences

CONSTANTS
    Keys,            \* what _resolve_key returns: key:<hash>, ip:<host> or ip:unknown
    Limit,           \* rate_limit_requests_per_minute
    WindowSeconds,   \* RateLimitMiddleware.WINDOW_SECONDS
    TicksPerSecond,
    MaxTicks,
    MaxRequests,
    MaxClockSteps,
    MaxRestarts

ASSUME RateAssumption ==
    /\ Limit \in Nat
    /\ WindowSeconds \in Nat \ {0}
    /\ TicksPerSecond \in Nat \ {0}
    /\ MaxTicks \in Nat
    /\ MaxRequests \in Nat
    /\ MaxClockSteps \in Nat
    /\ MaxRestarts \in Nat

Window == WindowSeconds * TicksPerSecond

VARIABLES
    now,         \* time()
    elapsed,     \* real time
    start,       \* window_start of a key's counter
    count,       \* its count, 0 while the key has no counter
    passed,      \* history: when the requests of a key were passed on
    promise,     \* history: what a client that obeys Retry-After was told
    clockSteps,
    restarts

clocks == <<now, elapsed, clockSteps>>
counters == <<start, count>>
history == <<passed, promise>>
rateVars == <<now, elapsed, start, count, passed, promise, clockSteps, restarts>>

\* refusals counts the 429s of a client that sends its next request when the wait it
\* was told is over; until is when that is.
NoPromise == [until |-> 0, refusals |-> 0]

-----------------------------------------------------------------------------
\* Mutant of RetryAfter: the truncated wait may be zero.
RetryAfterUnclamped(age) == (Window - age) \div TicksPerSecond

\* max(1, int(WINDOW_SECONDS - (now - window_start))): int truncates.
RetryAfter(age) ==
    LET seconds == (Window - age) \div TicksPerSecond
    IN  IF seconds < 1 THEN 1 ELSE seconds

\* A key without a counter starts a window, and so does one whose window is over.
WindowOver(k) == count[k] = 0 \/ now - start[k] >= Window

Pass(k) ==
    /\ passed' = [passed EXCEPT ![k] = Append(@, elapsed)]
    /\ promise' = [promise EXCEPT ![k] = NoPromise]

Refuse(k, age) ==
    /\ promise' = IF elapsed < promise[k].until
                  THEN promise
                  ELSE [promise EXCEPT
                          ![k] = [until |-> elapsed + RetryAfter(age) * TicksPerSecond,
                                  refusals |-> promise[k].refusals + 1]]
    /\ UNCHANGED passed

\* Mutant of Request: the refusal is decided before the count is taken.
RequestOffByOne(k) ==
    LET over == WindowOver(k)
        s == IF over THEN now ELSE start[k]
        c == IF over THEN 0 ELSE count[k]
    IN  /\ c < MaxRequests
        /\ start' = [start EXCEPT ![k] = s]
        /\ count' = [count EXCEPT ![k] = c + 1]
        /\ IF c > Limit THEN Refuse(k, now - s) ELSE Pass(k)
        /\ UNCHANGED <<clocks, restarts>>

\* A request on a path that is not exempt.  A refused one is counted as well.
Request(k) ==
    LET over == WindowOver(k)
        s == IF over THEN now ELSE start[k]
        c == IF over THEN 1 ELSE count[k] + 1
    IN  /\ c <= MaxRequests
        /\ start' = [start EXCEPT ![k] = s]
        /\ count' = [count EXCEPT ![k] = c]
        /\ IF c > Limit THEN Refuse(k, now - s) ELSE Pass(k)
        /\ UNCHANGED <<clocks, restarts>>

Tick ==
    /\ elapsed < MaxTicks
    /\ elapsed' = elapsed + 1
    /\ now' = now + 1
    /\ UNCHANGED <<counters, history, clockSteps, restarts>>

\* The wall clock is set, forward or back.
ClockStep ==
    /\ clockSteps < MaxClockSteps
    /\ clockSteps' = clockSteps + 1
    /\ now' \in 0 .. MaxTicks
    /\ UNCHANGED <<elapsed, counters, history, restarts>>

\* The process is restarted: the counters were only in memory.
Restart ==
    /\ restarts < MaxRestarts
    /\ restarts' = restarts + 1
    /\ start' = [k \in Keys |-> 0]
    /\ count' = [k \in Keys |-> 0]
    /\ UNCHANGED <<clocks, history>>

RateInit ==
    /\ now = 0
    /\ elapsed = 0
    /\ start = [k \in Keys |-> 0]
    /\ count = [k \in Keys |-> 0]
    /\ passed = [k \in Keys |-> <<>>]
    /\ promise = [k \in Keys |-> NoPromise]
    /\ clockSteps = 0
    /\ restarts = 0

RateNext == (\E k \in Keys : Request(k)) \/ Tick \/ ClockStep \/ Restart

RateSpec == RateInit /\ [][RateNext]_rateVars

-----------------------------------------------------------------------------
(* Properties                                                              *)

RateTypeOK ==
    /\ now \in Nat
    /\ elapsed \in Nat
    /\ start \in [Keys -> Nat]
    /\ count \in [Keys -> Nat]
    /\ passed \in [Keys -> Seq(Nat)]
    /\ promise \in [Keys -> [until : Nat, refusals : Nat]]
    /\ clockSteps \in 0 .. MaxClockSteps
    /\ restarts \in 0 .. MaxRestarts

\* The requests i .. i + n of a key were not all passed on within one window.
Spread(log, i, n) == log[i + n] - log[i] >= Window

\* Within less than a window of real time, fewer requests of one key than twice the limit are
\* passed on, and once the limit more for each time the counters were lost or the clock was set:
\* the window is fixed, not rolling, so all but the first request of one window may be followed
\* at once by all of the next.
BurstBound ==
    \A k \in Keys :
        LET most == Limit * (2 + restarts + clockSteps)
        IN  Limit > 0 =>
                \A i \in 1 .. Len(passed[k]) + 1 - most : Spread(passed[k], i, most - 1)

\* The client that waits out each Retry-After is refused at most twice in a row (the
\* first wait is truncated to whole seconds), and twice more for each change of the
\* clock: no refusal tells a client to come back while its window is still open, twice.
RetryAfterHonest ==
    \A k \in Keys : promise[k].refusals <= 2 * (1 + clockSteps)

\* "Requests per rolling 60-second window", as README.md has it: at most Limit requests
\* of a key are passed on in any stretch of time as long as a window.
RollingWindow ==
    \A k \in Keys :
        \A i \in 1 .. Len(passed[k]) - Limit : Spread(passed[k], i, Limit)
=============================================================================
