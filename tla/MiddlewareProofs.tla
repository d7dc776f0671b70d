-------------------------- MODULE MiddlewareProofs --------------------------
(***************************************************************************)
(* What holds of the middlewares: of the fixed window of RateLimiter for   *)
(* every limit and window length, and of HttpStack for every body limit,   *)
(* bound and set of statuses.  BurstBound is not inductive: LimiterInv     *)
(* relates the requests passed on to the counter, also to one that the     *)
(* clock or a restart has disturbed.                                       *)
(***************************************************************************)
EXTENDS RateLimiter, HttpStack, TLAPS

-----------------------------------------------------------------------------
(* The rate limiter.                                                       *)

\* How often the counters were lost or the clock was set.
Lost == restarts + clockSteps

\* What may be passed on after d disturbances beside the first request of a window.
Spend(d) == Limit * (1 + d) - 1

\* The account of a key's counter, in numbers: the window is W long and lets L requests
\* pass, t is the real time, and log has the len times at which requests were passed on.
\* The counter stands at n and its window is age old by the wall clock.  That window was
\* opened at the real time o, and c requests of it were passed on: what is older than them
\* was passed on by o, as the first of them was, and what is older by another a, at least a
\* window before o.
\* While d = lost, nothing has disturbed the counter since, and a is all there is to spend,
\* b; else there is at least L more.  Both leave out the first request of a window.
AccountOf(W, L, t, d, lost, a, b, n, age, log, len, o, c) ==
    /\ d <= lost /\ o <= t /\ c <= L /\ L <= b + 1
    /\ d = lost => a = b
    /\ d # lost => a + L <= b
    /\ n # 0 => c = IF n < L THEN n ELSE L
    /\ n # 0 /\ d = lost => age = t - o
    /\ n = 0 => d # lost \/ len = 0
    /\ \A i \in 1 .. len - c + 1 : i <= len => log[i] <= o
    /\ \A i \in 1 .. len - c - a : o - log[i] >= W

\* The log is in the order of time, and two of its times b + L requests apart are at least
\* a window apart.
OrderOf(W, L, t, b, log, len) ==
    /\ \A i \in 1 .. len : log[i] <= t
    /\ \A i, j \in 1 .. len : i < j => log[i] <= log[j]
    /\ \A i \in 1 .. len - (b + L) : log[i + (b + L)] - log[i] >= W

\* The account of a key whose window was opened at o, after d disturbances.
Accounted(k, d, o, c) ==
    AccountOf(Window, Limit, elapsed, d, Lost, Spend(d), Spend(Lost),
              count[k], now - start[k], passed[k], Len(passed[k]), o, c)

InOrder(k) ==
    OrderOf(Window, Limit, elapsed, Spend(Lost), passed[k], Len(passed[k]))

LimiterInv ==
    /\ RateTypeOK
    /\ Limit > 0 => \A k \in Keys :
          /\ InOrder(k)
          /\ \E d \in 0 .. Lost, o \in 0 .. elapsed, c \in 0 .. Limit : Accounted(k, d, o, c)

\* A window is a positive number of ticks.
LEMMA WindowNat == Window \in Nat /\ Window > 0
  BY RateAssumption DEF Window

\* Nothing is counted at the start.
LEMMA InitTyped == RateInit => RateTypeOK
  BY RateAssumption DEF RateInit, RateTypeOK, NoPromise

\* Products of natural numbers, for the arithmetic below.
LEMMA TimesNat == ASSUME NEW a \in Nat, NEW b \in Nat PROVE a * b \in Nat
  OBVIOUS

\* A wait is a natural number of ticks.
LEMMA RetryAfterNat ==
  ASSUME NEW age \in Int
  PROVE  RetryAfter(age) \in Nat /\ RetryAfter(age) * TicksPerSecond \in Nat
<1>1. (Window - age) \div TicksPerSecond \in Int
  BY WindowNat, RateAssumption
<1>2. RetryAfter(age) \in Nat
  BY <1>1 DEF RetryAfter
<1> QED
  BY <1>2, TimesNat, RateAssumption

\* Types are kept by every step.
LEMMA NextTyped == RateTypeOK /\ [RateNext]_rateVars => RateTypeOK'
<1> SUFFICES ASSUME RateTypeOK, [RateNext]_rateVars PROVE RateTypeOK'
  OBVIOUS
<1> USE DEF RateTypeOK
<1>1. ASSUME NEW k \in Keys, Request(k) PROVE RateTypeOK'
  <2> DEFINE over == WindowOver(k)
             s == IF over THEN now ELSE start[k]
             c == IF over THEN 1 ELSE count[k] + 1
  <2>1. s \in Nat /\ c \in Nat
    <3>1. start[k] \in Nat /\ count[k] \in Nat
      OBVIOUS
    <3> QED
      BY <3>1
  <2>2. /\ start' = [start EXCEPT ![k] = s]
        /\ count' = [count EXCEPT ![k] = c]
        /\ Pass(k) \/ Refuse(k, now - s)
        /\ UNCHANGED <<clocks, restarts>>
    BY <1>1 DEF Request
  <2> HIDE DEF over, s, c
  <2>3. start' \in [Keys -> Nat] /\ count' \in [Keys -> Nat]
    BY <2>1, <2>2
  <2>4. passed' \in [Keys -> Seq(Nat)]
    <3>1. Append(passed[k], elapsed) \in Seq(Nat)
      <4>1. passed[k] \in Seq(Nat) /\ elapsed \in Nat
        OBVIOUS
      <4> QED
        BY <4>1
    <3>2. passed' = passed \/ passed' = [passed EXCEPT ![k] = Append(passed[k], elapsed)]
      BY <2>2, Zenon DEF Pass, Refuse
    <3> QED
      BY <3>1, <3>2
  <2>5. promise' \in [Keys -> [until : Nat, refusals : Nat]]
    <3>1. CASE Pass(k)
      BY <3>1 DEF Pass, NoPromise
    <3>2. CASE Refuse(k, now - s)
      <4>1. now - s \in Int
        BY <2>1
      <4> DEFINE wait == RetryAfter(now - s) * TicksPerSecond
      <4>2. wait \in Nat
        BY <4>1, RetryAfterNat
      <4>3. promise' = IF elapsed < promise[k].until
                       THEN promise
                       ELSE [promise EXCEPT
                               ![k] = [until |-> elapsed + wait,
                                       refusals |-> promise[k].refusals + 1]]
        BY <3>2 DEF Refuse
      <4> HIDE DEF wait
      <4>4. promise[k].refusals + 1 \in Nat /\ elapsed + wait \in Nat
        BY <4>2
      <4> QED
        BY <4>3, <4>4
    <3> QED
      BY <2>2, <3>1, <3>2
  <2> QED
    BY <2>2, <2>3, <2>4, <2>5 DEF clocks
<1>2. CASE Tick
  BY <1>2 DEF Tick, counters, history
<1>3. CASE ClockStep
  BY <1>3, RateAssumption DEF ClockStep, counters, history
<1>4. CASE Restart
  BY <1>4, RateAssumption DEF Restart, clocks, history
<1>5. CASE UNCHANGED rateVars
  BY <1>5 DEF rateVars
<1> QED
  BY <1>1, <1>2, <1>3, <1>4, <1>5 DEF RateNext

\* The state of RateLimitMiddleware keeps its types, whatever the limit, the window and
\* the disturbances.
THEOREM LimiterTypes == RateSpec => []RateTypeOK
  BY InitTyped, NextTyped, PTL DEF RateSpec

\* What there is to spend, and what a disturbance adds to it.
LEMMA SpendFacts ==
  ASSUME Limit > 0, NEW d \in Nat
  PROVE  /\ Spend(d) \in Nat
         /\ Limit <= Spend(d) + 1
         /\ Spend(d + 1) = Spend(d) + Limit
         /\ Spend(d) + Limit = Limit * (2 + d) - 1
<1>1. Limit \in Nat
  BY RateAssumption
<1>2. Limit * d \in Nat
  BY <1>1, TimesNat
<1>3. /\ Limit * (1 + d) = Limit + Limit * d
      /\ Limit * (1 + (d + 1)) = Limit + Limit * d + Limit
      /\ Limit * (2 + d) = Limit + Limit * d + Limit
  BY <1>1
<1> QED
  BY <1>1, <1>2, <1>3 DEF Spend

\* Nothing has passed.
LEMMA InitAccounted == RateInit => LimiterInv
<1> SUFFICES ASSUME RateInit PROVE LimiterInv
  OBVIOUS
<1>1. Lost = 0 /\ elapsed = 0 /\ Limit \in Nat /\ Spend(0) = Limit - 1
  BY RateAssumption DEF RateInit, Lost, Spend
<1>2. ASSUME Limit > 0, NEW k \in Keys PROVE InOrder(k) /\ Accounted(k, 0, 0, 0)
  <2>1. passed[k] = <<>> /\ Len(passed[k]) = 0 /\ count[k] = 0
    BY DEF RateInit
  <2> QED
    BY <1>1, <1>2, <2>1 DEF Accounted, AccountOf, InOrder, OrderOf
<1>3. 0 \in 0 .. Lost /\ 0 \in 0 .. elapsed /\ 0 \in 0 .. Limit
  BY <1>1
<1> QED
  BY <1>2, <1>3, InitTyped DEF LimiterInv

\* The log after one request, passed on if n2 is within the limit.
LoggedOf(L, t, n2, log, len, log2, len2) ==
    /\ \A i \in 1 .. len : log[i] \in Nat /\ log2[i] = log[i]
    /\ \/ n2 > L /\ len2 = len
       \/ n2 <= L /\ len2 = len + 1 /\ log2[len + 1] = t

\* If the request was passed on, the log before its last b + c2 times is a window old.
RoomOf(W, t, b, len, log2, len2, c2) ==
    len2 # len => \A i \in 1 .. len2 - c2 - b : t - log2[i] >= W

\* A request opens a window, or goes on with the open one.
OpensOf(W, L, n, age, n2, age2, c2) ==
    /\ n = 0 \/ age >= W
    /\ n2 = 1 /\ age2 = 0 /\ c2 = IF n2 < L THEN n2 ELSE L

GoesOnOf(L, n, age, n2, age2, c2) ==
    n # 0 /\ n2 = n + 1 /\ age2 = age /\ c2 = IF n2 < L THEN n2 ELSE L

\* A request that opens a window: undisturbed, the window before it is a window old; else
\* there is a multiple of the limit more to spend.
LEMMA WindowOpens ==
  ASSUME NEW W \in Nat, NEW L \in Nat, NEW t \in Nat, NEW d \in Nat, NEW lost \in Nat,
         NEW a \in Nat, NEW b \in Nat, NEW n \in Nat, NEW age \in Int, NEW log, NEW len \in Nat,
         NEW o \in Nat, NEW c \in Nat, NEW n2 \in Nat, NEW age2 \in Int,
         NEW log2, NEW len2 \in Nat, NEW c2 \in Nat,
         AccountOf(W, L, t, d, lost, a, b, n, age, log, len, o, c),
         OrderOf(W, L, t, b, log, len),
         OpensOf(W, L, n, age, n2, age2, c2),
         LoggedOf(L, t, n2, log, len, log2, len2)
  PROVE  /\ AccountOf(W, L, t, lost, lost, b, b, n2, age2, log2, len2, t, c2)
         /\ RoomOf(W, t, b, len, log2, len2, c2)
<1>1. len2 - c2 = len /\ c2 <= L
  BY DEF LoggedOf, OpensOf
<1>2. /\ \A i \in 1 .. len : log2[i] = log[i] /\ log[i] \in Nat /\ log[i] <= t
      /\ \A i \in 1 .. len2 : log2[i] <= t
  BY DEF LoggedOf, OrderOf
<1>3. ASSUME NEW i \in 1 .. len - b PROVE t - log[i] >= W
  <2>1. CASE d = lost
    <3>1. n # 0 /\ a = b
      BY <2>1 DEF AccountOf, OpensOf
    <3>2. age = t - o /\ age >= W
      BY <2>1, <3>1 DEF AccountOf, OpensOf
    <3>3. i \in 1 .. len - c + 1 /\ i <= len
      BY <1>1 DEF AccountOf, GoesOnOf
    <3>4. log[i] <= o
      BY <3>3 DEF AccountOf
    <3> QED
      BY <1>2, <3>2, <3>4
  <2>2. CASE d # lost
    <3>1. i \in 1 .. len - c - a
      BY <2>2 DEF AccountOf
    <3>2. o - log[i] >= W /\ o <= t
      BY <3>1 DEF AccountOf
    <3>3. log[i] \in Nat
      BY <1>2, <3>1
    <3> QED
      BY <3>2, <3>3
  <2> QED
    BY <2>1, <2>2
<1>4. \A i \in 1 .. len2 - c2 - b : t - log2[i] >= W
  BY <1>1, <1>2, <1>3
<1>5. L <= b + 1
  BY DEF AccountOf
<1> QED
  BY <1>1, <1>2, <1>4, <1>5 DEF AccountOf, OpensOf, RoomOf

\* A request in the open window.
LEMMA WindowGoesOn ==
  ASSUME NEW W \in Nat, NEW L \in Nat, L > 0, NEW t \in Nat, NEW d \in Nat, NEW lost \in Nat,
         NEW a \in Nat, NEW b \in Nat, NEW n \in Nat, NEW age \in Int, NEW log, NEW len \in Nat,
         NEW o \in Nat, NEW c \in Nat, NEW n2 \in Nat, NEW age2 \in Int,
         NEW log2, NEW len2 \in Nat, NEW c2 \in Nat,
         AccountOf(W, L, t, d, lost, a, b, n, age, log, len, o, c),
         GoesOnOf(L, n, age, n2, age2, c2),
         LoggedOf(L, t, n2, log, len, log2, len2)
  PROVE  /\ AccountOf(W, L, t, d, lost, a, b, n2, age2, log2, len2, o, c2)
         /\ RoomOf(W, t, b, len, log2, len2, c2)
<1>1. len2 - c2 = len - c /\ c2 <= L
  BY DEF LoggedOf, AccountOf, GoesOnOf
<1>2. \A i \in 1 .. len : log2[i] = log[i] /\ log[i] \in Nat
  BY DEF LoggedOf
<1>3. ASSUME NEW i \in 1 .. len2 - c2 + 1, i <= len2 PROVE log2[i] <= o
  <2>1. i \in 1 .. len - c + 1 /\ c > 0
    BY <1>1 DEF AccountOf, GoesOnOf
  <2>2. i \in 1 .. len /\ log[i] <= o
    BY <2>1 DEF AccountOf
  <2> QED
    BY <1>2, <2>2
<1>4. ASSUME NEW i \in 1 .. len - c - a PROVE o - log2[i] >= W
  <2>1. i \in 1 .. len /\ o - log[i] >= W
    BY DEF AccountOf
  <2> QED
    BY <1>2, <2>1
<1>5. o <= t /\ a <= b
  BY DEF AccountOf
<1>6. ASSUME NEW i \in 1 .. len - c - b PROVE t - log2[i] >= W
  <2>1. i \in 1 .. len - c - a /\ i \in 1 .. len
    BY <1>5
  <2>2. o - log2[i] >= W /\ log2[i] \in Nat
    BY <1>2, <1>4, <2>1
  <2> QED
    BY <1>5, <2>2
<1>7. AccountOf(W, L, t, d, lost, a, b, n2, age2, log2, len2, o, c2)
  <2>1. /\ o <= t /\ c2 <= L /\ L <= b + 1
        /\ d <= lost
        /\ d = lost => a = b
        /\ d # lost => a + L <= b
        /\ d = lost => age2 = t - o
    BY <1>1 DEF AccountOf, GoesOnOf
  <2>2. /\ \A i \in 1 .. len2 - c2 + 1 : i <= len2 => log2[i] <= o
        /\ \A i \in 1 .. len2 - c2 - a : o - log2[i] >= W
    BY <1>1, <1>3, <1>4
  <2> QED
    BY <2>1, <2>2 DEF AccountOf, GoesOnOf
<1> QED
  BY <1>1, <1>6, <1>7 DEF RoomOf

\* The log stays in order, and no more of it than BurstBound says falls within a window.
LEMMA OrderKept ==
  ASSUME NEW W \in Nat, NEW L \in Nat, NEW t \in Nat, NEW b \in Nat, NEW n2 \in Nat,
         NEW log, NEW len \in Nat, NEW log2, NEW len2 \in Nat, NEW c2 \in Nat,
         OrderOf(W, L, t, b, log, len),
         LoggedOf(L, t, n2, log, len, log2, len2),
         c2 <= L,
         RoomOf(W, t, b, len, log2, len2, c2)
  PROVE  OrderOf(W, L, t, b, log2, len2)
<1>1. \A i \in 1 .. len : log2[i] = log[i] /\ log[i] \in Nat /\ log[i] <= t
  BY DEF LoggedOf, OrderOf
<1>2. len2 = len \/ (len2 = len + 1 /\ log2[len + 1] = t)
  BY DEF LoggedOf
<1>3. \A i \in 1 .. len2 : i \in 1 .. len \/ (i = len2 /\ len2 = len + 1 /\ log2[i] = t)
  BY <1>2
<1>4. \A i \in 1 .. len2 : log2[i] <= t
  BY <1>1, <1>3
<1>5. ASSUME NEW i \in 1 .. len2, NEW j \in 1 .. len2, i < j PROVE log2[i] <= log2[j]
  <2>1. CASE j \in 1 .. len
    <3>1. i \in 1 .. len
      BY <1>5, <2>1
    <3>2. log[i] <= log[j]
      BY <1>5, <2>1, <3>1 DEF OrderOf
    <3> QED
      BY <1>1, <2>1, <3>1, <3>2
  <2>2. CASE log2[j] = t
    BY <1>4, <2>2
  <2> QED
    BY <1>3, <2>1, <2>2
<1>6. ASSUME NEW i \in 1 .. len2 - (b + L) PROVE log2[i + (b + L)] - log2[i] >= W
  <2>1. i \in 1 .. len2 /\ i + (b + L) \in 1 .. len2
    OBVIOUS
  <2>2. CASE i + (b + L) \in 1 .. len
    <3>1. i \in 1 .. len /\ i \in 1 .. len - (b + L)
      BY <2>2
    <3>2. log[i + (b + L)] - log[i] >= W
      BY <3>1 DEF OrderOf
    <3> QED
      BY <1>1, <2>2, <3>1, <3>2
  <2>3. CASE i + (b + L) = len2 /\ len2 = len + 1 /\ log2[i + (b + L)] = t
    <3>1. i \in 1 .. len2 - c2 - b
      BY <2>3
    <3> QED
      BY <2>3, <3>1 DEF RoomOf
  <2> QED
    BY <1>3, <2>1, <2>2, <2>3
<1> QED
  BY <1>4, <1>5, <1>6 DEF OrderOf

\* Real time passes, and the wall clock with it.
LEMMA TimePasses ==
  ASSUME NEW W \in Nat, NEW L \in Nat, NEW t \in Nat, NEW d \in Nat, NEW lost \in Nat,
         NEW a \in Nat, NEW b \in Nat, NEW n \in Nat, NEW age \in Int, NEW log, NEW len \in Nat,
         NEW o \in Nat, NEW c \in Nat,
         \A i \in 1 .. len : log[i] \in Nat,
         AccountOf(W, L, t, d, lost, a, b, n, age, log, len, o, c),
         OrderOf(W, L, t, b, log, len)
  PROVE  /\ AccountOf(W, L, t + 1, d, lost, a, b, n, age + 1, log, len, o, c)
         /\ OrderOf(W, L, t + 1, b, log, len)
<1>1. /\ o <= t + 1 /\ c <= L /\ L <= b + 1
      /\ n # 0 /\ d = lost => age + 1 = (t + 1) - o
  BY DEF AccountOf
<1>2. \A i \in 1 .. len : log[i] <= t + 1
  BY DEF OrderOf
<1> QED
  BY <1>1, <1>2 DEF AccountOf, OrderOf

\* A disturbance: whatever the counter shows now, there is once the limit more to spend.
DisturbedOf(L, lost, b, n, lost2, b2, n2) ==
    lost2 = lost + 1 /\ b2 = b + L /\ n2 \in {0, n}

\* The account outlives a disturbance.
LEMMA Disturbed ==
  ASSUME NEW W \in Nat, NEW L \in Nat, NEW t \in Nat, NEW d \in Nat, NEW lost \in Nat,
         NEW a \in Nat, NEW b \in Nat, NEW n \in Nat, NEW age \in Int, NEW log, NEW len \in Nat,
         NEW o \in Nat, NEW c \in Nat, NEW lost2 \in Nat, NEW b2 \in Nat,
         NEW n2 \in Nat, NEW age2 \in Int,
         \A i \in 1 .. len : log[i] \in Nat,
         AccountOf(W, L, t, d, lost, a, b, n, age, log, len, o, c),
         OrderOf(W, L, t, b, log, len),
         DisturbedOf(L, lost, b, n, lost2, b2, n2)
  PROVE  /\ AccountOf(W, L, t, d, lost2, a, b2, n2, age2, log, len, o, c)
         /\ OrderOf(W, L, t, b2, log, len)
<1>1. d < lost2 /\ o <= t /\ c <= L /\ L <= b2 + 1 /\ a + L <= b2
  BY DEF AccountOf, DisturbedOf
<1>2. ASSUME NEW i \in 1 .. len - (b2 + L) PROVE log[i + (b2 + L)] - log[i] >= W
  <2> DEFINE j == i + (b + L)
             m == i + (b2 + L)
  <2>1. i \in 1 .. len /\ j \in 1 .. len /\ m \in 1 .. len /\ (j < m \/ j = m)
    BY DEF DisturbedOf
  <2>2. i \in 1 .. len - (b + L)
    BY DEF DisturbedOf
  <2>3. log[j] - log[i] >= W
    BY <2>2 DEF OrderOf
  <2> HIDE DEF j, m
  <2>4. log[j] <= log[m]
    BY <2>1 DEF OrderOf
  <2>5. log[m] - log[i] >= W
    BY <2>1, <2>3, <2>4
  <2> QED
    BY <2>5 DEF m
<1>3. OrderOf(W, L, t, b2, log, len)
  BY <1>2 DEF OrderOf
<1> QED
  BY <1>1, <1>3 DEF AccountOf, DisturbedOf

\* What a request does to its key's counter and log.
LEMMA RequestLogged ==
  ASSUME RateTypeOK, RateTypeOK', NEW k \in Keys, Request(k)
  PROVE  /\ start'[k] = IF WindowOver(k) THEN now ELSE start[k]
         /\ count'[k] = IF WindowOver(k) THEN 1 ELSE count[k] + 1
         /\ LoggedOf(Limit, elapsed, count'[k], passed[k], Len(passed[k]),
                     passed'[k], Len(passed'[k]))
<1> DEFINE log == passed[k]
           log2 == passed'[k]
           len == Len(log)
           len2 == Len(log2)
<1>1. /\ elapsed \in Nat /\ Limit \in Nat /\ count'[k] \in Nat
      /\ log \in Seq(Nat) /\ log2 \in Seq(Nat)
  BY RateAssumption DEF RateTypeOK
<1>2. /\ start'[k] = IF WindowOver(k) THEN now ELSE start[k]
      /\ count'[k] = IF WindowOver(k) THEN 1 ELSE count[k] + 1
  BY DEF Request, RateTypeOK
<1>3. /\ count'[k] > Limit => log2 = log
      /\ count'[k] <= Limit => log2 = Append(log, elapsed)
  <2>1. IF count'[k] > Limit THEN passed' = passed
        ELSE passed' = [passed EXCEPT ![k] = Append(passed[k], elapsed)]
    BY <1>2, Zenon DEF Request, Pass, Refuse
  <2> QED
    BY <2>1, <1>1, SMTT(30) DEF RateTypeOK
<1> HIDE DEF log, log2
<1>4. Len(log) \in Nat /\ \A i \in 1 .. Len(log) : log[i] \in Nat
  BY <1>1
<1>5. CASE count'[k] > Limit
  <2>1. log2 = log
    BY <1>3, <1>5
  <2> QED
    BY <1>2, <1>4, <1>5, <2>1 DEF LoggedOf, log, log2
<1>6. CASE count'[k] <= Limit
  <2>1. log2 = Append(log, elapsed)
    BY <1>3, <1>6
  <2>2. /\ Len(log2) = Len(log) + 1 /\ log2[Len(log) + 1] = elapsed
        /\ \A i \in 1 .. Len(log) : log2[i] = log[i]
    BY <1>1, <1>4, <2>1
  <2> QED
    BY <1>2, <1>4, <1>6, <2>2 DEF LoggedOf, log, log2
<1> QED
  BY <1>1, <1>5, <1>6

\* A request keeps the account of its key.
LEMMA RequestAccounts ==
  ASSUME LimiterInv, Limit > 0, RateTypeOK', NEW k \in Keys, Request(k)
  PROVE  /\ InOrder(k)'
         /\ \E d \in 0 .. Lost', o \in 0 .. elapsed', c \in 0 .. Limit : Accounted(k, d, o, c)'
<1>1. RateTypeOK /\ InOrder(k)
  BY DEF LimiterInv
<1>2. PICK d \in 0 .. Lost, o \in 0 .. elapsed, c \in 0 .. Limit : Accounted(k, d, o, c)
  BY DEF LimiterInv
<1>3. /\ start'[k] = IF WindowOver(k) THEN now ELSE start[k]
      /\ count'[k] = IF WindowOver(k) THEN 1 ELSE count[k] + 1
      /\ LoggedOf(Limit, elapsed, count'[k], passed[k], Len(passed[k]),
                  passed'[k], Len(passed'[k]))
  BY <1>1, RequestLogged
<1>4. Lost' = Lost /\ elapsed' = elapsed /\ now' = now
  BY DEF Request, clocks, Lost
<1> DEFINE t == elapsed
           lost == Lost
           a == Spend(d)
           b == Spend(lost)
           n == count[k]
           n2 == count'[k]
           age == now - start[k]
           age2 == now - start'[k]
           log == passed[k]
           log2 == passed'[k]
           len == Len(passed[k])
           len2 == Len(passed'[k])
           c2 == IF n2 < Limit THEN n2 ELSE Limit
<1>5. /\ Window \in Nat /\ Limit \in Nat /\ t \in Nat /\ lost \in Nat
      /\ n \in Nat /\ n2 \in Nat /\ age \in Int /\ age2 \in Int
      /\ len \in Nat /\ len2 \in Nat
      /\ start[k] \in Nat /\ now \in Nat
  <2>1. /\ Limit \in Nat /\ t \in Nat /\ lost \in Nat /\ now \in Nat
    BY <1>1, RateAssumption DEF RateTypeOK, Lost
  <2>2. /\ n \in Nat /\ n2 \in Nat /\ start[k] \in Nat /\ start'[k] \in Nat
    BY <1>1 DEF RateTypeOK
  <2>3. passed[k] \in Seq(Nat) /\ passed'[k] \in Seq(Nat)
    BY <1>1 DEF RateTypeOK
  <2>4. len \in Nat /\ len2 \in Nat
    BY <2>3
  <2>5. age \in Int /\ age2 \in Int
    BY <2>1, <2>2
  <2> HIDE DEF t, lost, n, n2, age, age2, len, len2
  <2> QED
    BY <2>1, <2>2, <2>4, <2>5, WindowNat
<1>6. /\ d \in Nat /\ d <= lost /\ o \in Nat /\ c \in Nat /\ a \in Nat /\ b \in Nat
  <2>1. d \in Nat /\ d <= lost /\ o \in Nat /\ c \in Nat
    BY <1>5
  <2> HIDE DEF lost
  <2> QED
    BY <1>5, <2>1, SpendFacts, Zenon
<1>7. c2 \in Nat /\ c2 <= Limit
  BY <1>5
<1>8. /\ AccountOf(Window, Limit, t, d, lost, a, b, n, age, log, len, o, c)
      /\ OrderOf(Window, Limit, t, b, log, len)
  BY <1>1, <1>2 DEF Accounted, InOrder
<1>9. LoggedOf(Limit, t, n2, log, len, log2, len2)
  BY <1>3
<1>10. /\ n2 = IF n = 0 \/ age >= Window THEN 1 ELSE n + 1
       /\ age2 = IF n = 0 \/ age >= Window THEN 0 ELSE age
  <2>1. WindowOver(k) <=> n = 0 \/ age >= Window
    BY DEF WindowOver
  <2>2. now - now = 0
    BY <1>5
  <2> QED
    BY <1>3, <2>1, <2>2
<1>11. ASSUME NEW d2 \in 0 .. lost, NEW o2 \in 0 .. t,
              AccountOf(Window, Limit, t, d2, lost, Spend(d2), b, n2, age2,
                        log2, len2, o2, c2)
       PROVE  \E e \in 0 .. Lost', p \in 0 .. elapsed', q \in 0 .. Limit :
                 Accounted(k, e, p, q)'
  <2>1. c2 \in 0 .. Limit
    BY <1>5, <1>7
  <2>2. PICK q \in 0 .. Limit : q = c2
    BY <2>1
  <2>3. AccountOf(Window, Limit, t, d2, lost, Spend(d2), b, n2, age2, log2, len2, o2, q)
    BY <1>11, <2>2
  <2>4. Accounted(k, d2, o2, q)'
    BY <1>4, <2>3, Zenon DEF Accounted, AccountOf, Window
  <2> QED
    BY <1>4, <2>4
<1>12. ASSUME OrderOf(Window, Limit, t, b, log2, len2) PROVE InOrder(k)'
  BY <1>4, <1>12, Zenon DEF InOrder, OrderOf, Window
<1> HIDE DEF t, lost, a, b, n, n2, age, age2, log, log2, len, len2
<1>13. CASE n = 0 \/ age >= Window
  <2>1. n2 = 1 /\ age2 = 0
    BY <1>10, <1>13
  <2>2. /\ AccountOf(Window, Limit, t, lost, lost, b, b, n2, age2, log2, len2, t, c2)
        /\ RoomOf(Window, t, b, len, log2, len2, c2)
    <3> HIDE DEF c2
    <3>1. OpensOf(Window, Limit, n, age, n2, age2, c2)
      BY <1>13, <2>1 DEF OpensOf, c2
    <3> QED
      BY <1>5, <1>6, <1>7, <1>8, <1>9, <3>1, WindowOpens, Zenon
  <2>3. OrderOf(Window, Limit, t, b, log2, len2)
    <3> HIDE DEF c2
    <3> QED
      BY <1>5, <1>6, <1>7, <1>8, <1>9, <2>2, OrderKept
  <2>4. lost \in 0 .. lost /\ t \in 0 .. t /\ b = Spend(lost)
    BY <1>5 DEF b
  <2> QED
    BY <1>11, <1>12, <2>2, <2>3, <2>4
<1>14. CASE ~(n = 0 \/ age >= Window)
  <2>1. n # 0 /\ n2 = n + 1 /\ age2 = age
    BY <1>10, <1>14
  <2>2. /\ AccountOf(Window, Limit, t, d, lost, a, b, n2, age2, log2, len2, o, c2)
        /\ RoomOf(Window, t, b, len, log2, len2, c2)
    <3> HIDE DEF c2
    <3>1. GoesOnOf(Limit, n, age, n2, age2, c2)
      BY <2>1 DEF GoesOnOf, c2
    <3> QED
      BY <1>5, <1>6, <1>7, <1>8, <1>9, <3>1, WindowGoesOn, Zenon
  <2>3. OrderOf(Window, Limit, t, b, log2, len2)
    <3> HIDE DEF c2
    <3> QED
      BY <1>5, <1>6, <1>7, <1>8, <1>9, <2>2, OrderKept
  <2>4. d \in 0 .. lost /\ o \in 0 .. t /\ a = Spend(d)
    BY DEF a, lost, t
  <2> QED
    BY <1>11, <1>12, <2>2, <2>3, <2>4
<1> QED
  BY <1>13, <1>14

\* The account of a key in numbers, for the steps that leave its log alone.
LEMMA AccountNumbers ==
  ASSUME LimiterInv, Limit > 0, NEW k \in Keys
  PROVE  /\ Window \in Nat /\ Limit \in Nat /\ elapsed \in Nat /\ Lost \in Nat
         /\ count[k] \in Nat /\ now - start[k] \in Int /\ Len(passed[k]) \in Nat
         /\ Spend(Lost) \in Nat
         /\ \A i \in 1 .. Len(passed[k]) : passed[k][i] \in Nat
         /\ OrderOf(Window, Limit, elapsed, Spend(Lost), passed[k], Len(passed[k]))
         /\ \E d \in 0 .. Lost, o \in 0 .. elapsed, c \in 0 .. Limit :
               /\ Spend(d) \in Nat
               /\ AccountOf(Window, Limit, elapsed, d, Lost, Spend(d),
                            Spend(Lost), count[k], now - start[k], passed[k],
                            Len(passed[k]), o, c)
<1>1. RateTypeOK /\ InOrder(k)
  BY DEF LimiterInv
<1>2. /\ Limit \in Nat /\ elapsed \in Nat /\ Lost \in Nat /\ now \in Nat
      /\ count[k] \in Nat /\ start[k] \in Nat /\ passed[k] \in Seq(Nat)
  BY <1>1, RateAssumption DEF RateTypeOK, Lost
<1>3. \A d \in 0 .. Lost : Spend(d) \in Nat
  BY <1>2, SpendFacts
<1>4. PICK d \in 0 .. Lost, o \in 0 .. elapsed, c \in 0 .. Limit : Accounted(k, d, o, c)
  BY DEF LimiterInv
<1>5. Spend(d) \in Nat /\ Spend(Lost) \in Nat
  BY <1>2, <1>3
<1>6. /\ Len(passed[k]) \in Nat /\ now - start[k] \in Int
      /\ \A i \in 1 .. Len(passed[k]) : passed[k][i] \in Nat
  BY <1>2
<1> QED
  BY <1>1, <1>2, <1>4, <1>5, <1>6, WindowNat DEF Accounted, InOrder

\* What leaves a key's counter alone keeps its account, while time stands or passes.
LEMMA OthersAccount ==
  ASSUME LimiterInv, Limit > 0, NEW k \in Keys, Lost' = Lost,
         start'[k] = start[k], count'[k] = count[k], passed'[k] = passed[k],
         \/ now' = now /\ elapsed' = elapsed
         \/ now' = now + 1 /\ elapsed' = elapsed + 1
  PROVE  /\ InOrder(k)'
         /\ \E d \in 0 .. Lost', o \in 0 .. elapsed', c \in 0 .. Limit : Accounted(k, d, o, c)'
<1> DEFINE t == elapsed
           lost == Lost
           b == Spend(lost)
           n == count[k]
           age == now - start[k]
           log == passed[k]
           len == Len(passed[k])
<1>1. /\ Window \in Nat /\ Limit \in Nat /\ t \in Nat /\ lost \in Nat /\ b \in Nat
      /\ n \in Nat /\ age \in Int /\ len \in Nat
      /\ \A i \in 1 .. len : log[i] \in Nat
      /\ OrderOf(Window, Limit, t, b, log, len)
  BY AccountNumbers
<1>2. PICK d \in 0 .. lost, o \in 0 .. t, c \in 0 .. Limit :
         /\ Spend(d) \in Nat
         /\ AccountOf(Window, Limit, t, d, lost, Spend(d), b, n, age, log, len, o, c)
  BY AccountNumbers
<1> DEFINE a == Spend(d)
<1>3. CASE now' = now /\ elapsed' = elapsed
  <2>1. InOrder(k)'
    BY <1>1, <1>3, Zenon DEF InOrder, OrderOf, Window
  <2>2. Accounted(k, d, o, c)'
    BY <1>2, <1>3, Zenon DEF Accounted, AccountOf, Window
  <2>3. d \in 0 .. Lost' /\ o \in 0 .. elapsed'
    BY <1>3
  <2> QED
    BY <2>1, <2>2, <2>3
<1>4. CASE now' = now + 1 /\ elapsed' = elapsed + 1
  <2>1. now' - start'[k] = age + 1
    <3>1. now \in Nat /\ start[k] \in Nat
      BY DEF LimiterInv, RateTypeOK
    <3> QED
      BY <1>4, <3>1
  <2>2. d \in Nat /\ o \in Nat /\ c \in Nat
    BY <1>1
  <2>3. /\ AccountOf(Window, Limit, t + 1, d, lost, a, b, n, age + 1, log, len, o, c)
        /\ OrderOf(Window, Limit, t + 1, b, log, len)
    <3>1. a \in Nat /\ AccountOf(Window, Limit, t, d, lost, a, b, n, age, log, len, o, c)
      BY <1>2
    <3> HIDE DEF t, lost, a, b, n, age, log, len
    <3> QED
      BY <1>1, <2>2, <3>1, TimePasses, Zenon
  <2>4. InOrder(k)'
    BY <1>4, <2>3, Zenon DEF InOrder, OrderOf, Window
  <2>5. Accounted(k, d, o, c)'
    BY <1>4, <2>1, <2>3, Zenon DEF Accounted, AccountOf, Window
  <2>6. d \in 0 .. Lost' /\ o \in 0 .. elapsed'
    BY <1>1, <1>4
  <2> QED
    BY <2>4, <2>5, <2>6
<1> QED
  BY <1>3, <1>4

\* A change of the clock or a restart leaves the log alone, and once the limit to spend.
LEMMA DisturbedAccount ==
  ASSUME LimiterInv, Limit > 0, RateTypeOK', NEW k \in Keys, Lost' = Lost + 1, elapsed' = elapsed,
         passed'[k] = passed[k], count'[k] \in {0, count[k]}
  PROVE  /\ InOrder(k)'
         /\ \E d \in 0 .. Lost', o \in 0 .. elapsed', c \in 0 .. Limit : Accounted(k, d, o, c)'
<1> DEFINE t == elapsed
           lost == Lost
           lost2 == Lost'
           b == Spend(lost)
           b2 == Spend(lost2)
           n == count[k]
           n2 == count'[k]
           age == now - start[k]
           age2 == now' - start'[k]
           log == passed[k]
           len == Len(passed[k])
<1>1. /\ Window \in Nat /\ Limit \in Nat /\ t \in Nat /\ lost \in Nat /\ b \in Nat
      /\ n \in Nat /\ age \in Int /\ len \in Nat
      /\ \A i \in 1 .. len : log[i] \in Nat
      /\ OrderOf(Window, Limit, t, b, log, len)
  BY AccountNumbers
<1>2. PICK d \in 0 .. lost, o \in 0 .. t, c \in 0 .. Limit :
         /\ Spend(d) \in Nat
         /\ AccountOf(Window, Limit, t, d, lost, Spend(d), b, n, age, log, len, o, c)
  BY AccountNumbers
<1> DEFINE a == Spend(d)
<1>3. lost2 = lost + 1 /\ lost2 \in Nat /\ b2 = b + Limit /\ b2 \in Nat
  <2>1. lost2 = lost + 1 /\ lost2 \in Nat
    BY <1>1
  <2>2. Spend(lost + 1) = b + Limit
    BY <1>1, SpendFacts
  <2> HIDE DEF lost, lost2, b
  <2> QED
    BY <1>1, <2>1, <2>2
<1>4. age2 \in Int
  BY DEF RateTypeOK
<1>5. d \in Nat /\ o \in Nat /\ c \in Nat
  BY <1>1
<1>6. /\ AccountOf(Window, Limit, t, d, lost2, a, b2, n2, age2, log, len, o, c)
      /\ OrderOf(Window, Limit, t, b2, log, len)
  <2>1. a \in Nat /\ AccountOf(Window, Limit, t, d, lost, a, b, n, age, log, len, o, c)
    BY <1>2
  <2>2. n2 \in Nat
    BY <1>1
  <2>3. DisturbedOf(Limit, lost, b, n, lost2, b2, n2)
    BY <1>3 DEF DisturbedOf
  <2> HIDE DEF t, lost, lost2, a, b, b2, n, n2, age, age2, log, len
  <2> QED
    BY <1>1, <1>3, <1>4, <1>5, <2>1, <2>2, <2>3, Disturbed, Zenon
<1>7. InOrder(k)'
  BY <1>6, Zenon DEF InOrder, OrderOf, Window
<1>8. Accounted(k, d, o, c)'
  BY <1>6, Zenon DEF Accounted, AccountOf, Window
<1>9. d \in 0 .. Lost' /\ o \in 0 .. elapsed'
  BY <1>1, <1>3
<1> QED
  BY <1>7, <1>8, <1>9

\* Every step keeps every account: the clock may be set and the process restarted.
LEMMA NextAccounted == LimiterInv /\ [RateNext]_rateVars => LimiterInv'
<1> SUFFICES ASSUME LimiterInv, [RateNext]_rateVars PROVE LimiterInv'
  OBVIOUS
<1>1. RateTypeOK /\ RateTypeOK'
  BY NextTyped DEF LimiterInv
<1> SUFFICES ASSUME Limit > 0, NEW k \in Keys
             PROVE  /\ InOrder(k)'
                    /\ \E d \in 0 .. Lost', o \in 0 .. elapsed', c \in 0 .. Limit :
                          Accounted(k, d, o, c)'
  BY <1>1, Zenon DEF LimiterInv
<1>2. Lost \in Nat
  BY <1>1, RateAssumption DEF RateTypeOK, Lost
<1>3. ASSUME NEW m \in Keys, Request(m)
      PROVE  /\ InOrder(k)'
             /\ \E d \in 0 .. Lost', o \in 0 .. elapsed', c \in 0 .. Limit :
                   Accounted(k, d, o, c)'
  <2>1. CASE m = k
    BY <1>1, <1>3, <2>1, RequestAccounts, Zenon
  <2>2. CASE m # k
    <3>1. start'[k] = start[k] /\ count'[k] = count[k]
      BY <1>1, <1>3, <2>2 DEF Request, RateTypeOK
    <3>2. passed'[k] = passed[k]
      <4>1. passed' = passed \/ passed' = [passed EXCEPT ![m] = Append(@, elapsed)]
        BY <1>3, Zenon DEF Request, Pass, Refuse
      <4> QED
        BY <1>1, <2>2, <4>1 DEF RateTypeOK
    <3>3. Lost' = Lost /\ now' = now /\ elapsed' = elapsed
      BY <1>3 DEF Request, clocks, Lost
    <3> QED
      BY <3>1, <3>2, <3>3, OthersAccount, Zenon
  <2> QED
    BY <2>1, <2>2
<1>4. CASE Tick
  <2>1. /\ Lost' = Lost /\ now' = now + 1 /\ elapsed' = elapsed + 1
        /\ start' = start /\ count' = count /\ passed' = passed
    BY <1>4 DEF Tick, counters, history, Lost
  <2> QED
    BY <2>1, OthersAccount, Zenon
<1>5. CASE ClockStep
  <2>1. /\ restarts' = restarts /\ clockSteps' = clockSteps + 1 /\ elapsed' = elapsed
        /\ count' = count /\ passed' = passed
    BY <1>5 DEF ClockStep, counters, history
  <2>2. Lost' = Lost + 1
    BY <1>1, <2>1 DEF Lost, RateTypeOK
  <2>3. count'[k] \in {0, count[k]}
    BY <2>1
  <2> QED
    BY <1>1, <2>1, <2>2, <2>3, DisturbedAccount, Zenon
<1>6. CASE Restart
  <2>1. /\ restarts' = restarts + 1 /\ clockSteps' = clockSteps /\ elapsed' = elapsed
        /\ count' = [m \in Keys |-> 0] /\ passed' = passed
    BY <1>6 DEF Restart, clocks, history
  <2>2. Lost' = Lost + 1
    BY <1>1, <2>1 DEF Lost, RateTypeOK
  <2>3. count'[k] \in {0, count[k]}
    BY <2>1
  <2> QED
    BY <1>1, <2>1, <2>2, <2>3, DisturbedAccount, Zenon
<1>7. CASE UNCHANGED rateVars
  <2>1. /\ Lost' = Lost /\ now' = now /\ elapsed' = elapsed
        /\ start' = start /\ count' = count /\ passed' = passed
    BY <1>7 DEF rateVars, Lost
  <2> QED
    BY <2>1, OthersAccount, Zenon
<1> QED
  BY <1>3, <1>4, <1>5, <1>6, <1>7 DEF RateNext

\* An account in order is within the bound.
LEMMA AccountedBounds == LimiterInv => BurstBound
<1> SUFFICES ASSUME LimiterInv, Limit > 0, NEW k \in Keys
             PROVE  LET most == Limit * (2 + restarts + clockSteps)
                    IN  \A i \in 1 .. Len(passed[k]) + 1 - most : Spread(passed[k], i, most - 1)
  BY DEF BurstBound
<1>1. Limit * (2 + restarts + clockSteps) = Spend(Lost) + Limit + 1
  <2>1. /\ restarts \in Nat /\ clockSteps \in Nat /\ Lost \in Nat /\ Limit \in Nat
        /\ 2 + restarts + clockSteps = 2 + Lost
    BY RateAssumption DEF LimiterInv, RateTypeOK, Lost
  <2>2. Spend(Lost) + Limit = Limit * (2 + Lost) - 1 /\ Limit * (2 + Lost) \in Nat
    BY <2>1, SpendFacts, TimesNat
  <2> QED
    BY <2>1, <2>2
<1>2. /\ OrderOf(Window, Limit, elapsed, Spend(Lost), passed[k], Len(passed[k]))
      /\ Len(passed[k]) \in Nat /\ Spend(Lost) \in Nat /\ Limit \in Nat
  BY AccountNumbers
<1> DEFINE n == Spend(Lost) + Limit
           most == Limit * (2 + restarts + clockSteps)
<1>3. \A i \in 1 .. Len(passed[k]) - n : passed[k][i + n] - passed[k][i] >= Window
  BY <1>2 DEF OrderOf
<1>4. n \in Nat /\ most = n + 1
  BY <1>1, <1>2
<1> HIDE DEF n, most
<1>5. PICK len \in Nat : len = Len(passed[k])
  BY <1>2
<1>6. ASSUME NEW i \in 1 .. len + 1 - most
      PROVE  Spread(passed[k], i, most - 1)
  <2>1. i \in 1 .. len - n /\ most - 1 = n
    BY <1>4
  <2>2. passed[k][i + n] - passed[k][i] >= Window
    BY <1>3, <1>5, <2>1, Zenon
  <2>3. Spread(passed[k], i, n)
    BY <2>2, Zenon DEF Spread
  <2> QED
    BY <2>1, <2>3, Zenon
<1> QED
  BY <1>5, <1>6, Zenon DEF most

\* RateLimitMiddleware as the clients see it: however requests, keys and time interleave,
\* fewer requests of one key than twice the limit are passed on within less than a window of real
\* time, and once the limit more for each restart of the process and for each time the wall clock
\* was set, forward or back.
THEOREM BurstBounded == RateSpec => []BurstBound
  BY InitAccounted, NextAccounted, AccountedBounds, PTL DEF RateSpec

-----------------------------------------------------------------------------
(* Retry-After.                                                            *)

\* Where time() stands when the wait that was promised to the client of k is over, if
\* nobody sets it meanwhile.
Back(k) == now - elapsed + promise[k].until

\* The last refusal but one of those a clock allows was told less than a second too
\* little, and the last one enough: the window the client finds then is over.
Promised(k) ==
    LET n == promise[k].refusals
        most == 2 * (1 + clockSteps)
    IN  /\ n <= most
        /\ n >= most - 1 /\ count[k] # 0 => Back(k) > start[k] + Window - TicksPerSecond
        /\ n = most /\ count[k] # 0 => Back(k) >= start[k] + Window

\* The wait falls short of the rest of the window by less than a second, and not at all
\* when the rest is less than that.
LEMMA RetryAfterClose ==
  ASSUME NEW age \in Int
  PROVE  /\ RetryAfter(age) * TicksPerSecond \in Nat
         /\ RetryAfter(age) * TicksPerSecond > Window - age - TicksPerSecond
         /\ Window - age < TicksPerSecond => RetryAfter(age) * TicksPerSecond >= Window - age
<1> DEFINE rest == Window - age
           n == rest \div TicksPerSecond
           t == TicksPerSecond
           w == RetryAfter(age)
<1>1. rest \in Int /\ t \in Nat /\ t > 0 /\ n \in Int
  BY WindowNat, RateAssumption
<1>2. n * t <= rest /\ rest < n * t + t
  BY <1>1
<1>3. w \in Nat /\ w * t \in Nat
  BY RetryAfterNat
<1>4. w = IF n < 1 THEN 1 ELSE n
  BY DEF RetryAfter
<1>5. CASE n < 1
  <2>1. w * t = t
    BY <1>1, <1>4, <1>5
  <2>2. n * t <= 0
    BY <1>1, <1>5
  <2>3. n * t \in Int
    BY <1>1
  <2> QED
    BY <1>1, <1>2, <1>3, <2>1, <2>2, <2>3
<1>6. CASE ~(n < 1)
  <2>1. w = n
    BY <1>4, <1>6
  <2>2. n * t >= t
    BY <1>1, <1>6
  <2> QED
    BY <1>1, <1>2, <1>3, <2>1, <2>2
<1> QED
  BY <1>5, <1>6

\* A request passed on owes its client nothing; a refusal comes one step nearer.
LEMMA RequestPromised ==
  ASSUME Limit > 0, RateTypeOK, NEW k \in Keys, Promised(k), Request(k)
  PROVE  Promised(k)'
<1> DEFINE over == WindowOver(k)
           s == IF over THEN now ELSE start[k]
           c == IF over THEN 1 ELSE count[k] + 1
           n == promise[k].refusals
           most == 2 * (1 + clockSteps)
<1>1. /\ start'[k] = s /\ count'[k] = c
      /\ UNCHANGED <<now, elapsed, clockSteps>>
      /\ IF c > Limit THEN Refuse(k, now - s) ELSE Pass(k)
  BY DEF Request, RateTypeOK, clocks
<1>2. /\ now \in Nat /\ elapsed \in Nat /\ clockSteps \in Nat
      /\ start[k] \in Nat /\ count[k] \in Nat
      /\ promise[k] \in [until : Nat, refusals : Nat]
  BY RateAssumption DEF RateTypeOK
<1>3. promise[k].until \in Nat /\ n \in Nat
  BY <1>2
<1>4. CASE Pass(k)
  <2>1. promise'[k] = NoPromise
    BY <1>4 DEF Pass, RateTypeOK
  <2> QED
    BY <1>1, <1>2, <2>1 DEF Promised, NoPromise
<1>5. CASE Refuse(k, now - s) /\ c > Limit
  <2>1. ~over /\ s = start[k] /\ count[k] # 0 /\ now - start[k] < Window
    BY <1>2, <1>5, WindowNat, RateAssumption DEF WindowOver
  <2> DEFINE wait == RetryAfter(now - start[k]) * TicksPerSecond
  <2>2. promise' = IF elapsed < promise[k].until THEN promise
                   ELSE [promise EXCEPT ![k] = [until |-> elapsed + wait, refusals |-> n + 1]]
    BY <1>5, <2>1 DEF Refuse
  <2>3. /\ wait \in Nat
        /\ wait > Window - (now - start[k]) - TicksPerSecond
        /\ Window - (now - start[k]) < TicksPerSecond => wait >= Window - (now - start[k])
    BY <1>2, RetryAfterClose
  <2> HIDE DEF wait
  <2>4. CASE elapsed < promise[k].until
    <3>1. promise' = promise
      BY <2>2, <2>4
    <3> QED
      BY <1>1, <1>2, <2>1, <3>1 DEF Promised, Back
  <2>5. CASE ~(elapsed < promise[k].until)
    <3>1. promise'[k].until = elapsed + wait /\ promise'[k].refusals = n + 1
      BY <2>2, <2>5 DEF RateTypeOK
    <3>2. Back(k)' = now + wait
      BY <1>1, <1>2, <2>3, <3>1 DEF Back
    <3>3. /\ start'[k] = start[k]
          /\ clockSteps' = clockSteps
      BY <1>1, <2>1
    <3>4. /\ n <= most
          /\ n >= most - 1 => Back(k) > start[k] + Window - TicksPerSecond
          /\ n = most => Back(k) >= start[k] + Window
      BY <2>1 DEF Promised
    <3>5. Back(k) <= now
      BY <1>2, <1>3, <2>5 DEF Back
    <3>6. Back(k) \in Int
      BY <1>2, <1>3 DEF Back
    <3>7. n # most
      BY <1>2, <2>1, <3>4, <3>5, <3>6, WindowNat
    <3>8. n + 1 = most => wait >= Window - (now - start[k])
      BY <1>2, <1>3, <2>3, <3>4, <3>5, <3>6, WindowNat, RateAssumption
    <3> QED
      BY <1>2, <1>3, <2>3, <3>1, <3>2, <3>3, <3>4, <3>7, <3>8, WindowNat, RateAssumption
      DEF Promised
  <2> QED
    BY <2>4, <2>5
<1> QED
  BY <1>1, <1>4, <1>5

\* Time that passes leaves a promise where it is, and a clock that is set allows two
\* refusals more.
LEMMA NextPromised ==
  ASSUME Limit > 0
  PROVE  RateTypeOK /\ RateTypeOK' /\ (\A k \in Keys : Promised(k)) /\ [RateNext]_rateVars
            => \A k \in Keys : Promised(k)'
<1> SUFFICES ASSUME RateTypeOK, RateTypeOK', \A q \in Keys : Promised(q), [RateNext]_rateVars,
                    NEW k \in Keys
             PROVE  Promised(k)'
  OBVIOUS
<1>1. /\ now \in Nat /\ elapsed \in Nat /\ clockSteps \in Nat /\ now' \in Nat
      /\ start[k] \in Nat /\ count[k] \in Nat
      /\ promise[k] \in [until : Nat, refusals : Nat]
  BY RateAssumption DEF RateTypeOK
<1>2. promise[k].until \in Nat /\ promise[k].refusals \in Nat
  BY <1>1
<1>3. Promised(k)
  OBVIOUS
<1>4. ASSUME NEW q \in Keys, Request(q) PROVE Promised(k)'
  <2>1. CASE q = k
    BY <1>3, <1>4, <2>1, RequestPromised
  <2>2. CASE q # k
    <3>1. /\ start'[k] = start[k] /\ count'[k] = count[k]
          /\ UNCHANGED <<now, elapsed, clockSteps>>
      BY <1>4, <2>2 DEF Request, RateTypeOK, clocks
    <3>2. promise'[k] = promise[k]
      BY <1>4, <2>2 DEF Request, Pass, Refuse, RateTypeOK
    <3> QED
      BY <1>3, <3>1, <3>2 DEF Promised, Back
  <2> QED
    BY <2>1, <2>2
<1>5. CASE Tick
  BY <1>1, <1>2, <1>3, <1>5 DEF Tick, counters, history, Promised, Back
<1>6. CASE ClockStep
  <2>1. clockSteps' = clockSteps + 1 /\ promise' = promise
    BY <1>6 DEF ClockStep, history
  <2> QED
    BY <1>1, <1>2, <1>3, <2>1 DEF Promised
<1>7. CASE Restart
  <2>1. clockSteps' = clockSteps /\ promise' = promise /\ count'[k] = 0
    BY <1>7 DEF Restart, history, clocks
  <2> QED
    BY <1>3, <2>1 DEF Promised
<1>8. CASE UNCHANGED rateVars
  BY <1>3, <1>8 DEF rateVars, Promised, Back
<1> QED
  BY <1>4, <1>5, <1>6, <1>7, <1>8 DEF RateNext

\* A client that waits as it is told is refused twice in a row at most, and twice more for
\* each change of the clock, whatever the limit, as long as it lets anything through.
THEOREM HonestWaits ==
  ASSUME Limit > 0
  PROVE  RateSpec => []RetryAfterHonest
<1> DEFINE AllPromised == \A k \in Keys : Promised(k)
<1>1. RateInit => AllPromised
  <2> SUFFICES ASSUME RateInit, NEW k \in Keys PROVE Promised(k)
    OBVIOUS
  <2>1. promise[k].until = 0 /\ promise[k].refusals = 0 /\ elapsed = 0 /\ clockSteps = 0
    BY DEF RateInit, NoPromise
  <2> QED
    BY <2>1 DEF Promised
<1>2. AllPromised => RetryAfterHonest
  BY DEF Promised, RetryAfterHonest
<1>3. RateTypeOK /\ RateTypeOK' /\ AllPromised /\ [RateNext]_rateVars => AllPromised'
  BY NextPromised
<1>4. RateSpec => []RateTypeOK
  BY LimiterTypes
<1> HIDE DEF AllPromised
<1> QED
  BY <1>1, <1>2, <1>3, <1>4, PTL DEF RateSpec

-----------------------------------------------------------------------------
(* The middleware stack.                                                   *)

\* The flag of finalize tells whether the request has been recorded.
FlagTold == Len(records) = IF finalized THEN 1 ELSE 0

StackInv == HttpTypeOK /\ FlagTold

\* finalize records once and remembers that it did.
LEMMA FinalizesRecords ==
    ASSUME StackInv, NEW code \in 200 .. 599, Finalizes(code)
    PROVE  finalized' \in BOOLEAN /\ records' \in Seq(200 .. 599) /\ FlagTold'
<1>1. records \in Seq(200 .. 599) /\ finalized \in BOOLEAN
  BY DEF StackInv, HttpTypeOK
<1>2. CASE finalized
  BY <1>1, <1>2 DEF StackInv, FlagTold, Finalizes
<1>3. CASE ~finalized
  <2>1. records' = Append(records, code) /\ finalized'
    BY <1>3 DEF Finalizes
  <2>2. Len(records) = 0
    BY <1>3 DEF StackInv, FlagTold
  <2>3. Append(records, code) \in Seq(200 .. 599) /\ Len(Append(records, code)) = 1
    BY <1>1, <2>2
  <2> QED
    BY <2>1, <2>3, ZenonT(30) DEF FlagTold, Finalizes
<1> QED
  BY <1>2, <1>3

\* A request recorded as a failure.
LEMMA FailureRecorded ==
    ASSUME StackInv, Finalizes(500)
    PROVE  finalized' \in BOOLEAN /\ records' \in Seq(200 .. 599) /\ FlagTold'
<1>1. 500 \in 200 .. 599
  OBVIOUS
<1> QED
  BY <1>1, FinalizesRecords, ZenonT(60)

\* The codes the code itself answers with are statuses.
LEMMA OwnCodes == {400, 413, 429, 500} \subseteq 200 .. 599
  OBVIOUS

\* What goes out is a reply.
LEMMA ReplyTyped ==
    ASSUME NEW s \in {0} \union (200 .. 599), NEW i \in BOOLEAN, NEW w \in BOOLEAN
    PROVE  [status |-> s, id |-> i, whole |-> w] \in Reply
  BY DEF Reply

\* So is an answer of an outer middleware,
LEMMA OutsideTyped ==
    ASSUME NEW code \in 200 .. 599, AnswersOutside(code)
    PROVE  reply' \in Reply
<1> DEFINE w == client = "listening"
<1>1. w \in BOOLEAN
  OBVIOUS
<1>2. reply' = [status |-> code, id |-> FALSE, whole |-> w]
  BY DEF AnswersOutside
<1> HIDE DEF w
<1> QED
  BY <1>1, <1>2, ReplyTyped, ZenonT(60)

\* and the one that refuses a body.
LEMMA RefusedBody ==
    ASSUME AnswersOutside(413)
    PROVE  reply' \in Reply
<1>1. 413 \in 200 .. 599
  OBVIOUS
<1> QED
  BY <1>1, OutsideTyped, Zenon

\* The flag of finalize tells, after every step, whether there is a record.
LEMMA StackNextInv == StackInv /\ [HttpNext]_httpVars => StackInv'
<1> SUFFICES ASSUME StackInv, [HttpNext]_httpVars PROVE StackInv'
  OBVIOUS
<1> USE HttpAssumption DEF StackInv, HttpTypeOK, Pc
<1>1. CASE RefuseRate
  BY <1>1, OutsideTyped DEF RefuseRate, FlagTold
<1>2. CASE PassRate
  BY <1>2 DEF PassRate, FlagTold
<1>3. CASE RefuseDeclared
  BY <1>3, OutsideTyped DEF RefuseDeclared, FlagTold
<1>4. CASE Admit
  BY <1>4 DEF Admit, FlagTold
<1>5. ASSUME NEW n \in ChunkBytes, ReadChunk(n) PROVE StackInv'
  BY <1>5 DEF ReadChunk, FlagTold
<1>6. ASSUME NEW n \in ChunkBytes, ReadTooMuch(n) PROVE StackInv'
  <2>1. chunks' \in 0 .. MaxChunks /\ received' \in Nat
    BY <1>6 DEF ReadTooMuch
  <2>2. CASE Finalizes(500) /\ AnswersOutside(413) /\ pc' = "ended" /\ UNCHANGED status
    <3>1. reply' \in Reply
      BY <2>2, RefusedBody
    <3>2. finalized' \in BOOLEAN /\ records' \in Seq(200 .. 599) /\ FlagTold'
      BY <2>2, FailureRecorded
    <3> QED
      BY <1>6, <2>1, <2>2, <3>1, <3>2 DEF ReadTooMuch
  <2>3. CASE UNCHANGED <<finalized, records>> /\ status' = 400 /\ pc' = "answering"
             /\ reply' = [status |-> 400, id |-> TRUE, whole |-> FALSE]
    <3>1. reply' \in Reply
      BY <2>3 DEF Reply
    <3> QED
      BY <1>6, <2>1, <2>3, <3>1 DEF ReadTooMuch, FlagTold
  <2> QED
    BY <1>6, <2>2, <2>3 DEF ReadTooMuch
<1>7. CASE BodyRead
  BY <1>7 DEF BodyRead, FlagTold
<1>8. ASSUME NEW s \in Statuses, ResponseStart(s) PROVE StackInv'
  BY <1>8 DEF ResponseStart, FlagTold, Reply
<1>9. CASE ResponsePart
  BY <1>9 DEF ResponsePart, FlagTold
<1>10. CASE ResponseEnd
  <2>1. (IF status = 0 THEN 200 ELSE status) \in 200 .. 599
    OBVIOUS
  <2>2. finalized' \in BOOLEAN /\ records' \in Seq(200 .. 599) /\ FlagTold'
    BY <1>10, <2>1, FinalizesRecords, ZenonT(60) DEF ResponseEnd
  <2> DEFINE w == client = "listening"
  <2>3. w \in BOOLEAN
    OBVIOUS
  <2>4. reply' = [status |-> reply.status, id |-> reply.id, whole |-> w]
    BY <1>10 DEF ResponseEnd
  <2> HIDE DEF w
  <2>5. reply.status \in {0} \union (200 .. 599) /\ reply.id \in BOOLEAN
    BY DEF Reply
  <2>6. reply' \in Reply
    BY <2>3, <2>4, <2>5, ReplyTyped, ZenonT(60)
  <2>7. /\ pc' = "answered"
        /\ UNCHANGED <<length, chunks, received, streaming, status, parts, client>>
    BY <1>10 DEF ResponseEnd
  <2> QED
    BY <2>2, <2>6, <2>7
<1>11. CASE Return
  BY <1>11 DEF Return, FlagTold
<1>12. CASE Raise
  <2>1. finalized' \in BOOLEAN /\ records' \in Seq(200 .. 599) /\ FlagTold'
    BY <1>12, FailureRecorded DEF Raise
  <2>2. reply' \in Reply
    <3>1. CASE reply = NoReply
      BY <1>12, <3>1, OutsideTyped DEF Raise
    <3>2. CASE reply # NoReply
      BY <1>12, <3>2 DEF Raise
    <3> QED
      BY <3>1, <3>2
  <2> QED
    BY <1>12, <2>1, <2>2 DEF Raise
<1>13. CASE ClientLeaves
  BY <1>13 DEF ClientLeaves, FlagTold
<1>14. CASE StreamCut
  BY <1>14 DEF StreamCut, FlagTold
<1>15. CASE UNCHANGED httpVars
  BY <1>15 DEF httpVars, FlagTold
<1> QED
  BY <1>1, <1>2, <1>3, <1>4, <1>5, <1>6, <1>7, <1>8, <1>9, <1>10, <1>11, <1>12, <1>13,
     <1>14, <1>15 DEF HttpNext

\* And so it always does.
LEMMA StackInvariant == HttpSpec => []StackInv
<1>1. HttpInit => StackInv
  <2> SUFFICES ASSUME HttpInit PROVE StackInv
    OBVIOUS
  <2>1. records \in Seq(200 .. 599) /\ Len(records) = 0
    BY DEF HttpInit
  <2>2. reply \in Reply
    BY DEF HttpInit, Reply, NoReply
  <2>3. /\ pc \in Pc
        /\ chunks \in 0 .. MaxChunks
        /\ received \in Nat
        /\ status \in {0} \union (200 .. 599)
        /\ parts \in 0 .. MaxParts
    BY HttpAssumption DEF HttpInit, Pc
  <2>4. length \in {"none", "within", "over"} /\ client \in {"listening", "gone"}
    BY DEF HttpInit
  <2>5. streaming \in BOOLEAN /\ finalized \in BOOLEAN
    BY DEF HttpInit
  <2>6. HttpTypeOK
    BY <2>1, <2>2, <2>3, <2>4, <2>5 DEF HttpTypeOK
  <2> QED
    BY <2>1, <2>6 DEF StackInv, FlagTold, HttpInit
<1> QED
  BY <1>1, StackNextInv, PTL DEF HttpSpec

\* The state of a request keeps its types.
THEOREM StackTypes == HttpSpec => []HttpTypeOK
<1>1. StackInv => HttpTypeOK
  BY DEF StackInv
<1> QED
  BY <1>1, StackInvariant, PTL

\* However the application answers, raises or is cut short: a request is recorded at
\* most once.
THEOREM RecordedAtMostOnce == HttpSpec => []RecordedOnce
<1>1. StackInv => RecordedOnce
  BY DEF StackInv, FlagTold, RecordedOnce
<1> QED
  BY <1>1, StackInvariant, PTL

\* What goes out and what is recorded, by where the request stands.
Sent ==
    /\ pc \in {"arrived", "sized", "reading", "handling"} =>
          reply = NoReply /\ ~finalized /\ records = <<>>
    /\ pc \in {"arrived", "sized"} => chunks = 0
    /\ pc = "answering" =>
          /\ ~finalized /\ records = <<>>
          /\ status # 0 /\ reply.status = status /\ ~reply.whole
    /\ pc = "answered" => finalized /\ records = <<reply.status>>
    /\ RecordedAsSent

\* Only the end of a response makes it whole, and finalize has run by then.
LEMMA NextSent == StackInv /\ Sent /\ [HttpNext]_httpVars => Sent'
<1> SUFFICES ASSUME StackInv, Sent, [HttpNext]_httpVars PROVE Sent'
  OBVIOUS
<1> USE DEF Sent, RecordedAsSent
<1>1. CASE RefuseRate
  BY <1>1 DEF RefuseRate, AnswersOutside
<1>2. CASE PassRate
  BY <1>2 DEF PassRate
<1>3. CASE RefuseDeclared
  BY <1>3 DEF RefuseDeclared, AnswersOutside
<1>4. CASE Admit
  BY <1>4 DEF Admit
<1>5. ASSUME NEW n \in ChunkBytes, ReadChunk(n) PROVE Sent'
  BY <1>5 DEF ReadChunk
<1>6. ASSUME NEW n \in ChunkBytes, ReadTooMuch(n) PROVE Sent'
  <2>1. CASE Finalizes(500) /\ AnswersOutside(413) /\ pc' = "ended"
    <3>1. records = <<>> /\ ~finalized
      BY <1>6 DEF ReadTooMuch
    <3>2. records' = <<500>>
      BY <2>1, <3>1 DEF Finalizes
    <3> QED
      BY <2>1, <3>2 DEF AnswersOutside
  <2>2. CASE UNCHANGED <<finalized, records>> /\ status' = 400 /\ pc' = "answering"
             /\ reply' = [status |-> 400, id |-> TRUE, whole |-> FALSE]
    BY <1>6, <2>2 DEF ReadTooMuch
  <2> QED
    BY <1>6, <2>1, <2>2 DEF ReadTooMuch
<1>7. CASE BodyRead
  BY <1>7 DEF BodyRead
<1>8. ASSUME NEW s \in Statuses, ResponseStart(s) PROVE Sent'
  <2>1. s # 0
    BY HttpAssumption
  <2> QED
    BY <1>8, <2>1 DEF ResponseStart
<1>9. CASE ResponsePart
  BY <1>9 DEF ResponsePart
<1>10. CASE ResponseEnd
  <2>1. records = <<>> /\ ~finalized /\ status # 0 /\ reply.status = status
    BY <1>10 DEF ResponseEnd
  <2>2. records' = <<status>> /\ finalized'
    BY <1>10, <2>1 DEF ResponseEnd, Finalizes
  <2>3. pc' = "answered" /\ reply'.status = status
    BY <1>10, <2>1 DEF ResponseEnd
  <2> QED
    BY <2>2, <2>3
<1>11. CASE Return
  BY <1>11 DEF Return
<1>12. CASE Raise
  <2>1. CASE pc \in {"reading", "handling"}
    <3>1. records' = <<500>>
      <4>1. records = <<>> /\ ~finalized
        BY <2>1
      <4>2. records' = Append(records, 500)
        BY <1>12, <4>1 DEF Raise, Finalizes
      <4> QED
        BY <4>1, <4>2
    <3>2. reply'.status = 500
      BY <1>12, <2>1 DEF Raise, AnswersOutside
    <3> QED
      BY <1>12, <3>1, <3>2 DEF Raise
  <2>2. CASE pc = "answering"
    <3>1. reply' = reply /\ ~reply.whole
      BY <1>12, <2>2 DEF Raise, NoReply
    <3> QED
      BY <1>12, <3>1 DEF Raise
  <2>3. CASE pc = "answered"
    <3>1. records' = records /\ records = <<reply.status>>
      BY <1>12, <2>3 DEF Raise, Finalizes
    <3>2. reply # NoReply
      <4>1. records \in Seq(200 .. 599)
        BY DEF StackInv, HttpTypeOK
      <4>2. records[1] \in 200 .. 599 /\ records[1] = reply.status
        BY <3>1, <4>1
      <4>3. reply.status # 0
        <5>1. \A code \in 200 .. 599 : code # 0
          OBVIOUS
        <5>2. reply.status \in 200 .. 599
          BY <4>2, Zenon
        <5> QED
          BY <5>1, <5>2, Zenon
      <4>4. NoReply.status = 0
        BY DEF NoReply
      <4> QED
        BY <4>3, <4>4
    <3>3. reply' = reply
      BY <1>12, <3>2 DEF Raise
    <3> QED
      BY <1>12, <3>1, <3>3 DEF Raise
  <2> QED
    BY <1>12, <2>1, <2>2, <2>3 DEF Raise
<1>13. CASE ClientLeaves
  BY <1>13 DEF ClientLeaves
<1>14. CASE StreamCut
  BY <1>14 DEF StreamCut
<1>15. CASE UNCHANGED httpVars
  BY <1>15 DEF httpVars
<1> QED
  BY <1>1, <1>2, <1>3, <1>4, <1>5, <1>6, <1>7, <1>8, <1>9, <1>10, <1>11, <1>12, <1>13,
     <1>14, <1>15 DEF HttpNext

\* A response that has come to its end is recorded under the status that went out, or is
\* one of those the outer middleware gave, however the body was read and the answer sent.
THEOREM RecordsAsSent == HttpSpec => []RecordedAsSent
<1>1. HttpInit => Sent
  BY DEF HttpInit, Sent, RecordedAsSent, NoReply
<1>2. Sent => RecordedAsSent
  BY DEF Sent
<1> QED
  BY <1>1, <1>2, NextSent, StackInvariant, PTL DEF HttpSpec
=============================================================================
