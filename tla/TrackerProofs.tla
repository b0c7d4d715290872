---------------------------- MODULE TrackerProofs ----------------------------
(***************************************************************************)
(* What holds of the cooldown tracker for every clock, every set of        *)
(* endpoints, every reply and every choice of the durations.               *)
(***************************************************************************)
EXTENDS CooldownTracker, TLAPS

-----------------------------------------------------------------------------
(* Arithmetic of hours and days *)

LEMMA Scaling ==
    ASSUME NEW k \in Nat, NEW a \in Nat, NEW b \in Nat, a <= b
    PROVE  a * k <= b * k
<1>1. PICK c \in Nat : b = a + c
  BY SMT
<1>2. b * k = a * k + c * k
  BY <1>1, SMT
<1>3. c * k >= 0 /\ a * k \in Int /\ c * k \in Int
  BY SMT
<1> QED
  BY <1>2, <1>3, SMT

LEMMA DayPositive == Day \in Nat \ {0}
  BY DurationAssumption DEF Day

LEMMA TimeOfDayRange ==
    ASSUME NEW t \in Nat
    PROVE  /\ TimeOfDay(t) \in 0..(Day - 1)
           /\ t - TimeOfDay(t) \in Nat
<1>1. \A d \in Nat \ {0} : t % d \in 0..(d - 1) /\ t - (t % d) \in Nat
  BY SMT
<1> QED
  BY <1>1, DayPositive DEF TimeOfDay

LEMMA HourOfBounds ==
    ASSUME NEW t \in Nat
    PROVE  /\ HourOf(t) \in 0..23
           /\ HourOf(t) * TicksPerHour <= TimeOfDay(t)
           /\ TimeOfDay(t) < (HourOf(t) + 1) * TicksPerHour
<1> DEFINE x == TimeOfDay(t)
           k == TicksPerHour
           h == x \div k
<1>0. x \in Nat /\ x < 24 * k /\ k \in Nat \ {0}
  BY TimeOfDayRange, DurationAssumption DEF Day
<1>1. \A y \in Nat, d \in Nat \ {0} :
          /\ y \div d \in Nat
          /\ (y \div d) * d <= y /\ y < (y \div d) * d + d
  BY SMT
<1>2. h \in Nat /\ h * k <= x /\ x < h * k + k
  BY <1>0, <1>1
<1>3. (h + 1) * k = h * k + k
  BY <1>0, <1>2, SMT
<1>4. h < 24
  <2>1. SUFFICES ASSUME 24 <= h PROVE FALSE
    BY <1>2, SMT
  <2>2. 24 * k <= h * k
    BY <2>1, <1>0, <1>2, Scaling
  <2> QED
    BY <2>2, <1>0, <1>2, SMT
<1> QED
  BY <1>2, <1>3, <1>4 DEF HourOf

(* Some hours later is some ticks later, with a whole hour in between. *)
LEMMA HourOrder ==
    ASSUME NEW t \in Nat, NEW n \in 0..24
    PROVE  TimeOfDay(t) < n * TicksPerHour <=> HourOf(t) < n
<1> DEFINE h == HourOf(t)
           k == TicksPerHour
<1>0. h \in 0..23 /\ n \in Nat /\ k \in Nat \ {0} /\ TimeOfDay(t) \in Int
  BY HourOfBounds, TimeOfDayRange, DayPositive, DurationAssumption
<1>1. h * k <= TimeOfDay(t) /\ TimeOfDay(t) < (h + 1) * k
  BY HourOfBounds
<1>2. h * k \in Int /\ (h + 1) * k \in Int /\ n * k \in Int
  BY <1>0, SMT
<1>3. CASE h < n
  <2>1. (h + 1) * k <= n * k
    BY <1>0, <1>3, h + 1 <= n, h + 1 \in Nat, k \in Nat, Scaling
  <2> QED
    BY <2>1, <1>0, <1>1, <1>2, <1>3
<1>4. CASE ~(h < n)
  <2>1. n * k <= h * k
    BY <1>0, <1>4, n <= h, k \in Nat, h \in Nat, Scaling
  <2> QED
    BY <2>1, <1>0, <1>1, <1>2, <1>4
<1> QED
  BY <1>3, <1>4

LEMMA NextHourRange ==
    ASSUME NEW t \in Nat
    PROVE  /\ NextHour(t) \in {5, 10, 15, 20, 24}
           /\ HourOf(t) < NextHour(t)
           /\ \A h \in WindowStarts : HourOf(t) < h => NextHour(t) <= h
<1>1. HourOf(t) \in 0..23
  BY HourOfBounds
<1> QED
  BY <1>1 DEF NextHour, WindowStarts

LEMMA WaitIsPositive ==
    ASSUME NEW t \in Nat
    PROVE  /\ TimeUntilNextWindow(t) \in Nat \ {0}
           /\ WindowBoundary(t) = t + TimeUntilNextWindow(t)
<1> DEFINE k == TicksPerHour
<1>1. NextHour(t) \in {5, 10, 15, 20, 24} /\ HourOf(t) < NextHour(t)
  BY NextHourRange
<1>2. TimeOfDay(t) < NextHour(t) * k
  BY <1>1, HourOrder
<1>3. k \in Nat \ {0} /\ TimeOfDay(t) \in Nat /\ Day \in Nat \ {0}
  BY TimeOfDayRange, DayPositive, DurationAssumption
<1>4. NextHour(t) * k \in Int
  BY <1>1, <1>3
<1>5. WindowBoundary(t) = (t - TimeOfDay(t)) + NextHour(t) * k
                            + (IF NextHour(t) = 24 THEN Day ELSE 0)
  BY DEF WindowBoundary
<1> QED
  BY <1>2, <1>3, <1>4, <1>5 DEF TimeUntilNextWindow

LEMMA LeastAfterUnique ==
    ASSUME NEW S \in SUBSET Nat, NEW t \in Nat, NEW w \in S, w > t,
           \A v \in S : v > t => w <= v
    PROVE  LeastAfter(S, t) = w
<1> DEFINE P(u) == u > t /\ \A v \in S : v > t => u <= v
<1>1. \E u \in S : P(u)
  OBVIOUS
<1>2. LeastAfter(S, t) = CHOOSE u \in S : P(u)
  BY DEF LeastAfter
<1>3. LeastAfter(S, t) \in S /\ P(LeastAfter(S, t))
  <2> HIDE DEF P
  <2> QED
    BY <1>1, <1>2
<1>4. LeastAfter(S, t) <= w /\ w <= LeastAfter(S, t)
  BY <1>3
<1>5. \A v \in S : v \in Nat
  OBVIOUS
<1>6. w \in Nat /\ LeastAfter(S, t) \in Nat
  BY <1>3, <1>5
<1> HIDE DEF P
<1> QED
  BY <1>4, <1>6

(* The window the code waits for opens no earlier than the documented one. *)
LEMMA BoundaryNotEarly ==
    ASSUME NEW t \in Nat
    PROVE  NextWindow(t) \in Nat /\ NextWindow(t) <= WindowBoundary(t)
<1> DEFINE k == TicksPerHour
           midnight == t - TimeOfDay(t)
           windowTimes == WindowTimes(t)
           w == midnight + NextHour(t) * k
<1>0. /\ k \in Nat \ {0} /\ midnight \in Nat /\ TimeOfDay(t) \in Nat
      /\ TimeOfDay(t) < Day /\ Day = 24 * k /\ t = midnight + TimeOfDay(t)
  BY TimeOfDayRange, DayPositive, DurationAssumption DEF Day
<1>W. WindowTimes(t) = {midnight + d * Day + h * k : d \in {0, 1}, h \in WindowStarts}
  BY DEF WindowTimes
<1>1. NextHour(t) \in {5, 10, 15, 20, 24} /\ HourOf(t) < NextHour(t)
  BY NextHourRange
<1>2. w \in windowTimes
  <2>1. CASE NextHour(t) = 24
    <3>1. w = midnight + 1 * Day + 0 * k
      BY <2>1, <1>0
    <3> QED
      BY <3>1, <1>W DEF WindowStarts
  <2>2. CASE NextHour(t) # 24
    <3>1. w = midnight + 0 * Day + NextHour(t) * k /\ NextHour(t) \in WindowStarts
      BY <2>2, <1>0, <1>1 DEF WindowStarts
    <3> QED
      BY <3>1, <1>W
  <2> QED
    BY <2>1, <2>2
<1>3. w > t
  <2>1. TimeOfDay(t) < NextHour(t) * k
    BY <1>1, HourOrder
  <2> QED
    BY <2>1, <1>0, <1>1
<1>4. ASSUME NEW v \in windowTimes, v > t
      PROVE  w <= v
  <2>1. PICK d \in {0, 1}, h \in WindowStarts : v = midnight + d * Day + h * k
    BY <1>4, <1>W
  <2>2. CASE d = 1
    BY <2>1, <2>2, <1>0, <1>1 DEF WindowStarts
  <2>3. CASE d = 0
    <3>1. TimeOfDay(t) < h * k
      BY <2>1, <2>3, <1>0, <1>4 DEF WindowStarts
    <3>2. HourOf(t) < h
      BY <3>1, HourOrder, h \in 0..24 DEF WindowStarts
    <3>3. NextHour(t) <= h
      BY <3>2, NextHourRange
    <3> QED
      BY <3>3, <2>1, <2>3, <1>0, <1>1 DEF WindowStarts
  <2> QED
    BY <2>2, <2>3
<1>5. windowTimes \subseteq Nat
  BY <1>0, <1>W DEF WindowStarts
<1>6. NextWindow(t) = w
  <2>1. NextWindow(t) = LeastAfter(windowTimes, t)
    BY DEF NextWindow
  <2> QED
    BY <2>1, <1>2, <1>3, <1>4, <1>5, LeastAfterUnique
<1>7. WindowBoundary(t) = w + (IF NextHour(t) = 24 THEN Day ELSE 0)
  BY DEF WindowBoundary
<1> QED
  BY <1>6, <1>7, <1>5, <1>2, <1>0

-----------------------------------------------------------------------------
(* Every cooldown has a positive length. *)

LEMMA GLMNotNegative ==
    ASSUME NEW r \in Reply, NEW t \in Nat
    PROVE  GLMCooldown(r, t) \in Nat
<1>1. ParseGLMResetTime(r) \in Nat
  BY DEF ParseGLMResetTime, Reply
<1> QED
  BY <1>1, DurationAssumption DEF GLMCooldown

LEMMA MiniMaxNotNegative ==
    ASSUME NEW r \in Reply, NEW t \in Nat
    PROVE  MiniMaxCooldown(r, t) \in Nat
<1>1. TimeUntilNextWindow(t) \in Nat
  BY WaitIsPositive
<1> QED
  BY <1>1, DurationAssumption DEF MiniMaxCooldown

LEMMA CooldownIsPositive ==
    ASSUME NEW p, NEW r \in Reply, NEW t \in Nat
    PROVE  CooldownFor(p, r, t) \in Nat \ {0}
<1>1. CalculateCooldown(p, r, t) \in Nat
  BY GLMNotNegative, MiniMaxNotNegative DEF CalculateCooldown
<1> QED
  BY <1>1, DurationAssumption DEF CooldownFor

LEMMA QuotaCooldown ==
    ASSUME NEW r \in Reply, NEW t \in Nat, IsQuotaExhausted(r)
    PROVE  CooldownFor("MiniMax", r, t) = TimeUntilNextWindow(t) + Buffer
<1>1. MiniMaxCooldown(r, t) = TimeUntilNextWindow(t) + Buffer
  BY DEF MiniMaxCooldown, IsQuotaExhausted
<1>2. CalculateCooldown("MiniMax", r, t) = TimeUntilNextWindow(t) + Buffer
  BY <1>1 DEF CalculateCooldown
<1>3. TimeUntilNextWindow(t) + Buffer > 0
  BY WaitIsPositive, DurationAssumption
<1> QED
  BY <1>2, <1>3 DEF CooldownFor, RegisteredProviders

-----------------------------------------------------------------------------
(* A failure of any provider at any moment writes a well-formed record     *)
(* with a deadline in the future.                                          *)
LEMMA SetCooldownResult ==
    ASSUME TrackerTypeOK, NEW e \in Endpoints, NEW p, NEW r \in Reply,
           SetCooldown(e, p, r)
    PROVE  /\ states' \in [Endpoints -> EndpointState]
           /\ states'[e].until > now
           /\ states'[e].errors = states[e].errors + 1
           /\ \A f \in Endpoints \ {e} : states'[f] = states[f]
<1>1. now \in Nat
  BY ClockAssumption DEF TrackerTypeOK
<1>2. CooldownFor(p, r, now) \in Nat \ {0}
  BY <1>1, CooldownIsPositive
<1>3. states[e] \in EndpointState /\ states \in [Endpoints -> EndpointState]
  BY DEF TrackerTypeOK
<1> DEFINE new == [until  |-> now + CooldownFor(p, r, now),
                   errors |-> states[e].errors + 1]
<1>4. states' = [states EXCEPT ![e] = new]
  BY DEF SetCooldown
<1>5. new \in EndpointState /\ new.until > now /\ new.errors = states[e].errors + 1
  BY <1>1, <1>2, <1>3 DEF EndpointState
<1> HIDE DEF new
<1> QED
  BY <1>3, <1>4, <1>5

(* The records of the tracker are well-formed and carry a deadline exactly *)
(* when they carry errors: the inductive invariant of TrackerSpec.         *)
TrackerInv == TrackerTypeOK /\ DeadlineMatchesErrors

LEMMA TrackerInvInit == TrackerInit => TrackerInv
<1> SUFFICES ASSUME TrackerInit PROVE TrackerInv
  OBVIOUS
<1>1. NeverFailed \in EndpointState /\ NeverFailed.until = 0 /\ NeverFailed.errors = 0
  BY DEF NeverFailed, EndpointState
<1> QED
  BY <1>1 DEF TrackerInit, TrackerInv, TrackerTypeOK, DeadlineMatchesErrors

LEMMA FailKeepsInv ==
    ASSUME TrackerInv, NEW e \in Endpoints, AttemptFails(e)
    PROVE  TrackerInv'
<1>1. PICK p \in Providers, r \in Replies : SetCooldown(e, p, r)
  BY DEF AttemptFails
<1>2. r \in Reply /\ TrackerTypeOK /\ now' = now
  BY RepliesAssumption DEF TrackerInv, AttemptFails
<1>3. /\ states' \in [Endpoints -> EndpointState]
      /\ states'[e].until > now
      /\ states'[e].errors = states[e].errors + 1
      /\ \A f \in Endpoints \ {e} : states'[f] = states[f]
  BY <1>1, <1>2, SetCooldownResult
<1>4. now \in Nat /\ states[e].errors \in Nat
  BY <1>2, ClockAssumption DEF TrackerTypeOK, EndpointState
<1>5. TrackerTypeOK'
  BY <1>2, <1>3 DEF TrackerTypeOK
<1>6. states'[e].until # 0 /\ states'[e].errors # 0
  BY <1>3, <1>4
<1>7. DeadlineMatchesErrors'
  BY <1>3, <1>6 DEF TrackerInv, DeadlineMatchesErrors
<1> QED
  BY <1>5, <1>7 DEF TrackerInv

LEMMA SuccessKeepsInv ==
    ASSUME TrackerInv, NEW e \in Endpoints, AttemptSucceeds(e)
    PROVE  TrackerInv'
<1>1. NeverFailed \in EndpointState /\ NeverFailed.until = 0 /\ NeverFailed.errors = 0
  BY DEF NeverFailed, EndpointState
<1>2. now' = now /\ states' = [states EXCEPT ![e] = NeverFailed]
  BY DEF AttemptSucceeds, ClearCooldown
<1>3. now \in Clock /\ states \in [Endpoints -> EndpointState]
  BY DEF TrackerInv, TrackerTypeOK
<1> HIDE DEF NeverFailed
<1>4. TrackerTypeOK'
  BY <1>1, <1>2, <1>3 DEF TrackerTypeOK
<1>5. DeadlineMatchesErrors'
  BY <1>1, <1>2, <1>3 DEF TrackerInv, DeadlineMatchesErrors
<1> QED
  BY <1>4, <1>5 DEF TrackerInv

LEMMA TrackerInvNext == TrackerInv /\ [TrackerNext]_trackerVars => TrackerInv'
<1> SUFFICES ASSUME TrackerInv, [TrackerNext]_trackerVars PROVE TrackerInv'
  OBVIOUS
<1>1. CASE Tick
  BY <1>1 DEF Tick, TrackerInv, TrackerTypeOK, DeadlineMatchesErrors
<1>2. ASSUME NEW e \in Endpoints, AttemptFails(e) PROVE TrackerInv'
  BY <1>2, FailKeepsInv
<1>3. ASSUME NEW e \in Endpoints, AttemptSucceeds(e) PROVE TrackerInv'
  BY <1>3, SuccessKeepsInv
<1>4. CASE UNCHANGED trackerVars
  BY <1>4 DEF trackerVars, TrackerInv, TrackerTypeOK, DeadlineMatchesErrors
<1> QED
  BY <1>1, <1>2, <1>3, <1>4 DEF TrackerNext

-----------------------------------------------------------------------------
(* Whatever the callers do, the tracker's records stay well-formed. *)
THEOREM TrackerTypeCorrect == TrackerSpec => []TrackerTypeOK
<1>1. TrackerInv => TrackerTypeOK
  BY DEF TrackerInv
<1> QED
  BY <1>1, TrackerInvInit, TrackerInvNext, PTL DEF TrackerSpec

(* A record has a deadline exactly when it has errors: the zero time never *)
(* stands for a cooldown, and no cooldown is left without its count.       *)
THEOREM DeadlinesMatchErrors == TrackerSpec => []DeadlineMatchesErrors
<1>1. TrackerInv => DeadlineMatchesErrors
  BY DEF TrackerInv
<1> QED
  BY <1>1, TrackerInvInit, TrackerInvNext, PTL DEF TrackerSpec

(* Every failure that is counted takes the endpoint out of rotation for a  *)
(* while, whatever the provider, its answer and the time of day.           *)
THEOREM FailuresCool == TrackerSpec => FailureCools
<1> DEFINE Cools == \A e \in Endpoints :
                       states'[e].errors > states[e].errors
                           => CooldownRemaining(e)' > 0
<1>1. ASSUME TrackerInv, [TrackerNext]_trackerVars PROVE [Cools]_trackerVars
  <2> SUFFICES ASSUME NEW e \in Endpoints, states'[e].errors > states[e].errors
               PROVE  CooldownRemaining(e)' > 0
    OBVIOUS
  <2>0. /\ now \in Nat /\ states \in [Endpoints -> EndpointState]
        /\ \A f \in Endpoints : states[f].errors \in Nat
    BY <1>1, ClockAssumption DEF TrackerInv, TrackerTypeOK, EndpointState
  <2>1. ASSUME NEW f \in Endpoints, AttemptFails(f) PROVE CooldownRemaining(e)' > 0
    <3>1. PICK p \in Providers, r \in Replies : SetCooldown(f, p, r)
      BY <2>1 DEF AttemptFails
    <3>2. r \in Reply /\ TrackerTypeOK /\ now' = now
      BY <1>1, <2>1, RepliesAssumption DEF TrackerInv, AttemptFails
    <3>3. /\ states' \in [Endpoints -> EndpointState]
          /\ states'[f].until > now
          /\ \A g \in Endpoints \ {f} : states'[g] = states[g]
      BY <3>1, <3>2, SetCooldownResult
    <3>4. e = f
      BY <2>0, <3>3
    <3>5. states'[e].until \in Nat
      BY <3>3 DEF EndpointState
    <3> QED
      BY <3>2, <3>3, <3>4, <3>5, <2>0 DEF CooldownRemaining
  <2>2. ASSUME NEW f \in Endpoints, AttemptSucceeds(f) PROVE FALSE
    <3>1. states'[e] = IF e = f THEN NeverFailed ELSE states[e]
      BY <2>2, <2>0 DEF AttemptSucceeds, ClearCooldown
    <3> QED
      BY <3>1, <2>0 DEF NeverFailed
  <2>3. states' = states => FALSE
    BY <2>0
  <2> QED
    BY <1>1, <2>1, <2>2, <2>3 DEF TrackerNext, Tick, trackerVars
<1> QED
  BY <1>1, TrackerInvInit, TrackerInvNext, PTL DEF TrackerSpec, FailureCools

(* A plan exhausted at any moment is left alone until the next documented  *)
(* window has opened and the buffer has passed.                            *)
THEOREM QuotaIsRespected == TrackerSpec => []QuotaOutlastsWindow
<1>1. TrackerInv => QuotaOutlastsWindow
  <2> SUFFICES ASSUME TrackerInv, NEW r \in Replies, IsQuotaExhausted(r)
               PROVE  now + CooldownFor("MiniMax", r, now) >= NextWindow(now) + Buffer
    BY DEF QuotaOutlastsWindow
  <2>1. now \in Nat /\ r \in Reply /\ Buffer \in Nat
    BY ClockAssumption, RepliesAssumption, DurationAssumption
       DEF TrackerInv, TrackerTypeOK
  <2>2. CooldownFor("MiniMax", r, now) = TimeUntilNextWindow(now) + Buffer
    BY <2>1, QuotaCooldown
  <2>3. NextWindow(now) \in Nat /\ NextWindow(now) <= WindowBoundary(now)
    BY <2>1, BoundaryNotEarly
  <2>4. /\ TimeUntilNextWindow(now) \in Nat
        /\ WindowBoundary(now) = now + TimeUntilNextWindow(now)
    BY <2>1, WaitIsPositive
  <2> QED
    BY <2>1, <2>2, <2>3, <2>4
<1> QED
  BY <1>1, TrackerInvInit, TrackerInvNext, PTL DEF TrackerSpec
=============================================================================
