--------------------------- MODULE CooldownPolicy ---------------------------
(***************************************************************************)
(* How long a failure keeps an endpoint out of rotation: the provider      *)
(* policies of internal/cooldown/provider.go and the defaulting chain of   *)
(* Tracker.SetCooldown.  Everything here is a pure operator.               *)
(*                                                                         *)
(* Time is a number of ticks since a local midnight.  A tick is the unit   *)
(* the durations below are given in: half a minute in the models, where    *)
(* the code's own durations are whole numbers of ticks.  An instant 0      *)
(* stands for Go's zero time.Time ("no instant").                          *)
(***************************************************************************)
EXTENDS Integers, Sequences

CONSTANTS
    TicksPerHour,
    RateLimitCooldown,      \* MiniMaxCooldown.RateLimitCooldown
    UnclassifiedCooldown,   \* MiniMax answer to a 429 with any other code
    Buffer,                 \* MiniMaxCooldown.Buffer and GLMCooldown.Buffer
    DefaultCooldown,        \* both DefaultCooldown() methods, GLM's fallback
    FallbackCooldown        \* fallbackCooldown of the tracker

ASSUME DurationAssumption ==
    /\ TicksPerHour \in Nat \ {0}
    /\ RateLimitCooldown \in Nat \ {0}
    /\ UnclassifiedCooldown \in Nat \ {0}
    /\ Buffer \in Nat \ {0}
    /\ DefaultCooldown \in Nat \ {0}
    /\ FallbackCooldown \in Nat \ {0}

(***************************************************************************)
(* What the policies read of an upstream reply.  "status" is 0 when no     *)
(* HTTP reply arrived; then there is no body either and every body field   *)
(* is 0.  The two codes are MiniMax's, the four instants are the places    *)
(* where GLM may put the moment its limit resets; 0 is "absent or not of   *)
(* the expected type".                                                     *)
(***************************************************************************)
Reply == [status    : Nat,
          errorCode : Nat,  baseCode   : Nat,
          errorMS   : Nat,  topMS      : Nat,
          errorDate : Nat,  messageDate: Nat]

(* client.Do returned an error: status 0 and a nil body reach SetCooldown. *)
NoReply == [status |-> 0, errorCode |-> 0, baseCode |-> 0, errorMS |-> 0,
            topMS |-> 0, errorDate |-> 0, messageDate |-> 0]

Providers == {"MiniMax", "GLM", "siliconflow", "openrouter"}

(* app.go registers a policy for two of the four valid providers. *)
RegisteredProviders == {"MiniMax", "GLM"}

-----------------------------------------------------------------------------
(* MiniMax *)

ParseMiniMaxErrorCode(r) ==
    IF r.errorCode # 0 THEN r.errorCode ELSE r.baseCode

Day == 24 * TicksPerHour

TimeOfDay(t) == t % Day

HourOf(t) == TimeOfDay(t) \div TicksPerHour

(* Mutant: the window that has just opened is taken for the next one. *)
NextHourInclusive(t) ==
    CASE HourOf(t) <= 5  -> 5
      [] HourOf(t) \in 6..10  -> 10
      [] HourOf(t) \in 11..15 -> 15
      [] HourOf(t) \in 16..20 -> 20
      [] OTHER -> 24

(* The hour at which the quota window that contains t ends. *)
NextHour(t) ==
    CASE HourOf(t) < 5  -> 5
      [] HourOf(t) \in 5..9   -> 10
      [] HourOf(t) \in 10..14 -> 15
      [] HourOf(t) \in 15..19 -> 20
      [] OTHER -> 24

(* time.Date normalises hour 24 to the next midnight, and the code then    *)
(* adds one more day to it.                                                *)
WindowBoundary(t) ==
    (t - TimeOfDay(t)) + NextHour(t) * TicksPerHour
        + (IF NextHour(t) = 24 THEN Day ELSE 0)

TimeUntilNextWindow(t) == WindowBoundary(t) - t

IsQuotaExhausted(r) ==
    r.status = 429 /\ ParseMiniMaxErrorCode(r) = 2056

MiniMaxCooldown(r, now) ==
    CASE r.status # 429 -> 0
      [] r.status = 429 /\ ParseMiniMaxErrorCode(r) = 1002 -> RateLimitCooldown
      [] IsQuotaExhausted(r) -> TimeUntilNextWindow(now) + Buffer
      [] OTHER -> UnclassifiedCooldown

-----------------------------------------------------------------------------
(* GLM *)

(* The first place, in the code's order, that yields an instant. *)
ParseGLMResetTime(r) ==
    CASE r.errorMS # 0 -> r.errorMS
      [] r.errorMS = 0 /\ r.topMS # 0 -> r.topMS
      [] r.errorMS = 0 /\ r.topMS = 0 /\ r.errorDate # 0 -> r.errorDate
      [] OTHER -> r.messageDate

GLMCooldown(r, now) ==
    LET reset == ParseGLMResetTime(r) IN
    CASE r.status # 429 -> 0
      [] r.status = 429 /\ reset = 0 -> DefaultCooldown
      [] r.status = 429 /\ reset > now -> (reset - now) + Buffer
      [] OTHER -> Buffer

-----------------------------------------------------------------------------
(* The tracker's choice: the provider's own duration, else the provider's  *)
(* default; the fixed fallback when the provider has no policy.            *)

CalculateCooldown(provider, r, now) ==
    IF provider = "MiniMax" THEN MiniMaxCooldown(r, now)
                            ELSE GLMCooldown(r, now)

(* Mutant: "no opinion" of a provider, a duration of 0, is used as it is. *)
CooldownForWithoutDefault(provider, r, now) ==
    IF provider \in RegisteredProviders
    THEN CalculateCooldown(provider, r, now) ELSE FallbackCooldown

CooldownFor(provider, r, now) ==
    LET own == CalculateCooldown(provider, r, now) IN
    CASE provider \notin RegisteredProviders -> FallbackCooldown
      [] provider \in RegisteredProviders /\ own > 0 -> own
      [] OTHER -> DefaultCooldown

-----------------------------------------------------------------------------
(* Reference: the quota windows of MiniMax as provider.go documents them,  *)
(* 0-5, 5-10, 10-15, 15-20 and 20-24 of every day.  NextWindow(t) is the   *)
(* first instant after t at which a window opens.                          *)

WindowStarts == {0, 5, 10, 15, 20}

(* The least element of S that is greater than t, if there is one. *)
LeastAfter(S, t) == CHOOSE u \in S : u > t /\ \A v \in S : v > t => u <= v

WindowTimes(t) ==
    {(t - TimeOfDay(t)) + d * Day + h * TicksPerHour :
        d \in {0, 1}, h \in WindowStarts}

NextWindow(t) == LeastAfter(WindowTimes(t), t)
=============================================================================
