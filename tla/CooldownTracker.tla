-------------------------- MODULE CooldownTracker --------------------------
(***************************************************************************)
(* The cooldown tracker of internal/cooldown/cooldown.go: one record per   *)
(* endpoint, shared by every request handler and guarded by one mutex, so  *)
(* that each of its methods is one atomic action here.                     *)
(*                                                                         *)
(* The wall clock is the variable now.  It runs through the instants of    *)
(* the constant Clock and may skip any number of them between two calls.   *)
(***************************************************************************)
EXTENDS CooldownPolicy

CONSTANTS
    Endpoints,      \* endpoint names, the keys of Tracker.states
    Replies,        \* upstream outcomes the model offers to SetCooldown
    Clock,          \* instants the wall clock may show
    MaxErrors       \* bound on ConsecErrors in TrackerSpec (model checking)

ASSUME ClockAssumption == Clock # {} /\ Clock \subseteq Nat \ {0}

ASSUME RepliesAssumption == Replies \subseteq Reply

VARIABLES
    now,            \* time.Now()
    states          \* Tracker.states; a missing entry is the zero record

trackerVars == <<now, states>>

EndpointState == [until : Nat, errors : Nat]

NeverFailed == [until |-> 0, errors |-> 0]

TrackerInit ==
    /\ now \in Clock
    /\ states = [e \in Endpoints |-> NeverFailed]

-----------------------------------------------------------------------------
(* EndpointState.IsAvailable: time.Now().After is strict. *)
IsAvailable(e) == states[e].until = 0 \/ now > states[e].until

(* EndpointState.CooldownRemaining, what the admin views show. *)
CooldownRemaining(e) ==
    IF states[e].until > now THEN states[e].until - now ELSE 0

(* A failed attempt on e.  The new deadline replaces the old one. *)
SetCooldown(e, provider, r) ==
    states' = [states EXCEPT
        ![e] = [until  |-> now + CooldownFor(provider, r, now),
                errors |-> @.errors + 1]]

(* Mutants: the errors are left, or counted down instead of reset. *)
ClearDeadlineOnly(e) == states' = [states EXCEPT ![e].until = 0]

ClearCountsDown(e) ==
    states' = [states EXCEPT ![e] = [until |-> 0, errors |-> @.errors - 1]]

(* A finished successful attempt on e. *)
ClearCooldown(e) == states' = [states EXCEPT ![e] = NeverFailed]

Tick ==
    /\ \E t \in Clock : t > now /\ now' = t
    /\ UNCHANGED states

-----------------------------------------------------------------------------
(* The tracker on its own, driven by arbitrary callers. *)

AttemptFails(e) ==
    /\ states[e].errors < MaxErrors
    /\ \E provider \in Providers, r \in Replies : SetCooldown(e, provider, r)
    /\ UNCHANGED now

AttemptSucceeds(e) == ClearCooldown(e) /\ UNCHANGED now

TrackerNext ==
    \/ Tick
    \/ \E e \in Endpoints : AttemptFails(e) \/ AttemptSucceeds(e)

TrackerSpec == TrackerInit /\ [][TrackerNext]_trackerVars

-----------------------------------------------------------------------------
(* now is an instant of the clock and every endpoint has a record. *)
TrackerTypeOK ==
    /\ now \in Clock
    /\ states \in [Endpoints -> EndpointState]

(* An endpoint has a deadline exactly when it has failed since its last    *)
(* success: no path of SetCooldown leaves the deadline unset and none of   *)
(* ClearCooldown leaves half a record, whatever the provider answered.     *)
DeadlineMatchesErrors ==
    \A e \in Endpoints : states[e].until = 0 <=> states[e].errors = 0

(* "Any upstream failure should trigger cooldown" (handler.go:164): the    *)
(* step that counts a failure leaves the endpoint out of rotation for some *)
(* time, for every provider and reply, a reset time long past included.    *)
FailureCools ==
    [][\A e \in Endpoints :
          states'[e].errors > states[e].errors
              => CooldownRemaining(e)' > 0]_trackerVars

(* A MiniMax token plan exhausted now keeps the endpoint out of rotation   *)
(* until the next quota window has opened and the buffer has passed: a     *)
(* cooldown that ended earlier would send requests into the same quota.    *)
QuotaOutlastsWindow ==
    \A r \in Replies :
        IsQuotaExhausted(r) =>
            now + CooldownFor("MiniMax", r, now) >= NextWindow(now) + Buffer

(* provider.go:13, "cooldown until next window + buffer", and no longer.   *)
QuotaEndsWithWindow ==
    \A r \in Replies :
        IsQuotaExhausted(r) =>
            now + CooldownFor("MiniMax", r, now) <= NextWindow(now) + Buffer
=============================================================================
