----------------------------- MODULE MCTracker -----------------------------
(* A tracker with real durations: one tick is half a minute. *)
EXTENDS CooldownTracker

Hours(h) == h * TicksPerHour

(* Around every window boundary of a day, and the morning after. *)
MCClock ==
    {1} \cup {Hours(h) + d : h \in {5, 10, 15, 20}, d \in {-1, 0, 1}}
        \cup {Hours(24) - 1, Hours(24), Hours(48)}

(* A transport error, an overloaded upstream, MiniMax's three kinds of     *)
(* 429, and GLM resets in the past and in the future, each in another      *)
(* place of the body.                                                      *)
MCReplies ==
    {NoReply,
     [NoReply EXCEPT !.status = 503],
     [NoReply EXCEPT !.status = 429],
     [NoReply EXCEPT !.status = 429, !.errorCode = 1002],
     [NoReply EXCEPT !.status = 429, !.baseCode = 2056],
     [NoReply EXCEPT !.status = 429, !.errorMS = Hours(1), !.messageDate = Hours(30)],
     [NoReply EXCEPT !.status = 429, !.errorDate = Hours(22)]}
=============================================================================
