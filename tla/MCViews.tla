------------------------------ MODULE MCViews ------------------------------
EXTENDS Views

Either == Permutations(Requests)

OneEndpoint ==
    [endpoints |-> <<[name |-> "a", provider |-> "MiniMax", rank |-> 1,
                      altRank |-> 0, enabled |-> TRUE, allow |-> {"large"}]>>,
     routes |-> <<>>, default |-> <<"large">>,
     scheduler |-> "sequential", retry |-> 1, bodyLimit |-> 2]

MCNames == {<<"claude">>}
MCConfigs == {OneEndpoint}
MCReplies == {[NoReply EXCEPT !.status = s] : s \in {200, 503}}
MCInputs == {[model |-> <<"claude">>, size |-> 1, badPath |-> FALSE]}

(* Late in the evening and after a midnight that begins a month. *)
MCClock == {22 * TicksPerHour, 26 * TicksPerHour}
MCMonthStarts == {0, 24 * TicksPerHour}
=============================================================================
