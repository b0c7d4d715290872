----------------------------- MODULE MCRouting -----------------------------
(* Three endpoints in two ranks, one of which changes rank in the peak     *)
(* hours, and two configurations that name their upstream models apart.    *)
EXTENDS Routing

Hours(h) == h * TicksPerHour

EP(n, p, k, alt, on, models) ==
    [name |-> n, provider |-> p, rank |-> k, altRank |-> alt,
     enabled |-> on, allow |-> models]

(* Fast Claude models, all others, and everything else. *)
Old == [endpoints |-> <<EP("a", "MiniMax", 2, 0, TRUE, {"large"}),
                        EP("b", "GLM", 2, 1, TRUE, {"large", "small"}),
                        EP("c", "openrouter", 1, 3, TRUE, {"small"})>>,
        routes |-> <<[from |-> <<"claude-", "*", "-fast">>, to |-> <<"small", "large">>],
                     [from |-> <<"claude-", "*">>, to |-> <<"large", "small">>],
                     [from |-> <<"*">>, to |-> <<"small">>]>>,
        default |-> <<>>,
        scheduler |-> "sequential", retry |-> 1, bodyLimit |-> 1]

New == [endpoints |-> <<EP("b", "GLM", 1, 0, TRUE, {"next"}),
                        EP("a", "MiniMax", 1, 0, FALSE, {"next", "large"}),
                        EP("c", "siliconflow", 1, 0, TRUE, {"next"})>>,
        routes |-> <<>>,
        default |-> <<"next">>,
        scheduler |-> "random", retry |-> 2, bodyLimit |-> 1]

(* Three equals and a reserve that nobody reaches first. *)
Equals == [endpoints |-> <<EP("a", "MiniMax", 1, 0, TRUE, {"large"}),
                           EP("b", "GLM", 1, 0, TRUE, {"large"}),
                           EP("c", "openrouter", 1, 0, TRUE, {"large"}),
                           EP("d", "openrouter", 2, 0, TRUE, {"large"})>>,
           routes |-> <<>>,
           default |-> <<"large">>,
           scheduler |-> "sequential", retry |-> 1, bodyLimit |-> 1]

Claude == <<"claude-", "sonnet">>
MCPieces == {"claude-", "sonnet", "-fast", "other", "*"}
OneName == {Claude}
TwoNames == {Claude, <<"other">>}
ManyNames == {Claude, Claude \o <<"-fast">>, <<"other">>, <<"other", "-fast">>}

EqualsOnly == {Equals}
OldAndNew == {Old, New}

(* A quarter to two and after two, when the peak has begun, and an hour on. *)
OneInstant == {Hours(9)}
MCClock == {Hours(13) + 90, Hours(14) + 1, Hours(15)}

(* What the theorem on routes supposes of patterns holds of these. *)
ASSUME PatternsArePlain == PlainPatterns

(* What the theorem on round robin supposes of traffic holds of one file.  *)
ASSUME EqualsAreCalm == Configs = EqualsOnly => CalmTraffic

TransportError == {NoReply}
Nothing == {}
=============================================================================
