------------------------------ MODULE MCProxy ------------------------------
EXTENDS Proxy

Hours(h) == h * TicksPerHour

EP(n, p, k, models) ==
    [name |-> n, provider |-> p, rank |-> k, altRank |-> 0,
     enabled |-> TRUE, allow |-> models]

(* MiniMax first, GLM to fall back to. *)
Ranked == [endpoints |-> <<EP("a", "MiniMax", 1, {"large"}),
                           EP("b", "GLM", 2, {"large"})>>,
           routes |-> <<>>, default |-> <<"large">>,
           scheduler |-> "sequential", retry |-> 1, bodyLimit |-> 2]

(* The same endpoint under two models, and more retries. *)
TwoModels == [endpoints |-> <<EP("a", "MiniMax", 1, {"large", "small"})>>,
              routes |-> <<[from |-> <<"claude-", "*">>, to |-> <<"large", "small">>]>>,
              default |-> <<>>,
              scheduler |-> "random", retry |-> 2, bodyLimit |-> 1]

Claude == <<"claude-", "sonnet">>
MCPieces == {"claude-", "sonnet", "*"}
MCNames == {Claude}

Status(s) == [NoReply EXCEPT !.status = s]
Quota == [NoReply EXCEPT !.status = 429, !.baseCode = 2056]
LimitUntil(t) == [NoReply EXCEPT !.status = 429, !.errorMS = t]

In(size, bad) == [model |-> Claude, size |-> size, badPath |-> bad]

RankedOnly == {Ranked}
BothConfigs == {Ranked, TwoModels}

(* In a quota window, at its end, and past every cooldown. *)
MCClock == {Hours(6), Hours(10), Hours(16)}
OneInstant == {Hours(6)}

AllReplies == {Status(200), Status(400), Status(503), Quota, LimitUntil(Hours(11))}
Overloaded == {Status(200), Status(503), Quota}

AllInputs == {In(0, FALSE), In(1, FALSE), In(2, TRUE), In(3, FALSE)}
SmallInput == {In(1, FALSE)}
=============================================================================
