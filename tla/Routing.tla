------------------------------ MODULE Routing ------------------------------
(***************************************************************************)
(* From a model name to the ordered list of endpoints to try: ResolveModel *)
(* and EndpointsForModel of internal/config/config.go and the selection    *)
(* functions of internal/proxy/handler.go.                                 *)
(*                                                                         *)
(* Each request handler is a process q.  It asks the Reloader for the      *)
(* configuration anew at every stage, and looks at one endpoint's cooldown *)
(* at a time, so reloads, failures and other requests fall in between.     *)
(*                                                                         *)
(* A configuration is a record.  The model name a client asks for and the  *)
(* pattern of a route are sequences of pieces of text, <<>> being the name *)
(* of a request that states no model.                                      *)
(***************************************************************************)
EXTENDS CooldownTracker, FiniteSets, SequencesExt

CONSTANTS
    Requests,       \* handler goroutines
    Pieces,         \* pieces of the names clients ask for, "*" among them
    Names,          \* model names clients ask for
    Models,         \* model names endpoints serve
    Configs         \* the configurations the file may hold over time

ASSUME NamesAssumption == Names \subseteq Seq(Pieces)

NoModel == <<>>

Endpoint == [name : Endpoints, provider : Providers, rank : Nat \ {0},
             altRank : Nat, enabled : BOOLEAN, allow : SUBSET Models]

Route == [from : Seq(Pieces) \ {<<>>}, to : Seq(Models)]

(* What Load returns: withDefaults has run and Validate has accepted.      *)
ValidConfig(c) ==
    /\ c.endpoints \in Seq(Endpoint) /\ c.endpoints # <<>>
    /\ IsInjective([i \in DOMAIN c.endpoints |-> c.endpoints[i].name])
    /\ \A i \in DOMAIN c.endpoints : c.endpoints[i].allow # {}
    /\ c.routes \in Seq(Route)
    /\ \A i \in DOMAIN c.routes : c.routes[i].to # <<>>
    /\ c.default \in Seq(Models)
    /\ c.scheduler \in {"sequential", "random"}
    /\ c.retry \in Nat \ {0}
    /\ c.bodyLimit \in Nat \ {0}

ASSUME ConfigsAssumption == \A c \in Configs : ValidConfig(c)

(* config.EndpointModelPair, with the rank it is grouped under and its     *)
(* place in the list EndpointsForModel returns.                            *)
Pair == [endpoint : Endpoints, provider : Providers, model : Models,
         rank : Nat \ {0}, pos : Nat \ {0}]

(* The ranks some configuration mentions. *)
Ranks ==
    UNION {UNION {{c.endpoints[i].rank, c.endpoints[i].altRank} :
                    i \in DOMAIN c.endpoints} : c \in Configs}

VARIABLES
    cfg,            \* Reloader.cfg
    rr,             \* Handler.rr: rank -> round-robin counter
    pc,             \* where each handler is
    asked,          \* resolvedModel as read from the body
    targets,        \* targetModels
    todo,           \* pairs whose cooldown is still to be looked at
    scheduler,      \* Policy.Scheduler as this request read it
    group,          \* available pairs of the rank being filtered
    pairs           \* the pairs selected so far, in the order to try them

selectionVars == <<asked, targets, todo, scheduler, group, pairs>>

routingVars == <<now, states, cfg, rr, pc, selectionVars>>

RoutingInit ==
    /\ TrackerInit
    /\ cfg \in Configs
    /\ rr = [k \in Ranks |-> 0]
    /\ pc = [q \in Requests |-> "idle"]
    /\ asked = [q \in Requests |-> NoModel]
    /\ targets = [q \in Requests |-> <<>>]
    /\ todo = [q \in Requests |-> {}]
    /\ scheduler = [q \in Requests |-> "sequential"]
    /\ group = [q \in Requests |-> <<>>]
    /\ pairs = [q \in Requests |-> <<>>]

-----------------------------------------------------------------------------
(* Pure parts *)

(* Mutant: what follows the star is not looked at. *)
MatchPatternPrefixOnly(pattern, name) ==
    \/ pattern \in {<<"*">>, <<"all">>, name}
    \/ \E star \in DOMAIN pattern :
        /\ pattern[star] = "*" /\ \A i \in 1..(star - 1) : pattern[i] # "*"
        /\ IsPrefix(SubSeq(pattern, 1, star - 1), name)

(* Text before the first star must begin the name and text after it end    *)
(* it: the two may overlap, and a second star stands for itself.           *)
MatchPattern(pattern, name) ==
    \/ pattern \in {<<"*">>, <<"all">>, name}
    \/ \E star \in DOMAIN pattern :
        /\ pattern[star] = "*" /\ \A i \in 1..(star - 1) : pattern[i] # "*"
        /\ IsPrefix(SubSeq(pattern, 1, star - 1), name)
        /\ IsSuffix(SubSeq(pattern, star + 1, Len(pattern)), name)

MatchingRoutes(c, m) == {i \in DOMAIN c.routes : MatchPattern(c.routes[i].from, m)}

(* The first matching route, else the default list, which may be empty. *)
ResolveModel(c, m) ==
    IF MatchingRoutes(c, m) = {}
    THEN c.default
    ELSE LET first == CHOOSE i \in MatchingRoutes(c, m) :
                        \A j \in MatchingRoutes(c, m) : i <= j
         IN  c.routes[first].to

IsPeakHours(t) == HourOf(t) \in 14..17

(* Mutant: an endpoint without alt_rank loses its rank at the peak. *)
EffectiveRankUnguarded(ep, peak) == IF peak THEN ep.altRank ELSE ep.rank

EffectiveRank(ep, peak) ==
    IF peak /\ ep.altRank > 0 THEN ep.altRank ELSE ep.rank

(* Which target model each endpoint may serve: the outer loop runs over    *)
(* the targets and the inner one over the endpoints.                       *)
Serves(c, ts) ==
    {ti \in (DOMAIN ts) \X (DOMAIN c.endpoints) :
        /\ c.endpoints[ti[2]].enabled
        /\ ts[ti[1]] \in c.endpoints[ti[2]].allow}

EndpointsForModel(c, ts, peak) ==
    {[endpoint |-> c.endpoints[ti[2]].name,
      provider |-> c.endpoints[ti[2]].provider,
      model    |-> ts[ti[1]],
      rank     |-> EffectiveRank(c.endpoints[ti[2]], peak),
      pos      |-> (ti[1] - 1) * Len(c.endpoints) + ti[2]] :
        ti \in Serves(c, ts)}

(* Mutant: the ranks are not sorted. *)
BeforeInListOrder(p, o) == p.pos < o.pos

(* Ranks ascending, and within a rank the order of the list. *)
Before(p, o) == p.rank < o.rank \/ (p.rank = o.rank /\ p.pos < o.pos)

NextPair(S) == CHOOSE p \in S : \A o \in S \ {p} : Before(p, o)

(* Mutant: the tail is put in front of the whole list. *)
RotatedWithTailTwice(s, k) == SubSeq(s, (k % Len(s)) + 1, Len(s)) \o s

Rotated(s, k) == [i \in 1..Len(s) |-> s[((i - 1 + k) % Len(s)) + 1]]

Shuffles(s) ==
    {[i \in 1..Len(s) |-> s[f[i]]] : f \in Bijection(1..Len(s), 1..Len(s))}

-----------------------------------------------------------------------------
(* One handler's selection.  cfg.Get() is read anew by Resolve, Select and *)
(* ReadScheduler.                                                          *)

Goto(q, label) == pc' = [pc EXCEPT ![q] = label]

Resolve(q) ==
    /\ pc[q] = "resolve"
    /\ targets' = [targets EXCEPT ![q] = ResolveModel(cfg, asked[q])]
    /\ Goto(q, "select")
    /\ UNCHANGED <<now, states, cfg, rr, asked, todo, scheduler, group, pairs>>

(* The pairs, ranked for the hour of this instant. *)
Select(q) ==
    LET all == EndpointsForModel(cfg, targets[q], IsPeakHours(now)) IN
    /\ pc[q] = "select"
    /\ todo' = [todo EXCEPT ![q] = all]
    /\ Goto(q, IF all = {} THEN "selected" ELSE "schedule")
    /\ UNCHANGED <<now, states, cfg, rr, asked, targets, scheduler, group, pairs>>

ReadScheduler(q) ==
    /\ pc[q] = "schedule"
    /\ scheduler' = [scheduler EXCEPT ![q] = cfg.scheduler]
    /\ Goto(q, "filter")
    /\ UNCHANGED <<now, states, cfg, rr, asked, targets, todo, group, pairs>>

(* The rank under way has no pair left to look at. *)
RankDone(q) ==
    \A p \in todo[q] : group[q] # <<>> /\ p.rank # group[q][1].rank

(* filterPairsAvailable, one Tracker.IsAvailable at a time. *)
FilterPair(q) ==
    LET p == NextPair(todo[q]) IN
    /\ pc[q] = "filter"
    /\ ~RankDone(q)
    /\ todo' = [todo EXCEPT ![q] = @ \ {p}]
    /\ group' = [group EXCEPT
                    ![q] = IF IsAvailable(p.endpoint) THEN Append(@, p) ELSE @]
    /\ UNCHANGED <<now, states, cfg, rr, pc, asked, targets, scheduler, pairs>>

(* Mutant: the rank replaces what was selected before it. *)
TakeOverwriting(q, ordered) ==
    /\ pairs' = [pairs EXCEPT ![q] = ordered]
    /\ group' = [group EXCEPT ![q] = <<>>]
    /\ UNCHANGED <<now, states, cfg, pc, asked, targets, todo, scheduler>>

Take(q, ordered) ==
    /\ pairs' = [pairs EXCEPT ![q] = @ \o ordered]
    /\ group' = [group EXCEPT ![q] = <<>>]
    /\ UNCHANGED <<now, states, cfg, pc, asked, targets, todo, scheduler>>

(* Mutant: the counter is read and never moved on. *)
RotateRankStuck(q) ==
    /\ pc[q] = "filter" /\ scheduler[q] = "sequential"
    /\ RankDone(q) /\ Len(group[q]) > 1
    /\ Take(q, Rotated(group[q], rr[group[q][1].rank]))
    /\ UNCHANGED rr

(* rotatePairs: the counter of the rank moves on for every request that    *)
(* finds two pairs or more.                                                *)
RotateRank(q) ==
    LET k == group[q][1].rank IN
    /\ pc[q] = "filter" /\ scheduler[q] = "sequential"
    /\ RankDone(q) /\ Len(group[q]) > 1
    /\ rr' = [rr EXCEPT ![k] = @ + 1]
    /\ Take(q, Rotated(group[q], rr[k]))

TakeSingle(q) ==
    /\ pc[q] = "filter" /\ scheduler[q] = "sequential"
    /\ RankDone(q) /\ Len(group[q]) = 1
    /\ Take(q, group[q])
    /\ UNCHANGED rr

(* randomSelectPairs *)
ShuffleRank(q) ==
    /\ pc[q] = "filter" /\ scheduler[q] = "random"
    /\ RankDone(q) /\ group[q] # <<>>
    /\ \E ordered \in Shuffles(group[q]) : Take(q, ordered)
    /\ UNCHANGED rr

(* Mutant: the selection waits until some endpoint is available. *)
EndSelectionNonEmpty(q) ==
    /\ pc[q] = "filter"
    /\ todo[q] = {} /\ group[q] = <<>> /\ pairs[q] # <<>>
    /\ Goto(q, "selected")
    /\ UNCHANGED <<now, states, cfg, rr, selectionVars>>

EndSelection(q) ==
    /\ pc[q] = "filter"
    /\ todo[q] = {} /\ group[q] = <<>>
    /\ Goto(q, "selected")
    /\ UNCHANGED <<now, states, cfg, rr, selectionVars>>

SelectionStep(q) ==
    \/ Resolve(q) \/ Select(q) \/ ReadScheduler(q)
    \/ FilterPair(q) \/ RotateRank(q) \/ TakeSingle(q) \/ ShuffleRank(q)
    \/ EndSelection(q)

(* checkAndReload has swapped the configuration. *)
Reload ==
    /\ cfg' \in Configs \ {cfg}
    /\ UNCHANGED <<now, states, rr, pc, selectionVars>>

-----------------------------------------------------------------------------
(* Selection on its own: requests arrive once each, while the clock runs   *)
(* and other traffic makes endpoints fail and recover.                     *)

Ask(q) ==
    /\ pc[q] = "idle"
    /\ \E m \in Names : asked' = [asked EXCEPT ![q] = m]
    /\ Goto(q, "resolve")
    /\ UNCHANGED <<now, states, cfg, rr, targets, todo, scheduler, group, pairs>>

OtherTraffic ==
    /\ Tick \/ \E e \in Endpoints : AttemptFails(e) \/ AttemptSucceeds(e)
    /\ UNCHANGED <<cfg, rr, pc, selectionVars>>

RoutingNext ==
    \/ OtherTraffic
    \/ Reload
    \/ \E q \in Requests : Ask(q) \/ SelectionStep(q)

RoutingSpec ==
    /\ RoutingInit /\ [][RoutingNext]_routingVars
    /\ \A q \in Requests : WF_routingVars(SelectionStep(q))

-----------------------------------------------------------------------------
RoutingTypeOK ==
    /\ TrackerTypeOK
    /\ cfg \in Configs
    /\ rr \in [Ranks -> Nat]
    /\ pc \in [Requests ->
                {"idle", "resolve", "select", "schedule", "filter", "selected"}]
    /\ asked \in [Requests -> Names \cup {NoModel}]
    /\ targets \in [Requests -> Seq(Models)]
    /\ \A q \in Requests : todo[q] \subseteq Pair
    /\ scheduler \in [Requests -> {"sequential", "random"}]
    /\ group \in [Requests -> Seq(Pair)]
    /\ pairs \in [Requests -> Seq(Pair)]

(* "supports the wildcard *" and "default: the models when none matches"   *)
(* (README.md:43-45): a request goes where the first route says whose      *)
(* pattern is its name with some text for the star.  It does so for a      *)
(* pattern with one star and no more text than the name has; otherwise the *)
(* parts before and after the star may overlap (config.go:207-211).        *)
Spells(pattern, name) ==
    \/ pattern \in {name, <<"all">>}
    \/ \E star \in DOMAIN pattern, last \in 0..Len(name) :
        /\ pattern[star] = "*"
        /\ name = SubSeq(pattern, 1, star - 1) \o SubSeq(name, star, last)
                     \o SubSeq(pattern, star + 1, Len(pattern))

(* No pattern has a second star, and its two ends do not overlap in a name *)
(* they both match.                                                        *)
PlainPatterns ==
    \A c \in Configs : \A i \in DOMAIN c.routes, name \in Names \cup {NoModel} :
        LET pattern == c.routes[i].from IN
        \A star \in DOMAIN pattern : pattern[star] = "*" =>
            /\ \A other \in DOMAIN pattern : pattern[other] = "*" => other = star
            /\ /\ IsPrefix(SubSeq(pattern, 1, star - 1), name)
               /\ IsSuffix(SubSeq(pattern, star + 1, Len(pattern)), name)
               => Len(pattern) <= Len(name) + 1

Spelling(c, m) == {i \in DOMAIN c.routes : Spells(c.routes[i].from, m)}

RoutedAsConfigured ==
    \A q \in Requests : pc[q] = "select" =>
        \E c \in Configs :
            \/ Spelling(c, asked[q]) = {} /\ targets[q] = c.default
            \/ \E i \in Spelling(c, asked[q]) :
                /\ \A j \in Spelling(c, asked[q]) : i <= j
                /\ targets[q] = c.routes[i].to

(* "rank: the smaller the higher" (README.md): whatever the scheduler, and *)
(* however cooldowns change while the pairs are looked at, a request never *)
(* tries an endpoint before one of a smaller rank.                         *)
RankOrder ==
    \A q \in Requests :
        LET chosen == pairs[q] \o group[q] IN
        /\ \A i, j \in DOMAIN chosen : i < j => chosen[i].rank <= chosen[j].rank
        /\ \A i \in DOMAIN chosen, p \in todo[q] : chosen[i].rank <= p.rank

(* No pair of the request is lost or tried twice: a pair disappears only   *)
(* in a step that finds its endpoint cooling, and reordering a rank        *)
(* neither drops nor repeats any.                                          *)
Kept(q) == todo[q] \cup ToSet(group[q]) \cup ToSet(pairs[q])

OnlyCoolingDropped ==
    [][\A q \in Requests : \A p \in Kept(q) \ Kept(q)' :
          ~IsAvailable(p.endpoint)]_routingVars

EachPairOnce ==
    \A q \in Requests :
        /\ IsInjective(pairs[q] \o group[q])
        /\ ToSet(pairs[q] \o group[q]) \cap todo[q] = {}

(* Round robin: among the requests that found the same available pairs of  *)
(* a rank at the head of their list, no pair leads more than one request   *)
(* more often than another.  Stated for traffic without failures, reloads  *)
(* or a second model, where every request finds the same pairs.            *)
LeadCount(p) == Cardinality({q \in Requests : pairs[q] # <<>> /\ pairs[q][1] = p})

EvenRotation ==
    \A q \in Requests : \A i, j \in DOMAIN pairs[q] :
        /\ pairs[q][i].rank = pairs[q][1].rank
        /\ pairs[q][j].rank = pairs[q][1].rank
        => LeadCount(pairs[q][i]) <= LeadCount(pairs[q][j]) + 1

(* The traffic this is about: nothing fails, the file is never changed,    *)
(* and a request is offered the same pairs whatever it asks for, and when. *)
CalmTraffic ==
    /\ Replies = {}
    /\ \E c \in Configs : Configs = {c} /\ c.scheduler = "sequential"
    /\ \A c \in Configs, m, n \in Names, t, u \in Clock :
          EndpointsForModel(c, ResolveModel(c, m), IsPeakHours(t))
            = EndpointsForModel(c, ResolveModel(c, n), IsPeakHours(u))

(* The config file "atomically swaps the config" (reloader.go:11): with    *)
(* nothing cooling, a request that every configuration can serve is not    *)
(* turned away for want of endpoints because a reload fell between two     *)
(* reads of the configuration.                                             *)
Servable(c, m) == Serves(c, ResolveModel(c, m)) # {}

ReloadIsAtomic ==
    \A q \in Requests :
        /\ pc[q] = "selected"
        /\ \A c \in Configs : Servable(c, asked[q])
        /\ \A e \in Endpoints : states[e] = NeverFailed
        => pairs[q] # <<>>

(* Every selection ends: the rank loop never waits for an endpoint. *)
SelectionEnds == \A q \in Requests : pc[q] = "resolve" ~> pc[q] = "selected"
=============================================================================
