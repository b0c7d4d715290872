# MiniRoute in TLA+

MiniRoute is a small reverse proxy for model endpoints: clients speak the
Anthropic protocol to it, it picks an upstream endpoint that may serve the model
they ask for, tries the next one when that fails, keeps failing endpoints out of
rotation for a while, and logs every request and attempt in SQLite for an admin
page. This directory holds TLA+ modules for its parts, from the cooldown policies to
the page in the browser, TLC configurations that check them on small instances,
and TLAPS proofs of the facts that matter for every instance.

`tlc -config Tracker.cfg MCTracker` runs a configuration, `tlapm
TrackerProofs.tla` checks the proofs. `PROJECT.json` lists runs, theorems,
findings, hazards and, definition by definition, the source lines they stand for.

## 1. The system

Paths are relative to `src/internal` unless they say otherwise.

| Part | State | Operations | Talks to |
|---|---|---|---|
| Cooldown policies, `cooldown/provider.go` | none | `MiniMaxCooldown`, `GLMCooldown`: a duration from status, body and wall clock | called by the tracker |
| Cooldown tracker, `cooldown/cooldown.go` | endpoint -> (deadline, consecutive errors), under a mutex | `IsAvailable`, `SetCooldown`, `ClearCooldown`, `GetAllStates` | every request handler, admin API |
| Endpoint selection, `proxy/handler.go:538-642`, `config/config.go:187-231` | one round-robin counter per rank, shared by all requests | `ResolveModel`, `EndpointsForModel`, rank groups with peak-hour ranks, availability filter, rotation or shuffle | reloader (configuration), tracker |
| Proxy handler, `proxy/handler.go` | in-flight gauge; per request the two attempt loops | `handleAnthropicProxy`, `callUpstream`, `finishWithError` | selection, tracker, store, upstreams, client |
| Request log, `store/sqlite/store.go` | tables `requests`, `attempts` | three writes (`InsertRequest`, `InsertAttempt`, `FinalizeRequest`), the reads of the admin side | handlers write, admin API reads |
| Configuration and reloader, `config/*.go` | current configuration, last modification time seen | `Load`, `Validate`, `Get`, poll and swap every 5 s | everything reads it |
| Lifecycle, `app/app.go`, `src/cmd/miniroute/main.go` | two HTTP servers, the reloader goroutine, the database | start, signal, shutdown within 30 s, close | all |
| Admin API and queries, `adminapi/handler.go`, `query/query.go` | none | read-only JSON views, several statements each | store, tracker, configuration, gauge |
| Admin page, `adminapi/static/app.js` | in the browser: filter, cards, opened details, polls and fetches under way | poll every second, render, open and close a detail | admin API |

What is hard in it:

* Every request is a goroutine of its own; they share the tracker, the counters,
  the configuration and the gauge. A selection looks up one endpoint's cooldown at
  a time and reads the configuration anew at every stage, so failures, recoveries,
  reloads and the start of the peak hours fall in between.
* A request walks through two nested loops (endpoints, retries) with four
  counters and three ways out; an answer is either withheld and retried or
  committed to the client, never both.
* The client may leave at any step. Its context is then cancelled: upstream calls
  fail without being sent and no statement on the log is executed any more.
* Cooldown deadlines come from wall-clock arithmetic with day boundaries, and
  through three levels of defaults.
* Everything written to the log is best effort; it must not contradict what the
  client saw.
* A stop drains two servers one after the other within one grace period, while the
  second still accepts requests; then the database goes, under whoever is left. A
  crash leaves the tables as they are, and the next process finds them so.
* A dashboard request makes up to a dozen reads of tracker, configuration and
  tables, without a transaction, while handlers write.
* The page asks without waiting for answers, which overtake each other; cards that
  a fetch belongs to may be gone, or be there again, when it is answered.

What makes each part correct:

* Policies and tracker: each failure keeps the endpoint out for a positive time;
  an exhausted token plan until its next window, no less and no more; a success
  forgets everything.
* Selection: never a larger rank before a smaller one; no pair lost except to a
  cooldown, none tried twice; the lead spread evenly over equals; a request that
  is servable before and after a reload is served during it; selection ends.
* Handler: exactly one answer; failover to the very last retry of the last pair
  before a 502; numbering without gaps or repeats; every request ends; the gauge
  counts the running handlers.
* Log: a closed row agrees with the answer and with the attempts table; rows do
  not stay open.
* Reloader: what is on disk is eventually what is served.
* Lifecycle: within the grace period no handler loses the database; a stop that
  ends in it costs no answer and leaves no row open; every stop ends.
* Readers: a finished request is shown with all its attempts; token windows are
  nested; errors shown can be traced to attempts shown.
* Page: no detail hangs in "loading"; what the user opened stays open (it does not
  always: finding 4); when things come to rest the page shows the list.

## 2. Modules

| Module | Models | Extends |
|---|---|---|
| `CooldownPolicy` | `provider.go` and the defaulting chain of `SetCooldown`, as operators; the documented windows as a reference definition | |
| `CooldownTracker` | `cooldown.go`: variables `now` (the wall clock) and `states`; `SetCooldown`, `ClearCooldown`, `Tick` | `CooldownPolicy` |
| `Routing` | selection: `cfg` is `Reloader.cfg`, `rr` is `Handler.rr`; per request `asked`, `targets`, `todo`, `scheduler`, `group`, `pairs` | `CooldownTracker` |
| `Proxy` | the handler with body, calls, retries, answer, log, cancellation; any number of requests | `Routing` |
| `Reloader` | `reloader.go` with its start in `main.go` and `app.go`: the file as a sequence of saves, `cfg`, `modTime` and the check under way | |
| `Gateway` | abstract specification: what the proxy promises a client, and what the log will say | |
| `Lifecycle` | `main.go` and `app.go`: start, listeners, signal, shutdown, closing of the store, crash and restart, around the gateway | `Gateway` |
| `Views` | the reads of `store.go`, as `query.go` and `adminapi/handler.go` put them together, next to the handler's writes; adds the time columns of the tables | `Proxy` |
| `Page` | the requests page of `app.js` with the list query | |
| `PageMemory` | no code: `Page` next to a history variable, the details the user opened and has not closed | `Page` |
| `TrackerProofs` | theorems about the tracker and its policies | `CooldownTracker`, `TLAPS` |
| `RoutingProofs` | theorems about selection: order, repetition, loss, routes | `Routing`, `TLAPS` |
| `ProxyProofs` | theorems about the handler: one answer, refinement of `Gateway` | `Proxy`, `TLAPS` |
| `LedgerProofs` | theorems about log, gauge and failover, and about tracker and selection under the real handlers | `ProxyProofs`, `RoutingProofs` |
| `ViewsProofs` | theorems about what the admin API shows | `Views`, `LedgerProofs` |
| `ReloaderProofs` | theorems about the reloader | `Reloader`, `TLAPS` |
| `LifecycleProofs` | theorems about start, stop and crash | `Lifecycle`, `TLAPS` |
| `PageProofs` | theorems about the page's details and list | `Page`, `TLAPS` |
| `MCTracker`, `MCRouting`, `MCProxy`, `MCViews` | values for the constants | the module of that name |

Three modules are runnable on their own: the tracker is driven by arbitrary
callers (`TrackerSpec`), the selection by other traffic that makes endpoints fail
and recover (`RoutingSpec`), and `Proxy` composes both with the real caller
(`Spec`, `FairSpec`). The same operators are used in all three, so that
`SetCooldown` of the proof module is the one the handler calls. `Reloader` stands
by itself: for a request only the instant of the swap matters, which is the action
`Reload` of `Routing`.

`Gateway` is the joint between two scales. `Proxy`, at the scale of statements,
refines it (property `ImplementsGateway`, theorem `StepsImplementGateway`);
`Lifecycle` puts it into processes that start, stop and crash, where the inside of
a handler does not matter. `Views` adds readers to `Proxy`, so that what they see
is what the real writers write, in their order. `Page` is the other end of the list
query; what the table does there (rows appear, in any order of their start times,
and are closed once) is all the page depends on.

### How actions correspond to code

`pc[q]` is where the handler of request q stands. Its labels, in the order the
code meets them:

| Label | Next action | Code |
|---|---|---|
| `idle` | `Arrive` | handler entered, gauge incremented (57-59) |
| `body` | `ReadBody`, `FailBody` | `readBodyForRouting`, 400 on error (66-77) |
| `resolve` | `Resolve` | `cfg.Get().ResolveModel` (80) |
| `select` | `Select` | `cfg.Get().EndpointsForModel`, peak test and grouping (538-570) |
| `schedule` | `ReadScheduler` | `cfg.Get().Policy.Scheduler` (547) |
| `filter` | `FilterPair`, `RotateRank`, `TakeSingle`, `ShuffleRank`, `EndSelection` | the rank loop (577-642) |
| `selected` | `Refuse`, `Open` | no pairs: 502 (117-121); else `InsertRequest` and the retry limit (126-133) |
| `send` | `Send`, `SendFails`, `BuildFails` | `callUpstream` up to `client.Do` |
| `wait` | `TransportFails`, `ReplyIsRetryable`, `CommitReply` | outcome of `client.Do` (312-360) |
| `copy` | `CopyBody` | streaming or copying the body (362-411) |
| `record` | `Cool` | `SetCooldown` after a failure (164-167) |
| `log` | `Finished`, `RetrySame`, `FallBack`, `Exhaust` | `InsertAttempt`, `ClearCooldown` after a success, the loops (178-217) |
| `finalize` | `Finalize` | `FinalizeRequest` with the counters (230-251) |
| `exhausted` | `GiveUp` | `finishWithError`, 502 (220-228) |
| `done` | | returned, gauge decremented |

An action spans several statements only where no other actor can tell: in `Open`
the insert touches the request's own row and the retry limit the configuration,
in `RecordAttempt` the insert touches the request's own attempts and the tracker
comes after it, in `Finalize` and `GiveUp` the update touches the request's own
row and the rest the request's own response. `Cancel` may fall before or after
each of them, and a cancellation during a statement has one of the two outcomes.

In `Lifecycle`, `main` is where the main goroutine stands:

| `main` | Next action | Code |
|---|---|---|
| `off` | `Start` | `main` up to `Run`, `app.New`, `sqlite.Open` |
| `run` | `BeginShutdown` | `Run`'s `select` (79-85), then `adminServer.Shutdown` closes its listener (92) |
| `admin` | `AdminStopped` | it returns when idle or out of time; `proxyServer.Shutdown` closes the proxy's listener (93) |
| `proxy` | `ProxyStopped` | it returns likewise |
| `close` | `CloseStore` | `store.Close` (94) |
| `exit` | `Exit` | `main` returns, or `log.Fatalf` |

Beside it, `Listen` and `ListenFails` are the two server goroutines (68-77),
`Signal`, `GraceOver` and `Crash` what comes from outside, `Request`, `Depart`,
`Handle` and `HandleUnlogged` (on a closed store) the proxy's handlers,
`ReadBegins` and `ReadEnds` those of the admin server.

In `Views`, `view` is where an admin request stands. A detail or a download is
`ReadRow`, `ReadAttempts` (`store.go:181`, `:232`); the dashboard is `ReadTracker`
(`adminapi/handler.go:149`), `ReadEndpoints` (150), `ReadStats` per endpoint
(`query.go:51`), `EndStats`, five times `SumTokens` (105-121), `Respond`; the
endpoints request ends with `EndStats`. `Serving` is any step of `Proxy` together
with the time columns of what it inserts.

In `Page`, `Poll` and `ChangeFilter` read the filter and send (172-179), `Serve` is
the list query, `Lost` any failure, `Apply(i)` the callback with an answer: filter,
render, sync (180-194, 268-310). `ToggleOpen`, `ToggleClosed` and `FetchEnds` are
`toggleReqDetail` up to, and after, its `await`.

### Abstractions

* Time is a count of ticks since a midnight; 0 is Go's zero time. One tick is
  half a minute in the models, in which all cooldown durations of the code are
  whole (network timeouts are nondeterministic outcomes and need no clock). The
  clock may skip instants of `Clock`; it does not go backwards, and days have 24
  hours (no daylight saving).
* A reply of an upstream is its status and the six fields the policies may read
  from its body, 0 for one that is missing or has another type.
* A model name a client asks for and a route's pattern are sequences of pieces of
  text; `MatchPattern` does with them what `matchPattern` does with characters.
  `NoModel`, the empty sequence, is what a body without a readable model yields.
* A request is a model, a body length (in units of the smallest limit) and
  whether its path fails to make a URL again. A cut body is not valid JSON.
* Headers, authentication, payload previews, token estimates, TTFT and latency
  carry no control and are left out.
* The store's statement fails on a cancelled context and succeeds otherwise;
  `SQLITE_BUSY` after the driver's busy timeout is not modelled.
* `Cancel` stands for whatever makes `net/http` cancel a request's context. It
  may strike before the body is read to its end, when the server could not yet
  notice; this is the same as striking right after.
* Redirects that `http.Client` follows are part of one call.
* `Gateway` has one step for the status line and one for the return, during which
  the row is closed; in `Lifecycle` a crash falls between or beside them. After an
  endpoint's answer the client has its status line before the row is closed, so that a
  crash in between is the one before the return. `finishWithError` is the other way
  round: it closes the row (`handler.go:265`) and then calls `http.Error` (`:266`),
  which is one step here (`Refuse`, `GiveUp`, `Fail`). A crash between the two
  leaves a row closed with 502 whose client got no status line; the models do not have
  that state, and no property speaks of it: `CleanRunsComplete` leaves out the
  requests in hand at a crash, and `Proxy` has no crashes.
* In `Lifecycle` a process that cannot open its database or load its configuration
  does not start; idle connections, which `Shutdown` closes at once, are left out;
  a panic inside a handler, which `net/http` confines to its connection, too.
* In `Views` a sum of tokens is the set of rows it adds up, so that sums compare as
  sets. A month begins at one of the midnights `MonthStarts`. One admin request is
  followed at a time: readers change nothing that another could see.
* In `Page` a request id is its start time, two requests do not start in the same
  millisecond, and the list changes with time only through the table. The text
  filter for the model is one more filter that the page applies to the same rows.

## 3. Runs

| Run | Question | Instance |
|---|---|---|
| `tracker` | Does every failure cool, does an exhausted plan rest until its window opens? | 2 endpoints, all 4 providers, 7 replies, 16 instants around each window boundary of a day, up to 2 errors in a row |
| `tracker_quota` (violation) | Does it rest no longer than that? | the same |
| `routing` | Route, order, loss, repetition and termination of a selection | 1 request under 4 names, 3 routes, 3 endpoints in 3 ranks, a change of ranks at 14:00, two configurations, both schedulers, other traffic |
| `round_robin` | Is the lead spread evenly? | 4 concurrent requests over 3 equals and a reserve: the counter wraps |
| `reload_between_reads` (violation) | Does a reload ever refuse a servable request? | as `routing`, without other failures |
| `reloader` | Is what is saved eventually served, is nothing invalid ever served, does Stop end it? | 4 saves, valid or not, the file moved away and back, at any step |
| `handler` | One answer, exhaustive failover, honest log, an end to every request, refinement of `Gateway` | 1 request of 4 kinds (no body, small, bad path, too large), 5 replies, 2 configurations with up to 2 retries and 2 pairs, 3 instants, reloads, cancellation anywhere |
| `quota_cut_short` (violation) | Does a cooldown for an exhausted plan hold? | 1 request over 2 endpoints, 3 replies, one instant |
| `lifecycle` | Does a stop given its time complete what was accepted, does it end, what does a crash leave? | 2 requests, 1 admin reader, 2 processes, signals, failing listeners and crashes at any step |
| `views` | Does what the dashboard shows hold together, gauge and cooldowns included? | 2 requests (symmetric), at most 1 of which loses its client, 1 endpoint, a midnight between the two instants, every interleaving of statements |
| `page` | Does a detail hang, does an answer in time close one, does the list come right? | 2 requests, of which the list shows 1, 3 filters, 2 polls or answers on their way, 2 fetches per card |
| `expanded_state` (violation) | Does what the user opened stay open across refreshes and filters? | 2 requests, both on the list, 3 filters, one poll at a time |

Why these bounds are enough. The policies depend on the hour and on whether a
reset lies before or after `now`: the instants include both sides of every
boundary. Two endpoints show any interference through the tracker, three are the
least for which a rotation differs from a swap. The loops have the shapes first /
middle / last try and first / last pair: 2 retries and 2 pairs have them all.
One request meets every *effect* of other requests in `routing` (endpoints fail
and recover at any step) and reloads in `handler`; `views` and `round_robin` have
the real other requests. `AllAnswered` is checked for one request: others reach it
only through the tracker, the counters and the configuration, and `SelectionEnds` is
checked with these changing at any step. `MaxErrors` bounds `ConsecErrors` of `TrackerSpec`
only; a larger count behaves like 1. Requests arrive once each; in the proxy
configurations TLC's deadlock check is off because all of them may be done.
`MaxStarts` 2 has every kind of end followed by a start; `MaxAttempts` bounds how
often the gateway logs, which no other state depends on. In `views`, `MaxGone`
bounds how many clients leave. In `page`, a limit of 1 over two rows makes a row
push the other off the list, and two polls are enough for one to overtake the
other (with three, and two filters, the run passes as well, on 314 thousand states).

Fairness. `FairSpec` asks for weak fairness of each handler's own steps and of
nothing else: no arrival, reload, cancellation or tick need ever happen. It is
what the code gives: a body ends or the server's `ReadTimeout` ends the read, a
call ends by `client.Timeout`, which covers headers and body, statements and
mutexes are short. The one assumption about the outside is that a client takes
what it is sent or goes away. Nothing in the code ends a write to one that does
neither: `WriteTimeout` is 0, and `client.Timeout` ends reading the upstream body,
not a blocked write, so that such a client holds its handler as long as it likes.
`AllAnswered` is about all other clients. `RoutingSpec` asks the same for the
selection.

`Reloader`'s specification has weak fairness of start and checks, because the
ticker goes on, and strong fairness of `Quit`: of the ready cases of a `select` Go
picks one at random, so a closed channel is not passed over for ever. Editing,
moving and stopping are under no obligation.

`LifeSpec` has weak fairness of what the main goroutine does next and of the end of
the grace period, a timer. It has none of the handlers: a client that does not take
its answer may keep one for ever. `PageSpec` has weak fairness of `Poll`, a timer, and of
taking the oldest answer, and strong fairness of `Serve`: of all the list requests
under a filter, which may fail now and then, not all fail. `Views` checks safety
only.

### What the properties say

* `FailureCools`, `DeadlineMatchesErrors`, `QuotaOutlastsWindow`: see section 1.
* `RoutedAsConfigured`: what `matchPattern` does with prefixes and suffixes is what
  a wildcard means, for one star and names long enough, and the first route wins.
* `RankOrder`, `EachPairOnce`, `OnlyCoolingDropped` together: the list a request
  ends with is the servable pairs in rank order, each once, less those it saw
  cooling, with whatever the tracker, the clock and the file did meanwhile.
* `EvenRotation`: among equals no pair leads two more requests than another.
* `AnswerOnce`, `FailoverExhaustive`: header written exactly once; a 502 only
  after `pairs x (1 + retry)` attempts, in order.
* `LedgerMatchesAnswer`, `LedgerCountsAttempts`: a closed row has the status the
  client got, its counters add up and agree with the attempts table.
* `NoSaveHidden`, `NoticedChange`: a save that falls between the two looks of a
  check at the file is found by the next one; failed loads do not matter. Two
  saves are taken to have different modification times.
* `CooldownsExplained`: each error the tracker holds is a failed attempt
  somebody logged or is about to log.
* `ImplementsGateway`: `Proxy` refines `Gateway`, liveness included: after the
  mapping of `pc` to `new`/`active`/`over`, of `cancelled` to the client that left,
  of `sent` to the answer, of `rows` to the ledger and of the number of logged
  attempts, each step is a step of `Gateway` or a stutter.
* `DbOutlivesHandlers`, `CleanRunsComplete`, `StopHeeded`: the order of
  `Shutdown`'s calls is what makes the first true; the second joins it with the
  gateway's promise across restarts: only a crash, an expired grace period or the
  client itself can leave a request unanswered or its row open.
* `DetailComplete`, `WindowsNested`: hold because of the order of the statements
  (row before attempts, narrow window before wide) against the order in which the
  handlers write; either order turned round breaks them.
* `ErrorsTraceable`: the tracker counts a failure before it is logged, and the
  dashboard reads the tracker before the log: what is counted and not yet logged
  is at most what the handlers are about to log (`Logging`).
* `NeverStuckLoading`, `TimelyAnswerKeepsOpen`, `ListSettles`: what the page does
  keep under overlapping polls. `TimelyAnswerKeepsOpen` says which answers keep details
  open: those not overtaken, for the requests that belong under their filter. The
  claim of the page's code is wider, and does not hold (finding 4).

### Findings

Four runs are expected to violate their property; each compares the code with
what its own comments or documents say.

1. `tracker_quota`: from 20:00 on the quota cooldown is a day too long. Hour 24
   is normalised to the next midnight by `time.Date`, and `provider.go:81` adds
   another day.
2. `reload_between_reads`: a reload between `ResolveModel` and
   `EndpointsForModel` turns a request away that both configurations serve.
3. `quota_cut_short`: the retry right after an exhausted plan replaces its
   cooldown by a short one when it fails otherwise.
4. `expanded_state`: "Keep expanded state stable across refreshes/filtering"
   (`app.js:189`), but a request that an answer does not list loses its place in
   `expandedIds`, and its card comes back closed. The run has the plain case, a filter
   chosen and taken back with one poll at a time. With one filter and two polls an
   overtaken answer, made before the request was there, does it to a user who
   touches nothing. `PageMemory` adds to `Page` what the user remembers.

Two more behaviours disagree with what the repository says, without a run of their
own:

* A body above `max_parse_body_bytes` is cut there and the rest forwarded
  (`handler.go:654-658`), while `src/README.md:5` has requests forwarded unchanged
  ("原封不动") and calls the limit the largest body (`:36`). The models follow no
  bytes: what is left of it in `ReadBody` is that the cut body names no model.
* A configuration saved between `Load` in `main` and the `Stat` of `NewReloader` is
  not served until it is saved again, because its time is the one kept, while
  `reloader.go:10-11` has the file watched for changes. `Reloader` has this behaviour
  (`LoadAtStart`, `Save`, `NewReloader`); `NoticedChange` leaves it out: it says that
  a save with a time other than the one kept is noticed.

Other behaviours that a reader of the code may not expect:

* A client that leaves after its row was inserted leaves it open for ever, because
  `FinalizeRequest` runs on its cancelled context; the page shows it as in progress
  and its filter lists it among the failed ones. `Gateway` states this.
* A client that leaves makes the rest of its attempts fail at once, and these
  failures put the endpoints in cooldown for everybody (`handler.go:166`).
* A long stream that ends with success clears a cooldown set after it began
  (`handler.go:191`), and models that share a rank share its counter (`:636`).
* An admin request that does not end uses up the proxy's part of the grace period
  (`app.go:92-93`). `config.example.yaml:5` offers `shutdown_grace_ms`,
  which is read (`config.go:109`) and not used.
* A pattern's text before and after its star may overlap in a name, and a second
  star stands for itself (`config.go:206-211`).
* A detail is loaded once per card: that of a request in progress is not refreshed
  when it ends; and if, of two fetches that overlap, the later fails, its error
  stays although the detail counts as loaded (`app.js:325`, `:365`).
* The page's filters look at the newest 200 rows; the server ignores `model`.
* The copy kept of a response ends at 2 MiB (`cappedBuffer`, `handler.go:388`), and
  `summarizePayload` counts the copy, so `payload_full_truncated` stays false for
  any longer response; a cut inside a character makes the copy invalid UTF-8, which
  is recorded as "[binary payload omitted]".
* `accesslog.go` wraps the `ResponseWriter` in a type without `Flush`, so that the
  test for `http.Flusher` in `handler.go:358` fails and nothing is flushed early.

## 4. Proofs

`TrackerProofs` proves for every set of endpoints, clock, set of replies and
choice of positive durations (`DurationAssumption`, `ClockAssumption`,
`RepliesAssumption`, which TLC evaluates for each instance):

* `TrackerTypeCorrect`, `DeadlinesMatchErrors`: the invariant `TrackerInv` is the
  conjunction of the type invariant and `DeadlineMatchesErrors`. The latter is
  not inductive alone: that a deadline is not 0 after a failure needs a clock in
  `Nat \ {0}` and a cooldown that is a positive number, which is what the lemmas
  about the policies show (`CooldownIsPositive` from `MiniMaxNotNegative`,
  `GLMNotNegative` and the window arithmetic).
* `FailuresCool`: the action property, from the same invariant. A step that
  raises the error count is `SetCooldown`, whose deadline lies after `now`.
* `QuotaIsRespected`: an exhausted plan rests until the next documented window
  and the buffer. `NextWindow` is defined by choice from the documented starts;
  `LeastAfterUnique` turns the choice into a fact, and the case split over the
  five windows shows the code's boundary is not earlier (`BoundaryNotEarly`). That
  it may be later is finding 1.

`ReloaderProofs` proves for any number of saves `ReloaderTypeCorrect`,
`OnlyValidServed` and `SavesAreNotHidden` (the safety properties of run `reloader`). The invariant adds
`CheckSound` to the type: while a check has seen a time, the file is no older, and
what it has loaded is valid and no older than that time; without it a swap could
store anything.

`ProxyProofs` proves for every set of requests, endpoints, inputs, replies and
valid configurations:

* `AnsweredOnce`: `AnswerOnce` is inductive together with the types of `pc`,
  `sent` and `outcome` (`AnswerInv`). A step of one request is described by
  `MovesOnly`, which is why it leaves the others' answers alone
  (`MoveKeepsOthers`); the steps fall into five kinds (quiet, failing, answering,
  answered, cooling), one lemma each.
* `StepsImplementGateway`: under the mapping of run `handler`, `Init` implies
  `G!Init` and every step is a step of `Gateway` or a stutter. The mapping alone
  does not carry: that the status written into the row is the one the client got
  needs `StatusKnown` (between committing and returning, `outcome` holds that
  status), and that a row is opened once and closed once needs `RowAsDue`. Both
  are `LogInv`. Steps the gateway does not show are treated by `HiddenStep`, the
  others by one lemma each.

  The gateway's guards need more of the handler than its types: that an attempt
  is only logged under an open row, and that nothing is written for a client that
  left, is read off `FinalizeRequest` and the inserts, one lemma per kind of step
  (`AttemptStep`, `CancelStep` and their like).

`LifecycleProofs` proves for every set of requests and readers, any number of
restarts and any bound on attempts:

* `StoreOutlivesHandlers`: `DbOutlivesHandlers` is inductive together with
  `StopInv`, which says what each stage of the shutdown has achieved: from the
  stage `proxy` on the admin server is drained or the time is over, from `close`
  on the proxy is, too, and neither takes requests in any more. A request that
  slips in between two stages would break the stage after, which is why
  the listeners' states are part of it.
* `CleanRunsAreComplete`: from the same invariant and `DoneInv`, the gateway's
  promise restated for requests that are over: answered, and with a closed row
  unless the client left. A step on a closed store cannot concern an unspoiled
  request, which is what `StopInv` gives.

`RoutingProofs` proves for every set of endpoints, names, configurations that
`Validate` accepts and any number of concurrent selections:

* `RoutingTypeCorrect`, `RankOrderKept`, `PairsOnce`, `NothingLost`: none of the
  three is inductive about `pairs` alone. `SelectionDue` says what a request has at
  each label: the pairs still to look at have distinct positions, the group under
  way is of one rank, in the order of the list, and after the pairs taken; everything
  chosen is before everything to come. `SelectionInv` is that for every request. The
  ranks have a first one because numbers do (`LeastNatural`), which makes `NextPair`'s
  choice a pair (`NextPairIsFirst`). That a rotation and a shuffle neither drop nor
  repeat is one lemma, `RankIsShuffled`, from `RotatedIsShuffle`: turning a list by
  any counter is a bijection of its places (`RotationInjective`), whatever the
  counter has grown to.
* `RoutesAreFollowed`: what `matchPattern` accepts is what a wildcard means, for names
  and patterns of any length. The hypothesis `PlainPatterns` (one star, ends that do
  not overlap in a name) is the one the property needs; it is checked on the
  instances as an assumption of `MCRouting`. `EndsAndMiddle` is the lemma on
  sequences behind it: a name is its ends with text between them exactly if it begins
  and ends with them and is long enough for both.

* `RotationIsEven`: in calm traffic (`CalmTraffic`: no failures, one configuration with
  the sequential scheduler, the same pairs offered to every request, which is what
  `EvenRotation` is about and `MCRouting` assumes of the file it is checked with) no pair leads two
  requests more than another. Two facts make it inductive (`CalmInv`): requests that take
  the first rank take the same line of pairs, because a filter that finds all
  available keeps the order of the list (`CalmDue`; of two sorted lines of the same
  pairs one is the other, `SortedAlike`); and the counter modulo the length of the
  line tells who has led once more than the others (`LeadsEven`, `TurnTaken`), which
  later ranks leave alone because they have counters of their own (`LaterRank`).

`LedgerProofs` proves for the same constants and every set of requests and replies,
with reloads, cancellations and the clock at any step:

* `LedgerIsTrue`, `LedgerIsComplete`, `FailoverIsExhaustive`, `ProxyTypeCorrect`, from
  `LedgerInv`. The counters of the two loops are tied to the attempts table by
  `LoopAsDue` and `AttemptsAsDue`: the attempt under way is number
  `(beIdx - 1) * Tries + retryNo + 1`, one more than those logged; retries are those
  logged as such, and one more between deciding on a retry and logging it. `InPlace`
  says which pair each try belongs to, which is what makes a 502 exhaustive.
  `CallAsDue` carries from the call to the log that only an answered request counts
  as successful. A client that leaves suspends `AttemptsAsDue`, since
  inserts then fail, and the row stays open, so that the theorems hold regardless.
* `GaugeIsExact`: the gauge is the number of requests in a running label, which is a
  finite set however many requests there are (`GaugeInv`).
* `CooldownsAreExplained`: the steps that raise an error count and the ones that log
  it are apart; `Backed` counts what is logged and what is in between, and the two
  sets stay finite because a step adds at most one element (`ExplainedInv`).
* `GatewayDeadlines`, `GatewayFailuresCool`, `GatewayRankOrder`, `GatewayPairsOnce`,
  `GatewayNothingLost`: what `TrackerProofs` and `RoutingProofs` show of the parts on
  their own, for `Spec`, where the handlers are the traffic. A step of `Proxy` does
  one of three things to the tracker (`TrackerMoves`), and the selection's
  steps are those of `Routing`.

`ViewsProofs` proves the same way, with a reader at any place in its statements:

* The specification has the handlers' steps as they are, so that behaviours with
  readers are behaviours of `Spec` (lemma `ReadingChangesNothing`, which holds by the
  way the module is put together) and everything above holds in `Views`.
* `DetailIsComplete`, `WindowsAreNested`, `ErrorsAreTraceable`, `ViewsTypeCorrect`: the
  invariant `ViewsInv` relates what was read to the tables as they are now: a row
  read closed is the row still, with its attempts (`ShowsRequest`); whoever a sum
  counted stays countable, so that a wider window, summed later, counts them too
  (`ShowsSums`; `SinceWidens` orders the windows at every instant); errors
  read are backed by failures logged by now or about to be (`ShowsErrors`).
  `ColumnsDue` ties the time columns to the rows and attempts they belong to.

`PageProofs` proves for any number of requests, rows, filters, polls and fetches:

* `DetailsNeverHang`: `NeverStuckLoading` is not inductive alone: a card that is opened
  without a fetch must have something to show, which is `LoadedShows`; `DetailInv`
  joins the two with the types of what they mention. The step that matters is
  `Render`, which takes a card's place in `expandedIds`, its content and its fetches
  away together (`RenderKeepsDetails`).
* `AnswersKeepOpen`: `TimelyAnswerKeepsOpen` is about an answer that may have been
  under way for long. `ListInv` orders the answers: each list is one the table has
  grown out of (`Past`), and one that is not overtaken has every card of an earlier
  list that passes its filter and is still listed (`KeepsFrom`), in particular those
  on the page. New rows only push others off the list (`InsertNarrows`), and a request
  that passes a filter at its end and passed it in progress passed it in between.
* `PageTypeCorrect`: the bound on polls under way is a count of a finite set
  (`PollsInv`), and neither the page nor an answer on its way holds more cards than
  the limit of the query (`ShownInv`).

`LifecycleProofs` also proves `LifeTypeCorrect`, whose content is `errs \in 0..2`: the
channel the servers report to has two places and each server reports once per
process (`ErrorsInv`), so that neither ever blocks on it (`app.go:67-77`).

Assumptions on constants, which TLC evaluates on the instances: durations are
positive and hours not empty; instants are positive and the clock has one; replies,
inputs, names and configurations are of their types, configurations as `Validate`
leaves them; `MonthStarts` are midnights, one of them before every instant
(`MonthStartsAssumption`); limits and bounds are numbers, `MaxPolls` at least 1 (`LimitAssumption`,
`BoundsAssumption`). None bounds the number of requests, endpoints or attempts.

Only model-checked:

* Liveness (`SelectionEnds`, `AllAnswered`, `NoticedChange`, `StopEnds`, `StopHeeded`,
  `ListSettles`) and with it the fair part of the refinement of `Gateway`: the
  prover has neither `ENABLED` nor induction along a behaviour.

Every safety property of a passing run is stated by a theorem. Only two theorems have
hypotheses beyond the assumptions on constants, `RoutesAreFollowed` and
`RotationIsEven`: with other patterns or other traffic the properties they state
need not hold.

Least elements need induction over numbers. The library's induction theorems take the induction hypothesis as an operator, which the
provers cannot instantiate, so `LeastNatural` argues from the set of counterexamples
and the well-foundedness of `<` instead.

## 5. Not modelled

* Pure presentation: templates, style, theme, formatting of values; the overview and
  endpoints pages, which replace all they show with each answer. The access log,
  whose statement is commented out.
* `provider.go.bak`, `provider_test.go.bak`: not compiled.
* In `callUpstream`, the branch without a `ResponseWriter` in the context:
  `app.go:49` always puts one there.
* The bytes of a body, headers and authentication, payload previews, token
  estimates and latencies: no control depends on them.
* `/api/status`: one statement and counters of the moment. `TokenUsageBetween`,
  `Ptr`, `Must`: without a caller.
* Failures of the database other than a cancelled context and a closed store
  (a full disk, `SQLITE_BUSY` after the driver's timeout).

## 6. Plan

1. (done) Policies, tracker, selection, handler, abstract gateway, tracker proofs.
2. (done) Reloader and its proofs.
3. (done) Lifecycle and its proofs; readers; the page; route patterns.
4. (done) Proofs for selection, log, gauge, failover, readers, page and lifecycle types.
5. (done) The proof of `EvenRotation`.
6. Proofs, next: `QuotaOutlastsWindow` in terms of the deadlines the handlers set;
   that what `Gateway` promises holds inside `Lifecycle` between a start and its stop;
   an abstract specification of the tracker that both its own specification and
   the handlers' steps implement.
