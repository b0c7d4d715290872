------------------------------- MODULE Views -------------------------------
(***************************************************************************)
(* The dashboard's reads next to the handlers' writes: GetRequest,         *)
(* EndpointStats1h and the TokenUsage queries of                           *)
(* internal/store/sqlite/store.go, put together by internal/query/query.go *)
(* and internal/adminapi/handler.go.                                       *)
(*                                                                         *)
(* Each SQL statement is one step and sees the tables as they are; an      *)
(* admin request makes several, without a transaction, while requests go   *)
(* on, the clock runs and the configuration is reloaded in between.  A sum *)
(* of tokens is kept as the set of rows it adds up.                        *)
(***************************************************************************)
EXTENDS Proxy, Integers

CONSTANTS
    MonthStarts,    \* the midnights at which months begin
    MaxGone         \* bound on the clients that leave

ASSUME MonthStartsAssumption ==
    /\ MonthStarts \subseteq Nat /\ \A m \in MonthStarts : m % Day = 0
    /\ \A t \in Clock : \E m \in MonthStarts : m <= t

VARIABLES
    started,    \* column start_ts of requests
    begun,      \* attemptStart of the attempt under way
    stamps,     \* column start_ts of attempts
    view,       \* the admin request's next statement
    seen        \* what it has read so far

columns == <<started, begun, stamps>>
viewVars == <<vars, columns, view, seen>>

Windows == {"1h", "5h", "today", "month", "all"}

NothingSeen ==
    [of |-> {}, row |-> NoRow, attempts |-> <<>>,
     errors |-> [e \in Endpoints |-> 0], left |-> {},
     failed |-> [e \in Endpoints |-> 0],
     asOf |-> 0, sums |-> 0, counted |-> [w \in Windows |-> {}]]

ViewsInit ==
    /\ Init
    /\ started = [q \in Requests |-> 0]
    /\ begun = [q \in Requests |-> 0]
    /\ stamps = [q \in Requests |-> <<>>]
    /\ view = "idle"
    /\ seen = NothingSeen

(* The proxy's step, and the time columns of what it writes. *)
Serving ==
    /\ Next
    /\ Cardinality({q \in Requests : cancelled'[q]}) <= MaxGone
    /\ started' = [q \in Requests |->
            IF pc[q] = "idle" /\ pc'[q] = "body" THEN now ELSE started[q]]
    /\ begun' = [q \in Requests |->
            IF pc[q] # "send" /\ pc'[q] = "send" THEN now ELSE begun[q]]
    /\ stamps' = [q \in Requests |->
            IF attempts'[q] # attempts[q] THEN Append(stamps[q], begun[q]) ELSE stamps[q]]
    /\ UNCHANGED <<view, seen>>

-----------------------------------------------------------------------------
(* /api/requests/<id>, and its download: the row, then its attempts.  For  *)
(* a request without a row the answer is 404, and nothing is shown.        *)

ReadRow(q) ==
    /\ view = "idle"
    /\ rows[q].state # "absent"
    /\ view' = "attempts"
    /\ seen' = [seen EXCEPT !.of = {q}, !.row = rows[q]]

ReadAttempts(q) ==
    /\ view = "attempts" /\ seen.of = {q}
    /\ view' = "shown"
    /\ seen' = [seen EXCEPT !.attempts = attempts[q]]

(* Mutant: the attempts are read before the row they belong to. *)
DetailRowLast(q) ==
    \/ /\ view = "idle" /\ rows[q].state # "absent"
       /\ view' = "attempts"
       /\ seen' = [seen EXCEPT !.of = {q}, !.attempts = attempts[q]]
    \/ /\ view = "attempts" /\ seen.of = {q}
       /\ view' = "shown"
       /\ seen' = [seen EXCEPT !.row = rows[q]]

Detail(q) == ReadRow(q) \/ ReadAttempts(q)

-----------------------------------------------------------------------------
(* /api/dashboard, and /api/endpoints, which stops after the statistics    *)

ReadTracker ==
    /\ view = "idle"
    /\ view' = "config"
    /\ seen' = [seen EXCEPT !.errors = [e \in Endpoints |-> states[e].errors]]

ReadEndpoints ==
    /\ view = "config"
    /\ view' = "stats"
    /\ seen' = [seen EXCEPT
            !.left = {cfg.endpoints[i].name : i \in DOMAIN cfg.endpoints}]

Attempts1h(e) ==
    UNION {{<<q, i>> : i \in {j \in DOMAIN attempts[q] :
                /\ attempts[q][j].endpoint = e
                /\ stamps[q][j] >= now - TicksPerHour}} : q \in Requests}

(* Mutant: the difference taken the wrong way round. *)
RecentErrorsNegated(e) ==
    Cardinality({a \in Attempts1h(e) : attempts[a[1]][a[2]].success})
        - Cardinality(Attempts1h(e))

(* total - success, both from one statement. *)
RecentErrors(e) ==
    Cardinality(Attempts1h(e))
        - Cardinality({a \in Attempts1h(e) : attempts[a[1]][a[2]].success})

ReadStats(e) ==
    /\ view = "stats" /\ e \in seen.left
    /\ seen' = [seen EXCEPT !.left = @ \ {e}, !.failed[e] = RecentErrors(e)]
    /\ UNCHANGED view

(* /api/endpoints answers; the dashboard takes one time for its five sums. *)
(* The statistics have been compared by now and need not be kept.          *)
EndStats ==
    /\ view = "stats" /\ seen.left = {}
    /\ \/ view' = "sums" /\ seen' = [NothingSeen EXCEPT !.asOf = now]
       \/ view' = "idle" /\ seen' = NothingSeen

Since(w, t) ==
    CASE w = "1h" -> t - TicksPerHour
      [] w = "5h" -> t - 5 * TicksPerHour
      [] w = "today" -> t - (t % Day)
      [] w = "month" -> Max({m \in MonthStarts : m <= t})
      [] w = "all" -> 0

(* Mutant: the same sums, the widest window first. *)
SumOrderReversed == <<"all", "month", "today", "5h", "1h">>

SumOrder == <<"1h", "5h", "today", "month", "all">>

(* A row has its tokens when it is closed; until then they are NULL. *)
SumTokens ==
    LET w == SumOrder[seen.sums + 1] IN
    /\ view = "sums"
    /\ seen' = [seen EXCEPT
            !.sums = @ + 1,
            !.counted[w] = {q \in Requests : /\ rows[q].state = "closed"
                                             /\ started[q] >= Since(w, seen.asOf)}]
    /\ view' = IF seen.sums + 1 = Len(SumOrder) THEN "shown" ELSE "sums"

(* The answer is on its way; another admin request may follow. *)
Respond ==
    /\ view = "shown"
    /\ view' = "idle" /\ seen' = NothingSeen

Reading ==
    /\ \/ \E q \in Requests : Detail(q)
       \/ ReadTracker \/ ReadEndpoints \/ EndStats \/ SumTokens \/ Respond
       \/ \E e \in Endpoints : ReadStats(e)
    /\ UNCHANGED <<vars, columns>>

ViewsNext == Serving \/ Reading

ViewsSpec == ViewsInit /\ [][ViewsNext]_viewVars

-----------------------------------------------------------------------------
ViewsTypeOK ==
    /\ started \in [Requests -> {0} \cup Clock]
    /\ begun \in [Requests -> {0} \cup Clock]
    /\ \A q \in Requests : stamps[q] \in Seq(Clock) /\ Len(stamps[q]) = Len(attempts[q])
    /\ view \in {"idle", "attempts", "config", "stats", "sums", "shown"}
    /\ seen.row \in Row /\ seen.attempts \in Seq(Attempt)
    /\ seen.errors \in [Endpoints -> Nat] /\ seen.failed \in [Endpoints -> Nat]
    /\ seen.left \subseteq Endpoints
    /\ seen.counted \in [Windows -> SUBSET Requests]

(* A detail page mixes two moments (store.go:181 and :232), but one that   *)
(* shows a request as finished shows every attempt it made, numbered, with *)
(* the deciding one last, although nothing ties the statements together.   *)
DetailComplete ==
    view = "shown" /\ seen.row.state = "closed" =>
        /\ \A q \in seen.of : seen.attempts = attempts[q]
        /\ seen.row.endpoint # <<>> =>
              /\ Len(seen.attempts) = seen.row.finalAttemptNo
              /\ seen.row.endpoint = <<seen.attempts[seen.row.finalAttemptNo].endpoint>>

(* The token table is consistent on its face: the five sums are taken one  *)
(* after the other while requests finish, and still no window shows more   *)
(* than one that contains it (query.go:105-121).                           *)
Containing ==
    {<<"1h", "5h">>, <<"5h", "all">>, <<"today", "month">>, <<"month", "all">>}

WindowsNested ==
    view = "shown" =>
        \A c \in Containing : seen.counted[c[1]] \subseteq seen.counted[c[2]]

(* The errors an endpoint's card shows in a row are backed by the failed   *)
(* attempts it shows next to them, or by one about to be logged, as long   *)
(* as no client has left and no attempt is older than an hour.  They are   *)
(* read at different moments: the tracker's first (adminapi/handler.go:149)*)
(* and the attempts' later, which the handlers fill in the same order.     *)
Recent ==
    \A q \in Requests :
        \A i \in DOMAIN stamps[q] : stamps[q][i] >= now - TicksPerHour

ErrorsTraceable ==
    [][\A e \in seen.left \ seen'.left :
          Recent /\ (\A q \in Requests : ~cancelled[q])
            => seen.errors[e] <= seen'.failed[e] + Cardinality(Logging(e))]_viewVars
=============================================================================
