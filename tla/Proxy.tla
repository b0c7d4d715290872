------------------------------- MODULE Proxy -------------------------------
(***************************************************************************)
(* The request handler of internal/proxy/handler.go, handleAnthropicProxy  *)
(* with callUpstream and finishWithError: read the body, select pairs, try *)
(* them in order with retries, pass the answer on and keep the request log *)
(* of internal/store/sqlite/store.go.  Handlers run concurrently over one  *)
(* tracker, one configuration and one set of round-robin counters.         *)
(*                                                                         *)
(* The client may go away at any moment.  Its request's context is then    *)
(* cancelled, which is seen by whatever uses that context: the upstream    *)
(* call and every statement on the database.                               *)
(***************************************************************************)
EXTENDS Routing

CONSTANTS Inputs        \* the requests clients may make

Input == [model : Names, size : Nat, badPath : BOOLEAN]

ASSUME InputsAssumption == Inputs \subseteq Input

VARIABLES
    inflight,       \* Handler.inflight
    request,        \* what each client sent
    cancelled,      \* the client is gone, r.Context() is done
    loop,           \* the counters of the attempt loops
    outcome,        \* what callUpstream returned or is about to
    sent,           \* statuses written to the client's ResponseWriter
    rows,           \* table requests
    attempts        \* table attempts, in order of insertion

sharedVars == <<now, states, cfg, rr>>
callVars == <<request, loop, outcome>>
logVars == <<rows, attempts>>

vars == <<routingVars, inflight, cancelled, sent, callVars, logVars>>

Counters == [beIdx : Nat, retryNo : Nat, maxRetries : Nat, attemptNo : Nat,
             retryCount : Nat, fallbackCount : Nat]

NoLoop == [beIdx |-> 0, retryNo |-> 0, maxRetries |-> 0, attemptNo |-> 0,
           retryCount |-> 0, fallbackCount |-> 0]

(* classifyErr, with every error but a cancelled context as "other".       *)
ErrorTypes == {"none", "client_cancelled", "other"}

Outcome == [reply : Reply, success : BOOLEAN, shouldRetry : BOOLEAN,
            finished : BOOLEAN, errorType : ErrorTypes]

NoOutcome == [reply |-> NoReply, success |-> FALSE, shouldRetry |-> FALSE,
              finished |-> FALSE, errorType |-> "none"]

(* status 0 is SQL's NULL, endpoint <<>> an empty selected_endpoint. *)
NoRow == [state |-> "absent", status |-> 0, success |-> FALSE,
          finalAttemptNo |-> 0, retryCount |-> 0, fallbackCount |-> 0,
          endpoint |-> <<>>]

(* finishWithError leaves every counter at 0. *)
ErrorRow(status) == [NoRow EXCEPT !.state = "closed", !.status = status]

OpenedRow == [NoRow EXCEPT !.state = "open"]

Init ==
    /\ RoutingInit
    /\ inflight = 0
    /\ request \in [Requests -> Inputs]
    /\ cancelled = [q \in Requests |-> FALSE]
    /\ loop = [q \in Requests |-> NoLoop]
    /\ outcome = [q \in Requests |-> NoOutcome]
    /\ sent = [q \in Requests |-> <<>>]
    /\ rows = [q \in Requests |-> NoRow]
    /\ attempts = [q \in Requests |-> <<>>]

-----------------------------------------------------------------------------
IsSuccess(status) == status \in 200..299

RetryableStatus(status) == status \in {404, 408, 409, 429} \/ status >= 500

(* The pair this request is trying. *)
Current(q) == pairs[q][loop[q].beIdx]

(* Mutant: the final record is inserted when there is no row to update. *)
FinalizeRequestUpserting(q, final) == rows' = [rows EXCEPT ![q] = final]

(* An UPDATE by request_id: nothing without a row, and nothing at all on a *)
(* cancelled context.                                                      *)
FinalizeRequest(q, final) ==
    rows' = IF cancelled[q] \/ rows[q].state = "absent" THEN rows
            ELSE [rows EXCEPT ![q] = final]

Write(q, status) == sent' = [sent EXCEPT ![q] = Append(@, status)]

(* Mutant: the deferred decrement runs as well as an explicit one. *)
ReturnTwice(q) == Goto(q, "done") /\ inflight' = inflight - 2

(* The handler returns, and its deferred decrement runs. *)
Return(q) == Goto(q, "done") /\ inflight' = inflight - 1

-----------------------------------------------------------------------------
(* Before the selection *)

Arrive(q) ==
    /\ pc[q] = "idle"
    /\ inflight' = inflight + 1
    /\ Goto(q, "body")
    /\ UNCHANGED <<sharedVars, selectionVars, cancelled, sent, callVars, logVars>>

(* A body over the limit is cut there.  The JSON of a cut body does not    *)
(* parse, and neither does an empty one: no model is known then.           *)
ReadBody(q) ==
    LET r == request[q]
        cut == r.size > cfg.bodyLimit
    IN
    /\ pc[q] = "body"
    /\ asked' = [asked EXCEPT ![q] = IF cut \/ r.size = 0 THEN NoModel ELSE r.model]
    /\ Goto(q, "resolve")
    /\ UNCHANGED <<sharedVars, targets, todo, scheduler, group, pairs, inflight,
                   cancelled, sent, callVars, logVars>>

(* Mutant: the early return forgets the gauge. *)
FailBodyLeaking(q) ==
    /\ pc[q] = "body"
    /\ Write(q, 400)
    /\ Goto(q, "done")
    /\ UNCHANGED <<sharedVars, selectionVars, inflight, cancelled, callVars, logVars>>

(* The client goes away in mid-body or the server's ReadTimeout strikes. *)
FailBody(q) ==
    /\ pc[q] = "body"
    /\ Write(q, 400)
    /\ Return(q)
    /\ UNCHANGED <<sharedVars, selectionVars, cancelled, callVars, logVars>>

Selecting(q) ==
    /\ SelectionStep(q)
    /\ UNCHANGED <<inflight, cancelled, sent, callVars, logVars>>

(* No pair at all: finishWithError updates a row that was never inserted.  *)
Refuse(q) ==
    /\ pc[q] = "selected" /\ pairs[q] = <<>>
    /\ FinalizeRequest(q, ErrorRow(502))
    /\ Write(q, 502)
    /\ Return(q)
    /\ UNCHANGED <<sharedVars, selectionVars, cancelled, callVars, attempts>>

(* InsertRequest, and the first round of the two loops. *)
Open(q) ==
    /\ pc[q] = "selected" /\ pairs[q] # <<>>
    /\ rows' = IF cancelled[q] THEN rows ELSE [rows EXCEPT ![q] = OpenedRow]
    /\ loop' = [loop EXCEPT ![q] = [NoLoop EXCEPT !.beIdx = 1, !.attemptNo = 1,
                                                  !.maxRetries = cfg.retry]]
    /\ Goto(q, "send")
    /\ UNCHANGED <<sharedVars, selectionVars, inflight, cancelled, sent,
                   request, outcome, attempts>>

-----------------------------------------------------------------------------
(* callUpstream *)

Returns(q, result) == outcome' = [outcome EXCEPT ![q] = result]

Failed(reply, shouldRetry, finished, errorType) ==
    [reply |-> reply, success |-> FALSE, shouldRetry |-> shouldRetry,
     finished |-> finished, errorType |-> errorType]

Succeeded(reply) ==
    [reply |-> reply, success |-> TRUE, shouldRetry |-> FALSE,
     finished |-> TRUE, errorType |-> "none"]

(* What an error of this call can be put down to. *)
Causes(q) == IF cancelled[q] THEN {"client_cancelled", "other"} ELSE {"other"}

(* The decoded path does not make a URL again: http.NewRequest fails.      *)
BuildFails(q) ==
    /\ pc[q] = "send" /\ request[q].badPath
    /\ Returns(q, Failed(NoReply, FALSE, FALSE, "other"))
    /\ Goto(q, "record")
    /\ UNCHANGED <<sharedVars, selectionVars, inflight, cancelled, sent,
                   request, loop, logVars>>

Send(q) ==
    /\ pc[q] = "send" /\ ~request[q].badPath /\ ~cancelled[q]
    /\ Goto(q, "wait")
    /\ UNCHANGED <<sharedVars, selectionVars, inflight, cancelled, sent,
                   callVars, logVars>>

(* client.Do returns an error: the connection fails, the client's timeout  *)
(* expires or the context is cancelled.                                    *)
TransportFails(q) ==
    /\ pc[q] = "wait"
    /\ \E cause \in Causes(q) : Returns(q, Failed(NoReply, TRUE, FALSE, cause))
    /\ Goto(q, "record")
    /\ UNCHANGED <<sharedVars, selectionVars, inflight, cancelled, sent,
                   request, loop, logVars>>

(* On a context that is done already, client.Do sends nothing. *)
SendFails(q) ==
    /\ pc[q] = "send" /\ ~request[q].badPath /\ cancelled[q]
    /\ Returns(q, Failed(NoReply, TRUE, FALSE, "client_cancelled"))
    /\ Goto(q, "record")
    /\ UNCHANGED <<sharedVars, selectionVars, inflight, cancelled, sent,
                   request, loop, logVars>>

(* Mutant: the header goes out before the status is looked at. *)
ReplyIsRetryableTooLate(q) ==
    /\ pc[q] = "wait"
    /\ \E r \in Replies :
        /\ r.status # 0 /\ RetryableStatus(r.status)
        /\ Returns(q, Failed(r, TRUE, FALSE, "none"))
        /\ Write(q, r.status)
    /\ Goto(q, "record")
    /\ UNCHANGED <<sharedVars, selectionVars, inflight, cancelled,
                   request, loop, logVars>>

(* A status worth another try is kept from the client. *)
ReplyIsRetryable(q) ==
    /\ pc[q] = "wait"
    /\ \E r \in Replies :
        /\ r.status # 0 /\ RetryableStatus(r.status)
        /\ Returns(q, Failed(r, TRUE, FALSE, "none"))
    /\ Goto(q, "record")
    /\ UNCHANGED <<sharedVars, selectionVars, inflight, cancelled, sent,
                   request, loop, logVars>>

(* Any other status commits the answer: header and status go out. *)
CommitReply(q) ==
    /\ pc[q] = "wait"
    /\ \E r \in Replies :
        /\ r.status # 0 /\ ~RetryableStatus(r.status)
        /\ Returns(q, Failed(r, FALSE, TRUE, "none"))
        /\ Write(q, r.status)
    /\ Goto(q, "copy")
    /\ UNCHANGED <<sharedVars, selectionVars, inflight, cancelled,
                   request, loop, logVars>>

(* The rest of the body.  A success status needs the whole of it; for any  *)
(* other status the attempt has failed however the copy ends.              *)
CopyBody(q) ==
    LET reply == outcome[q].reply IN
    /\ pc[q] = "copy"
    /\ \/ IsSuccess(reply.status) /\ Returns(q, Succeeded(reply))
       \/ ~IsSuccess(reply.status) /\ Returns(q, Failed(reply, FALSE, TRUE, "none"))
       \/ \E cause \in Causes(q) : Returns(q, Failed(reply, FALSE, TRUE, cause))
    /\ Goto(q, "record")
    /\ UNCHANGED <<sharedVars, selectionVars, inflight, cancelled, sent,
                   request, loop, logVars>>

-----------------------------------------------------------------------------
(* After each call: the tracker, then the attempts table, then the loops.  *)

AttemptRow(q) ==
    [no |-> loop[q].attemptNo, endpoint |-> Current(q).endpoint,
     wasRetry |-> loop[q].retryNo > 0, wasFallback |-> loop[q].beIdx > 1,
     success |-> outcome[q].success]

(* A failure is told to the tracker before it is logged. *)
Cool(q) ==
    /\ pc[q] = "record"
    /\ IF outcome[q].success
       THEN UNCHANGED states
       ELSE SetCooldown(Current(q).endpoint, Current(q).provider, outcome[q].reply)
    /\ Goto(q, "log")
    /\ UNCHANGED <<now, cfg, rr, selectionVars, inflight, cancelled, sent,
                   callVars, logVars>>

(* Mutant: only the deciding attempt is logged. *)
RecordLastAttempt(q) ==
    /\ pc[q] = "log"
    /\ IF outcome[q].success
       THEN ClearCooldown(Current(q).endpoint) ELSE UNCHANGED states
    /\ attempts' = IF cancelled[q] \/ ~outcome[q].finished THEN attempts
                   ELSE [attempts EXCEPT ![q] = Append(@, AttemptRow(q))]
    /\ UNCHANGED <<now, cfg, rr, selectionVars, inflight, cancelled, sent,
                   request, outcome, rows>>

(* InsertAttempt, and after a success the tracker. *)
RecordAttempt(q) ==
    /\ pc[q] = "log"
    /\ IF outcome[q].success
       THEN ClearCooldown(Current(q).endpoint) ELSE UNCHANGED states
    /\ attempts' = IF cancelled[q] THEN attempts
                   ELSE [attempts EXCEPT ![q] = Append(@, AttemptRow(q))]
    /\ UNCHANGED <<now, cfg, rr, selectionVars, inflight, cancelled, sent,
                   request, outcome, rows>>

(* Mutant: one retry too few. *)
MayRetryOnceLess(q) ==
    outcome[q].shouldRetry /\ loop[q].retryNo + 1 < loop[q].maxRetries

MayRetry(q) == outcome[q].shouldRetry /\ loop[q].retryNo < loop[q].maxRetries

Finished(q) ==
    /\ outcome[q].finished
    /\ RecordAttempt(q)
    /\ Goto(q, "finalize")
    /\ UNCHANGED loop

(* Mutant: the retry is not counted. *)
RetryUncounted(q) ==
    /\ ~outcome[q].finished /\ MayRetry(q)
    /\ RecordAttempt(q)
    /\ loop' = [loop EXCEPT ![q].retryNo = @ + 1, ![q].attemptNo = @ + 1]
    /\ Goto(q, "send")

RetrySame(q) ==
    /\ ~outcome[q].finished /\ MayRetry(q)
    /\ RecordAttempt(q)
    /\ loop' = [loop EXCEPT ![q].retryNo = @ + 1, ![q].attemptNo = @ + 1,
                            ![q].retryCount = @ + 1]
    /\ Goto(q, "send")

(* Mutant: the last pair is never reached. *)
FallBackShort(q) ==
    /\ ~outcome[q].finished /\ ~MayRetry(q) /\ loop[q].beIdx + 1 < Len(pairs[q])
    /\ RecordAttempt(q)
    /\ loop' = [loop EXCEPT ![q].beIdx = @ + 1, ![q].retryNo = 0,
                            ![q].attemptNo = @ + 1, ![q].fallbackCount = @ + 1]
    /\ Goto(q, "send")

FallBack(q) ==
    /\ ~outcome[q].finished /\ ~MayRetry(q) /\ loop[q].beIdx < Len(pairs[q])
    /\ RecordAttempt(q)
    /\ loop' = [loop EXCEPT ![q].beIdx = @ + 1, ![q].retryNo = 0,
                            ![q].attemptNo = @ + 1, ![q].fallbackCount = @ + 1]
    /\ Goto(q, "send")

Exhaust(q) ==
    /\ ~outcome[q].finished /\ ~MayRetry(q) /\ loop[q].beIdx = Len(pairs[q])
    /\ RecordAttempt(q)
    /\ Goto(q, "exhausted")
    /\ UNCHANGED loop

(* Mutant: the client gets another status than the row. *)
GiveUpWith500(q) ==
    /\ pc[q] = "exhausted"
    /\ FinalizeRequest(q, ErrorRow(502))
    /\ Write(q, 500)
    /\ Return(q)
    /\ UNCHANGED <<sharedVars, selectionVars, cancelled, callVars, attempts>>

(* finishWithError: the record's counters were never filled in. *)
GiveUp(q) ==
    /\ pc[q] = "exhausted"
    /\ FinalizeRequest(q, ErrorRow(502))
    /\ Write(q, 502)
    /\ Return(q)
    /\ UNCHANGED <<sharedVars, selectionVars, cancelled, callVars, attempts>>

Finalize(q) ==
    /\ pc[q] = "finalize"
    /\ FinalizeRequest(q,
          [state |-> "closed", status |-> outcome[q].reply.status,
           success |-> outcome[q].success,
           finalAttemptNo |-> loop[q].attemptNo,
           retryCount |-> loop[q].retryCount,
           fallbackCount |-> loop[q].fallbackCount,
           endpoint |-> <<Current(q).endpoint>>])
    /\ Return(q)
    /\ UNCHANGED <<sharedVars, selectionVars, cancelled, sent, callVars, attempts>>

-----------------------------------------------------------------------------
(* The client goes away while its request is being handled. *)
Cancel(q) ==
    /\ pc[q] \notin {"idle", "done"} /\ ~cancelled[q]
    /\ cancelled' = [cancelled EXCEPT ![q] = TRUE]
    /\ UNCHANGED <<routingVars, inflight, sent, callVars, logVars>>

HandlerStep(q) ==
    \/ ReadBody(q) \/ FailBody(q)
    \/ Selecting(q) \/ Refuse(q) \/ Open(q)
    \/ BuildFails(q) \/ Send(q) \/ SendFails(q) \/ TransportFails(q)
    \/ ReplyIsRetryable(q) \/ CommitReply(q) \/ CopyBody(q)
    \/ Cool(q) \/ Finished(q) \/ RetrySame(q) \/ FallBack(q) \/ Exhaust(q)
    \/ GiveUp(q) \/ Finalize(q)

Environment ==
    /\ Reload \/ (Tick /\ UNCHANGED <<cfg, rr, pc, selectionVars>>)
    /\ UNCHANGED <<inflight, cancelled, sent, callVars, logVars>>

Next ==
    \/ Environment
    \/ \E q \in Requests : Arrive(q) \/ Cancel(q) \/ HandlerStep(q)

Spec == Init /\ [][Next]_vars

(* The handler runs on; a body ends or its read fails (ReadTimeout), a     *)
(* call ends (client.Timeout ends waiting for headers and reading a body), *)
(* and a client takes what it is sent or goes away: nothing ends a write   *)
(* to one that does neither, since WriteTimeout is 0.                      *)
(* Nothing is assumed of arrivals, cancellations, reloads or the clock.    *)
FairSpec == Spec /\ \A q \in Requests : WF_vars(HandlerStep(q))

-----------------------------------------------------------------------------
Row == [state : {"absent", "open", "closed"}, status : Nat, success : BOOLEAN,
        finalAttemptNo : Nat, retryCount : Nat, fallbackCount : Nat,
        endpoint : Seq(Endpoints)]

Attempt == [no : Nat, endpoint : Endpoints, wasRetry : BOOLEAN,
            wasFallback : BOOLEAN, success : BOOLEAN]

Labels == {"idle", "body", "resolve", "select", "schedule", "filter", "selected",
           "send", "wait", "copy", "record", "log", "finalize", "exhausted", "done"}

TypeOK ==
    /\ TrackerTypeOK
    /\ cfg \in Configs
    /\ rr \in [Ranks -> Nat]
    /\ pc \in [Requests -> Labels]
    /\ \A q \in Requests : todo[q] \subseteq Pair
    /\ group \in [Requests -> Seq(Pair)]
    /\ pairs \in [Requests -> Seq(Pair)]
    /\ inflight \in Nat
    /\ request \in [Requests -> Inputs]
    /\ cancelled \in [Requests -> BOOLEAN]
    /\ loop \in [Requests -> Counters]
    /\ outcome \in [Requests -> Outcome]
    /\ sent \in [Requests -> Seq(Nat)]
    /\ rows \in [Requests -> Row]
    /\ attempts \in [Requests -> Seq(Attempt)]

(* The response header is written once, whatever path the handler takes,   *)
(* and once it is out no other attempt starts: failover happens behind the *)
(* client's back or not at all.                                            *)
Committed(q) ==
    \/ pc[q] \in {"copy", "finalize", "done"}
    \/ pc[q] \in {"record", "log"} /\ outcome[q].finished

AnswerOnce ==
    \A q \in Requests : Len(sent[q]) = IF Committed(q) THEN 1 ELSE 0

(* A closed row tells what the client saw, and a successful one names the  *)
(* endpoint of the last attempt, the only successful one.                  *)
LedgerMatchesAnswer ==
    \A q \in Requests : rows[q].state = "closed" =>
        /\ sent[q] = <<rows[q].status>>
        /\ rows[q].success => IsSuccess(rows[q].status)
        /\ \A i \in DOMAIN attempts[q] :
              attempts[q][i].success =>
                 /\ rows[q].success
                 /\ i = rows[q].finalAttemptNo
                 /\ rows[q].endpoint = <<attempts[q][i].endpoint>>

(* The counts of a row closed by an endpoint's answer add up, and agree    *)
(* with the attempts table row by row.                                     *)
Retries(q) == Cardinality({i \in DOMAIN attempts[q] : attempts[q][i].wasRetry})

LedgerCountsAttempts ==
    \A q \in Requests : rows[q].state = "closed" /\ rows[q].endpoint # <<>> =>
        /\ rows[q].finalAttemptNo = 1 + rows[q].retryCount + rows[q].fallbackCount
        /\ rows[q].finalAttemptNo = Len(attempts[q])
        /\ \A i \in DOMAIN attempts[q] : attempts[q][i].no = i
        /\ rows[q].retryCount = Retries(q)

(* Failover is exhaustive: the proxy answers 502 for a request with pairs  *)
(* only after every pair, in order, had its first try and all its retries, *)
(* and no two attempts of a request share a number.                        *)
Tries(q) == IF request[q].badPath THEN 1 ELSE 1 + loop[q].maxRetries

FailoverExhaustive ==
    \A q \in Requests :
        /\ pc[q] = "exhausted" => loop[q].attemptNo = Len(pairs[q]) * Tries(q)
        /\ pc[q] = "exhausted" /\ ~cancelled[q] =>
              \A i \in DOMAIN pairs[q], t \in 1..Tries(q) :
                  attempts[q][(i - 1) * Tries(q) + t].endpoint = pairs[q][i].endpoint

(* The gauge the dashboard shows counts the handlers that are running,     *)
(* early returns included.                                                 *)
InflightExact ==
    inflight = Cardinality({q \in Requests : pc[q] \notin {"idle", "done"}})

(* While no client has gone away, the errors the tracker holds against an  *)
(* endpoint are all in the attempts table, or about to be: every cooldown  *)
(* the admin page shows can be traced to failed attempts, those of other   *)
(* requests included.                                                      *)
FailedAttempts(e) ==
    UNION {{<<q, i>> : i \in {j \in DOMAIN attempts[q] :
                                /\ attempts[q][j].endpoint = e
                                /\ ~attempts[q][j].success}} : q \in Requests}

Logging(e) ==
    {q \in Requests :
        pc[q] = "log" /\ ~outcome[q].success /\ Current(q).endpoint = e}

CooldownsExplained ==
    (\A q \in Requests : ~cancelled[q]) =>
        \A e \in Endpoints :
            states[e].errors <= Cardinality(FailedAttempts(e)) + Cardinality(Logging(e))

(* Every request that reaches the proxy is answered and its handler ends,  *)
(* whatever the upstreams, the clock, reloads and the other clients do.    *)
AllAnswered == \A q \in Requests : pc[q] = "body" ~> pc[q] = "done"

(* The proxy implements the gateway: one answer per request and, while its *)
(* client stays, a log row that is opened before an endpoint answers, that *)
(* every logged attempt belongs to, and that is closed with the status the *)
(* client saw.                                                             *)
Statuses == {r.status : r \in {r \in Replies : r.status # 0}} \cup {400, 502}

Phases ==
    [q \in Requests |->
        CASE pc[q] = "idle" -> "new" [] pc[q] = "done" -> "over" [] OTHER -> "active"]

Ledgers ==
    [q \in Requests |->
        IF rows[q].state = "absent" THEN <<>> ELSE <<rows[q].status>>]

Logged == [q \in Requests |-> Len(attempts[q])]

G == INSTANCE Gateway WITH phase <- Phases, gone <- cancelled, answer <- sent,
                           ledger <- Ledgers, logged <- Logged

ImplementsGateway == G!Spec

-----------------------------------------------------------------------------
(* provider.go:13: an endpoint whose token plan is exhausted cools until   *)
(* the next window, so no failure ends that cooldown earlier, least of all *)
(* one that its own retries meet while every client stays.                 *)
QuotaHeld ==
    [][\A e \in Endpoints :
          /\ \A q \in Requests : ~cancelled[q]
          /\ states[e].until = NextWindow(now) + Buffer
          /\ states'[e].errors > states[e].errors
          => states'[e].until >= states[e].until]_vars
=============================================================================
