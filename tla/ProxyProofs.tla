---------------------------- MODULE ProxyProofs ----------------------------
(* Theorems about the request handler, for every set of requests,          *)
(* endpoints, configurations and upstream replies.                         *)
EXTENDS Proxy, TLAPS

(* The part of the type that the answer depends on. *)
AnswerTypeOK ==
    /\ pc \in [Requests -> Labels]
    /\ sent \in [Requests -> Seq(Nat)]
    /\ outcome \in [Requests -> Outcome]

AnsweredAsDue(q) == Len(sent[q]) = IF Committed(q) THEN 1 ELSE 0

AnswerInv == AnswerTypeOK /\ AnswerOnce

(* What a step of q does to the variables the answer depends on. *)
MovesOnly(q) ==
    /\ \E l \in Labels : pc' = [pc EXCEPT ![q] = l]
    /\ \/ sent' = sent
       \/ \E s \in Nat : sent' = [sent EXCEPT ![q] = Append(@, s)]
    /\ \/ outcome' = outcome
       \/ \E o \in Outcome : outcome' = [outcome EXCEPT ![q] = o]

LEMMA MoveKeepsType ==
    ASSUME AnswerTypeOK, NEW q \in Requests, MovesOnly(q)
    PROVE  AnswerTypeOK'
<1>1. pc' \in [Requests -> Labels]
    BY DEF AnswerTypeOK, MovesOnly
<1>2. outcome' \in [Requests -> Outcome]
    BY DEF AnswerTypeOK, MovesOnly
<1>3. sent' \in [Requests -> Seq(Nat)]
    <2>1. CASE sent' = sent
        BY <2>1 DEF AnswerTypeOK
    <2>2. ASSUME NEW s \in Nat, sent' = [sent EXCEPT ![q] = Append(@, s)]
          PROVE  sent' \in [Requests -> Seq(Nat)]
        <3>1. Append(sent[q], s) \in Seq(Nat)
            BY DEF AnswerTypeOK
        <3> QED
            BY <2>2, <3>1 DEF AnswerTypeOK
    <2> QED
        BY <2>1, <2>2 DEF MovesOnly
<1> QED
    BY <1>1, <1>2, <1>3 DEF AnswerTypeOK

(* A step of q leaves every other request's answer alone. *)
LEMMA MoveKeepsOthers ==
    ASSUME AnswerInv, NEW q \in Requests, MovesOnly(q), AnsweredAsDue(q)'
    PROVE  AnswerInv'
<1>1. AnswerTypeOK'
    BY MoveKeepsType DEF AnswerInv
<1>2. ASSUME NEW o \in Requests, o # q
      PROVE  AnsweredAsDue(o)'
    <2>1. pc'[o] = pc[o] /\ outcome'[o] = outcome[o] /\ sent'[o] = sent[o]
        BY <1>2 DEF AnswerInv, AnswerTypeOK, MovesOnly
    <2>2. AnsweredAsDue(o)
        BY DEF AnswerInv, AnswerOnce, AnsweredAsDue
    <2> QED
        BY <2>1, <2>2 DEF AnsweredAsDue, Committed
<1>3. AnswerOnce'
    BY <1>2 DEF AnswerOnce, AnsweredAsDue
<1> QED
    BY <1>1, <1>3 DEF AnswerInv

LEMMA AnswerInvInit == Init => AnswerInv
<1> SUFFICES ASSUME Init PROVE AnswerInv
    OBVIOUS
<1>1. NoOutcome \in Outcome
    BY DEF NoOutcome, Outcome, NoReply, Reply, ErrorTypes
<1>2. AnswerTypeOK
    BY <1>1 DEF Init, RoutingInit, AnswerTypeOK, Labels
<1>3. \A q \in Requests : sent[q] = <<>> /\ pc[q] = "idle"
    BY DEF Init, RoutingInit
<1> QED
    BY <1>2, <1>3 DEF AnswerInv, AnswerOnce, Committed

-----------------------------------------------------------------------------
(* The selection walks through its own labels, none of which is committed. *)
Uncommitted == Labels \ {"copy", "record", "log", "finalize", "done"}

LEMMA SelectionMoves ==
    ASSUME NEW q \in Requests, SelectionStep(q), AnswerTypeOK
    PROVE  /\ pc[q] \in Uncommitted
           /\ \E l \in Uncommitted : pc' = [pc EXCEPT ![q] = l]
<1> USE DEF Uncommitted, Labels, Goto
<1>1. CASE Resolve(q)
    BY <1>1 DEF Resolve
<1>2. CASE Select(q)
    BY <1>2 DEF Select
<1>3. CASE ReadScheduler(q)
    BY <1>3 DEF ReadScheduler
<1>4. CASE EndSelection(q)
    BY <1>4 DEF EndSelection
<1>5. CASE FilterPair(q) \/ RotateRank(q) \/ TakeSingle(q) \/ ShuffleRank(q)
    <2>1. pc[q] = "filter" /\ pc' = pc
        BY <1>5 DEF FilterPair, RotateRank, TakeSingle, ShuffleRank, Take
    <2> QED
        BY <2>1 DEF AnswerTypeOK
<1> QED
    BY <1>1, <1>2, <1>3, <1>4, <1>5 DEF SelectionStep

(* What the calls of callUpstream return. *)
LEMMA OutcomesTyped ==
    ASSUME NEW r \in Reply, NEW retry \in BOOLEAN, NEW finished \in BOOLEAN,
           NEW cause \in ErrorTypes
    PROVE  /\ Failed(r, retry, finished, cause) \in Outcome
           /\ Succeeded(r) \in Outcome
BY DEF Failed, Succeeded, Outcome, ErrorTypes

LEMMA NoReplyIsReply == NoReply \in Reply
BY DEF NoReply, Reply

(* Steps before the answer that neither write nor return. *)
LEMMA QuietStep ==
    ASSUME AnswerInv, NEW q \in Requests, NEW l \in Uncommitted,
           pc[q] \in Uncommitted, pc' = [pc EXCEPT ![q] = l],
           UNCHANGED <<sent, outcome>>
    PROVE  MovesOnly(q) /\ AnsweredAsDue(q)'
<1>1. pc'[q] = l
    BY DEF AnswerInv, AnswerTypeOK
<1>2. ~Committed(q) /\ ~Committed(q)'
    BY <1>1 DEF Committed, Uncommitted
<1>3. Len(sent[q]) = 0
    BY <1>2 DEF AnswerInv, AnswerOnce
<1> QED
    BY <1>2, <1>3 DEF MovesOnly, AnsweredAsDue, Uncommitted

(* Steps that fail without an answer. *)
LEMMA FailingStep ==
    ASSUME AnswerInv, NEW q \in Requests, pc[q] \in {"send", "wait"},
           NEW o \in Outcome, ~o.finished,
           pc' = [pc EXCEPT ![q] = "record"],
           outcome' = [outcome EXCEPT ![q] = o], UNCHANGED sent
    PROVE  MovesOnly(q) /\ AnsweredAsDue(q)'
<1>1. pc'[q] = "record" /\ outcome'[q] = o
    BY DEF AnswerInv, AnswerTypeOK
<1>2. ~Committed(q) /\ ~Committed(q)'
    BY <1>1 DEF Committed
<1>3. Len(sent[q]) = 0
    BY <1>2 DEF AnswerInv, AnswerOnce
<1> QED
    BY <1>2, <1>3 DEF MovesOnly, AnsweredAsDue, Labels

(* Steps that answer and return, or go on to the body. *)
LEMMA AnsweringStep ==
    ASSUME AnswerInv, NEW q \in Requests, NEW s \in Nat,
           NEW l \in {"copy", "done"},
           ~Committed(q), pc' = [pc EXCEPT ![q] = l], Write(q, s),
           \/ outcome' = outcome
           \/ \E o \in Outcome : outcome' = [outcome EXCEPT ![q] = o]
    PROVE  MovesOnly(q) /\ AnsweredAsDue(q)'
<1>1. pc'[q] = l /\ sent'[q] = Append(sent[q], s)
    BY DEF AnswerInv, AnswerTypeOK, Write
<1>2. Committed(q)'
    BY <1>1 DEF Committed
<1>3. sent[q] \in Seq(Nat) /\ Len(sent[q]) = 0
    BY DEF AnswerInv, AnswerTypeOK, AnswerOnce
<1>4. Len(sent'[q]) = 1
    BY <1>1, <1>3
<1> QED
    BY <1>2, <1>4 DEF MovesOnly, AnsweredAsDue, Labels, Write

(* Steps after the answer, up to the return. *)
LEMMA AnsweredStep ==
    ASSUME AnswerInv, NEW q \in Requests, NEW l \in Labels,
           Committed(q), pc' = [pc EXCEPT ![q] = l], UNCHANGED sent,
           \/ l \in {"finalize", "done"} /\ outcome' = outcome
           \/ \E o \in Outcome : /\ o.finished /\ l = "record"
                                 /\ outcome' = [outcome EXCEPT ![q] = o]
    PROVE  MovesOnly(q) /\ AnsweredAsDue(q)'
<1>1. pc'[q] = l
    BY DEF AnswerInv, AnswerTypeOK
<1>2. Committed(q)'
    <2>1. CASE l \in {"finalize", "done"}
        BY <1>1, <2>1 DEF Committed
    <2>2. ASSUME NEW o \in Outcome, o.finished, l = "record",
                 outcome' = [outcome EXCEPT ![q] = o]
          PROVE  Committed(q)'
        BY <1>1, <2>2 DEF Committed, AnswerInv, AnswerTypeOK
    <2> QED
        BY <2>1, <2>2
<1>3. Len(sent[q]) = 1
    BY DEF AnswerInv, AnswerOnce
<1> QED
    BY <1>2, <1>3 DEF MovesOnly, AnsweredAsDue

(* From record to log nothing is written, whatever the outcome was. *)
LEMMA CoolStep ==
    ASSUME AnswerInv, NEW q \in Requests, Cool(q)
    PROVE  MovesOnly(q) /\ AnsweredAsDue(q)'
<1>1. pc[q] = "record" /\ pc'[q] = "log"
    BY DEF Cool, Goto, AnswerInv, AnswerTypeOK
<1>2. UNCHANGED <<sent, outcome>> /\ pc' = [pc EXCEPT ![q] = "log"]
    BY DEF Cool, Goto, callVars
<1>3. Committed(q)' <=> Committed(q)
    BY <1>1, <1>2 DEF Committed
<1>4. AnsweredAsDue(q)
    BY DEF AnswerInv, AnswerOnce, AnsweredAsDue
<1> QED
    BY <1>2, <1>3, <1>4 DEF MovesOnly, AnsweredAsDue, Labels

LEMMA HandlerStepAnswers ==
    ASSUME AnswerInv, NEW q \in Requests, HandlerStep(q)
    PROVE  MovesOnly(q) /\ AnsweredAsDue(q)'
<1> USE DEF Goto, Write, Return, Returns
<1>1. CASE ReadBody(q) \/ Open(q)
    <2>1. PICK l \in Uncommitted : pc' = [pc EXCEPT ![q] = l]
        BY <1>1 DEF ReadBody, Open, Uncommitted, Labels
    <2>2. pc[q] \in Uncommitted /\ UNCHANGED <<sent, outcome>>
        BY <1>1 DEF ReadBody, Open, callVars, Uncommitted, Labels
    <2> QED
        BY <2>1, <2>2, QuietStep
<1>2. CASE Selecting(q)
    <2>1. PICK l \in Uncommitted : pc' = [pc EXCEPT ![q] = l]
        BY <1>2, SelectionMoves DEF Selecting, AnswerInv
    <2>2. pc[q] \in Uncommitted
        BY <1>2, SelectionMoves DEF Selecting, AnswerInv
    <2>3. UNCHANGED <<sent, outcome>>
        BY <1>2 DEF Selecting, callVars
    <2> QED
        BY <2>1, <2>2, <2>3, QuietStep
<1>3. CASE Send(q)
    <2>1. pc' = [pc EXCEPT ![q] = "wait"] /\ pc[q] \in Uncommitted
        BY <1>3 DEF Send, Uncommitted, Labels
    <2>2. UNCHANGED <<sent, outcome>> /\ "wait" \in Uncommitted
        BY <1>3 DEF Send, callVars, Uncommitted, Labels
    <2> QED
        BY <2>1, <2>2, QuietStep
<1>4. CASE BuildFails(q)
    <2>1. Failed(NoReply, FALSE, FALSE, "other") \in Outcome
        BY OutcomesTyped, NoReplyIsReply DEF ErrorTypes
    <2> QED
        BY <1>4, <2>1, FailingStep DEF BuildFails, Failed
<1>5. CASE SendFails(q)
    <2>1. Failed(NoReply, TRUE, FALSE, "client_cancelled") \in Outcome
        BY OutcomesTyped, NoReplyIsReply DEF ErrorTypes
    <2> QED
        BY <1>5, <2>1, FailingStep DEF SendFails, Failed
<1>6. CASE TransportFails(q)
    <2>1. PICK cause \in Causes(q) : Returns(q, Failed(NoReply, TRUE, FALSE, cause))
        BY <1>6 DEF TransportFails
    <2>2. Failed(NoReply, TRUE, FALSE, cause) \in Outcome
        BY OutcomesTyped, NoReplyIsReply DEF Causes, ErrorTypes
    <2> QED
        BY <1>6, <2>1, <2>2, FailingStep DEF TransportFails, Failed
<1>7. CASE ReplyIsRetryable(q)
    <2>1. PICK r \in Replies : Returns(q, Failed(r, TRUE, FALSE, "none"))
        BY <1>7 DEF ReplyIsRetryable
    <2>2. Failed(r, TRUE, FALSE, "none") \in Outcome
        BY OutcomesTyped, RepliesAssumption DEF ErrorTypes
    <2> QED
        BY <1>7, <2>1, <2>2, FailingStep DEF ReplyIsRetryable, Failed
<1>8. CASE CommitReply(q)
    <2>1. PICK r \in Replies : /\ Returns(q, Failed(r, FALSE, TRUE, "none"))
                               /\ Write(q, r.status)
        BY <1>8 DEF CommitReply
    <2>2. Failed(r, FALSE, TRUE, "none") \in Outcome /\ r.status \in Nat
        BY OutcomesTyped, RepliesAssumption DEF ErrorTypes, Reply
    <2>3. ~Committed(q) /\ pc' = [pc EXCEPT ![q] = "copy"]
        BY <1>8 DEF CommitReply, Committed
    <2> QED
        BY <2>1, <2>2, <2>3, AnsweringStep
<1>9. CASE FailBody(q) \/ Refuse(q) \/ GiveUp(q)
    <2>1. PICK s \in Nat : Write(q, s)
        BY <1>9 DEF FailBody, Refuse, GiveUp
    <2>2. ~Committed(q) /\ pc' = [pc EXCEPT ![q] = "done"] /\ outcome' = outcome
        BY <1>9 DEF FailBody, Refuse, GiveUp, Committed, callVars
    <2> QED
        BY <2>1, <2>2, AnsweringStep
<1>10. CASE CopyBody(q)
    <2>1. Committed(q) /\ pc' = [pc EXCEPT ![q] = "record"] /\ UNCHANGED sent
        BY <1>10 DEF CopyBody, Committed
    <2>2. outcome[q].reply \in Reply
        BY DEF AnswerInv, AnswerTypeOK, Outcome
    <2> DEFINE reply == outcome[q].reply
    <2>3. PICK o \in Outcome : Returns(q, o) /\ o.finished
        <3>1. CASE Returns(q, Succeeded(reply))
            <4>1. Succeeded(reply) \in Outcome /\ Succeeded(reply).finished
                BY <2>2, OutcomesTyped DEF Succeeded, ErrorTypes
            <4> QED
                BY <3>1, <4>1
        <3>2. ASSUME NEW cause \in ErrorTypes, Returns(q, Failed(reply, FALSE, TRUE, cause))
              PROVE  \E o \in Outcome : Returns(q, o) /\ o.finished
            <4>1. /\ Failed(reply, FALSE, TRUE, cause) \in Outcome
                  /\ Failed(reply, FALSE, TRUE, cause).finished
                BY <2>2, OutcomesTyped DEF Failed
            <4> QED
                BY <3>2, <4>1
        <3>3. \/ Returns(q, Succeeded(reply))
              \/ \E cause \in ErrorTypes : Returns(q, Failed(reply, FALSE, TRUE, cause))
            BY <1>10 DEF CopyBody, Causes, ErrorTypes
        <3> QED
            BY <3>1, <3>2, <3>3
    <2> QED
        BY <2>1, <2>3, AnsweredStep DEF Labels
<1>11. CASE Cool(q)
    BY <1>11, CoolStep
<1>12. CASE Finished(q)
    <2>1. Committed(q) /\ pc' = [pc EXCEPT ![q] = "finalize"]
        BY <1>12 DEF Finished, RecordAttempt, Committed
    <2>2. UNCHANGED <<sent, outcome>>
        BY <1>12 DEF Finished, RecordAttempt
    <2> QED
        BY <2>1, <2>2, AnsweredStep DEF Labels
<1>13. CASE RetrySame(q) \/ FallBack(q) \/ Exhaust(q)
    <2>1. pc[q] = "log" /\ ~outcome[q].finished /\ UNCHANGED <<sent, outcome>>
        BY <1>13 DEF RetrySame, FallBack, Exhaust, RecordAttempt
    <2>2. PICK l \in {"send", "exhausted"} : pc' = [pc EXCEPT ![q] = l]
        BY <1>13 DEF RetrySame, FallBack, Exhaust
    <2>3. ~Committed(q) /\ ~Committed(q)'
        BY <2>1, <2>2 DEF Committed, AnswerInv, AnswerTypeOK
    <2>4. Len(sent[q]) = 0
        BY <2>3 DEF AnswerInv, AnswerOnce
    <2> QED
        BY <2>1, <2>2, <2>3, <2>4 DEF MovesOnly, AnsweredAsDue, Labels
<1>14. CASE Finalize(q)
    <2>1. Committed(q) /\ pc' = [pc EXCEPT ![q] = "done"]
        BY <1>14 DEF Finalize, Committed
    <2>2. UNCHANGED <<sent, outcome>>
        BY <1>14 DEF Finalize, callVars
    <2> QED
        BY <2>1, <2>2, AnsweredStep DEF Labels
<1> QED
    BY <1>1, <1>2, <1>3, <1>4, <1>5, <1>6, <1>7, <1>8, <1>9, <1>10, <1>11,
       <1>12, <1>13, <1>14 DEF HandlerStep

LEMMA AnswerInvStep == AnswerInv /\ [Next]_vars => AnswerInv'
<1> SUFFICES ASSUME AnswerInv, [Next]_vars PROVE AnswerInv'
    OBVIOUS
<1>1. ASSUME UNCHANGED <<pc, sent, outcome>> PROVE AnswerInv'
    BY <1>1 DEF AnswerInv, AnswerTypeOK, AnswerOnce, Committed
<1>2. CASE Environment
    <2>1. UNCHANGED <<pc, sent, outcome>>
        BY <1>2 DEF Environment, Reload, callVars
    <2> QED
        BY <1>1, <2>1
<1>3. ASSUME NEW q \in Requests, Arrive(q) PROVE AnswerInv'
    <2>1. pc' = [pc EXCEPT ![q] = "body"] /\ UNCHANGED <<sent, outcome>>
        BY <1>3 DEF Arrive, Goto, callVars
    <2>2. pc[q] \in Uncommitted /\ "body" \in Uncommitted
        BY <1>3 DEF Arrive, Uncommitted, Labels
    <2> QED
        BY <2>1, <2>2, QuietStep, MoveKeepsOthers
<1>4. ASSUME NEW q \in Requests, Cancel(q) PROVE AnswerInv'
    <2>1. UNCHANGED <<pc, sent, outcome>>
        BY <1>4 DEF Cancel, routingVars, callVars
    <2> QED
        BY <1>1, <2>1
<1>5. ASSUME NEW q \in Requests, HandlerStep(q) PROVE AnswerInv'
    BY <1>5, HandlerStepAnswers, MoveKeepsOthers
<1>6. CASE UNCHANGED vars
    <2>1. UNCHANGED <<pc, sent, outcome>>
        BY <1>6 DEF vars, routingVars, callVars
    <2> QED
        BY <1>1, <2>1
<1> QED
    BY <1>2, <1>3, <1>4, <1>5, <1>6 DEF Next

(* Whatever the upstreams, reloads, cooldowns, the clock and the other     *)
(* requests do, a request gets one status line, and gets it exactly when   *)
(* its handler commits to an answer (handler.go:357) or gives one itself.  *)
THEOREM AnsweredOnce == Spec => []AnswerOnce
<1>1. AnswerInv => AnswerOnce
    BY DEF AnswerInv
<1> QED
    BY <1>1, AnswerInvInit, AnswerInvStep, PTL DEF Spec

-----------------------------------------------------------------------------
(* The log and the answer together.  A handler that has committed to an    *)
(* answer knows its status until it returns; a row is opened at "selected" *)
(* unless the client is gone, and closed on return only, with the status   *)
(* that was sent.                                                          *)
StatusKnown(q) ==
    Committed(q) /\ pc[q] # "done" => sent[q] = <<outcome[q].reply.status>>

Unclosed(q) ==
    \/ rows[q].state = "absent"
    \/ rows[q].state = "open" /\ rows[q].status = 0

BeforeOpen == {"idle", "body", "resolve", "select", "schedule", "filter", "selected"}

RowAsDue(q) ==
    /\ pc[q] \in BeforeOpen => rows[q].state = "absent"
    /\ pc[q] # "done" => Unclosed(q)
    /\ pc[q] \notin BeforeOpen \cup {"done"} /\ ~cancelled[q] => rows[q].state = "open"
    /\ \/ Unclosed(q)
       \/ rows[q].state = "closed" /\ sent[q] = <<rows[q].status>>

LogTypeOK ==
    /\ rows = [q \in Requests |-> rows[q]]
    /\ attempts = [q \in Requests |-> attempts[q]]
    /\ cancelled = [q \in Requests |-> cancelled[q]]
    /\ \A q \in Requests : \E S : attempts[q] \in Seq(S)

LogInv ==
    /\ LogTypeOK
    /\ \A q \in Requests : StatusKnown(q) /\ RowAsDue(q)

ProxyInv == AnswerInv /\ LogInv

LEMMA LogInvInit == Init => LogInv
<1> SUFFICES ASSUME Init PROVE LogInv
    OBVIOUS
<1>1. LogTypeOK
    BY DEF Init, LogTypeOK
<1>2. \A q \in Requests : StatusKnown(q) /\ RowAsDue(q)
    BY DEF Init, RoutingInit, StatusKnown, RowAsDue, Committed, Unclosed, NoRow, BeforeOpen
<1> QED
    BY <1>1, <1>2 DEF LogInv

LEMMA AppendCounts ==
    ASSUME NEW S, NEW s \in Seq(S), NEW x
    PROVE  /\ Append(s, x) \in Seq(S \cup {x})
           /\ Len(Append(s, x)) = Len(s) + 1
<1>1. s \in Seq(S \cup {x}) /\ x \in S \cup {x}
    OBVIOUS
<1> QED
    BY <1>1

(* What a step of q's handler does to the log. *)
LogsOnly(q) ==
    /\ rows' = rows \/ \E row : rows' = [rows EXCEPT ![q] = row]
    /\ attempts' = attempts \/ \E a : attempts' = [attempts EXCEPT ![q] = Append(@, a)]
    /\ cancelled' = cancelled

LEMMA LogKeepsType ==
    ASSUME LogTypeOK, NEW q \in Requests, LogsOnly(q)
    PROVE  LogTypeOK'
<1>1. rows' = [o \in Requests |-> rows'[o]] /\ cancelled' = [o \in Requests |-> cancelled'[o]]
    BY DEF LogTypeOK, LogsOnly
<1>2. CASE attempts' = attempts
    BY <1>1, <1>2 DEF LogTypeOK
<1>3. ASSUME NEW a, attempts' = [attempts EXCEPT ![q] = Append(@, a)]
      PROVE  LogTypeOK'
    <2>1. attempts' = [o \in Requests |-> attempts'[o]]
        BY <1>3 DEF LogTypeOK
    <2>2. PICK S : attempts[q] \in Seq(S)
        BY DEF LogTypeOK
    <2>3. Append(attempts[q], a) \in Seq(S \cup {a})
        BY <2>2, AppendCounts
    <2>4. attempts'[q] \in Seq(S \cup {a})
        BY <1>3, <2>3 DEF LogTypeOK
    <2>5. \A o \in Requests : o # q => attempts'[o] = attempts[o]
        BY <1>3 DEF LogTypeOK
    <2>6. \A o \in Requests : \E T : attempts'[o] \in Seq(T)
        BY <2>4, <2>5 DEF LogTypeOK
    <2> QED
        BY <1>1, <2>1, <2>6 DEF LogTypeOK
<1> QED
    BY <1>2, <1>3 DEF LogsOnly

LEMMA LogKeepsOthers ==
    ASSUME ProxyInv, NEW q \in Requests, MovesOnly(q), LogsOnly(q),
           StatusKnown(q)', RowAsDue(q)'
    PROVE  LogInv'
<1>1. LogTypeOK'
    BY LogKeepsType DEF ProxyInv, LogInv
<1>2. ASSUME NEW o \in Requests, o # q
      PROVE  StatusKnown(o)' /\ RowAsDue(o)'
    <2>1. pc'[o] = pc[o] /\ outcome'[o] = outcome[o] /\ sent'[o] = sent[o]
        BY <1>2 DEF ProxyInv, AnswerInv, AnswerTypeOK, MovesOnly
    <2>2. rows'[o] = rows[o] /\ cancelled'[o] = cancelled[o]
        BY <1>2 DEF ProxyInv, LogInv, LogTypeOK, LogsOnly
    <2>3. StatusKnown(o) /\ RowAsDue(o)
        BY DEF ProxyInv, LogInv
    <2> QED
        BY <2>1, <2>2, <2>3 DEF StatusKnown, RowAsDue, Unclosed, Committed
<1> QED
    BY <1>1, <1>2 DEF LogInv

(* A step that neither opens nor closes the row, answers or returns.       *)
LEMMA LogUntouched ==
    ASSUME ProxyInv, NEW q \in Requests, MovesOnly(q), AnsweredAsDue(q)', LogsOnly(q),
           pc[q] # "done", pc'[q] # "done", UNCHANGED <<sent, rows>>,
           pc'[q] \in BeforeOpen <=> pc[q] \in BeforeOpen,
           Committed(q)' => Committed(q) /\ outcome'[q].reply = outcome[q].reply
    PROVE  LogInv'
<1>1. StatusKnown(q) /\ RowAsDue(q)
    BY DEF ProxyInv, LogInv
<1>2. StatusKnown(q)' /\ RowAsDue(q)'
    BY <1>1 DEF StatusKnown, RowAsDue, Unclosed, LogsOnly
<1> QED
    BY <1>2, LogKeepsOthers

(* Before and after such a step the gateway looks the same. *)
LEMMA GatewayUnmoved ==
    ASSUME ProxyInv, NEW q \in Requests, NEW l \in Labels \ {"idle", "done"},
           pc[q] \notin {"idle", "done"}, pc' = [pc EXCEPT ![q] = l],
           UNCHANGED <<sent, rows, cancelled, attempts>>
    PROVE  UNCHANGED G!gatewayVars
<1>1. \A o \in Requests : o # q => pc'[o] = pc[o]
    BY DEF ProxyInv, AnswerInv, AnswerTypeOK
<1>2. pc'[q] = l
    BY DEF ProxyInv, AnswerInv, AnswerTypeOK
<1>3. Phases' = Phases
    BY <1>1, <1>2 DEF Phases
<1>4. Ledgers' = Ledgers /\ Logged' = Logged
    BY DEF Ledgers, Logged
<1> QED
    BY <1>3, <1>4 DEF G!gatewayVars

(* The steps of a handler that the gateway does not show. *)
Hidden(q) ==
    \/ ReadBody(q) \/ Selecting(q)
    \/ BuildFails(q) \/ Send(q) \/ SendFails(q) \/ TransportFails(q)
    \/ ReplyIsRetryable(q) \/ CopyBody(q) \/ Cool(q)

Simulated == LogInv' /\ (G!Next \/ UNCHANGED G!gatewayVars)

LEMMA HiddenStep ==
    ASSUME ProxyInv, NEW q \in Requests, Hidden(q)
    PROVE  Simulated
<1>1. MovesOnly(q) /\ AnsweredAsDue(q)'
    BY HandlerStepAnswers DEF ProxyInv, Hidden, HandlerStep
<1> USE DEF Goto, Returns
<1>2. UNCHANGED <<sent, rows, cancelled, attempts>>
    BY DEF Hidden, ReadBody, Selecting, BuildFails, Send, SendFails, TransportFails,
           ReplyIsRetryable, CopyBody, Cool, callVars, logVars
<1> DEFINE Moves(l) ==
        /\ pc' = [pc EXCEPT ![q] = l]
        /\ pc[q] \notin {"idle", "done"}
        /\ l \in BeforeOpen <=> pc[q] \in BeforeOpen
        /\ Committed(q)' => Committed(q) /\ outcome'[q].reply = outcome[q].reply
<1>3. AnswerTypeOK
    BY DEF ProxyInv, AnswerInv
<1>4. \E l \in Labels \ {"idle", "done"} : Moves(l)
    <2>1. CASE ReadBody(q)
        <3>1. Moves("resolve")
            BY <2>1, <1>3 DEF ReadBody, BeforeOpen, Committed, AnswerTypeOK
        <3> QED
            BY <3>1 DEF Labels
    <2>2. CASE Selecting(q)
        <3>1. SelectionStep(q)
            BY <2>2 DEF Selecting
        <3>2. pc[q] \in BeforeOpen \ {"idle"}
            BY <3>1 DEF SelectionStep, Resolve, Select, ReadScheduler, FilterPair,
                        RotateRank, TakeSingle, ShuffleRank, EndSelection, BeforeOpen
        <3>3. PICK l \in {"select", "schedule", "filter", "selected"} :
                    pc' = [pc EXCEPT ![q] = l]
            BY <3>1, <1>3 DEF SelectionStep, Resolve, Select, ReadScheduler, FilterPair,
                   RotateRank, TakeSingle, ShuffleRank, EndSelection, Take, AnswerTypeOK
        <3>4. Moves(l)
            BY <3>2, <3>3, <1>3 DEF BeforeOpen, Committed, AnswerTypeOK
        <3> QED
            BY <3>4 DEF Labels
    <2>3. CASE Send(q)
        <3>1. Moves("wait")
            BY <2>3, <1>3 DEF Send, BeforeOpen, Committed, AnswerTypeOK
        <3> QED
            BY <3>1 DEF Labels
    <2>4. CASE BuildFails(q) \/ SendFails(q) \/ TransportFails(q) \/ ReplyIsRetryable(q)
        <3>1. pc[q] \in {"send", "wait"} /\ pc' = [pc EXCEPT ![q] = "record"]
            BY <2>4 DEF BuildFails, SendFails, TransportFails, ReplyIsRetryable
        <3>2. ~outcome'[q].finished
            BY <2>4, <1>3 DEF BuildFails, SendFails, TransportFails, ReplyIsRetryable,
                              Failed, AnswerTypeOK
        <3>3. Moves("record")
            BY <3>1, <3>2, <1>3 DEF BeforeOpen, Committed, AnswerTypeOK
        <3> QED
            BY <3>3 DEF Labels
    <2>5. CASE CopyBody(q)
        <3>1. outcome'[q].reply = outcome[q].reply
            BY <2>5, <1>3 DEF CopyBody, Failed, Succeeded, AnswerTypeOK
        <3>2. Moves("record")
            BY <2>5, <3>1, <1>3 DEF CopyBody, BeforeOpen, Committed, AnswerTypeOK
        <3> QED
            BY <3>2 DEF Labels
    <2>6. CASE Cool(q)
        <3>1. Moves("log")
            BY <2>6, <1>3 DEF Cool, BeforeOpen, Committed, AnswerTypeOK, callVars
        <3> QED
            BY <3>1 DEF Labels
    <2> QED
        BY <2>1, <2>2, <2>3, <2>4, <2>5, <2>6 DEF Hidden
<1>5. PICK l \in Labels \ {"idle", "done"} : Moves(l)
    BY <1>4
<1>6. pc'[q] = l
    BY <1>5, <1>3 DEF AnswerTypeOK
<1>7. LogInv'
    BY <1>1, <1>2, <1>5, <1>6, LogUntouched DEF LogsOnly
<1>8. UNCHANGED G!gatewayVars
    BY <1>2, <1>5, GatewayUnmoved
<1> QED
    BY <1>7, <1>8 DEF Simulated

-----------------------------------------------------------------------------
(* The steps the gateway shows *)

LEMMA NothingSent ==
    ASSUME ProxyInv, NEW q \in Requests, ~Committed(q)
    PROVE  sent[q] = <<>>
<1>1. sent[q] \in Seq(Nat) /\ Len(sent[q]) = 0
    BY DEF ProxyInv, AnswerInv, AnswerTypeOK, AnswerOnce
<1> QED
    BY <1>1

LEMMA PhaseMoves ==
    ASSUME ProxyInv, NEW q \in Requests, NEW l \in Labels,
           pc' = [pc EXCEPT ![q] = l]
    PROVE  /\ pc'[q] = l
           /\ l \notin {"idle", "done"} => Phases' = [Phases EXCEPT ![q] = "active"]
           /\ l = "done" => Phases' = [Phases EXCEPT ![q] = "over"]
<1>1. pc'[q] = l
    BY DEF ProxyInv, AnswerInv, AnswerTypeOK
<1>2. \A o \in Requests : o # q => pc'[o] = pc[o]
    BY DEF ProxyInv, AnswerInv, AnswerTypeOK
<1> QED
    BY <1>1, <1>2 DEF Phases

LEMMA LedgerMoves ==
    ASSUME ProxyInv, NEW q \in Requests, NEW row,
           rows' = [rows EXCEPT ![q] = row], row.state # "absent"
    PROVE  Ledgers' = [Ledgers EXCEPT ![q] = <<row.status>>]
<1>1. rows'[q] = row
    BY DEF ProxyInv, LogInv, LogTypeOK
<1>2. \A o \in Requests : o # q => rows'[o] = rows[o]
    BY DEF ProxyInv, LogInv, LogTypeOK
<1>3. Ledgers'[q] = <<row.status>>
    BY <1>1 DEF Ledgers
<1>4. \A o \in Requests : o # q => Ledgers'[o] = Ledgers[o]
    BY <1>2 DEF Ledgers
<1>5. Ledgers' = [o \in Requests |-> Ledgers'[o]] /\ Ledgers = [o \in Requests |-> Ledgers[o]]
    BY DEF Ledgers
<1> QED
    BY <1>3, <1>4, <1>5

LEMMA ArriveStep ==
    ASSUME ProxyInv, NEW q \in Requests, Arrive(q)
    PROVE  Simulated
<1>1. /\ pc[q] = "idle" /\ pc' = [pc EXCEPT ![q] = "body"]
      /\ UNCHANGED <<sent, outcome, rows, cancelled, attempts>>
    BY DEF Arrive, Goto, callVars, logVars
<1>2. MovesOnly(q)
    BY <1>1 DEF MovesOnly, Labels
<1>3. pc'[q] = "body" /\ Phases' = [Phases EXCEPT ![q] = "active"]
    BY <1>1, PhaseMoves DEF Labels
<1>4. RowAsDue(q)
    BY DEF ProxyInv, LogInv
<1>5. StatusKnown(q)' /\ RowAsDue(q)'
    BY <1>1, <1>3, <1>4 DEF StatusKnown, RowAsDue, Unclosed, Committed, BeforeOpen
<1>6. LogInv'
    BY <1>1, <1>2, <1>5, LogKeepsOthers DEF LogsOnly
<1>7. G!Accept(q)
    BY <1>1, <1>3 DEF G!Accept, Phases, Ledgers, Logged
<1> QED
    BY <1>6, <1>7 DEF Simulated, G!Next

LEMMA OpenStep ==
    ASSUME ProxyInv, NEW q \in Requests, Open(q)
    PROVE  Simulated
<1>1. MovesOnly(q) /\ AnsweredAsDue(q)'
    BY HandlerStepAnswers DEF ProxyInv, HandlerStep
<1>2. /\ pc[q] = "selected" /\ pc' = [pc EXCEPT ![q] = "send"]
      /\ UNCHANGED <<sent, outcome, cancelled, attempts>>
    BY DEF Open, Goto
<1>3. pc'[q] = "send" /\ Phases' = [Phases EXCEPT ![q] = "active"]
    BY <1>2, PhaseMoves DEF Labels
<1>4. rows[q].state = "absent"
    BY <1>2 DEF ProxyInv, LogInv, RowAsDue, BeforeOpen
<1>5. \/ cancelled[q] /\ rows' = rows
      \/ ~cancelled[q] /\ rows' = [rows EXCEPT ![q] = OpenedRow]
    BY DEF Open
<1>6. \/ cancelled'[q] /\ rows'[q] = rows[q]
      \/ rows'[q] = OpenedRow
    BY <1>2, <1>5 DEF ProxyInv, LogInv, LogTypeOK
<1>7. OpenedRow.state = "open" /\ OpenedRow.status = 0
    BY DEF OpenedRow, NoRow
<1>8. StatusKnown(q)' /\ RowAsDue(q)'
    BY <1>3, <1>4, <1>6, <1>7 DEF StatusKnown, RowAsDue, Unclosed, Committed, BeforeOpen
<1>9. LogInv'
    BY <1>1, <1>2, <1>5, <1>8, LogKeepsOthers DEF LogsOnly
<1>10. CASE rows' = rows
    <2>1. UNCHANGED G!gatewayVars
        BY <1>2, <1>10, GatewayUnmoved DEF Labels
    <2> QED
        BY <1>9, <2>1 DEF Simulated
<1>11. CASE ~cancelled[q] /\ rows' = [rows EXCEPT ![q] = OpenedRow]
    <2>1. sent[q] = <<>>
        BY <1>2, NothingSent DEF Committed
    <2>2. Ledgers' = [Ledgers EXCEPT ![q] = <<0>>]
        BY <1>7, <1>11, LedgerMoves
    <2>3. Phases[q] = "active" /\ Phases' = Phases
        BY <1>2, <1>3 DEF Phases
    <2>4. G!OpenRow(q)
        BY <1>2, <1>4, <1>11, <2>1, <2>2, <2>3 DEF G!OpenRow, Ledgers, Logged
    <2> QED
        BY <1>9, <2>4 DEF Simulated, G!Next, G!Serve
<1> QED
    BY <1>5, <1>10, <1>11

LEMMA CommitStep ==
    ASSUME ProxyInv, NEW q \in Requests, CommitReply(q)
    PROVE  Simulated
<1>1. MovesOnly(q) /\ AnsweredAsDue(q)'
    BY HandlerStepAnswers DEF ProxyInv, HandlerStep
<1>2. /\ pc[q] = "wait" /\ pc' = [pc EXCEPT ![q] = "copy"]
      /\ UNCHANGED <<rows, cancelled, attempts>>
    BY DEF CommitReply, Goto, logVars
<1>3. pc'[q] = "copy" /\ Phases' = [Phases EXCEPT ![q] = "active"]
    BY <1>2, PhaseMoves DEF Labels
<1>4. PICK r \in Replies : /\ Returns(q, Failed(r, FALSE, TRUE, "none"))
                           /\ Write(q, r.status) /\ r.status # 0
    BY DEF CommitReply
<1>5. sent[q] = <<>>
    BY <1>2, NothingSent DEF Committed
<1>6. sent' = [sent EXCEPT ![q] = <<r.status>>]
    BY <1>4, <1>5 DEF Write
<1>7. sent'[q] = <<r.status>> /\ outcome'[q].reply = r
    BY <1>4, <1>6 DEF Returns, Failed, ProxyInv, AnswerInv, AnswerTypeOK
<1>8. RowAsDue(q)
    BY DEF ProxyInv, LogInv
<1>9. StatusKnown(q)' /\ RowAsDue(q)'
    BY <1>2, <1>3, <1>7, <1>8 DEF StatusKnown, RowAsDue, Unclosed, BeforeOpen
<1>10. LogInv'
    BY <1>1, <1>2, <1>9, LogKeepsOthers DEF LogsOnly
<1>11. /\ Phases[q] = "active" /\ Phases' = Phases
       /\ Ledgers' = Ledgers /\ Logged' = Logged
    BY <1>2, <1>3 DEF Phases, Ledgers, Logged
<1>12. Ledgers[q] = <<0>> \/ cancelled[q]
    BY <1>2, <1>8 DEF RowAsDue, Unclosed, BeforeOpen, Ledgers
<1>13. G!Answer(q, r.status)
    BY <1>2, <1>5, <1>6, <1>11, <1>12 DEF G!Answer
<1>14. r.status \in Statuses
    BY <1>4 DEF Statuses
<1> QED
    BY <1>10, <1>13, <1>14 DEF Simulated, G!Next, G!Serve, G!Conclude

(* A row that is closed, if it is there, with the status that is sent. *)
LEMMA Closing ==
    ASSUME ProxyInv, NEW q \in Requests, pc[q] \notin {"idle", "done"},
           MovesOnly(q), pc' = [pc EXCEPT ![q] = "done"],
           NEW row, row.state = "closed", FinalizeRequest(q, row),
           sent'[q] = <<row.status>>, UNCHANGED <<cancelled, attempts>>
    PROVE  LogInv' /\ G!CloseRow(q, row.status)
<1>1. pc'[q] = "done"
    BY PhaseMoves DEF Labels
<1>2. Unclosed(q)
    BY DEF ProxyInv, LogInv, RowAsDue
<1>3. \/ (cancelled[q] \/ rows[q].state = "absent") /\ rows' = rows
      \/ /\ ~cancelled[q] /\ rows[q].state # "absent"
         /\ rows' = [rows EXCEPT ![q] = row]
    BY DEF FinalizeRequest
<1>4. rows' = rows \/ rows'[q] = row
    BY <1>3 DEF ProxyInv, LogInv, LogTypeOK
<1>5. StatusKnown(q)' /\ RowAsDue(q)'
    BY <1>1, <1>2, <1>4 DEF StatusKnown, RowAsDue, Unclosed, BeforeOpen
<1>6. LogInv'
    BY <1>3, <1>5, LogKeepsOthers DEF LogsOnly
<1>7. CASE (cancelled[q] \/ rows[q].state = "absent") /\ rows' = rows
    BY <1>6, <1>7 DEF G!CloseRow, Ledgers
<1>8. CASE /\ ~cancelled[q] /\ rows[q].state # "absent"
           /\ rows' = [rows EXCEPT ![q] = row]
    <2>1. Ledgers' = [Ledgers EXCEPT ![q] = <<row.status>>]
        BY <1>8, LedgerMoves
    <2>2. Ledgers[q] = <<0>>
        BY <1>2, <1>8 DEF Ledgers, Unclosed
    <2> QED
        BY <1>6, <1>8, <2>1, <2>2 DEF G!CloseRow
<1> QED
    BY <1>3, <1>7, <1>8

LEMMA FailStep ==
    ASSUME ProxyInv, NEW q \in Requests, FailBody(q) \/ Refuse(q) \/ GiveUp(q)
    PROVE  Simulated
<1>1. MovesOnly(q) /\ AnsweredAsDue(q)'
    BY HandlerStepAnswers DEF ProxyInv, HandlerStep
<1>2. /\ pc[q] \in {"body", "selected", "exhausted"} /\ pc' = [pc EXCEPT ![q] = "done"]
      /\ UNCHANGED <<cancelled, attempts>>
    BY DEF FailBody, Refuse, GiveUp, Return, Goto, logVars
<1>3. sent[q] = <<>>
    BY <1>2, NothingSent DEF Committed
<1>4. Phases[q] = "active" /\ Phases' = [Phases EXCEPT ![q] = "over"]
    BY <1>2, PhaseMoves DEF Phases, Labels
<1>5. PICK s \in {400, 502} :
        /\ Write(q, s)
        /\ \/ FinalizeRequest(q, ErrorRow(s))
           \/ pc[q] = "body" /\ rows' = rows
    <2>1. CASE FailBody(q)
        BY <2>1 DEF FailBody, logVars
    <2>2. CASE Refuse(q) \/ GiveUp(q)
        BY <2>2 DEF Refuse, GiveUp
    <2> QED
        BY <2>1, <2>2
<1>6. sent' = [sent EXCEPT ![q] = <<s>>] /\ sent'[q] = <<s>>
    BY <1>3, <1>5 DEF Write, ProxyInv, AnswerInv, AnswerTypeOK
<1>7. ErrorRow(s).state = "closed" /\ ErrorRow(s).status = s
    BY DEF ErrorRow, NoRow
<1>8. LogInv' /\ G!CloseRow(q, s)
    <2>1. CASE FinalizeRequest(q, ErrorRow(s))
        <3> DEFINE row == ErrorRow(s)
        <3>1. row.state = "closed" /\ row.status = s /\ FinalizeRequest(q, row)
            BY <1>7, <2>1
        <3>2. sent'[q] = <<row.status>> /\ pc[q] \notin {"idle", "done"}
            BY <1>2, <1>6, <3>1
        <3>3. MovesOnly(q) /\ pc' = [pc EXCEPT ![q] = "done"]
            BY <1>1, <1>2
        <3> HIDE DEF row
        <3>4. LogInv' /\ G!CloseRow(q, row.status)
            BY <1>2, <3>1, <3>2, <3>3, Closing
        <3> QED
            BY <3>1, <3>4
    <2>2. CASE pc[q] = "body" /\ rows' = rows
        <3>1. Unclosed(q) /\ pc'[q] = "done" /\ rows[q].state = "absent"
            BY <1>2, <2>2, PhaseMoves DEF ProxyInv, LogInv, RowAsDue, Labels, BeforeOpen
        <3>2. StatusKnown(q)' /\ RowAsDue(q)'
            BY <2>2, <3>1 DEF StatusKnown, RowAsDue, Unclosed, BeforeOpen
        <3>3. LogInv'
            BY <1>1, <1>2, <2>2, <3>2, LogKeepsOthers DEF LogsOnly
        <3>4. Ledgers[q] = <<>> /\ Ledgers' = Ledgers
            BY <2>2, <3>1 DEF Ledgers
        <3> QED
            BY <3>3, <3>4 DEF G!CloseRow
    <2> QED
        BY <1>5, <2>1, <2>2
<1>9. G!Fail(q, s)
    BY <1>2, <1>3, <1>4, <1>6, <1>8 DEF G!Fail, Logged
<1>10. s \in Statuses
    BY DEF Statuses
<1> QED
    BY <1>8, <1>9, <1>10 DEF Simulated, G!Next, G!Serve, G!Conclude

LEMMA FinalizeStep ==
    ASSUME ProxyInv, NEW q \in Requests, Finalize(q)
    PROVE  Simulated
<1>1. MovesOnly(q) /\ AnsweredAsDue(q)'
    BY HandlerStepAnswers DEF ProxyInv, HandlerStep
<1>2. /\ pc[q] = "finalize" /\ pc' = [pc EXCEPT ![q] = "done"]
      /\ UNCHANGED <<sent, cancelled, attempts>>
    BY DEF Finalize, Return, Goto
<1>3. PICK row : /\ FinalizeRequest(q, row)
                 /\ row.state = "closed" /\ row.status = outcome[q].reply.status
    BY DEF Finalize
<1>4. sent[q] = <<row.status>>
    BY <1>2, <1>3 DEF ProxyInv, LogInv, StatusKnown, Committed
<1>5. LogInv' /\ G!CloseRow(q, row.status)
    BY <1>1, <1>2, <1>3, <1>4, Closing
<1>6. Phases[q] = "active" /\ Phases' = [Phases EXCEPT ![q] = "over"]
    BY <1>2, PhaseMoves DEF Phases, Labels
<1>7. G!Finish(q)
    BY <1>2, <1>4, <1>5, <1>6 DEF G!Finish, Logged
<1> QED
    BY <1>5, <1>7 DEF Simulated, G!Next, G!Serve, G!Conclude

LEMMA AttemptStep ==
    ASSUME ProxyInv, NEW q \in Requests,
           Finished(q) \/ RetrySame(q) \/ FallBack(q) \/ Exhaust(q)
    PROVE  Simulated
<1>1. MovesOnly(q) /\ AnsweredAsDue(q)'
    BY HandlerStepAnswers DEF ProxyInv, HandlerStep
<1>2. RecordAttempt(q)
    BY DEF Finished, RetrySame, FallBack, Exhaust
<1>3. pc[q] = "log" /\ UNCHANGED <<sent, outcome, rows, cancelled>>
    BY <1>2 DEF RecordAttempt
<1>4. \/ cancelled[q] /\ attempts' = attempts
      \/ ~cancelled[q] /\ attempts' = [attempts EXCEPT ![q] = Append(@, AttemptRow(q))]
    BY <1>2 DEF RecordAttempt
<1>5. PICK l \in {"finalize", "send", "exhausted"} :
        /\ pc' = [pc EXCEPT ![q] = l]
        /\ l = "finalize" => outcome[q].finished
    BY DEF Finished, RetrySame, FallBack, Exhaust, Goto
<1>6. pc'[q] = l
    BY <1>5 DEF ProxyInv, AnswerInv, AnswerTypeOK
<1>7. Committed(q)' => Committed(q)
    BY <1>3, <1>5, <1>6 DEF Committed
<1>8. LogInv'
    BY <1>1, <1>3, <1>4, <1>6, <1>7, LogUntouched DEF LogsOnly, BeforeOpen
<1>9. CASE cancelled[q] /\ attempts' = attempts
    <2>1. UNCHANGED G!gatewayVars
        BY <1>3, <1>5, <1>9, GatewayUnmoved DEF Labels
    <2> QED
        BY <1>8, <2>1 DEF Simulated
<1>10. CASE ~cancelled[q] /\ attempts' = [attempts EXCEPT ![q] = Append(@, AttemptRow(q))]
    <2>1. Phases[q] = "active" /\ Phases' = Phases
        <3>1. Phases' = [Phases EXCEPT ![q] = "active"]
            BY <1>5, PhaseMoves DEF Labels
        <3>2. Phases[q] = "active"
            BY <1>3 DEF Phases
        <3> QED
            BY <3>1, <3>2 DEF Phases
    <2>2. Ledgers[q] = <<0>> /\ Ledgers' = Ledgers
        BY <1>3, <1>10 DEF ProxyInv, LogInv, RowAsDue, Unclosed, BeforeOpen, Ledgers
    <2>3. \A o \in Requests : o # q => attempts'[o] = attempts[o]
        BY <1>10 DEF ProxyInv, LogInv, LogTypeOK
    <2>4. attempts'[q] = Append(attempts[q], AttemptRow(q))
        BY <1>10 DEF ProxyInv, LogInv, LogTypeOK
    <2>5. PICK S : attempts[q] \in Seq(S)
        BY DEF ProxyInv, LogInv, LogTypeOK
    <2>6. Len(attempts'[q]) = Len(attempts[q]) + 1
        BY <2>4, <2>5, AppendCounts
    <2>7. Logged' = [Logged EXCEPT ![q] = @ + 1]
        BY <2>3, <2>6 DEF Logged
    <2>8. G!LogAttempt(q)
        BY <1>3, <1>10, <2>1, <2>2, <2>7 DEF G!LogAttempt
    <2> QED
        BY <1>8, <2>8 DEF Simulated, G!Next, G!Serve
<1> QED
    BY <1>4, <1>9, <1>10

LEMMA CancelStep ==
    ASSUME ProxyInv, NEW q \in Requests, Cancel(q)
    PROVE  Simulated
<1>1. /\ pc[q] \notin {"idle", "done"} /\ ~cancelled[q]
      /\ cancelled' = [cancelled EXCEPT ![q] = TRUE]
      /\ UNCHANGED <<pc, sent, outcome, rows, attempts>>
    BY DEF Cancel, routingVars, callVars, logVars
<1>2. LogTypeOK'
    BY <1>1 DEF ProxyInv, LogInv, LogTypeOK
<1>3. ASSUME NEW o \in Requests PROVE StatusKnown(o)' /\ RowAsDue(o)'
    <2>1. StatusKnown(o) /\ RowAsDue(o)
        BY DEF ProxyInv, LogInv
    <2>2. cancelled[o] => cancelled'[o]
        BY <1>1 DEF ProxyInv, LogInv, LogTypeOK
    <2> QED
        BY <1>1, <2>1, <2>2 DEF StatusKnown, RowAsDue, Unclosed, Committed
<1>4. LogInv'
    BY <1>2, <1>3 DEF LogInv
<1>5. G!Leave(q)
    BY <1>1 DEF G!Leave, Phases, Ledgers, Logged
<1> QED
    BY <1>4, <1>5 DEF Simulated, G!Next

-----------------------------------------------------------------------------
LEMMA ProxyInvInit == Init => ProxyInv /\ G!Init
<1> SUFFICES ASSUME Init PROVE ProxyInv /\ G!Init
    OBVIOUS
<1>1. \A q \in Requests : pc[q] = "idle" /\ rows[q].state = "absent" /\ attempts[q] = <<>>
    BY DEF Init, RoutingInit, NoRow
<1>2. /\ Phases = [q \in Requests |-> "new"] /\ Ledgers = [q \in Requests |-> <<>>]
      /\ Logged = [q \in Requests |-> 0]
    BY <1>1 DEF Phases, Ledgers, Logged
<1> QED
    BY <1>2, AnswerInvInit, LogInvInit DEF ProxyInv, G!Init, Init

LEMMA ProxyInvStep == ProxyInv /\ [Next]_vars => ProxyInv' /\ [G!Next]_(G!gatewayVars)
<1> SUFFICES ASSUME ProxyInv, [Next]_vars
             PROVE  ProxyInv' /\ (G!Next \/ UNCHANGED G!gatewayVars)
    OBVIOUS
<1>1. AnswerInv'
    BY AnswerInvStep DEF ProxyInv
<1>2. ASSUME UNCHANGED <<pc, sent, outcome, rows, cancelled, attempts>> PROVE Simulated
    <2>1. LogInv'
        BY <1>2 DEF ProxyInv, LogInv, LogTypeOK, StatusKnown, RowAsDue, Unclosed, Committed
    <2>2. UNCHANGED G!gatewayVars
        BY <1>2 DEF G!gatewayVars, Phases, Ledgers, Logged
    <2> QED
        BY <2>1, <2>2 DEF Simulated
<1>3. CASE Environment
    <2>1. UNCHANGED <<pc, sent, outcome, rows, cancelled, attempts>>
        BY <1>3 DEF Environment, Reload, callVars, logVars
    <2> QED
        BY <1>1, <1>2, <2>1 DEF ProxyInv, Simulated
<1>4. ASSUME NEW q \in Requests, Arrive(q) PROVE Simulated
    BY <1>4, ArriveStep
<1>5. ASSUME NEW q \in Requests, Cancel(q) PROVE Simulated
    BY <1>5, CancelStep
<1>6. ASSUME NEW q \in Requests, HandlerStep(q) PROVE Simulated
    BY <1>6, HiddenStep, OpenStep, CommitStep, AttemptStep, FailStep, FinalizeStep
       DEF HandlerStep, Hidden
<1>7. CASE UNCHANGED vars
    <2>1. UNCHANGED <<pc, sent, outcome, rows, cancelled, attempts>>
        BY <1>7 DEF vars, routingVars, callVars, logVars
    <2> QED
        BY <1>1, <1>2, <2>1 DEF ProxyInv, Simulated
<1> QED
    BY <1>1, <1>3, <1>4, <1>5, <1>6, <1>7 DEF ProxyInv, Simulated, Next

(* The handler implements the gateway, step by step: whatever happens to a *)
(* request, its client sees one answer; while the client stays, no answer  *)
(* of an endpoint and no attempt goes without a row, and none is left open *)
(* or closed with another status; of one that left nothing is logged.      *)
(* (That the promise is also kept in the end is checked, not proved.)      *)
THEOREM StepsImplementGateway == Spec => G!Init /\ [][G!Next]_(G!gatewayVars)
<1>1. Init => G!Init
    BY ProxyInvInit
<1>2. ProxyInv /\ [Next]_vars => [G!Next]_(G!gatewayVars)
    BY ProxyInvStep
<1>3. Init => ProxyInv
    BY ProxyInvInit
<1>4. ProxyInv /\ [Next]_vars => ProxyInv'
    BY ProxyInvStep
<1> QED
    BY <1>1, <1>2, <1>3, <1>4, PTL DEF Spec
=============================================================================
