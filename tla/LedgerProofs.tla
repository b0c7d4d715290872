---------------------------- MODULE LedgerProofs ----------------------------
(* What the request log tells, for every set of requests, configurations   *)
(* and upstream replies: the attempts are numbered and counted as they are *)
(* made, every pair gets its tries in order, and a closed row agrees with  *)
(* the answer and with the attempts logged under it.                       *)
EXTENDS ProxyProofs, RoutingProofs

-----------------------------------------------------------------------------
(* The inductive invariant of one request: what its outcome, its counters, *)
(* its attempts and its row say at each label.                             *)

Trying == {"send", "wait", "copy", "record", "log"}

Ended == {"finalize", "exhausted"}

CallAsDue(q) ==
    /\ outcome[q].success =>
          outcome[q].finished /\ IsSuccess(outcome[q].reply.status)
    /\ pc[q] \in {"wait", "copy"} => ~request[q].badPath
    /\ pc[q] \in {"record", "log"} /\ ~outcome[q].finished =>
          (outcome[q].shouldRetry <=> ~request[q].badPath)

LoopAsDue(q) ==
    pc[q] \in Trying \cup Ended =>
        /\ loop[q].beIdx \in 1..Len(pairs[q])
        /\ loop[q].retryNo + 1 <= Tries(q)
        /\ loop[q].attemptNo = (loop[q].beIdx - 1) * Tries(q) + (loop[q].retryNo + 1)
        /\ loop[q].attemptNo = 1 + loop[q].retryCount + loop[q].fallbackCount
        /\ pc[q] = "exhausted" =>
              loop[q].beIdx = Len(pairs[q]) /\ loop[q].retryNo + 1 = Tries(q)

InPlace(q) ==
    \A i \in DOMAIN pairs[q], t \in 1..Tries(q) :
        (i - 1) * Tries(q) + t \in DOMAIN attempts[q] =>
            attempts[q][(i - 1) * Tries(q) + t].endpoint = pairs[q][i].endpoint

NoSuccess(q) == \A i \in DOMAIN attempts[q] : ~attempts[q][i].success

AttemptsAsDue(q) ==
    ~cancelled[q] =>
        /\ pc[q] \in BeforeOpen => attempts[q] = <<>>
        /\ \A i \in DOMAIN attempts[q] : attempts[q][i].no = i
        /\ pc[q] \in Trying =>
              /\ Len(attempts[q]) + 1 = loop[q].attemptNo
              /\ loop[q].retryCount =
                    Retries(q) + (IF loop[q].retryNo > 0 THEN 1 ELSE 0)
        /\ pc[q] \in Ended =>
              /\ Len(attempts[q]) = loop[q].attemptNo
              /\ loop[q].retryCount = Retries(q)
        /\ pc[q] \in Trying \cup {"exhausted"} => NoSuccess(q)
        /\ pc[q] = "finalize" =>
              \A i \in DOMAIN attempts[q] :
                  attempts[q][i].success =>
                      /\ outcome[q].success /\ i = loop[q].attemptNo
                      /\ attempts[q][i].endpoint = Current(q).endpoint
        /\ pc[q] \in Trying \cup Ended => InPlace(q)

RowTells(q) ==
    rows[q].state = "closed" =>
        /\ rows[q].success => IsSuccess(rows[q].status)
        /\ \A i \in DOMAIN attempts[q] :
              attempts[q][i].success =>
                 /\ rows[q].success
                 /\ i = rows[q].finalAttemptNo
                 /\ rows[q].endpoint = <<attempts[q][i].endpoint>>
        /\ rows[q].endpoint # <<>> =>
              /\ rows[q].finalAttemptNo = 1 + rows[q].retryCount + rows[q].fallbackCount
              /\ rows[q].finalAttemptNo = Len(attempts[q])
              /\ rows[q].finalAttemptNo \in DOMAIN attempts[q]
              /\ rows[q].endpoint = <<attempts[q][rows[q].finalAttemptNo].endpoint>>
              /\ \A i \in DOMAIN attempts[q] : attempts[q][i].no = i
              /\ rows[q].retryCount = Retries(q)

LedgerTypeOK ==
    /\ TrackerTypeOK
    /\ SelectionInv
    /\ AnswerTypeOK
    /\ request \in [Requests -> Inputs]
    /\ loop \in [Requests -> Counters]
    /\ cancelled \in [Requests -> BOOLEAN]
    /\ rows \in [Requests -> Row]
    /\ attempts \in [Requests -> Seq(Attempt)]

BooksAsDue(q) ==
    CallAsDue(q) /\ LoopAsDue(q) /\ AttemptsAsDue(q) /\ RowTells(q)

LedgerInv ==
    /\ ProxyInv
    /\ LedgerTypeOK
    /\ \A q \in Requests : BooksAsDue(q)

(* All that BooksAsDue depends on. *)
SameBooks(q) ==
    /\ pc'[q] = pc[q] /\ pairs'[q] = pairs[q] /\ request'[q] = request[q]
    /\ loop'[q] = loop[q] /\ outcome'[q] = outcome[q] /\ cancelled'[q] = cancelled[q]
    /\ rows'[q] = rows[q] /\ attempts'[q] = attempts[q]

Elsewhere(q) == \A o \in Requests : o # q => SameBooks(o)

LEMMA SameRetries ==
    ASSUME NEW q \in Requests, attempts'[q] = attempts[q]
    PROVE  Retries(q)' = Retries(q)
<1>1. {i \in DOMAIN attempts'[q] : attempts'[q][i].wasRetry}
        = {i \in DOMAIN attempts[q] : attempts[q][i].wasRetry}
    OBVIOUS
<1> QED
    BY <1>1 DEF Retries

LEMMA SameTries ==
    ASSUME NEW q \in Requests, request'[q] = request[q],
           loop'[q].maxRetries = loop[q].maxRetries
    PROVE  Tries(q)' = Tries(q)
    BY DEF Tries

LEMMA SameBooksDue ==
    ASSUME NEW q \in Requests, SameBooks(q), BooksAsDue(q)
    PROVE  BooksAsDue(q)'
<1>1. Retries(q)' = Retries(q) /\ Tries(q)' = Tries(q) /\ Current(q)' = Current(q)
    BY SameRetries, SameTries DEF SameBooks, Current
<1>2. CallAsDue(q)'
    BY DEF SameBooks, BooksAsDue, CallAsDue
<1>3. LoopAsDue(q)'
    BY <1>1 DEF SameBooks, BooksAsDue, LoopAsDue
<1>4. InPlace(q) => InPlace(q)'
    BY <1>1 DEF SameBooks, InPlace
<1>5. NoSuccess(q) => NoSuccess(q)'
    BY DEF SameBooks, NoSuccess
<1>6. AttemptsAsDue(q)'
    BY <1>1, <1>4, <1>5 DEF SameBooks, BooksAsDue, AttemptsAsDue
<1>7. RowTells(q)'
    BY <1>1 DEF SameBooks, BooksAsDue, RowTells
<1> QED
    BY <1>2, <1>3, <1>6, <1>7 DEF BooksAsDue

LEMMA BooksElsewhere ==
    ASSUME LedgerInv, NEW q \in Requests, Elsewhere(q), BooksAsDue(q)'
    PROVE  \A o \in Requests : BooksAsDue(o)'
    BY SameBooksDue DEF LedgerInv, Elsewhere

-----------------------------------------------------------------------------
(* Types *)

LEMMA NothingYet ==
    /\ NoLoop \in Counters /\ NoRow \in Row /\ OpenedRow \in Row
    /\ \A s \in Nat : ErrorRow(s) \in Row
<1>1. NoLoop \in Counters
    BY DEF NoLoop, Counters
<1>2. <<>> \in Seq(Endpoints)
    OBVIOUS
<1> QED
    BY <1>1, <1>2 DEF NoRow, OpenedRow, ErrorRow, Row

LEMMA CurrentIsPair ==
    ASSUME LedgerTypeOK, NEW q \in Requests, LoopAsDue(q), pc[q] \in Trying \cup Ended
    PROVE  Current(q) \in Pair /\ Current(q).endpoint \in Endpoints
<1>1. pairs[q] \in Seq(Pair) /\ loop[q].beIdx \in 1..Len(pairs[q])
    BY DEF LedgerTypeOK, SelectionInv, SelectionTypeOK, LoopAsDue
<1>2. Current(q) \in Pair
    BY <1>1 DEF Current
<1> QED
    BY <1>2 DEF Pair

LEMMA AttemptRowTyped ==
    ASSUME LedgerTypeOK, NEW q \in Requests, LoopAsDue(q), pc[q] = "log"
    PROVE  AttemptRow(q) \in Attempt
<1>1. Current(q).endpoint \in Endpoints
    BY CurrentIsPair DEF Trying
<1>2. loop[q] \in Counters /\ outcome[q] \in Outcome
    BY DEF LedgerTypeOK, AnswerTypeOK
<1> QED
    BY <1>1, <1>2 DEF AttemptRow, Attempt, Counters, Outcome

(* A step that leaves the tracker's records well-formed. *)
LEMMA ClearKeepsType ==
    ASSUME TrackerTypeOK, NEW e, ClearCooldown(e)
    PROVE  states' \in [Endpoints -> EndpointState]
<1>1. NeverFailed \in EndpointState
    BY DEF NeverFailed, EndpointState
<1> QED
    BY <1>1 DEF ClearCooldown, TrackerTypeOK

LEMMA CoolKeepsTracker ==
    ASSUME LedgerTypeOK, NEW q \in Requests, LoopAsDue(q), Cool(q)
    PROVE  TrackerTypeOK'
<1>1. outcome[q].reply \in Reply
    BY DEF LedgerTypeOK, AnswerTypeOK, Outcome
<1>2. Current(q).endpoint \in Endpoints /\ TrackerTypeOK
    BY CurrentIsPair DEF Cool, Trying, LedgerTypeOK
<1>3. states' \in [Endpoints -> EndpointState]
    BY <1>1, <1>2, SetCooldownResult DEF Cool, TrackerTypeOK
<1> QED
    BY <1>2, <1>3 DEF Cool, TrackerTypeOK

LEMMA RecordKeepsTracker ==
    ASSUME LedgerTypeOK, NEW q \in Requests, RecordAttempt(q)
    PROVE  TrackerTypeOK'
<1>1. TrackerTypeOK
    BY DEF LedgerTypeOK
<1>2. states' \in [Endpoints -> EndpointState]
    BY <1>1, ClearKeepsType DEF RecordAttempt, TrackerTypeOK
<1> QED
    BY <1>1, <1>2 DEF RecordAttempt, TrackerTypeOK

(* Every step but those of the selection keeps the types of the selection. *)
LEMMA TypesKept ==
    ASSUME LedgerTypeOK, NEW q \in Requests, MovesOnly(q), TrackerTypeOK',
           UNCHANGED <<cfg, rr, request, targets, todo, scheduler, group, pairs>>,
           pc'[q] \in BeforeSelection => pc[q] \in BeforeSelection,
           loop' \in [Requests -> Counters],
           cancelled' \in [Requests -> BOOLEAN],
           rows' \in [Requests -> Row],
           attempts' \in [Requests -> Seq(Attempt)]
    PROVE  LedgerTypeOK'
<1>1. AnswerTypeOK'
    BY MoveKeepsType DEF LedgerTypeOK
<1>2. \A o \in Requests : o # q => pc'[o] = pc[o]
    BY DEF MovesOnly, LedgerTypeOK, AnswerTypeOK
<1>3. pc' = [o \in Requests |-> pc'[o]]
    BY <1>1 DEF AnswerTypeOK
<1>4. \A o \in Requests : pc'[o] \in BeforeSelection => pc[o] \in BeforeSelection
    BY <1>2
<1>5. SelectionInv /\ cfg' \in Configs
    BY DEF LedgerTypeOK, SelectionInv, SelectionTypeOK
<1>6. SelectionInv'
    BY <1>3, <1>4, <1>5, OthersKeepSelection
<1> QED
    BY <1>1, <1>6 DEF LedgerTypeOK

LEMMA LedgerParts ==
    ASSUME LedgerInv, NEW q \in Requests
    PROVE  /\ LedgerTypeOK /\ ProxyInv /\ AnswerInv /\ LogInv /\ AnswerTypeOK /\ TrackerTypeOK
           /\ SelectionInv /\ SelectionTypeOK /\ SelectionDue(q)
           /\ BooksAsDue(q) /\ CallAsDue(q) /\ LoopAsDue(q) /\ AttemptsAsDue(q) /\ RowTells(q)
           /\ RowAsDue(q) /\ StatusKnown(q)
    BY DEF LedgerInv, LedgerTypeOK, ProxyInv, LogInv, SelectionInv, BooksAsDue

(* What a step of q proves of the whole. *)
Booked(q) == LedgerTypeOK' /\ Elsewhere(q) /\ BooksAsDue(q)'

-----------------------------------------------------------------------------
(* Steps of one call, between the opening of the row and its attempt.      *)
Calling(q) ==
    \/ BuildFails(q) \/ Send(q) \/ SendFails(q) \/ TransportFails(q)
    \/ ReplyIsRetryable(q) \/ CommitReply(q) \/ CopyBody(q) \/ Cool(q)

LEMMA FailedSays ==
    ASSUME NEW r, NEW retry \in BOOLEAN, NEW finished \in BOOLEAN, NEW cause
    PROVE  /\ ~Failed(r, retry, finished, cause).success
           /\ Failed(r, retry, finished, cause).finished <=> finished
           /\ Failed(r, retry, finished, cause).shouldRetry <=> retry
    BY DEF Failed

LEMMA CallMoves ==
    ASSUME LedgerInv, NEW q \in Requests, Calling(q)
    PROVE  /\ pc[q] \in Trying /\ pc'[q] \in Trying
           /\ CallAsDue(q)'
<1>0. AnswerTypeOK /\ CallAsDue(q) /\ \A b \in BOOLEAN : b = TRUE \/ b = FALSE
    BY LedgerParts
<1> USE DEF Goto, Trying
<1>1. CASE BuildFails(q) \/ SendFails(q) \/ TransportFails(q) \/ ReplyIsRetryable(q)
    <2>1. \E r, cause : Returns(q, Failed(r, ~request[q].badPath, FALSE, cause))
        <3>1. request[q].badPath \in BOOLEAN
            BY LedgerParts, InputsAssumption DEF LedgerTypeOK, Input
        <3>2. CASE BuildFails(q)
            <4>1. request[q].badPath = TRUE /\ Returns(q, Failed(NoReply, FALSE, FALSE, "other"))
                BY <3>1, <3>2 DEF BuildFails
            <4> QED
                BY <4>1
        <3>3. CASE ~BuildFails(q)
            <4>1. ~request[q].badPath
                BY <1>0, <1>1, <3>3 DEF SendFails, TransportFails, ReplyIsRetryable, CallAsDue
            <4>2. \E r, cause : Returns(q, Failed(r, TRUE, FALSE, cause))
                BY <1>1, <3>3 DEF SendFails, TransportFails, ReplyIsRetryable
            <4>3. (~request[q].badPath) = TRUE
                BY <3>1, <4>1
            <4> QED
                BY <4>2, <4>3
        <3> QED
            BY <3>2, <3>3
    <2>2. /\ pc[q] \in {"send", "wait"} /\ pc' = [pc EXCEPT ![q] = "record"]
          /\ UNCHANGED request
        BY <1>1 DEF BuildFails, SendFails, TransportFails, ReplyIsRetryable
    <2>3. pc'[q] = "record"
        BY <1>0, <2>2 DEF AnswerTypeOK
    <2>4. \E r, cause : outcome'[q] = Failed(r, ~request[q].badPath, FALSE, cause)
        BY <1>0, <2>1 DEF AnswerTypeOK, Returns
    <2>5. ~outcome'[q].success /\ (outcome'[q].shouldRetry <=> ~request[q].badPath)
        BY <2>4, FailedSays
    <2> QED
        BY <2>2, <2>3, <2>5 DEF CallAsDue
<1>2. CASE Send(q)
    <2>1. pc[q] = "send" /\ pc'[q] = "wait" /\ ~request[q].badPath
        BY <1>0, <1>2 DEF Send, AnswerTypeOK
    <2>2. UNCHANGED <<request, outcome>>
        BY <1>2 DEF Send, callVars
    <2> QED
        BY <1>0, <2>1, <2>2 DEF CallAsDue
<1>3. CASE CommitReply(q)
    <2>1. PICK r : outcome' = [outcome EXCEPT ![q] = Failed(r, FALSE, TRUE, "none")]
        BY <1>3 DEF CommitReply, Returns
    <2>2. ~outcome'[q].success
        BY <1>0, <2>1 DEF AnswerTypeOK, Failed
    <2>3. pc[q] = "wait" /\ pc'[q] = "copy" /\ UNCHANGED request
        BY <1>0, <1>3 DEF CommitReply, AnswerTypeOK
    <2> QED
        BY <1>0, <2>2, <2>3 DEF CallAsDue
<1>4. CASE CopyBody(q)
    <2> DEFINE reply == outcome[q].reply
    <2>1. PICK o : /\ outcome' = [outcome EXCEPT ![q] = o]
                   /\ o.finished /\ (o.success => IsSuccess(o.reply.status))
        <3>1. \/ IsSuccess(reply.status) /\ outcome' = [outcome EXCEPT ![q] = Succeeded(reply)]
              \/ \E cause : outcome' = [outcome EXCEPT ![q] = Failed(reply, FALSE, TRUE, cause)]
            BY <1>4 DEF CopyBody, Returns
        <3>2. /\ Succeeded(reply).finished /\ Succeeded(reply).reply = reply
              /\ \A cause : /\ Failed(reply, FALSE, TRUE, cause).finished
                            /\ ~Failed(reply, FALSE, TRUE, cause).success
            BY DEF Succeeded, Failed
        <3> QED
            BY <3>1, <3>2
    <2>2. outcome'[q] = o
        BY <1>0, <2>1 DEF AnswerTypeOK
    <2>3. pc[q] = "copy" /\ pc'[q] = "record"
        BY <1>0, <1>4 DEF CopyBody, AnswerTypeOK
    <2> QED
        BY <2>1, <2>2, <2>3 DEF CallAsDue
<1>5. CASE Cool(q)
    <2>1. /\ pc[q] = "record" /\ pc'[q] = "log"
          /\ UNCHANGED <<request, outcome>>
        BY <1>0, <1>5 DEF Cool, AnswerTypeOK, callVars
    <2> QED
        BY <1>0, <2>1 DEF CallAsDue
<1> QED
    BY <1>1, <1>2, <1>3, <1>4, <1>5 DEF Calling

LEMMA CallStep ==
    ASSUME LedgerInv, NEW q \in Requests, Calling(q)
    PROVE  Booked(q)
<1>1. MovesOnly(q)
    BY HandlerStepAnswers, LedgerParts DEF Calling, HandlerStep
<1>2. /\ UNCHANGED <<cfg, rr, targets, todo, scheduler, group, pairs, request,
                     loop, cancelled, rows, attempts>>
    BY DEF Calling, BuildFails, Send, SendFails, TransportFails, ReplyIsRetryable,
           CommitReply, CopyBody, Cool, sharedVars, selectionVars, callVars, logVars
<1>3. pc[q] \in Trying /\ pc'[q] \in Trying /\ CallAsDue(q)'
    BY CallMoves
<1>4. TrackerTypeOK'
    <2>1. CASE Cool(q)
        BY <2>1, CoolKeepsTracker, LedgerParts
    <2>2. CASE ~Cool(q)
        <3>1. UNCHANGED <<now, states>>
            BY <2>2 DEF Calling, BuildFails, Send, SendFails, TransportFails,
                        ReplyIsRetryable, CommitReply, CopyBody, sharedVars
        <3>2. TrackerTypeOK
            BY LedgerParts
        <3> QED
            BY <3>1, <3>2 DEF TrackerTypeOK
    <2> QED
        BY <2>1, <2>2
<1>5. LedgerTypeOK'
    <2>1. pc'[q] \notin BeforeSelection
        BY <1>3 DEF Trying, BeforeSelection
    <2>2. /\ LedgerTypeOK
          /\ loop \in [Requests -> Counters] /\ cancelled \in [Requests -> BOOLEAN]
          /\ rows \in [Requests -> Row] /\ attempts \in [Requests -> Seq(Attempt)]
        BY LedgerParts DEF LedgerTypeOK
    <2> QED
        BY <1>1, <1>2, <1>4, <2>1, <2>2, TypesKept
<1>6. Elsewhere(q)
    <2>1. AnswerTypeOK
        BY LedgerParts
    <2> QED
        BY <1>1, <1>2, <2>1 DEF Elsewhere, SameBooks, MovesOnly, AnswerTypeOK
<1>7. Retries(q)' = Retries(q) /\ Tries(q)' = Tries(q)
    BY <1>2, SameRetries, SameTries
<1>8. LoopAsDue(q)'
    <2>1. LoopAsDue(q)
        BY LedgerParts
    <2> QED
        BY <1>2, <1>3, <1>7, <2>1 DEF LoopAsDue, Trying
<1>9. AttemptsAsDue(q)'
    <2>1. AttemptsAsDue(q)
        BY LedgerParts
    <2>2. (InPlace(q) => InPlace(q)') /\ (NoSuccess(q) => NoSuccess(q)')
        BY <1>2, <1>7 DEF InPlace, NoSuccess
    <2> QED
        BY <1>2, <1>3, <1>7, <2>1, <2>2 DEF AttemptsAsDue, Trying, Ended, BeforeOpen
<1>10. RowTells(q)'
    <2>1. RowTells(q)
        BY LedgerParts
    <2> QED
        BY <1>2, <1>7, <2>1 DEF RowTells
<1> QED
    BY <1>3, <1>5, <1>6, <1>8, <1>9, <1>10 DEF Booked, BooksAsDue

-----------------------------------------------------------------------------
(* The steps that log an attempt *)

LEMMA RetriesAppend ==
    ASSUME NEW q \in Requests, attempts[q] \in Seq(Attempt), NEW a \in Attempt,
           attempts'[q] = Append(attempts[q], a)
    PROVE  /\ Retries(q) \in Nat
           /\ Retries(q)' = Retries(q) + (IF a.wasRetry THEN 1 ELSE 0)
<1> DEFINE s == attempts[q]
           n == Len(s)
           before == {i \in DOMAIN s : s[i].wasRetry}
           after == {i \in DOMAIN Append(s, a) : Append(s, a)[i].wasRetry}
<1>1. n \in Nat /\ DOMAIN s = 1..n /\ s \in Seq(Attempt)
    OBVIOUS
<1>2. /\ DOMAIN Append(s, a) = 1..(n + 1)
      /\ \A i \in 1..n : Append(s, a)[i] = s[i]
      /\ Append(s, a)[n + 1] = a
    BY <1>1
<1>3. IsFiniteSet(before) /\ n + 1 \notin before
    <2>1. before \subseteq 1..n /\ IsFiniteSet(1..n)
        BY <1>1, FS_Interval
    <2> QED
        BY <1>1, <2>1, FS_Subset
<1>4. after = IF a.wasRetry THEN before \cup {n + 1} ELSE before
    <2> HIDE DEF s, n
    <2>1. \A i \in 1..(n + 1) : i \in 1..n \/ i = n + 1
        BY <1>1
    <2>2. \A i \in 1..n : i \in 1..(n + 1)
        BY <1>1
    <2>3. n + 1 \in 1..(n + 1) /\ n + 1 \notin 1..n
        BY <1>1
    <2> QED
        BY <1>1, <1>2, <2>1, <2>2, <2>3
<1>5. Retries(q) = Cardinality(before) /\ Retries(q)' = Cardinality(after)
    <2>1. {i \in DOMAIN attempts'[q] : attempts'[q][i].wasRetry} = after
        OBVIOUS
    <2> QED
        BY <2>1 DEF Retries
<1> HIDE DEF before, after, s, n
<1>6. Cardinality(before) \in Nat
    BY <1>3, FS_CardinalityType
<1>7. Cardinality(before \cup {n + 1}) = Cardinality(before) + 1
    BY <1>3, FS_AddElement
<1> QED
    BY <1>4, <1>5, <1>6, <1>7

(* The place of an attempt in the log says which pair it tried.            *)
LEMMA InPlaceAppend ==
    ASSUME NEW q \in Requests, attempts[q] \in Seq(Attempt), NEW a \in Attempt,
           attempts'[q] = Append(attempts[q], a),
           pairs[q] \in Seq(Pair), UNCHANGED <<pairs, request>>,
           Tries(q) \in Nat, Tries(q)' = Tries(q),
           loop[q] \in Counters, loop[q].beIdx \in 1..Len(pairs[q]),
           loop[q].retryNo + 1 <= Tries(q),
           Len(attempts[q]) + 1 = (loop[q].beIdx - 1) * Tries(q) + (loop[q].retryNo + 1),
           a.endpoint = Current(q).endpoint,
           InPlace(q)
    PROVE  /\ InPlace(q)'
           /\ attempts'[q][Len(attempts[q]) + 1].endpoint = Current(q).endpoint
<1> DEFINE s == attempts[q]
           n == Len(s)
           T == Tries(q)
           b == loop[q].beIdx
           r == loop[q].retryNo
<1>1. /\ n \in Nat /\ DOMAIN s = 1..n
      /\ DOMAIN attempts'[q] = 1..(n + 1)
      /\ \A j \in 1..n : attempts'[q][j] = s[j]
      /\ attempts'[q][n + 1] = a
    OBVIOUS
<1>2. T \in Nat /\ b \in Nat \ {0} /\ r \in Nat /\ r + 1 <= T /\ r + 1 \in 1..T
    BY DEF Counters
<1>3. n + 1 = (b - 1) * T + (r + 1)
    OBVIOUS
<1>4. DOMAIN pairs[q] \subseteq Nat \ {0}
    OBVIOUS
<1> SUFFICES InPlace(q)'
    BY <1>1
<1> HIDE DEF s, n, T, b, r
<1>5. ASSUME NEW i \in DOMAIN pairs[q], NEW t \in 1..T,
             (i - 1) * T + t \in 1..(n + 1)
      PROVE  attempts'[q][(i - 1) * T + t].endpoint = pairs[q][i].endpoint
    <2>1. CASE (i - 1) * T + t = n + 1
        <3>1. (i - 1) * T + t = (b - 1) * T + (r + 1)
            BY <1>3, <2>1
        <3>2. PICK x \in Nat, y \in Nat : x = i - 1 /\ y = b - 1
            BY <1>2, <1>4
        <3>6. PICK u \in 1..T : u = r + 1
            BY <1>2
        <3>3. x * T + t = y * T + u
            BY <3>1, <3>2, <3>6
        <3>5. x = y
            BY ONLY <1>2, <3>3, PlaceUnique
        <3>4. i = b
            BY <1>2, <1>4, <3>2, <3>5
        <3> QED
            BY <1>1, <2>1, <3>4 DEF b, Current
    <2>2. CASE (i - 1) * T + t # n + 1
        <3> DEFINE k == (i - 1) * T + t
        <3>0. k \in 1..(n + 1) /\ k # n + 1
            BY <1>5, <2>2
        <3> HIDE DEF k
        <3>1. k \in 1..n
            BY <1>1, <3>0
        <3>2. k \in DOMAIN attempts[q] /\ attempts'[q][k] = attempts[q][k]
            BY <1>1, <3>1 DEF s
        <3>3. attempts[q][k].endpoint = pairs[q][i].endpoint
            BY <3>2 DEF InPlace, k, T
        <3> QED
            BY <3>2, <3>3 DEF k
    <2> QED
        BY <2>1, <2>2
<1> QED
    BY <1>1, <1>5 DEF InPlace, T

Logs(q) == Finished(q) \/ RetrySame(q) \/ FallBack(q) \/ Exhaust(q)

(* The counters of the next attempt at the same pair and at the next one.  *)
Retried(l) == [l EXCEPT !.retryNo = @ + 1, !.attemptNo = @ + 1, !.retryCount = @ + 1]

FellBack(l) == [l EXCEPT !.beIdx = @ + 1, !.retryNo = 0, !.attemptNo = @ + 1,
                         !.fallbackCount = @ + 1]

LEMMA CountersMove ==
    ASSUME NEW l \in Counters
    PROVE  /\ Retried(l) \in Counters /\ FellBack(l) \in Counters
           /\ Retried(l).beIdx = l.beIdx /\ Retried(l).retryNo = l.retryNo + 1
           /\ Retried(l).maxRetries = l.maxRetries
           /\ Retried(l).attemptNo = l.attemptNo + 1
           /\ Retried(l).retryCount = l.retryCount + 1
           /\ Retried(l).fallbackCount = l.fallbackCount
           /\ FellBack(l).beIdx = l.beIdx + 1 /\ FellBack(l).retryNo = 0
           /\ FellBack(l).maxRetries = l.maxRetries
           /\ FellBack(l).attemptNo = l.attemptNo + 1
           /\ FellBack(l).retryCount = l.retryCount
           /\ FellBack(l).fallbackCount = l.fallbackCount + 1
<1>1. /\ l.beIdx + 1 \in Nat /\ l.retryNo + 1 \in Nat /\ l.attemptNo + 1 \in Nat
      /\ l.retryCount + 1 \in Nat /\ l.fallbackCount + 1 \in Nat
    BY DEF Counters
<1>2. Retried(l) \in Counters
    BY <1>1 DEF Retried, Counters
<1>3. FellBack(l) \in Counters
    BY <1>1 DEF FellBack, Counters
<1>4. /\ Retried(l).beIdx = l.beIdx /\ Retried(l).retryNo = l.retryNo + 1
      /\ Retried(l).maxRetries = l.maxRetries
      /\ Retried(l).attemptNo = l.attemptNo + 1
      /\ Retried(l).retryCount = l.retryCount + 1
      /\ Retried(l).fallbackCount = l.fallbackCount
    BY DEF Retried, Counters
<1>5. /\ FellBack(l).beIdx = l.beIdx + 1 /\ FellBack(l).retryNo = 0
      /\ FellBack(l).maxRetries = l.maxRetries
      /\ FellBack(l).attemptNo = l.attemptNo + 1
      /\ FellBack(l).retryCount = l.retryCount
      /\ FellBack(l).fallbackCount = l.fallbackCount + 1
    BY DEF FellBack, Counters
<1> QED
    BY <1>2, <1>3, <1>4, <1>5

(* How the counters move on: after a retry or a fallback they describe the *)
(* next attempt, else they stay.                                           *)
LEMMA LogMoves ==
    ASSUME LedgerInv, NEW q \in Requests, Logs(q)
    PROVE  /\ pc[q] = "log" /\ pc'[q] \in {"send", "finalize", "exhausted"}
           /\ loop' \in [Requests -> Counters]
           /\ \A o \in Requests : o # q => loop'[o] = loop[o]
           /\ loop'[q].maxRetries = loop[q].maxRetries
           /\ LoopAsDue(q)'
           /\ pc'[q] = "send" =>
                /\ loop'[q].attemptNo = loop[q].attemptNo + 1
                /\ loop'[q].retryCount =
                      loop[q].retryCount + (IF loop'[q].retryNo > 0 THEN 1 ELSE 0)
           /\ pc'[q] # "send" => loop'[q] = loop[q]
           /\ pc'[q] # "finalize" => ~outcome[q].finished
<1> DEFINE l == loop[q]
           T == Tries(q)
<1>1. /\ AnswerTypeOK /\ loop \in [Requests -> Counters]
      /\ request[q].badPath \in BOOLEAN /\ pairs[q] \in Seq(Pair)
    BY LedgerParts, InputsAssumption DEF LedgerTypeOK, Input, SelectionTypeOK
<1>2. /\ l \in Counters
      /\ l.beIdx \in Nat /\ l.retryNo \in Nat /\ l.maxRetries \in Nat
      /\ l.attemptNo \in Nat /\ l.retryCount \in Nat /\ l.fallbackCount \in Nat
    BY <1>1 DEF Counters
<1>3. pc[q] = "log" /\ UNCHANGED <<request, pairs>>
    BY DEF Logs, Finished, RetrySame, FallBack, Exhaust, RecordAttempt, selectionVars
<1>4. /\ l.beIdx \in 1..Len(pairs[q])
      /\ l.retryNo + 1 <= T
      /\ l.attemptNo = (l.beIdx - 1) * T + (l.retryNo + 1)
      /\ l.attemptNo = 1 + l.retryCount + l.fallbackCount
    BY <1>3, LedgerParts DEF LoopAsDue, Trying
<1>13. l.attemptNo = 1 + l.retryCount + l.fallbackCount /\ l.retryNo + 1 <= T
    BY <1>4
<1>5. T = IF request[q].badPath THEN 1 ELSE 1 + l.maxRetries
    BY DEF Tries
<1>6. ~outcome[q].finished => (outcome[q].shouldRetry <=> ~request[q].badPath)
    BY <1>3, LedgerParts DEF CallAsDue
<1>7. ASSUME loop'[q].maxRetries = l.maxRetries PROVE Tries(q)' = T
    BY <1>3, <1>7, SameTries
<1> HIDE DEF T
<1>8. T \in Nat
    BY <1>2, <1>5
<1>9. (l.beIdx - 1) * T + T = l.beIdx * T
    BY <1>2, <1>8, SMT
<1>10. CASE Finished(q) \/ Exhaust(q)
    <2>1. loop' = loop
        BY <1>10 DEF Finished, Exhaust
    <2>2. \/ Finished(q) /\ pc'[q] = "finalize"
          \/ Exhaust(q) /\ pc'[q] = "exhausted"
        BY <1>1, <1>10 DEF Finished, Exhaust, Goto, AnswerTypeOK
    <2>3. Exhaust(q) => /\ ~outcome[q].finished /\ l.beIdx = Len(pairs[q])
                        /\ l.retryNo + 1 = T
        BY <1>2, <1>4, <1>5, <1>6, <1>8 DEF Exhaust, MayRetry
    <2>4. Tries(q)' = T
        BY <1>7, <2>1
    <2>5. LoopAsDue(q)'
        BY <1>3, <1>4, <2>1, <2>2, <2>3, <2>4 DEF LoopAsDue
    <2> QED
        BY <1>1, <1>3, <2>1, <2>2, <2>3, <2>5
<1>11. CASE RetrySame(q)
    <2> DEFINE k == Retried(l)
    <2>1. loop' = [loop EXCEPT ![q] = k]
        BY <1>1, <1>11 DEF RetrySame, Counters, Retried
    <2>2. /\ k \in Counters /\ k.beIdx = l.beIdx /\ k.retryNo = l.retryNo + 1
          /\ k.maxRetries = l.maxRetries /\ k.attemptNo = l.attemptNo + 1
          /\ k.retryCount = l.retryCount + 1 /\ k.fallbackCount = l.fallbackCount
        BY <1>2, CountersMove
    <2> HIDE DEF k
    <2>3. loop'[q] = k /\ loop' \in [Requests -> Counters]
          /\ \A o \in Requests : o # q => loop'[o] = loop[o]
        BY <1>1, <2>1, <2>2
    <2>4. pc'[q] = "send" /\ ~outcome[q].finished
        BY <1>1, <1>11 DEF RetrySame, Goto, AnswerTypeOK
    <2>5. Tries(q)' = T
        BY <1>7, <2>2, <2>3
    <2>6. k.retryNo + 1 <= T
        BY <1>2, <1>5, <1>6, <1>11, <2>2 DEF RetrySame, MayRetry
    <2>7. k.attemptNo = (k.beIdx - 1) * T + (k.retryNo + 1)
        <3>1. (l.beIdx - 1) * T \in Int
            BY <1>2, <1>8, SMT
        <3> QED
            BY <1>2, <1>4, <2>2, <3>1
    <2>9. k.attemptNo = 1 + k.retryCount + k.fallbackCount
        BY <1>2, <1>13, <2>2
    <2>10. k.beIdx \in 1..Len(pairs'[q])
        BY <1>3, <1>4, <2>2
    <2>8. LoopAsDue(q)'
        BY <2>3, <2>4, <2>5, <2>6, <2>7, <2>9, <2>10 DEF LoopAsDue
    <2> QED
        BY <1>2, <1>3, <2>2, <2>3, <2>4, <2>8
<1>12. CASE FallBack(q)
    <2> DEFINE k == FellBack(l)
    <2>1. loop' = [loop EXCEPT ![q] = k]
        BY <1>1, <1>12 DEF FallBack, Counters, FellBack
    <2>2. /\ k \in Counters /\ k.beIdx = l.beIdx + 1 /\ k.retryNo = 0
          /\ k.maxRetries = l.maxRetries /\ k.attemptNo = l.attemptNo + 1
          /\ k.retryCount = l.retryCount /\ k.fallbackCount = l.fallbackCount + 1
        BY <1>2, CountersMove
    <2> HIDE DEF k
    <2>3. loop'[q] = k /\ loop' \in [Requests -> Counters]
          /\ \A o \in Requests : o # q => loop'[o] = loop[o]
        BY <1>1, <2>1, <2>2
    <2>4. pc'[q] = "send" /\ ~outcome[q].finished /\ l.beIdx < Len(pairs[q])
        BY <1>1, <1>12 DEF FallBack, Goto, AnswerTypeOK
    <2>5. Tries(q)' = T
        BY <1>7, <2>2, <2>3
    <2>6. l.retryNo + 1 = T
        <3>1. ~outcome[q].finished /\ ~(outcome[q].shouldRetry /\ l.retryNo < l.maxRetries)
            BY <1>12 DEF FallBack, MayRetry
        <3>2. request[q].badPath \/ ~(l.retryNo < l.maxRetries)
            BY <1>6, <3>1
        <3> QED
            BY <1>2, <1>5, <1>13, <3>2
    <2>7. k.attemptNo = (k.beIdx - 1) * T + (k.retryNo + 1)
        <3>1. l.beIdx * T \in Int /\ (l.beIdx - 1) * T \in Int
            BY <1>2, <1>8, SMT
        <3>2. l.attemptNo = l.beIdx * T
            BY <1>2, <1>4, <1>8, <1>9, <2>6, <3>1
        <3>3. k.beIdx - 1 = l.beIdx
            BY <1>2, <2>2
        <3> QED
            BY <2>2, <3>1, <3>2, <3>3
    <2>8. k.beIdx \in 1..Len(pairs[q]) /\ k.retryNo + 1 <= T
        <3>1. Len(pairs[q]) \in Nat
            BY <1>1
        <3>2. k.beIdx \in 1..Len(pairs[q])
            BY <1>2, <2>2, <2>4, <3>1
        <3>3. k.retryNo + 1 <= T
            BY <1>2, <1>8, <2>2, <2>6
        <3> QED
            BY <3>2, <3>3
    <2>10. k.attemptNo = 1 + k.retryCount + k.fallbackCount
        BY <1>2, <1>13, <2>2
    <2>11. k.beIdx \in 1..Len(pairs'[q])
        BY <1>3, <2>8
    <2>9. LoopAsDue(q)'
        BY <2>3, <2>4, <2>5, <2>7, <2>8, <2>10, <2>11 DEF LoopAsDue
    <2> QED
        BY <1>2, <1>3, <2>2, <2>3, <2>4, <2>9
<1> QED
    BY <1>10, <1>11, <1>12 DEF Logs

LEMMA LogStep ==
    ASSUME LedgerInv, NEW q \in Requests, Logs(q)
    PROVE  Booked(q)
<1> DEFINE a == AttemptRow(q)
           s == attempts[q]
           n == Len(s)
<1>1. /\ MovesOnly(q) /\ LedgerTypeOK /\ AnswerTypeOK
      /\ CallAsDue(q) /\ LoopAsDue(q) /\ AttemptsAsDue(q) /\ RowTells(q) /\ RowAsDue(q)
    BY HandlerStepAnswers, LedgerParts DEF Logs, HandlerStep
<1>2. /\ pc[q] = "log" /\ pc'[q] \in {"send", "finalize", "exhausted"}
      /\ loop' \in [Requests -> Counters]
      /\ \A o \in Requests : o # q => loop'[o] = loop[o]
      /\ loop'[q].maxRetries = loop[q].maxRetries
      /\ LoopAsDue(q)'
      /\ pc'[q] = "send" =>
            /\ loop'[q].attemptNo = loop[q].attemptNo + 1
            /\ loop'[q].retryCount =
                  loop[q].retryCount + (IF loop'[q].retryNo > 0 THEN 1 ELSE 0)
      /\ pc'[q] # "send" => loop'[q] = loop[q]
      /\ pc'[q] # "finalize" => ~outcome[q].finished
    BY LogMoves
<1>3. RecordAttempt(q)
    BY DEF Logs, Finished, RetrySame, FallBack, Exhaust
<1>4. UNCHANGED <<cfg, rr, targets, todo, scheduler, group, pairs, request,
                  outcome, cancelled, rows>>
    BY <1>3 DEF RecordAttempt, selectionVars
<1>5. /\ loop[q] \in Counters /\ outcome[q] \in Outcome /\ s \in Seq(Attempt)
      /\ pairs[q] \in Seq(Pair) /\ attempts \in [Requests -> Seq(Attempt)]
    BY <1>1, LedgerParts DEF LedgerTypeOK, AnswerTypeOK, SelectionTypeOK
<1>6. a \in Attempt
    BY <1>1, <1>2, AttemptRowTyped
<1>7. \/ cancelled[q] /\ attempts' = attempts
      \/ ~cancelled[q] /\ attempts' = [attempts EXCEPT ![q] = Append(s, a)]
    BY <1>3 DEF RecordAttempt
<1>8. LedgerTypeOK'
    <2>1. Append(s, a) \in Seq(Attempt)
        BY <1>5, <1>6
    <2>2. attempts' \in [Requests -> Seq(Attempt)]
        BY <1>5, <1>7, <2>1
    <2>3. TrackerTypeOK'
        BY <1>1, <1>3, RecordKeepsTracker
    <2>4. cancelled' \in [Requests -> BOOLEAN] /\ rows' \in [Requests -> Row]
        BY <1>1, <1>4 DEF LedgerTypeOK
    <2>5. pc'[q] \notin BeforeSelection
        BY <1>2 DEF BeforeSelection
    <2> QED
        BY <1>1, <1>2, <1>4, <2>2, <2>3, <2>4, <2>5, TypesKept
<1>9. Elsewhere(q)
    <2>1. \A o \in Requests : o # q => attempts'[o] = attempts[o]
        BY <1>5, <1>7
    <2> QED
        BY <1>1, <1>2, <1>4, <2>1 DEF Elsewhere, SameBooks, MovesOnly, AnswerTypeOK
<1>10. CallAsDue(q)'
    BY <1>1, <1>2, <1>4 DEF CallAsDue
<1>11. RowTells(q)'
    <2>1. rows[q].state # "closed"
        BY <1>1, <1>2 DEF RowAsDue, Unclosed
    <2> QED
        BY <1>4, <2>1 DEF RowTells
<1>12. AttemptsAsDue(q)'
    <2> SUFFICES ASSUME ~cancelled'[q]
                 PROVE  AttemptsAsDue(q)'
        BY DEF AttemptsAsDue
    <2>1. attempts'[q] = Append(s, a) /\ ~cancelled[q]
        BY <1>4, <1>5, <1>7
    <2>2. /\ \A i \in DOMAIN s : s[i].no = i
          /\ n + 1 = loop[q].attemptNo
          /\ loop[q].retryCount = Retries(q) + (IF loop[q].retryNo > 0 THEN 1 ELSE 0)
          /\ NoSuccess(q) /\ InPlace(q)
        BY <1>1, <1>2, <2>1 DEF AttemptsAsDue, Trying
    <2>3. /\ a.no = loop[q].attemptNo /\ a.endpoint = Current(q).endpoint
          /\ (a.wasRetry <=> loop[q].retryNo > 0) /\ a.success = outcome[q].success
        BY DEF AttemptRow
    <2>4. /\ n \in Nat /\ DOMAIN s = 1..n /\ Len(attempts'[q]) = n + 1
          /\ DOMAIN attempts'[q] = 1..(n + 1)
          /\ \A i \in 1..n : attempts'[q][i] = s[i]
          /\ attempts'[q][n + 1] = a
        BY <1>5, <1>6, <2>1
    <2>5. /\ Retries(q) \in Nat
          /\ Retries(q)' = Retries(q) + (IF a.wasRetry THEN 1 ELSE 0)
        BY <1>5, <1>6, <2>1, RetriesAppend
    <2>6. loop[q].retryCount = Retries(q)'
        BY <2>2, <2>3, <2>5
    <2>7. InPlace(q)'
        <3>1. Tries(q) \in Nat
            BY <1>5 DEF Tries, Counters
        <3>2. Tries(q)' = Tries(q)
            BY <1>2, <1>4, SameTries
        <3>3. /\ loop[q].beIdx \in 1..Len(pairs[q]) /\ loop[q].retryNo + 1 <= Tries(q)
              /\ loop[q].attemptNo = (loop[q].beIdx - 1) * Tries(q) + (loop[q].retryNo + 1)
            BY <1>1, <1>2 DEF LoopAsDue, Trying
        <3> QED
            BY <1>4, <1>5, <1>6, <2>1, <2>2, <2>3, <3>1, <3>2, <3>3, InPlaceAppend
    <2> HIDE DEF a, s, n
    <2>8. \A i \in 1..(n + 1) : i \in 1..n \/ i = n + 1
        BY <2>4
    <2>9. \A i \in 1..(n + 1) : attempts'[q][i].no = i
        BY <2>2, <2>3, <2>4, <2>8
    <2>10. \A i \in 1..(n + 1) : attempts'[q][i].success => i = n + 1 /\ outcome[q].success
        BY <2>2, <2>3, <2>4, <2>8 DEF NoSuccess, s
    <2>11. CASE pc'[q] = "send"
        <3>1. NoSuccess(q)'
            BY <1>1, <1>2, <2>4, <2>10, <2>11 DEF NoSuccess, CallAsDue
        <3>2. Len(attempts'[q]) + 1 = loop'[q].attemptNo
            BY <1>2, <2>2, <2>4, <2>11
        <3>3. loop'[q].retryCount = Retries(q)' + (IF loop'[q].retryNo > 0 THEN 1 ELSE 0)
            BY <1>2, <2>6, <2>11
        <3> QED
            BY <2>4, <2>7, <2>9, <2>11, <3>1, <3>2, <3>3
               DEF AttemptsAsDue, Trying, Ended, BeforeOpen
    <2>12. CASE pc'[q] = "exhausted"
        <3>1. NoSuccess(q)'
            BY <1>1, <1>2, <2>4, <2>10, <2>12 DEF NoSuccess, CallAsDue
        <3>2. Len(attempts'[q]) = loop'[q].attemptNo /\ loop'[q].retryCount = Retries(q)'
            BY <1>2, <2>2, <2>4, <2>6, <2>12
        <3> QED
            BY <2>4, <2>7, <2>9, <2>12, <3>1, <3>2
               DEF AttemptsAsDue, Trying, Ended, BeforeOpen
    <2>13. CASE pc'[q] = "finalize"
        <3>1. Current(q)' = Current(q) /\ outcome'[q] = outcome[q]
            BY <1>2, <1>4, <2>13 DEF Current
        <3>2. Len(attempts'[q]) = loop'[q].attemptNo /\ loop'[q].retryCount = Retries(q)'
            BY <1>2, <2>2, <2>4, <2>6, <2>13
        <3>3. \A i \in DOMAIN attempts'[q] :
                attempts'[q][i].success =>
                    /\ outcome'[q].success /\ i = loop'[q].attemptNo
                    /\ attempts'[q][i].endpoint = Current(q)'.endpoint
            BY <2>3, <2>4, <2>10, <3>1, <3>2
        <3> QED
            BY <2>4, <2>7, <2>9, <2>13, <3>2, <3>3
               DEF AttemptsAsDue, Trying, Ended, BeforeOpen
    <2> QED
        BY <1>2, <2>11, <2>12, <2>13
<1> QED
    BY <1>2, <1>8, <1>9, <1>10, <1>11, <1>12 DEF Booked, BooksAsDue

-----------------------------------------------------------------------------
(* The steps before the first attempt *)

LEMMA NoAttempts ==
    ASSUME NEW q \in Requests, attempts'[q] = <<>>
    PROVE  /\ NoSuccess(q)' /\ InPlace(q)' /\ Retries(q)' = 0
           /\ \A i \in DOMAIN attempts'[q] : attempts'[q][i].no = i
<1>1. DOMAIN attempts'[q] = {}
    OBVIOUS
<1>2. Retries(q)' = Cardinality({})
    BY <1>1 DEF Retries
<1>3. Retries(q)' = 0
    BY <1>2, FS_EmptySet
<1> QED
    BY <1>1, <1>3 DEF NoSuccess, InPlace

(* What a request has on its books until its row is opened: nothing.       *)
LEMMA BooksClosed ==
    ASSUME LedgerInv, NEW q \in Requests, pc[q] \in BeforeOpen,
           pc'[q] \in BeforeOpen \cup {"done"},
           request'[q] = request[q], outcome'[q] = outcome[q],
           cancelled[q] => cancelled'[q],
           rows'[q] = rows[q], attempts'[q] = attempts[q]
    PROVE  BooksAsDue(q)'
<1>1. CallAsDue(q) /\ AttemptsAsDue(q) /\ RowAsDue(q)
    BY LedgerParts
<1>2. CallAsDue(q)'
    BY <1>1 DEF CallAsDue, BeforeOpen
<1>3. LoopAsDue(q)'
    BY DEF LoopAsDue, Trying, Ended, BeforeOpen
<1>4. RowTells(q)'
    BY <1>1 DEF RowTells, RowAsDue
<1>5. AttemptsAsDue(q)'
    <2> SUFFICES ASSUME ~cancelled'[q] PROVE AttemptsAsDue(q)'
        BY DEF AttemptsAsDue
    <2>1. attempts'[q] = <<>>
        BY <1>1 DEF AttemptsAsDue
    <2>2. \A i \in DOMAIN attempts'[q] : attempts'[q][i].no = i
        BY <2>1, NoAttempts
    <2> QED
        BY <2>1, <2>2 DEF AttemptsAsDue, Trying, Ended, BeforeOpen
<1> QED
    BY <1>2, <1>3, <1>4, <1>5 DEF BooksAsDue

LEMMA EarlyStep ==
    ASSUME LedgerInv, NEW q \in Requests,
           Arrive(q) \/ ReadBody(q) \/ FailBody(q) \/ Refuse(q)
    PROVE  Booked(q)
<1> USE DEF Goto, Return
<1>1. /\ LedgerTypeOK /\ AnswerTypeOK /\ RowAsDue(q) /\ TrackerTypeOK
    BY LedgerParts
<1>2. MovesOnly(q)
    <2>1. CASE Arrive(q)
        BY <2>1 DEF Arrive, MovesOnly, Labels, callVars
    <2>2. CASE ~Arrive(q)
        BY <2>2, HandlerStepAnswers, LedgerParts DEF HandlerStep
    <2> QED
        BY <2>1, <2>2
<1>3. /\ UNCHANGED <<now, states, cfg, rr, targets, todo, scheduler, group, pairs, request,
                     loop, outcome, cancelled, attempts>>
    BY DEF Arrive, ReadBody, FailBody, Refuse, sharedVars, selectionVars, callVars, logVars
<1>4. /\ pc[q] \in BeforeOpen /\ pc'[q] \in BeforeOpen \cup {"done"}
      /\ pc'[q] \in BeforeSelection => pc[q] \in BeforeSelection
    BY <1>1 DEF Arrive, ReadBody, FailBody, Refuse, BeforeOpen, BeforeSelection, AnswerTypeOK
<1>5. rows' = rows
    <2>1. CASE Refuse(q)
        <3>1. rows[q].state = "absent"
            BY <1>1, <1>4 DEF RowAsDue
        <3> QED
            BY <2>1, <3>1 DEF Refuse, FinalizeRequest
    <2>2. CASE ~Refuse(q)
        BY <2>2 DEF Arrive, ReadBody, FailBody, logVars
    <2> QED
        BY <2>1, <2>2
<1>6. TrackerTypeOK'
    BY <1>1, <1>3 DEF TrackerTypeOK
<1>7. LedgerTypeOK'
    <2>1. /\ loop \in [Requests -> Counters] /\ cancelled \in [Requests -> BOOLEAN]
          /\ rows \in [Requests -> Row] /\ attempts \in [Requests -> Seq(Attempt)]
        BY <1>1 DEF LedgerTypeOK
    <2> QED
        BY <1>1, <1>2, <1>3, <1>4, <1>5, <1>6, <2>1, TypesKept
<1>8. Elsewhere(q)
    BY <1>1, <1>2, <1>3, <1>5 DEF Elsewhere, SameBooks, MovesOnly, AnswerTypeOK
<1>9. BooksAsDue(q)'
    BY <1>3, <1>4, <1>5, BooksClosed
<1> QED
    BY <1>7, <1>8, <1>9 DEF Booked

LEMMA SelectingStep ==
    ASSUME LedgerInv, NEW q \in Requests, Selecting(q)
    PROVE  Booked(q)
<1>1. /\ LedgerTypeOK /\ AnswerTypeOK /\ TrackerTypeOK
      /\ SelectionInv /\ SelectionTypeOK /\ SelectionDue(q)
    BY LedgerParts
<1>2. SelectionStep(q)
    BY DEF Selecting
<1>3. /\ MovesOnly(q)
      /\ UNCHANGED <<request, loop, outcome, cancelled, rows, attempts>>
    BY HandlerStepAnswers, LedgerParts DEF HandlerStep, Selecting, callVars, logVars
<1>4. /\ UNCHANGED <<now, states>>
      /\ pc[q] \in {"resolve", "select", "schedule", "filter"}
      /\ \E l \in {"select", "schedule", "filter", "selected"} : pc' = [pc EXCEPT ![q] = l]
      /\ \/ UNCHANGED pairs
         \/ FilterPair(q)
         \/ \E t \in Shuffles(group[q]) : Take(q, t)
    BY <1>1, <1>2, SelectionShapes
<1>5. \A o \in Requests : o # q => pairs'[o] = pairs[o]
    BY <1>1, <1>4 DEF FilterPair, Take, SelectionTypeOK
<1>6. SelectionInv'
    BY <1>1, <1>2, SelectionKeeps
<1>7. LedgerTypeOK'
    <2>1. TrackerTypeOK'
        BY <1>1, <1>4 DEF TrackerTypeOK
    <2>2. AnswerTypeOK'
        BY <1>1, <1>3, MoveKeepsType
    <2> QED
        BY <1>1, <1>3, <1>6, <2>1, <2>2 DEF LedgerTypeOK
<1>8. Elsewhere(q)
    BY <1>1, <1>3, <1>5 DEF Elsewhere, SameBooks, MovesOnly, AnswerTypeOK
<1>9. pc[q] \in BeforeOpen /\ pc'[q] \in BeforeOpen
    BY <1>1, <1>4 DEF BeforeOpen, AnswerTypeOK
<1>10. BooksAsDue(q)'
    BY <1>3, <1>9, BooksClosed
<1> QED
    BY <1>7, <1>8, <1>10 DEF Booked

LEMMA OpenBooks ==
    ASSUME LedgerInv, NEW q \in Requests, Open(q)
    PROVE  Booked(q)
<1>1. /\ MovesOnly(q) /\ LedgerTypeOK /\ AnswerTypeOK /\ TrackerTypeOK
      /\ CallAsDue(q) /\ AttemptsAsDue(q) /\ RowAsDue(q) /\ SelectionTypeOK
    BY HandlerStepAnswers, LedgerParts DEF HandlerStep
<1>2. /\ pc[q] = "selected" /\ pc' = [pc EXCEPT ![q] = "send"] /\ pairs[q] # <<>>
      /\ UNCHANGED <<now, states, cfg, rr, targets, todo, scheduler, group, pairs, request,
                     outcome, cancelled, attempts>>
    BY DEF Open, Goto, sharedVars, selectionVars
<1>3. pc'[q] = "send"
    BY <1>1, <1>2 DEF AnswerTypeOK
<1> DEFINE k == [NoLoop EXCEPT !.beIdx = 1, !.attemptNo = 1, !.maxRetries = cfg.retry]
<1>4. loop' = [loop EXCEPT ![q] = k]
    BY DEF Open
<1>5. cfg.retry \in Nat
    BY <1>1, ConfigsAssumption DEF SelectionTypeOK, ValidConfig
<1>6. /\ k \in Counters /\ k.beIdx = 1 /\ k.attemptNo = 1 /\ k.maxRetries = cfg.retry
      /\ k.retryNo = 0 /\ k.retryCount = 0 /\ k.fallbackCount = 0
    BY <1>5 DEF NoLoop, Counters
<1> HIDE DEF k
<1>7. /\ loop \in [Requests -> Counters] /\ cancelled \in [Requests -> BOOLEAN]
      /\ rows \in [Requests -> Row] /\ attempts \in [Requests -> Seq(Attempt)]
      /\ request[q].badPath \in BOOLEAN /\ pairs[q] \in Seq(Pair)
    BY <1>1, InputsAssumption DEF LedgerTypeOK, Input, SelectionTypeOK
<1>8. /\ loop'[q] = k /\ loop' \in [Requests -> Counters]
      /\ \A o \in Requests : o # q => loop'[o] = loop[o]
    BY <1>4, <1>6, <1>7
<1>9. rows' = IF cancelled[q] THEN rows ELSE [rows EXCEPT ![q] = OpenedRow]
    BY DEF Open
<1>10. /\ rows' \in [Requests -> Row] /\ rows'[q].state # "closed"
       /\ \A o \in Requests : o # q => rows'[o] = rows[o]
    <2>1. rows[q].state = "absent"
        BY <1>1, <1>2 DEF RowAsDue, BeforeOpen
    <2>2. OpenedRow.state = "open" /\ OpenedRow \in Row
        BY NothingYet DEF OpenedRow, NoRow
    <2> QED
        BY <1>7, <1>9, <2>1, <2>2
<1>11. LedgerTypeOK'
    <2>1. TrackerTypeOK'
        BY <1>1, <1>2 DEF TrackerTypeOK
    <2>2. pc'[q] \notin BeforeSelection
        BY <1>3 DEF BeforeSelection
    <2> QED
        BY <1>1, <1>2, <1>7, <1>8, <1>10, <2>1, <2>2, TypesKept
<1>12. Elsewhere(q)
    BY <1>1, <1>2, <1>8, <1>10 DEF Elsewhere, SameBooks, MovesOnly, AnswerTypeOK
<1>13. Tries(q)' \in Nat /\ 1 <= Tries(q)'
    BY <1>2, <1>5, <1>6, <1>7, <1>8 DEF Tries
<1>14. LoopAsDue(q)'
    <2>1. 1 \in 1..Len(pairs'[q])
        BY <1>2, <1>7
    <2>2. (1 - 1) * Tries(q)' = 0
        BY <1>13
    <2> QED
        BY <1>3, <1>6, <1>8, <1>13, <2>1, <2>2 DEF LoopAsDue
<1>15. AttemptsAsDue(q)'
    <2> SUFFICES ASSUME ~cancelled'[q] PROVE AttemptsAsDue(q)'
        BY DEF AttemptsAsDue
    <2>1. attempts'[q] = <<>> /\ Len(attempts'[q]) = 0
        BY <1>1, <1>2 DEF AttemptsAsDue, BeforeOpen
    <2>2. /\ NoSuccess(q)' /\ InPlace(q)' /\ Retries(q)' = 0
          /\ \A i \in DOMAIN attempts'[q] : attempts'[q][i].no = i
        BY <2>1, NoAttempts
    <2> QED
        BY <1>3, <1>6, <1>8, <2>1, <2>2 DEF AttemptsAsDue, Trying, Ended, BeforeOpen
<1>16. CallAsDue(q)' /\ RowTells(q)'
    BY <1>1, <1>2, <1>3, <1>10 DEF CallAsDue, RowTells
<1> QED
    BY <1>11, <1>12, <1>14, <1>15, <1>16 DEF Booked, BooksAsDue

-----------------------------------------------------------------------------
(* The steps that close the row, and the client's leaving *)

(* A row that is closed, if there is one and the client is there to see.   *)
LEMMA ClosingBooks ==
    ASSUME LedgerInv, NEW q \in Requests, MovesOnly(q), pc[q] \in Ended,
           pc' = [pc EXCEPT ![q] = "done"], NEW row \in Row,
           FinalizeRequest(q, row),
           UNCHANGED <<now, states, cfg, rr, targets, todo, scheduler, group, pairs, request,
                       loop, outcome, cancelled, attempts>>,
           ~cancelled[q] =>
              /\ row.success => IsSuccess(row.status)
              /\ \A i \in DOMAIN attempts[q] :
                    attempts[q][i].success =>
                       /\ row.success
                       /\ i = row.finalAttemptNo
                       /\ row.endpoint = <<attempts[q][i].endpoint>>
              /\ row.endpoint # <<>> =>
                    /\ row.finalAttemptNo = 1 + row.retryCount + row.fallbackCount
                    /\ row.finalAttemptNo = Len(attempts[q])
                    /\ row.finalAttemptNo \in DOMAIN attempts[q]
                    /\ row.endpoint = <<attempts[q][row.finalAttemptNo].endpoint>>
                    /\ row.retryCount = Retries(q)
    PROVE  Booked(q)
<1>1. /\ LedgerTypeOK /\ AnswerTypeOK /\ TrackerTypeOK
      /\ CallAsDue(q) /\ AttemptsAsDue(q) /\ RowAsDue(q)
    BY LedgerParts
<1>2. pc'[q] = "done" /\ pc[q] # "done"
    BY <1>1 DEF AnswerTypeOK, Ended
<1>3. /\ loop \in [Requests -> Counters] /\ cancelled \in [Requests -> BOOLEAN]
      /\ rows \in [Requests -> Row] /\ attempts \in [Requests -> Seq(Attempt)]
    BY <1>1 DEF LedgerTypeOK
<1>4. /\ rows' \in [Requests -> Row]
      /\ \A o \in Requests : o # q => rows'[o] = rows[o]
      /\ rows'[q].state = "closed" => ~cancelled[q] /\ rows'[q] = row
    <2>1. rows[q].state # "closed"
        BY <1>1, <1>2 DEF RowAsDue, Unclosed
    <2> QED
        BY <1>3, <2>1 DEF FinalizeRequest
<1>5. LedgerTypeOK'
    <2>1. TrackerTypeOK'
        BY <1>1 DEF TrackerTypeOK
    <2>2. pc'[q] \notin BeforeSelection
        BY <1>2 DEF BeforeSelection
    <2> QED
        BY <1>1, <1>3, <1>4, <2>1, <2>2, TypesKept
<1>6. Elsewhere(q)
    BY <1>1, <1>4 DEF Elsewhere, SameBooks, AnswerTypeOK
<1>7. CallAsDue(q)' /\ LoopAsDue(q)'
    BY <1>1, <1>2 DEF CallAsDue, LoopAsDue, Trying, Ended
<1>8. ~cancelled[q] => \A i \in DOMAIN attempts[q] : attempts[q][i].no = i
    BY <1>1 DEF AttemptsAsDue
<1>9. AttemptsAsDue(q)'
    BY <1>2, <1>8 DEF AttemptsAsDue, Trying, Ended, BeforeOpen
<1>10. Retries(q)' = Retries(q)
    BY SameRetries
<1>11. RowTells(q)'
    BY <1>4, <1>8, <1>10 DEF RowTells
<1> QED
    BY <1>5, <1>6, <1>7, <1>9, <1>11 DEF Booked, BooksAsDue

LEMMA GiveUpBooks ==
    ASSUME LedgerInv, NEW q \in Requests, GiveUp(q)
    PROVE  Booked(q)
<1> DEFINE row == ErrorRow(502)
<1>1. MovesOnly(q) /\ AttemptsAsDue(q)
    BY HandlerStepAnswers, LedgerParts DEF HandlerStep
<1>2. /\ pc[q] = "exhausted" /\ pc' = [pc EXCEPT ![q] = "done"] /\ FinalizeRequest(q, row)
      /\ UNCHANGED <<now, states, cfg, rr, targets, todo, scheduler, group, pairs, request,
                     loop, outcome, cancelled, attempts>>
    BY DEF GiveUp, Return, Goto, sharedVars, selectionVars, callVars
<1>3. row \in Row /\ ~row.success /\ row.endpoint = <<>>
    <2>1. row \in Row
        BY NothingYet
    <2>2. ~ErrorRow(502).success /\ ErrorRow(502).endpoint = <<>>
        BY DEF ErrorRow, NoRow
    <2> QED
        BY <2>1, <2>2
<1>4. ~cancelled[q] => \A i \in DOMAIN attempts[q] : ~attempts[q][i].success
    BY <1>1, <1>2 DEF AttemptsAsDue, NoSuccess
<1> HIDE DEF row
<1> QED
    BY <1>1, <1>2, <1>3, <1>4, ClosingBooks DEF Ended

LEMMA FinalizeBooks ==
    ASSUME LedgerInv, NEW q \in Requests, Finalize(q)
    PROVE  Booked(q)
<1> DEFINE row == [state |-> "closed", status |-> outcome[q].reply.status,
                   success |-> outcome[q].success,
                   finalAttemptNo |-> loop[q].attemptNo,
                   retryCount |-> loop[q].retryCount,
                   fallbackCount |-> loop[q].fallbackCount,
                   endpoint |-> <<Current(q).endpoint>>]
           s == attempts[q]
           b == loop[q].beIdx
           t == loop[q].retryNo + 1
<1>1. /\ MovesOnly(q) /\ LedgerTypeOK /\ AnswerTypeOK
      /\ AttemptsAsDue(q) /\ CallAsDue(q) /\ LoopAsDue(q)
    BY HandlerStepAnswers, LedgerParts DEF HandlerStep
<1>2. /\ pc[q] = "finalize" /\ pc' = [pc EXCEPT ![q] = "done"] /\ FinalizeRequest(q, row)
      /\ UNCHANGED <<now, states, cfg, rr, targets, todo, scheduler, group, pairs, request,
                     loop, outcome, cancelled, attempts>>
    BY DEF Finalize, Return, Goto, sharedVars, selectionVars, callVars
<1>3. /\ loop[q] \in Counters /\ outcome[q] \in Outcome /\ s \in Seq(Attempt)
      /\ pairs[q] \in Seq(Pair) /\ Current(q).endpoint \in Endpoints
    BY <1>1, <1>2, CurrentIsPair, LedgerParts
       DEF LedgerTypeOK, AnswerTypeOK, SelectionTypeOK, Ended
<1>4. row \in Row
    <2>1. outcome[q].reply.status \in Nat /\ outcome[q].success \in BOOLEAN
        BY <1>3 DEF Outcome, Reply
    <2>2. <<Current(q).endpoint>> \in Seq(Endpoints)
        BY <1>3
    <2> QED
        BY <1>3, <2>1, <2>2 DEF Row, Counters
<1>5. /\ loop[q].attemptNo = 1 + loop[q].retryCount + loop[q].fallbackCount
      /\ loop[q].attemptNo = (b - 1) * Tries(q) + t
      /\ b \in 1..Len(pairs[q]) /\ t <= Tries(q)
    BY <1>1, <1>2 DEF LoopAsDue, Ended
<1>6. row.success => IsSuccess(row.status)
    BY <1>1 DEF CallAsDue
<1>7. ASSUME ~cancelled[q]
      PROVE  /\ \A i \in DOMAIN s : s[i].success =>
                    /\ row.success /\ i = row.finalAttemptNo
                    /\ row.endpoint = <<s[i].endpoint>>
             /\ row.finalAttemptNo = Len(s) /\ row.retryCount = Retries(q)
             /\ row.finalAttemptNo \in DOMAIN s
             /\ row.endpoint = <<s[row.finalAttemptNo].endpoint>>
    <2>1. /\ Len(s) = loop[q].attemptNo /\ loop[q].retryCount = Retries(q)
          /\ \A i \in DOMAIN s : s[i].success =>
                /\ outcome[q].success /\ i = loop[q].attemptNo
                /\ s[i].endpoint = Current(q).endpoint
          /\ InPlace(q)
        BY <1>1, <1>2, <1>7 DEF AttemptsAsDue, Ended
    <2>2. loop[q].attemptNo \in DOMAIN s
        <3>1. loop[q].attemptNo \in Nat \ {0}
            <4>1. loop[q].retryCount \in Nat /\ loop[q].fallbackCount \in Nat
                BY <1>3 DEF Counters
            <4> QED
                BY <1>5, <4>1
        <3> QED
            BY <1>3, <2>1, <3>1
    <2>3. s[loop[q].attemptNo].endpoint = Current(q).endpoint
        <3>1. t \in 1..Tries(q)
            <4>1. t \in Nat \ {0} /\ Tries(q) \in Nat
                BY <1>3 DEF Counters, Tries
            <4> QED
                BY <1>5, <4>1
        <3>2. b \in DOMAIN pairs[q] /\ (b - 1) * Tries(q) + t \in DOMAIN s
            BY <1>3, <1>5, <2>2
        <3> HIDE DEF s, b, t
        <3>3. s[(b - 1) * Tries(q) + t].endpoint = pairs[q][b].endpoint
            BY <2>1, <3>1, <3>2 DEF InPlace, s
        <3> QED
            BY <1>5, <3>3 DEF b, Current
    <2> QED
        BY <2>1, <2>2, <2>3
<1>8. /\ row.finalAttemptNo = 1 + row.retryCount + row.fallbackCount
    BY <1>5
<1> HIDE DEF row
<1> QED
    BY <1>1, <1>2, <1>4, <1>6, <1>7, <1>8, ClosingBooks DEF Ended

LEMMA CancelBooks ==
    ASSUME LedgerInv, NEW q \in Requests, Cancel(q)
    PROVE  Booked(q)
<1>1. LedgerTypeOK /\ AnswerTypeOK /\ BooksAsDue(q) /\ TrackerTypeOK
    BY LedgerParts
<1>2. /\ cancelled' = [cancelled EXCEPT ![q] = TRUE]
      /\ UNCHANGED <<now, states, cfg, rr, pc, targets, todo, scheduler, group, pairs,
                     request, loop, outcome, sent, rows, attempts>>
    BY DEF Cancel, routingVars, selectionVars, callVars, logVars
<1>3. /\ loop \in [Requests -> Counters] /\ cancelled \in [Requests -> BOOLEAN]
      /\ rows \in [Requests -> Row] /\ attempts \in [Requests -> Seq(Attempt)]
      /\ pc \in [Requests -> Labels]
    BY <1>1 DEF LedgerTypeOK, AnswerTypeOK
<1>4. MovesOnly(q)
    <2>1. pc' = [pc EXCEPT ![q] = pc[q]] /\ pc[q] \in Labels
        BY <1>2, <1>3
    <2> QED
        BY <1>2, <2>1 DEF MovesOnly
<1>5. cancelled' \in [Requests -> BOOLEAN] /\ cancelled'[q]
    BY <1>2, <1>3
<1>6. LedgerTypeOK'
    <2>1. TrackerTypeOK'
        BY <1>1, <1>2 DEF TrackerTypeOK
    <2> QED
        BY <1>1, <1>2, <1>3, <1>4, <1>5, <2>1, TypesKept
<1>7. Elsewhere(q)
    BY <1>2, <1>3 DEF Elsewhere, SameBooks
<1>8. Retries(q)' = Retries(q) /\ Tries(q)' = Tries(q)
    BY <1>2, SameRetries, SameTries
<1>9. BooksAsDue(q)'
    BY <1>1, <1>2, <1>5, <1>8
       DEF BooksAsDue, CallAsDue, LoopAsDue, AttemptsAsDue, RowTells
<1> QED
    BY <1>6, <1>7, <1>9 DEF Booked

-----------------------------------------------------------------------------
LEMMA LedgerInvInit == Init => LedgerInv
<1> SUFFICES ASSUME Init PROVE LedgerInv
    OBVIOUS
<1>1. ProxyInv
    BY ProxyInvInit
<1>2. SelectionInv
    BY SelectionInit DEF Init, RoutingInit
<1>3. TrackerTypeOK
    BY TrackerInvInit DEF Init, RoutingInit, TrackerInv
<1>4. LedgerTypeOK
    <2>1. <<>> \in Seq(Attempt)
        OBVIOUS
    <2> QED
        BY <1>1, <1>2, <1>3, <2>1, NothingYet
           DEF LedgerTypeOK, ProxyInv, AnswerInv, Init
<1>5. ASSUME NEW q \in Requests PROVE BooksAsDue(q)
    <2>1. /\ pc[q] = "idle" /\ attempts[q] = <<>> /\ rows[q] = NoRow /\ outcome[q] = NoOutcome
        BY DEF Init, RoutingInit
    <2>2. CallAsDue(q)
        BY <2>1 DEF CallAsDue, NoOutcome
    <2>3. LoopAsDue(q) /\ RowTells(q)
        BY <2>1 DEF LoopAsDue, RowTells, Trying, Ended, NoRow
    <2>4. AttemptsAsDue(q)
        BY <2>1 DEF AttemptsAsDue, Trying, Ended, BeforeOpen
    <2> QED
        BY <2>2, <2>3, <2>4 DEF BooksAsDue
<1> QED
    BY <1>1, <1>4, <1>5 DEF LedgerInv

LEMMA HandlerStepBooks ==
    ASSUME LedgerInv, NEW q \in Requests, Arrive(q) \/ Cancel(q) \/ HandlerStep(q)
    PROVE  Booked(q)
    BY EarlyStep, SelectingStep, OpenBooks, CallStep, LogStep, GiveUpBooks, FinalizeBooks,
       CancelBooks DEF HandlerStep, Calling, Logs

LEMMA LedgerInvNext == LedgerInv /\ [Next]_vars => LedgerInv'
<1> SUFFICES ASSUME LedgerInv, [Next]_vars PROVE LedgerInv'
    OBVIOUS
<1>1. ProxyInv'
    BY ProxyInvStep DEF LedgerInv
<1>2. ASSUME NEW q \in Requests, Booked(q) PROVE LedgerInv'
    <2>1. \A o \in Requests : BooksAsDue(o)'
        BY <1>2, BooksElsewhere DEF Booked
    <2> QED
        BY <1>1, <1>2, <2>1 DEF Booked, LedgerInv
<1>3. ASSUME UNCHANGED <<states, rr, pc, targets, todo, scheduler, group, pairs, request, loop,
                         outcome, sent, cancelled, rows, attempts>>,
             now' \in Clock, cfg' \in Configs
      PROVE  LedgerInv'
    <2>0. LedgerTypeOK /\ AnswerTypeOK /\ SelectionInv /\ TrackerTypeOK
        BY DEF LedgerInv, LedgerTypeOK
    <2>1. \A q \in Requests : SameBooks(q)
        BY <1>3 DEF SameBooks
    <2>2. \A q \in Requests : BooksAsDue(q)'
        BY <2>1, SameBooksDue DEF LedgerInv
    <2>3. SelectionInv'
        BY <1>3, <2>0, OthersKeepSelection DEF AnswerTypeOK
    <2>4. AnswerTypeOK' /\ TrackerTypeOK'
        BY <1>3, <2>0 DEF AnswerTypeOK, TrackerTypeOK
    <2> QED
        BY <1>1, <1>3, <2>0, <2>2, <2>3, <2>4 DEF LedgerInv, LedgerTypeOK
<1>4. now \in Clock /\ cfg \in Configs
    BY DEF LedgerInv, LedgerTypeOK, TrackerTypeOK, SelectionInv, SelectionTypeOK
<1>5. CASE Environment
    BY <1>3, <1>4, <1>5 DEF Environment, Reload, Tick, selectionVars, callVars, logVars
<1>6. CASE UNCHANGED vars
    BY <1>3, <1>4, <1>6 DEF vars, routingVars, selectionVars, callVars, logVars
<1>7. ASSUME NEW q \in Requests, Arrive(q) \/ Cancel(q) \/ HandlerStep(q) PROVE LedgerInv'
    BY <1>2, <1>7, HandlerStepBooks
<1> QED
    BY <1>5, <1>6, <1>7 DEF Next

-----------------------------------------------------------------------------
(* The gauge of running handlers, counted for any number of requests.      *)
LEMMA GaugeMoves ==
    ASSUME NEW S, NEW x, IsFiniteSet(S)
    PROVE  /\ IsFiniteSet(S \cup {x}) /\ IsFiniteSet(S \ {x})
           /\ Cardinality(S) \in Nat
           /\ x \notin S => Cardinality(S \cup {x}) = Cardinality(S) + 1
           /\ x \in S => Cardinality(S \ {x}) = Cardinality(S) - 1
    BY FS_AddElement, FS_RemoveElement, FS_CardinalityType

Running == {q \in Requests : pc[q] \notin {"idle", "done"}}

GaugeInv == IsFiniteSet(Running) /\ inflight = Cardinality(Running)

LEMMA GaugeInvInit == Init => GaugeInv
<1> SUFFICES ASSUME Init PROVE GaugeInv
    OBVIOUS
<1>1. Running = {} /\ inflight = 0
    BY DEF Init, RoutingInit, Running
<1> QED
    BY <1>1, FS_EmptySet DEF GaugeInv

LEMMA GaugeInvNext == LedgerInv /\ GaugeInv /\ [Next]_vars => GaugeInv'
<1> SUFFICES ASSUME LedgerInv, GaugeInv, [Next]_vars PROVE GaugeInv'
    OBVIOUS
<1>1. pc \in [Requests -> Labels] /\ AnswerTypeOK
    BY DEF LedgerInv, LedgerTypeOK, AnswerTypeOK
<1> USE DEF Goto, Return
<1>2. ASSUME UNCHANGED <<pc, inflight>> PROVE GaugeInv'
    BY <1>2 DEF GaugeInv, Running
<1>3. ASSUME NEW q \in Requests, NEW l \in Labels \ {"idle", "done"},
             pc[q] \notin {"idle", "done"}, pc' = [pc EXCEPT ![q] = l], inflight' = inflight
      PROVE  GaugeInv'
    <2>1. Running' = Running
        BY <1>1, <1>3 DEF Running
    <2> QED
        BY <1>3, <2>1 DEF GaugeInv
<1>4. ASSUME NEW q \in Requests, pc[q] \notin {"idle", "done"},
             pc' = [pc EXCEPT ![q] = "done"], inflight' = inflight - 1
      PROVE  GaugeInv'
    <2>1. Running' = Running \ {q} /\ q \in Running
        BY <1>1, <1>4 DEF Running
    <2> QED
        BY <1>4, <2>1, GaugeMoves DEF GaugeInv
<1>5. ASSUME NEW q \in Requests, Arrive(q) PROVE GaugeInv'
    <2>1. Running' = Running \cup {q} /\ q \notin Running /\ inflight' = inflight + 1
        BY <1>1, <1>5 DEF Running, Arrive
    <2> QED
        BY <2>1, GaugeMoves DEF GaugeInv
<1>6. ASSUME NEW q \in Requests, FailBody(q) \/ Refuse(q) \/ GiveUp(q) \/ Finalize(q)
      PROVE  GaugeInv'
    <2>1. /\ pc[q] \notin {"idle", "done"} /\ pc' = [pc EXCEPT ![q] = "done"]
          /\ inflight' = inflight - 1
        BY <1>6 DEF FailBody, Refuse, GiveUp, Finalize
    <2> QED
        BY <1>4, <2>1
<1>7. ASSUME NEW q \in Requests, Calling(q) \/ Logs(q) \/ ReadBody(q) \/ Open(q)
      PROVE  GaugeInv'
    <2>1. /\ pc[q] \notin {"idle", "done"} /\ inflight' = inflight
          /\ \E l \in Labels \ {"idle", "done"} : pc' = [pc EXCEPT ![q] = l]
        BY <1>7 DEF Calling, BuildFails, Send, SendFails, TransportFails, ReplyIsRetryable,
                    CommitReply, CopyBody, Cool, Logs, Finished, RetrySame, FallBack, Exhaust,
                    RecordAttempt, ReadBody, Open, Labels
    <2> QED
        BY <1>3, <2>1
<1>8. ASSUME NEW q \in Requests, Selecting(q) PROVE GaugeInv'
    <2>1. /\ pc[q] \in {"resolve", "select", "schedule", "filter"}
          /\ \E l \in {"select", "schedule", "filter", "selected"} : pc' = [pc EXCEPT ![q] = l]
        BY <1>8, LedgerParts, SelectionShapes DEF Selecting
    <2>2. inflight' = inflight
        BY <1>8 DEF Selecting
    <2> QED
        BY <1>3, <2>1, <2>2 DEF Labels
<1>9. CASE Environment \/ (\E q \in Requests : Cancel(q)) \/ UNCHANGED vars
    <2>1. UNCHANGED <<pc, inflight>>
        BY <1>9 DEF Environment, Reload, Cancel, vars, routingVars
    <2> QED
        BY <1>2, <2>1
<1>10. CASE \E q \in Requests : HandlerStep(q)
    BY <1>6, <1>7, <1>8, <1>10 DEF HandlerStep, Calling, Logs
<1> QED
    BY <1>5, <1>9, <1>10 DEF Next

-----------------------------------------------------------------------------
(* Theorems *)

(* The gauge of the dashboard is exact: it is moved by every arrival and   *)
(* every way a handler returns, and by nothing else.                       *)
THEOREM GaugeIsExact == Spec => []InflightExact
<1>1. GaugeInv => InflightExact
    BY DEF GaugeInv, InflightExact, Running
<1>2. Init => LedgerInv /\ GaugeInv
    BY LedgerInvInit, GaugeInvInit
<1>3. LedgerInv /\ GaugeInv /\ [Next]_vars => LedgerInv' /\ GaugeInv'
    BY LedgerInvNext, GaugeInvNext
<1> QED
    BY <1>1, <1>2, <1>3, PTL DEF Spec

(* The handler's types: the tables hold rows of their columns' types, every*)
(* counter is a natural number and a handler is at one of its labels.      *)
THEOREM ProxyTypeCorrect == Spec => []TypeOK
<1>1. LedgerInv /\ GaugeInv => TypeOK
    <2> SUFFICES ASSUME LedgerInv, GaugeInv PROVE TypeOK
        OBVIOUS
    <2>1. inflight \in Nat
        BY FS_CardinalityType DEF GaugeInv
    <2> QED
        BY <2>1 DEF LedgerInv, LedgerTypeOK, AnswerTypeOK, SelectionInv, SelectionTypeOK, TypeOK
<1>2. Init => LedgerInv /\ GaugeInv
    BY LedgerInvInit, GaugeInvInit
<1>3. LedgerInv /\ GaugeInv /\ [Next]_vars => LedgerInv' /\ GaugeInv'
    BY LedgerInvNext, GaugeInvNext
<1> QED
    BY <1>1, <1>2, <1>3, PTL DEF Spec

(* A closed row has the status the client was sent; it is a success only   *)
(* with a 2xx status, and then the successful attempt is the last one and  *)
(* was made at the endpoint the row names.                                 *)
THEOREM LedgerIsTrue == Spec => []LedgerMatchesAnswer
<1>1. ASSUME LedgerInv PROVE LedgerMatchesAnswer
    <2>1. ASSUME NEW q \in Requests PROVE RowTells(q) /\ RowAsDue(q)
        BY <1>1, LedgerParts
    <2> QED
        BY <2>1 DEF RowTells, RowAsDue, Unclosed, LedgerMatchesAnswer
<1> QED
    BY <1>1, LedgerInvInit, LedgerInvNext, PTL DEF Spec

(* The counters of a row closed by an endpoint's answer add up and count   *)
(* the rows of the attempts table, which are numbered from 1 without gaps. *)
THEOREM LedgerIsComplete == Spec => []LedgerCountsAttempts
<1>1. ASSUME LedgerInv PROVE LedgerCountsAttempts
    <2>1. ASSUME NEW q \in Requests PROVE RowTells(q)
        BY <1>1, LedgerParts
    <2> QED
        BY <2>1 DEF RowTells, LedgerCountsAttempts
<1> QED
    BY <1>1, LedgerInvInit, LedgerInvNext, PTL DEF Spec

(* The proxy gives up only after every pair had its first try and all its  *)
(* retries, in the order of the pairs, for any number of pairs and retries.*)
THEOREM FailoverIsExhaustive == Spec => []FailoverExhaustive
<1>1. ASSUME LedgerInv PROVE FailoverExhaustive
    <2> SUFFICES ASSUME NEW q \in Requests, pc[q] = "exhausted"
                 PROVE  /\ loop[q].attemptNo = Len(pairs[q]) * Tries(q)
                        /\ ~cancelled[q] =>
                              \A i \in DOMAIN pairs[q], t \in 1..Tries(q) :
                                  attempts[q][(i - 1) * Tries(q) + t].endpoint
                                      = pairs[q][i].endpoint
        BY DEF FailoverExhaustive
    <2> DEFINE T == Tries(q)
               N == Len(pairs[q])
    <2>1. /\ LoopAsDue(q) /\ AttemptsAsDue(q) /\ loop[q] \in Counters
          /\ pairs[q] \in Seq(Pair) /\ attempts[q] \in Seq(Attempt)
        BY <1>1, LedgerParts DEF LedgerTypeOK, SelectionTypeOK
    <2>2. /\ loop[q].attemptNo = (N - 1) * T + T
        BY <2>1 DEF LoopAsDue, Ended
    <2>3. T \in Nat /\ N \in Nat
        BY <2>1 DEF Tries, Counters
    <2> HIDE DEF T, N
    <2>4. loop[q].attemptNo = N * T
        <3>1. (N - 1) * T + T = N * T
            BY <2>3, SMT
        <3> QED
            BY <2>2, <3>1
    <2>5. ASSUME ~cancelled[q], NEW i \in DOMAIN pairs[q], NEW t \in 1..T
          PROVE  attempts[q][(i - 1) * T + t].endpoint = pairs[q][i].endpoint
        <3>1. Len(attempts[q]) = N * T /\ InPlace(q)
            BY <2>1, <2>4, <2>5 DEF AttemptsAsDue, Ended
        <3>2. i \in Nat /\ 1 <= i /\ i <= N
            BY <2>1 DEF N
        <3>3. PICK x \in Nat : x = i - 1
            BY <3>2
        <3>4. x * T \in Nat /\ x * T + T <= N * T
            <4>1. x + 1 \in Nat /\ x + 1 <= N
                BY <2>3, <3>2, <3>3
            <4>2. (x + 1) * T <= N * T
                BY <2>3, <4>1, Scaling
            <4>3. (x + 1) * T = x * T + T /\ x * T \in Nat
                BY <2>3, SMT
            <4> QED
                BY <4>2, <4>3
        <3>5. x * T + t \in 1..(N * T)
            <4>1. N * T \in Nat
                BY <2>3, SMT
            <4> DEFINE k == x * T
                       m == N * T
            <4>2. k \in Nat /\ k + T <= m /\ m \in Nat
                BY <3>4, <4>1
            <4> HIDE DEF k, m
            <4>3. k + t \in 1..m
                BY <2>3, <4>2
            <4> QED
                BY <4>3 DEF k, m
        <3>6. (i - 1) * T + t \in DOMAIN attempts[q]
            BY <2>1, <3>1, <3>3, <3>5
        <3> QED
            BY <3>1, <3>6 DEF InPlace, T
    <2> QED
        BY <2>4, <2>5 DEF T, N
<1> QED
    BY <1>1, LedgerInvInit, LedgerInvNext, PTL DEF Spec

-----------------------------------------------------------------------------
(* The tracker's counts and the attempts table.  Both sets are finite, for *)
(* any number of requests, because each step adds at most one element.     *)
Backed(e, k) ==
    /\ IsFiniteSet(FailedAttempts(e)) /\ IsFiniteSet(Logging(e))
    /\ k <= Cardinality(FailedAttempts(e)) + Cardinality(Logging(e))

Explained(e) == Backed(e, states[e].errors)

ExplainedInv ==
    (\A q \in Requests : ~cancelled[q]) => \A e \in Endpoints : Explained(e)

LEMMA FailedIs ==
    ASSUME NEW e
    PROVE  /\ \A x : x \in FailedAttempts(e) <=>
                \E q \in Requests : \E i \in DOMAIN attempts[q] :
                    x = <<q, i>> /\ attempts[q][i].endpoint = e /\ ~attempts[q][i].success
           /\ \A x : x \in FailedAttempts(e)' <=>
                \E q \in Requests : \E i \in DOMAIN attempts'[q] :
                    x = <<q, i>> /\ attempts'[q][i].endpoint = e /\ ~attempts'[q][i].success
<1>1. \A x : x \in FailedAttempts(e) <=>
        \E q \in Requests : \E i \in DOMAIN attempts[q] :
            x = <<q, i>> /\ attempts[q][i].endpoint = e /\ ~attempts[q][i].success
    BY DEF FailedAttempts
<1>2. \A x : x \in FailedAttempts(e)' <=>
        \E q \in Requests : \E i \in DOMAIN attempts'[q] :
            x = <<q, i>> /\ attempts'[q][i].endpoint = e /\ ~attempts'[q][i].success
    BY DEF FailedAttempts
<1> QED
    BY <1>1, <1>2

LEMMA ExplainedInit == Init => ExplainedInv
<1> SUFFICES ASSUME Init, NEW e \in Endpoints PROVE Explained(e)
    BY DEF ExplainedInv
<1>1. FailedAttempts(e) = {}
    <2>1. \A q \in Requests : DOMAIN attempts[q] = {}
        BY DEF Init
    <2> QED
        BY <2>1, FailedIs
<1>2. Logging(e) = {} /\ states[e].errors = 0
    BY DEF Init, RoutingInit, TrackerInit, NeverFailed, Logging
<1>3. IsFiniteSet({}) /\ Cardinality({}) = 0
    BY FS_EmptySet
<1> QED
    BY <1>1, <1>2, <1>3 DEF Explained, Backed

(* No attempt is logged and no failure is told: nothing changes here.      *)
Silent ==
    /\ UNCHANGED <<states, attempts>>
    /\ \A q \in Requests : cancelled[q] => cancelled'[q]
    /\ \A q \in Requests :
          \/ pc[q] # "log" /\ pc'[q] # "log"
          \/ pc'[q] = pc[q] /\ outcome'[q] = outcome[q]
               /\ pairs'[q] = pairs[q] /\ loop'[q] = loop[q]

LEMMA FewerBacked ==
    ASSUME NEW e, NEW k \in Nat, NEW n \in Nat, n <= k, Backed(e, k)'
    PROVE  Backed(e, n)'
<1> DEFINE failed == FailedAttempts(e)'
           logging == Logging(e)'
<1>1. /\ IsFiniteSet(failed) /\ IsFiniteSet(logging)
      /\ k <= Cardinality(failed) + Cardinality(logging)
    BY DEF Backed
<1>2. Backed(e, n)' <=> /\ IsFiniteSet(failed) /\ IsFiniteSet(logging)
                        /\ n <= Cardinality(failed) + Cardinality(logging)
    BY DEF Backed
<1> HIDE DEF failed, logging
<1>3. Cardinality(failed) \in Nat /\ Cardinality(logging) \in Nat
    BY <1>1, FS_CardinalityType
<1> QED
    BY <1>1, <1>2, <1>3

LEMMA BackedIdle ==
    ASSUME Silent, NEW e \in Endpoints, NEW k \in Nat, Backed(e, k)
    PROVE  Backed(e, k)'
<1>1. FailedAttempts(e)' = FailedAttempts(e)
    BY DEF Silent, FailedAttempts
<1>2. Logging(e)' = Logging(e)
    BY DEF Silent, Logging, Current
<1> QED
    BY <1>1, <1>2 DEF Backed

(* A failure is told to the tracker, and is about to be logged.            *)
Tells(q, e) == ~outcome[q].success /\ Current(q).endpoint = e

LEMMA BackedCool ==
    ASSUME LedgerInv, NEW q \in Requests, Cool(q),
           NEW e \in Endpoints, NEW k \in Nat, Backed(e, k)
    PROVE  /\ cancelled' = cancelled
           /\ Tells(q, e) => states'[e].errors = states[e].errors + 1 /\ Backed(e, k + 1)'
           /\ ~Tells(q, e) => states'[e] = states[e]
           /\ Backed(e, k)'
<1>1. /\ LedgerTypeOK /\ AnswerTypeOK /\ TrackerTypeOK /\ LoopAsDue(q)
    BY LedgerParts
<1>2. /\ pc[q] = "record" /\ pc'[q] = "log"
      /\ \A o \in Requests : o # q => pc'[o] = pc[o]
      /\ UNCHANGED <<cancelled, pairs, loop, outcome, attempts>>
    BY <1>1 DEF Cool, Goto, AnswerTypeOK, selectionVars, callVars, logVars
<1>4. FailedAttempts(e)' = FailedAttempts(e)
    BY <1>2 DEF FailedAttempts
<1>5. /\ q \notin Logging(e)
      /\ Logging(e)' = IF ~outcome[q].success /\ Current(q).endpoint = e
                       THEN Logging(e) \cup {q} ELSE Logging(e)
    BY <1>2 DEF Logging, Current
<1>6. states[e].errors \in Nat
    BY <1>1 DEF TrackerTypeOK, EndpointState
<1>7. /\ Cardinality(FailedAttempts(e)) \in Nat /\ Cardinality(Logging(e)) \in Nat
      /\ IsFiniteSet(Logging(e) \cup {q})
      /\ Cardinality(Logging(e) \cup {q}) = Cardinality(Logging(e)) + 1
    BY <1>5, GaugeMoves DEF Backed
<1>8. CASE ~outcome[q].success /\ Current(q).endpoint = e
    <2>1. outcome[q].reply \in Reply
        BY <1>1 DEF AnswerTypeOK, Outcome
    <2>2. states'[e].errors = states[e].errors + 1
        BY <1>1, <1>8, <2>1, SetCooldownResult DEF Cool
    <2> QED
        BY <1>2, <1>4, <1>5, <1>6, <1>7, <1>8, <2>2 DEF Backed, Tells
<1>9. CASE ~(~outcome[q].success /\ Current(q).endpoint = e)
    <2>1. states'[e] = states[e]
        BY <1>1, <1>9 DEF Cool, SetCooldown, TrackerTypeOK
    <2> QED
        BY <1>2, <1>4, <1>5, <1>9, <2>1 DEF Backed, Tells
<1> QED
    BY <1>8, <1>9

(* The attempt is logged, and a success clears the endpoint's errors.      *)
LEMMA BackedLogs ==
    ASSUME LedgerInv, NEW q \in Requests, Logs(q), ~cancelled[q],
           NEW e \in Endpoints, NEW k \in Nat, Backed(e, k)
    PROVE  states'[e].errors <= states[e].errors /\ Backed(e, k)'
<1> DEFINE a == AttemptRow(q)
           n == Len(attempts[q])
<1>1. /\ LedgerTypeOK /\ AnswerTypeOK /\ TrackerTypeOK /\ LoopAsDue(q)
      /\ attempts \in [Requests -> Seq(Attempt)]
    BY LedgerParts DEF LedgerTypeOK
<1>2. /\ pc[q] = "log" /\ pc'[q] # "log"
      /\ \A o \in Requests : o # q => pc'[o] = pc[o] /\ loop'[o] = loop[o]
    BY <1>1, LogMoves, HandlerStepAnswers, LedgerParts
       DEF MovesOnly, Logs, HandlerStep, AnswerTypeOK
<1>3. RecordAttempt(q) /\ UNCHANGED <<cancelled, pairs, outcome>>
    BY DEF Logs, Finished, RetrySame, FallBack, Exhaust, RecordAttempt, selectionVars
<1>5. attempts' = [attempts EXCEPT ![q] = Append(attempts[q], a)]
    BY <1>3 DEF RecordAttempt
<1>6. a \in Attempt
    BY <1>1, <1>2, AttemptRowTyped
<1>7. a.endpoint = Current(q).endpoint /\ a.success = outcome[q].success
    BY DEF AttemptRow
<1>8. /\ n \in Nat /\ DOMAIN attempts[q] = 1..n
      /\ DOMAIN attempts'[q] = 1..(n + 1)
      /\ \A i \in 1..n : attempts'[q][i] = attempts[q][i]
      /\ attempts'[q][n + 1] = a
      /\ \A o \in Requests : o # q => attempts'[o] = attempts[o]
    BY <1>1, <1>5, <1>6
<1> HIDE DEF a, n
<1>9. /\ \A i \in 1..(n + 1) : i \in 1..n \/ i = n + 1
      /\ \A i \in 1..n : i \in 1..(n + 1) /\ i # n + 1
      /\ n + 1 \in 1..(n + 1)
    BY <1>8
<1>10. /\ <<q, n + 1>> \notin FailedAttempts(e)
       /\ FailedAttempts(e)' = IF ~a.success /\ a.endpoint = e
                               THEN FailedAttempts(e) \cup {<<q, n + 1>>}
                               ELSE FailedAttempts(e)
    <2>1. <<q, n + 1>> \notin FailedAttempts(e)
        BY <1>8, <1>9, FailedIs
    <2>2. ASSUME NEW x \in FailedAttempts(e) PROVE x \in FailedAttempts(e)'
        <3>1. PICK o \in Requests : \E i \in DOMAIN attempts[o] :
                /\ x = <<o, i>> /\ attempts[o][i].endpoint = e
                /\ ~attempts[o][i].success
            BY <2>2, FailedIs
        <3>2. PICK i \in DOMAIN attempts[o] :
                /\ x = <<o, i>> /\ attempts[o][i].endpoint = e
                /\ ~attempts[o][i].success
            BY <3>1
        <3>3. i \in DOMAIN attempts'[o] /\ attempts'[o][i] = attempts[o][i]
            BY <1>8, <1>9
        <3> QED
            BY <3>2, <3>3, FailedIs
    <2>3. ASSUME NEW x \in FailedAttempts(e)'
          PROVE  \/ x \in FailedAttempts(e)
                 \/ x = <<q, n + 1>> /\ ~a.success /\ a.endpoint = e
        <3>1. PICK o \in Requests : \E i \in DOMAIN attempts'[o] :
                /\ x = <<o, i>> /\ attempts'[o][i].endpoint = e
                /\ ~attempts'[o][i].success
            BY <2>3, FailedIs
        <3>2. PICK i \in DOMAIN attempts'[o] :
                /\ x = <<o, i>> /\ attempts'[o][i].endpoint = e
                /\ ~attempts'[o][i].success
            BY <3>1
        <3>3. CASE o = q /\ i = n + 1
            BY <1>8, <3>2, <3>3
        <3>4. CASE ~(o = q /\ i = n + 1)
            <4>1. i \in DOMAIN attempts[o] /\ attempts[o][i] = attempts'[o][i]
                BY <1>8, <1>9, <3>4
            <4> QED
                BY <3>2, <4>1, FailedIs
        <3> QED
            BY <3>3, <3>4
    <2>4. ~a.success /\ a.endpoint = e => <<q, n + 1>> \in FailedAttempts(e)'
        BY <1>8, <1>9, FailedIs
    <2> QED
        BY <2>1, <2>2, <2>3, <2>4
<1>11. /\ Logging(e)' = Logging(e) \ {q}
       /\ q \in Logging(e) <=> ~a.success /\ a.endpoint = e
    BY <1>2, <1>3, <1>7 DEF Logging, Current
<1>12. /\ Cardinality(FailedAttempts(e)) \in Nat /\ Cardinality(Logging(e)) \in Nat
       /\ IsFiniteSet(Logging(e)) /\ IsFiniteSet(FailedAttempts(e))
       /\ IsFiniteSet(Logging(e) \ {q}) /\ IsFiniteSet(FailedAttempts(e) \cup {<<q, n + 1>>})
       /\ Cardinality(FailedAttempts(e) \cup {<<q, n + 1>>})
            = Cardinality(FailedAttempts(e)) + 1
       /\ q \in Logging(e) => Cardinality(Logging(e) \ {q}) = Cardinality(Logging(e)) - 1
    BY <1>10, GaugeMoves DEF Backed
<1>13. states[e].errors \in Nat /\ states'[e].errors \in Nat
       /\ states'[e].errors <= states[e].errors
    <2>1. states \in [Endpoints -> EndpointState]
        BY <1>1 DEF TrackerTypeOK
    <2>2. states[e] \in EndpointState
        BY <2>1
    <2>3. states'[e] = states[e] \/ states'[e] = NeverFailed
        BY <1>3, <2>1 DEF RecordAttempt, ClearCooldown
    <2>4. states[e].errors \in Nat /\ NeverFailed.errors = 0
        BY <2>2 DEF EndpointState, NeverFailed
    <2> QED
        BY <2>3, <2>4
<1>14. CASE ~a.success /\ a.endpoint = e
    BY <1>10, <1>11, <1>12, <1>13, <1>14 DEF Backed
<1>15. CASE ~(~a.success /\ a.endpoint = e)
    <2>1. Logging(e) \ {q} = Logging(e)
        BY <1>11, <1>15
    <2>2. /\ Logging(e)' = Logging(e)
          /\ FailedAttempts(e)' = FailedAttempts(e)
        BY <1>10, <1>11, <1>15, <2>1
    <2> HIDE DEF Logging, FailedAttempts
    <2> QED
        BY <1>12, <1>13, <2>2 DEF Backed
<1> QED
    BY <1>14, <1>15

LEMMA SilentOrTelling ==
    LedgerInv /\ [Next]_vars => Silent \/ \E q \in Requests : Cool(q) \/ Logs(q)
<1> SUFFICES ASSUME LedgerInv, [Next]_vars,
                    ~\E q \in Requests : Cool(q) \/ Logs(q)
             PROVE  Silent
    OBVIOUS
<1>1. AnswerTypeOK /\ LedgerTypeOK /\ cancelled \in [Requests -> BOOLEAN]
    BY DEF LedgerInv, LedgerTypeOK
<1>2. ASSUME NEW q \in Requests, Arrive(q) \/ Cancel(q) \/ HandlerStep(q)
      PROVE  Silent
    <2>1. Elsewhere(q)
        BY <1>2, HandlerStepBooks DEF Booked
    <2>2. \/ /\ UNCHANGED <<states, attempts, cancelled>>
             /\ pc[q] # "log" /\ pc'[q] # "log"
          \/ Cancel(q)
        <3>1. CASE Selecting(q)
            <4>1. /\ UNCHANGED states /\ pc[q] \in {"resolve", "select", "schedule", "filter"}
                  /\ \E l \in {"select", "schedule", "filter", "selected"} :
                        pc' = [pc EXCEPT ![q] = l]
                BY <3>1, LedgerParts, SelectionShapes DEF Selecting
            <4> QED
                BY <1>1, <3>1, <4>1 DEF Selecting, logVars, AnswerTypeOK
        <3>2. CASE Calling(q)
            <4>1. UNCHANGED <<states, attempts, cancelled>>
                BY <1>2, <3>2 DEF Calling, BuildFails, Send, SendFails, TransportFails,
                                  ReplyIsRetryable, CommitReply, CopyBody, sharedVars, logVars
            <4>2. /\ pc[q] \in {"send", "wait", "copy"}
                  /\ \E l \in {"wait", "copy", "record"} : pc' = [pc EXCEPT ![q] = l]
                BY <1>2, <3>2 DEF Calling, BuildFails, Send, SendFails, TransportFails,
                                  ReplyIsRetryable, CommitReply, CopyBody, Goto
            <4> QED
                BY <1>1, <4>1, <4>2 DEF AnswerTypeOK
        <3>3. CASE \/ Arrive(q) \/ ReadBody(q) \/ FailBody(q) \/ Refuse(q) \/ Open(q)
                   \/ GiveUp(q) \/ Finalize(q)
            <4>1. UNCHANGED <<states, attempts, cancelled>>
                BY <3>3 DEF Arrive, ReadBody, FailBody, Refuse, Open, GiveUp, Finalize,
                            sharedVars, logVars
            <4>2. /\ pc[q] \in {"idle", "body", "selected", "exhausted", "finalize"}
                  /\ \E l \in {"body", "resolve", "send", "done"} : pc' = [pc EXCEPT ![q] = l]
                BY <3>3 DEF Arrive, ReadBody, FailBody, Refuse, Open, GiveUp, Finalize,
                            Return, Goto
            <4> QED
                BY <1>1, <4>1, <4>2 DEF AnswerTypeOK
        <3> QED
            BY <1>2, <3>1, <3>2, <3>3 DEF HandlerStep, Calling, Logs
    <2>3. CASE Cancel(q)
        BY <1>1, <2>3 DEF Cancel, routingVars, selectionVars, callVars, logVars, Silent
    <2>4. CASE ~Cancel(q)
        BY <2>1, <2>2, <2>4 DEF Elsewhere, SameBooks, Silent
    <2> QED
        BY <2>3, <2>4
<1>3. CASE Environment \/ UNCHANGED vars
    BY <1>3 DEF Environment, Reload, Tick, vars, routingVars, selectionVars, callVars,
                logVars, Silent
<1> QED
    BY <1>2, <1>3 DEF Next

(* While every client stays, the failed attempts on record, with those     *)
(* about to be logged, only grow in number.                                *)
LEMMA BackedNext ==
    ASSUME LedgerInv, [Next]_vars, \A q \in Requests : ~cancelled'[q],
           NEW e \in Endpoints, NEW k \in Nat, Backed(e, k)
    PROVE  Backed(e, k)' /\ \A q \in Requests : ~cancelled[q]
<1>1. CASE Silent
    BY <1>1, BackedIdle DEF Silent, LedgerInv, LedgerTypeOK
<1>2. ASSUME NEW q \in Requests, Cool(q) PROVE Backed(e, k)' /\ cancelled' = cancelled
    BY <1>2, BackedCool
<1>3. ASSUME NEW q \in Requests, Logs(q) PROVE Backed(e, k)' /\ cancelled' = cancelled
    <2>1. cancelled' = cancelled
        BY <1>3 DEF Logs, Finished, RetrySame, FallBack, Exhaust, RecordAttempt
    <2> QED
        BY <1>3, <2>1, BackedLogs
<1> QED
    BY <1>1, <1>2, <1>3, SilentOrTelling

LEMMA ExplainedNext == LedgerInv /\ ExplainedInv /\ [Next]_vars => ExplainedInv'
<1> SUFFICES ASSUME LedgerInv, ExplainedInv, [Next]_vars,
                    \A q \in Requests : ~cancelled'[q], NEW e \in Endpoints
             PROVE  Explained(e)'
    BY DEF ExplainedInv
<1>1. states[e].errors \in Nat /\ states'[e].errors \in Nat
    <2>1. states \in [Endpoints -> EndpointState] /\ states' \in [Endpoints -> EndpointState]
        BY LedgerInvNext DEF LedgerInv, LedgerTypeOK, TrackerTypeOK
    <2>2. states[e] \in EndpointState /\ states'[e] \in EndpointState
        BY <2>1
    <2> QED
        BY <2>2 DEF EndpointState
<1>2. CASE Silent
    <2>1. Explained(e)
        BY <1>2 DEF Silent, ExplainedInv
    <2> QED
        BY <1>1, <1>2, <2>1, BackedIdle DEF Silent, Explained
<1>3. ASSUME NEW q \in Requests, Cool(q) PROVE Explained(e)'
    <2>1. cancelled' = cancelled
        BY <1>3 DEF Cool
    <2>2. Backed(e, states[e].errors)
        BY <2>1 DEF ExplainedInv, Explained
    <2> QED
        BY <1>1, <1>3, <2>2, BackedCool DEF Explained
<1>4. ASSUME NEW q \in Requests, Logs(q) PROVE Explained(e)'
    <2>1. cancelled' = cancelled
        BY <1>4 DEF Logs, Finished, RetrySame, FallBack, Exhaust, RecordAttempt
    <2>2. PICK k \in Nat, n \in Nat : k = states[e].errors /\ n = states'[e].errors
        BY <1>1
    <2>3. Backed(e, k)
        BY <2>1, <2>2 DEF ExplainedInv, Explained
    <2>4. n <= k /\ Backed(e, k)'
        BY <1>4, <2>1, <2>2, <2>3, BackedLogs
    <2>5. Backed(e, n)'
        BY <2>4, FewerBacked
    <2> QED
        BY <2>2, <2>5 DEF Explained, Backed
<1> QED
    BY <1>2, <1>3, <1>4, SilentOrTelling

(* While every client stays, each error the tracker counts against an      *)
(* endpoint is a failed attempt of the table, or one about to be logged,   *)
(* however many requests fail at that endpoint at the same time.           *)
THEOREM CooldownsAreExplained == Spec => []CooldownsExplained
<1>1. ExplainedInv => CooldownsExplained
    BY DEF ExplainedInv, Explained, Backed, CooldownsExplained
<1>2. Init => LedgerInv /\ ExplainedInv
    BY LedgerInvInit, ExplainedInit
<1>3. LedgerInv /\ ExplainedInv /\ [Next]_vars => LedgerInv' /\ ExplainedInv'
    BY LedgerInvNext, ExplainedNext
<1> QED
    BY <1>1, <1>2, <1>3, PTL DEF Spec

-----------------------------------------------------------------------------
(* The tracker and the selection inside the gateway.  The handlers are the *)
(* callers the tracker was proved correct for, with any reply an upstream  *)
(* may give and no bound on the errors, and cooldowns now change with what *)
(* the other requests meet.                                                *)
LEMMA TrackerMoves ==
    LedgerInv /\ [Next]_vars =>
        \/ UNCHANGED states
        \/ /\ UNCHANGED now
           /\ \E e \in Endpoints :
                \/ \E p \in Providers, r \in Reply : SetCooldown(e, p, r)
                \/ ClearCooldown(e)
<1> SUFFICES ASSUME LedgerInv, [Next]_vars, ~UNCHANGED states
             PROVE  /\ UNCHANGED now
                    /\ \E e \in Endpoints :
                         \/ \E p \in Providers, r \in Reply : SetCooldown(e, p, r)
                         \/ ClearCooldown(e)
    OBVIOUS
<1>1. PICK q \in Requests : Cool(q) \/ Logs(q)
    BY SilentOrTelling DEF Silent
<1>2. LedgerTypeOK /\ LoopAsDue(q) /\ AnswerTypeOK
    BY LedgerParts
<1>3. CASE Cool(q)
    <2>1. Current(q) \in Pair
        BY <1>2, <1>3, CurrentIsPair DEF Cool, Trying
    <2>2. outcome[q].reply \in Reply
        BY <1>2 DEF AnswerTypeOK, Outcome
    <2> QED
        BY <1>3, <2>1, <2>2 DEF Cool, Pair
<1>4. CASE Logs(q)
    <2>1. RecordAttempt(q)
        BY <1>4 DEF Logs, Finished, RetrySame, FallBack, Exhaust
    <2>2. Current(q).endpoint \in Endpoints
        BY <1>2, <2>1, CurrentIsPair DEF RecordAttempt, Trying
    <2> QED
        BY <2>1, <2>2 DEF RecordAttempt
<1> QED
    BY <1>1, <1>3, <1>4

TrackedInv == LedgerInv /\ DeadlineMatchesErrors

LEMMA TrackedInit == Init => TrackedInv
    BY LedgerInvInit, TrackerInvInit DEF Init, RoutingInit, TrackerInv, TrackedInv

LEMMA FailureRecorded ==
    ASSUME TrackerTypeOK, NEW f \in Endpoints, NEW p, NEW r \in Reply,
           SetCooldown(f, p, r), NEW e \in Endpoints
    PROVE  IF e = f THEN states'[e].until > now /\ states'[e].errors = states[e].errors + 1
           ELSE states'[e] = states[e]
    BY SetCooldownResult

LEMMA SuccessRecorded ==
    ASSUME TrackerTypeOK, NEW f \in Endpoints, ClearCooldown(f), NEW e \in Endpoints
    PROVE  states'[e] = IF e = f THEN NeverFailed ELSE states[e]
    BY DEF TrackerTypeOK, ClearCooldown

LEMMA RecordsAreNumbers ==
    ASSUME TrackerTypeOK, NEW e \in Endpoints
    PROVE  now \in Nat /\ states[e].until \in Nat /\ states[e].errors \in Nat
    BY ClockAssumption DEF TrackerTypeOK, EndpointState

LEMMA TrackedNext == TrackedInv /\ [Next]_vars => TrackedInv'
<1> SUFFICES ASSUME TrackedInv, [Next]_vars PROVE TrackedInv'
    OBVIOUS
<1>1. LedgerInv /\ TrackerTypeOK /\ LedgerInv'
    BY LedgerInvNext DEF TrackedInv, LedgerInv, LedgerTypeOK
<1>2. ASSUME NEW e \in Endpoints PROVE states'[e].until = 0 <=> states'[e].errors = 0
    <2>1. states[e].until = 0 <=> states[e].errors = 0
        BY DEF TrackedInv, DeadlineMatchesErrors
    <2>2. now \in Nat /\ states[e].until \in Nat /\ states[e].errors \in Nat
        BY <1>1, RecordsAreNumbers
    <2>3. ASSUME NEW f \in Endpoints, NEW p, NEW r \in Reply, SetCooldown(f, p, r)
          PROVE  states'[e].until = 0 <=> states'[e].errors = 0
        BY <1>1, <2>1, <2>2, <2>3, FailureRecorded
    <2>4. ASSUME NEW f \in Endpoints, ClearCooldown(f)
          PROVE  states'[e].until = 0 <=> states'[e].errors = 0
        BY <1>1, <2>1, <2>4, SuccessRecorded DEF NeverFailed
    <2> QED
        BY <1>1, <2>1, <2>3, <2>4, TrackerMoves
<1> QED
    BY <1>1, <1>2 DEF TrackedInv, DeadlineMatchesErrors

(* Among concurrent handlers too a record has a deadline exactly when it   *)
(* has errors, whatever the interleaving of failures and successes.        *)
THEOREM GatewayDeadlines == Spec => []DeadlineMatchesErrors
<1>1. TrackedInv => DeadlineMatchesErrors
    BY DEF TrackedInv
<1> QED
    BY <1>1, TrackedInit, TrackedNext, PTL DEF Spec

(* "Any upstream failure should trigger cooldown": each failure a handler  *)
(* counts takes its endpoint out of rotation for some time, whatever the   *)
(* upstream answered, failures that come from inside the gateway included. *)
THEOREM GatewayFailuresCool == Spec => FailureCools
<1> DEFINE Cools == \A e \in Endpoints :
                       states'[e].errors > states[e].errors => CooldownRemaining(e)' > 0
<1>1. ASSUME LedgerInv, [Next]_vars PROVE Cools
    <2>1. TrackerTypeOK /\ TrackerTypeOK'
        BY <1>1, LedgerInvNext DEF LedgerInv, LedgerTypeOK
    <2>2. SUFFICES ASSUME NEW e \in Endpoints, states'[e].errors > states[e].errors
                   PROVE  CooldownRemaining(e)' > 0
        OBVIOUS
    <2>3. /\ now \in Nat /\ states[e].errors \in Nat
          /\ now' \in Nat /\ states'[e].until \in Nat /\ states'[e].errors \in Nat
        BY <2>1, RecordsAreNumbers, ClockAssumption DEF TrackerTypeOK, EndpointState
    <2>4. ASSUME NEW f \in Endpoints, NEW p, NEW r \in Reply, SetCooldown(f, p, r),
                 now' = now
          PROVE  CooldownRemaining(e)' > 0
        <3>1. states'[e].until > now
            BY <2>1, <2>2, <2>3, <2>4, FailureRecorded
        <3> QED
            BY <2>3, <2>4, <3>1 DEF CooldownRemaining
    <2>5. ASSUME NEW f \in Endpoints, ClearCooldown(f) PROVE FALSE
        BY <2>1, <2>2, <2>3, <2>5, SuccessRecorded DEF NeverFailed
    <2>6. ~UNCHANGED states
        BY <2>2, <2>3
    <2> QED
        BY <1>1, <2>4, <2>5, <2>6, TrackerMoves
<1>2. LedgerInv /\ [Next]_vars => [Cools]_trackerVars
    BY <1>1
<1> QED
    BY <1>2, LedgerInvInit, LedgerInvNext, PTL DEF Spec, FailureCools

(* With failures and successes of concurrent requests moving the cooldowns *)
(* between its looks at them, a handler still tries smaller ranks first.   *)
THEOREM GatewayRankOrder == Spec => []RankOrder
<1>1. LedgerInv => RankOrder
    BY SelectionInOrder DEF LedgerInv, LedgerTypeOK
<1> QED
    BY <1>1, LedgerInvInit, LedgerInvNext, PTL DEF Spec

(* However often cooldowns and configuration change under it, a handler's  *)
(* list holds no pair twice.                                               *)
THEOREM GatewayPairsOnce == Spec => []EachPairOnce
<1>1. LedgerInv => EachPairOnce
    BY SelectionOnce DEF LedgerInv, LedgerTypeOK
<1> QED
    BY <1>1, LedgerInvInit, LedgerInvNext, PTL DEF Spec

(* Inside the gateway too, a handler passes over a pair only in the step   *)
(* that finds its endpoint cooling, and no later step of it or of another  *)
(* request takes a pair off its list.                                      *)
THEOREM GatewayNothingLost == Spec => OnlyCoolingDropped
<1>1. ASSUME LedgerInv, [Next]_vars PROVE [NoneLost]_routingVars
    <2>1. ASSUME NEW q \in Requests, Selecting(q) PROVE NoneLost
        BY <1>1, <2>1, SelectionDrops DEF Selecting, LedgerInv, LedgerTypeOK
    <2>2. ASSUME NEW q \in Requests, Arrive(q) \/ Cancel(q) \/ HandlerStep(q), ~Selecting(q)
          PROVE  UNCHANGED <<todo, group, pairs>>
        <3>1. CASE Arrive(q) \/ Cancel(q) \/ ReadBody(q) \/ FailBody(q) \/ Refuse(q) \/ Open(q)
            BY <3>1 DEF Arrive, Cancel, ReadBody, FailBody, Refuse, Open, selectionVars,
                        routingVars
        <3>2. CASE \/ BuildFails(q) \/ Send(q) \/ SendFails(q) \/ TransportFails(q)
                   \/ ReplyIsRetryable(q) \/ CommitReply(q) \/ CopyBody(q)
            BY <3>2 DEF BuildFails, Send, SendFails, TransportFails, ReplyIsRetryable,
                        CommitReply, CopyBody, selectionVars
        <3>3. CASE Cool(q) \/ Logs(q) \/ GiveUp(q) \/ Finalize(q)
            BY <3>3 DEF Cool, Logs, Finished, RetrySame, FallBack, Exhaust, RecordAttempt,
                        GiveUp, Finalize, selectionVars
        <3> QED
            BY <2>2, <3>1, <3>2, <3>3 DEF HandlerStep, Logs
    <2>3. CASE Environment \/ UNCHANGED vars
        BY <2>3, KeptAlike DEF Environment, Reload, selectionVars, vars, routingVars
    <2> QED
        BY <1>1, <2>1, <2>2, <2>3, KeptAlike DEF Next
<1> QED
    BY <1>1, LedgerInvInit, LedgerInvNext, PTL DEF Spec, OnlyCoolingDropped, NoneLost
=============================================================================
