---------------------------- MODULE ViewsProofs ----------------------------
(* What the dashboard shows although its statements see different moments, *)
(* for every set of requests, configurations, replies and clocks.          *)
EXTENDS Views, LedgerProofs

-----------------------------------------------------------------------------
(* The windows, whatever the time *)

LEMMA MonthStartIs ==
    ASSUME NEW t \in Clock
    PROVE  LET m == Max({n \in MonthStarts : n <= t})
           IN  m \in Nat /\ m <= t /\ m % Day = 0
<1> DEFINE starts == {n \in MonthStarts : n <= t}
           gaps == {t - n : n \in starts}
<1>1. t \in Nat /\ starts \subseteq Nat /\ starts # {}
    BY ClockAssumption, MonthStartsAssumption
<1>2. gaps \subseteq Nat /\ gaps # {}
    BY <1>1
<1>3. PICK g \in gaps : \A h \in gaps : g <= h
    BY <1>2, LeastNatural
<1>4. PICK m \in starts : g = t - m
    BY <1>3
<1>5. \A n \in starts : m >= n
    <2>1. ASSUME NEW n \in starts PROVE m >= n
        <3>1. g <= t - n
            BY <1>3
        <3> QED
            BY <1>1, <1>4, <3>1
    <2> QED
        BY <2>1
<1>6. Max(starts) \in starts
    BY <1>5 DEF Max
<1> QED
    BY <1>6, MonthStartsAssumption

LEMMA MidnightsOrder ==
    ASSUME NEW t \in Nat, NEW m \in Nat, m <= t, m % Day = 0
    PROVE  m <= t - (t % Day)
<1>1. PICK d \in Nat \ {0} : d = Day
    BY DayPositive
<1>2. PICK a \in Nat : m = a * d
    <2>1. m \div d \in Nat /\ m = (m \div d) * d + (m % d)
        BY SMT
    <2>2. (m \div d) * d \in Int /\ m % d = 0
        BY <1>1, <2>1
    <2>3. m = (m \div d) * d
        BY <2>1, <2>2
    <2> QED
        BY <2>1, <2>3
<1>3. PICK b \in Nat : t = b * d + (t % d)
    <2>1. t \div d \in Nat /\ t = (t \div d) * d + (t % d)
        BY SMT
    <2> QED
        BY <2>1
<1> DEFINE r == t % d
           x == a * d
           y == b * d
<1>4. r \in Nat /\ r < d /\ x \in Int /\ y \in Int /\ m = x /\ t = y + r
    BY <1>2, <1>3
<1>5. a <= b
    <2> SUFFICES ASSUME b + 1 <= a PROVE FALSE
        OBVIOUS
    <2>1. (b + 1) * d <= x
        BY Scaling
    <2>2. (b + 1) * d = y + d
        BY SMT
    <2> HIDE DEF r, x, y
    <2> QED
        BY <1>4, <2>1, <2>2
<1>6. x <= y
    BY <1>5, Scaling
<1>7. m <= t - r
    <2> HIDE DEF r, x, y
    <2> QED
        BY <1>4, <1>6
<1> QED
    BY <1>1, <1>7

LEMMA SinceWidens ==
    ASSUME NEW t \in Clock, NEW c \in Containing, NEW s \in Nat, s >= Since(c[1], t)
    PROVE  s >= Since(c[2], t)
<1>1. t \in Nat /\ TicksPerHour \in Nat
    BY ClockAssumption, DurationAssumption
<1>2. CASE c = <<"1h", "5h">>
    BY <1>1, <1>2 DEF Since
<1>3. CASE c = <<"5h", "all">> \/ c = <<"month", "all">>
    <2>1. Since(c[2], t) = 0
        BY <1>3 DEF Since
    <2> QED
        BY <2>1
<1>4. CASE c = <<"today", "month">>
    <2> DEFINE m == Max({n \in MonthStarts : n <= t})
    <2>1. m \in Nat /\ m <= t /\ m % Day = 0
        BY MonthStartIs
    <2>2. Since(c[1], t) = t - (t % Day) /\ Since(c[2], t) = m
        BY <1>4 DEF Since
    <2> HIDE DEF m
    <2>3. m <= t - (t % Day)
        BY <1>1, <2>1, MidnightsOrder
    <2>4. t - (t % Day) \in Int
        BY <1>1, TimeOfDayRange DEF TimeOfDay
    <2> QED
        BY <2>1, <2>2, <2>3, <2>4
<1> QED
    BY <1>2, <1>3, <1>4 DEF Containing

-----------------------------------------------------------------------------
(* What a step of the proxy does to what the dashboard reads               *)

LEMMA LabelsMove ==
    ASSUME LedgerInv, [Next]_vars, NEW q \in Requests
    PROVE  /\ pc[q] = "done" => pc'[q] = "done"
           /\ pc'[q] \in Trying => pc[q] \in Trying \/ pc'[q] = "send"
           /\ rows[q].state # "absent" => pc[q] # "idle"
           /\ rows[q].state = "closed" => pc[q] = "done"
<1>1. AnswerTypeOK
    BY LedgerParts
<1>2. ASSUME NEW o \in Requests, Arrive(o) \/ Cancel(o) \/ HandlerStep(o)
      PROVE  /\ pc[o] # "done"
             /\ \/ pc' = pc
                \/ \E l \in Labels : /\ pc' = [pc EXCEPT ![o] = l]
                                     /\ l \in Trying => pc[o] \in Trying \/ l = "send"
    <2>1. CASE Selecting(o)
        <3>1. /\ pc[o] \in {"resolve", "select", "schedule", "filter"}
              /\ \E l \in {"select", "schedule", "filter", "selected"} :
                    pc' = [pc EXCEPT ![o] = l]
            BY <2>1, LedgerParts, SelectionShapes DEF Selecting
        <3> QED
            BY <3>1 DEF Trying, Labels
    <2>2. CASE Calling(o) /\ ~Cool(o)
        <3>1. /\ pc[o] \in {"send", "wait", "copy"}
              /\ \E l \in {"wait", "copy", "record"} : pc' = [pc EXCEPT ![o] = l]
            BY <2>2 DEF Calling, BuildFails, Send, SendFails, TransportFails,
                        ReplyIsRetryable, CommitReply, CopyBody, Goto
        <3> QED
            BY <3>1 DEF Trying, Labels
    <2>3. CASE Logs(o) \/ Cool(o)
        BY <2>3 DEF Logs, Finished, RetrySame, FallBack, Exhaust, RecordAttempt, Cool, Goto,
                    Trying, Labels
    <2>4. CASE \/ Arrive(o) \/ ReadBody(o) \/ FailBody(o) \/ Refuse(o) \/ Open(o)
               \/ GiveUp(o) \/ Finalize(o)
        BY <2>4 DEF Arrive, ReadBody, FailBody, Refuse, Open, GiveUp, Finalize,
                    Return, Goto, Trying, Labels
    <2>5. CASE Cancel(o)
        BY <2>5 DEF Cancel, routingVars
    <2> QED
        BY <1>2, <2>1, <2>2, <2>3, <2>4, <2>5 DEF HandlerStep, Calling, Logs
<1>3. ASSUME Environment \/ UNCHANGED vars PROVE pc' = pc
    BY <1>3 DEF Environment, Reload, vars, routingVars
<1>4. /\ pc[q] = "done" => pc'[q] = "done"
      /\ pc'[q] \in Trying => pc[q] \in Trying \/ pc'[q] = "send"
    BY <1>1, <1>2, <1>3 DEF Next, AnswerTypeOK
<1>5. /\ rows[q].state # "absent" => pc[q] # "idle"
      /\ rows[q].state = "closed" => pc[q] = "done"
    BY DEF LedgerInv, ProxyInv, LogInv, RowAsDue, BeforeOpen, Unclosed
<1> QED
    BY <1>4, <1>5

(* A request that is done is left as it is.                                *)
LEMMA DoneIsDone ==
    ASSUME LedgerInv, [Next]_vars, NEW q \in Requests, pc[q] = "done"
    PROVE  SameBooks(q)
<1>1. ASSUME NEW o \in Requests, Arrive(o) \/ Cancel(o) \/ HandlerStep(o)
      PROVE  SameBooks(q)
    <2>1. pc[o] # "done"
        <3>1. CASE Selecting(o)
            BY <3>1, LedgerParts, SelectionShapes DEF Selecting
        <3>2. CASE ~Selecting(o)
            BY <1>1, <3>2 DEF HandlerStep, Arrive, Cancel, ReadBody, FailBody, Refuse, Open,
                   BuildFails, Send, SendFails, TransportFails, ReplyIsRetryable, CommitReply,
                   CopyBody, Cool, Finished, RetrySame, FallBack, Exhaust, RecordAttempt,
                   GiveUp, Finalize
        <3> QED
            BY <3>1, <3>2
    <2>2. Elsewhere(o)
        BY <1>1, HandlerStepBooks DEF Booked
    <2> QED
        BY <2>1, <2>2 DEF Elsewhere
<1>2. CASE Environment \/ UNCHANGED vars
    BY <1>2 DEF Environment, Reload, Tick, vars, routingVars, selectionVars, callVars,
                logVars, SameBooks
<1> QED
    BY <1>1, <1>2 DEF Next

LEMMA AttemptsMove ==
    ASSUME LedgerInv, [Next]_vars
    PROVE  \/ attempts' = attempts
           \/ \E q \in Requests :
                 /\ Logs(q) /\ ~cancelled[q] /\ pc[q] = "log"
                 /\ AttemptRow(q) \in Attempt
                 /\ attempts' = [attempts EXCEPT ![q] = Append(attempts[q], AttemptRow(q))]
<1>1. CASE Silent
    BY <1>1 DEF Silent
<1>2. ASSUME NEW q \in Requests, Cool(q) PROVE attempts' = attempts
    BY <1>2 DEF Cool, logVars
<1>3. ASSUME NEW q \in Requests, Logs(q)
      PROVE  /\ pc[q] = "log" /\ AttemptRow(q) \in Attempt
             /\ \/ attempts' = attempts
                \/ /\ ~cancelled[q]
                   /\ attempts' = [attempts EXCEPT ![q] = Append(attempts[q], AttemptRow(q))]
    <2>1. RecordAttempt(q)
        BY <1>3 DEF Logs, Finished, RetrySame, FallBack, Exhaust
    <2>2. pc[q] = "log"
        BY <2>1 DEF RecordAttempt
    <2>3. AttemptRow(q) \in Attempt
        BY <2>2, LedgerParts, AttemptRowTyped
    <2> QED
        BY <2>1, <2>2, <2>3 DEF RecordAttempt
<1> QED
    BY <1>1, <1>2, <1>3, SilentOrTelling

LEMMA StaysCancelled ==
    ASSUME LedgerInv, [Next]_vars, NEW q \in Requests, cancelled[q]
    PROVE  cancelled'[q]
<1>1. CASE Silent
    BY <1>1 DEF Silent
<1>2. ASSUME NEW o \in Requests, Cool(o) \/ Logs(o) PROVE cancelled' = cancelled
    BY <1>2 DEF Cool, Logs, Finished, RetrySame, FallBack, Exhaust, RecordAttempt
<1> QED
    BY <1>1, <1>2, SilentOrTelling

(* Together with the columns of time.                                      *)
LEMMA ServingSteps == Serving => [Next]_vars
    BY DEF Serving

-----------------------------------------------------------------------------
(* The columns of time: an attempt is stamped with the start of the call   *)
(* it records, a request's start is set once.                              *)

LoggedAttempts == UNION {{<<q, i>> : i \in DOMAIN attempts[q]} : q \in Requests}

ColumnsDue ==
    /\ started \in [Requests -> {0} \cup Clock]
    /\ begun \in [Requests -> {0} \cup Clock]
    /\ \A q \in Requests :
          /\ stamps[q] \in Seq(Clock) /\ Len(stamps[q]) = Len(attempts[q])
          /\ pc[q] \in Trying => begun[q] \in Clock
    /\ IsFiniteSet(LoggedAttempts)

LEMMA ColumnsInit == ViewsInit => ColumnsDue
<1> SUFFICES ASSUME ViewsInit PROVE ColumnsDue
    OBVIOUS
<1>1. \A q \in Requests : pc[q] = "idle" /\ attempts[q] = <<>> /\ stamps[q] = <<>>
    BY DEF ViewsInit, Init, RoutingInit
<1>2. \A q \in Requests : DOMAIN attempts[q] = {}
    BY <1>1
<1>3. LoggedAttempts = {}
    BY <1>2 DEF LoggedAttempts
<1> QED
    BY <1>1, <1>3, FS_EmptySet DEF ColumnsDue, ViewsInit, Trying

LEMMA LoggedGrows ==
    ASSUME LedgerInv, IsFiniteSet(LoggedAttempts), [Next]_vars
    PROVE  IsFiniteSet(LoggedAttempts')
<1>1. CASE attempts' = attempts
    BY <1>1 DEF LoggedAttempts
<1>2. ASSUME NEW q \in Requests, AttemptRow(q) \in Attempt,
             attempts' = [attempts EXCEPT ![q] = Append(attempts[q], AttemptRow(q))]
      PROVE  IsFiniteSet(LoggedAttempts')
    <2> DEFINE n == Len(attempts[q])
    <2>1. attempts \in [Requests -> Seq(Attempt)]
        BY DEF LedgerInv, LedgerTypeOK
    <2>2. /\ n \in Nat /\ DOMAIN attempts'[q] = 1..(n + 1) /\ DOMAIN attempts[q] = 1..n
          /\ \A o \in Requests : o # q => attempts'[o] = attempts[o]
        BY <1>2, <2>1
    <2>3. \A o \in Requests : \A i \in DOMAIN attempts'[o] :
                i \in DOMAIN attempts[o] \/ (o = q /\ i = n + 1)
        BY <2>2
    <2>4. LoggedAttempts' \in SUBSET (LoggedAttempts \cup {<<q, n + 1>>})
        <3>1. ASSUME NEW x \in LoggedAttempts' PROVE x \in LoggedAttempts \cup {<<q, n + 1>>}
            <4>1. PICK o \in Requests : \E i \in DOMAIN attempts'[o] : x = <<o, i>>
                BY <3>1 DEF LoggedAttempts
            <4>2. PICK i \in DOMAIN attempts'[o] : x = <<o, i>>
                BY <4>1
            <4>3. CASE i \in DOMAIN attempts[o]
                BY <4>2, <4>3 DEF LoggedAttempts
            <4>4. CASE o = q /\ i = n + 1
                BY <4>2, <4>4
            <4> QED
                BY <2>3, <4>3, <4>4
        <3> QED
            BY <3>1
    <2>5. IsFiniteSet(LoggedAttempts \cup {<<q, n + 1>>})
        BY FS_AddElement
    <2> QED
        BY <2>4, <2>5, FS_Subset
<1> QED
    BY <1>1, <1>2, AttemptsMove

LEMMA ColumnsServing == LedgerInv /\ ColumnsDue /\ Serving => ColumnsDue'
<1> SUFFICES ASSUME LedgerInv, ColumnsDue, Serving PROVE ColumnsDue'
    OBVIOUS
<1>1. [Next]_vars
    BY ServingSteps
<1>2. now \in Clock
    BY DEF LedgerInv, LedgerTypeOK, TrackerTypeOK
<1>3. /\ started' \in [Requests -> {0} \cup Clock]
      /\ begun' \in [Requests -> {0} \cup Clock]
    BY <1>2 DEF Serving, ColumnsDue
<1>4. ASSUME NEW q \in Requests, pc'[q] \in Trying PROVE begun'[q] \in Clock
    <2>1. pc[q] \in Trying \/ pc'[q] = "send"
        BY <1>1, <1>4, LabelsMove
    <2>2. begun'[q] = IF pc[q] # "send" /\ pc'[q] = "send" THEN now ELSE begun[q]
        BY DEF Serving
    <2>3. pc[q] = "send" => pc[q] \in Trying
        BY DEF Trying
    <2> QED
        BY <1>2, <2>1, <2>2, <2>3 DEF ColumnsDue
<1>5. ASSUME NEW q \in Requests
      PROVE  stamps'[q] \in Seq(Clock) /\ Len(stamps'[q]) = Len(attempts'[q])
    <2>1. stamps'[q] = IF attempts'[q] # attempts[q] THEN Append(stamps[q], begun[q])
                                                     ELSE stamps[q]
        BY DEF Serving
    <2>2. attempts \in [Requests -> Seq(Attempt)]
        BY DEF LedgerInv, LedgerTypeOK
    <2>3. CASE attempts'[q] = attempts[q]
        BY <2>1, <2>3 DEF ColumnsDue
    <2>4. CASE attempts'[q] # attempts[q]
        <3>1. /\ pc[q] = "log" /\ AttemptRow(q) \in Attempt
              /\ attempts'[q] = Append(attempts[q], AttemptRow(q))
            BY <1>1, <2>2, <2>4, AttemptsMove
        <3>2. begun[q] \in Clock
            BY <3>1 DEF ColumnsDue, Trying
        <3>3. stamps[q] \in Seq(Clock) /\ attempts[q] \in Seq(Attempt)
            BY <2>2 DEF ColumnsDue
        <3> QED
            BY <2>1, <2>4, <3>1, <3>2, <3>3 DEF ColumnsDue
    <2> QED
        BY <2>3, <2>4
<1>6. IsFiniteSet(LoggedAttempts')
    BY <1>1, LoggedGrows DEF ColumnsDue
<1> QED
    BY <1>3, <1>4, <1>5, <1>6 DEF ColumnsDue

(* The statistics of an endpoint are a number, and count every failure     *)
(* while no attempt is older than an hour.                                 *)
LEMMA StatsCount ==
    ASSUME LedgerInv, ColumnsDue, NEW e \in Endpoints
    PROVE  /\ RecentErrors(e) \in Nat
           /\ Recent => RecentErrors(e) = Cardinality(FailedAttempts(e))
<1> DEFINE all == Attempts1h(e)
           good == {a \in all : attempts[a[1]][a[2]].success}
<1>1. all \in SUBSET LoggedAttempts
    BY DEF Attempts1h, LoggedAttempts
<1>2. IsFiniteSet(all)
    BY <1>1, FS_Subset DEF ColumnsDue
<1>3. all \cap good = good
    OBVIOUS
<1>4. IsFiniteSet(all \ good) /\ Cardinality(all \ good) = Cardinality(all) - Cardinality(good)
    <2> HIDE DEF all, good
    <2> QED
        BY <1>2, <1>3, FS_Difference
<1>5. RecentErrors(e) = Cardinality(all \ good)
    BY <1>4 DEF RecentErrors
<1>6. RecentErrors(e) \in Nat
    BY <1>4, <1>5, FS_CardinalityType
<1>7. ASSUME Recent PROVE all \ good = FailedAttempts(e)
    <2>1. \A x : x \in all <=> \E q \in Requests : \E i \in DOMAIN attempts[q] :
                /\ x = <<q, i>> /\ attempts[q][i].endpoint = e
                /\ stamps[q][i] >= now - TicksPerHour
        BY DEF Attempts1h
    <2>2. \A q \in Requests : DOMAIN stamps[q] = DOMAIN attempts[q]
        <3>1. attempts \in [Requests -> Seq(Attempt)]
            BY DEF LedgerInv, LedgerTypeOK
        <3> QED
            BY <3>1 DEF ColumnsDue
    <2>3. \A x : x \in all <=> \E q \in Requests : \E i \in DOMAIN attempts[q] :
                x = <<q, i>> /\ attempts[q][i].endpoint = e
        BY <1>7, <2>1, <2>2 DEF Recent
    <2>4. \A x : x \in all \ good <=> x \in all /\ ~attempts[x[1]][x[2]].success
        OBVIOUS
    <2> HIDE DEF all, good
    <2>5. \A x : x \in all \ good <=> x \in FailedAttempts(e)
        BY <2>3, <2>4, FailedIs
    <2> QED
        BY <2>5
<1> QED
    BY <1>5, <1>6, <1>7

-----------------------------------------------------------------------------
(* What an admin request has read so far *)

Seen == [of : SUBSET Requests, row : Row, attempts : Seq(Attempt),
         errors : [Endpoints -> Nat], left : SUBSET Endpoints,
         failed : [Endpoints -> Nat],
         asOf : {0} \cup Clock, sums : 0..5, counted : [Windows -> SUBSET Requests]]

SeenTypeOK ==
    /\ view \in {"idle", "attempts", "config", "stats", "sums", "shown"}
    /\ seen \in Seen
    /\ view = "idle" => seen = NothingSeen

(* A row read as closed is final, and so are its attempts.                 *)
ShowsRequest ==
    seen.row.state # "absent" =>
        /\ view # "sums"
        /\ \E q \in Requests :
            /\ seen.of = {q}
            /\ seen.row.state = "closed" =>
                  /\ rows[q] = seen.row
                  /\ view = "shown" => seen.attempts = attempts[q]

Place == [w \in Windows |-> CHOOSE i \in 1..5 : SumOrder[i] = w]

(* Whoever has been counted stays countable, so a wider window, summed     *)
(* later, counts it too.                                                   *)
ShowsSums ==
    /\ view = "sums" => seen.asOf \in Clock /\ seen.sums \in 0..4
    /\ view # "sums" => seen.sums \in {0, 5}
    /\ \A w \in Windows : \A q \in seen.counted[w] :
          rows[q].state = "closed" /\ started[q] >= Since(w, seen.asOf)
    /\ \A w \in Windows : Place[w] > seen.sums => seen.counted[w] = {}
    /\ \A c \in Containing :
          Place[c[2]] <= seen.sums => seen.counted[c[1]] \subseteq seen.counted[c[2]]

(* The failures behind the errors that were read are still on record.      *)
ShowsErrors ==
    /\ view \in {"config", "stats"} /\ (\A q \in Requests : ~cancelled[q])
          => \A e \in Endpoints : Backed(e, seen.errors[e])
    /\ view # "stats" => seen.left = {}

ViewsInv ==
    /\ LedgerInv /\ ExplainedInv /\ ColumnsDue
    /\ SeenTypeOK /\ ShowsRequest /\ ShowsSums /\ ShowsErrors

LEMMA PlaceIs ==
    /\ Place["1h"] = 1 /\ Place["5h"] = 2 /\ Place["today"] = 3
    /\ Place["month"] = 4 /\ Place["all"] = 5
    /\ SumOrder[1] = "1h" /\ SumOrder[2] = "5h" /\ SumOrder[3] = "today"
    /\ SumOrder[4] = "month" /\ SumOrder[5] = "all" /\ Len(SumOrder) = 5
<1>1. /\ SumOrder[1] = "1h" /\ SumOrder[2] = "5h" /\ SumOrder[3] = "today"
      /\ SumOrder[4] = "month" /\ SumOrder[5] = "all" /\ Len(SumOrder) = 5
    BY DEF SumOrder
<1>2. \A i \in 1..5 : i = 1 \/ i = 2 \/ i = 3 \/ i = 4 \/ i = 5
    OBVIOUS
<1>3. \A i, j \in 1..5 : SumOrder[i] = SumOrder[j] => i = j
    BY <1>1, <1>2
<1>4. ASSUME NEW i \in 1..5 PROVE Place[SumOrder[i]] = i
    <2>1. SumOrder[i] \in Windows
        BY <1>1, <1>2 DEF Windows
    <2> QED
        BY <1>3, <2>1 DEF Place
<1> QED
    BY <1>1, <1>4

LEMMA PlaceRange == \A v \in Windows : Place[v] \in 1..5
    BY PlaceIs DEF Windows

LEMMA NothingIsSeen == NothingSeen \in Seen /\ NoRow \in Row
<1>1. NoRow \in Row /\ <<>> \in Seq(Attempt) /\ <<>> \in Seq(Endpoints)
    BY DEF NoRow, Row
<1> QED
    BY <1>1 DEF NothingSeen, Seen

(* Nothing read, and an empty place for every sum.                         *)
LEMMA NothingShown ==
    ASSUME NEW t, seen.row = NoRow, seen.left = {}, seen.asOf = t, seen.sums = 0,
           seen.counted = [w \in Windows |-> {}],
           view \notin {"config", "stats"}, view = "sums" => t \in Clock
    PROVE  ShowsRequest /\ ShowsSums /\ ShowsErrors
<1>1. ShowsRequest /\ ShowsErrors
    BY DEF ShowsRequest, ShowsErrors, NoRow
<1>2. \A w \in Windows : seen.counted[w] = {}
    OBVIOUS
<1>3. \A c \in Containing : c[1] \in Windows /\ c[2] \in Windows
    BY DEF Containing, Windows
<1> QED
    BY <1>1, <1>2, <1>3 DEF ShowsSums

LEMMA ViewsInvInit == ViewsInit => ViewsInv
<1> SUFFICES ASSUME ViewsInit PROVE ViewsInv
    OBVIOUS
<1>1. LedgerInv /\ ExplainedInv /\ ColumnsDue
    BY LedgerInvInit, ExplainedInit, ColumnsInit DEF ViewsInit
<1>2. view = "idle" /\ seen = NothingSeen
    BY DEF ViewsInit
<1>3. SeenTypeOK
    BY <1>2, NothingIsSeen DEF SeenTypeOK
<1>4. ShowsRequest /\ ShowsSums /\ ShowsErrors
    BY <1>2, NothingShown DEF NothingSeen
<1> QED
    BY <1>1, <1>3, <1>4 DEF ViewsInv

(* The proxy's step leaves what was read, and what was read stays true.    *)
LEMMA ServingShows == ViewsInv /\ Serving => ViewsInv'
<1> SUFFICES ASSUME ViewsInv, Serving PROVE ViewsInv'
    OBVIOUS
<1>1. LedgerInv /\ ExplainedInv /\ ColumnsDue /\ SeenTypeOK /\ [Next]_vars
      /\ view' = view /\ seen' = seen
    BY ServingSteps DEF ViewsInv, Serving
<1>2. LedgerInv' /\ ExplainedInv' /\ ColumnsDue'
    BY <1>1, LedgerInvNext, ExplainedNext, ColumnsServing
<1>3. SeenTypeOK'
    BY <1>1 DEF SeenTypeOK, NothingSeen
<1>4. ASSUME NEW q \in Requests, rows[q].state = "closed"
      PROVE  rows'[q] = rows[q] /\ attempts'[q] = attempts[q] /\ started'[q] = started[q]
    <2>1. pc[q] = "done"
        BY <1>1, <1>4, LabelsMove
    <2>2. SameBooks(q)
        BY <1>1, <2>1, DoneIsDone
    <2> QED
        BY <2>1, <2>2 DEF SameBooks, Serving
<1>5. ShowsRequest'
    <2> SUFFICES ASSUME seen.row.state # "absent" PROVE ShowsRequest'
        BY <1>1 DEF ShowsRequest
    <2>0. view # "sums"
        BY DEF ViewsInv, ShowsRequest
    <2>1. PICK q \in Requests :
            /\ seen.of = {q}
            /\ seen.row.state = "closed" =>
                  /\ rows[q] = seen.row
                  /\ view = "shown" => seen.attempts = attempts[q]
        BY DEF ViewsInv, ShowsRequest
    <2> QED
        BY <1>1, <1>4, <2>0, <2>1 DEF ShowsRequest
<1>6. ShowsSums'
    <2>1. ASSUME NEW w \in Windows, NEW q \in seen.counted[w]
          PROVE  rows'[q].state = "closed" /\ started'[q] >= Since(w, seen.asOf)
        <3>1. rows[q].state = "closed" /\ started[q] >= Since(w, seen.asOf)
            BY DEF ViewsInv, ShowsSums
        <3>2. q \in Requests
            BY <1>1 DEF SeenTypeOK, Seen
        <3> QED
            BY <1>4, <3>1, <3>2
    <2> QED
        BY <1>1, <2>1 DEF ViewsInv, ShowsSums
<1>7. ShowsErrors'
    <2>1. ASSUME view \in {"config", "stats"}, \A q \in Requests : ~cancelled'[q],
                 NEW e \in Endpoints
          PROVE  Backed(e, seen.errors[e])'
        <3>1. PICK k \in Nat : k = seen.errors[e]
            BY <1>1 DEF SeenTypeOK, Seen
        <3>2. \A q \in Requests : ~cancelled[q]
            BY <1>1, <2>1, StaysCancelled
        <3>3. Backed(e, k)
            BY <2>1, <3>1, <3>2 DEF ViewsInv, ShowsErrors
        <3>4. Backed(e, k)'
            BY <1>1, <2>1, <3>3, BackedNext
        <3> QED
            BY <1>1, <3>1, <3>4 DEF Backed
    <2> QED
        BY <1>1, <2>1 DEF ViewsInv, ShowsErrors
<1> QED
    BY <1>2, <1>3, <1>5, <1>6, <1>7 DEF ViewsInv

-----------------------------------------------------------------------------
(* The statements of an admin request                                      *)

(* The proxy's side of the invariant is not touched by a read.             *)
LEMMA ReadingLeaves ==
    ASSUME ViewsInv, Reading
    PROVE  /\ LedgerInv' /\ ExplainedInv' /\ ColumnsDue'
           /\ UNCHANGED <<rows, attempts, started, cancelled>>
           /\ \A e : FailedAttempts(e)' = FailedAttempts(e) /\ Logging(e)' = Logging(e)
<1>1. UNCHANGED vars /\ UNCHANGED columns
    BY DEF Reading
<1>2. LedgerInv' /\ ExplainedInv'
    BY <1>1, LedgerInvNext, ExplainedNext DEF ViewsInv
<1>3. /\ UNCHANGED <<pc, pairs, loop, outcome, rows, attempts, started, begun, stamps>>
      /\ cancelled' = cancelled
    BY <1>1 DEF vars, columns, routingVars, selectionVars, callVars, logVars
<1>4. ColumnsDue'
    <2>1. LoggedAttempts' = LoggedAttempts
        BY <1>3 DEF LoggedAttempts
    <2> QED
        BY <1>3, <2>1 DEF ViewsInv, ColumnsDue
<1>5. ASSUME NEW e
      PROVE  FailedAttempts(e)' = FailedAttempts(e) /\ Logging(e)' = Logging(e)
    <2>1. FailedAttempts(e)' = FailedAttempts(e)
        BY <1>3 DEF FailedAttempts
    <2>2. Logging(e)' = Logging(e)
        BY <1>3 DEF Logging, Current
    <2> QED
        BY <2>1, <2>2
<1> QED
    BY <1>2, <1>3, <1>4, <1>5

(* Every answer of the page begins and ends with nothing read.             *)
LEMMA NothingReads ==
    ASSUME ViewsInv, Reading, seen'.row = NoRow, seen'.left = {}, seen'.sums = 0,
           seen'.counted = [w \in Windows |-> {}], SeenTypeOK',
           view' \notin {"config", "stats"}, view' = "sums" => seen'.asOf \in Clock
    PROVE  ViewsInv'
<1>1. ShowsRequest' /\ ShowsErrors'
    BY DEF ShowsRequest, ShowsErrors, NoRow
<1>2. \A w \in Windows : seen'.counted[w] = {}
    OBVIOUS
<1>3. \A c \in Containing : c[1] \in Windows /\ c[2] \in Windows
    BY DEF Containing, Windows
<1>4. ShowsSums'
    BY <1>1, <1>2, <1>3 DEF ShowsSums
<1> QED
    BY <1>1, <1>4, ReadingLeaves DEF ViewsInv

LEMMA ReadRowShows == \A q \in Requests : ViewsInv /\ Reading /\ ReadRow(q) => ViewsInv'
<1> SUFFICES ASSUME NEW q \in Requests, ViewsInv, Reading, ReadRow(q) PROVE ViewsInv'
    OBVIOUS
<1>1. SeenTypeOK /\ rows \in [Requests -> Row]
    BY DEF ViewsInv, LedgerInv, LedgerTypeOK
<1>2. /\ view' = "attempts" /\ view = "idle" /\ seen = NothingSeen
      /\ seen' = [seen EXCEPT !.of = {q}, !.row = rows[q]]
    BY <1>1 DEF ReadRow, SeenTypeOK
<1>3. seen' \in Seen /\ seen'.left = {} /\ seen'.sums = 0
      /\ seen'.counted = [w \in Windows |-> {}] /\ seen'.row = rows[q] /\ seen'.of = {q}
    BY <1>1, <1>2 DEF SeenTypeOK, Seen, NothingSeen
<1>4. SeenTypeOK'
    BY <1>2, <1>3 DEF SeenTypeOK
<1>5. ShowsRequest' /\ ShowsErrors'
    BY <1>2, <1>3, ReadingLeaves DEF ShowsRequest, ShowsErrors
<1>6. ShowsSums'
    <2>1. \A w \in Windows : seen'.counted[w] = {}
        BY <1>3
    <2>2. \A c \in Containing : c[1] \in Windows /\ c[2] \in Windows
        BY DEF Containing, Windows
    <2> QED
        BY <1>2, <1>3, <2>1, <2>2 DEF ShowsSums
<1> QED
    BY <1>4, <1>5, <1>6, ReadingLeaves DEF ViewsInv

LEMMA ReadAttemptsShows ==
    \A q \in Requests : ViewsInv /\ Reading /\ ReadAttempts(q) => ViewsInv'
<1> SUFFICES ASSUME NEW q \in Requests, ViewsInv, Reading, ReadAttempts(q) PROVE ViewsInv'
    OBVIOUS
<1>1. SeenTypeOK /\ attempts[q] \in Seq(Attempt)
    BY DEF ViewsInv, LedgerInv, LedgerTypeOK
<1>2. /\ view = "attempts" /\ seen.of = {q} /\ view' = "shown"
      /\ seen' = [seen EXCEPT !.attempts = attempts[q]]
    BY DEF ReadAttempts
<1>3. /\ seen' \in Seen /\ seen'.attempts = attempts[q] /\ seen'.of = seen.of
      /\ seen'.row = seen.row /\ seen'.left = seen.left /\ seen'.sums = seen.sums
      /\ seen'.counted = seen.counted /\ seen'.asOf = seen.asOf
    BY <1>1, <1>2 DEF SeenTypeOK, Seen
<1>4. SeenTypeOK'
    BY <1>2, <1>3 DEF SeenTypeOK
<1>5. ShowsRequest'
    BY <1>2, <1>3, ReadingLeaves DEF ViewsInv, ShowsRequest
<1>6. ShowsErrors'
    BY <1>2, <1>3 DEF ViewsInv, ShowsErrors
<1>7. ShowsSums'
    BY <1>2, <1>3, ReadingLeaves DEF ViewsInv, ShowsSums
<1> QED
    BY <1>4, <1>5, <1>6, <1>7, ReadingLeaves DEF ViewsInv

LEMMA ReadTrackerShows == ViewsInv /\ Reading /\ ReadTracker => ViewsInv'
<1> SUFFICES ASSUME ViewsInv, Reading, ReadTracker PROVE ViewsInv'
    OBVIOUS
<1>1. SeenTypeOK /\ states \in [Endpoints -> EndpointState]
    BY DEF ViewsInv, LedgerInv, LedgerTypeOK, TrackerTypeOK
<1>2. /\ view' = "config" /\ view = "idle" /\ seen = NothingSeen
      /\ seen' = [seen EXCEPT !.errors = [e \in Endpoints |-> states[e].errors]]
    BY <1>1 DEF ReadTracker, SeenTypeOK
<1>3. [e \in Endpoints |-> states[e].errors] \in [Endpoints -> Nat]
    BY <1>1 DEF EndpointState
<1>4. /\ seen' \in Seen /\ seen'.left = {} /\ seen'.sums = 0
      /\ seen'.counted = [w \in Windows |-> {}] /\ seen'.row = NoRow
      /\ seen'.errors = [e \in Endpoints |-> states[e].errors]
    BY <1>1, <1>2, <1>3 DEF SeenTypeOK, Seen, NothingSeen
<1>5. SeenTypeOK'
    BY <1>2, <1>4 DEF SeenTypeOK
<1>6. ShowsRequest'
    BY <1>4 DEF ShowsRequest, NoRow
<1>7. ShowsSums'
    <2>1. \A w \in Windows : seen'.counted[w] = {}
        BY <1>4
    <2>2. \A c \in Containing : c[1] \in Windows /\ c[2] \in Windows
        BY DEF Containing, Windows
    <2> QED
        BY <1>2, <1>4, <2>1, <2>2 DEF ShowsSums
<1>8. ShowsErrors'
    BY <1>2, <1>4, ReadingLeaves DEF ViewsInv, ExplainedInv, Explained, ShowsErrors, Backed
<1> QED
    BY <1>5, <1>6, <1>7, <1>8, ReadingLeaves DEF ViewsInv

LEMMA ReadEndpointsShows == ViewsInv /\ Reading /\ ReadEndpoints => ViewsInv'
<1> SUFFICES ASSUME ViewsInv, Reading, ReadEndpoints PROVE ViewsInv'
    OBVIOUS
<1>1. SeenTypeOK /\ cfg \in Configs
    BY DEF ViewsInv, LedgerInv, LedgerTypeOK, SelectionInv, SelectionTypeOK
<1>2. /\ view' = "stats" /\ view = "config"
      /\ seen' = [seen EXCEPT !.left = {cfg.endpoints[i].name : i \in DOMAIN cfg.endpoints}]
    BY DEF ReadEndpoints
<1>3. {cfg.endpoints[i].name : i \in DOMAIN cfg.endpoints} \subseteq Endpoints
    <2>1. cfg.endpoints \in Seq(Endpoint)
        BY <1>1, ConfigsAssumption DEF ValidConfig
    <2>2. \A i \in DOMAIN cfg.endpoints : cfg.endpoints[i] \in Endpoint
        BY <2>1
    <2> QED
        BY <2>2 DEF Endpoint
<1>4. /\ seen' \in Seen /\ seen'.errors = seen.errors /\ seen'.of = seen.of
      /\ seen'.row = seen.row /\ seen'.sums = seen.sums
      /\ seen'.counted = seen.counted /\ seen'.asOf = seen.asOf
    BY <1>1, <1>2, <1>3 DEF SeenTypeOK, Seen
<1>5. SeenTypeOK'
    BY <1>2, <1>4 DEF SeenTypeOK
<1>6. ShowsRequest'
    BY <1>2, <1>4, ReadingLeaves DEF ViewsInv, ShowsRequest
<1>7. ShowsErrors'
    BY <1>2, <1>4, ReadingLeaves DEF ViewsInv, ShowsErrors, Backed
<1>8. ShowsSums'
    BY <1>2, <1>4, ReadingLeaves DEF ViewsInv, ShowsSums
<1> QED
    BY <1>5, <1>6, <1>7, <1>8, ReadingLeaves DEF ViewsInv

LEMMA ReadStatsShows == \A e \in Endpoints : ViewsInv /\ Reading /\ ReadStats(e) => ViewsInv'
<1> SUFFICES ASSUME NEW e \in Endpoints, ViewsInv, Reading, ReadStats(e) PROVE ViewsInv'
    OBVIOUS
<1>1. SeenTypeOK
    BY DEF ViewsInv
<1>2. /\ view' = view /\ view = "stats"
      /\ seen' = [seen EXCEPT !.left = @ \ {e}, !.failed[e] = RecentErrors(e)]
    BY DEF ReadStats
<1>3. RecentErrors(e) \in Nat
    BY StatsCount DEF ViewsInv
<1>4. /\ seen' \in Seen /\ seen'.errors = seen.errors /\ seen'.of = seen.of
      /\ seen'.row = seen.row /\ seen'.sums = seen.sums
      /\ seen'.counted = seen.counted /\ seen'.asOf = seen.asOf
    <2> HIDE DEF RecentErrors
    <2> QED
        BY <1>1, <1>2, <1>3 DEF SeenTypeOK, Seen
<1>5. SeenTypeOK'
    BY <1>2, <1>4 DEF SeenTypeOK
<1>6. ShowsRequest'
    BY <1>2, <1>4, ReadingLeaves DEF ViewsInv, ShowsRequest
<1>7. ShowsErrors'
    BY <1>2, <1>4, ReadingLeaves DEF ViewsInv, ShowsErrors, Backed
<1>8. ShowsSums'
    BY <1>2, <1>4, ReadingLeaves DEF ViewsInv, ShowsSums
<1> QED
    BY <1>5, <1>6, <1>7, <1>8, ReadingLeaves DEF ViewsInv

LEMMA EndStatsShows == ViewsInv /\ Reading /\ EndStats => ViewsInv'
<1> SUFFICES ASSUME ViewsInv, Reading, EndStats PROVE ViewsInv'
    OBVIOUS
<1>1. now \in Clock /\ NothingSeen \in Seen
    BY NothingIsSeen DEF ViewsInv, LedgerInv, LedgerTypeOK, TrackerTypeOK
<1>2. CASE view' = "sums" /\ seen' = [NothingSeen EXCEPT !.asOf = now]
    <2>1. /\ seen' \in Seen /\ seen'.row = NoRow /\ seen'.left = {} /\ seen'.sums = 0
          /\ seen'.counted = [w \in Windows |-> {}] /\ seen'.asOf = now
        BY <1>1, <1>2 DEF Seen, NothingSeen
    <2>2. SeenTypeOK'
        BY <1>2, <2>1 DEF SeenTypeOK
    <2> QED
        BY <1>1, <1>2, <2>1, <2>2, NothingReads
<1>3. CASE view' = "idle" /\ seen' = NothingSeen
    <2>1. /\ seen'.row = NoRow /\ seen'.left = {} /\ seen'.sums = 0
          /\ seen'.counted = [w \in Windows |-> {}]
        BY <1>3 DEF NothingSeen
    <2>2. SeenTypeOK'
        BY <1>1, <1>3 DEF SeenTypeOK, NothingSeen
    <2> QED
        BY <1>3, <2>1, <2>2, NothingReads
<1> QED
    BY <1>2, <1>3 DEF EndStats

LEMMA RespondShows == ViewsInv /\ Reading /\ Respond => ViewsInv'
<1> SUFFICES ASSUME ViewsInv, Reading, Respond PROVE ViewsInv'
    OBVIOUS
<1>1. view' = "idle" /\ seen' = NothingSeen
    BY DEF Respond
<1>2. /\ seen'.row = NoRow /\ seen'.left = {} /\ seen'.sums = 0
      /\ seen'.counted = [w \in Windows |-> {}]
    BY <1>1 DEF NothingSeen
<1>3. SeenTypeOK'
    BY <1>1, NothingIsSeen DEF SeenTypeOK, NothingSeen
<1> QED
    BY <1>1, <1>2, <1>3, NothingReads

(* The next sum: every window it contains and that is summed already has   *)
(* counted requests that this one counts again.                            *)
LEMMA SumTokensShows == ViewsInv /\ Reading /\ SumTokens => ViewsInv'
<1> SUFFICES ASSUME ViewsInv, Reading, SumTokens PROVE ViewsInv'
    OBVIOUS
<1> DEFINE w == SumOrder[seen.sums + 1]
           counts == {q \in Requests : /\ rows[q].state = "closed"
                                       /\ started[q] >= Since(w, seen.asOf)}
<1>1. /\ SeenTypeOK /\ ColumnsDue /\ ShowsSums /\ view = "sums" /\ seen.asOf \in Clock
      /\ seen.sums \in 0..4 /\ seen.counted \in [Windows -> SUBSET Requests]
    BY DEF ViewsInv, SumTokens, ShowsSums, SeenTypeOK, Seen
<1>2. w \in Windows /\ Place[w] = seen.sums + 1
    <2>1. seen.sums \in {0, 1, 2, 3, 4}
        BY <1>1
    <2> QED
        BY <2>1, PlaceIs DEF Windows
<1>3. /\ seen' = [seen EXCEPT !.sums = @ + 1, !.counted[w] = counts]
      /\ view' = IF seen.sums + 1 = 5 THEN "shown" ELSE "sums"
    BY PlaceIs DEF SumTokens
<1>4. counts \in SUBSET Requests /\ seen.sums + 1 \in 0..5
    BY <1>1
<1> HIDE DEF w, counts
<1>5. /\ seen' \in Seen /\ seen'.of = seen.of /\ seen'.row = seen.row
      /\ seen'.attempts = seen.attempts /\ seen'.left = seen.left
      /\ seen'.asOf = seen.asOf /\ seen'.sums = seen.sums + 1
      /\ seen'.counted = [seen.counted EXCEPT ![w] = counts]
    BY <1>1, <1>2, <1>3, <1>4 DEF SeenTypeOK, Seen
<1>6. SeenTypeOK'
    BY <1>3, <1>5 DEF SeenTypeOK
<1>7. ShowsErrors'
    BY <1>1, <1>3, <1>5 DEF ViewsInv, ShowsErrors
<1>8. ShowsRequest'
    BY <1>1, <1>3, <1>5 DEF ViewsInv, ShowsRequest
<1>9. ShowsSums'
    <2>1. /\ view' = "sums" => seen'.asOf \in Clock /\ seen'.sums \in 0..4
          /\ view' # "sums" => seen'.sums \in {0, 5}
        BY <1>1, <1>3, <1>4, <1>5
    <2>2. ASSUME NEW v \in Windows, NEW q \in seen'.counted[v]
          PROVE  rows[q].state = "closed" /\ started[q] >= Since(v, seen.asOf)
        <3>1. CASE v = w
            BY <1>1, <1>5, <2>2, <3>1 DEF counts
        <3>2. CASE v # w
            BY <1>1, <1>5, <2>2, <3>2 DEF ShowsSums
        <3> QED
            BY <3>1, <3>2
    <2>3. ASSUME NEW v \in Windows, Place[v] > seen'.sums PROVE seen'.counted[v] = {}
        <3>1. v # w
            BY <1>1, <1>2, <1>5, <2>3
        <3>2. Place[v] > seen.sums
            BY <1>1, <1>5, <2>3, PlaceRange
        <3> QED
            BY <1>1, <1>5, <3>1, <3>2 DEF ShowsSums
    <2>4. ASSUME NEW c \in Containing, Place[c[2]] <= seen'.sums
          PROVE  seen'.counted[c[1]] \subseteq seen'.counted[c[2]]
        <3>1. c[1] \in Windows /\ c[2] \in Windows /\ Place[c[1]] < Place[c[2]]
              /\ Place[c[1]] \in 1..5 /\ Place[c[2]] \in 1..5
            BY PlaceIs DEF Containing, Windows
        <3>2. c[1] # w
            BY <1>1, <1>2, <1>5, <2>4, <3>1
        <3>3. CASE c[2] = w
            <4>1. ASSUME NEW q \in seen.counted[c[1]] PROVE q \in counts
                <5>1. /\ rows[q].state = "closed" /\ started[q] >= Since(c[1], seen.asOf)
                      /\ q \in Requests
                    BY <1>1, <3>1 DEF ShowsSums
                <5>2. started[q] \in Nat
                    <6>1. started[q] \in {0} \cup Clock
                        BY <1>1, <5>1 DEF ColumnsDue
                    <6>2. \A s \in {0} \cup Clock : s \in Nat
                        BY ClockAssumption
                    <6> QED
                        BY <6>1, <6>2
                <5>3. started[q] >= Since(c[2], seen.asOf)
                    BY <1>1, <5>1, <5>2, SinceWidens
                <5> QED
                    BY <3>3, <5>1, <5>3 DEF counts
            <4> QED
                BY <1>1, <1>2, <1>5, <3>1, <3>2, <3>3, <4>1
        <3>4. CASE c[2] # w
            <4>1. Place[c[2]] # Place[w]
                BY <1>2, <3>1, <3>4, PlaceIs DEF Windows
            <4>2. Place[c[2]] <= seen.sums
                BY <1>1, <1>2, <1>5, <2>4, <3>1, <4>1
            <4> QED
                BY <1>1, <1>5, <3>1, <3>2, <3>4, <4>2 DEF ShowsSums
        <3> QED
            BY <3>3, <3>4
    <2> QED
        BY <1>5, <2>1, <2>2, <2>3, <2>4, ReadingLeaves DEF ShowsSums
<1> QED
    BY <1>6, <1>7, <1>8, <1>9, ReadingLeaves DEF ViewsInv

-----------------------------------------------------------------------------
(* The invariant, and what it says *)

LEMMA ViewsInvNext == ViewsInv /\ [ViewsNext]_viewVars => ViewsInv'
<1> SUFFICES ASSUME ViewsInv, [ViewsNext]_viewVars PROVE ViewsInv'
    OBVIOUS
<1>1. CASE Serving
    BY <1>1, ServingShows
<1>2. CASE Reading
    BY <1>2, ReadRowShows, ReadAttemptsShows, ReadTrackerShows, ReadEndpointsShows,
       ReadStatsShows, EndStatsShows, SumTokensShows, RespondShows DEF Reading, Detail
<1>3. CASE UNCHANGED viewVars
    <2>1. UNCHANGED vars /\ UNCHANGED columns /\ view' = view /\ seen' = seen
        BY <1>3 DEF viewVars
    <2>2. LedgerInv' /\ ExplainedInv'
        BY <2>1, LedgerInvNext, ExplainedNext DEF ViewsInv
    <2>3. UNCHANGED <<pc, pairs, loop, outcome, rows, attempts, started, begun, stamps, cancelled>>
        BY <2>1 DEF vars, columns, routingVars, selectionVars, callVars, logVars
    <2>4. ColumnsDue'
        <3>1. LoggedAttempts' = LoggedAttempts
            BY <2>3 DEF LoggedAttempts
        <3> QED
            BY <2>3, <3>1 DEF ViewsInv, ColumnsDue
    <2>5. SeenTypeOK' /\ ShowsRequest' /\ ShowsSums'
        BY <2>1, <2>3 DEF ViewsInv, SeenTypeOK, NothingSeen, ShowsRequest, ShowsSums
    <2>6. \A e \in Endpoints : Backed(e, seen.errors[e]) => Backed(e, seen.errors[e])'
        BY <2>1, <2>3 DEF Backed, FailedAttempts, Logging, Current
    <2>7. ShowsErrors'
        BY <2>1, <2>3, <2>6 DEF ViewsInv, ShowsErrors
    <2> QED
        BY <2>2, <2>4, <2>5, <2>7 DEF ViewsInv
<1> QED
    BY <1>1, <1>2, <1>3 DEF ViewsNext

LEMMA ViewsInvAlways == ViewsSpec => []ViewsInv
    BY ViewsInvInit, ViewsInvNext, PTL DEF ViewsSpec

(* Every column of time and everything the dashboard holds has its type:   *)
(* an attempt's stamp is a moment of the clock, one for each attempt.      *)
THEOREM ViewsTypeCorrect == ViewsSpec => []ViewsTypeOK
<1>1. ViewsInv => ViewsTypeOK
    BY DEF ViewsInv, ColumnsDue, SeenTypeOK, Seen, ViewsTypeOK
<1> QED
    BY <1>1, ViewsInvAlways, PTL

(* A detail page that shows a request as finished shows all its attempts,  *)
(* in their order, with the deciding one last, although its row and its    *)
(* attempts are read by two statements without a transaction.              *)
THEOREM DetailIsComplete == ViewsSpec => []DetailComplete
<1>1. ViewsInv => DetailComplete
    <2> SUFFICES ASSUME ViewsInv, view = "shown", seen.row.state = "closed"
                 PROVE  /\ \A q \in seen.of : seen.attempts = attempts[q]
                        /\ seen.row.endpoint # <<>> =>
                              /\ Len(seen.attempts) = seen.row.finalAttemptNo
                              /\ seen.row.endpoint
                                    = <<seen.attempts[seen.row.finalAttemptNo].endpoint>>
        BY DEF DetailComplete
    <2>1. PICK q \in Requests :
            seen.of = {q} /\ rows[q] = seen.row /\ seen.attempts = attempts[q]
        BY DEF ViewsInv, ShowsRequest
    <2>2. RowTells(q)
        BY DEF ViewsInv, LedgerInv, BooksAsDue
    <2> QED
        BY <2>1, <2>2 DEF RowTells
<1> QED
    BY <1>1, ViewsInvAlways, PTL

(* The five token sums of the dashboard are taken one after the other      *)
(* while requests finish, and none shows more than one that contains it,   *)
(* whatever the time of day, the month and the order of completions.       *)
THEOREM WindowsAreNested == ViewsSpec => []WindowsNested
<1>1. ViewsInv => WindowsNested
    <2> SUFFICES ASSUME ViewsInv, view = "shown", NEW c \in Containing
                 PROVE  seen.counted[c[1]] \subseteq seen.counted[c[2]]
        BY DEF WindowsNested
    <2>1. ShowsSums /\ seen.sums \in {0, 5} /\ c[1] \in Windows /\ c[2] \in Windows
        BY DEF ViewsInv, ShowsSums, Containing, Windows
    <2>2. Place[c[1]] \in 1..5 /\ Place[c[2]] \in 1..5
        BY <2>1, PlaceRange
    <2>3. CASE seen.sums = 0
        BY <2>1, <2>2, <2>3 DEF ShowsSums
    <2>4. CASE seen.sums = 5
        BY <2>1, <2>2, <2>4 DEF ShowsSums
    <2> QED
        BY <2>1, <2>3, <2>4
<1> QED
    BY <1>1, ViewsInvAlways, PTL

(* While no client leaves and no attempt is older than an hour, the errors *)
(* in a row that an endpoint's card shows, read from the tracker first,    *)
(* are backed by the failed attempts it shows next to them or by one about *)
(* to be logged, however the two reads and the handlers interleave.        *)
THEOREM ErrorsAreTraceable == ViewsSpec => ErrorsTraceable
<1>1. ASSUME ViewsInv, [ViewsNext]_viewVars, NEW e \in seen.left \ seen'.left,
             Recent, \A q \in Requests : ~cancelled[q]
      PROVE  seen.errors[e] <= seen'.failed[e] + Cardinality(Logging(e))
    <2>1. view = "stats" /\ seen \in Seen /\ e \in Endpoints
        BY <1>1 DEF ViewsInv, ShowsErrors, SeenTypeOK, Seen
    <2>2. seen' = [seen EXCEPT !.left = @ \ {e}, !.failed[e] = RecentErrors(e)]
        <3>1. seen' # seen
            BY <1>1
        <3>2. Reading
            BY <1>1, <3>1 DEF ViewsNext, Serving, viewVars
        <3>3. CASE \E d \in Endpoints : ReadStats(d)
            <4>1. PICK d \in Endpoints : ReadStats(d)
                BY <3>3
            <4>2. seen'.left = seen.left \ {d}
                BY <2>1, <4>1 DEF ReadStats, Seen
            <4>3. d = e
                BY <1>1, <4>2
            <4> QED
                BY <4>1, <4>3 DEF ReadStats
        <3>4. CASE EndStats
            BY <1>1, <3>4 DEF EndStats
        <3> QED
            BY <2>1, <3>2, <3>3, <3>4
               DEF Reading, Detail, ReadRow, ReadAttempts, ReadTracker, ReadEndpoints,
                   SumTokens, Respond
    <2>3. seen'.failed[e] = RecentErrors(e)
        <3> HIDE DEF RecentErrors
        <3> QED
            BY <2>1, <2>2 DEF Seen
    <2>4. RecentErrors(e) = Cardinality(FailedAttempts(e))
        BY <1>1, <2>1, StatsCount DEF ViewsInv
    <2>5. Backed(e, seen.errors[e])
        BY <1>1, <2>1 DEF ViewsInv, ShowsErrors
    <2> QED
        BY <2>3, <2>4, <2>5 DEF Backed
<1>2. ViewsInv /\ [ViewsNext]_viewVars =>
        [\A e \in seen.left \ seen'.left :
          Recent /\ (\A q \in Requests : ~cancelled[q])
            => seen.errors[e] <= seen'.failed[e] + Cardinality(Logging(e))]_viewVars
    BY <1>1
<1> QED
    BY <1>2, ViewsInvAlways, PTL DEF ViewsSpec, ErrorsTraceable


-----------------------------------------------------------------------------
(* The admin server only reads (query.go and store.go SELECT): whatever it *)
(* is asked and when, what the proxy does is what it does without it, so   *)
(* that every theorem about the proxy holds next to the dashboard.         *)
LEMMA ReadingChangesNothing == ViewsSpec => Spec
<1>1. ViewsInit => Init
    BY DEF ViewsInit
<1>2. [ViewsNext]_viewVars => [Next]_vars
    BY DEF ViewsNext, Serving, Reading, viewVars
<1> QED
    BY <1>1, <1>2, PTL DEF ViewsSpec, Spec
=============================================================================
