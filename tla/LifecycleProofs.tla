-------------------------- MODULE LifecycleProofs --------------------------
(* Theorems about start, stop and crash, for any number of requests, admin *)
(* requests and restarts.                                                  *)
EXTENDS Lifecycle, TLAPS

(* Where main stands says what has ended: Shutdown stops the servers one   *)
(* after the other, and past each of them only a grace period that is over *)
(* can have left something running, which is then known to be spoiled.     *)
StopInv ==
    /\ phase \in [Requests -> {"new", "active", "over", "cut"}]
    /\ server \in [Servers -> {"new", "listening", "failed", "shut"}]
    /\ main \in {"off", "run"} \cup Stopping
    /\ main # "run" => server["admin"] \in {"failed", "shut"}
    /\ main \notin {"run", "admin"} => server["proxy"] \in {"failed", "shut"}
    /\ main \in {"proxy", "close", "exit"} /\ ~graceOver => reading = {}
    /\ main \in {"close", "exit"} /\ ~graceOver => Active = {}
    /\ Alive /\ db = "closed" => main = "exit"
    /\ Alive /\ graceOver => Active \subseteq spoiled

(* Steps that let no handler in and leave main and the servers alone.      *)
LEMMA QuietKeepsStop ==
    ASSUME StopInv,
           phase' \in [Requests -> {"new", "active", "over", "cut"}],
           UNCHANGED <<main, server, db, graceOver>>,
           Active' \subseteq Active, reading' \subseteq reading, spoiled' = spoiled
    PROVE  StopInv'
BY DEF StopInv, Alive

LEMMA StopInvInit == LifeInit => StopInv
BY DEF LifeInit, Init, StopInv, Servers, Active, Alive

LEMMA MainKeepsStop ==
    ASSUME StopInv, Start \/ Shutdown \/ GraceOver \/ Crash
    PROVE  StopInv'
<1> USE DEF StopInv, Alive, Stopping, Servers
<1>1. CASE Start
    BY <1>1 DEF Start, gatewayVars
<1>2. CASE BeginShutdown
    <2>1. Active' = Active
        BY <1>2 DEF BeginShutdown, gatewayVars, Active
    <2> QED
        BY <1>2, <2>1 DEF BeginShutdown, StopServer, gatewayVars
<1>3. CASE AdminStopped
    <2>1. Active' = Active
        BY <1>3 DEF AdminStopped, gatewayVars, Active
    <2> QED
        BY <1>3, <2>1 DEF AdminStopped, StopServer, gatewayVars
<1>4. CASE ProxyStopped
    <2>1. Active' = Active
        BY <1>4 DEF ProxyStopped, gatewayVars, Active
    <2> QED
        BY <1>4, <2>1 DEF ProxyStopped, gatewayVars
<1>5. CASE CloseStore
    <2>1. Active' = Active
        BY <1>5 DEF CloseStore, gatewayVars, Active
    <2> QED
        BY <1>5, <2>1 DEF CloseStore, gatewayVars
<1>6. CASE End
    BY <1>6 DEF End
<1>7. CASE GraceOver
    <2>1. Active' = Active
        BY <1>7 DEF GraceOver, gatewayVars, Active
    <2> QED
        BY <1>7, <2>1 DEF GraceOver, gatewayVars
<1> QED
    BY <1>1, <1>2, <1>3, <1>4, <1>5, <1>6, <1>7 DEF Shutdown, Exit, Crash

LEMMA StopInvStep == StopInv /\ [LifeNext]_lifeVars => StopInv'
<1> SUFFICES ASSUME StopInv, [LifeNext]_lifeVars PROVE StopInv'
    OBVIOUS
<1>1. CASE Start \/ Shutdown \/ GraceOver \/ Crash
    BY <1>1, MainKeepsStop
<1>2. CASE Signal \/ UNCHANGED lifeVars
    <2>1. UNCHANGED <<phase, main, server, db, graceOver, reading, spoiled>>
        BY <1>2 DEF Signal, lifeVars, appVars, gatewayVars
    <2>2. Active' = Active
        BY <2>1 DEF Active
    <2> QED
        BY <2>1, <2>2, QuietKeepsStop DEF StopInv
<1>3. ASSUME NEW s \in Servers, Listen(s) \/ ListenFails(s) PROVE StopInv'
    <2>1. Active' = Active
        BY <1>3 DEF Listen, ListenFails, gatewayVars, Active
    <2>2. UNCHANGED <<phase, main, db, graceOver, reading, spoiled>>
        BY <1>3 DEF Listen, ListenFails, gatewayVars
    <2>3. \/ server[s] = "new" /\ server' = [server EXCEPT ![s] = "listening"]
          \/ server' = [server EXCEPT ![s] = "failed"]
        BY <1>3 DEF Listen, ListenFails
    <2> QED
        BY <2>1, <2>2, <2>3 DEF StopInv, Servers, Alive
<1>4. ASSUME NEW q \in Requests, Request(q) PROVE StopInv'
    <2>1. /\ server["proxy"] = "listening" /\ phase' = [phase EXCEPT ![q] = "active"]
          /\ UNCHANGED <<main, server, db, graceOver, reading>>
          /\ spoiled' = IF graceOver THEN spoiled \cup {q} ELSE spoiled
        BY <1>4 DEF Request, Accept, appVars
    <2>2. main \in {"run", "admin"}
        BY <2>1 DEF StopInv
    <2>3. Active' \subseteq Active \cup {q}
        BY <2>1 DEF Active, StopInv
    <2> QED
        BY <2>1, <2>2, <2>3 DEF StopInv, Alive
<1>5. ASSUME NEW q \in Requests, Depart(q) \/ Handle(q) \/ HandleUnlogged(q)
      PROVE  StopInv'
    <2>1. UNCHANGED <<main, server, db, graceOver, reading, spoiled>>
        BY <1>5 DEF Depart, Handle, HandleUnlogged, appVars
    <2>2. phase' = phase \/ phase' = [phase EXCEPT ![q] = "over"]
        BY <1>5 DEF Depart, Leave, Handle, HandleUnlogged, Serve, OpenRow, LogAttempt,
                    Conclude, Answer, Finish, Fail
    <2>3. Active' \subseteq Active
        BY <2>2 DEF Active, StopInv
    <2>4. phase' \in [Requests -> {"new", "active", "over", "cut"}]
        BY <2>2 DEF StopInv
    <2> QED
        BY <2>1, <2>3, <2>4, QuietKeepsStop
<1>6. ASSUME NEW r \in Readers, ReadBegins(r) PROVE StopInv'
    <2>1. Active' = Active
        BY <1>6 DEF ReadBegins, gatewayVars, Active
    <2>2. /\ server["admin"] = "listening"
          /\ UNCHANGED <<phase, main, server, db, graceOver, spoiled>>
        BY <1>6 DEF ReadBegins, gatewayVars, appVars
    <2>3. main = "run"
        BY <2>2 DEF StopInv
    <2> QED
        BY <2>1, <2>2, <2>3 DEF StopInv, Alive
<1>7. ASSUME NEW r \in Readers, ReadEnds(r) PROVE StopInv'
    <2>1. Active' = Active /\ reading' \subseteq reading
        BY <1>7 DEF ReadEnds, gatewayVars, Active
    <2>2. UNCHANGED <<phase, main, server, db, graceOver, spoiled>>
        BY <1>7 DEF ReadEnds, gatewayVars, appVars
    <2> QED
        BY <2>1, <2>2, QuietKeepsStop DEF StopInv
<1> QED
    BY <1>1, <1>2, <1>3, <1>4, <1>5, <1>6, <1>7 DEF LifeNext

(* The store is closed under nobody's feet (app.go:92-94), whenever the    *)
(* signal, failures and requests come, as long as the grace period lasts.  *)
THEOREM StoreOutlivesHandlers == LifeSpec => []DbOutlivesHandlers
<1>1. StopInv => DbOutlivesHandlers
    BY DEF StopInv, DbOutlivesHandlers
<1> QED
    BY <1>1, StopInvInit, StopInvStep, PTL DEF LifeSpec

-----------------------------------------------------------------------------
(* What becomes of a request that is seen to its end. *)
Completed(q) ==
    q \notin spoiled =>
        /\ phase[q] # "cut"
        /\ phase[q] = "over" =>
              answer[q] # <<>> /\ (gone[q] \/ ledger[q] \in {<<>>, answer[q]})

DoneInv ==
    /\ gone = [q \in Requests |-> gone[q]]
    /\ ledger = [q \in Requests |-> ledger[q]]
    /\ answer \in [Requests -> {<<>>} \cup {<<s>> : s \in Statuses}]
    /\ \A q \in Requests : Completed(q)

LifeInv == StopInv /\ DoneInv

LEMMA LifeInvInit == LifeInit => LifeInv
<1> SUFFICES ASSUME LifeInit PROVE DoneInv
    BY StopInvInit DEF LifeInv
<1> QED
    BY DEF LifeInit, Init, DoneInv, Completed

(* Steps that neither end a request that is not spoiled nor touch the log. *)
LEMMA QuietKeepsDone ==
    ASSUME LifeInv, UNCHANGED <<gone, answer, ledger>>, spoiled \subseteq spoiled',
           \A q \in Requests \ spoiled' : phase'[q] \in {phase[q], "active"}
    PROVE  DoneInv'
BY DEF LifeInv, DoneInv, Completed

(* A step of one request that the others do not notice. *)
LEMMA OthersKeepDone ==
    ASSUME LifeInv, NEW q \in Requests, spoiled' = spoiled,
           phase' = phase \/ phase' = [phase EXCEPT ![q] = "over"],
           gone' = gone \/ gone' = [gone EXCEPT ![q] = TRUE],
           answer' = answer \/ \E s \in Statuses : answer' = [answer EXCEPT ![q] = <<s>>],
           ledger' = ledger \/ \E l : ledger' = [ledger EXCEPT ![q] = l],
           Completed(q)'
    PROVE  DoneInv'
<1>1. /\ gone' = [o \in Requests |-> gone'[o]]
      /\ ledger' = [o \in Requests |-> ledger'[o]]
    BY DEF LifeInv, DoneInv
<1>2. answer' \in [Requests -> {<<>>} \cup {<<s>> : s \in Statuses}]
    BY DEF LifeInv, DoneInv
<1>3. ASSUME NEW o \in Requests, o # q PROVE Completed(o)'
    <2>1. phase'[o] = phase[o]
        BY <1>3 DEF LifeInv, StopInv
    <2>2. gone'[o] = gone[o] /\ answer'[o] = answer[o] /\ ledger'[o] = ledger[o]
        BY <1>3 DEF LifeInv, DoneInv
    <2> QED
        BY <2>1, <2>2 DEF LifeInv, DoneInv, Completed
<1> QED
    BY <1>1, <1>2, <1>3 DEF DoneInv

(* Closing the row of a request that is answered completes it. *)
LEMMA ClosingCompletes ==
    ASSUME LifeInv, NEW q \in Requests, NEW s \in Statuses, CloseRow(q, s),
           answer'[q] = <<s>>, phase'[q] = "over", gone' = gone
    PROVE  Completed(q)'
<1>1. CASE gone[q] \/ ledger[q] = <<>>
    BY <1>1 DEF CloseRow, Completed
<1>2. CASE ~(gone[q] \/ ledger[q] = <<>>)
    <2>1. ledger'[q] = <<s>>
        BY <1>2 DEF CloseRow, LifeInv, DoneInv
    <2> QED
        BY <2>1 DEF Completed
<1> QED
    BY <1>1, <1>2

LEMMA HandleKeepsDone ==
    ASSUME LifeInv, NEW q \in Requests, Handle(q)
    PROVE  DoneInv'
<1>1. spoiled' = spoiled /\ Completed(q)
    BY DEF Handle, LifeInv, DoneInv
<1>2. CASE OpenRow(q) \/ LogAttempt(q)
    <2>1. Completed(q)'
        BY <1>1, <1>2 DEF OpenRow, LogAttempt, Completed
    <2> QED
        BY <1>1, <1>2, <2>1, OthersKeepDone DEF OpenRow, LogAttempt
<1>3. ASSUME NEW s \in Statuses, Answer(q, s) PROVE DoneInv'
    <2>1. Completed(q)'
        BY <1>1, <1>3 DEF Answer, Completed
    <2> QED
        BY <1>1, <1>3, <2>1, OthersKeepDone DEF Answer
<1>4. ASSUME NEW s \in Statuses, Fail(q, s) PROVE DoneInv'
    <2>1. answer'[q] = <<s>> /\ phase'[q] = "over"
        BY <1>4 DEF Fail, LifeInv, DoneInv, StopInv
    <2>2. Completed(q)'
        BY <1>4, <2>1, ClosingCompletes DEF Fail
    <2> QED
        BY <1>1, <1>4, <2>2, OthersKeepDone DEF Fail, CloseRow
<1>5. CASE Finish(q)
    <2>1. PICK s \in Statuses : answer[q] = <<s>>
        BY <1>5 DEF Finish, LifeInv, DoneInv
    <2>2. CloseRow(q, s) /\ UNCHANGED <<gone, answer>>
        BY <1>5, <2>1 DEF Finish
    <2>3. phase'[q] = "over"
        BY <1>5 DEF Finish, LifeInv, StopInv
    <2>4. Completed(q)'
        BY <2>1, <2>2, <2>3, ClosingCompletes
    <2> QED
        BY <1>1, <1>5, <2>2, <2>4, OthersKeepDone DEF Finish, CloseRow
<1> QED
    BY <1>2, <1>3, <1>4, <1>5 DEF Handle, Serve, Conclude

LEMMA LifeInvStep == LifeInv /\ [LifeNext]_lifeVars => LifeInv'
<1> SUFFICES ASSUME LifeInv, [LifeNext]_lifeVars PROVE DoneInv'
    BY StopInvStep DEF LifeInv
<1>1. CASE Start \/ Signal \/ GraceOver \/ UNCHANGED lifeVars
    BY <1>1, QuietKeepsDone DEF Start, Signal, GraceOver, lifeVars, gatewayVars
<1>2. CASE BeginShutdown \/ AdminStopped \/ ProxyStopped \/ CloseStore
    BY <1>2, QuietKeepsDone
       DEF BeginShutdown, AdminStopped, ProxyStopped, CloseStore, gatewayVars
<1>3. CASE Exit \/ Crash
    <2>1. End /\ Active \subseteq spoiled' /\ spoiled \subseteq spoiled'
        BY <1>3 DEF Exit, Crash, LifeInv, StopInv, Alive
    <2>2. \A q \in Requests \ spoiled' : phase'[q] = phase[q]
        BY <2>1 DEF End, Active
    <2> QED
        BY <2>1, <2>2, QuietKeepsDone DEF End
<1>4. ASSUME NEW s \in Servers, Listen(s) \/ ListenFails(s) PROVE DoneInv'
    BY <1>4, QuietKeepsDone DEF Listen, ListenFails, gatewayVars
<1>5. ASSUME NEW q \in Requests, Request(q) PROVE DoneInv'
    <2>1. /\ phase' = [phase EXCEPT ![q] = "active"]
          /\ UNCHANGED <<gone, answer, ledger>> /\ spoiled \subseteq spoiled'
        BY <1>5 DEF Request, Accept
    <2>2. \A o \in Requests : phase'[o] \in {phase[o], "active"}
        BY <2>1 DEF LifeInv, StopInv
    <2> QED
        BY <2>1, <2>2, QuietKeepsDone
<1>6. ASSUME NEW q \in Requests, Depart(q) PROVE DoneInv'
    <2>1. phase[q] = "active" /\ gone' = [gone EXCEPT ![q] = TRUE]
          /\ UNCHANGED <<phase, answer, ledger, spoiled>>
        BY <1>6 DEF Depart, Leave
    <2>2. Completed(q)'
        BY <2>1 DEF Completed, LifeInv, DoneInv
    <2> QED
        BY <2>1, <2>2, OthersKeepDone
<1>7. ASSUME NEW q \in Requests, Handle(q) PROVE DoneInv'
    BY <1>7, HandleKeepsDone
<1>8. ASSUME NEW q \in Requests, HandleUnlogged(q) PROVE DoneInv'
    <2>1. q \in Active /\ main = "exit" /\ UNCHANGED <<gone, ledger, spoiled>>
        BY <1>8 DEF HandleUnlogged, Active, LifeInv, StopInv
    <2>2. q \in spoiled'
        BY <2>1 DEF LifeInv, StopInv, Alive
    <2>3. Completed(q)'
        BY <2>2 DEF Completed
    <2> QED
        BY <1>8, <2>1, <2>3, OthersKeepDone DEF HandleUnlogged
<1>9. ASSUME NEW r \in Readers, ReadBegins(r) \/ ReadEnds(r) PROVE DoneInv'
    BY <1>9, QuietKeepsDone DEF ReadBegins, ReadEnds, gatewayVars
<1> QED
    BY <1>1, <1>2, <1>3, <1>4, <1>5, <1>6, <1>7, <1>8, <1>9 DEF LifeNext, Shutdown

(* A stop that is given its time costs no client its answer and leaves no  *)
(* row open, across any number of restarts, failures and crashes.          *)
THEOREM CleanRunsAreComplete == LifeSpec => []CleanRunsComplete
<1>1. LifeInv => CleanRunsComplete
    BY DEF LifeInv, DoneInv, Completed, CleanRunsComplete
<1> QED
    BY <1>1, LifeInvInit, LifeInvStep, PTL DEF LifeSpec

-----------------------------------------------------------------------------
(* Each server reports one error per process at most: what errCh has taken *)
(* in are the servers that have failed.                                    *)
Fell(s) == IF server[s] = "failed" THEN 1 ELSE 0

ErrorsInv ==
    /\ errs \in 0..2
    /\ Alive => errs = Fell("proxy") + Fell("admin")

(* The log tells of a request in statuses, and of its attempts in numbers. *)
RecordsTyped ==
    /\ gone \in [Requests -> BOOLEAN]
    /\ answer \in [Requests -> {<<>>} \cup {<<s>> : s \in Statuses}]
    /\ ledger \in [Requests -> {<<>>} \cup {<<s>> : s \in Statuses \cup {0}}]
    /\ logged \in [Requests -> 0..MaxAttempts]

ProcessTyped ==
    /\ db \in {"open", "closed"}
    /\ signalled \in BOOLEAN /\ graceOver \in BOOLEAN
    /\ starts \in 0..MaxStarts
    /\ reading \subseteq Readers /\ spoiled \subseteq Requests

TypesInv == StopInv /\ ErrorsInv /\ RecordsTyped /\ ProcessTyped

LEMMA TypesInit == LifeInit => TypesInv
<1> SUFFICES ASSUME LifeInit PROVE ErrorsInv /\ RecordsTyped /\ ProcessTyped
    BY StopInvInit DEF TypesInv
<1>1. 0 \in 0..MaxStarts /\ 0 \in 0..MaxAttempts /\ 0 \in 0..2
    BY BoundsAssumption
<1>2. ErrorsInv /\ ProcessTyped
    BY <1>1 DEF LifeInit, ErrorsInv, ProcessTyped, Alive
<1>3. RecordsTyped
    BY <1>1 DEF LifeInit, Init, RecordsTyped
<1> QED
    BY <1>2, <1>3

LEMMA ErrorsStep == TypesInv /\ [LifeNext]_lifeVars => ErrorsInv'
<1> SUFFICES ASSUME TypesInv, [LifeNext]_lifeVars PROVE ErrorsInv'
    OBVIOUS
<1>0. /\ StopInv /\ ErrorsInv
      /\ server \in [Servers -> {"new", "listening", "failed", "shut"}]
    BY DEF TypesInv, StopInv
<1>1. ASSUME errs' = errs, Alive' => Alive,
             Alive => \A s \in Servers : server'[s] = "failed" <=> server[s] = "failed"
      PROVE  ErrorsInv'
    BY <1>0, <1>1 DEF ErrorsInv, Fell, Servers
<1>2. CASE Start
    BY <1>2 DEF Start, ErrorsInv, Fell, Servers
<1>3. CASE BeginShutdown \/ AdminStopped \/ ProxyStopped \/ CloseStore
    <2>1. errs' = errs /\ Alive /\ \E s \in Servers : StopServer(s) \/ UNCHANGED server
        BY <1>3 DEF BeginShutdown, AdminStopped, ProxyStopped, CloseStore, Alive, Servers
    <2> QED
        BY <1>0, <1>1, <2>1 DEF StopServer
<1>4. CASE End
    BY <1>0, <1>4 DEF End, ErrorsInv, Alive
<1>5. ASSUME NEW s \in Servers, ListenFails(s) PROVE ErrorsInv'
    <2>1. /\ server[s] # "failed" /\ server' = [server EXCEPT ![s] = "failed"]
          /\ errs' = errs + 1 /\ Alive
        BY <1>5 DEF ListenFails
    <2>2. s = "proxy" \/ s = "admin"
        BY DEF Servers
    <2>3. /\ server'["proxy"] = IF s = "proxy" THEN "failed" ELSE server["proxy"]
          /\ server'["admin"] = IF s = "admin" THEN "failed" ELSE server["admin"]
        BY <1>0, <2>1 DEF Servers
    <2> QED
        BY <1>0, <2>1, <2>2, <2>3 DEF ErrorsInv, Fell
<1>6. ASSUME NEW s \in Servers, Listen(s) PROVE ErrorsInv'
    <2>1. /\ server[s] = "new" /\ server' = [server EXCEPT ![s] = "listening"]
          /\ errs' = errs /\ Alive
        BY <1>6 DEF Listen
    <2> QED
        BY <1>0, <1>1, <2>1
<1>7. CASE UNCHANGED <<main, server, errs>>
    BY <1>1, <1>7 DEF Alive
<1>8. CASE Signal \/ GraceOver \/ UNCHANGED lifeVars
    BY <1>7, <1>8 DEF Signal, GraceOver, lifeVars, appVars
<1>9. ASSUME NEW q \in Requests, Request(q) \/ Depart(q) \/ Handle(q) \/ HandleUnlogged(q)
      PROVE  ErrorsInv'
    BY <1>7, <1>9 DEF Request, Depart, Handle, HandleUnlogged, appVars
<1>10. ASSUME NEW r \in Readers, ReadBegins(r) \/ ReadEnds(r) PROVE ErrorsInv'
    BY <1>7, <1>10 DEF ReadBegins, ReadEnds, appVars
<1> QED
    BY <1>2, <1>3, <1>4, <1>5, <1>6, <1>8, <1>9, <1>10 DEF LifeNext, Shutdown, Exit, Crash

LEMMA ServeTyped ==
    ASSUME RecordsTyped, NEW q \in Requests, Serve(q), logged'[q] <= MaxAttempts
    PROVE  RecordsTyped'
<1> USE DEF RecordsTyped
<1>1. CASE OpenRow(q)
    BY <1>1 DEF OpenRow
<1>2. CASE LogAttempt(q)
    <2>1. logged[q] + 1 \in 0..MaxAttempts
        BY <1>2, BoundsAssumption DEF LogAttempt
    <2> QED
        BY <1>2, <2>1 DEF LogAttempt
<1>3. ASSUME NEW s \in Statuses, Answer(q, s) PROVE RecordsTyped'
    BY <1>3 DEF Answer
<1>4. ASSUME NEW s \in Statuses, Fail(q, s) PROVE RecordsTyped'
    BY <1>4 DEF Fail, CloseRow
<1>5. CASE Finish(q)
    <2>1. PICK s \in Statuses : answer[q] = <<s>>
        BY <1>5 DEF Finish
    <2>2. CloseRow(q, s) /\ UNCHANGED <<gone, answer, logged>>
        BY <1>5, <2>1 DEF Finish
    <2> QED
        BY <2>2 DEF CloseRow
<1> QED
    BY <1>1, <1>2, <1>3, <1>4, <1>5 DEF Serve, Conclude

LEMMA RecordsStep == TypesInv /\ [LifeNext]_lifeVars => RecordsTyped'
<1> SUFFICES ASSUME RecordsTyped, [LifeNext]_lifeVars PROVE RecordsTyped'
    BY DEF TypesInv
<1>1. CASE UNCHANGED <<gone, answer, ledger, logged>>
    BY <1>1 DEF RecordsTyped
<1>2. CASE Start \/ Signal \/ GraceOver \/ Shutdown \/ Crash \/ UNCHANGED lifeVars
    BY <1>1, <1>2 DEF Start, Signal, GraceOver, Shutdown, BeginShutdown, AdminStopped,
                      ProxyStopped, CloseStore, Exit, Crash, End, lifeVars, gatewayVars
<1>3. ASSUME NEW s \in Servers, Listen(s) \/ ListenFails(s) PROVE RecordsTyped'
    BY <1>1, <1>3 DEF Listen, ListenFails, gatewayVars
<1>4. ASSUME NEW r \in Readers, ReadBegins(r) \/ ReadEnds(r) PROVE RecordsTyped'
    BY <1>1, <1>4 DEF ReadBegins, ReadEnds, gatewayVars
<1>5. ASSUME NEW q \in Requests, Request(q) PROVE RecordsTyped'
    BY <1>1, <1>5 DEF Request, Accept
<1>6. ASSUME NEW q \in Requests, Depart(q) PROVE RecordsTyped'
    BY <1>6 DEF Depart, Leave, RecordsTyped
<1>7. ASSUME NEW q \in Requests, Handle(q) PROVE RecordsTyped'
    BY <1>7, ServeTyped DEF Handle
<1>8. ASSUME NEW q \in Requests, HandleUnlogged(q) PROVE RecordsTyped'
    BY <1>8 DEF HandleUnlogged, RecordsTyped
<1> QED
    BY <1>2, <1>3, <1>4, <1>5, <1>6, <1>7, <1>8 DEF LifeNext

LEMMA ProcessStep == TypesInv /\ [LifeNext]_lifeVars => ProcessTyped'
<1> SUFFICES ASSUME ProcessTyped, [LifeNext]_lifeVars PROVE ProcessTyped'
    BY DEF TypesInv
<1> USE DEF ProcessTyped
<1>1. CASE UNCHANGED <<db, signalled, graceOver, starts, reading, spoiled>>
    BY <1>1
<1>2. CASE Start
    <2>1. starts + 1 \in 0..MaxStarts
        BY <1>2, BoundsAssumption DEF Start
    <2> QED
        BY <1>2, <2>1 DEF Start
<1>3. CASE Signal \/ GraceOver
    BY <1>3 DEF Signal, GraceOver, Active
<1>4. CASE BeginShutdown \/ AdminStopped \/ ProxyStopped \/ CloseStore
    BY <1>4 DEF BeginShutdown, AdminStopped, ProxyStopped, CloseStore
<1>5. CASE Exit \/ Crash
    BY <1>5 DEF Exit, Crash, End, Active
<1>6. ASSUME NEW s \in Servers, Listen(s) \/ ListenFails(s) PROVE ProcessTyped'
    BY <1>1, <1>6 DEF Listen, ListenFails
<1>7. ASSUME NEW r \in Readers, ReadBegins(r) \/ ReadEnds(r) PROVE ProcessTyped'
    BY <1>7 DEF ReadBegins, ReadEnds, appVars
<1>8. ASSUME NEW q \in Requests, Request(q) \/ Depart(q) \/ Handle(q) \/ HandleUnlogged(q)
      PROVE  ProcessTyped'
    BY <1>8 DEF Request, Depart, Handle, HandleUnlogged, appVars
<1>9. CASE UNCHANGED lifeVars
    BY <1>1, <1>9 DEF lifeVars, appVars
<1> QED
    BY <1>2, <1>3, <1>4, <1>5, <1>6, <1>7, <1>8, <1>9 DEF LifeNext, Shutdown

(* errCh, of capacity 2, never blocks the goroutine that reports to it     *)
(* (app.go:67-77): each server reports once in a process, wherever Run and *)
(* Shutdown stand then.                                                    *)
THEOREM LifeTypeCorrect == LifeSpec => []LifeTypeOK
<1>1. TypesInv => LifeTypeOK
    BY DEF TypesInv, StopInv, ErrorsInv, RecordsTyped, ProcessTyped, LifeTypeOK
<1>2. TypesInv /\ [LifeNext]_lifeVars => TypesInv'
    BY StopInvStep, ErrorsStep, RecordsStep, ProcessStep DEF TypesInv
<1> QED
    BY <1>1, <1>2, TypesInit, PTL DEF LifeSpec
=============================================================================
