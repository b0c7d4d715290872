------------------------------ MODULE Gateway ------------------------------
(***************************************************************************)
(* What the proxy promises each client, without saying how: a request that *)
(* is taken in gets exactly one answer, and the request log tells of it as *)
(* long as the client stays.  Its row is opened before an endpoint         *)
(* answers, attempts are logged under it, and it is closed on return with  *)
(* the status the client saw.  Nothing is logged for a client that left.   *)
(***************************************************************************)
EXTENDS Naturals, Sequences

CONSTANTS Requests, Statuses

ASSUME StatusesAssumption == Statuses \subseteq Nat \ {0}

VARIABLES
    phase,      \* "new", "active" or "over"
    gone,       \* the client left while its request was active
    answer,     \* <<>> or <<the status the client got>>
    ledger,     \* <<>> no row, <<0>> an open row, <<s>> one closed with s
    logged      \* attempts logged

gatewayVars == <<phase, gone, answer, ledger, logged>>

Init ==
    /\ phase = [q \in Requests |-> "new"]
    /\ gone = [q \in Requests |-> FALSE]
    /\ answer = [q \in Requests |-> <<>>]
    /\ ledger = [q \in Requests |-> <<>>]
    /\ logged = [q \in Requests |-> 0]

Accept(q) ==
    /\ phase[q] = "new"
    /\ phase' = [phase EXCEPT ![q] = "active"]
    /\ UNCHANGED <<gone, answer, ledger, logged>>

Leave(q) ==
    /\ phase[q] = "active" /\ ~gone[q]
    /\ gone' = [gone EXCEPT ![q] = TRUE]
    /\ UNCHANGED <<phase, answer, ledger, logged>>

OpenRow(q) ==
    /\ phase[q] = "active" /\ ~gone[q] /\ answer[q] = <<>> /\ ledger[q] = <<>>
    /\ ledger' = [ledger EXCEPT ![q] = <<0>>]
    /\ UNCHANGED <<phase, gone, answer, logged>>

(* An attempt has its row: the foreign key of table attempts. *)
LogAttempt(q) ==
    /\ phase[q] = "active" /\ ~gone[q] /\ ledger[q] = <<0>>
    /\ logged' = [logged EXCEPT ![q] = @ + 1]
    /\ UNCHANGED <<phase, gone, answer, ledger>>

(* An endpoint's answer. *)
Answer(q, s) ==
    /\ phase[q] = "active" /\ answer[q] = <<>>
    /\ ledger[q] = <<0>> \/ gone[q]
    /\ answer' = [answer EXCEPT ![q] = <<s>>]
    /\ UNCHANGED <<phase, gone, ledger, logged>>

(* Mutant: a row may be left open under a client that stays. *)
CloseRowOrNot(q, s) ==
    ledger' = ledger \/ ledger' = [ledger EXCEPT ![q] = <<s>>]

CloseRow(q, s) ==
    ledger' = IF gone[q] \/ ledger[q] = <<>> THEN ledger
              ELSE [ledger EXCEPT ![q] = <<s>>]

Finish(q) ==
    /\ phase[q] = "active" /\ answer[q] # <<>>
    /\ phase' = [phase EXCEPT ![q] = "over"]
    /\ CloseRow(q, answer[q][1])
    /\ UNCHANGED <<gone, answer, logged>>

(* The proxy answers itself: no endpoint delivered an answer. *)
Fail(q, s) ==
    /\ phase[q] = "active" /\ answer[q] = <<>>
    /\ answer' = [answer EXCEPT ![q] = <<s>>]
    /\ phase' = [phase EXCEPT ![q] = "over"]
    /\ CloseRow(q, s)
    /\ UNCHANGED <<gone, logged>>

(* What every request comes to, and what may happen on the way. *)
Conclude(q) == Finish(q) \/ \E s \in Statuses : Answer(q, s) \/ Fail(q, s)

Serve(q) == OpenRow(q) \/ LogAttempt(q) \/ Conclude(q)

Next == \E q \in Requests : Accept(q) \/ Leave(q) \/ Serve(q)

Spec ==
    /\ Init /\ [][Next]_gatewayVars
    /\ \A q \in Requests : WF_gatewayVars(Conclude(q))
=============================================================================
