----------------------------- MODULE Lifecycle -----------------------------
(***************************************************************************)
(* Start, stop and crash of the program around the requests it serves:     *)
(* cmd/miniroute/main.go and App.Run and App.Shutdown of                   *)
(* internal/app/app.go.  What the handlers do is the gateway, which module *)
(* Proxy implements; here it is interrupted.                               *)
(*                                                                         *)
(* The tables are in a file and outlive the process.  What only memory     *)
(* holds (servers, handlers, signals) starts anew with each process; the   *)
(* request handlers of one that ends are gone, in phase "cut".             *)
(***************************************************************************)
EXTENDS Gateway

CONSTANTS
    Readers,        \* requests to the admin server
    MaxStarts,      \* bound on the starts of a behaviour
    MaxAttempts     \* bound on the attempts logged for a request

ASSUME BoundsAssumption == MaxStarts \in Nat /\ MaxAttempts \in Nat

VARIABLES
    main,       \* where main is: in Run's select, in Shutdown, or no process
    server,     \* of each http.Server
    db,         \* the store: "open" or "closed"
    signalled,  \* the context of signal.NotifyContext is done
    errs,       \* errors put into errCh so far, its capacity is 2
    graceOver,  \* Shutdown's 30 s have passed
    reading,    \* admin requests being handled
    starts,
    spoiled     \* history: requests in hand at a crash or at or after graceOver

appVars == <<main, server, db, signalled, errs, graceOver, starts>>
lifeVars == <<gatewayVars, appVars, reading, spoiled>>

Servers == {"proxy", "admin"}
Stopping == {"admin", "proxy", "close", "exit"}
Alive == main # "off"
Active == {q \in Requests : phase[q] = "active"}

LifeInit ==
    /\ Init
    /\ main = "off" /\ db = "closed" /\ starts = 0
    /\ server = [s \in Servers |-> "shut"]
    /\ signalled = FALSE /\ errs = 0 /\ graceOver = FALSE
    /\ reading = {} /\ spoiled = {}

-----------------------------------------------------------------------------
(* The process *)

(* main up to Run: the tables are opened as they were left. *)
Start ==
    /\ main = "off" /\ starts < MaxStarts
    /\ main' = "run" /\ db' = "open" /\ starts' = starts + 1
    /\ server' = [s \in Servers |-> "new"]
    /\ signalled' = FALSE /\ errs' = 0 /\ graceOver' = FALSE
    /\ UNCHANGED <<gatewayVars, reading, spoiled>>

(* ListenAndServe in its goroutine, at any time: after Shutdown it returns *)
(* ErrServerClosed and nothing happens.                                    *)
Listen(s) ==
    /\ Alive /\ server[s] = "new"
    /\ server' = [server EXCEPT ![s] = "listening"]
    /\ UNCHANGED <<gatewayVars, main, db, signalled, errs, graceOver, starts,
                   reading, spoiled>>

(* Mutant: the goroutine reports the error and tries again. *)
ListenFailsAgain(s) ==
    /\ Alive /\ server[s] \in {"new", "listening"}
    /\ server' = [server EXCEPT ![s] = "new"]
    /\ errs' = errs + 1
    /\ UNCHANGED <<gatewayVars, main, db, signalled, graceOver, starts, reading, spoiled>>

ListenFails(s) ==
    /\ Alive /\ server[s] \in {"new", "listening"}
    /\ server' = [server EXCEPT ![s] = "failed"]
    /\ errs' = errs + 1
    /\ UNCHANGED <<gatewayVars, main, db, signalled, graceOver, starts, reading, spoiled>>

(* SIGINT or SIGTERM; a second one changes nothing. *)
Signal ==
    /\ Alive /\ ~signalled
    /\ signalled' = TRUE
    /\ UNCHANGED <<gatewayVars, main, server, db, errs, graceOver, starts,
                   reading, spoiled>>

StopServer(s) ==
    server' = [server EXCEPT ![s] = IF @ = "failed" THEN @ ELSE "shut"]

(* Run's select is left and Shutdown closes the admin server's listener.   *)
BeginShutdown ==
    /\ main = "run" /\ (signalled \/ errs > 0)
    /\ main' = "admin"
    /\ StopServer("admin")
    /\ UNCHANGED <<gatewayVars, db, signalled, errs, graceOver, starts, reading, spoiled>>

(* Mutant: only the listeners are closed before the store is. *)
AdminStoppedProxyNotAwaited ==
    /\ main = "admin" /\ (reading = {} \/ graceOver)
    /\ main' = "close"
    /\ StopServer("proxy")
    /\ UNCHANGED <<gatewayVars, db, signalled, errs, graceOver, starts, reading, spoiled>>

(* Until the admin server is done the proxy takes new requests in. *)
AdminStopped ==
    /\ main = "admin" /\ (reading = {} \/ graceOver)
    /\ main' = "proxy"
    /\ StopServer("proxy")
    /\ UNCHANGED <<gatewayVars, db, signalled, errs, graceOver, starts, reading, spoiled>>

(* Mutant: Shutdown on a context without a deadline. *)
ProxyStoppedInTheEnd ==
    /\ main = "proxy" /\ Active = {}
    /\ main' = "close"
    /\ UNCHANGED <<gatewayVars, server, db, signalled, errs, graceOver, starts,
                   reading, spoiled>>

ProxyStopped ==
    /\ main = "proxy" /\ (Active = {} \/ graceOver)
    /\ main' = "close"
    /\ UNCHANGED <<gatewayVars, server, db, signalled, errs, graceOver, starts,
                   reading, spoiled>>

(* One context for both servers: the time the first takes is the second's. *)
GraceOver ==
    /\ main \in Stopping /\ ~graceOver
    /\ graceOver' = TRUE
    /\ spoiled' = spoiled \cup Active
    /\ UNCHANGED <<gatewayVars, main, server, db, signalled, errs, starts, reading>>

CloseStore ==
    /\ main = "close"
    /\ db' = "closed"
    /\ main' = "exit"
    /\ UNCHANGED <<gatewayVars, server, signalled, errs, graceOver, starts,
                   reading, spoiled>>

(* The process ends, and what still runs in it. *)
End ==
    /\ main' = "off" /\ db' = "closed"
    /\ server' = [s \in Servers |-> "shut"]
    /\ phase' = [q \in Requests |-> IF phase[q] = "active" THEN "cut" ELSE phase[q]]
    /\ reading' = {}
    /\ UNCHANGED <<gone, answer, ledger, logged, signalled, errs, graceOver, starts>>

Exit == main = "exit" /\ End /\ UNCHANGED spoiled

(* A kill, a panic outside the handlers, a power cut; sqlite's journal     *)
(* keeps every statement that was executed.                                *)
Crash == Alive /\ End /\ spoiled' = spoiled \cup Active

-----------------------------------------------------------------------------
(* What the servers are asked *)

Request(q) ==
    /\ server["proxy"] = "listening"
    /\ Accept(q)
    /\ spoiled' = IF graceOver THEN spoiled \cup {q} ELSE spoiled
    /\ UNCHANGED <<appVars, reading>>

Depart(q) == Alive /\ Leave(q) /\ UNCHANGED <<appVars, reading, spoiled>>

Handle(q) ==
    /\ Alive /\ db = "open"
    /\ Serve(q) /\ logged'[q] <= MaxAttempts
    /\ UNCHANGED <<appVars, reading, spoiled>>

(* On a closed store every statement fails, and the handler goes on. *)
HandleUnlogged(q) ==
    /\ Alive /\ db = "closed" /\ phase[q] = "active"
    /\ \/ /\ answer[q] = <<>>
          /\ \E s \in Statuses : answer' = [answer EXCEPT ![q] = <<s>>]
          /\ UNCHANGED phase
       \/ /\ answer[q] # <<>>
          /\ phase' = [phase EXCEPT ![q] = "over"]
          /\ UNCHANGED answer
    /\ UNCHANGED <<gone, ledger, logged, appVars, reading, spoiled>>

ReadBegins(r) ==
    /\ server["admin"] = "listening" /\ r \notin reading
    /\ reading' = reading \cup {r}
    /\ UNCHANGED <<gatewayVars, appVars, spoiled>>

ReadEnds(r) ==
    /\ r \in reading
    /\ reading' = reading \ {r}
    /\ UNCHANGED <<gatewayVars, appVars, spoiled>>

Shutdown == BeginShutdown \/ AdminStopped \/ ProxyStopped \/ CloseStore \/ Exit

LifeNext ==
    \/ Start \/ Signal \/ GraceOver \/ Shutdown \/ Crash
    \/ \E s \in Servers : Listen(s) \/ ListenFails(s)
    \/ \E q \in Requests : Request(q) \/ Depart(q) \/ Handle(q) \/ HandleUnlogged(q)
    \/ \E r \in Readers : ReadBegins(r) \/ ReadEnds(r)

(* main runs on and time passes.  No handler need ever end: WriteTimeout   *)
(* is 0, so nothing ends a write to a client that neither reads nor leaves *)
(* (app.go:52).                                                            *)
LifeSpec ==
    /\ LifeInit /\ [][LifeNext]_lifeVars
    /\ WF_lifeVars(Shutdown) /\ WF_lifeVars(GraceOver)

-----------------------------------------------------------------------------
(* errCh never blocks the goroutine that reports to it. *)
LifeTypeOK ==
    /\ phase \in [Requests -> {"new", "active", "over", "cut"}]
    /\ gone \in [Requests -> BOOLEAN]
    /\ \A q \in Requests :
        /\ answer[q] \in {<<>>} \cup {<<s>> : s \in Statuses}
        /\ ledger[q] \in {<<>>} \cup {<<s>> : s \in Statuses \cup {0}}
        /\ logged[q] \in 0..MaxAttempts
    /\ main \in {"off", "run"} \cup Stopping
    /\ server \in [Servers -> {"new", "listening", "failed", "shut"}]
    /\ db \in {"open", "closed"}
    /\ signalled \in BOOLEAN /\ graceOver \in BOOLEAN
    /\ errs \in 0..2
    /\ starts \in 0..MaxStarts
    /\ reading \subseteq Readers /\ spoiled \subseteq Requests

(* The store is closed under nobody's feet: as long as the grace period    *)
(* lasts, it is open while any handler of either server runs, whenever     *)
(* signal, failures, requests and listeners come (app.go:92-94).           *)
DbOutlivesHandlers ==
    Alive /\ db = "closed" /\ ~graceOver => Active = {} /\ reading = {}

(* A stop that is given its time costs no client its answer and leaves no  *)
(* row open: a request that was not there to be seen to its end was in     *)
(* hand at a crash or after the grace period, and one without a closed row *)
(* besides may have lost its client.  This holds across restarts, which    *)
(* close nothing that an earlier process left open (app.go:24).            *)
CleanRunsComplete ==
    \A q \in Requests \ spoiled :
        phase[q] \in {"over", "cut"} =>
            /\ phase[q] = "over" /\ answer[q] # <<>>
            /\ gone[q] \/ ledger[q] \in {<<>>, answer[q]}

(* A signal, or either server failing, ends the process, even if a stream  *)
(* or an admin request never does.                                         *)
StopHeeded == main = "run" /\ (signalled \/ errs > 0) ~> main = "off"
=============================================================================
