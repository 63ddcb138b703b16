---------------------------- MODULE PooledGateway ----------------------------
(***************************************************************************)
(* The gateway over the connection pool that its requests share            *)
(* (internal/database/postgres.go).  A call to Postgres borrows a          *)
(* connection and waits while there is none.  ProcessPayment holds the     *)
(* connection of its transaction while its token lookup waits for a second *)
(* one, so MaxConns requests can hold the whole pool and wait for each     *)
(* other, until one of their clients gives up and cancels its context.     *)
(***************************************************************************)
EXTENDS PaymentGateway, FiniteSets

CONSTANT MaxConns    \* config.MaxConns

ASSUME PoolAssumption == MaxConns \in Nat \ {0}

VARIABLE open        \* requests whose transaction holds a connection

poolVars == <<vars, open>>

Free == MaxConns - Cardinality(open)

PoolInit == Init /\ open = {}

-----------------------------------------------------------------------------
(* Pool.Begin.  An undecodable body does not get here. *)
Begin(r) ==
    /\ pc[r] = "ProcessPayment"
    /\ body[r] # "not_json"
    /\ r \notin open
    /\ Free > 0
    /\ open' = open \cup {r}
    /\ UNCHANGED vars

(* The body, the amount or Begin itself is in error: no connection is held. *)
FailsBeforeBegin(r) ==
    /\ r \notin open
    /\ body[r] # "ok" \/ Faults
    /\ ProcessPayment(r)
    /\ UNCHANGED <<payment, open>>

RollsBackNoError(r) == IF payment'[r] = "none" THEN open ELSE open \ {r}   \* mutant

(* The commit or the deferred Rollback returns the connection. *)
Returned(r) == open \ {r}

(* The lookup gets its second connection, and the transaction ends. *)
FinishTransaction(r) ==
    /\ r \in open
    /\ Free > 0
    /\ ProcessPayment(r)
    /\ open' = Returned(r)

(* Calls that borrow one connection and return it. *)
OneConnection(r) ==
    /\ Free > 0
    /\ \/ GetRecord(r)
       \/ CreatePendingRecord(r)
       \/ UpdateStatus(r)
       \/ CompleteRecord(r)
    /\ UNCHANGED open

(* Redis only. *)
NoConnection(r) ==
    /\ AcquireLock(r) \/ ReleaseLock(r)
    /\ UNCHANGED open

Proceed(r) ==
    \/ Begin(r)
    \/ FailsBeforeBegin(r)
    \/ FinishTransaction(r)
    \/ OneConnection(r)
    \/ NoConnection(r)

GiveUpUnrecorded(r) ==                                                 \* mutant
    /\ pc[r] \in {"CreatePendingRecord", "ProcessPayment", "UpdateStatus"}
    /\ Write(r, Error(500)) /\ Goto(r, "ReleaseLock")
    /\ UNCHANGED <<key, body, recordVars, lock, payment, eventVars, crashes>>
    /\ open' = Returned(r)

NobodyWaitsInHandler(r) ==                                             \* mutant
    /\ Free = 0
    /\ pc[r] = "GetRecord" /\ Write(r, Error(500)) /\ Goto(r, "done")
    /\ UNCHANGED <<key, body, recordVars, lock, payment, eventVars, crashes, open>>

(* The client, or the proxy in front of the gateway, closes the connection,  *)
(* waiting for the pool or not: the context of the request is cancelled and  *)
(* the call that was about to be sent returns an error.  A call that was     *)
(* already sent may have taken effect: that is a failing call, as Faults     *)
(* allows it.  CompleteRecord and ReleaseLock have a context of their own.   *)
GiveUp(r) ==
    /\ \/ pc[r] = "GetRecord" /\ Write(r, Error(500)) /\ Goto(r, "done")
       \/ pc[r] = "AcquireLock" /\ Write(r, Error(409)) /\ Goto(r, "done")
       \/ pc[r] = "CreatePendingRecord" /\ Write(r, Error(500)) /\ Goto(r, "ReleaseLock")
       \/ pc[r] = "ProcessPayment" /\ body[r] # "not_json" /\ HandlerFails(r, 500)
       \/ pc[r] = "UpdateStatus" /\ HandlerFails(r, 500)
    /\ UNCHANGED <<key, body, recordVars, lock, payment, eventVars, crashes>>
    /\ open' = Returned(r)

PoolNext ==
    \/ \E r \in Requests : Proceed(r) \/ GiveUp(r)
    \/ /\ \/ \E r \in Requests : Refuse(r) \/ Receive(r) \/ Publish(r)
          \/ \E k \in Keys : LockExpires(k)
       /\ UNCHANGED open
    \/ Crash /\ open' = {}

PoolSpec == PoolInit /\ [][PoolNext]_poolVars

(* A request goes on or gives up: the pool serves its waiters in order, and  *)
(* no client waits for ever.                                                 *)
PoolFairness ==
    \A r \in Requests :
        WF_poolVars(Proceed(r) \/ GiveUp(r)) /\ WF_poolVars(Publish(r) /\ UNCHANGED open)

PoolFairSpec == PoolSpec /\ PoolFairness

-----------------------------------------------------------------------------
(* No path leaks a connection: one is held only between Begin and the end of *)
(* the transaction, by a request that the handler is working on, and there   *)
(* are never more than the pool has (payment_service.go:46-69).              *)
ConnectionsReturned ==
    /\ open \subseteq {r \in Requests : pc[r] = "ProcessPayment"}
    /\ Cardinality(open) <= MaxConns

(* Only requests under different keys can wait for each other: the retries   *)
(* of one payment hold one connection between them, although the Redis lock   *)
(* can let two of them pass, so that a full pool takes MaxConns keys          *)
(* (idempotency.go:71-83, payment_service.go:46-53).                          *)
RetriesShareNoPool == Free = 0 => Cardinality({key[r] : r \in open}) = MaxConns

(* The pool blocks no key for good: although MaxConns requests may wait for  *)
(* each other in front of the lookup, and although CompleteRecord waits for  *)
(* the pool without a deadline, a claimed key is completed (idempotency.go:  *)
(* 79-103, payment_service.go:53).  The formula is InProgressResolves.       *)

(* A charge is announced to the other services or its caller was told of an  *)
(* error: when the pool is full, the status UPDATE may fail on a committed   *)
(* row, but then no 201 was answered (payment_service.go:81-107).            *)
ChargeIsAnnounced ==
    \A r \in Requests :
        payment[r] # "none" ~> r \in published \/ (Delivered(r) /\ response[r].code = 500)

(* Waiting for the pool shows the outside nothing new: every behaviour is    *)
(* one of the gateway whose database calls may fail.                         *)
Gateway == INSTANCE PaymentGateway WITH Faults <- TRUE
ImplementsGateway == Gateway!Spec
=============================================================================
