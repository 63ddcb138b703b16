--------------------------- MODULE PaymentGateway ---------------------------
(***************************************************************************)
(* POST /v1/payments as services/gateway serves it: the idempotency        *)
(* middleware around the payment handler, over three stores that outlive   *)
(* the gateway process: the table idempotency_keys, the table payments and *)
(* the Redis lock.  Every request is a goroutine with a program counter;   *)
(* one step is one call to a store, so any two requests interleave between *)
(* their calls.                                                            *)
(*                                                                         *)
(* APIAuth resolves every accepted request to the same merchant, so a key  *)
(* stands for the pair (merchant, key) of the code.  A payment's id is     *)
(* fresh (uid.Generate): the request that inserts the row stands for it.   *)
(***************************************************************************)
EXTENDS Naturals

CONSTANTS
    Requests,    \* HTTP requests, a client's retries included
    Keys,        \* Idempotency-Key header values
    None,        \* no key, no owner, no payment
    MaxCrashes,  \* bound: how often the gateway process may die
    Faults       \* may a call to Postgres, Redis or Kafka fail?

ASSUME NoneAssumption == None \notin Requests \cup Keys
ASSUME BoundAssumption == MaxCrashes \in Nat
ASSUME FaultsAssumption == Faults \in BOOLEAN

VARIABLES
    pc,          \* request -> the call it makes next
    key,         \* request -> its Idempotency-Key
    body,        \* request -> what the handler will find in its body
    response,    \* request -> what was written to the ResponseWriter
    record,      \* key -> idempotency_keys.status, "absent" when no row
    saved,       \* key -> idempotency_keys.response_code and response_body
    lock,        \* key -> the request that set the Redis lock (ghost: the
                 \*        stored value is always "locked")
    payment,     \* request -> status of the payments row it inserted
    publishing,  \* payments whose publish goroutine has not finished
    published,   \* payments whose event reached payment_events
    crashes

requestVars == <<pc, key, body, response>>
recordVars == <<record, saved>>
eventVars == <<publishing, published>>
vars == <<requestVars, recordVars, lock, payment, eventVars, crashes>>

-----------------------------------------------------------------------------
(* Responses.  http.Error writes plain text, the handler's success is JSON. *)

Bodies == {"none", "text", "payment", "raw"}
Codes == {0, 201, 400, 401, 409, 500}
Response == [code : Codes, body : Bodies, payment : Requests \cup {None},
             replayed : BOOLEAN]

NoAnswer == [code |-> 0, body |-> "none", payment |-> None, replayed |-> FALSE]
Error(code) ==
    [code |-> code, body |-> "text", payment |-> None, replayed |-> FALSE]
Created(r) ==
    [code |-> 201, body |-> "payment", payment |-> r, replayed |-> FALSE]

RecordedAlwaysRaw(resp) == [resp EXCEPT !.body = "raw"]                \* mutant

(* What CompleteRecord stores: JSON as it is, any other body as {"raw": ..}. *)
Recorded(resp) == IF resp.body = "text" THEN [resp EXCEPT !.body = "raw"] ELSE resp

(* A replay repeats the stored code and body under X-Idempotent-Replayed. *)
Replayed(resp) == [resp EXCEPT !.replayed = TRUE]

-----------------------------------------------------------------------------
Labels == {"idle", "GetRecord", "AcquireLock", "CreatePendingRecord",
           "ProcessPayment", "UpdateStatus", "CompleteRecord", "ReleaseLock",
           "done", "dead"}

Live(r) == pc[r] \notin {"idle", "done", "dead"}
Delivered(r) == pc[r] = "done"
Charged(k) == \E r \in Requests : payment[r] # "none" /\ key[r] = k

Goto(r, label) == pc' = [pc EXCEPT ![r] = label]
Write(r, resp) == response' = [response EXCEPT ![r] = resp]

TypeOK ==
    /\ pc \in [Requests -> Labels]
    /\ key \in [Requests -> Keys \cup {None}]
    /\ body \in [Requests -> {"none", "ok", "not_json", "rejected"}]
    /\ response \in [Requests -> Response]
    /\ record \in [Keys -> {"absent", "in_progress", "completed"}]
    /\ saved \in [Keys -> Response]
    /\ lock \in [Keys -> Requests \cup {None}]
    /\ payment \in [Requests -> {"none", "created", "failed"}]
    /\ publishing \subseteq Requests
    /\ published \subseteq Requests
    /\ crashes \in 0..MaxCrashes

Init ==
    /\ pc = [r \in Requests |-> "idle"]
    /\ key = [r \in Requests |-> None]
    /\ body = [r \in Requests |-> "none"]
    /\ response = [r \in Requests |-> NoAnswer]
    /\ record = [k \in Keys |-> "absent"]
    /\ saved = [k \in Keys |-> NoAnswer]
    /\ lock = [k \in Keys |-> None]
    /\ payment = [r \in Requests |-> "none"]
    /\ publishing = {}
    /\ published = {}
    /\ crashes = 0

-----------------------------------------------------------------------------
(* APIAuth and the header checks refuse a request before any store is read. *)
Refuse(r) ==
    /\ pc[r] = "idle"
    /\ \E code \in {400, 401} : Write(r, Error(code))
    /\ Goto(r, "done")
    /\ UNCHANGED <<key, body, recordVars, lock, payment, eventVars, crashes>>

(* "rejected": amount <= 0 or an unknown token, both errors of the service. *)
Receive(r) ==
    /\ pc[r] = "idle"
    /\ \E k \in Keys : key' = [key EXCEPT ![r] = k]
    /\ \E b \in {"ok", "not_json", "rejected"} : body' = [body EXCEPT ![r] = b]
    /\ Goto(r, "GetRecord")
    /\ UNCHANGED <<response, recordVars, lock, payment, eventVars, crashes>>

(* 1. The DB check, before the lock is taken. *)
GetRecord(r) ==
    /\ pc[r] = "GetRecord"
    /\ \/ /\ record[key[r]] = "absent"
          /\ Goto(r, "AcquireLock")
          /\ UNCHANGED response
       \/ /\ record[key[r]] = "completed"
          /\ Write(r, Replayed(saved[key[r]]))
          /\ Goto(r, "done")
       \/ /\ record[key[r]] = "in_progress"
          /\ Write(r, Error(409))
          /\ Goto(r, "done")
       \/ /\ Faults
          /\ Write(r, Error(500))
          /\ Goto(r, "done")
    /\ UNCHANGED <<key, body, recordVars, lock, payment, eventVars, crashes>>

(* 2. SETNX with a 30 s expiry.  When the reply is lost the key may be set,  *)
(* also when the Redis client then sends it again and finds its own lock;    *)
(* the deferred ReleaseLock is not registered on that path.                  *)
AcquireLock(r) ==
    /\ pc[r] = "AcquireLock"
    /\ \/ /\ lock[key[r]] = None
          /\ lock' = [lock EXCEPT ![key[r]] = r]
          /\ Goto(r, "CreatePendingRecord")
          /\ UNCHANGED response
       \/ /\ Faults \/ lock[key[r]] # None
          /\ Write(r, Error(409))
          /\ Goto(r, "done")
          /\ UNCHANGED lock
       \/ /\ Faults
          /\ lock[key[r]] = None
          /\ lock' = [lock EXCEPT ![key[r]] = r]
          /\ Write(r, Error(409))
          /\ Goto(r, "done")
    /\ UNCHANGED <<key, body, recordVars, payment, eventVars, crashes>>

UpsertsRecord(k) == TRUE                                               \* mutant

(* A plain INSERT: the primary key (merchant_id, key) refuses a second row. *)
InsertsRecord(k) == record[k] = "absent"

(* 3. An error whose row was inserted all the same leaves it in progress. *)
CreatePendingRecord(r) ==
    /\ pc[r] = "CreatePendingRecord"
    /\ \/ /\ InsertsRecord(key[r])
          /\ record' = [record EXCEPT ![key[r]] = "in_progress"]
          /\ \/ /\ Goto(r, "ProcessPayment")
                /\ UNCHANGED response
             \/ /\ Faults
                /\ Write(r, Error(500))
                /\ Goto(r, "ReleaseLock")
       \/ /\ Faults \/ ~InsertsRecord(key[r])
          /\ Write(r, Error(500))
          /\ Goto(r, "ReleaseLock")
          /\ UNCHANGED record
    /\ UNCHANGED <<key, body, saved, lock, payment, eventVars, crashes>>

ErrorSkipsRecord(r, code) ==                                           \* mutant
    Write(r, Error(code)) /\ Goto(r, "ReleaseLock")

(* An error of the handler is written, and completes the record like a 201. *)
HandlerFails(r, code) == Write(r, Error(code)) /\ Goto(r, "CompleteRecord")

(* 4a. The handler up to the commit of the payments row.  Every error rolls  *)
(* back, except a commit whose acknowledgement is lost.                      *)
ProcessPayment(r) ==
    /\ pc[r] = "ProcessPayment"
    /\ \/ /\ body[r] = "ok"
          /\ ~Charged(key[r])                       \* uq_idempotency
          /\ payment' = [payment EXCEPT ![r] = "created"]
          /\ \/ Goto(r, "UpdateStatus") /\ UNCHANGED response
             \/ Faults /\ HandlerFails(r, 500)
       \/ /\ body[r] = "not_json"
          /\ HandlerFails(r, 400)
          /\ UNCHANGED payment
       \/ /\ body[r] # "not_json"
          /\ Faults \/ body[r] = "rejected" \/ Charged(key[r])
          /\ HandlerFails(r, 500)
          /\ UNCHANGED payment
    /\ UNCHANGED <<key, body, recordVars, lock, eventVars, crashes>>

StatusOutsideEnum == "succeeded"                                       \* mutant

BankApproves == TRUE                                \* simulateAuthorization
NewStatus == IF BankApproves THEN "created" ELSE "failed"

AnnounceInOneSlot(r) == publishing' = {r}                              \* mutant
Announce(r) == publishing' = publishing \cup {r}    \* go func() { Publish }

AnnounceBeforeUpdate(r) ==                                             \* mutant
    /\ pc[r] = "UpdateStatus"
    /\ Announce(r)
    /\ \/ /\ payment' = [payment EXCEPT ![r] = NewStatus]
          /\ Write(r, Created(r))
          /\ Goto(r, "CompleteRecord")
       \/ /\ Faults
          /\ HandlerFails(r, 500)
          /\ UNCHANGED payment
    /\ UNCHANGED <<key, body, recordVars, lock, published, crashes>>

(* 4b. Authorization, the status UPDATE and, if it returns, the goroutine    *)
(* that publishes the event and the 201.  A failed UPDATE answers 500 over a *)
(* payments row that stays, and publishes nothing.                           *)
UpdateStatus(r) ==
    /\ pc[r] = "UpdateStatus"
    /\ \/ /\ payment' = [payment EXCEPT ![r] = NewStatus]
          /\ Announce(r)
          /\ Write(r, Created(r))
          /\ Goto(r, "CompleteRecord")
       \/ /\ Faults
          /\ HandlerFails(r, 500)
          /\ UNCHANGED <<payment, publishing>>
    /\ UNCHANGED <<key, body, recordVars, lock, published, crashes>>

(* 5. An unconditional UPDATE whose error the middleware drops. *)
CompleteRecord(r) ==
    /\ pc[r] = "CompleteRecord"
    /\ \/ /\ record' = [record EXCEPT ![key[r]] = "completed"]
          /\ saved' = [saved EXCEPT ![key[r]] = Recorded(response[r])]
       \/ /\ Faults
          /\ UNCHANGED recordVars
    /\ Goto(r, "ReleaseLock")
    /\ UNCHANGED <<key, body, response, lock, payment, eventVars, crashes>>

(* The deferred DEL, whoever holds the lock by now; then the server flushes *)
(* the response.  A DEL that the client sends again may delete the lock of  *)
(* the next holder, which is the same as LockExpires for that one.          *)
ReleaseLock(r) ==
    /\ pc[r] = "ReleaseLock"
    /\ \/ lock' = [lock EXCEPT ![key[r]] = None]
       \/ Faults /\ UNCHANGED lock
    /\ Goto(r, "done")
    /\ UNCHANGED <<key, body, response, recordVars, payment, eventVars, crashes>>

(* The goroutine's WriteMessages; an error is only printed. *)
Publish(r) ==
    /\ r \in publishing
    /\ publishing' = publishing \ {r}
    /\ \/ published' = published \cup {r}
       \/ Faults /\ UNCHANGED published
    /\ UNCHANGED <<requestVars, recordVars, lock, payment, crashes>>

(* The TTL knows nothing of the request: no handler has a shorter deadline. *)
LockExpires(k) ==
    /\ lock[k] # None
    /\ lock' = [lock EXCEPT ![k] = None]
    /\ UNCHANGED <<requestVars, recordVars, payment, eventVars, crashes>>

(* The process dies: its requests and publish goroutines go with it, a       *)
(* response that was not flushed is never seen, the stores keep their rows.  *)
Crash ==
    /\ crashes < MaxCrashes
    /\ crashes' = crashes + 1
    /\ pc' = [r \in Requests |-> IF Live(r) THEN "dead" ELSE pc[r]]
    /\ response' = [r \in Requests |-> IF Live(r) THEN NoAnswer ELSE response[r]]
    /\ publishing' = {}
    /\ UNCHANGED <<key, body, recordVars, lock, payment, published>>

-----------------------------------------------------------------------------
Serve(r) ==
    \/ GetRecord(r)
    \/ AcquireLock(r)
    \/ CreatePendingRecord(r)
    \/ ProcessPayment(r)
    \/ UpdateStatus(r)
    \/ CompleteRecord(r)
    \/ ReleaseLock(r)

Next ==
    \/ \E r \in Requests : Refuse(r) \/ Receive(r) \/ Serve(r) \/ Publish(r)
    \/ \E k \in Keys : LockExpires(k)
    \/ Crash

Spec == Init /\ [][Next]_vars

(* A goroutine that can take its next step eventually does. *)
Fairness == \A r \in Requests : WF_vars(Serve(r)) /\ WF_vars(Publish(r))

FairSpec == Spec /\ Fairness

-----------------------------------------------------------------------------
(***************************************************************************)
(* Properties                                                              *)
(***************************************************************************)
InHandler(r) == pc[r] \in {"ProcessPayment", "UpdateStatus", "CompleteRecord"}

(* However requests under one key interleave, and although the Redis lock can *)
(* be held by two of them, at most one is inside the payment handler and at   *)
(* most one payments row is ever written.  The third part says that the       *)
(* idempotency record alone achieves it: a request in front of the INSERT of  *)
(* payment_service.go:58 never finds a row for its key, so uq_idempotency     *)
(* never has to save the day (middleware/idempotency.go:50-93).               *)
HandlerExclusive ==
    \A q, r \in Requests :
        InHandler(q) /\ InHandler(r) /\ key[q] = key[r] => q = r

OnePaymentPerKey ==
    \A q, r \in Requests :
        payment[q] # "none" /\ payment[r] # "none" /\ key[q] = key[r] => q = r

ConstraintUnused == \A r \in Requests : pc[r] = "ProcessPayment" => ~Charged(key[r])

SingleExecution == HandlerExclusive /\ OnePaymentPerKey /\ ConstraintUnused

(* Every request that is told of a payment, first or replayed, is told of the *)
(* one payment its key has, and every replay under a key is the same answer,  *)
(* which is the first requester's own when that one was a 201                 *)
(* (idempotency.go:57-63 and 95-103).                                         *)
SameAnswer ==
    \A q, r \in Requests :
        Delivered(q) /\ Delivered(r) /\ key[q] = key[r] =>
            /\ response[q].code = 201 =>
                 /\ payment[response[q].payment] = "created"
                 /\ key[response[q].payment] = key[q]
            /\ response[q].replayed /\ response[r].replayed
                 => response[q] = response[r]
            /\ response[q] = Created(q) /\ response[r].replayed
                 => response[r] = Replayed(response[q])

(* An event that reached the topic is never contradicted by the answer: the  *)
(* request that published it was answered 201 for that payment or died, and  *)
(* its payments row was committed before (payment_service.go:67-107).        *)
EventMatchesAnswer ==
    \A r \in published :
        /\ payment[r] = "created"
        /\ pc[r] = "done" => response[r] = Created(r)

(* A record only moves forward, absent to in_progress to completed, and a    *)
(* stored response is never overwritten, although CompleteRecord is an       *)
(* UPDATE without a status condition (idempotency_service.go:88-93).         *)
RecordsAdvance ==
    [][\A k \in Keys :
        /\ record'[k] = "absent" => record[k] = "absent"
        /\ record[k] = "completed" =>
             record'[k] = "completed" /\ saved'[k] = saved[k]]_vars

(* Without faults a record in progress is completed, so that a retry of the  *)
(* key eventually gets the answer instead of 409 (idempotency.go:64-68).     *)
InProgressResolves ==
    \A k \in Keys : record[k] = "in_progress" ~> record[k] = "completed"


(***************************************************************************)
(* A claim of the documents that the code does not keep.                   *)
(***************************************************************************)
(* "If a step fails ..., compensating transactions are fired": an error      *)
(* answer leaves no payment behind.  The 500 of a lost commit or of a failed *)
(* status UPDATE leaves the row, and is stored as the answer of the key.     *)
ErrorMeansNoCharge ==
    \A r \in Requests : Delivered(r) /\ response[r].code = 500 => payment[r] = "none"

-----------------------------------------------------------------------------
(* Seen through the API: a key is claimed, charged at most once, answered.   *)
Charges(k) == {r \in Requests : payment[r] # "none" /\ key[r] = k}
AnyOf(S) == IF S = {} THEN None ELSE CHOOSE r \in S : TRUE
ChargedTo == [k \in Keys |-> AnyOf(Charges(k))]
KeyState ==
    [k \in Keys |-> CASE record[k] = "absent" -> "fresh"
                      [] record[k] = "in_progress" -> "claimed"
                      [] record[k] = "completed" -> "finished"]
ToldOf == [k \in Keys |-> saved[k].payment]

Api == INSTANCE IdempotentApi WITH
    Payments <- Requests, state <- KeyState, charged <- ChargedTo, told <- ToldOf

(* The gateway implements the idempotent API: under a key at most one charge, *)
(* only between the claim and the answer, and an answer that is final and     *)
(* names no payment but that charge.                                          *)
ImplementsApi == Api!Spec
=============================================================================
