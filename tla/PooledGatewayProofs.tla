------------------------ MODULE PooledGatewayProofs ------------------------
(***************************************************************************)
(* Proofs about PooledGateway, for any requests, keys, crashes, faults and *)
(* size of the pool.                                                       *)
(***************************************************************************)
EXTENDS PooledGateway, PaymentGatewayProofs, FiniteSetTheorems

-----------------------------------------------------------------------------
(***************************************************************************)
(* The pool only ever makes calls of the gateway fail.                     *)
(***************************************************************************)
(* A step under the pool is one of the gateway, or a request gives up. *)
LEMMA StepOrGiveUp ==
    ASSUME [PoolNext]_poolVars PROVE [Next]_vars \/ \E r \in Requests : GiveUp(r)
  <1>1. ASSUME NEW r \in Requests, Proceed(r) PROVE Next \/ UNCHANGED vars
    BY <1>1 DEF Proceed, Begin, FailsBeforeBegin, FinishTransaction, OneConnection,
                NoConnection, Next, Serve
  <1> QED BY <1>1 DEF PoolNext, poolVars, Next

LEMMA GivingUpIsAFault == \A r \in Requests : GiveUp(r) => Gateway!Next
  <1>1. TAKE r \in Requests
  <1>2. HAVE GiveUp(r)
  <1> USE <1>2 DEF GiveUp, Goto, Write, HandlerFails, Error,
          Gateway!Goto, Gateway!Write, Gateway!HandlerFails, Gateway!Error,
          requestVars, recordVars, eventVars,
          Gateway!requestVars, Gateway!recordVars, Gateway!eventVars
  <1>3. CASE pc[r] = "GetRecord"
    <2>1. Gateway!GetRecord(r)
      BY <1>3 DEF Gateway!GetRecord
    <2> QED BY <2>1 DEF Gateway!Next, Gateway!Serve
  <1>4. CASE pc[r] = "CreatePendingRecord"
    <2>1. Gateway!CreatePendingRecord(r)
      BY <1>4 DEF Gateway!CreatePendingRecord
    <2> QED BY <2>1 DEF Gateway!Next, Gateway!Serve
  <1>5. CASE pc[r] = "ProcessPayment"
    <2>1. Gateway!ProcessPayment(r)
      BY <1>5 DEF Gateway!ProcessPayment
    <2> QED BY <2>1 DEF Gateway!Next, Gateway!Serve
  <1>6. CASE pc[r] = "UpdateStatus"
    <2>1. Gateway!UpdateStatus(r)
      BY <1>6 DEF Gateway!UpdateStatus
    <2> QED BY <2>1 DEF Gateway!Next, Gateway!Serve
  <1>7. CASE pc[r] = "AcquireLock"
    <2>1. Gateway!AcquireLock(r)
      BY <1>7 DEF Gateway!AcquireLock
    <2> QED BY <2>1 DEF Gateway!Next, Gateway!Serve
  <1> QED BY <1>3, <1>4, <1>5, <1>6, <1>7

(* A step of the gateway without faults is one with faults. *)
LEMMA FaultsOnlyAdd == Next => Gateway!Next
  <1> SUFFICES ASSUME Next PROVE Gateway!Next
    OBVIOUS
  <1> USE DEF Goto, Write, Error, Gateway!Goto, Gateway!Write, Gateway!Error,
          requestVars, recordVars, eventVars,
          Gateway!requestVars, Gateway!recordVars, Gateway!eventVars
  <1>1. ASSUME NEW r \in Requests, Refuse(r) \/ Receive(r) PROVE Gateway!Next
    <2>1. Gateway!Refuse(r) \/ Gateway!Receive(r)
      BY <1>1 DEF Refuse, Receive, Gateway!Refuse, Gateway!Receive
    <2> QED BY <2>1 DEF Gateway!Next
  <1>2. ASSUME NEW r \in Requests, GetRecord(r) PROVE Gateway!Next
    <2>1. Gateway!GetRecord(r)
      BY <1>2 DEF GetRecord, Gateway!GetRecord, Replayed, Gateway!Replayed
    <2> QED BY <2>1 DEF Gateway!Next, Gateway!Serve
  <1>3. ASSUME NEW r \in Requests, AcquireLock(r) PROVE Gateway!Next
    <2>1. Gateway!AcquireLock(r)
      BY <1>3 DEF AcquireLock, Gateway!AcquireLock
    <2> QED BY <2>1 DEF Gateway!Next, Gateway!Serve
  <1>4. ASSUME NEW r \in Requests, CreatePendingRecord(r) PROVE Gateway!Next
    <2>1. Gateway!CreatePendingRecord(r)
      BY <1>4 DEF CreatePendingRecord, Gateway!CreatePendingRecord,
                  InsertsRecord, Gateway!InsertsRecord
    <2> QED BY <2>1 DEF Gateway!Next, Gateway!Serve
  <1>5. ASSUME NEW r \in Requests, ProcessPayment(r) PROVE Gateway!Next
    <2>1. Gateway!ProcessPayment(r)
      BY <1>5 DEF ProcessPayment, Gateway!ProcessPayment, Charged, Gateway!Charged,
                  HandlerFails, Gateway!HandlerFails
    <2> QED BY <2>1 DEF Gateway!Next, Gateway!Serve
  <1>6. ASSUME NEW r \in Requests, UpdateStatus(r) PROVE Gateway!Next
    <2>1. Gateway!UpdateStatus(r)
      BY <1>6 DEF UpdateStatus, Gateway!UpdateStatus, HandlerFails, Gateway!HandlerFails,
                  NewStatus, Gateway!NewStatus, BankApproves, Gateway!BankApproves,
                  Announce, Gateway!Announce, Created, Gateway!Created
    <2> QED BY <2>1 DEF Gateway!Next, Gateway!Serve
  <1>7. ASSUME NEW r \in Requests, CompleteRecord(r) PROVE Gateway!Next
    <2>1. Gateway!CompleteRecord(r)
      BY <1>7 DEF CompleteRecord, Gateway!CompleteRecord, Recorded, Gateway!Recorded
    <2> QED BY <2>1 DEF Gateway!Next, Gateway!Serve
  <1>8. ASSUME NEW r \in Requests, ReleaseLock(r) \/ Publish(r) PROVE Gateway!Next
    <2>1. Gateway!ReleaseLock(r) \/ Gateway!Publish(r)
      BY <1>8 DEF ReleaseLock, Publish, Gateway!ReleaseLock, Gateway!Publish
    <2> QED BY <2>1 DEF Gateway!Next, Gateway!Serve
  <1>9. ASSUME NEW k \in Keys, LockExpires(k) PROVE Gateway!Next
    BY <1>9 DEF LockExpires, Gateway!LockExpires, Gateway!Next
  <1>10. CASE Crash
    BY <1>10 DEF Crash, Gateway!Crash, Gateway!Next, Live, Gateway!Live,
                 NoAnswer, Gateway!NoAnswer
  <1> QED BY <1>1, <1>2, <1>3, <1>4, <1>5, <1>6, <1>7, <1>8, <1>9, <1>10
          DEF Next, Serve

LEMMA PoolStepIsGatewayStep == [PoolNext]_poolVars => [Gateway!Next]_(Gateway!vars)
  <1> SUFFICES ASSUME [PoolNext]_poolVars PROVE [Gateway!Next]_(Gateway!vars)
    OBVIOUS
  <1>1. UNCHANGED vars => UNCHANGED Gateway!vars
    BY DEF vars, Gateway!vars, requestVars, recordVars, eventVars,
           Gateway!requestVars, Gateway!recordVars, Gateway!eventVars
  <1> QED BY <1>1, StepOrGiveUp, FaultsOnlyAdd, GivingUpIsAFault

(* A full pool, requests that wait for each other and clients that give up   *)
(* show the outside nothing that the gateway with failing database calls     *)
(* does not: the safety of PaymentGateway holds behind the pool.             *)
THEOREM PoolImplementsGateway == PoolSpec => ImplementsGateway
<1>1. PoolInit => Gateway!Init
  BY DEF PoolInit, Init, Gateway!Init, NoAnswer, Gateway!NoAnswer
<1>2. QED BY <1>1, PoolStepIsGatewayStep, PTL DEF PoolSpec, ImplementsGateway, Gateway!Spec

-----------------------------------------------------------------------------
(***************************************************************************)
(* Connections.  That the number of open transactions fits the pool needs  *)
(* that they are finitely many, whatever the number of requests.           *)
(***************************************************************************)
PoolInv ==
    /\ pc \in [Requests -> Labels]
    /\ IsFiniteSet(open)
    /\ ConnectionsReturned

LEMMA BorrowAndReturn ==
    ASSUME NEW S, IsFiniteSet(S), NEW x
    PROVE  /\ Cardinality(S) \in Nat
           /\ IsFiniteSet(S \cup {x}) /\ Cardinality(S \cup {x}) <= Cardinality(S) + 1
           /\ IsFiniteSet(S \ {x}) /\ Cardinality(S \ {x}) <= Cardinality(S)
  <1>1. Cardinality(S) \in Nat
    BY FS_CardinalityType
  <1>2. IsFiniteSet(S \cup {x}) /\ Cardinality(S \cup {x}) <= Cardinality(S) + 1
    <2>1. /\ IsFiniteSet(S \cup {x})
          /\ Cardinality(S \cup {x}) =
                IF x \in S THEN Cardinality(S) ELSE Cardinality(S) + 1
      BY FS_AddElement, Zenon
    <2> QED BY <1>1, <2>1
  <1>3. IsFiniteSet(S \ {x}) /\ Cardinality(S \ {x}) <= Cardinality(S)
    <2>1. /\ IsFiniteSet(S \ {x})
          /\ Cardinality(S \ {x}) =
                IF x \in S THEN Cardinality(S) - 1 ELSE Cardinality(S)
      BY FS_RemoveElement, Zenon
    <2> QED BY <1>1, <2>1
  <1> QED BY <1>1, <1>2, <1>3

LEMMA PoolInvInit == PoolInit => PoolInv
  BY FS_EmptySet, PoolAssumption
  DEF PoolInit, Init, PoolInv, ConnectionsReturned, Labels

(* The handler's steps change the counter of their own request only. *)
LEMMA OtherRequestsStay ==
    ASSUME pc \in [Requests -> Labels], NEW r \in Requests,
           Refuse(r) \/ Receive(r) \/ Serve(r) \/ Publish(r) \/ GiveUp(r)
    PROVE  /\ pc' \in [Requests -> Labels]
           /\ \A q \in Requests : q # r => pc'[q] = pc[q]
  <1> USE DEF Goto, HandlerFails, Labels
  <1>1. CASE Refuse(r) \/ Receive(r) \/ Publish(r)
    BY <1>1 DEF Refuse, Receive, Publish, requestVars
  <1>2. CASE GetRecord(r) \/ AcquireLock(r) \/ CreatePendingRecord(r) \/ ReleaseLock(r)
    BY <1>2 DEF GetRecord, AcquireLock, CreatePendingRecord, ReleaseLock
  <1>3. CASE ProcessPayment(r) \/ UpdateStatus(r) \/ CompleteRecord(r)
    BY <1>3 DEF ProcessPayment, UpdateStatus, CompleteRecord
  <1>4. CASE GiveUp(r)
    BY <1>4 DEF GiveUp
  <1> QED BY <1>1, <1>2, <1>3, <1>4 DEF Serve

LEMMA PoolInvStep == PoolInv /\ [PoolNext]_poolVars => PoolInv'
  <1> SUFFICES ASSUME PoolInv, [PoolNext]_poolVars PROVE PoolInv'
    OBVIOUS
  <1> USE DEF PoolInv, ConnectionsReturned
  <1>a. Cardinality(open) \in Nat /\ MaxConns \in Nat
    BY FS_CardinalityType, PoolAssumption
  <1>b. ASSUME NEW r \in Requests
        PROVE  /\ IsFiniteSet(open \ {r})
               /\ Cardinality(open \ {r}) <= MaxConns
    <2>1. IsFiniteSet(open \ {r}) /\ Cardinality(open \ {r}) <= Cardinality(open)
      BY BorrowAndReturn
    <2>2. Cardinality(open \ {r}) \in Nat
      BY <2>1, FS_CardinalityType
    <2> QED BY <1>a, <2>1, <2>2
  <1>1. ASSUME NEW r \in Requests, Begin(r) PROVE PoolInv'
    <2>1. IsFiniteSet(open \cup {r}) /\ Cardinality(open \cup {r}) <= Cardinality(open) + 1
      BY BorrowAndReturn
    <2>2. Cardinality(open \cup {r}) \in Nat
      BY <2>1, FS_CardinalityType
    <2>3. Cardinality(open) + 1 <= MaxConns /\ open' = open \cup {r}
      BY <1>1, <1>a DEF Begin, Free
    <2>4. IsFiniteSet(open') /\ Cardinality(open') <= MaxConns
      BY <1>a, <2>1, <2>2, <2>3
    <2> QED BY <1>1, <2>4 DEF Begin, vars, requestVars
  <1>2. ASSUME NEW r \in Requests, r \notin open, open' = open,
               Refuse(r) \/ Receive(r) \/ Serve(r) \/ Publish(r)
        PROVE  PoolInv'
    BY <1>2, OtherRequestsStay
  <1>3. ASSUME NEW r \in Requests, open' = open \ {r}, Serve(r) \/ GiveUp(r)
        PROVE  PoolInv'
    BY <1>3, <1>b, OtherRequestsStay
  <1>4. ASSUME NEW r \in Requests, Proceed(r) PROVE PoolInv'
    <2>1. CASE FailsBeforeBegin(r)
      BY <2>1, <1>2 DEF FailsBeforeBegin, Serve
    <2>2. CASE FinishTransaction(r)
      BY <2>2, <1>3 DEF FinishTransaction, Returned, Serve
    <2>3. CASE OneConnection(r) \/ NoConnection(r)
      <3>1. open' = open /\ Serve(r)
        BY <2>3 DEF OneConnection, NoConnection, Serve
      <3>2. pc[r] # "ProcessPayment"
        BY <2>3 DEF OneConnection, NoConnection, GetRecord, CreatePendingRecord,
                    UpdateStatus, CompleteRecord, AcquireLock, ReleaseLock
      <3> QED BY <3>1, <3>2, <1>2
    <2> QED BY <1>1, <1>4, <2>1, <2>2, <2>3 DEF Proceed
  <1>5. ASSUME NEW r \in Requests, GiveUp(r) PROVE PoolInv'
    BY <1>3, <1>5 DEF GiveUp, Returned
  <1>6. ASSUME NEW r \in Requests, Refuse(r) \/ Receive(r), open' = open PROVE PoolInv'
    <2>1. pc[r] # "ProcessPayment"
      BY <1>6 DEF Refuse, Receive
    <2> QED BY <1>2, <1>6, <2>1
  <1>7. ASSUME UNCHANGED <<pc, open>> PROVE PoolInv'
    BY <1>7
  <1>8. CASE Crash /\ open' = {}
    BY <1>8, <1>a, FS_EmptySet DEF Crash, Labels
  <1> QED BY <1>4, <1>5, <1>6, <1>7, <1>8
          DEF PoolNext, poolVars, vars, requestVars, Publish, LockExpires

(* No path of the handler leaks a connection, and the pool is never overdrawn. *)
THEOREM ConnectionsKept == PoolSpec => []ConnectionsReturned
<1>1. QED BY PoolInvInit, PoolInvStep, PTL DEF PoolSpec, PoolInv

-----------------------------------------------------------------------------
(***************************************************************************)
(* The safety of the gateway holds behind the pool.  Every step of the     *)
(* pool is one of the gateway under the same assumption on faults, or a    *)
(* request that gives up, and a request that gives up keeps what the       *)
(* invariants of PaymentGatewayProofs say.                                 *)
(***************************************************************************)
(* What a request that gives up writes, and what it leaves alone. *)
LEMMA GiveUpEffect ==
    ASSUME TypeInv, NEW r \in Requests, GiveUp(r)
    PROVE  /\ pc[r] \in {"GetRecord", "AcquireLock", "CreatePendingRecord",
                         "ProcessPayment", "UpdateStatus"}
           /\ pc' = [pc EXCEPT ![r] = IF pc[r] \in {"GetRecord", "AcquireLock"} THEN "done"
                                      ELSE IF pc[r] = "CreatePendingRecord" THEN "ReleaseLock"
                                      ELSE "CompleteRecord"]
           /\ response' = [response EXCEPT ![r] =
                              Error(IF pc[r] = "AcquireLock" THEN 409 ELSE 500)]
           /\ UNCHANGED <<key, body, record, saved, lock, payment, publishing, published, crashes>>
           /\ Error(500) \in Response /\ Error(409) \in Response
           /\ key[r] \in Keys
  <1>1. Error(500) \in Response /\ Error(409) \in Response
    BY ErrorType DEF Codes
  <1>2. key[r] \in Keys
    BY DEF GiveUp, TypeInv, HasKey, Live
  <1> QED BY <1>1, <1>2 DEF GiveUp, Goto, Write, HandlerFails, recordVars, eventVars

LEMMA GiveUpKeepsTypes ==
    ASSUME TypeInv, NEW r \in Requests, GiveUp(r) PROVE TypeInv'
  BY GiveUpEffect DEF TypeInv, TypeOK, HasKey, Live, Labels

LEMMA GiveUpKeepsExecution ==
    ASSUME ExecInv, NEW r \in Requests, GiveUp(r) PROVE ExecInv'
  <1>1. TypeInv /\ TypeInv'
    BY GiveUpKeepsTypes DEF ExecInv
  <1> QED BY <1>1, GiveUpEffect
          DEF ExecInv, TypeInv, TypeOK, HandlerClaims, ChargeIsClaimed, IdleUncharged,
              UpdatesOwnRow, SingleExecution, HandlerExclusive, OnePaymentPerKey,
              ConstraintUnused, InHandler, Charged

LEMMA GiveUpKeepsAnswers ==
    ASSUME AnswerInv, NEW r \in Requests, GiveUp(r) PROVE AnswerInv'
  <1>1. ExecInv /\ ExecInv' /\ TypeInv /\ TypeOK
    BY GiveUpKeepsExecution DEF AnswerInv, ExecInv, TypeInv
  <1> USE <1>1, GiveUpEffect, Fields DEF AnswerInv, TypeOK
  <1>2. OwnCharge'
    BY DEF OwnCharge, InHandler
  <1>3. Approved' /\ Unanswered'
    BY DEF Approved, Unanswered
  <1>4. FirstAnswers'
    BY DEF FirstAnswers
  <1>5. ReplayedAnswers'
    BY DEF ReplayedAnswers
  <1>6. SavedAnswers'
    BY DEF SavedAnswers
  <1>7. OwnAnswerSaved'
    BY DEF OwnAnswerSaved
  <1>8. Announced'
    BY DEF Announced
  <1> QED BY <1>2, <1>3, <1>4, <1>5, <1>6, <1>7, <1>8

LEMMA GiveUpUnseen ==
    ASSUME AnswerInv, NEW r \in Requests, GiveUp(r)
    PROVE  UNCHANGED recordVars /\ UNCHANGED Api!apiVars
  <1>1. TypeInv
    BY DEF AnswerInv, ExecInv
  <1>2. UNCHANGED <<key, record, saved, payment>>
    BY <1>1, GiveUpEffect
  <1>3. ChargedTo' = ChargedTo
    BY <1>2, SameCharges
  <1> QED BY <1>2, <1>3 DEF recordVars, KeyState, ToldOf, Api!apiVars

LEMMA PoolAnswerInit == PoolInit => AnswerInv
  BY AnswerInit DEF PoolInit

LEMMA PoolAnswerStep == AnswerInv /\ [PoolNext]_poolVars => AnswerInv'
  BY AnswerStep, StepOrGiveUp, GiveUpKeepsAnswers

(* Behind the pool too, at most one request under a key executes and at most *)
(* one payments row is written, however many wait for a connection or give    *)
(* up.                                                                        *)
THEOREM PoolExecutesOnce == PoolSpec => []SingleExecution
<1>1. AnswerInv => SingleExecution
  BY DEF AnswerInv, ExecInv
<1>2. QED BY <1>1, PoolAnswerInit, PoolAnswerStep, PTL DEF PoolSpec

(* A full pool is held by requests under MaxConns different keys: those of   *)
(* one key execute one at a time (idempotency.go:79-83, payment_service.go:  *)
(* 46-53).                                                                   *)
THEOREM FullPoolTakesKeys == PoolSpec => []RetriesShareNoPool
<1>1. AnswerInv /\ PoolInv => RetriesShareNoPool
  <2> SUFFICES ASSUME AnswerInv, PoolInv, Free = 0
               PROVE  Cardinality({key[r] : r \in open}) = MaxConns
    BY DEF RetriesShareNoPool
  <2> DEFINE f == [r \in open |-> key[r]]
             T == {key[r] : r \in open}
  <2>1. \A q, r \in open : key[q] = key[r] => q = r
    BY DEF PoolInv, ConnectionsReturned, AnswerInv, ExecInv, SingleExecution,
           HandlerExclusive, InHandler
  <2>2. f \in Surjection(open, T) /\ f \in Injection(open, T)
    BY <2>1 DEF Surjection, Injection, IsInjective
  <2>3. Cardinality(T) = Cardinality(open)
    BY <2>2, FS_Surjection DEF PoolInv
  <2>4. Cardinality(open) \in Nat
    BY FS_CardinalityType DEF PoolInv
  <2>5. Cardinality(open) = MaxConns
    BY <2>4, PoolAssumption DEF Free
  <2> QED BY <2>3, <2>5
<1>2. QED BY <1>1, PoolAnswerInit, PoolAnswerStep, PoolInvInit, PoolInvStep, PTL DEF PoolSpec

(* All who are told of a payment under a key are told of the same one, also  *)
(* when the request that charged it gave up waiting and was told 500.        *)
THEOREM PoolAnswersAgree == PoolSpec => []SameAnswer
<1>1. AnswerInv => SameAnswer
  BY Fields DEF AnswerInv, ExecInv, TypeInv, TypeOK, FirstAnswers, ReplayedAnswers,
     SavedAnswers, OwnAnswerSaved, SameAnswer, Delivered
<1>2. QED BY <1>1, PoolAnswerInit, PoolAnswerStep, PTL DEF PoolSpec

(* A published event is not contradicted by the answer behind the pool: a    *)
(* request that gives up in front of the status UPDATE publishes nothing.    *)
THEOREM PoolEventsAgree == PoolSpec => []EventMatchesAnswer
<1>1. AnswerInv => EventMatchesAnswer
  BY DEF AnswerInv, Announced, EventMatchesAnswer
<1>2. QED BY <1>1, PoolAnswerInit, PoolAnswerStep, PTL DEF PoolSpec

(* Records only move forward behind the pool, and stored answers stay. *)
THEOREM PoolRecordsAdvance == PoolSpec => RecordsAdvance
<1>1. AnswerInv /\ [PoolNext]_poolVars => RecordsStep
  <2> SUFFICES ASSUME AnswerInv, [PoolNext]_poolVars PROVE RecordsStep
    OBVIOUS
  <2>1. CASE UNCHANGED recordVars
    BY <2>1 DEF RecordsStep, recordVars
  <2> QED BY <2>1, StepOrGiveUp, GiveUpUnseen, RecordsStepHolds DEF AnswerInv
<1>2. QED BY <1>1, PoolAnswerInit, PoolAnswerStep, PTL DEF PoolSpec, RecordsAdvance, RecordsStep

(* The gateway behind the pool implements the idempotent API. *)
THEOREM PoolImplementsApi == PoolSpec => ImplementsApi
<1>1. AnswerInv /\ [PoolNext]_poolVars => [Api!Next]_(Api!apiVars)
  BY ApiStep, StepOrGiveUp, GiveUpUnseen
<1>2. PoolInit => Api!Init
  BY ApiInit DEF PoolInit
<1>3. QED BY <1>1, <1>2, PoolAnswerInit, PoolAnswerStep, PTL DEF PoolSpec, ImplementsApi, Api!Spec

(* A full pool or a client that leaves orphans no key as long as no call that *)
(* was sent fails: the request either claimed nothing or goes on to complete  *)
(* its record, with a context of its own (idempotency.go:79-103).             *)
THEOREM PoolOrphansNoKey ==
    ASSUME ~Faults
    PROVE  PoolSpec => []ClaimOwned
<1>1. PoolInit => ClaimOwned
  BY DEF PoolInit, Init, ClaimOwned
<1>2. AnswerInv /\ ClaimOwned /\ [PoolNext]_poolVars => ClaimOwned'
  <2> SUFFICES ASSUME AnswerInv, ClaimOwned, [PoolNext]_poolVars PROVE ClaimOwned'
    OBVIOUS
  <2>1. TypeInv /\ TypeOK
    BY DEF AnswerInv, ExecInv, TypeInv
  <2>2. ASSUME NEW r \in Requests, GiveUp(r) PROVE ClaimOwned'
    <3>1. /\ UNCHANGED <<key, record, crashes>>
          /\ \A q \in Requests : InHandler(q) => InHandler(q)'
      BY <2>1, <2>2, GiveUpEffect DEF InHandler, TypeOK
    <3> QED BY <3>1 DEF ClaimOwned, Owned
  <2> QED BY <2>1, <2>2, StepOrGiveUp, ClaimOwnedStep
<1>3. QED BY <1>1, <1>2, PoolAnswerInit, PoolAnswerStep, PTL DEF PoolSpec
=============================================================================
