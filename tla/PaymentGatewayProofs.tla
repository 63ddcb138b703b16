------------------------ MODULE PaymentGatewayProofs ------------------------
(***************************************************************************)
(* Proofs about PaymentGateway, for any sets of requests and keys, any     *)
(* number of crashes, with and without faults.                             *)
(***************************************************************************)
EXTENDS PaymentGateway, TLAPS

-----------------------------------------------------------------------------
(* The type invariant. *)

(* The answers the code writes, stores and replays are well formed. *)
LEMMA ErrorType == \A code \in Codes : Error(code) \in Response
  BY DEF Error, Response, Bodies, Codes

LEMMA AnswerTypes == NoAnswer \in Response /\ \A r \in Requests : Created(r) \in Response
  BY DEF NoAnswer, Created, Response, Bodies, Codes

LEMMA RecordedType == \A resp \in Response : Recorded(resp) \in Response
  <1>1. TAKE resp \in Response
  <1>2. [resp EXCEPT !.body = "raw"] \in Response
    BY DEF Response, Bodies
  <1> QED BY <1>2 DEF Recorded

LEMMA ReplayedType == \A resp \in Response : Replayed(resp) \in Response
  BY DEF Response, Replayed

(* A request that any handler step concerns has a key; the type invariant is *)
(* inductive only with it, since GetRecord reads saved[key[r]].              *)
HasKey == \A r \in Requests : Live(r) => key[r] \in Keys

TypeInv == TypeOK /\ HasKey

LEMMA TypeInit == Init => TypeInv
  BY AnswerTypes, BoundAssumption DEF Init, TypeInv, TypeOK, HasKey, Live, Labels

LEMMA TypeStep == TypeInv /\ [Next]_vars => TypeInv'
  <1> SUFFICES ASSUME TypeInv, [Next]_vars PROVE TypeInv'
    OBVIOUS
  <1> USE DEF TypeInv, TypeOK, HasKey, Live, Labels, Goto, Write,
              requestVars, recordVars, eventVars
  <1>1. ASSUME NEW r \in Requests, Refuse(r) PROVE TypeInv'
    <2>1. PICK code \in {400, 401} : Write(r, Error(code))
      BY <1>1 DEF Refuse
    <2>2. Error(code) \in Response
      BY ErrorType DEF Codes
    <2> QED BY <1>1, <2>1, <2>2 DEF Refuse
  <1>2. ASSUME NEW r \in Requests, Receive(r) PROVE TypeInv'
    BY <1>2 DEF Receive
  <1>3. ASSUME NEW r \in Requests, GetRecord(r) PROVE TypeInv'
    <2>1. Error(409) \in Response /\ Error(500) \in Response
      BY ErrorType DEF Codes
    <2>2. Replayed(saved[key[r]]) \in Response
      BY <1>3, ReplayedType DEF GetRecord
    <2> QED BY <1>3, <2>1, <2>2 DEF GetRecord
  <1>4. ASSUME NEW r \in Requests, AcquireLock(r) PROVE TypeInv'
    <2>1. Error(409) \in Response
      BY ErrorType DEF Codes
    <2> QED BY <1>4, <2>1 DEF AcquireLock
  <1>5. ASSUME NEW r \in Requests, CreatePendingRecord(r) PROVE TypeInv'
    <2>1. Error(500) \in Response
      BY ErrorType DEF Codes
    <2> QED BY <1>5, <2>1 DEF CreatePendingRecord
  <1>6. ASSUME NEW r \in Requests, ProcessPayment(r) PROVE TypeInv'
    <2>1. Error(400) \in Response /\ Error(500) \in Response
      BY ErrorType DEF Codes
    <2> QED BY <1>6, <2>1 DEF ProcessPayment, HandlerFails
  <1>7. ASSUME NEW r \in Requests, UpdateStatus(r) PROVE TypeInv'
    <2>1. Error(500) \in Response /\ Created(r) \in Response
      BY ErrorType, AnswerTypes DEF Codes
    <2>2. NewStatus \in {"none", "created", "failed"}
      BY DEF NewStatus
    <2> QED BY <1>7, <2>1, <2>2 DEF UpdateStatus, HandlerFails, Announce
  <1>8. ASSUME NEW r \in Requests, CompleteRecord(r) PROVE TypeInv'
    <2>1. Recorded(response[r]) \in Response
      BY RecordedType
    <2> QED BY <1>8, <2>1 DEF CompleteRecord
  <1>9. ASSUME NEW r \in Requests, ReleaseLock(r) PROVE TypeInv'
    BY <1>9 DEF ReleaseLock
  <1>10. ASSUME NEW r \in Requests, Publish(r) PROVE TypeInv'
    BY <1>10 DEF Publish
  <1>11. ASSUME NEW k \in Keys, LockExpires(k) PROVE TypeInv'
    BY <1>11 DEF LockExpires
  <1>12. CASE Crash
    <2>1. crashes' \in 0..MaxCrashes
      BY <1>12, BoundAssumption DEF Crash
    <2> QED BY <1>12, <2>1, AnswerTypes DEF Crash
  <1>13. CASE UNCHANGED vars
    BY <1>13 DEF vars
  <1> QED BY <1>1, <1>2, <1>3, <1>4, <1>5, <1>6, <1>7, <1>8, <1>9, <1>10,
             <1>11, <1>12, <1>13 DEF Next, Serve

(* Every variable keeps its type: in particular statuses stay inside the     *)
(* enumerations of the schema and a stored answer is always well formed.     *)
THEOREM TypeCorrect == Spec => []TypeOK
<1>1. TypeInv => TypeOK
  BY DEF TypeInv
<1>2. QED BY <1>1, TypeInit, TypeStep, PTL DEF Spec

-----------------------------------------------------------------------------
(***************************************************************************)
(* One execution per key.  SingleExecution is not inductive: that nobody   *)
(* else executes under a key follows from the state of its record, so the  *)
(* invariant ties the program counters and the payments rows to the        *)
(* record.  The Redis lock appears nowhere in it.                          *)
(***************************************************************************)
HandlerClaims == \A r \in Requests : InHandler(r) => record[key[r]] = "in_progress"

ChargeIsClaimed ==
    \A r \in Requests : payment[r] # "none" =>
        key[r] \in Keys /\ record[key[r]] # "absent"

IdleUncharged == \A r \in Requests : pc[r] = "idle" => payment[r] = "none"

UpdatesOwnRow == \A r \in Requests : pc[r] = "UpdateStatus" => payment[r] # "none"

ExecInv ==
    /\ TypeInv
    /\ HandlerClaims
    /\ ChargeIsClaimed
    /\ IdleUncharged
    /\ UpdatesOwnRow
    /\ SingleExecution

LEMMA ExecInit == Init => ExecInv
  <1> SUFFICES ASSUME Init PROVE ExecInv
    OBVIOUS
  <1>1. TypeInv
    BY TypeInit
  <1>2. \A r \in Requests : pc[r] = "idle" /\ payment[r] = "none"
    BY DEF Init
  <1> QED BY <1>1, <1>2 DEF ExecInv, HandlerClaims, ChargeIsClaimed, IdleUncharged,
             UpdatesOwnRow, SingleExecution, HandlerExclusive, OnePaymentPerKey,
             ConstraintUnused, InHandler

LEMMA ExecStep == ExecInv /\ [Next]_vars => ExecInv'
  <1> SUFFICES ASSUME ExecInv, [Next]_vars PROVE ExecInv'
    OBVIOUS
  <1>0. TypeInv'
    BY TypeStep DEF ExecInv
  <1> USE <1>0
      DEF ExecInv, TypeInv, TypeOK, HasKey, Live, HandlerClaims, ChargeIsClaimed,
          IdleUncharged, UpdatesOwnRow, SingleExecution, HandlerExclusive,
          OnePaymentPerKey, ConstraintUnused, InHandler, Charged, Goto, Write,
          requestVars, recordVars, eventVars
  <1>1. ASSUME NEW r \in Requests, Refuse(r) PROVE ExecInv'
    BY <1>1 DEF Refuse
  <1>2. ASSUME NEW r \in Requests, Receive(r) PROVE ExecInv'
    BY <1>2 DEF Receive
  <1>3. ASSUME NEW r \in Requests, GetRecord(r) PROVE ExecInv'
    BY <1>3 DEF GetRecord
  <1>4. ASSUME NEW r \in Requests, AcquireLock(r) PROVE ExecInv'
    BY <1>4 DEF AcquireLock
  <1>5. ASSUME NEW r \in Requests, CreatePendingRecord(r) PROVE ExecInv'
    BY <1>5 DEF CreatePendingRecord, InsertsRecord
  <1>6. ASSUME NEW r \in Requests, ProcessPayment(r) PROVE ExecInv'
    BY <1>6 DEF ProcessPayment, HandlerFails
  <1>7. ASSUME NEW r \in Requests, UpdateStatus(r) PROVE ExecInv'
    BY <1>7 DEF UpdateStatus, HandlerFails, Announce
  <1>8. ASSUME NEW r \in Requests, CompleteRecord(r) PROVE ExecInv'
    BY <1>8 DEF CompleteRecord
  <1>9. ASSUME NEW r \in Requests, ReleaseLock(r) PROVE ExecInv'
    BY <1>9 DEF ReleaseLock
  <1>10. ASSUME NEW r \in Requests, Publish(r) PROVE ExecInv'
    BY <1>10 DEF Publish
  <1>11. ASSUME NEW k \in Keys, LockExpires(k) PROVE ExecInv'
    BY <1>11 DEF LockExpires
  <1>12. CASE Crash
    BY <1>12 DEF Crash
  <1>13. CASE UNCHANGED vars
    BY <1>13 DEF vars
  <1> QED BY <1>1, <1>2, <1>3, <1>4, <1>5, <1>6, <1>7, <1>8, <1>9, <1>10,
             <1>11, <1>12, <1>13 DEF Next, Serve

(* However requests under one key interleave, crash or lose the lock, at     *)
(* most one executes and at most one payments row is written.                *)
THEOREM ExecutesOnce == Spec => []SingleExecution
<1>1. ExecInv => SingleExecution
  BY DEF ExecInv
<1>2. QED BY <1>1, ExecInit, ExecStep, PTL DEF Spec

RecordsStep ==
    \A k \in Keys :
        /\ record'[k] = "absent" => record[k] = "absent"
        /\ record[k] = "completed" =>
             record'[k] = "completed" /\ saved'[k] = saved[k]

LEMMA RecordsStepHolds == ExecInv /\ [Next]_vars => RecordsStep
  <1> SUFFICES ASSUME ExecInv, [Next]_vars PROVE RecordsStep
    OBVIOUS
  <1> USE DEF RecordsStep
  <1>1. ASSUME NEW r \in Requests, CreatePendingRecord(r) PROVE RecordsStep
    BY <1>1 DEF CreatePendingRecord, InsertsRecord, ExecInv, TypeInv, TypeOK
  <1>2. ASSUME NEW r \in Requests, CompleteRecord(r) PROVE RecordsStep
    <2>1. record[key[r]] = "in_progress"
      BY <1>2 DEF CompleteRecord, ExecInv, HandlerClaims, InHandler
    <2> QED BY <1>2, <2>1 DEF CompleteRecord, recordVars, ExecInv, TypeInv, TypeOK
  <1>3. CASE UNCHANGED recordVars
    BY <1>3 DEF recordVars
  <1> QED
    BY <1>1, <1>2, <1>3
    DEF Next, Serve, Refuse, Receive, GetRecord, AcquireLock, ProcessPayment,
        UpdateStatus, ReleaseLock, Publish, LockExpires, Crash, vars, recordVars

(* A record only moves forward and a stored answer is never overwritten: the *)
(* unconditional UPDATE of CompleteRecord only ever meets a record that the  *)
(* request itself claimed.                                                   *)
THEOREM RecordsOnlyAdvance == Spec => RecordsAdvance
<1>1. QED BY RecordsStepHolds, ExecInit, ExecStep, PTL DEF Spec, RecordsAdvance, RecordsStep

-----------------------------------------------------------------------------
(***************************************************************************)
(* Answers.  AnswerInv adds what a request that executed has written, what *)
(* the record stores, and whose charge a key carries.                      *)
(***************************************************************************)
LEMMA Fields ==
    /\ NoAnswer.code = 0 /\ NoAnswer.payment = None /\ NoAnswer.replayed = FALSE
    /\ \A c : /\ Error(c).code = c
             /\ Error(c).payment = None
             /\ Error(c).replayed = FALSE
    /\ \A r : /\ Created(r).code = 201
             /\ Created(r).payment = r
             /\ Created(r).replayed = FALSE
             /\ Recorded(Created(r)) = Created(r)
    /\ \A resp \in Response :
          /\ Recorded(resp).code = resp.code
          /\ Recorded(resp).payment = resp.payment
          /\ Recorded(resp).replayed = resp.replayed
          /\ Replayed(resp).code = resp.code
          /\ Replayed(resp).payment = resp.payment
          /\ Replayed(resp).replayed = TRUE
  BY DEF NoAnswer, Error, Created, Recorded, Replayed, Response

(* While a request is in the handler, nobody else has charged its key. *)
OwnCharge ==
    \A q, r \in Requests :
        payment[q] # "none" /\ InHandler(r) /\ key[q] = key[r] => q = r

Approved ==
    \A r \in Requests :
        /\ payment[r] # "failed"
        /\ pc[r] = "UpdateStatus" => payment[r] = "created"

Unanswered ==
    \A r \in Requests :
        pc[r] \notin {"CompleteRecord", "ReleaseLock", "done"} => response[r] = NoAnswer

FirstAnswers ==
    \A r \in Requests : response[r].replayed = FALSE =>
        \/ /\ response[r] = Created(r)
           /\ payment[r] = "created"
        \/ /\ response[r].code # 201
           /\ response[r].payment = None

ReplayedAnswers ==
    \A r \in Requests : response[r].replayed = TRUE =>
        /\ pc[r] = "done"
        /\ key[r] \in Keys
        /\ record[key[r]] = "completed"
        /\ response[r] = Replayed(saved[key[r]])

SavedAnswers ==
    \A k \in Keys : record[k] = "completed" =>
        /\ saved[k].replayed = FALSE
        /\ \/ saved[k].code # 201 /\ saved[k].payment = None
           \/ \E r \in Requests :
                 saved[k] = Created(r) /\ payment[r] = "created" /\ key[r] = k

OwnAnswerSaved ==
    \A r \in Requests :
        /\ response[r] = Created(r)
        /\ pc[r] \in {"ReleaseLock", "done"}
        /\ record[key[r]] = "completed"
        => saved[key[r]] = Created(r)

Announced ==
    \A r \in publishing \cup published :
        /\ payment[r] = "created"
        /\ \/ /\ pc[r] \in {"CompleteRecord", "ReleaseLock", "done"}
              /\ response[r] = Created(r)
           \/ pc[r] = "dead"

AnswerInv ==
    /\ ExecInv
    /\ OwnCharge
    /\ Approved
    /\ Unanswered
    /\ FirstAnswers
    /\ ReplayedAnswers
    /\ SavedAnswers
    /\ OwnAnswerSaved
    /\ Announced

LEMMA AnswerInit == Init => AnswerInv
  <1> SUFFICES ASSUME Init PROVE AnswerInv
    OBVIOUS
  <1>1. ExecInv
    BY ExecInit
  <1> QED BY <1>1, Fields DEF Init, AnswerInv, OwnCharge, Approved, Unanswered,
             FirstAnswers, ReplayedAnswers, SavedAnswers, OwnAnswerSaved, Announced

LEMMA AnswerStep == AnswerInv /\ [Next]_vars => AnswerInv'
  <1> SUFFICES ASSUME AnswerInv, [Next]_vars PROVE AnswerInv'
    OBVIOUS
  <1>0. ExecInv'
    BY ExecStep DEF AnswerInv
  <1>a. TypeInv /\ TypeInv'
    BY <1>0 DEF AnswerInv, ExecInv
  <1> USE <1>0, <1>a, Fields, NoneAssumption
      DEF AnswerInv, TypeInv, TypeOK, HasKey, Live, OwnCharge, Approved, Unanswered,
          FirstAnswers, ReplayedAnswers, SavedAnswers, OwnAnswerSaved, Announced,
          InHandler, Goto, Write, requestVars, recordVars, eventVars
  <1>1. ASSUME NEW r \in Requests, Refuse(r) PROVE AnswerInv'
    BY <1>1 DEF Refuse, ExecInv, IdleUncharged
  <1>2. ASSUME NEW r \in Requests, Receive(r) PROVE AnswerInv'
    BY <1>2 DEF Receive, ExecInv, IdleUncharged
  <1>3. ASSUME NEW r \in Requests, GetRecord(r) PROVE AnswerInv'
    <2>1. OwnCharge'
      BY <1>3 DEF GetRecord
    <2>2. Approved'
      BY <1>3 DEF GetRecord
    <2>3. Unanswered'
      BY <1>3 DEF GetRecord
    <2>4. FirstAnswers'
      <3>1. \A q \in Requests \ {r} : response'[q] = response[q]
        BY <1>3 DEF GetRecord
      <3>2. response'[r].replayed = TRUE \/ response'[r] \in {response[r], Error(409), Error(500)}
        BY <1>3 DEF GetRecord
      <3>3. payment' = payment
        BY <1>3 DEF GetRecord
      <3> QED BY <3>1, <3>2, <3>3
    <2>5. ReplayedAnswers'
      BY <1>3 DEF GetRecord
    <2>6. SavedAnswers'
      BY <1>3 DEF GetRecord
    <2>7. OwnAnswerSaved'
      BY <1>3 DEF GetRecord
    <2>8. Announced'
      BY <1>3 DEF GetRecord
    <2> QED BY <2>1, <2>2, <2>3, <2>4, <2>5, <2>6, <2>7, <2>8
  <1>4. ASSUME NEW r \in Requests, AcquireLock(r) PROVE AnswerInv'
    <2>1. OwnCharge'
      BY <1>4 DEF AcquireLock
    <2>2. Approved'
      BY <1>4 DEF AcquireLock
    <2>3. Unanswered'
      BY <1>4 DEF AcquireLock
    <2>4. FirstAnswers'
      BY <1>4 DEF AcquireLock
    <2>5. ReplayedAnswers'
      BY <1>4 DEF AcquireLock
    <2>6. SavedAnswers'
      BY <1>4 DEF AcquireLock
    <2>7. OwnAnswerSaved'
      BY <1>4 DEF AcquireLock
    <2>8. Announced'
      BY <1>4 DEF AcquireLock
    <2> QED BY <2>1, <2>2, <2>3, <2>4, <2>5, <2>6, <2>7, <2>8
  <1>5. ASSUME NEW r \in Requests, CreatePendingRecord(r) PROVE AnswerInv'
    <2>1. OwnCharge'
      BY <1>5 DEF CreatePendingRecord, InsertsRecord, ExecInv, ChargeIsClaimed
    <2>2. Approved'
      BY <1>5 DEF CreatePendingRecord, InsertsRecord, ExecInv, ChargeIsClaimed
    <2>3. Unanswered'
      BY <1>5 DEF CreatePendingRecord, InsertsRecord, ExecInv, ChargeIsClaimed
    <2>4. FirstAnswers'
      BY <1>5 DEF CreatePendingRecord, InsertsRecord, ExecInv, ChargeIsClaimed
    <2>5. ReplayedAnswers'
      BY <1>5 DEF CreatePendingRecord, InsertsRecord, ExecInv, ChargeIsClaimed
    <2>6. SavedAnswers'
      BY <1>5 DEF CreatePendingRecord, InsertsRecord, ExecInv, ChargeIsClaimed
    <2>7. OwnAnswerSaved'
      BY <1>5 DEF CreatePendingRecord, InsertsRecord, ExecInv, ChargeIsClaimed
    <2>8. Announced'
      BY <1>5 DEF CreatePendingRecord, InsertsRecord, ExecInv, ChargeIsClaimed
    <2> QED BY <2>1, <2>2, <2>3, <2>4, <2>5, <2>6, <2>7, <2>8
  <1>6. ASSUME NEW r \in Requests, ProcessPayment(r) PROVE AnswerInv'
    <2>1. OwnCharge'
      BY <1>6 DEF ProcessPayment, HandlerFails, ExecInv, SingleExecution, HandlerExclusive
    <2>2. Approved'
      BY <1>6 DEF ProcessPayment, HandlerFails, ExecInv, SingleExecution, HandlerExclusive
    <2>3. Unanswered'
      BY <1>6 DEF ProcessPayment, HandlerFails, ExecInv, SingleExecution, HandlerExclusive
    <2>4. FirstAnswers'
      BY <1>6 DEF ProcessPayment, HandlerFails, ExecInv, SingleExecution, HandlerExclusive
    <2>5. ReplayedAnswers'
      BY <1>6 DEF ProcessPayment, HandlerFails, ExecInv, SingleExecution, HandlerExclusive
    <2>6. SavedAnswers'
      BY <1>6 DEF ProcessPayment, HandlerFails, ExecInv, SingleExecution, HandlerExclusive
    <2>7. OwnAnswerSaved'
      BY <1>6 DEF ProcessPayment, HandlerFails, ExecInv, SingleExecution, HandlerExclusive
    <2>8. Announced'
      BY <1>6 DEF ProcessPayment, HandlerFails, ExecInv, SingleExecution, HandlerExclusive
    <2> QED BY <2>1, <2>2, <2>3, <2>4, <2>5, <2>6, <2>7, <2>8
  <1>7. ASSUME NEW r \in Requests, UpdateStatus(r) PROVE AnswerInv'
    <2>1. OwnCharge'
      BY <1>7 DEF UpdateStatus, HandlerFails, Announce, NewStatus, BankApproves
    <2>2. Approved'
      BY <1>7 DEF UpdateStatus, HandlerFails, Announce, NewStatus, BankApproves
    <2>3. Unanswered'
      BY <1>7 DEF UpdateStatus, HandlerFails, Announce, NewStatus, BankApproves
    <2>4. FirstAnswers'
      <3>1. \A q \in Requests \ {r} : response'[q] = response[q] /\ payment'[q] = payment[q]
        BY <1>7 DEF UpdateStatus, HandlerFails
      <3>2. \/ response'[r] = Created(r) /\ payment'[r] = "created"
            \/ response'[r] = Error(500)
        BY <1>7 DEF UpdateStatus, HandlerFails, NewStatus, BankApproves
      <3> QED BY <3>1, <3>2
    <2>5. ReplayedAnswers'
      BY <1>7 DEF UpdateStatus, HandlerFails, Announce, NewStatus, BankApproves
    <2>6. SavedAnswers'
      BY <1>7 DEF UpdateStatus, HandlerFails, Announce, NewStatus, BankApproves
    <2>7. OwnAnswerSaved'
      BY <1>7 DEF UpdateStatus, HandlerFails, Announce, NewStatus, BankApproves
    <2>8. Announced'
      BY <1>7 DEF UpdateStatus, HandlerFails, Announce, NewStatus, BankApproves
    <2> QED BY <2>1, <2>2, <2>3, <2>4, <2>5, <2>6, <2>7, <2>8
  <1>8. ASSUME NEW r \in Requests, CompleteRecord(r) PROVE AnswerInv'
    <2>1. OwnCharge'
      BY <1>8 DEF CompleteRecord, ExecInv, HandlerClaims
    <2>2. Approved'
      BY <1>8 DEF CompleteRecord, ExecInv, HandlerClaims
    <2>3. Unanswered'
      BY <1>8 DEF CompleteRecord, ExecInv, HandlerClaims
    <2>4. FirstAnswers'
      BY <1>8 DEF CompleteRecord, ExecInv, HandlerClaims
    <2>5. ReplayedAnswers'
      BY <1>8 DEF CompleteRecord, ExecInv, HandlerClaims
    <2>6. SavedAnswers'
      BY <1>8 DEF CompleteRecord, ExecInv, HandlerClaims
    <2>7. OwnAnswerSaved'
      <3> SUFFICES ASSUME NEW q \in Requests, response[q] = Created(q),
                          pc'[q] \in {"ReleaseLock", "done"},
                          record'[key[q]] = "completed"
                   PROVE  saved'[key[q]] = Created(q)
        BY <1>8 DEF CompleteRecord
      <3>1. payment[q] = "created"
        OBVIOUS
      <3>2. CASE q = r
        BY <1>8, <3>2 DEF CompleteRecord, ExecInv, HandlerClaims
      <3>3. CASE q # r
        <4>1. InHandler(r)
          BY <1>8 DEF CompleteRecord
        <4>2. key[q] # key[r]
          BY <3>1, <3>3, <4>1
        <4>3. key[q] \in Keys /\ key' = key /\ pc'[q] = pc[q]
          BY <1>8, <3>1, <3>3 DEF CompleteRecord, ExecInv, ChargeIsClaimed
        <4>4. record'[key[q]] = record[key[q]] /\ saved'[key[q]] = saved[key[q]]
          BY <1>8, <4>2, <4>3 DEF CompleteRecord
        <4> QED BY <4>3, <4>4
      <3> QED BY <3>2, <3>3
    <2>8. Announced'
      BY <1>8 DEF CompleteRecord, ExecInv, HandlerClaims
    <2> QED BY <2>1, <2>2, <2>3, <2>4, <2>5, <2>6, <2>7, <2>8
  <1>9. ASSUME NEW r \in Requests, ReleaseLock(r) PROVE AnswerInv'
    BY <1>9 DEF ReleaseLock
  <1>10. ASSUME NEW r \in Requests, Publish(r) PROVE AnswerInv'
    BY <1>10 DEF Publish
  <1>11. ASSUME NEW k \in Keys, LockExpires(k) PROVE AnswerInv'
    BY <1>11 DEF LockExpires
  <1>12. CASE Crash
    BY <1>12 DEF Crash
  <1>13. CASE UNCHANGED vars
    BY <1>13 DEF vars
  <1> QED BY <1>1, <1>2, <1>3, <1>4, <1>5, <1>6, <1>7, <1>8, <1>9, <1>10,
             <1>11, <1>12, <1>13 DEF Next, Serve

(* Every 201 names the one payment of its key, all replays of a key agree,   *)
(* and they repeat the first requester's 201.                                *)
THEOREM AnswersAgree == Spec => []SameAnswer
<1>1. AnswerInv => SameAnswer
  BY Fields DEF AnswerInv, ExecInv, TypeInv, TypeOK, FirstAnswers, ReplayedAnswers,
     SavedAnswers, OwnAnswerSaved, SameAnswer, Delivered
<1>2. QED BY <1>1, AnswerInit, AnswerStep, PTL DEF Spec

(* A published event is never contradicted by the answer to its request. *)
THEOREM EventsAgree == Spec => []EventMatchesAnswer
<1>1. AnswerInv => EventMatchesAnswer
  BY DEF AnswerInv, Announced, EventMatchesAnswer
<1>2. QED BY <1>1, AnswerInit, AnswerStep, PTL DEF Spec

-----------------------------------------------------------------------------
(***************************************************************************)
(* The gateway implements IdempotentApi.  Only three calls are visible     *)
(* through the API: the INSERT of the record claims the key, the commit of *)
(* the payments row charges it, CompleteRecord finishes it.                *)
(***************************************************************************)
LEMMA SameCharges ==
    (\A r \in Requests : /\ (payment[r] # "none") <=> (payment'[r] # "none")
                         /\ payment[r] # "none" => key'[r] = key[r])
    => ChargedTo' = ChargedTo
  <1> SUFFICES ASSUME \A r \in Requests :
                        /\ (payment[r] # "none") <=> (payment'[r] # "none")
                        /\ payment[r] # "none" => key'[r] = key[r]
               PROVE  ChargedTo' = ChargedTo
    OBVIOUS
  <1>1. ASSUME NEW k \in Keys PROVE Charges(k)' = Charges(k)
    <2>1. ASSUME NEW r \in Requests PROVE r \in Charges(k)' <=> r \in Charges(k)
      <3>1. r \in Charges(k)' <=> payment'[r] # "none" /\ key'[r] = k
        BY DEF Charges
      <3>2. r \in Charges(k) <=> payment[r] # "none" /\ key[r] = k
        BY DEF Charges
      <3> QED BY <3>1, <3>2
    <2>2. Charges(k) \subseteq Requests /\ Charges(k)' \subseteq Requests
      BY DEF Charges
    <2> QED BY <2>1, <2>2
  <1>2. \A k \in Keys : AnyOf(Charges(k)') = AnyOf(Charges(k))
    BY <1>1
  <1> QED BY <1>2 DEF ChargedTo

LEMMA AnyOfSingle == AnyOf({}) = None /\ \A r : AnyOf({r}) = r
  BY DEF AnyOf

LEMMA ApiInit == Init => Api!Init
  <1> SUFFICES ASSUME Init PROVE Api!Init
    OBVIOUS
  <1>1. \A k \in Keys : Charges(k) = {}
    BY DEF Init, Charges
  <1>2. ChargedTo = [k \in Keys |-> None]
    BY <1>1, AnyOfSingle DEF ChargedTo
  <1>3. KeyState = [k \in Keys |-> "fresh"]
    BY DEF Init, KeyState
  <1>4. ToldOf = [k \in Keys |-> None]
    BY Fields DEF Init, ToldOf
  <1> QED BY <1>2, <1>3, <1>4 DEF Api!Init

LEMMA ApiStep == AnswerInv /\ [Next]_vars => [Api!Next]_(Api!apiVars)
  <1> SUFFICES ASSUME AnswerInv, [Next]_vars PROVE [Api!Next]_(Api!apiVars)
    OBVIOUS
  <1>a. TypeInv
    BY DEF AnswerInv, ExecInv
  <1> USE <1>a DEF TypeInv, TypeOK, HasKey, Live, Goto, Write
  <1>1. ASSUME NEW r \in Requests, CreatePendingRecord(r) PROVE [Api!Next]_(Api!apiVars)
    <2>1. key[r] \in Keys
      BY <1>1 DEF CreatePendingRecord
    <2>2. ChargedTo' = ChargedTo /\ ToldOf' = ToldOf
      BY <1>1, SameCharges DEF CreatePendingRecord, ToldOf
    <2>3. CASE UNCHANGED record
      BY <2>2, <2>3 DEF KeyState, Api!apiVars
    <2>4. CASE InsertsRecord(key[r]) /\ record' = [record EXCEPT ![key[r]] = "in_progress"]
      <3>1. KeyState[key[r]] = "fresh"
        BY <2>1, <2>4 DEF KeyState, InsertsRecord
      <3>2. KeyState' = [KeyState EXCEPT ![key[r]] = "claimed"]
        BY <2>1, <2>4 DEF KeyState
      <3> QED BY <2>1, <2>2, <3>1, <3>2 DEF Api!Next, Api!Claim
    <2> QED BY <1>1, <2>3, <2>4 DEF CreatePendingRecord
  <1>2. ASSUME NEW r \in Requests, ProcessPayment(r) PROVE [Api!Next]_(Api!apiVars)
    <2>1. key[r] \in Keys /\ KeyState[key[r]] = "claimed"
      BY <1>2 DEF ProcessPayment, AnswerInv, ExecInv, HandlerClaims, InHandler, KeyState
    <2>2. KeyState' = KeyState /\ ToldOf' = ToldOf
      BY <1>2 DEF ProcessPayment, recordVars, KeyState, ToldOf
    <2>3. CASE UNCHANGED payment
      <3>1. ChargedTo' = ChargedTo
        BY <1>2, <2>3, SameCharges DEF ProcessPayment
      <3> QED BY <2>2, <3>1 DEF Api!apiVars
    <2>4. CASE ~Charged(key[r]) /\ payment' = [payment EXCEPT ![r] = "created"]
      <3>1. ChargedTo[key[r]] = None
        <4>1. Charges(key[r]) = {}
          BY <2>4 DEF Charges, Charged
        <4> QED BY <2>1, <4>1, AnyOfSingle DEF ChargedTo
      <3>2. ASSUME NEW k \in Keys
            PROVE  ChargedTo'[k] = IF k = key[r] THEN r ELSE ChargedTo[k]
        <4>1. ChargedTo[k] = AnyOf(Charges(k)) /\ ChargedTo'[k] = AnyOf(Charges(k)')
          BY DEF ChargedTo
        <4>2. CASE k = key[r]
          <5>1. Charges(k)' = {r}
            BY <1>2, <2>4, <4>2 DEF ProcessPayment, Charges, Charged
          <5> QED BY <4>1, <4>2, <5>1, AnyOfSingle
        <4>3. CASE k # key[r]
          <5>1. Charges(k)' = Charges(k)
            BY <1>2, <2>4, <4>3 DEF ProcessPayment, Charges
          <5> QED BY <4>1, <4>3, <5>1
        <4> QED BY <4>2, <4>3
      <3>3. ChargedTo' = [ChargedTo EXCEPT ![key[r]] = r]
        BY <3>2 DEF ChargedTo
      <3> QED BY <2>1, <2>2, <3>1, <3>3 DEF Api!Next, Api!Charge
    <2> QED BY <1>2, <2>3, <2>4 DEF ProcessPayment
  <1>3. ASSUME NEW r \in Requests, CompleteRecord(r) PROVE [Api!Next]_(Api!apiVars)
    <2>1. key[r] \in Keys /\ KeyState[key[r]] = "claimed"
      BY <1>3 DEF CompleteRecord, AnswerInv, ExecInv, HandlerClaims, InHandler, KeyState
    <2>2. ChargedTo' = ChargedTo
      BY <1>3, SameCharges DEF CompleteRecord
    <2>3. CASE UNCHANGED recordVars
      BY <2>2, <2>3 DEF KeyState, ToldOf, recordVars, Api!apiVars
    <2>4. CASE /\ record' = [record EXCEPT ![key[r]] = "completed"]
               /\ saved' = [saved EXCEPT ![key[r]] = Recorded(response[r])]
      <3>1. KeyState' = [KeyState EXCEPT ![key[r]] = "finished"]
        BY <2>1, <2>4 DEF KeyState
      <3>2. ToldOf' = [ToldOf EXCEPT ![key[r]] = response[r].payment]
        <4>1. Recorded(response[r]).payment = response[r].payment
          BY Fields
        <4> QED BY <2>1, <2>4, <4>1 DEF ToldOf
      <3>3. response[r].payment \in {None, ChargedTo[key[r]]}
        <4>1. response[r].replayed = FALSE
          BY <1>3 DEF CompleteRecord, AnswerInv, ReplayedAnswers, Response
        <4>2. CASE response[r] = Created(r) /\ payment[r] = "created"
          <5>1. Charges(key[r]) = {r}
            BY <1>3, <4>2 DEF CompleteRecord, AnswerInv, OwnCharge, InHandler, Charges
          <5>2. ChargedTo[key[r]] = r
            BY <2>1, <5>1, AnyOfSingle DEF ChargedTo
          <5> QED BY <4>2, <5>2, Fields
        <4> QED BY <4>1, <4>2 DEF AnswerInv, FirstAnswers
      <3> QED BY <2>1, <2>2, <3>1, <3>2, <3>3 DEF Api!Next, Api!Finish
    <2> QED BY <1>3, <2>3, <2>4 DEF CompleteRecord
  <1>4. ASSUME NEW r \in Requests, Receive(r) PROVE [Api!Next]_(Api!apiVars)
    <2>1. ChargedTo' = ChargedTo
      BY <1>4, SameCharges DEF Receive, AnswerInv, ExecInv, IdleUncharged
    <2> QED BY <1>4, <2>1 DEF Receive, recordVars, KeyState, ToldOf, Api!apiVars
  <1>5. ASSUME NEW r \in Requests, UpdateStatus(r) PROVE [Api!Next]_(Api!apiVars)
    <2>1. ChargedTo' = ChargedTo
      BY <1>5, SameCharges
      DEF UpdateStatus, NewStatus, AnswerInv, ExecInv, UpdatesOwnRow
    <2> QED BY <1>5, <2>1 DEF UpdateStatus, recordVars, KeyState, ToldOf, Api!apiVars
  <1>6. CASE UNCHANGED <<key, recordVars, payment>>
    <2>1. ChargedTo' = ChargedTo
      BY <1>6, SameCharges
    <2> QED BY <1>6, <2>1 DEF recordVars, KeyState, ToldOf, Api!apiVars
  <1> QED
    BY <1>1, <1>2, <1>3, <1>4, <1>5, <1>6
    DEF Next, Serve, Refuse, GetRecord, AcquireLock, ReleaseLock, Publish,
        LockExpires, Crash, vars, requestVars

(* Every behaviour of the gateway, with faults, crashes and expiring locks,  *)
(* is a behaviour of the idempotent API.                                     *)
THEOREM GatewayImplementsApi == Spec => ImplementsApi
<1>1. QED BY ApiInit, ApiStep, AnswerInit, AnswerStep, PTL DEF Spec, ImplementsApi, Api!Spec

-----------------------------------------------------------------------------
(***************************************************************************)
(* Errors and charges.  ErrorMeansNoCharge fails when a store call does,   *)
(* and then only: the two 500s over a committed payments row are those of  *)
(* a lost commit and of a failed status UPDATE.  Crashes, expiring locks   *)
(* and requests that race for a key add none.                              *)
(***************************************************************************)
BeforeHandler(r) == pc[r] \in {"idle", "GetRecord", "AcquireLock", "CreatePendingRecord"}
EarlyUncharged == \A r \in Requests : BeforeHandler(r) => payment[r] = "none"
ErrorUncharged == \A r \in Requests : response[r].code = 500 => payment[r] = "none"

ChargeInv == AnswerInv /\ EarlyUncharged /\ ErrorUncharged

LEMMA ChargeInit == Init => ChargeInv
  BY AnswerInit DEF Init, ChargeInv, EarlyUncharged, ErrorUncharged

LEMMA ChargeStep == ~Faults /\ ChargeInv /\ [Next]_vars => ChargeInv'
  <1> SUFFICES ASSUME ~Faults, ChargeInv, [Next]_vars PROVE ChargeInv'
    OBVIOUS
  <1>0. AnswerInv /\ AnswerInv' /\ TypeOK
    BY AnswerStep DEF ChargeInv, AnswerInv, ExecInv, TypeInv
  <1> USE <1>0 DEF ChargeInv, EarlyUncharged, ErrorUncharged, BeforeHandler, TypeOK,
                   Goto, Write, requestVars
  <1>1. ASSUME NEW r \in Requests, Refuse(r) \/ Receive(r) PROVE ChargeInv'
    BY <1>1 DEF Refuse, Receive
  <1>2. ASSUME NEW r \in Requests,
               GetRecord(r) \/ AcquireLock(r) \/ CreatePendingRecord(r)
        PROVE  ChargeInv'
    BY <1>2 DEF GetRecord, AcquireLock, CreatePendingRecord
  <1>3. ASSUME NEW r \in Requests, ProcessPayment(r) PROVE ChargeInv'
    <2>1. payment[r] = "none"
      BY <1>3 DEF ProcessPayment, AnswerInv, ExecInv, SingleExecution, ConstraintUnused, Charged
    <2>2. response[r].code # 500
      BY <1>3, Fields DEF ProcessPayment, AnswerInv, Unanswered
    <2> QED BY <1>3, <2>1, <2>2 DEF ProcessPayment, HandlerFails
  <1>4. ASSUME NEW r \in Requests, UpdateStatus(r) PROVE ChargeInv'
    BY <1>4, Fields DEF UpdateStatus
  <1>5. ASSUME NEW r \in Requests, CompleteRecord(r) \/ ReleaseLock(r) \/ Publish(r)
        PROVE  ChargeInv'
    BY <1>5 DEF CompleteRecord, ReleaseLock, Publish
  <1>6. ASSUME NEW k \in Keys, LockExpires(k) PROVE ChargeInv'
    BY <1>6 DEF LockExpires
  <1>7. CASE Crash
    BY <1>7, Fields DEF Crash, Live
  <1>8. CASE UNCHANGED vars
    BY <1>8 DEF vars
  <1> QED BY <1>1, <1>2, <1>3, <1>4, <1>5, <1>6, <1>7, <1>8 DEF Next, Serve

(* As long as no store call fails, an error answer leaves no payment behind, *)
(* whatever crashes: the counterexamples to "If a step fails, compensating   *)
(* transactions are fired" all take a failing call                           *)
(* (payment_service.go:62-107).                                              *)
THEOREM ErrorChargesNothing ==
    ASSUME ~Faults
    PROVE  Spec => []ErrorMeansNoCharge
<1>1. ChargeInv => ErrorMeansNoCharge
  BY DEF ChargeInv, ErrorUncharged, ErrorMeansNoCharge
<1>2. ChargeInv /\ [Next]_vars => ChargeInv'
  BY ChargeStep
<1>3. QED BY <1>1, <1>2, ChargeInit, PTL DEF Spec

-----------------------------------------------------------------------------
(***************************************************************************)
(* Keys that answer 409 for ever.  The safety side of InProgressResolves:  *)
(* who is going to complete a record in progress?                          *)
(***************************************************************************)
Owned(k) == \E r \in Requests : InHandler(r) /\ key[r] = k
ClaimOwned ==
    crashes = 0 => \A k \in Keys : record[k] = "in_progress" => Owned(k)

LEMMA ClaimOwnedStep ==
    ASSUME ~Faults, TypeInv, ClaimOwned, [Next]_vars PROVE ClaimOwned'
  <1> USE DEF TypeInv, TypeOK, ClaimOwned, Owned, InHandler, Goto, Write, requestVars, recordVars
  <1>1. ASSUME NEW r \in Requests,
               Refuse(r) \/ Receive(r) \/ GetRecord(r) \/ AcquireLock(r) \/ Publish(r)
                         \/ ReleaseLock(r)
        PROVE  ClaimOwned'
    <2>1. /\ UNCHANGED <<record, crashes>>
          /\ ~InHandler(r) \/ UNCHANGED <<pc, key>>
          /\ \A q \in Requests : q # r => pc'[q] = pc[q] /\ key'[q] = key[q]
      BY <1>1 DEF Refuse, Receive, GetRecord, AcquireLock, Publish, ReleaseLock
    <2> QED BY <2>1
  <1>2. ASSUME NEW r \in Requests, CreatePendingRecord(r) PROVE ClaimOwned'
    BY <1>2 DEF CreatePendingRecord, HasKey, Live
  <1>3. ASSUME NEW r \in Requests, ProcessPayment(r) \/ UpdateStatus(r) PROVE ClaimOwned'
    <2>1. /\ UNCHANGED <<record, crashes, key>> /\ pc'[r] \in {"UpdateStatus", "CompleteRecord"}
          /\ \A q \in Requests : q # r => pc'[q] = pc[q]
      BY <1>3 DEF ProcessPayment, UpdateStatus, HandlerFails
    <2> QED BY <2>1
  <1>4. ASSUME NEW r \in Requests, CompleteRecord(r) PROVE ClaimOwned'
    BY <1>4 DEF CompleteRecord, HasKey, Live
  <1>5. ASSUME NEW k \in Keys, LockExpires(k) PROVE ClaimOwned'
    BY <1>5 DEF LockExpires
  <1>6. CASE Crash
    BY <1>6 DEF Crash
  <1>7. CASE UNCHANGED vars
    BY <1>7 DEF vars
  <1> QED BY <1>1, <1>2, <1>3, <1>4, <1>5, <1>6, <1>7 DEF Next, Serve

(* Without failing calls and until a crash, every record in progress has a   *)
(* request in the handler that completes it: only a crash leaves a key that  *)
(* answers 409 for ever (idempotency.go:64-68, 99).                          *)
THEOREM OnlyCrashesOrphan ==
    ASSUME ~Faults
    PROVE  Spec => []ClaimOwned
<1>1. Init => ClaimOwned
  BY DEF Init, ClaimOwned
<1>2. TypeInv /\ ClaimOwned /\ [Next]_vars => ClaimOwned'
  BY ClaimOwnedStep
<1>3. QED BY <1>1, <1>2, TypeInit, TypeStep, PTL DEF Spec
=============================================================================
