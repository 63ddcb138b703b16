------------------------------ MODULE MoneyFlow ------------------------------
(***************************************************************************)
(* A payment after the gateway stored it: the ledger posts it, the         *)
(* settlement service groups posted payments and pays them out, the admin  *)
(* API refunds them.  The services share the tables payments, settlements, *)
(* refunds and ledger_entries, and talk through the topic payment_events;  *)
(* every handler is one database transaction, every event leaves a service *)
(* in a goroutine of its own after that transaction.                       *)
(*                                                                         *)
(* One merchant.  Ledger entries are written in balanced pairs by the same *)
(* transaction, so the model keeps the transaction groups: how often a     *)
(* payment was captured, which settlements were paid, how often a payment  *)
(* was refunded.                                                           *)
(***************************************************************************)
EXTENDS Integers, Sequences, FiniteSetsExt

CONSTANTS
    Payments,
    Amount,       \* payment -> amount in minor units
    Currency,     \* payment -> currency of the request
    Usd,          \* the currency IssueRefund looks for: 'usd'
    Admins,       \* concurrent calls of IssueRefund
    Joined,       \* consumers that have committed an offset before
    None,
    Faults,       \* may a database or Kafka call fail?
    MaxLog,       \* bound: see KafkaTopic
    MaxRestarts   \* bound: restarts of services

Currencies == {Currency[p] : p \in Payments}

ASSUME PaymentAssumption ==
    /\ Amount \in [Payments -> Nat \ {0}]
    /\ None \notin Payments
    /\ Joined \subseteq {"ledger", "settlement"}
ASSUME MoneyBoundAssumption ==
    MaxLog \in Nat /\ MaxRestarts \in Nat /\ Faults \in BOOLEAN

Services == {"gateway", "ledger", "settlement"}
Consumers == {"ledger", "settlement"}

VARIABLES
    status,        \* payment -> payments.status, "none" when there is no row
    settlementId,  \* payment -> payments.settlement_id, 0 for NULL
    older,         \* <<p, q>>: unsettled payments, p with the earlier updated_at
    captures,      \* payment -> capture groups in ledger_entries
    settlements,   \* the settlements rows, each with its own ledger group
    refunds,       \* payment -> refunds rows, each with its own ledger group
    reading,       \* admin call -> payment whose status it has read
    outbox,        \* <<service, event>>: publish goroutines that still run
    batch,         \* rows of the current poll not published yet
    webhooks,      \* events in the topic webhook_events
    restarts,
    log, position, committed, acking   \* the topic payment_events

ledgerVars == <<captures, older>>
settlementVars == <<settlementId, settlements>>
refundVars == <<refunds, reading>>
moneyVars == <<status, ledgerVars, settlementVars>>
eventVars == <<outbox, batch, webhooks>>
topicVars == <<log, position, committed, acking>>
vars == <<moneyVars, refundVars, eventVars, restarts, topicVars>>

Topic == INSTANCE KafkaTopic WITH Groups <- Consumers, LossyCommit <- Faults

(* Events of payment_events, told apart by their status field; the ledger's *)
(* payment.initiated goes to webhook_events instead.                        *)
Created(p) == [status |-> "created", ids |-> {p}, amount |-> Amount[p],
               currency |-> Currency[p]]
Settled(p, e) == [status |-> "settled", ids |-> {p}, amount |-> e.amount,
                  currency |-> e.currency]
Worth(S) == MapThenSumSet(LAMBDA p : Amount[p], S)
TotalDistinct(S) == SumSet({Amount[p] : p \in S})                       \* mutant
Total(S) == Worth(S)
Settle(S, c) == [status |-> "initiated", ids |-> S, amount |-> Total(S),
                 currency |-> c]
Initiated(p) == [event_type |-> "payment.initiated", payment |-> p]

Init ==
    /\ status = [p \in Payments |-> "none"]
    /\ settlementId = [p \in Payments |-> 0]
    /\ older = {}
    /\ captures = [p \in Payments |-> 0]
    /\ settlements = <<>>
    /\ refunds = [p \in Payments |-> 0]
    /\ reading = [a \in Admins |-> None]
    /\ outbox = {} /\ batch = {} /\ webhooks = {}
    /\ restarts = 0
    /\ Topic!TopicInit

-----------------------------------------------------------------------------
(* The gateway stores the payment and starts the goroutine that announces it; *)
(* PaymentGateway shows how it can answer 500 and announce nothing.           *)
CreatePayment(p) ==
    /\ status[p] = "none"
    /\ status' = [status EXCEPT ![p] = "created"]
    /\ \/ outbox' = outbox \cup {<<"gateway", Created(p)>>}
       \/ Faults /\ UNCHANGED outbox
    /\ UNCHANGED <<ledgerVars, settlementVars, refundVars, batch,
                   webhooks, restarts, topicVars>>

(* A publish goroutine: the event reaches its topic or the error is dropped. *)
PublishEvent(s, e) ==
    /\ <<s, e>> \in outbox
    /\ outbox' = outbox \ {<<s, e>>}
    /\ \/ s # "ledger" /\ Topic!Publish(e) /\ UNCHANGED webhooks
       \/ s = "ledger" /\ webhooks' = webhooks \cup {e} /\ UNCHANGED topicVars
       \/ Faults /\ UNCHANGED <<webhooks, topicVars>>
    /\ UNCHANGED <<moneyVars, refundVars, batch, restarts>>

-----------------------------------------------------------------------------
(* Posted payments without a settlement. *)
Unsettled == {p \in Payments : captures[p] > 0 /\ settlementId[p] = 0}

OlderWithout(S) == {x \in older : x[1] \notin S /\ x[2] \notin S}

(* The ledger's transaction.  It sets updated_at, so the payout interval     *)
(* starts anew, and it does not look at the status it overwrites.            *)
Post(p) ==
    /\ status' = [status EXCEPT ![p] = "initiated"]
    /\ captures' = [captures EXCEPT ![p] = @ + 1]
    /\ older' = IF settlementId[p] = 0
                THEN OlderWithout({p}) \cup ((Unsettled \ {p}) \X {p})
                ELSE older
    /\ UNCHANGED settlementVars

ForwardsItsInput(p) == outbox' = outbox \cup {<<"ledger", Created(p)>>} \* mutant
LedgerAnnounces(p) == outbox' = outbox \cup {<<"ledger", Initiated(p)>>}

LedgerErrorAnnounced(p) ==                                             \* mutant
    (UNCHANGED moneyVars \/ Post(p)) /\ LedgerAnnounces(p)

(* An error: the transaction rolled back, or its commit was not acknowledged. *)
LedgerError(p) == (UNCHANGED moneyVars \/ Post(p)) /\ UNCHANGED outbox

ForLedger(e) == e.status = "created"

HandlePaymentEvent ==
    /\ Topic!Ready("ledger")
    /\ LET e == Topic!Fetched("ledger")
       IN  \/ /\ ~ForLedger(e)
              /\ Topic!HandlerSucceeds("ledger")
              /\ UNCHANGED <<moneyVars, outbox>>
           \/ \E p \in e.ids :
                /\ ForLedger(e)
                /\ Topic!HandlerSucceeds("ledger")
                /\ Post(p)
                /\ LedgerAnnounces(p)
           \/ \E p \in e.ids :
                /\ Faults /\ ForLedger(e)
                /\ Topic!HandlerFails("ledger")
                /\ LedgerError(p)
    /\ UNCHANGED <<refundVars, batch, webhooks, restarts>>

-----------------------------------------------------------------------------
DueOfAnyStatus(due, c) ==                                              \* mutant
    {p \in Payments : status[p] # "none" /\ settlementId[p] = 0 /\ Currency[p] = c}

StillCreated(due, c) == {p \in due : status[p] = "created"}             \* mutant

Eligible(due, c) ==
    {p \in Payments : p \in due /\ status[p] = "initiated"
                                /\ settlementId[p] = 0 /\ Currency[p] = c}

(* The payout interval runs from updated_at and an admin may change it at any *)
(* time, so the due payments are the oldest, however many.                    *)
Oldest ==
    {due \in SUBSET Unsettled :
        due # {} /\ \A x \in older : x[2] \in due => x[1] \in due}

(* The ticker's query: one event per currency.  Nothing marks the payments as *)
(* dispatched: the next tick selects them again until they are paid.          *)
PollSettlements ==
    /\ batch = {}
    /\ \E due \in Oldest :
         batch' = {Settle(Eligible(due, c), c) :
                     c \in {d \in Currencies : Eligible(due, d) # {}}}
    /\ UNCHANGED <<moneyVars, refundVars, outbox, webhooks, restarts, topicVars>>

DispatchSettlement(e) ==
    /\ e \in batch
    /\ batch' = batch \ {e}
    /\ \/ Topic!Publish(e)
       \/ Faults /\ UNCHANGED topicVars
    /\ UNCHANGED <<moneyVars, refundVars, outbox, webhooks, restarts>>

AllIds(e) == e.ids                                                     \* mutant

(* UPDATE payments ... WHERE id = ANY(ids) AND settlement_id IS NULL *)
Targets(e) == {p \in e.ids : settlementId[p] = 0}

PaysAnyway(e) == TRUE                                                  \* mutant

(* RowsAffected() == 0 returns before the commit and takes the row back. *)
PaysOut(e) == Targets(e) # {}

(* The settlement's transaction pays the amount the poll summed up. *)
PayOut(e) ==
    /\ settlements' = Append(settlements, [amount |-> e.amount, currency |-> e.currency])
    /\ settlementId' = [p \in Payments |-> IF p \in Targets(e)
                                           THEN Len(settlements) + 1
                                           ELSE settlementId[p]]
    /\ status' = [p \in Payments |-> IF p \in Targets(e) THEN "processed" ELSE status[p]]
    /\ older' = OlderWithout(Targets(e))
    /\ UNCHANGED captures

HandleSettleEvent ==
    /\ Topic!Ready("settlement")
    /\ LET e == Topic!Fetched("settlement")
           pays == e.status = "initiated" /\ PaysOut(e)
       IN  \/ /\ ~pays
              /\ Topic!HandlerSucceeds("settlement")
              /\ UNCHANGED <<moneyVars, outbox>>
           \/ /\ pays
              /\ Topic!HandlerSucceeds("settlement")
              /\ PayOut(e)
              /\ outbox' = outbox \cup {<<"settlement", Settled(p, e)>> : p \in e.ids}
           \/ /\ Faults /\ e.status = "initiated"
              /\ Topic!HandlerFails("settlement")
              /\ UNCHANGED moneyVars \/ (pays /\ PayOut(e))
              /\ UNCHANGED outbox
    /\ UNCHANGED <<refundVars, batch, webhooks, restarts>>

Commit(g) ==
    /\ Topic!CommitMessages(g)
    /\ UNCHANGED <<moneyVars, refundVars, eventVars, restarts>>

-----------------------------------------------------------------------------
AnyUnrefunded(p) == status[p] \notin {"none", "refunded"}              \* mutant
Refundable(p) == status[p] = "processed"

(* IssueRefund up to its checks: a plain SELECT, which locks nothing. *)
RefundReads(a, p) ==
    /\ reading[a] = None
    /\ Refundable(p)
    /\ reading' = [reading EXCEPT ![a] = p]
    /\ UNCHANGED <<moneyVars, refunds, eventVars, restarts, topicVars>>

PayableExists(c) == \E p \in Payments : captures[p] > 0 /\ Currency[p] = c

(* The rest of IssueRefund: it commits, or an error rolls it back, always so *)
(* when the merchant has no payable account in 'usd'.                        *)
RefundWrites(a) ==
    /\ reading[a] # None
    /\ reading' = [reading EXCEPT ![a] = None]
    /\ \/ /\ PayableExists(Usd)
          /\ refunds' = [refunds EXCEPT ![reading[a]] = @ + 1]
          /\ status' = [status EXCEPT ![reading[a]] = "refunded"]
       \/ /\ Faults \/ ~PayableExists(Usd)
          /\ UNCHANGED <<refunds, status>>
    /\ UNCHANGED <<ledgerVars, settlementVars, eventVars, restarts,
                   topicVars>>

-----------------------------------------------------------------------------
(* A service dies and starts again: its goroutines and, for the settlement   *)
(* service, the rest of its poll are gone.                                   *)
RestartService(s) ==
    /\ restarts < MaxRestarts
    /\ restarts' = restarts + 1
    /\ outbox' = {x \in outbox : x[1] # s}
    /\ batch' = IF s = "settlement" THEN {} ELSE batch
    /\ IF s \in Consumers THEN Topic!Restart(s) ELSE UNCHANGED topicVars
    /\ UNCHANGED <<moneyVars, refundVars, webhooks>>

Forget ==
    /\ Topic!Forget
    /\ UNCHANGED <<moneyVars, refundVars, eventVars, restarts>>

Next ==
    \/ \E p \in Payments : CreatePayment(p)
    \/ \E x \in outbox : PublishEvent(x[1], x[2])
    \/ HandlePaymentEvent
    \/ HandleSettleEvent
    \/ \E g \in Consumers : Commit(g)
    \/ PollSettlements
    \/ \E e \in batch : DispatchSettlement(e)
    \/ \E a \in Admins, p \in Payments : RefundReads(a, p)
    \/ \E a \in Admins : RefundWrites(a)
    \/ \E s \in Services : RestartService(s)
    \/ Forget

Spec == Init /\ [][Next]_vars

(* Services keep running their loops and goroutines.  A publish waits while   *)
(* the bounded log is full, so it is given strong fairness.                   *)
Fairness ==
    /\ WF_vars(HandlePaymentEvent) /\ WF_vars(HandleSettleEvent)
    /\ \A g \in Consumers : WF_vars(Commit(g))
    /\ WF_vars(PollSettlements) /\ WF_vars(Forget)
    /\ SF_vars(\E e \in batch : DispatchSettlement(e))
    /\ SF_vars(\E x \in outbox : PublishEvent(x[1], x[2]))

FairSpec == Spec /\ Fairness

-----------------------------------------------------------------------------
Groupings == (SUBSET Payments) \ {{}}
Totals == {Total(S) : S \in Groupings}

CreatedEvents == {Created(p) : p \in Payments}
SettleEvents == {Settle(S, c) : S \in Groupings, c \in Currencies}
SettledEvents == [status : {"settled"}, ids : {{p} : p \in Payments},
                  amount : Totals, currency : Currencies]
Events == CreatedEvents \cup SettleEvents \cup SettledEvents
Settlement == [amount : Totals, currency : Currencies]

TypeOK ==
    /\ status \in [Payments -> {"none", "created", "initiated", "processed", "refunded"}]
    /\ settlementId \in [Payments -> 0..Len(settlements)]
    /\ older \subseteq Unsettled \X Unsettled
    /\ captures \in [Payments -> Nat] /\ refunds \in [Payments -> Nat]
    /\ settlements \in Seq(Settlement)
    /\ reading \in [Admins -> Payments \cup {None}]
    /\ outbox \subseteq Services \X (Events \cup {Initiated(p) : p \in Payments})
    /\ batch \subseteq SettleEvents
    /\ webhooks \subseteq {Initiated(p) : p \in Payments}
    /\ restarts \in 0..MaxRestarts
    /\ Topic!TopicTypeOK(Events)

Attached(i) == {p \in Payments : settlementId[p] = i}

(* Money only leaves for a payment that the ledger has credited before,      *)
(* whatever was redelivered, polled again or failed half-way                 *)
(* (settlement_service.go:51, ledger_service.go:68-127).                     *)
SettledWasPosted ==
    \A p \in Payments : settlementId[p] # 0 => captures[p] > 0

(* A settlement never pays less than the payments it settles are worth, and  *)
(* none is an empty shell (settlement_service.go:129-158).                   *)
NeverUnderpaid ==
    \A i \in 1..Len(settlements) : Worth(Attached(i)) <= settlements[i].amount

NoEmptySettlement == \A i \in 1..Len(settlements) : Attached(i) # {}

(* Only what was paid out is refunded, even when the refund's check and its  *)
(* writes are apart (admin_service.go:291-318).                              *)
RefundedWasSettled ==
    \A p \in Payments : refunds[p] > 0 => settlementId[p] # 0

(* A merchant is told "initiated" only of a payment the ledger has posted    *)
(* (ledger_service.go:125-145).                                              *)
AnnouncedWasPosted ==
    \A p \in Payments : Initiated(p) \in webhooks => captures[p] > 0

(* Redelivery is the only source of a second posting: a payment is captured  *)
(* at most once more per restart, whatever fails (consumer.go:33-50).        *)
PostingsBounded == \A p \in Payments : captures[p] <= 1 + restarts

(* A payment that is attached to a settlement stays attached to it.          *)
SettlementIdStable ==
    [][\A p \in Payments : settlementId[p] # 0 => settlementId'[p] = settlementId[p]]_vars

(* A payout is the only way to "processed" and happens once: a settled        *)
(* payment whose status the ledger's redelivery or a refund has overwritten   *)
(* is not processed again by an overlapping poll, so its refund does not      *)
(* become possible anew (ledger_service.go:69, settlement_service.go:152).    *)
ProcessedOnce ==
    [][\A p \in Payments :
          settlementId[p] # 0 /\ status[p] # "processed"
            => status'[p] # "processed"]_vars

(* Polling again is the retry of the payout: a posted payment is paid out    *)
(* eventually, although a restart may lose the poll or its events            *)
(* (settlement_service.go:28-98).                                            *)
InitiatedIsSettled ==
    \A p \in Payments :
        (status[p] = "initiated" /\ settlementId[p] = 0) ~> settlementId[p] # 0

(* Failures alone do not reset the status of a settled payment; the           *)
(* redelivery after a restart does, since the ledger's UPDATE ignores the     *)
(* status it overwrites (ledger_service.go:68-72).                            *)
SettledKeepsStatus ==
    restarts = 0 => \A p \in Payments :
        settlementId[p] # 0 => status[p] \in {"processed", "refunded"}

(***************************************************************************)
(* Claims of the source and the documents that the code does not keep.     *)
(***************************************************************************)
(* "The Kafka worker will check settlement_id IS NULL to ensure idempotency":*)
(* a settlement pays the payments it settles and nothing twice.              *)
SettlementPaysAttached ==
    \A i \in 1..Len(settlements) : Worth(Attached(i)) = settlements[i].amount

(* "can only refund processed payments": a refunded one is not refunded again. *)
RefundedOnce == \A p \in Payments : refunds[p] <= 1
=============================================================================
