------------------------------- MODULE Billing -------------------------------
(***************************************************************************)
(* The billing worker of services/subscriptions: a ticker finds the        *)
(* subscriptions whose period has ended and charges them one after the     *)
(* other through the gateway, which is IdempotentApi here (PaymentGateway  *)
(* implements it).  The worker writes every invoice and every subscription *)
(* in statements of their own and drops their errors.                      *)
(*                                                                         *)
(* Time is counted in periods, and so is current_period_end.  An invoice's *)
(* id is its Idempotency-Key, so the gateway knows the charge by it.       *)
(***************************************************************************)
EXTENDS Integers, FiniteSets

CONSTANTS
    Subs,        \* subscriptions
    Limit,       \* LIMIT of the query for due subscriptions
    Payment,     \* the payment the gateway stored for an invoice
    None,        \* no invoice, no payment
    Redirected,  \* does port 80 answer 301, as nginx.conf has it?
    MaxPeriods,  \* bound: how far time runs
    MaxFaults    \* bound: how many calls fail or time out, crashes included

ASSUME SubsAssumption == IsFiniteSet(Subs) /\ Limit \in Nat \ {0}
ASSUME ProxyAssumption == Redirected \in BOOLEAN
ASSUME BillingBoundAssumption == MaxPeriods \in Nat /\ MaxFaults \in Nat

(* An attempt extends a period, ends a subscription or costs a fault, so     *)
(* these invoices suffice.                                                   *)
Invoices == 1 .. Cardinality(Subs) * MaxPeriods + MaxFaults

ASSUME NoneIsFree == None \notin Subs \cup Invoices \cup {Payment}

VARIABLES
    now,         \* the current period
    status,      \* subscription -> subscriptions.status, "none" when no row
    periodEnd,   \* subscription -> current_period_end
    begun,       \* subscription -> current_period_end at creation
    invoice,     \* invoice -> invoices.status, "none" when no row
    owner,       \* invoice -> its subscription
    sent,        \* invoices whose charge was requested from the gateway
    step,        \* the worker's next call
    rows,        \* subscriptions of the current query still to be charged
    current,     \* the invoice the worker is charging
    faults,
    state, charged, told     \* the gateway

Api == INSTANCE IdempotentApi WITH Keys <- Invoices, Payments <- {Payment}

subVars == <<status, periodEnd, begun>>
invoiceVars == <<invoice, owner>>
workerVars == <<step, rows, current>>
apiVars == <<state, charged, told>>
vars == <<now, subVars, invoiceVars, sent, workerVars, faults, apiVars>>

Init ==
    /\ now = 0
    /\ status = [s \in Subs |-> "none"]
    /\ periodEnd = [s \in Subs |-> 0] /\ begun = [s \in Subs |-> 0]
    /\ invoice = [i \in Invoices |-> "none"]
    /\ owner = [i \in Invoices |-> None]
    /\ sent = {}
    /\ step = "wait" /\ rows = {} /\ current = None
    /\ faults = 0
    /\ Api!Init

Fault == faults < MaxFaults /\ faults' = faults + 1
NoFault == UNCHANGED faults

-----------------------------------------------------------------------------
CreateSubscription(s) ==
    /\ status[s] = "none"
    /\ now < MaxPeriods
    /\ status' = [status EXCEPT ![s] = "active"]
    /\ periodEnd' = [periodEnd EXCEPT ![s] = now + 1]
    /\ begun' = [begun EXCEPT ![s] = now + 1]
    /\ UNCHANGED <<now, invoiceVars, sent, workerVars, faults, apiVars>>

PeriodEnds ==
    /\ now < MaxPeriods
    /\ now' = now + 1
    /\ UNCHANGED <<subVars, invoiceVars, sent, workerVars, faults, apiVars>>

DueToday(s) == status[s] = "active" /\ periodEnd[s] = now                \* mutant
Due(s) == status[s] = "active" /\ periodEnd[s] <= now
DueSubs == {s \in Subs : Due(s)}

(* The query has no order: any Limit of the due subscriptions. *)
FindDue ==
    /\ step = "wait"
    /\ \E S \in SUBSET DueSubs :
         /\ S # {}
         /\ Cardinality(S) = Limit \/ (S = DueSubs /\ Cardinality(S) < Limit)
         /\ rows' = S
    /\ step' = "draft"
    /\ UNCHANGED <<now, subVars, invoiceVars, sent, current, faults, apiVars>>

KeepsRow(rest) == rows' = rows /\ step' = "draft" /\ current' = None  \* mutant

(* The loop goes on to the next row, or waits for the next tick. *)
NextRow(rest) ==
    /\ rows' = rest
    /\ step' = IF rest = {} THEN "wait" ELSE "draft"
    /\ current' = None

Fresh(i) == invoice[i] = "none" /\ \A j \in 1 .. i - 1 : invoice[j] # "none"

(* INSERT of a draft; an error, with or without the row, skips the row. *)
DraftInvoice(s) ==
    /\ step = "draft" /\ s \in rows
    /\ \/ \E i \in Invoices :
            /\ Fresh(i)
            /\ invoice' = [invoice EXCEPT ![i] = "draft"]
            /\ owner' = [owner EXCEPT ![i] = s]
            /\ \/ NoFault /\ current' = i /\ step' = "send" /\ UNCHANGED rows
               \/ Fault /\ NextRow(rows \ {s})
       \/ /\ Fault
          /\ NextRow(rows \ {s})
          /\ UNCHANGED invoiceVars
    /\ UNCHANGED <<now, subVars, sent, apiVars>>

(* The POST goes to port 80.  A 301 is followed as a GET, for which the      *)
(* gateway has no route: it answers 405, and no charge is requested.         *)
SendCharge ==
    /\ step = "send"
    /\ IF Redirected
       THEN step' = "uncollectible" /\ UNCHANGED sent
       ELSE step' = "answer" /\ sent' = sent \cup {current}
    /\ UNCHANGED <<now, subVars, invoiceVars, rows, current, faults, apiVars>>

(* The gateway serves the request, also after the worker has given up. *)
GatewayStep(i) ==
    /\ i \in sent
    /\ \/ (Api!Claim(i) \/ Api!Charge(i)) /\ NoFault
       \/ /\ Api!Finish(i)
          /\ IF told'[i] = None THEN Fault ELSE NoFault
    /\ UNCHANGED <<now, subVars, invoiceVars, sent, workerVars>>

Declined(i) == state[i] = "finished" /\ told[i] = None
Confirmed(i) == state[i] = "finished" /\ told[i] # None

Unrecorded(i) == state[i] = "claimed" /\ charged[i] # None

(* A 201, an error of the gateway, or no answer within the client's 10 s.     *)
(* The 201 is delivered too when the gateway could not complete its record.   *)
(* A connection that breaks may make the client's transport send the request  *)
(* again, as it has an Idempotency-Key: that is a fault with either outcome.  *)
GetAnswer ==
    /\ step = "answer"
    /\ \/ Confirmed(current) /\ NoFault /\ step' = "paid"
       \/ Unrecorded(current) /\ Fault /\ step' = "paid"
       \/ Declined(current) /\ NoFault /\ step' = "uncollectible"
       \/ Fault /\ step' = "uncollectible"
    /\ UNCHANGED <<now, subVars, invoiceVars, sent, rows, current, apiVars>>

MarkUncollectible ==
    /\ step = "uncollectible"
    /\ \/ NoFault /\ invoice' = [invoice EXCEPT ![current] = "uncollectible"]
       \/ Fault /\ UNCHANGED invoice
    /\ step' = "past_due"
    /\ UNCHANGED <<now, subVars, owner, sent, rows, current, apiVars>>

MarkPastDue ==
    /\ step = "past_due"
    /\ \/ NoFault /\ status' = [status EXCEPT ![owner[current]] = "past_due"]
       \/ Fault /\ UNCHANGED status
    /\ NextRow(rows \ {owner[current]})
    /\ UNCHANGED <<now, periodEnd, begun, invoiceVars, sent, apiVars>>

ExtendFromNow(s) == periodEnd' = [periodEnd EXCEPT ![s] = now + 1]       \* mutant
ExtendTwice(s) == periodEnd' = [periodEnd EXCEPT ![s] = @ + 2]           \* mutant
InvoiceOnly(s) == UNCHANGED periodEnd                                    \* mutant
Extend(s) == periodEnd' = [periodEnd EXCEPT ![s] = @ + 1]

(* One transaction; all its errors are dropped and the loop goes on. *)
ExtendPeriod ==
    /\ step = "paid"
    /\ \/ /\ NoFault
          /\ invoice' = [invoice EXCEPT ![current] = "paid"]
          /\ Extend(owner[current])
       \/ Fault /\ UNCHANGED <<invoice, periodEnd>>
    /\ NextRow(rows \ {owner[current]})
    /\ UNCHANGED <<now, status, begun, owner, sent, apiVars>>

(* The process dies; it also does when Begin fails, since the deferred       *)
(* Rollback is then called on a nil transaction.                             *)
Crash ==
    /\ step # "wait"
    /\ Fault
    /\ step' = "wait" /\ rows' = {} /\ current' = None
    /\ UNCHANGED <<now, subVars, invoiceVars, sent, apiVars>>

-----------------------------------------------------------------------------
Worker ==
    \/ FindDue
    \/ \E s \in Subs : DraftInvoice(s)
    \/ SendCharge
    \/ GetAnswer
    \/ MarkUncollectible
    \/ MarkPastDue
    \/ ExtendPeriod

Next ==
    \/ \E s \in Subs : CreateSubscription(s)
    \/ PeriodEnds
    \/ Worker
    \/ \E i \in Invoices : GatewayStep(i)
    \/ Crash

Spec == Init /\ [][Next]_vars

(* The ticker keeps ticking, the gateway keeps serving. *)
FairSpec ==
    /\ Spec
    /\ WF_vars(Worker)
    /\ \A i \in Invoices : WF_vars(GatewayStep(i))

-----------------------------------------------------------------------------
TypeOK ==
    /\ now \in 0..MaxPeriods /\ faults \in 0..MaxFaults
    /\ status \in [Subs -> {"none", "active", "past_due"}]
    /\ periodEnd \in [Subs -> 0..MaxPeriods + 1] /\ begun \in [Subs -> 0..MaxPeriods]
    /\ invoice \in [Invoices -> {"none", "draft", "paid", "uncollectible"}]
    /\ owner \in [Invoices -> Subs \cup {None}]
    /\ sent \subseteq Invoices
    /\ step \in {"wait", "draft", "send", "answer", "uncollectible", "past_due", "paid"}
    /\ rows \subseteq Subs /\ current \in Invoices \cup {None}
    /\ state \in [Invoices -> {"fresh", "claimed", "finished"}]
    /\ charged \in [Invoices -> {None, Payment}] /\ told \in [Invoices -> {None, Payment}]

InvoicesOf(s) == {i \in Invoices : owner[i] = s}
Charges == {i \in Invoices : charged[i] # None}
Granted ==
    {g \in Subs \X (1 .. MaxPeriods + 1) : begun[g[1]] < g[2] /\ g[2] <= periodEnd[g[1]]}

(* A customer is charged for a period again only because something failed:  *)
(* over all subscriptions the charges beyond the periods granted are at most *)
(* one per failure, plus the charge under way (billing_worker.go:86-134).    *)
OverchargesBounded ==
    Cardinality(Charges)
      <= Cardinality(Granted) + faults + (IF current = None THEN 0 ELSE 1)

(* No period is granted for free: every one has an invoice of its own that   *)
(* is paid, and the gateway has the charge (billing_worker.go:108-134).      *)
PeriodsArePaid ==
    \A s \in Subs :
        /\ periodEnd[s] - begun[s] = Cardinality({i \in InvoicesOf(s) : invoice[i] = "paid"})
        /\ \A i \in InvoicesOf(s) : invoice[i] = "paid" => charged[i] # None

(* A subscription is billed only for periods that have ended, although the   *)
(* rows were read before the charges and a row may be due several times      *)
(* (billing_worker.go:46-67 and 127-133).                                    *)
NeverAhead == \A s \in Subs : status[s] # "none" => periodEnd[s] <= now + 1

(* A customer lapses only because something failed: before the first failed   *)
(* call, error of the gateway or timeout no subscription is past due, however *)
(* its charge and those of the other rows are interleaved with the gateway    *)
(* (billing_worker.go:103-113).  Where port 80 redirects, this does not hold. *)
LapsesOnlyOnFailure == faults = 0 => \A s \in Subs : status[s] # "past_due"

(* A due subscription is billed or past due eventually, whatever finitely     *)
(* many failures do and although the query takes any Limit of them.           *)
DueIsBilled ==
    \A s \in Subs : \A n \in 1..MaxPeriods :
        (Due(s) /\ periodEnd[s] = n) ~> (periodEnd[s] > n \/ status[s] = "past_due")
=============================================================================
