---------------------------- MODULE BillingProofs ----------------------------
(***************************************************************************)
(* Proofs about Billing, for any finite set of subscriptions, any LIMIT of *)
(* the query, any number of periods and of failures.                       *)
(***************************************************************************)
EXTENDS Billing, FiniteSetTheorems, TLAPS

-----------------------------------------------------------------------------
(* What the worker read is still true when it acts on it: nobody else ends a *)
(* period or writes the invoice it is charging.                              *)
Charging == step \notin {"wait", "draft"}

WorkInv ==
    /\ step = "wait" => rows = {}
    /\ ~Charging => current = None
    /\ \A s \in rows : Due(s)
    /\ Charging => /\ current \in Invoices /\ owner[current] \in rows
                   /\ invoice[current] \notin {"none", "paid"}
    /\ step = "paid" => charged[current] # None

(* What is recorded of an invoice on both sides. *)
InvoiceInv ==
    \A i \in Invoices :
        /\ invoice[i] = "none" => owner[i] = None
        /\ owner[i] # None => owner[i] \in Subs /\ status[owner[i]] # "none"
        /\ invoice[i] # "none" => owner[i] # None
        /\ i \in sent => invoice[i] # "none"
        /\ charged[i] # None => i \in sent
        /\ told[i] # None => charged[i] # None /\ state[i] = "finished"
        /\ invoice[i] = "paid" => charged[i] # None

BillInv == TypeOK /\ WorkInv /\ InvoiceInv /\ NeverAhead

LEMMA BillInit == Init => BillInv
  BY SubsAssumption, BillingBoundAssumption
  DEF Init, Api!Init, BillInv, TypeOK, WorkInv, Charging, InvoiceInv, NeverAhead

(* What a worker that lets go of the row of subscription s leaves behind. *)
LEMMA RowLeft ==
    ASSUME TypeOK, WorkInv, NEW s \in Subs, NextRow(rows \ {s})
    PROVE  /\ rows' = rows \ {s} /\ rows' \subseteq Subs /\ s \notin rows'
           /\ step' \in {"wait", "draft"} /\ (step' = "wait" => rows' = {})
           /\ current' = None /\ current' \in Invoices \cup {None} /\ ~Charging'
  BY DEF TypeOK, NextRow, Charging

LEMMA FaultCounts ==
    ASSUME faults \in 0..MaxFaults, Fault \/ NoFault
    PROVE  faults' \in 0..MaxFaults
  BY BillingBoundAssumption DEF Fault, NoFault

LEMMA BillStep == BillInv /\ [Next]_vars => BillInv'
  <1> SUFFICES ASSUME BillInv, [Next]_vars PROVE BillInv'
    OBVIOUS
  <1>a. TypeOK /\ WorkInv /\ InvoiceInv /\ NeverAhead /\ MaxPeriods \in Nat /\ now \in Nat
    BY BillingBoundAssumption DEF BillInv, TypeOK
  <1>n. None \notin Invoices /\ None # Payment
    BY NoneIsFree
  <1>1. ASSUME NEW s \in Subs, CreateSubscription(s) PROVE BillInv'
    <2>1. TypeOK'
      BY <1>a, <1>1 DEF CreateSubscription, TypeOK, invoiceVars, workerVars, apiVars
    <2>2. WorkInv'
      BY <1>a, <1>1 DEF CreateSubscription, WorkInv, Charging, Due, TypeOK, invoiceVars, workerVars, apiVars
    <2>3. InvoiceInv'
      BY <1>a, <1>1 DEF CreateSubscription, InvoiceInv, TypeOK, invoiceVars, workerVars, apiVars
    <2>4. NeverAhead'
      BY <1>a, <1>1 DEF CreateSubscription, NeverAhead, TypeOK
    <2> QED BY <2>1, <2>2, <2>3, <2>4 DEF BillInv
  <1>2. CASE PeriodEnds
    <2>1. TypeOK' /\ NeverAhead'
      BY <1>a, <1>2 DEF PeriodEnds, TypeOK, NeverAhead, subVars, invoiceVars, workerVars, apiVars
    <2>2. WorkInv'
      BY <1>a, <1>2 DEF PeriodEnds, WorkInv, Charging, Due, TypeOK, subVars, invoiceVars, workerVars, apiVars
    <2>3. InvoiceInv'
      BY <1>a, <1>2 DEF PeriodEnds, InvoiceInv, subVars, invoiceVars, workerVars, apiVars
    <2> QED BY <2>1, <2>2, <2>3 DEF BillInv
  <1>3. CASE FindDue
    <2>1. /\ rows' \subseteq Subs /\ \A s \in rows' : Due(s)
          /\ step = "wait" /\ step' = "draft"
          /\ UNCHANGED <<now, subVars, invoiceVars, sent, current, faults, apiVars>>
      BY <1>3 DEF FindDue, DueSubs
    <2>2. TypeOK'
      BY <1>a, <2>1 DEF TypeOK, subVars, invoiceVars, apiVars
    <2>3. WorkInv'
      BY <1>a, <2>1 DEF WorkInv, Charging, Due, subVars
    <2>4. InvoiceInv' /\ NeverAhead'
      BY <1>a, <2>1 DEF InvoiceInv, NeverAhead, subVars, invoiceVars, apiVars
    <2> QED BY <2>2, <2>3, <2>4 DEF BillInv
  <1>4. ASSUME NEW s \in Subs, DraftInvoice(s) PROVE BillInv'
    <2>a. /\ step = "draft" /\ s \in rows
          /\ UNCHANGED <<now, status, periodEnd, begun, sent, state, charged, told>>
      BY <1>4 DEF DraftInvoice, subVars, apiVars
    <2>b. status[s] # "none" /\ current = None
      BY <1>a, <2>a DEF WorkInv, Due, Charging
    <2>1. ASSUME NEW i \in Invoices, Fresh(i), invoice' = [invoice EXCEPT ![i] = "draft"],
                 owner' = [owner EXCEPT ![i] = s]
          PROVE  /\ invoice' \in [Invoices -> {"none", "draft", "paid", "uncollectible"}]
                 /\ owner' \in [Invoices -> Subs \cup {None}]
                 /\ invoice'[i] = "draft" /\ owner'[i] = s
                 /\ InvoiceInv'
      <3>1. invoice \in [Invoices -> {"none", "draft", "paid", "uncollectible"}]
            /\ owner \in [Invoices -> Subs \cup {None}]
        BY <1>a DEF TypeOK
      <3>2. \A j \in Invoices \ {i} : invoice'[j] = invoice[j] /\ owner'[j] = owner[j]
        BY <2>1, <3>1
      <3>3. invoice'[i] = "draft" /\ owner'[i] = s
        BY <2>1, <3>1
      <3>4. s # None
        BY NoneIsFree
      <3> QED BY <3>4, <1>a, <2>1, <2>a, <2>b, <3>1, <3>2, <3>3 DEF InvoiceInv
    <2>2. ASSUME NEW i \in Invoices, Fresh(i), invoice' = [invoice EXCEPT ![i] = "draft"],
                 owner' = [owner EXCEPT ![i] = s],
                 NoFault, current' = i, step' = "send", UNCHANGED rows
          PROVE  BillInv'
      <3>1. TypeOK'
        BY <1>a, <2>a, <2>1, <2>2 DEF TypeOK, NoFault
      <3>2. WorkInv'
        BY <1>a, <2>a, <2>1, <2>2 DEF WorkInv, Charging, Due
      <3> QED BY <1>a, <2>a, <2>1, <2>2, <3>1, <3>2 DEF BillInv, NeverAhead
    <2>3. ASSUME NEW i \in Invoices, Fresh(i), invoice' = [invoice EXCEPT ![i] = "draft"],
                 owner' = [owner EXCEPT ![i] = s],
                 Fault, NextRow(rows \ {s})
          PROVE  BillInv'
      <3>1. TypeOK'
        BY <1>a, <2>a, <2>1, <2>3, RowLeft, FaultCounts DEF TypeOK
      <3>2. WorkInv'
        BY <1>a, <2>a, <2>1, <2>3, RowLeft DEF WorkInv, Due, Charging
      <3> QED BY <1>a, <2>a, <2>1, <2>3, <3>1, <3>2 DEF BillInv, NeverAhead
    <2>4. CASE Fault /\ NextRow(rows \ {s}) /\ UNCHANGED invoiceVars
      <3>1. TypeOK'
        BY <1>a, <2>a, <2>4, RowLeft, FaultCounts DEF TypeOK, invoiceVars
      <3>2. WorkInv'
        BY <1>a, <2>a, <2>4, RowLeft DEF WorkInv, Due, Charging
      <3>3. InvoiceInv' /\ NeverAhead'
        BY <1>a, <2>a, <2>4 DEF InvoiceInv, NeverAhead, invoiceVars
      <3> QED BY <3>1, <3>2, <3>3 DEF BillInv
    <2> QED BY <1>4, <2>2, <2>3, <2>4 DEF DraftInvoice
  <1>5. CASE SendCharge
    <2>1. /\ sent' \in {sent, sent \cup {current}}
          /\ current \in Invoices /\ invoice[current] # "none"
          /\ step = "send" /\ step' \in {"answer", "uncollectible"}
          /\ UNCHANGED <<now, subVars, invoiceVars, rows, current, faults, apiVars>>
      BY <1>a, <1>5 DEF SendCharge, WorkInv, Charging
    <2>2. TypeOK'
      BY <1>a, <2>1 DEF TypeOK, subVars, invoiceVars, apiVars
    <2>3. WorkInv'
      BY <1>a, <2>1 DEF WorkInv, Charging, Due, subVars, invoiceVars
    <2>4. InvoiceInv' /\ NeverAhead'
      BY <1>a, <2>1 DEF InvoiceInv, NeverAhead, subVars, invoiceVars, apiVars
    <2> QED BY <2>2, <2>3, <2>4 DEF BillInv
  <1>6. ASSUME NEW i \in Invoices, GatewayStep(i) PROVE BillInv'
    <2>1. /\ i \in sent /\ UNCHANGED <<now, subVars, invoiceVars, sent, workerVars>>
          /\ faults' \in 0..MaxFaults
      BY <1>a, <1>6, FaultCounts DEF GatewayStep, TypeOK
    <2>2. /\ state' \in [Invoices -> {"fresh", "claimed", "finished"}]
          /\ charged' \in [Invoices -> {None, Payment}]
          /\ told' \in [Invoices -> {None, Payment}]
          /\ \A j \in Invoices : /\ charged[j] # None => charged'[j] # None
                                 /\ told[j] # None => told'[j] # None
                                 /\ charged'[j] # None => charged[j] # None \/ j = i
                                 /\ told'[j] # None => charged'[j] # None /\ state'[j] = "finished"
      <3>1. CASE Api!Claim(i)
        BY <1>a, <3>1 DEF Api!Claim, TypeOK, InvoiceInv
      <3>2. CASE Api!Charge(i)
        BY <1>a, <1>n, <3>2 DEF Api!Charge, TypeOK, InvoiceInv
      <3>3. CASE Api!Finish(i)
        <4>1. told[i] = None
          BY <1>a, <3>3 DEF Api!Finish, InvoiceInv
        <4> QED BY <1>a, <1>n, <3>3, <4>1 DEF Api!Finish, TypeOK, InvoiceInv
      <3> QED BY <1>6, <3>1, <3>2, <3>3 DEF GatewayStep
    <2>3. TypeOK'
      BY <1>a, <2>1, <2>2 DEF TypeOK, subVars, invoiceVars, workerVars
    <2>4. WorkInv'
      BY <1>a, <2>1, <2>2 DEF WorkInv, Charging, Due, subVars, invoiceVars, workerVars
    <2>5. InvoiceInv' /\ NeverAhead'
      BY <1>a, <2>1, <2>2 DEF InvoiceInv, NeverAhead, subVars, invoiceVars
    <2> QED BY <2>3, <2>4, <2>5 DEF BillInv
  <1>7. CASE GetAnswer
    <2>1. /\ step = "answer" /\ step' \in {"paid", "uncollectible"}
          /\ step' = "paid" => charged[current] # None
          /\ UNCHANGED <<now, subVars, invoiceVars, sent, rows, current, apiVars>>
          /\ faults' \in 0..MaxFaults
      <3>1. step = "answer" => current \in Invoices
        BY <1>a DEF WorkInv, Charging
      <3> QED BY <1>a, <1>7, <3>1, FaultCounts
              DEF GetAnswer, Confirmed, Unrecorded, InvoiceInv, TypeOK
    <2>2. TypeOK'
      BY <1>a, <2>1 DEF TypeOK, subVars, invoiceVars, apiVars
    <2>3. WorkInv'
      BY <1>a, <2>1 DEF WorkInv, Charging, Due, subVars, invoiceVars, apiVars
    <2>4. InvoiceInv' /\ NeverAhead'
      BY <1>a, <2>1 DEF InvoiceInv, NeverAhead, subVars, invoiceVars, apiVars
    <2> QED BY <2>2, <2>3, <2>4 DEF BillInv
  <1>8. CASE MarkUncollectible
    <2>1. /\ step = "uncollectible" /\ step' = "past_due" /\ current \in Invoices
          /\ invoice' \in {invoice, [invoice EXCEPT ![current] = "uncollectible"]}
          /\ UNCHANGED <<now, subVars, owner, sent, rows, current, apiVars>>
          /\ faults' \in 0..MaxFaults
      BY <1>a, <1>8, FaultCounts DEF MarkUncollectible, TypeOK, WorkInv, Charging
    <2>2. /\ invoice' \in [Invoices -> {"none", "draft", "paid", "uncollectible"}]
          /\ \A j \in Invoices : invoice'[j] = invoice[j]
                                  \/ (j = current /\ invoice'[j] = "uncollectible")
      BY <1>a, <2>1 DEF TypeOK
    <2>3. TypeOK'
      BY <1>a, <2>1, <2>2 DEF TypeOK, subVars, apiVars
    <2>4. WorkInv'
      BY <1>a, <2>1, <2>2 DEF WorkInv, Charging, Due, subVars
    <2>5. invoice[current] \notin {"none", "paid"}
      BY <1>a, <2>1 DEF WorkInv, Charging
    <2>6. InvoiceInv' /\ NeverAhead'
      BY <1>a, <2>1, <2>2, <2>5 DEF InvoiceInv, NeverAhead, subVars, apiVars
    <2> QED BY <2>3, <2>4, <2>6 DEF BillInv
  <1>9. CASE MarkPastDue
    <2>1. /\ current \in Invoices /\ owner[current] \in Subs
          /\ status' \in {status, [status EXCEPT ![owner[current]] = "past_due"]}
          /\ NextRow(rows \ {owner[current]})
          /\ UNCHANGED <<now, periodEnd, begun, invoiceVars, sent, apiVars>>
          /\ faults' \in 0..MaxFaults
      BY <1>a, <1>9, FaultCounts DEF MarkPastDue, TypeOK, WorkInv, Charging
    <2>2. /\ status' \in [Subs -> {"none", "active", "past_due"}]
          /\ \A s \in Subs \ {owner[current]} : status'[s] = status[s]
          /\ \A s \in Subs : status'[s] = "none" <=> status[s] = "none"
      <3>1. status[owner[current]] # "none"
        BY <1>a, <1>9 DEF MarkPastDue, WorkInv, Charging, Due
      <3> QED BY <1>a, <2>1, <3>1 DEF TypeOK
    <2>3. TypeOK'
      BY <1>a, <2>1, <2>2, RowLeft DEF TypeOK, invoiceVars, apiVars
    <2>4. WorkInv'
      BY <1>a, <2>1, <2>2, RowLeft DEF WorkInv, Due, Charging, TypeOK
    <2>5. InvoiceInv' /\ NeverAhead'
      BY <1>a, <2>1, <2>2 DEF InvoiceInv, NeverAhead, invoiceVars, apiVars
    <2> QED BY <2>3, <2>4, <2>5 DEF BillInv
  <1>10. CASE ExtendPeriod
    <2>1. /\ current \in Invoices /\ owner[current] \in Subs /\ charged[current] # None
          /\ periodEnd[owner[current]] <= now
          /\ \/ /\ invoice' = [invoice EXCEPT ![current] = "paid"]
                /\ periodEnd' = [periodEnd EXCEPT ![owner[current]] = @ + 1]
             \/ UNCHANGED <<invoice, periodEnd>>
          /\ NextRow(rows \ {owner[current]})
          /\ UNCHANGED <<now, status, begun, owner, sent, apiVars>>
          /\ faults' \in 0..MaxFaults
      BY <1>a, <1>10, FaultCounts DEF ExtendPeriod, Extend, TypeOK, WorkInv, Charging, Due
    <2>2. /\ invoice' \in [Invoices -> {"none", "draft", "paid", "uncollectible"}]
          /\ \A j \in Invoices : invoice'[j] = invoice[j]
                                  \/ (j = current /\ invoice'[j] = "paid")
          /\ periodEnd' \in [Subs -> 0..MaxPeriods + 1]
          /\ \A s \in Subs \ {owner[current]} : periodEnd'[s] = periodEnd[s]
          /\ periodEnd'[owner[current]] <= now + 1
      BY <1>a, <2>1 DEF TypeOK
    <2>3. TypeOK'
      BY <1>a, <2>1, <2>2, RowLeft DEF TypeOK, apiVars
    <2>4. WorkInv'
      BY <1>a, <2>1, <2>2, RowLeft DEF WorkInv, Due, Charging, TypeOK
    <2>5. invoice[current] # "none"
      BY <1>a, <1>10 DEF ExtendPeriod, WorkInv, Charging
    <2>6. InvoiceInv'
      BY <1>a, <2>1, <2>2, <2>5 DEF InvoiceInv, apiVars
    <2>7. NeverAhead'
      BY <1>a, <2>1, <2>2 DEF NeverAhead
    <2> QED BY <2>3, <2>4, <2>6, <2>7 DEF BillInv
  <1>11. CASE Crash
    <2>1. /\ step' = "wait" /\ rows' = {} /\ current' = None /\ faults' \in 0..MaxFaults
          /\ UNCHANGED <<now, subVars, invoiceVars, sent, apiVars>>
      BY <1>a, <1>11, FaultCounts DEF Crash, TypeOK
    <2>2. TypeOK'
      BY <1>a, <2>1 DEF TypeOK, subVars, invoiceVars, apiVars
    <2>3. WorkInv'
      BY <2>1 DEF WorkInv, Charging
    <2>4. InvoiceInv' /\ NeverAhead'
      BY <1>a, <2>1 DEF InvoiceInv, NeverAhead, subVars, invoiceVars, apiVars
    <2> QED BY <2>2, <2>3, <2>4 DEF BillInv
  <1>12. CASE UNCHANGED vars
    BY <1>a, <1>12
    DEF BillInv, TypeOK, WorkInv, Charging, Due, InvoiceInv, NeverAhead,
        vars, subVars, invoiceVars, workerVars, apiVars
  <1> QED BY <1>1, <1>2, <1>3, <1>4, <1>5, <1>6, <1>7, <1>8, <1>9, <1>10, <1>11, <1>12
          DEF Next, Worker

(* The variables stay within their types and bounds. *)
THEOREM TypeCorrect == Spec => []TypeOK
<1>1. QED BY BillInit, BillStep, PTL DEF Spec, BillInv

(* No subscription is ever billed for a period that has not ended, for any   *)
(* number of subscriptions and any LIMIT (billing_worker.go:46-67, 127-133).  *)
THEOREM BilledOnlyWhenEnded == Spec => []NeverAhead
<1>1. QED BY BillInit, BillStep, PTL DEF Spec, BillInv

-----------------------------------------------------------------------------
(* The three steps that matter to the account of a subscription: it begins,  *)
(* a period is granted against an invoice, or nothing that counts changes.   *)
PaidOf(s) == {i \in InvoicesOf(s) : invoice[i] = "paid"}
Paid == {i \in Invoices : invoice[i] = "paid"}

Begins(s) ==
    /\ status[s] = "none" /\ now < MaxPeriods
    /\ periodEnd' = [periodEnd EXCEPT ![s] = now + 1]
    /\ begun' = [begun EXCEPT ![s] = now + 1]
    /\ UNCHANGED <<invoice, owner>>

Granting ==
    /\ Charging /\ current \in Invoices /\ owner[current] \in Subs
    /\ periodEnd[owner[current]] <= now /\ invoice[current] # "paid"
    /\ invoice' = [invoice EXCEPT ![current] = "paid"]
    /\ periodEnd' = [periodEnd EXCEPT ![owner[current]] = @ + 1]
    /\ UNCHANGED <<begun, owner>>

SamePaid ==
    /\ UNCHANGED <<periodEnd, begun>>
    /\ \A i \in Invoices : invoice'[i] = "paid" <=> invoice[i] = "paid"
    /\ \A i \in Invoices : invoice[i] = "paid" => owner'[i] = owner[i]

LEMMA InvoicesFinite ==
    /\ IsFiniteSet(Invoices)
    /\ \A S : S \subseteq Invoices => IsFiniteSet(S) /\ Cardinality(S) \in Nat
  <1>1. Cardinality(Subs) \in Nat
    BY SubsAssumption, FS_CardinalityType
  <1>2. Cardinality(Subs) * MaxPeriods + MaxFaults \in Int
    BY <1>1, BillingBoundAssumption
  <1>3. IsFiniteSet(Invoices)
    BY <1>2, FS_Interval DEF Invoices
  <1> QED BY <1>3, FS_Subset, FS_CardinalityType

LEMMA AccountCases ==
    ASSUME BillInv, [Next]_vars
    PROVE  (\E s \in Subs : Begins(s)) \/ Granting \/ SamePaid
  <1>a. TypeOK /\ WorkInv
    BY DEF BillInv
  <1>1. ASSUME NEW s \in Subs, CreateSubscription(s) PROVE Begins(s)
    BY <1>1 DEF CreateSubscription, Begins, invoiceVars
  <1>2. CASE PeriodEnds \/ FindDue \/ SendCharge \/ (\E i \in Invoices : GatewayStep(i))
             \/ GetAnswer \/ MarkPastDue \/ Crash \/ UNCHANGED vars
    <2>1. UNCHANGED <<periodEnd, begun, invoice, owner>>
      BY <1>2 DEF PeriodEnds, FindDue, SendCharge, GatewayStep, GetAnswer, MarkPastDue, Crash,
                  vars, subVars, invoiceVars
    <2> QED BY <2>1 DEF SamePaid
  <1>3. ASSUME NEW s \in Subs, DraftInvoice(s) PROVE SamePaid
    <2>1. UNCHANGED <<periodEnd, begun>>
      BY <1>3 DEF DraftInvoice, subVars
    <2>2. CASE UNCHANGED invoiceVars
      BY <2>1, <2>2 DEF SamePaid, invoiceVars
    <2>3. ASSUME NEW i \in Invoices, Fresh(i), invoice' = [invoice EXCEPT ![i] = "draft"],
                 owner' = [owner EXCEPT ![i] = s]
          PROVE  SamePaid
      BY <1>a, <2>1, <2>3 DEF SamePaid, Fresh, TypeOK
    <2> QED BY <1>3, <2>2, <2>3 DEF DraftInvoice
  <1>4. CASE MarkUncollectible
    <2>1. invoice[current] # "paid" /\ UNCHANGED <<periodEnd, begun, owner>>
      BY <1>a, <1>4 DEF MarkUncollectible, WorkInv, Charging, subVars
    <2> QED BY <1>a, <1>4, <2>1 DEF MarkUncollectible, SamePaid, TypeOK
  <1>5. CASE ExtendPeriod
    <2>1. /\ Charging /\ current \in Invoices /\ owner[current] \in Subs
          /\ periodEnd[owner[current]] <= now /\ invoice[current] # "paid"
          /\ UNCHANGED <<begun, owner>>
      BY <1>a, <1>5 DEF ExtendPeriod, TypeOK, WorkInv, Charging, Due
    <2> QED BY <1>5, <2>1 DEF ExtendPeriod, Extend, Granting, SamePaid
  <1> QED BY <1>1, <1>2, <1>3, <1>4, <1>5 DEF Next, Worker

-----------------------------------------------------------------------------
(* Periods and paid invoices go together. *)
LEMMA PaidInit == Init => PeriodsArePaid
  <1> SUFFICES ASSUME Init PROVE PeriodsArePaid
    OBVIOUS
  <1>1. ASSUME NEW s \in Subs PROVE PaidOf(s) = {} /\ periodEnd[s] - begun[s] = 0
    BY DEF Init, PaidOf, InvoicesOf
  <1>2. Cardinality({}) = 0
    BY FS_EmptySet
  <1> QED BY <1>1, <1>2 DEF PeriodsArePaid, PaidOf, Init

LEMMA PaidStep ==
    BillInv /\ BillInv' /\ PeriodsArePaid /\ [Next]_vars => PeriodsArePaid'
  <1> SUFFICES ASSUME BillInv, BillInv', PeriodsArePaid, [Next]_vars PROVE PeriodsArePaid'
    OBVIOUS
  <1>a. /\ \A s \in Subs : periodEnd[s] \in Nat /\ begun[s] \in Nat
        /\ \A s \in Subs : periodEnd[s] - begun[s] = Cardinality(PaidOf(s))
        /\ \A s \in Subs : PaidOf(s) \subseteq Invoices
        /\ periodEnd \in [Subs -> Nat] /\ begun \in [Subs -> Nat] /\ now \in Nat
        /\ invoice \in [Invoices -> {"none", "draft", "paid", "uncollectible"}]
    BY BillingBoundAssumption DEF BillInv, TypeOK, PeriodsArePaid, PaidOf, InvoicesOf
  <1>b. \A i \in Invoices : invoice'[i] = "paid" => charged'[i] # None
    BY DEF BillInv, InvoiceInv
  <1>1. SUFFICES ASSUME NEW s \in Subs
                 PROVE  periodEnd'[s] - begun'[s] = Cardinality(PaidOf(s)')
    BY <1>b DEF PeriodsArePaid, PaidOf, InvoicesOf
  <1>2. CASE SamePaid
    <2>1. PaidOf(s)' = PaidOf(s)
      <3>1. \A i \in Invoices : invoice'[i] = "paid" <=> invoice[i] = "paid"
        BY <1>2 DEF SamePaid
      <3>2. \A i \in Invoices : invoice[i] = "paid" => owner'[i] = owner[i]
        BY <1>2 DEF SamePaid
      <3> QED BY <3>1, <3>2 DEF PaidOf, InvoicesOf
    <2> QED BY <1>a, <1>2, <2>1 DEF SamePaid
  <1>3. CASE Granting
    <2>1. CASE s # owner[current]
      <3>1. PaidOf(s)' = PaidOf(s)
        BY <1>a, <1>3, <2>1 DEF Granting, PaidOf, InvoicesOf
      <3> QED BY <1>a, <1>3, <2>1, <3>1 DEF Granting
    <2>2. CASE s = owner[current]
      <3>1. PaidOf(s)' = PaidOf(s) \cup {current} /\ current \notin PaidOf(s)
        BY <1>a, <1>3, <2>2 DEF Granting, PaidOf, InvoicesOf
      <3>2. IsFiniteSet(PaidOf(s)) /\ Cardinality(PaidOf(s)) \in Nat
        BY <1>a, InvoicesFinite
      <3>3. Cardinality(PaidOf(s) \cup {current}) = Cardinality(PaidOf(s)) + 1
        BY <3>1, <3>2, FS_AddElement
      <3>4. periodEnd'[s] = periodEnd[s] + 1 /\ begun'[s] = begun[s]
        BY <1>a, <1>3, <2>2 DEF Granting
      <3> QED BY <1>a, <3>1, <3>2, <3>3, <3>4
    <2> QED BY <2>1, <2>2
  <1>4. ASSUME NEW t \in Subs, Begins(t)
        PROVE  periodEnd'[s] - begun'[s] = Cardinality(PaidOf(s)')
    <2>1. PaidOf(s)' = PaidOf(s)
      BY <1>4 DEF Begins, PaidOf, InvoicesOf
    <2>2. CASE s # t
      BY <1>a, <1>4, <2>1, <2>2 DEF Begins
    <2>3. CASE s = t
      <3>1. PaidOf(s) = {}
        BY <1>4, <2>3, NoneIsFree DEF Begins, BillInv, InvoiceInv, PaidOf, InvoicesOf
      <3>2. Cardinality(PaidOf(s)) = 0
        BY <3>1, FS_EmptySet
      <3>3. periodEnd'[s] = now + 1 /\ begun'[s] = now + 1
        BY <1>a, <1>4, <2>3 DEF Begins
      <3> QED BY <1>a, <2>1, <3>2, <3>3
    <2> QED BY <2>2, <2>3
  <1> QED BY <1>2, <1>3, <1>4, AccountCases

(* No period is granted for free, for any number of subscriptions, of        *)
(* periods and of failures (billing_worker.go:108-134).                      *)
THEOREM NothingForFree == Spec => []PeriodsArePaid
<1>1. QED BY BillInit, BillStep, PaidInit, PaidStep, PTL DEF Spec

-----------------------------------------------------------------------------
(* Every attempt that came to nothing cost a failure of its own, and as many *)
(* periods were granted as invoices were paid.                               *)
Wasted ==
    {i \in Invoices :
        \/ invoice[i] \notin {"none", "paid"} /\ i # current
        \/ step \in {"uncollectible", "past_due"} /\ i = current
        \/ state[i] = "finished" /\ told[i] = None}

WasteBounded == Cardinality(Wasted) <= faults
GrantsPaid == Cardinality(Granted) = Cardinality(Paid)

LEMMA GrantedFinite == IsFiniteSet(Granted) /\ Cardinality(Granted) \in Nat
  <1>1. IsFiniteSet(1 .. MaxPeriods + 1)
    BY BillingBoundAssumption, FS_Interval
  <1>2. IsFiniteSet(Subs \X (1 .. MaxPeriods + 1))
    BY <1>1, SubsAssumption, FS_Product
  <1>3. Granted \subseteq Subs \X (1 .. MaxPeriods + 1)
    BY DEF Granted
  <1> QED BY <1>2, <1>3, FS_Subset, FS_CardinalityType

LEMMA GrantsInit == Init => GrantsPaid
  <1> SUFFICES ASSUME Init PROVE GrantsPaid
    OBVIOUS
  <1>1. Granted = {}
    BY DEF Init, Granted
  <1>2. Paid = {}
    BY DEF Init, Paid
  <1> QED BY <1>1, <1>2 DEF GrantsPaid

LEMMA GrantsStep ==
    BillInv /\ PeriodsArePaid /\ GrantsPaid /\ [Next]_vars => GrantsPaid'
  <1> SUFFICES ASSUME BillInv, PeriodsArePaid, GrantsPaid, [Next]_vars PROVE GrantsPaid'
    OBVIOUS
  <1>a. /\ periodEnd \in [Subs -> Nat] /\ begun \in [Subs -> Nat]
        /\ now \in 0..MaxPeriods /\ MaxPeriods \in Nat
        /\ invoice \in [Invoices -> {"none", "draft", "paid", "uncollectible"}]
    BY BillingBoundAssumption DEF BillInv, TypeOK
  <1>b. /\ Granted \subseteq Subs \X (1 .. MaxPeriods + 1)
        /\ Granted' \subseteq Subs \X (1 .. MaxPeriods + 1)
    BY DEF Granted
  <1>1. CASE SamePaid
    <2>1. Granted' = Granted
      BY <1>1 DEF SamePaid, Granted
    <2>2. \A i \in Invoices : invoice'[i] = "paid" <=> invoice[i] = "paid"
      BY <1>1 DEF SamePaid
    <2>3. Paid' = Paid
      BY <2>2 DEF Paid
    <2> QED BY <2>1, <2>3 DEF GrantsPaid
  <1>2. ASSUME NEW s \in Subs, Begins(s) PROVE GrantsPaid'
    <2>1. Paid' = Paid
      BY <1>2 DEF Begins, Paid
    <2>2. periodEnd[s] = begun[s]
      <3>1. {i \in InvoicesOf(s) : invoice[i] = "paid"} = {}
        BY <1>2, NoneIsFree DEF Begins, BillInv, InvoiceInv, InvoicesOf
      <3>2. periodEnd[s] - begun[s] = 0
        BY <3>1, FS_EmptySet DEF PeriodsArePaid
      <3> QED BY <1>a, <3>2
    <2>3. \A t \in Subs \ {s} : periodEnd'[t] = periodEnd[t] /\ begun'[t] = begun[t]
      BY <1>a, <1>2 DEF Begins
    <2>4. periodEnd'[s] = now + 1 /\ begun'[s] = now + 1
      BY <1>a, <1>2 DEF Begins
    <2>5. \A g \in Subs \X (1 .. MaxPeriods + 1) :
              (begun'[g[1]] < g[2] /\ g[2] <= periodEnd'[g[1]])
                  <=> (begun[g[1]] < g[2] /\ g[2] <= periodEnd[g[1]])
      <3>1. ASSUME NEW g \in Subs \X (1 .. MaxPeriods + 1)
            PROVE  (begun'[g[1]] < g[2] /\ g[2] <= periodEnd'[g[1]])
                       <=> (begun[g[1]] < g[2] /\ g[2] <= periodEnd[g[1]])
        <4>1. g[1] \in Subs /\ g[2] \in Nat
          BY <1>a, <3>1
        <4>2. CASE g[1] = s
          BY <1>a, <2>2, <2>4, <4>1, <4>2
        <4>3. CASE g[1] # s
          BY <2>3, <4>1, <4>3
        <4> QED BY <4>2, <4>3
      <3> QED BY <3>1
    <2>6. Granted' = Granted
      BY <2>5 DEF Granted
    <2> QED BY <2>1, <2>6 DEF GrantsPaid
  <1>3. CASE Granting
    <2> DEFINE s == owner[current]
               new == <<s, periodEnd[s] + 1>>
    <2>1. /\ s \in Subs /\ periodEnd[s] <= now /\ current \in Invoices
          /\ invoice[current] # "paid"
      BY <1>3 DEF Granting
    <2>2. Paid' = Paid \cup {current} /\ current \notin Paid
      BY <1>a, <1>3 DEF Granting, Paid
    <2>3. Cardinality(Paid') = Cardinality(Paid) + 1
      <3>1. IsFiniteSet(Paid)
        BY InvoicesFinite DEF Paid
      <3> QED BY <2>2, <3>1, FS_AddElement
    <2>4. /\ begun' = begun /\ \A t \in Subs \ {s} : periodEnd'[t] = periodEnd[t]
          /\ periodEnd'[s] = periodEnd[s] + 1
      BY <1>a, <1>3 DEF Granting
    <2>5. begun[s] <= periodEnd[s]
      <3>1. Cardinality({i \in InvoicesOf(s) : invoice[i] = "paid"}) \in Nat
        BY InvoicesFinite DEF InvoicesOf
      <3>2. periodEnd[s] - begun[s] \in Nat
        BY <2>1, <3>1 DEF PeriodsArePaid
      <3> QED BY <1>a, <2>1, <3>2
    <2>6. new \in Subs \X (1 .. MaxPeriods + 1) /\ new[1] = s /\ new[2] = periodEnd[s] + 1
      BY <1>a, <2>1
    <2>7. Granted' = Granted \cup {new}
      <3>1. ASSUME NEW g \in Subs \X (1 .. MaxPeriods + 1)
            PROVE  g \in Granted' <=> g \in Granted \cup {new}
        <4>1. g[1] \in Subs /\ g[2] \in Nat /\ g = <<g[1], g[2]>>
          BY <1>a, <3>1
        <4>2. CASE g[1] # s
          BY <2>4, <2>6, <4>1, <4>2 DEF Granted
        <4>3. CASE g[1] = s
          <5>1. g = new <=> g[2] = periodEnd[s] + 1
            BY <2>6, <4>1, <4>3
          <5> QED BY <1>a, <2>1, <2>4, <2>5, <4>1, <4>3, <5>1 DEF Granted
        <4> QED BY <4>2, <4>3
      <3> QED BY <1>b, <2>6, <3>1
    <2>8. new \notin Granted
      BY <1>a, <2>1, <2>6 DEF Granted
    <2>9. Cardinality(Granted') = Cardinality(Granted) + 1
      BY <2>7, <2>8, GrantedFinite, FS_AddElement
    <2> QED BY <2>3, <2>9 DEF GrantsPaid
  <1> QED BY <1>1, <1>2, <1>3, AccountCases

(* A step that wastes nothing new, or one attempt more for one failure. *)
LEMMA WasteGrows ==
    ASSUME WasteBounded, faults \in Nat,
           \/ Wasted' \subseteq Wasted /\ (NoFault \/ Fault)
           \/ (\E i \in Invoices : Wasted' \subseteq Wasted \cup {i}) /\ Fault
    PROVE  WasteBounded'
  <1>a. /\ IsFiniteSet(Wasted) /\ Cardinality(Wasted) \in Nat /\ Cardinality(Wasted) <= faults
        /\ Cardinality(Wasted') \in Nat
        /\ faults' \in {faults, faults + 1}
    BY InvoicesFinite DEF Wasted, WasteBounded, NoFault, Fault
  <1>1. CASE Wasted' \subseteq Wasted /\ (NoFault \/ Fault)
    <2>1. Cardinality(Wasted') <= Cardinality(Wasted)
      BY <1>a, <1>1, FS_Subset
    <2> QED BY <1>a, <2>1 DEF WasteBounded
  <1>2. ASSUME NEW i \in Invoices, Wasted' \subseteq Wasted \cup {i}, Fault
        PROVE  WasteBounded'
    <2>1. /\ IsFiniteSet(Wasted \cup {i})
          /\ Cardinality(Wasted \cup {i}) \in {Cardinality(Wasted), Cardinality(Wasted) + 1}
      BY <1>a, FS_AddElement
    <2>2. Cardinality(Wasted') <= Cardinality(Wasted \cup {i})
      BY <1>2, <2>1, FS_Subset
    <2>3. faults' = faults + 1
      BY <1>2 DEF Fault
    <2> QED BY <1>a, <2>1, <2>2, <2>3 DEF WasteBounded
  <1> QED BY <1>1, <1>2

LEMMA WasteInit == Init => WasteBounded
  <1> SUFFICES ASSUME Init PROVE WasteBounded
    OBVIOUS
  <1>1. Wasted = {} /\ faults = 0
    BY DEF Init, Api!Init, Wasted
  <1> QED BY <1>1, FS_EmptySet DEF WasteBounded

LEMMA WasteStep ==
    ASSUME ~Redirected
    PROVE  BillInv /\ WasteBounded /\ [Next]_vars => WasteBounded'
  <1> SUFFICES ASSUME BillInv, WasteBounded, [Next]_vars PROVE WasteBounded'
    OBVIOUS
  <1>a. /\ TypeOK /\ WorkInv /\ InvoiceInv /\ faults \in Nat
        /\ invoice \in [Invoices -> {"none", "draft", "paid", "uncollectible"}]
        /\ state \in [Invoices -> {"fresh", "claimed", "finished"}]
        /\ told \in [Invoices -> {None, Payment}]
    BY DEF BillInv, TypeOK
  <1>n. None \notin Invoices
    BY NoneIsFree
  <1>1. CASE UNCHANGED <<invoice, current, step, state, told, faults>>
    BY <1>a, <1>1, WasteGrows DEF Wasted, NoFault
  <1>2. CASE (\E s \in Subs : CreateSubscription(s)) \/ PeriodEnds \/ UNCHANGED vars
    BY <1>1, <1>2 DEF CreateSubscription, PeriodEnds, vars, invoiceVars, workerVars, apiVars
  <1>3. CASE FindDue \/ SendCharge
    <2>1. /\ UNCHANGED <<invoice, current, state, told, faults>>
          /\ step' \notin {"uncollectible", "past_due"}
      BY <1>3 DEF FindDue, SendCharge, invoiceVars, apiVars
    <2> QED BY <1>a, <2>1, WasteGrows DEF Wasted, NoFault
  <1>4. ASSUME NEW s \in Subs, DraftInvoice(s) PROVE WasteBounded'
    <2>1. step = "draft" /\ current = None /\ UNCHANGED <<state, told>>
      BY <1>a, <1>4 DEF DraftInvoice, WorkInv, Charging, apiVars
    <2>2. ASSUME NEW i \in Invoices, Fresh(i), invoice' = [invoice EXCEPT ![i] = "draft"],
                 NoFault, current' = i, step' = "send"
          PROVE  WasteBounded'
      BY <1>a, <1>n, <2>1, <2>2, WasteGrows DEF Wasted
    <2>3. ASSUME NEW i \in Invoices, invoice' = [invoice EXCEPT ![i] = "draft"],
                 Fault, NextRow(rows \ {s})
          PROVE  WasteBounded'
      <3>1. Wasted' \subseteq Wasted \cup {i}
        BY <1>a, <1>n, <2>1, <2>3 DEF Wasted, NextRow
      <3> QED BY <1>a, <2>3, <3>1, WasteGrows
    <2>4. CASE Fault /\ NextRow(rows \ {s}) /\ UNCHANGED invoiceVars
      <3>1. Wasted' \subseteq Wasted
        BY <1>a, <1>n, <2>1, <2>4 DEF Wasted, NextRow, invoiceVars
      <3> QED BY <1>a, <2>4, <3>1, WasteGrows
    <2> QED BY <1>4, <2>2, <2>3, <2>4 DEF DraftInvoice
  <1>5. ASSUME NEW i \in Invoices, GatewayStep(i) PROVE WasteBounded'
    <2>1. UNCHANGED <<invoice, current, step>>
      BY <1>5 DEF GatewayStep, invoiceVars, workerVars
    <2>2. CASE (Api!Claim(i) \/ Api!Charge(i)) /\ NoFault
      <3>1. Wasted' \subseteq Wasted
        BY <1>a, <2>1, <2>2 DEF Api!Claim, Api!Charge, Wasted
      <3> QED BY <1>a, <2>2, <3>1, WasteGrows
    <2>3. CASE Api!Finish(i) /\ (IF told'[i] = None THEN Fault ELSE NoFault)
      <3>1. \A j \in Invoices \ {i} : state'[j] = state[j] /\ told'[j] = told[j]
        BY <1>a, <2>3 DEF Api!Finish
      <3>2. CASE told'[i] = None
        <4>1. Wasted' \subseteq Wasted \cup {i}
          BY <2>1, <3>1 DEF Wasted
        <4> QED BY <1>a, <2>3, <3>2, <4>1, WasteGrows
      <3>3. CASE told'[i] # None
        <4>1. Wasted' \subseteq Wasted
          BY <2>1, <3>1, <3>3 DEF Wasted
        <4> QED BY <1>a, <2>3, <3>3, <4>1, WasteGrows
      <3> QED BY <3>2, <3>3
    <2> QED BY <1>5, <2>2, <2>3 DEF GatewayStep
  <1>6. CASE GetAnswer
    <2>1. current \in Invoices /\ step = "answer"
          /\ UNCHANGED <<invoice, current, state, told>>
      BY <1>a, <1>6 DEF GetAnswer, WorkInv, Charging, invoiceVars, apiVars
    <2>2. CASE Confirmed(current) /\ NoFault /\ step' = "paid"
      <3>1. Wasted' \subseteq Wasted
        BY <2>1, <2>2 DEF Wasted
      <3> QED BY <1>a, <2>2, <3>1, WasteGrows
    <2>3. CASE Declined(current) /\ NoFault /\ step' = "uncollectible"
      <3>1. Wasted' \subseteq Wasted
        BY <2>1, <2>3 DEF Wasted, Declined
      <3> QED BY <1>a, <2>3, <3>1, WasteGrows
    <2>4. CASE Fault /\ step' \in {"paid", "uncollectible"}
      <3>1. Wasted' \subseteq Wasted \cup {current}
        BY <2>1 DEF Wasted
      <3> QED BY <1>a, <2>1, <2>4, <3>1, WasteGrows
    <2> QED BY <1>6, <2>2, <2>3, <2>4 DEF GetAnswer
  <1>7. CASE MarkUncollectible
    <2>1. /\ current \in Invoices /\ step = "uncollectible" /\ step' = "past_due"
          /\ UNCHANGED <<current, state, told>> /\ (NoFault \/ Fault)
          /\ \A j \in Invoices \ {current} : invoice'[j] = invoice[j]
      BY <1>a, <1>7 DEF MarkUncollectible, WorkInv, Charging, apiVars
    <2>2. Wasted' \subseteq Wasted
      BY <2>1 DEF Wasted
    <2> QED BY <1>a, <2>1, <2>2, WasteGrows
  <1>8. CASE MarkPastDue
    <2>1. /\ current \in Invoices /\ step = "past_due" /\ step' \in {"wait", "draft"}
          /\ UNCHANGED <<invoice, state, told>> /\ (NoFault \/ Fault)
      BY <1>a, <1>8 DEF MarkPastDue, NextRow, WorkInv, Charging, invoiceVars, apiVars
    <2>2. Wasted' \subseteq Wasted
      BY <2>1 DEF Wasted
    <2> QED BY <1>a, <2>1, <2>2, WasteGrows
  <1>9. CASE ExtendPeriod
    <2>1. /\ current \in Invoices /\ step = "paid" /\ step' \in {"wait", "draft"}
          /\ UNCHANGED <<state, told>>
      BY <1>a, <1>9 DEF ExtendPeriod, NextRow, WorkInv, Charging, apiVars
    <2>2. CASE NoFault /\ invoice' = [invoice EXCEPT ![current] = "paid"]
      <3>1. Wasted' \subseteq Wasted
        BY <1>a, <2>1, <2>2 DEF Wasted
      <3> QED BY <1>a, <2>2, <3>1, WasteGrows
    <2>3. CASE Fault /\ UNCHANGED <<invoice, periodEnd>>
      <3>1. Wasted' \subseteq Wasted \cup {current}
        BY <2>1, <2>3 DEF Wasted
      <3> QED BY <1>a, <2>1, <2>3, <3>1, WasteGrows
    <2> QED BY <1>9, <2>2, <2>3 DEF ExtendPeriod
  <1>10. CASE Crash
    <2>1. /\ step # "wait" /\ step' = "wait" /\ current' = None /\ Fault
          /\ UNCHANGED <<invoice, state, told>>
      BY <1>10 DEF Crash, invoiceVars, apiVars
    <2>2. CASE Charging
      <3>1. current \in Invoices /\ Wasted' \subseteq Wasted \cup {current}
        BY <1>a, <2>1, <2>2 DEF Wasted, WorkInv
      <3> QED BY <1>a, <2>1, <3>1, WasteGrows
    <2>3. CASE ~Charging
      <3>1. Wasted' \subseteq Wasted
        BY <1>a, <2>1, <2>3 DEF Wasted, WorkInv
      <3> QED BY <1>a, <2>1, <3>1, WasteGrows
    <2> QED BY <2>2, <2>3
  <1> QED BY <1>2, <1>3, <1>4, <1>5, <1>6, <1>7, <1>8, <1>9, <1>10 DEF Next, Worker

(* Behind a port 80 that redirects, the gateway is never asked for a charge. *)
NothingSent == sent = {}

LEMMA NothingSentStep ==
    ASSUME Redirected
    PROVE  NothingSent /\ [Next]_vars => NothingSent'
  BY DEF NothingSent, Next, Worker, CreateSubscription, PeriodEnds, FindDue, DraftInvoice,
         SendCharge, GatewayStep, GetAnswer, MarkUncollectible, MarkPastDue, ExtendPeriod,
         Crash, vars

(* A customer pays for no more than the periods granted, one charge for each *)
(* failure and the one under way, for any number of subscriptions, periods   *)
(* and failures (billing_worker.go:86-134).                                  *)
THEOREM OverchargesPerFailure == Spec => []OverchargesBounded
<1>1. BillInv /\ GrantsPaid /\ WasteBounded => OverchargesBounded
  <2> SUFFICES ASSUME BillInv, GrantsPaid, WasteBounded PROVE OverchargesBounded
    OBVIOUS
  <2> DEFINE Pending == IF current = None THEN {} ELSE {current}
             One == IF current = None THEN 0 ELSE 1
  <2>1. Charges \subseteq (Paid \cup Wasted) \cup Pending
    BY NoneIsFree DEF Charges, Paid, Wasted, BillInv, InvoiceInv
  <2>2. /\ IsFiniteSet(Paid) /\ Cardinality(Paid) \in Nat
        /\ IsFiniteSet(Wasted) /\ Cardinality(Wasted) \in Nat
        /\ IsFiniteSet(Charges) /\ Cardinality(Charges) \in Nat
        /\ Cardinality(Paid \cap Wasted) \in Nat
    BY InvoicesFinite DEF Paid, Wasted, Charges
  <2>3. /\ IsFiniteSet(Paid \cup Wasted) /\ Cardinality(Paid \cup Wasted) \in Nat
        /\ Cardinality(Paid \cup Wasted) <= Cardinality(Paid) + Cardinality(Wasted)
    <3>1. /\ IsFiniteSet(Paid \cup Wasted)
          /\ Cardinality(Paid \cup Wasted)
                = Cardinality(Paid) + Cardinality(Wasted) - Cardinality(Paid \cap Wasted)
      BY <2>2, FS_Union, Zenon
    <3> QED BY <2>2, <3>1, FS_CardinalityType
  <2>4. /\ IsFiniteSet((Paid \cup Wasted) \cup Pending)
        /\ Cardinality((Paid \cup Wasted) \cup Pending) \in Nat
        /\ Cardinality((Paid \cup Wasted) \cup Pending) <= Cardinality(Paid \cup Wasted) + One
    <3>1. CASE current = None
      <4>1. (Paid \cup Wasted) \cup Pending = Paid \cup Wasted
        BY <3>1
      <4> QED BY <2>3, <3>1, <4>1
    <3>2. CASE current # None
      <4>1. (Paid \cup Wasted) \cup Pending = (Paid \cup Wasted) \cup {current}
        BY <3>2
      <4>2. /\ IsFiniteSet((Paid \cup Wasted) \cup {current})
            /\ Cardinality((Paid \cup Wasted) \cup {current}) \in
                  {Cardinality(Paid \cup Wasted), Cardinality(Paid \cup Wasted) + 1}
        BY <2>3, FS_AddElement
      <4> QED BY <2>3, <3>2, <4>1, <4>2
    <3> QED BY <3>1, <3>2
  <2>5. Cardinality(Charges) <= Cardinality((Paid \cup Wasted) \cup Pending)
    BY <2>1, <2>4, FS_Subset
  <2>6. Cardinality(Wasted) <= faults /\ faults \in Nat
        /\ Cardinality(Granted) = Cardinality(Paid) /\ One \in Nat
    BY DEF BillInv, TypeOK, WasteBounded, GrantsPaid
  <2> HIDE DEF One, Pending
  <2>7. Cardinality(Charges) <= Cardinality(Granted) + faults + One
    BY <2>2, <2>3, <2>4, <2>5, <2>6
  <2> QED BY <2>7 DEF OverchargesBounded, One
<1>2. CASE ~Redirected
  <2>1. BillInv /\ WasteBounded /\ [Next]_vars => WasteBounded'
    BY <1>2, WasteStep
  <2> QED BY <1>1, <2>1, BillInit, BillStep, PaidInit, PaidStep, GrantsInit, GrantsStep,
             WasteInit, PTL DEF Spec
<1>3. CASE Redirected
  <2>1. Init => NothingSent
    BY DEF Init, NothingSent
  <2>2. NothingSent /\ [Next]_vars => NothingSent'
    BY <1>3, NothingSentStep
  <2>3. BillInv /\ NothingSent => OverchargesBounded
    <3> SUFFICES ASSUME BillInv, NothingSent PROVE OverchargesBounded
      OBVIOUS
    <3>1. Charges = {}
      BY DEF Charges, NothingSent, BillInv, InvoiceInv
    <3>2. Cardinality(Charges) = 0
      BY <3>1, FS_EmptySet
    <3>3. faults \in Nat /\ Cardinality(Granted) \in Nat
      BY GrantedFinite DEF BillInv, TypeOK
    <3> QED BY <3>2, <3>3 DEF OverchargesBounded
  <2> QED BY <2>1, <2>2, <2>3, BillInit, BillStep, PTL DEF Spec
<1> QED BY <1>2, <1>3

-----------------------------------------------------------------------------
(* Nothing that leads to a lapse has happened before the first failure. *)
LapseInv ==
    faults = 0 =>
        /\ step \notin {"uncollectible", "past_due"}
        /\ \A s \in Subs : status[s] # "past_due"
        /\ \A i \in Invoices : state[i] = "finished" => told[i] # None

LEMMA LapseInit == Init => LapseInv
  BY DEF Init, Api!Init, LapseInv

LEMMA LapseStep ==
    ASSUME ~Redirected
    PROVE  BillInv /\ LapseInv /\ [Next]_vars => LapseInv'
  <1> SUFFICES ASSUME BillInv, LapseInv, [Next]_vars PROVE LapseInv'
    OBVIOUS
  <1>a. /\ faults \in Nat /\ WorkInv
        /\ status \in [Subs -> {"none", "active", "past_due"}]
        /\ state \in [Invoices -> {"fresh", "claimed", "finished"}]
        /\ told \in [Invoices -> {None, Payment}]
    BY DEF BillInv, TypeOK
  <1>1. CASE Fault
    BY <1>a, <1>1 DEF Fault, LapseInv
  <1>2. CASE UNCHANGED <<status, faults, apiVars>> /\ step' \notin {"uncollectible", "past_due"}
    BY <1>2 DEF LapseInv, apiVars
  <1>3. ASSUME NEW s \in Subs, CreateSubscription(s) PROVE LapseInv'
    BY <1>a, <1>3 DEF CreateSubscription, LapseInv, workerVars, apiVars
  <1>4. CASE PeriodEnds \/ UNCHANGED vars
    BY <1>4 DEF PeriodEnds, LapseInv, vars, subVars, workerVars, apiVars
  <1>5. CASE FindDue \/ SendCharge
    BY <1>2, <1>5 DEF FindDue, SendCharge, subVars
  <1>6. ASSUME NEW s \in Subs, DraftInvoice(s) PROVE LapseInv'
    BY <1>1, <1>2, <1>6 DEF DraftInvoice, NoFault, subVars
  <1>7. ASSUME NEW i \in Invoices, GatewayStep(i), NoFault PROVE LapseInv'
    <2>1. UNCHANGED <<status, step, faults>>
      BY <1>7 DEF GatewayStep, NoFault, subVars, workerVars
    <2>2. CASE Api!Claim(i) \/ Api!Charge(i)
      BY <1>a, <2>1, <2>2 DEF Api!Claim, Api!Charge, LapseInv
    <2>3. CASE Api!Finish(i) /\ told'[i] # None
      BY <1>a, <2>1, <2>3 DEF Api!Finish, LapseInv
    <2> QED BY <1>1, <1>7, <2>2, <2>3 DEF GatewayStep
  <1>8. CASE GetAnswer
    <2>1. current \in Invoices /\ UNCHANGED <<status, apiVars>>
      BY <1>a, <1>8 DEF GetAnswer, WorkInv, Charging, subVars
    <2>2. CASE Declined(current) /\ NoFault
      BY <2>1, <2>2 DEF Declined, NoFault, LapseInv, apiVars
    <2> QED BY <1>1, <1>2, <1>8, <2>1, <2>2 DEF GetAnswer, NoFault
  <1>9. CASE MarkUncollectible \/ MarkPastDue
    BY <1>a, <1>9 DEF MarkUncollectible, MarkPastDue, Fault, NoFault, LapseInv
  <1>10. CASE ExtendPeriod \/ Crash
    BY <1>1, <1>2, <1>10 DEF ExtendPeriod, Crash, NextRow, NoFault
  <1>11. ASSUME NEW i \in Invoices, GatewayStep(i) PROVE LapseInv'
    BY <1>1, <1>7, <1>11 DEF GatewayStep
  <1> QED BY <1>3, <1>4, <1>5, <1>6, <1>8, <1>9, <1>10, <1>11 DEF Next, Worker

(* Where port 80 passes requests on, a subscription lapses only after a       *)
(* failure, for any number of subscriptions and periods                       *)
(* (billing_worker.go:103-113).                                               *)
THEOREM LapsesNeedFailure ==
    ASSUME ~Redirected
    PROVE  Spec => []LapsesOnlyOnFailure
  <1>1. BillInv /\ LapseInv /\ [Next]_vars => LapseInv'
    BY LapseStep
  <1>2. LapseInv => LapsesOnlyOnFailure
    BY DEF LapseInv, LapsesOnlyOnFailure
  <1> QED BY <1>1, <1>2, LapseInit, BillInit, BillStep, PTL DEF Spec
=============================================================================
