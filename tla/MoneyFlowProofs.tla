--------------------------- MODULE MoneyFlowProofs ---------------------------
(***************************************************************************)
(* Proofs about MoneyFlow, for any payments, amounts, currencies and       *)
(* refund calls, any number of restarts, any log bound, with and without   *)
(* faults.                                                                 *)
(***************************************************************************)
EXTENDS MoneyFlow, SumTheorems, TLAPS

-----------------------------------------------------------------------------
(* What every step needs to know of the types.  Safety needs neither the      *)
(* order of the unsettled payments nor the bounds; they follow at the end.    *)
Statuses == {"none", "created", "initiated", "processed", "refunded"}
InitiatedEvents == {Initiated(p) : p \in Payments}

RowTypes ==
    /\ status \in [Payments -> Statuses]
    /\ settlements \in Seq(Settlement)
    /\ settlementId \in [Payments -> 0..Len(settlements)]
    /\ captures \in [Payments -> Nat] /\ refunds \in [Payments -> Nat]
    /\ reading \in [Admins -> Payments \cup {None}]

EventTypes ==
    /\ outbox \subseteq ({"gateway"} \X CreatedEvents)
                          \cup ({"settlement"} \X SettledEvents)
                          \cup ({"ledger"} \X InitiatedEvents)
    /\ batch \subseteq SettleEvents
    /\ webhooks \subseteq InitiatedEvents

LogTypes ==
    /\ log \in Seq(Events)
    /\ position \in [Consumers -> Nat]
    /\ committed \in [Consumers -> Nat \cup {-1}]

TypeInv == RowTypes /\ EventTypes /\ LogTypes

(* The three kinds of events are told apart by their status. *)
LEMMA EventKinds ==
    /\ \A e \in CreatedEvents :
         e.status = "created" /\ \E p \in Payments : e = Created(p) /\ e.ids = {p}
    /\ \A e \in SettleEvents :
         /\ e.status = "initiated" /\ e.ids \subseteq Payments /\ e.ids # {}
         /\ e.amount \in Totals /\ e.currency \in Currencies
    /\ \A e \in SettledEvents : e.status = "settled"
  <1>1. ASSUME NEW e \in CreatedEvents
        PROVE  e.status = "created" /\ \E p \in Payments : e = Created(p) /\ e.ids = {p}
    BY <1>1 DEF CreatedEvents, Created
  <1>2. ASSUME NEW e \in SettleEvents
        PROVE  /\ e.status = "initiated" /\ e.ids \subseteq Payments /\ e.ids # {}
               /\ e.amount \in Totals /\ e.currency \in Currencies
    <2>1. PICK S \in Groupings, c \in Currencies : e = Settle(S, c)
      BY <1>2 DEF SettleEvents
    <2>2. e.status = "initiated" /\ e.ids = S /\ e.amount = Total(S) /\ e.currency = c
      BY <2>1 DEF Settle
    <2> QED BY <2>2 DEF Totals, Groupings
  <1>3. ASSUME NEW e \in SettledEvents PROVE e.status = "settled"
    BY <1>3 DEF SettledEvents
  <1> QED BY <1>1, <1>2, <1>3

(* What the settlement service announces for a payout it made. *)
LEMMA SettledKind ==
    ASSUME NEW e \in SettleEvents, NEW p \in Payments
    PROVE  Settled(p, e) \in SettledEvents
  BY EventKinds DEF Settled, SettledEvents

(* The message a ready consumer fetches is an event. *)
LEMMA FetchedEvent ==
    ASSUME LogTypes, NEW g \in Consumers, Topic!Ready(g)
    PROVE  /\ Topic!Fetched(g) \in Events
           /\ \E i \in 1..Len(log) : Topic!Fetched(g) = log[i]
  BY DEF LogTypes, Topic!Ready, Topic!Fetched

-----------------------------------------------------------------------------
(* The steps of the topic. *)

LEMMA TopicPublish ==
    ASSUME LogTypes, NEW e \in Events, Topic!Publish(e)
    PROVE  LogTypes' /\ \A i \in 1..Len(log') : log'[i] = e \/ \E j \in 1..Len(log) : log'[i] = log[j]
  BY DEF LogTypes, Topic!Publish

LEMMA TopicHandled ==
    ASSUME LogTypes, NEW g \in Consumers, Topic!HandlerSucceeds(g) \/ Topic!HandlerFails(g)
    PROVE  LogTypes' /\ log' = log
  BY DEF LogTypes, Topic!HandlerSucceeds, Topic!HandlerFails, Topic!Advance

LEMMA TopicCommit ==
    ASSUME LogTypes, NEW g \in Consumers, Topic!CommitMessages(g)
    PROVE  LogTypes' /\ log' = log
  BY DEF LogTypes, Topic!CommitMessages

LEMMA TopicRestart ==
    ASSUME LogTypes, NEW g \in Consumers, Topic!Restart(g)
    PROVE  LogTypes' /\ log' = log
  <1>1. Len(log) \in Nat
    BY DEF LogTypes
  <1>2. Topic!ResumeAt(g) \in Nat
    BY <1>1 DEF LogTypes, Topic!ResumeAt, Topic!NoOffset
  <1> QED BY <1>2 DEF LogTypes, Topic!Restart

LEMMA TopicForget ==
    ASSUME LogTypes, Topic!Forget
    PROVE  LogTypes' /\ \A i \in 1..Len(log') : \E j \in 1..Len(log) : log'[i] = log[j]
  <1>1. log # <<>> /\ log' = Tail(log)
    BY DEF Topic!Forget
  <1>2. log' \in Seq(Events) /\ Len(log') = Len(log) - 1
        /\ \A i \in 1..Len(log') : log'[i] = log[i + 1]
    BY <1>1 DEF LogTypes
  <1>3. position' \in [Consumers -> Nat] /\ committed' \in [Consumers -> Nat \cup {-1}]
    BY DEF LogTypes, Topic!Forget, Topic!Behind, Topic!NoOffset
  <1>4. Len(log) \in Nat
    BY DEF LogTypes
  <1> QED BY <1>2, <1>3, <1>4 DEF LogTypes

-----------------------------------------------------------------------------
(* The steps of the tables. *)

LEMMA RowsPosted ==
    ASSUME RowTypes, NEW p \in Payments, Post(p), UNCHANGED refundVars
    PROVE  RowTypes'
  BY DEF RowTypes, Post, settlementVars, refundVars, Statuses

LEMMA RowsPaid ==
    ASSUME RowTypes, NEW e \in SettleEvents, PayOut(e), UNCHANGED refundVars
    PROVE  RowTypes' /\ Len(settlements') = Len(settlements) + 1
  <1>1. [amount |-> e.amount, currency |-> e.currency] \in Settlement
    BY EventKinds DEF Settlement
  <1>2. settlements' \in Seq(Settlement) /\ Len(settlements') = Len(settlements) + 1
    BY <1>1 DEF RowTypes, PayOut
  <1>3. Len(settlements) \in Nat
    BY DEF RowTypes
  <1>4. settlementId' \in [Payments -> 0..Len(settlements')]
    BY <1>2, <1>3 DEF RowTypes, PayOut
  <1> QED BY <1>2, <1>4 DEF RowTypes, PayOut, refundVars, Statuses

LEMMA TypeInit == Init => TypeInv
  <1> SUFFICES ASSUME Init PROVE TypeInv
    OBVIOUS
  <1>1. RowTypes
    BY DEF Init, RowTypes, Statuses
  <1>2. EventTypes
    BY DEF Init, EventTypes
  <1>3. LogTypes
    BY DEF Init, LogTypes, Topic!TopicInit, Topic!NoOffset
  <1> QED BY <1>1, <1>2, <1>3 DEF TypeInv

LEMMA TypeStep == TypeInv /\ [Next]_vars => TypeInv'
  <1> SUFFICES ASSUME TypeInv, [Next]_vars PROVE TypeInv'
    OBVIOUS
  <1> USE DEF TypeInv
  <1>1. ASSUME NEW p \in Payments, CreatePayment(p) PROVE TypeInv'
    <2>1. RowTypes'
      BY <1>1 DEF RowTypes, CreatePayment, Statuses, ledgerVars, settlementVars, refundVars
    <2>2. Created(p) \in CreatedEvents
      BY DEF CreatedEvents
    <2>3. EventTypes'
      BY <1>1, <2>2 DEF EventTypes, CreatePayment
    <2> QED BY <1>1, <2>1, <2>3 DEF LogTypes, CreatePayment, topicVars
  <1>2. ASSUME NEW x \in outbox, PublishEvent(x[1], x[2]) PROVE TypeInv'
    <2>1. RowTypes'
      BY <1>2 DEF RowTypes, PublishEvent, moneyVars, ledgerVars, settlementVars, refundVars
    <2>2. CASE x[1] # "ledger" /\ Topic!Publish(x[2]) /\ UNCHANGED webhooks
      <3>1. x[2] \in Events
        BY <2>2 DEF EventTypes, Events
      <3> QED BY <1>2, <2>1, <2>2, <3>1, TopicPublish DEF EventTypes, PublishEvent
    <2>3. CASE x[1] = "ledger" /\ webhooks' = webhooks \cup {x[2]} /\ UNCHANGED topicVars
      <3>1. x[2] \in InitiatedEvents
        BY <2>3 DEF EventTypes
      <3> QED BY <1>2, <2>1, <2>3, <3>1 DEF EventTypes, LogTypes, PublishEvent, topicVars
    <2>4. CASE UNCHANGED <<webhooks, topicVars>>
      BY <1>2, <2>1, <2>4 DEF EventTypes, LogTypes, PublishEvent, topicVars
    <2> QED BY <1>2, <2>2, <2>3, <2>4 DEF PublishEvent
  <1>3. ASSUME HandlePaymentEvent PROVE TypeInv'
    <2>1. LogTypes'
      BY <1>3, TopicHandled DEF HandlePaymentEvent, Consumers
    <2>2. ASSUME UNCHANGED moneyVars PROVE RowTypes'
      BY <1>3, <2>2 DEF HandlePaymentEvent, RowTypes, moneyVars, ledgerVars, settlementVars, refundVars
    <2>3. ASSUME NEW p \in Payments, Post(p) PROVE RowTypes'
      BY <1>3, <2>3, RowsPosted DEF HandlePaymentEvent
    <2>4. ASSUME NEW p \in Payments, LedgerAnnounces(p) PROVE EventTypes'
      BY <1>3, <2>4 DEF HandlePaymentEvent, EventTypes, LedgerAnnounces, InitiatedEvents
    <2>5. ASSUME UNCHANGED outbox PROVE EventTypes'
      BY <1>3, <2>5 DEF HandlePaymentEvent, EventTypes
    <2>6. ASSUME ForLedger(Topic!Fetched("ledger"))
          PROVE  Topic!Fetched("ledger").ids \subseteq Payments
      BY <1>3, <2>6, FetchedEvent, EventKinds
         DEF HandlePaymentEvent, ForLedger, Events, Consumers
    <2> QED BY <1>3, <2>1, <2>2, <2>3, <2>4, <2>5, <2>6 DEF HandlePaymentEvent, LedgerError
  <1>4. ASSUME HandleSettleEvent PROVE TypeInv'
    <2> DEFINE e == Topic!Fetched("settlement")
    <2>1. LogTypes'
      BY <1>4, TopicHandled DEF HandleSettleEvent, Consumers
    <2>2. ASSUME UNCHANGED moneyVars PROVE RowTypes'
      BY <1>4, <2>2 DEF HandleSettleEvent, RowTypes, moneyVars, ledgerVars, settlementVars, refundVars
    <2>3. ASSUME e.status = "initiated" PROVE e \in SettleEvents
      BY <1>4, <2>3, FetchedEvent, EventKinds DEF HandleSettleEvent, Events, Consumers
    <2>4. ASSUME e.status = "initiated", PayOut(e) PROVE RowTypes'
      BY <1>4, <2>3, <2>4, RowsPaid DEF HandleSettleEvent
    <2>5. ASSUME UNCHANGED outbox PROVE EventTypes'
      BY <1>4, <2>5 DEF HandleSettleEvent, EventTypes
    <2>6. ASSUME e.status = "initiated",
                 outbox' = outbox \cup {<<"settlement", Settled(p, e)>> : p \in e.ids}
          PROVE  EventTypes'
      <3>1. \A p \in e.ids : Settled(p, e) \in SettledEvents
        BY <2>3, <2>6, EventKinds, SettledKind
      <3> QED BY <1>4, <2>6, <3>1 DEF HandleSettleEvent, EventTypes
    <2> QED BY <1>4, <2>1, <2>2, <2>4, <2>5, <2>6 DEF HandleSettleEvent
  <1>5. ASSUME NEW g \in Consumers, Commit(g) PROVE TypeInv'
    BY <1>5, TopicCommit
       DEF Commit, RowTypes, EventTypes, moneyVars, ledgerVars, settlementVars, refundVars, eventVars
  <1>6. ASSUME PollSettlements PROVE TypeInv'
    <2>1. \A due, c : Eligible(due, c) \subseteq Payments
      BY DEF Eligible
    <2>2. batch' \subseteq SettleEvents
      BY <1>6, <2>1 DEF PollSettlements, SettleEvents, Groupings
    <2> QED BY <1>6, <2>2 DEF PollSettlements, RowTypes, EventTypes, LogTypes, moneyVars,
                              ledgerVars, settlementVars, refundVars, topicVars
  <1>7. ASSUME NEW e \in batch, DispatchSettlement(e) PROVE TypeInv'
    <2>1. e \in Events
      BY DEF EventTypes, Events
    <2>2. LogTypes'
      BY <1>7, <2>1, TopicPublish DEF DispatchSettlement, LogTypes, topicVars
    <2> QED BY <1>7, <2>2 DEF DispatchSettlement, RowTypes, EventTypes, moneyVars,
                              ledgerVars, settlementVars, refundVars
  <1>8. ASSUME NEW a \in Admins, NEW p \in Payments, RefundReads(a, p) PROVE TypeInv'
    BY <1>8 DEF RefundReads, RowTypes, EventTypes, LogTypes, moneyVars, ledgerVars,
                settlementVars, eventVars, topicVars
  <1>9. ASSUME NEW a \in Admins, RefundWrites(a) PROVE TypeInv'
    <2>1. reading[a] \in Payments
      BY <1>9 DEF RefundWrites, RowTypes
    <2>2. status' \in [Payments -> Statuses] /\ refunds' \in [Payments -> Nat]
      <3>1. status \in [Payments -> Statuses] /\ refunds \in [Payments -> Nat]
        BY DEF RowTypes
      <3>2. CASE UNCHANGED <<refunds, status>>
        BY <3>1, <3>2
      <3>3. CASE refunds' = [refunds EXCEPT ![reading[a]] = @ + 1]
                 /\ status' = [status EXCEPT ![reading[a]] = "refunded"]
        <4>1. "refunded" \in Statuses /\ refunds[reading[a]] + 1 \in Nat
          BY <2>1, <3>1 DEF Statuses
        <4> QED BY <3>1, <3>3, <4>1
      <3> QED BY <1>9, <3>2, <3>3 DEF RefundWrites
    <2>3. RowTypes'
      BY <1>9, <2>2 DEF RefundWrites, RowTypes, ledgerVars, settlementVars
    <2> QED BY <1>9, <2>3 DEF RefundWrites, EventTypes, LogTypes, eventVars, topicVars
  <1>10. ASSUME NEW s \in Services, RestartService(s) PROVE TypeInv'
    <2>1. LogTypes'
      BY <1>10, TopicRestart DEF RestartService, LogTypes, topicVars
    <2> QED BY <1>10, <2>1 DEF RestartService, RowTypes, EventTypes, moneyVars, ledgerVars,
                               settlementVars, refundVars
  <1>11. ASSUME Forget PROVE TypeInv'
    BY <1>11, TopicForget
       DEF Forget, RowTypes, EventTypes, moneyVars, ledgerVars, settlementVars, refundVars, eventVars
  <1>12. CASE UNCHANGED vars
    BY <1>12 DEF vars, RowTypes, EventTypes, LogTypes, moneyVars, ledgerVars, settlementVars,
                 refundVars, eventVars, topicVars
  <1> QED BY <1>1, <1>2, <1>3, <1>4, <1>5, <1>6, <1>7, <1>8, <1>9, <1>10, <1>11, <1>12 DEF Next

-----------------------------------------------------------------------------
(* A payment that left "created", or that is named by a refund in progress,   *)
(* a settle event on its way or an announcement, has been posted.             *)
Posted(p) == captures[p] > 0
StatusPosted == \A p \in Payments : status[p] \notin {"none", "created"} => Posted(p)
ReadingPosted == \A a \in Admins : reading[a] # None => Posted(reading[a])
Dispatched == batch \cup {log[i] : i \in 1..Len(log)}
EventsPosted == \A e \in Dispatched : e.status = "initiated" => \A p \in e.ids : Posted(p)
OutboxPosted == \A p \in Payments : <<"ledger", Initiated(p)>> \in outbox => Posted(p)

PostedInv ==
    TypeInv /\ StatusPosted /\ SettledWasPosted /\ ReadingPosted
            /\ EventsPosted /\ OutboxPosted /\ AnnouncedWasPosted

(* All that concerns captures or reads them in one step of the tables. *)
LEMMA PostPosts ==
    ASSUME RowTypes, NEW p \in Payments, Post(p)
    PROVE  /\ Posted(p)'
           /\ \A q \in Payments : (Posted(q) => Posted(q)') /\ (q # p => status'[q] = status[q])
  BY DEF RowTypes, Post, Posted

(* What only watches captures grow stays posted. *)
LEMMA StaysPosted ==
    ASSUME PostedInv, \A p \in Payments : Posted(p) => Posted(p)'
    PROVE  /\ UNCHANGED refundVars => ReadingPosted'
           /\ Dispatched' \subseteq Dispatched => EventsPosted'
           /\ outbox' \subseteq outbox => OutboxPosted'
           /\ webhooks' \subseteq webhooks => AnnouncedWasPosted'
           /\ UNCHANGED settlementId => SettledWasPosted'
           /\ UNCHANGED status => StatusPosted'
  <1> USE DEF PostedInv, TypeInv
  <1>1. UNCHANGED refundVars => ReadingPosted'
    BY DEF ReadingPosted, RowTypes, refundVars
  <1>2. \A e \in Dispatched : e.status = "initiated" => e.ids \subseteq Payments
    <2>1. Dispatched \subseteq Events
      BY DEF Dispatched, EventTypes, LogTypes, Events
    <2> QED BY <2>1, EventKinds DEF Events
  <1>3. Dispatched' \subseteq Dispatched => EventsPosted'
    BY <1>2 DEF EventsPosted
  <1>4. outbox' \subseteq outbox => OutboxPosted'
    BY DEF OutboxPosted
  <1>5. webhooks' \subseteq webhooks => AnnouncedWasPosted'
    BY DEF AnnouncedWasPosted, Posted
  <1>6. UNCHANGED settlementId => SettledWasPosted'
    BY DEF SettledWasPosted, Posted
  <1>7. UNCHANGED status => StatusPosted'
    BY DEF StatusPosted
  <1> QED BY <1>1, <1>3, <1>4, <1>5, <1>6, <1>7

(* Steps that leave the tables alone and publish nothing new. *)
LEMMA NothingPosted ==
    ASSUME PostedInv, TypeInv', UNCHANGED <<moneyVars, refundVars>>,
           Dispatched' \subseteq Dispatched, outbox' \subseteq outbox, webhooks' \subseteq webhooks
    PROVE  PostedInv'
  <1>1. \A p \in Payments : Posted(p) => Posted(p)'
    BY DEF Posted, moneyVars, ledgerVars
  <1> QED BY <1>1, StaysPosted DEF PostedInv, moneyVars, settlementVars

LEMMA PostedInit == Init => PostedInv
  <1> SUFFICES ASSUME Init PROVE PostedInv
    OBVIOUS
  <1>1. Dispatched = {}
    BY DEF Init, Topic!TopicInit, Dispatched
  <1> QED BY <1>1, TypeInit DEF Init, PostedInv, StatusPosted, SettledWasPosted, ReadingPosted,
                                EventsPosted, OutboxPosted, AnnouncedWasPosted

LEMMA PostedStep == PostedInv /\ [Next]_vars => PostedInv'
  <1> SUFFICES ASSUME PostedInv, [Next]_vars PROVE PostedInv'
    OBVIOUS
  <1>0. TypeInv /\ TypeInv'
    BY TypeStep DEF PostedInv
  <1>a. RowTypes /\ EventTypes /\ LogTypes
    BY <1>0 DEF TypeInv
  <1>b. UNCHANGED log /\ UNCHANGED batch => Dispatched' = Dispatched
    BY DEF Dispatched
  <1>1. ASSUME NEW p \in Payments, CreatePayment(p) PROVE PostedInv'
    <2>1. \A q \in Payments : Posted(q) => Posted(q)'
      BY <1>1 DEF CreatePayment, Posted, ledgerVars
    <2>2. Dispatched' \subseteq Dispatched
      BY <1>1, <1>b DEF CreatePayment, topicVars
    <2>3. StatusPosted'
      BY <1>1, <1>a, <2>1 DEF CreatePayment, PostedInv, StatusPosted, RowTypes
    <2>4. OutboxPosted'
      BY <1>1, <2>1 DEF CreatePayment, PostedInv, OutboxPosted
    <2> QED BY <1>0, <1>1, <2>1, <2>2, <2>3, <2>4, StaysPosted
            DEF CreatePayment, PostedInv, settlementVars
  <1>2. ASSUME NEW x \in outbox, PublishEvent(x[1], x[2]) PROVE PostedInv'
    <2>1. UNCHANGED <<moneyVars, refundVars, batch>> /\ outbox' \subseteq outbox
      BY <1>2 DEF PublishEvent
    <2>2. \A q \in Payments : Posted(q) => Posted(q)'
      BY <2>1 DEF Posted, moneyVars, ledgerVars
    <2>3. CASE x[1] # "ledger" /\ Topic!Publish(x[2]) /\ UNCHANGED webhooks
      <3>1. x[2] \in CreatedEvents \cup SettledEvents
        BY <1>a, <2>3 DEF EventTypes
      <3>2. x[2].status # "initiated" /\ x[2] \in Events
        BY <3>1, EventKinds DEF Events
      <3>3. Dispatched' \subseteq Dispatched \cup {x[2]}
        BY <1>a, <2>1, <2>3, <3>2, TopicPublish DEF Dispatched
      <3>4. EventsPosted'
        <4>1. Dispatched \subseteq Events
          BY <1>a DEF Dispatched, EventTypes, LogTypes, Events
        <4>2. \A e \in Dispatched : e.status = "initiated" => e.ids \subseteq Payments
          BY <4>1, EventKinds DEF Events
        <4> QED BY <2>2, <3>2, <3>3, <4>2 DEF PostedInv, EventsPosted
      <3> QED BY <1>0, <2>1, <2>2, <2>3, <3>4, StaysPosted DEF PostedInv, moneyVars, settlementVars
    <2>4. CASE x[1] = "ledger" /\ webhooks' = webhooks \cup {x[2]} /\ UNCHANGED topicVars
      <3>1. Dispatched' \subseteq Dispatched
        BY <1>b, <2>1, <2>4 DEF topicVars
      <3>2. \E y \in InitiatedEvents : x = <<"ledger", y>>
        BY <1>a, <2>4 DEF EventTypes
      <3>3. AnnouncedWasPosted'
        BY <2>2, <2>4, <3>2 DEF PostedInv, AnnouncedWasPosted, OutboxPosted, Posted, InitiatedEvents
      <3> QED BY <1>0, <2>1, <2>2, <3>1, <3>3, StaysPosted DEF PostedInv, moneyVars, settlementVars
    <2>5. CASE UNCHANGED <<webhooks, topicVars>>
      BY <1>0, <1>b, <2>1, <2>5, NothingPosted DEF topicVars
    <2> QED BY <1>2, <2>3, <2>4, <2>5 DEF PublishEvent
  <1>3. ASSUME HandlePaymentEvent PROVE PostedInv'
    <2> DEFINE e == Topic!Fetched("ledger")
    <2>1. UNCHANGED <<refundVars, batch, webhooks>> /\ log' = log
      BY <1>3, <1>a, TopicHandled DEF HandlePaymentEvent, Consumers
    <2>2. Dispatched' \subseteq Dispatched
      BY <1>b, <2>1
    <2>3. CASE UNCHANGED <<moneyVars, outbox>>
      BY <1>0, <2>1, <2>2, <2>3, NothingPosted
    <2>4. ASSUME NEW p \in Payments, Post(p), UNCHANGED outbox \/ LedgerAnnounces(p)
          PROVE  PostedInv'
      <3>1. Posted(p)' /\ \A q \in Payments : Posted(q) => Posted(q)'
        BY <1>a, <2>4, PostPosts
      <3>2. StatusPosted'
        BY <1>a, <2>4, <3>1, PostPosts DEF PostedInv, StatusPosted
      <3>3. OutboxPosted'
        BY <2>4, <3>1 DEF PostedInv, OutboxPosted, LedgerAnnounces, Initiated
      <3>4. UNCHANGED settlementId
        BY <2>4 DEF Post, settlementVars
      <3> QED BY <1>0, <2>1, <2>2, <3>1, <3>2, <3>3, <3>4, StaysPosted DEF PostedInv
    <2>5. ASSUME ForLedger(e) PROVE e.ids \subseteq Payments
      BY <1>3, <1>a, <2>5, FetchedEvent, EventKinds
         DEF HandlePaymentEvent, ForLedger, Events, Consumers
    <2> QED BY <1>3, <2>3, <2>4, <2>5 DEF HandlePaymentEvent, LedgerError
  <1>4. ASSUME HandleSettleEvent PROVE PostedInv'
    <2> DEFINE e == Topic!Fetched("settlement")
    <2>1. UNCHANGED <<refundVars, batch, webhooks>> /\ log' = log
      BY <1>4, <1>a, TopicHandled DEF HandleSettleEvent, Consumers
    <2>2. Dispatched' \subseteq Dispatched
      BY <1>b, <2>1
    <2>3. CASE UNCHANGED <<moneyVars, outbox>>
      BY <1>0, <2>1, <2>2, <2>3, NothingPosted
    <2>4. ASSUME e.status = "initiated", PayOut(e),
                 \/ UNCHANGED outbox
                 \/ outbox' = outbox \cup {<<"settlement", Settled(p, e)>> : p \in e.ids}
          PROVE  PostedInv'
      <3>1. \A q \in Payments : Posted(q) => Posted(q)'
        BY <2>4 DEF PayOut, Posted
      <3>2. e \in Dispatched
        BY <1>4, <1>a, FetchedEvent DEF HandleSettleEvent, Consumers, Dispatched
      <3>3. \A q \in Targets(e) : Posted(q)'
        <4>1. e \in SettleEvents
          BY <1>4, <1>a, <2>4, FetchedEvent, EventKinds DEF HandleSettleEvent, Events, Consumers
        <4> QED BY <2>4, <3>1, <3>2, <4>1, EventKinds DEF PostedInv, EventsPosted, Targets
      <3>4. StatusPosted'
        BY <2>4, <3>1, <3>3 DEF PostedInv, StatusPosted, PayOut
      <3>5. SettledWasPosted'
        <4>1. ASSUME NEW q \in Payments, settlementId'[q] # 0 PROVE captures'[q] > 0
          BY <2>4, <3>1, <3>3, <4>1 DEF PostedInv, SettledWasPosted, PayOut, Posted
        <4> QED BY <4>1 DEF SettledWasPosted
      <3>6. OutboxPosted'
        BY <2>4, <3>1 DEF PostedInv, OutboxPosted
      <3> QED BY <1>0, <2>1, <2>2, <3>1, <3>4, <3>5, <3>6, StaysPosted DEF PostedInv
    <2> QED BY <1>4, <2>3, <2>4 DEF HandleSettleEvent
  <1>5. ASSUME NEW g \in Consumers, Commit(g) PROVE PostedInv'
    <2>1. log' = log /\ UNCHANGED <<moneyVars, refundVars, outbox, batch, webhooks>>
      BY <1>5, <1>a, TopicCommit DEF Commit, eventVars
    <2> QED BY <1>0, <1>b, <2>1, NothingPosted
  <1>6. ASSUME PollSettlements PROVE PostedInv'
    <2>1. \A q \in Payments : Posted(q) => Posted(q)'
      BY <1>6 DEF PollSettlements, Posted, moneyVars, ledgerVars
    <2>2. \A due, c : \A q \in Eligible(due, c) : q \in Payments /\ Posted(q)
      BY DEF Eligible, PostedInv, StatusPosted
    <2>3. \A x \in batch' : \A q \in x.ids : q \in Payments /\ Posted(q)
      BY <1>6, <2>2 DEF PollSettlements, Settle
    <2>4. Dispatched' = batch' \cup {log[i] : i \in 1..Len(log)} /\ batch = {}
      BY <1>6 DEF PollSettlements, Dispatched, topicVars
    <2>5. EventsPosted'
      <3>1. \A x \in Dispatched : x.status = "initiated" => x.ids \subseteq Payments
        BY <1>a, EventKinds DEF Dispatched, EventTypes, LogTypes, Events
      <3> QED BY <2>1, <2>3, <2>4, <3>1 DEF PostedInv, EventsPosted, Dispatched
    <2> QED BY <1>0, <1>6, <2>1, <2>5, StaysPosted
            DEF PollSettlements, PostedInv, moneyVars, settlementVars
  <1>7. ASSUME NEW x \in batch, DispatchSettlement(x) PROVE PostedInv'
    <2>1. Dispatched' \subseteq Dispatched
      <3>1. x \in Events /\ batch' \subseteq batch
        BY <1>7, <1>a DEF DispatchSettlement, EventTypes, Events
      <3>2. CASE Topic!Publish(x)
        BY <1>a, <3>1, <3>2, TopicPublish DEF Dispatched
      <3>3. CASE UNCHANGED topicVars
        BY <3>1, <3>3 DEF Dispatched, topicVars
      <3> QED BY <1>7, <3>2, <3>3 DEF DispatchSettlement
    <2> QED BY <1>0, <1>7, <2>1, NothingPosted DEF DispatchSettlement
  <1>8. ASSUME NEW a \in Admins, NEW p \in Payments, RefundReads(a, p) PROVE PostedInv'
    <2>1. \A q \in Payments : Posted(q) => Posted(q)'
      BY <1>8 DEF RefundReads, Posted, moneyVars, ledgerVars
    <2>2. Posted(p)
      BY <1>8 DEF RefundReads, Refundable, PostedInv, StatusPosted
    <2>3. ReadingPosted'
      BY <1>8, <1>a, <2>1, <2>2 DEF RefundReads, PostedInv, ReadingPosted, RowTypes
    <2>4. Dispatched' \subseteq Dispatched /\ UNCHANGED <<outbox, webhooks>>
      BY <1>8, <1>b DEF RefundReads, eventVars, topicVars
    <2> QED BY <1>0, <1>8, <2>1, <2>3, <2>4, StaysPosted
            DEF RefundReads, PostedInv, moneyVars, settlementVars
  <1>9. ASSUME NEW a \in Admins, RefundWrites(a) PROVE PostedInv'
    <2>1. \A q \in Payments : Posted(q) => Posted(q)'
      BY <1>9 DEF RefundWrites, Posted, ledgerVars
    <2>2. reading[a] \in Payments /\ Posted(reading[a])
      BY <1>9, <1>a DEF RefundWrites, PostedInv, ReadingPosted, RowTypes
    <2>3. ReadingPosted'
      BY <1>9, <1>a, <2>1 DEF RefundWrites, PostedInv, ReadingPosted, RowTypes
    <2>4. StatusPosted'
      BY <1>9, <1>a, <2>1, <2>2 DEF RefundWrites, PostedInv, StatusPosted, RowTypes
    <2>5. Dispatched' \subseteq Dispatched /\ UNCHANGED <<outbox, webhooks>>
      BY <1>9, <1>b DEF RefundWrites, eventVars, topicVars
    <2> QED BY <1>0, <1>9, <2>1, <2>3, <2>4, <2>5, StaysPosted
            DEF RefundWrites, PostedInv, settlementVars
  <1>10. ASSUME NEW s \in Services, RestartService(s) PROVE PostedInv'
    <2>1. log' = log /\ batch' \subseteq batch /\ outbox' \subseteq outbox
      BY <1>10, <1>a, TopicRestart DEF RestartService, topicVars
    <2>2. Dispatched' \subseteq Dispatched
      BY <2>1 DEF Dispatched
    <2> QED BY <1>0, <1>10, <2>1, <2>2, NothingPosted DEF RestartService
  <1>11. ASSUME Forget PROVE PostedInv'
    <2>1. Dispatched' \subseteq Dispatched
      BY <1>11, <1>a, TopicForget DEF Forget, Dispatched, eventVars
    <2> QED BY <1>0, <1>11, <2>1, NothingPosted DEF Forget, eventVars
  <1>12. CASE UNCHANGED vars
    BY <1>0, <1>b, <1>12, NothingPosted DEF vars, eventVars, topicVars
  <1> QED BY <1>1, <1>2, <1>3, <1>4, <1>5, <1>6, <1>7, <1>8, <1>9, <1>10, <1>11, <1>12 DEF Next

(* Money is only paid out for payments that the ledger posted, and only those *)
(* are announced to merchants as initiated.                                   *)
THEOREM PaysOnlyPosted == Spec => []SettledWasPosted
  <1>1. PostedInv => SettledWasPosted
    BY DEF PostedInv
  <1> QED BY <1>1, PostedInit, PostedStep, PTL DEF Spec

THEOREM AnnouncesOnlyPosted == Spec => []AnnouncedWasPosted
  <1>1. PostedInv => AnnouncedWasPosted
    BY DEF PostedInv
  <1> QED BY <1>1, PostedInit, PostedStep, PTL DEF Spec

-----------------------------------------------------------------------------
(* Settlement.  The only step that writes settlement_id or appends to the    *)
(* settlements is PayOut; all others leave them alone.                       *)

LEMMA OnlyPayOut ==
    ASSUME TypeInv, [Next]_vars
    PROVE  \/ UNCHANGED <<settlementId, settlements>>
           \/ \E e \in SettleEvents \cap Dispatched :
                 PayOut(e) /\ PaysOut(e) /\ UNCHANGED refundVars
  <1> USE DEF settlementVars, moneyVars
  <1>1. ASSUME HandleSettleEvent
        PROVE  \/ UNCHANGED <<settlementId, settlements>>
               \/ \E e \in SettleEvents \cap Dispatched :
                 PayOut(e) /\ PaysOut(e) /\ UNCHANGED refundVars
    <2> DEFINE e == Topic!Fetched("settlement")
    <2>1. ASSUME e.status = "initiated" PROVE e \in SettleEvents \cap Dispatched
      BY <1>1, <2>1, FetchedEvent, EventKinds
         DEF HandleSettleEvent, TypeInv, Events, Consumers, Dispatched
    <2> QED BY <1>1, <2>1 DEF HandleSettleEvent
  <1>2. ASSUME HandlePaymentEvent PROVE UNCHANGED <<settlementId, settlements>>
    BY <1>2 DEF HandlePaymentEvent, LedgerError, Post
  <1>3. CASE UNCHANGED vars
    BY <1>3 DEF vars
  <1> QED BY <1>1, <1>2, <1>3
          DEF Next, CreatePayment, PublishEvent, Commit, PollSettlements, DispatchSettlement,
              RefundReads, RefundWrites, RestartService, Forget

(* A payment stays with the settlement it was paid by. *)
SettledStays == \A p \in Payments : settlementId[p] # 0 => settlementId'[p] = settlementId[p]

LEMMA SettledStaysStep == TypeInv /\ [Next]_vars => SettledStays
  <1> SUFFICES ASSUME TypeInv, [Next]_vars PROVE SettledStays
    OBVIOUS
  <1>1. CASE UNCHANGED settlementId
    BY <1>1 DEF SettledStays
  <1>2. ASSUME NEW e \in SettleEvents, PayOut(e) PROVE SettledStays
    BY <1>2 DEF SettledStays, PayOut, Targets
  <1> QED BY <1>1, <1>2, OnlyPayOut

THEOREM SettlementsKeep == Spec => SettlementIdStable
  <1>1. TypeInv /\ [Next]_vars =>
          [\A p \in Payments : settlementId[p] # 0 => settlementId'[p] = settlementId[p]]_vars
    BY SettledStaysStep DEF SettledStays
  <1> QED BY <1>1, TypeInit, TypeStep, PTL DEF Spec, SettlementIdStable

(* A status becomes "processed" only for a payment PayOut settles, and PayOut *)
(* takes none that is settled.                                                *)
OnceProcessed ==
    \A p \in Payments : settlementId[p] # 0 /\ status[p] # "processed"
                         => status'[p] # "processed"

LEMMA OnceProcessedStep == TypeInv /\ [Next]_vars => OnceProcessed
  <1> SUFFICES ASSUME TypeInv, [Next]_vars PROVE OnceProcessed
    OBVIOUS
  <1>1. RowTypes
    BY DEF TypeInv
  <1>2. ASSUME UNCHANGED status PROVE OnceProcessed
    BY <1>2 DEF OnceProcessed
  <1>3. ASSUME NEW p \in Payments, NEW new, new # "processed", status' = [status EXCEPT ![p] = new]
        PROVE  OnceProcessed
    BY <1>1, <1>3 DEF OnceProcessed, RowTypes
  <1>4. ASSUME NEW e, PayOut(e) PROVE OnceProcessed
    <2> SUFFICES ASSUME NEW p \in Payments, settlementId[p] # 0, status[p] # "processed"
                 PROVE  status'[p] # "processed"
      BY DEF OnceProcessed
    <2>1. p \notin Targets(e)
      BY DEF Targets
    <2> QED BY <1>4, <2>1 DEF PayOut
  <1>5. ASSUME NEW p \in Payments, CreatePayment(p) PROVE OnceProcessed
    BY <1>3, <1>5 DEF CreatePayment
  <1>6. ASSUME HandlePaymentEvent PROVE OnceProcessed
    <2>1. UNCHANGED status \/ \E p : status' = [status EXCEPT ![p] = "initiated"]
      BY <1>6 DEF HandlePaymentEvent, LedgerError, Post, moneyVars
    <2> QED BY <1>1, <1>2, <2>1 DEF OnceProcessed, RowTypes
  <1>7. ASSUME HandleSettleEvent PROVE OnceProcessed
    <2>1. UNCHANGED status \/ \E e : PayOut(e)
      BY <1>7 DEF HandleSettleEvent, moneyVars
    <2> QED BY <1>2, <1>4, <2>1
  <1>8. ASSUME NEW a \in Admins, RefundWrites(a) PROVE OnceProcessed
    <2>1. UNCHANGED status \/ status' = [status EXCEPT ![reading[a]] = "refunded"]
      BY <1>8 DEF RefundWrites
    <2> QED BY <1>1, <1>2, <2>1 DEF OnceProcessed, RowTypes
  <1> QED BY <1>2, <1>5, <1>6, <1>7, <1>8
          DEF Next, PublishEvent, Commit, PollSettlements, DispatchSettlement, RefundReads,
              RestartService, Forget, moneyVars, vars

(* A settled payment is never processed again, whatever resets its status     *)
(* (ledger_service.go:69, settlement_service.go:152).                         *)
THEOREM NeverReprocessed == Spec => ProcessedOnce
  <1>1. TypeInv /\ [Next]_vars =>
          [\A p \in Payments : settlementId[p] # 0 /\ status[p] # "processed"
                                => status'[p] # "processed"]_vars
    BY OnceProcessedStep DEF OnceProcessed
  <1> QED BY <1>1, TypeInit, TypeStep, PTL DEF Spec, ProcessedOnce

(* No settlement is empty: PayOut appends one that gets at least one payment, *)
(* and no payment leaves the settlement it is attached to.                    *)
LEMMA NoEmptyStep == TypeInv /\ NoEmptySettlement /\ [Next]_vars => NoEmptySettlement'
  <1> SUFFICES ASSUME TypeInv, NoEmptySettlement, [Next]_vars PROVE NoEmptySettlement'
    OBVIOUS
  <1>0. RowTypes /\ Len(settlements) \in Nat
    BY DEF TypeInv, RowTypes
  <1>1. CASE UNCHANGED <<settlementId, settlements>>
    BY <1>1 DEF NoEmptySettlement, Attached
  <1>2. ASSUME NEW e \in SettleEvents, PayOut(e), PaysOut(e), UNCHANGED refundVars
        PROVE  NoEmptySettlement'
    <2>1. Len(settlements') = Len(settlements) + 1
      BY <1>0, <1>2, RowsPaid
    <2>2. ASSUME NEW i \in 1..Len(settlements') PROVE \E p \in Payments : settlementId'[p] = i
      <3>1. CASE i = Len(settlements) + 1
        <4>1. PICK p \in Payments : p \in Targets(e)
          BY <1>2, EventKinds DEF PaysOut, Targets
        <4> QED BY <1>2, <3>1, <4>1 DEF PayOut
      <3>2. CASE i \in 1..Len(settlements)
        <4>1. PICK p \in Payments : settlementId[p] = i
          BY <3>2 DEF NoEmptySettlement, Attached
        <4>2. settlementId'[p] = settlementId[p]
          BY <3>2, <4>1, SettledStaysStep DEF SettledStays
        <4> QED BY <4>1, <4>2
      <3> QED BY <1>0, <2>1, <3>1, <3>2
    <2> QED BY <2>2 DEF NoEmptySettlement, Attached
  <1> QED BY <1>1, <1>2, OnlyPayOut

THEOREM NeverEmpty == Spec => []NoEmptySettlement
  <1>1. Init => NoEmptySettlement
    BY DEF Init, NoEmptySettlement
  <1> QED BY <1>1, NoEmptyStep, TypeInit, TypeStep, PTL DEF Spec

-----------------------------------------------------------------------------
(* Refunds.  A payment that is processed, or whose refund is under way, is    *)
(* attached to a settlement; a payment that was reset to "initiated" in       *)
(* between still is.                                                          *)
IsSettled(p) == settlementId[p] # 0
ProcessedSettled == \A p \in Payments : status[p] = "processed" => IsSettled(p)
ReadingSettled == \A a \in Admins : reading[a] # None => IsSettled(reading[a])

RefundInv == TypeInv /\ ProcessedSettled /\ ReadingSettled /\ RefundedWasSettled

LEMMA RefundInit == Init => RefundInv
  BY TypeInit DEF Init, RefundInv, ProcessedSettled, ReadingSettled, RefundedWasSettled

(* Attached payments stay attached, so only new statuses, readings and        *)
(* refunds matter.                                                            *)
LEMMA StaysSettled ==
    ASSUME RefundInv, [Next]_vars
    PROVE  /\ UNCHANGED refundVars => ReadingSettled' /\ RefundedWasSettled'
           /\ (\A p \in Payments : status'[p] = "processed" => status[p] = "processed")
                => ProcessedSettled'
  <1>1. \A p \in Payments : IsSettled(p) => IsSettled(p)'
    BY SettledStaysStep DEF RefundInv, SettledStays, IsSettled
  <1>2. ASSUME UNCHANGED refundVars PROVE ReadingSettled' /\ RefundedWasSettled'
    BY <1>1, <1>2 DEF RefundInv, TypeInv, RowTypes, ReadingSettled, RefundedWasSettled, IsSettled, refundVars
  <1>3. ASSUME \A p \in Payments : status'[p] = "processed" => status[p] = "processed"
        PROVE  ProcessedSettled'
    BY <1>1, <1>3 DEF RefundInv, ProcessedSettled
  <1> QED BY <1>2, <1>3

LEMMA RefundStep == RefundInv /\ [Next]_vars => RefundInv'
  <1> SUFFICES ASSUME RefundInv, [Next]_vars PROVE RefundInv'
    OBVIOUS
  <1>0. TypeInv /\ TypeInv' /\ RowTypes
    BY TypeStep DEF RefundInv, TypeInv
  <1>s. \A p \in Payments : IsSettled(p) => IsSettled(p)'
    BY <1>0, SettledStaysStep DEF SettledStays, IsSettled
  <1>1. ASSUME UNCHANGED refundVars,
               \A p \in Payments : status'[p] = "processed" => status[p] = "processed"
        PROVE  RefundInv'
    BY <1>0, <1>1, StaysSettled DEF RefundInv
  <1>2. ASSUME NEW p \in Payments, CreatePayment(p) PROVE RefundInv'
    BY <1>0, <1>1, <1>2 DEF CreatePayment, RowTypes
  <1>3. ASSUME HandlePaymentEvent PROVE RefundInv'
    <2>1. UNCHANGED status \/ \E p : status' = [status EXCEPT ![p] = "initiated"]
      BY <1>3 DEF HandlePaymentEvent, LedgerError, Post, moneyVars
    <2> QED BY <1>0, <1>1, <1>3, <2>1 DEF HandlePaymentEvent, RowTypes
  <1>4. ASSUME HandleSettleEvent PROVE RefundInv'
    <2> DEFINE e == Topic!Fetched("settlement")
    <2>1. CASE PayOut(e)
      <3>1. ASSUME NEW p \in Payments, status'[p] = "processed" PROVE IsSettled(p)'
        <4>1. CASE p \in Targets(e)
          <5>1. Len(settlements) \in Nat
            BY <1>0 DEF RowTypes
          <5> QED BY <2>1, <4>1, <5>1 DEF PayOut, IsSettled
        <4>2. CASE p \notin Targets(e)
          BY <1>s, <2>1, <3>1, <4>2 DEF PayOut, RefundInv, ProcessedSettled
        <4> QED BY <4>1, <4>2
      <3> QED BY <1>0, <1>4, <3>1, StaysSettled DEF HandleSettleEvent, RefundInv, ProcessedSettled
    <2>2. CASE UNCHANGED moneyVars
      BY <1>1, <1>4, <2>2 DEF HandleSettleEvent, moneyVars
    <2> QED BY <1>4, <2>1, <2>2 DEF HandleSettleEvent
  <1>5. ASSUME NEW a \in Admins, NEW p \in Payments, RefundReads(a, p) PROVE RefundInv'
    <2>1. IsSettled(p)
      BY <1>5 DEF RefundReads, Refundable, RefundInv, ProcessedSettled
    <2>2. ReadingSettled'
      BY <1>0, <1>5, <1>s, <2>1 DEF RefundReads, RefundInv, ReadingSettled, RowTypes
    <2>3. RefundedWasSettled'
      BY <1>5, <1>s DEF RefundReads, RefundInv, RefundedWasSettled, IsSettled
    <2> QED BY <1>0, <1>5, <2>2, <2>3, StaysSettled DEF RefundReads, RefundInv, moneyVars
  <1>6. ASSUME NEW a \in Admins, RefundWrites(a) PROVE RefundInv'
    <2>1. reading[a] \in Payments /\ IsSettled(reading[a])
      BY <1>0, <1>6 DEF RefundWrites, RefundInv, ReadingSettled, RowTypes
    <2>2. ReadingSettled'
      BY <1>0, <1>6, <1>s DEF RefundWrites, RefundInv, ReadingSettled, RowTypes
    <2>3. RefundedWasSettled'
      BY <1>0, <1>6, <1>s, <2>1 DEF RefundWrites, RefundInv, RefundedWasSettled, IsSettled, RowTypes
    <2>4. \A p \in Payments : status'[p] = "processed" => status[p] = "processed"
      BY <1>0, <1>6 DEF RefundWrites, RowTypes
    <2> QED BY <1>0, <2>2, <2>3, <2>4, StaysSettled DEF RefundInv
  <1>7. ASSUME UNCHANGED <<moneyVars, refundVars>> PROVE RefundInv'
    BY <1>1, <1>7 DEF moneyVars
  <1> QED BY <1>2, <1>3, <1>4, <1>5, <1>6, <1>7
          DEF Next, PublishEvent, Commit, PollSettlements, DispatchSettlement, RestartService,
              Forget, vars

(* Money is refunded only for payments that were paid out. *)
THEOREM RefundsOnlySettled == Spec => []RefundedWasSettled
  <1>1. RefundInv => RefundedWasSettled
    BY DEF RefundInv
  <1> QED BY <1>1, RefundInit, RefundStep, PTL DEF Spec

-----------------------------------------------------------------------------
(* Double postings.  A created event exists once: with the gateway's          *)
(* goroutine, then in the topic.  As long as it is in the topic, its payment  *)
(* was captured at most once per restart, and once more when the ledger is    *)
(* past it.                                                                   *)
Unannounced == \A p \in Payments : status[p] = "none" =>
    /\ captures[p] = 0
    /\ <<"gateway", Created(p)>> \notin outbox
    /\ \A i \in 1..Len(log) : log[i] # Created(p)
Publishing == \A p \in Payments : <<"gateway", Created(p)>> \in outbox =>
    /\ captures[p] = 0
    /\ \A i \in 1..Len(log) : log[i] # Created(p)
Once == \A p \in Payments : \A i, j \in 1..Len(log) :
    log[i] = Created(p) /\ log[j] = Created(p) => i = j
Ahead == \A p \in Payments : \A i \in 1..Len(log) :
    log[i] = Created(p) /\ position["ledger"] < i => captures[p] <= restarts

PostingsInv ==
    /\ TypeInv /\ restarts \in Nat
    /\ Unannounced /\ Publishing /\ Once /\ Ahead /\ PostingsBounded

LEMMA CreatedApart ==
    \A p, q \in Payments : Created(p) = Created(q) => p = q
  <1>1. ASSUME NEW p \in Payments, NEW q \in Payments, Created(p) = Created(q) PROVE p = q
    <2>1. Created(p).ids = {p} /\ Created(q).ids = {q}
      BY DEF Created
    <2> QED BY <1>1, <2>1
  <1> QED BY <1>1

LEMMA PostingsInit == Init => PostingsInv
  <1> SUFFICES ASSUME Init PROVE PostingsInv
    OBVIOUS
  <1>1. log = <<>> /\ Len(log) = 0
    BY DEF Init, Topic!TopicInit
  <1> QED BY <1>1, TypeInit
          DEF Init, PostingsInv, Unannounced, Publishing, Once, Ahead, PostingsBounded

(* Steps that capture nothing, create nothing, publish no created event and   *)
(* leave the ledger's position alone.                                         *)
LEMMA NoPosting ==
    ASSUME PostingsInv, TypeInv', UNCHANGED <<captures, restarts>>,
           \A p \in Payments : status'[p] = "none" => status[p] = "none",
           \A p \in Payments : <<"gateway", Created(p)>> \in outbox'
                                => <<"gateway", Created(p)>> \in outbox,
           UNCHANGED <<log, position>>
    PROVE  PostingsInv'
  BY DEF PostingsInv, Unannounced, Publishing, Once, Ahead, PostingsBounded

(* A created event is published, or some other event. *)
LEMMA PublishedOnce ==
    ASSUME PostingsInv, TypeInv', NEW e \in Events, Topic!Publish(e),
           UNCHANGED <<captures, restarts, status>>, outbox' \subseteq outbox,
           \A p \in Payments : e = Created(p) =>
               <<"gateway", e>> \in outbox /\ <<"gateway", e>> \notin outbox'
    PROVE  PostingsInv'
  <1>1. /\ Len(log) \in Nat /\ Len(log') = Len(log) + 1 /\ log'[Len(log) + 1] = e
        /\ \A i \in 1..Len(log) : log'[i] = log[i]
    BY DEF PostingsInv, TypeInv, LogTypes, Topic!Publish
  <1>2. \A i \in 1..Len(log') : i \in 1..Len(log) \/ i = Len(log) + 1
    BY <1>1
  <1>3. UNCHANGED position
    BY DEF Topic!Publish
  <1>4. \A p \in Payments : e = Created(p) =>
          captures[p] = 0 /\ status[p] # "none" /\ \A i \in 1..Len(log) : log[i] # Created(p)
    BY DEF PostingsInv, Publishing, Unannounced
  <1>5. Unannounced'
    BY <1>1, <1>2, <1>4 DEF PostingsInv, Unannounced
  <1>6. Publishing'
    BY <1>1, <1>2, <1>4 DEF PostingsInv, Publishing
  <1>7. Once'
    BY <1>1, <1>2, <1>4 DEF PostingsInv, Once
  <1>8. Ahead'
    BY <1>1, <1>2, <1>3, <1>4 DEF PostingsInv, Ahead
  <1> QED BY <1>5, <1>6, <1>7, <1>8 DEF PostingsInv, PostingsBounded

LEMMA PostingsStep == PostingsInv /\ [Next]_vars => PostingsInv'
  <1> SUFFICES ASSUME PostingsInv, [Next]_vars PROVE PostingsInv'
    OBVIOUS
  <1>0. TypeInv /\ TypeInv' /\ restarts \in Nat
    BY TypeStep DEF PostingsInv
  <1>a. RowTypes /\ EventTypes /\ LogTypes
    BY <1>0 DEF TypeInv
  <1> USE DEF moneyVars, ledgerVars, settlementVars, eventVars, topicVars
  <1>1. ASSUME NEW p \in Payments, CreatePayment(p) PROVE PostingsInv'
    <2>1. UNCHANGED <<captures, restarts, log, position>>
      BY <1>1 DEF CreatePayment
    <2>2. \A q \in Payments : status'[q] = "none" => status[q] = "none" /\ q # p
      BY <1>1, <1>a DEF CreatePayment, RowTypes
    <2>3. \A q \in Payments : <<"gateway", Created(q)>> \in outbox'
                              => q = p \/ <<"gateway", Created(q)>> \in outbox
      BY <1>1, CreatedApart DEF CreatePayment
    <2>4. captures[p] = 0 /\ \A i \in 1..Len(log) : log[i] # Created(p)
      BY <1>1 DEF CreatePayment, PostingsInv, Unannounced
    <2>5. Unannounced'
      BY <2>1, <2>2, <2>3 DEF PostingsInv, Unannounced
    <2>6. Publishing'
      BY <2>1, <2>3, <2>4 DEF PostingsInv, Publishing
    <2> QED BY <1>0, <2>1, <2>5, <2>6 DEF PostingsInv, Once, Ahead, PostingsBounded
  <1>2. ASSUME NEW x \in outbox, PublishEvent(x[1], x[2]) PROVE PostingsInv'
    <2>0. x = <<x[1], x[2]>>
      BY <1>a DEF EventTypes
    <2>1. UNCHANGED <<captures, restarts, status>> /\ outbox' = outbox \ {x}
      BY <1>2, <2>0 DEF PublishEvent
    <2>2. CASE x[1] # "ledger" /\ Topic!Publish(x[2])
      <3>1. x[2] \in Events
        BY <1>a, <2>2 DEF EventTypes, Events
      <3>2. \A p \in Payments : x[2] = Created(p) => x[1] = "gateway"
        BY <1>a, <2>2, EventKinds DEF EventTypes, Created
      <3>3. \A p \in Payments : x[2] = Created(p) =>
              <<"gateway", x[2]>> \in outbox /\ <<"gateway", x[2]>> \notin outbox'
        BY <2>0, <2>1, <3>2
      <3> QED BY <1>0, <2>1, <2>2, <3>1, <3>3, PublishedOnce
    <2>3. CASE UNCHANGED topicVars
      BY <1>0, <2>1, <2>3, NoPosting
    <2> QED BY <1>2, <2>2, <2>3 DEF PublishEvent
  <1>3. ASSUME HandlePaymentEvent PROVE PostingsInv'
    <2> DEFINE e == Topic!Fetched("ledger")
               n == position["ledger"] + 1
    <2>1. /\ n \in 1..Len(log) /\ e = log[n] /\ position["ledger"] \in Nat
          /\ UNCHANGED <<restarts, log>>
          /\ position'["ledger"] = n
      BY <1>3, <1>a DEF HandlePaymentEvent, LogTypes, Topic!Ready, Topic!Fetched, Consumers,
                        Topic!HandlerSucceeds, Topic!HandlerFails, Topic!Advance
    <2>2. \A p \in Payments : <<"gateway", Created(p)>> \in outbox'
                              => <<"gateway", Created(p)>> \in outbox
      BY <1>3 DEF HandlePaymentEvent, LedgerAnnounces, LedgerError
    <2>3. ASSUME UNCHANGED moneyVars PROVE PostingsInv'
      <3>1. Ahead'
        BY <2>1, <2>3 DEF PostingsInv, Ahead
      <3> QED BY <1>0, <2>1, <2>2, <2>3, <3>1
              DEF PostingsInv, Unannounced, Publishing, Once, PostingsBounded
    <2>4. ASSUME NEW p \in e.ids, ForLedger(e), Post(p) PROVE PostingsInv'
      <3>1. p \in Payments /\ e = Created(p)
        BY <1>3, <1>a, <2>4, FetchedEvent, EventKinds
           DEF HandlePaymentEvent, ForLedger, Events, Consumers
      <3>2. /\ captures[p] <= restarts /\ captures[p] \in Nat
            /\ status[p] # "none" /\ <<"gateway", Created(p)>> \notin outbox
        BY <1>a, <2>1, <3>1 DEF PostingsInv, Ahead, Unannounced, Publishing, RowTypes
      <3>3. /\ captures'[p] = captures[p] + 1 /\ status'[p] = "initiated"
            /\ \A q \in Payments : q # p => captures'[q] = captures[q] /\ status'[q] = status[q]
        BY <1>a, <2>4, <3>1 DEF Post, RowTypes
      <3>4. Unannounced'
        BY <2>1, <2>2, <3>2, <3>3 DEF PostingsInv, Unannounced
      <3>5. Publishing'
        BY <2>1, <2>2, <3>2, <3>3 DEF PostingsInv, Publishing
      <3>6. Ahead'
        BY <2>1, <3>1, <3>3 DEF PostingsInv, Ahead, Once
      <3>7. PostingsBounded'
        BY <1>0, <2>1, <3>2, <3>3 DEF PostingsInv, PostingsBounded
      <3> QED BY <1>0, <2>1, <3>4, <3>5, <3>6, <3>7 DEF PostingsInv, Once
    <2> QED BY <1>3, <2>3, <2>4 DEF HandlePaymentEvent, LedgerError
  <1>4. ASSUME HandleSettleEvent PROVE PostingsInv'
    <2>1. UNCHANGED <<captures, restarts, log>> /\ position'["ledger"] = position["ledger"]
      BY <1>4, <1>a DEF HandleSettleEvent, PayOut, LogTypes, Topic!HandlerSucceeds,
                        Topic!HandlerFails, Topic!Advance, Consumers
    <2>2. \A p \in Payments : status'[p] = "none" => status[p] = "none"
      BY <1>4 DEF HandleSettleEvent, PayOut
    <2>3. \A p \in Payments : <<"gateway", Created(p)>> \in outbox'
                              => <<"gateway", Created(p)>> \in outbox
      BY <1>4 DEF HandleSettleEvent
    <2> QED BY <1>0, <2>1, <2>2, <2>3
            DEF PostingsInv, Unannounced, Publishing, Once, Ahead, PostingsBounded
  <1>5. ASSUME NEW g \in Consumers, Commit(g) PROVE PostingsInv'
    BY <1>0, <1>5, NoPosting DEF Commit, Topic!CommitMessages
  <1>6. ASSUME PollSettlements PROVE PostingsInv'
    BY <1>0, <1>6, NoPosting DEF PollSettlements
  <1>7. ASSUME NEW x \in batch, DispatchSettlement(x) PROVE PostingsInv'
    <2>1. x \in Events /\ \A p \in Payments : x # Created(p)
      BY <1>a, EventKinds DEF EventTypes, Events, Created
    <2>2. CASE Topic!Publish(x)
      BY <1>0, <1>7, <2>1, <2>2, PublishedOnce DEF DispatchSettlement
    <2>3. CASE UNCHANGED topicVars
      BY <1>0, <1>7, <2>3, NoPosting DEF DispatchSettlement
    <2> QED BY <1>7, <2>2, <2>3 DEF DispatchSettlement
  <1>8. ASSUME NEW a \in Admins, NEW p \in Payments, RefundReads(a, p) PROVE PostingsInv'
    BY <1>0, <1>8, NoPosting DEF RefundReads
  <1>9. ASSUME NEW a \in Admins, RefundWrites(a) PROVE PostingsInv'
    <2>1. \A p \in Payments : status'[p] = "none" => status[p] = "none"
      BY <1>9, <1>a DEF RefundWrites, RowTypes
    <2> QED BY <1>0, <1>9, <2>1, NoPosting DEF RefundWrites
  <1>10. ASSUME NEW s \in Services, RestartService(s) PROVE PostingsInv'
    <2>1. /\ restarts' = restarts + 1 /\ UNCHANGED moneyVars /\ outbox' \subseteq outbox
          /\ log' = log
      BY <1>10 DEF RestartService, Topic!Restart
    <2>2. \A p \in Payments : captures[p] <= restarts'
      BY <1>0, <2>1 DEF PostingsInv, PostingsBounded
    <2>3. Ahead' /\ PostingsBounded'
      BY <1>0, <1>a, <2>1, <2>2 DEF Ahead, PostingsBounded, RowTypes
    <2> QED BY <1>0, <2>1, <2>3 DEF PostingsInv, Unannounced, Publishing, Once
  <1>11. ASSUME Forget PROVE PostingsInv'
    <2>1. /\ UNCHANGED <<captures, restarts, status, outbox>>
          /\ Len(log) \in Nat /\ Len(log') = Len(log) - 1
          /\ \A i \in 1..Len(log') : log'[i] = log[i + 1]
          /\ position'["ledger"] = position["ledger"] - 1 /\ position["ledger"] \in Nat
      BY <1>11, <1>a DEF Forget, Topic!Forget, LogTypes, Consumers
    <2>2. Unannounced'
      BY <2>1 DEF PostingsInv, Unannounced
    <2>3. Publishing'
      BY <2>1 DEF PostingsInv, Publishing
    <2>4. Once'
      BY <2>1 DEF PostingsInv, Once
    <2>5. Ahead'
      BY <2>1 DEF PostingsInv, Ahead
    <2> QED BY <1>0, <2>1, <2>2, <2>3, <2>4, <2>5 DEF PostingsInv, PostingsBounded
  <1>12. CASE UNCHANGED vars
    BY <1>0, <1>12, NoPosting DEF vars
  <1> QED BY <1>1, <1>2, <1>3, <1>4, <1>5, <1>6, <1>7, <1>8, <1>9, <1>10, <1>11, <1>12 DEF Next

(* Whatever fails, a payment is posted at most once more per restart. *)
THEOREM PostsPerRestart == Spec => []PostingsBounded
  <1>1. PostingsInv => PostingsBounded
    BY DEF PostingsInv
  <1> QED BY <1>1, PostingsInit, PostingsStep, PTL DEF Spec

-----------------------------------------------------------------------------
(* Without restarts the ledger never sees a payment twice, and a settled     *)
(* payment was seen once (PostedInv): its status is not overwritten.          *)
KeepInv == PostingsInv /\ PostedInv /\ SettledKeepsStatus

LEMMA KeepStep == KeepInv /\ [Next]_vars => KeepInv'
  <1> SUFFICES ASSUME KeepInv, [Next]_vars PROVE KeepInv'
    OBVIOUS
  <1>0. PostingsInv' /\ PostedInv'
    BY PostingsStep, PostedStep DEF KeepInv
  <1>1. SUFFICES ASSUME restarts' = 0 PROVE SettledKeepsStatus'
    BY <1>0 DEF KeepInv, SettledKeepsStatus
  <1>a. TypeInv /\ RowTypes /\ LogTypes /\ restarts \in Nat
    BY DEF KeepInv, PostingsInv, TypeInv
  <1>2. restarts = 0
    <2>1. ASSUME NEW s \in Services, RestartService(s) PROVE FALSE
      BY <1>1, <1>a, <2>1 DEF RestartService
    <2>2. UNCHANGED restarts \/ \E s \in Services : RestartService(s)
      BY DEF Next, vars, CreatePayment, PublishEvent, HandlePaymentEvent, HandleSettleEvent,
             Commit, PollSettlements, DispatchSettlement, RefundReads, RefundWrites, Forget
    <2> QED BY <1>1, <2>1, <2>2
  <1>3. \A p \in Payments :
          /\ settlementId[p] # 0 => status[p] \in {"processed", "refunded"}
          /\ captures[p] = 0 => settlementId[p] = 0
    BY <1>2, <1>a DEF KeepInv, PostedInv, SettledKeepsStatus, SettledWasPosted, RowTypes
  <1>4. ASSUME UNCHANGED <<status, settlementId>> PROVE SettledKeepsStatus'
    BY <1>3, <1>4 DEF SettledKeepsStatus
  <1>5. ASSUME NEW p \in Payments, CreatePayment(p) PROVE SettledKeepsStatus'
    <2>1. captures[p] = 0
      BY <1>5 DEF CreatePayment, KeepInv, PostingsInv, Unannounced
    <2> QED BY <1>3, <1>5, <1>a, <2>1
            DEF CreatePayment, SettledKeepsStatus, RowTypes, settlementVars
  <1>6. ASSUME HandlePaymentEvent PROVE SettledKeepsStatus'
    <2> DEFINE e == Topic!Fetched("ledger")
    <2>1. ASSUME UNCHANGED moneyVars PROVE SettledKeepsStatus'
      BY <1>4, <2>1 DEF moneyVars, settlementVars
    <2>2. ASSUME NEW p \in e.ids, ForLedger(e), Post(p) PROVE SettledKeepsStatus'
      <3>1. p \in Payments /\ e = Created(p)
        BY <1>6, <1>a, <2>2, FetchedEvent, EventKinds
           DEF HandlePaymentEvent, ForLedger, Events, Consumers
      <3>2. /\ position["ledger"] + 1 \in 1..Len(log) /\ log[position["ledger"] + 1] = e
            /\ position["ledger"] \in Nat
        BY <1>6, <1>a DEF HandlePaymentEvent, LogTypes, Topic!Ready, Topic!Fetched, Consumers
      <3>3. captures[p] <= 0 /\ captures[p] \in Nat
        BY <1>2, <1>a, <3>1, <3>2 DEF KeepInv, PostingsInv, Ahead, RowTypes
      <3>4. settlementId[p] = 0
        BY <1>3, <3>1, <3>3
      <3> QED BY <1>3, <1>a, <2>2, <3>1, <3>4
              DEF Post, SettledKeepsStatus, RowTypes, settlementVars
    <2> QED BY <1>6, <2>1, <2>2 DEF HandlePaymentEvent, LedgerError
  <1>7. ASSUME HandleSettleEvent PROVE SettledKeepsStatus'
    BY <1>3, <1>4, <1>7 DEF HandleSettleEvent, PayOut, SettledKeepsStatus, moneyVars, settlementVars
  <1>8. ASSUME NEW a \in Admins, RefundWrites(a) PROVE SettledKeepsStatus'
    BY <1>3, <1>8, <1>a DEF RefundWrites, SettledKeepsStatus, RowTypes, settlementVars
  <1> QED BY <1>4, <1>5, <1>6, <1>7, <1>8
          DEF Next, PublishEvent, Commit, PollSettlements, DispatchSettlement, RefundReads,
              RestartService, Forget, vars, moneyVars, settlementVars

(* A settled payment stays processed or refunded as long as nothing restarts. *)
THEOREM StatusKept == Spec => []SettledKeepsStatus
  <1>1. Init => KeepInv
    BY PostingsInit, PostedInit DEF Init, KeepInv, SettledKeepsStatus
  <1>2. KeepInv => SettledKeepsStatus
    BY DEF KeepInv
  <1> QED BY <1>1, <1>2, KeepStep, PTL DEF Spec

-----------------------------------------------------------------------------
(* What a settlement pays.  The poll summed up the payments of its event, and *)
(* those attached are among them.  That the sum is one at all needs that they *)
(* are finitely many: they are posted, and each step posts one at most.       *)
Captured == {p \in Payments : captures[p] > 0}

UnderpaidInv == PostedInv /\ IsFiniteSet(Captured) /\ NeverUnderpaid

LEMMA FiniteStep == TypeInv /\ IsFiniteSet(Captured) /\ [Next]_vars => IsFiniteSet(Captured)'
  <1> SUFFICES ASSUME TypeInv, IsFiniteSet(Captured), [Next]_vars PROVE IsFiniteSet(Captured')
    OBVIOUS
  <1>1. CASE UNCHANGED captures
    BY <1>1 DEF Captured
  <1>2. ASSUME NEW p, Post(p) PROVE IsFiniteSet(Captured')
    <2>1. Captured' \subseteq Captured \cup {p}
      BY <1>2 DEF Captured, Post, TypeInv, RowTypes
    <2>2. IsFiniteSet(Captured \cup {p})
      BY FS_AddElement
    <2> QED BY <2>1, <2>2, FS_Subset
  <1>3. UNCHANGED captures \/ \E p : Post(p)
    <2>1. ASSUME HandlePaymentEvent PROVE UNCHANGED captures \/ \E p : Post(p)
      BY <2>1 DEF HandlePaymentEvent, LedgerError, moneyVars, ledgerVars
    <2>2. ASSUME HandleSettleEvent PROVE UNCHANGED captures
      BY <2>2 DEF HandleSettleEvent, PayOut, moneyVars, ledgerVars
    <2> QED BY <2>1, <2>2
            DEF Next, CreatePayment, PublishEvent, Commit, PollSettlements, DispatchSettlement,
                RefundReads, RefundWrites, RestartService, Forget, vars, moneyVars, ledgerVars
  <1> QED BY <1>1, <1>2, <1>3

LEMMA SettleAmount ==
    ASSUME NEW e \in SettleEvents PROVE e.amount = Worth(e.ids)
  BY DEF SettleEvents, Settle, Total

(* PayOut opens one settlement and attaches its targets, no others. *)
LEMMA PaidTargets ==
    ASSUME RowTypes, NEW e \in SettleEvents, PayOut(e)
    PROVE  /\ Len(settlements) \in Nat /\ Len(settlements') = Len(settlements) + 1
           /\ \A i \in 1..Len(settlements) :
                Attached(i)' = Attached(i) /\ settlements'[i] = settlements[i]
           /\ \A i : i = Len(settlements) + 1 => Attached(i)' = Targets(e)
           /\ settlements'[Len(settlements) + 1].amount = e.amount
  <1>1. [amount |-> e.amount, currency |-> e.currency] \in Settlement
    BY EventKinds DEF Settlement
  <1>2. /\ Len(settlements) \in Nat /\ Len(settlements') = Len(settlements) + 1
        /\ \A i \in 1..Len(settlements) : settlements'[i] = settlements[i]
        /\ settlements'[Len(settlements) + 1] = [amount |-> e.amount, currency |-> e.currency]
    BY <1>1 DEF RowTypes, PayOut
  <1>3. \A p \in Payments :
          /\ settlementId[p] \in 0..Len(settlements)
          /\ p \in Targets(e) => settlementId[p] = 0
          /\ settlementId'[p] = IF p \in Targets(e) THEN Len(settlements) + 1 ELSE settlementId[p]
    BY DEF RowTypes, PayOut, Targets
  <1>4. Targets(e) \subseteq Payments
    BY EventKinds DEF Targets
  <1>5. ASSUME NEW i \in 1..Len(settlements) PROVE Attached(i)' = Attached(i)
    BY <1>2, <1>3 DEF Attached
  <1>6. ASSUME NEW i, i = Len(settlements) + 1 PROVE Attached(i)' = Targets(e)
    <2>1. \A p \in Payments : settlementId'[p] = i <=> p \in Targets(e)
      BY <1>2, <1>3, <1>6
    <2> QED BY <1>4, <2>1 DEF Attached
  <1> QED BY <1>2, <1>5, <1>6

LEMMA UnderpaidInit == Init => UnderpaidInv
  <1> SUFFICES ASSUME Init PROVE UnderpaidInv
    OBVIOUS
  <1>1. Captured = {}
    BY DEF Init, Captured
  <1>2. NeverUnderpaid
    BY DEF Init, NeverUnderpaid
  <1> QED BY <1>1, <1>2, PostedInit, FS_EmptySet DEF UnderpaidInv

LEMMA UnderpaidStep == UnderpaidInv /\ [Next]_vars => UnderpaidInv'
  <1> SUFFICES ASSUME UnderpaidInv, [Next]_vars PROVE UnderpaidInv'
    OBVIOUS
  <1>0. TypeInv /\ RowTypes /\ PostedInv' /\ IsFiniteSet(Captured)'
    BY PostedStep, FiniteStep DEF UnderpaidInv, PostedInv, TypeInv
  <1>1. ASSUME UNCHANGED <<settlementId, settlements>> PROVE NeverUnderpaid'
    BY <1>0, <1>1 DEF UnderpaidInv, NeverUnderpaid, Attached
  <1>2. ASSUME NEW e \in SettleEvents \cap Dispatched, PayOut(e) PROVE NeverUnderpaid'
    <2>1. Worth(Targets(e)) <= e.amount
      <3>1. e.ids \subseteq Payments /\ e.status = "initiated"
        BY EventKinds
      <3>2. e.ids \subseteq Captured
        BY <3>1 DEF UnderpaidInv, PostedInv, EventsPosted, Posted, Captured
      <3>3. IsFiniteSet(Captured)
        BY DEF UnderpaidInv
      <3>4. IsFiniteSet(e.ids)
        BY <3>2, <3>3, FS_Subset
      <3>5. \A p \in e.ids : Amount[p] \in Nat
        BY <3>1, PaymentAssumption
      <3>6. SumOf(Amount, Targets(e)) <= SumOf(Amount, e.ids)
        BY <3>4, <3>5, SumMonotonic DEF Targets
      <3>7. e.amount = Worth(e.ids)
        BY SettleAmount
      <3> QED BY <3>6, <3>7 DEF SumOf, Worth
    <2>2. ASSUME NEW i \in 1..Len(settlements'), i # Len(settlements) + 1
          PROVE  Worth(Attached(i)') <= settlements'[i].amount
      <3>1. i \in 1..Len(settlements)
        BY <1>0, <1>2, <2>2, PaidTargets
      <3> QED BY <1>0, <1>2, <3>1, PaidTargets DEF UnderpaidInv, NeverUnderpaid
    <2>3. ASSUME NEW i, i = Len(settlements) + 1
          PROVE  Worth(Attached(i)') <= settlements'[i].amount
      BY <1>0, <1>2, <2>1, <2>3, PaidTargets
    <2> QED BY <2>2, <2>3 DEF NeverUnderpaid
  <1>3. \/ UNCHANGED <<settlementId, settlements>>
        \/ \E e \in SettleEvents \cap Dispatched : PayOut(e)
    BY <1>0, OnlyPayOut
  <1>4. NeverUnderpaid'
    BY <1>1, <1>2, <1>3
  <1> QED BY <1>0, <1>4 DEF UnderpaidInv

(* A settlement is worth at least the payments it settles, for any amounts. *)
THEOREM PaysInFull == Spec => []NeverUnderpaid
  <1>1. UnderpaidInv => NeverUnderpaid
    BY DEF UnderpaidInv
  <1> QED BY <1>1, UnderpaidInit, UnderpaidStep, PTL DEF Spec

-----------------------------------------------------------------------------
(* The bounds of the log, and the order of the payments that wait for their  *)
(* settlement: what TypeOK says beyond TypeInv.                              *)
LogBounds ==
    /\ Len(log) <= MaxLog
    /\ \A g \in Consumers : position[g] <= Len(log) /\ committed[g] <= Len(log)
    /\ acking \in [Consumers -> BOOLEAN]

(* The updated_at of unsettled payments tells any two of them apart. *)
OlderOrders ==
    /\ older \subseteq Unsettled \X Unsettled
    /\ \A p, q \in Unsettled :
         p # q => (<<p, q>> \in older <=> <<q, p>> \notin older)
    /\ \A p \in Unsettled : <<p, p>> \notin older
    /\ \A p, q, r \in Unsettled :
         <<p, q>> \in older /\ <<q, r>> \in older => <<p, r>> \in older

BoundInv == TypeInv /\ LogBounds /\ OlderOrders /\ restarts \in 0..MaxRestarts

LEMMA TopicMoves ==
    ASSUME TypeInv, [Next]_vars
    PROVE  \/ UNCHANGED topicVars
           \/ \E e \in Events : Topic!Publish(e)
           \/ \E g \in Consumers : \/ Topic!HandlerSucceeds(g) \/ Topic!HandlerFails(g)
                                   \/ Topic!CommitMessages(g) \/ Topic!Restart(g)
           \/ Topic!Forget
  <1>1. ASSUME NEW x \in outbox, PublishEvent(x[1], x[2])
        PROVE  UNCHANGED topicVars \/ (Topic!Publish(x[2]) /\ x[2] \in Events)
    BY <1>1 DEF PublishEvent, TypeInv, EventTypes, Events
  <1>2. ASSUME NEW e \in batch, DispatchSettlement(e)
        PROVE  UNCHANGED topicVars \/ (Topic!Publish(e) /\ e \in Events)
    BY <1>2 DEF DispatchSettlement, TypeInv, EventTypes, Events
  <1>3. ASSUME HandlePaymentEvent
        PROVE  Topic!HandlerSucceeds("ledger") \/ Topic!HandlerFails("ledger")
    BY <1>3 DEF HandlePaymentEvent
  <1>4. ASSUME HandleSettleEvent
        PROVE  Topic!HandlerSucceeds("settlement") \/ Topic!HandlerFails("settlement")
    BY <1>4 DEF HandleSettleEvent
  <1>5. ASSUME NEW s \in Services, RestartService(s)
        PROVE  UNCHANGED topicVars \/ (s \in Consumers /\ Topic!Restart(s))
    BY <1>5 DEF RestartService
  <1> QED BY <1>1, <1>2, <1>3, <1>4, <1>5
          DEF Next, CreatePayment, PollSettlements, RefundReads, RefundWrites, Commit, Forget,
              vars, Consumers

LEMMA LogBoundsStep ==
    ASSUME TypeInv, LogBounds, [Next]_vars PROVE LogBounds'
  <1> USE DEF LogBounds
  <1>0. LogTypes /\ Len(log) \in Nat /\ MaxLog \in Nat
    BY MoneyBoundAssumption DEF TypeInv, LogTypes
  <1>1. CASE UNCHANGED topicVars
    BY <1>1 DEF topicVars
  <1>2. ASSUME NEW e \in Events, Topic!Publish(e) PROVE LogBounds'
    <2>1. Len(log') = Len(log) + 1 /\ UNCHANGED <<position, committed, acking>> /\ Len(log) < MaxLog
      BY <1>0, <1>2 DEF Topic!Publish, LogTypes
    <2> QED BY <1>0, <2>1 DEF LogTypes
  <1>3. ASSUME NEW g \in Consumers, Topic!HandlerSucceeds(g) \/ Topic!HandlerFails(g)
        PROVE  LogBounds'
    <2>1. /\ log' = log /\ committed' = committed /\ position[g] < Len(log)
          /\ position' = [position EXCEPT ![g] = @ + 1]
          /\ acking' \in [Consumers -> BOOLEAN]
      BY <1>3 DEF Topic!HandlerSucceeds, Topic!HandlerFails, Topic!Advance, Topic!Ready
    <2>2. \A h \in Consumers : position'[h] <= Len(log)
      BY <1>0, <2>1 DEF LogTypes
    <2> QED BY <2>1, <2>2
  <1>4. ASSUME NEW g \in Consumers, Topic!CommitMessages(g) PROVE LogBounds'
    BY <1>0, <1>4 DEF Topic!CommitMessages, LogTypes
  <1>5. ASSUME NEW g \in Consumers, Topic!Restart(g) PROVE LogBounds'
    <2>1. Topic!ResumeAt(g) <= Len(log)
      BY <1>0 DEF Topic!ResumeAt
    <2> QED BY <1>0, <1>5, <2>1 DEF Topic!Restart, LogTypes
  <1>6. ASSUME Topic!Forget PROVE LogBounds'
    <2>1. Len(log') = Len(log) - 1 /\ UNCHANGED acking
      BY <1>0, <1>6 DEF Topic!Forget, LogTypes
    <2>2. \A g \in Consumers :
            /\ position[g] > 0 /\ position'[g] = position[g] - 1
            /\ committed'[g] = IF committed[g] = -1 THEN -1 ELSE committed[g] - 1
      BY <1>6 DEF Topic!Forget, Topic!Behind, Topic!NoOffset
    <2>3. \A g \in Consumers : position'[g] <= Len(log')
      BY <1>0, <2>1, <2>2 DEF LogTypes
    <2>4. ASSUME NEW g \in Consumers PROVE committed'[g] <= Len(log')
      <3>1. position[g] > 0 /\ position[g] <= Len(log) /\ committed[g] <= Len(log)
        BY <2>2
      <3>2. committed[g] \in Nat \cup {-1} /\ position[g] \in Nat
        BY <1>0 DEF LogTypes
      <3>3. committed'[g] = -1 \/ committed'[g] = committed[g] - 1
        BY <2>2
      <3> HIDE DEF LogBounds
      <3> QED BY <1>0, <2>1, <3>1, <3>2, <3>3
    <2> QED BY <1>0, <2>1, <2>3, <2>4
  <1> QED BY <1>1, <1>2, <1>3, <1>4, <1>5, <1>6, TopicMoves

(* Posting puts a payment behind all others, paying takes it out. *)
LEMMA OlderStep ==
    ASSUME TypeInv, OlderOrders, [Next]_vars PROVE OlderOrders'
  <1>1. ASSUME UNCHANGED <<captures, settlementId, older>> PROVE OlderOrders'
    BY <1>1 DEF OlderOrders, Unsettled
  <1>2. ASSUME NEW p \in Payments, Post(p) PROVE OlderOrders'
    <2>1. CASE settlementId[p] = 0
      <3>1. Unsettled' = Unsettled \cup {p}
        BY <1>2, <2>1 DEF Post, Unsettled, settlementVars, TypeInv, RowTypes
      <3>2. older' = {x \in older : x[1] # p /\ x[2] # p} \cup ((Unsettled \ {p}) \X {p})
        BY <1>2, <2>1 DEF Post, OlderWithout
      <3>3. \A q, r \in Unsettled' :
              <<q, r>> \in older' <=> \/ r = p /\ q # p
                                      \/ r # p /\ q # p /\ <<q, r>> \in older
        BY <3>1, <3>2 DEF OlderOrders
      <3>4. older' \subseteq Unsettled' \X Unsettled'
        BY <3>1, <3>2 DEF OlderOrders
      <3> QED BY <3>1, <3>3, <3>4 DEF OlderOrders
    <2>2. CASE settlementId[p] # 0
      <3>1. Unsettled' = Unsettled /\ older' = older
        BY <1>2, <2>2 DEF Post, Unsettled, settlementVars, TypeInv, RowTypes
      <3> QED BY <3>1 DEF OlderOrders
    <2> QED BY <2>1, <2>2
  <1>3. ASSUME NEW e \in SettleEvents, PayOut(e) PROVE OlderOrders'
    <2>1. Unsettled' = Unsettled \ Targets(e)
      <3>1. Len(settlements) + 1 # 0
        BY DEF TypeInv, RowTypes
      <3> QED BY <1>3, <3>1 DEF PayOut, Unsettled, Targets
    <2>2. older' = {x \in older : x[1] \notin Targets(e) /\ x[2] \notin Targets(e)}
      BY <1>3 DEF PayOut, OlderWithout
    <2>3. \A q, r \in Unsettled' : <<q, r>> \in older' <=> <<q, r>> \in older
      BY <2>1, <2>2
    <2> QED BY <2>1, <2>2, <2>3 DEF OlderOrders
  <1>4. \/ UNCHANGED <<captures, settlementId, older>>
        \/ \E p \in Payments : Post(p)
        \/ \E e \in SettleEvents : PayOut(e)
    <2> USE DEF moneyVars, ledgerVars, settlementVars
    <2>1. ASSUME HandlePaymentEvent
          PROVE  UNCHANGED <<captures, settlementId, older>> \/ \E p \in Payments : Post(p)
      BY <2>1, FetchedEvent, EventKinds
         DEF HandlePaymentEvent, LedgerError, ForLedger, Events, Consumers, TypeInv
    <2>2. ASSUME HandleSettleEvent
          PROVE  UNCHANGED <<captures, settlementId, older>> \/ \E e \in SettleEvents : PayOut(e)
      BY <2>2, FetchedEvent, EventKinds DEF HandleSettleEvent, Events, Consumers, TypeInv
    <2> QED BY <2>1, <2>2
            DEF Next, CreatePayment, PublishEvent, Commit, PollSettlements, DispatchSettlement,
                RefundReads, RefundWrites, RestartService, Forget, vars
  <1> QED BY <1>1, <1>2, <1>3, <1>4

LEMMA BoundInit == Init => BoundInv
  <1> SUFFICES ASSUME Init PROVE BoundInv
    OBVIOUS
  <1>1. LogBounds
    BY MoneyBoundAssumption DEF Init, LogBounds, Topic!TopicInit, Topic!NoOffset
  <1>2. OlderOrders
    BY DEF Init, OlderOrders, Unsettled
  <1>3. restarts \in 0..MaxRestarts
    BY MoneyBoundAssumption DEF Init
  <1> QED BY <1>1, <1>2, <1>3, TypeInit DEF BoundInv

LEMMA BoundStep == BoundInv /\ [Next]_vars => BoundInv'
  <1> SUFFICES ASSUME BoundInv, [Next]_vars PROVE BoundInv'
    OBVIOUS
  <1>1. restarts' \in 0..MaxRestarts
    <2>1. ASSUME NEW s \in Services, RestartService(s) PROVE restarts' \in 0..MaxRestarts
      BY <2>1, MoneyBoundAssumption DEF RestartService, BoundInv
    <2> QED BY <2>1
            DEF Next, CreatePayment, PublishEvent, HandlePaymentEvent, HandleSettleEvent, Commit,
                PollSettlements, DispatchSettlement, RefundReads, RefundWrites, Forget, vars,
                BoundInv
  <1> QED BY <1>1, TypeStep, LogBoundsStep, OlderStep DEF BoundInv

(* Every row, event and offset is what its table or topic may hold: a        *)
(* settlement is worth a sum of payments, an event names payments, no group  *)
(* has read or committed beyond the log.                                     *)
THEOREM TypeCorrect == Spec => []TypeOK
  <1>1. BoundInv => TypeOK
    <2> SUFFICES ASSUME BoundInv PROVE TypeOK
      OBVIOUS
    <2>1. TypeInv /\ LogBounds /\ OlderOrders /\ restarts \in 0..MaxRestarts
      BY DEF BoundInv
    <2>2. Topic!TopicTypeOK(Events)
      <3>1. log \in Seq(Events) /\ Len(log) \in Nat /\ Len(log) <= MaxLog
        BY <2>1 DEF TypeInv, LogTypes, LogBounds
      <3>2. position \in [Consumers -> 0..Len(log)]
        BY <2>1, <3>1 DEF TypeInv, LogTypes, LogBounds
      <3>3. committed \in [Consumers -> {-1} \cup 0..Len(log)]
        BY <2>1, <3>1 DEF TypeInv, LogTypes, LogBounds
      <3> QED BY <2>1, <3>1, <3>2, <3>3 DEF LogBounds, Topic!TopicTypeOK, Topic!NoOffset
    <2>3. outbox \subseteq Services \X (Events \cup {Initiated(p) : p \in Payments})
      BY <2>1 DEF TypeInv, EventTypes, Services, Events, InitiatedEvents
    <2> QED BY <2>1, <2>2, <2>3
            DEF TypeOK, TypeInv, RowTypes, EventTypes, InitiatedEvents, OlderOrders, Statuses
  <1> QED BY <1>1, BoundInit, BoundStep, PTL DEF Spec

(* "The oldest payments" of the settlement query mean what they say: the     *)
(* relation the model keeps in place of updated_at is a strict total order   *)
(* of the payments that wait (settlement_service.go:44-56).                  *)
THEOREM OlderIsOrder == Spec => []OlderOrders
  <1>1. BoundInv => OlderOrders
    BY DEF BoundInv
  <1> QED BY <1>1, BoundInit, BoundStep, PTL DEF Spec

-----------------------------------------------------------------------------
(* How often a payment is refunded.  IssueRefund reads and writes apart, so   *)
(* each call that has read "processed" may still write its refund.  But the   *)
(* status is "processed" once in a payment's life: only PayOut sets it, and   *)
(* PayOut only picks payments without a settlement.  So no call reads it      *)
(* again after the first refund, and refunds and calls under way share the    *)
(* number of calls.                                                           *)
Readers(p) == {a \in Admins : reading[a] = p}
RefundedNotProcessed == \A p \in Payments : refunds[p] > 0 => status[p] # "processed"
RefundBudget == \A p \in Payments : refunds[p] + Cardinality(Readers(p)) <= Cardinality(Admins)

BudgetInv == RefundInv /\ RefundedNotProcessed /\ RefundBudget

RefundsPerCall == \A p \in Payments : refunds[p] <= Cardinality(Admins)

LEMMA ReadersFinite ==
    ASSUME IsFiniteSet(Admins), NEW S, S \subseteq Admins
    PROVE  /\ IsFiniteSet(S) /\ Cardinality(S) \in Nat /\ Cardinality(Admins) \in Nat
           /\ Cardinality(S) <= Cardinality(Admins)
  BY FS_Subset, FS_CardinalityType

LEMMA BudgetInit == IsFiniteSet(Admins) /\ Init => BudgetInv
  <1> SUFFICES ASSUME IsFiniteSet(Admins), Init PROVE BudgetInv
    OBVIOUS
  <1>1. RefundedNotProcessed
    BY DEF Init, RefundedNotProcessed
  <1>2. ASSUME NEW p \in Payments
        PROVE  refunds[p] + Cardinality(Readers(p)) <= Cardinality(Admins)
    <2>1. refunds[p] = 0
      BY DEF Init
    <2>2. /\ Cardinality(Readers(p)) \in Nat
          /\ Cardinality(Readers(p)) <= Cardinality(Admins)
      BY ReadersFinite DEF Readers
    <2> QED BY <2>1, <2>2
  <1> QED BY <1>1, <1>2, RefundInit DEF BudgetInv, RefundBudget

LEMMA BudgetStep == IsFiniteSet(Admins) /\ BudgetInv /\ [Next]_vars => BudgetInv'
  <1> SUFFICES ASSUME IsFiniteSet(Admins), BudgetInv, [Next]_vars PROVE BudgetInv'
    OBVIOUS
  <1>0. TypeInv /\ RowTypes /\ RefundInv /\ RefundInv'
    BY RefundStep DEF BudgetInv, RefundInv, TypeInv
  <1>1. ASSUME UNCHANGED refundVars,
               \A p \in Payments : status'[p] = "processed" =>
                                     status[p] = "processed" \/ refunds[p] = 0
        PROVE  BudgetInv'
    BY <1>0, <1>1 DEF BudgetInv, RefundedNotProcessed, RefundBudget, Readers, refundVars, RowTypes
  <1>2. ASSUME NEW p \in Payments, CreatePayment(p) PROVE BudgetInv'
    BY <1>0, <1>1, <1>2 DEF CreatePayment, RowTypes
  <1>3. ASSUME HandlePaymentEvent PROVE BudgetInv'
    <2>1. UNCHANGED status \/ \E p : status' = [status EXCEPT ![p] = "initiated"]
      BY <1>3 DEF HandlePaymentEvent, LedgerError, Post, moneyVars
    <2> QED BY <1>0, <1>1, <1>3, <2>1 DEF HandlePaymentEvent, RowTypes
  <1>4. ASSUME HandleSettleEvent PROVE BudgetInv'
    <2> DEFINE e == Topic!Fetched("settlement")
    <2>1. CASE PayOut(e)
      <3>1. ASSUME NEW p \in Payments, p \in Targets(e) PROVE refunds[p] = 0
        BY <1>0, <3>1 DEF Targets, RefundInv, RefundedWasSettled, RowTypes
      <3>2. \A p \in Payments : p \notin Targets(e) => status'[p] = status[p]
        BY <2>1 DEF PayOut
      <3> QED BY <1>1, <1>4, <3>1, <3>2 DEF HandleSettleEvent
    <2>2. CASE UNCHANGED moneyVars
      BY <1>1, <1>4, <2>2 DEF HandleSettleEvent, moneyVars
    <2> QED BY <1>4, <2>1, <2>2 DEF HandleSettleEvent
  <1>5. ASSUME NEW a \in Admins, NEW p \in Payments, RefundReads(a, p) PROVE BudgetInv'
    <2>1. refunds[p] = 0 /\ UNCHANGED <<refunds, status>>
      BY <1>0, <1>5
         DEF RefundReads, Refundable, BudgetInv, RefundedNotProcessed, RowTypes, moneyVars
    <2>2. ASSUME NEW q \in Payments
          PROVE  refunds'[q] + Cardinality(Readers(q)') <= Cardinality(Admins)
      <3>1. CASE q = p
        <4>1. /\ Cardinality(Readers(p)') \in Nat
              /\ Cardinality(Readers(p)') <= Cardinality(Admins)
          BY ReadersFinite DEF Readers
        <4> QED BY <2>1, <3>1, <4>1
      <3>2. CASE q # p
        <4>1. q # None
          BY PaymentAssumption
        <4>2. Readers(q)' = Readers(q)
          BY <1>0, <1>5, <3>2, <4>1 DEF RefundReads, Readers, RowTypes
        <4> QED BY <2>1, <4>2 DEF BudgetInv, RefundBudget
      <3> QED BY <3>1, <3>2
    <2>3. RefundedNotProcessed'
      BY <2>1 DEF BudgetInv, RefundedNotProcessed
    <2> QED BY <1>0, <2>2, <2>3 DEF BudgetInv, RefundBudget
  <1>6. ASSUME NEW a \in Admins, RefundWrites(a) PROVE BudgetInv'
    <2> DEFINE p == reading[a]
    <2>1. p \in Payments /\ p # None
      BY <1>0, <1>6 DEF RefundWrites, RowTypes
    <2>2. \A q \in Payments :
            /\ refunds'[q] = refunds[q] \/ (q = p /\ refunds'[q] = refunds[q] + 1)
            /\ refunds[q] \in Nat
      BY <1>0, <1>6, <2>1 DEF RefundWrites, RowTypes
    <2>3. ASSUME NEW q \in Payments
          PROVE  refunds'[q] + Cardinality(Readers(q)') <= Cardinality(Admins)
      <3>1. /\ IsFiniteSet(Readers(q)) /\ Cardinality(Readers(q)) \in Nat
            /\ Cardinality(Admins) \in Nat
        BY ReadersFinite DEF Readers
      <3>2. refunds[q] + Cardinality(Readers(q)) <= Cardinality(Admins)
        BY DEF BudgetInv, RefundBudget
      <3>3. CASE q = p
        <4>1. Readers(q)' = Readers(q) \ {a} /\ a \in Readers(q)
          BY <1>0, <1>6, <2>1, <3>3 DEF RefundWrites, Readers, RowTypes
        <4>2. Cardinality(Readers(q)') = Cardinality(Readers(q)) - 1
          BY <3>1, <4>1, FS_RemoveElement
        <4>3. refunds'[q] <= refunds[q] + 1 /\ refunds'[q] \in Nat /\ refunds[q] \in Nat
          BY <2>2
        <4> HIDE DEF p
        <4> QED BY <3>1, <3>2, <4>2, <4>3
      <3>4. CASE q # p
        <4>1. Readers(q)' = Readers(q)
          BY <1>0, <1>6, <3>4, PaymentAssumption DEF RefundWrites, Readers, RowTypes
        <4> QED BY <2>2, <3>2, <3>4, <4>1
      <3> QED BY <3>3, <3>4
    <2>4. RefundedNotProcessed'
      BY <1>0, <1>6, <2>1 DEF RefundWrites, BudgetInv, RefundedNotProcessed, RowTypes
    <2> QED BY <1>0, <2>3, <2>4 DEF BudgetInv, RefundBudget
  <1>7. ASSUME UNCHANGED <<moneyVars, refundVars>> PROVE BudgetInv'
    BY <1>1, <1>7 DEF moneyVars
  <1> QED BY <1>2, <1>3, <1>4, <1>5, <1>6, <1>7
          DEF Next, PublishEvent, Commit, PollSettlements, DispatchSettlement, RestartService,
              Forget, vars

(* A payment is refunded at most once per concurrent call of IssueRefund,    *)
(* whatever is redelivered or restarted: the race of calls is the only        *)
(* source of a second refund (admin_service.go:291-318).                      *)
THEOREM RefundedPerCall ==
    ASSUME IsFiniteSet(Admins)
    PROVE  Spec => []RefundsPerCall
  <1>1. BudgetInv => RefundsPerCall
    <2> SUFFICES ASSUME BudgetInv, NEW p \in Payments PROVE refunds[p] <= Cardinality(Admins)
      BY DEF RefundsPerCall
    <2>1. refunds[p] + Cardinality(Readers(p)) <= Cardinality(Admins) /\ refunds[p] \in Nat
      BY DEF BudgetInv, RefundBudget, RefundInv, TypeInv, RowTypes
    <2>2. Cardinality(Readers(p)) \in Nat /\ Cardinality(Admins) \in Nat
      BY ReadersFinite DEF Readers
    <2> QED BY <2>1, <2>2
  <1>2. Init => BudgetInv
    BY BudgetInit
  <1>3. BudgetInv /\ [Next]_vars => BudgetInv'
    BY BudgetStep
  <1> QED BY <1>1, <1>2, <1>3, PTL DEF Spec

(* "can only refund processed payments" holds for calls that come one after  *)
(* the other: one call at a time never refunds a payment twice               *)
(* (admin_service.go:291).                                                    *)
THEOREM RefundedOnceAlone ==
    ASSUME \A a, b \in Admins : a = b
    PROVE  Spec => []RefundedOnce
  <1>1. IsFiniteSet(Admins) /\ Cardinality(Admins) <= 1
    <2>1. CASE Admins = {}
      BY <2>1, FS_EmptySet
    <2>2. CASE Admins # {}
      <3>1. PICK a \in Admins : Admins = {a}
        BY <2>2
      <3>2. IsFiniteSet({a}) /\ Cardinality({a}) = 1
        BY FS_Singleton
      <3> QED BY <3>1, <3>2
    <2> QED BY <2>1, <2>2
  <1>2. Cardinality(Admins) \in Nat
    BY <1>1, FS_CardinalityType
  <1>3. TypeInv /\ RefundsPerCall => RefundedOnce
    BY <1>1, <1>2 DEF TypeInv, RowTypes, RefundsPerCall, RefundedOnce
  <1>4. Spec => []RefundsPerCall
    BY <1>1, RefundedPerCall
  <1> QED BY <1>3, <1>4, TypeInit, TypeStep, PTL DEF Spec

-----------------------------------------------------------------------------
(* Where the surplus of a settlement comes from.  SettlementPaysAttached is   *)
(* not an invariant: overlapping polls name a payment in two events.  What    *)
(* is paid beyond the attached payments is the worth of payments that some    *)
(* other settlement has paid, nothing else.                                   *)
PaysFor(i, S) ==
    /\ S \subseteq Payments
    /\ settlements[i].amount = Worth(S)
    /\ Attached(i) \subseteq S
    /\ \A p \in S \ Attached(i) : settlementId[p] # 0
SurplusWasPaid == \A i \in 1..Len(settlements) : \E S \in SUBSET Payments : PaysFor(i, S)

LEMMA SurplusStep ==
    ASSUME TypeInv, SurplusWasPaid, [Next]_vars PROVE SurplusWasPaid'
  <1>0. RowTypes
    BY DEF TypeInv
  <1>1. ASSUME UNCHANGED <<settlementId, settlements>> PROVE SurplusWasPaid'
    BY <1>1 DEF SurplusWasPaid, PaysFor, Attached
  <1>2. ASSUME NEW e \in SettleEvents, PayOut(e) PROVE SurplusWasPaid'
    <2>1. e.ids \subseteq Payments /\ e.amount = Worth(e.ids)
      BY EventKinds, SettleAmount
    <2>2. ASSUME NEW i \in 1..Len(settlements'), i # Len(settlements) + 1
          PROVE  \E S \in SUBSET Payments : PaysFor(i, S)'
      <3>1. /\ i \in 1..Len(settlements)
            /\ Attached(i)' = Attached(i) /\ settlements'[i] = settlements[i]
        BY <1>0, <1>2, <2>2, PaidTargets
      <3>2. PICK S \in SUBSET Payments : PaysFor(i, S)
        BY <3>1 DEF SurplusWasPaid
      <3>3. \A p \in S : settlementId[p] # 0 => settlementId'[p] # 0
        BY <3>2, SettledStaysStep DEF SettledStays
      <3>4. PaysFor(i, S)'
        BY <3>1, <3>2, <3>3 DEF PaysFor
      <3> QED BY <3>2, <3>4
    <2>3. ASSUME NEW i, i = Len(settlements) + 1
          PROVE  \E S \in SUBSET Payments : PaysFor(i, S)'
      <3>1. Attached(i)' = Targets(e) /\ settlements'[i].amount = e.amount
        BY <1>0, <1>2, <2>3, PaidTargets
      <3>2. \A p \in e.ids \ Targets(e) : settlementId[p] # 0 /\ settlementId'[p] # 0
        BY <2>1, SettledStaysStep DEF Targets, SettledStays
      <3>3. PaysFor(i, e.ids)'
        BY <2>1, <3>1, <3>2 DEF PaysFor, Targets
      <3> QED BY <2>1, <3>3
    <2> QED BY <2>2, <2>3 DEF SurplusWasPaid
  <1>3. \/ UNCHANGED <<settlementId, settlements>>
        \/ \E e \in SettleEvents \cap Dispatched : PayOut(e)
    BY OnlyPayOut
  <1> QED BY <1>1, <1>2, <1>3

(* A settlement pays too much only for payments that another settlement paid *)
(* as well: they were named by two polls (settlement_service.go:44-98).       *)
THEOREM SurplusOnlyFromOverlap == Spec => []SurplusWasPaid
  <1>1. Init => SurplusWasPaid
    BY DEF Init, SurplusWasPaid
  <1>2. TypeInv /\ SurplusWasPaid /\ [Next]_vars => SurplusWasPaid'
    BY SurplusStep
  <1> QED BY <1>1, <1>2, TypeInit, TypeStep, PTL DEF Spec

-----------------------------------------------------------------------------
(* All money that left, against all that may be refunded. *)
SettledPayments == {p \in Payments : settlementId[p] # 0}
RefundedPayments == {p \in Payments : refunds[p] > 0}
PaidBy == [i \in 1..Len(settlements) |-> settlements[i].amount]
TotalPaid == SumOf(PaidBy, 1..Len(settlements))

PaidCovers == Worth(SettledPayments) <= TotalPaid
RefundsCovered == Worth(RefundedPayments) <= TotalPaid

(* The type of an amount says less: a sum over infinitely many payments need *)
(* not be a number.                                                          *)
AmountsAreNumbers == \A i \in 1..Len(settlements) : settlements[i].amount \in Nat

CoverInv ==
    PostedInv /\ IsFiniteSet(Captured) /\ RefundInv /\ AmountsAreNumbers /\ PaidCovers

LEMMA WorthTypes ==
    ASSUME NEW P \in SUBSET Payments, IsFiniteSet(P)
    PROVE  /\ \A p \in P : Amount[p] \in Nat
           /\ \A S \in SUBSET P : Worth(S) = SumOf(Amount, S) /\ Worth(S) \in Nat
  <1>1. \A p \in P : Amount[p] \in Nat
    BY PaymentAssumption
  <1>2. \A S \in SUBSET P : SumOf(Amount, S) \in Nat
    BY <1>1, SumType
  <1>3. \A S : Worth(S) = SumOf(Amount, S)
    BY DEF Worth, SumOf
  <1> QED BY <1>1, <1>2, <1>3

LEMMA CoverStep == CoverInv /\ [Next]_vars => CoverInv'
  <1> SUFFICES ASSUME CoverInv, [Next]_vars PROVE CoverInv'
    OBVIOUS
  <1>0. /\ TypeInv /\ RowTypes /\ IsFiniteSet(Captured)
        /\ PostedInv' /\ IsFiniteSet(Captured)' /\ RefundInv'
    BY PostedStep, FiniteStep, RefundStep DEF CoverInv, PostedInv, TypeInv
  <1>1. ASSUME UNCHANGED <<settlementId, settlements>> PROVE PaidCovers' /\ AmountsAreNumbers'
    BY <1>1 DEF CoverInv, PaidCovers, AmountsAreNumbers, SettledPayments, TotalPaid, PaidBy
  <1>2. ASSUME NEW e \in SettleEvents \cap Dispatched, PayOut(e)
        PROVE  PaidCovers' /\ AmountsAreNumbers'
    <2> DEFINE n == Len(settlements)
               Old == SettledPayments
               New == Targets(e)
    <2>1. e.ids \subseteq Payments /\ e.status = "initiated" /\ e.amount = Worth(e.ids)
      BY EventKinds, SettleAmount
    <2>2. e.ids \subseteq Captured /\ Old \subseteq Captured /\ New \subseteq e.ids
      BY <2>1 DEF CoverInv, PostedInv, EventsPosted, SettledWasPosted, Posted, Captured,
                  Targets, SettledPayments
    <2>3. /\ \A p \in Captured : Amount[p] \in Nat
          /\ \A S \in SUBSET Captured : Worth(S) = SumOf(Amount, S) /\ Worth(S) \in Nat
      <3>1. Captured \in SUBSET Payments
        BY DEF Captured
      <3> QED BY <1>0, <3>1, WorthTypes
    <2>4. SettledPayments' = Old \cup New /\ Old \cap New = {}
      <3>1. n + 1 # 0
        BY <1>0 DEF RowTypes
      <3> QED BY <1>2, <3>1, EventKinds DEF PayOut, SettledPayments, Targets
    <2>5. Worth(Old \cup New) = Worth(Old) + Worth(New)
      <3>1. SumOf(Amount, Old \cup New) = SumOf(Amount, Old) + SumOf(Amount, New)
        BY <1>0, <2>2, <2>3, <2>4, SumDisjoint
      <3> QED BY <2>2, <2>3, <3>1
    <2>6. Worth(New) <= e.amount
      <3>1. SumOf(Amount, New) <= SumOf(Amount, e.ids)
        BY <1>0, <2>2, <2>3, SumMonotonic
      <3> QED BY <2>1, <2>2, <2>3, <3>1
    <2>7. TotalPaid' = e.amount + TotalPaid /\ TotalPaid \in Nat
      <3> DEFINE B == PaidBy'
      <3>1. /\ n \in Nat /\ Len(settlements') = n + 1
            /\ \A i \in 1..n : settlements'[i] = settlements[i]
            /\ settlements'[n + 1].amount = e.amount
        BY <1>0, <1>2, PaidTargets
      <3>2. /\ \A i \in 1..n : B[i] = PaidBy[i]
            /\ B[n + 1] = e.amount
        BY <3>1 DEF PaidBy
      <3>3. \A i \in 1..n + 1 : B[i] \in Nat
        <4>1. \A i \in 1..n : PaidBy[i] \in Nat
          BY DEF CoverInv, AmountsAreNumbers, PaidBy
        <4>2. e.amount \in Nat
          BY <2>1, <2>2, <2>3
        <4> QED BY <3>1, <3>2, <4>1, <4>2
      <3>4. IsFiniteSet(1..n) /\ IsFiniteSet(1..n + 1)
        BY <3>1, FS_Interval
      <3>5. SumOf(B, 1..n + 1) = B[n + 1] + SumOf(B, 1..n)
        <4>1. n + 1 \in 1..n + 1 /\ (1..n + 1) \ {n + 1} = 1..n
          BY <3>1
        <4> QED BY <3>3, <3>4, <4>1, SumRemove
      <3>6. SumOf(B, 1..n) = SumOf(PaidBy, 1..n)
        BY <3>2, <3>4, SumAgree
      <3>7. SumOf(B, 1..n) \in Nat
        BY <3>1, <3>3, <3>4, SumType
      <3> QED BY <3>1, <3>2, <3>5, <3>6, <3>7 DEF TotalPaid
    <2>8. Worth(Old) <= TotalPaid
      BY DEF CoverInv, PaidCovers
    <2>9. Worth(Old) \in Nat /\ Worth(New) \in Nat /\ e.amount \in Nat
      BY <2>1, <2>2, <2>3
    <2>10. Worth(SettledPayments') = Worth(Old) + Worth(New)
      BY <2>4, <2>5
    <2>11. PaidCovers'
      <3> HIDE DEF Old, New
      <3> QED BY <2>6, <2>7, <2>8, <2>9, <2>10 DEF PaidCovers
    <2>12. AmountsAreNumbers'
      <3>1. /\ n \in Nat /\ Len(settlements') = n + 1
            /\ \A i \in 1..n : settlements'[i] = settlements[i]
            /\ settlements'[n + 1].amount = e.amount
        BY <1>0, <1>2, PaidTargets
      <3> QED BY <2>9, <3>1 DEF CoverInv, AmountsAreNumbers
    <2> QED BY <2>11, <2>12
  <1>3. \/ UNCHANGED <<settlementId, settlements>>
        \/ \E e \in SettleEvents \cap Dispatched : PayOut(e)
    BY <1>0, OnlyPayOut
  <1>4. PaidCovers' /\ AmountsAreNumbers'
    BY <1>1, <1>2, <1>3
  <1> QED BY <1>0, <1>4 DEF CoverInv

LEMMA CoverInit == Init => CoverInv
  <1> SUFFICES ASSUME Init PROVE CoverInv
    OBVIOUS
  <1>1. SettledPayments = {} /\ Captured = {} /\ settlements = <<>>
    BY DEF Init, SettledPayments, Captured
  <1>2. IsFiniteSet({}) /\ SumOf(Amount, {}) = 0 /\ SumOf(PaidBy, {}) = 0
    BY FS_EmptySet, SumPick
  <1>3. Worth({}) = 0
    BY <1>2 DEF Worth, SumOf
  <1>4. TotalPaid = 0
    <2>1. 1..Len(settlements) = {}
      BY <1>1
    <2> QED BY <1>2, <2>1 DEF TotalPaid
  <1> QED BY <1>1, <1>2, <1>3, <1>4, PostedInit, RefundInit
          DEF CoverInv, PaidCovers, AmountsAreNumbers

LEMMA CoverRefunds == CoverInv => RefundsCovered
  <1> SUFFICES ASSUME CoverInv PROVE RefundsCovered
    OBVIOUS
  <1>1. RefundedPayments \subseteq SettledPayments /\ SettledPayments \subseteq Captured
    BY DEF CoverInv, RefundInv, RefundedWasSettled, PostedInv, SettledWasPosted,
           RefundedPayments, SettledPayments, Captured
  <1>2. IsFiniteSet(SettledPayments)
    BY <1>1, FS_Subset DEF CoverInv
  <1>3. /\ \A p \in SettledPayments : Amount[p] \in Nat
        /\ \A S \in SUBSET SettledPayments : Worth(S) = SumOf(Amount, S) /\ Worth(S) \in Nat
    <2>1. SettledPayments \in SUBSET Payments
      BY DEF SettledPayments
    <2> QED BY <1>2, <2>1, WorthTypes
  <1>4. Worth(RefundedPayments) <= Worth(SettledPayments)
    <2>1. SumOf(Amount, RefundedPayments) <= SumOf(Amount, SettledPayments)
      BY <1>1, <1>2, <1>3, SumMonotonic
    <2> QED BY <1>1, <1>3, <2>1
  <1>5. TotalPaid \in Nat
    <2>1. Len(settlements) \in Nat
      BY DEF CoverInv, RefundInv, TypeInv, RowTypes
    <2>2. IsFiniteSet(1..Len(settlements))
      BY <2>1, FS_Interval
    <2>3. \A i \in 1..Len(settlements) : PaidBy[i] \in Nat
      BY DEF CoverInv, AmountsAreNumbers, PaidBy
    <2> QED BY <2>2, <2>3, SumType DEF TotalPaid
  <1>6. Worth(SettledPayments) <= TotalPaid
    BY DEF CoverInv, PaidCovers
  <1>7. Worth(RefundedPayments) \in Nat /\ Worth(SettledPayments) \in Nat
    BY <1>1, <1>3
  <1> QED BY <1>4, <1>5, <1>6, <1>7 DEF RefundsCovered

(* Taken over all settlements, at least the worth of all attached payments   *)
(* has been paid (settlement_service.go:129-211).                             *)
THEOREM PayoutsCoverSettled == Spec => []PaidCovers
  <1>1. CoverInv => PaidCovers
    BY DEF CoverInv
  <1> QED BY <1>1, CoverInit, CoverStep, PTL DEF Spec

(* What was refunded had been paid out: without calls of IssueRefund that    *)
(* overlap, the refunds never exceed the payouts, across all restarts and     *)
(* failures (admin_service.go:284-353).                                       *)
THEOREM PayoutsCoverRefunds ==
    ASSUME \A a, b \in Admins : a = b
    PROVE  Spec => [](RefundedOnce /\ RefundsCovered)
  <1>1. Spec => []RefundedOnce
    BY RefundedOnceAlone
  <1> QED BY <1>1, CoverInit, CoverStep, CoverRefunds, PTL DEF Spec
=============================================================================
