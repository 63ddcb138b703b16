----------------------- MODULE WebhookDispatchProofs -----------------------
(***************************************************************************)
(* Proofs about WebhookDispatch, for any number of events, restarts and    *)
(* retries and any timeouts.  The dispatcher is a ConsumerGroup, so what   *)
(* is proved of that holds of it; its time and its notices are counted     *)
(* here.                                                                   *)
(***************************************************************************)
EXTENDS WebhookDispatch, ConsumerGroupProofs

-----------------------------------------------------------------------------
(* Every step of the dispatcher is one of the consumer, or none. *)
LEMMA DispatchRefines == [DispatchNext]_webhookVars => [Next]_vars
  <1> SUFFICES ASSUME [DispatchNext]_webhookVars PROVE [Next]_vars
    OBVIOUS
  <1> Dispatcher \in Groups
    BY DispatchAssumption
  <1>1. CASE Lookup
    BY <1>1 DEF Lookup
  <1>2. CASE LookupFails \/ NoWebhookURL
    BY <1>2 DEF LookupFails, NoWebhookURL, Next, Handle
  <1>3. CASE SendWebhook
    <2>1. Handle(Dispatcher) \/ UNCHANGED vars
      BY <1>3 DEF SendWebhook, AttemptFails, GivesUp, Handle
    <2> QED BY <2>1 DEF Next
  <1>4. CASE Stop
    BY <1>4 DEF Stop, Next
  <1>5. ASSUME NEW m \in Messages, Send(m) PROVE [Next]_vars
    BY <1>5 DEF Next
  <1>6. CASE Commit(Dispatcher)
    BY <1>6 DEF Next
  <1>7. CASE Forget /\ UNCHANGED groupVars
    BY <1>7 DEF Next
  <1>8. CASE UNCHANGED webhookVars
    BY <1>8 DEF webhookVars
  <1> QED BY <1>1, <1>2, <1>3, <1>4, <1>5, <1>6, <1>7, <1>8 DEF DispatchNext, Work

(* Seen from Kafka the dispatcher is a consumer like any other. *)
THEOREM DispatcherIsConsumer == DispatchSpec => Spec
<1>1. DispatchInit => Init
  BY DEF DispatchInit
<1>2. QED BY <1>1, DispatchRefines, PTL DEF DispatchSpec, Spec

(* No event for a merchant vanishes before the dispatcher has had it, or     *)
(* failed on it (webhook cmd/main.go:40-45).                                 *)
THEOREM NoticesAccountedFor == DispatchSpec => []AccountedFor
<1>1. QED BY DispatcherIsConsumer, NothingVanishes, PTL

-----------------------------------------------------------------------------
(* What a call of sendWebhook may do. *)
Delivers ==
    /\ ~Expired /\ Arrives(TRUE) /\ Succeed(Dispatcher) /\ Start(0, 0)
    /\ UNCHANGED skipped

Outcome(d, arrived, timedOut) ==
    /\ Expired => d = 0 /\ ~arrived /\ ~timedOut
    /\ ~Expired => d <= Limit
    /\ timedOut => d = Limit

CallTypes ==
    /\ attempt \in 0..MaxRetries
    /\ backoff \in Nat \ {0}
    /\ elapsed \in Nat
    /\ timeouts \in Nat

LEMMA LimitBounds ==
    ASSUME CallTypes, ~Expired
    PROVE  Limit \in Nat /\ Limit <= ClientTimeout /\ elapsed + Limit <= Deadline
  BY DispatchAssumption DEF CallTypes, Expired, Limit

LEMMA SendCases ==
    ASSUME CallTypes, SendWebhook
    PROVE  \/ Delivers
           \/ \E d \in Nat, arrived \in BOOLEAN, timedOut \in BOOLEAN :
                 AttemptFails(d, arrived, timedOut) /\ Outcome(d, arrived, timedOut)
  <1>1. CASE Delivers
    BY <1>1
  <1>2. CASE Expired /\ AttemptFails(0, FALSE, FALSE)
    <2>1. Outcome(0, FALSE, FALSE)
      BY <1>2 DEF Outcome
    <2> QED BY <1>2, <2>1
  <1>3. ASSUME ~Expired, NEW d \in 0..Limit - 1, NEW arrived \in BOOLEAN,
               AttemptFails(d, arrived, FALSE)
        PROVE  \E e \in Nat, a \in BOOLEAN, t \in BOOLEAN : AttemptFails(e, a, t) /\ Outcome(e, a, t)
    <2>1. d \in Nat /\ d <= Limit
      BY <1>3, LimitBounds
    <2>2. Outcome(d, arrived, FALSE)
      BY <1>3, <2>1 DEF Outcome
    <2> QED BY <1>3, <2>1, <2>2
  <1>4. ASSUME ~Expired, NEW arrived \in BOOLEAN, AttemptFails(Limit, arrived, TRUE)
        PROVE  \E e \in Nat, a \in BOOLEAN, t \in BOOLEAN : AttemptFails(e, a, t) /\ Outcome(e, a, t)
    <2>1. Limit \in Nat
      BY <1>4, LimitBounds
    <2>2. Outcome(Limit, arrived, TRUE)
      BY <1>4, <2>1 DEF Outcome
    <2> QED BY <1>4, <2>1, <2>2
  <1> QED BY <1>1, <1>2, <1>3, <1>4 DEF SendWebhook, Delivers

-----------------------------------------------------------------------------
(***************************************************************************)
(* Time.  An attempt ends before the deadline or is not made, and the      *)
(* pause after it was counted before it was doubled.  As long as the       *)
(* deadline has not passed, the timeouts so far fit into what has elapsed. *)
(***************************************************************************)
TimeoutsTakeTime ==
    ~Expired => /\ timeouts = 1 => ClientTimeout <= elapsed
                /\ timeouts = 2 => 2 * ClientTimeout <= elapsed

CallInv == CallTypes /\ HandlerTimeBounded /\ TimeoutsTakeTime

LEMMA CallInit == DispatchInit => CallInv
  BY DispatchAssumption
  DEF DispatchInit, CallInv, CallTypes, HandlerTimeBounded, TimeoutsTakeTime

LEMMA CallStarts ==
    ASSUME NEW t \in 0..Deadline - 1, NEW n \in 0..MaxRetries, Start(t, n)
    PROVE  CallInv'
  BY DispatchAssumption
  DEF Start, CallInv, CallTypes, HandlerTimeBounded, TimeoutsTakeTime

LEMMA CallRetries ==
    ASSUME CallInv, NEW d \in Nat, NEW arrived \in BOOLEAN, NEW timedOut \in BOOLEAN,
           Outcome(d, arrived, timedOut), MayRetry,
           attempt' = attempt + 1,
           elapsed' = elapsed + d + backoff,
           backoff' = 2 * backoff,
           timeouts' = IF timedOut THEN timeouts + 1 ELSE timeouts
    PROVE  CallInv'
  <1> USE DEF CallInv
  <1>1. CallTypes'
    BY DispatchAssumption DEF CallTypes, MayRetry
  <1>2. CASE Expired
    <2>1. d = 0 /\ ~timedOut /\ elapsed >= Deadline
      BY <1>2, DispatchAssumption DEF Outcome, Expired, CallTypes
    <2>2. HandlerTimeBounded'
      BY <2>1, DispatchAssumption DEF HandlerTimeBounded, CallTypes
    <2>3. Expired'
      BY <2>1, DispatchAssumption DEF Expired, CallTypes
    <2> QED BY <1>1, <2>2, <2>3 DEF TimeoutsTakeTime
  <1>3. CASE ~Expired
    <2>1. /\ d <= Limit /\ Limit \in Nat /\ elapsed + Limit <= Deadline
          /\ timedOut => d = Limit
      BY <1>3, LimitBounds DEF Outcome
    <2>2. HandlerTimeBounded'
      BY <2>1, DispatchAssumption DEF HandlerTimeBounded, CallTypes
    <2>3. ASSUME ~Expired', timedOut PROVE d = ClientTimeout
      BY <2>1, <2>3, DispatchAssumption DEF Expired, Limit, CallTypes
    <2>4. TimeoutsTakeTime'
      BY <1>3, <2>1, <2>3, DispatchAssumption DEF TimeoutsTakeTime, CallTypes
    <2> QED BY <1>1, <2>2, <2>4
  <1> QED BY <1>2, <1>3

LEMMA CallStep == CallInv /\ [DispatchNext]_webhookVars => CallInv'
  <1> SUFFICES ASSUME CallInv, [DispatchNext]_webhookVars PROVE CallInv'
    OBVIOUS
  <1>a. CallTypes /\ 0 \in 0..Deadline - 1 /\ {0, 1} \subseteq 0..MaxRetries
    BY DispatchAssumption DEF CallInv
  <1>1. CASE Lookup
    BY <1>1, <1>a, CallStarts DEF Lookup
  <1>2. CASE SendWebhook
    <2>1. CASE Delivers
      BY <2>1, <1>a, CallStarts DEF Delivers
    <2>2. ASSUME NEW d \in Nat, NEW arrived \in BOOLEAN, NEW timedOut \in BOOLEAN,
                 AttemptFails(d, arrived, timedOut), Outcome(d, arrived, timedOut)
          PROVE  CallInv'
      <3>1. CASE MayRetry
        BY <2>2, <3>1, CallRetries DEF AttemptFails
      <3>2. CASE ~MayRetry
        <4>1. Start(0, 0)
          BY <2>2, <3>2 DEF AttemptFails, GivesUp
        <4> QED BY <4>1, <1>a, CallStarts
      <3> QED BY <3>1, <3>2
    <2> QED BY <1>2, <1>a, <2>1, <2>2, SendCases
  <1>3. CASE Stop
    BY <1>3, <1>a, CallStarts DEF Stop
  <1>4. CASE UNCHANGED callVars
    BY <1>4 DEF callVars, CallInv, CallTypes, HandlerTimeBounded, TimeoutsTakeTime, Expired
  <1> QED BY <1>1, <1>2, <1>3, <1>4
          DEF DispatchNext, Work, LookupFails, NoWebhookURL, dispatchVars, webhookVars

(* The loop is back for the next event after the deadline and the pauses,    *)
(* whatever the merchant does (webhook_service.go:49, 79-95).                *)
THEOREM TimeBounded == DispatchSpec => []HandlerTimeBounded
<1>1. QED BY CallInit, CallStep, PTL DEF DispatchSpec, CallInv

(* When two timeouts use up the deadline, as 5 s and 10 s do, no third       *)
(* request reaches the merchant (webhook_service.go:28, 49, 83).             *)
THEOREM ThirdNotSent ==
    ASSUME Deadline <= 2 * ClientTimeout
    PROVE  DispatchSpec => NoThirdAfterTimeouts
<1>1. CallInv /\ [DispatchNext]_webhookVars
        => (timeouts = 2 /\ attempt = 3 => UNCHANGED received)
  <2> SUFFICES ASSUME CallInv, [DispatchNext]_webhookVars, timeouts = 2, attempt = 3
               PROVE  UNCHANGED received
    OBVIOUS
  <2>1. Expired
    BY DispatchAssumption DEF CallInv, CallTypes, TimeoutsTakeTime, Expired
  <2>2. ASSUME SendWebhook PROVE UNCHANGED received
    BY <2>1, <2>2 DEF SendWebhook, AttemptFails, Arrives
  <2> QED BY <2>2 DEF DispatchNext, Work, Lookup, LookupFails, NoWebhookURL, Stop,
                      dispatchVars, webhookVars
<1>2. QED BY <1>1, CallInit, CallStep, PTL DEF DispatchSpec, NoThirdAfterTimeouts

-----------------------------------------------------------------------------
(***************************************************************************)
(* Notices.  A message is in the log once.  While it is ahead of the       *)
(* reader, what the merchant got of it comes from before the last restart, *)
(* or from the attempts of the running call; behind the reader one call    *)
(* more is counted.                                                        *)
(***************************************************************************)
Quota(n) == MaxRetries * n

Running(i) == attempt > 0 /\ i = position[Dispatcher] + 1
Spent(i) == IF Running(i) THEN attempt - 1 ELSE 0

PostedTypes ==
    /\ LogTypes /\ HistoryTypes /\ CallTypes
    /\ received \in [Messages -> Nat]
    /\ attempt > 0 => Ready(Dispatcher)
UnsentIsNew == \A m \in unsent : received[m] = 0
AheadIsBounded ==
    \A i \in 1..Len(log) :
        i > position[Dispatcher] => received[log[i]] <= Quota(restarts) + Spent(i)

NoticesInv ==
    /\ PostedTypes /\ SentOnce /\ UnsentIsNew /\ AheadIsBounded
    /\ NoticesBounded /\ HandledWasReceived

LEMMA QuotaGrows ==
    ASSUME NEW n \in Nat
    PROVE  /\ Quota(n) \in Nat /\ Quota(n + 1) = Quota(n) + MaxRetries
           /\ MaxRetries * (1 + n) = Quota(n + 1)
  BY DispatchAssumption, SMTT(30) DEF Quota

LEMMA NoticesInit == DispatchInit => NoticesInv
  <1> SUFFICES ASSUME DispatchInit PROVE NoticesInv
    OBVIOUS
  <1>1. LogTypes /\ HistoryTypes
    BY TypeInit DEF DispatchInit, TypeInv
  <1>2. CallTypes
    BY CallInit DEF CallInv
  <1>3. /\ Len(log) = 0 /\ restarts = 0 /\ handled[Dispatcher] = {}
        /\ received = [m \in Messages |-> 0] /\ attempt = 0
    BY DispatchAssumption DEF DispatchInit, Init, TopicInit, Nothing
  <1>4. PostedTypes
    BY <1>1, <1>2, <1>3 DEF PostedTypes
  <1>5. SentOnce /\ UnsentIsNew /\ AheadIsBounded /\ HandledWasReceived
    BY <1>1, <1>3, OnceInit DEF DispatchInit, UnsentIsNew, AheadIsBounded, HandledWasReceived, HistoryTypes
  <1>6. NoticesBounded
    BY <1>3, QuotaGrows DEF NoticesBounded
  <1> QED BY <1>4, <1>5, <1>6 DEF NoticesInv

(* A call ends, with or without a last request that reached the merchant, and *)
(* the reader moves on.                                                       *)
LEMMA NoticesMoveOn ==
    ASSUME NoticesInv, SentOnce', LogTypes', HistoryTypes', CallTypes', attempt' = 0,
           NEW last \in BOOLEAN, last => attempt > 0, Ready(Dispatcher),
           Arrives(last), log' = log, unsent' = unsent, restarts' = restarts,
           position' = [position EXCEPT ![Dispatcher] = @ + 1],
           HandledWasReceived'
    PROVE  NoticesInv'
  <1> USE DEF NoticesInv
  <1>1. Message \in Messages /\ position[Dispatcher] + 1 \in 1..Len(log)
    BY FetchedType, DispatchAssumption DEF PostedTypes, Message
  <1>2. /\ received' \in [Messages -> Nat]
        /\ \A m \in Messages : m # Message => received'[m] = received[m]
        /\ received'[Message] = received[Message] + IF last THEN 1 ELSE 0
    BY <1>1 DEF Arrives, PostedTypes
  <1>3. position'[Dispatcher] = position[Dispatcher] + 1 /\ position[Dispatcher] \in Nat
    BY DispatchAssumption DEF PostedTypes, LogTypes
  <1>4. PostedTypes'
    BY <1>2 DEF PostedTypes
  <1>5. restarts \in Nat /\ \A i \in 1..Len(log) : log[i] \in Messages
    BY RestartAssumption DEF PostedTypes, HistoryTypes, LogTypes
  <1>6. UnsentIsNew'
    <2>1. \A m \in unsent : m \in Messages /\ m # Message
      BY <1>1 DEF SentOnce, Message, Fetched, PostedTypes, HistoryTypes
    <2> QED BY <1>2, <2>1 DEF UnsentIsNew
  <1>7. AheadIsBounded'
    <2>1. ASSUME NEW i \in 1..Len(log), i > position[Dispatcher] + 1
          PROVE  received'[log[i]] <= Quota(restarts)
      <3>1. log[i] # Message
        BY <1>1, <1>3, <2>1 DEF SentOnce, Message, Fetched
      <3>2. ~Running(i)
        BY <1>3, <2>1 DEF Running
      <3>3. received[log[i]] <= Quota(restarts) + 0
        BY <1>3, <2>1, <3>2 DEF AheadIsBounded, Spent
      <3>4. /\ received[log[i]] \in Nat /\ received'[log[i]] = received[log[i]]
            /\ Quota(restarts) \in Nat
        BY <1>2, <1>5, <3>1, QuotaGrows DEF PostedTypes
      <3> QED BY <3>3, <3>4
    <2>2. ASSUME NEW i \in 1..Len(log'), i > position'[Dispatcher]
          PROVE  (received[log[i]] <= Quota(restarts) + Spent(i))'
      <3>1. Spent(i)' = 0 /\ Quota(restarts)' = Quota(restarts)
        BY DEF Spent, Running, Quota
      <3>2. received'[log[i]] <= Quota(restarts) /\ Quota(restarts) \in Nat
        BY <1>3, <1>5, <2>1, <2>2, QuotaGrows
      <3> QED BY <3>1, <3>2
    <2> QED BY <2>2 DEF AheadIsBounded
  <1>8. NoticesBounded'
    <2>1. received'[Message] <= Quota(restarts) + MaxRetries
      <3> DEFINE p == position[Dispatcher] + 1
      <3>1. received[Message] <= Quota(restarts) + Spent(p)
        BY <1>1, <1>3 DEF AheadIsBounded, Message, Fetched
      <3>2. Spent(p) \in Nat /\ Spent(p) + (IF last THEN 1 ELSE 0) <= MaxRetries
        BY DispatchAssumption DEF Spent, Running, PostedTypes, CallTypes
      <3>3. received[Message] \in Nat /\ Quota(restarts) \in Nat /\ MaxRetries \in Nat
        BY <1>1, <1>5, QuotaGrows, DispatchAssumption DEF PostedTypes
      <3>4. CASE last
        BY <1>2, <3>1, <3>2, <3>3, <3>4
      <3>5. CASE ~last
        BY <1>2, <3>1, <3>2, <3>3, <3>5
      <3> QED BY <3>4, <3>5
    <2>2. MaxRetries * (1 + restarts) = Quota(restarts) + MaxRetries
      BY <1>5, QuotaGrows
    <2>3. \A m \in Messages : received[m] <= Quota(restarts) + MaxRetries
      BY <2>2 DEF NoticesBounded
    <2>4. \A m \in Messages : received'[m] <= Quota(restarts) + MaxRetries
      BY <1>2, <2>1, <2>3
    <2> QED BY <2>2, <2>4 DEF NoticesBounded
  <1> QED BY <1>4, <1>6, <1>7, <1>8

(* The reader stays where it is, and so does what it has before it. *)
LEMMA NoticesStay ==
    ASSUME NoticesInv, SentOnce', PostedTypes', UnsentIsNew', HandledWasReceived',
           log' = log, position' = position, restarts' = restarts,
           UNCHANGED received,
           \A i \in 1..Len(log) : Spent(i)' = Spent(i)
    PROVE  NoticesInv'
  <1> USE DEF NoticesInv
  <1>1. Quota(restarts)' = Quota(restarts)
    BY DEF Quota
  <1>2. AheadIsBounded'
    BY <1>1 DEF AheadIsBounded
  <1> QED BY <1>2 DEF NoticesBounded

(* An attempt failed and another one follows. *)
LEMMA NoticesRetry ==
    ASSUME NoticesInv, SentOnce', PostedTypes', HandledWasReceived',
           attempt > 0, attempt' = attempt + 1, attempt < MaxRetries,
           NEW arrived \in BOOLEAN, Arrives(arrived), UNCHANGED vars
    PROVE  NoticesInv'
  <1> USE DEF NoticesInv
  <1>1. Message \in Messages /\ position[Dispatcher] + 1 \in 1..Len(log)
    BY FetchedType, DispatchAssumption DEF PostedTypes, Message
  <1>2. /\ log' = log /\ position' = position /\ restarts' = restarts /\ unsent' = unsent
        /\ received' \in [Messages -> Nat]
        /\ \A m \in Messages : m # Message => received'[m] = received[m]
        /\ received'[Message] \in {received[Message], received[Message] + 1}
    BY <1>1 DEF Arrives, PostedTypes, vars, topicVars, groupVars
  <1>3. /\ restarts \in Nat /\ Quota(restarts) \in Nat
        /\ Quota(restarts)' = Quota(restarts)
        /\ position[Dispatcher] \in Nat /\ attempt \in Nat /\ MaxRetries \in Nat
        /\ MaxRetries * (1 + restarts) = Quota(restarts) + MaxRetries
    <2>1. restarts \in Nat
      BY RestartAssumption DEF PostedTypes, HistoryTypes
    <2>2. Quota(restarts)' = Quota(restarts)
      BY <1>2 DEF Quota
    <2>3. Quota(restarts) \in Nat /\ MaxRetries * (1 + restarts) = Quota(restarts) + MaxRetries
      BY <2>1, QuotaGrows
    <2>4. position[Dispatcher] \in Nat /\ attempt \in Nat /\ MaxRetries \in Nat
      BY DispatchAssumption DEF PostedTypes, LogTypes, CallTypes
    <2> QED BY <2>1, <2>2, <2>3, <2>4
  <1>4. UnsentIsNew'
    <2>1. \A m \in unsent : m \in Messages /\ m # Message
      BY <1>1 DEF SentOnce, Message, Fetched, PostedTypes, HistoryTypes
    <2> QED BY <1>2, <2>1 DEF UnsentIsNew
  <1>5. received'[Message] <= Quota(restarts) + attempt
    <2> DEFINE p == position[Dispatcher] + 1
    <2>1. Spent(p) = attempt - 1
      BY DEF Spent, Running
    <2>2. received[Message] <= Quota(restarts) + (attempt - 1)
      BY <1>1, <1>3, <2>1 DEF AheadIsBounded, Message, Fetched
    <2>3. received[Message] \in Nat
      BY <1>1 DEF PostedTypes
    <2> QED BY <1>2, <1>3, <2>2, <2>3
  <1>6. AheadIsBounded'
    <2>1. ASSUME NEW i \in 1..Len(log), i > position[Dispatcher]
          PROVE  received'[log[i]] <= Quota(restarts) + Spent(i)'
      <3>1. log[i] \in Messages
        BY DEF PostedTypes, LogTypes
      <3>2. CASE i = position[Dispatcher] + 1
        <4>1. Spent(i)' = attempt /\ log[i] = Message
          BY <1>2, <1>3, <3>2 DEF Spent, Running, Message, Fetched
        <4> QED BY <1>5, <4>1
      <3>3. CASE i # position[Dispatcher] + 1
        <4>1. Spent(i)' = 0 /\ Spent(i) = 0
          BY <1>2, <3>3 DEF Spent, Running
        <4>2. log[i] # Message
          BY <1>1, <3>3 DEF SentOnce, Message, Fetched
        <4> QED BY <1>2, <2>1, <3>1, <4>1, <4>2 DEF AheadIsBounded
      <3> QED BY <3>2, <3>3
    <2> QED BY <1>2, <1>3, <2>1 DEF AheadIsBounded
  <1>7. NoticesBounded'
    <2>1. \A m \in Messages : received[m] <= Quota(restarts) + MaxRetries
      BY <1>3 DEF NoticesBounded
    <2>2. received'[Message] <= Quota(restarts) + MaxRetries
      <3>1. received'[Message] \in Nat
        BY <1>1, <1>2
      <3> QED BY <1>3, <1>5, <3>1
    <2>3. \A m \in Messages : received'[m] <= Quota(restarts) + MaxRetries
      BY <1>2, <2>1, <2>2
    <2> QED BY <1>2, <1>3, <2>3 DEF NoticesBounded
  <1> QED BY <1>2, <1>4, <1>6, <1>7

(* A restart: all that was posted counts as posted before it. *)
LEMMA NoticesRestart ==
    ASSUME NoticesInv, SentOnce', PostedTypes', HandledWasReceived',
           Stop
    PROVE  NoticesInv'
  <1> USE DEF NoticesInv
  <1>1. /\ log' = log /\ unsent' = unsent /\ received' = received
        /\ restarts' = restarts + 1 /\ attempt' = 0
    BY DEF Stop, Start, Rejoin, Restart
  <1>2. restarts \in Nat
    BY RestartAssumption DEF PostedTypes, HistoryTypes
  <1>3. /\ Quota(restarts)' = Quota(restarts) + MaxRetries
        /\ Quota(restarts) \in Nat /\ MaxRetries \in Nat
        /\ MaxRetries * (1 + restarts) = Quota(restarts) + MaxRetries
    <2>1. Quota(restarts)' = Quota(restarts + 1)
      BY <1>1 DEF Quota
    <2> QED BY <1>2, <2>1, QuotaGrows, DispatchAssumption
  <1>4. MaxRetries * (1 + restarts') = Quota(restarts) + MaxRetries + MaxRetries
    <2>1. restarts' \in Nat
      BY <1>1, <1>2
    <2>2. MaxRetries * (1 + restarts') = Quota(restarts') + MaxRetries
      BY <2>1, QuotaGrows
    <2>3. Quota(restarts') = Quota(restarts) + MaxRetries
      BY <1>1, <1>2, QuotaGrows
    <2> QED BY <2>2, <2>3
  <1>5. \A m \in Messages : received[m] \in Nat /\ received[m] <= Quota(restarts) + MaxRetries
    BY <1>3 DEF NoticesBounded, PostedTypes
  <1>6. NoticesBounded'
    BY <1>1, <1>3, <1>4, <1>5 DEF NoticesBounded
  <1>7. AheadIsBounded'
    <2>1. \A i : Spent(i)' = 0
      BY <1>1 DEF Spent, Running
    <2>2. \A i \in 1..Len(log) : log[i] \in Messages
      BY DEF PostedTypes, LogTypes
    <2> QED BY <1>1, <1>3, <1>5, <2>1, <2>2 DEF AheadIsBounded
  <1> QED BY <1>1, <1>6, <1>7 DEF UnsentIsNew

LEMMA NoticesStep ==
    NoticesInv /\ [DispatchNext]_webhookVars => NoticesInv'
  <1> SUFFICES ASSUME NoticesInv, [DispatchNext]_webhookVars PROVE NoticesInv'
    OBVIOUS
  <1> USE DEF NoticesInv
  (* The types, time apart, are those of the consumer. *)
  <1>a. LogTypes /\ HistoryTypes /\ LogTypes' /\ HistoryTypes'
    BY DispatchRefines, TypeStep DEF PostedTypes, TypeInv
  <1>o. SentOnce'
    BY <1>a, DispatchRefines, OnceStep DEF TypeInv
  <1>b. CallTypes /\ \A t \in 0..Deadline - 1, n \in 0..MaxRetries : Start(t, n) => CallTypes'
    <2>1. CallTypes
      BY DEF PostedTypes
    <2>2. ASSUME NEW t \in 0..Deadline - 1, NEW n \in 0..MaxRetries, Start(t, n)
          PROVE  CallTypes'
      BY <2>2 DEF Start, CallTypes
    <2> QED BY <2>1, <2>2
  <1>c. Dispatcher \in Groups /\ {0, 1} \subseteq 0..MaxRetries /\ 0 \in 0..Deadline - 1
    BY DispatchAssumption
  <1>d. Ready(Dispatcher) => Message \in Messages
    BY <1>a, <1>c, FetchedType DEF Message
  <1>1. CASE Lookup
    <2>1. /\ attempt = 0 /\ attempt' = 1 /\ Ready(Dispatcher) /\ CallTypes'
          /\ UNCHANGED <<vars, received, skipped>>
      BY <1>1, <1>b, <1>c DEF Lookup, Start
    <2>2. PostedTypes'
      BY <1>a, <2>1 DEF PostedTypes, Ready, vars, topicVars
    <2>3. \A i \in 1..Len(log) : Spent(i)' = Spent(i)
      BY <2>1 DEF Spent, Running
    <2> QED BY <1>o, <2>1, <2>2, <2>3, NoticesStay
            DEF vars, topicVars, groupVars, UnsentIsNew, HandledWasReceived
  <1>2. CASE LookupFails \/ NoWebhookURL
    <2>1. /\ attempt = 0 /\ attempt' = 0 /\ UNCHANGED <<callVars, received>>
          /\ Ready(Dispatcher) /\ log' = log /\ unsent' = unsent /\ restarts' = restarts
          /\ position' = [position EXCEPT ![Dispatcher] = @ + 1]
      BY <1>2 DEF LookupFails, NoWebhookURL, Succeed, Fail, HandlerSucceeds, HandlerFails,
                  Advance, dispatchVars, callVars
    <2>2. handled'[Dispatcher] \ skipped' \subseteq handled[Dispatcher] \ skipped
      BY <1>2, <1>a, <1>c
      DEF LookupFails, NoWebhookURL, Succeed, Fail, dispatchVars, HistoryTypes, Message
    <2>3. HandledWasReceived'
      BY <2>1, <2>2 DEF HandledWasReceived
    <2>4. CallTypes'
      BY <1>b, <2>1 DEF CallTypes, callVars
    <2>5. Arrives(FALSE)
      BY <2>1 DEF Arrives
    <2> QED BY <1>o, <1>a, <2>1, <2>3, <2>4, <2>5, NoticesMoveOn
  <1>3. ASSUME attempt > 0, NEW last \in BOOLEAN, Arrives(last), Start(0, 0), UNCHANGED skipped,
               Fail(Dispatcher) \/ (last /\ Succeed(Dispatcher))
        PROVE  NoticesInv'
    <2>1. /\ attempt' = 0 /\ CallTypes'
          /\ Ready(Dispatcher) /\ log' = log /\ unsent' = unsent /\ restarts' = restarts
          /\ position' = [position EXCEPT ![Dispatcher] = @ + 1]
      BY <1>3, <1>b, <1>c DEF Start, Succeed, Fail, HandlerSucceeds, HandlerFails, Advance
    <2>2. /\ handled'[Dispatcher] \subseteq handled[Dispatcher] \cup {Message}
          /\ Message \in handled'[Dispatcher] \ handled[Dispatcher] => last
      BY <1>3, <1>a, <1>c DEF Succeed, Fail, HistoryTypes, Message
    <2>3. HandledWasReceived'
      <3>1. ASSUME NEW m \in handled'[Dispatcher] \ skipped PROVE received'[m] > 0
        <4>1. m \in Messages /\ Message \in Messages
          BY <1>a, <1>c, <1>d, <2>1 DEF HistoryTypes
        <4>2. CASE last /\ m = Message
          BY <1>3, <4>1, <4>2 DEF Arrives, PostedTypes
        <4>3. CASE ~(last /\ m = Message)
          <5>1. m \in handled[Dispatcher] \ skipped
            BY <2>2, <4>3
          <5>2. received[m] > 0 /\ received[m] \in Nat
            BY <4>1, <5>1 DEF HandledWasReceived, PostedTypes
          <5>3. received'[m] \in {received[m], received[m] + 1}
            BY <1>3, <4>1 DEF Arrives, PostedTypes
          <5> QED BY <5>2, <5>3
        <4> QED BY <4>2, <4>3
      <3> QED BY <1>3, <3>1 DEF HandledWasReceived
    <2> QED BY <1>o, <1>a, <1>3, <2>1, <2>3, NoticesMoveOn
  <1>4. CASE SendWebhook
    <2>1. attempt > 0
      BY <1>4 DEF SendWebhook
    <2>2. CASE Delivers
      BY <1>3, <2>1, <2>2 DEF Delivers
    <2>3. ASSUME NEW d \in Nat, NEW arrived \in BOOLEAN, NEW timedOut \in BOOLEAN,
                 AttemptFails(d, arrived, timedOut)
          PROVE  NoticesInv'
      <3>1. CASE ~MayRetry
        BY <1>3, <2>1, <2>3, <3>1 DEF AttemptFails, GivesUp
      <3>2. CASE MayRetry
        <4>1. /\ Arrives(arrived) /\ UNCHANGED vars /\ UNCHANGED skipped
              /\ attempt' = attempt + 1 /\ attempt < MaxRetries
          BY <2>3, <3>2 DEF AttemptFails, MayRetry
        <4>2. CallTypes'
          BY <2>3, <3>2, <1>b, DispatchAssumption DEF AttemptFails, MayRetry, CallTypes
        <4>3. received' \in [Messages -> Nat]
          BY <1>d, <2>1, <4>1 DEF Arrives, PostedTypes
        <4>4. PostedTypes'
          BY <1>a, <2>1, <4>1, <4>2, <4>3 DEF PostedTypes, Ready, vars, topicVars
        <4>5. HandledWasReceived'
          <5>1. ASSUME NEW m \in handled[Dispatcher] \ skipped PROVE received'[m] > 0
            <6>1. m \in Messages /\ received[m] \in Nat /\ received[m] > 0
              BY <1>a, <1>c DEF HistoryTypes, HandledWasReceived, PostedTypes
            <6>2. received'[m] \in {received[m], received[m] + 1}
              BY <4>1, <6>1 DEF Arrives, PostedTypes
            <6> QED BY <6>1, <6>2
          <5> QED BY <4>1, <5>1 DEF HandledWasReceived, vars, groupVars
        <4> QED BY <1>o, <2>1, <4>1, <4>4, <4>5, NoticesRetry
      <3> QED BY <3>1, <3>2
    <2> QED BY <1>b, <1>4, <2>2, <2>3, SendCases
  <1>5. CASE Stop
    <2>1. /\ attempt' = 0 /\ CallTypes' /\ UNCHANGED <<received, skipped, handled>>
      BY <1>5, <1>b, <1>c DEF Stop, Start, Rejoin
    <2>2. PostedTypes'
      BY <1>a, <2>1 DEF PostedTypes
    <2> QED BY <1>o, <1>5, <2>1, <2>2, NoticesRestart DEF HandledWasReceived
  <1>6. ASSUME NEW m \in Messages, Send(m), UNCHANGED dispatchVars PROVE NoticesInv'
    <2>1. /\ Len(log') = Len(log) + 1
          /\ \A i \in 1..Len(log) : log'[i] = log[i]
          /\ log'[Len(log) + 1] = m
          /\ m \in unsent /\ unsent' = unsent \ {m}
          /\ position' = position /\ acking' = acking /\ handled' = handled
          /\ restarts' = restarts /\ UNCHANGED <<callVars, received, skipped>>
      BY <1>a, <1>6, LogAppends DEF Send, Publish, dispatchVars
    <2>2. Len(log) \in Nat /\ position[Dispatcher] \in Nat /\ position[Dispatcher] <= Len(log)
      BY <1>a, <1>c DEF LogTypes
    <2>3. CallTypes'
      BY <1>b, <2>1 DEF CallTypes, callVars
    <2>4. PostedTypes'
      BY <1>a, <2>1, <2>2, <2>3 DEF PostedTypes, Ready, callVars
    <2>6. UnsentIsNew'
      BY <2>1, <2>2 DEF UnsentIsNew
    <2>7. AheadIsBounded'
      <3>1. \A i \in 1..Len(log') : Spent(i)' = Spent(i)
        BY <2>1 DEF Spent, Running, callVars
      <3>2. Quota(restarts)' = Quota(restarts)
        BY <2>1 DEF Quota
      <3>3. \A i \in 1..Len(log) :
              i > position[Dispatcher] => received[log'[i]] <= Quota(restarts) + Spent(i)
        BY <2>1 DEF AheadIsBounded
      <3>4. received[m] <= Quota(restarts) + Spent(Len(log) + 1)
        <4>1. received[m] = 0 /\ restarts \in Nat
          BY <1>a, <2>1, RestartAssumption DEF UnsentIsNew, HistoryTypes
        <4>2. Quota(restarts) \in Nat
          BY <4>1, QuotaGrows
        <4>3. attempt \in Nat
          BY <1>b, DispatchAssumption DEF CallTypes
        <4>4. \A n \in Nat : Spent(n) \in Nat
          BY <4>3 DEF Spent, Running
        <4>5. \A n \in Nat : 0 <= Quota(restarts) + Spent(n)
          BY <4>2, <4>4
        <4> QED BY <2>2, <4>1, <4>5
      <3>5. ASSUME NEW i \in 1..Len(log'), i > position[Dispatcher]
            PROVE  received[log'[i]] <= Quota(restarts) + Spent(i)
        <4>1. CASE i = Len(log) + 1
          BY <2>1, <3>4, <4>1
        <4>2. CASE i # Len(log) + 1
          <5>1. i \in 1..Len(log)
            BY <2>1, <2>2, <3>5, <4>2
          <5> QED BY <3>3, <3>5, <5>1
        <4> QED BY <4>1, <4>2
      <3> QED BY <2>1, <3>1, <3>2, <3>5 DEF AheadIsBounded
    <2> QED BY <1>o, <2>1, <2>4, <2>6, <2>7 DEF NoticesBounded, HandledWasReceived
  <1>7. CASE Commit(Dispatcher) /\ UNCHANGED dispatchVars
    <2>1. /\ log' = log /\ position' = position /\ UNCHANGED groupVars
          /\ UNCHANGED <<callVars, received, skipped>> /\ acking[Dispatcher]
      BY <1>7 DEF Commit, CommitMessages, dispatchVars
    <2>2. attempt = 0 /\ attempt' = 0
      BY <1>b, <2>1 DEF PostedTypes, Ready, CallTypes, callVars
    <2>3. PostedTypes'
      BY <1>a, <1>b, <2>1, <2>2 DEF PostedTypes, CallTypes, callVars
    <2>4. \A i \in 1..Len(log) : Spent(i)' = Spent(i)
      BY <2>2 DEF Spent, Running
    <2> QED BY <1>o, <2>1, <2>3, <2>4, NoticesStay DEF groupVars, UnsentIsNew, HandledWasReceived
  <1>8. CASE Forget /\ UNCHANGED groupVars /\ UNCHANGED dispatchVars
    <2>1. /\ Len(log') = Len(log) - 1
          /\ \A i \in 1..Len(log') : log'[i] = log[i + 1]
          /\ position[Dispatcher] > 0 /\ position'[Dispatcher] = position[Dispatcher] - 1
          /\ acking' = acking /\ UNCHANGED groupVars
          /\ UNCHANGED <<callVars, received, skipped>>
      BY <1>a, <1>c, <1>8, LogForgets DEF dispatchVars, Forget
    <2>2. Len(log) \in Nat /\ Len(log') \in Nat /\ position[Dispatcher] \in Nat
      BY <1>a, <1>c DEF LogTypes
    <2>3. CallTypes'
      BY <1>b, <2>1 DEF CallTypes, callVars
    <2>4. PostedTypes'
      BY <1>a, <2>1, <2>2, <2>3 DEF PostedTypes, Ready, callVars
    <2>5. UnsentIsNew'
      BY <2>1 DEF UnsentIsNew, groupVars
    <2>6. AheadIsBounded'
      <3>1. Quota(restarts)' = Quota(restarts)
        BY <2>1 DEF Quota, groupVars
      <3>2. ASSUME NEW i \in 1..Len(log'), i > position'[Dispatcher]
            PROVE  received[log'[i]] <= Quota(restarts) + Spent(i)'
        <4>1. i + 1 \in 1..Len(log) /\ i + 1 > position[Dispatcher]
          BY <2>1, <2>2, <3>2
        <4>2. Spent(i)' = Spent(i + 1)
          BY <2>1, <2>2 DEF Spent, Running, callVars
        <4> QED BY <2>1, <4>1, <4>2 DEF AheadIsBounded
      <3> QED BY <2>1, <3>1, <3>2 DEF AheadIsBounded
    <2> QED BY <1>o, <2>1, <2>4, <2>5, <2>6 DEF NoticesBounded, HandledWasReceived, groupVars
  <1>9. CASE UNCHANGED webhookVars
    <2>1. \A i \in 1..Len(log) : Spent(i)' = Spent(i)
      BY <1>9 DEF Spent, Running, webhookVars, dispatchVars, callVars, vars, topicVars
    <2>2. PostedTypes'
      BY <1>a, <1>b, <1>9
      DEF PostedTypes, CallTypes, Ready, webhookVars, dispatchVars, callVars, vars, topicVars
    <2> QED BY <1>o, <1>9, <2>1, <2>2, NoticesStay
            DEF webhookVars, dispatchVars, vars, topicVars, groupVars,
                UnsentIsNew, HandledWasReceived
  <1> QED BY <1>1, <1>2, <1>4, <1>5, <1>6, <1>7, <1>8, <1>9 DEF DispatchNext, Work

(* No merchant gets an event more often than MaxRetries times, and as often  *)
(* again for each restart, for any number of events and restarts.            *)
THEOREM NoFlood == DispatchSpec => []NoticesBounded
<1>1. QED BY NoticesInit, NoticesStep, PTL DEF DispatchSpec, NoticesInv

(* No event counts as handled that its merchant did not get, unless there is *)
(* no URL to send it to (webhook_service.go:65, 85, 97).                     *)
THEOREM HandledMeansReceived == DispatchSpec => []HandledWasReceived
<1>1. QED BY NoticesInit, NoticesStep, PTL DEF DispatchSpec, NoticesInv
=============================================================================
