------------------------ MODULE ConsumerGroupProofs ------------------------
(***************************************************************************)
(* Proofs about ConsumerGroup, for any groups, messages, restarts and      *)
(* length of the log, whether or not handlers fail and commits are lost.   *)
(***************************************************************************)
EXTENDS ConsumerGroup, TLAPS

-----------------------------------------------------------------------------
(* What the steps need of the types. *)
LogTypes ==
    /\ log \in Seq(Messages) /\ Len(log) <= MaxLog
    /\ position \in [Groups -> Nat]
    /\ \A g \in Groups : position[g] <= Len(log)
    /\ committed \in [Groups -> Int]
    /\ \A g \in Groups : committed[g] = NoOffset \/ committed[g] \in 0..Len(log)
    /\ acking \in [Groups -> BOOLEAN]

HistoryTypes ==
    /\ unsent \subseteq Messages
    /\ handled \in [Groups -> SUBSET Messages]
    /\ failed \in [Groups -> SUBSET Messages]
    /\ missed \in [Groups -> SUBSET Messages]
    /\ restarts \in 0..MaxRestarts

TypeInv == LogTypes /\ HistoryTypes

(* The log grows at its end and shrinks at its front. *)
LEMMA LogAppends ==
    ASSUME LogTypes, NEW m \in Messages, Publish(m)
    PROVE  /\ LogTypes'
           /\ Len(log') = Len(log) + 1
           /\ \A i \in 1..Len(log) : log'[i] = log[i]
           /\ log'[Len(log) + 1] = m
  <1>1. log \in Seq(Messages) /\ log' = Append(log, m) /\ Len(log) < MaxLog
    BY DEF Publish, LogTypes
  <1>2. /\ log' \in Seq(Messages) /\ Len(log') = Len(log) + 1
        /\ \A i \in 1..Len(log) : log'[i] = log[i]
        /\ log'[Len(log) + 1] = m
    BY <1>1
  <1>3. Len(log') <= MaxLog
    BY <1>1, <1>2, TopicAssumption
  <1> QED BY <1>2, <1>3 DEF Publish, LogTypes

LEMMA LogForgets ==
    ASSUME LogTypes, Forget
    PROVE  /\ LogTypes'
           /\ Len(log') = Len(log) - 1
           /\ \A i \in 1..Len(log') : log'[i] = log[i + 1]
           /\ \A g \in Groups : position[g] > 0 /\ position'[g] = position[g] - 1
           /\ \A g \in Groups :
                \/ committed[g] = NoOffset /\ committed'[g] = NoOffset
                \/ committed[g] > 0 /\ committed'[g] = committed[g] - 1
  <1>1. log \in Seq(Messages) /\ log # <<>> /\ log' = Tail(log)
    BY DEF Forget, LogTypes
  <1>2. /\ log' \in Seq(Messages) /\ Len(log') = Len(log) - 1
        /\ \A i \in 1..Len(log') : log'[i] = log[i + 1]
    BY <1>1
  <1>3. \A g \in Groups : position[g] > 0 /\ position'[g] = position[g] - 1
    BY DEF Forget, Behind, LogTypes
  <1>4. \A g \in Groups :
            \/ committed[g] = NoOffset /\ committed'[g] = NoOffset
            \/ committed[g] > 0 /\ committed'[g] = committed[g] - 1
    BY DEF Forget, Behind, LogTypes, NoOffset
  <1>5. Len(log') <= MaxLog
    BY <1>1, <1>2, TopicAssumption DEF LogTypes
  <1>6. position' \in [Groups -> Nat] /\ committed' \in [Groups -> Int]
    BY <1>3, <1>4 DEF Forget, LogTypes, NoOffset
  <1>7. /\ \A g \in Groups : position'[g] <= Len(log')
        /\ \A g \in Groups : committed'[g] = NoOffset \/ committed'[g] \in 0..Len(log')
        /\ acking' \in [Groups -> BOOLEAN]
    BY <1>1, <1>2, <1>3, <1>4 DEF LogTypes, NoOffset, Forget
  <1> QED BY <1>2, <1>3, <1>4, <1>5, <1>6, <1>7 DEF LogTypes

LEMMA FetchedType ==
    ASSUME LogTypes, NEW g \in Groups, Ready(g)
    PROVE  Fetched(g) \in Messages /\ position[g] + 1 \in 1..Len(log)
  BY DEF LogTypes, Ready, Fetched

LEMMA LogMoves ==
    ASSUME LogTypes, NEW g \in Groups,
           \/ HandlerSucceeds(g) \/ HandlerFails(g)
           \/ CommitMessages(g) \/ Restart(g)
    PROVE  LogTypes' /\ log' = log
  <1>1. CASE HandlerSucceeds(g) \/ HandlerFails(g)
    <2>1. /\ log' = log /\ committed' = committed /\ position[g] < Len(log)
          /\ position' = [position EXCEPT ![g] = @ + 1]
          /\ acking' \in [Groups -> BOOLEAN]
      BY <1>1 DEF HandlerSucceeds, HandlerFails, Advance, Ready, LogTypes
    <2>2. \A h \in Groups : position'[h] \in Nat /\ position'[h] <= Len(log)
      BY <2>1 DEF LogTypes
    <2> QED BY <2>1, <2>2 DEF LogTypes
  <1>2. CASE CommitMessages(g)
    BY <1>2 DEF CommitMessages, LogTypes
  <1>3. CASE Restart(g)
    <2>1. ResumeAt(g) \in 0..Len(log)
      BY DEF ResumeAt, LogTypes, NoOffset
    <2> QED BY <1>3, <2>1 DEF Restart, LogTypes
  <1> QED BY <1>1, <1>2, <1>3

LEMMA TypeInit == Init => TypeInv
  BY TopicAssumption, RestartAssumption
  DEF Init, TopicInit, Nothing, NoOffset, TypeInv, LogTypes, HistoryTypes

LEMMA TypeStep == TypeInv /\ [Next]_vars => TypeInv'
  <1> SUFFICES ASSUME TypeInv, [Next]_vars PROVE TypeInv'
    OBVIOUS
  <1> USE DEF TypeInv
  <1>1. ASSUME NEW m \in Messages, Send(m) PROVE TypeInv'
    <2>1. LogTypes'
      BY <1>1, LogAppends DEF Send
    <2> QED BY <1>1, <2>1 DEF Send, HistoryTypes
  <1>2. ASSUME NEW g \in Groups, Succeed(g) PROVE TypeInv'
    <2>1. LogTypes' /\ Fetched(g) \in Messages
      BY <1>2, LogMoves, FetchedType DEF Succeed, HandlerSucceeds
    <2> QED BY <1>2, <2>1 DEF Succeed, HistoryTypes
  <1>3. ASSUME NEW g \in Groups, Fail(g) PROVE TypeInv'
    <2>1. LogTypes' /\ Fetched(g) \in Messages
      BY <1>3, LogMoves, FetchedType DEF Fail, HandlerFails
    <2> QED BY <1>3, <2>1 DEF Fail, HistoryTypes
  <1>4. ASSUME NEW g \in Groups, Commit(g) PROVE TypeInv'
    BY <1>4, LogMoves DEF Commit, HistoryTypes, groupVars
  <1>5. ASSUME NEW g \in Groups, Rejoin(g) PROVE TypeInv'
    <2>1. LogTypes'
      BY <1>5, LogMoves DEF Rejoin
    <2>2. restarts' \in 0..MaxRestarts
      BY <1>5, RestartAssumption DEF Rejoin, HistoryTypes
    <2>3. Unread(g) \subseteq Messages
      BY DEF Unread, LogTypes
    <2> QED BY <1>5, <2>1, <2>2, <2>3 DEF Rejoin, HistoryTypes
  <1>6. CASE Forget /\ UNCHANGED groupVars
    BY <1>6, LogForgets DEF HistoryTypes, groupVars
  <1>7. CASE UNCHANGED vars
    BY <1>7 DEF vars, topicVars, groupVars, LogTypes, HistoryTypes
  <1> QED BY <1>1, <1>2, <1>3, <1>4, <1>5, <1>6, <1>7 DEF Next, Handle

(* Positions and offsets stay inside the log: nothing is fetched or          *)
(* committed that was not published (consumer.go:33, 47).                    *)
THEOREM TypeCorrect == Spec => []TypeOK
<1>1. TypeInv => TypeOK
  BY DEF TypeInv, LogTypes, HistoryTypes, TypeOK, TopicTypeOK
<1>2. QED BY <1>1, TypeInit, TypeStep, PTL DEF Spec

-----------------------------------------------------------------------------
(***************************************************************************)
(* Delivery.  What the reader has passed is settled one way or the other;  *)
(* the offset is never beyond the reader.  Both properties follow, and     *)
(* neither is inductive without the statement about the reader.            *)
(***************************************************************************)
Settled(g) == handled[g] \cup failed[g] \cup missed[g]

PassedIsSettled == \A g \in Groups : \A i \in 1..position[g] : log[i] \in Settled(g)
OffsetBehindReader == \A g \in Groups : committed[g] <= position[g]

DeliveryInv == TypeInv /\ PassedIsSettled /\ OffsetBehindReader /\ AccountedFor

LEMMA DeliveryInit == Init => DeliveryInv
  <1> SUFFICES ASSUME Init PROVE DeliveryInv
    OBVIOUS
  <1>1. TypeInv
    BY TypeInit
  <1>2. Published = {}
    BY DEF Init, Published
  <1>3. \A g \in Groups : position[g] = 0 /\ committed[g] <= 0
    <2>1. \A g \in Groups : position[g] = 0 /\ committed[g] \in {0, NoOffset}
      BY DEF Init, TopicInit
    <2>2. NoOffset <= 0 /\ 0 <= 0
      BY DEF NoOffset
    <2> QED BY <2>1, <2>2
  <1> QED BY <1>1, <1>2, <1>3
          DEF DeliveryInv, PassedIsSettled, OffsetBehindReader, AccountedFor

(* A message leaves the part of the log ahead of a reader only by being settled. *)
LEMMA AheadMeans ==
    ASSUME LogTypes, NEW g \in Groups, NEW m
    PROVE  m \in Ahead(g) <=> \E i \in 1..Len(log) : i > position[g] /\ log[i] = m
  BY DEF LogTypes, Ahead

LEMMA DeliveryStep == DeliveryInv /\ [Next]_vars => DeliveryInv'
  <1> SUFFICES ASSUME DeliveryInv, [Next]_vars PROVE DeliveryInv'
    OBVIOUS
  <1>a. TypeInv /\ TypeInv' /\ LogTypes /\ LogTypes'
    BY TypeStep DEF DeliveryInv, TypeInv
  <1> USE <1>a
  <1> USE DEF DeliveryInv
  (* Every step is one of these for the sets and places it speaks of. *)
  <1>1. ASSUME NEW m \in Messages, Send(m) PROVE DeliveryInv'
    <2>1. /\ Len(log') = Len(log) + 1
          /\ \A i \in 1..Len(log) : log'[i] = log[i]
          /\ log'[Len(log) + 1] = m
          /\ position' = position /\ committed' = committed
      BY <1>1, LogAppends DEF Send, Publish
    <2>2. /\ \A g \in Groups : Settled(g)' = Settled(g)
          /\ Published' \subseteq Published \cup {m}
      BY <1>1 DEF Send, Settled, Published
    <2>3. PassedIsSettled' /\ OffsetBehindReader'
      <3>1. \A g \in Groups : position[g] \in Nat /\ position[g] <= Len(log)
        BY DEF LogTypes
      <3> QED BY <2>1, <2>2, <3>1 DEF PassedIsSettled, OffsetBehindReader
    <2>4. ASSUME NEW g \in Groups PROVE Ahead(g) \cup {m} \subseteq Ahead(g)'
      <3>1. position[g] \in Nat /\ position[g] <= Len(log) /\ Len(log) \in Nat
        BY DEF LogTypes
      <3>2. Ahead(g)' = {log'[i] : i \in position[g] + 1 .. Len(log) + 1}
        BY <2>1 DEF Ahead
      <3>3. m \in Ahead(g)'
        BY <2>1, <3>1, <3>2
      <3>4. ASSUME NEW i \in position[g] + 1 .. Len(log) PROVE log[i] \in Ahead(g)'
        <4>1. log[i] = log'[i] /\ i \in position[g] + 1 .. Len(log) + 1
          BY <2>1, <3>1
        <4> QED BY <3>2, <4>1
      <3> QED BY <3>3, <3>4 DEF Ahead
    <2> QED BY <2>2, <2>3, <2>4 DEF AccountedFor, Settled
  <1>2. ASSUME NEW g \in Groups, Handle(g) PROVE DeliveryInv'
    <2>1. Ready(g) /\ log' = log /\ committed' = committed
          /\ position' = [position EXCEPT ![g] = @ + 1]
      BY <1>2 DEF Handle, Succeed, Fail, HandlerSucceeds, HandlerFails, Advance
    <2>2. /\ Published' = Published
          /\ \A h \in Groups : Settled(h) \subseteq Settled(h)'
          /\ Fetched(g) \in Settled(g)'
      BY <1>2 DEF Handle, Succeed, Fail, Published, Settled, TypeInv, HistoryTypes
    <2>3. \A h \in Groups : /\ position[h] \in Nat
                            /\ position'[h] = IF h = g THEN position[h] + 1 ELSE position[h]
      BY <2>1 DEF LogTypes
    <2>4. PassedIsSettled'
      BY <2>1, <2>2, <2>3 DEF PassedIsSettled, Fetched
    <2>5. OffsetBehindReader'
      BY <2>1, <2>3 DEF OffsetBehindReader, LogTypes
    <2>6. ASSUME NEW h \in Groups PROVE Ahead(h) \subseteq Ahead(h)' \cup Settled(h)'
      <3>1. ASSUME NEW i \in position[h] + 1 .. Len(log)
            PROVE  log[i] \in Ahead(h)' \cup Settled(h)'
        <4>1. CASE h = g /\ i = position[g] + 1
          BY <2>2, <4>1 DEF Fetched
        <4>2. CASE ~(h = g /\ i = position[g] + 1)
          <5>1. i \in position'[h] + 1 .. Len(log')
            BY <2>1, <2>3, <4>2 DEF LogTypes
          <5> QED BY <2>1, <5>1 DEF Ahead
        <4> QED BY <4>1, <4>2
      <3> QED BY <3>1 DEF Ahead
    <2> QED BY <2>2, <2>4, <2>5, <2>6 DEF AccountedFor, Settled
  <1>3. ASSUME NEW g \in Groups, Commit(g) PROVE DeliveryInv'
    <2>1. /\ log' = log /\ position' = position
          /\ \A h \in Groups : committed'[h] \in {committed[h], position[h]}
          /\ UNCHANGED groupVars
      BY <1>3 DEF Commit, CommitMessages, LogTypes
    <2>2. OffsetBehindReader'
      <3>1. ASSUME NEW h \in Groups PROVE committed'[h] <= position[h]
        <4>1. position[h] \in Nat /\ committed[h] <= position[h]
          BY DEF LogTypes, OffsetBehindReader
        <4> QED BY <2>1, <4>1
      <3> QED BY <2>1, <3>1 DEF OffsetBehindReader
    <2>3. PassedIsSettled' /\ AccountedFor'
      BY <2>1 DEF PassedIsSettled, AccountedFor, Settled, Published, Ahead, groupVars
    <2> QED BY <2>2, <2>3
  <1>4. ASSUME NEW g \in Groups, Rejoin(g) PROVE DeliveryInv'
    <2>1. /\ log' = log /\ committed' = committed /\ Published' = Published
          /\ handled' = handled /\ failed' = failed
          /\ missed' = [missed EXCEPT ![g] =
                          IF committed[g] = NoOffset THEN @ \cup Unread(g) ELSE @]
          /\ \A h \in Groups : position'[h] = IF h = g THEN ResumeAt(g) ELSE position[h]
      BY <1>4 DEF Rejoin, Restart, LogTypes, Published
    <2>2. \A h \in Groups : Settled(h) \subseteq Settled(h)'
      BY <2>1 DEF Settled, TypeInv, HistoryTypes
    <2>3. CASE committed[g] = NoOffset
      <3>1. ResumeAt(g) = Len(log) /\ Len(log) \in Nat
        BY <2>3 DEF ResumeAt, LogTypes
      <3>2. Ahead(g) \subseteq Settled(g)'
        BY <2>1, <2>3 DEF Ahead, Unread, Settled, TypeInv, HistoryTypes
      <3>3. PassedIsSettled'
        <4>1. ASSUME NEW h \in Groups, NEW i \in 1..position'[h]
              PROVE  log[i] \in Settled(h)'
          <5>1. CASE i \in 1..position[h]
            BY <2>2, <5>1 DEF PassedIsSettled
          <5>2. CASE i \notin 1..position[h]
            <6>1. h = g /\ i \in position[g] + 1 .. Len(log)
              BY <2>1, <3>1, <4>1, <5>2 DEF LogTypes
            <6> QED BY <3>2, <6>1 DEF Ahead
          <5> QED BY <5>1, <5>2
        <4> QED BY <2>1, <4>1 DEF PassedIsSettled
      <3>4. OffsetBehindReader'
        BY <2>1, <2>3, <3>1 DEF OffsetBehindReader, LogTypes, NoOffset
      <3>5. ASSUME NEW h \in Groups PROVE Ahead(h) \subseteq Ahead(h)' \cup Settled(h)'
        <4>1. CASE h = g
          BY <3>2, <4>1
        <4>2. CASE h # g
          BY <2>1, <4>2 DEF Ahead
        <4> QED BY <4>1, <4>2
      <3> QED BY <2>1, <2>2, <3>3, <3>4, <3>5 DEF AccountedFor, Settled
    <2>4. CASE committed[g] # NoOffset
      <3>1. ResumeAt(g) = committed[g] /\ committed[g] \in 0..Len(log)
        BY <2>4 DEF ResumeAt, LogTypes
      <3>2. ASSUME NEW h \in Groups
            PROVE  position'[h] \in Nat /\ position'[h] <= position[h]
        <4>1. position[h] \in Nat /\ committed[g] <= position[g]
          BY DEF LogTypes, OffsetBehindReader
        <4>2. position'[h] = IF h = g THEN committed[g] ELSE position[h]
          BY <2>1, <3>1
        <4> QED BY <3>1, <4>1, <4>2
      <3>3. PassedIsSettled'
        BY <2>1, <2>2, <3>2 DEF PassedIsSettled, LogTypes
      <3>4. OffsetBehindReader'
        <4>1. ASSUME NEW h \in Groups PROVE committed[h] <= position'[h]
          <5>1. position'[h] = IF h = g THEN committed[g] ELSE position[h]
            BY <2>1, <3>1
          <5>2. committed[h] <= position[h] /\ committed[g] <= committed[g]
            BY <3>1 DEF OffsetBehindReader
          <5> QED BY <5>1, <5>2
        <4> QED BY <2>1, <4>1 DEF OffsetBehindReader
      <3>5. ASSUME NEW h \in Groups PROVE Ahead(h) \subseteq Ahead(h)'
        <4>1. ASSUME NEW i \in position[h] + 1 .. Len(log) PROVE log[i] \in Ahead(h)'
          <5>1. i \in position'[h] + 1 .. Len(log')
            BY <2>1, <3>2 DEF LogTypes
          <5> QED BY <2>1, <5>1 DEF Ahead
        <4> QED BY <4>1 DEF Ahead
      <3> QED BY <2>1, <2>2, <3>3, <3>4, <3>5 DEF AccountedFor, Settled
    <2> QED BY <2>3, <2>4
  <1>5. CASE Forget /\ UNCHANGED groupVars
    <2>1. /\ Len(log') = Len(log) - 1
          /\ \A i \in 1..Len(log') : log'[i] = log[i + 1]
          /\ \A g \in Groups : position[g] > 0 /\ position'[g] = position[g] - 1
          /\ \A g \in Groups :
                \/ committed[g] = NoOffset /\ committed'[g] = NoOffset
                \/ committed[g] > 0 /\ committed'[g] = committed[g] - 1
      BY <1>5, LogForgets
    <2>2. Published' = Published /\ \A g \in Groups : Settled(g)' = Settled(g)
      BY <1>5 DEF Published, Settled, groupVars
    <2>3. PassedIsSettled'
      <3>1. ASSUME NEW g \in Groups, NEW i \in 1..position'[g] PROVE log'[i] \in Settled(g)
        <4>1. i \in 1..Len(log') /\ i + 1 \in 1..position[g]
          BY <2>1, <3>1 DEF LogTypes
        <4> QED BY <2>1, <4>1 DEF PassedIsSettled
      <3> QED BY <2>2, <3>1 DEF PassedIsSettled
    <2>4. OffsetBehindReader'
      <3>1. ASSUME NEW g \in Groups PROVE committed'[g] <= position'[g]
        <4>1. /\ position[g] \in Nat /\ committed[g] \in Int /\ committed[g] <= position[g]
              /\ position[g] > 0 /\ position'[g] = position[g] - 1
          BY <2>1 DEF OffsetBehindReader, LogTypes
        <4>2. CASE committed'[g] = NoOffset
          BY <4>1, <4>2 DEF NoOffset
        <4>3. CASE committed'[g] = committed[g] - 1
          BY <4>1, <4>3
        <4> QED BY <2>1, <4>2, <4>3
      <3> QED BY <3>1 DEF OffsetBehindReader
    <2>5. ASSUME NEW g \in Groups PROVE Ahead(g) \subseteq Ahead(g)'
      <3>1. ASSUME NEW i \in position[g] + 1 .. Len(log) PROVE log[i] \in Ahead(g)'
        <4>1. i - 1 \in position'[g] + 1 .. Len(log') /\ i - 1 \in 1..Len(log')
          BY <2>1 DEF LogTypes
        <4>2. log'[i - 1] = log[i]
          BY <2>1, <4>1
        <4> QED BY <4>1, <4>2 DEF Ahead
      <3> QED BY <3>1 DEF Ahead
    <2> QED BY <2>2, <2>3, <2>4, <2>5 DEF AccountedFor, Settled
  <1>6. CASE UNCHANGED vars
    BY <1>6 DEF vars, topicVars, groupVars, PassedIsSettled, OffsetBehindReader,
                AccountedFor, Settled, Published, Ahead
  <1> QED BY <1>1, <1>2, <1>3, <1>4, <1>5, <1>6 DEF Next

(* No published message vanishes: a group will still be handed it, or has    *)
(* handled it, or failed on it, or started after it without an offset.       *)
THEOREM NothingVanishes == Spec => []AccountedFor
<1>1. QED BY DeliveryInit, DeliveryStep, PTL DEF Spec, DeliveryInv

(* The committed offset never covers what the handler has not been given.    *)
THEOREM OffsetFollowsHandler == Spec => []OffsetBehindHandler
<1>1. DeliveryInv => OffsetBehindHandler
  <2> SUFFICES ASSUME DeliveryInv, NEW g \in Groups
               PROVE  /\ committed[g] <= position[g]
                      /\ \A i \in 1..committed[g] : log[i] \in Settled(g)
    BY DEF OffsetBehindHandler, Settled
  <2>1. committed[g] \in Int /\ position[g] \in Nat /\ committed[g] <= position[g]
    BY DEF DeliveryInv, OffsetBehindReader, TypeInv, LogTypes
  <2> QED BY <2>1 DEF DeliveryInv, PassedIsSettled
<1>2. QED BY <1>1, DeliveryInit, DeliveryStep, PTL DEF Spec

-----------------------------------------------------------------------------
(* A message is in the log once and was unsent before: what the modules that *)
(* count what handlers do with a message rest on.                            *)
SentOnce ==
    /\ \A i, j \in 1..Len(log) : log[i] = log[j] => i = j
    /\ \A m \in unsent, i \in 1..Len(log) : log[i] # m

LEMMA OnceInit == Init => SentOnce
  BY DEF Init, TopicInit, SentOnce

LEMMA OnceStep == TypeInv /\ SentOnce /\ [Next]_vars => SentOnce'
  <1> SUFFICES ASSUME TypeInv, SentOnce, [Next]_vars PROVE SentOnce'
    OBVIOUS
  <1>a. LogTypes /\ Len(log) \in Nat
    BY DEF TypeInv, LogTypes
  <1>1. ASSUME NEW m \in Messages, Send(m) PROVE SentOnce'
    <2>1. /\ Len(log') = Len(log) + 1
          /\ \A i \in 1..Len(log) : log'[i] = log[i]
          /\ log'[Len(log) + 1] = m
          /\ m \in unsent /\ unsent' = unsent \ {m}
      BY <1>1, <1>a, LogAppends DEF Send
    <2> QED BY <1>a, <2>1 DEF SentOnce
  <1>2. CASE log' = log /\ unsent' = unsent
    BY <1>2 DEF SentOnce
  <1>3. CASE Forget /\ UNCHANGED groupVars
    <2>1. /\ Len(log') = Len(log) - 1 /\ Len(log') \in Nat
          /\ \A i \in 1..Len(log') : log'[i] = log[i + 1]
          /\ unsent' = unsent
      BY <1>3, <1>a, LogForgets DEF LogTypes, groupVars
    <2>2. \A i \in 1..Len(log') : i + 1 \in 1..Len(log) /\ log'[i] = log[i + 1]
      BY <1>a, <2>1
    <2>3. ASSUME NEW i \in 1..Len(log'), NEW j \in 1..Len(log'), log'[i] = log'[j]
          PROVE  i = j
      <3>1. i + 1 = j + 1
        BY <2>2, <2>3 DEF SentOnce
      <3> QED BY <3>1
    <2>4. ASSUME NEW m \in unsent, NEW i \in 1..Len(log') PROVE log'[i] # m
      BY <2>2 DEF SentOnce
    <2> QED BY <2>1, <2>3, <2>4 DEF SentOnce
  <1>4. ASSUME NEW g \in Groups, Handle(g) \/ Commit(g) \/ Rejoin(g)
        PROVE  log' = log /\ unsent' = unsent
    BY <1>4 DEF Handle, Succeed, Fail, HandlerSucceeds, HandlerFails, Commit, CommitMessages,
                Rejoin, Restart, groupVars
  <1> QED BY <1>1, <1>2, <1>3, <1>4 DEF Next, vars, topicVars, groupVars
=============================================================================
