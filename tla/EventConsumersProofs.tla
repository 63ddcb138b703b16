----------------------- MODULE EventConsumersProofs -----------------------
(***************************************************************************)
(* Proofs about EventConsumers, for any events, cards, limit of payments,  *)
(* restarts and errors.                                                    *)
(***************************************************************************)
EXTENDS EventConsumers, ConsumerGroupProofs, FiniteSetTheorems

-----------------------------------------------------------------------------
(* Every step of the two services is one of the consumers, or none. *)
LEMMA WatchRefines == [WatchNext]_watchVars => [Next]_vars
  <1> SUFFICES ASSUME [WatchNext]_watchVars PROVE [Next]_vars
    OBVIOUS
  <1> Fraud \in Groups /\ Warehouse \in Groups
    BY WatchersAssumption
  <1>1. CASE FraudWork
    BY <1>1 DEF FraudWork, SkipEvent, Incr, Expire, UpdateRisk, Next, Handle
  <1>2. CASE WarehouseWork
    BY <1>2 DEF WarehouseWork, ArchiveLine, OpenFails, WriteFails, Next, Handle
  <1>3. CASE RestartFraud \/ RestartWarehouse
    BY <1>3 DEF RestartFraud, RestartWarehouse, Next
  <1>4. ASSUME Midnight \/ \E t \in Tokens : WindowEnds(t) PROVE UNCHANGED vars
    BY <1>4 DEF Midnight, WindowEnds
  <1>5. CASE \/ \E m \in Messages : Send(m)
             \/ \E g \in Groups : Commit(g)
             \/ Forget /\ UNCHANGED groupVars
    BY <1>5 DEF Next
  <1>6. CASE UNCHANGED watchVars
    BY <1>6 DEF watchVars
  <1> QED BY <1>1, <1>2, <1>3, <1>4, <1>5, <1>6 DEF WatchNext

(* Fraud and the data warehouse are consumers like any other. *)
THEOREM WatchersAreConsumers == WatchSpec => Spec
<1>1. WatchInit => Init
  BY DEF WatchInit
<1>2. QED BY <1>1, WatchRefines, PTL DEF WatchSpec, Spec

(* So no event vanishes before they have had it, or failed on it. *)
THEOREM EventsAccountedFor == WatchSpec => []AccountedFor
<1>1. QED BY WatchersAreConsumers, NothingVanishes, PTL

-----------------------------------------------------------------------------
(* The log under a reader that has not moved. *)
Keeps(g) == Ready(g) => Ready(g)' /\ Fetched(g)' = Fetched(g)

LEMMA LogKeeps ==
    ASSUME LogTypes, NEW g \in Groups,
           \/ \E m \in Messages : Send(m)
           \/ \E h \in Groups : Commit(h)
           \/ \E h \in Groups \ {g} : Succeed(h) \/ Fail(h) \/ Rejoin(h)
           \/ Forget
           \/ UNCHANGED vars
    PROVE  Keeps(g)
  <1> SUFFICES ASSUME Ready(g) PROVE Ready(g)' /\ Fetched(g)' = Fetched(g)
    BY DEF Keeps
  <1>a. ~acking[g] /\ position[g] \in Nat /\ position[g] < Len(log) /\ Len(log) \in Nat
    BY DEF Ready, LogTypes
  <1>1. ASSUME NEW m \in Messages, Send(m) PROVE Ready(g)' /\ Fetched(g)' = Fetched(g)
    <2>1. /\ Len(log') = Len(log) + 1 /\ \A i \in 1..Len(log) : log'[i] = log[i]
          /\ position' = position /\ acking' = acking
      BY <1>1, LogAppends DEF Send, Publish
    <2> QED BY <1>a, <2>1 DEF Ready, Fetched
  <1>2. ASSUME NEW h \in Groups, Commit(h) PROVE Ready(g)' /\ Fetched(g)' = Fetched(g)
    BY <1>a, <1>2 DEF Commit, CommitMessages, Ready, Fetched, LogTypes
  <1>3. ASSUME NEW h \in Groups \ {g}, Succeed(h) \/ Fail(h) \/ Rejoin(h)
        PROVE  Ready(g)' /\ Fetched(g)' = Fetched(g)
    <2>1. log' = log /\ position'[g] = position[g] /\ acking'[g] = acking[g]
      BY <1>3 DEF Succeed, Fail, HandlerSucceeds, HandlerFails, Advance, Rejoin, Restart, LogTypes
    <2> QED BY <1>a, <2>1 DEF Ready, Fetched
  <1>4. CASE Forget
    <2>1. /\ Len(log') = Len(log) - 1 /\ \A i \in 1..Len(log') : log'[i] = log[i + 1]
          /\ position[g] > 0 /\ position'[g] = position[g] - 1 /\ acking' = acking
      BY <1>4, LogForgets DEF Forget
    <2> QED BY <1>a, <2>1 DEF Ready, Fetched
  <1>5. CASE UNCHANGED vars
    BY <1>a, <1>5 DEF vars, topicVars, Ready, Fetched
  <1> QED BY <1>1, <1>2, <1>3, <1>4, <1>5

(* What fraud sees of a step that is not its own: a restart of the warehouse *)
(* and the end of a window apart, nothing.                                   *)
LEMMA FraudUndisturbed ==
    ASSUME LogTypes,
           \/ WarehouseWork \/ RestartWarehouse \/ Midnight
           \/ \E t \in Tokens : WindowEnds(t)
           \/ /\ \/ \E m \in Messages : Send(m)
                 \/ \E g \in Groups : Commit(g)
                 \/ Forget /\ UNCHANGED groupVars
              /\ UNCHANGED <<fraudVars, archiveVars>>
           \/ UNCHANGED watchVars
    PROVE  Keeps(Fraud) /\ UNCHANGED <<token, step, attempts, risk, errors, lost>>
  <1>1. Fraud \in Groups /\ Warehouse \in Groups \ {Fraud}
    BY WatchersAssumption
  <1>2. UNCHANGED <<token, step, attempts, risk, errors, lost>>
    BY DEF WarehouseWork, ArchiveLine, OpenFails, WriteFails, RestartWarehouse, Midnight,
           WindowEnds, fraudVars, mishapVars, watchVars
  <1>3. Keeps(Fraud)
    <2>1. CASE WarehouseWork \/ RestartWarehouse
      BY <1>1, <2>1, LogKeeps
      DEF WarehouseWork, ArchiveLine, OpenFails, WriteFails, RestartWarehouse
    <2>2. CASE Midnight \/ (\E t \in Tokens : WindowEnds(t)) \/ UNCHANGED watchVars
      <3>1. UNCHANGED vars
        BY <2>2 DEF Midnight, WindowEnds, watchVars
      <3> QED BY <1>1, <3>1, LogKeeps
    <2>3. CASE \/ \E m \in Messages : Send(m)
               \/ \E g \in Groups : Commit(g)
               \/ Forget /\ UNCHANGED groupVars
      BY <1>1, <2>3, LogKeeps
    <2> QED BY <2>1, <2>2, <2>3
  <1> QED BY <1>2, <1>3

-----------------------------------------------------------------------------
(* While the handler is between two calls, its event is still the fetched one. *)
FraudTypes ==
    /\ token \in [Messages -> Tokens \cup {NotScored}]
    /\ counter \in [Tokens -> Nat]
    /\ ttl \subseteq Tokens
    /\ step \in {"Incr", "Expire", "Update"}
    /\ attempts \in Nat
    /\ errors \in Nat /\ lost \in Nat
    /\ step # "Incr" => Ready(Fraud) /\ Card \in Tokens

WatchTypes == TypeInv /\ FraudTypes

LEMMA WatchTypesInit == WatchInit => WatchTypes
  BY TypeInit DEF WatchInit, WatchTypes, FraudTypes

LEMMA IncrMeans ==
    ASSUME WatchTypes, Incr
    PROVE  /\ Event \in Messages /\ Card \in Tokens /\ Ready(Fraud)
           /\ UNCHANGED <<vars, token, ttl, ended, risk, archiveVars>>
           /\ step = "Incr" /\ step' \in {"Incr", "Expire", "Update"}
           /\ attempts' \in Nat /\ counter' \in [Tokens -> Nat]
           /\ \A t \in Tokens \ {Card} : counter'[t] = counter[t]
           /\ Card' = Card /\ Ready(Fraud)'
           /\ counter'[Card] \in {counter[Card], counter[Card] + 1}
           /\ \/ /\ counter'[Card] = counter[Card] + 1 /\ attempts' = counter'[Card]
                 /\ step' \in {"Expire", "Update"} /\ (step' = "Expire" <=> attempts' = 1)
                 /\ errors' = errors /\ lost' = lost
              \/ /\ step' = "Incr" /\ attempts' = attempts
                 /\ errors' = errors /\ lost' = lost + 1
              \/ /\ step' = "Update" /\ attempts' = 0
                 /\ errors' = errors + 1 /\ lost' = lost
  <1>1. Fraud \in Groups /\ Ready(Fraud) /\ Card # NotScored /\ step = "Incr"
    BY WatchersAssumption DEF Incr
  <1>2. Event \in Messages /\ Card \in Tokens
    BY <1>1, FetchedType DEF WatchTypes, TypeInv, FraudTypes, Event, Card
  <1>3. UNCHANGED <<vars, token, ttl, ended, risk, archiveVars>>
    BY DEF Incr
  <1>4. Card' = Card /\ Ready(Fraud)'
    BY <1>1, <1>3 DEF vars, topicVars, Ready, Card, Event, Fetched
  <1>5. counter \in [Tokens -> Nat] /\ attempts \in Nat
    BY DEF WatchTypes, FraudTypes
  <1>6. ASSUME Bump \/ UNCHANGED counter
        PROVE  /\ counter' \in [Tokens -> Nat]
               /\ \A t \in Tokens \ {Card} : counter'[t] = counter[t]
               /\ counter'[Card] \in {counter[Card], counter[Card] + 1}
    <2>1. CASE Bump
      BY <1>2, <1>5, <2>1 DEF Bump
    <2>2. CASE UNCHANGED counter
      BY <1>2, <1>5, <2>2
    <2> QED BY <1>6, <2>1, <2>2
  <1>7. CASE Answered
    <2>1. Bump /\ attempts' = counter'[Card] /\ UNCHANGED <<errors, lost>>
      BY <1>7 DEF Answered, mishapVars
    <2>2. counter'[Card] = counter[Card] + 1 /\ attempts' \in Nat
      BY <1>2, <1>5, <2>1 DEF Bump
    <2>3. step' \in {"Expire", "Update"} /\ (step' = "Expire" <=> attempts' = 1)
      BY <1>7 DEF Answered, FirstAttempt
    <2> QED BY <1>1, <1>2, <1>3, <1>4, <1>6, <2>1, <2>2, <2>3
  <1>8. CASE SentAgain
    <2>1. /\ Bump \/ UNCHANGED counter
          /\ step' = "Incr" /\ attempts' = attempts
          /\ errors' = errors /\ lost' = lost + 1
      BY <1>1, <1>8 DEF SentAgain
    <2> QED BY <1>1, <1>2, <1>3, <1>4, <1>5, <1>6, <2>1
  <1>9. CASE GivesUp
    <2>1. /\ Bump \/ UNCHANGED counter
          /\ step' = "Update" /\ attempts' = 0
          /\ errors' = errors + 1 /\ lost' = lost
      BY <1>9 DEF GivesUp
    <2> QED BY <1>1, <1>2, <1>3, <1>4, <1>6, <2>1
  <1> QED BY <1>7, <1>8, <1>9 DEF Incr

LEMMA WatchTypesStep == WatchTypes /\ [WatchNext]_watchVars => WatchTypes'
  <1> SUFFICES ASSUME WatchTypes, [WatchNext]_watchVars PROVE WatchTypes'
    OBVIOUS
  <1>a. TypeInv /\ TypeInv' /\ LogTypes
    BY WatchRefines, TypeStep DEF WatchTypes, TypeInv
  <1>b. FraudTypes
    BY DEF WatchTypes
  <1>1. CASE SkipEvent \/ UpdateRisk \/ RestartFraud
    <2>1. /\ step' = "Incr" /\ attempts' \in Nat /\ UNCHANGED <<token, redisVars, errors, lost>>
      BY <1>1, <1>b DEF SkipEvent, UpdateRisk, RestartFraud, fraudVars, mishapVars, FraudTypes
    <2> QED BY <1>a, <1>b, <2>1 DEF FraudTypes, WatchTypes, redisVars
  <1>2. CASE Incr
    BY <1>a, <1>b, <1>2, IncrMeans DEF FraudTypes, WatchTypes
  <1>3. CASE Expire
    <2>1. /\ step = "Expire" /\ step' = "Update" /\ UNCHANGED <<vars, token, counter, attempts, lost>>
          /\ ttl' \subseteq ttl \cup {Card} /\ errors' \in {errors, errors + 1}
      BY <1>3 DEF Expire
    <2>2. Ready(Fraud)' /\ Card' = Card /\ Card \in Tokens
      BY <1>b, <2>1 DEF FraudTypes, vars, topicVars, Ready, Card, Event, Fetched
    <2> QED BY <1>a, <1>b, <2>1, <2>2 DEF FraudTypes, WatchTypes
  <1>4. ASSUME Keeps(Fraud) /\ UNCHANGED <<token, step, attempts, risk, errors, lost>>,
               counter' \in [Tokens -> Nat], ttl' \subseteq Tokens
        PROVE  WatchTypes'
    <2>1. step # "Incr" => Ready(Fraud)' /\ Card' \in Tokens
      BY <1>b, <1>4 DEF FraudTypes, Keeps, Card, Event
    <2> QED BY <1>a, <1>b, <1>4, <2>1 DEF FraudTypes, WatchTypes
  <1>5. ASSUME NEW t \in Tokens, WindowEnds(t)
        PROVE  counter' \in [Tokens -> Nat] /\ ttl' \subseteq Tokens
    BY <1>b, <1>5 DEF WindowEnds, FraudTypes
  <1>6. CASE WarehouseWork \/ RestartWarehouse \/ Midnight
    <2>1. UNCHANGED <<counter, ttl>>
      BY <1>6 DEF WarehouseWork, ArchiveLine, OpenFails, WriteFails, RestartWarehouse, Midnight,
                  fraudVars, redisVars
    <2> QED BY <1>a, <1>b, <1>4, <1>6, <2>1, FraudUndisturbed DEF FraudTypes
  <1>7. CASE \E t \in Tokens : WindowEnds(t)
    BY <1>a, <1>4, <1>5, <1>7, FraudUndisturbed
  <1>8. CASE \/ /\ \/ \E m \in Messages : Send(m)
                   \/ \E g \in Groups : Commit(g)
                   \/ Forget /\ UNCHANGED groupVars
                /\ UNCHANGED <<fraudVars, archiveVars>>
             \/ UNCHANGED watchVars
    <2>1. UNCHANGED <<counter, ttl>>
      BY <1>8 DEF fraudVars, redisVars, watchVars
    <2> QED BY <1>a, <1>b, <1>4, <1>8, <2>1, FraudUndisturbed DEF FraudTypes
  <1> QED BY <1>1, <1>2, <1>3, <1>6, <1>7, <1>8 DEF WatchNext, FraudWork

-----------------------------------------------------------------------------
(***************************************************************************)
(* Eternal counters.  One appears only when a restart or an error comes    *)
(* between INCR and EXPIRE or the client repeats an INCR, and then it is   *)
(* that of the event in hand.                                              *)
(***************************************************************************)
EternalInv == WatchTypes /\ IsFiniteSet(Eternal) /\ EternalCountersBounded

Mishaps == restarts + errors + lost

LEMMA SumGrows ==
    ASSUME NEW a \in Nat, NEW b \in Nat, NEW c \in Nat,
           NEW x \in Nat, NEW y \in Nat, NEW z \in Nat, x >= a, y >= b, z >= c
    PROVE  /\ a + b + c \in Nat /\ x + y + z \in Nat
           /\ x + y + z >= a + b + c
           /\ x >= a + 1 \/ y >= b + 1 \/ z >= c + 1 => x + y + z >= a + b + c + 1
  OBVIOUS

LEMMA EternalGrows ==
    ASSUME IsFiniteSet(Eternal), Cardinality(Eternal) <= Mishaps,
           Mishaps \in Nat, Mishaps' \in Nat,
           \/ Eternal' \subseteq Eternal /\ Mishaps' >= Mishaps
           \/ /\ \E t : Eternal' \subseteq Eternal \cup {t}
              /\ Mishaps' >= Mishaps + 1
    PROVE  IsFiniteSet(Eternal)' /\ Cardinality(Eternal)' <= Mishaps'
  <1>1. Cardinality(Eternal) \in Nat
    BY FS_CardinalityType
  <1>2. CASE Eternal' \subseteq Eternal /\ Mishaps' >= Mishaps
    <2>1. IsFiniteSet(Eternal') /\ Cardinality(Eternal') <= Cardinality(Eternal)
      BY <1>2, FS_Subset
    <2>2. Cardinality(Eternal') \in Nat
      BY <2>1, FS_CardinalityType
    <2> QED BY <1>1, <1>2, <2>1, <2>2
  <1>3. ASSUME NEW t, Eternal' \subseteq Eternal \cup {t}, Mishaps' >= Mishaps + 1
        PROVE  IsFiniteSet(Eternal)' /\ Cardinality(Eternal)' <= Mishaps'
    <2>1. IsFiniteSet(Eternal \cup {t})
      BY FS_AddElement
    <2>2. /\ Cardinality(Eternal \cup {t}) = Cardinality(Eternal)
             \/ Cardinality(Eternal \cup {t}) = Cardinality(Eternal) + 1
      BY FS_AddElement
    <2>3. IsFiniteSet(Eternal') /\ Cardinality(Eternal') <= Cardinality(Eternal \cup {t})
      BY <1>3, <2>1, FS_Subset
    <2>4. Cardinality(Eternal') \in Nat /\ Cardinality(Eternal \cup {t}) \in Nat
      BY <2>1, <2>3, FS_CardinalityType
    <2> QED BY <1>1, <1>3, <2>2, <2>3, <2>4
  <1> QED BY <1>2, <1>3

LEMMA EternalInit == WatchInit => EternalInv
  <1> SUFFICES ASSUME WatchInit PROVE EternalInv
    OBVIOUS
  <1>1. Eternal = {} /\ restarts = 0 /\ errors = 0 /\ lost = 0
    BY DEF WatchInit, Init, Eternal
  <1>2. IsFiniteSet({}) /\ Cardinality({}) = 0
    BY FS_EmptySet
  <1> QED BY <1>1, <1>2, WatchTypesInit DEF EternalInv, EternalCountersBounded

LEMMA EternalStep == EternalInv /\ [WatchNext]_watchVars => EternalInv'
  <1> SUFFICES ASSUME EternalInv, [WatchNext]_watchVars PROVE EternalInv'
    OBVIOUS
  <1>a. WatchTypes /\ WatchTypes' /\ TypeInv /\ LogTypes /\ FraudTypes /\ FraudTypes'
    BY WatchTypesStep DEF EternalInv, WatchTypes, TypeInv
  <1>b. /\ restarts \in Nat /\ restarts' \in Nat /\ errors \in Nat /\ errors' \in Nat
        /\ lost \in Nat /\ lost' \in Nat
    BY <1>a, RestartAssumption DEF WatchTypes, TypeInv, HistoryTypes, FraudTypes
  <1>d. ASSUME restarts' >= restarts, errors' >= errors, lost' >= lost,
               \/ Eternal' \subseteq Eternal
               \/ /\ \E t : Eternal' \subseteq Eternal \cup {t}
                  /\ restarts' >= restarts + 1 \/ errors' >= errors + 1 \/ lost' >= lost + 1
        PROVE  EternalInv'
    <2>1. /\ Mishaps \in Nat /\ Mishaps' \in Nat /\ Mishaps' >= Mishaps
          /\ restarts' >= restarts + 1 \/ errors' >= errors + 1 \/ lost' >= lost + 1
                => Mishaps' >= Mishaps + 1
      BY <1>b, <1>d, SumGrows, Zenon DEF Mishaps
    <2>2. IsFiniteSet(Eternal) /\ Cardinality(Eternal) <= Mishaps
      BY DEF EternalInv, EternalCountersBounded, Mishaps
    <2>3. IsFiniteSet(Eternal)' /\ Cardinality(Eternal)' <= Mishaps'
      BY <1>d, <2>1, <2>2, EternalGrows
    <2> QED BY <1>a, <2>3 DEF EternalInv, EternalCountersBounded, Mishaps
  <1>1. CASE Incr
    <2>1. /\ Card \in Tokens /\ Card' = Card /\ step = "Incr" /\ ttl' = ttl
          /\ \A t \in Tokens \ {Card} : counter'[t] = counter[t]
          /\ restarts' = restarts
      BY <1>a, <1>1, IncrMeans DEF vars, groupVars
    <2>2. Eternal' \subseteq Eternal \cup {Card}
      BY <2>1 DEF Eternal
    <2>3. CASE \/ errors' = errors + 1 /\ lost' = lost
               \/ errors' = errors /\ lost' = lost + 1
      BY <1>b, <1>d, <2>1, <2>2, <2>3
    <2>4. CASE errors' = errors /\ lost' = lost
      <3>1. /\ counter'[Card] = counter[Card] + 1
            /\ step' = "Expire" <=> counter'[Card] = 1
        BY <1>a, <1>b, <1>1, <2>4, IncrMeans
      <3>2. counter[Card] \in Nat
        BY <1>a, <2>1 DEF FraudTypes
      <3>3. Card \in Eternal' => Card \in Eternal
        BY <2>1, <3>1, <3>2 DEF Eternal
      <3>4. Eternal' \subseteq Eternal
        BY <2>2, <3>3
      <3> QED BY <1>b, <1>d, <2>1, <2>4, <3>4
    <2>5. \/ errors' = errors + 1 /\ lost' = lost
          \/ errors' = errors /\ lost' = lost + 1
          \/ errors' = errors /\ lost' = lost
      BY <1>a, <1>1, IncrMeans
    <2> QED BY <2>3, <2>4, <2>5
  <1>2. CASE Expire
    <2>1. /\ step = "Expire" /\ step' = "Update" /\ counter' = counter
          /\ UNCHANGED <<log, position, token, restarts, lost>>
          /\ \/ ttl' = ttl \cup {Card} /\ errors' = errors
             \/ ttl' = ttl /\ errors' = errors + 1
      BY <1>2 DEF Expire, vars, topicVars, groupVars
    <2>2. Eternal' \subseteq Eternal \cup {Card}
      BY <2>1 DEF Eternal
    <2>3. CASE errors' = errors + 1
      BY <1>b, <1>d, <2>1, <2>2, <2>3
    <2>4. CASE ttl' = ttl \cup {Card} /\ errors' = errors
      <3>1. Eternal' \subseteq Eternal
        BY <2>2, <2>4 DEF Eternal
      <3> QED BY <1>b, <1>d, <2>1, <2>4, <3>1
    <2> QED BY <2>1, <2>3, <2>4
  <1>3. CASE SkipEvent \/ UpdateRisk
    <2>1. /\ step # "Expire" /\ step' # "Expire" /\ UNCHANGED <<counter, ttl, errors, lost, restarts>>
      BY <1>3 DEF SkipEvent, UpdateRisk, fraudVars, redisVars, mishapVars, Succeed, Fail
    <2>2. Eternal' \subseteq Eternal
      BY <2>1 DEF Eternal
    <2> QED BY <1>b, <1>d, <2>1, <2>2
  <1>4. CASE RestartFraud
    <2>1. /\ step' = "Incr" /\ UNCHANGED <<counter, ttl, errors, lost>> /\ restarts' = restarts + 1
      BY <1>4 DEF RestartFraud, redisVars, mishapVars, Rejoin
    <2>2. Eternal' \subseteq Eternal \cup {Card}
      BY <2>1 DEF Eternal
    <2> QED BY <1>b, <1>d, <2>1, <2>2
  (* The other steps keep the event in hand and its card. *)
  <1>5. ASSUME Keeps(Fraud), UNCHANGED <<token, step, attempts, risk, errors, lost>>,
               restarts' >= restarts,
               \A t \in Tokens : \/ counter'[t] = counter[t] /\ (t \in ttl' <=> t \in ttl)
                                 \/ counter'[t] = 0
        PROVE  EternalInv'
    <2>1. step = "Expire" => Card' = Card
      BY <1>a, <1>5 DEF FraudTypes, Keeps, Card, Event
    <2>2. Eternal' \subseteq Eternal
      BY <1>5, <2>1 DEF Eternal
    <2> QED BY <1>b, <1>5, <1>d, <2>2
  <1>6. CASE WarehouseWork \/ RestartWarehouse \/ Midnight
    <2>1. UNCHANGED <<counter, ttl>> /\ restarts' \in {restarts, restarts + 1}
      BY <1>6 DEF WarehouseWork, ArchiveLine, OpenFails, WriteFails, RestartWarehouse, Midnight,
                  Succeed, Fail, Rejoin, fraudVars, redisVars, vars, groupVars
    <2> QED BY <1>a, <1>b, <1>5, <1>6, <2>1, FraudUndisturbed
  <1>7. CASE \E t \in Tokens : WindowEnds(t)
    <2>1. restarts' = restarts
      BY <1>7 DEF WindowEnds, vars, groupVars
    <2>2. \A t \in Tokens : \/ counter'[t] = counter[t] /\ (t \in ttl' <=> t \in ttl)
                            \/ counter'[t] = 0
      BY <1>a, <1>7 DEF WindowEnds, FraudTypes
    <2> QED BY <1>a, <1>b, <1>5, <1>7, <2>1, <2>2, FraudUndisturbed
  <1>8. CASE \/ /\ \/ \E m \in Messages : Send(m)
                   \/ \E g \in Groups : Commit(g)
                   \/ Forget /\ UNCHANGED groupVars
                /\ UNCHANGED <<fraudVars, archiveVars>>
             \/ UNCHANGED watchVars
    <2>1. UNCHANGED <<counter, ttl>> /\ restarts' = restarts
      BY <1>8 DEF fraudVars, redisVars, watchVars, vars, groupVars, Send, Commit
    <2> QED BY <1>a, <1>b, <1>5, <1>8, <2>1, FraudUndisturbed
  <1> QED BY <1>1, <1>2, <1>3, <1>4, <1>6, <1>7, <1>8 DEF WatchNext, FraudWork

(* Each restart, each error of Redis and each repeated INCR leaves at most   *)
(* one counter without an expiry, for any number of cards and payments       *)
(* (fraud_service.go:54-58, redis.go:18-23).                                 *)
THEOREM EternalBounded == WatchSpec => []EternalCountersBounded
<1>1. QED BY EternalInit, EternalStep, PTL DEF WatchSpec, EternalInv

-----------------------------------------------------------------------------
(***************************************************************************)
(* The archive.  What a step of the warehouse does to it; all other steps  *)
(* leave it alone.  A torn line is a loss to come: the invariant counts it *)
(* with the lines that are already unreadable.                             *)
(***************************************************************************)
Lost == {m \in handled[Warehouse] : lines[m] = 0}
ToCome == IF torn THEN 1 ELSE 0

ArchiveTypes ==
    /\ lines \in [Messages -> Nat]
    /\ torn \in BOOLEAN
    /\ tears \in Nat

LossInv ==
    /\ TypeInv /\ ArchiveTypes
    /\ IsFiniteSet(Lost)
    /\ Cardinality(Lost) + ToCome <= tears

LEMMA ArchiveLeftAlone ==
    ASSUME LogTypes, HistoryTypes,
           \/ FraudWork \/ RestartFraud \/ (\E t \in Tokens : WindowEnds(t))
           \/ /\ \/ \E m \in Messages : Send(m)
                 \/ \E g \in Groups : Commit(g)
                 \/ Forget /\ UNCHANGED groupVars
              /\ UNCHANGED <<fraudVars, archiveVars>>
           \/ UNCHANGED watchVars
    PROVE  /\ UNCHANGED <<lines, torn, tears>>
           /\ handled'[Warehouse] = handled[Warehouse]
  <1>1. Fraud # Warehouse /\ Fraud \in Groups /\ Warehouse \in Groups
    BY WatchersAssumption
  <1>2. CASE FraudWork \/ RestartFraud
    <2>1. UNCHANGED archiveVars
      BY <1>2 DEF FraudWork, SkipEvent, Incr, Expire, UpdateRisk, RestartFraud
    <2>2. Succeed(Fraud) \/ Fail(Fraud) \/ Rejoin(Fraud) \/ UNCHANGED vars
      BY <1>2 DEF FraudWork, SkipEvent, Incr, Expire, UpdateRisk, RestartFraud
    <2>3. handled'[Warehouse] = handled[Warehouse]
      <3>1. CASE Succeed(Fraud)
        BY <1>1, <3>1 DEF Succeed, HandlerSucceeds, HistoryTypes
      <3>2. CASE Fail(Fraud) \/ Rejoin(Fraud) \/ UNCHANGED vars
        BY <3>2 DEF Fail, Rejoin, vars, groupVars
      <3> QED BY <2>2, <3>1, <3>2
    <2> QED BY <2>1, <2>3 DEF archiveVars
  <1>3. CASE (\E t \in Tokens : WindowEnds(t)) \/ UNCHANGED watchVars
    BY <1>3 DEF WindowEnds, watchVars, archiveVars, vars, groupVars
  <1>4. CASE /\ \/ \E m \in Messages : Send(m)
                \/ \E g \in Groups : Commit(g)
                \/ Forget /\ UNCHANGED groupVars
             /\ UNCHANGED <<fraudVars, archiveVars>>
    BY <1>4 DEF Send, Commit, groupVars, archiveVars
  <1> QED BY <1>2, <1>3, <1>4

LEMMA LossInit == WatchInit => LossInv
  <1> SUFFICES ASSUME WatchInit PROVE LossInv
    OBVIOUS
  <1>1. Lost = {} /\ ToCome = 0 /\ tears = 0 /\ TypeInv
    BY TypeInit, WatchersAssumption DEF WatchInit, Init, Nothing, Lost, ToCome
  <1>2. IsFiniteSet({}) /\ Cardinality({}) = 0
    BY FS_EmptySet
  <1>3. ArchiveTypes
    BY DEF WatchInit, ArchiveTypes
  <1>4. Cardinality(Lost) + ToCome <= tears
    BY <1>1, <1>2
  <1> QED BY <1>1, <1>2, <1>3, <1>4 DEF LossInv

LEMMA LossStep == LossInv /\ [WatchNext]_watchVars => LossInv'
  <1> SUFFICES ASSUME LossInv, [WatchNext]_watchVars PROVE LossInv'
    OBVIOUS
  <1>a. TypeInv /\ TypeInv' /\ LogTypes /\ HistoryTypes /\ ArchiveTypes /\ Warehouse \in Groups
    BY WatchRefines, TypeStep, WatchersAssumption DEF LossInv, TypeInv
  <1>b. IsFiniteSet(Lost) /\ Cardinality(Lost) \in Nat /\ Cardinality(Lost) + ToCome <= tears
    BY FS_CardinalityType DEF LossInv
  <1>c. ASSUME Lost' \subseteq Lost
        PROVE  IsFiniteSet(Lost)' /\ Cardinality(Lost)' \in Nat /\ Cardinality(Lost)' <= Cardinality(Lost)
    <2>1. IsFiniteSet(Lost') /\ Cardinality(Lost') <= Cardinality(Lost)
      BY <1>b, <1>c, FS_Subset
    <2> QED BY <2>1, FS_CardinalityType
  <1>1. CASE ArchiveLine
    <2>1. /\ Record \in Messages
          /\ handled'[Warehouse] = handled[Warehouse] \cup {Record}
          /\ lines' = IF torn THEN lines ELSE [lines EXCEPT ![Record] = @ + 1]
          /\ torn' = FALSE /\ tears' = tears
      BY <1>1, <1>a, FetchedType
      DEF ArchiveLine, Succeed, HandlerSucceeds, Record, HistoryTypes
    <2>2. ArchiveTypes' /\ ToCome' = 0
      <3>1. lines' \in [Messages -> Nat]
        <4>1. CASE torn
          BY <1>a, <2>1, <4>1 DEF ArchiveTypes
        <4>2. CASE ~torn
          BY <1>a, <2>1, <4>2 DEF ArchiveTypes
        <4> QED BY <4>1, <4>2
      <3>2. torn' \in BOOLEAN /\ tears' \in Nat /\ ToCome' = 0
        BY <1>a, <2>1, Zenon DEF ArchiveTypes, ToCome
      <3> QED BY <3>1, <3>2, Zenon DEF ArchiveTypes
    <2>3. CASE torn
      <3>1. Lost' \subseteq Lost \cup {Record} /\ ToCome = 1
        BY <2>1, <2>3 DEF Lost, ToCome
      <3>2. /\ IsFiniteSet(Lost \cup {Record})
            /\ \/ Cardinality(Lost \cup {Record}) = Cardinality(Lost)
               \/ Cardinality(Lost \cup {Record}) = Cardinality(Lost) + 1
        BY <1>b, FS_AddElement
      <3>3. IsFiniteSet(Lost') /\ Cardinality(Lost') <= Cardinality(Lost \cup {Record})
        BY <3>1, <3>2, FS_Subset
      <3>4. Cardinality(Lost') \in Nat /\ Cardinality(Lost \cup {Record}) \in Nat
        BY <3>2, <3>3, FS_CardinalityType
      <3>5. Cardinality(Lost') <= Cardinality(Lost) + 1
        BY <1>b, <3>2, <3>3, <3>4
      <3>6. Cardinality(Lost') + 0 <= tears
        BY <1>a, <1>b, <3>1, <3>4, <3>5 DEF ArchiveTypes
      <3> QED BY <1>a, <2>1, <2>2, <3>3, <3>6 DEF LossInv
    <2>4. CASE ~torn
      <3>1. Lost' \subseteq Lost
        <4>1. lines'[Record] > 0 /\ \A m \in Messages \ {Record} : lines'[m] = lines[m]
          BY <1>a, <2>1, <2>4 DEF ArchiveTypes
        <4>2. handled[Warehouse] \subseteq Messages
          BY <1>a DEF HistoryTypes
        <4> QED BY <2>1, <4>1, <4>2 DEF Lost
      <3>2. Cardinality(Lost') + 0 <= tears
        BY <1>a, <1>b, <1>c, <2>4, <3>1 DEF ArchiveTypes, ToCome
      <3> QED BY <1>a, <1>c, <2>1, <2>2, <3>1, <3>2 DEF LossInv
    <2> QED BY <2>3, <2>4
  <1>2. ASSUME handled'[Warehouse] = handled[Warehouse], UNCHANGED lines,
               torn' \in BOOLEAN, tears' \in Nat,
               \/ tears' = tears /\ (torn' => torn)
               \/ tears' = tears + 1
        PROVE  LossInv'
    <2>1. Lost' = Lost
      BY <1>2 DEF Lost
    <2>2. ArchiveTypes'
      BY <1>a, <1>2 DEF ArchiveTypes
    <2>3. Cardinality(Lost) + ToCome' <= tears'
      <3>1. ToCome \in {0, 1} /\ ToCome' \in {0, 1} /\ tears \in Nat
        BY <1>a DEF ToCome, ArchiveTypes
      <3>2. CASE tears' = tears /\ (torn' => torn)
        <4>1. ToCome' <= ToCome
          BY <3>2 DEF ToCome
        <4> QED BY <1>b, <3>1, <3>2, <4>1
      <3>3. CASE tears' = tears + 1
        BY <1>b, <3>1, <3>3
      <3> QED BY <1>2, <3>2, <3>3
    <2> QED BY <1>a, <1>b, <2>1, <2>2, <2>3 DEF LossInv
  <1>3. CASE OpenFails \/ RestartWarehouse \/ Midnight
    <2>1. UNCHANGED <<lines, tears>> /\ (torn' = FALSE \/ torn' = torn)
      BY <1>3, Zenon DEF OpenFails, RestartWarehouse, Midnight, archiveVars
    <2>2. handled' = handled
      BY <1>3 DEF OpenFails, RestartWarehouse, Midnight, Fail, Rejoin, vars, groupVars
    <2>3. torn' \in BOOLEAN /\ (torn' => torn)
      <3>1. torn \in BOOLEAN
        BY <1>a DEF ArchiveTypes
      <3>2. CASE torn' = torn
        <4>1. torn' \in BOOLEAN
          BY <3>1, <3>2, Zenon
        <4>2. torn' => torn
          BY <3>2, Zenon
        <4> QED BY <4>1, <4>2, Zenon
      <3>3. CASE torn' = FALSE
        BY <3>3, Zenon
      <3> QED BY <2>1, <3>2, <3>3, Zenon
    <2>4. tears' \in Nat /\ tears' = tears
      BY <1>a, <2>1 DEF ArchiveTypes
    <2> QED BY <1>2, <2>1, <2>2, <2>3, <2>4, Zenon
  <1>4. CASE WriteFails
    <2>1. /\ handled'[Warehouse] = handled[Warehouse] /\ UNCHANGED lines
          /\ torn' \in BOOLEAN /\ tears' = tears + 1 /\ tears' \in Nat
      BY <1>4, <1>a DEF WriteFails, Fail, ArchiveTypes
    <2> QED BY <1>2, <2>1
  <1>5. ASSUME UNCHANGED <<lines, torn, tears>>, handled'[Warehouse] = handled[Warehouse]
        PROVE  LossInv'
    BY <1>a, <1>2, <1>5 DEF ArchiveTypes
  <1> QED BY <1>a, <1>1, <1>3, <1>4, <1>5, ArchiveLeftAlone DEF WatchNext, WarehouseWork

(* Each torn write spoils at most one event that the warehouse took, for any *)
(* number of events and writes (dw_service.go:65).                           *)
THEOREM LossBounded == WatchSpec => []ArchiveLossBounded
<1>1. LossInv => ArchiveLossBounded
  <2> SUFFICES ASSUME LossInv PROVE Cardinality(Lost) <= tears
    BY DEF ArchiveLossBounded, Lost
  <2>1. Cardinality(Lost) \in Nat /\ ToCome \in {0, 1} /\ tears \in Nat
    BY FS_CardinalityType DEF LossInv, ToCome, ArchiveTypes
  <2> QED BY <2>1 DEF LossInv
<1>2. QED BY <1>1, LossInit, LossStep, PTL DEF WatchSpec

-----------------------------------------------------------------------------
(* The copies of an event.  What the warehouse may still read has a line for *)
(* each restart at most, since it was sent once; what is not sent has none.  *)
(* Only ArchiveLine writes a line, and the reader is past the event then.    *)
CopiesInv ==
    /\ TypeInv /\ SentOnce /\ lines \in [Messages -> Nat]
    /\ ArchiveCopiesBounded
    /\ \A i \in 1..Len(log) : i > position[Warehouse] => lines[log[i]] <= restarts
    /\ \A m \in unsent : lines[m] = 0

LEMMA CopiesInit == WatchInit => CopiesInv
  <1> SUFFICES ASSUME WatchInit PROVE CopiesInv
    OBVIOUS
  <1>1. TypeInv /\ SentOnce
    BY TypeInit, OnceInit DEF WatchInit
  <1>2. log = <<>> /\ restarts = 0 /\ lines = [m \in Messages |-> 0] /\ unsent = Messages
    BY DEF WatchInit, Init, TopicInit
  <1> QED BY <1>1, <1>2 DEF CopiesInv, ArchiveCopiesBounded

(* The reader of the warehouse moves on, is moved back by a restart, or sees *)
(* the log grow at its end or shrink at its front.                           *)
LEMMA CopiesKept == CopiesInv /\ [Next]_vars /\ lines' = lines => CopiesInv'
  <1> SUFFICES ASSUME CopiesInv, [Next]_vars, lines' = lines PROVE CopiesInv'
    OBVIOUS
  <1>a. /\ TypeInv /\ SentOnce /\ TypeInv' /\ SentOnce' /\ LogTypes
        /\ Warehouse \in Groups /\ lines \in [Messages -> Nat]
    BY TypeStep, OnceStep, WatchersAssumption DEF CopiesInv, TypeInv
  <1>b. /\ Len(log) \in Nat /\ restarts \in Nat /\ unsent \subseteq Messages
        /\ position[Warehouse] \in Nat /\ position[Warehouse] <= Len(log)
        /\ \A i \in 1..Len(log) : log[i] \in Messages /\ lines[log[i]] \in Nat
    BY <1>a, RestartAssumption DEF TypeInv, LogTypes, HistoryTypes
  <1>1. ASSUME restarts' = restarts, unsent' \subseteq unsent,
               \A i \in 1..Len(log') : i > position'[Warehouse] => lines[log'[i]] <= restarts
        PROVE  CopiesInv'
    BY <1>a, <1>1 DEF CopiesInv, ArchiveCopiesBounded
  <1>2. ASSUME NEW m \in Messages, Send(m) PROVE CopiesInv'
    <2>1. /\ Len(log') = Len(log) + 1
          /\ \A i \in 1..Len(log) : log'[i] = log[i]
          /\ log'[Len(log) + 1] = m
          /\ m \in unsent /\ unsent' = unsent \ {m}
          /\ position' = position /\ restarts' = restarts
      BY <1>a, <1>2, LogAppends DEF Send, Publish
    <2>2. lines[m] <= restarts
      BY <1>b, <2>1 DEF CopiesInv
    <2>3. ASSUME NEW i \in 1..Len(log'), i > position'[Warehouse]
          PROVE  lines[log'[i]] <= restarts
      <3>1. CASE i = Len(log) + 1
        BY <2>1, <2>2, <3>1
      <3>2. CASE i # Len(log) + 1
        <4>1. i \in 1..Len(log)
          BY <1>b, <2>1, <3>2
        <4> QED BY <2>1, <2>3, <4>1 DEF CopiesInv
      <3> QED BY <3>1, <3>2
    <2> QED BY <1>1, <2>1, <2>3
  <1>3. ASSUME NEW g \in Groups, Handle(g) \/ Commit(g) PROVE CopiesInv'
    <2>1. /\ log' = log /\ restarts' = restarts /\ unsent' = unsent
          /\ position'[Warehouse] \in {position[Warehouse], position[Warehouse] + 1}
      BY <1>a, <1>3 DEF Handle, Succeed, Fail, HandlerSucceeds, HandlerFails, Advance,
                        Commit, CommitMessages, groupVars, LogTypes
    <2>2. \A i \in 1..Len(log) : i > position'[Warehouse] => i > position[Warehouse]
      BY <1>b, <2>1
    <2> QED BY <1>1, <2>1, <2>2 DEF CopiesInv
  <1>4. ASSUME NEW g \in Groups, Rejoin(g) PROVE CopiesInv'
    <2>1. log' = log /\ restarts' = restarts + 1 /\ unsent' = unsent
      BY <1>4 DEF Rejoin, Restart
    <2>2. \A m \in Messages : lines[m] <= restarts'
      BY <1>a, <1>b, <2>1 DEF CopiesInv, ArchiveCopiesBounded
    <2>3. \A m \in Messages : lines[m] <= 1 + restarts'
      BY <1>a, <1>b, <2>1, <2>2
    <2>4. \A i \in 1..Len(log) : lines[log[i]] <= restarts'
      BY <1>b, <2>2
    <2> QED BY <1>a, <2>1, <2>3, <2>4 DEF CopiesInv, ArchiveCopiesBounded
  <1>5. CASE Forget /\ UNCHANGED groupVars
    <2>1. /\ Len(log') = Len(log) - 1
          /\ \A i \in 1..Len(log') : log'[i] = log[i + 1]
          /\ position[Warehouse] > 0 /\ position'[Warehouse] = position[Warehouse] - 1
          /\ restarts' = restarts /\ unsent' = unsent
      BY <1>a, <1>5, LogForgets DEF groupVars
    <2>2. ASSUME NEW i \in 1..Len(log'), i > position'[Warehouse]
          PROVE  lines[log'[i]] <= restarts
      <3>1. i + 1 \in 1..Len(log) /\ i + 1 > position[Warehouse]
        BY <1>b, <2>1, <2>2
      <3> QED BY <2>1, <3>1 DEF CopiesInv
    <2> QED BY <1>1, <2>1, <2>2
  <1>6. CASE UNCHANGED vars
    <2>1. log' = log /\ position' = position /\ restarts' = restarts /\ unsent' = unsent
      BY <1>6 DEF vars, topicVars, groupVars
    <2> QED BY <1>1, <2>1 DEF CopiesInv
  <1> QED BY <1>2, <1>3, <1>4, <1>5, <1>6 DEF Next

LEMMA CopiesStep == CopiesInv /\ [WatchNext]_watchVars => CopiesInv'
  <1> SUFFICES ASSUME CopiesInv, [WatchNext]_watchVars PROVE CopiesInv'
    OBVIOUS
  <1>a. /\ [Next]_vars /\ TypeInv /\ SentOnce /\ TypeInv' /\ SentOnce'
        /\ LogTypes /\ HistoryTypes /\ Warehouse \in Groups /\ lines \in [Messages -> Nat]
    BY WatchRefines, TypeStep, OnceStep, WatchersAssumption DEF CopiesInv, TypeInv
  <1>1. CASE ArchiveLine
    <2>1. /\ Ready(Warehouse) /\ log' = log /\ restarts' = restarts /\ unsent' = unsent
          /\ position'[Warehouse] = position[Warehouse] + 1
          /\ lines' \in {lines, [lines EXCEPT ![Record] = @ + 1]}
      BY <1>1, <1>a DEF ArchiveLine, Succeed, HandlerSucceeds, Advance, LogTypes
    <2>2. /\ Record = log[position[Warehouse] + 1] /\ Record \in Messages
          /\ position[Warehouse] + 1 \in 1..Len(log) /\ position[Warehouse] \in Nat
          /\ restarts \in Nat
      BY <1>a, <2>1, FetchedType, RestartAssumption DEF Record, Fetched, LogTypes, HistoryTypes
    <2>3. /\ lines' \in [Messages -> Nat]
          /\ \A m \in Messages \ {Record} : lines'[m] = lines[m]
          /\ lines'[Record] <= lines[Record] + 1
      BY <1>a, <2>1, <2>2
    <2>4. lines[Record] <= restarts
      BY <2>2 DEF CopiesInv
    <2>5. ArchiveCopiesBounded'
      <3>1. lines[Record] \in Nat /\ lines'[Record] \in Nat
        BY <1>a, <2>2, <2>3
      <3>2. lines'[Record] <= 1 + restarts'
        BY <2>1, <2>2, <2>3, <2>4, <3>1
      <3>3. \A m \in Messages \ {Record} : lines'[m] <= 1 + restarts'
        BY <2>1, <2>3 DEF CopiesInv, ArchiveCopiesBounded
      <3> QED BY <3>2, <3>3 DEF ArchiveCopiesBounded
    <2>6. ASSUME NEW i \in 1..Len(log'), i > position'[Warehouse]
          PROVE  lines'[log'[i]] <= restarts'
      <3>1. i \in 1..Len(log) /\ i > position[Warehouse] /\ i # position[Warehouse] + 1
        BY <2>1, <2>2, <2>6
      <3>2. log[i] # Record /\ log[i] \in Messages
        BY <1>a, <2>2, <3>1 DEF SentOnce, LogTypes
      <3> QED BY <2>1, <2>3, <3>1, <3>2 DEF CopiesInv
    <2>7. ASSUME NEW m \in unsent' PROVE lines'[m] = 0
      <3>1. m \in Messages /\ m # Record
        BY <1>a, <2>1, <2>2, <2>7 DEF SentOnce, HistoryTypes
      <3> QED BY <2>1, <2>3, <2>7, <3>1 DEF CopiesInv
    <2> QED BY <1>a, <2>3, <2>5, <2>6, <2>7 DEF CopiesInv
  <1>2. CASE OpenFails \/ WriteFails \/ RestartWarehouse \/ Midnight
    <2>1. lines' = lines
      BY <1>2 DEF OpenFails, WriteFails, RestartWarehouse, Midnight, archiveVars
    <2> QED BY <1>a, <2>1, CopiesKept
  <1>3. ASSUME lines' = lines PROVE CopiesInv'
    BY <1>a, <1>3, CopiesKept
  <1> QED BY <1>a, <1>1, <1>2, <1>3, ArchiveLeftAlone DEF WatchNext, WarehouseWork

(* The archive has a line of an event at most once, and once more for each   *)
(* restart, for any number of events and restarts (dw_service.go:36-69).     *)
THEOREM CopiesPerRestart == WatchSpec => []ArchiveCopiesBounded
<1>1. CopiesInv => ArchiveCopiesBounded
  BY DEF CopiesInv
<1>2. QED BY <1>1, CopiesInit, CopiesStep, PTL DEF WatchSpec

-----------------------------------------------------------------------------
(***************************************************************************)
(* Bursts.  Until its window ends, a card's counter is ahead of the        *)
(* payments that were scored, and by one more between INCR and the UPDATE; *)
(* so the event that gets the count over the limit is marked, and no later *)
(* UPDATE takes the mark back.                                             *)
(***************************************************************************)
Taken(t) == {m \in handled[Fraud] : token[m] = t}
Marked(t) == {m \in Messages : token[m] = t /\ risk[m] = "high"}

Noticing(t) ==
    /\ Cardinality(Taken(t)) <= counter[t]
    /\ step # "Incr" /\ Card = t =>
         attempts = counter[t] /\ Cardinality(Taken(t)) < counter[t]
    /\ Marked(t) # {} => counter[t] > VelocityLimit
    /\ Cardinality(Taken(t)) > VelocityLimit => Marked(t) # {}

BurstInv ==
    /\ WatchTypes /\ risk \in [Messages -> {"none", "low", "high"}]
    /\ \A t \in Tokens : IsFiniteSet(Taken(t))
    /\ \A t \in Tokens \ ended : errors = 0 => Noticing(t)

LEMMA BurstInit == WatchInit => BurstInv
  <1> SUFFICES ASSUME WatchInit PROVE BurstInv
    OBVIOUS
  <1>1. ASSUME NEW t \in Tokens PROVE Taken(t) = {} /\ Marked(t) = {} /\ counter[t] = 0
    BY WatchersAssumption DEF WatchInit, Init, Nothing, Taken, Marked
  <1>2. IsFiniteSet({}) /\ Cardinality({}) = 0
    BY FS_EmptySet
  <1>3. step = "Incr" /\ risk \in [Messages -> {"none", "low", "high"}]
    BY DEF WatchInit
  <1>4. ASSUME NEW t \in Tokens PROVE IsFiniteSet(Taken(t)) /\ Noticing(t)
    BY <1>1, <1>2, <1>3, WatchersAssumption DEF Noticing
  <1> QED BY <1>3, <1>4, WatchTypesInit DEF BurstInv

(* What the steps of the others leave alone. *)
LEMMA FraudLeftAlone ==
    ASSUME HistoryTypes,
           \/ WarehouseWork \/ RestartWarehouse \/ Midnight
           \/ \E t \in Tokens : WindowEnds(t)
           \/ /\ \/ \E m \in Messages : Send(m)
                 \/ \E g \in Groups : Commit(g)
                 \/ Forget /\ UNCHANGED groupVars
              /\ UNCHANGED <<fraudVars, archiveVars>>
           \/ UNCHANGED watchVars
    PROVE  handled'[Fraud] = handled[Fraud]
  <1>1. Fraud # Warehouse /\ Fraud \in Groups /\ Warehouse \in Groups
    BY WatchersAssumption
  <1>2. CASE Succeed(Warehouse)
    BY <1>1, <1>2 DEF Succeed, HistoryTypes
  <1>3. CASE handled' = handled
    BY <1>3
  <1> QED BY <1>2, <1>3
          DEF WarehouseWork, ArchiveLine, OpenFails, WriteFails, RestartWarehouse, Midnight,
              WindowEnds, Fail, Rejoin, Send, Commit, watchVars, vars, groupVars

LEMMA BurstStep == BurstInv /\ [WatchNext]_watchVars => BurstInv'
  <1> SUFFICES ASSUME BurstInv, [WatchNext]_watchVars PROVE BurstInv'
    OBVIOUS
  <1>a. /\ WatchTypes /\ WatchTypes' /\ TypeInv /\ LogTypes /\ HistoryTypes /\ FraudTypes
        /\ risk \in [Messages -> {"none", "low", "high"}]
        /\ Fraud \in Groups /\ VelocityLimit \in Nat
    BY WatchTypesStep, WatchersAssumption DEF BurstInv, WatchTypes, TypeInv
  <1>b. \A t \in Tokens : IsFiniteSet(Taken(t)) /\ Cardinality(Taken(t)) \in Nat
                          /\ counter[t] \in Nat
    BY <1>a, FS_CardinalityType DEF BurstInv, FraudTypes
  <1>c. errors \in Nat
    BY <1>a DEF FraudTypes
  (* A step that scores nothing. *)
  <1>d. ASSUME UNCHANGED <<token, risk>>, handled'[Fraud] = handled[Fraud],
               \A t \in Tokens \ ended : errors = 0 => Noticing(t),
               ended \subseteq ended', errors' = errors \/ errors' = errors + 1,
               \A t \in Tokens \ ended' : errors' = 0 =>
                   \/ /\ counter'[t] = counter[t]
                      /\ step' # "Incr" /\ Card' = t =>
                           step # "Incr" /\ Card = t /\ attempts' = attempts
                   \/ counter'[t] = counter[t] + 1 /\ (step' = "Incr" \/ attempts' = counter'[t])
        PROVE  BurstInv'
    <2>1. \A t \in Tokens : Taken(t)' = Taken(t) /\ Marked(t)' = Marked(t)
      BY <1>d DEF Taken, Marked
    <2>2. ASSUME NEW t \in Tokens \ ended', errors' = 0 PROVE Noticing(t)'
      <3>1. t \notin ended /\ errors = 0 /\ Noticing(t)
        BY <1>c, <1>d, <2>2
      <3>2. CASE /\ counter'[t] = counter[t]
                 /\ step' # "Incr" /\ Card' = t =>
                      step # "Incr" /\ Card = t /\ attempts' = attempts
        BY <2>1, <3>1, <3>2 DEF Noticing
      <3>3. CASE counter'[t] = counter[t] + 1 /\ (step' = "Incr" \/ attempts' = counter'[t])
        BY <1>a, <1>b, <2>1, <3>1, <3>3 DEF Noticing
      <3> QED BY <1>d, <2>2, <3>2, <3>3
    <2>3. \A t \in Tokens : IsFiniteSet(Taken(t))'
      BY <1>b, <2>1
    <2>4. risk' \in [Messages -> {"none", "low", "high"}]
      BY <1>a, <1>d
    <2> QED BY <1>a, <2>2, <2>3, <2>4 DEF BurstInv
  <1>e. \A t \in Tokens \ ended : errors = 0 => Noticing(t)
    BY DEF BurstInv
  <1>1. CASE Incr
    <2>1. /\ UNCHANGED <<token, risk, ended, handled>> /\ step = "Incr"
          /\ Card' = Card /\ Card \in Tokens
          /\ \A t \in Tokens \ {Card} : counter'[t] = counter[t]
          /\ errors' = errors \/ errors' = errors + 1
          /\ errors' = errors =>
                 \/ counter'[Card] = counter[Card] + 1 /\ attempts' = counter'[Card]
                 \/ counter'[Card] \in {counter[Card], counter[Card] + 1} /\ step' = "Incr"
      BY <1>a, <1>c, <1>1, IncrMeans DEF vars, groupVars
    <2>2. errors' = 0 => errors' = errors
      BY <1>c, <2>1
    <2> QED BY <1>d, <1>e, <2>1, <2>2
  <1>2. CASE Expire
    <2>1. /\ UNCHANGED <<token, risk, ended, handled, counter, attempts, log, position>>
          /\ step = "Expire" /\ (errors' = errors \/ errors' = errors + 1)
      BY <1>2 DEF Expire, vars, topicVars, groupVars
    <2>2. Card' = Card
      BY <2>1 DEF Card, Event, Fetched
    <2> QED BY <1>d, <1>e, <2>1, <2>2
  <1>3. CASE RestartFraud
    <2>1. UNCHANGED <<token, risk, ended, handled, counter, errors>> /\ step' = "Incr"
      BY <1>3 DEF RestartFraud, redisVars, mishapVars, Rejoin
    <2> QED BY <1>d, <1>e, <2>1
  <1>4. CASE SkipEvent
    <2>1. /\ UNCHANGED <<token, risk, ended, counter, errors, step>> /\ step = "Incr"
          /\ handled'[Fraud] = handled[Fraud] \cup {Event} /\ token[Event] \notin Tokens
      BY <1>a, <1>4, WatchersAssumption
      DEF SkipEvent, fraudVars, redisVars, mishapVars, Succeed, HistoryTypes, Card, Event
    <2>2. \A t \in Tokens : Taken(t)' = Taken(t) /\ Marked(t)' = Marked(t)
      BY <2>1 DEF Taken, Marked
    <2>3. \A t \in Tokens \ ended : errors = 0 => Noticing(t)'
      BY <1>e, <2>1, <2>2 DEF Noticing
    <2> QED BY <1>a, <1>b, <2>1, <2>2, <2>3 DEF BurstInv
  <1>5. CASE UpdateRisk
    <2>1. /\ step = "Update" /\ step' = "Incr" /\ UNCHANGED <<token, counter, ended, errors>>
          /\ \/ /\ handled'[Fraud] = handled[Fraud] \cup {Event}
                /\ risk' = [risk EXCEPT ![Event] = Score]
             \/ /\ handled'[Fraud] = handled[Fraud]
                /\ risk' \in {risk, [risk EXCEPT ![Event] = Score]}
          /\ Ready(Fraud) /\ Card \in Tokens
      BY <1>a, <1>5
      DEF UpdateRisk, redisVars, mishapVars, Succeed, Fail, HistoryTypes, FraudTypes, Event
    <2>2. Event \in Messages /\ Score \in {"low", "high"} /\ token[Event] = Card
      BY <1>a, <2>1, FetchedType DEF Event, Score, Card
    <2>3. risk' \in [Messages -> {"none", "low", "high"}]
      BY <1>a, <2>1, <2>2
    <2>4. \A t \in Tokens : \/ Taken(t)' = Taken(t)
                            \/ t = Card /\ Taken(t)' = Taken(t) \cup {Event}
      BY <2>1, <2>2 DEF Taken
    <2>5. ASSUME NEW t \in Tokens
          PROVE  /\ IsFiniteSet(Taken(t)') /\ Cardinality(Taken(t)') \in Nat
                 /\ \/ Taken(t)' = Taken(t)
                    \/ t = Card /\ Cardinality(Taken(t)') <= Cardinality(Taken(t)) + 1
      <3>1. IsFiniteSet(Taken(t) \cup {Event})
            /\ Cardinality(Taken(t) \cup {Event}) \in
                  {Cardinality(Taken(t)), Cardinality(Taken(t)) + 1}
        BY <1>b, FS_AddElement
      <3>2. CASE Taken(t)' = Taken(t)
        BY <1>b, <3>2
      <3>3. CASE t = Card /\ Taken(t)' = Taken(t) \cup {Event}
        <4>1. IsFiniteSet(Taken(t)') /\ Cardinality(Taken(t)') \in Nat
          BY <3>1, <3>3, FS_CardinalityType
        <4>2. Cardinality(Taken(t)') <= Cardinality(Taken(t)) + 1
          BY <1>b, <3>1, <3>3
        <4> QED BY <3>3, <4>1, <4>2
      <3> QED BY <2>4, <3>2, <3>3
    <2>6. ASSUME NEW t \in Tokens \ ended, errors = 0 PROVE Noticing(t)'
      <3>a. Noticing(t) /\ IsFiniteSet(Taken(t)') /\ Cardinality(Taken(t)') \in Nat
        BY <1>e, <2>5, <2>6
      <3>1. CASE t # Card
        <4>1. Taken(t)' = Taken(t)
          BY <2>4, <3>1
        <4>2. Marked(t)' = Marked(t)
          BY <1>a, <2>1, <2>2, <3>1 DEF Marked
        <4> QED BY <2>1, <3>a, <4>1, <4>2 DEF Noticing
      <3>2. CASE t = Card
        <4>1. /\ attempts = counter[t] /\ Cardinality(Taken(t)) < counter[t]
              /\ Marked(t) # {} => counter[t] > VelocityLimit
          BY <2>1, <3>a, <3>2 DEF Noticing
        <4>2. Score = "high" <=> counter[t] > VelocityLimit
          BY <4>1 DEF Score, TooFast
        <4>3. Cardinality(Taken(t)') <= counter[t]
          BY <1>b, <2>5, <4>1
        <4>4. Marked(t)' # {} => counter[t] > VelocityLimit
          <5>1. CASE counter[t] > VelocityLimit
            BY <5>1
          <5>2. CASE ~(counter[t] > VelocityLimit)
            <6>1. Score # "high" /\ Marked(t) = {}
              BY <4>1, <4>2, <5>2
            <6>2. \A m \in Messages : risk'[m] = risk[m] \/ risk'[m] # "high"
              BY <1>a, <2>1, <2>2, <6>1
            <6> QED BY <2>1, <6>1, <6>2 DEF Marked
          <5> QED BY <5>1, <5>2
        <4>5. Cardinality(Taken(t)') > VelocityLimit => Marked(t)' # {}
          <5>1. SUFFICES ASSUME Cardinality(Taken(t)') > VelocityLimit PROVE Marked(t)' # {}
            OBVIOUS
          <5>2. Score = "high"
            BY <1>a, <1>b, <3>a, <4>2, <4>3, <5>1
          <5>3. CASE risk' = [risk EXCEPT ![Event] = Score]
            <6>1. risk'[Event] = "high"
              BY <1>a, <2>2, <5>2, <5>3
            <6> QED BY <2>1, <2>2, <3>2, <6>1 DEF Marked
          <5>4. CASE handled'[Fraud] = handled[Fraud] /\ risk' = risk
            <6>1. Taken(t)' = Taken(t) /\ Marked(t)' = Marked(t)
              BY <2>1, <5>4 DEF Taken, Marked
            <6> QED BY <3>a, <5>1, <6>1 DEF Noticing
          <5> QED BY <2>1, <5>3, <5>4
        <4> QED BY <2>1, <4>3, <4>4, <4>5 DEF Noticing
      <3> QED BY <3>1, <3>2
    <2> QED BY <1>a, <2>1, <2>3, <2>5, <2>6 DEF BurstInv
  <1>6. CASE \E u \in Tokens : WindowEnds(u)
    <2>1. PICK u \in Tokens : WindowEnds(u)
      BY <1>6
    <2>2. /\ ended' = ended \cup {u} /\ UNCHANGED <<token, risk, errors, attempts, step>>
          /\ \A t \in Tokens \ {u} : counter'[t] = counter[t]
          /\ handled' = handled /\ log' = log /\ position' = position
      BY <1>a, <2>1 DEF WindowEnds, FraudTypes, mishapVars, vars, topicVars, groupVars
    <2>3. Card' = Card
      BY <2>2 DEF Card, Event, Fetched
    <2> QED BY <1>d, <1>e, <2>2, <2>3
  <1>7. CASE \/ WarehouseWork \/ RestartWarehouse \/ Midnight
             \/ /\ \/ \E m \in Messages : Send(m)
                   \/ \E g \in Groups : Commit(g)
                   \/ Forget /\ UNCHANGED groupVars
                /\ UNCHANGED <<fraudVars, archiveVars>>
             \/ UNCHANGED watchVars
    <2>1. /\ Keeps(Fraud) /\ UNCHANGED <<token, step, attempts, risk, errors, lost>>
          /\ handled'[Fraud] = handled[Fraud]
      BY <1>a, <1>7, FraudUndisturbed, FraudLeftAlone
    <2>2. UNCHANGED <<counter, ended>>
      BY <1>7 DEF WarehouseWork, ArchiveLine, OpenFails, WriteFails, RestartWarehouse, Midnight,
                  fraudVars, redisVars, watchVars
    <2>3. step # "Incr" => Card' = Card
      BY <1>a, <2>1 DEF Keeps, FraudTypes, Card, Event
    <2> QED BY <1>d, <1>e, <2>1, <2>2, <2>3
  <1> QED BY <1>1, <1>2, <1>3, <1>4, <1>5, <1>6, <1>7 DEF WatchNext, FraudWork

(* A burst of payments within one window does not go unnoticed while Redis   *)
(* returns no error, for any limit, number of cards, payments, restarts and  *)
(* repeated INCRs.                                                           *)
THEOREM BurstsAreNoticed == WatchSpec => []BurstNoticed
<1>1. BurstInv => BurstNoticed
  <2> SUFFICES ASSUME BurstInv, NEW t \in Tokens \ ended, errors = 0,
                      Cardinality(Taken(t)) > VelocityLimit
               PROVE  \E m \in Messages : token[m] = t /\ risk[m] = "high"
    BY DEF BurstNoticed, Taken
  <2> QED BY DEF BurstInv, Noticing, Marked
<1>2. QED BY <1>1, BurstInit, BurstStep, PTL DEF WatchSpec

-----------------------------------------------------------------------------
(***************************************************************************)
(* Alerts.  A restart lets each payment of a card count once more, so the  *)
(* counter is bounded by the card's payments times the restarts, plus the  *)
(* payments that the reader passed since, plus the one in hand, plus the   *)
(* INCRs that the client repeated.                                         *)
(***************************************************************************)
Passed(t) == PaymentsOf(t) \ Ahead(Fraud)
Traffic(t) == Cardinality(PaymentsOf(t))
InHand(t) == IF step # "Incr" /\ Card = t THEN 1 ELSE 0

Bound(t) == Traffic(t) * (1 + restarts) + lost

CountBounded(t) ==
    counter[t] <= Traffic(t) * restarts + (Cardinality(Passed(t)) + InHand(t) + lost)
InHandBounded(t) == step # "Incr" /\ Card = t => attempts <= Bound(t)
HighBounded(t) == \A m \in Messages :
    token[m] = t /\ risk[m] = "high" => Bound(t) > VelocityLimit

TrafficInv ==
    /\ WatchTypes /\ SentOnce /\ risk \in [Messages -> {"none", "low", "high"}]
    /\ IsFiniteSet(Published)
    /\ \A t \in Tokens : CountBounded(t)
    /\ \A t : InHandBounded(t) /\ HighBounded(t)

LEMMA Products ==
    ASSUME NEW p \in Nat, NEW q \in Nat, NEW r \in Nat, NEW s \in Nat, p <= q, r <= s
    PROVE  /\ p * r \in Nat /\ q * s \in Nat /\ p * r <= q * s
           /\ p * (1 + r) \in Nat /\ p * (1 + r) = p * r + p
           /\ p * (r + 1) = p * r + p
  <1>1. p * r \in Nat /\ q * s \in Nat /\ q * r \in Nat /\ p * (1 + r) = p * r + p
        /\ p * (r + 1) = p * r + p
    OBVIOUS
  <1>2. p * r <= q * r
    <2>1. PICK d \in Nat : q = p + d
      <3>1. q - p \in Nat /\ q = p + (q - p)
        OBVIOUS
      <3> QED BY <3>1
    <2>2. (p + d) * r = p * r + d * r /\ d * r \in Nat
      BY <2>1
    <2> QED BY <1>1, <2>1, <2>2
  <1>3. q * r <= q * s
    <2>1. PICK d \in Nat : s = r + d
      <3>1. s - r \in Nat /\ s = r + (s - r)
        OBVIOUS
      <3> QED BY <3>1
    <2>2. q * (r + d) = q * r + q * d /\ q * d \in Nat
      BY <2>1
    <2> QED BY <1>1, <2>1, <2>2
  <1> QED BY <1>1, <1>2, <1>3

LEMMA ProductsGrow ==
    ASSUME NEW p \in Nat, NEW q \in Nat, NEW r \in Nat, NEW s \in Nat, p <= q, r <= s
    PROVE  /\ p * (1 + r) \in Nat /\ q * (1 + s) \in Nat
           /\ p * (1 + r) <= q * (1 + s)
  <1>1. 1 + r \in Nat /\ 1 + s \in Nat /\ 1 + r <= 1 + s
    OBVIOUS
  <1> QED BY <1>1, Products

(* The event in hand is ahead of the reader until the handler returns. *)
LEMMA EventIsAhead ==
    ASSUME TypeInv, SentOnce, Ready(Fraud)
    PROVE  Event \in Ahead(Fraud) /\ Event \in Published
  <1>1. /\ LogTypes /\ Fraud \in Groups
        /\ Event = log[position[Fraud] + 1] /\ position[Fraud] + 1 \in 1..Len(log)
    BY WatchersAssumption DEF TypeInv, LogTypes, Ready, Event, Fetched
  <1>2. position[Fraud] + 1 > position[Fraud]
    BY <1>1 DEF LogTypes
  <1>3. Event \in Messages /\ Event \notin unsent
    BY <1>1, FetchedType DEF SentOnce, Event
  <1> QED BY <1>1, <1>2, <1>3, AheadMeans DEF Published

LEMMA EventTaken ==
    ASSUME TypeInv, SentOnce, Succeed(Fraud) \/ Fail(Fraud)
    PROVE  /\ Ready(Fraud) /\ unsent' = unsent /\ restarts' = restarts
           /\ position'[Fraud] = position[Fraud] + 1
           /\ Ahead(Fraud)' = Ahead(Fraud) \ {Event}
  <1>a. /\ LogTypes /\ Fraud \in Groups /\ Len(log) \in Nat
        /\ position[Fraud] \in Nat /\ position[Fraud] <= Len(log)
    BY WatchersAssumption DEF TypeInv, LogTypes
  <1>1. /\ log' = log /\ position'[Fraud] = position[Fraud] + 1 /\ unsent' = unsent
        /\ Ready(Fraud) /\ restarts' = restarts
    BY <1>a DEF Succeed, Fail, HandlerSucceeds, HandlerFails, Advance, LogTypes
  <1>2. Event = log[position[Fraud] + 1] /\ position[Fraud] + 1 \in 1..Len(log)
    BY <1>a, <1>1 DEF Ready, Event, Fetched
  <1>3. ASSUME NEW x PROVE x \in Ahead(Fraud)' <=> x \in Ahead(Fraud) /\ x # Event
    <2>1. x \in Ahead(Fraud)' <=> \E i \in 1..Len(log) : i > position[Fraud] + 1 /\ log[i] = x
      <3>1. x \in Ahead(Fraud)' <=> \E i \in position[Fraud] + 1 + 1 .. Len(log) : x = log[i]
        BY <1>1 DEF Ahead
      <3> QED BY <1>a, <3>1
    <2>2. x \in Ahead(Fraud) <=> \E i \in 1..Len(log) : i > position[Fraud] /\ log[i] = x
      BY <1>a, AheadMeans
    <2>3. \A i \in 1..Len(log) : log[i] = Event <=> i = position[Fraud] + 1
      BY <1>2 DEF SentOnce
    <2> QED BY <1>a, <2>1, <2>2, <2>3
  <1> QED BY <1>1, <1>3

(* What the log has ahead of fraud's reader. *)
LEMMA AheadCases ==
    ASSUME TypeInv, SentOnce, [Next]_vars,
           restarts' = restarts \/ position'[Fraud] = position[Fraud]
    PROVE  \/ \E m \in unsent : /\ unsent' = unsent \ {m}
                                /\ Ahead(Fraud)' = Ahead(Fraud) \cup {m}
           \/ unsent' = unsent /\ Ahead(Fraud)' = Ahead(Fraud)
           \/ Succeed(Fraud) \/ Fail(Fraud)
  <1>a. /\ LogTypes /\ Fraud \in Groups /\ Len(log) \in Nat
        /\ position[Fraud] \in Nat /\ position[Fraud] <= Len(log)
    BY WatchersAssumption DEF TypeInv, LogTypes
  <1>1. ASSUME NEW m \in Messages, Send(m)
        PROVE  /\ m \in unsent /\ unsent' = unsent \ {m}
               /\ Ahead(Fraud)' = Ahead(Fraud) \cup {m}
    <2>1. /\ Len(log') = Len(log) + 1
          /\ \A i \in 1..Len(log) : log'[i] = log[i]
          /\ log'[Len(log) + 1] = m /\ position' = position
      BY <1>1, <1>a, LogAppends DEF Send, Publish
    <2>2. ASSUME NEW x PROVE x \in Ahead(Fraud)' <=> x \in Ahead(Fraud) \cup {m}
      <3>1. x \in Ahead(Fraud)' <=> \E i \in position[Fraud] + 1 .. Len(log) + 1 : x = log'[i]
        BY <2>1 DEF Ahead
      <3>2. x \in Ahead(Fraud) <=> \E i \in position[Fraud] + 1 .. Len(log) : x = log[i]
        BY DEF Ahead
      <3>3. \A i \in position[Fraud] + 1 .. Len(log) + 1 :
                \/ i = Len(log) + 1
                \/ i \in position[Fraud] + 1 .. Len(log) /\ log'[i] = log[i]
        BY <1>a, <2>1
      <3>4. \A i \in position[Fraud] + 1 .. Len(log) :
                i \in position[Fraud] + 1 .. Len(log) + 1 /\ log'[i] = log[i]
        BY <1>a, <2>1
      <3>5. Len(log) + 1 \in position[Fraud] + 1 .. Len(log) + 1
        BY <1>a
      <3> QED BY <2>1, <3>1, <3>2, <3>3, <3>4, <3>5
    <2> QED BY <1>1, <2>2 DEF Send
  <1>2. CASE log' = log /\ position'[Fraud] = position[Fraud] /\ unsent' = unsent
    BY <1>2 DEF Ahead
  <1>3. ASSUME NEW g \in Groups, g # Fraud, Succeed(g) \/ Fail(g)
        PROVE  log' = log /\ position'[Fraud] = position[Fraud] /\ unsent' = unsent
    BY <1>a, <1>3 DEF Succeed, Fail, HandlerSucceeds, HandlerFails, Advance, LogTypes
  <1>4. ASSUME NEW g \in Groups, Commit(g)
        PROVE  log' = log /\ position'[Fraud] = position[Fraud] /\ unsent' = unsent
    BY <1>4 DEF Commit, CommitMessages, groupVars
  <1>5. ASSUME NEW g \in Groups, Rejoin(g)
        PROVE  log' = log /\ position'[Fraud] = position[Fraud] /\ unsent' = unsent
    <2>1. restarts' = restarts + 1 /\ restarts \in Nat
      BY <1>5, RestartAssumption DEF Rejoin, TypeInv, HistoryTypes
    <2> QED BY <1>5, <2>1 DEF Rejoin, Restart
  <1>6. CASE Forget /\ UNCHANGED groupVars
    <2>1. /\ Len(log') = Len(log) - 1
          /\ \A i \in 1..Len(log') : log'[i] = log[i + 1]
          /\ position[Fraud] > 0 /\ position'[Fraud] = position[Fraud] - 1
          /\ unsent' = unsent /\ LogTypes'
      BY <1>a, <1>6, LogForgets DEF groupVars
    <2>2. ASSUME NEW x PROVE x \in Ahead(Fraud)' <=> x \in Ahead(Fraud)
      <3>1. x \in Ahead(Fraud)' <=>
                \E i \in position[Fraud] - 1 + 1 .. Len(log) - 1 : x = log'[i]
        BY <2>1 DEF Ahead
      <3>2. x \in Ahead(Fraud) <=> \E i \in position[Fraud] + 1 .. Len(log) : x = log[i]
        BY DEF Ahead
      <3>3. \A i \in position[Fraud] - 1 + 1 .. Len(log) - 1 :
                i + 1 \in position[Fraud] + 1 .. Len(log) /\ log'[i] = log[i + 1]
        BY <1>a, <2>1
      <3>4. \A i \in position[Fraud] + 1 .. Len(log) :
                /\ i - 1 \in position[Fraud] - 1 + 1 .. Len(log) - 1
                /\ log'[i - 1] = log[i]
        BY <1>a, <2>1
      <3> QED BY <3>1, <3>2, <3>3, <3>4
    <2> QED BY <2>1, <2>2
  <1>7. CASE UNCHANGED vars
    BY <1>2, <1>7 DEF vars, topicVars, groupVars
  <1> QED BY <1>1, <1>2, <1>3, <1>4, <1>5, <1>6, <1>7 DEF Next, Handle

LEMMA TrafficInit == WatchInit => TrafficInv
  <1> SUFFICES ASSUME WatchInit PROVE TrafficInv
    OBVIOUS
  <1>1. WatchTypes /\ SentOnce
    BY WatchTypesInit, OnceInit DEF WatchInit
  <1>2. /\ Published = {} /\ restarts = 0 /\ lost = 0 /\ step = "Incr"
        /\ risk = [m \in Messages |-> "none"] /\ counter = [t \in Tokens |-> 0]
    BY DEF WatchInit, Init, Published
  <1>3. IsFiniteSet({}) /\ Cardinality({}) = 0
    BY FS_EmptySet
  <1>4. ASSUME NEW t \in Tokens PROVE CountBounded(t)
    <2>1. PaymentsOf(t) = {} /\ Passed(t) = {} /\ InHand(t) = 0 /\ counter[t] = 0
      BY <1>2 DEF PaymentsOf, Passed, InHand
    <2>2. Traffic(t) = 0 /\ Cardinality(Passed(t)) = 0
      BY <1>3, <2>1 DEF Traffic
    <2> QED BY <1>2, <2>1, <2>2 DEF CountBounded
  <1> QED BY <1>1, <1>2, <1>3, <1>4 DEF TrafficInv, InHandBounded, HighBounded

LEMMA TrafficTypes ==
    ASSUME WatchTypes, IsFiniteSet(Published)
    PROVE  /\ restarts \in Nat /\ lost \in Nat /\ VelocityLimit \in Nat /\ attempts \in Nat
           /\ \A t : IsFiniteSet(PaymentsOf(t)) /\ Traffic(t) \in Nat
           /\ \A t : /\ IsFiniteSet(Passed(t)) /\ Cardinality(Passed(t)) \in Nat
                     /\ Cardinality(Passed(t)) <= Traffic(t)
           /\ \A t \in Tokens : counter[t] \in Nat
           /\ \A t : InHand(t) \in {0, 1}
  <1>1. restarts \in Nat /\ lost \in Nat /\ VelocityLimit \in Nat /\ attempts \in Nat
    BY RestartAssumption, WatchersAssumption
    DEF WatchTypes, TypeInv, HistoryTypes, FraudTypes
  <1>2. ASSUME NEW t PROVE IsFiniteSet(PaymentsOf(t)) /\ Traffic(t) \in Nat
    <2>1. PaymentsOf(t) \subseteq Published
      BY DEF PaymentsOf
    <2> QED BY <2>1, FS_Subset, FS_CardinalityType DEF Traffic
  <1>3. ASSUME NEW t PROVE /\ IsFiniteSet(Passed(t)) /\ Cardinality(Passed(t)) \in Nat
                           /\ Cardinality(Passed(t)) <= Traffic(t)
    <2>1. Passed(t) \subseteq PaymentsOf(t)
      BY DEF Passed
    <2> QED BY <1>2, <2>1, FS_Subset, FS_CardinalityType DEF Traffic
  <1> QED BY <1>1, <1>2, <1>3 DEF WatchTypes, FraudTypes, InHand

(* The bound with more traffic, more restarts or more payments passed. *)
LEMMA BoundGrows ==
    ASSUME NEW c \in Nat, NEW p \in Nat, NEW q \in Nat, NEW r \in Nat, NEW s \in Nat,
           NEW a \in Nat, NEW b \in Nat, p <= q, r <= s, a <= b, c <= p * r + a
    PROVE  c <= q * s + b
  <1>1. p * r \in Nat /\ q * s \in Nat /\ p * r <= q * s
    BY Products
  <1> DEFINE x == p * r
             y == q * s
  <1>2. x \in Nat /\ y \in Nat /\ x <= y /\ c <= x + a
    BY <1>1
  <1> HIDE DEF x, y
  <1>3. c <= y + b
    BY <1>2
  <1> QED BY <1>3 DEF y

LEMMA TrafficStep == TrafficInv /\ [WatchNext]_watchVars => TrafficInv'
  <1> SUFFICES ASSUME TrafficInv, [WatchNext]_watchVars PROVE TrafficInv'
    OBVIOUS
  <1>a. /\ WatchTypes /\ WatchTypes' /\ SentOnce /\ SentOnce' /\ [Next]_vars
        /\ TypeInv /\ LogTypes /\ HistoryTypes /\ FraudTypes /\ FraudTypes'
        /\ risk \in [Messages -> {"none", "low", "high"}] /\ IsFiniteSet(Published)
        /\ Fraud \in Groups
    BY WatchTypesStep, WatchRefines, OnceStep, WatchersAssumption
    DEF TrafficInv, WatchTypes, TypeInv
  <1>b. /\ \A t \in Tokens : CountBounded(t)
        /\ \A t : InHandBounded(t) /\ HighBounded(t)
    BY DEF TrafficInv
  <1>r. restarts' \in {restarts, restarts + 1} /\ restarts' >= restarts
    <2>1. restarts' \in {restarts, restarts + 1}
      BY <1>a DEF Next, Handle, Succeed, Fail, Send, Commit, Rejoin, vars, groupVars
    <2> QED BY <1>a, <2>1, TrafficTypes
  (* Payments are only added, one at a time. *)
  <1>p. /\ unsent' \subseteq unsent /\ IsFiniteSet(Published')
        /\ UNCHANGED token
    <2>1. unsent' = unsent \/ \E m \in unsent : unsent' = unsent \ {m}
      BY <1>a DEF Next, Handle, Succeed, Fail, Send, Commit, Rejoin, vars, groupVars
    <2>2. UNCHANGED token
      BY DEF WatchNext, FraudWork, SkipEvent, Incr, Expire, UpdateRisk, RestartFraud,
             WarehouseWork, ArchiveLine, OpenFails, WriteFails, RestartWarehouse, Midnight,
             WindowEnds, fraudVars, watchVars
    <2>3. CASE unsent' = unsent
      BY <1>a, <2>2, <2>3 DEF Published
    <2>4. ASSUME NEW m \in unsent, unsent' = unsent \ {m} PROVE IsFiniteSet(Published')
      <3>1. Published' \subseteq Published \cup {m}
        BY <2>4 DEF Published
      <3>2. IsFiniteSet(Published \cup {m})
        BY <1>a, FS_AddElement
      <3> QED BY <3>1, <3>2, FS_Subset
    <2> QED BY <2>1, <2>2, <2>3, <2>4
  <1>t. ASSUME NEW t PROVE /\ PaymentsOf(t) \subseteq PaymentsOf(t)'
                           /\ Traffic(t) \in Nat /\ Traffic(t)' \in Nat
                           /\ Traffic(t) <= Traffic(t)'
    <2>1. PaymentsOf(t) \subseteq PaymentsOf(t)'
      BY <1>p DEF PaymentsOf, Published
    <2>2. IsFiniteSet(PaymentsOf(t)') /\ IsFiniteSet(PaymentsOf(t))
      <3>1. PaymentsOf(t)' \subseteq Published' /\ PaymentsOf(t) \subseteq Published
        BY DEF PaymentsOf
      <3> QED BY <1>a, <1>p, <3>1, FS_Subset
    <2> QED BY <2>1, <2>2, FS_Subset, FS_CardinalityType DEF Traffic
  <1>n. /\ restarts \in Nat /\ restarts' \in Nat /\ VelocityLimit \in Nat
        /\ lost \in Nat /\ lost' \in Nat
        /\ attempts \in Nat /\ attempts' \in Nat
        /\ \A t \in Tokens : counter[t] \in Nat /\ counter'[t] \in Nat
        /\ \A t : Cardinality(Passed(t)) \in Nat /\ Cardinality(Passed(t)') \in Nat
        /\ \A t : InHand(t) \in Nat /\ InHand(t)' \in Nat
    <2>1. IsFiniteSet(Published)'
      BY <1>p
    <2>2. \A t : Passed(t)' \subseteq Published'
      BY DEF Passed, PaymentsOf
    <2>3. \A t : Cardinality(Passed(t)') \in Nat
      BY <2>1, <2>2, FS_Subset, FS_CardinalityType
    <2>4. attempts' \in Nat /\ lost' \in Nat /\ \A t \in Tokens : counter'[t] \in Nat
      BY <1>a DEF FraudTypes
    <2> QED BY <1>a, <1>r, <2>3, <2>4, TrafficTypes DEF InHand
  <1>l. lost <= lost'
    <2>1. lost' = lost \/ lost' = lost + 1
      <3>1. CASE Incr
        BY <1>a, <3>1, IncrMeans
      <3>2. CASE ~Incr
        BY <3>2 DEF WatchNext, FraudWork, SkipEvent, Expire, UpdateRisk, RestartFraud,
             WarehouseWork, ArchiveLine, OpenFails, WriteFails, RestartWarehouse, Midnight,
             WindowEnds, fraudVars, mishapVars, watchVars
      <3> QED BY <3>1, <3>2
    <2> QED BY <1>n, <2>1
  (* What was marked high for a reason stays so. *)
  <1>g. ASSUME NEW t
        PROVE  Bound(t) \in Nat /\ Bound(t)' \in Nat /\ Bound(t) <= Bound(t)'
    <2>1. restarts <= restarts'
      BY <1>r, <1>n
    <2>2. /\ Traffic(t) * (1 + restarts) \in Nat /\ Traffic(t)' * (1 + restarts') \in Nat
          /\ Traffic(t) * (1 + restarts) <= Traffic(t)' * (1 + restarts')
      BY <1>t, <1>n, <2>1, ProductsGrow, Zenon
    <2> DEFINE x == Traffic(t) * (1 + restarts)
               y == Traffic(t)' * (1 + restarts')
    <2>3. x \in Nat /\ y \in Nat /\ x <= y
      BY <2>2
    <2>4. Bound(t) = x + lost /\ Bound(t)' = y + lost'
      BY DEF Bound
    <2> HIDE DEF x, y
    <2> QED BY <1>l, <1>n, <2>3, <2>4
  <1>h. ASSUME NEW t,
               \A m \in Messages : token[m] = t /\ risk'[m] = "high" =>
                   risk[m] = "high" \/ Bound(t) > VelocityLimit
        PROVE  HighBounded(t)'
    <2>1. SUFFICES ASSUME NEW m \in Messages, token[m] = t, risk'[m] = "high"
                   PROVE  Bound(t)' > VelocityLimit
      BY <1>p DEF HighBounded
    <2>2. Bound(t) > VelocityLimit
      BY <1>b, <1>h, <2>1 DEF HighBounded
    <2> QED BY <1>n, <1>g, <2>2
  <1>c. ASSUME NEW t \in Tokens, counter'[t] <= counter[t],
               Cardinality(Passed(t)) + InHand(t) <= Cardinality(Passed(t)') + InHand(t)'
        PROVE  CountBounded(t)'
    <2>1. Cardinality(Passed(t)) + InHand(t) + lost <=
              Cardinality(Passed(t)') + InHand(t)' + lost'
      BY <1>c, <1>l, <1>n
    <2> DEFINE a == Cardinality(Passed(t)) + InHand(t) + lost
               b == Cardinality(Passed(t)') + InHand(t)' + lost'
    <2>2. a \in Nat /\ b \in Nat /\ a <= b
      BY <1>n, <2>1
    <2>3. counter[t] <= Traffic(t) * restarts + a
      BY <1>b DEF CountBounded
    <2>4. Traffic(t) * restarts + a \in Nat
      BY <1>n, <1>t, <2>2, Products
    <2>5. restarts <= restarts' /\ counter'[t] <= Traffic(t) * restarts + a
      BY <1>c, <1>n, <1>r, <2>3, <2>4
    <2> HIDE DEF a, b
    <2>6. counter'[t] <= Traffic(t)' * restarts' + b
      BY <1>n, <1>t, <2>2, <2>5, BoundGrows
    <2> QED BY <2>6 DEF CountBounded, b
  <1>s. ASSUME \A t \in Tokens : counter'[t] <= counter[t],
               \A t \in Tokens :
                   Cardinality(Passed(t)) + InHand(t) <= Cardinality(Passed(t)') + InHand(t)',
               step' # "Incr" => /\ step # "Incr" /\ Card' = Card
                                 /\ attempts' = attempts,
               risk' \in [Messages -> {"none", "low", "high"}],
               \A t : \A m \in Messages : token[m] = t /\ risk'[m] = "high" =>
                   risk[m] = "high" \/ Bound(t) > VelocityLimit
        PROVE  TrafficInv'
    <2>1. ASSUME NEW t PROVE InHandBounded(t)'
      <3>1. SUFFICES ASSUME step' # "Incr", Card' = t
                     PROVE  attempts' <= Bound(t)'
        BY DEF InHandBounded
      <3>2. attempts <= Bound(t) /\ attempts' = attempts
        BY <1>b, <1>s, <3>1 DEF InHandBounded
      <3> QED BY <1>n, <1>g, <3>2
    <2>2. \A t \in Tokens : CountBounded(t)'
      BY <1>c, <1>s
    <2>3. \A t : HighBounded(t)'
      BY <1>h, <1>s
    <2> QED BY <1>a, <1>p, <1>s, <2>1, <2>2, <2>3 DEF TrafficInv
  (* The steps in which fraud's event and its progress stay. *)
  <1>k. ASSUME UNCHANGED <<risk, attempts>>, step' # "Incr" <=> step # "Incr",
               step # "Incr" => Card' = Card,
               \A t \in Tokens : counter'[t] <= counter[t],
               restarts' = restarts \/ position'[Fraud] = position[Fraud],
               position'[Fraud] # position[Fraud] + 1
        PROVE  TrafficInv'
    <2>1. ~(Succeed(Fraud) \/ Fail(Fraud))
      BY <1>a, <1>k, EventTaken
    <2>2. \A t \in Tokens : Passed(t)' = Passed(t)
      <3>1. CASE unsent' = unsent /\ Ahead(Fraud)' = Ahead(Fraud)
        BY <1>p, <3>1 DEF Passed, PaymentsOf, Published
      <3>2. ASSUME NEW m \in unsent, unsent' = unsent \ {m},
                   Ahead(Fraud)' = Ahead(Fraud) \cup {m}
            PROVE  \A t \in Tokens : Passed(t)' = Passed(t)
        BY <1>p, <3>2 DEF Passed, PaymentsOf, Published
      <3> QED BY <1>a, <1>k, <2>1, <3>1, <3>2, AheadCases
    <2>3. \A t \in Tokens : InHand(t)' = InHand(t)
      BY <1>k DEF InHand
    <2>4. \A t \in Tokens :
              Cardinality(Passed(t)) + InHand(t) <= Cardinality(Passed(t)') + InHand(t)'
      BY <1>n, <2>2, <2>3
    <2> QED BY <1>a, <1>k, <1>s, <2>4
  (* A payment in hand is not among those passed. *)
  <1>i. ASSUME NEW t \in Tokens, Ready(Fraud), Card = t
        PROVE  Cardinality(Passed(t)) + 1 <= Traffic(t)
    <2>1. Event \in PaymentsOf(t) /\ Passed(t) \subseteq PaymentsOf(t) \ {Event}
      BY <1>a, <1>i, EventIsAhead DEF PaymentsOf, Passed, Card
    <2>2. /\ IsFiniteSet(PaymentsOf(t)) /\ IsFiniteSet(PaymentsOf(t) \ {Event})
          /\ Cardinality(PaymentsOf(t) \ {Event}) = Traffic(t) - 1
      BY <1>a, <2>1, TrafficTypes, FS_RemoveElement DEF Traffic
    <2>3. Cardinality(Passed(t)) <= Cardinality(PaymentsOf(t) \ {Event})
      BY <2>1, <2>2, FS_Subset
    <2> QED BY <1>n, <1>t, <2>2, <2>3
  <1>m. ASSUME NEW t PROVE /\ Traffic(t) * restarts \in Nat
                           /\ Traffic(t) * (1 + restarts) = Traffic(t) * restarts + Traffic(t)
                           /\ Traffic(t) * (restarts + 1) = Traffic(t) * restarts + Traffic(t)
                           /\ Bound(t) = Traffic(t) * restarts + Traffic(t) + lost
    BY <1>n, <1>t, Products DEF Bound
  <1>1. CASE Incr
    <2>1. /\ Card \in Tokens /\ Card' = Card /\ step = "Incr"
          /\ UNCHANGED <<log, position, restarts, unsent, risk>>
          /\ \A t \in Tokens \ {Card} : counter'[t] = counter[t]
          /\ counter'[Card] <= counter[Card] + 1
          /\ \/ step' = "Incr" /\ lost' = lost + 1
             \/ step' # "Incr" /\ lost' = lost /\ attempts' \in {0, counter'[Card]}
          /\ Ready(Fraud)
      <3>1. counter[Card] \in Nat
        BY <1>a, <1>1, IncrMeans DEF FraudTypes
      <3> QED BY <1>a, <1>1, <3>1, IncrMeans DEF vars, topicVars, groupVars
    <2>2. \A t : Traffic(t)' = Traffic(t) /\ Passed(t)' = Passed(t)
      BY <1>p, <2>1 DEF Traffic, Passed, PaymentsOf, Published, Ahead
    <2>3. ASSUME NEW t \in Tokens PROVE CountBounded(t)' /\ InHandBounded(t)'
      <3>1. InHand(t) = 0
        BY <2>1 DEF InHand
      <3>2. CASE t # Card
        <4>1. InHand(t)' = 0 /\ counter'[t] <= counter[t]
          BY <1>n, <2>1, <3>2 DEF InHand
        <4>2. CountBounded(t)'
          BY <1>c, <1>n, <2>2, <3>1, <4>1
        <4>3. InHandBounded(t)'
          BY <2>1, <3>2 DEF InHandBounded
        <4> QED BY <4>2, <4>3
      <3>3. CASE t = Card
        <4>1. InHand(t)' + lost' = lost + 1 /\ counter'[t] <= counter[t] + 1
          BY <1>n, <2>1, <3>3 DEF InHand
        <4>2. counter[t] <= Traffic(t) * restarts + (Cardinality(Passed(t)) + 0 + lost)
          BY <1>b, <3>1 DEF CountBounded
        <4>3. counter'[t] <= Traffic(t) * restarts + (Cardinality(Passed(t)) + (lost + 1))
          BY <1>n, <1>m, <4>1, <4>2
        <4>4. CountBounded(t)'
          <5>1. Cardinality(Passed(t)') + InHand(t)' + lost' = Cardinality(Passed(t)) + (lost + 1)
            BY <1>n, <2>2, <4>1
          <5>2. Traffic(t)' * restarts' = Traffic(t) * restarts
            BY <2>1, <2>2
          <5> QED BY <4>3, <5>1, <5>2 DEF CountBounded
        <4>5. counter'[t] <= Bound(t)
          BY <1>n, <1>m, <1>i, <1>t, <2>1, <3>3, <4>3
        <4>6. InHandBounded(t)'
          <5>1. SUFFICES ASSUME step' # "Incr" PROVE attempts' <= Bound(t)'
            BY DEF InHandBounded
          <5>2. attempts' <= Bound(t)
            BY <1>g, <1>n, <2>1, <3>3, <4>5, <5>1
          <5> QED BY <1>g, <1>n, <5>2
        <4> QED BY <4>4, <4>6
      <3> QED BY <3>2, <3>3
    <2>4. ASSUME NEW t, t \notin Tokens PROVE InHandBounded(t)'
      BY <2>1, <2>4 DEF InHandBounded
    <2>5. \A t : HighBounded(t)'
      BY <1>h, <2>1
    <2> QED BY <1>a, <1>p, <2>1, <2>3, <2>4, <2>5 DEF TrafficInv
  <1>2. CASE Expire
    <2>1. /\ step = "Expire" /\ step' = "Update"
          /\ UNCHANGED <<risk, attempts, counter, log, position, restarts>>
      BY <1>2 DEF Expire, vars, topicVars, groupVars
    <2>2. Card' = Card
      BY <1>p, <2>1 DEF Card, Event, Fetched
    <2>3. position'[Fraud] # position[Fraud] + 1
      BY <1>a, <2>1 DEF LogTypes
    <2> QED BY <1>k, <1>n, <2>1, <2>2, <2>3
  <1>3. CASE SkipEvent \/ UpdateRisk
    <2>1. /\ step' = "Incr" /\ UNCHANGED counter /\ (Succeed(Fraud) \/ Fail(Fraud))
      BY <1>3 DEF SkipEvent, UpdateRisk, fraudVars, redisVars
    <2>2. /\ Ready(Fraud) /\ unsent' = unsent /\ restarts' = restarts
          /\ Ahead(Fraud)' = Ahead(Fraud) \ {Event}
      BY <1>a, <2>1, EventTaken
    <2>3. Event \in Ahead(Fraud) /\ Event \in Published
      BY <1>a, <2>2, EventIsAhead
    <2>4. ASSUME NEW t \in Tokens
          PROVE  Cardinality(Passed(t)) + InHand(t) <= Cardinality(Passed(t)') + InHand(t)'
      <3>1. InHand(t)' = 0
        BY <2>1 DEF InHand
      <3>2. IsFiniteSet(Passed(t)) /\ IsFiniteSet(Passed(t)')
        <4>1. Passed(t)' \subseteq Published'
          BY DEF Passed, PaymentsOf
        <4> QED BY <1>a, <1>p, <4>1, TrafficTypes, FS_Subset
      <3>3. CASE step # "Incr" /\ Card = t
        <4>1. Passed(t)' = Passed(t) \cup {Event} /\ Event \notin Passed(t)
          BY <1>p, <2>2, <2>3, <3>3 DEF Passed, PaymentsOf, Published, Card
        <4>2. Cardinality(Passed(t)') = Cardinality(Passed(t)) + 1
          BY <3>2, <4>1, FS_AddElement
        <4> QED BY <1>n, <3>1, <3>3, <4>2 DEF InHand
      <3>4. CASE ~(step # "Incr" /\ Card = t)
        <4>1. Passed(t) \subseteq Passed(t)'
          BY <1>p, <2>2 DEF Passed, PaymentsOf, Published
        <4>2. Cardinality(Passed(t)) <= Cardinality(Passed(t)')
          BY <3>2, <4>1, FS_Subset
        <4>3. InHand(t) = 0
          BY <3>4 DEF InHand
        <4> QED BY <1>n, <3>1, <4>2, <4>3
      <3> QED BY <3>3, <3>4
    <2>5. /\ risk' \in [Messages -> {"none", "low", "high"}]
          /\ \A t : \A m \in Messages : token[m] = t /\ risk'[m] = "high" =>
                 risk[m] = "high" \/ Bound(t) > VelocityLimit
      <3>1. CASE risk' = risk
        BY <1>a, <3>1
      <3>2. CASE step = "Update" /\ risk' = [risk EXCEPT ![Event] = Score]
        <4>1. Event \in Messages /\ Score \in {"low", "high"}
          BY <1>a, <2>2, FetchedType DEF Event, Score
        <4>2. /\ risk' \in [Messages -> {"none", "low", "high"}]
              /\ \A m \in Messages : risk'[m] = "high" =>
                     risk[m] = "high" \/ (m = Event /\ Score = "high")
          BY <1>a, <3>2, <4>1
        <4>3. ASSUME NEW t, token[Event] = t, Score = "high"
              PROVE  Bound(t) > VelocityLimit
          <5>1. attempts > VelocityLimit
            BY <4>3 DEF Score, TooFast
          <5>2. attempts <= Bound(t)
            BY <1>b, <3>2, <4>3 DEF InHandBounded, Card
          <5> QED BY <1>n, <1>g, <5>1, <5>2
        <4> QED BY <4>2, <4>3
      <3> QED BY <1>3, <3>1, <3>2 DEF SkipEvent, UpdateRisk, fraudVars
    <2>6. \A t \in Tokens : counter'[t] <= counter[t]
      BY <1>n, <2>1
    <2> QED BY <1>s, <2>1, <2>4, <2>5, <2>6
  <1>4. CASE RestartFraud
    <2>1. /\ step' = "Incr" /\ UNCHANGED <<counter, risk, unsent, lost>>
          /\ restarts' = restarts + 1
      BY <1>4 DEF RestartFraud, redisVars, mishapVars, Rejoin
    <2>2. \A t : Traffic(t)' = Traffic(t)
      BY <1>p, <2>1 DEF Traffic, PaymentsOf, Published
    <2>3. ASSUME NEW t \in Tokens PROVE CountBounded(t)'
      <3>1. Cardinality(Passed(t)) + InHand(t) <= Traffic(t)
        <4>1. CASE step # "Incr" /\ Card = t
          BY <1>a, <1>i, <4>1 DEF InHand, FraudTypes
        <4>2. CASE ~(step # "Incr" /\ Card = t)
          <5>1. InHand(t) = 0 /\ Cardinality(Passed(t)) <= Traffic(t)
            BY <1>a, <4>2, TrafficTypes DEF InHand
          <5> QED BY <1>n, <5>1
        <4> QED BY <4>1, <4>2
      <3>2. counter[t] <= Traffic(t) * restarts + (Cardinality(Passed(t)) + InHand(t) + lost)
        BY <1>b DEF CountBounded
      <3>3. counter[t] <= Traffic(t) * (restarts + 1) + lost
        BY <1>n, <1>m, <1>t, <3>1, <3>2
      <3>4. counter'[t] <= Traffic(t)' * restarts' + lost'
        BY <2>1, <2>2, <3>3
      <3>5. InHand(t)' = 0 /\ Cardinality(Passed(t)') \in Nat
        BY <1>n, <2>1 DEF InHand
      <3>6. Traffic(t)' * restarts' \in Nat
        BY <1>n, <1>t, Products
      <3> QED BY <1>n, <3>4, <3>5, <3>6 DEF CountBounded
    <2>4. \A t : InHandBounded(t)'
      BY <2>1 DEF InHandBounded
    <2>5. \A t : HighBounded(t)'
      BY <1>h, <2>1
    <2> QED BY <1>a, <1>p, <2>1, <2>3, <2>4, <2>5 DEF TrafficInv
  <1>5. CASE \/ WarehouseWork \/ RestartWarehouse \/ Midnight
             \/ \E t \in Tokens : WindowEnds(t)
             \/ /\ \/ \E m \in Messages : Send(m)
                   \/ \E g \in Groups : Commit(g)
                   \/ Forget /\ UNCHANGED groupVars
                /\ UNCHANGED <<fraudVars, archiveVars>>
             \/ UNCHANGED watchVars
    <2>1. Keeps(Fraud) /\ UNCHANGED <<token, step, attempts, risk, errors, lost>>
      BY <1>a, <1>5, FraudUndisturbed
    <2>2. step # "Incr" => Card' = Card
      BY <1>a, <2>1 DEF Keeps, FraudTypes, Card, Event
    <2>3. \A t \in Tokens : counter'[t] <= counter[t]
      <3>1. CASE \E u \in Tokens : WindowEnds(u)
        BY <1>a, <1>n, <3>1 DEF WindowEnds, FraudTypes
      <3>2. CASE counter' = counter
        BY <1>n, <3>2
      <3> QED BY <1>5, <3>1, <3>2
              DEF WarehouseWork, ArchiveLine, OpenFails, WriteFails, RestartWarehouse, Midnight,
                  fraudVars, redisVars, watchVars
    <2>4. /\ position'[Fraud] # position[Fraud] + 1
          /\ restarts' = restarts \/ position'[Fraud] = position[Fraud]
      <3>a. /\ Warehouse \in Groups /\ Fraud # Warehouse /\ position[Fraud] \in Nat
            /\ position \in [Groups -> Nat]
        BY <1>a, WatchersAssumption DEF LogTypes
      <3>1. CASE Succeed(Warehouse) \/ Fail(Warehouse) \/ Rejoin(Warehouse)
        <4>1. position'[Fraud] = position[Fraud]
          <5>1. CASE Succeed(Warehouse) \/ Fail(Warehouse)
            <6>1. position' = [position EXCEPT ![Warehouse] = @ + 1]
              BY <5>1 DEF Succeed, Fail, HandlerSucceeds, HandlerFails, Advance
            <6> QED BY <3>a, <6>1
          <5>2. CASE Rejoin(Warehouse)
            <6>1. position' = [position EXCEPT ![Warehouse] = ResumeAt(Warehouse)]
              BY <5>2 DEF Rejoin, Restart
            <6> QED BY <3>a, <6>1
          <5> QED BY <3>1, <5>1, <5>2
        <4> QED BY <3>a, <4>1
      <3>2. CASE \/ \E m \in Messages : Send(m)
                 \/ \E g \in Groups : Commit(g)
                 \/ UNCHANGED vars
        <4>1. position' = position
          BY <3>2 DEF Send, Publish, Commit, CommitMessages, vars, topicVars
        <4> QED BY <3>a, <4>1
      <3>3. CASE Forget /\ UNCHANGED groupVars
        <4>1. position'[Fraud] = position[Fraud] - 1 /\ restarts' = restarts
          BY <1>a, <3>3, LogForgets DEF groupVars
        <4> QED BY <3>a, <4>1
      <3> QED BY <1>5, <3>1, <3>2, <3>3
              DEF WarehouseWork, ArchiveLine, OpenFails, WriteFails, RestartWarehouse, Midnight,
                  WindowEnds, watchVars
    <2> QED BY <1>k, <2>1, <2>2, <2>3, <2>4
  <1> QED BY <1>1, <1>2, <1>3, <1>4, <1>5 DEF WatchNext, FraudWork

(* No payment is marked high without more payments of its card than the      *)
(* limit, where a restart lets each count again and so does every repeated   *)
(* INCR, for any limit, number of cards, payments, restarts and repetitions  *)
(* (fraud_service.go:54-62, redis.go:18-23).                                 *)
THEOREM AlertsNeedTraffic == WatchSpec => []HighRiskNeedsTraffic
<1>1. TrafficInv => HighRiskNeedsTraffic
  BY DEF TrafficInv, HighBounded, HighRiskNeedsTraffic, Bound, Traffic
<1>2. QED BY <1>1, TrafficInit, TrafficStep, PTL DEF WatchSpec
=============================================================================
