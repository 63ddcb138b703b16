--------------------------- MODULE EventConsumers ---------------------------
(***************************************************************************)
(* The two consumers of payment_events that watch: services/fraud counts   *)
(* the payments of a card token in Redis and scores each payment;          *)
(* services/data_warehouse appends every event to a file of the day.       *)
(* Both run the loop of ConsumerGroup, so they see an event again after a  *)
(* restart, and neither the counter nor the file knows that.               *)
(***************************************************************************)
EXTENDS ConsumerGroup, FiniteSets

CONSTANTS
    Fraud, Warehouse,    \* the consumer groups of the topic
    Tokens,              \* card tokens
    NotScored,           \* the token of events that carry no new payment
    VelocityLimit,       \* payments of a token that pass within a window
    MaxErrors            \* bound: failed calls to Redis and torn writes

ASSUME WatchersAssumption ==
    /\ Groups = {Fraud, Warehouse} /\ Fraud # Warehouse
    /\ NotScored \notin Tokens
    /\ VelocityLimit \in Nat /\ MaxErrors \in Nat
    /\ HandlerMayFail

VARIABLES
    token,       \* message -> the token of its event
    counter,     \* token -> fraud_velocity:token:<token>, 0 when there is no key
    ttl,         \* the tokens whose counter has an expiry
    step,        \* the call that fraud's handler makes next
    attempts,    \* what Incr returned to it, 0 after an error
    risk,        \* message -> risk_score of its payment
    lines,       \* message -> its readable lines in the archive
    torn,        \* does today's file end in the middle of a line?
    errors,      \* calls to Redis that returned an error (ghost)
    lost,        \* INCRs that failed and that the client sent again (ghost)
    tears,       \* writes that ended in the middle of a line (ghost)
    ended        \* tokens whose window ended at least once (ghost)

redisVars == <<counter, ttl, ended>>
mishapVars == <<errors, lost>>
fraudVars == <<token, redisVars, step, attempts, risk, mishapVars>>
archiveVars == <<lines, torn, tears>>
watchVars == <<vars, fraudVars, archiveVars>>

WatchInit ==
    /\ Init
    /\ token \in [Messages -> Tokens \cup {NotScored}]
    /\ counter = [t \in Tokens |-> 0]
    /\ ttl = {}
    /\ step = "Incr" /\ attempts = 0
    /\ risk = [m \in Messages |-> "none"]
    /\ lines = [m \in Messages |-> 0]
    /\ torn = FALSE
    /\ errors = 0 /\ lost = 0 /\ tears = 0 /\ ended = {}

-----------------------------------------------------------------------------
(* services/fraud *)

Event == Fetched(Fraud)
Card == token[Event]

(* Only created or authorized payments are scored. *)
SkipEvent ==
    /\ step = "Incr"
    /\ Succeed(Fraud)
    /\ Card = NotScored
    /\ UNCHANGED <<fraudVars, archiveVars>>

Bump == counter' = [counter EXCEPT ![Card] = @ + 1]

SecondAttempt(n) == n = 2                                              \* mutant
FirstAttempt(n) == n = 1

MayGoWrong == errors + lost + tears < MaxErrors

Answered ==
    /\ Bump
    /\ attempts' = counter'[Card]
    /\ step' = IF FirstAttempt(attempts') THEN "Expire" ELSE "Update"
    /\ UNCHANGED mishapVars

(* go-redis sends a command again when no reply comes, three times by        *)
(* default and here as often as the bound allows.  The handler does not see  *)
(* it, and the command whose reply was lost may have counted.                *)
SentAgain ==
    /\ MayGoWrong /\ lost' = lost + 1
    /\ Bump \/ UNCHANGED counter
    /\ UNCHANGED <<step, attempts, errors>>

(* Redis refuses, or the last retry has no reply and may have counted: the   *)
(* error leaves attempts at 0.                                               *)
GivesUp ==
    /\ MayGoWrong /\ errors' = errors + 1
    /\ Bump \/ UNCHANGED counter
    /\ attempts' = 0 /\ step' = "Update"
    /\ UNCHANGED lost

(* One INCR on its way to Redis and back. *)
Incr ==
    /\ step = "Incr"
    /\ Ready(Fraud)
    /\ Card # NotScored
    /\ Answered \/ SentAgain \/ GivesUp
    /\ UNCHANGED <<vars, token, ttl, ended, risk, archiveVars>>

(* EXPIRE, a call of its own, whose error is dropped; sending it again       *)
(* changes nothing.                                                          *)
Expire ==
    /\ step = "Expire"
    /\ \/ ttl' = ttl \cup {Card} /\ UNCHANGED errors
       \/ MayGoWrong /\ errors' = errors + 1 /\ UNCHANGED ttl
    /\ step' = "Update"
    /\ UNCHANGED <<vars, token, counter, ended, attempts, risk, lost, archiveVars>>

OneTooMany(n) == n > VelocityLimit + 1                                 \* mutant
OneTooFew(n) == n >= VelocityLimit                                     \* mutant
TooFast(n) == n > VelocityLimit

(* simulateFraudCheck stays below the 80 of an alert, whatever the amount. *)
Score == IF TooFast(attempts) THEN "high" ELSE "low"

(* The UPDATE of the payments row.  Its error skips the event, written or not. *)
UpdateRisk ==
    /\ step = "Update"
    /\ \/ Succeed(Fraud) /\ risk' = [risk EXCEPT ![Event] = Score]
       \/ Fail(Fraud) /\ (risk' = [risk EXCEPT ![Event] = Score] \/ UNCHANGED risk)
    /\ step' = "Incr" /\ attempts' = 0
    /\ UNCHANGED <<token, redisVars, mishapVars, archiveVars>>

(* 60 s after EXPIRE, whatever the handler is doing. *)
WindowEnds(t) ==
    /\ t \in ttl
    /\ counter' = [counter EXCEPT ![t] = 0]
    /\ ttl' = ttl \ {t}
    /\ ended' = ended \cup {t}
    /\ UNCHANGED <<vars, token, step, attempts, risk, mishapVars, archiveVars>>

RestartFraud ==
    /\ Rejoin(Fraud)
    /\ step' = "Incr" /\ attempts' = 0
    /\ UNCHANGED <<token, redisVars, risk, mishapVars, archiveVars>>

FraudWork == SkipEvent \/ Incr \/ Expire \/ UpdateRisk

-----------------------------------------------------------------------------
(* services/data_warehouse *)

Record == Fetched(Warehouse)

(* A line appended to a torn one cannot be read. *)
ArchiveLine ==
    /\ Succeed(Warehouse)
    /\ lines' = IF torn THEN lines ELSE [lines EXCEPT ![Record] = @ + 1]
    /\ torn' = FALSE
    /\ UNCHANGED <<fraudVars, tears>>

LogsTheError == Succeed(Warehouse) /\ UNCHANGED <<fraudVars, archiveVars>> \* mutant

(* The file cannot be opened. *)
OpenFails == Fail(Warehouse) /\ UNCHANGED <<fraudVars, archiveVars>>

(* A short write, on a full disk: what was written stays in the file. *)
WriteFails ==
    /\ Fail(Warehouse)
    /\ MayGoWrong
    /\ tears' = tears + 1
    /\ torn' = TRUE
    /\ UNCHANGED <<fraudVars, lines>>

(* The next day has a file of its own. *)
Midnight ==
    /\ torn /\ torn' = FALSE
    /\ UNCHANGED <<vars, fraudVars, lines, tears>>

RestartWarehouse == Rejoin(Warehouse) /\ UNCHANGED <<fraudVars, archiveVars>>

WarehouseWork == ArchiveLine \/ OpenFails \/ WriteFails

-----------------------------------------------------------------------------
WatchNext ==
    \/ FraudWork \/ RestartFraud
    \/ WarehouseWork \/ RestartWarehouse
    \/ Midnight
    \/ \E t \in Tokens : WindowEnds(t)
    \/ /\ \/ \E m \in Messages : Send(m)
          \/ \E g \in Groups : Commit(g)
          \/ Forget /\ UNCHANGED groupVars
       /\ UNCHANGED <<fraudVars, archiveVars>>

WatchSpec == WatchInit /\ [][WatchNext]_watchVars

(* Both loops run as long as their service. *)
WatchFairness ==
    /\ WF_watchVars(FraudWork) /\ WF_watchVars(WarehouseWork)
    /\ \A g \in Groups : WF_watchVars(Commit(g) /\ UNCHANGED <<fraudVars, archiveVars>>)

WatchFairSpec == WatchSpec /\ WatchFairness

-----------------------------------------------------------------------------
(* A counter without an expiry stays: its card is too fast for ever.  It     *)
(* takes a crash between INCR and EXPIRE, an error of Redis, or a first INCR  *)
(* that the client repeats, so that the handler never sees a 1; each of these *)
(* costs at most one card (fraud_service.go:54-58, redis.go:18-23).           *)
Eternal ==
    {t \in Tokens : counter[t] > 0 /\ t \notin ttl /\ ~(step = "Expire" /\ Card = t)}
EternalCountersBounded == Cardinality(Eternal) <= restarts + errors + lost

(* No alert without a cause: a payment is marked high only if its card made  *)
(* more payments than the limit, where the redeliveries of a restart count    *)
(* again, and so does each INCR that the client repeated                      *)
(* (fraud_service.go:54-62, redis.go:18-23).                                  *)
PaymentsOf(t) == {m \in Published : token[m] = t}
HighRiskNeedsTraffic ==
    \A m \in Messages : risk[m] = "high" =>
        Cardinality(PaymentsOf(token[m])) * (1 + restarts) + lost > VelocityLimit

(* A burst is noticed: when more than the limit of a card's payments were    *)
(* scored within one window and no call to Redis returned an error, one of    *)
(* them is high, even if others were skipped on an error, the client repeated *)
(* an INCR or the service restarted in between (fraud_service.go:54-62).      *)
BurstNoticed ==
    \A t \in Tokens \ ended :
        errors = 0 /\ Cardinality({m \in handled[Fraud] : token[m] = t}) > VelocityLimit
            => \E m \in Messages : token[m] = t /\ risk[m] = "high"

(* Each torn write spoils at most the one line that is appended to it; every *)
(* other event that the warehouse took is in the archive (dw_service.go:65).  *)
ArchiveLossBounded == Cardinality({m \in handled[Warehouse] : lines[m] = 0}) <= tears

(* The archive repeats an event at most once per restart: a consumer that     *)
(* counts lines overcounts by no more (dw_service.go:36-69).                  *)
ArchiveCopiesBounded == \A m \in Messages : lines[m] <= 1 + restarts
=============================================================================
