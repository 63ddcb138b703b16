--------------------------- MODULE WebhookDispatch ---------------------------
(***************************************************************************)
(* services/webhook: the consumer of webhook_events that posts each event  *)
(* to the merchant, in up to MaxRetries attempts that share one deadline.  *)
(* Time is counted in seconds from the moment the handler starts; what a   *)
(* lookup or an attempt takes is free up to its timeout.                   *)
(***************************************************************************)
EXTENDS ConsumerGroup

CONSTANTS
    Dispatcher,      \* the service's consumer group, the only one of the topic
    MaxRetries,      \* maxRetries
    Deadline,        \* of the context the whole handler runs under
    ClientTimeout    \* of one HTTP call

ASSUME DispatchAssumption ==
    /\ Groups = {Dispatcher}
    /\ HandlerMayFail
    /\ {MaxRetries, Deadline, ClientTimeout} \subseteq Nat \ {0}

VARIABLES
    attempt,     \* the attempt that is next, 0 before the lookup
    backoff,     \* the pause after it
    elapsed,     \* seconds since the handler started
    timeouts,    \* attempts of this call of the handler that timed out (ghost)
    received,    \* message -> attempts that reached the merchant
    skipped      \* messages whose merchant had no webhook URL

callVars == <<attempt, backoff, elapsed, timeouts>>
dispatchVars == <<callVars, received, skipped>>
webhookVars == <<vars, dispatchVars>>

Message == Fetched(Dispatcher)

Start(t, n) == elapsed' = t /\ attempt' = n /\ backoff' = 1 /\ timeouts' = 0

DispatchInit ==
    /\ Init
    /\ attempt = 0 /\ backoff = 1 /\ elapsed = 0 /\ timeouts = 0
    /\ received = [m \in Messages |-> 0]
    /\ skipped = {}

-----------------------------------------------------------------------------
(* The two SELECTs find the merchant and its URL. *)
Lookup ==
    /\ attempt = 0
    /\ Ready(Dispatcher)
    /\ \E t \in 0..Deadline - 1 : Start(t, 1)
    /\ UNCHANGED <<vars, received, skipped>>

(* No payment, an error of the database, the deadline. *)
LookupFails ==
    /\ attempt = 0
    /\ Fail(Dispatcher)
    /\ UNCHANGED dispatchVars

NoWebhookURL ==
    /\ attempt = 0
    /\ Succeed(Dispatcher)
    /\ skipped' = skipped \cup {Message}
    /\ UNCHANGED <<callVars, received>>

OwnContext == FALSE                                                    \* mutant
Expired == elapsed >= Deadline

OwnTimeout == ClientTimeout                                            \* mutant
(* What is left for one attempt. *)
Limit == IF Deadline - elapsed < ClientTimeout THEN Deadline - elapsed ELSE ClientTimeout

Arrives(yes) ==
    received' = IF yes THEN [received EXCEPT ![Message] = @ + 1] ELSE received

LogsTheLastError == Succeed(Dispatcher) /\ Start(0, 0)                 \* mutant
StartsOver == Start(0, 1) /\ UNCHANGED vars                            \* mutant

(* The error after the last attempt: the loop of Consume goes on without it. *)
GivesUp == Fail(Dispatcher) /\ Start(0, 0)

OneMore == attempt <= MaxRetries                                       \* mutant
MayRetry == attempt < MaxRetries

(* An attempt fails after d seconds.  The pause is a plain Sleep: it does not *)
(* end when the context does.                                                 *)
AttemptFails(d, arrived, timedOut) ==
    /\ Arrives(arrived)
    /\ \/ /\ MayRetry
          /\ attempt' = attempt + 1
          /\ elapsed' = elapsed + d + backoff
          /\ backoff' = 2 * backoff
          /\ timeouts' = IF timedOut THEN timeouts + 1 ELSE timeouts
          /\ UNCHANGED vars
       \/ ~MayRetry /\ GivesUp
    /\ UNCHANGED skipped

(* sendWebhook.  Under an expired context the request is not even sent.  A   *)
(* timeout says nothing of whether the merchant got it.  An attempt is all   *)
(* that the HTTP client does within its timeout: a redirect is followed in   *)
(* it, and the answer to the last hop is its result.                         *)
SendWebhook ==
    /\ attempt > 0
    /\ \/ ~Expired /\ Arrives(TRUE) /\ Succeed(Dispatcher) /\ Start(0, 0)
          /\ UNCHANGED skipped                                          \* 2xx
       \/ Expired /\ AttemptFails(0, FALSE, FALSE)
       \/ ~Expired /\ \E d \in 0..Limit - 1, arrived \in BOOLEAN :
             AttemptFails(d, arrived, FALSE)          \* another status, or refused
       \/ ~Expired /\ \E arrived \in BOOLEAN : AttemptFails(Limit, arrived, TRUE)

(* The service stops in the middle of a call, or two seconds after a signal. *)
Stop == Rejoin(Dispatcher) /\ Start(0, 0) /\ UNCHANGED <<received, skipped>>

Work == Lookup \/ LookupFails \/ NoWebhookURL \/ SendWebhook

DispatchNext ==
    \/ Work
    \/ Stop
    \/ /\ \/ \E m \in Messages : Send(m)
          \/ Commit(Dispatcher)
          \/ Forget /\ UNCHANGED groupVars
       /\ UNCHANGED dispatchVars

DispatchSpec == DispatchInit /\ [][DispatchNext]_webhookVars

(* The loop runs, and every call it makes has a timeout. *)
DispatchFairSpec ==
    /\ DispatchSpec
    /\ WF_webhookVars(Work)
    /\ WF_webhookVars(Commit(Dispatcher) /\ UNCHANGED dispatchVars)

-----------------------------------------------------------------------------
(* A merchant is never flooded: an event reaches it at most MaxRetries times  *)
(* and as often again after each restart, whatever times out, whatever commit *)
(* is lost (webhook_service.go:82-97, consumer.go:42-49).                     *)
NoticesBounded == \A m \in Messages : received[m] <= MaxRetries * (1 + restarts)

(* An event counts as handled only if the merchant got it at least once, or   *)
(* had no URL to get it at (webhook_service.go:65, 85, 97).                   *)
HandledWasReceived ==
    \A m \in handled[Dispatcher] \ skipped : received[m] > 0

(* Head of line: a merchant that does not answer holds up the events of the   *)
(* others for no longer than the deadline and the pauses, since everything    *)
(* but the pauses is under the one context (webhook_service.go:49, 79-95).    *)
HandlerTimeBounded == elapsed < Deadline + backoff

(* The third attempt is for merchants that fail fast: after two timeouts the  *)
(* deadline has passed and it is not sent (webhook_service.go:28, 49, 83).    *)
NoThirdAfterTimeouts ==
    [][timeouts = 2 /\ attempt = 3 => UNCHANGED received]_webhookVars

(* Seen from Kafka the dispatcher is a consumer like any other: each message  *)
(* gets a result and the loop goes on (webhook cmd/main.go:40-45).            *)
ImplementsConsumer == FairSpec
=============================================================================
