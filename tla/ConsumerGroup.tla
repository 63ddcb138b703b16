---------------------------- MODULE ConsumerGroup ----------------------------
(***************************************************************************)
(* What internal/kafka delivers to a handler, whatever the handler is:     *)
(* messages are handled in order, again after a restart, and not at all    *)
(* when the handler fails on them or the group starts without an offset.   *)
(***************************************************************************)
EXTENDS KafkaTopic

CONSTANTS
    Messages,      \* each published at most once
    MaxRestarts,   \* bound: restarts of consumers
    HandlerMayFail

ASSUME RestartAssumption == MaxRestarts \in Nat /\ HandlerMayFail \in BOOLEAN

VARIABLES
    unsent,    \* messages not published yet
    handled,   \* group -> messages its handler returned nil for
    failed,    \* group -> messages its handler returned an error for
    missed,    \* group -> messages in the log when it started without an offset
    restarts

groupVars == <<unsent, handled, failed, missed, restarts>>
vars == <<topicVars, groupVars>>

TypeOK ==
    /\ TopicTypeOK(Messages)
    /\ unsent \subseteq Messages
    /\ \A g \in Groups : handled[g] \cup failed[g] \cup missed[g] \subseteq Messages
    /\ restarts \in 0..MaxRestarts

Nothing == [g \in Groups |-> {}]

Init ==
    /\ TopicInit
    /\ unsent = Messages
    /\ handled = Nothing /\ failed = Nothing /\ missed = Nothing
    /\ restarts = 0

Send(m) ==
    /\ m \in unsent
    /\ Publish(m)
    /\ unsent' = unsent \ {m}
    /\ UNCHANGED <<handled, failed, missed, restarts>>

Succeed(g) ==
    /\ HandlerSucceeds(g)
    /\ handled' = [handled EXCEPT ![g] = @ \cup {Fetched(g)}]
    /\ UNCHANGED <<unsent, failed, missed, restarts>>

Fail(g) ==
    /\ HandlerMayFail
    /\ HandlerFails(g)
    /\ failed' = [failed EXCEPT ![g] = @ \cup {Fetched(g)}]
    /\ UNCHANGED <<unsent, handled, missed, restarts>>

(* One turn of the loop in Consume, up to the commit. *)
Handle(g) == Succeed(g) \/ Fail(g)

Commit(g) == CommitMessages(g) /\ UNCHANGED groupVars

Unread(g) == {log[i] : i \in position[g] + 1 .. Len(log)}

Rejoin(g) ==
    /\ restarts < MaxRestarts
    /\ restarts' = restarts + 1
    /\ Restart(g)
    /\ missed' = [missed EXCEPT ![g] =
                    IF committed[g] = NoOffset THEN @ \cup Unread(g) ELSE @]
    /\ UNCHANGED <<unsent, handled, failed>>

Next ==
    \/ \E m \in Messages : Send(m)
    \/ \E g \in Groups : Handle(g) \/ Commit(g) \/ Rejoin(g)
    \/ Forget /\ UNCHANGED groupVars

Spec == Init /\ [][Next]_vars

(* A reader goes round its loop as long as the service runs. *)
FairSpec == Spec /\ \A g \in Groups : WF_vars(Handle(g)) /\ WF_vars(Commit(g))

-----------------------------------------------------------------------------
Published == Messages \ unsent
Ahead(g) == {log[i] : i \in position[g] + 1 .. Len(log)}

(* Nothing disappears silently: a published message that a group will not be *)
(* handed any more was handled, or its handler failed on it, or it was there *)
(* when the group started without an offset (consumer.go:19, 42-50).         *)
AccountedFor ==
    \A g \in Groups :
        Published \ Ahead(g) \subseteq handled[g] \cup failed[g] \cup missed[g]

(* The offset never runs ahead of the handler: what a restart would skip was *)
(* handed to the handler before, or belongs to a cold start.  It is what     *)
(* makes redelivery at-least-once across a crash between the handler's       *)
(* transaction and CommitMessages (consumer.go:42-49).                       *)
OffsetBehindHandler ==
    \A g \in Groups :
        /\ committed[g] <= position[g]
        /\ \A i \in 1..committed[g] : log[i] \in handled[g] \cup failed[g] \cup missed[g]

(* A group that has an offset gets to everything beyond it, across restarts   *)
(* and lost commits: its handler succeeds or fails on it (consumer.go:25-53). *)
BeyondOffset(g) == {log[i] : i \in committed[g] + 1 .. Len(log)}
EventuallyHandled ==
    \A g \in Groups, m \in Messages :
        (committed[g] # NoOffset /\ m \in BeyondOffset(g))
            ~> m \in handled[g] \cup failed[g]
=============================================================================
