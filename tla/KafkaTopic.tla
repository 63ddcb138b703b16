----------------------------- MODULE KafkaTopic -----------------------------
(***************************************************************************)
(* One topic and the consumer loops of internal/kafka over it.  The        *)
(* compose file leaves num.partitions at 1, so a topic is one log.  Every  *)
(* service has a group of its own with one reader: Consume fetches the     *)
(* next message, calls the service's handler, and commits the message's    *)
(* offset if the handler returned nil.  A commit moves the group's offset  *)
(* past every earlier message too.                                         *)
(*                                                                         *)
(* This module has the steps; ConsumerGroup checks them on their own and   *)
(* MoneyFlow instantiates them under its handlers.                         *)
(***************************************************************************)
EXTENDS Integers, Sequences

CONSTANTS
    Groups,    \* consumer groups of the topic
    Joined,    \* those that committed an offset before the behaviour starts
    MaxLog,    \* bound: messages that some group has not committed yet
    LossyCommit   \* may CommitMessages return an error?

ASSUME TopicAssumption ==
    MaxLog \in Nat /\ LossyCommit \in BOOLEAN /\ Joined \subseteq Groups

VARIABLES
    log,        \* the messages some group may still read
    position,   \* group -> how many of them its reader has fetched
    committed,  \* group -> committed offset, NoOffset when it never committed
    acking      \* group -> has the handler returned nil for log[position],
                \*          CommitMessages still to be called?

topicVars == <<log, position, committed, acking>>

NoOffset == -1

TopicTypeOK(Message) ==
    /\ log \in Seq(Message) /\ Len(log) <= MaxLog
    /\ position \in [Groups -> 0..Len(log)]
    /\ committed \in [Groups -> {NoOffset} \cup 0..Len(log)]
    /\ acking \in [Groups -> BOOLEAN]

(* Every reader is at the end of a topic whose messages, if there were any,  *)
(* are behind all of them; a group that consumed some has an offset.         *)
TopicInit ==
    /\ log = <<>>
    /\ position = [g \in Groups |-> 0]
    /\ committed = [g \in Groups |-> IF g \in Joined THEN 0 ELSE NoOffset]
    /\ acking = [g \in Groups |-> FALSE]

Publish(m) ==
    /\ Len(log) < MaxLog
    /\ log' = Append(log, m)
    /\ UNCHANGED <<position, committed, acking>>

(* FetchMessage would return: the loop is back at its top and a message is there. *)
Ready(g) == ~acking[g] /\ position[g] < Len(log)
Fetched(g) == log[position[g] + 1]

Advance(g) == position' = [position EXCEPT ![g] = @ + 1]

(* The handler returned nil for the fetched message. *)
HandlerSucceeds(g) ==
    /\ Ready(g)
    /\ Advance(g)
    /\ acking' = [acking EXCEPT ![g] = TRUE]
    /\ UNCHANGED <<log, committed>>

RetriesInPlace(g) == Ready(g) /\ UNCHANGED topicVars                   \* mutant

(* The handler returned an error: it is logged and the loop goes on to the  *)
(* next message without a commit.                                           *)
HandlerFails(g) ==
    /\ Ready(g)
    /\ Advance(g)
    /\ UNCHANGED <<log, committed, acking>>

CommitTooFar(g) ==                                                     \* mutant
    /\ acking[g]
    /\ acking' = [acking EXCEPT ![g] = FALSE]
    /\ committed' = [committed EXCEPT ![g] = position[g] + 1]
    /\ UNCHANGED <<log, position>>

FetchesAgainOnError(g) ==                                              \* mutant
    /\ acking[g]
    /\ acking' = [acking EXCEPT ![g] = FALSE]
    /\ \/ committed' = [committed EXCEPT ![g] = position[g]] /\ UNCHANGED position
       \/ LossyCommit /\ position' = [position EXCEPT ![g] = @ - 1] /\ UNCHANGED committed
    /\ UNCHANGED log

(* The commit after a nil; its error is only logged. *)
CommitMessages(g) ==
    /\ acking[g]
    /\ acking' = [acking EXCEPT ![g] = FALSE]
    /\ \/ committed' = [committed EXCEPT ![g] = position[g]]
       \/ LossyCommit /\ UNCHANGED committed
    /\ UNCHANGED <<log, position>>

ResumeAtEnd(g) == Len(log)                                             \* mutant
ResumeAtFirst(g) == 0                                                  \* mutant

(* StartOffset: LastOffset, used by a group without a committed offset. *)
ResumeAt(g) == IF committed[g] = NoOffset THEN Len(log) ELSE committed[g]

(* The service dies and its reader joins the group again. *)
Restart(g) ==
    /\ position' = [position EXCEPT ![g] = ResumeAt(g)]
    /\ acking' = [acking EXCEPT ![g] = FALSE]
    /\ UNCHANGED <<log, committed>>

(* No reader goes back behind its offset, nor behind its position while it   *)
(* has none: forget a message that is behind all of them.  This keeps the    *)
(* log of a system that polls for ever finite.                               *)
Behind(g) == position[g] > 0 /\ committed[g] # 0

Forget ==
    /\ log # <<>>
    /\ \A g \in Groups : Behind(g)
    /\ log' = Tail(log)
    /\ position' = [g \in Groups |-> position[g] - 1]
    /\ committed' = [g \in Groups |->
                       IF committed[g] = NoOffset THEN NoOffset ELSE committed[g] - 1]
    /\ UNCHANGED acking
=============================================================================
