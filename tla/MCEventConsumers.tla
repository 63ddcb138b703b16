-------------------------- MODULE MCEventConsumers --------------------------
(***************************************************************************)
(* Instances of EventConsumers for TLC.  The two messages are               *)
(* interchangeable, but TLC may not use symmetry when it checks liveness:   *)
(* choose one of each class of initial states.                              *)
(***************************************************************************)
EXTENDS EventConsumers

CardsOfMessages == {<<1, 1>>, <<1, NotScored>>}

MCInit == WatchInit /\ token \in CardsOfMessages

MCSpec == MCInit /\ [][WatchNext]_watchVars /\ WatchFairness
=============================================================================
