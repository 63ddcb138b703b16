-------------------------- MODULE MCPooledGateway --------------------------
(***************************************************************************)
(* Instances of PooledGateway for TLC.  Requests and keys are               *)
(* interchangeable, but TLC may not use symmetry when it checks liveness:   *)
(* number the requests in the order in which they arrive and the keys in    *)
(* the order of their first use.                                            *)
(***************************************************************************)
EXTENDS PooledGateway

ArrivesInOrder(r) ==
    pc[r] = "idle" /\ pc'[r] # "idle" =>
        /\ \A q \in 1..r - 1 : pc[q] # "idle"
        /\ \A k \in 1..key'[r] - 1 : \E q \in Requests : key[q] = k

(* Bound: only the last request is refused or has a body that is in error. *)
Bad == {r \in Requests : body[r] \in {"not_json", "rejected"} \/ response[r].code \in {400, 401}}

MCNext ==
    /\ PoolNext
    /\ \A r \in Requests : ArrivesInOrder(r)
    /\ \A r \in Bad' : \A q \in Requests : q <= r

MCSpec == PoolInit /\ [][MCNext]_poolVars /\ PoolFairness
=============================================================================
