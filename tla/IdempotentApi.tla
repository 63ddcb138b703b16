---------------------------- MODULE IdempotentApi ----------------------------
(***************************************************************************)
(* What an Idempotency-Key promises, whatever stores and locks realise it: *)
(* the key is claimed by one execution, that execution charges at most     *)
(* once, and its outcome becomes the key's answer for good.                *)
(***************************************************************************)
CONSTANTS Keys, Payments, None

VARIABLES
    state,    \* key -> "fresh", "claimed" or "finished"
    charged,  \* key -> the payment charged under it
    told      \* key -> the payment its stored answer names

apiVars == <<state, charged, told>>

Init ==
    /\ state = [k \in Keys |-> "fresh"]
    /\ charged = [k \in Keys |-> None]
    /\ told = [k \in Keys |-> None]

Claim(k) ==
    /\ state[k] = "fresh"
    /\ state' = [state EXCEPT ![k] = "claimed"]
    /\ UNCHANGED <<charged, told>>

Charge(k) ==
    /\ state[k] = "claimed"
    /\ charged[k] = None
    /\ \E p \in Payments : charged' = [charged EXCEPT ![k] = p]
    /\ UNCHANGED <<state, told>>

(* The answer names the charge, or is an error and names no payment. *)
Finish(k) ==
    /\ state[k] = "claimed"
    /\ state' = [state EXCEPT ![k] = "finished"]
    /\ \E p \in {None, charged[k]} : told' = [told EXCEPT ![k] = p]
    /\ UNCHANGED charged

Next == \E k \in Keys : Claim(k) \/ Charge(k) \/ Finish(k)

Spec == Init /\ [][Next]_apiVars
=============================================================================
