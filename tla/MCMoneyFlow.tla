----------------------------- MODULE MCMoneyFlow -----------------------------
(* Instances of MoneyFlow for TLC: every payment is worth 1 in 'usd'. *)
EXTENDS MoneyFlow, TLC

UnitAmount == [p \in Payments |-> 1]
AllUsd == [p \in Payments |-> "usd"]

Symmetric == Permutations(Payments) \cup Permutations(Admins)
=============================================================================
