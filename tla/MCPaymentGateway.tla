-------------------------- MODULE MCPaymentGateway --------------------------
(* Instances of PaymentGateway for TLC, and its mutants. *)
EXTENDS PaymentGateway, TLC

Symmetric == Permutations(Requests) \cup Permutations(Keys)
=============================================================================
