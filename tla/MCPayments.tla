----------------------------- MODULE MCPayments -----------------------------
(* Instances of Payments for TLC. *)
EXTENDS Payments, TLC

\* Requests, order ids and refund ids are interchangeable.
Symmetric == Permutations(Requests) \cup Permutations(Orders) \cup Permutations(RefundIds)
=============================================================================
