--------------------------- MODULE MCSubscriptions ---------------------------
(* Subscriptions for TLC: a monthly and a quarterly plan, in months. *)
EXTENDS Subscriptions, TLC

CONSTANTS monthly, quarterly

MCCycle == (monthly :> 1) @@ (quarterly :> 3)

Symmetric == Permutations(Requests)
=============================================================================
