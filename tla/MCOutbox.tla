------------------------------ MODULE MCOutbox ------------------------------
(* Outbox for TLC: the constants are given in the configurations. *)
EXTENDS Outbox, TLC

=============================================================================
