----------------------------- MODULE MCDispatch -----------------------------
(* Dispatch for TLC: its sets of ids are all symmetric. *)
EXTENDS Dispatch, TLC

Symmetric ==
  Permutations(Requests) \cup Permutations(Technicians)
    \cup Permutations(Bookings) \cup Permutations(Rows)
=============================================================================
