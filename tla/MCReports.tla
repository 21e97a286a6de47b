----------------------------- MODULE MCReports -----------------------------
(* Reports for TLC: the requests are symmetric. *)
EXTENDS Reports, TLC

Symmetric == Permutations(Requests)
=============================================================================
