----------------------------- MODULE MCSessions -----------------------------
(* Sessions for TLC: two tabs, of one browser or of a browser each. *)
EXTENDS Sessions, TLC

CONSTANTS d1, d2, t1, t2

Together == (t1 :> d1) @@ (t2 :> d1)

Apart == (t1 :> d1) @@ (t2 :> d2)

Spread == {Together, Apart}
=============================================================================
