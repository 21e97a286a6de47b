----------------------------- MODULE MCCoupons -----------------------------
(* Coupons for TLC: two customers, one of them with a booking. *)
EXTENDS Coupons, TLC

CONSTANTS b1, k1, k2

Owners == (b1 :> k1)

Symmetric == Permutations(CouponIds) \cup Permutations(Requests)

\* More redemptions than there are usages of one coupon: maxRedemptions is null.
NoLimit == 8

\* The coupons that have a row, or that a request on its way names.
AtWork == Rows \cup {req[r].c : r \in {q \in Requests : req[q] # Idle}}

\* A coupon that has ever had no limit is alone; with limits there are three.
UnlimitedAreFew ==
  (\E c \in CouponIds : ceiling[c].maxRedemptions = NoLimit) => Cardinality(AtWork) <= 1
=============================================================================
