---------------------------- MODULE CouponBudget ----------------------------
(***************************************************************************)
(* What the coupon limits promise: every redemption is charged to several  *)
(* accounts at once, each with a budget that is never lowered, and only    *)
(* while none of them is overdrawn by more than a slack.  There are no     *)
(* requests and no rows here.                                              *)
(***************************************************************************)
EXTENDS Naturals

CONSTANTS
  Accounts,
  Charges,   \* the sets of accounts that are charged together
  Slack      \* how far an account may be overdrawn

VARIABLES budget, spent

Init ==
  /\ budget \in [Accounts -> Nat]
  /\ spent = [x \in Accounts |-> 0]

Raise ==
  /\ budget' \in [Accounts -> Nat]
  /\ \A x \in Accounts : budget[x] <= budget'[x]
  /\ UNCHANGED spent

Charge(X) ==
  /\ \A x \in X : spent[x] < budget[x] + Slack
  /\ spent' = [x \in Accounts |-> IF x \in X THEN spent[x] + 1 ELSE spent[x]]
  /\ UNCHANGED budget

Next == Raise \/ \E X \in Charges : Charge(X)

Spec == Init /\ [][Next]_<<budget, spent>>
=============================================================================
