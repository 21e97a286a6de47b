------------------------------ MODULE Coupons ------------------------------
(***************************************************************************)
(* Coupons and their redemption: promotions/coupons.service and            *)
(* coupon-validation.service; promotions.service calls the former.         *)
(*                                                                         *)
(* A redemption looks for a coupon on the booking, then loads and judges   *)
(* the coupon and counts the customer's usages, then writes: three steps,  *)
(* of which only the last is a transaction (the checks inside it read      *)
(* through the plain client).  A coupon's amount is abstracted to its      *)
(* name: what matters is which coupon a booking's discount comes from.     *)
(***************************************************************************)
EXTENDS Naturals, FiniteSets

CONSTANTS
  CouponIds,
  Customers,
  Bookings,
  ownerOf,     \* the customer of each booking
  Requests,
  TotalLimits, \* the values of maxRedemptions; no limit (null) is one that no count reaches
  Limits,      \* the values of perUserLimit
  MaxUsages    \* bound: usages of one coupon by one customer without a booking

\* In place of a booking: a subscription, whose price is shown and not reduced, or an
\* amount that the customer names.
NoBooking == "subscription"

NoCoupon == "none"

ASSUME CouponsAssumption ==
  /\ ownerOf \in [Bookings -> Customers]
  /\ TotalLimits \subseteq Nat \ {0}
  /\ Limits \subseteq Nat \ {0}
  /\ MaxUsages \in Nat
  /\ IsFiniteSet(Requests)
  /\ NoBooking \notin Bookings
  /\ NoCoupon \notin CouponIds

VARIABLES
  coupon,    \* the rows of coupons
  usages,    \* the rows of coupon_usages
  discount,  \* the coupon each booking's discountAmount was computed from
  req,
  ceiling    \* the highest limits each coupon ever had (history variable)

vars == <<coupon, usages, discount, req, ceiling>>

Places(k) == {b \in Bookings : ownerOf[b] = k} \cup {NoBooking}

\* state: what computeStatus derives from isActive and the dates, which the office may
\* change too: SCHEDULED, EXPIRED and DISABLED refuse alike and are one.
Coupon == [state : {"ACTIVE", "DISABLED", "DELETED"}, maxRedemptions : TotalLimits,
           perUserLimit : Limits, timesRedeemed : Nat]

NoRow == [state |-> "NONE"]

\* n tells the usages of a coupon by a customer without a booking apart.
Usage == [c : CouponIds, k : Customers, b : Bookings \cup {NoBooking}, n : 1..MaxUsages]

Request == [c : CouponIds, k : Customers, b : Bookings \cup {NoBooking},
            at : {"unstacked", "valid"}]

Idle == [at |-> "idle"]

Rows == {c \in CouponIds : coupon[c] # NoRow}

Init ==
  /\ coupon = [c \in CouponIds |-> NoRow]
  /\ usages = {}
  /\ discount = [b \in Bookings |-> NoCoupon]
  /\ req = [r \in Requests |-> Idle]
  /\ ceiling = [c \in CouponIds |-> [maxRedemptions |-> 0, perUserLimit |-> 0]]

UsesBy(c, k) == Cardinality({u \in usages : u.c = c /\ u.k = k})

Uses(c) == Cardinality({u \in usages : u.c = c})

UsesOn(b) == Cardinality({u \in usages : u.b = b})

Larger(m, n) == IF m > n THEN m ELSE n

-----------------------------------------------------------------------------
(* The office.                                                             *)

Store(c, row) ==
  /\ coupon' = [coupon EXCEPT ![c] = row]
  /\ ceiling' = [ceiling EXCEPT ![c] =
       [maxRedemptions |-> Larger(@.maxRedemptions, row.maxRedemptions),
        perUserLimit |-> Larger(@.perUserLimit, row.perUserLimit)]]
  /\ UNCHANGED <<usages, discount, req>>

Create(c) ==
  /\ coupon[c] = NoRow
  /\ \E max \in TotalLimits, perUser \in Limits, state \in {"ACTIVE", "DISABLED"} :
       Store(c, [state |-> state, maxRedemptions |-> max, perUserLimit |-> perUser,
                 timesRedeemed |-> 0])

Kept(c) == c \in Rows /\ coupon[c].state # "DELETED"

\* update and setActive, and the passing of validFrom and validUntil: a coupon may be
\* opened again, and its limits lowered below what has been redeemed.
Update(c) ==
  /\ Kept(c)
  /\ \/ \E state \in {"ACTIVE", "DISABLED"} : Store(c, [coupon[c] EXCEPT !.state = state])
     \/ \E max \in TotalLimits : Store(c, [coupon[c] EXCEPT !.maxRedemptions = max])
     \/ \E perUser \in Limits : Store(c, [coupon[c] EXCEPT !.perUserLimit = perUser])

Remove(c) ==
  /\ Kept(c)
  /\ Store(c, [coupon[c] EXCEPT !.state = "DELETED"])

-----------------------------------------------------------------------------
(* Redeeming.                                                              *)

Goes(r, request) ==
  /\ req' = [req EXCEPT ![r] = request]
  /\ UNCHANGED <<coupon, ceiling>>

BeginRedeemStacking(r, c, k, b) ==
  /\ req[r] = Idle
  /\ b \in Places(k)
  /\ Goes(r, [c |-> c, k |-> k, b |-> b, at |-> "unstacked"])
  /\ UNCHANGED <<usages, discount>>

\* resolveContext, and no coupon yet on the booking.
BeginRedeem(r, c, k, b) ==
  /\ req[r] = Idle
  /\ b \in Places(k)
  /\ b # NoBooking => UsesOn(b) = 0
  /\ Goes(r, [c |-> c, k |-> k, b |-> b, at |-> "unstacked"])
  /\ UNCHANGED <<usages, discount>>

ValidInclusive(c, k) ==
  /\ coupon[c].state = "ACTIVE"
  /\ coupon[c].timesRedeemed <= coupon[c].maxRedemptions
  /\ UsesBy(c, k) < coupon[c].perUserLimit

\* The coupon is found and its status is ACTIVE, and the customer's limit is not reached.
Valid(c, k) ==
  /\ coupon[c].state = "ACTIVE"
  /\ coupon[c].timesRedeemed < coupon[c].maxRedemptions
  /\ UsesBy(c, k) < coupon[c].perUserLimit

AssertRedeemable(r) ==
  /\ req[r].at = "unstacked"
  /\ Valid(req[r].c, req[r].k)
  /\ Goes(r, [req[r] EXCEPT !.at = "valid"])
  /\ UNCHANGED <<usages, discount>>

\* coupon_usages is unique for a coupon, a customer and a booking, but not where
\* there is no booking.
Unique(u) ==
  /\ u \notin usages
  /\ \A m \in 1..(u.n - 1) : [u EXCEPT !.n = m] \in usages
  /\ u.b # NoBooking => u.n = 1

CommitCountedOnly(r) ==
  LET c == req[r].c IN
  /\ req[r].at = "valid"
  /\ \E n \in 1..MaxUsages :
       LET u == [c |-> c, k |-> req[r].k, b |-> req[r].b, n |-> n] IN
       usages' = IF Unique(u) THEN usages \cup {u} ELSE usages
  /\ coupon' = [coupon EXCEPT ![c].timesRedeemed = @ + 1]
  /\ UNCHANGED <<discount, ceiling>>
  /\ req' = [req EXCEPT ![r] = Idle]

\* The usage, the counter and the discount are one transaction.
CommitRedeem(r) ==
  LET c == req[r].c  k == req[r].k  b == req[r].b IN
  /\ req[r].at = "valid"
  /\ \E n \in 1..MaxUsages :
       LET u == [c |-> c, k |-> k, b |-> b, n |-> n] IN
       Unique(u) /\ usages' = usages \cup {u}
  /\ coupon' = [coupon EXCEPT ![c].timesRedeemed = @ + 1]
  /\ discount' = IF b = NoBooking THEN discount ELSE [discount EXCEPT ![b] = c]
  /\ req' = [req EXCEPT ![r] = Idle]
  /\ UNCHANGED ceiling

\* A check or the unique constraint refuses it, or it fails and is rolled back.
Refuse(r) ==
  /\ req[r] # Idle
  /\ Goes(r, Idle)
  /\ UNCHANGED <<usages, discount>>

-----------------------------------------------------------------------------
Next ==
  \/ \E c \in CouponIds : Create(c) \/ Update(c) \/ Remove(c)
  \/ \E r \in Requests :
       \/ \E c \in CouponIds, k \in Customers, b \in Bookings \cup {NoBooking} :
            BeginRedeem(r, c, k, b)
       \/ AssertRedeemable(r) \/ CommitRedeem(r) \/ Refuse(r)

Spec == Init /\ [][Next]_vars

-----------------------------------------------------------------------------
(* Properties.                                                             *)

\* The requests that may be under way beside one.
Others == Cardinality(Requests) - 1

\* A coupon is redeemed beyond a limit it once had, and a booking gets a second one,
\* by the requests that were on their way together and by no more: nothing adds up
\* over time.
OveruseIsBounded ==
  /\ \A c \in Rows :
       /\ coupon[c].timesRedeemed <= ceiling[c].maxRedemptions + Others
       /\ \A k \in Customers : UsesBy(c, k) <= ceiling[c].perUserLimit + Others
  /\ \A b \in Bookings : UsesOn(b) <= 1 + Others

\* Three tables agree under every interleaving and every failure: the counter that
\* limits a coupon is the number of its usages, and a booking has the discount of a
\* coupon that was used for it exactly when one was.
BooksAgree ==
  /\ \A c \in Rows : coupon[c].timesRedeemed = Uses(c)
  /\ \A b \in Bookings :
       IF UsesOn(b) = 0 THEN discount[b] = NoCoupon
       ELSE discount[b] # NoCoupon
            /\ Cardinality({u \in usages : u.b = b /\ u.c = discount[b]}) = 1

\* What a redemption is charged to: the coupon, the customer's share of it, and the
\* booking, which has room for one.
Accounts ==
  ({"coupon"} \X CouponIds) \cup ({"share"} \X CouponIds \X Customers)
    \cup ({"booking"} \X Bookings)

ChargedTo(c, k, b) ==
  {<<"coupon", c>>, <<"share", c, k>>} \cup (IF b = NoBooking THEN {} ELSE {<<"booking", b>>})

AllowedTo(x) ==
  CASE x[1] = "coupon" -> ceiling[x[2]].maxRedemptions
    [] x[1] = "share" -> ceiling[x[2]].perUserLimit
    [] x[1] = "booking" -> 1

SpentBy(x) ==
  CASE x[1] = "coupon" -> Uses(x[2])
    [] x[1] = "share" -> UsesBy(x[2], x[3])
    [] x[1] = "booking" -> UsesOn(x[2])

Budget == INSTANCE CouponBudget WITH
  Charges <- {ChargedTo(c, k, b) : c \in CouponIds, k \in Customers,
                                   b \in Bookings \cup {NoBooking}},
  Slack <- Others,
  budget <- [x \in Accounts |-> AllowedTo(x)],
  spent <- [x \in Accounts |-> SpentBy(x)]

\* Redeeming is one atomic charge to a coupon, to a customer's share of it and to the
\* booking, made while each has something left or is overdrawn by fewer than the
\* requests that overlap; no step gives a usage back, or charges two.
KeepsBudget == Budget!Spec
=============================================================================
