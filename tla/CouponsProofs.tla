---------------------------- MODULE CouponsProofs ----------------------------
(***************************************************************************)
(* Proofs about Coupons, for any coupons, customers and bookings, any      *)
(* finite set of requests and any limits the office may set.               *)
(***************************************************************************)
EXTENDS Coupons, FiniteSetTheorems, TLAPS

-----------------------------------------------------------------------------
(* Type correctness, and what rows and requests refer to.                  *)

TypeInv ==
  /\ coupon \in [CouponIds -> Coupon \cup {NoRow}]
  /\ usages \subseteq Usage
  /\ IsFiniteSet(usages)
  /\ discount \in [Bookings -> CouponIds \cup {NoCoupon}]
  /\ req \in [Requests -> Request \cup {Idle}]
  /\ ceiling \in [CouponIds -> [maxRedemptions : Nat, perUserLimit : Nat]]

\* A usage and a request that was found valid are of a coupon that exists, and of a
\* customer's own booking; a booking has one usage of a coupon at most.
Referenced ==
  /\ \A u \in usages : u.c \in Rows /\ u.b \in Places(u.k) /\ (u.b # NoBooking => u.n = 1)
  /\ \A r \in Requests :
       req[r] # Idle =>
         req[r].b \in Places(req[r].k) /\ (req[r].at = "valid" => req[r].c \in Rows)

BaseInv == TypeInv /\ Referenced

\* The steps of a request and of the office as the proofs tell them apart.
OfficeStep == \E c \in CouponIds : Create(c) \/ Update(c) \/ Remove(c)

\* What a redemption that is written does to the tables.
Written(r, u) ==
  /\ r \in Requests /\ req[r] \in Request /\ req[r].at = "valid"
  /\ u \in Usage /\ u \notin usages
  /\ u.c = req[r].c /\ u.k = req[r].k /\ u.b = req[r].b
  /\ u.c \in Rows /\ u.b \in Places(u.k) /\ (u.b # NoBooking => u.n = 1)
  /\ usages' = usages \cup {u}
  /\ coupon' = [coupon EXCEPT ![u.c].timesRedeemed = @ + 1]
  /\ discount' = IF u.b = NoBooking THEN discount ELSE [discount EXCEPT ![u.b] = u.c]
  /\ req' = [req EXCEPT ![r] = Idle]
  /\ UNCHANGED ceiling

\* A row of coupons is a coupon.
LEMMA RowType ==
  ASSUME TypeInv, NEW c \in Rows
  PROVE  coupon[c] \in Coupon /\ c \in CouponIds
BY DEF TypeInv, Rows

\* A request in flight is a request.
LEMMA RequestType ==
  ASSUME TypeInv, NEW r \in Requests, req[r] # Idle
  PROVE  req[r] \in Request
BY DEF TypeInv

\* NoRow, Idle and the like are told from what they stand beside by their state.
LEMMA Apart == NoRow \notin Coupon /\ Idle \notin Request
BY DEF NoRow, Coupon, Idle, Request

\* A request that commits writes one row, and nothing but what Written says.
LEMMA CommitIsWritten ==
  ASSUME BaseInv, NEW r \in Requests, CommitRedeem(r)
  PROVE  \E u : Written(r, u)
<1>1. PICK n \in 1..MaxUsages :
        Unique([c |-> req[r].c, k |-> req[r].k, b |-> req[r].b, n |-> n])
        /\ usages' = usages \cup {[c |-> req[r].c, k |-> req[r].k, b |-> req[r].b, n |-> n]}
  BY DEF CommitRedeem
<1> DEFINE u == [c |-> req[r].c, k |-> req[r].k, b |-> req[r].b, n |-> n]
<1>2. req[r] \in Request /\ req[r] # Idle
  BY RequestType, Apart DEF BaseInv, CommitRedeem, Idle
<1>3. u \in Usage
  BY <1>2 DEF Request, Usage
<1>4. u.c \in Rows /\ u.b \in Places(u.k) /\ u \notin usages /\ (u.b # NoBooking => u.n = 1)
  BY <1>1, <1>2 DEF BaseInv, Referenced, CommitRedeem, Unique
<1>5. Written(r, u)
  BY <1>1, <1>2, <1>3, <1>4 DEF Written, CommitRedeem
<1> QED
  BY <1>5

\* The office writes one coupon; a new one has not been redeemed, another keeps its count.
OfficeWrites(c, row) ==
  /\ c \in CouponIds /\ row \in Coupon
  /\ row.timesRedeemed = IF c \in Rows THEN coupon[c].timesRedeemed ELSE 0
  /\ Store(c, row)

\* Every action of the office is such a write.
LEMMA OfficeActs ==
  ASSUME TypeInv, OfficeStep
  PROVE  \E c, row : OfficeWrites(c, row)
<1>1. PICK c \in CouponIds : Create(c) \/ Update(c) \/ Remove(c)
  BY DEF OfficeStep
<1>2. Limits \subseteq Nat /\ TotalLimits \subseteq Nat
  BY CouponsAssumption
<1>3. CASE Create(c)
  <2>1. PICK max \in TotalLimits, perUser \in Limits, state \in {"ACTIVE", "DISABLED"} :
          Store(c, [state |-> state, maxRedemptions |-> max, perUserLimit |-> perUser,
                    timesRedeemed |-> 0])
    BY <1>3 DEF Create
  <2>2. c \notin Rows
    BY <1>3 DEF Create, Rows
  <2> QED
    BY <1>1, <2>1, <2>2 DEF OfficeWrites, Coupon
<1>4. CASE Update(c)
  <2>1. c \in Rows /\ coupon[c] \in Coupon
    BY <1>4, RowType DEF Update, Kept
  <2>2. ASSUME NEW state \in {"ACTIVE", "DISABLED"}, Store(c, [coupon[c] EXCEPT !.state = state])
        PROVE  OfficeWrites(c, [coupon[c] EXCEPT !.state = state])
    BY <2>1, <2>2 DEF OfficeWrites, Coupon, Rows
  <2>3. ASSUME NEW max \in TotalLimits, Store(c, [coupon[c] EXCEPT !.maxRedemptions = max])
        PROVE  OfficeWrites(c, [coupon[c] EXCEPT !.maxRedemptions = max])
    BY <2>1, <2>3 DEF OfficeWrites, Coupon, Rows
  <2>4. ASSUME NEW perUser \in Limits, Store(c, [coupon[c] EXCEPT !.perUserLimit = perUser])
        PROVE  OfficeWrites(c, [coupon[c] EXCEPT !.perUserLimit = perUser])
    BY <2>1, <2>4 DEF OfficeWrites, Coupon, Rows
  <2> QED
    BY <1>4, <2>2, <2>3, <2>4 DEF Update
<1>5. CASE Remove(c)
  <2>1. c \in Rows /\ coupon[c] \in Coupon
    BY <1>5, RowType DEF Remove, Kept
  <2> QED
    BY <1>5, <2>1 DEF Remove, OfficeWrites, Coupon, Rows
<1> QED
  BY <1>1, <1>3, <1>4, <1>5

\* The rows after a write of the office: the coupon it wrote is one of them.
LEMMA OfficeRows ==
  ASSUME TypeInv, NEW c, NEW row, OfficeWrites(c, row)
  PROVE  /\ coupon' = [coupon EXCEPT ![c] = row]
         /\ Rows' = Rows \cup {c}
         /\ UNCHANGED <<usages, discount, req>>
BY Apart DEF OfficeWrites, Store, TypeInv, Rows

\* A redemption that is written adds no coupon and changes nothing of one but its count.
LEMMA WrittenRows ==
  ASSUME TypeInv, NEW r, NEW u, Written(r, u)
  PROVE  /\ Rows' = Rows
         /\ coupon[u.c] \in Coupon
         /\ coupon'[u.c] = [coupon[u.c] EXCEPT !.timesRedeemed = @ + 1]
         /\ coupon' \in [CouponIds -> Coupon \cup {NoRow}]
         /\ \A c \in CouponIds \ {u.c} : coupon'[c] = coupon[c]
<1>1. coupon[u.c] \in Coupon /\ u.c \in CouponIds
  BY RowType DEF Written
<1>2. coupon' = [coupon EXCEPT ![u.c] = [coupon[u.c] EXCEPT !.timesRedeemed = @ + 1]]
  BY DEF Written
<1>3. [coupon[u.c] EXCEPT !.timesRedeemed = @ + 1] \in Coupon
  BY <1>1 DEF Coupon
<1> QED
  BY <1>1, <1>2, <1>3, Apart DEF TypeInv, Rows

\* The steps of a request before it writes.
Moves(r) ==
  \/ \E c \in CouponIds, k \in Customers, b \in Bookings \cup {NoBooking} : BeginRedeem(r, c, k, b)
  \/ AssertRedeemable(r)
  \/ Refuse(r)

\* Next, in the parts the proofs go through.
LEMMA Steps ==
  Next => OfficeStep \/ \E r \in Requests : Moves(r) \/ CommitRedeem(r)
BY DEF Next, OfficeStep, Moves

\* A request that moves changes no table.
LEMMA MovesOnly ==
  ASSUME BaseInv, NEW r \in Requests, Moves(r)
  PROVE  /\ UNCHANGED <<coupon, usages, discount, ceiling>>
         /\ \E x \in Request \cup {Idle} :
              /\ req' = [req EXCEPT ![r] = x]
              /\ x # Idle => x.b \in Places(x.k) /\ (x.at = "valid" => x.c \in Rows)
<1>1. CASE \E c \in CouponIds, k \in Customers, b \in Bookings \cup {NoBooking} :
             BeginRedeem(r, c, k, b)
  BY <1>1 DEF BeginRedeem, Goes, Request
<1>2. CASE AssertRedeemable(r)
  <2>1. req[r] # Idle /\ req[r] \in Request
    BY <1>2, RequestType DEF AssertRedeemable, Idle, BaseInv
  <2>2. [req[r] EXCEPT !.at = "valid"] \in Request
    BY <2>1 DEF Request
  <2>3. req[r].c \in Rows
    BY <1>2, <2>1 DEF AssertRedeemable, Valid, Rows, NoRow, Request
  <2> DEFINE x == [req[r] EXCEPT !.at = "valid"]
  <2>4. x.b = req[r].b /\ x.k = req[r].k /\ x.c = req[r].c
    BY <2>1 DEF Request
  <2>5. x.b \in Places(x.k)
    BY <2>1, <2>4 DEF BaseInv, Referenced
  <2> HIDE DEF x
  <2>6. req' = [req EXCEPT ![r] = x] /\ UNCHANGED <<coupon, usages, discount, ceiling>>
    BY <1>2 DEF AssertRedeemable, Goes, x
  <2>7. x \in Request
    BY <2>2 DEF x
  <2> QED
    BY <2>3, <2>4, <2>5, <2>6, <2>7
<1>3. CASE Refuse(r)
  BY <1>3 DEF Refuse, Goes
<1> QED
  BY <1>1, <1>2, <1>3 DEF Moves

\* The base invariant is kept by every step.
LEMMA BaseStep == BaseInv /\ [Next]_vars => BaseInv'
<1> SUFFICES ASSUME BaseInv, [Next]_vars PROVE BaseInv'
  OBVIOUS
<1>1. CASE OfficeStep
  <2>1. PICK c, row : OfficeWrites(c, row)
    BY <1>1, OfficeActs DEF BaseInv
  <2>2. Rows' = Rows \cup {c} /\ UNCHANGED <<usages, discount, req>>
        /\ coupon' = [coupon EXCEPT ![c] = row]
    BY <2>1, OfficeRows DEF BaseInv
  <2>3. TypeInv'
    <3>1. ceiling' \in [CouponIds -> [maxRedemptions : Nat, perUserLimit : Nat]]
      <4>1. row.maxRedemptions \in Nat /\ row.perUserLimit \in Nat
        BY <2>1, CouponsAssumption DEF OfficeWrites, Coupon
      <4> QED
        BY <2>1, <4>1 DEF BaseInv, TypeInv, OfficeWrites, Store, Larger
    <3>2. coupon' \in [CouponIds -> Coupon \cup {NoRow}]
      BY <2>1, <2>2 DEF BaseInv, TypeInv, OfficeWrites
    <3> QED
      BY <2>2, <3>1, <3>2 DEF BaseInv, TypeInv
  <2>4. Referenced'
    BY <2>2 DEF BaseInv, Referenced, Places
  <2> QED
    BY <2>3, <2>4 DEF BaseInv
<1>2. ASSUME NEW r \in Requests, Moves(r)
      PROVE  BaseInv'
  <2>1. Rows' = Rows
    BY <1>2, MovesOnly DEF Rows
  <2>2. TypeInv'
    BY <1>2, MovesOnly DEF BaseInv, TypeInv
  <2>3. Referenced'
    BY <1>2, <2>1, MovesOnly DEF BaseInv, TypeInv, Referenced, Places
  <2> QED
    BY <2>2, <2>3 DEF BaseInv
<1>3. ASSUME NEW r \in Requests, CommitRedeem(r)
      PROVE  BaseInv'
  <2>1. PICK u : Written(r, u)
    BY <1>3, CommitIsWritten
  <2>2. IsFiniteSet(usages')
    BY <2>1, FS_AddElement DEF Written, BaseInv, TypeInv
  <2>3. coupon' \in [CouponIds -> Coupon \cup {NoRow}]
    BY <2>1, WrittenRows DEF BaseInv
  <2>4. TypeInv'
    BY <2>1, <2>2, <2>3 DEF Written, BaseInv, TypeInv, Usage
  <2>5. Referenced'
    <3>1. Rows' = Rows
      BY <2>1, WrittenRows DEF BaseInv
    <3>2. \A v \in usages' : v.c \in Rows /\ v.b \in Places(v.k) /\ (v.b # NoBooking => v.n = 1)
      BY <2>1 DEF Written, BaseInv, Referenced
    <3>3. \A q \in Requests : req'[q] # Idle => q # r /\ req'[q] = req[q]
      BY <2>1 DEF Written, BaseInv, TypeInv
    <3> QED
      BY <3>1, <3>2, <3>3 DEF BaseInv, Referenced, Places
  <2> QED
    BY <2>4, <2>5 DEF BaseInv
<1>4. CASE UNCHANGED vars
  BY <1>4 DEF vars, BaseInv, TypeInv, Referenced, Rows, Places
<1> QED
  BY <1>1, <1>2, <1>3, <1>4, Steps

\* Every table keeps its type, and rows and requests refer to what exists, however the
\* office and the requests interleave (schema.prisma, coupons.service.ts).
THEOREM TypeCorrect == Spec => []BaseInv
<1>1. Init => BaseInv
  BY FS_EmptySet DEF Init, BaseInv, TypeInv, Referenced
<1> QED
  BY <1>1, BaseStep, PTL DEF Spec

-----------------------------------------------------------------------------
(* Limits: what may still be written is counted with what was.             *)

\* The requests that were found valid for a coupon, and those of one customer.
ValidFor(c) == {r \in Requests : req[r].at = "valid" /\ req[r].c = c}

ValidBy(c, k) == {r \in ValidFor(c) : req[r].k = k}

\* The requests that found no coupon on a booking.
Pending(b) == {r \in Requests : req[r] # Idle /\ req[r].b = b}

\* Usages and the requests that may still write one are within the limits together, and
\* a coupon's limits are not above the highest it had.
RoomInv ==
  /\ \A c \in Rows :
       /\ coupon[c].maxRedemptions <= ceiling[c].maxRedemptions
       /\ coupon[c].perUserLimit <= ceiling[c].perUserLimit
       /\ Uses(c) = coupon[c].timesRedeemed
       /\ Uses(c) + Cardinality(ValidFor(c)) <= ceiling[c].maxRedemptions + Others
       /\ \A k \in Customers :
            UsesBy(c, k) + Cardinality(ValidBy(c, k)) <= ceiling[c].perUserLimit + Others
  /\ \A b \in Bookings : UsesOn(b) + Cardinality(Pending(b)) <= 1 + Others

LimitsInv == BaseInv /\ RoomInv

\* A part of a finite set is finite and no larger.
LEMMA PartOf ==
  ASSUME NEW S, IsFiniteSet(S), NEW T \in SUBSET S
  PROVE  /\ IsFiniteSet(T)
         /\ Cardinality(T) \in Nat /\ Cardinality(S) \in Nat
         /\ Cardinality(T) <= Cardinality(S)
BY FS_Subset, FS_CardinalityType

\* Requests in flight are some of the requests.
LEMMA InFlightCounts ==
  /\ Cardinality(Requests) \in Nat
  /\ \A S \in SUBSET Requests :
       IsFiniteSet(S) /\ Cardinality(S) \in Nat /\ Cardinality(S) <= Cardinality(Requests)
BY PartOf, CouponsAssumption

\* The sets of requests that the invariant counts.
LEMMA InFlightSets ==
  /\ \A c : ValidFor(c) \subseteq Requests
  /\ \A c, k : ValidBy(c, k) \subseteq Requests
  /\ \A b : Pending(b) \subseteq Requests
BY DEF ValidFor, ValidBy, Pending

\* Usages are counted in natural numbers.
LEMMA UsesTypes ==
  ASSUME TypeInv
  PROVE  /\ \A c : Uses(c) \in Nat
         /\ \A c, k : UsesBy(c, k) \in Nat
         /\ \A b : UsesOn(b) \in Nat
<1>1. \A T \in SUBSET usages : Cardinality(T) \in Nat
  BY PartOf DEF TypeInv
<1> QED
  BY <1>1 DEF Uses, UsesBy, UsesOn

\* One more element.
LEMMA OneMore ==
  ASSUME NEW S, IsFiniteSet(S), NEW T \in SUBSET S, NEW u, u \notin S
  PROVE  Cardinality(T \cup {u}) = Cardinality(T) + 1
BY PartOf, FS_AddElement

\* A usage that is written is counted once with its coupon, its customer and its booking.
LEMMA UsesWritten ==
  ASSUME TypeInv, NEW r, NEW u, Written(r, u)
  PROVE  /\ \A c : Uses(c)' = IF c = u.c THEN Uses(c) + 1 ELSE Uses(c)
         /\ \A c, k : UsesBy(c, k)' = IF c = u.c /\ k = u.k THEN UsesBy(c, k) + 1
                                                           ELSE UsesBy(c, k)
         /\ \A b : UsesOn(b)' = IF b = u.b THEN UsesOn(b) + 1 ELSE UsesOn(b)
<1>1. IsFiniteSet(usages) /\ u \notin usages /\ usages' = usages \cup {u}
  BY DEF TypeInv, Written
<1>2. \A T \in SUBSET usages : Cardinality(T \cup {u}) = Cardinality(T) + 1
  BY <1>1, OneMore
<1>3. ASSUME NEW c
      PROVE  Uses(c)' = IF c = u.c THEN Uses(c) + 1 ELSE Uses(c)
  <2> DEFINE T == {v \in usages : v.c = c}  U == {v \in usages' : v.c = c}
  <2>1. U = IF c = u.c THEN T \cup {u} ELSE T
    BY <1>1
  <2> QED
    BY <1>2, <2>1 DEF Uses
<1>4. ASSUME NEW c, NEW k
      PROVE  UsesBy(c, k)' = IF c = u.c /\ k = u.k THEN UsesBy(c, k) + 1 ELSE UsesBy(c, k)
  <2> DEFINE T == {v \in usages : v.c = c /\ v.k = k}
             U == {v \in usages' : v.c = c /\ v.k = k}
  <2>1. U = IF c = u.c /\ k = u.k THEN T \cup {u} ELSE T
    BY <1>1
  <2> QED
    BY <1>2, <2>1 DEF UsesBy
<1>5. ASSUME NEW b
      PROVE  UsesOn(b)' = IF b = u.b THEN UsesOn(b) + 1 ELSE UsesOn(b)
  <2> DEFINE T == {v \in usages : v.b = b}  U == {v \in usages' : v.b = b}
  <2>1. U = IF b = u.b THEN T \cup {u} ELSE T
    BY <1>1
  <2> QED
    BY <1>2, <2>1 DEF UsesOn
<1> QED
  BY <1>3, <1>4, <1>5

\* The request that writes it is in flight no more, and no other is.
LEMMA InFlightWritten ==
  ASSUME TypeInv, NEW r, NEW u, Written(r, u)
  PROVE  /\ \A c : ValidFor(c)' = ValidFor(c) \ {r}
         /\ \A c, k : ValidBy(c, k)' = ValidBy(c, k) \ {r}
         /\ \A b : Pending(b)' = Pending(b) \ {r}
         /\ r \in ValidFor(u.c) /\ r \in ValidBy(u.c, u.k) /\ r \in Pending(u.b)
<1>1. req' = [req EXCEPT ![r] = Idle] /\ r \in Requests /\ req[r] # Idle
  BY Apart DEF Written
<1>2. \A q \in Requests : req'[q] = IF q = r THEN Idle ELSE req[q]
  BY <1>1 DEF TypeInv
<1>3. Idle.at # "valid"
  BY DEF Idle
<1>4. \A c : ValidFor(c)' = ValidFor(c) \ {r}
  BY <1>2, <1>3 DEF ValidFor
<1>5. \A c, k : ValidBy(c, k)' = ValidBy(c, k) \ {r}
  BY <1>2, <1>4 DEF ValidBy, ValidFor
<1>6. \A b : Pending(b)' = Pending(b) \ {r}
  BY <1>2 DEF Pending
<1> QED
  BY <1>1, <1>4, <1>5, <1>6 DEF Written, ValidFor, ValidBy, Pending

\* A request less, if it was one.
LEMMA OneLess ==
  ASSUME NEW S \in SUBSET Requests, NEW r
  PROVE  Cardinality(S \ {r}) = IF r \in S THEN Cardinality(S) - 1 ELSE Cardinality(S)
BY InFlightCounts, FS_RemoveElement

\* The office lowers no ceiling, and a new coupon has nothing in flight to exceed it.
LEMMA RoomOffice ==
  ASSUME LimitsInv, NEW c, NEW row, OfficeWrites(c, row)
  PROVE  RoomInv'
<1>1. /\ coupon' = [coupon EXCEPT ![c] = row] /\ Rows' = Rows \cup {c}
      /\ UNCHANGED <<usages, discount, req>>
  BY OfficeRows DEF LimitsInv, BaseInv
<1>2. /\ \A d : Uses(d)' = Uses(d) /\ ValidFor(d)' = ValidFor(d)
      /\ \A d, k : UsesBy(d, k)' = UsesBy(d, k) /\ ValidBy(d, k)' = ValidBy(d, k)
      /\ \A b : UsesOn(b)' = UsesOn(b) /\ Pending(b)' = Pending(b)
  BY <1>1 DEF Uses, UsesBy, UsesOn, ValidFor, ValidBy, Pending
<1>3. row \in Coupon /\ row.maxRedemptions \in Nat \ {0} /\ row.perUserLimit \in Nat \ {0}
  BY CouponsAssumption DEF OfficeWrites, Coupon
<1>4. c \in CouponIds /\ ceiling[c].maxRedemptions \in Nat /\ ceiling[c].perUserLimit \in Nat
  BY DEF LimitsInv, BaseInv, TypeInv, OfficeWrites
<1>5. /\ ceiling'[c].maxRedemptions = Larger(ceiling[c].maxRedemptions, row.maxRedemptions)
      /\ ceiling'[c].perUserLimit = Larger(ceiling[c].perUserLimit, row.perUserLimit)
      /\ \A d \in CouponIds \ {c} : ceiling'[d] = ceiling[d]
  BY <1>4 DEF LimitsInv, BaseInv, TypeInv, OfficeWrites, Store
<1>6. Others \in Int /\ Others >= -1
  BY InFlightCounts DEF Others
<1>7. ASSUME NEW d \in Rows', d # c
      PROVE  d \in Rows /\ coupon'[d] = coupon[d] /\ ceiling'[d] = ceiling[d]
  BY <1>1, <1>5, <1>7 DEF LimitsInv, BaseInv, TypeInv, Rows
<1>8. /\ coupon'[c] = row
      /\ row.maxRedemptions <= ceiling'[c].maxRedemptions
      /\ row.perUserLimit <= ceiling'[c].perUserLimit
      /\ ceiling[c].maxRedemptions <= ceiling'[c].maxRedemptions
      /\ ceiling[c].perUserLimit <= ceiling'[c].perUserLimit
      /\ ceiling'[c].maxRedemptions \in Nat /\ ceiling'[c].perUserLimit \in Nat
  <2>1. coupon'[c] = row
    BY <1>1, <1>4 DEF LimitsInv, BaseInv, TypeInv
  <2> QED
    BY <2>1, <1>3, <1>4, <1>5 DEF Larger
<1>9. CASE c \in Rows
  <2>1. row.timesRedeemed = coupon[c].timesRedeemed
    BY <1>9 DEF OfficeWrites
  <2>2. /\ Uses(c) = row.timesRedeemed
        /\ Uses(c) + Cardinality(ValidFor(c)) <= ceiling'[c].maxRedemptions + Others
        /\ \A k \in Customers :
             UsesBy(c, k) + Cardinality(ValidBy(c, k)) <= ceiling'[c].perUserLimit + Others
    <3>1. Uses(c) \in Nat /\ \A k : UsesBy(c, k) \in Nat
      BY UsesTypes DEF LimitsInv, BaseInv
    <3>2. Cardinality(ValidFor(c)) \in Nat /\ \A k : Cardinality(ValidBy(c, k)) \in Nat
      BY InFlightCounts, InFlightSets
    <3> QED
      BY <1>4, <1>6, <1>8, <1>9, <2>1, <3>1, <3>2 DEF LimitsInv, RoomInv
  <2> QED
    BY <1>2, <1>7, <1>8, <2>2 DEF LimitsInv, RoomInv, Others
<1>10. CASE c \notin Rows
  <2>1. \A T \in SUBSET usages : (\A v \in T : v.c = c) => T = {}
    BY <1>10 DEF LimitsInv, BaseInv, Referenced
  <2>2. Uses(c) = 0 /\ \A k : UsesBy(c, k) = 0
    <3>1. {v \in usages : v.c = c} = {} /\ \A k : {v \in usages : v.c = c /\ v.k = k} = {}
      BY <2>1
    <3> QED
      BY <3>1, FS_EmptySet DEF Uses, UsesBy
  <2>3. ValidFor(c) = {} /\ \A k : ValidBy(c, k) = {}
    BY <1>10, Apart DEF LimitsInv, BaseInv, Referenced, ValidFor, ValidBy, Idle
  <2>4. row.timesRedeemed = 0
    BY <1>10 DEF OfficeWrites
  <2>5. /\ Uses(c) = row.timesRedeemed
        /\ Uses(c) + Cardinality(ValidFor(c)) <= ceiling'[c].maxRedemptions + Others
        /\ \A k \in Customers :
             UsesBy(c, k) + Cardinality(ValidBy(c, k)) <= ceiling'[c].perUserLimit + Others
    <3>1. Cardinality(ValidFor(c)) = 0 /\ \A k : Cardinality(ValidBy(c, k)) = 0
      BY <2>3, FS_EmptySet
    <3> HIDE DEF Others
    <3>2. /\ 0 + 0 <= ceiling'[c].maxRedemptions + Others
          /\ 0 + 0 <= ceiling'[c].perUserLimit + Others
      BY <1>3, <1>6, <1>8
    <3> QED
      BY <2>2, <2>4, <3>1, <3>2
  <2> QED
    BY <1>2, <1>7, <1>8, <2>5 DEF LimitsInv, RoomInv, Others
<1> QED
  BY <1>9, <1>10

\* A request enters a set only when it has just seen room in it.
LEMMA RoomMoves ==
  ASSUME LimitsInv, NEW r \in Requests, Moves(r)
  PROVE  RoomInv'
<1>1. UNCHANGED <<coupon, usages, discount, ceiling>>
  BY MovesOnly DEF LimitsInv
<1>2. /\ Rows' = Rows /\ Others' = Others
      /\ \A c : Uses(c)' = Uses(c)
      /\ \A c, k : UsesBy(c, k)' = UsesBy(c, k)
      /\ \A b : UsesOn(b)' = UsesOn(b)
  BY <1>1 DEF Rows, Uses, UsesBy, UsesOn, Others
<1>3. Others = Cardinality(Requests) - 1 /\ Cardinality(Requests) \in Nat
  BY InFlightCounts DEF Others
<1>4. /\ \A c : Uses(c) \in Nat
      /\ \A c, k : UsesBy(c, k) \in Nat
      /\ \A b : UsesOn(b) \in Nat
  BY UsesTypes DEF LimitsInv, BaseInv
<1>5. \A c \in CouponIds : ceiling[c].maxRedemptions \in Nat /\ ceiling[c].perUserLimit \in Nat
  BY DEF LimitsInv, BaseInv, TypeInv
<1>6. PICK x \in Request \cup {Idle} : req' = [req EXCEPT ![r] = x]
  BY MovesOnly DEF LimitsInv
<1>7. \A q \in Requests : req'[q] = IF q = r THEN x ELSE req[q]
  BY <1>6 DEF LimitsInv, BaseInv, TypeInv
<1>8. ASSUME NEW c \in Rows
      PROVE  /\ \/ ValidFor(c)' \subseteq ValidFor(c)
                \/ Uses(c) + 1 <= ceiling[c].maxRedemptions
             /\ \A k : \/ ValidBy(c, k)' \subseteq ValidBy(c, k)
                       \/ UsesBy(c, k) + 1 <= ceiling[c].perUserLimit
  <2>1. CASE x.at # "valid" \/ x.c # c
    BY <1>7, <2>1 DEF ValidFor, ValidBy
  <2>2. CASE x.at = "valid" /\ x.c = c
    <3>1. AssertRedeemable(r)
      <4>1. ~ Refuse(r)
        BY <1>6, <2>2 DEF Refuse, Goes, LimitsInv, BaseInv, TypeInv, Idle
      <4>2. \A d, k, b : ~ BeginRedeem(r, d, k, b)
        BY <1>6, <2>2 DEF BeginRedeem, Goes, LimitsInv, BaseInv, TypeInv
      <4> QED
        BY <4>1, <4>2 DEF Moves
    <3>2. req[r] \in Request
      BY <3>1, RequestType DEF AssertRedeemable, Idle, LimitsInv, BaseInv
    <3>3. x.c = req[r].c /\ x.k = req[r].k
      BY <1>6, <3>1, <3>2 DEF AssertRedeemable, Goes, LimitsInv, BaseInv, TypeInv, Request
    <3>4. Valid(c, x.k)
      BY <2>2, <3>1, <3>3 DEF AssertRedeemable
    <3>5. coupon[c] \in Coupon /\ c \in CouponIds
      BY RowType DEF LimitsInv, BaseInv
    <3>6. coupon[c].maxRedemptions \in Nat /\ coupon[c].perUserLimit \in Nat
      BY <3>5, CouponsAssumption DEF Coupon
    <3>7. Uses(c) + 1 <= ceiling[c].maxRedemptions /\ UsesBy(c, x.k) + 1 <= ceiling[c].perUserLimit
      BY <1>4, <1>5, <3>4, <3>5, <3>6 DEF Valid, LimitsInv, RoomInv
    <3>8. \A k : k # x.k => ValidBy(c, k)' \subseteq ValidBy(c, k)
      BY <1>7 DEF ValidFor, ValidBy
    <3> QED
      BY <3>7, <3>8
  <2> QED
    BY <2>1, <2>2
<1>9. ASSUME NEW b \in Bookings
      PROVE  Pending(b)' \subseteq Pending(b) \/ UsesOn(b) = 0
  <2>1. CASE x = Idle \/ x.b # b
    BY <1>7, <2>1 DEF Pending
  <2>2. CASE x # Idle /\ x.b = b
    <3>1. CASE AssertRedeemable(r)
      <4>1. req[r] \in Request /\ req[r] # Idle
        BY <3>1, RequestType DEF AssertRedeemable, Idle, LimitsInv, BaseInv
      <4>2. x.b = req[r].b
        BY <1>6, <3>1, <4>1 DEF AssertRedeemable, Goes, LimitsInv, BaseInv, TypeInv, Request
      <4> QED
        BY <1>7, <2>2, <4>1, <4>2 DEF Pending
    <3>2. CASE Refuse(r)
      BY <1>6, <2>2, <3>2 DEF Refuse, Goes, LimitsInv, BaseInv, TypeInv
    <3>3. ASSUME NEW c \in CouponIds, NEW k \in Customers, NEW e \in Bookings \cup {NoBooking},
                 BeginRedeem(r, c, k, e)
          PROVE  UsesOn(b) = 0
      <4>1. x.b = e
        BY <1>6, <3>3 DEF BeginRedeem, Goes, LimitsInv, BaseInv, TypeInv
      <4>2. b # NoBooking
        BY CouponsAssumption
      <4> QED
        BY <2>2, <3>3, <4>1, <4>2 DEF BeginRedeem
    <3> QED
      BY <3>1, <3>2, <3>3 DEF Moves
  <2> QED
    BY <2>1, <2>2
<1>10. \A S, T \in SUBSET Requests : S \subseteq T => Cardinality(S) <= Cardinality(T)
  <2>1. \A S, T \in SUBSET Requests : S \subseteq T => IsFiniteSet(T) /\ S \in SUBSET T
    BY InFlightCounts
  <2> QED
    BY <2>1, PartOf
<1>11. /\ \A c : ValidFor(c)' \in SUBSET Requests /\ ValidFor(c) \in SUBSET Requests
       /\ \A c, k : ValidBy(c, k)' \in SUBSET Requests /\ ValidBy(c, k) \in SUBSET Requests
       /\ \A b : Pending(b)' \in SUBSET Requests /\ Pending(b) \in SUBSET Requests
  BY DEF ValidFor, ValidBy, Pending
<1>12. ASSUME NEW c \in Rows
       PROVE  /\ Uses(c) + Cardinality(ValidFor(c)') <= ceiling[c].maxRedemptions + Others
              /\ \A k \in Customers :
                   UsesBy(c, k) + Cardinality(ValidBy(c, k)') <= ceiling[c].perUserLimit + Others
  <2>1. ceiling[c].maxRedemptions \in Nat /\ ceiling[c].perUserLimit \in Nat
    BY <1>5, RowType DEF LimitsInv, BaseInv
  <2>2. Uses(c) + Cardinality(ValidFor(c)') <= ceiling[c].maxRedemptions + Others
    <3>1. /\ Cardinality(ValidFor(c)') \in Nat /\ Cardinality(ValidFor(c)) \in Nat
          /\ Cardinality(ValidFor(c)') <= Cardinality(Requests)
      BY <1>11, InFlightCounts
    <3>2. CASE ValidFor(c)' \subseteq ValidFor(c)
      BY <1>3, <1>4, <1>10, <1>11, <2>1, <3>1, <3>2 DEF LimitsInv, RoomInv
    <3>3. CASE Uses(c) + 1 <= ceiling[c].maxRedemptions
      BY <1>3, <1>4, <2>1, <3>1, <3>3
    <3> QED
      BY <1>8, <3>2, <3>3
  <2>3. ASSUME NEW k \in Customers
        PROVE  UsesBy(c, k) + Cardinality(ValidBy(c, k)') <= ceiling[c].perUserLimit + Others
    <3>1. /\ Cardinality(ValidBy(c, k)') \in Nat /\ Cardinality(ValidBy(c, k)) \in Nat
          /\ Cardinality(ValidBy(c, k)') <= Cardinality(Requests)
      BY <1>11, InFlightCounts
    <3>2. CASE ValidBy(c, k)' \subseteq ValidBy(c, k)
      BY <1>3, <1>4, <1>10, <1>11, <2>1, <3>1, <3>2 DEF LimitsInv, RoomInv
    <3>3. CASE UsesBy(c, k) + 1 <= ceiling[c].perUserLimit
      BY <1>3, <1>4, <2>1, <3>1, <3>3
    <3> QED
      BY <1>8, <3>2, <3>3
  <2> QED
    BY <2>2, <2>3
<1>13. ASSUME NEW b \in Bookings
       PROVE  UsesOn(b) + Cardinality(Pending(b)') <= 1 + Others
  <2>1. /\ Cardinality(Pending(b)') \in Nat /\ Cardinality(Pending(b)) \in Nat
        /\ Cardinality(Pending(b)') <= Cardinality(Requests)
    BY <1>11, InFlightCounts
  <2>2. CASE Pending(b)' \subseteq Pending(b)
    BY <1>3, <1>4, <1>10, <1>11, <2>1, <2>2 DEF LimitsInv, RoomInv
  <2>3. CASE UsesOn(b) = 0
    BY <1>3, <2>1, <2>3
  <2> QED
    BY <1>9, <2>2, <2>3
<1> QED
  BY <1>1, <1>2, <1>12, <1>13 DEF LimitsInv, RoomInv

\* What is written was counted while it was in flight.
LEMMA RoomWritten ==
  ASSUME LimitsInv, NEW r, NEW u, Written(r, u)
  PROVE  RoomInv'
<1>1. TypeInv /\ r \in Requests /\ u.c \in Rows /\ ceiling' = ceiling
  BY DEF LimitsInv, BaseInv, Written
<1>2. /\ Rows' = Rows /\ coupon[u.c] \in Coupon
      /\ coupon'[u.c] = [coupon[u.c] EXCEPT !.timesRedeemed = @ + 1]
      /\ \A c \in CouponIds \ {u.c} : coupon'[c] = coupon[c]
  BY <1>1, WrittenRows
<1>3. /\ coupon'[u.c].timesRedeemed = coupon[u.c].timesRedeemed + 1
      /\ coupon'[u.c].maxRedemptions = coupon[u.c].maxRedemptions
      /\ coupon'[u.c].perUserLimit = coupon[u.c].perUserLimit
  BY <1>2 DEF Coupon
<1>4. Others' = Others /\ Others \in Int
  BY InFlightCounts DEF Others
<1>5. \A S \in SUBSET Requests :
        Cardinality(S) \in Nat
        /\ Cardinality(S \ {r}) = IF r \in S THEN Cardinality(S) - 1 ELSE Cardinality(S)
  BY InFlightCounts, OneLess
<1>6. ASSUME NEW c \in Rows
      PROVE  /\ coupon'[c].maxRedemptions <= ceiling[c].maxRedemptions
             /\ coupon'[c].perUserLimit <= ceiling[c].perUserLimit
             /\ Uses(c)' = coupon'[c].timesRedeemed
             /\ Uses(c)' + Cardinality(ValidFor(c)') <= ceiling[c].maxRedemptions + Others
             /\ \A k \in Customers :
                  UsesBy(c, k)' + Cardinality(ValidBy(c, k)') <= ceiling[c].perUserLimit + Others
  <2>1. c \in CouponIds /\ ceiling[c].maxRedemptions \in Nat /\ ceiling[c].perUserLimit \in Nat
    BY <1>1, RowType DEF TypeInv
  <2>2. Uses(c) \in Nat /\ \A k : UsesBy(c, k) \in Nat
    BY <1>1, UsesTypes
  <2>3. /\ coupon'[c].maxRedemptions <= ceiling[c].maxRedemptions
        /\ coupon'[c].perUserLimit <= ceiling[c].perUserLimit
        /\ Uses(c)' = coupon'[c].timesRedeemed
    <3>1. /\ coupon[c].maxRedemptions <= ceiling[c].maxRedemptions
          /\ coupon[c].perUserLimit <= ceiling[c].perUserLimit
          /\ Uses(c) = coupon[c].timesRedeemed
      BY DEF LimitsInv, RoomInv
    <3>2. Uses(c)' = IF c = u.c THEN Uses(c) + 1 ELSE Uses(c)
      BY <1>1, UsesWritten
    <3>3. CASE c = u.c
      BY <1>3, <3>1, <3>2, <3>3
    <3>4. CASE c # u.c
      BY <1>2, <2>1, <3>1, <3>2, <3>4
    <3> QED
      BY <3>3, <3>4
  <2>4. Uses(c)' + Cardinality(ValidFor(c)') <= ceiling[c].maxRedemptions + Others
    <3>1. ValidFor(c)' = ValidFor(c) \ {r} /\ (c = u.c => r \in ValidFor(c))
      BY <1>1, InFlightWritten
    <3>2. /\ Cardinality(ValidFor(c)) \in Nat
          /\ Cardinality(ValidFor(c)') = IF r \in ValidFor(c) THEN Cardinality(ValidFor(c)) - 1
                                                              ELSE Cardinality(ValidFor(c))
      BY <1>5, <3>1, InFlightSets
    <3>3. Uses(c)' = IF c = u.c THEN Uses(c) + 1 ELSE Uses(c)
      BY <1>1, UsesWritten
    <3> QED
      BY <1>4, <2>1, <2>2, <3>1, <3>2, <3>3 DEF LimitsInv, RoomInv
  <2>5. ASSUME NEW k \in Customers
        PROVE  UsesBy(c, k)' + Cardinality(ValidBy(c, k)') <= ceiling[c].perUserLimit + Others
    <3>1. ValidBy(c, k)' = ValidBy(c, k) \ {r} /\ (c = u.c /\ k = u.k => r \in ValidBy(c, k))
      BY <1>1, InFlightWritten
    <3>2. /\ Cardinality(ValidBy(c, k)) \in Nat
          /\ Cardinality(ValidBy(c, k)') = IF r \in ValidBy(c, k)
                                           THEN Cardinality(ValidBy(c, k)) - 1
                                           ELSE Cardinality(ValidBy(c, k))
      BY <1>5, <3>1, InFlightSets
    <3>3. UsesBy(c, k)' = IF c = u.c /\ k = u.k THEN UsesBy(c, k) + 1 ELSE UsesBy(c, k)
      BY <1>1, UsesWritten
    <3> QED
      BY <1>4, <2>1, <2>2, <3>1, <3>2, <3>3 DEF LimitsInv, RoomInv
  <2> QED
    BY <2>3, <2>4, <2>5
<1>7. ASSUME NEW b \in Bookings
      PROVE  UsesOn(b)' + Cardinality(Pending(b)') <= 1 + Others
  <2>1. Pending(b)' = Pending(b) \ {r} /\ (b = u.b => r \in Pending(b))
    BY <1>1, InFlightWritten
  <2>2. /\ Cardinality(Pending(b)) \in Nat
        /\ Cardinality(Pending(b)') = IF r \in Pending(b) THEN Cardinality(Pending(b)) - 1
                                                          ELSE Cardinality(Pending(b))
    BY <1>5, <2>1, InFlightSets
  <2>3. UsesOn(b) \in Nat /\ UsesOn(b)' = IF b = u.b THEN UsesOn(b) + 1 ELSE UsesOn(b)
    BY <1>1, UsesTypes, UsesWritten
  <2> QED
    BY <1>4, <2>1, <2>2, <2>3 DEF LimitsInv, RoomInv
<1> QED
  BY <1>1, <1>2, <1>4, <1>6, <1>7 DEF RoomInv

\* The limits' invariant holds of every behaviour.
LEMMA LimitsHold == Spec => []LimitsInv
<1>1. Init => RoomInv
  <2> SUFFICES ASSUME Init PROVE RoomInv
    OBVIOUS
  <2>1. Rows = {} /\ \A b : UsesOn(b) = 0 /\ Pending(b) = {}
    <3>1. \A b : {u \in usages : u.b = b} = {} /\ Pending(b) = {}
      BY DEF Init, Pending
    <3> QED
      BY <3>1, FS_EmptySet DEF Init, Rows, UsesOn
  <2>2. \A b : Cardinality(Pending(b)) = 0
    BY <2>1, FS_EmptySet
  <2> QED
    BY <2>1, <2>2, InFlightCounts DEF RoomInv, Others
<1>2. BaseInv /\ RoomInv /\ [Next]_vars => RoomInv'
  <2> SUFFICES ASSUME LimitsInv, [Next]_vars PROVE RoomInv'
    BY DEF LimitsInv
  <2>1. CASE OfficeStep
    BY <2>1, OfficeActs, RoomOffice DEF LimitsInv, BaseInv
  <2>2. ASSUME NEW r \in Requests, Moves(r)
        PROVE  RoomInv'
    BY <2>2, RoomMoves
  <2>3. ASSUME NEW r \in Requests, CommitRedeem(r)
        PROVE  RoomInv'
    BY <2>3, CommitIsWritten, RoomWritten DEF LimitsInv
  <2>4. CASE UNCHANGED vars
    BY <2>4 DEF vars, LimitsInv, RoomInv, Rows, Uses, UsesBy, UsesOn, ValidFor, ValidBy, Pending,
                Others
  <2> QED
    BY <2>1, <2>2, <2>3, <2>4, Steps
<1> QED
  BY <1>1, <1>2, TypeCorrect, PTL DEF Spec, LimitsInv

\* A limit that was once set is passed by the requests that overlap and by no more, for
\* every coupon, every customer and every booking, however long the coupons live
\* (assertRedeemable, redeem).
THEOREM OveruseBounded == Spec => []OveruseIsBounded
<1>1. LimitsInv => OveruseIsBounded
  <2> SUFFICES ASSUME LimitsInv PROVE OveruseIsBounded
    OBVIOUS
  <2>1. Others \in Int
    BY InFlightCounts DEF Others
  <2>2. ASSUME NEW c \in Rows
        PROVE  /\ coupon[c].timesRedeemed <= ceiling[c].maxRedemptions + Others
               /\ \A k \in Customers : UsesBy(c, k) <= ceiling[c].perUserLimit + Others
    <3>1. Uses(c) \in Nat /\ \A k : UsesBy(c, k) \in Nat
      BY UsesTypes DEF LimitsInv, BaseInv
    <3>2. Cardinality(ValidFor(c)) \in Nat /\ \A k : Cardinality(ValidBy(c, k)) \in Nat
      BY InFlightCounts, InFlightSets
    <3>3. ceiling[c].maxRedemptions \in Nat /\ ceiling[c].perUserLimit \in Nat
      BY RowType DEF LimitsInv, BaseInv, TypeInv
    <3> QED
      BY <2>1, <3>1, <3>2, <3>3 DEF LimitsInv, RoomInv
  <2>3. ASSUME NEW b \in Bookings
        PROVE  UsesOn(b) <= 1 + Others
    <3>1. UsesOn(b) \in Nat /\ Cardinality(Pending(b)) \in Nat
      BY UsesTypes, InFlightCounts, InFlightSets DEF LimitsInv, BaseInv
    <3> QED
      BY <2>1, <3>1 DEF LimitsInv, RoomInv
  <2> QED
    BY <2>2, <2>3 DEF OveruseIsBounded
<1> QED
  BY <1>1, LimitsHold, PTL

-----------------------------------------------------------------------------
(* The tables agree.                                                       *)

\* The discount of a booking is that of a usage on it, where there is one.
DiscountInv ==
  \A b \in Bookings :
    IF \E u \in usages : u.b = b
    THEN \E u \in usages : u.b = b /\ u.c = discount[b]
    ELSE discount[b] = NoCoupon

\* Counter, usages and discount agree under every interleaving and every failure
\* (redeem's transaction).
THEOREM TablesAgree == Spec => []BooksAgree
<1>1. Init => DiscountInv
  BY DEF Init, DiscountInv
<1>2. LimitsInv /\ DiscountInv /\ [Next]_vars => DiscountInv'
  <2> SUFFICES ASSUME LimitsInv, DiscountInv, [Next]_vars PROVE DiscountInv'
    OBVIOUS
  <2>1. CASE UNCHANGED <<usages, discount>>
    BY <2>1 DEF DiscountInv
  <2>2. ASSUME NEW r \in Requests, CommitRedeem(r)
        PROVE  DiscountInv'
    <3>1. PICK u : Written(r, u)
      BY <2>2, CommitIsWritten DEF LimitsInv
    <3>2. /\ usages' = usages \cup {u} /\ discount \in [Bookings -> CouponIds \cup {NoCoupon}]
          /\ discount' = IF u.b = NoBooking THEN discount ELSE [discount EXCEPT ![u.b] = u.c]
      BY <3>1 DEF Written, LimitsInv, BaseInv, TypeInv
    <3>3. ASSUME NEW b \in Bookings, b = u.b
          PROVE  discount'[b] = u.c /\ u \in usages'
      BY <3>2, <3>3, CouponsAssumption
    <3>4. ASSUME NEW b \in Bookings, b # u.b
          PROVE  discount'[b] = discount[b]
      BY <3>2, <3>4
    <3> QED
      BY <3>2, <3>3, <3>4 DEF DiscountInv
  <2>3. CASE OfficeStep
    BY <2>1, <2>3, OfficeActs, OfficeRows DEF LimitsInv, BaseInv
  <2>4. ASSUME NEW r \in Requests, Moves(r)
        PROVE  DiscountInv'
    BY <2>1, <2>4, MovesOnly DEF LimitsInv
  <2> QED
    BY <2>1, <2>2, <2>3, <2>4, Steps DEF vars
<1>3. LimitsInv /\ DiscountInv => BooksAgree
  <2> SUFFICES ASSUME LimitsInv, DiscountInv PROVE BooksAgree
    OBVIOUS
  <2>1. \A c \in Rows : coupon[c].timesRedeemed = Uses(c)
    BY DEF LimitsInv, RoomInv
  <2>2. ASSUME NEW b \in Bookings, UsesOn(b) = 0
        PROVE  discount[b] = NoCoupon
    <3>1. {u \in usages : u.b = b} = {}
      BY <2>2, PartOf, FS_EmptySet DEF UsesOn, LimitsInv, BaseInv, TypeInv
    <3> QED
      BY <3>1 DEF DiscountInv
  <2>3. ASSUME NEW b \in Bookings, UsesOn(b) # 0
        PROVE  /\ discount[b] # NoCoupon
               /\ Cardinality({u \in usages : u.b = b /\ u.c = discount[b]}) = 1
    <3>1. {u \in usages : u.b = b} # {}
      BY <2>3, FS_EmptySet DEF UsesOn
    <3>2. PICK u \in usages : u.b = b /\ u.c = discount[b]
      BY <3>1 DEF DiscountInv
    <3>3. u.c \in CouponIds
      BY DEF LimitsInv, BaseInv, TypeInv, Usage
    <3>4. ASSUME NEW v \in usages, v.b = b, v.c = u.c
          PROVE  v = u
      <4>1. b # NoBooking
        BY CouponsAssumption
      <4>2. u.n = 1 /\ v.n = 1 /\ u.k = ownerOf[b] /\ v.k = ownerOf[b]
        BY <3>2, <3>4, <4>1 DEF LimitsInv, BaseInv, Referenced, Places
      <4> QED
        BY <3>2, <3>4, <4>2 DEF LimitsInv, BaseInv, TypeInv, Usage
    <3>5. {v \in usages : v.b = b /\ v.c = discount[b]} = {u}
      BY <3>2, <3>4
    <3> QED
      BY <3>2, <3>3, <3>5, FS_Singleton, CouponsAssumption
  <2> QED
    BY <2>1, <2>2, <2>3 DEF BooksAgree
<1> QED
  BY <1>1, <1>2, <1>3, LimitsHold, PTL DEF Spec

-----------------------------------------------------------------------------
(* The refinement of CouponBudget.                                         *)

\* The accounts, and what each is allowed and has spent.
LEMMA AccountKinds ==
  /\ \A x \in Accounts :
       \/ \E c \in CouponIds : x = <<"coupon", c>>
       \/ \E c \in CouponIds, k \in Customers : x = <<"share", c, k>>
       \/ \E b \in Bookings : x = <<"booking", b>>
  /\ \A c : AllowedTo(<<"coupon", c>>) = ceiling[c].maxRedemptions
            /\ SpentBy(<<"coupon", c>>) = Uses(c)
  /\ \A c, k : AllowedTo(<<"share", c, k>>) = ceiling[c].perUserLimit
               /\ SpentBy(<<"share", c, k>>) = UsesBy(c, k)
  /\ \A b : AllowedTo(<<"booking", b>>) = 1 /\ SpentBy(<<"booking", b>>) = UsesOn(b)
<1>1. \A x \in Accounts :
        \/ \E c \in CouponIds : x = <<"coupon", c>>
        \/ \E c \in CouponIds, k \in Customers : x = <<"share", c, k>>
        \/ \E b \in Bookings : x = <<"booking", b>>
  BY DEF Accounts
<1>2. \A c : AllowedTo(<<"coupon", c>>) = ceiling[c].maxRedemptions
             /\ SpentBy(<<"coupon", c>>) = Uses(c)
  BY DEF AllowedTo, SpentBy
<1>3. \A c, k : AllowedTo(<<"share", c, k>>) = ceiling[c].perUserLimit
                /\ SpentBy(<<"share", c, k>>) = UsesBy(c, k)
  BY DEF AllowedTo, SpentBy
<1>4. \A b : AllowedTo(<<"booking", b>>) = 1 /\ SpentBy(<<"booking", b>>) = UsesOn(b)
  BY DEF AllowedTo, SpentBy
<1> QED
  BY <1>1, <1>2, <1>3, <1>4

\* What every account is allowed is a number, and so is what it has spent.
LEMMA AccountTypes ==
  ASSUME TypeInv, NEW x \in Accounts
  PROVE  AllowedTo(x) \in Nat /\ SpentBy(x) \in Nat
BY AccountKinds, UsesTypes DEF TypeInv

\* The office raises what is allowed, and spends nothing.
LEMMA OfficeRaises ==
  ASSUME BaseInv, BaseInv', NEW c, NEW row, OfficeWrites(c, row)
  PROVE  \A x \in Accounts : AllowedTo(x) <= AllowedTo(x)' /\ SpentBy(x)' = SpentBy(x)
<1>1. UNCHANGED usages /\ row \in Coupon /\ c \in CouponIds
  BY DEF OfficeWrites, Store
<1>2. row.maxRedemptions \in Nat /\ row.perUserLimit \in Nat
  BY <1>1, CouponsAssumption DEF Coupon
<1>3. \A d \in CouponIds :
        /\ ceiling[d].maxRedemptions <= ceiling'[d].maxRedemptions
        /\ ceiling[d].perUserLimit <= ceiling'[d].perUserLimit
  BY <1>1, <1>2 DEF OfficeWrites, Store, Larger, BaseInv, TypeInv
<1>4. /\ \A d : Uses(d)' = Uses(d)
      /\ \A d, k : UsesBy(d, k)' = UsesBy(d, k)
      /\ \A b : UsesOn(b)' = UsesOn(b)
  BY <1>1 DEF Uses, UsesBy, UsesOn
<1>5. ASSUME NEW x \in Accounts
      PROVE  SpentBy(x)' = SpentBy(x)
  BY <1>4 DEF SpentBy
<1>6. ASSUME NEW d \in CouponIds
      PROVE  AllowedTo(<<"coupon", d>>) <= AllowedTo(<<"coupon", d>>)'
  BY <1>3 DEF AllowedTo
<1>7. ASSUME NEW d \in CouponIds, NEW k \in Customers
      PROVE  AllowedTo(<<"share", d, k>>) <= AllowedTo(<<"share", d, k>>)'
  BY <1>3 DEF AllowedTo
<1>8. ASSUME NEW b \in Bookings
      PROVE  AllowedTo(<<"booking", b>>) <= AllowedTo(<<"booking", b>>)'
  BY DEF AllowedTo
<1> QED
  BY <1>5, <1>6, <1>7, <1>8, AccountKinds

\* Writing charges the accounts of the redemption, each of which has room, and no other.
LEMMA WritingCharges ==
  ASSUME LimitsInv, NEW r, NEW u, Written(r, u)
  PROVE  \A x \in Accounts :
           /\ AllowedTo(x)' = AllowedTo(x)
           /\ SpentBy(x)' = IF x \in ChargedTo(u.c, u.k, u.b) THEN SpentBy(x) + 1 ELSE SpentBy(x)
           /\ x \in ChargedTo(u.c, u.k, u.b) => SpentBy(x) < AllowedTo(x) + Others
<1>1. TypeInv /\ ceiling' = ceiling /\ u.c \in Rows
  BY DEF LimitsInv, BaseInv, Written
<1>2. Others \in Int
  BY InFlightCounts DEF Others
<1>3. \A S \in SUBSET Requests : r \in S => Cardinality(S) \in Nat /\ Cardinality(S) >= 1
  <2>1. ASSUME NEW S \in SUBSET Requests, r \in S
        PROVE  Cardinality(S) \in Nat /\ Cardinality(S) # 0
    BY <2>1, InFlightCounts, FS_EmptySet
  <2> QED
    BY <2>1
<1>4. ASSUME NEW c \in CouponIds
      PROVE  LET x == <<"coupon", c>> IN
             /\ AllowedTo(x)' = AllowedTo(x)
             /\ SpentBy(x)' = IF c = u.c THEN SpentBy(x) + 1 ELSE SpentBy(x)
             /\ x \in ChargedTo(u.c, u.k, u.b) <=> c = u.c
             /\ c = u.c => SpentBy(x) < AllowedTo(x) + Others
  <2>1. Uses(c) \in Nat /\ ceiling[c].maxRedemptions \in Nat
    BY <1>1, UsesTypes DEF TypeInv
  <2>2. c = u.c => Cardinality(ValidFor(c)) \in Nat /\ Cardinality(ValidFor(c)) >= 1
    BY <1>1, <1>3, InFlightWritten, InFlightSets
  <2>3. c = u.c => Uses(c) < ceiling[c].maxRedemptions + Others
    BY <1>1, <1>2, <2>1, <2>2 DEF LimitsInv, RoomInv
  <2>4. Uses(c)' = IF c = u.c THEN Uses(c) + 1 ELSE Uses(c)
    BY <1>1, UsesWritten
  <2>5. <<"coupon", c>> \in ChargedTo(u.c, u.k, u.b) <=> c = u.c
    BY DEF ChargedTo
  <2> QED
    BY <1>1, <2>3, <2>4, <2>5 DEF AllowedTo, SpentBy
<1>5. ASSUME NEW c \in CouponIds, NEW k \in Customers
      PROVE  LET x == <<"share", c, k>> IN
             /\ AllowedTo(x)' = AllowedTo(x)
             /\ SpentBy(x)' = IF c = u.c /\ k = u.k THEN SpentBy(x) + 1 ELSE SpentBy(x)
             /\ x \in ChargedTo(u.c, u.k, u.b) <=> c = u.c /\ k = u.k
             /\ c = u.c /\ k = u.k => SpentBy(x) < AllowedTo(x) + Others
  <2>1. UsesBy(c, k) \in Nat /\ ceiling[c].perUserLimit \in Nat
    BY <1>1, UsesTypes DEF TypeInv
  <2>2. c = u.c /\ k = u.k =>
          Cardinality(ValidBy(c, k)) \in Nat /\ Cardinality(ValidBy(c, k)) >= 1
    BY <1>1, <1>3, InFlightWritten, InFlightSets
  <2>3. c = u.c /\ k = u.k => UsesBy(c, k) < ceiling[c].perUserLimit + Others
    BY <1>1, <1>2, <2>1, <2>2 DEF LimitsInv, RoomInv
  <2>4. UsesBy(c, k)' = IF c = u.c /\ k = u.k THEN UsesBy(c, k) + 1 ELSE UsesBy(c, k)
    BY <1>1, UsesWritten
  <2>5. <<"share", c, k>> \in ChargedTo(u.c, u.k, u.b) <=> c = u.c /\ k = u.k
    BY DEF ChargedTo
  <2> QED
    BY <1>1, <2>3, <2>4, <2>5 DEF AllowedTo, SpentBy
<1>6. ASSUME NEW b \in Bookings
      PROVE  LET x == <<"booking", b>> IN
             /\ AllowedTo(x)' = AllowedTo(x)
             /\ SpentBy(x)' = IF b = u.b THEN SpentBy(x) + 1 ELSE SpentBy(x)
             /\ x \in ChargedTo(u.c, u.k, u.b) <=> b = u.b
             /\ b = u.b => SpentBy(x) < AllowedTo(x) + Others
  <2>1. UsesOn(b) \in Nat
    BY <1>1, UsesTypes
  <2>2. b = u.b => Cardinality(Pending(b)) \in Nat /\ Cardinality(Pending(b)) >= 1
    BY <1>1, <1>3, InFlightWritten, InFlightSets
  <2>3. b = u.b => UsesOn(b) < 1 + Others
    BY <1>2, <2>1, <2>2 DEF LimitsInv, RoomInv
  <2>4. UsesOn(b)' = IF b = u.b THEN UsesOn(b) + 1 ELSE UsesOn(b)
    BY <1>1, UsesWritten
  <2>5. <<"booking", b>> \in ChargedTo(u.c, u.k, u.b) <=> b = u.b
    BY CouponsAssumption DEF ChargedTo
  <2> QED
    BY <2>3, <2>4, <2>5 DEF AllowedTo, SpentBy
<1> QED
  BY <1>4, <1>5, <1>6, AccountKinds

\* Coupons implements CouponBudget: a redemption is one atomic charge to the coupon, to
\* the customer's share and to the booking, each overdrawn at most by the requests that
\* overlap, and nothing is ever given back (redeem, update).
THEOREM BudgetKept == Spec => KeepsBudget
<1> DEFINE B == [x \in Accounts |-> AllowedTo(x)]
           S == [x \in Accounts |-> SpentBy(x)]
           C == {ChargedTo(c, k, b) : c \in CouponIds, k \in Customers,
                                      b \in Bookings \cup {NoBooking}}
<1>1. BaseInv /\ Init => Budget!Init
  <2> SUFFICES ASSUME BaseInv, Init PROVE Budget!Init
    OBVIOUS
  <2>1. /\ \A c : Uses(c) = 0
        /\ \A c, k : UsesBy(c, k) = 0
        /\ \A b : UsesOn(b) = 0
    <3>1. \A T \in SUBSET usages : Cardinality(T) = 0
      BY FS_EmptySet DEF Init
    <3> QED
      BY <3>1 DEF Uses, UsesBy, UsesOn
  <2>2. \A x \in Accounts : SpentBy(x) = 0
    BY <2>1, AccountKinds
  <2>3. \A x \in Accounts : AllowedTo(x) \in Nat
    BY AccountTypes DEF BaseInv
  <2> QED
    BY <2>2, <2>3 DEF Budget!Init
<1>2. LimitsInv /\ [Next]_vars => [Budget!Next]_<<B, S>>
  <2> SUFFICES ASSUME LimitsInv, [Next]_vars PROVE [Budget!Next]_<<B, S>>
    OBVIOUS
  <2>1. BaseInv /\ BaseInv'
    BY BaseStep DEF LimitsInv
  <2>2. CASE OfficeStep
    <3>1. PICK c, row : OfficeWrites(c, row)
      BY <2>1, <2>2, OfficeActs DEF BaseInv
    <3>2. \A x \in Accounts : AllowedTo(x) <= AllowedTo(x)' /\ SpentBy(x)' = SpentBy(x)
      BY <2>1, <3>1, OfficeRaises
    <3>3. \A x \in Accounts : AllowedTo(x)' \in Nat
      <4>1. TypeInv'
        BY <2>1 DEF BaseInv
      <4>2. \A d \in CouponIds :
              ceiling'[d].maxRedemptions \in Nat /\ ceiling'[d].perUserLimit \in Nat
        BY <4>1 DEF TypeInv
      <4> QED
        BY <4>2, AccountKinds DEF AllowedTo
    <3>4. Budget!Raise
      BY <3>2, <3>3 DEF Budget!Raise
    <3> QED
      BY <3>4 DEF Budget!Next
  <2>3. CASE UNCHANGED <<usages, ceiling>>
    <3>1. \A x \in Accounts : AllowedTo(x)' = AllowedTo(x) /\ SpentBy(x)' = SpentBy(x)
      BY <2>3 DEF AllowedTo, SpentBy, Uses, UsesBy, UsesOn
    <3> QED
      BY <3>1
  <2>4. ASSUME NEW r \in Requests, CommitRedeem(r)
        PROVE  Budget!Next
    <3>1. PICK u : Written(r, u)
      BY <2>1, <2>4, CommitIsWritten
    <3> DEFINE X == ChargedTo(u.c, u.k, u.b)
    <3>2. X \in C /\ X \subseteq Accounts
      <4>1. u.c \in CouponIds /\ u.k \in Customers /\ u.b \in Bookings \cup {NoBooking}
        BY <3>1 DEF Written, Usage
      <4>2. X \in C
        BY <4>1
      <4>3. <<"coupon", u.c>> \in Accounts /\ <<"share", u.c, u.k>> \in Accounts
        BY <4>1 DEF Accounts
      <4>4. u.b # NoBooking => <<"booking", u.b>> \in Accounts
        BY <4>1 DEF Accounts
      <4> QED
        BY <4>2, <4>3, <4>4 DEF ChargedTo
    <3>3. \A x \in Accounts :
            /\ AllowedTo(x)' = AllowedTo(x)
            /\ SpentBy(x)' = IF x \in X THEN SpentBy(x) + 1 ELSE SpentBy(x)
            /\ x \in X => SpentBy(x) < AllowedTo(x) + Others
      BY <3>1, WritingCharges
    <3> HIDE DEF X
    <3>4. Budget!Charge(X)
      BY <3>2, <3>3 DEF Budget!Charge
    <3> QED
      BY <3>2, <3>4 DEF Budget!Next
  <2>5. ASSUME NEW r \in Requests, Moves(r)
        PROVE  UNCHANGED <<usages, ceiling>>
    BY <2>1, <2>5, MovesOnly
  <2> QED
    BY <2>2, <2>3, <2>4, <2>5, Steps DEF vars
<1> QED
  BY <1>1, <1>2, TypeCorrect, LimitsHold, PTL DEF Spec, KeepsBudget, Budget!Spec
=============================================================================
