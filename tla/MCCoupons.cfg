\* Three coupons for one use, or one that may have no limit; a customer with a
\* booking and one without; two requests that overlap at will.
SPECIFICATION Spec
CONSTANTS
  b1 = b1
  k1 = k1
  k2 = k2
  CouponIds = {c1, c2, c3}
  Customers = {k1, k2}
  Bookings = {b1}
  ownerOf <- Owners
  Requests = {r1, r2}
  TotalLimits = {1, 8}
  Limits = {1}
  MaxUsages = 3
SYMMETRY Symmetric
CONSTRAINT UnlimitedAreFew
INVARIANTS
  OveruseIsBounded
  BooksAgree
PROPERTY KeepsBudget
