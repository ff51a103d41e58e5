SPECIFICATION Spec
CONSTANTS
  s1 = s1
  s2 = s2
  b1 = b1
  c1 = c1
  Sku = {s1}
  Indent = {1, 2}
  Booking = {b1}
  Fresh = {f1}
  Customer = {c1}
  NoBooking = NoBooking
  SkuOf <- OneSku
  CustomerOf <- OneCustomer
  Parent <- FirstOfBooking
  Asked <- TwoAndOne
  Confirmed <- FirstSupplied
  Stock <- Stock1
  Worker = {w1, w2}
  RowId = {1, 2, 3}
  MaxQty = 2
  MaxArrived = 1
  MaxElsewhere = 1
  MaxGaps = 2
  Faults = {}
INVARIANTS LiveRemainder
SYMMETRY Symmetry
CONSTRAINT Followed
