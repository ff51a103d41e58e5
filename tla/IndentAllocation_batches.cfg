SPECIFICATION Spec
CONSTANTS
  s1 = s1
  s2 = s2
  b1 = b1
  c1 = c1
  Sku = {s1, s2}
  Indent = {1, 2, 3}
  Booking = {b1}
  Fresh = {f1}
  Customer = {c1}
  NoBooking = NoBooking
  SkuOf <- SecondSku
  CustomerOf <- OneCustomer
  Parent <- TwoOfBooking
  Asked <- TwoTwoOne
  Confirmed <- FirstSupplied
  Stock <- Stock1
  Worker = {w1}
  RowId = {1, 2, 3, 4}
  MaxQty = 2
  MaxArrived = 0
  MaxElsewhere = 1
  MaxGaps = 1
  Faults = {"torn"}
INVARIANTS UnitsFollowLines
CONSTRAINT Followed
