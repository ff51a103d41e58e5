SPECIFICATION FairSpec
CONSTANTS
  s1 = s1
  s2 = s2
  c1 = c1
  c2 = c2
  Sku = {s1, s2}
  Res = {1, 2}
  Customer = {c1}
  Booking = {b1, b2}
  Po = {p1}
  NoPo = NoPo
  NoBooking = NoBooking
  SkuOf <- EachSku
  CustomerOf <- OneCustomer
  Stock <- Stock1
  MaxQty = 1
  MaxInflight = 1
  MayOverride = FALSE
  Targets = {}
PROPERTIES
  EveryHoldEnds
