SPECIFICATION Spec
CONSTANTS
  s1 = s1
  s2 = s2
  c1 = c1
  c2 = c2
  Sku = {s1}
  Res = {1}
  Customer = {c1}
  Booking = {b1}
  Po = {p1, p2}
  NoPo = NoPo
  NoBooking = NoBooking
  SkuOf <- OneSku
  CustomerOf <- OneCustomer
  Stock <- Stock1
  MaxQty = 1
  MaxInflight = 2
  MayOverride = FALSE
  Targets = {}
PROPERTIES PoNotOverwritten
