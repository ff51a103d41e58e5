SPECIFICATION Spec
CONSTANTS
  s1 = s1
  s2 = s2
  c1 = c1
  c2 = c2
  Sku = {s1}
  Res = {1, 2}
  Customer = {c1}
  Booking = {b1}
  Po = {p1}
  NoPo = NoPo
  NoBooking = NoBooking
  SkuOf <- OneSku
  CustomerOf <- OneCustomer
  Stock <- Stock3
  MaxQty = 2
  MaxInflight = 2
  MayOverride = TRUE
  Targets = {"Dispatched"}
INVARIANTS TypeOK CountersBalance BookedIsHeld IssuedIsConsumed NoOversell SettledAsAWhole CancelledKeepsNoIndent
PROPERTIES SettledOnce ExpiryIsDue ImplementsPool
