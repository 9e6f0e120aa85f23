SPECIFICATION Spec
CONSTANTS
  t1 = t1
  t2 = t2
  None = None
  Identity = {"customer", "guide2", "admin"}
  RoleTarget = {"customer", "guide", "guide2"}
  Booker = {"customer"}
  NewRequest = {"r1"}
  Total = {1}
  CancelKey = {"k1"}
  QuoteValidity = 1
  MaxRecords = 6
  MaxTime = 1
  Tab = {t1, t2}
  HoldMinutes = 2
  SessionMinutes = 1
  AttemptLimit = 2
  LastMinute = 2
  b1 = b1
  b2 = b2
  d1 = d1
  d2 = d2
  Nobody = Nobody
  TourGuide = {g1, g2}
  Trip = {b1, b2}
  Departure = {d1, d2}
  DepartureOf <- TwoDepartures
  From <- Starts
  Until <- Ends
  AssignKey = {k1, k2}
  Session = {s1, s2}
  NoReceipt = NoReceipt
  Reservation = {q1, q2, q3}
  Address = {a1, a2}
  Device = {v1, v2}
  UnitsPerBucket <- Units
  UnitsForAll = 1
  HoursPerDay = 2
  LastHour = 1
  Call = {c1, c2}
  Slug = {p1, p2}
  Administrator = {m1, m2}
  CapabilityMinutes = 2
  LastTime = 3
  MaxReleases = 2
  Customer = {u1, u2}
  Operation = {o1, o2, o3}
  Nothing = Nothing
  MaxEpoch = 2
INVARIANTS
  DemoTypeOK
  EnvelopeIsSound
  QuotesAreForApprovedRequests
  PortalConfirmsOnlyPaid
  NoDoubleBookedGuide
  OnlyMixedCallsGetStuck
  QuotaMatchesReceipts
  LiveIsWhole
  PageServesItsCustomer
  UnresolvedIsRemembered
PROPERTIES
  CopyFollowsHandoff
  SettledIsFinal
  PaymentsSettle
CHECK_DEADLOCK FALSE
