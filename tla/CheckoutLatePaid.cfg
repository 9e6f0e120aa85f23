SPECIFICATION FairSpec
CONSTANTS
  k1 = k1
  k2 = k2
  k3 = k3
  c1 = c1
  c2 = c2
  d1 = d1
  q1 = q1
  None = None
  Key = {k1}
  Customer = {c1, c2}
  Departure = {d1}
  Quote = {q1}
  RequestKey = {"r1"}

  Owner <- MCOwner
  Capacity <- MCCapacity
  StartAt <- MCStartAt
  QuoteOwner <- MCQuoteOwner
  QuoteParty <- MCQuoteParty
  ValidUntil <- MCValidUntil
  TripStart <- MCTripStart
  MaxParty = 2
  HoldTime = 2
  CancelNotice = 3
  SessionLife = {1, 3}
  MaxTime = 4
PROPERTIES
  PaidFactRecorded
CHECK_DEADLOCK FALSE
