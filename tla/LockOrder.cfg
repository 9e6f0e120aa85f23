SPECIFICATION GuideSpec
CONSTANTS
  Nobody = Nobody
  b1 = b1
  b2 = b2
  b3 = b3
  d1 = d1
  d2 = d2
  TourGuide = {g1}
  Trip = {b1, b2, b3}
  Departure = {d1, d2}
  DepartureOf <- TwoDepartures
  From <- Starts
  Until <- Ends
  AssignKey = {k1}
  Session = {s1, s2}
INVARIANT NoCallGetsStuck
CHECK_DEADLOCK FALSE
