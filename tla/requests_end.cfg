SPECIFICATION FairSpec
CONSTANTS
  b1 = b1  b2 = b2  p1 = p1  p2 = p2  p3 = p3  s1 = s1  s2 = s2  s3 = s3
  pair1 = pair1  agent1 = agent1  ref1 = ref1  y1 = y1  y2 = y2  Null = Null
  Bookings = {b1}
  Payments = {p1, p2}
  Sessions = {s1, s2}
  Pairs = {pair1}
  Agents = {agent1}
  References = {ref1}
  Years = {y1, y2}
  SeedBookings <- OneBooking2
  Requests <- LockingRequests
  SeqLimit = 1000000
  JoinedRefresh <- BothRefreshes
  MaxClock = 0
INVARIANTS NumbersSerial OneInsertInFlight PaidMeansCompleted
PROPERTIES IssuesSerialNumbers RequestsEnd
