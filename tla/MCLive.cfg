\* Liveness of the components, one instance at a time.
CONSTANTS
  m1 = m1
  q1 = q1
  l1 = l1
  u1 = u1
  d1 = d1
  d2 = d2
  w1 = w1
  w2 = w2
  auto = auto
  t1 = t1
  r1 = r1
  n1 = n1
  n2 = n2
  a1 = a1
  k1 = k1
  NoOne = NoOne
SPECIFICATION FairSpec
PROPERTIES StaysCurrent MailArrives
  RemovalSettles RequestsSettle PendingIsFlushed
CHECK_DEADLOCK FALSE
