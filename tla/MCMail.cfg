\* Safety of the mail components, one instance at a time.
CONSTANTS
  m1 = m1
  m2 = m2
  q1 = q1
  l1 = l1
  u1 = u1
  u2 = u2
  d1 = d1
  d2 = d2
  r1 = r1
  r2 = r2
  NoOne = NoOne
  b1 = b1
  b2 = b2
  c1 = c1
  c2 = c2
  h1 = h1
  t1 = t1
  t2 = t2
  f1 = f1
  f2 = f2
SPECIFICATION Spec
INVARIANTS TypeOK NoMailSkipped NoMailTwice SentIsFiled RecordsAgree
PROPERTIES StoredStays DeletedAfterProvider RestoreIsExact
CHECK_DEADLOCK FALSE
