\* Safety of the services, one instance at a time.
CONSTANTS
  t1 = t1
  t2 = t2
  r1 = r1
  r2 = r2
  u1 = u1
  g1 = g1
  g2 = g2
  x1 = x1
  n1 = n1
  v1 = v1
  v2 = v2
  a1 = a1
  a2 = a2
  k1 = k1
  k2 = k2
  e1 = e1
  e2 = e2
  o1 = o1
  o2 = o2
  s1 = s1
  s2 = s2
  d1 = d1
  d2 = d2
  l1 = l1
  l2 = l2
  b1 = b1
  b2 = b2
  c1 = c1
  c2 = c2
  c3 = c3
  m1 = m1
  m2 = m2
  None = None
SPECIFICATION Spec
INVARIANTS TypeOK StoresAgree LimitHolds NotifiedOnce CountIsStreak
  AccountsAgree CalendarAgrees PageAgrees
   MailTakenUp
PROPERTIES NoSpuriousSignOut VerdictStays InvitationSparesUsers CancelsOnlyAbsent
CHECK_DEADLOCK FALSE
