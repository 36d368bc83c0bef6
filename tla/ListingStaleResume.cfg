SPECIFICATION Spec
CONSTANTS
  p1 = p1  p2 = p2  e1 = e1  k1 = k1  k2 = k2  s1 = s1  s2 = s2  ta = ta  tb = tb
  PlanCallers = {p1, p2}
  Editors = {e1}
  Nobody = Nobody
  BatchSize = 1
  Keys = {k1}
  Slots = {s1}
  Terms = {ta, tb}
  NoOrder = NoOrder
  InitialOrders <- NoneOrAll
  Batches <- OneItem
  Absent = Absent
  Unreadable = Unreadable
  MaxPlans = 1
  MaxCrashes = 1
  MaxUserEdits = 1
  MaxSends = 2
INVARIANTS AtMostOnce
CHECK_DEADLOCK FALSE
