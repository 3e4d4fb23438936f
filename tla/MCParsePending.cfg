SPECIFICATION Spec
CONSTANTS
  Email = {e1, e2}
  Mail <- MCMail
  Session = {s1, s2}
  Limit = 2
  Exclusive = FALSE
  Faults = TRUE
  s1 = s1
  s2 = s2
  e1 = e1
  e2 = e2
  None = None
  Misfit = Misfit
SYMMETRY MCSymmetry
CHECK_DEADLOCK FALSE
INVARIANTS TypeOK ParsedHasEvent PayloadsShared WaitsInOrder
PROPERTY EventsStay
