SPECIFICATION Spec
CONSTANTS
  Email = {e1, e2}
  Mail <- MCHtmlOnly
  Session = {s1}
  Limit = 2
  Exclusive = FALSE
  Faults = FALSE
  s1 = s1
  s2 = s2
  e1 = e1
  e2 = e2
  None = None
  Misfit = Misfit
CHECK_DEADLOCK FALSE
INVARIANT EventDescribesItsEmail
