SPECIFICATION Spec
CONSTANTS
  f1 = f1
  f2 = f2
  c1 = c1
  Message = {1, 2}
  Fetcher = {f1, f2}
  Callback = {c1}
  PageSize = 1
  None = None
SYMMETRY MCSymmetry
INVARIANTS TypeOK WaitsInOrder
PROPERTIES ImplementsInbox ConsentSticks
