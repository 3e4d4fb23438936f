SPECIFICATION Spec
CONSTANTS
  e1 = e1
  e2 = e2
  e3 = e3
  s1 = s1
  s2 = s2
  Event = {e1, e2, e3}
  Txn = {1, 2, 3}
  Session = {s1}
  Limit = 3
  Payment <- MCPayment
  Exclusive = TRUE
  Faults = {"match", "solo", "force"}
  Instants <- MCInstants
  Name <- MCName
  Ratio <- MCRatio
  NoLast4 = NoLast4
  None = None
SYMMETRY MCSymmetry
INVARIANTS TypeOK EveryTransactionCounts SoloHasNoPartner
PROPERTY ImplementsLedger
