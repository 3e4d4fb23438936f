SPECIFICATION Spec
CONSTANTS
  e1 = e1
  e2 = e2
  e3 = e3
  s1 = s1
  s2 = s2
  Event = {e1, e2}
  Txn = {1, 2, 3, 4}
  Session = {s1, s2}
  Limit = 2
  Payment <- MCTwoPairs
  Exclusive = FALSE
  Faults = {}
  Instants <- MCInstants
  Name <- MCName
  Ratio <- MCRatio
  NoLast4 = NoLast4
  None = None
INVARIANT EveryTransactionCounts
