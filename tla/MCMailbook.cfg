SPECIFICATION FairSpec
CONSTANTS
  sync = sync
  Message = {1, 2}
  Content <- MCContent
  Sync = sync
  Limit = 2
  Txn = {1, 2}
  Instants <- MCInstants
  Name <- MCName
  Ratio <- MCRatio
  NoLast4 = NoLast4
  None = None
  Misfit = Misfit
INVARIANTS TypeOK NoHalfAlone
PROPERTY EveryMailEndsUp
CHECK_DEADLOCK FALSE
