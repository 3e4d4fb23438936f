SPECIFICATION MCSpec
CONSTANTS
  c1 = c1
  c2 = c2
  c3 = c3
  Candidate = {c1, c2, c3}
  Source = src
  NoAnswer = NoAnswer
  NoLast4 = NoLast4
  Name <- MCName
  Ratio <- MCRatio
  Payment <- MCPayment
SYMMETRY MCSymmetry
CHECK_DEADLOCK FALSE
INVARIANTS TypeOK RulesPickTheStrongest RulesOutrankTheLlm
