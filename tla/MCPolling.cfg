SPECIFICATION Spec
CONSTANTS
  PRs = {p1, p2, p3}
  MaxParallel = 0
  MaxScan = 2
  PageSize = 3
  MaxComments = 5
  MaxFailures = 1
SYMMETRY Symmetric
INVARIANTS OneRunPerComment EveryMentionAnswered
