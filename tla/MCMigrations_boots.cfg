SPECIFICATION FairBootsSpec
CONSTANTS
  Procs = {p1, p2, p3}
  Runner = {p1, p2}
  Databases = {"greenfield", "legacy", "older", "current"}
  MaxCrashes = 2
INVARIANTS NeverAheadOfSchema ChoiceKept
PROPERTY ReachesHeadOrTorn
