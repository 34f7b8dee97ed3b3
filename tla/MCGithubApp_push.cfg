SPECIFICATION Spec
CONSTANTS
  Events = {e1, e2, e3, e4}
  PRs = {p1}
  Workers = {w1}
  Kinds = {"push"}
  Fates = {"run", "filtered"}
  Backlog = {TRUE}
  Commands <- MCTwoForPush
  MaxHead = 5
  MaxRestarts = 0
INVARIANTS CounterMatchesTasks DelegateForEveryPush
PROPERTIES FeedbackNeverRegresses EveryHandlerEnds Coalesces
