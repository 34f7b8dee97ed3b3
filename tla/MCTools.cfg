SPECIFICATION Spec
CONSTANTS
  Runs = {1, 2, 3, 4, 5}
  MaxFailures = 1
  MaxActs = 1
  MaxHistory = 2
  Texts = {t1, t2}
  UserLabels = {"mine"}
  Settings <- MCSettings
INVARIANTS TemporaryRemoved OnePersistentComment HistoryInOrder LabelsOfReviews
PROPERTIES SuggestionsKept UserLabelsKept TextsSurvive
CHECK_DEADLOCK FALSE
