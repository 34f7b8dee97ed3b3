SPECIFICATION Spec
CONSTANTS
  Events = {e1, e2, e3}
  PRs = {p1}
  Workers = {w1, w2}
  Kinds = {"push", "opened"}
  Fates = {"run", "filtered", "skipped"}
  Backlog = {TRUE, FALSE}
  Commands <- MCOneCommand
  MaxHead = 4
  MaxRestarts = 1
SYMMETRY Symmetric
PROPERTY CoalescesSafely
