SPECIFICATION RequestsSpec
CONSTANTS
  Requests = {r1, r2}
  Repos = {g1, g2}
  Servers = {"github_app", "azure", "bitbucket_server"}
  NumCommands = 2
  MaxEdits = 1
SYMMETRY Symmetric
INVARIANTS NoCrossTalk OneFilePerRequest LayersInOrder
CHECK_DEADLOCK FALSE
