SPECIFICATION Spec
CONSTANTS
  Servers = {"github_app", "gitlab", "bitbucket", "bitbucket_server", "azure", "gitea", "action"}
  NumCommands = 2
  MaxActs = 3
  MaxReplies = 2
INVARIANTS AsPromised BotStartsNothing HandledWhole
PROPERTY ReadyGetsGreeted
CHECK_DEADLOCK FALSE
