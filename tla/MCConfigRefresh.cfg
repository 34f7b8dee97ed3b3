SPECIFICATION RefreshSpec
CONSTANTS
  Threads = {t1, t2}
  Parts = 2
  Ttl = 1
  MaxTime = 3
  MaxChanges = 2
SYMMETRY Symmetric
PROPERTIES BoundedStaleness SettingsNeverRegress InvalidationObeyed
