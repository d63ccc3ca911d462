SPECIFICATION WatcherSpec
CONSTANTS
  Files = {f1}
  Channels = {}
  Reloaders = {m1}
  Contents = {1}
  Invalid = {}
  Excluding = {{}}
  Capacity = 1
  MaxChanges = 1
  MaxReloads = 1
INVARIANTS LatestStateIsApplied
CHECK_DEADLOCK FALSE
