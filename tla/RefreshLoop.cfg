SPECIFICATION FairSpec
CONSTANTS
  CheckInterval = 1
  Auths = {a1}
  Workers = {w1}
  Requests = {}
  Editors = {}
  Inspectors = {}
  Credentials <- Mixed
  JobBuffer = 1
  PendingBackoff = 1
  FailureBackoff = 1
  IneffectiveBackoff = 1
  Results = {"success", "unauthorized", "failure"}
  Cooldown = 0
  Enabled = TRUE
  Switches = {FALSE}
  Lifetime = 2
  MaxTime = 3
  MaxToken = 3
INVARIANTS ScheduledInTime
PROPERTIES NeverSpinning DueIsRefreshed
CHECK_DEADLOCK FALSE
