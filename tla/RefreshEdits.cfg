SPECIFICATION Spec
CONSTANTS
  CheckInterval = 1
  Auths = {a1}
  Workers = {w1}
  Requests = {}
  Editors = {e1}
  Inspectors = {}
  Credentials <- Expiring
  JobBuffer = 1
  PendingBackoff = 1
  FailureBackoff = 1
  IneffectiveBackoff = 1
  Results = {"failure"}
  Cooldown = 2
  Enabled = TRUE
  Switches = {FALSE}
  Lifetime = 2
  MaxTime = 1
  MaxToken = 2
INVARIANTS RemovedStaysRemoved SleepsUntilHead
PROPERTIES CooldownSurvives
CHECK_DEADLOCK FALSE
