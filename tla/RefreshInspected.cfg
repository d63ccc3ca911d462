SPECIFICATION Spec
CONSTANTS
  CheckInterval = 1
  Auths = {a1}
  Workers = {w1}
  Requests = {}
  Editors = {e1}
  Inspectors = {i1}
  Credentials <- Expiring
  JobBuffer = 1
  PendingBackoff = 1
  FailureBackoff = 1
  IneffectiveBackoff = 1
  Results = {}
  Cooldown = 0
  Enabled = TRUE
  Switches = {FALSE}
  Lifetime = 2
  MaxTime = 2
  MaxToken = 2
INVARIANTS SleepsUntilHead
CHECK_DEADLOCK FALSE
