SPECIFICATION FairSpec
CONSTANTS
  Groups = {g1}
  Sinks = {}
  Setters = {}
  Drainers = {d1}
  Closing = TRUE
  Bindable = {1, 2}
  MaxDispatches = 2
  MaxBarrier = 0
  MaxFreezes = 0
  Unaccounted = Unaccounted
  NotInstalled = NotInstalled
  NoSink = NoSink
CHECK_DEADLOCK FALSE
INVARIANTS DrainedStaysEmpty ShutdownClosesResources NoReleaseWhileOpen
PROPERTIES DrainReturns CloseReturns
