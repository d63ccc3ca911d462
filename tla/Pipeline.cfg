SPECIFICATION FairSpec
CONSTANTS
  Groups = {g1}
  Setters = {t1}
  Bindable = {1}
  MaxDispatches = 2
  MaxSenderSets = 1
  Flusher = Flusher
  Unaccounted = Unaccounted
  NotInstalled = NotInstalled
  NoSink = NoSink
INVARIANTS FreedSlotsAreIdle
PROPERTIES ImplementsAccounting ReleasesReachHome TicketsComplete
CHECK_DEADLOCK FALSE
