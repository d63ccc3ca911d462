SPECIFICATION Spec
CONSTANTS
  Groups = {g1}
  Sinks = {s1, s2}
  Setters = {t1, t2}
  Drainers = {}
  Closing = FALSE
  Bindable = {2}
  MaxDispatches = 2
  MaxBarrier = 2
  MaxFreezes = 2
  Unaccounted = Unaccounted
  NotInstalled = NotInstalled
  NoSink = NoSink
CHECK_DEADLOCK FALSE
SYMMETRY Symmetry
INVARIANTS ReleasesCountEnds SinkCaughtUp SnapshotAccountsForBarrier
