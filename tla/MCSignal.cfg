SPECIFICATION FairSpec
CONSTANTS
  g1 = g1
  g2 = g2
  a = a
  b = b
  pick = pick
  total = total
  log = log
  view = view
  None = None
  Goroutines = {g1, g2}
  Batchers = {g1}
  Keepers = {g2}
  Bases <- MCBases
  Derived <- MCDerived
  Effects = {log}
  Watchers = {view}
  WatchedBy <- MCWatchedBy
  Starts <- MCStarts
  Values <- MCValues
  Source <- MCSource
  Result <- MCResult
  MaxOps = 1
  MaxTotal = 3
  MaxReads = 2
  MaxPanics = 1
INVARIANTS
    SignalInv
    CleanIsCurrent
    WatchersUpToDate
    OneNotificationPerChange
PROPERTIES
    CallsReturn
CHECK_DEADLOCK FALSE
