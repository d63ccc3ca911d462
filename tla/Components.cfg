SPECIFICATION Spec
VIEW View
CONSTANTS
  Focuses = {"watcher", "scheduler", "cache", "names", "models", "relay",
             "files", "logins", "keys", "releases", "inspection",
             "usage"}
  Files = {f1}
  Channels = {c1}
  Reloaders = {l1}
  Contents = {1, 2}
  Invalid = {2}
  Excluding = {{}, {f1}}
  Capacity = 1
  MaxChanges = 2
  MaxReloads = 1
  a1 = a1
  a2 = a2
  m1 = m1
  m2 = m2
  Creds = {a1, a2}
  Models = {m1, m2}
  Supports <- Registrations
  Keeping = {a2}
  Callers = {g1, g2}
  Period = 1
  MaxRestored = 0
  MaxCalls = 2
  MaxClock = 1
  Ids = {s1, s2, s3, s4}
  PromptKeys = {s1, s2}
  MaxStable = 1
  TTL = 1
  MaxTime = 2
  SoftLimit = 3
  Accounts = {a1, a2}
  Clients = {k1, k2}
  Catalogue = {m1, m2}
  ProviderNames = {p1, p2}
  MaxCopies = 2
  MaxMarks = 1
  Requests = {r1, r2}
  Streams = {r2}
  Buffer = 1
  MaxChunks = 1
  MaxCancels = 1
  Clerks = {t1, t2}
  PersistLoop = t9
  Consumer = t0
  MaxIssued = 3
  MaxBegun = 3
  States = {o1, o2}
  Builtin = {claude, codex, gemini}
  Plugged = {plugin}
  Pollers = {q1, q2}
  Unguarded = {gemini}
  Solitary = {codex}
  Services = {v1, v2}
  Keys = {k1, k2}
  Starters = {l1, l2}
  Requesters = {g1, g2}
  MaxStates = 2
  Groups = {h1}
  Flushers = {c1}
  MaxSequence = 2
  MaxSenderSets = 2
  Inspected = {a1, a2}
  OneFile = {a1, a2}
  Parked = {a1}
  Probers = {w1, w2}
  Operators = {x1}
  Answers = {"gone"}
  Settings <- DeleteInvalid
  MaxStarts = 1
  MaxByHand = 1
  Subscriptions = {u1}
  StreamBuffer = 2
  PopCount = 2
  MaxRecords = 2
  MaxNotices = 1
  MaxFlips = 2
INVARIANTS TypeOK FinalActionIsApplied SettledMatches
  SchedulerIsCurrent CooldownsOnFile OfferedIsUsable
  AliasesAgree NamesAgree CountsMatchClients NobodyHangs AnswersAreWhole
  FileMatchesManager CancelledInTimeSavesNothing OkMeansSaved NewestIsKept
  FlushMeansAccepted SleepersAreWoken ActionsRestOnAnswers SummaryMatchesResults
  RecordsAreAccounted SubscribersMissNothing
CHECK_DEADLOCK FALSE
