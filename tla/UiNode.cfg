SPECIFICATION MCFairSpec
CONSTANTS
  MaxHides = 1
  MaxQueued = 2
  MaxTriggers = 2
  MaxPollFailures = 3
  d1 = d1
  d2 = d2
  Devices = {d1, d2}
  NoDevice = NoDevice
  DeviceLists <- SomeLists
  HistoryLimit = 2
  MaxEvents = 4
  MaxChanges = 2
  NoCursor = NoCursor
  Texts = {"", "core"}
  Pages = 3
  MaxClicks = 3
  OpenDevices = {d1, d2}
  NoOwner = NoOwner
  MaxVersion = 1
  MaxFormSubmits = 2
  MaxSelects = 1
  RunPageLimit = 2
  DefaultRunLimit = 3
  MaxRuns = 4
  MaxPages = 3
  LogPageLimit = 2
  MaxEntries = 7
  MaxLogFailures = 2
  ObjectIds = {o1, o2}
  NoId = NoId
  Scopes = {sA, sB}
  NoScope = NoScope
  MaxMapVersion = 3
  MaxVisits = 1
  MaxMapFailures = 1
  MapDevices = {1, 2, 3, 4}
  MapRegions = {1, 2, 3}
  FocusDevice = 2
  RegionLimit = 2
  NodeLimit = 3
  EdgeLimit = 1
  MaxMoves = 1
  Users = {uA, uB}
  EnvUsers = {uA}
  Handlers = {q1, q2}
  MaxPasswords = 3
  MaxUserFaults = 1
INVARIANTS TypesOK QuestionPerRun FactsOfSelected HistoryContiguous CursorOfSelection ListsOfSelected SavedIsShown Consecutive ProjectionOfPage LinksStaySupported CanvasTells LossHasCause
PROPERTIES StatusConverges CardsSettle PinnedStays ShownOrOffered
