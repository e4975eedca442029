\* Three requests by two employees and two operators; three calls to two workers from one address.
CONSTANTS
  Req = {r1, r2}
  Staff = {s1, s2}
  Operator = {o1, o2}
  StaffRole = {m1, m2}
  OperatorRole = {a1, a2}
  Owner = s1
  Root = o1
  OwnerRole = m1
  RootRole = a1
  Token = {t1, t2, t3}
  Threshold = 2
  MaxSessions = 2
  MaxRequests = 3
  inside = inside
  outside = outside
  ours = ours
  Call = {r1, r2}
  Worker = {w1, w2}
  Client = {inside}
  Address = {inside, outside, ours}
  Proxy = {ours}
  Country <- Country2
  Identity <- Identities
  RuleDoc = {d1}
  Seeds <- Seeded
  Ttl = 1
  WindowSec = 2
  MaxInWindow = 1
  MaxTime = 2
  MaxCalls = 3
  Modules = {"projects", "crm"}
  Elsewhere = "auth"
  RULES <- Suggestions
  QUICK_ACTIONS <- Shortcuts
  Wishes <- PinsAndHides
  Tab = {r1, r2}
  Limit = 2
  StripLimit = 1
  DismissDays = 2
  RankDays = 2
  MaxEntries = 3
  MaxSignal = 2
  MaxDay = 2
  MaxChanges = 2
SPECIFICATION FrontSpec
INVARIANTS SessionsEnd GuessesBounded ManagerRemains NoSpoofing RulesFresh WindowHolds NothingMissed
SYMMETRY Symmetries
CHECK_DEADLOCK FALSE
