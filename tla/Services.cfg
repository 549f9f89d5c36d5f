SPECIFICATION Spec
CONSTANTS
  Handler = {h1, h2}
  Target = {t1, t2, t3}
  Scheduler = {s1}
  SweepLimit = 2
  LastDay = 2
  User = {u1, u2}
  Founder = u1
  Skill = {"skill1", "skill2"}
  Agent = {"agent"}
  Top <- OneTop
  HistoryLength = 2
  MaxRequests = 3
  LocalSkill = {1, 2}
  Nested <- TwoNested
  SkillFile = {1}
  HubText = {"v1"}
  Sqlite = TRUE
  Applier = {"apply"}
  Cleaner = {"clean"}
  MaxEdits = 2
  MaxFaults = 1
  Publisher = {"p1", "p2"}
  Stream = {s1, t1}
  Capacity = 1
  MaxPublished = 2
  Syncer = {"sync"}
  Listener = {"team1", "team2"}
  Command = {"login"}
  MaxPairs = 3
  MaxUpsets = 2
  TokenUser = {h1, h2}
  HourlyLimit = 2
  Hour = 1
  MaxTime = 4
  Edits = {"edit"}
  Drafts = {"draft"}
  ContextText = {0, 1}
  MaxLines = 2
  DirectWhen = {FALSE}
  Entry = {"file1", "file2"}
  Bytes = {"old", "new"}
  Mover = {h1, h2, s1}
INVARIANT TypeOK
INVARIANT OwnerRemains
INVARIANT HiddenUntilReleased
INVARIANT OnlyGapLoses
INVARIANT RefreshOnlyWhenDue
INVARIANT HourlyUses
INVARIANT AppliedOnce
INVARIANT StoresAgree
INVARIANT BlobsReadable
INVARIANT MessageKept
PROPERTY DueIsServed
PROPERTY UserDirsKept
 
CHECK_DEADLOCK FALSE
