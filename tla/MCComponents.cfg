SPECIFICATION MCSpec

CONSTANTS
  p1 = p1
  p2 = p2
  m1 = m1
  v1 = v1
  v2 = v2
  w2 = w2
  Reader <- MCProcess
  Agent <- MCProcess
  Worker <- MCProcess
  Command <- MCProcess
  Opener <- MCProcess
  Fact <- MCFact
  PageSize = 1
  MaxTokens = 3
  MaxLog = 2
  MaxReadings = 2
  MaxSpoiled = 1
  Text = {c1}
  MinRecent = 1
  Quota = 1
  Bytes <- MCBytes
  PageBytes = 2
  PageMessages = 2
  MaxMessages = 4
  MaxSessions = 2
  Content = {x1, x2}
  Options <- MCOptions
  Lifetime = 1
  MaxClock = 1
  MaxCalls = 2
  MaxChanges = 1
  Child = {k1, k2}
  MaxAttempts = 2
  MaxResponse = 2
  WireUsage <- MCUsage
  Price <- MCPrice
  MaxCount = 6
  MaxChunks = 2
  MaxRequests = 2
  Session = {s1, s2}
  Row <- MCRow
  Memory = {m1}
  Foreign <- MCForeign
  Least <- MCLeast
  QueueLimit = 2
  MaxRows = 2
  MaxProposals = 2
  MaxCommands = 3
  Binary <- MCBinary
  Missing = none
  MaxOpens = 3
  Configured = 0
  Capable = 110
  Fixed = 10
  SourceTool = 3
  SummaryPrompt = 6
  Prefix <- MCPrefix
  Plan <- MCTodos
  Words <- MCWords
  Summaries <- MCSummaries
  Entries <- MCEntries
  TopK = 2
  Recent = 2
  MaxSummary = 5
  MaxWindow = 6
  MaxTasks = 3
  MaxTurns = 2
  Default = "default"
  NoNumber = "word"
  Malformed = {"none", "bad", "ask"}
  Files <- MCFiles
  Environments <- MCEnvironments
  Flags <- MCFlags
  SkillName = {"a", "b"}
  Elsewhere <- MCElsewhere
  SkillText <- MCTexts
  Listing <- MCListing
  FirstDisk <- MCDisk
  MaxFileSize = 3
  MaxTotalSize = 5
  MaxSkills = 2
  MaxEdits = 2
  MaxReads = 2
  Process <- MCProcess
  Claim = {"tabs", "spaces"}
  Ref = {"s"}
  MaxMemoryCommands = 5

SYMMETRY MCSymmetry

INVARIANTS
  ViewIsTheLog
  ArtifactRowsHaveFiles
  NothingForgotten
  SourceReadInOrder
  OnlyGrantedCallsExecute
  NothingLeftRunning
  AnswerIsWhatWasShown
  
  AppliesAreEarned
  MigrationsStand
  RequestsFit
  StrongestLayerWins
  SkillsAsAnnounced
  TrustedStandsAlone

PROPERTIES
  SnapshotsAdvance
  RecordsStand

CHECK_DEADLOCK FALSE
