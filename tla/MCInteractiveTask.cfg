\* One task: slow and lost notifications, prompts, keys, a signal, a failed read.
SPECIFICATION Spec
CONSTANTS
  feed = feed
  final = final
  Chain <- MCChain
  Feed <- feed
  Final <- final
  Capacity = 1
  PageSize = 1
  MaxFacts = 3
  MaxFaults = 1
  MaxPrompts = 2
INVARIANTS
  ViewIsPrefix
  PromptReachesUser
  ExitWaitsForRun
PROPERTIES
  ShowsEverything
  StopsEnd
CHECK_DEADLOCK FALSE
