SPECIFICATION FairSpec
CONSTANTS
  a1 = a1
  a2 = a2
  b1 = b1
  Targets <- MCTargets
  Provider <- MCProvider
  ModelOrder <- MCModelOrder
  ChatTools <- MCChatTools
  PrioritizeChatTools = TRUE
  RecoveryMinutes = 1
  IntervalMinutes = 1
  MaxProbesPerRound = 2
  MinRoundGap = 1
  MaxBackoffRate = 2
  MaxRunTicks = 1
  ManualRuns <- ProbeAll
  Answers <- MCAnswers
  Tripping <- MCTripping
INVARIANTS
  NeverStacked
  CountsBelongToRound
  RoundSettles
PROPERTIES
  RoundSpreads
  RecoversWhenQuiet
