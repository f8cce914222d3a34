SPECIFICATION FairSpec
CONSTANTS
  Patterns <- MCPatterns
  NoPattern = NoPattern
  RulesOf <- MCRulesOf
  MatchAt <- MCMatchAt
  LooksRight <- MCLooksRight
  Sources <- MCSources
  Replacements <- MCReplacements
  FuncPhrases <- MCFuncPhrases
  FlagStrings <- MCFlagStrings
  NameLists = {}
  LastIndexes <- MCLastIndexes
  Limits <- MCLimits
  SetUpAfter <- MCSetUpAfter
  APG_MAX_AINT = 99
  Junk = 0
  MaxSource = 12
  MaxIndex = 9
CHECK_DEADLOCK FALSE
INVARIANTS
  FoundIsLeftmost
  ReplaceIsRewrite
  SplitIsGaps
PROPERTY CallsEnd
