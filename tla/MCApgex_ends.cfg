SPECIFICATION FairSpec
CONSTANTS
  Patterns <- MCRulePatterns
  NoPattern = NoPattern
  RulesOf <- MCRulesOf
  MatchAt <- MCMatchAt
  LooksRight <- MCLooksRight
  Sources <- MCSources
  Replacements <- MCMatches
  FuncPhrases = {}
  FlagStrings <- MCFlagStrings
  NameLists = {}
  LastIndexes = {}
  Limits = {}
  SetUpAfter <- MCSetUpAfter
  APG_MAX_AINT = 99
  Junk = 0
  MaxSource = 12
  MaxIndex = 9
CHECK_DEADLOCK FALSE
PROPERTY ReplaceEnds
