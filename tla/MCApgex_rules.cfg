SPECIFICATION Spec
CONSTANTS
  Patterns <- MCRulePatterns
  NoPattern = NoPattern
  RulesOf <- MCRulesOf
  MatchAt <- MCMatchAt
  LooksRight <- MCLooksRight
  Sources <- MCRuleSources
  Replacements <- MCRuleReplacements
  FuncPhrases = {}
  FlagStrings <- MCRuleFlags
  NameLists <- MCNameLists
  LastIndexes = {}
  Limits = {0}
  SetUpAfter <- MCSetUpAfter
  APG_MAX_AINT = 99
  Junk = 0
  MaxSource = 12
  MaxIndex = 9
CHECK_DEADLOCK FALSE
INVARIANTS
  PhrasesAreNodes
  ReplaceIsRewrite
