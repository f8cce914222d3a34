SPECIFICATION Spec
CONSTANTS
  APG_UNDEFINED <- MCUndefined
  Grammars <- MCMeaningGrammars
  Configs <- MCConfigs
  RnmResults <- MCActive
  UdtResults = {}
  AppRules = {2}
  AppNodes = {1, 2, 3}
  MaxLeak = 0
INVARIANTS
  ParseIsMeaning
  AstIsMeaning
  PhraseContract
  TranslationIsTraversal
