SPECIFICATION BkrSpec
CONSTANTS
  APG_UNDEFINED <- MCUndefined
  Grammars <- MCBkrGrammars
  Configs <- MCBkrConfigs
  RnmResults <- MCBkrAnswers
  UdtResults <- MCBkrUdtAnswers
  AppRules = {2}
  AppNodes = {}
  MaxLeak = 0
  MaxInherited = 3
  HasBackRef <- SESTWalk
INVARIANTS
  StacksNeverEmpty
  FramesBalanced
  PointsSuffice
  PhrasesFound
  ReferenceIsMeaning
