SPECIFICATION FairSpec
CONSTANTS
  APG_UNDEFINED <- MCUndefined
  Grammars <- MCCallbackGrammars
  Configs <- MCCallbackConfigs
  RnmResults <- MCRnmAnswers
  UdtResults <- MCUdtAnswers
  AppRules = {2, 3}
  AppNodes = {2, 3, 4}
  MaxLeak = 1
INVARIANTS
  TypeOK
  FramesLinked
  SubStringInForce
  LookaroundBalanced
  AstOpenBalanced
  AstWellFormed
PROPERTIES
  ApiSpec
  ParseEnds
