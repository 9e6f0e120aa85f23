SPECIFICATION Spec
CONSTANTS
  Place = {1, 2, 3, 4}
  Catalog <- MCCatalog
  Travel <- MCTravel
  Inputs <- MCInputs
  BeamWidth = 2
  StateCap = 8
INVARIANTS
  TypeOK
  PathsKeepRules
  AnswerIsFeasible
  RefusesOnlyTheImpossible
  BestWhenComplete
  ValidatorAgrees
  LockedFoodIsKept
  WithinBudget
PROPERTIES
  EngineAnswers
CHECK_DEADLOCK FALSE
