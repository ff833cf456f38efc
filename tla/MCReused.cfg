SPECIFICATION GroupsSpec
CONSTANTS
  b1 = b1
  b2 = b2
  b3 = b3
  BattleId <- MCBattle
  Facts <- MCFacts
  Sightings <- MCSightings
  Windows <- MCWindows
  Levels <- MCLevels
  Within <- MCWithin
  BaselineOf <- MCBaselineOf
  Age <- MCAge
  Archetype <- MCArchetype
  Apart <- MCApart
  RagLimit <- MCRagLimit
  NoId = NoId
  NoEvidence = NoEvidence
  Rejected = Rejected
  NoGroup = NoGroup
  DeckSize = 2
  EvolutionSlots = 1
  EliteSlots = 1
  SpecialSlots = 1
  MaxRows = 2
  LowSample = 2
  WideThreshold = 2
  DeckThreshold = 1
  Retained = 2
  MaxWeek = 1
  MaxGroups = 2
  MaxObservations = 2
PROPERTY ReusedOnlyUnchanged
CHECK_DEADLOCK FALSE
