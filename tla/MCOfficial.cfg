CONSTANTS
  MaxSnapshot = 2
  MaxFaults = 3
  PersistentIndex = TRUE
SPECIFICATION OfficialSpec
PROPERTIES
  ImplementsServed
  ServiceTruthful
  ServesPublished
CHECK_DEADLOCK FALSE
