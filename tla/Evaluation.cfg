SPECIFICATION Spec
CONSTANTS
  Entities = {1, 2}
  TypeOf <- MCTypeOf
  Inventory <- MCInventory
  Sightings <- MCSightings
  Reports <- MCReports
  Asks <- MCAsks
  Operators = {"alice"}
  Requests = {r1}
  MaxReports = 2
  MaxRestarts = 1
  Nothing = Nothing
INVARIANTS
  SimulationIsSafe
  NothingIsExecuted
  NoVerdictIsDenial
  CriticalTargetNeedsApproval
  TrailTellsTheRow
PROPERTIES
  LedgerSpec
  EveryRequestEnds
CHECK_DEADLOCK FALSE
