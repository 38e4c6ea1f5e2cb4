SPECIFICATION Spec
CONSTANTS
  Entities = {1, 2}
  TypeOf <- MCTypeOf
  Inventory <- MCInventory
  Sightings <- MCSightings
  Reports <- MCReports
  Asks <- MCTargetedAsks
  Operators = {"alice"}
  Requests = {r1}
  MaxReports = 2
  MaxRestarts = 1
  Nothing = Nothing
INVARIANT
  RuleFiveCannotBeDodged
CHECK_DEADLOCK FALSE
