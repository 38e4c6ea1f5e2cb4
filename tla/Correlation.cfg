SPECIFICATION Spec
CONSTANTS
  Workers = {w1, w2}
  Events <- MCEvents
  Rules <- MCRules
  TimeOf <- MCTimeOf
  ActorOf <- MCActorOf
  SourceOf <- MCSourceOf
  FieldsOf <- MCFieldsOf
  RuleOf <- MCRuleOf
  LabelFields = {}
  NoActor = ""
  Window = 3
  MaxFindingEvents = 1
  OneAtATime = TRUE
  MaxReplays = 1
  MaxFailures = 1
  MaxRestarts = 1
  Nothing = Nothing
INVARIANTS
  TypeOK
  NobodyElsesIncident
  AckedEvidenceIsKept
  IncidentsAreAWindowApart
  OpenIncidentIsOnFile
  ThresholdIsEarned
PROPERTIES
  PromiseIsKept
SYMMETRY WorkersAreAlike
CHECK_DEADLOCK FALSE
