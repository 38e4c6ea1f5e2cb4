SPECIFICATION Spec
CONSTANTS
  Workers = {w1, w2}
  Events <- MCEvents
  Rules <- MCRules
  TimeOf <- MCTimeOf
  ActorOf <- MCActorOf
  SourceOf <- MCSourceOf
  FieldsOf <- MCFieldsOf
  RuleOf <- MCRuleOf
  LabelFields = {}
  NoActor = ""
  Window = 3
  MaxFindingEvents = 1
  OneAtATime = FALSE
  MaxReplays = 0
  MaxFailures = 0
  MaxRestarts = 0
  Nothing = Nothing
PROPERTY
  EvidenceOnlyGrows
CHECK_DEADLOCK FALSE
