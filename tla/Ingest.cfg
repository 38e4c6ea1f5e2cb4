SPECIFICATION Spec
CONSTANTS
  Deployments <- MCDeployments
  Producers <- MCProducers
  Items <- MCItems
  IdOf <- MCIdOf
  WellFormed = {"login", "grant", "nameless", "future"}
  TimeOf <- MCTimeOf
  Matching = {"login"}
  Reserved = {"grant"}
  RequestsOf <- MCRequestsOf
  FirstFresh = 4
  MaxEvents = 1
  MaxBatch = 2
  MaxAge = 0
  MaxSkew = 1
  DedupWindow = 1
  MaxPosts = 2
  MaxFailures = 1
  MaxTime = 1
INVARIANTS
  TypeOK
  RecordedFirst
  AnswersAreTrue
  RetriesAreAbsorbed
  TrailTellsAll
PROPERTIES
  EveryPostEnds
CHECK_DEADLOCK FALSE
