# GRIEFER in TLA+

GRIEFER ingests security telemetry, correlates it into incidents, and judges
proposed responses through a policy kernel; in v0.1 a response is only ever
simulated. This directory models the parts of it that decide, record and
remember, checks them with TLC on small instances, and proves the statements
that matter most with TLAPS for every value of the parameters.

Paths below are relative to the repository; `engine.go:190` and the like point
at the code a definition translates. `PROJECT.json` maps every definition to its
lines and lists the runs, hazards, findings and theorems in machine-readable form.

## The system

| Part | State it keeps | Operations | Modelled in |
|---|---|---|---|
| Policy kernel (`internal/policy`, `policies/rego`) | none; the engine behind it may hang, be gone, or hold another bundle | `Evaluate` | `PolicyKernel` |
| Action catalog (`internal/incidents/catalog.go`) | constant | `Lookup` | `PolicyKernel` |
| Response evaluation (`internal/api/service.go`) | per request: incident copy, target, draft | `EvaluateAction`, `persistEvaluation` | `ResponseEvaluation` |
| Recommendations (`internal/correlation/recommend.go`) | none | `recommendActions`, `resolveTarget` | `Recommendations` |
| PostgreSQL store (`internal/storage/postgres.go`) | tables, audit sequence, connection pool | `SaveActionWithAudit`, `Append`, `List` | `PostgresStore` |
| Correlation engine (`internal/correlation/engine.go`) | open incident per subject, threshold hits (memory); incidents (store) | `Process` | `Correlation` |
| Detection rules (`internal/correlation/rules.go`) | constant | loading, matching, thresholds | `DetectionRules` |
| Security Graph (`internal/graph`) | entities, edges (memory only) | `UpsertEntity`, `UpsertEdge`, `Project`, `ApplyInventory`, `EstimateBlastRadius` | `SecurityGraph` |
| Risk scoring (`internal/risk`) | none | `Assess` | `RiskScore` |
| Ingest (`internal/api`) | none of its own | `handleIngest`, `handleIngestBatch`, `Service.Ingest` | `Ingest` |
| In-memory store (`internal/storage/memory.go`) | the tables, with eviction of events | as PostgreSQL | events in `Ingest`; its end with the process in `Lifecycle` |
| Event bus (`internal/bus`) | JetStream stream | `Publish`, the fallback | `Ingest` |
| Rate limiter (`internal/httpx/middleware.go`) | token bucket per client, bounded table | `allow`, `evictLocked` | `RateLimiter` |
| Principal and roles (`internal/httpx/principal.go`) | none | attribution, `RequireRole` | `Console` |
| Console server (`console/app/api`, `console/lib`) | login attempts; sessions live in cookies | sign in and out, gateway | `Console` |
| Configuration (`internal/config`) | constant | `Load`, `Validate` | `Configuration` |
| API process (`cmd/griefer-api`) | wiring, seed | start, seed, serve, drain, stop | `Lifecycle` |
| Seeder (`cmd/griefer-seed`) | none | wait, check, replay, give up | `Lifecycle` |

How they interact. `Service.Ingest` stores an event, projects it into the graph,
publishes it, and hands it to the correlation engine, which reads and writes
incidents in the store and copies criticality out of the graph into them.
`EvaluateAction` reads an incident from the store and criticality from the
graph, asks the kernel with no transaction open, and writes the action with its
audit entries in one transaction. The console's gateway calls the API over HTTP
in a signed-in operator's name; the API sees all of those calls come from one
address. Graph, open incidents, threshold hits and token buckets are in memory
and end with the process; events, incidents, actions and the trail are in the
store. No part calls back into another and there are no background goroutines
that touch this state: all concurrency is between requests, and between
requests and the start and stop of the process.

What is hard here, and what makes each part correct:

- **Kernel**: an engine that is slow, absent or foreign. Correct if every
  answer is a verdict of a well-formed document or a denial.
- **Evaluation**: its inputs change under it (incident, graph), its store may
  fail after the verdict, its process may die before the answer. Correct if
  what is simulated without a human satisfies the safety model's rules, and if
  row and trail always tell one story, once.
- **Store**: transactions that fail half way, commits whose outcome is lost,
  sequence numbers drawn before commit, a full pool, a reader paging meanwhile.
- **Ingest**: every step after the save may fail on its own, the client may hang
  up and send again, the bus may be away or have kept what it did not
  acknowledge. Correct if nothing is reasoned about before it is stored, the
  answers are true, and a retry changes nothing.
- **Correlation**: late, reordered and replayed events; a lock that covers each
  look at the maps but not the read-merge-save between them; restarts. Correct
  if no finding lands in another subject's incident, acknowledged evidence
  stays, and a threshold fires only when earned.
- **Graph and risk**: read in many small critical sections while other requests
  write. Correct if the walk shows exactly what is there, an incident lists what
  its evidence names, and its score never falls.
- **Limiter, login, gateway**: bounded tables at their limit, checks on one side
  of an await and effects on the other, sessions nobody can revoke, timeouts
  that race a late answer.
- **Process**: a signal, a crash or an outage at any point of a start or a stop;
  requests that outlive the grace period; seeders that check and then write.

## Modules

| Module | What it is |
|---|---|
| `PolicyKernel` | Catalog, policy rules, acceptance of a document, verdict to status. Operators only. |
| `Recommendations` | Recommended actions and targets over criticality. Extends `PolicyKernel`. |
| `EvaluationLedger` | Abstract: each evaluation is recorded whole, at most once, for ever. |
| `ResponseEvaluation` | `EvaluateAction` in its environment. Extends `Recommendations`; implements `EvaluationLedger`. |
| `PostgresStore` | Transactions, sequence and paging. Implements `EvaluationLedger`. |
| `DetectionRules` | Conditions, matching, what makes a rule pack load. Operators only. |
| `IncidentLedger` | Abstract: an incident changes only by folding in one event of its subject, and callers are told of nothing else. |
| `Correlation` | `Engine.Process` behind `SaveEvent`. Extends `DetectionRules`; implements `IncidentLedger`. |
| `Ingest` | The whole ingest path over either store and the bus; correlation seen from outside. |
| `RiskScore` | `Assess` in integers. Operators only. |
| `SecurityGraph` | The graph as ingest builds it and `recompute` reads it. Extends `RiskScore`. |
| `RateLimiter` | Token buckets in a bounded table. |
| `Console` | Sign-in, sessions and gateway over the API's limiter. Extends `RateLimiter`. |
| `Configuration` | `Load` and `Validate`. Operators only. |
| `Lifecycle` | The API process and the seeders. Extends `Configuration`. |
| `MC*` | Small instances for TLC. |
| `*Proofs` | Theorems about the module they extend. |

`ResponseEvaluation` writes its unit in one step, `Persist`, or fails with
nothing written. `PostgresStore` is what justifies that step: seen through
`recorded`, both implement the same ledger, one with a transaction's many steps
and one with a single one.

`Ingest`, `Correlation` and `SecurityGraph` look at one path from three sides.
`Ingest` has its order, its failures and its answers, and takes of correlation
only that it touches an incident, or none, or fails. `Correlation` has the
engine's lock and the incidents, and takes of ingest only the save and the
answer. `SecurityGraph` has the many critical sections of the graph and takes
the events of one subject one at a time.

### State and code

`ResponseEvaluation` has one action per point at which `EvaluateAction` touches
something shared: `Receive` (arrival, catalog and mode checks, lines 312-381),
`Load` / `IncidentMissing` / `LoadFails` (383-395), `Resolve` (397-403, the
graph's lock), `Decide` (405-474, kernel call and `applyDecision`), `Persist` /
`StoreFails` (501-531), `Answer`. Between any two of them `Observe` may raise an
entity's criticality, `Correlate` may store another version of the incident, and
`Restart` may end the process. `alarm` is a history variable: the entities the
graph held critical when the request arrived.

`PostgresStore` has one action per statement of `inTx`: `Begin`, `WriteAction`,
`AppendAudit` (which draws from the sequence), `SendCommit`, and the failure of
each, with `Rollback`. What the database makes of a COMMIT that was sent is a
step of its own, `Commit` or `CommitRefused`, and so is the caller's hearing of
it: `CommitReturns`, or `CommitFails` when it was refused, the answer was lost or
the context ended first. So a unit may be durable while its call is still under
way, and a COMMIT that is on its way when its caller gives up, or when the
process dies, may still commit. `Cancel` ends a request's context, `Crash` the
process, at any point. `StartReading` is a client
of `GET /audit`; each of its requests runs the two statements of `List`,
`CountRows` and then `ReadPage`, or `PageFails`, in which case it asks again.

`Correlation` has one action per critical section or store call of `Process`:
`Evaluate`, `Lookup`, `Load`, `Save`, `Record`. `SaveFails` may have written the
row all the same (`Write`), when only the answer was lost; `Ingest` has the same
in `IncidentLost`. `Correlation`'s `Ingest` includes `SaveEvent`.
Timestamps are small numbers; only their differences matter.

`Ingest` has one action per call of `Service.Ingest` that another request can
fall between: `Decode` (validation and normalization, with the entry of a
rejection), `Save`, `Project` (with the entry of a quarantined label),
`Publish`, `Correlate`, `Ingested`; `Post` and `Answer` are the handlers around
it, one item or a batch. `HangUp` cancels the request's context, which
PostgreSQL and the publisher honour and the in-memory store does not. `arrivals`
and `accepted` are history: what the table ever took, and what producers were
told, with `mark`, the length of `arrivals` at the save.

`SecurityGraph` has one action per method of `Graph` a request calls: `Project`
is an `UpsertEntity` or `UpsertEdge` at a time, `recompute` a `ReadEntity` for
each entity and an `EstimateBlastRadius` for the walk, then `SaveIncident`. Entity ids are numbers in the order the code sorts them,
so that the walk's order, and with it `via`, is the code's.

`Console` steps from await to await: `SubmitForm` ends at the password hash,
`SignIn` or `RejectForm` goes on after it; a gateway call is `EnterGateway`,
`AttributeCall`, `ForwardCall`, and then `DeliverAnswer` or `GiveUp`. The API
does a call in `EvaluateCall` or `ReadTrail`, through its limiter; `wire` holds
the calls the gateway sent, until their answers are taken, and `LoseCall` loses
one. A call stays on the wire for as long as it likes, and the API does it when
it comes: the ledger has both times, when it was `sent` and when it was done
(`at`). An answer is taken only if it began before the gateway's timer ran.
`failed`, `held` and `answers` are history.

`Lifecycle` follows `run()`: `Start` (configuration), `Connect`, `Probe`,
`Announce`, `Seed` and `Seeded`, serving, `Shutdown`, `Drained` or
`GraceExpires`, `SignOff`, `Exit`. `Signal` and `Crash` may fall anywhere;
`GoDown` takes the memory and the in-memory store with it. A post's handler is
`Service.Ingest` in four steps, enough to cut it anywhere that matters.

Abstractions worth knowing:

- The policy's `input_complete` rule is left out: `EvaluateAction` fills every
  field, so it always holds. For a foreign bundle any document is possible.
- `Evaluate` counts all of an event's threshold rules in one step. The code takes
  the lock once per rule, but the keys of two rules are different, so nobody can
  tell the difference.
- The test for a closed incident in `mergeIntoIncident` is left out: no code sets
  that status.
- An incident is the categories, risk and criticality that evaluation reads in one
  module, and the findings with their events that correlation writes in the other.
- Ids are fresh (`internal/idgen` draws random ones); `audit.Recorder.Prepare`
  cannot fail for the entries built here, so its error path is left out.
- `RiskScore` counts in integers what the code computes in floating point: weights
  in sixths, evidence in ten-thousandths, and a rounded exponential by the least
  argument at which each score is reached.
- A setting's text is reduced to what `Load` and `Validate` tell apart: a flag is
  "true", "false" or anything else.
- In `Lifecycle` a run's consecutive request entries on the trail are one entry,
  every event of the scenario makes a finding, seeders run with `-once`, and
  there is one API process. The event bus has no part there: `newPublisher`
  falls back to a publisher that does nothing and never holds up a start.

## What is checked

Passing runs:

| Run | Instance | States | Shows |
|---|---|---|---|
| `evaluation` | one request out of ten kinds, two entities, three reports, two versions of the incident, one restart, any bundle | 240k, depth 14 | `SimulationIsSafe`, `NothingIsExecuted`, `NoVerdictIsDenial`, `CriticalTargetNeedsApproval`, `TrailTellsTheRow`, `LedgerSpec`, `EveryRequestEnds` |
| `postgres_store` | three calls (action with two entries; one entry without action; `Append`), two connections, pages of two, one reader | 690k, depth 27 | `TrailIsOrdered`, `AcknowledgedIsDurable`, `UnitsAreWhole`, `NothingIsSkipped`, `ShortPageIsTheEnd`, `LedgerSpec`, `EveryCallReturns` |
| `correlation` | two workers, four events, two subjects, a threshold of two, one replay, one failed or unanswered store call, one restart | 310k, depth 32 | `NobodyElsesIncident`, `AckedEvidenceIsKept`, `IncidentsAreAWindowApart`, `OpenIncidentIsOnFile`, `ThresholdIsEarned`, `PromiseIsKept` |
| `ingest` | the collector and the agent, five kinds of item, a request each or two of one, either store, one fault | 120k, depth 32 | `RecordedFirst`, `AnswersAreTrue`, `RetriesAreAbsorbed`, `TrailTellsAll`, `EveryPostEnds` |
| `security_graph` | two workers, five events of two subjects over six entities, four ingests, one restart | 52k | `WalkIsTheGraph`, `IncidentKeepsUp`, `ScoreNeverFalls` |
| `console` | two browsers, two addresses, an account whose role a deployment takes away, an agent beside the console, five requests | 6.2M, depth 28 | `AdmissionsAreBounded`, `AttemptsAreBounded`, `StaleRoleIsBounded`, `AnswersAreTrue` |
| `lifecycle` | two starts in three environments that may run and eight that must not, two seeders, a scenario of two events, one outage | 890k | `ServingIsPrepared`, `StoppedMeansDrained`, `SeedingStacksNothing`, `EveryStopEnds` |

`correlation`, `ingest`, `security_graph` and `console` also check their module's
`TypeOK`; for `ResponseEvaluation`, `PostgresStore` and `Lifecycle` it is only
proved. `PromiseIsKept` says more than `EvidenceOnlyGrows`, which the run
`lost_update` violates and the theorem `EvidenceGrows` proves for subjects whose
events are sent one after the other. Every invariant and every action property in
the table, and every `TypeOK`, is also a theorem. Every property has a mutant in
`PROJECT.json`: a definition changed the way a plausible bug would change it,
under which the run finds the property violated.

Runs that find a sentence of the documentation violated by the code:

| Run | Sentence | What the code does |
|---|---|---|
| `stale_criticality` | SAFETY_MODEL.md:131-134, rule 5 "cannot be dodged by asking for an unrecommended action" | the fallback of `resolveActionTarget` uses the criticality stored with the incident, not the graph's |
| `forgotten_criticality` | graph.go:12-13, the graph is rebuilt "from stored events on start" | `main.go` starts from the inventory alone |
| `audit_gap` | SAFETY_MODEL.md:177-178, "a missing audit entry is visible as a sequence gap" | a unit lost before its first insert draws no number |
| `threshold_window` | rules.go:54-55, only after Count events "inside Window" | hits later than the current event are kept however far away |
| `lost_update` | score.go:6-8, evidence never lowers the score | concurrent merges of one incident overwrite each other |

`audit_gap` is not a claim that entries get lost silently: the failure is also
logged, which is the sentence's other half.

What else was met while modelling, where code and words differ in a detail that
no property needs:

- ARCHITECTURE.md:273 has ingestion return 500 while PostgreSQL is down. A batch
  is answered 400 when all its items fail in storage, and 207 when some do
  (handlers.go:230-233); so `Code` says.
- ARCHITECTURE.md:274 has NATS recover "automatic on reconnect". When it is down
  at startup the process keeps a publisher that does nothing for its whole life,
  and its answers are not reported degraded.
- bus.go:24-25 says an error means the event was not delivered. A publish that
  timed out may have been; `PublishFails` allows it.
- service.go:139-144: an id sent again with other content is not stored again, but
  the new content is projected, published and correlated.
- projector.go:114-116 keeps an attempted access apart from a real one by name; the
  blast radius walks both alike.
- score.go:10-13 says the score never reaches 100. Rounded, it does.
- config.go:370-380: a flag that does not parse counts as not set, so
  `GRIEFER_STORAGE_POSTGRES=yes` starts on the in-memory store: the environment
  `mistyped` of `lifecycle`.
- main.go:246-259: when the grace period runs out the last entry is recorded under
  the context that has just expired, so PostgreSQL never gets it.
- A console session that expires between the two looks a gateway call takes at
  it makes the call nobody's, and `RequireRole` lets nobody's call pass
  (principal.go); that is why `StaleRoleIsBounded` names it.

### Bounds, and why they are enough

- `evaluation`: requests share no state with one another; each draws its own
  action id, and what one sees of another is only the environment's doing. So
  TLC takes one request, and the proofs take any number. Two versions of the
  incident are one read and one stale; one restart may fall between any two
  steps. The ten kinds of request take every branch: recommended and not,
  irreversible, destructive, unlisted, bad mode, missing incident, automated,
  automated with an operator. The three reports lie on either side of both
  automation thresholds.
- `postgres_store`: three calls over two connections make one wait; one call
  has two entries, which a half-written unit and an interleaved sequence need.
  Pages of two over four entries take several reads, with commits between them
  and between a count and its page.
- `correlation`: two workers suffice for every race of one subject. The events
  are on either side of both windows: 2 to 5 is exactly the correlation window,
  5 to 9 exactly the rule's, 2 to 9 outside both. `MaxFindingEvents` is 1 so that
  a full finding occurs. `OneAtATime` restricts the passing run to subjects
  whose events are sent one after the other, since without that `EvidenceOnlyGrows`
  is false: that is the run `lost_update`. Different subjects run concurrently.
  `IncidentsAreAWindowApart` and `ThresholdIsEarned` are stated for subjects whose
  events came in order and once each (`orderly`), and the former for behaviours
  without failures and restarts, because the code promises no more; the run
  `threshold_window` shows what happens out of order.
- `ingest`: the items are one that matches a rule and is too old a tick later, one
  with a reserved label, one without an id, one from too far ahead and one that
  is malformed. The collector posts batches - of two that conform, of one that
  does and one that does not, an empty one and one too long -, the agent single
  events, one of which the collector sends as well; so the two requests are each
  other's retry and each other's competitor. A table of one event evicts at the
  second. The clock's two readings lie within and at the end of a deduplication
  window of one. One fault is a failed or unacknowledged call, a hang-up or an
  outage of the bus. The stores and publishers are the two pairs the repository
  ships: in memory without a bus, and PostgreSQL with JetStream.
- `security_graph`: two identities share an address, one reaches a secret that
  unlocks an inventoried database. From the other identity that database is four
  hops away, one beyond `MaxHops`. Edges keep one event, so that an edge that is
  full occurs; the restart falls between any two steps.
- `console`: a bucket of one token that is full again after a tick, kept for no
  longer than that, in a table of one, so that the console and the agent push
  each other out. Two failures block; two browsers overlap; the table of
  attempts holds one key of two, so that pruning occurs and a failure can go
  uncounted - `AttemptsAreBounded` leaves such keys out, because the code counts
  nothing for a key it has no room for. Five requests do not reach its bound
  (three failures of four); one attempt more, with a window and a block of two
  and nothing but forms, does. A first version of the bound counted `MaxFailed -
  2` before the full window. It held in this instance and was refuted by TLC with
  a longer window when its proof failed: a block's entry can hold `MaxFailed - 1`
  failures when it ends, a full window follows, and the forms in hand come on top.
  The clock's three readings are before, at and after the end of a session, a
  window, a block and a timeout of one.
- `lifecycle`: two starts are one that ends and the next; a crash, a signal or
  the outage may fall between any two steps; two seeders, each with a scenario of
  two events, overlap each other and the process's own seeding. Each environment
  that must not run is refused by one condition of `Validate` alone.
  `SeedingStacksNothing` is stated for replays that do not overlap and were not
  cut apart (`disturbed`): the code does stack incidents otherwise.
- The constants whose names begin with `Max` that no source line has (`MaxReports`,
  `MaxRestarts`, `MaxReplays`, `MaxFailures`, `MaxPosts`, `MaxTime`, `MaxIngests`,
  `MaxRequests`, `MaxDeploys`, `MaxRuns`, `MaxLaunches`, `MaxOutages`) bound
  counters in the guards of the actions that step them.

`CHECK_DEADLOCK FALSE` throughout: each instance serves finitely many calls and
then rightly stops.

### Fairness

`ResponseEvaluation`: weak fairness of each handler's next step. A goroutine that
can run does; the kernel call has a timeout (`remote.go:135`) and the embedded
kernel computes locally; a store call returns or fails. No fairness of arrivals,
telemetry, correlation or restarts.

`PostgresStore`: weak fairness of each call's statement, commit and rollback, of
the database's handling of a COMMIT it was sent and of the caller's hearing of it,
of a waiting call whose connection stays free, of the pool giving up a call whose
context has ended (pgx honours the context). The reader may stop at any point. No
failure is assumed to happen: an uncancelled call must finish through `Begin`, and
nobody is assumed to give up on a COMMIT the database has yet to handle.

`Ingest`: weak fairness of each handler's next step, for the same reasons; the
publish has `publishTimeout`. The clock need not move and the bus need not
return, so `EveryPostEnds` says that a request ends although the bus is away for
good.

`Lifecycle`: weak fairness of the process's own next step while it starts or
stops, all of it in one goroutine and under contexts that end. No seeder,
request, dependency or operator is assumed to do anything: a stop ends because
the grace period does.

`Correlation`, `SecurityGraph` and `Console` state no liveness: nothing there
waits for anything but the network.

## What is proved

The theorems are in the modules named `*Proofs`, for every value of the
constants that satisfies the named assumptions of the modules. Most of these are
types: entities are numbered and finitely many; asks, reports, sightings, items
and environments are of their types; bounds are naturals; `Nothing` is no row,
incident or unit; each writer writes one or two entries; `Correlation` has
finitely many workers and events, `Console` finitely many browsers, each account
has its roles, and the scenario has an event. These say more:

- `FullBeforeForgotten`: a bucket is full again by the time it may be forgotten.
  It holds for the defaults (100 tokens at 50 a second, ten minutes), but nothing
  in `Validate` keeps a slower rate out.
- `BlockOutlastsWindow`: the login limiter blocks for no less than its window.
  Both are a quarter of an hour in the source (ratelimit.ts:18-20).
- `InventoryIsSound`: the inventory's edges join entities it declares, which
  `ApplyInventory` checks, by relations the package declares, which it does not.
- `RulesAreSound`: no more rules than repetition factors are tabulated for (six,
  the pack's number), with confidences in 0..100.
- `GraphBounds`: `MaxHops` is at most 3, its default, since weights are in sixths.

**Policy** (`ResponseEvaluationProofs`). `AllowedIsSafe`: what the policy allows is
known, reversible, not destructive, a simulation, not on a critical asset, and
when automated corroborated and above the risk threshold. `KernelFailsClosed`:
every answer of the kernel is a decision, and a fail-closed one is a denial.

**Recommendations** (same module). The most critical candidate exists and is a candidate
(`MostCriticalIsCandidate`, by well-founded choice of the least id among the
highest rank), so a recommended target is an entity the incident touches.

**Store** (`PostgresStoreProofs`). `IInv` adds to `TypeOK`:
`Numbered` (every number drawn is below the next), `DrawnOnce` (no number was
drawn twice, and a unit's ascend), and `CommittedWhole` (what is in the log is
exactly what its transaction drew and wrote, it is there just when the database
committed, and the phases agree with what became of the COMMIT).
`TrailIsOrdered`, `AcknowledgedIsDurable` and `UnitsAreWhole` are not inductive:
they speak of the log, whose contents come from what transactions hold before
they commit, so the invariant must speak of those. `StoreIsLedger` shows that
every step of the store is a `Record` of the ledger or a stutter: only `Commit`
changes what is recorded, from nothing to a whole unit, be its caller waiting for
it, gone or dead. `Acknowledged` says what a caller may conclude from that.
`PagingSkipsNothing` needs `ReaderInv`: an entry that was there at the start and
has not been shown still lies at or after the offset. Commits between two pages only add
rows, which moves an old entry to a later position, never to an earlier one;
`AheadOfReader` and lemmas on cardinality carry that. `ShortPages` is about a
total and a page that two statements read, with commits between them: what was
counted is still there when the page is read (`CountedIsThere`, since the trail
only grows), and a page shorter than its limit leaves no row beyond it
(`NoRowBeyondAShortPage`: the first such row would have more rows before it than
the offset and the page hold together). The converse is not promised, and a
client must not stop because it has been shown `total` rows: commits with lower
sequences between the two statements push counted rows past the page.

**Evaluation** (`ResponseEvaluationProofs`). `IInv` gives each request a
`RequestInv`: its draft is the unit `JudgedAction`, `RejectedAction` or
`NoAction` builds from what it read and some answer the kernel could give
(`DraftIsVerdict`), its stage tells what it has read (`StageTells`), what is
recorded is its draft (`RecordedAsDrafted`), a live request's alarm still stands
in the graph (`AlarmStands`, because criticality is only raised and a restart
ends the requests in flight), and its target is the one resolved from its
snapshot (`RecommendedAim`). From it: `SimulatedSafely`, `HardStop`,
`FailsClosed`, `CriticalTargetsWait`, `TrailAgrees` and `EvaluationsAreLedger`.

**Ingest** (`IngestProofs`). `IInv` has five parts. `TypeInv` adds to the types
that a request in hand has items left. `FileInv`: the table is the tail of all
arrivals, without repetition, all of them on PostgreSQL and the last `MaxEvents`
in memory, and an id arrives again only more than `MaxEvents` arrivals later.
`StreamInv`: two messages of one id are a window apart. `SayInv`: what a request
in hand is about to say, and what was said, is `Known` (on file, or something
was saved since) and `Told` (on the bus unless reported otherwise); and
`Recorded`. A step forgets nothing of this (`Grown`, `SaidStaysTrue`), so each
action need only be shown to know what it adds. From it: `StoredBeforeReasoned`,
`AcceptedIsKept` (what is not in the tail of the arrivals arrived before it) and
`RetriesChangeNothing`. The last part, `TellInv`, is about the trail while nothing
has failed: an event that arrived is in the trail or in the hands of a request at
a stage that has yet to tell. It gives `TrailAccounts`. Its proof did not go
through as the property first stood: when two items carry one id and only one of
them a reserved label, the other may be the one on file, and a quarantine is not
told of it when the labelled one is still to come. So the third clause of
`TrailTellsAll` is about the ids all of whose items carry a reserved label
(`OnlyReserved`); in the instance that makes no difference.

**Correlation** (`CorrelationProofs`), in two steps. `CInv` holds however
requests interleave: ids suffice and are used once (`IdsSuffice`,
`FileIsSorted`), what is open and what is in hand belongs to its subject
(`OpenIsOwned`, `WorkIsOwned`), and two workers at one incident serve one
subject (`NobodyShares`). From it `IncidentsAreSomebodys`, unconditionally:
nobody's findings land in another's incident. `SInv` needs `OneAtATime`: then
a copy in hand is what is on file (`CopiesAreCurrent`), so that saving it only
adds to it (`Grown`); full findings stay as they are (`FindingsAreBounded`).
From it `EvidenceIsKept`, `OpenIsOnFile` and `EvidenceGrows` - which is exactly
what `lost_update` refutes without it. Two more invariants rest on `SInv`. `OInv`
follows a subject whose events come in order: the event in hand is the latest
(`EventsAreLatest`), what is on file has events (`FilesAreFilled`), and without
failures and restarts the engine knows the subject's last incident, the
incidents are a window apart, and a new one is only opened a window later
(`WindowsKept`); from it `IncidentsKeepApart`. `HInv` follows a threshold: its
hits are different events on file that match the rule (`HitsAreEvents`), so what
was found is backed by as many of them inside the window (`FoundIsBacked`); from
it `ThresholdsAreEarned`. The pass over the hits is the recursive function
`Kept`. That it keeps exactly the hits inside the window, for every sequence of
hits, is proved without an induction rule: were it wrong for some prefix, there
would be a shortest one, and one turn of the loop contradicts it.
`CorrelationTypeCorrect` needs the same for the number of hits retained.
`EngineKeepsPromise` is the refinement. An event is filed by `Ingest`; the write of
an incident, answered or not, is a `Fold`; `Record` is a `Tell`; every other
step, a restart among them, is a stutter. A `Fold` adds to what is on file only
because the copy saved is what is on file (`CopiesAreCurrent`), or a new
incident's, which is empty (`FilesAreFilled`); and what was found is shown to
be among the incident's rules although a full finding takes no more events
(`MergedRules`). Without `OneAtATime` it is false for the reason
`lost_update` shows.

**Limiter** (`RateLimiterProofs`). `ClientsGetTheirRate`: from any instant on a
client is admitted at most `Burst` and `Rate` for each tick since. That is not
inductive: `SpentAndLeft` says that what was admitted *and what is left* stay
within it, which a refill, an admission and, by `FullBeforeForgotten`, being
forgotten all preserve.

**Console** (`ConsoleProofs`). Its limiter is `RateLimiter`'s: every step is one
of the limiter's or leaves its variables alone (`ConsoleKeepsLimiter`, a
refinement), so `WritesAreLimited`. `SessionInv` follows a role on its way from
the account into a cookie, from there into a call, onto the wire and into the
ledger (`HeldIsCurrent`, `CookiesFresh`, `CallsFresh`, `WireFresh`,
`LedgerFresh`): at each place the account held it no longer ago than a session
lasts at the moment the place answers for, which on the wire and in the ledger is
when the call was sent. `TimeInv` says how much later it was done: a call whose
answer the gateway took was done within its timeout of being sent. From both
`SessionsAgeOut`; of a call the gateway did not wait for, nothing bounds when the
API does it. `CallInv`
follows the number of a call: numbers are given once, a call is on the wire or in
the ledger at most once, a reply on the wire says what the ledger says, and what
was answered stays true (`AnswersAreHonest`). `LoginInv` says, for each key, what
its entry knows of the failures there were: since its window began no more than it
counts, and in a window's length before that no more than an entry can count
without blocking. A block is met only by the forms that were being hashed when it
began; while it lasts, the recent failures and the forms in hand together do not
grow, which is the potential `GuessingIsBounded` rests on. `TableInv`, that the
limiter's table holds no more keys than it may, completes `ConsoleTypeCorrect`.

**Lifecycle** (`LifecycleProofs`), for any environments, seeders, scenario and
number of starts. `TypeInv` adds that a living process runs in an environment
`Validate` let pass; `StageInv`, that a handler follows its seeder's stage and
nobody is served before the process listens. `DiskInv` says of the trail that
outlives processes what the current run may have written at each phase and where
the stops of all runs stand; `StartIsTold`, that a run past its announcement has
its start there, without which entries could come before a start (`RunsBegin`).
From both `RunsAreToldApart`. It does not say that every request was told: a
grace period that expires, or a store that is down, leaves requests without an
entry. `PreparedInv` is `StartIsTold`, and that an incident the process knows to be open, or whose event
it acknowledged to its own seeding, is on file unless a correlation failed
(`OpenOnFile`); with `ValidMeansGuarded`, a fact about `Validate` for every
environment, it gives `ServingProcessIsPrepared`. `AloneInv` says that,
undisturbed, one replay runs at a time, of a scenario that has no incident yet or
whose incident is known to be open; from it `ScenarioIsSeededOnce`.

**Security Graph** (`SecurityGraphProofs`), in two halves. The first is about the
operators, for every graph `GraphTyped` admits and every set of seeds. `TurnKeeps`
is the loop invariant of the breadth-first search: what was found so far is listed
once, each at its true distance and with an edge from one hop nearer (`Sound`); it
is in order of distance, what waits spans at most two distances, and no peer of
what was taken out is missing (`Turned`). An empty queue then means that all
within `MaxHops` is reached (`EmptyQueueIs`), and since every turn reaches one
entity more, `Cardinality(Entities)` turns empty it (`ReachIs`). `Walk`, `Ball`
and the library's fold are recursive; what they compute is proved like `Kept`
above, by the least number of turns, or seeds, at which it would fail, and the sum
of a function is counted as the area under it (`SumIsArea`), which makes sums of
more and larger terms larger. `AssessGrows`: more rules, a larger blast radius and
a critical asset never lower a score. `BlastOfMore` and `BlastGrows`: neither do
more seeds or a graph that has grown lower a blast radius.

The second half is `IInv`. `Grown` says of a step that no criticality fell and no
edge went. Every step but a restart is one, so what was read from an earlier graph
is a lower bound of this one: the copy a request works on lists entities the graph
knows, no criticality it read is above the graph's (`Rated`), and a blast radius
it estimated is at most what a walk would now find (`Covered`). The same is kept
of the incidents on file. `Hand` says that a request's upserts are in the graph,
which makes every edge join known entities; `Copy` and `Saving`, that what is
about to be saved holds all that the incident on file does - since one request at
a time works for a subject (`AloneInv`, the guard of `Ingest`; without it see
`lost_update`). From it `GraphTypeCorrect`, `WalksAreTrue`, `IncidentsKeepUp` and
`ScoresNeverFall`.

Only model-checked:

- liveness (`EveryRequestEnds`, `EveryCallReturns`, `EveryPostEnds`,
  `EveryStopEnds`), which the prover cannot do under fairness;
- what a score is worth: the proofs use of `RiskScore`'s tables of exponentials
  only that a score counts the steps that were reached;
- the violations, which are counterexamples by nature.

## Hazards

`PROJECT.json` lists what a test would hardly reach, each at its line, with the
properties that watch it. Every one has a property.

## What is not modelled, and why

- Console pages, branding scripts, site and deployments keep no state the
  properties speak of; nor do rendering, titles, metrics, logging, the router and
  the listings.
- JSON schema validation, OPA's evaluation (`authz.rego` with it), YAML, pgx,
  JetStream and the password hash are libraries or services: only what the code
  relies on is in the models (a document, a transaction, a sequence, a message
  id, a wait).
- The label guard and the shaping of fields on the way in are stateless; which
  items they refuse or quarantine is a constant of `Ingest`.
- The in-memory store's tables other than events, and PostgreSQL's upserts of
  events and incidents, are maps by id under one lock or one statement: they are
  the durable variables of the modules that write them.
- The token comparison is a pure guard. Timestamps and ids stamped on entries are
  data. `Migrate`, `-healthcheck` and `-version` are left out.

## Plan

What would come next, in this order:

1. `Ingest` over `IncidentLedger` in place of its set of touched events, so that
   `PromiseIsKept` holds of what producers are answered.
2. One subject's requests at a time in `SecurityGraph` as a consequence of
   `Correlation`'s `OneAtATime` rather than a guard of `Ingest`.
3. A bound on `AttemptsAreBounded` for the keys the table has no room for: the
   code promises none, but the table's size bounds how many there are.
