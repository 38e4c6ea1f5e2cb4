--------------------------- MODULE SecurityGraph ----------------------------
(***************************************************************************)
(* The Security Graph (internal/graph) as ingest builds it and as the      *)
(* correlation engine reads it back (Engine.recompute).                    *)
(*                                                                         *)
(* Every method of Graph takes its lock for itself, so projecting one      *)
(* event is a step for each entity and each edge it mentions, and scoring  *)
(* an incident is a step for each entity it reads and one more for the     *)
(* walk: other requests change the graph in between.  The graph lives in   *)
(* memory and starts from the asset inventory; a subject's events are      *)
(* taken one at a time (module Correlation says what happens otherwise).   *)
(*                                                                         *)
(* Entity ids are numbers, in the order the code sorts them; criticality   *)
(* is its rank, 0 (low) to 3 (critical).                                   *)
(***************************************************************************)
EXTENDS RiskScore, Sequences

CONSTANTS
  Workers,          \* ingest requests that run at a time
  Entities,         \* entity ids, positive
  Events,           \* event ids
  Telemetry,        \* what each event says
  FindingOf,        \* the rule an event triggers, or Nothing
  Rules,            \* rule id -> [category, severity, confidence]
  Assets,           \* inventory: declared entities with their criticality
  AssetEdges,       \* inventory: declared edges
  MaxHops,          \* DefaultMaxHops
  MaxEdgeEvidence,  \* event ids an edge keeps
  MaxIngests,       \* bound: events taken in a behaviour
  MaxRestarts,      \* bound: restarts in a behaviour
  Nothing

NoEntity == 0       \* the event names none
NoRelation == ""    \* a seed of the walk was reached along none

(* Relations, in the order they sort. *)
Relations == <<"accessed", "attempted_access", "authenticated_from",
  "granted_role_on", "grants_access_to", "member_of", "opened_session", "owns",
  "runs_on", "used_device">>

ASSUME GraphBounds ==
  /\ Entities \subseteq Nat \ {NoEntity} /\ IsFiniteSet(Entities)
  /\ Nothing \notin 0..3
  /\ MaxHops \in 1..3 /\ MaxEdgeEvidence \in Nat
  /\ MaxIngests \in Nat /\ MaxRestarts \in Nat

(* ApplyInventory refuses to start with an edge between undeclared assets    *)
(* or with no relation; the relations are those the package declares.       *)
ASSUME InventoryIsSound ==
  /\ DOMAIN Assets \subseteq Entities /\ \A a \in DOMAIN Assets : Assets[a] \in 0..3
  /\ AssetEdges \subseteq [from : DOMAIN Assets, to : DOMAIN Assets, rel : Range(Relations)]

(* The schema of an event; a finding is of one of the rules that loaded.    *)
ASSUME TelemetryIsSound == \A e \in Events :
  /\ LET ev == Telemetry[e]
     IN  /\ {ev.actor, ev.ip, ev.device, ev.session, ev.target, ev.cloud}
              \subseteq Entities \union {NoEntity}
         /\ ev.criticality \in 0..3 /\ {ev.privileged, ev.denied} \subseteq BOOLEAN
  /\ FindingOf[e] \in DOMAIN Rules \union {Nothing}

(* The rules of the pack, confidence in hundredths.                         *)
ASSUME RulesAreSound ==
  /\ IsFiniteSet(DOMAIN Rules) /\ Cardinality(DOMAIN Rules) <= Len(RepetitionSteps)
  /\ \A r \in DOMAIN Rules :
       Rules[r].severity \in DOMAIN SeverityWeight /\ Rules[r].confidence \in 0..100

VARIABLES
  crit,       \* criticality of the entities known, Nothing for the others
  edges,      \* [from, to, rel]
  evidence,   \* per edge: <<edge, event id>>
  incidents,  \* durable: per subject, the incident that is open for it
  stage, event,
  pc,         \* per worker: the upserts of its event already done
  copy,       \* per worker: the evidence of the incident it works on
  read,       \* per worker: the entities it has read, with their criticality
  blast,      \* per worker: the blast radius it estimated
  ingests, restarts

graph  == <<crit, edges, evidence>>
work   == <<stage, event, pc, copy, read, blast>>
counts == <<ingests, restarts>>
vars   == <<graph, incidents, work, counts>>

Low == 0
Medium == 1
High == 2
Critical == 3

Known == {n \in Entities : crit[n] # Nothing}

(* What incidents are about (subjectKey): events that name no actor share    *)
(* their source, of which there is one here.                                *)
Subjects == {Telemetry[e].actor : e \in Events}

-----------------------------------------------------------------------------
(* What an event says: Graph.Project, projector.go *)

(* Denied activity records an attempt, not access. *)
RelationFor(ev) ==
  CASE ev.category = "privilege_escalation" -> "granted_role_on"
    [] ev.category # "privilege_escalation" /\ ev.denied -> "attempted_access"
    [] OTHER -> "accessed"

(* A set of numbers in their order. *)
Ascending(S) ==
  [i \in 1..Cardinality(S) |-> CHOOSE x \in S : Cardinality({y \in S : y < x}) = i - 1]

Mention(n, c, rel) == [id |-> n, crit |-> c, rel |-> rel]

(* The places an event has for what it mentions besides its actor. *)
Places(ev) ==
  << Mention(ev.ip, Low, "authenticated_from"),
     Mention(ev.device, Medium, "used_device"),
     Mention(ev.session, Medium, "opened_session"),
     Mention(ev.target, ev.criticality, RelationFor(ev)),
     Mention(ev.cloud, Medium, RelationFor(ev)) >>

(* What it does mention, in the order it is projected. *)
Mentions(ev) ==
  LET all == Places(ev)
      at == Ascending({i \in DOMAIN all : all[i].id # NoEntity})
  IN  [j \in DOMAIN at |-> all[at[j]]]

ActorCriticality(ev) == IF ev.privileged THEN High ELSE Medium

(* EntityIDsForEvent: what a finding about the event names. *)
EntityIds(ev) ==
  ({ev.actor, ev.ip, ev.device, ev.target, ev.cloud}
     \union IF ev.actor # NoEntity THEN {ev.session} ELSE {}) \ {NoEntity}

(* The upserts of its projection: the actor first, then each mention and    *)
(* the edge to it - which UpsertEdge drops when there is no actor.          *)
Upserts(ev) ==
  LET m == Mentions(ev)
      entity(i) == [op |-> "entity", id |-> m[i].id, crit |-> m[i].crit]
      edge(i) == [op |-> "edge", from |-> ev.actor, to |-> m[i].id, rel |-> m[i].rel]
      actor == [op |-> "entity", id |-> ev.actor, crit |-> ActorCriticality(ev)]
  IN  IF ev.actor = NoEntity THEN [i \in DOMAIN m |-> entity(i)]
      ELSE [j \in 1..2 * Len(m) + 1 |->
              IF j = 1 THEN actor ELSE IF j % 2 = 0 THEN entity(j \div 2)
              ELSE edge(j \div 2)]

-----------------------------------------------------------------------------
(* Blast radius: Graph.EstimateBlastRadius *)

Between(m, n) == {e \in edges : {e.from, e.to} = {m, n}}

(* Edges are followed in both directions. *)
Peers(n) == {m \in Entities \ {n} : Between(m, n) # {}}

(* Of several edges to a peer the first in order is the one followed. *)
FirstRelation(E) ==
  Relations[CHOOSE i \in DOMAIN Relations :
    /\ \E e \in E : e.rel = Relations[i]
    /\ \A e \in E : \E j \in DOMAIN Relations : j >= i /\ e.rel = Relations[j]]

Stop(n, hops, via, from) == [id |-> n, hops |-> hops, via |-> via, from |-> from]

Ids(stops) == {stops[i].id : i \in DOMAIN stops}

(* Mutant: only what an entity points to is followed. *)
VisitOutgoing(w) ==
  LET cur  == Head(w.queue)
      next == IF cur.hops >= MaxHops THEN {}
              ELSE {m \in Peers(cur.id) : \E e \in edges : e.from = cur.id /\ e.to = m}
                     \ (Ids(w.queue) \union Ids(w.reached))
      order == Ascending(next)
  IN  [ queue   |-> Tail(w.queue) \o
          [i \in DOMAIN order |->
             Stop(order[i], cur.hops + 1, FirstRelation(Between(cur.id, order[i])), cur.id)],
        reached |-> Append(w.reached, cur) ]

(* One turn of the breadth-first loop: take the head of the queue, enqueue   *)
(* the peers not seen yet, in order of their ids.                           *)
Visit(w) ==
  LET cur  == Head(w.queue)
      next == IF cur.hops >= MaxHops THEN {}
              ELSE Peers(cur.id) \ (Ids(w.queue) \union Ids(w.reached))
      order == Ascending(next)
  IN  [ queue   |-> Tail(w.queue) \o
          [i \in DOMAIN order |->
             Stop(order[i], cur.hops + 1, FirstRelation(Between(cur.id, order[i])), cur.id)],
        reached |-> Append(w.reached, cur) ]

(* The walk from the seeds the graph knows, turn by turn: every turn takes  *)
(* an entity out, and none comes back.                                      *)
Walk(seeds) ==
  LET known == Ascending(seeds \intersect Known)
      turn[n \in 0..Cardinality(Entities)] ==
        IF n = 0
        THEN [ queue   |-> [i \in DOMAIN known |-> Stop(known[i], 0, NoRelation, NoEntity)],
               reached |-> <<>> ]
        ELSE LET so_far == turn[n - 1]
             IN  IF so_far.queue = <<>> THEN so_far ELSE Visit(so_far)
  IN  turn

Reachable(seeds) == Walk(seeds)[Cardinality(Entities)].reached

(* In sixths: an entity n hops away counts for 1/n of its weight. *)
Weight(stop) ==
  (6 * CriticalityWeight(crit[stop.id])) \div (IF stop.hops = 0 THEN 1 ELSE stop.hops)

BlastRadius(seeds) ==
  LET stops == Reachable(seeds)
  IN  [ score    |-> BlastScore(SumFunction([i \in DOMAIN stops |-> Weight(stops[i])])),
        critical |-> Cardinality({i \in DOMAIN stops : crit[stops[i].id] = Critical}),
        stops    |-> Ids(stops) ]

-----------------------------------------------------------------------------
(* State *)

NoEvidence == [rules |-> {}, events |-> {}, entities |-> {}]

Listing(f) == DOMAIN f \subseteq Entities /\ Range(f) \subseteq 0..3

TypeOK ==
  /\ crit \in [Entities -> 0..3 \union {Nothing}]
  /\ \A e \in edges : e.rel \in Range(Relations) /\ e.from # e.to
  /\ evidence \subseteq edges \X Events
  /\ \A e \in edges : Cardinality({x \in evidence : x[1] = e}) <= MaxEdgeEvidence
  /\ \A s \in Subjects : LET inc == incidents[s] IN inc # Nothing =>
       /\ inc.rules \subseteq DOMAIN Rules /\ inc.events \subseteq Events
       /\ Listing(inc.listed) /\ inc.touched \in BOOLEAN
       /\ inc.score \in 0..100 /\ inc.severity \in DOMAIN SeverityWeight
  /\ stage \in [Workers -> {"idle", "project", "read", "save"}]
  /\ event \in [Workers -> Events \union {Nothing}]
  /\ \A w \in Workers : event[w] # Nothing => pc[w] \in 0..Len(Upserts(Telemetry[event[w]]))
  /\ \A w \in Workers : Listing(read[w])
  /\ ingests \in 0..MaxIngests /\ restarts \in 0..MaxRestarts

(* A new graph into which the inventory was merged: ApplyInventory. *)
InventoryCrit == [n \in Entities |-> IF n \in DOMAIN Assets THEN Assets[n] ELSE Nothing]
InventoryEdges == {e \in AssetEdges : e.from # e.to}

Init ==
  /\ crit = InventoryCrit /\ edges = InventoryEdges /\ evidence = {}
  /\ stage = [w \in Workers |-> "idle"]
  /\ event = [w \in Workers |-> Nothing]
  /\ pc = [w \in Workers |-> 0]
  /\ copy = [w \in Workers |-> NoEvidence]
  /\ read = [w \in Workers |-> <<>>]
  /\ blast = [w \in Workers |-> Nothing]
  /\ incidents = [s \in Subjects |-> Nothing]
  /\ ingests = 0 /\ restarts = 0

-----------------------------------------------------------------------------
(* Ingest *)

Subject(w) == Telemetry[event[w]].actor

Goto(w, s) == stage' = [stage EXCEPT ![w] = s]

Finish(w) ==
  /\ Goto(w, "idle")
  /\ event' = [event EXCEPT ![w] = Nothing]
  /\ pc' = [pc EXCEPT ![w] = 0]
  /\ copy' = [copy EXCEPT ![w] = NoEvidence]
  /\ read' = [read EXCEPT ![w] = <<>>]
  /\ blast' = [blast EXCEPT ![w] = Nothing]

Ingest(w, e) ==
  /\ stage[w] = "idle" /\ ingests < MaxIngests
  /\ \A v \in Workers : stage[v] # "idle" => Subject(v) # Telemetry[e].actor
  /\ event' = [event EXCEPT ![w] = e]
  /\ Goto(w, "project")
  /\ ingests' = ingests + 1
  /\ UNCHANGED <<graph, incidents, pc, copy, read, blast, restarts>>

(* Mutant: the last observation decides the criticality. *)
UpsertEntityOverwrites(u) ==
  /\ crit' = [crit EXCEPT ![u.id] = u.crit]
  /\ UNCHANGED <<edges, evidence>>

(* A criticality already known is never lowered. *)
UpsertEntity(u) ==
  /\ crit' = [crit EXCEPT ![u.id] =
       IF crit[u.id] = Nothing \/ u.crit > crit[u.id] THEN u.crit ELSE crit[u.id]]
  /\ UNCHANGED <<edges, evidence>>

Edge(u) == [from |-> u.from, to |-> u.to, rel |-> u.rel]

(* Mutant: an edge keeps every event that evidences it. *)
UpsertEdgeUnbounded(u, e) ==
  /\ edges' = edges \union {f \in {Edge(u)} : f.from # f.to}
  /\ evidence' = evidence \union ({f \in {Edge(u)} : f.from # f.to} \X {e})
  /\ UNCHANGED crit

(* An edge from an entity to itself is dropped; one that has its share of   *)
(* evidence takes no more.                                                  *)
UpsertEdge(u, e) ==
  LET new == {f \in {Edge(u)} : f.from # f.to}
      open == {f \in new : Cardinality({x \in evidence : x[1] = f}) < MaxEdgeEvidence}
  IN  /\ edges' = edges \union new
      /\ evidence' = evidence \union (open \X {e})
      /\ UNCHANGED crit

(* Graph.Project: one upsert at a time, each under the graph's lock. *)
Project(w) ==
  /\ stage[w] = "project"
  /\ LET ups == Upserts(Telemetry[event[w]])
         u == ups[pc[w] + 1]
     IN  /\ pc[w] < Len(ups)
         /\ IF u.op = "entity" THEN UpsertEntity(u) ELSE UpsertEdge(u, event[w])
  /\ pc' = [pc EXCEPT ![w] = @ + 1]
  /\ UNCHANGED <<incidents, stage, event, copy, read, blast, counts>>

Projected(w) == stage[w] = "project" /\ pc[w] = Len(Upserts(Telemetry[event[w]]))

(* The event triggers no rule. *)
NoFinding(w) ==
  /\ Projected(w) /\ FindingOf[event[w]] = Nothing
  /\ Finish(w)
  /\ UNCHANGED <<graph, incidents, counts>>

(* Mutant: a rule that fires again adds its event, not what the event names. *)
MergeOncePerRule(have, e) ==
  [ rules    |-> have.rules \union {FindingOf[e]},
    events   |-> have.events \union {e},
    entities |-> IF FindingOf[e] \in have.rules THEN have.entities
                 ELSE have.entities \union EntityIds(Telemetry[e]) ]

(* mergeFinding, and the entities its findings name. *)
MergeFinding(have, e) ==
  [ rules    |-> have.rules \union {FindingOf[e]},
    events   |-> have.events \union {e},
    entities |-> have.entities \union EntityIds(Telemetry[e]) ]

(* mergeIntoIncident: the open incident is read and the finding merged. *)
MergeIntoIncident(w) ==
  /\ Projected(w) /\ FindingOf[event[w]] # Nothing
  /\ LET inc == incidents[Subject(w)]
         have == IF inc = Nothing THEN NoEvidence
                 ELSE [rules |-> inc.rules, events |-> inc.events, entities |-> inc.entities]
     IN  copy' = [copy EXCEPT ![w] = MergeFinding(have, event[w])]
  /\ Goto(w, "read")
  /\ UNCHANGED <<graph, incidents, event, pc, read, blast, counts>>

(* recompute reads the incident's entities one by one, in order; one the    *)
(* graph does not know is listed as medium.                                 *)
ReadEntity(w) ==
  /\ stage[w] = "read"
  /\ LET unread == copy[w].entities \ DOMAIN read[w]
     IN  /\ unread # {}
         /\ LET n == Min(unread) IN
              read' = [read EXCEPT ![w] =
                [m \in DOMAIN read[w] \union {n} |->
                   IF m # n THEN read[w][m] ELSE IF n \in Known THEN crit[n] ELSE Medium]]
  /\ UNCHANGED <<graph, incidents, stage, event, pc, copy, blast, counts>>

EstimateBlastRadius(w) ==
  /\ stage[w] = "read" /\ DOMAIN read[w] = copy[w].entities
  /\ blast' = [blast EXCEPT ![w] = BlastRadius(copy[w].entities)]
  /\ Goto(w, "save")
  /\ UNCHANGED <<graph, incidents, event, pc, copy, read, counts>>

(* The findings as the scorer sees them, one per rule. *)
Findings(rules) ==
  {[rule |-> r, category |-> Rules[r].category, severity |-> Rules[r].severity,
    confidence |-> Rules[r].confidence] : r \in rules}

TouchesCritical(w) ==
  blast[w].critical > 0 \/ \E n \in DOMAIN read[w] : read[w][n] = Critical

(* The rest of recompute, and SaveIncident. *)
SaveIncident(w) ==
  LET score == Assess(Findings(copy[w].rules), blast[w].score, TouchesCritical(w))
  IN  /\ stage[w] = "save"
      /\ incidents' = [incidents EXCEPT ![Subject(w)] =
           [ rules |-> copy[w].rules, events |-> copy[w].events,
             entities |-> copy[w].entities,
             listed |-> read[w], blast |-> blast[w], touched |-> TouchesCritical(w),
             score |-> score, severity |-> SeverityForScore(score) ]]
      /\ Finish(w)
      /\ UNCHANGED <<graph, counts>>

(* The graph is rebuilt from the inventory, and no incident is open.        *)
Restart ==
  /\ restarts < MaxRestarts /\ restarts' = restarts + 1
  /\ crit' = InventoryCrit /\ edges' = InventoryEdges /\ evidence' = {}
  /\ incidents' = [s \in Subjects |-> Nothing]
  /\ stage' = [w \in Workers |-> "idle"]
  /\ event' = [w \in Workers |-> Nothing]
  /\ pc' = [w \in Workers |-> 0]
  /\ copy' = [w \in Workers |-> NoEvidence]
  /\ read' = [w \in Workers |-> <<>>]
  /\ blast' = [w \in Workers |-> Nothing]
  /\ UNCHANGED ingests

Next ==
  \/ \E w \in Workers :
       \/ \E e \in Events : Ingest(w, e)
       \/ Project(w) \/ NoFinding(w) \/ MergeIntoIncident(w)
       \/ ReadEntity(w) \/ EstimateBlastRadius(w) \/ SaveIncident(w)
  \/ Restart

Spec == Init /\ [][Next]_vars

-----------------------------------------------------------------------------
(* Properties *)

(* What can be reached in so many steps along edges, whichever way they     *)
(* point.                                                                   *)
Ball(seeds) ==
  LET ball[n \in 0..MaxHops] ==
        IF n = 0 THEN seeds
        ELSE LET b == ball[n - 1] IN b \union UNION {Peers(m) : m \in b}
  IN  ball

Within(seeds, k) == Ball(seeds)[k]

(* The blast radius is the graph's: however requests interleave, every edge *)
(* joins entities the graph knows, and a walk from any entity, or any two,  *)
(* lists exactly what is within MaxHops, once, at its true distance, and    *)
(* with an edge that really leads there from one hop nearer - the picture   *)
(* EstimateBlastRadius promises not to invent.                              *)
WalkIsTheGraph ==
  /\ \A e \in edges : {e.from, e.to} \subseteq Known
  /\ \A a \in Known : \A b \in {n \in Known : n >= a} :
       LET stops == Reachable({a, b})
       IN  /\ Ids(stops) = Within({a, b}, MaxHops)
           /\ Cardinality(Ids(stops)) = Len(stops)
           /\ \A i \in DOMAIN stops :
                LET s == stops[i]
                IN  IF s.hops = 0 THEN s.id \in {a, b}
                    ELSE /\ s.id \notin Within({a, b}, s.hops - 1)
                         /\ s.from \in Within({a, b}, s.hops - 1)
                         /\ \E e \in Between(s.id, s.from) : e.rel = s.via

(* An open incident keeps up with its evidence: it lists everything its     *)
(* events name, all of it known to the graph and never rated above what the *)
(* graph says; a critical asset it lists is one its blast radius counts;    *)
(* and its blast radius reaches all that it lists, although both are read   *)
(* while other requests change the graph (Engine.recompute).                *)
IncidentKeepsUp ==
  \A s \in Subjects : LET inc == incidents[s] IN inc # Nothing =>
    /\ DOMAIN inc.listed = UNION {EntityIds(Telemetry[e]) : e \in inc.events}
    /\ DOMAIN inc.listed \subseteq Known /\ DOMAIN inc.listed \subseteq inc.blast.stops
    /\ \A n \in DOMAIN inc.listed : inc.listed[n] <= crit[n]
    /\ Cardinality({n \in DOMAIN inc.listed : inc.listed[n] = Critical})
         <= inc.blast.critical

(* More evidence never makes an incident less serious: while it stays open, *)
(* its score and its blast radius only rise, whatever other subjects'       *)
(* requests do to the graph meanwhile (Assess, UpsertEntity).               *)
ScoreNeverFalls ==
  [][\A s \in Subjects : incidents[s] # Nothing /\ incidents'[s] # Nothing =>
       /\ incidents'[s].score >= incidents[s].score
       /\ incidents'[s].blast.score >= incidents[s].blast.score]_vars
=============================================================================
