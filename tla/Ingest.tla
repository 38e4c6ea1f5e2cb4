------------------------------- MODULE Ingest -------------------------------
(***************************************************************************)
(* The ingest path: POST /api/v1/events and /events/batch                  *)
(* (internal/api/handlers.go), Service.Ingest (internal/api/service.go),   *)
(* the event table of either store, and the event bus.                     *)
(*                                                                         *)
(* A request carries raw items and takes them one after the other.  Each   *)
(* is decoded against the schema, normalized, stored, projected into the   *)
(* graph, published, correlated and told to the audit trail, in that order *)
(* and each in a step of its own: requests run concurrently, the store may *)
(* fail under any call, the bus may be down, an answer may be lost, and    *)
(* the producer may hang up - which cancels every later call made under    *)
(* its request - and post the same items again.                            *)
(*                                                                         *)
(* The correlator is seen from outside: it touches an incident, or none,   *)
(* or fails (module Correlation is its inside).  Time is counted in ticks. *)
(***************************************************************************)
EXTENDS Integers, Sequences, FiniteSets

CONSTANTS
  Deployments,     \* pairs of a store and a publisher the process may have
  Producers,       \* clients, each with one request at a time
  Items,           \* raw events a producer may send
  IdOf,            \* the id an item carries, or NoId
  WellFormed,      \* the items that conform to the event schema
  TimeOf,          \* an item's own timestamp
  Matching,        \* the items that match a detection rule
  Reserved,        \* the items with labels that name control-plane concepts
  RequestsOf,      \* what each producer may post: [batch, items]
  FirstFresh,      \* ids the API assigns start here
  MaxEvents,       \* events the in-memory store retains
  MaxBatch,        \* items a batch may hold
  MaxAge,          \* how old an event may be
  MaxSkew,         \* how far in the future it may be
  DedupWindow,     \* how long JetStream remembers a message id
  MaxPosts,        \* bound: requests in a behaviour
  MaxFailures,     \* bound: failed calls, hang-ups and bus outages
  MaxTime          \* bound: the clock

NoId == 0          \* an item without an id: the API assigns one

ASSUME DeploymentsAreKnown ==
  Deployments \subseteq {"memory", "postgres"} \X {"nats", "disabled"}

ASSUME ItemsAreRaw ==
  /\ IdOf \in [Items -> Nat]
  /\ TimeOf \in [Items -> Nat]
  /\ WellFormed \subseteq Items /\ Matching \subseteq Items /\ Reserved \subseteq Items
  /\ FirstFresh \in Nat /\ \A i \in Items : IdOf[i] < FirstFresh
  /\ \A p \in Producers : \A r \in RequestsOf[p] :
       r.items \in Seq(Items) /\ r.batch \in BOOLEAN

ASSUME IngestBounds ==
  /\ MaxEvents \in Nat \ {0} /\ MaxBatch \in Nat \ {0}
  /\ MaxAge \in Nat /\ MaxSkew \in Nat /\ DedupWindow \in Nat
  /\ MaxPosts \in Nat /\ MaxFailures \in Nat /\ MaxTime \in Nat

VARIABLES
  store,      \* which store the process was started with
  transport,  \* which publisher it got
  now,
  events,     \* the event table, oldest first
  eventIDs,   \* the ids it refuses to take again
  stream,     \* what JetStream holds: message id and time of arrival
  busUp,
  projected,  \* the events the graph was built from
  incidents,  \* the events an incident was updated from
  trail,      \* the audit entries
  fresh,      \* the next id the API assigns
  stage, request, done, event, degraded, gone,  \* per producer
  mark,       \* history, per producer: arrivals when its event was saved
  answer,     \* what each producer was last told
  arrivals,   \* history: every id the table took, in order
  accepted,   \* history: the results that said "accepted"
  posts, failures

service == <<store, transport>>
files   == <<events, eventIDs, arrivals>>
bus     == <<stream, busUp>>
views   == <<projected, incidents>>
hands   == <<stage, request, done, event, mark, degraded, gone, answer>>
counts  == <<posts, failures>>
vars    == <<service, now, files, bus, views, trail, fresh, hands, accepted,
             counts>>

Filed    == {events[i] : i \in DOMAIN events}
Arrived  == {arrivals[i] : i \in DOMAIN arrivals}
Streamed == {stream[i].id : i \in DOMAIN stream}

Entry(action, ev) == [action |-> action, id |-> ev]

Actions == {"event.rejected", "event.label_quarantined", "correlation.failed",
            "incident.updated", "event.ingested"}

Subsystems == {"event_bus", "correlation"}

Results == [status : {"accepted"}, id : Nat, degraded : SUBSET Subsystems,
            mark : Nat]
             \union [status : {"rejected"}, code : {"VALIDATION_FAILED", "INTERNAL"}]

Stages == {"idle", "decode", "save", "project", "publish", "correlate",
          "trail", "answer"}

TypeOK ==
  /\ <<store, transport>> \in Deployments
  /\ now \in 0..MaxTime
  /\ events \in Seq(Nat) /\ eventIDs \subseteq Nat
  /\ store = "memory" => Len(events) <= MaxEvents
  /\ stream \in Seq([id : Nat, at : 0..MaxTime]) /\ busUp \in BOOLEAN
  /\ projected \subseteq Nat /\ incidents \subseteq Nat
  /\ trail \subseteq [action : Actions, id : Nat]
  /\ fresh \in Nat
  /\ stage \in [Producers -> Stages]
  /\ \A p \in Producers : stage[p] # "idle" => request[p] \in RequestsOf[p]
  /\ done \in [Producers -> Seq(Results)]
  /\ event \in [Producers -> Nat]
  /\ mark \in [Producers -> Nat]
  /\ degraded \in [Producers -> SUBSET Subsystems]
  /\ gone \in [Producers -> BOOLEAN]
  /\ answer \in [Producers -> {0, 202, 207, 400, 413, 500}]
  /\ arrivals \in Seq(Nat)
  /\ accepted \subseteq Results
  /\ posts \in 0..MaxPosts /\ failures \in 0..MaxFailures

Init ==
  /\ \E d \in Deployments : store = d[1] /\ transport = d[2]
  /\ now = 0
  /\ events = <<>> /\ eventIDs = {} /\ arrivals = <<>>
  /\ stream = <<>> /\ busUp = TRUE
  /\ projected = {} /\ incidents = {} /\ trail = {}
  /\ fresh = FirstFresh
  /\ stage = [p \in Producers |-> "idle"]
  /\ request = [p \in Producers |-> <<>>]
  /\ done = [p \in Producers |-> <<>>]
  /\ event = [p \in Producers |-> NoId]
  /\ mark = [p \in Producers |-> 0]
  /\ degraded = [p \in Producers |-> {}]
  /\ gone = [p \in Producers |-> FALSE]
  /\ answer = [p \in Producers |-> 0]
  /\ accepted = {}
  /\ posts = 0 /\ failures = 0

-----------------------------------------------------------------------------
(* Calls that can fail *)

Fault == failures < MaxFailures /\ failures' = failures + 1

(* A request whose producer hung up has a cancelled context: PostgreSQL     *)
(* refuses every call made under it.  The in-memory store never looks.      *)
StoreWorks(p) == (store = "memory" \/ ~gone[p]) /\ UNCHANGED failures

StoreFails(p) ==
  /\ store = "postgres"
  /\ \/ gone[p] /\ UNCHANGED failures
     \/ ~gone[p] /\ Fault

(* recordAudit: a failed write is logged and otherwise ignored. *)
RecordAudit(p, entry) ==
  \/ StoreWorks(p) /\ trail' = trail \union {entry}
  \/ StoreFails(p) /\ UNCHANGED trail

-----------------------------------------------------------------------------
(* Requests *)

Post(p, r) ==
  /\ stage[p] = "idle"
  /\ posts < MaxPosts
  /\ posts' = posts + 1
  /\ IF r.items = <<>> \/ Len(r.items) > MaxBatch
     THEN /\ answer' = [answer EXCEPT ![p] = IF r.items = <<>> THEN 400 ELSE 413]
          /\ UNCHANGED <<stage, request>>
     ELSE /\ stage' = [stage EXCEPT ![p] = "decode"]
          /\ request' = [request EXCEPT ![p] = r]
          /\ answer' = [answer EXCEPT ![p] = 0]
  /\ UNCHANGED <<service, now, files, bus, views, trail, fresh, done, event, mark,
                 degraded, gone, accepted, failures>>

(* The producer gives up, or its connection breaks: it learns nothing, and  *)
(* the handler goes on under a cancelled context.                           *)
HangUp(p) ==
  /\ stage[p] # "idle" /\ ~gone[p]
  /\ Fault
  /\ gone' = [gone EXCEPT ![p] = TRUE]
  /\ UNCHANGED <<service, now, files, bus, views, trail, fresh, stage, request,
                 done, event, mark, degraded, answer, accepted, posts>>

Item(p) == request[p].items[Len(done[p]) + 1]

(* One item is done with: on to the next, or to the answer. *)
Settle(p, result) ==
  /\ done' = [done EXCEPT ![p] = Append(@, result)]
  /\ stage' = [stage EXCEPT ![p] =
       IF Len(done[p]) + 1 < Len(request[p].items) THEN "decode" ELSE "answer"]
  /\ event' = [event EXCEPT ![p] = NoId]
  /\ mark' = [mark EXCEPT ![p] = 0]
  /\ degraded' = [degraded EXCEPT ![p] = {}]
  /\ accepted' = IF result.status = "accepted" THEN accepted \union {result}
                 ELSE accepted

(* A batch hides neither its rejects nor its accepts. *)
Code(r, results) ==
  LET rejected == {i \in DOMAIN results : results[i].status = "rejected"}
  IN  CASE rejected = {}                      -> 202
        [] rejected # DOMAIN results          -> 207
        [] ~r.batch /\ results[1].code = "INTERNAL" -> 500
        [] OTHER                              -> 400

Answer(p) ==
  /\ stage[p] = "answer"
  /\ stage' = [stage EXCEPT ![p] = "idle"]
  /\ answer' = [answer EXCEPT ![p] =
                  IF gone[p] THEN 0 ELSE Code(request[p], done[p])]
  /\ request' = [request EXCEPT ![p] = <<>>]
  /\ done' = [done EXCEPT ![p] = <<>>]
  /\ gone' = [gone EXCEPT ![p] = FALSE]
  /\ UNCHANGED <<service, now, files, bus, views, trail, fresh, event, mark, degraded,
                 accepted, counts>>

-----------------------------------------------------------------------------
(* Service.Ingest, one item *)

(* Normalize: an event must be about now. *)
InTime(i) == TimeOf[i] <= now + MaxSkew /\ TimeOf[i] >= now - MaxAge

(* Validator.Decode and Normalize.  An item that carries no id gets one;    *)
(* one that is refused leaves an entry, under whatever id is known by then. *)
Decode(p) ==
  /\ stage[p] = "decode"
  /\ LET i == Item(p)
     IN  \/ /\ i \in WellFormed /\ InTime(i)
            /\ event' = [event EXCEPT ![p] = IF IdOf[i] = NoId THEN fresh ELSE IdOf[i]]
            /\ fresh' = IF IdOf[i] = NoId THEN fresh + 1 ELSE fresh
            /\ stage' = [stage EXCEPT ![p] = "save"]
            /\ UNCHANGED <<trail, done, mark, degraded, accepted, failures>>
         \/ /\ ~(i \in WellFormed /\ InTime(i))
            /\ RecordAudit(p, Entry("event.rejected",
                                    IF i \in WellFormed THEN IdOf[i] ELSE NoId))
            /\ Settle(p, [status |-> "rejected", code |-> "VALIDATION_FAILED"])
            /\ UNCHANGED fresh
  /\ UNCHANGED <<service, now, files, bus, views, request, gone, answer, posts>>

(* Mutants: the id of an evicted event is never forgotten; nothing is ever  *)
(* evicted.                                                                 *)
FileKeepsIds(ev) ==
  IF ev \in eventIDs THEN UNCHANGED files
  ELSE LET all == Append(events, ev) IN
       /\ events' = IF store = "memory" /\ Len(all) > MaxEvents THEN Tail(all) ELSE all
       /\ eventIDs' = eventIDs \union {ev}
       /\ arrivals' = Append(arrivals, ev)
FileForEver(ev) ==
  IF ev \in eventIDs THEN UNCHANGED files
  ELSE /\ events' = Append(events, ev)
       /\ eventIDs' = eventIDs \union {ev}
       /\ arrivals' = Append(arrivals, ev)

(* SaveEvent: a known id is no event; the in-memory store drops the oldest  *)
(* beyond its bound, ids included.                                          *)
File(ev) ==
  IF ev \in eventIDs THEN UNCHANGED files
  ELSE LET all  == Append(events, ev)
           full == store = "memory" /\ Len(all) > MaxEvents
       IN  /\ events' = IF full THEN Tail(all) ELSE all
           /\ eventIDs' = (eventIDs \union {ev}) \ (IF full THEN {Head(all)} ELSE {})
           /\ arrivals' = Append(arrivals, ev)

Saved(p) ==
  /\ stage' = [stage EXCEPT ![p] = "project"]
  /\ mark' = [mark EXCEPT ![p] = Len(arrivals')]
  /\ UNCHANGED <<done, event, degraded, accepted>>

(* Mutant: a storage error is logged and the event handled all the same. *)
SaveGoesOn(p) ==
  /\ stage[p] = "save"
  /\ \/ StoreWorks(p) /\ File(event[p]) /\ Saved(p)
     \/ StoreFails(p) /\ UNCHANGED files /\ Saved(p)
  /\ UNCHANGED <<service, now, bus, views, trail, fresh, request, gone, answer,
                 posts>>

(* A failed save rejects the item, without an entry; the row may be there   *)
(* for all that, when only the answer was lost.                             *)
Save(p) ==
  /\ stage[p] = "save"
  /\ \/ StoreWorks(p) /\ File(event[p]) /\ Saved(p)
     \/ /\ StoreFails(p)
        /\ UNCHANGED files \/ File(event[p])
        /\ Settle(p, [status |-> "rejected", code |-> "INTERNAL"])
  /\ UNCHANGED <<service, now, bus, views, trail, fresh, request, gone, answer,
                 posts>>

(* Labels that were taken away are told to the trail; then the graph, which *)
(* is part of the recording path, takes the event in.                       *)
Project(p) ==
  /\ stage[p] = "project"
  /\ \/ /\ Item(p) \in Reserved
        /\ RecordAudit(p, Entry("event.label_quarantined", event[p]))
     \/ Item(p) \notin Reserved /\ UNCHANGED <<trail, failures>>
  /\ projected' = projected \union {event[p]}
  /\ stage' = [stage EXCEPT ![p] = "publish"]
  /\ UNCHANGED <<service, now, files, bus, incidents, fresh, request, done, event, mark,
                 degraded, gone, answer, accepted, posts>>

(* Mutant: messages carry no id, so JetStream cannot tell a retry. *)
DeliverWithoutId(ev) ==
  stream' = Append(stream, [id |-> ev, at |-> now])

(* JetStream: a message whose id it remembers is acknowledged, not kept. *)
Deliver(ev) ==
  IF \E i \in DOMAIN stream : stream[i].id = ev /\ now - stream[i].at < DedupWindow
  THEN UNCHANGED stream
  ELSE stream' = Append(stream, [id |-> ev, at |-> now])

Published(p) ==
  \/ transport = "disabled" /\ UNCHANGED <<stream, degraded, failures>>
  \/ /\ transport = "nats" /\ busUp /\ ~gone[p]
     /\ Deliver(event[p])
     /\ UNCHANGED <<degraded, failures>>

(* The publish ends in an error: the bus is away, the request cancelled, or *)
(* - whether or not the message was kept - no acknowledgement came in time. *)
PublishFails(p) ==
  /\ transport = "nats"
  /\ \/ (gone[p] \/ ~busUp) /\ UNCHANGED <<stream, failures>>
     \/ busUp /\ gone[p] /\ Deliver(event[p]) /\ UNCHANGED failures
     \/ busUp /\ ~gone[p] /\ Fault /\ Deliver(event[p])
  /\ degraded' = [degraded EXCEPT ![p] = @ \union {"event_bus"}]

(* Mutant: a publish waits for as long as the bus is away. *)
PublishWaits(p) ==
  /\ stage[p] = "publish"
  /\ Published(p)
  /\ stage' = [stage EXCEPT ![p] = "correlate"]
  /\ UNCHANGED <<service, now, files, busUp, views, trail, fresh, request, done,
                 event, mark, gone, answer, accepted, posts>>

Publish(p) ==
  /\ stage[p] = "publish"
  /\ Published(p) \/ PublishFails(p)
  /\ stage' = [stage EXCEPT ![p] = "correlate"]
  /\ UNCHANGED <<service, now, files, busUp, views, trail, fresh, request, done,
                 event, mark, gone, answer, accepted, posts>>

(* Mutant: an event that could not be correlated is answered at once. *)
CorrelateReturnsEarly(p) ==
  /\ stage[p] = "correlate"
  /\ \/ /\ UNCHANGED <<incidents, trail, degraded, failures>>
        /\ stage' = [stage EXCEPT ![p] = "trail"]
        /\ UNCHANGED <<done, event, mark, accepted>>
     \/ /\ RecordAudit(p, Entry("correlation.failed", event[p]))
        /\ Settle(p, [status |-> "accepted", id |-> event[p],
                      degraded |-> degraded[p] \union {"correlation"},
                      mark |-> mark[p]])
        /\ UNCHANGED incidents
  /\ UNCHANGED <<service, now, files, bus, projected, fresh, request, gone, answer,
                 posts>>

(* The incident is on file, but the answer to SaveIncident was lost: for    *)
(* the service, a correlation that failed.                                  *)
IncidentLost(p) ==
  /\ Item(p) \in Matching
  /\ StoreFails(p)
  /\ incidents' = incidents \union {event[p]}
  /\ trail' = IF gone[p] THEN trail
              ELSE trail \union {Entry("correlation.failed", event[p])}

(* Service.correlate: nothing found, which an item that matches may be too, *)
(* below a threshold; an incident touched; or an error or a panic of a      *)
(* rule, which is contained.                                                *)
Correlate(p) ==
  /\ stage[p] = "correlate"
  /\ \/ UNCHANGED <<incidents, trail, degraded, failures>>
     \/ /\ Item(p) \in Matching
        /\ store = "memory" \/ ~gone[p]
        /\ incidents' = incidents \union {event[p]}
        /\ RecordAudit(p, Entry("incident.updated", event[p]))
        /\ UNCHANGED degraded
     \/ /\ \/ /\ RecordAudit(p, Entry("correlation.failed", event[p]))
              /\ UNCHANGED incidents
           \/ IncidentLost(p)
        /\ degraded' = [degraded EXCEPT ![p] = @ \union {"correlation"}]
  /\ stage' = [stage EXCEPT ![p] = "trail"]
  /\ UNCHANGED <<service, now, files, bus, projected, fresh, request, done, event, mark,
                 gone, answer, accepted, posts>>

Ingested(p) ==
  /\ stage[p] = "trail"
  /\ RecordAudit(p, Entry("event.ingested", event[p]))
  /\ Settle(p, [status |-> "accepted", id |-> event[p], degraded |-> degraded[p],
                mark |-> mark[p]])
  /\ UNCHANGED <<service, now, files, bus, views, fresh, request, gone, answer,
                 posts>>

-----------------------------------------------------------------------------
(* The world *)

Tick ==
  /\ now < MaxTime
  /\ now' = now + 1
  /\ UNCHANGED <<service, files, bus, views, trail, fresh, hands, accepted, counts>>

BusFails ==
  /\ transport = "nats" /\ busUp
  /\ Fault
  /\ busUp' = FALSE
  /\ UNCHANGED <<service, now, files, stream, views, trail, fresh, hands, accepted,
                 posts>>

BusReturns ==
  /\ ~busUp
  /\ busUp' = TRUE
  /\ UNCHANGED <<service, now, files, stream, views, trail, fresh, hands, accepted,
                 counts>>

Handle(p) ==
  \/ Decode(p) \/ Save(p) \/ Project(p) \/ Publish(p)
  \/ Correlate(p) \/ Ingested(p) \/ Answer(p)

Next ==
  \/ \E p \in Producers : Handle(p) \/ HangUp(p) \/ \E r \in RequestsOf[p] : Post(p, r)
  \/ Tick \/ BusFails \/ BusReturns

(* Every call a handler makes returns: the store's by its context, the      *)
(* publish by publishTimeout.  Neither the clock nor the bus is promised.   *)
Fairness == \A p \in Producers : WF_vars(Handle(p))

Spec == Init /\ [][Next]_vars /\ Fairness

-----------------------------------------------------------------------------
(* Properties *)

(* "An event is durably stored BEFORE anything tries to reason about it"    *)
(* (Service.Ingest): whatever the graph, the bus, an incident or an entry   *)
(* of the trail other than a rejection is about went through the store.     *)
RecordedFirst ==
  /\ projected \union Streamed \union incidents \subseteq Arrived
  /\ \A e \in trail : e.action # "event.rejected" => e.id \in Arrived
  /\ \A a \in accepted : a.id \in Arrived

LastArrival(ev) ==
  CHOOSE i \in DOMAIN arrivals :
    arrivals[i] = ev /\ \A j \in DOMAIN arrivals : arrivals[j] = ev => j <= i

(* "An event GRIEFER cannot durably store must not be acknowledged"         *)
(* (docs/ARCHITECTURE.md), and what it acknowledges it has: an accepted     *)
(* event is on file until, in memory, an event saved after it pushes it     *)
(* out, and one not reported degraded for the bus is on the bus.            *)
AnswersAreTrue ==
  \A a \in accepted :
    /\ a.id \notin Filed => /\ store = "memory"
                            /\ Len(arrivals) > a.mark
                            /\ Len(arrivals) - LastArrival(a.id) >= MaxEvents
    /\ transport = "nats" /\ "event_bus" \notin a.degraded => a.id \in Streamed

(* "A retry storm must not become a duplicate storm" (SaveEvent, Publish):  *)
(* an id is never on file twice, PostgreSQL takes it once and for all, the  *)
(* in-memory store again only after MaxEvents others, and JetStream holds   *)
(* it twice only when its copies came a deduplication window apart.         *)
RetriesAreAbsorbed ==
  /\ eventIDs = Filed /\ Cardinality(Filed) = Len(events)
  /\ \A i, j \in DOMAIN arrivals : i < j /\ arrivals[i] = arrivals[j] =>
       store = "memory" /\ j - i > MaxEvents
  /\ \A i, j \in DOMAIN stream : i < j /\ stream[i].id = stream[j].id =>
       stream[j].at - stream[i].at >= DedupWindow

InHand(ev) == \E p \in Producers : event[p] = ev

(* An id may come again with other content, which is handled but not stored *)
(* again (SaveEvent): what an event on file carried is known only when all  *)
(* the items with its id carry it.                                          *)
OnlyReserved(ev) ==
  LET carriers == {i \in Items : IdOf[i] = ev}
  IN  carriers # {} /\ carriers \subseteq Reserved

(* While no call fails and nobody hangs up, the trail accounts for every    *)
(* event on file that is not still in hand, for every incident updated, and *)
(* for every label taken away - whatever correlation did.                   *)
TrailTellsAll ==
  failures = 0 =>
    /\ \A ev \in Arrived : ~InHand(ev) => Entry("event.ingested", ev) \in trail
    /\ \A ev \in incidents : Entry("incident.updated", ev) \in trail
    /\ \A ev \in Arrived : ~InHand(ev) /\ OnlyReserved(ev) =>
         Entry("event.label_quarantined", ev) \in trail

(* "A stalled bus cannot hold an ingest request open" (publishTimeout): a   *)
(* request that was taken comes to its end, bus or no bus, client or none.  *)
EveryPostEnds == \A p \in Producers : stage[p] # "idle" ~> stage[p] = "idle"
=============================================================================
