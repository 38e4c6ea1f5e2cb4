----------------------------- MODULE IngestProofs -----------------------------
(***************************************************************************)
(* Proofs about Ingest: that events are on file before anything is said of *)
(* them, that retries are absorbed, and that what is answered is true.     *)
(* TypeInv says besides TypeOK that a request in hand has items left,      *)
(* FileInv how the event table relates to the arrivals, SayInv what a      *)
(* request in hand knows of the event it is at, and TellInv which event    *)
(* without an entry is still whose to tell.                                *)
(***************************************************************************)
EXTENDS Ingest, FiniteSetTheorems, SequenceTheorems, WellFoundedInduction, TLAPS

AtItem == {"decode", "save", "project", "publish", "correlate", "trail"}

Started == /\ <<store, transport>> \in Deployments
           /\ store \in {"memory", "postgres"} /\ transport \in {"nats", "disabled"}

FilesTyped == events \in Seq(Nat) /\ eventIDs \subseteq Nat /\ arrivals \in Seq(Nat)

Saying == [status : {"accepted"}, id : Nat, degraded : SUBSET Subsystems, mark : Nat]

HandsTyped ==
  /\ stage \in [Producers -> Stages]
  /\ request = [p \in Producers |-> request[p]]
  /\ \A p \in Producers : stage[p] # "idle" => request[p] \in RequestsOf[p]
  /\ \A p \in Producers : stage[p] = "idle" => done[p] = <<>>
  /\ \A p \in Producers : stage[p] \in AtItem => Len(done[p]) < Len(request[p].items)
  /\ done \in [Producers -> Seq(Results)]
  /\ event \in [Producers -> Nat]
  /\ mark \in [Producers -> Nat]
  /\ degraded \in [Producers -> SUBSET Subsystems]
  /\ gone \in [Producers -> BOOLEAN]
  /\ answer \in [Producers -> {0, 202, 207, 400, 413, 500}]

WorldTyped ==
  /\ now \in 0..MaxTime
  /\ stream \in Seq([id : Nat, at : 0..MaxTime]) /\ busUp \in BOOLEAN
  /\ projected \subseteq Nat /\ incidents \subseteq Nat
  /\ trail \subseteq [action : Actions, id : Nat]
  /\ fresh \in Nat
  /\ accepted \subseteq Saying
  /\ posts \in 0..MaxPosts /\ failures \in 0..MaxFailures

TypeInv == Started /\ FilesTyped /\ HandsTyped /\ WorldTyped

-----------------------------------------------------------------------------
(* Types                                                                   *)

LEMMA TypeInit == Init => TypeInv
<1> SUFFICES ASSUME Init PROVE TypeInv
  OBVIOUS
<1>1. Started
  BY DeploymentsAreKnown DEF Init, Started
<1>2. FilesTyped
  BY EmptySeq DEF Init, FilesTyped
<1>3. HandsTyped
  <2>1. <<>> \in Seq(Results)
    BY EmptySeq
  <2> QED BY <2>1 DEF Init, HandsTyped, Stages, AtItem, NoId, Subsystems
<1>4. WorldTyped
  <2>1. <<>> \in Seq([id : Nat, at : 0..MaxTime])
    BY EmptySeq
  <2> QED BY <2>1, ItemsAreRaw, IngestBounds DEF Init, WorldTyped
<1> QED BY <1>1, <1>2, <1>3, <1>4 DEF TypeInv

(* The item a request is at is one of its own.                             *)
LEMMA ItemIsItem ==
  ASSUME TypeInv, NEW p \in Producers, stage[p] \in AtItem
  PROVE  /\ Item(p) \in Items /\ IdOf[Item(p)] \in Nat
         /\ request[p].items \in Seq(Items) /\ Len(request[p].items) \in Nat
         /\ Len(done[p]) \in Nat /\ Len(done[p]) < Len(request[p].items)
<1>1. request[p].items \in Seq(Items) /\ Len(done[p]) < Len(request[p].items)
  BY ItemsAreRaw DEF TypeInv, HandsTyped, AtItem
<1>2. Len(done[p]) \in Nat /\ Len(request[p].items) \in Nat
  BY <1>1, LenProperties DEF TypeInv, HandsTyped
<1>3. Len(done[p]) + 1 \in 1..Len(request[p].items)
  BY <1>1, <1>2
<1>4. Item(p) \in Items
  BY <1>1, <1>3, ElementOfSeq DEF Item
<1> QED BY <1>1, <1>2, <1>4, ItemsAreRaw

LEMMA AuditTyped ==
  ASSUME TypeInv, NEW p \in Producers, NEW action \in Actions, NEW ev \in Nat,
         RecordAudit(p, Entry(action, ev))
  PROVE  /\ trail' \subseteq [action : Actions, id : Nat] /\ failures' \in 0..MaxFailures
         /\ trail' \subseteq trail \union {Entry(action, ev)}
         /\ trail \subseteq trail'
<1>1. failures' \in 0..MaxFailures
  BY IngestBounds DEF RecordAudit, StoreWorks, StoreFails, Fault, TypeInv, WorldTyped
<1>2. trail' = trail \/ trail' = trail \union {Entry(action, ev)}
  BY DEF RecordAudit
<1> QED BY <1>1, <1>2 DEF Entry, TypeInv, WorldTyped

LEMMA SettleTyped ==
  ASSUME TypeInv, NEW p \in Producers, NEW result \in Results, stage[p] \in AtItem,
         Settle(p, result), UNCHANGED <<request, gone, answer>>
  PROVE  HandsTyped' /\ accepted' \subseteq Saying
<1>1. /\ Len(request[p].items) \in Nat /\ Len(done[p]) \in Nat
      /\ Len(done[p]) < Len(request[p].items)
  BY ItemIsItem
<1>2. /\ done' = [done EXCEPT ![p] = Append(done[p], result)]
      /\ stage' = [stage EXCEPT ![p] =
           IF Len(done[p]) + 1 < Len(request[p].items) THEN "decode" ELSE "answer"]
      /\ event' = [event EXCEPT ![p] = 0] /\ mark' = [mark EXCEPT ![p] = 0]
      /\ degraded' = [degraded EXCEPT ![p] = {}]
  BY DEF Settle, NoId
<1>0. accepted' = IF result.status = "accepted" THEN accepted \union {result} ELSE accepted
  BY DEF Settle
<1>3. Append(done[p], result) \in Seq(Results) /\ Len(Append(done[p], result)) = Len(done[p]) + 1
  BY AppendProperties DEF TypeInv, HandsTyped
<1>4. accepted' \subseteq Saying
  <2>1. CASE result \in Saying
    BY <1>0, <2>1 DEF TypeInv, WorldTyped
  <2>2. CASE result \in [status : {"rejected"}, code : {"VALIDATION_FAILED", "INTERNAL"}]
    <3>1. result.status = "rejected"
      BY <2>2
    <3> QED BY <1>0, <3>1 DEF TypeInv, WorldTyped
  <2> QED BY <2>1, <2>2 DEF Results, Saying
<1>5. done' \in [Producers -> Seq(Results)]
  BY <1>2, <1>3 DEF TypeInv, HandsTyped
<1>6. stage' \in [Producers -> Stages]
  BY <1>2 DEF TypeInv, HandsTyped, Stages
<1>7. /\ event' \in [Producers -> Nat] /\ mark' \in [Producers -> Nat]
      /\ degraded' \in [Producers -> SUBSET Subsystems]
  BY <1>2 DEF TypeInv, HandsTyped
<1>8. \A q \in Producers : stage'[q] # "idle" => request'[q] \in RequestsOf[q]
  BY <1>2 DEF TypeInv, HandsTyped, AtItem
<1>9. \A q \in Producers : stage'[q] \in AtItem => Len(done'[q]) < Len(request'[q].items)
  <2> SUFFICES ASSUME NEW q \in Producers, stage'[q] \in AtItem
               PROVE  Len(done'[q]) < Len(request[q].items)
    OBVIOUS
  <2>1. CASE q = p
    BY <1>1, <1>2, <1>3, <2>1 DEF TypeInv, HandsTyped, AtItem
  <2>2. CASE q # p
    BY <1>2, <2>2 DEF TypeInv, HandsTyped
  <2> QED BY <2>1, <2>2
<1>10. \A q \in Producers : stage'[q] = "idle" => done'[q] = <<>>
  BY <1>2 DEF TypeInv, HandsTyped, AtItem
<1> QED BY <1>4, <1>5, <1>6, <1>7, <1>8, <1>9, <1>10 DEF TypeInv, HandsTyped

(* A worker moves on within its item.                                      *)
LEMMA MoveTyped ==
  ASSUME TypeInv, NEW p \in Producers, NEW next \in AtItem, stage[p] \in AtItem,
         stage' = [stage EXCEPT ![p] = next],
         event' \in [Producers -> Nat], mark' \in [Producers -> Nat],
         degraded' \in [Producers -> SUBSET Subsystems],
         UNCHANGED <<request, done, gone, answer>>
  PROVE  HandsTyped'
<1>1. stage' \in [Producers -> Stages]
  BY DEF TypeInv, HandsTyped, Stages, AtItem
<1>2. \A q \in Producers : stage'[q] # "idle" => stage[q] # "idle"
  BY DEF TypeInv, HandsTyped, AtItem
<1>3. \A q \in Producers : stage'[q] \in AtItem => stage[q] \in AtItem
  BY DEF TypeInv, HandsTyped, AtItem
<1>4. \A q \in Producers : stage'[q] = "idle" => stage[q] = "idle"
  BY DEF TypeInv, HandsTyped, AtItem
<1> QED BY <1>1, <1>2, <1>3, <1>4 DEF TypeInv, HandsTyped

LEMMA FileTyped ==
  ASSUME TypeInv, NEW ev \in Nat, File(ev)
  PROVE  FilesTyped'
<1>1. CASE UNCHANGED files
  BY <1>1 DEF files, TypeInv, FilesTyped
<1>2. CASE ev \notin eventIDs
  <2> DEFINE all == Append(events, ev)
  <2>1. /\ all \in Seq(Nat) /\ all # <<>>
        /\ Append(arrivals, ev) \in Seq(Nat)
    <3>1. events \in Seq(Nat) /\ arrivals \in Seq(Nat)
      BY DEF TypeInv, FilesTyped
    <3>2. all \in Seq(Nat) /\ all # <<>>
      <4>1. PICK was \in Seq(Nat) : was = events
        BY <3>1
      <4>2. Append(was, ev) \in Seq(Nat) /\ Append(was, ev) # <<>>
        BY AppendProperties
      <4> QED BY <4>1, <4>2
    <3>3. Append(arrivals, ev) \in Seq(Nat)
      BY <3>1, AppendProperties
    <3> QED BY <3>2, <3>3
  <2>2. Tail(all) \in Seq(Nat) /\ Head(all) \in Nat
    BY <2>1, HeadTailProperties
  <2>3. /\ events' = all \/ events' = Tail(all)
        /\ eventIDs' \subseteq eventIDs \union {ev}
        /\ arrivals' = Append(arrivals, ev)
    BY <1>2 DEF File
  <2> QED BY <2>1, <2>2, <2>3 DEF TypeInv, FilesTyped
<1> QED BY <1>1, <1>2 DEF File

LEMMA DeliverTyped ==
  ASSUME TypeInv, NEW ev \in Nat, Deliver(ev) \/ UNCHANGED stream
  PROVE  /\ stream' \in Seq([id : Nat, at : 0..MaxTime])
         /\ \/ stream' = stream
            \/ /\ stream' = Append(stream, [id |-> ev, at |-> now])
               /\ \A i \in DOMAIN stream : stream[i].id = ev => now - stream[i].at >= DedupWindow
<1>1. Append(stream, [id |-> ev, at |-> now]) \in Seq([id : Nat, at : 0..MaxTime])
  BY AppendProperties DEF TypeInv, WorldTyped
<1>2. ASSUME NEW i \in DOMAIN stream, ~(now - stream[i].at < DedupWindow)
      PROVE  now - stream[i].at >= DedupWindow
  <2>1. i \in 1..Len(stream) /\ stream \in Seq([id : Nat, at : 0..MaxTime])
    BY LenProperties DEF TypeInv, WorldTyped
  <2>2. stream[i] \in [id : Nat, at : 0..MaxTime]
    BY <2>1, ElementOfSeq
  <2>3. stream[i].at \in Int /\ now \in Int /\ DedupWindow \in Int
    BY <2>2, IngestBounds DEF TypeInv, WorldTyped
  <2> QED BY <1>2, <2>3
<1>3. stream \in Seq([id : Nat, at : 0..MaxTime])
  BY DEF TypeInv, WorldTyped
<1> QED BY <1>1, <1>2, <1>3 DEF Deliver

LEMMA DecodeTyped ==
  ASSUME TypeInv, NEW p \in Producers, Decode(p)
  PROVE  TypeInv'
<1>0. /\ stage[p] = "decode" /\ stage[p] \in AtItem
      /\ UNCHANGED <<service, now, files, bus, views, request, gone, answer, posts>>
  BY DEF Decode, AtItem
<1>1. IdOf[Item(p)] \in Nat
  BY <1>0, ItemIsItem
<1>2. Started' /\ FilesTyped'
  BY <1>0 DEF TypeInv, Started, FilesTyped, service, files
<1>3. CASE /\ event' = [event EXCEPT ![p] = IF IdOf[Item(p)] = NoId THEN fresh ELSE IdOf[Item(p)]]
           /\ fresh' = IF IdOf[Item(p)] = NoId THEN fresh + 1 ELSE fresh
           /\ stage' = [stage EXCEPT ![p] = "save"]
           /\ UNCHANGED <<trail, done, mark, degraded, accepted, failures>>
  <2>1. fresh \in Nat /\ event \in [Producers -> Nat]
    BY DEF TypeInv, WorldTyped, HandsTyped
  <2>2. event' \in [Producers -> Nat] /\ fresh' \in Nat
    BY <1>1, <1>3, <2>1
  <2>3. HandsTyped'
    BY <1>0, <1>3, <2>2, MoveTyped DEF AtItem, TypeInv, HandsTyped
  <2>4. WorldTyped'
    BY <1>0, <1>3, <2>2 DEF TypeInv, WorldTyped, bus, views
  <2> QED BY <1>2, <2>3, <2>4 DEF TypeInv
<1>4. CASE /\ RecordAudit(p, Entry("event.rejected",
                                   IF Item(p) \in WellFormed THEN IdOf[Item(p)] ELSE NoId))
           /\ Settle(p, [status |-> "rejected", code |-> "VALIDATION_FAILED"])
           /\ UNCHANGED fresh
  <2>1. (IF Item(p) \in WellFormed THEN IdOf[Item(p)] ELSE NoId) \in Nat
    BY <1>1 DEF NoId
  <2>2. "event.rejected" \in Actions
    BY DEF Actions
  <2>3. trail' \subseteq [action : Actions, id : Nat] /\ failures' \in 0..MaxFailures
    BY <1>4, <2>1, <2>2, AuditTyped
  <2>4. [status |-> "rejected", code |-> "VALIDATION_FAILED"] \in Results
    BY DEF Results
  <2>5. HandsTyped' /\ accepted' \subseteq Saying
    BY <1>0, <1>4, <2>4, SettleTyped
  <2>6. WorldTyped'
    BY <1>0, <1>4, <2>3, <2>5 DEF TypeInv, WorldTyped, bus, views
  <2> QED BY <1>2, <2>5, <2>6 DEF TypeInv
<1> QED BY <1>3, <1>4 DEF Decode

LEMMA SaveTyped ==
  ASSUME TypeInv, NEW p \in Producers, Save(p)
  PROVE  TypeInv'
<1>0. /\ stage[p] \in AtItem /\ event[p] \in Nat
      /\ UNCHANGED <<service, now, bus, views, trail, fresh, request, gone, answer, posts>>
  BY DEF Save, AtItem, TypeInv, HandsTyped
<1>1. Started'
  BY <1>0 DEF TypeInv, Started, service
<1>2. FilesTyped'
  <2>1. UNCHANGED files \/ File(event[p])
    BY DEF Save
  <2> QED BY <1>0, <2>1, FileTyped DEF files, TypeInv, FilesTyped
<1>3. failures' \in 0..MaxFailures
  BY IngestBounds DEF Save, StoreWorks, StoreFails, Fault, TypeInv, WorldTyped
<1>4. CASE Saved(p)
  <2>1. Len(arrivals') \in Nat
    BY <1>2, LenProperties DEF FilesTyped
  <2>2. mark' \in [Producers -> Nat]
    BY <1>4, <2>1 DEF Saved, TypeInv, HandsTyped
  <2>3. HandsTyped'
    BY <1>0, <1>4, <2>2, MoveTyped DEF Saved, AtItem, TypeInv, HandsTyped
  <2>4. WorldTyped'
    BY <1>0, <1>3, <1>4 DEF Saved, TypeInv, WorldTyped, bus, views
  <2> QED BY <1>1, <1>2, <2>3, <2>4 DEF TypeInv
<1>5. CASE Settle(p, [status |-> "rejected", code |-> "INTERNAL"])
  <2>1. [status |-> "rejected", code |-> "INTERNAL"] \in Results
    BY DEF Results
  <2>2. HandsTyped' /\ accepted' \subseteq Saying
    BY <1>0, <1>5, <2>1, SettleTyped
  <2>3. WorldTyped'
    BY <1>0, <1>3, <2>2 DEF TypeInv, WorldTyped, bus, views
  <2> QED BY <1>1, <1>2, <2>2, <2>3 DEF TypeInv
<1> QED BY <1>4, <1>5 DEF Save

(* The steps that leave the files alone and move on within their item.     *)
LEMMA StepTyped ==
  ASSUME TypeInv, NEW p \in Producers, NEW next \in AtItem, stage[p] \in AtItem,
         stage' = [stage EXCEPT ![p] = next],
         degraded' \in [Producers -> SUBSET Subsystems],
         UNCHANGED <<service, now, files, busUp, fresh, request, done, event, mark,
                     gone, answer, accepted, posts>>,
         stream' \in Seq([id : Nat, at : 0..MaxTime]),
         projected' \subseteq Nat, incidents' \subseteq Nat,
         trail' \subseteq [action : Actions, id : Nat], failures' \in 0..MaxFailures
  PROVE  TypeInv'
<1>1. HandsTyped'
  BY MoveTyped DEF TypeInv, HandsTyped
<1> QED BY <1>1 DEF TypeInv, Started, FilesTyped, WorldTyped, service, files

LEMMA ProjectTyped ==
  ASSUME TypeInv, NEW p \in Producers, Project(p)
  PROVE  TypeInv'
<1>0. /\ stage[p] \in AtItem /\ event[p] \in Nat /\ "publish" \in AtItem
      /\ stage' = [stage EXCEPT ![p] = "publish"]
      /\ projected' = projected \union {event[p]}
      /\ UNCHANGED <<service, now, files, bus, incidents, fresh, request, done, event, mark,
                     degraded, gone, answer, accepted, posts>>
  BY DEF Project, AtItem, TypeInv, HandsTyped
<1>1. trail' \subseteq [action : Actions, id : Nat] /\ failures' \in 0..MaxFailures
  <2>1. "event.label_quarantined" \in Actions
    BY DEF Actions
  <2>2. \/ RecordAudit(p, Entry("event.label_quarantined", event[p]))
        \/ UNCHANGED <<trail, failures>>
    BY DEF Project
  <2> QED BY <1>0, <2>1, <2>2, AuditTyped DEF TypeInv, WorldTyped
<1>2. /\ projected' \subseteq Nat /\ incidents' \subseteq Nat
      /\ stream' \in Seq([id : Nat, at : 0..MaxTime])
      /\ degraded' \in [Producers -> SUBSET Subsystems] /\ busUp' = busUp
  BY <1>0 DEF TypeInv, WorldTyped, HandsTyped, bus
<1> QED BY <1>0, <1>1, <1>2, StepTyped

(* What a publish leaves.                                                  *)
LEMMA PublishIs ==
  ASSUME TypeInv, NEW p \in Producers, Publish(p)
  PROVE  /\ stage[p] = "publish" /\ stage' = [stage EXCEPT ![p] = "correlate"]
         /\ UNCHANGED <<service, now, files, busUp, views, trail, fresh, request, done,
                        event, mark, gone, answer, accepted, posts>>
         /\ Deliver(event[p]) \/ UNCHANGED stream
         /\ \/ degraded' = [degraded EXCEPT ![p] = degraded[p] \union {"event_bus"}]
            \/ degraded' = degraded /\ (transport = "nats" => Deliver(event[p]))
         /\ failures' \in 0..MaxFailures
<1>1. failures' \in 0..MaxFailures
  BY IngestBounds DEF Publish, Published, PublishFails, Fault, TypeInv, WorldTyped
<1>2. transport \in {"nats", "disabled"}
  BY DEF TypeInv, Started
<1> QED BY <1>1, <1>2 DEF Publish, Published, PublishFails

LEMMA PublishTyped ==
  ASSUME TypeInv, NEW p \in Producers, Publish(p)
  PROVE  TypeInv'
<1>1. stage[p] \in AtItem /\ event[p] \in Nat /\ "correlate" \in AtItem
  BY PublishIs DEF AtItem, TypeInv, HandsTyped
<1>2. stream' \in Seq([id : Nat, at : 0..MaxTime])
  BY <1>1, PublishIs, DeliverTyped
<1>3. degraded' \in [Producers -> SUBSET Subsystems]
  <2>1. \/ degraded' = [degraded EXCEPT ![p] = degraded[p] \union {"event_bus"}]
        \/ degraded' = degraded
    BY PublishIs
  <2>2. "event_bus" \in Subsystems /\ degraded \in [Producers -> SUBSET Subsystems]
    BY DEF TypeInv, HandsTyped, Subsystems
  <2> QED BY <2>1, <2>2
<1>4. /\ projected' \subseteq Nat /\ incidents' \subseteq Nat
      /\ trail' \subseteq [action : Actions, id : Nat]
  BY PublishIs DEF TypeInv, WorldTyped, views
<1> QED BY <1>1, <1>2, <1>3, <1>4, PublishIs, StepTyped

LEMMA LostTyped ==
  ASSUME TypeInv, NEW p \in Producers, event[p] \in Nat, IncidentLost(p)
  PROVE  /\ trail' \subseteq [action : Actions, id : Nat] /\ failures' \in 0..MaxFailures
         /\ trail' \subseteq trail \union {Entry("correlation.failed", event[p])}
         /\ trail \subseteq trail'
<1>1. failures' \in 0..MaxFailures
  BY IngestBounds DEF IncidentLost, StoreFails, Fault, TypeInv, WorldTyped
<1>2. trail' = trail \/ trail' = trail \union {Entry("correlation.failed", event[p])}
  BY DEF IncidentLost
<1>3. "correlation.failed" \in Actions
  BY DEF Actions
<1> QED BY <1>1, <1>2, <1>3 DEF Entry, TypeInv, WorldTyped

LEMMA CorrelateTyped ==
  ASSUME TypeInv, NEW p \in Producers, Correlate(p)
  PROVE  TypeInv'
<1>0. /\ stage[p] \in AtItem /\ event[p] \in Nat /\ "trail" \in AtItem
      /\ stage' = [stage EXCEPT ![p] = "trail"]
      /\ UNCHANGED <<service, now, files, bus, projected, fresh, request, done, event, mark,
                     gone, answer, accepted, posts>>
  BY DEF Correlate, AtItem, TypeInv, HandsTyped
<1>1. trail' \subseteq [action : Actions, id : Nat] /\ failures' \in 0..MaxFailures
  <2>1. "incident.updated" \in Actions /\ "correlation.failed" \in Actions
    BY DEF Actions
  <2>2. \/ RecordAudit(p, Entry("incident.updated", event[p]))
        \/ RecordAudit(p, Entry("correlation.failed", event[p]))
        \/ UNCHANGED <<trail, failures>>
        \/ IncidentLost(p)
    BY DEF Correlate
  <2>3. CASE RecordAudit(p, Entry("incident.updated", event[p]))
    BY <1>0, <2>1, <2>3, AuditTyped
  <2>4. CASE RecordAudit(p, Entry("correlation.failed", event[p]))
    BY <1>0, <2>1, <2>4, AuditTyped
  <2>5. CASE UNCHANGED <<trail, failures>>
    BY <2>5 DEF TypeInv, WorldTyped
  <2>6. CASE IncidentLost(p)
    BY <1>0, <2>6, LostTyped
  <2> QED BY <2>2, <2>3, <2>4, <2>5, <2>6
<1>2. /\ projected' \subseteq Nat /\ incidents' \subseteq Nat /\ busUp' = busUp
      /\ stream' \in Seq([id : Nat, at : 0..MaxTime])
  <2>1. incidents' = incidents \/ incidents' = incidents \union {event[p]}
    BY DEF Correlate, IncidentLost
  <2> QED BY <1>0, <2>1 DEF TypeInv, WorldTyped, bus
<1>3. degraded' \in [Producers -> SUBSET Subsystems]
  <2>1. \/ degraded' = degraded
        \/ degraded' = [degraded EXCEPT ![p] = degraded[p] \union {"correlation"}]
    BY DEF Correlate
  <2>2. degraded \in [Producers -> SUBSET Subsystems] /\ "correlation" \in Subsystems
    BY DEF TypeInv, HandsTyped, Subsystems
  <2>3. degraded[p] \union {"correlation"} \in SUBSET Subsystems
    BY <2>2
  <2> QED BY <2>1, <2>2, <2>3
<1> QED BY <1>0, <1>1, <1>2, <1>3, StepTyped

LEMMA IngestedTyped ==
  ASSUME TypeInv, NEW p \in Producers, Ingested(p)
  PROVE  TypeInv'
<1> DEFINE result == [status |-> "accepted", id |-> event[p], degraded |-> degraded[p],
                      mark |-> mark[p]]
<1>0. /\ stage[p] \in AtItem /\ event[p] \in Nat
      /\ RecordAudit(p, Entry("event.ingested", event[p])) /\ Settle(p, result)
      /\ UNCHANGED <<service, now, files, bus, views, fresh, request, gone, answer, posts>>
  BY DEF Ingested, AtItem, TypeInv, HandsTyped
<1>1. trail' \subseteq [action : Actions, id : Nat] /\ failures' \in 0..MaxFailures
  BY <1>0, AuditTyped, "event.ingested" \in Actions DEF Actions
<1>2. result \in Results
  BY DEF Results, TypeInv, HandsTyped
<1>3. HandsTyped' /\ accepted' \subseteq Saying
  BY <1>0, <1>2, SettleTyped
<1>4. WorldTyped'
  BY <1>0, <1>1, <1>3 DEF TypeInv, WorldTyped, bus, views
<1> QED BY <1>0, <1>3, <1>4 DEF TypeInv, Started, FilesTyped, service, files

LEMMA CodeIsCode ==
  ASSUME NEW r, NEW results PROVE Code(r, results) \in {202, 207, 400, 500}
BY DEF Code

LEMMA RequestTyped ==
  ASSUME TypeInv, NEW p \in Producers,
         Answer(p) \/ HangUp(p) \/ \E r \in RequestsOf[p] : Post(p, r)
  PROVE  TypeInv'
<1>1. ASSUME NEW r \in RequestsOf[p], Post(p, r) PROVE TypeInv'
  <2>1. HandsTyped'
    <3>1. CASE UNCHANGED <<stage, request>>
      <4>0. \E x \in {0, 400, 413} : answer' = [answer EXCEPT ![p] = x]
        BY <1>1 DEF Post
      <4>1. answer' \in [Producers -> {0, 202, 207, 400, 413, 500}]
        BY <4>0 DEF TypeInv, HandsTyped
      <4> QED BY <1>1, <3>1, <4>1 DEF Post, TypeInv, HandsTyped
    <3>2. CASE /\ ~(r.items = <<>> \/ Len(r.items) > MaxBatch)
               /\ stage' = [stage EXCEPT ![p] = "decode"]
               /\ request' = [request EXCEPT ![p] = r]
               /\ answer' = [answer EXCEPT ![p] = 0]
      <4>1. r.items \in Seq(Items) /\ r.items # <<>>
        BY <3>2, ItemsAreRaw
      <4>2. Len(r.items) > 0 /\ Len(<<>>) = 0
        BY <4>1, EmptySeq
      <4>3. UNCHANGED <<done, event, mark, degraded, gone>> /\ done[p] = <<>>
        BY <1>1 DEF Post, TypeInv, HandsTyped
      <4>0. request = [q \in Producers |-> request[q]]
        BY DEF TypeInv, HandsTyped
      <4>7. /\ request' = [q \in Producers |-> request'[q]] /\ request'[p] = r
            /\ \A q \in Producers \ {p} : request'[q] = request[q]
        BY <3>2, <4>0, Zenon
      <4>4. /\ stage' \in [Producers -> Stages]
            /\ request' = [q \in Producers |-> request'[q]]
            /\ answer' \in [Producers -> {0, 202, 207, 400, 413, 500}]
            /\ stage'[p] = "decode" /\ request'[p] = r
            /\ \A q \in Producers \ {p} : stage'[q] = stage[q] /\ request'[q] = request[q]
        <5>1. stage' \in [Producers -> Stages] /\ stage'[p] = "decode"
              /\ \A q \in Producers \ {p} : stage'[q] = stage[q]
          BY <3>2 DEF TypeInv, HandsTyped, Stages
        <5>2. answer' \in [Producers -> {0, 202, 207, 400, 413, 500}]
          BY <3>2 DEF TypeInv, HandsTyped
        <5> QED BY <4>7, <5>1, <5>2
      <4>5. /\ \A q \in Producers : stage'[q] # "idle" => request'[q] \in RequestsOf[q]
            /\ \A q \in Producers : stage'[q] = "idle" => done'[q] = <<>>
        <5>1. ASSUME NEW q \in Producers, stage'[q] # "idle"
              PROVE  request'[q] \in RequestsOf[q]
          <6>1. \A o \in Producers : stage[o] # "idle" => request[o] \in RequestsOf[o]
            BY DEF TypeInv, HandsTyped
          <6>2. r \in RequestsOf[p]
            OBVIOUS
          <6> QED BY <4>4, <5>1, <6>1, <6>2
        <5>2. ASSUME NEW q \in Producers, stage'[q] = "idle"
              PROVE  done'[q] = <<>>
          <6>1. \A o \in Producers : stage[o] = "idle" => done[o] = <<>>
            BY DEF TypeInv, HandsTyped
          <6> QED BY <4>3, <4>4, <5>2, <6>1
        <5> QED BY <5>1, <5>2
      <4>6. \A q \in Producers : stage'[q] \in AtItem => Len(done'[q]) < Len(request'[q].items)
        BY <4>2, <4>3, <4>4 DEF TypeInv, HandsTyped
      <4> QED BY <4>3, <4>4, <4>5, <4>6 DEF TypeInv, HandsTyped
    <3> QED BY <1>1, <3>1, <3>2 DEF Post
  <2>2. WorldTyped'
    BY <1>1, IngestBounds DEF Post, TypeInv, WorldTyped, bus, views
  <2> QED BY <1>1, <2>1, <2>2 DEF Post, TypeInv, Started, FilesTyped, service, files
<1>2. CASE HangUp(p)
  <2>1. HandsTyped'
    BY <1>2 DEF HangUp, TypeInv, HandsTyped
  <2>2. WorldTyped'
    BY <1>2, IngestBounds DEF HangUp, Fault, TypeInv, WorldTyped, bus, views
  <2> QED BY <1>2, <2>1, <2>2 DEF HangUp, TypeInv, Started, FilesTyped, service, files
<1>3. CASE Answer(p)
  <2>1. <<>> \in Seq(Results)
    BY EmptySeq
  <2>2. HandsTyped'
    <3>1. answer' \in [Producers -> {0, 202, 207, 400, 413, 500}]
      <4>1. (IF gone[p] THEN 0 ELSE Code(request[p], done[p])) \in {0, 202, 207, 400, 413, 500}
        BY CodeIsCode
      <4> QED BY <1>3, <4>1 DEF Answer, TypeInv, HandsTyped
    <3>0. /\ request' = [request EXCEPT ![p] = <<>>]
          /\ request = [q \in Producers |-> request[q]]
      BY <1>3 DEF Answer, TypeInv, HandsTyped
    <3>4. /\ request' = [q \in Producers |-> request'[q]]
          /\ \A q \in Producers \ {p} : request'[q] = request[q]
      BY <3>0, Zenon
    <3>2. /\ stage' \in [Producers -> Stages] /\ stage'[p] = "idle"
          /\ request' = [q \in Producers |-> request'[q]]
          /\ done' \in [Producers -> Seq(Results)] /\ done'[p] = <<>>
          /\ gone' \in [Producers -> BOOLEAN]
          /\ \A q \in Producers \ {p} : /\ stage'[q] = stage[q] /\ request'[q] = request[q]
                                       /\ done'[q] = done[q]
      BY <1>3, <2>1, <3>4 DEF Answer, TypeInv, HandsTyped, Stages
    <3>3. UNCHANGED <<event, mark, degraded>>
      BY <1>3 DEF Answer
    <3> QED BY <3>1, <3>2, <3>3, ZenonT(40) DEF TypeInv, HandsTyped, AtItem
  <2>3. WorldTyped'
    BY <1>3 DEF Answer, TypeInv, WorldTyped, bus, views, counts
  <2> QED BY <1>3, <2>2, <2>3 DEF Answer, TypeInv, Started, FilesTyped, service, files
<1> QED BY <1>1, <1>2, <1>3

LEMMA WorldStepTyped ==
  ASSUME TypeInv, Tick \/ BusFails \/ BusReturns \/ UNCHANGED vars
  PROVE  TypeInv'
<1>1. UNCHANGED <<service, files, stream, views, trail, fresh, hands, accepted, posts>>
  BY DEF Tick, BusFails, BusReturns, vars, bus, counts
<1>2. now' \in 0..MaxTime /\ busUp' \in BOOLEAN /\ failures' \in 0..MaxFailures
  <2>1. now \in 0..MaxTime /\ busUp \in BOOLEAN /\ failures \in 0..MaxFailures
    BY DEF TypeInv, WorldTyped
  <2>2. now' = now \/ (now < MaxTime /\ now' = now + 1)
    <3>1. Tick => now < MaxTime /\ now' = now + 1
      BY DEF Tick
    <3>2. BusFails \/ BusReturns \/ UNCHANGED vars => now' = now
      BY DEF BusFails, BusReturns, vars
    <3> QED BY <3>1, <3>2
  <2>3. failures' = failures \/ (failures < MaxFailures /\ failures' = failures + 1)
    <3>1. BusFails => failures < MaxFailures /\ failures' = failures + 1
      BY DEF BusFails, Fault
    <3>2. Tick \/ BusReturns \/ UNCHANGED vars => failures' = failures
      BY DEF Tick, BusReturns, vars, counts
    <3> QED BY <3>1, <3>2
  <2>4. busUp' = busUp \/ busUp' = FALSE \/ busUp' = TRUE
    BY DEF Tick, BusFails, BusReturns, vars, bus
  <2>5. now' \in 0..MaxTime /\ failures' \in 0..MaxFailures
    BY <2>1, <2>2, <2>3, IngestBounds
  <2> QED BY <2>1, <2>4, <2>5
<1>3. HandsTyped'
  BY <1>1 DEF TypeInv, HandsTyped, hands
<1>4. WorldTyped'
  BY <1>1, <1>2 DEF TypeInv, WorldTyped, views
<1> QED BY <1>1, <1>3, <1>4 DEF TypeInv, Started, FilesTyped, service, files

LEMMA TypeStep == TypeInv /\ [Next]_vars => TypeInv'
<1> SUFFICES ASSUME TypeInv, [Next]_vars PROVE TypeInv'
  OBVIOUS
<1>1. ASSUME NEW p \in Producers, Handle(p) PROVE TypeInv'
  BY <1>1, DecodeTyped, SaveTyped, ProjectTyped, PublishTyped, CorrelateTyped, IngestedTyped,
     RequestTyped DEF Handle
<1>2. ASSUME NEW p \in Producers, HangUp(p) \/ \E r \in RequestsOf[p] : Post(p, r)
      PROVE  TypeInv'
  BY <1>2, RequestTyped
<1>3. CASE Tick \/ BusFails \/ BusReturns \/ UNCHANGED vars
  BY <1>3, WorldStepTyped
<1> QED BY <1>1, <1>2, <1>3 DEF Next

-----------------------------------------------------------------------------
(* The event table                                                         *)

Window(i) == Len(arrivals) - Len(events) + i   \* where the i-th event on file arrived

TableIsTail ==
  /\ eventIDs = Filed
  /\ Len(events) <= Len(arrivals)
  /\ \A i \in 1..Len(events) : events[i] = arrivals[Window(i)]
  /\ \A i, j \in 1..Len(events) : i # j => events[i] # events[j]
  /\ store = "postgres" => Len(events) = Len(arrivals)
  /\ store = "memory" => /\ Len(events) <= MaxEvents
                         /\ Len(events) < MaxEvents => Len(events) = Len(arrivals)

ArrivalsApart ==
  \A i, j \in 1..Len(arrivals) : i < j /\ arrivals[i] = arrivals[j] =>
    store = "memory" /\ j - i > MaxEvents

FileInv == TableIsTail /\ ArrivalsApart

LEMMA Lengths ==
  ASSUME TypeInv
  PROVE  /\ Len(events) \in Nat /\ Len(arrivals) \in Nat /\ Len(stream) \in Nat
         /\ DOMAIN events = 1..Len(events) /\ DOMAIN arrivals = 1..Len(arrivals)
         /\ DOMAIN stream = 1..Len(stream)
         /\ \A i \in 1..Len(events) : events[i] \in Nat
         /\ \A i \in 1..Len(arrivals) : arrivals[i] \in Nat
         /\ \A i \in 1..Len(stream) : stream[i] \in [id : Nat, at : 0..MaxTime]
BY LenProperties, ElementOfSeq DEF TypeInv, FilesTyped, WorldTyped

(* What a save of an unknown id leaves, element by element.                *)
LEMMA FileIs ==
  ASSUME TypeInv, FileInv, NEW ev \in Nat, File(ev), ev \notin eventIDs
  PROVE  /\ Len(arrivals') = Len(arrivals) + 1
         /\ \A i \in 1..Len(arrivals) : arrivals'[i] = arrivals[i]
         /\ arrivals'[Len(arrivals) + 1] = ev
         /\ \/ /\ store = "memory" => Len(events) + 1 <= MaxEvents
               /\ Len(events') = Len(events) + 1
               /\ \A i \in 1..Len(events) : events'[i] = events[i]
               /\ events'[Len(events) + 1] = ev
               /\ eventIDs' = eventIDs \union {ev}
            \/ /\ store = "memory" /\ Len(events) = MaxEvents
               /\ Len(events') = Len(events)
               /\ \A i \in 1..(Len(events) - 1) : events'[i] = events[i + 1]
               /\ events'[Len(events)] = ev
               /\ eventIDs' = (eventIDs \union {ev}) \ {events[1]}
<1> DEFINE all == Append(events, ev)
           full == store = "memory" /\ Len(all) > MaxEvents
<1>0. MaxEvents \in Nat \ {0}
  BY IngestBounds
<1>1. /\ Len(all) = Len(events) + 1 /\ all \in Seq(Nat) /\ all # <<>>
      /\ \A i \in 1..Len(events) : all[i] = events[i]
      /\ all[Len(events) + 1] = ev
  <2>1. PICK was \in Seq(Nat) : was = events
    BY DEF TypeInv, FilesTyped
  <2>2. /\ Append(was, ev) \in Seq(Nat) /\ Append(was, ev) # <<>>
        /\ Len(Append(was, ev)) = Len(was) + 1
        /\ \A i \in 1..Len(was) : Append(was, ev)[i] = was[i]
        /\ Append(was, ev)[Len(was) + 1] = ev
    BY AppendProperties
  <2> QED BY <2>1, <2>2
<1>2. /\ Len(Append(arrivals, ev)) = Len(arrivals) + 1
      /\ \A i \in 1..Len(arrivals) : Append(arrivals, ev)[i] = arrivals[i]
      /\ Append(arrivals, ev)[Len(arrivals) + 1] = ev
  BY AppendProperties DEF TypeInv, FilesTyped
<1>3. /\ Head(all) = all[1] /\ Len(Tail(all)) = Len(events)
      /\ \A i \in 1..Len(Tail(all)) : Tail(all)[i] = all[i + 1]
  <2>1. /\ Head(all) = all[1] /\ Len(Tail(all)) = Len(all) - 1
        /\ \A i \in 1..Len(Tail(all)) : Tail(all)[i] = all[i + 1]
    BY <1>1, HeadTailProperties
  <2>2. Len(events) \in Nat
    BY Lengths
  <2> HIDE DEF all
  <2>3. Len(Tail(all)) = Len(events)
    BY <1>1, <2>1, <2>2
  <2> QED BY <2>1, <2>3
<1>4. /\ events' = IF full THEN Tail(all) ELSE all
      /\ eventIDs' = (eventIDs \union {ev}) \ (IF full THEN {Head(all)} ELSE {})
      /\ arrivals' = Append(arrivals, ev)
  BY DEF File
<1>5. Len(events) \in Nat /\ (store = "memory" => Len(events) <= MaxEvents)
  BY Lengths DEF FileInv, TableIsTail
<1>6. CASE full
  <2>1. Len(events) = MaxEvents /\ store = "memory"
    BY <1>0, <1>1, <1>5, <1>6
  <2>2. all[1] = events[1] /\ 1 \in 1..Len(events)
    BY <1>0, <1>1, <2>1
  <2>3. events' = Tail(all) /\ eventIDs' = (eventIDs \union {ev}) \ {events[1]}
    BY <1>3, <1>4, <1>6, <2>2
  <2>4. /\ \A i \in 1..(Len(events) - 1) : Tail(all)[i] = events[i + 1]
        /\ Tail(all)[Len(events)] = ev
    BY <1>0, <1>1, <1>3, <1>5, <2>1
  <2> QED BY <1>2, <1>3, <1>4, <2>1, <2>3, <2>4
<1>7. CASE ~full
  <2>1. store = "memory" => Len(events) + 1 <= MaxEvents
    BY <1>0, <1>1, <1>5, <1>7
  <2>2. events' = all /\ eventIDs' = eventIDs \union {ev}
    BY <1>4, <1>7
  <2> QED BY <1>1, <1>2, <1>4, <2>1, <2>2
<1> QED BY <1>6, <1>7

(* The table stays the tail of the arrivals, and an id comes back only     *)
(* after all that was on file with it is gone.                             *)
LEMMA FileKeepsFileInv ==
  ASSUME TypeInv, FileInv, NEW ev \in Nat, File(ev), store' = store, FilesTyped'
  PROVE  /\ FileInv'
         /\ ev \in Filed' /\ Arrived' = Arrived \union {ev}
         /\ \/ UNCHANGED files
            \/ Len(arrivals') = Len(arrivals) + 1
<1>0. /\ Len(events) \in Nat /\ Len(arrivals) \in Nat /\ MaxEvents \in Nat \ {0}
      /\ DOMAIN events = 1..Len(events) /\ DOMAIN arrivals = 1..Len(arrivals)
      /\ DOMAIN events' = 1..Len(events') /\ DOMAIN arrivals' = 1..Len(arrivals')
      /\ Len(events) <= Len(arrivals)
  <2>1. Len(events) \in Nat /\ Len(arrivals) \in Nat /\ MaxEvents \in Nat \ {0}
    BY Lengths, IngestBounds
  <2>2. DOMAIN events = 1..Len(events) /\ DOMAIN arrivals = 1..Len(arrivals)
    BY Lengths
  <2>3. DOMAIN events' = 1..Len(events') /\ DOMAIN arrivals' = 1..Len(arrivals')
    BY LenProperties DEF FilesTyped
  <2> QED BY <2>1, <2>2, <2>3 DEF FileInv, TableIsTail
<1>3. /\ eventIDs = Filed
      /\ \A i \in 1..Len(events) : events[i] = arrivals[Window(i)]
      /\ \A i, j \in 1..Len(events) : i # j => events[i] # events[j]
      /\ store = "postgres" => Len(events) = Len(arrivals)
      /\ store = "memory" => Len(events) <= MaxEvents
      /\ store = "memory" /\ Len(events) < MaxEvents => Len(events) = Len(arrivals)
  BY DEF FileInv, TableIsTail
<1>6. Len(events) < Len(arrivals) => store = "memory" /\ Len(events) >= MaxEvents
  <2> SUFFICES ASSUME Len(events) < Len(arrivals)
               PROVE  store = "memory" /\ Len(events) >= MaxEvents
    OBVIOUS
  <2>0. Len(events) \in Int /\ Len(arrivals) \in Int /\ MaxEvents \in Int
    BY <1>0
  <2>1. Len(events) # Len(arrivals)
    BY <2>0
  <2>2. store = "memory"
    BY <1>3, <2>1 DEF TypeInv, Started
  <2>3. ~(Len(events) < MaxEvents)
    BY <1>3, <2>1, <2>2
  <2> QED BY <2>0, <2>2, <2>3
<1>4. \A i \in 1..Len(events) : Window(i) \in 1..Len(arrivals)
  BY <1>0 DEF Window
<1>5. \A i \in 1..Len(events) : events[i] \in Filed
  BY <1>0 DEF Filed
<1>1. CASE UNCHANGED files
  <2>1. /\ events' = events /\ eventIDs' = eventIDs /\ arrivals' = arrivals
    BY <1>1 DEF files
  <2>2. FileInv'
    BY <2>1 DEF FileInv, TableIsTail, ArrivalsApart, Filed, Window
  <2>3. CASE ev \in eventIDs
    <3>1. ev \in Filed
      BY <2>3 DEF FileInv, TableIsTail
    <3>2. Filed \subseteq Arrived
      BY <1>0, <1>3, <1>4 DEF Filed, Arrived
    <3> QED BY <1>1, <2>1, <2>2, <3>1, <3>2 DEF Filed, Arrived
  <2>4. CASE ev \notin eventIDs
    <3>1. Len(arrivals') = Len(arrivals) + 1
      BY <2>4, FileIs
    <3> QED BY <1>0, <2>1, <3>1
  <2> QED BY <2>3, <2>4
<1>2. CASE ev \notin eventIDs
  <2>1. /\ Len(arrivals') = Len(arrivals) + 1
        /\ \A i \in 1..Len(arrivals) : arrivals'[i] = arrivals[i]
        /\ arrivals'[Len(arrivals) + 1] = ev
    BY <1>2, FileIs
  <2>2. Arrived' = Arrived \union {ev}
    BY <1>0, <2>1 DEF Arrived
  <2>3. \A i \in 1..Len(events) : /\ events[i] # ev /\ events[i] = arrivals[Window(i)]
                                  /\ Window(i) \in 1..Len(arrivals)
    BY <1>2, <1>3, <1>4, <1>5
  <2>4. ArrivalsApart'
    <3> SUFFICES ASSUME NEW i \in 1..Len(arrivals'), NEW j \in 1..Len(arrivals'),
                        i < j, arrivals'[i] = arrivals'[j]
                 PROVE  store = "memory" /\ j - i > MaxEvents
      BY DEF ArrivalsApart
    <3>1. CASE j <= Len(arrivals)
      <4>1. /\ i \in 1..Len(arrivals) /\ j \in 1..Len(arrivals)
            /\ arrivals[i] = arrivals[j]
        BY <1>0, <2>1, <3>1
      <4> QED BY <4>1 DEF FileInv, ArrivalsApart
    <3>2. CASE j > Len(arrivals)
      <4>1. j = Len(arrivals) + 1 /\ i \in 1..Len(arrivals) /\ arrivals[i] = ev
        BY <1>0, <2>1, <3>2
      <4> DEFINE k == i - (Len(arrivals) - Len(events))
      <4>2. ~(k \in 1..Len(events))
        <5>1. ASSUME k \in 1..Len(events) PROVE FALSE
          <6>1. Window(k) = i
            BY <1>0, <4>1 DEF Window
          <6> QED BY <2>3, <4>1, <5>1, <6>1
        <5> QED BY <5>1
      <4>3. i <= Len(arrivals) - Len(events)
        BY <1>0, <4>1, <4>2
      <4>4. Len(events) < Len(arrivals)
        <5>1. i \in Int /\ i >= 1 /\ Len(arrivals) \in Int /\ Len(events) \in Int
          BY <1>0, <4>1
        <5> QED BY <4>3, <5>1
      <4>5. store = "memory" /\ Len(events) >= MaxEvents
        BY <1>6, <4>4
      <4> QED BY <1>0, <4>1, <4>3, <4>5
    <3> QED BY <1>0, <2>1, <3>1, <3>2
  <2>5. TableIsTail' /\ ev \in Filed'
    <3>1. CASE /\ store = "memory" => Len(events) + 1 <= MaxEvents
               /\ Len(events') = Len(events) + 1
               /\ \A i \in 1..Len(events) : events'[i] = events[i]
               /\ events'[Len(events) + 1] = ev
               /\ eventIDs' = eventIDs \union {ev}
      <4>1. Filed' = Filed \union {ev}
        BY <1>0, <3>1 DEF Filed
      <4>2. \A i \in 1..Len(events') : events'[i] = arrivals'[Len(arrivals') - Len(events') + i]
        <5> SUFFICES ASSUME NEW i \in 1..Len(events')
                     PROVE  events'[i] = arrivals'[Len(arrivals') - Len(events') + i]
          OBVIOUS
        <5>1. CASE i \in 1..Len(events)
          <6>1. Len(arrivals') - Len(events') + i = Window(i)
            BY <1>0, <2>1, <3>1 DEF Window
          <6> QED BY <2>1, <2>3, <3>1, <5>1, <6>1
        <5>2. CASE i = Len(events) + 1
          BY <1>0, <2>1, <3>1, <5>2
        <5> QED BY <1>0, <3>1, <5>1, <5>2
      <4>3. ASSUME NEW i \in 1..Len(events'), NEW j \in 1..Len(events'), i # j
            PROVE  events'[i] # events'[j]
        <5>1. /\ i \in 1..Len(events) \/ i = Len(events) + 1
              /\ j \in 1..Len(events) \/ j = Len(events) + 1
          BY <1>0, <3>1
        <5>2. CASE i \in 1..Len(events) /\ j \in 1..Len(events)
          BY <1>3, <3>1, <4>3, <5>2
        <5>3. CASE i = Len(events) + 1 /\ j \in 1..Len(events)
          BY <2>3, <3>1, <5>3
        <5>4. CASE i \in 1..Len(events) /\ j = Len(events) + 1
          BY <2>3, <3>1, <5>4
        <5> QED BY <4>3, <5>1, <5>2, <5>3, <5>4
      <4>4. /\ store = "postgres" => Len(events') = Len(arrivals')
            /\ store = "memory" => /\ Len(events') <= MaxEvents
                                   /\ Len(events') < MaxEvents => Len(events') = Len(arrivals')
        <5>1. store = "memory" => Len(events) < MaxEvents
          BY <1>0, <3>1
        <5> QED BY <1>0, <1>3, <2>1, <3>1, <5>1
      <4>5. eventIDs' = Filed' /\ Len(events') <= Len(arrivals')
        <5>1. eventIDs' = Filed'
          BY <1>3, <3>1, <4>1
        <5>2. Len(events') <= Len(arrivals')
          BY <1>0, <2>1, <3>1
        <5> QED BY <5>1, <5>2
      <4>6. ev \in Filed'
        BY <4>1
      <4> QED BY <4>2, <4>3, <4>4, <4>5, <4>6 DEF TableIsTail, Window
    <3>2. CASE /\ store = "memory" /\ Len(events) = MaxEvents
               /\ Len(events') = Len(events)
               /\ \A i \in 1..(Len(events) - 1) : events'[i] = events[i + 1]
               /\ events'[Len(events)] = ev
               /\ eventIDs' = (eventIDs \union {ev}) \ {events[1]}
      <4>0. Len(events) >= 1
        BY <1>0, <3>2
      <4>1. Filed' = (Filed \union {ev}) \ {events[1]}
        <5>1. ASSUME NEW x \in Filed' PROVE x \in (Filed \union {ev}) \ {events[1]}
          <6>1. PICK i \in 1..Len(events) : x = events'[i]
            BY <1>0, <3>2, <5>1 DEF Filed
          <6>2. CASE i = Len(events)
            BY <1>0, <2>3, <3>2, <4>0, <6>1, <6>2
          <6>3. CASE i # Len(events)
            <7>0. i \in Int /\ 1 <= i /\ i <= Len(events) /\ Len(events) \in Int
              BY <1>0, <6>1
            <7>1. /\ i \in 1..(Len(events) - 1) /\ i + 1 \in 1..Len(events) /\ i + 1 # 1
                  /\ 1 \in 1..Len(events)
              BY <4>0, <6>3, <7>0
            <7>2. x = events[i + 1] /\ events[i + 1] # events[1]
              BY <1>3, <3>2, <6>1, <7>1
            <7> QED BY <1>5, <7>1, <7>2
          <6> QED BY <6>2, <6>3
        <5>2. ASSUME NEW x \in (Filed \union {ev}) \ {events[1]} PROVE x \in Filed'
          <6>1. CASE x = ev
            BY <1>0, <3>2, <4>0, <6>1 DEF Filed
          <6>2. CASE x \in Filed
            <7>1. PICK i \in 1..Len(events) : x = events[i]
              BY <1>0, <6>2 DEF Filed
            <7>2. i # 1
              BY <5>2, <7>1
            <7>3. i - 1 \in 1..(Len(events) - 1) /\ (i - 1) + 1 = i /\ i - 1 \in 1..Len(events')
              BY <1>0, <3>2, <7>2
            <7>4. events'[i - 1] = x
              BY <3>2, <7>1, <7>3
            <7> QED BY <1>0, <7>3, <7>4 DEF Filed
          <6> QED BY <5>2, <6>1, <6>2
        <5> QED BY <5>1, <5>2
      <4>2. \A i \in 1..Len(events') : events'[i] = arrivals'[Len(arrivals') - Len(events') + i]
        <5> SUFFICES ASSUME NEW i \in 1..Len(events')
                     PROVE  events'[i] = arrivals'[Len(arrivals') - Len(events') + i]
          OBVIOUS
        <5>1. CASE i \in 1..(Len(events) - 1)
          <6>1. /\ i + 1 \in 1..Len(events)
                /\ Len(arrivals') - Len(events') + i = Window(i + 1)
            BY <1>0, <2>1, <3>2, <5>1 DEF Window
          <6> QED BY <2>1, <2>3, <3>2, <5>1, <6>1
        <5>2. CASE i = Len(events)
          <6>1. Len(arrivals') - Len(events') + i = Len(arrivals) + 1
            BY <1>0, <2>1, <3>2, <5>2
          <6> QED BY <2>1, <3>2, <5>2, <6>1
        <5> QED BY <1>0, <3>2, <5>1, <5>2
      <4>3. \A i, j \in 1..Len(events') : i # j => events'[i] # events'[j]
        <5>1. ASSUME NEW i \in 1..Len(events'), NEW j \in 1..Len(events'), i < j
              PROVE  events'[i] # events'[j]
          <6>1. i \in 1..(Len(events) - 1) /\ i + 1 \in 1..Len(events) /\ events'[i] = events[i + 1]
            BY <1>0, <3>2, <5>1
          <6>2. CASE j = Len(events)
            BY <2>3, <3>2, <6>1, <6>2
          <6>3. CASE j # Len(events)
            <7>1. j \in 1..(Len(events) - 1) /\ j + 1 \in 1..Len(events) /\ i + 1 # j + 1
              BY <1>0, <3>2, <5>1, <6>3
            <7> QED BY <1>3, <3>2, <6>1, <7>1
          <6> QED BY <6>2, <6>3
        <5> SUFFICES ASSUME NEW i \in 1..Len(events'), NEW j \in 1..Len(events'), i # j
                     PROVE  events'[i] # events'[j]
          OBVIOUS
        <5>2. i < j \/ j < i
          BY <1>0, <3>2
        <5> QED BY <5>1, <5>2
      <4>4. Len(events') <= Len(arrivals') /\ ev \in Filed'
        BY <1>0, <2>1, <3>2, <4>0 DEF Filed
      <4>5. eventIDs' = Filed'
        BY <1>3, <3>2, <4>1
      <4> QED BY <1>0, <2>1, <3>2, <4>2, <4>3, <4>4, <4>5 DEF TableIsTail, Window
    <3> QED BY <1>2, <3>1, <3>2, FileIs
  <2> QED BY <2>1, <2>2, <2>4, <2>5 DEF FileInv
<1> QED BY <1>1, <1>2 DEF File

-----------------------------------------------------------------------------
(* The stream                                                              *)

StreamInv ==
  \A i, j \in 1..Len(stream) : i < j /\ stream[i].id = stream[j].id =>
    stream[j].at - stream[i].at >= DedupWindow

LEMMA DeliverKeepsStreamInv ==
  ASSUME TypeInv, StreamInv, NEW ev \in Nat, Deliver(ev)
  PROVE  StreamInv' /\ Streamed' = Streamed \union {ev}
<1> DEFINE msg == [id |-> ev, at |-> now]
<1>0. /\ Len(stream) \in Nat /\ DOMAIN stream = 1..Len(stream)
      /\ stream \in Seq([id : Nat, at : 0..MaxTime])
  BY Lengths DEF TypeInv, WorldTyped
<1>1. CASE stream' = stream /\ \E i \in DOMAIN stream : stream[i].id = ev
  BY <1>1 DEF StreamInv, Streamed
<1>2. CASE /\ stream' = Append(stream, msg)
           /\ \A i \in DOMAIN stream : stream[i].id = ev => now - stream[i].at >= DedupWindow
  <2>1. msg \in [id : Nat, at : 0..MaxTime]
    BY DEF TypeInv, WorldTyped
  <2>2. /\ Len(stream') = Len(stream) + 1 /\ stream'[Len(stream) + 1] = msg
        /\ \A i \in 1..Len(stream) : stream'[i] = stream[i]
        /\ stream' \in Seq([id : Nat, at : 0..MaxTime])
    BY <1>0, <1>2, <2>1, AppendProperties
  <2>3. DOMAIN stream' = 1..(Len(stream) + 1)
    BY <2>2, LenProperties
  <2>4. Streamed' = Streamed \union {ev}
    <3>1. ASSUME NEW x \in Streamed' PROVE x \in Streamed \union {ev}
      <4>1. PICK i \in 1..(Len(stream) + 1) : x = stream'[i].id
        BY <2>3, <3>1 DEF Streamed
      <4>2. CASE i = Len(stream) + 1
        BY <2>2, <4>1, <4>2
      <4>3. CASE i # Len(stream) + 1
        <5>1. i \in 1..Len(stream)
          BY <1>0, <4>1, <4>3
        <5> QED BY <1>0, <2>2, <4>1, <5>1 DEF Streamed
      <4> QED BY <4>2, <4>3
    <3>2. ASSUME NEW x \in Streamed PROVE x \in Streamed'
      <4>1. PICK i \in 1..Len(stream) : x = stream[i].id
        BY <1>0, <3>2 DEF Streamed
      <4>2. i \in DOMAIN stream' /\ stream'[i] = stream[i]
        BY <1>0, <2>2, <2>3
      <4> QED BY <4>1, <4>2 DEF Streamed
    <3>3. ev \in Streamed'
      <4>1. Len(stream) + 1 \in DOMAIN stream' /\ stream'[Len(stream) + 1].id = ev
        BY <1>0, <2>2, <2>3
      <4> QED BY <4>1 DEF Streamed
    <3> QED BY <3>1, <3>2, <3>3
  <2>5. StreamInv'
    <3> SUFFICES ASSUME NEW i \in 1..(Len(stream) + 1), NEW j \in 1..(Len(stream) + 1),
                        i < j, stream'[i].id = stream'[j].id
                 PROVE  stream'[j].at - stream'[i].at >= DedupWindow
      BY <2>2 DEF StreamInv
    <3>1. i \in 1..Len(stream)
      BY <1>0
    <3>2. CASE j = Len(stream) + 1
      <4>1. stream'[j].id = ev /\ stream'[j].at = now /\ stream'[i] = stream[i]
        BY <2>2, <3>1, <3>2
      <4> QED BY <1>0, <1>2, <3>1, <4>1
    <3>3. CASE j # Len(stream) + 1
      <4>1. j \in 1..Len(stream)
        BY <1>0, <3>3
      <4> QED BY <2>2, <3>1, <4>1 DEF StreamInv
    <3> QED BY <3>2, <3>3
  <2> QED BY <2>4, <2>5
<1>3. \/ stream' = stream /\ \E i \in DOMAIN stream : stream[i].id = ev
      \/ /\ stream' = Append(stream, msg)
         /\ ~\E i \in DOMAIN stream : stream[i].id = ev /\ now - stream[i].at < DedupWindow
  BY DEF Deliver
<1>4. CASE /\ stream' = Append(stream, msg)
           /\ ~\E i \in DOMAIN stream : stream[i].id = ev /\ now - stream[i].at < DedupWindow
  <2>1. ASSUME NEW i \in DOMAIN stream, stream[i].id = ev
        PROVE  now - stream[i].at >= DedupWindow
    <3>1. stream[i].at \in Int /\ now \in Int /\ DedupWindow \in Int
      BY <1>0, Lengths, IngestBounds DEF TypeInv, WorldTyped
    <3>2. ~(now - stream[i].at < DedupWindow)
      BY <1>4, <2>1
    <3> QED BY <3>1, <3>2
  <2> QED BY <1>2, <1>4, <2>1
<1> QED BY <1>1, <1>3, <1>4

-----------------------------------------------------------------------------
(* Nothing that was put on file, or on the bus, is forgotten by a step     *)

Grown ==
  /\ service' = service
  /\ FileInv' /\ StreamInv'
  /\ Arrived \subseteq Arrived' /\ Streamed \subseteq Streamed'
  /\ Len(arrivals') \in Nat
  /\ UNCHANGED files \/ Len(arrivals') = Len(arrivals) + 1

LEMMA NextGrows ==
  ASSUME TypeInv, FileInv, StreamInv, TypeInv', [Next]_vars
  PROVE  Grown
<1>0. FilesTyped' /\ Len(arrivals') \in Nat
  BY LenProperties DEF TypeInv, FilesTyped
<1>1. CASE UNCHANGED <<service, files, stream>>
  <2>1. FileInv' /\ StreamInv' /\ Arrived' = Arrived /\ Streamed' = Streamed
    BY <1>1 DEF FileInv, TableIsTail, ArrivalsApart, Filed, Arrived, Streamed, StreamInv,
                Window, service, files
  <2> QED BY <1>0, <1>1, <2>1 DEF Grown
<1>2. ASSUME NEW p \in Producers, Save(p) PROVE Grown
  <2>1. event[p] \in Nat /\ UNCHANGED <<service, bus>> /\ store' = store
    BY <1>2 DEF Save, TypeInv, HandsTyped, service
  <2>2. UNCHANGED files \/ File(event[p])
    BY <1>2 DEF Save
  <2>3. StreamInv' /\ Streamed' = Streamed
    BY <2>1 DEF StreamInv, Streamed, bus
  <2>4. CASE UNCHANGED files
    BY <1>1, <2>1, <2>4 DEF bus
  <2>5. CASE File(event[p])
    BY <1>0, <2>1, <2>3, <2>5, FileKeepsFileInv DEF Grown
  <2> QED BY <2>2, <2>4, <2>5
<1>3. ASSUME NEW p \in Producers, Publish(p) PROVE Grown
  <2>1. event[p] \in Nat /\ UNCHANGED <<service, files>>
    BY <1>3, PublishIs DEF TypeInv, HandsTyped
  <2>2. Deliver(event[p]) \/ UNCHANGED stream
    BY <1>3, PublishIs
  <2>3. CASE UNCHANGED stream
    BY <1>1, <2>1, <2>3
  <2>4. CASE Deliver(event[p])
    <3>1. StreamInv' /\ Streamed \subseteq Streamed'
      BY <2>1, <2>4, DeliverKeepsStreamInv
    <3>2. FileInv' /\ Arrived' = Arrived
      BY <2>1 DEF FileInv, TableIsTail, ArrivalsApart, Filed, Arrived, Window, service, files
    <3> QED BY <1>0, <2>1, <3>1, <3>2 DEF Grown
  <2> QED BY <2>2, <2>3, <2>4
<1>4. ASSUME NEW p \in Producers,
             \/ Decode(p) \/ Project(p) \/ Correlate(p) \/ Ingested(p) \/ Answer(p)
             \/ HangUp(p) \/ \E r \in RequestsOf[p] : Post(p, r)
      PROVE  Grown
  <2>1. UNCHANGED <<service, files, stream>>
    BY <1>4 DEF Decode, Project, Correlate, Ingested, Answer, HangUp, Post, bus
  <2> QED BY <1>1, <2>1
<1>5. CASE Tick \/ BusFails \/ BusReturns \/ UNCHANGED vars
  <2>1. UNCHANGED <<service, files, stream>>
    BY <1>5 DEF Tick, BusFails, BusReturns, vars, bus
  <2> QED BY <1>1, <2>1
<1> QED BY <1>2, <1>3, <1>4, <1>5 DEF Next, Handle

-----------------------------------------------------------------------------
(* What is said of an event                                                *)

Known(ev, m) ==
  ev \in Arrived /\ m \in Nat /\ m <= Len(arrivals) /\ (ev \in Filed \/ Len(arrivals) > m)

Told(ev, broken) == transport = "nats" /\ "event_bus" \notin broken => ev \in Streamed

SoundHand(p) ==
  /\ stage[p] \in {"project", "publish", "correlate", "trail"} => Known(event[p], mark[p])
  /\ stage[p] \in {"correlate", "trail"} => Told(event[p], degraded[p])

SoundAnswer(a) == Known(a.id, a.mark) /\ Told(a.id, a.degraded)

Recorded ==
  /\ projected \subseteq Arrived /\ Streamed \subseteq Arrived /\ incidents \subseteq Arrived
  /\ \A e \in trail : e.action # "event.rejected" => e.id \in Arrived

SayInv ==
  /\ \A p \in Producers : SoundHand(p)
  /\ \A a \in accepted : SoundAnswer(a)
  /\ Recorded

LEMMA SaidStaysTrue ==
  ASSUME TypeInv, Grown
  PROVE  /\ \A ev, m : Known(ev, m) => Known(ev, m)'
         /\ \A ev, broken : Told(ev, broken) => Told(ev, broken)'
<1>1. ASSUME NEW ev, NEW m, Known(ev, m) PROVE Known(ev, m)'
  <2>1. m \in Int /\ Len(arrivals) \in Int /\ m <= Len(arrivals)
    BY <1>1, Lengths DEF Known
  <2>2. CASE UNCHANGED files
    BY <1>1, <2>2 DEF Known, files, Arrived, Filed
  <2>3. CASE Len(arrivals') = Len(arrivals) + 1
    BY <1>1, <2>1, <2>3 DEF Known, Grown
  <2> QED BY <2>2, <2>3 DEF Grown
<1>2. ASSUME NEW ev, NEW broken, Told(ev, broken) PROVE Told(ev, broken)'
  BY <1>2 DEF Told, Grown, service
<1> QED BY <1>1, <1>2

(* A step of one producer: the others' hands are as sound as they were.    *)
LEMMA SoundStep ==
  ASSUME TypeInv, SayInv, Grown, NEW p \in Producers,
         \A q \in Producers \ {p} : /\ stage'[q] = stage[q] /\ event'[q] = event[q]
                                    /\ mark'[q] = mark[q] /\ degraded'[q] = degraded[q],
         SoundHand(p)',
         \A a \in accepted' : a \in accepted \/ SoundAnswer(a)',
         Recorded'
  PROVE  SayInv'
<1>1. ASSUME NEW q \in Producers \ {p} PROVE SoundHand(q)'
  BY <1>1, SaidStaysTrue DEF SayInv, SoundHand
<1>2. ASSUME NEW a \in accepted PROVE SoundAnswer(a)'
  BY <1>2, SaidStaysTrue DEF SayInv, SoundAnswer
<1> QED BY <1>1, <1>2 DEF SayInv

LEMMA AuditRecorded ==
  ASSUME TypeInv, Recorded, Grown, NEW p \in Producers, NEW action \in Actions, NEW ev \in Nat,
         RecordAudit(p, Entry(action, ev)), action = "event.rejected" \/ ev \in Arrived'
  PROVE  \A e \in trail' : e.action # "event.rejected" => e.id \in Arrived'
<1>1. trail' \subseteq trail \union {Entry(action, ev)}
  BY AuditTyped
<1> QED BY <1>1 DEF Recorded, Grown, Entry

LEMMA RecordedStays ==
  ASSUME Recorded, Grown, UNCHANGED <<projected, incidents>>, Streamed' = Streamed
  PROVE  /\ projected' \subseteq Arrived' /\ Streamed' \subseteq Arrived'
         /\ incidents' \subseteq Arrived'
         /\ \A e \in trail : e.action # "event.rejected" => e.id \in Arrived'
BY DEF Recorded, Grown

(* Settle leaves a producer between events, or at its answer.              *)
LEMMA Settled ==
  ASSUME TypeInv, NEW p \in Producers, NEW result, Settle(p, result)
  PROVE  /\ SoundHand(p)'
         /\ \A q \in Producers \ {p} : /\ stage'[q] = stage[q] /\ event'[q] = event[q]
                                       /\ mark'[q] = mark[q] /\ degraded'[q] = degraded[q]
         /\ accepted' = IF result.status = "accepted" THEN accepted \union {result}
                        ELSE accepted
<1>1. stage'[p] \in {"decode", "answer"}
  BY DEF Settle, TypeInv, HandsTyped
<1>2. \A q \in Producers \ {p} : /\ stage'[q] = stage[q] /\ event'[q] = event[q]
                                 /\ mark'[q] = mark[q] /\ degraded'[q] = degraded[q]
  BY DEF Settle, TypeInv, HandsTyped
<1> QED BY <1>1, <1>2 DEF Settle, SoundHand

LEMMA DecodeSound ==
  ASSUME TypeInv, SayInv, Grown, NEW p \in Producers, Decode(p)
  PROVE  SayInv'
<1>0. /\ stage[p] \in AtItem /\ UNCHANGED <<projected, incidents>> /\ Streamed' = Streamed
  BY DEF Decode, AtItem, views, bus, Streamed
<1>1. CASE /\ event' = [event EXCEPT ![p] = IF IdOf[Item(p)] = NoId THEN fresh ELSE IdOf[Item(p)]]
           /\ stage' = [stage EXCEPT ![p] = "save"]
           /\ UNCHANGED <<trail, done, mark, degraded, accepted, failures>>
  <2>1. /\ stage'[p] = "save"
        /\ \A q \in Producers \ {p} : /\ stage'[q] = stage[q] /\ event'[q] = event[q]
                                      /\ mark'[q] = mark[q] /\ degraded'[q] = degraded[q]
    BY <1>1 DEF TypeInv, HandsTyped
  <2>2. SoundHand(p)'
    BY <2>1 DEF SoundHand
  <2>3. Recorded'
    BY <1>0, <1>1, RecordedStays DEF SayInv, Recorded
  <2> QED BY <1>1, <2>1, <2>2, <2>3, SoundStep
<1>2. CASE /\ RecordAudit(p, Entry("event.rejected",
                                   IF Item(p) \in WellFormed THEN IdOf[Item(p)] ELSE NoId))
           /\ Settle(p, [status |-> "rejected", code |-> "VALIDATION_FAILED"])
  <2>1. (IF Item(p) \in WellFormed THEN IdOf[Item(p)] ELSE NoId) \in Nat
    BY <1>0, ItemIsItem DEF NoId
  <2>2. \A e \in trail' : e.action # "event.rejected" => e.id \in Arrived'
    BY <1>2, <2>1, AuditRecorded DEF Actions, SayInv
  <2>3. Recorded'
    BY <1>0, <2>2, RecordedStays DEF SayInv, Recorded
  <2>4. accepted' = accepted
    BY <1>2 DEF Settle
  <2> QED BY <1>2, <2>3, <2>4, Settled, SoundStep
<1> QED BY <1>1, <1>2 DEF Decode

LEMMA SaveSound ==
  ASSUME TypeInv, FileInv, TypeInv', SayInv, Grown, NEW p \in Producers, Save(p)
  PROVE  SayInv'
<1>0. /\ UNCHANGED <<projected, incidents, trail, store>> /\ Streamed' = Streamed
      /\ event[p] \in Nat
  BY DEF Save, views, bus, Streamed, service, TypeInv, HandsTyped
<1>1. Recorded'
  BY <1>0, RecordedStays DEF SayInv, Recorded
<1>2. CASE File(event[p]) /\ Saved(p)
  <2>1. event[p] \in Filed' /\ event[p] \in Arrived'
    BY <1>0, <1>2, FileKeepsFileInv DEF TypeInv
  <2>2. /\ stage'[p] = "project" /\ event'[p] = event[p] /\ mark'[p] = Len(arrivals')
        /\ \A q \in Producers \ {p} : /\ stage'[q] = stage[q] /\ event'[q] = event[q]
                                      /\ mark'[q] = mark[q] /\ degraded'[q] = degraded[q]
        /\ accepted' = accepted
    BY <1>2 DEF Saved, TypeInv, HandsTyped
  <2>3. SoundHand(p)'
    BY <2>1, <2>2 DEF SoundHand, Known, Grown
  <2> QED BY <1>1, <2>2, <2>3, SoundStep
<1>3. CASE Settle(p, [status |-> "rejected", code |-> "INTERNAL"])
  <2>1. accepted' = accepted
    BY <1>3 DEF Settle
  <2> QED BY <1>1, <1>3, <2>1, Settled, SoundStep
<1> QED BY <1>2, <1>3 DEF Save

LEMMA ProjectSound ==
  ASSUME TypeInv, SayInv, Grown, NEW p \in Producers, Project(p)
  PROVE  SayInv'
<1>0. /\ stage[p] = "project" /\ event[p] \in Nat /\ UNCHANGED <<incidents, accepted>>
      /\ Streamed' = Streamed /\ projected' = projected \union {event[p]}
      /\ stage'[p] = "publish" /\ UNCHANGED <<event, mark, degraded>>
      /\ \A q \in Producers \ {p} : stage'[q] = stage[q]
  BY DEF Project, bus, Streamed, TypeInv, HandsTyped
<1>1. Known(event[p], mark[p])'
  BY <1>0, SaidStaysTrue DEF SayInv, SoundHand, Known
<1>2. event[p] \in Arrived'
  BY <1>0, <1>1 DEF Known
<1>3. \A e \in trail' : e.action # "event.rejected" => e.id \in Arrived'
  <2>1. CASE RecordAudit(p, Entry("event.label_quarantined", event[p]))
    BY <1>0, <1>2, <2>1, AuditRecorded DEF Actions, SayInv
  <2>2. CASE UNCHANGED trail
    BY <2>2 DEF SayInv, Recorded, Grown
  <2> QED BY <2>1, <2>2 DEF Project
<1>4. Recorded'
  BY <1>0, <1>2, <1>3 DEF SayInv, Recorded, Grown
<1>5. SoundHand(p)'
  BY <1>0, <1>1 DEF SoundHand
<1> QED BY <1>0, <1>4, <1>5, SoundStep

LEMMA PublishSound ==
  ASSUME TypeInv, StreamInv, SayInv, Grown, NEW p \in Producers, Publish(p)
  PROVE  SayInv'
<1>0. /\ stage[p] = "publish" /\ stage' = [stage EXCEPT ![p] = "correlate"]
      /\ event[p] \in Nat
      /\ UNCHANGED <<files, views, trail, event, mark, accepted>>
      /\ Deliver(event[p]) \/ UNCHANGED stream
      /\ \/ degraded' = [degraded EXCEPT ![p] = degraded[p] \union {"event_bus"}]
         \/ degraded' = degraded /\ (transport = "nats" => Deliver(event[p]))
  BY PublishIs DEF TypeInv, HandsTyped
<1>1. /\ stage'[p] = "correlate" /\ event'[p] = event[p] /\ mark'[p] = mark[p]
      /\ \A q \in Producers \ {p} : /\ stage'[q] = stage[q] /\ event'[q] = event[q]
                                    /\ mark'[q] = mark[q] /\ degraded'[q] = degraded[q]
  BY <1>0 DEF TypeInv, HandsTyped
<1>2. Known(event[p], mark[p]) /\ Known(event[p], mark[p])'
  BY <1>0, <1>1, SaidStaysTrue DEF SayInv, SoundHand, Known
<1>3. Deliver(event[p]) => Streamed' = Streamed \union {event[p]}
  BY <1>0, DeliverKeepsStreamInv
<1>4. Told(event[p], degraded[p])'
  <2>1. CASE degraded' = [degraded EXCEPT ![p] = degraded[p] \union {"event_bus"}]
    <3>1. "event_bus" \in degraded'[p]
      BY <2>1 DEF TypeInv, HandsTyped
    <3> QED BY <3>1 DEF Told
  <2>2. CASE degraded' = degraded /\ (transport = "nats" => Deliver(event[p]))
    <3>1. transport = "nats" => event[p] \in Streamed'
      BY <1>3, <2>2
    <3> QED BY <1>0, <1>1, <3>1 DEF Told, Grown, service
  <2> QED BY <1>0, <2>1, <2>2
<1>5. Recorded'
  <2>1. Streamed' \subseteq Streamed \union {event[p]}
    BY <1>0, <1>3 DEF Streamed
  <2>2. event[p] \in Arrived /\ Arrived' = Arrived
    BY <1>0, <1>2 DEF Known, Arrived, files
  <2>3. projected' = projected /\ incidents' = incidents /\ trail' = trail
    BY <1>0 DEF views
  <2>4. Recorded
    BY DEF SayInv
  <2> QED BY <2>1, <2>2, <2>3, <2>4 DEF Recorded
<1>6. SoundHand(p)'
  BY <1>0, <1>1, <1>2, <1>4 DEF SoundHand, Told
<1> QED BY <1>0, <1>1, <1>5, <1>6, SoundStep

LEMMA CorrelateSound ==
  ASSUME TypeInv, SayInv, Grown, NEW p \in Producers, Correlate(p)
  PROVE  SayInv'
<1>0. /\ stage[p] = "correlate" /\ event[p] \in Nat
      /\ stage' = [stage EXCEPT ![p] = "trail"]
      /\ UNCHANGED <<projected, event, mark, accepted>> /\ Streamed' = Streamed
  BY DEF Correlate, bus, Streamed, TypeInv, HandsTyped
<1>1. degraded' = degraded
      \/ degraded' = [degraded EXCEPT ![p] = degraded[p] \union {"correlation"}]
  BY DEF Correlate
<1>2. /\ stage'[p] = "trail" /\ event'[p] = event[p] /\ mark'[p] = mark[p]
      /\ degraded[p] \subseteq degraded'[p]
      /\ \A q \in Producers \ {p} : /\ stage'[q] = stage[q] /\ event'[q] = event[q]
                                    /\ mark'[q] = mark[q] /\ degraded'[q] = degraded[q]
  BY <1>0, <1>1 DEF TypeInv, HandsTyped
<1>3. Known(event[p], mark[p])' /\ Told(event[p], degraded[p])
  BY <1>0, SaidStaysTrue DEF SayInv, SoundHand, Known
<1>4. event[p] \in Arrived'
  BY <1>0, <1>3 DEF Known
<1>5. SoundHand(p)'
  <2>1. transport' = transport /\ Streamed' = Streamed
    BY <1>0 DEF Grown, service
  <2> QED BY <1>0, <1>2, <1>3, <2>1 DEF SoundHand, Told
<1>6. \A e \in trail' : e.action # "event.rejected" => e.id \in Arrived'
  <2>1. CASE RecordAudit(p, Entry("incident.updated", event[p]))
    BY <1>0, <1>4, <2>1, AuditRecorded DEF Actions, SayInv
  <2>2. CASE RecordAudit(p, Entry("correlation.failed", event[p]))
    BY <1>0, <1>4, <2>2, AuditRecorded DEF Actions, SayInv
  <2>3. CASE UNCHANGED trail
    BY <2>3 DEF SayInv, Recorded, Grown
  <2>4. CASE IncidentLost(p)
    <3>1. trail' \subseteq trail \union {Entry("correlation.failed", event[p])}
      BY <1>0, <2>4, LostTyped
    <3> QED BY <1>4, <3>1 DEF SayInv, Recorded, Grown, Entry
  <2> QED BY <2>1, <2>2, <2>3, <2>4 DEF Correlate
<1>7. incidents' \subseteq incidents \union {event[p]}
  BY DEF Correlate, IncidentLost
<1>8. Recorded'
  BY <1>0, <1>4, <1>6, <1>7 DEF SayInv, Recorded, Grown
<1> QED BY <1>0, <1>2, <1>5, <1>8, SoundStep

LEMMA IngestedSound ==
  ASSUME TypeInv, SayInv, Grown, NEW p \in Producers, Ingested(p)
  PROVE  SayInv'
<1> DEFINE result == [status |-> "accepted", id |-> event[p], degraded |-> degraded[p],
                      mark |-> mark[p]]
<1>0. /\ stage[p] = "trail" /\ event[p] \in Nat
      /\ RecordAudit(p, Entry("event.ingested", event[p])) /\ Settle(p, result)
      /\ UNCHANGED <<projected, incidents>> /\ Streamed' = Streamed
  BY DEF Ingested, views, bus, Streamed, TypeInv, HandsTyped
<1>1. Known(event[p], mark[p]) /\ Told(event[p], degraded[p])
  BY <1>0 DEF SayInv, SoundHand
<1>2. ASSUME NEW a, a = result PROVE SoundAnswer(a)'
  <2>1. a.id = event[p] /\ a.mark = mark[p] /\ a.degraded = degraded[p]
    BY <1>2
  <2>2. Known(a.id, a.mark) /\ Told(a.id, a.degraded)
    BY <1>1, <2>1
  <2> QED BY <2>2, SaidStaysTrue DEF SoundAnswer
<1>3. event[p] \in Arrived'
  BY <1>1 DEF Known, Grown
<1>4. \A e \in trail' : e.action # "event.rejected" => e.id \in Arrived'
  BY <1>0, <1>3, AuditRecorded DEF Actions, SayInv
<1>5. Recorded'
  BY <1>0, <1>4, RecordedStays DEF SayInv, Recorded
<1>6. accepted' = accepted \union {result}
  BY <1>0 DEF Settle
<1> QED BY <1>0, <1>2, <1>5, <1>6, Settled, SoundStep

LEMMA RequestSound ==
  ASSUME TypeInv, SayInv, Grown, NEW p \in Producers,
         Answer(p) \/ HangUp(p) \/ \E r \in RequestsOf[p] : Post(p, r)
  PROVE  SayInv'
<1>1. /\ UNCHANGED <<projected, incidents, trail, accepted, event, mark, degraded>>
      /\ Streamed' = Streamed
  BY DEF Answer, HangUp, Post, views, bus, Streamed
<1>2. /\ stage'[p] = stage[p] \/ stage'[p] \in {"idle", "decode"}
      /\ \A q \in Producers \ {p} : stage'[q] = stage[q]
  BY DEF Answer, HangUp, Post, TypeInv, HandsTyped
<1>3. SoundHand(p)'
  <2>1. CASE stage'[p] = stage[p]
    BY <1>1, <2>1, SaidStaysTrue DEF SayInv, SoundHand
  <2>2. CASE stage'[p] \in {"idle", "decode"}
    BY <2>2 DEF SoundHand
  <2> QED BY <1>2, <2>1, <2>2
<1>4. Recorded'
  BY <1>1, RecordedStays DEF SayInv, Recorded
<1> QED BY <1>1, <1>2, <1>3, <1>4, SoundStep

LEMMA WorldSound ==
  ASSUME TypeInv, SayInv, Grown, Tick \/ BusFails \/ BusReturns \/ UNCHANGED vars
  PROVE  SayInv'
<1>1. /\ UNCHANGED <<projected, incidents, trail, accepted, stage, event, mark, degraded>>
      /\ Streamed' = Streamed
  BY DEF Tick, BusFails, BusReturns, vars, views, bus, hands, Streamed
<1>2. Recorded'
  BY <1>1, RecordedStays DEF SayInv, Recorded
<1>3. \A q \in Producers : SoundHand(q)'
  BY <1>1, SaidStaysTrue DEF SayInv, SoundHand
<1>4. \A a \in accepted : SoundAnswer(a)'
  BY SaidStaysTrue DEF SayInv, SoundAnswer
<1> QED BY <1>1, <1>2, <1>3, <1>4 DEF SayInv

-----------------------------------------------------------------------------
(* What the trail tells                                                    *)

Handled == {"project", "publish", "correlate", "trail"}

(* Which item the event in hand is.                                        *)
OwnId(p) ==
  stage[p] = "save" \/ stage[p] \in Handled =>
    event[p] = IdOf[Item(p)] \/ event[p] >= FirstFresh

InHandling(ev) == \E p \in Producers : event[p] = ev /\ stage[p] \in Handled

InProjection(ev) == \E p \in Producers : event[p] = ev /\ stage[p] = "project"

Accounted ==
  /\ \A p \in Producers : ~gone[p]
  /\ \A ev \in Arrived : Entry("event.ingested", ev) \in trail \/ InHandling(ev)
  /\ \A ev \in incidents : Entry("incident.updated", ev) \in trail
  /\ \A ev \in Arrived : OnlyReserved(ev) =>
       Entry("event.label_quarantined", ev) \in trail \/ InProjection(ev)

TellInv ==
  /\ fresh >= FirstFresh
  /\ \A p \in Producers : OwnId(p)
  /\ failures = 0 => Accounted

(* A store call that fails is a failure now, or that of a client who left. *)
LEMMA FailureStays ==
  ASSUME TypeInv, TellInv, NEW p \in Producers, StoreFails(p)
  PROVE  failures' # 0
<1>1. failures \in Nat
  BY IngestBounds DEF TypeInv, WorldTyped
<1>2. CASE gone[p] /\ UNCHANGED failures
  BY <1>2 DEF TellInv, Accounted
<1>3. CASE Fault
  <2>1. failures' = failures + 1
    BY <1>3 DEF Fault
  <2> QED BY <1>1, <2>1
<1> QED BY <1>2, <1>3 DEF StoreFails

(* No step takes a failure back, or an entry out of the trail; and where   *)
(* nothing fails, every entry is written.                                  *)
LEMMA AuditTells ==
  ASSUME TypeInv, TellInv, NEW p \in Producers, NEW entry, RecordAudit(p, entry)
  PROVE  /\ trail \subseteq trail'
         /\ failures' = 0 => failures = 0 /\ entry \in trail'
<1>1. CASE StoreWorks(p) /\ trail' = trail \union {entry}
  BY <1>1 DEF StoreWorks
<1>2. CASE StoreFails(p) /\ UNCHANGED trail
  BY <1>2, FailureStays
<1> QED BY <1>1, <1>2 DEF RecordAudit

(* What a request must account for in a step of its own.                   *)
LEMMA OneTells ==
  ASSUME TypeInv, TellInv, NEW p \in Producers,
         \A q \in Producers \ {p} :
           /\ stage'[q] = stage[q] /\ event'[q] = event[q] /\ done'[q] = done[q]
           /\ request'[q] = request[q] /\ gone'[q] = gone[q],
         fresh' >= fresh, fresh' \in Nat, trail \subseteq trail', OwnId(p)',
         failures' = 0 =>
           /\ failures = 0 /\ ~gone'[p]
           /\ \A ev \in Arrived' :
                ev \notin Arrived \/ (event[p] = ev /\ stage[p] \in Handled) =>
                  \/ Entry("event.ingested", ev) \in trail'
                  \/ event'[p] = ev /\ stage'[p] \in Handled
           /\ \A ev \in incidents' \ incidents : Entry("incident.updated", ev) \in trail'
           /\ \A ev \in Arrived' :
                OnlyReserved(ev) /\ (ev \notin Arrived \/ (event[p] = ev /\ stage[p] = "project")) =>
                  \/ Entry("event.label_quarantined", ev) \in trail'
                  \/ event'[p] = ev /\ stage'[p] = "project"
  PROVE  TellInv'
<1>1. fresh' >= FirstFresh
  BY ItemsAreRaw DEF TellInv, TypeInv, WorldTyped
<1>2. ASSUME NEW q \in Producers \ {p} PROVE OwnId(q)'
  BY DEF TellInv, OwnId, Item
<1>3. ASSUME failures' = 0 PROVE Accounted'
  <2>0. Accounted
    BY <1>3 DEF TellInv
  <2>1. \A q \in Producers : ~gone'[q]
    BY <1>3, <2>0 DEF Accounted
  <2>2. ASSUME NEW ev \in Arrived'
        PROVE  \/ Entry("event.ingested", ev) \in trail'
               \/ \E q \in Producers : event'[q] = ev /\ stage'[q] \in Handled
    <3>1. CASE ev \in Arrived /\ Entry("event.ingested", ev) \in trail
      BY <3>1
    <3>2. ASSUME NEW q \in Producers, event[q] = ev, stage[q] \in Handled, q # p
          PROVE  event'[q] = ev /\ stage'[q] \in Handled
      BY <3>2
    <3>3. CASE ev \notin Arrived \/ (event[p] = ev /\ stage[p] \in Handled)
      BY <1>3, <3>3
    <3> QED BY <2>0, <3>1, <3>2, <3>3 DEF Accounted, InHandling
  <2>3. \A ev \in incidents' : Entry("incident.updated", ev) \in trail'
    BY <1>3, <2>0 DEF Accounted
  <2>4. ASSUME NEW ev \in Arrived', OnlyReserved(ev)
        PROVE  \/ Entry("event.label_quarantined", ev) \in trail'
               \/ \E q \in Producers : event'[q] = ev /\ stage'[q] = "project"
    <3>1. CASE ev \in Arrived /\ Entry("event.label_quarantined", ev) \in trail
      BY <3>1
    <3>2. ASSUME NEW q \in Producers, event[q] = ev, stage[q] = "project", q # p
          PROVE  event'[q] = ev /\ stage'[q] = "project"
      BY <3>2
    <3>3. CASE ev \notin Arrived \/ (event[p] = ev /\ stage[p] = "project")
      BY <1>3, <2>4, <3>3
    <3> QED BY <2>0, <2>4, <3>1, <3>2, <3>3 DEF Accounted, InProjection
  <2> QED BY <2>1, <2>2, <2>3, <2>4 DEF Accounted, InHandling, InProjection, Entry, OnlyReserved
<1>4. \A q \in Producers : OwnId(q)'
  BY <1>2
<1> QED BY <1>1, <1>3, <1>4 DEF TellInv

LEMMA DecodeTells ==
  ASSUME TypeInv, TellInv, NEW p \in Producers, Decode(p)
  PROVE  TellInv'
<1>0. /\ stage[p] = "decode" /\ Item(p) \in Items /\ IdOf[Item(p)] \in Nat
      /\ UNCHANGED <<files, views, request, gone>> /\ fresh \in Nat /\ failures \in Nat
      /\ stage[p] \notin Handled /\ Arrived' = Arrived /\ fresh >= FirstFresh /\ FirstFresh \in Nat
  BY ItemIsItem, IngestBounds, ItemsAreRaw
     DEF Decode, AtItem, TypeInv, WorldTyped, Handled, Arrived, files, TellInv
<1>1. /\ stage \in [Producers -> Stages] /\ event \in [Producers -> Nat]
      /\ done \in [Producers -> Seq(Results)] /\ gone \in [Producers -> BOOLEAN]
  BY DEF TypeInv, HandsTyped
<1>2. CASE /\ event' = [event EXCEPT ![p] = IF IdOf[Item(p)] = NoId THEN fresh ELSE IdOf[Item(p)]]
           /\ fresh' = IF IdOf[Item(p)] = NoId THEN fresh + 1 ELSE fresh
           /\ stage' = [stage EXCEPT ![p] = "save"]
           /\ UNCHANGED <<trail, done, mark, degraded, accepted, failures>>
  <2>1. fresh' >= fresh /\ fresh' \in Nat
    BY <1>0, <1>2
  <2>2. event'[p] = IdOf[Item(p)] \/ event'[p] >= FirstFresh
    BY <1>0, <1>1, <1>2
  <2>3. OwnId(p)'
    BY <1>0, <1>2, <2>2 DEF OwnId, Item
  <2>4. failures' = 0 => failures = 0 /\ ~gone'[p]
    BY <1>0, <1>2 DEF TellInv, Accounted
  <2> QED BY <1>0, <1>1, <1>2, <2>1, <2>3, <2>4, OneTells DEF views, Handled
<1>3. CASE /\ RecordAudit(p, Entry("event.rejected",
                                   IF Item(p) \in WellFormed THEN IdOf[Item(p)] ELSE NoId))
           /\ Settle(p, [status |-> "rejected", code |-> "VALIDATION_FAILED"])
           /\ UNCHANGED fresh
  <2>1. trail \subseteq trail' /\ (failures' = 0 => failures = 0)
    BY <1>3, AuditTells
  <2>2. stage'[p] \in {"decode", "answer"}
    BY <1>1, <1>3 DEF Settle
  <2>3. OwnId(p)'
    BY <2>2 DEF OwnId, Handled
  <2>4. failures' = 0 => failures = 0 /\ ~gone'[p]
    BY <1>0, <2>1 DEF TellInv, Accounted
  <2>5. \A q \in Producers \ {p} : stage'[q] = stage[q] /\ event'[q] = event[q] /\ done'[q] = done[q]
    BY <1>1, <1>3 DEF Settle
  <2>6. fresh' >= fresh /\ fresh' \in Nat /\ UNCHANGED <<incidents, request, gone>>
    BY <1>0, <1>3 DEF views
  <2> QED BY <1>0, <2>1, <2>3, <2>4, <2>5, <2>6, OneTells
<1> QED BY <1>2, <1>3 DEF Decode

(* Only File adds to the arrivals, and only the event that is saved.       *)
LEMMA FileAdds ==
  ASSUME TypeInv, NEW ev \in Nat, File(ev) \/ UNCHANGED files
  PROVE  Arrived' \subseteq Arrived \union {ev}
<1>1. CASE UNCHANGED files
  BY <1>1 DEF files, Arrived
<1>2. CASE arrivals' = Append(arrivals, ev)
  <2>1. arrivals \in Seq(Nat)
    BY DEF TypeInv, FilesTyped
  <2>2. /\ Len(arrivals) \in Nat /\ DOMAIN arrivals = 1..Len(arrivals)
        /\ Append(arrivals, ev) \in Seq(Nat)
        /\ Len(Append(arrivals, ev)) = Len(arrivals) + 1
        /\ \A i \in 1..Len(arrivals) : Append(arrivals, ev)[i] = arrivals[i]
        /\ Append(arrivals, ev)[Len(arrivals) + 1] = ev
    BY <2>1, LenProperties, AppendProperties
  <2>3. DOMAIN arrivals' = 1..(Len(arrivals) + 1)
    BY <1>2, <2>2, LenProperties
  <2>4. \A i \in 1..(Len(arrivals) + 1) : i \in 1..Len(arrivals) \/ i = Len(arrivals) + 1
    BY <2>2
  <2> QED BY <1>2, <2>2, <2>3, <2>4 DEF Arrived
<1> QED BY <1>1, <1>2 DEF File

LEMMA SaveTells ==
  ASSUME TypeInv, TellInv, NEW p \in Producers, Save(p)
  PROVE  TellInv'
<1>0. /\ stage[p] = "save" /\ event[p] \in Nat /\ failures \in Nat
      /\ UNCHANGED <<views, trail, fresh, request, gone>> /\ fresh \in Nat
      /\ stage[p] \notin Handled
  BY IngestBounds DEF Save, TypeInv, WorldTyped, HandsTyped, Handled
<1>1. /\ stage \in [Producers -> Stages] /\ event \in [Producers -> Nat]
      /\ done \in [Producers -> Seq(Results)] /\ gone \in [Producers -> BOOLEAN]
  BY DEF TypeInv, HandsTyped
<1>2. CASE StoreWorks(p) /\ File(event[p]) /\ Saved(p)
  <2>1. /\ stage' = [stage EXCEPT ![p] = "project"] /\ UNCHANGED <<event, done, failures>>
    BY <1>2 DEF Saved, StoreWorks
  <2>2. Arrived' \subseteq Arrived \union {event[p]}
    BY <1>0, <1>2, FileAdds
  <2>3. stage'[p] = "project" /\ event'[p] = event[p]
    BY <1>1, <2>1
  <2>4. OwnId(p)'
    BY <1>0, <2>1, <2>3 DEF TellInv, OwnId, Item
  <2>5. failures' = 0 => failures = 0 /\ ~gone'[p]
    BY <1>0, <2>1 DEF TellInv, Accounted
  <2>6. \A ev \in Arrived' : ev \notin Arrived \/ (event[p] = ev /\ stage[p] \in Handled) =>
          event'[p] = ev /\ stage'[p] = "project" /\ stage'[p] \in Handled
    BY <1>0, <2>2, <2>3 DEF Handled
  <2>7. \A q \in Producers \ {p} : stage'[q] = stage[q] /\ event'[q] = event[q] /\ done'[q] = done[q]
    BY <1>1, <2>1
  <2> QED BY <1>0, <1>1, <2>3, <2>4, <2>5, <2>6, <2>7, OneTells DEF views
<1>3. CASE /\ StoreFails(p)
           /\ Settle(p, [status |-> "rejected", code |-> "INTERNAL"])
  <2>1. failures' # 0
    <3>1. CASE gone[p] /\ UNCHANGED failures
      BY <3>1 DEF TellInv, Accounted
    <3>2. CASE Fault
      BY <1>0, <3>2 DEF Fault
    <3> QED BY <1>3, <3>1, <3>2 DEF StoreFails
  <2>2. stage'[p] \in {"decode", "answer"}
    BY <1>1, <1>3 DEF Settle
  <2>3. OwnId(p)'
    BY <2>2 DEF OwnId, Handled
  <2>5. \A q \in Producers \ {p} : stage'[q] = stage[q] /\ event'[q] = event[q] /\ done'[q] = done[q]
    BY <1>1, <1>3 DEF Settle
  <2> QED BY <1>0, <1>1, <2>1, <2>3, <2>5, OneTells
<1> QED BY <1>2, <1>3 DEF Save

(* A request that moves on with its event to a later stage.                *)
LEMMA MoveTells ==
  ASSUME TypeInv, TellInv, NEW p \in Producers, NEW next \in Handled,
         stage[p] \in Handled, stage' = [stage EXCEPT ![p] = next],
         UNCHANGED <<files, fresh, request, done, event, gone>>,
         trail \subseteq trail',
         failures' = 0 =>
           /\ failures = 0
           /\ \A ev \in incidents' \ incidents : Entry("incident.updated", ev) \in trail'
           /\ stage[p] = "project" /\ OnlyReserved(event[p]) /\ event[p] \in Arrived =>
                Entry("event.label_quarantined", event[p]) \in trail'
  PROVE  TellInv'
<1>1. /\ stage \in [Producers -> Stages] /\ event \in [Producers -> Nat]
      /\ Arrived' = Arrived /\ fresh \in Nat
  BY DEF TypeInv, HandsTyped, WorldTyped, Arrived, files
<1>2. stage'[p] = next /\ event'[p] = event[p]
  BY <1>1
<1>3. OwnId(p)'
  BY <1>2 DEF TellInv, OwnId, Item
<1>4. failures' = 0 => failures = 0 /\ ~gone'[p]
  BY DEF TellInv, Accounted
<1>5. \A q \in Producers \ {p} : stage'[q] = stage[q]
  BY <1>1
<1> QED BY <1>1, <1>2, <1>3, <1>4, <1>5, OneTells

LEMMA ProjectTells ==
  ASSUME TypeInv, TellInv, NEW p \in Producers, Project(p)
  PROVE  TellInv'
<1>0. /\ stage[p] = "project" /\ stage[p] \in Handled /\ "publish" \in Handled
      /\ Item(p) \in Items /\ event[p] \in Nat /\ IdOf[Item(p)] \in Nat
      /\ UNCHANGED <<files, incidents, fresh, request, done, event, gone>>
      /\ stage' = [stage EXCEPT ![p] = "publish"]
  BY ItemIsItem DEF Project, AtItem, Handled, TypeInv, HandsTyped
<1>1. CASE Item(p) \in Reserved /\ RecordAudit(p, Entry("event.label_quarantined", event[p]))
  BY <1>0, <1>1, AuditTells, MoveTells
<1>2. CASE Item(p) \notin Reserved /\ UNCHANGED <<trail, failures>>
  <2>1. event[p] = IdOf[Item(p)] \/ event[p] >= FirstFresh
    BY <1>0 DEF TellInv, OwnId
  <2>2. ~OnlyReserved(event[p])
    <3>1. CASE event[p] = IdOf[Item(p)]
      BY <1>0, <1>2, <3>1 DEF OnlyReserved
    <3>2. CASE event[p] >= FirstFresh
      <4>1. \A i \in Items : IdOf[i] \in Nat /\ IdOf[i] < FirstFresh /\ FirstFresh \in Nat
        BY ItemsAreRaw
      <4>2. \A i \in Items : IdOf[i] # event[p]
        BY <1>0, <3>2, <4>1
      <4> QED BY <4>2 DEF OnlyReserved
    <3> QED BY <2>1, <3>1, <3>2
  <2> QED BY <1>0, <1>2, <2>2, MoveTells
<1> QED BY <1>1, <1>2 DEF Project

LEMMA PublishTells ==
  ASSUME TypeInv, TellInv, NEW p \in Producers, Publish(p)
  PROVE  TellInv'
<1>0. /\ stage[p] = "publish" /\ stage[p] \in Handled /\ "correlate" \in Handled
      /\ stage' = [stage EXCEPT ![p] = "correlate"]
      /\ UNCHANGED <<files, views, trail, fresh, request, done, event, gone>>
  BY DEF Publish, Handled
<1>1. failures \in Nat
  BY IngestBounds DEF TypeInv, WorldTyped
<1>2. failures' = 0 => failures = 0
  BY <1>1 DEF Publish, Published, PublishFails, Fault
<1> QED BY <1>0, <1>2, MoveTells DEF views

LEMMA CorrelateTells ==
  ASSUME TypeInv, TellInv, NEW p \in Producers, Correlate(p)
  PROVE  TellInv'
<1>0. /\ stage[p] = "correlate" /\ stage[p] \in Handled /\ "trail" \in Handled
      /\ stage' = [stage EXCEPT ![p] = "trail"]
      /\ UNCHANGED <<files, fresh, request, done, event, gone>>
  BY DEF Correlate, Handled
<1>1. CASE UNCHANGED <<incidents, trail, failures>>
  BY <1>0, <1>1, MoveTells
<1>2. CASE /\ incidents' = incidents \union {event[p]}
           /\ RecordAudit(p, Entry("incident.updated", event[p]))
  BY <1>0, <1>2, AuditTells, MoveTells
<1>3. CASE /\ RecordAudit(p, Entry("correlation.failed", event[p]))
           /\ UNCHANGED incidents
  BY <1>0, <1>3, AuditTells, MoveTells
<1>4. CASE IncidentLost(p)
  <2>1. trail \subseteq trail'
    BY <1>4 DEF IncidentLost
  <2>2. failures' # 0
    BY <1>4, FailureStays DEF IncidentLost
  <2> QED BY <1>0, <2>1, <2>2, MoveTells
<1> QED BY <1>1, <1>2, <1>3, <1>4 DEF Correlate

LEMMA IngestedTells ==
  ASSUME TypeInv, TellInv, NEW p \in Producers, Ingested(p)
  PROVE  TellInv'
<1> DEFINE result == [status |-> "accepted", id |-> event[p], degraded |-> degraded[p],
                      mark |-> mark[p]]
<1>0. /\ stage[p] = "trail" /\ RecordAudit(p, Entry("event.ingested", event[p]))
      /\ Settle(p, result) /\ UNCHANGED <<files, views, fresh, request, gone>>
  BY DEF Ingested
<1>1. /\ stage \in [Producers -> Stages] /\ event \in [Producers -> Nat]
      /\ done \in [Producers -> Seq(Results)] /\ gone \in [Producers -> BOOLEAN]
      /\ Arrived' = Arrived /\ fresh \in Nat
  BY <1>0 DEF TypeInv, HandsTyped, WorldTyped, Arrived, files
<1>2. /\ trail \subseteq trail'
      /\ failures' = 0 => failures = 0 /\ Entry("event.ingested", event[p]) \in trail'
  BY <1>0, AuditTells
<1>3. stage'[p] \in {"decode", "answer"}
  BY <1>0, <1>1 DEF Settle
<1>4. OwnId(p)'
  BY <1>3 DEF OwnId, Handled
<1>5. failures' = 0 => failures = 0 /\ ~gone'[p]
  BY <1>0, <1>2 DEF TellInv, Accounted
<1>6. \A q \in Producers \ {p} : stage'[q] = stage[q] /\ event'[q] = event[q] /\ done'[q] = done[q]
  BY <1>0, <1>1 DEF Settle
<1> QED BY <1>0, <1>1, <1>2, <1>4, <1>5, <1>6, OneTells DEF views

LEMMA RequestTells ==
  ASSUME TypeInv, TellInv, NEW p \in Producers,
         Answer(p) \/ HangUp(p) \/ \E r \in RequestsOf[p] : Post(p, r)
  PROVE  TellInv'
<1>0. /\ UNCHANGED <<files, views, trail, fresh, event>> /\ fresh \in Nat /\ failures \in Nat
      /\ Arrived' = Arrived
  BY IngestBounds DEF Answer, HangUp, Post, TypeInv, WorldTyped, files, Arrived
<1>1. /\ stage \in [Producers -> Stages] /\ request = [q \in Producers |-> request[q]]
      /\ done \in [Producers -> Seq(Results)] /\ gone \in [Producers -> BOOLEAN]
  BY DEF TypeInv, HandsTyped
<1>2. /\ stage[p] \notin Handled /\ stage'[p] \in {"idle", "decode"}
      \/ HangUp(p)
      \/ UNCHANGED <<stage, request, done, gone, failures>>
  BY <1>1 DEF Answer, Post, Handled
<1>3. CASE HangUp(p)
  <2>1. failures' # 0
    BY <1>0, <1>3 DEF HangUp, Fault
  <2>2. OwnId(p)'
    BY <1>3 DEF HangUp, TellInv, OwnId, Item
  <2>3. /\ UNCHANGED <<stage, request, done>>
        /\ \A q \in Producers \ {p} : gone'[q] = gone[q]
    BY <1>1, <1>3 DEF HangUp
  <2> QED BY <1>0, <2>1, <2>2, <2>3, OneTells
<1>4. CASE UNCHANGED <<stage, request, done, gone, failures>>
  <2>1. OwnId(p)'
    BY <1>0, <1>4 DEF TellInv, OwnId, Item
  <2>2. failures' = 0 => failures = 0 /\ ~gone'[p]
    BY <1>4 DEF TellInv, Accounted
  <2> QED BY <1>0, <1>4, <2>1, <2>2, OneTells DEF views
<1>5. CASE ~HangUp(p) /\ stage[p] \notin Handled /\ stage'[p] \in {"idle", "decode"}
  <2>1. OwnId(p)'
    BY <1>5 DEF OwnId, Handled
  <2>2. failures' = failures /\ (gone' = gone \/ gone' = [gone EXCEPT ![p] = FALSE])
    BY <1>5 DEF Answer, Post, counts
  <2>3. failures' = 0 => failures = 0 /\ ~gone'[p]
    BY <1>1, <2>2 DEF TellInv, Accounted
  <2>4. \A q \in Producers \ {p} : request'[q] = request[q]
    <3>1. request' = request \/ \E r : request' = [request EXCEPT ![p] = r]
      BY <1>5 DEF Answer, Post
    <3> QED BY <1>1, <3>1, Zenon
  <2>5. \A q \in Producers \ {p} : /\ stage'[q] = stage[q] /\ done'[q] = done[q]
                                   /\ gone'[q] = gone[q]
    BY <1>1, <1>5, <2>2 DEF Answer, Post
  <2> QED BY <1>0, <1>5, <2>1, <2>3, <2>4, <2>5, OneTells DEF views, Handled
<1> QED BY <1>2, <1>3, <1>4, <1>5

LEMMA WorldTells ==
  ASSUME TypeInv, TellInv, Tick \/ BusFails \/ BusReturns \/ UNCHANGED vars
  PROVE  TellInv'
<1>1. /\ UNCHANGED <<files, views, trail, fresh, stage, request, done, event, gone>>
      /\ Arrived' = Arrived
  BY DEF Tick, BusFails, BusReturns, vars, bus, hands, files, Arrived
<1>2. failures' = 0 => failures = 0
  <2>1. failures' = failures \/ failures' = failures + 1
    BY DEF Tick, BusFails, BusReturns, Fault, vars, counts
  <2>2. failures \in Nat
    BY IngestBounds DEF TypeInv, WorldTyped
  <2> QED BY <2>1, <2>2
<1> QED BY <1>1, <1>2 DEF TellInv, OwnId, Item, Accounted, InHandling, InProjection, views

-----------------------------------------------------------------------------
(* The inductive invariant                                                 *)

IInv == TypeInv /\ FileInv /\ StreamInv /\ SayInv /\ TellInv

LEMMA IInvInit == Init => IInv
<1> SUFFICES ASSUME Init PROVE IInv
  OBVIOUS
<1>1. TypeInv
  BY TypeInit
<1>2. /\ Len(events) = 0 /\ Len(arrivals) = 0 /\ Len(stream) = 0
      /\ Filed = {} /\ Streamed = {} /\ eventIDs = {}
  BY EmptySeq, Lengths, <1>1 DEF Init, Filed, Streamed
<1>3. FileInv
  <2>1. 1..0 = {} /\ MaxEvents \in Nat \ {0}
    BY IngestBounds
  <2> QED BY <1>2, <2>1 DEF FileInv, TableIsTail, ArrivalsApart
<1>4. StreamInv
  BY <1>2 DEF StreamInv
<1>5. SayInv
  BY <1>2 DEF Init, SayInv, SoundHand, Recorded
<1>6. TellInv
  <2>1. Arrived = {} /\ FirstFresh >= FirstFresh
    BY <1>1, <1>2, Lengths, ItemsAreRaw DEF Arrived
  <2> QED BY <2>1 DEF Init, TellInv, OwnId, Accounted, Handled
<1> QED BY <1>1, <1>3, <1>4, <1>5, <1>6 DEF IInv

LEMMA IInvStep == IInv /\ [Next]_vars => IInv'
<1> SUFFICES ASSUME TypeInv, FileInv, StreamInv, SayInv, TellInv, [Next]_vars PROVE IInv'
  BY DEF IInv
<1>1. TypeInv'
  BY TypeStep
<1>2. Grown
  BY <1>1, NextGrows
<1>3. ASSUME NEW p \in Producers, Handle(p) PROVE SayInv'
  BY <1>1, <1>2, <1>3, DecodeSound, SaveSound, ProjectSound, PublishSound, CorrelateSound,
     IngestedSound, RequestSound DEF Handle
<1>4. ASSUME NEW p \in Producers, HangUp(p) \/ \E r \in RequestsOf[p] : Post(p, r)
      PROVE  SayInv'
  BY <1>2, <1>4, RequestSound
<1>5. ASSUME Tick \/ BusFails \/ BusReturns \/ UNCHANGED vars PROVE SayInv'
  BY <1>2, <1>5, WorldSound
<1>6. SayInv'
  BY <1>3, <1>4, <1>5 DEF Next
<1>7. ASSUME NEW p \in Producers, Handle(p) PROVE TellInv'
  BY <1>7, DecodeTells, SaveTells, ProjectTells, PublishTells, CorrelateTells, IngestedTells,
     RequestTells DEF Handle
<1>8. ASSUME NEW p \in Producers, HangUp(p) \/ \E r \in RequestsOf[p] : Post(p, r)
      PROVE  TellInv'
  BY <1>8, RequestTells
<1>9. ASSUME Tick \/ BusFails \/ BusReturns \/ UNCHANGED vars PROVE TellInv'
  BY <1>9, WorldTells
<1>10. TellInv'
  BY <1>7, <1>8, <1>9 DEF Next
<1> QED BY <1>1, <1>2, <1>6, <1>10 DEF IInv, Grown

(* However requests interleave, fail and are retried, a request in hand and *)
(* an answer that was given know no more of an event than is so: it is on   *)
(* file, or was pushed out since, and on the bus unless reported otherwise. *)
THEOREM IngestInvariant == Spec => []IInv
BY IInvInit, IInvStep, PTL DEF Spec

-----------------------------------------------------------------------------
(* What follows                                                            *)

(* The state of the ingest path has the types its handlers give it.        *)
THEOREM TypeCorrect == Spec => []TypeOK
<1>1. IInv => TypeOK
  <2> SUFFICES ASSUME IInv PROVE TypeOK
    OBVIOUS
  <2>1. accepted \subseteq Results
    BY DEF IInv, TypeInv, WorldTyped, Saying, Results
  <2> QED BY <2>1 DEF IInv, TypeInv, Started, FilesTyped, HandsTyped, WorldTyped, FileInv,
                      TableIsTail, TypeOK
<1> QED BY <1>1, IngestInvariant, PTL

(* Service.Ingest: nothing is projected, published, correlated or told to  *)
(* the trail as handled before SaveEvent took it.                          *)
THEOREM StoredBeforeReasoned == Spec => []RecordedFirst
<1>1. IInv => RecordedFirst
  BY DEF IInv, SayInv, SoundAnswer, Known, Recorded, RecordedFirst
<1> QED BY <1>1, IngestInvariant, PTL

(* The largest element of a set of numbers below a bound.                  *)
LEMMA LargestIndex ==
  ASSUME NEW n \in Nat, NEW S \in SUBSET (1..n), S # {}
  PROVE  \E i \in S : \A j \in S : j <= i
<1> DEFINE T == {n - i : i \in S}
<1>0. \A i \in S : n - i \in Nat
  OBVIOUS
<1>1. T \subseteq Nat
  BY <1>0
<1>2. T # {}
  OBVIOUS
<1>3. PICK t \in T : \A x \in T : <<x, t>> \notin OpToRel(<, Nat)
  BY <1>1, <1>2, NatLessThanWellFounded, WFMin
<1>4. \A x \in T : x < t => <<x, t>> \in OpToRel(<, Nat)
  BY <1>1 DEF OpToRel
<1>5. PICK i \in S : t = n - i
  BY <1>3
<1>6. ASSUME NEW j \in S PROVE j <= i
  <2>1. n - j \in T
    OBVIOUS
  <2>2. ~(n - j < n - i)
    BY <1>3, <1>4, <1>5, <2>1
  <2>3. n \in Int /\ i \in Int /\ j \in Int
    OBVIOUS
  <2> QED BY <2>2, <2>3
<1> QED BY <1>6

LEMMA LastArrivalIs ==
  ASSUME TypeInv, NEW ev \in Arrived
  PROVE  LastArrival(ev) \in 1..Len(arrivals) /\ arrivals[LastArrival(ev)] = ev
<1> DEFINE S == {i \in 1..Len(arrivals) : arrivals[i] = ev}
<1>1. Len(arrivals) \in Nat /\ DOMAIN arrivals = 1..Len(arrivals) /\ S \in SUBSET (1..Len(arrivals))
  BY Lengths
<1>2. S # {}
  BY <1>1 DEF Arrived
<1>3. PICK i \in S : \A j \in S : j <= i
  BY <1>1, <1>2, LargestIndex
<1>4. \E k \in DOMAIN arrivals :
        arrivals[k] = ev /\ \A j \in DOMAIN arrivals : arrivals[j] = ev => j <= k
  BY <1>1, <1>3
<1> QED BY <1>1, <1>4 DEF LastArrival

(* The 202, 207 and degraded answers of the ingest handlers: an event said *)
(* to be accepted is on file, or a later one pushed it out of a full       *)
(* in-memory table, and it is on the bus unless the answer said otherwise. *)
THEOREM AcceptedIsKept == Spec => []AnswersAreTrue
<1>1. IInv => AnswersAreTrue
  <2> SUFFICES ASSUME IInv, NEW a \in accepted
               PROVE  /\ a.id \notin Filed => /\ store = "memory"
                                              /\ Len(arrivals) > a.mark
                                              /\ Len(arrivals) - LastArrival(a.id) >= MaxEvents
                      /\ transport = "nats" /\ "event_bus" \notin a.degraded => a.id \in Streamed
    BY DEF AnswersAreTrue
  <2>1. Known(a.id, a.mark) /\ Told(a.id, a.degraded)
    BY DEF IInv, SayInv, SoundAnswer
  <2>2. ASSUME a.id \notin Filed
        PROVE  /\ store = "memory" /\ Len(arrivals) > a.mark
               /\ Len(arrivals) - LastArrival(a.id) >= MaxEvents
    <3> DEFINE k == LastArrival(a.id)
               n == Len(arrivals)
               m == Len(events)
    <3>1. k \in 1..n /\ arrivals[k] = a.id
      BY <2>1, LastArrivalIs DEF IInv, Known
    <3>2. n \in Nat /\ m \in Nat /\ m <= n /\ MaxEvents \in Nat /\ DOMAIN events = 1..m
      BY Lengths, IngestBounds DEF IInv, FileInv, TableIsTail
    <3>3. \A i \in 1..m : events[i] = arrivals[n - m + i]
      BY DEF IInv, FileInv, TableIsTail, Window
    <3>4. k - (n - m) \notin 1..m
      <4>1. ASSUME k - (n - m) \in 1..m PROVE FALSE
        <5>1. n - m + (k - (n - m)) = k
          BY <3>1, <3>2
        <5>2. events[k - (n - m)] = a.id
          BY <3>1, <3>3, <4>1, <5>1
        <5> QED BY <2>2, <3>2, <4>1, <5>2 DEF Filed
      <4> QED BY <4>1
    <3>5. k <= n - m
      BY <3>1, <3>2, <3>4
    <3>6. m < n
      <4>1. k \in Int /\ k >= 1
        BY <3>1, <3>2
      <4> QED BY <3>2, <3>5, <4>1
    <3>7. store = "memory" /\ m >= MaxEvents
      <4>1. /\ store = "postgres" => m = n
            /\ store = "memory" => (m < MaxEvents => m = n)
            /\ store \in {"memory", "postgres"}
        BY DEF IInv, FileInv, TableIsTail, TypeInv, Started
      <4>2. m # n
        BY <3>2, <3>6
      <4>3. store = "memory" /\ ~(m < MaxEvents)
        BY <4>1, <4>2
      <4> QED BY <3>2, <4>3
    <3> QED BY <2>1, <2>2, <3>1, <3>2, <3>5, <3>7 DEF Known
  <2> QED BY <2>1, <2>2 DEF Told
<1> QED BY <1>1, IngestInvariant, PTL

(* SaveEvent and Publish: however often an event is sent, the table holds  *)
(* it once, PostgreSQL takes it once, and JetStream once a window.         *)
THEOREM RetriesChangeNothing == Spec => []RetriesAreAbsorbed
<1>1. IInv => RetriesAreAbsorbed
  <2> SUFFICES ASSUME IInv PROVE RetriesAreAbsorbed
    OBVIOUS
  <2>1. /\ Len(events) \in Nat /\ DOMAIN events = 1..Len(events)
        /\ DOMAIN arrivals = 1..Len(arrivals) /\ DOMAIN stream = 1..Len(stream)
    BY Lengths DEF IInv
  <2>2. \A i, j \in 1..Len(events) : i # j => events[i] # events[j]
    BY DEF IInv, FileInv, TableIsTail
  <2>3. Cardinality(Filed) = Len(events)
    <3> DEFINE f == [i \in 1..Len(events) |-> events[i]]
    <3>1. f \in [1..Len(events) -> Filed]
      BY <2>1 DEF Filed
    <3>2. f \in Bijection(1..Len(events), Filed)
      BY <2>1, <2>2, <3>1 DEF Bijection, Injection, Surjection, IsInjective, Filed
    <3> QED BY <2>1, <3>2, FS_CountingElements DEF ExistsBijection
  <2>4. eventIDs = Filed
    BY DEF IInv, FileInv, TableIsTail
  <2> QED BY <2>1, <2>3, <2>4 DEF IInv, FileInv, ArrivalsApart, StreamInv, RetriesAreAbsorbed
<1> QED BY <1>1, IngestInvariant, PTL

(* Service.Ingest: as long as nothing fails and nobody hangs up, an event  *)
(* that is done with, an incident and a quarantined label are in the       *)
(* trail, whatever the correlator did and however often the event came.    *)
THEOREM TrailAccounts == Spec => []TrailTellsAll
<1>1. IInv => TrailTellsAll
  <2> SUFFICES ASSUME IInv, failures = 0 PROVE
        /\ \A ev \in Arrived : ~InHand(ev) => Entry("event.ingested", ev) \in trail
        /\ \A ev \in incidents : Entry("incident.updated", ev) \in trail
        /\ \A ev \in Arrived : ~InHand(ev) /\ OnlyReserved(ev) =>
             Entry("event.label_quarantined", ev) \in trail
    BY DEF TrailTellsAll
  <2>1. Accounted
    BY DEF IInv, TellInv
  <2>2. \A ev \in Arrived : InHandling(ev) \/ InProjection(ev) => InHand(ev)
    BY DEF InHandling, InProjection, InHand
  <2> QED BY <2>1, <2>2 DEF Accounted
<1> QED BY <1>1, IngestInvariant, PTL
=============================================================================
