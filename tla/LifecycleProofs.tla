--------------------------- MODULE LifecycleProofs ---------------------------
(***************************************************************************)
(* Proofs about Lifecycle: any environments, seeders and length of the     *)
(* scenario, any number of starts, crashes, outages and launches.  The     *)
(* invariant of a process that serves, that its trail tells its runs apart *)
(* and that seeding stacks no incidents, each with what makes it inductive: *)
(* where a seeder and its handler may be at a phase, what the trail of the *)
(* current run holds at it, and what the openSubjects cache knows.         *)
(***************************************************************************)
EXTENDS Lifecycle, SequenceTheorems, TLAPS

Up == {"serving"} \union Stopping
Begun == {"seeding"} \union Up

Entries == [what : {"started", "request", "stopped"}, run : 1..MaxRuns]

(* A run has begun, in an environment Validate lets pass. *)
Validated == Alive => run > 0 /\ Validate(Settled)

TypeInv == TypeOK /\ Validated

(* A handler works for a replay, or for one that gave up; an event is *)
(* posted while there is one left.                                    *)
HandsFollowStages ==
  \A a \in Actors :
    /\ hand[a] # "none" => stage[a] \in {"replaying", "idle"}
    /\ hand[a] # "none" /\ stage[a] = "replaying" => posted[a] < ScenarioLength
    /\ stage[a] # "replaying" => posted[a] = 0

(* The process seeds itself before it listens and lets no post of its own go. *)
OwnSeedsFirst ==
  /\ stage[Own] \in {"idle", "replaying"}
  /\ stage[Own] # "idle" => phase = "seeding"
  /\ hand[Own] # "none" => stage[Own] = "replaying"

(* Whoever else has a handler has it of a process that listened. *)
SeedersAreServed == \A s \in Seeders : hand[s] # "none" => phase \in Up

StageInv == HandsFollowStages /\ OwnSeedsFirst /\ SeedersAreServed

-----------------------------------------------------------------------------
(* Steps: Next by what it does, every way out of a start being GoDown *)

Moves ==
  \/ phase = "connecting" /\ Proceed("probing")
  \/ phase = "probing" /\ Proceed("announcing")
  \/ phase = "seeding" /\ stage[Own] = "idle" /\ incidents[Store] > 0 /\ Proceed("serving")
  \/ phase = "serving" /\ Proceed("draining")
  \/ phase = "draining" /\ InFlight = {} /\ Proceed("signing off")

Announced ==
  /\ phase = "announcing" /\ Reaches(signalled)
  /\ phase' = AfterAnnouncing
  /\ trail' = OnTrail("started")
  /\ UNCHANGED <<env, run, signalled, expired, up, incidents, work, history, counts>>

SeedBegins ==
  /\ phase = "seeding" /\ stage[Own] = "idle" /\ ~(incidents[Store] > 0)
  /\ stage' = [stage EXCEPT ![Own] = "replaying"]
  /\ UNCHANGED <<process, up, files, open, posted, hand, merges, cut, history, counts>>

Answered(a) ==
  \/ /\ Handles(a, "storing", "looking")
     /\ UNCHANGED <<process, up, files, open, stage, posted, merges, cut, history, counts>>
  \/ /\ Handles(a, "storing", "none") /\ a # Own
     /\ stage' = [stage EXCEPT ![a] = "idle"]
     /\ posted' = [posted EXCEPT ![a] = 0]
     /\ cut' = cut \ {a}
     /\ UNCHANGED <<process, up, files, open, merges, history, counts>>

OutsideChanges == \E d \in Dependencies : Fails(d) \/ Recovers(d)

LEMMA StepCases ==
  ASSUME Next
  PROVE  \/ GoDown \/ (\E e \in DOMAIN Environments : Start(e))
         \/ Moves \/ Announced \/ SeedBegins \/ Seeded
         \/ Signal \/ GraceExpires \/ SignOff \/ OutsideChanges
         \/ \E s \in Seeders : \/ Launch(s) \/ WaitForReady(s) \/ WaitIsOver(s)
                               \/ AlreadySeeded(s) \/ GiveUp(s) \/ Cut(s) \/ Replayed(s)
         \/ \E a \in Actors : \/ Post(a) \/ Answered(a) \/ FindIncident(a)
                              \/ SaveIncident(a) \/ Tell(a)
<1>1. ASSUME NEW a, SaveEvent(a) PROVE GoDown \/ Answered(a)
  BY <1>1 DEF SaveEvent, Answered
<1>2. ASSUME NEW a, Handler(a)
      PROVE  GoDown \/ Answered(a) \/ FindIncident(a) \/ SaveIncident(a) \/ Tell(a)
  BY <1>1, <1>2 DEF Handler
<1>3. Own \in Actors /\ \A s \in Seeders : s \in Actors
  BY DEF Actors
<1>4. Connect \/ Probe => GoDown \/ Moves
  BY DEF Connect, Probe, Moves
<1>5. Announce => GoDown \/ Announced
  BY DEF Announce, Announced
<1>6. Seed => GoDown \/ Moves \/ SeedBegins
  BY DEF Seed, Moves, SeedBegins
<1>7. Shutdown \/ Drained => Moves
  BY DEF Shutdown, Drained, Moves
<1>8. Exit \/ Crash => GoDown
  BY DEF Exit, Crash
<1>9. QED
  BY <1>2, <1>3, <1>4, <1>5, <1>6, <1>7, <1>8
  DEF Next, Startup, Winddown, Seeder, OutsideChanges

-----------------------------------------------------------------------------
(* Types                                                                   *)

LEMMA Constants ==
  /\ ScenarioLength \in Nat /\ ScenarioLength > 0
  /\ Own \in Actors /\ Own \notin Seeders
  /\ Seeders \subseteq Actors
  /\ MaxRuns \in Nat /\ MaxLaunches \in Nat /\ MaxOutages \in Nat
BY ScenarioIsNotEmpty, BoundsAreNatural DEF Actors

LEMMA NothingPosted == 0 \in 0..ScenarioLength
BY Constants

LEMMA InitTyped == Init => TypeInv /\ StageInv
<1> SUFFICES ASSUME Init PROVE TypeInv /\ StageInv
  OBVIOUS
<1>1. [s \in Stores |-> <<>>] \in [Stores -> Seq(Entries)]
  BY EmptySeq
<1>2. TypeInv
  <2>1. trail \in [Stores -> Seq(Entries)] /\ incidents \in [Stores -> Nat]
    BY <1>1 DEF Init
  <2>2. /\ stage \in [Actors -> {"idle", "waiting", "checking", "replaying"}]
        /\ posted \in [Actors -> 0..ScenarioLength]
        /\ hand \in [Actors -> {"none", "storing", "looking", "saving", "telling"}]
        /\ merges \in [Actors -> BOOLEAN]
    BY Constants DEF Init
  <2>3. run \in 0..MaxRuns /\ launches \in 0..MaxLaunches /\ outages \in 0..MaxOutages
    BY Constants DEF Init
  <2> QED BY <2>1, <2>2, <2>3 DEF Init, TypeInv, TypeOK, Validated, Alive, Entries
<1>3. StageInv
  BY Constants
  DEF Init, StageInv, HandsFollowStages, OwnSeedsFirst, SeedersAreServed
<1>4. QED
  BY <1>2, <1>3

(* What a recorder adds to a trail. *)
LEMMA TrailGrows ==
  ASSUME TypeInv, Alive, NEW what \in {"started", "request", "stopped"}
  PROVE  /\ OnTrail(what) \in [Stores -> Seq(Entries)]
         /\ Store \in Stores
         /\ \A s \in Stores \ {Store} : OnTrail(what)[s] = trail[s]
         /\ \/ OnTrail(what) = trail /\ trail[Store] # <<>>
                 /\ trail[Store][Len(trail[Store])] = Entry(what)
            \/ OnTrail(what)[Store] = Append(trail[Store], Entry(what))
<1>1. Store \in Stores
  BY DEF Store, Stores
<1>2. trail \in [Stores -> Seq(Entries)] /\ trail[Store] \in Seq(Entries)
  BY <1>1 DEF TypeInv, TypeOK, Entries
<1>3. Entry(what) \in Entries
  BY Constants DEF TypeInv, TypeOK, Validated, Entry, Entries
<1>4. Append(trail[Store], Entry(what)) \in Seq(Entries)
  BY <1>2, <1>3, AppendProperties
<1>5. QED
  BY <1>1, <1>2, <1>4 DEF OnTrail

LEMMA AliveGoesOn ==
  ASSUME TypeInv, Alive, phase' # "down", UNCHANGED <<env, run>>
  PROVE  Validated'
BY DEF TypeInv, Validated, Alive, Settled, Config

LEMMA TypeGoDown ==
  ASSUME TypeInv, GoDown
  PROVE  TypeInv'
<1>1. trail' \in [Stores -> Seq(Entries)] /\ incidents' \in [Stores -> Nat]
  <2>1. <<>> \in Seq(Entries)
    BY EmptySeq
  <2> QED BY <2>1 DEF TypeInv, TypeOK, Entries, GoDown, Stores
<1>2. stage' \in [Actors -> {"idle", "waiting", "checking", "replaying"}]
  BY DEF TypeInv, TypeOK, GoDown
<1>3. posted' \in [Actors -> 0..ScenarioLength]
  BY Constants DEF TypeInv, TypeOK, GoDown
<1>4. disturbed' \in BOOLEAN
  BY DEF TypeInv, TypeOK, GoDown
<1>5. TypeOK'
  BY <1>1, <1>2, <1>3, <1>4 DEF TypeInv, TypeOK, Entries, GoDown, counts
<1>6. Validated'
  BY DEF Validated, GoDown, Alive
<1>7. QED
  BY <1>5, <1>6 DEF TypeInv

LEMMA TypeStart ==
  ASSUME TypeInv, NEW e \in DOMAIN Environments, Start(e)
  PROVE  TypeInv'
<1>1. run' \in 0..MaxRuns /\ run' > 0
  BY Constants DEF TypeInv, TypeOK, Start
<1>2. CASE Validate(Config[e])
  <2>1. phase' = "connecting" /\ env' = e /\ env' # NoEnvironment
    BY <1>2, ScenarioIsNotEmpty DEF Start
  <2>2. TypeOK'
    BY <1>1, <2>1
    DEF TypeInv, TypeOK, Start, files, work, history, counts, Starting
  <2>3. Validated'
    BY <1>1, <1>2, <2>1 DEF Validated, Settled, Config
  <2>4. QED
    BY <2>2, <2>3 DEF TypeInv
<1>3. CASE ~Validate(Config[e])
  <2>1. UNCHANGED <<phase, env>>
    BY <1>3 DEF Start
  <2>2. QED
    BY <1>1, <2>1
    DEF TypeInv, TypeOK, Validated, Alive, Start, files, work, history, counts
<1>4. QED
  BY <1>2, <1>3

LEMMA TypeMoves ==
  ASSUME TypeInv, Moves \/ Announced \/ SeedBegins \/ Seeded
  PROVE  TypeInv'
<1>1. Alive /\ phase' # "down" /\ UNCHANGED <<env, run>> /\ env # NoEnvironment
  BY DEF TypeInv, TypeOK, Moves, Announced, SeedBegins, Seeded, Proceed, Alive,
         AfterAnnouncing, process
<1>2. Validated'
  BY <1>1, AliveGoesOn
<1>3. CASE Moves
  <2>1. phase' \in {"probing", "announcing", "serving", "draining", "signing off"}
    BY <1>3 DEF Moves, Proceed
  <2> QED BY <1>1, <1>2, <1>3, <2>1
          DEF TypeInv, TypeOK, Moves, Proceed, Starting, Stopping, files, work, history, counts
<1>4. CASE Announced
  <2>1. phase' \in {"seeding", "serving"}
    BY <1>4 DEF Announced, AfterAnnouncing
  <2>2. trail' \in [Stores -> Seq(Entries)]
    BY <1>1, <1>4, TrailGrows DEF Announced
  <2> QED BY <1>1, <1>2, <1>4, <2>1, <2>2
          DEF TypeInv, TypeOK, Announced, Starting, Entries, work, history, counts
<1>5. CASE SeedBegins
  BY <1>1, <1>2, <1>5, Constants
  DEF TypeInv, TypeOK, SeedBegins, process, files, history, counts
<1>6. CASE Seeded
  <2>1. /\ stage' \in [Actors -> {"idle", "waiting", "checking", "replaying"}]
        /\ posted' \in [Actors -> 0..ScenarioLength]
    BY <1>6, Constants, NothingPosted DEF TypeInv, TypeOK, Seeded
  <2> QED BY <1>1, <1>2, <1>6, <2>1 DEF TypeInv, TypeOK, Seeded, files, history, counts
<1>7. QED
  BY <1>3, <1>4, <1>5, <1>6

LEMMA TypeStops ==
  ASSUME TypeInv, Signal \/ GraceExpires \/ SignOff \/ OutsideChanges
  PROVE  TypeInv'
<1>1. CASE Signal
  <2>1. Validated'
    BY <1>1, AliveGoesOn DEF Signal, Alive
  <2> QED BY <1>1, <2>1 DEF TypeInv, TypeOK, Signal, files, work, history, counts
<1>2. CASE GraceExpires
  <2>1. Validated'
    BY <1>2, AliveGoesOn DEF GraceExpires, Alive
  <2> QED BY <1>2, <2>1
          DEF TypeInv, TypeOK, GraceExpires, Stopping, files, work, history, counts
<1>3. CASE SignOff
  <2>1. Validated' /\ Alive /\ phase' = "closing"
    BY <1>3, AliveGoesOn DEF SignOff, Alive
  <2>2. trail' \in [Stores -> Seq(Entries)]
    BY <1>3, <2>1, TrailGrows DEF SignOff, TypeInv, TypeOK, Entries
  <2> QED BY <1>3, <2>1, <2>2
          DEF TypeInv, TypeOK, SignOff, Alive, Stopping, Entries, work, history, counts
<1>4. CASE OutsideChanges
  <2>1. /\ UNCHANGED <<process, files, work, history, launches>>
        /\ up' \subseteq Dependencies /\ outages' \in 0..MaxOutages
    BY <1>4, Constants DEF OutsideChanges, Fails, Recovers, counts, TypeInv, TypeOK
  <2> QED BY <2>1
          DEF TypeInv, TypeOK, Validated, Alive, Settled, Config, process, files, work, history
<1>5. QED
  BY <1>1, <1>2, <1>3, <1>4

LEMMA TypeSeeders ==
  ASSUME TypeInv, StageInv, NEW s \in Seeders,
         \/ Launch(s) \/ WaitForReady(s) \/ WaitIsOver(s) \/ AlreadySeeded(s)
         \/ GiveUp(s) \/ Cut(s) \/ Replayed(s)
  PROVE  TypeInv'
<1>1. /\ UNCHANGED <<process, up, files, open, hand, merges, faltered, outages>>
      /\ stage' = stage \/ \E to \in {"idle", "waiting", "checking", "replaying"} :
                             stage' = [stage EXCEPT ![s] = to]
      /\ posted' = posted \/ posted' = [posted EXCEPT ![s] = 0]
      /\ cut' = cut \/ cut' = cut \union {s}
  BY DEF Launch, WaitForReady, WaitIsOver, AlreadySeeded, GiveUp, Cut, Replayed,
         Step, history, counts
<1>2. disturbed' \in BOOLEAN
  BY DEF Launch, WaitForReady, WaitIsOver, AlreadySeeded, GiveUp, Cut, Replayed,
         history, TypeInv, TypeOK
<1>3. launches' \in 0..MaxLaunches
  <2>1. launches' = launches \/ (launches < MaxLaunches /\ launches' = launches + 1)
    BY DEF Launch, WaitForReady, WaitIsOver, AlreadySeeded, GiveUp, Cut, Replayed, counts
  <2>2. launches \in 0..MaxLaunches /\ MaxLaunches \in Nat
    BY Constants DEF TypeInv, TypeOK
  <2> QED BY <2>1, <2>2
<1>4. /\ stage' \in [Actors -> {"idle", "waiting", "checking", "replaying"}]
      /\ posted' \in [Actors -> 0..ScenarioLength]
      /\ cut' \subseteq Actors
  <2>1. s \in Actors
    BY Constants
  <2>2. stage' \in [Actors -> {"idle", "waiting", "checking", "replaying"}]
    BY <1>1, <2>1 DEF TypeInv, TypeOK
  <2>3. posted' \in [Actors -> 0..ScenarioLength]
    BY <1>1, <2>1, NothingPosted DEF TypeInv, TypeOK
  <2>4. cut' \subseteq Actors
    BY <1>1, <2>1 DEF TypeInv, TypeOK
  <2> QED BY <2>2, <2>3, <2>4
<1>5. QED
  BY <1>1, <1>2, <1>3, <1>4
  DEF TypeInv, TypeOK, Validated, Alive, Settled, Config, process, files

LEMMA TypeHandlers ==
  ASSUME TypeInv, StageInv, NEW a \in Actors,
         Post(a) \/ Answered(a) \/ FindIncident(a) \/ SaveIncident(a) \/ Tell(a)
  PROVE  TypeInv'
<1>1. UNCHANGED <<process, up, launches>>
  BY DEF Post, Answered, FindIncident, SaveIncident, Tell, counts
<1>2. /\ stage' \in [Actors -> {"idle", "waiting", "checking", "replaying"}]
      /\ hand' \in [Actors -> {"none", "storing", "looking", "saving", "telling"}]
      /\ merges' \in [Actors -> BOOLEAN]
      /\ cut' \subseteq Actors
  BY DEF Post, Answered, FindIncident, SaveIncident, Tell, Handles, work, files,
         TypeInv, TypeOK
<1>3. posted' \in [Actors -> 0..ScenarioLength]
  <2>1. CASE Tell(a)
    <3>1. stage[a] = "replaying" => posted[a] < ScenarioLength
      BY <2>1 DEF Tell, Handles, StageInv, HandsFollowStages
    <3>2. posted[a] \in 0..ScenarioLength /\ ScenarioLength \in Nat
      BY Constants DEF TypeInv, TypeOK
    <3>3. stage[a] = "replaying" => posted[a] + 1 \in 0..ScenarioLength
      BY <3>1, <3>2
    <3> QED BY <2>1, <3>3 DEF Tell, TypeInv, TypeOK
  <2>2. QED
    BY <2>1, NothingPosted
    DEF Post, Answered, FindIncident, SaveIncident, work, TypeInv, TypeOK
<1>4. trail' \in [Stores -> Seq(Entries)]
  <2>1. CASE Tell(a)
    <3>1. Alive
      BY <2>1, Constants
      DEF Tell, Handles, StageInv, OwnSeedsFirst, SeedersAreServed, Alive, Up, Stopping, Actors
    <3> QED BY <2>1, <3>1, TrailGrows DEF Tell, TypeInv, TypeOK, Entries
  <2>2. QED
    BY <2>1
    DEF Post, Answered, FindIncident, SaveIncident, files, TypeInv, TypeOK, Entries
<1>5. incidents' \in [Stores -> Nat]
  BY DEF Post, Answered, FindIncident, SaveIncident, Tell, Filed, Store, Stores, files,
         TypeInv, TypeOK
<1>6. /\ open' \in BOOLEAN /\ faltered' \in BOOLEAN /\ disturbed' \in BOOLEAN
      /\ outages' \in 0..MaxOutages
  <2>1. open' \in BOOLEAN /\ faltered' \in BOOLEAN /\ disturbed' \in BOOLEAN
    BY DEF Post, Answered, FindIncident, SaveIncident, Tell, history, TypeInv, TypeOK
  <2>2. outages' = outages \/ (outages < MaxOutages /\ outages' = outages + 1)
    BY DEF Post, Answered, FindIncident, SaveIncident, Tell, counts
  <2>3. outages \in 0..MaxOutages /\ MaxOutages \in Nat
    BY Constants DEF TypeInv, TypeOK
  <2> QED BY <2>1, <2>2, <2>3
<1>7. QED
  BY <1>1, <1>2, <1>3, <1>4, <1>5, <1>6
  DEF TypeInv, TypeOK, Validated, Alive, Settled, Config, process, Entries

LEMMA TypeStep ==
  ASSUME TypeInv, StageInv, [Next]_vars
  PROVE  TypeInv'
<1>1. CASE UNCHANGED vars
  BY <1>1 DEF vars, process, files, work, history, counts, TypeInv, TypeOK, Validated,
              Alive, Settled, Config
<1>2. CASE Next
  BY <1>2, StepCases, TypeGoDown, TypeStart, TypeMoves, TypeStops, TypeSeeders, TypeHandlers
<1>3. QED
  BY <1>1, <1>2

-----------------------------------------------------------------------------
(* Stages                                                                  *)

LEMMA StageOutside ==
  ASSUME TypeInv, StageInv,
         \/ UNCHANGED vars \/ Moves \/ Announced \/ Signal \/ GraceExpires \/ SignOff
         \/ OutsideChanges \/ \E e \in DOMAIN Environments : Start(e)
  PROVE  StageInv'
<1>1. UNCHANGED <<stage, posted, hand>>
  BY DEF vars, Moves, Announced, Signal, GraceExpires, SignOff, OutsideChanges, Start,
         Proceed, Fails, Recovers, work
<1>2. \/ phase' = phase
      \/ phase' \in Up /\ (phase \in Up \/ stage[Own] = "idle")
      \/ phase' \notin Up /\ phase \notin Up \union {"seeding"}
  BY DEF vars, process, Moves, Announced, Signal, GraceExpires, SignOff, OutsideChanges,
         Start, Proceed, Fails, Recovers, AfterAnnouncing, Up, Stopping, StageInv, OwnSeedsFirst
<1>3. QED
  BY <1>1, <1>2
  DEF StageInv, HandsFollowStages, OwnSeedsFirst, SeedersAreServed, Up, Stopping

LEMMA StageGoDown ==
  ASSUME TypeInv, StageInv, GoDown
  PROVE  StageInv'
<1>1. /\ \A a \in Actors : hand'[a] = "none"
      /\ \A a \in Actors : \/ stage'[a] = "idle" /\ posted'[a] = 0
                           \/ a # Own /\ stage'[a] = stage[a] /\ posted'[a] = posted[a]
      /\ stage'[Own] = "idle"
  BY Constants DEF GoDown
<1>2. QED
  BY <1>1, Constants
  DEF StageInv, HandsFollowStages, OwnSeedsFirst, SeedersAreServed, GoDown

(* Steps of one actor. *)
LEMMA StageOthers ==
  ASSUME StageInv, NEW a \in Actors, phase' = phase,
         \A b \in Actors \ {a} :
           stage'[b] = stage[b] /\ posted'[b] = posted[b] /\ hand'[b] = hand[b],
         hand'[a] # "none" => stage'[a] \in {"replaying", "idle"},
         hand'[a] # "none" /\ stage'[a] = "replaying" => posted'[a] < ScenarioLength,
         stage'[a] # "replaying" => posted'[a] = 0,
         a = Own => /\ stage'[a] \in {"idle", "replaying"}
                    /\ stage'[a] # "idle" => phase = "seeding"
                    /\ hand'[a] # "none" => stage'[a] = "replaying",
         a # Own /\ hand'[a] # "none" => phase \in Up
  PROVE  StageInv'
BY Constants DEF StageInv, HandsFollowStages, OwnSeedsFirst, SeedersAreServed

LEMMA StageSeeding ==
  ASSUME TypeInv, StageInv, SeedBegins \/ Seeded
  PROVE  StageInv'
<1>1. CASE SeedBegins
  <2>1. /\ stage' = [stage EXCEPT ![Own] = "replaying"]
        /\ UNCHANGED <<phase, posted, hand>> /\ phase = "seeding"
    BY <1>1 DEF SeedBegins, process
  <2>2. stage \in [Actors -> {"idle", "waiting", "checking", "replaying"}]
    BY DEF TypeInv, TypeOK
  <2>3. hand[Own] = "none"
    BY <1>1 DEF SeedBegins, StageInv, OwnSeedsFirst
  <2> QED BY <2>1, <2>2, <2>3, Constants, StageOthers
<1>2. CASE Seeded
  <2>1. /\ \A b \in Actors \ {Own} : stage'[b] = stage[b] /\ posted'[b] = posted[b]
        /\ stage'[Own] = "idle" /\ posted'[Own] = 0
        /\ phase' = "serving" /\ UNCHANGED hand
    BY <1>2, Constants DEF Seeded, TypeInv, TypeOK
  <2>2. hand[Own] = "none"
    BY <1>2, Constants DEF Seeded, StageInv, HandsFollowStages, TypeInv, TypeOK
  <2> QED BY <2>1, <2>2, Constants
          DEF StageInv, HandsFollowStages, OwnSeedsFirst, SeedersAreServed, Up
<1>3. QED
  BY <1>1, <1>2

LEMMA StageSeeders ==
  ASSUME TypeInv, StageInv, NEW s \in Seeders,
         \/ Launch(s) \/ WaitForReady(s) \/ WaitIsOver(s) \/ AlreadySeeded(s)
         \/ GiveUp(s) \/ Cut(s) \/ Replayed(s)
  PROVE  StageInv'
<1>1. /\ UNCHANGED <<phase, hand>>
      /\ stage' = stage \/ \E to \in {"idle", "waiting", "checking", "replaying"} :
                             stage' = [stage EXCEPT ![s] = to]
      /\ posted' = posted \/ posted' = [posted EXCEPT ![s] = 0]
  BY DEF Launch, WaitForReady, WaitIsOver, AlreadySeeded, GiveUp, Cut, Replayed,
         Step, process
<1>2. s \in Actors /\ s # Own
  BY Constants
<1>3. \A b \in Actors \ {s} :
        stage'[b] = stage[b] /\ posted'[b] = posted[b] /\ hand'[b] = hand[b]
  BY <1>1, <1>2 DEF TypeInv, TypeOK
<1>4. /\ hand'[s] # "none" => stage'[s] \in {"replaying", "idle"}
      /\ hand'[s] # "none" /\ stage'[s] = "replaying" => posted'[s] < ScenarioLength
      /\ stage'[s] # "replaying" => posted'[s] = 0
  BY <1>2
  DEF Launch, WaitForReady, WaitIsOver, AlreadySeeded, GiveUp, Cut, Replayed, Step,
      TypeInv, TypeOK, StageInv, HandsFollowStages
<1>5. hand'[s] # "none" => phase \in Up
  BY <1>1 DEF StageInv, SeedersAreServed
<1>6. QED
  BY <1>1, <1>2, <1>3, <1>4, <1>5, StageOthers

LEMMA StageHandlers ==
  ASSUME TypeInv, StageInv, NEW a \in Actors,
         Post(a) \/ Answered(a) \/ FindIncident(a) \/ SaveIncident(a) \/ Tell(a)
  PROVE  StageInv'
<1>1. phase' = phase
  BY DEF Post, Answered, FindIncident, SaveIncident, Tell, process
<1>2. \A b \in Actors \ {a} :
        stage'[b] = stage[b] /\ posted'[b] = posted[b] /\ hand'[b] = hand[b]
  BY DEF Post, Answered, FindIncident, SaveIncident, Tell, Handles, work, TypeInv, TypeOK
<1>3. /\ hand'[a] # "none" => stage'[a] \in {"replaying", "idle"}
      /\ stage'[a] # "replaying" => posted'[a] = 0
      /\ hand'[a] # "none" /\ stage'[a] = "replaying" => posted'[a] < ScenarioLength
  BY DEF Post, Answered, FindIncident, SaveIncident, Tell, Handles, work,
         TypeInv, TypeOK, StageInv, HandsFollowStages
<1>4. /\ stage'[a] # "idle" => stage'[a] = stage[a]
      /\ hand'[a] # "none" => \/ hand[a] # "none" /\ stage'[a] = stage[a]
                              \/ stage'[a] = "replaying"
                                   /\ phase = IF a = Own THEN "seeding" ELSE "serving"
  BY DEF Post, Answered, FindIncident, SaveIncident, Tell, Handles, work, TypeInv, TypeOK
<1>5. a # Own => a \in Seeders
  BY DEF Actors
<1>6. a = Own => /\ stage'[a] \in {"idle", "replaying"}
                 /\ stage'[a] # "idle" => phase = "seeding"
                 /\ hand'[a] # "none" => stage'[a] = "replaying"
  BY <1>4 DEF StageInv, OwnSeedsFirst
<1>7. a # Own /\ hand'[a] # "none" => phase \in Up
  BY <1>4, <1>5 DEF StageInv, SeedersAreServed, Up
<1>8. QED
  BY <1>1, <1>2, <1>3, <1>6, <1>7, StageOthers

LEMMA StageStep ==
  ASSUME TypeInv, StageInv, [Next]_vars
  PROVE  StageInv'
BY StepCases, StageOutside, StageGoDown, StageSeeding, StageSeeders, StageHandlers

(* Lifecycle, types: main.go's phases and the seeders' never mix, every    *)
(* count stays in its range, a run knows the environment it started in.    *)
THEOREM TypeCorrect == Spec => []TypeOK
<1>1. Init => TypeInv /\ StageInv
  BY InitTyped
<1>2. TypeInv /\ StageInv /\ [Next]_vars => (TypeInv /\ StageInv)'
  BY TypeStep, StageStep
<1>3. TypeInv => TypeOK
  BY DEF TypeInv
<1>4. QED
  BY <1>1, <1>2, <1>3, PTL DEF Spec

-----------------------------------------------------------------------------
(* The trail that outlives the process                                     *)

Disk == trail["disk"]

OnDisk(i) == Disk[i].run = run

(* Whoever is cut off by the end of the grace period is not signed off. *)
StopsTurnAway == phase \in {"signing off", "closing"} => expired \/ InFlight = {}

(* What the trail on disk has of the run at each phase. *)
DiskTellsRuns ==
  /\ \A i \in DOMAIN Disk : Disk[i].run <= run
  /\ phase \in {"connecting", "probing", "announcing"} =>
       \A i \in DOMAIN Disk : ~OnDisk(i)
  /\ Alive => \A i \in DOMAIN Disk :
       OnDisk(i) /\ Disk[i].what = "stopped" => phase = "closing" /\ InFlight = {}

DiskInv == StopsTurnAway /\ DiskTellsRuns /\ RunsEnd

LEMMA DiskTyped ==
  ASSUME TypeInv
  PROVE  Disk \in Seq(Entries) /\ run \in Nat
BY Constants DEF TypeInv, TypeOK, Entries, Stores, Disk

(* An entry of the run is added at the end, or not at all. *)
LEMMA DiskAppend ==
  ASSUME TypeInv, Alive, NEW what \in {"started", "request", "stopped"},
         trail' = OnTrail(what) \/ trail' = trail
  PROVE  \/ Disk' = Disk
         \/ /\ Durable
            /\ DOMAIN Disk' = DOMAIN Disk \union {Len(Disk) + 1}
            /\ \A i \in DOMAIN Disk : i < Len(Disk) + 1 /\ Disk'[i] = Disk[i]
            /\ Disk'[Len(Disk) + 1] = Entry(what)
<1>1. CASE Disk' = Disk
  BY <1>1
<1>2. CASE Disk' # Disk
  <2>1. Store = "disk" /\ Durable /\ Disk' = Append(Disk, Entry(what))
    BY <1>2, TrailGrows DEF Disk, Stores, Store
  <2>2. Entry(what) \in Entries
    BY Constants DEF TypeInv, TypeOK, Validated, Entry, Entries
  <2>3. Disk \in Seq(Entries)
    BY DiskTyped
  <2>4. Len(Disk') = Len(Disk) + 1 /\ Disk'[Len(Disk) + 1] = Entry(what)
        /\ \A i \in 1..Len(Disk) : Disk'[i] = Disk[i]
    BY <2>1, <2>2, <2>3, AppendProperties
  <2>5. Disk' \in Seq(Entries)
    BY <2>1, <2>2, <2>3, AppendProperties
  <2>6. DOMAIN Disk = 1..Len(Disk) /\ DOMAIN Disk' = 1..Len(Disk') /\ Len(Disk) \in Nat
    BY <2>3, <2>5, LenProperties
  <2>7. 1..(Len(Disk) + 1) = 1..Len(Disk) \union {Len(Disk) + 1}
    BY <2>6
  <2>8. DOMAIN Disk' = DOMAIN Disk \union {Len(Disk) + 1}
    BY <2>4, <2>6, <2>7
  <2>9. \A i \in DOMAIN Disk : i < Len(Disk) + 1 /\ Disk'[i] = Disk[i]
    BY <2>4, <2>6
  <2> QED BY <2>1, <2>4, <2>8, <2>9
<1>3. QED
  BY <1>1, <1>2

(* A step that adds an entry of the run where it may. *)
LEMMA DiskRecord ==
  ASSUME TypeInv, DiskInv, Alive, NEW what \in {"started", "request", "stopped"},
         trail' = OnTrail(what) \/ trail' = trail, run' = run,
         phase' \notin {"down", "connecting", "probing", "announcing"},
         what = "started" => phase = "announcing",
         what # "started" => phase # "closing" \/ InFlight # {},
         what = "stopped" /\ Durable /\ trail' # trail => phase' = "closing" /\ InFlight' = {},
         phase # "closing" \/ InFlight # {} \/ (phase' = "closing" /\ InFlight' = {})
  PROVE  DiskTellsRuns' /\ RunsEnd'
<1>1. CASE Disk' = Disk
  <2>1. RunsEnd'
    BY <1>1 DEF DiskInv, RunsEnd, Disk
  <2>2. DiskTellsRuns'
    BY <1>1 DEF DiskInv, DiskTellsRuns, OnDisk, Alive
  <2> QED BY <2>1, <2>2
<1>2. CASE Disk' # Disk
  <2> DEFINE last == Len(Disk) + 1
  <2>1. /\ Durable
        /\ DOMAIN Disk' = DOMAIN Disk \union {last}
        /\ \A i \in DOMAIN Disk : i < last /\ Disk'[i] = Disk[i]
        /\ Disk'[last] = Entry(what)
    BY <1>2, DiskAppend
  <2>2. trail' # trail
    BY <1>2 DEF Disk
  <2>3. Disk'[last].run = run /\ Disk'[last].what = what /\ run <= run
    BY <2>1, DiskTyped DEF Entry
  <2>4. \A i \in DOMAIN Disk : Disk[i].run = run =>
          Disk[i].what # "stopped" /\ what # "started"
    BY DEF DiskInv, DiskTellsRuns, OnDisk
  <2>5. last \notin DOMAIN Disk /\ ~(last < last) /\ \A i \in DOMAIN Disk : ~(last < i)
    <3>1. Len(Disk) \in Nat /\ DOMAIN Disk = 1..Len(Disk)
      BY DiskTyped, LenProperties
    <3> QED BY <3>1
  <2> HIDE DEF last
  <2>6. RunsEnd'
    <3> SUFFICES ASSUME NEW i \in DOMAIN Disk', NEW j \in DOMAIN Disk',
                        i < j, Disk'[i].run = Disk'[j].run
                 PROVE  Disk'[i].what # "stopped" /\ Disk'[j].what # "started"
      BY DEF RunsEnd, Disk
    <3>1. i \in DOMAIN Disk
      BY <2>1, <2>5
    <3>2. CASE j = last
      BY <2>1, <2>3, <2>4, <3>1, <3>2
    <3>3. CASE j # last
      <4>1. j \in DOMAIN Disk
        BY <2>1, <3>3
      <4> QED BY <2>1, <3>1, <4>1 DEF DiskInv, RunsEnd, Disk
    <3> QED BY <3>2, <3>3
  <2>7. DiskTellsRuns'
    BY <2>1, <2>2, <2>3 DEF DiskInv, DiskTellsRuns, OnDisk, Alive
  <2> QED BY <2>6, <2>7
<1>3. QED
  BY <1>1, <1>2

(* Steps that write nothing. *)
LEMMA DiskKept ==
  ASSUME TypeInv, DiskInv, Disk' = Disk,
         \/ phase' = "down" /\ run' = run
         \/ /\ Alive /\ phase' # "down" /\ run' = run
            /\ phase' \in {"connecting", "probing", "announcing"} =>
                 phase \in {"connecting", "probing", "announcing"}
            /\ phase = "closing" => phase' = "closing" /\ InFlight' \subseteq InFlight
  PROVE  DiskTellsRuns' /\ RunsEnd'
<1>1. RunsEnd'
  BY DEF DiskInv, RunsEnd, Disk
<1>2. DiskTellsRuns'
  BY DEF DiskInv, DiskTellsRuns, OnDisk, Alive
<1>3. QED
  BY <1>1, <1>2

LEMMA DiskStart ==
  ASSUME TypeInv, DiskInv, NEW e \in DOMAIN Environments, Start(e)
  PROVE  DiskInv'
<1>1. Disk' = Disk /\ run' = run + 1 /\ run \in Nat
  BY DiskTyped DEF Start, files, Disk
<1>2. phase' \in {"down", "connecting"}
  BY DEF Start
<1>3. \A i \in DOMAIN Disk : Disk[i].run \in Nat /\ Disk[i].run <= run
  <2>1. \A i \in DOMAIN Disk : Disk[i] \in Entries
    BY DiskTyped, ElementOfSeq, LenProperties
  <2> QED BY <2>1, Constants DEF Entries, DiskInv, DiskTellsRuns
<1>4. \A i \in DOMAIN Disk : Disk[i].run < run' /\ Disk[i].run <= run'
  BY <1>1, <1>3
<1>5. \A i \in DOMAIN Disk : Disk[i].run # run'
  BY <1>1, <1>3, <1>4
<1>6. DiskTellsRuns'
  BY <1>1, <1>4, <1>5 DEF DiskTellsRuns, OnDisk
<1>7. RunsEnd'
  BY <1>1 DEF DiskInv, RunsEnd, Disk
<1>8. StopsTurnAway'
  BY <1>2 DEF StopsTurnAway
<1>9. QED
  BY <1>6, <1>7, <1>8 DEF DiskInv

LEMMA DiskStep ==
  ASSUME TypeInv, StageInv, DiskInv, [Next]_vars
  PROVE  DiskInv'
<1>1. CASE UNCHANGED vars
  BY <1>1 DEF vars, process, files, work, DiskInv, StopsTurnAway, DiskTellsRuns,
              RunsEnd, Disk, OnDisk, Alive, InFlight
<1>2. CASE GoDown
  <2>1. Disk' = Disk
    BY <1>2 DEF GoDown, Disk, TypeInv, TypeOK, Stores
  <2>2. phase' = "down" /\ run' = run
    BY <1>2 DEF GoDown
  <2> QED BY <2>1, <2>2, DiskKept DEF DiskInv, StopsTurnAway
<1>3. CASE \E e \in DOMAIN Environments : Start(e)
  BY <1>3, DiskStart
<1>4. CASE Moves
  <2>1. UNCHANGED <<run, trail, hand, expired>> /\ Alive /\ phase' # "down"
    BY <1>4 DEF Moves, Proceed, files, work, Alive
  <2>2. Disk' = Disk /\ InFlight' = InFlight
    BY <2>1 DEF Disk, InFlight
  <2>3. /\ phase' \in {"connecting", "probing", "announcing"} =>
             phase \in {"connecting", "probing", "announcing"}
        /\ phase # "closing"
        /\ phase' \in {"signing off", "closing"} => InFlight = {}
    BY <1>4 DEF Moves, Proceed
  <2>4. DiskTellsRuns' /\ RunsEnd'
    BY <2>1, <2>2, <2>3, DiskKept
  <2>5. StopsTurnAway'
    BY <2>2, <2>3 DEF StopsTurnAway
  <2> QED BY <2>4, <2>5 DEF DiskInv
<1>5. CASE Announced
  <2>1. phase = "announcing" /\ phase' \in {"seeding", "serving"} /\ run' = run
    BY <1>5 DEF Announced, AfterAnnouncing
  <2>2. trail' = OnTrail("started") /\ Alive
    BY <1>5 DEF Announced, Alive
  <2> QED BY <2>1, <2>2, DiskRecord DEF DiskInv, StopsTurnAway
<1>6. CASE SignOff
  <2>1. /\ phase = "signing off" /\ phase' = "closing" /\ Alive
        /\ UNCHANGED <<run, hand, expired>>
    BY <1>6 DEF SignOff, work, Alive
  <2>2. trail' = OnTrail("stopped") \/ trail' = trail
    BY <1>6 DEF SignOff
  <2>3. InFlight' = InFlight
    BY <2>1 DEF InFlight
  <2>4. Durable /\ trail' # trail => InFlight = {}
    BY <1>6, <2>1 DEF SignOff, Reaches, DiskInv, StopsTurnAway
  <2>5. DiskTellsRuns' /\ RunsEnd'
    BY <2>1, <2>2, <2>3, <2>4, DiskRecord
  <2>6. StopsTurnAway'
    BY <2>1, <2>3 DEF DiskInv, StopsTurnAway
  <2> QED BY <2>5, <2>6 DEF DiskInv
<1>7. ASSUME UNCHANGED <<phase, run, trail, expired>> \/ GraceExpires, InFlight' \subseteq InFlight
      PROVE  DiskInv'
  <2>1. Disk' = Disk /\ run' = run /\ InFlight' \subseteq InFlight
    BY <1>7 DEF Disk, GraceExpires, files
  <2>2. StopsTurnAway'
    <3>1. CASE GraceExpires
      BY <3>1 DEF StopsTurnAway, GraceExpires
    <3>2. CASE UNCHANGED <<phase, run, trail, expired>>
      BY <2>1, <3>2 DEF DiskInv, StopsTurnAway
    <3> QED BY <1>7, <3>1, <3>2
  <2>3. CASE Alive
    <3>1. \/ phase' = phase
          \/ phase = "draining" /\ phase' = "signing off"
      BY <1>7 DEF GraceExpires
    <3>2. DiskTellsRuns' /\ RunsEnd'
      BY <2>1, <2>3, <3>1, DiskKept DEF Alive
    <3> QED BY <2>2, <3>2 DEF DiskInv
  <2>4. CASE ~Alive
    <3>1. phase' = "down"
      BY <1>7, <2>4 DEF Alive, GraceExpires
    <3> QED BY <2>1, <2>2, <3>1, DiskKept DEF DiskInv
  <2> QED BY <2>3, <2>4
<1>8. CASE SeedBegins \/ Seeded \/ Signal \/ GraceExpires \/ OutsideChanges
  <2>1. InFlight' = InFlight
    BY <1>8 DEF SeedBegins, Seeded, Signal, GraceExpires, OutsideChanges, Fails, Recovers,
                work, InFlight
  <2>2. CASE Seeded
    <3>1. phase = "seeding" /\ phase' = "serving" /\ Disk' = Disk /\ run' = run
      BY <2>2 DEF Seeded, files, Disk
    <3> QED BY <2>1, <3>1, DiskKept DEF DiskInv, Alive, StopsTurnAway
  <2>3. CASE ~Seeded
    BY <1>7, <1>8, <2>1, <2>3
    DEF SeedBegins, Signal, OutsideChanges, Fails, Recovers, process, files
  <2> QED BY <2>2, <2>3
<1>9. ASSUME NEW s \in Seeders,
             \/ Launch(s) \/ WaitForReady(s) \/ WaitIsOver(s) \/ AlreadySeeded(s)
             \/ GiveUp(s) \/ Cut(s) \/ Replayed(s)
      PROVE  DiskInv'
  <2>1. UNCHANGED <<process, files, hand>>
    BY <1>9 DEF Launch, WaitForReady, WaitIsOver, AlreadySeeded, GiveUp, Cut, Replayed
  <2>2. InFlight' = InFlight
    BY <2>1 DEF InFlight
  <2> QED BY <1>7, <2>1, <2>2 DEF process, files
<1>10. ASSUME NEW a \in Actors, Tell(a)
       PROVE  DiskInv'
  <2>1. /\ UNCHANGED <<phase, run, expired>>
        /\ trail' = OnTrail("request") \/ trail' = trail
    BY <1>10 DEF Tell, process
  <2>2. a \in InFlight /\ InFlight' \subseteq InFlight
    BY <1>10 DEF Tell, Handles, InFlight, TypeInv, TypeOK
  <2>3. phase \in Begun
    BY <1>10 DEF Tell, Handles, StageInv, OwnSeedsFirst, SeedersAreServed, Actors, Begun
  <2>4. DiskTellsRuns' /\ RunsEnd'
    BY <2>1, <2>2, <2>3, DiskRecord DEF Begun, Up, Stopping, Alive
  <2>5. StopsTurnAway'
    BY <2>1, <2>2 DEF DiskInv, StopsTurnAway
  <2> QED BY <2>4, <2>5 DEF DiskInv
<1>11. ASSUME NEW a \in Actors, Post(a) \/ Answered(a) \/ FindIncident(a) \/ SaveIncident(a)
       PROVE  DiskInv'
  <2>1. UNCHANGED <<phase, run, trail, expired>>
    BY <1>11 DEF Post, Answered, FindIncident, SaveIncident, process, files
  <2>2. CASE InFlight' \subseteq InFlight
    BY <1>7, <2>1, <2>2
  <2>3. CASE ~(InFlight' \subseteq InFlight)
    <3>1. Post(a) /\ phase \in {"seeding", "serving"}
      BY <1>11, <2>3
      DEF Post, Answered, FindIncident, SaveIncident, Handles, InFlight, TypeInv, TypeOK
    <3>2. Disk' = Disk
      BY <2>1 DEF Disk
    <3> QED BY <2>1, <3>1, <3>2, DiskKept DEF DiskInv, StopsTurnAway, Alive
  <2> QED BY <2>2, <2>3
<1>12. QED
  BY <1>1, <1>2, <1>3, <1>4, <1>5, <1>6, <1>8, <1>9, <1>10, <1>11, StepCases

-----------------------------------------------------------------------------
(* The credential: what Validate makes of what Load made of an environment *)

(* config.go's Load and Validate, for every environment: a configuration    *)
(* that passes has a credential, says "true" to going without, or listens   *)
(* to nobody but its own host.                                              *)
LEMMA ValidMeansGuarded ==
  ASSUME NEW e, e["GRIEFER_HTTP_ADDR"] \in Addresses, Validate(Load(e))
  PROVE  \/ e["INTERNAL_API_TOKEN"] # "" \/ e["GRIEFER_INTERNAL_API_TOKEN"] # ""
         \/ e["GRIEFER_ALLOW_PUBLIC_BIND"] = "true"
         \/ e["GRIEFER_HTTP_ADDR"] = "loopback"
         \/ e["GRIEFER_HTTP_ADDR"] = "" /\ e["PORT"] = ""
<1>1. /\ Load(e).addr = ListenAddr(e)
      /\ Load(e).token = First(e, "INTERNAL_API_TOKEN", "GRIEFER_INTERNAL_API_TOKEN", "")
      /\ Load(e).allowPublicBind = Flag(e, "GRIEFER_ALLOW_PUBLIC_BIND", FALSE)
  BY DEF Load
<1>2. /\ ListenAddr(e) # "malformed"
      /\ ListenAddr(e) = "everywhere" =>
           Load(e).token # "" \/ Load(e).allowPublicBind
  BY <1>1 DEF Validate, ValidateBind, IsPublicBind
<1>3. Load(e).token # "" =>
        e["INTERNAL_API_TOKEN"] # "" \/ e["GRIEFER_INTERNAL_API_TOKEN"] # ""
  BY <1>1 DEF First
<1>4. Load(e).allowPublicBind => e["GRIEFER_ALLOW_PUBLIC_BIND"] = "true"
  BY <1>1 DEF Flag
<1>5. CASE e["GRIEFER_HTTP_ADDR"] = ""
  <2>1. e["PORT"] # "" => ListenAddr(e) \in {"malformed", "everywhere"}
    BY <1>5 DEF ListenAddr
  <2> QED BY <1>2, <1>3, <1>4, <1>5, <2>1
<1>6. CASE e["GRIEFER_HTTP_ADDR"] # ""
  <2>1. ListenAddr(e) = e["GRIEFER_HTTP_ADDR"]
    BY <1>6 DEF ListenAddr
  <2> QED BY <1>2, <1>3, <1>4, <1>6, <2>1 DEF Addresses
<1>7. QED
  BY <1>5, <1>6

-----------------------------------------------------------------------------
(* What a process that serves has behind it                                *)

OnFile == incidents[Store] > 0

StartIsTold ==
  phase \in Begun => \E i \in DOMAIN trail[Store] : trail[Store][i] = Entry("started")

(* openSubjects knows of an incident only if it is on file; an event of the *)
(* process's own seeding is acknowledged with its incident on file, or its   *)
(* correlation failed.                                                       *)
OpenOnFile ==
  /\ open => Alive /\ OnFile
  /\ \A a \in Actors : merges[a] => Alive /\ OnFile
  /\ posted[Own] > 0 => OnFile \/ faltered
  /\ hand[Own] = "telling" => OnFile \/ faltered
  /\ phase = "serving" /\ Settled.seed => OnFile \/ faltered

LEMMA StoreKept ==
  ASSUME TypeInv, Alive, env' = env
  PROVE  Store' = Store /\ Store \in Stores /\ incidents[Store] \in Nat /\ Settled' = Settled
BY DEF Store, Durable, Settled, Config, Stores, TypeInv, TypeOK

LEMMA ToldStep ==
  ASSUME TypeInv, StageInv, StartIsTold, [Next]_vars
  PROVE  StartIsTold'
<1>1. ASSUME Alive, UNCHANGED <<env, run>>, phase \in Begun,
             \/ trail' = trail
             \/ \E what \in {"request", "stopped"} : trail' = OnTrail(what)
      PROVE  StartIsTold'
  <2>1. Store' = Store /\ trail[Store] \in Seq(Entries)
    BY <1>1, StoreKept DEF TypeInv, TypeOK, Entries
  <2>2. PICK i \in DOMAIN trail[Store] : trail[Store][i] = Entry("started")
    BY <1>1 DEF StartIsTold
  <2>3. i \in DOMAIN trail'[Store] /\ trail'[Store][i] = Entry("started")
    <3>1. CASE trail' = trail
      BY <2>2, <3>1
    <3>2. CASE trail' # trail
      <4>1. PICK what \in {"request", "stopped"} : trail' = OnTrail(what)
        BY <1>1, <3>2
      <4>2. trail'[Store] = Append(trail[Store], Entry(what)) /\ Entry(what) \in Entries
        <5>1. trail'[Store] = Append(trail[Store], Entry(what))
          BY <1>1, <3>2, <4>1, TrailGrows
        <5>2. run \in 1..MaxRuns
          BY <1>1, Constants DEF TypeInv, TypeOK, Validated
        <5> QED BY <5>1, <5>2 DEF Entry, Entries
      <4>3. i \in 1..Len(trail[Store]) /\ Len(trail[Store]) \in Nat
        BY <2>1, <2>2, LenProperties
      <4>4. /\ trail'[Store] \in Seq(Entries)
            /\ Len(trail'[Store]) = Len(trail[Store]) + 1
            /\ trail'[Store][i] = trail[Store][i]
        BY <2>1, <4>2, <4>3, AppendProperties
      <4>5. i \in 1..Len(trail'[Store])
        BY <4>3, <4>4
      <4> QED BY <2>2, <4>4, <4>5, LenProperties
    <3> QED BY <3>1, <3>2
  <2>4. Entry("started")' = Entry("started")
    BY <1>1 DEF Entry
  <2> QED BY <2>1, <2>3, <2>4 DEF StartIsTold
<1>2. ASSUME phase' \notin Begun
      PROVE  StartIsTold'
  BY <1>2 DEF StartIsTold
<1>3. CASE UNCHANGED vars
  <2>1. phase \in Begun => Alive
    BY DEF Begun, Up, Stopping, Alive
  <2> QED BY <1>1, <1>2, <1>3, <2>1 DEF vars, process, files
<1>4. CASE Moves
  <2>1. /\ UNCHANGED <<env, run, trail>> /\ Alive
        /\ phase \in Begun \/ phase' \notin Begun
    BY <1>4 DEF Moves, Proceed, files, Begun, Up, Stopping, Alive
  <2> QED BY <1>1, <1>2, <2>1
<1>5. CASE Announced
  <2>1. /\ trail' = OnTrail("started") /\ Alive /\ UNCHANGED <<env, run>>
    BY <1>5 DEF Announced, Alive
  <2>2. Store' = Store /\ trail[Store] \in Seq(Entries)
    BY <2>1, StoreKept DEF TypeInv, TypeOK, Entries
  <2>3. Entry("started")' = Entry("started") /\ Entry("started") \in Entries
    BY <2>1, Constants DEF Entry, Entries, TypeInv, TypeOK, Validated
  <2>4. CASE trail' = trail /\ trail[Store] # <<>>
               /\ trail[Store][Len(trail[Store])] = Entry("started")
    <3>1. Len(trail[Store]) \in DOMAIN trail[Store]
      BY <2>2, <2>4, EmptySeq, LenProperties
    <3> QED BY <2>2, <2>3, <2>4, <3>1 DEF StartIsTold
  <2>5. CASE trail'[Store] = Append(trail[Store], Entry("started"))
    <3>1. /\ trail'[Store] \in Seq(Entries)
          /\ Len(trail'[Store]) = Len(trail[Store]) + 1
          /\ trail'[Store][Len(trail[Store]) + 1] = Entry("started")
      BY <2>2, <2>3, <2>5, AppendProperties
    <3>2. Len(trail[Store]) + 1 \in DOMAIN trail'[Store]
      BY <2>2, <3>1, LenProperties
    <3> QED BY <2>2, <2>3, <3>1, <3>2 DEF StartIsTold
  <2> QED BY <2>1, <2>4, <2>5, TrailGrows
<1>6. CASE SignOff
  BY <1>1, <1>6 DEF SignOff, Alive, Begun, Up, Stopping
<1>7. CASE GoDown \/ \E e \in DOMAIN Environments : Start(e)
  <2>1. phase' \in {"down", "connecting"}
    BY <1>7 DEF GoDown, Start
  <2> QED BY <1>2, <2>1 DEF Begun, Up, Stopping
<1>8. CASE \/ SeedBegins \/ Seeded \/ Signal \/ GraceExpires \/ OutsideChanges
           \/ \E s \in Seeders : \/ Launch(s) \/ WaitForReady(s) \/ WaitIsOver(s)
                                 \/ AlreadySeeded(s) \/ GiveUp(s) \/ Cut(s) \/ Replayed(s)
           \/ \E a \in Actors : \/ Post(a) \/ Answered(a) \/ FindIncident(a) \/ SaveIncident(a)
  <2>1. UNCHANGED <<env, run, trail>>
    BY <1>8 DEF SeedBegins, Seeded, Signal, GraceExpires, OutsideChanges, Fails, Recovers,
                Launch, WaitForReady, WaitIsOver, AlreadySeeded, GiveUp, Cut, Replayed,
                Post, Answered, FindIncident, SaveIncident, process, files
  <2>2. phase \in Begun \/ phase' \notin Begun
    BY <1>8 DEF SeedBegins, Seeded, Signal, GraceExpires, OutsideChanges, Fails, Recovers,
                Launch, WaitForReady, WaitIsOver, AlreadySeeded, GiveUp, Cut, Replayed,
                Post, Answered, FindIncident, SaveIncident, process, Begun, Up, Stopping
  <2> QED BY <1>1, <1>2, <2>1, <2>2 DEF Begun, Up, Stopping, Alive
<1>9. ASSUME NEW a \in Actors, Tell(a)
      PROVE  StartIsTold'
  <2>1. phase \in Begun
    BY <1>9 DEF Tell, Handles, StageInv, OwnSeedsFirst, SeedersAreServed, Actors, Begun
  <2>2. /\ UNCHANGED <<env, run>>
        /\ trail' = trail \/ trail' = OnTrail("request")
    BY <1>9 DEF Tell, process
  <2> QED BY <1>1, <2>1, <2>2 DEF Begun, Up, Stopping, Alive
<1>10. QED
  BY <1>3, <1>4, <1>5, <1>6, <1>7, <1>8, <1>9, StepCases

(* The entries of a run on disk come after its start. *)
LEMMA BeginStep ==
  ASSUME TypeInv, StageInv, StartIsTold, RunsBegin, [Next]_vars
  PROVE  RunsBegin'
<1>1. CASE Disk' = Disk
  BY <1>1 DEF RunsBegin, Disk
<1>2. ASSUME Alive, NEW what \in {"started", "request", "stopped"}, trail' = OnTrail(what),
             what # "started" => phase \in Begun
      PROVE  RunsBegin'
  <2> DEFINE last == Len(Disk) + 1
  <2>1. CASE Disk' = Disk
    BY <1>1, <2>1
  <2>2. CASE Disk' # Disk
    <3>1. /\ Durable
          /\ DOMAIN Disk' = DOMAIN Disk \union {last}
          /\ \A i \in DOMAIN Disk : i < last /\ Disk'[i] = Disk[i]
          /\ Disk'[last] = Entry(what)
      BY <1>2, <2>2, DiskAppend
    <3>2. Len(Disk) \in Nat /\ DOMAIN Disk = 1..Len(Disk)
      BY DiskTyped, LenProperties
    <3>3. ASSUME NEW j \in DOMAIN Disk
          PROVE  \E i \in 1..j : Disk'[i] = [what |-> "started", run |-> Disk'[j].run]
      <4>1. PICK i \in 1..j : Disk[i] = [what |-> "started", run |-> Disk[j].run]
        BY DEF RunsBegin, Disk
      <4>2. i \in DOMAIN Disk
        BY <3>2
      <4> QED BY <3>1, <4>1, <4>2
    <3>4. \E i \in 1..last : Disk'[i] = [what |-> "started", run |-> Disk'[last].run]
      <4>1. Disk'[last].run = run
        BY <3>1 DEF Entry
      <4>2. CASE what = "started"
        <5>1. last \in 1..last /\ Disk'[last] = [what |-> "started", run |-> Disk'[last].run]
          BY <3>1, <3>2, <4>1, <4>2 DEF Entry
        <5> QED BY <5>1
      <4>3. CASE what # "started"
        <5>1. Store = "disk"
          BY <3>1 DEF Store
        <5>2. PICK i \in DOMAIN Disk : Disk[i] = Entry("started")
          BY <1>2, <4>3, <5>1 DEF StartIsTold, Disk
        <5>3. i \in 1..last /\ Disk'[i] = Entry("started")
          BY <3>1, <3>2, <5>2
        <5> QED BY <4>1, <5>3 DEF Entry
      <4> QED BY <4>2, <4>3
    <3> HIDE DEF last
    <3>5. \A j \in DOMAIN Disk' :
            \E i \in 1..j : Disk'[i] = [what |-> "started", run |-> Disk'[j].run]
      BY <3>1, <3>3, <3>4
    <3> QED BY <3>5 DEF RunsBegin, Disk
  <2> QED BY <2>1, <2>2
<1>3. CASE Announced
  BY <1>2, <1>3 DEF Announced, Alive
<1>4. CASE SignOff
  <2>1. Alive /\ phase \in Begun /\ (trail' = OnTrail("stopped") \/ trail' = trail)
    BY <1>4 DEF SignOff, Alive, Begun, Up, Stopping
  <2> QED BY <1>1, <1>2, <2>1 DEF Disk
<1>5. ASSUME NEW a \in Actors, Tell(a)
      PROVE  RunsBegin'
  <2>1. phase \in Begun
    BY <1>5 DEF Tell, Handles, StageInv, OwnSeedsFirst, SeedersAreServed, Actors, Begun
  <2>2. Alive /\ (trail' = OnTrail("request") \/ trail' = trail)
    BY <1>5, <2>1 DEF Tell, Alive, Begun, Up, Stopping
  <2> QED BY <1>1, <1>2, <2>1, <2>2 DEF Disk
<1>6. CASE GoDown
  BY <1>1, <1>6 DEF GoDown, Disk, TypeInv, TypeOK, Stores
<1>7. CASE \/ UNCHANGED vars \/ (\E e \in DOMAIN Environments : Start(e))
           \/ Moves \/ SeedBegins \/ Seeded \/ Signal \/ GraceExpires \/ OutsideChanges
  <2>1. trail' = trail
    BY <1>7 DEF vars, Start, Moves, Proceed, SeedBegins, Seeded, Signal, GraceExpires,
                OutsideChanges, Fails, Recovers, files
  <2> QED BY <1>1, <2>1 DEF Disk
<1>8. ASSUME NEW s \in Seeders,
             \/ Launch(s) \/ WaitForReady(s) \/ WaitIsOver(s) \/ AlreadySeeded(s)
             \/ GiveUp(s) \/ Cut(s) \/ Replayed(s)
      PROVE  RunsBegin'
  <2>1. trail' = trail
    BY <1>8 DEF Launch, WaitForReady, WaitIsOver, AlreadySeeded, GiveUp, Cut, Replayed, files
  <2> QED BY <1>1, <2>1 DEF Disk
<1>9. ASSUME NEW a \in Actors, Post(a) \/ Answered(a) \/ FindIncident(a) \/ SaveIncident(a)
      PROVE  RunsBegin'
  <2>1. trail' = trail
    BY <1>9 DEF Post, Answered, FindIncident, SaveIncident, files
  <2> QED BY <1>1, <2>1 DEF Disk
<1>10. QED
  BY <1>3, <1>4, <1>5, <1>6, <1>7, <1>8, <1>9, StepCases

(* The trail that outlives the process tells its runs apart: whatever      *)
(* crashes, restarts and grace periods that end under a request, a run's    *)
(* entries begin with its one start, nothing follows its stop, and when the *)
(* stop is recorded no request is left in a handler.                        *)
THEOREM RunsAreToldApart == Spec => []StoppedMeansDrained
<1>1. Init => TypeInv /\ StageInv /\ DiskInv /\ StartIsTold /\ RunsBegin
  <2>1. Init => DiskInv /\ StartIsTold /\ RunsBegin
    BY DEF Init, DiskInv, StopsTurnAway, DiskTellsRuns, RunsEnd, RunsBegin, Disk, Stores,
           Alive, StartIsTold, Begun, Up, Stopping
  <2> QED BY <2>1, InitTyped
<1>2. TypeInv /\ StageInv /\ DiskInv /\ StartIsTold /\ RunsBegin /\ [Next]_vars
        => (TypeInv /\ StageInv /\ DiskInv /\ StartIsTold /\ RunsBegin)'
  BY TypeStep, StageStep, DiskStep, ToldStep, BeginStep
<1>3. DiskInv /\ RunsBegin => StoppedMeansDrained
  BY DEF DiskInv, DiskTellsRuns, OnDisk, Entry, Disk, StoppedMeansDrained
<1>4. QED
  BY <1>1, <1>2, <1>3, PTL DEF Spec

(* A step inside a run that touches neither the incidents nor what is known *)
(* of them.                                                                 *)
LEMMA OpenKept ==
  ASSUME TypeInv, OpenOnFile, Alive, Alive', UNCHANGED <<env, incidents, open, merges>>,
         faltered => faltered',
         posted'[Own] > 0 => posted[Own] > 0 \/ hand[Own] = "telling",
         hand'[Own] = "telling" => hand[Own] = "telling",
         phase' = "serving" => \/ phase = "serving" \/ OnFile \/ posted[Own] > 0
                               \/ ~Settled.seed
  PROVE  OpenOnFile'
<1>1. Store' = Store /\ Settled' = Settled /\ OnFile' = OnFile
  BY StoreKept DEF OnFile
<1>2. QED
  BY <1>1 DEF OpenOnFile

LEMMA OpenSaves ==
  ASSUME TypeInv, StageInv, OpenOnFile, NEW a \in Actors, SaveIncident(a)
  PROVE  OpenOnFile'
<1>1. Alive
  BY DEF SaveIncident, Handles, StageInv, OwnSeedsFirst, SeedersAreServed, Actors, Up,
         Stopping, Alive
<1>2. /\ UNCHANGED <<phase, env, posted>>
      /\ merges' = [merges EXCEPT ![a] = FALSE]
      /\ hand' = [hand EXCEPT ![a] = "telling"]
      /\ \/ incidents' = Filed(a) /\ faltered' = faltered
         \/ /\ incidents' = incidents /\ open' = open
            /\ faltered' = (faltered \/ a = Own)
  <2>1. /\ UNCHANGED <<phase, env, posted>>
        /\ merges' = [merges EXCEPT ![a] = FALSE]
        /\ hand' = [hand EXCEPT ![a] = "telling"]
    BY DEF SaveIncident, Handles, process
  <2>2. \/ incidents' = Filed(a) /\ faltered' = faltered
        \/ /\ incidents' = incidents /\ open' = open
           /\ faltered' = (faltered \/ a = Own)
    BY DEF SaveIncident, history
  <2> QED BY <2>1, <2>2
<1>3. Store' = Store /\ Store \in Stores /\ incidents[Store] \in Nat /\ Settled' = Settled
  BY <1>1, <1>2, StoreKept
<1>4. incidents' = Filed(a) => OnFile'
  <2>1. CASE merges[a]
    BY <1>3, <2>1 DEF Filed, OnFile, OpenOnFile
  <2>2. CASE ~merges[a]
    <3>1. incidents' = Filed(a) => incidents'[Store] = incidents[Store] + 1
      BY <1>3, <2>2 DEF Filed, TypeInv, TypeOK
    <3> QED BY <1>3, <3>1 DEF OnFile
  <2> QED BY <2>1, <2>2
<1>5. OnFile => OnFile'
  BY <1>2, <1>3, <1>4 DEF OnFile
<1>6. Alive'
  BY <1>1, <1>2 DEF Alive
<1>7. /\ \A b \in Actors : merges'[b] => merges[b]
      /\ hand'[Own] = "telling" => hand[Own] = "telling" \/ a = Own
  BY <1>2 DEF TypeInv, TypeOK
<1>8. open' => open \/ OnFile'
  BY <1>2, <1>4
<1>9. QED
  BY <1>2, <1>3, <1>4, <1>5, <1>6, <1>7, <1>8 DEF OpenOnFile

LEMMA OpenStep ==
  ASSUME TypeInv, StageInv, OpenOnFile, [Next]_vars
  PROVE  OpenOnFile'
<1>1. CASE UNCHANGED vars
  BY <1>1 DEF vars, process, files, work, history, OpenOnFile, Alive, OnFile, Store,
              Durable, Settled, Config
<1>2. CASE GoDown
  BY <1>2, Constants DEF GoDown, OpenOnFile
<1>3. CASE \E e \in DOMAIN Environments : Start(e)
  <2>1. ~Alive /\ UNCHANGED <<files, work, history>> /\ phase' # "serving"
    BY <1>3 DEF Start, Alive
  <2>2. /\ ~open /\ \A a \in Actors : ~merges[a]
        /\ ~(posted[Own] > 0) /\ hand[Own] # "telling"
    BY <2>1, Constants
    DEF OpenOnFile, StageInv, HandsFollowStages, OwnSeedsFirst, Alive
  <2> QED BY <2>1, <2>2 DEF OpenOnFile, files, work, history
<1>4. CASE Moves
  <2>1. UNCHANGED <<env, incidents, open, merges, faltered, posted, hand>> /\ Alive /\ Alive'
    BY <1>4 DEF Moves, Proceed, files, work, history, Alive
  <2>2. phase' = "serving" => OnFile
    BY <1>4 DEF Moves, Proceed, OnFile
  <2> QED BY <2>1, <2>2, OpenKept
<1>5. CASE Announced
  <2>1. UNCHANGED <<env, incidents, open, merges, faltered, posted, hand>> /\ Alive
    BY <1>5 DEF Announced, work, history, Alive
  <2>2. Alive' /\ (phase' = "serving" => ~Settled.seed)
    BY <1>5 DEF Announced, AfterAnnouncing, Alive
  <2> QED BY <2>1, <2>2, OpenKept
<1>6. CASE Seeded
  <2>1. UNCHANGED <<env, incidents, open, merges, faltered, hand>> /\ Alive /\ Alive'
    BY <1>6 DEF Seeded, files, history, Alive
  <2>2. posted[Own] > 0 /\ ~(posted'[Own] > 0)
    BY <1>6, Constants DEF Seeded, TypeInv, TypeOK
  <2> QED BY <2>1, <2>2, OpenKept
<1>7. CASE \/ SeedBegins \/ Signal \/ GraceExpires \/ SignOff
           \/ \E s \in Seeders : \/ Launch(s) \/ WaitForReady(s) \/ WaitIsOver(s)
                                 \/ AlreadySeeded(s) \/ GiveUp(s) \/ Cut(s) \/ Replayed(s)
           \/ OutsideChanges
  <2>1. /\ UNCHANGED <<env, incidents, open, merges, faltered, hand>>
        /\ phase' = phase \/ phase' \in {"signing off", "closing"}
        /\ phase = "down" => phase' = "down"
    BY <1>7 DEF SeedBegins, Signal, GraceExpires, SignOff, OutsideChanges, Fails, Recovers,
                Launch, WaitForReady, WaitIsOver, AlreadySeeded, GiveUp, Cut, Replayed,
                process, files, work, history
  <2>2. posted'[Own] = posted[Own]
    BY <1>7, Constants
       DEF SeedBegins, Signal, GraceExpires, SignOff, OutsideChanges, Fails, Recovers,
           Launch, WaitForReady, WaitIsOver, AlreadySeeded, GiveUp, Cut, Replayed,
           work, TypeInv, TypeOK
  <2>3. CASE Alive
    BY <2>1, <2>2, <2>3, OpenKept DEF Alive
  <2>4. CASE ~Alive
    BY <2>1, <2>2, <2>4, Constants
    DEF OpenOnFile, Alive, StageInv, OwnSeedsFirst, HandsFollowStages
  <2> QED BY <2>3, <2>4
<1>8. ASSUME NEW a \in Actors, Post(a) \/ Answered(a) \/ Tell(a)
      PROVE  OpenOnFile'
  <2>1. UNCHANGED <<phase, env, incidents, open, merges, faltered>>
    BY <1>8 DEF Post, Answered, Tell, process, files, history
  <2>2. /\ hand'[Own] = "telling" => hand[Own] = "telling"
        /\ posted'[Own] > 0 => posted[Own] > 0 \/ hand[Own] = "telling"
    BY <1>8, Constants DEF Post, Answered, Tell, Handles, TypeInv, TypeOK
  <2>3. CASE Alive
    BY <2>1, <2>2, <2>3, OpenKept DEF Alive
  <2>4. CASE ~Alive
    BY <2>1, <2>2, <2>4, Constants
    DEF OpenOnFile, Alive, StageInv, OwnSeedsFirst, HandsFollowStages
  <2> QED BY <2>3, <2>4
<1>9. ASSUME NEW a \in Actors, FindIncident(a)
      PROVE  OpenOnFile'
  <2>1. /\ UNCHANGED <<phase, env, incidents, open, faltered, posted>>
        /\ hand' = [hand EXCEPT ![a] = "saving"]
        /\ merges' = [merges EXCEPT ![a] = open /\ HandlerReaches(a)]
    BY <1>9 DEF FindIncident, Handles, process, files
  <2>2. Alive
    BY <1>9 DEF FindIncident, Handles, StageInv, OwnSeedsFirst, SeedersAreServed, Actors,
                Up, Stopping, Alive
  <2>3. Store' = Store /\ Settled' = Settled /\ OnFile' = OnFile /\ Alive'
    BY <2>1, <2>2, StoreKept DEF OnFile, Alive
  <2>4. \A b \in Actors : merges'[b] => merges[b] \/ open
    BY <2>1 DEF TypeInv, TypeOK
  <2>5. hand'[Own] = "telling" => hand[Own] = "telling"
    BY <2>1 DEF TypeInv, TypeOK
  <2> QED BY <2>1, <2>2, <2>3, <2>4, <2>5 DEF OpenOnFile
<1>10. QED
  BY <1>1, <1>2, <1>3, <1>4, <1>5, <1>6, <1>7, <1>8, <1>9, OpenSaves, StepCases

PreparedInv == StartIsTold /\ OpenOnFile

LEMMA Prepared ==
  ASSUME TypeInv, PreparedInv
  PROVE  ServingIsPrepared
<1> SUFFICES ASSUME phase = "serving" PROVE ServingIsPrepared
  BY DEF ServingIsPrepared
<1> DEFINE set == Environments[env]
<1>1. /\ env \in DOMAIN Environments /\ Settled = Load(set) /\ Validate(Settled)
  BY DEF TypeInv, TypeOK, Validated, Alive, Settled, Config
<1>2. set["GRIEFER_HTTP_ADDR"] \in Addresses
  BY <1>1, EnvironmentsAreSettings
<1>3. \E i \in DOMAIN trail[Store] : trail[Store][i] = Entry("started")
  BY DEF PreparedInv, StartIsTold, Begun, Up
<1>4. set["SEED_SYNTHETIC_DEMO"] = "true" => incidents[Store] > 0 \/ faltered
  <2>1. Load(set).seed = Flag(set, "SEED_SYNTHETIC_DEMO", FALSE)
    BY DEF Load
  <2>2. set["SEED_SYNTHETIC_DEMO"] = "true" => Settled.seed
    BY <1>1, <2>1 DEF Flag
  <2> QED BY <2>2 DEF PreparedInv, OpenOnFile, OnFile
<1>5. \/ set["INTERNAL_API_TOKEN"] # "" \/ set["GRIEFER_INTERNAL_API_TOKEN"] # ""
      \/ set["GRIEFER_ALLOW_PUBLIC_BIND"] = "true"
      \/ set["GRIEFER_HTTP_ADDR"] = "loopback"
      \/ set["GRIEFER_HTTP_ADDR"] = "" /\ set["PORT"] = ""
  BY <1>1, <1>2, ValidMeansGuarded
<1>6. QED
  BY <1>3, <1>4, <1>5 DEF ServingIsPrepared

(* A process that serves is prepared (config.go:170, main.go:185, 323), in  *)
(* whatever environment, after whatever starts that failed: a credential is  *)
(* needed of whoever can reach it, its start is on its trail, and a          *)
(* demonstration asked for is on file unless a correlation of it failed.     *)
THEOREM ServingProcessIsPrepared == Spec => []ServingIsPrepared
<1>1. Init => TypeInv /\ StageInv /\ PreparedInv
  <2>1. Init => PreparedInv
    BY Constants DEF Init, PreparedInv, StartIsTold, OpenOnFile, Begun, Up, Stopping
  <2> QED BY <2>1, InitTyped
<1>2. TypeInv /\ StageInv /\ PreparedInv /\ [Next]_vars
        => (TypeInv /\ StageInv /\ PreparedInv)'
  BY TypeStep, StageStep, ToldStep, OpenStep DEF PreparedInv
<1>3. TypeInv /\ PreparedInv => ServingIsPrepared
  BY Prepared
<1>4. QED
  BY <1>1, <1>2, <1>3, PTL DEF Spec

-----------------------------------------------------------------------------
(* One incident                                                            *)

(* Undisturbed, one replay runs at a time, of a scenario that has no        *)
(* incident yet or one that is known to be open; what it saves besides is    *)
(* the first.                                                               *)
ReplaysFirst(a) ==
  /\ a \in Seeders => phase \in Up
  /\ incidents[Store] = 0 \/ open
  /\ hand[a] = "saving" /\ ~merges[a] => incidents[Store] = 0

AloneInv ==
  ~disturbed =>
    /\ \A a, b \in Actors : Replays(a) /\ Replays(b) => a = b
    /\ \A a \in Actors : Replays(a) => ReplaysFirst(a)
    /\ \A s \in Stores : incidents[s] <= 1

(* Steps that begin no replay and save nothing. *)
LEMMA AloneKept ==
  ASSUME TypeInv, AloneInv, disturbed => disturbed', UNCHANGED <<incidents, open>>,
         env' = env \/ \A a \in Actors : ~Replays(a),
         \A a \in Actors :
           Replays(a)' => /\ Replays(a)
                          /\ hand'[a] = "saving" => hand[a] = "saving" /\ merges'[a] = merges[a]
                          /\ a \in Seeders /\ phase \in Up => phase' \in Up
  PROVE  AloneInv'
<1> SUFFICES ASSUME ~disturbed' PROVE AloneInv'
  BY DEF AloneInv
<1>1. ~disturbed
  OBVIOUS
<1>2. /\ \A a, b \in Actors : Replays(a)' /\ Replays(b)' => a = b
      /\ \A s \in Stores : incidents'[s] <= 1
  BY <1>1 DEF AloneInv
<1>3. ASSUME NEW a \in Actors, Replays(a)'
      PROVE  ReplaysFirst(a)'
  <2>1. Store' = Store
    BY <1>3 DEF Store, Durable, Settled, Config
  <2> QED BY <1>1, <1>3, <2>1 DEF AloneInv, ReplaysFirst
<1>4. QED
  BY <1>2, <1>3 DEF AloneInv

(* The one actor that replays goes on, or begins. *)
LEMMA AloneReplay ==
  ASSUME TypeInv, AloneInv, NEW a \in Actors, disturbed => disturbed',
         ~disturbed' => \A b \in Actors \ {a} : ~Replays(b)',
         ~disturbed' => ReplaysFirst(a)',
         ~disturbed' => \A s \in Stores : incidents'[s] <= 1
  PROVE  AloneInv'
BY DEF AloneInv

LEMMA AloneSaves ==
  ASSUME TypeInv, StageInv, AloneInv, NEW a \in Actors, SaveIncident(a)
  PROVE  AloneInv'
<1>1. /\ UNCHANGED <<phase, env, stage>>
      /\ hand' = [hand EXCEPT ![a] = "telling"]
      /\ hand[a] = "saving"
  BY DEF SaveIncident, Handles, process
<1>2. Store' = Store /\ Store \in Stores /\ incidents \in [Stores -> Nat]
  BY <1>1 DEF Store, Durable, Settled, Config, Stores, TypeInv, TypeOK
<1>3. \/ incidents' = Filed(a) /\ open' /\ disturbed' = disturbed
      \/ incidents' = incidents /\ open' = open /\ disturbed' = disturbed
      \/ incidents' = Filed(a) /\ open' = open /\ disturbed' = (disturbed \/ ~merges[a])
  BY DEF SaveIncident, history
<1>4. disturbed => disturbed'
  BY <1>3 DEF TypeInv, TypeOK
<1>5. ASSUME ~disturbed'
      PROVE  /\ \A b \in Actors \ {a} : ~Replays(b)'
             /\ ReplaysFirst(a)'
             /\ \A s \in Stores : incidents'[s] <= 1
  <2>1. ~disturbed /\ Replays(a)
    BY <1>1, <1>4, <1>5 DEF Replays
  <2>2. ReplaysFirst(a) /\ \A s \in Stores : incidents[s] <= 1
    BY <2>1 DEF AloneInv
  <2>3. \A b \in Actors \ {a} : ~Replays(b)
    BY <2>1 DEF AloneInv
  <2>4. \A b \in Actors \ {a} : hand'[b] = hand[b] /\ stage'[b] = stage[b]
    BY <1>1 DEF TypeInv, TypeOK
  <2>5. \A b \in Actors \ {a} : ~Replays(b)'
    BY <2>3, <2>4 DEF Replays
  <2>6. hand'[a] = "telling"
    BY <1>1 DEF TypeInv, TypeOK
  <2>7. CASE merges[a]
    <3>1. incidents' = incidents /\ (open => open')
      BY <1>3, <2>7 DEF Filed
    <3> QED BY <1>1, <1>2, <2>2, <2>5, <2>6, <3>1 DEF ReplaysFirst
  <2>8. CASE ~merges[a]
    <3>1. incidents[Store] = 0
      BY <1>1, <2>2, <2>8 DEF ReplaysFirst
    <3>2. CASE incidents' = incidents /\ open' = open
      BY <1>1, <1>2, <2>2, <2>5, <2>6, <3>2 DEF ReplaysFirst
    <3>3. CASE incidents' = Filed(a) /\ open'
      <4>1. incidents' = [incidents EXCEPT ![Store] = 1]
        BY <2>8, <3>1, <3>3, <1>2 DEF Filed
      <4>2. \A s \in Stores : incidents'[s] <= 1
        BY <1>2, <2>2, <4>1
      <4> QED BY <1>1, <2>2, <2>5, <2>6, <3>3, <4>2 DEF ReplaysFirst
    <3> QED BY <1>3, <1>5, <2>8, <3>2, <3>3
  <2> QED BY <2>7, <2>8
<1>6. QED
  BY <1>4, <1>5, AloneReplay

LEMMA AloneStep ==
  ASSUME TypeInv, StageInv, AloneInv, [Next]_vars
  PROVE  AloneInv'
<1> USE DEF Replays
<1>1. CASE \/ UNCHANGED vars \/ Announced \/ Signal \/ GraceExpires \/ SignOff
           \/ OutsideChanges \/ Moves
  <2>1. UNCHANGED <<env, incidents, open, stage, hand, merges, disturbed>>
    BY <1>1 DEF vars, Announced, Signal, GraceExpires, SignOff, OutsideChanges, Moves,
                Fails, Recovers, Proceed, process, files, work, history
  <2>2. phase \in Up => phase' \in Up
    BY <1>1 DEF vars, Announced, Signal, GraceExpires, SignOff, OutsideChanges, Moves,
                Fails, Recovers, Proceed, process, Up, Stopping
  <2> QED BY <2>1, <2>2, AloneKept
<1>2. CASE GoDown
  <2>1. ASSUME ~disturbed' PROVE \A a \in Actors : ~Replays(a)'
    BY <1>2, <2>1 DEF GoDown
  <2>2. disturbed => disturbed'
    BY <1>2 DEF GoDown
  <2>3. ASSUME ~disturbed' PROVE \A s \in Stores : incidents'[s] <= 1
    <3>1. \A s \in Stores : incidents[s] \in Nat /\ incidents[s] <= 1
      BY <2>2, <2>3 DEF AloneInv, TypeInv, TypeOK
    <3>2. \A s \in Stores : incidents'[s] \in {0, incidents[s]}
      BY <1>2 DEF GoDown, TypeInv, TypeOK
    <3> QED BY <3>1, <3>2
  <2> QED BY <2>1, <2>3 DEF AloneInv
<1>3. CASE \E e \in DOMAIN Environments : Start(e)
  <2>1. /\ UNCHANGED <<incidents, open, stage, hand, merges, disturbed>>
        /\ phase = "down"
    BY <1>3 DEF Start, files, work, history
  <2>2. \A a \in Actors : ~disturbed => ~Replays(a)
    BY <2>1 DEF AloneInv, ReplaysFirst, Up, Stopping, StageInv, OwnSeedsFirst, Actors
  <2>3. CASE disturbed
    BY <2>1, <2>3 DEF AloneInv
  <2> QED BY <2>1, <2>2, <2>3, AloneKept
<1>4. CASE SeedBegins
  <2>1. /\ UNCHANGED <<phase, env, incidents, open, hand, merges, disturbed>>
        /\ stage' = [stage EXCEPT ![Own] = "replaying"]
        /\ ~(incidents[Store] > 0) /\ phase = "seeding" /\ hand[Own] = "none"
    BY <1>4 DEF SeedBegins, process, files, history, StageInv, OwnSeedsFirst
  <2>2. Store' = Store /\ incidents'[Store] = 0
    BY <2>1 DEF Store, Durable, Settled, Config, Stores, TypeInv, TypeOK
  <2>3. ASSUME ~disturbed', NEW b \in Actors \ {Own} PROVE ~Replays(b)'
    <3>1. b \in Seeders /\ phase \notin Up
      BY <2>1, <2>3 DEF Actors, Up, Stopping
    <3>2. ~Replays(b)
      BY <2>1, <2>3, <3>1 DEF AloneInv, ReplaysFirst
    <3> QED BY <2>1, <3>2 DEF TypeInv, TypeOK
  <2>4. ReplaysFirst(Own)'
    BY <2>1, <2>2, Constants DEF ReplaysFirst
  <2>5. ~disturbed' => \A s \in Stores : incidents'[s] <= 1
    BY <2>1 DEF AloneInv
  <2> QED BY <2>1, <2>3, <2>4, <2>5, Constants, AloneReplay
<1>5. CASE Seeded
  <2>1. /\ UNCHANGED <<env, incidents, open, hand, merges, disturbed>> /\ phase = "seeding"
        /\ stage' = [stage EXCEPT ![Own] = "idle"]
    BY <1>5 DEF Seeded, files, history
  <2>2. \A a \in Actors : Replays(a)' => Replays(a)
    BY <2>1 DEF TypeInv, TypeOK
  <2> QED BY <2>1, <2>2, AloneKept DEF Up, Stopping
<1>6. ASSUME NEW s \in Seeders,
             Launch(s) \/ WaitForReady(s) \/ WaitIsOver(s) \/ GiveUp(s) \/ Cut(s) \/ Replayed(s)
      PROVE  AloneInv'
  <2>1. UNCHANGED <<phase, env, incidents, open, hand, merges, disturbed>>
    BY <1>6 DEF Launch, WaitForReady, WaitIsOver, GiveUp, Cut, Replayed,
                process, files, history
  <2>2. stage' = stage \/ \E to \in {"idle", "waiting", "checking"} :
                             stage' = [stage EXCEPT ![s] = to]
    BY <1>6 DEF Launch, WaitForReady, WaitIsOver, GiveUp, Cut, Replayed, Step
  <2>3. \A a \in Actors : Replays(a)' => Replays(a)
    BY <2>1, <2>2 DEF TypeInv, TypeOK
  <2> QED BY <2>1, <2>3, AloneKept
<1>7. ASSUME NEW s \in Seeders, AlreadySeeded(s)
      PROVE  AloneInv'
  <2> DEFINE replay == phase = "serving" /\ Reaches(FALSE) /\ incidents[Store] = 0
  <2>1. /\ UNCHANGED <<phase, env, incidents, open, hand, merges>>
        /\ stage[s] = "checking"
        /\ stage' = [stage EXCEPT ![s] = IF replay THEN "replaying" ELSE "idle"]
        /\ disturbed' = (disturbed \/ (replay /\ \E a \in Actors \ {s} : Replays(a)))
    BY <1>7 DEF AlreadySeeded, Step, process, files
  <2>2. disturbed => disturbed'
    BY <2>1
  <2>3. s \in Actors
    BY Constants
  <2>4. CASE ~replay
    <3>1. \A a \in Actors : Replays(a)' => Replays(a)
      BY <2>1, <2>4 DEF TypeInv, TypeOK
    <3> QED BY <2>1, <2>2, <3>1, AloneKept
  <2>5. CASE replay
    <3>1. ASSUME ~disturbed', NEW b \in Actors \ {s} PROVE ~Replays(b)'
      <4>1. ~Replays(b)
        BY <2>1, <2>5, <3>1
      <4> QED BY <2>1, <4>1 DEF TypeInv, TypeOK
    <3>2. hand[s] = "none"
      BY <2>1, <2>3 DEF StageInv, HandsFollowStages
    <3>3. Store' = Store
      BY <2>1 DEF Store, Durable, Settled, Config
    <3>4. ReplaysFirst(s)'
      BY <2>1, <2>5, <3>2, <3>3 DEF ReplaysFirst, Up
    <3>5. ~disturbed' => \A t \in Stores : incidents'[t] <= 1
      BY <2>1, <2>2 DEF AloneInv
    <3> QED BY <2>2, <2>3, <3>1, <3>4, <3>5, AloneReplay
  <2> QED BY <2>4, <2>5
<1>8. ASSUME NEW a \in Actors, Post(a) \/ Answered(a) \/ Tell(a)
      PROVE  AloneInv'
  <2>1. UNCHANGED <<phase, env, incidents, open, merges, disturbed>>
    BY <1>8 DEF Post, Answered, Tell, process, files, history
  <2>2. \A b \in Actors : Replays(b)' => Replays(b)
    BY <1>8 DEF Post, Answered, Tell, Handles, TypeInv, TypeOK
  <2>3. \A b \in Actors : hand'[b] = "saving" => hand[b] = "saving"
    BY <1>8 DEF Post, Answered, Tell, Handles, TypeInv, TypeOK
  <2> QED BY <2>1, <2>2, <2>3, AloneKept
<1>9. ASSUME NEW a \in Actors, FindIncident(a)
      PROVE  AloneInv'
  <2>1. /\ UNCHANGED <<phase, env, incidents, open, stage>> /\ hand[a] = "looking"
        /\ hand' = [hand EXCEPT ![a] = "saving"]
        /\ merges' = [merges EXCEPT ![a] = open /\ HandlerReaches(a)]
        /\ disturbed' = (disturbed \/ (open /\ ~HandlerReaches(a)))
    BY <1>9 DEF FindIncident, Handles, process, files
  <2>2. disturbed => disturbed'
    BY <2>1
  <2>3. ASSUME ~disturbed'
        PROVE  /\ \A b \in Actors \ {a} : ~Replays(b)'
               /\ ReplaysFirst(a)'
               /\ \A s \in Stores : incidents'[s] <= 1
    <3>1. ~disturbed /\ Replays(a)
      BY <2>1, <2>3
    <3>2. ReplaysFirst(a) /\ \A s \in Stores : incidents[s] <= 1
      BY <3>1 DEF AloneInv
    <3>3. \A b \in Actors \ {a} : ~Replays(b)
      BY <3>1 DEF AloneInv
    <3>4. \A b \in Actors \ {a} : ~Replays(b)'
      BY <2>1, <3>3 DEF TypeInv, TypeOK
    <3>5. merges'[a] = (open /\ HandlerReaches(a)) /\ ~(open /\ ~HandlerReaches(a))
      BY <2>1, <2>3 DEF TypeInv, TypeOK
    <3>6. Store' = Store
      BY <2>1 DEF Store, Durable, Settled, Config
    <3>7. ReplaysFirst(a)'
      BY <2>1, <3>2, <3>5, <3>6 DEF ReplaysFirst
    <3> QED BY <2>1, <3>2, <3>4, <3>7
  <2> QED BY <2>2, <2>3, AloneReplay
<1>10. QED
  BY <1>1, <1>2, <1>3, <1>4, <1>5, <1>6, <1>7, <1>8, <1>9, AloneSaves, StepCases

(* A restart does not stack duplicates (main.go:333, griefer-seed -once):   *)
(* however many seeders and starts there are and wherever they crash, the    *)
(* scenario makes one incident unless a replay was disturbed.                *)
THEOREM ScenarioIsSeededOnce == Spec => []SeedingStacksNothing
<1>1. Init => TypeInv /\ StageInv /\ AloneInv
  <2>1. Init => AloneInv
    BY DEF Init, AloneInv, Replays
  <2> QED BY <2>1, InitTyped
<1>2. TypeInv /\ StageInv /\ AloneInv /\ [Next]_vars => (TypeInv /\ StageInv /\ AloneInv)'
  BY TypeStep, StageStep, AloneStep
<1>3. AloneInv => SeedingStacksNothing
  BY DEF AloneInv, SeedingStacksNothing
<1>4. QED
  BY <1>1, <1>2, <1>3, PTL DEF Spec

=============================================================================
