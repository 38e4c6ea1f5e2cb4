----------------------------- MODULE Lifecycle -----------------------------
(***************************************************************************)
(* The life of the API process (cmd/griefer-api/main.go) and of the        *)
(* seeders that fill it (seedSyntheticDemo, run inside it before it        *)
(* listens; cmd/griefer-seed, a client that replays the scenario over      *)
(* HTTP): start in order, refuse to start half prepared, serve, stop in    *)
(* order within a grace period, crash at any point, start again.           *)
(*                                                                         *)
(* The requests are those of the seeders.  The handler of a post is        *)
(* Service.Ingest in the steps that matter here: store the event, look for *)
(* the incident open for the scenario's one actor, save the incident, put  *)
(* the event on the trail.  Every event of the scenario makes a finding.   *)
(* The event bus never holds up a start (newPublisher falls back to a      *)
(* publisher that does nothing) and has no part here.                      *)
(***************************************************************************)
EXTENDS Configuration, Sequences, FiniteSets

CONSTANTS
  Environments,    \* the environments the process may be started in, by name
  NoEnvironment,   \* it is not running
  Seeders,         \* griefer-seed -once processes
  Own,             \* the seeder inside the API process
  ScenarioLength,  \* events of the scenario
  MaxRuns,         \* bound: starts of the API process in a behaviour
  MaxLaunches,     \* bound: starts of a seeder in a behaviour
  MaxOutages       \* bound: outages and unheard commits in a behaviour

ASSUME EnvironmentsAreSettings ==
  \A name \in DOMAIN Environments :
    /\ Environments[name] \in [Settings -> STRING]
    /\ Environments[name]["GRIEFER_HTTP_ADDR"] \in Addresses

ASSUME ScenarioIsNotEmpty ==
  /\ ScenarioLength \in Nat \ {0}
  /\ Own \notin Seeders /\ NoEnvironment \notin DOMAIN Environments

ASSUME BoundsAreNatural ==
  MaxRuns \in Nat /\ MaxLaunches \in Nat /\ MaxOutages \in Nat

Actors == Seeders \union {Own}
Dependencies == {"postgres", "opa"}
Stores == {"disk", "ram"}

Starting == {"connecting", "probing", "announcing", "seeding"}
Stopping == {"draining", "signing off", "closing"}

VARIABLES
  phase,      \* where run() is
  env,        \* the environment it was started in
  run,        \* the number of starts so far
  signalled,  \* SIGTERM cancelled the root context
  expired,    \* the grace period is over: shutdownCtx is done
  up,         \* the dependencies that answer
  trail,      \* per store: the audit trail; a run's consecutive request entries are one
  incidents,  \* per store: the scenario's incidents on file
  open,       \* openSubjects knows the scenario's actor
  stage,      \* where each seeder is
  posted,     \* the events it has had acknowledged
  hand,       \* where the handler of its post is
  merges,     \* that handler found an open incident to merge into
  cut,        \* handlers whose request context was cancelled
  faltered,   \* history: a correlation of this run's own seeding failed
  disturbed,  \* history: see SeedingStacksNothing
  launches, outages

process == <<phase, env, run, signalled, expired>>
files   == <<trail, incidents>>
work    == <<open, stage, posted, hand, merges, cut>>
history == <<faltered, disturbed>>
counts  == <<launches, outages>>
vars    == <<process, up, files, work, history, counts>>

Config == [name \in DOMAIN Environments |-> Load(Environments[name])]
Settled == Config[env]
Alive == phase # "down"
Durable == Settled.postgres
Store == IF Durable THEN "disk" ELSE "ram"
Remote == Settled.opaURL # ""

Entry(what) == [what |-> what, run |-> run]
OnTrail(what) ==
  IF trail[Store] # <<>> /\ trail[Store][Len(trail[Store])] = Entry(what) THEN trail
  ELSE [trail EXCEPT ![Store] = Append(@, Entry(what))]

TypeOK ==
  /\ phase \in {"down", "serving"} \union Starting \union Stopping
  /\ env \in DOMAIN Environments \union {NoEnvironment}
  /\ env = NoEnvironment <=> phase = "down"
  /\ run \in 0..MaxRuns
  /\ signalled \in BOOLEAN /\ expired \in BOOLEAN
  /\ up \subseteq Dependencies
  /\ trail \in [Stores -> Seq([what : {"started", "request", "stopped"}, run : 1..MaxRuns])]
  /\ incidents \in [Stores -> Nat]
  /\ open \in BOOLEAN
  /\ stage \in [Actors -> {"idle", "waiting", "checking", "replaying"}]
  /\ posted \in [Actors -> 0..ScenarioLength]
  /\ hand \in [Actors -> {"none", "storing", "looking", "saving", "telling"}]
  /\ merges \in [Actors -> BOOLEAN]
  /\ cut \subseteq Actors
  /\ faltered \in BOOLEAN /\ disturbed \in BOOLEAN
  /\ launches \in 0..MaxLaunches /\ outages \in 0..MaxOutages

Init ==
  /\ phase = "down" /\ env = NoEnvironment /\ run = 0
  /\ signalled = FALSE /\ expired = FALSE
  /\ up = Dependencies
  /\ trail = [s \in Stores |-> <<>>]
  /\ incidents = [s \in Stores |-> 0]
  /\ open = FALSE
  /\ stage = [a \in Actors |-> "idle"]
  /\ posted = [a \in Actors |-> 0]
  /\ hand = [a \in Actors |-> "none"]
  /\ merges = [a \in Actors |-> FALSE]
  /\ cut = {}
  /\ faltered = FALSE /\ disturbed = FALSE
  /\ launches = 0 /\ outages = 0

-----------------------------------------------------------------------------
(* Contexts *)

(* What the in-memory store is asked it does, whatever became of the        *)
(* context; a call to PostgreSQL needs the database and a live context: the *)
(* process's own while it starts, the request's in a handler.               *)
Reaches(cancelled) == ~Durable \/ ("postgres" \in up /\ ~cancelled)

HandlerReaches(a) == Reaches(a \in cut \/ (a = Own /\ signalled))

-----------------------------------------------------------------------------
(* The end of the process *)

(* The process is gone: with it go its memory, the in-memory store and the  *)
(* handlers; a seeder that was waiting for an answer gets none and gives    *)
(* up, one that was between two posts does not notice.                      *)
GoDown ==
  /\ phase' = "down" /\ env' = NoEnvironment
  /\ signalled' = FALSE /\ expired' = FALSE
  /\ trail' = [trail EXCEPT !["ram"] = <<>>]
  /\ incidents' = [incidents EXCEPT !["ram"] = 0]
  /\ open' = FALSE
  /\ LET gone == {a \in Actors : a = Own \/ hand[a] # "none"}
     IN  /\ stage' = [a \in Actors |-> IF a \in gone THEN "idle" ELSE stage[a]]
         /\ posted' = [a \in Actors |-> IF a \in gone THEN 0 ELSE posted[a]]
         /\ disturbed' = (disturbed \/ \E a \in Actors \ gone : stage[a] = "replaying")
  /\ hand' = [a \in Actors |-> "none"]
  /\ merges' = [a \in Actors |-> FALSE]
  /\ cut' = {}
  /\ faltered' = FALSE
  /\ UNCHANGED <<run, up, counts>>

(* A crash, or a listener that fails: run() returns its error at once, with *)
(* no word on the trail.                                                    *)
Crash == Alive /\ GoDown

-----------------------------------------------------------------------------
(* Start *)

(* A configuration Validate refuses ends the process before it did         *)
(* anything.                                                               *)
Start(e) ==
  /\ phase = "down" /\ run < MaxRuns
  /\ run' = run + 1
  /\ IF Validate(Config[e]) THEN phase' = "connecting" /\ env' = e
                          ELSE UNCHANGED <<phase, env>>
  /\ UNCHANGED <<signalled, expired, up, files, work, history, counts>>

Proceed(next) ==
  /\ phase' = next
  /\ UNCHANGED <<env, run, signalled, expired, up, files, work, history, counts>>

Connect ==
  /\ phase = "connecting"
  /\ IF Reaches(signalled) THEN Proceed("probing") ELSE GoDown

(* The embedded kernel may or may not notice that its context is cancelled. *)
Probe ==
  /\ phase = "probing"
  /\ \/ /\ Remote => "opa" \in up /\ ~signalled
        /\ Proceed("announcing")
     \/ /\ signalled \/ (Remote /\ "opa" \notin up)
        /\ GoDown

AfterAnnouncing == IF Settled.seed THEN "seeding" ELSE "serving"

(* Mutant: a start that cannot be recorded is logged, as a stop is. *)
AnnounceBestEffort ==
  /\ phase = "announcing"
  /\ phase' = AfterAnnouncing
  /\ trail' = IF Reaches(signalled) THEN OnTrail("started") ELSE trail
  /\ UNCHANGED <<env, run, signalled, expired, up, incidents, work, history, counts>>

(* The one audit write that is fatal.                                      *)
Announce ==
  /\ phase = "announcing"
  /\ IF Reaches(signalled)
     THEN /\ phase' = AfterAnnouncing
          /\ trail' = OnTrail("started")
          /\ UNCHANGED <<env, run, signalled, expired, up, incidents, work, history, counts>>
     ELSE GoDown

(* Mutant: the seeding does not look for what is there. *)
SeedRegardless ==
  /\ phase = "seeding" /\ stage[Own] = "idle"
  /\ IF Reaches(signalled)
     THEN /\ stage' = [stage EXCEPT ![Own] = "replaying"]
          /\ UNCHANGED <<process, up, files, open, posted, hand, merges, cut, history, counts>>
     ELSE GoDown

(* seedSyntheticDemo: nothing to do where there is an incident.            *)
Seed ==
  /\ phase = "seeding" /\ stage[Own] = "idle"
  /\ IF ~Reaches(signalled) THEN GoDown
     ELSE IF incidents[Store] > 0 THEN Proceed("serving")
     ELSE /\ stage' = [stage EXCEPT ![Own] = "replaying"]
          /\ UNCHANGED <<process, up, files, open, posted, hand, merges, cut, history, counts>>

Seeded ==
  /\ phase = "seeding" /\ stage[Own] = "replaying"
  /\ posted[Own] = ScenarioLength
  /\ phase' = "serving"
  /\ stage' = [stage EXCEPT ![Own] = "idle"]
  /\ posted' = [posted EXCEPT ![Own] = 0]
  /\ UNCHANGED <<env, run, signalled, expired, up, files, open, hand, merges, cut,
                 history, counts>>

-----------------------------------------------------------------------------
(* Seeders over HTTP: run(), with -once                                    *)

Step(a, from, to) ==
  /\ stage[a] = from
  /\ stage' = [stage EXCEPT ![a] = to]

(* A seeder's process is started anew only when no handler of its last one *)
(* is left; the other seeder covers that case.                             *)
Launch(s) ==
  /\ launches < MaxLaunches /\ hand[s] = "none"
  /\ launches' = launches + 1
  /\ Step(s, "idle", "waiting")
  /\ UNCHANGED <<process, up, files, open, posted, hand, merges, cut, history, outages>>

(* readiness: the store and the kernel are required, the bus is not.       *)
Ready == /\ phase = "serving"
         /\ Durable => "postgres" \in up
         /\ Remote => "opa" \in up

WaitForReady(s) ==
  /\ Ready
  /\ Step(s, "waiting", "checking")
  /\ UNCHANGED <<process, up, files, open, posted, hand, merges, cut, history, counts>>

(* The deadline of the wait: the last poll found no ready API, be it that  *)
(* the probes took longer than the time they share.                        *)
WaitIsOver(s) ==
  /\ Step(s, "waiting", "idle")
  /\ UNCHANGED <<process, up, files, open, posted, hand, merges, cut, history, counts>>

Replays(a) == stage[a] = "replaying" \/ hand[a] # "none"

(* alreadySeeded, and the decision it leads to.  An answer other than the  *)
(* list of incidents ends the seeder.                                      *)
AlreadySeeded(s) ==
  /\ LET answered == phase = "serving" /\ Reaches(FALSE)
         replay == answered /\ incidents[Store] = 0
     IN  /\ Step(s, "checking", IF replay THEN "replaying" ELSE "idle")
         /\ disturbed' = (disturbed \/ (replay /\ \E a \in Actors \ {s} : Replays(a)))
  /\ UNCHANGED <<process, up, files, open, posted, hand, merges, cut, faltered, counts>>

(* The next event of the scenario, once the last one was acknowledged; a   *)
(* post that cannot be sent ends the seeder.                               *)
Post(a) ==
  /\ stage[a] = "replaying" /\ hand[a] = "none" /\ posted[a] < ScenarioLength
  /\ IF phase = IF a = Own THEN "seeding" ELSE "serving"
     THEN /\ hand' = [hand EXCEPT ![a] = "storing"]
          /\ UNCHANGED <<stage, posted>>
     ELSE /\ stage' = [stage EXCEPT ![a] = "idle"]
          /\ posted' = [posted EXCEPT ![a] = 0]
          /\ UNCHANGED hand
  /\ UNCHANGED <<process, up, files, open, merges, cut, history, counts>>

(* The client's timeout: the seeder ends, the handler goes on.             *)
GiveUp(s) ==
  /\ hand[s] # "none"
  /\ Step(s, "replaying", "idle")
  /\ posted' = [posted EXCEPT ![s] = 0]
  /\ UNCHANGED <<process, up, files, open, hand, merges, cut, history, counts>>

(* The server notices that nobody waits, or closed the connection itself.  *)
Cut(s) ==
  /\ hand[s] # "none" /\ s \notin cut
  /\ stage[s] = "idle" \/ expired
  /\ cut' = cut \union {s}
  /\ UNCHANGED <<process, up, files, open, stage, posted, hand, merges, history, counts>>

Replayed(s) ==
  /\ posted[s] = ScenarioLength
  /\ Step(s, "replaying", "idle")
  /\ posted' = [posted EXCEPT ![s] = 0]
  /\ UNCHANGED <<process, up, files, open, hand, merges, cut, history, counts>>

-----------------------------------------------------------------------------
(* The handler of a post: Service.Ingest                                   *)

Handles(a, step, next) ==
  /\ hand[a] = step
  /\ hand' = [hand EXCEPT ![a] = next]

(* SaveEvent.  An event that is not stored is an error to whoever sent it, *)
(* and to a process that seeds itself a reason not to start.               *)
SaveEvent(a) ==
  \/ /\ Handles(a, "storing", "looking")
     /\ HandlerReaches(a)
     /\ UNCHANGED <<process, up, files, open, stage, posted, merges, cut, history, counts>>
  \/ /\ Handles(a, "storing", "none")
     /\ ~HandlerReaches(a) /\ a # Own
     /\ stage' = [stage EXCEPT ![a] = "idle"]
     /\ posted' = [posted EXCEPT ![a] = 0]
     /\ cut' = cut \ {a}
     /\ UNCHANGED <<process, up, files, open, merges, history, counts>>
  \/ /\ hand[a] = "storing" /\ ~HandlerReaches(a) /\ a = Own
     /\ GoDown

(* mergeIntoIncident, up to the save: an incident that cannot be read is   *)
(* as good as none.                                                        *)
FindIncident(a) ==
  /\ Handles(a, "looking", "saving")
  /\ merges' = [merges EXCEPT ![a] = open /\ HandlerReaches(a)]
  /\ disturbed' = (disturbed \/ (open /\ ~HandlerReaches(a)))
  /\ UNCHANGED <<process, up, files, open, stage, posted, cut, faltered, counts>>

Filed(a) == IF merges[a] THEN incidents ELSE [incidents EXCEPT ![Store] = @ + 1]

(* A failure to correlate costs the answer its incident and nothing else.  *)
(* PostgreSQL may commit and the answer be lost: on file, and not known to *)
(* be open.                                                                *)
SaveIncident(a) ==
  /\ Handles(a, "saving", "telling")
  /\ merges' = [merges EXCEPT ![a] = FALSE]
  /\ \/ /\ HandlerReaches(a)
        /\ incidents' = Filed(a)
        /\ open' = TRUE
        /\ UNCHANGED <<history, outages>>
     \/ /\ ~HandlerReaches(a)
        /\ faltered' = (faltered \/ a = Own)
        /\ UNCHANGED <<incidents, open, disturbed, outages>>
     \/ /\ HandlerReaches(a) /\ Durable /\ outages < MaxOutages
        /\ outages' = outages + 1
        /\ incidents' = Filed(a)
        /\ disturbed' = (disturbed \/ ~merges[a])
        /\ UNCHANGED <<open, faltered>>
  /\ UNCHANGED <<process, up, trail, stage, posted, cut, launches>>

(* recordAudit, then the answer, to a seeder that may have gone.           *)
Tell(a) ==
  /\ Handles(a, "telling", "none")
  /\ trail' = IF HandlerReaches(a) THEN OnTrail("request") ELSE trail
  /\ posted' = [posted EXCEPT ![a] = IF stage[a] = "replaying" THEN @ + 1 ELSE @]
  /\ cut' = cut \ {a}
  /\ UNCHANGED <<process, up, incidents, open, stage, merges, history, counts>>

Handler(a) == SaveEvent(a) \/ FindIncident(a) \/ SaveIncident(a) \/ Tell(a)

-----------------------------------------------------------------------------
(* Stop *)

Signal ==
  /\ Alive /\ ~signalled
  /\ signalled' = TRUE
  /\ UNCHANGED <<phase, env, run, expired, up, files, work, history, counts>>

(* The select in run(): Shutdown closes the listener.                      *)
Shutdown ==
  /\ phase = "serving" /\ signalled
  /\ Proceed("draining")

InFlight == {a \in Actors : hand[a] # "none"}

Drained ==
  /\ phase = "draining" /\ InFlight = {}
  /\ Proceed("signing off")

(* Mutant: Shutdown waits for as long as it takes. *)
WaitForever ==
  /\ phase = "draining" /\ InFlight = {}
  /\ phase' = "signing off" /\ expired' = TRUE
  /\ UNCHANGED <<env, run, signalled, up, files, work, history, counts>>

(* The grace period ends while requests are in flight, or just after: the  *)
(* server is closed under them.                                            *)
GraceExpires ==
  /\ phase = "draining"
  /\ phase' = "signing off" /\ expired' = TRUE
  /\ UNCHANGED <<env, run, signalled, up, files, work, history, counts>>

(* Mutant: the last entry is recorded under a context of its own. *)
SignOffRegardless ==
  /\ phase = "signing off"
  /\ phase' = "closing"
  /\ trail' = IF Reaches(FALSE) THEN OnTrail("stopped") ELSE trail
  /\ UNCHANGED <<env, run, signalled, expired, up, incidents, work, history, counts>>

(* The last entry is recorded under the context of the grace period; that  *)
(* it cannot be is logged.                                                 *)
SignOff ==
  /\ phase = "signing off"
  /\ phase' = "closing"
  /\ trail' = IF Reaches(expired) THEN OnTrail("stopped") ELSE trail
  /\ UNCHANGED <<env, run, signalled, expired, up, incidents, work, history, counts>>

(* The closers, and the end.                                               *)
Exit == phase = "closing" /\ GoDown

-----------------------------------------------------------------------------
(* The dependencies *)

Fails(d) ==
  /\ d \in up /\ outages < MaxOutages
  /\ up' = up \ {d} /\ outages' = outages + 1
  /\ UNCHANGED <<process, files, work, history, launches>>

Recovers(d) ==
  /\ d \notin up
  /\ up' = up \union {d}
  /\ UNCHANGED <<process, files, work, history, counts>>

-----------------------------------------------------------------------------
Startup == Connect \/ Probe \/ Announce \/ Seed \/ Post(Own) \/ Handler(Own) \/ Seeded
Winddown == Shutdown \/ Drained \/ GraceExpires \/ SignOff \/ Exit

Seeder(s) ==
  \/ Launch(s) \/ WaitForReady(s) \/ WaitIsOver(s) \/ AlreadySeeded(s)
  \/ Post(s) \/ GiveUp(s) \/ Cut(s) \/ Replayed(s) \/ Handler(s)

Next ==
  \/ \E e \in DOMAIN Environments : Start(e)
  \/ Startup \/ Signal \/ Winddown \/ Crash
  \/ \E s \in Seeders : Seeder(s)
  \/ \E d \in Dependencies : Fails(d) \/ Recovers(d)

(* run() itself goes on: every step of a start works under a context that  *)
(* ends, and so does every step of a stop.  Nothing makes a request end, a  *)
(* dependency come back or an operator start the process.                   *)
Spec == Init /\ [][Next]_vars /\ WF_vars(Startup \/ Winddown)

-----------------------------------------------------------------------------
(* A process that serves is prepared (config.go:170, main.go:185, 323):    *)
(* whoever can reach it needs a credential, unless the environment says    *)
(* "true" to a public listener without one; its start is on its trail; and *)
(* where it was asked for the demonstration there is an incident on file,  *)
(* unless a correlation of its seeding failed.                             *)
ServingIsPrepared ==
  phase = "serving" =>
    LET set == Environments[env]
    IN  /\ \/ set["INTERNAL_API_TOKEN"] # "" \/ set["GRIEFER_INTERNAL_API_TOKEN"] # ""
           \/ set["GRIEFER_ALLOW_PUBLIC_BIND"] = "true"
           \/ set["GRIEFER_HTTP_ADDR"] = "loopback"
           \/ set["GRIEFER_HTTP_ADDR"] = "" /\ set["PORT"] = ""
        /\ \E i \in DOMAIN trail[Store] : trail[Store][i] = Entry("started")
        /\ set["SEED_SYNTHETIC_DEMO"] = "true" => incidents[Store] > 0 \/ faltered

(* What is on disk of a run stands after its start, and before its stop. *)
RunsBegin ==
  \A j \in DOMAIN trail["disk"] :
    \E i \in 1..j :
      trail["disk"][i] = [what |-> "started", run |-> trail["disk"][j].run]

RunsEnd ==
  \A i, j \in DOMAIN trail["disk"] :
    i < j /\ trail["disk"][i].run = trail["disk"][j].run =>
      trail["disk"][i].what # "stopped" /\ trail["disk"][j].what # "started"

(* The trail that outlives the process tells its runs apart: the entries of *)
(* a run begin with its one start, a stop is the last of them, and it is    *)
(* recorded only when no request is left in a handler - not by a process    *)
(* whose grace period ends under one (main.go:185, 246-259).                *)
StoppedMeansDrained ==
  /\ RunsBegin /\ RunsEnd
  /\ Alive /\ (\E i \in DOMAIN trail["disk"] : trail["disk"][i] = Entry("stopped")) =>
       InFlight = {}

(* A restart does not stack duplicates (main.go:333, griefer-seed -once):  *)
(* however often processes and seeders are started, fail and are started   *)
(* again, the scenario makes one incident, unless two replays overlap, the *)
(* API goes down and comes back between two posts of one, or PostgreSQL    *)
(* fails to show or to acknowledge the incident it has.                    *)
SeedingStacksNothing == ~disturbed => \A s \in Stores : incidents[s] <= 1

(* Told to stop, the process ends, whatever its requests do.               *)
EveryStopEnds == signalled ~> phase = "down"
==============================================================================
