--------------------------- MODULE MCCorrelation ----------------------------
(* Alice signs in, is granted a role a window later, and probes more than a *)
(* window after that; her identity provider also reports an event that it   *)
(* attributes to nobody.                                                    *)
EXTENDS Correlation, TLC

Event(t, actor, source, fields) ==
  [t |-> t, actor |-> actor, source |-> source, fields |-> fields]

SignIn == ("event_type" :> "user_signin") @@ ("network.first_seen_for_actor" :> "true")

Telemetry ==
  [ signin |-> Event(2, "alice", "idp", SignIn),
    grant  |-> Event(5, "alice", "idp", ("event_type" :> "role_assignment_changed")),
    probe  |-> Event(9, "alice", "edr", ("event_type" :> "process_started")
                                          @@ ("device.managed" :> "false")),
    scan   |-> Event(3, "", "idp", ("device.managed" :> "true") @@ SignIn) ]

Unconstrained == [event_type |-> {}, conditions |-> {}, count |-> 0, window |-> 0]
On(field) == [field |-> field, exists |-> "", equals |-> "", not_equals |-> "", in |-> {}]

(* Two rules of the pack, and one with a threshold that also matches events *)
(* that say nothing of the device.                                          *)
MCRuleOf ==
  [ new_address |-> [Unconstrained EXCEPT !.event_type = {"user_signin"},
      !.conditions = {[On("network.first_seen_for_actor") EXCEPT !.equals = "true"]}],
    role_change |-> [Unconstrained EXCEPT !.event_type = {"role_assignment_changed"}],
    unmanaged   |-> [Unconstrained EXCEPT !.count = 2, !.window = 4,
      !.conditions = {[On("device.managed") EXCEPT !.not_equals = "true"]}] ]

MCEvents   == DOMAIN Telemetry
MCRules    == DOMAIN MCRuleOf
MCTimeOf   == [e \in MCEvents |-> Telemetry[e].t]
MCActorOf  == [e \in MCEvents |-> Telemetry[e].actor]
MCSourceOf == [e \in MCEvents |-> Telemetry[e].source]
MCFieldsOf == [e \in MCEvents |-> Telemetry[e].fields]

WorkersAreAlike == Permutations(Workers)
=============================================================================
