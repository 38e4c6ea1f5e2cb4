------------------------------ MODULE MCIngest ------------------------------
(* A collector that sends batches and an agent that sends single events; a  *)
(* retention of one event, so that eviction and the retry of an evicted     *)
(* event happen.                                                            *)
EXTENDS Ingest

Telemetry ==
  [ login  |-> [id |-> 1, time |-> 0],    \* too old a tick later
    grant  |-> [id |-> 2, time |-> 1],    \* names a control-plane label
    nameless |-> [id |-> NoId, time |-> 1],
    future |-> [id |-> 3, time |-> 9],
    broken |-> [id |-> NoId, time |-> 0] ]

(* The first-run demo, and the deployment docker-compose.yml describes. *)
MCDeployments == {<<"memory", "disabled">>, <<"postgres", "nats">>}

MCItems  == DOMAIN Telemetry
MCIdOf   == [i \in MCItems |-> Telemetry[i].id]
MCTimeOf == [i \in MCItems |-> Telemetry[i].time]

One(i)     == [batch |-> FALSE, items |-> <<i>>]
Batch(seq) == [batch |-> TRUE, items |-> seq]

MCRequestsOf ==
  [ collector |-> { Batch(<<"login", "grant">>), Batch(<<"broken", "nameless">>),
                    Batch(<<>>), Batch(<<"login", "login", "login">>) },
    agent     |-> { One("login"), One("future") } ]

MCProducers == DOMAIN MCRequestsOf
=============================================================================
