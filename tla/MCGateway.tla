------------------------------ MODULE MCGateway ------------------------------
(* The gateway process, the limits' windows, and the relay manager with    *)
(* targets that never outrun their clients.  They are taken one by one: a  *)
(* behaviour is one of one of the three.                                   *)
EXTENDS RelayManager, Gateway, Limits

CONSTANTS c1, c2, a, b

VARIABLE part

MCConns == {c1, c2}
MCClients == {a, b}
MCOwner == [c \in MCConns |-> IF c = c1 THEN a ELSE b]

\* Two sessions over TCP, one of which may hold up the other; a session that
\* connects beside an Open of the relay; and two lanes that may fail.
MCSetups ==
  {[lanes |-> {"tcp"}, sessions |-> {1, 2}, relays |-> {}, up |-> TRUE, fails |-> FALSE],
   [lanes |-> {"quic"}, sessions |-> {3}, relays |-> {11}, up |-> FALSE, fails |-> FALSE],
   [lanes |-> {"quic", "tcp"}, sessions |-> {}, relays |-> {}, up |-> FALSE, fails |-> TRUE]}
MCLane(s) == IF s = 3 THEN "quic" ELSE "tcp"

MCAmounts == {-1, 1, 2}

\* The parts that a behaviour is not about have one initial state.
MCInit ==
  /\ part \in {"manager", "process", "windows"}
  /\ Init /\ GInit /\ LInit
  /\ part # "process" => sess[1] = "run"
  /\ part # "windows" => kind = "client"

MCNext ==
  \/ part = "manager" /\ Next /\ UNCHANGED <<part, gvars, lvars>>
  \/ part = "process" /\ GNext /\ UNCHANGED <<part, vars, lvars>>
  \/ part = "windows" /\ LNext /\ UNCHANGED <<part, vars, gvars>>

\* The fairness of the manager and of the process
MCSpec ==
  /\ MCInit /\ [][MCNext]_<<part, vars, gvars, lvars>>
  /\ \A c \in Conns : /\ WF_vars(part = "manager" /\ Open(c) /\ phase[c] # "new")
                      /\ WF_vars(part = "manager" /\ Body(c))
                      /\ WF_vars(part = "manager" /\ idleCallback(c))
  /\ WF_vars(part = "manager" /\ tick) /\ WF_vars(part = "manager" /\ idleReturn)
  /\ WF_vars(part = "manager" /\ Shutdown) /\ SF_vars(part = "manager" /\ wheelExit)
  /\ WF_gvars(part = "process" /\ ~Exit /\ Start)
  /\ \A l \in Lanes : WF_gvars(part = "process" /\ ~Exit /\ (listen(l) \/ laneEnds(l)))
  /\ WF_gvars(part = "process" /\ ~Exit /\ mainSteps) /\ WF_gvars(part = "process" /\ ~Exit /\ callbackReturns)
  /\ \A s \in Sessions : /\ WF_gvars(part = "process" /\ ~Exit /\ closed(s))
                         /\ WF_gvars(part = "process" /\ ~Exit /\ expire(s))
                         /\ WF_gvars(part = "process" /\ ~Exit /\ Add(s))

\* The state of every part has its type.
MCTypeOK == TypeOK /\ GTypeOK /\ LTypeOK
=============================================================================
