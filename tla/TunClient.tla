------------------------------ MODULE TunClient ------------------------------
(***************************************************************************)
(* The TUN client (cmd/tun_client/main_windows.go): the session clients    *)
(* that its flows share, with their reference counts, and the UDP manager: *)
(* a state for each pair of addresses, set up by a goroutine (runState)    *)
(* and closed by whoever comes first (closeState under its Once): that     *)
(* goroutine, the janitor or Close.                                        *)
(*                                                                         *)
(* All flows use one key of c.clients, as they do when only QUIC is        *)
(* allowed.  A section under c.mu or m.mu is a step; a client is closed in *)
(* the step that takes it from the table (whoever opens or closes a UDP    *)
(* flow between the two could have done so before).  The fields of a state *)
(* that runState sets and closeState reads are read and written one by one.*)
(* Permits and modes are those of FlowCap and PolicyMode.                  *)
(***************************************************************************)
EXTENDS Integers, FiniteSets

CONSTANTS Casts,     \* the flows that one behaviour may have, and a bound on
                     \* the clients dialed in it
          Kind(_),   \* "tcp", "udp" or "dns": a UDP flow to port 53
          Pair(_)    \* the key of a UDP flow in m.flows

Flows == UNION {c.flows : c \in Casts}
Clients == UNION {1 .. c.dials : c \in Casts}

ASSUME TunAssumption == IsFiniteSet(Flows) /\ \A c \in Casts : c.dials \in Nat

UDP == {f \in Flows : Kind(f) # "tcp"}

VARIABLES
  pool,      \* c.clients[key]: client (0 if there is no entry), refCount, broken
  dials,     \* clients that may still be dialed
  live,      \* clients that have not been closed
  hung,      \* those whose Close waits for itself
  flowTable, \* c.flows
  at,        \* program counter of handleTCPFromTun or runState
  query,     \* DNS flows whose goroutine is in dnsQueryOverTCP
  mine,      \* the client that a goroutine works with, 0 if none
  held,      \* flows that have acquired it and not released it
  field,     \* clientKey, udpFlow and flowRef of a state, as far as they are set
  uflow,     \* the session's UDP flow of a state
  states,    \* m.flows
  shut,      \* closeOnce and the progress of closeState
  idle,      \* states without traffic for IdleTimeout
  blocked,   \* isQUICBlocked
  sweep,     \* the janitor, and the states it is to close
  main,      \* main, and the states Close is to close
  mixed,     \* history: references to two clients were counted in one entry
  orphans,   \* history: clients replaced while they were in use
  early      \* history: states that were closed while they were set up

clients == <<pool, dials, live, hung, mixed, orphans>>
manager == <<states, shut, idle, early>>
nvars == <<clients, flowTable, at, query, mine, held, field, uflow, manager, blocked, sweep, main>>

None == [client |-> 0, refs |-> 0, broken |-> FALSE]
Fields == {"clientKey", "udpFlow", "flowRef"}
SettingUp == {"check", "look", "dial", "second", "acquired", "open", "failed", "register", "registered"}

NTypeOK ==
  /\ pool \in [client : {0} \cup Clients, refs : 0 .. Cardinality(Flows), broken : BOOLEAN]
  /\ dials \in {0} \cup Clients /\ hung \subseteq live /\ live \subseteq Clients /\ flowTable \subseteq Flows
  /\ at \in [Flows -> SettingUp \cup {"out", "start", "pump", "relay", "copied", "errored", "ended", "dns", "close", "closing", "done", "stuck"}]
  /\ query \subseteq Flows /\ mine \in [Flows -> {0} \cup Clients] /\ held \subseteq Flows
  /\ field \in [Flows -> SUBSET Fields] /\ uflow \in [Flows -> {"none", "open", "closed"}]
  /\ states \subseteq UDP /\ shut \in [Flows -> {"no", "begun", "released", "done", "stuck"}]
  /\ idle \subseteq Flows /\ sweep.todo \subseteq UDP /\ main.todo \subseteq UDP

NInit ==
  /\ pool = None /\ live = {} /\ hung = {} /\ mixed = FALSE /\ orphans = {}
  /\ flowTable = {} /\ query = {} /\ blocked = FALSE
  /\ \E c \in Casts : dials = c.dials /\ at = [f \in Flows |-> IF f \in c.flows THEN "start" ELSE "out"]
  /\ mine = [f \in Flows |-> 0] /\ held = {}
  /\ field = [f \in Flows |-> {}] /\ uflow = [f \in Flows |-> "none"]
  /\ states = {} /\ shut = [f \in Flows |-> "no"] /\ idle = {} /\ early = {}
  /\ sweep = [pc |-> "wait", todo |-> {}, cur |-> {}]
  /\ main = [pc |-> "run", todo |-> {}, cur |-> {}]

Goto(f, from, to) == at[f] = from /\ at' = [at EXCEPT ![f] = to]

\* What a goroutine does when a step of it fails: a DNS flow that is not in a
\* query goes on with queries over TCP, other states are closed.
Failed(f) == IF Kind(f) = "tcp" THEN "done" ELSE IF Kind(f) = "dns" /\ f \notin query THEN "dns" ELSE "close"

-----------------------------------------------------------------------------
(* The shared clients.                                                     *)

Usable == pool.client # 0 /\ ~pool.broken
InState(f) == Kind(f) # "tcp" /\ f \notin query
Got(f) == IF InState(f) THEN "acquired" ELSE "open"

join(f) ==
  /\ pool' = [pool EXCEPT !.refs = @ + 1]
  /\ mine' = [mine EXCEPT ![f] = pool.client] /\ held' = held \cup {f}

\* acquireClient, its first look at the table
acquireLook(f) ==
  /\ \/ Usable /\ join(f) /\ Goto(f, "look", Got(f))
     \/ ~Usable /\ Goto(f, "look", "dial") /\ UNCHANGED <<pool, mine, held>>
  /\ UNCHANGED <<dials, live, hung, mixed, orphans, flowTable, query, field, uflow, manager, blocked, sweep, main>>

\* Some errors of a state's dial or open block QUIC for a while.
noteQUICDialError(f) == blocked' \in {blocked, blocked \/ InState(f)}

acquireDial(f) ==
  /\ \/ /\ dials > 0 /\ Goto(f, "dial", "second")
        /\ dials' = dials - 1 /\ live' = live \cup {dials}
        /\ mine' = [mine EXCEPT ![f] = dials]
        /\ UNCHANGED blocked
     \/ /\ Goto(f, "dial", Failed(f))
        /\ noteQUICDialError(f)
        /\ UNCHANGED <<dials, live, mine>>
  /\ UNCHANGED <<pool, hung, mixed, orphans, flowTable, query, held, field, uflow, manager, sweep, main>>

\* The second look: another flow's client is shared and the own one closed, or
\* the own one takes the place of a broken one, in use or not.
acquireSecond(f) ==
  /\ Goto(f, "second", Got(f))
  /\ \/ Usable /\ join(f) /\ live' = live \ {mine[f]} /\ UNCHANGED <<mixed, orphans>>
     \/ /\ ~Usable
        /\ pool' = [client |-> mine[f], refs |-> 1, broken |-> FALSE]
        /\ held' = held \cup {f} /\ UNCHANGED mine
        /\ mixed' = (mixed \/ held # {})
        /\ orphans' = orphans \cup ({pool.client} \cap live)
        /\ UNCHANGED live
  /\ UNCHANGED <<dials, hung, flowTable, query, field, uflow, manager, blocked, sweep, main>>

UDPFlows(c) == {f \in UDP : uflow[f] = "open" /\ mine[f] = c}

\* Client.Close holds udpMu while it closes the UDP flows of the client, and their
\* Close locks it again: with such a flow it does not return.
closeClient(c) ==
  IF UDPFlows(c) = {} THEN live' = live \ {c} /\ UNCHANGED hung
                      ELSE hung' = hung \cup {c} /\ UNCHANGED live

\* Where a goroutine is after a call that may close a client.
After(to) == IF hung' = hung THEN to ELSE "stuck"

\* A reference of f is not one to the client in the table.
Foreign(f) == pool.client # 0 /\ (f \notin held \/ pool.client # mine[f])

\* The entry of the key gives up a reference, whichever client it was for.
releaseClient(f) ==
  LET refs == IF pool.refs > 0 THEN pool.refs - 1 ELSE 0
      last == pool.broken /\ refs = 0
  IN  /\ pool' = IF last THEN None ELSE [pool EXCEPT !.refs = refs]
      /\ IF last THEN closeClient(pool.client) ELSE UNCHANGED <<live, hung>>
      /\ held' = held \ {f}
      /\ mixed' = (mixed \/ Foreign(f))
      /\ UNCHANGED <<dials, orphans>>

\* A plausible slip: a client that fails is closed at once.
markCloses ==
  /\ pool' = None /\ closeClient(pool.client)
  /\ UNCHANGED <<dials, mixed, orphans>>

\* The entry of the key is marked, whichever client the error came from.
markClientBad ==
  /\ LET unused == pool.client # 0 /\ pool.refs = 0 /\ ~pool.broken
     IN  /\ pool' = IF pool.client = 0 \/ unused THEN None ELSE [pool EXCEPT !.broken = TRUE]
         /\ IF unused THEN closeClient(pool.client) ELSE UNCHANGED <<live, hung>>
  /\ UNCHANGED <<dials, mixed, orphans>>

-----------------------------------------------------------------------------
(* A flow, from its request to its registration.                           *)

start(f) ==
  /\ Kind(f) = "tcp" /\ Goto(f, "start", "look")
  /\ UNCHANGED <<clients, flowTable, query, mine, held, field, uflow, manager, blocked, sweep, main>>

\* A state for a new pair of addresses; for a pair that has one, nothing.
Handle(f) ==
  /\ Kind(f) # "tcp"
  /\ IF \E g \in states : Pair(g) = Pair(f)
     THEN Goto(f, "start", "done") /\ UNCHANGED states
     ELSE Goto(f, "start", "check") /\ states' = states \cup {f}
  /\ UNCHANGED <<clients, flowTable, query, mine, held, field, uflow, shut, idle, early, blocked, sweep, main>>

\* While QUIC is blocked, or without a permit, there is no flow.
runState(f) ==
  /\ \/ blocked /\ Goto(f, "check", Failed(f))
     \/ ~blocked /\ Goto(f, "check", "look")
     \/ ~blocked /\ Goto(f, "check", "close")
  /\ UNCHANGED <<clients, flowTable, query, mine, held, field, uflow, manager, blocked, sweep, main>>

\* The assignments to st.clientKey and st.flowRef
setField(f, from, to, name) ==
  /\ Goto(f, from, to)
  /\ field' = [field EXCEPT ![f] = @ \cup {name}]
  /\ UNCHANGED <<clients, flowTable, query, mine, held, uflow, manager, blocked, sweep, main>>

\* OpenTCPFlow or OpenUDPFlow, which a closed client refuses; OpenUDPFlow waits for
\* udpMu, in vain if Close hangs with it.  An error may be fatal for the client, and
\* may block QUIC.
openFlow(f) ==
  /\ \/ /\ mine[f] \in live /\ (InState(f) => mine[f] \notin hung) /\ Goto(f, "open", "register")
        /\ IF InState(f) THEN /\ uflow' = [uflow EXCEPT ![f] = "open"]
                              /\ field' = [field EXCEPT ![f] = @ \cup {"udpFlow"}]
                         ELSE UNCHANGED <<uflow, field>>
        /\ UNCHANGED <<clients, blocked>>
     \/ /\ markClientBad \/ UNCHANGED clients
        /\ Goto(f, "open", After("failed"))
        /\ noteQUICDialError(f)
        /\ UNCHANGED <<uflow, field>>
  /\ UNCHANGED <<flowTable, query, mine, held, manager, sweep, main>>

\* The goroutine releases the client with its own copy of the key.
openFailed(f) ==
  /\ releaseClient(f)
  /\ Goto(f, "failed", After(Failed(f)))
  /\ field' = [field EXCEPT ![f] = IF hung' = hung THEN @ \ {"clientKey"} ELSE @]
  /\ UNCHANGED <<flowTable, query, mine, uflow, manager, blocked, sweep, main>>

registerFlow(f) ==
  /\ Goto(f, "register", IF InState(f) THEN "registered" ELSE "relay")
  /\ flowTable' = flowTable \cup {f}
  /\ UNCHANGED <<clients, query, mine, held, field, uflow, manager, blocked, sweep, main>>

-----------------------------------------------------------------------------
(* A flow in use, and its end.                                             *)

unregisterFlow(f) ==
  /\ flowTable' = flowTable \ {f}
  /\ IF f \in flowTable THEN releaseClient(f) ELSE UNCHANGED <<clients, held>>

\* The two copies of proxyBidirectional have ended: the error of one, then of the
\* other, may be fatal for the client.
proxyBidirectional(f) ==
  /\ Kind(f) = "tcp"
  /\ markClientBad \/ UNCHANGED clients
  /\ Goto(f, "relay", After("copied")) \/ Goto(f, "copied", After("ended"))
  /\ UNCHANGED <<flowTable, query, mine, held, field, uflow, manager, blocked, sweep, main>>

\* The exchange of a query fails, or there is an answer.
dnsQueryOverTCP(f) ==
  /\ f \in query
  /\ \/ (markClientBad \/ UNCHANGED clients) /\ Goto(f, "relay", After("errored"))
     \/ Goto(f, "relay", "ended") /\ UNCHANGED clients
  /\ UNCHANGED <<flowTable, query, mine, held, field, uflow, manager, blocked, sweep, main>>

\* Their deferred calls; a query that was answered is followed by others.
relayEnded(f) ==
  /\ unregisterFlow(f)
  /\ \/ Goto(f, "ended", After(IF f \in query THEN "dns" ELSE "done"))
     \/ Goto(f, "errored", After("close"))
  /\ UNCHANGED <<query, mine, field, uflow, manager, blocked, sweep, main>>

\* runDNSFallback: a query, or the end when nothing can be read any more.
runDNSFallback(f) ==
  /\ \/ shut[f] = "no" /\ Goto(f, "dns", "look") /\ query' = query \cup {f} /\ idle' \in {idle, idle \ {f}}
     \/ Goto(f, "dns", "close") /\ UNCHANGED <<query, idle>>
  /\ UNCHANGED <<clients, flowTable, mine, held, field, uflow, states, shut, early, blocked, sweep, main>>

\* localToRemote and remoteToLocal
pump(f) ==
  /\ \/ /\ shut[f] = "no" /\ f \in idle /\ idle' = idle \ {f}
        /\ UNCHANGED <<clients, at>>
     \/ /\ ("clientKey" \in field[f] /\ markClientBad) \/ UNCHANGED clients
        /\ Goto(f, "pump", After("close"))
        /\ UNCHANGED idle
  /\ at[f] = "pump"
  /\ UNCHANGED <<flowTable, query, mine, held, field, uflow, states, shut, early, blocked, sweep, main>>

-----------------------------------------------------------------------------
(* closeState: the first caller closes, in steps; others wait for it.  It   *)
(* does not go on if the Close of a client hangs, its own or the one that  *)
(* the UDP flow's Close waits for.                                         *)

closeBegin(f) ==
  /\ shut[f] = "no"
  /\ LET waits == "udpFlow" \in field[f] /\ mine[f] \in hung
     IN  /\ shut' = [shut EXCEPT ![f] = IF waits THEN "stuck" ELSE "begun"]
         /\ uflow' = IF "udpFlow" \in field[f] /\ ~waits THEN [uflow EXCEPT ![f] = "closed"] ELSE uflow
  /\ early' = IF at[f] \in SettingUp /\ InState(f) THEN early \cup {f} ELSE early
  /\ UNCHANGED <<states, idle>>

\* A call of closeState; the caller goes on when shut[f] is "done".
callClose(f) == closeBegin(f) \/ (shut[f] # "no" /\ UNCHANGED <<manager, uflow>>)

\* The client is released, and its Close, if this was the last reference, returned.
released(f) ==
  /\ shut' = [shut EXCEPT ![f] = After("released")]
  /\ field' = [field EXCEPT ![f] = IF hung' = hung THEN @ \ {"clientKey"} ELSE @]

\* A plausible slip: the client is released, but a registered flow is kept.
closeReleaseOnly(f) ==
  /\ shut[f] = "begun"
  /\ IF "clientKey" \in field[f] THEN releaseClient(f) ELSE UNCHANGED <<clients, held>>
  /\ released(f)
  /\ UNCHANGED <<flowTable, at, query, mine, uflow, states, idle, early, blocked, sweep, main>>

closeRelease(f) ==
  /\ shut[f] = "begun"
  /\ IF "flowRef" \in field[f] THEN unregisterFlow(f)
     ELSE /\ IF "clientKey" \in field[f] THEN releaseClient(f) ELSE UNCHANGED <<clients, held>>
          /\ UNCHANGED flowTable
  /\ released(f)
  /\ UNCHANGED <<at, query, mine, uflow, states, idle, early, blocked, sweep, main>>

closeDelete(f) ==
  /\ shut[f] = "released" /\ shut' = [shut EXCEPT ![f] = "done"]
  /\ states' = states \ {f} /\ idle' = idle \ {f}
  /\ UNCHANGED <<clients, flowTable, at, query, mine, held, field, uflow, early, blocked, sweep, main>>

runStateEnd(f) ==
  /\ Goto(f, "close", "closing")
  /\ callClose(f)
  /\ UNCHANGED <<clients, flowTable, query, mine, held, field, blocked, sweep, main>>

runStateReturn(f) ==
  /\ shut[f] = "done" /\ Goto(f, "closing", "done")
  /\ UNCHANGED <<clients, flowTable, query, mine, held, field, uflow, manager, blocked, sweep, main>>

-----------------------------------------------------------------------------
(* The janitor, Close and main.                                            *)

Stopped == main.pc # "run"
Exit == main.pc = "exit"

expireIdle ==
  /\ sweep.pc = "wait"
  /\ LET stale == idle \cap states
     IN  sweep' = [pc |-> IF stale = {} THEN "wait" ELSE "close", todo |-> stale, cur |-> {}]
  /\ UNCHANGED <<clients, flowTable, at, query, mine, held, field, uflow, manager, blocked, main>>

\* The states of a list are closed one after the other.
Ready(p) == p.pc = "close" /\ \A f \in p.cur : shut[f] = "done"

closeStale ==
  /\ Ready(sweep)
  /\ \/ /\ sweep.todo = {} /\ sweep' = [pc |-> "wait", todo |-> {}, cur |-> {}]
        /\ UNCHANGED <<manager, uflow>>
     \/ \E f \in sweep.todo : /\ callClose(f)
                               /\ sweep' = [sweep EXCEPT !.todo = @ \ {f}, !.cur = {f}]
  /\ UNCHANGED <<clients, flowTable, at, query, mine, held, field, blocked, main>>

\* A plausible slip: the janitor looks at stopCh only when it has closed a state.
janitorDeaf ==
  /\ sweep.pc = "close" /\ sweep.todo = {} /\ Stopped
  /\ sweep' = [sweep EXCEPT !.pc = "done"]
  /\ UNCHANGED <<clients, flowTable, at, query, mine, held, field, uflow, manager, blocked, main>>

janitorStop ==
  /\ sweep.pc = "wait" /\ Stopped
  /\ sweep' = [sweep EXCEPT !.pc = "done"]
  /\ UNCHANGED <<clients, flowTable, at, query, mine, held, field, uflow, manager, blocked, main>>

\* A signal; udpManager.Close closes stopCh and waits for the janitor.
interrupt ==
  /\ main.pc = "run" /\ main' = [main EXCEPT !.pc = "janitor"]
  /\ UNCHANGED <<clients, flowTable, at, query, mine, held, field, uflow, manager, blocked, sweep>>

closeSnapshot ==
  /\ main.pc = "janitor" /\ sweep.pc = "done"
  /\ main' = [main EXCEPT !.pc = "close", !.todo = states]
  /\ UNCHANGED <<clients, flowTable, at, query, mine, held, field, uflow, manager, blocked, sweep>>

closeAll ==
  /\ Ready(main)
  /\ \/ main.todo = {} /\ main' = [main EXCEPT !.pc = "controller", !.cur = {}] /\ UNCHANGED <<manager, uflow>>
     \/ \E f \in main.todo : callClose(f) /\ main' = [main EXCEPT !.todo = @ \ {f}, !.cur = {f}]
  /\ UNCHANGED <<clients, flowTable, at, query, mine, held, field, blocked, sweep>>

\* policyController.Close; main then waits for its workers, five seconds at most,
\* and returns.  (Its deferred calls of both Close come when the process ends.)
closeController ==
  /\ main.pc = "controller"
  /\ pool' = None /\ mixed' = (mixed \/ held # {})
  /\ IF pool.client = 0 THEN UNCHANGED <<live, hung>> ELSE closeClient(pool.client)
  /\ main' = [main EXCEPT !.pc = After("exit")]
  /\ UNCHANGED <<dials, orphans, flowTable, at, query, mine, held, field, uflow, manager, blocked, sweep>>

\* Time passes: a state gets idle, QUIC is tried again.
time ==
  /\ \/ \E f \in states : shut[f] = "no" /\ idle' = idle \cup {f} /\ UNCHANGED blocked
     \/ blocked /\ blocked' = FALSE /\ UNCHANGED idle
  /\ UNCHANGED <<clients, flowTable, at, query, mine, held, field, uflow, states, shut, early, sweep, main>>

-----------------------------------------------------------------------------
Goroutine(f) ==
  \/ start(f) \/ Handle(f) \/ runState(f) \/ acquireLook(f) \/ acquireDial(f) \/ acquireSecond(f)
  \/ setField(f, "acquired", "open", "clientKey") \/ openFlow(f) \/ openFailed(f) \/ registerFlow(f)
  \/ setField(f, "registered", "pump", "flowRef") \/ pump(f) \/ proxyBidirectional(f)
  \/ dnsQueryOverTCP(f) \/ relayEnded(f)
  \/ runDNSFallback(f) \/ runStateEnd(f) \/ runStateReturn(f)

janitorLoop == ~Exit /\ (expireIdle \/ closeStale \/ janitorStop)
shutdown == closeSnapshot \/ closeAll \/ closeController
closeState(f) == ~Exit /\ (closeRelease(f) \/ closeDelete(f))

NNext ==
  \/ ~Exit /\ (time \/ interrupt)
  \/ janitorLoop \/ shutdown
  \/ \E f \in Flows : (~Exit /\ Goroutine(f)) \/ closeState(f)
  \/ (Exit \/ hung # {}) /\ UNCHANGED nvars

\* Goroutines that can go on do: main, the janitor, whoever closes a state, and
\* Handle and runState once the state is closed.  Flows need not end.
NFairness ==
  /\ WF_nvars(janitorLoop) /\ WF_nvars(shutdown)
  /\ \A f \in UDP : WF_nvars(closeState(f))

NSpec == NInit /\ [][NNext]_nvars
NFairSpec == NSpec /\ NFairness
-----------------------------------------------------------------------------
\* refCount is the number of flows that use the client, unless the entry has
\* counted references to two: a broken client was replaced while it was in use,
\* a state was closed while it was set up and its client released twice, or
\* Close emptied the table.
RefsExact == pool.client # 0 /\ ~mixed => pool.refs = Cardinality({f \in held : mine[f] = pool.client})

\* Even then refCount never exceeds the flows that hold a client, and a broken
\* client is in the table only while it is counted: the last user closes it.
RefsCovered == pool.client # 0 => pool.refs <= Cardinality(held) /\ (pool.broken => pool.refs > 0)

\* releaseClient and markClientBad close no client that a flow uses, while
\* references are not mixed up.
UsedStaysOpen == \A f \in held : mine[f] \in live \ hung \/ mixed

\* A client that is not closed can still be: it is in the table, or about to be
\* put there; only a broken one that was replaced in use is never closed, and one
\* whose Close hangs.
LeftOpenIsReplaced ==
  \A c \in live \ hung : c = pool.client \/ c \in orphans \/ \E f \in Flows : at[f] = "second" /\ mine[f] = c

\* Close hangs only over a UDP flow that nobody closes any more, one that runState
\* opened for a state closed before, unless references are mixed up.
HangsOverLost == \A c \in hung : \E f \in UDPFlows(c) : f \in early \/ mixed

\* A state that runs is the one its addresses find in m.flows.
RunningFound == \A f \in UDP : at[f] \in {"pump", "dns"} /\ shut[f] = "no" => f \in states

\* A state that has ended leaves an open UDP flow, or an entry in c.flows, only
\* when closeState ran before runState had set its fields.
EndedReleased ==
  \A f \in UDP : at[f] = "done" /\ (uflow[f] = "open" \/ f \in flowTable \/ f \in held) => f \in early

\* A Close that hangs has stopped main or a closeState, for which others wait.
CloserStuck == main.pc = "stuck" \/ \E f \in UDP : shut[f] = "stuck"

\* A state without traffic does not stay in m.flows, unless a Close hangs.
IdleExpires == \A f \in UDP : []<>(Exit \/ f \notin idle \cap states \/ CloserStuck)

\* After a signal main returns: Close waits for the janitor, which may be
\* closing a state, and for states that runState is closing.  Only a client's Close
\* that hangs keeps it.
MainReturns == main.pc = "janitor" ~> Exit \/ CloserStuck

\* acquireClient, releaseClient and markClientBad share clients soundly: the count
\* is that of the users, no client is closed in use and none is forgotten open,
\* but for a broken one that was replaced while it was in use.  Their Close hangs only
\* over a UDP flow that a state closed early has left.
ClientsShared == RefsExact /\ RefsCovered /\ UsedStaysOpen /\ LeftOpenIsReplaced /\ HangsOverLost

\* closeState releases a state once and for all, whoever calls it first and
\* whatever runState is doing: one that runs is found by its addresses, one that
\* has ended holds nothing, unless it was closed while runState set its fields.
StatesReleased == NTypeOK /\ RunningFound /\ EndedReleased

\* States end: idle ones by the janitor, all of them when main closes the manager,
\* which then returns, unless the Close of a client hangs.
StatesEnd == IdleExpires /\ MainReturns
=============================================================================
