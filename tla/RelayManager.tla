---------------------------- MODULE RelayManager ----------------------------
(***************************************************************************)
(* The relay lane's bookkeeping: internal/relay/manager.go with the slot   *)
(* counters of internal/limits/manager.go, internal/store/relay_store.go   *)
(* and the goroutine of the TTL wheel, which runs idle callbacks one after *)
(* the other.                                                              *)
(*                                                                         *)
(* A member of Conns is one /relay/open request and the connection it      *)
(* makes; connection ids are random and taken to be unique.  phase says    *)
(* where the request is, body where the function that relayConn.Close      *)
(* runs inside its Once is.  Each step between two lock acquisitions is an *)
(* action.  Looking a connection up and entering its Once are one step: a  *)
(* lookup that is overtaken finds the Once done.  A connection is seen     *)
(* through what RelayConn shows of it: Close returns, except after a       *)
(* downstream overflow, when it never does (body "stuck").  The wheel is   *)
(* seen through what TTLWheel shows: a timer fires after its ticks.        *)
(***************************************************************************)
EXTENDS Integers, FiniteSets

CONSTANTS Conns, Clients,
          Owner,              \* the client that opens each connection
          MaxTotalConns,      \* 0: no limit, as in the code
          MaxConnsPerClient,  \* 0: no limit
          IdleTicks,          \* timeouts.relay_idle in ticks of the wheel
          MayOverflow         \* whether a target may outrun its client

ASSUME ManagerAssumption ==
  /\ IsFiniteSet(Conns)
  /\ Owner \in [Conns -> Clients]
  /\ MaxTotalConns \in Nat /\ MaxConnsPerClient \in Nat
  /\ IdleTicks \in Nat \ {0}
  /\ MayOverflow \in BOOLEAN
  /\ "none" \notin Conns

VARIABLES phase, body,
          totalRelayConns, relayConnsByClient,  \* limits.Manager
          conns,                                \* keys of m.conns
          byID,                                 \* keys of the store
          timer,                                \* wheel: ticks left, 0 if absent
          callbacks, wheelOn,                   \* the wheel's goroutine
          shutdown, todo, shutOn,               \* Shutdown
          active                                \* the ActiveRelayConns gauge

limitVars == <<totalRelayConns, relayConnsByClient>>
wheelVars == <<callbacks, wheelOn>>
shutVars == <<shutdown, todo, shutOn>>
vars == <<phase, body, limitVars, conns, byID, timer, wheelVars, shutVars, active>>

None == "none"

Phases == {"new", "dial", "insert", "add", "start", "inc", "open", "refused", "failed"}
Bodies == {"idle", "wait", "delete", "store", "release", "dec", "done", "stuck"}

TypeOK ==
  /\ phase \in [Conns -> Phases]
  /\ body \in [Conns -> Bodies]
  /\ totalRelayConns \in Nat
  /\ relayConnsByClient \in [Clients -> Nat]
  /\ conns \in SUBSET Conns /\ byID \in SUBSET Conns
  /\ timer \in [Conns -> 0 .. IdleTicks]
  /\ callbacks \in SUBSET Conns
  /\ wheelOn \in Conns \cup {None}
  /\ shutdown \in {"no", "closing", "stopping", "done"}
  /\ todo \in SUBSET Conns
  /\ shutOn \in Conns \cup {None}
  /\ active \in Int

Init ==
  /\ phase = [c \in Conns |-> "new"]
  /\ body = [c \in Conns |-> "idle"]
  /\ totalRelayConns = 0
  /\ relayConnsByClient = [k \in Clients |-> 0]
  /\ conns = {} /\ byID = {}
  /\ timer = [c \in Conns |-> 0]
  /\ callbacks = {} /\ wheelOn = None
  /\ shutdown = "no" /\ todo = {} /\ shutOn = None
  /\ active = 0

-----------------------------------------------------------------------------
(* limits.Manager *)

AtLimit(k) ==
  \/ MaxTotalConns > 0 /\ totalRelayConns >= MaxTotalConns
  \/ MaxConnsPerClient > 0 /\ relayConnsByClient[k] >= MaxConnsPerClient

ReserveRelayConn(c) ==
  /\ ~AtLimit(Owner[c])
  /\ totalRelayConns' = totalRelayConns + 1
  /\ relayConnsByClient' = [relayConnsByClient EXCEPT ![Owner[c]] = @ + 1]

\* A plausible slip: the client's last slot is not given back.
ReleaseKeepsLast(c) ==
  /\ totalRelayConns' = IF totalRelayConns > 0 THEN totalRelayConns - 1 ELSE 0
  /\ relayConnsByClient' = [relayConnsByClient EXCEPT ![Owner[c]] = IF @ > 1 THEN @ - 1 ELSE @]

\* Both counters are clamped: the second by deleting the client's entry.
ReleaseRelayConn(c) ==
  /\ totalRelayConns' = IF totalRelayConns > 0 THEN totalRelayConns - 1 ELSE 0
  /\ relayConnsByClient' = [relayConnsByClient EXCEPT ![Owner[c]] = IF @ > 1 THEN @ - 1 ELSE 0]

-----------------------------------------------------------------------------
(* Open *)

At(c, from, to) == phase[c] = from /\ phase' = [phase EXCEPT ![c] = to]

openReserve(c) ==
  /\ At(c, "new", "dial")
  /\ ReserveRelayConn(c)
  /\ UNCHANGED <<body, conns, byID, timer, wheelVars, shutVars, active>>

openRefused(c) ==
  /\ AtLimit(Owner[c])
  /\ At(c, "new", "refused")
  /\ UNCHANGED <<body, limitVars, conns, byID, timer, wheelVars, shutVars, active>>

\* The dial or the generation of the id failed.
openFailed(c) ==
  /\ At(c, "dial", "failed")
  /\ ReleaseRelayConn(c)
  /\ UNCHANGED <<body, conns, byID, timer, wheelVars, shutVars, active>>

openDialed(c) ==
  /\ At(c, "dial", "insert")
  /\ UNCHANGED <<body, limitVars, conns, byID, timer, wheelVars, shutVars, active>>

openInsert(c) ==
  /\ At(c, "insert", "add")
  /\ conns' = conns \cup {c}
  /\ UNCHANGED <<body, limitVars, byID, timer, wheelVars, shutVars, active>>

\* A plausible slip: the store knows the connection but no timer is armed.
openAddNoTimer(c) ==
  /\ At(c, "add", "start")
  /\ byID' = byID \cup {c}
  /\ UNCHANGED <<body, limitVars, conns, timer, wheelVars, shutVars, active>>

\* ttlStore.Add, with the wheel's Upsert under the store's lock.
openAdd(c) ==
  /\ At(c, "add", "start")
  /\ byID' = byID \cup {c}
  /\ timer' = [timer EXCEPT ![c] = IdleTicks]
  /\ UNCHANGED <<body, limitVars, conns, wheelVars, shutVars, active>>

openStart(c) ==
  /\ At(c, "start", "inc")
  /\ UNCHANGED <<body, limitVars, conns, byID, timer, wheelVars, shutVars, active>>

openInc(c) ==
  /\ At(c, "inc", "open")
  /\ active' = active + 1
  /\ UNCHANGED <<body, limitVars, conns, byID, timer, wheelVars, shutVars>>

Open(c) ==
  \/ openReserve(c) \/ openRefused(c) \/ openFailed(c) \/ openDialed(c)
  \/ openInsert(c) \/ openAdd(c) \/ openStart(c) \/ openInc(c)

\* Send, Recv and Ping touch the connection they have looked up; by then it may
\* be gone from the store, or its timer from the wheel, and nothing happens.
touch(c) ==
  /\ phase[c] = "open"
  /\ c \in byID /\ timer[c] > 0
  /\ timer' = [timer EXCEPT ![c] = IdleTicks]
  /\ UNCHANGED <<phase, body, limitVars, conns, byID, wheelVars, shutVars, active>>

-----------------------------------------------------------------------------
(* relayConn.Close and onConnClosed *)

\* The first caller enters the Once; for a later one nothing changes.
Enter(c) == body' = [body EXCEPT ![c] = IF @ = "idle" THEN "wait" ELSE @]

BodyAt(c, from, to) == body[c] = from /\ body' = [body EXCEPT ![c] = to]

\* A /relay/close request, or a Recv that finds the stream drained.
closeByClient(c) ==
  /\ phase[c] = "open" /\ c \in conns /\ body[c] = "idle"
  /\ Enter(c)
  /\ UNCHANGED <<phase, limitVars, conns, byID, timer, wheelVars, shutVars, active>>

\* readLoop finds the ring full: it calls Close, or blocks in a Close that
\* waits for it, and its own wg.Done never comes.
overflow(c) ==
  /\ MayOverflow
  /\ phase[c] \in {"inc", "open"} /\ body[c] \in {"idle", "wait"}
  /\ body' = [body EXCEPT ![c] = "stuck"]
  /\ UNCHANGED <<phase, limitVars, conns, byID, timer, wheelVars, shutVars, active>>

closeWaited(c) ==
  /\ BodyAt(c, "wait", "delete")
  /\ UNCHANGED <<phase, limitVars, conns, byID, timer, wheelVars, shutVars, active>>

closeDelete(c) ==
  /\ BodyAt(c, "delete", IF c \in conns THEN "store" ELSE "done")
  /\ conns' = conns \ {c}
  /\ UNCHANGED <<phase, limitVars, byID, timer, wheelVars, shutVars, active>>

\* ttlStore.Delete returns early for an unknown id.
closeStore(c) ==
  /\ BodyAt(c, "store", "release")
  /\ byID' = byID \ {c}
  /\ timer' = IF c \in byID THEN [timer EXCEPT ![c] = 0] ELSE timer
  /\ UNCHANGED <<phase, limitVars, conns, wheelVars, shutVars, active>>

closeRelease(c) ==
  /\ BodyAt(c, "release", "dec")
  /\ ReleaseRelayConn(c)
  /\ UNCHANGED <<phase, conns, byID, timer, wheelVars, shutVars, active>>

closeDec(c) ==
  /\ BodyAt(c, "dec", "done")
  /\ active' = active - 1
  /\ UNCHANGED <<phase, limitVars, conns, byID, timer, wheelVars, shutVars>>

Body(c) ==
  closeWaited(c) \/ closeDelete(c) \/ closeStore(c) \/ closeRelease(c) \/ closeDec(c)

-----------------------------------------------------------------------------
(* The wheel's goroutine: a tick, then the callbacks it collected, each of *)
(* which is Manager.Close and holds the goroutine until Close returns.     *)

WheelIdle == callbacks = {} /\ wheelOn = None

\* A plausible slip: of several callbacks due at once only some are kept.
tickKeepsOne ==
  /\ shutdown # "done" /\ WheelIdle
  /\ timer' = [c \in Conns |-> IF timer[c] > 0 THEN timer[c] - 1 ELSE 0]
  /\ \E c \in Conns : callbacks' = {c} \cap {d \in Conns : timer[d] = 1}
  /\ UNCHANGED <<phase, body, limitVars, conns, byID, wheelOn, shutVars, active>>

tick ==
  /\ shutdown # "done" /\ WheelIdle
  /\ timer' = [c \in Conns |-> IF timer[c] > 0 THEN timer[c] - 1 ELSE 0]
  /\ callbacks' = {c \in Conns : timer[c] = 1}
  /\ UNCHANGED <<phase, body, limitVars, conns, byID, wheelOn, shutVars, active>>

idleCallback(c) ==
  /\ c \in callbacks /\ wheelOn = None
  /\ callbacks' = callbacks \ {c}
  /\ \/ c \in conns /\ Enter(c) /\ wheelOn' = c
     \/ c \notin conns /\ UNCHANGED <<body, wheelOn>>
  /\ UNCHANGED <<phase, limitVars, conns, byID, timer, shutVars, active>>

idleReturn ==
  /\ wheelOn # None /\ body[wheelOn] = "done"
  /\ wheelOn' = None
  /\ UNCHANGED <<phase, body, limitVars, conns, byID, timer, callbacks, shutVars, active>>

-----------------------------------------------------------------------------
(* Shutdown: closes the connections it finds, in any order, then the wheel.*)

shutdownBegin ==
  /\ shutdown = "no"
  /\ shutdown' = "closing" /\ todo' = conns
  /\ UNCHANGED <<phase, body, limitVars, conns, byID, timer, wheelVars, shutOn, active>>

shutdownClose(c) ==
  /\ shutdown = "closing" /\ shutOn = None /\ c \in todo
  /\ todo' = todo \ {c}
  /\ \/ c \in conns /\ Enter(c) /\ shutOn' = c
     \/ c \notin conns /\ UNCHANGED <<body, shutOn>>
  /\ UNCHANGED <<phase, limitVars, conns, byID, timer, wheelVars, shutdown, active>>

shutdownReturn ==
  /\ shutOn # None /\ body[shutOn] = "done"
  /\ shutOn' = None
  /\ UNCHANGED <<phase, body, limitVars, conns, byID, timer, wheelVars, shutdown, todo, active>>

\* wheel.Close: tell the goroutine to stop and wait for it.
shutdownWheel ==
  /\ shutdown = "closing" /\ todo = {} /\ shutOn = None
  /\ shutdown' = "stopping"
  /\ UNCHANGED <<phase, body, limitVars, conns, byID, timer, wheelVars, todo, shutOn, active>>

wheelExit ==
  /\ shutdown = "stopping" /\ WheelIdle
  /\ shutdown' = "done"
  /\ UNCHANGED <<phase, body, limitVars, conns, byID, timer, wheelVars, todo, shutOn, active>>

Shutdown ==
  \/ \E c \in Conns : shutdownClose(c)
  \/ shutdownReturn \/ shutdownWheel

Terminated == shutdown = "done" /\ UNCHANGED vars

Next ==
  \/ \E c \in Conns : \/ Open(c) \/ touch(c) \/ closeByClient(c) \/ overflow(c)
                      \/ Body(c) \/ idleCallback(c)
  \/ tick \/ idleReturn \/ wheelExit
  \/ shutdownBegin \/ Shutdown
  \/ Terminated

Spec == Init /\ [][Next]_vars

\* Requests that have begun, closing bodies, the wheel and a Shutdown that has
\* begun go on.  No client has to open, touch or close, and no target overflows
\* by fairness.  run's select takes a ready stop channel in the end.
Fairness ==
  /\ \A c \in Conns : /\ WF_vars(Open(c) /\ phase[c] # "new")
                      /\ WF_vars(Body(c))
                      /\ WF_vars(idleCallback(c))
  /\ WF_vars(tick) /\ WF_vars(idleReturn)
  /\ WF_vars(Shutdown) /\ SF_vars(wheelExit)

FairSpec == Spec /\ Fairness

-----------------------------------------------------------------------------
(* Properties *)

\* The requests and connections that hold a slot: from the reservation to the
\* release after a failed dial or at the end of Close.
Holding == {"dial", "insert", "add", "start", "inc", "open"}
Holders == {c \in Conns : phase[c] \in Holding /\ body[c] \notin {"dec", "done"}}
HoldersOf(k) == {c \in Holders : Owner[c] = k}

\* Every slot taken is held by exactly one request or connection and is given
\* back exactly once, whoever closes it and however the closes interleave: the
\* counters never leak, and their clamps at zero never act.
Accounting ==
  /\ totalRelayConns = Cardinality(Holders)
  /\ \A k \in Clients : relayConnsByClient[k] = Cardinality(HoldersOf(k))

\* The limits hold for the connections themselves, dialling ones included.
LimitsKept ==
  /\ conns \subseteq Holders
  /\ MaxTotalConns > 0 => Cardinality(Holders) <= MaxTotalConns
  /\ \A k \in Clients :
       MaxConnsPerClient > 0 => Cardinality(HoldersOf(k)) <= MaxConnsPerClient

\* A connection nobody is closing has a timer, or its idle callback is about to
\* run: a Touch that races the tick, or an Add that races a close, leaves no
\* connection that idleness cannot reach.
IdleCovered ==
  \A c \in Conns : (phase[c] \in {"start", "inc", "open"} /\ body[c] = "idle")
                     => timer[c] > 0 \/ c \in callbacks

\* A closed connection leaves nothing behind in the tables, the store or the
\* wheel, as long as no Shutdown overtakes an Open.
NothingLeft ==
  \A c \in Conns : (shutdown = "no" /\ body[c] = "done")
                     => c \notin conns \cup byID /\ timer[c] = 0

\* When no request and no close is under way, the gauge is the number of
\* connections, also after a close that overtook the increment.
GaugeSettles ==
  (\A c \in Conns : /\ phase[c] \in {"new", "refused", "failed", "open"}
                    /\ body[c] \in {"idle", "done", "stuck"})
    => active = Cardinality(conns)

\* README: "idle TTL closes connection": a connection that is not touched again
\* and again is closed in the end.
IdleClosed ==
  \A c \in Conns : \/ []<><<touch(c)>>_vars
                   \/ (phase[c] = "open") ~> (body[c] = "done" \/ shutdown # "no")

\* README: "Gateway supports graceful shutdown for HTTP, QUIC sessions, relay
\* connections, and TTL wheels": Shutdown returns.
ShutdownReturns == (shutdown = "closing") ~> (shutdown = "done")

\* Slots are exact: each is held by one request or connection and given back
\* once, and there are never more than the limits allow.
SlotsExact == TypeOK /\ Accounting /\ LimitsKept

\* No connection is forgotten, neither an open one by the idle timer nor a closed
\* one in a table, the store, the wheel or the gauge.
NoneForgotten == IdleCovered /\ NothingLeft /\ GaugeSettles

\* Idle connections are closed, and Shutdown returns.
RelayEnds == IdleClosed /\ ShutdownReturns
=============================================================================
