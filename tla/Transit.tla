------------------------------ MODULE Transit ------------------------------
(***************************************************************************)
(* The transit hop (internal/transit/proxy.go): TCP connections copied in  *)
(* both directions, UDP sessions of a lane, one per client address, each   *)
(* with a goroutine that sends the gateway's datagrams back, and Shutdown, *)
(* which ends both.                                                        *)
(*                                                                         *)
(* There is one TCP listener and one lane.  The steps of a goroutine that  *)
(* others can tell apart are actions; closeSession takes two under its     *)
(* Once, the removal from the table and finalizeSession.  Byte and packet  *)
(* counters and the metrics server are left out, but not its failure.      *)
(***************************************************************************)
EXTENDS Integers, FiniteSets

CONSTANTS Conns,       \* TCP connections that clients open
          Addrs,       \* addresses of UDP clients
          MaxSessions, \* bound on the UDP sessions
          Mixed        \* FALSE bounds a behaviour to connections or sessions:
                       \* Shutdown is the only place where they meet

ASSUME TransitAssumption == MaxSessions \in Nat /\ "none" \notin Addrs

Sessions == 1 .. MaxSessions
Sides == {"client", "backend"}
Copies == {"up", "down"}

VARIABLES
  ctxDone,    \* the context of Run
  cause,      \* why Run calls Shutdown: it is to stop, or start has failed
  stopper,    \* Shutdown, and lane.Close in it
  todo,       \* what Range still has to visit; what Close still has to finalize
  connHandler, \* handleTCPConn of each connection
  open,       \* its sockets that are open
  copies,     \* its copies that have not ended
  tracked,    \* p.activeConns
  conn,       \* l.conn and l.closed
  table,      \* l.sessions: the session of each address, 0 if there is none
  addr,       \* the address of each session
  pipe,       \* pipeBackendToClient of each session
  quiet,      \* its read deadlines since the last touch, 0 once it is to be closed
  once,       \* its closeOnce
  backend,    \* sessions with an open backendConn
  active,     \* ActiveUDPSessions
  runner,     \* the goroutine of udpLane.Run: the address or session it works on
  lateConns,    \* history: connections tracked after Range had begun, and
  lateSessions  \* sessions counted after lane.Close had waited

shutdown == <<ctxDone, cause, stopper, todo>>
tcp == <<connHandler, open, copies, tracked>>
udp == <<conn, table, addr, pipe, quiet, once, backend, active, runner>>
late == <<lateConns, lateSessions>>
xvars == <<shutdown, tcp, udp, late>>

New == {s \in Sessions : pipe[s] = "none"}
Running(s) == pipe[s] \in {"read", "write", "close", "finalize"}
Handling(c) == connHandler[c] \notin {"none", "returned"}
Idle == [pc |-> "read", addr |-> "none", session |-> 0]

XTypeOK ==
  /\ ctxDone \in BOOLEAN /\ cause \in {"none", "stop", "start"}
  /\ stopper \in {"run", "lane", "finalize", "range", "wait", "returned", "timeout"}
  /\ connHandler \in [Conns -> {"none", "track", "dial", "trackBackend", "copy", "closed", "returned"}]
  /\ open \in [Conns -> SUBSET Sides] /\ copies \in [Conns -> SUBSET Copies] /\ tracked \subseteq Conns \X Sides
  /\ table \in [Addrs -> 0 .. MaxSessions] /\ active \in 0 .. MaxSessions
  /\ pipe \in [Sessions -> {"none", "spawn", "read", "write", "close", "finalize", "returned"}]
  /\ quiet \in [Sessions -> 0 .. 2] /\ once \in [Sessions -> {"no", "begun", "done"}]
  /\ runner.pc \in {"read", "get", "spawn", "write", "close", "finalize", "returned"}

XInit ==
  /\ ctxDone = FALSE /\ cause = "none" /\ stopper = "run" /\ todo = {}
  /\ connHandler = [c \in Conns |-> "none"] /\ open = [c \in Conns |-> {}]
  /\ copies = [c \in Conns |-> {}] /\ tracked = {}
  /\ conn = "open" /\ table = [a \in Addrs |-> 0] /\ addr = [s \in Sessions |-> "none"]
  /\ pipe = [s \in Sessions |-> "none"] /\ quiet = [s \in Sessions |-> 0]
  /\ once = [s \in Sessions |-> "no"] /\ backend = {} /\ active = 0 /\ runner = Idle
  /\ lateConns = {} /\ lateSessions = {}

-----------------------------------------------------------------------------
(* TCP connections.                                                        *)

\* A connection that was accepted before the listener is closed is handled.
acceptLoop ==
  /\ stopper = "run" /\ (Mixed \/ New = Sessions)
  /\ \E c \in Conns : /\ connHandler[c] = "none"
                      /\ connHandler' = [connHandler EXCEPT ![c] = "track"]
                      /\ open' = [open EXCEPT ![c] = {"client"}]
  /\ UNCHANGED <<shutdown, copies, tracked, udp, late>>

RangeBegun == stopper \in {"range", "wait", "returned", "timeout"}

trackConn(c, side, from, to) ==
  /\ connHandler[c] = from /\ connHandler' = [connHandler EXCEPT ![c] = to]
  /\ tracked' = tracked \cup {<<c, side>>}
  /\ lateConns' = IF side = "client" /\ RangeBegun THEN lateConns \cup {c} ELSE lateConns
  /\ copies' = [copies EXCEPT ![c] = IF side = "backend" THEN Copies ELSE {}]
  /\ UNCHANGED <<shutdown, open, udp, lateSessions>>

\* The deferred calls.
Returns(c) ==
  /\ connHandler' = [connHandler EXCEPT ![c] = "returned"]
  /\ open' = [open EXCEPT ![c] = {}]
  /\ tracked' = tracked \ ({c} \X Sides)

DialContext(c) ==
  /\ connHandler[c] = "dial"
  /\ \/ /\ ~ctxDone
        /\ connHandler' = [connHandler EXCEPT ![c] = "trackBackend"] /\ open' = [open EXCEPT ![c] = @ \cup {"backend"}]
        /\ UNCHANGED tracked
     \/ Returns(c)
  /\ UNCHANGED <<shutdown, copies, udp, late>>

\* io.Copy ends when a peer ends or fails, at the latest when its source is closed.
Cut(c, d) == (IF d = "up" THEN "client" ELSE "backend") \notin open[c]
copyStream(c, d) ==
  /\ d \in copies[c] /\ connHandler[c] \in {"copy", "closed"}
  /\ copies' = [copies EXCEPT ![c] = @ \ {d}]
  /\ UNCHANGED <<shutdown, connHandler, open, tracked, udp, late>>

\* The end of either copy closes both sockets; then the other copy ends.
closeBoth(c) ==
  /\ connHandler[c] = "copy" /\ copies[c] # Copies
  /\ connHandler' = [connHandler EXCEPT ![c] = "closed"] /\ open' = [open EXCEPT ![c] = {}]
  /\ UNCHANGED <<shutdown, copies, tracked, udp, late>>

handlerReturns(c) ==
  /\ connHandler[c] = "closed" /\ copies[c] = {}
  /\ Returns(c)
  /\ UNCHANGED <<shutdown, copies, udp, late>>

handleTCPConn(c) ==
  \/ trackConn(c, "client", "track", "dial") \/ DialContext(c) \/ trackConn(c, "backend", "trackBackend", "copy")
  \/ closeBoth(c) \/ handlerReturns(c)

-----------------------------------------------------------------------------
(* UDP sessions.                                                           *)

finalizeSession(s) == backend' = backend \ {s} /\ active' = active - 1 /\ once' = [once EXCEPT ![s] = "done"]

\* A plausible slip: the removal is outside the Once.
closeBeginAlways(s) ==
  /\ once[s] # "begun" /\ once' = [once EXCEPT ![s] = IF @ = "no" THEN "begun" ELSE @]
  /\ table' = [table EXCEPT ![addr[s]] = 0]

\* closeSession: the first caller removes what the table has under the address,
\* and is to finalize; a later one waits until it has, and does nothing.
closeBegin(s) ==
  /\ once[s] # "begun"
  /\ IF once[s] = "no"
     THEN once' = [once EXCEPT ![s] = "begun"] /\ table' = [table EXCEPT ![addr[s]] = 0]
     ELSE UNCHANGED <<once, table>>

\* A datagram, or an error; one that was read before conn is closed is served.
runRead ==
  /\ runner.pc = "read"
  /\ \/ /\ conn = "open" /\ (Mixed \/ \A c \in Conns : connHandler[c] = "none")
        /\ \E a \in Addrs : runner' = [Idle EXCEPT !.pc = "get", !.addr = a]
     \/ conn = "closed" /\ runner' = [Idle EXCEPT !.pc = "returned"]
  /\ UNCHANGED <<shutdown, tcp, conn, table, addr, pipe, quiet, once, backend, active, late>>

\* The table is looked up and the new session inserted under the lock.
getOrCreateSession ==
  /\ runner.pc = "get"
  /\ \/ /\ table[runner.addr] # 0
        /\ runner' = [runner EXCEPT !.pc = "write", !.session = table[runner.addr]]
        /\ UNCHANGED <<table, addr, pipe, backend, active>>
     \/ /\ table[runner.addr] = 0 /\ New # {}
        /\ LET s == CHOOSE x \in New : TRUE
           IN  /\ table' = [table EXCEPT ![runner.addr] = s] /\ addr' = [addr EXCEPT ![s] = runner.addr]
               /\ pipe' = [pipe EXCEPT ![s] = "spawn"]
               /\ backend' = backend \cup {s} /\ active' = active + 1
               /\ runner' = [runner EXCEPT !.pc = "spawn", !.session = s]
     \/ table[runner.addr] = 0 /\ runner' = Idle /\ UNCHANGED <<table, addr, pipe, backend, active>>
  /\ UNCHANGED <<shutdown, tcp, conn, quiet, once, late>>

\* waitGroup.Add and the goroutine
spawnPipe ==
  /\ runner.pc = "spawn"
  /\ pipe' = [pipe EXCEPT ![runner.session] = "read"]
  /\ lateSessions' = IF RangeBegun THEN lateSessions \cup {runner.session} ELSE lateSessions
  /\ runner' = [runner EXCEPT !.pc = "write"]
  /\ UNCHANGED <<shutdown, tcp, conn, table, addr, quiet, once, backend, active, lateConns>>

\* touch and Write; Write fails on a closed socket, and may fail otherwise.
runWrite ==
  /\ runner.pc = "write"
  /\ quiet' = [quiet EXCEPT ![runner.session] = 0]
  /\ \/ runner.session \in backend /\ runner' = Idle
     \/ runner' = [runner EXCEPT !.pc = "close"]
  /\ UNCHANGED <<shutdown, tcp, conn, table, addr, pipe, once, backend, active, late>>

runClose ==
  /\ \/ /\ runner.pc = "close"
        /\ closeBegin(runner.session)
        /\ runner' = IF once[runner.session] = "no" THEN [runner EXCEPT !.pc = "finalize"] ELSE Idle
        /\ UNCHANGED <<backend, active>>
     \/ runner.pc = "finalize" /\ finalizeSession(runner.session) /\ runner' = Idle /\ UNCHANGED table
  /\ UNCHANGED <<shutdown, tcp, conn, addr, pipe, quiet, late>>

Run == runRead \/ getOrCreateSession \/ spawnPipe \/ runWrite \/ runClose

Pipe(s, pc) == pipe' = [pipe EXCEPT ![s] = pc]

\* A datagram of the gateway: touch, and WriteToUDP, which fails on a closed conn.
pipeDatagram(s) ==
  /\ \/ /\ pipe[s] = "read" /\ s \in backend
        /\ quiet' = [quiet EXCEPT ![s] = 0] /\ Pipe(s, "write")
     \/ pipe[s] = "write" /\ (Pipe(s, "close") \/ (conn = "open" /\ Pipe(s, "read"))) /\ UNCHANGED quiet
  /\ UNCHANGED <<shutdown, tcp, conn, table, addr, once, backend, active, runner, late>>

\* A plausible slip: while the lane is open the deadline is only set again.
pipeDeadlineAgain(s) ==
  /\ pipe[s] = "read" /\ s \in backend
  /\ IF conn = "open" /\ ~ctxDone
     THEN quiet' = [quiet EXCEPT ![s] = IF @ < 2 THEN @ + 1 ELSE @] /\ UNCHANGED pipe
     ELSE Pipe(s, "close") /\ quiet' = [quiet EXCEPT ![s] = 0]
  /\ UNCHANGED <<shutdown, tcp, conn, table, addr, once, backend, active, runner, late>>

\* The read deadline, half the idle timeout, expires: the lane is closing; or the
\* session is idle, which it is at the third deadline after a touch at the latest.
pipeDeadline(s) ==
  /\ pipe[s] = "read" /\ s \in backend
  /\ \/ /\ quiet[s] < 2 /\ conn = "open" /\ ~ctxDone
        /\ quiet' = [quiet EXCEPT ![s] = @ + 1] /\ UNCHANGED pipe
     \/ Pipe(s, "close") /\ quiet' = [quiet EXCEPT ![s] = 0]
  /\ UNCHANGED <<shutdown, tcp, conn, table, addr, once, backend, active, runner, late>>

\* backendConn is closed, or Read fails.
pipeFails(s) ==
  /\ pipe[s] = "read" /\ Pipe(s, "close") /\ quiet' = [quiet EXCEPT ![s] = 0]
  /\ UNCHANGED <<shutdown, tcp, conn, table, addr, once, backend, active, runner, late>>

pipeClose(s) ==
  /\ \/ /\ pipe[s] = "close"
        /\ closeBegin(s)
        /\ Pipe(s, IF once[s] = "no" THEN "finalize" ELSE "returned")
        /\ UNCHANGED <<backend, active>>
     \/ pipe[s] = "finalize" /\ finalizeSession(s) /\ Pipe(s, "returned") /\ UNCHANGED table
  /\ UNCHANGED <<shutdown, tcp, conn, addr, quiet, runner, late>>

pipeBackendToClient(s) == pipeDatagram(s) \/ pipeDeadline(s) \/ pipeFails(s) \/ pipeClose(s)

-----------------------------------------------------------------------------
(* Run and Shutdown.                                                       *)

cancel ==
  /\ ~ctxDone /\ ctxDone' = TRUE
  /\ UNCHANGED <<cause, stopper, todo, tcp, udp, late>>

\* The context is done or the metrics server fails; or start does, after it has
\* started the lanes.  Listeners are closed; lane.Close begins and closes conn.
Shutdown ==
  /\ stopper = "run" /\ stopper' = "lane"
  /\ cause' \in {"stop", "start"}
  /\ conn' = "closed"
  /\ UNCHANGED <<ctxDone, todo, tcp, table, addr, pipe, quiet, once, backend, active, runner, late>>

\* lane.Close takes the sessions and replaces the table under the lock,
laneTake ==
  /\ stopper = "lane" /\ stopper' = "finalize"
  /\ todo' = {table[a] : a \in Addrs} \ {0} /\ table' = [a \in Addrs |-> 0]
  /\ UNCHANGED <<ctxDone, cause, tcp, conn, addr, pipe, quiet, once, backend, active, runner, late>>

\* finalizes each under its Once,
laneFinalize(s) ==
  /\ stopper = "finalize" /\ s \in todo /\ todo' = todo \ {s}
  /\ once[s] # "begun"
  /\ IF once[s] = "no" THEN finalizeSession(s) ELSE UNCHANGED <<once, backend, active>>
  /\ UNCHANGED <<ctxDone, cause, stopper, tcp, conn, table, addr, pipe, quiet, runner, late>>

\* and waits for the goroutines that were counted by then.  Range begins.
laneWait ==
  /\ stopper = "finalize" /\ todo = {}
  /\ \A s \in Sessions : ~Running(s)
  /\ stopper' = "range" /\ todo' = tracked
  /\ UNCHANGED <<ctxDone, cause, tcp, udp, late>>

\* Range visits what stays in the map from its beginning, and perhaps more.
rangeClose(k) ==
  /\ stopper = "range" /\ k \in tracked
  /\ open' = [open EXCEPT ![k[1]] = @ \ {k[2]}] /\ todo' = todo \ {k}
  /\ UNCHANGED <<ctxDone, cause, stopper, connHandler, copies, tracked, udp, late>>

rangeEnd ==
  /\ stopper = "range" /\ todo \cap tracked = {}
  /\ stopper' = "wait" /\ todo' = {}
  /\ UNCHANGED <<ctxDone, cause, tcp, udp, late>>

\* waitGroup, or the time that Run allows; the failure of start sets none.
groupWait ==
  /\ stopper = "wait"
  /\ \/ /\ runner.pc = "returned" /\ \A c \in Conns : ~Handling(c)
        /\ stopper' = "returned"
     \/ cause # "start" /\ stopper' = "timeout"
  /\ UNCHANGED <<ctxDone, cause, todo, tcp, udp, late>>

Stopping ==
  \/ laneTake \/ laneWait \/ rangeEnd \/ groupWait
  \/ \E s \in Sessions : laneFinalize(s)
  \/ \E k \in Conns \X Sides : rangeClose(k)

\* The process ends when Shutdown has returned.
Exited == stopper \in {"returned", "timeout"}

XNext ==
  \/ /\ ~Exited
     /\ \/ cancel \/ Shutdown \/ Stopping \/ acceptLoop \/ Run
        \/ \E c \in Conns : handleTCPConn(c) \/ \E d \in Copies : copyStream(c, d)
        \/ \E s \in Sessions : pipeBackendToClient(s)
  \/ Exited /\ UNCHANGED xvars

XSpec == XInit /\ [][XNext]_xvars

\* Goroutines run, DialContext and Read have time limits; peers need not end.
LaneStops == stopper # "run" /\ ~Exited /\ Run
PipeSteps(s) == ~Exited /\ (pipeDeadline(s) \/ (s \notin backend /\ pipeFails(s)) \/ (pipe[s] = "write" /\ pipeDatagram(s)) \/ pipeClose(s))
ConnSteps(c) == ~Exited /\ (handleTCPConn(c) \/ \E d \in Copies : Cut(c, d) /\ copyStream(c, d))

-----------------------------------------------------------------------------
\* Before lane.Close takes the table, the sessions that nobody closes are those in
\* the table, each under its address: closeSession, which deletes by address,
\* never removes another session than its own.
LiveInTable ==
  stopper \in {"run", "lane"} =>
    \A s \in Sessions : pipe[s] # "none" => (once[s] = "no" <=> table[addr[s]] = s)

\* ActiveUDPSessions counts the sessions whose socket is open, whoever closes them.
SessionsCounted == active = Cardinality(backend)

\* When Shutdown returns without an error, nothing runs but goroutines of sessions
\* that were counted after lane.Close had waited.
CleanReturn ==
  stopper = "returned" =>
    /\ \A c \in Conns : ~Handling(c) /\ open[c] = {}
    /\ \A s \in Sessions : Running(s) \/ s \in backend => s \in lateSessions

\* After Range, every tracked client socket is closed, unless it was tracked too
\* late for Range.
RangeReaches ==
  stopper \in {"wait", "returned", "timeout"} =>
    \A c \in Conns : <<c, "client">> \in tracked /\ "client" \in open[c] => c \in lateConns

\* Live sessions are in the table under their own address and counted once, and
\* Shutdown leaves only sessions and connections that came too late for it.
SessionsKept == XTypeOK /\ LiveInTable /\ SessionsCounted /\ CleanReturn /\ RangeReaches

\* Shutdown returns, or, if start has failed and there is no time limit, waits for
\* a connection that was tracked too late for Range.
ShutdownReturns == stopper = "lane" ~> (stopper \in {"returned", "timeout"} \/ (cause = "start" /\ lateConns # {}))

\* Sessions do not stay idle: again and again there is none whose last deadline
\* has come and that is neither touched nor closed.
IdleEnds == []<>(Exited \/ \A s \in Sessions : quiet[s] < 2)
=============================================================================
