----------------------------- MODULE QUICSession -----------------------------
(***************************************************************************)
(* One session over QUIC: internal/session/session.go, with its            *)
(* registration in internal/session/server.go.  The datagram pipeline is   *)
(* module Datagrams.                                                       *)
(*                                                                         *)
(* Threads: Run; controlLoop; acceptFlowStreams; one handleFlowStream per  *)
(* accepted stream with the two goroutines of pumpTCPFlow, which are not   *)
(* in the WaitGroup; one udpReadLoop per UDP flow; the idle timer or       *)
(* Shutdown.  pingLoop, which only writes and ends with ctx, and the       *)
(* datagram workers, which call Close and closeFlow as udpReadLoop does,   *)
(* are left out.  A step is one lock-protected block, one read, dial or    *)
(* write whose result is looked at; a write whose result is ignored        *)
(* belongs to the step before it.                                          *)
(*                                                                         *)
(* A flow is an OPEN request with the object made for it; FlowId is the    *)
(* number the client chose.  TCP and UDP flows have separate tables and    *)
(* may have the same number.  CLOSE_FLOW and closeFlow go by the number.   *)
(***************************************************************************)
EXTENDS Integers, FiniteSets

CONSTANTS TCPFlows, UDPFlows,  \* OPEN_TCP and OPEN_UDP requests
          FlowId,              \* the flow_id of each
          Plans,               \* sets of requests and streams of one client
          Streams,             \* streams the client may open
          None,
          MaxFlows,            \* s.server.cfg.MaxFlows
          Buffered             \* frames controlR may hold when conn is closed

Flows == TCPFlows \cup UDPFlows
Ids == {FlowId[o] : o \in Flows}

ASSUME QUICSessionAssumption ==
  /\ IsFiniteSet(Flows) /\ TCPFlows \cap UDPFlows = {}
  /\ DOMAIN FlowId = Flows
  /\ None \notin Flows \cup Ids \cup Streams
  /\ {"run", "outside", "control", "accept"} \cap (Streams \cup UDPFlows) = {}
  /\ Streams \cap UDPFlows = {}
  /\ MaxFlows \in Nat /\ Buffered \in Nat

VARIABLES
  pc,
  tcpFlows, udpFlows,  \* s.tcpFlows, s.udpFlows: the object with each number
  target,              \* the connection to each flow's destination
  stream,              \* the stream attached to each TCP flow
  sending,             \* the gateway's direction of each stream
  served,              \* the flow each stream handler has found
  late,                \* history: streams attached to a flow already closed
  cancelled,           \* s.ctx is done
  connOpen, buffered,  \* s.conn; frames readable although it is closed
  once, closing,       \* s.closeOnce; flows Close has yet to close
  cur, arg, taken,     \* the flow control opens; closeFlow's number and flows
  registered, timer, active  \* server.sessions, store, gauge

flow == <<tcpFlows, udpFlows, target, stream, sending, served, late>>
conn == <<cancelled, connOpen, buffered>>
life == <<once, closing>>
calls == <<cur, arg, taken>>
server == <<registered, timer, active>>
vars == <<pc, flow, conn, life, calls, server>>

\* Threads that Run waits for, and that call closeFlow.
Counted == {"control", "accept"} \cup Streams \cup UDPFlows
\* One thread stands for the idle timer and for Shutdown, which both call Close.
Threads == {"run", "outside"} \cup Counted
Labels == {"auth", "regInsert", "regStore", "regInc", "authOK", "start", "wait",
           "unregDelete", "unregStore", "new", "read", "dial", "insert", "ok",
           "head", "attach", "pump", "cf", "close", "once",
           "conn", "snapshot", "flows", "done"}

TypeOK ==
  /\ pc \in [Threads -> Labels]
  /\ tcpFlows \in [Ids -> TCPFlows \cup {None}]
  /\ udpFlows \in [Ids -> UDPFlows \cup {None}]
  /\ target \in [Flows -> {"none", "open", "closed"}]
  /\ stream \in [TCPFlows -> Streams \cup {None}]
  /\ sending \in [Streams -> {"none", "open", "closed"}]
  /\ served \in [Streams -> TCPFlows \cup {None}]
  /\ late \in SUBSET Streams
  /\ {cancelled, connOpen, registered, timer} \subseteq BOOLEAN
  /\ buffered \in 0 .. Buffered
  /\ once \in {"free", "busy", "done"}
  /\ closing \in SUBSET Flows
  /\ cur \in Flows \cup {None}
  /\ arg \in [Counted -> Ids \cup {None}]
  /\ taken \in [Counted -> SUBSET Flows]
  /\ active \in 0 .. 1

Init ==
  /\ tcpFlows = [i \in Ids |-> None] /\ udpFlows = [i \in Ids |-> None]
  /\ \E S \in Plans :
       /\ target = [o \in Flows |-> IF o \in S THEN "none" ELSE "closed"]
       /\ pc = [t \in Threads |-> IF t = "run" THEN "auth"
                                   ELSE IF t \in Streams \ S THEN "done" ELSE "new"]
  /\ stream = [o \in TCPFlows |-> None]
  /\ sending = [s \in Streams |-> "none"] /\ served = [s \in Streams |-> None]
  /\ late = {}
  /\ cancelled = FALSE /\ connOpen = TRUE /\ buffered = Buffered
  /\ once = "free" /\ closing = {}
  /\ cur = None
  /\ arg = [t \in Counted |-> None] /\ taken = [t \in Counted |-> {}]
  /\ registered = FALSE /\ timer = FALSE /\ active = 0

\* s.wg: a thread is added in the step that starts it and leaves on its return.
Live == {t \in Counted : pc[t] \notin {"new", "done"}}

Goto(t, from, to) == pc[t] = from /\ pc' = [pc EXCEPT ![t] = to]
\* A step that only moves thread t.
Move(t, from, to) ==
  Goto(t, from, to) /\ UNCHANGED <<flow, conn, life, calls, server>>
-----------------------------------------------------------------------------
(* closeFlow: takes what has the number out of both tables under flowsMu,  *)
(* then closes it.  A flow is in nobody else's hands then.                 *)

\* Where a thread goes on after closeFlow; after Close every one returns.
Back(t) == IF t = "control" THEN "read" ELSE "done"

\* The thread is about to call closeFlow(i).
CallCloseFlow(t, from, i) ==
  /\ Goto(t, from, "cf")
  /\ arg' = [arg EXCEPT ![t] = i]

cfDelete(t) ==
  LET found == {tcpFlows[arg[t]], udpFlows[arg[t]]} \ {None}
  IN  /\ Goto(t, "cf", IF found = {} THEN Back(t) ELSE "close")
      /\ taken' = [taken EXCEPT ![t] = found]
      /\ tcpFlows' = [tcpFlows EXCEPT ![arg[t]] = None]
      /\ udpFlows' = [udpFlows EXCEPT ![arg[t]] = None]
      /\ arg' = [arg EXCEPT ![t] = None]
      /\ UNCHANGED <<target, stream, sending, served, late, conn, life, cur, server>>

\* closeOnce of flows S: the target and, of a TCP flow, the stream if there is one.
CloseAll(S) ==
  /\ target' = [o \in Flows |-> IF o \in S THEN "closed" ELSE target[o]]
  /\ sending' = [s \in Streams |-> IF s \in {stream[o] : o \in S \cap TCPFlows}
                                    THEN "closed" ELSE sending[s]]

\* A plausible slip: the stream is left for the client to end.
CloseTargets(S) ==
  /\ target' = [o \in Flows |-> IF o \in S THEN "closed" ELSE target[o]]
  /\ UNCHANGED sending

cfCloseTarget(t) ==
  /\ Goto(t, "close", Back(t))
  /\ CloseTargets(taken[t])
  /\ taken' = [taken EXCEPT ![t] = {}]
  /\ UNCHANGED <<tcpFlows, udpFlows, stream, served, late, conn, life, cur, arg, server>>

cfClose(t) ==
  /\ Goto(t, "close", Back(t))
  /\ CloseAll(taken[t])
  /\ taken' = [taken EXCEPT ![t] = {}]
  /\ UNCHANGED <<tcpFlows, udpFlows, stream, served, late, conn, life, cur, arg, server>>

closeFlow(t) == cfDelete(t) \/ cfClose(t)
-----------------------------------------------------------------------------
(* Close: the first caller runs the body in closeOnce, others wait in Do.  *)
(* Unlike a TCP session's, the body does not wait for the WaitGroup.       *)

OnceDo(t) ==
  \/ /\ once = "free"
     /\ Goto(t, "once", "conn")
     /\ once' = "busy"
     /\ UNCHANGED <<flow, conn, closing, calls, server>>
  \/ once = "done" /\ Move(t, "once", "done")

\* cancel, conn.CloseWithError and control.Close
CloseConn(t) ==
  /\ Goto(t, "conn", "snapshot")
  /\ cancelled' = TRUE /\ connOpen' = FALSE
  /\ UNCHANGED <<flow, buffered, life, calls, server>>

InTables == ({tcpFlows[i] : i \in Ids} \cup {udpFlows[i] : i \in Ids}) \ {None}

\* A plausible slip: UDP flows are forgotten.
SnapshotTCP(t) ==
  /\ Goto(t, "snapshot", "flows")
  /\ closing' = {tcpFlows[i] : i \in Ids} \ {None}
  /\ tcpFlows' = [i \in Ids |-> None] /\ udpFlows' = [i \in Ids |-> None]
  /\ UNCHANGED <<target, stream, sending, served, late, conn, once, calls, server>>

\* Both tables are emptied under flowsMu.
Snapshot(t) ==
  /\ Goto(t, "snapshot", "flows")
  /\ closing' = InTables
  /\ tcpFlows' = [i \in Ids |-> None] /\ udpFlows' = [i \in Ids |-> None]
  /\ UNCHANGED <<target, stream, sending, served, late, conn, once, calls, server>>

CloseOne(t) ==
  /\ pc[t] = "flows"
  /\ \E o \in closing : CloseAll({o}) /\ closing' = closing \ {o}
  /\ UNCHANGED <<pc, tcpFlows, udpFlows, stream, served, late, conn, once, calls, server>>

CloseReturn(t) ==
  /\ closing = {}
  /\ Goto(t, "flows", "done")
  /\ once' = "done"
  /\ UNCHANGED <<flow, conn, closing, calls, server>>

Close(t) ==
  OnceDo(t) \/ CloseConn(t) \/ Snapshot(t) \/ CloseOne(t) \/ CloseReturn(t)

\* The peer closes the connection or is lost.
clientGone ==
  /\ connOpen
  /\ connOpen' = FALSE
  /\ UNCHANGED <<pc, flow, cancelled, buffered, life, calls, server>>

\* The idle timer fires on the wheel's goroutine ...
idleTimeout ==
  /\ timer
  /\ Goto("outside", "new", "once")
  /\ timer' = FALSE
  /\ UNCHANGED <<flow, conn, life, calls, registered, active>>

\* ... or Shutdown finds the session in server.sessions.
shutdown == registered /\ Move("outside", "new", "once")
-----------------------------------------------------------------------------
(* Run.                                                                    *)

\* No control stream, or no AUTH frame that verifies.
authFail == Move("run", "auth", "once")

authVerified == connOpen /\ Move("run", "auth", "regInsert")

regInsert ==
  /\ Goto("run", "regInsert", "regStore")
  /\ registered' = TRUE
  /\ UNCHANGED <<flow, conn, life, calls, timer, active>>

regStore ==
  /\ Goto("run", "regStore", "regInc")
  /\ timer' = TRUE
  /\ UNCHANGED <<flow, conn, life, calls, registered, active>>

regInc ==
  /\ Goto("run", "regInc", "authOK")
  /\ active' = active + 1
  /\ UNCHANGED <<flow, conn, life, calls, registered, timer>>

authOK ==
  \/ connOpen /\ Move("run", "authOK", "start")
  \/ Move("run", "authOK", "unregDelete")

\* controlLoop and acceptFlowStreams (with the pipeline and pingLoop).
start ==
  /\ pc["run"] = "start"
  /\ pc' = [pc EXCEPT !["run"] = "wait", !["control"] = "read",
                      !["accept"] = "read"]
  /\ UNCHANGED <<flow, conn, life, calls, server>>

\* A plausible slip: Run returns as soon as the context is done.
waitCtxOnly == cancelled /\ Move("run", "wait", "unregDelete")

\* <-s.ctx.Done(); s.wg.Wait()
wait == cancelled /\ Live = {} /\ Move("run", "wait", "unregDelete")

unregDelete ==
  /\ Goto("run", "unregDelete", "unregStore")
  /\ registered' = FALSE
  /\ UNCHANGED <<flow, conn, life, calls, timer, active>>

\* store.Delete, limits.CleanupSession and the gauge; then Run's other defer.
unregStore ==
  /\ Goto("run", "unregStore", "once")
  /\ timer' = FALSE /\ active' = active - 1
  /\ UNCHANGED <<flow, conn, life, calls, registered>>

Run == authFail \/ authVerified \/ regInsert \/ regStore \/ regInc \/ authOK
       \/ start \/ wait \/ unregDelete \/ unregStore
-----------------------------------------------------------------------------
(* controlLoop.                                                            *)

\* ReadFrame gives a frame: of an open connection, or one left in controlR.
Frame ==
  /\ pc["control"] = "read"
  /\ connOpen \/ buffered > 0
  /\ buffered' = IF connOpen THEN buffered ELSE buffered - 1
  /\ UNCHANGED <<flow, cancelled, connOpen, life, server>>

controlEnd == Move("control", "read", "once")

\* PING, PONG, malformed, refused and unknown frames change nothing.
frameCloseFlow(i) ==
  /\ Frame
  /\ CallCloseFlow("control", "read", i)
  /\ UNCHANGED <<cur, taken>>

\* OPEN_TCP and OPEN_UDP, below the limit on flows.
frameOpen(o) ==
  /\ Frame
  /\ target[o] = "none"
  /\ Cardinality(InTables) < MaxFlows
  /\ Goto("control", "read", "dial")
  /\ cur' = o
  /\ UNCHANGED <<arg, taken>>

\* DialContext fails once ctx is done; DialUDP does not look at it.
openDial ==
  \/ /\ Goto("control", "dial", "insert")
     /\ cur \in TCPFlows => ~cancelled
     /\ target' = [target EXCEPT ![cur] = "open"]
     /\ UNCHANGED <<tcpFlows, udpFlows, stream, sending, served, late, conn, life, calls, server>>
  \/ Move("control", "dial", "read")

\* What has the number in the table of o's kind; the tables with o in them.
Holder(o) == IF o \in TCPFlows THEN tcpFlows[FlowId[o]] ELSE udpFlows[FlowId[o]]
Enter(o) ==
  /\ tcpFlows' = IF o \in TCPFlows THEN [tcpFlows EXCEPT ![FlowId[o]] = o] ELSE tcpFlows
  /\ udpFlows' = IF o \in UDPFlows THEN [udpFlows EXCEPT ![FlowId[o]] = o] ELSE udpFlows

\* The flow enters its table, unless another one has its number.
openInsert ==
  /\ pc["control"] = "insert"
  /\ \/ /\ Holder(cur) = None
        /\ Goto("control", "insert", "ok")
        /\ Enter(cur) /\ UNCHANGED target
     \/ /\ Holder(cur) # None
        /\ Goto("control", "insert", "read")
        /\ target' = [target EXCEPT ![cur] = "closed"]
        /\ UNCHANGED <<tcpFlows, udpFlows>>
  /\ UNCHANGED <<stream, sending, served, late, conn, life, calls, server>>

\* The OK frame cannot be written: the flow is closed again.
openAnswerFails ==
  /\ CallCloseFlow("control", "ok", FlowId[cur])
  /\ UNCHANGED <<flow, conn, life, cur, taken, server>>

\* The OK frame is written; a UDP flow gets its loop.
openAnswered ==
  /\ pc["control"] = "ok" /\ connOpen
  /\ pc' = [t \in Threads |-> IF t = "control" \/ (t = cur /\ t \in UDPFlows) THEN "read" ELSE pc[t]]
  /\ UNCHANGED <<flow, conn, life, calls, server>>

Opening == openDial \/ openInsert \/ openAnswerFails \/ openAnswered
handleOpenTCP == cur \in TCPFlows /\ Opening
handleOpenUDP == cur \in UDPFlows /\ Opening

controlLoop ==
  \/ controlEnd
  \/ \E i \in Ids : frameCloseFlow(i)
  \/ \E o \in Flows : frameOpen(o)
  \/ handleOpenTCP \/ handleOpenUDP
-----------------------------------------------------------------------------
(* acceptFlowStreams and handleFlowStream.                                 *)

\* The client's streams are numbered in the order of their arrival.
acceptStream ==
  /\ pc["accept"] = "read" /\ connOpen
  /\ \E s \in Streams :
       /\ pc[s] = "new"
       /\ s = CHOOSE r \in Streams : pc[r] = "new"
       /\ pc' = [pc EXCEPT ![s] = "head"]
       /\ sending' = [sending EXCEPT ![s] = "open"]
  /\ UNCHANGED <<tcpFlows, udpFlows, target, stream, served, late, conn, life, calls, server>>

acceptEnd == ~connOpen /\ Move("accept", "read", IF cancelled THEN "done" ELSE "once")

\* stream.Close() and return: no flow id, no such flow, or a second stream.
Refuse(s, from) ==
  /\ Goto(s, from, "done")
  /\ sending' = [sending EXCEPT ![s] = "closed"]
  /\ UNCHANGED <<tcpFlows, udpFlows, target, stream, served, late, conn, life, calls, server>>

\* The flow id is read and looked up, under flowsMu.
streamFlow(s, i) ==
  /\ connOpen /\ tcpFlows[i] # None
  /\ Goto(s, "head", "attach")
  /\ served' = [served EXCEPT ![s] = tcpFlows[i]]
  /\ UNCHANGED <<tcpFlows, udpFlows, target, stream, sending, late, conn, life, calls, server>>

\* The stream becomes the flow's, under streamMu, and the pump starts.
attach(s) ==
  /\ Goto(s, "attach", "pump")
  /\ stream[served[s]] = None
  /\ stream' = [stream EXCEPT ![served[s]] = s]
  /\ late' = IF target[served[s]] = "closed" THEN late \cup {s} ELSE late
  /\ UNCHANGED <<tcpFlows, udpFlows, target, sending, served, conn, life, calls, server>>

attachSecond(s) ==
  /\ pc[s] = "attach" /\ stream[served[s]] # None
  /\ Refuse(s, "attach")

\* pumpTCPFlow: two goroutines copy, which changes nothing here, and the first
\* to stop decides: over the byte limit the session is closed; at the end of
\* its source or when the other side fails, the flow with this number is.  The
\* other goroutine's report goes to a buffered channel that nobody reads.
pumpTCPFlow(s) ==
  /\ \/ Goto(s, "pump", "once") /\ UNCHANGED arg
     \/ pc[s] = "pump" /\ CallCloseFlow(s, "pump", FlowId[served[s]])
  /\ UNCHANGED <<flow, conn, life, cur, taken, server>>

handleFlowStream(s) ==
  \/ Refuse(s, "head") \/ \E i \in Ids : streamFlow(s, i)
  \/ attach(s) \/ attachSecond(s) \/ pumpTCPFlow(s)
-----------------------------------------------------------------------------
(* udpReadLoop of flow u.                                                *)

\* The loop copies, too.  A packet over the byte limit closes the session.
udpLimit(u) == Move(u, "read", "once")

\* A packet cannot be fragmented or sent: the flow is closed.
udpSendFails(u) ==
  /\ CallCloseFlow(u, "read", FlowId[u])
  /\ UNCHANGED <<flow, conn, life, cur, taken, server>>

\* The read fails: the flow is closed, unless the session is.
udpEnd(u) ==
  /\ \/ cancelled /\ Goto(u, "read", "done") /\ UNCHANGED arg
     \/ ~cancelled /\ CallCloseFlow(u, "read", FlowId[u])
  /\ UNCHANGED <<flow, conn, life, cur, taken, server>>

udpReadLoop(u) == udpLimit(u) \/ udpSendFails(u) \/ udpEnd(u)

-----------------------------------------------------------------------------
Loops ==
  \/ controlLoop \/ acceptStream \/ acceptEnd
  \/ \E s \in Streams : handleFlowStream(s)
  \/ \E u \in UDPFlows : udpReadLoop(u)
  \/ \E t \in Counted : closeFlow(t)

Terminated ==
  /\ pc["run"] = "done"
  /\ \A t \in Threads : pc[t] \in {"new", "done"}
  /\ UNCHANGED vars

Next ==
  \/ Run \/ Loops
  \/ \E t \in Threads : Close(t)
  \/ clientGone \/ idleTimeout \/ shutdown
  \/ Terminated

\* Nothing has to happen on an open session: reads, writes and dials may
\* block.  Once the connection is closed they return, and so does a loop on
\* a closed target.  Callers of Close and Shutdown run.
Fairness ==
  /\ WF_vars(Run)
  /\ \A t \in Threads : WF_vars(Close(t) \/ (t \in Counted /\ closeFlow(t)))
  /\ WF_vars(~connOpen /\ (controlEnd \/ openDial \/ openInsert \/ openAnswerFails))
  /\ WF_vars(cancelled /\ acceptEnd)
  /\ \A s \in Streams : WF_vars(~connOpen /\ handleFlowStream(s))
  /\ \A u \in UDPFlows : WF_vars(target[u] = "closed" /\ udpReadLoop(u))

Spec == Init /\ [][Next]_vars
FairSpec == Spec /\ Fairness
-----------------------------------------------------------------------------
\* An open target connection is in a table, or in the hands of the thread that
\* opens it, of one that closes its flow, or of Close.  A flow inserted after
\* Close has emptied the tables is no exception: its OK frame cannot be
\* written, so control takes it out again.
NoStrayTarget ==
  \A o \in Flows : target[o] = "open" =>
    \/ o \in InTables
    \/ o = cur /\ pc["control"] = "insert"
    \/ \E t \in Counted : o \in taken[t]
    \/ o \in closing

\* A flow in the tables after Close has emptied them is about to leave them.
LateFlowCloses ==
  once = "done" /\ InTables # {} =>
    /\ InTables = {cur}
    /\ pc["control"] \in {"ok", "cf"}

\* When a stream's handler has returned, the gateway has ended its direction
\* of the stream, or another thread is about to, so that the client sees the
\* end of it.  The exception: the flow was closed between the handler's lookup
\* and the attachment, when closeFlow finds no stream to close; the stream
\* then stays open as long as the session.
StreamFinished ==
  \A s \in Streams : pc[s] = "done" /\ sending[s] = "open" =>
    \/ s \in late
    \/ served[s] \in closing \cup UNION {taken[t] : t \in Counted}

\* When Run has returned, every loop has ended, every target is closed, both
\* tables are empty, and server, timer and gauges have forgotten the session.
Released ==
  pc["run"] = "done" =>
    /\ \A t \in Counted : pc[t] \in {"new", "done"}
    /\ \A o \in Flows : target[o] # "open"
    /\ InTables = {} /\ closing = {}
    /\ ~registered /\ ~timer /\ active = 0

\* Run unregisters an authenticated session, and CleanupSession forgets its
\* byte count, when all its loops have ended: wg.Add always comes from a thread
\* that is itself counted.  Only the goroutines of pumpTCPFlow may still run.
QuietAtCleanup ==
  pc["run"] \in {"unregDelete", "unregStore"} =>
    \A t \in Counted : pc[t] \in {"new", "done"}

\* A cancelled session ends: Run's WaitGroup gets to zero and Run returns.
RunReturns == cancelled ~> pc["run"] = "done"

\* Shutdown and the idle callback return, whichever loop calls Close at the same time.
ShutdownReturns == pc["outside"] = "once" ~> pc["outside"] = "done"

\* Every flow and stream is accounted for: its target is in somebody's hands, a late
\* flow is closed again, and a stream whose handler has returned is finished.
FlowsKept == TypeOK /\ NoStrayTarget /\ LateFlowCloses /\ StreamFinished

\* The end of Run is clean: nothing but pumps runs at the cleanup, and nothing is
\* left when Run has returned.
EndsClean == QuietAtCleanup /\ Released

\* Run returns from a cancelled session, and so does a Close from outside.
SessionEnds == RunReturns /\ ShutdownReturns
=============================================================================
