----------------------------- MODULE TCPSession -----------------------------
(***************************************************************************)
(* One session over TLS/TCP: internal/session/tcp_session.go, with the     *)
(* registration of the session in internal/session/server.go and its idle  *)
(* timer in internal/store/session_store.go.                               *)
(*                                                                         *)
(* The control thread (Run) reads the client's frames and handles them one *)
(* after the other; every flow has a loop that copies from its target to   *)
(* the client; the wheel (idle timer) and Shutdown call Close.  A step is  *)
(* one lock-protected block, one read, write or dial, or one Once or       *)
(* WaitGroup operation; pc says where each thread is.                      *)
(*                                                                         *)
(* A flow is an OPEN_TCP request with the object made for it; FlowId is    *)
(* the number the client chose, and clients may use a number again.        *)
(* Frame contents, the byte counters and touch (which leaves an armed      *)
(* timer armed) are left out.  A write is one step: writeMu only lets a    *)
(* blocked write delay the others.  ctx is seen by the dial alone, which   *)
(* may fail or succeed whether or not it is cancelled.                     *)
(***************************************************************************)
EXTENDS Integers, FiniteSets

CONSTANTS Flows,     \* OPEN_TCP requests
          FlowId,    \* the flow_id of each
          NoFlow,
          MaxFlows,  \* s.server.cfg.MaxFlows
          Buffered   \* frames the bufio.Reader may hold when conn is closed

Ids == {FlowId[o] : o \in Flows}

ASSUME SessionAssumption ==
  /\ IsFiniteSet(Flows) /\ NoFlow \notin Flows
  /\ Flows \cap {"control", "wheel", "shutdown"} = {}
  /\ DOMAIN FlowId = Flows
  /\ MaxFlows \in Nat /\ Buffered \in Nat

VARIABLES pc,
          tcpFlows,    \* s.tcpFlows
          target,      \* the state of each flow's target connection
          streams,     \* the gauge metrics.TCPStreams
          connOpen,    \* s.conn
          buffered,    \* frames that can be read although conn is closed
          once, wg,    \* s.closeOnce, s.wg
          closing,     \* flows that Close has taken out and not closed yet
          cur, cid,    \* the flow and the flow_id that control handles
          taken,       \* the flow a thread's closeFlow has taken out
          registered,  \* server.sessions holds the session
          timer,       \* its idle timer is armed
          active       \* the gauge metrics.ActiveSessions

flow == <<tcpFlows, target, streams, taken>>
conn == <<connOpen, buffered>>
life == <<once, wg, closing>>
server == <<registered, timer, active>>
vars == <<pc, flow, conn, life, cur, cid, server>>

Threads == {"control", "wheel", "shutdown"} \cup Flows
\* The threads that call closeFlow.
Handlers == {"control"} \cup Flows

\* Inside the function that closeOnce runs.
BodyLabels == {"conn", "snapshot", "flows", "wait"}
CloseFlowLabels == {"cfQuiet", "cfNotify", "closeQuiet", "closeNotify"}
Labels == BodyLabels \cup CloseFlowLabels \cup
          {"auth", "regInsert", "regStore", "regInc", "authOK", "read", "reply",
           "dial", "insert", "inc", "ok", "spawn", "allow", "write",
           "unregDelete", "unregStore", "once", "new", "exit", "done"}

TypeOK ==
  /\ pc \in [Threads -> Labels]
  /\ tcpFlows \in [Ids -> Flows \cup {NoFlow}]
  /\ target \in [Flows -> {"none", "open", "closed"}]
  /\ streams \in Int
  /\ {connOpen, registered, timer} \subseteq BOOLEAN
  /\ buffered \in 0 .. Buffered
  /\ once \in {"free", "busy", "done"}
  /\ wg \in Nat
  /\ closing \in SUBSET Flows
  /\ cur \in Flows \cup {NoFlow} /\ cid \in Ids \cup {NoFlow}
  /\ taken \in [Handlers -> Flows \cup {NoFlow}]
  /\ active \in 0 .. 1

Init ==
  /\ pc = [t \in Threads |-> IF t = "control" THEN "auth" ELSE "new"]
  /\ tcpFlows = [i \in Ids |-> NoFlow]
  /\ target = [o \in Flows |-> "none"]
  /\ streams = 0
  /\ connOpen = TRUE /\ buffered = Buffered
  /\ once = "free" /\ wg = 0 /\ closing = {}
  /\ cur = NoFlow /\ cid = NoFlow /\ taken = [t \in Handlers |-> NoFlow]
  /\ registered = FALSE /\ timer = FALSE /\ active = 0

\* Thread t is at one label and moves to another.
Goto(t, from, to) == pc[t] = from /\ pc' = [pc EXCEPT ![t] = to]
-----------------------------------------------------------------------------
(* closeFlow, called by control and by the loops.  It goes by the flow_id. *)

IdOf(t) == IF t = "control" THEN cid ELSE FlowId[t]
\* Where closeFlow, or a write whose result is ignored, returns to.
Back(t) == IF t = "control" THEN "read" ELSE "exit"

\* The flow leaves the table, under flowsMu.
cfDelete(t, from, to) ==
  LET o == tcpFlows[IdOf(t)]
  IN  /\ Goto(t, from, IF o = NoFlow THEN Back(t) ELSE to)
      /\ taken' = [taken EXCEPT ![t] = o]
      /\ tcpFlows' = [tcpFlows EXCEPT ![IdOf(t)] = NoFlow]
      /\ UNCHANGED <<target, streams, conn, life, cur, cid, server>>

\* Its target is closed and the gauge lowered.
cfClose(t, from, to) ==
  /\ Goto(t, from, to)
  /\ target' = [target EXCEPT ![taken[t]] = "closed"]
  /\ streams' = streams - 1
  /\ taken' = [taken EXCEPT ![t] = NoFlow]
  /\ UNCHANGED <<tcpFlows, conn, life, cur, cid, server>>

\* A frame is written and the result ignored: CLOSE_FLOW, PONG, a refusal.
reply(t) ==
  /\ Goto(t, "reply", Back(t))
  /\ UNCHANGED <<flow, conn, life, cur, cid, server>>

closeFlow(t) ==
  \/ cfDelete(t, "cfQuiet", "closeQuiet") \/ cfDelete(t, "cfNotify", "closeNotify")
  \/ cfClose(t, "closeQuiet", Back(t)) \/ cfClose(t, "closeNotify", "reply")

-----------------------------------------------------------------------------
(* Close.  The first caller runs the body inside closeOnce; the others     *)
(* wait in Do until it has returned.                                       *)

\* Run closes the session in the middle, when the byte limit is reached, and
\* goes on to unregister it, or at its very end.
AfterClose(t) ==
  IF t = "control" THEN (IF registered THEN "unregDelete" ELSE "done")
  ELSE IF t \in Flows THEN "exit" ELSE "done"

OnceDo(t) ==
  \/ /\ once = "free"
     /\ Goto(t, "once", "conn")
     /\ once' = "busy"
     /\ UNCHANGED <<flow, conn, wg, closing, cur, cid, server>>
  \/ /\ once = "done"
     /\ Goto(t, "once", AfterClose(t))
     /\ UNCHANGED <<flow, conn, life, cur, cid, server>>

\* cancel and conn.Close
CloseConn(t) ==
  /\ Goto(t, "conn", "snapshot")
  /\ connOpen' = FALSE
  /\ UNCHANGED <<flow, buffered, life, cur, cid, server>>

\* All flows are taken out of the table at once, under flowsMu.
Snapshot(t) ==
  /\ Goto(t, "snapshot", "flows")
  /\ closing' = {tcpFlows[i] : i \in Ids} \ {NoFlow}
  /\ tcpFlows' = [i \in Ids |-> NoFlow]
  /\ UNCHANGED <<target, streams, taken, conn, once, wg, cur, cid, server>>

\* A plausible slip: the flows are counted out but their targets stay open.
CloseOneCountsOnly(t) ==
  /\ pc[t] = "flows"
  /\ \E o \in closing : closing' = closing \ {o}
  /\ streams' = streams - 1
  /\ UNCHANGED <<pc, tcpFlows, target, taken, conn, once, wg, cur, cid, server>>

\* The flows are closed one after the other, in map order, that is, in any.
CloseOne(t) ==
  /\ pc[t] = "flows"
  /\ \E o \in closing :
       /\ closing' = closing \ {o}
       /\ target' = [target EXCEPT ![o] = "closed"]
  /\ streams' = streams - 1
  /\ UNCHANGED <<pc, tcpFlows, taken, conn, once, wg, cur, cid, server>>

AllClosed(t) ==
  /\ closing = {}
  /\ Goto(t, "flows", "wait")
  /\ UNCHANGED <<flow, conn, life, cur, cid, server>>

\* wg.Wait(), and the return from Do.
Wait(t) ==
  /\ wg = 0
  /\ Goto(t, "wait", AfterClose(t))
  /\ once' = "done"
  /\ UNCHANGED <<flow, conn, wg, closing, cur, cid, server>>

Close(t) ==
  OnceDo(t) \/ CloseConn(t) \/ Snapshot(t) \/ CloseOne(t) \/ AllClosed(t) \/ Wait(t)

\* The idle timer fires: the wheel forgets it and runs its callback.
idleTimeout ==
  /\ timer
  /\ Goto("wheel", "new", "once")
  /\ timer' = FALSE
  /\ UNCHANGED <<flow, conn, life, cur, cid, registered, active>>

\* Shutdown finds the session in server.sessions.
Shutdown ==
  /\ registered
  /\ Goto("shutdown", "new", "once")
  /\ UNCHANGED <<flow, conn, life, cur, cid, server>>

-----------------------------------------------------------------------------
(* Run: authentication and registration.                                   *)

\* The first frame is missing within 15 s, malformed, or does not verify.
authFail ==
  /\ Goto("control", "auth", "once")
  /\ UNCHANGED <<flow, conn, life, cur, cid, server>>

authVerified ==
  /\ Goto("control", "auth", "regInsert")
  /\ UNCHANGED <<flow, conn, life, cur, cid, server>>

\* registerSession: the table, the store with its timer, the gauge.
regInsert ==
  /\ Goto("control", "regInsert", "regStore")
  /\ registered' = TRUE
  /\ UNCHANGED <<flow, conn, life, cur, cid, timer, active>>

regStore ==
  /\ Goto("control", "regStore", "regInc")
  /\ timer' = TRUE
  /\ UNCHANGED <<flow, conn, life, cur, cid, registered, active>>

regInc ==
  /\ Goto("control", "regInc", "authOK")
  /\ active' = active + 1
  /\ UNCHANGED <<flow, conn, life, cur, cid, registered, timer>>

\* AUTH_OK is written; an error ends Run.
authOK ==
  /\ \/ connOpen /\ Goto("control", "authOK", "read")
     \/ Goto("control", "authOK", "unregDelete")
  /\ UNCHANGED <<flow, conn, life, cur, cid, server>>

\* unregisterSession, the first of Run's deferred calls.
unregDelete ==
  /\ Goto("control", "unregDelete", "unregStore")
  /\ registered' = FALSE
  /\ UNCHANGED <<flow, conn, life, cur, cid, timer, active>>

\* store.Delete removes the timer, too; then the gauge.  Run's other deferred
\* call is Close.
unregStore ==
  /\ Goto("control", "unregStore", "once")
  /\ timer' = FALSE
  /\ active' = active - 1
  /\ UNCHANGED <<flow, conn, life, cur, cid, registered>>

Registration ==
  \/ authFail \/ authVerified \/ regInsert \/ regStore \/ regInc \/ authOK
  \/ unregDelete \/ unregStore

-----------------------------------------------------------------------------
(* Run: the client's frames.                                               *)

\* ReadFrame returns a frame: of an open connection, or one left in the buffer.
Frame(to) ==
  /\ Goto("control", "read", to)
  /\ connOpen \/ buffered > 0
  /\ buffered' = IF connOpen THEN buffered ELSE buffered - 1
  /\ UNCHANGED <<flow, connOpen, life, server>>

\* The client is gone, or the connection is closed on this side.
readError ==
  /\ Goto("control", "read", "unregDelete")
  /\ UNCHANGED <<flow, conn, life, cur, cid, server>>

\* Frames that change no flow: PING, OPEN_UDP, an OPEN_TCP without an id or
\* without a valid address are answered, PONG and unknown ones are not.
frameOther ==
  /\ \E to \in {"read", "reply"} : Frame(to)
  /\ UNCHANGED <<cur, cid>>

\* CLOSE_FLOW
frameCloseFlow(i) ==
  /\ Frame("cfQuiet")
  /\ cid' = i
  /\ UNCHANGED cur

FlowCount == Cardinality({i \in Ids : tcpFlows[i] # NoFlow})

\* OPEN_TCP: handleOpenTCP up to the dial.
frameOpen(o) ==
  /\ target[o] = "none"
  /\ Frame(IF FlowCount >= MaxFlows THEN "reply" ELSE "dial")
  /\ cur' = o /\ cid' = FlowId[o]

openDial ==
  /\ \/ Goto("control", "dial", "insert") /\ target' = [target EXCEPT ![cur] = "open"]
     \/ Goto("control", "dial", "reply") /\ UNCHANGED target
  /\ UNCHANGED <<tcpFlows, streams, taken, conn, life, cur, cid, server>>

\* The flow enters the table, unless another one has its number.
openInsert ==
  /\ \/ /\ Goto("control", "insert", "inc")
        /\ tcpFlows[cid] = NoFlow
        /\ tcpFlows' = [tcpFlows EXCEPT ![cid] = cur]
        /\ UNCHANGED target
     \/ /\ Goto("control", "insert", "reply")
        /\ tcpFlows[cid] # NoFlow
        /\ target' = [target EXCEPT ![cur] = "closed"]
        /\ UNCHANGED tcpFlows
  /\ UNCHANGED <<streams, taken, conn, life, cur, cid, server>>

openInc ==
  /\ Goto("control", "inc", "ok")
  /\ streams' = streams + 1
  /\ UNCHANGED <<tcpFlows, target, taken, conn, life, cur, cid, server>>

\* A plausible slip: a failed answer leaves the flow to the client.
openOKIgnored ==
  /\ Goto("control", "ok", "spawn")
  /\ UNCHANGED <<flow, conn, life, cur, cid, server>>

\* OPEN_TCP_OK is written; an error closes the flow again.
openOK ==
  /\ \/ connOpen /\ Goto("control", "ok", "spawn")
     \/ Goto("control", "ok", "cfQuiet")
  /\ UNCHANGED <<flow, conn, life, cur, cid, server>>

openSpawn ==
  /\ pc["control"] = "spawn"
  /\ pc' = [pc EXCEPT !["control"] = "read", ![cur] = "read"]
  /\ wg' = wg + 1
  /\ UNCHANGED <<flow, conn, once, closing, cur, cid, server>>

handleOpenTCP == openDial \/ openInsert \/ openInc \/ openOK \/ openSpawn

\* TCP_DATA: handleClientTCPData looks the flow up; Run closes an unknown one.
frameData(i) ==
  /\ Frame(IF tcpFlows[i] = NoFlow THEN "cfNotify" ELSE "allow")
  /\ cid' = i /\ cur' = tcpFlows[i]

\* AllowSessionBytes; its refusal closes the session.
dataAllow ==
  /\ \E to \in {"write", "once"} : Goto("control", "allow", to)
  /\ UNCHANGED <<flow, conn, life, cur, cid, server>>

\* The write to the target, which may meanwhile have been closed.
dataWrite ==
  /\ \/ Goto("control", "write", "read") /\ target[cur] = "open"
     \/ Goto("control", "write", "cfNotify")
  /\ UNCHANGED <<flow, conn, life, cur, cid, server>>

Frames ==
  \/ readError \/ frameOther
  \/ \E i \in Ids : frameCloseFlow(i) \/ frameData(i)
  \/ \E o \in Flows : frameOpen(o)
  \/ handleOpenTCP \/ dataAllow \/ dataWrite

-----------------------------------------------------------------------------
(* targetToClientLoop of flow o.                                           *)

loopData(o) ==
  /\ target[o] = "open"
  /\ Goto(o, "read", "allow")
  /\ UNCHANGED <<flow, conn, life, cur, cid, server>>

\* EOF, a reset, or the target is closed on this side.
loopEnd(o) ==
  /\ Goto(o, "read", "cfNotify")
  /\ UNCHANGED <<flow, conn, life, cur, cid, server>>

loopAllow(o) ==
  /\ \E to \in {"write", "once"} : Goto(o, "allow", to)
  /\ UNCHANGED <<flow, conn, life, cur, cid, server>>

\* TCP_DATA is written to the client; an error closes the session.
loopWrite(o) ==
  /\ \/ connOpen /\ Goto(o, "write", "read")
     \/ Goto(o, "write", "once")
  /\ UNCHANGED <<flow, conn, life, cur, cid, server>>

\* defer s.wg.Done()
loopExit(o) ==
  /\ Goto(o, "exit", "done")
  /\ wg' = wg - 1
  /\ UNCHANGED <<flow, conn, once, closing, cur, cid, server>>

targetToClientLoop(o) ==
  loopData(o) \/ loopEnd(o) \/ loopAllow(o) \/ loopWrite(o) \/ loopExit(o)

-----------------------------------------------------------------------------
Terminated ==
  /\ pc["control"] = "done"
  /\ \A t \in Threads : pc[t] \in {"new", "done"}
  /\ UNCHANGED vars

Next ==
  \/ Registration \/ Frames
  \/ \E o \in Flows : targetToClientLoop(o)
  \/ \E t \in Handlers : closeFlow(t) \/ reply(t)
  \/ \E t \in Threads : Close(t)
  \/ idleTimeout \/ Shutdown
  \/ Terminated

Spec == Init /\ [][Next]_vars

\* Every runnable goroutine goes on: authentication has a deadline and so has a
\* dial.  Reads of an open connection, and writes to one, which have no
\* deadline, may block for ever; on a closed one they return.
Fairness ==
  /\ WF_vars(\/ Registration /\ (connOpen => pc["control"] # "authOK")
             \/ openDial \/ openInsert \/ openInc \/ openSpawn \/ dataAllow
             \/ closeFlow("control")
             \/ ~connOpen /\ (Frames \/ reply("control")) /\ pc["control"] # "write"
             \/ pc["control"] = "write" /\ target[cur] # "open" /\ dataWrite)
  /\ \A o \in Flows :
       WF_vars(\/ loopAllow(o) \/ loopExit(o) \/ closeFlow(o)
               \/ target[o] # "open" /\ loopEnd(o)
               \/ ~connOpen /\ (loopWrite(o) \/ reply(o)))
  /\ \A t \in Threads : WF_vars(Close(t))

FairSpec == Spec /\ Fairness

-----------------------------------------------------------------------------
(* Properties *)

Closing(t) == pc[t] \in {"closeQuiet", "closeNotify"}
Cards(p) == IF p THEN 1 ELSE 0

\* The gauge of TCP streams counts the flows in the table and those taken out
\* but not closed yet, whoever takes them out, and even when Close closes a flow
\* before its handler has counted it.
StreamsCounted ==
  streams + Cards(pc["control"] = "inc")
    = FlowCount + Cardinality(closing) + Cardinality({t \in Handlers : Closing(t)})

\* No target connection is ever out of reach: it is in the table, or the thread
\* that made it or took it out is about to insert or to close it.
NoStrayTarget ==
  \A o \in Flows : target[o] = "open" =>
    \/ tcpFlows[FlowId[o]] = o
    \/ o \in closing
    \/ \E t \in Handlers : Closing(t) /\ taken[t] = o
    \/ pc["control"] = "insert" /\ cur = o

\* Once Close has emptied the table, the only flow that can be in it is one
\* whose dial was under way; its handler is about to close it again.
LateFlowCloses ==
  (once = "done" \/ \E t \in Threads : pc[t] \in {"flows", "wait"}) =>
    \A i \in Ids : tcpFlows[i] # NoFlow =>
      pc["control"] \in {"inc", "ok", "cfQuiet"} /\ cid = i /\ cur = tcpFlows[i]

\* When Run has returned nothing of the session is left: no registration, no
\* idle timer, no count of it, no flow, and no target connection but one that a
\* loop, begun while Close was returning, is just closing.
Released ==
  pc["control"] = "done" =>
    /\ ~registered /\ ~timer /\ active = 0
    /\ FlowCount = 0
    /\ \A o \in Flows : target[o] = "open" =>
         \E l \in Flows : Closing(l) /\ taken[l] = o

\* A loop has called Close, which waits for the loop.
LoopCloses == \E o \in Flows : pc[o] \in BodyLabels \cup {"once"}

\* Once the connection is closed Run returns, although it may be blocked in a
\* write to a target or to the client, unless a loop has called Close.
RunReturns == ~connOpen ~> (pc["control"] = "done" \/ LoopCloses)

\* README: "Gateway supports graceful shutdown for HTTP, QUIC sessions, relay
\* connections, and TTL wheels": Shutdown gets past the session, to its wheel.
ShutdownReturns == (pc["shutdown"] = "once") ~> (pc["shutdown"] = "done")

\* Every flow is accounted for, from its dial to its close by whichever thread:
\* the gauge counts it once, its target is in somebody's hands, a late one is
\* closed again, and nothing is left when Run has returned.
FlowsKept == TypeOK /\ StreamsCounted /\ NoStrayTarget /\ LateFlowCloses /\ Released
=============================================================================
