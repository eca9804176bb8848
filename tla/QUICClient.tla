----------------------------- MODULE QUICClient -----------------------------
(***************************************************************************)
(* The client's end of a session over QUIC                                 *)
(* (internal/sessionclient/quic_client.go): callers that open flows or     *)
(* probe the round-trip time, one at a time behind ctrlMu, the             *)
(* datagramLoop and the UDP flows it fills, and close.                     *)
(*                                                                         *)
(* The control stream is FIFO; the gateway is seen through what            *)
(* QUICSession does with a frame.  Bytes of TCP flows travel on streams of *)
(* their own, which QUIC delivers, and are not shown; datagrams are whole  *)
(* payloads here, Datagrams models their fragments.                        *)
(***************************************************************************)
EXTENDS Integers, Sequences, FiniteSets

CONSTANTS QRequests,
          QKind(_),    \* of a request: "tcp", "udp" or "ping"
          QPlans,      \* the sets of requests that applications may make
          MaxPings,    \* PING frames of the gateway
          MaxDgrams,   \* payloads that a target sends to a UDP flow
          IncomingCap  \* capacity of a UDP flow's incoming channel

NoOne == "none"

VARIABLES
  qcaller,     \* program counter of each request's caller, then of the flow's closer
  ctrlMu,      \* request whose caller holds c.ctrlMu across a read, or NoOne
  udpMu,       \* "closer" when close holds c.udpMu across its loop, or NoOne
  udpFlows,    \* c.udpFlows
  incoming, inClosed, inErr,  \* the channels of each UDP flow
  receiver,    \* program counter of the goroutine that calls Recv
  dgrams,      \* datagramLoop: program counter and the flow it has found
  qcloser,     \* an application's close of the client
  qconn,       \* "up", "lost" or "closed"
  qctx,        \* c.ctx is done
  ctrlUp, ctrlDown,  \* frames on the control stream
  torn,        \* a read deadline fell into a frame: what follows is not aligned
  qsrv, pings, qsent,  \* the gateway's flows, PINGs sent, payloads sent per flow
  left,        \* history: requests that failed, once sent, by no answer that names them
  late,        \* history: flows put into the table after datagramLoop had ended
  qfault       \* history: a send on a closed channel, which panics

qcalls == <<qcaller, ctrlMu, left>>
udp == <<udpMu, udpFlows, inClosed, inErr, late>>
recv == <<incoming, receiver>>
ctrl == <<ctrlUp, ctrlDown, torn, qsrv, pings>>
qvars == <<qcalls, udp, recv, dgrams, qcloser, qconn, qctx, ctrl, qsent, qfault>>

CtrlFrame(t, r) == [type |-> t, req |-> r]
Receiving == [pc |-> "receive", flow |-> NoOne]

QTypeOK ==
  /\ qcaller \in [QRequests -> {"start", "read", "stream", "insert", "open", "closeIn", "notify", "done"}]
  /\ ctrlMu \in QRequests \cup {NoOne} /\ udpMu \in {"closer", NoOne}
  /\ udpFlows \cup inClosed \cup inErr \cup left \cup late \subseteq QRequests
  /\ incoming \in [QRequests -> 0 .. IncomingCap]
  /\ receiver \in [QRequests -> {"idle", "waiting", "ended"}]
  /\ dgrams.pc \in {"receive", "push", "fail", "done"}
  /\ qcloser \in {"idle", "lock", "flows", "conn", "done"}
  /\ qconn \in {"up", "lost", "closed"}
  /\ qsrv \in [QRequests -> {NoOne, "open", "closed"}]
  /\ {qctx, torn, qfault} \subseteq BOOLEAN

QInit ==
  /\ \E plan \in QPlans : qcaller = [r \in QRequests |-> IF r \in plan THEN "start" ELSE "done"]
  /\ ctrlMu = NoOne /\ udpMu = NoOne
  /\ udpFlows = {} /\ inClosed = {} /\ inErr = {}
  /\ incoming = [r \in QRequests |-> 0] /\ receiver = [r \in QRequests |-> "idle"]
  /\ dgrams = Receiving /\ qcloser = "idle" /\ qconn = "up" /\ qctx = FALSE
  /\ ctrlUp = <<>> /\ ctrlDown = <<>> /\ torn = FALSE
  /\ qsrv = [r \in QRequests |-> NoOne] /\ pings = 0 /\ qsent = [r \in QRequests |-> 0]
  /\ left = {} /\ late = {} /\ qfault = FALSE

-----------------------------------------------------------------------------
(* openFlow and probeRTT, with readControlFrameLocked.                     *)

QCall(r, from, to) == qcaller[r] = from /\ qcaller' = [qcaller EXCEPT ![r] = to]
Request(r) == CASE QKind(r) = "tcp" -> "OPEN_TCP" [] QKind(r) = "udp" -> "OPEN_UDP" [] OTHER -> "PING"
Opened(r) == CASE QKind(r) = "tcp" -> "stream" [] QKind(r) = "udp" -> "insert" [] OTHER -> "done"

\* ctrlMu is taken and the request written.
sendRequest(r) ==
  /\ ctrlMu = NoOne /\ qconn # "closed"
  /\ QCall(r, "start", "read")
  /\ ctrlMu' = r
  /\ ctrlUp' = Append(ctrlUp, CtrlFrame(Request(r), r))
  /\ UNCHANGED <<left, udp, recv, dgrams, qcloser, qconn, qctx, ctrlDown, torn, qsrv, pings, qsent, qfault>>

sendRequestFails(r) ==
  /\ ctrlMu = NoOne /\ qconn # "up"
  /\ QCall(r, "start", "done")
  /\ UNCHANGED <<ctrlMu, left, udp, recv, dgrams, qcloser, qconn, qctx, ctrl, qsent, qfault>>

Failure(r) == IF QKind(r) = "udp" THEN "OPEN_UDP_FAIL" ELSE "OPEN_TCP_FAIL"

\* A failure without a flow, which the gateway sends for a payload that it cannot
\* decode, passes for the answer to any request of its kind.
Mine(r, f) ==
  \/ f = CtrlFrame("OK", r)
  \/ QKind(r) # "ping" /\ f.type = Failure(r) /\ f.req \in {r, NoOne}

\* A frame of the control stream: the answer, a PING to be answered, or one
\* that is skipped: late answers to others and CLOSE_FLOW.
readControlFrame(r) ==
  LET f == Head(ctrlDown)
  IN  /\ qcaller[r] = "read" /\ qconn # "closed" /\ ~torn /\ ctrlDown # <<>>
      /\ ctrlDown' = Tail(ctrlDown)
      /\ IF Mine(r, f)
         THEN /\ qcaller' = [qcaller EXCEPT ![r] = IF f.type = "OK" THEN Opened(r) ELSE "done"]
              /\ left' = IF f.req = NoOne THEN left \cup {r} ELSE left
              /\ ctrlMu' = NoOne
         ELSE UNCHANGED qcalls
      /\ ctrlUp' = IF f.type = "PING" THEN Append(ctrlUp, CtrlFrame("PONG", f.req)) ELSE ctrlUp
      /\ UNCHANGED <<udp, recv, dgrams, qcloser, qconn, qctx, torn, qsrv, pings, qsent, qfault>>

\* A plausible slip: the lock is not released on the error path.
readTimeoutLocked(r) ==
  /\ QCall(r, "read", "done")
  /\ left' = left \cup {r}
  /\ UNCHANGED <<ctrlMu, udp, recv, dgrams, qcloser, qconn, qctx, ctrl, qsent, qfault>>

\* The deadline passes, or the stream ends.  A deadline that passes when a part
\* of a frame has been read leaves the stream in the middle of that frame.
readTimeout(r) ==
  /\ QCall(r, "read", "done")
  /\ ctrlMu' = NoOne
  /\ left' = left \cup {r}
  /\ torn' \in {torn} \cup {ctrlDown # <<>>}
  /\ UNCHANGED <<udp, recv, dgrams, qcloser, qconn, qctx, ctrlUp, ctrlDown, qsrv, pings, qsent, qfault>>

openFlow(r) == sendRequest(r) \/ sendRequestFails(r) \/ readControlFrame(r) \/ readTimeout(r)
probeRTT(r) == QKind(r) = "ping" /\ openFlow(r)

\* openTCPFlow: the stream is opened and the header written.
openStream(r) ==
  /\ qconn = "up"
  /\ QCall(r, "stream", "open")
  /\ UNCHANGED <<ctrlMu, left, udp, recv, dgrams, qcloser, qconn, qctx, ctrl, qsent, qfault>>

\* It fails, at the latest when the context's time is over; no CLOSE_FLOW is sent.
openStreamFails(r) ==
  /\ QCall(r, "stream", "done")
  /\ left' = left \cup {r}
  /\ UNCHANGED <<ctrlMu, udp, recv, dgrams, qcloser, qconn, qctx, ctrl, qsent, qfault>>

\* openUDPFlow
insertUDP(r) ==
  /\ udpMu = NoOne
  /\ QCall(r, "insert", "open")
  /\ udpFlows' = udpFlows \cup {r}
  /\ receiver' = [receiver EXCEPT ![r] = "waiting"]
  /\ late' = IF dgrams.pc = "done" THEN late \cup {r} ELSE late
  /\ UNCHANGED <<ctrlMu, left, udpMu, inClosed, inErr, incoming, dgrams, qcloser, qconn, qctx, ctrl, qsent, qfault>>

openTCPFlow(r) == QKind(r) = "tcp" /\ (openFlow(r) \/ openStream(r) \/ openStreamFails(r))
openUDPFlow(r) == QKind(r) = "udp" /\ (openFlow(r) \/ insertUDP(r))

-----------------------------------------------------------------------------
(* Close and Recv of flows.                                                *)

closeStream(r) ==
  /\ QKind(r) = "tcp" /\ QCall(r, "open", "notify")
  /\ UNCHANGED <<ctrlMu, left, udp, recv, dgrams, qcloser, qconn, qctx, ctrl, qsent, qfault>>

closeDeleteUDP(r) ==
  /\ QKind(r) = "udp" /\ udpMu = NoOne
  /\ QCall(r, "open", "closeIn")
  /\ udpFlows' = udpFlows \ {r}
  /\ UNCHANGED <<ctrlMu, left, udpMu, inClosed, inErr, late, recv, dgrams, qcloser, qconn, qctx, ctrl, qsent, qfault>>

closeIncoming(r) ==
  /\ QCall(r, "closeIn", "notify")
  /\ inClosed' = inClosed \cup {r}
  /\ UNCHANGED <<ctrlMu, left, udpMu, udpFlows, inErr, late, recv, dgrams, qcloser, qconn, qctx, ctrl, qsent, qfault>>

ctrlCloseFlow(r) ==
  /\ ctrlMu = NoOne
  /\ QCall(r, "notify", "done")
  /\ ctrlUp' = IF qconn = "up" THEN Append(ctrlUp, CtrlFrame("CLOSE_FLOW", r)) ELSE ctrlUp
  /\ UNCHANGED <<ctrlMu, left, udp, recv, dgrams, qcloser, qconn, qctx, ctrlDown, torn, qsrv, pings, qsent, qfault>>

tcpFlowClose(r) == QKind(r) = "tcp" /\ (closeStream(r) \/ ctrlCloseFlow(r))
udpFlowClose(r) == QKind(r) = "udp" /\ (closeDeleteUDP(r) \/ closeIncoming(r) \/ ctrlCloseFlow(r))

\* Recv: a payload, or an error or the end of the channel.
Recv(r) ==
  /\ receiver[r] = "waiting"
  /\ \/ incoming[r] > 0 /\ incoming' = [incoming EXCEPT ![r] = @ - 1] /\ UNCHANGED receiver
     \/ /\ r \in inErr \/ (incoming[r] = 0 /\ r \in inClosed)
        /\ receiver' = [receiver EXCEPT ![r] = "ended"] /\ UNCHANGED incoming
  /\ UNCHANGED <<qcalls, udp, dgrams, qcloser, qconn, qctx, ctrl, qsent, qfault>>

-----------------------------------------------------------------------------
(* datagramLoop.                                                           *)

receiveDatagram(r) ==
  /\ dgrams.pc = "receive" /\ udpMu = NoOne
  /\ qconn = "up" /\ qsrv[r] = "open" /\ QKind(r) = "udp" /\ qsent[r] < MaxDgrams
  /\ qsent' = [qsent EXCEPT ![r] = @ + 1]
  /\ dgrams' = IF r \in udpFlows THEN [pc |-> "push", flow |-> r] ELSE Receiving
  /\ UNCHANGED <<qcalls, udp, recv, qcloser, qconn, qctx, ctrl, qfault>>

\* A send on a closed channel panics, also in a select with a default.
pushPayload ==
  LET r == dgrams.flow
  IN  /\ dgrams.pc = "push"
      /\ qfault' = (r \in inClosed)
      /\ incoming' = IF r \notin inClosed /\ incoming[r] < IncomingCap
                     THEN [incoming EXCEPT ![r] = @ + 1] ELSE incoming
      /\ dgrams' = Receiving
      /\ UNCHANGED <<qcalls, udp, receiver, qcloser, qconn, qctx, ctrl, qsent>>

receiveFails ==
  /\ dgrams.pc = "receive" /\ (qctx \/ qconn # "up")
  /\ dgrams' = [dgrams EXCEPT !.pc = "fail"]
  /\ UNCHANGED <<qcalls, udp, recv, qcloser, qconn, qctx, ctrl, qsent, qfault>>

\* A plausible slip: the loop ends without telling the flows.
failNoFlows ==
  /\ dgrams.pc = "fail" /\ udpMu = NoOne
  /\ dgrams' = [dgrams EXCEPT !.pc = "done"]
  /\ UNCHANGED <<qcalls, udp, recv, qcloser, qconn, qctx, ctrl, qsent, qfault>>

failUDPFlows ==
  /\ dgrams.pc = "fail" /\ udpMu = NoOne
  /\ inErr' = inErr \cup udpFlows
  /\ dgrams' = [dgrams EXCEPT !.pc = "done"]
  /\ UNCHANGED <<qcalls, udpMu, udpFlows, inClosed, late, recv, qcloser, qconn, qctx, ctrl, qsent, qfault>>

datagramLoop == pushPayload \/ receiveFails \/ failUDPFlows \/ \E r \in QRequests : receiveDatagram(r)

-----------------------------------------------------------------------------
(* close: flow.Close, called with udpMu held, locks it again, so that the  *)
(* loop over the flows ends only if there are none.                        *)

QCloser(from, to) == qcloser = from /\ qcloser' = to

closeCancel ==
  /\ QCloser("idle", "lock")
  /\ qctx' = TRUE
  /\ UNCHANGED <<qcalls, udp, recv, dgrams, qconn, ctrl, qsent, qfault>>

closeLock ==
  /\ udpMu = NoOne
  /\ QCloser("lock", "flows")
  /\ udpMu' = "closer"
  /\ UNCHANGED <<qcalls, udpFlows, inClosed, inErr, late, recv, dgrams, qconn, qctx, ctrl, qsent, qfault>>

closeFlows ==
  /\ udpFlows = {}
  /\ QCloser("flows", "conn")
  /\ udpMu' = NoOne
  /\ UNCHANGED <<qcalls, udpFlows, inClosed, inErr, late, recv, dgrams, qconn, qctx, ctrl, qsent, qfault>>

closeConn ==
  /\ QCloser("conn", "done")
  /\ qconn' = "closed"
  /\ UNCHANGED <<qcalls, udp, recv, dgrams, qctx, ctrl, qsent, qfault>>

qclose == closeCancel \/ closeLock \/ closeFlows \/ closeConn

-----------------------------------------------------------------------------
(* The gateway's end, as QUICSession has it, and the network.              *)

qconnLost ==
  /\ qconn = "up"
  /\ qconn' = "lost"
  /\ UNCHANGED <<qcalls, udp, recv, dgrams, qcloser, qctx, ctrl, qsent, qfault>>

Answer(t, r) == ctrlDown' = Append(ctrlDown, CtrlFrame(t, r))

qserve ==
  LET f == Head(ctrlUp)
      open == f.type \in {"OPEN_TCP", "OPEN_UDP"}
  IN  /\ qconn = "up" /\ ctrlUp # <<>>
      /\ ctrlUp' = Tail(ctrlUp)
      /\ \/ open /\ qsrv' = [qsrv EXCEPT ![f.req] = "open"] /\ Answer("OK", f.req)
         \/ open /\ (Answer(Failure(f.req), f.req) \/ Answer(Failure(f.req), NoOne)) /\ UNCHANGED qsrv
         \/ f.type = "PING" /\ Answer("OK", f.req) /\ UNCHANGED qsrv
         \/ f.type = "PONG" /\ UNCHANGED <<qsrv, ctrlDown>>
         \/ f.type = "CLOSE_FLOW" /\ qsrv' = [qsrv EXCEPT ![f.req] = "closed"] /\ UNCHANGED ctrlDown
      /\ UNCHANGED <<qcalls, udp, recv, dgrams, qcloser, qconn, qctx, torn, pings, qsent, qfault>>

serverPing ==
  /\ qconn = "up" /\ pings < MaxPings
  /\ pings' = pings + 1
  /\ Answer("PING", NoOne)
  /\ UNCHANGED <<qcalls, udp, recv, dgrams, qcloser, qconn, qctx, ctrlUp, torn, qsrv, qsent, qfault>>

serverCloseFlow(r) ==
  /\ qconn = "up" /\ qsrv[r] = "open"
  /\ qsrv' = [qsrv EXCEPT ![r] = "closed"]
  /\ Answer("CLOSE_FLOW", r)
  /\ UNCHANGED <<qcalls, udp, recv, dgrams, qcloser, qconn, qctx, ctrlUp, torn, pings, qsent, qfault>>

qgateway == qserve \/ qconnLost \/ serverPing \/ \E r \in QRequests : serverCloseFlow(r)

-----------------------------------------------------------------------------
QCaller(r) == openTCPFlow(r) \/ openUDPFlow(r) \/ probeRTT(r)
Stuck == qcloser = "flows" /\ udpFlows # {}

\* A panic in datagramLoop ends the process.
QRunning ==
  /\ ~qfault
  /\ \/ datagramLoop \/ qclose \/ qgateway
     \/ \E r \in QRequests : QCaller(r) \/ tcpFlowClose(r) \/ udpFlowClose(r) \/ Recv(r)

\* Nobody has anything left to do, or close holds udpMu for ever.
QRest ==
  \/ qfault \/ Stuck
  \/ \A r \in QRequests : qcaller[r] \in {"done", "open"}

QNext == QRunning \/ (QRest /\ UNCHANGED qvars)

\* The goroutines of the client run.  Applications need neither close flows nor
\* the client; network and gateway need not do anything.
QFairness ==
  /\ WF_qvars(~qfault /\ (pushPayload \/ receiveFails \/ failUDPFlows))
  /\ WF_qvars(~qfault /\ (closeLock \/ closeFlows \/ closeConn))
  /\ \A r \in QRequests : WF_qvars(~qfault /\ (QCaller(r) \/ closeIncoming(r) \/ ctrlCloseFlow(r)))
  /\ \A r \in {x \in QRequests : QKind(x) = "udp"} : WF_qvars(~qfault /\ Recv(r))

QSpec == QInit /\ [][QNext]_qvars
QFairSpec == QSpec /\ QFairness
-----------------------------------------------------------------------------
\* A caller that goes on has the gateway's answer to its own request: what comes
\* after another caller's deadline, PINGs and CLOSE_FLOWs in between never
\* pass for it.
AnswerIsMine ==
  \A r \in QRequests : qcaller[r] \in {"stream", "insert", "open"} => qsrv[r] # NoOne

\* The gateway keeps a flow for a request that its caller has left only if the
\* request failed after it had been sent, by its deadline or by a failure that names
\* no flow and may be another's, or a frame that closes it is on its way.
QOrphanLeft ==
  \A r \in QRequests :
    qsrv[r] = "open" /\ qconn = "up" /\ qcaller[r] = "done" =>
      r \in left \/ \E i \in 1 .. Len(ctrlUp) : ctrlUp[i] = CtrlFrame("CLOSE_FLOW", r)

\* A flow in the table has an open channel: datagramLoop sends on a closed one,
\* and the process ends, only if the flow is closed between look-up and send.
QOpenInTable == udpFlows \cap inClosed = {}

\* Every caller returns, although all wait for one lock that is held while the
\* gateway answers.
QCallsReturn ==
  (\E r \in QRequests : qcaller[r] \in {"start", "read"}) ~>
    (qfault \/ \A r \in QRequests : qcaller[r] \notin {"start", "read"})

\* close returns unless there is a UDP flow in the table, whose Close it calls
\* with the lock held that Close takes.
QCloseReturns == qcloser = "lock" ~> (qcloser = "done" \/ Stuck \/ qfault)

\* When the session is over, the receiver of a UDP flow learns it, unless close
\* hangs or the flow came into the table after datagramLoop had told the others.
ReceiversEnd ==
  \A r \in {x \in QRequests : QKind(x) = "udp"} :
    (receiver[r] = "waiting" /\ (qconn # "up" \/ qctx)) ~>
      (receiver[r] = "ended" \/ r \in late \/ Stuck \/ qfault)
=============================================================================
