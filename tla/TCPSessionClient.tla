-------------------------- MODULE TCPSessionClient --------------------------
(***************************************************************************)
(* The client's end of a session over TLS/TCP                              *)
(* (internal/sessionclient/tcp_session_client.go): callers that open flows *)
(* or probe the round-trip time, the readLoop that answers them and fills  *)
(* the flows' channels, the readers and closers of flows, and              *)
(* closeWithError.  The connection is FIFO; the gateway is seen through     *)
(* what TCPSession does with a frame.                                      *)
(*                                                                         *)
(* A request is an OPEN_TCP, an OPEN_UDP or a PING with its number, which  *)
(* Client.nextFlow or the random token makes unique.  Every TCP_DATA frame *)
(* of a flow carries one numbered unit, so that the rest of a frame a Read *)
(* keeps in its buffer is not shown; data sent to the gateway only passes  *)
(* through writeFrame and is not shown either.                             *)
(***************************************************************************)
EXTENDS Integers, Sequences

CONSTANTS Requests,
          Kind(_),   \* of a request: "tcp", "udp" or "ping"
          Plans,     \* the sets of requests that applications may make
          MaxData,   \* units that a target sends
          DataCap    \* capacity of a flow's dataCh

None == "none"

VARIABLES
  caller,      \* program counter of each request's caller, then of the flow's closer
  reader,      \* program counter of the goroutine that reads the flow
  pending,     \* requests in c.pendingTCP, c.pendingUDP or c.pendingPing
  answer,      \* content of each request's channel
  chClosed,    \* requests whose channel is closed
  flows,       \* c.flows
  dataCh, dataClosed, errCh,  \* the channels of each flow
  loop,        \* readLoop: program counter and the frame it works on
  closer,      \* an application's close of the client
  once,        \* closeOnce: who runs closeWithError, and how far it is
  conn,        \* "up", "lost" (by the network or the gateway) or "closed"
  up, down,    \* frames on their way
  srv, sent,   \* the gateway's flow table and units sent per flow
  got,         \* history: what each flow's reader got
  missed,      \* history: flows that a frame came for before openTCPFlow
               \* had put them into the table
  dropped,     \* history: flows with a unit dropped at a full dataCh
  gaveUp,      \* history: requests whose caller did not wait for the answer
  fault        \* history: a send on or a close of a closed channel, which panics

calls == <<caller, pending, answer, chClosed>>
data == <<reader, dataCh, dataClosed, errCh, got>>
wire == <<conn, up, down, srv, sent>>
history == <<missed, dropped, gaveUp>>
cvars == <<calls, flows, data, loop, closer, once, wire, history, fault>>

Frame(t, r, n) == [type |-> t, req |-> r, unit |-> n]
Idle == [pc |-> "read", frame |-> Frame(None, None, 0)]

TypeOK ==
  /\ caller \in [Requests -> {"start", "send", "wait", "unregister", "insert", "open",
                              "delete", "notify", "closeData", "done"}]
  /\ reader \in [Requests -> {"idle", "reading", "ended"}]
  /\ pending \cup chClosed \cup flows \cup dataClosed \cup errCh \subseteq Requests
  /\ answer \in [Requests -> {None, "ok", "fail"}]
  /\ loop.pc \in {"read", "resolve", "push", "pushErr", "close", "done"}
  /\ closer \in {"idle", "close", "done"}
  /\ once \in {None, "loop", "closer"} \X {None, "pending", "flows", "done"}
  /\ conn \in {"up", "lost", "closed"}
  /\ \A r \in Requests : Len(dataCh[r]) <= DataCap
  /\ srv \in [Requests -> {None, "open", "closed"}] /\ sent \in [Requests -> 0 .. MaxData]
  /\ fault \in {None, "answer", "data"}

Init ==
  /\ \E plan \in Plans : caller = [r \in Requests |-> IF r \in plan THEN "start" ELSE "done"]
  /\ reader = [r \in Requests |-> "idle"]
  /\ pending = {} /\ chClosed = {} /\ answer = [r \in Requests |-> None]
  /\ flows = {} /\ dataClosed = {} /\ errCh = {}
  /\ dataCh = [r \in Requests |-> <<>>] /\ got = [r \in Requests |-> <<>>]
  /\ loop = Idle /\ closer = "idle" /\ once = <<None, None>>
  /\ conn = "up" /\ up = <<>> /\ down = <<>>
  /\ srv = [r \in Requests |-> None] /\ sent = [r \in Requests |-> 0]
  /\ missed = {} /\ dropped = {} /\ gaveUp = {} /\ fault = None

-----------------------------------------------------------------------------
(* Callers: openTCPFlow, openUDPFlow and probeRTT.                         *)

Call(r, from, to) == caller[r] = from /\ caller' = [caller EXCEPT ![r] = to]
OpenType(r) == CASE Kind(r) = "tcp" -> "OPEN_TCP" [] Kind(r) = "udp" -> "OPEN_UDP" [] OTHER -> "PING"

register(r) ==
  /\ Call(r, "start", "send")
  /\ pending' = pending \cup {r}
  /\ UNCHANGED <<answer, chClosed, flows, data, loop, closer, once, wire, history, fault>>

\* A connection that is lost may still take a frame.
writeOpen(r) ==
  /\ Call(r, "send", "wait") /\ conn # "closed"
  /\ up' = Append(up, Frame(OpenType(r), r, 0))
  /\ UNCHANGED <<pending, answer, chClosed, flows, data, loop, closer, once, conn, down, srv, sent, history, fault>>

writeOpenFails(r) ==
  /\ Call(r, "send", "unregister") /\ conn # "up"
  /\ UNCHANGED <<pending, answer, chClosed, flows, data, loop, closer, once, wire, history, fault>>

\* The select takes the answer; only an OPEN_TCP_OK goes on.
answered(r) ==
  /\ answer[r] # None
  /\ Call(r, "wait", IF answer[r] = "ok" /\ Kind(r) = "tcp" THEN "insert" ELSE "done")
  /\ UNCHANGED <<pending, answer, chClosed, flows, data, loop, closer, once, wire, history, fault>>

\* waitCtx is done, which the select may prefer to an answer that is there.
timeout(r) ==
  /\ Call(r, "wait", "unregister")
  /\ gaveUp' = gaveUp \cup {r}
  /\ UNCHANGED <<pending, answer, chClosed, flows, data, loop, closer, once, wire, missed, dropped, fault>>

\* A plausible slip: the entry is not looked up before the channel is closed.
unregisterAlways(r) ==
  /\ Call(r, "unregister", "done")
  /\ pending' = pending \ {r}
  /\ chClosed' = chClosed \cup {r}
  /\ fault' = IF r \in chClosed THEN "answer" ELSE fault
  /\ UNCHANGED <<answer, flows, data, loop, closer, once, wire, history>>

\* unregisterPendingTCP, -UDP, -Ping
unregister(r) ==
  /\ Call(r, "unregister", "done")
  /\ pending' = pending \ {r}
  /\ chClosed' = IF r \in pending THEN chClosed \cup {r} ELSE chClosed
  /\ UNCHANGED <<answer, flows, data, loop, closer, once, wire, history, fault>>

insert(r) ==
  /\ Call(r, "insert", "open")
  /\ flows' = flows \cup {r}
  /\ reader' = [reader EXCEPT ![r] = "reading"]
  /\ UNCHANGED <<pending, answer, chClosed, dataCh, dataClosed, errCh, got, loop, closer, once, wire, history, fault>>

Waits(r) == register(r) \/ writeOpen(r) \/ writeOpenFails(r) \/ answered(r) \/ timeout(r) \/ unregister(r)
openTCPFlow(r) == Kind(r) = "tcp" /\ (Waits(r) \/ insert(r))
openUDPFlow(r) == Kind(r) = "udp" /\ Waits(r)
probeRTT(r) == Kind(r) = "ping" /\ Waits(r)

-----------------------------------------------------------------------------
(* tcpFramedFlow: Close and Read.                                          *)

closeDelete(r) ==
  /\ Call(r, "open", "delete")
  /\ flows' = flows \ {r}
  /\ UNCHANGED <<pending, answer, chClosed, data, loop, closer, once, wire, history, fault>>

\* A plausible slip: the gateway is not told.
closeSilent(r) ==
  /\ Call(r, "delete", "notify")
  /\ UNCHANGED <<pending, answer, chClosed, flows, data, loop, closer, once, wire, history, fault>>

closeNotify(r) ==
  /\ Call(r, "delete", "notify")
  /\ up' = IF conn = "up" THEN Append(up, Frame("CLOSE_FLOW", r, 0)) ELSE up
  /\ UNCHANGED <<pending, answer, chClosed, flows, data, loop, closer, once, conn, down, srv, sent, history, fault>>

closeData(r) ==
  /\ Call(r, "notify", "done")
  /\ dataClosed' = dataClosed \cup {r}
  /\ UNCHANGED <<pending, answer, chClosed, flows, reader, dataCh, errCh, got, loop, closer, once, wire, history, fault>>

flowClose(r) == closeDelete(r) \/ closeNotify(r) \/ closeData(r)

readData(r) ==
  /\ reader[r] = "reading" /\ dataCh[r] # <<>>
  /\ got' = [got EXCEPT ![r] = Append(@, Head(dataCh[r]))]
  /\ dataCh' = [dataCh EXCEPT ![r] = Tail(@)]
  /\ UNCHANGED <<calls, flows, reader, dataClosed, errCh, loop, closer, once, wire, history, fault>>

\* An error, the end of the client or a closed channel; the select may
\* prefer the first two to data that is there.
readEnd(r) ==
  /\ reader[r] = "reading"
  /\ r \in errCh \/ conn = "closed" \/ (dataCh[r] = <<>> /\ r \in dataClosed)
  /\ reader' = [reader EXCEPT ![r] = "ended"]
  /\ UNCHANGED <<calls, flows, dataCh, dataClosed, errCh, got, loop, closer, once, wire, history, fault>>

flowRead(r) == readData(r) \/ readEnd(r)

-----------------------------------------------------------------------------
(* closeWithError, run by readLoop or by close.                            *)

onceBegin(who) ==
  /\ once = <<None, None>>
  /\ once' = <<who, "pending">>
  /\ conn' = "closed"
  /\ UNCHANGED <<calls, flows, data, loop, closer, up, down, srv, sent, history, fault>>

\* Every pending request is answered and its channel closed, under the lock.
failPending(who) ==
  /\ once = <<who, "pending">>
  /\ once' = <<who, "flows">>
  /\ answer' = [r \in Requests |-> IF r \in pending THEN "fail" ELSE answer[r]]
  /\ fault' = IF \E r \in pending : r \in chClosed \/ answer[r] # None THEN "answer" ELSE fault
  /\ chClosed' = chClosed \cup pending
  /\ pending' = {}
  /\ UNCHANGED <<caller, flows, data, loop, closer, wire, history>>

failFlows(who) ==
  /\ once = <<who, "flows">>
  /\ once' = <<who, "done">>
  /\ errCh' = errCh \cup flows
  /\ flows' = {}
  /\ UNCHANGED <<calls, reader, dataCh, dataClosed, got, loop, closer, wire, history, fault>>

closeWithError(who) == onceBegin(who) \/ failPending(who) \/ failFlows(who)

close ==
  \/ closer = "idle" /\ closer' = "close"
     /\ UNCHANGED <<calls, flows, data, loop, once, wire, history, fault>>
  \/ closer = "close" /\ closeWithError("closer")
  \/ closer = "close" /\ once[2] = "done" /\ closer' = "done"
     /\ UNCHANGED <<calls, flows, data, loop, once, wire, history, fault>>

-----------------------------------------------------------------------------
(* readLoop.                                                               *)

Opening(r) == caller[r] \in {"send", "wait", "insert"} /\ Kind(r) = "tcp"

\* The loop reads a frame and, under the lock, removes the request it answers
\* or finds the flow it is for.
readFrame ==
  LET f == Head(down)
  IN  /\ loop.pc = "read" /\ conn # "closed" /\ down # <<>>
      /\ down' = Tail(down)
      /\ loop' = CASE f.type \in {"OK", "FAIL"} /\ f.req \in pending -> [pc |-> "resolve", frame |-> f]
                   [] f.type = "TCP_DATA" /\ f.req \in flows -> [pc |-> "push", frame |-> f]
                   [] f.type = "CLOSE_FLOW" /\ f.req \in flows -> [pc |-> "pushErr", frame |-> f]
                   [] OTHER -> Idle
      /\ pending' = IF f.type \in {"OK", "FAIL"} THEN pending \ {f.req} ELSE pending
      /\ missed' = IF f.type \in {"TCP_DATA", "CLOSE_FLOW"} /\ f.req \notin flows /\ Opening(f.req)
                   THEN missed \cup {f.req} ELSE missed
      /\ UNCHANGED <<caller, answer, chClosed, flows, data, closer, once, conn, up, srv, sent,
                     dropped, gaveUp, fault>>

\* resolvePendingTCP, -UDP, -Ping after the unlock
resolve ==
  LET r == loop.frame.req
  IN  /\ loop.pc = "resolve"
      /\ answer' = [answer EXCEPT ![r] = IF loop.frame.type = "OK" THEN "ok" ELSE "fail"]
      /\ fault' = IF r \in chClosed \/ answer[r] # None THEN "answer" ELSE fault
      /\ chClosed' = chClosed \cup {r}
      /\ loop' = Idle
      /\ UNCHANGED <<caller, pending, flows, data, closer, once, wire, history>>

\* A plausible slip: a unit that does not fit replaces the newest one.
pushReplace ==
  LET r == loop.frame.req IN
  /\ loop.pc = "push" /\ r \notin dataClosed
  /\ dataCh' = [dataCh EXCEPT ![r] = IF Len(@) < DataCap THEN Append(@, loop.frame.unit) ELSE [@ EXCEPT ![DataCap] = loop.frame.unit]]
  /\ loop' = Idle
  /\ UNCHANGED <<calls, flows, reader, dataClosed, errCh, got, closer, once, wire, history, fault>>

\* A send on a closed channel panics, also in a select with a default.
pushData ==
  LET r == loop.frame.req
      fits == Len(dataCh[r]) < DataCap
  IN  /\ loop.pc = "push"
      /\ IF r \in dataClosed
         THEN fault' = "data" /\ UNCHANGED <<dataCh, dropped>>
         ELSE /\ dataCh' = IF fits THEN [dataCh EXCEPT ![r] = Append(@, loop.frame.unit)] ELSE dataCh
              /\ dropped' = IF fits THEN dropped ELSE dropped \cup {r}
              /\ UNCHANGED fault
      /\ loop' = Idle
      /\ UNCHANGED <<calls, flows, reader, dataClosed, errCh, got, closer, once, wire, missed, gaveUp>>

pushErr ==
  /\ loop.pc = "pushErr"
  /\ errCh' = errCh \cup {loop.frame.req}
  /\ loop' = Idle
  /\ UNCHANGED <<calls, flows, reader, dataCh, dataClosed, got, closer, once, wire, history, fault>>

readFails ==
  /\ loop.pc = "read" /\ conn # "up"
  /\ loop' = [loop EXCEPT !.pc = "close"]
  /\ UNCHANGED <<calls, flows, data, closer, once, wire, history, fault>>

loopClose ==
  \/ loop.pc = "close" /\ closeWithError("loop")
  \/ loop.pc = "close" /\ once[2] = "done" /\ loop' = [loop EXCEPT !.pc = "done"]
     /\ UNCHANGED <<calls, flows, data, closer, once, wire, history, fault>>

readLoop == readFrame \/ resolve \/ pushData \/ pushErr \/ readFails \/ loopClose

-----------------------------------------------------------------------------
(* The gateway's end, as TCPSession has it, and the network.               *)

connLost ==
  /\ conn = "up"
  /\ conn' = "lost"
  /\ UNCHANGED <<calls, flows, data, loop, closer, once, up, down, srv, sent, history, fault>>

Reply(t, r) == down' = Append(down, Frame(t, r, 0))

serve ==
  LET f == Head(up)
  IN  /\ conn = "up" /\ up # <<>>
      /\ up' = Tail(up)
      /\ \/ f.type = "OPEN_TCP" /\ srv' = [srv EXCEPT ![f.req] = "open"] /\ Reply("OK", f.req)
         \/ f.type \in {"OPEN_TCP", "OPEN_UDP"} /\ Reply("FAIL", f.req) /\ UNCHANGED srv
         \/ f.type = "PING" /\ Reply("OK", f.req) /\ UNCHANGED srv
         \/ f.type = "CLOSE_FLOW" /\ srv' = [srv EXCEPT ![f.req] = "closed"] /\ UNCHANGED down
      /\ UNCHANGED <<calls, flows, data, loop, closer, once, conn, sent, history, fault>>

serverData(r) ==
  /\ conn = "up" /\ srv[r] = "open" /\ sent[r] < MaxData
  /\ sent' = [sent EXCEPT ![r] = @ + 1]
  /\ down' = Append(down, Frame("TCP_DATA", r, sent[r] + 1))
  /\ UNCHANGED <<calls, flows, data, loop, closer, once, conn, up, srv, history, fault>>

serverEnd(r) ==
  /\ conn = "up" /\ srv[r] = "open"
  /\ srv' = [srv EXCEPT ![r] = "closed"]
  /\ Reply("CLOSE_FLOW", r)
  /\ UNCHANGED <<calls, flows, data, loop, closer, once, conn, up, sent, history, fault>>

gateway == serve \/ connLost \/ \E r \in Requests : serverData(r) \/ serverEnd(r)

-----------------------------------------------------------------------------
Caller(r) == openTCPFlow(r) \/ openUDPFlow(r) \/ probeRTT(r)

\* A panic in readLoop ends the process.
Running ==
  /\ fault = None
  /\ \/ readLoop \/ close \/ gateway
     \/ \E r \in Requests : Caller(r) \/ flowClose(r) \/ flowRead(r)

\* Nobody has anything left to do.
Rest ==
  \/ fault # None
  \/ /\ \A r \in Requests : caller[r] = "done" /\ reader[r] \in {"idle", "ended"}
     /\ loop.pc = "done" /\ closer # "close"

Next == Running \/ (Rest /\ UNCHANGED cvars)

\* The goroutines of the client run.  Applications need neither close flows nor
\* the client; network and gateway need not do anything.
Closing == closer = "close" /\ close
Fairness ==
  /\ WF_cvars(fault = None /\ readLoop)
  /\ WF_cvars(fault = None /\ Closing)
  /\ \A r \in Requests : WF_cvars(fault = None /\ (Caller(r) \/ closeNotify(r) \/ closeData(r)))
  /\ \A r \in {x \in Requests : Kind(x) = "tcp"} : WF_cvars(fault = None /\ flowRead(r))

Spec == Init /\ [][Next]_cvars
FairSpec == Spec /\ Fairness
-----------------------------------------------------------------------------
\* The channel of a request is sent to and closed once, although readLoop,
\* closeWithError and the caller's timeout all want to: whoever removes the
\* entry, under the lock, owns the channel.
AnsweredOnce == fault # "answer"

\* A flow in the table has an open dataCh: readLoop sends on a closed one, and
\* the process ends, only if the flow is closed between look-up and send.
OpenInTable == flows \cap dataClosed = {}

\* A reader gets the units in order and without holes, unless one came before
\* the flow was in the table or found the channel full.
NoHoles ==
  \A r \in Requests : got[r] = [i \in 1 .. Len(got[r]) |-> i] \/ r \in missed \cup dropped

\* The gateway keeps a flow for a request that its caller has left only if
\* the caller did not wait for the answer, or a frame that closes it is on
\* its way.
OrphanTimedOut ==
  \A r \in Requests :
    srv[r] = "open" /\ conn = "up" /\ caller[r] = "done" =>
      r \in gaveUp \/ \E i \in 1 .. Len(up) : up[i] = Frame("CLOSE_FLOW", r, 0)

\* When the gateway has ended a flow, its reader learns it, unless the frame
\* came before the flow was in the table: then the Read blocks until the flow or the
\* session is closed.
EndReachesReader ==
  \A r \in {x \in Requests : Kind(x) = "tcp"} :
    (reader[r] = "reading" /\ srv[r] = "closed") ~>
      (reader[r] = "ended" \/ r \in missed \/ fault # None)

\* A closed session ends every reader, also of a flow that came into the
\* table after closeWithError had emptied it, every caller that waits for an
\* answer, and readLoop.
CloseEndsAll ==
  conn = "closed" ~> \/ fault # None
                     \/ loop.pc = "done" /\ \A r \in Requests : reader[r] # "reading" /\ caller[r] # "wait"
=============================================================================
