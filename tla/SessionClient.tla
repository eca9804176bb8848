--------------------------- MODULE SessionClient ---------------------------
(***************************************************************************)
(* The client library (internal/sessionclient/client.go): Dial tries the   *)
(* transports in the configured order, in several steps each, and the      *)
(* client then works on the one that answered: TCPSessionClient,           *)
(* QUICClient or RelayClient.                                              *)
(***************************************************************************)
EXTENDS Integers, Sequences

CONSTANTS Requests, Kind(_), Plans, MaxData, DataCap,
          QRequests, QKind(_), QPlans, MaxPings, MaxDgrams, IncomingCap,
          Polls, OutLen, InLen

VARIABLES
  dial,       \* locals of Dial and of the dial function it has called: cfg, the
              \* transports left to try, those that failed, how far the present
              \* one is, and the addresses tried
  transport,  \* c.transport, "dialing" or "failed"
  conns,      \* transports with an open connection to the gateway
  caller, reader, pending, answer, chClosed, flows, dataCh, dataClosed, errCh,
  loop, closer, once, conn, up, down, srv, sent, got, missed, dropped, gaveUp, fault,
  qcaller, ctrlMu, udpMu, udpFlows, incoming, inClosed, inErr, receiver, dgrams,
  qcloser, qconn, qctx, ctrlUp, ctrlDown, torn, qsrv, pings, qsent, left, late, qfault,
  rflow, rreader, attempts, rconn, produced, ended, served, rwriter, wrote, taken, short, rgot, rlost, cut

T == INSTANCE TCPSessionClient
Q == INSTANCE QUICClient
R == INSTANCE RelayClient

tcp == <<caller, reader, pending, answer, chClosed, flows, dataCh, dataClosed, errCh, loop, closer, once,
         conn, up, down, srv, sent, got, missed, dropped, gaveUp, fault>>
quic == <<qcaller, ctrlMu, udpMu, udpFlows, incoming, inClosed, inErr, receiver, dgrams, qcloser, qconn,
          qctx, ctrlUp, ctrlDown, torn, qsrv, pings, qsent, left, late, qfault>>
relay == <<rflow, rreader, attempts, rconn, produced, ended, served, rwriter, wrote, taken, short, rgot, rlost, cut>>
vars == <<dial, transport, conns, tcp, quic, relay>>

Configs == [preferQUIC : BOOLEAN, disableQUIC : BOOLEAN, disableTCP : BOOLEAN, allowRelay : BOOLEAN, forceIPv4 : BOOLEAN]
Order(c) == IF c.preferQUIC THEN <<"quic", "tcp-session", "relay">> ELSE <<"tcp-session", "quic", "relay">>
Enabled(c, t) == CASE t = "quic" -> ~c.disableQUIC
                   [] t = "tcp-session" -> ~c.disableTCP
                   [] OTHER -> c.allowRelay
Targets(c) == IF c.forceIPv4 THEN 2 ELSE 1

NoDial == [cfg |-> [preferQUIC |-> FALSE], todo |-> <<>>, errs |-> {}, stage |-> "connect", tried |-> 0]

Init ==
  /\ \E c \in Configs : dial = [NoDial EXCEPT !.cfg = c, !.todo = Order(c)]
  /\ transport = "dialing" /\ conns = {}
  /\ T!Init /\ Q!QInit /\ R!RInit
  /\ \A r \in Requests : caller[r] = "done"
  /\ \A r \in QRequests : qcaller[r] = "done"

Dialing(t, stage) ==
  /\ transport = "dialing" /\ dial.todo # <<>> /\ Head(dial.todo) = t
  /\ Enabled(dial.cfg, t) /\ dial.stage = stage

\* Dial returns, and applications begin what they have planned.
Return(t) ==
  /\ transport' = t
  /\ dial' = NoDial

Begin(requests, plans) == {[r \in requests |-> IF r \in plan THEN "start" ELSE "done"] : plan \in plans}

\* The transport has failed; Dial goes on to the next one.
Failed(t) == dial' = [dial EXCEPT !.todo = Tail(@), !.errs = @ \cup {t}, !.stage = "connect", !.tried = 0]

dialSkip ==
  /\ transport = "dialing" /\ dial.todo # <<>> /\ ~Enabled(dial.cfg, Head(dial.todo))
  /\ dial' = [dial EXCEPT !.todo = Tail(@)]
  /\ UNCHANGED <<transport, conns, tcp, quic, relay>>

\* The connection, then the control stream.
dialQUIC ==
  /\ \/ /\ Dialing("quic", "connect")
        /\ \/ Failed("quic") /\ UNCHANGED conns
           \/ dial' = [dial EXCEPT !.stage = "control"] /\ conns' = conns \cup {"quic"}
     \/ /\ Dialing("quic", "control")
        /\ \/ Failed("quic") /\ conns' = conns \ {"quic"}
           \/ dial' = [dial EXCEPT !.stage = "auth"] /\ UNCHANGED conns
  /\ UNCHANGED <<transport, tcp, quic, relay>>

\* One target after the other; one whose handshake fails is closed.
dialTCPTLS ==
  /\ Dialing("tcp-session", "connect")
  /\ \/ /\ IF dial.tried + 1 < Targets(dial.cfg) THEN dial' = [dial EXCEPT !.tried = @ + 1]
                                              ELSE Failed("tcp-session")
        /\ UNCHANGED conns
     \/ dial' = [dial EXCEPT !.stage = "auth"] /\ conns' = conns \cup {"tcp-session"}
  /\ UNCHANGED <<transport, tcp, quic, relay>>

\* A plausible slip: the connection of a refused session stays open.
authFailsOpen(t) ==
  /\ Dialing(t, "auth") /\ Failed(t)
  /\ UNCHANGED <<transport, conns, tcp, quic, relay>>

authFails(t) ==
  /\ Dialing(t, "auth") /\ Failed(t)
  /\ conns' = conns \ {t}
  /\ UNCHANGED <<transport, tcp, quic, relay>>

authTCP ==
  /\ Dialing("tcp-session", "auth") /\ Return("tcp-session")
  /\ caller' \in Begin(Requests, Plans)
  /\ UNCHANGED <<conns, reader, pending, answer, chClosed, flows, dataCh, dataClosed, errCh, loop, closer, once,
                 conn, up, down, srv, sent, got, missed, dropped, gaveUp, fault, quic, relay>>

authQUIC ==
  /\ Dialing("quic", "auth") /\ Return("quic")
  /\ qcaller' \in Begin(QRequests, QPlans)
  /\ UNCHANGED <<conns, ctrlMu, udpMu, udpFlows, incoming, inClosed, inErr, receiver, dgrams, qcloser, qconn,
                 qctx, ctrlUp, ctrlDown, torn, qsrv, pings, qsent, left, late, qfault, tcp, relay>>

dialTCPSession == dialTCPTLS \/ authTCP \/ authFails("tcp-session")

\* dialRelay only builds a client, and never fails.
dialRelay == Dialing("relay", "connect") /\ Return("relay") /\ UNCHANGED <<conns, tcp, quic, relay>>

dialFails ==
  /\ transport = "dialing" /\ dial.todo = <<>>
  /\ Return("failed")
  /\ UNCHANGED <<conns, tcp, quic, relay>>

Dial == dialSkip \/ dialQUIC \/ authQUIC \/ authFails("quic") \/ dialTCPSession \/ dialRelay \/ dialFails


Next ==
  \/ Dial
  \/ transport = "tcp-session" /\ T!Next /\ UNCHANGED <<dial, transport, conns, quic, relay>>
  \/ transport = "quic" /\ Q!QNext /\ UNCHANGED <<dial, transport, conns, tcp, relay>>
  \/ transport = "relay" /\ R!RNext /\ UNCHANGED <<dial, transport, conns, tcp, quic>>
  \/ transport = "failed" /\ UNCHANGED vars

\* The fairness of each transport, once it is the client's.
OnTCP == transport = "tcp-session" /\ fault = "none"
OnQUIC == transport = "quic" /\ ~qfault
Fairness ==
  /\ WF_tcp(OnTCP /\ T!readLoop)
  /\ WF_tcp(OnTCP /\ T!Closing)
  /\ \A r \in Requests : WF_tcp(OnTCP /\ (T!Caller(r) \/ T!closeNotify(r) \/ T!closeData(r)))
  /\ \A r \in {x \in Requests : Kind(x) = "tcp"} : WF_tcp(OnTCP /\ T!flowRead(r))
  /\ WF_quic(OnQUIC /\ (Q!pushPayload \/ Q!receiveFails \/ Q!failUDPFlows))
  /\ WF_quic(OnQUIC /\ (Q!closeLock \/ Q!closeFlows \/ Q!closeConn))
  /\ \A r \in QRequests : WF_quic(OnQUIC /\ (Q!QCaller(r) \/ Q!closeIncoming(r) \/ Q!ctrlCloseFlow(r)))
  /\ \A r \in {x \in QRequests : QKind(x) = "udp"} : WF_quic(OnQUIC /\ Q!Recv(r))
  /\ WF_relay(transport = "relay" /\ R!Answered)

Spec == Init /\ [][Next]_vars
FairSpec == Spec /\ Fairness
-----------------------------------------------------------------------------
\* The state of every transport's client has its type.
TypeOK == T!TypeOK /\ Q!QTypeOK /\ R!RTypeOK

\* No connection is left open by a dial that failed half-way: the gateway would
\* keep a session that nobody uses.
OneConnection ==
  conns \subseteq (IF transport = "dialing" /\ dial.todo # <<>> THEN {Head(dial.todo)} ELSE {transport})

\* Dial settles for a transport only if all that come before it in the
\* configured order are disabled or have failed, and fails only if all have;
\* whatever it does, it keeps at most the connection of the transport it is at.
DialSettles ==
  [][/\ OneConnection'
     /\ transport' # transport =>
          LET Out(t) == ~Enabled(dial.cfg, t) \/ t \in dial.errs
          IN  \/ transport' = "failed" /\ \A t \in {"quic", "tcp-session", "relay"} : Out(t)
              \/ \E i \in 1 .. 3 : /\ Order(dial.cfg)[i] = transport' /\ ~Out(transport')
                                   /\ \A j \in 1 .. i - 1 : Out(Order(dial.cfg)[j])]_<<dial, transport, conns>>

\* A request gets one answer, and its own: over TCP whoever removes the pending
\* request answers it, once; over QUIC openFlow takes no late OK for another's.
AnswersMatch == T!AnsweredOnce /\ Q!AnswerIsMine

\* The bytes of a flow arrive in order and without holes: over TCP unless a frame
\* came before the flow was in the table or found its channel full; over the relay
\* both ways, and all of them before the end, but for the rest of a partly accepted
\* Write.
StreamsInOrder == TypeOK /\ T!NoHoles /\ R!RPrefix /\ R!RComplete /\ R!RUpstream

\* Both ends agree on the flows: the gateway keeps one that the client does not have
\* only after an open that timed out or took a failure without a flow for its own,
\* and one in the client's table has an open channel.
FlowsKnown == T!OrphanTimedOut /\ Q!QOrphanLeft /\ T!OpenInTable /\ Q!QOpenInTable

\* A blocked Read or Recv ends when the flow or the session has, or, over the relay,
\* when the target is silent.
ReadersEnd == T!EndReachesReader /\ Q!ReceiversEnd /\ R!RReadEnds

\* Closing a client ends its readers and callers, and returns, but over QUIC with a
\* UDP flow open; callers that share the control stream all return.
CloseEnds == T!CloseEndsAll /\ Q!QCallsReturn /\ Q!QCloseReturns
=============================================================================
