------------------------- MODULE QUICSessionProofs -------------------------
(***************************************************************************)
(* The flows and streams of one QUIC session, for any finite set of        *)
(* requests and any streams, whatever numbers the client gives the flows.  *)
(*                                                                         *)
(* Run waits for its loops, so that they run only while it waits (Quiet);  *)
(* Close's body runs once and shuts the connection before it empties the   *)
(* tables (OneClose); only controlLoop enters flows, each of them once     *)
(* (Dialling), so that what comes into the tables after Close leaves them   *)
(* again (Emptied); and a stream that has found its flow is closed with it *)
(* (Attaching, Attached).                                                  *)
(***************************************************************************)
EXTENDS QUICSession, TLAPS

-----------------------------------------------------------------------------
(* The inductive invariant.                                                *)

\* Where each kind of thread can be.
Body == {"conn", "snapshot", "flows"}
Closers == {"new", "once", "done"} \cup Body
RunLabels == {"auth", "regInsert", "regStore", "regInc", "authOK", "start", "wait",
              "unregDelete", "unregStore", "once", "done"} \cup Body
ControlLabels == {"read", "dial", "insert", "ok", "cf", "close"} \cup Closers
AcceptLabels == {"read"} \cup Closers
StreamLabels == {"head", "attach", "pump", "cf", "close"} \cup Closers
LoopLabels == {"read", "cf", "close"} \cup Closers

Roles ==
  /\ pc["run"] \in RunLabels /\ pc["outside"] \in Closers
  /\ pc["control"] \in ControlLabels /\ pc["accept"] \in AcceptLabels
  /\ \A s \in Streams : pc[s] \in StreamLabels
  /\ \A u \in UDPFlows : pc[u] \in LoopLabels

\* What the server, the timer store and the gauge know, by where Run is.
Registered ==
  /\ registered <=> pc["run"] \in {"regStore", "regInc", "authOK", "start", "wait", "unregDelete"}
  /\ timer => pc["run"] \in {"regInc", "authOK", "start", "wait", "unregDelete", "unregStore"}
  /\ active = IF pc["run"] \in {"authOK", "start", "wait", "unregDelete", "unregStore"} THEN 1 ELSE 0

\* The threads of the WaitGroup run only while Run waits for them.
Quiet == pc["run"] # "wait" => \A t \in Counted : pc[t] \in {"new", "done"}

\* One thread runs the body of Close, once; the connection is closed before its
\* snapshot, and what it has taken is closed before it returns.
OneClose ==
  /\ \A t \in Threads : pc[t] \in Body => once = "busy"
  /\ \A t, u \in Threads : pc[t] \in Body /\ pc[u] \in Body => t = u
  /\ \A t \in Threads : pc[t] \in {"snapshot", "flows"} => cancelled /\ ~connOpen
  /\ once = "done" => cancelled /\ ~connOpen
  /\ closing # {} => \E t \in Threads : pc[t] = "flows"
  /\ pc["run"] = "done" => once = "done"

\* A flow is in its table under its own number.
Table ==
  /\ \A i \in Ids : tcpFlows[i] # None => FlowId[tcpFlows[i]] = i
  /\ \A i \in Ids : udpFlows[i] # None => FlowId[udpFlows[i]] = i

\* What a thread carries from one step of closeFlow, or of a stream's handler,
\* to the next.
Carried ==
  /\ \A t \in Counted : pc[t] = "cf" => arg[t] \in Ids
  /\ \A t \in Counted : taken[t] # {} => pc[t] = "close"
  /\ \A s \in Streams : pc[s] \in {"attach", "pump"} => served[s] \in TCPFlows
  /\ \A s \in Streams : pc[s] = "cf" => served[s] \in TCPFlows /\ arg[s] = FlowId[served[s]]

\* A flow that somebody has found has been dialled; the one that controlLoop is
\* opening has been found by nobody, and has no loop yet.
Taken == UNION {taken[t] : t \in Counted}
Held == InTables \cup Taken \cup closing
Found == Held \cup {served[s] : s \in Streams}
Dialling ==
  /\ \A o \in Flows : o \in Found => target[o] # "none"
  /\ pc["control"] = "dial" => target[cur] = "none"
  /\ pc["control"] = "insert" => cur \notin Found
  /\ pc["control"] \in {"insert", "ok"} => target[cur] # "none"
  /\ pc["control"] \in {"dial", "insert", "ok"} => cur \in Flows /\ (cur \in UDPFlows => pc[cur] = "new")
  /\ \A u \in UDPFlows : target[u] = "none" => pc[u] = "new"

\* Close has emptied the tables.
Late == once = "done" \/ \E t \in Threads : pc[t] = "flows"

\* After that at most the flow that controlLoop is opening is in them, nobody
\* has found it, and controlLoop goes on to take it out.
Emptied ==
  Late => /\ InTables \subseteq {cur}
          /\ \A s \in Streams : served[s] \notin InTables
          /\ InTables # {} => \/ pc["control"] = "ok"
                              \/ pc["control"] = "cf" /\ arg["control"] = FlowId[cur]

\* The flow that a stream's handler has found is closed, or somebody will close it.
Attaching == \A s \in Streams : pc[s] = "attach" => served[s] \in Held \/ target[served[s]] = "closed"

\* A stream with a handler past the attachment is its flow's, and is closed with
\* the flow; a handler that has taken the number out leaves the flow to another.
Attached ==
  \A s \in Streams : pc[s] \notin {"new", "head", "attach"} /\ sending[s] = "open" =>
    /\ served[s] \in TCPFlows /\ stream[served[s]] = s
    /\ \/ s \in late
       \/ served[s] \in Taken \cup closing
       \/ pc[s] \notin {"close", "done"} /\ served[s] \in InTables

\* The types that these leave open.
Types ==
  /\ pc \in [Threads -> Labels]
  /\ tcpFlows \in [Ids -> TCPFlows \cup {None}]
  /\ udpFlows \in [Ids -> UDPFlows \cup {None}]
  /\ target \in [Flows -> {"none", "open", "closed"}]
  /\ stream \in [TCPFlows -> Streams \cup {None}]
  /\ sending \in [Streams -> {"none", "open", "closed"}]
  /\ served \in [Streams -> TCPFlows \cup {None}]
  /\ late \in SUBSET Streams
  /\ cancelled \in BOOLEAN /\ connOpen \in BOOLEAN /\ registered \in BOOLEAN /\ timer \in BOOLEAN
  /\ buffered \in 0 .. Buffered
  /\ once \in {"free", "busy", "done"}
  /\ closing \in SUBSET Flows
  /\ cur \in Flows \cup {None}
  /\ arg \in [Counted -> Ids \cup {None}]
  /\ taken \in [Counted -> SUBSET Flows]

IInv ==
  /\ Types /\ Roles /\ Registered /\ Quiet /\ OneClose /\ Table /\ Carried
  /\ Dialling /\ Emptied /\ NoStrayTarget /\ Attaching /\ Attached

-----------------------------------------------------------------------------
(* Threads and their moves.                                                *)

\* The goroutines are different threads; all but Run and the one outside are
\* counted.
LEMMA ThreadFacts ==
  /\ {"run", "outside", "control", "accept"} \subseteq Threads
  /\ "run" \notin Counted /\ "outside" \notin Counted /\ "control" \in Counted /\ "accept" \in Counted
  /\ \A s \in Streams : s \in Threads /\ s \in Counted /\ s # "control" /\ s # "accept" /\ s # "run" /\ s # "outside" /\ s \notin UDPFlows /\ s # None
  /\ \A u \in UDPFlows : u \in Threads /\ u \in Counted /\ u # "control" /\ u # "accept" /\ u # "run" /\ u # "outside" /\ u \notin Streams
  /\ \A t \in Counted : t \in Threads /\ (t = "control" \/ t = "accept" \/ t \in Streams \/ t \in UDPFlows)
  /\ \A t \in Threads : t \in Counted \/ t = "run" \/ t = "outside"
<1>1. {"run", "outside", "control", "accept"} \cap (Streams \cup UDPFlows) = {} /\ Streams \cap UDPFlows = {}
      /\ None \notin Streams
  BY QUICSessionAssumption, Zenon
<1>2. \A x \in Streams \cup UDPFlows : x # "control" /\ x # "accept" /\ x # "run" /\ x # "outside"
  BY <1>1, Zenon
<1>3. "run" \notin Counted /\ "outside" \notin Counted /\ "control" \in Counted /\ "accept" \in Counted
  BY <1>2, Zenon DEF Counted
<1>4. \A s \in Streams : s \notin UDPFlows /\ s # None
  BY <1>1, Zenon
<1> QED BY <1>2, <1>3, <1>4, Zenon DEF Threads, Counted

\* Flows and their numbers.
LEMMA FlowFacts ==
  /\ TCPFlows \subseteq Flows /\ UDPFlows \subseteq Flows /\ TCPFlows \cap UDPFlows = {}
  /\ \A o \in Flows : o # None /\ FlowId[o] \in Ids /\ (o \in TCPFlows \/ o \in UDPFlows)
  /\ \A i \in Ids : i # None
BY QUICSessionAssumption, Zenon DEF Flows, Ids

\* One thread goes from one place to another, and the others stay.
Moved(t, from, to) ==
  /\ pc[t] = from /\ pc'[t] = to
  /\ \A u \in Threads : u # t => pc'[u] = pc[u]

\* A place of the thread's own role.
Fits(t, l) ==
  /\ t = "run" => l \in RunLabels
  /\ t = "outside" => l \in Closers
  /\ t = "control" => l \in ControlLabels
  /\ t = "accept" => l \in AcceptLabels
  /\ t \in Streams => l \in StreamLabels
  /\ t \in UDPFlows => l \in LoopLabels

LEMMA LabelFacts ==
  /\ RunLabels \subseteq Labels /\ ControlLabels \subseteq Labels /\ AcceptLabels \subseteq Labels
  /\ StreamLabels \subseteq Labels /\ LoopLabels \subseteq Labels /\ Closers \subseteq Labels
BY DEF RunLabels, ControlLabels, AcceptLabels, StreamLabels, LoopLabels, Closers, Body, Labels

\* Every thread may call Close.
LEMMA ClosersFit == \A t \in Threads : \A l \in {"once", "done"} \cup Body : Fits(t, l)
BY Zenon DEF Fits, RunLabels, ControlLabels, AcceptLabels, StreamLabels, LoopLabels, Closers

\* A thread that goes to a place of its own role keeps the types and Roles.
LEMMA Going ==
  ASSUME Types, Roles, NEW t \in Threads, NEW from, NEW to, Goto(t, from, to), Fits(t, to)
  PROVE  Moved(t, from, to) /\ pc' \in [Threads -> Labels] /\ Roles'
<1>1. to \in Labels
  BY LabelFacts, ThreadFacts, Zenon DEF Fits
<1>2. Moved(t, from, to) /\ pc' \in [Threads -> Labels]
  BY <1>1, Zenon DEF Types, Goto, Moved
<1> QED BY <1>2, ThreadFacts, Zenon DEF Roles, Fits, Moved

-----------------------------------------------------------------------------
(* What kinds of steps there are.                                          *)

\* A step that moves one thread and leaves flows, conn and Close's state alone.
Plain(t, from, to) ==
  /\ Moved(t, from, to) /\ pc' \in [Threads -> Labels] /\ Roles'
  /\ UNCHANGED <<flow, cancelled, connOpen, life, taken, cur>>
  /\ from \notin Body \cup {"cf", "close", "insert", "attach", "head", "done"}
  /\ to \notin Body \cup {"close", "dial", "insert", "ok", "head", "attach", "pump", "wait", "new"}
  /\ t \in Counted => from # "new"
  /\ t = "run" /\ from = "wait" => Live = {}
  /\ t \in Streams \cup {"run"} /\ to = "done" => once = "done"
  /\ t = "control" /\ from = "ok" => to = "cf" /\ arg'["control"] = FlowId[cur]
  /\ \A u \in Counted : u # t => arg'[u] = arg[u]
  /\ to = "cf" => t \in Counted /\ arg'[t] \in Ids /\ (t \in Streams => arg'[t] = FlowId[served[t]])
  /\ t \in Streams /\ to = "cf" => served[t] \in TCPFlows
  /\ arg' \in [Counted -> Ids \cup {None}]

PlainStep == \E t \in Threads : \E from, to \in Labels : Plain(t, from, to)

\* The flow number that closeFlow is called with.
LEMMA CallFacts ==
  ASSUME Types, NEW t \in Counted, NEW i \in Ids, NEW from, CallCloseFlow(t, from, i)
  PROVE  /\ Goto(t, from, "cf") /\ arg'[t] = i /\ \A u \in Counted : u # t => arg'[u] = arg[u]
         /\ arg' \in [Counted -> Ids \cup {None}]
BY Zenon DEF CallCloseFlow, Types

\* A move that changes nothing else.
LEMMA MovePlain ==
  ASSUME IInv, NEW t \in Threads, NEW from \in Labels, NEW to, Goto(t, from, to), Fits(t, to),
         UNCHANGED <<flow, cancelled, connOpen, life, calls>>,
         from \notin Body \cup {"cf", "close", "insert", "attach", "head", "done", "ok"},
         to \notin Body \cup {"cf", "close", "dial", "insert", "ok", "head", "attach", "pump", "wait", "new"},
         t \in Counted => from # "new",
         t = "run" /\ from = "wait" => Live = {},
         t \in Streams \cup {"run"} /\ to = "done" => once = "done"
  PROVE  PlainStep
<1>1. Moved(t, from, to) /\ pc' \in [Threads -> Labels] /\ Roles' /\ to \in Labels
  BY Going, LabelFacts, ThreadFacts, Zenon DEF IInv, Fits
<1>2. arg' = arg /\ taken' = taken /\ cur' = cur /\ arg \in [Counted -> Ids \cup {None}]
  BY Zenon DEF calls, IInv, Types
<1>3. Plain(t, from, to)
  BY <1>1, <1>2, Zenon DEF Plain
<1> QED BY <1>1, <1>3, Zenon DEF PlainStep

\* A call of closeFlow that changes nothing else.
LEMMA CallPlain ==
  ASSUME IInv, NEW t \in Counted, NEW from \in {"read", "ok", "pump"}, NEW i \in Ids, CallCloseFlow(t, from, i), Fits(t, "cf"),
         UNCHANGED <<flow, cancelled, connOpen, life, taken, cur>>,
         from = "ok" => i = FlowId[cur],
         t \in Streams => served[t] \in TCPFlows /\ i = FlowId[served[t]]
  PROVE  PlainStep
<1>1. /\ Goto(t, from, "cf") /\ arg'[t] = i /\ \A u \in Counted : u # t => arg'[u] = arg[u]
      /\ arg' \in [Counted -> Ids \cup {None}]
  BY CallFacts, Zenon DEF IInv
<1>2. t \in Threads /\ t # "run"
  BY ThreadFacts, Zenon
<1>3. Moved(t, from, "cf") /\ pc' \in [Threads -> Labels] /\ Roles'
  BY <1>1, <1>2, Going, Zenon DEF IInv
<1>4. from \in Labels /\ "cf" \in Labels
  BY Zenon DEF Labels
<1>5. from \notin Body \cup {"cf", "close", "insert", "attach", "head", "done", "new"}
  BY Zenon DEF Body
<1>6. "cf" \notin Body \cup {"close", "dial", "insert", "ok", "head", "attach", "pump", "wait", "new", "done"}
  BY Zenon DEF Body
<1>7. Plain(t, from, "cf")
  BY <1>1, <1>2, <1>3, <1>5, <1>6, Zenon DEF Plain
<1> QED BY <1>2, <1>4, <1>7, Zenon DEF PlainStep

\* Run, but for the start of its loops.
LEMMA RunPlain == IInv /\ Run => PlainStep \/ start
<1> SUFFICES ASSUME IInv, Run, ~start PROVE PlainStep
  OBVIOUS
<1> DEFINE F == {"auth", "regInsert", "regStore", "regInc", "authOK", "wait", "unregDelete", "unregStore"}
           T == {"once", "regInsert", "regStore", "regInc", "authOK", "start", "unregDelete", "unregStore"}
<1>1. PICK from \in F, to \in T :
        /\ Goto("run", from, to) /\ UNCHANGED <<flow, cancelled, connOpen, life, calls>>
        /\ from = "wait" => Live = {}
  BY Zenon DEF Run, authFail, authVerified, regInsert, regStore, regInc, authOK, wait, unregDelete, unregStore, Move, conn
<1>2. from \in Labels /\ Fits("run", to) /\ "run" \in Threads /\ "run" \notin Counted
  <2>1. from \in Labels /\ to \in RunLabels
    BY DEF Labels, RunLabels
  <2>2. "run" \notin Streams /\ "run" \notin UDPFlows
    BY ThreadFacts, Zenon
  <2> QED BY <2>1, <2>2, ThreadFacts, Zenon DEF Fits
<1>3. from \notin Body \cup {"cf", "close", "insert", "attach", "head", "done", "ok"}
      /\ to \notin Body \cup {"cf", "close", "dial", "insert", "ok", "head", "attach", "pump", "wait", "new", "done"}
  BY Zenon DEF Body
<1> QED BY <1>1, <1>2, <1>3, MovePlain, Zenon

\* A thread that calls Close, or comes too late for its body.
LEMMA OncePlain ==
  ASSUME IInv, NEW t \in Threads, NEW from \in {"new", "read", "pump", "once"}, NEW to \in {"once", "done"},
         Goto(t, from, to), UNCHANGED <<flow, cancelled, connOpen, life, calls>>,
         to = "done" => once = "done" \/ t \in UDPFlows \/ t = "accept",
         t \in Counted => from # "new",
         t = "run" => from = "once"
  PROVE  PlainStep
<1>1. from \in Labels /\ Fits(t, to)
  BY ClosersFit, Zenon DEF Labels
<1>2. from \notin Body \cup {"cf", "close", "insert", "attach", "head", "done", "ok"}
      /\ to \notin Body \cup {"cf", "close", "dial", "insert", "ok", "head", "attach", "pump", "wait", "new"}
  BY Zenon DEF Body
<1>3. t \in Streams \cup {"run"} /\ to = "done" => once = "done"
  BY ThreadFacts, Zenon
<1>4. t = "run" /\ from = "wait" => Live = {}
  BY Zenon
<1> QED BY <1>1, <1>2, <1>3, <1>4, MovePlain, Zenon

\* The idle timer and Shutdown.
LEMMA OutsidePlain == IInv /\ (idleTimeout \/ shutdown) => PlainStep
<1> SUFFICES ASSUME IInv, idleTimeout \/ shutdown PROVE PlainStep
  OBVIOUS
<1>1. Goto("outside", "new", "once") /\ UNCHANGED <<flow, cancelled, connOpen, life, calls>>
  BY Zenon DEF idleTimeout, shutdown, Move, conn
<1>2. "outside" \in Threads /\ "outside" \notin Counted
  BY ThreadFacts, Zenon
<1> QED BY <1>1, <1>2, OncePlain, Zenon

\* The frames that controlLoop reads, and the end of it.
LEMMA ControlPlain ==
  ASSUME IInv, controlEnd \/ (\E i \in Ids : frameCloseFlow(i)) \/ Move("control", "dial", "read") \/ (openAnswerFails /\ cur \in Flows)
  PROVE  PlainStep
<1>0. "control" \in Threads /\ "control" \in Counted /\ "control" \notin Streams /\ "control" \notin UDPFlows
  BY ThreadFacts, Zenon
<1>1. CASE controlEnd
  BY <1>0, <1>1, OncePlain, Zenon DEF controlEnd, Move, conn
<1>2. Fits("control", "cf") /\ Fits("control", "read")
  BY <1>0, Zenon DEF Fits, ControlLabels
<1>3. CASE \E i \in Ids : frameCloseFlow(i)
  <2>1. PICK i \in Ids : Frame /\ CallCloseFlow("control", "read", i) /\ UNCHANGED <<cur, taken>>
    BY <1>3, Zenon DEF frameCloseFlow
  <2>2. UNCHANGED <<flow, cancelled, connOpen, life, taken, cur>>
    BY <2>1, Zenon DEF Frame
  <2> QED BY <1>0, <1>2, <2>1, <2>2, CallPlain, Zenon
<1>4. CASE Move("control", "dial", "read")
  <2>1. Goto("control", "dial", "read") /\ UNCHANGED <<flow, cancelled, connOpen, life, calls>>
    BY <1>4, Zenon DEF Move, conn
  <2>2. "dial" \in Labels /\ "dial" \notin Body \cup {"cf", "close", "insert", "attach", "head", "done", "ok"}
        /\ "read" \notin Body \cup {"cf", "close", "dial", "insert", "ok", "head", "attach", "pump", "wait", "new"}
    BY Zenon DEF Body, Labels
  <2> QED BY <1>0, <1>2, <2>1, <2>2, ThreadFacts, MovePlain, Zenon
<1>5. CASE openAnswerFails /\ cur \in Flows
  <2>1. CallCloseFlow("control", "ok", FlowId[cur]) /\ UNCHANGED <<flow, cancelled, connOpen, life, taken, cur>>
    BY <1>5, Zenon DEF openAnswerFails, conn
  <2>2. FlowId[cur] \in Ids
    BY <1>5, FlowFacts, Zenon
  <2> QED BY <1>0, <1>2, <2>1, <2>2, CallPlain, Zenon
<1> QED BY <1>1, <1>3, <1>4, <1>5, Zenon

\* The end of acceptFlowStreams.
LEMMA AcceptPlain == IInv /\ acceptEnd => PlainStep
<1> SUFFICES ASSUME IInv, acceptEnd PROVE PlainStep
  OBVIOUS
<1>1. PICK to \in {"once", "done"} : Goto("accept", "read", to) /\ UNCHANGED <<flow, cancelled, connOpen, life, calls>>
  <2>1. CASE cancelled
    BY <2>1, Zenon DEF acceptEnd, Move, conn
  <2>2. CASE ~cancelled
    BY <2>2, Zenon DEF acceptEnd, Move, conn
  <2> QED BY <2>1, <2>2, Zenon
<1> QED BY <1>1, OncePlain, ThreadFacts, Zenon

\* The end of a stream's pump.
LEMMA PumpPlain ==
  ASSUME IInv, NEW s \in Streams, pumpTCPFlow(s)
  PROVE  PlainStep
<1>0. s \in Threads /\ s \in Counted /\ s # "run" /\ s # "control" /\ s # "accept" /\ s # "outside" /\ s \notin UDPFlows
  BY ThreadFacts, Zenon
<1>1. pc[s] = "pump" /\ UNCHANGED <<flow, cancelled, connOpen, life, taken, cur>>
  BY Zenon DEF pumpTCPFlow, Goto, conn
<1>2. served[s] \in TCPFlows /\ FlowId[served[s]] \in Ids
  BY <1>1, FlowFacts, Zenon DEF IInv, Carried
<1>3. CASE Goto(s, "pump", "once") /\ UNCHANGED arg
  <2>1. UNCHANGED calls
    BY <1>1, <1>3, Zenon DEF calls
  <2> QED BY <1>0, <1>1, <1>3, <2>1, OncePlain, Zenon
<1>4. CASE CallCloseFlow(s, "pump", FlowId[served[s]])
  <2>1. Fits(s, "cf")
    BY <1>0, Zenon DEF Fits, StreamLabels
  <2> QED BY <1>0, <1>1, <1>2, <1>4, <2>1, CallPlain, Zenon
<1> QED BY <1>3, <1>4, Zenon DEF pumpTCPFlow

\* The end of a UDP flow's loop.
LEMMA LoopPlain ==
  ASSUME IInv, NEW u \in UDPFlows, udpReadLoop(u)
  PROVE  PlainStep
<1>0. u \in Threads /\ u \in Counted /\ u # "run" /\ u # "control" /\ u # "accept" /\ u # "outside" /\ u \notin Streams
      /\ FlowId[u] \in Ids
  BY ThreadFacts, FlowFacts, Zenon
<1>1. UNCHANGED <<flow, cancelled, connOpen, life, taken, cur>>
  BY Zenon DEF udpReadLoop, udpLimit, udpSendFails, udpEnd, Move, conn, calls
<1>2. \/ CallCloseFlow(u, "read", FlowId[u])
      \/ UNCHANGED arg /\ \E to \in {"once", "done"} : Goto(u, "read", to)
  BY Zenon DEF udpReadLoop, udpLimit, udpSendFails, udpEnd, Move, calls
<1>3. CASE UNCHANGED arg /\ \E to \in {"once", "done"} : Goto(u, "read", to)
  <2>1. UNCHANGED calls
    BY <1>1, <1>3, Zenon DEF calls
  <2> QED BY <1>0, <1>1, <1>3, <2>1, OncePlain, Zenon
<1>4. CASE CallCloseFlow(u, "read", FlowId[u])
  <2>1. Fits(u, "cf")
    BY <1>0, Zenon DEF Fits, LoopLabels
  <2> QED BY <1>0, <1>1, <1>4, <2>1, CallPlain, Zenon
<1> QED BY <1>2, <1>3, <1>4, Zenon

\* The first caller of Close enters its body.
EnterBody(t) ==
  /\ once = "free" /\ Goto(t, "once", "conn") /\ once' = "busy"
  /\ UNCHANGED <<flow, conn, closing, calls, server>>
CloseStep(t) == EnterBody(t) \/ CloseConn(t) \/ Snapshot(t) \/ CloseOne(t) \/ CloseReturn(t)

\* The steps of controlLoop that open a flow.
Dialled ==
  /\ Goto("control", "dial", "insert") /\ cur \in Flows
  /\ target' = [target EXCEPT ![cur] = "open"]
  /\ UNCHANGED <<tcpFlows, udpFlows, stream, sending, served, late, conn, life, calls, server>>
Entered ==
  /\ Goto("control", "insert", "ok") /\ cur \in Flows /\ Holder(cur) = None /\ Enter(cur)
  /\ UNCHANGED <<target, stream, sending, served, late, conn, life, calls, server>>
NumberTaken ==
  /\ Goto("control", "insert", "read") /\ cur \in Flows
  /\ target' = [target EXCEPT ![cur] = "closed"]
  /\ UNCHANGED <<tcpFlows, udpFlows, stream, sending, served, late, conn, life, calls, server>>
OpenStep == (\E o \in Flows : frameOpen(o)) \/ Dialled \/ Entered \/ NumberTaken \/ (openAnswered /\ cur \in Flows)

\* The steps of a stream up to its pump.
StreamStep ==
  \/ acceptStream
  \/ \E s \in Streams : \/ Refuse(s, "head") \/ Refuse(s, "attach") \/ attach(s)
                        \/ \E i \in Ids : streamFlow(s, i)

\* Every step is one of these.
LEMMA Cases ==
  ASSUME IInv, Next
  PROVE  \/ PlainStep \/ start \/ clientGone \/ UNCHANGED vars
         \/ \E t \in Threads : CloseStep(t)
         \/ OpenStep \/ StreamStep
         \/ \E t \in Counted : cfDelete(t) \/ cfClose(t)
<1>1. CASE Run
  BY <1>1, RunPlain, Zenon
<1>2. CASE controlLoop
  <2>1. CASE controlEnd \/ (\E i \in Ids : frameCloseFlow(i))
    BY <2>1, ControlPlain, Zenon
  <2>2. CASE \E o \in Flows : frameOpen(o)
    BY <2>2, Zenon DEF OpenStep
  <2>3. CASE Opening /\ cur \in Flows
    <3>1. CASE openDial
      BY <2>3, <3>1, ControlPlain, Zenon DEF openDial, OpenStep, Dialled
    <3>2. CASE openInsert
      BY <2>3, <3>2, Zenon DEF openInsert, OpenStep, Entered, NumberTaken
    <3>3. CASE openAnswerFails
      BY <2>3, <3>3, ControlPlain, Zenon
    <3>4. CASE openAnswered
      BY <2>3, <3>4, Zenon DEF OpenStep
    <3> QED BY <2>3, <3>1, <3>2, <3>3, <3>4, Zenon DEF Opening
  <2> QED BY <1>2, <2>1, <2>2, <2>3, FlowFacts, Zenon DEF controlLoop, handleOpenTCP, handleOpenUDP
<1>3. CASE acceptStream
  BY <1>3, Zenon DEF StreamStep
<1>4. CASE acceptEnd
  BY <1>4, AcceptPlain, Zenon
<1>5. CASE \E s \in Streams : handleFlowStream(s)
  <2>1. PICK s \in Streams : handleFlowStream(s)
    BY <1>5, Zenon
  <2>2. CASE pumpTCPFlow(s)
    BY <2>2, PumpPlain, Zenon
  <2>3. CASE Refuse(s, "head") \/ (\E i \in Ids : streamFlow(s, i)) \/ attach(s) \/ attachSecond(s)
    BY <2>3, Zenon DEF attachSecond, StreamStep
  <2> QED BY <2>1, <2>2, <2>3, Zenon DEF handleFlowStream
<1>6. CASE \E u \in UDPFlows : udpReadLoop(u)
  BY <1>6, LoopPlain, Zenon
<1>7. CASE \E t \in Counted : closeFlow(t)
  BY <1>7, Zenon DEF closeFlow
<1>8. CASE \E t \in Threads : Close(t)
  <2>1. PICK t \in Threads : Close(t)
    BY <1>8, Zenon
  <2>2. CASE OnceDo(t)
    <3>1. CASE once = "done" /\ Move(t, "once", "done")
      BY <3>1, OncePlain, Zenon DEF Move, conn
    <3> QED BY <2>2, <3>1, Zenon DEF OnceDo, CloseStep, EnterBody
  <2> QED BY <2>1, <2>2, Zenon DEF Close, CloseStep
<1>9. CASE clientGone \/ idleTimeout \/ shutdown \/ Terminated
  BY <1>9, OutsidePlain, Zenon DEF Terminated
<1> QED BY <1>1, <1>2, <1>3, <1>4, <1>5, <1>6, <1>7, <1>8, <1>9, Zenon DEF Next, Loops

-----------------------------------------------------------------------------
(* What each of these steps does to the flows.                             *)

\* A thread's own place and where it goes.
LEMMA Fitting ==
  /\ \A t \in Threads : Fits(t, "conn") /\ Fits(t, "snapshot") /\ Fits(t, "flows") /\ Fits(t, "done")
  /\ \A l \in {"read", "dial", "insert", "ok", "cf", "close"} : Fits("control", l)
  /\ \A s \in Streams : Fits(s, "head") /\ Fits(s, "attach") /\ Fits(s, "pump") /\ Fits(s, "close")
  /\ \A u \in UDPFlows : Fits(u, "read") /\ Fits(u, "close")
  /\ Fits("run", "wait") /\ Fits("accept", "read")
<1>1. \A s \in Streams : Fits(s, "head") /\ Fits(s, "attach") /\ Fits(s, "pump") /\ Fits(s, "close")
  BY ThreadFacts, Zenon DEF Fits, StreamLabels
<1>2. \A u \in UDPFlows : Fits(u, "read") /\ Fits(u, "close")
  BY ThreadFacts, Zenon DEF Fits, LoopLabels
<1>3. Fits("run", "wait") /\ Fits("accept", "read")
  BY ThreadFacts, Zenon DEF Fits, RunLabels, AcceptLabels
<1>4. \A l \in {"read", "dial", "insert", "ok", "cf", "close"} : Fits("control", l)
  BY ThreadFacts, Zenon DEF Fits, ControlLabels
<1> QED BY <1>1, <1>2, <1>3, <1>4, ClosersFit, Zenon DEF Body

\* What is in the tables.
LEMMA Tabled ==
  ASSUME Types
  PROVE  /\ InTables \subseteq Flows
         /\ \A i \in Ids : tcpFlows[i] # None => tcpFlows[i] \in InTables /\ tcpFlows[i] \in TCPFlows
         /\ \A i \in Ids : udpFlows[i] # None => udpFlows[i] \in InTables /\ udpFlows[i] \in UDPFlows
         /\ \A o \in InTables : (\E i \in Ids : tcpFlows[i] = o) \/ (\E i \in Ids : udpFlows[i] = o)
         /\ \A o \in InTables \cap TCPFlows : \E i \in Ids : tcpFlows[i] = o
<1>1. /\ \A i \in Ids : tcpFlows[i] \in TCPFlows \cup {None}
      /\ \A i \in Ids : udpFlows[i] \in UDPFlows \cup {None}
  BY Zenon DEF Types
<1>2. \A o \in InTables : o # None /\ ((\E i \in Ids : tcpFlows[i] = o) \/ (\E i \in Ids : udpFlows[i] = o))
  BY Zenon DEF InTables
<1>3. \A i \in Ids : (tcpFlows[i] # None => tcpFlows[i] \in InTables) /\ (udpFlows[i] # None => udpFlows[i] \in InTables)
  BY Zenon DEF InTables
<1>4. InTables \subseteq Flows
  BY <1>1, <1>2, FlowFacts, Zenon
<1>5. \A o \in InTables \cap TCPFlows : \E i \in Ids : tcpFlows[i] = o
  BY <1>1, <1>2, FlowFacts, Zenon
<1> QED BY <1>1, <1>2, <1>3, <1>4, <1>5, Zenon

\* closeFlow takes what has the number out of both tables: it changes hands.
LEMMA TakeFacts ==
  ASSUME IInv, NEW t \in Counted, cfDelete(t)
  PROVE  \E to \in {"read", "done", "close"} :
           /\ Moved(t, "cf", to) /\ pc' \in [Threads -> Labels] /\ Roles'
           /\ to = "close" \/ to = Back(t)
           /\ tcpFlows' \in [Ids -> TCPFlows \cup {None}] /\ udpFlows' \in [Ids -> UDPFlows \cup {None}]
           /\ taken' \in [Counted -> SUBSET Flows] /\ arg' \in [Counted -> Ids \cup {None}]
           /\ \A u \in Counted : u # t => taken'[u] = taken[u] /\ arg'[u] = arg[u]
           /\ taken'[t] # {} => to = "close"
           /\ \A i \in Ids : tcpFlows'[i] = IF i = arg[t] THEN None ELSE tcpFlows[i]
           /\ \A i \in Ids : udpFlows'[i] = IF i = arg[t] THEN None ELSE udpFlows[i]
           /\ \A o \in Flows : o \in Taken' <=> o \in Taken \/ (o \in InTables /\ FlowId[o] = arg[t])
           /\ \A o \in Flows : o \in InTables' <=> o \in InTables /\ FlowId[o] # arg[t]
           /\ Taken' \subseteq Flows /\ arg[t] \in Ids
<1> DEFINE found == {tcpFlows[arg[t]], udpFlows[arg[t]]} \ {None}
           to == IF found = {} THEN Back(t) ELSE "close"
<1>0. /\ Goto(t, "cf", to) /\ taken' = [taken EXCEPT ![t] = found]
      /\ tcpFlows' = [tcpFlows EXCEPT ![arg[t]] = None]
      /\ udpFlows' = [udpFlows EXCEPT ![arg[t]] = None]
      /\ arg' = [arg EXCEPT ![t] = None]
  BY Zenon DEF cfDelete
<1>1. pc[t] = "cf" /\ t \in Threads /\ Types /\ Roles /\ Table /\ Carried
  BY <1>0, ThreadFacts, Zenon DEF Goto, IInv
<1>2. arg[t] \in Ids /\ taken[t] = {} /\ t # "accept"
  <2>1. t # "accept"
    BY <1>1, Zenon DEF Roles, AcceptLabels, Closers, Body
  <2> QED BY <1>1, <2>1, Zenon DEF Carried
<1>3. found \subseteq Flows /\ found \subseteq InTables /\ \A o \in found : FlowId[o] = arg[t]
  <2>1. \A o \in found : o # None /\ (o = tcpFlows[arg[t]] \/ o = udpFlows[arg[t]])
    BY Zenon
  <2>2. tcpFlows[arg[t]] # None => tcpFlows[arg[t]] \in InTables /\ FlowId[tcpFlows[arg[t]]] = arg[t]
    BY <1>1, <1>2, Tabled, Zenon DEF Table
  <2>3. udpFlows[arg[t]] # None => udpFlows[arg[t]] \in InTables /\ FlowId[udpFlows[arg[t]]] = arg[t]
    BY <1>1, <1>2, Tabled, Zenon DEF Table
  <2>4. \A o \in found : o \in InTables /\ FlowId[o] = arg[t]
    BY <2>1, <2>2, <2>3, Zenon
  <2> QED BY <1>1, <2>4, Tabled, Zenon
<1>4. \A o \in InTables : FlowId[o] = arg[t] => o \in found
  <2> SUFFICES ASSUME NEW o \in InTables, FlowId[o] = arg[t] PROVE o \in found
    BY Zenon
  <2>1. o # None /\ ((\E i \in Ids : tcpFlows[i] = o) \/ (\E i \in Ids : udpFlows[i] = o))
    BY Zenon DEF InTables
  <2>2. o = tcpFlows[arg[t]] \/ o = udpFlows[arg[t]]
    BY <1>1, <2>1, Zenon DEF Table
  <2> QED BY <2>1, <2>2, Zenon
<1>5. to \in {"read", "done", "close"} /\ Fits(t, to) /\ (to = "close" \/ to = Back(t)) /\ (found # {} => to = "close")
  <2>1. Back(t) \in {"read", "done"} /\ (t = "control" => Back(t) = "read") /\ (t # "control" => Back(t) = "done")
    BY Zenon DEF Back
  <2>2. Fits(t, Back(t)) /\ Fits(t, "close")
    BY <1>1, <1>2, <2>1, ThreadFacts, Fitting, Zenon
  <2> QED BY <2>1, <2>2, Zenon
<1>6. /\ taken' \in [Counted -> SUBSET Flows] /\ arg' \in [Counted -> Ids \cup {None}]
      /\ \A u \in Counted : u # t => taken'[u] = taken[u] /\ arg'[u] = arg[u]
      /\ taken'[t] = found
  BY <1>0, <1>1, <1>3, Zenon DEF Types
<1>7. /\ tcpFlows' \in [Ids -> TCPFlows \cup {None}] /\ udpFlows' \in [Ids -> UDPFlows \cup {None}]
      /\ \A i \in Ids : tcpFlows'[i] = IF i = arg[t] THEN None ELSE tcpFlows[i]
      /\ \A i \in Ids : udpFlows'[i] = IF i = arg[t] THEN None ELSE udpFlows[i]
  BY <1>0, <1>1, <1>2, Zenon DEF Types
<1>8. \A o \in Flows : o \in Taken' <=> o \in Taken \/ (o \in InTables /\ FlowId[o] = arg[t])
  <2>1. \A o : o \in Taken' <=> \E u \in Counted : o \in taken'[u]
    BY Zenon DEF Taken
  <2>2. \A o : o \in Taken <=> \E u \in Counted : o \in taken[u]
    BY Zenon DEF Taken
  <2> QED BY <1>2, <1>3, <1>4, <1>6, <2>1, <2>2, Zenon
<1>9. \A o \in Flows : o \in InTables' <=> o \in InTables /\ FlowId[o] # arg[t]
  <2>1. \A o : o \in InTables' <=> o # None /\ ((\E i \in Ids : tcpFlows'[i] = o) \/ (\E i \in Ids : udpFlows'[i] = o))
    BY Zenon DEF InTables
  <2>2. \A o : o \in InTables <=> o # None /\ ((\E i \in Ids : tcpFlows[i] = o) \/ (\E i \in Ids : udpFlows[i] = o))
    BY Zenon DEF InTables
  <2>3. ASSUME NEW o \in Flows, o \in InTables'
        PROVE  o \in InTables /\ FlowId[o] # arg[t]
    <3>1. o # None /\ \E i \in Ids : i # arg[t] /\ (tcpFlows[i] = o \/ udpFlows[i] = o)
      BY <1>7, <2>1, <2>3, Zenon
    <3> QED BY <1>1, <2>2, <3>1, Zenon DEF Table
  <2>4. ASSUME NEW o \in Flows, o \in InTables, FlowId[o] # arg[t]
        PROVE  o \in InTables'
    <3>1. o # None /\ \E i \in Ids : i # arg[t] /\ (tcpFlows[i] = o \/ udpFlows[i] = o)
      BY <1>1, <2>2, <2>4, Zenon DEF Table
    <3> QED BY <1>7, <2>1, <3>1, Zenon
  <2> QED BY <2>3, <2>4, Zenon
<1>10. Taken' \subseteq Flows
  <2>1. \A o : o \in Taken' <=> \E u \in Counted : o \in taken'[u]
    BY Zenon DEF Taken
  <2> QED BY <1>6, <2>1, Zenon
<1>11. Moved(t, "cf", to) /\ pc' \in [Threads -> Labels] /\ Roles'
  <2> HIDE DEF to
  <2> QED BY <1>0, <1>1, <1>5, Going, Zenon
<1> HIDE DEF to, found
<1> QED BY <1>2, <1>5, <1>6, <1>7, <1>8, <1>9, <1>10, <1>11, Zenon

\* Flows S are closed by the one that has taken them, with their streams.
Shut(S) ==
  /\ S \subseteq Taken \cup closing /\ S \subseteq Flows
  /\ \A o \in Flows : o \in Taken' \cup closing' => o \in Taken \cup closing
  /\ \A o \in Flows \ S : o \in Taken \cup closing => o \in Taken' \cup closing'
  /\ \A o \in S : target'[o] = "closed"
  /\ \A o \in Flows \ S : target'[o] = target[o]
  /\ \A s \in Streams : sending'[s] = "open" => sending[s] = "open" /\ \A o \in S \cap TCPFlows : stream[o] # s
  /\ target' \in [Flows -> {"none", "open", "closed"}] /\ sending' \in [Streams -> {"none", "open", "closed"}]
  /\ taken' \in [Counted -> SUBSET Flows] /\ closing' \in SUBSET Flows /\ Taken' \cup closing' \subseteq Flows
  /\ UNCHANGED <<tcpFlows, udpFlows, stream, served, late, cancelled, connOpen, once, cur, arg>>
  /\ InTables' = InTables

LEMMA CloseAllFacts ==
  ASSUME Types, NEW S, CloseAll(S)
  PROVE  /\ target' \in [Flows -> {"none", "open", "closed"}] /\ sending' \in [Streams -> {"none", "open", "closed"}]
         /\ \A o \in Flows : o \in S => target'[o] = "closed"
         /\ \A o \in Flows \ S : target'[o] = target[o]
         /\ \A s \in Streams : sending'[s] = "open" => sending[s] = "open" /\ \A o \in S \cap TCPFlows : stream[o] # s
<1> DEFINE shut == {stream[o] : o \in S \cap TCPFlows}
<1>1. /\ target' = [o \in Flows |-> IF o \in S THEN "closed" ELSE target[o]]
      /\ sending' = [s \in Streams |-> IF s \in shut THEN "closed" ELSE sending[s]]
  BY Zenon DEF CloseAll
<1>2. \A o \in S \cap TCPFlows : stream[o] \in shut
  BY Zenon
<1> HIDE DEF shut
<1>3. \A o \in Flows : target'[o] = IF o \in S THEN "closed" ELSE target[o]
  BY <1>1, Zenon
<1>4. \A s \in Streams : sending'[s] = IF s \in shut THEN "closed" ELSE sending[s]
  BY <1>1, Zenon
<1>5. target' \in [Flows -> {"none", "open", "closed"}]
  BY <1>1, <1>3, Zenon DEF Types
<1>6. sending' \in [Streams -> {"none", "open", "closed"}]
  BY <1>1, <1>4, Zenon DEF Types
<1>7. \A s \in Streams : sending'[s] = "open" => s \notin shut /\ sending[s] = "open"
  BY <1>4, Zenon
<1>8. \A s \in Streams : sending'[s] = "open" => sending[s] = "open" /\ \A o \in S \cap TCPFlows : stream[o] # s
  BY <1>2, <1>7, Zenon
<1> QED BY <1>3, <1>5, <1>6, <1>8, Zenon

\* closeFlow closes what it has taken out.
LEMMA ShutFacts ==
  ASSUME IInv, NEW t \in Counted, cfClose(t)
  PROVE  /\ Shut(taken[t]) /\ UNCHANGED <<closing, server>>
         /\ Moved(t, "close", Back(t)) /\ pc' \in [Threads -> Labels] /\ Roles'
         /\ \A u \in Counted : u # t => taken'[u] = taken[u]
         /\ taken'[t] = {} /\ Back(t) \in {"read", "done"}
<1>0. /\ Goto(t, "close", Back(t)) /\ CloseAll(taken[t]) /\ taken' = [taken EXCEPT ![t] = {}]
      /\ UNCHANGED <<tcpFlows, udpFlows, stream, served, late, conn, life, cur, arg, server>>
  BY Zenon DEF cfClose
<1>1. Types /\ Roles /\ t \in Threads /\ pc[t] = "close"
  BY <1>0, ThreadFacts, Zenon DEF IInv, Goto
<1>2. Back(t) \in {"read", "done"} /\ Fits(t, Back(t))
  <2>1. Back(t) \in {"read", "done"} /\ (t = "control" => Back(t) = "read") /\ (t # "control" => Back(t) = "done")
    BY Zenon DEF Back
  <2> QED BY <1>1, <2>1, Fitting, Zenon
<1>3. /\ taken' \in [Counted -> SUBSET Flows] /\ taken'[t] = {} /\ \A u \in Counted : u # t => taken'[u] = taken[u]
  BY <1>0, <1>1, Zenon DEF Types
<1>4. taken[t] \subseteq Flows /\ closing \subseteq Flows
  BY <1>1, Zenon DEF Types
<1>5. \A o : o \in Taken' <=> \E u \in Counted : o \in taken'[u]
  BY Zenon DEF Taken
<1>6. \A o : o \in Taken <=> \E u \in Counted : o \in taken[u]
  BY Zenon DEF Taken
<1>7. Taken' \subseteq Flows
  BY <1>3, <1>5, Zenon
<1>8. UNCHANGED <<cancelled, connOpen, once, closing>> /\ InTables' = InTables
  BY <1>0, Zenon DEF conn, life, InTables
<1>9. /\ \A o \in Flows : o \in Taken' => o \in Taken
      /\ \A o \in Flows \ taken[t] : o \in Taken => o \in Taken'
      /\ taken[t] \subseteq Taken
  BY <1>3, <1>5, <1>6, Zenon
<1>10. Shut(taken[t])
  <2> DEFINE S == taken[t]
  <2>1. /\ target' \in [Flows -> {"none", "open", "closed"}] /\ sending' \in [Streams -> {"none", "open", "closed"}]
        /\ \A o \in Flows : o \in S => target'[o] = "closed"
        /\ \A o \in Flows \ S : target'[o] = target[o]
        /\ \A s \in Streams : sending'[s] = "open" => sending[s] = "open" /\ \A o \in S \cap TCPFlows : stream[o] # s
    BY <1>0, <1>1, CloseAllFacts, Zenon
  <2>2. /\ S \subseteq Taken \cup closing /\ S \subseteq Flows
        /\ \A o \in Flows : o \in Taken' \cup closing' => o \in Taken \cup closing
        /\ \A o \in Flows \ S : o \in Taken \cup closing => o \in Taken' \cup closing'
        /\ Taken' \cup closing' \subseteq Flows /\ closing' \in SUBSET Flows
    BY <1>4, <1>7, <1>8, <1>9, Zenon
  <2>3. \A o \in S : target'[o] = "closed"
    BY <2>1, <2>2, Zenon
  <2> HIDE DEF S
  <2> QED BY <1>0, <1>3, <1>8, <2>1, <2>2, <2>3, Zenon DEF Shut, S
<1> QED BY <1>0, <1>1, <1>2, <1>3, <1>8, <1>10, Going, Zenon

\* Close closes one of the flows of its snapshot.
LEMMA CloseOneFacts ==
  ASSUME IInv, NEW t \in Threads, CloseOne(t)
  PROVE  /\ \E o \in closing : Shut({o}) /\ closing' = closing \ {o}
         /\ UNCHANGED <<pc, taken, server>> /\ pc[t] = "flows"
<1>1. PICK o \in closing : CloseAll({o}) /\ closing' = closing \ {o}
  BY Zenon DEF CloseOne
<1>2. UNCHANGED <<tcpFlows, udpFlows, stream, served, late, cancelled, connOpen, once, cur, arg, taken, pc, server>>
  BY Zenon DEF CloseOne, conn, calls
<1>3. InTables' = InTables /\ Taken' = Taken
  BY <1>2, Zenon DEF InTables, Taken
<1>4. Types /\ closing \subseteq Flows /\ taken \in [Counted -> SUBSET Flows]
  BY Zenon DEF IInv, Types
<1>5. Taken \subseteq Flows
  BY <1>4, Zenon DEF Taken
<1>6. Shut({o})
  <2> DEFINE S == {o}
  <2>1. /\ target' \in [Flows -> {"none", "open", "closed"}] /\ sending' \in [Streams -> {"none", "open", "closed"}]
        /\ \A x \in Flows : x \in S => target'[x] = "closed"
        /\ \A x \in Flows \ S : target'[x] = target[x]
        /\ \A s \in Streams : sending'[s] = "open" => sending[s] = "open" /\ \A x \in S \cap TCPFlows : stream[x] # s
    BY <1>1, <1>4, CloseAllFacts, Zenon
  <2>2. /\ S \subseteq Taken \cup closing /\ S \subseteq Flows
        /\ \A x \in Flows : x \in Taken' \cup closing' => x \in Taken \cup closing
        /\ \A x \in Flows \ S : x \in Taken \cup closing => x \in Taken' \cup closing'
        /\ Taken' \cup closing' \subseteq Flows /\ closing' \in SUBSET Flows
    BY <1>1, <1>3, <1>4, <1>5, Zenon
  <2>3. \A x \in S : target'[x] = "closed"
    BY <2>1, <2>2, Zenon
  <2>4. taken' \in [Counted -> SUBSET Flows]
    BY <1>2, <1>4, Zenon
  <2> HIDE DEF S
  <2> QED BY <1>2, <1>3, <2>1, <2>2, <2>3, <2>4, Zenon DEF Shut, S
<1> QED BY <1>1, <1>2, <1>6, Zenon DEF CloseOne

\* Close empties both tables.
LEMMA SnapshotFacts ==
  ASSUME IInv, NEW t \in Threads, Snapshot(t)
  PROVE  /\ Moved(t, "snapshot", "flows") /\ pc' \in [Threads -> Labels] /\ Roles'
         /\ closing = {} /\ closing' = InTables /\ InTables \subseteq Flows /\ InTables' = {} /\ Taken' = Taken
         /\ tcpFlows' \in [Ids -> TCPFlows \cup {None}] /\ udpFlows' \in [Ids -> UDPFlows \cup {None}]
         /\ \A i \in Ids : tcpFlows'[i] = None /\ udpFlows'[i] = None
         /\ UNCHANGED <<target, stream, sending, served, late, conn, once, calls, server>>
<1>0. /\ Goto(t, "snapshot", "flows") /\ closing' = InTables
      /\ tcpFlows' = [i \in Ids |-> None] /\ udpFlows' = [i \in Ids |-> None]
      /\ UNCHANGED <<target, stream, sending, served, late, conn, once, calls, server>>
  BY Zenon DEF Snapshot
<1>1. Types /\ Roles /\ OneClose /\ pc[t] = "snapshot"
  BY <1>0, Zenon DEF IInv, Goto
<1>2. closing = {}
  <2>1. ASSUME NEW u \in Threads, pc[u] = "flows" PROVE FALSE
    <3>1. u = t
      BY <1>1, <2>1, Zenon DEF OneClose, Body
    <3> QED BY <1>1, <2>1, <3>1, Zenon
  <2> QED BY <1>1, <2>1, Zenon DEF OneClose
<1>3. /\ tcpFlows' \in [Ids -> TCPFlows \cup {None}] /\ udpFlows' \in [Ids -> UDPFlows \cup {None}]
      /\ \A i \in Ids : tcpFlows'[i] = None /\ udpFlows'[i] = None
  BY <1>0, Zenon
<1>4. InTables' = {}
  <2>1. \A o : o \in InTables' <=> o # None /\ ((\E i \in Ids : tcpFlows'[i] = o) \/ (\E i \in Ids : udpFlows'[i] = o))
    BY Zenon DEF InTables
  <2> QED BY <1>3, <2>1, Zenon
<1>5. Taken' = Taken
  BY <1>0, Zenon DEF Taken, calls
<1> QED BY <1>0, <1>1, <1>2, <1>3, <1>4, <1>5, Tabled, Going, Fitting, Zenon

\* A flow enters its table under a number that is free.
LEMMA EnteredFacts ==
  ASSUME IInv, Entered
  PROVE  /\ Moved("control", "insert", "ok") /\ pc' \in [Threads -> Labels] /\ Roles' /\ cur \in Flows
         /\ tcpFlows' \in [Ids -> TCPFlows \cup {None}] /\ udpFlows' \in [Ids -> UDPFlows \cup {None}]
         /\ \A o \in Flows : o \in InTables' <=> o \in InTables \/ o = cur
         /\ InTables' \subseteq Flows /\ Table' /\ Taken' = Taken
<1>0. Goto("control", "insert", "ok") /\ cur \in Flows /\ Holder(cur) = None /\ Enter(cur) /\ UNCHANGED calls
  BY Zenon DEF Entered
<1>1. Types /\ Roles /\ Table /\ "control" \in Threads
  BY ThreadFacts, Zenon DEF IInv
<1>2. FlowId[cur] \in Ids /\ cur # None /\ (cur \in TCPFlows \/ cur \in UDPFlows)
  BY <1>0, FlowFacts, Zenon
<1>3. /\ tcpFlows' \in [Ids -> TCPFlows \cup {None}] /\ udpFlows' \in [Ids -> UDPFlows \cup {None}]
      /\ \A i \in Ids : \/ tcpFlows'[i] = tcpFlows[i]
                        \/ cur \in TCPFlows /\ i = FlowId[cur] /\ tcpFlows'[i] = cur /\ tcpFlows[i] = None
      /\ \A i \in Ids : \/ udpFlows'[i] = udpFlows[i]
                        \/ cur \in UDPFlows /\ i = FlowId[cur] /\ udpFlows'[i] = cur /\ udpFlows[i] = None
      /\ tcpFlows'[FlowId[cur]] = cur \/ udpFlows'[FlowId[cur]] = cur
  <2>1. CASE cur \in TCPFlows
    <3>1. cur \notin UDPFlows /\ tcpFlows[FlowId[cur]] = None
      BY <1>0, <2>1, FlowFacts, Zenon DEF Holder
    <3>2. tcpFlows' = [tcpFlows EXCEPT ![FlowId[cur]] = cur] /\ udpFlows' = udpFlows
      BY <1>0, <2>1, <3>1, Zenon DEF Enter
    <3> QED BY <1>1, <1>2, <2>1, <3>1, <3>2, Zenon DEF Types
  <2>2. CASE cur \in UDPFlows
    <3>1. cur \notin TCPFlows /\ udpFlows[FlowId[cur]] = None
      BY <1>0, <2>2, FlowFacts, Zenon DEF Holder
    <3>2. udpFlows' = [udpFlows EXCEPT ![FlowId[cur]] = cur] /\ tcpFlows' = tcpFlows
      BY <1>0, <2>2, <3>1, Zenon DEF Enter
    <3> QED BY <1>1, <1>2, <2>2, <3>1, <3>2, Zenon DEF Types
  <2> QED BY <1>2, <2>1, <2>2, Zenon
<1>4. \A o \in Flows : o \in InTables' <=> o \in InTables \/ o = cur
  <2>1. \A o : o \in InTables' <=> o # None /\ ((\E i \in Ids : tcpFlows'[i] = o) \/ (\E i \in Ids : udpFlows'[i] = o))
    BY Zenon DEF InTables
  <2>2. \A o : o \in InTables <=> o # None /\ ((\E i \in Ids : tcpFlows[i] = o) \/ (\E i \in Ids : udpFlows[i] = o))
    BY Zenon DEF InTables
  <2>3. cur \in InTables'
    BY <1>2, <1>3, <2>1, Zenon
  <2>4. ASSUME NEW o \in InTables PROVE o \in InTables'
    <3>1. o # None /\ \E i \in Ids : tcpFlows[i] = o \/ udpFlows[i] = o
      BY <2>2, <2>4, Zenon
    <3>2. PICK i \in Ids : tcpFlows[i] = o \/ udpFlows[i] = o
      BY <3>1, Zenon
    <3>3. /\ tcpFlows'[i] = tcpFlows[i] \/ tcpFlows[i] = None
          /\ udpFlows'[i] = udpFlows[i] \/ udpFlows[i] = None
      BY <1>3, Zenon
    <3>4. tcpFlows'[i] = o \/ udpFlows'[i] = o
      BY <3>1, <3>2, <3>3, Zenon
    <3> QED BY <2>1, <3>1, <3>4, Zenon
  <2>5. ASSUME NEW o \in InTables', o # cur PROVE o \in InTables
    <3>1. o # None /\ \E i \in Ids : tcpFlows'[i] = o \/ udpFlows'[i] = o
      BY <2>1, <2>5, Zenon
    <3>2. PICK i \in Ids : tcpFlows'[i] = o \/ udpFlows'[i] = o
      BY <3>1, Zenon
    <3>3. tcpFlows[i] = o \/ udpFlows[i] = o
      BY <1>3, <2>5, <3>2, Zenon
    <3> QED BY <2>2, <3>1, <3>3, Zenon
  <2> QED BY <2>3, <2>4, <2>5, Zenon
<1>5. InTables' \subseteq Flows
  <2>1. \A o : o \in InTables' <=> o # None /\ ((\E i \in Ids : tcpFlows'[i] = o) \/ (\E i \in Ids : udpFlows'[i] = o))
    BY Zenon DEF InTables
  <2>2. \A i \in Ids : tcpFlows'[i] \in TCPFlows \cup {None} /\ udpFlows'[i] \in UDPFlows \cup {None}
    BY <1>3, Zenon
  <2>3. ASSUME NEW o \in InTables' PROVE o \in Flows
    <3>1. o # None /\ \E i \in Ids : tcpFlows'[i] = o \/ udpFlows'[i] = o
      BY <2>1, <2>3, Zenon
    <3>2. PICK i \in Ids : tcpFlows'[i] = o \/ udpFlows'[i] = o
      BY <3>1, Zenon
    <3>3. tcpFlows'[i] \in TCPFlows \/ tcpFlows'[i] = None
      BY <2>2, Zenon
    <3>4. udpFlows'[i] \in UDPFlows \/ udpFlows'[i] = None
      BY <2>2, Zenon
    <3>5. o \in TCPFlows \/ o \in UDPFlows
      BY <3>1, <3>2, <3>3, <3>4
    <3> QED BY <3>5, FlowFacts, Zenon
  <2> QED BY <2>3, Zenon
<1>6. Table'
  BY <1>1, <1>3, Zenon DEF Table
<1>7. Taken' = Taken
  BY <1>0, Zenon DEF Taken, calls
<1> QED BY <1>0, <1>1, <1>3, <1>4, <1>5, <1>6, <1>7, Going, Fitting, Zenon

\* The dial, and the close of a flow whose number is taken.
LEMMA TargetFacts ==
  ASSUME IInv, Dialled \/ NumberTaken
  PROVE  /\ target' \in [Flows -> {"none", "open", "closed"}] /\ cur \in Flows
         /\ \A o \in Flows : o # cur => target'[o] = target[o]
         /\ Dialled => target'[cur] = "open" /\ Moved("control", "dial", "insert")
         /\ NumberTaken => target'[cur] = "closed" /\ Moved("control", "insert", "read")
         /\ pc' \in [Threads -> Labels] /\ Roles'
         /\ InTables' = InTables /\ Taken' = Taken
         /\ UNCHANGED <<tcpFlows, udpFlows, stream, sending, served, late, conn, life, calls, server>>
<1>1. Types /\ Roles /\ "control" \in Threads
  BY ThreadFacts, Zenon DEF IInv
<1>2. UNCHANGED <<tcpFlows, udpFlows, stream, sending, served, late, conn, life, calls, server>> /\ cur \in Flows
  BY Zenon DEF Dialled, NumberTaken
<1>3. InTables' = InTables /\ Taken' = Taken
  BY <1>2, Zenon DEF InTables, Taken, calls
<1>4. Dialled => target'[cur] = "open" /\ Moved("control", "dial", "insert")
  BY <1>1, Going, Fitting, Zenon DEF Dialled, Types
<1>5. NumberTaken => target'[cur] = "closed" /\ Moved("control", "insert", "read")
  BY <1>1, Going, Fitting, Zenon DEF NumberTaken, Types
<1>6. pc' \in [Threads -> Labels] /\ Roles'
  BY <1>1, Going, Fitting, Zenon DEF Dialled, NumberTaken
<1>7. target' \in [Flows -> {"none", "open", "closed"}] /\ \A o \in Flows : o # cur => target'[o] = target[o]
  BY <1>1, Zenon DEF Dialled, NumberTaken, Types
<1> QED BY <1>2, <1>3, <1>4, <1>5, <1>6, <1>7, Zenon

\* An OPEN frame.
LEMMA OpenFacts ==
  ASSUME IInv, NEW o \in Flows, frameOpen(o)
  PROVE  /\ Moved("control", "read", "dial") /\ pc' \in [Threads -> Labels] /\ Roles'
         /\ cur' = o /\ target[o] = "none"
         /\ UNCHANGED <<flow, cancelled, connOpen, life, arg, taken, server>>
<1>1. Types /\ Roles /\ "control" \in Threads
  BY ThreadFacts, Zenon DEF IInv
<1>2. Goto("control", "read", "dial") /\ cur' = o /\ target[o] = "none"
      /\ UNCHANGED <<flow, cancelled, connOpen, life, arg, taken, server>>
  BY Zenon DEF frameOpen, Frame
<1> QED BY <1>1, <1>2, Going, Fitting, Zenon

\* The OK frame is written: controlLoop reads on, and a UDP flow's loop starts.
LEMMA AnsweredFacts ==
  ASSUME IInv, openAnswered, cur \in Flows
  PROVE  /\ pc["control"] = "ok" /\ pc'["control"] = "read" /\ connOpen
         /\ cur \in UDPFlows => pc[cur] = "new" /\ pc'[cur] = "read"
         /\ \A t \in Threads : t # "control" /\ (t # cur \/ t \notin UDPFlows) => pc'[t] = pc[t]
         /\ \A t \in Threads : pc'[t] = pc[t] \/ (pc'[t] = "read" /\ t \in Counted /\ pc[t] \in {"ok", "new"} /\ t \notin Streams)
         /\ pc' \in [Threads -> Labels] /\ Roles'
         /\ UNCHANGED <<flow, conn, life, calls, server>>
<1>1. Types /\ Roles /\ Dialling
  BY Zenon DEF IInv
<1>2. pc["control"] = "ok" /\ connOpen /\ UNCHANGED <<flow, conn, life, calls, server>>
      /\ pc' = [t \in Threads |-> IF t = "control" \/ (t = cur /\ t \in UDPFlows) THEN "read" ELSE pc[t]]
  BY Zenon DEF openAnswered
<1>3. cur \in UDPFlows => pc[cur] = "new"
  BY <1>1, <1>2, Zenon DEF Dialling
<1>4. \A t \in Threads : pc'[t] = IF t = "control" \/ (t = cur /\ t \in UDPFlows) THEN "read" ELSE pc[t]
  BY <1>2, Zenon
<1>5. \A t \in Threads : pc'[t] = pc[t] \/ (pc'[t] = "read" /\ t \in Counted /\ pc[t] \in {"ok", "new"} /\ t \notin Streams)
  BY <1>2, <1>3, <1>4, ThreadFacts, Zenon
<1>6. pc' \in [Threads -> Labels]
  <2>1. \A t \in Threads : pc'[t] \in Labels
    BY <1>1, <1>5, ZenonT(30) DEF Types, Labels
  <2> QED BY <1>2, <2>1, Zenon
<1>7. "control" \in Threads /\ \A u \in UDPFlows : u \in Threads /\ u # "control" 
  BY ThreadFacts, Zenon
<1>8. /\ pc'["control"] = "read" /\ (cur \in UDPFlows => pc'[cur] = "read")
      /\ \A t \in Threads : t # "control" /\ (t # cur \/ t \notin UDPFlows) => pc'[t] = pc[t]
  BY <1>4, <1>7, Zenon
<1>9. Roles'
  <2>1. pc'["run"] = pc["run"] /\ pc'["outside"] = pc["outside"] /\ pc'["accept"] = pc["accept"]
        /\ \A s \in Streams : pc'[s] = pc[s]
    BY <1>8, ThreadFacts, Zenon
  <2>2. \A u \in UDPFlows : pc'[u] = pc[u] \/ pc'[u] = "read"
    BY <1>5, <1>7, Zenon
  <2>3. "read" \in ControlLabels /\ "read" \in LoopLabels
    BY Zenon DEF ControlLabels, LoopLabels
  <2> QED BY <1>1, <1>8, <2>1, <2>2, <2>3, Zenon DEF Roles
<1> QED BY <1>2, <1>3, <1>5, <1>6, <1>8, <1>9, Zenon

\* Run starts its loops.
LEMMA StartFacts ==
  ASSUME IInv, start
  PROVE  /\ pc["run"] = "start" /\ pc'["run"] = "wait" /\ pc'["control"] = "read" /\ pc'["accept"] = "read"
         /\ \A t \in Counted : pc[t] \in {"new", "done"}
         /\ \A t \in Threads : t \notin {"run", "control", "accept"} => pc'[t] = pc[t]
         /\ pc' \in [Threads -> Labels] /\ Roles'
         /\ UNCHANGED <<flow, conn, life, calls, server>>
<1>1. Types /\ Roles /\ Quiet
  BY Zenon DEF IInv
<1>2. /\ pc["run"] = "start" /\ UNCHANGED <<flow, conn, life, calls, server>>
      /\ pc' = [pc EXCEPT !["run"] = "wait", !["control"] = "read", !["accept"] = "read"]
  BY Zenon DEF start
<1>3. {"run", "control", "accept"} \subseteq Threads /\ {"wait", "read"} \subseteq Labels
  BY ThreadFacts, Zenon DEF Labels
<1>4. /\ pc'["run"] = "wait" /\ pc'["control"] = "read" /\ pc'["accept"] = "read"
      /\ \A t \in Threads : t \notin {"run", "control", "accept"} => pc'[t] = pc[t]
      /\ pc' \in [Threads -> Labels]
  BY <1>1, <1>2, <1>3 DEF Types
<1>5. Roles'
  <2>1. pc'["outside"] = pc["outside"] /\ \A t \in Streams \cup UDPFlows : pc'[t] = pc[t]
    BY <1>4, ThreadFacts, Zenon
  <2>2. "read" \in ControlLabels /\ "read" \in AcceptLabels /\ "wait" \in RunLabels
    BY Zenon DEF ControlLabels, AcceptLabels, RunLabels
  <2> QED BY <1>1, <1>4, <2>1, <2>2, Zenon DEF Roles
<1>6. \A t \in Counted : pc[t] \in {"new", "done"}
  BY <1>1, <1>2, Zenon DEF Quiet
<1> QED BY <1>2, <1>4, <1>5, <1>6, Zenon

\* A stream arrives.
LEMMA AcceptFacts ==
  ASSUME IInv, acceptStream
  PROVE  \E s \in Streams :
           /\ Moved(s, "new", "head") /\ pc' \in [Threads -> Labels] /\ Roles'
           /\ pc["accept"] = "read"
           /\ sending' \in [Streams -> {"none", "open", "closed"}]
           /\ \A r \in Streams : r # s => sending'[r] = sending[r]
           /\ UNCHANGED <<tcpFlows, udpFlows, target, stream, served, late, conn, life, calls, server>>
<1>1. PICK s \in Streams : /\ pc[s] = "new" /\ pc' = [pc EXCEPT ![s] = "head"]
                           /\ sending' = [sending EXCEPT ![s] = "open"]
  BY Zenon DEF acceptStream
<1>2. pc["accept"] = "read" /\ UNCHANGED <<tcpFlows, udpFlows, target, stream, served, late, conn, life, calls, server>>
  BY Zenon DEF acceptStream
<1>3. Types /\ Roles /\ s \in Threads
  BY ThreadFacts, Zenon DEF IInv
<1>4. Goto(s, "new", "head")
  BY <1>1, Zenon DEF Goto
<1>5. sending' \in [Streams -> {"none", "open", "closed"}] /\ \A r \in Streams : r # s => sending'[r] = sending[r]
  BY <1>1, <1>3, Zenon DEF Types
<1> QED BY <1>2, <1>3, <1>4, <1>5, Going, Fitting, Zenon

\* A stream is refused and closed.
LEMMA RefuseFacts ==
  ASSUME IInv, NEW s \in Streams, NEW from, Refuse(s, from)
  PROVE  /\ Moved(s, from, "done") /\ pc' \in [Threads -> Labels] /\ Roles'
         /\ sending' \in [Streams -> {"none", "open", "closed"}] /\ sending'[s] = "closed"
         /\ \A r \in Streams : r # s => sending'[r] = sending[r]
         /\ UNCHANGED <<tcpFlows, udpFlows, target, stream, served, late, conn, life, calls, server>>
<1>1. Types /\ Roles /\ s \in Threads
  BY ThreadFacts, Zenon DEF IInv
<1>2. Goto(s, from, "done") /\ sending' = [sending EXCEPT ![s] = "closed"]
      /\ UNCHANGED <<tcpFlows, udpFlows, target, stream, served, late, conn, life, calls, server>>
  BY Zenon DEF Refuse
<1>3. /\ sending' \in [Streams -> {"none", "open", "closed"}] /\ sending'[s] = "closed"
      /\ \A r \in Streams : r # s => sending'[r] = sending[r]
  BY <1>1, <1>2, Zenon DEF Types
<1> QED BY <1>1, <1>2, <1>3, Going, Fitting, Zenon

\* A stream's handler finds its flow.
LEMMA LookupFacts ==
  ASSUME IInv, NEW s \in Streams, NEW i \in Ids, streamFlow(s, i)
  PROVE  /\ Moved(s, "head", "attach") /\ pc' \in [Threads -> Labels] /\ Roles'
         /\ served' \in [Streams -> TCPFlows \cup {None}] /\ served'[s] \in TCPFlows /\ served'[s] \in InTables
         /\ \A r \in Streams : r # s => served'[r] = served[r]
         /\ connOpen
         /\ UNCHANGED <<tcpFlows, udpFlows, target, stream, sending, late, conn, life, calls, server>>
<1>1. Types /\ Roles /\ s \in Threads
  BY ThreadFacts, Zenon DEF IInv
<1>2. Goto(s, "head", "attach") /\ served' = [served EXCEPT ![s] = tcpFlows[i]] /\ tcpFlows[i] # None /\ connOpen
      /\ UNCHANGED <<tcpFlows, udpFlows, target, stream, sending, late, conn, life, calls, server>>
  BY Zenon DEF streamFlow
<1>3. tcpFlows[i] \in TCPFlows /\ tcpFlows[i] \in InTables
  BY <1>1, <1>2, Tabled, Zenon
<1>4. /\ served' \in [Streams -> TCPFlows \cup {None}] /\ served'[s] = tcpFlows[i]
      /\ \A r \in Streams : r # s => served'[r] = served[r]
  BY <1>1, <1>2, <1>3, Zenon DEF Types
<1> QED BY <1>1, <1>2, <1>3, <1>4, Going, Fitting, Zenon

\* A stream becomes its flow's.
LEMMA AttachFacts ==
  ASSUME IInv, NEW s \in Streams, attach(s)
  PROVE  /\ Moved(s, "attach", "pump") /\ pc' \in [Threads -> Labels] /\ Roles'
         /\ served[s] \in TCPFlows /\ stream[served[s]] = None /\ stream'[served[s]] = s
         /\ stream' \in [TCPFlows -> Streams \cup {None}]
         /\ \A o \in TCPFlows : o # served[s] => stream'[o] = stream[o]
         /\ late' \in SUBSET Streams /\ late \subseteq late'
         /\ target[served[s]] = "closed" => s \in late'
         /\ UNCHANGED <<tcpFlows, udpFlows, target, sending, served, conn, life, calls, server>>
<1>1. Types /\ Roles /\ s \in Threads /\ Carried
  BY ThreadFacts, Zenon DEF IInv
<1>2. Goto(s, "attach", "pump") /\ stream[served[s]] = None /\ stream' = [stream EXCEPT ![served[s]] = s]
      /\ UNCHANGED <<tcpFlows, udpFlows, target, sending, served, conn, life, calls, server>>
  BY Zenon DEF attach
<1>3. served[s] \in TCPFlows
  BY <1>1, <1>2, Zenon DEF Carried, Goto
<1>4. /\ stream' \in [TCPFlows -> Streams \cup {None}] /\ stream'[served[s]] = s
      /\ \A o \in TCPFlows : o # served[s] => stream'[o] = stream[o]
  BY <1>1, <1>2, <1>3, Zenon DEF Types
<1>5. late' \in SUBSET Streams /\ late \subseteq late' /\ (target[served[s]] = "closed" => s \in late')
  <2>1. late \subseteq Streams
    BY <1>1, Zenon DEF Types
  <2>2. late' = IF target[served[s]] = "closed" THEN late \cup {s} ELSE late
    BY Zenon DEF attach
  <2> QED BY <2>1, <2>2
<1> QED BY <1>1, <1>2, <1>3, <1>4, <1>5, Going, Fitting, Zenon

\* The other steps of Close's body.
LEMMA BodyFacts ==
  ASSUME IInv, NEW t \in Threads, EnterBody(t) \/ CloseConn(t) \/ CloseReturn(t)
  PROVE  /\ pc' \in [Threads -> Labels] /\ Roles' /\ UNCHANGED <<flow, closing, calls, server>>
         /\ InTables' = InTables /\ Taken' = Taken
         /\ EnterBody(t) => Moved(t, "once", "conn") /\ once = "free" /\ once' = "busy" /\ UNCHANGED conn
         /\ CloseConn(t) => Moved(t, "conn", "snapshot") /\ once' = once /\ cancelled' = TRUE /\ connOpen' = FALSE
         /\ CloseReturn(t) => Moved(t, "flows", "done") /\ closing = {} /\ once' = "done" /\ UNCHANGED conn
<1>1. Types /\ Roles
  BY Zenon DEF IInv
<1>2. EnterBody(t) => Moved(t, "once", "conn") /\ once = "free" /\ once' = "busy" /\ UNCHANGED conn
  BY <1>1, Going, Fitting, Zenon DEF EnterBody
<1>3. CloseConn(t) => Moved(t, "conn", "snapshot") /\ once' = once /\ cancelled' = TRUE /\ connOpen' = FALSE
  BY <1>1, Going, Fitting, Zenon DEF CloseConn, life
<1>4. CloseReturn(t) => Moved(t, "flows", "done") /\ closing = {} /\ once' = "done" /\ UNCHANGED conn
  BY <1>1, Going, Fitting, Zenon DEF CloseReturn
<1>5. pc' \in [Threads -> Labels] /\ Roles'
  BY <1>1, Going, Fitting, Zenon DEF EnterBody, CloseConn, CloseReturn
<1>6. UNCHANGED <<flow, closing, calls, server>>
  BY Zenon DEF EnterBody, CloseConn, CloseReturn, life
<1>7. InTables' = InTables /\ Taken' = Taken
  BY <1>6, Zenon DEF InTables, Taken, flow, calls
<1> QED BY <1>2, <1>3, <1>4, <1>5, <1>6, <1>7, Zenon

-----------------------------------------------------------------------------
(* What the server knows, and the types.                                   *)

\* The loops leave Run where it is, and the server's tables alone.
LEMMA LoopsStay ==
  ASSUME IInv, Loops
  PROVE  pc'["run"] = pc["run"] /\ UNCHANGED server
<1>0. pc \in [Threads -> Labels] /\ "run" \in Threads
  BY ThreadFacts, Zenon DEF IInv, Types
<1>1. ASSUME NEW t \in Counted, NEW from, NEW to, Goto(t, from, to) PROVE pc'["run"] = pc["run"]
  <2>1. t # "run" /\ t \in Threads
    BY ThreadFacts, Zenon
  <2> QED BY <1>0, <1>1, <2>1, Zenon DEF Goto
<1>2. "control" \in Counted /\ "accept" \in Counted /\ (\A s \in Streams : s \in Counted) /\ (\A u \in UDPFlows : u \in Counted)
  BY ThreadFacts, Zenon
<1>3. CASE controlLoop
  <2>1. CASE controlEnd
    BY <1>1, <1>2, <2>1, Zenon DEF controlEnd, Move
  <2>2. CASE \E i \in Ids : frameCloseFlow(i)
    BY <1>1, <1>2, <2>2, Zenon DEF frameCloseFlow, Frame, CallCloseFlow
  <2>3. CASE \E o \in Flows : frameOpen(o)
    BY <1>1, <1>2, <2>3, Zenon DEF frameOpen, Frame
  <2>4. CASE openDial
    BY <1>1, <1>2, <2>4, Zenon DEF openDial, Move
  <2>5. CASE openInsert
    BY <1>1, <1>2, <2>5, Zenon DEF openInsert
  <2>6. CASE openAnswerFails
    BY <1>1, <1>2, <2>6, Zenon DEF openAnswerFails, CallCloseFlow
  <2>7. CASE openAnswered
    <3>1. "run" # "control" /\ "run" \notin UDPFlows
      BY ThreadFacts, Zenon
    <3> QED BY <1>0, <2>7, <3>1, Zenon DEF openAnswered
  <2> QED BY <1>3, <2>1, <2>2, <2>3, <2>4, <2>5, <2>6, <2>7, Zenon DEF controlLoop, handleOpenTCP, handleOpenUDP, Opening
<1>4. CASE acceptStream
  <2>1. PICK s \in Streams : pc' = [pc EXCEPT ![s] = "head"]
    BY <1>4, Zenon DEF acceptStream
  <2>2. s # "run" /\ s \in Threads
    BY ThreadFacts, Zenon
  <2> QED BY <1>0, <1>4, <2>1, <2>2, Zenon DEF acceptStream
<1>5. CASE acceptEnd
  <2>1. Goto("accept", "read", IF cancelled THEN "done" ELSE "once") /\ UNCHANGED server
    BY <1>5, Zenon DEF acceptEnd, Move
  <2> QED BY <1>1, <1>2, <2>1, Zenon
<1>6. CASE \E s \in Streams : handleFlowStream(s)
  BY <1>1, <1>2, <1>6, Zenon DEF handleFlowStream, Refuse, streamFlow, attach, attachSecond, pumpTCPFlow, CallCloseFlow
<1>7. CASE \E u \in UDPFlows : udpReadLoop(u)
  BY <1>1, <1>2, <1>7, Zenon DEF udpReadLoop, udpLimit, udpSendFails, udpEnd, Move, CallCloseFlow
<1>8. CASE \E t \in Counted : closeFlow(t)
  <2>1. PICK t \in Counted : closeFlow(t)
    BY <1>8, Zenon
  <2>2. \E to : Goto(t, "cf", to) \/ Goto(t, "close", to)
    BY <2>1, Zenon DEF closeFlow, cfDelete, cfClose
  <2>3. UNCHANGED server
    BY <2>1, Zenon DEF closeFlow, cfDelete, cfClose
  <2> QED BY <1>1, <2>2, <2>3, Zenon
<1> QED BY <1>3, <1>4, <1>5, <1>6, <1>7, <1>8, Zenon DEF Loops

\* A caller of Close leaves the server's tables alone.
LEMMA CloseStays ==
  ASSUME IInv, NEW t \in Threads, Close(t)
  PROVE  /\ UNCHANGED server
         /\ \/ pc'["run"] = pc["run"]
            \/ pc["run"] \in {"once"} \cup Body /\ pc'["run"] \in {"done"} \cup Body
<1>0. pc \in [Threads -> Labels] /\ "run" \in Threads
  BY ThreadFacts, Zenon DEF IInv, Types
<1>1. UNCHANGED server
  BY Zenon DEF Close, OnceDo, CloseConn, Snapshot, CloseOne, CloseReturn, Move
<1>2. pc' = pc \/ \E from \in {"once"} \cup Body : \E to \in {"done"} \cup Body : Goto(t, from, to)
  BY Zenon DEF Close, OnceDo, CloseConn, Snapshot, CloseOne, CloseReturn, Move, Body
<1>3. CASE pc' = pc
  BY <1>1, <1>3, Zenon
<1>4. ASSUME NEW from \in {"once"} \cup Body, NEW to \in {"done"} \cup Body, Goto(t, from, to)
      PROVE  pc'["run"] = pc["run"] \/ (pc["run"] = from /\ pc'["run"] = to)
  BY <1>0, <1>4, Zenon DEF Goto
<1> QED BY <1>1, <1>2, <1>3, <1>4, Zenon

\* Registered is kept, with the types of what it says.
LEMMA RegisteredStep == IInv /\ Next => Registered' /\ registered' \in BOOLEAN /\ timer' \in BOOLEAN
<1> SUFFICES ASSUME IInv, Next PROVE Registered' /\ registered' \in BOOLEAN /\ timer' \in BOOLEAN
  OBVIOUS
<1>0. pc \in [Threads -> Labels] /\ "run" \in Threads /\ Registered /\ registered \in BOOLEAN /\ timer \in BOOLEAN
      /\ pc["run"] \in RunLabels
  BY ThreadFacts, Zenon DEF IInv, Types, Roles
<1>1. ASSUME pc'["run"] = pc["run"], UNCHANGED server
      PROVE  Registered' /\ registered' \in BOOLEAN /\ timer' \in BOOLEAN
  BY <1>0, <1>1, Zenon DEF Registered, server
<1>2. ASSUME NEW from, NEW to, Goto("run", from, to) PROVE pc["run"] = from /\ pc'["run"] = to
  BY <1>0, <1>2, Zenon DEF Goto
<1>3. CASE authFail
  <2>1. pc["run"] = "auth" /\ pc'["run"] = "once" /\ UNCHANGED server
    BY <1>2, <1>3, Zenon DEF authFail, Move
  <2> QED BY <1>0, <2>1 DEF Registered, server
<1>4. CASE authVerified
  <2>1. pc["run"] = "auth" /\ pc'["run"] = "regInsert" /\ UNCHANGED server
    BY <1>2, <1>4, Zenon DEF authVerified, Move
  <2> QED BY <1>0, <2>1 DEF Registered, server
<1>5. CASE regInsert
  <2>1. pc["run"] = "regInsert" /\ pc'["run"] = "regStore" /\ registered' = TRUE /\ UNCHANGED <<timer, active>>
    BY <1>2, <1>5, Zenon DEF regInsert
  <2> QED BY <1>0, <2>1 DEF Registered
<1>6. CASE regStore
  <2>1. pc["run"] = "regStore" /\ pc'["run"] = "regInc" /\ timer' = TRUE /\ UNCHANGED <<registered, active>>
    BY <1>2, <1>6, Zenon DEF regStore
  <2>2. registered /\ active = 0
    BY <1>0, <2>1 DEF Registered
  <2> QED BY <2>1, <2>2, Zenon DEF Registered
<1>7. CASE regInc
  <2>1. pc["run"] = "regInc" /\ pc'["run"] = "authOK" /\ active' = active + 1 /\ UNCHANGED <<registered, timer>>
    BY <1>2, <1>7, Zenon DEF regInc
  <2> QED BY <1>0, <2>1 DEF Registered
<1>8. CASE authOK
  <2>1. pc["run"] = "authOK" /\ pc'["run"] \in {"start", "unregDelete"} /\ UNCHANGED server
    BY <1>2, <1>8, Zenon DEF authOK, Move
  <2> QED BY <1>0, <2>1 DEF Registered, server
<1>9. CASE start
  <2>1. pc["run"] = "start" /\ pc'["run"] = "wait" /\ UNCHANGED server
    BY <1>9, StartFacts, Zenon
  <2> QED BY <1>0, <2>1 DEF Registered, server
<1>10. CASE wait
  <2>1. pc["run"] = "wait" /\ pc'["run"] = "unregDelete" /\ UNCHANGED server
    BY <1>2, <1>10, Zenon DEF wait, Move
  <2> QED BY <1>0, <2>1 DEF Registered, server
<1>11. CASE unregDelete
  <2>1. pc["run"] = "unregDelete" /\ pc'["run"] = "unregStore" /\ registered' = FALSE /\ UNCHANGED <<timer, active>>
    BY <1>2, <1>11, Zenon DEF unregDelete
  <2> QED BY <1>0, <2>1 DEF Registered
<1>12. CASE unregStore
  <2>1. pc["run"] = "unregStore" /\ pc'["run"] = "once" /\ timer' = FALSE /\ active' = active - 1 /\ UNCHANGED registered
    BY <1>2, <1>12, Zenon DEF unregStore
  <2>2. ~registered /\ active = 1
    BY <1>0, <2>1 DEF Registered
  <2>3. active' = 0
    BY <2>1, <2>2
  <2> QED BY <2>1, <2>2, <2>3, <1>0, Zenon DEF Registered
<1>13. CASE Loops
  BY <1>1, <1>13, LoopsStay, Zenon
<1>14. CASE \E t \in Threads : Close(t)
  <2>1. UNCHANGED server /\ (pc'["run"] = pc["run"] \/ (pc["run"] \in {"once"} \cup Body /\ pc'["run"] \in {"done"} \cup Body))
    BY <1>14, CloseStays, Zenon
  <2>2. CASE pc["run"] \in {"once"} \cup Body /\ pc'["run"] \in {"done"} \cup Body
    BY <1>0, <2>1, <2>2 DEF Registered, server, Body
  <2> QED BY <1>1, <2>1, <2>2, Zenon
<1>15. CASE clientGone \/ shutdown \/ Terminated
  <2>1. UNCHANGED server /\ (pc' = pc \/ Goto("outside", "new", "once"))
    BY <1>15, Zenon DEF clientGone, shutdown, Terminated, Move, vars
  <2>2. pc'["run"] = pc["run"]
    BY <1>0, <2>1, Zenon DEF Goto
  <2> QED BY <1>1, <2>1, <2>2, Zenon
<1>16. CASE idleTimeout
  <2>1. Goto("outside", "new", "once") /\ timer' = FALSE /\ UNCHANGED <<registered, active>>
    BY <1>16, Zenon DEF idleTimeout
  <2>2. pc'["run"] = pc["run"]
    BY <1>0, <2>1, Zenon DEF Goto
  <2> QED BY <1>0, <2>1, <2>2, Zenon DEF Registered
<1> QED BY <1>3, <1>4, <1>5, <1>6, <1>7, <1>8, <1>9, <1>10, <1>11, <1>12, <1>13, <1>14, <1>15, <1>16, Zenon DEF Next, Run

\* Frames left in controlR when the connection is closed.
LEMMA BufferedStep == IInv /\ Next => buffered' \in 0 .. Buffered
<1> SUFFICES ASSUME IInv, Next PROVE buffered' \in 0 .. Buffered
  OBVIOUS
<1>0. buffered \in 0 .. Buffered /\ Buffered \in Nat
  BY QUICSessionAssumption, Zenon DEF IInv, Types
<1>1. CASE Frame
  <2>1. (connOpen \/ buffered > 0) /\ buffered' = IF connOpen THEN buffered ELSE buffered - 1
    BY <1>1, Zenon DEF Frame
  <2> QED BY <1>0, <2>1
<1>2. UNCHANGED buffered \/ Frame
  <2>1. CASE Run
    BY <2>1, Zenon DEF Run, authFail, authVerified, regInsert, regStore, regInc, authOK, start, wait, unregDelete, unregStore, Move, conn
  <2>2. CASE controlLoop
    BY <2>2, Zenon DEF controlLoop, controlEnd, frameCloseFlow, frameOpen, handleOpenTCP, handleOpenUDP, Opening,
       openDial, openInsert, openAnswerFails, openAnswered, Move, conn
  <2>3. CASE acceptStream \/ acceptEnd
    BY <2>3, Zenon DEF acceptStream, acceptEnd, Move, conn
  <2>4. CASE \E s \in Streams : handleFlowStream(s)
    BY <2>4, Zenon DEF handleFlowStream, Refuse, streamFlow, attach, attachSecond, pumpTCPFlow, conn
  <2>5. CASE \E u \in UDPFlows : udpReadLoop(u)
    BY <2>5, Zenon DEF udpReadLoop, udpLimit, udpSendFails, udpEnd, Move, conn
  <2>6. CASE \E t \in Counted : closeFlow(t)
    BY <2>6, Zenon DEF closeFlow, cfDelete, cfClose, conn
  <2>7. CASE \E t \in Threads : Close(t)
    BY <2>7, Zenon DEF Close, OnceDo, CloseConn, Snapshot, CloseOne, CloseReturn, Move, conn
  <2>8. CASE clientGone \/ idleTimeout \/ shutdown \/ Terminated
    BY <2>8, Zenon DEF clientGone, idleTimeout, shutdown, Terminated, Move, conn, vars
  <2> QED BY <2>1, <2>2, <2>3, <2>4, <2>5, <2>6, <2>7, <2>8, Zenon DEF Next, Loops
<1> QED BY <1>0, <1>1, <1>2, Zenon

\* The types of everything but the server's tables and the buffer.
CoreTypes ==
  /\ pc \in [Threads -> Labels]
  /\ tcpFlows \in [Ids -> TCPFlows \cup {None}]
  /\ udpFlows \in [Ids -> UDPFlows \cup {None}]
  /\ target \in [Flows -> {"none", "open", "closed"}]
  /\ stream \in [TCPFlows -> Streams \cup {None}]
  /\ sending \in [Streams -> {"none", "open", "closed"}]
  /\ served \in [Streams -> TCPFlows \cup {None}]
  /\ late \in SUBSET Streams
  /\ cancelled \in BOOLEAN /\ connOpen \in BOOLEAN
  /\ once \in {"free", "busy", "done"}
  /\ closing \in SUBSET Flows
  /\ cur \in Flows \cup {None}
  /\ arg \in [Counted -> Ids \cup {None}]
  /\ taken \in [Counted -> SUBSET Flows]

\* Types, roles and the tables are kept.
LEMMA TypesStep == IInv /\ Next => Types' /\ Roles' /\ Table'
<1> SUFFICES ASSUME IInv, Next PROVE CoreTypes' /\ Roles' /\ Table'
  BY RegisteredStep, BufferedStep, Zenon DEF CoreTypes, Types
<1>0. Types /\ CoreTypes /\ Roles /\ Table
  BY Zenon DEF IInv, Types, CoreTypes
<1>1. ASSUME UNCHANGED <<tcpFlows, udpFlows>> PROVE Table'
  BY <1>0, <1>1, Zenon DEF Table
<1>2. CASE PlainStep
  <2>1. PICK t \in Threads, from \in Labels, to \in Labels : Plain(t, from, to)
    BY <1>2, Zenon DEF PlainStep
  <2>2. /\ pc' \in [Threads -> Labels] /\ Roles' /\ arg' \in [Counted -> Ids \cup {None}]
        /\ UNCHANGED <<flow, cancelled, connOpen, life, taken, cur>>
    BY <2>1, Zenon DEF Plain
  <2> QED BY <1>0, <1>1, <2>2, Zenon DEF CoreTypes, flow, life
<1>3. CASE start
  BY <1>0, <1>1, <1>3, StartFacts, Zenon DEF CoreTypes, flow, conn, life, calls
<1>4. CASE clientGone
  <2>1. connOpen' = FALSE /\ UNCHANGED <<pc, flow, cancelled, life, calls>>
    BY <1>4, Zenon DEF clientGone
  <2> QED BY <1>0, <1>1, <2>1, Zenon DEF CoreTypes, Roles, flow, life, calls
<1>5. CASE UNCHANGED vars
  BY <1>0, <1>1, <1>5, Zenon DEF CoreTypes, Roles, vars, flow, conn, life, calls
<1>6. ASSUME NEW t \in Threads, CloseStep(t) PROVE CoreTypes' /\ Roles' /\ Table'
  <2>1. CASE EnterBody(t) \/ CloseConn(t) \/ CloseReturn(t)
    <3>1. /\ pc' \in [Threads -> Labels] /\ Roles' /\ UNCHANGED <<flow, closing, calls>>
          /\ once' \in {"free", "busy", "done"} /\ cancelled' \in BOOLEAN /\ connOpen' \in BOOLEAN
      BY <1>0, <2>1, BodyFacts, Zenon DEF CoreTypes, conn
    <3> QED BY <1>0, <1>1, <3>1, Zenon DEF CoreTypes, flow, calls
  <2>2. CASE Snapshot(t)
    <3>1. /\ pc' \in [Threads -> Labels] /\ Roles' /\ closing' \in SUBSET Flows
          /\ tcpFlows' \in [Ids -> TCPFlows \cup {None}] /\ udpFlows' \in [Ids -> UDPFlows \cup {None}]
          /\ \A i \in Ids : tcpFlows'[i] = None /\ udpFlows'[i] = None
          /\ UNCHANGED <<target, stream, sending, served, late, conn, once, calls>>
      BY <2>2, SnapshotFacts, Zenon
    <3> QED BY <1>0, <3>1, Zenon DEF CoreTypes, Table, conn, calls
  <2>3. CASE CloseOne(t)
    <3>1. PICK o \in closing : Shut({o})
      BY <2>3, CloseOneFacts, Zenon
    <3>2. UNCHANGED pc
      BY <2>3, CloseOneFacts, Zenon
    <3> QED BY <1>0, <1>1, <3>1, <3>2, Zenon DEF CoreTypes, Roles, Shut
  <2> QED BY <1>6, <2>1, <2>2, <2>3, Zenon DEF CloseStep
<1>7. CASE OpenStep
  <2>1. ASSUME NEW o \in Flows, frameOpen(o) PROVE CoreTypes' /\ Roles' /\ Table'
    BY <1>0, <1>1, <2>1, OpenFacts, Zenon DEF CoreTypes, flow, life
  <2>2. CASE Dialled \/ NumberTaken
    BY <1>0, <1>1, <2>2, TargetFacts, Zenon DEF CoreTypes, conn, life, calls
  <2>3. CASE Entered
    <3>1. UNCHANGED <<target, stream, sending, served, late, conn, life, calls>>
      BY <2>3, Zenon DEF Entered
    <3> QED BY <1>0, <2>3, <3>1, EnteredFacts, Zenon DEF CoreTypes, conn, life, calls
  <2>4. CASE openAnswered /\ cur \in Flows
    BY <1>0, <1>1, <2>4, AnsweredFacts, Zenon DEF CoreTypes, flow, conn, life, calls
  <2> QED BY <1>7, <2>1, <2>2, <2>3, <2>4, Zenon DEF OpenStep
<1>8. CASE StreamStep
  <2>1. CASE acceptStream
    BY <1>0, <1>1, <2>1, AcceptFacts, Zenon DEF CoreTypes, conn, life, calls
  <2>2. ASSUME NEW s \in Streams, NEW from, Refuse(s, from) PROVE CoreTypes' /\ Roles' /\ Table'
    BY <1>0, <1>1, <2>2, RefuseFacts, Zenon DEF CoreTypes, conn, life, calls
  <2>3. ASSUME NEW s \in Streams, attach(s) PROVE CoreTypes' /\ Roles' /\ Table'
    BY <1>0, <1>1, <2>3, AttachFacts, Zenon DEF CoreTypes, conn, life, calls
  <2>4. ASSUME NEW s \in Streams, NEW i \in Ids, streamFlow(s, i) PROVE CoreTypes' /\ Roles' /\ Table'
    BY <1>0, <1>1, <2>4, LookupFacts, Zenon DEF CoreTypes, conn, life, calls
  <2> QED BY <1>8, <2>1, <2>2, <2>3, <2>4, Zenon DEF StreamStep
<1>9. ASSUME NEW t \in Counted, cfDelete(t) PROVE CoreTypes' /\ Roles' /\ Table'
  <2>1. UNCHANGED <<target, stream, sending, served, late, conn, life, cur>>
    BY <1>9, Zenon DEF cfDelete
  <2>2. /\ pc' \in [Threads -> Labels] /\ Roles'
        /\ tcpFlows' \in [Ids -> TCPFlows \cup {None}] /\ udpFlows' \in [Ids -> UDPFlows \cup {None}]
        /\ taken' \in [Counted -> SUBSET Flows] /\ arg' \in [Counted -> Ids \cup {None}]
        /\ \A i \in Ids : tcpFlows'[i] = IF i = arg[t] THEN None ELSE tcpFlows[i]
        /\ \A i \in Ids : udpFlows'[i] = IF i = arg[t] THEN None ELSE udpFlows[i]
    BY <1>9, TakeFacts, Zenon
  <2>3. CoreTypes'
    BY <1>0, <2>1, <2>2, Zenon DEF CoreTypes, conn, life
  <2>4. \A i \in Ids : (tcpFlows'[i] = None \/ tcpFlows'[i] = tcpFlows[i]) /\ (udpFlows'[i] = None \/ udpFlows'[i] = udpFlows[i])
    BY <2>2, Zenon
  <2>5. Table'
    BY <1>0, <2>4, Zenon DEF Table
  <2> QED BY <2>2, <2>3, <2>5, Zenon
<1>10. ASSUME NEW t \in Counted, cfClose(t) PROVE CoreTypes' /\ Roles' /\ Table'
  <2>1. Shut(taken[t]) /\ pc' \in [Threads -> Labels] /\ Roles'
    BY <1>10, ShutFacts, Zenon
  <2> QED BY <1>0, <1>1, <2>1, Zenon DEF CoreTypes, Shut
<1> QED BY <1>2, <1>3, <1>4, <1>5, <1>6, <1>7, <1>8, <1>9, <1>10, Cases, Zenon

-----------------------------------------------------------------------------
(* Who runs when.                                                          *)

\* While a counted thread runs, Run waits.
LEMMA RunWaits ==
  ASSUME IInv, NEW t \in Counted, pc[t] \notin {"new", "done"}
  PROVE  pc["run"] = "wait"
BY Zenon DEF IInv, Quiet

\* A thread that was running moves: Run still waits.
LEMMA QuietMoved ==
  ASSUME IInv, NEW t \in Threads, NEW from, NEW to, Moved(t, from, to),
         t \in Counted => from \notin {"new", "done"},
         t = "run" /\ from = "wait" => Live = {}
  PROVE  Quiet'
<1>1. CASE t \in Counted
  <2>1. pc["run"] = "wait" /\ t # "run" /\ "run" \in Threads
    BY <1>1, RunWaits, ThreadFacts, Zenon DEF Moved
  <2>2. pc'["run"] = "wait"
    BY <2>1, Zenon DEF Moved
  <2> QED BY <2>2, Zenon DEF Quiet
<1>2. CASE t \notin Counted
  <2>1. \A u \in Counted : pc'[u] = pc[u]
    BY <1>2, ThreadFacts, Zenon DEF Moved
  <2>2. pc["run"] # "wait" => \A u \in Counted : pc[u] \in {"new", "done"}
    BY Zenon DEF IInv, Quiet
  <2>3. CASE t = "run"
    <3>1. pc["run"] = "wait" => \A u \in Counted : pc[u] \in {"new", "done"}
      BY <2>3, Zenon DEF Live, Moved
    <3> QED BY <2>1, <2>2, <3>1, Zenon DEF Quiet
  <2>4. CASE t # "run"
    <3>1. pc'["run"] = pc["run"]
      BY <2>4, ThreadFacts, Zenon DEF Moved
    <3> QED BY <2>1, <2>2, <3>1, Zenon DEF Quiet
  <2> QED BY <2>3, <2>4, Zenon
<1> QED BY <1>1, <1>2, Zenon

\* Quiet is kept.
LEMMA QuietStep == IInv /\ Next => Quiet'
<1> SUFFICES ASSUME IInv, Next PROVE Quiet'
  OBVIOUS
<1>0. Quiet /\ "control" \in Threads /\ "control" \in Counted /\ "run" \in Threads /\ "run" \notin Counted
      /\ (\A s \in Streams : s \in Threads /\ s \in Counted) /\ (\A t \in Counted : t \in Threads)
  BY ThreadFacts, Zenon DEF IInv
<1>1. ASSUME pc'["run"] = "wait" PROVE Quiet'
  BY <1>1, Zenon DEF Quiet
<1>2. CASE PlainStep
  <2>1. PICK t \in Threads, from \in Labels, to \in Labels : Plain(t, from, to)
    BY <1>2, Zenon DEF PlainStep
  <2>2. Moved(t, from, to) /\ (t \in Counted => from \notin {"new", "done"}) /\ (t = "run" /\ from = "wait" => Live = {})
    BY <2>1, Zenon DEF Plain
  <2> QED BY <2>2, QuietMoved, Zenon
<1>3. CASE start
  BY <1>1, <1>3, StartFacts, Zenon
<1>4. CASE clientGone \/ UNCHANGED vars
  <2>1. pc' = pc
    BY <1>4, Zenon DEF clientGone, vars
  <2> QED BY <1>0, <2>1, Zenon DEF Quiet
<1>5. ASSUME NEW t \in Threads, CloseStep(t) PROVE Quiet'
  <2>1. CASE CloseOne(t)
    <3>1. pc' = pc
      BY <2>1, CloseOneFacts, Zenon
    <3> QED BY <1>0, <3>1, Zenon DEF Quiet
  <2>2. CASE ~CloseOne(t)
    <3>1. \E from \in {"once", "conn", "snapshot", "flows"} : \E to : Moved(t, from, to)
      BY <1>5, <2>2, BodyFacts, SnapshotFacts, Zenon DEF CloseStep
    <3> QED BY <3>1, QuietMoved, Zenon
  <2> QED BY <2>1, <2>2, Zenon
<1>6. CASE OpenStep
  <2>1. ASSUME NEW from \in {"read", "dial", "insert"}, NEW to, Moved("control", from, to) PROVE Quiet'
    BY <1>0, <2>1, QuietMoved, ThreadFacts, Zenon
  <2>2. CASE openAnswered /\ cur \in Flows
    <3>1. pc["control"] = "ok" /\ pc'["run"] = pc["run"]
      BY <1>0, <2>2, AnsweredFacts, Zenon
    <3>2. pc["run"] = "wait"
      BY <1>0, <3>1, RunWaits, Zenon
    <3> QED BY <1>1, <3>1, <3>2, Zenon
  <2> QED BY <1>6, <2>1, <2>2, OpenFacts, TargetFacts, EnteredFacts, Zenon DEF OpenStep
<1>7. CASE StreamStep
  <2>1. CASE acceptStream
    <3>1. PICK s \in Streams : Moved(s, "new", "head") /\ pc["accept"] = "read"
      BY <2>1, AcceptFacts, Zenon
    <3>2. pc["run"] = "wait"
      BY <3>1, RunWaits, ThreadFacts, Zenon
    <3>3. pc'["run"] = pc["run"]
      BY <1>0, <3>1, ThreadFacts, Zenon DEF Moved
    <3> QED BY <1>1, <3>2, <3>3, Zenon
  <2>2. ASSUME NEW s \in Streams, NEW from \in {"head", "attach"}, NEW to, Moved(s, from, to) PROVE Quiet'
    BY <1>0, <2>2, QuietMoved, ThreadFacts, Zenon
  <2>3. ASSUME NEW s \in Streams, Refuse(s, "head") \/ Refuse(s, "attach") \/ attach(s) \/ (\E i \in Ids : streamFlow(s, i))
        PROVE  Quiet'
    BY <2>2, <2>3, RefuseFacts, AttachFacts, LookupFacts, Zenon
  <2> QED BY <1>7, <2>1, <2>3, Zenon DEF StreamStep
<1>8. ASSUME NEW t \in Counted, cfDelete(t) \/ cfClose(t) PROVE Quiet'
  <2>1. \E from \in {"cf", "close"} : \E to : Moved(t, from, to)
    BY <1>8, TakeFacts, ShutFacts, Zenon
  <2> QED BY <1>0, <2>1, QuietMoved, Zenon
<1> QED BY <1>2, <1>3, <1>4, <1>5, <1>6, <1>7, <1>8, Cases, Zenon

\* A step in which nobody enters, leaves or moves in Close's body.
LEMMA NotInBody ==
  ASSUME IInv, \A t \in Threads : pc[t] \in Body \/ pc'[t] \in Body => pc'[t] = pc[t],
         once' = once, closing' = closing, cancelled => cancelled', connOpen' => connOpen,
         pc'["run"] = "done" => pc["run"] = "done" \/ once = "done"
  PROVE  OneClose'
<1>1. OneClose
  BY Zenon DEF IInv
<1>2. \A t \in Threads : (pc[t] = "flows" \/ pc'[t] = "flows") \/ (pc[t] = "snapshot" \/ pc'[t] = "snapshot") => pc'[t] = pc[t]
  BY Zenon DEF Body
<1>3. \A t \in Threads : pc'[t] \in Body => once' = "busy"
  BY <1>1, Zenon DEF OneClose
<1>4. \A t, u \in Threads : pc'[t] \in Body /\ pc'[u] \in Body => t = u
  BY <1>1, Zenon DEF OneClose
<1>5. \A t \in Threads : pc'[t] \in {"snapshot", "flows"} => cancelled' /\ ~connOpen'
  BY <1>1, <1>2, Zenon DEF OneClose
<1>6. once' = "done" => cancelled' /\ ~connOpen'
  BY <1>1, Zenon DEF OneClose
<1>7. closing' # {} => \E t \in Threads : pc'[t] = "flows"
  BY <1>1, <1>2, Zenon DEF OneClose
<1>8. pc'["run"] = "done" => once' = "done"
  BY <1>1, Zenon DEF OneClose
<1> QED BY <1>3, <1>4, <1>5, <1>6, <1>7, <1>8, Zenon DEF OneClose

\* The same for one thread.
LEMMA NotBodyMoved ==
  ASSUME IInv, NEW t \in Threads, NEW from, NEW to, Moved(t, from, to), from \notin Body, to \notin Body,
         once' = once, closing' = closing, UNCHANGED <<cancelled, connOpen>>,
         t = "run" /\ to = "done" => once = "done"
  PROVE  OneClose'
<1>1. \A u \in Threads : pc[u] \in Body \/ pc'[u] \in Body => pc'[u] = pc[u]
  BY Zenon DEF Moved
<1>2. pc'["run"] = "done" => pc["run"] = "done" \/ once = "done"
  BY ThreadFacts, Zenon DEF Moved
<1> QED BY <1>1, <1>2, NotInBody, Zenon

\* OneClose is kept.
LEMMA OneCloseStep == IInv /\ Next => OneClose'
<1> SUFFICES ASSUME IInv, Next PROVE OneClose'
  OBVIOUS
<1>0. OneClose /\ "control" \in Threads /\ "control" # "run" /\ (\A s \in Streams : s \in Threads /\ s # "run")
      /\ (\A t \in Counted : t \in Threads /\ t # "run")
  BY ThreadFacts, Zenon DEF IInv
<1>1. {"read", "dial", "insert", "ok", "new", "head", "attach", "pump", "done", "cf", "close", "start", "wait"} \cap Body = {}
  BY Zenon DEF Body
<1>2. CASE PlainStep
  <2>1. PICK t \in Threads, from \in Labels, to \in Labels : Plain(t, from, to)
    BY <1>2, Zenon DEF PlainStep
  <2>2. /\ Moved(t, from, to) /\ from \notin Body /\ to \notin Body /\ UNCHANGED <<cancelled, connOpen, once, closing>>
        /\ (t = "run" /\ to = "done" => once = "done")
    BY <2>1, Zenon DEF Plain, life
  <2> QED BY <2>2, NotBodyMoved, Zenon
<1>3. CASE start
  <2>1. \A t \in Threads : pc'[t] = pc[t] \/ (pc[t] \notin Body /\ pc'[t] \notin Body)
    BY <1>1, <1>3, StartFacts, ThreadFacts, Zenon
  <2>2. UNCHANGED <<once, closing, cancelled, connOpen>> /\ pc'["run"] # "done"
    BY <1>3, StartFacts, Zenon DEF life, conn
  <2> QED BY <2>1, <2>2, NotInBody, Zenon
<1>4. CASE clientGone \/ UNCHANGED vars
  <2>1. pc' = pc /\ UNCHANGED <<once, closing, cancelled>> /\ (connOpen' => connOpen)
    <3>1. CASE clientGone
      <4>1. connOpen' = FALSE /\ UNCHANGED <<pc, life, cancelled>>
        BY <3>1, Zenon DEF clientGone
      <4> QED BY <4>1, Zenon DEF life
    <3>2. CASE UNCHANGED vars
      BY <3>2, Zenon DEF vars, life, conn
    <3> QED BY <1>4, <3>1, <3>2, Zenon
  <2> QED BY <2>1, NotInBody, Zenon
<1>5. ASSUME NEW t \in Threads, CloseStep(t) PROVE OneClose'
  <2>1. CASE EnterBody(t)
    <3>1. Moved(t, "once", "conn") /\ once = "free" /\ once' = "busy" /\ UNCHANGED <<cancelled, connOpen, closing>>
      BY <2>1, BodyFacts, Zenon DEF conn
    <3>2. \A u \in Threads : pc[u] \notin Body
      BY <1>0, <3>1, Zenon DEF OneClose
    <3>3. \A u \in Threads : pc'[u] \in Body => u = t
      BY <3>1, <3>2, Zenon DEF Moved
    <3>4. \A u \in Threads : pc'[u] \notin {"snapshot", "flows"}
      BY <3>1, <3>2, Zenon DEF Moved, Body
    <3>5. closing' = {}
      BY <1>0, <3>1, <3>2, Zenon DEF OneClose, Body
    <3>6. pc'["run"] # "done"
      BY <1>0, <3>1, ThreadFacts, Zenon DEF OneClose, Moved
    <3> QED BY <3>1, <3>3, <3>4, <3>5, <3>6, Zenon DEF OneClose
  <2>2. CASE CloseConn(t)
    <3>1. Moved(t, "conn", "snapshot") /\ once' = once /\ cancelled' = TRUE /\ connOpen' = FALSE /\ closing' = closing
      BY <2>2, BodyFacts, Zenon
    <3>2. "conn" \in Body /\ "snapshot" \in Body /\ "flows" \in Body
      BY Zenon DEF Body
    <3>3. \A u \in Threads : pc'[u] \in Body => pc[u] \in Body
      BY <3>1, <3>2, Zenon DEF Moved
    <3>4. \A u \in Threads : pc[u] = "flows" => u = t
      BY <1>0, <3>1, <3>2, Zenon DEF OneClose, Moved
    <3>5. closing = {}
      BY <1>0, <3>1, <3>4, Zenon DEF OneClose, Moved
    <3>6. pc'["run"] = "done" => pc["run"] = "done"
      BY <3>1, ThreadFacts, Zenon DEF Moved
    <3>7. \A u \in Threads : pc'[u] \in Body => once' = "busy"
      BY <1>0, <3>1, <3>3, Zenon DEF OneClose
    <3>8. \A u, v \in Threads : pc'[u] \in Body /\ pc'[v] \in Body => u = v
      BY <1>0, <3>3, Zenon DEF OneClose
    <3>9. pc'["run"] = "done" => once' = "done"
      BY <1>0, <3>1, <3>6, Zenon DEF OneClose
    <3> QED BY <3>1, <3>5, <3>7, <3>8, <3>9, Zenon DEF OneClose
  <2>3. CASE Snapshot(t)
    <3>1. Moved(t, "snapshot", "flows") /\ once' = once /\ UNCHANGED <<cancelled, connOpen>>
      BY <2>3, SnapshotFacts, Zenon DEF conn
    <3>2. "snapshot" \in Body /\ "flows" \in Body
      BY Zenon DEF Body
    <3>3. \A u \in Threads : pc'[u] \in Body => pc[u] \in Body
      BY <3>1, <3>2, Zenon DEF Moved
    <3>4. cancelled' /\ ~connOpen'
      BY <1>0, <3>1, Zenon DEF OneClose, Moved
    <3>5. \A u \in Threads : pc'[u] \in Body => once' = "busy"
      BY <1>0, <3>1, <3>3, Zenon DEF OneClose
    <3>6. \A u, v \in Threads : pc'[u] \in Body /\ pc'[v] \in Body => u = v
      BY <1>0, <3>3, Zenon DEF OneClose
    <3>7. pc'["run"] = "done" => once' = "done"
      BY <1>0, <3>1, ThreadFacts, Zenon DEF OneClose, Moved
    <3>8. \E u \in Threads : pc'[u] = "flows"
      BY <3>1, Zenon DEF Moved
    <3> QED BY <3>4, <3>5, <3>6, <3>7, <3>8, Zenon DEF OneClose
  <2>4. CASE CloseOne(t)
    <3>1. UNCHANGED pc /\ pc[t] = "flows" /\ \E o \in closing : Shut({o})
      BY <2>4, CloseOneFacts, Zenon
    <3>2. UNCHANGED <<cancelled, connOpen, once>>
      BY <3>1, Zenon DEF Shut
    <3> QED BY <1>0, <3>1, <3>2, Zenon DEF OneClose
  <2>5. CASE CloseReturn(t)
    <3>1. Moved(t, "flows", "done") /\ once' = "done" /\ closing' = {} /\ UNCHANGED <<cancelled, connOpen>>
      BY <2>5, BodyFacts, Zenon DEF conn
    <3>2. "flows" \in Body
      BY Zenon DEF Body
    <3>3. \A u \in Threads : pc[u] \in Body => u = t
      BY <1>0, <3>1, <3>2, Zenon DEF OneClose, Moved
    <3>4. \A u \in Threads : pc'[u] \notin Body
      BY <1>1, <3>1, <3>3, Zenon DEF Moved
    <3>5. cancelled' /\ ~connOpen'
      BY <1>0, <3>1, Zenon DEF OneClose, Moved
    <3> QED BY <3>1, <3>4, <3>5, Zenon DEF OneClose
  <2> QED BY <1>5, <2>1, <2>2, <2>3, <2>4, <2>5, Zenon DEF CloseStep
<1>6. CASE OpenStep
  <2>1. UNCHANGED <<once, closing, cancelled, connOpen>>
    BY <1>6, OpenFacts, TargetFacts, AnsweredFacts, Zenon DEF OpenStep, Entered, conn, life
  <2>2. ASSUME NEW from \in {"read", "dial", "insert"}, NEW to \in {"dial", "insert", "ok", "read"}, Moved("control", from, to) PROVE OneClose'
    <3>1. from \notin Body /\ to \notin Body
      BY <1>1, Zenon
    <3> QED BY <1>0, <2>1, <2>2, <3>1, NotBodyMoved, Zenon
  <2>3. CASE openAnswered /\ cur \in Flows
    <3>1. \A t \in Threads : pc'[t] = pc[t] \/ (pc[t] \notin Body /\ pc'[t] \notin Body /\ pc'[t] = "read")
      BY <1>1, <2>3, AnsweredFacts, Zenon
    <3>2. pc'["run"] = "done" => pc["run"] = "done"
      BY <3>1, ThreadFacts, Zenon
    <3> QED BY <2>1, <3>1, <3>2, NotInBody, Zenon
  <2> QED BY <1>6, <2>2, <2>3, OpenFacts, TargetFacts, EnteredFacts, Zenon DEF OpenStep
<1>7. CASE StreamStep
  <2>1. UNCHANGED <<once, closing, cancelled, connOpen>>
    BY <1>7, AcceptFacts, RefuseFacts, AttachFacts, LookupFacts, Zenon DEF StreamStep, conn, life
  <2>2. \E s \in Streams : \E from \in {"new", "head", "attach"} : \E to \in {"head", "attach", "pump", "done"} : Moved(s, from, to)
    BY <1>7, AcceptFacts, RefuseFacts, AttachFacts, LookupFacts, Zenon DEF StreamStep
  <2>3. ASSUME NEW s \in Streams, NEW from \in {"new", "head", "attach"}, NEW to \in {"head", "attach", "pump", "done"}, Moved(s, from, to)
        PROVE  OneClose'
    <3>1. from \notin Body /\ to \notin Body
      BY <1>1, Zenon
    <3> QED BY <1>0, <2>1, <2>3, <3>1, NotBodyMoved, Zenon
  <2> QED BY <2>2, <2>3, Zenon
<1>8. ASSUME NEW t \in Counted, cfDelete(t) \/ cfClose(t) PROVE OneClose'
  <2>1. UNCHANGED <<once, closing, cancelled, connOpen>>
    BY <1>8, Zenon DEF cfDelete, cfClose, conn, life
  <2>2. PICK from \in {"cf", "close"}, to \in {"read", "done", "close"} : Moved(t, from, to)
    <3>1. CASE cfDelete(t)
      BY <3>1, TakeFacts, ZenonT(30)
    <3>2. CASE cfClose(t)
      BY <3>2, ShutFacts, Zenon
    <3> QED BY <1>8, <3>1, <3>2, Zenon
  <2>3. from \notin Body /\ to \notin Body
    BY <1>1, Zenon
  <2> QED BY <1>0, <2>1, <2>2, <2>3, NotBodyMoved, Zenon
<1> QED BY <1>2, <1>3, <1>4, <1>5, <1>6, <1>7, <1>8, Cases, Zenon

\* A step that leaves alone what threads carry.
LEMMA NotCarrying ==
  ASSUME IInv, \A t \in Counted : pc'[t] = pc[t] \/ (pc[t] # "close" /\ pc'[t] \notin {"cf", "close", "attach", "pump"}),
         UNCHANGED <<arg, taken, served>>
  PROVE  Carried'
<1>1. Carried /\ \A s \in Streams : s \in Counted
  BY ThreadFacts, Zenon DEF IInv
<1>2. \A t \in Counted : pc'[t] \in {"cf", "close", "attach", "pump"} \/ pc[t] = "close" => pc'[t] = pc[t]
  BY Zenon
<1> QED BY <1>1, <1>2, Zenon DEF Carried

\* Carried is kept.
LEMMA CarriedStep == IInv /\ Next => Carried'
<1> SUFFICES ASSUME IInv, Next PROVE Carried'
  OBVIOUS
<1>0. Carried /\ (\A s \in Streams : s \in Counted) /\ (\A t \in Counted : t \in Threads) /\ Types
  BY ThreadFacts, Zenon DEF IInv
<1>1. ASSUME NEW t \in Threads, NEW from, NEW to, Moved(t, from, to), from # "close", to \notin {"cf", "close", "attach", "pump"},
             UNCHANGED <<arg, taken, served>>
      PROVE  Carried'
  <2>1. \A u \in Counted : pc'[u] = pc[u] \/ (pc[u] # "close" /\ pc'[u] \notin {"cf", "close", "attach", "pump"})
    BY <1>0, <1>1, Zenon DEF Moved
  <2> QED BY <1>1, <2>1, NotCarrying, Zenon
<1>2. CASE PlainStep
  <2>1. PICK t \in Threads, from \in Labels, to \in Labels : Plain(t, from, to)
    BY <1>2, Zenon DEF PlainStep
  <2>2. /\ Moved(t, from, to) /\ UNCHANGED <<served, taken>> /\ from # "close" /\ to \notin {"close", "attach", "pump"}
        /\ \A u \in Counted : u # t => arg'[u] = arg[u]
        /\ to = "cf" => arg'[t] \in Ids
        /\ t \in Streams /\ to = "cf" => served[t] \in TCPFlows /\ arg'[t] = FlowId[served[t]]
    BY <2>1, Zenon DEF Plain, flow
  <2>3. \A u \in Counted : pc'[u] = "cf" => arg'[u] \in Ids
    BY <1>0, <2>2, Zenon DEF Moved, Carried
  <2>4. \A u \in Counted : taken'[u] # {} => pc'[u] = "close"
    BY <1>0, <2>2, Zenon DEF Moved, Carried
  <2>5. \A s \in Streams : pc'[s] \in {"attach", "pump"} => served'[s] \in TCPFlows
    <3> SUFFICES ASSUME NEW s \in Streams, pc'[s] \in {"attach", "pump"} PROVE served'[s] \in TCPFlows
      BY Zenon
    <3>1. s # t
      BY <2>2, Zenon DEF Moved
    <3>2. pc[s] \in {"attach", "pump"}
      BY <1>0, <2>2, <3>1, Zenon DEF Moved
    <3> QED BY <1>0, <2>2, <3>2, Zenon DEF Carried
  <2>6. \A s \in Streams : pc'[s] = "cf" => served'[s] \in TCPFlows /\ arg'[s] = FlowId[served'[s]]
    <3> SUFFICES ASSUME NEW s \in Streams, pc'[s] = "cf" PROVE served'[s] \in TCPFlows /\ arg'[s] = FlowId[served'[s]]
      BY Zenon
    <3>1. CASE s = t
      BY <2>2, <3>1, Zenon DEF Moved
    <3>2. CASE s # t
      BY <1>0, <2>2, <3>2, Zenon DEF Moved, Carried
    <3> QED BY <3>1, <3>2, Zenon
  <2> QED BY <2>3, <2>4, <2>5, <2>6, Zenon DEF Carried
<1>3. CASE start
  <2>1. \A t \in Counted : pc'[t] = pc[t] \/ (pc[t] # "close" /\ pc'[t] \notin {"cf", "close", "attach", "pump"})
    BY <1>0, <1>3, StartFacts, Zenon
  <2> QED BY <1>3, <2>1, StartFacts, NotCarrying, Zenon DEF flow, calls
<1>4. CASE clientGone \/ UNCHANGED vars
  <2>1. pc' = pc /\ UNCHANGED <<arg, taken, served>>
    BY <1>4, Zenon DEF clientGone, vars, flow, calls
  <2> QED BY <2>1, NotCarrying, Zenon
<1>5. ASSUME NEW t \in Threads, CloseStep(t) PROVE Carried'
  <2>1. CASE CloseOne(t)
    <3>1. UNCHANGED <<arg, taken, served, pc>>
      BY <2>1, Zenon DEF CloseOne, calls
    <3> QED BY <3>1, NotCarrying, Zenon
  <2>2. CASE ~CloseOne(t)
    <3>1. \E from \in {"once", "conn", "snapshot", "flows"} : \E to \in {"conn", "snapshot", "flows", "done"} : Moved(t, from, to)
      BY <1>5, <2>2, BodyFacts, SnapshotFacts, Zenon DEF CloseStep
    <3>2. UNCHANGED <<arg, taken, served>>
      BY <1>5, <2>2, BodyFacts, SnapshotFacts, Zenon DEF CloseStep, flow, calls
    <3> QED BY <1>1, <3>1, <3>2, Zenon
  <2> QED BY <2>1, <2>2, Zenon
<1>6. CASE OpenStep
  <2>1. UNCHANGED <<arg, taken, served>>
    BY <1>6, OpenFacts, TargetFacts, AnsweredFacts, Zenon DEF OpenStep, Entered, calls, flow
  <2>2. ASSUME NEW from \in {"read", "dial", "insert"}, NEW to \in {"dial", "insert", "ok", "read"}, Moved("control", from, to) PROVE Carried'
    BY <1>1, <2>1, <2>2, ThreadFacts, Zenon
  <2>3. CASE openAnswered /\ cur \in Flows
    <3>1. \A t \in Counted : pc'[t] = pc[t] \/ (pc[t] # "close" /\ pc'[t] \notin {"cf", "close", "attach", "pump"})
      BY <1>0, <2>3, AnsweredFacts, Zenon
    <3> QED BY <2>1, <3>1, NotCarrying, Zenon
  <2> QED BY <1>6, <2>2, <2>3, OpenFacts, TargetFacts, EnteredFacts, Zenon DEF OpenStep
<1>7. CASE StreamStep
  <2>1. CASE acceptStream
    <3>1. \E s \in Streams : Moved(s, "new", "head") /\ UNCHANGED <<served, calls>>
      BY <2>1, AcceptFacts, Zenon
    <3> QED BY <1>0, <1>1, <3>1, Zenon DEF calls
  <2>2. ASSUME NEW s \in Streams, NEW from \in {"head", "attach"}, Refuse(s, from) PROVE Carried'
    <3>1. Moved(s, from, "done") /\ UNCHANGED <<served, calls>>
      BY <2>2, RefuseFacts, Zenon
    <3> QED BY <1>0, <1>1, <3>1, Zenon DEF calls
  <2>3. ASSUME NEW s \in Streams, attach(s) PROVE Carried'
    <3>1. Moved(s, "attach", "pump") /\ served[s] \in TCPFlows /\ UNCHANGED <<served, arg, taken>>
      BY <2>3, AttachFacts, Zenon DEF calls
    <3>2. \A r \in Streams : pc'[r] \in {"attach", "pump"} => pc[r] \in {"attach", "pump"}
      BY <1>0, <3>1, Zenon DEF Moved
    <3>3. \A u \in Counted : (pc'[u] = "cf" => pc[u] = "cf") /\ (pc[u] = "close" => pc'[u] = "close")
      BY <1>0, <3>1, Zenon DEF Moved
    <3> QED BY <1>0, <3>1, <3>2, <3>3, Zenon DEF Carried
  <2>4. ASSUME NEW s \in Streams, NEW i \in Ids, streamFlow(s, i) PROVE Carried'
    <3>1. Moved(s, "head", "attach") /\ served'[s] \in TCPFlows /\ UNCHANGED <<arg, taken>>
          /\ \A r \in Streams : r # s => served'[r] = served[r]
      BY <2>4, LookupFacts, Zenon DEF calls
    <3>2. \A r \in Streams : r # s => pc'[r] = pc[r]
      BY <1>0, <3>1, Zenon DEF Moved
    <3>3. \A u \in Counted : (pc'[u] = "cf" => pc[u] = "cf") /\ (pc[u] = "close" => pc'[u] = "close")
      BY <1>0, <3>1, Zenon DEF Moved
    <3>4. pc'[s] = "attach"
      BY <3>1, Zenon DEF Moved
    <3>5. \A r \in Streams : pc'[r] \in {"attach", "pump"} => served'[r] \in TCPFlows
      BY <1>0, <3>1, <3>2, Zenon DEF Carried
    <3>6. \A r \in Streams : pc'[r] = "cf" => served'[r] \in TCPFlows /\ arg'[r] = FlowId[served'[r]]
      <4> SUFFICES ASSUME NEW r \in Streams, pc'[r] = "cf" PROVE served'[r] \in TCPFlows /\ arg'[r] = FlowId[served'[r]]
        BY Zenon
      <4>1. r # s
        BY <3>4, Zenon
      <4>2. pc[r] = "cf" /\ served'[r] = served[r]
        BY <3>1, <3>2, <4>1, Zenon
      <4> QED BY <1>0, <3>1, <4>2, Zenon DEF Carried
    <3> QED BY <1>0, <3>1, <3>3, <3>5, <3>6, Zenon DEF Carried
  <2> QED BY <1>7, <2>1, <2>2, <2>3, <2>4, Zenon DEF StreamStep
<1>8. ASSUME NEW t \in Counted, cfDelete(t) PROVE Carried'
  <2>1. PICK to \in {"read", "done", "close"} :
          /\ Moved(t, "cf", to) /\ (taken'[t] # {} => to = "close")
          /\ \A u \in Counted : u # t => taken'[u] = taken[u] /\ arg'[u] = arg[u]
    BY <1>8, TakeFacts, Zenon
  <2>2. UNCHANGED served
    BY <1>8, Zenon DEF cfDelete
  <2>3. pc'[t] = to /\ \A u \in Counted : u # t => pc'[u] = pc[u]
    BY <1>0, <2>1, Zenon DEF Moved
  <2>4. \A u \in Counted : pc'[u] = "cf" => u # t /\ pc[u] = "cf"
    BY <2>1, <2>3, Zenon
  <2>5. \A u \in Counted : pc'[u] = "cf" => arg'[u] \in Ids
    BY <1>0, <2>1, <2>4, Zenon DEF Carried
  <2>6. \A u \in Counted : taken'[u] # {} => pc'[u] = "close"
    BY <1>0, <2>1, <2>3, Zenon DEF Carried
  <2>7. \A s \in Streams : pc'[s] \in {"attach", "pump"} => pc[s] \in {"attach", "pump"}
    BY <1>0, <2>1, <2>3, Zenon
  <2>8. \A s \in Streams : pc'[s] = "cf" => pc[s] = "cf" /\ arg'[s] = arg[s]
    BY <1>0, <2>1, <2>4, Zenon
  <2> QED BY <1>0, <2>2, <2>5, <2>6, <2>7, <2>8, Zenon DEF Carried
<1>9. ASSUME NEW t \in Counted, cfClose(t) PROVE Carried'
  <2>1. /\ Moved(t, "close", Back(t)) /\ Back(t) \in {"read", "done"} /\ taken'[t] = {}
        /\ \A u \in Counted : u # t => taken'[u] = taken[u]
    BY <1>9, ShutFacts, Zenon
  <2>2. UNCHANGED <<served, arg>>
    BY <1>9, Zenon DEF cfClose
  <2>3. pc'[t] \in {"read", "done"} /\ \A u \in Counted : u # t => pc'[u] = pc[u]
    BY <1>0, <2>1, Zenon DEF Moved
  <2>4. \A u \in Counted : pc'[u] \in {"cf", "attach", "pump"} => pc[u] = pc'[u]
    BY <2>3, Zenon
  <2>5. \A u \in Counted : taken'[u] # {} => pc'[u] = "close"
    BY <1>0, <2>1, <2>3, Zenon DEF Carried
  <2> QED BY <1>0, <2>2, <2>4, <2>5, Zenon DEF Carried
<1> QED BY <1>2, <1>3, <1>4, <1>5, <1>6, <1>7, <1>8, <1>9, Cases, Zenon

-----------------------------------------------------------------------------
(* What happens to flows.                                                  *)

\* A step that leaves the tables, and what has been taken out of them, alone.
LEMMA SameHands ==
  ASSUME UNCHANGED <<tcpFlows, udpFlows, taken, closing>>
  PROVE  /\ InTables' = InTables /\ Taken' = Taken /\ Held' = Held
         /\ served' = served => Found' = Found
<1>1. InTables' = InTables
  BY Zenon DEF InTables
<1>2. Taken' = Taken
  BY Zenon DEF Taken
<1>3. Held' = Held
  BY <1>1, <1>2, Zenon DEF Held
<1> QED BY <1>1, <1>2, <1>3, Zenon DEF Found

\* A flow that leaves the tables goes into somebody's hands.
LEMMA TakeHeld ==
  ASSUME IInv, NEW t \in Counted, cfDelete(t)
  PROVE  /\ \A o \in Flows : o \in Held' <=> o \in Held
         /\ \A o \in Flows : o \in Found' <=> o \in Found
         /\ UNCHANGED <<target, stream, sending, served, late, conn, life, cur, server>>
<1>1. /\ \A o \in Flows : o \in Taken' <=> o \in Taken \/ (o \in InTables /\ FlowId[o] = arg[t])
      /\ \A o \in Flows : o \in InTables' <=> o \in InTables /\ FlowId[o] # arg[t]
  BY TakeFacts, Zenon
<1>2. UNCHANGED <<target, stream, sending, served, late, conn, life, cur, server>>
  BY Zenon DEF cfDelete
<1>3. closing' = closing /\ served' = served
  BY <1>2, Zenon DEF life
<1>4. \A o : o \in Held' <=> o \in InTables' \/ o \in Taken' \/ o \in closing'
  BY Zenon DEF Held
<1>5. \A o \in Flows : o \in Held' <=> o \in Held
  <2> SUFFICES ASSUME NEW o \in Flows PROVE o \in Held' <=> o \in Held
    BY Zenon
  <2>1. o \in Held <=> o \in InTables \/ o \in Taken \/ o \in closing
    BY Zenon DEF Held
  <2> QED BY <1>1, <1>3, <1>4, <2>1, Zenon
<1>6. \A o : o \in Found' <=> o \in Held' \/ o \in {served[s] : s \in Streams}
  BY <1>3, Zenon DEF Found
<1>7. \A o : o \in Found <=> o \in Held \/ o \in {served[s] : s \in Streams}
  BY Zenon DEF Found
<1> QED BY <1>2, <1>5, <1>6, <1>7, Zenon

\* Close's snapshot moves the flows from the tables to its own list.
LEMMA SnapshotHeld ==
  ASSUME IInv, NEW t \in Threads, Snapshot(t)
  PROVE  Held' = Held /\ Found' = Found
<1>1. closing = {} /\ closing' = InTables /\ InTables' = {} /\ Taken' = Taken /\ served' = served
  BY SnapshotFacts, Zenon
<1>2. Held' = Held
  <2>1. \A o : o \in Held' <=> o \in InTables' \/ o \in Taken' \/ o \in closing'
    BY Zenon DEF Held
  <2>2. \A o : o \in Held <=> o \in InTables \/ o \in Taken \/ o \in closing
    BY Zenon DEF Held
  <2>3. \A o : o \notin {}
    OBVIOUS
  <2>4. \A o : o \in Held' <=> o \in Held
    BY <1>1, <2>1, <2>2, <2>3, Zenon
  <2> QED BY <2>4
<1> QED BY <1>1, <1>2, Zenon DEF Found

\* A flow that is closed may leave everybody's hands; no other one does.
LEMMA ShutHeld ==
  ASSUME NEW S, Shut(S)
  PROVE  /\ \A o \in Flows : o \in Held' => o \in Held
         /\ \A o \in Flows : o \in Found' => o \in Found
         /\ \A o \in Flows \ S : o \in Held => o \in Held'
         /\ \A o \in S : o \in Flows /\ o \in Held /\ o \in Found /\ target'[o] = "closed"
         /\ \A o \in Flows \ S : target'[o] = target[o]
<1>1. /\ \A o : o \in Held' <=> o \in InTables' \/ o \in Taken' \cup closing'
      /\ \A o : o \in Held <=> o \in InTables \/ o \in Taken \cup closing
  BY Zenon DEF Held
<1>2. served' = served
  BY Zenon DEF Shut
<1>3. /\ \A o : o \in Found' <=> o \in Held' \/ o \in {served[s] : s \in Streams}
      /\ \A o : o \in Found <=> o \in Held \/ o \in {served[s] : s \in Streams}
  BY <1>2, Zenon DEF Found
<1>4. /\ S \subseteq Taken \cup closing /\ S \subseteq Flows /\ InTables' = InTables
      /\ \A o \in Flows : o \in Taken' \cup closing' => o \in Taken \cup closing
      /\ \A o \in Flows \ S : o \in Taken \cup closing => o \in Taken' \cup closing'
      /\ \A o \in S : target'[o] = "closed"
      /\ \A o \in Flows \ S : target'[o] = target[o]
  BY Zenon DEF Shut
<1>5. \A o \in Flows : o \in Held' => o \in Held
  BY <1>1, <1>4, Zenon
<1>6. \A o \in Flows : o \in Found' => o \in Found
  BY <1>3, <1>5, Zenon
<1>7. \A o \in Flows \ S : o \in Held => o \in Held'
  BY <1>1, <1>4, Zenon
<1>8. \A o \in S : o \in Flows /\ o \in Held /\ o \in Found
  BY <1>1, <1>3, <1>4, Zenon
<1> QED BY <1>4, <1>5, <1>6, <1>7, <1>8, Zenon

\* The flow that enters its table is the only one that is new to anybody.
LEMMA EnteredHeld ==
  ASSUME IInv, Entered
  PROVE  /\ \A o \in Flows : o \in Held' <=> o \in Held \/ o = cur
         /\ \A o \in Flows : o \in Found' <=> o \in Found \/ o = cur
<1>1. /\ \A o \in Flows : o \in InTables' <=> o \in InTables \/ o = cur
      /\ Taken' = Taken
  BY EnteredFacts, Zenon
<1>2. closing' = closing /\ served' = served
  BY Zenon DEF Entered, life
<1>3. /\ \A o : o \in Held' <=> o \in InTables' \/ o \in Taken' \/ o \in closing'
      /\ \A o : o \in Held <=> o \in InTables \/ o \in Taken \/ o \in closing
  BY Zenon DEF Held
<1>4. /\ \A o : o \in Found' <=> o \in Held' \/ o \in {served[s] : s \in Streams}
      /\ \A o : o \in Found <=> o \in Held \/ o \in {served[s] : s \in Streams}
  BY <1>2, Zenon DEF Found
<1>5. \A o \in Flows : o \in Held' <=> o \in Held \/ o = cur
  BY <1>1, <1>2, <1>3, Zenon
<1> QED BY <1>4, <1>5, Zenon

\* A stream's handler finds a flow that is in a table.
LEMMA LookupHeld ==
  ASSUME IInv, NEW s \in Streams, NEW i \in Ids, streamFlow(s, i)
  PROVE  /\ InTables' = InTables /\ Taken' = Taken /\ Held' = Held /\ closing' = closing
         /\ \A o \in Flows : o \in Found' => o \in Found
<1>1. /\ served'[s] \in InTables /\ \A r \in Streams : r # s => served'[r] = served[r]
      /\ UNCHANGED <<tcpFlows, udpFlows, taken, closing>>
  BY LookupFacts, Zenon DEF calls, life
<1>2. InTables' = InTables /\ Taken' = Taken /\ Held' = Held
  BY <1>1, SameHands, Zenon
<1>3. ASSUME NEW o \in Flows, o \in Found' PROVE o \in Found
  <2>1. o \in Held' \/ \E r \in Streams : o = served'[r]
    BY <1>3, Zenon DEF Found
  <2>2. CASE o \in Held'
    BY <1>2, <2>2, Zenon DEF Found
  <2>3. ASSUME NEW r \in Streams, o = served'[r] PROVE o \in Found
    <3>1. CASE r = s
      BY <1>1, <2>3, <3>1, Zenon DEF Found, Held
    <3>2. CASE r # s
      BY <1>1, <2>3, <3>2, Zenon DEF Found
    <3> QED BY <3>1, <3>2, Zenon
  <2> QED BY <2>1, <2>2, <2>3, Zenon
<1> QED BY <1>1, <1>2, <1>3, Zenon

\* A step that opens no flow: controlLoop goes nowhere in the opening of one.
LEMMA StillDialling ==
  ASSUME IInv, cur' = cur,
         pc'["control"] \in {"dial", "insert", "ok"} => pc'["control"] = pc["control"],
         \A o \in Flows : target'[o] = "none" => target[o] = "none",
         \A o \in Flows : target'[o] # target[o] => o \in Found \/ pc'["control"] \notin {"dial", "insert", "ok"},
         \A o \in Flows : o \in Found' => o \in Found,
         \A u \in UDPFlows : pc[u] = "new" => pc'[u] = "new" \/ (u = cur /\ pc["control"] = "ok" /\ pc'["control"] = "read")
  PROVE  Dialling'
<1>0. Dialling /\ \A u \in UDPFlows : u \in Flows
  BY FlowFacts, Zenon DEF IInv
<1>1. \A o \in Flows : o \in Found' => target'[o] # "none"
  BY <1>0, Zenon DEF Dialling
<1>2. pc'["control"] \in {"dial", "insert", "ok"} => cur' \in Flows /\ (cur' \in UDPFlows => pc'[cur'] = "new")
  <2> SUFFICES ASSUME pc'["control"] \in {"dial", "insert", "ok"} PROVE cur \in Flows /\ (cur \in UDPFlows => pc'[cur] = "new")
    BY Zenon
  <2>1. cur \in Flows /\ (cur \in UDPFlows => pc[cur] = "new")
    BY <1>0, Zenon DEF Dialling
  <2>2. pc'["control"] # "read"
    OBVIOUS
  <2> QED BY <2>1, <2>2, Zenon
<1>3. pc'["control"] = "dial" => target'[cur'] = "none"
  <2> SUFFICES ASSUME pc'["control"] = "dial" PROVE target'[cur] = "none"
    BY Zenon
  <2>1. pc["control"] = "dial" /\ cur \in Flows /\ pc'["control"] \in {"dial", "insert", "ok"}
    BY <1>2, Zenon
  <2>2. target[cur] = "none" /\ cur \notin Found
    BY <1>0, <2>1, Zenon DEF Dialling
  <2> QED BY <2>1, <2>2, Zenon
<1>4. pc'["control"] = "insert" => cur' \notin Found'
  <2> SUFFICES ASSUME pc'["control"] = "insert" PROVE cur \notin Found'
    BY Zenon
  <2>1. pc["control"] = "insert" /\ cur \in Flows
    BY <1>2, Zenon
  <2> QED BY <1>0, <2>1, Zenon DEF Dialling
<1>5. pc'["control"] \in {"insert", "ok"} => target'[cur'] # "none"
  <2> SUFFICES ASSUME pc'["control"] \in {"insert", "ok"} PROVE target'[cur] # "none"
    BY Zenon
  <2>1. pc["control"] \in {"insert", "ok"} /\ cur \in Flows
    BY <1>2, Zenon
  <2>2. target[cur] # "none"
    BY <1>0, <2>1, Zenon DEF Dialling
  <2> QED BY <2>1, <2>2, Zenon
<1>6. \A u \in UDPFlows : target'[u] = "none" => pc'[u] = "new"
  <2> SUFFICES ASSUME NEW u \in UDPFlows, target'[u] = "none" PROVE pc'[u] = "new"
    BY Zenon
  <2>1. target[u] = "none" /\ pc[u] = "new"
    BY <1>0, Zenon DEF Dialling
  <2>2. pc["control"] = "ok" => u # cur
    BY <1>0, <2>1, Zenon DEF Dialling
  <2> QED BY <2>1, <2>2, Zenon
<1> QED BY <1>1, <1>2, <1>3, <1>4, <1>5, <1>6, Zenon DEF Dialling

\* The same when one thread moves.
LEMMA StillDiallingMoved ==
  ASSUME IInv, cur' = cur, NEW t \in Threads, NEW from, NEW to, Moved(t, from, to),
         t \in UDPFlows => from # "new", t = "control" => to \notin {"dial", "insert", "ok"},
         \A o \in Flows : target'[o] = "none" => target[o] = "none",
         \A o \in Flows : target'[o] # target[o] => o \in Found,
         \A o \in Flows : o \in Found' => o \in Found
  PROVE  Dialling'
<1>1. pc'["control"] \in {"dial", "insert", "ok"} => pc'["control"] = pc["control"]
  BY ThreadFacts, Zenon DEF Moved
<1>2. \A u \in UDPFlows : pc[u] = "new" => pc'[u] = "new"
  BY ThreadFacts, Zenon DEF Moved
<1> QED BY <1>1, <1>2, StillDialling, Zenon

\* Dialling is kept.
LEMMA DiallingStep == IInv /\ Next => Dialling'
<1> SUFFICES ASSUME IInv, Next PROVE Dialling'
  OBVIOUS
<1>0. Dialling /\ (\A u \in UDPFlows : u \in Flows) /\ (\A t \in Counted : t \in Threads)
  BY ThreadFacts, FlowFacts, Zenon DEF IInv
<1>1. ASSUME UNCHANGED <<tcpFlows, udpFlows, taken, closing, target, served>>
      PROVE  /\ \A o \in Flows : target'[o] = "none" => target[o] = "none"
             /\ \A o \in Flows : target'[o] # target[o] => o \in Found
             /\ Found' = Found
  BY <1>1, SameHands, Zenon
<1>2. CASE PlainStep
  <2>1. PICK t \in Threads, from \in Labels, to \in Labels : Plain(t, from, to)
    BY <1>2, Zenon DEF PlainStep
  <2>2. /\ Moved(t, from, to) /\ UNCHANGED <<tcpFlows, udpFlows, taken, closing, target, served, cur>>
        /\ to \notin {"dial", "insert", "ok"} /\ (t \in Counted => from # "new")
    BY <2>1, Zenon DEF Plain, flow, life
  <2>3. t \in UDPFlows => t \in Counted
    BY ThreadFacts, Zenon
  <2> QED BY <1>1, <2>2, <2>3, StillDiallingMoved, Zenon
<1>3. CASE start
  <2>1. UNCHANGED <<tcpFlows, udpFlows, taken, closing, target, served, cur>>
    BY <1>3, StartFacts, Zenon DEF flow, life, calls
  <2>2. pc'["control"] = "read" /\ \A u \in UDPFlows : pc'[u] = pc[u]
    <3>1. \A u \in UDPFlows : u \in Threads /\ u \notin {"run", "control", "accept"}
      BY ThreadFacts, Zenon
    <3> QED BY <1>3, <3>1, StartFacts, Zenon
  <2> QED BY <1>1, <2>1, <2>2, StillDialling, Zenon
<1>4. CASE clientGone \/ UNCHANGED vars
  <2>1. pc' = pc /\ UNCHANGED <<tcpFlows, udpFlows, taken, closing, target, served, cur>>
    BY <1>4, Zenon DEF clientGone, vars, flow, calls, life
  <2> QED BY <1>1, <2>1, StillDialling, Zenon
<1>5. ASSUME NEW t \in Threads, CloseStep(t) PROVE Dialling'
  <2>1. CASE CloseOne(t)
    <3>1. PICK o \in closing : Shut({o})
      BY <2>1, CloseOneFacts, Zenon
    <3>2. pc' = pc /\ cur' = cur
      BY <2>1, <3>1, CloseOneFacts, Zenon DEF Shut
    <3>3. /\ \A x \in Flows : x \in Found' => x \in Found
          /\ \A x \in {o} : x \in Found /\ target'[x] = "closed"
          /\ \A x \in Flows \ {o} : target'[x] = target[x]
      BY <3>1, ShutHeld, Zenon
    <3>4. \A x \in Flows : (target'[x] = "none" => target[x] = "none") /\ (target'[x] # target[x] => x \in Found)
      BY <3>3, Zenon
    <3> QED BY <3>2, <3>3, <3>4, StillDialling, Zenon
  <2>2. CASE Snapshot(t)
    <3>1. Moved(t, "snapshot", "flows") /\ target' = target /\ cur' = cur /\ Found' = Found
      BY <2>2, SnapshotFacts, SnapshotHeld, Zenon DEF calls
    <3> QED BY <3>1, StillDiallingMoved, Zenon
  <2>3. CASE EnterBody(t) \/ CloseConn(t) \/ CloseReturn(t)
    <3>1. UNCHANGED <<tcpFlows, udpFlows, taken, closing, target, served, cur>>
      BY <2>3, BodyFacts, Zenon DEF flow, calls
    <3>2. PICK from \in {"once", "conn", "flows"}, to \in {"conn", "snapshot", "done"} : Moved(t, from, to)
      BY <2>3, BodyFacts, Zenon
    <3> QED BY <1>1, <3>1, <3>2, StillDiallingMoved, Zenon
  <2> QED BY <1>5, <2>1, <2>2, <2>3, Zenon DEF CloseStep
<1>6. CASE OpenStep
  <2>1. ASSUME NEW o \in Flows, frameOpen(o) PROVE Dialling'
    <3>1. /\ Moved("control", "read", "dial") /\ cur' = o /\ target[o] = "none"
          /\ UNCHANGED <<tcpFlows, udpFlows, taken, closing, target, served>>
      BY <2>1, OpenFacts, Zenon DEF flow, life
    <3>2. Found' = Found /\ \A u \in UDPFlows : pc'[u] = pc[u]
      BY <1>1, <3>1, ThreadFacts, Zenon DEF Moved
    <3>3. pc'["control"] = "dial"
      BY <3>1, Zenon DEF Moved
    <3>4. cur' \in UDPFlows => pc'[cur'] = "new"
      BY <1>0, <3>1, <3>2, Zenon DEF Dialling
    <3> QED BY <1>0, <3>1, <3>2, <3>3, <3>4, Zenon DEF Dialling
  <2>2. CASE Dialled
    <3>1. /\ cur \in Flows /\ target'[cur] = "open" /\ Moved("control", "dial", "insert")
          /\ \A o \in Flows : o # cur => target'[o] = target[o]
          /\ UNCHANGED <<tcpFlows, udpFlows, taken, closing, served, cur>>
      BY <2>2, TargetFacts, Zenon DEF calls, life
    <3>2. Found' = Found /\ \A u \in UDPFlows : pc'[u] = pc[u]
      BY <3>1, SameHands, ThreadFacts, Zenon DEF Moved
    <3>3. pc["control"] = "dial" /\ pc'["control"] = "insert"
      BY <3>1, Zenon DEF Moved
    <3>4. cur \notin Found /\ (cur \in UDPFlows => pc[cur] = "new")
      BY <1>0, <3>1, <3>3, Zenon DEF Dialling
    <3>5. \A o \in Flows : target'[o] = "none" => target[o] = "none"
      BY <3>1, Zenon
    <3>6. \A o \in Flows : o \in Found' => target'[o] # "none"
      BY <1>0, <3>2, <3>5, Zenon DEF Dialling
    <3>7. \A u \in UDPFlows : target'[u] = "none" => pc'[u] = "new"
      <4>1. \A u \in UDPFlows : target[u] = "none" => pc[u] = "new"
        BY <1>0, Zenon DEF Dialling
      <4> QED BY <1>0, <3>2, <3>5, <4>1, Zenon
    <3>8. cur' = cur /\ target'[cur] # "none"
      BY <3>1, Zenon
    <3> QED BY <3>1, <3>2, <3>3, <3>4, <3>6, <3>7, <3>8, Zenon DEF Dialling
  <2>3. CASE Entered
    <3>1. cur \in Flows /\ Moved("control", "insert", "ok") /\ \A o \in Flows : o \in Found' <=> o \in Found \/ o = cur
      BY <2>3, EnteredFacts, EnteredHeld, Zenon
    <3>2. target' = target /\ cur' = cur
      BY <2>3, Zenon DEF Entered, calls
    <3>3. pc["control"] = "insert" /\ pc'["control"] = "ok" /\ \A u \in UDPFlows : pc'[u] = pc[u]
      BY <3>1, ThreadFacts, Zenon DEF Moved
    <3>4. target[cur] # "none" /\ (cur \in UDPFlows => pc[cur] = "new")
      BY <1>0, <3>3, Zenon DEF Dialling
    <3>5. \A o \in Flows : o \in Found' => target'[o] # "none"
      BY <1>0, <3>1, <3>2, <3>4, Zenon DEF Dialling
    <3>6. \A u \in UDPFlows : target'[u] = "none" => pc'[u] = "new"
      BY <1>0, <3>2, <3>3, Zenon DEF Dialling
    <3> QED BY <3>1, <3>2, <3>3, <3>4, <3>5, <3>6, Zenon DEF Dialling
  <2>4. CASE NumberTaken
    <3>1. /\ cur \in Flows /\ target'[cur] = "closed" /\ Moved("control", "insert", "read")
          /\ \A o \in Flows : o # cur => target'[o] = target[o]
          /\ UNCHANGED <<tcpFlows, udpFlows, taken, closing, served, cur>>
      BY <2>4, TargetFacts, Zenon DEF calls, life
    <3>2. Found' = Found /\ pc'["control"] = "read" /\ \A u \in UDPFlows : pc'[u] = pc[u]
      BY <3>1, SameHands, ThreadFacts, Zenon DEF Moved
    <3>3. \A o \in Flows : target'[o] = "none" => target[o] = "none"
      BY <3>1, Zenon
    <3> QED BY <3>1, <3>2, <3>3, StillDialling, Zenon
  <2>5. CASE openAnswered /\ cur \in Flows
    <3>1. UNCHANGED <<tcpFlows, udpFlows, taken, closing, target, served, cur>>
      BY <2>5, AnsweredFacts, Zenon DEF flow, life, calls
    <3>2. pc["control"] = "ok" /\ pc'["control"] = "read"
      BY <2>5, AnsweredFacts, Zenon
    <3>3. \A u \in UDPFlows : u # cur => pc'[u] = pc[u]
      BY <2>5, AnsweredFacts, ThreadFacts, Zenon
    <3> QED BY <1>1, <3>1, <3>2, <3>3, StillDialling, Zenon
  <2> QED BY <1>6, <2>1, <2>2, <2>3, <2>4, <2>5, Zenon DEF OpenStep
<1>7. CASE StreamStep
  <2>1. ASSUME NEW s \in Streams, NEW from, NEW to, Moved(s, from, to), UNCHANGED <<tcpFlows, udpFlows, taken, closing, target, served, cur>>
        PROVE  Dialling'
    BY <1>1, <2>1, ThreadFacts, StillDiallingMoved, Zenon
  <2>2. CASE acceptStream
    <3>1. \E s \in Streams : Moved(s, "new", "head") /\ UNCHANGED <<tcpFlows, udpFlows, taken, closing, target, served, cur>>
      BY <2>2, AcceptFacts, Zenon DEF calls, life
    <3> QED BY <2>1, <3>1, Zenon
  <2>3. ASSUME NEW s \in Streams, NEW from \in {"head", "attach"}, Refuse(s, from) PROVE Dialling'
    <3>1. Moved(s, from, "done") /\ UNCHANGED <<tcpFlows, udpFlows, taken, closing, target, served, cur>>
      BY <2>3, RefuseFacts, Zenon DEF calls, life
    <3> QED BY <2>1, <3>1, Zenon
  <2>4. ASSUME NEW s \in Streams, attach(s) PROVE Dialling'
    <3>1. Moved(s, "attach", "pump") /\ UNCHANGED <<tcpFlows, udpFlows, taken, closing, target, served, cur>>
      BY <2>4, AttachFacts, Zenon DEF calls, life
    <3> QED BY <2>1, <3>1, Zenon
  <2>5. ASSUME NEW s \in Streams, NEW i \in Ids, streamFlow(s, i) PROVE Dialling'
    <3>1. Moved(s, "head", "attach") /\ target' = target /\ cur' = cur /\ \A o \in Flows : o \in Found' => o \in Found
      BY <2>5, LookupFacts, LookupHeld, Zenon DEF calls
    <3> QED BY <3>1, ThreadFacts, StillDiallingMoved, Zenon
  <2> QED BY <1>7, <2>2, <2>3, <2>4, <2>5, Zenon DEF StreamStep
<1>8. ASSUME NEW t \in Counted, cfDelete(t) PROVE Dialling'
  <2>1. PICK to \in {"read", "done", "close"} : Moved(t, "cf", to)
    BY <1>8, TakeFacts, ZenonT(30)
  <2>2. target' = target /\ cur' = cur /\ \A o \in Flows : o \in Found' => o \in Found
    BY <1>8, TakeHeld, Zenon
  <2> QED BY <1>0, <2>1, <2>2, StillDiallingMoved, Zenon
<1>9. ASSUME NEW t \in Counted, cfClose(t) PROVE Dialling'
  <2>1. PICK to \in {"read", "done"} : Moved(t, "close", to) /\ Shut(taken[t])
    BY <1>9, ShutFacts, Zenon
  <2>2. /\ \A x \in Flows : x \in Found' => x \in Found
        /\ \A x \in taken[t] : x \in Found /\ target'[x] = "closed"
        /\ \A x \in Flows \ taken[t] : target'[x] = target[x]
    BY <2>1, ShutHeld, Zenon
  <2>3. \A x \in Flows : (target'[x] = "none" => target[x] = "none") /\ (target'[x] # target[x] => x \in Found)
    BY <2>2, Zenon
  <2>4. cur' = cur
    BY <2>1, Zenon DEF Shut
  <2> QED BY <1>0, <2>1, <2>2, <2>3, <2>4, StillDiallingMoved, Zenon
<1> QED BY <1>2, <1>3, <1>4, <1>5, <1>6, <1>7, <1>8, <1>9, Cases, Zenon

\* The connection is closed by the time that the tables have been emptied.
LEMMA LateShut == IInv /\ Late => ~connOpen
BY Zenon DEF IInv, OneClose, Late

\* A step that enters no flow, and that leaves the one that controlLoop has
\* entered to controlLoop.
LEMMA NotEmptying ==
  ASSUME IInv, Late' => Late, cur' = cur, served' = served,
         \A o : o \in InTables' => o \in InTables,
         InTables' # {} /\ Late /\ pc["control"] = "ok" => pc'["control"] = "ok" \/ (pc'["control"] = "cf" /\ arg'["control"] = FlowId[cur]),
         InTables' # {} /\ Late /\ pc["control"] = "cf" /\ arg["control"] = FlowId[cur] => pc'["control"] = "cf" /\ arg'["control"] = FlowId[cur]
  PROVE  Emptied'
<1> SUFFICES ASSUME Late'
             PROVE  /\ InTables' \subseteq {cur'}
                    /\ \A s \in Streams : served'[s] \notin InTables'
                    /\ InTables' # {} => \/ pc'["control"] = "ok"
                                         \/ pc'["control"] = "cf" /\ arg'["control"] = FlowId[cur']
  BY Zenon DEF Emptied
<1>1. /\ InTables \subseteq {cur} /\ \A s \in Streams : served[s] \notin InTables
      /\ InTables # {} => pc["control"] = "ok" \/ (pc["control"] = "cf" /\ arg["control"] = FlowId[cur])
  BY Zenon DEF IInv, Emptied
<1>2. InTables' # {} => InTables # {}
  BY Zenon
<1>3. InTables' \subseteq {cur'} /\ \A s \in Streams : served'[s] \notin InTables'
  BY <1>1, Zenon
<1> QED BY <1>1, <1>2, <1>3, Zenon

\* The same when one thread moves.
LEMMA NotEmptyingMoved ==
  ASSUME IInv, NEW t \in Threads, NEW from, NEW to, Moved(t, from, to), to # "flows",
         once' = "done" => once = "done" \/ from = "flows", cur' = cur, served' = served, arg'["control"] = arg["control"],
         \A o : o \in InTables' => o \in InTables,
         t = "control" => from \notin {"ok", "cf"}
  PROVE  Emptied'
<1>1. Late' => Late
  BY Zenon DEF Late, Moved
<1>2. pc["control"] \in {"ok", "cf"} => pc'["control"] = pc["control"]
  BY ThreadFacts, Zenon DEF Moved
<1> QED BY <1>1, <1>2, NotEmptying, Zenon

\* Emptied is kept.
LEMMA EmptiedStep == IInv /\ Next => Emptied'
<1> SUFFICES ASSUME IInv, Next PROVE Emptied'
  OBVIOUS
<1>0. Emptied /\ (\A t \in Counted : t \in Threads) /\ (\A s \in Streams : s \in Threads /\ s # "control") /\ "control" \in Threads /\ "control" \in Counted
  BY ThreadFacts, Zenon DEF IInv
<1>1. ASSUME Late' => InTables' = {} PROVE Emptied'
  BY <1>1, Zenon DEF Emptied
<1>2. ASSUME UNCHANGED <<tcpFlows, udpFlows>> PROVE InTables' = InTables
  BY <1>2, Zenon DEF InTables
<1>3. CASE PlainStep
  <2>1. PICK t \in Threads, from \in Labels, to \in Labels : Plain(t, from, to)
    BY <1>3, Zenon DEF PlainStep
  <2>2. /\ Moved(t, from, to) /\ UNCHANGED <<tcpFlows, udpFlows, served, cur, once>>
        /\ to \notin Body /\ from \notin {"cf"}
        /\ t = "control" /\ from = "ok" => to = "cf" /\ arg'["control"] = FlowId[cur]
        /\ \A u \in Counted : u # t => arg'[u] = arg[u]
    BY <2>1, Zenon DEF Plain, flow, life
  <2>3. to # "flows"
    BY <2>2, Zenon DEF Body
  <2>4. Late' => Late
    BY <2>2, <2>3, Zenon DEF Late, Moved
  <2>5. InTables' = InTables
    BY <1>2, <2>2, Zenon
  <2>6. CASE t # "control"
    <3>1. pc'["control"] = pc["control"] /\ arg'["control"] = arg["control"]
      BY <1>0, <2>2, <2>6, Zenon DEF Moved
    <3> QED BY <2>2, <2>4, <2>5, <3>1, NotEmptying, Zenon
  <2>7. CASE t = "control"
    <3>1. pc["control"] # "cf" /\ (pc["control"] = "ok" => pc'["control"] = "cf" /\ arg'["control"] = FlowId[cur])
      BY <2>2, <2>7, Zenon DEF Moved
    <3> QED BY <2>2, <2>4, <2>5, <3>1, NotEmptying, Zenon
  <2> QED BY <2>6, <2>7, Zenon
<1>4. CASE start
  <2>1. UNCHANGED <<tcpFlows, udpFlows, served, cur, once, arg>>
    BY <1>4, StartFacts, Zenon DEF flow, life, calls
  <2>2. pc["control"] \in {"new", "done"} /\ pc'["control"] = "read" /\ pc'["run"] = "wait" /\ pc'["accept"] = "read"
    BY <1>0, <1>4, StartFacts, Zenon
  <2>3. \A t \in Threads : pc'[t] = "flows" => pc[t] = "flows"
    BY <1>4, <2>2, StartFacts, Zenon
  <2>4. Late' => Late
    BY <2>1, <2>3, Zenon DEF Late
  <2>5. InTables' = InTables
    BY <1>2, <2>1, Zenon
  <2> QED BY <2>1, <2>2, <2>4, <2>5, NotEmptying, Zenon
<1>5. CASE clientGone \/ UNCHANGED vars
  <2>1. pc' = pc /\ UNCHANGED <<tcpFlows, udpFlows, served, cur, once, arg>>
    BY <1>5, Zenon DEF clientGone, vars, flow, calls, life
  <2>2. Late' => Late
    BY <2>1, Zenon DEF Late
  <2>3. InTables' = InTables
    BY <1>2, <2>1, Zenon
  <2> QED BY <2>1, <2>2, <2>3, NotEmptying, Zenon
<1>6. ASSUME NEW t \in Threads, CloseStep(t) PROVE Emptied'
  <2>1. CASE CloseOne(t)
    <3>1. PICK o \in closing : Shut({o})
      BY <2>1, CloseOneFacts, Zenon
    <3>2. pc' = pc /\ UNCHANGED <<served, cur, once, arg>> /\ InTables' = InTables
      BY <2>1, <3>1, CloseOneFacts, Zenon DEF Shut
    <3>3. Late' => Late
      BY <3>2, Zenon DEF Late
    <3> QED BY <3>2, <3>3, NotEmptying, Zenon
  <2>2. CASE Snapshot(t)
    BY <1>1, <2>2, SnapshotFacts, Zenon
  <2>3. CASE EnterBody(t) \/ CloseConn(t)
    <3>1. UNCHANGED <<served, cur, arg>> /\ InTables' = InTables /\ (once' = "done" => once = "done")
      BY <2>3, BodyFacts, Zenon DEF flow, calls
    <3>2. PICK from \in {"once", "conn"}, to \in {"conn", "snapshot"} : Moved(t, from, to)
      BY <2>3, BodyFacts, Zenon
    <3> QED BY <3>1, <3>2, NotEmptyingMoved, Zenon
  <2>4. CASE CloseReturn(t)
    <3>1. UNCHANGED <<served, cur, arg>> /\ InTables' = InTables /\ Moved(t, "flows", "done")
      BY <2>4, BodyFacts, Zenon DEF flow, calls
    <3> QED BY <3>1, NotEmptyingMoved, Zenon
  <2> QED BY <1>6, <2>1, <2>2, <2>3, <2>4, Zenon DEF CloseStep
<1>7. CASE OpenStep
  <2>1. ASSUME NEW o \in Flows, frameOpen(o) PROVE Emptied'
    <3>1. Moved("control", "read", "dial") /\ UNCHANGED <<tcpFlows, udpFlows, once>>
      BY <2>1, OpenFacts, Zenon DEF flow, life
    <3>2. pc["control"] = "read" /\ (Late' => Late)
      BY <3>1, Zenon DEF Moved, Late
    <3>3. Late => InTables = {}
      BY <1>0, <3>2, Zenon DEF Emptied
    <3> QED BY <1>1, <1>2, <3>1, <3>2, <3>3, Zenon
  <2>2. CASE Dialled \/ NumberTaken
    <3>1. InTables' = InTables /\ UNCHANGED <<served, cur, arg, once>>
      BY <2>2, TargetFacts, Zenon DEF calls, life
    <3>2. PICK from \in {"dial", "insert"}, to \in {"insert", "read"} : Moved("control", from, to)
      BY <2>2, TargetFacts, Zenon
    <3> QED BY <1>0, <3>1, <3>2, NotEmptyingMoved, Zenon
  <2>3. CASE Entered
    <3>1. /\ cur \in Flows /\ Moved("control", "insert", "ok")
          /\ \A o \in Flows : o \in InTables' <=> o \in InTables \/ o = cur
          /\ InTables' \subseteq Flows
      BY <2>3, EnteredFacts, Zenon
    <3>2. UNCHANGED <<served, cur, once>>
      BY <2>3, Zenon DEF Entered, calls, life
    <3>3. pc["control"] = "insert" /\ pc'["control"] = "ok" /\ (Late' => Late)
      BY <3>1, <3>2, Zenon DEF Moved, Late
    <3>4. cur \notin Found
      BY <3>3, Zenon DEF IInv, Dialling
    <3>5. \A s \in Streams : served[s] # cur
      BY <3>4, Zenon DEF Found
    <3>6. Late => InTables = {}
      BY <1>0, <3>3, Zenon DEF Emptied
    <3>7. Late => InTables' \subseteq {cur}
      BY <3>1, <3>6, Zenon
    <3> QED BY <3>2, <3>3, <3>5, <3>7, Zenon DEF Emptied
  <2>4. CASE openAnswered /\ cur \in Flows
    <3>1. once' = once /\ connOpen
      BY <2>4, AnsweredFacts, Zenon DEF life
    <3>2. \A t \in Threads : pc'[t] = "flows" => pc[t] = "flows"
      BY <2>4, AnsweredFacts, Zenon
    <3>3. Late' => Late
      BY <3>1, <3>2, Zenon DEF Late
    <3> QED BY <1>1, <3>1, <3>3, LateShut, Zenon
  <2> QED BY <1>7, <2>1, <2>2, <2>3, <2>4, Zenon DEF OpenStep
<1>8. CASE StreamStep
  <2>1. ASSUME NEW s \in Streams, NEW from, NEW to, Moved(s, from, to), to # "flows",
               UNCHANGED <<tcpFlows, udpFlows, served, cur, once, arg>>
        PROVE  Emptied'
    BY <1>0, <1>2, <2>1, NotEmptyingMoved, Zenon
  <2>2. CASE acceptStream
    <3>1. \E s \in Streams : Moved(s, "new", "head") /\ UNCHANGED <<tcpFlows, udpFlows, served, cur, once, arg>>
      BY <2>2, AcceptFacts, Zenon DEF calls, life
    <3> QED BY <2>1, <3>1, Zenon
  <2>3. ASSUME NEW s \in Streams, NEW from \in {"head", "attach"}, Refuse(s, from) PROVE Emptied'
    <3>1. Moved(s, from, "done") /\ UNCHANGED <<tcpFlows, udpFlows, served, cur, once, arg>>
      BY <2>3, RefuseFacts, Zenon DEF calls, life
    <3> QED BY <2>1, <3>1, Zenon
  <2>4. ASSUME NEW s \in Streams, attach(s) PROVE Emptied'
    <3>1. Moved(s, "attach", "pump") /\ UNCHANGED <<tcpFlows, udpFlows, served, cur, once, arg>>
      BY <2>4, AttachFacts, Zenon DEF calls, life
    <3> QED BY <2>1, <3>1, Zenon
  <2>5. ASSUME NEW s \in Streams, NEW i \in Ids, streamFlow(s, i) PROVE Emptied'
    <3>1. Moved(s, "head", "attach") /\ connOpen /\ once' = once
      BY <2>5, LookupFacts, Zenon DEF life
    <3>2. Late' => Late
      BY <3>1, Zenon DEF Moved, Late
    <3> QED BY <1>1, <3>1, <3>2, LateShut, Zenon
  <2> QED BY <1>8, <2>2, <2>3, <2>4, <2>5, Zenon DEF StreamStep
<1>9. ASSUME NEW t \in Counted, cfDelete(t) PROVE Emptied'
  <2>1. PICK to \in {"read", "done", "close"} : Moved(t, "cf", to)
    BY <1>9, TakeFacts, Zenon
  <2>7. \A u \in Counted : u # t => taken'[u] = taken[u] /\ arg'[u] = arg[u]
    BY <1>9, TakeFacts, Zenon
  <2>8. \A o \in Flows : o \in InTables' <=> o \in InTables /\ FlowId[o] # arg[t]
    BY <1>9, TakeFacts, Zenon
  <2>2. UNCHANGED <<served, cur, once>>
    BY <1>9, TakeHeld, Zenon DEF life
  <2>3. InTables' \subseteq Flows
    <3>1. tcpFlows' \in [Ids -> TCPFlows \cup {None}] /\ udpFlows' \in [Ids -> UDPFlows \cup {None}]
      BY <1>9, TakeFacts, Zenon
    <3>2. \A i \in Ids : (tcpFlows'[i] = None \/ tcpFlows'[i] \in Flows) /\ (udpFlows'[i] = None \/ udpFlows'[i] \in Flows)
      BY <3>1, FlowFacts
    <3>3. \A o \in InTables' : o # None /\ \E i \in Ids : o = tcpFlows'[i] \/ o = udpFlows'[i]
      BY Zenon DEF InTables
    <3> QED BY <3>2, <3>3, Zenon
  <2>4. \A o : o \in InTables' => o \in InTables /\ FlowId[o] # arg[t]
    BY <2>8, <2>3, Zenon
  <2>5. CASE t # "control"
    BY <1>0, <2>1, <2>7, <2>2, <2>4, <2>5, NotEmptyingMoved, Zenon
  <2>6. CASE t = "control"
    <3>1. Late' => Late
      BY <2>1, <2>2, Zenon DEF Moved, Late
    <3>2. pc["control"] = "cf"
      BY <2>1, <2>6, Zenon DEF Moved
    <3>3. Late => InTables \subseteq {cur} /\ (InTables # {} => arg["control"] = FlowId[cur])
      BY <1>0, <3>2, Zenon DEF Emptied
    <3>4. Late => InTables' = {}
      <4> SUFFICES ASSUME Late, NEW o \in InTables' PROVE FALSE
        BY Zenon
      <4>1. o \in InTables /\ FlowId[o] # arg["control"]
        BY <2>4, <2>6, Zenon
      <4>2. o = cur /\ InTables # {}
        BY <3>3, <4>1, Zenon
      <4> QED BY <3>3, <4>1, <4>2, Zenon
    <3> QED BY <1>1, <3>1, <3>4, Zenon
  <2> QED BY <2>5, <2>6, Zenon
<1>10. ASSUME NEW t \in Counted, cfClose(t) PROVE Emptied'
  <2>1. PICK to \in {"read", "done"} : Moved(t, "close", to) /\ Shut(taken[t])
    BY <1>10, ShutFacts, Zenon
  <2>2. UNCHANGED <<served, cur, once, arg>> /\ InTables' = InTables
    BY <2>1, Zenon DEF Shut
  <2> QED BY <1>0, <2>1, <2>2, NotEmptyingMoved, Zenon
<1> QED BY <1>3, <1>4, <1>5, <1>6, <1>7, <1>8, <1>9, <1>10, Cases, Zenon

\* What becomes of a flow: whoever has it keeps it until its target is closed,
\* which it stays; and an open target is somebody's.
Fate ==
  \A o \in Flows :
    /\ o \in Held => o \in Held' \/ target'[o] = "closed"
    /\ target[o] = "closed" => target'[o] = "closed"
    /\ target'[o] = "open" => o \in Held' \/ (o = cur' /\ pc'["control"] = "insert")

\* An open target is in a table or somebody's hands.
LEMMA StrayFacts ==
  ASSUME IInv, NEW o \in Flows, target[o] = "open"
  PROVE  o \in Held \/ (o = cur /\ pc["control"] = "insert")
<1>1. o \in InTables \/ (o = cur /\ pc["control"] = "insert") \/ (\E t \in Counted : o \in taken[t]) \/ o \in closing
  BY Zenon DEF IInv, NoStrayTarget
<1>2. (\E t \in Counted : o \in taken[t]) => o \in Taken
  BY Zenon DEF Taken
<1> QED BY <1>1, <1>2, Zenon DEF Held

\* Nobody loses a flow by a step that leaves tables, hands and targets alone.
LEMMA SameFate ==
  ASSUME IInv, Held' = Held, target' = target,
         pc["control"] = "insert" => cur' = cur /\ pc'["control"] = "insert"
  PROVE  Fate
BY StrayFacts, Zenon DEF Fate

\* The same when one thread moves that is not controlLoop, or is not opening a flow.
LEMMA SameFateMoved ==
  ASSUME IInv, NEW t \in Threads, NEW from, NEW to, Moved(t, from, to), t # "control" \/ from # "insert",
         t # "control" => cur' = cur, Held' = Held, target' = target
  PROVE  Fate
<1>1. pc["control"] = "insert" => cur' = cur /\ pc'["control"] = "insert"
  BY ThreadFacts, Zenon DEF Moved
<1> QED BY <1>1, SameFate, Zenon

\* Nor by one that closes flows.
LEMMA ShutFate ==
  ASSUME IInv, NEW S, Shut(S), pc["control"] = "insert" => pc'["control"] = "insert"
  PROVE  Fate
<1>1. cur' = cur
  BY Zenon DEF Shut
<1>2. /\ \A o \in Flows \ S : o \in Held => o \in Held'
      /\ \A o \in S : o \in Flows /\ o \in Held /\ o \in Found /\ target'[o] = "closed"
      /\ \A o \in Flows \ S : target'[o] = target[o]
  BY ShutHeld, Zenon
<1> SUFFICES ASSUME NEW o \in Flows
             PROVE  /\ o \in Held => o \in Held' \/ target'[o] = "closed"
                    /\ target[o] = "closed" => target'[o] = "closed"
                    /\ target'[o] = "open" => o \in Held' \/ (o = cur' /\ pc'["control"] = "insert")
  BY Zenon DEF Fate
<1>3. CASE o \in S
  BY <1>2, <1>3, Zenon
<1>4. CASE o \notin S
  <2>1. target'[o] = target[o] /\ (o \in Held => o \in Held')
    BY <1>2, <1>4, Zenon
  <2>2. target[o] = "open" => o \in Held \/ (o = cur /\ pc["control"] = "insert")
    BY StrayFacts, Zenon
  <2> QED BY <1>1, <2>1, <2>2, Zenon
<1> QED BY <1>3, <1>4, Zenon

\* Every step respects this.
LEMMA FateStep == IInv /\ Next => Fate
<1> SUFFICES ASSUME IInv, Next PROVE Fate
  OBVIOUS
<1>0. (\A t \in Counted : t \in Threads) /\ (\A s \in Streams : s \in Threads /\ s # "control") /\ "control" \in Threads
  BY ThreadFacts, Zenon
<1>1. CASE PlainStep
  <2>1. PICK t \in Threads, from \in Labels, to \in Labels : Plain(t, from, to)
    BY <1>1, Zenon DEF PlainStep
  <2>2. Moved(t, from, to) /\ UNCHANGED <<tcpFlows, udpFlows, taken, closing, target, cur>> /\ from # "insert"
    BY <2>1, Zenon DEF Plain, flow, life
  <2> QED BY <2>2, SameHands, SameFateMoved, Zenon
<1>2. CASE start \/ clientGone \/ UNCHANGED vars
  <2>1. UNCHANGED <<tcpFlows, udpFlows, taken, closing, target, cur>>
    BY <1>2, Zenon DEF start, clientGone, vars, flow, calls, life
  <2>2. pc["control"] = "insert" => pc'["control"] = "insert"
    <3>1. CASE start
      BY <3>1, StartFacts, ThreadFacts, Zenon
    <3>2. CASE clientGone \/ UNCHANGED vars
      BY <3>2, Zenon DEF clientGone, vars
    <3> QED BY <1>2, <3>1, <3>2, Zenon
  <2> QED BY <2>1, <2>2, SameHands, SameFate, Zenon
<1>3. ASSUME NEW t \in Threads, CloseStep(t) PROVE Fate
  <2>1. CASE CloseOne(t)
    <3>1. PICK o \in closing : Shut({o})
      BY <2>1, CloseOneFacts, Zenon
    <3>2. pc' = pc
      BY <2>1, CloseOneFacts, Zenon
    <3> QED BY <3>1, <3>2, ShutFate, Zenon
  <2>2. CASE Snapshot(t)
    <3>1. Moved(t, "snapshot", "flows") /\ target' = target /\ cur' = cur /\ Held' = Held
      BY <2>2, SnapshotFacts, SnapshotHeld, Zenon DEF calls
    <3> QED BY <3>1, SameFateMoved, Zenon
  <2>3. CASE EnterBody(t) \/ CloseConn(t) \/ CloseReturn(t)
    <3>1. UNCHANGED <<tcpFlows, udpFlows, taken, closing, target, cur>>
      BY <2>3, BodyFacts, Zenon DEF flow, calls
    <3>2. PICK from \in {"once", "conn", "flows"}, to \in {"conn", "snapshot", "done"} : Moved(t, from, to)
      BY <2>3, BodyFacts, Zenon
    <3> QED BY <3>1, <3>2, SameHands, SameFateMoved, Zenon
  <2> QED BY <1>3, <2>1, <2>2, <2>3, Zenon DEF CloseStep
<1>4. CASE OpenStep
  <2>1. ASSUME NEW o \in Flows, frameOpen(o) PROVE Fate
    <3>1. Moved("control", "read", "dial") /\ UNCHANGED <<tcpFlows, udpFlows, taken, closing, target>>
      BY <2>1, OpenFacts, Zenon DEF flow, life
    <3> QED BY <1>0, <3>1, SameHands, SameFateMoved, Zenon
  <2>2. CASE Dialled
    <3>1. /\ cur \in Flows /\ target'[cur] = "open" /\ Moved("control", "dial", "insert")
          /\ \A o \in Flows : o # cur => target'[o] = target[o]
          /\ UNCHANGED <<tcpFlows, udpFlows, taken, closing, cur>>
      BY <2>2, TargetFacts, Zenon DEF calls, life
    <3>2. Held' = Held /\ pc["control"] = "dial" /\ pc'["control"] = "insert"
      BY <3>1, SameHands, Zenon DEF Moved
    <3>3. target[cur] = "none"
      BY <3>2, Zenon DEF IInv, Dialling
    <3>4. \A o \in Flows : target[o] = "open" => o \in Held
      BY <3>2, StrayFacts, Zenon
    <3>5. \A o \in Flows : target[o] = "closed" => target'[o] = "closed"
      BY <3>1, <3>3, Zenon
    <3>6. \A o \in Flows : target'[o] = "open" => o \in Held \/ o = cur
      BY <3>1, <3>4, Zenon
    <3> QED BY <3>1, <3>2, <3>5, <3>6, Zenon DEF Fate
  <2>3. CASE Entered
    <3>1. cur \in Flows /\ Moved("control", "insert", "ok") /\ \A o \in Flows : o \in Held' <=> o \in Held \/ o = cur
      BY <2>3, EnteredFacts, EnteredHeld, Zenon
    <3>2. target' = target /\ cur' = cur
      BY <2>3, Zenon DEF Entered, calls
    <3>3. \A o \in Flows : target[o] = "open" => o \in Held \/ o = cur
      BY StrayFacts, Zenon
    <3> QED BY <3>1, <3>2, <3>3, Zenon DEF Fate
  <2>4. CASE NumberTaken
    <3>1. /\ cur \in Flows /\ target'[cur] = "closed" /\ Moved("control", "insert", "read")
          /\ \A o \in Flows : o # cur => target'[o] = target[o]
          /\ UNCHANGED <<tcpFlows, udpFlows, taken, closing, cur>>
      BY <2>4, TargetFacts, Zenon DEF calls, life
    <3>2. Held' = Held
      BY <3>1, SameHands, Zenon
    <3>3. \A o \in Flows : target[o] = "open" => o \in Held \/ o = cur
      BY StrayFacts, Zenon
    <3>4. \A o \in Flows : target[o] = "closed" => target'[o] = "closed"
      BY <3>1, Zenon
    <3>5. \A o \in Flows : target'[o] = "open" => o \in Held
      BY <3>1, <3>3, Zenon
    <3> QED BY <3>2, <3>4, <3>5, Zenon DEF Fate
  <2>5. CASE openAnswered /\ cur \in Flows
    <3>1. UNCHANGED <<tcpFlows, udpFlows, taken, closing, target>> /\ pc["control"] = "ok"
      BY <2>5, AnsweredFacts, Zenon DEF flow, life, calls
    <3> QED BY <3>1, SameHands, SameFate, Zenon
  <2> QED BY <1>4, <2>1, <2>2, <2>3, <2>4, <2>5, Zenon DEF OpenStep
<1>5. CASE StreamStep
  <2>1. ASSUME NEW s \in Streams, NEW from, NEW to, Moved(s, from, to), UNCHANGED <<tcpFlows, udpFlows, taken, closing, target, cur>>
        PROVE  Fate
    BY <1>0, <2>1, SameHands, SameFateMoved, Zenon
  <2>2. CASE acceptStream
    <3>1. \E s \in Streams : Moved(s, "new", "head") /\ UNCHANGED <<tcpFlows, udpFlows, taken, closing, target, cur>>
      BY <2>2, AcceptFacts, Zenon DEF calls, life
    <3> QED BY <2>1, <3>1, Zenon
  <2>3. ASSUME NEW s \in Streams, NEW from \in {"head", "attach"}, Refuse(s, from) PROVE Fate
    <3>1. Moved(s, from, "done") /\ UNCHANGED <<tcpFlows, udpFlows, taken, closing, target, cur>>
      BY <2>3, RefuseFacts, Zenon DEF calls, life
    <3> QED BY <2>1, <3>1, Zenon
  <2>4. ASSUME NEW s \in Streams, attach(s) PROVE Fate
    <3>1. Moved(s, "attach", "pump") /\ UNCHANGED <<tcpFlows, udpFlows, taken, closing, target, cur>>
      BY <2>4, AttachFacts, Zenon DEF calls, life
    <3> QED BY <2>1, <3>1, Zenon
  <2>5. ASSUME NEW s \in Streams, NEW i \in Ids, streamFlow(s, i) PROVE Fate
    <3>1. Moved(s, "head", "attach") /\ UNCHANGED <<tcpFlows, udpFlows, taken, closing, target, cur>>
      BY <2>5, LookupFacts, Zenon DEF calls, life
    <3> QED BY <2>1, <3>1, Zenon
  <2> QED BY <1>5, <2>2, <2>3, <2>4, <2>5, Zenon DEF StreamStep
<1>6. ASSUME NEW t \in Counted, cfDelete(t) PROVE Fate
  <2>1. PICK to \in {"read", "done", "close"} : Moved(t, "cf", to)
    BY <1>6, TakeFacts, Zenon
  <2>2. target' = target /\ cur' = cur /\ \A o \in Flows : o \in Held' <=> o \in Held
    BY <1>6, TakeHeld, Zenon
  <2>3. pc["control"] = "insert" => pc'["control"] = "insert"
    BY <1>0, <2>1, Zenon DEF Moved
  <2> QED BY <2>2, <2>3, StrayFacts, Zenon DEF Fate
<1>7. ASSUME NEW t \in Counted, cfClose(t) PROVE Fate
  <2>1. PICK to \in {"read", "done"} : Moved(t, "close", to) /\ Shut(taken[t])
    BY <1>7, ShutFacts, Zenon
  <2>2. pc["control"] = "insert" => pc'["control"] = "insert"
    BY <1>0, <2>1, Zenon DEF Moved
  <2> QED BY <2>1, <2>2, ShutFate, Zenon
<1> QED BY <1>1, <1>2, <1>3, <1>4, <1>5, <1>6, <1>7, Cases, Zenon

\* NoStrayTarget is kept.
LEMMA NoStrayStep == IInv /\ Next => NoStrayTarget'
<1> SUFFICES ASSUME IInv, Next, NEW o \in Flows, target'[o] = "open"
             PROVE  \/ o \in InTables'
                    \/ o = cur' /\ pc'["control"] = "insert"
                    \/ \E t \in Counted : o \in taken'[t]
                    \/ o \in closing'
  BY Zenon DEF NoStrayTarget
<1>1. o \in Held' \/ (o = cur' /\ pc'["control"] = "insert")
  BY FateStep, Zenon DEF Fate
<1>2. o \in Held' => o \in InTables' \/ o \in Taken' \/ o \in closing'
  BY Zenon DEF Held
<1>3. o \in Taken' => \E t \in Counted : o \in taken'[t]
  BY Zenon DEF Taken
<1> QED BY <1>1, <1>2, <1>3, Zenon

\* Handlers of streams that stay where they are keep what they have found.
LEMMA StillAttaching ==
  ASSUME IInv, Next, \A s \in Streams : pc'[s] = "attach" => pc[s] = "attach" /\ served'[s] = served[s]
  PROVE  Attaching'
<1> SUFFICES ASSUME NEW s \in Streams, pc'[s] = "attach" PROVE served'[s] \in Held' \/ target'[served'[s]] = "closed"
  BY Zenon DEF Attaching
<1>1. pc[s] = "attach" /\ served'[s] = served[s]
  BY Zenon
<1>2. served[s] \in Held \/ target[served[s]] = "closed"
  BY <1>1, Zenon DEF IInv, Attaching
<1>3. served[s] \in Flows
  BY <1>1, FlowFacts, Zenon DEF IInv, Carried
<1>4. Fate
  BY FateStep, Zenon
<1> QED BY <1>1, <1>2, <1>3, <1>4, Zenon DEF Fate

\* Attaching is kept.
LEMMA AttachingStep == IInv /\ Next => Attaching'
<1> SUFFICES ASSUME IInv, Next PROVE Attaching'
  OBVIOUS
<1>0. (\A t \in Counted : t \in Threads) /\ (\A s \in Streams : s \in Threads /\ s \in Counted /\ s # "control" /\ s # "accept" /\ s # "run" /\ s \notin UDPFlows)
  BY ThreadFacts, Zenon
<1>1. ASSUME NEW t \in Threads, NEW from, NEW to, Moved(t, from, to), to # "attach", served' = served PROVE Attaching'
  <2>1. \A s \in Streams : pc'[s] = "attach" => pc[s] = "attach" /\ served'[s] = served[s]
    BY <1>0, <1>1, Zenon DEF Moved
  <2> QED BY <2>1, StillAttaching, Zenon
<1>2. CASE PlainStep
  <2>1. PICK t \in Threads, from \in Labels, to \in Labels : Plain(t, from, to)
    BY <1>2, Zenon DEF PlainStep
  <2>2. Moved(t, from, to) /\ to # "attach" /\ served' = served
    BY <2>1, Zenon DEF Plain, flow
  <2> QED BY <1>1, <2>2, Zenon
<1>3. CASE start
  <2>1. served' = served /\ \A s \in Streams : pc'[s] = pc[s]
    BY <1>0, <1>3, StartFacts, Zenon DEF flow
  <2> QED BY <2>1, StillAttaching, Zenon
<1>4. CASE clientGone \/ UNCHANGED vars
  <2>1. pc' = pc /\ served' = served
    BY <1>4, Zenon DEF clientGone, vars, flow
  <2> QED BY <2>1, StillAttaching, Zenon
<1>5. ASSUME NEW t \in Threads, CloseStep(t) PROVE Attaching'
  <2>1. CASE CloseOne(t)
    <3>1. pc' = pc /\ served' = served
      BY <2>1, Zenon DEF CloseOne
    <3> QED BY <3>1, StillAttaching, Zenon
  <2>2. CASE Snapshot(t)
    BY <1>1, <2>2, SnapshotFacts, Zenon
  <2>3. CASE EnterBody(t) \/ CloseConn(t) \/ CloseReturn(t)
    <3>1. served' = served
      BY <2>3, BodyFacts, Zenon DEF flow
    <3>2. PICK from \in {"once", "conn", "flows"}, to \in {"conn", "snapshot", "done"} : Moved(t, from, to)
      BY <2>3, BodyFacts, Zenon
    <3> QED BY <1>1, <3>1, <3>2, Zenon
  <2> QED BY <1>5, <2>1, <2>2, <2>3, Zenon DEF CloseStep
<1>6. CASE OpenStep
  <2>1. served' = served
    BY <1>6, OpenFacts, TargetFacts, AnsweredFacts, Zenon DEF OpenStep, Entered, flow
  <2>2. \A s \in Streams : pc'[s] = pc[s]
    <3>1. ASSUME NEW from, NEW to, Moved("control", from, to) PROVE \A s \in Streams : pc'[s] = pc[s]
      BY <1>0, <3>1, Zenon DEF Moved
    <3>2. CASE openAnswered /\ cur \in Flows
      BY <1>0, <3>2, AnsweredFacts, Zenon
    <3> QED BY <1>6, <3>1, <3>2, OpenFacts, TargetFacts, EnteredFacts, Zenon DEF OpenStep
  <2> QED BY <2>1, <2>2, StillAttaching, Zenon
<1>7. CASE StreamStep
  <2>1. CASE acceptStream
    <3>1. \E s \in Streams : Moved(s, "new", "head") /\ served' = served
      BY <2>1, AcceptFacts, Zenon
    <3> QED BY <1>0, <1>1, <3>1, Zenon
  <2>2. ASSUME NEW s \in Streams, NEW from \in {"head", "attach"}, Refuse(s, from) PROVE Attaching'
    <3>1. Moved(s, from, "done") /\ served' = served
      BY <2>2, RefuseFacts, Zenon
    <3> QED BY <1>0, <1>1, <3>1, Zenon
  <2>3. ASSUME NEW s \in Streams, attach(s) PROVE Attaching'
    <3>1. Moved(s, "attach", "pump") /\ served' = served
      BY <2>3, AttachFacts, Zenon
    <3> QED BY <1>0, <1>1, <3>1, Zenon
  <2>4. ASSUME NEW s \in Streams, NEW i \in Ids, streamFlow(s, i) PROVE Attaching'
    <3>1. /\ Moved(s, "head", "attach") /\ served'[s] \in InTables
          /\ \A r \in Streams : r # s => served'[r] = served[r]
      BY <2>4, LookupFacts, Zenon
    <3>2. Held' = Held /\ target' = target
      BY <2>4, LookupFacts, LookupHeld, Zenon
    <3>3. served'[s] \in Held'
      BY <3>1, <3>2, Zenon DEF Held
    <3>4. ASSUME NEW r \in Streams, pc'[r] = "attach", r # s PROVE served'[r] \in Held' \/ target'[served'[r]] = "closed"
      <4>1. pc[r] = "attach" /\ served'[r] = served[r]
        BY <1>0, <3>1, <3>4, Zenon DEF Moved
      <4>2. served[r] \in Held \/ target[served[r]] = "closed"
        BY <4>1, Zenon DEF IInv, Attaching
      <4> QED BY <3>2, <4>1, <4>2, Zenon
    <3> QED BY <3>3, <3>4, Zenon DEF Attaching
  <2> QED BY <1>7, <2>1, <2>2, <2>3, <2>4, Zenon DEF StreamStep
<1>8. ASSUME NEW t \in Counted, cfDelete(t) PROVE Attaching'
  <2>1. PICK to \in {"read", "done", "close"} : Moved(t, "cf", to)
    BY <1>8, TakeFacts, Zenon
  <2>2. served' = served
    BY <1>8, TakeHeld, Zenon
  <2> QED BY <1>0, <1>1, <2>1, <2>2, Zenon
<1>9. ASSUME NEW t \in Counted, cfClose(t) PROVE Attaching'
  <2>1. PICK to \in {"read", "done"} : Moved(t, "close", to) /\ Shut(taken[t])
    BY <1>9, ShutFacts, Zenon
  <2>2. served' = served
    BY <2>1, Zenon DEF Shut
  <2> QED BY <1>0, <1>1, <2>1, <2>2, Zenon
<1> QED BY <1>2, <1>3, <1>4, <1>5, <1>6, <1>7, <1>8, <1>9, Cases, Zenon

\* A stream past the attachment, whatever thread it is.
Past(s) == pc[s] \notin {"new", "head", "attach"} /\ sending[s] = "open"
Ended(s) == pc[s] \in {"close", "done"}

LEMMA AttachedFacts ==
  ASSUME IInv, NEW s \in Streams, Past(s)
  PROVE  /\ served[s] \in TCPFlows /\ served[s] \in Flows /\ stream[served[s]] = s
         /\ s \in late \/ served[s] \in Taken \cup closing \/ (~Ended(s) /\ served[s] \in InTables)
BY FlowFacts, Zenon DEF IInv, Attached, Past, Ended

\* A step that leaves a stream, its flow and its handler's place alone.
StillAttached(s) ==
  /\ Past(s) /\ served'[s] = served[s] /\ stream'[served[s]] = stream[served[s]]
  /\ s \in late => s \in late'
  /\ served[s] \in Taken \cup closing => served[s] \in Taken' \cup closing'
  /\ ~Ended(s) /\ served[s] \in InTables => served[s] \in Taken' \cup closing' \/ (~Ended(s)' /\ served[s] \in InTables')

LEMMA KeepAttached ==
  ASSUME IInv, \A s \in Streams : Past(s)' => StillAttached(s)
  PROVE  Attached'
<1> SUFFICES ASSUME NEW s \in Streams, Past(s)'
             PROVE  /\ served'[s] \in TCPFlows /\ stream'[served'[s]] = s
                    /\ s \in late' \/ served'[s] \in Taken' \cup closing' \/ (~Ended(s)' /\ served'[s] \in InTables')
  BY Zenon DEF Attached, Past, Ended
<1>1. StillAttached(s)
  BY Zenon
<1>2. /\ served[s] \in TCPFlows /\ stream[served[s]] = s
      /\ s \in late \/ served[s] \in Taken \cup closing \/ (~Ended(s) /\ served[s] \in InTables)
  BY <1>1, AttachedFacts, Zenon DEF StillAttached
<1>3. /\ served'[s] = served[s] /\ stream'[served[s]] = stream[served[s]]
      /\ s \in late => s \in late'
      /\ served[s] \in Taken \cup closing => served[s] \in Taken' \cup closing'
      /\ ~Ended(s) /\ served[s] \in InTables => served[s] \in Taken' \cup closing' \/ (~Ended(s)' /\ served[s] \in InTables')
  BY <1>1, Zenon DEF StillAttached
<1> QED BY <1>2, <1>3, Zenon

\* One thread moves, and the flows of streams past the attachment stay in
\* somebody's hands.
LEMMA AttachedMoved ==
  ASSUME IInv, NEW t \in Threads, NEW from, NEW to, Moved(t, from, to), UNCHANGED <<served, stream, late>>,
         t \in Streams => from \notin {"new", "head", "attach"},
         \A s \in Streams : sending'[s] = "open" => sending[s] = "open",
         \A s \in Streams : sending'[s] = "open" /\ Past(s) /\ served[s] \in Taken \cup closing => served[s] \in Taken' \cup closing',
         \A s \in Streams : sending'[s] = "open" /\ Past(s) /\ ~Ended(s) /\ served[s] \in InTables =>
           served[s] \in Taken' \cup closing' \/ (served[s] \in InTables' /\ (s = t => to \notin {"close", "done"}))
  PROVE  Attached'
<1> SUFFICES ASSUME NEW s \in Streams, Past(s)' PROVE StillAttached(s)
  BY KeepAttached, Zenon
<1>0. s \in Threads
  BY ThreadFacts, Zenon
<1>1. sending'[s] = "open" /\ sending[s] = "open" /\ pc'[s] \notin {"new", "head", "attach"}
  BY Zenon DEF Past
<1>2. Past(s)
  <2>1. CASE s = t
    BY <1>1, <2>1, Zenon DEF Past, Moved
  <2>2. CASE s # t
    BY <1>0, <1>1, <2>2, Zenon DEF Past, Moved
  <2> QED BY <2>1, <2>2, Zenon
<1>3. ~Ended(s) /\ (s = t => to \notin {"close", "done"}) => ~Ended(s)'
  <2>1. CASE s = t
    BY <2>1, Zenon DEF Ended, Moved
  <2>2. CASE s # t
    BY <1>0, <2>2, Zenon DEF Ended, Moved
  <2> QED BY <2>1, <2>2, Zenon
<1>4. /\ served'[s] = served[s] /\ stream'[served[s]] = stream[served[s]]
      /\ s \in late => s \in late'
      /\ served[s] \in Taken \cup closing => served[s] \in Taken' \cup closing'
  BY <1>1, <1>2, Zenon
<1>5. ~Ended(s) /\ served[s] \in InTables => served[s] \in Taken' \cup closing' \/ (~Ended(s)' /\ served[s] \in InTables')
  BY <1>1, <1>2, <1>3, Zenon
<1> QED BY <1>2, <1>4, <1>5, Zenon DEF StillAttached

\* A step in which streams, flows and the handlers of streams stay as they are.
LEMMA AttachedSame ==
  ASSUME IInv, \A s \in Streams : pc'[s] = pc[s], UNCHANGED <<served, stream, late, sending, taken, closing>>,
         \A o \in Flows : o \in InTables => o \in InTables'
  PROVE  Attached'
<1> SUFFICES ASSUME NEW s \in Streams, Past(s)' PROVE StillAttached(s)
  BY KeepAttached, Zenon
<1>1. Past(s) /\ (Ended(s)' <=> Ended(s))
  BY Zenon DEF Past, Ended
<1>2. Taken' = Taken
  BY Zenon DEF Taken
<1>3. served[s] \in Flows
  BY <1>1, AttachedFacts, Zenon
<1> QED BY <1>1, <1>2, <1>3, Zenon DEF StillAttached

\* Attached is kept.
LEMMA AttachedStep == IInv /\ Next => Attached'
<1> SUFFICES ASSUME IInv, Next PROVE Attached'
  OBVIOUS
<1>0. (\A t \in Counted : t \in Threads) /\ (\A s \in Streams : s \in Threads /\ s \in Counted /\ s # "control" /\ s # "accept" /\ s # "run" /\ s \notin UDPFlows /\ s # None)
  BY ThreadFacts, Zenon
<1>1. ASSUME UNCHANGED <<tcpFlows, udpFlows>> PROVE InTables' = InTables
  BY <1>1, Zenon DEF InTables
<1>2. ASSUME Late PROVE \A s \in Streams : served[s] \notin InTables
  BY <1>2, Zenon DEF IInv, Emptied
<1>3. CASE PlainStep
  <2>1. PICK t \in Threads, from \in Labels, to \in Labels : Plain(t, from, to)
    BY <1>3, Zenon DEF PlainStep
  <2>2. /\ Moved(t, from, to) /\ UNCHANGED <<tcpFlows, udpFlows, taken, closing, stream, sending, served, late>>
        /\ from \notin {"attach", "head"} /\ to # "close" /\ (t \in Counted => from # "new")
        /\ t \in Streams \cup {"run"} /\ to = "done" => once = "done"
    BY <2>1, Zenon DEF Plain, flow, life
  <2>3. InTables' = InTables /\ Taken' = Taken
    BY <2>2, SameHands, Zenon
  <2>4. t \in Streams => from \notin {"new", "head", "attach"}
    BY <1>0, <2>2, Zenon
  <2>5. \A s \in Streams : served[s] \in InTables => served[s] \in InTables' /\ (s = t => to \notin {"close", "done"})
    BY <1>2, <2>2, <2>3, Zenon DEF Late
  <2> QED BY <2>2, <2>3, <2>4, <2>5, AttachedMoved, Zenon
<1>4. CASE start \/ clientGone \/ UNCHANGED vars
  <2>1. UNCHANGED <<tcpFlows, udpFlows, taken, closing, stream, sending, served, late>>
    BY <1>4, Zenon DEF start, clientGone, vars, flow, calls, life
  <2>2. \A s \in Streams : pc'[s] = pc[s]
    <3>1. CASE start
      BY <1>0, <3>1, StartFacts, Zenon
    <3>2. CASE clientGone \/ UNCHANGED vars
      BY <3>2, Zenon DEF clientGone, vars
    <3> QED BY <1>4, <3>1, <3>2, Zenon
  <2> QED BY <1>1, <2>1, <2>2, AttachedSame, Zenon
<1>5. ASSUME NEW S, Shut(S)
      PROVE  /\ UNCHANGED <<served, stream, late>> /\ InTables' = InTables
             /\ \A s \in Streams : sending'[s] = "open" => sending[s] = "open"
             /\ \A s \in Streams : sending'[s] = "open" /\ Past(s) /\ served[s] \in Taken \cup closing => served[s] \in Taken' \cup closing'
  <2>1. /\ \A o \in Flows \ S : o \in Taken \cup closing => o \in Taken' \cup closing'
        /\ \A s \in Streams : sending'[s] = "open" => sending[s] = "open" /\ \A o \in S \cap TCPFlows : stream[o] # s
        /\ UNCHANGED <<served, stream, late>> /\ InTables' = InTables
    BY <1>5, Zenon DEF Shut
  <2>2. ASSUME NEW s \in Streams, sending'[s] = "open", Past(s), served[s] \in Taken \cup closing PROVE served[s] \in Taken' \cup closing'
    <3>1. served[s] \in TCPFlows /\ served[s] \in Flows /\ stream[served[s]] = s
      BY <2>2, AttachedFacts, Zenon
    <3>2. served[s] \notin S
      BY <2>1, <2>2, <3>1, Zenon
    <3> QED BY <2>1, <2>2, <3>1, <3>2, Zenon
  <2> QED BY <2>1, <2>2, Zenon
<1>6. ASSUME NEW t \in Threads, CloseStep(t) PROVE Attached'
  <2>1. CASE CloseOne(t)
    <3>1. PICK o \in closing : Shut({o})
      BY <2>1, CloseOneFacts, Zenon
    <3>2. pc' = pc /\ pc[t] = "flows"
      BY <2>1, CloseOneFacts, Zenon
    <3>3. Moved(t, "flows", "flows")
      BY <3>2, Zenon DEF Moved
    <3>4. /\ UNCHANGED <<served, stream, late>> /\ InTables' = InTables
          /\ \A s \in Streams : sending'[s] = "open" => sending[s] = "open"
          /\ \A s \in Streams : sending'[s] = "open" /\ Past(s) /\ served[s] \in Taken \cup closing => served[s] \in Taken' \cup closing'
      BY <1>5, <3>1, Zenon
    <3> QED BY <3>3, <3>4, AttachedMoved, Zenon
  <2>2. CASE Snapshot(t)
    <3>1. Moved(t, "snapshot", "flows") /\ UNCHANGED <<served, stream, late, sending>>
      BY <2>2, SnapshotFacts, Zenon
    <3>2. closing = {} /\ closing' = InTables /\ Taken' = Taken
      BY <2>2, SnapshotFacts, Zenon
    <3> QED BY <3>1, <3>2, AttachedMoved, Zenon
  <2>3. CASE EnterBody(t) \/ CloseConn(t)
    <3>1. UNCHANGED <<served, stream, late, sending, closing>> /\ InTables' = InTables /\ Taken' = Taken
      BY <2>3, BodyFacts, Zenon DEF flow
    <3>2. PICK from \in {"once", "conn"}, to \in {"conn", "snapshot"} : Moved(t, from, to)
      BY <2>3, BodyFacts, Zenon
    <3>3. from \notin {"new", "head", "attach"} /\ to \notin {"close", "done"}
      BY <3>2, Zenon
    <3> QED BY <3>1, <3>2, <3>3, AttachedMoved, Zenon
  <2>4. CASE CloseReturn(t)
    <3>1. UNCHANGED <<served, stream, late, sending, closing>> /\ InTables' = InTables /\ Taken' = Taken
          /\ Moved(t, "flows", "done")
      BY <2>4, BodyFacts, Zenon DEF flow
    <3>2. Late
      BY <3>1, Zenon DEF Late, Moved
    <3> QED BY <1>2, <3>1, <3>2, AttachedMoved, Zenon
  <2> QED BY <1>6, <2>1, <2>2, <2>3, <2>4, Zenon DEF CloseStep
<1>7. CASE OpenStep
  <2>1. UNCHANGED <<served, stream, late, sending, taken, closing>>
    BY <1>7, OpenFacts, TargetFacts, AnsweredFacts, Zenon DEF OpenStep, Entered, flow, calls, life
  <2>2. \A s \in Streams : pc'[s] = pc[s]
    <3>1. ASSUME NEW from, NEW to, Moved("control", from, to) PROVE \A s \in Streams : pc'[s] = pc[s]
      BY <1>0, <3>1, Zenon DEF Moved
    <3>2. CASE openAnswered /\ cur \in Flows
      BY <1>0, <3>2, AnsweredFacts, Zenon
    <3> QED BY <1>7, <3>1, <3>2, OpenFacts, TargetFacts, EnteredFacts, Zenon DEF OpenStep
  <2>3. \A o \in Flows : o \in InTables => o \in InTables'
    <3>1. CASE Entered
      BY <3>1, EnteredFacts, Zenon
    <3>2. CASE ~Entered
      <4>1. UNCHANGED <<tcpFlows, udpFlows>>
        BY <1>7, <3>2, OpenFacts, TargetFacts, AnsweredFacts, Zenon DEF OpenStep, flow
      <4> QED BY <1>1, <4>1, Zenon
    <3> QED BY <3>1, <3>2, Zenon
  <2> QED BY <2>1, <2>2, <2>3, AttachedSame, Zenon
<1>8. CASE StreamStep
  <2>1. ASSUME NEW s \in Streams, NEW from, NEW to, Moved(s, from, to), UNCHANGED <<tcpFlows, udpFlows, taken, closing, late, stream>>,
               to \in {"head", "attach"} \/ sending'[s] # "open",
               \A r \in Streams : r # s => sending'[r] = sending[r] /\ served'[r] = served[r]
        PROVE  Attached'
    <3> SUFFICES ASSUME NEW r \in Streams, Past(r)' PROVE StillAttached(r)
      BY KeepAttached, Zenon
    <3>1. r # s
      BY <2>1, Zenon DEF Past, Moved
    <3>2. pc'[r] = pc[r] /\ sending'[r] = sending[r] /\ served'[r] = served[r]
      BY <1>0, <2>1, <3>1, Zenon DEF Moved
    <3>3. Past(r) /\ (Ended(r)' <=> Ended(r))
      BY <3>2, Zenon DEF Past, Ended
    <3>4. InTables' = InTables /\ Taken' = Taken
      BY <2>1, SameHands, Zenon
    <3> QED BY <2>1, <3>2, <3>3, <3>4, Zenon DEF StillAttached
  <2>2. CASE acceptStream
    <3>1. PICK s \in Streams :
            /\ Moved(s, "new", "head")
            /\ \A r \in Streams : r # s => sending'[r] = sending[r]
            /\ UNCHANGED <<tcpFlows, udpFlows, target, stream, served, late, conn, life, calls, server>>
      BY <2>2, AcceptFacts, Zenon
    <3>2. UNCHANGED <<tcpFlows, udpFlows, taken, closing, late, stream, served>>
      BY <3>1, Zenon DEF calls, life
    <3> QED BY <2>1, <3>1, <3>2, Zenon
  <2>3. ASSUME NEW s \in Streams, NEW from \in {"head", "attach"}, Refuse(s, from) PROVE Attached'
    <3>1. /\ Moved(s, from, "done") /\ sending'[s] = "closed"
          /\ \A r \in Streams : r # s => sending'[r] = sending[r]
          /\ UNCHANGED <<tcpFlows, udpFlows, target, stream, served, late, conn, life, calls, server>>
      BY <2>3, RefuseFacts, Zenon
    <3>2. UNCHANGED <<tcpFlows, udpFlows, taken, closing, late, stream, served>> /\ sending'[s] # "open"
      BY <3>1, Zenon DEF calls, life
    <3> QED BY <2>1, <3>1, <3>2, Zenon
  <2>4. ASSUME NEW s \in Streams, NEW i \in Ids, streamFlow(s, i) PROVE Attached'
    <3>1. /\ Moved(s, "head", "attach") /\ \A r \in Streams : r # s => served'[r] = served[r]
          /\ UNCHANGED <<tcpFlows, udpFlows, target, stream, sending, late, conn, life, calls, server>>
      BY <2>4, LookupFacts, Zenon
    <3>2. UNCHANGED <<tcpFlows, udpFlows, taken, closing, late, stream, sending>>
      BY <3>1, Zenon DEF calls, life
    <3> QED BY <2>1, <3>1, <3>2, Zenon
  <2>5. ASSUME NEW s \in Streams, attach(s) PROVE Attached'
    <3>1. /\ Moved(s, "attach", "pump") /\ served[s] \in TCPFlows /\ stream[served[s]] = None /\ stream'[served[s]] = s
          /\ \A o \in TCPFlows : o # served[s] => stream'[o] = stream[o]
          /\ late \subseteq late' /\ (target[served[s]] = "closed" => s \in late')
          /\ UNCHANGED <<tcpFlows, udpFlows, target, sending, served, conn, life, calls, server>>
      BY <2>5, AttachFacts, Zenon
    <3>2. UNCHANGED <<tcpFlows, udpFlows, taken, closing, sending, served>>
      BY <3>1, Zenon DEF calls, life
    <3>3. InTables' = InTables /\ Taken' = Taken
      BY <3>2, SameHands, Zenon
    <3>4. pc[s] = "attach" /\ pc'[s] = "pump" /\ \A r \in Streams : r # s => pc'[r] = pc[r]
      BY <1>0, <3>1, Zenon DEF Moved
    <3>5. /\ served'[s] \in TCPFlows /\ stream'[served'[s]] = s
          /\ s \in late' \/ served'[s] \in Taken' \cup closing' \/ (pc'[s] \notin {"close", "done"} /\ served'[s] \in InTables')
      <4>1. served[s] \in Held \/ target[served[s]] = "closed"
        BY <3>4, Zenon DEF IInv, Attaching
      <4>2. served[s] \in Held => served[s] \in InTables \/ served[s] \in Taken \cup closing
        BY Zenon DEF Held
      <4>3. pc'[s] \notin {"close", "done"}
        BY <3>4, Zenon
      <4> QED BY <3>1, <3>2, <3>3, <4>1, <4>2, <4>3, Zenon
    <3>6. ASSUME NEW r \in Streams, r # s, pc'[r] \notin {"new", "head", "attach"}, sending'[r] = "open"
          PROVE  /\ served'[r] \in TCPFlows /\ stream'[served'[r]] = r
                 /\ r \in late' \/ served'[r] \in Taken' \cup closing' \/ (pc'[r] \notin {"close", "done"} /\ served'[r] \in InTables')
      <4>1. Past(r) /\ (pc'[r] \notin {"close", "done"} <=> ~Ended(r))
        BY <3>2, <3>4, <3>6, Zenon DEF Past, Ended
      <4>2. /\ served[r] \in TCPFlows /\ stream[served[r]] = r
            /\ r \in late \/ served[r] \in Taken \cup closing \/ (~Ended(r) /\ served[r] \in InTables)
        BY <4>1, AttachedFacts, Zenon
      <4>3. served[r] # served[s]
        BY <1>0, <3>1, <4>2, Zenon
      <4>4. stream'[served[r]] = r
        BY <3>1, <4>2, <4>3, Zenon
      <4> QED BY <3>1, <3>2, <3>3, <4>1, <4>2, <4>4, Zenon
    <3> QED BY <3>5, <3>6, Zenon DEF Attached
  <2> QED BY <1>8, <2>2, <2>3, <2>4, <2>5, Zenon DEF StreamStep
<1>9. ASSUME NEW t \in Counted, cfDelete(t) PROVE Attached'
  <2>1. PICK to \in {"read", "done", "close"} : Moved(t, "cf", to)
    BY <1>9, TakeFacts, Zenon
  <2>2. \A o \in Flows : o \in Taken' <=> o \in Taken \/ (o \in InTables /\ FlowId[o] = arg[t])
    BY <1>9, TakeFacts, Zenon
  <2>3. \A o \in Flows : o \in InTables' <=> o \in InTables /\ FlowId[o] # arg[t]
    BY <1>9, TakeFacts, Zenon
  <2>4. UNCHANGED <<served, stream, late, sending, closing>>
    BY <1>9, TakeHeld, Zenon DEF life
  <2>5. ASSUME NEW s \in Streams, Past(s), served[s] \in Taken \cup closing PROVE served[s] \in Taken' \cup closing'
    <3>1. served[s] \in Flows
      BY <2>5, AttachedFacts, Zenon
    <3> QED BY <2>2, <2>4, <2>5, <3>1, Zenon
  <2>6. ASSUME NEW s \in Streams, Past(s), served[s] \in InTables
        PROVE  served[s] \in Taken' \cup closing' \/ (served[s] \in InTables' /\ (s = t => to \notin {"close", "done"}))
    <3>1. served[s] \in Flows
      BY <2>6, AttachedFacts, Zenon
    <3>2. CASE FlowId[served[s]] = arg[t]
      BY <2>2, <2>6, <3>1, <3>2, Zenon
    <3>3. CASE FlowId[served[s]] # arg[t]
      <4>1. pc[t] = "cf"
        BY <2>1, Zenon DEF Moved
      <4>2. s # t
        BY <3>3, <4>1, Zenon DEF IInv, Carried
      <4> QED BY <2>3, <2>6, <3>1, <3>3, <4>2, Zenon
    <3> QED BY <3>2, <3>3, Zenon
  <2>7. t \in Threads /\ "cf" \notin {"new", "head", "attach"}
    BY <1>0, Zenon
  <2>8. /\ \A s \in Streams : sending'[s] = "open" => sending[s] = "open"
        /\ \A s \in Streams : sending'[s] = "open" /\ Past(s) /\ served[s] \in Taken \cup closing => served[s] \in Taken' \cup closing'
    BY <2>4, <2>5, Zenon
  <2>9. \A s \in Streams : sending'[s] = "open" /\ Past(s) /\ ~Ended(s) /\ served[s] \in InTables =>
          served[s] \in Taken' \cup closing' \/ (served[s] \in InTables' /\ (s = t => to \notin {"close", "done"}))
    BY <2>6, Zenon
  <2>10. UNCHANGED <<served, stream, late>>
    BY <2>4, Zenon
  <2> QED BY <2>1, <2>7, <2>8, <2>9, <2>10, AttachedMoved, Zenon
<1>10. ASSUME NEW t \in Counted, cfClose(t) PROVE Attached'
  <2>1. PICK to \in {"read", "done"} : Moved(t, "close", to) /\ Shut(taken[t])
    BY <1>10, ShutFacts, Zenon
  <2>2. /\ UNCHANGED <<served, stream, late>> /\ InTables' = InTables
        /\ \A s \in Streams : sending'[s] = "open" => sending[s] = "open"
        /\ \A s \in Streams : sending'[s] = "open" /\ Past(s) /\ served[s] \in Taken \cup closing => served[s] \in Taken' \cup closing'
    BY <1>5, <2>1, Zenon
  <2>3. \A s \in Streams : ~Ended(s) => s # t
    BY <2>1, Zenon DEF Ended, Moved
  <2>4. t \in Threads /\ "close" \notin {"new", "head", "attach"}
    BY <1>0, Zenon
  <2>5. \A s \in Streams : sending'[s] = "open" /\ Past(s) /\ ~Ended(s) /\ served[s] \in InTables =>
          served[s] \in Taken' \cup closing' \/ (served[s] \in InTables' /\ (s = t => to \notin {"close", "done"}))
    BY <2>2, <2>3, Zenon
  <2> QED BY <2>1, <2>2, <2>4, <2>5, AttachedMoved, Zenon
<1> QED BY <1>3, <1>4, <1>6, <1>7, <1>8, <1>9, <1>10, Cases, Zenon

-----------------------------------------------------------------------------
(* The results.                                                            *)

\* Nothing has been opened at first.
LEMMA InitIInv == Init => IInv
<1> SUFFICES ASSUME Init PROVE IInv
  OBVIOUS
<1>1. PICK S \in Plans :
        /\ target = [o \in Flows |-> IF o \in S THEN "none" ELSE "closed"]
        /\ pc = [t \in Threads |-> IF t = "run" THEN "auth" ELSE IF t \in Streams \ S THEN "done" ELSE "new"]
  BY Zenon DEF Init
<1>2. /\ tcpFlows = [i \in Ids |-> None] /\ udpFlows = [i \in Ids |-> None]
      /\ stream = [o \in TCPFlows |-> None]
      /\ sending = [s \in Streams |-> "none"] /\ served = [s \in Streams |-> None]
      /\ late = {} /\ cancelled = FALSE /\ connOpen = TRUE /\ buffered = Buffered
      /\ once = "free" /\ closing = {} /\ cur = None
      /\ arg = [t \in Counted |-> None] /\ taken = [t \in Counted |-> {}]
      /\ registered = FALSE /\ timer = FALSE /\ active = 0
  BY Zenon DEF Init
<1>3. /\ pc["run"] = "auth"
      /\ \A t \in Threads : t # "run" => pc[t] \in {"new", "done"}
      /\ \A t \in Threads : t # "run" /\ t \notin Streams => pc[t] = "new"
  BY <1>1, ThreadFacts
<1>4. pc \in [Threads -> Labels]
  BY <1>1 DEF Labels
<1>5. target \in [Flows -> {"none", "open", "closed"}] /\ \A o \in Flows : target[o] # "open"
  BY <1>1
<1>6. Types
  <2>1. buffered \in 0 .. Buffered
    BY <1>2, QUICSessionAssumption
  <2>2. /\ tcpFlows \in [Ids -> TCPFlows \cup {None}] /\ udpFlows \in [Ids -> UDPFlows \cup {None}]
        /\ stream \in [TCPFlows -> Streams \cup {None}]
        /\ served \in [Streams -> TCPFlows \cup {None}]
        /\ arg \in [Counted -> Ids \cup {None}]
        /\ cur \in Flows \cup {None}
    BY <1>2, Zenon
  <2>3. /\ sending \in [Streams -> {"none", "open", "closed"}]
        /\ taken \in [Counted -> SUBSET Flows]
        /\ late \in SUBSET Streams /\ closing \in SUBSET Flows
    BY <1>2
  <2>4. /\ cancelled \in BOOLEAN /\ connOpen \in BOOLEAN /\ registered \in BOOLEAN /\ timer \in BOOLEAN
        /\ once \in {"free", "busy", "done"}
    BY <1>2
  <2> QED BY <1>4, <1>5, <2>1, <2>2, <2>3, <2>4, Zenon DEF Types
<1>7. "run" \in Threads /\ "outside" \in Threads /\ "control" \in Threads /\ "accept" \in Threads
      /\ \A t \in Counted : t \in Threads /\ t # "run" /\ pc[t] \in {"new", "done"}
  BY <1>3, ThreadFacts, Zenon
<1>8. Roles
  <2>1. pc["run"] \in RunLabels
    BY <1>3, Zenon DEF RunLabels
  <2>2. \A t \in Threads : t # "run" => pc[t] \in Closers
    BY <1>3, Zenon DEF Closers
  <2>3. \A l \in Closers : l \in ControlLabels /\ l \in AcceptLabels /\ l \in StreamLabels /\ l \in LoopLabels
    BY Zenon DEF ControlLabels, AcceptLabels, StreamLabels, LoopLabels
  <2> QED BY <2>1, <2>2, <2>3, ThreadFacts, Zenon DEF Roles
<1>9. Registered
  BY <1>2, <1>3 DEF Registered
<1>10. Quiet
  BY <1>7, Zenon DEF Quiet
<1>11. \A t \in Threads : pc[t] \in {"auth", "new", "done"} /\ pc[t] \notin Body /\ pc[t] # "flows" /\ pc[t] # "snapshot"
  <2>1. \A t \in Threads : pc[t] \in {"auth", "new", "done"}
    BY <1>3, Zenon
  <2> QED BY <2>1, Zenon DEF Body
<1>12. OneClose
  BY <1>2, <1>3, <1>11, Zenon DEF OneClose
<1>13. (\A i \in Ids : tcpFlows[i] = None /\ udpFlows[i] = None) /\ InTables = {}
  BY <1>2 DEF InTables
<1>14. Table
  BY <1>13, Zenon DEF Table
<1>15. Carried
  <2>1. \A t \in Counted : taken[t] = {} /\ pc[t] \notin {"cf", "attach", "pump"}
    BY <1>2, <1>7, Zenon
  <2> QED BY <2>1, ThreadFacts, Zenon DEF Carried
<1>16. Held = {} /\ \A o \in Flows : o \notin Found
  <2>1. Taken = {}
    BY <1>2 DEF Taken
  <2>2. Held = {}
    BY <1>2, <1>13, <2>1 DEF Held
  <2>3. \A s \in Streams : served[s] = None
    BY <1>2, Zenon
  <2> QED BY <2>2, <2>3, FlowFacts, Zenon DEF Found
<1>17. Dialling
  <2>1. pc["control"] = "new" /\ \A u \in UDPFlows : pc[u] = "new"
    BY <1>3, ThreadFacts, Zenon
  <2> QED BY <1>16, <2>1, Zenon DEF Dialling
<1>18. Emptied
  BY <1>2, <1>11, Zenon DEF Emptied, Late
<1>19. NoStrayTarget
  BY <1>5, Zenon DEF NoStrayTarget
<1>20. Attaching /\ Attached
  <2>1. \A s \in Streams : pc[s] # "attach" /\ sending[s] # "open"
    BY <1>2, <1>7, ThreadFacts, Zenon
  <2> QED BY <2>1, Zenon DEF Attaching, Attached
<1> QED BY <1>6, <1>8, <1>9, <1>10, <1>12, <1>14, <1>15, <1>17, <1>18, <1>19, <1>20, Zenon DEF IInv

\* A step that changes nothing keeps it.
LEMMA StutterIInv == IInv /\ UNCHANGED vars => IInv'
<1> SUFFICES ASSUME IInv, UNCHANGED vars PROVE IInv'
  OBVIOUS
<1>1. UNCHANGED <<pc, tcpFlows, udpFlows, target, stream, sending, served, late, cancelled, connOpen, buffered, once, closing,
                  cur, arg, taken, registered, timer, active>>
  BY Zenon DEF vars, flow, conn, life, calls, server
<1>2. InTables' = InTables /\ Taken' = Taken /\ Held' = Held /\ Found' = Found
  BY <1>1, SameHands, Zenon
<1>3. Types' /\ Roles' /\ Table'
  BY <1>1, Zenon DEF IInv, Types, Roles, Table
<1>4. Registered' /\ Quiet'
  BY <1>1 DEF IInv, Registered, Quiet
<1>5. OneClose' /\ Carried'
  BY <1>1, Zenon DEF IInv, OneClose, Carried
<1>6. Dialling'
  BY <1>1, <1>2, Zenon DEF IInv, Dialling
<1>7. Emptied'
  BY <1>1, <1>2, Zenon DEF IInv, Emptied, Late
<1>8. NoStrayTarget'
  BY <1>1, <1>2, Zenon DEF IInv, NoStrayTarget
<1>9. Attaching' /\ Attached'
  BY <1>1, <1>2, Zenon DEF IInv, Attaching, Attached
<1> QED BY <1>3, <1>4, <1>5, <1>6, <1>7, <1>8, <1>9, Zenon DEF IInv

\* The inductive invariant holds throughout, whatever order the session's
\* goroutines, its client, the idle timer and Shutdown run in.
THEOREM QUICIInv == Spec => []IInv
<1>1. Init => IInv
  BY InitIInv
<1>2. IInv /\ [Next]_vars => IInv'
  <2>1. IInv /\ Next => IInv'
    BY TypesStep, RegisteredStep, QuietStep, OneCloseStep, CarriedStep, DiallingStep, EmptiedStep,
       NoStrayStep, AttachingStep, AttachedStep, Zenon DEF IInv
  <2> QED BY <2>1, StutterIInv, Zenon
<1> QED BY <1>1, <1>2, PTL DEF Spec

\* What the inductive invariant says of flows and streams.
LEMMA IInvKeeps == IInv => FlowsKept
<1> SUFFICES ASSUME IInv PROVE FlowsKept
  OBVIOUS
<1>1. TypeOK
  <2>1. active \in 0 .. 1
    <3>1. active = 0 \/ active = 1
      BY DEF IInv, Registered
    <3> QED BY <3>1
  <2>2. {cancelled, connOpen, registered, timer} \subseteq BOOLEAN
    BY Zenon DEF IInv, Types
  <2> QED BY <2>1, <2>2, Zenon DEF IInv, Types, TypeOK
<1>2. LateFlowCloses
  <2> SUFFICES ASSUME once = "done", InTables # {} PROVE InTables = {cur} /\ pc["control"] \in {"ok", "cf"}
    BY Zenon DEF LateFlowCloses
  <2>1. Late
    BY Zenon DEF Late
  <2>2. InTables \subseteq {cur} /\ (pc["control"] = "ok" \/ pc["control"] = "cf")
    BY <2>1, Zenon DEF IInv, Emptied
  <2> QED BY <2>2, Zenon
<1>3. StreamFinished
  <2> SUFFICES ASSUME NEW s \in Streams, pc[s] = "done", sending[s] = "open"
               PROVE  s \in late \/ served[s] \in closing \cup Taken
    BY Zenon DEF StreamFinished, Taken
  <2>1. Past(s) /\ Ended(s)
    BY Zenon DEF Past, Ended
  <2> QED BY <2>1, AttachedFacts, Zenon
<1> QED BY <1>1, <1>2, <1>3, Zenon DEF FlowsKept, IInv

\* What it says of the end of Run.
LEMMA IInvEnds == IInv => EndsClean
<1> SUFFICES ASSUME IInv PROVE EndsClean
  OBVIOUS
<1>1. QuietAtCleanup
  BY Zenon DEF IInv, Quiet, QuietAtCleanup
<1>2. Released
  <2> SUFFICES ASSUME pc["run"] = "done"
               PROVE  /\ \A t \in Counted : pc[t] \in {"new", "done"}
                      /\ \A o \in Flows : target[o] # "open"
                      /\ InTables = {} /\ closing = {}
                      /\ ~registered /\ ~timer /\ active = 0
    BY Zenon DEF Released
  <2>1. \A t \in Counted : pc[t] \in {"new", "done"}
    BY Zenon DEF IInv, Quiet
  <2>2. ~registered /\ ~timer
    BY Zenon DEF IInv, Registered
  <2>3. active = 0
    BY DEF IInv, Registered
  <2>4. once = "done" /\ \A t \in Threads : pc[t] # "flows"
    <3>1. once = "done"
      BY Zenon DEF IInv, OneClose
    <3>2. \A t \in Threads : pc[t] \notin Body
      BY <3>1, Zenon DEF IInv, OneClose
    <3> QED BY <3>1, <3>2, Zenon DEF Body
  <2>5. closing = {}
    BY <2>4, Zenon DEF IInv, OneClose
  <2>6. pc["control"] \in {"new", "done"}
    BY <2>1, ThreadFacts, Zenon
  <2>7. InTables = {}
    BY <2>4, <2>6, Zenon DEF IInv, Emptied, Late
  <2>8. Taken = {}
    <3>1. \A t \in Counted : taken[t] = {}
      BY <2>1, Zenon DEF IInv, Carried
    <3> QED BY <3>1, Zenon DEF Taken
  <2>9. Held = {}
    BY <2>5, <2>7, <2>8, Zenon DEF Held
  <2>10. \A o \in Flows : target[o] # "open"
    BY <2>6, <2>9, StrayFacts, Zenon
  <2> QED BY <2>1, <2>2, <2>3, <2>5, <2>7, <2>10, Zenon
<1> QED BY <1>1, <1>2, Zenon DEF EndsClean

\* No connection to a destination is ever left behind: each open one is in a
\* table, or in the hands of the goroutine that opens it, of one that closes its
\* flow, or of Close; a flow that enters its table after Close has emptied both
\* is taken out again; and the stream of a handler that has returned is closed,
\* or about to be, unless its flow was closed before it was attached.  For any
\* requests, numbers and streams of the client.
THEOREM QUICFlowsKept == Spec => []FlowsKept
BY QUICIInv, IInvKeeps, PTL

\* Run unregisters a session when all its loops have ended, although streams and
\* UDP flows keep adding to the WaitGroup that it waits for; and when it has
\* returned, no target is open, the tables are empty, and server, timer and
\* gauge have forgotten the session.
THEOREM QUICEndsClean == Spec => []EndsClean
BY QUICIInv, IInvEnds, PTL

=============================================================================
