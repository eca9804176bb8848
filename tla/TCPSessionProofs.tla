------------------------- MODULE TCPSessionProofs -------------------------
(***************************************************************************)
(* The flows of one TCP session, for any finite set of requests, whatever  *)
(* flow_ids the client gives them, and any limit.                          *)
(*                                                                         *)
(* Each conjunct of the invariant says what one part of the code relies    *)
(* on: where each goroutine can be (Roles), that Close's body runs once    *)
(* and has shut the connection before it takes the flows (OneClose), that  *)
(* handleOpenTCP alone knows the flow it opens (Opening), that the wait    *)
(* group is the number of loops (LoopsCounted).  Every action of the model *)
(* is first put into one of a few shapes (Cases); then each conjunct is    *)
(* shown to survive each shape.                                            *)
(***************************************************************************)
EXTENDS TCPSession, FiniteSetTheorems, TLAPS

-----------------------------------------------------------------------------
(* The inductive invariant.                                                *)

\* Where each kind of thread can be.
ControlLabels == Labels \ {"new", "exit"}
LoopLabels == {"new", "read", "allow", "write", "cfNotify", "closeNotify", "reply", "once", "exit", "done"}
                \cup BodyLabels
CallerLabels == {"new", "once", "done"} \cup BodyLabels

Roles ==
  /\ pc["control"] \in ControlLabels
  /\ \A o \in Flows : pc[o] \in LoopLabels
  /\ pc["wheel"] \in CallerLabels /\ pc["shutdown"] \in CallerLabels

\* The session is in the server's table from regInsert to unregDelete, wherever
\* in between Run calls Close; gauge and timer follow.
Outside == {"auth", "regInsert", "unregStore", "done"}
Registered ==
  /\ pc["control"] \in Outside => ~registered
  /\ pc["control"] \notin Outside \cup {"once"} \cup BodyLabels => registered
  /\ active = IF (registered /\ pc["control"] \notin {"regStore", "regInc"}) \/ pc["control"] = "unregStore"
              THEN 1 ELSE 0
  /\ timer => registered \/ pc["control"] = "unregStore"

\* One thread runs the body of Close, once; conn is closed before its snapshot,
\* and what it has taken out is closed before it returns.
OneClose ==
  /\ \A t \in Threads : pc[t] \in BodyLabels => once = "busy"
  /\ \A t, u \in Threads : pc[t] \in BodyLabels /\ pc[u] \in BodyLabels => t = u
  /\ \A t \in Threads : pc[t] \in BodyLabels \ {"conn"} => ~connOpen
  /\ once = "done" => ~connOpen
  /\ (\A t \in Threads : pc[t] # "flows") => closing = {}
  /\ pc["control"] = "done" => once = "done"

\* A flow is in the table under its own number.
Table == \A i \in Ids : tcpFlows[i] # NoFlow => FlowId[tcpFlows[i]] = i

\* What handleOpenTCP knows of the flow it opens: nobody else has it yet.
OpenLabels == {"dial", "insert", "inc", "ok", "spawn"}
Opening ==
  /\ pc["control"] \in OpenLabels => cur \in Flows /\ cid = FlowId[cur] /\ pc[cur] = "new"
  /\ pc["control"] \in OpenLabels \ {"dial"} => target[cur] # "none"
  /\ pc["control"] \in {"cfQuiet", "cfNotify", "allow", "write"} => cid \in Ids
  /\ \A o \in Flows : target[o] = "none" => pc[o] = "new"

\* The wait group counts the loops that have been started and have not ended.
Running == {o \in Flows : pc[o] \notin {"new", "done"}}
LoopsCounted == wg = Cardinality(Running)

\* closeFlow closes the flow it has taken out.
Taking == \A t \in Handlers : Closing(t) => taken[t] \in Flows

\* The types that these leave open.
Types ==
  /\ pc \in [Threads -> Labels]
  /\ tcpFlows \in [Ids -> Flows \cup {NoFlow}]
  /\ target \in [Flows -> {"none", "open", "closed"}]
  /\ streams \in Int
  /\ connOpen \in BOOLEAN /\ registered \in BOOLEAN /\ timer \in BOOLEAN
  /\ buffered \in 0 .. Buffered
  /\ once \in {"free", "busy", "done"}
  /\ closing \in SUBSET Flows
  /\ cur \in Flows \cup {NoFlow} /\ cid \in Ids \cup {NoFlow}
  /\ taken \in [Handlers -> Flows \cup {NoFlow}]

IInv ==
  /\ Types /\ Roles /\ Registered /\ OneClose /\ Table /\ Opening /\ LoopsCounted /\ Taking
  /\ StreamsCounted /\ NoStrayTarget /\ LateFlowCloses

-----------------------------------------------------------------------------
(* Threads and their moves.                                                *)

\* The control thread, the wheel, Shutdown and the loops are different threads.
LEMMA ThreadFacts ==
  /\ "control" \in Threads /\ "wheel" \in Threads /\ "shutdown" \in Threads /\ "control" \in Handlers
  /\ Flows \subseteq Threads /\ Flows \subseteq Handlers /\ Handlers \subseteq Threads
  /\ \A o \in Flows : o # "control" /\ o # "wheel" /\ o # "shutdown" /\ o # NoFlow /\ FlowId[o] \in Ids
  /\ \A t \in Threads : t \in Flows \/ t = "control" \/ t = "wheel" \/ t = "shutdown"
BY SessionAssumption, Zenon DEF Threads, Handlers, Ids

\* One thread goes from one place to another.
LEMMA Move ==
  ASSUME Types, NEW t \in Threads, NEW from, NEW to \in Labels, Goto(t, from, to)
  PROVE  /\ pc[t] = from /\ pc'[t] = to /\ \A u \in Threads : u # t => pc'[u] = pc[u]
         /\ pc' \in [Threads -> Labels]
BY Zenon DEF Types, Goto

Fits(t, l) ==
  /\ l \in Labels
  /\ t = "control" => l \in ControlLabels
  /\ t \in Flows => l \in LoopLabels
  /\ t \in {"wheel", "shutdown"} => l \in CallerLabels

\* A thread that goes to a place of its own role keeps Roles.
LEMMA RolesMove ==
  ASSUME Types, Roles, NEW t \in Threads, NEW from, NEW to, Goto(t, from, to), Fits(t, to)
  PROVE  /\ pc[t] = from /\ pc'[t] = to /\ \A u \in Threads : u # t => pc'[u] = pc[u]
         /\ pc' \in [Threads -> Labels] /\ Roles'
<1>1. to \in Labels
  BY Zenon DEF Fits
<1>2. /\ pc[t] = from /\ pc'[t] = to /\ \A u \in Threads : u # t => pc'[u] = pc[u]
      /\ pc' \in [Threads -> Labels]
  BY <1>1, Move, Zenon
<1> QED BY <1>2, ThreadFacts, Zenon DEF Roles, Fits

\* All labels to which a thread goes are its own.
LEMMA LabelsFit ==
  /\ \A l \in ControlLabels : Fits("control", l)
  /\ \A o \in Flows : \A l \in LoopLabels : Fits(o, l)
  /\ \A t \in Threads : \A l \in {"once", "done"} \cup BodyLabels : Fits(t, l)
<1>1. ControlLabels \subseteq Labels /\ LoopLabels \subseteq Labels
  BY Zenon DEF ControlLabels, LoopLabels, Labels, BodyLabels, CloseFlowLabels
<1>2. \A l \in {"once", "done"} \cup BodyLabels : l \in ControlLabels /\ l \in LoopLabels /\ l \in CallerLabels
  BY Zenon DEF ControlLabels, LoopLabels, CallerLabels, Labels, BodyLabels
<1> QED BY <1>1, <1>2, ThreadFacts, Zenon DEF Fits

-----------------------------------------------------------------------------
(* What kinds of steps there are.                                          *)

\* A step that leaves the flows, conn and Close's state alone.
Plain(t, from, to) ==
  /\ Goto(t, from, to) /\ Fits(t, to) /\ UNCHANGED <<flow, connOpen, life>>
  /\ from \notin {"closeQuiet", "closeNotify"} /\ to \notin {"closeQuiet", "closeNotify"}
  /\ to \in BodyLabels => from = "flows" /\ to = "wait" /\ closing = {}
  /\ from \in BodyLabels => to = "wait"
  /\ t \in Flows => from \notin {"new", "done"} /\ to \notin {"new", "done"}
  /\ t = "control" => /\ from \notin {"inc", "insert", "cfQuiet"} /\ to \notin {"inc", "insert"}
                      /\ from = "ok" => to = "cfQuiet" \/ connOpen
                      /\ to = "done" => once = "done"
                      /\ UNCHANGED <<cur, cid>> \/ from = "read"
  /\ t # "control" => UNCHANGED <<cur, cid>>

PlainStep == \E t \in Threads : \E from, to \in Labels : Plain(t, from, to)

\* The steps of a flow's life, and those of Close.
FlowStep ==
  \/ \E t \in Handlers : closeFlow(t)
  \/ openDial \/ openInsert \/ openInc \/ openSpawn
  \/ \E o \in Flows : loopExit(o)
CloseStep ==
  \E t \in Threads :
    \/ once = "free" /\ Goto(t, "once", "conn") /\ once' = "busy"
       /\ UNCHANGED <<flow, conn, wg, closing, cur, cid, server>>
    \/ CloseConn(t) \/ Snapshot(t) \/ CloseOne(t) \/ Wait(t)

\* Registration and its end.
LEMMA RegistrationPlain == Registration => PlainStep
<1> SUFFICES ASSUME Registration PROVE \E from, to \in Labels : Plain("control", from, to)
  BY ThreadFacts, Zenon DEF PlainStep
<1>1. \E from \in {"auth", "regInsert", "regStore", "regInc", "authOK", "unregDelete", "unregStore"},
         to \in {"once", "regInsert", "regStore", "regInc", "authOK", "read", "unregDelete", "unregStore"} :
        Goto("control", from, to)
  BY Zenon DEF Registration, authFail, authVerified, regInsert, regStore, regInc, authOK, unregDelete, unregStore
<1>2. UNCHANGED <<flow, connOpen, life, cur, cid>>
  BY Zenon DEF Registration, authFail, authVerified, regInsert, regStore, regInc, authOK, unregDelete, unregStore, conn
<1>3. PICK from \in {"auth", "regInsert", "regStore", "regInc", "authOK", "unregDelete", "unregStore"},
           to \in {"once", "regInsert", "regStore", "regInc", "authOK", "read", "unregDelete", "unregStore"} :
        Goto("control", from, to)
  BY <1>1, Zenon
<1>4. from \in Labels /\ to \in ControlLabels /\ to \in Labels
  BY DEF Labels, ControlLabels
<1>5. Fits("control", to)
  BY <1>4, LabelsFit, Zenon
<1>6. Plain("control", from, to)
  BY <1>2, <1>3, <1>5, ThreadFacts, Zenon DEF Plain, BodyLabels
<1> QED BY <1>4, <1>6, Zenon

\* Where a thread goes behind Close.
LEMMA AfterFits ==
  ASSUME NEW t \in Threads
  PROVE  /\ AfterClose(t) \in Labels /\ Fits(t, AfterClose(t)) /\ AfterClose(t) \in {"unregDelete", "exit", "done"}
         /\ t \in Flows => AfterClose(t) = "exit"
         /\ t = "control" => AfterClose(t) = IF registered THEN "unregDelete" ELSE "done"
<1>0. {"unregDelete", "exit", "done"} \subseteq Labels /\ "exit" \in LoopLabels
      /\ "unregDelete" \in ControlLabels /\ "done" \in ControlLabels
  BY Zenon DEF Labels, LoopLabels, ControlLabels
<1>1. CASE t \in Flows
  BY <1>0, <1>1, ThreadFacts, LabelsFit, Zenon DEF AfterClose
<1>2. CASE t = "control"
  BY <1>0, <1>2, ThreadFacts, LabelsFit, Zenon DEF AfterClose
<1>3. CASE t \notin Flows /\ t # "control"
  BY <1>0, <1>3, LabelsFit, Zenon DEF AfterClose
<1> QED BY <1>1, <1>2, <1>3, Zenon

\* The frames that Run reads, up to the dial, and the data of a flow.
LEMMA FramesPlain ==
  ASSUME readError \/ frameOther \/ (\E i \in Ids : frameCloseFlow(i) \/ frameData(i))
           \/ (\E o \in Flows : frameOpen(o)) \/ openOK \/ dataAllow \/ dataWrite
  PROVE  PlainStep
<1> DEFINE F == {"read", "ok", "allow", "write"}
           T == {"unregDelete", "read", "reply", "cfQuiet", "cfNotify", "allow", "dial", "spawn", "write", "once"}
<1>1. PICK from \in F, to \in T :
        /\ Goto("control", from, to) /\ UNCHANGED <<flow, connOpen, life>>
        /\ from = "ok" => to = "cfQuiet" \/ connOpen
        /\ UNCHANGED <<cur, cid>> \/ from = "read"
  <2>1. CASE readError \/ openOK \/ dataAllow \/ dataWrite
    BY <2>1, Zenon DEF readError, openOK, dataAllow, dataWrite, conn
  <2>2. CASE frameOther
    BY <2>2, Zenon DEF frameOther, Frame
  <2>3. CASE \E i \in Ids : frameCloseFlow(i)
    BY <2>3, Zenon DEF frameCloseFlow, Frame
  <2>4. CASE \E i \in Ids : frameData(i)
    <3>1. PICK i \in Ids : Frame(IF tcpFlows[i] = NoFlow THEN "cfNotify" ELSE "allow")
      BY <2>4, Zenon DEF frameData
    <3>2. Frame("cfNotify") \/ Frame("allow")
      BY <3>1, Zenon
    <3> QED BY <3>2, Zenon DEF Frame
  <2>5. CASE \E o \in Flows : frameOpen(o)
    <3>1. Frame(IF FlowCount >= MaxFlows THEN "reply" ELSE "dial")
      BY <2>5, Zenon DEF frameOpen
    <3>2. Frame("reply") \/ Frame("dial")
      BY <3>1, Zenon
    <3> QED BY <3>2, Zenon DEF Frame
  <2> QED BY <2>1, <2>2, <2>3, <2>4, <2>5, Zenon
<1>2. from \in Labels /\ to \in ControlLabels /\ to \in Labels
  BY DEF Labels, ControlLabels, CloseFlowLabels
<1>3. Fits("control", to)
  BY <1>2, LabelsFit, Zenon
<1>4. Plain("control", from, to)
  BY <1>1, <1>3, ThreadFacts, Zenon DEF Plain, BodyLabels
<1> QED BY <1>2, <1>4, ThreadFacts, Zenon DEF PlainStep

\* The steps of a loop but its last, and the writes whose result is ignored.
LEMMA LoopPlain ==
  ASSUME NEW o \in Flows, loopData(o) \/ loopEnd(o) \/ loopAllow(o) \/ loopWrite(o) \/ reply(o)
  PROVE  PlainStep
<1> DEFINE L == {"read", "allow", "write", "cfNotify", "once", "reply", "exit"}
<1>1. PICK from \in L, to \in L : Goto(o, from, to) /\ UNCHANGED <<flow, connOpen, life, cur, cid>>
  <2>1. Back(o) = "exit"
    BY ThreadFacts, Zenon DEF Back
  <2> QED BY <2>1, Zenon DEF loopData, loopEnd, loopAllow, loopWrite, reply, conn
<1>2. from \in Labels /\ to \in LoopLabels /\ to \in Labels
  BY DEF Labels, LoopLabels, CloseFlowLabels
<1>3. Fits(o, to)
  BY <1>2, LabelsFit, Zenon
<1>4. Plain(o, from, to)
  BY <1>1, <1>3, ThreadFacts, Zenon DEF Plain, BodyLabels
<1> QED BY <1>2, <1>4, ThreadFacts, Zenon DEF PlainStep

\* The control goroutine writes its answer.
LEMMA ReplyPlain == reply("control") => PlainStep
<1> SUFFICES ASSUME reply("control") PROVE PlainStep
  OBVIOUS
<1>1. Goto("control", "reply", "read") /\ UNCHANGED <<flow, connOpen, life, cur, cid>>
  BY Zenon DEF reply, Back, conn
<1>2. "reply" \in Labels /\ "read" \in ControlLabels /\ "read" \in Labels
  BY Zenon DEF Labels, ControlLabels, CloseFlowLabels
<1>3. Fits("control", "read")
  BY <1>2, LabelsFit, Zenon
<1>4. Plain("control", "reply", "read")
  BY <1>1, <1>3, ThreadFacts, Zenon DEF Plain, BodyLabels
<1> QED BY <1>2, <1>4, ThreadFacts, Zenon DEF PlainStep

\* The callers of Close, and those who come too late for its body.
LEMMA CallerPlain ==
  ASSUME \/ idleTimeout \/ Shutdown
         \/ \E t \in Threads : AllClosed(t) \/ (OnceDo(t) /\ once = "done")
  PROVE  PlainStep
<1>1. CASE idleTimeout \/ Shutdown
  <2>1. PICK t \in {"wheel", "shutdown"} : Goto(t, "new", "once") /\ UNCHANGED <<flow, connOpen, life, cur, cid>>
    BY <1>1, Zenon DEF idleTimeout, Shutdown, conn
  <2>2. "new" \in Labels /\ "once" \in Labels /\ t \in Threads /\ t # "control" /\ t \notin Flows
    BY ThreadFacts, Zenon DEF Labels
  <2>3. Fits(t, "once")
    BY <2>2, LabelsFit, Zenon
  <2>4. Plain(t, "new", "once")
    BY <2>1, <2>2, <2>3, Zenon DEF Plain, BodyLabels
  <2> QED BY <2>2, <2>4, Zenon DEF PlainStep
<1>2. CASE \E t \in Threads : AllClosed(t)
  <2>1. PICK t \in Threads : Goto(t, "flows", "wait") /\ closing = {} /\ UNCHANGED <<flow, connOpen, life, cur, cid>>
    BY <1>2, Zenon DEF AllClosed, conn
  <2>2. "flows" \in Labels /\ "wait" \in Labels /\ "wait" \in BodyLabels
    BY Zenon DEF Labels, BodyLabels
  <2>3. Fits(t, "wait")
    BY <2>2, LabelsFit, Zenon
  <2>4. Plain(t, "flows", "wait")
    BY <2>1, <2>2, <2>3, Zenon DEF Plain, BodyLabels
  <2> QED BY <2>2, <2>4, Zenon DEF PlainStep
<1>3. CASE \E t \in Threads : OnceDo(t) /\ once = "done"
  <2>1. PICK t \in Threads : Goto(t, "once", AfterClose(t)) /\ once = "done" /\ UNCHANGED <<flow, connOpen, life, cur, cid>>
    BY <1>3, Zenon DEF OnceDo, conn
  <2>2. /\ AfterClose(t) \in Labels /\ Fits(t, AfterClose(t)) /\ AfterClose(t) \in {"unregDelete", "exit", "done"}
        /\ t \in Flows => AfterClose(t) = "exit"
    BY AfterFits, Zenon
  <2>3. Plain(t, "once", AfterClose(t)) /\ "once" \in Labels
    BY <2>1, <2>2, Zenon DEF Plain, BodyLabels, Labels
  <2> QED BY <2>2, <2>3, Zenon DEF PlainStep
<1> QED BY <1>1, <1>2, <1>3, Zenon

\* Every step is one of these.
LEMMA Shapes == Next => PlainStep \/ FlowStep \/ CloseStep \/ UNCHANGED vars
<1> SUFFICES ASSUME Next PROVE PlainStep \/ FlowStep \/ CloseStep \/ UNCHANGED vars
  OBVIOUS
<1>1. CASE Registration
  BY <1>1, RegistrationPlain, Zenon
<1>2. CASE Frames
  BY <1>2, FramesPlain, Zenon DEF Frames, handleOpenTCP, FlowStep
<1>3. CASE \E o \in Flows : targetToClientLoop(o)
  BY <1>3, LoopPlain, Zenon DEF targetToClientLoop, FlowStep
<1>4. CASE \E t \in Handlers : closeFlow(t) \/ reply(t)
  BY <1>4, LoopPlain, ReplyPlain, Zenon DEF Handlers, FlowStep
<1>5. CASE \E t \in Threads : Close(t)
  <2>1. PICK t \in Threads : Close(t)
    BY <1>5, Zenon
  <2>2. CASE OnceDo(t)
    BY <2>2, CallerPlain, Zenon DEF OnceDo, CloseStep
  <2>3. CASE CloseConn(t) \/ Snapshot(t) \/ CloseOne(t) \/ Wait(t)
    BY <2>3, Zenon DEF CloseStep
  <2>4. CASE AllClosed(t)
    <3>1. \E u \in Threads : AllClosed(u) \/ (OnceDo(u) /\ once = "done")
      BY <2>4, Zenon
    <3> QED BY <3>1, CallerPlain, Zenon
  <2> QED BY <2>1, <2>2, <2>3, <2>4, Zenon DEF Close
<1>6. CASE idleTimeout \/ Shutdown
  BY <1>6, CallerPlain, Zenon
<1>7. CASE Terminated
  BY <1>7, Zenon DEF Terminated
<1> QED BY <1>1, <1>2, <1>3, <1>4, <1>5, <1>6, <1>7, Zenon DEF Next

-----------------------------------------------------------------------------
(* Types, and what the server knows.                                       *)

\* The types of what no flow and no Close changes.
SmallTypes ==
  /\ registered \in BOOLEAN /\ timer \in BOOLEAN /\ buffered \in 0 .. Buffered
  /\ cur \in Flows \cup {NoFlow} /\ cid \in Ids \cup {NoFlow}

\* The variables that are TRUE or FALSE, or one of a few values.
LEMMA SmallTypesStep == IInv /\ Next => SmallTypes'
<1> SUFFICES ASSUME IInv, Next PROVE SmallTypes'
  OBVIOUS
<1>0. SmallTypes
  BY Zenon DEF IInv, Types, SmallTypes
<1>1. ASSUME UNCHANGED <<conn, cur, cid, server>> PROVE SmallTypes'
  BY <1>0, <1>1, Zenon DEF SmallTypes, conn, server
<1>2. CASE Registration
  <2>1. CASE authFail \/ authVerified \/ authOK
    BY <1>1, <2>1, Zenon DEF authFail, authVerified, authOK
  <2>2. CASE regInsert \/ regStore \/ regInc \/ unregDelete \/ unregStore
    BY <1>0, <2>2, Zenon DEF regInsert, regStore, regInc, unregDelete, unregStore, SmallTypes, conn
  <2> QED BY <1>2, <2>1, <2>2, Zenon DEF Registration
<1>3. ASSUME NEW to, Frame(to) PROVE /\ buffered' \in 0 .. Buffered /\ UNCHANGED server
  <2>1. buffered \in 0 .. Buffered /\ Buffered \in Nat /\ (connOpen \/ buffered > 0)
        /\ buffered' = IF connOpen THEN buffered ELSE buffered - 1
    BY <1>0, <1>3, SessionAssumption, Zenon DEF SmallTypes, Frame
  <2>2. buffered' \in 0 .. Buffered
    BY <2>1
  <2> QED BY <1>3, <2>2, Zenon DEF Frame
<1>4. CASE Frames
  <2>1. CASE readError \/ dataAllow \/ dataWrite \/ handleOpenTCP
    BY <1>1, <2>1, Zenon DEF readError, dataAllow, dataWrite, handleOpenTCP, openDial, openInsert, openInc, openOK, openSpawn
  <2>2. CASE frameOther
    BY <1>0, <1>3, <2>2, Zenon DEF frameOther, SmallTypes, server
  <2>3. CASE \E i \in Ids : frameCloseFlow(i)
    BY <1>0, <1>3, <2>3, Zenon DEF frameCloseFlow, SmallTypes, server
  <2>4. CASE \E i \in Ids : frameData(i)
    <3>1. \A i \in Ids : tcpFlows[i] \in Flows \cup {NoFlow}
      BY Zenon DEF IInv, Types
    <3> QED BY <1>0, <1>3, <2>4, <3>1, Zenon DEF frameData, SmallTypes, server
  <2>5. CASE \E o \in Flows : frameOpen(o)
    BY <1>0, <1>3, <2>5, ThreadFacts, Zenon DEF frameOpen, SmallTypes, server
  <2> QED BY <1>4, <2>1, <2>2, <2>3, <2>4, <2>5, Zenon DEF Frames
<1>5. CASE \E o \in Flows : targetToClientLoop(o)
  BY <1>1, <1>5, Zenon DEF targetToClientLoop, loopData, loopEnd, loopAllow, loopWrite, loopExit
<1>6. CASE \E t \in Handlers : closeFlow(t) \/ reply(t)
  BY <1>1, <1>6, Zenon DEF closeFlow, cfDelete, cfClose, reply
<1>7. CASE \E t \in Threads : Close(t)
  BY <1>0, <1>1, <1>7, Zenon DEF Close, OnceDo, CloseConn, Snapshot, CloseOne, AllClosed, Wait, SmallTypes, conn, server
<1>8. CASE idleTimeout \/ Shutdown \/ Terminated
  BY <1>0, <1>1, <1>8, Zenon DEF idleTimeout, Shutdown, Terminated, vars, SmallTypes, conn, server
<1> QED BY <1>2, <1>4, <1>5, <1>6, <1>7, <1>8, Zenon DEF Next

\* closeFlow finds the flow under a number of the session's, and moves within its role.
LEMMA TakeFacts ==
  ASSUME IInv, NEW t \in Handlers, NEW from \in {"cfQuiet", "cfNotify"}, NEW to, cfDelete(t, from, to),
         to = IF from = "cfQuiet" THEN "closeQuiet" ELSE "closeNotify"
  PROVE  /\ IdOf(t) \in Ids /\ tcpFlows[IdOf(t)] \in Flows \cup {NoFlow}
         /\ Fits(t, to) /\ Fits(t, Back(t)) /\ pc[t] = from
<1>1. pc[t] = from /\ t \in Threads
  BY ThreadFacts, Zenon DEF cfDelete, Goto
<1>2. CASE t = "control"
  <2>1. cid \in Ids /\ IdOf(t) = cid /\ Back(t) = "read"
    BY <1>1, <1>2, Zenon DEF IInv, Opening, IdOf, Back
  <2>2. to \in ControlLabels /\ "read" \in ControlLabels
    BY Zenon DEF ControlLabels, Labels, CloseFlowLabels
  <2> QED BY <1>1, <1>2, <2>1, <2>2, LabelsFit, Zenon DEF IInv, Types
<1>3. CASE t \in Flows
  <2>1. IdOf(t) = FlowId[t] /\ FlowId[t] \in Ids /\ Back(t) = "exit"
    BY <1>3, ThreadFacts, Zenon DEF IdOf, Back
  <2>2. from = "cfNotify"
    BY <1>1, <1>3, Zenon DEF IInv, Roles, LoopLabels, BodyLabels
  <2>3. to \in LoopLabels /\ "exit" \in LoopLabels
    BY <2>2, Zenon DEF LoopLabels
  <2> QED BY <1>1, <1>3, <2>1, <2>3, LabelsFit, Zenon DEF IInv, Types
<1> QED BY <1>2, <1>3, Zenon DEF Handlers

\* closeFlow closes the flow it has taken out, and moves within its role.
LEMMA ShutFacts ==
  ASSUME IInv, NEW t \in Handlers, NEW from \in {"closeQuiet", "closeNotify"}, NEW to, cfClose(t, from, to),
         to = IF from = "closeQuiet" THEN Back(t) ELSE "reply"
  PROVE  /\ taken[t] \in Flows /\ Fits(t, to) /\ pc[t] = from /\ to \in {"read", "exit", "reply"}
<1>1. pc[t] = from /\ t \in Threads
  BY ThreadFacts, Zenon DEF cfClose, Goto
<1>2. taken[t] \in Flows
  BY <1>1, Zenon DEF IInv, Taking, Closing
<1>3. CASE t = "control"
  <2>1. to \in {"read", "reply"} /\ {"read", "reply"} \subseteq ControlLabels
    BY <1>3 DEF ControlLabels, Labels, CloseFlowLabels, Back
  <2> QED BY <1>1, <1>2, <1>3, <2>1, LabelsFit, Zenon
<1>4. CASE t \in Flows
  <2>1. to \in {"exit", "reply"} /\ {"exit", "reply"} \subseteq LoopLabels
    BY <1>4, ThreadFacts, Zenon DEF LoopLabels, Back
  <2> QED BY <1>1, <1>2, <1>4, <2>1, LabelsFit, Zenon
<1> QED BY <1>3, <1>4, Zenon DEF Handlers

\* The two halves of closeFlow, each with its own labels.
Take(t) == \E from \in {"cfQuiet", "cfNotify"} :
             cfDelete(t, from, IF from = "cfQuiet" THEN "closeQuiet" ELSE "closeNotify")
Shut(t) == \E from \in {"closeQuiet", "closeNotify"} :
             cfClose(t, from, IF from = "closeQuiet" THEN Back(t) ELSE "reply")

\* closeFlow is two steps: the flow is taken out of the table, then closed.
LEMMA Halves ==
  ASSUME NEW t \in Handlers, closeFlow(t)
  PROVE  Take(t) \/ Shut(t)
<1>1. CASE cfDelete(t, "cfQuiet", "closeQuiet") \/ cfDelete(t, "cfNotify", "closeNotify")
  BY <1>1, Zenon DEF Take
<1>2. CASE cfClose(t, "closeQuiet", Back(t)) \/ cfClose(t, "closeNotify", "reply")
  BY <1>2, Zenon DEF Shut
<1> QED BY <1>1, <1>2, Zenon DEF closeFlow

\* What closeFlow does when it takes a flow out, or finds none.
Taken(t, o) ==
  /\ t \in Threads /\ t \in Handlers /\ o \in Flows \cup {NoFlow} /\ IdOf(t) \in Ids /\ o = tcpFlows[IdOf(t)]
  /\ pc[t] \in {"cfQuiet", "cfNotify"}
  /\ o = NoFlow => pc'[t] = Back(t) /\ Back(t) \in {"read", "exit"}
  /\ o # NoFlow => pc'[t] \in {"closeQuiet", "closeNotify"}
  /\ \A u \in Threads : u # t => pc'[u] = pc[u]
  /\ pc' \in [Threads -> Labels] /\ Roles'
  /\ taken' = [taken EXCEPT ![t] = o]
  /\ tcpFlows' = [tcpFlows EXCEPT ![IdOf(t)] = NoFlow]
  /\ UNCHANGED <<target, streams, conn, life, cur, cid, server>>

\* What taking a flow out of the table does.
LEMMA TakeStep ==
  ASSUME IInv, NEW t \in Handlers, Take(t)
  PROVE  Taken(t, tcpFlows[IdOf(t)])
<1>1. PICK from \in {"cfQuiet", "cfNotify"} :
        cfDelete(t, from, IF from = "cfQuiet" THEN "closeQuiet" ELSE "closeNotify")
  BY Zenon DEF Take
<1> DEFINE to == IF from = "cfQuiet" THEN "closeQuiet" ELSE "closeNotify"
           o == tcpFlows[IdOf(t)]
           dest == IF o = NoFlow THEN Back(t) ELSE to
<1>2. /\ IdOf(t) \in Ids /\ o \in Flows \cup {NoFlow} /\ Fits(t, to) /\ Fits(t, Back(t)) /\ pc[t] = from
  <2>1. cfDelete(t, from, to) /\ to = IF from = "cfQuiet" THEN "closeQuiet" ELSE "closeNotify"
    BY <1>1, Zenon
  <2> HIDE DEF to
  <2> QED BY <2>1, TakeFacts, Zenon
<1>3. Goto(t, from, dest) /\ Fits(t, dest)
  BY <1>1, <1>2, Zenon DEF cfDelete
<1>4. /\ pc'[t] = dest /\ \A u \in Threads : u # t => pc'[u] = pc[u]
      /\ pc' \in [Threads -> Labels] /\ Roles' /\ t \in Threads
  <2>1. t \in Threads
    BY ThreadFacts, Zenon
  <2> HIDE DEF dest
  <2> QED BY <1>3, <2>1, RolesMove, Zenon DEF IInv
<1>5. Back(t) \in {"read", "exit"} /\ to \in {"closeQuiet", "closeNotify"}
  BY Zenon DEF Back
<1>6. /\ taken' = [taken EXCEPT ![t] = o] /\ tcpFlows' = [tcpFlows EXCEPT ![IdOf(t)] = NoFlow]
      /\ UNCHANGED <<target, streams, conn, life, cur, cid, server>>
  BY <1>1, Zenon DEF cfDelete
<1> QED BY <1>2, <1>4, <1>5, <1>6, Zenon DEF Taken

\* What closeFlow does when it closes the flow it has taken out.
Ended(t, o) ==
  /\ t \in Threads /\ t \in Handlers /\ o \in Flows /\ o = taken[t]
  /\ pc[t] \in {"closeQuiet", "closeNotify"} /\ pc'[t] \in {"read", "exit", "reply"}
  /\ \A u \in Threads : u # t => pc'[u] = pc[u]
  /\ pc' \in [Threads -> Labels] /\ Roles'
  /\ target' = [target EXCEPT ![o] = "closed"] /\ streams' = streams - 1
  /\ taken' = [taken EXCEPT ![t] = NoFlow]
  /\ UNCHANGED <<tcpFlows, conn, life, cur, cid, server>>

\* What closing the flow that was taken out does.
LEMMA ShutStep ==
  ASSUME IInv, NEW t \in Handlers, Shut(t)
  PROVE  Ended(t, taken[t])
<1>1. PICK from \in {"closeQuiet", "closeNotify"} :
        cfClose(t, from, IF from = "closeQuiet" THEN Back(t) ELSE "reply")
  BY Zenon DEF Shut
<1> DEFINE to == IF from = "closeQuiet" THEN Back(t) ELSE "reply"
<1>2. taken[t] \in Flows /\ Fits(t, to) /\ pc[t] = from /\ to \in {"read", "exit", "reply"}
  BY <1>1, ShutFacts, Zenon
<1>3. Goto(t, from, to)
  BY <1>1, Zenon DEF cfClose
<1>4. /\ pc'[t] = to /\ \A u \in Threads : u # t => pc'[u] = pc[u]
      /\ pc' \in [Threads -> Labels] /\ Roles' /\ t \in Threads
  BY <1>2, <1>3, RolesMove, ThreadFacts, Zenon DEF IInv
<1>5. /\ target' = [target EXCEPT ![taken[t]] = "closed"] /\ streams' = streams - 1
      /\ taken' = [taken EXCEPT ![t] = NoFlow]
      /\ UNCHANGED <<tcpFlows, conn, life, cur, cid, server>>
  BY <1>1, Zenon DEF cfClose
<1> QED BY <1>2, <1>4, <1>5, Zenon DEF Ended

\* Where handleOpenTCP goes.
LEMMA OpenMoves ==
  ASSUME IInv, NEW from, NEW to \in {"insert", "reply", "inc", "ok"}, Goto("control", from, to)
  PROVE  /\ pc["control"] = from /\ pc'["control"] = to
         /\ \A u \in Threads : u # "control" => pc'[u] = pc[u]
         /\ pc' \in [Threads -> Labels] /\ Roles'
<1>1. to \in ControlLabels
  BY Zenon DEF ControlLabels, Labels
<1> QED BY <1>1, LabelsFit, RolesMove, ThreadFacts, Zenon DEF IInv

\* The loop of the flow that has been opened begins.
LEMMA SpawnMoves ==
  ASSUME IInv, openSpawn
  PROVE  /\ cur \in Flows /\ pc["control"] = "spawn" /\ pc[cur] = "new" /\ target[cur] # "none"
         /\ pc'["control"] = "read" /\ pc'[cur] = "read"
         /\ \A u \in Threads : u # "control" /\ u # cur => pc'[u] = pc[u]
         /\ pc' \in [Threads -> Labels] /\ Roles'
<1>1. cur \in Flows /\ pc["control"] = "spawn" /\ pc[cur] = "new" /\ target[cur] # "none" /\ cur # "control"
  BY ThreadFacts, Zenon DEF openSpawn, IInv, Opening, OpenLabels
<1>2. "read" \in Labels /\ "read" \in ControlLabels /\ "read" \in LoopLabels
  BY Zenon DEF Labels, ControlLabels, LoopLabels
<1>3. pc' = [pc EXCEPT !["control"] = "read", ![cur] = "read"] /\ pc \in [Threads -> Labels]
  BY Zenon DEF openSpawn, IInv, Types
<1>4. /\ pc'["control"] = "read" /\ pc'[cur] = "read" /\ pc' \in [Threads -> Labels]
      /\ \A u \in Threads : u # "control" /\ u # cur => pc'[u] = pc[u]
  BY <1>1, <1>2, <1>3, ThreadFacts, Zenon
<1>5. Roles'
  BY <1>1, <1>2, <1>4, ThreadFacts, Zenon DEF IInv, Roles
<1> QED BY <1>1, <1>4, <1>5, Zenon

\* A loop ends.
LEMMA ExitMoves ==
  ASSUME IInv, NEW o \in Flows, loopExit(o)
  PROVE  /\ pc[o] = "exit" /\ pc'[o] = "done"
         /\ \A u \in Threads : u # o => pc'[u] = pc[u]
         /\ pc' \in [Threads -> Labels] /\ Roles'
<1>1. Goto(o, "exit", "done") /\ o \in Threads /\ Fits(o, "done")
  BY LabelsFit, ThreadFacts, Zenon DEF loopExit
<1> QED BY <1>1, RolesMove, Zenon DEF IInv

\* Where the body of Close goes.
LEMMA CloseMoves ==
  ASSUME IInv, NEW t \in Threads, NEW from, NEW to \in BodyLabels, Goto(t, from, to)
  PROVE  /\ pc[t] = from /\ pc'[t] = to
         /\ \A u \in Threads : u # t => pc'[u] = pc[u]
         /\ pc' \in [Threads -> Labels] /\ Roles'
BY LabelsFit, RolesMove, Zenon DEF IInv

\* The end of the body of Close.
LEMMA WaitMoves ==
  ASSUME IInv, NEW t \in Threads, Wait(t)
  PROVE  /\ pc[t] = "wait" /\ pc'[t] = AfterClose(t)
         /\ \A u \in Threads : u # t => pc'[u] = pc[u]
         /\ pc' \in [Threads -> Labels] /\ Roles'
<1>1. Goto(t, "wait", AfterClose(t)) /\ Fits(t, AfterClose(t))
  BY AfterFits, Zenon DEF Wait
<1> QED BY <1>1, RolesMove, Zenon DEF IInv

\* Every step, with what it does to the program counters.
LEMMA Cases ==
  ASSUME IInv, Next
  PROVE  \/ \E t \in Threads : \E from, to \in Labels : Plain(t, from, to)
         \/ \E t \in Handlers : Taken(t, tcpFlows[IdOf(t)])
         \/ \E t \in Handlers : Ended(t, taken[t])
         \/ openDial \/ openInsert \/ openInc \/ openSpawn
         \/ \E o \in Flows : loopExit(o)
         \/ CloseStep \/ UNCHANGED vars
<1>1. PlainStep \/ FlowStep \/ CloseStep \/ UNCHANGED vars
  BY Shapes, Zenon
<1>2. CASE \E t \in Handlers : closeFlow(t)
  BY <1>2, Halves, TakeStep, ShutStep, Zenon
<1> QED BY <1>1, <1>2, Zenon DEF PlainStep, FlowStep

\* Where a plain step goes.
LEMMA PlainMoves ==
  ASSUME IInv, NEW t \in Threads, NEW from, NEW to, Plain(t, from, to)
  PROVE  /\ pc[t] = from /\ pc'[t] = to
         /\ \A u \in Threads : u # t => pc'[u] = pc[u]
         /\ pc' \in [Threads -> Labels] /\ Roles'
BY RolesMove, Zenon DEF Plain, IInv

\* Types, places and the numbers of the table.
LEMMA TypesStep == IInv /\ Next => Types' /\ Roles' /\ Table'
<1> SUFFICES ASSUME IInv, Next PROVE Types' /\ Roles' /\ Table'
  OBVIOUS
<1>0. SmallTypes' /\ Types /\ Roles /\ Table
  BY SmallTypesStep, Zenon DEF IInv
<1> USE DEF SmallTypes, Types
<1>1. CASE \E t \in Threads : \E from, to \in Labels : Plain(t, from, to)
  <2>1. PICK t \in Threads, from \in Labels, to \in Labels : Plain(t, from, to)
    BY <1>1, Zenon
  <2>2. pc' \in [Threads -> Labels] /\ Roles'
    BY <2>1, PlainMoves, Zenon
  <2>3. UNCHANGED <<tcpFlows, target, streams, taken, connOpen, once, closing>>
    BY <2>1, Zenon DEF Plain, flow, life
  <2> QED BY <1>0, <2>2, <2>3, Zenon DEF Table
<1>2. CASE \E t \in Handlers : Taken(t, tcpFlows[IdOf(t)])
  <2>1. PICK t \in Handlers : Taken(t, tcpFlows[IdOf(t)])
    BY <1>2, Zenon
  <2>2. tcpFlows' \in [Ids -> Flows \cup {NoFlow}] /\ taken' \in [Handlers -> Flows \cup {NoFlow}] /\ Table'
    BY <1>0, <2>1, Zenon DEF Taken, Table
  <2> QED BY <1>0, <2>1, <2>2, Zenon DEF Taken, conn, life
<1>3. CASE \E t \in Handlers : Ended(t, taken[t])
  <2>1. PICK t \in Handlers : Ended(t, taken[t])
    BY <1>3, Zenon
  <2>2. target' \in [Flows -> {"none", "open", "closed"}] /\ taken' \in [Handlers -> Flows \cup {NoFlow}]
    BY <1>0, <2>1, Zenon DEF Ended
  <2>3. streams' \in Int
    BY <1>0, <2>1 DEF Ended
  <2> QED BY <1>0, <2>1, <2>2, <2>3, Zenon DEF Ended, conn, life, Table
<1>4. CASE openDial
  <2>1. pc' \in [Threads -> Labels] /\ Roles'
    BY <1>4, OpenMoves, Zenon DEF openDial
  <2>2. target' \in [Flows -> {"none", "open", "closed"}]
    BY <1>0, <1>4, Zenon DEF openDial
  <2> QED BY <1>0, <1>4, <2>1, <2>2, Zenon DEF openDial, conn, life, Table
<1>5. CASE openInsert
  <2>1. pc' \in [Threads -> Labels] /\ Roles'
    BY <1>5, OpenMoves, Zenon DEF openInsert
  <2>2. cur \in Flows /\ cid = FlowId[cur] /\ cid \in Ids
    <3>1. pc["control"] = "insert"
      BY <1>5, Zenon DEF openInsert, Goto
    <3> QED BY <3>1, ThreadFacts, Zenon DEF IInv, Opening, OpenLabels
  <2>3. target' \in [Flows -> {"none", "open", "closed"}] /\ tcpFlows' \in [Ids -> Flows \cup {NoFlow}] /\ Table'
    BY <1>0, <1>5, <2>2, Zenon DEF openInsert, Table
  <2> QED BY <1>0, <1>5, <2>1, <2>3, Zenon DEF openInsert, conn, life
<1>6. CASE openInc
  <2>1. pc' \in [Threads -> Labels] /\ Roles'
    BY <1>6, OpenMoves, Zenon DEF openInc
  <2>2. streams' \in Int
    BY <1>0, <1>6 DEF openInc
  <2> QED BY <1>0, <1>6, <2>1, <2>2, Zenon DEF openInc, conn, life, Table
<1>7. CASE openSpawn
  BY <1>0, <1>7, SpawnMoves, Zenon DEF openSpawn, flow, conn, Table
<1>8. CASE \E o \in Flows : loopExit(o)
  BY <1>0, <1>8, ExitMoves, Zenon DEF loopExit, flow, conn, Table
<1>9. CASE CloseStep
  <2>1. PICK t \in Threads :
          \/ once = "free" /\ Goto(t, "once", "conn") /\ once' = "busy"
             /\ UNCHANGED <<flow, conn, wg, closing, cur, cid, server>>
          \/ CloseConn(t) \/ Snapshot(t) \/ CloseOne(t) \/ Wait(t)
    BY <1>9, Zenon DEF CloseStep
  <2>2. {"conn", "snapshot", "flows"} \subseteq BodyLabels
    BY Zenon DEF BodyLabels
  <2>3. CASE once = "free" /\ Goto(t, "once", "conn") /\ once' = "busy"
             /\ UNCHANGED <<flow, conn, wg, closing, cur, cid, server>>
    BY <1>0, <2>2, <2>3, CloseMoves, Zenon DEF flow, conn, Table
  <2>4. CASE CloseConn(t)
    BY <1>0, <2>2, <2>4, CloseMoves, Zenon DEF CloseConn, flow, life, Table
  <2>5. CASE Snapshot(t)
    <3>1. pc' \in [Threads -> Labels] /\ Roles'
      BY <2>2, <2>5, CloseMoves, Zenon DEF Snapshot
    <3>2. closing' \in SUBSET Flows
      BY <1>0, <2>5 DEF Snapshot
    <3>3. tcpFlows' \in [Ids -> Flows \cup {NoFlow}] /\ Table'
      BY <2>5, Zenon DEF Snapshot, Table
    <3> QED BY <1>0, <2>5, <3>1, <3>2, <3>3, Zenon DEF Snapshot, conn
  <2>6. CASE CloseOne(t)
    <3>1. closing' \in SUBSET Flows /\ target' \in [Flows -> {"none", "open", "closed"}]
      BY <1>0, <2>6, Zenon DEF CloseOne
    <3>2. streams' \in Int
      BY <1>0, <2>6 DEF CloseOne
    <3> QED BY <1>0, <2>6, <3>1, <3>2, Zenon DEF CloseOne, conn, Roles, Table
  <2>7. CASE Wait(t)
    BY <1>0, <2>7, WaitMoves, Zenon DEF Wait, flow, conn, Table
  <2> QED BY <2>1, <2>3, <2>4, <2>5, <2>6, <2>7, Zenon
<1>10. CASE UNCHANGED vars
  BY <1>0, <1>10, Zenon DEF vars, flow, conn, life, Roles, Table
<1> QED BY <1>1, <1>2, <1>3, <1>4, <1>5, <1>6, <1>7, <1>8, <1>9, <1>10, Cases, Zenon

\* Registration of the session: only Run changes it.
LEMMA RegisteredStep == IInv /\ Next => Registered'
<1> SUFFICES ASSUME IInv, Next PROVE Registered'
  OBVIOUS
<1>0. Registered /\ Types /\ Roles
  BY Zenon DEF IInv
<1> DEFINE p == pc["control"]
           Inside == {"authOK", "read", "reply", "dial", "insert", "inc", "ok", "spawn", "allow", "write", "unregDelete"}
                       \cup CloseFlowLabels
<1>1. ASSUME UNCHANGED <<p, registered, active>>, timer' => timer PROVE Registered'
  BY <1>0, <1>1, Zenon DEF Registered
<1>2. ASSUME p \in Inside, p' \in Inside \cup {"once"}, UNCHANGED server PROVE Registered'
  <2>1. /\ p \notin Outside \cup {"once", "regStore", "regInc"} \cup BodyLabels
        /\ p' \notin Outside \cup {"regStore", "regInc"}
    BY <1>2, Zenon DEF Outside, BodyLabels, CloseFlowLabels
  <2>2. registered /\ active = 1 /\ p' # "unregStore"
    BY <1>0, <2>1, Zenon DEF Registered, Outside
  <2> QED BY <1>2, <2>1, <2>2, Zenon DEF Registered, server
<1>3. ASSUME NEW from, NEW to \in ControlLabels, Goto("control", from, to) PROVE p = from /\ p' = to
  BY <1>0, <1>3, LabelsFit, RolesMove, ThreadFacts, Zenon
<1>4. Inside \subseteq ControlLabels /\ {"once", "regInsert", "regStore", "regInc", "unregStore", "done"} \subseteq ControlLabels
      /\ BodyLabels \subseteq ControlLabels
  BY DEF ControlLabels, Labels, CloseFlowLabels, BodyLabels
<1>5. CASE Registration
  <2>1. CASE authFail \/ authVerified
    <3>1. p = "auth" /\ p' \in {"once", "regInsert"} /\ UNCHANGED server
      BY <1>3, <1>4, <2>1, Zenon DEF authFail, authVerified
    <3> QED BY <1>0, <3>1, Zenon DEF Registered, server, Outside, BodyLabels
  <2>2. CASE regInsert
    <3>1. p = "regInsert" /\ p' = "regStore"
      BY <1>3, <1>4, <2>2, Zenon DEF regInsert
    <3> QED BY <1>0, <2>2, <3>1, Zenon DEF Registered, Outside, BodyLabels, regInsert
  <2>3. CASE regStore
    <3>1. p = "regStore" /\ p' = "regInc"
      BY <1>3, <1>4, <2>3, Zenon DEF regStore
    <3> QED BY <1>0, <2>3, <3>1, Zenon DEF Registered, Outside, BodyLabels, regStore
  <2>4. CASE regInc
    <3>1. p = "regInc" /\ p' = "authOK"
      BY <1>3, <1>4, <2>4, Zenon DEF regInc
    <3> QED BY <1>0, <2>4, <3>1 DEF Registered, Outside, BodyLabels, regInc
  <2>5. CASE authOK
    BY <1>2, <1>3, <1>4, <2>5, Zenon DEF authOK
  <2>6. CASE unregDelete
    <3>1. p = "unregDelete" /\ p' = "unregStore"
      BY <1>3, <1>4, <2>6, Zenon DEF unregDelete
    <3> QED BY <1>0, <2>6, <3>1, Zenon DEF Registered, Outside, BodyLabels, unregDelete
  <2>7. CASE unregStore
    <3>1. p = "unregStore" /\ p' = "once"
      BY <1>3, <1>4, <2>7, Zenon DEF unregStore
    <3> QED BY <1>0, <2>7, <3>1 DEF Registered, Outside, BodyLabels, unregStore
  <2> QED BY <1>5, <2>1, <2>2, <2>3, <2>4, <2>5, <2>6, <2>7, Zenon DEF Registration
<1>6. ASSUME NEW to \in Inside, Frame(to) PROVE Registered'
  BY <1>2, <1>3, <1>4, <1>6, Zenon DEF Frame
<1>7. CASE Frames
  <2>0. {"read", "reply", "cfQuiet", "cfNotify", "dial", "allow"} \subseteq Inside
    BY Zenon DEF CloseFlowLabels
  <2>1. CASE readError \/ dataAllow \/ dataWrite \/ openOK
    BY <1>2, <1>3, <1>4, <2>0, <2>1, Zenon DEF readError, dataAllow, dataWrite, openOK
  <2>2. CASE openDial \/ openInsert \/ openInc
    BY <1>2, <1>3, <1>4, <2>2, Zenon DEF openDial, openInsert, openInc
  <2>3. CASE openSpawn
    BY <1>2, <2>3, SpawnMoves, Zenon DEF openSpawn
  <2>4. CASE frameOther
    BY <1>6, <2>0, <2>4, Zenon DEF frameOther
  <2>5. CASE \E i \in Ids : frameCloseFlow(i)
    BY <1>6, <2>0, <2>5, Zenon DEF frameCloseFlow
  <2>6. CASE \E i \in Ids : frameData(i)
    <3>1. PICK i \in Ids : Frame(IF tcpFlows[i] = NoFlow THEN "cfNotify" ELSE "allow")
      BY <2>6, Zenon DEF frameData
    <3> QED BY <1>6, <2>0, <3>1, Zenon
  <2>7. CASE \E o \in Flows : frameOpen(o)
    <3>1. Frame(IF FlowCount >= MaxFlows THEN "reply" ELSE "dial")
      BY <2>7, Zenon DEF frameOpen
    <3> QED BY <1>6, <2>0, <3>1, Zenon
  <2> QED BY <1>7, <2>1, <2>2, <2>3, <2>4, <2>5, <2>6, <2>7, Zenon DEF Frames, handleOpenTCP
<1>9. ASSUME NEW t \in Threads, t # "control", NEW from, NEW to, Goto(t, from, to) PROVE p' = p
  BY <1>0, <1>9, ThreadFacts, Zenon DEF Goto, Types
<1>10. CASE \E o \in Flows : targetToClientLoop(o)
  <2>1. PICK o \in Flows : targetToClientLoop(o)
    BY <1>10, Zenon
  <2>2. UNCHANGED server /\ \E from, to : Goto(o, from, to)
    BY <2>1, Zenon DEF targetToClientLoop, loopData, loopEnd, loopAllow, loopWrite, loopExit
  <2> QED BY <1>1, <1>9, <2>2, ThreadFacts, Zenon DEF server
<1>11. CASE \E t \in Handlers : closeFlow(t) \/ reply(t)
  <2>1. PICK t \in Handlers : closeFlow(t) \/ reply(t)
    BY <1>11, Zenon
  <2>2. UNCHANGED server /\ \E from, to : Goto(t, from, to)
    BY <2>1, Zenon DEF closeFlow, cfDelete, cfClose, reply
  <2>3. CASE t # "control"
    BY <1>1, <1>9, <2>2, <2>3, ThreadFacts, Zenon DEF server
  <2>4. CASE t = "control" /\ reply(t)
    <3>1. Goto("control", "reply", "read")
      BY <2>4, Zenon DEF reply, Back
    <3> QED BY <1>2, <1>3, <1>4, <2>2, <3>1, Zenon
  <2>5. CASE t = "control" /\ closeFlow(t)
    <3>1. Taken(t, tcpFlows[IdOf(t)]) \/ Ended(t, taken[t])
      BY <2>5, Halves, TakeStep, ShutStep, Zenon
    <3>2. p \in Inside /\ (p' \in Inside \/ p' = "exit") /\ p' \in ControlLabels
      BY <2>5, <3>1, Zenon DEF Taken, Ended, CloseFlowLabels, Roles
    <3>3. p' # "exit"
      BY <3>2, Zenon DEF ControlLabels
    <3> QED BY <1>2, <2>2, <3>2, <3>3, Zenon
  <2> QED BY <2>1, <2>3, <2>4, <2>5, Zenon
<1>12. CASE \E t \in Threads : Close(t)
  <2>1. PICK t \in Threads : Close(t)
    BY <1>12, Zenon
  <2>2. UNCHANGED server
    BY <2>1, Zenon DEF Close, OnceDo, CloseConn, Snapshot, CloseOne, AllClosed, Wait
  <2>3. CASE t # "control"
    <3>1. UNCHANGED pc \/ \E from, to : Goto(t, from, to)
      BY <2>1, Zenon DEF Close, OnceDo, CloseConn, Snapshot, CloseOne, AllClosed, Wait
    <3> QED BY <1>1, <1>9, <2>2, <2>3, <3>1, Zenon DEF server
  <2>4. CASE t = "control"
    <3>1. /\ p \in {"once"} \cup BodyLabels
          /\ \/ p' \in BodyLabels
             \/ p' = IF registered THEN "unregDelete" ELSE "done"
      <4>1. CASE CloseOne(t)
        BY <2>4, <4>1, Zenon DEF CloseOne, BodyLabels
      <4>2. CASE CloseConn(t) \/ Snapshot(t) \/ AllClosed(t)
        BY <1>3, <1>4, <2>4, <4>2, Zenon DEF CloseConn, Snapshot, AllClosed, BodyLabels
      <4>3. CASE OnceDo(t) \/ Wait(t)
        <5>1. \/ Goto("control", "once", "conn")
              \/ Goto("control", "once", AfterClose(t)) \/ Goto("control", "wait", AfterClose(t))
          BY <2>4, <4>3, Zenon DEF OnceDo, Wait
        <5>2. AfterClose(t) = (IF registered THEN "unregDelete" ELSE "done") /\ AfterClose(t) \in ControlLabels
          BY <1>4, <2>4, AfterFits, ThreadFacts, Zenon
        <5>3. "conn" \in BodyLabels /\ "wait" \in BodyLabels
          BY Zenon DEF BodyLabels
        <5> QED BY <1>3, <1>4, <5>1, <5>2, <5>3, Zenon
      <4> QED BY <2>1, <4>1, <4>2, <4>3, Zenon DEF Close
    <3>2. CASE p' \in BodyLabels
      BY <1>0, <2>2, <3>1, <3>2, Zenon DEF Registered, server, Outside, BodyLabels
    <3>3. CASE p' = IF registered THEN "unregDelete" ELSE "done"
      BY <1>0, <2>2, <3>1, <3>3, Zenon DEF Registered, server, Outside, BodyLabels
    <3> QED BY <3>1, <3>2, <3>3, Zenon
  <2> QED BY <2>3, <2>4, Zenon
<1>13. CASE idleTimeout \/ Shutdown
  <2>1. p' = p
    BY <1>9, <1>13, ThreadFacts, Zenon DEF idleTimeout, Shutdown
  <2> QED BY <1>1, <1>13, <2>1, Zenon DEF idleTimeout, Shutdown, server
<1>14. CASE Terminated
  BY <1>1, <1>14, Zenon DEF Terminated, vars, server
<1> QED BY <1>5, <1>7, <1>10, <1>11, <1>12, <1>13, <1>14, Zenon DEF Next

-----------------------------------------------------------------------------
(* Close, the loops and what closeFlow takes out.                          *)

\* What the steps of Close's body have in common.
Body(t) ==
  /\ pc[t] \in {"once"} \cup BodyLabels
  /\ pc'[t] \in BodyLabels \cup {"unregDelete", "exit", "done"} /\ (t \in Flows => pc'[t] \in BodyLabels \cup {"exit"})
  /\ \A u \in Threads : u # t => pc'[u] = pc[u]
  /\ UNCHANGED <<taken, cur, cid, wg>>

\* A step of the body of Close moves one thread, and none of the flows in hand.
LEMMA BodyMoves ==
  ASSUME IInv, CloseStep
  PROVE  \E t \in Threads : Body(t)
<1>1. PICK t \in Threads :
        \/ once = "free" /\ Goto(t, "once", "conn") /\ once' = "busy"
           /\ UNCHANGED <<flow, conn, wg, closing, cur, cid, server>>
        \/ CloseConn(t) \/ Snapshot(t) \/ CloseOne(t) \/ Wait(t)
  BY Zenon DEF CloseStep
<1>2. UNCHANGED <<taken, cur, cid, wg>>
  BY <1>1, Zenon DEF CloseConn, Snapshot, CloseOne, Wait, flow, life
<1>3. {"conn", "snapshot", "flows", "wait"} \subseteq BodyLabels
  BY Zenon DEF BodyLabels
<1>4. CASE CloseOne(t)
  BY <1>2, <1>3, <1>4, Zenon DEF CloseOne, Body
<1>5. CASE Wait(t)
  <2>1. AfterClose(t) \in {"unregDelete", "exit", "done"} /\ (t \in Flows => AfterClose(t) = "exit")
    BY AfterFits, Zenon
  <2> QED BY <1>2, <1>3, <1>5, <2>1, WaitMoves, Zenon DEF Body
<1>6. CASE \E from \in {"once"} \cup BodyLabels, to \in BodyLabels : Goto(t, from, to)
  BY <1>2, <1>6, CloseMoves, Zenon DEF Body
<1> QED BY <1>1, <1>3, <1>4, <1>5, <1>6, Zenon DEF CloseConn, Snapshot

\* What the moves of all other steps have in common for the loops: none begins or ends.
LoopsStay == \A o \in Flows : /\ pc'[o] \in {"new", "done"} <=> pc[o] \in {"new", "done"}
                              /\ pc[o] = "new" => pc'[o] = "new"

\* Only openSpawn begins a loop, and only loopExit ends one.
LEMMA LoopsStayStep ==
  ASSUME IInv, Next
  PROVE  LoopsStay \/ openSpawn \/ \E o \in Flows : loopExit(o)
<1>0. Roles /\ Roles'
  BY TypesStep, Zenon DEF IInv
<1>1. CASE \E t \in Threads : \E from, to \in Labels : Plain(t, from, to)
  <2>1. PICK t \in Threads, from \in Labels, to \in Labels : Plain(t, from, to)
    BY <1>1, Zenon
  <2> QED BY <2>1, PlainMoves, ThreadFacts, Zenon DEF Plain, LoopsStay
<1>2. CASE \E t \in Handlers : Taken(t, tcpFlows[IdOf(t)])
  BY <1>2, ThreadFacts, Zenon DEF Taken, LoopsStay
<1>3. CASE \E t \in Handlers : Ended(t, taken[t])
  BY <1>3, ThreadFacts, Zenon DEF Ended, LoopsStay
<1>4. CASE openDial \/ openInsert \/ openInc
  <2>1. \A u \in Threads : u # "control" => pc'[u] = pc[u]
    BY <1>4, OpenMoves, Zenon DEF openDial, openInsert, openInc
  <2> QED BY <2>1, ThreadFacts, Zenon DEF LoopsStay
<1>5. CASE CloseStep
  <2>1. PICK t \in Threads : Body(t)
    BY <1>5, BodyMoves, Zenon
  <2> QED BY <2>1, ThreadFacts, Zenon DEF Body, BodyLabels, LoopsStay
<1>6. CASE UNCHANGED vars
  BY <1>6, Zenon DEF vars, LoopsStay
<1> QED BY <1>1, <1>2, <1>3, <1>4, <1>5, <1>6, Cases, Zenon

\* A subset of Flows is finite.
LEMMA FlowSets ==
  ASSUME NEW S \in SUBSET Flows
  PROVE  IsFiniteSet(S) /\ Cardinality(S) \in Nat
BY FS_Subset, FS_CardinalityType, SessionAssumption, Zenon

\* wg counts the loops: wg.Add before go, wg.Done at the end of each.
LEMMA LoopsCountedStep == IInv /\ Next => LoopsCounted'
<1> SUFFICES ASSUME IInv, Next PROVE LoopsCounted'
  OBVIOUS
<1>0. LoopsCounted /\ IsFiniteSet(Running) /\ Cardinality(Running) \in Nat
  BY FlowSets, Zenon DEF IInv, Running
<1>1. CASE openSpawn
  <2>1. Running' = Running \cup {cur} /\ cur \notin Running
    BY <1>1, SpawnMoves, ThreadFacts, Zenon DEF Running
  <2>2. Cardinality(Running') = Cardinality(Running) + 1
    BY <1>0, <2>1, FS_AddElement, Zenon
  <2> QED BY <1>0, <1>1, <2>2, Zenon DEF LoopsCounted, openSpawn
<1>2. CASE \E o \in Flows : loopExit(o)
  <2>1. PICK o \in Flows : loopExit(o)
    BY <1>2, Zenon
  <2>2. Running' = Running \ {o} /\ o \in Running
    BY <2>1, ExitMoves, ThreadFacts, Zenon DEF Running
  <2>3. Cardinality(Running') = Cardinality(Running) - 1
    BY <1>0, <2>2, FS_RemoveElement, Zenon
  <2> QED BY <1>0, <2>1, <2>3, Zenon DEF LoopsCounted, loopExit
<1>3. CASE ~openSpawn /\ ~\E o \in Flows : loopExit(o)
  <2>1. LoopsStay
    BY <1>3, LoopsStayStep, Zenon
  <2>2. Running' = Running
    BY <2>1, Zenon DEF LoopsStay, Running
  <2>3. wg' = wg
    <3>1. CASE \E t \in Threads : \E from, to \in Labels : Plain(t, from, to)
      BY <3>1, Zenon DEF Plain, life
    <3>2. CASE \E t \in Handlers : Taken(t, tcpFlows[IdOf(t)]) \/ Ended(t, taken[t])
      BY <3>2, Zenon DEF Taken, Ended, life
    <3>3. CASE openDial \/ openInsert \/ openInc
      BY <3>3, Zenon DEF openDial, openInsert, openInc, life
    <3>4. CASE CloseStep
      BY <3>4, BodyMoves, Zenon DEF Body
    <3>5. CASE UNCHANGED vars
      BY <3>5, Zenon DEF vars, life
    <3> QED BY <1>3, <3>1, <3>2, <3>3, <3>4, <3>5, Cases, Zenon
  <2> QED BY <1>0, <2>2, <2>3, Zenon DEF LoopsCounted
<1> QED BY <1>1, <1>2, <1>3, Zenon

\* Only closeFlow comes to its second half, with a flow in its hands.
LEMMA TakingStep == IInv /\ Next => Taking'
<1> SUFFICES ASSUME IInv, Next PROVE Taking'
  OBVIOUS
<1>0. Taking /\ taken \in [Handlers -> Flows \cup {NoFlow}] /\ Handlers \subseteq Threads
  BY ThreadFacts, Zenon DEF IInv, Types
<1>1. ASSUME UNCHANGED taken, \A u \in Threads : pc'[u] \in {"closeQuiet", "closeNotify"} => pc'[u] = pc[u]
      PROVE  Taking'
  BY <1>0, <1>1, Zenon DEF Taking, Closing
<1>2. CASE \E t \in Threads : \E from, to \in Labels : Plain(t, from, to)
  <2>1. PICK t \in Threads, from \in Labels, to \in Labels : Plain(t, from, to)
    BY <1>2, Zenon
  <2> QED BY <1>1, <2>1, PlainMoves, Zenon DEF Plain, flow
<1>3. CASE \E t \in Handlers : Taken(t, tcpFlows[IdOf(t)])
  <2>1. PICK t \in Handlers : Taken(t, tcpFlows[IdOf(t)])
    BY <1>3, Zenon
  <2>2. CASE tcpFlows[IdOf(t)] = NoFlow
    BY <1>0, <2>1, <2>2, Zenon DEF Taken, Taking, Closing
  <2>3. CASE tcpFlows[IdOf(t)] # NoFlow
    BY <1>0, <2>1, <2>3, Zenon DEF Taken, Taking, Closing
  <2> QED BY <2>2, <2>3, Zenon
<1>4. CASE \E t \in Handlers : Ended(t, taken[t])
  BY <1>0, <1>4, Zenon DEF Ended, Taking, Closing
<1>5. CASE openDial \/ openInsert \/ openInc
  BY <1>1, <1>5, OpenMoves, Zenon DEF openDial, openInsert, openInc
<1>6. CASE openSpawn
  BY <1>1, <1>6, SpawnMoves, Zenon DEF openSpawn, flow
<1>7. CASE \E o \in Flows : loopExit(o)
  BY <1>1, <1>7, ExitMoves, Zenon DEF loopExit, flow
<1>8. CASE CloseStep
  BY <1>1, <1>8, BodyMoves, Zenon DEF Body, BodyLabels
<1>9. CASE UNCHANGED vars
  BY <1>1, <1>9, Zenon DEF vars, flow
<1> QED BY <1>2, <1>3, <1>4, <1>5, <1>6, <1>7, <1>8, <1>9, Cases, Zenon

\* One thread is in Close's body, and conn and the flows are closed in its order.
LEMMA OneCloseStep == IInv /\ Next => OneClose'
<1> SUFFICES ASSUME IInv, Next PROVE OneClose'
  OBVIOUS
<1>0. OneClose /\ Types /\ Roles
  BY Zenon DEF IInv
<1>1. ASSUME UNCHANGED <<once, connOpen>>,
             \A u \in Threads : pc'[u] \in BodyLabels => pc[u] \in BodyLabels /\ (pc[u] = "conn" => pc'[u] = "conn"),
             pc'["control"] = "done" => pc["control"] = "done" \/ once = "done",
             closing' = {} \/ (closing' = closing /\ \A u \in Threads : pc[u] = "flows" => pc'[u] = "flows")
      PROVE  OneClose'
  BY <1>0, <1>1, Zenon DEF OneClose
<1>2. CASE \E t \in Threads : \E from, to \in Labels : Plain(t, from, to)
  <2>1. PICK t \in Threads, from \in Labels, to \in Labels : Plain(t, from, to)
    BY <1>2, Zenon
  <2>2. pc[t] = from /\ pc'[t] = to /\ \A u \in Threads : u # t => pc'[u] = pc[u]
    BY <2>1, PlainMoves, Zenon
  <2>3. /\ UNCHANGED <<once, connOpen, closing>>
        /\ to \in BodyLabels => from = "flows" /\ to = "wait" /\ closing = {}
        /\ from \in BodyLabels => to = "wait"
        /\ t = "control" /\ to = "done" => once = "done"
    BY <2>1, Zenon DEF Plain, life
  <2>4. "flows" \in BodyLabels /\ "wait" \in BodyLabels
    BY Zenon DEF BodyLabels
  <2>5. \A u \in Threads : pc'[u] \in BodyLabels => pc[u] \in BodyLabels /\ (pc[u] = "conn" => pc'[u] = "conn")
    BY <2>2, <2>3, <2>4, Zenon
  <2>6. pc'["control"] = "done" => pc["control"] = "done" \/ once = "done"
    BY <2>2, <2>3, ThreadFacts, Zenon
  <2>7. closing' = {} \/ (closing' = closing /\ \A u \in Threads : pc[u] = "flows" => pc'[u] = "flows")
    BY <2>2, <2>3, <2>4, Zenon
  <2> QED BY <1>1, <2>3, <2>5, <2>6, <2>7, Zenon
<1>3. CASE \E t \in Handlers : Taken(t, tcpFlows[IdOf(t)]) \/ Ended(t, taken[t])
  <2>1. PICK t \in Threads :
          /\ \A u \in Threads : u # t => pc'[u] = pc[u]
          /\ pc[t] \in CloseFlowLabels /\ pc'[t] \in CloseFlowLabels \cup {"read", "exit", "reply"}
          /\ UNCHANGED <<once, connOpen, closing>>
    BY <1>3, Zenon DEF Taken, Ended, conn, life, CloseFlowLabels
  <2>2. pc[t] # "flows" /\ pc'[t] \notin BodyLabels \cup {"done"}
    BY <2>1, Zenon DEF BodyLabels, CloseFlowLabels
  <2> QED BY <1>1, <2>1, <2>2, ThreadFacts, Zenon
<1>4. CASE openDial \/ openInsert \/ openInc
  <2>1. /\ \A u \in Threads : u # "control" => pc'[u] = pc[u]
        /\ pc["control"] \in {"dial", "insert", "inc"} /\ pc'["control"] \in {"insert", "reply", "inc", "ok"}
    BY <1>4, OpenMoves, Zenon DEF openDial, openInsert, openInc
  <2>2. pc["control"] # "flows" /\ pc'["control"] \notin BodyLabels \cup {"done"}
    BY <2>1, Zenon DEF BodyLabels
  <2>3. UNCHANGED <<once, connOpen, closing>>
    BY <1>4, Zenon DEF openDial, openInsert, openInc, conn, life
  <2> QED BY <1>1, <2>1, <2>2, <2>3, ThreadFacts, Zenon
<1>5. CASE openSpawn
  <2>1. UNCHANGED <<once, connOpen, closing>>
    BY <1>5, Zenon DEF openSpawn, conn
  <2>2. "read" \notin BodyLabels \cup {"done"} /\ "spawn" # "flows" /\ "new" # "flows"
    BY Zenon DEF BodyLabels
  <2> QED BY <1>1, <1>5, <2>1, <2>2, SpawnMoves, ThreadFacts, Zenon
<1>6. CASE \E o \in Flows : loopExit(o)
  <2>1. PICK o \in Flows : loopExit(o)
    BY <1>6, Zenon
  <2>2. UNCHANGED <<once, connOpen, closing>>
    BY <2>1, Zenon DEF loopExit, conn
  <2>3. "done" \notin BodyLabels /\ "exit" # "flows"
    BY Zenon DEF BodyLabels
  <2>4. pc[o] = "exit" /\ pc'[o] = "done" /\ pc'["control"] = pc["control"] /\ \A u \in Threads : u # o => pc'[u] = pc[u]
    BY <2>1, ExitMoves, ThreadFacts, Zenon
  <2>5. \A u \in Threads : (pc'[u] \in BodyLabels => pc'[u] = pc[u]) /\ (pc[u] = "flows" => pc'[u] = pc[u])
    BY <2>3, <2>4, Zenon
  <2>6. \A u \in Threads : pc'[u] \in BodyLabels => pc[u] \in BodyLabels /\ (pc[u] = "conn" => pc'[u] = "conn")
    BY <2>5, Zenon
  <2>7. closing' = {} \/ (closing' = closing /\ \A u \in Threads : pc[u] = "flows" => pc'[u] = "flows")
    BY <2>2, <2>5, Zenon
  <2>8. UNCHANGED <<once, connOpen>>
    BY <2>2, Zenon
  <2>9. pc'["control"] = "done" => pc["control"] = "done" \/ once = "done"
    BY <2>4, Zenon
  <2> QED BY <1>1, <2>6, <2>7, <2>8, <2>9, Zenon
<1>7. CASE CloseStep
  <2>1. PICK t \in Threads :
          \/ once = "free" /\ Goto(t, "once", "conn") /\ once' = "busy"
             /\ UNCHANGED <<flow, conn, wg, closing, cur, cid, server>>
          \/ CloseConn(t) \/ Snapshot(t) \/ CloseOne(t) \/ Wait(t)
    BY <1>7, Zenon DEF CloseStep
  <2>2. {"conn", "snapshot", "flows", "wait"} \subseteq BodyLabels /\ "once" \notin BodyLabels
    BY Zenon DEF BodyLabels
  <2>3. CASE once = "free" /\ Goto(t, "once", "conn") /\ once' = "busy"
             /\ UNCHANGED <<flow, conn, wg, closing, cur, cid, server>>
    <3>1. pc[t] = "once" /\ pc'[t] = "conn" /\ \A u \in Threads : u # t => pc'[u] = pc[u]
      BY <2>2, <2>3, CloseMoves, Zenon
    <3>2. \A u \in Threads : pc[u] \notin BodyLabels
      BY <1>0, <2>3, Zenon DEF OneClose
    <3>3. UNCHANGED <<connOpen, closing>> /\ pc["control"] # "done"
      BY <1>0, <2>3, Zenon DEF conn, OneClose
    <3> QED BY <1>0, <2>2, <2>3, <3>1, <3>2, <3>3, ThreadFacts, Zenon DEF OneClose
  <2>4. ASSUME pc[t] \in BodyLabels, pc'[t] \in BodyLabels \ {"conn"}, ~connOpen', once' = once,
               \A u \in Threads : u # t => pc'[u] = pc[u],
               pc'[t] # "flows" => closing' = {}
        PROVE  OneClose'
    <3>1. \A u \in Threads : u # t => pc[u] \notin BodyLabels /\ pc'[u] \notin BodyLabels
      BY <1>0, <2>4, Zenon DEF OneClose
    <3>2. once' = "busy" /\ "done" \notin BodyLabels
      BY <1>0, <2>4, Zenon DEF OneClose, BodyLabels
    <3>3. pc["control"] # "done" /\ pc'["control"] # "done"
      BY <1>0, <2>4, <3>2, ThreadFacts, Zenon DEF OneClose
    <3> QED BY <2>4, <3>1, <3>2, <3>3, Zenon DEF OneClose
  <2>5. CASE CloseConn(t)
    <3>1. pc[t] = "conn" /\ pc'[t] = "snapshot" /\ \A u \in Threads : u # t => pc'[u] = pc[u]
      BY <2>2, <2>5, CloseMoves, Zenon DEF CloseConn
    <3>2. \A u \in Threads : pc[u] # "flows"
      BY <1>0, <2>2, <3>1, Zenon DEF OneClose
    <3>3. closing' = {} /\ ~connOpen' /\ once' = once
      BY <1>0, <2>5, <3>2, Zenon DEF OneClose, CloseConn, life
    <3> QED BY <2>2, <2>4, <3>1, <3>3, Zenon
  <2>6. CASE Snapshot(t)
    <3>1. pc[t] = "snapshot" /\ pc'[t] = "flows" /\ \A u \in Threads : u # t => pc'[u] = pc[u]
      BY <2>2, <2>6, CloseMoves, Zenon DEF Snapshot
    <3>2. ~connOpen' /\ once' = once
      BY <1>0, <2>2, <2>6, <3>1, Zenon DEF OneClose, Snapshot, conn
    <3> QED BY <2>2, <2>4, <3>1, <3>2, Zenon
  <2>7. CASE CloseOne(t)
    <3>1. pc[t] = "flows" /\ pc' = pc /\ ~connOpen' /\ once' = once
      BY <1>0, <2>2, <2>7, Zenon DEF OneClose, CloseOne, conn
    <3> QED BY <2>2, <2>4, <3>1, Zenon
  <2>8. CASE Wait(t)
    <3>1. pc[t] = "wait" /\ pc'[t] = AfterClose(t) /\ \A u \in Threads : u # t => pc'[u] = pc[u]
      BY <2>8, WaitMoves, Zenon
    <3>2. AfterClose(t) \notin BodyLabels
      BY AfterFits, Zenon DEF BodyLabels
    <3>3. \A u \in Threads : u # t => pc[u] \notin BodyLabels
      BY <1>0, <2>2, <3>1, Zenon DEF OneClose
    <3>4. \A u \in Threads : pc'[u] \notin BodyLabels /\ pc[u] # "flows"
      BY <2>2, <3>1, <3>2, <3>3, Zenon
    <3>5. closing' = {} /\ once' = "done" /\ ~connOpen'
      BY <1>0, <2>2, <2>8, <3>1, <3>4, Zenon DEF OneClose, Wait, conn
    <3> QED BY <3>4, <3>5, Zenon DEF OneClose
  <2> QED BY <2>1, <2>3, <2>5, <2>6, <2>7, <2>8, Zenon
<1>8. CASE UNCHANGED vars
  BY <1>1, <1>8, Zenon DEF vars, conn, life
<1> QED BY <1>2, <1>3, <1>4, <1>5, <1>6, <1>7, <1>8, Cases, Zenon

-----------------------------------------------------------------------------
(* The flow that handleOpenTCP opens.                                      *)

\* A dial happens once: no target returns to "none", and only openSpawn begins a loop.
LEMMA OnceOpened ==
  ASSUME IInv, Next
  PROVE  /\ \A o \in Flows : target'[o] = "none" => target[o] = "none"
         /\ \A o \in Flows : pc[o] = "new" /\ ~openSpawn => pc'[o] = "new"
<1>0. target \in [Flows -> {"none", "open", "closed"}]
  BY Zenon DEF IInv, Types
<1>1. \A o \in Flows : target'[o] = "none" => target[o] = "none"
  <2>1. CASE \E t \in Threads : \E from, to \in Labels : Plain(t, from, to)
    BY <2>1, Zenon DEF Plain, flow
  <2>2. CASE \E t \in Handlers : Taken(t, tcpFlows[IdOf(t)])
    BY <2>2, Zenon DEF Taken
  <2>3. CASE \E t \in Handlers : Ended(t, taken[t])
    BY <1>0, <2>3 DEF Ended
  <2>4. CASE openDial \/ openInsert \/ openInc
    BY <1>0, <2>4, Zenon DEF openDial, openInsert, openInc
  <2>5. CASE openSpawn \/ \E o \in Flows : loopExit(o)
    BY <2>5, Zenon DEF openSpawn, loopExit, flow
  <2>6. CASE CloseStep
    BY <1>0, <2>6, Zenon DEF CloseStep, CloseConn, Snapshot, CloseOne, Wait, flow
  <2>7. CASE UNCHANGED vars
    BY <2>7, Zenon DEF vars, flow
  <2> QED BY <2>1, <2>2, <2>3, <2>4, <2>5, <2>6, <2>7, Cases, Zenon
<1>2. ASSUME NEW o \in Flows, pc[o] = "new", ~openSpawn PROVE pc'[o] = "new"
  <2>1. CASE LoopsStay
    BY <1>2, <2>1, Zenon DEF LoopsStay
  <2>2. CASE \E l \in Flows : loopExit(l)
    <3>1. PICK l \in Flows : loopExit(l)
      BY <2>2, Zenon
    <3>2. pc[l] = "exit" /\ \A u \in Threads : u # l => pc'[u] = pc[u]
      BY <3>1, ExitMoves, Zenon
    <3> QED BY <1>2, <3>2, ThreadFacts, Zenon
  <2> QED BY <1>2, <2>1, <2>2, LoopsStayStep, Zenon
<1> QED BY <1>1, <1>2, Zenon

\* While another thread moves, control does not, and begins no loop.
LEMMA OnlyOne ==
  ASSUME IInv, NEW t \in Threads, t # "control", NEW from, NEW to, Goto(t, from, to)
  PROVE  UNCHANGED pc["control"] /\ ~openSpawn
<1>1. pc' = [pc EXCEPT ![t] = to] /\ pc \in [Threads -> Labels]
  BY Zenon DEF Goto, IInv, Types
<1>2. pc'["control"] = pc["control"]
  BY <1>1, ThreadFacts, Zenon
<1>3. openSpawn => pc'["control"] # pc["control"]
  BY SpawnMoves, Zenon
<1> QED BY <1>2, <1>3, Zenon

\* handleOpenTCP works on one flow, which has no loop before it begins one.
LEMMA OpeningStep == IInv /\ Next => Opening'
<1> SUFFICES ASSUME IInv, Next PROVE Opening'
  OBVIOUS
<1>0. Opening /\ Types /\ Roles
  BY Zenon DEF IInv
<1> DEFINE p == pc["control"]
           Knows == OpenLabels \cup {"cfQuiet", "cfNotify", "allow", "write"}
<1>1. \A o \in Flows : target'[o] = "none" => pc'[o] = "new"
  <2>1. CASE openSpawn
    BY <1>0, <2>1, OnceOpened, SpawnMoves, ThreadFacts, Zenon DEF Opening
  <2>2. CASE ~openSpawn
    BY <1>0, <2>2, OnceOpened, Zenon DEF Opening
  <2> QED BY <2>1, <2>2, Zenon
<1>2. ASSUME UNCHANGED <<p, cur, cid>>, ~openSpawn PROVE Opening'
  BY <1>0, <1>1, <1>2, OnceOpened, Zenon DEF Opening
<1>3. ASSUME p' \notin Knows PROVE Opening'
  BY <1>1, <1>3, Zenon DEF Opening
<1>4. ASSUME p' \in Knows \ OpenLabels, cid' \in Ids PROVE Opening'
  BY <1>1, <1>4, Zenon DEF Opening
<1>5. ASSUME p \in OpenLabels, p' \in OpenLabels, UNCHANGED <<cur, cid>>, ~openSpawn, p' # "dial" => target'[cur] # "none"
      PROVE  Opening'
  <2>1. cur \in Flows /\ cid = FlowId[cur] /\ pc'[cur] = "new"
    BY <1>0, <1>5, OnceOpened, Zenon DEF Opening
  <2>2. p' \notin {"cfQuiet", "cfNotify", "allow", "write"}
    BY <1>5 DEF OpenLabels
  <2> QED BY <1>1, <1>5, <2>1, <2>2, Zenon DEF Opening
<1>6. ASSUME NEW from, NEW to \in ControlLabels, Goto("control", from, to) PROVE p = from /\ p' = to
  BY <1>0, <1>6, LabelsFit, RolesMove, ThreadFacts, Zenon
<1>7. {"once", "regInsert", "regStore", "regInc", "authOK", "read", "reply", "unregDelete", "unregStore", "done"}
         \cup Knows \cup BodyLabels \subseteq ControlLabels
  BY DEF ControlLabels, Labels, CloseFlowLabels, BodyLabels, OpenLabels
<1>ctl. /\ "dial" \in ControlLabels /\ "insert" \in ControlLabels /\ "inc" \in ControlLabels /\ "ok" \in ControlLabels
        /\ "spawn" \in ControlLabels /\ "reply" \in ControlLabels /\ "cfQuiet" \in ControlLabels
  BY DEF ControlLabels, Labels, CloseFlowLabels
<1>8. /\ ({"once", "regInsert", "regStore", "regInc", "authOK", "read", "reply", "unregDelete", "unregStore", "done",
           "exit", "closeQuiet", "closeNotify"} \cup BodyLabels) \cap Knows = {}
      /\ {"dial", "insert", "inc", "ok", "spawn"} \subseteq OpenLabels
      /\ {"cfQuiet", "cfNotify", "allow", "write"} \subseteq Knows \ OpenLabels
  BY Zenon DEF BodyLabels, OpenLabels
<1>9. CASE Registration
  <2>1. PICK from \in {"auth", "regInsert", "regStore", "regInc", "authOK", "unregDelete", "unregStore"},
             to \in {"once", "regInsert", "regStore", "regInc", "authOK", "read", "unregDelete", "unregStore"} :
          Goto("control", from, to)
    BY <1>9, Zenon DEF Registration, authFail, authVerified, regInsert, regStore, regInc, authOK, unregDelete, unregStore
  <2>2. p' = to
    BY <1>6, <1>7, <2>1
  <2> QED BY <1>3, <1>8, <2>2, Zenon
<1>10. CASE readError \/ frameOther
  <2>1. Goto("control", "read", "unregDelete") \/ Goto("control", "read", "read") \/ Goto("control", "read", "reply")
    BY <1>10, Zenon DEF readError, frameOther, Frame
  <2>2. p' \in {"unregDelete", "read", "reply"}
    BY <1>6, <1>7, <2>1, Zenon
  <2> QED BY <1>3, <1>8, <2>2, Zenon
<1>11. CASE \E i \in Ids : frameCloseFlow(i)
  <2>1. Goto("control", "read", "cfQuiet") /\ cid' \in Ids
    BY <1>11, Zenon DEF frameCloseFlow, Frame
  <2>2. p' = "cfQuiet"
    BY <1>6, <1>7, <2>1, Zenon
  <2> QED BY <1>4, <1>8, <2>1, <2>2, Zenon
<1>12. CASE \E i \in Ids : frameData(i)
  <2>1. PICK i \in Ids : Frame(IF tcpFlows[i] = NoFlow THEN "cfNotify" ELSE "allow") /\ cid' = i
    BY <1>12, Zenon DEF frameData
  <2>2. Goto("control", "read", "cfNotify") \/ Goto("control", "read", "allow")
    BY <2>1, Zenon DEF Frame
  <2>3. p' \in {"cfNotify", "allow"}
    BY <1>6, <1>7, <2>2, Zenon
  <2> QED BY <1>4, <1>8, <2>1, <2>3, Zenon
<1>13. CASE \E o \in Flows : frameOpen(o)
  <2>1. PICK o \in Flows : /\ Frame(IF FlowCount >= MaxFlows THEN "reply" ELSE "dial") /\ cur' = o /\ cid' = FlowId[o]
                           /\ target[o] = "none"
    BY <1>13, Zenon DEF frameOpen
  <2>2. Goto("control", "read", "reply") \/ Goto("control", "read", "dial")
    BY <2>1, Zenon DEF Frame
  <2>3. p = "read" /\ p' \in {"reply", "dial"}
    BY <1>6, <1>ctl, <2>2, Zenon
  <2>4. pc'[o] = "new"
    <3>1. pc[o] = "new" /\ ~openSpawn
      BY <1>0, <2>1, <2>3, Zenon DEF Opening, openSpawn
    <3> QED BY <3>1, OnceOpened, Zenon
  <2>5. CASE p' = "reply"
    BY <1>3, <1>8, <2>5, Zenon
  <2>6. CASE p' = "dial"
    BY <1>1, <2>1, <2>4, <2>6, Zenon DEF Opening, OpenLabels
  <2> QED BY <2>3, <2>5, <2>6, Zenon
<1>14. CASE openDial
  <2>1. CASE Goto("control", "dial", "insert") /\ target' = [target EXCEPT ![cur] = "open"]
    <3>1. p = "dial" /\ p' = "insert"
      BY <1>6, <1>ctl, <2>1, Zenon
    <3>2. cur \in Flows /\ UNCHANGED <<cur, cid>> /\ ~openSpawn
      BY <1>0, <1>14, <3>1, Zenon DEF openDial, openSpawn, Opening, OpenLabels
    <3>3. target'[cur] # "none"
      BY <1>0, <2>1, <3>2, Zenon DEF Types
    <3> QED BY <1>5, <1>8, <3>1, <3>2, <3>3, Zenon
  <2>2. CASE Goto("control", "dial", "reply")
    <3>1. p' = "reply"
      BY <1>6, <1>7, <2>2, Zenon
    <3> QED BY <1>3, <1>8, <3>1, Zenon
  <2> QED BY <1>14, <2>1, <2>2, Zenon DEF openDial
<1>15. CASE openInsert
  <2>1. CASE Goto("control", "insert", "inc") /\ UNCHANGED target
    <3>1. p = "insert" /\ p' = "inc"
      BY <1>6, <1>ctl, <2>1, Zenon
    <3>2. UNCHANGED <<cur, cid>> /\ ~openSpawn /\ target'[cur] # "none"
      BY <1>0, <1>15, <2>1, <3>1 DEF openInsert, openSpawn, Opening, OpenLabels
    <3> QED BY <1>5, <1>8, <3>1, <3>2, Zenon
  <2>2. CASE Goto("control", "insert", "reply")
    <3>1. p' = "reply"
      BY <1>6, <1>7, <2>2, Zenon
    <3> QED BY <1>3, <1>8, <3>1, Zenon
  <2> QED BY <1>15, <2>1, <2>2, Zenon DEF openInsert
<1>16. CASE openInc
  <2>1. p = "inc" /\ p' = "ok"
    <3>1. Goto("control", "inc", "ok") /\ "ok" \in ControlLabels
      BY <1>7, <1>8, <1>16, Zenon DEF openInc
    <3> QED BY <1>6, <3>1, Zenon
  <2>2. UNCHANGED <<cur, cid, target>> /\ ~openSpawn /\ target[cur] # "none"
    BY <1>0, <1>16, <2>1, Zenon DEF openInc, openSpawn, Opening, OpenLabels
  <2> QED BY <1>5, <1>8, <2>1, <2>2, Zenon
<1>17. CASE openOK
  <2>1. UNCHANGED <<cur, cid, target>> /\ (Goto("control", "ok", "spawn") \/ Goto("control", "ok", "cfQuiet"))
    BY <1>17, Zenon DEF openOK, flow
  <2>2. p = "ok" /\ p' \in {"spawn", "cfQuiet"}
    BY <1>6, <1>ctl, <2>1, Zenon
  <2>3. ~openSpawn /\ target[cur] # "none" /\ cid \in Ids
    BY <1>0, <2>2, ThreadFacts, Zenon DEF openSpawn, Opening, OpenLabels
  <2> QED BY <1>4, <1>5, <1>8, <2>1, <2>2, <2>3
<1>18. CASE openSpawn
  BY <1>3, <1>8, <1>18, SpawnMoves, Zenon
<1>19. CASE dataAllow \/ dataWrite
  <2>1. PICK from \in {"allow", "write"}, to \in {"write", "once", "read", "cfNotify"} :
          Goto("control", from, to) /\ UNCHANGED cid
    BY <1>19, Zenon DEF dataAllow, dataWrite
  <2>2. p = from /\ p' = to
    BY <1>6, <1>7, <2>1, Zenon
  <2>3. cid' \in Ids
    BY <1>0, <2>1, <2>2, Zenon DEF Opening
  <2> QED BY <1>3, <1>4, <1>8, <2>2, <2>3
<1>20. CASE \E o \in Flows : targetToClientLoop(o)
  <2>1. PICK o \in Flows : targetToClientLoop(o)
    BY <1>20, Zenon
  <2>2. UNCHANGED <<cur, cid>> /\ \E from, to : Goto(o, from, to)
    BY <2>1, Zenon DEF targetToClientLoop, loopData, loopEnd, loopAllow, loopWrite, loopExit
  <2> QED BY <1>2, <2>2, OnlyOne, ThreadFacts, Zenon
<1>21. CASE \E t \in Handlers : closeFlow(t) \/ reply(t)
  <2>1. PICK t \in Handlers : closeFlow(t) \/ reply(t)
    BY <1>21, Zenon
  <2>2. UNCHANGED <<cur, cid>> /\ \E from, to : Goto(t, from, to)
    BY <2>1, Zenon DEF closeFlow, cfDelete, cfClose, reply
  <2>3. CASE t # "control"
    BY <1>2, <2>2, <2>3, OnlyOne, ThreadFacts, Zenon
  <2>4. CASE t = "control" /\ reply(t)
    <3>1. Goto("control", "reply", "read")
      BY <2>4, Zenon DEF reply, Back
    <3>2. p' = "read"
      BY <1>6, <1>7, <3>1, Zenon
    <3> QED BY <1>3, <1>8, <3>2
  <2>5. CASE t = "control" /\ closeFlow(t)
    <3>1. Taken(t, tcpFlows[IdOf(t)]) \/ Ended(t, taken[t])
      BY <2>5, Halves, TakeStep, ShutStep, Zenon
    <3>2. p' \in {"read", "exit", "reply", "closeQuiet", "closeNotify"}
      BY <2>5, <3>1, Zenon DEF Taken, Ended
    <3> QED BY <1>3, <1>8, <3>2
  <2> QED BY <2>1, <2>3, <2>4, <2>5, Zenon
<1>22. CASE \E t \in Threads : Close(t)
  <2>1. PICK t \in Threads : Close(t)
    BY <1>22, Zenon
  <2>2. UNCHANGED <<cur, cid>>
    BY <2>1, Zenon DEF Close, OnceDo, CloseConn, Snapshot, CloseOne, AllClosed, Wait
  <2>3. CASE CloseOne(t)
    <3>1. pc' = pc /\ pc[t] = "flows"
      BY <2>3, Zenon DEF CloseOne
    <3>2. ~openSpawn
      BY <3>1, SpawnMoves
    <3> QED BY <1>2, <2>2, <3>1, <3>2, Zenon
  <2>4. CASE ~CloseOne(t)
    <3>1. \/ \E from, to \in BodyLabels : Goto(t, from, to)
          \/ Goto(t, "once", "conn") \/ Goto(t, "once", AfterClose(t)) \/ Goto(t, "wait", AfterClose(t))
      BY <2>1, <2>4, Zenon DEF Close, OnceDo, CloseConn, Snapshot, AllClosed, Wait, BodyLabels
    <3>2. CASE t # "control"
      BY <1>2, <2>2, <3>1, <3>2, OnlyOne, Zenon
    <3>3. CASE t = "control"
      <4>1. AfterClose(t) \in {"unregDelete", "done"}
        BY <3>3, AfterFits, ThreadFacts, Zenon
      <4>2. p' \in BodyLabels \cup {"unregDelete", "done"}
        BY <1>6, <1>7, <3>1, <3>3, <4>1 DEF BodyLabels
      <4> QED BY <1>3, <1>8, <4>2
    <3> QED BY <3>2, <3>3, Zenon
  <2> QED BY <2>3, <2>4, Zenon
<1>23. CASE idleTimeout \/ Shutdown
  BY <1>2, <1>23, OnlyOne, ThreadFacts DEF idleTimeout, Shutdown
<1>24. CASE Terminated
  <2>1. ~openSpawn
    BY <1>24, Zenon DEF Terminated, openSpawn
  <2> QED BY <1>2, <1>24, <2>1, Zenon DEF Terminated, vars
<1> QED BY <1>9, <1>10, <1>11, <1>12, <1>13, <1>14, <1>15, <1>16, <1>17, <1>18, <1>19, <1>20, <1>21, <1>22, <1>23, <1>24,
           Zenon DEF Next, Frames, handleOpenTCP

-----------------------------------------------------------------------------
(* The gauge of TCP streams.                                               *)

InTable == {i \in Ids : tcpFlows[i] # NoFlow}
InHands == {t \in Handlers : Closing(t)}

\* Numbers, handlers and flows are finitely many.
LEMMA Finite == IsFiniteSet(Ids) /\ IsFiniteSet(Handlers)
<1>1. IsFiniteSet(Ids)
  <2> DEFINE f == [o \in Flows |-> FlowId[o]]
  <2>1. f \in Surjection(Flows, Ids)
    BY Zenon DEF Surjection, Ids
  <2> QED BY <2>1, FS_Surjection, SessionAssumption, Zenon
<1>2. IsFiniteSet(Handlers)
  BY FS_Singleton, FS_Union, SessionAssumption, Zenon DEF Handlers
<1> QED BY <1>1, <1>2, Zenon

\* What the gauge adds up is finite.
LEMMA Counts ==
  ASSUME Types
  PROVE  /\ IsFiniteSet(InTable) /\ IsFiniteSet(InHands) /\ IsFiniteSet(closing)
         /\ Cardinality(InTable) \in Nat /\ Cardinality(InHands) \in Nat /\ Cardinality(closing) \in Nat
<1>1. IsFiniteSet(InTable) /\ IsFiniteSet(InHands)
  BY Finite, FS_Subset, Zenon DEF InTable, InHands
<1>2. IsFiniteSet(closing)
  BY FlowSets, Zenon DEF Types
<1> QED BY <1>1, <1>2, FS_CardinalityType, Zenon

\* What the table holds is as many flows as it has numbers.
LEMMA TableCard ==
  ASSUME Types, Table
  PROVE  Cardinality({tcpFlows[i] : i \in Ids} \ {NoFlow}) = Cardinality(InTable)
<1> DEFINE S == {tcpFlows[i] : i \in Ids} \ {NoFlow}
           f == [i \in InTable |-> tcpFlows[i]]
<1>1. f \in [InTable -> S]
  BY Zenon DEF InTable
<1>2. \A o \in S : \E i \in InTable : f[i] = o
  BY Zenon DEF InTable
<1>3. \A i, j \in InTable : f[i] = f[j] => i = j
  BY Zenon DEF InTable, Table
<1>4. f \in Surjection(InTable, S) /\ f \in Injection(InTable, S)
  BY <1>1, <1>2, <1>3, Zenon DEF Surjection, Injection, IsInjective
<1>5. IsFiniteSet(InTable)
  BY Counts, Zenon
<1> HIDE DEF f, S
<1>6. Cardinality(S) = Cardinality(InTable)
  BY <1>4, <1>5, FS_Surjection, Zenon
<1> QED BY <1>6, Zenon DEF S

\* Each step moves a flow from one of the counted places to another, or counts it.
LEMMA StreamsCountedStep == IInv /\ Next => StreamsCounted'
<1> SUFFICES ASSUME IInv, Next PROVE StreamsCounted'
  OBVIOUS
<1> DEFINE p == pc["control"]
           a == Cardinality(InTable)
           b == Cardinality(closing)
           c == Cardinality(InHands)
<1>0. /\ Types /\ Types' /\ Table /\ Handlers \subseteq Threads /\ "control" \in Threads
      /\ streams + Cards(p = "inc") = a + b + c
  BY TypesStep, ThreadFacts, Zenon DEF IInv, StreamsCounted, FlowCount, InTable, InHands
<1>1. /\ IsFiniteSet(InTable) /\ IsFiniteSet(InHands) /\ IsFiniteSet(closing)
      /\ a \in Nat /\ b \in Nat /\ c \in Nat /\ a' \in Nat /\ b' \in Nat /\ c' \in Nat /\ streams \in Int
  <2>1. InTable' \in SUBSET Ids /\ InHands' \in SUBSET Handlers /\ closing' \in SUBSET Flows
    BY <1>0, Zenon DEF InTable, InHands, Types
  <2>2. IsFiniteSet(InTable') /\ IsFiniteSet(InHands') /\ IsFiniteSet(closing')
    BY <2>1, Finite, FS_Subset, SessionAssumption, Zenon
  <2>3. a' \in Nat /\ b' \in Nat /\ c' \in Nat
    BY <2>2, FS_CardinalityType, Zenon
  <2> QED BY <1>0, <2>3, Counts, Zenon DEF Types
<1>2. SUFFICES streams' + Cards(p' = "inc") = a' + b' + c'
  BY <1>2, Zenon DEF StreamsCounted, FlowCount, InTable, InHands
<1>3. ASSUME \A u \in Threads : pc'[u] \in {"closeQuiet", "closeNotify"} <=> pc[u] \in {"closeQuiet", "closeNotify"}
      PROVE  InHands' = InHands
  BY <1>0, <1>3, Zenon DEF InHands, Closing
<1>4. ASSUME UNCHANGED tcpFlows PROVE InTable' = InTable
  BY <1>4, Zenon DEF InTable
<1>5. ASSUME UNCHANGED <<streams, tcpFlows, closing>>, p' = "inc" <=> p = "inc",
             \A u \in Threads : pc'[u] \in {"closeQuiet", "closeNotify"} <=> pc[u] \in {"closeQuiet", "closeNotify"}
      PROVE  streams' + Cards(p' = "inc") = a' + b' + c'
  BY <1>0, <1>3, <1>4, <1>5, Zenon DEF Cards
<1>6. CASE \E t \in Threads : \E from, to \in Labels : Plain(t, from, to)
  <2>1. PICK t \in Threads, from \in Labels, to \in Labels : Plain(t, from, to)
    BY <1>6, Zenon
  <2>2. pc[t] = from /\ pc'[t] = to /\ \A u \in Threads : u # t => pc'[u] = pc[u]
    BY <2>1, PlainMoves, Zenon
  <2>3. /\ UNCHANGED <<streams, tcpFlows, closing>>
        /\ from \notin {"closeQuiet", "closeNotify"} /\ to \notin {"closeQuiet", "closeNotify"}
        /\ t = "control" => from # "inc" /\ to # "inc"
    BY <2>1, Zenon DEF Plain, flow, life
  <2>4. \A u \in Threads : pc'[u] \in {"closeQuiet", "closeNotify"} <=> pc[u] \in {"closeQuiet", "closeNotify"}
    BY <2>2, <2>3, Zenon
  <2>5. p' = "inc" <=> p = "inc"
    BY <1>0, <2>2, <2>3, Zenon
  <2> QED BY <1>5, <2>3, <2>4, <2>5, Zenon
<1>7. CASE \E t \in Handlers : Taken(t, tcpFlows[IdOf(t)])
  <2>1. PICK t \in Handlers : Taken(t, tcpFlows[IdOf(t)])
    BY <1>7, Zenon
  <2>2. /\ UNCHANGED <<streams, closing>> /\ t \in Threads /\ IdOf(t) \in Ids
        /\ tcpFlows' = [tcpFlows EXCEPT ![IdOf(t)] = NoFlow] /\ \A u \in Threads : u # t => pc'[u] = pc[u]
    BY <2>1, Zenon DEF Taken, life
  <2>3. p' = "inc" <=> p = "inc"
    BY <1>0, <2>1, Zenon DEF Taken
  <2>4. CASE tcpFlows[IdOf(t)] = NoFlow
    <3>1. tcpFlows' = tcpFlows
      BY <1>0, <2>2, <2>4, Zenon DEF Types
    <3>2. pc[t] \in {"cfQuiet", "cfNotify"} /\ pc'[t] \in {"read", "exit"}
      BY <2>1, <2>4, Zenon DEF Taken
    <3>3. \A u \in Threads : pc'[u] \in {"closeQuiet", "closeNotify"} <=> pc[u] \in {"closeQuiet", "closeNotify"}
      BY <2>2, <3>2, Zenon
    <3> QED BY <1>5, <2>2, <2>3, <3>1, <3>3, Zenon
  <2>5. CASE tcpFlows[IdOf(t)] # NoFlow
    <3>1. InTable' = InTable \ {IdOf(t)} /\ IdOf(t) \in InTable
      BY <1>0, <2>2, <2>5, Zenon DEF Types, InTable
    <3>2. pc[t] \in {"cfQuiet", "cfNotify"} /\ pc'[t] \in {"closeQuiet", "closeNotify"}
      BY <2>1, <2>5, Zenon DEF Taken
    <3>3. InHands' = InHands \cup {t} /\ t \notin InHands
      BY <1>0, <2>2, <3>2, Zenon DEF InHands, Closing
    <3>4. a' = a - 1 /\ c' = c + 1
      BY <1>1, <3>1, <3>3, FS_AddElement, FS_RemoveElement, Zenon
    <3>5. b' = b /\ Cards(p' = "inc") = Cards(p = "inc") /\ Cards(p = "inc") \in Nat
      BY <2>2, <2>3, Zenon DEF Cards
    <3> HIDE DEF a, b, c
    <3> QED BY <1>0, <1>1, <2>2, <3>4, <3>5
  <2> QED BY <2>4, <2>5, Zenon
<1>8. CASE \E t \in Handlers : Ended(t, taken[t])
  <2>1. PICK t \in Handlers : Ended(t, taken[t])
    BY <1>8, Zenon
  <2>2. /\ UNCHANGED <<tcpFlows, closing>> /\ streams' = streams - 1 /\ t \in Threads
        /\ \A u \in Threads : u # t => pc'[u] = pc[u]
        /\ pc[t] \in {"closeQuiet", "closeNotify"} /\ pc'[t] \in {"read", "exit", "reply"}
    BY <2>1, Zenon DEF Ended, life
  <2>3. (p' = "inc" <=> p = "inc") /\ InHands' = InHands \ {t} /\ t \in InHands
    BY <1>0, <2>2, Zenon DEF InHands, Closing
  <2>4. a' = a /\ b' = b /\ c' = c - 1
    BY <1>1, <1>4, <2>2, <2>3, FS_RemoveElement, Zenon
  <2>5. Cards(p' = "inc") = Cards(p = "inc") /\ Cards(p = "inc") \in Nat
    BY <2>3, Zenon DEF Cards
  <2> HIDE DEF a, b, c
  <2> QED BY <1>0, <1>1, <2>2, <2>4, <2>5
<1>9. CASE openDial \/ (openInsert /\ ~Goto("control", "insert", "inc"))
  <2>1. /\ pc["control"] \in {"dial", "insert"} /\ pc'["control"] \in {"insert", "reply"}
        /\ \A u \in Threads : u # "control" => pc'[u] = pc[u]
    BY <1>9, OpenMoves, Zenon DEF openDial, openInsert
  <2>2. UNCHANGED <<streams, tcpFlows, closing>>
    BY <1>9, Zenon DEF openDial, openInsert, life
  <2> QED BY <1>5, <2>1, <2>2, Zenon
<1>10. CASE openInsert /\ Goto("control", "insert", "inc")
  <2>1. /\ p = "insert" /\ p' = "inc" /\ \A u \in Threads : u # "control" => pc'[u] = pc[u]
    BY <1>10, OpenMoves, Zenon
  <2>2. /\ tcpFlows[cid] = NoFlow /\ tcpFlows' = [tcpFlows EXCEPT ![cid] = cur] /\ UNCHANGED <<streams, closing>>
    BY <1>10, <2>1 DEF openInsert, life, Goto
  <2>3. cur \in Flows /\ cur # NoFlow /\ cid \in Ids
    BY <2>1, ThreadFacts, Zenon DEF IInv, Opening, OpenLabels
  <2>4. InTable' = InTable \cup {cid} /\ cid \notin InTable
    BY <1>0, <2>2, <2>3, Zenon DEF InTable, Types
  <2>5. InHands' = InHands
    BY <1>3, <2>1, Zenon
  <2>6. a' = a + 1 /\ b' = b /\ c' = c
    BY <1>1, <2>2, <2>4, <2>5, FS_AddElement, Zenon
  <2>7. Cards(p = "inc") = 0 /\ Cards(p' = "inc") = 1
    BY <2>1, Zenon DEF Cards
  <2> HIDE DEF a, b, c
  <2> QED BY <1>0, <1>1, <2>2, <2>6, <2>7
<1>11. CASE openInc
  <2>1. /\ p = "inc" /\ p' = "ok" /\ \A u \in Threads : u # "control" => pc'[u] = pc[u]
    BY <1>11, OpenMoves, Zenon DEF openInc
  <2>2. UNCHANGED <<tcpFlows, closing>> /\ streams' = streams + 1
    BY <1>11, Zenon DEF openInc, life
  <2>3. InHands' = InHands /\ InTable' = InTable
    BY <1>3, <1>4, <2>1, <2>2, Zenon
  <2>4. Cards(p = "inc") = 1 /\ Cards(p' = "inc") = 0
    BY <2>1, Zenon DEF Cards
  <2>5. a' = a /\ b' = b /\ c' = c
    BY <2>2, <2>3, Zenon
  <2> HIDE DEF a, b, c
  <2> QED BY <1>0, <1>1, <2>2, <2>4, <2>5
<1>12. CASE openSpawn
  <2>1. UNCHANGED <<streams, tcpFlows, closing>>
    BY <1>12, Zenon DEF openSpawn, flow
  <2>2. \A u \in Threads : pc'[u] \in {"closeQuiet", "closeNotify"} <=> pc[u] \in {"closeQuiet", "closeNotify"}
    BY <1>12, SpawnMoves, Zenon
  <2>3. p' = "inc" <=> p = "inc"
    BY <1>12, SpawnMoves, Zenon
  <2> QED BY <1>5, <2>1, <2>2, <2>3, Zenon
<1>13. CASE \E o \in Flows : loopExit(o)
  <2>1. PICK o \in Flows : loopExit(o)
    BY <1>13, Zenon
  <2>2. pc[o] = "exit" /\ pc'[o] = "done" /\ \A u \in Threads : u # o => pc'[u] = pc[u]
    BY <2>1, ExitMoves, Zenon
  <2>3. UNCHANGED <<streams, tcpFlows, closing>>
    BY <2>1, Zenon DEF loopExit, flow
  <2>4. p' = p /\ \A u \in Threads : pc'[u] \in {"closeQuiet", "closeNotify"} <=> pc[u] \in {"closeQuiet", "closeNotify"}
    BY <1>0, <2>2, ThreadFacts, Zenon
  <2> QED BY <1>5, <2>3, <2>4, Zenon
<1>14. CASE CloseStep
  <2>1. PICK u \in Threads : Body(u)
    BY <1>14, BodyMoves, Zenon
  <2>2. /\ \A v \in Threads : pc'[v] \in {"closeQuiet", "closeNotify"} <=> pc[v] \in {"closeQuiet", "closeNotify"}
        /\ p' = "inc" <=> p = "inc"
    BY <1>0, <2>1, Zenon DEF Body, BodyLabels
  <2>3. c' = c /\ Cards(p' = "inc") = Cards(p = "inc") /\ Cards(p = "inc") \in Nat
    BY <1>3, <2>2, Zenon DEF Cards
  <2>4. PICK t \in Threads :
          \/ once = "free" /\ Goto(t, "once", "conn") /\ once' = "busy"
             /\ UNCHANGED <<flow, conn, wg, closing, cur, cid, server>>
          \/ CloseConn(t) \/ Snapshot(t) \/ CloseOne(t) \/ Wait(t)
    BY <1>14, Zenon DEF CloseStep
  <2>5. CASE UNCHANGED <<streams, tcpFlows, closing>>
    BY <1>5, <2>2, <2>5, Zenon
  <2>6. CASE Snapshot(t)
    <3>1. \A v \in Threads : pc[v] # "flows"
      <4>1. pc[t] = "snapshot"
        BY <2>6, Zenon DEF Snapshot, Goto
      <4> QED BY <4>1, Zenon DEF IInv, OneClose, BodyLabels
    <3>2. closing = {} /\ b = 0
      BY <3>1, FS_EmptySet, Zenon DEF IInv, OneClose
    <3>3. b' = a
      BY <1>0, <2>6, TableCard, Zenon DEF Snapshot
    <3>4. InTable' = {} /\ a' = 0
      BY <2>6, FS_EmptySet, Zenon DEF InTable, Snapshot
    <3>5. UNCHANGED streams
      BY <2>6, Zenon DEF Snapshot
    <3> HIDE DEF a, b, c
    <3> QED BY <1>0, <1>1, <2>3, <3>2, <3>3, <3>4, <3>5
  <2>7. CASE CloseOne(t)
    <3>1. PICK o \in closing : closing' = closing \ {o} /\ streams' = streams - 1 /\ UNCHANGED tcpFlows
      BY <2>7, Zenon DEF CloseOne
    <3>2. b' = b - 1 /\ a' = a
      BY <1>1, <1>4, <3>1, FS_RemoveElement, Zenon
    <3> HIDE DEF a, b, c
    <3> QED BY <1>0, <1>1, <2>3, <3>1, <3>2
  <2> QED BY <2>4, <2>5, <2>6, <2>7, Zenon DEF CloseConn, Wait, flow, life
<1>15. CASE UNCHANGED vars
  BY <1>5, <1>15, Zenon DEF vars, flow, life
<1> QED BY <1>6, <1>7, <1>8, <1>9, <1>10, <1>11, <1>12, <1>13, <1>14, <1>15, Cases, Zenon

-----------------------------------------------------------------------------
(* Who has each target connection.                                         *)

\* Each step hands an open target on to someone who will close it.
LEMMA NoStrayStep == IInv /\ Next => NoStrayTarget'
<1> SUFFICES ASSUME IInv, Next PROVE NoStrayTarget'
  OBVIOUS
<1> DEFINE p == pc["control"]
           CL == {"closeQuiet", "closeNotify"}
<1>0. /\ NoStrayTarget /\ Types /\ Handlers \subseteq Threads /\ "control" \in Threads
      /\ target \in [Flows -> {"none", "open", "closed"}] /\ taken \in [Handlers -> Flows \cup {NoFlow}]
      /\ tcpFlows \in [Ids -> Flows \cup {NoFlow}]
  BY ThreadFacts, Zenon DEF IInv, Types
<1>1. ASSUME UNCHANGED <<tcpFlows, closing, taken>>, \A o \in Flows : target'[o] = "open" => target[o] = "open",
             \A u \in Threads : pc[u] \in CL => pc'[u] \in CL,
             p = "insert" => p' = "insert" /\ cur' = cur
      PROVE  NoStrayTarget'
  BY <1>0, <1>1, Zenon DEF NoStrayTarget, Closing
<1>2. CASE \E t \in Threads : \E from, to \in Labels : Plain(t, from, to)
  <2>1. PICK t \in Threads, from \in Labels, to \in Labels : Plain(t, from, to)
    BY <1>2, Zenon
  <2>2. pc[t] = from /\ pc'[t] = to /\ \A u \in Threads : u # t => pc'[u] = pc[u]
    BY <2>1, PlainMoves, Zenon
  <2>3. UNCHANGED <<tcpFlows, closing, taken, target>> /\ from \notin CL /\ (t = "control" => from # "insert")
        /\ (t # "control" => cur' = cur)
    BY <2>1, Zenon DEF Plain, flow, life
  <2>4. \A u \in Threads : pc[u] \in CL => pc'[u] \in CL
    BY <2>2, <2>3, Zenon
  <2>5. p = "insert" => p' = "insert" /\ cur' = cur
    BY <1>0, <2>2, <2>3, Zenon
  <2> QED BY <1>1, <2>3, <2>4, <2>5, Zenon
<1>3. CASE \E t \in Handlers : Taken(t, tcpFlows[IdOf(t)])
  <2>1. PICK t \in Handlers : Taken(t, tcpFlows[IdOf(t)])
    BY <1>3, Zenon
  <2>2. /\ t \in Threads /\ IdOf(t) \in Ids /\ pc[t] \in {"cfQuiet", "cfNotify"}
        /\ \A u \in Threads : u # t => pc'[u] = pc[u]
        /\ tcpFlows[IdOf(t)] # NoFlow => pc'[t] \in CL
        /\ taken' = [taken EXCEPT ![t] = tcpFlows[IdOf(t)]]
        /\ tcpFlows' = [tcpFlows EXCEPT ![IdOf(t)] = NoFlow] /\ UNCHANGED <<target, closing, cur>>
    BY <2>1, Zenon DEF Taken, life
  <2>3. pc[t] \notin CL /\ (p = "insert" => p' = "insert")
    BY <1>0, <2>2, Zenon
  <2>4. taken'[t] = tcpFlows[IdOf(t)] /\ \A u \in Handlers : u # t => taken'[u] = taken[u]
    BY <1>0, <2>2, Zenon
  <2>5. \A i \in Ids : i # IdOf(t) => tcpFlows'[i] = tcpFlows[i]
    BY <1>0, <2>2, Zenon
  <2>6. ASSUME NEW o \in Flows, target'[o] = "open"
        PROVE  \/ tcpFlows'[FlowId[o]] = o \/ o \in closing'
               \/ \E u \in Handlers : pc'[u] \in CL /\ taken'[u] = o
               \/ p' = "insert" /\ cur' = o
    <3>1. \/ tcpFlows[FlowId[o]] = o \/ o \in closing
          \/ \E u \in Handlers : pc[u] \in CL /\ taken[u] = o
          \/ p = "insert" /\ cur = o
      BY <1>0, <2>2, <2>6, Zenon DEF NoStrayTarget, Closing
    <3>2. CASE tcpFlows[FlowId[o]] = o
      <4>1. CASE FlowId[o] = IdOf(t)
        BY <2>2, <2>4, <3>2, <4>1, ThreadFacts, Zenon
      <4>2. CASE FlowId[o] # IdOf(t)
        BY <2>5, <3>2, <4>2, ThreadFacts, Zenon
      <4> QED BY <4>1, <4>2, Zenon
    <3>3. CASE \E u \in Handlers : pc[u] \in CL /\ taken[u] = o
      <4>1. PICK u \in Handlers : pc[u] \in CL /\ taken[u] = o
        BY <3>3, Zenon
      <4>2. u # t /\ pc'[u] = pc[u] /\ taken'[u] = taken[u]
        BY <1>0, <2>2, <2>3, <2>4, <4>1, Zenon
      <4> QED BY <4>1, <4>2, Zenon
    <3> QED BY <2>2, <2>3, <3>1, <3>2, <3>3, Zenon
  <2> QED BY <2>6, Zenon DEF NoStrayTarget, Closing
<1>4. CASE \E t \in Handlers : Ended(t, taken[t])
  <2>1. PICK t \in Handlers : Ended(t, taken[t])
    BY <1>4, Zenon
  <2>2. /\ t \in Threads /\ taken[t] \in Flows /\ pc[t] \in CL /\ \A u \in Threads : u # t => pc'[u] = pc[u]
        /\ target' = [target EXCEPT ![taken[t]] = "closed"] /\ taken' = [taken EXCEPT ![t] = NoFlow]
        /\ UNCHANGED <<tcpFlows, closing, cur>>
    BY <2>1, Zenon DEF Ended, life
  <2>3. p = "insert" => p' = "insert"
    BY <1>0, <2>2, Zenon
  <2>4. \A o \in Flows : target'[o] = "open" => target[o] = "open" /\ o # taken[t]
    BY <1>0, <2>2, Zenon
  <2>5. \A u \in Handlers : u # t => taken'[u] = taken[u] /\ pc'[u] = pc[u]
    BY <1>0, <2>2, Zenon
  <2>6. ASSUME NEW o \in Flows, target'[o] = "open"
        PROVE  \/ tcpFlows'[FlowId[o]] = o \/ o \in closing'
               \/ \E u \in Handlers : pc'[u] \in CL /\ taken'[u] = o
               \/ p' = "insert" /\ cur' = o
    <3>1. \/ tcpFlows[FlowId[o]] = o \/ o \in closing
          \/ \E u \in Handlers : pc[u] \in CL /\ taken[u] = o
          \/ p = "insert" /\ cur = o
      BY <1>0, <2>4, <2>6, Zenon DEF NoStrayTarget, Closing
    <3>2. CASE \E u \in Handlers : pc[u] \in CL /\ taken[u] = o
      <4>1. PICK u \in Handlers : pc[u] \in CL /\ taken[u] = o
        BY <3>2, Zenon
      <4>2. u # t
        BY <2>4, <2>6, <4>1, Zenon
      <4> QED BY <2>5, <4>1, <4>2, Zenon
    <3> QED BY <2>2, <2>3, <3>1, <3>2, Zenon
  <2> QED BY <2>6, Zenon DEF NoStrayTarget, Closing
<1>5. CASE openDial
  <2>1. p = "dial" /\ p' \in {"insert", "reply"} /\ \A u \in Threads : u # "control" => pc'[u] = pc[u]
    BY <1>5, OpenMoves, Zenon DEF openDial
  <2>2. UNCHANGED <<tcpFlows, closing, taken, cur>>
    BY <1>5, Zenon DEF openDial, life
  <2>3. \A u \in Threads : pc[u] \in CL => pc'[u] \in CL
    BY <2>1, Zenon
  <2>4. CASE UNCHANGED target
    BY <1>1, <2>1, <2>2, <2>3, <2>4, Zenon
  <2>5. CASE Goto("control", "dial", "insert") /\ target' = [target EXCEPT ![cur] = "open"]
    <3>1. p' = "insert"
      BY <2>5, OpenMoves, Zenon
    <3>2. \A o \in Flows : o # cur => target'[o] = target[o]
      BY <1>0, <2>5, Zenon
    <3>3. \A u \in Handlers : pc[u] \in CL => pc'[u] \in CL
      BY <1>0, <2>3, Zenon
    <3>4. p # "insert"
      BY <2>1, Zenon
    <3> QED BY <1>0, <2>2, <3>1, <3>2, <3>3, <3>4, Zenon DEF NoStrayTarget, Closing
  <2> QED BY <1>5, <2>4, <2>5, Zenon DEF openDial
<1>6. CASE openInsert
  <2>1. p = "insert" /\ p' \in {"inc", "reply"} /\ \A u \in Threads : u # "control" => pc'[u] = pc[u]
    BY <1>6, OpenMoves, Zenon DEF openInsert
  <2>2. UNCHANGED <<closing, taken, cur>> /\ cur \in Flows /\ cid = FlowId[cur] /\ cid \in Ids
    BY <1>6, <2>1, ThreadFacts, Zenon DEF openInsert, life, IInv, Opening, OpenLabels
  <2>3. \A u \in Handlers : pc[u] \in CL => pc'[u] \in CL
    BY <1>0, <2>1, Zenon
  <2>4. CASE tcpFlows[cid] = NoFlow /\ tcpFlows' = [tcpFlows EXCEPT ![cid] = cur] /\ UNCHANGED target
    <3>1. tcpFlows'[FlowId[cur]] = cur /\ \A i \in Ids : i # cid => tcpFlows'[i] = tcpFlows[i]
      BY <1>0, <2>2, <2>4, Zenon
    <3>2. \A o \in Flows : tcpFlows[FlowId[o]] = o => FlowId[o] # cid /\ FlowId[o] \in Ids
      BY <2>4, ThreadFacts, Zenon
    <3>3. ASSUME NEW o \in Flows, target'[o] = "open"
          PROVE  \/ tcpFlows'[FlowId[o]] = o \/ o \in closing'
                 \/ \E u \in Handlers : pc'[u] \in CL /\ taken'[u] = o
      <4>1. \/ tcpFlows[FlowId[o]] = o \/ o \in closing
            \/ \E u \in Handlers : pc[u] \in CL /\ taken[u] = o
            \/ cur = o
        BY <1>0, <2>4, <3>3, Zenon DEF NoStrayTarget, Closing
      <4>2. CASE tcpFlows[FlowId[o]] = o
        BY <3>1, <3>2, <4>2, Zenon
      <4> QED BY <2>2, <2>3, <3>1, <4>1, <4>2, Zenon
    <3> QED BY <3>3, Zenon DEF NoStrayTarget, Closing
  <2>5. CASE target' = [target EXCEPT ![cur] = "closed"] /\ UNCHANGED tcpFlows
    <3>1. \A o \in Flows : target'[o] = "open" => target[o] = "open" /\ o # cur
      BY <1>0, <2>2, <2>5, Zenon
    <3> QED BY <1>0, <2>2, <2>3, <2>5, <3>1, Zenon DEF NoStrayTarget, Closing
  <2> QED BY <1>6, <2>4, <2>5, Zenon DEF openInsert
<1>7. CASE openInc
  <2>1. p = "inc" /\ \A u \in Threads : u # "control" => pc'[u] = pc[u]
    BY <1>7, OpenMoves, Zenon DEF openInc
  <2>2. UNCHANGED <<tcpFlows, closing, taken, target>>
    BY <1>7, Zenon DEF openInc, life
  <2> QED BY <1>1, <2>1, <2>2, Zenon
<1>8. CASE openSpawn
  <2>1. UNCHANGED <<tcpFlows, closing, taken, target>>
    BY <1>8, Zenon DEF openSpawn, flow
  <2> QED BY <1>1, <1>8, <2>1, SpawnMoves, Zenon
<1>9. CASE \E o \in Flows : loopExit(o)
  <2>1. PICK o \in Flows : loopExit(o)
    BY <1>9, Zenon
  <2>2. pc[o] = "exit" /\ p' = p /\ \A u \in Threads : u # o => pc'[u] = pc[u]
    BY <2>1, ExitMoves, ThreadFacts, Zenon
  <2>3. UNCHANGED <<tcpFlows, closing, taken, target, cur>>
    BY <2>1, Zenon DEF loopExit, flow
  <2> QED BY <1>1, <2>2, <2>3, Zenon
<1>10. CASE CloseStep
  <2>1. PICK u \in Threads : Body(u)
    BY <1>10, BodyMoves, Zenon
  <2>2. /\ \A v \in Threads : pc[v] \in CL => pc'[v] \in CL
        /\ p = "insert" => p' = "insert" /\ cur' = cur
        /\ UNCHANGED taken
    BY <1>0, <2>1, Zenon DEF Body, BodyLabels
  <2>3. PICK t \in Threads :
          \/ once = "free" /\ Goto(t, "once", "conn") /\ once' = "busy"
             /\ UNCHANGED <<flow, conn, wg, closing, cur, cid, server>>
          \/ CloseConn(t) \/ Snapshot(t) \/ CloseOne(t) \/ Wait(t)
    BY <1>10, Zenon DEF CloseStep
  <2>4. CASE UNCHANGED <<tcpFlows, closing, target>>
    BY <1>1, <2>2, <2>4, Zenon
  <2>5. CASE Snapshot(t)
    <3>1. \A v \in Threads : pc[v] # "flows"
      <4>1. pc[t] = "snapshot"
        BY <2>5, Zenon DEF Snapshot, Goto
      <4> QED BY <4>1, Zenon DEF IInv, OneClose, BodyLabels
    <3>2. closing = {}
      BY <3>1, Zenon DEF IInv, OneClose
    <3>3. \A o \in Flows : tcpFlows[FlowId[o]] = o => o \in closing'
      BY <2>5, ThreadFacts, Zenon DEF Snapshot
    <3>4. UNCHANGED target
      BY <2>5, Zenon DEF Snapshot
    <3>5. \A v \in Handlers : pc[v] \in CL => pc'[v] \in CL
      BY <1>0, <2>2, Zenon
    <3> QED BY <1>0, <2>2, <3>2, <3>3, <3>4, <3>5, Zenon DEF NoStrayTarget, Closing
  <2>6. CASE CloseOne(t)
    <3>1. PICK o \in closing : closing' = closing \ {o} /\ target' = [target EXCEPT ![o] = "closed"]
                               /\ UNCHANGED <<tcpFlows, pc, cur>>
      BY <2>6, Zenon DEF CloseOne
    <3>2. \A q \in Flows : target'[q] = "open" => target[q] = "open" /\ q # o
      BY <1>0, <3>1, Zenon DEF Types
    <3>3. \A q \in closing : q # o => q \in closing'
      BY <3>1, Zenon
    <3> QED BY <1>0, <2>2, <3>1, <3>2, <3>3, Zenon DEF NoStrayTarget, Closing
  <2> QED BY <2>3, <2>4, <2>5, <2>6, Zenon DEF CloseConn, Wait, flow, life
<1>11. CASE UNCHANGED vars
  BY <1>1, <1>11, Zenon DEF vars, flow, life
<1> QED BY <1>2, <1>3, <1>4, <1>5, <1>6, <1>7, <1>8, <1>9, <1>10, <1>11, Cases, Zenon

-----------------------------------------------------------------------------
(* What can be in the table after Close has emptied it.                    *)

\* A flow that enters the emptied table is on its handler's way to closeFlow.
LEMMA LateStep == IInv /\ Next => LateFlowCloses'
<1> DEFINE p == pc["control"]
           A == once = "done" \/ \E u \in Threads : pc[u] \in {"flows", "wait"}
           Late(i) == p \in {"inc", "ok", "cfQuiet"} /\ cid = i /\ cur = tcpFlows[i]
<1> SUFFICES ASSUME IInv, Next, A', NEW i \in Ids, tcpFlows'[i] # NoFlow PROVE Late(i)'
  BY Zenon DEF LateFlowCloses
<1>0. /\ tcpFlows \in [Ids -> Flows \cup {NoFlow}] /\ "control" \in Threads
      /\ A /\ tcpFlows[i] # NoFlow => Late(i)
  BY ThreadFacts, Zenon DEF IInv, Types, LateFlowCloses
<1>1. A => ~connOpen
  BY Zenon DEF IInv, OneClose, BodyLabels
<1>2. ASSUME A, UNCHANGED <<tcpFlows, cur, cid>>, p' = p PROVE Late(i)'
  BY <1>0, <1>2, Zenon
<1>3. ASSUME A, UNCHANGED tcpFlows, p \notin {"inc", "ok", "cfQuiet"} PROVE Late(i)'
  BY <1>0, <1>3, Zenon
<1>4. ASSUME UNCHANGED once, \A u \in Threads : pc'[u] \in {"flows", "wait"} => pc[u] \in {"flows", "wait"} PROVE A
  BY <1>4, Zenon
<1> HIDE DEF A
<1>5. CASE \E t \in Threads : \E from, to \in Labels : Plain(t, from, to)
  <2>1. PICK t \in Threads, from \in Labels, to \in Labels : Plain(t, from, to)
    BY <1>5, Zenon
  <2>2. pc[t] = from /\ pc'[t] = to /\ \A u \in Threads : u # t => pc'[u] = pc[u]
    BY <2>1, PlainMoves, Zenon
  <2>3. /\ UNCHANGED <<tcpFlows, once>> /\ (to \in {"flows", "wait"} => from = "flows")
        /\ t # "control" => UNCHANGED <<cur, cid>>
        /\ t = "control" => /\ from \notin {"inc", "cfQuiet"} /\ (from = "ok" => to = "cfQuiet" \/ connOpen)
                            /\ (UNCHANGED <<cur, cid>> \/ from = "read")
    <3>1. /\ to \in BodyLabels => from = "flows" /\ to = "wait" /\ closing = {}
          /\ UNCHANGED <<flow, connOpen, life>>
          /\ t # "control" => UNCHANGED <<cur, cid>>
          /\ t = "control" => /\ from \notin {"inc", "insert", "cfQuiet"} /\ (from = "ok" => to = "cfQuiet" \/ connOpen)
                              /\ (UNCHANGED <<cur, cid>> \/ from = "read")
      BY <2>1, Zenon DEF Plain
    <3> QED BY <3>1, Zenon DEF flow, life, BodyLabels
  <2>4. A
    BY <1>4, <2>2, <2>3, Zenon
  <2>5. CASE t # "control"
    BY <1>0, <1>2, <2>2, <2>3, <2>4, <2>5, Zenon
  <2>6. CASE t = "control" /\ from = "ok"
    BY <1>0, <1>1, <2>2, <2>3, <2>4, <2>6, Zenon
  <2>7. CASE t = "control" /\ from # "ok"
    BY <1>3, <2>2, <2>3, <2>4, <2>7, Zenon
  <2> QED BY <2>5, <2>6, <2>7, Zenon
<1>6. CASE \E t \in Handlers : Taken(t, tcpFlows[IdOf(t)])
  <2>1. PICK t \in Handlers : Taken(t, tcpFlows[IdOf(t)])
    BY <1>6, Zenon
  <2>2. /\ t \in Threads /\ IdOf(t) \in Ids /\ pc'[t] \notin {"flows", "wait"}
        /\ \A u \in Threads : u # t => pc'[u] = pc[u]
        /\ tcpFlows' = [tcpFlows EXCEPT ![IdOf(t)] = NoFlow] /\ UNCHANGED <<once, cur, cid>>
    <3>1. /\ t \in Threads /\ IdOf(t) \in Ids /\ pc'[t] \in {"read", "exit", "closeQuiet", "closeNotify"}
          /\ \A u \in Threads : u # t => pc'[u] = pc[u]
          /\ tcpFlows' = [tcpFlows EXCEPT ![IdOf(t)] = NoFlow] /\ UNCHANGED <<life, cur, cid>>
      BY <2>1, Zenon DEF Taken
    <3> QED BY <3>1, Zenon DEF life
  <2>3. A
    BY <1>4, <2>2, Zenon
  <2>4. i # IdOf(t) /\ tcpFlows'[i] = tcpFlows[i]
    BY <1>0, <2>2, Zenon
  <2>5. t # "control"
    BY <1>0, <2>3, <2>4, Zenon DEF IdOf
  <2> QED BY <1>0, <2>2, <2>3, <2>4, <2>5, Zenon
<1>7. CASE \E t \in Handlers : Ended(t, taken[t])
  <2>1. PICK t \in Handlers : Ended(t, taken[t])
    BY <1>7, Zenon
  <2>2. /\ t \in Threads /\ pc[t] \in {"closeQuiet", "closeNotify"} /\ pc'[t] \in {"read", "exit", "reply"}
        /\ \A u \in Threads : u # t => pc'[u] = pc[u]
        /\ UNCHANGED <<tcpFlows, once, cur, cid>>
    BY <2>1, Zenon DEF Ended, life
  <2>3. A
    BY <1>4, <2>2, Zenon
  <2>4. CASE t = "control"
    BY <1>3, <2>2, <2>3, <2>4, Zenon
  <2>5. CASE t # "control"
    BY <1>0, <1>2, <2>2, <2>3, <2>5, Zenon
  <2> QED BY <2>4, <2>5, Zenon
<1>8. CASE openDial
  <2>1. p = "dial" /\ p' \in {"insert", "reply"} /\ (\A u \in Threads : u # "control" => pc'[u] = pc[u])
        /\ UNCHANGED <<tcpFlows, once>>
    BY <1>8, OpenMoves, Zenon DEF openDial, life
  <2> QED BY <1>3, <1>4, <2>1, Zenon
<1>9. CASE openInsert
  <2>1. p = "insert" /\ p' \in {"inc", "reply"} /\ (\A u \in Threads : u # "control" => pc'[u] = pc[u])
        /\ UNCHANGED <<once, cur, cid>>
    BY <1>9, OpenMoves, Zenon DEF openInsert, life
  <2>2. A
    BY <1>4, <2>1, Zenon
  <2>3. tcpFlows[i] = NoFlow
    BY <1>0, <2>1, <2>2, Zenon
  <2>4. cid = i /\ tcpFlows'[i] = cur /\ p' = "inc"
    <3>1. CASE Goto("control", "insert", "inc") /\ tcpFlows' = [tcpFlows EXCEPT ![cid] = cur]
      <4>1. p' = "inc"
        BY <3>1, OpenMoves, Zenon
      <4> QED BY <1>0, <2>3, <3>1, <4>1, Zenon
    <3>2. CASE UNCHANGED tcpFlows
      BY <2>3, <3>2, Zenon
    <3> QED BY <1>9, <3>1, <3>2, Zenon DEF openInsert
  <2> QED BY <2>1, <2>4, Zenon
<1>10. CASE openInc
  <2>1. p = "inc" /\ p' = "ok" /\ (\A u \in Threads : u # "control" => pc'[u] = pc[u])
        /\ UNCHANGED <<tcpFlows, once, cur, cid>>
    BY <1>10, OpenMoves, Zenon DEF openInc, life
  <2>2. A
    BY <1>4, <2>1, Zenon
  <2> QED BY <1>0, <2>1, <2>2, Zenon
<1>11. CASE openSpawn
  <2>1. UNCHANGED <<tcpFlows, once>>
    BY <1>11, Zenon DEF openSpawn, flow
  <2>2. A
    BY <1>4, <1>11, <2>1, SpawnMoves, Zenon
  <2> QED BY <1>3, <1>11, <2>1, <2>2, SpawnMoves, Zenon
<1>12. CASE \E o \in Flows : loopExit(o)
  <2>1. PICK o \in Flows : loopExit(o)
    BY <1>12, Zenon
  <2>2. pc'[o] = "done" /\ p' = p /\ \A u \in Threads : u # o => pc'[u] = pc[u]
    BY <2>1, ExitMoves, ThreadFacts
  <2>3. UNCHANGED <<tcpFlows, once, cur, cid>>
    BY <2>1, Zenon DEF loopExit, flow
  <2>4. A
    BY <1>4, <2>2, <2>3, Zenon
  <2> QED BY <1>2, <2>2, <2>3, <2>4, Zenon
<1>13. CASE CloseStep
  <2>1. PICK u \in Threads : Body(u)
    BY <1>13, BodyMoves, Zenon
  <2>2. /\ UNCHANGED <<cur, cid>>
        /\ p' = p \/ p \notin {"inc", "ok", "cfQuiet"}
    BY <1>0, <2>1, Zenon DEF Body, BodyLabels
  <2>3. PICK t \in Threads :
          \/ once = "free" /\ Goto(t, "once", "conn") /\ once' = "busy"
             /\ UNCHANGED <<flow, conn, wg, closing, cur, cid, server>>
          \/ CloseConn(t) \/ Snapshot(t) \/ CloseOne(t) \/ Wait(t)
    BY <1>13, Zenon DEF CloseStep
  <2>4. ~Snapshot(t)
    BY Zenon DEF Snapshot
  <2>5. UNCHANGED tcpFlows
    BY <2>3, <2>4, Zenon DEF CloseConn, CloseOne, Wait, flow
  <2>6. A
    <3>1. CASE once = "free" /\ Goto(t, "once", "conn") /\ once' = "busy"
      <4>1. pc' = [pc EXCEPT ![t] = "conn"] /\ pc \in [Threads -> Labels]
        BY <3>1, Zenon DEF Goto, IInv, Types
      <4>2. \A v \in Threads : pc'[v] \in {"flows", "wait"} => pc[v] \in {"flows", "wait"}
        BY <4>1, Zenon
      <4> QED BY <3>1, <4>2, Zenon DEF A
    <3>2. CASE CloseConn(t)
      <4>1. pc' = [pc EXCEPT ![t] = "snapshot"] /\ pc \in [Threads -> Labels] /\ UNCHANGED once
        BY <3>2, Zenon DEF CloseConn, Goto, IInv, Types, life
      <4>2. \A v \in Threads : pc'[v] \in {"flows", "wait"} => pc[v] \in {"flows", "wait"}
        BY <4>1, Zenon
      <4> QED BY <1>4, <4>1, <4>2, Zenon
    <3>3. CASE CloseOne(t) \/ Wait(t)
      BY <3>3, Zenon DEF A, CloseOne, Wait, Goto
    <3> QED BY <2>3, <2>4, <3>1, <3>2, <3>3, Zenon
  <2> QED BY <1>2, <1>3, <2>2, <2>5, <2>6, Zenon
<1>14. CASE UNCHANGED vars
  <2>1. A
    BY <1>4, <1>14, Zenon DEF vars, life
  <2> QED BY <1>2, <1>14, <2>1, Zenon DEF vars, flow
<1> QED BY <1>5, <1>6, <1>7, <1>8, <1>9, <1>10, <1>11, <1>12, <1>13, <1>14, Cases, Zenon

-----------------------------------------------------------------------------
(* The invariant holds always, and gives what the session promises.        *)

\* A session that has just been accepted.
LEMMA InitIInv == Init => IInv
<1> SUFFICES ASSUME Init PROVE IInv
  OBVIOUS
<1>1. /\ pc \in [Threads -> Labels] /\ pc["control"] = "auth"
      /\ \A t \in Threads : t # "control" => pc[t] = "new"
  BY ThreadFacts, Zenon DEF Init, Labels
<1>2. Types
  <2>1. buffered \in 0 .. Buffered
    BY SessionAssumption DEF Init
  <2>2. tcpFlows \in [Ids -> Flows \cup {NoFlow}] /\ taken \in [Handlers -> Flows \cup {NoFlow}]
        /\ target \in [Flows -> {"none", "open", "closed"}]
    BY Zenon DEF Init
  <2>3. streams \in Int /\ closing \in SUBSET Flows
    BY DEF Init
  <2>4. /\ connOpen \in BOOLEAN /\ registered \in BOOLEAN /\ timer \in BOOLEAN
        /\ once \in {"free", "busy", "done"} /\ cur \in Flows \cup {NoFlow} /\ cid \in Ids \cup {NoFlow}
    BY Zenon DEF Init
  <2> QED BY <1>1, <2>1, <2>2, <2>3, <2>4, Zenon DEF Types
<1>3. Roles
  BY <1>1, ThreadFacts, Zenon DEF Roles, ControlLabels, LoopLabels, CallerLabels, Labels, BodyLabels, CloseFlowLabels
<1>4. Registered
  BY <1>1, Zenon DEF Init, Registered, Outside
<1>5. \A t \in Threads : pc[t] \in {"auth", "new"}
  BY <1>1, Zenon
<1>6. OneClose
  BY <1>1, <1>5, Zenon DEF Init, OneClose, BodyLabels
<1>7. Table /\ LateFlowCloses
  BY Zenon DEF Init, Table, LateFlowCloses
<1>8. Opening
  BY <1>1, ThreadFacts, Zenon DEF Opening, OpenLabels
<1>9. Running = {}
  BY <1>1, ThreadFacts, Zenon DEF Running
<1>10. LoopsCounted
  BY <1>9, FS_EmptySet, Zenon DEF Init, LoopsCounted
<1>11. \A t \in Handlers : ~Closing(t)
  BY <1>5, ThreadFacts, Zenon DEF Closing
<1>12. Taking
  BY <1>11, Zenon DEF Taking
<1>13. NoStrayTarget
  BY Zenon DEF Init, NoStrayTarget
<1>14. StreamsCounted
  <2>1. {i \in Ids : tcpFlows[i] # NoFlow} = {} /\ {t \in Handlers : Closing(t)} = {} /\ closing = {}
    BY <1>11, Zenon DEF Init
  <2>2. FlowCount = 0 /\ Cardinality(closing) = 0 /\ Cardinality({t \in Handlers : Closing(t)}) = 0
    BY <2>1, FS_EmptySet, Zenon DEF FlowCount
  <2>3. Cards(pc["control"] = "inc") = 0 /\ streams = 0
    BY <1>1, Zenon DEF Cards, Init
  <2> QED BY <2>2, <2>3 DEF StreamsCounted
<1> QED BY <1>2, <1>3, <1>4, <1>6, <1>7, <1>8, <1>10, <1>12, <1>13, <1>14, Zenon DEF IInv

\* Doing nothing keeps it.
LEMMA StutterIInv == IInv /\ UNCHANGED vars => IInv'
<1> SUFFICES ASSUME IInv, UNCHANGED vars PROVE IInv'
  OBVIOUS
<1>1. UNCHANGED <<pc, tcpFlows, target, streams, taken, connOpen, buffered, once, wg, closing, cur, cid,
                  registered, timer, active>>
  BY Zenon DEF vars, flow, conn, life, server
<1>2. Types' /\ Roles' /\ Registered'
  BY <1>1, Zenon DEF IInv, Types, Roles, Registered
<1>4. OneClose' /\ Table' /\ Opening'
  BY <1>1, Zenon DEF IInv, OneClose, Table, Opening
<1>3. LoopsCounted' /\ Taking' /\ StreamsCounted' /\ NoStrayTarget' /\ LateFlowCloses'
  BY <1>1, Zenon DEF IInv, LoopsCounted, Running, Taking, Closing, StreamsCounted, FlowCount, NoStrayTarget,
                     LateFlowCloses
<1> QED BY <1>2, <1>3, <1>4, Zenon DEF IInv

\* The invariant gives the property of the runs.
LEMMA IInvGives == IInv => FlowsKept
<1> SUFFICES ASSUME IInv PROVE FlowsKept
  OBVIOUS
<1>1. TypeOK
  <2>1. wg \in Nat
    BY FlowSets, Zenon DEF IInv, LoopsCounted, Running
  <2>2. active \in 0 .. 1
    BY DEF IInv, Registered
  <2> QED BY <2>1, <2>2, Zenon DEF IInv, Types, TypeOK
<1>2. Released
  <2> SUFFICES ASSUME pc["control"] = "done"
               PROVE  /\ ~registered /\ ~timer /\ active = 0 /\ FlowCount = 0
                      /\ \A o \in Flows : target[o] = "open" => \E l \in Flows : Closing(l) /\ taken[l] = o
    BY Zenon DEF Released
  <2>1. ~registered /\ ~timer /\ active = 0
    BY Zenon DEF IInv, Registered, Outside
  <2>2. once = "done"
    BY Zenon DEF IInv, OneClose
  <2>3. closing = {}
    <3>1. \A t \in Threads : pc[t] # "flows"
      BY <2>2, Zenon DEF IInv, OneClose, BodyLabels
    <3> QED BY <3>1, Zenon DEF IInv, OneClose
  <2>4. \A i \in Ids : tcpFlows[i] = NoFlow
    BY <2>2, Zenon DEF IInv, LateFlowCloses
  <2>5. {i \in Ids : tcpFlows[i] # NoFlow} = {}
    BY <2>4, Zenon
  <2>6. FlowCount = 0
    BY <2>5, FS_EmptySet, Zenon DEF FlowCount
  <2>7. ASSUME NEW o \in Flows, target[o] = "open" PROVE \E l \in Flows : Closing(l) /\ taken[l] = o
    <3>1. tcpFlows[FlowId[o]] # o
      BY <2>4, ThreadFacts, Zenon
    <3>2. PICK t \in Handlers : Closing(t) /\ taken[t] = o
      BY <2>3, <2>7, <3>1, Zenon DEF IInv, NoStrayTarget
    <3>3. t # "control"
      BY <3>2, Zenon DEF Closing
    <3> QED BY <3>2, <3>3, Zenon DEF Handlers
  <2> QED BY <2>1, <2>6, <2>7, Zenon
<1> QED BY <1>1, <1>2, Zenon DEF IInv, FlowsKept

\* The invariant of a session's flows: where its goroutines can be, what each of
\* them knows, who closes and what is counted.
THEOREM TCPIInv == Spec => []IInv
<1>1. IInv /\ [Next]_vars => IInv'
  <2>1. IInv /\ Next => IInv'
    BY TypesStep, RegisteredStep, OneCloseStep, OpeningStep, LoopsCountedStep, TakingStep, StreamsCountedStep,
       NoStrayStep, LateStep, Zenon DEF IInv
  <2> QED BY <2>1, StutterIInv, Zenon
<1> QED BY <1>1, InitIInv, PTL DEF Spec

\* The flows of a TCP session (handleOpenTCP, tcpToClientLoop, closeFlow, Close):
\* whatever the order in which Run, the loops, the idle wheel and Shutdown come to
\* close a flow or the session, the gauge of streams counts the flows that are
\* open, none has its target out of reach, a dial that ends after Close has taken
\* the flows is closed by its own handler, and when Run has returned nothing of
\* the session is left.
THEOREM TCPFlowsKept == Spec => []FlowsKept
BY TCPIInv, IInvGives, PTL
=============================================================================
