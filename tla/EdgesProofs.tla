---------------------------- MODULE EdgesProofs ----------------------------
(* Proofs about the flow cap of the SOCKS client (FlowCap), for any        *)
(* requests, bounds of the cap and duration of a turn of its loop, and     *)
(* about the transit hop (Transit), for any connections, addresses and     *)
(* number of sessions, also when it has both connections and sessions.     *)
EXTENDS FlowCap, Transit, FiniteSetTheorems, TLAPS

-----------------------------------------------------------------------------
(* The inductive invariant.                                                *)

PipePlaces == {"none", "spawn", "read", "write", "close", "finalize", "returned"}
RunnerPlaces == {"read", "get", "spawn", "write", "close", "finalize", "returned"}

XTypes ==
  /\ ctxDone \in BOOLEAN /\ cause \in {"none", "stop", "start"}
  /\ stopper \in {"run", "lane", "finalize", "range", "wait", "returned", "timeout"}
  /\ connHandler \in [Conns -> {"none", "track", "dial", "trackBackend", "copy", "closed", "returned"}]
  /\ open \in [Conns -> SUBSET Sides] /\ copies \in [Conns -> SUBSET Copies] /\ tracked \subseteq Conns \X Sides
  /\ table \in [Addrs -> 0 .. MaxSessions]
  /\ addr \in [Sessions -> Addrs \cup {"none"}]
  /\ pipe \in [Sessions -> PipePlaces]
  /\ quiet \in [Sessions -> 0 .. 2] /\ once \in [Sessions -> {"no", "begun", "done"}]
  /\ backend \subseteq Sessions
  /\ runner \in [pc : RunnerPlaces, addr : Addrs \cup {"none"}, session : 0 .. MaxSessions]

\* A connection that nobody handles has no open socket.
Unhandled == \A c \in Conns : ~Handling(c) => open[c] = {}

\* Range has still to visit the client sockets that are open and tracked, or they
\* came too late for it.
Reached ==
  RangeBegun =>
    \A c \in Conns : <<c, "client">> \in tracked /\ "client" \in open[c] =>
      c \in lateConns \/ (stopper = "range" /\ <<c, "client">> \in todo)

\* The socket of a session is open from its creation to its finalization.
Sockets ==
  /\ \A s \in Sessions : s \in backend <=> pipe[s] # "none" /\ once[s] # "done"
  /\ \A s \in Sessions : pipe[s] = "none" => once[s] = "no"
  /\ \A s \in Sessions : pipe[s] # "none" => addr[s] \in Addrs

\* What has been created is in the table, in lane.Close's list or with udpLane.Run.
Known ==
  /\ \A a \in Addrs : table[a] # 0 => pipe[table[a]] # "none"
  /\ stopper = "finalize" => \A s \in todo : s \in Sessions /\ pipe[s] # "none"
  /\ runner.pc \in {"spawn", "write", "close", "finalize"} => runner.session \in Sessions /\ pipe[runner.session] # "none"
  /\ runner.pc = "get" => runner.addr \in Addrs

\* Whoever has begun to close a session is alone in finalizing it.
Finalizing ==
  /\ \A s \in Sessions : pipe[s] = "finalize" => once[s] = "begun" /\ ~(runner.pc = "finalize" /\ runner.session = s)
  /\ runner.pc = "finalize" => once[runner.session] = "begun"
  /\ \A s \in Sessions : pipe[s] = "returned" => once[s] = "done"

\* lane.Close has waited for the goroutines that it could; the others are late.
Awaited ==
  /\ \A s \in Sessions : pipe[s] = "spawn" => runner.pc = "spawn" /\ runner.session = s
  /\ RangeBegun => \A s \in Sessions : Running(s) => s \in lateSessions

\* What Shutdown has waited for.
Settled == stopper = "returned" => runner.pc = "returned" /\ \A c \in Conns : ~Handling(c)

XIInv ==
  /\ XTypes /\ Unhandled /\ Reached /\ Sockets /\ Known /\ Finalizing /\ Awaited /\ Settled
  /\ LiveInTable /\ SessionsCounted

-----------------------------------------------------------------------------
\* Sessions are numbered from 1.
LEMMA SessionFacts ==
  /\ 0 \notin Sessions /\ Sessions \subseteq 0 .. MaxSessions /\ IsFiniteSet(Sessions)
  /\ \A s \in 0 .. MaxSessions : s # 0 => s \in Sessions
<1>1. MaxSessions \in Nat
  BY TransitAssumption, Zenon
<1>2. IsFiniteSet(1 .. MaxSessions)
  BY <1>1, FS_Interval
<1> QED BY <1>1, <1>2 DEF Sessions

\* Sessions that are counted once: one more, one less.
LEMMA CountFacts ==
  ASSUME backend \subseteq Sessions, SessionsCounted
  PROVE  /\ \A s \in Sessions : s \notin backend => active + 1 = Cardinality(backend \cup {s})
         /\ \A s \in backend : active - 1 = Cardinality(backend \ {s})
         /\ active \in 0 .. MaxSessions
<1>1. IsFiniteSet(backend) /\ Cardinality(backend) \in Nat
  BY SessionFacts, FS_Subset, FS_CardinalityType, Zenon
<1>2. Cardinality(backend) <= Cardinality(Sessions)
  BY SessionFacts, FS_Subset, Zenon
<1>3. Cardinality(Sessions) = MaxSessions
  <2>1. MaxSessions \in Nat
    BY TransitAssumption, Zenon
  <2>2. Cardinality(1 .. MaxSessions) = IF 1 > MaxSessions THEN 0 ELSE MaxSessions - 1 + 1
    BY <2>1, FS_Interval
  <2> QED BY <2>1, <2>2 DEF Sessions
<1>4. \A s \in Sessions : s \notin backend => Cardinality(backend \cup {s}) = Cardinality(backend) + 1
  BY <1>1, FS_AddElement, Zenon
<1>5. \A s \in backend : Cardinality(backend \ {s}) = Cardinality(backend) - 1
  BY <1>1, FS_RemoveElement, Zenon
<1> QED BY <1>1, <1>2, <1>3, <1>4, <1>5, TransitAssumption DEF SessionsCounted

-----------------------------------------------------------------------------
(* TCP connections.                                                        *)

\* A connection's own steps.
LEMMA ConnFacts ==
  ASSUME XIInv, NEW c \in Conns, acceptLoop \/ handleTCPConn(c) \/ (\E d \in Copies : copyStream(c, d))
  PROVE  /\ UNCHANGED <<shutdown, udp, lateSessions>>
         /\ connHandler' \in [Conns -> {"none", "track", "dial", "trackBackend", "copy", "closed", "returned"}]
         /\ open' \in [Conns -> SUBSET Sides] /\ copies' \in [Conns -> SUBSET Copies] /\ tracked' \subseteq Conns \X Sides
         /\ Unhandled'
         /\ \A b \in Conns : <<b, "client">> \in tracked' /\ "client" \in open'[b] /\ RangeBegun =>
              b \in lateConns' \/ (<<b, "client">> \in tracked /\ "client" \in open[b])
         /\ lateConns \subseteq lateConns'
<1> USE DEF XIInv, XTypes, Unhandled, Handling, Sides, Copies
<1>0. "client" # "backend"
  OBVIOUS
<1>1. CASE acceptLoop
  <2>1. PICK b \in Conns : /\ connHandler[b] = "none" /\ connHandler' = [connHandler EXCEPT ![b] = "track"]
                           /\ open' = [open EXCEPT ![b] = {"client"}]
    BY <1>1, Zenon DEF acceptLoop
  <2>2. UNCHANGED <<shutdown, copies, tracked, udp, late>> /\ stopper = "run"
    BY <1>1, Zenon DEF acceptLoop
  <2>3. ~RangeBegun
    BY <2>2, Zenon DEF RangeBegun
  <2> QED BY <2>1, <2>2, <2>3 DEF late
<1>2. ASSUME NEW side \in Sides, NEW from, NEW to \in {"dial", "copy"}, trackConn(c, side, from, to), from \in {"track", "trackBackend"}
      PROVE  /\ UNCHANGED <<shutdown, open, udp, lateSessions>>
             /\ connHandler' = [connHandler EXCEPT ![c] = to] /\ connHandler[c] = from
             /\ tracked' = tracked \cup {<<c, side>>}
             /\ side = "client" /\ RangeBegun => c \in lateConns'
             /\ lateConns \subseteq lateConns' /\ copies' \in [Conns -> SUBSET Copies]
  BY <1>2, Zenon DEF trackConn
<1>3. ASSUME NEW side \in Sides, NEW from, NEW to \in {"dial", "copy"}, trackConn(c, side, from, to), from \in {"track", "trackBackend"}
      PROVE  /\ connHandler' \in [Conns -> {"none", "track", "dial", "trackBackend", "copy", "closed", "returned"}]
             /\ tracked' \subseteq Conns \X Sides
             /\ Unhandled'
             /\ \A b \in Conns : <<b, "client">> \in tracked' /\ RangeBegun => b \in lateConns' \/ <<b, "client">> \in tracked
  BY <1>2, <1>3
<1>4. CASE trackConn(c, "client", "track", "dial")
  BY <1>2, <1>3, <1>4
<1>5. CASE trackConn(c, "backend", "trackBackend", "copy")
  BY <1>2, <1>3, <1>5
<1>6. CASE DialContext(c) \/ handlerReturns(c) \/ closeBoth(c)
  BY <1>6 DEF DialContext, handlerReturns, closeBoth, Returns, late
<1>7. CASE \E d \in Copies : copyStream(c, d)
  BY <1>7 DEF copyStream, late
<1> QED BY <1>1, <1>4, <1>5, <1>6, <1>7, Zenon DEF handleTCPConn

\* A step of a connection keeps the invariant.
LEMMA ConnKeeps ==
  ASSUME XIInv, ~Exited, NEW c \in Conns, acceptLoop \/ handleTCPConn(c) \/ (\E d \in Copies : copyStream(c, d))
  PROVE  XIInv'
<1> /\ UNCHANGED <<shutdown, udp, lateSessions>>
    /\ connHandler' \in [Conns -> {"none", "track", "dial", "trackBackend", "copy", "closed", "returned"}]
    /\ open' \in [Conns -> SUBSET Sides] /\ copies' \in [Conns -> SUBSET Copies] /\ tracked' \subseteq Conns \X Sides
    /\ Unhandled'
    /\ \A b \in Conns : <<b, "client">> \in tracked' /\ "client" \in open'[b] /\ RangeBegun =>
         b \in lateConns' \/ (<<b, "client">> \in tracked /\ "client" \in open[b])
    /\ lateConns \subseteq lateConns'
  BY ConnFacts, Zenon
<1>1. XTypes'
  BY Zenon DEF XIInv, XTypes, shutdown, udp
<1>2. Reached'
  BY Zenon DEF XIInv, Reached, RangeBegun, shutdown
<1>3. Sockets' /\ Known' /\ Finalizing' /\ Awaited' /\ LiveInTable' /\ SessionsCounted'
  BY DEF XIInv, Sockets, Known, Finalizing, Awaited, LiveInTable, SessionsCounted, RangeBegun, Running, shutdown, udp
<1>4. Settled'
  BY Zenon DEF Settled, Exited, shutdown
<1> QED BY <1>1, <1>2, <1>3, <1>4, Zenon DEF XIInv

-----------------------------------------------------------------------------
(* UDP sessions.                                                           *)

\* The TCP half of the invariant and the place of Shutdown stay.
Aside ==
  UNCHANGED <<shutdown, tcp, lateConns>>

LEMMA AsideKeeps ==
  ASSUME XIInv, ~Exited, Aside
  PROVE  Unhandled' /\ Reached' /\ Settled'
BY Zenon DEF XIInv, Aside, Unhandled, Reached, Settled, RangeBegun, Handling, Exited, shutdown, tcp

\* udpLane.Run goes on, without a session that it has to spawn or to finalize.
RunnerMoves ==
  /\ Aside /\ UNCHANGED <<table, addr, pipe, once, backend, active, lateSessions>>
  /\ runner.pc \notin {"spawn", "finalize"}
  /\ runner' \in [pc : RunnerPlaces, addr : Addrs \cup {"none"}, session : 0 .. MaxSessions]
  /\ runner'.pc \notin {"spawn", "finalize"}
  /\ runner'.pc \in {"write", "close"} => runner'.session \in Sessions /\ pipe[runner'.session] # "none"
  /\ runner'.pc = "get" => runner'.addr \in Addrs
  /\ quiet' \in [Sessions -> 0 .. 2]

LEMMA RunnerKeeps ==
  ASSUME XIInv, ~Exited, RunnerMoves
  PROVE  XIInv'
<1>1. Unhandled' /\ Reached' /\ Settled'
  BY AsideKeeps, Zenon DEF RunnerMoves
<1>2. XTypes'
  BY Zenon DEF XIInv, XTypes, RunnerMoves, Aside, shutdown, tcp
<1>3. Sockets' /\ Known' /\ Finalizing'
  BY Zenon DEF XIInv, Sockets, Known, Finalizing, RunnerMoves, Aside, shutdown
<1>4. Awaited' /\ LiveInTable' /\ SessionsCounted'
  BY Zenon DEF XIInv, Awaited, LiveInTable, SessionsCounted, RangeBegun, Running, RunnerMoves, Aside, shutdown
<1> QED BY <1>1, <1>2, <1>3, <1>4, Zenon DEF XIInv

\* pipeBackendToClient goes on, and closes nothing itself.
PipeMoves(s) ==
  /\ Aside /\ UNCHANGED <<table, addr, once, backend, active, runner, lateSessions>>
  /\ pipe[s] \in {"read", "write", "close"}
  /\ \E to \in {"read", "write", "close", "returned"} :
       pipe' = [pipe EXCEPT ![s] = to] /\ (to = "returned" => once[s] = "done")
  /\ quiet' \in [Sessions -> 0 .. 2]

LEMMA PipeKeeps ==
  ASSUME XIInv, ~Exited, NEW s \in Sessions, PipeMoves(s)
  PROVE  XIInv'
<1>1. Unhandled' /\ Reached' /\ Settled'
  BY AsideKeeps, Zenon DEF PipeMoves
<1>2. PICK to \in {"read", "write", "close", "returned"} :
        pipe' = [pipe EXCEPT ![s] = to] /\ (to = "returned" => once[s] = "done")
  BY Zenon DEF PipeMoves
<1>3. pipe'[s] = to /\ \A r \in Sessions : r # s => pipe'[r] = pipe[r]
  BY <1>2, Zenon DEF XIInv, XTypes
<1>4. pipe[s] \in {"read", "write", "close"} /\ \A r \in Sessions : pipe[r] # "none" <=> pipe'[r] # "none"
  BY <1>3, Zenon DEF PipeMoves
<1>5. XTypes'
  BY <1>2, Zenon DEF XIInv, XTypes, PipePlaces, PipeMoves, Aside, shutdown, tcp
<1>6. Sockets'
  BY <1>4, Zenon DEF XIInv, Sockets, PipeMoves
<1>7. Known'
  BY <1>4, SessionFacts DEF XIInv, XTypes, Known, PipeMoves, Aside, shutdown
<1>8. Finalizing'
  BY <1>2, <1>3, <1>4 DEF XIInv, Finalizing, PipeMoves
<1>9. Awaited'
  BY <1>3, <1>4, Zenon DEF XIInv, Awaited, RangeBegun, Running, PipeMoves, Aside, shutdown
<1>10. LiveInTable' /\ SessionsCounted'
  BY <1>4, Zenon DEF XIInv, LiveInTable, SessionsCounted, PipeMoves, Aside, shutdown
<1> QED BY <1>1, <1>5, <1>6, <1>7, <1>8, <1>9, <1>10, Zenon DEF XIInv

\* The first of closeSession's two steps: the session leaves the table.
Begins(s) ==
  /\ once[s] = "no" /\ pipe[s] # "none"
  /\ once' = [once EXCEPT ![s] = "begun"] /\ table' = [table EXCEPT ![addr[s]] = 0]
  /\ UNCHANGED <<addr, backend, active>>

LEMMA BeginFacts ==
  ASSUME XIInv, NEW s \in Sessions, Begins(s), UNCHANGED stopper, \A r \in Sessions : pipe[r] # "none" <=> pipe'[r] # "none"
  PROVE  /\ table' \in [Addrs -> 0 .. MaxSessions] /\ once' \in [Sessions -> {"no", "begun", "done"}]
         /\ Sockets' /\ LiveInTable' /\ SessionsCounted'
         /\ \A a \in Addrs : table'[a] # 0 => table[a] = table'[a]
         /\ once[s] = "no" /\ once'[s] = "begun" /\ \A r \in Sessions : r # s => once'[r] = once[r]
<1>1. addr[s] \in Addrs /\ once[s] = "no" /\ 0 \notin Sessions /\ 0 \in 0 .. MaxSessions
  BY SessionFacts, TransitAssumption DEF XIInv, Sockets, Begins
<1>2. once'[s] = "begun" /\ \A r \in Sessions : r # s => once'[r] = once[r]
  BY Zenon DEF XIInv, XTypes, Begins
<1>3. table'[addr[s]] = 0 /\ \A a \in Addrs : a # addr[s] => table'[a] = table[a]
  BY <1>1, Zenon DEF XIInv, XTypes, Begins
<1>4. table' \in [Addrs -> 0 .. MaxSessions] /\ once' \in [Sessions -> {"no", "begun", "done"}]
  BY <1>1, Zenon DEF XIInv, XTypes, Begins
<1>5. Sockets' /\ SessionsCounted'
  BY <1>1, <1>2, Zenon DEF XIInv, Sockets, SessionsCounted, Begins
<1>6. LiveInTable'
  <2> SUFFICES ASSUME stopper \in {"run", "lane"}, NEW r \in Sessions, pipe[r] # "none"
               PROVE  once'[r] = "no" <=> table'[addr[r]] = r
    BY Zenon DEF LiveInTable, Begins
  <2>1. (once[r] = "no" <=> table[addr[r]] = r) /\ (once[s] = "no" <=> table[addr[s]] = s) /\ addr[r] \in Addrs
    BY Zenon DEF XIInv, LiveInTable, Sockets, Begins
  <2>2. r # 0
    BY <1>1, Zenon
  <2> QED BY <1>1, <1>2, <1>3, <2>1, <2>2, Zenon
<1> QED BY <1>1, <1>2, <1>3, <1>4, <1>5, <1>6, Zenon

\* finalizeSession: the socket is closed and the session no longer counted.
LEMMA FinalizeFacts ==
  ASSUME XIInv, NEW s \in Sessions, s \in backend, finalizeSession(s), UNCHANGED <<table, addr>>,
         once[s] = "begun" \/ stopper = "finalize", UNCHANGED stopper,
         \A r \in Sessions : pipe[r] # "none" <=> pipe'[r] # "none"
  PROVE  /\ backend' \subseteq Sessions /\ once' \in [Sessions -> {"no", "begun", "done"}]
         /\ Sockets' /\ LiveInTable' /\ SessionsCounted'
         /\ once'[s] = "done" /\ \A r \in Sessions : r # s => once'[r] = once[r]
<1>1. once'[s] = "done" /\ \A r \in Sessions : r # s => once'[r] = once[r]
  BY Zenon DEF XIInv, XTypes, finalizeSession
<1>2. backend' \subseteq Sessions /\ once' \in [Sessions -> {"no", "begun", "done"}]
  BY Zenon DEF XIInv, XTypes, finalizeSession
<1>3. SessionsCounted'
  <2>1. active - 1 = Cardinality(backend \ {s})
    BY CountFacts, Zenon DEF XIInv, XTypes
  <2> QED BY <2>1, Zenon DEF SessionsCounted, finalizeSession
<1>4. Sockets'
  BY <1>1, Zenon DEF XIInv, Sockets, finalizeSession
<1>5. LiveInTable'
  BY <1>1 DEF XIInv, LiveInTable
<1> QED BY <1>1, <1>2, <1>3, <1>4, <1>5, Zenon

\* getOrCreateSession inserts a new session.
LEMMA BornKeeps ==
  ASSUME XIInv, ~Exited, getOrCreateSession, table[runner.addr] = 0, pipe' # pipe
  PROVE  XIInv'
<1> DEFINE a == runner.addr
           s == CHOOSE x \in New : TRUE
<1>1. /\ runner.pc = "get" /\ New # {}
      /\ table' = [table EXCEPT ![a] = s] /\ addr' = [addr EXCEPT ![s] = a]
      /\ pipe' = [pipe EXCEPT ![s] = "spawn"]
      /\ backend' = backend \cup {s} /\ active' = active + 1
      /\ runner' = [runner EXCEPT !.pc = "spawn", !.session = s]
  BY Zenon DEF getOrCreateSession
<1>2. UNCHANGED <<shutdown, tcp, conn, quiet, once, late>>
  BY Zenon DEF getOrCreateSession
<1>3. s \in Sessions /\ pipe[s] = "none" /\ a \in Addrs /\ s # 0 /\ s \in 0 .. MaxSessions
  BY <1>1, SessionFacts, Zenon DEF New, XIInv, Known
<1> HIDE DEF s
<1>4. /\ pipe'[s] = "spawn" /\ addr'[s] = a /\ table'[a] = s
      /\ \A r \in Sessions : r # s => pipe'[r] = pipe[r] /\ addr'[r] = addr[r]
      /\ \A b \in Addrs : b # a => table'[b] = table[b]
  BY <1>1, <1>3 DEF XIInv, XTypes
<1>5. runner'.pc = "spawn" /\ runner'.session = s /\ runner' \in [pc : RunnerPlaces, addr : Addrs \cup {"none"}, session : 0 .. MaxSessions]
  BY <1>1, <1>3, Zenon DEF XIInv, XTypes, RunnerPlaces
<1>6. Unhandled' /\ Reached' /\ Settled'
  BY <1>2, AsideKeeps, Zenon DEF Aside, late
<1>7. XTypes'
  BY <1>1, <1>2, <1>3, <1>5 DEF XIInv, XTypes, PipePlaces, shutdown, tcp
<1>8. once[s] = "no" /\ s \notin backend
  BY <1>3, Zenon DEF XIInv, Sockets
<1>9. Sockets'
  BY <1>1, <1>2, <1>3, <1>4, <1>8 DEF XIInv, Sockets
<1>10. Known'
  <2>1. \A b \in Addrs : table'[b] # 0 => pipe'[table'[b]] # "none"
    BY <1>3, <1>4, SessionFacts DEF XIInv, XTypes, Known
  <2>2. stopper' = "finalize" => \A r \in todo' : r \in Sessions /\ pipe'[r] # "none"
    BY <1>2, <1>3, <1>4, Zenon DEF XIInv, Known, shutdown
  <2> QED BY <1>3, <1>4, <1>5, <2>1, <2>2, Zenon DEF Known
<1>11. Finalizing'
  BY <1>1, <1>2, <1>4, <1>5 DEF XIInv, Finalizing
<1>12. Awaited'
  BY <1>1, <1>2, <1>4, <1>5 DEF XIInv, Awaited, RangeBegun, Running, shutdown, late
<1>13. LiveInTable'
  <2> SUFFICES ASSUME stopper \in {"run", "lane"}, NEW r \in Sessions, pipe'[r] # "none"
               PROVE  once[r] = "no" <=> table'[addr'[r]] = r
    BY <1>2, Zenon DEF LiveInTable, shutdown
  <2>1. CASE r = s
    BY <1>4, <1>8, <2>1, Zenon
  <2>2. CASE r # s
    <3>1. (once[r] = "no" <=> table[addr[r]] = r) /\ addr[r] \in Addrs /\ addr'[r] = addr[r]
      BY <1>4, <2>2, Zenon DEF XIInv, LiveInTable, Sockets
    <3>2. r # 0
      BY SessionFacts, Zenon
    <3> QED BY <1>4, <2>2, <3>1, <3>2, Zenon
  <2> QED BY <2>1, <2>2, Zenon
<1>14. SessionsCounted'
  <2>1. active + 1 = Cardinality(backend \cup {s})
    BY <1>3, <1>8, CountFacts, Zenon DEF XIInv, XTypes
  <2> QED BY <1>1, <2>1, Zenon DEF SessionsCounted
<1> QED BY <1>6, <1>7, <1>9, <1>10, <1>11, <1>12, <1>13, <1>14, Zenon DEF XIInv

\* The goroutine of a new session starts.
LEMMA SpawnKeeps ==
  ASSUME XIInv, ~Exited, spawnPipe
  PROVE  XIInv'
<1> DEFINE s == runner.session
<1>1. /\ runner.pc = "spawn" /\ pipe' = [pipe EXCEPT ![s] = "read"]
      /\ (RangeBegun => lateSessions' = lateSessions \cup {s}) /\ (~RangeBegun => lateSessions' = lateSessions)
      /\ runner' = [runner EXCEPT !.pc = "write"]
      /\ UNCHANGED <<shutdown, tcp, conn, table, addr, quiet, once, backend, active, lateConns>>
  BY Zenon DEF spawnPipe
<1>2. s \in Sessions /\ pipe[s] # "none"
  BY <1>1, Zenon DEF XIInv, Known
<1>3. runner'.pc = "write" /\ runner'.session = s /\ runner' \in [pc : RunnerPlaces, addr : Addrs \cup {"none"}, session : 0 .. MaxSessions]
  BY <1>1, Zenon DEF XIInv, XTypes, RunnerPlaces
<1> HIDE DEF s
<1>4. pipe'[s] = "read" /\ \A r \in Sessions : r # s => pipe'[r] = pipe[r]
  BY <1>1, <1>2, Zenon DEF XIInv, XTypes
<1>5. \A r \in Sessions : pipe[r] # "none" <=> pipe'[r] # "none"
  BY <1>2, <1>4, Zenon
<1>6. Unhandled' /\ Reached' /\ Settled'
  BY <1>1, AsideKeeps, Zenon DEF Aside
<1>7. XTypes'
  BY <1>1, <1>2, <1>3, Zenon DEF XIInv, XTypes, PipePlaces, shutdown, tcp
<1>8. Sockets'
  BY <1>1, <1>5, Zenon DEF XIInv, Sockets
<1>9. Known'
  BY <1>1, <1>2, <1>3, <1>5, SessionFacts DEF XIInv, XTypes, Known, shutdown
<1>10. Finalizing'
  BY <1>1, <1>3, <1>4 DEF XIInv, Finalizing
<1>11. Awaited'
  <2>1. \A r \in Sessions : pipe'[r] # "spawn"
    BY <1>4, Zenon DEF XIInv, Awaited, s
  <2>2. RangeBegun => \A r \in Sessions : Running(r)' => r \in lateSessions'
    BY <1>1, <1>4, Zenon DEF XIInv, Awaited, Running
  <2>3. RangeBegun' <=> RangeBegun
    BY <1>1, Zenon DEF RangeBegun, shutdown
  <2> QED BY <2>1, <2>2, <2>3, Zenon DEF Awaited
<1>12. LiveInTable' /\ SessionsCounted'
  BY <1>1, <1>5, Zenon DEF XIInv, LiveInTable, SessionsCounted, shutdown
<1> QED BY <1>6, <1>7, <1>8, <1>9, <1>10, <1>11, <1>12 DEF XIInv

\* closeSession, called by udpLane.Run.
LEMMA RunCloseKeeps ==
  ASSUME XIInv, ~Exited, runClose
  PROVE  XIInv'
<1> DEFINE s == runner.session
<1>1. UNCHANGED <<shutdown, tcp, conn, addr, pipe, quiet, late>>
  BY Zenon DEF runClose
<1>2. runner.pc \in {"close", "finalize"}
  BY Zenon DEF runClose
<1>3. s \in Sessions /\ pipe[s] # "none"
  BY <1>2, Zenon DEF XIInv, Known
<1>4. Unhandled' /\ Reached' /\ Settled'
  BY <1>1, AsideKeeps, Zenon DEF Aside, late
<1>5. stopper' = stopper /\ \A r \in Sessions : pipe[r] # "none" <=> pipe'[r] # "none"
  BY <1>1, Zenon DEF shutdown
<1>6. CASE runner.pc = "close" /\ once[s] = "no"
  <2>1. Begins(s) /\ runner' = [runner EXCEPT !.pc = "finalize"]
    BY <1>1, <1>3, <1>6, Zenon DEF runClose, closeBegin, Begins
  <2>2. /\ table' \in [Addrs -> 0 .. MaxSessions] /\ once' \in [Sessions -> {"no", "begun", "done"}]
        /\ Sockets' /\ LiveInTable' /\ SessionsCounted'
        /\ \A a \in Addrs : table'[a] # 0 => table[a] = table'[a]
        /\ once[s] = "no" /\ once'[s] = "begun" /\ \A r \in Sessions : r # s => once'[r] = once[r]
    BY <1>3, <1>5, <2>1, BeginFacts, Zenon
  <2>3. runner'.pc = "finalize" /\ runner'.session = s /\ runner' \in [pc : RunnerPlaces, addr : Addrs \cup {"none"}, session : 0 .. MaxSessions]
    BY <2>1, Zenon DEF XIInv, XTypes, RunnerPlaces
  <2>4. XTypes'
    BY <1>1, <2>1, <2>2, <2>3 DEF XIInv, XTypes, Begins, shutdown, tcp
  <2>5. Known'
    BY <1>1, <1>3, <2>2, <2>3 DEF XIInv, Known, shutdown
  <2>6. Finalizing'
    BY <1>1, <1>6, <2>2, <2>3 DEF XIInv, Finalizing
  <2>7. Awaited'
    BY <1>1, <1>6, <2>3, Zenon DEF XIInv, Awaited, RangeBegun, Running, shutdown, late
  <2> QED BY <1>4, <2>2, <2>4, <2>5, <2>6, <2>7 DEF XIInv
<1>7. CASE runner.pc = "close" /\ once[s] # "no"
  <2>1. runner' = Idle /\ UNCHANGED <<table, once, backend, active>>
    BY <1>7, Zenon DEF runClose, closeBegin
  <2>2. RunnerMoves
    BY <1>1, <1>7, <2>1, TransitAssumption DEF RunnerMoves, Aside, Idle, RunnerPlaces, XIInv, XTypes, late
  <2> QED BY <2>2, RunnerKeeps, Zenon
<1>8. CASE runner.pc = "finalize"
  <2>1. finalizeSession(s) /\ runner' = Idle /\ UNCHANGED table
    BY <1>8, Zenon DEF runClose
  <2>2. once[s] = "begun" /\ s \in backend
    BY <1>3, <1>8, Zenon DEF XIInv, Finalizing, Sockets
  <2>3. /\ backend' \subseteq Sessions /\ once' \in [Sessions -> {"no", "begun", "done"}]
        /\ Sockets' /\ LiveInTable' /\ SessionsCounted'
        /\ once'[s] = "done" /\ \A r \in Sessions : r # s => once'[r] = once[r]
    BY <1>1, <1>3, <1>5, <2>1, <2>2, FinalizeFacts, Zenon
  <2>4. runner'.pc = "read" /\ runner' \in [pc : RunnerPlaces, addr : Addrs \cup {"none"}, session : 0 .. MaxSessions]
    BY <2>1, TransitAssumption DEF Idle, RunnerPlaces
  <2>5. XTypes'
    BY <1>1, <2>1, <2>3, <2>4, Zenon DEF XIInv, XTypes, shutdown, tcp
  <2>6. Known'
    BY <1>1, <2>1, <2>4, Zenon DEF XIInv, Known, shutdown
  <2>7. Finalizing'
    BY <1>1, <1>8, <2>3, <2>4, Zenon DEF XIInv, Finalizing
  <2>8. Awaited'
    BY <1>1, <1>8, <2>4, Zenon DEF XIInv, Awaited, RangeBegun, Running, shutdown, late
  <2> QED BY <1>4, <2>3, <2>5, <2>6, <2>7, <2>8, Zenon DEF XIInv
<1> QED BY <1>2, <1>6, <1>7, <1>8, Zenon

\* The steps of udpLane.Run keep the invariant.
LEMMA RunKeeps ==
  ASSUME XIInv, ~Exited, Run
  PROVE  XIInv'
<1>1. CASE runRead
  <2>1. UNCHANGED <<shutdown, tcp, conn, table, addr, pipe, quiet, once, backend, active, late>> /\ runner.pc = "read"
    BY <1>1, Zenon DEF runRead
  <2>2. (\E a \in Addrs : runner' = [Idle EXCEPT !.pc = "get", !.addr = a]) \/ runner' = [Idle EXCEPT !.pc = "returned"]
    BY <1>1, Zenon DEF runRead
  <2>3. /\ runner' \in [pc : RunnerPlaces, addr : Addrs \cup {"none"}, session : 0 .. MaxSessions]
        /\ runner'.pc \in {"get", "returned"} /\ (runner'.pc = "get" => runner'.addr \in Addrs)
    <3>0. 0 \in 0 .. MaxSessions
      BY TransitAssumption
    <3>1. CASE \E a \in Addrs : runner' = [Idle EXCEPT !.pc = "get", !.addr = a]
      <4>1. PICK a \in Addrs : runner' = [pc |-> "get", addr |-> a, session |-> 0]
        BY <3>1, Zenon DEF Idle
      <4> QED BY <3>0, <4>1, Zenon DEF RunnerPlaces
    <3>2. CASE runner' = [Idle EXCEPT !.pc = "returned"]
      <4>1. runner' = [pc |-> "returned", addr |-> "none", session |-> 0]
        BY <3>2, Zenon DEF Idle
      <4> QED BY <3>0, <4>1, Zenon DEF RunnerPlaces
    <3> QED BY <2>2, <3>1, <3>2, Zenon
  <2>4. RunnerMoves
    BY <2>1, <2>3, Zenon DEF RunnerMoves, Aside, XIInv, XTypes, late
  <2> QED BY <2>4, RunnerKeeps, Zenon
<1>2. CASE getOrCreateSession /\ table[runner.addr] = 0 /\ pipe' # pipe
  BY <1>2, BornKeeps, Zenon
<1>3. CASE getOrCreateSession /\ ~(table[runner.addr] = 0 /\ pipe' # pipe)
  <2>1. UNCHANGED <<shutdown, tcp, conn, quiet, once, late>> /\ runner.pc = "get" /\ runner.addr \in Addrs
    BY <1>3, Zenon DEF getOrCreateSession, XIInv, Known
  <2>2. /\ UNCHANGED <<table, addr, pipe, backend, active>>
        /\ \/ table[runner.addr] # 0 /\ runner' = [runner EXCEPT !.pc = "write", !.session = table[runner.addr]]
           \/ runner' = Idle
    <3>1. CASE table[runner.addr] # 0
      BY <1>3, <3>1, Zenon DEF getOrCreateSession
    <3>2. CASE table[runner.addr] = 0 /\ runner' = Idle /\ UNCHANGED <<table, addr, pipe, backend, active>>
      BY <3>2, Zenon
    <3>3. CASE table[runner.addr] = 0 /\ New # {} /\ pipe' = [pipe EXCEPT ![CHOOSE x \in New : TRUE] = "spawn"]
      <4>1. (CHOOSE x \in New : TRUE) \in New
        BY <3>3, Zenon
      <4>2. pipe' # pipe
        BY <3>3, <4>1, Zenon DEF New, XIInv, XTypes
      <4> QED BY <1>3, <3>3, <4>2, Zenon
    <3> QED BY <1>3, <3>1, <3>2, <3>3, Zenon DEF getOrCreateSession
  <2>3. table[runner.addr] # 0 => table[runner.addr] \in Sessions /\ pipe[table[runner.addr]] # "none"
    BY <2>1, SessionFacts, Zenon DEF XIInv, XTypes, Known
  <2>4. /\ runner' \in [pc : RunnerPlaces, addr : Addrs \cup {"none"}, session : 0 .. MaxSessions]
        /\ runner'.pc \in {"write", "read"}
        /\ runner'.pc = "write" => runner'.session \in Sessions /\ pipe[runner'.session] # "none"
    <3>0. 0 \in 0 .. MaxSessions /\ table[runner.addr] \in 0 .. MaxSessions
      BY <2>1, TransitAssumption DEF XIInv, XTypes
    <3>1. CASE runner' = Idle
      BY <3>0, <3>1, Zenon DEF Idle, RunnerPlaces
    <3>2. CASE table[runner.addr] # 0 /\ runner' = [runner EXCEPT !.pc = "write", !.session = table[runner.addr]]
      <4>1. runner \in [pc : RunnerPlaces, addr : Addrs \cup {"none"}, session : 0 .. MaxSessions]
        BY Zenon DEF XIInv, XTypes
      <4> QED BY <2>3, <3>0, <3>2, <4>1, Zenon DEF RunnerPlaces
    <3> QED BY <2>2, <3>1, <3>2, Zenon
  <2>5. RunnerMoves
    BY <2>1, <2>2, <2>4, Zenon DEF RunnerMoves, Aside, XIInv, XTypes, late
  <2> QED BY <2>5, RunnerKeeps, Zenon
<1>4. CASE spawnPipe
  BY <1>4, SpawnKeeps, Zenon
<1>5. CASE runWrite
  <2>1. UNCHANGED <<shutdown, tcp, conn, table, addr, pipe, once, backend, active, late>> /\ runner.pc = "write"
    BY <1>5, Zenon DEF runWrite
  <2>2. runner.session \in Sessions /\ pipe[runner.session] # "none"
    BY <2>1, Zenon DEF XIInv, Known
  <2>3. quiet' \in [Sessions -> 0 .. 2]
    <3>1. quiet \in [Sessions -> 0 .. 2] /\ quiet' = [quiet EXCEPT ![runner.session] = 0] /\ 0 \in 0 .. 2
      BY <1>5 DEF runWrite, XIInv, XTypes
    <3> QED BY <3>1, Zenon
  <2>4. /\ runner' \in [pc : RunnerPlaces, addr : Addrs \cup {"none"}, session : 0 .. MaxSessions]
        /\ runner'.pc \in {"close", "read"}
        /\ runner'.pc = "close" => runner'.session \in Sessions /\ pipe[runner'.session] # "none"
    BY <1>5, <2>2, TransitAssumption DEF runWrite, Idle, RunnerPlaces, XIInv, XTypes
  <2>5. RunnerMoves
    BY <2>1, <2>3, <2>4, Zenon DEF RunnerMoves, Aside, late
  <2> QED BY <2>5, RunnerKeeps, Zenon
<1>6. CASE runClose
  BY <1>6, RunCloseKeeps, Zenon
<1> QED BY <1>1, <1>2, <1>3, <1>4, <1>5, <1>6, Zenon DEF Run

\* The steps of pipeBackendToClient keep the invariant.
LEMMA PipesKeep ==
  ASSUME XIInv, ~Exited, NEW s \in Sessions, pipeBackendToClient(s)
  PROVE  XIInv'
<1>0. quiet \in [Sessions -> 0 .. 2] /\ pipe \in [Sessions -> PipePlaces] /\ 0 \in 0 .. 2 /\ quiet[s] \in 0 .. 2
  BY DEF XIInv, XTypes
<1>1. CASE pipeDatagram(s)
  <2>1. PipeMoves(s)
    BY <1>0, <1>1, Zenon DEF pipeDatagram, PipeMoves, Pipe, Aside, late
  <2> QED BY <2>1, PipeKeeps, Zenon
<1>2. CASE pipeDeadline(s)
  <2>1. pipe' = [pipe EXCEPT ![s] = "read"] \/ pipe' = [pipe EXCEPT ![s] = "close"]
    BY <1>0, <1>2, Zenon DEF pipeDeadline, Pipe
  <2>2. quiet' \in [Sessions -> 0 .. 2]
    <3>1. CASE quiet[s] < 2 /\ quiet' = [quiet EXCEPT ![s] = @ + 1]
      <4>1. quiet[s] + 1 \in 0 .. 2
        BY <1>0, <3>1
      <4> QED BY <1>0, <3>1, <4>1, Zenon
    <3>2. CASE quiet' = [quiet EXCEPT ![s] = 0]
      BY <1>0, <3>2, Zenon
    <3> QED BY <1>2, <3>1, <3>2, Zenon DEF pipeDeadline
  <2>3. PipeMoves(s)
    BY <1>2, <2>1, <2>2, Zenon DEF pipeDeadline, PipeMoves, Aside, late
  <2> QED BY <2>3, PipeKeeps, Zenon
<1>3. CASE pipeFails(s)
  <2>1. PipeMoves(s)
    BY <1>0, <1>3, Zenon DEF pipeFails, PipeMoves, Pipe, Aside, late
  <2> QED BY <2>1, PipeKeeps, Zenon
<1>4. CASE pipeClose(s)
  <2>1. UNCHANGED <<shutdown, tcp, conn, addr, quiet, runner, late>> /\ pipe[s] \in {"close", "finalize"}
    BY <1>4, Zenon DEF pipeClose
  <2>2. \E to \in {"finalize", "returned"} : pipe' = [pipe EXCEPT ![s] = to]
    BY <1>4, Zenon DEF pipeClose, Pipe
  <2>3. stopper' = stopper /\ \A r \in Sessions : pipe[r] # "none" <=> pipe'[r] # "none"
    BY <1>0, <2>1, <2>2, Zenon DEF shutdown
  <2>4. pipe' \in [Sessions -> PipePlaces] /\ (\A r \in Sessions : r # s => pipe'[r] = pipe[r]) /\ pipe'[s] \in {"finalize", "returned"}
    BY <1>0, <2>2, Zenon DEF PipePlaces
  <2>5. Unhandled' /\ Reached' /\ Settled'
    BY <2>1, AsideKeeps, Zenon DEF Aside, late
  <2>6. Awaited'
    BY <2>1, <2>4, Zenon DEF XIInv, Awaited, RangeBegun, Running, shutdown, late
  <2>7. CASE pipe[s] = "close" /\ once[s] = "no"
    <3>1. Begins(s) /\ pipe'[s] = "finalize"
      BY <1>0, <1>4, <2>1, <2>7, Zenon DEF pipeClose, closeBegin, Begins, Pipe
    <3>2. /\ table' \in [Addrs -> 0 .. MaxSessions] /\ once' \in [Sessions -> {"no", "begun", "done"}]
          /\ Sockets' /\ LiveInTable' /\ SessionsCounted'
          /\ \A a \in Addrs : table'[a] # 0 => table[a] = table'[a]
          /\ once[s] = "no" /\ once'[s] = "begun" /\ \A r \in Sessions : r # s => once'[r] = once[r]
      BY <2>3, <3>1, BeginFacts, Zenon
    <3>3. XTypes'
      BY <2>1, <2>4, <3>1, <3>2 DEF XIInv, XTypes, Begins, shutdown, tcp
    <3>4. Known'
      <4>1. \A a \in Addrs : table'[a] # 0 => table'[a] \in Sessions /\ pipe[table'[a]] # "none"
        BY <3>2, SessionFacts DEF XIInv, XTypes, Known
      <4> QED BY <2>1, <2>3, <4>1, Zenon DEF XIInv, Known, shutdown
    <3>5. Finalizing'
      <4>1. runner.pc = "finalize" => once[runner.session] = "begun" /\ runner.session # s /\ runner.session \in Sessions
        BY <2>7, Zenon DEF XIInv, Finalizing, Known
      <4>2. \A r \in Sessions : r # s => pipe'[r] = pipe[r] /\ once'[r] = once[r]
        BY <2>4, <3>2, Zenon
      <4> QED BY <2>1, <3>1, <3>2, <4>1, <4>2 DEF XIInv, Finalizing
    <3> QED BY <2>5, <2>6, <3>2, <3>3, <3>4, <3>5, Zenon DEF XIInv
  <2>8. CASE pipe[s] = "close" /\ once[s] # "no"
    <3>1. once[s] \in {"no", "begun", "done"} /\ once[s] # "begun"
      BY <1>4, <2>8, Zenon DEF XIInv, XTypes, pipeClose, closeBegin
    <3>2. PipeMoves(s)
      BY <1>0, <1>4, <2>1, <2>8, <3>1, Zenon DEF pipeClose, closeBegin, PipeMoves, Pipe, Aside, late
    <3> QED BY <3>2, PipeKeeps, Zenon
  <2>9. CASE pipe[s] = "finalize"
    <3>1. finalizeSession(s) /\ pipe'[s] = "returned" /\ UNCHANGED table
      BY <1>0, <1>4, <2>9, Zenon DEF pipeClose, Pipe
    <3>2. once[s] = "begun" /\ s \in backend /\ ~(runner.pc = "finalize" /\ runner.session = s)
      BY <2>9, Zenon DEF XIInv, Finalizing, Sockets
    <3>3. /\ backend' \subseteq Sessions /\ once' \in [Sessions -> {"no", "begun", "done"}]
          /\ Sockets' /\ LiveInTable' /\ SessionsCounted'
          /\ once'[s] = "done" /\ \A r \in Sessions : r # s => once'[r] = once[r]
      BY <2>1, <2>3, <3>1, <3>2, FinalizeFacts, Zenon
    <3>4. XTypes'
      BY <2>1, <2>4, <3>1, <3>3, Zenon DEF XIInv, XTypes, shutdown, tcp
    <3>5. Known'
      BY <2>1, <2>3, <3>1, SessionFacts, ZenonT(30) DEF XIInv, XTypes, Known, shutdown
    <3>6. Finalizing'
      BY <2>1, <2>4, <3>1, <3>2, <3>3, Zenon DEF XIInv, Finalizing, Known
    <3> QED BY <2>5, <2>6, <3>3, <3>4, <3>5, <3>6, Zenon DEF XIInv
  <2> QED BY <2>1, <2>7, <2>8, <2>9, Zenon
<1> QED BY <1>1, <1>2, <1>3, <1>4, Zenon DEF pipeBackendToClient

-----------------------------------------------------------------------------
(* Shutdown.                                                               *)

\* Shutdown goes on without touching a session or a connection.
LEMMA StopperKeeps ==
  ASSUME XIInv, ~Exited, cancel \/ Shutdown \/ laneWait \/ rangeEnd \/ groupWait
  PROVE  XIInv'
<1>1. UNCHANGED <<tcp, table, addr, pipe, quiet, once, backend, active, runner, late>>
  BY Zenon DEF cancel, Shutdown, laneWait, rangeEnd, groupWait, udp
<1>2. /\ ctxDone' \in BOOLEAN /\ cause' \in {"none", "stop", "start"}
      /\ stopper' \in {"run", "lane", "finalize", "range", "wait", "returned", "timeout"}
  BY Zenon DEF cancel, Shutdown, laneWait, rangeEnd, groupWait, XIInv, XTypes
<1>3. XTypes'
  BY <1>1, <1>2, Zenon DEF XIInv, XTypes, tcp
<1>4. Unhandled' /\ Sockets' /\ Finalizing' /\ SessionsCounted'
  BY <1>1, Zenon DEF XIInv, Unhandled, Sockets, Finalizing, SessionsCounted, Handling, tcp
<1>5. LiveInTable' /\ Known'
  BY <1>1, Zenon DEF XIInv, LiveInTable, Known, cancel, Shutdown, laneWait, rangeEnd, groupWait
<1>6. Reached'
  BY <1>1, Zenon DEF XIInv, Reached, RangeBegun, cancel, Shutdown, laneWait, rangeEnd, groupWait, tcp, late
<1>7. Awaited'
  BY <1>1, Zenon DEF XIInv, Awaited, RangeBegun, Running, cancel, Shutdown, laneWait, rangeEnd, groupWait, late
<1>8. Settled'
  BY <1>1, Zenon DEF Settled, Handling, Exited, cancel, Shutdown, laneWait, rangeEnd, groupWait, tcp
<1> QED BY <1>3, <1>4, <1>5, <1>6, <1>7, <1>8, Zenon DEF XIInv

\* lane.Close takes the table: the sessions in it are those it is to finalize.
LEMMA TakeKeeps ==
  ASSUME XIInv, ~Exited, laneTake
  PROVE  XIInv'
<1>1. /\ stopper' = "finalize" /\ todo' = {table[a] : a \in Addrs} \ {0} /\ table' = [a \in Addrs |-> 0]
      /\ UNCHANGED <<ctxDone, cause, tcp, conn, addr, pipe, quiet, once, backend, active, runner, late>>
  BY Zenon DEF laneTake
<1>2. 0 \in 0 .. MaxSessions
  BY TransitAssumption
<1>3. XTypes'
  BY <1>1, <1>2, Zenon DEF XIInv, XTypes, tcp
<1>4. Unhandled' /\ Sockets' /\ Finalizing' /\ SessionsCounted'
  BY <1>1, Zenon DEF XIInv, Unhandled, Sockets, Finalizing, SessionsCounted, Handling, tcp
<1>5. Known'
  <2>1. \A s \in todo' : s \in Sessions /\ pipe[s] # "none"
    BY <1>1, SessionFacts DEF XIInv, XTypes, Known
  <2> QED BY <1>1, <2>1, Zenon DEF XIInv, Known
<1>6. Reached' /\ Awaited' /\ Settled' /\ LiveInTable'
  BY <1>1, Zenon DEF XIInv, Reached, Awaited, Settled, LiveInTable, RangeBegun
<1> QED BY <1>3, <1>4, <1>5, <1>6, Zenon DEF XIInv

\* lane.Close finalizes a session, unless someone else has.
LEMMA LaneKeeps ==
  ASSUME XIInv, ~Exited, NEW s \in Sessions, laneFinalize(s)
  PROVE  XIInv'
<1>1. /\ stopper = "finalize" /\ s \in todo /\ todo' = todo \ {s} /\ once[s] # "begun"
      /\ UNCHANGED <<ctxDone, cause, stopper, tcp, conn, table, addr, pipe, quiet, runner, late>>
  BY Zenon DEF laneFinalize
<1>2. pipe[s] # "none" /\ once[s] \in {"no", "begun", "done"}
  BY <1>1, Zenon DEF XIInv, XTypes, Known
<1>3. Known'
  BY <1>1, Zenon DEF XIInv, Known
<1>4. Unhandled' /\ Reached' /\ Awaited' /\ Settled'
  BY <1>1, Zenon DEF XIInv, Unhandled, Reached, Awaited, Settled, RangeBegun, Running, Handling, tcp, late
<1>5. CASE once[s] = "no"
  <2>1. finalizeSession(s) /\ s \in backend
    BY <1>2, <1>5, Zenon DEF laneFinalize, XIInv, Sockets
  <2>2. /\ backend' \subseteq Sessions /\ once' \in [Sessions -> {"no", "begun", "done"}]
        /\ Sockets' /\ LiveInTable' /\ SessionsCounted'
        /\ once'[s] = "done" /\ \A r \in Sessions : r # s => once'[r] = once[r]
    BY <1>1, <2>1, FinalizeFacts, Zenon
  <2>3. XTypes'
    BY <1>1, <2>2, Zenon DEF XIInv, XTypes, tcp
  <2>4. Finalizing'
    BY <1>1, <1>5, <2>2, Zenon DEF XIInv, Finalizing, Known
  <2> QED BY <1>3, <1>4, <2>2, <2>3, <2>4, Zenon DEF XIInv
<1>6. CASE once[s] # "no"
  <2>1. UNCHANGED <<once, backend, active>>
    BY <1>6, Zenon DEF laneFinalize
  <2>2. XTypes' /\ Sockets' /\ Finalizing' /\ LiveInTable' /\ SessionsCounted'
    BY <1>1, <2>1, Zenon DEF XIInv, XTypes, Sockets, Finalizing, LiveInTable, SessionsCounted, tcp
  <2> QED BY <1>3, <1>4, <2>2, Zenon DEF XIInv
<1> QED BY <1>5, <1>6, Zenon

\* Range closes a tracked socket.
LEMMA RangeKeeps ==
  ASSUME XIInv, ~Exited, NEW c \in Conns, NEW side \in Sides, rangeClose(<<c, side>>)
  PROVE  XIInv'
<1>1. /\ stopper = "range" /\ open' = [open EXCEPT ![c] = @ \ {side}] /\ todo' = todo \ {<<c, side>>}
      /\ UNCHANGED <<ctxDone, cause, stopper, connHandler, copies, tracked, udp, late>>
  BY Zenon DEF rangeClose
<1>2. open[c] \in SUBSET Sides /\ open'[c] = open[c] \ {side} /\ \A b \in Conns : b # c => open'[b] = open[b]
  BY <1>1, Zenon DEF XIInv, XTypes
<1>3. XTypes'
  <2>1. open' \in [Conns -> SUBSET Sides]
    BY <1>1, <1>2, Zenon DEF XIInv, XTypes
  <2> QED BY <1>1, <2>1, Zenon DEF XIInv, XTypes, udp
<1>4. Unhandled'
  BY <1>1, <1>2, Zenon DEF XIInv, Unhandled, Handling
<1>5. Reached'
  BY <1>1, <1>2, Zenon DEF XIInv, Reached, RangeBegun, late
<1>6. Sockets' /\ Known' /\ Finalizing' /\ SessionsCounted'
  BY <1>1, Zenon DEF XIInv, Sockets, Known, Finalizing, SessionsCounted, udp
<1>7. Awaited' /\ Settled' /\ LiveInTable'
  BY <1>1, Zenon DEF XIInv, Awaited, Settled, LiveInTable, RangeBegun, Running, Handling, udp, late
<1> QED BY <1>3, <1>4, <1>5, <1>6, <1>7, Zenon DEF XIInv

-----------------------------------------------------------------------------
\* The inductive invariant holds at the start,
LEMMA XInitIInv == XInit => XIInv
<1> SUFFICES ASSUME XInit PROVE XIInv
  OBVIOUS
<1>1. 0 \in 0 .. MaxSessions /\ 0 \in 0 .. 2
  BY TransitAssumption
<1>2. runner.pc = "read" /\ runner \in [pc : RunnerPlaces, addr : Addrs \cup {"none"}, session : 0 .. MaxSessions]
  BY <1>1, Zenon DEF XInit, Idle, RunnerPlaces
<1>3. XTypes
  BY <1>1, <1>2, Zenon DEF XInit, XTypes, PipePlaces
<1>4. Unhandled /\ Reached /\ Settled /\ Awaited /\ LiveInTable
  BY Zenon DEF XInit, Unhandled, Reached, Settled, Awaited, LiveInTable, RangeBegun
<1>5. Sockets /\ Known /\ Finalizing
  BY <1>2, Zenon DEF XInit, Sockets, Known, Finalizing
<1>6. SessionsCounted
  BY FS_EmptySet, Zenon DEF XInit, SessionsCounted
<1> QED BY <1>3, <1>4, <1>5, <1>6, Zenon DEF XIInv

\* and every step keeps it.
LEMMA XStepIInv == XIInv /\ [XNext]_xvars => XIInv'
<1> SUFFICES ASSUME XIInv, [XNext]_xvars PROVE XIInv'
  OBVIOUS
<1>1. CASE UNCHANGED xvars
  <2>1. XTypes' /\ Unhandled' /\ Reached' /\ Settled'
    BY <1>1 DEF XIInv, XTypes, Unhandled, Reached, Settled, RangeBegun, Handling, xvars, shutdown, tcp, udp, late
  <2>2. Sockets' /\ Known' /\ Finalizing' /\ Awaited' /\ LiveInTable' /\ SessionsCounted'
    BY <1>1 DEF XIInv, Sockets, Known, Finalizing, Awaited, LiveInTable, SessionsCounted, RangeBegun, Running, xvars, shutdown, udp, late
  <2> QED BY <2>1, <2>2, Zenon DEF XIInv
<1>2. CASE ~Exited /\ (cancel \/ Shutdown \/ laneWait \/ rangeEnd \/ groupWait)
  BY <1>2, StopperKeeps, Zenon
<1>3. CASE ~Exited /\ laneTake
  BY <1>3, TakeKeeps, Zenon
<1>4. CASE ~Exited /\ \E s \in Sessions : laneFinalize(s)
  BY <1>4, LaneKeeps, Zenon
<1>5. CASE ~Exited /\ \E k \in Conns \X Sides : rangeClose(k)
  <2>1. PICK c \in Conns, side \in Sides : rangeClose(<<c, side>>)
    BY <1>5
  <2> QED BY <1>5, <2>1, RangeKeeps, Zenon
<1>6. CASE ~Exited /\ acceptLoop
  <2>1. PICK c \in Conns : TRUE
    BY <1>6, Zenon DEF acceptLoop
  <2> QED BY <1>6, <2>1, ConnKeeps, Zenon
<1>7. CASE ~Exited /\ Run
  BY <1>7, RunKeeps, Zenon
<1>8. CASE ~Exited /\ \E c \in Conns : handleTCPConn(c) \/ \E d \in Copies : copyStream(c, d)
  BY <1>8, ConnKeeps, Zenon
<1>9. CASE ~Exited /\ \E s \in Sessions : pipeBackendToClient(s)
  BY <1>9, PipesKeep, Zenon
<1> QED BY <1>1, <1>2, <1>3, <1>4, <1>5, <1>6, <1>7, <1>8, <1>9, Zenon DEF XNext, Stopping

\* What the invariant says of lane.Close's waiting and of Range.
LEMMA XIInvKept == XIInv => SessionsKept
<1> SUFFICES ASSUME XIInv PROVE SessionsKept
  OBVIOUS
<1>1. active \in 0 .. MaxSessions
  BY CountFacts, Zenon DEF XIInv, XTypes
<1>2. runner.pc \in RunnerPlaces
  BY Zenon DEF XIInv, XTypes
<1>3. XTypeOK
  BY <1>1, <1>2, Zenon DEF XIInv, XTypes, XTypeOK, PipePlaces, RunnerPlaces
<1>4. CleanReturn
  <2> SUFFICES ASSUME stopper = "returned" PROVE CleanReturn
    BY Zenon DEF CleanReturn
  <2>1. runner.pc = "returned" /\ \A c \in Conns : ~Handling(c) /\ open[c] = {}
    BY Zenon DEF XIInv, Settled, Unhandled
  <2>2. \A s \in Sessions : pipe[s] # "spawn" /\ (Running(s) => s \in lateSessions)
    BY <2>1, Zenon DEF XIInv, Awaited, RangeBegun
  <2>3. \A s \in Sessions : s \in backend => Running(s)
    BY <2>2 DEF XIInv, XTypes, PipePlaces, Sockets, Finalizing, Running
  <2> QED BY <2>1, <2>2, <2>3, Zenon DEF CleanReturn
<1>5. RangeReaches
  BY Zenon DEF XIInv, Reached, RangeReaches, RangeBegun
<1> QED BY <1>3, <1>4, <1>5, Zenon DEF XIInv, SessionsKept

\* The transit hop keeps its sessions: those that nobody closes are in the table
\* under their own address, closeSession by whoever calls it first removes no other
\* one, each is counted once, and a Shutdown that returns without an error leaves
\* only connections and sessions that came too late for it.
THEOREM TransitSessionsKept == XSpec => []SessionsKept
<1>1. XInit => XIInv
  BY XInitIInv, Zenon
<1>2. XIInv /\ [XNext]_xvars => XIInv'
  BY XStepIInv, Zenon
<1>3. XIInv => SessionsKept
  BY XIInvKept, Zenon
<1> QED BY <1>1, <1>2, <1>3, PTL DEF XSpec

-----------------------------------------------------------------------------
(* The flow cap.                                                           *)

Pending == {r \in Requests : pc[r] \in Admitted}
Relaying == {r \in Requests : pc[r] = "relay"}

\* A tick in the ticker's channel is younger than the one being handled.
LoopInv == loop.pc \in {"probe", "probing", "stats"} => loop.next < loop.now

\* What the requests with an old reading of the clock may have cost in this second.
Cost == stale * (CapNew + 1)

\* What was granted in this second is, up to that cost, what the cap's window has
\* counted; a window of another second has counted nothing of it.
GrantedInv ==
  /\ ~cap.on => granted = 0
  /\ cap.on /\ cap.window # 0 => granted <= Cost
  /\ cap.on /\ cap.window = 0 => granted <= Cost + cap.opened

CapInv == FTypeOK /\ LoopInv /\ PermitsExact /\ CapKept /\ GrantedInv

-----------------------------------------------------------------------------
(* The sets of requests that hold a permit or are relayed.                 *)

LEMMA PendingFinite == IsFiniteSet(Pending) /\ Cardinality(Pending) \in Nat
<1>1. Pending \subseteq Requests  BY Zenon DEF Pending
<1>2. IsFiniteSet(Pending)  BY <1>1, FlowCapAssumption, FS_Subset, Zenon
<1>. QED  BY <1>2, FS_CardinalityType, Zenon

LEMMA CostFacts ==
  ASSUME FTypeOK
  PROVE  /\ CapNew \in Nat /\ MaxStale \in Nat /\ stale \in Nat /\ granted \in Nat /\ Cost \in Nat
         /\ (stale + 1) * (CapNew + 1) = Cost + CapNew + 1
<1>1. CapNew \in Nat /\ MaxStale \in Nat /\ stale \in Nat /\ granted \in Nat  BY FlowCapAssumption, Zenon DEF FTypeOK
<1>2. \A m, n \in Nat : m * (n + 1) \in Nat /\ (m + 1) * (n + 1) = m * (n + 1) + n + 1  OBVIOUS
<1>. QED  BY <1>1, <1>2, Zenon DEF Cost

LEMMA FlowsFinite == ASSUME FTypeOK PROVE IsFiniteSet(flows) /\ Cardinality(flows) \in Nat
<1>1. IsFiniteSet(flows)  BY FlowCapAssumption, FS_Subset, Zenon DEF FTypeOK
<1>. QED  BY <1>1, FS_CardinalityType, Zenon

\* A request takes a permit, keeps what it has, or gives its permit up.
LEMMA GoPending ==
  ASSUME FTypeOK, NEW r \in Requests, NEW from, NEW to, Go(r, from, to)
  PROVE  /\ from \notin Admitted /\ to \in Admitted => Cardinality(Pending') = Cardinality(Pending) + 1
         /\ (from \in Admitted <=> to \in Admitted) => Cardinality(Pending') = Cardinality(Pending)
         /\ from \in Admitted /\ to \notin Admitted =>
              Cardinality(Pending') = Cardinality(Pending) - 1 /\ Cardinality(Pending) > 0
<1>1. pc[r] = from /\ pc' = [pc EXCEPT ![r] = to] /\ pc'[r] = to /\ \A q \in Requests \ {r} : pc'[q] = pc[q]
  BY Zenon DEF Go, FTypeOK
<1>2. CASE from \notin Admitted /\ to \in Admitted
  <2>1. Pending' = Pending \cup {r} /\ r \notin Pending  BY <1>1, <1>2, Zenon DEF Pending, Admitted
  <2>. QED  BY <1>2, <2>1, PendingFinite, FS_AddElement, Zenon
<1>3. CASE from \in Admitted <=> to \in Admitted
  <2>1. Pending' = Pending  BY <1>1, <1>3, Zenon DEF Pending, Admitted
  <2>. QED  BY <1>3, <2>1, Zenon
<1>4. CASE from \in Admitted /\ to \notin Admitted
  <2>1. Pending' = Pending \ {r} /\ r \in Pending  BY <1>1, <1>4, Zenon DEF Pending, Admitted
  <2>2. Cardinality(Pending') = Cardinality(Pending) - 1  BY <2>1, PendingFinite, FS_RemoveElement, Zenon
  <2>3. Cardinality(Pending) # 0  BY <2>1, PendingFinite, FS_EmptySet, Zenon
  <2>. QED  BY <1>4, <2>2, <2>3, PendingFinite
<1>. QED  BY <1>2, <1>3, <1>4, Zenon

LEMMA GoRelaying ==
  ASSUME FTypeOK, NEW r \in Requests, NEW from, NEW to, Go(r, from, to)
  PROVE  /\ from # "relay" /\ to # "relay" => Relaying' = Relaying
         /\ to = "relay" => Relaying' = Relaying \cup {r}
         /\ from = "relay" /\ to # "relay" => Relaying' = Relaying \ {r}
BY DEF Go, FTypeOK, Relaying

\* The values of pc that a request may take
LEMMA GoType ==
  ASSUME FTypeOK, NEW r \in Requests, NEW from, NEW to \in {"start", "admit", "wait", "relay", "done"} \cup Admitted, Go(r, from, to)
  PROVE  pc' \in [Requests -> {"start", "admit", "wait", "relay", "done"} \cup Admitted]
BY Zenon DEF Go, FTypeOK

-----------------------------------------------------------------------------
(* Every step preserves the invariant.                                     *)

LEMMA CapInitInv == FInit => CapInv
<1> SUFFICES ASSUME FInit PROVE CapInv  OBVIOUS
<1>1. FTypeOK
  BY FlowCapAssumption DEF FInit, FTypeOK, NoCap, Waiting, Admitted
<1>2. Pending = {} /\ Relaying = {}  BY Zenon DEF FInit, Pending, Relaying, Admitted
<1>3. PermitsExact  BY <1>2, FS_EmptySet, Zenon DEF FInit, PermitsExact, Pending, Relaying
<1>. QED  BY <1>1, <1>3, Zenon DEF FInit, CapInv, LoopInv, CapKept, GrantedInv, NoCap, Waiting

\* A request whose sum of flows and permits does not grow, and that leaves the
\* cap and the loop alone.
LEMMA CapAside ==
  ASSUME CapInv, FTypeOK', PermitsExact',
         UNCHANGED <<cap, measuring, loop, rate>>,
         Cardinality(flows') + permits' <= Cardinality(flows) + permits
  PROVE  CapInv'
<1>1. Cardinality(flows) + permits \in Nat /\ Cardinality(flows') + permits' \in Nat
  <2>1. Cardinality(flows) \in Nat /\ permits \in Nat  BY FlowsFinite, Zenon DEF CapInv, FTypeOK
  <2>2. IsFiniteSet(flows') /\ permits' \in Nat  BY FlowCapAssumption, FS_Subset, Zenon DEF FTypeOK
  <2>3. Cardinality(flows') \in Nat  BY <2>2, FS_CardinalityType, Zenon
  <2>. QED  BY <2>1, <2>2, <2>3
<1>2. CapKept'  BY <1>1 DEF CapInv, CapKept, FTypeOK
<1>. QED  BY <1>2, Zenon DEF CapInv, LoopInv, GrantedInv, Cost, rate

\* A request that keeps the permit it has, or keeps to have none.
LEMMA KeepStep ==
  ASSUME CapInv, NEW r \in Requests, NEW from, NEW to \in {"admit", "wait", "done"} \cup Admitted, Go(r, from, to),
         from # "relay", from \in Admitted <=> to \in Admitted,
         UNCHANGED <<flows, permits, cap, measuring, loop, read, rate>>
  PROVE  CapInv'
<1>1. FTypeOK  BY Zenon DEF CapInv
<1>2. FTypeOK'  BY <1>1, GoType, Zenon DEF FTypeOK, measuring, rate
<1>3. Cardinality(Pending') = Cardinality(Pending)  BY <1>1, GoPending, Zenon
<1>4. Relaying' = Relaying
  <2>1. to # "relay"  BY Zenon DEF Admitted
  <2>. QED  BY <1>1, <2>1, GoRelaying, Zenon
<1>5. PermitsExact'  BY <1>3, <1>4, Zenon DEF CapInv, PermitsExact, Pending, Relaying
<1>6. Cardinality(flows') + permits' <= Cardinality(flows) + permits
  BY <1>1, FlowsFinite DEF FTypeOK
<1>. QED  BY <1>2, <1>5, <1>6, CapAside, Zenon

\* A request that fails and gives its permit up.
LEMMA ReleaseStep ==
  ASSUME CapInv, NEW r \in Requests, NEW from \in Admitted, Go(r, from, "done"), releaseFlowPermit,
         UNCHANGED <<flows, cap, measuring, loop, read, rate>>
  PROVE  CapInv'
<1>1. FTypeOK  BY Zenon DEF CapInv
<1>2. permits \in Nat /\ permits = Cardinality(Pending) /\ flows = Relaying
  BY Zenon DEF CapInv, FTypeOK, PermitsExact, Pending, Relaying
<1>3. "done" \notin Admitted /\ from # "relay"  BY Zenon DEF Admitted
<1>4. Cardinality(Pending') = permits - 1 /\ permits > 0  BY <1>1, <1>2, <1>3, GoPending, Zenon
<1>5. permits' = permits - 1  BY <1>4, Zenon DEF releaseFlowPermit
<1>6. FTypeOK'  BY <1>1, <1>2, <1>4, <1>5, GoType DEF FTypeOK, measuring, rate
<1>7. Relaying' = Relaying  BY <1>1, <1>3, GoRelaying
<1>8. PermitsExact'  BY <1>2, <1>4, <1>5, <1>7, Zenon DEF PermitsExact, Pending, Relaying
<1>9. Cardinality(flows') + permits' <= Cardinality(flows) + permits
  BY <1>1, <1>2, <1>5, FlowsFinite
<1>. QED  BY <1>6, <1>8, <1>9, CapAside, Zenon

\* registerFlow: the permit becomes a flow.
LEMMA RegisterStep == ASSUME CapInv, NEW r \in Requests, registerFlow(r) PROVE CapInv'
<1>1. FTypeOK /\ Go(r, "register", "relay") /\ flows' = flows \cup {r}
  BY Zenon DEF CapInv, registerFlow
<1>2. permits \in Nat /\ permits = Cardinality(Pending) /\ flows = Relaying
  BY Zenon DEF CapInv, FTypeOK, PermitsExact, Pending, Relaying
<1>3. "register" \in Admitted /\ "relay" \notin Admitted  BY Zenon DEF Admitted
<1>4. Cardinality(Pending') = permits - 1 /\ permits > 0  BY <1>1, <1>2, <1>3, GoPending, Zenon
<1>5. permits' = permits - 1  BY <1>4, Zenon DEF registerFlow, releaseFlowPermit
<1>6. FTypeOK'  BY <1>1, <1>2, <1>4, <1>5, GoType DEF FTypeOK, registerFlow, measuring, rate
<1>7. Relaying' = flows'  BY <1>1, <1>2, GoRelaying, Zenon
<1>8. PermitsExact'  BY <1>4, <1>5, <1>7, Zenon DEF PermitsExact, Pending, Relaying
<1>9. Cardinality(flows') + permits' <= Cardinality(flows) + permits
  <2>1. r \notin flows  BY <1>1, <1>2, Zenon DEF Go, Relaying
  <2>2. Cardinality(flows') = Cardinality(flows) + 1  BY <1>1, <2>1, FlowsFinite, FS_AddElement, Zenon
  <2>. QED  BY <1>1, <1>2, <1>5, <2>2, FlowsFinite
<1>. QED  BY <1>6, <1>8, <1>9, CapAside, Zenon DEF registerFlow

LEMMA UnregisterStep == ASSUME CapInv, NEW r \in Requests, unregisterFlow(r) PROVE CapInv'
<1>1. FTypeOK /\ Go(r, "relay", "done") /\ flows' = flows \ {r} /\ permits' = permits
  BY Zenon DEF CapInv, unregisterFlow
<1>2. permits \in Nat /\ permits = Cardinality(Pending) /\ flows = Relaying
  BY Zenon DEF CapInv, FTypeOK, PermitsExact, Pending, Relaying
<1>3. "done" \notin Admitted /\ "relay" \notin Admitted  BY Zenon DEF Admitted
<1>4. Cardinality(Pending') = permits  BY <1>1, <1>2, <1>3, GoPending, Zenon
<1>5. FTypeOK'  BY <1>1, GoType, Zenon DEF FTypeOK, unregisterFlow, measuring, rate
<1>6. Relaying' = flows'  BY <1>1, <1>2, GoRelaying
<1>7. PermitsExact'  BY <1>1, <1>4, <1>6, Zenon DEF PermitsExact, Pending, Relaying
<1>8. Cardinality(flows') + permits' <= Cardinality(flows) + permits
  <2>1. Cardinality(flows') <= Cardinality(flows) /\ Cardinality(flows') \in Nat
    <3>1. flows' \subseteq flows  BY <1>1, Zenon
    <3>. QED  BY <1>1, <3>1, FlowsFinite, FS_Subset, FS_CardinalityType, Zenon
  <2>. QED  BY <1>1, <1>2, <2>1, FlowsFinite
<1>. QED  BY <1>5, <1>7, <1>8, CapAside, Zenon DEF unregisterFlow

\* What a request's section leaves in the window, when the cap is enabled.
LEMMA WindowStep ==
  ASSUME CapInv, cap.on, NEW r \in Requests, NEW n \in {0, 1}, Opened(r) + n <= CapNew,
         cap' = [cap EXCEPT !.window = read[r], !.opened = Opened(r) + n],
         granted' = granted + n,
         stale' = IF read[r] > 0 THEN stale + 1 ELSE stale
  PROVE  /\ cap' \in [on : BOOLEAN, active : Nat, opened : 0 .. CapNew, window : 0 .. MaxStale + 1]
         /\ cap'.on /\ cap'.active = cap.active /\ granted' \in Nat /\ stale' \in Nat /\ GrantedInv'
<1>1. FTypeOK /\ GrantedInv  BY Zenon DEF CapInv
<1>2. /\ read[r] \in 0 .. MaxStale /\ cap.opened \in 0 .. CapNew /\ cap.window \in 0 .. MaxStale + 1
      /\ cap.active \in Nat /\ cap.on \in BOOLEAN
  BY <1>1, Zenon DEF FTypeOK
<1>3. Opened(r) \in 0 .. CapNew  BY <1>1, <1>2, CostFacts DEF Opened
<1>4. Opened(r) + n \in 0 .. CapNew /\ read[r] \in 0 .. MaxStale + 1 /\ granted' \in Nat /\ stale' \in Nat
  BY <1>1, <1>2, <1>3, CostFacts
<1>5. cap' \in [on : BOOLEAN, active : Nat, opened : 0 .. CapNew, window : 0 .. MaxStale + 1]
  BY <1>1, <1>4, Zenon DEF FTypeOK
<1>6. cap'.on /\ cap'.active = cap.active /\ cap'.window = read[r] /\ cap'.opened = Opened(r) + n
  BY <1>1, <1>4, Zenon DEF FTypeOK
<1>7. CASE read[r] = 0
  <2>1. stale' = stale  BY <1>7
  <2>2. Cost' = Cost  BY <2>1, Zenon DEF Cost
  <2>3. granted <= Cost + Opened(r)
    <3>1. CASE cap.window = 0  BY <1>1, <1>7, <3>1, Zenon DEF GrantedInv, Opened
    <3>2. CASE cap.window # 0
      <4>1. granted <= Cost  BY <1>1, <3>2, Zenon DEF GrantedInv
      <4>. QED  BY <1>1, <1>3, <4>1, CostFacts
    <3>. QED  BY <3>1, <3>2, Zenon
  <2>4. granted' <= Cost' + cap'.opened  BY <1>1, <1>3, <1>6, <2>2, <2>3, CostFacts
  <2>5. GrantedInv'  BY <1>6, <1>7, <2>4, Zenon DEF GrantedInv
  <2>. QED  BY <1>4, <1>5, <1>6, <2>5, Zenon
<1>8. CASE read[r] # 0
  <2>1. stale' = stale + 1  BY <1>2, <1>8
  <2>2. Cost' = (stale + 1) * (CapNew + 1)  BY <2>1, Zenon DEF Cost
  <2>3. Cost' = Cost + CapNew + 1  BY <1>1, <2>2, CostFacts, Zenon
  <2>4. granted <= Cost + CapNew  BY <1>1, <1>2, CostFacts DEF GrantedInv
  <2>5. granted' <= Cost'  BY <1>1, <2>3, <2>4, CostFacts
  <2>6. GrantedInv'  BY <1>6, <1>8, <2>5, Zenon DEF GrantedInv
  <2>. QED  BY <1>4, <1>5, <1>6, <2>6, Zenon
<1>. QED  BY <1>7, <1>8, Zenon

\* acquireFlowPermit: under the cap there is room for one more, in number and in
\* the second that the request has read, or it waits.
LEMMA AcquireStep == ASSUME CapInv, NEW r \in Requests, acquireFlowPermit(r) PROVE CapInv'
<1>1. FTypeOK /\ UNCHANGED <<flows, measuring, loop>> /\ read' = [read EXCEPT ![r] = 0]
  BY Zenon DEF CapInv, acquireFlowPermit
<1>2. permits \in Nat /\ permits = Cardinality(Pending) /\ flows = Relaying /\ Cardinality(flows) \in Nat
  BY <1>1, FlowsFinite, Zenon DEF CapInv, FTypeOK, PermitsExact, Pending, Relaying
<1>3. "admit" \notin Admitted /\ "wait" \notin Admitted /\ "dial" \in Admitted  BY Zenon DEF Admitted
<1>4. LoopInv'  BY <1>1, Zenon DEF CapInv, LoopInv
<1>5. read' \in [Requests -> 0 .. MaxStale]
  <2>1. 0 \in 0 .. MaxStale  BY <1>1, CostFacts
  <2>. QED  BY <1>1, <2>1, Zenon DEF FTypeOK
<1>6. ASSUME permit(r)
      PROVE  /\ PermitsExact' /\ permits' = permits + 1 /\ permits' \in Nat
             /\ pc' \in [Requests -> {"start", "admit", "wait", "relay", "done"} \cup Admitted]
  <2>0. Go(r, "admit", "dial") /\ permits' = permits + 1  BY <1>6, Zenon DEF permit
  <2>1. Cardinality(Pending') = permits'  BY <1>1, <1>2, <1>3, <2>0, GoPending, Zenon
  <2>2. Relaying' = flows'  BY <1>1, <1>2, <2>0, GoRelaying
  <2>3. PermitsExact'  BY <2>1, <2>2, Zenon DEF PermitsExact, Pending, Relaying
  <2>4. permits' \in Nat  BY <1>2, <2>0
  <2>. QED  BY <1>1, <1>3, <2>0, <2>3, <2>4, GoType, Zenon
<1>7. CASE ~cap.on /\ permit(r) /\ UNCHANGED <<cap, rate>>
  <2>1. FTypeOK'  BY <1>1, <1>5, <1>6, <1>7, Zenon DEF FTypeOK, measuring, rate
  <2>. QED  BY <1>4, <1>6, <1>7, <2>1, Zenon DEF CapInv, CapKept, GrantedInv, Cost, rate
<1>8. CASE cap.on /\ canOpen(r)
  <2>1. /\ permit(r) /\ granted' = granted + 1
        /\ cap' = [cap EXCEPT !.window = read[r], !.opened = Opened(r) + 1]
        /\ stale' = IF read[r] > 0 THEN stale + 1 ELSE stale
    BY <1>8, Zenon DEF acquireFlowPermit
  <2>2. Opened(r) + 1 <= CapNew
    <3>1. Opened(r) \in 0 .. CapNew /\ Opened(r) < CapNew  BY <1>1, <1>8, CostFacts DEF FTypeOK, Opened, canOpen
    <3>. QED  BY <1>1, <3>1, CostFacts
  <2>3. /\ cap' \in [on : BOOLEAN, active : Nat, opened : 0 .. CapNew, window : 0 .. MaxStale + 1]
        /\ cap'.on /\ cap'.active = cap.active /\ granted' \in Nat /\ stale' \in Nat /\ GrantedInv'
    BY <1>8, <2>1, <2>2, WindowStep, Zenon
  <2>4. FTypeOK'  BY <1>1, <1>5, <1>6, <2>1, <2>3, Zenon DEF FTypeOK, measuring
  <2>5. CapKept'
    <3>1. Cardinality(flows) + permits < cap.active /\ cap.active \in Nat
      BY <1>1, <1>8, Zenon DEF canOpen, FTypeOK
    <3>2. permits' = permits + 1  BY <1>6, <2>1, Zenon
    <3>. QED  BY <1>1, <1>2, <2>3, <3>1, <3>2 DEF CapKept
  <2>. QED  BY <1>4, <1>6, <2>1, <2>3, <2>4, <2>5, Zenon DEF CapInv
<1>9. CASE cap.on /\ ~canOpen(r)
  <2>1. /\ Go(r, "admit", "wait") /\ permits' = permits /\ granted' = granted
        /\ cap' = [cap EXCEPT !.window = read[r], !.opened = Opened(r)]
        /\ stale' = IF read[r] > 0 THEN stale + 1 ELSE stale
    BY <1>9, Zenon DEF acquireFlowPermit
  <2>2. Opened(r) \in 0 .. CapNew  BY <1>1, CostFacts DEF FTypeOK, Opened
  <2>3. Opened(r) + 0 = Opened(r) /\ granted + 0 = granted /\ Opened(r) <= CapNew  BY <1>1, <2>2, CostFacts
  <2>4. /\ cap' \in [on : BOOLEAN, active : Nat, opened : 0 .. CapNew, window : 0 .. MaxStale + 1]
        /\ cap'.on /\ cap'.active = cap.active /\ granted' \in Nat /\ stale' \in Nat /\ GrantedInv'
    <3>1. /\ Opened(r) + 0 <= CapNew /\ granted' = granted + 0
          /\ cap' = [cap EXCEPT !.window = read[r], !.opened = Opened(r) + 0]
      BY <2>1, <2>3, Zenon
    <3>2. 0 \in {0, 1}  OBVIOUS
    <3>. QED  BY <1>9, <2>1, <3>1, <3>2, WindowStep, Zenon
  <2>5. pc' \in [Requests -> {"start", "admit", "wait", "relay", "done"} \cup Admitted]
    BY <1>1, <2>1, GoType, Zenon
  <2>6. FTypeOK'  BY <1>1, <1>5, <2>1, <2>4, <2>5, Zenon DEF FTypeOK, measuring
  <2>7. PermitsExact'
    <3>1. Cardinality(Pending') = Cardinality(Pending)  BY <1>1, <1>3, <2>1, GoPending, Zenon
    <3>2. Relaying' = Relaying  BY <1>1, <2>1, GoRelaying
    <3>. QED  BY <1>1, <1>2, <2>1, <3>1, <3>2, Zenon DEF PermitsExact, Pending, Relaying
  <2>8. CapKept'  BY <1>1, <1>9, <2>1, <2>4, Zenon DEF CapInv, CapKept
  <2>. QED  BY <1>4, <2>4, <2>6, <2>7, <2>8, Zenon DEF CapInv
<1>. QED  BY <1>7, <1>8, <1>9, Zenon DEF acquireFlowPermit

LEMMA RequestStep == ASSUME CapInv, NEW r \in Requests, handleConnect(r) PROVE CapInv'
<1>0. /\ {"dial", "open", "reply", "register"} \subseteq Admitted
      /\ \A p \in {"start", "admit", "wait", "relay", "done"} : p \notin Admitted
  BY Zenon DEF Admitted
<1>r. CASE readClock(r)
  <2>1. CASE Go(r, "start", "admit")  BY <1>0, <1>r, <2>1, KeepStep, Zenon DEF readClock
  <2>2. CASE Go(r, "wait", "admit")  BY <1>0, <1>r, <2>2, KeepStep, Zenon DEF readClock
  <2>. QED  BY <1>r, <2>1, <2>2, Zenon DEF readClock
<1>1. CASE acquireFlowPermit(r)  BY <1>1, AcquireStep, Zenon
<1>2. CASE admissionDenied(r)  BY <1>0, <1>2, KeepStep, Zenon DEF admissionDenied
<1>3. CASE dialSession(r)
  <2>1. CASE Go(r, "dial", "open") /\ UNCHANGED permits  BY <1>0, <1>3, <2>1, KeepStep, Zenon DEF dialSession
  <2>2. CASE Go(r, "dial", "done") /\ releaseFlowPermit  BY <1>0, <1>3, <2>2, ReleaseStep, Zenon DEF dialSession
  <2>. QED  BY <1>3, <2>1, <2>2, Zenon DEF dialSession
<1>4. CASE OpenFlow(r)
  <2>1. CASE Go(r, "open", "reply") /\ UNCHANGED permits  BY <1>0, <1>4, <2>1, KeepStep, Zenon DEF OpenFlow
  <2>2. CASE Go(r, "open", "register") /\ UNCHANGED permits  BY <1>0, <1>4, <2>2, KeepStep, Zenon DEF OpenFlow
  <2>3. CASE Go(r, "open", "done") /\ releaseFlowPermit  BY <1>0, <1>4, <2>3, ReleaseStep, Zenon DEF OpenFlow
  <2>. QED  BY <1>4, <2>1, <2>2, <2>3, Zenon DEF OpenFlow
<1>5. CASE writeSocksReply(r)
  <2>1. CASE Go(r, "reply", "register") /\ UNCHANGED permits  BY <1>0, <1>5, <2>1, KeepStep, Zenon DEF writeSocksReply
  <2>2. CASE Go(r, "reply", "done") /\ releaseFlowPermit  BY <1>0, <1>5, <2>2, ReleaseStep DEF writeSocksReply
  <2>. QED  BY <1>5, <2>1, <2>2, Zenon DEF writeSocksReply
<1>6. CASE registerFlow(r)  BY <1>6, RegisterStep, Zenon
<1>7. CASE unregisterFlow(r)  BY <1>7, UnregisterStep, Zenon
<1>. QED  BY <1>r, <1>1, <1>2, <1>3, <1>4, <1>5, <1>6, <1>7, Zenon DEF handleConnect

\* The loop's steps other than its statistics.
LEMMA LoopStep ==
  ASSUME CapInv, loop' \in [pc : {"wait", "probe", "probing", "stats", "done"}, now : 0 .. MaxLate,
                          next : -1 .. MaxLate, sampled : BOOLEAN],
         LoopInv', UNCHANGED <<flows, permits, cap, high, low, statsAge, pc, read, rate>>
  PROVE  CapInv'
BY Zenon DEF CapInv, FTypeOK, PermitsExact, CapKept, GrantedInv, Cost, rate

LEMMA TickStep == ASSUME CapInv, ticker PROVE CapInv'
<1>1. FTypeOK /\ LoopInv /\ MaxLate \in Nat /\ StatsInterval \in Nat  BY FlowCapAssumption, Zenon DEF CapInv
<1>2. /\ loop' \in [pc : {"wait", "probe", "probing", "stats", "done"}, now : 0 .. MaxLate,
                     next : -1 .. MaxLate, sampled : BOOLEAN]
      /\ LoopInv'
  <2>1. CASE loop.pc = "wait" /\ loop.next = -1 /\ loop' = [loop EXCEPT !.pc = "probe"]
    BY <1>1, <2>1 DEF FTypeOK, LoopInv
  <2>2. CASE /\ loop.pc = "probing" /\ loop.now < MaxLate
             /\ loop' = [loop EXCEPT !.now = @ + 1, !.next = @ + 1]
    <3>1. loop.now \in Int /\ loop.next \in Int /\ loop.next < loop.now /\ loop.now >= 0 /\ loop.next >= -1
      BY <1>1, <2>2 DEF FTypeOK, LoopInv
    <3>2. loop.now + 1 \in 0 .. MaxLate /\ loop.next + 1 \in -1 .. MaxLate  BY <1>1, <2>2, <3>1
    <3>3. loop' = [loop EXCEPT !.now = loop.now + 1, !.next = loop.next + 1]  BY <2>2, Zenon
    <3>4. loop'.now = loop.now + 1 /\ loop'.next = loop.next + 1  BY <1>1, <3>3, Zenon DEF FTypeOK
    <3>5. LoopInv'  BY <3>1, <3>4 DEF LoopInv
    <3>6. loop' \in [pc : {"wait", "probe", "probing", "stats", "done"}, now : 0 .. MaxLate,
                     next : -1 .. MaxLate, sampled : BOOLEAN]
      BY <1>1, <3>2, <3>3, Zenon DEF FTypeOK
    <3>. QED  BY <3>5, <3>6, Zenon
  <2>3. CASE loop.pc = "done" /\ UNCHANGED loop  BY <1>1, <2>3, Zenon DEF FTypeOK, LoopInv
  <2>. QED  BY <2>1, <2>2, <2>3, Zenon DEF ticker
<1>3. statsAge' \in 0 .. StatsInterval + MaxLate  BY <1>1 DEF ticker, FTypeOK, AtMost
<1>4. /\ cap' \in [on : BOOLEAN, active : Nat, opened : 0 .. CapNew, window : 0 .. MaxStale + 1]
      /\ cap'.on = cap.on /\ cap'.active = cap.active /\ cap'.opened = cap.opened
  <2>1. AtMost(cap.window + 1, MaxStale + 1) \in 0 .. MaxStale + 1
    BY <1>1, CostFacts DEF FTypeOK, AtMost
  <2>2. cap' = [cap EXCEPT !.window = AtMost(cap.window + 1, MaxStale + 1)]  BY Zenon DEF ticker
  <2>. QED  BY <1>1, <2>1, <2>2, Zenon DEF FTypeOK
<1>5. /\ granted' = 0 /\ stale' = 0 /\ UNCHANGED <<flows, permits, high, low, pc>>
      /\ read' = [r \in Requests |-> IF pc[r] = "admit" THEN read[r] + 1 ELSE 0]
      /\ \A r \in Requests : pc[r] = "admit" => read[r] < MaxStale
  BY Zenon DEF ticker
<1>6. read' \in [Requests -> 0 .. MaxStale]
  <2>1. ASSUME NEW r \in Requests PROVE (IF pc[r] = "admit" THEN read[r] + 1 ELSE 0) \in 0 .. MaxStale
    <3>1. read[r] \in 0 .. MaxStale  BY <1>1, Zenon DEF FTypeOK
    <3>2. pc[r] = "admit" => read[r] < MaxStale  BY <1>5, Zenon
    <3>. QED  BY <1>1, <3>1, <3>2, CostFacts
  <2>. QED  BY <1>5, <2>1, Zenon
<1>7. FTypeOK'
  <2>1. granted' \in Nat /\ stale' \in Nat  BY <1>5
  <2>. QED  BY <1>1, <1>2, <1>3, <1>4, <1>5, <1>6, <2>1, Zenon DEF FTypeOK
<1>8. GrantedInv'
  <2>1. Cost' = 0  BY <1>1, <1>5, CostFacts DEF Cost
  <2>2. cap'.opened \in 0 .. CapNew  BY <1>4, Zenon
  <2>3. granted' <= Cost' /\ granted' <= Cost' + cap'.opened  BY <1>5, <2>1, <2>2
  <2>. QED  BY <1>5, <2>3, Zenon DEF GrantedInv
<1>. QED  BY <1>2, <1>4, <1>5, <1>7, <1>8, Zenon DEF CapInv, PermitsExact, CapKept

LEMMA TurnStep == ASSUME CapInv, nextTurn \/ Close \/ pickProbeClient \/ probeRTT PROVE CapInv'
<1>1. FTypeOK /\ LoopInv /\ MaxLate \in Nat  BY FlowCapAssumption, Zenon DEF CapInv
<1>2. CASE nextTurn
  <2>1. loop' = [pc |-> "probe", now |-> loop.next, next |-> -1, sampled |-> FALSE] /\ loop.next >= 0
    BY <1>2, Zenon DEF nextTurn, Waiting
  <2>2. loop.next \in 0 .. MaxLate  BY <1>1, <2>1 DEF FTypeOK
  <2>3. LoopInv'  BY <2>1, <2>2 DEF LoopInv
  <2>4. loop' \in [pc : {"wait", "probe", "probing", "stats", "done"}, now : 0 .. MaxLate,
                   next : -1 .. MaxLate, sampled : BOOLEAN]
    BY <1>1, <2>1, <2>2
  <2>. QED  BY <1>2, <2>3, <2>4, LoopStep, Zenon DEF nextTurn, measuring
<1>3. CASE Close
  <2>1. loop' = [pc |-> "done", now |-> 0, next |-> -1, sampled |-> FALSE]
    BY <1>3, Zenon DEF Close, Waiting
  <2>2. LoopInv'  BY <2>1, Zenon DEF LoopInv
  <2>3. loop' \in [pc : {"wait", "probe", "probing", "stats", "done"}, now : 0 .. MaxLate,
                   next : -1 .. MaxLate, sampled : BOOLEAN]
    BY <1>1, <2>1
  <2>. QED  BY <1>3, <2>2, <2>3, LoopStep, Zenon DEF Close, measuring
<1>4. CASE pickProbeClient
  <2>1. LoopInv'  BY <1>1, <1>4, Zenon DEF pickProbeClient, FTypeOK, LoopInv
  <2>2. loop' \in [pc : {"wait", "probe", "probing", "stats", "done"}, now : 0 .. MaxLate,
                   next : -1 .. MaxLate, sampled : BOOLEAN]
    BY <1>1, <1>4, Zenon DEF pickProbeClient, FTypeOK
  <2>. QED  BY <1>4, <2>1, <2>2, LoopStep, Zenon DEF pickProbeClient, measuring
<1>5. CASE probeRTT
  <2>0. PICK s \in BOOLEAN : loop' = [loop EXCEPT !.pc = "stats", !.sampled = s]
    <3>1. CASE loop' = [loop EXCEPT !.pc = "stats", !.sampled = TRUE]  BY <3>1, ZenonT(30)
    <3>2. CASE loop' = [loop EXCEPT !.pc = "stats"]
      BY <1>1, <3>2, Zenon DEF FTypeOK
    <3>. QED  BY <1>5, <3>1, <3>2, ZenonT(30) DEF probeRTT
  <2>1. LoopInv'
    <3>1. loop.pc = "probing" /\ loop'.now = loop.now /\ loop'.next = loop.next  BY <1>1, <1>5, <2>0, Zenon DEF probeRTT, FTypeOK
    <3>. QED  BY <1>1, <3>1, Zenon DEF LoopInv
  <2>2. loop' \in [pc : {"wait", "probe", "probing", "stats", "done"}, now : 0 .. MaxLate,
                   next : -1 .. MaxLate, sampled : BOOLEAN]
    BY <1>1, <2>0, Zenon DEF FTypeOK
  <2>. QED  BY <1>5, <2>1, <2>2, LoopStep, Zenon DEF probeRTT
<1>. QED  BY <1>2, <1>3, <1>4, <1>5, Zenon

\* Whatever the percentile, enabling the cap leaves room for the flows and the
\* permits there are, and a change of the cap begins a new count.
LEMMA AdaptStep ==
  ASSUME FTypeOK, CapKept, GrantedInv, UNCHANGED <<flows, permits, stale>>, NEW p95, updateAdaptiveCapLocked(p95)
  PROVE  /\ high' \in 0 .. CapEnable /\ low' \in 0 .. CapDisable
         /\ cap' \in [on : BOOLEAN, active : Nat, opened : 0 .. CapNew, window : 0 .. MaxStale + 1]
         /\ granted' \in Nat /\ CapKept' /\ GrantedInv'
<1>1. CapEnable \in Nat /\ CapDisable \in Nat /\ CapMargin \in Nat /\ CapNew \in Nat
  BY FlowCapAssumption, Zenon
<1>2. permits \in Nat /\ Cardinality(flows) \in Nat /\ granted \in Nat
  BY FlowsFinite, Zenon DEF FTypeOK
<1>3. high' \in 0 .. CapEnable
  <2>1. AtMost(high + 1, CapEnable) \in 0 .. CapEnable /\ 0 \in 0 .. CapEnable  BY <1>1 DEF FTypeOK, AtMost
  <2>2. high' = AtMost(high + 1, CapEnable) \/ high' = 0  BY Zenon DEF updateAdaptiveCapLocked
  <2>. QED  BY <2>1, <2>2, Zenon
<1>4. low' \in 0 .. CapDisable
  <2>1. AtMost(low + 1, CapDisable) \in 0 .. CapDisable /\ 0 \in 0 .. CapDisable  BY <1>1 DEF FTypeOK, AtMost
  <2>2. low' = AtMost(low + 1, CapDisable) \/ low' = 0  BY Zenon DEF updateAdaptiveCapLocked
  <2>. QED  BY <2>1, <2>2, Zenon
<1>5. granted' = IF cap'.on = cap.on THEN granted ELSE 0  BY Zenon DEF updateAdaptiveCapLocked
<1>6. CASE ~cap.on /\ high' = CapEnable
  <2>1. cap' = [on |-> TRUE, active |-> Cardinality(flows) + permits + CapMargin,
                opened |-> 0, window |-> AtMost(loop.now, MaxStale + 1)]
    BY <1>6, Zenon DEF updateAdaptiveCapLocked
  <2>2. granted' = 0  BY <1>5, <1>6, <2>1, Zenon DEF FTypeOK
  <2>3. cap' \in [on : BOOLEAN, active : Nat, opened : 0 .. CapNew, window : 0 .. MaxStale + 1]
    <3>1. AtMost(loop.now, MaxStale + 1) \in 0 .. MaxStale + 1  BY CostFacts DEF FTypeOK, AtMost
    <3>2. Cardinality(flows) + permits + CapMargin \in Nat /\ 0 \in 0 .. CapNew  BY <1>1, <1>2
    <3>. QED  BY <2>1, <3>1, <3>2, Zenon
  <2>4. cap'.active = Cardinality(flows) + permits + CapMargin /\ cap'.opened = 0  BY <2>1, Zenon
  <2>5. CapKept'  BY <1>1, <1>2, <2>4 DEF CapKept
  <2>6. Cost' = Cost /\ granted' \in Nat  BY <2>2 DEF Cost
  <2>7. granted' <= Cost' /\ granted' <= Cost' + cap'.opened  BY <2>2, <2>4, <2>6, CostFacts
  <2>8. GrantedInv'  BY <2>2, <2>7, Zenon DEF GrantedInv
  <2>. QED  BY <1>3, <1>4, <2>3, <2>5, <2>6, <2>8, Zenon
<1>7. CASE ~(~cap.on /\ high' = CapEnable) /\ cap.on /\ low' = CapDisable
  <2>1. cap' = [on |-> FALSE, active |-> 0, opened |-> 0, window |-> 0]
    BY <1>7, Zenon DEF updateAdaptiveCapLocked, NoCap
  <2>2. granted' = 0  BY <1>5, <1>7, <2>1, Zenon
  <2>. QED  BY <1>1, <1>3, <1>4, <2>1, <2>2, CostFacts DEF CapKept, GrantedInv
<1>8. CASE ~(~cap.on /\ high' = CapEnable) /\ ~(cap.on /\ low' = CapDisable)
  <2>1. cap' = cap  BY <1>8, Zenon DEF updateAdaptiveCapLocked
  <2>2. granted' = granted  BY <1>5, <2>1, Zenon
  <2>. QED  BY <1>3, <1>4, <1>2, <2>1, <2>2, Zenon DEF CapKept, GrantedInv, Cost, FTypeOK
<1>. QED  BY <1>6, <1>7, <1>8, Zenon

LEMMA StatsStep == ASSUME CapInv, printStats PROVE CapInv'
<1>1. FTypeOK /\ LoopInv /\ PermitsExact /\ CapKept /\ GrantedInv  BY Zenon DEF CapInv
<1>2. loop' = [pc |-> "wait", now |-> 0, next |-> loop.next, sampled |-> FALSE]
      /\ UNCHANGED <<flows, permits, pc, read, stale>>
  BY Zenon DEF printStats, Waiting
<1>3. loop' \in [pc : {"wait", "probe", "probing", "stats", "done"}, now : 0 .. MaxLate,
                 next : -1 .. MaxLate, sampled : BOOLEAN]
  BY <1>1, <1>2, FlowCapAssumption DEF FTypeOK
<1>4. LoopInv' /\ PermitsExact'  BY <1>1, <1>2, Zenon DEF LoopInv, PermitsExact
<1>5. CASE statsAge - loop.now >= StatsInterval
  <2>1. PICK p95 : updateAdaptiveCapLocked(p95)  BY <1>5, Zenon DEF printStats
  <2>2. statsAge' = loop.now  BY <1>5, Zenon DEF printStats
  <2>3. statsAge' \in 0 .. StatsInterval + MaxLate  BY <1>1, <2>2, FlowCapAssumption DEF FTypeOK
  <2>4. /\ high' \in 0 .. CapEnable /\ low' \in 0 .. CapDisable
        /\ cap' \in [on : BOOLEAN, active : Nat, opened : 0 .. CapNew, window : 0 .. MaxStale + 1]
        /\ granted' \in Nat /\ CapKept' /\ GrantedInv'
    BY <1>1, <1>2, <2>1, AdaptStep, Zenon
  <2>5. FTypeOK'  BY <1>1, <1>2, <1>3, <2>3, <2>4, Zenon DEF FTypeOK
  <2>. QED  BY <1>4, <2>4, <2>5, Zenon DEF CapInv
<1>6. CASE ~(statsAge - loop.now >= StatsInterval)
  <2>1. UNCHANGED <<statsAge, cap, high, low, granted>>  BY <1>6, Zenon DEF printStats
  <2>. QED  BY <1>1, <1>2, <1>3, <1>4, <2>1, Zenon DEF CapInv, FTypeOK, CapKept, GrantedInv, Cost
<1>. QED  BY <1>5, <1>6, Zenon

LEMMA CapStepInv == CapInv /\ [FNext]_fvars => CapInv'
<1> SUFFICES ASSUME CapInv, [FNext]_fvars PROVE CapInv'  OBVIOUS
<1>1. CASE ticker  BY <1>1, TickStep, Zenon
<1>2. CASE Close  BY <1>2, TurnStep, Zenon
<1>3. CASE Loop
  <2>1. CASE printStats  BY <2>1, StatsStep, Zenon
  <2>2. CASE nextTurn \/ pickProbeClient \/ probeRTT  BY <2>2, TurnStep, Zenon
  <2>. QED  BY <1>3, <2>1, <2>2, Zenon DEF Loop
<1>4. ASSUME NEW r \in Requests, handleConnect(r) PROVE CapInv'  BY <1>4, RequestStep, Zenon
<1>5. CASE UNCHANGED fvars
  BY <1>5, Zenon DEF fvars, measuring, rate, CapInv, FTypeOK, LoopInv, PermitsExact, CapKept, GrantedInv, Cost
<1>. QED  BY <1>1, <1>2, <1>3, <1>4, <1>5 DEF FNext

\* The inductive invariant of policyController's admission and its loop.
THEOREM CapIInvKept == FSpec => []CapInv
<1>1. FInit => CapInv  BY CapInitInv, Zenon
<1>2. CapInv /\ [FNext]_fvars => CapInv'  BY CapStepInv, Zenon
<1>. QED  BY <1>1, <1>2, PTL DEF FSpec

\* policyController keeps its counters within their ranges; in particular the
\* window never counts more than capMaxNewPerSec flows.
THEOREM CapTypeOK == FSpec => []FTypeOK
<1>1. CapInv => FTypeOK  BY Zenon DEF CapInv
<1>. QED  BY <1>1, CapIInvKept, PTL

\* For any requests, failing or not at any step, pendingPermits is the number of
\* those between acquireFlowPermit and registerFlow: no error path of
\* handleConnect keeps a permit or gives one up twice.
THEOREM CapPermitsExact == FSpec => []PermitsExact
<1>1. CapInv => PermitsExact  BY Zenon DEF CapInv
<1>. QED  BY <1>1, CapIInvKept, PTL

\* While the cap is enabled, flows and pending permits together are at most
\* capMaxActiveFlows, for any round-trip times and bounds of the cap.
THEOREM CapCapKept == FSpec => []CapKept
<1>1. CapInv => CapKept  BY Zenon DEF CapInv
<1>. QED  BY <1>1, CapIInvKept, PTL

\* acquireFlowPermit grants at most capMaxNewPerSec permits in a second of an enabled
\* cap, however late the loop's statistics enable it; every request that comes to its
\* section with a second read before adds at most as many, and one.
THEOREM CapRateKept == FSpec => []RateKept
<1>1. CapInv => RateKept
  <2>. SUFFICES ASSUME CapInv PROVE RateKept  OBVIOUS
  <2>1. FTypeOK /\ GrantedInv  BY Zenon DEF CapInv
  <2>2. granted <= CapNew + Cost  BY <2>1, CostFacts DEF FTypeOK, GrantedInv
  <2>. QED  BY <2>2, Zenon DEF RateKept, Cost
<1>. QED  BY <1>1, CapIInvKept, PTL

\* policyController admits exactly: its counts are those of the requests, their
\* number does not exceed an enabled cap, and their rate only by what requests with
\* an old reading of the clock cost.
THEOREM CapAdmission == FSpec => []Admission
<1>1. PermitsExact /\ CapKept /\ RateKept => Admission  BY Zenon DEF Admission
<1>. QED  BY <1>1, CapPermitsExact, CapCapKept, CapRateKept, PTL
=============================================================================
