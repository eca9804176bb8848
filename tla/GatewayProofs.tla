--------------------------- MODULE GatewayProofs ---------------------------
(* Proofs about the gateway process: its shutdown, for any lanes, sessions *)
(* and relay connections; the windows of its limits, for any lengths,      *)
(* limits and amounts; and the relay manager's slots, tables, store, wheel *)
(* and gauge, for any finite set of connections, clients and limits.       *)
EXTENDS RelayManager, Gateway, Limits, FiniteSetTheorems, TLAPS

MainType ==
  /\ main = [pc |-> main.pc, todo |-> main.todo, cur |-> main.cur]
  /\ main.pc \in {"select", "http", "relay", "relayClose", "listeners", "snapshot", "close", "store", "exit"}

-----------------------------------------------------------------------------
(* The relay.                                                              *)

RelayType == relay \in [Relays -> {"none", "request", "open", "stuck", "closed"}]

\* Behind stop no request begins; behind httpShutdown none is under way, unless it
\* gave up; and what is open behind the snapshot is still to be closed.
RelayPhase ==
  /\ main.pc # "select" => http # "open"
  /\ main.pc \in {"relay", "relayClose"} /\ http # "late" => \A r \in Relays : relay[r] # "request"
  /\ main.pc = "relayClose" /\ http # "late" => \A r \in Relays : relay[r] \in {"open", "stuck"} => r \in main.todo

RelayIInv == MainType /\ RelayType /\ RelayPhase /\ RelayLeftIsLate

\* Steps that are neither of main nor of the relay, and do not open the HTTP server
LEMMA RelayAside ==
  ASSUME RelayIInv, main' = main, relay' = relay, http' = http \/ (http' = "closed" /\ http = "open")
  PROVE  RelayIInv'
<1>1. MainType' /\ RelayType'
  BY Zenon DEF RelayIInv, MainType, RelayType
<1>2. http' # "late" <=> http # "late"
  OBVIOUS
<1>3. RelayPhase'
  BY <1>2, Zenon DEF RelayIInv, RelayPhase
<1>4. RelayLeftIsLate'
  BY <1>2, Zenon DEF RelayIInv, RelayLeftIsLate
<1> QED BY <1>1, <1>3, <1>4, Zenon DEF RelayIInv

\* A step of main that leaves the relay and the HTTP server alone and is behind
\* the Closes of the relay
LEMMA RelayBehind ==
  ASSUME RelayIInv, MainType', UNCHANGED <<relay, http>>,
         main.pc \in {"listeners", "snapshot", "close", "store"},
         main'.pc \in {"snapshot", "close", "store", "exit"}
  PROVE  RelayIInv'
<1>1. RelayPhase'
  BY Zenon DEF RelayIInv, RelayPhase
<1>2. RelayLeftIsLate'
  BY Zenon DEF RelayIInv, RelayLeftIsLate
<1> QED BY <1>1, <1>2, Zenon DEF RelayIInv, RelayType

LEMMA RelayMoves ==
  ASSUME RelayIInv, NEW r \in Relays, relayStep(r)
  PROVE  RelayIInv'
<1>1. PICK step \in {<<"none", "request">>, <<"request", "closed">>, <<"request", "open">>, <<"open", "stuck">>, <<"open", "closed">>} :
        /\ relay[r] = step[1] /\ relay' = [relay EXCEPT ![r] = step[2]]
        /\ step[1] = "none" => http = "open"
  BY Zenon DEF relayStep
<1>2. UNCHANGED <<main, http>>
  BY Zenon DEF relayStep
<1>3. MainType' /\ RelayType'
  BY <1>1, <1>2 DEF RelayIInv, MainType, RelayType
<1>4. \A q \in Relays : relay'[q] = IF q = r THEN step[2] ELSE relay[q]
  BY <1>1, Zenon DEF RelayIInv, RelayType
<1>5. RelayPhase'
  BY <1>1, <1>2, <1>4 DEF RelayIInv, RelayPhase
<1>6. RelayLeftIsLate'
  BY <1>1, <1>2, <1>4 DEF RelayIInv, RelayLeftIsLate, RelayPhase
<1> QED BY <1>3, <1>5, <1>6, Zenon DEF RelayIInv

LEMMA RelayMain ==
  ASSUME RelayIInv, mainSteps
  PROVE  RelayIInv'
<1>1. CASE stop
  <2>1. main.pc = "select" /\ main' = [pc |-> "http", todo |-> main.todo, cur |-> main.cur]
    BY <1>1, Zenon DEF stop, GotoMain, RelayIInv, MainType
  <2>2. http' = "closed" /\ relay' = relay
    BY <1>1, Zenon DEF stop
  <2> QED BY <2>1, <2>2, Zenon DEF RelayIInv, MainType, RelayType, RelayPhase, RelayLeftIsLate
<1>2. CASE httpShutdown
  <2>1. main.pc = "http" /\ main' = [pc |-> "relay", todo |-> main.todo, cur |-> main.cur]
    BY <1>2, Zenon DEF httpShutdown, GotoMain, RelayIInv, MainType
  <2>2. relay' = relay
    BY <1>2, Zenon DEF httpShutdown
  <2>3. http' = "late" \/ (http' = http /\ \A r \in Relays : relay[r] # "request")
    BY <1>2, Zenon DEF httpShutdown
  <2>4. http # "open"
    BY <2>1, Zenon DEF RelayIInv, RelayPhase
  <2>5. RelayPhase'
    BY <2>1, <2>2, <2>4, <2>3, Zenon DEF RelayPhase
  <2> QED BY <2>1, <2>2, <2>5, Zenon DEF RelayIInv, MainType, RelayType, RelayLeftIsLate
<1>3. CASE relaySnapshot
  <2>1. main.pc = "relay"
    BY <1>3, Zenon DEF relaySnapshot
  <2>2. main' = [pc |-> "relayClose", todo |-> {r \in Relays : relay[r] \in {"open", "stuck"}}, cur |-> main.cur]
    BY <1>3, Zenon DEF relaySnapshot, RelayIInv, MainType
  <2>3. relay' = relay /\ http' = http
    BY <1>3, Zenon DEF relaySnapshot
  <2> QED BY <2>1, <2>2, <2>3, Zenon DEF RelayIInv, MainType, RelayType, RelayPhase, RelayLeftIsLate
<1>4. CASE relayClose
  <2>1. main.pc = "relayClose" /\ http' = http
    BY <1>4, Zenon DEF relayClose
  <2>2. ASSUME NEW r \in main.todo, relay[r] # "stuck", relay' = [relay EXCEPT ![r] = "closed"],
               main' = [main EXCEPT !.todo = @ \ {r}]
        PROVE  RelayIInv'
    <3>1. main' = [pc |-> "relayClose", todo |-> main.todo \ {r}, cur |-> main.cur]
      BY <2>1, <2>2, Zenon DEF RelayIInv, MainType
    <3>2. RelayType' /\ \A q \in Relays : relay'[q] = IF q = r THEN "closed" ELSE relay[q]
      BY <2>2, Zenon DEF RelayIInv, RelayType
    <3>3. RelayPhase'
      BY <2>1, <3>1, <3>2, Zenon DEF RelayIInv, RelayPhase
    <3> QED BY <2>1, <3>1, <3>2, <3>3, Zenon DEF RelayIInv, MainType, RelayLeftIsLate
  <2>3. ASSUME main.todo = {}, main' = [main EXCEPT !.pc = "listeners"], UNCHANGED relay
        PROVE  RelayIInv'
    <3>1. main' = [pc |-> "listeners", todo |-> main.todo, cur |-> main.cur]
      BY <2>3, Zenon DEF RelayIInv, MainType
    <3> QED BY <2>1, <2>3, <3>1, Zenon DEF RelayIInv, MainType, RelayType, RelayPhase, RelayLeftIsLate
  <2> QED BY <1>4, <2>2, <2>3, Zenon DEF relayClose
<1>5. CASE closeListeners
  <2>1. main.pc = "listeners" /\ main' = [pc |-> "snapshot", todo |-> main.todo, cur |-> main.cur]
    BY <1>5, Zenon DEF closeListeners, GotoMain, RelayIInv, MainType
  <2> QED BY <1>5, <2>1, RelayBehind, Zenon DEF closeListeners, MainType
<1>6. CASE snapshot
  <2>1. main.pc = "snapshot" /\ main' = [pc |-> "close", todo |-> table, cur |-> main.cur]
    BY <1>6, ZenonT(30) DEF snapshot, RelayIInv, MainType
  <2> QED BY <1>6, <2>1, RelayBehind, Zenon DEF snapshot, MainType
<1>7. CASE closeSessions
  <2>1. main.pc = "close" /\ (main' = [pc |-> "store", todo |-> main.todo, cur |-> {}]
                             \/ \E s \in main.todo : main' = [pc |-> "close", todo |-> main.todo \ {s}, cur |-> {s}])
    BY <1>7, Zenon DEF closeSessions, RelayIInv, MainType
  <2> QED BY <1>7, <2>1, RelayBehind, Zenon DEF closeSessions, MainType
<1>8. CASE storeClose
  <2>1. main.pc = "store" /\ main' = [pc |-> "exit", todo |-> main.todo, cur |-> main.cur]
    BY <1>8, Zenon DEF storeClose, GotoMain, RelayIInv, MainType
  <2> QED BY <1>8, <2>1, RelayBehind, Zenon DEF storeClose, MainType
<1> QED BY <1>1, <1>2, <1>3, <1>4, <1>5, <1>6, <1>7, <1>8, Zenon DEF mainSteps

\* relayManager.Shutdown follows httpSrv.Shutdown: when it has returned, a relay
\* connection is open only if the HTTP server gave up waiting for its Open.
THEOREM GatewayRelayLeftIsLate == GSpec => []RelayLeftIsLate
<1>1. GInit => RelayIInv
  <2> SUFFICES ASSUME GInit PROVE RelayIInv
    OBVIOUS
  <2>1. main = [pc |-> "select", todo |-> {}, cur |-> {}]
    BY Zenon DEF GInit
  <2>2. RelayType
    BY Zenon DEF GInit, RelayType
  <2> QED BY <2>1, <2>2, Zenon DEF RelayIInv, MainType, RelayPhase, RelayLeftIsLate
<1>2. RelayIInv /\ [GNext]_gvars => RelayIInv'
  <2> SUFFICES ASSUME RelayIInv, [GNext]_gvars PROVE RelayIInv'
    OBVIOUS
  <2>1. CASE laneSteps \/ signal \/ httpFails \/ callbackReturns
    <3>1. CASE laneSteps \/ signal \/ callbackReturns
      <4>1. main' = main /\ relay' = relay /\ http' = http
        BY <3>1, Zenon DEF laneSteps, Start, listen, laneEnds, signal, callbackReturns
      <4> QED BY <4>1, RelayAside, Zenon
    <3>2. CASE httpFails
      <4>1. main' = main /\ relay' = relay /\ http' = "closed" /\ http = "open"
        BY <3>2, Zenon DEF httpFails
      <4> QED BY <4>1, RelayAside, Zenon
    <3> QED BY <2>1, <3>1, <3>2, Zenon
  <2>2. CASE mainSteps
    BY <2>2, RelayMain, Zenon
  <2>3. ASSUME NEW s \in Sessions, accept(s) \/ Run(s) \/ fallSilent(s) \/ touchSession(s) \/ closed(s) \/ loopCloses(s) \/ expire(s)
        PROVE  RelayIInv'
    <3>1. main' = main /\ relay' = relay /\ http' = http
      BY <2>3, Zenon DEF accept, Run, authenticate, Add, authOK, unregister, Delete, fallSilent, touchSession, closed, loopCloses, expire
    <3> QED BY <3>1, RelayAside, Zenon
  <2>4. ASSUME NEW r \in Relays, relayStep(r) PROVE RelayIInv'
    BY <2>4, RelayMoves, Zenon
  <2>5. CASE UNCHANGED gvars
    <3>1. main' = main /\ relay' = relay /\ http' = http
      BY <2>5, Zenon DEF gvars
    <3> QED BY <3>1, RelayAside, Zenon
  <2> QED BY <2>1, <2>2, <2>3, <2>4, <2>5, Zenon DEF GNext
<1>3. RelayIInv => RelayLeftIsLate
  BY Zenon DEF RelayIInv
<1> QED BY <1>1, <1>2, <1>3, PTL DEF GSpec

-----------------------------------------------------------------------------
(* The sessions.                                                           *)

Gone(s) == sess[s] \in {"deleted", "done"}

SessType ==
  /\ sess \in [Sessions -> {"none", "auth", "inserted", "stored", "run", "deleted", "done"}]
  /\ closing \in [Sessions -> {"no", "busy", "stuck", "done"}]
  /\ told \subseteq Sessions /\ seen \subseteq Sessions

\* A session is in the table from registerSession until its Run unregisters it,
\* and is told of only in between.
Registered == \A s \in Sessions : sess[s] \in {"inserted", "stored", "run"} => s \in table
ToldRun == \A s \in told : sess[s] = "run" \/ Gone(s)

\* While Shutdown closes sessions, those it has not closed are in its snapshot.
Pending ==
  main.pc = "close" => \A s \in seen : s \in main.todo \/ s \in main.cur \/ closing[s] = "done" \/ Gone(s)

SessIInv == MainType /\ SessType /\ Registered /\ ToldRun /\ Pending /\ ToldAreClosed

\* Steps of others than main: a session that is closed or gone remains so.
LEMMA SessAside ==
  ASSUME SessIInv, main' = main, seen' = seen, SessType', Registered', ToldRun',
         \A q \in Sessions : (Gone(q) => Gone(q)') /\ (closing[q] = "done" => closing'[q] = "done")
  PROVE  SessIInv'
<1>1. MainType'
  BY Zenon DEF SessIInv, MainType
<1>2. seen \subseteq Sessions
  BY Zenon DEF SessIInv, SessType
<1>3. Pending'
  BY <1>2, Zenon DEF SessIInv, Pending
<1>4. ToldAreClosed'
  BY <1>2, Zenon DEF SessIInv, ToldAreClosed, Gone
<1> QED BY <1>1, <1>3, <1>4, Zenon DEF SessIInv

\* Steps that leave the sessions alone
LEMMA SessUntouched ==
  ASSUME SessIInv, main' = main, seen' = seen, sess' = sess, closing' = closing, told' = told, table' = table
  PROVE  SessIInv'
<1>1. SessType' /\ Registered' /\ ToldRun'
  BY Zenon DEF SessIInv, SessType, Registered, ToldRun, Gone
<1>2. \A q \in Sessions : (Gone(q) => Gone(q)') /\ (closing[q] = "done" => closing'[q] = "done")
  BY Zenon DEF Gone
<1> QED BY <1>1, <1>2, SessAside, Zenon

\* Steps in which Run goes from one place to another
LEMMA SessStep ==
  ASSUME SessIInv, main' = main, seen' = seen, NEW s \in Sessions,
         NEW to \in {"auth", "inserted", "stored", "run", "deleted", "done"},
         sess' = [sess EXCEPT ![s] = to],
         Gone(s) => to \in {"deleted", "done"},
         s \in told => to \in {"run", "deleted", "done"},
         told' = told \/ (told' = told \cup {s} /\ to = "run"),
         closing' = closing \/ closing' = [closing EXCEPT ![s] = IF @ = "no" THEN "busy" ELSE @],
         \A q \in Sessions : q \in table' \/ q \notin table \/ q = s,
         to \in {"inserted", "stored", "run"} => s \in table'
  PROVE  SessIInv'
<1>1. \A q \in Sessions : sess'[q] = IF q = s THEN to ELSE sess[q]
  BY Zenon DEF SessIInv, SessType
<1>2. SessType'
  <2>1. closing' \in [Sessions -> {"no", "busy", "stuck", "done"}]
    BY Zenon DEF SessIInv, SessType
  <2>2. sess' \in [Sessions -> {"none", "auth", "inserted", "stored", "run", "deleted", "done"}]
    BY Zenon DEF SessIInv, SessType
  <2>3. told' \subseteq Sessions /\ seen' \subseteq Sessions
    BY Zenon DEF SessIInv, SessType
  <2> QED BY <2>1, <2>2, <2>3, Zenon DEF SessType
<1>3. Registered'
  BY <1>1, Zenon DEF SessIInv, Registered
<1>4. ToldRun'
  <2>1. told \subseteq Sessions
    BY Zenon DEF SessIInv, SessType
  <2> QED BY <1>1, <2>1 DEF SessIInv, ToldRun, Gone
<1>5. \A q \in Sessions : Gone(q) => Gone(q)'
  BY <1>1, Zenon DEF Gone
<1>6. \A q \in Sessions : closing[q] = "done" => closing'[q] = "done"
  BY Zenon DEF SessIInv, SessType
<1> QED BY <1>2, <1>3, <1>4, <1>5, <1>6, SessAside

LEMMA SessRun ==
  ASSUME SessIInv, NEW s \in Sessions, accept(s) \/ Run(s)
  PROVE  SessIInv'
<1>1. /\ s \in told => sess[s] \in {"run", "deleted", "done"}
      /\ sess[s] \in {"inserted", "stored", "run"} => s \in table
      /\ sess \in [Sessions -> {"none", "auth", "inserted", "stored", "run", "deleted", "done"}]
  BY Zenon DEF SessIInv, SessType, Registered, ToldRun, Gone
<1>2. CASE accept(s)
  <2>1. sess[s] = "none" /\ sess' = [sess EXCEPT ![s] = "auth"]
    BY <1>2, Zenon DEF accept
  <2>2. main' = main /\ seen' = seen /\ table' = table /\ told' = told /\ closing' = closing
    BY <1>2, Zenon DEF accept
  <2> QED BY <1>1, <2>1, <2>2, SessStep, Zenon DEF Gone
<1>3. CASE authenticate(s)
  <2>1. main' = main /\ seen' = seen /\ told' = told
    BY <1>3, Zenon DEF authenticate
  <2>2. ASSUME Step(s, "auth", "done"), callClose(s), UNCHANGED table PROVE SessIInv'
    <3>1. sess[s] = "auth" /\ sess' = [sess EXCEPT ![s] = "done"]
      BY <2>2, Zenon DEF Step
    <3>2. closing' = [closing EXCEPT ![s] = IF @ = "no" THEN "busy" ELSE @] /\ table' = table
      BY <2>2, Zenon DEF callClose
    <3> QED BY <1>1, <2>1, <3>1, <3>2, SessStep, Zenon DEF Gone
  <2>3. ASSUME Step(s, "auth", "inserted"), table' = table \cup {s}, UNCHANGED closing PROVE SessIInv'
    <3>1. sess[s] = "auth" /\ sess' = [sess EXCEPT ![s] = "inserted"]
      BY <2>3, Zenon DEF Step
    <3> QED BY <1>1, <2>1, <2>3, <3>1, SessStep, Zenon DEF Gone
  <2> QED BY <1>3, <2>2, <2>3, Zenon DEF authenticate
<1>4. CASE Add(s)
  <2>1. sess[s] = "inserted" /\ sess' = [sess EXCEPT ![s] = "stored"]
    BY <1>4, Zenon DEF Add, Step
  <2>2. main' = main /\ seen' = seen /\ table' = table /\ told' = told /\ closing' = closing
    BY <1>4, Zenon DEF Add
  <2> QED BY <1>1, <2>1, <2>2, SessStep, Zenon DEF Gone
<1>5. CASE authOK(s)
  <2>1. main' = main /\ seen' = seen /\ closing' = closing
    BY <1>5, Zenon DEF authOK
  <2>2. table' = IF sess'[s] = "deleted" THEN table \ {s} ELSE table
    BY <1>5, Zenon DEF authOK
  <2>3. ASSUME Step(s, "stored", "run"), told' = told \cup {s} PROVE SessIInv'
    <3>1. sess[s] = "stored" /\ sess' = [sess EXCEPT ![s] = "run"]
      BY <2>3, Zenon DEF Step
    <3>2. table' = table
      BY <1>1, <2>2, <3>1, Zenon
    <3> QED BY <1>1, <2>1, <2>3, <3>1, <3>2, SessStep, Zenon DEF Gone
  <2>4. ASSUME Step(s, "stored", "deleted"), UNCHANGED told PROVE SessIInv'
    <3>1. sess[s] = "stored" /\ sess' = [sess EXCEPT ![s] = "deleted"]
      BY <2>4, Zenon DEF Step
    <3>2. table' = table \ {s}
      BY <1>1, <2>2, <3>1, Zenon
    <3> QED BY <1>1, <2>1, <2>4, <3>1, <3>2, SessStep, Zenon DEF Gone
  <2> QED BY <1>5, <2>3, <2>4, Zenon DEF authOK
<1>6. CASE unregister(s)
  <2>1. sess[s] = "run" /\ sess' = [sess EXCEPT ![s] = "deleted"]
    BY <1>6, Zenon DEF unregister, Step
  <2>2. main' = main /\ seen' = seen /\ table' = table \ {s} /\ told' = told /\ closing' = closing
    BY <1>6, Zenon DEF unregister
  <2> QED BY <1>1, <2>1, <2>2, SessStep, Zenon DEF Gone
<1>7. CASE Delete(s)
  <2>1. sess[s] = "deleted" /\ sess' = [sess EXCEPT ![s] = "done"]
    BY <1>7, Zenon DEF Delete, Step
  <2>2. main' = main /\ seen' = seen /\ table' = table /\ told' = told
    BY <1>7, Zenon DEF Delete
  <2>3. closing' = [closing EXCEPT ![s] = IF @ = "no" THEN "busy" ELSE @]
    BY <1>7, Zenon DEF Delete, callClose
  <2> QED BY <1>1, <2>1, <2>2, <2>3, SessStep, Zenon DEF Gone
<1> QED BY <1>2, <1>3, <1>4, <1>5, <1>6, <1>7, Zenon DEF Run

\* Steps in which only closing and told change
LEMMA SessCloses ==
  ASSUME SessIInv, NEW s \in Sessions, closed(s) \/ loopCloses(s) \/ expire(s)
  PROVE  SessIInv'
<1>1. main' = main /\ seen' = seen /\ sess' = sess /\ table' = table
  BY Zenon DEF closed, loopCloses, expire, sessions
<1>2. told' = told \/ told' = told \ {s}
  BY Zenon DEF closed, loopCloses, expire, sessions
<1>3. \/ closing[s] # "done" /\ \E c \in {"busy", "stuck", "done"} : closing' = [closing EXCEPT ![s] = c]
      \/ closing' = [closing EXCEPT ![s] = IF @ = "no" THEN "busy" ELSE @]
  BY Zenon DEF closed, loopCloses, expire, callClose
<1>4. SessType'
  <2>1. closing' \in [Sessions -> {"no", "busy", "stuck", "done"}]
    BY <1>3, Zenon DEF SessIInv, SessType
  <2> QED BY <1>1, <1>2, <2>1, Zenon DEF SessIInv, SessType
<1>5. Registered' /\ ToldRun'
  BY <1>1, <1>2, Zenon DEF SessIInv, Registered, ToldRun, Gone
<1>6. \A q \in Sessions : (Gone(q) => Gone(q)') /\ (closing[q] = "done" => closing'[q] = "done")
  BY <1>1, <1>3, Zenon DEF SessIInv, SessType, Gone
<1> QED BY <1>1, <1>4, <1>5, <1>6, SessAside, Zenon

\* Steps of main before its snapshot of the sessions
LEMMA SessBefore ==
  ASSUME SessIInv, MainType', main'.pc \in {"http", "relay", "relayClose", "listeners", "snapshot"},
         seen' = seen, sess' = sess, closing' = closing, told' = told, table' = table
  PROVE  SessIInv'
<1>1. SessType' /\ Registered' /\ ToldRun'
  BY Zenon DEF SessIInv, SessType, Registered, ToldRun, Gone
<1>2. Pending' /\ ToldAreClosed'
  BY DEF Pending, ToldAreClosed
<1> QED BY <1>1, <1>2, Zenon DEF SessIInv

LEMMA SessMain ==
  ASSUME SessIInv, mainSteps
  PROVE  SessIInv'
<1>1. CASE stop
  <2>1. main' = [pc |-> "http", todo |-> main.todo, cur |-> main.cur]
    BY <1>1, Zenon DEF stop, GotoMain, SessIInv, MainType
  <2>2. MainType' /\ main'.pc = "http"
    BY <2>1, Zenon DEF MainType
  <2>3. seen' = seen /\ sess' = sess /\ closing' = closing /\ told' = told /\ table' = table
    BY <1>1, Zenon DEF stop, sessions
  <2> QED BY <2>2, <2>3, SessBefore, Zenon
<1>2. CASE httpShutdown
  <2>1. main' = [pc |-> "relay", todo |-> main.todo, cur |-> main.cur]
    BY <1>2, Zenon DEF httpShutdown, GotoMain, SessIInv, MainType
  <2>2. MainType' /\ main'.pc = "relay"
    BY <2>1, Zenon DEF MainType
  <2>3. seen' = seen /\ sess' = sess /\ closing' = closing /\ told' = told /\ table' = table
    BY <1>2, Zenon DEF httpShutdown, sessions
  <2> QED BY <2>2, <2>3, SessBefore, Zenon
<1>3. CASE relaySnapshot
  <2>1. main' = [pc |-> "relayClose", todo |-> {r \in Relays : relay[r] \in {"open", "stuck"}}, cur |-> main.cur]
    BY <1>3, Zenon DEF relaySnapshot, SessIInv, MainType
  <2>2. MainType' /\ main'.pc = "relayClose"
    BY <2>1, Zenon DEF MainType
  <2>3. seen' = seen /\ sess' = sess /\ closing' = closing /\ told' = told /\ table' = table
    BY <1>3, Zenon DEF relaySnapshot, sessions
  <2> QED BY <2>2, <2>3, SessBefore, Zenon
<1>4. CASE relayClose
  <2>1. \/ \E r \in main.todo : main' = [pc |-> "relayClose", todo |-> main.todo \ {r}, cur |-> main.cur]
        \/ main' = [pc |-> "listeners", todo |-> main.todo, cur |-> main.cur]
    BY <1>4 DEF relayClose, SessIInv, MainType
  <2>2. MainType' /\ main'.pc \in {"relayClose", "listeners"}
    BY <2>1 DEF MainType
  <2>3. seen' = seen /\ sess' = sess /\ closing' = closing /\ told' = told /\ table' = table
    BY <1>4, Zenon DEF relayClose, sessions
  <2> QED BY <2>2, <2>3, SessBefore, Zenon
<1>5. CASE closeListeners
  <2>1. main' = [pc |-> "snapshot", todo |-> main.todo, cur |-> main.cur]
    BY <1>5, Zenon DEF closeListeners, GotoMain, SessIInv, MainType
  <2>2. MainType' /\ main'.pc = "snapshot"
    BY <2>1, Zenon DEF MainType
  <2>3. seen' = seen /\ sess' = sess /\ closing' = closing /\ told' = told /\ table' = table
    BY <1>5, Zenon DEF closeListeners, sessions
  <2> QED BY <2>2, <2>3, SessBefore, Zenon
<1>6. CASE snapshot
  <2>1. main' = [pc |-> "close", todo |-> table, cur |-> main.cur]
    BY <1>6, ZenonT(30) DEF snapshot, SessIInv, MainType
  <2>2. seen' = told /\ sess' = sess /\ closing' = closing /\ told' = told /\ table' = table
    BY <1>6, Zenon DEF snapshot, sessions
  <2>3. SessType' /\ Registered' /\ ToldRun'
    BY <2>2, Zenon DEF SessIInv, SessType, Registered, ToldRun, Gone
  <2>4. \A s \in told : s \in table \/ Gone(s)
    BY Zenon DEF SessIInv, SessType, Registered, ToldRun
  <2>5. Pending'
    BY <2>1, <2>2, <2>4, Zenon DEF Pending, Gone
  <2> QED BY <2>1, <2>3, <2>5, Zenon DEF SessIInv, MainType, ToldAreClosed
<1>7. CASE closeSessions
  <2>1. main.pc = "close" /\ \A s \in main.cur : closing[s] = "done"
    BY <1>7, Zenon DEF closeSessions
  <2>2. seen' = seen /\ sess' = sess /\ told' = told /\ table' = table
    BY <1>7, Zenon DEF closeSessions, sessions
  <2>3. Registered' /\ ToldRun'
    BY <2>2, Zenon DEF SessIInv, Registered, ToldRun, Gone
  <2>4. ASSUME NEW s \in main.todo, callClose(s), main' = [main EXCEPT !.todo = @ \ {s}, !.cur = {s}] PROVE SessIInv'
    <3>1. main' = [pc |-> "close", todo |-> main.todo \ {s}, cur |-> {s}]
      BY <2>1, <2>4, Zenon DEF SessIInv, MainType
    <3>2. closing' = [closing EXCEPT ![s] = IF @ = "no" THEN "busy" ELSE @]
      BY <2>4, Zenon DEF callClose
    <3>3. SessType'
      <4>1. closing' \in [Sessions -> {"no", "busy", "stuck", "done"}]
        BY <3>2, Zenon DEF SessIInv, SessType
      <4> QED BY <2>2, <4>1, Zenon DEF SessIInv, SessType
    <3>4. \A q \in Sessions : closing[q] = "done" => closing'[q] = "done"
      BY <3>2, Zenon DEF SessIInv, SessType
    <3>5. \A q \in seen : q \in main.todo \/ closing[q] = "done" \/ Gone(q)
      BY <2>1, Zenon DEF SessIInv, Pending
    <3>6. seen \subseteq Sessions
      BY Zenon DEF SessIInv, SessType
    <3>7. Pending'
      BY <2>2, <3>1, <3>4, <3>5, <3>6, Zenon DEF Pending, Gone
    <3> QED BY <2>3, <3>1, <3>3, <3>7 DEF SessIInv, MainType, ToldAreClosed
  <2>5. ASSUME main.todo = {}, main' = [main EXCEPT !.pc = "store", !.cur = {}], UNCHANGED closing PROVE SessIInv'
    <3>1. main' = [pc |-> "store", todo |-> {}, cur |-> {}]
      BY <2>5, Zenon DEF SessIInv, MainType
    <3>2. SessType'
      BY <2>2, <2>5, Zenon DEF SessIInv, SessType
    <3>3. \A q \in seen : closing[q] = "done" \/ Gone(q)
      BY <2>1, <2>5, Zenon DEF SessIInv, Pending
    <3>4. ToldAreClosed'
      BY <2>2, <2>5, <3>3, Zenon DEF ToldAreClosed, Gone
    <3> QED BY <2>3, <3>1, <3>2, <3>4, Zenon DEF SessIInv, MainType, Pending
  <2> QED BY <1>7, <2>4, <2>5, Zenon DEF closeSessions
<1>8. CASE storeClose
  <2>1. main.pc = "store" /\ main' = [pc |-> "exit", todo |-> main.todo, cur |-> main.cur]
    BY <1>8, Zenon DEF storeClose, GotoMain, SessIInv, MainType
  <2>2. seen' = seen /\ sess' = sess /\ closing' = closing /\ told' = told /\ table' = table
    BY <1>8, Zenon DEF storeClose, sessions
  <2>3. SessType' /\ Registered' /\ ToldRun'
    BY <2>2, Zenon DEF SessIInv, SessType, Registered, ToldRun, Gone
  <2>4. ToldAreClosed'
    BY <2>1, <2>2 DEF SessIInv, ToldAreClosed
  <2> QED BY <2>1, <2>3, <2>4, Zenon DEF SessIInv, MainType, Pending
<1> QED BY <1>1, <1>2, <1>3, <1>4, <1>5, <1>6, <1>7, <1>8, Zenon DEF mainSteps

\* When Shutdown of the session server gets to its wheel, every session that a
\* client had been told of at its snapshot is closed, or leaves by itself: its own
\* Run has unregistered it and closes it.
THEOREM GatewayToldAreClosed == GSpec => []ToldAreClosed
<1>1. GInit => SessIInv
  <2> SUFFICES ASSUME GInit PROVE SessIInv
    OBVIOUS
  <2>1. main = [pc |-> "select", todo |-> {}, cur |-> {}] /\ seen = {} /\ closing = [s \in Sessions |-> "no"]
    BY Zenon DEF GInit
  <2>2. PICK c \in Setups :
          /\ sess = [s \in Sessions |-> IF s \notin c.sessions THEN "done" ELSE IF c.up THEN "run" ELSE "none"]
          /\ table = (IF c.up THEN c.sessions ELSE {}) /\ told = (IF c.up THEN c.sessions ELSE {})
    BY Zenon DEF GInit
  <2>3. c.sessions \subseteq Sessions
    BY Zenon DEF Sessions
  <2>4. SessType
    BY <2>1, <2>2, <2>3, Zenon DEF SessType
  <2>5. Registered /\ ToldRun
    BY <2>2, <2>3, Zenon DEF Registered, ToldRun, Gone
  <2> QED BY <2>1, <2>4, <2>5, Zenon DEF SessIInv, MainType, Pending, ToldAreClosed
<1>2. SessIInv /\ [GNext]_gvars => SessIInv'
  <2> SUFFICES ASSUME SessIInv, [GNext]_gvars PROVE SessIInv'
    OBVIOUS
  <2>1. CASE laneSteps \/ signal \/ httpFails \/ callbackReturns \/ UNCHANGED gvars
    <3>1. main' = main /\ seen' = seen /\ sess' = sess /\ closing' = closing /\ told' = told /\ table' = table
      BY <2>1, Zenon DEF laneSteps, Start, listen, laneEnds, signal, httpFails, callbackReturns, sessions, gvars
    <3> QED BY <3>1, SessUntouched, Zenon
  <2>2. CASE mainSteps
    BY <2>2, SessMain, Zenon
  <2>3. ASSUME NEW s \in Sessions, accept(s) \/ Run(s) PROVE SessIInv'
    BY <2>3, SessRun, Zenon
  <2>4. ASSUME NEW s \in Sessions, closed(s) \/ loopCloses(s) \/ expire(s) PROVE SessIInv'
    BY <2>4, SessCloses, Zenon
  <2>5. ASSUME NEW s \in Sessions, fallSilent(s) \/ touchSession(s) PROVE SessIInv'
    <3>1. main' = main /\ seen' = seen /\ sess' = sess /\ closing' = closing /\ told' = told /\ table' = table
      BY <2>5, Zenon DEF fallSilent, touchSession
    <3> QED BY <3>1, SessUntouched, Zenon
  <2>6. ASSUME NEW r \in Relays, relayStep(r) PROVE SessIInv'
    <3>1. main' = main /\ seen' = seen /\ sess' = sess /\ closing' = closing /\ told' = told /\ table' = table
      BY <2>6, Zenon DEF relayStep, sessions
    <3> QED BY <3>1, SessUntouched, Zenon
  <2> QED BY <2>1, <2>2, <2>3, <2>4, <2>5, <2>6 DEF GNext
<1>3. SessIInv => ToldAreClosed
  BY Zenon DEF SessIInv
<1> QED BY <1>1, <1>2, <1>3, PTL DEF GSpec

\* The ordered shutdown of main leaves neither a session that a client was told of
\* nor a relay connection open, unless an Open outlived the HTTP server.
THEOREM GatewayShutdownLeaves == GSpec => []ShutdownLeaves
<1>1. ToldAreClosed /\ RelayLeftIsLate => ShutdownLeaves
  BY Zenon DEF ShutdownLeaves
<1> QED BY <1>1, GatewayToldAreClosed, GatewayRelayLeftIsLate, PTL

-----------------------------------------------------------------------------
(* The limits.                                                             *)

WindowType ==
  /\ clock \in Nat
  /\ byteWin \in [start : Int, used : Nat] /\ byteWin.start <= clock
  /\ refused \in [first : Nat, last : Nat]

\* Once a byte has been refused, the window that is full began before.
FullSinceRefusal ==
  byteWin # NoWindow /\ ByteLimit > 0 /\ byteWin.used >= ByteLimit /\ refused # NoRefusal
    => byteWin.start <= refused.first

WindowIInv == WindowType /\ FullSinceRefusal /\ RefusedBriefly

\* A call finds a window that began at most now and lasts on.
LEMMA WindowFound ==
  ASSUME WindowType
  PROVE  /\ byteWindow \in [start : Int, used : Nat] /\ byteWindow.start <= clock
         /\ clock - byteWindow.start < Minute
         /\ byteWindow.used > 0 => byteWindow = byteWin /\ byteWin # NoWindow
<1>1. CASE byteWin = NoWindow \/ clock - byteWin.start >= Minute
  <2>1. byteWindow = [start |-> clock, used |-> 0]
    BY <1>1, Zenon DEF byteWindow
  <2> QED BY <2>1, LimitsAssumption DEF WindowType
<1>2. CASE ~(byteWin = NoWindow \/ clock - byteWin.start >= Minute)
  <2>1. byteWindow = byteWin
    BY <1>2, Zenon DEF byteWindow
  <2> QED BY <2>1, <1>2, LimitsAssumption DEF WindowType
<1> QED BY <1>1, <1>2, Zenon

\* An amount is refused: one byte only in a window that is full.
LEMMA RefuseStep ==
  ASSUME WindowIInv, NEW n \in Int, n > 0, Over(n), byteWin' = byteWindow, refused' = Refusal(n), UNCHANGED clock
  PROVE  WindowIInv'
<1>1. /\ byteWindow \in [start : Int, used : Nat] /\ byteWindow.start <= clock
      /\ clock - byteWindow.start < Minute
      /\ byteWindow.used > 0 => byteWindow = byteWin /\ byteWin # NoWindow
  BY WindowFound, Zenon DEF WindowIInv
<1>2. ByteLimit > 0 /\ byteWindow.used + n > ByteLimit
  BY Zenon DEF Over
<1>3. clock \in Nat /\ refused \in [first : Nat, last : Nat] /\ ByteLimit \in Nat /\ Minute \in Nat \ {0}
  BY LimitsAssumption, Zenon DEF WindowIInv, WindowType
<1>4. CASE n # 1
  <2>1. refused' = refused
    BY <1>4, Zenon DEF Refusal
  <2>2. FullSinceRefusal'
    BY <1>1, <1>3, <2>1 DEF WindowIInv, FullSinceRefusal, NoWindow, NoRefusal
  <2> QED BY <1>1, <1>3, <2>1, <2>2, Zenon DEF WindowIInv, WindowType, RefusedBriefly
<1>5. CASE n = 1
  <2>1. refused' = [first |-> IF refused = NoRefusal THEN clock ELSE refused.first, last |-> clock]
    BY <1>5, Zenon DEF Refusal
  <2>2. byteWindow = byteWin /\ byteWin # NoWindow /\ byteWin.used >= ByteLimit
    BY <1>1, <1>2, <1>3, <1>5
  <2>3. CASE refused = NoRefusal
    <3>1. refused' = [first |-> clock, last |-> clock]
      BY <2>1, <2>3, Zenon
    <3> QED BY <1>1, <1>3, <3>1 DEF WindowIInv, WindowType, FullSinceRefusal, RefusedBriefly
  <2>4. CASE refused # NoRefusal
    <3>1. refused' = [first |-> refused.first, last |-> clock]
      BY <2>1, <2>4, Zenon
    <3>2. byteWin.start <= refused.first
      BY <1>2, <2>2, <2>4 DEF WindowIInv, FullSinceRefusal
    <3> QED BY <1>1, <1>3, <2>2, <3>1, <3>2 DEF WindowIInv, WindowType, FullSinceRefusal, RefusedBriefly
  <2> QED BY <2>3, <2>4, Zenon
<1> QED BY <1>4, <1>5, Zenon

\* Calls that are refused do not prolong a window: whoever asks AllowRelayBytes or
\* AllowSessionBytes for one byte again and again is refused for less than a minute.
THEOREM LimitsRefusedBriefly == LSpec => []RefusedBriefly
<1>1. LInit => WindowIInv
  BY LimitsAssumption DEF LInit, WindowIInv, WindowType, FullSinceRefusal, RefusedBriefly, NoWindow, NoRefusal
<1>2. WindowIInv /\ [LNext]_lvars => WindowIInv'
  <2> SUFFICES ASSUME WindowIInv, [LNext]_lvars PROVE WindowIInv'
    OBVIOUS
  <2>1. ASSUME NEW n \in Amounts, AllowBytes(n) PROVE WindowIInv'
    <3>1. n \in Int
      BY LimitsAssumption, Zenon
    <3>2. CASE n <= 0 /\ UNCHANGED <<byteWin, bytes, refused>>
      BY <2>1, <3>2, Zenon DEF AllowBytes, WindowIInv, WindowType, FullSinceRefusal, RefusedBriefly
    <3>3. CASE n > 0 /\ ~Over(n) /\ allow(n)
      <4>1. /\ byteWindow \in [start : Int, used : Nat] /\ byteWindow.start <= clock
        BY WindowFound, Zenon DEF WindowIInv
      <4>2. byteWin' = [start |-> byteWindow.start, used |-> byteWindow.used + n] /\ refused' = NoRefusal
        BY <3>3, <4>1, Zenon DEF allow
      <4>3. UNCHANGED clock
        BY <2>1, Zenon DEF AllowBytes
      <4> QED BY <3>1, <3>3, <4>1, <4>2, <4>3, LimitsAssumption DEF WindowIInv, WindowType, FullSinceRefusal, RefusedBriefly, NoRefusal
    <3>4. CASE n > 0 /\ Over(n) /\ byteWin' = byteWindow /\ refused' = Refusal(n) /\ UNCHANGED bytes
      BY <2>1, <3>1, <3>4, RefuseStep, Zenon DEF AllowBytes
    <3> QED BY <2>1, <3>2, <3>3, <3>4 DEF AllowBytes
  <2>2. CASE AllowUDPPacket
    BY <2>2, Zenon DEF AllowUDPPacket, WindowIInv, WindowType, FullSinceRefusal, RefusedBriefly
  <2>3. CASE CleanupSession
    <3>1. byteWin' = [start |-> -1, used |-> 0] /\ UNCHANGED <<clock, refused>>
      BY <2>3, Zenon DEF CleanupSession, NoWindow
    <3> QED BY <3>1 DEF WindowIInv, WindowType, FullSinceRefusal, RefusedBriefly, NoWindow
  <2>4. CASE timePasses
    BY <2>4 DEF timePasses, WindowIInv, WindowType, FullSinceRefusal, RefusedBriefly
  <2>5. CASE UNCHANGED lvars
    BY <2>5, Zenon DEF lvars, WindowIInv, WindowType, FullSinceRefusal, RefusedBriefly
  <2> QED BY <2>1, <2>2, <2>3, <2>4, <2>5 DEF LNext
<1>3. WindowIInv => RefusedBriefly
  BY Zenon DEF WindowIInv
<1> QED BY <1>1, <1>2, <1>3, PTL DEF LSpec

-----------------------------------------------------------------------------
(* The relay manager.                                                      *)

\* Only inserted connections are closed, and a connection is in the table from
\* its insertion until onConnClosed takes it out.
Lifecycle ==
  \A c \in Conns :
    /\ body[c] # "idle" => phase[c] \in {"add", "start", "inc", "open"}
    /\ c \in conns <=> /\ phase[c] \in {"add", "start", "inc", "open"}
                       /\ body[c] \in {"idle", "wait", "delete", "stuck"}

Bounds ==
  /\ MaxTotalConns > 0 => totalRelayConns <= MaxTotalConns
  /\ \A k \in Clients :
       MaxConnsPerClient > 0 => relayConnsByClient[k] <= MaxConnsPerClient

\* A close that found its connection gone from the table would skip the release,
\* and a second close would release twice: Accounting needs Lifecycle.  The
\* limits are inductive on the counters, which Accounting ties to the holders.
ManagerIInv == TypeOK /\ Lifecycle /\ Accounting /\ Bounds

LEMMA HoldersFinite ==
  /\ IsFiniteSet(Holders) /\ Holders \subseteq Conns
  /\ Cardinality(Holders) \in Nat
  /\ \A k : IsFiniteSet(HoldersOf(k)) /\ Cardinality(HoldersOf(k)) \in Nat
<1>1. Holders \subseteq Conns /\ \A k : HoldersOf(k) \subseteq Conns
  BY Zenon DEF Holders, HoldersOf
<1>2. IsFiniteSet(Conns)  BY ManagerAssumption, Zenon
<1>3. IsFiniteSet(Holders) /\ \A k : IsFiniteSet(HoldersOf(k))
  BY <1>1, <1>2, FS_Subset, Zenon
<1>. QED  BY <1>1, <1>3, FS_CardinalityType, Zenon

\* One more holder, counted by ReserveRelayConn.
LEMMA ReserveCounts ==
  ASSUME TypeOK, Accounting, Bounds, NEW c \in Conns, ReserveRelayConn(c),
         c \notin Holders, Holders' = Holders \cup {c}
  PROVE  /\ totalRelayConns' \in Nat /\ relayConnsByClient' \in [Clients -> Nat]
         /\ Accounting' /\ Bounds'
<1> DEFINE o == Owner[c]
<1>1. o \in Clients  BY ManagerAssumption, Zenon
<1>2. /\ totalRelayConns \in Nat /\ relayConnsByClient \in [Clients -> Nat]
      /\ totalRelayConns' = totalRelayConns + 1
      /\ relayConnsByClient' = [relayConnsByClient EXCEPT ![o] = @ + 1]
      /\ ~AtLimit(o)
  BY Zenon DEF TypeOK, ReserveRelayConn
<1>3. Cardinality(Holders') = Cardinality(Holders) + 1
  BY HoldersFinite, FS_AddElement, Zenon
<1>4. ASSUME NEW k \in Clients
      PROVE  Cardinality(HoldersOf(k)') =
               IF k = o THEN Cardinality(HoldersOf(k)) + 1 ELSE Cardinality(HoldersOf(k))
  <2>1. CASE k = o
    <3>1. HoldersOf(k)' = HoldersOf(k) \cup {c} /\ c \notin HoldersOf(k)
      BY <2>1, Zenon DEF HoldersOf
    <3>. QED  BY <2>1, <3>1, HoldersFinite, FS_AddElement, Zenon
  <2>2. CASE k # o
    <3>1. HoldersOf(k)' = HoldersOf(k)  BY <2>2, Zenon DEF HoldersOf
    <3>. QED  BY <2>2, <3>1, Zenon
  <2>. QED  BY <2>1, <2>2, Zenon
<1>5. Accounting'
  BY <1>1, <1>2, <1>3, <1>4 DEF Accounting
<1>6. Bounds'
  BY <1>1, <1>2, ManagerAssumption DEF Bounds, AtLimit
<1>. QED  BY <1>1, <1>2, <1>5, <1>6

\* One holder less, counted by ReleaseRelayConn, whose clamps do not act.
LEMMA ReleaseCounts ==
  ASSUME TypeOK, Accounting, Bounds, NEW c \in Conns, ReleaseRelayConn(c),
         c \in Holders, Holders' = Holders \ {c}
  PROVE  /\ totalRelayConns' \in Nat /\ relayConnsByClient' \in [Clients -> Nat]
         /\ Accounting' /\ Bounds'
<1> DEFINE o == Owner[c]
<1>1. o \in Clients  BY ManagerAssumption, Zenon
<1>2. /\ totalRelayConns \in Nat /\ relayConnsByClient \in [Clients -> Nat]
      /\ totalRelayConns' = IF totalRelayConns > 0 THEN totalRelayConns - 1 ELSE 0
      /\ relayConnsByClient' =
           [relayConnsByClient EXCEPT ![o] = IF @ > 1 THEN @ - 1 ELSE 0]
  BY Zenon DEF TypeOK, ReleaseRelayConn
<1>3. Cardinality(Holders') = Cardinality(Holders) - 1
  BY HoldersFinite, FS_RemoveElement, Zenon
<1>4. ASSUME NEW k \in Clients
      PROVE  Cardinality(HoldersOf(k)') =
               IF k = o THEN Cardinality(HoldersOf(k)) - 1 ELSE Cardinality(HoldersOf(k))
  <2>1. CASE k = o
    <3>1. HoldersOf(k)' = HoldersOf(k) \ {c} /\ c \in HoldersOf(k)
      BY <2>1, Zenon DEF HoldersOf
    <3>. QED  BY <2>1, <3>1, HoldersFinite, FS_RemoveElement, ZenonT(30)
  <2>2. CASE k # o
    <3>1. HoldersOf(k)' = HoldersOf(k)  BY <2>2, Zenon DEF HoldersOf
    <3>. QED  BY <2>2, <3>1, Zenon
  <2>. QED  BY <2>1, <2>2, Zenon
<1>5. Cardinality(Holders) > 0 /\ Cardinality(HoldersOf(o)) > 0
  <2>1. c \in HoldersOf(o)  BY Zenon DEF HoldersOf
  <2>. QED  BY <2>1, HoldersFinite, FS_EmptySet
<1>6. /\ totalRelayConns = Cardinality(Holders) /\ Cardinality(Holders) \in Nat
      /\ \A k \in Clients : relayConnsByClient[k] = Cardinality(HoldersOf(k))
  BY HoldersFinite, Zenon DEF Accounting
<1>7. totalRelayConns' = totalRelayConns - 1 /\ relayConnsByClient'[o] = relayConnsByClient[o] - 1
  BY <1>1, <1>2, <1>5, <1>6
<1>8. \A k \in Clients : k # o => relayConnsByClient'[k] = relayConnsByClient[k]
  BY <1>2, Zenon
<1>9. Accounting'
  BY <1>1, <1>3, <1>4, <1>6, <1>7, <1>8 DEF Accounting
<1>10. totalRelayConns' \in Nat /\ relayConnsByClient' \in [Clients -> Nat]
  BY <1>1, <1>2
<1>11. Bounds'
  BY <1>1, <1>2, <1>7, <1>8, ManagerAssumption DEF Bounds
<1>. QED  BY <1>9, <1>10, <1>11, Zenon

\* Steps that leave the counters and the holders alone.
LEMMA SameCounts ==
  ASSUME TypeOK, Accounting, Bounds, UNCHANGED limitVars, Holders' = Holders
  PROVE  /\ totalRelayConns' \in Nat /\ relayConnsByClient' \in [Clients -> Nat]
         /\ Accounting' /\ Bounds'
<1>1. UNCHANGED <<totalRelayConns, relayConnsByClient>>  BY Zenon DEF limitVars
<1>2. \A k : HoldersOf(k)' = HoldersOf(k)  BY Zenon DEF HoldersOf
<1>. QED  BY <1>1, <1>2, Zenon DEF Accounting, Bounds, TypeOK

-----------------------------------------------------------------------------
(* Steps of one request or closing body: what each does to the holders, the *)
(* types and the life cycle.                                                *)

\* The part of TypeOK that says nothing of the counters.
TypeRest ==
  /\ phase \in [Conns -> Phases]
  /\ body \in [Conns -> Bodies]
  /\ conns \in SUBSET Conns /\ byID \in SUBSET Conns
  /\ timer \in [Conns -> 0 .. IdleTicks]
  /\ callbacks \in SUBSET Conns
  /\ wheelOn \in Conns \cup {None}
  /\ shutdown \in {"no", "closing", "stopping", "done"}
  /\ todo \in SUBSET Conns
  /\ shutOn \in Conns \cup {None}
  /\ active \in Int

LEMMA TypeSplit == TypeOK => TypeRest
BY Zenon DEF TypeOK, TypeRest

LEMMA TypeJoin ==
  ASSUME TypeRest', Lifecycle', Accounting', Bounds',
         totalRelayConns' \in Nat, relayConnsByClient' \in [Clients -> Nat]
  PROVE  ManagerIInv'
BY Zenon DEF ManagerIInv, TypeOK, TypeRest

\* Open, from the reservation to the gauge.
LEMMA OpenStep ==
  ASSUME ManagerIInv, NEW c \in Conns, Open(c)
  PROVE  ManagerIInv'
<1> USE DEF ManagerIInv
<1>0. TypeRest /\ Lifecycle  BY TypeSplit, Zenon
<1>1. CASE openReserve(c)
  <2>1. TypeRest' /\ Lifecycle'
    BY <1>0, <1>1, Zenon DEF openReserve, At, TypeRest, Lifecycle, Phases, wheelVars, shutVars
  <2>2. c \notin Holders /\ Holders' = Holders \cup {c}
    BY <1>0, <1>1, Zenon DEF openReserve, At, Holders, Holding, Lifecycle, TypeRest
  <2>3. ReserveRelayConn(c)  BY <1>1, Zenon DEF openReserve
  <2>. QED  BY <2>1, <2>2, <2>3, ReserveCounts, TypeJoin
<1>2. CASE openFailed(c)
  <2>1. TypeRest' /\ Lifecycle'
    BY <1>0, <1>2, Zenon DEF openFailed, At, TypeRest, Lifecycle, Phases, wheelVars, shutVars
  <2>2. c \in Holders /\ Holders' = Holders \ {c}
    BY <1>0, <1>2, Zenon DEF openFailed, At, Holders, Holding, Lifecycle, TypeRest
  <2>3. ReleaseRelayConn(c)  BY <1>2, Zenon DEF openFailed
  <2>. QED  BY <2>1, <2>2, <2>3, ReleaseCounts, TypeJoin
<1>3. CASE openRefused(c) \/ openDialed(c) \/ openInsert(c)
            \/ openAdd(c) \/ openStart(c) \/ openInc(c)
  <2>1. TypeRest'
    BY <1>0, <1>3, ManagerAssumption
    DEF openRefused, openDialed, openInsert, openAdd, openStart, openInc, At,
        TypeRest, Phases, wheelVars, shutVars
  <2>2. Lifecycle'
    BY <1>0, <1>3
    DEF openRefused, openDialed, openInsert, openAdd, openStart, openInc, At,
        TypeRest, Lifecycle
  <2>3. Holders' = Holders /\ UNCHANGED limitVars
    BY <1>0, <1>3
    DEF openRefused, openDialed, openInsert, openAdd, openStart, openInc, At,
        TypeRest, Holders, Holding
  <2>. QED  BY <2>1, <2>2, <2>3, SameCounts, TypeJoin
<1>. QED  BY <1>1, <1>2, <1>3 DEF Open

\* The closing body, from wg.Wait to the gauge.
LEMMA BodyStep ==
  ASSUME ManagerIInv, NEW c \in Conns, Body(c)
  PROVE  ManagerIInv'
<1> USE DEF ManagerIInv
<1>0. TypeRest /\ Lifecycle  BY TypeSplit, Zenon
<1>1. CASE closeRelease(c)
  <2>1. TypeRest' /\ Lifecycle'
    BY <1>0, <1>1, Zenon DEF closeRelease, BodyAt, TypeRest, Lifecycle, Bodies, wheelVars, shutVars
  <2>2. c \in Holders /\ Holders' = Holders \ {c}
    BY <1>0, <1>1, Zenon DEF closeRelease, BodyAt, Holders, Holding, Lifecycle, TypeRest
  <2>3. ReleaseRelayConn(c)  BY <1>1, Zenon DEF closeRelease
  <2>. QED  BY <2>1, <2>2, <2>3, ReleaseCounts, TypeJoin, Zenon
<1>2. CASE closeDelete(c)
  <2>1. c \in conns  BY <1>0, <1>2, Zenon DEF closeDelete, BodyAt, Lifecycle
  <2>2. BodyAt(c, "delete", "store") /\ conns' = conns \ {c} /\ phase' = phase
    BY <1>2, <2>1, Zenon DEF closeDelete
  <2>3. TypeRest'
    BY <1>0, <1>2, <2>2, Zenon DEF closeDelete, BodyAt, TypeRest, Bodies, wheelVars, shutVars
  <2>4. Lifecycle'  BY <1>0, <2>2 DEF BodyAt, TypeRest, Lifecycle
  <2>5. Holders' = Holders /\ UNCHANGED limitVars
    BY <1>0, <1>2, <2>2 DEF closeDelete, BodyAt, TypeRest, Holders, Holding
  <2>. QED  BY <2>3, <2>4, <2>5, SameCounts, TypeJoin, Zenon
<1>3. CASE closeWaited(c) \/ closeStore(c) \/ closeDec(c)
  <2>1. TypeRest'
    BY <1>0, <1>3, ManagerAssumption
    DEF closeWaited, closeStore, closeDec, BodyAt, TypeRest, Bodies, wheelVars, shutVars
  <2>2. Lifecycle'
    BY <1>0, <1>3 DEF closeWaited, closeStore, closeDec, BodyAt, TypeRest, Lifecycle
  <2>3. Holders' = Holders /\ UNCHANGED limitVars
    BY <1>0, <1>3, Zenon
    DEF closeWaited, closeStore, closeDec, BodyAt, TypeRest, Holders, Holding
  <2>. QED  BY <2>1, <2>2, <2>3, SameCounts, TypeJoin, Zenon
<1>. QED  BY <1>1, <1>2, <1>3, Zenon DEF Body

\* Entering the Once, from a request, the wheel or Shutdown, and the overflow.
LEMMA EnterStep ==
  ASSUME TypeRest, Lifecycle, NEW c \in Conns, c \in conns,
         UNCHANGED <<phase, conns>>,
         \/ Enter(c)
         \/ body[c] \in {"idle", "wait"} /\ body' = [body EXCEPT ![c] = "stuck"]
  PROVE  Lifecycle' /\ Holders' = Holders /\ body' \in [Conns -> Bodies]
<1>1. \/ body' = body
      \/ body[c] = "idle" /\ body' = [body EXCEPT ![c] = "wait"]
      \/ body[c] \in {"idle", "wait"} /\ body' = [body EXCEPT ![c] = "stuck"]
  BY Zenon DEF Enter, TypeRest
<1>. QED  BY <1>1 DEF TypeRest, Lifecycle, Holders, Holding, Bodies

LEMMA ManagerInit == Init => ManagerIInv
<1> SUFFICES ASSUME Init PROVE ManagerIInv  OBVIOUS
<1>1. TypeOK  BY ManagerAssumption DEF Init, TypeOK, Phases, Bodies
<1>2. Lifecycle  BY Zenon DEF Init, Lifecycle
<1>3. Holders = {} /\ \A k : HoldersOf(k) = {}
  BY Zenon DEF Init, Holders, HoldersOf, Holding
<1>4. Accounting  BY <1>3, FS_EmptySet, Zenon DEF Init, Accounting
<1>5. Bounds  BY ManagerAssumption DEF Init, Bounds
<1>. QED  BY <1>1, <1>2, <1>4, <1>5, Zenon DEF ManagerIInv

LEMMA ManagerStep == ManagerIInv /\ [Next]_vars => ManagerIInv'
<1> SUFFICES ASSUME ManagerIInv, [Next]_vars PROVE ManagerIInv'  OBVIOUS
<1>0. TypeOK /\ TypeRest /\ Lifecycle /\ Accounting /\ Bounds
  BY TypeSplit, Zenon DEF ManagerIInv
<1>1. ASSUME NEW c \in Conns, touch(c)  PROVE ManagerIInv'
  <2>1. TypeRest'
    BY <1>0, <1>1, ManagerAssumption DEF touch, TypeRest, wheelVars, shutVars
  <2>2. Lifecycle' /\ Holders' = Holders /\ UNCHANGED limitVars
    BY <1>0, <1>1, Zenon DEF touch, Lifecycle, Holders
  <2>. QED  BY <1>0, <2>1, <2>2, SameCounts, TypeJoin, Zenon
<1>2. ASSUME NEW c \in Conns, closeByClient(c) \/ overflow(c)  PROVE ManagerIInv'
  <2>1. c \in conns
    BY <1>0, <1>2, Zenon DEF closeByClient, overflow, Lifecycle
  <2>2. Lifecycle' /\ Holders' = Holders /\ body' \in [Conns -> Bodies]
    BY <1>0, <1>2, <2>1, EnterStep, Zenon DEF closeByClient, overflow
  <2>3. TypeRest' /\ UNCHANGED limitVars
    BY <1>0, <1>2, <2>2, Zenon DEF closeByClient, overflow, TypeRest, wheelVars, shutVars
  <2>. QED  BY <1>0, <2>2, <2>3, SameCounts, TypeJoin, Zenon
<1>3. ASSUME NEW c \in Conns, idleCallback(c) \/ shutdownClose(c)  PROVE ManagerIInv'
  <2>1. Lifecycle' /\ Holders' = Holders /\ body' \in [Conns -> Bodies]
    <3>1. UNCHANGED <<phase, conns>>  BY <1>3, Zenon DEF idleCallback, shutdownClose
    <3>2. CASE c \in conns /\ Enter(c)  BY <1>0, <3>1, <3>2, EnterStep
    <3>3. CASE body' = body
      BY <1>0, <3>1, <3>3 DEF Lifecycle, Holders, TypeRest
    <3>. QED  BY <1>3, <3>2, <3>3, Zenon DEF idleCallback, shutdownClose
  <2>2. TypeRest' /\ UNCHANGED limitVars
    BY <1>0, <1>3, <2>1 DEF idleCallback, shutdownClose, TypeRest, wheelVars, shutVars
  <2>. QED  BY <1>0, <2>1, <2>2, SameCounts, TypeJoin, Zenon
<1>4. ASSUME \/ tick \/ idleReturn \/ wheelExit \/ shutdownBegin
             \/ shutdownReturn \/ shutdownWheel \/ UNCHANGED vars
      PROVE  ManagerIInv'
  <2>1. UNCHANGED <<phase, body, conns, limitVars>>
    BY <1>4, Zenon DEF tick, idleReturn, wheelExit, shutdownBegin, shutdownReturn, shutdownWheel, vars
  <2>2. Lifecycle' /\ Holders' = Holders  BY <1>0, <2>1, Zenon DEF Lifecycle, Holders
  <2>3. TypeRest'
    <3>1. CASE tick
      <4>1. \A c \in Conns : timer[c] \in Nat /\ timer[c] <= IdleTicks
        BY <1>0, ManagerAssumption DEF TypeRest
      <4>2. /\ timer' = [c \in Conns |-> IF timer[c] > 0 THEN timer[c] - 1 ELSE 0]
            /\ callbacks' \subseteq Conns
            /\ UNCHANGED <<phase, body, conns, byID, wheelOn, shutVars, active>>
        BY <3>1, Zenon DEF tick
      <4>3. timer' \in [Conns -> 0 .. IdleTicks]
        BY <4>1, <4>2, ManagerAssumption
      <4> QED BY <1>0, <4>2, <4>3, Zenon DEF TypeRest, shutVars
    <3>2. CASE ~tick
      <4>1. /\ UNCHANGED <<phase, body, conns, byID, timer, callbacks, active>>
            /\ wheelOn' \in {wheelOn, None} /\ shutOn' \in {shutOn, None} /\ todo' \in {todo, conns}
            /\ shutdown' \in {shutdown, "closing", "stopping", "done"}
        BY <1>4, <3>2, Zenon
        DEF idleReturn, wheelExit, shutdownBegin, shutdownReturn, shutdownWheel, vars, wheelVars, shutVars
      <4> QED BY <1>0, <4>1, Zenon DEF TypeRest
    <3> QED BY <3>1, <3>2, Zenon
  <2>. QED  BY <1>0, <2>1, <2>2, <2>3, SameCounts, TypeJoin
<1>. QED
  BY <1>1, <1>2, <1>3, <1>4, OpenStep, BodyStep, Zenon DEF Next, Shutdown, Terminated

LEMMA ManagerIInvKept == Spec => []ManagerIInv
BY ManagerInit, ManagerStep, PTL DEF Spec

\* Every variable keeps its type; in particular the slot counters, decremented
\* by ReleaseRelayConn, stay natural numbers.
THEOREM ManagerTypeOK == Spec => []TypeOK
<1>1. ManagerIInv => TypeOK  BY Zenon DEF ManagerIInv
<1>. QED  BY <1>1, ManagerIInvKept, PTL

\* The counters of limits.Manager are exactly the requests and connections that
\* hold a slot, in total and for each client: no slot leaks and none is given
\* back twice, however Open, the closes, the wheel and Shutdown interleave.
THEOREM ManagerAccounting == Spec => []Accounting
<1>1. ManagerIInv => Accounting  BY Zenon DEF ManagerIInv
<1>. QED  BY <1>1, ManagerIInvKept, PTL

\* Never more connections, dialling ones included, than MaxTotalConns in all and
\* MaxConnsPerClient for one client; and every connection in m.conns holds a slot.
THEOREM ManagerLimitsKept == Spec => []LimitsKept
<1>1. ManagerIInv => LimitsKept
  <2> SUFFICES ASSUME ManagerIInv PROVE LimitsKept  OBVIOUS
  <2>1. conns \subseteq Holders  BY Zenon DEF ManagerIInv, TypeOK, Lifecycle, Holders, Holding
  <2>. QED  BY <2>1, Zenon DEF ManagerIInv, Accounting, Bounds, LimitsKept
<1>. QED  BY <1>1, ManagerIInvKept, PTL

\* The slots of limits.Manager: counted exactly, given back once, within the limits.
THEOREM ManagerSlotsExact == Spec => []SlotsExact
<1>1. TypeOK /\ Accounting /\ LimitsKept => SlotsExact  BY Zenon DEF SlotsExact
<1>. QED  BY <1>1, ManagerTypeOK, ManagerAccounting, ManagerLimitsKept, PTL
-----------------------------------------------------------------------------
(* No connection is forgotten.                                             *)

\* The requests whose connection the store knows or has known.
Added == {"start", "inc", "open"}

\* The store, the wheel and the callbacks know only connections that Open has
\* added, and a timer runs only for a connection of the store.
Stored ==
  \A c \in Conns :
    /\ c \in byID \/ timer[c] > 0 \/ c \in callbacks => phase[c] \in Added
    /\ timer[c] > 0 => c \in byID

\* Until Shutdown begins nothing is closed before it is in the store, and past
\* ttlStore.Delete neither the store nor the wheel knows the connection.
Swept ==
  shutdown = "no" =>
    \A c \in Conns :
      /\ body[c] # "idle" => phase[c] \in Added
      /\ body[c] \in {"release", "dec", "done"} => c \notin byID /\ timer[c] = 0

\* The gauge is the number of increments less the number of decrements.
Opened == {c \in Conns : phase[c] = "open"}
Closed == {c \in Conns : body[c] = "done"}
Gauge == active = Cardinality(Opened) - Cardinality(Closed)

\* A second invariant, on top of ManagerIInv: what the store, the wheel and the gauge
\* know of each connection.
Tracked == IdleCovered /\ Stored /\ Swept /\ Gauge

LEMMA GaugeSame ==
  ASSUME Gauge, active' = active, Opened' = Opened, Closed' = Closed
  PROVE  Gauge'
BY Zenon DEF Gauge

\* The one increment, of openInc, and the one decrement, of closeDec.
LEMMA GaugeMoves ==
  ASSUME Gauge, NEW c \in Conns,
         \/ /\ active' = active + 1 /\ Closed' = Closed
            /\ c \notin Opened /\ Opened' = Opened \cup {c}
         \/ /\ active' = active - 1 /\ Opened' = Opened
            /\ c \notin Closed /\ Closed' = Closed \cup {c}
  PROVE  Gauge'
<1>1. IsFiniteSet(Opened) /\ IsFiniteSet(Closed)
  BY ManagerAssumption, FS_Subset, Zenon DEF Opened, Closed
<1>2. Cardinality(Opened) \in Nat /\ Cardinality(Closed) \in Nat
  BY <1>1, FS_CardinalityType, Zenon
<1>3. c \notin Opened => Cardinality(Opened \cup {c}) = Cardinality(Opened) + 1
  BY <1>1, FS_AddElement, Zenon
<1>4. c \notin Closed => Cardinality(Closed \cup {c}) = Cardinality(Closed) + 1
  BY <1>1, FS_AddElement, Zenon
<1>5. /\ active = Cardinality(Opened) - Cardinality(Closed)
      /\ active' = Cardinality(Opened') - Cardinality(Closed') => Gauge'
  BY Zenon DEF Gauge
<1>6. CASE /\ active' = active + 1 /\ Closed' = Closed
           /\ c \notin Opened /\ Opened' = Opened \cup {c}
  <2>1. Cardinality(Opened') = Cardinality(Opened) + 1 /\ Cardinality(Closed') = Cardinality(Closed)
    BY <1>3, <1>6, Zenon
  <2>. QED  BY <1>2, <1>5, <1>6, <2>1
<1>7. CASE /\ active' = active - 1 /\ Opened' = Opened
           /\ c \notin Closed /\ Closed' = Closed \cup {c}
  <2>1. Cardinality(Closed') = Cardinality(Closed) + 1 /\ Cardinality(Opened') = Cardinality(Opened)
    BY <1>4, <1>7, Zenon
  <2>. QED  BY <1>2, <1>5, <1>7, <2>1
<1>. QED  BY <1>6, <1>7, Zenon

LEMMA OpenTracked ==
  ASSUME ManagerIInv, Tracked, NEW c \in Conns, Open(c)
  PROVE  Tracked'
<1>0. TypeRest /\ Lifecycle  BY TypeSplit, Zenon DEF ManagerIInv
<1>1. CASE openInc(c)
  <2>1. IdleCovered' /\ Stored' /\ Swept'
    BY <1>0, <1>1, Zenon DEF openInc, At, TypeRest, Tracked, IdleCovered, Stored, Swept,
                      Added, wheelVars, shutVars
  <2>2. /\ active' = active + 1 /\ Closed' = Closed
        /\ c \notin Opened /\ Opened' = Opened \cup {c}
    BY <1>0, <1>1, Zenon DEF openInc, At, TypeRest, Opened, Closed
  <2>. QED  BY <2>1, <2>2, GaugeMoves, Zenon DEF Tracked
<1>2. CASE openAdd(c)
  <2>1. IdleCovered' /\ Stored' /\ Swept'
    BY <1>0, <1>2, ManagerAssumption
    DEF openAdd, At, TypeRest, Tracked, IdleCovered, Stored, Swept, Added, wheelVars, shutVars
  <2>2. active' = active /\ Opened' = Opened /\ Closed' = Closed
    BY <1>0, <1>2, Zenon DEF openAdd, At, TypeRest, Opened, Closed
  <2>. QED  BY <2>1, <2>2, GaugeSame, Zenon DEF Tracked
<1>3. CASE openReserve(c) \/ openRefused(c) \/ openFailed(c) \/ openDialed(c)
             \/ openInsert(c) \/ openStart(c)
  <2>1. PICK from \in Phases, to \in Phases :
          /\ At(c, from, to) /\ to # "open" /\ from # "open"
          /\ from \notin Added => to \notin Added
          /\ from \in Added => to \in Added
    BY <1>3, Zenon DEF openReserve, openRefused, openFailed, openDialed, openInsert, openStart,
                At, Phases, Added
  <2>2. UNCHANGED <<body, byID, timer, callbacks, shutdown, active>>
    BY <1>3, Zenon DEF openReserve, openRefused, openFailed, openDialed, openInsert, openStart,
                wheelVars, shutVars
  <2>3. IdleCovered' /\ Stored' /\ Swept'
    BY <1>0, <2>1, <2>2, Zenon DEF At, TypeRest, Tracked, IdleCovered, Stored, Swept, Added
  <2>4. Opened' = Opened /\ Closed' = Closed
    BY <1>0, <2>1, <2>2, Zenon DEF At, TypeRest, Opened, Closed
  <2>. QED  BY <2>2, <2>3, <2>4, GaugeSame, Zenon DEF Tracked
<1>. QED  BY <1>1, <1>2, <1>3, Zenon DEF Open

LEMMA BodyTracked ==
  ASSUME ManagerIInv, Tracked, NEW c \in Conns, Body(c)
  PROVE  Tracked'
<1>0. TypeRest /\ Lifecycle  BY TypeSplit, Zenon DEF ManagerIInv
<1>1. CASE closeDec(c)
  <2>1. IdleCovered' /\ Stored' /\ Swept'
    BY <1>0, <1>1, Zenon DEF closeDec, BodyAt, TypeRest, Tracked, IdleCovered, Stored, Swept,
                      wheelVars, shutVars
  <2>2. /\ active' = active - 1 /\ Opened' = Opened
        /\ c \notin Closed /\ Closed' = Closed \cup {c}
    BY <1>0, <1>1, Zenon DEF closeDec, BodyAt, TypeRest, Opened, Closed
  <2>. QED  BY <2>1, <2>2, GaugeMoves, Zenon DEF Tracked
<1>2. CASE closeStore(c)
  <2>1. /\ BodyAt(c, "store", "release") /\ byID' = byID \ {c}
        /\ timer' = IF c \in byID THEN [timer EXCEPT ![c] = 0] ELSE timer
        /\ UNCHANGED <<phase, callbacks, shutdown, active>>
    BY <1>2, Zenon DEF closeStore, wheelVars, shutVars
  <2>2. timer' = [timer EXCEPT ![c] = 0]
    <3>1. c \notin byID => timer[c] = 0
      BY <1>0, ManagerAssumption DEF TypeRest, Tracked, Stored
    <3>. QED  BY <1>0, <2>1, <3>1, Zenon DEF TypeRest
  <2>3. IdleCovered' /\ Stored' /\ Swept'
    BY <1>0, <2>1, <2>2 DEF BodyAt, TypeRest, Tracked, IdleCovered, Stored, Swept
  <2>4. Opened' = Opened /\ Closed' = Closed
    BY <1>0, <2>1, Zenon DEF BodyAt, TypeRest, Opened, Closed
  <2>. QED  BY <2>1, <2>3, <2>4, GaugeSame, Zenon DEF Tracked
<1>3. CASE closeWaited(c) \/ closeDelete(c) \/ closeRelease(c)
  <2>1. closeDelete(c) => c \in conns
    BY <1>0, Zenon DEF closeDelete, BodyAt, Lifecycle
  <2>2. PICK from \in Bodies, to \in Bodies :
          /\ BodyAt(c, from, to) /\ from # "idle" /\ to # "idle"
          /\ from # "done" /\ to # "done"
          /\ to = "dec" => from = "release" /\ to # "release"
          /\ to # "release"
    BY <1>3, <2>1, Zenon DEF closeWaited, closeDelete, closeRelease, Bodies
  <2>3. UNCHANGED <<phase, byID, timer, callbacks, shutdown, active>>
    BY <1>3, Zenon DEF closeWaited, closeDelete, closeRelease, wheelVars, shutVars
  <2>4. IdleCovered' /\ Stored' /\ Swept'
    BY <1>0, <2>2, <2>3, Zenon DEF BodyAt, TypeRest, Tracked, IdleCovered, Stored, Swept
  <2>5. Opened' = Opened /\ Closed' = Closed
    BY <1>0, <2>2, <2>3, Zenon DEF BodyAt, TypeRest, Opened, Closed
  <2>. QED  BY <2>3, <2>4, <2>5, GaugeSame, Zenon DEF Tracked
<1>. QED  BY <1>1, <1>2, <1>3, Zenon DEF Body

\* A closer enters the Once, or the reader gets stuck: the body is no longer idle.
LEMMA EnterTracked ==
  ASSUME ManagerIInv, Tracked, NEW c \in Conns, phase[c] \in Added \/ shutdown' # "no",
         UNCHANGED <<phase, byID, timer, active>>,
         callbacks' = callbacks \/ callbacks' = callbacks \ {c},
         shutdown' = shutdown,
         \/ Enter(c)
         \/ body[c] \in {"idle", "wait"} /\ body' = [body EXCEPT ![c] = "stuck"]
  PROVE  Tracked'
<1>0. TypeRest  BY TypeSplit, Zenon DEF ManagerIInv
<1>1. \/ body' = body /\ body[c] # "idle"
      \/ body[c] = "idle" /\ body' = [body EXCEPT ![c] = "wait"]
      \/ body[c] \in {"idle", "wait"} /\ body' = [body EXCEPT ![c] = "stuck"]
  BY <1>0, Zenon DEF Enter, TypeRest
<1>2. IdleCovered'
  BY <1>0, <1>1, Zenon DEF TypeRest, Tracked, IdleCovered
<1>3. Stored'  BY <1>0, Zenon DEF TypeRest, Tracked, Stored
<1>4. Swept'  BY <1>0, <1>1 DEF TypeRest, Tracked, Swept
<1>5. Opened' = Opened /\ Closed' = Closed
  BY <1>0, <1>1, Zenon DEF TypeRest, Opened, Closed
<1>. QED  BY <1>2, <1>3, <1>4, <1>5, GaugeSame, Zenon DEF Tracked

LEMMA InitTracked == Init => Tracked
<1> SUFFICES ASSUME Init PROVE Tracked  OBVIOUS
<1>1. IdleCovered /\ Stored /\ Swept
  BY DEF Init, IdleCovered, Stored, Swept, Added
<1>2. Opened = {} /\ Closed = {}  BY Zenon DEF Init, Opened, Closed
<1>3. Gauge  BY <1>2, FS_EmptySet DEF Init, Gauge
<1>. QED  BY <1>1, <1>3, Zenon DEF Tracked

LEMMA NextTracked == ManagerIInv /\ Tracked /\ [Next]_vars => Tracked'
<1> SUFFICES ASSUME ManagerIInv, Tracked, [Next]_vars PROVE Tracked'  OBVIOUS
<1>0. TypeRest /\ Lifecycle  BY TypeSplit, Zenon DEF ManagerIInv
<1>1. ASSUME NEW c \in Conns, touch(c)  PROVE Tracked'
  <2>1. IdleCovered' /\ Stored' /\ Swept'
    BY <1>0, <1>1, ManagerAssumption
    DEF touch, TypeRest, Tracked, IdleCovered, Stored, Swept, wheelVars, shutVars
  <2>2. active' = active /\ Opened' = Opened /\ Closed' = Closed
    BY <1>1, Zenon DEF touch, Opened, Closed
  <2>. QED  BY <2>1, <2>2, GaugeSame, Zenon DEF Tracked
<1>2. ASSUME NEW c \in Conns, closeByClient(c) \/ overflow(c)  PROVE Tracked'
  BY <1>2, EnterTracked, Zenon DEF closeByClient, overflow, Added, wheelVars, shutVars
<1>3. ASSUME NEW c \in Conns, idleCallback(c)  PROVE Tracked'
  <2>1. phase[c] \in Added  BY <1>3, Zenon DEF idleCallback, Tracked, Stored
  <2>2. /\ callbacks' = callbacks \ {c}
        /\ UNCHANGED <<phase, byID, timer, shutdown, active>>
    BY <1>3, Zenon DEF idleCallback, shutVars
  <2>3. CASE Enter(c)  BY <2>1, <2>2, <2>3, EnterTracked, Zenon
  <2>4. CASE c \notin conns /\ body' = body
    <3>1. body[c] # "idle"  BY <1>0, <2>1, <2>4, Zenon DEF Lifecycle, Added
    <3>2. Enter(c)  BY <1>0, <2>4, <3>1, Zenon DEF Enter, TypeRest
    <3>. QED  BY <2>3, <3>2, Zenon
  <2>. QED  BY <1>3, <2>3, <2>4, Zenon DEF idleCallback
<1>4. ASSUME NEW c \in Conns, shutdownClose(c)  PROVE Tracked'
  <2>1. /\ shutdown' = shutdown /\ shutdown # "no"
        /\ UNCHANGED <<phase, byID, timer, callbacks, active>>
    BY <1>4, Zenon DEF shutdownClose, wheelVars
  <2>2. CASE Enter(c)  BY <2>1, <2>2, EnterTracked, Zenon
  <2>3. CASE body' = body
    <3>1. IdleCovered' /\ Stored' /\ Swept'
      BY <2>1, <2>3, Zenon DEF Tracked, IdleCovered, Stored, Swept
    <3>2. Opened' = Opened /\ Closed' = Closed  BY <2>1, <2>3, Zenon DEF Opened, Closed
    <3>. QED  BY <2>1, <3>1, <3>2, GaugeSame, Zenon DEF Tracked
  <2>. QED  BY <1>4, <2>2, <2>3, Zenon DEF shutdownClose
<1>5. ASSUME tick  PROVE Tracked'
  <2>1. /\ callbacks = {} /\ callbacks' = {c \in Conns : timer[c] = 1}
        /\ timer' = [c \in Conns |-> IF timer[c] > 0 THEN timer[c] - 1 ELSE 0]
        /\ UNCHANGED <<phase, body, byID, shutdown, active>>
    BY <1>5, Zenon DEF tick, WheelIdle, shutVars
  <2>2. \A c \in Conns : timer[c] \in Nat  BY <1>0, ManagerAssumption DEF TypeRest
  <2>3. IdleCovered'
    <3>1. ASSUME NEW c \in Conns, timer[c] > 0 PROVE timer'[c] > 0 \/ timer[c] = 1
      BY <2>1, <2>2, <3>1
    <3>2. \A c \in Conns : c \notin callbacks /\ (timer[c] = 1 => c \in callbacks')
      BY <2>1, Zenon
    <3> QED BY <2>1, <3>1, <3>2, Zenon DEF Tracked, IdleCovered
  <2>4. Stored' /\ Swept'  BY <2>1, <2>2 DEF Tracked, Stored, Swept
  <2>5. Opened' = Opened /\ Closed' = Closed  BY <2>1, Zenon DEF Opened, Closed
  <2>. QED  BY <2>1, <2>3, <2>4, <2>5, GaugeSame, Zenon DEF Tracked
<1>6. ASSUME \/ idleReturn \/ wheelExit \/ shutdownBegin
             \/ shutdownReturn \/ shutdownWheel \/ UNCHANGED vars
      PROVE  Tracked'
  <2>1. /\ UNCHANGED <<phase, body, byID, timer, callbacks, active>>
        /\ shutdown' = "no" => shutdown = "no"
    BY <1>6, Zenon DEF idleReturn, wheelExit, shutdownBegin, shutdownReturn, shutdownWheel,
                vars, wheelVars, shutVars
  <2>2. IdleCovered' /\ Stored' /\ Swept'
    BY <2>1, Zenon DEF Tracked, IdleCovered, Stored, Swept
  <2>3. Opened' = Opened /\ Closed' = Closed  BY <2>1, Zenon DEF Opened, Closed
  <2>. QED  BY <2>1, <2>2, <2>3, GaugeSame, Zenon DEF Tracked
<1>. QED
  BY <1>1, <1>2, <1>3, <1>4, <1>5, <1>6, OpenTracked, BodyTracked, Zenon
  DEF Next, Shutdown, Terminated

LEMMA SpecTracked == Spec => []Tracked
BY InitTracked, NextTracked, ManagerIInvKept, PTL DEF Spec

\* With no request and no close under way the table is what has been opened
\* and not closed.
LEMMA GaugeIsTable ==
  ASSUME ManagerIInv, Tracked,
         \A c \in Conns : /\ phase[c] \in {"new", "refused", "failed", "open"}
                          /\ body[c] \in {"idle", "done", "stuck"}
  PROVE  active = Cardinality(conns)
<1>1. conns \subseteq Conns /\ Lifecycle  BY Zenon DEF ManagerIInv, TypeOK
<1>2. conns = Opened \ Closed /\ Opened \cap Closed = Closed
  BY <1>1, Zenon DEF Lifecycle, Opened, Closed
<1>3. IsFiniteSet(Opened)  BY ManagerAssumption, FS_Subset, Zenon DEF Opened
<1>4. Cardinality(conns) = Cardinality(Opened) - Cardinality(Closed)
  BY <1>2, <1>3, FS_Difference
<1>. QED  BY <1>4, Zenon DEF Tracked, Gauge

\* No connection is forgotten: one that nobody closes has a timer or a pending
\* idle callback, a closed one is in no table, store or wheel unless Shutdown has
\* begun, and the gauge is the table whenever no request and no close is under way.
THEOREM ManagerNoneForgotten == Spec => []NoneForgotten
<1>1. ManagerIInv /\ Tracked => NoneForgotten
  <2> SUFFICES ASSUME ManagerIInv, Tracked PROVE NoneForgotten  OBVIOUS
  <2>1. IdleCovered  BY Zenon DEF Tracked
  <2>2. NothingLeft  BY Zenon DEF ManagerIInv, Lifecycle, Tracked, Swept, NothingLeft
  <2>3. GaugeSettles  BY GaugeIsTable, Zenon DEF GaugeSettles
  <2>. QED  BY <2>1, <2>2, <2>3, Zenon DEF NoneForgotten
<1>. QED  BY <1>1, ManagerIInvKept, SpecTracked, PTL
=============================================================================
