------------------------------- MODULE Gateway -------------------------------
(***************************************************************************)
(* The gateway process: main (cmd/gateway/main.go) with its HTTP server    *)
(* and the two Shutdowns, the session server with its lanes                *)
(* (internal/session/server.go), and the idle timers of the sessions       *)
(* (internal/store/session_store.go).                                      *)
(*                                                                         *)
(* Relay connections and sessions are seen through what RelayManager,      *)
(* TCPSession and QUICSession establish: a Close returns, except that of a *)
(* relay connection that has overflowed and that of a TCP session whose    *)
(* loop calls Close as well.  A request to the relay is an Open; the other *)
(* requests end by themselves.                                             *)
(***************************************************************************)
EXTENDS Integers, FiniteSets

CONSTANTS Setups,   \* the lanes, sessions and relay connections of a behaviour,
                    \* whether its sessions run at the beginning, with their lanes,
                    \* and whether a server may fail in it
          Lane(_)   \* the lane of a session, "quic" or "tcp"; sessions are numbers

Lanes == UNION {c.lanes : c \in Setups}
Sessions == UNION {c.sessions : c \in Setups}
Relays == UNION {c.relays : c \in Setups}

VARIABLES
  fails,    \* a server may fail to listen
  main,     \* main, and the connections or sessions its Shutdown is to close
  ctx,      \* the signal context is done
  errCh,    \* errors that main has not read
  start,    \* Start: remaining, and its errCh
  runCtx,   \* the lanes' context is done
  lane,     \* serveQUIC and serveTCP
  ln,       \* the lanes' listeners
  fields,   \* s.quicListener and s.tcpListener, as far as they are set
  http,     \* the HTTP server: "open", "closed", or "late": Shutdown gave up
  relay,    \* the relay's connections
  sess,     \* Run of a session
  table,    \* s.sessions
  timers,   \* sessions with a timer in the wheel
  quiet,    \* sessions over which nothing passes: client and targets are silent
  closing,  \* closeOnce of a session
  wheel,    \* the session whose callback runs; the wheel's goroutine
  told,     \* sessions that have sent AUTH_OK, until Close has returned
  seen      \* history: those that had when Shutdown took its snapshot

sessions == <<sess, table, timers, quiet, told>>
lanes == <<start, runCtx, lane, ln, fields>>
gvars == <<fails, main, seen, ctx, errCh, lanes, http, relay, sessions, closing, wheel>>

GTypeOK ==
  /\ main.pc \in {"select", "http", "relay", "relayClose", "listeners", "snapshot", "close", "store", "exit"}
  /\ main.todo \subseteq Relays \cup Sessions /\ main.cur \subseteq Relays \cup Sessions
  /\ fails \in BOOLEAN /\ ctx \in BOOLEAN /\ runCtx \in BOOLEAN /\ errCh \in 0 .. 2
  /\ start.left \in 0 .. 2 /\ start.nils \in 0 .. 2 /\ start.errs \in 0 .. 2
  /\ lane \in [Lanes -> {"off", "listen", "accept", "ended"}] /\ ln \in [Lanes -> {"none", "open", "closed"}]
  /\ fields \subseteq Lanes /\ http \in {"open", "closed", "late"}
  /\ relay \in [Relays -> {"none", "request", "open", "stuck", "closed"}]
  /\ sess \in [Sessions -> {"none", "auth", "inserted", "stored", "run", "deleted", "done"}]
  /\ table \subseteq Sessions /\ timers \subseteq Sessions /\ told \subseteq Sessions /\ quiet \subseteq Sessions
  /\ closing \in [Sessions -> {"no", "busy", "stuck", "done"}] /\ wheel.cur \subseteq Sessions

GInit ==
  /\ main = [pc |-> "select", todo |-> {}, cur |-> {}] /\ ctx = FALSE /\ errCh = 0
  /\ runCtx = FALSE /\ http = "open" /\ quiet = {} /\ seen = {}
  /\ \E c \in Setups :
       LET up == IF c.up THEN c.sessions ELSE {}
           listening == IF c.up THEN c.lanes ELSE {}
       IN  /\ lane = [l \in Lanes |-> IF l \notin c.lanes THEN "off" ELSE IF c.up THEN "accept" ELSE "listen"]
           /\ ln = [l \in Lanes |-> IF l \in listening THEN "open" ELSE "none"] /\ fields = listening
           /\ start = [left |-> Cardinality(c.lanes), nils |-> 0, errs |-> 0] /\ fails = c.fails
           /\ sess = [s \in Sessions |-> IF s \notin c.sessions THEN "done" ELSE IF c.up THEN "run" ELSE "none"]
           /\ table = up /\ timers = up /\ told = up
           /\ relay = [r \in Relays |-> IF r \in c.relays THEN "none" ELSE "closed"]
  /\ closing = [s \in Sessions |-> "no"] /\ wheel = [on |-> TRUE, cur |-> {}]

Exit == main.pc = "exit"
-----------------------------------------------------------------------------
(* The session server's lanes.                                             *)

\* Start waits for the end of the lanes, for an error of one, or for ctx.
startReturn(err) ==
  /\ start' = [start EXCEPT !.left = 0, !.errs = IF err THEN @ - 1 ELSE @]
  /\ runCtx' = TRUE /\ errCh' = IF err THEN errCh + 1 ELSE errCh

Start ==
  /\ start.left > 0
  /\ \/ runCtx /\ startReturn(FALSE)
     \/ start.errs > 0 /\ startReturn(TRUE)
     \/ /\ start.nils > 0 /\ start' = [start EXCEPT !.left = @ - 1, !.nils = @ - 1]
        /\ runCtx' = (runCtx \/ start.left = 1) /\ UNCHANGED errCh
  /\ UNCHANGED <<fails, main, seen, ctx, lane, ln, fields, http, relay, sessions, closing, wheel>>

\* A lane listens, or cannot.
listen(l) ==
  /\ lane[l] = "listen"
  /\ \/ /\ lane' = [lane EXCEPT ![l] = "accept"] /\ ln' = [ln EXCEPT ![l] = "open"]
        /\ fields' = fields \cup {l} /\ UNCHANGED start
     \/ /\ fails /\ lane' = [lane EXCEPT ![l] = "ended"] /\ start' = [start EXCEPT !.errs = @ + 1]
        /\ UNCHANGED <<ln, fields>>
  /\ UNCHANGED <<fails, main, seen, ctx, errCh, runCtx, http, relay, sessions, closing, wheel>>

\* A plausible slip: nothing closes the listener when ctx is done.
laneEndsClosed(l) ==
  /\ lane[l] = "accept" /\ ln[l] = "closed"
  /\ lane' = [lane EXCEPT ![l] = "ended"] /\ start' = [start EXCEPT !.nils = @ + 1]
  /\ UNCHANGED <<fails, main, seen, ctx, errCh, runCtx, ln, fields, http, relay, sessions, closing, wheel>>

\* Shutdown, or the goroutine that waits for ctx, closes the listener; Accept
\* fails for good and the lane ends without an error.
laneEnds(l) ==
  /\ lane[l] = "accept" /\ (ln[l] = "closed" \/ runCtx)
  /\ lane' = [lane EXCEPT ![l] = "ended"] /\ ln' = [ln EXCEPT ![l] = "closed"]
  /\ start' = [start EXCEPT !.nils = @ + 1]
  /\ UNCHANGED <<fails, main, seen, ctx, errCh, runCtx, fields, http, relay, sessions, closing, wheel>>

\* Sessions are numbered in the order in which they are accepted.
accept(s) ==
  /\ sess[s] = "none" /\ (\A t \in Sessions : sess[t] = "none" => s <= t)
  /\ lane[Lane(s)] = "accept" /\ ln[Lane(s)] = "open"
  /\ sess' = [sess EXCEPT ![s] = "auth"]
  /\ UNCHANGED <<fails, main, seen, ctx, errCh, lanes, http, relay, table, timers, quiet, told, closing, wheel>>

-----------------------------------------------------------------------------
(* A session: Run, with its registration, and Close.                       *)

Step(s, from, to) == sess[s] = from /\ sess' = [sess EXCEPT ![s] = to]

\* What a call of Close does; the caller goes on when closing[s] is "done".
callClose(s) == closing' = [closing EXCEPT ![s] = IF @ = "no" THEN "busy" ELSE @]

\* AUTH is refused, does not come in time, or is good: registerSession
authenticate(s) ==
  /\ \/ Step(s, "auth", "done") /\ callClose(s) /\ UNCHANGED table
     \/ Step(s, "auth", "inserted") /\ table' = table \cup {s} /\ UNCHANGED closing
  /\ UNCHANGED <<fails, main, seen, ctx, errCh, lanes, http, relay, timers, quiet, told, wheel>>

\* A plausible slip: no timer is set.
addNothing(s) ==
  /\ Step(s, "inserted", "stored") /\ UNCHANGED timers
  /\ UNCHANGED <<fails, main, seen, ctx, errCh, lanes, http, relay, table, quiet, told, closing, wheel>>

\* SessionStore.Add; a stopped wheel takes timers as well.
Add(s) ==
  /\ Step(s, "inserted", "stored") /\ timers' = timers \cup {s}
  /\ UNCHANGED <<fails, main, seen, ctx, errCh, lanes, http, relay, table, quiet, told, closing, wheel>>

\* The gauge is raised and AUTH_OK written, which fails when Close was first.
authOK(s) ==
  /\ \/ closing[s] = "no" /\ Step(s, "stored", "run") /\ told' = told \cup {s}
     \/ Step(s, "stored", "deleted") /\ UNCHANGED told
  /\ table' = IF sess'[s] = "deleted" THEN table \ {s} ELSE table
  /\ UNCHANGED <<fails, main, seen, ctx, errCh, lanes, http, relay, timers, quiet, closing, wheel>>

\* Nothing passes over the session any more: neither frames and datagrams of the
\* client nor data of its targets, which touch the timer too.
fallSilent(s) ==
  /\ sess[s] = "run" /\ quiet' = quiet \cup {s}
  /\ UNCHANGED <<fails, main, seen, ctx, errCh, lanes, http, relay, sess, table, timers, told, closing, wheel>>

\* The client or a target sends again: a timer that has not fired is put off.
touchSession(s) ==
  /\ sess[s] = "run" /\ s \in quiet /\ quiet' = quiet \ {s}
  /\ UNCHANGED <<fails, main, seen, ctx, errCh, lanes, http, relay, sess, table, timers, told, closing, wheel>>

\* The client leaves, or Close was called: unregisterSession, its first part
unregister(s) ==
  /\ Step(s, "run", "deleted") /\ table' = table \ {s} /\ quiet' = quiet \ {s}
  /\ UNCHANGED <<fails, main, seen, ctx, errCh, lanes, http, relay, timers, told, closing, wheel>>

\* SessionStore.Delete, CleanupSession, the gauge, and the Close of Run
Delete(s) ==
  /\ Step(s, "deleted", "done") /\ timers' = timers \ {s} /\ callClose(s)
  /\ UNCHANGED <<fails, main, seen, ctx, errCh, lanes, http, relay, table, quiet, told, wheel>>

closed(s) ==
  /\ closing[s] = "busy" /\ closing' = [closing EXCEPT ![s] = "done"] /\ told' = told \ {s}
  /\ UNCHANGED <<fails, main, seen, ctx, errCh, lanes, http, relay, sess, table, timers, quiet, wheel>>

\* A loop of a TCP session calls Close: first, or while Close waits for it.
loopCloses(s) ==
  /\ Lane(s) = "tcp" /\ s \in told /\ closing[s] \in {"no", "busy"}
  /\ closing' = [closing EXCEPT ![s] = "stuck"]
  /\ UNCHANGED <<fails, main, seen, ctx, errCh, lanes, http, relay, sessions, wheel>>

-----------------------------------------------------------------------------
(* The relay's connections and the wheel of the sessions.                  *)

\* An Open begins, fails or inserts its connection; a connection overflows, or
\* is closed by its client, its target or its timer.
relayStep(r) ==
  /\ \E step \in {<<"none", "request">>, <<"request", "closed">>, <<"request", "open">>, <<"open", "stuck">>, <<"open", "closed">>} :
       /\ relay[r] = step[1] /\ relay' = [relay EXCEPT ![r] = step[2]]
       /\ step[1] = "none" => http = "open"
  /\ UNCHANGED <<fails, main, seen, ctx, errCh, lanes, http, sessions, closing, wheel>>

\* The timer of a silent session is due: the callback closes the session, on the
\* wheel's goroutine.
expire(s) ==
  /\ wheel.on /\ wheel.cur = {} /\ s \in timers \cap quiet
  /\ wheel' = [wheel EXCEPT !.cur = {s}] /\ timers' = timers \ {s} /\ callClose(s)
  /\ UNCHANGED <<fails, main, seen, ctx, errCh, lanes, http, relay, sess, table, quiet, told>>

callbackReturns ==
  /\ wheel.cur # {} /\ \A s \in wheel.cur : closing[s] = "done"
  /\ wheel' = [wheel EXCEPT !.cur = {}]
  /\ UNCHANGED <<fails, main, seen, ctx, errCh, lanes, http, relay, sessions, closing>>

-----------------------------------------------------------------------------
(* main.                                                                   *)

GotoMain(from, to) == main.pc = from /\ main' = [main EXCEPT !.pc = to]

signal ==
  /\ ~ctx /\ ctx' = TRUE /\ runCtx' = TRUE
  /\ UNCHANGED <<fails, main, seen, errCh, start, lane, ln, fields, http, relay, sessions, closing, wheel>>

\* A plausible slip: the server is started again, and fails again.
httpFailsAgain ==
  /\ fails /\ http = "open" /\ errCh' = errCh + 1
  /\ UNCHANGED <<fails, main, seen, ctx, lanes, http, relay, sessions, closing, wheel>>

\* ListenAndServe fails; once, and not after its Shutdown.
httpFails ==
  /\ fails /\ http = "open" /\ http' = "closed" /\ errCh' = errCh + 1
  /\ UNCHANGED <<fails, main, seen, ctx, lanes, relay, sessions, closing, wheel>>

\* The select of main, stop, and the beginning of httpSrv.Shutdown
stop ==
  /\ GotoMain("select", "http")
  /\ \/ ctx /\ UNCHANGED errCh
     \/ errCh > 0 /\ errCh' = errCh - 1
  /\ ctx' = TRUE /\ runCtx' = TRUE /\ http' = "closed"
  /\ UNCHANGED <<fails, seen, start, lane, ln, fields, relay, sessions, closing, wheel>>

\* It waits for the requests, or for the end of its context.
httpShutdown ==
  /\ GotoMain("http", "relay")
  /\ \/ (\A r \in Relays : relay[r] # "request") /\ UNCHANGED http
     \/ (\E r \in Relays : relay[r] = "request") /\ http' = "late"
  /\ UNCHANGED <<fails, seen, ctx, errCh, lanes, relay, sessions, closing, wheel>>

\* relayManager.Shutdown: its snapshot, then one Close after the other
relaySnapshot ==
  /\ main.pc = "relay"
  /\ main' = [main EXCEPT !.pc = "relayClose", !.todo = {r \in Relays : relay[r] \in {"open", "stuck"}}]
  /\ UNCHANGED <<fails, seen, ctx, errCh, lanes, http, relay, sessions, closing, wheel>>

relayClose ==
  /\ main.pc = "relayClose"
  /\ \/ \E r \in main.todo : /\ relay[r] # "stuck" /\ relay' = [relay EXCEPT ![r] = "closed"]
                             /\ main' = [main EXCEPT !.todo = @ \ {r}]
     \/ main.todo = {} /\ main' = [main EXCEPT !.pc = "listeners"] /\ UNCHANGED relay
  /\ UNCHANGED <<fails, seen, ctx, errCh, lanes, http, sessions, closing, wheel>>

\* sessionServer.Shutdown: the listeners it knows, its snapshot and the Closes
closeListeners ==
  /\ GotoMain("listeners", "snapshot")
  /\ ln' = [l \in Lanes |-> IF l \in fields THEN "closed" ELSE ln[l]]
  /\ UNCHANGED <<fails, seen, ctx, errCh, start, runCtx, lane, fields, http, relay, sessions, closing, wheel>>

\* A plausible slip: a session whose timer has fired is left to the wheel.
snapshotTimers ==
  /\ main.pc = "snapshot"
  /\ main' = [main EXCEPT !.pc = "close", !.todo = table \cap timers] /\ seen' = told
  /\ UNCHANGED <<fails, ctx, errCh, lanes, http, relay, sessions, closing, wheel>>

snapshot ==
  /\ main.pc = "snapshot"
  /\ main' = [main EXCEPT !.pc = "close", !.todo = table] /\ seen' = told
  /\ UNCHANGED <<fails, ctx, errCh, lanes, http, relay, sessions, closing, wheel>>

closeSessions ==
  /\ main.pc = "close" /\ \A s \in main.cur : closing[s] = "done"
  /\ \/ \E s \in main.todo : callClose(s) /\ main' = [main EXCEPT !.todo = @ \ {s}, !.cur = {s}]
     \/ main.todo = {} /\ main' = [main EXCEPT !.pc = "store", !.cur = {}] /\ UNCHANGED closing
  /\ UNCHANGED <<fails, seen, ctx, errCh, lanes, http, relay, sessions, wheel>>

\* The wheel stops when its callback has returned; main ends.
storeClose ==
  /\ GotoMain("store", "exit") /\ wheel.cur = {} /\ wheel' = [wheel EXCEPT !.on = FALSE]
  /\ UNCHANGED <<fails, seen, ctx, errCh, lanes, http, relay, sessions, closing>>

-----------------------------------------------------------------------------
laneSteps == Start \/ \E l \in Lanes : listen(l) \/ laneEnds(l)
Run(s) == authenticate(s) \/ Add(s) \/ authOK(s) \/ unregister(s) \/ Delete(s)
mainSteps ==
  \/ stop \/ httpShutdown \/ relaySnapshot \/ relayClose
  \/ closeListeners \/ snapshot \/ closeSessions \/ storeClose

StuckRelay == \E r \in Relays : relay[r] = "stuck"
StuckSession == \E s \in Sessions : closing[s] = "stuck"

\* A process that has ended, or waits for ever, does nothing more.
GNext ==
  \/ ~Exit /\ (laneSteps \/ signal \/ httpFails \/ mainSteps \/ callbackReturns)
  \/ ~Exit /\ \E s \in Sessions : accept(s) \/ Run(s) \/ fallSilent(s) \/ touchSession(s) \/ closed(s) \/ loopCloses(s) \/ expire(s)
  \/ ~Exit /\ \E r \in Relays : relayStep(r)
  \/ (Exit \/ StuckRelay \/ StuckSession) /\ UNCHANGED gvars

\* Goroutines that can go on do.  A client need neither come nor leave, clients and
\* targets need not send, an HTTP request need not end, and a loop need not call
\* Close.
GFairness ==
  /\ WF_gvars(~Exit /\ Start) /\ \A l \in Lanes : WF_gvars(~Exit /\ (listen(l) \/ laneEnds(l)))
  /\ WF_gvars(~Exit /\ mainSteps) /\ WF_gvars(~Exit /\ callbackReturns)
  /\ \A s \in Sessions : WF_gvars(~Exit /\ closed(s)) /\ WF_gvars(~Exit /\ expire(s)) /\ WF_gvars(~Exit /\ Add(s))

GSpec == GInit /\ [][GNext]_gvars
GFairSpec == GSpec /\ GFairness
-----------------------------------------------------------------------------
\* When the gateway ends, every session that a client was told of before the
\* snapshot of Shutdown is closed, or its own Run has unregistered it and is
\* about to close it; also one that the wheel was closing.
ToldAreClosed ==
  main.pc \in {"store", "exit"} => \A s \in seen : closing[s] = "done" \/ sess[s] \in {"deleted", "done"}

\* The relay is shut down after the HTTP server: it leaves a connection open only
\* when the HTTP server has given up waiting for an Open.
RelayLeftIsLate ==
  main.pc \in {"listeners", "snapshot", "close", "store", "exit"} /\ http # "late"
    => \A r \in Relays : relay[r] \in {"none", "closed"}

\* No lane accepts connections on after its context is done, also one that came
\* to listen when Shutdown had looked at the listeners.
ListenersClose == \A l \in Lanes : [](runCtx => <>(Exit \/ lane[l] \in {"off", "ended"}))

\* A signal, or the failure of the HTTP server or of a lane, ends the gateway,
\* unless the Close of a relay connection or of a session never returns.
GatewayStops == ctx \/ errCh > 0 \/ start.errs > 0 ~> Exit \/ StuckRelay \/ StuckSession

\* A session over which nothing passes any more, in either direction, is closed by
\* its timer, unless the wheel is held up in the Close of another one.
SilentIsClosed ==
  \A s \in Sessions : s \in quiet /\ sess[s] = "run" ~> closing[s] \in {"busy", "done"} \/ s \notin quiet \/ Exit \/ StuckSession

\* What the ordered shutdown of main leaves open: no session that a client was told
\* of before the snapshot, and no relay connection but one whose Open outlived the
\* HTTP server.
ShutdownLeaves == ToldAreClosed /\ RelayLeftIsLate

\* Whatever ends the gateway ends all of it: main returns, and no lane goes on
\* accepting, unless a Close never returns.
GatewayEnds == GatewayStops /\ ListenersClose
=============================================================================
