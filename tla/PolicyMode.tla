----------------------------- MODULE PolicyMode -----------------------------
(***************************************************************************)
(* The mode of the SOCKS client (policyController in                       *)
(* cmd/socks_client/main.go): how requests dial in each mode, the windows  *)
(* of QUIC failures and transport errors, and the loop that switches the   *)
(* mode.  Permits and the cap are in FlowCap.                              *)
(*                                                                         *)
(* Each section under c.mu is an action; what a function does after the    *)
(* unlock, with what it has read, is another.                              *)
(***************************************************************************)
EXTENDS Integers, Sequences, FiniteSets

CONSTANTS Requests,
          UDPRequests,      \* those that relay datagrams; the others CONNECT or BIND
          Configured,       \* values of --mode
          QUIC, Fallback,   \* QUIC is configured, another transport is
          QUICThreshold, ErrThreshold,  \* failures that switch to survival (3 and 8)
          FailWindow,       \* how long they count (30 s)
          MinDelay,         \* how long survival lasts at least (60 s)
          MaxLate,          \* whole ticks that a turn of the loop may last
          MaxErrors         \* bound on the errors that are remembered

VARIABLES
  configured, mode,  \* c.configured, c.currentMode
  quicFails, errors, \* ages of quicFailTimes and errorSpikeTime, oldest first
  survivalAge,       \* time since the switch to survival, in that mode
  flows,             \* requests with an entry in c.flows
  fast,              \* those long, large or quick enough for the fast mode
  loop,              \* loop, its ticker, and what evaluateAutoPolicy is to do
  pc,                \* program counter of each request
  cfg,               \* mode each request dials in, and whether QUIC is enabled
  switching          \* requests (and "loop") about to switch to survival

policy == <<mode, survivalAge>>
windows == <<quicFails, errors>>
mvars == <<configured, policy, windows, flows, fast, loop, pc, cfg, switching>>

NoConfig == [mode |-> "normal", quic |-> TRUE]
\* now: age of the tick that the turn handles; next: of the one in the ticker's
\* channel, -1 if there is none.
Waiting == [pc |-> "wait", now |-> 0, next |-> -1, want |-> "none", flows |-> {}]

MTypeOK ==
  /\ mode \in {"normal", "fast", "survival"}
  /\ \A ages \in {quicFails, errors} : \A i \in 1 .. Len(ages) : ages[i] \in 0 .. FailWindow + MaxLate
  /\ survivalAge \in 0 .. MinDelay + MaxLate + 1
  /\ fast \subseteq flows /\ flows \subseteq Requests
  /\ loop.pc \in {"wait", "probe", "probing", "eval", "decide", "done"}
  /\ loop.now \in 0 .. MaxLate /\ loop.next \in -1 .. MaxLate
  /\ pc \in [Requests -> {"config", "dial", "fallback", "dialFail", "open", "err", "register", "relay",
                          "copyUp", "copyDown", "unregister", "done"}]

MInit ==
  /\ configured \in Configured
  /\ mode = IF configured = "auto" THEN "normal" ELSE configured
  /\ quicFails = <<>> /\ errors = <<>> /\ survivalAge = 0
  /\ flows = {} /\ fast = {} /\ loop = Waiting
  /\ pc = [r \in Requests |-> "config"]
  /\ cfg = [r \in Requests |-> NoConfig]
  /\ switching = {}

-----------------------------------------------------------------------------
(* Failures, and what they switch.                                         *)

\* now: age of the time that the caller compares with
pruneTimes(ages, now) == SelectSeq(ages, LAMBDA a : a - now <= FailWindow)

switchMode(next) ==
  /\ mode' = next
  /\ survivalAge' = IF next # "survival" \/ mode # next THEN 0 ELSE survivalAge

Go(r, from, to) == r \notin switching /\ pc[r] = from /\ pc' = [pc EXCEPT ![r] = to]

\* The mode and the count are read under the lock.
Recorded(who, ages, threshold) ==
  switching' = IF configured = "auto" /\ mode # "survival" /\ Len(ages) >= threshold
               THEN switching \cup {who} ELSE switching

recordQUICFailure(r, from, to) ==
  /\ Go(r, from, to)
  /\ quicFails' = pruneTimes(Append(quicFails, 0), 0)
  /\ Recorded(r, quicFails', QUICThreshold)
  /\ UNCHANGED <<configured, policy, errors, flows, fast, loop, cfg>>

AddError(who) ==
  /\ Len(errors) < MaxErrors
  /\ errors' = pruneTimes(Append(errors, 0), 0)
  /\ Recorded(who, errors', ErrThreshold)

recordTransportError(r, from, to) ==
  /\ Go(r, from, to)
  /\ AddError(r)
  /\ UNCHANGED <<configured, policy, quicFails, flows, fast, loop, cfg>>

switchToSurvival(who) ==
  /\ who \in switching
  /\ switching' = switching \ {who}
  /\ switchMode("survival")
  /\ UNCHANGED <<configured, windows, flows, fast, loop, pc, cfg>>

-----------------------------------------------------------------------------
(* A request.                                                              *)

UDP(r) == r \in UDPRequests

configForMode(m) == [mode |-> m, quic |-> QUIC /\ (m # "survival" \/ ~Fallback)]

\* dialConfigUDP enables QUIC and disables the rest.
dialConfig(r) ==
  /\ Go(r, "config", "dial")
  /\ cfg' = [cfg EXCEPT ![r] = IF UDP(r) THEN [mode |-> mode, quic |-> TRUE] ELSE configForMode(mode)]
  /\ UNCHANGED <<configured, policy, windows, flows, fast, loop, switching>>

\* onDialSuccess: another transport than the preferred QUIC is a failure of it.
onDialSuccess(r) ==
  /\ \/ Go(r, "dial", "open") /\ cfg[r].quic
     \/ /\ ~UDP(r) /\ Fallback
        /\ Go(r, "dial", IF cfg[r].quic /\ cfg[r].mode # "survival" THEN "fallback" ELSE "open")
  /\ cfg' = [cfg EXCEPT ![r] = NoConfig]
  /\ UNCHANGED <<configured, policy, windows, flows, fast, loop, switching>>

onDialError(r) ==
  /\ Go(r, "dial", IF cfg[r].quic THEN "dialFail" ELSE "err")
  /\ cfg' = [cfg EXCEPT ![r] = NoConfig]
  /\ UNCHANGED <<configured, policy, windows, flows, fast, loop, switching>>

\* The flow is opened and the replies are written, or one of these fails.
OpenFlow(r) ==
  /\ Go(r, "open", "register") \/ Go(r, "open", "err")
  /\ UNCHANGED <<configured, policy, windows, flows, fast, loop, cfg, switching>>

registerFlow(r) ==
  /\ Go(r, "register", "relay")
  /\ flows' = flows \cup {r}
  /\ UNCHANGED <<configured, policy, windows, fast, loop, cfg, switching>>

\* A flow lasts ten seconds, has loaded 64 MB or loads more than 20 Mbit/s.
flowGrows(r) ==
  /\ pc[r] = "relay" /\ r \notin fast
  /\ fast' = fast \cup {r}
  /\ UNCHANGED <<configured, policy, windows, flows, loop, pc, cfg, switching>>

\* Both copies have ended; each may report an error.
proxyBidirectional(r) ==
  /\ Go(r, "relay", "unregister") \/ (~UDP(r) /\ (Go(r, "relay", "copyUp") \/ Go(r, "relay", "copyDown")))
  /\ UNCHANGED <<configured, policy, windows, flows, fast, loop, cfg, switching>>

copyErrors(r) ==
  \/ recordTransportError(r, "copyUp", "copyDown") \/ recordTransportError(r, "copyUp", "unregister")
  \/ recordTransportError(r, "copyDown", "unregister")

\* A datagram cannot be received; or it cannot be written to the client.
reverseLoop(r) ==
  /\ UDP(r)
  /\ recordTransportError(r, "relay", "unregister") \/ recordTransportError(r, "relay", "relay")

unregisterFlow(r) ==
  /\ Go(r, "unregister", "done")
  /\ flows' = flows \ {r} /\ fast' = fast \ {r}
  /\ UNCHANGED <<configured, policy, windows, loop, cfg, switching>>

Request(r) ==
  \/ dialConfig(r) \/ onDialSuccess(r) \/ onDialError(r)
  \/ recordQUICFailure(r, "fallback", "open") \/ recordQUICFailure(r, "dialFail", "err")
  \/ OpenFlow(r) \/ recordTransportError(r, "err", "done") \/ registerFlow(r)
  \/ flowGrows(r) \/ proxyBidirectional(r) \/ copyErrors(r) \/ reverseLoop(r) \/ unregisterFlow(r)

-----------------------------------------------------------------------------
(* The loop: a tick, probeRTT, evaluateAutoPolicy.                         *)

\* What is too old to be counted again is left out here already.
Older(ages) == LET kept == SelectSeq(ages, LAMBDA a : a < FailWindow + MaxLate)
               IN  [i \in 1 .. Len(kept) |-> kept[i] + 1]

\* A tick begins a turn, or finds the loop probing; then it stays in the
\* ticker's channel, which holds one.
tick ==
  /\ \/ loop.pc = "wait" /\ loop.next = -1 /\ loop' = [loop EXCEPT !.pc = "probe"]
     \/ /\ loop.pc = "probing" /\ loop.now < MaxLate
        /\ loop' = [loop EXCEPT !.now = @ + 1, !.next = @ + 1]
     \/ loop.pc = "done" /\ UNCHANGED loop
  /\ quicFails' = Older(quicFails) /\ errors' = Older(errors)
  /\ survivalAge' = IF mode = "survival" /\ survivalAge <= MinDelay + MaxLate THEN survivalAge + 1 ELSE survivalAge
  /\ UNCHANGED <<configured, mode, flows, fast, pc, cfg, switching>>

nextTurn ==
  /\ loop.pc = "wait" /\ loop.next >= 0
  /\ loop' = [Waiting EXCEPT !.pc = "probe", !.now = loop.next]
  /\ UNCHANGED <<configured, policy, windows, flows, fast, pc, cfg, switching>>

Close ==
  /\ loop.pc = "wait" /\ loop' = [Waiting EXCEPT !.pc = "done"]
  /\ UNCHANGED <<configured, policy, windows, flows, fast, pc, cfg, switching>>

pickProbeClient ==
  /\ loop.pc = "probe"
  /\ loop' = [loop EXCEPT !.pc = IF flows = {} THEN "eval" ELSE "probing"]
  /\ UNCHANGED <<configured, policy, windows, flows, fast, pc, cfg, switching>>

\* A sample, or an error that is expected; or one that is not.
probeRTT ==
  /\ loop.pc = "probing" /\ loop' = [loop EXCEPT !.pc = "eval"]
  /\ UNCHANGED <<errors, switching>> \/ AddError("loop")
  /\ UNCHANGED <<configured, policy, quicFails, flows, fast, pc, cfg>>

\* A plausible slip: nothing leaves the survival mode.
WantNever(quic, errs) ==
  CASE mode # "survival" /\ (quic >= QUICThreshold \/ errs >= ErrThreshold) -> "survival"
    [] mode = "normal" -> "fast"
    [] OTHER -> "none"

Want(quic, errs) ==
  CASE mode # "survival" /\ (quic >= QUICThreshold \/ errs >= ErrThreshold) -> "survival"
    [] mode = "survival" /\ survivalAge - loop.now > MinDelay /\ quic = 0 /\ errs = 0 -> "normal"
    [] mode = "normal" -> "fast"
    [] OTHER -> "none"

\* What evaluateAutoPolicy reads under the lock
evalRead ==
  /\ "loop" \notin switching /\ loop.pc = "eval"
  /\ IF configured # "auto"
     THEN loop' = [Waiting EXCEPT !.next = loop.next] /\ UNCHANGED windows
     ELSE /\ quicFails' = pruneTimes(quicFails, loop.now) /\ errors' = pruneTimes(errors, loop.now)
          /\ LET want == Want(Len(quicFails'), Len(errors'))
             IN  loop' = [loop EXCEPT !.pc = "decide", !.want = want,
                                      !.flows = IF want = "fast" THEN flows ELSE {}]
  /\ UNCHANGED <<configured, policy, flows, fast, pc, cfg, switching>>

\* ... and what it does after the unlock, whatever the mode is by then.
evaluateAutoPolicy ==
  /\ loop.pc = "decide"
  /\ IF loop.want \in {"survival", "normal"} \/ (loop.want = "fast" /\ loop.flows \cap fast # {})
     THEN switchMode(loop.want) ELSE UNCHANGED policy
  /\ loop' = [Waiting EXCEPT !.next = loop.next]
  /\ UNCHANGED <<configured, windows, flows, fast, pc, cfg, switching>>

Loop == nextTurn \/ pickProbeClient \/ probeRTT \/ evalRead \/ evaluateAutoPolicy \/ switchToSurvival("loop")

MNext == tick \/ Close \/ Loop \/ \E r \in Requests : Request(r) \/ switchToSurvival(r)

MSpec == MInit /\ [][MNext]_mvars
-----------------------------------------------------------------------------
\* Survival is left only after its minimum time, or for the fast mode by a turn
\* of the loop that had read the mode before the switch to survival.
SurvivalKept ==
  [][mode = "survival" /\ mode' # "survival" =>
       survivalAge > MinDelay \/ (mode' = "fast" /\ loop.want = "fast")]_mvars

\* Survival does not last when there are no more failures.
SurvivalEnds ==
  []<>(mode # "survival" \/ configured # "auto" \/ quicFails # <<>> \/ errors # <<>> \/ loop.pc = "done")
=============================================================================
