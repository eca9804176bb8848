------------------------------- MODULE FlowCap -------------------------------
(***************************************************************************)
(* Admission of new flows in the SOCKS client (policyController in         *)
(* cmd/socks_client/main.go): requests take a permit, dial, open a flow    *)
(* and register it; the loop probes the round-trip time every second, and  *)
(* its statistics enable and disable an adaptive cap on new flows.  The    *)
(* mode is auto; in the others the cap stays off.                          *)
(*                                                                         *)
(* Each section under c.mu is an action, and so is a request's reading of  *)
(* the clock, which comes before it.  Times are ages in ticks of the loop, *)
(* a second each, which stop where the code no longer tells them apart.    *)
(***************************************************************************)
EXTENDS Integers, Sequences, FiniteSets, TLC

CONSTANTS Requests,
          MaxLate,          \* whole ticks that a turn of the loop may last: a probe takes
                            \* up to 1.5 s, and may begin late
          MaxStale,         \* seconds that may begin between a request's reading of
                            \* the clock and its section under c.mu
          StatsInterval,    \* ticks between two statistics (10)
          RTTs,             \* round-trip times that probes measure, in ms
          CapHigh, CapLow,  \* bounds on their 95th percentile (250 and 150 ms)
          CapEnable, CapDisable,  \* consecutive statistics (2 and 3)
          CapNew, CapMargin \* new flows per second (2), flows above the present ones (4)

ASSUME FlowCapAssumption ==
  /\ IsFiniteSet(Requests) /\ {CapNew, CapMargin, MaxLate, MaxStale} \subseteq Nat
  /\ {CapEnable, CapDisable, StatsInterval} \subseteq Nat \ {0}

VARIABLES
  flows,          \* requests with an entry in c.flows
  permits,        \* c.pendingPermits
  cap,            \* capEnabled, capMaxActiveFlows, capOpenedThisSec, and the
                  \* age of capWindowSec
  high, low,      \* highRTTTicks, lowRTTTicks
  rtt,            \* c.rttSamples, those that the next statistics use
  statsAge,       \* time since lastStatsAt
  loop,           \* loop and its ticker
  pc,             \* program counter of each request
  read,           \* age of the second that a request at "admit" has read
  granted,        \* history: permits granted under the cap in this second
  stale           \* history: requests that have used an older one in this second

measuring == <<high, low, rtt, statsAge>>
rate == <<granted, stale>>
fvars == <<flows, permits, cap, measuring, loop, pc, read, rate>>

NoCap == [on |-> FALSE, active |-> 0, opened |-> 0, window |-> 0]
\* now: age of the tick that the turn handles; next: of the one in the ticker's
\* channel, -1 if there is none; sampled: the probe of this turn succeeded.
Waiting == [pc |-> "wait", now |-> 0, next |-> -1, sampled |-> FALSE]

\* Between acquireFlowPermit and its release.
Admitted == {"dial", "open", "reply", "register"}

FTypeOK ==
  /\ flows \subseteq Requests /\ permits \in Nat
  /\ cap \in [on : BOOLEAN, active : Nat, opened : 0 .. CapNew, window : 0 .. MaxStale + 1]
  /\ high \in 0 .. CapEnable /\ low \in 0 .. CapDisable
  /\ statsAge \in 0 .. StatsInterval + MaxLate
  /\ loop \in [pc : {"wait", "probe", "probing", "stats", "done"}, now : 0 .. MaxLate,
               next : -1 .. MaxLate, sampled : BOOLEAN]
  /\ pc \in [Requests -> {"start", "admit", "wait", "relay", "done"} \cup Admitted]
  /\ read \in [Requests -> 0 .. MaxStale] /\ granted \in Nat /\ stale \in Nat

FInit ==
  /\ flows = {} /\ permits = 0 /\ cap = NoCap /\ high = 0 /\ low = 0
  /\ rtt = <<>> /\ statsAge = 0 /\ loop = Waiting /\ granted = 0 /\ stale = 0
  /\ pc = [r \in Requests |-> "start"] /\ read = [r \in Requests |-> 0]

-----------------------------------------------------------------------------
(* A request: CONNECT, BIND, or a datagram to a new target.                *)

Go(r, from, to) == pc[r] = from /\ pc' = [pc EXCEPT ![r] = to]

\* acquireFlowPermit reads the clock, at first and every 100 ms while it waits.
readClock(r) ==
  /\ Go(r, "start", "admit") \/ Go(r, "wait", "admit")
  /\ UNCHANGED <<flows, permits, cap, measuring, loop, read, rate>>

\* capOpenedThisSec, after its reset for another second
Opened(r) == IF cap.window = read[r] THEN cap.opened ELSE 0
canOpen(r) == Cardinality(flows) + permits < cap.active /\ Opened(r) < CapNew

permit(r) == Go(r, "admit", "dial") /\ permits' = permits + 1

\* Its section under c.mu, with the second read before, which may be over.
acquireFlowPermit(r) ==
  /\ \/ ~cap.on /\ permit(r) /\ UNCHANGED <<cap, rate>>
     \/ /\ cap.on
        /\ IF canOpen(r)
           THEN /\ permit(r) /\ granted' = granted + 1
                /\ cap' = [cap EXCEPT !.window = read[r], !.opened = Opened(r) + 1]
           ELSE /\ Go(r, "admit", "wait") /\ UNCHANGED <<permits, granted>>
                /\ cap' = [cap EXCEPT !.window = read[r], !.opened = Opened(r)]
        /\ stale' = IF read[r] > 0 THEN stale + 1 ELSE stale
  /\ read' = [read EXCEPT ![r] = 0]
  /\ UNCHANGED <<flows, measuring, loop>>

\* Its time is over before the cap lets it in.
admissionDenied(r) ==
  /\ Go(r, "wait", "done")
  /\ UNCHANGED <<flows, permits, cap, measuring, loop, read, rate>>

releaseFlowPermit == permits' = IF permits > 0 THEN permits - 1 ELSE permits

\* A plausible slip: the reply's error path forgets the permit.
replyLeaks(r) ==
  /\ \/ Go(r, "reply", "register") \/ Go(r, "reply", "done")
  /\ UNCHANGED <<flows, permits, cap, measuring, loop, read, rate>>

dialSession(r) ==
  /\ \/ Go(r, "dial", "open") /\ UNCHANGED permits
     \/ Go(r, "dial", "done") /\ releaseFlowPermit
  /\ UNCHANGED <<flows, cap, measuring, loop, read, rate>>

\* A datagram's target needs no reply.
OpenFlow(r) ==
  /\ \/ Go(r, "open", "reply") /\ UNCHANGED permits
     \/ Go(r, "open", "register") /\ UNCHANGED permits
     \/ Go(r, "open", "done") /\ releaseFlowPermit
  /\ UNCHANGED <<flows, cap, measuring, loop, read, rate>>

writeSocksReply(r) ==
  /\ \/ Go(r, "reply", "register") /\ UNCHANGED permits
     \/ Go(r, "reply", "done") /\ releaseFlowPermit
  /\ UNCHANGED <<flows, cap, measuring, loop, read, rate>>

registerFlow(r) ==
  /\ Go(r, "register", "relay")
  /\ releaseFlowPermit
  /\ flows' = flows \cup {r}
  /\ UNCHANGED <<cap, measuring, loop, read, rate>>

unregisterFlow(r) ==
  /\ Go(r, "relay", "done")
  /\ flows' = flows \ {r}
  /\ UNCHANGED <<permits, cap, measuring, loop, read, rate>>

handleConnect(r) ==
  \/ readClock(r) \/ acquireFlowPermit(r) \/ admissionDenied(r) \/ dialSession(r)
  \/ OpenFlow(r) \/ writeSocksReply(r) \/ registerFlow(r) \/ unregisterFlow(r)

-----------------------------------------------------------------------------
(* The loop: a tick, probeRTT, printStats.                                 *)

AtMost(n, max) == IF n > max THEN max ELSE n

\* A tick begins a turn, or finds the loop probing; then it stays in the
\* ticker's channel, which holds one.
ticker ==
  /\ \/ loop.pc = "wait" /\ loop.next = -1 /\ loop' = [loop EXCEPT !.pc = "probe"]
     \/ /\ loop.pc = "probing" /\ loop.now < MaxLate
        /\ loop' = [loop EXCEPT !.now = @ + 1, !.next = @ + 1]
     \/ loop.pc = "done" /\ UNCHANGED loop
  /\ statsAge' = AtMost(statsAge + 1, StatsInterval + MaxLate)
  /\ \A r \in Requests : pc[r] = "admit" => read[r] < MaxStale
  /\ read' = [r \in Requests |-> IF pc[r] = "admit" THEN read[r] + 1 ELSE 0]
  /\ cap' = [cap EXCEPT !.window = AtMost(@ + 1, MaxStale + 1)]
  /\ granted' = 0 /\ stale' = 0
  /\ UNCHANGED <<flows, permits, high, low, rtt, pc>>

nextTurn ==
  /\ loop.pc = "wait" /\ loop.next >= 0
  /\ loop' = [Waiting EXCEPT !.pc = "probe", !.now = loop.next]
  /\ UNCHANGED <<flows, permits, cap, measuring, pc, read, rate>>

Close ==
  /\ loop.pc = "wait" /\ loop' = [Waiting EXCEPT !.pc = "done"]
  /\ UNCHANGED <<flows, permits, cap, measuring, pc, read, rate>>

pickProbeClient ==
  /\ loop.pc = "probe"
  /\ loop' = [loop EXCEPT !.pc = IF flows = {} THEN "stats" ELSE "probing"]
  /\ UNCHANGED <<flows, permits, cap, measuring, pc, read, rate>>

probeRTT ==
  /\ loop.pc = "probing"
  /\ \/ \E ms \in RTTs : rtt' = Append(rtt, ms) /\ loop' = [loop EXCEPT !.pc = "stats", !.sampled = TRUE]
     \/ UNCHANGED rtt /\ loop' = [loop EXCEPT !.pc = "stats"]
  /\ UNCHANGED <<flows, permits, cap, high, low, statsAge, pc, read, rate>>

\* In hundredths: between the two samples around the position.
percentile(samples, p) ==
  LET sorted == SortSeq(samples, <)
      pos == p * (Len(samples) - 1)
      lo == pos \div 100
      frac == pos % 100
  IN  IF lo + 2 > Len(samples) THEN 100 * sorted[lo + 1]
      ELSE sorted[lo + 1] * (100 - frac) + sorted[lo + 2] * frac

\* p95 in hundredths of a millisecond, -1 without samples.  The window of an
\* enabled cap is the second of the turn's tick.
updateAdaptiveCapLocked(p95) ==
  /\ high' = IF p95 > 100 * CapHigh THEN AtMost(high + 1, CapEnable) ELSE 0
  /\ low' = IF 0 <= p95 /\ p95 < 100 * CapLow THEN AtMost(low + 1, CapDisable) ELSE 0
  /\ cap' = CASE ~cap.on /\ high' = CapEnable ->
                     [on |-> TRUE, active |-> Cardinality(flows) + permits + CapMargin,
                      opened |-> 0, window |-> AtMost(loop.now, MaxStale + 1)]
              [] cap.on /\ low' = CapDisable -> NoCap
              [] OTHER -> cap
  /\ granted' = IF cap'.on = cap.on THEN granted ELSE 0

\* The sample of this turn has the time of these statistics, and is used by the
\* next ones again.
collectRTTWindow(due) == rtt' = IF ~due THEN rtt ELSE IF loop.sampled THEN SubSeq(rtt, Len(rtt), Len(rtt)) ELSE <<>>

printStats ==
  /\ loop.pc = "stats"
  /\ loop' = [Waiting EXCEPT !.next = loop.next]
  /\ LET due == statsAge - loop.now >= StatsInterval
     IN  /\ collectRTTWindow(due)
         /\ IF due THEN /\ statsAge' = loop.now
                        /\ updateAdaptiveCapLocked(IF rtt = <<>> THEN -1 ELSE percentile(rtt, 95))
                   ELSE UNCHANGED <<statsAge, cap, high, low, granted>>
  /\ UNCHANGED <<flows, permits, pc, read, stale>>

Loop == nextTurn \/ pickProbeClient \/ probeRTT \/ printStats

FNext == ticker \/ Close \/ Loop \/ \E r \in Requests : handleConnect(r)

FSpec == FInit /\ [][FNext]_fvars
-----------------------------------------------------------------------------
\* pendingPermits is the number of requests between acquireFlowPermit and
\* registerFlow, whichever error path the others took, and c.flows has the
\* requests that are being relayed.
PermitsExact ==
  /\ permits = Cardinality({r \in Requests : pc[r] \in Admitted})
  /\ flows = {r \in Requests : pc[r] = "relay"}

\* Under the cap, flows and pending permits together stay within
\* capMaxActiveFlows, whatever was under way when it was enabled.
CapKept == cap.on => Cardinality(flows) + permits <= cap.active

\* Under the cap, no more than capMaxNewPerSec permits are granted in a second in
\* which every request uses the present one.  A request that read the clock before
\* the second began sets capWindowSec back, and the next one resets the count again:
\* each costs at most capMaxNewPerSec permits and its own.
RateKept == granted <= CapNew + stale * (CapNew + 1)

\* Admission is exact: permits and flows are those of the requests that hold them,
\* under the cap their number does not exceed it, and their rate only by what
\* requests with an old reading of the clock cost.
Admission == PermitsExact /\ CapKept /\ RateKept
=============================================================================
