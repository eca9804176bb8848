------------------------------ MODULE Datagrams ------------------------------
(***************************************************************************)
(* UDP over QUIC datagrams, from the client to the targets: fragmentation  *)
(* and reassembly (internal/session/datagram.go), the pipeline of a        *)
(* session's read loop, queues and workers (internal/session/session.go)   *)
(* and the counter of queued datagrams (internal/metrics/metrics.go).      *)
(*                                                                         *)
(* QUIC datagrams may be lost or overtake each other and are never         *)
(* duplicated.  A packet has a flow, a sequence number and a payload, a    *)
(* sequence of bytes.  The per-second statistics and the debug loop that   *)
(* prints them are left out; the table of flows, whose changes QUICSession *)
(* models, appears as a write that may fail.  Left out, too, are           *)
(* datagramQLen, which only that loop reads and which is kept like the     *)
(* counter, and the gauge the counter is copied to.                        *)
(***************************************************************************)
EXTENDS Integers, Sequences, FiniteSets

CONSTANTS Packets,   \* records with fields flow, seq and payload
          Plans,     \* the sets of packets that clients may send
          MaxChunk,  \* bytes that fit in a datagram after its header
          Workers,   \* s.server.cfg.DatagramWorkers
          QueueCap   \* capacity of each worker's queue

Keys == {<<p.flow, p.seq>> : p \in Packets}
WorkerIds == 0 .. Workers - 1
NoTask == [flow |-> 0, seq |-> 0, fragmented |-> FALSE, last |-> FALSE, data |-> <<>>]

ASSUME DatagramsAssumption ==
  /\ MaxChunk \in Nat \ {0} /\ Workers \in Nat \ {0} /\ QueueCap \in Nat \ {0}
  /\ Plans \subseteq SUBSET Packets
  /\ \A p \in Packets : p.flow \in Nat /\ p.seq \in Nat
  \* FlowUDP numbers the packets of a flow.
  /\ \A p, q \in Packets : <<p.flow, p.seq>> = <<q.flow, q.seq>> => p = q

minInt(a, b) == IF a < b THEN a ELSE b

\* FragmentDatagram: one unmarked datagram, or chunks of which the last is marked.
FragmentDatagram(p) ==
  LET n == Len(p.payload)
      Chunk(i) == SubSeq(p.payload, i + 1, minInt(i + MaxChunk, n))
  IN  IF n <= MaxChunk
      THEN {[flow |-> p.flow, seq |-> p.seq, fragmented |-> FALSE, last |-> FALSE,
             data |-> p.payload]}
      ELSE {[flow |-> p.flow, seq |-> p.seq, fragmented |-> TRUE,
             last |-> i + MaxChunk >= n, data |-> Chunk(i)] :
               i \in {j \in 0 .. n - 1 : j % MaxChunk = 0}}

VARIABLES
  net,        \* datagrams on their way; a lost one stays here
  queue,      \* s.datagramQueues, one per worker
  qlen,       \* metrics.datagramQueueLenAtomic
  parts,      \* s.reassembly.parts: the bytes collected for each key
  aged,       \* keys whose fragments were last updated over 5 s ago
  cancelled,  \* s.ctx is done
  reader, worker, task, payload,  \* threads, and what each worker holds
  delivered,  \* history: what was written to targets
  disturbed,  \* history: keys of packets with a fragment that was
              \* dropped, drained, overtaken by a later one (or lost before
              \* it), or that expired
  clamped     \* history: qlen went below zero and was set to zero

pipe == <<queue, qlen, clamped>>
flows == <<parts, aged, cancelled, delivered>>
vars == <<net, pipe, flows, reader, worker, task, payload, disturbed>>

Key(d) == <<d.flow, d.seq>>
Datagrams == UNION {FragmentDatagram(p) : p \in Packets}
Queued == UNION {{queue[w][i] : i \in 1 .. Len(queue[w])} : w \in WorkerIds}

TypeOK ==
  /\ net \subseteq Datagrams
  /\ queue \in [WorkerIds -> Seq(Datagrams)]
  /\ \A w \in WorkerIds : Len(queue[w]) <= QueueCap
  /\ qlen \in Int
  /\ DOMAIN parts = Keys
  /\ aged \subseteq Keys /\ disturbed \subseteq Keys
  /\ {cancelled, clamped} \subseteq BOOLEAN
  /\ reader \in {"receive", "count", "done"}
  /\ worker \in [WorkerIds -> {"select", "sub", "clamp", "add", "write", "drain", "done"}]
  /\ task \in [WorkerIds -> Datagrams \cup {NoTask}]

Init ==
  /\ \E sent \in Plans : net = UNION {FragmentDatagram(p) : p \in sent}
  /\ queue = [w \in WorkerIds |-> <<>>]
  /\ qlen = 0
  /\ parts = [k \in Keys |-> <<>>] /\ aged = {}
  /\ cancelled = FALSE
  /\ reader = "receive"
  /\ worker = [w \in WorkerIds |-> "select"]
  /\ task = [w \in WorkerIds |-> NoTask] /\ payload = [w \in WorkerIds |-> <<>>]
  /\ delivered = {} /\ disturbed = {} /\ clamped = FALSE

-----------------------------------------------------------------------------
(* The network and the rest of the session.                                *)

\* Close, by anybody else.
close ==
  /\ ~cancelled
  /\ cancelled' = TRUE
  /\ UNCHANGED <<net, pipe, parts, aged, delivered, reader, worker, task, payload, disturbed>>

\* Five seconds pass without a fragment of this packet.
age(k) ==
  /\ parts[k] # <<>> /\ k \notin aged
  /\ aged' = aged \cup {k}
  /\ UNCHANGED <<net, pipe, parts, cancelled, delivered, reader, worker, task, payload, disturbed>>
-----------------------------------------------------------------------------
(* datagramReadLoop.                                                       *)

\* A plausible slip: datagrams are spread over the workers one by one.
WorkerInTurn(d) == (d.flow + IF d.last THEN 1 ELSE 0) % Workers

\* All datagrams of a flow go to one worker.
WorkerOf(d) == d.flow % Workers

\* Bytes of the same packet that precede those of d are still on their way.
Overtakes(d) ==
  \E e \in net : Key(e) = Key(d) /\ e # d /\
    \E p \in Packets : Key(p) = Key(d) /\
      \E i, j \in 1 .. Len(p.payload) : i < j /\ p.payload[i] = e.data[1] /\ p.payload[j] = d.data[1]

\* The datagram is over the packet budget, or the worker's queue is full.
receiveDrop(d) ==
  /\ reader = "receive" /\ d \in net
  /\ net' = net \ {d}
  /\ disturbed' = disturbed \cup {Key(d)}
  /\ UNCHANGED <<pipe, flows, reader, worker, task, payload>>

\* The send succeeds; the datagram is counted in the next step.
receive(d) ==
  /\ reader = "receive" /\ d \in net
  /\ Len(queue[WorkerOf(d)]) < QueueCap
  /\ net' = net \ {d}
  /\ queue' = [queue EXCEPT ![WorkerOf(d)] = Append(@, d)]
  /\ disturbed' = IF Overtakes(d) THEN disturbed \cup {Key(d)} ELSE disturbed
  /\ reader' = "count"
  /\ UNCHANGED <<qlen, clamped, flows, worker, task, payload>>

\* AddDatagramQueue(1)
count ==
  /\ reader = "count"
  /\ qlen' = qlen + 1
  /\ reader' = "receive"
  /\ UNCHANGED <<net, queue, clamped, flows, worker, task, payload, disturbed>>

\* ReceiveDatagram fails once the session is closed; datagrams that QUIC has
\* buffered may still be received before.
readerEnd ==
  /\ cancelled /\ reader = "receive"
  /\ reader' = "done"
  /\ UNCHANGED <<net, pipe, flows, worker, task, payload, disturbed>>

\* The client's connection is gone, which the other loops have yet to notice.
readerLost ==
  /\ ~cancelled /\ reader = "receive"
  /\ reader' = "done"
  /\ UNCHANGED <<net, pipe, flows, worker, task, payload, disturbed>>

datagramReadLoop == count \/ readerEnd \/ readerLost \/ \E d \in net : receive(d) \/ receiveDrop(d)
-----------------------------------------------------------------------------
(* datagramWorkerLoop and drainDatagramQueue of worker w.                  *)

Step(w, from, to) == worker[w] = from /\ worker' = [worker EXCEPT ![w] = to]

\* The worker takes a task, in its loop or in the drain, which has no task.
take(w) ==
  /\ queue[w] # <<>>
  /\ Step(w, "select", "sub")
  /\ queue' = [queue EXCEPT ![w] = Tail(@)]
  /\ task' = [task EXCEPT ![w] = Head(queue[w])]
  /\ UNCHANGED <<net, qlen, clamped, flows, reader, payload, disturbed>>

\* A plausible slip: the loop goes on after ctx is done.
drainNever(w) == cancelled /\ worker[w] = "select" /\ UNCHANGED vars

\* The other case of the select; when both are ready it takes either.
drainBegin(w) ==
  /\ cancelled
  /\ Step(w, "select", "drain")
  /\ UNCHANGED <<net, pipe, flows, reader, task, payload, disturbed>>

\* A plausible slip: the drain does not count what it takes.
drainTakeUncounted(w) ==
  /\ queue[w] # <<>> /\ worker[w] = "drain"
  /\ queue' = [queue EXCEPT ![w] = Tail(@)]
  /\ disturbed' = disturbed \cup {Key(Head(queue[w]))}
  /\ UNCHANGED <<net, qlen, clamped, flows, reader, worker, task, payload>>

drainTake(w) ==
  /\ queue[w] # <<>>
  /\ Step(w, "drain", "sub")
  /\ queue' = [queue EXCEPT ![w] = Tail(@)]
  /\ disturbed' = disturbed \cup {Key(Head(queue[w]))}
  /\ UNCHANGED <<net, qlen, clamped, flows, reader, task, payload>>

\* The timer has fired; the select may prefer it to a task that is ready.
drainEnd(w) ==
  /\ Step(w, "drain", "done")
  /\ UNCHANGED <<net, pipe, flows, reader, task, payload, disturbed>>

AfterSub(w) == IF task[w] = NoTask THEN "drain" ELSE "add"

\* AddDatagramQueue(-1): the addition, and the store when it went below zero.
sub(w) ==
  /\ Step(w, "sub", IF qlen - 1 < 0 THEN "clamp" ELSE AfterSub(w))
  /\ qlen' = qlen - 1
  /\ clamped' = (clamped \/ qlen - 1 < 0)
  /\ UNCHANGED <<net, queue, flows, reader, task, payload, disturbed>>

clamp(w) ==
  /\ Step(w, "clamp", AfterSub(w))
  /\ qlen' = 0
  /\ UNCHANGED <<net, queue, clamped, flows, reader, task, payload, disturbed>>

-----------------------------------------------------------------------------
(* processDatagramTask of worker w, with Reassembly.Add.                   *)

\* cleanupLocked
Kept == [k \in Keys |-> IF k \in aged THEN <<>> ELSE parts[k]]

Finish(w) == /\ Step(w, "add", "select")
             /\ task' = [task EXCEPT ![w] = NoTask]

Match(k, d) == k = Key(d)

Left(d, data) == IF d.last THEN <<>> ELSE data

\* A fragment is appended to its packet's bytes, whatever its place; the one
\* that is marked completes the packet.
Add(w) ==
  LET d == task[w]
      data == Kept[CHOOSE k \in Keys : Match(k, d)] \o d.data
      full == ~d.fragmented \/ d.last
  IN  /\ worker[w] = "add"
      /\ IF d.fragmented
         THEN /\ parts' = [k \in Keys |-> IF Match(k, d) THEN Left(d, data) ELSE Kept[k]]
              /\ disturbed' = disturbed \cup aged
              /\ aged' = {}
         ELSE UNCHANGED <<parts, disturbed, aged>>
      /\ IF full
         THEN /\ Step(w, "add", "write") /\ UNCHANGED task
              /\ payload' = [payload EXCEPT ![w] = IF d.fragmented THEN data ELSE d.data]
         ELSE Finish(w) /\ UNCHANGED payload
      /\ UNCHANGED <<net, pipe, cancelled, delivered, reader>>

Return(w) ==
  /\ Step(w, "write", "select")
  /\ task' = [task EXCEPT ![w] = NoTask]
  /\ payload' = [payload EXCEPT ![w] = <<>>]

\* AllowSessionBytes refuses: the session is closed.
overLimit(w) ==
  /\ Return(w)
  /\ cancelled' = TRUE
  /\ UNCHANGED <<net, pipe, parts, aged, delivered, reader, disturbed>>

\* The flow is not in s.udpFlows, or the write fails and closeFlow removes it.
writeFails(w) ==
  /\ Return(w)
  /\ UNCHANGED <<net, pipe, parts, aged, cancelled, delivered, reader, disturbed>>

write(w) ==
  /\ worker[w] = "write"
  /\ Return(w)
  /\ delivered' = delivered \cup {[key |-> Key(task[w]), data |-> payload[w]]}
  /\ UNCHANGED <<net, pipe, parts, aged, cancelled, reader, disturbed>>

datagramWorkerLoop(w) ==
  \/ take(w) \/ drainBegin(w) \/ drainTake(w) \/ drainEnd(w) \/ sub(w) \/ clamp(w)
  \/ Add(w) \/ overLimit(w) \/ writeFails(w) \/ write(w)

-----------------------------------------------------------------------------
Stopped == reader = "done" /\ \A w \in WorkerIds : worker[w] = "done"
Terminated == Stopped /\ UNCHANGED vars

Next ==
  \/ datagramReadLoop
  \/ \E w \in WorkerIds : datagramWorkerLoop(w)
  \/ \E k \in Keys : age(k)
  \/ close \/ Terminated

\* The goroutines run; the network, the client and the clock need not.
Fairness ==
  /\ WF_vars(count \/ readerEnd)
  /\ \A w \in WorkerIds : WF_vars(datagramWorkerLoop(w))

Spec == Init /\ [][Next]_vars
FairSpec == Spec /\ Fairness
-----------------------------------------------------------------------------
PayloadOf(k) == (CHOOSE p \in Packets : Key(p) = k).payload

\* What a target gets is the packet its client sent, unless one of its own
\* fragments was lost, dropped, overtaken, drained or expired: workers and
\* other flows never disturb the order in which fragments arrived.
Intact ==
  \A r \in delivered : r.data = PayloadOf(r.key) \/ r.key \in disturbed

\* A disturbed packet may reach the target damaged, but only with bytes of its
\* own, each at most once: packets of different flows or numbers never mix.
NoMixing ==
  \A r \in delivered : \E I \in SUBSET (1 .. Len(PayloadOf(r.key))) :
    /\ Cardinality(I) = Len(r.data)
    /\ {PayloadOf(r.key)[i] : i \in I} = {r.data[j] : j \in 1 .. Len(r.data)}

\* Bytes that stay behind in the reassembly table when the pipeline is idle
\* belong to a packet with a disturbed, or still missing, fragment: a packet
\* that arrived in order leaves nothing to the cleanup.
PartsClaimed ==
  Queued = {} /\ (\A w \in WorkerIds : task[w] = NoTask) =>
    \A k \in Keys : parts[k] # <<>> => k \in disturbed \/ \E d \in net : Key(d) = k

\* When no thread is between a queue operation and its count, the counter is
\* the number of queued datagrams, unless a worker lowered
\* it for a datagram that the reader had sent and not counted yet, and the
\* result, below zero, was replaced by zero.
CounterExact ==
  /\ ~clamped
  /\ reader # "count"
  /\ \A w \in WorkerIds : worker[w] # "sub"
  => qlen = Cardinality(Queued)

\* A cancelled session's reader and workers end: the drain terminates although
\* the reader may go on sending, and nobody waits for a full queue.
PipelineStops == cancelled ~> Stopped

\* Packets reach their targets as they were sent unless one of their own fragments
\* was disturbed, even then with their own bytes only, and leave nothing behind.
PacketsIntact == TypeOK /\ Intact /\ NoMixing /\ PartsClaimed
=============================================================================
