-------------------------- MODULE RelayConnProofs --------------------------
(* One relayed connection, for any senders, receivers and calls of Close,  *)
(* any windows, and any sizes of payloads, chunks and reads.               *)
(*                                                                         *)
(* The inductive invariant says where each unit of the target's stream and *)
(* each accepted chunk is, by the places of the two loops (Units, Ended,   *)
(* Chunks), what MarkEOS and Close have done by each of their steps        *)
(* (Marked, OneBody), and that behind wg.Wait no loop is at work (Quiet),  *)
(* for which the wait group must count the loops (LoopsCounted).           *)
EXTENDS RelayConn, SequenceTheorems, TLAPS

-----------------------------------------------------------------------------
(* Sequences that are cut and grow.                                        *)

\* A sequence cut after n elements: what RingBuffer.Read leaves and returns.
LEMMA CutSeq ==
  ASSUME NEW S, NEW s \in Seq(S), NEW n \in 0 .. Len(s)
  PROVE  /\ SubSeq(s, 1, n) \in Seq(S) /\ SubSeq(s, n + 1, Len(s)) \in Seq(S)
         /\ Len(SubSeq(s, 1, n)) = n /\ Len(SubSeq(s, n + 1, Len(s))) = Len(s) - n
         /\ \A i \in 1 .. n : SubSeq(s, 1, n)[i] = s[i]
         /\ \A i \in 1 .. Len(s) - n : SubSeq(s, n + 1, Len(s))[i] = s[n + i]
<1>1. Len(s) \in Nat /\ \A i \in 1 .. Len(s) : s[i] \in S
  BY LenProperties, ElementOfSeq, Zenon
<1>2. /\ SubSeq(s, 1, n) \in Seq(S) /\ Len(SubSeq(s, 1, n)) = n
      /\ \A i \in 1 .. n : SubSeq(s, 1, n)[i] = s[i]
  <2>1. \A i \in 1 .. n : s[i] \in S
    BY <1>1
  <2> QED BY <1>1, <2>1, SubSeqProperties
<1>3. /\ SubSeq(s, n + 1, Len(s)) \in Seq(S) /\ Len(SubSeq(s, n + 1, Len(s))) = Len(s) - n
      /\ \A i \in 1 .. Len(s) - n : SubSeq(s, n + 1, Len(s))[i] = s[n + i]
  <2>1. \A i \in n + 1 .. Len(s) : s[i] \in S
    BY <1>1
  <2> DEFINE m == n + 1
             k == Len(s)
  <2>2. m \in Int /\ k \in Int /\ k - m + 1 = Len(s) - n /\ m <= k + 1
    BY <1>1
  <2>3. /\ SubSeq(s, m, k) \in Seq(S)
        /\ Len(SubSeq(s, m, k)) = IF m <= k THEN k - m + 1 ELSE 0
        /\ \A i \in 1 .. k - m + 1 : SubSeq(s, m, k)[i] = s[m + i - 1]
    <3> HIDE DEF m, k
    <3>1. \A i \in m .. k : s[i] \in S
      BY <2>1, Zenon DEF m, k
    <3> QED BY <2>2, <3>1, SubSeqProperties
  <2>4. \A i \in 1 .. Len(s) - n : SubSeq(s, n + 1, Len(s))[i] = s[n + i]
    <3>1. ASSUME NEW i \in 1 .. Len(s) - n PROVE SubSeq(s, n + 1, Len(s))[i] = s[n + i]
      <4>1. n + 1 + i - 1 = n + i /\ i \in 1 .. k - m + 1
        BY <1>1
      <4> QED BY <2>3, <4>1, Zenon
    <3> QED BY <3>1, Zenon
  <2>5. Len(SubSeq(s, m, k)) = Len(s) - n
    <3> HIDE DEF m, k
    <3> QED BY <1>1, <2>2, <2>3
  <2> QED BY <2>3, <2>4, <2>5, Zenon
<1> QED BY <1>2, <1>3, Zenon

\* What moves from b to a is neither lost nor made.
LEMMA Transfer ==
  ASSUME NEW a \in Nat, NEW b \in Nat, NEW n \in 0 .. b
  PROVE  (a + n) + (b - n) = a + b /\ b - n <= b
OBVIOUS

\* n units leave a ring r, which becomes r2, for a client that had g and has g2.
Moved(g, r, n, g2, r2) ==
  /\ g2 \in Seq(Nat) /\ r2 \in Seq(Nat)
  /\ Len(g2) = Len(g) + n /\ Len(r2) = Len(r) - n
  /\ Len(g2) + Len(r2) = Len(g) + Len(r) /\ Len(r2) <= Len(r)
  /\ \A i \in 1 .. Len(g) : g2[i] = g[i]
  /\ \A i \in 1 .. n : g2[Len(g) + i] = r[i]
  /\ \A i \in 1 .. Len(r2) : r2[i] = r[n + i]

\* Recv takes the first n units of the ring and appends them to the client's.
LEMMA UnitsMove ==
  ASSUME NEW g \in Seq(Nat), NEW r \in Seq(Nat), NEW n \in 0 .. Len(r),
         NEW g2, NEW r2, g2 = g \o SubSeq(r, 1, n), r2 = SubSeq(r, n + 1, Len(r))
  PROVE  Moved(g, r, n, g2, r2)
<1>1. Len(g) \in Nat /\ Len(r) \in Nat
  OBVIOUS
<1>2. /\ SubSeq(r, 1, n) \in Seq(Nat) /\ r2 \in Seq(Nat)
      /\ Len(SubSeq(r, 1, n)) = n /\ Len(r2) = Len(r) - n
      /\ \A i \in 1 .. n : SubSeq(r, 1, n)[i] = r[i]
      /\ \A i \in 1 .. Len(r) - n : r2[i] = r[n + i]
  <2>1. /\ SubSeq(r, 1, n) \in Seq(Nat) /\ SubSeq(r, n + 1, Len(r)) \in Seq(Nat)
        /\ Len(SubSeq(r, 1, n)) = n /\ Len(SubSeq(r, n + 1, Len(r))) = Len(r) - n
        /\ \A i \in 1 .. n : SubSeq(r, 1, n)[i] = r[i]
        /\ \A i \in 1 .. Len(r) - n : SubSeq(r, n + 1, Len(r))[i] = r[n + i]
    BY CutSeq, Zenon
  <2> QED BY <2>1, Zenon
<1>3. /\ g2 \in Seq(Nat) /\ Len(g2) = Len(g) + n
      /\ \A i \in 1 .. Len(g) + n : g2[i] = IF i <= Len(g) THEN g[i] ELSE SubSeq(r, 1, n)[i - Len(g)]
  <2> DEFINE h == SubSeq(r, 1, n)
  <2> HIDE DEF h
  <2>1. h \in Seq(Nat) /\ Len(h) = n /\ g2 = g \o h
    BY <1>2, Zenon DEF h
  <2>2. /\ g \o h \in Seq(Nat) /\ Len(g \o h) = Len(g) + Len(h)
        /\ \A i \in 1 .. Len(g) + Len(h) : (g \o h)[i] = IF i <= Len(g) THEN g[i] ELSE h[i - Len(g)]
    BY <2>1, ConcatProperties, Zenon
  <2>3. /\ g2 \in Seq(Nat) /\ Len(g2) = Len(g) + n
        /\ \A i \in 1 .. Len(g) + n : g2[i] = IF i <= Len(g) THEN g[i] ELSE h[i - Len(g)]
    BY <2>1, <2>2, Zenon
  <2> QED BY <2>3, Zenon DEF h
<1>4. Len(g2) = Len(g) + n /\ Len(r2) = Len(r) - n
  BY <1>2, <1>3, Zenon
<1>5. Len(g2) + Len(r2) = Len(g) + Len(r) /\ Len(r2) <= Len(r)
  <2> DEFINE a == Len(g)
             b == Len(r)
  <2>1. a \in Nat /\ b \in Nat /\ n \in 0 .. b
    BY <1>1, Zenon
  <2> HIDE DEF a, b
  <2>2. (a + n) + (b - n) = a + b /\ b - n <= b
    BY <2>1, Transfer, Zenon
  <2> QED BY <1>4, <2>2, Zenon DEF a, b
<1>6. \A i \in 1 .. Len(g) : g2[i] = g[i]
  BY <1>1, <1>3
<1>7. ASSUME NEW i \in 1 .. n PROVE g2[Len(g) + i] = r[i]
  <2>1. Len(g) + i \in 1 .. Len(g) + n /\ ~(Len(g) + i <= Len(g)) /\ Len(g) + i - Len(g) = i
    BY <1>1
  <2> DEFINE j == Len(g) + i
  <2> HIDE DEF j
  <2>2. g2[j] = IF j <= Len(g) THEN g[j] ELSE SubSeq(r, 1, n)[j - Len(g)]
    BY <1>3, <2>1, Zenon DEF j
  <2>3. g2[j] = SubSeq(r, 1, n)[j - Len(g)]
    BY <2>1, <2>2, Zenon DEF j
  <2>4. j - Len(g) = i
    BY <1>1 DEF j
  <2>5. SubSeq(r, 1, n)[i] = r[i]
    BY <1>2, Zenon
  <2> QED BY <2>3, <2>4, <2>5, Zenon DEF j
<1>8. \A i \in 1 .. Len(r2) : r2[i] = r[n + i]
  BY <1>2, Zenon
<1> QED BY <1>2, <1>3, <1>4, <1>5, <1>6, <1>7, <1>8, Zenon DEF Moved

\* What g and r hold of the stream 1, 2, ...
InOrder(g, r) ==
  /\ \A i \in 1 .. Len(g) : g[i] = i
  /\ \A i \in 1 .. Len(r) : r[i] = Len(g) + i

\* Units that move keep the stream in order.
LEMMA StreamMove ==
  ASSUME NEW g \in Seq(Nat), NEW r \in Seq(Nat), NEW n \in 0 .. Len(r), NEW g2, NEW r2,
         Moved(g, r, n, g2, r2), InOrder(g, r)
  PROVE  InOrder(g2, r2)
<1> DEFINE a == Len(g)
           b == Len(r)
<1>1. a \in Nat /\ b \in Nat /\ n \in 0 .. b
  OBVIOUS
<1>0. /\ Len(g2) = a + n /\ Len(r2) = b - n
      /\ \A i \in 1 .. a : g2[i] = g[i] /\ g[i] = i
      /\ \A i \in 1 .. n : g2[a + i] = r[i]
      /\ \A i \in 1 .. b - n : r2[i] = r[n + i]
      /\ \A i \in 1 .. b : r[i] = a + i
  BY Zenon DEF Moved, InOrder
<1>2. \A i \in 1 .. a + n : g2[i] = i
  <2>1. ASSUME NEW i \in 1 .. a + n, i > a PROVE g2[i] = i
    <3> DEFINE j == i - a
    <3> HIDE DEF a, b
    <3>1. j \in 1 .. n /\ j \in 1 .. b /\ a + j = i
      BY <1>1, <2>1
    <3> HIDE DEF j
    <3>2. g2[a + j] = r[j] /\ r[j] = a + j
      BY <1>0, <3>1, Zenon
    <3> QED BY <3>1, <3>2, Zenon
  <2>2. ASSUME NEW i \in 1 .. a + n, ~(i > a) PROVE g2[i] = i
    <3> HIDE DEF a, b
    <3>1. i \in 1 .. a
      BY <1>1, <2>2
    <3> QED BY <1>0, <3>1, Zenon
  <2> QED BY <2>1, <2>2, Zenon
<1>3. ASSUME NEW i \in 1 .. b - n PROVE r2[i] = (a + n) + i
  <2> HIDE DEF a, b
  <2>2. n + i \in 1 .. b /\ a + (n + i) = (a + n) + i
    BY <1>1
  <2>3. r2[i] = r[n + i] /\ r[n + i] = a + (n + i)
    BY <1>0, <2>2, Zenon
  <2> QED BY <2>2, <2>3, Zenon
<1> QED BY <1>0, <1>2, <1>3, Zenon DEF InOrder

\* A chunk e enters the queue q, which is the end of a.
LEMMA QueueGrows ==
  ASSUME NEW S, NEW q \in Seq(S), NEW a \in Seq(S), NEW e \in S, NEW k \in Nat,
         Len(a) = k + Len(q), \A i \in 1 .. Len(q) : a[k + i] = q[i]
  PROVE  /\ Len(Append(a, e)) = k + Len(Append(q, e))
         /\ \A i \in 1 .. Len(Append(q, e)) : Append(a, e)[k + i] = Append(q, e)[i]
<1>1. Len(q) \in Nat /\ Len(a) \in Nat
  OBVIOUS
<1>2. Len(Append(a, e)) = Len(a) + 1 /\ Len(Append(q, e)) = Len(q) + 1
  BY AppendProperties
<1>3. ASSUME NEW i \in 1 .. Len(q) + 1 PROVE Append(a, e)[k + i] = Append(q, e)[i]
  <2>1. CASE i = Len(q) + 1
    <3>1. k + i = Len(a) + 1
      BY <1>1, <2>1
    <3>2. Append(a, e)[Len(a) + 1] = e /\ Append(q, e)[Len(q) + 1] = e
      BY AppendProperties
    <3> QED BY <2>1, <3>1, <3>2, Zenon
  <2>2. CASE i # Len(q) + 1
    <3>1. i \in 1 .. Len(q) /\ k + i \in 1 .. Len(a)
      BY <1>1, <2>2
    <3> QED BY <3>1, AppendProperties
  <2> QED BY <2>1, <2>2, Zenon
<1> QED BY <1>1, <1>2, <1>3

-----------------------------------------------------------------------------
(* The inductive invariant.                                                *)

\* Where each kind of thread can be.
MarkLabels == {"eosRing", "eosTarget", "eosCancel"}
ReaderLabels == {"new", "top", "read", "put", "once", "exit", "done"} \cup EOSLabels \cup BodyLabels
WriterLabels == {"new", "select", "sub", "check", "write", "errSwap", "exit", "done"} \cup MarkLabels
SenderLabels == {"new", "check", "load", "send", "add", "done"}
ReceiverLabels == {"new", "top", "read", "once", "done"} \cup BodyLabels
CloserLabels == {"new", "once", "done"} \cup BodyLabels

Roles ==
  /\ pc \in [Threads -> Labels]
  /\ pc["reader"] \in ReaderLabels /\ pc["writer"] \in WriterLabels
  /\ \A s \in Senders : pc[s] \in SenderLabels
  /\ \A r \in Receivers : pc[r] \in ReceiverLabels
  /\ \A c \in Closers : pc[c] \in CloserLabels

\* The wait group counts the loops that have been started and have not ended.
Running(l) == IF pc[l] \in {"new", "done"} THEN 0 ELSE 1
LoopsCounted ==
  /\ wg = Running("reader") + Running("writer")
  /\ pc["reader"] = "new" <=> pc["writer"] = "new"

\* What MarkEOS and the body of Close have done by each of their labels.
MarkedAt(l) ==
  /\ l \in MarkLabels => eos
  /\ l \in BodyLabels \ {"setClosed"} => closed
  /\ l \in BodyLabels \ {"setClosed", "setEOS"} => eos
  /\ l \in BodyLabels \ {"setClosed", "setEOS", "cancel"} => ctxDone
  /\ l \in {"closeRing", "closeChan", "wait", "callback"} => ~targetOpen
  /\ l \in {"closeChan", "wait", "callback"} => ringClosed
  /\ l \in {"wait", "callback"} => chClosed
Marked == \A t \in Threads : MarkedAt(pc[t])

\* One thread runs the body of Close, once.
OneBody ==
  /\ \A t \in Threads : pc[t] \in BodyLabels => once = "busy"
  /\ \A t, u \in Threads : pc[t] \in BodyLabels /\ pc[u] \in BodyLabels => t = u
  /\ calls = IF once = "done" THEN 1 ELSE 0

\* The units of the target's stream that are on their way to the client.
Units ==
  /\ ringClosed => eos
  /\ Len(ring) <= RecvWindow
  /\ InOrder(got, ring)
  /\ Len(got) + Len(ring) + hold <= nread
  /\ hold # 0 => pc["reader"] = "put"
  /\ pc["reader"] \in {"new", "top", "read", "put", "eofSwap"} /\ ~ringClosed
       => Len(got) + Len(ring) + hold = nread

\* The end of the stream.
Ended ==
  /\ pc["reader"] = "eofSwap" => nread = OutLen
  /\ eosBy = "eof" => /\ eos /\ Len(got) + Len(ring) = OutLen
                      /\ pc["reader"] \in MarkLabels \cup {"exit", "done"}
  /\ sawEOS => ringClosed /\ ring = <<>>

\* The chunks that were accepted: sent, in the writer's hands, queued.
InHand == IF pc["writer"] \in {"sub", "check", "write"} THEN 1 ELSE 0
Chunks ==
  /\ \A s \in Senders : offset[s] <= PayloadLen
  /\ pc["writer"] \in {"sub", "check", "write"} => taken \in Part
  /\ Len(sent) <= Len(accepted)
  /\ \A i \in 1 .. Len(sent) : sent[i] = accepted[i]
  /\ pc["writer"] \in {"new", "select", "sub", "check", "write"} =>
       /\ Len(accepted) = Len(sent) + InHand + Len(queue)
       /\ InHand = 1 => accepted[Len(sent) + 1] = taken
       /\ \A i \in 1 .. Len(queue) : accepted[Len(sent) + InHand + i] = queue[i]

\* Behind wg.Wait the connection is quiet: a loop that is still to begin, because
\* Close overtook Start, finds nothing to do.
AfterWait == once = "done" \/ \E t \in Threads : pc[t] = "callback"
Quiet ==
  /\ pc["reader"] = "new" => queue = <<>> /\ \A s \in Senders : pc[s] = "new"
  /\ AfterWait =>
       /\ closed /\ eos /\ ctxDone /\ ~targetOpen /\ ringClosed /\ chClosed
       /\ pc["reader"] \in {"new", "top", "exit", "done"}
       /\ pc["writer"] \in {"new", "select", "exit", "done"}
       /\ pc["writer"] \in {"new", "select"} => queue = <<>>

\* The types that Roles leaves open.
Types ==
  /\ closed \in BOOLEAN /\ eos \in BOOLEAN /\ ctxDone \in BOOLEAN /\ targetOpen \in BOOLEAN
  /\ ringClosed \in BOOLEAN /\ chClosed \in BOOLEAN /\ sawEOS \in BOOLEAN
  /\ ring \in Seq(Nat) /\ got \in Seq(Nat) /\ hold \in Nat /\ nread \in Nat
  /\ queue \in Seq(Part) /\ accepted \in Seq(Part) /\ sent \in Seq(Part)
  /\ taken \in Part \cup {NoPart} /\ upstreamBytes \in Int /\ offset \in [Senders -> Nat]
  /\ once \in {"free", "busy", "done"} /\ wg \in Int /\ calls \in Nat
  /\ eosBy \in {"none", "eof", "error", "close"}

IInv == Types /\ Roles /\ LoopsCounted /\ Marked /\ OneBody /\ Units /\ Ended /\ Chunks /\ Quiet

\* The loops, senders, receivers and closers are different threads.
LEMMA ThreadFacts ==
  /\ "reader" \in Threads /\ "writer" \in Threads
  /\ Senders \subseteq Threads /\ Receivers \subseteq Threads /\ Closers \subseteq Threads
  /\ ClosingThreads \subseteq Threads
  /\ \A s \in Senders : s # "reader" /\ s # "writer" /\ s \notin Receivers /\ s \notin Closers
  /\ \A r \in Receivers : r # "reader" /\ r # "writer" /\ r \notin Closers
  /\ \A c \in Closers : c # "reader" /\ c # "writer"
BY ConnAssumption, Zenon DEF Threads, Loops, ClosingThreads

-----------------------------------------------------------------------------
(* One thread moves, and what that alone preserves.                        *)

Fits(t, l) ==
  /\ l \in Labels
  /\ t = "reader" => l \in ReaderLabels
  /\ t = "writer" => l \in WriterLabels
  /\ t \in Senders => l \in SenderLabels
  /\ t \in Receivers => l \in ReceiverLabels
  /\ t \in Closers => l \in CloserLabels

\* Flags are raised, never lowered.
Raised ==
  /\ (closed => closed') /\ (eos => eos') /\ (ctxDone => ctxDone') /\ (targetOpen' => targetOpen)
  /\ (ringClosed => ringClosed') /\ (chClosed => chClosed')

\* A thread that goes to a place of its own role keeps Roles.
LEMMA RolesMove ==
  ASSUME Roles, NEW t \in Threads, NEW from, NEW to, Goto(t, from, to), Fits(t, to)
  PROVE  /\ pc[t] = from /\ pc'[t] = to
         /\ \A u \in Threads : u # t => pc'[u] = pc[u]
         /\ Roles'
<1>1. /\ pc[t] = from /\ pc'[t] = to /\ \A u \in Threads : u # t => pc'[u] = pc[u]
      /\ pc' \in [Threads -> Labels]
  BY Zenon DEF Roles, Goto, Fits
<1> QED BY <1>1, ThreadFacts, Zenon DEF Roles, Fits

\* While flags are only raised, what MarkEOS and Close have done stays done.
LEMMA MarkedMove ==
  ASSUME Roles, Marked, NEW t \in Threads, NEW from, NEW to, Goto(t, from, to), Fits(t, to),
         Raised, MarkedAt(to)'
  PROVE  Marked'
<1>1. \A l : MarkedAt(l) => MarkedAt(l)'
  BY DEF MarkedAt, Raised
<1>2. ASSUME NEW u \in Threads PROVE MarkedAt(pc[u])'
  <2>1. pc'[u] = IF u = t THEN to ELSE pc[u]
    BY RolesMove, Zenon
  <2>2. MarkedAt(pc[u])
    BY Zenon DEF Marked
  <2> QED BY <1>1, <2>1, <2>2, Zenon
<1> QED BY <1>2, Zenon DEF Marked

\* A step that leaves wg and the loops alone keeps the wait group's count.
LEMMA LoopsMove ==
  ASSUME Roles, LoopsCounted, NEW t \in Threads, NEW from, NEW to, Goto(t, from, to), Fits(t, to),
         UNCHANGED wg, t \in Loops => {from, to} \cap {"new", "done"} = {}
  PROVE  LoopsCounted'
BY RolesMove, ThreadFacts, Zenon DEF LoopsCounted, Running, Loops

\* A thread that stays out of closeOnce's body keeps it to one thread.
LEMMA BodyMove ==
  ASSUME Roles, OneBody, NEW t \in Threads, NEW from, NEW to, Goto(t, from, to), Fits(t, to),
         UNCHANGED <<once, calls>>, to \in BodyLabels => from \in BodyLabels
  PROVE  OneBody'
BY RolesMove DEF OneBody

\* A thread other than the writer moves: the data stay as they are.
LEMMA DataSame ==
  ASSUME Roles, Units, Ended, Chunks,
         NEW t \in Threads, NEW from, NEW to, Goto(t, from, to), Fits(t, to), t # "writer",
         t = "reader" => /\ from \in BodyLabels \cup {"once"} /\ to \in BodyLabels \cup {"once", "exit"},
         Raised, ringClosed' => eos', eosBy' \in {eosBy, "close"},
         UNCHANGED <<ring, hold, nread, got, sawEOS, queue, taken, offset, accepted, sent>>
  PROVE  Units' /\ Ended' /\ Chunks'
<1>1. /\ pc[t] = from /\ pc'[t] = to /\ pc'["writer"] = pc["writer"]
      /\ t # "reader" => pc'["reader"] = pc["reader"]
  BY RolesMove, ThreadFacts, Zenon
<1>2. /\ pc'["reader"] \in {"new", "top", "read", "put", "eofSwap"} => pc'["reader"] = pc["reader"]
      /\ pc["reader"] \in {"put"} \cup MarkLabels \cup {"exit", "done"} => pc'["reader"] = pc["reader"]
  BY <1>1, Zenon DEF BodyLabels, MarkLabels
<1>3. Units'
  BY <1>2, Zenon DEF Units, Raised
<1>4. Ended'
  BY <1>2, Zenon DEF Ended, Raised
<1>5. Chunks'
  BY <1>1, Zenon DEF Chunks, InHand
<1> QED BY <1>3, <1>4, <1>5, Zenon

\* What Close's wait established survives a step that starts no loop's work.
LEMMA QuietSame ==
  ASSUME Roles, Quiet,
         NEW t \in Threads, NEW from, NEW to, Goto(t, from, to), Fits(t, to), t # "writer",
         t = "reader" => /\ from \in BodyLabels \cup {"once"} /\ to \in BodyLabels \cup {"once", "exit"},
         t \in Senders => pc["reader"] # "new",
         Raised, to # "callback", UNCHANGED once, queue' = queue \/ (t \in Senders /\ ~chClosed)
  PROVE  Quiet'
<1>1. /\ pc[t] = from /\ pc'[t] = to /\ pc'["writer"] = pc["writer"]
      /\ \A u \in Threads : u # t => pc'[u] = pc[u]
  BY RolesMove, ThreadFacts, Zenon
<1>2. AfterWait' => AfterWait
  BY <1>1, Zenon DEF AfterWait
<1>3. AfterWait => t # "reader" /\ queue' = queue
  BY <1>1, Zenon DEF Quiet, BodyLabels
<1>4. pc'["reader"] = "new" => t \notin Senders /\ pc["reader"] = "new"
  BY <1>1, ThreadFacts, Zenon DEF BodyLabels
<1>5. pc'["reader"] = "new" => queue' = <<>> /\ \A s \in Senders : pc'[s] = "new"
  BY <1>1, <1>4, ThreadFacts, Zenon DEF Quiet
<1>6. AfterWait' => pc'["reader"] = pc["reader"]
  BY <1>1, <1>2, <1>3, ThreadFacts, Zenon
<1> QED BY <1>1, <1>2, <1>3, <1>5, <1>6, Zenon DEF Quiet, Raised

\* A loop moves.
LEMMA QuietLoop ==
  ASSUME Roles, Quiet, LoopsCounted,
         NEW t \in Loops, NEW from, NEW to, Goto(t, from, to), Fits(t, to),
         from # "new", to \notin {"new", "callback"}, UNCHANGED once, Raised,
         AfterWait => queue' = queue /\ (from \in {"top", "select", "exit", "done"} => to \in {"exit", "done"})
  PROVE  Quiet'
<1>1. /\ pc[t] = from /\ pc'[t] = to /\ \A u \in Threads : u # t => pc'[u] = pc[u]
  BY RolesMove, ThreadFacts DEF Loops
<1>2. AfterWait' => AfterWait
  BY <1>1, Zenon DEF AfterWait
<1>3. pc'["reader"] # "new"
  BY <1>1, ThreadFacts, Zenon DEF LoopsCounted, Loops
<1>4. AfterWait' => /\ pc'["reader"] \in {"new", "top", "exit", "done"}
                    /\ pc'["writer"] \in {"new", "select", "exit", "done"}
                    /\ pc'["writer"] \in {"new", "select"} => pc'["writer"] = pc["writer"]
  BY <1>1, <1>2, ThreadFacts, Zenon DEF Quiet, Loops
<1> QED BY <1>1, <1>2, <1>3, <1>4, Zenon DEF Quiet, Raised

\* Only the program counter of a thread other than the loops moves.
LEMMA IdleMove ==
  ASSUME IInv, NEW t \in Threads, NEW from, NEW to, Goto(t, from, to), Fits(t, to), t \notin Loops,
         to \notin BodyLabels \cup MarkLabels, t \in Senders => pc["reader"] # "new",
         UNCHANGED <<flags, down, up, life>>
  PROVE  IInv'
<1>1. Types'
  BY DEF IInv, Types, flags, down, up, life
<1>2. Raised /\ (ringClosed' => eos')
  BY Zenon DEF Raised, flags, down, up, IInv, Units
<1>3. Roles' /\ LoopsCounted' /\ OneBody'
  BY RolesMove, LoopsMove, BodyMove, Zenon DEF IInv, life
<1>4. MarkedAt(to)'
  BY Zenon DEF MarkedAt, BodyLabels
<1>5. Marked'
  BY <1>2, <1>4, MarkedMove, Zenon DEF IInv
<1>6. t # "writer" /\ t # "reader" /\ to # "callback"
  BY Zenon DEF Loops, BodyLabels
<1>7. Units' /\ Ended' /\ Chunks'
  BY <1>2, <1>6, DataSame, Zenon DEF IInv, flags, down, up, life
<1>8. Quiet'
  BY <1>2, <1>6, QuietSame, Zenon DEF IInv, flags, down, up, life
<1> QED BY <1>1, <1>3, <1>5, <1>7, <1>8, Zenon DEF IInv
-----------------------------------------------------------------------------
(* Enqueue, Recv and Close.                                                *)

\* The pieces Enqueue cuts a payload into.
LEMMA PartType ==
  ASSUME IInv, NEW s \in Senders
  PROVE  /\ PartOf(s) \in Part /\ PartOf(s).len \in Nat
         /\ offset[s] \in Nat /\ offset[s] + PartOf(s).len <= PayloadLen
<1>1. offset[s] \in Nat /\ offset[s] <= PayloadLen /\ PayloadLen \in Nat /\ Chunk \in Nat
  BY ConnAssumption, Zenon DEF IInv, Types, Chunks
<1> QED BY <1>1 DEF PartOf, Part

\* conn.go Enqueue keeps the inductive invariant.
LEMMA EnqueueStep ==
  ASSUME IInv, NEW s \in Senders, enqCall(s) \/ Enqueue(s)
  PROVE  IInv'
<1>0. /\ s \in Threads /\ s \notin Loops /\ s # "writer" /\ s # "reader"
      /\ \A l \in SenderLabels : Fits(s, l) /\ l \notin BodyLabels \cup MarkLabels
  BY ThreadFacts DEF Loops, Fits, SenderLabels, Labels, BodyLabels, MarkLabels
<1>1. CASE enqCall(s)
  BY <1>0, <1>1, IdleMove, Zenon DEF enqCall, Opened, SenderLabels
<1>2. ASSUME Enqueue(s) PROVE pc["reader"] # "new"
  BY <1>2, Zenon DEF IInv, Quiet, Enqueue, enqCheck, enqLoad, enqSend, enqRefused, enqAdd, Goto
<1>3. CASE enqCheck(s) \/ enqLoad(s) \/ enqRefused(s)
  <2>1. \E from, to \in SenderLabels : Goto(s, from, to) /\ UNCHANGED <<flags, down, up, life>>
    BY <1>3, Zenon DEF enqCheck, enqLoad, enqRefused, SenderLabels
  <2> QED BY <1>0, <1>2, <1>3, <2>1, IdleMove, Zenon DEF Enqueue
<1>4. CASE enqSend(s)
  <2>1. /\ Goto(s, "send", "add") /\ Fits(s, "add") /\ "add" \notin BodyLabels \cup MarkLabels
        /\ ~chClosed /\ queue' = Append(queue, PartOf(s)) /\ accepted' = Append(accepted, PartOf(s))
        /\ UNCHANGED <<flags, down, chClosed, upstreamBytes, taken, offset, sent, life>>
    BY <1>0, <1>4, Zenon DEF enqSend, SenderLabels
  <2>2. Types' /\ Raised /\ (ringClosed' => eos')
    BY <2>1, PartType DEF IInv, Types, flags, down, life, Raised, Units
  <2>3. Roles' /\ LoopsCounted' /\ OneBody'
    BY <1>0, <2>1, RolesMove, LoopsMove, BodyMove, Zenon DEF IInv, life
  <2>4. Marked'
    <3>1. MarkedAt("add")'
      BY <2>1, Zenon DEF MarkedAt, BodyLabels, MarkLabels
    <3> QED BY <1>0, <2>1, <2>2, <3>1, MarkedMove, Zenon DEF IInv
  <2>5. pc'["reader"] = pc["reader"] /\ pc'["writer"] = pc["writer"]
    BY <1>0, <2>1, RolesMove, ThreadFacts, Zenon DEF IInv
  <2>6. Units' /\ Ended'
    BY <2>1, <2>5, Zenon DEF IInv, Units, Ended, flags, down, life
  <2>7. Chunks'
    <3>1. /\ queue \in Seq(Part) /\ accepted \in Seq(Part) /\ sent \in Seq(Part) /\ PartOf(s) \in Part
          /\ Len(sent) + InHand \in Nat /\ InHand' = InHand /\ Len(accepted) \in Nat
      BY <2>5, PartType DEF IInv, Types, InHand
    <3>2. Len(accepted') = Len(accepted) + 1 /\ \A i \in 1 .. Len(accepted) : accepted'[i] = accepted[i]
      BY <2>1, <3>1, AppendProperties
    <3>3. /\ Len(sent') <= Len(accepted') /\ \A i \in 1 .. Len(sent') : sent'[i] = accepted'[i]
      BY <2>1, <3>1, <3>2 DEF IInv, Chunks
    <3>4. ASSUME pc["writer"] \in {"new", "select", "sub", "check", "write"}
          PROVE  /\ Len(accepted') = Len(sent) + InHand + Len(queue')
                 /\ \A i \in 1 .. Len(queue') : accepted'[Len(sent) + InHand + i] = queue'[i]
      <4>1. /\ Len(accepted) = Len(sent) + InHand + Len(queue)
            /\ \A i \in 1 .. Len(queue) : accepted[Len(sent) + InHand + i] = queue[i]
        BY <3>4, Zenon DEF IInv, Chunks
      <4> DEFINE k == Len(sent) + InHand
      <4> HIDE DEF k
      <4>3. /\ k \in Nat /\ Len(accepted) = k + Len(queue)
            /\ \A i \in 1 .. Len(queue) : accepted[k + i] = queue[i]
        BY <3>1, <4>1, Zenon DEF k
      <4>2. /\ Len(Append(accepted, PartOf(s))) = k + Len(Append(queue, PartOf(s)))
            /\ \A i \in 1 .. Len(Append(queue, PartOf(s))) :
                  Append(accepted, PartOf(s))[k + i] = Append(queue, PartOf(s))[i]
        BY <3>1, <4>3, QueueGrows, SMTT(20)
      <4> QED BY <2>1, <4>2, Zenon DEF k
    <3>5. InHand = 1 /\ pc["writer"] \in {"sub", "check", "write"} => accepted'[Len(sent) + 1] = taken
      <4>1. ASSUME InHand = 1, pc["writer"] \in {"sub", "check", "write"}
            PROVE  Len(sent) + 1 \in 1 .. Len(accepted) /\ accepted[Len(sent) + 1] = taken
        BY <3>1, <4>1 DEF IInv, Chunks, Types
      <4> QED BY <3>2, <4>1, Zenon
    <3>6. /\ \A u \in Senders : offset'[u] <= PayloadLen
          /\ pc["writer"] \in {"sub", "check", "write"} => taken' \in Part
          /\ InHand = 1 => pc["writer"] \in {"sub", "check", "write"}
      BY <2>1 DEF IInv, Chunks, InHand
    <3> QED BY <2>1, <2>5, <3>1, <3>3, <3>4, <3>5, <3>6, Zenon DEF Chunks
  <2>8. Quiet'
    BY <1>0, <1>2, <1>4, <2>1, <2>2, QuietSame, Zenon DEF IInv, life, Enqueue
  <2> QED BY <2>2, <2>3, <2>4, <2>6, <2>7, <2>8, Zenon DEF IInv
<1>5. CASE enqAdd(s)
  <2>1. /\ Goto(s, "add", "check") /\ Fits(s, "check") /\ "check" \notin BodyLabels \cup MarkLabels
        /\ upstreamBytes' = upstreamBytes + PartOf(s).len
        /\ offset' = [offset EXCEPT ![s] = @ + PartOf(s).len]
        /\ UNCHANGED <<flags, down, queue, chClosed, taken, accepted, sent, life>>
    BY <1>0, <1>5, Zenon DEF enqAdd, SenderLabels
  <2>2. Types' /\ Raised /\ (ringClosed' => eos')
    BY <2>1, PartType, SMTT(20) DEF IInv, Types, flags, down, life, Raised, Units
  <2>3. Roles' /\ LoopsCounted' /\ OneBody'
    BY <1>0, <2>1, RolesMove, LoopsMove, BodyMove, Zenon DEF IInv, life
  <2>4. Marked'
    <3>1. MarkedAt("check")'
      BY <2>1, Zenon DEF MarkedAt, BodyLabels, MarkLabels
    <3> QED BY <1>0, <2>1, <2>2, <3>1, MarkedMove, Zenon DEF IInv
  <2>5. pc'["reader"] = pc["reader"] /\ pc'["writer"] = pc["writer"]
    BY <1>0, <2>1, RolesMove, ThreadFacts, Zenon DEF IInv
  <2>6. Units' /\ Ended'
    BY <2>1, <2>5, Zenon DEF IInv, Units, Ended, flags, down, life
  <2>7. Chunks'
    <3>1. \A u \in Senders : offset'[u] <= PayloadLen
      BY <2>1, PartType, Zenon DEF IInv, Chunks, Types
    <3> QED BY <2>1, <2>5, <3>1, Zenon DEF IInv, Chunks, InHand
  <2>8. Quiet'
    BY <1>0, <1>2, <1>5, <2>1, <2>2, QuietSame, Zenon DEF IInv, life, Enqueue
  <2> QED BY <2>2, <2>3, <2>4, <2>6, <2>7, <2>8, Zenon DEF IInv
<1> QED BY <1>1, <1>3, <1>4, <1>5, Zenon DEF Enqueue

\* Recv moves units from the ring to the client.
LEMMA RecvUnits ==
  ASSUME IInv, NEW n \in 1 .. Len(ring), ring # <<>>,
         got' = got \o SubSeq(ring, 1, n), ring' = SubSeq(ring, n + 1, Len(ring)),
         UNCHANGED <<ringClosed, eos, hold, nread>>, pc'["reader"] = pc["reader"]
  PROVE  /\ ring' \in Seq(Nat) /\ got' \in Seq(Nat) /\ Units'
         /\ Len(got') + Len(ring') = Len(got) + Len(ring)
         /\ n = Len(ring) => ring' = <<>>
<1>1. /\ ring \in Seq(Nat) /\ got \in Seq(Nat) /\ Len(ring) \in Nat /\ Len(got) \in Nat
      /\ RecvWindow \in Nat /\ n \in 0 .. Len(ring)
  BY LenProperties, ConnAssumption DEF IInv, Types
<1>2. InOrder(got, ring)
  BY Zenon DEF IInv, Units
<1>3. Moved(got, ring, n, got', ring')
  BY <1>1, UnitsMove, Zenon
<1>7. InOrder(got', ring')
  BY <1>1, <1>2, <1>3, StreamMove, Zenon
<1>4. Len(got') + Len(ring') = Len(got) + Len(ring) /\ Len(ring') <= Len(ring)
      /\ Len(ring) \in Nat /\ Len(ring') \in Nat /\ RecvWindow \in Nat
  BY <1>1, <1>3, LenProperties, Zenon DEF Moved
<1>5. Units'
  <2>1. Len(ring') <= RecvWindow
    BY <1>4 DEF IInv, Units
  <2>2. Len(got) + Len(ring) + hold <= nread => Len(got') + Len(ring') + hold' <= nread'
    BY <1>4, Zenon
  <2>3. Len(got) + Len(ring) + hold = nread => Len(got') + Len(ring') + hold' = nread'
    BY <1>4, Zenon
  <2> QED BY <1>7, <2>1, <2>2, <2>3, Zenon DEF IInv, Units
<1>6. n = Len(ring) => ring' = <<>>
  <2>1. n = Len(ring) => Len(ring') = 0
    BY <1>1, <1>3 DEF Moved
  <2> QED BY <1>3, <2>1, EmptySeq, Zenon DEF Moved
<1> QED BY <1>3, <1>5, <1>6, Zenon DEF Moved

\* A thread moves inside the body of Close, or a flag is raised with the move.
LEMMA BodyStep ==
  ASSUME IInv, NEW t \in ClosingThreads, NEW from \in BodyLabels, NEW to \in BodyLabels \ {"callback"},
         Goto(t, from, to), MarkedAt(to)', Raised, ringClosed' => eos', eosBy' \in {eosBy, "close"},
         {closed', eos', ctxDone', targetOpen', ringClosed', chClosed'} \subseteq BOOLEAN,
         UNCHANGED <<ring, hold, nread, got, sawEOS, queue, upstreamBytes, taken, offset, accepted, sent>>,
         UNCHANGED <<once, wg, calls>>
  PROVE  IInv'
<1>1. /\ Fits(t, to) /\ t \in Threads /\ t # "writer" /\ to # "callback"
      /\ {from, to} \cap {"new", "done"} = {}
  BY ThreadFacts DEF Fits, ClosingThreads, Labels, BodyLabels, ReaderLabels, ReceiverLabels, CloserLabels
<1>2. Types'
  BY Zenon DEF IInv, Types
<1>3. Roles' /\ LoopsCounted' /\ Marked' /\ OneBody'
  BY <1>1, RolesMove, LoopsMove, MarkedMove, BodyMove, Zenon DEF IInv
<1>4. Units' /\ Ended' /\ Chunks'
  BY <1>1, DataSame, Zenon DEF IInv
<1>5. Quiet'
  BY <1>1, ThreadFacts, QuietSame, Zenon DEF IInv, ClosingThreads
<1> QED BY <1>2, <1>3, <1>4, <1>5, Zenon DEF IInv

\* conn.go Close keeps the inductive invariant, at each of its steps.
LEMMA CloseStep ==
  ASSUME IInv, NEW t \in ClosingThreads, CallClose(t) \/ Close(t)
  PROVE  IInv'
<1>0. t \in Threads /\ t # "writer" /\ t \notin Senders /\ (t # "reader" => t \notin Loops)
  BY ThreadFacts, Zenon DEF ClosingThreads, Loops
<1>1. CASE CallClose(t)
  <2>1. Fits(t, "once") /\ "once" \notin BodyLabels \cup MarkLabels /\ t \notin Loops
    BY <1>1, ThreadFacts, Zenon DEF CallClose, Fits, CloserLabels, Labels, BodyLabels, MarkLabels, Loops
  <2> QED BY <1>0, <1>1, <2>1, IdleMove, Zenon DEF CallClose
<1>2. CASE SetClosed(t) \/ SetEOS(t) \/ Cancel(t) \/ CloseTarget(t) \/ CloseRing(t) \/ CloseChan(t)
  <2>1. MarkedAt(pc[t])
    BY <1>0, Zenon DEF IInv, Marked
  <2>2. \E from, to \in BodyLabels \ {"callback"} : Goto(t, from, to) /\ MarkedAt(to)'
    <3>1. CASE SetClosed(t)
      <4>1. Goto(t, "setClosed", "setEOS") /\ MarkedAt("setEOS")'
        BY <2>1, <3>1, Zenon DEF SetClosed, Goto, MarkedAt, BodyLabels, MarkLabels, down, up
      <4> QED BY <4>1, Zenon DEF BodyLabels
    <3>2. CASE SetEOS(t)
      <4>1. Goto(t, "setEOS", "cancel") /\ MarkedAt("cancel")'
        BY <2>1, <3>2, Zenon DEF SetEOS, Goto, MarkedAt, BodyLabels, MarkLabels, down, up
      <4> QED BY <4>1, Zenon DEF BodyLabels
    <3>3. CASE Cancel(t)
      <4>1. Goto(t, "cancel", "closeTarget") /\ MarkedAt("closeTarget")'
        BY <2>1, <3>3, Zenon DEF Cancel, Goto, MarkedAt, BodyLabels, MarkLabels, down, up
      <4> QED BY <4>1, Zenon DEF BodyLabels
    <3>4. CASE CloseTarget(t)
      <4>1. Goto(t, "closeTarget", "closeRing") /\ MarkedAt("closeRing")'
        BY <2>1, <3>4, Zenon DEF CloseTarget, Goto, MarkedAt, BodyLabels, MarkLabels, down, up
      <4> QED BY <4>1, Zenon DEF BodyLabels
    <3>5. CASE CloseRing(t)
      <4>1. Goto(t, "closeRing", "closeChan") /\ MarkedAt("closeChan")'
        BY <2>1, <3>5, Zenon DEF CloseRing, Goto, MarkedAt, BodyLabels, MarkLabels, flags, down, up
      <4> QED BY <4>1, Zenon DEF BodyLabels
    <3>6. CASE CloseChan(t)
      <4>1. Goto(t, "closeChan", "wait") /\ MarkedAt("wait")'
        BY <2>1, <3>6, Zenon DEF CloseChan, Goto, MarkedAt, BodyLabels, MarkLabels, flags, down, up
      <4> QED BY <4>1, Zenon DEF BodyLabels
    <3> QED BY <1>2, <3>1, <3>2, <3>3, <3>4, <3>5, <3>6, Zenon
  <2>3. /\ Raised /\ (ringClosed' => eos') /\ eosBy' \in {eosBy, "close"}
        /\ {closed', eos', ctxDone', targetOpen', ringClosed', chClosed'} \subseteq BOOLEAN
        /\ UNCHANGED <<ring, hold, nread, got, sawEOS, queue, upstreamBytes, taken, offset, accepted, sent>>
        /\ UNCHANGED <<once, wg, calls>>
    <3>1. ringClosed => eos
      BY Zenon DEF IInv, Units
    <3>2. {closed, eos, ctxDone, targetOpen, ringClosed, chClosed} \subseteq BOOLEAN
      BY Zenon DEF IInv, Types
    <3>3. CASE SetClosed(t)
      BY <2>1, <3>1, <3>2, <3>3, Zenon DEF SetClosed, Goto, MarkedAt, BodyLabels, flags, down, up, life, Raised
    <3>4. CASE SetEOS(t)
      BY <2>1, <3>1, <3>2, <3>4, Zenon DEF SetEOS, Goto, MarkedAt, BodyLabels, flags, down, up, life, Raised
    <3>5. CASE Cancel(t)
      BY <2>1, <3>1, <3>2, <3>5, Zenon DEF Cancel, Goto, MarkedAt, BodyLabels, flags, down, up, life, Raised
    <3>6. CASE CloseTarget(t)
      BY <2>1, <3>1, <3>2, <3>6, Zenon DEF CloseTarget, Goto, MarkedAt, BodyLabels, flags, down, up, life, Raised
    <3>7. CASE CloseRing(t)
      BY <2>1, <3>1, <3>2, <3>7, Zenon DEF CloseRing, Goto, MarkedAt, BodyLabels, flags, down, up, life, Raised
    <3>8. CASE CloseChan(t)
      BY <2>1, <3>1, <3>2, <3>8, Zenon DEF CloseChan, Goto, MarkedAt, BodyLabels, flags, down, up, life, Raised
    <3> QED BY <1>2, <3>3, <3>4, <3>5, <3>6, <3>7, <3>8
  <2> QED BY <2>2, <2>3, BodyStep, Zenon
<1>3. CASE once = "free" /\ OnceDo(t)
  <2>1. /\ Goto(t, "once", "setClosed") /\ Fits(t, "setClosed") /\ once' = "busy"
        /\ UNCHANGED <<flags, down, up, wg, calls, eosBy>>
    BY <1>3, ThreadFacts, Zenon DEF OnceDo, Fits, ClosingThreads, Labels, BodyLabels, ReaderLabels, ReceiverLabels, CloserLabels
  <2>2. Raised /\ Types' /\ MarkedAt("setClosed")'
    BY <2>1 DEF Raised, flags, down, up, IInv, Types, MarkedAt, MarkLabels
  <2>3. Roles' /\ LoopsCounted' /\ Marked'
    BY <1>0, <2>1, <2>2, RolesMove, LoopsMove, MarkedMove, Zenon DEF IInv
  <2>4. pc[t] = "once" /\ pc'[t] = "setClosed" /\ \A u \in Threads : u # t => pc'[u] = pc[u]
    BY <1>0, <2>1, RolesMove, Zenon DEF IInv
  <2>5. OneBody' /\ ~AfterWait'
    BY <1>3, <2>1, <2>4, Zenon DEF IInv, OneBody, AfterWait, BodyLabels
  <2>6. Units' /\ Ended' /\ Chunks'
    BY <1>0, <2>1, <2>2, DataSame, Zenon DEF IInv, flags, down, up, BodyLabels, Units
  <2>7. Quiet'
    BY <1>0, <2>1, <2>4, <2>5, ThreadFacts, Zenon DEF IInv, Quiet, up
  <2> QED BY <2>2, <2>3, <2>5, <2>6, <2>7, Zenon DEF IInv
<1>4. CASE once = "done" /\ OnceDo(t)
  <2>1. /\ t # "reader" /\ Goto(t, "once", "done") /\ UNCHANGED <<flags, down, up, life>>
    BY <1>4, Zenon DEF OnceDo, AfterClose, Goto, IInv, Quiet, AfterWait
  <2>2. Fits(t, "done") /\ "done" \notin BodyLabels \cup MarkLabels
    BY <2>1, ThreadFacts, Zenon DEF Fits, ClosingThreads, Labels, ReceiverLabels, CloserLabels, BodyLabels, MarkLabels
  <2> QED BY <1>0, <2>1, <2>2, IdleMove, Zenon
<1>5. CASE Wait(t)
  <2>1. Goto(t, "wait", "callback") /\ UNCHANGED <<flags, down, up, life>> /\ wg = 0 /\ pc[t] = "wait"
    BY <1>5, Zenon DEF Wait, Goto
  <2>2. /\ pc["reader"] \in {"new", "done"} /\ pc["writer"] \in {"new", "done"}
        /\ pc["reader"] = "new" <=> pc["writer"] = "new"
    BY <2>1 DEF IInv, LoopsCounted, Running
  <2>3. closed /\ eos /\ ctxDone /\ ~targetOpen /\ ringClosed /\ chClosed
    BY <1>0, <2>1, Zenon DEF IInv, Marked, MarkedAt, BodyLabels
  <2>4. t # "reader" /\ Fits(t, "callback")
    BY <2>1, <2>2, ThreadFacts, Zenon DEF Fits, ClosingThreads, Labels, BodyLabels, ReceiverLabels, CloserLabels
  <2>5. Raised /\ Types' /\ MarkedAt("callback")' /\ (ringClosed' => eos')
    BY <2>1, <2>3, Zenon DEF Raised, flags, down, up, life, IInv, Types, MarkedAt
  <2>6. Roles' /\ LoopsCounted' /\ Marked' /\ OneBody'
    BY <1>0, <2>1, <2>4, <2>5, RolesMove, LoopsMove, MarkedMove, BodyMove DEF IInv, life, BodyLabels
  <2>7. Units' /\ Ended' /\ Chunks'
    BY <1>0, <2>1, <2>4, <2>5, DataSame, Zenon DEF IInv, flags, down, up, life
  <2>8. \A u \in Threads : u # t => pc'[u] = pc[u]
    BY <1>0, <2>1, <2>4, RolesMove, Zenon DEF IInv
  <2>9. Quiet'
    BY <1>0, <2>1, <2>2, <2>3, <2>4, <2>8, ThreadFacts, Zenon DEF IInv, Quiet, flags, down, up
  <2> QED BY <2>5, <2>6, <2>7, <2>9, Zenon DEF IInv
<1>6. CASE Callback(t)
  <2>1. /\ t # "reader" /\ Goto(t, "callback", "done") /\ calls' = calls + 1 /\ once' = "done"
        /\ UNCHANGED <<flags, down, up, wg, eosBy>> /\ pc[t] = "callback"
    BY <1>0, <1>6, Zenon DEF Callback, AfterClose, Goto, IInv, Quiet, AfterWait
  <2>2. Fits(t, "done") /\ "done" \notin BodyLabels \cup MarkLabels
    BY <2>1, ThreadFacts, Zenon DEF Fits, ClosingThreads, Labels, ReceiverLabels, CloserLabels, BodyLabels, MarkLabels
  <2>3. Raised /\ Types' /\ MarkedAt("done")' /\ (ringClosed' => eos')
    BY <2>1, <2>2 DEF Raised, flags, down, up, IInv, Types, MarkedAt, Units, BodyLabels
  <2>4. Roles' /\ LoopsCounted' /\ Marked'
    BY <1>0, <2>1, <2>2, <2>3, RolesMove, LoopsMove, MarkedMove, Zenon DEF IInv
  <2>5. pc'[t] = "done" /\ \A u \in Threads : u # t => pc'[u] = pc[u]
    BY <1>0, <2>1, <2>2, RolesMove, Zenon DEF IInv
  <2>6. OneBody'
    BY <1>0, <2>1, <2>5 DEF IInv, OneBody, BodyLabels
  <2>7. Units' /\ Ended' /\ Chunks'
    BY <1>0, <2>1, <2>2, <2>3, DataSame, Zenon DEF IInv, flags, down, up
  <2>8. Quiet'
    BY <1>0, <2>1, <2>5, ThreadFacts, Zenon DEF IInv, Quiet, AfterWait, flags, down, up
  <2> QED BY <2>3, <2>4, <2>6, <2>7, <2>8, Zenon DEF IInv
<1> QED BY <1>1, <1>2, <1>3, <1>4, <1>5, <1>6, Zenon DEF Close, OnceDo

\* The Recv handler keeps the inductive invariant.
LEMMA RecvStep ==
  ASSUME IInv, NEW r \in Receivers, recvCall(r) \/ Recv(r)
  PROVE  IInv'
<1>0. /\ r \in Threads /\ r \notin Loops /\ r # "writer" /\ r # "reader" /\ r \notin Senders
      /\ \A l \in {"top", "read", "once", "done"} : Fits(r, l) /\ l \notin BodyLabels \cup MarkLabels
  BY ThreadFacts, Zenon DEF Loops, Fits, ReceiverLabels, Labels, BodyLabels, MarkLabels
<1>1. CASE recvCall(r) \/ recvCheck(r)
  <2>1. \E from, to \in {"new", "top", "read", "done"} :
          to # "new" /\ Goto(r, from, to) /\ UNCHANGED <<flags, down, up, life>>
    BY <1>1, Zenon DEF recvCall, recvCheck
  <2> QED BY <1>0, <2>1, IdleMove, Zenon
<1>2. CASE recvData(r) \/ recvEmpty(r)
  <2>1. PICK to \in {"top", "once"} : Goto(r, "read", to)
    BY <1>2, Zenon DEF recvData, recvEmpty
  <2>2. /\ pc'["reader"] = pc["reader"] /\ pc'["writer"] = pc["writer"]
        /\ UNCHANGED <<flags, ringClosed, hold, nread, up, life>>
    BY <1>0, <1>2, <2>1, RolesMove, ThreadFacts, Zenon DEF IInv, recvData, recvEmpty
  <2>3. Raised /\ MarkedAt(to)' /\ (ringClosed' => eos')
    BY <1>0, <2>2, Zenon DEF Raised, MarkedAt, flags, up, IInv, Units
  <2>4. Roles' /\ LoopsCounted' /\ Marked' /\ OneBody'
    BY <1>0, <2>1, <2>2, <2>3, RolesMove, LoopsMove, MarkedMove, BodyMove, Zenon DEF IInv, life
  <2>5. Quiet'
    BY <1>0, <2>1, <2>2, <2>3, QuietSame, Zenon DEF IInv, up, life, BodyLabels
  <2>6. Chunks'
    BY <2>2, Zenon DEF IInv, Chunks, InHand, up
  <2>7. CASE recvData(r)
    <3>1. PICK max \in 1 .. RecvWindow :
            LET n == IF max < Len(ring) THEN max ELSE Len(ring)
            IN  /\ got' = got \o SubSeq(ring, 1, n)
                /\ ring' = SubSeq(ring, n + 1, Len(ring))
                /\ sawEOS' = (sawEOS \/ (ringClosed /\ n = Len(ring)))
      BY <2>7, Zenon DEF recvData
    <3> DEFINE n == IF max < Len(ring) THEN max ELSE Len(ring)
    <3>2. ring # <<>> /\ ring \in Seq(Nat) /\ Len(ring) \in Nat \ {0} /\ n \in 1 .. Len(ring)
      <4>1. ring # <<>> /\ ring \in Seq(Nat) /\ Len(ring) \in Nat \ {0}
        BY <2>7, EmptySeq, Zenon DEF recvData, IInv, Types
      <4>2. RecvWindow \in Nat
        BY ConnAssumption, Zenon
      <4> QED BY <4>1, <4>2
    <3> HIDE DEF n
    <3>3. /\ got' = got \o SubSeq(ring, 1, n) /\ ring' = SubSeq(ring, n + 1, Len(ring))
          /\ sawEOS' = (sawEOS \/ (ringClosed /\ n = Len(ring)))
      BY <3>1, Zenon DEF n
    <3>4. /\ ring' \in Seq(Nat) /\ got' \in Seq(Nat) /\ Units'
          /\ Len(got') + Len(ring') = Len(got) + Len(ring)
          /\ n = Len(ring) => ring' = <<>>
      BY <2>2, <3>2, <3>3, RecvUnits, Zenon DEF flags
    <3>5. Types'
      <4>1. sawEOS' \in BOOLEAN
        BY <3>3, Zenon DEF IInv, Types
      <4> QED BY <2>2, <3>4, <4>1 DEF IInv, Types, flags, up, life
    <3>6. Ended'
      <4>1. sawEOS' => ringClosed' /\ ring' = <<>>
        BY <2>2, <3>2, <3>3, <3>4, Zenon DEF IInv, Ended
      <4>2. Len(got) + Len(ring) = OutLen => Len(got') + Len(ring') = OutLen
        BY <3>4, Zenon
      <4> QED BY <2>2, <4>1, <4>2, Zenon DEF IInv, Ended, flags, life
    <3> QED BY <2>4, <2>5, <2>6, <3>4, <3>5, <3>6, Zenon DEF IInv
  <2>8. CASE recvEmpty(r)
    <3>1. ring = <<>> /\ sawEOS' = (sawEOS \/ ringClosed) /\ UNCHANGED <<ring, got>>
      BY <2>8, Zenon DEF recvEmpty
    <3>2. Types' /\ Units' /\ Ended'
      BY <2>2, <3>1 DEF IInv, Types, Units, Ended, flags, up, life
    <3> QED BY <2>4, <2>5, <2>6, <3>2, Zenon DEF IInv
  <2> QED BY <1>2, <2>7, <2>8, Zenon
<1> QED BY <1>1, <1>2, Zenon DEF Recv

-----------------------------------------------------------------------------
(* The loops.                                                              *)

\* What a loop's move keeps when it touches no data.
LEMMA LoopStep ==
  ASSUME IInv, NEW t \in Loops, NEW from, NEW to, Goto(t, from, to), Fits(t, to),
         from \notin {"new", "done"}, to \notin {"new", "done"} \cup BodyLabels, Raised, MarkedAt(to)',
         AfterWait => queue' = queue /\ (from \in {"top", "select", "exit"} => to = "exit"),
         UNCHANGED <<once, wg, calls>>, Types', Units', Ended', Chunks'
  PROVE  IInv'
<1>1. t \in Threads /\ to # "callback"
  BY Zenon DEF Threads, BodyLabels
<1>2. Roles' /\ LoopsCounted' /\ Marked' /\ OneBody'
  BY <1>1, RolesMove, LoopsMove, MarkedMove, BodyMove, Zenon DEF IInv
<1>3. Quiet'
  BY <1>1, QuietLoop, Zenon DEF IInv
<1> QED BY <1>2, <1>3, Zenon DEF IInv

\* MarkEOS and the end of a loop.
LEMMA MarkStep ==
  ASSUME IInv, NEW t \in Loops, MarkEOS(t) \/ WgDone(t)
  PROVE  IInv'
<1>0. t \in Threads /\ MarkedAt(pc[t])
  BY Zenon DEF Threads, IInv, Marked
<1>1. CASE MarkEOS(t)
  <2>1. PICK from \in EOSLabels, to \in MarkLabels \cup {"exit"} : Goto(t, from, to)
    BY <1>1, Zenon DEF MarkEOS, EOSSwap, EOSRing, EOSTarget, EOSCancel, EOSLabels, MarkLabels
  <2>2. /\ Fits(t, to) /\ from \notin {"new", "done", "top", "select", "exit"}
        /\ to \notin {"new", "done"} \cup BodyLabels
    BY ThreadFacts, Zenon DEF Fits, Loops, Labels, EOSLabels, MarkLabels, BodyLabels, ReaderLabels, WriterLabels
  <2>3. /\ pc[t] = from /\ pc'[t] = to /\ \A u \in Threads : u # t => pc'[u] = pc[u]
    BY <1>0, <2>1, <2>2, RolesMove, Zenon DEF IInv
  <2>4. /\ UNCHANGED <<once, wg, calls, up, closed, ring, hold, nread, got, sawEOS>>
        /\ Raised /\ (ringClosed' => eos') /\ (to \in MarkLabels => eos')
        /\ {eos', ctxDone', targetOpen', ringClosed'} \subseteq BOOLEAN
    <3>1. {eos, ctxDone, targetOpen, ringClosed} \subseteq BOOLEAN /\ (ringClosed => eos)
      BY Zenon DEF IInv, Types, Units
    <3>2. ASSUME NEW at, NEW reason, EOSSwap(t, at, reason) PROVE <2>4!1 /\ <2>4!2 /\ <2>4!3
      BY <3>1, <3>2, Zenon DEF EOSSwap, down, up, Raised
    <3>3. CASE EOSRing(t)
      BY <1>0, <3>1, <3>3, Zenon DEF EOSRing, Goto, MarkedAt, MarkLabels, flags, down, up, life, Raised
    <3>4. CASE EOSTarget(t)
      BY <1>0, <3>1, <3>4, Zenon DEF EOSTarget, Goto, MarkedAt, MarkLabels, flags, down, up, life, Raised
    <3>5. CASE EOSCancel(t)
      BY <1>0, <3>1, <3>5, Zenon DEF EOSCancel, Goto, MarkedAt, MarkLabels, flags, down, up, life, Raised
    <3> QED BY <1>1, <3>2, <3>3, <3>4, <3>5, Zenon DEF MarkEOS
  <2>5. \/ eosBy' = eosBy
        \/ eosBy' = "error"
        \/ t = "reader" /\ from = "eofSwap" /\ to \in MarkLabels /\ ~eos /\ eosBy' = "eof"
    BY <1>0, <1>1, <2>2, <2>3, Zenon DEF MarkEOS, EOSSwap, EOSRing, EOSTarget, EOSCancel, Goto, life,
         IInv, Roles, Loops, WriterLabels, MarkLabels
  <2>6. MarkedAt(to)'
    BY <2>4, Zenon DEF MarkedAt, MarkLabels, BodyLabels
  <2>7. Types'
    BY <2>4, <2>5 DEF IInv, Types, up
  <2>8. /\ pc'["reader"] = pc["reader"] \/ (pc["reader"] \in EOSLabels /\ pc'["reader"] \in MarkLabels \cup {"exit"})
        /\ pc'["writer"] = pc["writer"] \/ pc'["writer"] \in MarkLabels \cup {"exit"}
    BY <2>3, ThreadFacts, Zenon
  <2>9. Units'
    BY <2>4, <2>8, Zenon DEF IInv, Units, EOSLabels, MarkLabels, Raised
  <2>10. Chunks'
    BY <2>4, <2>8, Zenon DEF IInv, Chunks, InHand, up, MarkLabels
  <2>11. Ended'
    <3>1. eosBy' = "eof" => /\ eos' /\ Len(got) + Len(ring) = OutLen
                            /\ pc'["reader"] \in MarkLabels \cup {"exit", "done"}
      <4>1. CASE eosBy' = eosBy
        BY <2>4, <2>8, <4>1, Zenon DEF IInv, Ended, Raised
      <4>2. CASE t = "reader" /\ from = "eofSwap" /\ to \in MarkLabels /\ ~eos
        <5>1. nread = OutLen /\ hold = 0 /\ Len(got) + Len(ring) + hold = nread
          BY <2>3, <4>2, Zenon DEF IInv, Units, Ended, Types
        <5>2. Len(got) + Len(ring) = OutLen
          BY <5>1 DEF IInv, Types
        <5> QED BY <2>3, <2>4, <4>2, <5>2, Zenon
      <4> QED BY <2>5, <4>1, <4>2, Zenon
    <3>2. pc'["reader"] = "eofSwap" => pc["reader"] = "eofSwap"
      BY <2>8, Zenon DEF MarkLabels
    <3> QED BY <2>4, <3>1, <3>2, Zenon DEF IInv, Ended, Raised
  <2> QED BY <2>1, <2>2, <2>4, <2>6, <2>7, <2>9, <2>10, <2>11, LoopStep, Zenon DEF up
<1>2. CASE WgDone(t)
  <2>1. Goto(t, "exit", "done") /\ wg' = wg - 1 /\ UNCHANGED <<flags, down, up, once, calls, eosBy>>
    BY <1>2, Zenon DEF WgDone
  <2>2. Fits(t, "done")
    BY ThreadFacts, Zenon DEF Fits, Loops, Labels, ReaderLabels, WriterLabels
  <2>3. /\ pc[t] = "exit" /\ pc'[t] = "done" /\ Roles'
        /\ \A u \in Threads : u # t => pc'[u] = pc[u]
    BY <1>0, <2>1, <2>2, RolesMove, Zenon DEF IInv
  <2>4. /\ pc'["reader"] = pc["reader"] \/ (pc["reader"] = "exit" /\ pc'["reader"] = "done")
        /\ pc'["writer"] = pc["writer"] \/ (pc["writer"] = "exit" /\ pc'["writer"] = "done")
    BY <2>3, ThreadFacts, Zenon
  <2>5. Types' /\ Raised /\ MarkedAt("done")'
    BY <2>1 DEF IInv, Types, Raised, MarkedAt, MarkLabels, BodyLabels, flags, down, up
  <2>6. LoopsCounted'
    BY <2>1, <2>3, ThreadFacts DEF IInv, LoopsCounted, Running, Loops
  <2>7. Marked' /\ OneBody'
    BY <1>0, <2>1, <2>2, <2>5, MarkedMove, BodyMove, Zenon DEF IInv, BodyLabels
  <2>8. Units' /\ Ended' /\ Chunks'
    BY <2>1, <2>4 DEF IInv, Units, Ended, Chunks, InHand, flags, down, up, MarkLabels
  <2>9. Quiet'
    BY <2>1, <2>2, <2>5, QuietLoop, Zenon DEF IInv, up
  <2> QED BY <2>3, <2>5, <2>6, <2>7, <2>8, <2>9, Zenon DEF IInv
<1> QED BY <1>1, <1>2, Zenon

\* readLoop's units reach the ring as far as they fit.
LEMMA PutUnits ==
  ASSUME IInv, pc["reader"] = "put", ~ringClosed
  PROVE  /\ ring \o SubSeq(Held, 1, Taken) \in Seq(Nat)
         /\ Len(ring \o SubSeq(Held, 1, Taken)) = Len(ring) + Taken
         /\ InOrder(got, ring \o SubSeq(Held, 1, Taken))
         /\ Taken \in 0 .. hold /\ Len(ring) + Taken <= RecvWindow
         /\ ~Overflow => Taken = hold
<1> DEFINE g == Len(got)
           r == Len(ring)
           h == SubSeq(Held, 1, Taken)
<1>1. /\ g \in Nat /\ r \in Nat /\ hold \in Nat /\ nread \in Nat /\ RecvWindow \in Nat
      /\ r <= RecvWindow /\ g + r + hold = nread
  BY ConnAssumption DEF IInv, Types, Units
<1>2. /\ Taken \in 0 .. hold /\ r + Taken <= RecvWindow /\ (~Overflow => Taken = hold)
  BY <1>1 DEF Taken, Overflow
<1>3. ASSUME NEW i \in 1 .. Taken PROVE Held[i] = g + r + i /\ Held[i] \in Nat
  <2>1. i \in 1 .. hold /\ nread - hold + i = g + r + i /\ g + r + i \in Nat
    <3> HIDE DEF g, r
    <3> QED BY <1>1, <1>2
  <2> QED BY <2>1, Zenon DEF Held
<1>4. h \in Seq(Nat) /\ Len(h) = Taken /\ \A i \in 1 .. Taken : h[i] = Held[i]
  BY <1>2, <1>3, SubSeqProperties
<1>5. /\ ring \in Seq(Nat) /\ got \in Seq(Nat)
      /\ \A i \in 1 .. g : got[i] = i
      /\ \A i \in 1 .. r : ring[i] = g + i
  BY Zenon DEF IInv, Types, Units, InOrder
<1> HIDE DEF g, r, h
<1>6. /\ ring \o h \in Seq(Nat) /\ Len(ring \o h) = r + Taken
      /\ \A i \in 1 .. r + Taken : (ring \o h)[i] = IF i <= r THEN ring[i] ELSE h[i - r]
  BY <1>4, <1>5, ConcatProperties, Zenon DEF r
<1>7. ASSUME NEW i \in 1 .. r + Taken PROVE (ring \o h)[i] = g + i
  <2>1. CASE i <= r
    BY <1>1, <1>2, <1>5, <1>6, <2>1
  <2>2. CASE ~(i <= r)
    <3>1. i - r \in 1 .. Taken /\ g + r + (i - r) = g + i
      BY <1>1, <1>2, <2>2
    <3>2. (ring \o h)[i] = h[i - r] /\ h[i - r] = Held[i - r] /\ Held[i - r] = g + r + (i - r)
      BY <1>3, <1>4, <1>6, <2>2, <3>1, Zenon
    <3> QED BY <3>1, <3>2, Zenon
  <2> QED BY <2>1, <2>2, Zenon
<1> QED BY <1>2, <1>5, <1>6, <1>7, Zenon DEF InOrder, g, r, h

\* conn.go readLoop keeps the inductive invariant.
LEMMA ReadStep ==
  ASSUME IInv, readTop \/ readData \/ readEOF \/ readError \/ readPut
  PROVE  IInv'
<1>0. /\ "reader" \in Loops /\ "reader" \in Threads
      /\ \A l \in {"top", "read", "put", "eofSwap", "errSwap", "once", "exit"} :
           Fits("reader", l) /\ l \notin {"new", "done"} \cup BodyLabels /\ l \notin MarkLabels
  BY ThreadFacts DEF Loops, Fits, ReaderLabels, Labels, EOSLabels, BodyLabels, MarkLabels
<1>1. PICK from \in {"top", "read", "put"},
           to \in {"top", "read", "put", "eofSwap", "errSwap", "once", "exit"} : Goto("reader", from, to)
  BY Zenon DEF readTop, readData, readEOF, readError, readPut
<1>11. pc \in [Threads -> Labels]
  BY Zenon DEF IInv, Roles
<1>2. pc["reader"] = from /\ pc'["reader"] = to /\ pc'["writer"] = pc["writer"]
  BY <1>0, <1>1, RolesMove, ThreadFacts DEF IInv
<1>3. /\ UNCHANGED <<flags, ringClosed, got, sawEOS, up, life>>
      /\ Raised /\ MarkedAt(to)'
  BY <1>0 DEF readTop, readData, readEOF, readError, readPut, flags, down, up, life, Raised, MarkedAt
<1>4. Chunks'
  BY <1>2, <1>3, Zenon DEF IInv, Chunks, InHand, up
<1>5. AfterWait => queue' = queue /\ (from \in {"top", "select", "exit"} => to = "exit")
  <2>1. from = "top" /\ closed => to = "exit"
    BY <1>0, <1>2, <1>11, Zenon DEF readTop, readData, readEOF, readError, readPut, Goto
  <2> QED BY <1>3, <2>1, Zenon DEF IInv, Quiet, up
<1>6. ASSUME Types', Units', Ended' PROVE IInv'
  BY <1>0, <1>1, <1>3, <1>4, <1>5, <1>6, LoopStep, Zenon DEF life
<1>7. CASE readTop \/ readEOF \/ readError
  <2>1. /\ UNCHANGED <<ring, hold, nread>> /\ from # "put" /\ to \in {"read", "eofSwap", "errSwap", "exit"}
        /\ to = "eofSwap" => nread = OutLen
    BY <1>0, <1>2, <1>11, <1>7, Zenon DEF readTop, readEOF, readError, Goto, down
  <2>2. Types' /\ Units' /\ Ended'
    BY <1>2, <1>3, <2>1 DEF IInv, Types, Units, Ended, flags, up, life, MarkLabels
  <2> QED BY <1>6, <2>2, Zenon
<1>8. CASE readData
  <2>1. PICK n \in 1 .. ReadMax : hold' = n /\ nread' = nread + n
    BY <1>8, Zenon DEF readData
  <2>2. from = "read" /\ to = "put" /\ ring' = ring
    BY <1>0, <1>2, <1>11, <1>8, Zenon DEF readData, Goto
  <2>3. hold = 0 /\ hold \in Nat /\ nread \in Nat /\ n \in Nat /\ Len(got) \in Nat /\ Len(ring) \in Nat
    BY <1>2, <2>2, ConnAssumption DEF IInv, Units, Types
  <2>4. Types'
    BY <1>3, <2>1, <2>2, <2>3 DEF IInv, Types, flags, up, life
  <2>5. Units'
    <3>1. /\ Len(got) + Len(ring) + hold <= nread => Len(got) + Len(ring) + hold' <= nread'
          /\ Len(got) + Len(ring) + hold = nread => Len(got) + Len(ring) + hold' = nread'
      BY <2>1, <2>3
    <3> QED BY <1>2, <1>3, <2>2, <3>1, Zenon DEF IInv, Units, flags
  <2>6. Ended'
    BY <1>2, <1>3, <2>2, Zenon DEF IInv, Ended, flags, life, MarkLabels
  <2> QED BY <1>6, <2>4, <2>5, <2>6, Zenon
<1>9. CASE readPut
  <2>1. /\ from = "put" /\ to = IF Overflow THEN "once" ELSE "top"
        /\ ring' = ring \o SubSeq(Held, 1, Taken) /\ hold' = 0 /\ nread' = nread
    BY <1>0, <1>2, <1>11, <1>9, Zenon DEF readPut, Goto
  <2>2. /\ hold \in Nat /\ nread \in Nat /\ Len(got) \in Nat /\ Len(ring) \in Nat /\ ring \in Seq(Nat)
        /\ Len(got) + Len(ring) + hold <= nread
    BY DEF IInv, Types, Units
  <2>3. CASE ringClosed
    <3>1. ring' = ring
      <4>1. SubSeq(Held, 1, Taken) = <<>>
        BY <2>3, SubSeqEmpty DEF Taken
      <4> QED BY <2>1, <2>2, <4>1, ConcatEmptySeq, Zenon
    <3>2. Types'
      <4>1. ring' \in Seq(Nat) /\ hold' \in Nat /\ nread' \in Nat
        BY <2>1, <2>2, <3>1, Zenon
      <4> QED BY <1>3, <4>1 DEF IInv, Types, flags, up, life
    <3>3. Units'
      <4>1. Len(got) + Len(ring) + hold' <= nread'
        BY <2>1, <2>2
      <4> QED BY <1>2, <1>3, <2>1, <2>3, <3>1, <4>1, Zenon DEF IInv, Units, flags
    <3>4. Ended'
      BY <1>2, <1>3, <2>1, <3>1, Zenon DEF IInv, Ended, flags, life, MarkLabels
    <3> QED BY <1>6, <3>2, <3>3, <3>4, Zenon
  <2>4. CASE ~ringClosed
    <3>1. /\ ring' \in Seq(Nat) /\ Len(ring') = Len(ring) + Taken /\ InOrder(got, ring')
          /\ Taken \in 0 .. hold /\ Len(ring) + Taken <= RecvWindow /\ (~Overflow => Taken = hold)
      BY <1>2, <2>1, <2>4, PutUnits, Zenon
    <3>2. Types'
      BY <1>3, <2>1, <3>1 DEF IInv, Types, flags, up, life
    <3>3. Units'
      <4>1. Len(got) + Len(ring) + hold = nread
        BY <1>2, <2>1, <2>4, Zenon DEF IInv, Units
      <4>2. Len(got) + Len(ring') + hold' <= nread'
        BY <2>1, <2>2, <3>1, <4>1
      <4>3. to = "top" => Len(got) + Len(ring') + hold' = nread'
        <5>1. to = "top" => Taken = hold
          BY <2>1, <3>1, Zenon
        <5>2. Len(got) + (Len(ring) + hold) + 0 = nread
          BY <2>2, <4>1
        <5> QED BY <2>1, <3>1, <5>1, <5>2, Zenon
      <4>4. Len(ring') <= RecvWindow
        BY <3>1, Zenon
      <4> QED BY <1>2, <1>3, <2>1, <2>4, <3>1, <4>2, <4>3, <4>4, Zenon DEF IInv, Units, flags
    <3>4. Ended'
      BY <1>2, <1>3, <2>1, <2>4, Zenon DEF IInv, Ended, flags, life, MarkLabels
    <3> QED BY <1>6, <3>2, <3>3, <3>4, Zenon
  <2> QED BY <2>3, <2>4, Zenon
<1> QED BY <1>7, <1>8, <1>9, Zenon

\* conn.go writeLoop keeps the inductive invariant.
LEMMA WriteStep ==
  ASSUME IInv, writeCtxDone \/ writeTake \/ writeQueueClosed \/ writeSub \/ writeCheck \/ writeDone \/ writeError
  PROVE  IInv'
<1>0. /\ "writer" \in Loops /\ "writer" \in Threads
      /\ \A l \in {"select", "sub", "check", "write", "errSwap", "exit"} :
           Fits("writer", l) /\ l \notin {"new", "done"} \cup BodyLabels /\ l \notin MarkLabels
  BY ThreadFacts DEF Loops, Fits, WriterLabels, Labels, EOSLabels, BodyLabels, MarkLabels
<1>1. PICK from \in {"select", "sub", "check", "write"},
           to \in {"select", "sub", "check", "write", "errSwap", "exit"} : Goto("writer", from, to)
  BY Zenon DEF writeCtxDone, writeTake, writeQueueClosed, writeSub, writeCheck, writeDone, writeError
<1>11. pc \in [Threads -> Labels]
  BY Zenon DEF IInv, Roles
<1>2. pc["writer"] = from /\ pc'["writer"] = to /\ pc'["reader"] = pc["reader"]
  BY <1>0, <1>1, RolesMove, ThreadFacts DEF IInv
<1>3. /\ UNCHANGED <<flags, down, chClosed, offset, accepted, life>>
      /\ Raised /\ MarkedAt(to)'
  <2>1. UNCHANGED <<flags, down, chClosed, offset, accepted, life>>
    BY Zenon DEF writeCtxDone, writeTake, writeQueueClosed, writeSub, writeCheck, writeDone, writeError, up
  <2>2. Raised /\ MarkedAt(to)'
    BY <1>0, <2>1, Zenon DEF flags, down, Raised, MarkedAt, BodyLabels
  <2> QED BY <2>1, <2>2, Zenon
<1>4. Units' /\ Ended'
  BY <1>2, <1>3, Zenon DEF IInv, Units, Ended, flags, down, life
<1>5. AfterWait => queue' = queue /\ (from \in {"top", "select", "exit"} => to = "exit")
  <2>1. AfterWait /\ from = "select" => queue = <<>>
    BY <1>2, Zenon DEF IInv, Quiet
  <2>2. queue' = queue \/ (from = "select" /\ queue # <<>>)
    BY <1>2, Zenon DEF writeCtxDone, writeTake, writeQueueClosed, writeSub, writeCheck, writeDone, writeError, Goto, up
  <2>3. from = "select" => to = "exit" \/ queue # <<>>
    BY <1>0, <1>2, <1>11, Zenon DEF writeCtxDone, writeTake, writeQueueClosed, writeSub, writeCheck, writeDone, writeError, Goto
  <2> QED BY <2>1, <2>2, <2>3, Zenon
<1>6. ASSUME Types', Chunks' PROVE IInv'
  BY <1>0, <1>1, <1>3, <1>4, <1>5, <1>6, LoopStep DEF life
<1>7. CASE writeCtxDone \/ writeQueueClosed \/ writeSub \/ writeCheck \/ writeError
  <2>1. /\ UNCHANGED <<queue, taken, sent>>
        /\ upstreamBytes' = upstreamBytes \/ (from = "sub" /\ upstreamBytes' = upstreamBytes - taken.len)
        /\ \/ from \in {"sub", "check", "write"} /\ to \in {"sub", "check", "write"}
           \/ to \in {"errSwap", "exit"}
    <3>1. CASE writeSub
      BY <1>0, <1>2, <1>11, <3>1, Zenon DEF writeSub, Goto
    <3>2. CASE writeCtxDone \/ writeQueueClosed \/ writeError
      BY <1>0, <1>2, <1>11, <3>2, Zenon DEF writeCtxDone, writeQueueClosed, writeError, Goto, up
    <3>3. CASE writeCheck
      BY <1>0, <1>2, <1>11, <3>3 DEF writeCheck, Goto, up
    <3> QED BY <1>7, <3>1, <3>2, <3>3, Zenon
  <2>2. upstreamBytes' \in Int
    <3>1. from = "sub" => taken \in Part
      BY <1>2, Zenon DEF IInv, Chunks
    <3>2. from = "sub" => taken.len \in Int
      BY <3>1 DEF Part
    <3>3. upstreamBytes \in Int
      BY Zenon DEF IInv, Types
    <3> QED BY <2>1, <3>2, <3>3
  <2>3. Types'
    BY <1>3, <2>1, <2>2 DEF IInv, Types, flags, down, life
  <2>4. Chunks'
    BY <1>2, <1>3, <2>1, Zenon DEF IInv, Chunks, InHand
  <2> QED BY <1>6, <2>3, <2>4, Zenon
<1>8. /\ queue \in Seq(Part) /\ accepted \in Seq(Part) /\ sent \in Seq(Part)
      /\ Len(queue) \in Nat /\ Len(sent) \in Nat /\ Len(accepted) \in Nat
  BY LenProperties, Zenon DEF IInv, Types
<1>9. CASE writeTake
  <2>1. /\ from = "select" /\ to = "sub" /\ queue # <<>> /\ taken' = Head(queue) /\ queue' = Tail(queue)
        /\ UNCHANGED <<upstreamBytes, sent>>
    BY <1>0, <1>2, <1>11, <1>9 DEF writeTake, Goto
  <2>2. /\ Len(queue) > 0 /\ Tail(queue) \in Seq(Part) /\ Head(queue) \in Part /\ Head(queue) = queue[1]
        /\ Len(Tail(queue)) = Len(queue) - 1
        /\ \A i \in 1 .. Len(queue) - 1 : Tail(queue)[i] = queue[i + 1]
    BY <1>8, <2>1, EmptySeq, HeadTailProperties
  <2>3. Types'
    BY <1>3, <2>1, <2>2 DEF IInv, Types, flags, down, life
  <2>4. /\ Len(accepted) = Len(sent) + 0 + Len(queue)
        /\ \A i \in 1 .. Len(queue) : accepted[Len(sent) + 0 + i] = queue[i]
    BY <1>2, <2>1, Zenon DEF IInv, Chunks, InHand
  <2>5. accepted[Len(sent) + 1] = taken' /\ Len(accepted) = Len(sent) + 1 + Len(queue')
    <3>1. 1 \in 1 .. Len(queue) /\ Len(sent) + 0 + 1 = Len(sent) + 1
      BY <1>8, <2>2
    <3> QED BY <1>8, <2>1, <2>2, <2>4, <3>1
  <2>6. ASSUME NEW i \in 1 .. Len(queue') PROVE accepted[Len(sent) + 1 + i] = queue'[i]
    <3>1. /\ i \in 1 .. Len(queue) - 1 /\ i + 1 \in 1 .. Len(queue)
          /\ Len(sent) + 0 + (i + 1) = Len(sent) + 1 + i
      BY <1>8, <2>1, <2>2
    <3>2. accepted[Len(sent) + 0 + (i + 1)] = queue[i + 1] /\ Tail(queue)[i] = queue[i + 1]
      BY <2>2, <2>4, <3>1, Zenon
    <3> QED BY <2>1, <3>1, <3>2, Zenon
  <2>7. Chunks'
    BY <1>2, <1>3, <2>1, <2>2, <2>5, <2>6, Zenon DEF IInv, Chunks, InHand
  <2> QED BY <1>6, <2>3, <2>7, Zenon
<1>10. CASE writeDone
  <2>1. /\ from = "write" /\ to = "select" /\ sent' = Append(sent, taken)
        /\ UNCHANGED <<upstreamBytes, taken, queue>>
    BY <1>0, <1>2, <1>11, <1>10, Zenon DEF writeDone, Goto
  <2>2. /\ taken \in Part /\ Len(accepted) = Len(sent) + 1 + Len(queue)
        /\ accepted[Len(sent) + 1] = taken
        /\ \A i \in 1 .. Len(queue) : accepted[Len(sent) + 1 + i] = queue[i]
        /\ \A i \in 1 .. Len(sent) : sent[i] = accepted[i]
    BY <1>2, <2>1, Zenon DEF IInv, Chunks, InHand
  <2>3. /\ sent' \in Seq(Part) /\ Len(sent') = Len(sent) + 1
        /\ \A i \in 1 .. Len(sent) : sent'[i] = sent[i]
        /\ sent'[Len(sent) + 1] = taken
    <3>1. /\ Append(sent, taken) \in Seq(Part) /\ Len(Append(sent, taken)) = Len(sent) + 1
          /\ \A i \in 1 .. Len(sent) : Append(sent, taken)[i] = sent[i]
          /\ Append(sent, taken)[Len(sent) + 1] = taken
      BY <1>8, <2>2, AppendProperties
    <3> QED BY <2>1, <3>1, Zenon
  <2>4. Types'
    BY <1>3, <2>1, <2>3 DEF IInv, Types, flags, down, life
  <2>5. ASSUME NEW i \in 1 .. Len(sent') PROVE sent'[i] = accepted[i]
    <3>1. i \in 1 .. Len(sent) \/ i = Len(sent) + 1
      BY <1>8, <2>3
    <3> QED BY <2>2, <2>3, <3>1, Zenon
  <2>6. /\ Len(accepted) = Len(sent') + 0 + Len(queue) /\ Len(sent') <= Len(accepted)
        /\ Len(sent') + 0 = Len(sent) + 1
    BY <1>8, <2>2, <2>3
  <2>7. \A i \in 1 .. Len(queue) : accepted[Len(sent') + 0 + i] = queue[i]
    BY <2>2, <2>6, Zenon
  <2>8. Chunks'
    BY <1>2, <1>3, <2>1, <2>5, <2>6, <2>7, Zenon DEF IInv, Chunks, InHand
  <2> QED BY <1>6, <2>4, <2>8, Zenon
<1> QED BY <1>7, <1>9, <1>10, Zenon

\* Start may come after Close: the loops then find the flags set.
LEMMA StartStep ==
  ASSUME IInv, Start
  PROVE  IInv'
<1>1. /\ pc["reader"] = "new" /\ pc["writer"] = "new" /\ pc'["reader"] = "top" /\ pc'["writer"] = "select"
      /\ \A u \in Threads : u \notin Loops => pc'[u] = pc[u]
      /\ wg' = wg + 2 /\ UNCHANGED <<flags, down, up, once, calls, eosBy>>
  BY ThreadFacts, Zenon DEF Start, IInv, Roles, LoopsCounted, Loops
<1>2. Types'
  BY <1>1 DEF IInv, Types, flags, down, up
<1>3. Roles'
  <2>1. pc' \in [Threads -> Labels]
    BY ThreadFacts, Zenon DEF Start, IInv, Roles, Labels
  <2> QED BY <1>1, <2>1, ThreadFacts, Zenon DEF IInv, Roles, ReaderLabels, WriterLabels, Loops
<1>4. LoopsCounted'
  BY <1>1 DEF IInv, LoopsCounted, Running
<1>5. \A u \in Threads : pc'[u] = pc[u] \/ pc'[u] \in {"top", "select"}
  BY <1>1, Zenon DEF Loops
<1>6. Marked'
  <2>1. \A l : MarkedAt(l) => MarkedAt(l)'
    BY <1>1, Zenon DEF MarkedAt, flags, down, up
  <2>2. MarkedAt("top")' /\ MarkedAt("select")'
    BY Zenon DEF MarkedAt, MarkLabels, BodyLabels
  <2>3. ASSUME NEW u \in Threads PROVE MarkedAt(pc[u])'
    <3>1. MarkedAt(pc[u])
      BY Zenon DEF IInv, Marked
    <3>2. pc'[u] = pc[u] \/ pc'[u] = "top" \/ pc'[u] = "select"
      BY <1>5, Zenon
    <3> QED BY <2>1, <2>2, <3>1, <3>2, Zenon
  <2> QED BY <2>3, Zenon DEF Marked
<1>7. OneBody'
  BY <1>1, <1>5 DEF IInv, OneBody, BodyLabels
<1>8. Units' /\ Ended' /\ Chunks'
  BY <1>1, Zenon DEF IInv, Units, Ended, Chunks, InHand, flags, down, up, MarkLabels
<1>9. Quiet'
  BY <1>1, <1>5, Zenon DEF IInv, Quiet, AfterWait, flags, down, up
<1> QED BY <1>2, <1>3, <1>4, <1>6, <1>7, <1>8, <1>9, Zenon DEF IInv

\* NewConn establishes the inductive invariant.
LEMMA InitIInv == Init => IInv
<1> SUFFICES ASSUME Init PROVE IInv
  OBVIOUS
<1>1. \A t \in Threads : pc[t] = "new"
  BY Zenon DEF Init
<1>2. Roles
  BY <1>1, ThreadFacts, Zenon DEF Init, Roles, Labels, ReaderLabels, WriterLabels, SenderLabels, ReceiverLabels, CloserLabels
<1>3. Types
  <2>1. /\ ring \in Seq(Nat) /\ got \in Seq(Nat)
        /\ queue \in Seq(Part) /\ accepted \in Seq(Part) /\ sent \in Seq(Part)
    BY EmptySeq, Zenon DEF Init
  <2>2. taken \in Part \cup {NoPart} /\ offset \in [Senders -> Nat]
    BY Zenon DEF Init
  <2>4. {closed, eos, ctxDone, targetOpen, ringClosed, chClosed, sawEOS} \subseteq BOOLEAN
    BY Zenon DEF Init
  <2>3. /\ hold \in Nat /\ nread \in Nat /\ upstreamBytes \in Int /\ wg \in Int /\ calls \in Nat
        /\ once \in {"free", "busy", "done"} /\ eosBy \in {"none", "eof", "error", "close"}
    BY DEF Init
  <2> QED BY <2>1, <2>2, <2>3, <2>4, Zenon DEF Types
<1>4. LoopsCounted /\ OneBody /\ Marked
  BY <1>1, ThreadFacts DEF Init, LoopsCounted, Running, OneBody, Marked, MarkedAt, MarkLabels, BodyLabels
<1>5. Units /\ Ended /\ Quiet
  BY <1>1, ThreadFacts, ConnAssumption DEF Init, Units, InOrder, Ended, Quiet, AfterWait, MarkLabels
<1>6. Chunks
  BY <1>1, ThreadFacts, ConnAssumption DEF Init, Chunks, InHand
<1> QED BY <1>2, <1>3, <1>4, <1>5, <1>6, Zenon DEF IInv

\* Every step keeps the inductive invariant.
LEMMA NextIInv == IInv /\ [Next]_vars => IInv'
<1> SUFFICES ASSUME IInv, [Next]_vars PROVE IInv'
  OBVIOUS
<1>1. CASE Start
  BY <1>1, StartStep, Zenon
<1>2. CASE readLoop
  <2>1. "reader" \in Loops
    BY Zenon DEF Loops
  <2> QED BY <1>2, <2>1, ReadStep, MarkStep, Zenon DEF readLoop
<1>3. CASE writeLoop
  <2>1. "writer" \in Loops
    BY Zenon DEF Loops
  <2> QED BY <1>3, <2>1, WriteStep, MarkStep, Zenon DEF writeLoop
<1>4. CASE \E r \in Receivers : recvCall(r) \/ Recv(r)
  BY <1>4, RecvStep, Zenon
<1>5. CASE \E s \in Senders : enqCall(s) \/ Enqueue(s)
  BY <1>5, EnqueueStep, Zenon
<1>6. CASE \E t \in ClosingThreads : CallClose(t) \/ Close(t)
  BY <1>6, CloseStep, Zenon
<1>7. CASE UNCHANGED vars
  <2> USE <1>7 DEF vars, flags, down, up, life
  <2>1. Types'
    BY DEF IInv, Types
  <2>4. Roles' /\ LoopsCounted' /\ OneBody'
    BY Zenon DEF IInv, Roles, LoopsCounted, Running, OneBody
  <2>2. Marked' /\ Quiet'
    BY Zenon DEF IInv, Marked, MarkedAt, Quiet, AfterWait
  <2>3. Units' /\ Ended' /\ Chunks'
    BY Zenon DEF IInv, Units, Ended, Chunks, InHand
  <2> QED BY <2>1, <2>2, <2>3, <2>4, Zenon DEF IInv
<1> QED BY <1>1, <1>2, <1>3, <1>4, <1>5, <1>6, <1>7, Zenon DEF Next, Terminated

-----------------------------------------------------------------------------
(* What follows from the inductive invariant.                              *)

\* The inductive invariant says what the client has received.
LEMMA StreamFacts == IInv => ClientStream
<1> SUFFICES ASSUME IInv PROVE ClientStream
  OBVIOUS
<1> DEFINE g == Len(got)
           r == Len(ring)
<1>1. /\ got \in Seq(Nat) /\ ring \in Seq(Nat) /\ g \in Nat /\ r \in Nat /\ hold \in Nat /\ nread \in Nat
      /\ \A i \in 1 .. g : got[i] = i
      /\ \A i \in 1 .. r : ring[i] = g + i
      /\ g + r + hold <= nread
  BY LenProperties, Zenon DEF IInv, Types, Units, InOrder
<1>2. TypeOK
  <2>1. wg \in 0 .. 2
    BY DEF IInv, LoopsCounted, Running
  <2> QED BY <2>1 DEF IInv, Types, Roles, TypeOK
<1>3. /\ got \o ring \in Seq(Nat) /\ Len(got \o ring) = g + r
      /\ \A i \in 1 .. g + r : (got \o ring)[i] = IF i <= g THEN got[i] ELSE ring[i - g]
  BY <1>1, ConcatProperties
<1> HIDE DEF g, r
<1>4. ASSUME NEW i \in 1 .. g + r PROVE (got \o ring)[i] = i
  <2>1. CASE i <= g
    BY <1>1, <1>3, <2>1
  <2>2. CASE ~(i <= g)
    <3>1. i - g \in 1 .. r /\ g + (i - g) = i
      BY <1>1, <2>2
    <3>2. (got \o ring)[i] = ring[i - g] /\ ring[i - g] = g + (i - g)
      BY <1>1, <1>3, <2>2, <3>1, Zenon
    <3> QED BY <3>1, <3>2, Zenon
  <2> QED BY <2>1, <2>2, Zenon
<1>5. NoHoles
  <2>1. g + r \in Nat /\ g + r <= nread
    BY <1>1
  <2>2. [i \in 1 .. g + r |-> i] \in Seq(Nat) /\ Len([i \in 1 .. g + r |-> i]) = g + r
    BY <2>1
  <2>3. got \o ring = [i \in 1 .. g + r |-> i]
    BY <1>3, <1>4, <2>2, SeqEqual, Zenon
  <2> QED BY <2>1, <2>3, Zenon DEF NoHoles, g, r
<1>6. EOFComplete
  <2> SUFFICES ASSUME sawEOS, eosBy = "eof" PROVE got = [i \in 1 .. OutLen |-> i]
    BY Zenon DEF EOFComplete
  <2>1. Len(got) + Len(ring) = OutLen /\ ring = <<>>
    BY Zenon DEF IInv, Ended
  <2>2. g = OutLen /\ OutLen \in Nat
    BY <1>1, <2>1, EmptySeq, ConnAssumption DEF g
  <2>3. [i \in 1 .. g |-> i] \in Seq(Nat) /\ Len([i \in 1 .. g |-> i]) = g
    BY <1>1
  <2>4. got = [i \in 1 .. g |-> i]
    BY <1>1, <2>3, SeqEqual, Zenon DEF g
  <2> QED BY <2>2, <2>4, Zenon
<1> QED BY <1>2, <1>5, <1>6, Zenon DEF ClientStream

\* The inductive invariant says what the target has been sent.
LEMMA PrefixFact == IInv => UpstreamPrefix
<1> SUFFICES ASSUME IInv PROVE UpstreamPrefix
  OBVIOUS
<1>1. /\ sent \in Seq(Part) /\ accepted \in Seq(Part) /\ Len(sent) \in Nat /\ Len(accepted) \in Nat
      /\ Len(sent) <= Len(accepted) /\ \A i \in 1 .. Len(sent) : sent[i] = accepted[i]
  BY LenProperties, Zenon DEF IInv, Types, Chunks
<1> DEFINE n == Len(sent)
<1>2. n \in 0 .. Len(accepted)
  BY <1>1
<1>3. /\ SubSeq(accepted, 1, n) \in Seq(Part) /\ Len(SubSeq(accepted, 1, n)) = n
      /\ \A i \in 1 .. n : SubSeq(accepted, 1, n)[i] = accepted[i]
  <2> HIDE DEF n
  <2> QED BY <1>1, <1>2, CutSeq
<1>4. sent = SubSeq(accepted, 1, n)
  BY <1>1, <1>3, SeqEqual, Zenon
<1> QED BY <1>1, <1>4, Zenon DEF UpstreamPrefix

\* MarkEOS and wg.Done touch none of the data Quiesced speaks of.
LEMMA MarkFrame ==
  ASSUME NEW t, MarkEOS(t) \/ WgDone(t)
  PROVE  UNCHANGED <<calls, sent, nread, ring>>
<1>1. CASE EOSSwap(t, "eofSwap", "eof") \/ EOSSwap(t, "errSwap", "error")
  BY <1>1, Zenon DEF EOSSwap, down, up
<1>2. CASE EOSRing(t)
  BY <1>2, Zenon DEF EOSRing, up, life
<1>3. CASE EOSTarget(t) \/ EOSCancel(t)
  BY <1>3, Zenon DEF EOSTarget, EOSCancel, down, up, life
<1>4. CASE WgDone(t)
  BY <1>4, Zenon DEF WgDone, down, up
<1> QED BY <1>1, <1>2, <1>3, <1>4, Zenon DEF MarkEOS

\* Behind wg.Wait no loop reads, stores or writes any more.
LEMMA QuietStep ==
  ASSUME IInv, Next
  PROVE  /\ calls' # calls => \A l \in Loops : pc[l] \in {"new", "top", "select", "exit", "done"}
         /\ calls > 0 => /\ nread' = nread /\ sent' = sent /\ calls' = calls
                         /\ Len(ring') <= Len(ring)
<1>1. AfterWait => /\ pc["reader"] \in {"new", "top", "exit", "done"}
                   /\ pc["writer"] \in {"new", "select", "exit", "done"}
  BY Zenon DEF IInv, Quiet
<1>2. /\ calls > 0 => AfterWait /\ once = "done"
      /\ once = "done" => \A t \in Threads : pc[t] \notin BodyLabels
  BY DEF IInv, OneBody, AfterWait
<1>3. ring \in Seq(Nat) /\ Len(ring) \in Nat
  BY LenProperties, Zenon DEF IInv, Types
<1>4. CASE Start
  BY <1>3, <1>4 DEF Start, down, up
<1>5. CASE readLoop
  <2>1. CASE readTop \/ readEOF \/ readError
    BY <1>3, <2>1 DEF readTop, readEOF, readError, down, up, life
  <2>2. CASE readData \/ readPut
    <3>1. UNCHANGED <<calls, sent>> /\ ~AfterWait
      BY <1>1, <2>2, Zenon DEF readData, readPut, Goto, up, life
    <3> QED BY <1>2, <3>1, Zenon
  <2>3. CASE MarkEOS("reader") \/ WgDone("reader")
    BY <1>3, <2>3, MarkFrame
  <2> QED BY <1>5, <2>1, <2>2, <2>3, Zenon DEF readLoop
<1>6. CASE writeLoop
  <2>1. CASE writeDone
    <3>1. UNCHANGED <<calls, nread, ring>> /\ ~AfterWait
      BY <1>1, <2>1, Zenon DEF writeDone, Goto, down, life
    <3> QED BY <1>2, <3>1, Zenon
  <2>2. CASE writeCtxDone \/ writeTake \/ writeQueueClosed \/ writeSub \/ writeCheck \/ writeError
    <3>1. UNCHANGED <<calls, sent, nread, ring>>
      BY <2>2, Zenon DEF writeCtxDone, writeTake, writeQueueClosed, writeSub, writeCheck, writeError, down, up, life
    <3> QED BY <1>3, <3>1
  <2>3. CASE MarkEOS("writer") \/ WgDone("writer")
    BY <1>3, <2>3, MarkFrame
  <2> QED BY <1>6, <2>1, <2>2, <2>3, Zenon DEF writeLoop
<1>7. ASSUME NEW r \in Receivers, recvCall(r) \/ Recv(r)
      PROVE  UNCHANGED <<calls, nread, sent>> /\ Len(ring') <= Len(ring)
  <2>1. UNCHANGED <<calls, nread, sent>>
    BY <1>7, Zenon DEF recvCall, Recv, recvCheck, recvData, recvEmpty, down, up, life
  <2>2. recvData(r) \/ UNCHANGED ring
    BY <1>7, Zenon DEF recvCall, Recv, recvCheck, recvEmpty, down
  <2>3. CASE recvData(r)
    <3>1. PICK max \in 1 .. RecvWindow :
            ring' = SubSeq(ring, (IF max < Len(ring) THEN max ELSE Len(ring)) + 1, Len(ring))
      BY <2>3, Zenon DEF recvData
    <3> DEFINE n == IF max < Len(ring) THEN max ELSE Len(ring)
    <3>2. n \in 0 .. Len(ring) /\ RecvWindow \in Nat
      BY <1>3, ConnAssumption
    <3>3. ring' = SubSeq(ring, n + 1, Len(ring))
      BY <3>1, Zenon
    <3> HIDE DEF n
    <3>4. Len(SubSeq(ring, n + 1, Len(ring))) = Len(ring) - n
      BY <1>3, <3>2, CutSeq
    <3> QED BY <1>3, <2>1, <3>2, <3>3, <3>4
  <2> QED BY <1>3, <2>1, <2>2, <2>3
<1>8. CASE \E s \in Senders : enqCall(s) \/ Enqueue(s)
  <2>1. UNCHANGED <<calls, nread, sent, ring>>
    BY <1>8, Zenon DEF enqCall, Enqueue, enqCheck, enqLoad, enqSend, enqRefused, enqAdd, down, up, life
  <2> QED BY <1>3, <2>1
<1>9. ASSUME NEW t \in ClosingThreads, CallClose(t) \/ Close(t)
      PROVE  /\ UNCHANGED <<nread, sent, ring>>
             /\ calls' = calls \/ pc[t] = "callback"
  <2>1. UNCHANGED <<nread, sent, ring>>
    <3>1. CASE CallClose(t) \/ OnceDo(t) \/ Wait(t) \/ Callback(t)
      BY <3>1, Zenon DEF CallClose, OnceDo, Wait, Callback, down, up
    <3>2. CASE SetClosed(t) \/ SetEOS(t) \/ Cancel(t) \/ CloseTarget(t)
      BY <3>2, Zenon DEF SetClosed, SetEOS, Cancel, CloseTarget, down, up
    <3>3. CASE CloseRing(t) \/ CloseChan(t)
      BY <3>3, Zenon DEF CloseRing, CloseChan, down, up
    <3> QED BY <1>9, <3>1, <3>2, <3>3, Zenon DEF Close
  <2>2. calls' = calls \/ Callback(t)
    BY <1>9, Zenon DEF CallClose, Close, OnceDo, SetClosed, SetEOS, Cancel, CloseTarget, CloseRing, CloseChan, Wait, life
  <2> QED BY <2>1, <2>2, Zenon DEF Callback, Goto
<1>10. CASE \E t \in ClosingThreads : CallClose(t) \/ Close(t)
  <2>1. PICK t \in ClosingThreads : CallClose(t) \/ Close(t)
    BY <1>10, Zenon
  <2>2. t \in Threads
    BY ThreadFacts, Zenon
  <2>3. pc[t] = "callback" => AfterWait /\ once # "done"
    BY <1>2, <2>2, Zenon DEF AfterWait, BodyLabels
  <2> QED BY <1>1, <1>2, <1>3, <1>9, <2>1, <2>3 DEF Loops
<1>11. CASE Terminated
  BY <1>3, <1>11 DEF Terminated, vars, down, up, life
<1> QED BY <1>3, <1>4, <1>5, <1>6, <1>7, <1>8, <1>10, <1>11 DEF Next

\* The inductive invariant holds throughout: NewConn, Start, both loops, Enqueue,
\* Recv and Close of conn.go, interleaved in any way.
THEOREM ConnIInv == Spec => []IInv
BY InitIInv, NextIInv, PTL DEF Spec

\* What Recv returns is the target's stream, whichever loop marks its end and
\* whoever runs Close meanwhile: conn.go readLoop, MarkEOS and Close with the
\* Recv handler, for any number of threads and any sizes.
THEOREM ConnClientStream == Spec => []ClientStream
BY ConnIInv, StreamFacts, PTL

\* The target is sent an initial piece of the accepted chunks, in order: Enqueue
\* and writeLoop, for any number of senders and any window.
THEOREM ConnUpstreamPrefix == Spec => []UpstreamPrefix
BY ConnIInv, PrefixFact, PTL

\* Once onClosed has run, which it does once, nothing more is read, stored or
\* written, although Close may overtake Start: Close waits for both loops.
THEOREM ConnQuiesced == Spec => Quiesced
<1> DEFINE A == /\ calls' # calls => \A l \in Loops : pc[l] \in {"new", "top", "select", "exit", "done"}
                /\ calls > 0 => /\ nread' = nread /\ sent' = sent /\ calls' = calls
                                /\ Len(ring') <= Len(ring)
<1>1. IInv /\ [Next]_vars => [A]_vars
  BY QuietStep, Zenon
<1>2. Spec => [][A]_vars
  BY <1>1, ConnIInv, PTL DEF Spec
<1> QED BY <1>2, Zenon DEF Quiesced
=============================================================================
