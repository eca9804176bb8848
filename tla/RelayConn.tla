----------------------------- MODULE RelayConn -----------------------------
(***************************************************************************)
(* One relayed connection: internal/relay/conn.go, with the Recv handler   *)
(* of internal/relay/manager.go that closes a drained connection.          *)
(*                                                                         *)
(* Two goroutines, readLoop and writeLoop, run beside the HTTP handlers    *)
(* that call Enqueue, Recv and Close and beside the idle timer and the     *)
(* shutdown, which call Close.  Every atomic load or store, channel        *)
(* operation, mutex-protected call of the ring buffer, Once and WaitGroup  *)
(* operation is a step of its own; pc says where each thread is.           *)
(*                                                                         *)
(* Data are counted in units.  The target sends the units 1, 2, ...,       *)
(* OutLen; a payload is cut into chunks named by their sender and offset.  *)
(* The ring buffer is the bounded queue that RingBuffer implements.        *)
(* lastActive is left out: it only feeds the reported expires_in_ms.       *)
(***************************************************************************)
EXTENDS Integers, Sequences, FiniteSetsExt

CONSTANTS Senders,     \* requests that call Enqueue, once each
          Receivers,   \* clients that poll Recv
          Closers,     \* calls of Close: client, idle timer, shutdown
          PayloadLen,  \* units in each Send request
          Chunk,       \* units per queued chunk (4096 bytes)
          QueueCap,    \* capacity of upstreamQueue (256)
          SendWindow,  \* c.sendWindow
          RecvWindow,  \* capacity of the ring buffer
          ReadMax,     \* units one target.Read may return (32 KiB)
          OutLen       \* units the target sends before it closes

ASSUME ConnAssumption ==
  /\ {PayloadLen, Chunk, QueueCap, SendWindow, RecvWindow, ReadMax} \subseteq Nat \ {0}
  /\ OutLen \in Nat
  /\ IsFiniteSet(Senders)
  /\ Senders \cap (Closers \cup Receivers) = {} /\ Closers \cap Receivers = {}
  /\ {"reader", "writer"} \cap (Senders \cup Closers \cup Receivers) = {}

VARIABLES pc, closed, eos, ctxDone, targetOpen,
          ring, ringClosed, hold, nread, got, sawEOS,
          queue, chClosed, upstreamBytes, taken, offset,
          once, wg,
          accepted, sent, calls, eosBy   \* history

flags == <<closed, eos, ctxDone, targetOpen>>
down == <<ring, ringClosed, hold, nread, got, sawEOS>>
up == <<queue, chClosed, upstreamBytes, taken, offset, accepted, sent>>
life == <<once, wg, calls, eosBy>>
vars == <<pc, flags, down, up, life>>

Loops == {"reader", "writer"}
\* The threads that may call Close.
ClosingThreads == Closers \cup Receivers \cup {"reader"}
Threads == Loops \cup Senders \cup Receivers \cup Closers

EOSLabels == {"eofSwap", "errSwap", "eosRing", "eosTarget", "eosCancel"}
\* Inside the function that closeOnce runs.
BodyLabels == {"setClosed", "setEOS", "cancel", "closeTarget", "closeRing",
               "closeChan", "wait", "callback"}
Labels == EOSLabels \cup BodyLabels \cup
          {"new", "top", "read", "put", "select", "sub", "check", "load", "send",
           "add", "write", "once", "exit", "done"}

Part == [from : Senders, off : Nat, len : Nat]
NoPart == [from |-> "none", off |-> 0, len |-> 0]

TypeOK ==
  /\ pc \in [Threads -> Labels]
  /\ {closed, eos, ctxDone, targetOpen, ringClosed, chClosed, sawEOS} \subseteq BOOLEAN
  /\ ring \in Seq(Nat) /\ got \in Seq(Nat)
  /\ hold \in Nat /\ nread \in Nat
  /\ queue \in Seq(Part) /\ accepted \in Seq(Part) /\ sent \in Seq(Part)
  /\ taken \in Part \cup {NoPart}
  /\ upstreamBytes \in Int
  /\ offset \in [Senders -> Nat]
  /\ once \in {"free", "busy", "done"}
  /\ wg \in 0 .. 2 /\ calls \in Nat
  /\ eosBy \in {"none", "eof", "error", "close"}

Init ==
  /\ pc = [t \in Threads |-> "new"]
  /\ closed = FALSE /\ eos = FALSE /\ ctxDone = FALSE /\ targetOpen = TRUE
  /\ ring = <<>> /\ ringClosed = FALSE /\ hold = 0 /\ nread = 0
  /\ got = <<>> /\ sawEOS = FALSE
  /\ queue = <<>> /\ chClosed = FALSE /\ upstreamBytes = 0
  /\ taken = NoPart /\ offset = [s \in Senders |-> 0]
  /\ once = "free" /\ wg = 0
  /\ accepted = <<>> /\ sent = <<>> /\ calls = 0 /\ eosBy = "none"

\* Thread t is at one label and moves to another.
Goto(t, from, to) == pc[t] = from /\ pc' = [pc EXCEPT ![t] = to]

\* Start: wg.Add(2) and both goroutines.
Start ==
  /\ pc["reader"] = "new"
  /\ pc' = [pc EXCEPT !["reader"] = "top", !["writer"] = "select"]
  /\ wg' = wg + 2
  /\ UNCHANGED <<flags, down, up, once, calls, eosBy>>

-----------------------------------------------------------------------------
(* MarkEOS, called by either loop, which returns after it.                 *)

EOSSwap(t, at, reason) ==
  /\ Goto(t, at, IF eos THEN "exit" ELSE "eosRing")
  /\ eos' = TRUE
  /\ eosBy' = IF eos THEN eosBy ELSE reason
  /\ UNCHANGED <<closed, ctxDone, targetOpen, down, up, once, wg, calls>>

\* A plausible slip: what the client has not polled yet is discarded.
EOSRingDrop(t) ==
  /\ Goto(t, "eosRing", "eosTarget")
  /\ ringClosed' = TRUE /\ ring' = <<>>
  /\ UNCHANGED <<flags, hold, nread, got, sawEOS, up, life>>

EOSRing(t) ==
  /\ Goto(t, "eosRing", "eosTarget")
  /\ ringClosed' = TRUE
  /\ UNCHANGED <<flags, ring, hold, nread, got, sawEOS, up, life>>

EOSTarget(t) ==
  /\ Goto(t, "eosTarget", "eosCancel")
  /\ targetOpen' = FALSE
  /\ UNCHANGED <<closed, eos, ctxDone, down, up, life>>

\* A plausible slip: the context is not cancelled.
EOSCancelForgotten(t) ==
  /\ Goto(t, "eosCancel", "exit")
  /\ UNCHANGED <<flags, down, up, life>>

EOSCancel(t) ==
  /\ Goto(t, "eosCancel", "exit")
  /\ ctxDone' = TRUE
  /\ UNCHANGED <<closed, eos, targetOpen, down, up, life>>

\* defer c.wg.Done() of a loop.
WgDone(t) ==
  /\ Goto(t, "exit", "done")
  /\ wg' = wg - 1
  /\ UNCHANGED <<flags, down, up, once, calls, eosBy>>

MarkEOS(t) ==
  \/ EOSSwap(t, "eofSwap", "eof") \/ EOSSwap(t, "errSwap", "error")
  \/ EOSRing(t) \/ EOSTarget(t) \/ EOSCancel(t)

-----------------------------------------------------------------------------
(* Close.  The first caller runs the body inside closeOnce; the others     *)
(* wait in Do until it has returned.                                       *)

\* Where thread t goes when its Close returns.
AfterClose(t) == IF t = "reader" THEN "exit" ELSE "done"

OnceDo(t) ==
  \/ /\ once = "free"
     /\ Goto(t, "once", "setClosed")
     /\ once' = "busy"
     /\ UNCHANGED <<flags, down, up, wg, calls, eosBy>>
  \/ /\ once = "done"
     /\ Goto(t, "once", AfterClose(t))
     /\ UNCHANGED <<flags, down, up, life>>

SetClosed(t) ==
  /\ Goto(t, "setClosed", "setEOS")
  /\ closed' = TRUE
  /\ UNCHANGED <<eos, ctxDone, targetOpen, down, up, life>>

SetEOS(t) ==
  /\ Goto(t, "setEOS", "cancel")
  /\ eos' = TRUE
  /\ eosBy' = IF eos THEN eosBy ELSE "close"
  /\ UNCHANGED <<closed, ctxDone, targetOpen, down, up, once, wg, calls>>

Cancel(t) ==
  /\ Goto(t, "cancel", "closeTarget")
  /\ ctxDone' = TRUE
  /\ UNCHANGED <<closed, eos, targetOpen, down, up, life>>

CloseTarget(t) ==
  /\ Goto(t, "closeTarget", "closeRing")
  /\ targetOpen' = FALSE
  /\ UNCHANGED <<closed, eos, ctxDone, down, up, life>>

CloseRing(t) ==
  /\ Goto(t, "closeRing", "closeChan")
  /\ ringClosed' = TRUE
  /\ UNCHANGED <<flags, ring, hold, nread, got, sawEOS, up, life>>

CloseChan(t) ==
  /\ Goto(t, "closeChan", "wait")
  /\ chClosed' = TRUE
  /\ UNCHANGED <<flags, down, queue, upstreamBytes, taken, offset, accepted, sent, life>>

\* A plausible slip: Close does not wait for the loops.
WaitSkipped(t) ==
  /\ Goto(t, "wait", "callback")
  /\ UNCHANGED <<flags, down, up, life>>

\* wg.Wait()
Wait(t) ==
  /\ wg = 0
  /\ Goto(t, "wait", "callback")
  /\ UNCHANGED <<flags, down, up, life>>

\* onClosed, and the return from Do.
Callback(t) ==
  /\ Goto(t, "callback", AfterClose(t))
  /\ calls' = calls + 1
  /\ once' = "done"
  /\ UNCHANGED <<flags, down, up, wg, eosBy>>

Close(t) ==
  \/ OnceDo(t) \/ SetClosed(t) \/ SetEOS(t) \/ Cancel(t) \/ CloseTarget(t)
  \/ CloseRing(t) \/ CloseChan(t) \/ Wait(t) \/ Callback(t)

CallClose(t) ==
  /\ t \in Closers
  /\ Goto(t, "new", "once")
  /\ UNCHANGED <<flags, down, up, life>>

-----------------------------------------------------------------------------
(* readLoop *)

readTop ==
  /\ Goto("reader", "top", IF closed THEN "exit" ELSE "read")
  /\ UNCHANGED <<flags, down, up, life>>

\* target.Read returns data, the end of the stream, or an error: the peer may
\* reset at any time, and a target closed on this side returns nothing else.
readData ==
  /\ targetOpen
  /\ Goto("reader", "read", "put")
  /\ \E n \in 1 .. ReadMax :
       /\ nread + n <= OutLen
       /\ hold' = n /\ nread' = nread + n
  /\ UNCHANGED <<flags, ring, ringClosed, got, sawEOS, up, life>>

readEOF ==
  /\ targetOpen /\ nread = OutLen
  /\ Goto("reader", "read", "eofSwap")
  /\ UNCHANGED <<flags, down, up, life>>

\* Not a timeout, after which readLoop would read again: no deadline is set here.
readError ==
  /\ Goto("reader", "read", "errSwap")
  /\ UNCHANGED <<flags, down, up, life>>

\* The units readLoop holds, and how many of them the ring takes.
Held == [i \in 1 .. hold |-> nread - hold + i]
Taken == IF ringClosed THEN 0
         ELSE IF Len(ring) + hold > RecvWindow THEN RecvWindow - Len(ring) ELSE hold
Overflow == ~ringClosed /\ Len(ring) + hold > RecvWindow

\* downstream.Write, then Close("downstream_overflow") when not all fits.
readPut ==
  /\ Goto("reader", "put", IF Overflow THEN "once" ELSE "top")
  /\ ring' = ring \o SubSeq(Held, 1, Taken)
  /\ hold' = 0
  /\ UNCHANGED <<flags, ringClosed, nread, got, sawEOS, up, life>>

readLoop ==
  readTop \/ readData \/ readEOF \/ readError \/ readPut \/ MarkEOS("reader")
    \/ WgDone("reader")

-----------------------------------------------------------------------------
(* writeLoop *)

\* select: whichever of ctx.Done() and the queue is ready, at random.
writeCtxDone ==
  /\ ctxDone
  /\ Goto("writer", "select", "exit")
  /\ UNCHANGED <<flags, down, up, life>>

writeTake ==
  /\ queue # <<>>
  /\ Goto("writer", "select", "sub")
  /\ taken' = Head(queue) /\ queue' = Tail(queue)
  /\ UNCHANGED <<flags, down, chClosed, upstreamBytes, offset, accepted, sent, life>>

writeQueueClosed ==
  /\ queue = <<>> /\ chClosed
  /\ Goto("writer", "select", "exit")
  /\ UNCHANGED <<flags, down, up, life>>

writeSub ==
  /\ Goto("writer", "sub", "check")
  /\ upstreamBytes' = upstreamBytes - taken.len
  /\ UNCHANGED <<flags, down, queue, chClosed, taken, offset, accepted, sent, life>>

writeCheck ==
  /\ Goto("writer", "check", IF closed \/ eos THEN "exit" ELSE "write")
  /\ UNCHANGED <<flags, down, up, life>>

writeDone ==
  /\ targetOpen
  /\ Goto("writer", "write", "select")
  /\ sent' = Append(sent, taken)
  /\ UNCHANGED <<flags, down, queue, chClosed, upstreamBytes, taken, offset, accepted, life>>

\* The deadline passed, the peer reset, or the target is closed on this side.
writeError ==
  /\ Goto("writer", "write", "errSwap")
  /\ UNCHANGED <<flags, down, up, life>>

writeLoop ==
  \/ writeCtxDone \/ writeTake \/ writeQueueClosed \/ writeSub \/ writeCheck
  \/ writeDone \/ writeError \/ MarkEOS("writer") \/ WgDone("writer")

-----------------------------------------------------------------------------
(* Enqueue, one call per sender.                                           *)

\* Open has returned the connection's id.
Opened == pc["reader"] # "new"

PartOf(s) ==
  LET left == PayloadLen - offset[s]
  IN  [from |-> s, off |-> offset[s], len |-> IF left < Chunk THEN left ELSE Chunk]

enqCall(s) ==
  /\ Opened
  /\ Goto(s, "new", "check")
  /\ UNCHANGED <<flags, down, up, life>>

enqCheck(s) ==
  /\ Goto(s, "check", IF offset[s] = PayloadLen \/ closed \/ eos THEN "done" ELSE "load")
  /\ UNCHANGED <<flags, down, up, life>>

enqLoad(s) ==
  /\ Goto(s, "load", IF upstreamBytes + PartOf(s).len > SendWindow THEN "done" ELSE "send")
  /\ UNCHANGED <<flags, down, up, life>>

\* The send that succeeds; a full queue ends the call, and so does a closed
\* one, by a panic that net/http recovers.
enqSend(s) ==
  /\ ~chClosed /\ Len(queue) < QueueCap
  /\ Goto(s, "send", "add")
  /\ queue' = Append(queue, PartOf(s))
  /\ accepted' = Append(accepted, PartOf(s))
  /\ UNCHANGED <<flags, down, chClosed, upstreamBytes, taken, offset, sent, life>>

enqRefused(s) ==
  /\ chClosed \/ Len(queue) >= QueueCap
  /\ Goto(s, "send", "done")
  /\ UNCHANGED <<flags, down, up, life>>

\* A plausible slip: only the last part of a payload is counted.
enqAddLast(s) ==
  /\ Goto(s, "add", "check")
  /\ upstreamBytes' = IF offset[s] + PartOf(s).len = PayloadLen
                      THEN upstreamBytes + PartOf(s).len ELSE upstreamBytes
  /\ offset' = [offset EXCEPT ![s] = @ + PartOf(s).len]
  /\ UNCHANGED <<flags, down, queue, chClosed, taken, accepted, sent, life>>

enqAdd(s) ==
  /\ Goto(s, "add", "check")
  /\ upstreamBytes' = upstreamBytes + PartOf(s).len
  /\ offset' = [offset EXCEPT ![s] = @ + PartOf(s).len]
  /\ UNCHANGED <<flags, down, queue, chClosed, taken, accepted, sent, life>>

Enqueue(s) ==
  \/ enqCheck(s) \/ enqLoad(s) \/ enqSend(s) \/ enqRefused(s) \/ enqAdd(s)

-----------------------------------------------------------------------------
(* Recv, polled by the client until the connection is closed.              *)

recvCall(r) ==
  /\ Opened
  /\ Goto(r, "new", "top")
  /\ UNCHANGED <<flags, down, up, life>>

recvCheck(r) ==
  /\ Goto(r, "top", IF closed THEN "done" ELSE "read")
  /\ UNCHANGED <<flags, down, up, life>>

recvData(r) ==
  /\ ring # <<>>
  /\ Goto(r, "read", "top")
  /\ \E max \in 1 .. RecvWindow :
       LET n == IF max < Len(ring) THEN max ELSE Len(ring)
       IN  /\ got' = got \o SubSeq(ring, 1, n)
           /\ ring' = SubSeq(ring, n + 1, Len(ring))
           /\ sawEOS' = (sawEOS \/ (ringClosed /\ n = Len(ring)))
  /\ UNCHANGED <<flags, ringClosed, hold, nread, up, life>>

\* Nothing to read: at the end of the stream the handler closes the connection.
recvEmpty(r) ==
  /\ ring = <<>>
  /\ Goto(r, "read", IF ringClosed THEN "once" ELSE "top")
  /\ sawEOS' = (sawEOS \/ ringClosed)
  /\ UNCHANGED <<flags, ring, ringClosed, hold, nread, got, up, life>>

Recv(r) == recvCheck(r) \/ recvData(r) \/ recvEmpty(r)

-----------------------------------------------------------------------------
Terminated ==
  /\ \A t \in Threads : pc[t] = "done"
  /\ UNCHANGED vars

Next ==
  \/ Start \/ readLoop \/ writeLoop
  \/ \E r \in Receivers : recvCall(r) \/ Recv(r)
  \/ \E s \in Senders : enqCall(s) \/ Enqueue(s)
  \/ \E t \in ClosingThreads : CallClose(t) \/ Close(t)
  \/ Terminated

Spec == Init /\ [][Next]_vars

\* Every runnable goroutine goes on.  The target may stay silent for ever, so a
\* Read of an open target need not return; a Write has a deadline of 10 s.
\* Nobody has to call Send, Recv or Close.
Fairness ==
  /\ WF_vars(Start)
  /\ WF_vars(readTop \/ readPut \/ (~targetOpen /\ readError) \/ MarkEOS("reader")
               \/ WgDone("reader"))
  /\ WF_vars(writeLoop)
  /\ \A s \in Senders : WF_vars(Enqueue(s))
  /\ \A t \in ClosingThreads : WF_vars(Close(t))

FairSpec == Spec /\ Fairness

-----------------------------------------------------------------------------
(* Properties *)

\* What the client has received, followed by what waits in the ring buffer, is
\* an initial piece of what the target sent: readLoop, the truncating Write and
\* an end of stream marked by either loop may cut the stream, never pierce it.
NoHoles ==
  /\ got \o ring = [i \in 1 .. Len(got) + Len(ring) |-> i]
  /\ Len(got) + Len(ring) <= nread

\* A client that is told of the end of a stream that ended with the target's
\* EOF has received everything the target sent, although the ring is closed, the
\* target closed and the context cancelled while it was still polling.
EOFComplete ==
  (sawEOS /\ eosBy = "eof") => got = [i \in 1 .. OutLen |-> i]

\* onClosed runs once, and only when neither loop is at work: both have ended,
\* or begin on a connection closed before Start and end at their first check.
\* From then on the connection is quiet: nothing more is read from the target,
\* stored for the client or written to the target.
Quiesced ==
  [][/\ calls' # calls => \A l \in Loops : pc[l] \in {"new", "top", "select", "exit", "done"}
     /\ calls > 0 => /\ nread' = nread /\ sent' = sent /\ calls' = calls
                     /\ Len(ring') <= Len(ring)]_vars

\* readLoop has found the ring full and has called Close itself.
ReaderCloses == pc["reader"] \in BodyLabels \cup {"once"}

\* Every call of Close returns, whoever makes it and however many there are,
\* unless readLoop is one of the callers.
CloseReturns ==
  \A t \in ClosingThreads : (pc[t] = "once") ~> (pc[t] = "done" \/ ReaderCloses)

\* An end of stream in one direction ends both goroutines: a reader blocked in
\* Read of a silent target after a write error, a writer idle after an EOF.
\* Again unless readLoop, full of data, has called Close.
EOSStopsBoth ==
  eos ~> ((pc["reader"] = "done" /\ pc["writer"] = "done") \/ ReaderCloses)

\* README: "downstream overflow closes connection": the overflow that readLoop
\* detects ends with onClosed, which frees the connection and its slot.
OverflowCloses == (pc["reader"] = "once") ~> (calls > 0)

Bytes(parts) == MapThenSumSet(LAMBDA i : parts[i].len, DOMAIN parts)
QueuedBytes == Bytes(queue)
AddPending == {s \in Senders : pc[s] = "add"}

\* upstreamBytes is the number of queued bytes, up to the chunks that are sent
\* but not yet added and the one taken but not yet subtracted: no interleaving
\* of senders, writer and Close loses or double counts a chunk.
UpstreamAccounting ==
  upstreamBytes + MapThenSumSet(LAMBDA s : PartOf(s).len, AddPending)
    = QueuedBytes + (IF pc["writer"] = "sub" THEN taken.len ELSE 0)

\* However the check of the window and the send interleave, the queue exceeds
\* the window by at most one chunk for each other concurrent sender.
WindowOvershoot ==
  QueuedBytes <= SendWindow + Chunk * (Cardinality(Senders) - 1)

\* The target receives an initial piece of the accepted chunks, in order, with
\* nothing skipped, whatever fails and whoever closes.
UpstreamPrefix ==
  Len(sent) <= Len(accepted) /\ sent = SubSeq(accepted, 1, Len(sent))

\* What Recv gives the client is the target's stream: no holes, and the end only
\* after the last unit, whichever loop marks the end and while Close runs.
ClientStream == TypeOK /\ NoHoles /\ EOFComplete

\* Close returns, unless readLoop called it, and leaves the connection quiet.
CloseQuiets == CloseReturns /\ Quiesced

\* Concurrent Enqueues, writeLoop and Close account for every chunk: the counter is
\* that of the queue, the window is exceeded by a chunk a sender at most, and the
\* target gets the accepted chunks in order.
UpstreamSound == UpstreamAccounting /\ WindowOvershoot /\ UpstreamPrefix
=============================================================================
