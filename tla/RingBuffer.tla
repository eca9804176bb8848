----------------------------- MODULE RingBuffer -----------------------------
(***************************************************************************)
(* internal/relay/ring_buffer.go: a fixed array of len(buf) cells with a   *)
(* read index, a write index and a size.  Every method holds the mutex     *)
(* throughout, so each is one action.  res is the last call and its        *)
(* result.                                                                 *)
(***************************************************************************)
EXTENDS Integers, Sequences

CONSTANTS Data,      \* bytes
          Capacity,  \* len(buf); NewRingBuffer raises less to 1
          Payloads,  \* arguments of Write
          Maxes      \* arguments of Read

ASSUME RingAssumption ==
  /\ Capacity \in Nat \ {0}
  /\ Payloads \subseteq Seq(Data)
  /\ Maxes \subseteq Int

VARIABLES buf, r, w, size, closed, res

ringVars == <<buf, r, w, size, closed, res>>

Cells == 0 .. Capacity - 1

\* No call yet.  A result has the argument of Write or of Read, the number of
\* bytes moved, the bytes read, and whether there was an overflow or eos.
NoResult == [in |-> <<>>, max |-> 0, n |-> 0, data |-> <<>>, flag |-> FALSE]

minInt(a, b) == IF a < b THEN a ELSE b

RingType ==
  /\ buf \in [Cells -> Data]
  /\ r \in Cells /\ w \in Cells
  /\ size \in 0 .. Capacity
  /\ closed \in BOOLEAN

\* make([]byte, capacity) zeroes the cells; no cell is read before it is
\* written, so any contents will do.
RingInit ==
  /\ buf \in [Cells -> Data]
  /\ r = 0 /\ w = 0 /\ size = 0
  /\ closed = FALSE
  /\ res = NoResult

\* A plausible slip: the second copy starts at the front of the payload again.
StoredTwice(p, n) ==
  LET first == minInt(n, Capacity - w)
  IN  [c \in Cells |-> IF c \in w .. w + first - 1 THEN p[c - w + 1]
                       ELSE IF c < n - first THEN p[c + 1]
                       ELSE buf[c]]

\* The two copies of Write: up to the end of the array, then from its start.
Stored(p, n) ==
  LET first == minInt(n, Capacity - w)
  IN  [c \in Cells |-> IF c \in w .. w + first - 1 THEN p[c - w + 1]
                       ELSE IF c < n - first THEN p[first + c + 1]
                       ELSE buf[c]]

\* The two copies of Read.
Copied(n) ==
  LET first == minInt(n, Capacity - r)
  IN  [i \in 1 .. n |-> IF i <= first THEN buf[r + i - 1] ELSE buf[i - first - 1]]

Write(p) ==
  LET free == Capacity - size
      n == minInt(Len(p), free)
  IN  \/ /\ closed \/ p = <<>>
         /\ res' = [in |-> p, max |-> 0, n |-> 0, data |-> <<>>, flag |-> FALSE]
         /\ UNCHANGED <<buf, r, w, size, closed>>
      \/ /\ ~closed /\ p # <<>>
         /\ buf' = Stored(p, n)
         /\ w' = (w + n) % Capacity
         /\ size' = size + n
         /\ res' = [in |-> p, max |-> 0, n |-> n,
                    data |-> <<>>, flag |-> Len(p) > free]
         /\ UNCHANGED <<r, closed>>

Read(max) ==
  \/ /\ max <= 0 \/ size = 0
     /\ res' = [in |-> <<>>, max |-> max, n |-> 0,
                data |-> <<>>, flag |-> closed /\ size = 0]
     /\ UNCHANGED <<buf, r, w, size, closed>>
  \/ /\ max > 0 /\ size # 0
     /\ LET n == minInt(max, size)
        IN  /\ r' = (r + n) % Capacity
            /\ size' = size - n
            /\ res' = [in |-> <<>>, max |-> max, n |-> n,
                       data |-> Copied(n), flag |-> closed /\ size - n = 0]
     /\ UNCHANGED <<buf, w, closed>>

CloseRing ==
  /\ closed' = TRUE
  /\ UNCHANGED <<buf, r, w, size, res>>

RingNext ==
  \/ \E p \in Payloads : Write(p)
  \/ \E max \in Maxes : Read(max)
  \/ CloseRing

RingSpec == RingInit /\ [][RingNext]_ringVars

-----------------------------------------------------------------------------
(* Properties *)

\* The bytes in the buffer, oldest first.
Content == [i \in 1 .. size |-> buf[(r + i - 1) % Capacity]]

FIFO == INSTANCE BoundedFIFO WITH queue <- Content

\* The circular buffer, with its two-part copies, its wrapping indices and its
\* results, implements the bounded queue.
ImplementsFIFO == FIFO!Spec
=============================================================================
