----------------------------- MODULE BoundedFIFO -----------------------------
(***************************************************************************)
(* What the downstream buffer of a relayed connection promises: a queue    *)
(* of at most Capacity items.  Write stores the longest prefix that fits   *)
(* and reports an overflow when that is not all; Read takes items from the *)
(* front and reports the end of the stream when the queue is closed and    *)
(* nothing is left.  res is the last call and its result.                  *)
(***************************************************************************)
EXTENDS Integers, Sequences

CONSTANTS Capacity, Payloads, Maxes

VARIABLES queue, closed, res

vars == <<queue, closed, res>>

\* No call yet.  A result has the argument of Write or of Read, the number of
\* items moved, the items read, and whether there was an overflow or eos.
NoResult == [in |-> <<>>, max |-> 0, n |-> 0, data |-> <<>>, flag |-> FALSE]

\* The smaller of two numbers.
minInt(a, b) == IF a < b THEN a ELSE b

Init == queue = <<>> /\ closed = FALSE /\ res = NoResult

Write(p) ==
  LET free == Capacity - Len(queue)
      n == IF closed THEN 0 ELSE minInt(Len(p), free)
  IN  /\ queue' = queue \o SubSeq(p, 1, n)
      /\ res' = [in |-> p, max |-> 0, n |-> n,
                 data |-> <<>>, flag |-> ~closed /\ Len(p) > free]
      /\ UNCHANGED closed

Read(max) ==
  LET n == IF max <= 0 THEN 0 ELSE minInt(max, Len(queue))
  IN  /\ queue' = SubSeq(queue, n + 1, Len(queue))
      /\ res' = [in |-> <<>>, max |-> max, n |-> n,
                 data |-> SubSeq(queue, 1, n),
                 flag |-> closed /\ n = Len(queue)]
      /\ UNCHANGED closed

Close ==
  /\ closed' = TRUE
  /\ UNCHANGED <<queue, res>>

Next ==
  \/ \E p \in Payloads : Write(p)
  \/ \E max \in Maxes : Read(max)
  \/ Close

Spec == Init /\ [][Next]_vars
=============================================================================
