--------------------------- MODULE MCSharedTables ---------------------------
(* The wheel and the ring buffer of the gateway's relay, and the tables of *)
(* the TUN client.  They share no state: a behaviour is one of one of the  *)
(* three, and the others stay as they are.                                 *)
(*                                                                         *)
(* The wheel is the smallest that NewWheel builds, with TTLs in half       *)
(* intervals, so that rounding up, zero and negative TTLs all occur.  The  *)
(* buffer has an odd capacity and payloads up to one byte longer than it.  *)
EXTENDS TTLWheel, RingBuffer, TunClient

CONSTANTS k1, k2

VARIABLE part

MCKeys == {k1, k2}
\* 1 .. 4 ticks, and 8 ticks: up to one turn of the wheel, and two turns
MCTTLs == {-1, 1, 3, 6, 8, 15}
MCData == {0, 1}
MCPayloads == UNION {[1 .. n -> MCData] : n \in 0 .. Capacity + 1}
MCMaxes == -1 .. Capacity + 1

\* Flows that share clients, a UDP flow beside a TCP flow, a DNS flow with its
\* queries, and two DNS flows with the same addresses.
MCCasts == {[flows |-> {"t1", "t2", "t3"}, dials |-> 2], [flows |-> {"u", "t1"}, dials |-> 1],
            [flows |-> {"d"}, dials |-> 2], [flows |-> {"d", "e"}, dials |-> 0]}
MCKind(f) == CASE f \in {"t1", "t2", "t3"} -> "tcp" [] f \in {"d", "e"} -> "dns" [] OTHER -> "udp"
MCPair(f) == IF f = "e" THEN "d" ELSE f

MCInit ==
  /\ part \in {"wheel", "ring", "tun"}
  /\ Init /\ RingInit /\ NInit
  /\ part # "ring" => buf = [c \in Cells |-> 0]
  /\ part # "tun" => dials = 0

MCNext ==
  \/ part = "wheel" /\ Next /\ UNCHANGED <<part, ringVars, nvars>>
  \/ part = "ring" /\ RingNext /\ UNCHANGED <<part, vars, nvars>>
  \/ part = "tun" /\ NNext /\ UNCHANGED <<part, vars, ringVars>>

\* The fairness of the wheel's goroutine and of the TUN client's goroutines
MCSpec ==
  /\ MCInit /\ [][MCNext]_<<part, vars, ringVars, nvars>>
  /\ WF_vars(part = "wheel" /\ tick) /\ SF_vars(part = "wheel" /\ runExit)
  /\ \A k \in Keys : WF_vars(part = "wheel" /\ RunCallback(k))
  /\ WF_nvars(part = "tun" /\ janitorLoop) /\ WF_nvars(part = "tun" /\ shutdown)
  /\ \A f \in UDP : WF_nvars(part = "tun" /\ closeState(f))
=============================================================================
