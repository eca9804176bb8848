----------------------------- MODULE MCDatagrams -----------------------------
(* The two wires of a session.                                             *)
(*                                                                         *)
(* Datagrams: two flows on two workers.  The client sends two packets of   *)
(* two fragments, with the same sequence number on two flows or with two   *)
(* numbers on one, or one such packet and one that needs no fragmentation. *)
(*                                                                         *)
(* Frames: messages of every format, empty and longer byte strings, and    *)
(* lengths and types of one and of two digits, from two writers.           *)
EXTENDS Datagrams, Frames

VARIABLE part

A == [flow |-> 1, seq |-> 1, payload |-> <<"a1", "a2">>]
B == [flow |-> 2, seq |-> 1, payload |-> <<"b1", "b2">>]
C == [flow |-> 1, seq |-> 2, payload |-> <<"c1", "c2">>]
D == [flow |-> 1, seq |-> 3, payload |-> <<"d">>]
MCPackets == {A, B, C, D}
MCPlans == {{A, B}, {A, C}, {A, D}}

MCWidth == [u64 |-> 2, u32 |-> 1, u16 |-> 2, u8 |-> 1]
Msg(type, fields) == [type |-> type, fields |-> fields]
MCScripts ==
  {[handler |-> <<Msg(1, <<<<5>>, 11, <<>>, <<1, 6>>, 3>>), Msg(4, <<9, <<2, 7, 0>>, <<>>, 20>>)>>,
    loop |-> <<Msg(13, <<12, <<7, 7>>>>), Msg(10, <<12>>)>>],
   [handler |-> <<Msg(2, <<10, 1, 2, 3, 4, 5>>), Msg(8, <<9, 3>>)>>,
    loop |-> <<Msg(12, <<<<7, 0, 7>>>>), Msg(6, <<9, <<1, 2, 3, 4, 5>>>>)>>],
   [handler |-> <<Msg(3, <<<<4>>>>), Msg(13, <<1, <<>>>>)>>, loop |-> <<Msg(11, <<<<>>>>)>>]}

MCInit ==
  /\ part \in {"datagrams", "frames"}
  /\ Init /\ FrInit
  /\ part = "frames" => \E d \in net : d.flow = 2
  /\ part = "datagrams" => Len(todo["loop"]) = 1

MCNext ==
  \/ part = "datagrams" /\ Next /\ UNCHANGED <<part, frvars>>
  \/ part = "frames" /\ FrNext /\ UNCHANGED <<part, vars>>

\* The goroutines of the session and of the reader run.
MCSpec ==
  /\ MCInit /\ [][MCNext]_<<part, vars, frvars>>
  /\ WF_vars(part = "datagrams" /\ (count \/ readerEnd))
  /\ \A w \in WorkerIds : WF_vars(part = "datagrams" /\ datagramWorkerLoop(w))
  /\ WF_frvars(part = "frames" /\ ReadFrame)
  /\ \A w \in FrWriters : WF_frvars(part = "frames" /\ WriteFrame(w)) /\ SF_frvars(part = "frames" /\ lock(w))

\* Every message that the goroutines of a session write to the control stream is
\* read at the other end, unless the stream fails or a read deadline tears a frame.
StreamArrives == part = "frames" => FramesArrive
=============================================================================
