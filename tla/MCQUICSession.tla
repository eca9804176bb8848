--------------------------- MODULE MCQUICSession ---------------------------
(* Two TCP flows and a UDP flow of one number, and streams for them.       *)
EXTENDS QUICSession

MCTCPFlows == {"t1", "t2"}
MCUDPFlows == {"u1"}
MCFlowId == [o \in MCTCPFlows \cup MCUDPFlows |-> "i1"]
MCPlans == {{"t1", "t2", "s1"}, {"t1", "u1"}, {"t1", "s1", "s2"}}
MCStreams == {"s1", "s2"}
=============================================================================
