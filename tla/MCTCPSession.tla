---------------------------- MODULE MCTCPSession ----------------------------
(* TCPSession with a client that uses a flow_id twice.                     *)
EXTENDS TCPSession

CONSTANTS f1, f2

MCFlows == {f1, f2}
MCSameId == [o \in MCFlows |-> 1]
MCOneFlow == {f1}
MCOneId == [o \in MCOneFlow |-> 1]
=============================================================================
