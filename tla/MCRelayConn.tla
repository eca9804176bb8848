---------------------------- MODULE MCRelayConn ----------------------------
(* RelayConn with one direction at a time, so that each can be exhausted.  *)
EXTENDS RelayConn

CONSTANTS s1, s2, r1, c1

MCNone == {}
MCSenders == {s1, s2}
MCOneCloser == {c1}
MCReceivers == {r1}
=============================================================================
