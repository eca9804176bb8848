---------------------------- MODULE MCAdmission ----------------------------
(* Whom the gateway's relay and the SOCKS client let in: RelayManager with *)
(* two clients, one of which opens two connections, and FlowCap.  They     *)
(* share no state: a behaviour is one of one of them, and the other stays  *)
(* as it is.                                                               *)
EXTENDS RelayManager, FlowCap

CONSTANTS c1, c2, c3, a, b

VARIABLE part

MCConns == {c1, c2, c3}
MCClients == {a, b}
MCOwner == (c1 :> a) @@ (c2 :> a) @@ (c3 :> b)
\* The connections of a client are alike, and so are the requests.
Symmetry == Permutations({c1, c2}) \cup Permutations(Requests)

MCInit == part \in {"manager", "cap"} /\ Init /\ FInit

MCNext ==
  \/ part = "manager" /\ Next /\ UNCHANGED <<part, fvars>>
  \/ part = "cap" /\ FNext /\ UNCHANGED <<part, vars>>

MCSpec == MCInit /\ [][MCNext]_<<part, vars, fvars>>
=============================================================================
