------------------------------ MODULE MCEdges ------------------------------
(* The programs between applications and the gateway: the SOCKS client     *)
(* (PolicyMode, SocksUDP) and the transit hop (Transit).  The              *)
(* modules share no state, so a behaviour is one of one of them, and the   *)
(* others stay as they are.                                                *)
EXTENDS SocksUDP, Transit

CONSTANTS Requests, UDPRequests, Configured, QUIC, Fallback, QUICThreshold, ErrThreshold,
          FailWindow, MinDelay, MaxErrors, MaxLate

VARIABLES
  part,
  configured, mode, quicFails, errors, survivalAge, flows, fast, loop, pc, cfg, switching

M == INSTANCE PolicyMode

mvars == <<configured, mode, quicFails, errors, survivalAge, flows, fast, loop, pc, cfg, switching>>

Init ==
  /\ part \in {"mode", "udp", "transit"}
  /\ M!MInit /\ UInit /\ XInit
  /\ part # "mode" => configured = "auto"

Next ==
  \/ part = "mode" /\ M!MNext /\ UNCHANGED <<part, uvars, xvars>>
  \/ part = "udp" /\ UNext /\ UNCHANGED <<part, mvars, xvars>>
  \/ part = "transit" /\ XNext /\ UNCHANGED <<part, mvars, uvars>>
  \/ part = "udp" /\ (\A a \in Assocs : handler[a] = "returned") /\ UNCHANGED <<part, mvars, uvars, xvars>>

\* The fairness that each module states, for the part that runs.
Fairness ==
  /\ WF_mvars(part = "mode" /\ M!tick) /\ WF_mvars(part = "mode" /\ M!Loop)
  /\ \A r \in Requests : WF_mvars(part = "mode" /\ M!switchToSurvival(r))
  /\ \A a \in Serving : WF_uvars(part = "udp" /\ USteps(a))
  /\ WF_xvars(part = "transit" /\ Stopping) /\ WF_xvars(part = "transit" /\ LaneStops)
  /\ \A s \in Sessions : WF_xvars(part = "transit" /\ PipeSteps(s))
  /\ \A c \in Conns : WF_xvars(part = "transit" /\ ConnSteps(c))

FairSpec == Init /\ [][Next]_<<part, mvars, uvars, xvars>> /\ Fairness
-----------------------------------------------------------------------------
\* PolicyMode: survival mode lasts its minimum time, unless a turn of the loop that
\* had read the mode before replaces it, and it ends when there are no more failures.
SurvivalMode == []M!MTypeOK /\ M!SurvivalKept /\ M!SurvivalEnds

\* Transit: Shutdown returns, or waits for a late connection without a limit, and
\* sessions do not stay idle.
TransitEnds == ShutdownReturns /\ IdleEnds
=============================================================================
