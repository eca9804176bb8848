---------------------------- MODULE RelayClient ----------------------------
(***************************************************************************)
(* A TCP flow of the relay transport                                       *)
(* (internal/sessionclient/relay_client.go) with the HTTP handlers that    *)
(* serve it (internal/relay/http.go).  A request is one step: it is lost,  *)
(* or it is served and its response arrives or is lost.  The gateway's     *)
(* connection is seen through what RelayConn and RelayManager establish:   *)
(* Recv takes the units of the target's stream in order, and reports the   *)
(* end with the last of them and, once more, with no data.                 *)
(***************************************************************************)
EXTENDS Integers, Sequences

CONSTANTS Polls,   \* attempts of one Read (100)
          OutLen,  \* units that the target sends
          InLen    \* units that the application writes

VARIABLES
  rflow,      \* the caller: "opening", "open", "closed" or "failed"
  rreader,    \* the goroutine that copies from the flow: "idle", "reading",
              \* "eof" or "error"
  attempts,   \* attempts made by the current Read
  rconn,      \* the gateway's connection: "none", "open" or "gone"
  produced, ended, served,  \* units the target has sent, whether it has ended,
                            \* units that Recv has taken
  rwriter,    \* the goroutine that copies to the flow: "writing" or "ended"
  wrote, taken,  \* units that Write has reported as written, and those that
                 \* the gateway has accepted, in order
  short,      \* history: a Write was accepted in part and reported as whole
  rgot,       \* history: units the reader got
  rlost,      \* history: the response to a Recv was lost
  cut         \* history: the gateway closed the connection before its end

upstream == <<rwriter, wrote, taken, short>>
relay == <<rconn, produced, ended, served, cut>>
rvars == <<rflow, rreader, attempts, upstream, relay, rgot, rlost>>

RTypeOK ==
  /\ rflow \in {"opening", "open", "closed", "failed"}
  /\ rreader \in {"idle", "reading", "eof", "error"}
  /\ attempts \in 0 .. Polls
  /\ rconn \in {"none", "open", "gone"}
  /\ produced \in 0 .. OutLen /\ served \in 0 .. produced
  /\ rgot \in Seq(1 .. OutLen)
  /\ {ended, rlost, cut, short} \subseteq BOOLEAN
  /\ rwriter \in {"writing", "ended"} /\ wrote \in 0 .. InLen

RInit ==
  /\ rflow = "opening" /\ rreader = "idle" /\ attempts = 0
  /\ rconn = "none" /\ produced = 0 /\ ended = FALSE /\ served = 0 /\ cut = FALSE
  /\ rwriter = "writing" /\ wrote = 0 /\ taken = <<>> /\ short = FALSE
  /\ rgot = <<>> /\ rlost = FALSE

-----------------------------------------------------------------------------
(* The gateway.                                                            *)

\* handleOpen: the connection is made, or the manager refuses.
handleOpen(ok) == rconn' = IF ok THEN "open" ELSE "none"

\* handleRecv: the status, what the body holds, and the end of stream that
\* makes the manager close the connection.
RecvStatus == IF rconn # "open" THEN 404
              ELSE IF served = produced /\ ~ended THEN 204 ELSE 200
Drained == ended /\ served = produced
handleRecv(n) ==
  /\ served' = served + n
  /\ rconn' = IF RecvStatus = 200 /\ Drained THEN "gone" ELSE rconn
  /\ UNCHANGED <<produced, ended, cut>>

\* The target sends and ends; the idle timer or a shutdown closes the connection.
target ==
  /\ rconn = "open"
  /\ \/ produced < OutLen /\ ~ended /\ produced' = produced + 1 /\ UNCHANGED <<rconn, ended, cut>>
     \/ ~ended /\ ended' = TRUE /\ UNCHANGED <<rconn, produced, cut>>
     \/ rconn' = "gone" /\ cut' = TRUE /\ UNCHANGED <<produced, ended>>
  /\ UNCHANGED <<rflow, rreader, attempts, upstream, served, rgot, rlost>>

-----------------------------------------------------------------------------
(* The client.                                                             *)

openTCPFlow(ok, arrives) ==
  /\ rflow = "opening"
  /\ handleOpen(ok)
  /\ rflow' = IF ok /\ arrives THEN "open" ELSE "failed"
  /\ rreader' = IF ok /\ arrives THEN "reading" ELSE "idle"
  /\ UNCHANGED <<attempts, upstream, produced, ended, served, cut, rgot, rlost>>

End(how) == rreader' = how /\ UNCHANGED <<attempts, rgot>>

\* A response with data, or an empty one that reports the end: Read returns
\* without an error, also when it returns no data, and is called again.
pollOK(n) ==
  /\ rreader = "reading" /\ attempts < Polls
  /\ RecvStatus = 200
  /\ n <= produced - served /\ (n > 0 \/ Drained)
  /\ handleRecv(n)
  /\ rgot' = rgot \o [i \in 1 .. n |-> served + i]
  /\ attempts' = 0
  /\ UNCHANGED <<rflow, rreader, upstream, rlost>>

pollEmpty ==
  /\ rreader = "reading" /\ attempts < Polls
  /\ RecvStatus = 204
  /\ attempts' = attempts + 1
  /\ UNCHANGED <<rflow, rreader, upstream, relay, rgot, rlost>>

pollRefused ==
  /\ rreader = "reading" /\ attempts < Polls
  /\ RecvStatus = 404
  /\ End("error")
  /\ UNCHANGED <<rflow, upstream, relay, rlost>>

\* The request fails; what Recv took, if it was served, is lost with it.
pollFails(n) ==
  /\ rreader = "reading" /\ attempts < Polls
  /\ n <= produced - served
  /\ IF RecvStatus = 200 THEN handleRecv(n) ELSE UNCHANGED relay
  /\ rlost' = TRUE
  /\ End("error")
  /\ UNCHANGED <<rflow, upstream>>

\* All attempts were empty: Read reports the end of the stream.
pollsUsed ==
  /\ rreader = "reading" /\ attempts = Polls
  /\ End("eof")
  /\ UNCHANGED <<rflow, upstream, relay, rlost>>

Answered == pollEmpty \/ pollRefused \/ pollsUsed \/ \E n \in 0 .. OutLen : pollOK(n)
Read == Answered \/ \E n \in 0 .. OutLen : pollFails(n)

\* handleSend: the gateway accepts the first a of k units, or refuses.
handleSend(k, a) ==
  /\ a <= k
  /\ rconn # "open" \/ ended => a = 0
  /\ taken' = taken \o [i \in 1 .. a |-> wrote + i]

\* A Write of which something was accepted reports all of it as written; one
\* that fails ends the copying.
Write(k, a, arrives) ==
  LET ok == a > 0 /\ arrives
  IN  /\ rflow = "open" /\ rwriter = "writing" /\ wrote + k <= InLen
      /\ handleSend(k, a)
      /\ wrote' = IF ok THEN wrote + k ELSE wrote
      /\ rwriter' = IF ok THEN "writing" ELSE "ended"
      /\ short' = (short \/ (ok /\ a < k))
      /\ UNCHANGED <<rflow, rreader, attempts, relay, rgot, rlost>>

\* The request's outcome is ignored.
Close(arrives) ==
  /\ rflow = "open"
  /\ rflow' = "closed"
  /\ rconn' = IF arrives THEN "gone" ELSE rconn
  /\ cut' = (cut \/ rconn = "open")
  /\ UNCHANGED <<rreader, attempts, upstream, produced, ended, served, rgot, rlost>>

-----------------------------------------------------------------------------
RDone == /\ rreader # "reading" /\ rflow \in {"closed", "failed"} /\ rconn # "open"
         /\ UNCHANGED rvars

RNext ==
  \/ target \/ Read \/ RDone
  \/ \E ok, arrives \in BOOLEAN : openTCPFlow(ok, arrives)
  \/ \E arrives \in BOOLEAN : Close(arrives)
  \/ \E k \in 1 .. InLen, a \in 0 .. InLen, arrives \in BOOLEAN : Write(k, a, arrives)

\* The reader's goroutine runs; no request need fail, and applications and
\* targets need not do anything.
RFairness == WF_rvars(Answered)

RSpec == RInit /\ [][RNext]_rvars
RFairSpec == RSpec /\ RFairness
-----------------------------------------------------------------------------
\* The reader gets a prefix of the target's stream, without holes: a lost
\* response ends the flow, so that nothing is read behind the hole.
RPrefix == rgot = [i \in 1 .. Len(rgot) |-> i]

\* A reader that has ended although no response was lost, the connection was
\* not closed and polling did not time out, has the whole stream: the
\* gateway's refusal that ends it comes only after the last unit.
RComplete ==
  rreader = "error" /\ ~rlost /\ ~cut => ended /\ Len(rgot) = produced

\* The gateway accepts what was written, in order and once, unless it accepted
\* only the beginning of a Write: the rest of that is lost.
RUpstream == taken = [i \in 1 .. Len(taken) |-> i] \/ short

\* The reader ends when the target has nothing more to send: at the stream's
\* end, or when the attempts of a Read are used up.
RReadEnds == rreader = "reading" ~> rreader # "reading"
=============================================================================
