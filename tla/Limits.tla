-------------------------------- MODULE Limits --------------------------------
(***************************************************************************)
(* The byte and packet windows of internal/limits/manager.go, for one key: *)
(* a client of the relay, or a session.  The three windows share nothing   *)
(* but the lock, nor do those of two keys, so that a behaviour uses one.   *)
(* The relay slots are in RelayManager.                                    *)
(*                                                                         *)
(* Time is in ticks, and the clock does not run backwards.  (The packet    *)
(* window compares truncated times, which follow the wall clock when it is *)
(* set; the byte windows do not.)                                          *)
(***************************************************************************)
EXTENDS Integers, FiniteSetsExt

CONSTANTS Minute, Second,  \* in ticks
          ByteLimit, PacketLimit,
          Amounts,         \* sizes that are asked for
          Horizon          \* bound on the clock

ASSUME LimitsAssumption ==
  /\ {Minute, Second} \subseteq Nat \ {0} /\ {ByteLimit, PacketLimit, Horizon} \subseteq Nat
  /\ Amounts \subseteq Int

VARIABLES
  clock,
  kind,       \* the window: "client", "session" or "packets" of a session
  byteWin,    \* relayBytesByClient[clientID] or sessionBytes[sessionID]
  ppsWin,     \* sessionPackets[sessionID]
  bytes,      \* history: the bytes allowed at each time
  packets,    \* history: the packets allowed at each time
  refused,    \* history: the first and the last refusal of one byte, since bytes were last allowed
  cleaned     \* history: CleanupSession has been called

lvars == <<clock, kind, byteWin, ppsWin, bytes, packets, refused, cleaned>>

Times == 0 .. Horizon
NoWindow == [start |-> -1, used |-> 0]
NoRefusal == [first |-> 0, last |-> 0]

LTypeOK ==
  /\ clock \in Times /\ kind \in {"client", "session", "packets"} /\ cleaned \in BOOLEAN
  /\ byteWin \in [start : -1 .. clock, used : Nat] /\ (ByteLimit > 0 => byteWin.used <= ByteLimit)
  /\ ppsWin \in [start : -1 .. clock, used : Nat] /\ (PacketLimit > 0 => ppsWin.used <= PacketLimit)

LInit ==
  /\ clock = 0 /\ kind \in {"client", "session", "packets"} /\ cleaned = FALSE
  /\ byteWin = NoWindow /\ ppsWin = NoWindow
  /\ bytes = [t \in Times |-> 0] /\ packets = [t \in Times |-> 0] /\ refused = NoRefusal

\* A plausible slip: every later call begins a window.
byteWindowEach ==
  IF byteWin = NoWindow \/ clock - byteWin.start > 0 THEN [start |-> clock, used |-> 0] ELSE byteWin

\* The window that a call finds: a new one when there is none, or a minute is over.
byteWindow ==
  IF byteWin = NoWindow \/ clock - byteWin.start >= Minute THEN [start |-> clock, used |-> 0] ELSE byteWin

ppsWindow ==
  LET second == clock - (clock % Second)
  IN  IF ppsWin = NoWindow \/ ppsWin.start # second THEN [start |-> second, used |-> 0] ELSE ppsWin

allow(n) ==
  /\ byteWin' = [byteWindow EXCEPT !.used = @ + n]
  /\ bytes' = [bytes EXCEPT ![clock] = @ + n] /\ refused' = NoRefusal

Over(n) == ByteLimit > 0 /\ byteWindow.used + n > ByteLimit

Refusal(n) == IF n # 1 THEN refused
              ELSE [first |-> IF refused = NoRefusal THEN clock ELSE refused.first, last |-> clock]

\* AllowRelayBytes and AllowSessionBytes
AllowBytes(n) ==
  /\ kind # "packets"
  /\ \/ n <= 0 /\ UNCHANGED <<byteWin, bytes, refused>>
     \/ n > 0 /\ ~Over(n) /\ allow(n)
     \/ n > 0 /\ Over(n) /\ byteWin' = byteWindow /\ refused' = Refusal(n) /\ UNCHANGED bytes
  /\ UNCHANGED <<clock, kind, ppsWin, packets, cleaned>>

AllowUDPPacket ==
  /\ kind = "packets"
  /\ IF PacketLimit > 0 /\ ppsWindow.used >= PacketLimit
     THEN ppsWin' = ppsWindow /\ UNCHANGED packets
     ELSE ppsWin' = [ppsWindow EXCEPT !.used = @ + 1] /\ packets' = [packets EXCEPT ![clock] = @ + 1]
  /\ UNCHANGED <<clock, kind, byteWin, bytes, refused, cleaned>>

\* Once, when the session is unregistered; pumps that have not ended call on.
CleanupSession ==
  /\ kind # "client" /\ ~cleaned /\ cleaned' = TRUE
  /\ byteWin' = NoWindow /\ ppsWin' = NoWindow
  /\ UNCHANGED <<clock, kind, bytes, packets, refused>>

timePasses ==
  /\ clock < Horizon /\ clock' = clock + 1
  /\ UNCHANGED <<kind, byteWin, ppsWin, bytes, packets, refused, cleaned>>

LNext == AllowUDPPacket \/ CleanupSession \/ timePasses \/ \E n \in Amounts : AllowBytes(n)

LSpec == LInit /\ [][LNext]_lvars
-----------------------------------------------------------------------------
\* Windows that may overlap a span: two, and a third when the session was
\* cleaned up in between.
Windows == IF cleaned THEN 3 ELSE 2

\* A window begins with the first call after a minute, so that up to twice the
\* limit passes within a minute, and never more; late pumps of a session that was
\* cleaned up have a window of their own.
BytesInMinute ==
  ByteLimit > 0 => \A t \in Times : MapThenSumSet(LAMBDA u : bytes[u], (t .. t + Minute - 1) \cap Times) <= Windows * ByteLimit

\* The same for the packets in any second.
PacketsInSecond ==
  PacketLimit > 0 => \A t \in Times : MapThenSumSet(LAMBDA u : packets[u], (t .. t + Second - 1) \cap Times) <= Windows * PacketLimit

\* Calls that are refused do not prolong the window: whoever asks for one byte
\* again and again is not refused for a minute or longer.
RefusedBriefly == refused.last - refused.first < Minute

\* The fixed windows of bytes and packets bound what passes in any span of their
\* length, at twice the limit, and let a refused caller in again in time.
WindowsBounded == BytesInMinute /\ PacketsInSecond /\ RefusedBriefly
=============================================================================
