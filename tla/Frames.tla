-------------------------------- MODULE Frames --------------------------------
(***************************************************************************)
(* The control stream of a session, byte by byte: internal/session/        *)
(* frame.go, with the lock that the goroutines of one end write under      *)
(* (writeFrame) and the reader of the other end, which may give up when a  *)
(* deadline passes and read on later (readControlFrameLocked).             *)
(*                                                                         *)
(* A byte is a number below 2 * Base, and a byte of a varint carries a     *)
(* digit to Base; in the code Base is 128.  The integer fields have the    *)
(* widths of Width.                                                        *)
(***************************************************************************)
EXTENDS Integers, SequencesExt, FiniteSetsExt

CONSTANTS Base,
          Width,      \* of the kinds "u64", "u32", "u16" and "u8", in bytes
          Scripts,    \* a script gives each writer the messages that it writes
          MayTimeOut  \* the reader has deadlines

ASSUME FramesAssumption == Base \in Nat \ {0, 1} /\ DOMAIN Width = {"u64", "u32", "u16", "u8"}

FrWriters == UNION {DOMAIN s : s \in Scripts}

-----------------------------------------------------------------------------
(* The encodings.  A message is a frame type and the values of its fields. *)

\* The fields of the payloads; "bytes" is a byte string behind its length, "rest"
\* is all that follows.
AuthFormat == <<"bytes", "u64", "bytes", "bytes", "u64">>
AuthOKFormat == <<"u64", "u32", "u32", "u32", "u32", "u32">>
AuthFailFormat == <<"bytes">>
OpenFormat == <<"u64", "bytes", "bytes", "u16">>
OpenOKFormat == <<"u64", "u8">>
FailFormat == <<"u64", "bytes">>
CloseFlowFormat == <<"u64">>
TCPDataFormat == <<"u64", "rest">>
PingFormat == <<"rest">>

\* The frame types, and those whose payload may end in bytes that nobody reads
Format ==
  <<AuthFormat, AuthOKFormat, AuthFailFormat, OpenFormat, OpenOKFormat, FailFormat, OpenFormat, OpenOKFormat,
    FailFormat, CloseFlowFormat, PingFormat, PingFormat, TCPDataFormat>>
Loose == {i \in DOMAIN Format : Format[i] \in {AuthFailFormat, AuthOKFormat, OpenOKFormat, FailFormat}}

PutUvarint[n \in Nat] == IF n < Base THEN <<n>> ELSE <<Base + (n % Base)>> \o PutUvarint[n \div Base]
BigEndian(n, w) == [i \in 1 .. w |-> (n \div (2 * Base) ^ (w - i)) % (2 * Base)]

writeBytes(s) == PutUvarint[Len(s)] \o s

encodeField(kind, v) ==
  CASE kind = "bytes" -> writeBytes(v)
    [] kind = "rest" -> v
    [] OTHER -> BigEndian(v, Width[kind])

Encode(m) == FlattenSeq([i \in DOMAIN m.fields |-> encodeField(Format[m.type][i], m.fields[i])])

\* What is read from the beginning of raw, and what is left; or an error
NotRead == [ok |-> FALSE, value |-> <<>>, rest |-> <<>>]
ReadAs(value, rest) == [ok |-> TRUE, value |-> value, rest |-> rest]

Uint(s) == FoldLeft(LAMBDA n, byte : n * 2 * Base + byte, 0, s)

ReadUvarint(raw) ==
  LET ends == {i \in DOMAIN raw : raw[i] < Base}
      n == Min(ends)
  IN  IF ends = {} THEN NotRead
      ELSE ReadAs(MapThenSumSet(LAMBDA i : (raw[i] % Base) * Base ^ (i - 1), 1 .. n), SubSeq(raw, n + 1, Len(raw)))

\* io.ReadFull
ReadFull(raw, n) == IF Len(raw) < n THEN NotRead ELSE ReadAs(SubSeq(raw, 1, n), SubSeq(raw, n + 1, Len(raw)))

readBytes(raw) == LET ln == ReadUvarint(raw) IN IF ln.ok THEN ReadFull(ln.rest, ln.value) ELSE NotRead

decodeField(kind, raw) ==
  CASE kind = "bytes" -> readBytes(raw)
    [] kind = "rest" -> ReadAs(raw, <<>>)
    [] OTHER -> LET r == ReadFull(raw, Width[kind]) IN IF r.ok THEN ReadAs(Uint(r.value), r.rest) ELSE NotRead

\* Field after field, until one cannot be read; then nothing may be left.
Decode(type, raw) ==
  LET format == Format[type]
      upTo[i \in 0 .. Len(format)] ==
        IF i = 0 THEN ReadAs(<<>>, raw)
        ELSE LET d == upTo[i - 1]
                 r == decodeField(format[i], d.rest)
             IN  IF d.ok /\ r.ok THEN ReadAs(Append(d.value, r.value), r.rest) ELSE NotRead
      all == upTo[Len(format)]
  IN  IF all.ok /\ (all.rest = <<>> \/ type \in Loose) THEN [type |-> type, fields |-> all.value]
      ELSE [type |-> type, fields |-> "error"]

-----------------------------------------------------------------------------
(* The stream.                                                             *)

VARIABLES
  todo,    \* what each writer is still to write; its first is the frame being written
  frame,   \* the place of the writer that holds the lock, in WriteFrame
  wire,    \* bytes that the reader has not read
  broken,  \* the stream has failed; writes fail
  rd,      \* ReadFrame: its place, the number being read and its scale, and what was read
  torn,    \* a deadline has passed within a frame
  sent,    \* history: the messages in the order in which writers got the lock
  got      \* the frames that were read

frvars == <<todo, frame, wire, broken, rd, torn, sent, got>>

Free == [by |-> "nobody", at |-> "type"]
Fresh == [at |-> "type", n |-> 0, scale |-> 1, type |-> 0, len |-> 0, buf |-> <<>>]

FrTypeOK ==
  /\ DOMAIN todo = FrWriters /\ frame.by \in FrWriters \cup {"nobody"} /\ frame.at \in {"type", "length", "payload"}
  /\ broken \in BOOLEAN /\ torn \in BOOLEAN
  /\ \A i \in DOMAIN wire : wire[i] \in 0 .. 2 * Base - 1
  /\ rd.at \in {"type", "length", "payload"} /\ (rd.at = "payload" => Len(rd.buf) < rd.len)

FrInit ==
  /\ \E s \in Scripts : todo = [w \in FrWriters |-> IF w \in DOMAIN s THEN s[w] ELSE <<>>]
  /\ frame = Free /\ wire = <<>> /\ broken = FALSE /\ rd = Fresh /\ torn = FALSE /\ sent = <<>> /\ got = <<>>

\* What the next Write of WriteFrame writes
Chunk(w) ==
  LET m == Head(todo[w]) IN
  CASE frame.at = "type" -> PutUvarint[m.type]
    [] frame.at = "length" -> PutUvarint[Len(Encode(m))]
    [] OTHER -> Encode(m)

LastChunk(w) == frame.at = "payload" \/ (frame.at = "length" /\ Encode(Head(todo[w])) = <<>>)

\* A plausible slip: no lock is taken.
lockNot(w) ==
  /\ todo[w] # <<>> /\ frame.by # w
  /\ frame' = [Free EXCEPT !.by = w] /\ sent' = Append(sent, Head(todo[w]))
  /\ UNCHANGED <<todo, wire, broken, rd, torn, got>>

\* writeFrame takes the lock.
lock(w) ==
  /\ frame = Free /\ todo[w] # <<>>
  /\ frame' = [Free EXCEPT !.by = w] /\ sent' = Append(sent, Head(todo[w]))
  /\ UNCHANGED <<todo, wire, broken, rd, torn, got>>

\* One Write; after the last one, or an error, the lock is released.
WriteFrame(w) ==
  /\ frame.by = w
  /\ \/ /\ ~broken /\ wire' = wire \o Chunk(w) /\ UNCHANGED broken
        /\ IF LastChunk(w) THEN frame' = Free /\ todo' = [todo EXCEPT ![w] = Tail(@)]
           ELSE frame' = [frame EXCEPT !.at = IF @ = "type" THEN "length" ELSE "payload"] /\ UNCHANGED todo
     \/ /\ \/ broken /\ UNCHANGED wire
           \/ ~broken /\ \E n \in 0 .. Len(Chunk(w)) - 1 : wire' = wire \o SubSeq(Chunk(w), 1, n)
        /\ broken' = TRUE /\ frame' = Free /\ todo' = [todo EXCEPT ![w] = Tail(@)]
  /\ UNCHANGED <<rd, torn, sent, got>>

Deliver(type, payload) == rd' = Fresh /\ got' = Append(got, [type |-> type, payload |-> payload])

\* A plausible slip: an empty payload is waited for.
readWaits ==
  LET b == Head(wire)
      n == rd.n + (b % Base) * rd.scale
      more == [rd EXCEPT !.n = n, !.scale = @ * Base]
      then == [rd EXCEPT !.n = 0, !.scale = 1]
  IN
  /\ wire # <<>> /\ wire' = Tail(wire)
  /\ \/ rd.at # "payload" /\ b >= Base /\ rd' = more /\ UNCHANGED got
     \/ rd.at = "type" /\ b < Base /\ rd' = [then EXCEPT !.at = "length", !.type = n] /\ UNCHANGED got
     \/ rd.at = "length" /\ b < Base /\ rd' = [then EXCEPT !.at = "payload", !.len = n] /\ UNCHANGED got
     \/ rd.at = "payload" /\ Len(rd.buf) + 1 < rd.len /\ rd' = [rd EXCEPT !.buf = Append(@, b)] /\ UNCHANGED got
     \/ rd.at = "payload" /\ Len(rd.buf) + 1 >= rd.len /\ Deliver(rd.type, Append(rd.buf, b))
  /\ UNCHANGED <<todo, frame, broken, torn, sent>>

\* ReadFrame takes a byte: of the type, of the length, or of the payload.
ReadFrame ==
  LET b == Head(wire)
      n == rd.n + (b % Base) * rd.scale
      more == [rd EXCEPT !.n = n, !.scale = @ * Base]
      then == [rd EXCEPT !.n = 0, !.scale = 1]
  IN
  /\ wire # <<>> /\ wire' = Tail(wire)
  /\ \/ rd.at # "payload" /\ b >= Base /\ rd' = more /\ UNCHANGED got
     \/ rd.at = "type" /\ b < Base /\ rd' = [then EXCEPT !.at = "length", !.type = n] /\ UNCHANGED got
     \/ rd.at = "length" /\ b < Base /\ n > 0 /\ rd' = [then EXCEPT !.at = "payload", !.len = n] /\ UNCHANGED got
     \/ rd.at = "length" /\ b < Base /\ n = 0 /\ Deliver(rd.type, <<>>)
     \/ rd.at = "payload" /\ Len(rd.buf) + 1 < rd.len /\ rd' = [rd EXCEPT !.buf = Append(@, b)] /\ UNCHANGED got
     \/ rd.at = "payload" /\ Len(rd.buf) + 1 = rd.len /\ Deliver(rd.type, Append(rd.buf, b))
  /\ UNCHANGED <<todo, frame, broken, torn, sent>>

\* The deadline passes: what was read of a frame is lost, and the next ReadFrame
\* begins behind it.  (Once in a behaviour.)
readDeadline ==
  /\ MayTimeOut /\ ~torn /\ rd # Fresh
  /\ rd' = Fresh /\ torn' = TRUE
  /\ UNCHANGED <<todo, frame, wire, broken, sent, got>>

Written == frame = Free /\ \A w \in FrWriters : todo[w] = <<>>
FrEnd == Written /\ wire = <<>> /\ UNCHANGED frvars

FrNext == ReadFrame \/ readDeadline \/ FrEnd \/ \E w \in FrWriters : lock(w) \/ WriteFrame(w)

FrSpec == FrInit /\ [][FrNext]_frvars
-----------------------------------------------------------------------------
\* The reader gets the messages of all writers whole, in the order in which they
\* got the lock, also when the stream fails in the middle of one; only a deadline
\* that passes within a frame puts an end to that.
FramesIntact ==
  ~torn => /\ Len(got) <= Len(sent)
           /\ \A i \in DOMAIN got : got[i].type \in DOMAIN Format /\ Decode(got[i].type, got[i].payload) = sent[i]

\* Every message arrives, unless the stream fails or a deadline tears a frame.
FramesArrive == <>(torn \/ broken \/ (Written /\ Len(got) = Len(sent)))

\* The reader keeps its place in the stream: it gets whole messages, in the order of
\* the lock, until a deadline tears a frame.
StreamWhole == FrTypeOK /\ FramesIntact
=============================================================================
