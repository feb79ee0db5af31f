------------------------------- MODULE Codec -------------------------------
(***************************************************************************)
(* The wire format (internal/proto: codec.go, messages.go) and the         *)
(* exchange of Hello and Welcome that uses it first (transport.session).   *)
(* A message is its type and the sequence of its fields in the order of    *)
(* its encode; strings and data are sequences of bytes.  A byte has Byte   *)
(* values: 256 in the code, fewer for TLC, so that u16, u32 and u64 come   *)
(* to their ends.  The type byte of a frame is kept as a name.             *)
(***************************************************************************)
EXTENDS Integers, SequencesExt

CONSTANTS
  Byte, MaxMonitors, MaxFrameSize, MaxControlFrameSize, MaxClipboardData,
  Sample     \* bound: the messages that are sent

VARIABLE sent   \* the message on its way from one end of a session to the other

Width == [u8 |-> 1, u16 |-> 2, i16 |-> 2, u32 |-> 4, i32 |-> 4, u64 |-> 8]
\* How many values w bytes have.
Values[w \in 0 .. 8] == IF w = 0 THEN 1 ELSE Byte * Values[w - 1]
MaxStr == Values[2] - 1

\* The room of an update's other fields is less than a string can take.
ASSUME CodecAssumption ==
  /\ {Byte, MaxMonitors, MaxFrameSize, MaxControlFrameSize, MaxClipboardData}
       \subseteq Nat \ {0}
  /\ Byte % 2 = 0 /\ MaxMonitors < Byte
  /\ MaxControlFrameSize <= MaxFrameSize /\ MaxFrameSize < Values[4]
  /\ MaxFrameSize - MaxClipboardData - 16 \in 0 .. MaxStr - 1

MonitorFields == <<"u8", "i32", "i32", "u32", "u32", "bool", "str">>

Fields ==
  [Hello           |-> <<"u16", "str", "monitors", "str">>,
   Welcome         |-> <<"str">>,
   MouseMove       |-> <<"i16", "i16">>,
   MouseAbs        |-> <<"u8", "u16", "u16">>,
   MouseButton     |-> <<"u8", "bool">>,
   MouseWheel      |-> <<"i16", "i16">>,
   KeyEvent        |-> <<"u16", "bool">>,
   Ping            |-> <<"u32">>,
   Pong            |-> <<"u32">>,
   Grab            |-> <<"bool">>,
   Bye             |-> <<"str">>,
   MonitorsChanged |-> <<"monitors">>,
   ClipboardUpdate |-> <<"str", "u64", "u8", "bytes">>]

\* What a field may hold, by its type in Go.
InField(f, v) ==
  CASE f \in {"str", "bytes"} -> v \in Seq(0 .. Byte - 1)
    [] f = "bool" -> v \in BOOLEAN
    [] f \in {"i16", "i32"} -> LET half == Values[Width[f]] \div 2 IN v \in -half .. half - 1
    [] OTHER -> v \in 0 .. Values[Width[f]] - 1

InFields(fs, vs) == DOMAIN vs = DOMAIN fs /\ \A i \in DOMAIN fs : InField(fs[i], vs[i])

IsMonitors(ms) ==
  ms \in Seq({ms[i] : i \in DOMAIN ms}) /\ \A i \in DOMAIN ms : InFields(MonitorFields, ms[i])

IsMessage(m) ==
  /\ DOMAIN m = {"type", "fields"} /\ m.type \in DOMAIN Fields
  /\ DOMAIN m.fields = DOMAIN Fields[m.type]
  /\ \A i \in DOMAIN m.fields :
       LET f == Fields[m.type][i]
       IN  IF f = "monitors" THEN IsMonitors(m.fields[i]) ELSE InField(f, m.fields[i])

ASSUME SampleAssumption == \A m \in Sample : IsMessage(m)

\* Variant of FrameLimit: the clipboard gets what every other message gets.
ControlLimit(type) == MaxControlFrameSize

FrameLimit(type) ==
  IF type = "ClipboardUpdate" THEN MaxFrameSize ELSE MaxControlFrameSize

Cut(s, n) == SubSeq(s, 1, IF Len(s) < n THEN Len(s) ELSE n)

-----------------------------------------------------------------------------
(* Encoding. *)

\* Little endian, in two's complement where v is negative.
LittleEndian(w, v) == [i \in 1 .. w |-> (v \div Values[i - 1]) % Byte]

\* Variant of CutStr without the cut: the length wraps, and every byte follows.
Uncut(s) == s

CutStr(s) == Cut(s, MaxStr)

PutPlain(f, v) ==
  CASE f = "str"   -> LittleEndian(2, Len(CutStr(v))) \o CutStr(v)
    [] f = "bytes" -> LittleEndian(4, Len(v)) \o v
    [] f = "bool"  -> <<IF v THEN 1 ELSE 0>>
    [] OTHER       -> LittleEndian(Width[f], v)

PutAllPlain(fs, vs) == FlattenSeq([i \in DOMAIN fs |-> PutPlain(fs[i], vs[i])])

PutField(f, v) ==
  IF f # "monitors" THEN PutPlain(f, v)
  ELSE LET ms == Cut(v, MaxMonitors)
       IN  LittleEndian(1, Len(ms)) \o
             FlattenSeq([i \in DOMAIN ms |-> PutAllPlain(MonitorFields, ms[i])])

Encode(m) ==
  LET fs == Fields[m.type] IN FlattenSeq([i \in DOMAIN fs |-> PutField(fs[i], m.fields[i])])

\* What Write puts on the wire: a header and what follows it.  The length counts
\* the type.
Frame(m) == [length |-> 1 + Len(Encode(m)), type |-> m.type, bytes |-> Encode(m)]

Writes(m) == Frame(m).length <= FrameLimit(m.type)

-----------------------------------------------------------------------------
(* Decoding: a decoder holds what is left of the payload and what it has read; *)
(* after an error it reads nothing more.                                       *)

Decoder(bytes) == [left |-> bytes, got |-> <<>>, err |-> FALSE]
Fail(d) == [d EXCEPT !.err = TRUE]
Need(d, n) == ~d.err /\ n <= Len(d.left)
Got(d, n, v) == [left |-> SubSeq(d.left, n + 1, Len(d.left)), got |-> Append(d.got, v),
                 err |-> FALSE]

Unsigned(s) == MapThenSumSet(LAMBDA i : s[i] * Values[i - 1], DOMAIN s)

\* Variant of Signed: the decoder takes every integer as unsigned.
NeverSigned(f, n) == n

Signed(f, n) ==
  IF f \in {"i16", "i32"} /\ 2 * n >= Values[Width[f]] THEN n - Values[Width[f]] ELSE n

\* A length of w bytes and as many bytes.
TakeCounted(d, w, limit) ==
  LET n == Unsigned(Cut(d.left, w))
      s == SubSeq(d.left, w + 1, w + n)
  IN  IF Need(d, w) /\ n <= limit /\ Need(d, w + n) THEN Got(d, w + n, s) ELSE Fail(d)

TakePlain(d, f) ==
  CASE f = "str"   -> TakeCounted(d, 2, MaxStr)
    [] f = "bytes" -> TakeCounted(d, 4, MaxFrameSize)
    [] f = "bool"  -> IF Need(d, 1) THEN Got(d, 1, d.left[1] # 0) ELSE Fail(d)
    [] OTHER       -> LET w == Width[f]
                      IN  IF Need(d, w) THEN Got(d, w, Signed(f, Unsigned(Cut(d.left, w))))
                          ELSE Fail(d)

TakeMonitor(d) ==
  LET e == FoldLeft(TakePlain, [d EXCEPT !.got = <<>>], MonitorFields)
  IN  [e EXCEPT !.got = Append(d.got, e.got)]

Take(d, f) ==
  IF f # "monitors" THEN TakePlain(d, f)
  ELSE LET n == d.left[1]
           e == FoldLeft(LAMBDA a, i : TakeMonitor(a), Got([d EXCEPT !.got = <<>>], 1, n),
                         [i \in 1 .. n |-> i])
       IN  IF Need(d, 1) /\ n <= MaxMonitors
           THEN [e EXCEPT !.got = Append(d.got, Tail(e.got))]
           ELSE Fail(d)

Decode(type, bytes) == FoldLeft(Take, Decoder(bytes), Fields[type])

Unreadable == [err |-> TRUE]

\* What Read makes of a header and the bytes that come before the stream ends:
\* a message and how many of the bytes it took, or an error.
Read(f) ==
  LET body == Cut(f.bytes, f.length - 1)
      d == Decode(f.type, body)
  IN  IF /\ f.length \in 1 .. MaxFrameSize /\ f.type \in DOMAIN Fields
         /\ f.length <= FrameLimit(f.type)
         /\ Len(f.bytes) >= f.length - 1
         /\ ~d.err /\ d.left = <<>>
      THEN [err |-> FALSE, took |-> f.length - 1,
            msg |-> [type |-> f.type, fields |-> d.got]]
      ELSE Unreadable

-----------------------------------------------------------------------------
(* Hello and Welcome. *)

NoMessage == [type |-> "none"]

\* One message after the other; they do not interfere.
Exchange ==
  \/ sent = NoMessage /\ sent' \in Sample
  \/ sent # NoMessage /\ sent' = NoMessage

ExchangeSpec == sent = NoMessage /\ [][Exchange]_sent

Delivered(m) == IF Writes(m) THEN Read(Frame(m)) ELSE Unreadable

Hello(version, name, monitors, token) ==
  [type |-> "Hello", fields |-> <<version, name, monitors, token>>]

\* Variant of AcceptHandshake that does not ask for a monitor.
AcceptWithoutMonitors(r, version, token) ==
  IF /\ ~r.err /\ r.msg.type = "Hello"
     /\ r.msg.fields[1] = version /\ r.msg.fields[4] = token
  THEN r ELSE Unreadable

\* acceptHandshake: the Hello it returns, or an error.
AcceptHandshake(r, version, token) ==
  IF /\ ~r.err /\ r.msg.type = "Hello"
     /\ r.msg.fields[1] = version /\ r.msg.fields[3] # <<>> /\ r.msg.fields[4] = token
     /\ Writes([type |-> "Welcome", fields |-> <<r.msg.fields[2]>>])
  THEN r ELSE Unreadable

\* clientHandshake: what comes back for its Hello.
ClientHandshake(hello, version, token) ==
  LET accepted == AcceptHandshake(Delivered(hello), version, token)
  IN  IF accepted.err THEN Unreadable
      ELSE Delivered([type |-> "Welcome", fields |-> <<accepted.msg.fields[2]>>])

-----------------------------------------------------------------------------
(* Properties. *)

Carried(f, v) ==
  CASE f = "str"      -> Cut(v, MaxStr)
    [] f = "monitors" -> [i \in DOMAIN Cut(v, MaxMonitors) |->
                            [v[i] EXCEPT ![Len(MonitorFields)] = Cut(@, MaxStr)]]
    [] OTHER          -> v

\* What comes after a frame: the end of the stream, or a byte of the next.
Following == {<<>>, <<1>>}

\* What Write accepts, Read takes from the stream as it was, to the byte, whatever
\* comes after it; long strings and the monitors beyond the limit are cut.
RoundTrip ==
  sent # NoMessage /\ Writes(sent) =>
    \A next \in Following :
      LET f == Frame(sent)
      IN  Read([f EXCEPT !.bytes = @ \o next]) =
            [err |-> FALSE, took |-> Len(f.bytes),
             msg |-> [sent EXCEPT !.fields =
                        [i \in DOMAIN @ |-> Carried(Fields[sent.type][i], @[i])]]]

\* The room MaxClipboardData leaves in a frame is what the other fields of an
\* update need (16 bytes with the type) and the name of its origin: with a longer
\* name the largest payload that the hub lets through ends the session.
ClipboardFits ==
  sent.type = "ClipboardUpdate" =>
    LET room == MaxFrameSize - MaxClipboardData - 16
        n == Len(sent.fields[4])
    IN  /\ n <= MaxClipboardData /\ Len(sent.fields[1]) <= room => Writes(sent)
        /\ n = MaxClipboardData /\ Len(sent.fields[1]) > room => ~Writes(sent)

\* Who shows the server's version and token and a monitor gets a session, under
\* the name that the server knows, and nobody else; a token that is cut on the
\* wire is never the right one.
HandshakeAgrees ==
  sent.type = "Hello" =>
    \A version \in {0, 1}, token \in {m.fields[4] : m \in {m \in Sample : m.type = "Hello"}} :
      LET w == ClientHandshake(sent, version, token)
          served == /\ Writes(sent) /\ sent.fields[1] = version /\ sent.fields[3] # <<>>
                    /\ Cut(sent.fields[4], MaxStr) = token
      IN  /\ w.err = ~served
          /\ served => w.msg.type = "Welcome" /\ w.msg.fields[1] = Cut(sent.fields[2], MaxStr)
=============================================================================
