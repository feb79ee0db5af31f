-------------------------- MODULE MCClientSession --------------------------
(* The client's loop, and the codec of the session it runs on with bytes of *)
(* four values.  Numbers, texts and monitors are at the ends of their       *)
(* ranges.                                                                  *)
EXTENDS ClientSession, Codec

Text(n) == [i \in 1 .. n |-> 1]
Texts == {Text(0), Text(1), Text(MaxStr), Text(MaxStr + 1)}
Screen(id, x, name) == <<id, x, 0, 255, 1, id = 0, name>>
Screens == {Screen(0, -128, Text(1)), Screen(3, 127, Text(MaxStr + 1))}
Layouts == UNION {[1 .. n -> Screens] : n \in 0 .. MaxMonitors + 1}
Shorts == {-8, -1, 0, 7}
OfType(type, fields) == [type |-> type, fields |-> fields]
Messages ==
  UNION {
    {OfType("Hello", <<v, name, ms, token>>) :
        v \in {0, 1}, name \in Texts, ms \in Layouts, token \in Texts},
    {OfType(type, <<s>>) : type \in {"Welcome", "Bye"}, s \in Texts},
    {OfType(type, <<x, y>>) : type \in {"MouseMove", "MouseWheel"}, x, y \in Shorts},
    {OfType("MouseAbs", <<id, x, y>>) : id \in {0, 3}, x, y \in {0, 15}},
    {OfType("MouseButton", <<k, down>>) : k \in {1, 3}, down \in BOOLEAN},
    {OfType("KeyEvent", <<k, down>>) : k \in {0, 15}, down \in BOOLEAN},
    {OfType(type, <<n>>) : type \in {"Ping", "Pong"}, n \in {0, 255}},
    {OfType("Grab", <<on>>) : on \in BOOLEAN},
    {OfType("MonitorsChanged", <<ms>>) : ms \in Layouts},
    {OfType("ClipboardUpdate", <<origin, seq, 1, Text(n)>>) :
        origin \in {Text(k) : k \in 0 .. 5}, seq \in {0, 65535},
        n \in {1, MaxClipboardData - 1, MaxClipboardData}}}

\* Messages are exchanged before the client starts, and then it lives its life.
LifeInit == Init /\ sent = NoMessage
LifeNext ==
  \/ Next /\ sent = NoMessage /\ UNCHANGED sent
  \/ Init /\ Exchange /\ UNCHANGED vars
LifeSpec == LifeInit /\ [][LifeNext]_<<vars, sent>> /\ Fairness
=============================================================================
