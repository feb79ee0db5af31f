------------------------- MODULE InputRoutingProofs -------------------------
(***************************************************************************)
(* Theorems about InputRouting, for any number of connections, buttons,    *)
(* keys and any capacity.  The argument has two layers: what reading a     *)
(* frame and sending a frame do to Drained and GrabbedAfter (lemmas), and  *)
(* two inductive invariants.  GhostInv adds to NoGhostInput what Register  *)
(* relies on: an idle connection has nothing in flight and nothing held.   *)
(* SentInv says of every frame in flight that it may be read in its turn.  *)
(***************************************************************************)
EXTENDS InputRouting, FiniteSetTheorems, SequenceTheorems, TLAPS

-----------------------------------------------------------------------------
(* Lemmas about frames. *)

\* Frames of different kinds, or about different inputs, are different.
LEMMA FrameFacts ==
  /\ \A f \in Frame : f.kind \in {"grabOn", "grabOff", "motion", "down", "up"}
  /\ \A f \in Frame : f.kind \in {"down", "up"} => f.input \in Input
  /\ \A f \in Frame, i \in Input :
       /\ f = Down(i) <=> f.kind = "down" /\ f.input = i
       /\ f = Up(i) <=> f.kind = "up" /\ f.input = i
       /\ f = GrabOff <=> f.kind = "grabOff"
  BY DEF Frame, GrabOn, GrabOff, Motion, Signal, Down, Up

\* Applying a frame to a set of inputs gives a set of inputs.
LEMMA AfterFrameType ==
  ASSUME NEW down \in SUBSET Input, NEW f \in Frame
  PROVE  AfterFrame(down, f) \in SUBSET Input
  BY FrameFacts DEF AfterFrame

\* A client without frames in flight holds what it holds.
LEMMA DrainedEmpty ==
  ASSUME NEW down \in SUBSET Input
  PROVE  Drained(down, <<>>) = down
  BY DEF Drained

\* A frame that is sent takes effect after all the frames before it.
LEMMA DrainedAppend ==
  ASSUME NEW down \in SUBSET Input, NEW w \in Seq(Frame), NEW f \in Frame
  PROVE  Drained(down, Append(w, f)) = AfterFrame(Drained(down, w), f)
<1> DEFINE v == Append(w, f)
<1>1. /\ v \in Seq(Frame) /\ Len(v) = Len(w) + 1 /\ v[Len(w) + 1] = f
      /\ DOMAIN v = 1..(Len(w) + 1) /\ DOMAIN w = 1..Len(w) /\ Len(w) \in Nat
      /\ \A n \in 1..Len(w) : v[n] = w[n] /\ w[n] \in Frame
  OBVIOUS
<1> HIDE DEF v
<1>2. ASSUME NEW i \in Input
      PROVE  i \in Drained(down, v) <=> i \in AfterFrame(Drained(down, w), f)
  <2>1. CASE f.kind = "grabOff" \/ f = Up(i)
    <3>1. f \in {Up(i), GrabOff} /\ f # Down(i)
      BY <2>1, FrameFacts
    <3>2. i \notin Drained(down, v)
      BY <1>1, <3>1 DEF Drained
    <3>3. i \notin AfterFrame(Drained(down, w), f)
      BY <2>1, FrameFacts DEF AfterFrame
    <3> QED BY <3>2, <3>3
  <2>2. CASE f = Down(i)
    <3>1. f \notin {Up(i), GrabOff}
      BY <2>2, FrameFacts
    <3>2. i \in Drained(down, v)
      BY <1>1, <2>2, <3>1 DEF Drained
    <3>3. i \in AfterFrame(Drained(down, w), f)
      BY <2>2, FrameFacts DEF AfterFrame
    <3> QED BY <3>2, <3>3
  <2>3. CASE f.kind # "grabOff" /\ f # Up(i) /\ f # Down(i)
    <3>1. f \notin {Up(i), GrabOff, Down(i)}
      BY <2>3, FrameFacts
    <3>2. i \in Drained(down, v) <=> i \in Drained(down, w)
      BY <1>1, <3>1 DEF Drained
    <3>3. i \in AfterFrame(Drained(down, w), f) <=> i \in Drained(down, w)
      BY <2>3, FrameFacts DEF AfterFrame
    <3> QED BY <3>2, <3>3
  <2> QED BY <2>1, <2>2, <2>3
<1>3. Drained(down, v) \subseteq Input /\ AfterFrame(Drained(down, w), f) \subseteq Input
  BY AfterFrameType DEF Drained
<1> QED BY <1>2, <1>3 DEF v

\* Reading the first frame does not change what the client ends up with.
LEMMA DrainedRead ==
  ASSUME NEW down \in SUBSET Input, NEW w \in Seq(Frame), w # <<>>
  PROVE  Drained(AfterFrame(down, Head(w)), Tail(w)) = Drained(down, w)
<1> DEFINE f == Head(w)
           v == Tail(w)
<1>1. /\ Len(w) \in Nat \ {0} /\ DOMAIN w = 1..Len(w) /\ f = w[1] /\ f \in Frame
      /\ DOMAIN v = 1..(Len(w) - 1)
      /\ \A n \in 1..(Len(w) - 1) : v[n] = w[n + 1]
  OBVIOUS
<1> HIDE DEF f, v
<1>2. ASSUME NEW i \in Input
      PROVE  i \in Drained(AfterFrame(down, f), v) <=> i \in Drained(down, w)
  <2> DEFINE Ends(x) == x \in {Up(i), GrabOff}
             Before(n) == w[n] = Down(i) /\ \A m \in 1..Len(w) : m > n => ~Ends(w[m])
             After(n) == v[n] = Down(i) /\ \A m \in 1..(Len(w) - 1) : m > n => ~Ends(v[m])
  <2>1. i \in Drained(down, w) <=>
          \/ \E n \in 1..Len(w) : Before(n)
          \/ i \in down /\ \A m \in 1..Len(w) : ~Ends(w[m])
    BY <1>1 DEF Drained
  <2>2. i \in Drained(AfterFrame(down, f), v) <=>
          \/ \E n \in 1..(Len(w) - 1) : After(n)
          \/ i \in AfterFrame(down, f) /\ \A m \in 1..(Len(w) - 1) : ~Ends(v[m])
    BY <1>1 DEF Drained
  <2>3. \A n \in 1..(Len(w) - 1) : After(n) <=> Before(n + 1)
    <3> SUFFICES ASSUME NEW n \in 1..(Len(w) - 1) PROVE After(n) <=> Before(n + 1)
      OBVIOUS
    <3>1. ASSUME After(n) PROVE Before(n + 1)
      <4>1. ASSUME NEW m \in 1..Len(w), m > n + 1 PROVE ~Ends(w[m])
        <5>1. m - 1 \in 1..(Len(w) - 1) /\ m - 1 > n /\ v[m - 1] = w[(m - 1) + 1]
          BY <1>1, <4>1
        <5>2. (m - 1) + 1 = m
          BY <1>1
        <5> QED BY <3>1, <5>1, <5>2
      <4> QED BY <1>1, <3>1, <4>1
    <3>2. ASSUME Before(n + 1) PROVE After(n)
      <4>1. ASSUME NEW m \in 1..(Len(w) - 1), m > n PROVE ~Ends(v[m])
        <5>1. m + 1 \in 1..Len(w) /\ m + 1 > n + 1 /\ v[m] = w[m + 1]
          BY <1>1, <4>1
        <5> QED BY <3>2, <5>1
      <4> QED BY <1>1, <3>2, <4>1
    <3> QED BY <3>1, <3>2
  <2>4. (\A m \in 1..(Len(w) - 1) : ~Ends(v[m]))
          <=> \A m \in 1..Len(w) : m > 1 => ~Ends(w[m])
    <3>1. ASSUME \A m \in 1..(Len(w) - 1) : ~Ends(v[m]), NEW m \in 1..Len(w), m > 1
          PROVE  ~Ends(w[m])
      <4>1. m - 1 \in 1..(Len(w) - 1) /\ v[m - 1] = w[(m - 1) + 1] /\ (m - 1) + 1 = m
        BY <1>1, <3>1
      <4> QED BY <3>1, <4>1
    <3>2. ASSUME \A m \in 1..Len(w) : m > 1 => ~Ends(w[m]), NEW m \in 1..(Len(w) - 1)
          PROVE  ~Ends(v[m])
      <4>1. m + 1 \in 1..Len(w) /\ m + 1 > 1 /\ v[m] = w[m + 1]
        BY <1>1
      <4> QED BY <3>2, <4>1
    <3> QED BY <3>1, <3>2
  <2>5. i \in AfterFrame(down, f) <=> f = Down(i) \/ (i \in down /\ ~Ends(f))
    BY <1>1, FrameFacts DEF AfterFrame
  <2>6. (\E n \in 1..Len(w) : Before(n))
          <=> Before(1) \/ \E n \in 1..(Len(w) - 1) : After(n)
    <3>1. ASSUME NEW n \in 1..Len(w), Before(n), n # 1
          PROVE  \E k \in 1..(Len(w) - 1) : After(k)
      <4>1. n - 1 \in 1..(Len(w) - 1) /\ (n - 1) + 1 = n
        BY <1>1, <3>1
      <4>2. After(n - 1)
        BY <2>3, <3>1, <4>1
      <4> QED BY <4>1, <4>2
    <3>2. ASSUME NEW n \in 1..(Len(w) - 1), After(n)
          PROVE  \E k \in 1..Len(w) : Before(k)
      <4>1. n + 1 \in 1..Len(w)
        BY <1>1
      <4> QED BY <2>3, <3>2, <4>1
    <3>3. 1 \in 1..Len(w)
      BY <1>1
    <3> HIDE DEF Before, After
    <3> QED BY <3>1, <3>2, <3>3
  <2>7. Before(1) <=> f = Down(i) /\ \A m \in 1..Len(w) : m > 1 => ~Ends(w[m])
    BY <1>1
  <2>8. (\A m \in 1..Len(w) : ~Ends(w[m]))
          <=> ~Ends(f) /\ \A m \in 1..Len(w) : m > 1 => ~Ends(w[m])
    BY <1>1
  <2> HIDE DEF Before, After, Ends
  <2> QED BY <2>1, <2>2, <2>4, <2>5, <2>6, <2>7, <2>8
<1> QED BY <1>2 DEF Drained, f, v

\* After a Grab{Off} at the end of the wire nothing remains held.
LEMMA DrainedGrabOff ==
  ASSUME NEW down \in SUBSET Input, NEW w \in Seq(Frame), NEW s \in Seq(Frame)
  PROVE  Drained(down, w \o Append(s, GrabOff)) = {}
<1>1. w \o Append(s, GrabOff) = Append(w \o s, GrabOff)
  <2>1. \A f : w \o Append(s, f) = Append(w \o s, f)
    OBVIOUS
  <2> QED BY <2>1, Zenon
<1>2. GrabOff \in Frame /\ GrabOff.kind = "grabOff" /\ w \o s \in Seq(Frame)
  <2>1. GrabOff \in Frame /\ GrabOff.kind = "grabOff"
    BY DEF Frame, GrabOff, Signal
  <2>2. w \o s \in Seq(Frame)
    BY ConcatProperties, Zenon
  <2> QED BY <2>1, <2>2, Zenon
<1>3. \A i \in Input : GrabOff # Down(i)
  BY <1>2, FrameFacts
<1>4. AfterFrame(Drained(down, w \o s), GrabOff) = {}
  <2>1. \A D : AfterFrame(D, GrabOff) = {}
    BY <1>3, Zenon DEF AfterFrame
  <2> QED BY <2>1, Zenon
<1> QED BY <1>1, <1>2, <1>4, DrainedAppend

-----------------------------------------------------------------------------
(* Lemmas about what the handlers send and what the hook's channel holds. *)

\* An order of a finite set is a sequence over it.
LEMMA OrdersType ==
  ASSUME NEW S, IsFiniteSet(S), NEW s \in Orders(S)
  PROVE  s \in Seq(S)
<1>1. Cardinality(S) \in Nat
  BY FS_CardinalityType
<1> QED BY <1>1 DEF Orders

\* An order of inputs gives a sequence of frames, and one of events.
LEMMA UpsType ==
  ASSUME NEW order \in Seq(Input)
  PROVE  Ups(order) \in Seq(Frame) /\ KeyUps(order) \in Seq(Event)
<1>1. \A i \in Input : Up(i) \in Frame
  BY DEF Frame
<1>2. \A i \in Input : InputEv(i, FALSE) \in Event
  BY DEF Event, InputEvents, InputEv
<1>3. Ups(order) \in Seq(Frame)
  BY <1>1 DEF Ups
<1>4. KeyUps(order) \in Seq(Event)
  BY <1>2 DEF KeyUps, InputEv
<1> QED BY <1>3, <1>4

\* Every sweep consists of frames.
LEMMA SweepType ==
  ASSUME TypeOK, NEW sweep \in ReleaseSweeps
  PROVE  sweep \in Seq(Frame)
<1>1. IsFiniteSet(onClient \cap Button) /\ IsFiniteSet(onClient \cap Key)
  BY FS_Subset, ConstantsAssumption
<1>2. PICK b \in Orders(onClient \cap Button), k \in Orders(onClient \cap Key) :
        sweep = Ups(b) \o Ups(k)
  BY DEF ReleaseSweeps
<1>3. b \in Seq(Input) /\ k \in Seq(Input)
  <2>1. b \in Seq(onClient \cap Button) /\ k \in Seq(onClient \cap Key)
    BY <1>1, OrdersType
  <2> QED BY <2>1 DEF TypeOK
<1> QED BY <1>2, <1>3, UpsType

\* What comes back through the keyboard hook fits the channel.
LEMMA FedBackType ==
  ASSUME NEW q \in Seq(Event), NEW ups \in Seq(Event)
  PROVE  FedBack(q, ups) \in Seq(Event) /\ Len(FedBack(q, ups)) <= ChanCap
<1>1. ChanCap \in Nat
  BY ConstantsAssumption
<1>2. q \o ups \in Seq(Event) /\ Len(q \o ups) \in Nat
  OBVIOUS
<1> QED BY <1>1, <1>2 DEF FedBack

\* The hook's send keeps the channel within its capacity.
LEMMA EmitType ==
  ASSUME TypeOK, NEW e \in Event
  PROVE  Emit(events, e) \in Seq(Event) /\ Len(Emit(events, e)) <= ChanCap
  BY ConstantsAssumption DEF TypeOK, Emit

\* Taking the first event leaves a channel within its capacity.
LEMMA TailType ==
  ASSUME TypeOK, events # <<>>
  PROVE  Tail(events) \in Seq(Event) /\ Len(Tail(events)) <= ChanCap
  BY ConstantsAssumption DEF TypeOK

-----------------------------------------------------------------------------
(* Type correctness. *)

\* A send leaves sequences of frames on every wire.
LEMMA DeliverType ==
  ASSUME TypeOK, NEW out \in [ConnId -> Seq(Frame)], Deliver(out)
  PROVE  wire' \in [ConnId -> Seq(Frame)]
  BY DEF TypeOK, Deliver

\* What the handlers send is made of frames.
LEMMA SendTypes ==
  /\ \A c \in ConnId, s \in Seq(Frame) : Only(c, s) \in [ConnId -> Seq(Frame)]
  /\ \A i \in Input : <<Down(i)>> \in Seq(Frame) /\ <<Up(i)>> \in Seq(Frame)
  /\ <<Motion>> \in Seq(Frame) /\ <<GrabOn, Motion>> \in Seq(Frame)
  /\ \A s \in Seq(Frame) : Append(s, GrabOff) \in Seq(Frame)
<1>1. /\ \A i \in Input : Down(i) \in Frame /\ Up(i) \in Frame
      /\ Motion \in Frame /\ GrabOn \in Frame /\ GrabOff \in Frame
  BY DEF Frame
<1> QED BY <1>1 DEF Only

\* An empty channel and an empty wire have their types.
LEMMA EmptyTypes ==
  <<>> \in Seq(Event) /\ Len(<<>>) <= ChanCap /\ <<>> \in Seq(Frame)
<1>1. ChanCap \in Nat
  BY ConstantsAssumption
<1>2. Len(<<>>) = 0
  OBVIOUS
<1> QED BY <1>1, <1>2

\* Every variable keeps its type and the hook's channel its capacity, whatever
\* the user does, whenever a session is lost.
THEOREM TypeCorrect == Spec => []TypeOK
<1>1. Init => TypeOK
  BY EmptyTypes DEF Init, TypeOK
<1>2. TypeOK /\ [Next]_vars => TypeOK'
  <2> SUFFICES ASSUME TypeOK, [Next]_vars PROVE TypeOK'
    OBVIOUS
  <2> USE DEF TypeOK, routerVars, hostVars, clientVars
  <2>1. ASSUME NEW i \in Input, NEW down \in BOOLEAN, HookInput(i, down)
        PROVE  TypeOK'
    <3>1. InputEv(i, down) \in Event /\ InputEv(i, down) \in InputEvents
      BY <2>1 DEF Event, InputEvents, InputEv
    <3> QED BY <2>1, <3>1, EmitType DEF HookInput
  <2>2. CASE HookReturn
    <3>1. hook.input \in Input
      BY <2>2 DEF HookReturn, InputEvents
    <3> QED BY <2>2, <3>1 DEF HookReturn
  <2>3. ASSUME NEW p \in Point, HookMove(p) PROVE TypeOK'
    <3>1. MoveEv(p) \in Event
      BY DEF Event
    <3> QED BY <2>3, <3>1, EmitType DEF HookMove
  <2>4. CASE HookWheel
    <3>1. WheelEv \in Event
      BY DEF Event
    <3> QED BY <2>4, <3>1, EmitType DEF HookWheel
  <2>5. ASSUME NEW i \in Input, HandlePress(i) PROVE TypeOK'
    <3>1. wire' \in [ConnId -> Seq(Frame)]
      BY <2>5, SendTypes, DeliverType DEF HandlePress
    <3> QED BY <2>5, <3>1, TailType DEF HandlePress, Received
  <2>6. ASSUME NEW i \in Input, HandleLift(i) PROVE TypeOK'
    <3>1. wire' \in [ConnId -> Seq(Frame)]
      BY <2>6, SendTypes, DeliverType DEF HandleLift
    <3> QED BY <2>6, <3>1, TailType DEF HandleLift, Received
  <2>7. CASE HandleWheel
    <3>1. wire' \in [ConnId -> Seq(Frame)]
      BY <2>7, SendTypes, DeliverType DEF HandleWheel
    <3> QED BY <2>7, <3>1, TailType DEF HandleWheel, Received
  <2>8. ASSUME NEW p \in Point, HandleMove(p) PROVE TypeOK'
    <3>1. Tail(events) \in Seq(Event) /\ Len(Tail(events)) <= ChanCap
      BY <2>8, TailType DEF HandleMove, Received
    <3>2. ASSUME NEW c \in registered, AcquireGrab(c) PROVE TypeOK'
      <4>1. PICK k \in Orders(held \cap Key) : events' = FedBack(Tail(events), KeyUps(k))
        BY <3>2 DEF AcquireGrab
      <4>2. k \in Seq(Input)
        <5>1. IsFiniteSet(held \cap Key)
          BY FS_Subset, ConstantsAssumption
        <5>2. k \in Seq(held \cap Key)
          BY <5>1, OrdersType
        <5> QED BY <5>2
      <4>3. events' \in Seq(Event) /\ Len(events') <= ChanCap
        BY <3>1, <4>1, <4>2, UpsType, FedBackType
      <4>4. wire' \in [ConnId -> Seq(Frame)]
        BY <3>2, SendTypes, DeliverType DEF AcquireGrab
      <4> QED BY <3>2, <4>3, <4>4 DEF AcquireGrab
    <3>3. ASSUME NEW c \in registered, SwitchGrab(c) PROVE TypeOK'
      <4>1. PICK sweep \in ReleaseSweeps :
              Deliver([Only(active, Append(sweep, GrabOff)) EXCEPT ![c] = <<GrabOn, Motion>>])
        BY <3>3 DEF SwitchGrab
      <4>2. [Only(active, Append(sweep, GrabOff)) EXCEPT ![c] = <<GrabOn, Motion>>]
              \in [ConnId -> Seq(Frame)]
        BY <3>3, SweepType, SendTypes DEF SwitchGrab
      <4>3. wire' \in [ConnId -> Seq(Frame)]
        BY <4>1, <4>2, DeliverType
      <4> QED BY <3>1, <3>3, <4>3 DEF SwitchGrab
    <3>4. CASE ReleaseGrab
      <4>1. wire' \in [ConnId -> Seq(Frame)]
        BY <3>4, SweepType, SendTypes, DeliverType DEF ReleaseGrab
      <4> QED BY <3>1, <3>4, <4>1 DEF ReleaseGrab
    <3>5. CASE KeepGrab
      <4>1. wire' \in [ConnId -> Seq(Frame)]
        BY <3>5, SendTypes, DeliverType DEF KeepGrab
      <4> QED BY <3>1, <3>5, <4>1 DEF KeepGrab
    <3>6. CASE LeaveGrab
      BY <3>1, <3>6 DEF LeaveGrab
    <3> QED BY <2>8, <3>2, <3>3, <3>4, <3>5, <3>6 DEF HandleMove
  <2>9. CASE Stop
    BY <2>9, EmptyTypes DEF Stop
  <2>10. ASSUME NEW c \in ConnId, Register(c) PROVE TypeOK'
    BY <2>10 DEF Register
  <2>11. ASSUME NEW c \in ConnId, Unregister(c) PROVE TypeOK'
    BY <2>11 DEF Unregister
  <2>12. ASSUME NEW c \in ConnId, Break(c) PROVE TypeOK'
    BY <2>12 DEF Break
  <2>13. ASSUME NEW c \in ConnId, CloseOnStop(c) PROVE TypeOK'
    BY <2>13 DEF CloseOnStop
  <2>14. ASSUME NEW c \in ConnId, ClientDispatch(c) PROVE TypeOK'
    <3>1. AfterFrame(clientDown[c], Head(wire[c])) \in SUBSET Input
      BY DEF AfterFrame
    <3>2. Tail(wire[c]) \in Seq(Frame)
      BY <2>14 DEF ClientDispatch
    <3> QED BY <2>14, <3>1, <3>2 DEF ClientDispatch
  <2>15. ASSUME NEW c \in ConnId, ClientEnds(c) PROVE TypeOK'
    BY <2>15 DEF ClientEnds
  <2>16. CASE UNCHANGED vars
    BY <2>16 DEF vars
  <2> QED BY <2>1, <2>2, <2>3, <2>4, <2>5, <2>6, <2>7, <2>8, <2>9, <2>10, <2>11,
             <2>12, <2>13, <2>14, <2>15, <2>16
          DEF Next, HookStep, HandleEvent, ConnStep
<1> QED BY <1>1, <1>2, PTL DEF Spec

-----------------------------------------------------------------------------
(* The hook swallows input exactly while a client is grabbed. *)

\* No grab, release, disconnect or shutdown leaves the server's own input
\* swallowed, or leaks it to the server while a client is grabbed.
THEOREM PassThroughAlways == Spec => []PassThrough
<1>1. Init => PassThrough
  BY DEF Init, PassThrough
<1>2. TypeOK /\ PassThrough /\ [Next]_vars => PassThrough'
  <2> SUFFICES ASSUME TypeOK, PassThrough, [Next]_vars PROVE PassThrough'
    OBVIOUS
  <2> USE ConstantsAssumption DEF TypeOK, PassThrough, routerVars, hostVars, clientVars
  <2>1. CASE HookStep
    BY <2>1 DEF HookStep, HookInput, HookReturn, HookMove, HookWheel
  <2>2. CASE HandleEvent
    <3>1. ASSUME NEW i \in Input, HandlePress(i) \/ HandleLift(i) PROVE PassThrough'
      BY <3>1 DEF HandlePress, HandleLift
    <3>2. CASE HandleWheel
      BY <3>2 DEF HandleWheel
    <3>3. ASSUME NEW p \in Point, HandleMove(p) PROVE PassThrough'
      <4>1. ASSUME NEW c \in registered, AcquireGrab(c) PROVE PassThrough'
        BY <3>3, <4>1 DEF AcquireGrab, HandleMove, Received
      <4>2. ASSUME NEW c \in registered, SwitchGrab(c) PROVE PassThrough'
        BY <4>2 DEF SwitchGrab
      <4>3. CASE ReleaseGrab
        BY <4>3 DEF ReleaseGrab
      <4>4. CASE KeepGrab \/ LeaveGrab
        BY <4>4 DEF KeepGrab, LeaveGrab
      <4> QED BY <3>3, <4>1, <4>2, <4>3, <4>4 DEF HandleMove
    <3> QED BY <2>2, <3>1, <3>2, <3>3 DEF HandleEvent
  <2>3. CASE Stop
    BY <2>3 DEF Stop
  <2>4. ASSUME NEW c \in ConnId, ConnStep(c) PROVE PassThrough'
    BY <2>4 DEF ConnStep, Register, Unregister, Break, CloseOnStop,
                ClientDispatch, ClientEnds
  <2>5. CASE UNCHANGED vars
    BY <2>5 DEF vars
  <2> QED BY <2>1, <2>2, <2>3, <2>4, <2>5 DEF Next
<1> QED BY <1>1, <1>2, TypeCorrect, PTL DEF Spec

-----------------------------------------------------------------------------
(* No input is left latched on a client. *)

\* A press adds one input and a lift removes one.
LEMMA AfterInput ==
  ASSUME NEW d \in SUBSET Input, NEW i \in Input
  PROVE  AfterFrame(d, Down(i)) = d \cup {i} /\ AfterFrame(d, Up(i)) = d \ {i}
<1>1. \A j \in Input :
        /\ Down(i) # Up(j) /\ Down(j) # Up(i) /\ Down(i) # GrabOff /\ Up(i) # GrabOff
        /\ Down(i) = Down(j) <=> i = j
        /\ Up(i) = Up(j) <=> i = j
  BY DEF Down, Up, GrabOff, Signal
<1> QED BY <1>1 DEF AfterFrame

\* How one more frame, or a grab's opening frames, change what c ends up with.
LEMMA DrainedSend ==
  ASSUME NEW down \in SUBSET Input, NEW w \in Seq(Frame)
  PROVE  /\ Drained(down, w \o <<>>) = Drained(down, w)
         /\ Drained(down, w \o <<Motion>>) = Drained(down, w)
         /\ Drained(down, w \o <<GrabOn, Motion>>) = Drained(down, w)
         /\ \A f \in Frame : Drained(down, w \o <<f>>) = AfterFrame(Drained(down, w), f)
<1> DEFINE d == Drained(down, w)
<1>1. /\ Motion \in Frame /\ GrabOn \in Frame
      /\ \A i \in Input : Down(i) \in Frame /\ Up(i) \in Frame
  BY DEF Frame
<1>2. /\ \A i \in Input : Motion \notin {Down(i), Up(i), GrabOff}
      /\ \A i \in Input : GrabOn \notin {Down(i), Up(i), GrabOff}
  BY DEF Down, Up, Motion, GrabOn, GrabOff, Signal
<1>3. d \in SUBSET Input
  BY DEF Drained
<1> HIDE DEF d
<1>4. ASSUME NEW f \in Frame PROVE Drained(down, w \o <<f>>) = AfterFrame(d, f)
  <2>1. w \o <<f>> = Append(w, f)
    OBVIOUS
  <2> QED BY <2>1, DrainedAppend DEF d
<1>5. AfterFrame(d, Motion) = d /\ AfterFrame(d, GrabOn) = d
  BY <1>2, <1>3 DEF AfterFrame
<1>7. Drained(down, w \o <<GrabOn, Motion>>) = d
  <2>1. w \o <<GrabOn, Motion>> = Append(Append(w, GrabOn), Motion)
    BY <1>1
  <2>2. Append(w, GrabOn) \in Seq(Frame)
    BY <1>1
  <2>3. Drained(down, Append(w, GrabOn)) = d
    BY <1>1, <1>5, DrainedAppend DEF d
  <2>4. Drained(down, Append(Append(w, GrabOn), Motion)) = AfterFrame(d, Motion)
    BY <1>1, <2>2, <2>3, DrainedAppend
  <2> QED BY <2>1, <2>4, <1>5
<1>8. w \o <<>> = w
  OBVIOUS
<1> QED BY <1>1, <1>4, <1>5, <1>7, <1>8 DEF d

\* What Deliver does to an open session and to one that is not.
LEMMA DeliverEffect ==
  ASSUME TypeOK, NEW out, Deliver(out), NEW c \in ConnId
  PROVE  wire'[c] = IF session[c] = "open" THEN wire[c] \o out[c] ELSE wire[c]
  BY DEF Deliver

\* A step that touches neither the clients nor the grab keeps the invariant.
LEMMA GhostFrame ==
  ASSUME GhostInv, UNCHANGED <<active, onClient, session, wire, clientDown>>
  PROVE  NoGhostInput' /\ IdleIsEmpty'
  BY DEF GhostInv, NoGhostInput, IdleIsEmpty, Drained

\* A send to open sessions keeps the invariant when it makes every client end
\* up with what the router remembers.
LEMMA GhostSend ==
  ASSUME GhostInv, NEW out, Deliver(out), UNCHANGED <<session, clientDown>>,
         \A c \in ConnId : session[c] = "open" =>
           Drained(clientDown[c], wire[c] \o out[c])
             = IF c = active' THEN onClient' ELSE {}
  PROVE  NoGhostInput' /\ IdleIsEmpty'
<1>1. \A c \in ConnId :
        wire'[c] = IF session[c] = "open" THEN wire[c] \o out[c] ELSE wire[c]
  BY DeliverEffect DEF GhostInv
<1>2. NoGhostInput'
  <2> SUFFICES ASSUME NEW c \in ConnId, session'[c] = "open"
               PROVE  Drained(clientDown'[c], wire'[c]) = IF c = active' THEN onClient' ELSE {}
    BY DEF NoGhostInput, Drained
  <2> QED BY <1>1
<1>3. IdleIsEmpty'
  BY <1>1 DEF GhostInv, IdleIsEmpty
<1> QED BY <1>2, <1>3

\* Once a connected client has read what is in flight it holds exactly what
\* the router forwarded and did not take back: whatever the order of grabs,
\* releases, switches, losses and reconnections, nothing is left latched.
THEOREM NoGhost == Spec => []NoGhostInput
<1>1. Init => GhostInv
  <2> SUFFICES ASSUME Init PROVE GhostInv
    OBVIOUS
  <2>1. TypeOK
    BY EmptyTypes DEF Init, TypeOK
  <2>2. NoGhostInput /\ IdleIsEmpty
    BY DEF Init, NoGhostInput, IdleIsEmpty
  <2> QED BY <2>1, <2>2 DEF GhostInv
<1>2. GhostInv /\ TypeOK' /\ [Next]_vars => GhostInv'
  <2> SUFFICES ASSUME GhostInv, [Next]_vars
               PROVE  NoGhostInput' /\ IdleIsEmpty'
    BY DEF GhostInv
  <2> USE DEF routerVars, hostVars, clientVars
  <2>a. TypeOK /\ NoGhostInput /\ IdleIsEmpty
    BY DEF GhostInv
  <2>b. \A c \in ConnId : wire[c] \in Seq(Frame) /\ clientDown[c] \in SUBSET Input
    BY <2>a DEF TypeOK
  <2>1. CASE HookStep
    BY <2>1, GhostFrame DEF HookStep, HookInput, HookReturn, HookMove, HookWheel
  <2>2. ASSUME NEW i \in Input, HandlePress(i) PROVE NoGhostInput' /\ IdleIsEmpty'
    <3>1. CASE active = NoConn
      <4>1. NoGhostInput'
        BY <2>2, <2>a, <3>1, ConstantsAssumption DEF HandlePress, NoGhostInput, Drained
      <4> QED BY <2>2, <2>a, <3>1, <4>1 DEF HandlePress, IdleIsEmpty
    <3>2. CASE active # NoConn
      <4> DEFINE out == Only(active, <<Down(i)>>)
      <4>1. Deliver(out) /\ UNCHANGED <<session, clientDown, active>>
            /\ onClient' = onClient \cup {i}
        BY <2>2, <3>2 DEF HandlePress
      <4>2. ASSUME NEW c \in ConnId, session[c] = "open"
            PROVE  Drained(clientDown[c], wire[c] \o out[c])
                     = IF c = active' THEN onClient' ELSE {}
        <5>1. Drained(clientDown[c], wire[c]) = IF c = active THEN onClient ELSE {}
          BY <2>a, <4>2 DEF NoGhostInput
        <5>2. Drained(clientDown[c], wire[c] \o <<Down(i)>>) = AfterFrame(Drained(clientDown[c], wire[c]), Down(i))
          <6> HIDE DEF out
          <6>1. Down(i) \in Frame
            BY DEF Frame
          <6> QED BY <2>b, <6>1, DrainedSend
        <5>2a. Drained(clientDown[c], wire[c] \o <<>>) = Drained(clientDown[c], wire[c])
          BY <2>b, DrainedSend
        <5>3. CASE c = active
          <6>1. out[c] = <<Down(i)>>
            BY <5>3 DEF Only
          <6> HIDE DEF out
          <6>2. onClient \in SUBSET Input
            BY <2>a DEF TypeOK
          <6>3. AfterFrame(onClient, Down(i)) = onClient'
            BY <4>1, <6>2, AfterInput
          <6> HIDE DEF out
          <6> QED BY <4>1, <5>1, <5>2, <5>3, <6>1, <6>3
        <5>4. CASE c # active
          <6>1. out[c] = <<>>
            BY <5>4 DEF Only
          <6> HIDE DEF out
          <6> QED BY <4>1, <5>1, <5>2a, <5>4, <6>1
        <5> QED BY <5>3, <5>4
      <4> HIDE DEF out
      <4> QED BY <4>1, <4>2, GhostSend
    <3> QED BY <3>1, <3>2
  <2>3. ASSUME NEW i \in Input, HandleLift(i) PROVE NoGhostInput' /\ IdleIsEmpty'
    <3>1. CASE ~(active # NoConn /\ i \in onClient)
      BY <2>3, <3>1, GhostFrame DEF HandleLift
    <3>2. CASE active # NoConn /\ i \in onClient
      <4> DEFINE out == Only(active, <<Up(i)>>)
      <4>1. Deliver(out) /\ UNCHANGED <<session, clientDown, active>>
            /\ onClient' = onClient \ {i}
        BY <2>3, <3>2 DEF HandleLift
      <4>2. ASSUME NEW c \in ConnId, session[c] = "open"
            PROVE  Drained(clientDown[c], wire[c] \o out[c])
                     = IF c = active' THEN onClient' ELSE {}
        <5>1. Drained(clientDown[c], wire[c]) = IF c = active THEN onClient ELSE {}
          BY <2>a, <4>2 DEF NoGhostInput
        <5>2. Drained(clientDown[c], wire[c] \o <<Up(i)>>) = AfterFrame(Drained(clientDown[c], wire[c]), Up(i))
          <6> HIDE DEF out
          <6>1. Up(i) \in Frame
            BY DEF Frame
          <6> QED BY <2>b, <6>1, DrainedSend
        <5>2a. Drained(clientDown[c], wire[c] \o <<>>) = Drained(clientDown[c], wire[c])
          BY <2>b, DrainedSend
        <5>3. CASE c = active
          <6>1. out[c] = <<Up(i)>>
            BY <5>3 DEF Only
          <6> HIDE DEF out
          <6>2. onClient \in SUBSET Input
            BY <2>a DEF TypeOK
          <6>3. AfterFrame(onClient, Up(i)) = onClient'
            BY <4>1, <6>2, AfterInput
          <6> HIDE DEF out
          <6> QED BY <4>1, <5>1, <5>2, <5>3, <6>1, <6>3
        <5>4. CASE c # active
          <6>1. out[c] = <<>>
            BY <5>4 DEF Only
          <6> HIDE DEF out
          <6> QED BY <4>1, <5>1, <5>2a, <5>4, <6>1
        <5> QED BY <5>3, <5>4
      <4> HIDE DEF out
      <4> QED BY <4>1, <4>2, GhostSend
    <3> QED BY <3>1, <3>2
  <2>4. ASSUME HandleWheel \/ KeepGrab PROVE NoGhostInput' /\ IdleIsEmpty'
    <3>1. CASE active = NoConn
      BY <2>4, <3>1, GhostFrame DEF HandleWheel, KeepGrab
    <3>2. CASE active # NoConn
      <4> DEFINE out == Only(active, <<Motion>>)
      <4>1. Deliver(out) /\ UNCHANGED <<session, clientDown, active, onClient>>
        BY <2>4, <3>2 DEF HandleWheel, KeepGrab
      <4>2. ASSUME NEW c \in ConnId, session[c] = "open"
            PROVE  Drained(clientDown[c], wire[c] \o out[c])
                     = IF c = active' THEN onClient' ELSE {}
        <5>1. Drained(clientDown[c], wire[c]) = IF c = active THEN onClient ELSE {}
          BY <2>a, <4>2 DEF NoGhostInput
        <5>2. /\ Drained(clientDown[c], wire[c] \o <<Motion>>) = Drained(clientDown[c], wire[c])
              /\ Drained(clientDown[c], wire[c] \o <<>>) = Drained(clientDown[c], wire[c])
          BY <2>b, DrainedSend
        <5>3. CASE c = active
          <6>1. out[c] = <<Motion>>
            BY <5>3 DEF Only
          <6> HIDE DEF out
          <6> QED BY <4>1, <5>1, <5>2, <5>3, <6>1
        <5>4. CASE c # active
          <6>1. out[c] = <<>>
            BY <5>4 DEF Only
          <6> HIDE DEF out
          <6> QED BY <4>1, <5>1, <5>2, <5>4, <6>1
        <5> QED BY <5>3, <5>4
      <4> HIDE DEF out
      <4> QED BY <4>1, <4>2, GhostSend
    <3> QED BY <3>1, <3>2
  <2>5. ASSUME NEW t \in registered, AcquireGrab(t) PROVE NoGhostInput' /\ IdleIsEmpty'
    <3> DEFINE out == Only(t, <<GrabOn, Motion>>)
    <3>1. Deliver(out) /\ UNCHANGED <<session, clientDown>> /\ active = NoConn
          /\ active' = t /\ onClient' = {}
      BY <2>5 DEF AcquireGrab
    <3>2. ASSUME NEW c \in ConnId, session[c] = "open"
          PROVE  Drained(clientDown[c], wire[c] \o out[c])
                   = IF c = active' THEN onClient' ELSE {}
      <4>1. Drained(clientDown[c], wire[c]) = {}
        BY <2>a, <3>1, <3>2, ConstantsAssumption DEF NoGhostInput
      <4>2. /\ Drained(clientDown[c], wire[c] \o <<GrabOn, Motion>>) = {}
            /\ Drained(clientDown[c], wire[c] \o <<>>) = {}
        BY <2>b, <4>1, DrainedSend
      <4>3. out[c] = <<GrabOn, Motion>> \/ out[c] = <<>>
        BY DEF Only
      <4> HIDE DEF out
      <4> QED BY <3>1, <4>2, <4>3
    <3> HIDE DEF out
    <3> QED BY <3>1, <3>2, GhostSend
  <2>6. ASSUME NEW t \in registered, SwitchGrab(t) PROVE NoGhostInput' /\ IdleIsEmpty'
    <3>1. PICK sweep \in ReleaseSweeps :
            Deliver([Only(active, Append(sweep, GrabOff)) EXCEPT ![t] = <<GrabOn, Motion>>])
      BY <2>6 DEF SwitchGrab
    <3> DEFINE out == [Only(active, Append(sweep, GrabOff)) EXCEPT ![t] = <<GrabOn, Motion>>]
    <3>2. Deliver(out) /\ UNCHANGED <<session, clientDown>>
          /\ active' = t /\ onClient' = {} /\ active # t /\ t \in ConnId
      BY <2>6, <2>a, <3>1 DEF SwitchGrab, TypeOK
    <3>3. ASSUME NEW c \in ConnId, session[c] = "open"
          PROVE  Drained(clientDown[c], wire[c] \o out[c])
                   = IF c = active' THEN onClient' ELSE {}
      <4>1. Drained(clientDown[c], wire[c]) = IF c = active THEN onClient ELSE {}
        BY <2>a, <3>3 DEF NoGhostInput
      <4>2. out[c] = IF c = t THEN <<GrabOn, Motion>>
                     ELSE IF c = active THEN Append(sweep, GrabOff) ELSE <<>>
        BY <3>2 DEF Only
      <4>3. sweep \in Seq(Frame)
        BY <2>a, SweepType
      <4> HIDE DEF out
      <4>4. CASE c = t
        <5>1. Drained(clientDown[c], wire[c] \o <<GrabOn, Motion>>) = {}
          BY <2>b, <3>2, <4>1, <4>4, DrainedSend
        <5> QED BY <3>2, <4>2, <4>4, <5>1
      <4>5. CASE c = active
        BY <2>b, <3>2, <4>2, <4>3, <4>5, DrainedGrabOff
      <4>6. CASE c # t /\ c # active
        <5>1. Drained(clientDown[c], wire[c] \o <<>>) = {}
          BY <2>b, <4>1, <4>6, DrainedSend
        <5> QED BY <3>2, <4>2, <4>6, <5>1
      <4> QED BY <4>4, <4>5, <4>6
    <3> HIDE DEF out
    <3> QED BY <3>2, <3>3, GhostSend
  <2>7. ASSUME ReleaseGrab PROVE NoGhostInput' /\ IdleIsEmpty'
    <3>1. PICK sweep \in ReleaseSweeps : Deliver(Only(active, Append(sweep, GrabOff)))
      BY <2>7 DEF ReleaseGrab
    <3> DEFINE out == Only(active, Append(sweep, GrabOff))
    <3>2. Deliver(out) /\ UNCHANGED <<session, clientDown>>
          /\ active' = NoConn /\ onClient' = {}
      BY <2>7, <3>1 DEF ReleaseGrab
    <3>3. ASSUME NEW c \in ConnId, session[c] = "open"
          PROVE  Drained(clientDown[c], wire[c] \o out[c])
                   = IF c = active' THEN onClient' ELSE {}
      <4>1. Drained(clientDown[c], wire[c]) = IF c = active THEN onClient ELSE {}
        BY <2>a, <3>3 DEF NoGhostInput
      <4>2. out[c] = IF c = active THEN Append(sweep, GrabOff) ELSE <<>>
        BY DEF Only
      <4>3. sweep \in Seq(Frame)
        BY <2>a, SweepType
      <4>4. CASE c = active
        BY <2>b, <3>2, <4>2, <4>3, <4>4, DrainedGrabOff
      <4>5. CASE c # active
        BY <2>b, <3>2, <4>1, <4>2, <4>5, DrainedSend
      <4> QED BY <4>4, <4>5
    <3> HIDE DEF out
    <3> QED BY <3>2, <3>3, GhostSend
  <2>8. CASE HandleEvent
    BY <2>8, <2>2, <2>3, <2>4, <2>5, <2>6, <2>7, GhostFrame
    DEF HandleEvent, HandleMove, LeaveGrab
  <2>9. CASE Stop
    BY <2>9, GhostFrame DEF Stop
  <2>10. ASSUME NEW t \in ConnId, Register(t) PROVE NoGhostInput' /\ IdleIsEmpty'
    <3>1. session' = [session EXCEPT ![t] = "open"] /\ session[t] = "closed"
          /\ UNCHANGED <<active, onClient, wire, clientDown>> /\ t # active
      BY <2>10, <2>a, ConstantsAssumption DEF Register, TypeOK
    <3>2. Drained(clientDown[t], wire[t]) = {}
      BY <2>a, <3>1, DrainedEmpty DEF IdleIsEmpty
    <3>3. NoGhostInput'
      BY <2>a, <3>1, <3>2 DEF NoGhostInput, TypeOK, Drained
    <3> QED BY <2>a, <3>1, <3>3 DEF IdleIsEmpty, TypeOK
  <2>11. ASSUME NEW t \in ConnId, Unregister(t) PROVE NoGhostInput' /\ IdleIsEmpty'
    <3>1. session' = [session EXCEPT ![t] = IF @ = "open" THEN "broken" ELSE @]
          /\ UNCHANGED <<wire, clientDown>>
          /\ (active # t => UNCHANGED <<active, onClient>>)
          /\ (active = t => active' = NoConn)
      BY <2>11 DEF Unregister
    <3>2. NoGhostInput'
      <4> SUFFICES ASSUME NEW c \in ConnId, session'[c] = "open"
                   PROVE  Drained(clientDown'[c], wire'[c]) = IF c = active' THEN onClient' ELSE {}
        BY DEF NoGhostInput, Drained
      <4>1. c # t /\ session[c] = "open"
        BY <2>a, <3>1 DEF TypeOK
      <4>2. Drained(clientDown[c], wire[c]) = IF c = active THEN onClient ELSE {}
        BY <2>a, <4>1 DEF NoGhostInput
      <4> QED BY <3>1, <4>1, <4>2, ConstantsAssumption
    <3>3. IdleIsEmpty'
      BY <2>a, <3>1 DEF IdleIsEmpty, TypeOK
    <3> QED BY <3>2, <3>3
  <2>12. ASSUME NEW t \in ConnId, Break(t) \/ CloseOnStop(t)
         PROVE  NoGhostInput' /\ IdleIsEmpty'
    <3>1. session' = [session EXCEPT ![t] = "broken"]
          /\ UNCHANGED <<active, onClient, clientDown>>
          /\ \A c \in ConnId : c # t => wire'[c] = wire[c]
      BY <2>12, <2>a DEF Break, CloseOnStop, TypeOK
    <3>2. \A c \in ConnId : session'[c] # "broken" => c # t /\ session'[c] = session[c]
      BY <2>a, <3>1 DEF TypeOK
    <3>3. NoGhostInput'
      <4> SUFFICES ASSUME NEW c \in ConnId, session'[c] = "open"
                   PROVE  Drained(clientDown'[c], wire'[c]) = IF c = active' THEN onClient' ELSE {}
        BY DEF NoGhostInput, Drained
      <4>1. c # t /\ session[c] = "open" /\ wire'[c] = wire[c]
        BY <3>1, <3>2
      <4> QED BY <2>a, <3>1, <4>1 DEF NoGhostInput
    <3>4. IdleIsEmpty'
      BY <2>a, <3>1, <3>2 DEF IdleIsEmpty
    <3> QED BY <3>3, <3>4
  <2>13. ASSUME NEW t \in ConnId, ClientDispatch(t) PROVE NoGhostInput' /\ IdleIsEmpty'
    <3>1. /\ session[t] # "closed" /\ wire[t] # <<>>
          /\ clientDown' = [clientDown EXCEPT ![t] = AfterFrame(clientDown[t], Head(wire[t]))]
          /\ wire' = [wire EXCEPT ![t] = Tail(wire[t])]
          /\ UNCHANGED <<active, onClient, session>>
      BY <2>13 DEF ClientDispatch
    <3>2. NoGhostInput'
      <4> SUFFICES ASSUME NEW c \in ConnId, session'[c] = "open"
                   PROVE  Drained(clientDown'[c], wire'[c]) = IF c = active' THEN onClient' ELSE {}
        BY DEF NoGhostInput, Drained
      <4>1. Drained(clientDown'[c], wire'[c]) = Drained(clientDown[c], wire[c])
        <5>1. CASE c = t
          <6>1. clientDown'[c] = AfterFrame(clientDown[c], Head(wire[c])) /\ wire'[c] = Tail(wire[c])
            BY <2>a, <3>1, <5>1 DEF TypeOK
          <6> QED BY <2>b, <3>1, <5>1, <6>1, DrainedRead
        <5>2. CASE c # t
          BY <2>a, <3>1, <5>2 DEF TypeOK
        <5> QED BY <5>1, <5>2
      <4> QED BY <2>a, <3>1, <4>1 DEF NoGhostInput
    <3>3. IdleIsEmpty'
      BY <2>a, <3>1 DEF IdleIsEmpty, TypeOK
    <3> QED BY <3>2, <3>3
  <2>14. ASSUME NEW t \in ConnId, ClientEnds(t) PROVE NoGhostInput' /\ IdleIsEmpty'
    <3>1. /\ session' = [session EXCEPT ![t] = "closed"]
          /\ wire' = [wire EXCEPT ![t] = <<>>]
          /\ clientDown' = [clientDown EXCEPT ![t] = {}]
          /\ UNCHANGED <<active, onClient>>
      BY <2>14 DEF ClientEnds
    <3>2. \A c \in ConnId :
            IF c = t THEN session'[c] = "closed" /\ wire'[c] = <<>> /\ clientDown'[c] = {}
            ELSE session'[c] = session[c] /\ wire'[c] = wire[c] /\ clientDown'[c] = clientDown[c]
      BY <2>a, <3>1 DEF TypeOK
    <3>3. NoGhostInput'
      <4> SUFFICES ASSUME NEW c \in ConnId, session'[c] = "open"
                   PROVE  Drained(clientDown'[c], wire'[c]) = IF c = active' THEN onClient' ELSE {}
        BY DEF NoGhostInput, Drained
      <4>1. c # t
        BY <3>2
      <4> QED BY <2>a, <3>1, <3>2, <4>1 DEF NoGhostInput
    <3>4. IdleIsEmpty'
      BY <2>a, <3>2 DEF IdleIsEmpty
    <3> QED BY <3>3, <3>4
  <2>15. CASE UNCHANGED vars
    BY <2>15, GhostFrame DEF vars
  <2> QED BY <2>1, <2>8, <2>9, <2>10, <2>11, <2>12, <2>13, <2>14, <2>15 DEF Next, ConnStep
<1>3. GhostInv => NoGhostInput
  BY DEF GhostInv
<1> QED BY <1>1, <1>2, <1>3, TypeCorrect, PTL DEF Spec
-----------------------------------------------------------------------------
(* Every frame a client reads is one it may read: lemmas. *)

\* What a frame makes of a client's grab, as in ClientDispatch.
AfterGrab(grab, f) ==
  IF f.kind = "grabOn" THEN TRUE ELSE IF f.kind = "grabOff" THEN FALSE ELSE grab

\* The two signals of a grab are told by their kinds.
LEMMA SignalFacts ==
  /\ \A f \in Frame : f = GrabOn <=> f.kind = "grabOn"
  /\ \A f \in Frame : f = GrabOff <=> f.kind = "grabOff"
  /\ GrabOn \in Frame /\ GrabOff \in Frame /\ Motion \in Frame
  /\ GrabOn.kind = "grabOn" /\ GrabOff.kind = "grabOff" /\ Motion.kind = "motion"
  /\ \A i \in Input : Up(i) \in Frame /\ Down(i) \in Frame
  /\ \A i \in Input : Up(i).kind = "up" /\ Up(i).input = i /\ Down(i).kind = "down"
<1> USE DEF GrabOn, GrabOff, Motion, Signal, Down, Up
<1>1. /\ GrabOn \in Frame /\ GrabOff \in Frame /\ Motion \in Frame
      /\ \A i \in Input : Up(i) \in Frame /\ Down(i) \in Frame
  BY DEF Frame
<1>2. /\ GrabOn.kind = "grabOn" /\ GrabOff.kind = "grabOff" /\ Motion.kind = "motion"
      /\ \A i \in Input : Up(i).kind = "up" /\ Up(i).input = i /\ Down(i).kind = "down"
  OBVIOUS
<1>3. \A f \in Frame : f.kind = "grabOn" => f = GrabOn
  BY DEF Frame
<1>4. \A f \in Frame : f.kind = "grabOff" => f = GrabOff
  BY DEF Frame
<1> HIDE DEF GrabOn, GrabOff, Motion, Signal, Down, Up
<1> QED BY <1>1, <1>2, <1>3, <1>4

\* A client without frames in flight is grabbed if it was.
LEMMA GrabbedEmpty ==
  ASSUME NEW grab \in BOOLEAN
  PROVE  GrabbedAfter(grab, <<>>) <=> grab
  BY DEF GrabbedAfter

\* A frame that is sent takes effect after all the frames before it.
LEMMA GrabbedAppend ==
  ASSUME NEW grab \in BOOLEAN, NEW w \in Seq(Frame), NEW f \in Frame
  PROVE  GrabbedAfter(grab, Append(w, f)) <=> AfterGrab(GrabbedAfter(grab, w), f)
<1> DEFINE v == Append(w, f)
<1>1. /\ Len(v) = Len(w) + 1 /\ v[Len(w) + 1] = f
      /\ DOMAIN v = 1..(Len(w) + 1) /\ DOMAIN w = 1..Len(w) /\ Len(w) \in Nat
      /\ \A n \in 1..Len(w) : v[n] = w[n] /\ w[n] \in Frame
  OBVIOUS
<1> HIDE DEF v
<1>2. CASE f = GrabOn
  <2>1. f # GrabOff
    BY <1>2, SignalFacts
  <2>2. GrabbedAfter(grab, v)
    BY <1>1, <1>2, <2>1 DEF GrabbedAfter
  <2> QED BY <1>2, <2>2, SignalFacts DEF AfterGrab, v
<1>3. CASE f = GrabOff
  <2>1. f # GrabOn
    BY <1>3, SignalFacts
  <2>2. ~GrabbedAfter(grab, v)
    BY <1>1, <1>3, <2>1 DEF GrabbedAfter
  <2> QED BY <1>3, <2>1, <2>2, SignalFacts DEF AfterGrab, v
<1>4. CASE f # GrabOn /\ f # GrabOff
  <2>1. GrabbedAfter(grab, v) <=> GrabbedAfter(grab, w)
    BY <1>1, <1>4 DEF GrabbedAfter
  <2> QED BY <1>4, <2>1, SignalFacts DEF AfterGrab, v
<1> QED BY <1>2, <1>3, <1>4

\* Reading the first frame does not change whether the client ends up grabbed.
LEMMA GrabbedRead ==
  ASSUME NEW grab \in BOOLEAN, NEW w \in Seq(Frame), w # <<>>
  PROVE  GrabbedAfter(AfterGrab(grab, Head(w)), Tail(w)) <=> GrabbedAfter(grab, w)
<1> DEFINE f == Head(w)
           v == Tail(w)
<1>1. /\ Len(w) \in Nat \ {0} /\ DOMAIN w = 1..Len(w) /\ f = w[1] /\ f \in Frame
      /\ DOMAIN v = 1..(Len(w) - 1)
      /\ \A n \in 1..(Len(w) - 1) : v[n] = w[n + 1]
      /\ \A n \in 2..Len(w) : n - 1 \in 1..(Len(w) - 1) /\ w[n] = v[n - 1]
  OBVIOUS
<1> HIDE DEF f, v
<1>2. (\A m \in DOMAIN v : v[m] # GrabOff) <=> \A m \in DOMAIN w : m > 1 => w[m] # GrabOff
  <2>1. ASSUME \A m \in DOMAIN v : v[m] # GrabOff, NEW m \in DOMAIN w, m > 1
        PROVE  w[m] # GrabOff
    BY <1>1, <2>1
  <2>2. ASSUME \A m \in DOMAIN w : m > 1 => w[m] # GrabOff, NEW m \in DOMAIN v
        PROVE  v[m] # GrabOff
    <3>1. m + 1 \in DOMAIN w /\ m + 1 > 1 /\ v[m] = w[m + 1]
      BY <1>1
    <3> QED BY <2>2, <3>1
  <2> QED BY <2>1, <2>2
<1>3. ASSUME NEW n \in DOMAIN v
      PROVE  (v[n] = GrabOn /\ \A m \in DOMAIN v : m > n => v[m] # GrabOff)
             <=> (w[n + 1] = GrabOn /\ \A m \in DOMAIN w : m > n + 1 => w[m] # GrabOff)
  <2>1. ASSUME \A m \in DOMAIN v : m > n => v[m] # GrabOff, NEW m \in DOMAIN w, m > n + 1
        PROVE  w[m] # GrabOff
    <3>1. m - 1 \in DOMAIN v /\ m - 1 > n /\ w[m] = v[m - 1]
      BY <1>1, <2>1
    <3> QED BY <2>1, <3>1
  <2>2. ASSUME \A m \in DOMAIN w : m > n + 1 => w[m] # GrabOff, NEW m \in DOMAIN v, m > n
        PROVE  v[m] # GrabOff
    <3>1. m + 1 \in DOMAIN w /\ m + 1 > n + 1 /\ v[m] = w[m + 1]
      BY <1>1, <2>2
    <3> QED BY <2>2, <3>1
  <2>3. v[n] = w[n + 1]
    BY <1>1
  <2> QED BY <2>1, <2>2, <2>3
<1>4. GrabOn # GrabOff
  BY SignalFacts
<1> DEFINE LastOn(n) == w[n] = GrabOn /\ \A m \in DOMAIN w : m > n => w[m] # GrabOff
           Rest == \A m \in DOMAIN w : m > 1 => w[m] # GrabOff
<1>5. GrabbedAfter(grab, w) <=> (\E n \in DOMAIN w : LastOn(n)) \/ (grab /\ f # GrabOff /\ Rest)
  BY <1>1 DEF GrabbedAfter
<1>6. GrabbedAfter(AfterGrab(grab, f), v)
        <=> (\E n \in DOMAIN v : LastOn(n + 1)) \/ (AfterGrab(grab, f) /\ Rest)
  BY <1>2, <1>3 DEF GrabbedAfter
<1>7. AfterGrab(grab, f) <=> f = GrabOn \/ (grab /\ f # GrabOff)
  BY <1>1, SignalFacts DEF AfterGrab
<1>8. LastOn(1) <=> f = GrabOn /\ Rest
  BY <1>1
<1>9. (\E n \in DOMAIN w : LastOn(n)) <=> LastOn(1) \/ \E n \in DOMAIN v : LastOn(n + 1)
  <2>1. ASSUME NEW n \in DOMAIN w, LastOn(n), n # 1
        PROVE  \E k \in DOMAIN v : LastOn(k + 1)
    <3>1. n - 1 \in DOMAIN v /\ (n - 1) + 1 = n
      BY <1>1, <2>1
    <3> HIDE DEF LastOn
    <3> QED BY <2>1, <3>1
  <2>2. ASSUME NEW n \in DOMAIN v, LastOn(n + 1)
        PROVE  \E k \in DOMAIN w : LastOn(k)
    <3>1. n + 1 \in DOMAIN w
      BY <1>1
    <3> HIDE DEF LastOn
    <3> QED BY <2>2, <3>1
  <2>3. 1 \in DOMAIN w
    BY <1>1
  <2> HIDE DEF LastOn
  <2> QED BY <2>1, <2>2, <2>3
<1> HIDE DEF LastOn, Rest
<1> QED BY <1>5, <1>6, <1>7, <1>8, <1>9 DEF f, v

\* Frames that do not end a grab leave it.
LEMMA SweepKeepsGrab ==
  ASSUME NEW w \in Seq(Frame), NEW s \in Seq(Frame), \A m \in DOMAIN s : s[m] # GrabOff,
         NEW grab \in BOOLEAN, GrabbedAfter(grab, w)
  PROVE  GrabbedAfter(grab, w \o s)
<1> DEFINE v == w \o s
<1>1. /\ DOMAIN w = 1..Len(w) /\ Len(w) \in Nat /\ DOMAIN v = 1..(Len(w) + Len(s))
      /\ Len(s) \in Nat /\ DOMAIN s = 1..Len(s)
      /\ \A n \in DOMAIN w : v[n] = w[n]
      /\ \A n \in DOMAIN v : n > Len(w) => n - Len(w) \in DOMAIN s /\ v[n] = s[n - Len(w)]
  OBVIOUS
<1> HIDE DEF v
<1>2. \A n \in DOMAIN v : v[n] = GrabOff => n \in DOMAIN w /\ w[n] = GrabOff
  BY <1>1
<1>3. \A n \in DOMAIN w : n \in DOMAIN v
  BY <1>1
<1> QED BY <1>1, <1>2, <1>3 DEF GrabbedAfter, v

\* Frames that do not end the hold of an input leave it.
LEMMA SweepKeepsHeld ==
  ASSUME NEW w \in Seq(Frame), NEW s \in Seq(Frame), NEW down \in SUBSET Input,
         NEW i \in Drained(down, w),
         \A m \in DOMAIN s : s[m] # GrabOff /\ s[m] # Up(i)
  PROVE  i \in Drained(down, w \o s)
<1> DEFINE v == w \o s
<1>1. /\ DOMAIN w = 1..Len(w) /\ Len(w) \in Nat /\ DOMAIN v = 1..(Len(w) + Len(s))
      /\ Len(s) \in Nat /\ DOMAIN s = 1..Len(s)
      /\ \A n \in DOMAIN w : v[n] = w[n]
      /\ \A n \in DOMAIN v : n > Len(w) => n - Len(w) \in DOMAIN s /\ v[n] = s[n - Len(w)]
  OBVIOUS
<1> HIDE DEF v
<1>2. \A n \in DOMAIN v : v[n] \in {Up(i), GrabOff} => n \in DOMAIN w /\ w[n] \in {Up(i), GrabOff}
  BY <1>1
<1>3. \A n \in DOMAIN w : n \in DOMAIN v
  BY <1>1
<1> QED BY <1>1, <1>2, <1>3 DEF Drained, v

-----------------------------------------------------------------------------
(* Every frame a client reads is one it may read: the wire. *)

\* A frame that may be read after w may be sent after it.
LEMMA WellSentAppend ==
  ASSUME NEW down \in SUBSET Input, NEW grab \in BOOLEAN, NEW w \in Seq(Frame),
         NEW f \in Frame, WellSent(down, grab, w),
         IsInputFrame(f) => GrabbedAfter(grab, w),
         f.kind = "up" => f.input \in Drained(down, w)
  PROVE  WellSent(down, grab, Append(w, f))
<1> DEFINE v == Append(w, f)
<1>1. /\ DOMAIN v = 1..(Len(w) + 1) /\ DOMAIN w = 1..Len(w) /\ Len(w) \in Nat
      /\ v[Len(w) + 1] = f /\ \A n \in 1..Len(w) : v[n] = w[n]
  OBVIOUS
<1>2. \A n \in 1..(Len(w) + 1) : SubSeq(v, 1, n - 1) = SubSeq(w, 1, n - 1)
  OBVIOUS
<1>3. SubSeq(w, 1, (Len(w) + 1) - 1) = w
  OBVIOUS
<1> HIDE DEF v
<1> SUFFICES ASSUME NEW n \in DOMAIN v
             PROVE  /\ IsInputFrame(v[n]) => GrabbedAfter(grab, SubSeq(v, 1, n - 1))
                    /\ v[n].kind = "up" => v[n].input \in Drained(down, SubSeq(v, 1, n - 1))
  BY DEF WellSent, v
<1>4. CASE n \in DOMAIN w
  BY <1>1, <1>2, <1>4 DEF WellSent
<1>5. CASE n = Len(w) + 1
  BY <1>1, <1>2, <1>3, <1>5
<1> QED BY <1>1, <1>4, <1>5

\* What is left after the first frame is well sent to who has read it.
LEMMA WellSentRead ==
  ASSUME NEW down \in SUBSET Input, NEW grab \in BOOLEAN, NEW w \in Seq(Frame),
         w # <<>>, WellSent(down, grab, w)
  PROVE  WellSent(AfterFrame(down, Head(w)), AfterGrab(grab, Head(w)), Tail(w))
<1> DEFINE v == Tail(w)
<1>1. /\ DOMAIN v = 1..(Len(w) - 1) /\ DOMAIN w = 1..Len(w) /\ Len(w) \in Nat \ {0}
      /\ \A n \in 1..(Len(w) - 1) : v[n] = w[n + 1]
  OBVIOUS
<1> SUFFICES ASSUME NEW n \in DOMAIN v
             PROVE  /\ IsInputFrame(v[n]) =>
                         GrabbedAfter(AfterGrab(grab, Head(w)), SubSeq(v, 1, n - 1))
                    /\ v[n].kind = "up" =>
                         v[n].input \in Drained(AfterFrame(down, Head(w)), SubSeq(v, 1, n - 1))
  BY DEF WellSent
<1> DEFINE u == SubSeq(w, 1, n)
<1>2. n \in Nat \ {0} /\ n <= Len(w) /\ n + 1 \in DOMAIN w /\ v[n] = w[n + 1]
  BY <1>1
<1>3. u \in Seq(Frame) /\ u # <<>> /\ Head(u) = Head(w)
  BY <1>1, <1>2
<1>4. Tail(u) = SubSeq(v, 1, n - 1)
  BY <1>1, <1>2
<1>5. SubSeq(w, 1, (n + 1) - 1) = u
  BY <1>2
<1>6. /\ IsInputFrame(w[n + 1]) => GrabbedAfter(grab, u)
      /\ w[n + 1].kind = "up" => w[n + 1].input \in Drained(down, u)
  BY <1>2, <1>5 DEF WellSent
<1> HIDE DEF u, v
<1>7. /\ GrabbedAfter(AfterGrab(grab, Head(w)), SubSeq(v, 1, n - 1)) <=> GrabbedAfter(grab, u)
      /\ Drained(AfterFrame(down, Head(w)), SubSeq(v, 1, n - 1)) = Drained(down, u)
  BY <1>3, <1>4, GrabbedRead, DrainedRead
<1> QED BY <1>2, <1>6, <1>7

\* A lost suffix takes nothing from what is left.
LEMMA WellSentCut ==
  ASSUME NEW down, NEW grab, NEW w \in Seq(Frame), WellSent(down, grab, w),
         NEW n \in 0..Len(w)
  PROVE  WellSent(down, grab, SubSeq(w, 1, n))
<1> DEFINE u == SubSeq(w, 1, n)
<1>1. DOMAIN u = 1..n /\ DOMAIN w = 1..Len(w) /\ \A m \in 1..n : u[m] = w[m] /\ m \in 1..Len(w)
  OBVIOUS
<1>2. \A m \in 1..n : SubSeq(u, 1, m - 1) = SubSeq(w, 1, m - 1)
  OBVIOUS
<1> HIDE DEF u
<1> QED BY <1>1, <1>2 DEF WellSent, u

\* What comes before an element of the second half of a concatenation.
LEMMA BeforeInSecond ==
  ASSUME NEW w \in Seq(Frame), NEW s \in Seq(Frame), NEW k \in 1..Len(s)
  PROVE  SubSeq(w \o s, 1, (Len(w) + k) - 1) = w \o SubSeq(s, 1, k - 1)
<1> DEFINE a == SubSeq(w \o s, 1, (Len(w) + k) - 1)
           b == w \o SubSeq(s, 1, k - 1)
<1>1. Len(w) \in Nat /\ Len(s) \in Nat /\ k \in Nat /\ k <= Len(s) /\ k >= 1
  OBVIOUS
<1>2. a \in Seq(Frame) /\ Len(a) = (Len(w) + k) - 1
  BY <1>1
<1>3. b \in Seq(Frame) /\ Len(b) = (Len(w) + k) - 1
  BY <1>1
<1>4. \A m \in 1..((Len(w) + k) - 1) : a[m] = b[m]
  BY <1>1
<1> HIDE DEF a, b
<1>5. a = b
  BY <1>2, <1>3, <1>4, SeqEqual
<1> QED BY <1>5 DEF a, b

\* The elements of a concatenation.
LEMMA ConcatParts ==
  ASSUME NEW w \in Seq(Frame), NEW s \in Seq(Frame)
  PROVE  /\ DOMAIN (w \o s) = 1..(Len(w) + Len(s))
         /\ \A n \in 1..(Len(w) + Len(s)) :
              (w \o s)[n] = IF n <= Len(w) THEN w[n] ELSE s[n - Len(w)]
  OBVIOUS

\* An element appended to a concatenation is appended to its second half.
LEMMA ConcatAppend ==
  ASSUME NEW w \in Seq(Frame), NEW s \in Seq(Frame), NEW f \in Frame
  PROVE  w \o s \in Seq(Frame) /\ w \o Append(s, f) = Append(w \o s, f)
  OBVIOUS

\* A sweep sends one UP for each of some inputs that the client holds.
LEMMA WellSentSweep ==
  ASSUME NEW down \in SUBSET Input, NEW grab \in BOOLEAN, NEW w \in Seq(Frame),
         WellSent(down, grab, w), GrabbedAfter(grab, w),
         NEW s \in Seq(Frame),
         \A n \in DOMAIN s : \E i \in Drained(down, w) : s[n] = Up(i),
         \A m, n \in DOMAIN s : s[m] = s[n] => m = n
  PROVE  WellSent(down, grab, w \o s)
<1> DEFINE v == w \o s
<1>1. /\ DOMAIN v = 1..(Len(w) + Len(s)) /\ DOMAIN w = 1..Len(w) /\ DOMAIN s = 1..Len(s)
      /\ Len(w) \in Nat /\ Len(s) \in Nat /\ \A n \in DOMAIN w : v[n] = w[n]
  OBVIOUS
<1>2. SUFFICES ASSUME NEW n \in DOMAIN v
               PROVE  /\ IsInputFrame(v[n]) => GrabbedAfter(grab, SubSeq(v, 1, n - 1))
                      /\ v[n].kind = "up" => v[n].input \in Drained(down, SubSeq(v, 1, n - 1))
  BY DEF WellSent
<1>3. CASE n \in DOMAIN w
  <2>1. SubSeq(v, 1, n - 1) = SubSeq(w, 1, n - 1)
    BY <1>3
  <2> QED BY <1>1, <1>3, <2>1 DEF WellSent
<1>4. CASE n \notin DOMAIN w
  <2>1. PICK k \in DOMAIN s : n = Len(w) + k /\ v[n] = s[k]
    <3>1. n - Len(w) \in DOMAIN s /\ n = Len(w) + (n - Len(w)) /\ v[n] = s[n - Len(w)]
      BY <1>1, <1>4
    <3> QED BY <3>1
  <2> DEFINE t == SubSeq(s, 1, k - 1)
  <2>2. SubSeq(v, 1, n - 1) = w \o t
    <3>1. k \in 1..Len(s) /\ n - 1 = (Len(w) + k) - 1
      BY <1>1, <2>1
    <3>2. SubSeq(w \o s, 1, (Len(w) + k) - 1) = w \o SubSeq(s, 1, k - 1)
      BY <3>1, BeforeInSecond
    <3> QED BY <3>1, <3>2
  <2>3. t \in Seq(Frame) /\ DOMAIN t = 1..(k - 1)
        /\ \A m \in DOMAIN t : t[m] = s[m] /\ m \in DOMAIN s /\ m # k
    BY <1>1, <2>1
  <2> HIDE DEF v, t
  <2>4. PICK i \in Drained(down, w) : s[k] = Up(i)
    BY <2>1
  <2>5. i \in Input /\ s[k].input = i
    BY <2>4, SignalFacts DEF Drained
  <2>6. \A m \in DOMAIN t : t[m] # GrabOff /\ t[m] # Up(i)
    <3>1. \A j \in Input : Up(j) # GrabOff
      BY SignalFacts
    <3> QED BY <2>1, <2>3, <2>4, <3>1 DEF Drained
  <2>7. GrabbedAfter(grab, w \o t)
    <3>1. t \in Seq(Frame) /\ \A m \in DOMAIN t : t[m] # GrabOff
      BY <2>3, <2>6
    <3> QED BY <3>1, SweepKeepsGrab, Zenon
  <2>8. i \in Drained(down, w \o t)
    BY <2>3, <2>4, <2>5, <2>6, SweepKeepsHeld
  <2> QED BY <2>1, <2>2, <2>4, <2>5, <2>7, <2>8
<1> QED BY <1>3, <1>4

\* The sweep of a release lists what the client was sent, once.
LEMMA SweepLists ==
  ASSUME TypeOK, NEW sweep \in ReleaseSweeps
  PROVE  /\ \A n \in DOMAIN sweep : \E i \in onClient : sweep[n] = Up(i)
         /\ \A m, n \in DOMAIN sweep : sweep[m] = sweep[n] => m = n
<1> DEFINE B == onClient \cap Button
           K == onClient \cap Key
<1>1. IsFiniteSet(B) /\ IsFiniteSet(K)
  BY FS_Subset, ConstantsAssumption
<1>2. PICK b \in Orders(B), k \in Orders(K) : sweep = Ups(b) \o Ups(k)
  BY DEF ReleaseSweeps
<1>3. /\ b \in Seq(B) /\ \A m, n \in DOMAIN b : b[m] = b[n] => m = n
      /\ k \in Seq(K) /\ \A m, n \in DOMAIN k : k[m] = k[n] => m = n
  BY <1>1, <1>2, OrdersType DEF Orders
<1>4. B \subseteq Input /\ K \subseteq Input /\ B \subseteq onClient /\ K \subseteq onClient
      /\ B \cap K = {}
  BY ConstantsAssumption DEF TypeOK
<1> HIDE DEF B, K
<1>5. /\ DOMAIN b = 1..Len(b) /\ Len(b) \in Nat /\ \A n \in DOMAIN b : b[n] \in B
      /\ DOMAIN k = 1..Len(k) /\ Len(k) \in Nat /\ \A n \in DOMAIN k : k[n] \in K
  BY <1>3
<1>6. /\ Ups(b) \in Seq(Frame) /\ DOMAIN Ups(b) = 1..Len(b) /\ Len(Ups(b)) = Len(b)
      /\ Ups(k) \in Seq(Frame) /\ DOMAIN Ups(k) = 1..Len(k) /\ Len(Ups(k)) = Len(k)
      /\ \A n \in DOMAIN b : Ups(b)[n] = Up(b[n])
      /\ \A n \in DOMAIN k : Ups(k)[n] = Up(k[n])
  <2>1. b \in Seq(Input) /\ k \in Seq(Input)
    BY <1>3, <1>4
  <2>2. Ups(b) \in Seq(Frame) /\ Ups(k) \in Seq(Frame)
    BY <2>1, UpsType
  <2> QED BY <1>5, <2>2 DEF Ups
<1>7. /\ DOMAIN sweep = 1..(Len(b) + Len(k))
      /\ \A n \in DOMAIN b : sweep[n] = Up(b[n])
      /\ \A n \in DOMAIN sweep : n \notin DOMAIN b =>
           n - Len(b) \in DOMAIN k /\ sweep[n] = Up(k[n - Len(b)])
  <2> DEFINE x == Ups(b)
             y == Ups(k)
  <2>1. x \in Seq(Frame) /\ y \in Seq(Frame) /\ Len(x) = Len(b) /\ Len(y) = Len(k)
        /\ sweep = x \o y
    BY <1>2, <1>6
  <2>2. /\ \A n \in DOMAIN b : x[n] = Up(b[n])
        /\ \A n \in DOMAIN k : y[n] = Up(k[n])
    BY <1>6
  <2> HIDE DEF x, y
  <2>3. /\ DOMAIN sweep = 1..(Len(b) + Len(k))
        /\ \A n \in 1..Len(b) : sweep[n] = x[n]
        /\ \A n \in DOMAIN sweep : n \notin 1..Len(b) =>
             n - Len(b) \in 1..Len(k) /\ sweep[n] = y[n - Len(b)]
    <3>1. Len(x) \in Nat /\ Len(y) \in Nat /\ DOMAIN b = 1..Len(x)
      BY <1>5, <2>1
    <3>2. /\ DOMAIN (x \o y) = 1..(Len(x) + Len(y))
          /\ \A n \in 1..(Len(x) + Len(y)) :
               (x \o y)[n] = IF n <= Len(x) THEN x[n] ELSE y[n - Len(x)]
      BY <2>1, ConcatParts
    <3> QED BY <2>1, <3>1, <3>2
  <2> QED BY <1>5, <2>2, <2>3
<1>8. \A n \in DOMAIN sweep : sweep[n].input =
        IF n \in DOMAIN b THEN b[n] ELSE k[n - Len(b)]
  BY <1>4, <1>5, <1>7, SignalFacts
<1>9. \A n \in DOMAIN sweep : \E i \in onClient : sweep[n] = Up(i)
  BY <1>4, <1>5, <1>7
<1>10. ASSUME NEW m \in DOMAIN sweep, NEW n \in DOMAIN sweep, sweep[m] = sweep[n]
       PROVE  m = n
  <2>1. sweep[m].input = sweep[n].input
    BY <1>10
  <2>2. CASE m \in DOMAIN b /\ n \in DOMAIN b
    BY <1>3, <1>8, <2>1, <2>2
  <2>3. CASE m \notin DOMAIN b /\ n \notin DOMAIN b
    <3>1. m - Len(b) = n - Len(b)
      BY <1>3, <1>7, <1>8, <2>1, <2>3
    <3> QED BY <1>5, <1>7, <3>1
  <2>4. CASE (m \in DOMAIN b) # (n \in DOMAIN b)
    BY <1>4, <1>5, <1>7, <1>8, <2>1, <2>4
  <2> QED BY <2>2, <2>3, <2>4
<1> QED BY <1>9, <1>10

-----------------------------------------------------------------------------
(* Every frame a client reads is one it may read: the steps. *)

\* A step that touches neither the clients nor the grab keeps the invariant.
LEMMA SentFrame ==
  ASSUME SentInv, UNCHANGED <<active, session, wire, clientDown, grabbed>>
  PROVE  SentInv'
<1> SUFFICES ASSUME NEW c \in ConnId
             PROVE  /\ WellSent(clientDown'[c], grabbed'[c], wire'[c])
                    /\ session'[c] = "open" /\ active' = c =>
                         GrabbedAfter(grabbed'[c], wire'[c])
  BY DEF SentInv, WellSent, GrabbedAfter, Drained, IsInputFrame
<1> QED BY DEF SentInv

\* A send keeps the invariant when what is added is well sent and the client
\* that is grabbed from then on is told so.
LEMMA SentSend ==
  ASSUME TypeOK, SentInv, NEW out, Deliver(out), UNCHANGED <<session, clientDown, grabbed>>,
         \A c \in ConnId : session[c] = "open" =>
           /\ WellSent(clientDown[c], grabbed[c], wire[c] \o out[c])
           /\ active' = c => GrabbedAfter(grabbed[c], wire[c] \o out[c])
  PROVE  SentInv'
<1> SUFFICES ASSUME NEW c \in ConnId
             PROVE  /\ WellSent(clientDown'[c], grabbed'[c], wire'[c])
                    /\ session'[c] = "open" /\ active' = c =>
                         GrabbedAfter(grabbed'[c], wire'[c])
  BY DEF SentInv, WellSent, GrabbedAfter, Drained, IsInputFrame
<1>1. wire'[c] = IF session[c] = "open" THEN wire[c] \o out[c] ELSE wire[c]
  BY DeliverEffect
<1> QED BY <1>1 DEF SentInv

\* One frame to the grabbed client.
LEMMA SentOne ==
  ASSUME TypeOK, NoGhostInput, SentInv, NEW f \in Frame, f # GrabOff,
         f.kind = "up" => f.input \in onClient,
         Deliver(Only(active, <<f>>)), UNCHANGED <<active, session, clientDown, grabbed>>
  PROVE  SentInv'
<1> DEFINE out == Only(active, <<f>>)
<1>1. ASSUME NEW c \in ConnId, session[c] = "open"
      PROVE  /\ WellSent(clientDown[c], grabbed[c], wire[c] \o out[c])
             /\ active' = c => GrabbedAfter(grabbed[c], wire[c] \o out[c])
  <2>1. /\ clientDown[c] \in SUBSET Input /\ grabbed[c] \in BOOLEAN /\ wire[c] \in Seq(Frame)
        /\ WellSent(clientDown[c], grabbed[c], wire[c])
        /\ active = c => GrabbedAfter(grabbed[c], wire[c])
    BY <1>1 DEF TypeOK, SentInv
  <2>2. CASE c = active
    <3>1. out[c] = <<f>> /\ wire[c] \o <<f>> = Append(wire[c], f)
      BY <2>1, <2>2 DEF Only
    <3>2. Drained(clientDown[c], wire[c]) = onClient
      BY <1>1, <2>2 DEF NoGhostInput
    <3> HIDE DEF out
    <3>3. AfterGrab(GrabbedAfter(grabbed[c], wire[c]), f)
      BY <2>1, <2>2, SignalFacts DEF AfterGrab
    <3> QED BY <2>1, <2>2, <3>1, <3>2, <3>3, WellSentAppend, GrabbedAppend
  <2>3. CASE c # active
    <3>1. out[c] = <<>> /\ wire[c] \o <<>> = wire[c]
      BY <2>1, <2>3 DEF Only
    <3> HIDE DEF out
    <3> QED BY <2>1, <2>3, <3>1
  <2> QED BY <2>2, <2>3
<1> HIDE DEF out
<1> QED BY <1>1, SentSend DEF out

\* The frames that open a grab.
LEMMA WellSentOpening ==
  ASSUME NEW down \in SUBSET Input, NEW grab \in BOOLEAN, NEW w \in Seq(Frame),
         WellSent(down, grab, w)
  PROVE  /\ WellSent(down, grab, w \o <<GrabOn, Motion>>)
         /\ GrabbedAfter(grab, w \o <<GrabOn, Motion>>)
<1> DEFINE u == Append(w, GrabOn)
<1>1. GrabOn \in Frame /\ Motion \in Frame /\ ~IsInputFrame(GrabOn) /\ GrabOn.kind = "grabOn"
      /\ Motion.kind = "motion"
  BY SignalFacts DEF IsInputFrame
<1>2. u \in Seq(Frame) /\ w \o <<GrabOn, Motion>> = Append(u, Motion)
  BY <1>1
<1>3. GrabbedAfter(grab, u)
  BY <1>1, GrabbedAppend DEF AfterGrab
<1>4. WellSent(down, grab, u)
  BY <1>1, WellSentAppend
<1> HIDE DEF u
<1>5. WellSent(down, grab, Append(u, Motion))
  BY <1>1, <1>2, <1>3, <1>4, WellSentAppend
<1>6. GrabbedAfter(grab, Append(u, Motion))
  BY <1>1, <1>2, <1>3, GrabbedAppend DEF AfterGrab
<1> QED BY <1>2, <1>5, <1>6

\* The frames that end a grab.
LEMMA WellSentRelease ==
  ASSUME TypeOK, NoGhostInput, SentInv, NEW c \in ConnId, session[c] = "open", active = c,
         NEW sweep \in ReleaseSweeps
  PROVE  WellSent(clientDown[c], grabbed[c], wire[c] \o Append(sweep, GrabOff))
<1>1. /\ clientDown[c] \in SUBSET Input /\ grabbed[c] \in BOOLEAN /\ wire[c] \in Seq(Frame)
      /\ WellSent(clientDown[c], grabbed[c], wire[c]) /\ GrabbedAfter(grabbed[c], wire[c])
  BY DEF TypeOK, SentInv
<1>2. Drained(clientDown[c], wire[c]) = onClient
  BY DEF NoGhostInput
<1>3. sweep \in Seq(Frame)
  BY SweepType
<1>4. WellSent(clientDown[c], grabbed[c], wire[c] \o sweep)
  BY <1>1, <1>2, <1>3, SweepLists, WellSentSweep
<1>5. GrabOff \in Frame /\ ~IsInputFrame(GrabOff) /\ GrabOff.kind = "grabOff"
  BY SignalFacts DEF IsInputFrame
<1>6. wire[c] \o sweep \in Seq(Frame)
      /\ wire[c] \o Append(sweep, GrabOff) = Append(wire[c] \o sweep, GrabOff)
  BY <1>1, <1>3, <1>5, ConcatAppend
<1>7. WellSent(clientDown[c], grabbed[c], Append(wire[c] \o sweep, GrabOff))
  BY <1>1, <1>4, <1>5, <1>6, WellSentAppend
<1> QED BY <1>6, <1>7

\* What is in flight is well sent, whatever the router, the network and the
\* clients do.
THEOREM FramesWellSent == Spec => []SentInv
<1>1. Init => SentInv
  <2>1. DOMAIN <<>> = {}
    OBVIOUS
  <2> QED BY <2>1, ConstantsAssumption DEF Init, SentInv, WellSent
<1>2. TypeOK /\ NoGhostInput /\ SentInv /\ [Next]_vars => SentInv'
  <2> SUFFICES ASSUME TypeOK, NoGhostInput, SentInv, [Next]_vars
               PROVE  SentInv'
    OBVIOUS
  <2> USE DEF routerVars, hostVars, clientVars
  <2>a. \A c \in ConnId : /\ wire[c] \in Seq(Frame) /\ clientDown[c] \in SUBSET Input
                          /\ grabbed[c] \in BOOLEAN
                          /\ WellSent(clientDown[c], grabbed[c], wire[c])
    BY DEF TypeOK, SentInv
  <2>b. /\ Motion \in Frame /\ Motion # GrabOff /\ Motion.kind # "up"
        /\ \A i \in Input : Down(i) \in Frame /\ Down(i) # GrabOff /\ Down(i).kind # "up"
        /\ \A i \in Input : Up(i) \in Frame /\ Up(i) # GrabOff /\ Up(i).input = i
    BY SignalFacts
  <2>1. CASE HookStep
    BY <2>1, SentFrame DEF HookStep, HookInput, HookReturn, HookMove, HookWheel
  <2>2. ASSUME NEW i \in Input, HandlePress(i) PROVE SentInv'
    <3>1. CASE active = NoConn
      BY <2>2, <3>1, SentFrame DEF HandlePress
    <3>2. CASE active # NoConn
      <4>1. Deliver(Only(active, <<Down(i)>>)) /\ UNCHANGED <<active, session, clientDown, grabbed>>
        BY <2>2, <3>2 DEF HandlePress
      <4> QED BY <2>b, <4>1, SentOne
    <3> QED BY <3>1, <3>2
  <2>3. ASSUME NEW i \in Input, HandleLift(i) PROVE SentInv'
    <3>1. CASE ~(active # NoConn /\ i \in onClient)
      BY <2>3, <3>1, SentFrame DEF HandleLift
    <3>2. CASE active # NoConn /\ i \in onClient
      <4>1. Deliver(Only(active, <<Up(i)>>)) /\ UNCHANGED <<active, session, clientDown, grabbed>>
        BY <2>3, <3>2 DEF HandleLift
      <4> QED BY <2>b, <3>2, <4>1, SentOne
    <3> QED BY <3>1, <3>2
  <2>4. ASSUME HandleWheel \/ KeepGrab PROVE SentInv'
    <3>1. CASE active = NoConn
      BY <2>4, <3>1, SentFrame DEF HandleWheel, KeepGrab
    <3>2. CASE active # NoConn
      <4>1. Deliver(Only(active, <<Motion>>)) /\ UNCHANGED <<active, session, clientDown, grabbed>>
        BY <2>4, <3>2 DEF HandleWheel, KeepGrab
      <4> QED BY <2>b, <4>1, SentOne
    <3> QED BY <3>1, <3>2
  <2>5. ASSUME NEW t \in registered, AcquireGrab(t) PROVE SentInv'
    <3> DEFINE out == Only(t, <<GrabOn, Motion>>)
    <3>1. Deliver(out) /\ UNCHANGED <<session, clientDown, grabbed>> /\ active' = t
      BY <2>5 DEF AcquireGrab
    <3>2. ASSUME NEW c \in ConnId, session[c] = "open"
          PROVE  /\ WellSent(clientDown[c], grabbed[c], wire[c] \o out[c])
                 /\ active' = c => GrabbedAfter(grabbed[c], wire[c] \o out[c])
      <4>1. out[c] = IF c = t THEN <<GrabOn, Motion>> ELSE <<>>
        BY DEF Only
      <4> HIDE DEF out
      <4>2. CASE c = t
        BY <2>a, <4>1, <4>2, WellSentOpening
      <4>3. CASE c # t
        <5>1. wire[c] \o <<>> = wire[c]
          BY <2>a
        <5> QED BY <2>a, <3>1, <4>1, <4>3, <5>1
      <4> QED BY <4>2, <4>3
    <3> HIDE DEF out
    <3> QED BY <3>1, <3>2, SentSend
  <2>6. ASSUME NEW t \in registered, SwitchGrab(t) PROVE SentInv'
    <3>1. PICK sweep \in ReleaseSweeps :
            Deliver([Only(active, Append(sweep, GrabOff)) EXCEPT ![t] = <<GrabOn, Motion>>])
      BY <2>6 DEF SwitchGrab
    <3> DEFINE out == [Only(active, Append(sweep, GrabOff)) EXCEPT ![t] = <<GrabOn, Motion>>]
    <3>2. Deliver(out) /\ UNCHANGED <<session, clientDown, grabbed>>
          /\ active' = t /\ active # t /\ t \in ConnId
      BY <2>6, <3>1 DEF SwitchGrab, TypeOK
    <3>3. ASSUME NEW c \in ConnId, session[c] = "open"
          PROVE  /\ WellSent(clientDown[c], grabbed[c], wire[c] \o out[c])
                 /\ active' = c => GrabbedAfter(grabbed[c], wire[c] \o out[c])
      <4>1. out[c] = IF c = t THEN <<GrabOn, Motion>>
                     ELSE IF c = active THEN Append(sweep, GrabOff) ELSE <<>>
        BY <3>2 DEF Only
      <4> HIDE DEF out
      <4>2. CASE c = t
        BY <2>a, <4>1, <4>2, WellSentOpening
      <4>3. CASE c = active
        BY <3>2, <3>3, <4>1, <4>3, WellSentRelease
      <4>4. CASE c # t /\ c # active
        <5>1. wire[c] \o <<>> = wire[c]
          BY <2>a
        <5> QED BY <2>a, <3>2, <4>1, <4>4, <5>1
      <4> QED BY <4>2, <4>3, <4>4
    <3> HIDE DEF out
    <3> QED BY <3>2, <3>3, SentSend
  <2>7. ASSUME ReleaseGrab PROVE SentInv'
    <3>1. PICK sweep \in ReleaseSweeps : Deliver(Only(active, Append(sweep, GrabOff)))
      BY <2>7 DEF ReleaseGrab
    <3> DEFINE out == Only(active, Append(sweep, GrabOff))
    <3>2. Deliver(out) /\ UNCHANGED <<session, clientDown, grabbed>> /\ active' = NoConn
      BY <2>7, <3>1 DEF ReleaseGrab
    <3>3. ASSUME NEW c \in ConnId, session[c] = "open"
          PROVE  /\ WellSent(clientDown[c], grabbed[c], wire[c] \o out[c])
                 /\ active' = c => GrabbedAfter(grabbed[c], wire[c] \o out[c])
      <4>1. out[c] = IF c = active THEN Append(sweep, GrabOff) ELSE <<>>
        BY DEF Only
      <4> HIDE DEF out
      <4>2. active' # c
        BY <3>2, ConstantsAssumption
      <4>3. CASE c = active
        BY <3>3, <4>1, <4>2, <4>3, WellSentRelease
      <4>4. CASE c # active
        <5>1. wire[c] \o <<>> = wire[c]
          BY <2>a
        <5> QED BY <2>a, <4>1, <4>2, <4>4, <5>1
      <4> QED BY <4>3, <4>4
    <3> HIDE DEF out
    <3> QED BY <3>2, <3>3, SentSend
  <2>8. CASE HandleEvent
    BY <2>8, <2>2, <2>3, <2>4, <2>5, <2>6, <2>7, SentFrame
    DEF HandleEvent, HandleMove, LeaveGrab
  <2>9. CASE Stop
    BY <2>9, SentFrame DEF Stop
  <2> DEFINE Sent(c) == /\ WellSent(clientDown[c], grabbed[c], wire[c])
                        /\ session[c] = "open" /\ active = c =>
                             GrabbedAfter(grabbed[c], wire[c])
             SentNext(c) == /\ WellSent(clientDown'[c], grabbed'[c], wire'[c])
                            /\ session'[c] = "open" /\ active' = c =>
                                 GrabbedAfter(grabbed'[c], wire'[c])
  <2>c. (\A c \in ConnId : SentNext(c)) => SentInv'
    BY DEF SentInv, WellSent, GrabbedAfter, Drained, IsInputFrame
  <2>d. \A c \in ConnId : Sent(c)
    BY DEF SentInv
  <2>10. ASSUME NEW t \in ConnId, Register(t) PROVE SentInv'
    <3>1. UNCHANGED <<active, wire, clientDown, grabbed>> /\ active # t
          /\ \A c \in ConnId : c # t => session'[c] = session[c]
      BY <2>10, ConstantsAssumption DEF Register, TypeOK
    <3> QED BY <2>c, <2>d, <3>1
  <2>11. ASSUME NEW t \in ConnId, Unregister(t) PROVE SentInv'
    <3>1. /\ UNCHANGED <<wire, clientDown, grabbed>> /\ active' \in {active, NoConn}
          /\ \A c \in ConnId : session'[c] = "open" => session[c] = "open"
      BY <2>11 DEF Unregister, TypeOK
    <3> QED BY <2>c, <2>d, <3>1, ConstantsAssumption
  <2>12. ASSUME NEW t \in ConnId, Break(t) PROVE SentInv'
    <3>1. PICK n \in 0..Len(wire[t]) : wire' = [wire EXCEPT ![t] = SubSeq(wire[t], 1, n)]
      BY <2>12 DEF Break
    <3>2. /\ wire'[t] = SubSeq(wire[t], 1, n) /\ session'[t] # "open"
          /\ \A c \in ConnId : c # t => wire'[c] = wire[c] /\ session'[c] = session[c]
          /\ UNCHANGED <<active, clientDown, grabbed>>
      BY <2>12, <3>1 DEF Break, TypeOK
    <3>3. WellSent(clientDown[t], grabbed[t], SubSeq(wire[t], 1, n))
      BY <2>a, WellSentCut
    <3>4. SentNext(t)
      BY <3>2, <3>3
    <3>5. ASSUME NEW c \in ConnId, c # t PROVE SentNext(c)
      BY <2>d, <3>2, <3>5
    <3> QED BY <2>c, <3>4, <3>5
  <2>13. ASSUME NEW t \in ConnId, CloseOnStop(t) PROVE SentInv'
    <3>1. /\ UNCHANGED <<active, wire, clientDown, grabbed>>
          /\ \A c \in ConnId : session'[c] = "open" => session[c] = "open"
      BY <2>13 DEF CloseOnStop, TypeOK
    <3> QED BY <2>c, <2>d, <3>1
  <2>14. ASSUME NEW t \in ConnId, ClientDispatch(t) PROVE SentInv'
    <3> DEFINE f == Head(wire[t])
    <3>1. /\ wire[t] # <<>> /\ f \in Frame
          /\ clientDown' = [clientDown EXCEPT ![t] = AfterFrame(clientDown[t], f)]
          /\ grabbed' = [grabbed EXCEPT ![t] = AfterGrab(grabbed[t], f)]
          /\ wire' = [wire EXCEPT ![t] = Tail(wire[t])]
          /\ UNCHANGED <<active, session>>
      BY <2>14, <2>a DEF ClientDispatch, AfterGrab
    <3> HIDE DEF f
    <3>2. /\ clientDown'[t] = AfterFrame(clientDown[t], f)
          /\ grabbed'[t] = AfterGrab(grabbed[t], f) /\ wire'[t] = Tail(wire[t])
          /\ \A c \in ConnId : c # t =>
               wire'[c] = wire[c] /\ clientDown'[c] = clientDown[c] /\ grabbed'[c] = grabbed[c]
      BY <3>1 DEF TypeOK
    <3>3. SentNext(t)
      <4>1. WellSent(clientDown'[t], grabbed'[t], wire'[t])
        BY <2>a, <3>1, <3>2, WellSentRead DEF f
      <4>2. GrabbedAfter(grabbed'[t], wire'[t]) <=> GrabbedAfter(grabbed[t], wire[t])
        BY <2>a, <3>1, <3>2, GrabbedRead DEF f
      <4> QED BY <2>d, <3>1, <4>1, <4>2
    <3>4. ASSUME NEW c \in ConnId, c # t PROVE SentNext(c)
      BY <2>d, <3>1, <3>2, <3>4
    <3> QED BY <2>c, <3>3, <3>4
  <2>15. ASSUME NEW t \in ConnId, ClientEnds(t) PROVE SentInv'
    <3>1. /\ wire'[t] = <<>> /\ session'[t] # "open" /\ UNCHANGED active
          /\ \A c \in ConnId : c # t =>
               /\ wire'[c] = wire[c] /\ clientDown'[c] = clientDown[c]
               /\ grabbed'[c] = grabbed[c] /\ session'[c] = session[c]
      BY <2>15 DEF ClientEnds, TypeOK
    <3>2. SentNext(t)
      <4>1. DOMAIN <<>> = {}
        OBVIOUS
      <4> QED BY <3>1, <4>1 DEF WellSent
    <3>3. ASSUME NEW c \in ConnId, c # t PROVE SentNext(c)
      BY <2>d, <3>1, <3>3
    <3> QED BY <2>c, <3>2, <3>3
  <2>16. CASE UNCHANGED vars
    BY <2>16, SentFrame DEF vars
  <2> QED BY <2>1, <2>8, <2>9, <2>10, <2>11, <2>12, <2>13, <2>14, <2>15, <2>16
          DEF Next, ConnStep
<1> QED BY <1>1, <1>2, TypeCorrect, NoGhost, PTL DEF Spec

\* The first frame of a well sent wire may be read now.
LEMMA HeadMayBeRead ==
  ASSUME TypeOK, SentInv, NEW c \in ConnId, wire[c] # <<>>
  PROVE  /\ IsInputFrame(Head(wire[c])) => grabbed[c]
         /\ Head(wire[c]).kind = "up" => Head(wire[c]).input \in clientDown[c]
<1>1. /\ wire[c] \in Seq(Frame) /\ clientDown[c] \in SUBSET Input /\ grabbed[c] \in BOOLEAN
      /\ WellSent(clientDown[c], grabbed[c], wire[c])
  BY DEF TypeOK, SentInv
<1>2. 1 \in DOMAIN wire[c] /\ Head(wire[c]) = wire[c][1] /\ SubSeq(wire[c], 1, 1 - 1) = <<>>
  BY <1>1
<1>3. /\ IsInputFrame(wire[c][1]) => GrabbedAfter(grabbed[c], <<>>)
      /\ wire[c][1].kind = "up" => wire[c][1].input \in Drained(clientDown[c], <<>>)
  BY <1>1, <1>2 DEF WellSent
<1> QED BY <1>1, <1>2, <1>3, GrabbedEmpty, DrainedEmpty

\* A client only acts on input between a Grab{On} and its Grab{Off}, whatever
\* is lost, and whoever else is grabbed in between.
THEOREM InputIsBracketed == Spec => BracketedInput
<1>1. TypeOK /\ SentInv /\ [Next]_vars =>
        [\A c \in ConnId :
           ClientDispatch(c) /\ IsInputFrame(Head(wire[c])) => grabbed[c]]_vars
  BY HeadMayBeRead DEF ClientDispatch
<1> QED BY <1>1, TypeCorrect, FramesWellSent, PTL DEF Spec, BracketedInput

\* A client never gets an UP for an input that it does not hold down.
THEOREM UpsAreDue == Spec => NoSpuriousUp
<1>1. TypeOK /\ SentInv /\ [Next]_vars =>
        [\A c \in ConnId :
           ClientDispatch(c) /\ Head(wire[c]).kind = "up"
             => Head(wire[c]).input \in clientDown[c]]_vars
  BY HeadMayBeRead DEF ClientDispatch
<1> QED BY <1>1, TypeCorrect, FramesWellSent, PTL DEF Spec, NoSpuriousUp
=============================================================================
