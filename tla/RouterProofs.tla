---------------------------- MODULE RouterProofs ----------------------------
(***************************************************************************)
(* The Router with its geometry, for every desktop, placement, hysteresis  *)
(* and motion.  It implements InputRouting, so what is proved of held      *)
(* inputs and frames in InputRoutingProofs holds of it.  A client's        *)
(* desktop stands where its name is placed, whatever drags, hotplugs and   *)
(* reconnections interleave; grabs begin where a client is in sight and    *)
(* end only towards the server.                                            *)
(***************************************************************************)
EXTENDS Router, InputRoutingProofs, GeometryProofs

\* A mouse move with its geometry is one of the outcomes HandleMove allows.
LEMMA MouseMoveIsHandled ==
  ASSUME NEW p \in Point, OnMouseMove(p)
  PROVE  HandleMove(p)
<1>1. Received(MoveEv(p))
  BY DEF OnMouseMove
<1>2. \A q : ClientsAt(q) \subseteq registered
  BY DEF ClientsAt
<1>3. CASE FreeMove(p)
  BY <1>1, <1>3 DEF FreeMove, HandleMove
<1>4. CASE PushMove(p)
  BY <1>1, <1>2, <1>4 DEF PushMove, HandleMove
<1>5. CASE SyncMove(p)
  BY <1>1, <1>5 DEF SyncMove, HandleMove
<1>6. CASE GrabbedMove(p)
  BY <1>1, <1>2, <1>6 DEF GrabbedMove, HandleMove
<1> QED
  BY <1>3, <1>4, <1>5, <1>6 DEF OnMouseMove

\* A step of the router is a step of InputRouting or leaves its state alone.
LEMMA RouterStep ==
  ASSUME [RouterNext]_rvars
  PROVE  [Next]_vars
<1>1. CASE InputStep
  <2>1. CASE \E i \in Input : HandlePress(i) \/ HandleLift(i)
    BY <2>1 DEF Next, HandleEvent
  <2>2. CASE HandleWheel
    BY <2>2 DEF Next, HandleEvent
  <2>3. CASE \E i \in Input, down \in BOOLEAN : HookInput(i, down)
    BY <2>3 DEF Next, HookStep
  <2>4. CASE HookReturn \/ HookWheel
    BY <2>4 DEF Next, HookStep
  <2>5. CASE Stop
    BY <2>5 DEF Next
  <2>6. CASE \E c \in ConnId : Break(c) \/ CloseOnStop(c) \/ ClientDispatch(c) \/ ClientEnds(c)
    BY <2>6 DEF Next, ConnStep
  <2> QED
    BY <1>1, <2>1, <2>2, <2>3, <2>4, <2>5, <2>6 DEF InputStep
<1>2. CASE \E d \in Moves : RouterHookMove(d)
  <2>1. \E p \in Point : HookMove(p)
    BY <1>2 DEF RouterHookMove
  <2> QED
    BY <2>1 DEF Next, HookStep
<1>3. CASE \E p \in Point : OnMouseMove(p)
  BY <1>3, MouseMoveIsHandled DEF Next, HandleEvent
<1>4. CASE \E c \in ConnId, mons \in ClientLayouts : RouterRegister(c, mons)
  BY <1>4 DEF RouterRegister, Next, ConnStep
<1>5. CASE \E c \in ConnId, mons \in ClientLayouts : UpdateMonitors(c, mons)
  BY <1>5 DEF UpdateMonitors
<1>6. CASE \E c \in ConnId : RouterUnregister(c)
  BY <1>6 DEF RouterUnregister, Next, ConnStep
<1>7. CASE \E name \in Name, place \in Spots : SetPlacement(name, place)
  BY <1>7 DEF SetPlacement
<1>8. CASE \E layout \in HostLayouts : HostRelayout(layout)
  BY <1>8 DEF HostRelayout
<1>9. CASE UpdateServerMonitors
  BY <1>9 DEF UpdateServerMonitors
<1>10. CASE UNCHANGED rvars
  BY <1>10 DEF rvars
<1> QED
  BY <1>1, <1>2, <1>3, <1>4, <1>5, <1>6, <1>7, <1>8, <1>9, <1>10 DEF RouterNext

\* The router as it is coded implements InputRouting: crossing, trapping,
\* clamping, parking, placing and hotplug never touch the bookkeeping of held
\* inputs, frames and grabs other than as resolveRegion prescribes.
THEOREM RouterImplements == RouterSpec => ImplementsInputRouting
<1>1. RouterInit => Init
  BY DEF RouterInit
<1>2. [RouterNext]_rvars => [Next]_vars
  BY RouterStep
<1> QED
  BY <1>1, <1>2, PTL DEF RouterSpec, Spec, ImplementsInputRouting

\* No client of the whole router is left with a latched button or key, the
\* host's input is swallowed exactly during a grab, and clients get input within
\* their grabs and UPs of what they hold only.
THEOREM RouterSafe ==
  RouterSpec => []NoGhostInput /\ []PassThrough /\ BracketedInput /\ NoSpuriousUp
  BY RouterImplements, NoGhost, PassThroughAlways, InputIsBracketed, UpsAreDue, PTL
  DEF ImplementsInputRouting

-----------------------------------------------------------------------------

\* A desktop that is applied to a place has its corner there.
LEMMA AppliedStandsThere ==
  ASSUME NEW mons \in Desktop, NEW place \in Place
  PROVE  /\ Applied(mons, place) \in Place
         /\ LET b == Bounds(Shifted(mons, Applied(mons, place)))
            IN  Pixel(b.left, b.top) = place
<1> DEFINE o == Applied(mons, place)
<1>1. \E q \in Place : TRUE
  OBVIOUS
<1>2. Bounds(mons).left \in Int /\ Bounds(mons).top \in Int
  BY <1>1, CornerMoves
<1>3. /\ o \in Place
      /\ o.x = place.x - Bounds(mons).left /\ o.y = place.y - Bounds(mons).top
  BY <1>2 DEF Applied, Minus, Pixel, Place
<1>4. /\ Bounds(Shifted(mons, o)).left = Bounds(mons).left + o.x
      /\ Bounds(Shifted(mons, o)).top = Bounds(mons).top + o.y
  <2> HIDE DEF o
  <2> QED
    BY <1>3, CornerMoves
<1>5. /\ Bounds(Shifted(mons, o)).left = place.x
      /\ Bounds(Shifted(mons, o)).top = place.y
  BY <1>2, <1>3, <1>4 DEF Place
<1>6. Pixel(place.x, place.y) = place
  BY DEF Pixel, Place
<1> QED
  BY <1>3, <1>5, <1>6

\* The place a new name gets is a place.
LEMMA EnsuredIsPlaced ==
  ASSUME PlaceInv, NEW name
  PROVE  LET p == EnsuredPlacements(name)
         IN  /\ name \in DOMAIN p /\ IsFiniteSet(DOMAIN p)
             /\ \A n \in DOMAIN p : p[n] \in Place
             /\ \A n \in DOMAIN placements : n \in DOMAIN p /\ p[n] = placements[n]
<1>1. CASE name \in DOMAIN placements
  BY <1>1 DEF EnsuredPlacements, PlaceInv
<1>2. CASE name \notin DOMAIN placements
  <2> DEFINE N == DOMAIN placements
             S == {Bounds(serverMons).right} \cup {placements[n].x : n \in N}
  <2>1. Bounds(serverMons).right \in Int /\ Bounds(serverMons).top \in Int
    <3>1. Zero \in Place
      BY DEF Zero, Pixel, Place
    <3> QED
      BY <3>1, CornerMoves DEF PlaceInv
  <2>2. S \in SUBSET Int
    BY <2>1 DEF PlaceInv, Place
  <2>3. Max(S) \in Int
    <3>1. CASE N = {}
      <4>1. S = {Bounds(serverMons).right}
        BY <3>1
      <4> QED
        BY <2>1, <4>1, MaxIs
    <3>2. CASE N # {}
      <4> DEFINE f == [n \in N |-> placements[n].x]
      <4>1. f \in [N -> Int] /\ IsFiniteSet(N)
        BY DEF PlaceInv, Place
      <4>2. PICK m \in N : \A n \in N : f[n] <= f[m]
        BY <3>2, <4>1, FamilyHasMax
      <4>3. \A n \in N : placements[n].x <= placements[m].x /\ placements[n].x \in Int
        BY <4>2 DEF PlaceInv, Place
      <4>4. CASE placements[m].x <= Bounds(serverMons).right
        <5>1. \A z \in S : z <= Bounds(serverMons).right
          BY <2>1, <4>3, <4>4
        <5> QED
          BY <2>1, <2>2, <5>1, MaxIs
      <4>5. CASE ~(placements[m].x <= Bounds(serverMons).right)
        <5>1. placements[m].x \in S /\ \A z \in S : z <= placements[m].x
          BY <2>1, <4>3, <4>5
        <5> QED
          BY <2>2, <4>3, <5>1, MaxIs
      <4> QED
        BY <4>4, <4>5
    <3> QED
      BY <3>1, <3>2
  <2>4. Pixel(Max(S), Bounds(serverMons).top) \in Place
    BY <2>1, <2>3 DEF Pixel, Place
  <2>5. EnsuredPlacements(name) = Placed(placements, name, Pixel(Max(S), Bounds(serverMons).top))
    BY <1>2 DEF EnsuredPlacements
  <2>6. IsFiniteSet(N \cup {name})
    BY FS_AddElement DEF PlaceInv
  <2> HIDE DEF S
  <2> QED
    BY <1>2, <2>4, <2>5, <2>6 DEF Placed, PlaceInv
<1> QED
  BY <1>1, <1>2

-----------------------------------------------------------------------------

\* Steps that leave layouts and clients alone keep the invariant.
LEMMA ElsewhereKeeps ==
  ASSUME PlaceInv, UNCHANGED <<layoutVars, hostMons, registered>>
  PROVE  PlaceInv'
BY DEF PlaceInv, OffsetsFollow, layoutVars

\* The bookkeeping of inputs and frames is such a step, and grabs nobody.
LEMMA InputKeepsGrab ==
  ASSUME InputStep
  PROVE  registered' = registered /\ active' = active /\ (running' => running)
<1> USE DEF routerVars, hostVars, clientVars
<1>1. CASE \E i \in Input : HandlePress(i) \/ HandleLift(i)
  <2>1. ASSUME NEW i \in Input, HandlePress(i)
        PROVE  registered' = registered /\ active' = active /\ running' = running
    BY <2>1 DEF HandlePress
  <2>2. ASSUME NEW i \in Input, HandleLift(i)
        PROVE  registered' = registered /\ active' = active /\ running' = running
    BY <2>2 DEF HandleLift
  <2> QED
    BY <1>1, <2>1, <2>2
<1>2. CASE HandleWheel \/ HookReturn \/ HookWheel \/ Stop
  BY <1>2 DEF HandleWheel, HookReturn, HookWheel, Stop
<1>3. CASE \E i \in Input, down \in BOOLEAN : HookInput(i, down)
  BY <1>3 DEF HookInput
<1>4. CASE \E c \in ConnId : Break(c) \/ CloseOnStop(c) \/ ClientDispatch(c) \/ ClientEnds(c)
  <2>1. ASSUME NEW c \in ConnId, Break(c)
        PROVE  registered' = registered /\ active' = active /\ running' = running
    BY <2>1 DEF Break
  <2>2. ASSUME NEW c \in ConnId, CloseOnStop(c)
        PROVE  registered' = registered /\ active' = active /\ running' = running
    BY <2>2 DEF CloseOnStop
  <2>3. ASSUME NEW c \in ConnId, ClientDispatch(c)
        PROVE  registered' = registered /\ active' = active /\ running' = running
    BY <2>3 DEF ClientDispatch
  <2>4. ASSUME NEW c \in ConnId, ClientEnds(c)
        PROVE  registered' = registered /\ active' = active /\ running' = running
    BY <2>4 DEF ClientEnds
  <2> QED
    BY <1>4, <2>1, <2>2, <2>3, <2>4
<1> QED
  BY <1>1, <1>2, <1>3, <1>4 DEF InputStep

\* So is a mouse move, whatever it does to the grab.
LEMMA MoveElsewhere ==
  ASSUME NEW p, OnMouseMove(p)
  PROVE  UNCHANGED <<layoutVars, hostMons, registered>>
<1> USE DEF routerVars, osVars, LeaveGrab, KeepGrab, ReleaseGrab, AcquireGrab, SwitchGrab
<1>1. CASE FreeMove(p)
  BY <1>1 DEF FreeMove
<1>2. CASE PushMove(p)
  BY <1>2 DEF PushMove
<1>3. CASE SyncMove(p)
  BY <1>3 DEF SyncMove
<1>4. CASE GrabbedMove(p)
  BY <1>4 DEF GrabbedMove
<1> QED
  BY <1>1, <1>2, <1>3, <1>4 DEF OnMouseMove

\* A client that registers is put where its name is, or where there is room.
LEMMA RegisterKeeps ==
  ASSUME PlaceInv, NEW c \in ConnId, NEW mons \in ClientLayouts, RouterRegister(c, mons)
  PROVE  PlaceInv'
<1>1. mons \in Desktop /\ NameOf[c] \in Name
  BY RouterAssumption
<1>2. /\ placements' = EnsuredPlacements(NameOf[c]) /\ registered' = registered \cup {c}
      /\ c \notin registered
      /\ monitors' = [monitors EXCEPT ![c] = mons]
      /\ offset' = [offset EXCEPT ![c] = Applied(mons, placements'[NameOf[c]])]
      /\ UNCHANGED <<serverMons, hostMons>>
  BY DEF RouterRegister, Register, osVars
<1>3. /\ NameOf[c] \in DOMAIN placements' /\ IsFiniteSet(DOMAIN placements')
      /\ \A n \in DOMAIN placements' : placements'[n] \in Place
      /\ \A n \in DOMAIN placements : n \in DOMAIN placements' /\ placements'[n] = placements[n]
  BY <1>2, EnsuredIsPlaced
<1>4. ASSUME NEW d \in registered'
      PROVE  /\ monitors'[d] \in Desktop /\ NameOf[d] \in DOMAIN placements'
             /\ offset'[d] = Applied(monitors'[d], placements'[NameOf[d]])
  <2>1. CASE d = c
    BY <1>1, <1>2, <1>3, <2>1 DEF PlaceInv
  <2>2. CASE d # c
    BY <1>2, <1>3, <2>2 DEF PlaceInv, OffsetsFollow
  <2> QED
    BY <2>1, <2>2
<1> QED
  BY <1>2, <1>3, <1>4 DEF PlaceInv, OffsetsFollow

\* A client's own hotplug moves its offset along.
LEMMA UpdateKeeps ==
  ASSUME PlaceInv, NEW c \in ConnId, NEW mons \in ClientLayouts, UpdateMonitors(c, mons)
  PROVE  PlaceInv'
<1>1. mons \in Desktop
  BY RouterAssumption
<1>2. /\ monitors' = [monitors EXCEPT ![c] = mons]
      /\ offset' = [offset EXCEPT ![c] = Applied(mons, placements[NameOf[c]])]
      /\ UNCHANGED <<serverMons, hostMons, placements, registered>>
  BY DEF UpdateMonitors, osVars, vars, routerVars
<1> QED
  BY <1>1, <1>2 DEF PlaceInv, OffsetsFollow

\* A drag moves every connection under the name, and no other.
LEMMA DragKeeps ==
  ASSUME PlaceInv, NEW name \in Name, NEW place \in Spots, SetPlacement(name, place)
  PROVE  PlaceInv'
<1>1. place \in Place
  BY RouterAssumption
<1>2. /\ placements' = Placed(placements, name, place)
      /\ offset' = [c \in ConnId |->
                      IF c \in registered /\ NameOf[c] = name
                      THEN Applied(monitors[c], place) ELSE offset[c]]
      /\ UNCHANGED <<serverMons, hostMons, monitors, registered>>
  BY DEF SetPlacement, osVars, vars, routerVars
<1>3. IsFiniteSet(DOMAIN placements')
  BY <1>2, FS_AddElement DEF Placed, PlaceInv
<1>4. \A n \in DOMAIN placements' : placements'[n] \in Place
  BY <1>1, <1>2 DEF Placed, PlaceInv
<1>5. OffsetsFollow'
  BY <1>2 DEF Placed, PlaceInv, OffsetsFollow
<1> QED
  BY <1>2, <1>3, <1>4, <1>5 DEF PlaceInv

\* A client that goes no longer counts.
LEMMA UnregisterKeeps ==
  ASSUME PlaceInv, NEW c \in ConnId, RouterUnregister(c)
  PROVE  PlaceInv'
<1>1. /\ registered' = registered \ {c}
      /\ monitors' = [monitors EXCEPT ![c] = <<>>]
      /\ offset' = [offset EXCEPT ![c] = Zero]
      /\ UNCHANGED <<serverMons, hostMons, placements>>
  BY DEF RouterUnregister, Unregister
<1> QED
  BY <1>1 DEF PlaceInv, OffsetsFollow

\* The invariant is inductive.
THEOREM OffsetsAlwaysFollow == RouterSpec => []PlaceInv
<1>1. RouterInit => PlaceInv
  BY RouterAssumption DEF RouterInit, Init, PlaceInv, OffsetsFollow
<1>2. PlaceInv /\ [RouterNext]_rvars => PlaceInv'
  <2> SUFFICES ASSUME PlaceInv, [RouterNext]_rvars
               PROVE  PlaceInv'
    OBVIOUS
  <2>1. CASE InputStep /\ UNCHANGED geoVars
    BY <2>1, InputKeepsGrab, ElsewhereKeeps DEF geoVars, osVars
  <2>2. CASE \E d \in Moves : RouterHookMove(d)
    <3>1. UNCHANGED <<layoutVars, hostMons, registered>>
      BY <2>2 DEF RouterHookMove, HookMove, routerVars
    <3> QED
      BY <3>1, ElsewhereKeeps
  <2>3. CASE \E p \in Point : OnMouseMove(p)
    BY <2>3, MoveElsewhere, ElsewhereKeeps
  <2>4. CASE \E c \in ConnId, mons \in ClientLayouts :
               RouterRegister(c, mons) \/ UpdateMonitors(c, mons)
    BY <2>4, RegisterKeeps, UpdateKeeps
  <2>5. CASE \E c \in ConnId : RouterUnregister(c)
    BY <2>5, UnregisterKeeps
  <2>6. CASE \E name \in Name, place \in Spots : SetPlacement(name, place)
    BY <2>6, DragKeeps
  <2>7. CASE \E layout \in HostLayouts : HostRelayout(layout)
    BY <2>7, RouterAssumption DEF HostRelayout, PlaceInv, OffsetsFollow, vars, routerVars, layoutVars
  <2>8. CASE UpdateServerMonitors
    BY <2>8 DEF UpdateServerMonitors, PlaceInv, OffsetsFollow, vars, routerVars, osVars
  <2>9. CASE UNCHANGED rvars
    BY <2>9, ElsewhereKeeps DEF rvars, geoVars, osVars, vars, routerVars
  <2> QED
    BY <2>1, <2>2, <2>3, <2>4, <2>5, <2>6, <2>7, <2>8, <2>9 DEF RouterNext
<1> QED
  BY <1>1, <1>2, PTL DEF RouterSpec

\* A connected client's desktop has its corner exactly where its name is placed,
\* however drags, reconnections and its own hotplug interleave.
THEOREM StandsWherePlaced == RouterSpec => []PlacedWhereAsked
<1>1. PlaceInv => PlacedWhereAsked
  BY AppliedStandsThere DEF PlaceInv, OffsetsFollow, PlacedWhereAsked, Area
<1> QED
  BY <1>1, OffsetsAlwaysFollow, PTL

-----------------------------------------------------------------------------

\* While the host keeps its monitors, a grabbed cursor rests at the trap: no
\* step but the one that ends the grab takes it elsewhere.
THEOREM CursorStaysTrapped ==
  ASSUME HostLayouts \subseteq {FirstLayout},
         \A i \in DOMAIN FirstLayout : FirstLayout[i].w > 0 /\ FirstLayout[i].h > 0
  PROVE  RouterSpec => []TrapHolds
<1> DEFINE TP == Trap(FirstLayout)
           Inv == serverMons = FirstLayout /\ hostMons = FirstLayout /\ TrapHolds
<1>1. AnyContains(FirstLayout, TP)
  BY TrapInside, RouterAssumption
<1>2. RouterInit => Inv
  BY DEF RouterInit, Init, TrapHolds
<1>3. Inv /\ PassThrough /\ [RouterNext]_rvars => Inv'
  <2> SUFFICES ASSUME Inv, PassThrough, [RouterNext]_rvars
               PROVE  Inv'
    OBVIOUS
  <2> USE DEF TrapHolds, TrapPoint, routerVars, hostVars, clientVars
  <2>1. CASE InputStep /\ UNCHANGED geoVars
    <3>1. (running' => running) /\ active' = active
      BY <2>1, InputKeepsGrab
    <3> QED
      BY <2>1, <3>1 DEF geoVars, layoutVars, osVars
  <2>2. CASE \E d \in Moves : RouterHookMove(d)
    BY <2>2 DEF RouterHookMove, HookMove, PassThrough, layoutVars
  <2>3. CASE \E p \in Point : OnMouseMove(p)
    <3>1. HostClamp(TP, TP) = TP
      BY <1>1 DEF HostClamp
    <3>2. PICK p \in Point : OnMouseMove(p)
      BY <2>3
    <3> USE DEF layoutVars, osVars
    <3> HIDE DEF TP
    <3>3. CASE FreeMove(p)
      BY <3>3 DEF FreeMove, LeaveGrab
    <3>4. CASE PushMove(p)
      <4>1. CASE LeaveGrab /\ active = NoConn /\ UNCHANGED cur
        BY <3>4, <4>1 DEF PushMove, LeaveGrab
      <4>2. CASE MoveCursorTo(TrapPoint)
        BY <3>1, <3>4, <4>2 DEF PushMove, MoveCursorTo, TP
      <4> QED
        BY <3>4, <4>1, <4>2 DEF PushMove
    <3>5. CASE SyncMove(p)
      BY <3>5 DEF SyncMove, LeaveGrab
    <3>6. CASE GrabbedMove(p)
      <4>1. CASE LeaveGrab /\ UNCHANGED cur
        BY <3>6, <4>1 DEF GrabbedMove, LeaveGrab
      <4>2. CASE MoveCursorTo(TrapPoint)
        BY <3>1, <3>6, <4>2 DEF GrabbedMove, MoveCursorTo, TP
      <4>3. CASE ReleaseGrab
        BY <3>6, <4>3 DEF GrabbedMove, ReleaseGrab
      <4> QED
        BY <3>6, <4>1, <4>2, <4>3 DEF GrabbedMove
    <3> QED
      BY <3>2, <3>3, <3>4, <3>5, <3>6 DEF OnMouseMove
  <2>4. CASE \E c \in ConnId, mons \in ClientLayouts :
               RouterRegister(c, mons) \/ UpdateMonitors(c, mons)
    BY <2>4 DEF RouterRegister, Register, UpdateMonitors, vars, osVars
  <2>5. CASE \E c \in ConnId : RouterUnregister(c)
    BY <2>5 DEF RouterUnregister, Unregister
  <2>6. CASE \E name \in Name, place \in Spots : SetPlacement(name, place)
    BY <2>6 DEF SetPlacement, vars, osVars
  <2>7. CASE \E layout \in HostLayouts : HostRelayout(layout)
    BY <1>1, <2>7 DEF HostRelayout, vars, layoutVars
  <2>8. CASE UpdateServerMonitors
    BY <2>8 DEF UpdateServerMonitors
  <2>9. CASE UNCHANGED rvars
    BY <2>9 DEF rvars, geoVars, layoutVars, osVars, vars
  <2> QED
    BY <2>1, <2>2, <2>3, <2>4, <2>5, <2>6, <2>7, <2>8, <2>9 DEF RouterNext
<1>4. Inv => TrapHolds
  OBVIOUS
<1> QED
  BY <1>2, <1>3, <1>4, RouterSafe, PTL DEF RouterSpec

-----------------------------------------------------------------------------
(* The pointer. *)

\* A connected client's desktop, where it stands, is a desktop.
LEMMA AreaIsDesktop ==
  ASSUME PlaceInv, NEW c \in registered
  PROVE  /\ Area(c) \in Desktop /\ DOMAIN Area(c) = DOMAIN monitors[c]
         /\ \A i \in DOMAIN monitors[c] :
              Area(c)[i].w = monitors[c][i].w /\ Area(c)[i].h = monitors[c][i].h
<1>1. monitors[c] \in Desktop /\ placements[NameOf[c]] \in Place
      /\ offset[c] = Applied(monitors[c], placements[NameOf[c]])
  BY DEF PlaceInv, OffsetsFollow
<1>2. offset[c] \in Place
  BY <1>1, AppliedStandsThere
<1> QED
  BY <1>1, <1>2, ShiftedIsDesktop DEF Area

\* The host's OS keeps its cursor at integer coordinates.
LEMMA HostClampTyped ==
  ASSUME hostMons \in Desktop, NEW from \in Place, NEW to \in Place
  PROVE  HostClamp(from, to) \in Place
<1> DEFINE here == {i \in DOMAIN hostMons : Contains(hostMons[i], from)}
<1>1. hostMons[1] \in Monitor
  BY DesktopFacts
<1>2. here # {} => hostMons[Min(here)] \in Monitor
  <2>1. here \in SUBSET DOMAIN hostMons
    OBVIOUS
  <2> HIDE DEF here
  <2> QED
    BY <2>1, FirstOf
<1>3. \/ HostClamp(from, to) = to \/ HostClamp(from, to) = ClampInto(hostMons[1], to)
      \/ here # {} /\ HostClamp(from, to) = ClampInto(hostMons[Min(here)], to)
  <2>1. HostClamp(from, to) = IF AnyContains(hostMons, to) THEN to
                              ELSE IF here = {} THEN ClampInto(hostMons[1], to)
                              ELSE ClampInto(hostMons[Min(here)], to)
    BY DEF HostClamp
  <2> HIDE DEF here
  <2> QED
    BY <2>1
<1> HIDE DEF here
<1> QED
  BY <1>1, <1>2, <1>3, ClampLiesInside

\* Who pushes, pushes in one of the four directions.
LEMMA PushHasDirection ==
  ASSUME NEW p, Pushes(p) # {}
  PROVE  PushDirection(p) \in Pushes(p) /\ Pushes(p) \subseteq {Right, Left, Bot, Top}
<1> DEFINE order == <<Right, Left, Bot, Top>>
           S == {i \in 1..4 : order[i] \in Pushes(p)}
<1>1. Pushes(p) \subseteq {Right, Left, Bot, Top}
  BY DEF Pushes
<1>2. S # {}
  <2>1. order[1] = Right /\ order[2] = Left /\ order[3] = Bot /\ order[4] = Top
    OBVIOUS
  <2>2. 1 \in 1..4 /\ 2 \in 1..4 /\ 3 \in 1..4 /\ 4 \in 1..4
    OBVIOUS
  <2> HIDE DEF order
  <2> QED
    BY <1>1, <2>1, <2>2
<1>3. S \in SUBSET Int /\ \A i \in S : 1 <= i
  OBVIOUS
<1>4. Min(S) \in S
  <2> HIDE DEF S
  <2> QED
    BY <1>2, <1>3, LeastOfBounded
<1>5. PushDirection(p) = order[Min(S)]
  BY DEF PushDirection
<1> QED
  BY <1>1, <1>4, <1>5

\* Where a push and a motion put the virtual cursor.
LEMMA PushTyped ==
  ASSUME PlaceInv, NEW p \in Place, Pushes(p) # {}
  PROVE  CrossPoint({Area(c) : c \in registered}, Bounds(serverMons), p,
                    PushDirection(p)) \in Place
<1>1. {Area(c) : c \in registered} \in SUBSET Desktop
  BY AreaIsDesktop
<1>2. PushDirection(p) \in {Right, Left, Bot, Top}
  BY PushHasDirection
<1>3. serverMons \in Desktop
  BY DEF PlaceInv
<1> QED
  BY <1>1, <1>2, <1>3, CrossPointLands

LEMMA MotionTyped ==
  ASSUME PlaceInv, active \in registered, v \in Place, NEW p \in Place
  PROVE  LET q == ClampToActiveClient(Plus(v, Minus(p, TrapPoint)), Area(active), serverMons)
         IN  /\ TrapPoint \in Place /\ Plus(v, Minus(p, TrapPoint)) \in Place /\ q \in Place
             /\ PadInside(ClampToServer(q, serverMons), Bounds(serverMons)) \in Place
<1> DEFINE q == ClampToActiveClient(Plus(v, Minus(p, TrapPoint)), Area(active), serverMons)
<1>1. serverMons \in Desktop
  BY DEF PlaceInv
<1>2. TrapPoint \in Place
  BY <1>1, TrapIsPlace DEF TrapPoint
<1>3. Plus(v, Minus(p, TrapPoint)) \in Place
  BY <1>2, PointArithmetic
<1>4. q \in Place
  BY <1>1, <1>3, AreaIsDesktop, ClampToActiveTyped
<1> HIDE DEF q
<1>5. ClampToServer(q, serverMons) \in Place
  BY <1>1, <1>4, ClampToServerTyped
<1>6. PadInside(ClampToServer(q, serverMons), Bounds(serverMons)) \in Place
  BY <1>1, <1>5, BoundsTyped, PadLiesInside
<1> QED
  BY <1>2, <1>3, <1>4, <1>6 DEF q

\* A mouse move leaves the pointer well formed.
LEMMA MoveTyped ==
  ASSUME RouterTypeOK, PlaceInv, TypeOK, NEW p \in Point, OnMouseMove(p)
  PROVE  RouterTypeOK'
<1> USE DEF RouterTypeOK
<1>1. p \in Place /\ v \in Place /\ lastAbs \in Place /\ cur \in Place
      /\ serverMons \in Desktop /\ hostMons \in Desktop
  BY RouterAssumption DEF PlaceInv
<1>2. TrapPoint \in Place
  BY <1>1, TrapIsPlace DEF TrapPoint
<1>3. \A q \in Place : HostClamp(q, q) \in Place
  BY <1>1, HostClampTyped
<1>4. CASE FreeMove(p)
  BY <1>1, <1>4 DEF FreeMove, LeaveGrab, layoutVars, osVars, routerVars
<1>5. CASE PushMove(p)
  <2> DEFINE q == CrossPoint({Area(c) : c \in registered}, Bounds(serverMons), p, PushDirection(p))
  <2>1. q \in Place
    BY <1>1, <1>5, PushTyped DEF PushMove
  <2>2. v' = q /\ UNCHANGED <<layoutVars, hostMons>>
    BY <1>5 DEF PushMove
  <2>3. CASE LeaveGrab /\ lastAbs' = p /\ haveLastAbs' = TRUE /\ UNCHANGED <<grabSyncing, cur>>
    BY <1>1, <2>1, <2>2, <2>3 DEF LeaveGrab, layoutVars, routerVars
  <2>4. CASE /\ \E c \in ClientsAt(q) : AcquireGrab(c)
             /\ MoveCursorTo(TrapPoint) /\ lastAbs' = TrapPoint /\ grabSyncing' = TRUE
             /\ UNCHANGED haveLastAbs
    <3>1. active' # NoConn
      BY <2>4, ConstantsAssumption DEF ClientsAt, AcquireGrab, TypeOK
    <3>2. cur' \in Place
      BY <1>2, <1>3, <2>4 DEF MoveCursorTo
    <3> QED
      BY <1>2, <2>1, <2>2, <2>4, <3>1, <3>2 DEF layoutVars
  <2> QED
    BY <1>5, <2>3, <2>4 DEF PushMove
<1>6. CASE SyncMove(p)
  BY <1>1, <1>6 DEF SyncMove, LeaveGrab, layoutVars, osVars, routerVars
<1>7. CASE GrabbedMove(p)
  <2> DEFINE d == Minus(p, TrapPoint)
             q == ClampToActiveClient(Plus(v, d), Area(active), serverMons)
             parked == PadInside(ClampToServer(q, serverMons), Bounds(serverMons))
  <2>1. q \in Place /\ parked \in Place
    BY <1>1, <1>7, MotionTyped DEF GrabbedMove, TypeOK
  <2>2. UNCHANGED <<layoutVars, haveLastAbs, hostMons>> /\ active # NoConn
    BY <1>7 DEF GrabbedMove
  <2>3. CASE LeaveGrab /\ UNCHANGED <<v, lastAbs, grabSyncing, cur>>
    BY <1>1, <2>2, <2>3 DEF LeaveGrab, layoutVars, routerVars
  <2>4. CASE /\ \E c \in ClientsAt(q) : IF c = active THEN KeepGrab ELSE SwitchGrab(c)
             /\ v' = q /\ lastAbs' = TrapPoint /\ MoveCursorTo(TrapPoint) /\ UNCHANGED grabSyncing
    <3>1. active' # NoConn
      BY <2>2, <2>4, ConstantsAssumption
         DEF ClientsAt, KeepGrab, SwitchGrab, TypeOK, routerVars
    <3>2. cur' \in Place
      BY <1>2, <1>3, <2>4 DEF MoveCursorTo
    <3> QED
      BY <1>2, <2>1, <2>2, <2>4, <3>1, <3>2 DEF layoutVars
  <2>5. CASE /\ v' = parked /\ lastAbs' = parked /\ MoveCursorTo(parked)
             /\ grabSyncing' = FALSE
    <3>1. cur' \in Place
      BY <1>3, <2>1, <2>5 DEF MoveCursorTo
    <3> QED
      BY <2>1, <2>2, <2>5, <3>1 DEF layoutVars
  <2> QED
    BY <1>7, <2>3, <2>4, <2>5 DEF GrabbedMove
<1> QED
  BY <1>4, <1>5, <1>6, <1>7 DEF OnMouseMove

\* So does a client that goes.
LEMMA UnregisterTyped ==
  ASSUME RouterTypeOK, PlaceInv, TypeOK, NEW c \in ConnId, RouterUnregister(c)
  PROVE  RouterTypeOK'
<1> USE DEF RouterTypeOK
<1>1. serverMons \in Desktop /\ hostMons \in Desktop /\ v \in Place
  BY DEF PlaceInv
<1>2. /\ monitors' = [monitors EXCEPT ![c] = <<>>]
      /\ UNCHANGED <<serverMons, placements, haveLastAbs, hostMons>>
  BY DEF RouterUnregister
<1>3. \A d \in ConnId : monitors'[d] \in ClientLayouts \cup {<<>>}
  BY <1>2 DEF PlaceInv
<1>4. CASE active = c
  <2>1. v' = ClampToServer(v, serverMons) /\ lastAbs' = v' /\ MoveCursorTo(v')
        /\ grabSyncing' = FALSE
    BY <1>4 DEF RouterUnregister
  <2>2. v' \in Place
    BY <1>1, <2>1, ClampToServerTyped
  <2>3. cur' \in Place
    BY <1>1, <2>1, <2>2, HostClampTyped DEF MoveCursorTo
  <2> QED
    BY <1>2, <1>3, <2>1, <2>2, <2>3
<1>5. CASE active # c
  <2>1. UNCHANGED <<v, lastAbs, cur, grabSyncing, active>>
    BY <1>5 DEF RouterUnregister, Unregister
  <2> QED
    BY <1>2, <1>3, <2>1
<1> QED
  BY <1>4, <1>5

\* The variables of the router keep their types, and settling is only waited for
\* during a grab.
THEOREM RouterTyped == RouterSpec => []RouterTypeOK
<1>1. RouterInit => RouterTypeOK
  <2>1. Trap(FirstLayout) \in Place
    BY RouterAssumption, TrapIsPlace
  <2> SUFFICES ASSUME RouterInit PROVE RouterTypeOK
    OBVIOUS
  <2>2. DOMAIN placements \subseteq Name /\ \A c \in ConnId : monitors[c] = <<>>
    BY RouterAssumption DEF RouterInit
  <2>3. /\ haveLastAbs = FALSE /\ grabSyncing = FALSE
        /\ serverMons = FirstLayout /\ hostMons = FirstLayout
    BY DEF RouterInit
  <2>4. v \in Place /\ lastAbs \in Place /\ cur \in Place
    BY <2>1, PointArithmetic DEF RouterInit
  <2> QED
    BY <2>2, <2>3, <2>4 DEF RouterTypeOK
<1>2. RouterTypeOK /\ PlaceInv /\ TypeOK /\ [RouterNext]_rvars => RouterTypeOK'
  <2> SUFFICES ASSUME RouterTypeOK, PlaceInv, TypeOK, [RouterNext]_rvars
               PROVE  RouterTypeOK'
    OBVIOUS
  <2>1. CASE InputStep /\ UNCHANGED geoVars
    <3>1. active' = active
      BY <2>1, InputKeepsGrab
    <3> QED
      BY <2>1, <3>1 DEF RouterTypeOK, geoVars, layoutVars, pointerVars, osVars
  <2>2. CASE \E d \in Moves : RouterHookMove(d)
    <3>1. /\ cur' \in Point \cup {cur}
          /\ UNCHANGED <<layoutVars, pointerVars, hostMons, active>>
      BY <2>2 DEF RouterHookMove, HookMove, routerVars
    <3> QED
      BY <3>1, RouterAssumption DEF RouterTypeOK, layoutVars, pointerVars
  <2>3. CASE \E p \in Point : OnMouseMove(p)
    BY <2>3, MoveTyped
  <2>4. CASE \E c \in ConnId, mons \in ClientLayouts : RouterRegister(c, mons)
    <3>1. PICK c \in ConnId, mons \in ClientLayouts : RouterRegister(c, mons)
      BY <2>4
    <3>2. /\ placements' = EnsuredPlacements(NameOf[c]) /\ monitors' = [monitors EXCEPT ![c] = mons]
          /\ UNCHANGED <<serverMons, pointerVars, osVars, active>>
      BY <3>1 DEF RouterRegister, Register
    <3>3. DOMAIN placements' \subseteq Name
      BY <3>2, RouterAssumption DEF EnsuredPlacements, Placed, RouterTypeOK
    <3>4. \A d \in ConnId : monitors'[d] \in ClientLayouts \cup {<<>>}
      BY <3>2 DEF RouterTypeOK, PlaceInv
    <3> QED
      BY <3>2, <3>3, <3>4 DEF RouterTypeOK, pointerVars, osVars
  <2>5. CASE \E c \in ConnId, mons \in ClientLayouts : UpdateMonitors(c, mons)
    <3>1. PICK c \in ConnId, mons \in ClientLayouts : UpdateMonitors(c, mons)
      BY <2>5
    <3>2. /\ monitors' = [monitors EXCEPT ![c] = mons]
          /\ UNCHANGED <<serverMons, placements, pointerVars, osVars, active>>
      BY <3>1 DEF UpdateMonitors, vars, routerVars
    <3>3. \A d \in ConnId : monitors'[d] \in ClientLayouts \cup {<<>>}
      BY <3>2 DEF RouterTypeOK, PlaceInv
    <3> QED
      BY <3>2, <3>3 DEF RouterTypeOK, pointerVars, osVars
  <2>6. CASE \E c \in ConnId : RouterUnregister(c)
    BY <2>6, UnregisterTyped
  <2>7. CASE \E name \in Name, place \in Spots : SetPlacement(name, place)
    BY <2>7 DEF SetPlacement, Placed, RouterTypeOK, vars, routerVars, pointerVars, osVars
  <2>8. CASE \E layout \in HostLayouts : HostRelayout(layout)
    <3>1. PICK layout \in HostLayouts : HostRelayout(layout)
      BY <2>8
    <3>2. layout[1] \in Monitor
      BY RouterAssumption, DesktopFacts
    <3>3. cur' \in Place
      BY <3>1, <3>2, ClampLiesInside DEF HostRelayout, RouterTypeOK
    <3> QED
      BY <3>1, <3>3 DEF HostRelayout, RouterTypeOK, vars, routerVars, layoutVars, pointerVars
  <2>9. CASE UpdateServerMonitors
    BY <2>9 DEF UpdateServerMonitors, RouterTypeOK, vars, routerVars, pointerVars, osVars
  <2>10. CASE UNCHANGED rvars
    BY <2>10 DEF RouterTypeOK, rvars, geoVars, layoutVars, pointerVars, osVars, vars, routerVars
  <2> QED
    BY <2>1, <2>2, <2>3, <2>4, <2>5, <2>6, <2>7, <2>8, <2>9, <2>10 DEF RouterNext
<1> QED
  BY <1>1, <1>2, OffsetsAlwaysFollow, RouterImplements, TypeCorrect, PTL
  DEF RouterSpec, ImplementsInputRouting

-----------------------------------------------------------------------------
(* How grabs begin and end. *)

\* A step that takes a mouse move from the channel is onMouseMove's.
LEMMA HandledIsMove ==
  ASSUME TypeOK, Handled, [RouterNext]_rvars
  PROVE  \E p \in Point : OnMouseMove(p) /\ Head(events) = MoveEv(p)
<1>1. /\ events \in Seq(Event) /\ events # <<>> /\ events' = Tail(events)
      /\ Head(events).kind = "move" /\ running'
  BY DEF Handled, TypeOK
<1>2. events' # events /\ \A e : events' # Append(events, e)
  <2>1. Len(Tail(events)) = Len(events) - 1 /\ Len(events) \in Nat
    BY <1>1
  <2>2. \A e : Len(Append(events, e)) = Len(events) + 1
    BY <1>1
  <2>3. \A n \in Nat : n - 1 # n /\ n - 1 # n + 1
    OBVIOUS
  <2> QED
    BY <1>1, <2>1, <2>2, <2>3, Zenon
<1>3. \A e : events' # Emit(events, e)
  BY <1>2 DEF Emit
<1>4. ASSUME InputStep PROVE FALSE
  <2>1. \A i, down : InputEv(i, down).kind = "input"
    BY DEF InputEv
  <2>2. WheelEv.kind = "wheel"
    BY DEF WheelEv
  <2>3. CASE \E i \in Input : HandlePress(i) \/ HandleLift(i)
    BY <1>1, <2>1, <2>3 DEF HandlePress, HandleLift, Received
  <2>4. CASE HandleWheel
    BY <1>1, <2>2, <2>4 DEF HandleWheel, Received
  <2>5. CASE \E i \in Input, down \in BOOLEAN : HookInput(i, down)
    BY <1>2, <1>3, <2>5 DEF HookInput
  <2>6. CASE HookReturn \/ HookWheel
    BY <1>2, <1>3, <2>6 DEF HookReturn, HookWheel
  <2>7. CASE Stop
    BY <1>1, <2>7 DEF Stop
  <2>8. CASE \E c \in ConnId : Break(c) \/ CloseOnStop(c) \/ ClientDispatch(c) \/ ClientEnds(c)
    BY <1>2, <2>8 DEF Break, CloseOnStop, ClientDispatch, ClientEnds
  <2> QED
    BY <1>4, <2>3, <2>4, <2>5, <2>6, <2>7, <2>8 DEF InputStep
<1>5. ~ \E d \in Moves : RouterHookMove(d)
  BY <1>3 DEF RouterHookMove, HookMove
<1>6. ~ \E c \in ConnId, mons \in ClientLayouts : RouterRegister(c, mons) \/ UpdateMonitors(c, mons)
  BY <1>2 DEF RouterRegister, Register, UpdateMonitors, vars
<1>7. ~ \E c \in ConnId : RouterUnregister(c)
  BY <1>2 DEF RouterUnregister, Unregister
<1>8. ~ \E name \in Name, place \in Spots : SetPlacement(name, place)
  BY <1>2 DEF SetPlacement, vars
<1>9. ~ (\E layout \in HostLayouts : HostRelayout(layout)) /\ ~UpdateServerMonitors
  BY <1>2 DEF HostRelayout, UpdateServerMonitors, vars
<1>10. ~ UNCHANGED rvars
  BY <1>2 DEF rvars, vars
<1>11. PICK p \in Point : OnMouseMove(p)
  BY <1>4, <1>5, <1>6, <1>7, <1>8, <1>9, <1>10 DEF RouterNext
<1> QED
  BY <1>11 DEF OnMouseMove, Received

\* Pushing an edge behind which a client is in sight grabs a client, whatever
\* the arrangement, if no monitor of a client is thinner than the hysteresis: of
\* such a one the push would overshoot.
THEOREM PushesCross ==
  ASSUME \A layout \in ClientLayouts : \A i \in DOMAIN layout :
           layout[i].w > Hysteresis /\ layout[i].h > Hysteresis
  PROVE  RouterSpec => PushCrosses
<1> DEFINE A == Handled /\ active = NoConn /\ Pushes(Head(events).at) # {}
                  /\ EdgesAhead(Head(events).at) # {}
                  => active' # NoConn
<1>1. RouterTypeOK /\ PlaceInv /\ TypeOK /\ [RouterNext]_rvars => A
  <2> SUFFICES ASSUME RouterTypeOK, PlaceInv, TypeOK, [RouterNext]_rvars,
                      Handled, active = NoConn, Pushes(Head(events).at) # {},
                      EdgesAhead(Head(events).at) # {}
               PROVE  active' # NoConn
    OBVIOUS
  <2>1. PICK p \in Point : OnMouseMove(p) /\ Head(events) = MoveEv(p)
    BY HandledIsMove
  <2>2. Head(events).at = p
    BY <2>1 DEF MoveEv
  <2>3. p \in Place /\ Pushes(p) # {} /\ EdgesAhead(p) # {}
    BY <2>2, RouterAssumption
  <2>4. PushMove(p)
    BY <2>1, <2>3 DEF OnMouseMove, FreeMove, SyncMove, GrabbedMove
  <2> DEFINE areas == {Area(c) : c \in registered}
             q == CrossPoint(areas, Bounds(serverMons), p, PushDirection(p))
  <2>5. areas \in SUBSET Desktop /\ serverMons \in Desktop
    BY AreaIsDesktop DEF PlaceInv
  <2>6. \A a \in areas : \A i \in DOMAIN a : a[i].w > Hysteresis /\ a[i].h > Hysteresis
    <3> SUFFICES ASSUME NEW c \in registered, NEW i \in DOMAIN Area(c)
                 PROVE  Area(c)[i].w > Hysteresis /\ Area(c)[i].h > Hysteresis
      OBVIOUS
    <3>1. monitors[c] \in ClientLayouts /\ i \in DOMAIN monitors[c]
      <4>1. monitors[c] \in Desktop /\ c \in ConnId /\ i \in DOMAIN monitors[c]
        BY AreaIsDesktop DEF PlaceInv, OffsetsFollow
      <4> QED
        BY <4>1 DEF RouterTypeOK, Desktop
    <3> QED
      BY <3>1, AreaIsDesktop
  <2>7. PushDirection(p) \in {Right, Left, Bot, Top}
    BY <2>3, PushHasDirection
  <2>8. \E a \in areas : AnyContains(a, q)
    <3> HIDE DEF areas
    <3> QED
      BY <2>3, <2>5, <2>6, <2>7, CrossPointLands DEF areas, EdgesAhead
  <2>9. ClientsAt(q) # {}
    <3> HIDE DEF q
    <3> QED
      BY <2>8 DEF ClientsAt
  <2>10. \E c \in ClientsAt(q) : AcquireGrab(c)
    BY <2>4, <2>9 DEF PushMove
  <2> QED
    BY <2>10, ConstantsAssumption DEF AcquireGrab, ClientsAt, TypeOK
<1>2. RouterSpec => [][A]_rvars
  BY <1>1, RouterTyped, OffsetsAlwaysFollow, RouterImplements, TypeCorrect, PTL
  DEF RouterSpec, ImplementsInputRouting
<1> QED
  BY <1>2 DEF PushCrosses

\* A mouse move ends a grab only towards the server: an edge of the client that
\* leads nowhere holds the cursor, for every arrangement of monitors that have a
\* pixel, and whatever drags and hotplugs came before.
THEOREM ReleasesAreDeliberate ==
  ASSUME \A layout \in ClientLayouts : \A i \in DOMAIN layout :
           layout[i].w > 0 /\ layout[i].h > 0
  PROVE  RouterSpec => ReleaseIsDeliberate
<1> DEFINE A == Handled /\ active # NoConn /\ active' = NoConn =>
                  LET q == Plus(v, Minus(Head(events).at, TrapPoint))
                      c == Bounds(Area(active))
                      s == Bounds(serverMons)
                  IN  \/ AnyContains(serverMons, q)
                      \/ q.x < c.left /\ s.right <= c.left
                      \/ q.x >= c.right /\ s.left >= c.right
                      \/ q.y < c.top /\ s.bot <= c.top
                      \/ q.y >= c.bot /\ s.top >= c.bot
<1>1. RouterTypeOK /\ PlaceInv /\ TypeOK /\ [RouterNext]_rvars => A
  <2> SUFFICES ASSUME RouterTypeOK, PlaceInv, TypeOK, [RouterNext]_rvars,
                      Handled, active # NoConn, active' = NoConn
               PROVE  A
    OBVIOUS
  <2>1. PICK p \in Point : OnMouseMove(p) /\ Head(events) = MoveEv(p)
    BY HandledIsMove
  <2> DEFINE q == Plus(v, Minus(p, TrapPoint))
             w == ClampToActiveClient(q, Area(active), serverMons)
  <2>2. Head(events).at = p
    BY <2>1 DEF MoveEv
  <2>3. GrabbedMove(p) /\ ClientsAt(w) = {}
    <3>1. ~FreeMove(p) /\ ~PushMove(p)
      BY DEF FreeMove, PushMove
    <3>2. ~LeaveGrab /\ ~KeepGrab
      BY DEF LeaveGrab, KeepGrab, routerVars
    <3>3. \A c \in ClientsAt(w) : ~SwitchGrab(c)
      BY ConstantsAssumption DEF SwitchGrab, ClientsAt, TypeOK
    <3> HIDE DEF w
    <3>4. GrabbedMove(p)
      BY <2>1, <3>1, <3>2 DEF OnMouseMove, SyncMove
    <3> QED
      BY <3>2, <3>3, <3>4 DEF GrabbedMove, w
  <2>4. active \in registered
    BY DEF TypeOK
  <2>5. /\ q \in Place /\ Area(active) \in Desktop /\ serverMons \in Desktop
    BY <2>4, RouterAssumption, MotionTyped, AreaIsDesktop DEF RouterTypeOK, PlaceInv
  <2>6. \A i \in DOMAIN Area(active) : Area(active)[i].w > 0 /\ Area(active)[i].h > 0
    <3>1. monitors[active] \in ClientLayouts
      BY <2>4 DEF PlaceInv, OffsetsFollow, RouterTypeOK, Desktop
    <3> QED
      BY <2>4, <3>1, AreaIsDesktop
  <2>7. ~AnyContains(Area(active), w)
    BY <2>3, <2>4 DEF ClientsAt
  <2> HIDE DEF q
  <2> QED
    BY <2>2, <2>5, <2>6, <2>7, ClampToActiveStays DEF q
<1>2. RouterSpec => [][A]_rvars
  BY <1>1, RouterTyped, OffsetsAlwaysFollow, RouterImplements, TypeCorrect, PTL
  DEF RouterSpec, ImplementsInputRouting
<1> QED
  BY <1>2 DEF ReleaseIsDeliberate

\* A desktop without holes, wider and higher than two bands of hysteresis.
Roomy(mons) ==
  LET b == Bounds(mons)
  IN  /\ \A x \in b.left..(b.right - 1), y \in b.top..(b.bot - 1) : AnyContains(mons, Pixel(x, y))
      /\ b.right - b.left > 2 * Hysteresis /\ b.bot - b.top > 2 * Hysteresis

\* On such a desktop a parked cursor is a step away from every edge.
LEMMA ParkedInside ==
  ASSUME NEW mons \in Desktop, Roomy(mons), Hysteresis > 0, NEW q \in Place
  PROVE  LET parked == PadInside(q, Bounds(mons))
         IN  /\ parked \in Place /\ AnyContains(mons, parked)
             /\ \A d \in {Right, Left, Bot, Top} : ~AtEdge(mons, parked, d)
<1> DEFINE b == Bounds(mons)
           parked == PadInside(q, b)
<1>1. b.left \in Int /\ b.right \in Int /\ b.top \in Int /\ b.bot \in Int
  BY BoundsTyped
<1>2. b.right - b.left > 2 * Hysteresis /\ b.bot - b.top > 2 * Hysteresis
  BY DEF Roomy
<1> HIDE DEF b
<1>3. /\ parked \in Place
      /\ b.left + Hysteresis <= parked.x /\ parked.x <= b.right - 1 - Hysteresis
      /\ b.top + Hysteresis <= parked.y /\ parked.y <= b.bot - 1 - Hysteresis
  BY <1>1, <1>2, PadLiesInside
<1> HIDE DEF parked
<1>4. ASSUME NEW x \in parked.x - 1 .. parked.x + 1, NEW y \in parked.y - 1 .. parked.y + 1
      PROVE  AnyContains(mons, Pixel(x, y))
  <2>1. parked.x \in Int /\ parked.y \in Int
    BY <1>3 DEF Place
  <2>2. x \in b.left..(b.right - 1) /\ y \in b.top..(b.bot - 1)
    BY <1>1, <1>3, <2>1, HysteresisAssumption
  <2> QED
    BY <2>2 DEF Roomy, b
<1>5. parked = Pixel(parked.x, parked.y) /\ parked.x \in Int /\ parked.y \in Int
  BY <1>3 DEF Place, Pixel
<1>6. AnyContains(mons, parked)
  BY <1>4, <1>5
<1>7. ASSUME NEW d \in {Right, Left, Bot, Top}
      PROVE  AnyContains(mons, Plus(parked, d))
  <2>1. d.x \in -1..1 /\ d.y \in -1..1
    BY DEF Right, Left, Bot, Top, Pixel
  <2>2. parked.x + d.x \in parked.x - 1 .. parked.x + 1 /\ parked.y + d.y \in parked.y - 1 .. parked.y + 1
    BY <1>5, <2>1
  <2> QED
    BY <1>4, <2>2 DEF Plus
<1> QED
  BY <1>3, <1>6, <1>7 DEF AtEdge, b, parked

\* A grab that ends while its client stays is ended by a mouse move.
LEMMA EndsByMove ==
  ASSUME TypeOK, [RouterNext]_rvars, active # NoConn, active' = NoConn, UNCHANGED registered
  PROVE  \E p \in Point : OnMouseMove(p)
<1>1. ~(InputStep /\ UNCHANGED geoVars)
  BY InputKeepsGrab
<1>2. ~ \E d \in Moves : RouterHookMove(d)
  BY DEF RouterHookMove, HookMove, routerVars
<1>3. ~ \E c \in ConnId, mons \in ClientLayouts : RouterRegister(c, mons)
  BY DEF RouterRegister, Register
<1>4. ~ \E c \in ConnId : RouterUnregister(c)
  BY DEF RouterUnregister, Unregister
<1>5. ~ \E c \in ConnId, mons \in ClientLayouts : UpdateMonitors(c, mons)
  BY DEF UpdateMonitors, vars, routerVars
<1>6. ~ \E name \in Name, place \in Spots : SetPlacement(name, place)
  BY DEF SetPlacement, vars, routerVars
<1>7. ~ (\E layout \in HostLayouts : HostRelayout(layout)) /\ ~UpdateServerMonitors
  BY DEF HostRelayout, UpdateServerMonitors, vars, routerVars
<1>8. ~ UNCHANGED rvars
  BY DEF rvars, vars, routerVars
<1> QED
  BY <1>1, <1>2, <1>3, <1>4, <1>5, <1>6, <1>7, <1>8 DEF RouterNext

\* A grab does not come straight back: on a host whose monitors stay as they
\* are, fill their bounding box and are wider than two bands of hysteresis, its
\* end parks both cursors at one pixel a step away from every edge.
THEOREM ReleasesPark ==
  ASSUME HostLayouts \subseteq {FirstLayout}, Roomy(FirstLayout), Hysteresis > 0
  PROVE  RouterSpec => NoInstantRegrab
<1> DEFINE A == active # NoConn /\ active' = NoConn /\ UNCHANGED registered
                  => /\ cur' = v' /\ lastAbs' = v'
                     /\ AnyContains(serverMons, v')
                     /\ \A d \in {Right, Left, Bot, Top} : ~AtEdge(serverMons, v', d)
<1>1. RouterTypeOK /\ PlaceInv /\ TypeOK /\ [RouterNext]_rvars => A
  <2> SUFFICES ASSUME RouterTypeOK, PlaceInv, TypeOK, [RouterNext]_rvars,
                      active # NoConn, active' = NoConn, UNCHANGED registered
               PROVE  A
    OBVIOUS
  <2>1. PICK p \in Point : OnMouseMove(p)
    BY EndsByMove
  <2> DEFINE q == ClampToActiveClient(Plus(v, Minus(p, TrapPoint)), Area(active), serverMons)
             home == ClampToServer(q, serverMons)
             parked == PadInside(home, Bounds(serverMons))
  <2>2. v' = parked /\ lastAbs' = parked /\ cur' = HostClamp(parked, parked)
    <3>1. ~FreeMove(p) /\ ~PushMove(p)
      BY DEF FreeMove, PushMove
    <3>2. ~LeaveGrab /\ ~KeepGrab
      BY DEF LeaveGrab, KeepGrab, routerVars
    <3>3. \A c \in ClientsAt(q) : ~SwitchGrab(c)
      BY ConstantsAssumption DEF SwitchGrab, ClientsAt, TypeOK
    <3> HIDE DEF q
    <3>4. GrabbedMove(p)
      BY <2>1, <3>1, <3>2 DEF OnMouseMove, SyncMove
    <3> QED
      BY <3>2, <3>3, <3>4 DEF GrabbedMove, MoveCursorTo, q
  <2>3. serverMons = FirstLayout /\ hostMons = FirstLayout /\ serverMons \in Desktop
    BY DEF RouterTypeOK, PlaceInv
  <2>4. home \in Place
    <3>1. Plus(v, Minus(p, TrapPoint)) \in Place /\ Area(active) \in Desktop
      BY RouterAssumption, MotionTyped, AreaIsDesktop DEF RouterTypeOK, PlaceInv, TypeOK
    <3>2. q \in Place
      BY <2>3, <3>1, ClampToActiveTyped
    <3> HIDE DEF q
    <3> QED
      BY <2>3, <3>2, ClampToServerTyped
  <2> HIDE DEF home
  <2>5. /\ parked \in Place /\ AnyContains(serverMons, parked)
        /\ \A d \in {Right, Left, Bot, Top} : ~AtEdge(serverMons, parked, d)
    BY <2>3, <2>4, ParkedInside
  <2> HIDE DEF parked
  <2>6. cur' = parked
    BY <2>2, <2>3, <2>5 DEF HostClamp
  <2> QED
    BY <2>2, <2>5, <2>6
<1>2. RouterSpec => [][A]_rvars
  BY <1>1, RouterTyped, OffsetsAlwaysFollow, RouterImplements, TypeCorrect, PTL
  DEF RouterSpec, ImplementsInputRouting
<1> QED
  BY <1>2 DEF NoInstantRegrab
=============================================================================
