------------------------------- MODULE Router -------------------------------
(***************************************************************************)
(* The whole Router of app/server/router.go: InputRouting's bookkeeping    *)
(* with the geometry that decides when a grab begins, moves on and ends.   *)
(* The cursor of the server's OS and the host's monitors are modelled from *)
(* how the code uses them: a move the hook lets pass is clamped to the     *)
(* desktop, a swallowed one is reported but moves nothing.                 *)
(***************************************************************************)
EXTENDS InputRouting, Geometry

CONSTANTS
  Name,              \* client names
  NameOf,            \* the name each connection says in its Hello
  Settle,            \* grabSyncSettlePx: 100 in the code
  Moves,             \* motions the hardware may report at once
  HostLayouts,       \* desktops the host may have, the first one excluded
  FirstLayout,       \* the desktop NewRouter is given
  ClientLayouts,     \* desktops a client may report
  Spots,             \* places the operator may drag a client to
  SavedPlacements    \* the placements the GUI has persisted: name -> place

ASSUME RouterAssumption ==
  /\ NameOf \in [ConnId -> Name]
  /\ Settle \in Nat
  /\ Point \cup Moves \subseteq Place
  /\ {FirstLayout} \cup HostLayouts \cup ClientLayouts \subseteq Desktop
  /\ Spots \subseteq Place
  /\ DOMAIN SavedPlacements \subseteq Name /\ IsFiniteSet(DOMAIN SavedPlacements)
  /\ \A n \in DOMAIN SavedPlacements : SavedPlacements[n] \in Place

VARIABLES
  serverMons,    \* Router.serverMons; bounding box and trap follow from it
  monitors,      \* routerClient.monitors
  offset,        \* routerClient.offsetX, offsetY
  placements,    \* Router.placements
  v,             \* vx, vy
  lastAbs,       \* lastAbsX, lastAbsY
  haveLastAbs,
  grabSyncing,
  hostMons,      \* the monitors the host's OS has
  cur            \* the cursor of the host's OS

layoutVars == <<serverMons, monitors, offset, placements>>
pointerVars == <<v, lastAbs, haveLastAbs, grabSyncing>>
osVars == <<hostMons, cur>>
geoVars == <<layoutVars, pointerVars, osVars>>
rvars == <<vars, geoVars>>

Area(c) == Shifted(monitors[c], offset[c])
ClientsAt(p) == {c \in registered : AnyContains(Area(c), p)}
TrapPoint == Trap(serverMons)
Settled(p) == LET d == Minus(p, TrapPoint)
              IN  d.x \in -Settle..Settle /\ d.y \in -Settle..Settle

\* Where the OS lets the cursor go from one of its monitors.
HostClamp(from, to) ==
  IF AnyContains(hostMons, to) THEN to
  ELSE LET here == {i \in DOMAIN hostMons : Contains(hostMons[i], from)}
       IN  IF here = {} THEN ClampInto(hostMons[1], to)
           ELSE ClampInto(hostMons[Min(here)], to)

MoveCursorTo(p) == cur' = HostClamp(p, p)

-----------------------------------------------------------------------------
(* The hook, with the position it reports. *)

RouterHookMove(d) ==
  LET p == IF consume THEN Plus(cur, d) ELSE HostClamp(cur, Plus(cur, d))
  IN  /\ p \in Point
      /\ HookMove(p)
      /\ cur' = IF consume THEN cur ELSE p
      /\ UNCHANGED <<layoutVars, pointerVars, hostMons>>

-----------------------------------------------------------------------------
(* onMouseMove. *)

\* Directions in which both this and the previous sample are at an edge.
Pushes(p) ==
  {d \in {Right, Left, Bot, Top} :
     haveLastAbs /\ AtEdge(serverMons, p, d) /\ AtEdge(serverMons, lastAbs, d)}
PushDirection(p) ==
  LET order == <<Right, Left, Bot, Top>>
  IN  order[Min({i \in 1..4 : order[i] \in Pushes(p)})]

\* Not grabbed, and the user is not pushing.
FreeMove(p) ==
  /\ active = NoConn /\ Pushes(p) = {}
  /\ v' = p /\ lastAbs' = p /\ haveLastAbs' = TRUE
  /\ LeaveGrab
  /\ UNCHANGED <<layoutVars, grabSyncing, osVars>>

\* Not grabbed, and the user pushes: a client at the point behind the edge is
\* grabbed and the cursor trapped; without one only the position is noted.
PushMove(p) ==
  LET q == CrossPoint({Area(c) : c \in registered}, Bounds(serverMons), p,
                      PushDirection(p))
  IN  /\ active = NoConn /\ Pushes(p) # {}
      /\ v' = q
      /\ \/ /\ ClientsAt(q) = {}
            /\ LeaveGrab
            /\ lastAbs' = p /\ haveLastAbs' = TRUE
            /\ UNCHANGED <<grabSyncing, cur>>
         \/ /\ \E c \in ClientsAt(q) : AcquireGrab(c)
            /\ MoveCursorTo(TrapPoint)
            /\ lastAbs' = TrapPoint
            /\ grabSyncing' = TRUE
            /\ UNCHANGED haveLastAbs
      /\ UNCHANGED <<layoutVars, hostMons>>

\* Grabbed, and the teleport to the trap may not have taken effect yet.
SyncMove(p) ==
  /\ active # NoConn /\ grabSyncing
  /\ grabSyncing' = ~Settled(p)
  /\ LeaveGrab
  /\ UNCHANGED <<layoutVars, v, lastAbs, haveLastAbs, osVars>>

\* Variant of GrabbedMove that forgets to put the cursor back to the trap.
GrabbedMoveNoRetrap(p) ==
  LET d == Minus(p, TrapPoint)
      q == ClampToActiveClient(Plus(v, d), Area(active), serverMons)
      parked == PadInside(ClampToServer(q, serverMons), Bounds(serverMons))
  IN  /\ active # NoConn /\ ~grabSyncing
      /\ \/ d = Zero /\ LeaveGrab /\ UNCHANGED <<v, lastAbs, grabSyncing, cur>>
         \/ /\ d # Zero /\ ClientsAt(q) # {}
            /\ \E c \in ClientsAt(q) : IF c = active THEN KeepGrab ELSE SwitchGrab(c)
            /\ v' = q /\ lastAbs' = p /\ cur' = p
            /\ UNCHANGED grabSyncing
         \/ /\ d # Zero /\ ClientsAt(q) = {}
            /\ ReleaseGrab
            /\ v' = parked /\ lastAbs' = parked /\ MoveCursorTo(parked)
            /\ grabSyncing' = FALSE
      /\ UNCHANGED <<layoutVars, haveLastAbs, hostMons>>

\* Grabbed: the motion since the last event moves the virtual cursor and the
\* real one goes back to the trap, or home when the virtual one left for it.
GrabbedMove(p) ==
  LET d == Minus(p, TrapPoint)
      q == ClampToActiveClient(Plus(v, d), Area(active), serverMons)
      parked == PadInside(ClampToServer(q, serverMons), Bounds(serverMons))
  IN  /\ active # NoConn /\ ~grabSyncing
      /\ \/ d = Zero /\ LeaveGrab /\ UNCHANGED <<v, lastAbs, grabSyncing, cur>>
         \/ /\ d # Zero /\ ClientsAt(q) # {}
            /\ \E c \in ClientsAt(q) : IF c = active THEN KeepGrab ELSE SwitchGrab(c)
            /\ v' = q /\ lastAbs' = TrapPoint /\ MoveCursorTo(TrapPoint)
            /\ UNCHANGED grabSyncing
         \/ /\ d # Zero /\ ClientsAt(q) = {}
            /\ ReleaseGrab
            /\ v' = parked /\ lastAbs' = parked /\ MoveCursorTo(parked)
            /\ grabSyncing' = FALSE
      /\ UNCHANGED <<layoutVars, haveLastAbs, hostMons>>

OnMouseMove(p) ==
  /\ Received(MoveEv(p))
  /\ FreeMove(p) \/ PushMove(p) \/ SyncMove(p) \/ GrabbedMove(p)

-----------------------------------------------------------------------------
(* Clients and placements. *)

\* applyPlacementAt: the top-left corner of the client's desktop goes to place.
Applied(mons, place) ==
  Minus(place, Pixel(Bounds(mons).left, Bounds(mons).top))

Placed(p, name, place) == [n \in DOMAIN p \cup {name} |-> IF n = name THEN place ELSE p[n]]

\* ensurePlacement: right of all left corners and of the server.
EnsuredPlacements(name) ==
  IF name \in DOMAIN placements THEN placements
  ELSE Placed(placements, name,
         Pixel(Max({Bounds(serverMons).right} \cup {placements[n].x : n \in DOMAIN placements}),
               Bounds(serverMons).top))

RouterRegister(c, mons) ==
  /\ Register(c)
  /\ placements' = EnsuredPlacements(NameOf[c])
  /\ monitors' = [monitors EXCEPT ![c] = mons]
  /\ offset' = [offset EXCEPT ![c] = Applied(mons, placements'[NameOf[c]])]
  /\ UNCHANGED <<serverMons, pointerVars, osVars>>

\* Variant of UpdateMonitors that keeps the offset of the old desktop.
UpdateMonitorsOnly(c, mons) ==
  /\ c \in registered
  /\ monitors' = [monitors EXCEPT ![c] = mons]
  /\ UNCHANGED <<vars, serverMons, offset, placements, pointerVars, osVars>>

\* handleClient received MonitorsChanged.
UpdateMonitors(c, mons) ==
  /\ c \in registered
  /\ monitors' = [monitors EXCEPT ![c] = mons]
  /\ offset' = [offset EXCEPT ![c] = Applied(mons, placements[NameOf[c]])]
  /\ UNCHANGED <<vars, serverMons, placements, pointerVars, osVars>>

\* Variant of SetPlacement that drops the grab of the client it moves.
SetPlacementDropsGrab(name, place) ==
  /\ placements' = Placed(placements, name, place)
  /\ offset' = [c \in ConnId |->
                  IF c \in registered /\ NameOf[c] = name
                  THEN Applied(monitors[c], place) ELSE offset[c]]
  /\ active' = IF active # NoConn /\ NameOf[active] = name THEN NoConn ELSE active
  /\ UNCHANGED <<running, registered, held, onClient, consume, hostVars, events,
                 clientVars, serverMons, monitors, pointerVars, osVars>>

\* The operator drags a client: every connection under that name moves.
SetPlacement(name, place) ==
  /\ placements' = Placed(placements, name, place)
  /\ offset' = [c \in ConnId |->
                  IF c \in registered /\ NameOf[c] = name
                  THEN Applied(monitors[c], place) ELSE offset[c]]
  /\ UNCHANGED <<vars, serverMons, monitors, pointerVars, osVars>>

\* Variant of RouterUnregister that forgets to end the trap's settling.
RouterUnregisterStillSyncing(c) ==
  /\ Unregister(c)
  /\ IF active = c
     THEN /\ v' = ClampToServer(v, serverMons)
          /\ lastAbs' = v'
          /\ MoveCursorTo(v')
     ELSE UNCHANGED <<v, lastAbs, cur>>
  /\ monitors' = [monitors EXCEPT ![c] = <<>>]
  /\ offset' = [offset EXCEPT ![c] = Zero]
  /\ UNCHANGED <<serverMons, placements, haveLastAbs, grabSyncing, hostMons>>

\* Unregister, parking the cursor when the grabbed client goes.
RouterUnregister(c) ==
  /\ Unregister(c)
  /\ IF active = c
     THEN /\ v' = ClampToServer(v, serverMons)
          /\ lastAbs' = v'
          /\ MoveCursorTo(v')
          /\ grabSyncing' = FALSE
     ELSE UNCHANGED <<v, lastAbs, cur, grabSyncing>>
  /\ monitors' = [monitors EXCEPT ![c] = <<>>]
  /\ offset' = [offset EXCEPT ![c] = Zero]
  /\ UNCHANGED <<serverMons, placements, haveLastAbs, hostMons>>

-----------------------------------------------------------------------------
(* Hotplug on the host. *)

\* The OS rearranges its monitors and keeps its cursor on one of them...
HostRelayout(layout) ==
  /\ hostMons' = layout
  /\ cur' = IF AnyContains(layout, cur) THEN cur ELSE ClampInto(layout[1], cur)
  /\ UNCHANGED <<vars, layoutVars, pointerVars>>

\* ...and the snapshot reaches the router later.
UpdateServerMonitors ==
  /\ serverMons # hostMons
  /\ serverMons' = hostMons
  /\ UNCHANGED <<vars, monitors, offset, placements, pointerVars, osVars>>

-----------------------------------------------------------------------------

RouterInit ==
  /\ Init
  /\ serverMons = FirstLayout /\ hostMons = FirstLayout
  /\ monitors = [c \in ConnId |-> <<>>]
  /\ offset = [c \in ConnId |-> Zero]
  /\ placements = SavedPlacements
  /\ v = Trap(FirstLayout) /\ cur = Trap(FirstLayout)
  /\ lastAbs = Zero /\ haveLastAbs = FALSE /\ grabSyncing = FALSE

\* Steps of InputRouting that leave the pointer and the layout alone.
InputStep ==
  \/ \E i \in Input : HandlePress(i) \/ HandleLift(i)
  \/ HandleWheel
  \/ \E i \in Input, down \in BOOLEAN : HookInput(i, down)
  \/ HookReturn \/ HookWheel
  \/ Stop
  \/ \E c \in ConnId : Break(c) \/ CloseOnStop(c) \/ ClientDispatch(c) \/ ClientEnds(c)

RouterNext ==
  \/ InputStep /\ UNCHANGED geoVars
  \/ \E d \in Moves : RouterHookMove(d)
  \/ \E p \in Point : OnMouseMove(p)
  \/ \E c \in ConnId, mons \in ClientLayouts : RouterRegister(c, mons) \/ UpdateMonitors(c, mons)
  \/ \E c \in ConnId : RouterUnregister(c)
  \/ \E name \in Name, place \in Spots : SetPlacement(name, place)
  \/ \E layout \in HostLayouts : HostRelayout(layout)
  \/ UpdateServerMonitors

RouterSpec == RouterInit /\ [][RouterNext]_rvars

-----------------------------------------------------------------------------
(* Properties. *)

\* The step takes a mouse move from the channel and nothing is fed back.
Handled ==
  /\ running' /\ events # <<>> /\ events' = Tail(events)
  /\ Head(events).kind = "move"

\* The variables of this module have their types, and the trap is only waited
\* for while a client is grabbed.
RouterTypeOK ==
  /\ DOMAIN placements \subseteq Name
  /\ \A c \in ConnId : monitors[c] \in ClientLayouts \cup {<<>>}
  /\ haveLastAbs \in BOOLEAN
  /\ grabSyncing \in BOOLEAN /\ (grabSyncing => active # NoConn)
  /\ {serverMons, hostMons} \subseteq HostLayouts \cup {FirstLayout}
  /\ {v, lastAbs, cur} \subseteq Place

\* Every behaviour of the router with its geometry is one of InputRouting, so
\* what holds of held inputs and frames there holds of the whole router.
ImplementsInputRouting == Spec

\* A connected client's desktop has its top-left corner exactly where its name
\* is placed, however drags, reconnections and its own hotplug interleave.
PlacedWhereAsked ==
  \A c \in registered :
    /\ NameOf[c] \in DOMAIN placements
    /\ LET b == Bounds(Area(c)) IN Pixel(b.left, b.top) = placements[NameOf[c]]

\* The inductive invariant behind it: an offset is always that of the latest
\* desktop and the latest place, and all of them are well formed.
OffsetsFollow ==
  \A c \in registered :
    /\ monitors[c] \in Desktop
    /\ NameOf[c] \in DOMAIN placements
    /\ offset[c] = Applied(monitors[c], placements[NameOf[c]])
PlaceInv ==
  /\ serverMons \in Desktop /\ hostMons \in Desktop
  /\ IsFiniteSet(DOMAIN placements)
  /\ \A n \in DOMAIN placements : placements[n] \in Place
  /\ registered \subseteq ConnId
  /\ DOMAIN monitors = ConnId /\ DOMAIN offset = ConnId
  /\ OffsetsFollow

\* A grab ends with the real and the virtual cursor at the same pixel of the
\* server, from which no single move of the mouse counts as pushing an edge:
\* the hysteresis of the release keeps the grab from coming straight back.
NoInstantRegrab ==
  [][active # NoConn /\ active' = NoConn /\ UNCHANGED registered
       => /\ cur' = v' /\ lastAbs' = v'
          /\ AnyContains(serverMons, v')
          /\ \A d \in {Right, Left, Bot, Top} : ~AtEdge(serverMons, v', d)]_rvars

\* A mouse move ends a grab only when it takes the cursor onto the server or
\* out of the client on the side where the server lies.  An edge of the client
\* that leads nowhere holds the cursor, whatever drags and hotplugs came before.
ReleaseIsDeliberate ==
  [][Handled /\ active # NoConn /\ active' = NoConn =>
       LET q == Plus(v, Minus(Head(events).at, TrapPoint))
           c == Bounds(Area(active))
           s == Bounds(serverMons)
       IN  \/ AnyContains(serverMons, q)
           \/ q.x < c.left /\ s.right <= c.left
           \/ q.x >= c.right /\ s.left >= c.right
           \/ q.y < c.top /\ s.bot <= c.top
           \/ q.y >= c.bot /\ s.top >= c.bot]_rvars

\* The edges of clients that lie in the direction of the push.
EdgesAhead(p) ==
  EdgesInSight({Area(c) : c \in registered}, Bounds(serverMons), p, PushDirection(p))

\* Pushing an edge behind which a client is in sight grabs a client, across
\* whatever gap lies between them.
PushCrosses ==
  [][Handled /\ active = NoConn /\ Pushes(Head(events).at) # {}
       /\ EdgesAhead(Head(events).at) # {}
       => active' # NoConn]_rvars

\* While a client is grabbed the real cursor rests at the trap point, so that
\* the next event carries pure hardware motion and the grab cannot freeze.
TrapHolds == running /\ active # NoConn => cur = TrapPoint

\* Once the grab is in sync, the next event differs from the trap point by one
\* motion of the hardware: nothing else is ever added to the virtual cursor.
DeltaIsMotion ==
  running /\ active # NoConn /\ ~grabSyncing /\ events # <<>> /\ Head(events).kind = "move"
    => Minus(Head(events).at, TrapPoint) \in Moves \cup {Zero}
=============================================================================
