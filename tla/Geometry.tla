------------------------------ MODULE Geometry ------------------------------
(***************************************************************************)
(* The arithmetic of the virtual desktop in app/server/router.go.  A       *)
(* desktop is a sequence of monitors [x, y, w, h, primary]; the server's   *)
(* stand at their own coordinates, a client's are shifted to where the     *)
(* operator placed it.  Pixels are integers: coordinates are far from the  *)
(* ends of int32.                                                          *)
(***************************************************************************)
EXTENDS Integers, Sequences, FiniteSetsExt

CONSTANT Hysteresis   \* grabHysteresis: 30 in the code

ASSUME HysteresisAssumption == Hysteresis \in Nat

\* Enumerate reports at least one monitor, or an error.
Monitor == [x : Int, y : Int, w : Nat, h : Nat, primary : BOOLEAN]
Desktop == Seq(Monitor) \ {<<>>}
Place == [x : Int, y : Int]

Pixel(x, y) == [x |-> x, y |-> y]
Plus(p, d) == Pixel(p.x + d.x, p.y + d.y)
Minus(p, q) == Pixel(p.x - q.x, p.y - q.y)
Zero == Pixel(0, 0)
Right == Pixel(1, 0)
Left == Pixel(-1, 0)
Bot == Pixel(0, 1)
Top == Pixel(0, -1)

Contains(m, p) ==
  p.x >= m.x /\ p.x < m.x + m.w /\ p.y >= m.y /\ p.y < m.y + m.h

AnyContains(mons, p) == \E i \in DOMAIN mons : Contains(mons[i], p)

\* The desktop of a client whose top-left corner is moved by the offset.
Shifted(mons, offset) ==
  [i \in DOMAIN mons |-> [mons[i] EXCEPT !.x = @ + offset.x, !.y = @ + offset.y]]

\* The bounding box, right and bottom exclusive; all zero without a monitor.
Bounds(mons) ==
  IF DOMAIN mons = {}
  THEN [left |-> 0, right |-> 0, top |-> 0, bot |-> 0]
  ELSE [left  |-> Min({mons[i].x : i \in DOMAIN mons}),
        right |-> Max({mons[i].x + mons[i].w : i \in DOMAIN mons}),
        top   |-> Min({mons[i].y : i \in DOMAIN mons}),
        bot   |-> Max({mons[i].y + mons[i].h : i \in DOMAIN mons})]

\* Centre of the primary monitor (the last one that says so), else the first.
Trap(mons) ==
  IF DOMAIN mons = {} THEN Zero
  ELSE LET i == Max({1} \cup {j \in DOMAIN mons : mons[j].primary})
       IN  Pixel(mons[i].x + mons[i].w \div 2, mons[i].y + mons[i].h \div 2)

\* x brought into lo..hi, or to lo when the interval is empty.
Clamp(x, lo, hi) == IF x < lo THEN lo ELSE IF x > hi THEN hi ELSE x
ClampInto(m, p) ==
  Pixel(Clamp(p.x, m.x, m.x + m.w - 1), Clamp(p.y, m.y, m.y + m.h - 1))

\* The first primary monitor, else the first.
HomeMonitor(mons) ==
  LET prim == {i \in DOMAIN mons : mons[i].primary}
  IN  mons[IF prim = {} THEN 1 ELSE Min(prim)]

ClampToServer(p, mons) ==
  IF AnyContains(mons, p) THEN p
  ELSE IF DOMAIN mons = {} THEN Zero
  ELSE ClampInto(HomeMonitor(mons), p)

\* Variant of padInsideServer that leaves the cursor at the edge it hits.
PadToEdge(p, b) == Pixel(Clamp(p.x, b.left, b.right - 1), Clamp(p.y, b.top, b.bot - 1))

\* padInsideServer: the lower edge is looked at last and wins.
PadInside(p, b) ==
  LET pad(x, lo, hi) ==
        LET y == IF x >= hi - 1 - Hysteresis THEN hi - 1 - Hysteresis ELSE x
        IN  IF y <= lo + Hysteresis THEN lo + Hysteresis ELSE y
  IN  Pixel(pad(p.x, b.left, b.right), pad(p.y, b.top, b.bot))

-----------------------------------------------------------------------------
(* clampToActiveClient: what becomes of a grabbed cursor moved to p, when  *)
(* the client has the desktop cm and the server sm.                        *)

\* Along one axis: out of the client on the side where the server lies.
TowardsServer(x, cLo, cHi, sLo, sHi) ==
  IF x < cLo /\ sHi <= cLo THEN {sHi - 1 - Hysteresis}
  ELSE IF x >= cHi /\ sLo >= cHi THEN {sLo + Hysteresis}
  ELSE {}

\* The point of the client's monitors nearest to p, the first of equals.
NearestInside(p, cm) ==
  LET at(i) == ClampInto(cm[i], p)
      dist(i) == (p.x - at(i).x) * (p.x - at(i).x) + (p.y - at(i).y) * (p.y - at(i).y)
      best == {i \in DOMAIN cm : \A j \in DOMAIN cm : dist(i) <= dist(j)}
  IN  IF best = {} THEN Zero ELSE at(Min(best))

\* Variant of ClampToActiveClient without a wall behind a client's far edges.
NoWall(p, cm, sm) == p

ClampToActiveClient(p, cm, sm) ==
  IF AnyContains(cm, p) \/ AnyContains(sm, p) THEN p
  ELSE LET c == Bounds(cm)
           s == Bounds(sm)
           jx == TowardsServer(p.x, c.left, c.right, s.left, s.right)
           jy == TowardsServer(p.y, c.top, c.bot, s.top, s.bot)
           land(x, jump, lo, hi) ==
             LET y == IF jump = {} THEN x ELSE CHOOSE j \in jump : TRUE
                 z == IF y < lo + Hysteresis THEN lo + Hysteresis ELSE y
             IN  IF z > hi - 1 - Hysteresis THEN hi - 1 - Hysteresis ELSE z
       IN  IF jx = {} /\ jy = {} THEN NearestInside(p, cm)
           ELSE Pixel(land(p.x, jx, s.left, s.right), land(p.y, jy, s.top, s.bot))

-----------------------------------------------------------------------------
(* Edge pushing and raycasting. *)

\* The cursor at p cannot go one pixel further in direction d.
AtEdge(mons, p, d) == ~AnyContains(mons, Plus(p, d))

\* Edges of the client monitors in areas that a ray from the bounding box s
\* meets in direction d, when it runs at p.
EdgesInSight(areas, s, p, d) ==
  LET mons == UNION {{a[i] : i \in DOMAIN a} : a \in areas}
      inRow == {m \in mons : p.y >= m.y /\ p.y < m.y + m.h}
      inColumn == {m \in mons : p.x >= m.x /\ p.x < m.x + m.w}
  IN  CASE d = Right -> {m.x : m \in {n \in inRow : n.x >= s.right}}
        [] d = Left  -> {m.x + m.w : m \in {n \in inRow : n.x + n.w <= s.left}}
        [] d = Bot   -> {m.y : m \in {n \in inColumn : n.y >= s.bot}}
        [] d = Top   -> {m.y + m.h : m \in {n \in inColumn : n.y + n.h <= s.top}}

\* Variant of CrossPoint that ignores the gap between server and client.
CrossPointAtServer(areas, s, p, d) ==
  CASE d = Right -> Pixel(s.right + Hysteresis, p.y)
    [] d = Left  -> Pixel(s.left - 1 - Hysteresis, p.y)
    [] d = Bot   -> Pixel(p.x, s.bot + Hysteresis)
    [] d = Top   -> Pixel(p.x, s.top - 1 - Hysteresis)

\* Where a push in direction d puts the virtual cursor: Hysteresis pixels past
\* the nearest edge in sight, or past the server's own edge.
CrossPoint(areas, s, p, d) ==
  LET e == EdgesInSight(areas, s, p, d)
  IN  CASE d = Right -> Pixel((IF e = {} THEN s.right ELSE Min(e)) + Hysteresis, p.y)
        [] d = Left  -> Pixel((IF e = {} THEN s.left ELSE Max(e)) - 1 - Hysteresis, p.y)
        [] d = Bot   -> Pixel(p.x, (IF e = {} THEN s.bot ELSE Min(e)) + Hysteresis)
        [] d = Top   -> Pixel(p.x, (IF e = {} THEN s.top ELSE Max(e)) - 1 - Hysteresis)
=============================================================================
