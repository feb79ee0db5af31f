--------------------------- MODULE GeometryProofs ---------------------------
(***************************************************************************)
(* What the arithmetic of Geometry returns, for every desktop: the router  *)
(* looks for extremes of finite families of monitors, clamps points and    *)
(* casts rays; RouterProofs relies on where the results lie.               *)
(***************************************************************************)
EXTENDS Geometry, FiniteSetTheorems, WellFoundedInduction, TLAPS

\* A family of integers over a finite set has a greatest member.
LEMMA FamilyHasMax ==
  ASSUME NEW S, IsFiniteSet(S), S # {}, NEW f \in [S -> Int]
  PROVE  \E i \in S : \A j \in S : f[j] <= f[i]
<1> DEFINE Greatest(T) == \E i \in T : \A j \in T : f[j] <= f[i]
           Bad == {n \in Nat : \E T \in SUBSET S :
                     T # {} /\ Cardinality(T) = n /\ ~Greatest(T)}
<1>1. SUFFICES Bad = {}
  <2>1. Cardinality(S) \in Nat
    BY FS_CardinalityType
  <2>2. Cardinality(S) \notin Bad
    BY <1>1
  <2>3. Greatest(S)
    BY <2>1, <2>2
  <2> QED
    BY <2>3
<1>2. SUFFICES ASSUME Bad # {} PROVE FALSE
  OBVIOUS
<1>3. PICK n \in Bad : \A m \in Bad : ~(<<m, n>> \in OpToRel(<, Nat))
  <2> HIDE DEF Bad
  <2>1. Bad \subseteq Nat
    BY DEF Bad
  <2> QED
    BY <1>2, <2>1, NatLessThanWellFounded, WFMin
<1>4. PICK T \in SUBSET S : T # {} /\ Cardinality(T) = n /\ ~Greatest(T)
  OBVIOUS
<1>5. PICK x \in T : TRUE
  BY <1>4
<1>6. IsFiniteSet(T) /\ Cardinality(T) \in Nat
  BY FS_Subset, FS_CardinalityType
<1>7. IsFiniteSet(T \ {x}) /\ Cardinality(T \ {x}) = Cardinality(T) - 1
  BY <1>5, <1>6, FS_RemoveElement
<1>8. Cardinality(T \ {x}) \in Nat /\ Cardinality(T \ {x}) < n /\ n \in Nat
  BY <1>4, <1>6, <1>7, FS_CardinalityType
<1>9. T \ {x} # {}
  BY <1>4, <1>5
<1>10. Cardinality(T \ {x}) \notin Bad
  <2>1. <<Cardinality(T \ {x}), n>> \in OpToRel(<, Nat)
    BY <1>8 DEF OpToRel
  <2> QED
    BY <1>3, <2>1
<1>11. Greatest(T \ {x})
  BY <1>8, <1>9, <1>10
<1>12. PICK i \in T \ {x} : \A j \in T \ {x} : f[j] <= f[i]
  BY <1>11
<1>13. Greatest(T)
  <2>1. \A j \in T : f[j] \in Int
    OBVIOUS
  <2>2. CASE f[x] <= f[i]
    BY <1>12, <2>2
  <2>3. CASE ~(f[x] <= f[i])
    BY <1>5, <1>12, <2>1, <2>3
  <2> QED
    BY <2>2, <2>3
<1> QED
  BY <1>4, <1>13

\* Hence also a least one.
LEMMA FamilyHasMin ==
  ASSUME NEW S, IsFiniteSet(S), S # {}, NEW f \in [S -> Int]
  PROVE  \E i \in S : \A j \in S : f[i] <= f[j]
<1> DEFINE g == [i \in S |-> -f[i]]
<1>1. g \in [S -> Int]
  OBVIOUS
<1>2. PICK i \in S : \A j \in S : g[j] <= g[i]
  BY <1>1, FamilyHasMax
<1> QED
  BY <1>2

\* What Min and Max choose.
LEMMA MinIs ==
  ASSUME NEW S \in SUBSET Int, NEW m \in S, \A x \in S : m <= x
  PROVE  Min(S) = m
<1>1. Min(S) \in S /\ \A y \in S : Min(S) <= y
  BY DEF Min
<1>2. Min(S) \in Int /\ m \in Int /\ Min(S) <= m /\ m <= Min(S)
  BY <1>1
<1> QED
  BY <1>2

LEMMA MaxIs ==
  ASSUME NEW S \in SUBSET Int, NEW m \in S, \A x \in S : x <= m
  PROVE  Max(S) = m
<1>1. Max(S) \in S /\ \A y \in S : Max(S) >= y
  BY DEF Max
<1>2. Max(S) \in Int /\ m \in Int /\ Max(S) >= m /\ Max(S) <= m
  BY <1>1
<1> QED
  BY <1>2

\* The corner of a desktop, and of the same desktop moved by an offset.
LEMMA CornerMoves ==
  ASSUME NEW mons \in Desktop, NEW o \in Place
  PROVE  /\ Bounds(mons).left \in Int /\ Bounds(mons).top \in Int
         /\ Bounds(mons).right \in Int
         /\ Bounds(Shifted(mons, o)).left = Bounds(mons).left + o.x
         /\ Bounds(Shifted(mons, o)).top = Bounds(mons).top + o.y
<1> DEFINE D == DOMAIN mons
           s == Shifted(mons, o)
<1>1. D = 1..Len(mons) /\ Len(mons) \in Nat \ {0}
  BY DEF Desktop
<1>2. IsFiniteSet(D) /\ D # {}
  <2>1. 1 \in 1..Len(mons) /\ 1 \in Int /\ Len(mons) \in Int
    BY <1>1
  <2>2. IsFiniteSet(1..Len(mons))
    BY <2>1, FS_Interval
  <2> QED
    BY <1>1, <2>1, <2>2
<1>3. \A i \in D : /\ mons[i].x \in Int /\ mons[i].y \in Int
                   /\ mons[i].w \in Nat
                   /\ mons[i] \in Monitor
  <2>1. \A i \in 1..Len(mons) : mons[i] \in Monitor
    BY DEF Desktop
  <2> QED
    BY <1>1, <2>1 DEF Monitor
<1>4. DOMAIN s = D /\ \A i \in D : s[i].x = mons[i].x + o.x /\ s[i].y = mons[i].y + o.y
  BY <1>3 DEF Shifted, Monitor
<1> HIDE DEF D, s
<1>5. PICK i \in D : \A j \in D : mons[i].x <= mons[j].x
  <2>1. [j \in D |-> mons[j].x] \in [D -> Int]
    BY <1>3
  <2>2. PICK i \in D : \A j \in D : [k \in D |-> mons[k].x][i] <= [k \in D |-> mons[k].x][j]
    BY <1>2, <2>1, FamilyHasMin
  <2> QED
    BY <2>2
<1>6. PICK k \in D : \A j \in D : mons[k].y <= mons[j].y
  <2>1. [j \in D |-> mons[j].y] \in [D -> Int]
    BY <1>3
  <2>2. PICK i2 \in D : \A j \in D : [l \in D |-> mons[l].y][i2] <= [l \in D |-> mons[l].y][j]
    BY <1>2, <2>1, FamilyHasMin
  <2> QED
    BY <2>2
<1>7. PICK r \in D : \A j \in D : mons[j].x + mons[j].w <= mons[r].x + mons[r].w
  <2>1. [j \in D |-> mons[j].x + mons[j].w] \in [D -> Int]
    BY <1>3
  <2>2. PICK i2 \in D : \A j \in D : [l \in D |-> mons[l].x + mons[l].w][j]
                                     <= [l \in D |-> mons[l].x + mons[l].w][i2]
    BY <1>2, <2>1, FamilyHasMax
  <2> QED
    BY <2>2
<1>8. Min({mons[j].x : j \in D}) = mons[i].x
  <2>1. {mons[j].x : j \in D} \in SUBSET Int /\ mons[i].x \in {mons[j].x : j \in D}
    BY <1>3
  <2>2. \A z \in {mons[j].x : j \in D} : mons[i].x <= z
    BY <1>5
  <2> QED
    BY <2>1, <2>2, MinIs
<1>9. Min({mons[j].y : j \in D}) = mons[k].y
  <2>1. {mons[j].y : j \in D} \in SUBSET Int /\ mons[k].y \in {mons[j].y : j \in D}
    BY <1>3
  <2>2. \A z \in {mons[j].y : j \in D} : mons[k].y <= z
    BY <1>6
  <2> QED
    BY <2>1, <2>2, MinIs
<1>10. Max({mons[j].x + mons[j].w : j \in D}) = mons[r].x + mons[r].w
  <2>1. /\ {mons[j].x + mons[j].w : j \in D} \in SUBSET Int
        /\ mons[r].x + mons[r].w \in {mons[j].x + mons[j].w : j \in D}
    BY <1>3
  <2>2. \A z \in {mons[j].x + mons[j].w : j \in D} : z <= mons[r].x + mons[r].w
    BY <1>7
  <2> QED
    BY <2>1, <2>2, MaxIs
<1>11. Min({s[j].x : j \in D}) = mons[i].x + o.x
  <2>1. {s[j].x : j \in D} \in SUBSET Int /\ mons[i].x + o.x \in {s[j].x : j \in D}
    BY <1>3, <1>4 DEF Place
  <2>2. \A z \in {s[j].x : j \in D} : mons[i].x + o.x <= z
    BY <1>3, <1>4, <1>5 DEF Place
  <2> QED
    BY <2>1, <2>2, MinIs
<1>12. Min({s[j].y : j \in D}) = mons[k].y + o.y
  <2>1. {s[j].y : j \in D} \in SUBSET Int /\ mons[k].y + o.y \in {s[j].y : j \in D}
    BY <1>3, <1>4 DEF Place
  <2>2. \A z \in {s[j].y : j \in D} : mons[k].y + o.y <= z
    BY <1>3, <1>4, <1>6 DEF Place
  <2> QED
    BY <2>1, <2>2, MinIs
<1>13. /\ Bounds(mons).left = mons[i].x /\ Bounds(mons).top = mons[k].y
       /\ Bounds(mons).right = mons[r].x + mons[r].w
  BY <1>2, <1>8, <1>9, <1>10 DEF Bounds, D
<1>14. Bounds(s).left = mons[i].x + o.x /\ Bounds(s).top = mons[k].y + o.y
  BY <1>2, <1>4, <1>11, <1>12 DEF Bounds
<1> QED
  BY <1>3, <1>13, <1>14 DEF s

\* The trap lies on one of the monitors.
LEMMA TrapInside ==
  ASSUME NEW mons \in Desktop, \A i \in DOMAIN mons : mons[i].w > 0 /\ mons[i].h > 0
  PROVE  AnyContains(mons, Trap(mons))
<1> DEFINE S == {1} \cup {j \in DOMAIN mons : mons[j].primary}
<1>1. DOMAIN mons = 1..Len(mons) /\ Len(mons) \in Nat \ {0}
  BY DEF Desktop
<1>2. 1 \in DOMAIN mons /\ S \subseteq DOMAIN mons /\ S \subseteq Int
  BY <1>1
<1>3. IsFiniteSet(S)
  <2>1. 1 \in Int /\ Len(mons) \in Int
    BY <1>1
  <2>2. IsFiniteSet(1..Len(mons))
    BY <2>1, FS_Interval
  <2> QED
    BY <1>1, <1>2, <2>2, FS_Subset
<1>4. Max(S) \in S
  <2> HIDE DEF S
  <2>1. [j \in S |-> j] \in [S -> Int]
    BY <1>2
  <2>2. S # {}
    BY DEF S
  <2>3. PICK m \in S : \A j \in S : [k \in S |-> k][j] <= [k \in S |-> k][m]
    BY <1>3, <2>1, <2>2, FamilyHasMax
  <2>4. \A j \in S : j <= m
    BY <2>3
  <2>5. Max(S) = m
    BY <1>2, <2>4, MaxIs
  <2> QED
    BY <2>5
<1>5. PICK i \in DOMAIN mons : i = Max(S)
  BY <1>2, <1>4
<1>6. /\ mons[i].x \in Int /\ mons[i].y \in Int /\ mons[i].w \in Nat \ {0}
      /\ mons[i].h \in Nat \ {0}
  <2>1. mons[i] \in Monitor
    BY <1>1 DEF Desktop
  <2> QED
    BY <2>1 DEF Monitor
<1>7. Trap(mons) = Pixel(mons[i].x + mons[i].w \div 2, mons[i].y + mons[i].h \div 2)
  BY <1>2, <1>5 DEF Trap
<1>8. Contains(mons[i], Trap(mons))
  <2>1. \A n \in Nat \ {0} : n \div 2 \in Nat /\ n \div 2 < n
    OBVIOUS
  <2> QED
    BY <1>6, <1>7, <2>1 DEF Contains, Pixel
<1> QED
  BY <1>8 DEF AnyContains

-----------------------------------------------------------------------------
(* Where points lie. *)

\* Sets of integers that are bounded on one side, finite or not, have an extreme.
LEMMA LeastOfBounded ==
  ASSUME NEW S \in SUBSET Int, S # {}, NEW lo \in Int, \A x \in S : lo <= x
  PROVE  Min(S) \in S /\ \A x \in S : Min(S) <= x
<1> DEFINE N == {n \in Nat : n + lo \in S}
<1>1. N # {}
  <2>1. PICK x \in S : TRUE
    OBVIOUS
  <2>2. x - lo \in Nat /\ (x - lo) + lo = x
    BY <2>1
  <2> QED
    BY <2>2
<1>2. PICK n \in N : \A m \in N : ~(<<m, n>> \in OpToRel(<, Nat))
  <2> HIDE DEF N
  <2>1. N \subseteq Nat
    BY DEF N
  <2> QED
    BY <1>1, <2>1, NatLessThanWellFounded, WFMin
<1>3. \A x \in S : n + lo <= x
  <2> SUFFICES ASSUME NEW x \in S PROVE n + lo <= x
    OBVIOUS
  <2>1. x - lo \in Nat /\ (x - lo) + lo = x
    OBVIOUS
  <2>2. x - lo \in N
    BY <2>1
  <2>3. ~(x - lo < n)
    BY <1>2, <2>2 DEF OpToRel
  <2> QED
    BY <2>1, <2>3
<1>4. n + lo \in S
  OBVIOUS
<1> QED
  BY <1>3, <1>4 DEF Min

LEMMA GreatestOfBounded ==
  ASSUME NEW S \in SUBSET Int, S # {}, NEW hi \in Int, \A x \in S : x <= hi
  PROVE  Max(S) \in S /\ \A x \in S : x <= Max(S)
<1> DEFINE T == {-x : x \in S}
<1>1. T \in SUBSET Int /\ T # {} /\ \A y \in T : -hi <= y
  OBVIOUS
<1>2. Min(T) \in T /\ \A y \in T : Min(T) <= y
  <2> HIDE DEF T
  <2>1. -hi \in Int
    OBVIOUS
  <2> QED
    BY <1>1, <2>1, LeastOfBounded
<1>3. PICK m \in S : Min(T) = -m
  BY <1>2
<1>4. \A x \in S : x <= m
  BY <1>2, <1>3
<1>5. Max(S) = m
  BY <1>4, MaxIs
<1> QED
  BY <1>4, <1>5

\* The arithmetic of points.
LEMMA PointArithmetic ==
  /\ Zero \in Place /\ {Right, Left, Bot, Top} \subseteq Place
  /\ \A p, d \in Place : Plus(p, d) \in Place /\ Minus(p, d) \in Place
  /\ \A x, y \in Int : Pixel(x, y) \in Place /\ Pixel(x, y).x = x /\ Pixel(x, y).y = y
BY DEF Zero, Right, Left, Bot, Top, Plus, Minus, Pixel, Place

\* The monitors of a desktop, and the desktop moved by an offset.
LEMMA DesktopFacts ==
  ASSUME NEW mons \in Desktop
  PROVE  /\ DOMAIN mons = 1..Len(mons) /\ Len(mons) \in Nat \ {0} /\ 1 \in DOMAIN mons
         /\ IsFiniteSet(DOMAIN mons)
         /\ \A i \in DOMAIN mons : mons[i] \in Monitor
<1>1. DOMAIN mons = 1..Len(mons) /\ Len(mons) \in Nat \ {0}
  BY DEF Desktop
<1>2. IsFiniteSet(1..Len(mons))
  BY <1>1, FS_Interval
<1>3. \A i \in 1..Len(mons) : mons[i] \in Monitor
  BY <1>1 DEF Desktop
<1> QED
  BY <1>1, <1>2, <1>3

LEMMA ShiftedIsDesktop ==
  ASSUME NEW mons \in Desktop, NEW o \in Place
  PROVE  /\ Shifted(mons, o) \in Desktop /\ DOMAIN Shifted(mons, o) = DOMAIN mons
         /\ \A i \in DOMAIN mons :
              Shifted(mons, o)[i].w = mons[i].w /\ Shifted(mons, o)[i].h = mons[i].h
<1>1. /\ DOMAIN mons = 1..Len(mons) /\ Len(mons) \in Nat \ {0}
      /\ \A i \in DOMAIN mons : mons[i] \in Monitor
  BY DesktopFacts
<1>2. \A i \in DOMAIN mons :
        /\ [mons[i] EXCEPT !.x = @ + o.x, !.y = @ + o.y] \in Monitor
        /\ [mons[i] EXCEPT !.x = @ + o.x, !.y = @ + o.y].w = mons[i].w
        /\ [mons[i] EXCEPT !.x = @ + o.x, !.y = @ + o.y].h = mons[i].h
  <2>1. ASSUME NEW m \in Monitor
        PROVE  LET n == [m EXCEPT !.x = @ + o.x, !.y = @ + o.y]
               IN  n \in Monitor /\ n.w = m.w /\ n.h = m.h
    <3>1. \A a, b \in Int : /\ [m EXCEPT !.x = a, !.y = b] \in Monitor
                            /\ [m EXCEPT !.x = a, !.y = b].w = m.w
                            /\ [m EXCEPT !.x = a, !.y = b].h = m.h
      BY DEF Monitor
    <3>2. m.x + o.x \in Int /\ m.y + o.y \in Int
      BY DEF Monitor, Place
    <3> QED
      BY <3>1, <3>2
  <2> QED
    BY <1>1, <2>1
<1> DEFINE s == Shifted(mons, o)
<1>3. s \in [1..Len(mons) -> Monitor]
  BY <1>1, <1>2 DEF Shifted
<1>4. s \in Seq(Monitor) /\ Len(s) = Len(mons)
  BY <1>1, <1>3
<1>5. s # <<>>
  BY <1>1, <1>4
<1> QED
  BY <1>1, <1>2, <1>3, <1>4, <1>5 DEF Shifted, Desktop

\* A clamped point lies on the monitor, if that has a pixel.
LEMMA ClampLiesInside ==
  ASSUME NEW m \in Monitor, NEW p \in Place
  PROVE  /\ ClampInto(m, p) \in Place
         /\ m.w > 0 /\ m.h > 0 => Contains(m, ClampInto(m, p))
BY DEF Monitor, Place, ClampInto, Clamp, Contains, Pixel

LEMMA TrapIsPlace ==
  ASSUME NEW mons \in Desktop
  PROVE  Trap(mons) \in Place
<1> DEFINE S == {1} \cup {j \in DOMAIN mons : mons[j].primary}
<1>1. /\ DOMAIN mons = 1..Len(mons) /\ Len(mons) \in Nat \ {0} /\ 1 \in DOMAIN mons
      /\ \A i \in DOMAIN mons : mons[i] \in Monitor
  BY DesktopFacts
<1>2. S \in SUBSET Int /\ S # {} /\ S \subseteq DOMAIN mons /\ \A x \in S : x <= Len(mons)
  BY <1>1
<1>3. Max(S) \in S
  <2> HIDE DEF S
  <2>1. Len(mons) \in Int
    BY <1>1
  <2> QED
    BY <1>2, <2>1, GreatestOfBounded
<1>4. PICK i \in DOMAIN mons : i = Max(S)
  BY <1>2, <1>3
<1>5. Trap(mons) = Pixel(mons[i].x + mons[i].w \div 2, mons[i].y + mons[i].h \div 2)
  BY <1>1, <1>4 DEF Trap
<1>6. \A n \in Nat : n \div 2 \in Nat
  OBVIOUS
<1> QED
  BY <1>1, <1>5, <1>6 DEF Monitor, Pixel, Place

\* The bounding box has integer sides.
LEMMA BoundsTyped ==
  ASSUME NEW mons \in Desktop
  PROVE  /\ Bounds(mons).left \in Int /\ Bounds(mons).right \in Int
         /\ Bounds(mons).top \in Int /\ Bounds(mons).bot \in Int
<1>1. Bounds(mons).left \in Int /\ Bounds(mons).right \in Int /\ Bounds(mons).top \in Int
  BY CornerMoves, PointArithmetic
<1> DEFINE D == DOMAIN mons
<1>2. IsFiniteSet(D) /\ D # {} /\ \A i \in D : mons[i].y + mons[i].h \in Int
  BY DesktopFacts DEF Monitor
<1>3. PICK i \in D : \A j \in D : [l \in D |-> mons[l].y + mons[l].h][j]
                                    <= [l \in D |-> mons[l].y + mons[l].h][i]
  <2>1. [j \in D |-> mons[j].y + mons[j].h] \in [D -> Int]
    BY <1>2
  <2> HIDE DEF D
  <2> QED
    BY <1>2, <2>1, FamilyHasMax
<1>4. Max({mons[j].y + mons[j].h : j \in D}) = mons[i].y + mons[i].h
  <2>1. /\ {mons[j].y + mons[j].h : j \in D} \in SUBSET Int
        /\ mons[i].y + mons[i].h \in {mons[j].y + mons[j].h : j \in D}
    BY <1>2
  <2>2. \A z \in {mons[j].y + mons[j].h : j \in D} : z <= mons[i].y + mons[i].h
    BY <1>3
  <2> QED
    BY <2>1, <2>2, MaxIs
<1>5. Bounds(mons).bot = mons[i].y + mons[i].h
  BY <1>2, <1>4 DEF Bounds
<1> QED
  BY <1>1, <1>2, <1>5

\* The first of some monitors.
LEMMA FirstOf ==
  ASSUME NEW mons \in Desktop, NEW S \in SUBSET DOMAIN mons, S # {}
  PROVE  Min(S) \in S /\ mons[Min(S)] \in Monitor
<1>1. DOMAIN mons = 1..Len(mons) /\ \A i \in DOMAIN mons : mons[i] \in Monitor
  BY DesktopFacts
<1>2. S \in SUBSET Int /\ \A x \in S : 1 <= x
  BY <1>1, DesktopFacts
<1>3. Min(S) \in S
  BY <1>2, LeastOfBounded
<1> QED
  BY <1>1, <1>3

LEMMA ClampToServerTyped ==
  ASSUME NEW mons \in Desktop, NEW p \in Place
  PROVE  ClampToServer(p, mons) \in Place
<1>1. HomeMonitor(mons) \in Monitor
  <2> DEFINE prim == {i \in DOMAIN mons : mons[i].primary}
  <2>1. CASE prim = {}
    BY <2>1, DesktopFacts DEF HomeMonitor
  <2>2. CASE prim # {}
    <3>1. prim \in SUBSET DOMAIN mons
      OBVIOUS
    <3>2. mons[Min(prim)] \in Monitor
      BY <2>2, <3>1, FirstOf
    <3> QED
      BY <2>2, <3>2 DEF HomeMonitor
  <2> QED
    BY <2>1, <2>2
<1>2. ClampInto(HomeMonitor(mons), p) \in Place
  BY <1>1, ClampLiesInside
<1> QED
  BY <1>2, PointArithmetic DEF ClampToServer

\* Parking keeps Hysteresis pixels from the edges of a box with room for them.
LEMMA PadLiesInside ==
  ASSUME NEW p \in Place, NEW b, b.left \in Int, b.right \in Int, b.top \in Int, b.bot \in Int
  PROVE  LET q == PadInside(p, b)
         IN  /\ q \in Place
             /\ b.right - b.left > 2 * Hysteresis =>
                  b.left + Hysteresis <= q.x /\ q.x <= b.right - 1 - Hysteresis
             /\ b.bot - b.top > 2 * Hysteresis =>
                  b.top + Hysteresis <= q.y /\ q.y <= b.bot - 1 - Hysteresis
<1> DEFINE pad(x, lo, hi) ==
      LET y == IF x >= hi - 1 - Hysteresis THEN hi - 1 - Hysteresis ELSE x
      IN  IF y <= lo + Hysteresis THEN lo + Hysteresis ELSE y
<1>1. ASSUME NEW x \in Int, NEW lo \in Int, NEW hi \in Int
      PROVE  /\ pad(x, lo, hi) \in Int
             /\ hi - lo > 2 * Hysteresis =>
                  lo + Hysteresis <= pad(x, lo, hi) /\ pad(x, lo, hi) <= hi - 1 - Hysteresis
  BY HysteresisAssumption
<1>2. p.x \in Int /\ p.y \in Int
  BY DEF Place
<1>3. PadInside(p, b) = Pixel(pad(p.x, b.left, b.right), pad(p.y, b.top, b.bot))
  BY DEF PadInside
<1> HIDE DEF pad
<1>4. pad(p.x, b.left, b.right) \in Int /\ pad(p.y, b.top, b.bot) \in Int
  BY <1>1, <1>2
<1>5. /\ PadInside(p, b) \in Place
      /\ PadInside(p, b).x = pad(p.x, b.left, b.right)
      /\ PadInside(p, b).y = pad(p.y, b.top, b.bot)
  BY <1>3, <1>4, PointArithmetic
<1>6. b.right - b.left > 2 * Hysteresis =>
        /\ b.left + Hysteresis <= pad(p.x, b.left, b.right)
        /\ pad(p.x, b.left, b.right) <= b.right - 1 - Hysteresis
  BY <1>1, <1>2
<1>7. b.bot - b.top > 2 * Hysteresis =>
        /\ b.top + Hysteresis <= pad(p.y, b.top, b.bot)
        /\ pad(p.y, b.top, b.bot) <= b.bot - 1 - Hysteresis
  BY <1>1, <1>2
<1> QED
  BY <1>5, <1>6, <1>7

\* The nearest point of a desktop is a pixel of it, if its monitors have any.
LEMMA NearestLiesInside ==
  ASSUME NEW cm \in Desktop, NEW p \in Place
  PROVE  /\ NearestInside(p, cm) \in Place
         /\ (\A i \in DOMAIN cm : cm[i].w > 0 /\ cm[i].h > 0)
              => AnyContains(cm, NearestInside(p, cm))
<1> DEFINE at(i) == ClampInto(cm[i], p)
           dist(i) == (p.x - at(i).x) * (p.x - at(i).x) + (p.y - at(i).y) * (p.y - at(i).y)
           best == {i \in DOMAIN cm : \A j \in DOMAIN cm : dist(i) <= dist(j)}
<1>1. \A i \in DOMAIN cm : at(i) \in Place
  BY DesktopFacts, ClampLiesInside
<1>2. \A i \in DOMAIN cm : dist(i) \in Int
  <2>1. \A x, y \in Int : x - y \in Int /\ x * y \in Int /\ x + y \in Int
    OBVIOUS
  <2>2. p.x \in Int /\ p.y \in Int /\ \A i \in DOMAIN cm : at(i).x \in Int /\ at(i).y \in Int
    BY <1>1 DEF Place
  <2> HIDE DEF at
  <2> QED
    BY <2>1, <2>2
<1> HIDE DEF dist
<1>3. best # {}
  <2>1. IsFiniteSet(DOMAIN cm) /\ DOMAIN cm # {}
    BY DesktopFacts
  <2>2. [j \in DOMAIN cm |-> dist(j)] \in [DOMAIN cm -> Int]
    BY <1>2
  <2>3. PICK i \in DOMAIN cm : \A j \in DOMAIN cm :
               [k \in DOMAIN cm |-> dist(k)][i] <= [k \in DOMAIN cm |-> dist(k)][j]
    BY <2>1, <2>2, FamilyHasMin
  <2> QED
    BY <2>3
<1>4. Min(best) \in DOMAIN cm /\ cm[Min(best)] \in Monitor
  <2>1. best \in SUBSET DOMAIN cm
    OBVIOUS
  <2> HIDE DEF best
  <2> QED
    BY <1>3, <2>1, FirstOf
<1>5. NearestInside(p, cm) = at(Min(best))
  BY <1>3 DEF NearestInside, dist
<1> HIDE DEF best
<1> QED
  BY <1>1, <1>4, <1>5, ClampLiesInside DEF AnyContains

\* Where a grabbed cursor may go: it stays on a pixel of the client, reaches the
\* server, or leaves the client on the side where the server lies.
LEMMA ClampToActiveTyped ==
  ASSUME NEW p \in Place, NEW cm \in Desktop, NEW sm \in Desktop
  PROVE  ClampToActiveClient(p, cm, sm) \in Place
<1> DEFINE c == Bounds(cm)
           s == Bounds(sm)
           jx == TowardsServer(p.x, c.left, c.right, s.left, s.right)
           jy == TowardsServer(p.y, c.top, c.bot, s.top, s.bot)
           land(x, jump, lo, hi) ==
             LET y == IF jump = {} THEN x ELSE CHOOSE j \in jump : TRUE
                 z == IF y < lo + Hysteresis THEN lo + Hysteresis ELSE y
             IN  IF z > hi - 1 - Hysteresis THEN hi - 1 - Hysteresis ELSE z
<1>1. \A x, cLo, cHi, sLo, sHi \in Int : TowardsServer(x, cLo, cHi, sLo, sHi) \subseteq Int
  BY HysteresisAssumption DEF TowardsServer
<1>2. ASSUME NEW x \in Int, NEW jump \in SUBSET Int, NEW lo \in Int, NEW hi \in Int
      PROVE  land(x, jump, lo, hi) \in Int
  <2> DEFINE y == IF jump = {} THEN x ELSE CHOOSE j \in jump : TRUE
  <2>1. y \in Int
    OBVIOUS
  <2> HIDE DEF y
  <2>2. \A t \in Int : LET z == IF t < lo + Hysteresis THEN lo + Hysteresis ELSE t
                       IN  (IF z > hi - 1 - Hysteresis THEN hi - 1 - Hysteresis ELSE z) \in Int
    BY HysteresisAssumption
  <2> QED
    BY <2>1, <2>2 DEF y
<1>3. /\ c.left \in Int /\ c.right \in Int /\ c.top \in Int /\ c.bot \in Int
      /\ s.left \in Int /\ s.right \in Int /\ s.top \in Int /\ s.bot \in Int
      /\ p.x \in Int /\ p.y \in Int
  BY BoundsTyped DEF Place
<1>4. \/ ClampToActiveClient(p, cm, sm) \in {p, NearestInside(p, cm)}
      \/ ClampToActiveClient(p, cm, sm) =
           Pixel(land(p.x, jx, s.left, s.right), land(p.y, jy, s.top, s.bot))
  BY DEF ClampToActiveClient
<1> HIDE DEF c, s, land
<1>5. jx \in SUBSET Int /\ jy \in SUBSET Int
  BY <1>1, <1>3
<1> HIDE DEF jx, jy
<1>6. land(p.x, jx, s.left, s.right) \in Int /\ land(p.y, jy, s.top, s.bot) \in Int
  BY <1>2, <1>3, <1>5
<1> QED
  BY <1>4, <1>6, NearestLiesInside, PointArithmetic

LEMMA ClampToActiveStays ==
  ASSUME NEW p \in Place, NEW cm \in Desktop, NEW sm \in Desktop,
         \A i \in DOMAIN cm : cm[i].w > 0 /\ cm[i].h > 0
  PROVE  LET c == Bounds(cm)
             s == Bounds(sm)
         IN  \/ AnyContains(cm, ClampToActiveClient(p, cm, sm))
             \/ AnyContains(sm, p)
             \/ p.x < c.left /\ s.right <= c.left
             \/ p.x >= c.right /\ s.left >= c.right
             \/ p.y < c.top /\ s.bot <= c.top
             \/ p.y >= c.bot /\ s.top >= c.bot
<1> DEFINE c == Bounds(cm)
           s == Bounds(sm)
           jx == TowardsServer(p.x, c.left, c.right, s.left, s.right)
           jy == TowardsServer(p.y, c.top, c.bot, s.top, s.bot)
<1>1. CASE AnyContains(cm, p)
  BY <1>1 DEF ClampToActiveClient
<1>2. CASE AnyContains(sm, p)
  BY <1>2
<1>3. CASE ~AnyContains(cm, p) /\ ~AnyContains(sm, p) /\ jx = {} /\ jy = {}
  <2>1. ClampToActiveClient(p, cm, sm) = NearestInside(p, cm)
    BY <1>3 DEF ClampToActiveClient
  <2> QED
    BY <2>1, NearestLiesInside
<1>4. CASE jx # {}
  BY <1>4 DEF TowardsServer
<1>5. CASE jy # {}
  BY <1>5 DEF TowardsServer
<1> QED
  BY <1>1, <1>2, <1>3, <1>4, <1>5

LEMMA DirectionsDiffer ==
  Right # Left /\ Right # Bot /\ Right # Top /\ Left # Bot /\ Left # Top /\ Bot # Top
<1>1. /\ Right.x = 1 /\ Right.y = 0 /\ Left.x = -1 /\ Left.y = 0
      /\ Bot.x = 0 /\ Bot.y = 1 /\ Top.x = 0 /\ Top.y = -1
  BY DEF Right, Left, Bot, Top, Pixel
<1> QED
  BY <1>1

\* A push ends on a pixel; when an edge is in sight and the monitors behind are
\* thicker than the hysteresis, on a pixel of one of them.
LEMMA CrossPointLands ==
  ASSUME NEW areas \in SUBSET Desktop, NEW sm \in Desktop, NEW p \in Place,
         NEW d \in {Right, Left, Bot, Top}
  PROVE  LET s == Bounds(sm)
             q == CrossPoint(areas, s, p, d)
         IN  /\ q \in Place
             /\ /\ EdgesInSight(areas, s, p, d) # {}
                /\ \A a \in areas : \A i \in DOMAIN a : a[i].w > Hysteresis /\ a[i].h > Hysteresis
                => \E a \in areas : AnyContains(a, q)
<1> DEFINE s == Bounds(sm)
           mons == UNION {{a[i] : i \in DOMAIN a} : a \in areas}
           e == EdgesInSight(areas, s, p, d)
           q == CrossPoint(areas, s, p, d)
           Thick == \A a \in areas : \A i \in DOMAIN a : a[i].w > Hysteresis /\ a[i].h > Hysteresis
<1>1. /\ s.left \in Int /\ s.right \in Int /\ s.top \in Int /\ s.bot \in Int
      /\ p.x \in Int /\ p.y \in Int /\ Hysteresis \in Nat
  BY BoundsTyped, HysteresisAssumption DEF Place
<1>2. \A m \in mons : m.x \in Int /\ m.y \in Int /\ m.w \in Nat /\ m.h \in Nat
  BY DesktopFacts DEF Monitor
<1>3. Thick => \A m \in mons : m.w > Hysteresis /\ m.h > Hysteresis
  OBVIOUS
<1>4. ASSUME NEW m \in mons, Contains(m, q)
      PROVE  \E a \in areas : AnyContains(a, q)
  <2> HIDE DEF q
  <2> QED
    BY <1>4 DEF AnyContains
<1> SUFFICES q \in Place /\ (e # {} /\ Thick => \E m \in mons : Contains(m, q))
  BY <1>4
<1>5. CASE d = Right
  <2>1. /\ e = {m.x : m \in {n \in mons : p.y >= n.y /\ p.y < n.y + n.h /\ n.x >= s.right}}
        /\ q = Pixel((IF e = {} THEN s.right ELSE Min(e)) + Hysteresis, p.y)
    BY <1>5, DirectionsDiffer DEF EdgesInSight, CrossPoint
  <2> HIDE DEF e, q, s, mons
  <2>2. e # {} => Min(e) \in e /\ Min(e) \in Int
    <3>1. e \in SUBSET Int /\ \A x \in e : s.right <= x
      BY <1>1, <1>2, <2>1
    <3> QED
      BY <1>1, <3>1, LeastOfBounded
  <2>3. q \in Place /\ (e # {} => q.x = Min(e) + Hysteresis /\ q.y = p.y)
    <3> DEFINE z == (IF e = {} THEN s.right ELSE Min(e)) + Hysteresis
    <3>1. z \in Int /\ (e # {} => z = Min(e) + Hysteresis)
      BY <1>1, <2>2
    <3> HIDE DEF z
    <3>2. q = Pixel(z, p.y)
      BY <2>1 DEF z
    <3> QED
      BY <1>1, <3>1, <3>2, PointArithmetic
  <2>4. ASSUME e # {}, Thick PROVE \E m \in mons : Contains(m, q)
    <3>1. PICK m \in mons : m.x = Min(e) /\ p.y >= m.y /\ p.y < m.y + m.h
      BY <2>1, <2>2, <2>4
    <3> QED
      BY <1>1, <1>2, <1>3, <2>3, <2>4, <3>1 DEF Contains
  <2> QED
    BY <2>3, <2>4
<1>6. CASE d = Left
  <2>1. /\ e = {m.x + m.w : m \in {n \in mons : p.y >= n.y /\ p.y < n.y + n.h
                                                   /\ n.x + n.w <= s.left}}
        /\ q = Pixel((IF e = {} THEN s.left ELSE Max(e)) - 1 - Hysteresis, p.y)
    BY <1>6, DirectionsDiffer DEF EdgesInSight, CrossPoint
  <2> HIDE DEF e, q, s, mons
  <2>2. e # {} => Max(e) \in e /\ Max(e) \in Int
    <3>1. e \in SUBSET Int /\ \A x \in e : x <= s.left
      BY <1>1, <1>2, <2>1
    <3> QED
      BY <1>1, <3>1, GreatestOfBounded
  <2>3. q \in Place /\ (e # {} => q.x = Max(e) - 1 - Hysteresis /\ q.y = p.y)
    <3> DEFINE z == (IF e = {} THEN s.left ELSE Max(e)) - 1 - Hysteresis
    <3>1. z \in Int /\ (e # {} => z = Max(e) - 1 - Hysteresis)
      BY <1>1, <2>2
    <3> HIDE DEF z
    <3>2. q = Pixel(z, p.y)
      BY <2>1 DEF z
    <3> QED
      BY <1>1, <3>1, <3>2, PointArithmetic
  <2>4. ASSUME e # {}, Thick PROVE \E m \in mons : Contains(m, q)
    <3>1. PICK m \in mons : m.x + m.w = Max(e) /\ p.y >= m.y /\ p.y < m.y + m.h
      BY <2>1, <2>2, <2>4
    <3> QED
      BY <1>1, <1>2, <1>3, <2>3, <2>4, <3>1 DEF Contains
  <2> QED
    BY <2>3, <2>4
<1>7. CASE d = Bot
  <2>1. /\ e = {m.y : m \in {n \in mons : p.x >= n.x /\ p.x < n.x + n.w /\ n.y >= s.bot}}
        /\ q = Pixel(p.x, (IF e = {} THEN s.bot ELSE Min(e)) + Hysteresis)
    BY <1>7, DirectionsDiffer DEF EdgesInSight, CrossPoint
  <2> HIDE DEF e, q, s, mons
  <2>2. e # {} => Min(e) \in e /\ Min(e) \in Int
    <3>1. e \in SUBSET Int /\ \A x \in e : s.bot <= x
      BY <1>1, <1>2, <2>1
    <3> QED
      BY <1>1, <3>1, LeastOfBounded
  <2>3. q \in Place /\ (e # {} => q.y = Min(e) + Hysteresis /\ q.x = p.x)
    <3> DEFINE z == (IF e = {} THEN s.bot ELSE Min(e)) + Hysteresis
    <3>1. z \in Int /\ (e # {} => z = Min(e) + Hysteresis)
      BY <1>1, <2>2
    <3> HIDE DEF z
    <3>2. q = Pixel(p.x, z)
      BY <2>1 DEF z
    <3> QED
      BY <1>1, <3>1, <3>2, PointArithmetic
  <2>4. ASSUME e # {}, Thick PROVE \E m \in mons : Contains(m, q)
    <3>1. PICK m \in mons : m.y = Min(e) /\ p.x >= m.x /\ p.x < m.x + m.w
      BY <2>1, <2>2, <2>4
    <3> QED
      BY <1>1, <1>2, <1>3, <2>3, <2>4, <3>1 DEF Contains
  <2> QED
    BY <2>3, <2>4
<1>8. CASE d = Top
  <2>1. /\ e = {m.y + m.h : m \in {n \in mons : p.x >= n.x /\ p.x < n.x + n.w
                                                   /\ n.y + n.h <= s.top}}
        /\ q = Pixel(p.x, (IF e = {} THEN s.top ELSE Max(e)) - 1 - Hysteresis)
    BY <1>8, DirectionsDiffer DEF EdgesInSight, CrossPoint
  <2> HIDE DEF e, q, s, mons
  <2>2. e # {} => Max(e) \in e /\ Max(e) \in Int
    <3>1. e \in SUBSET Int /\ \A x \in e : x <= s.top
      BY <1>1, <1>2, <2>1
    <3> QED
      BY <1>1, <3>1, GreatestOfBounded
  <2>3. q \in Place /\ (e # {} => q.y = Max(e) - 1 - Hysteresis /\ q.x = p.x)
    <3> DEFINE z == (IF e = {} THEN s.top ELSE Max(e)) - 1 - Hysteresis
    <3>1. z \in Int /\ (e # {} => z = Max(e) - 1 - Hysteresis)
      BY <1>1, <2>2
    <3> HIDE DEF z
    <3>2. q = Pixel(p.x, z)
      BY <2>1 DEF z
    <3> QED
      BY <1>1, <3>1, <3>2, PointArithmetic
  <2>4. ASSUME e # {}, Thick PROVE \E m \in mons : Contains(m, q)
    <3>1. PICK m \in mons : m.y + m.h = Max(e) /\ p.x >= m.x /\ p.x < m.x + m.w
      BY <2>1, <2>2, <2>4
    <3> QED
      BY <1>1, <1>2, <1>3, <2>3, <2>4, <3>1 DEF Contains
  <2> QED
    BY <2>3, <2>4
<1> QED
  BY <1>5, <1>6, <1>7, <1>8
=============================================================================
