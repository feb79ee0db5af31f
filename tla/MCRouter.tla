------------------------------ MODULE MCRouter ------------------------------
(***************************************************************************)
(* Instances of Router for TLC, scaled down: screens of a few pixels, a    *)
(* hysteresis of one pixel, a mouse that moves one pixel at a time.        *)
(***************************************************************************)
EXTENDS Router, TLC

CONSTANTS c1, c2

Screen(x, y, w, h, primary) == [x |-> x, y |-> y, w |-> w, h |-> h, primary |-> primary]

\* Motions.
Sideways == {Right, Left}
NotLeft == {Right, Bot, Top}

\* The server's desktops.
NoLayouts == {}
\* The smallest desktop with room for the hysteresis, and a wider one.
Tiny == <<Screen(0, 0, 3, 3, TRUE)>>
TinyWider == {<<Screen(0, 0, 4, 3, TRUE)>>}
TinyPixels == {Pixel(x, y) : x \in 0..4, y \in 0..3}
\* A desktop whose left and right edges are further from the trap than Settle.
Wide == <<Screen(0, 0, 5, 3, TRUE)>>
WidePixels == {Pixel(x, y) : x \in 0..4, y \in 0..2}

\* The clients' desktops.
Small == {<<Screen(0, 0, 3, 3, TRUE)>>}
SmallOrTwo == Small \cup {<<Screen(-2, 0, 2, 3, TRUE), Screen(0, 0, 2, 2, FALSE)>>}

\* Places and names.
NoSpots == {}
NoPlacements == [n \in {} |-> Zero]
SideBySide == [n \in {"a", "b"} |-> IF n = "a" THEN Pixel(5, 1) ELSE Pixel(8, 1)]
\* On the right of the server and below it, across a gap.
TwoSpots == {Pixel(6, 1), Pixel(1, 6)}
Names == {"a", "b"}
Named == (c1 :> "a") @@ (c2 :> "b")
OneName == {"a"}
OneNamed == c1 :> "a"
=============================================================================
