-------------------------- MODULE MCClipboardSync --------------------------
\* Instances of ClipboardSync for TLC.
EXTENDS ClipboardSync, TLC
CONSTANTS a, b, text, picture
\* All clipboards start empty but one that holds the text.
TextOnB == {[n \in Node |-> IF n = b THEN [item |-> text, raw |-> TRUE] ELSE Nothing]}
\* The client with Linux has one session, the other loses its first and begins another.
OneAndTwo == (a :> 1) @@ (b :> 2)
=============================================================================
