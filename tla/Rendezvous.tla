----------------------------- MODULE Rendezvous -----------------------------
(***************************************************************************)
(* What the relay promises its callers (internal/relay): a connection that *)
(* announced itself is joined to one connection of the opposite side, for  *)
(* good and exclusively, or it is closed.                                  *)
(***************************************************************************)
CONSTANTS
  Conn,      \* names of connections to the relay
  Server,    \* those that announce the server side; the others are clients
  NoConn

VARIABLES
  phase,     \* "new", "queued", "joined" or "closed"
  mate       \* the connection it was joined to

vars == <<phase, mate>>

Opposite(a, b) == (a \in Server) # (b \in Server)

Init ==
  /\ phase = [c \in Conn |-> "closed"]
  /\ mate = [c \in Conn |-> NoConn]

\* The name of a connection that is over stands for a new one.
Renew(c) ==
  /\ phase[c] = "closed" /\ mate[c] = NoConn
  /\ phase' = [phase EXCEPT ![c] = "new"]
  /\ UNCHANGED mate

Arrive(c) ==
  /\ phase[c] = "new"
  /\ phase' = [phase EXCEPT ![c] = "queued"]
  /\ UNCHANGED mate

Join(a, b) ==
  /\ phase[a] = "queued" /\ phase[b] = "queued" /\ Opposite(a, b)
  /\ phase' = [phase EXCEPT ![a] = "joined", ![b] = "joined"]
  /\ mate' = [mate EXCEPT ![a] = b, ![b] = a]

\* A connection that was never joined is turned away.
TurnAway(c) ==
  /\ phase[c] \in {"new", "queued"}
  /\ phase' = [phase EXCEPT ![c] = "closed"]
  /\ UNCHANGED mate

\* One end of a joined pair is closed.
Cut(a) ==
  /\ phase[a] = "joined"
  /\ phase' = [phase EXCEPT ![a] = "closed"]
  /\ UNCHANGED mate

\* A joined pair is closed at both ends and over.
Part(a, b) ==
  /\ mate[a] = b /\ phase[a] = "joined" /\ phase[b] \in {"joined", "closed"}
  /\ phase' = [phase EXCEPT ![a] = "closed", ![b] = "closed"]
  /\ mate' = [mate EXCEPT ![a] = NoConn, ![b] = NoConn]

Next ==
  \/ \E c \in Conn : Renew(c) \/ Arrive(c) \/ TurnAway(c) \/ Cut(c)
  \/ \E a, b \in Conn : Join(a, b) \/ Part(a, b)

Spec == Init /\ [][Next]_vars
=============================================================================
