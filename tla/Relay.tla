------------------------------- MODULE Relay -------------------------------
(***************************************************************************)
(* The relay's hub for one session id (internal/relay/relay.go): a queue   *)
(* of waiters per side, the mutex-protected tryPair, enqueue and remove,   *)
(* and the goroutine of each connection between those calls.  Session ids  *)
(* do not share queues.  A name of Conn stands for one connection after    *)
(* the other.                                                              *)
(***************************************************************************)
EXTENDS Naturals, SequencesExt

CONSTANTS
  Conn,      \* names of connections accepted by the relay
  Server,    \* those whose preamble says SideServer
  NoConn

ASSUME RelayAssumption == Server \subseteq Conn /\ NoConn \notin Conn

VARIABLES
  at,        \* where handle is
  queue,     \* hub.queues, by side
  mate,      \* the connection it is to be spliced with; claimed, once it has one
  open       \* the connections not closed

vars == <<at, queue, mate, open>>

Side == {"server", "client"}
SideOf(c) == IF c \in Server THEN "server" ELSE "client"
OppositeSide(side) == IF side = "server" THEN "client" ELSE "server"
Queued(side) == {queue[side][n] : n \in DOMAIN queue[side]}
Goto(c, place) == at' = [at EXCEPT ![c] = place]

-----------------------------------------------------------------------------

Over(c) == at[c] = "done" /\ c \notin open /\ mate[c] = NoConn

\* Run accepts a connection, under a name that is free.
Accept(c) ==
  /\ Over(c)
  /\ Goto(c, "new")
  /\ open' = open \cup {c}
  /\ UNCHANGED <<queue, mate>>

ReadPreamble(c) ==
  /\ at[c] = "new"
  /\ Goto(c, "arrived")
  /\ UNCHANGED <<queue, mate, open>>

\* No preamble in time, or a bad one.
BadPreamble(c) ==
  /\ at[c] = "new"
  /\ Goto(c, "done")
  /\ open' = open \ {c}
  /\ UNCHANGED <<queue, mate>>

\* Variant of TryPair that looks at the head of the queue and leaves it there.
TryPairWithoutPop(c) ==
  LET waiters == queue[OppositeSide(SideOf(c))]
  IN  /\ at[c] = "arrived"
      /\ IF waiters = <<>>
         THEN Goto(c, "missed") /\ UNCHANGED <<queue, mate>>
         ELSE /\ Goto(c, "splicing")
              /\ mate' = [mate EXCEPT ![c] = Head(waiters), ![Head(waiters)] = c]
              /\ UNCHANGED queue
      /\ UNCHANGED open

\* Under hub.mu: claim the oldest waiter of the opposite side, if any.
TryPair(c) ==
  LET opp == OppositeSide(SideOf(c))
      waiters == queue[opp]
  IN  /\ at[c] = "arrived"
      /\ IF waiters = <<>>
         THEN Goto(c, "missed") /\ UNCHANGED <<queue, mate>>
         ELSE /\ Goto(c, "splicing")
              /\ mate' = [mate EXCEPT ![c] = Head(waiters), ![Head(waiters)] = c]
              /\ queue' = [queue EXCEPT ![opp] = Tail(waiters)]
      /\ UNCHANGED open

\* Under hub.mu again, not in one critical section with TryPair.
Enqueue(c) ==
  /\ at[c] = "missed"
  /\ Goto(c, "waiting")
  /\ queue' = [queue EXCEPT ![SideOf(c)] = Append(@, c)]
  /\ UNCHANGED <<mate, open>>

\* The two cases of the select; when both are ready either is taken.
Claimed(c) ==
  /\ at[c] = "waiting" /\ c \notin Queued(SideOf(c))
  /\ Goto(c, "done")
  /\ UNCHANGED <<queue, mate, open>>

Expire(c) ==
  /\ at[c] = "waiting"
  /\ Goto(c, "expired")
  /\ UNCHANGED <<queue, mate, open>>

\* Variant of TimeOut that closes the connection and leaves it queued.
CloseStillQueued(c) ==
  /\ at[c] = "expired"
  /\ open' = open \ {c}
  /\ Goto(c, "done")
  /\ UNCHANGED <<queue, mate>>

\* Variant of TimeOut that leaves the connection open.
TimeOutWithoutClose(c) ==
  /\ at[c] = "expired"
  /\ \/ /\ c \notin Queued(SideOf(c))
        /\ UNCHANGED queue
     \/ \E n \in DOMAIN queue[SideOf(c)] :
          /\ queue[SideOf(c)][n] = c
          /\ queue' = [queue EXCEPT ![SideOf(c)] = RemoveAt(@, n)]
  /\ Goto(c, "done")
  /\ UNCHANGED <<mate, open>>

\* remove, which finds nothing when the waiter has been claimed meanwhile, and
\* then Close.
TimeOut(c) ==
  /\ at[c] = "expired"
  /\ \/ /\ c \notin Queued(SideOf(c))
        /\ UNCHANGED queue
     \/ \E n \in DOMAIN queue[SideOf(c)] :
          /\ queue[SideOf(c)][n] = c
          /\ queue' = [queue EXCEPT ![SideOf(c)] = RemoveAt(@, n)]
  /\ open' = open \ {c}
  /\ Goto(c, "done")
  /\ UNCHANGED mate

\* Either end hung up or was closed: splice closes both.
SpliceEnds(c) ==
  /\ at[c] = "splicing"
  /\ Goto(c, "done")
  /\ open' = open \ {c, mate[c]}
  /\ mate' = [mate EXCEPT ![c] = NoConn, ![mate[c]] = NoConn]
  /\ UNCHANGED queue

-----------------------------------------------------------------------------

Init ==
  /\ at = [c \in Conn |-> "done"]
  /\ queue = [side \in Side |-> <<>>]
  /\ mate = [c \in Conn |-> NoConn]
  /\ open = {}

Handle(c) ==
  \/ Accept(c) \/ ReadPreamble(c) \/ BadPreamble(c) \/ TryPair(c)
  \/ Enqueue(c) \/ Claimed(c) \/ Expire(c) \/ TimeOut(c) \/ SpliceEnds(c)

Next == \E c \in Conn : Handle(c)

Spec == Init /\ [][Next]_vars

-----------------------------------------------------------------------------
(* Properties. *)

\* Every variable has its type.
TypeOK ==
  /\ at \in [Conn -> {"new", "arrived", "missed", "waiting", "expired", "splicing", "done"}]
  /\ queue \in [Side -> Seq(Conn)]
  /\ mate \in [Conn -> Conn \cup {NoConn}]
  /\ open \subseteq Conn

\* What tryPair hands out is usable: a queued connection stands once in the
\* queue of its side, is open and unclaimed, and its goroutine still waits.
QueueIsFresh ==
  \A side \in Side : \A n \in DOMAIN queue[side] :
    LET c == queue[side][n]
    IN  /\ SideOf(c) = side /\ c \in open /\ mate[c] = NoConn
        /\ at[c] \in {"waiting", "expired"}
        /\ \A m \in DOMAIN queue[side] : queue[side][m] = c => m = n

\* Nobody is forgotten: an open connection is on its way into the queue, in it,
\* or has a mate.  Mates are mutual and of opposite sides, and one of the two
\* goroutines splices them.
MatesMatchPlace ==
  \A c \in Conn :
    /\ at[c] \in {"new", "arrived", "missed"} => c \in open /\ mate[c] = NoConn
    /\ at[c] = "splicing" => c \in open /\ mate[c] # NoConn
    /\ mate[c] # NoConn =>
         /\ mate[mate[c]] = c /\ SideOf(mate[c]) # SideOf(c)
         /\ (at[c] = "splicing") # (at[mate[c]] = "splicing")
    /\ c \in open => \/ at[c] \in {"new", "arrived", "missed"}
                     \/ c \in Queued(SideOf(c)) \/ mate[c] # NoConn

\* The inductive invariant behind the refinement.
RelayInv == TypeOK /\ QueueIsFresh /\ MatesMatchPlace

Phase ==
  [c \in Conn |-> IF c \notin open THEN "closed"
                  ELSE IF mate[c] # NoConn THEN "joined"
                  ELSE IF at[c] = "new" THEN "new" ELSE "queued"]

R == INSTANCE Rendezvous WITH phase <- Phase

\* The relay is a rendezvous: whatever TTLs, claims and arrivals interleave, a
\* connection is joined at most once, to one of the opposite side.
ImplementsRendezvous == R!Spec
=============================================================================
