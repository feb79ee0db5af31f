----------------------------- MODULE RelayPool -----------------------------
(***************************************************************************)
(* The two ends that meet at the relay, with their clocks: the server's    *)
(* pool of workers (transport/relay.go) and clients that dial again with   *)
(* backoff (DialViaRelay, client.Run).  The relay itself is module Relay;  *)
(* here its waiters get their TTL.                                         *)
(*                                                                         *)
(* Time moves (Tick) when nobody has anything to do at once: dialling,     *)
(* pairing and the handshake of two live ends take none, nor does the      *)
(* news that the other end hung up.  What nothing compels (a client is     *)
(* started or ended, a session breaks) happens when the relay is at rest.  *)
(* The relay can be reached.                                               *)
(***************************************************************************)
EXTENDS Relay, FiniteSets

CONSTANTS
  Worker, Client,   \* relayPoolWorker goroutines; clients of the session id
  Owner,            \* the party each name of Conn belongs to
  PairTTL,          \* how long the relay keeps a waiter
  Patience,         \* deadline of the TLS handshake
  FirstRest,        \* backoff after the first failure
  RestCap,          \* backoff doubles while below it
  Lossy             \* the parties whose preamble may come too late

Party == Worker \cup Client

ASSUME PoolAssumption ==
  /\ Worker \cap Client = {} /\ NoConn \notin Conn
  /\ Owner \in [Conn -> Party] /\ Server = {c \in Conn : Owner[c] \in Worker}
  /\ {PairTTL, Patience, FirstRest, RestCap} \subseteq Nat \ {0}
  /\ Lossy \subseteq Party

VARIABLES
  doing,     \* "off", "dialled" (until the handshake is done), "session" or "resting"
  conn,      \* the connection a party uses
  left,      \* time until its deadline, or until it dials again
  backoff,
  hungUp,    \* connections whose party closed them, while the relay has not
  ttl        \* time until the relay gives up a waiter

ends == <<doing, conn, left, backoff, hungUp>>
poolVars == <<vars, ends, ttl>>

\* One of the two a splice copies between is closed, by its party or by the relay.
Severed(c) == ~({c, mate[c]} \subseteq open \ hungUp)

RelayBusy(c) ==
  \/ at[c] \in {"new", "arrived", "missed", "expired"}
  \/ at[c] = "waiting" /\ (c \notin Queued(SideOf(c)) \/ ttl[c] = 0)
  \/ at[c] = "splicing" /\ Severed(c)

AtRest == \A c \in Conn : ~RelayBusy(c)

-----------------------------------------------------------------------------
(* The parties. *)

FreeNames(p) == {c \in Conn : Owner[c] = p /\ Over(c)}

Dial(p) ==
  /\ (doing[p] = "off" /\ AtRest) \/ (doing[p] = "resting" /\ left[p] = 0)
  /\ FreeNames(p) # {}
  /\ LET c == CHOOSE c \in FreeNames(p) : TRUE
     IN  Accept(c) /\ conn' = [conn EXCEPT ![p] = c]
  /\ doing' = [doing EXCEPT ![p] = "dialled"]
  /\ left' = [left EXCEPT ![p] = Patience]
  /\ UNCHANGED <<backoff, hungUp, ttl>>

HangUp(p, next) ==
  /\ doing' = [doing EXCEPT ![p] = next]
  /\ hungUp' = hungUp \cup ({conn[p]} \cap open)
  /\ conn' = [conn EXCEPT ![p] = NoConn]
  /\ UNCHANGED <<vars, ttl>>

\* Variant of Longer without the cap.
LongerWithoutCap(rest) == 2 * rest

Longer(rest) == IF rest < RestCap THEN 2 * rest ELSE rest

\* The handshake failed: its deadline passed or the relay closed the pipe.
GiveUp(p) ==
  /\ doing[p] = "dialled" /\ (left[p] = 0 \/ conn[p] \notin open)
  /\ HangUp(p, "resting")
  /\ left' = [left EXCEPT ![p] = backoff[p]]
  /\ backoff' = [backoff EXCEPT ![p] = Longer(@)]

Meet(w, k) ==
  /\ doing[w] = "dialled" /\ doing[k] = "dialled"
  /\ mate[conn[w]] = conn[k] /\ {conn[w], conn[k]} \subseteq open

Handshake(w, k) ==
  /\ Meet(w, k)
  /\ doing' = [doing EXCEPT ![w] = "session", ![k] = "session"]
  /\ left' = [left EXCEPT ![w] = 0, ![k] = 0]
  /\ UNCHANGED <<vars, conn, backoff, hungUp, ttl>>

\* For whatever reason, a refused Hello included.  A worker's backoff starts
\* afresh and it dials at once; a client's goes on growing.
EndSession(p) ==
  /\ doing[p] = "session" /\ (AtRest \/ conn[p] \notin open)
  /\ HangUp(p, "resting")
  /\ left' = [left EXCEPT ![p] = IF p \in Worker THEN 0 ELSE backoff[p]]
  /\ backoff' = [backoff EXCEPT ![p] = IF p \in Worker THEN FirstRest ELSE Longer(@)]

-----------------------------------------------------------------------------
(* The relay. *)

\* Variant of Wait with a TTL that is too long.
WaitLonger(c) == Enqueue(c) /\ ttl' = [ttl EXCEPT ![c] = 2 * PairTTL]

Wait(c) == Enqueue(c) /\ ttl' = [ttl EXCEPT ![c] = PairTTL]

Elapse(c) == ttl[c] = 0 /\ Expire(c)

\* io.Copy returns on both sides.
EndOfSplice(c) == at[c] = "splicing" /\ Severed(c) /\ SpliceEnds(c)

RelayStep(c) ==
  /\ \/ ReadPreamble(c) /\ UNCHANGED ttl
     \/ Owner[c] \in Lossy /\ BadPreamble(c) /\ UNCHANGED ttl
     \/ TryPair(c) /\ UNCHANGED ttl
     \/ Wait(c)
     \/ Claimed(c) /\ ttl' = [ttl EXCEPT ![c] = 0]
     \/ Elapse(c) /\ UNCHANGED ttl
     \/ TimeOut(c) /\ UNCHANGED ttl
     \/ EndOfSplice(c) /\ UNCHANGED ttl
  /\ hungUp' = hungUp \cap open'
  /\ UNCHANGED <<doing, conn, left, backoff>>

-----------------------------------------------------------------------------
(* Time. *)

PartyBusy(p) ==
  \/ doing[p] \in {"dialled", "resting"} /\ left[p] = 0
  \/ doing[p] \in {"dialled", "session"} /\ conn[p] \notin open

Busy ==
  \/ ~AtRest
  \/ \E p \in Party : PartyBusy(p)
  \/ \E w \in Worker, k \in Client : Meet(w, k)

Tick ==
  /\ ~Busy
  /\ left' = [p \in Party |-> IF left[p] = 0 THEN 0 ELSE left[p] - 1]
  /\ ttl' = [c \in Conn |-> IF at[c] = "waiting" THEN ttl[c] - 1 ELSE 0]
  /\ UNCHANGED <<vars, doing, conn, backoff, hungUp>>

-----------------------------------------------------------------------------

PoolInit ==
  /\ Init
  /\ doing = [p \in Party |-> IF p \in Worker THEN "resting" ELSE "off"]
  /\ conn = [p \in Party |-> NoConn]
  /\ left = [p \in Party |-> 0]
  /\ backoff = [p \in Party |-> FirstRest]
  /\ hungUp = {}
  /\ ttl = [c \in Conn |-> 0]

PoolNext ==
  \/ \E p \in Party : Dial(p) \/ GiveUp(p) \/ EndSession(p)
  \/ \E w \in Worker, k \in Client : Handshake(w, k)
  \/ \E c \in Conn : RelayStep(c)
  \/ Tick

PoolSpec == PoolInit /\ [][PoolNext]_poolVars

\* What is due happens, and time passes.  Nobody must start a client or end a
\* session that both ends keep.
Due ==
  \/ \E p \in Party : \/ doing[p] # "off" /\ Dial(p)
                      \/ GiveUp(p)
                      \/ conn[p] \notin open /\ EndSession(p)
  \/ \E w \in Worker, k \in Client : Handshake(w, k)
  \/ \E c \in Conn : RelayStep(c)
  \/ Tick
FairPoolSpec == PoolSpec /\ WF_poolVars(Due)

-----------------------------------------------------------------------------
(* Properties. *)

\* However often a party comes back, the relay keeps at most two connections of
\* it: what it left behind is given up before it comes a third time.
BacklogIsBounded ==
  AtRest => \A p \in Party : Cardinality({c \in open : Owner[c] = p}) <= 2

\* The relay keeps nothing of a party that left: it closes its own end of every
\* connection the party closed.
NothingLingers == \A c \in Conn : c \in hungUp ~> c \notin open

\* "The pool stays replenished": a client that dials gets its session.
PoolServes ==
  \A k \in Client : doing[k] = "dialled" ~> doing[k] = "session"
=============================================================================
