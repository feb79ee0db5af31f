---------------------------- MODULE ServerLocks ----------------------------
(***************************************************************************)
(* The goroutines of the server that share sessions, and the two kinds of  *)
(* mutex they block on: Router.mu, held for a whole handler, and           *)
(* Session.mu, held for a whole write (app/server, transport/session.go).  *)
(* A write blocks while the peer does not read.                            *)
(*                                                                         *)
(*   Loop      Router.Run: takes r.mu for an event and, under it, sends to *)
(*             the clients that the event concerns                         *)
(*   Watcher   clipboardHub.watchLocal, and the broadcasts it makes        *)
(*   ConnId    handleClient, one goroutine per connection                  *)
(*                                                                         *)
(* clipboardHub.mu is never held while blocking; what it guards is taken   *)
(* in the step that needs it.  A connection is not used again.             *)
(***************************************************************************)
EXTENDS Naturals

CONSTANTS
  ConnId,
  Loop, Watcher,   \* the two goroutines that are not handlers
  Nobody,          \* the holder of a free mutex
  Closed,          \* the socket of a session that is closed or lost
  Buffer           \* frames a socket takes while its peer does not read

Thread == ConnId \cup {Loop, Watcher}

ASSUME ThreadsAssumption ==
  /\ Loop \notin ConnId /\ Watcher \notin ConnId /\ Loop # Watcher
  /\ Nobody \notin Thread
  /\ Buffer \in Nat \ {0} /\ Closed \notin Nat

VARIABLES
  serving,      \* the context is not cancelled
  at,           \* where each goroutine is
  todo,         \* sessions the goroutine still has to send to
  timed,        \* it sends with SendWithTimeout
  routerMu,     \* holder of Router.mu
  sessionMu,    \* holder of each Session.mu
  registered,   \* keys of Router.clients
  inHub,        \* keys of clipboardHub.sessions
  socket        \* frames it still takes without blocking; or Closed

vars == <<serving, at, todo, timed, routerMu, sessionMu, registered, inHub, socket>>

IsOpen(c) == socket[c] # Closed

\* at[t] is [pc |-> "sending", to |-> c] while t waits for, or holds, c's mutex.
Place ==
  [pc : {"new", "joining", "recv", "updating", "returning", "leaving", "closing",
         "idle", "event", "sends", "sending", "gone"},
   to : ConnId \cup {Nobody}]
At(pc) == [pc |-> pc, to |-> Nobody]
Sending(c) == [pc |-> "sending", to |-> c]
Rest(t) == IF t \in ConnId THEN At("recv") ELSE At("idle")
Goto(t, place) == at' = [at EXCEPT ![t] = place]

-----------------------------------------------------------------------------
(* Sending to the sessions in todo, one after the other. *)

BeginSends(t, peers, withTimeout) ==
  /\ todo' = [todo EXCEPT ![t] = peers]
  /\ timed' = [timed EXCEPT ![t] = withTimeout]
  /\ Goto(t, At("sends"))

NextSend(t) ==
  /\ at[t] = At("sends")
  /\ \E c \in todo[t] :
       /\ Goto(t, Sending(c))
       /\ todo' = [todo EXCEPT ![t] = @ \ {c}]
  /\ UNCHANGED <<serving, timed, routerMu, sessionMu, registered, inHub, socket>>

LockSession(t) ==
  /\ at[t].pc = "sending"
  /\ sessionMu[at[t].to] = Nobody
  /\ sessionMu' = [sessionMu EXCEPT ![at[t].to] = t]
  /\ UNCHANGED <<serving, at, todo, timed, routerMu, registered, inHub, socket>>

Writing(t, c) == at[t] = Sending(c) /\ sessionMu[c] = t

\* Variant of WriteFits that does not wait for the peer.
WriteNeverBlocks(t, c) ==
  /\ Writing(t, c)
  /\ IsOpen(c)
  /\ socket' = [socket EXCEPT ![c] = @ - 1]
  /\ sessionMu' = [sessionMu EXCEPT ![c] = Nobody]
  /\ Goto(t, At("sends"))
  /\ UNCHANGED <<serving, todo, timed, routerMu, registered, inHub>>

WriteFits(t, c) ==
  /\ Writing(t, c)
  /\ IsOpen(c) /\ socket[c] > 0
  /\ socket' = [socket EXCEPT ![c] = @ - 1]
  /\ sessionMu' = [sessionMu EXCEPT ![c] = Nobody]
  /\ Goto(t, At("sends"))
  /\ UNCHANGED <<serving, todo, timed, routerMu, registered, inHub>>

\* The router ignores the error and a broadcast closes the session; a handler
\* that cannot answer a Ping returns.
WriteFails(t, c) ==
  /\ Writing(t, c)
  /\ ~IsOpen(c)
  /\ sessionMu' = [sessionMu EXCEPT ![c] = Nobody]
  /\ Goto(t, IF t = c THEN At("returning") ELSE At("sends"))
  /\ UNCHANGED <<serving, todo, timed, routerMu, registered, inHub, socket>>

\* Only the write that holds the mutex has the deadline of SendWithTimeout.
WriteTimesOut(t, c) ==
  /\ Writing(t, c)
  /\ timed[t] /\ socket[c] = 0
  /\ socket' = [socket EXCEPT ![c] = Closed]
  /\ sessionMu' = [sessionMu EXCEPT ![c] = Nobody]
  /\ Goto(t, At("sends"))
  /\ UNCHANGED <<serving, todo, timed, routerMu, registered, inHub>>

\* Variant of EndSends that leaves the router locked.
EndSendsStillLocked(t) ==
  /\ at[t] = At("sends") /\ todo[t] = {}
  /\ Goto(t, Rest(t))
  /\ timed' = [timed EXCEPT ![t] = FALSE]
  /\ UNCHANGED <<serving, todo, routerMu, sessionMu, registered, inHub, socket>>

EndSends(t) ==
  /\ at[t] = At("sends") /\ todo[t] = {}
  /\ Goto(t, Rest(t))
  /\ timed' = [timed EXCEPT ![t] = FALSE]
  /\ routerMu' = IF t = Loop THEN Nobody ELSE routerMu
  /\ UNCHANGED <<serving, todo, sessionMu, registered, inHub, socket>>

SendStep(t) ==
  \/ NextSend(t) \/ LockSession(t) \/ EndSends(t)
  \/ \E c \in ConnId : WriteFits(t, c) \/ WriteFails(t, c) \/ WriteTimesOut(t, c)

-----------------------------------------------------------------------------
(* Router.Run and clipboardHub.watchLocal. *)

TakeEvent ==
  /\ serving /\ at[Loop] = At("idle")
  /\ Goto(Loop, At("event"))
  /\ UNCHANGED <<serving, todo, timed, routerMu, sessionMu, registered, inHub, socket>>

\* handleEvent: no client, the grabbed one, or the two of a switch.
HandleEvent ==
  /\ at[Loop] = At("event")
  /\ routerMu = Nobody /\ routerMu' = Loop
  /\ \E clients \in SUBSET registered : BeginSends(Loop, clients, FALSE)
  /\ UNCHANGED <<serving, sessionMu, registered, inHub, socket>>

StopLoop ==
  /\ ~serving /\ at[Loop] = At("idle")
  /\ Goto(Loop, At("gone"))
  /\ UNCHANGED <<serving, todo, timed, routerMu, sessionMu, registered, inHub, socket>>

LocalClipboard ==
  /\ serving /\ at[Watcher] = At("idle")
  /\ BeginSends(Watcher, inHub, TRUE)
  /\ UNCHANGED <<serving, routerMu, sessionMu, registered, inHub, socket>>

StopWatcher ==
  /\ ~serving /\ at[Watcher] = At("idle")
  /\ Goto(Watcher, At("gone"))
  /\ UNCHANGED <<serving, todo, timed, routerMu, sessionMu, registered, inHub, socket>>

-----------------------------------------------------------------------------
(* handleClient. *)

Accept(c) ==
  /\ serving /\ at[c] = At("new")
  /\ Goto(c, At("joining"))
  /\ socket' = [socket EXCEPT ![c] = Buffer]
  /\ UNCHANGED <<serving, todo, timed, routerMu, sessionMu, registered, inHub>>

Register(c) ==
  /\ at[c] = At("joining") /\ routerMu = Nobody
  /\ registered' = registered \cup {c}
  /\ inHub' = inHub \cup {c}
  /\ Goto(c, At("recv"))
  /\ UNCHANGED <<serving, todo, timed, routerMu, sessionMu, socket>>

RecvPing(c) ==
  /\ at[c] = At("recv") /\ IsOpen(c)
  /\ BeginSends(c, {c}, FALSE)
  /\ UNCHANGED <<serving, routerMu, sessionMu, registered, inHub, socket>>

RecvClipboard(c) ==
  /\ at[c] = At("recv") /\ IsOpen(c)
  /\ BeginSends(c, inHub \ {c}, TRUE)
  /\ UNCHANGED <<serving, routerMu, sessionMu, registered, inHub, socket>>

RecvMonitors(c) ==
  /\ at[c] = At("recv") /\ IsOpen(c)
  /\ Goto(c, At("updating"))
  /\ UNCHANGED <<serving, todo, timed, routerMu, sessionMu, registered, inHub, socket>>

UpdateMonitors(c) ==
  /\ at[c] = At("updating") /\ routerMu = Nobody
  /\ Goto(c, At("recv"))
  /\ UNCHANGED <<serving, todo, timed, routerMu, sessionMu, registered, inHub, socket>>

\* A Bye, a closed session, or 15 s without a message.
RecvEnds(c) ==
  /\ at[c] = At("recv")
  /\ Goto(c, At("returning"))
  /\ UNCHANGED <<serving, todo, timed, routerMu, sessionMu, registered, inHub, socket>>

\* The deferred calls, last one first.
LeaveHub(c) ==
  /\ at[c] = At("returning")
  /\ inHub' = inHub \ {c}
  /\ Goto(c, At("leaving"))
  /\ UNCHANGED <<serving, todo, timed, routerMu, sessionMu, registered, socket>>

\* Variant of Unregister that does not take the router's mutex.
UnregisterUnlocked(c) ==
  /\ at[c] = At("leaving")
  /\ registered' = registered \ {c}
  /\ Goto(c, At("closing"))
  /\ UNCHANGED <<serving, todo, timed, routerMu, sessionMu, inHub, socket>>

Unregister(c) ==
  /\ at[c] = At("leaving") /\ routerMu = Nobody
  /\ registered' = registered \ {c}
  /\ Goto(c, At("closing"))
  /\ UNCHANGED <<serving, todo, timed, routerMu, sessionMu, inHub, socket>>

CloseSession(c) ==
  /\ at[c] = At("closing")
  /\ socket' = [socket EXCEPT ![c] = Closed]
  /\ Goto(c, At("gone"))
  /\ UNCHANGED <<serving, todo, timed, routerMu, sessionMu, registered, inHub>>

\* Variant of CloseOnShutdown: Session.Close waits for the session's mutex.
CloseTakesMutex(c) ==
  /\ ~serving /\ IsOpen(c) /\ sessionMu[c] = Nobody
  /\ socket' = [socket EXCEPT ![c] = Closed]
  /\ UNCHANGED <<serving, at, todo, timed, routerMu, sessionMu, registered, inHub>>

\* The goroutine that handleClient leaves waiting for the context.
CloseOnShutdown(c) ==
  /\ ~serving /\ IsOpen(c)
  /\ socket' = [socket EXCEPT ![c] = Closed]
  /\ UNCHANGED <<serving, at, todo, timed, routerMu, sessionMu, registered, inHub>>

-----------------------------------------------------------------------------
(* The outside. *)

PeerReads(c) ==
  /\ IsOpen(c) /\ socket[c] < Buffer
  /\ socket' = [socket EXCEPT ![c] = @ + 1]
  /\ UNCHANGED <<serving, at, todo, timed, routerMu, sessionMu, registered, inHub>>

Break(c) ==
  /\ IsOpen(c)
  /\ socket' = [socket EXCEPT ![c] = Closed]
  /\ UNCHANGED <<serving, at, todo, timed, routerMu, sessionMu, registered, inHub>>

Cancel ==
  /\ serving /\ serving' = FALSE
  /\ UNCHANGED <<at, todo, timed, routerMu, sessionMu, registered, inHub, socket>>

-----------------------------------------------------------------------------

Init ==
  /\ serving = TRUE
  /\ at = [t \in Thread |-> IF t \in ConnId THEN At("new") ELSE At("idle")]
  /\ todo = [t \in Thread |-> {}]
  /\ timed = [t \in Thread |-> FALSE]
  /\ routerMu = Nobody
  /\ sessionMu = [c \in ConnId |-> Nobody]
  /\ registered = {} /\ inHub = {}
  /\ socket = [c \in ConnId |-> Closed]

LoopStep == HandleEvent \/ StopLoop \/ SendStep(Loop)
WatcherStep == StopWatcher \/ SendStep(Watcher)

\* What a handler does without waiting for its peer.
HandlerStep(c) ==
  \/ Register(c) \/ UpdateMonitors(c) \/ SendStep(c)
  \/ LeaveHub(c) \/ Unregister(c) \/ CloseSession(c)

Outside(c) ==
  Accept(c) \/ RecvPing(c) \/ RecvClipboard(c) \/ RecvMonitors(c)
    \/ PeerReads(c) \/ Break(c)

Next ==
  \/ TakeEvent \/ LocalClipboard \/ Cancel
  \/ LoopStep \/ WatcherStep
  \/ \E c \in ConnId : HandlerStep(c) \/ RecvEnds(c) \/ CloseOnShutdown(c) \/ Outside(c)

Spec == Init /\ [][Next]_vars

\* The server's own goroutines run; nothing is assumed of a peer.
Fairness ==
  /\ WF_vars(LoopStep) /\ WF_vars(WatcherStep)
  /\ \A c \in ConnId :
       /\ WF_vars(HandlerStep(c))
       /\ WF_vars(RecvEnds(c) /\ ~IsOpen(c))
       /\ WF_vars(CloseOnShutdown(c))

\* A mutex of Go that is freed again and again is not withheld from a waiter
\* forever: its starvation mode hands it over in order.
GetsMutex(t) ==
  LockSession(t)
    \/ IF t = Loop THEN HandleEvent
       ELSE t \in ConnId /\ (Register(t) \/ UpdateMonitors(t) \/ Unregister(t))
MutexFairness == Fairness /\ \A t \in Thread : SF_vars(GetsMutex(t))

\* Every peer, moreover, goes on reading what it is sent.
ReadingFairness == MutexFairness /\ \A c \in ConnId : WF_vars(PeerReads(c))

FairSpec == Spec /\ Fairness
MutexFairSpec == Spec /\ MutexFairness

-----------------------------------------------------------------------------
(* Properties. *)

\* Every variable has its type.
TypeOK ==
  /\ serving \in BOOLEAN
  /\ at \in [Thread -> Place]
  /\ todo \in [Thread -> SUBSET ConnId] /\ timed \in [Thread -> BOOLEAN]
  /\ routerMu \in {Nobody, Loop}
  /\ sessionMu \in [ConnId -> Thread \cup {Nobody}]
  /\ registered \subseteq ConnId /\ inHub \subseteq ConnId
  /\ socket \in [ConnId -> (0..Buffer) \cup {Closed}]

\* While the router sends to a client, or is about to, that client is still
\* registered and its handler has not closed the session: Unregister waits for
\* the whole event, and the deferred Close comes after it.
SendsToRegistered ==
  at[Loop].pc \in {"sends", "sending"} =>
    \A c \in todo[Loop] \cup ({at[Loop].to} \cap ConnId) :
      c \in registered /\ at[c] # At("gone")

\* Router.mu is held exactly while an event sends, and only by Run.
RouterMuHeld == routerMu = Loop <=> at[Loop].pc \in {"sends", "sending"}

\* A registered client's handler is between its Register and its Unregister.
HandlerOfRegistered ==
  \A c \in registered :
    at[c].pc \in {"recv", "updating", "sends", "sending", "returning", "leaving"}

\* The inductive invariant behind SendsToRegistered.
LockInv == TypeOK /\ RouterMuHeld /\ HandlerOfRegistered /\ SendsToRegistered

\* On shutdown every goroutine comes to its end, whatever the peers do: closing
\* the sessions frees each writer that is stuck on a peer that does not read.
ShutdownDrains ==
  ~serving ~> \A t \in Thread : at[t] \in {At("gone"), At("new")}

\* As long as peers read, no order of the two mutexes starves anyone: an event
\* is handled to its end, a broadcast ends, a handler that returns is rid of.
EverythingMoves ==
  /\ at[Loop] = At("event") ~> at[Loop] = At("idle")
  /\ at[Watcher] = At("sends") ~> at[Watcher] = At("idle")
  /\ \A c \in ConnId : at[c] = At("returning") ~> at[c] = At("gone")

\* The comments on Unregister and Router.ctl: when a client's handler gives it
\* up, its grab is released, so that the host does not appear frozen.
GivenUpIsReleased ==
  \A c \in ConnId : at[c] = At("returning") ~> c \notin registered
=============================================================================
