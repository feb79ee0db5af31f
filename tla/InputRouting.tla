---------------------------- MODULE InputRouting ----------------------------
(***************************************************************************)
(* Who owns the user's buttons and keys.  The rmouse server captures the   *)
(* host's input with an OS hook; its Router either lets the host see an    *)
(* event or, while a client is grabbed, swallows it on the host and        *)
(* forwards it over that client's session.  This module models             *)
(*                                                                         *)
(*   - the hook callbacks and the bounded channel they fill                *)
(*     (platform/windows/capture.go),                                      *)
(*   - Router.handleEvent, resolveRegion, Register, Unregister and Run     *)
(*     (app/server/router.go) as far as grabs, held inputs and frames go,  *)
(*   - the frames in flight on every session, its loss and its end, and    *)
(*     dispatchIncoming / injectedState on the client (app/client).        *)
(*                                                                         *)
(* Geometry is left to the module Router: here a mouse move may have any   *)
(* outcome that the grab state allows.  The router holds r.mu for a whole  *)
(* handler, so every handler is one step.                                  *)
(***************************************************************************)
EXTENDS Naturals, Sequences, FiniteSets

CONSTANTS
  ConnId,        \* connections of clients; a slot is used again once it is idle
  NoConn,        \* the nil *routerClient
  Button,        \* mouse buttons
  Key,           \* keys that have a HID code
  NoInput,       \* the input of a frame that carries none
  Point,         \* positions a mouse-move event may report
  ChanCap,       \* capacity of the hook's channel (256 in capture.go)
  WireCap,       \* bound: frames in flight on one session
  HookOverflow   \* FALSE: the hook is only run while its channel has room

Input == Button \cup Key

ASSUME ConstantsAssumption ==
  /\ NoConn \notin ConnId
  /\ NoInput \notin Input
  /\ IsFiniteSet(Button) /\ IsFiniteSet(Key) /\ Button \cap Key = {}
  /\ ChanCap \in Nat \ {0} /\ WireCap \in Nat
  /\ HookOverflow \in BOOLEAN

VARIABLES
  running,     \* Router.Run is in its loop
  registered,  \* keys of Router.clients
  active,      \* Router.active
  held,        \* heldBtns and heldKeys
  onClient,    \* btnsOnClient and keysOnClient
  consume,     \* captureSession.consume (the host cursor is hidden with it)
  phys,        \* what the user's fingers hold
  hostDown,    \* what the server's OS believes is down
  hook,        \* the callback between emit and its reading of consume
  events,      \* captureSession.events
  session,     \* one connection: "closed", "open", or "broken" under the server
  wire,        \* frames sent and not yet read by the client
  clientDown,  \* the client's injectedState: what its OS believes is down
  grabbed      \* the last Grab the client was told

routerVars == <<running, registered, active, held, onClient, consume>>
hostVars   == <<phys, hostDown, hook>>
clientVars == <<session, wire, clientDown, grabbed>>
vars == <<routerVars, hostVars, events, clientVars>>

-----------------------------------------------------------------------------
(* Events of the capture channel and frames of the protocol. *)

MoveEv(p) == [kind |-> "move", at |-> p]
WheelEv == [kind |-> "wheel"]
InputEv(i, down) == [kind |-> "input", input |-> i, down |-> down]
Idle == [kind |-> "idle"]

InputEvents == [kind : {"input"}, input : Input, down : BOOLEAN]
Event == {MoveEv(p) : p \in Point} \cup {WheelEv} \cup InputEvents

Signal(kind) == [kind |-> kind, input |-> NoInput]
GrabOn == Signal("grabOn")
GrabOff == Signal("grabOff")
Motion == Signal("motion")           \* MouseAbs or MouseWheel
Down(i) == [kind |-> "down", input |-> i]
Up(i) == [kind |-> "up", input |-> i]

Frame == {GrabOn, GrabOff, Motion}
           \cup {Down(i) : i \in Input} \cup {Up(i) : i \in Input}
IsInputFrame(f) == f.kind \in {"down", "up", "motion"}

\* Go ranges over a map in any order: the sequences that list a set once.
Orders(S) ==
  {s \in [1..Cardinality(S) -> S] : \A m, n \in DOMAIN s : s[m] = s[n] => m = n}

\* UP frames for every forwarded button, then for every forwarded key.
Ups(order) == [n \in DOMAIN order |-> Up(order[n])]
ReleaseSweeps ==
  UNION {{Ups(b) \o Ups(k) : k \in Orders(onClient \cap Key)} :
           b \in Orders(onClient \cap Button)}

\* What the client holds down once it has read all of w.
Drained(down, w) ==
  {i \in Input :
     \/ \E n \in DOMAIN w :
          /\ w[n] = Down(i)
          /\ \A m \in DOMAIN w : m > n => w[m] \notin {Up(i), GrabOff}
     \/ /\ i \in down
        /\ \A m \in DOMAIN w : w[m] \notin {Up(i), GrabOff}}

-----------------------------------------------------------------------------
(* Sending.  Session.Send on a lost session fails and its error is ignored. *)

Only(c, frames) == [d \in ConnId |-> IF d = c THEN frames ELSE <<>>]

Deliver(out) ==
  /\ \A c \in ConnId : Len(wire[c]) + Len(out[c]) <= WireCap
  /\ wire' = [c \in ConnId |->
                IF session[c] = "open" THEN wire[c] \o out[c] ELSE wire[c]]

\* The non-blocking send of the hook: without room the event is lost.
EmitUnchecked(q, e) == Append(q, e)
Emit(q, e) == IF Len(q) < ChanCap THEN Append(q, e) ELSE q

KeyUps(order) == [n \in DOMAIN order |-> InputEv(order[n], FALSE)]

\* What is left of q when the key-ups of the grab-in come back through the
\* keyboard hook, which does not look at the injected flag.
FedBack(q, ups) ==
  LET all == q \o ups
  IN  SubSeq(all, 1, IF Len(all) < ChanCap THEN Len(all) ELSE ChanCap)

-----------------------------------------------------------------------------
(* The hook thread. *)

HookReady == hook = Idle /\ (running /\ ~HookOverflow => Len(events) < ChanCap)

\* A button or key changes, or a held key repeats: the callback emits...
HookInput(i, down) ==
  /\ HookReady
  /\ IF down THEN i \in Key \/ i \notin phys ELSE i \in phys
  /\ phys' = IF down THEN phys \cup {i} ELSE phys \ {i}
  /\ events' = IF running THEN Emit(events, InputEv(i, down)) ELSE events
  /\ hook' = InputEv(i, down)
  /\ UNCHANGED <<routerVars, hostDown, clientVars>>

\* ...and only then asks whether the host may see it.
HookReturn ==
  /\ hook # Idle
  /\ hostDown' = IF consume THEN hostDown
                 ELSE IF hook.down THEN hostDown \cup {hook.input}
                 ELSE hostDown \ {hook.input}
  /\ hook' = Idle
  /\ UNCHANGED <<routerVars, phys, events, clientVars>>

HookMove(p) ==
  /\ HookReady /\ running
  /\ events' = Emit(events, MoveEv(p))
  /\ UNCHANGED <<routerVars, hostVars, clientVars>>

HookWheel ==
  /\ HookReady /\ running
  /\ events' = Emit(events, WheelEv)
  /\ UNCHANGED <<routerVars, hostVars, clientVars>>

-----------------------------------------------------------------------------
(* Router.handleEvent, under r.mu. *)

Received(e) == running /\ events # <<>> /\ Head(events) = e

HandlePress(i) ==
  /\ Received(InputEv(i, TRUE))
  /\ held' = held \cup {i}
  /\ IF active = NoConn
     THEN UNCHANGED <<onClient, wire>>
     ELSE /\ onClient' = onClient \cup {i}
          /\ Deliver(Only(active, <<Down(i)>>))
  /\ events' = Tail(events)
  /\ UNCHANGED <<running, registered, active, consume, hostVars,
                 session, clientDown, grabbed>>

\* Variant of HandleLift that forwards the UP of an input it never forwarded.
HandleLiftAlwaysForwards(i) ==
  /\ Received(InputEv(i, FALSE))
  /\ held' = held \ {i}
  /\ onClient' = onClient \ {i}
  /\ IF active = NoConn THEN UNCHANGED wire
     ELSE Deliver(Only(active, <<Up(i)>>))
  /\ events' = Tail(events)
  /\ UNCHANGED <<running, registered, active, consume, hostVars,
                 session, clientDown, grabbed>>

\* Variant of HandleLift that forgets to forward.
HandleLiftNeverForwards(i) ==
  /\ Received(InputEv(i, FALSE))
  /\ held' = held \ {i}
  /\ events' = Tail(events)
  /\ UNCHANGED <<running, registered, active, onClient, consume, hostVars,
                 clientVars>>

HandleLift(i) ==
  /\ Received(InputEv(i, FALSE))
  /\ held' = held \ {i}
  /\ IF active # NoConn /\ i \in onClient
     THEN /\ onClient' = onClient \ {i}
          /\ Deliver(Only(active, <<Up(i)>>))
     ELSE UNCHANGED <<onClient, wire>>
  /\ events' = Tail(events)
  /\ UNCHANGED <<running, registered, active, consume, hostVars,
                 session, clientDown, grabbed>>

HandleWheel ==
  /\ Received(WheelEv)
  /\ IF active = NoConn THEN UNCHANGED wire
     ELSE Deliver(Only(active, <<Motion>>))
  /\ events' = Tail(events)
  /\ UNCHANGED <<routerVars, hostVars, session, clientDown, grabbed>>

\* The four cases of resolveRegion.  The host first gets an UP for all that
\* the user holds; the router then forgets what an earlier grab forwarded.
AcquireGrab(c) ==
  /\ active = NoConn
  /\ hostDown' = hostDown \ held
  /\ \E k \in Orders(held \cap Key) :
       events' = FedBack(Tail(events), KeyUps(k))
  /\ onClient' = {}
  /\ active' = c
  /\ Deliver(Only(c, <<GrabOn, Motion>>))
  /\ consume' = TRUE
  /\ UNCHANGED <<running, registered, held, phys, hook, session, clientDown, grabbed>>

\* Variant of ReleaseGrab that announces the end of the grab too early.
ReleaseGrabOffFirst ==
  /\ active # NoConn
  /\ \E sweep \in ReleaseSweeps : Deliver(Only(active, <<GrabOff>> \o sweep))
  /\ onClient' = {}
  /\ active' = NoConn
  /\ consume' = FALSE
  /\ events' = Tail(events)
  /\ UNCHANGED <<running, registered, held, hostVars, session, clientDown, grabbed>>

ReleaseGrab ==
  /\ active # NoConn
  /\ \E sweep \in ReleaseSweeps : Deliver(Only(active, Append(sweep, GrabOff)))
  /\ onClient' = {}
  /\ active' = NoConn
  /\ consume' = FALSE
  /\ events' = Tail(events)
  /\ UNCHANGED <<running, registered, held, hostVars, session, clientDown, grabbed>>

\* Variant of SwitchGrab that carries the forwarded inputs to the new client.
SwitchGrabKeepsInputs(c) ==
  /\ active \notin {NoConn, c}
  /\ Deliver([Only(active, <<GrabOff>>) EXCEPT ![c] = <<GrabOn, Motion>>])
  /\ active' = c
  /\ events' = Tail(events)
  /\ UNCHANGED <<running, registered, held, onClient, consume, hostVars,
                 session, clientDown, grabbed>>

SwitchGrab(c) ==
  /\ active \notin {NoConn, c}
  /\ \E sweep \in ReleaseSweeps :
       Deliver([Only(active, Append(sweep, GrabOff)) EXCEPT ![c] = <<GrabOn, Motion>>])
  /\ onClient' = {}
  /\ active' = c
  /\ events' = Tail(events)
  /\ UNCHANGED <<running, registered, held, consume, hostVars,
                 session, clientDown, grabbed>>

KeepGrab ==
  /\ active # NoConn
  /\ Deliver(Only(active, <<Motion>>))
  /\ events' = Tail(events)
  /\ UNCHANGED <<routerVars, hostVars, session, clientDown, grabbed>>

\* A free move, a missed crossing, a move without delta, or one dropped while
\* the cursor has not reached the trap yet.
LeaveGrab ==
  /\ events' = Tail(events)
  /\ UNCHANGED <<routerVars, hostVars, clientVars>>

HandleMove(p) ==
  /\ Received(MoveEv(p))
  /\ \/ \E c \in registered : AcquireGrab(c) \/ SwitchGrab(c)
     \/ ReleaseGrab
     \/ KeepGrab
     \/ LeaveGrab

HandleEvent ==
  \/ \E i \in Input : HandlePress(i) \/ HandleLift(i)
  \/ HandleWheel
  \/ \E p \in Point : HandleMove(p)

-----------------------------------------------------------------------------
(* Connections. *)

\* After the handshake, which may end after Run did, handleClient registers the
\* session.
Register(c) ==
  /\ c \notin registered /\ session[c] = "closed"
  /\ registered' = registered \cup {c}
  /\ session' = [session EXCEPT ![c] = "open"]
  /\ UNCHANGED <<running, active, held, onClient, consume, hostVars, events,
                 wire, clientDown, grabbed>>

\* Variant of Unregister that leaves the hook swallowing the host's input.
UnregisterStillConsuming(c) ==
  /\ c \in registered
  /\ registered' = registered \ {c}
  /\ IF active = c
     THEN active' = NoConn /\ onClient' = {}
     ELSE UNCHANGED <<active, onClient>>
  /\ session' = [session EXCEPT ![c] = IF @ = "open" THEN "broken" ELSE @]
  /\ UNCHANGED <<running, held, consume, hostVars, events, wire, clientDown, grabbed>>

\* handleClient returns (a Recv error, its 15 s deadline, Bye or shutdown):
\* Unregister, then Session.Close.  What is on the wire is still delivered.
Unregister(c) ==
  /\ c \in registered
  /\ registered' = registered \ {c}
  /\ IF active = c
     THEN active' = NoConn /\ onClient' = {} /\ consume' = FALSE
     ELSE UNCHANGED <<active, onClient, consume>>
  /\ session' = [session EXCEPT ![c] = IF @ = "open" THEN "broken" ELSE @]
  /\ UNCHANGED <<running, held, hostVars, events, wire, clientDown, grabbed>>

\* The connection dies: an unread suffix of what was sent never arrives.
Break(c) ==
  /\ session[c] = "open"
  /\ session' = [session EXCEPT ![c] = "broken"]
  /\ \E n \in 0..Len(wire[c]) : wire' = [wire EXCEPT ![c] = SubSeq(@, 1, n)]
  /\ UNCHANGED <<routerVars, hostVars, events, clientDown, grabbed>>

\* The goroutine of handleClient that closes the session on shutdown.
CloseOnStop(c) ==
  /\ ~running /\ session[c] = "open"
  /\ session' = [session EXCEPT ![c] = "broken"]
  /\ UNCHANGED <<routerVars, hostVars, events, wire, clientDown, grabbed>>

\* Run returns: the hook is told to pass everything and nobody reads events.
Stop ==
  /\ running
  /\ running' = FALSE
  /\ consume' = FALSE
  /\ events' = <<>>
  /\ UNCHANGED <<registered, active, held, onClient, hostVars, clientVars>>

-----------------------------------------------------------------------------
(* The client. *)

\* MouseButton, KeyEvent and the sweep of Grab{Off} in dispatchIncoming.
AfterFrame(down, f) ==
  {i \in Input : f = Down(i) \/ (i \in down /\ f \notin {Up(i), GrabOff})}

ClientDispatch(c) ==
  /\ session[c] # "closed" /\ wire[c] # <<>>
  /\ LET f == Head(wire[c])
     IN  /\ clientDown' = [clientDown EXCEPT ![c] = AfterFrame(@, f)]
         /\ grabbed' = [grabbed EXCEPT ![c] =
                          IF f.kind = "grabOn" THEN TRUE
                          ELSE IF f.kind = "grabOff" THEN FALSE ELSE @]
  /\ wire' = [wire EXCEPT ![c] = Tail(@)]
  /\ UNCHANGED <<routerVars, hostVars, events, session>>

\* Variant of ClientEnds that leaves the inputs of the session latched.
ClientEndsLatched(c) ==
  /\ session[c] # "closed"
  /\ session' = [session EXCEPT ![c] = "closed"]
  /\ wire' = [wire EXCEPT ![c] = <<>>]
  /\ grabbed' = [grabbed EXCEPT ![c] = FALSE]
  /\ UNCHANGED <<routerVars, hostVars, events, clientDown>>

\* runOnce returns: close the session, wait for the reader, release all.
ClientEnds(c) ==
  /\ session[c] # "closed"
  /\ session' = [session EXCEPT ![c] = "closed"]
  /\ wire' = [wire EXCEPT ![c] = <<>>]
  /\ clientDown' = [clientDown EXCEPT ![c] = {}]
  /\ grabbed' = [grabbed EXCEPT ![c] = FALSE]
  /\ UNCHANGED <<routerVars, hostVars, events>>

-----------------------------------------------------------------------------

Init ==
  /\ running = TRUE /\ registered = {} /\ active = NoConn
  /\ held = {} /\ onClient = {} /\ consume = FALSE
  /\ phys = {} /\ hostDown = {} /\ hook = Idle
  /\ events = <<>>
  /\ session = [c \in ConnId |-> "closed"]
  /\ wire = [c \in ConnId |-> <<>>]
  /\ clientDown = [c \in ConnId |-> {}]
  /\ grabbed = [c \in ConnId |-> FALSE]

HookStep ==
  \/ \E i \in Input, down \in BOOLEAN : HookInput(i, down)
  \/ HookReturn
  \/ \E p \in Point : HookMove(p)
  \/ HookWheel

ConnStep(c) ==
  \/ Register(c) \/ Unregister(c) \/ Break(c) \/ CloseOnStop(c)
  \/ ClientDispatch(c) \/ ClientEnds(c)

Next == HookStep \/ HandleEvent \/ Stop \/ \E c \in ConnId : ConnStep(c)

Spec == Init /\ [][Next]_vars

\* The goroutines that run whenever they can: the hook callback returns, Run
\* takes the next event, a client reads, and both ends notice a lost session
\* (the server by its read deadline of 15 s, the client by one of 3 pings).
Fairness ==
  /\ WF_vars(HookReturn)
  /\ WF_vars(HandleEvent)
  /\ \A c \in ConnId :
       /\ WF_vars(ClientDispatch(c))
       /\ WF_vars(session[c] = "broken" /\ ClientEnds(c))
       /\ WF_vars(session[c] # "open" /\ Unregister(c))
       /\ WF_vars(CloseOnStop(c))

FairSpec == Spec /\ Fairness

-----------------------------------------------------------------------------
(* Properties. *)

\* Every variable has its type, and the channel never exceeds its capacity.
TypeOK ==
  /\ running \in BOOLEAN /\ consume \in BOOLEAN
  /\ registered \subseteq ConnId
  /\ active \in registered \cup {NoConn}
  /\ held \subseteq Input /\ onClient \subseteq Input
  /\ phys \subseteq Input /\ hostDown \subseteq Input
  /\ hook \in InputEvents \cup {Idle}
  /\ events \in Seq(Event) /\ Len(events) <= ChanCap
  /\ session \in [ConnId -> {"closed", "open", "broken"}]
  /\ wire \in [ConnId -> Seq(Frame)]
  /\ clientDown \in [ConnId -> SUBSET Input]
  /\ grabbed \in [ConnId -> BOOLEAN]

\* Once a connected client has read what is in flight, it holds down exactly
\* what the router believes it forwarded: the grabbed client onClient, any
\* other client nothing.  No input is left latched on a client that the cursor
\* has left (resolveRegion's sweeps, handleEvent's bookkeeping, releaseAll).
NoGhostInput ==
  \A c \in ConnId : session[c] = "open" =>
    Drained(clientDown[c], wire[c]) = IF c = active THEN onClient ELSE {}

\* What Register relies on: an idle connection has nothing in flight and its
\* client holds nothing.
IdleIsEmpty ==
  \A c \in ConnId : session[c] = "closed" => wire[c] = <<>> /\ clientDown[c] = {}

\* The inductive invariant behind NoGhostInput.
GhostInv == TypeOK /\ NoGhostInput /\ IdleIsEmpty

\* The hook swallows the host's input exactly while the loop runs and a client
\* is grabbed, however the grab ended (release, disconnect or shutdown).
PassThrough == consume = (running /\ active # NoConn)

\* A client only acts on input between a Grab{On} and its Grab{Off}: frames of
\* one grab never leak past the frame that ends it.
BracketedInput ==
  [][\A c \in ConnId :
       ClientDispatch(c) /\ IsInputFrame(Head(wire[c])) => grabbed[c]]_vars

\* A client never gets an UP for an input it does not hold down: handleEvent
\* suppresses the UP of what was pressed before the grab.
NoSpuriousUp ==
  [][\A c \in ConnId :
       ClientDispatch(c) /\ Head(wire[c]).kind = "up"
         => Head(wire[c]).input \in clientDown[c]]_vars

\* What the last Grab tells a client that has read all of w.
GrabbedAfter(grab, w) ==
  \/ \E n \in DOMAIN w :
       /\ w[n] = GrabOn
       /\ \A m \in DOMAIN w : m > n => w[m] # GrabOff
  \/ grab /\ \A m \in DOMAIN w : w[m] # GrabOff

\* Whoever reads w finds itself grabbed at every input frame, and holds the
\* input of every UP.
WellSent(down, grab, w) ==
  \A n \in DOMAIN w :
    LET before == SubSeq(w, 1, n - 1)
    IN  /\ IsInputFrame(w[n]) => GrabbedAfter(grab, before)
        /\ w[n].kind = "up" => w[n].input \in Drained(down, before)

\* The inductive invariant behind BracketedInput and NoSpuriousUp: what is in
\* flight is well sent, and what is sent to the grabbed client will be.
SentInv ==
  \A c \in ConnId :
    /\ WellSent(clientDown[c], grabbed[c], wire[c])
    /\ session[c] = "open" /\ active = c => GrabbedAfter(grabbed[c], wire[c])

\* A client that is not grabbed ends up holding nothing, or is grabbed again,
\* even if its session dies before the router's UP frames arrive.
Relinquished ==
  \A c \in ConnId : (active # c) ~> (clientDown[c] = {} \/ active = c)

\* Once the user holds nothing for good, every client comes to hold nothing.
LetGo == \A c \in ConnId : [](phys = {}) ~> (clientDown[c] = {})

\* What the comment in resolveRegion promises: when the user's hands are off
\* and all events are handled, no button or key is stuck on the server.
HostNotStuck ==
  running /\ phys = {} /\ events = <<>> /\ hook = Idle => hostDown = {}
=============================================================================
