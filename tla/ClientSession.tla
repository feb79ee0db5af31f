---------------------------- MODULE ClientSession ----------------------------
(***************************************************************************)
(* The client's run loop (app/client/client.go), from Start to Stop of the *)
(* GUI that owns it: Run dials, runs one session after the other and waits *)
(* in between; a session is the loop of runOnce, the reader that injects   *)
(* what the server sends, and the watcher of the local clipboard, which    *)
(* share the mutex of the transport.Session and the channel errs.          *)
(*                                                                         *)
(* Delays are left to the scheduler: a Tick, the read deadline and the end *)
(* of a wait may come at any time.  Pings and monitor lists are small and  *)
(* only wait for room that a large clipboard write has used up.            *)
(***************************************************************************)
EXTENDS Naturals

CONSTANTS
  Input,         \* buttons and keys
  NoInput,
  Clipboard,     \* Config.EnableClipboard, on a machine that has one
  ErrCap,        \* capacity of errs: 2 in the code
  MaxLayout,     \* bound: layouts of the client's monitors, numbered as they come
  Nobody         \* the holder of a free mutex

ASSUME ClientAssumption ==
  /\ NoInput \notin Input
  /\ Clipboard \in BOOLEAN
  /\ ErrCap \in Nat \ {0} /\ MaxLayout \in Nat \ {0}
  /\ Nobody \notin {"main", "watcher"}

VARIABLES
  serving,     \* the context is not cancelled
  main,        \* where Run, or runOnce in it, is
  out,         \* what runOnce sends: a layout, or Ping
  link,        \* the connection: "none", "open", "broken" under us, "closed" by us
  stalled,     \* the server has stopped reading and sending; no room is left
  mu,          \* holder of Session.mu
  errs,        \* errors waiting in the channel
  reader,      \* where the reader is
  msg,         \* what it dispatches
  osDown,      \* inputs down on this machine because of what it injected
  noted,       \* injectedState
  watcher,     \* where the clipboard watcher of this session is
  store,       \* monitorStore.current
  snap,        \* the snapshot that Hello carries
  told,        \* the last layout sent to the server
  signal       \* a token waits in the channel of the store's listener

runVars == <<serving, main, out>>
linkVars == <<link, stalled, mu, errs>>
readerVars == <<reader, msg, osDown, noted>>
monitorVars == <<store, snap, told, signal>>
vars == <<runVars, linkVars, readerVars, watcher, monitorVars>>

Layout == 1..MaxLayout
Ping == 0

Signal(kind) == [kind |-> kind, input |-> NoInput]
Message ==
  [kind : {"down", "up"}, input : Input] \cup {Signal("grabOff"), Signal("other")}

\* Between two sessions, or without any.
Apart == main \in {"gone", "dialing", "waiting"}
Subscribed == ~Apart

\* Variant of Noticed that does not look at the capacity.
NoticedAlways(n) == n + 1

\* The non-blocking send to errs.
Noticed(n) == IF n < ErrCap THEN n + 1 ELSE n

\* runOnce returns to Run, which returns when the context is cancelled.
Returns == main' = IF serving THEN "waiting" ELSE "gone"

-----------------------------------------------------------------------------
(* Run. *)

\* App.Start: refused while a session's goroutine has not ended.
Start ==
  /\ main = "gone" /\ ~serving
  /\ serving' = TRUE
  /\ main' = "dialing" /\ snap' = store
  /\ UNCHANGED <<out, linkVars, readerVars, watcher, store, told, signal>>

\* App.Stop cancels and then waits until main is gone.
Stop ==
  /\ serving /\ serving' = FALSE
  /\ UNCHANGED <<main, out, linkVars, readerVars, watcher, monitorVars>>

WaitEnds ==
  /\ main = "waiting"
  /\ IF serving THEN main' = "dialing" /\ snap' = store
     ELSE main' = "gone" /\ UNCHANGED snap
  /\ UNCHANGED <<serving, out, linkVars, readerVars, watcher, store, told, signal>>

DialFails ==
  /\ main = "dialing"
  /\ Returns
  /\ UNCHANGED <<serving, out, linkVars, readerVars, watcher, monitorVars>>

\* The handshake succeeds; everything of the session is new, and the watcher
\* of the one before, if it still runs, has the old session and channel.
DialSucceeds ==
  /\ main = "dialing"
  /\ main' = "select"
  /\ link' = "open" /\ stalled' = FALSE /\ mu' = Nobody /\ errs' = 0
  /\ reader' = "recv" /\ noted' = {}
  /\ watcher' = IF Clipboard THEN "watching" ELSE "none"
  /\ told' = snap /\ signal' = FALSE
  /\ UNCHANGED <<serving, out, msg, osDown, store, snap>>

-----------------------------------------------------------------------------
(* The select of runOnce. *)

SeeCancel ==
  /\ main = "select" /\ ~serving
  /\ main' = "closing"
  /\ UNCHANGED <<serving, out, linkVars, readerVars, watcher, monitorVars>>

TakeError ==
  /\ main = "select" /\ errs > 0
  /\ errs' = errs - 1
  /\ main' = "closing"
  /\ UNCHANGED <<serving, out, link, stalled, mu, readerVars, watcher, monitorVars>>

Tick ==
  /\ main = "select"
  /\ main' = "sending" /\ out' = Ping
  /\ UNCHANGED <<serving, linkVars, readerVars, watcher, monitorVars>>

\* Variant of TakeSignal that sends the snapshot the session began with.
TakeSignalOldSnapshot ==
  /\ main = "select" /\ signal
  /\ signal' = FALSE
  /\ main' = "sending" /\ out' = snap
  /\ UNCHANGED <<serving, linkVars, readerVars, watcher, store, snap, told>>

TakeSignal ==
  /\ main = "select" /\ signal
  /\ signal' = FALSE
  /\ main' = "sending" /\ out' = store
  /\ UNCHANGED <<serving, linkVars, readerVars, watcher, store, snap, told>>

LockMain ==
  /\ main = "sending" /\ mu = Nobody
  /\ mu' = "main"
  /\ UNCHANGED <<runVars, link, stalled, errs, readerVars, watcher, monitorVars>>

MainWrites ==
  /\ mu = "main" /\ link = "open" /\ ~stalled
  /\ mu' = Nobody /\ main' = "select"
  /\ told' = IF out = Ping THEN told ELSE out
  /\ UNCHANGED <<serving, out, link, stalled, errs, readerVars, watcher,
                 store, snap, signal>>

MainWriteFails ==
  /\ mu = "main" /\ link # "open"
  /\ mu' = Nobody /\ main' = "closing"
  /\ UNCHANGED <<serving, out, link, stalled, errs, readerVars, watcher, monitorVars>>

\* Variant of CloseSession that does not close.
CloseNothing ==
  /\ main = "closing"
  /\ main' = "joining"
  /\ UNCHANGED <<serving, out, linkVars, readerVars, watcher, monitorVars>>

\* The deferred calls: close, so that the reader's Recv returns...
CloseSession ==
  /\ main = "closing"
  /\ link' = "closed" /\ main' = "joining"
  /\ UNCHANGED <<serving, out, stalled, mu, errs, readerVars, watcher, monitorVars>>

\* Variant of JoinReader that releases without waiting for the reader.
JoinNobody ==
  /\ main = "joining"
  /\ osDown' = osDown \ noted /\ noted' = {}
  /\ Returns
  /\ UNCHANGED <<serving, out, linkVars, reader, msg, watcher, monitorVars>>

\* ...wait for it, and only then release what it injected.
JoinReader ==
  /\ main = "joining" /\ reader = "done"
  /\ osDown' = osDown \ noted /\ noted' = {}
  /\ Returns
  /\ UNCHANGED <<serving, out, linkVars, reader, msg, watcher, monitorVars>>

-----------------------------------------------------------------------------
(* The reader. *)

Receive(m) ==
  /\ reader = "recv" /\ link = "open" /\ ~stalled
  /\ msg' = m /\ reader' = "dispatching"
  /\ UNCHANGED <<runVars, linkVars, osDown, noted, watcher, monitorVars>>

\* dispatchIncoming; an input that cannot be injected is not noted.
Dispatch ==
  /\ reader = "dispatching"
  /\ \/ /\ msg.kind = "down"
        /\ osDown' = osDown \cup {msg.input} /\ noted' = noted \cup {msg.input}
     \/ /\ msg.kind = "up"
        /\ osDown' = osDown \ {msg.input} /\ noted' = noted \ {msg.input}
     \/ /\ msg.kind = "grabOff"
        /\ osDown' = osDown \ noted /\ noted' = {}
     \/ /\ msg.kind # "grabOff"
        /\ UNCHANGED <<osDown, noted>>
  /\ reader' = "recv" /\ msg' = Signal("other")
  /\ UNCHANGED <<runVars, linkVars, watcher, monitorVars>>

\* An error, or nothing for three ping intervals.
RecvFails ==
  /\ reader = "recv"
  /\ reader' = "reporting"
  /\ UNCHANGED <<runVars, linkVars, msg, osDown, noted, watcher, monitorVars>>

\* Variant of Report on a channel without capacity.
ReportUnbuffered ==
  /\ reader = "reporting" /\ main = "select"
  /\ errs' = errs + 1 /\ reader' = "done"
  /\ UNCHANGED <<runVars, link, stalled, mu, msg, osDown, noted, watcher, monitorVars>>

\* The blocking send to errs.
Report ==
  /\ reader = "reporting" /\ errs < ErrCap
  /\ errs' = errs + 1 /\ reader' = "done"
  /\ UNCHANGED <<runVars, link, stalled, mu, msg, osDown, noted, watcher, monitorVars>>

-----------------------------------------------------------------------------
(* The clipboard watcher. *)

LocalCopy ==
  /\ watcher = "watching"
  /\ watcher' = "sending"
  /\ UNCHANGED <<runVars, linkVars, readerVars, monitorVars>>

LockWatcher ==
  /\ watcher = "sending" /\ mu = Nobody
  /\ mu' = "watcher"
  /\ UNCHANGED <<runVars, link, stalled, errs, readerVars, watcher, monitorVars>>

WatcherWrites ==
  /\ mu = "watcher" /\ link = "open" /\ ~stalled
  /\ mu' = Nobody /\ watcher' = "watching"
  /\ UNCHANGED <<runVars, link, stalled, errs, readerVars, monitorVars>>

WatcherWriteFails ==
  /\ mu = "watcher" /\ link # "open"
  /\ mu' = Nobody /\ watcher' = "watching" /\ errs' = Noticed(errs)
  /\ UNCHANGED <<runVars, link, stalled, readerVars, monitorVars>>

\* clipboard.Watch returns: the context is cancelled, or it cannot go on.
WatchEnds ==
  /\ watcher = "watching"
  /\ watcher' = "none"
  /\ errs' = IF serving THEN Noticed(errs) ELSE errs
  /\ UNCHANGED <<runVars, link, stalled, mu, readerVars, monitorVars>>

-----------------------------------------------------------------------------
(* The outside. *)

Break ==
  /\ link = "open" /\ link' = "broken"
  /\ UNCHANGED <<runVars, stalled, mu, errs, readerVars, watcher, monitorVars>>

\* The server goes silent while a large clipboard write fills the connection.
Stall ==
  /\ mu = "watcher" /\ link = "open" /\ ~stalled
  /\ stalled' = TRUE
  /\ UNCHANGED <<runVars, link, mu, errs, readerVars, watcher, monitorVars>>

Resume ==
  /\ stalled /\ stalled' = FALSE
  /\ UNCHANGED <<runVars, link, mu, errs, readerVars, watcher, monitorVars>>

\* watchMonitors puts a new layout into the store: monitorStore.set.
Hotplug ==
  /\ store < MaxLayout /\ store' = store + 1
  /\ signal' = (signal \/ Subscribed)
  /\ UNCHANGED <<runVars, linkVars, readerVars, watcher, snap, told>>

-----------------------------------------------------------------------------

Init ==
  /\ serving = FALSE /\ main = "gone" /\ out = Ping
  /\ link = "none" /\ stalled = FALSE /\ mu = Nobody /\ errs = 0
  /\ reader = "done" /\ msg = Signal("other") /\ osDown = {} /\ noted = {}
  /\ watcher = "none"
  /\ store = 1 /\ snap = 1 /\ told = 1 /\ signal = FALSE

MainStep ==
  \/ WaitEnds \/ DialFails \/ DialSucceeds
  \/ SeeCancel \/ TakeError \/ TakeSignal
  \/ LockMain \/ MainWrites \/ MainWriteFails
  \/ CloseSession \/ JoinReader
ReaderStep == Dispatch \/ RecvFails \/ Report
WatcherStep == LockWatcher \/ WatcherWrites \/ WatcherWriteFails
Outside ==
  \/ Start \/ Stop \/ Tick \/ LocalCopy \/ WatchEnds
  \/ Break \/ Stall \/ Resume \/ Hotplug
  \/ \E m \in Message : Receive(m)

Next == MainStep \/ ReaderStep \/ WatcherStep \/ Outside

Spec == Init /\ [][Next]_vars

\* The goroutines run: select picks at random among what is ready, a mutex is
\* not withheld for ever, and Dial returns.  Recv fails once the connection is
\* gone, or has been silent for three ping intervals.
Fairness ==
  /\ WF_vars(MainStep) /\ WF_vars(Dispatch) /\ WF_vars(WatcherStep)
  /\ SF_vars(SeeCancel) /\ SF_vars(TakeError) /\ SF_vars(TakeSignal)
  /\ SF_vars(LockMain) /\ SF_vars(Report)
  /\ WF_vars(RecvFails /\ (link # "open" \/ stalled))

FairSpec == Spec /\ Fairness

-----------------------------------------------------------------------------
(* Properties. *)

\* Every variable has its type; errs never holds more than its capacity.
TypeOK ==
  /\ serving \in BOOLEAN /\ stalled \in BOOLEAN /\ signal \in BOOLEAN
  /\ main \in {"gone", "dialing", "waiting", "select", "sending", "closing", "joining"}
  /\ out \in Layout \cup {Ping}
  /\ link \in {"none", "open", "broken", "closed"}
  /\ mu \in {Nobody, "main", "watcher"}
  /\ errs \in 0..ErrCap
  /\ reader \in {"recv", "dispatching", "reporting", "done"}
  /\ msg \in Message
  /\ osDown \subseteq Input /\ noted \subseteq Input
  /\ watcher \in {"none", "watching", "sending"}
  /\ {store, snap, told} \subseteq Layout

\* Between two sessions nothing is held down on this machine, in whatever
\* order the session broke, the reader was still injecting and Stop came: the
\* deferred calls of runOnce release it after the reader's last word.
NothingLatched == Apart => osDown = {}

\* What NothingLatched rests on: all that is down is noted, and no reader is
\* left of a session that has ended.
NotedIsDown == osDown = noted
NoReaderApart == Apart => reader = "done"
\* The inductive invariant behind NothingLatched.
LatchInv == TypeOK /\ NotedIsDown /\ NoReaderApart /\ NothingLatched

\* Nobody is there to end the session: a clipboard write holds the mutex of a
\* silent connection, or the watcher's errors have filled errs.
Jammed ==
  \/ stalled /\ link = "open" /\ mu # Nobody
  \/ errs = ErrCap /\ reader = "reporting"

\* A change of the monitors that a session was signalled is sent to the server,
\* in its latest state, as long as the session lives and the server reads.
UpdatesReachServer ==
  signal ~> (told = store \/ main \notin {"select", "sending"} \/ stalled)

\* A session whose connection broke, or whose reader gave up, ends, so that Run
\* can dial again.
SessionEnds ==
  (link = "broken" \/ reader = "reporting") ~> (main \in {"waiting", "gone"} \/ Jammed)

\* Stop, which waits for Run, returns.
StopReturns == ~serving ~> (main = "gone" \/ Jammed)
=============================================================================
