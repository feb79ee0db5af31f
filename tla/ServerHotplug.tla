--------------------------- MODULE ServerHotplug ---------------------------
(***************************************************************************)
(* How a change of the host's monitors reaches the server's router:        *)
(* Display.Subscribe of platform/windows/display.go with its message loop  *)
(* and debounce, and the two goroutines of server.Run that carry the       *)
(* snapshots to Router.UpdateServerMonitors.  The last one waits for       *)
(* Router.mu beside the goroutines of ServerLocks, on which this is built. *)
(*                                                                         *)
(* The OS is modelled from how the code uses it: layouts are numbered as   *)
(* they come, a window is told of a change, and a window class can be      *)
(* registered once in the process.  Delays are left to the scheduler.      *)
(***************************************************************************)
EXTENDS ServerLocks, Sequences

CONSTANTS
  MaxLayout,   \* bound: layouts of the host, numbered as they come
  Room         \* capacity of ch: 4 in the code

ASSUME HotplugAssumption == MaxLayout \in Nat \ {0} /\ Room \in Nat \ {0}

VARIABLES
  layout,      \* what the OS has
  former,      \* the class rmouseDisplayWatcher is that of a run stopped before
  subscriber,  \* Subscribe: "starting", "select", "pushing", "stopping", "done"
  notify,      \* a token waits in notify
  debounce,    \* the timer runs
  fresh,       \* the snapshot that Subscribe pushes, or Nothing
  ch,          \* snapshots on their way to the second goroutine
  applying,    \* the one that waits for Router.mu, or Nothing
  serverMons,  \* Router.serverMons
  missed       \* observes: a change that no notification stands for any more

windowVars == <<layout, former, missed>>
subscribeVars == <<subscriber, notify, debounce, fresh>>
applyVars == <<applying, serverMons>>
hotplugVars == <<windowVars, subscribeVars, ch, applyVars>>

Layout == 1..MaxLayout
Nothing == 0

\* The message loop pumps until Subscribe has asked it to quit.
HasWindow == subscriber \in {"select", "pushing", "stopping"}

-----------------------------------------------------------------------------
(* The message loop, and that of a run that was stopped before this one. *)

RegisterClass ==
  /\ subscriber = "starting"
  /\ subscriber' = IF former THEN "done" ELSE "select"
  /\ UNCHANGED <<windowVars, notify, debounce, fresh, ch, applyVars>>

\* It has answered WM_QUIT and now runs its deferred calls.
FormerUnregisters ==
  /\ former /\ former' = FALSE
  /\ UNCHANGED <<layout, missed, subscribeVars, ch, applyVars>>

\* Variant of Change with a notify channel that has no buffer.
ChangeUnbuffered ==
  /\ layout < MaxLayout /\ layout' = layout + 1
  /\ subscriber # "done"
  /\ notify' = (notify \/ subscriber = "select")
  /\ missed' = (missed \/ ~HasWindow)
  /\ UNCHANGED <<former, subscriber, debounce, fresh, ch, applyVars>>

\* The monitors change; the window, if there is one, gets WM_DISPLAYCHANGE.
\* Once Subscribe has returned it concerns nobody.
Change ==
  /\ layout < MaxLayout /\ layout' = layout + 1
  /\ subscriber # "done"
  /\ notify' = (notify \/ HasWindow)
  /\ missed' = (missed \/ ~HasWindow)
  /\ UNCHANGED <<former, subscriber, debounce, fresh, ch, applyVars>>

-----------------------------------------------------------------------------
(* Display.Subscribe. *)

SeeCancel ==
  /\ subscriber = "select" /\ ~serving
  /\ subscriber' = "stopping"
  /\ UNCHANGED <<windowVars, notify, debounce, fresh, ch, applyVars>>

LoopHasQuit ==
  /\ subscriber = "stopping"
  /\ subscriber' = "done" /\ notify' = FALSE /\ debounce' = FALSE
  /\ UNCHANGED <<windowVars, fresh, ch, applyVars>>

TakeNotify ==
  /\ subscriber = "select" /\ notify
  /\ notify' = FALSE /\ debounce' = TRUE
  /\ UNCHANGED <<windowVars, subscriber, fresh, ch, applyVars>>

\* The window of 250 ms is over; Enumerate may fail.
Expire ==
  /\ subscriber = "select" /\ debounce
  /\ debounce' = FALSE
  /\ \/ missed' = TRUE /\ UNCHANGED <<subscriber, fresh>>
     \/ missed' = FALSE /\ subscriber' = "pushing" /\ fresh' = layout
  /\ UNCHANGED <<layout, former, notify, ch, applyVars>>

\* Variant of Push that drops a snapshot for which there is no room.
PushOrDrop ==
  /\ subscriber = "pushing"
  /\ ch' = IF Len(ch) < Room THEN Append(ch, fresh) ELSE ch
  /\ subscriber' = "select" /\ fresh' = Nothing
  /\ UNCHANGED <<windowVars, notify, debounce, applyVars>>

Push ==
  /\ subscriber = "pushing" /\ Len(ch) < Room
  /\ ch' = Append(ch, fresh)
  /\ subscriber' = "select" /\ fresh' = Nothing
  /\ UNCHANGED <<windowVars, notify, debounce, applyVars>>

PushCancelled ==
  /\ subscriber = "pushing" /\ ~serving
  /\ subscriber' = "select" /\ fresh' = Nothing
  /\ UNCHANGED <<windowVars, notify, debounce, ch, applyVars>>

-----------------------------------------------------------------------------
(* The goroutine that ranges over ch. *)

Receive ==
  /\ applying = Nothing /\ ch # <<>>
  /\ applying' = Head(ch) /\ ch' = Tail(ch)
  /\ UNCHANGED <<windowVars, subscribeVars, serverMons>>

UpdateServerMonitors ==
  /\ applying # Nothing /\ routerMu = Nobody
  /\ serverMons' = applying /\ applying' = Nothing
  /\ UNCHANGED <<windowVars, subscribeVars, ch>>

-----------------------------------------------------------------------------

\* Run has made its snapshot and its router, and subscribes only now.
HotplugInit ==
  /\ Init
  /\ layout = 1 /\ serverMons = 1 /\ missed = FALSE
  /\ former \in BOOLEAN /\ subscriber = "starting"
  /\ notify = FALSE /\ debounce = FALSE /\ fresh = Nothing
  /\ ch = <<>> /\ applying = Nothing

SubscribeStep ==
  SeeCancel \/ LoopHasQuit \/ TakeNotify \/ Expire \/ Push \/ PushCancelled

HotplugNext ==
  \/ Next /\ UNCHANGED hotplugVars
  \/ /\ \/ RegisterClass \/ FormerUnregisters \/ Change
        \/ SubscribeStep \/ Receive \/ UpdateServerMonitors
     /\ UNCHANGED vars

hvars == <<vars, hotplugVars>>
HotplugSpec == HotplugInit /\ [][HotplugNext]_hvars

\* The goroutines run, the timer expires, and Go's mutex is not withheld from
\* a waiter for ever; the peers read.
HotplugFairness ==
  /\ WF_hvars(RegisterClass /\ UNCHANGED vars)
  /\ WF_hvars(SubscribeStep /\ UNCHANGED vars)
  /\ WF_hvars(Receive /\ UNCHANGED vars)
  /\ SF_hvars(UpdateServerMonitors /\ UNCHANGED vars)
  /\ ReadingFairness

-----------------------------------------------------------------------------
(* Properties. *)

\* The newest layout that is on its way to the router, or has arrived.
Newest ==
  IF subscriber = "pushing" THEN fresh
  ELSE IF ch # <<>> THEN ch[Len(ch)]
  ELSE IF applying # Nothing THEN applying ELSE serverMons

\* However changes, the debounce and a full channel interleave, the router has
\* the host's layout, or it is on its way, or a notification or the timer is
\* about to fetch it.  Only what came before there was a window, and what a
\* failing Enumerate left, is missed.
NothingForgotten ==
  serving /\ subscriber \in {"starting", "select", "pushing"} /\ ~missed
    => notify \/ debounce \/ Newest = layout

\* The inductive invariant behind it.
HotplugInv ==
  /\ missed \in BOOLEAN /\ notify \in BOOLEAN /\ debounce \in BOOLEAN
  /\ layout \in Nat \ {Nothing}
  /\ ch \in Seq(Nat \ {Nothing})
  /\ subscriber = "pushing" => fresh # Nothing /\ fresh \in Nat
  /\ NothingForgotten

\* The router learns every layout it is promised, whatever the events, the
\* handlers and the clipboard do with its mutex while peers read.
LayoutArrives ==
  HasWindow /\ ~missed ~> serverMons = layout \/ missed \/ ~serving
=============================================================================
