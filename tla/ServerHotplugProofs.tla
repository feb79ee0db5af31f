------------------------ MODULE ServerHotplugProofs ------------------------
(***************************************************************************)
(* For any number of connections and any buffer: the router only sends on  *)
(* sessions that are still registered.  The lock order behind it is the    *)
(* invariant LockInv of ServerLocks.  For any number of layouts, clients   *)
(* and slots in the channel: a change of the host's monitors is never      *)
(* forgotten on its way to the router.                                     *)
(***************************************************************************)
EXTENDS ServerHotplug, SequenceTheorems, TLAPS

-----------------------------------------------------------------------------
(* The mutexes of the server. *)

\* The places are told apart by pc and to.
LEMMA Places ==
  /\ \A pc : At(pc).pc = pc /\ At(pc).to = Nobody
  /\ \A c : Sending(c).pc = "sending" /\ Sending(c).to = c
BY DEF At, Sending

\* Initially every handler is new and nothing is registered or locked.
LEMMA InitLockInv == Init => LockInv
BY ThreadsAssumption, SMT DEF Init, LockInv, TypeOK, Place, RouterMuHeld,
   HandlerOfRegistered, SendsToRegistered, At, Thread

\* A step of the send loop keeps the invariant, whoever takes it.
LEMMA SendKeeps ==
  ASSUME LockInv, NEW t \in Thread, SendStep(t)
  PROVE  LockInv'
<1> USE ThreadsAssumption DEF LockInv, TypeOK, Place, RouterMuHeld,
        HandlerOfRegistered, SendsToRegistered, At, Thread, Goto
<1>1. CASE NextSend(t)
  BY <1>1 DEF NextSend, Sending
<1>2. CASE LockSession(t)
  BY <1>2 DEF LockSession
<1>3. CASE EndSends(t)
  BY <1>3 DEF EndSends, Rest
<1>4. CASE \E c \in ConnId : WriteFits(t, c)
  BY <1>4 DEF WriteFits, Writing, Sending, IsOpen
<1>5. CASE \E c \in ConnId : WriteFails(t, c)
  BY <1>5 DEF WriteFails, Writing, Sending, IsOpen
<1>6. CASE \E c \in ConnId : WriteTimesOut(t, c)
  BY <1>6 DEF WriteTimesOut, Writing, Sending, IsOpen
<1> QED
  BY <1>1, <1>2, <1>3, <1>4, <1>5, <1>6 DEF SendStep

\* Every other step of the event loop and of the watcher keeps it.
LEMMA LoopKeeps ==
  ASSUME LockInv,
         TakeEvent \/ LocalClipboard \/ Cancel \/ HandleEvent \/ StopLoop \/ StopWatcher
  PROVE  LockInv'
<1> USE ThreadsAssumption DEF LockInv, TypeOK, Place, RouterMuHeld,
        HandlerOfRegistered, SendsToRegistered, At, Thread, Goto
<1>1. CASE TakeEvent
  BY <1>1 DEF TakeEvent
<1>2. CASE LocalClipboard
  BY <1>2 DEF LocalClipboard, BeginSends
<1>3. CASE Cancel
  BY <1>3 DEF Cancel
<1>4. CASE HandleEvent
  BY <1>4 DEF HandleEvent, BeginSends
<1>5. CASE StopLoop
  BY <1>5 DEF StopLoop
<1>6. CASE StopWatcher
  BY <1>6 DEF StopWatcher
<1> QED
  BY <1>1, <1>2, <1>3, <1>4, <1>5, <1>6

\* A handler's own steps keep it: Unregister because it waits for r.mu.
LEMMA HandlerKeeps ==
  ASSUME LockInv, NEW c \in ConnId,
         \/ Accept(c) \/ Register(c) \/ RecvPing(c) \/ RecvClipboard(c)
         \/ RecvMonitors(c) \/ UpdateMonitors(c) \/ RecvEnds(c)
         \/ LeaveHub(c) \/ Unregister(c) \/ CloseSession(c)
  PROVE  LockInv'
<1> USE ThreadsAssumption DEF LockInv, TypeOK, Place, RouterMuHeld,
        HandlerOfRegistered, SendsToRegistered, At, Thread, Goto
<1>1. CASE Accept(c)
  BY <1>1 DEF Accept
<1>2. CASE Register(c)
  BY <1>2 DEF Register
<1>3. CASE RecvPing(c)
  BY <1>3 DEF RecvPing, BeginSends
<1>8. CASE RecvClipboard(c)
  BY <1>8 DEF RecvClipboard, BeginSends
<1>4. CASE RecvMonitors(c) \/ UpdateMonitors(c)
  BY <1>4 DEF RecvMonitors, UpdateMonitors
<1>5. CASE RecvEnds(c) \/ LeaveHub(c)
  BY <1>5 DEF RecvEnds, LeaveHub
<1>6. CASE Unregister(c)
  BY <1>6 DEF Unregister
<1>7. CASE CloseSession(c)
  BY <1>7 DEF CloseSession
<1> QED
  BY <1>1, <1>2, <1>3, <1>4, <1>5, <1>6, <1>7, <1>8

\* So do the peers, the network and the shutdown.
LEMMA OutsideKeeps ==
  ASSUME LockInv, NEW c \in ConnId, CloseOnShutdown(c) \/ PeerReads(c) \/ Break(c)
  PROVE  LockInv'
BY ThreadsAssumption DEF LockInv, TypeOK, Place, RouterMuHeld, HandlerOfRegistered,
   SendsToRegistered, At, Thread, CloseOnShutdown, PeerReads, Break, IsOpen

\* The lock order that SendsToRegistered rests on always holds.
THEOREM LocksOrdered == Spec => []LockInv
<1>1. LockInv /\ [Next]_vars => LockInv'
  <2> SUFFICES ASSUME LockInv, [Next]_vars PROVE LockInv'
    OBVIOUS
  <2>1. CASE UNCHANGED vars
    BY <2>1 DEF vars, LockInv, TypeOK, RouterMuHeld, HandlerOfRegistered, SendsToRegistered
  <2>2. CASE TakeEvent \/ LocalClipboard \/ Cancel \/ LoopStep \/ WatcherStep
    BY <2>2, LoopKeeps, SendKeeps DEF LoopStep, WatcherStep, Thread
  <2>3. CASE \E c \in ConnId : HandlerStep(c) \/ RecvEnds(c) \/ CloseOnShutdown(c) \/ Outside(c)
    BY <2>3, HandlerKeeps, SendKeeps, OutsideKeeps DEF HandlerStep, Outside, Thread
  <2> QED
    BY <2>1, <2>2, <2>3 DEF Next
<1> QED
  BY <1>1, InitLockInv, PTL DEF Spec

\* The router only sends on sessions that are registered and not yet closed by
\* their handler: Unregister waits out the event, Close comes last.
THEOREM SendsSafely == Spec => []SendsToRegistered
<1>1. LockInv => SendsToRegistered
  BY DEF LockInv
<1> QED
  BY <1>1, LocksOrdered, PTL

\* Every variable keeps its type; no socket holds more than its buffer takes.
THEOREM LocksTyped == Spec => []TypeOK
<1>1. LockInv => TypeOK
  BY DEF LockInv
<1> QED
  BY <1>1, LocksOrdered, PTL

-----------------------------------------------------------------------------
(* The host's monitors, on the way to the router. *)

\* The server's other goroutines do not start it again.
LEMMA StaysStopped ==
  ASSUME [Next]_vars, serving'
  PROVE  serving
BY DEF Next, vars, TakeEvent, LocalClipboard, Cancel, LoopStep, WatcherStep,
   HandleEvent, StopLoop, StopWatcher, SendStep, NextSend, LockSession, EndSends,
   WriteFits, WriteFails, WriteTimesOut, HandlerStep, Register, UpdateMonitors,
   LeaveHub, Unregister, CloseSession, RecvEnds, CloseOnShutdown, Outside, Accept,
   RecvPing, RecvClipboard, RecvMonitors, PeerReads, Break

\* The window and the timer keep the invariant.
LEMMA WindowKeeps ==
  ASSUME HotplugInv, UNCHANGED vars,
         RegisterClass \/ FormerUnregisters \/ Change
  PROVE  HotplugInv'
<1> USE DEF HotplugInv, NothingForgotten, Newest, vars, subscribeVars, windowVars, applyVars
<1>1. CASE RegisterClass
  BY <1>1 DEF RegisterClass
<1>2. CASE FormerUnregisters
  BY <1>2 DEF FormerUnregisters
<1>3. CASE Change
  <2>1. layout' \in Nat \ {Nothing} /\ notify' \in BOOLEAN /\ missed' \in BOOLEAN
    BY <1>3 DEF Change, HasWindow, Nothing
  <2>2. serving /\ subscriber \in {"starting", "select", "pushing"} /\ ~missed' => notify'
    BY <1>3 DEF Change, HasWindow
  <2> QED
    BY <1>3, <2>1, <2>2 DEF Change
<1> QED
  BY <1>1, <1>2, <1>3

\* So does every step of Subscribe's loop.
LEMMA SubscribeKeeps ==
  ASSUME HotplugInv, UNCHANGED vars, SubscribeStep
  PROVE  HotplugInv'
<1> USE DEF HotplugInv, NothingForgotten, Newest, vars, windowVars, applyVars
<1>1. CASE SeeCancel \/ LoopHasQuit
  BY <1>1 DEF SeeCancel, LoopHasQuit
<1>2. CASE TakeNotify
  BY <1>2 DEF TakeNotify
<1>3. CASE Expire
  BY <1>3 DEF Expire
<1>4. CASE Push
  <2>1. ch' = Append(ch, fresh) /\ fresh \in Nat \ {Nothing}
    BY <1>4 DEF Push
  <2>2. ch' \in Seq(Nat \ {Nothing}) /\ ch' # <<>> /\ ch'[Len(ch')] = fresh
    BY <2>1
  <2> QED
    BY <1>4, <2>2 DEF Push
<1>5. CASE PushCancelled
  BY <1>5 DEF PushCancelled
<1> QED
  BY <1>1, <1>2, <1>3, <1>4, <1>5 DEF SubscribeStep

\* Taking the first of several leaves the last.
LEMMA TailKeepsLast ==
  ASSUME NEW S, NEW s \in Seq(S), Len(s) > 1
  PROVE  Tail(s) # <<>> /\ Tail(s)[Len(Tail(s))] = s[Len(s)]
<1>1. Tail(s) \in Seq(S) /\ Len(Tail(s)) = Len(s) - 1
  BY s # <<>>, HeadTailProperties
<1>2. Len(Tail(s)) \in 1..Len(Tail(s)) /\ Len(Tail(s)) + 1 = Len(s)
  BY <1>1, LenProperties
<1>3. Tail(s)[Len(Tail(s))] = s[Len(Tail(s)) + 1]
  <2>1. \A i \in 1..Len(Tail(s)) : Tail(s)[i] = s[i + 1]
    BY s # <<>>, HeadTailProperties
  <2> QED
    BY <1>2, <2>1, Zenon
<1>4. Tail(s) # <<>>
  <2>1. Len(s) \in Nat /\ \A n \in Nat : n > 1 => n - 1 # 0
    <3>1. Len(s) \in Nat
      BY LenProperties, Zenon
    <3> QED
      BY <3>1
  <2>2. Len(Tail(s)) # 0
    BY <1>1, <2>1, Zenon
  <2> QED
    BY <2>2, EmptySeq, Zenon
<1> QED
  BY <1>2, <1>3, <1>4

\* And every step of the goroutine that hands snapshots to the router.
LEMMA ApplyKeeps ==
  ASSUME HotplugInv, UNCHANGED vars, Receive \/ UpdateServerMonitors
  PROVE  HotplugInv'
<1> USE DEF HotplugInv, NothingForgotten, Newest, vars, windowVars, subscribeVars
<1>1. CASE Receive
  <2>1. /\ ch' = Tail(ch) /\ ch' \in Seq(Nat \ {Nothing})
        /\ applying' = Head(ch) /\ applying' # Nothing
    BY <1>1 DEF Receive
  <2>2. ch # <<>> /\ ch \in Seq(Nat \ {Nothing}) /\ Len(ch) \in Nat \ {0}
    BY <1>1 DEF Receive
  <2>3. CASE Len(ch) = 1
    <3>1. ch' = <<>> /\ applying' = ch[Len(ch)]
      BY <2>1, <2>2, <2>3
    <3> QED
      BY <1>1, <2>1, <2>2, <3>1 DEF Receive
  <2>4. CASE Len(ch) > 1
    <3>2. ch' # <<>> /\ ch'[Len(ch')] = ch[Len(ch)]
      BY <2>1, <2>2, <2>4, TailKeepsLast
    <3> QED
      BY <1>1, <2>1, <2>2, <3>2 DEF Receive
  <2>5. Len(ch) = 1 \/ Len(ch) > 1
    <3>1. \A n \in Nat \ {0} : n = 1 \/ n > 1
      OBVIOUS
    <3> QED
      BY <2>2, <3>1, Zenon
  <2> QED
    BY <2>3, <2>4, <2>5, Zenon
<1>2. CASE UpdateServerMonitors
  BY <1>2 DEF UpdateServerMonitors
<1> QED
  BY <1>1, <1>2

\* The invariant is inductive.
THEOREM HotplugInvariant == HotplugSpec => []HotplugInv
<1>1. HotplugInit => HotplugInv
  <2> SUFFICES ASSUME HotplugInit PROVE HotplugInv
    OBVIOUS
  <2>1. ch \in Seq(Nat \ {Nothing})
    BY DEF HotplugInit
  <2>2. layout \in Nat \ {Nothing} /\ Newest = layout
    BY DEF HotplugInit, Newest, Nothing
  <2>3. /\ missed \in BOOLEAN /\ notify \in BOOLEAN /\ debounce \in BOOLEAN
        /\ subscriber # "pushing"
    BY DEF HotplugInit
  <2> QED
    BY <2>1, <2>2, <2>3, Zenon DEF HotplugInv, NothingForgotten
<1>2. HotplugInv /\ [HotplugNext]_hvars => HotplugInv'
  <2> SUFFICES ASSUME HotplugInv, [HotplugNext]_hvars
               PROVE  HotplugInv'
    OBVIOUS
  <2>1. CASE [Next]_vars /\ UNCHANGED hotplugVars
    <3>1. serving' => serving
      BY <2>1, StaysStopped
    <3> QED
      BY <2>1, <3>1 DEF HotplugInv, NothingForgotten, Newest, hotplugVars, windowVars,
         subscribeVars, applyVars
  <2>2. CASE UNCHANGED vars /\ (RegisterClass \/ FormerUnregisters \/ Change)
    BY <2>2, WindowKeeps
  <2>3. CASE UNCHANGED vars /\ SubscribeStep
    BY <2>3, SubscribeKeeps
  <2>4. CASE UNCHANGED vars /\ (Receive \/ UpdateServerMonitors)
    BY <2>4, ApplyKeeps
  <2> QED
    BY <2>1, <2>2, <2>3, <2>4 DEF HotplugNext, hvars
<1> QED
  BY <1>1, <1>2, PTL DEF HotplugSpec

\* No change of the host's monitors is forgotten between the window and the
\* router: not by the debounce, not by a full channel.
THEOREM NothingIsForgotten == HotplugSpec => []NothingForgotten
<1>1. HotplugInv => NothingForgotten
  BY DEF HotplugInv
<1> QED
  BY <1>1, HotplugInvariant, PTL

\* Hotplug adds a goroutine that takes Router.mu and disturbs none of the
\* others: what is proved of ServerLocks holds with it.
THEOREM HotplugKeepsLocks == HotplugSpec => Spec
<1>1. HotplugInit => Init
  BY DEF HotplugInit
<1>2. [HotplugNext]_hvars => [Next]_vars
  BY DEF HotplugNext, hvars
<1> QED
  BY <1>1, <1>2, PTL DEF HotplugSpec, Spec
=============================================================================
