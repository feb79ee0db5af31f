------------------------- MODULE ClientSessionProofs -------------------------
(***************************************************************************)
(* Nothing stays latched on the client between sessions, for any inputs    *)
(* and capacities.                                                         *)
(***************************************************************************)
EXTENDS ClientSession, TLAPS

LEMMA InitLatchInv == Init => LatchInv
<1> SUFFICES ASSUME Init PROVE LatchInv
  OBVIOUS
<1>1. Signal("other") \in Message
  BY DEF Message, Signal
<1>2. 1 \in Layout /\ 0 \in 0..ErrCap
  BY ClientAssumption DEF Layout
<1> QED
  BY <1>1, <1>2 DEF Init, LatchInv, TypeOK, NotedIsDown, NoReaderApart,
     NothingLatched, Apart, Ping

\* Run and runOnce: the inputs only change when the reader has been waited for.
LEMMA MainStepKeeps == ASSUME LatchInv, MainStep PROVE LatchInv'
<1> USE ClientAssumption DEF LatchInv, TypeOK, NotedIsDown, NoReaderApart,
        NothingLatched, Apart, Layout, Ping, linkVars, readerVars, monitorVars, runVars
<1>1. CASE WaitEnds
  BY <1>1 DEF WaitEnds
<1>2. CASE DialFails
  BY <1>2 DEF DialFails, Returns
<1>3. CASE DialSucceeds
  <2>1. stalled' \in BOOLEAN /\ signal' \in BOOLEAN
    BY <1>3, Zenon DEF DialSucceeds
  <2> QED BY <1>3, <2>1 DEF DialSucceeds
<1>4. CASE SeeCancel
  BY <1>4 DEF SeeCancel
<1>5. CASE TakeError
  BY <1>5 DEF TakeError
<1>6. CASE TakeSignal
  BY <1>6 DEF TakeSignal
<1>7. CASE LockMain
  BY <1>7 DEF LockMain
<1>8. CASE MainWrites
  BY <1>8 DEF MainWrites
<1>9. CASE MainWriteFails
  BY <1>9 DEF MainWriteFails
<1>10. CASE CloseSession
  BY <1>10 DEF CloseSession
<1>11. CASE JoinReader
  BY <1>11 DEF JoinReader, Returns
<1> QED
  BY <1>1, <1>2, <1>3, <1>4, <1>5, <1>6, <1>7, <1>8, <1>9, <1>10, <1>11
  DEF MainStep

\* The reader notes what it injects, and only while its session lives.
LEMMA ReaderStepKeeps ==
  ASSUME LatchInv, ReaderStep \/ \E m \in Message : Receive(m) PROVE LatchInv'
<1> USE ClientAssumption DEF LatchInv, TypeOK, NotedIsDown, NoReaderApart,
        NothingLatched, Apart, Layout, Ping, linkVars, monitorVars, runVars
<1>1. CASE Dispatch
  <2>1. Signal("other") \in Message /\ (msg.kind \in {"down", "up"} => msg.input \in Input)
    BY DEF Message, Signal
  <2> QED BY <1>1, <2>1 DEF Dispatch
<1>2. CASE RecvFails
  BY <1>2 DEF RecvFails
<1>3. CASE Report
  BY <1>3 DEF Report
<1>4. ASSUME NEW m \in Message, Receive(m) PROVE LatchInv'
  BY <1>4 DEF Receive
<1> QED BY <1>1, <1>2, <1>3, <1>4 DEF ReaderStep

\* The watcher, the user and the network touch neither.
LEMMA OthersKeep ==
  ASSUME LatchInv,
         WatcherStep \/ Start \/ Stop \/ Tick \/ LocalCopy \/ WatchEnds
           \/ Break \/ Stall \/ Resume \/ Hotplug
  PROVE  LatchInv'
<1> USE ClientAssumption DEF LatchInv, TypeOK, NotedIsDown, NoReaderApart,
        NothingLatched, Apart, Layout, Ping, linkVars, readerVars, monitorVars,
        runVars
<1>1. CASE LockWatcher
  BY <1>1 DEF LockWatcher
<1>2. CASE WatcherWrites
  BY <1>2 DEF WatcherWrites
<1>3. CASE WatcherWriteFails
  BY <1>3 DEF WatcherWriteFails, Noticed
<1>4. CASE Start
  BY <1>4 DEF Start
<1>5. CASE Stop
  <2>1. serving' \in BOOLEAN
    BY <1>5, Zenon DEF Stop
  <2> QED BY <1>5, <2>1 DEF Stop
<1>6. CASE Tick
  BY <1>6 DEF Tick
<1>7. CASE LocalCopy
  BY <1>7 DEF LocalCopy
<1>8. CASE WatchEnds
  BY <1>8 DEF WatchEnds, Noticed
<1>9. CASE Break
  BY <1>9 DEF Break
<1>10. CASE Stall
  BY <1>10 DEF Stall
<1>11. CASE Resume
  <2>1. stalled' \in BOOLEAN
    BY <1>11, Zenon DEF Resume
  <2> QED BY <1>11, <2>1 DEF Resume
<1>12. CASE Hotplug
  BY <1>12 DEF Hotplug, Subscribed
<1> QED
  BY <1>1, <1>2, <1>3, <1>4, <1>5, <1>6, <1>7, <1>8, <1>9, <1>10, <1>11, <1>12
  DEF WatcherStep

\* The invariant is inductive: type correctness, what is down is noted, no
\* reader outlives its session, and nothing is down between two sessions.
THEOREM LatchInvariant == Spec => []LatchInv
<1>1. LatchInv /\ [Next]_vars => LatchInv'
  <2> SUFFICES ASSUME LatchInv, [Next]_vars PROVE LatchInv'
    OBVIOUS
  <2>1. CASE Next
    BY <2>1, MainStepKeeps, ReaderStepKeeps, OthersKeep DEF Next, Outside
  <2>2. CASE UNCHANGED vars
    BY <2>2 DEF LatchInv, TypeOK, NotedIsDown, NoReaderApart, NothingLatched, Apart,
       vars, linkVars, readerVars, monitorVars, runVars
  <2> QED BY <2>1, <2>2
<1> QED BY InitLatchInv, <1>1, PTL DEF Spec

\* Between two sessions nothing is held down on the client's machine, whatever
\* its inputs and however the session before ended (runOnce's deferred calls).
THEOREM NothingStaysLatched == Spec => []NothingLatched
<1>1. LatchInv => NothingLatched
  BY DEF LatchInv
<1> QED BY LatchInvariant, <1>1, PTL

\* Every variable keeps its type; errs never holds more than its capacity.
THEOREM SessionTyped == Spec => []TypeOK
<1>1. LatchInv => TypeOK
  BY DEF LatchInv
<1> QED BY LatchInvariant, <1>1, PTL
=============================================================================
