--------------------------- MODULE ClipboardSync ---------------------------
(***************************************************************************)
(* The shared clipboard.  Each machine has one clipboard; watchers poll it *)
(* and send what is new, the server's to every client and a client's to    *)
(* the server, which applies it and passes it on.  What a machine applies  *)
(* must not come back from its own watcher: hashes and a settling window   *)
(* after each application keep it quiet.                                   *)
(*                                                                         *)
(* A payload is an item in one of two forms: a picture that goes through   *)
(* the clipboard of Windows is read back re-encoded.  Hashes are payloads. *)
(* A watcher looks at the clipboard at one moment, and several times while *)
(* a window is open unless a broadcast blocks it.  Room on a connection    *)
(* and who waits for whom are ServerLocks' and ClientSession's subject.    *)
(***************************************************************************)
EXTENDS ClipboardHistory, Integers, FiniteSets

CONSTANTS
  Server, Client,  \* machines
  Linux,           \* machines that run Linux, the others run Windows
  Item, Picture,   \* what can be copied; pictures are re-encoded by Windows
  Nothing,         \* no payload
  First,           \* what the clipboards may hold at the start
  MaxSession,      \* sessions of each client
  MaxActs,         \* copies, restores and clearings by users
  Gui,             \* machines with a history panel
  WriteMayFail,    \* writing to a clipboard may fail
  ReadMayFail,     \* reading one may fail, another program has it open
  Prompt,          \* no watcher looks between a write and the note of it
  Patient          \* users act, and sessions begin, when all is settled

Node == Client \cup {Server}
Session == UNION {{c} \X (1 .. MaxSession[c]) : c \in Client}
Hub == <<Server, 1>>
Watcher == Session \cup {Hub}
\* Who takes payloads off a connection: its handler on the server, and the
\* reader of the client.
Receiver == Session \X {"up", "down"}
Payload == [item : Item, raw : BOOLEAN]

ASSUME ClipboardAssumption ==
  /\ Server \notin Client /\ Linux \subseteq Node /\ Gui \subseteq Node
  /\ Picture \subseteq Item /\ Nothing \notin Payload \cup Item
  /\ First \subseteq [Node -> Payload \cup {Nothing}]
  /\ MaxSession \in [Client -> Nat \ {0}] /\ MaxActs \in Nat
  /\ {WriteMayFail, ReadMayFail, Prompt, Patient} \subseteq BOOLEAN

VARIABLES
  os,        \* the clipboard of each machine
  session,   \* how many sessions each client has begun
  open,      \* the sessions that are connected
  wire,      \* what is under way to each receiver
  recv,      \* where each receiver is in its loop
  watch,     \* where each watcher is in its callback
  seen,      \* what each watcher last gave its callback
  missed,    \* Windows: the watchers that failed to read what is there now
  claimed,   \* Linux: what any watcher of the machine last took up
  mark,      \* lastHash of the hub, lastLocal of each session
  settling,  \* whose settling window is open
  hist,      \* the history of each machine
  shown,     \* the entry its user has in view on the panel, drawn some time ago
  acts,      \* copies, restores and clearings so far
  latest,    \* the item that was announced last, and where
  informed,  \* the machines it is promised to
  news       \* the item each end applied or sent since its user last acted

netVars == <<session, open, wire>>
lookVars == <<seen, missed, claimed>>
watchVars == <<watch, lookVars>>
endVars == <<mark, settling>>
panelVars == <<hist, shown>>
ghostVars == <<acts, latest, informed, news>>
vars == <<os, netVars, recv, watchVars, endVars, panelVars, ghostVars>>

-----------------------------------------------------------------------------
Host(w) == w[1]
Down(s) == <<s, "down">>
Up(s) == <<s, "up">>

\* The current watcher of machine n, whose state its receivers share.
End(n) == IF n = Server THEN Hub ELSE <<n, session[n]>>
EndOf(r) == IF r[2] = "up" THEN Hub ELSE r[1]
PlaceOf(r) == Host(EndOf(r))
\* A client has watchers once it had a session, and keeps them all.
Running(w) == w # Hub => w[2] <= session[Host(w)]
Connected(n) == n = Server \/ End(n) \in open

\* What reading gives when the clipboard of n holds p.
ReadBack(n, p) ==
  IF p # Nothing /\ n \notin Linux /\ p.item \in Picture THEN [p EXCEPT !.raw = FALSE] ELSE p

\* The watcher finds something to give its callback: on Windows each compares
\* with what it saw itself, on Linux with what any watcher of the machine saw.
NewsFor(w, p) ==
  LET n == Host(w)
      q == ReadBack(n, p)
  IN  q # Nothing /\ q # (IF n \in Linux THEN claimed[n] ELSE seen[w])
Fresh(w) == Running(w) /\ w \notin missed /\ NewsFor(w, os[Host(w)])

\* The clipboard of n changes to p, and on Windows its sequence number with it.
Written(n, p) ==
  /\ os' = [os EXCEPT ![n] = p]
  /\ missed' = {w \in missed : Host(w) # n}

\* Nothing is under way and every watcher has seen its clipboard.
Settled ==
  /\ settling = {}
  /\ \A w \in Watcher : watch[w].pc = "idle" /\ ~Fresh(w)
  /\ \A r \in Receiver : recv[r].pc = "idle" /\ wire[r] = <<>>

Quiet == [pc |-> "idle", data |-> Nothing, to |-> {}]

Recorded(n, data) == hist' = [hist EXCEPT ![n] = Add(@, data)]

-----------------------------------------------------------------------------
(* Users and panels. *)

Holds(p, announced) == p # Nothing /\ p.item = announced.item

\* What it means for the others that machine n now holds p: it is announced if the
\* machine is connected, its watcher will take it up, and it is not an exact
\* duplicate of what was sent or applied last, which is never sent again.
Announced(n, p, connected) ==
  IF n \in connected /\ NewsFor(End(n), p) /\ mark[End(n)] # ReadBack(n, p)
  THEN latest' = [item |-> p.item, at |-> n] /\ informed' = connected
  ELSE latest' = latest /\ informed' = IF Holds(p, latest) THEN informed ELSE informed \ {n}

Online == {n \in Node : Connected(n)}

\* The user of n puts p into the clipboard.
Put(n, p) ==
  /\ acts < MaxActs /\ (Patient => Settled)
  /\ Written(n, p)
  /\ acts' = acts + 1
  /\ Announced(n, p, Online)
  /\ news' = [w \in Watcher |-> IF Host(w) = n THEN Nothing ELSE news[w]]
  /\ UNCHANGED <<netVars, recv, watch, seen, claimed, endVars, panelVars>>

Copy(n) == \E i \in Item : Put(n, [item |-> i, raw |-> TRUE])

\* RestoreClipboardItem: the id comes from the panel, the payload from Get.
Restore(n) ==
  /\ shown[n] # Nothing
  /\ \E e \in Get(hist[n], shown[n].id) : Put(n, e.data)

\* GetClipboardHistory.
ShowHistory(n) ==
  /\ n \in Gui /\ (Patient => Settled)
  /\ \E e \in Snapshot(hist[n]) : shown' = [shown EXCEPT ![n] = e]
  /\ UNCHANGED <<os, netVars, recv, watchVars, endVars, hist, ghostVars>>

\* ClearClipboardHistory; the panel learns of it later.
ClearHistory(n) ==
  /\ acts < MaxActs /\ (Patient => Settled)
  /\ n \in Gui /\ hist[n].items # <<>>
  /\ acts' = acts + 1
  /\ hist' = [hist EXCEPT ![n] = Clear(@)]
  /\ UNCHANGED <<os, netVars, recv, watchVars, endVars, shown, latest, informed, news>>

-----------------------------------------------------------------------------
(* Sessions.  A client's watchers run until its program ends, also those of *)
(* sessions that are over.                                                  *)

\* runOnce: fresh state, a new watcher, and the hub's list gets the session.
\* A watcher on Windows will report what the clipboard holds.
Connect(c) ==
  LET s == <<c, session[c] + 1>>
  IN  /\ session[c] < MaxSession[c] /\ <<c, session[c]>> \notin open
      /\ \A t \in Session : Host(t) = c => recv[Down(t)].pc = "idle"
      /\ Patient => Settled
      /\ session' = [session EXCEPT ![c] = @ + 1]
      /\ open' = open \cup {s}
      /\ IF NewsFor(s, os[c])
         THEN latest' = [item |-> os[c].item, at |-> c] /\ informed' = Online \cup {c}
         ELSE UNCHANGED <<latest, informed>>
      /\ UNCHANGED <<os, wire, recv, watchVars, endVars, panelVars, acts, news>>

\* A session is lost with all that is under way on it.
Break(s) ==
  /\ s \in open
  /\ open' = open \ {s}
  /\ wire' = [wire EXCEPT ![Up(s)] = <<>>, ![Down(s)] = <<>>]
  /\ informed' = IF Settled THEN informed \ {Host(s)} ELSE {}
  /\ UNCHANGED <<os, session, recv, watchVars, endVars, panelVars, acts, latest, news>>

-----------------------------------------------------------------------------
(* Watchers: Watch, and the callback it gets from watchLocal or runOnce. *)

\* Windows: an unchanged sequence number or hash is skipped by each watcher for
\* itself; Linux: the hash of the last payload is shared by all of a machine.
Look(w) ==
  LET n == Host(w)
      q == ReadBack(n, os[n])
  IN  /\ watch[w].pc = "idle" /\ Fresh(w)
      /\ Prompt => \A r \in Receiver : PlaceOf(r) = n => recv[r].pc # "written"
      /\ seen' = [seen EXCEPT ![w] = q]
      /\ claimed' = IF n \in Linux THEN [claimed EXCEPT ![n] = q] ELSE claimed
      /\ watch' = [watch EXCEPT ![w] = [pc |-> "read", data |-> q, to |-> {}]]
      /\ UNCHANGED <<os, netVars, recv, missed, endVars, panelVars, ghostVars>>

\* Reading fails: Linux tries again, Windows has noted the sequence number and
\* does not read again before the clipboard changes; what it missed is promised
\* to nobody.
LookFails(w) ==
  /\ ReadMayFail /\ Host(w) \notin Linux
  /\ watch[w].pc = "idle" /\ Fresh(w)
  /\ missed' = missed \cup {w}
  /\ informed' = {}
  /\ UNCHANGED <<os, netVars, recv, watch, seen, claimed, endVars, panelVars, acts, latest, news>>

\* Only a machine with a panel has a callback OnClipboardItem to go through.
Told(w, next) == IF Host(w) \in Gui THEN "telling" ELSE next

\* shouldSuppress, shouldSendLocal.
Suppressed(w) == mark[w] = watch[w].data \/ w \in settling

\* A client notes what it sends before it does so, the hub afterwards.
Decide(w) ==
  /\ watch[w].pc = "read"
  /\ \/ /\ Suppressed(w)
        /\ watch' = [watch EXCEPT ![w] = Quiet]
        /\ UNCHANGED <<mark, news>>
     \/ /\ ~Suppressed(w)
        /\ news' = [news EXCEPT ![w] = watch[w].data.item]
        /\ IF w = Hub
           THEN /\ watch' = [watch EXCEPT ![w].pc = "sending", ![w].to = open]
                /\ mark' = mark
           ELSE /\ watch' = [watch EXCEPT ![w].pc = Told(w, "sending"), ![w].to = {w}]
                /\ mark' = [mark EXCEPT ![w] = watch[w].data]
  /\ UNCHANGED <<os, netVars, recv, lookVars, settling, panelVars, acts, latest, informed>>

\* Variant of Sent that does not notice that the session is lost.
SentAnyway(r, data) == wire' = [wire EXCEPT ![r] = Append(@, data)]

\* Session.Send and SendWithTimeout: a lost session takes nothing.
Sent(r, data) == wire' = IF r[1] \in open THEN [wire EXCEPT ![r] = Append(@, data)] ELSE wire

WatcherSends(w) ==
  /\ watch[w].pc = "sending"
  /\ \E s \in watch[w].to :
       /\ Sent(IF w = Hub THEN Down(s) ELSE Up(s), watch[w].data)
       /\ watch' = [watch EXCEPT ![w] = IF w = Hub THEN [@ EXCEPT !.to = watch[w].to \ {s}] ELSE Quiet]
  /\ UNCHANGED <<os, session, open, recv, lookVars, endVars, panelVars, ghostVars>>

\* setLastHash stands after the broadcast.
HubSent ==
  /\ watch[Hub].pc = "sending" /\ watch[Hub].to = {}
  /\ mark' = [mark EXCEPT ![Hub] = watch[Hub].data]
  /\ watch' = [watch EXCEPT ![Hub] = IF Server \in Gui THEN [@ EXCEPT !.pc = "telling"] ELSE Quiet]
  /\ UNCHANGED <<os, netVars, recv, lookVars, settling, panelVars, ghostVars>>

\* OnClipboardItem: before a client sends, after the hub did.
WatcherTells(w) ==
  /\ watch[w].pc = "telling"
  /\ Recorded(Host(w), watch[w].data)
  /\ watch' = [watch EXCEPT ![w] = IF w = Hub THEN Quiet ELSE [@ EXCEPT !.pc = "sending"]]
  /\ UNCHANGED <<os, netVars, recv, lookVars, endVars, shown, ghostVars>>

\* Time passes suppressTill.
WindowCloses(w) ==
  /\ w \in settling
  /\ watch[w].pc \in {"idle", "sending"}
  /\ watch[w].pc = "idle" => ~Fresh(w)
  /\ settling' = settling \ {w}
  /\ UNCHANGED <<os, netVars, recv, watchVars, mark, panelVars, ghostVars>>

-----------------------------------------------------------------------------
(* Receivers: a handler on the server applies and passes on, the reader of a *)
(* client applies.                                                           *)

\* Variant of Others that passes nothing on.
OthersNone(r) == {}

\* Peers that a handler passes a payload on to: all but the one it came from.
Others(r) == IF r[2] = "up" THEN open \ {r[1]} ELSE {}
Passing(data, to) == IF to = {} THEN Quiet ELSE [pc |-> "passing", data |-> data, to |-> to]

Taken(r) == /\ recv[r].pc = "idle" /\ wire[r] # <<>>
            /\ wire' = [wire EXCEPT ![r] = Tail(@)]

\* Clipboard.Write succeeds...
Apply(r) ==
  /\ Taken(r)
  /\ Written(PlaceOf(r), Head(wire[r]))
  /\ recv' = [recv EXCEPT ![r] = [pc |-> "written", data |-> Head(wire[r]), to |-> {}]]
  /\ UNCHANGED <<session, open, watch, seen, claimed, endVars, panelVars, ghostVars>>

\* ... or fails, on Windows maybe after it emptied the clipboard.  A handler
\* passes the payload on all the same.
ApplyFails(r) ==
  /\ WriteMayFail /\ Taken(r)
  /\ \/ UNCHANGED <<os, missed>>
     \/ PlaceOf(r) \notin Linux /\ Written(PlaceOf(r), Nothing)
  /\ recv' = [recv EXCEPT ![r] = Passing(Head(wire[r]), Others(r))]
  /\ informed' = informed \ {PlaceOf(r)}
  /\ UNCHANGED <<session, open, watch, seen, claimed, endVars, panelVars, acts, latest, news>>

\* Variant of Note that opens no settling window.
NoteHashOnly(r) ==
  /\ recv[r].pc = "written"
  /\ mark' = [mark EXCEPT ![EndOf(r)] = recv[r].data]
  /\ news' = [news EXCEPT ![EndOf(r)] = recv[r].data.item]
  /\ recv' = [recv EXCEPT ![r] =
                IF PlaceOf(r) \in Gui THEN [@ EXCEPT !.pc = "telling"] ELSE Passing(@.data, Others(r))]
  /\ UNCHANGED <<os, netVars, watchVars, settling, panelVars, acts, latest, informed>>

\* noteRemote, and the end of applyRemote: after the clipboard was written.
Note(r) ==
  /\ recv[r].pc = "written"
  /\ mark' = [mark EXCEPT ![EndOf(r)] = recv[r].data]
  /\ settling' = settling \cup {EndOf(r)}
  /\ news' = [news EXCEPT ![EndOf(r)] = recv[r].data.item]
  /\ recv' = [recv EXCEPT ![r] =
                IF PlaceOf(r) \in Gui THEN [@ EXCEPT !.pc = "telling"] ELSE Passing(@.data, Others(r))]
  /\ UNCHANGED <<os, netVars, watchVars, panelVars, acts, latest, informed>>

ReceiverTells(r) ==
  /\ recv[r].pc = "telling"
  /\ Recorded(PlaceOf(r), recv[r].data)
  /\ recv' = [recv EXCEPT ![r] = Passing(@.data, Others(r))]
  /\ UNCHANGED <<os, netVars, watchVars, endVars, shown, ghostVars>>

PassOn(r) ==
  /\ recv[r].pc = "passing"
  /\ \E s \in recv[r].to :
       /\ Sent(Down(s), recv[r].data)
       /\ recv' = [recv EXCEPT ![r] = Passing(@.data, @.to \ {s})]
  /\ UNCHANGED <<os, session, open, watchVars, endVars, panelVars, ghostVars>>

-----------------------------------------------------------------------------
Init ==
  /\ os \in First
  /\ session = [c \in Client |-> 0] /\ open = {}
  /\ wire = [r \in Receiver |-> <<>>] /\ recv = [r \in Receiver |-> Quiet]
  /\ watch = [w \in Watcher |-> Quiet] /\ seen = [w \in Watcher |-> Nothing]
  /\ missed = {} /\ claimed = [n \in Node |-> Nothing]
  /\ mark = [w \in Watcher |-> Nothing] /\ settling = {}
  /\ hist = [n \in Node |-> EmptyHistory] /\ shown = [n \in Node |-> Nothing]
  /\ acts = 0 /\ latest = [item |-> Nothing, at |-> Server] /\ informed = {}
  /\ news = [w \in Watcher |-> Nothing]

UserStep(n) == Copy(n) \/ Restore(n) \/ ShowHistory(n) \/ ClearHistory(n)

WatcherStep(w) ==
  Look(w) \/ LookFails(w) \/ Decide(w) \/ WatcherSends(w) \/ WatcherTells(w) \/ WindowCloses(w)

ReceiverStep(r) ==
  Apply(r) \/ ApplyFails(r) \/ Note(r) \/ ReceiverTells(r) \/ PassOn(r)

Next ==
  \/ \E n \in Node : UserStep(n)
  \/ \E c \in Client : Connect(c)
  \/ \E s \in Session : Break(s)
  \/ \E w \in Watcher : WatcherStep(w)
  \/ HubSent
  \/ \E r \in Receiver : ReceiverStep(r)

Spec == Init /\ [][Next]_vars

-----------------------------------------------------------------------------
(* Properties. *)

Stage == {"idle", "read", "sending", "telling", "written", "passing"}
Doing == [pc : Stage, data : Payload \cup {Nothing}, to : SUBSET Session]
Entry == [id : Nat, data : Payload]

\* Everything has its type, a client has at most the newest of its sessions
\* connected, and nothing is under way on the others.
TypeOK ==
  /\ os \in [Node -> Payload \cup {Nothing}]
  /\ session \in [Client -> Nat]
  /\ open \subseteq {s \in Session : s[2] = session[s[1]]}
  /\ wire \in [Receiver -> Seq(Payload)]
  /\ \A r \in Receiver : wire[r] # <<>> => r[1] \in open
  /\ recv \in [Receiver -> Doing] /\ watch \in [Watcher -> Doing]
  /\ seen \in [Watcher -> Payload \cup {Nothing}]
  /\ mark \in [Watcher -> Payload \cup {Nothing}]
  /\ claimed \in [Node -> Payload \cup {Nothing}]
  /\ settling \subseteq Watcher /\ missed \subseteq Watcher
  /\ hist \in [Node -> [items : Seq(Entry), nextID : Nat]]
  /\ shown \in [Node -> Entry \cup {Nothing}]
  /\ acts \in 0 .. MaxActs /\ informed \subseteq Node

\* Once all is settled, every machine that was connected when something was
\* copied holds it: whatever echoes, failed writes, lost sessions and sessions
\* that began with a clipboard of their own lie in between.
Agreement ==
  Settled => \A n \in informed : Holds(os[n], latest)

\* A machine never sends as new what it applied or sent last and its user did
\* not touch since: not even a picture that its clipboard re-encoded.
SendsOnlyNews ==
  [][\A w \in Watcher :
       w = End(Host(w)) /\ watch[w].pc = "read" /\ watch'[w].pc \in {"sending", "telling"}
         => watch[w].data.item # news[w]]_vars

\* Once all is settled, the newest entry of a panel is what the clipboard holds.
HistoryCurrent ==
  Settled => \A n \in Gui \cap informed :
    LET items == hist[n].items
    IN  items # <<>> => Holds(os[n], [item |-> items[Len(items)].data.item])

\* Histories are well kept, whoever adds to them.
HistoriesKept == \A n \in Node : WellKept(hist[n])

\* An id on a panel that was drawn long ago restores what the panel shows or
\* nothing, whatever was added, evicted or cleared in the meantime.
StaleIdsSafe ==
  \A n \in Node : shown[n] # Nothing =>
    /\ shown[n].id <= hist[n].nextID
    /\ \A e \in Get(hist[n], shown[n].id) : e = shown[n]

\* Who is at work has a payload to work on.
HandsFull ==
  /\ \A w \in Watcher : watch[w].pc # "idle" => watch[w].data \in Payload
  /\ \A r \in Receiver : recv[r].pc # "idle" => recv[r].data \in Payload

\* The inductive invariant behind HistoriesKept and StaleIdsSafe.
ClipInv == TypeOK /\ HandsFull /\ HistoriesKept /\ StaleIdsSafe
=============================================================================
