------------------------ MODULE ClipboardSyncProofs ------------------------
(***************************************************************************)
(* For any machines, payloads and capacity, whatever fails and whoever     *)
(* acts when: histories stay well kept, and an id on a panel that was      *)
(* drawn long ago never restores anything but what the panel shows.  If    *)
(* users are patient and no watcher looks between a write and its note,    *)
(* what one user copied spreads in a wave that no machine sends back, and  *)
(* in the end all it was promised to hold it and their panels show it.     *)
(***************************************************************************)
EXTENDS ClipboardSync, TLAPS

History == [items : Seq(Entry), nextID : Nat]

\* The oldest entry goes, the others keep their order.
LEMMA EvictedWell ==
  ASSUME NEW items \in Seq(Entry), Len(items) <= Capacity + 1
  PROVE  /\ Evicted(items) \in Seq(Entry)
         /\ Len(Evicted(items)) <= Capacity
         /\ \E d \in {0, 1} :
              /\ Len(Evicted(items)) = Len(items) - d
              /\ \A i \in 1 .. Len(Evicted(items)) : Evicted(items)[i] = items[i + d]
<1>1. Capacity \in Nat /\ Capacity > 0
  BY CapacityAssumption
<1>2. Len(items) \in Nat
  OBVIOUS
<1>3. CASE Len(items) > Capacity
  <2>1. Evicted(items) = Tail(items) /\ items # <<>>
    BY <1>1, <1>2, <1>3 DEF Evicted
  <2>2. /\ Tail(items) \in Seq(Entry) /\ Len(Tail(items)) = Len(items) - 1
        /\ \A i \in 1 .. Len(Tail(items)) : Tail(items)[i] = items[i + 1]
    BY <2>1
  <2> QED
    BY <1>1, <1>2, <1>3, <2>1, <2>2
<1>4. CASE ~(Len(items) > Capacity)
  BY <1>1, <1>2, <1>4 DEF Evicted
<1> QED
  BY <1>3, <1>4

\* Add keeps a history well, and gives no id a second time.
LEMMA AddWell ==
  ASSUME NEW h \in History, WellKept(h), NEW data \in Payload
  PROVE  /\ Add(h, data) \in History
         /\ WellKept(Add(h, data))
         /\ Add(h, data).nextID >= h.nextID
         /\ \A i \in DOMAIN Add(h, data).items :
              \/ \E j \in DOMAIN h.items : Add(h, data).items[i] = h.items[j]
              \/ Add(h, data).items[i].id > h.nextID
<1>1. CASE Repeats(h, data)
  BY <1>1 DEF Add, History
<1>2. CASE ~Repeats(h, data)
  <2> DEFINE new == [id |-> h.nextID + 1, data |-> data]
             longer == Append(h.items, new)
  <2>1. /\ h.items \in Seq(Entry) /\ h.nextID \in Nat /\ new \in Entry
        /\ Len(h.items) \in Nat /\ Len(h.items) <= Capacity /\ Capacity \in Nat
    BY CapacityAssumption DEF History, Entry, WellKept
  <2>2. /\ longer \in Seq(Entry) /\ Len(longer) = Len(h.items) + 1
        /\ \A i \in 1 .. Len(h.items) : longer[i] = h.items[i]
        /\ longer[Len(h.items) + 1] = new
    BY <2>1
  <2>3. Add(h, data) = [items |-> Evicted(longer), nextID |-> h.nextID + 1]
    BY <1>2 DEF Add
  <2> HIDE DEF longer
  <2>4. /\ Evicted(longer) \in Seq(Entry)
        /\ Len(Evicted(longer)) <= Capacity
        /\ \E d \in {0, 1} :
             /\ Len(Evicted(longer)) = Len(longer) - d
             /\ \A i \in 1 .. Len(Evicted(longer)) : Evicted(longer)[i] = longer[i + d]
    BY <2>1, <2>2, EvictedWell
  <2>5. PICK d \in {0, 1} :
          /\ Len(Evicted(longer)) = Len(longer) - d
          /\ \A i \in 1 .. Len(Evicted(longer)) : Evicted(longer)[i] = longer[i + d]
    BY <2>4
  <2> DEFINE e == Evicted(longer)
             n == Len(h.items)
  <2> HIDE DEF e, new
  <2>6. /\ e \in Seq(Entry) /\ Len(e) \in Nat /\ DOMAIN e = 1 .. Len(e)
        /\ Len(e) + d = n + 1
        /\ \A i \in 1 .. Len(e) : e[i] = longer[i + d] /\ i + d \in 1 .. (n + 1)
    BY <2>1, <2>2, <2>4, <2>5 DEF e, n
  <2>7. /\ n \in Nat /\ h.nextID \in Nat /\ DOMAIN h.items = 1 .. n
        /\ \A i \in 1 .. n : longer[i] = h.items[i] /\ longer[i].id \in 1 .. h.nextID
        /\ \A i, j \in 1 .. n : i < j => longer[i].id < longer[j].id
        /\ \A i \in 1 .. n : i > 1 => longer[i].data # longer[i - 1].data
        /\ longer[n + 1] = new
        /\ n > 0 => longer[n].data # data
    <3>1. n \in Nat /\ h.nextID \in Nat /\ DOMAIN h.items = 1 .. n /\ longer[n + 1] = new
      BY <2>1, <2>2
    <3>2. \A i \in 1 .. n : longer[i] = h.items[i] /\ longer[i].id \in 1 .. h.nextID
      BY <2>2, <3>1 DEF WellKept
    <3>3. \A i, j \in 1 .. n : i < j => longer[i].id < longer[j].id
      BY <3>1, <3>2 DEF WellKept
    <3>4. \A i \in 1 .. n : i > 1 => longer[i].data # longer[i - 1].data
      <4>1. \A i \in 1 .. n : i > 1 => h.items[i].data # h.items[i - 1].data
        BY <3>1 DEF WellKept
      <4> HIDE DEF n
      <4>2. \A i \in 1 .. n : i > 1 => i - 1 \in 1 .. n
        BY <3>1
      <4> QED
        BY <3>2, <4>1, <4>2
    <3>5. n > 0 => longer[n].data # data
      <4>1. n > 0 => n \in 1 .. n /\ h.items # <<>>
        BY <2>1
      <4> QED
        BY <1>2, <3>2, <4>1 DEF Repeats
    <3> QED
      BY <3>1, <3>2, <3>3, <3>4, <3>5
  <2>8. new.id = h.nextID + 1 /\ new.data = data
    BY DEF new
  <2>9. Add(h, data).items = e /\ Add(h, data).nextID = h.nextID + 1
    BY <2>3 DEF e
  <2> HIDE DEF n
  <2>10. \A i \in 1 .. (n + 1) : longer[i].id \in 1 .. (h.nextID + 1)
    <3>1. \A i \in 1 .. (n + 1) : i \in 1 .. n \/ i = n + 1
      BY <2>7
    <3> QED
      BY <2>7, <2>8, <3>1
  <2>11. \A i, j \in 1 .. (n + 1) : i < j => longer[i].id < longer[j].id
    <3> SUFFICES ASSUME NEW i \in 1 .. (n + 1), NEW j \in 1 .. (n + 1), i < j
                 PROVE  longer[i].id < longer[j].id
      OBVIOUS
    <3>1. i \in 1 .. n /\ (j \in 1 .. n \/ j = n + 1)
      BY <2>7
    <3>2. longer[i].id \in 1 .. h.nextID
      BY <2>7, <3>1
    <3>3. CASE j \in 1 .. n
      BY <2>7, <3>1, <3>3
    <3>4. CASE j = n + 1
      <4>1. longer[j].id = h.nextID + 1
        BY <2>7, <2>8, <3>4
      <4> QED
        BY <2>7, <3>2, <4>1
    <3> QED
      BY <3>1, <3>3, <3>4
  <2>12. \A i \in 1 .. (n + 1) : i > 1 => longer[i].data # longer[i - 1].data
    <3> SUFFICES ASSUME NEW i \in 1 .. (n + 1), i > 1
                 PROVE  longer[i].data # longer[i - 1].data
      OBVIOUS
    <3>1. n \in Nat
      BY <2>7
    <3>2. i \in 1 .. n \/ (i = n + 1 /\ i - 1 = n /\ n > 0)
      BY <3>1
    <3> QED
      BY <2>7, <2>8, <3>2
  <2>13. WellKept(Add(h, data))
    <3>1. \A i \in DOMAIN e : e[i].id \in 1 .. (h.nextID + 1)
      BY <2>6, <2>10
    <3>2. \A i, j \in DOMAIN e : i < j => e[i].id < e[j].id
      BY <2>6, <2>11
    <3>3. \A i \in DOMAIN e : i > 1 => e[i].data # e[i - 1].data
      BY <2>6, <2>12
    <3> QED
      BY <2>4, <2>9, <3>1, <3>2, <3>3 DEF WellKept, e
  <2>14. Add(h, data) \in History
    BY <2>1, <2>3, <2>4 DEF History
  <2>15. \A i \in DOMAIN e : (\E j \in DOMAIN h.items : e[i] = h.items[j]) \/ e[i].id > h.nextID
    <3>1. \A i \in 1 .. (n + 1) : (i \in DOMAIN h.items /\ longer[i] = h.items[i]) \/ longer[i].id > h.nextID
      <4>1. \A i \in 1 .. (n + 1) : i \in 1 .. n \/ i = n + 1
        BY <2>7
      <4> QED
        BY <2>7, <2>8, <4>1
    <3> QED
      BY <2>6, <3>1
  <2> QED
    BY <2>1, <2>9, <2>13, <2>14, <2>15
<1> QED
  BY <1>1, <1>2

\* In a well kept history an id names one entry.
LEMMA IdsUnique ==
  ASSUME NEW h \in History, WellKept(h), NEW i \in DOMAIN h.items, NEW j \in DOMAIN h.items,
         h.items[i].id = h.items[j].id
  PROVE  i = j
<1>1. DOMAIN h.items = 1 .. Len(h.items) /\ Len(h.items) \in Nat /\ h.items \in Seq(Entry)
  BY DEF History
<1>2. i \in Nat /\ j \in Nat /\ h.items[i].id \in Nat /\ h.items[j].id \in Nat
  <2>1. h.items[i] \in Entry /\ h.items[j] \in Entry
    BY <1>1
  <2> QED
    BY <1>1, <2>1 DEF Entry
<1>3. \A k, m \in DOMAIN h.items : k < m => h.items[k].id < h.items[m].id
  BY DEF WellKept
<1>4. ~(i < j) /\ ~(j < i)
  BY <1>2, <1>3
<1> QED
  BY <1>2, <1>4

\* Machines, sessions, watchers and receivers.
LEMMA Places ==
  /\ \A s \in Session : s[1] \in Client /\ s[2] \in Nat /\ s = <<s[1], s[2]>>
  /\ \A w \in Watcher : Host(w) \in Node
  /\ \A r \in Receiver : r[1] \in Session /\ EndOf(r) \in Watcher /\ PlaceOf(r) \in Node
  /\ \A s \in Session : Up(s) \in Receiver /\ Down(s) \in Receiver /\ s \in Watcher
  /\ Hub \in Watcher /\ Host(Hub) = Server
<1>1. \A s \in Session : s[1] \in Client /\ s[2] \in Nat /\ s = <<s[1], s[2]>>
  <2>1. SUFFICES ASSUME NEW c \in Client, NEW s \in {c} \X (1 .. MaxSession[c])
                 PROVE  s[1] \in Client /\ s[2] \in Nat /\ s = <<s[1], s[2]>>
    BY DEF Session
  <2>2. MaxSession[c] \in Nat
    BY ClipboardAssumption
  <2> QED
    BY <2>2
<1>2. Hub \in Watcher /\ Host(Hub) = Server
  BY DEF Hub, Watcher, Host
<1>3. \A w \in Watcher : Host(w) \in Node
  BY <1>1, <1>2 DEF Watcher, Host, Node
<1>4. \A r \in Receiver : r[1] \in Session /\ EndOf(r) \in Watcher
  BY <1>2 DEF Receiver, EndOf, Watcher
<1>5. \A r \in Receiver : PlaceOf(r) \in Node
  BY <1>3, <1>4 DEF PlaceOf
<1>6. \A s \in Session : Up(s) \in Receiver /\ Down(s) \in Receiver /\ s \in Watcher
  BY DEF Receiver, Up, Down, Watcher
<1> QED
  BY <1>1, <1>2, <1>3, <1>4, <1>5, <1>6

\* Reading a clipboard gives a payload or nothing.
LEMMA ReadBackPayload ==
  ASSUME NEW n \in Node, NEW p \in Payload \cup {Nothing}
  PROVE  ReadBack(n, p) \in Payload \cup {Nothing}
BY DEF ReadBack, Payload

-----------------------------------------------------------------------------
(* The parts of the invariant that steps share. *)

\* Panels stay as they are.
LEMMA PanelsKept ==
  ASSUME ClipInv, UNCHANGED panelVars
  PROVE  /\ hist' \in [Node -> [items : Seq(Entry), nextID : Nat]]
         /\ shown' \in [Node -> Entry \cup {Nothing}]
         /\ HistoriesKept' /\ StaleIdsSafe'
BY DEF ClipInv, TypeOK, panelVars, HistoriesKept, StaleIdsSafe, Get

\* A payload is recorded.
LEMMA RecordedKept ==
  ASSUME ClipInv, NEW n \in Node, NEW data \in Payload, Recorded(n, data), UNCHANGED shown
  PROVE  /\ hist' \in [Node -> [items : Seq(Entry), nextID : Nat]]
         /\ shown' \in [Node -> Entry \cup {Nothing}]
         /\ HistoriesKept' /\ StaleIdsSafe'
<1> DEFINE h == hist[n]
<1>1. /\ hist \in [Node -> History] /\ shown \in [Node -> Entry \cup {Nothing}]
      /\ \A m \in Node : WellKept(hist[m])
  BY DEF ClipInv, TypeOK, HistoriesKept, History
<1>2. hist' = [hist EXCEPT ![n] = Add(h, data)]
  BY DEF Recorded
<1>3. h \in History /\ WellKept(h)
  BY <1>1
<1> HIDE DEF h
<1>4. /\ Add(h, data) \in History /\ WellKept(Add(h, data))
      /\ Add(h, data).nextID >= h.nextID
      /\ \A i \in DOMAIN Add(h, data).items :
           \/ \E j \in DOMAIN h.items : Add(h, data).items[i] = h.items[j]
           \/ Add(h, data).items[i].id > h.nextID
  BY <1>3, AddWell
<1>5. /\ hist' \in [Node -> History] /\ hist'[n] = Add(h, data)
      /\ \A m \in Node \ {n} : hist'[m] = hist[m]
  BY <1>1, <1>2, <1>4
<1>6. HistoriesKept'
  BY <1>1, <1>4, <1>5 DEF HistoriesKept
<1>7. StaleIdsSafe'
  <2> SUFFICES ASSUME NEW m \in Node, shown[m] # Nothing
               PROVE  /\ shown[m].id <= hist'[m].nextID
                      /\ \A e \in Get(hist'[m], shown[m].id) : e = shown[m]
    BY DEF StaleIdsSafe
  <2>1. /\ shown[m] \in Entry /\ shown[m].id \in Nat /\ shown[m].id <= hist[m].nextID
        /\ \A e \in Get(hist[m], shown[m].id) : e = shown[m]
    BY <1>1 DEF ClipInv, StaleIdsSafe, Entry
  <2>2. CASE m # n
    BY <1>5, <2>1, <2>2
  <2>3. CASE m = n
    <3>1. shown[m].id <= h.nextID /\ h.nextID \in Nat /\ Add(h, data).nextID \in Nat
      BY <1>3, <1>4, <2>1, <2>3 DEF h, History
    <3>2. shown[m].id <= hist'[m].nextID
      BY <1>4, <1>5, <2>1, <2>3, <3>1
    <3>3. ASSUME NEW i \in DOMAIN Add(h, data).items, Add(h, data).items[i].id = shown[m].id
          PROVE  Add(h, data).items[i] = shown[m]
      <4>1. ~(Add(h, data).items[i].id > h.nextID)
        BY <2>1, <3>1, <3>3
      <4>2. PICK j \in DOMAIN h.items : Add(h, data).items[i] = h.items[j]
        BY <1>4, <4>1
      <4>3. h.items[j] \in Get(hist[m], shown[m].id)
        BY <2>3, <3>3, <4>2 DEF Get, h
      <4> QED
        BY <2>1, <4>2, <4>3
    <3>4. \A e \in Get(hist'[m], shown[m].id) : e = shown[m]
      BY <1>5, <2>3, <3>3 DEF Get
    <3> QED
      BY <3>2, <3>4
  <2> QED
    BY <2>2, <2>3
<1> QED
  BY <1>1, <1>5, <1>6, <1>7 DEF History

\* A payload is sent on a connection, or lost with it.
LEMMA SentKept ==
  ASSUME ClipInv, NEW r \in Receiver, NEW data \in Payload, Sent(r, data)
  PROVE  /\ wire' \in [Receiver -> Seq(Payload)]
         /\ \A q \in Receiver : wire'[q] # <<>> => q[1] \in open
BY DEF ClipInv, TypeOK, Sent

\* One is taken off it.
LEMMA TakenKept ==
  ASSUME ClipInv, NEW r \in Receiver, Taken(r)
  PROVE  /\ wire' \in [Receiver -> Seq(Payload)] /\ Head(wire[r]) \in Payload
         /\ \A q \in Receiver : wire'[q] # <<>> => q[1] \in open
<1>1. wire \in [Receiver -> Seq(Payload)] /\ wire[r] \in Seq(Payload) /\ wire[r] # <<>>
  BY DEF ClipInv, TypeOK, Taken
<1>2. Tail(wire[r]) \in Seq(Payload) /\ Head(wire[r]) \in Payload
  BY <1>1
<1>3. /\ wire' \in [Receiver -> Seq(Payload)]
      /\ \A q \in Receiver : q # r => wire'[q] = wire[q]
  BY <1>1, <1>2 DEF Taken
<1> QED
  BY <1>1, <1>2, <1>3 DEF ClipInv, TypeOK

\* Where a receiver goes on after it recorded what it applied.
LEMMA PassingTyped ==
  ASSUME NEW data \in Payload, NEW to \in SUBSET Session
  PROVE  Passing(data, to) \in Doing /\ Quiet \in Doing /\ Quiet.pc = "idle"
         /\ (Passing(data, to).pc # "idle" => Passing(data, to).data \in Payload)
BY DEF Passing, Quiet, Doing, Stage

LEMMA OthersAreSessions ==
  ASSUME ClipInv, NEW r \in Receiver
  PROVE  Others(r) \subseteq Session
BY DEF ClipInv, TypeOK, Others

-----------------------------------------------------------------------------
(* One lemma per action. *)

\* The user of a machine puts a payload into its clipboard.
LEMMA PutKeeps ==
  ASSUME ClipInv, NEW n \in Node, NEW p \in Payload, Put(n, p)
  PROVE  ClipInv'
<1>1. UNCHANGED panelVars
  BY DEF Put
<1>2. informed' \subseteq Node
  BY DEF ClipInv, TypeOK, Put, Announced, Online
<1>3. acts' \in 0 .. MaxActs
  BY ClipboardAssumption DEF ClipInv, TypeOK, Put
<1>4. /\ os' \in [Node -> Payload \cup {Nothing}] /\ missed' \subseteq Watcher
  BY DEF ClipInv, TypeOK, Put, Written
<1>5. UNCHANGED <<netVars, recv, watch, seen, claimed, endVars>>
  BY DEF Put
<1>6. TypeOK'
  BY <1>1, <1>2, <1>3, <1>4, <1>5, PanelsKept DEF ClipInv, TypeOK, netVars, endVars
<1>7. HandsFull'
  BY <1>5 DEF ClipInv, HandsFull
<1> QED
  BY <1>1, <1>6, <1>7, PanelsKept DEF ClipInv

\* Copying and restoring put payloads.
LEMMA CopyKeeps ==
  ASSUME ClipInv, NEW n \in Node, Copy(n)
  PROVE  ClipInv'
<1>1. PICK i \in Item : Put(n, [item |-> i, raw |-> TRUE])
  BY DEF Copy
<1> QED
  BY <1>1, PutKeeps DEF Payload

LEMMA RestoreKeeps ==
  ASSUME ClipInv, NEW n \in Node, Restore(n)
  PROVE  ClipInv'
<1>1. PICK e \in Get(hist[n], shown[n].id) : Put(n, e.data)
  BY DEF Restore
<1>2. hist[n].items \in Seq(Entry)
  BY DEF ClipInv, TypeOK
<1>3. PICK i \in DOMAIN hist[n].items : e = hist[n].items[i]
  BY <1>1 DEF Get
<1>4. e \in Entry
  BY <1>2, <1>3
<1>5. e.data \in Payload
  BY <1>4 DEF Entry
<1> QED
  BY <1>1, <1>5, PutKeeps

\* What a panel shows is in the history, so its id is one that was given.
LEMMA ShowKeeps ==
  ASSUME ClipInv, NEW n \in Node, ShowHistory(n)
  PROVE  ClipInv'
<1>1. PICK e \in Snapshot(hist[n]) : shown' = [shown EXCEPT ![n] = e]
  BY DEF ShowHistory
<1>2. hist[n] \in History /\ WellKept(hist[n]) /\ UNCHANGED hist
  BY DEF ClipInv, TypeOK, HistoriesKept, History, ShowHistory
<1>3. PICK i \in DOMAIN hist[n].items : e = hist[n].items[i]
  BY <1>1 DEF Snapshot
<1>4. e \in Entry /\ e.id <= hist[n].nextID
  <2>1. e \in Entry /\ hist[n].nextID \in Nat
    BY <1>2, <1>3 DEF History
  <2>2. e.id \in 1 .. hist[n].nextID
    BY <1>2, <1>3 DEF WellKept
  <2> QED
    BY <2>1, <2>2
<1>5. \A x \in Get(hist[n], e.id) : x = e
  <2>1. \A j \in DOMAIN hist[n].items : hist[n].items[j].id = e.id => j = i
    BY <1>2, <1>3, IdsUnique
  <2> QED
    BY <1>3, <2>1 DEF Get
<1>6. /\ shown' \in [Node -> Entry \cup {Nothing}] /\ shown'[n] = e
      /\ \A m \in Node \ {n} : shown'[m] = shown[m]
  BY <1>1, <1>4 DEF ClipInv, TypeOK
<1>7. StaleIdsSafe'
  BY <1>2, <1>4, <1>5, <1>6 DEF ClipInv, StaleIdsSafe
<1>8. UNCHANGED <<os, netVars, recv, watchVars, endVars, hist, ghostVars>>
  BY DEF ShowHistory
<1>9. TypeOK' /\ HandsFull' /\ HistoriesKept'
  BY <1>6, <1>8 DEF ClipInv, TypeOK, HandsFull, HistoriesKept, netVars, watchVars, lookVars,
                    endVars, ghostVars
<1> QED
  BY <1>7, <1>9 DEF ClipInv

\* Clear keeps counting, so that ids in view stay behind.
LEMMA ClearKeeps ==
  ASSUME ClipInv, NEW n \in Node, ClearHistory(n)
  PROVE  ClipInv'
<1>1. /\ hist' = [hist EXCEPT ![n] = Clear(hist[n])] /\ acts' = acts + 1 /\ acts < MaxActs
      /\ UNCHANGED <<os, netVars, recv, watchVars, endVars, shown, informed>>
  BY DEF ClearHistory
<1>2. hist \in [Node -> History] /\ Capacity \in Nat
  BY CapacityAssumption DEF ClipInv, TypeOK, History
<1>3. /\ Clear(hist[n]) \in History /\ WellKept(Clear(hist[n]))
      /\ Clear(hist[n]).nextID = hist[n].nextID
      /\ \A id : Get(Clear(hist[n]), id) = {}
  <2>1. /\ hist[n] \in History /\ Clear(hist[n]) \in History
        /\ Clear(hist[n]).items = <<>> /\ Clear(hist[n]).nextID = hist[n].nextID
    <3>1. <<>> \in Seq(Entry) /\ hist[n] \in History
      BY <1>2
    <3>2. hist[n] = [items |-> hist[n].items, nextID |-> hist[n].nextID]
      BY <3>1 DEF History
    <3>3. Clear(hist[n]) = [items |-> <<>>, nextID |-> hist[n].nextID]
      BY <3>2 DEF Clear
    <3> QED
      BY <3>1, <3>3 DEF History
  <2>2. WellKept(Clear(hist[n]))
    BY <1>2, <2>1 DEF WellKept
  <2>3. \A id : Get(Clear(hist[n]), id) = {}
    BY <2>1 DEF Get
  <2> QED
    BY <2>1, <2>2, <2>3
<1>4. /\ hist' \in [Node -> History] /\ hist'[n] = Clear(hist[n])
      /\ \A m \in Node \ {n} : hist'[m] = hist[m]
  BY <1>1, <1>2, <1>3
<1>5. HistoriesKept' /\ StaleIdsSafe'
  BY <1>1, <1>3, <1>4 DEF ClipInv, HistoriesKept, StaleIdsSafe
<1>6. acts' \in 0 .. MaxActs
  BY <1>1, ClipboardAssumption DEF ClipInv, TypeOK
<1>7. TypeOK' /\ HandsFull'
  BY <1>1, <1>4, <1>6 DEF ClipInv, TypeOK, HandsFull, History, netVars, watchVars, lookVars, endVars
<1> QED
  BY <1>5, <1>7 DEF ClipInv

\* The session before is over, so the new one is the only one of its client.
LEMMA ConnectKeeps ==
  ASSUME ClipInv, NEW c \in Client, Connect(c)
  PROVE  ClipInv'
<1> DEFINE s == <<c, session[c] + 1>>
<1>1. /\ session[c] \in Nat /\ session[c] < MaxSession[c] /\ <<c, session[c]>> \notin open
      /\ session' = [session EXCEPT ![c] = session[c] + 1] /\ open' = open \cup {s}
      /\ UNCHANGED <<os, wire, recv, watchVars, endVars, panelVars, acts>>
  BY DEF ClipInv, TypeOK, Connect
<1>2. s \in Session
  <2>1. MaxSession[c] \in Nat
    BY ClipboardAssumption
  <2>2. s \in {c} \X (1 .. MaxSession[c])
    BY <1>1, <2>1
  <2> QED
    BY <2>2 DEF Session
<1>3. /\ session \in [Client -> Nat] /\ session' \in [Client -> Nat]
      /\ session'[c] = session[c] + 1
      /\ \A d \in Client : d # c => session'[d] = session[d]
  BY <1>1 DEF ClipInv, TypeOK
<1>4. ASSUME NEW t \in open'
      PROVE  t \in Session /\ t[2] = session'[t[1]]
  <2>1. CASE t = s
    BY <1>2, <1>3, <2>1
  <2>2. CASE t \in open
    <3>1. t \in Session /\ t[2] = session[t[1]] /\ t[1] \in Client /\ t = <<t[1], t[2]>>
      BY <2>2, Places DEF ClipInv, TypeOK
    <3>2. t[1] # c
      BY <1>1, <2>2, <3>1
    <3> QED
      BY <1>3, <3>1, <3>2
  <2> QED
    BY <1>1, <1>4, <2>1, <2>2
<1>5. informed' \subseteq Node
  BY DEF ClipInv, TypeOK, Connect, Online, Node
<1>6. /\ hist' \in [Node -> [items : Seq(Entry), nextID : Nat]]
      /\ shown' \in [Node -> Entry \cup {Nothing}]
      /\ HistoriesKept' /\ StaleIdsSafe'
  BY <1>1, PanelsKept
<1>7. TypeOK'
  BY <1>1, <1>3, <1>4, <1>5, <1>6 DEF ClipInv, TypeOK, watchVars, lookVars, endVars
<1>8. HandsFull'
  BY <1>1 DEF ClipInv, HandsFull, watchVars
<1> QED
  BY <1>6, <1>7, <1>8 DEF ClipInv

\* All that is under way goes with the session.
LEMMA BreakKeeps ==
  ASSUME ClipInv, NEW s \in Session, Break(s)
  PROVE  ClipInv'
<1>1. /\ open' = open \ {s}
      /\ wire' = [wire EXCEPT ![Up(s)] = <<>>, ![Down(s)] = <<>>]
      /\ UNCHANGED <<os, session, recv, watchVars, endVars, panelVars, acts>>
  BY DEF Break
<1>2. informed' \subseteq Node
  BY DEF ClipInv, TypeOK, Break
<1>3. wire' \in [Receiver -> Seq(Payload)]
  <2>1. wire \in [Receiver -> Seq(Payload)] /\ <<>> \in Seq(Payload)
    BY DEF ClipInv, TypeOK
  <2> QED
    BY <1>1, <2>1
<1>4. ASSUME NEW q \in Receiver, wire'[q] # <<>>
      PROVE  q[1] \in open'
  <2>1. q[1] # s
    <3>1. q = Up(q[1]) \/ q = Down(q[1])
      BY DEF Receiver, Up, Down
    <3> QED
      BY <1>1, <1>4, <3>1, Places DEF ClipInv, TypeOK, Up, Down
  <2>2. q # Up(s) /\ q # Down(s)
    BY <2>1 DEF Up, Down
  <2> QED
    BY <1>1, <1>4, <2>1, <2>2 DEF ClipInv, TypeOK
<1>5. /\ hist' \in [Node -> [items : Seq(Entry), nextID : Nat]]
      /\ shown' \in [Node -> Entry \cup {Nothing}]
      /\ HistoriesKept' /\ StaleIdsSafe'
  BY <1>1, PanelsKept
<1>6. TypeOK'
  BY <1>1, <1>2, <1>3, <1>4, <1>5 DEF ClipInv, TypeOK, watchVars, lookVars, endVars
<1>7. HandsFull'
  BY <1>1 DEF ClipInv, HandsFull, watchVars
<1> QED
  BY <1>5, <1>6, <1>7 DEF ClipInv

\* What a watcher sees is a payload.
LEMMA LookKeeps ==
  ASSUME ClipInv, NEW w \in Watcher, Look(w)
  PROVE  ClipInv'
<1> DEFINE n == Host(w)
           q == ReadBack(n, os[n])
<1>1. n \in Node /\ os[n] \in Payload \cup {Nothing}
  BY Places DEF ClipInv, TypeOK
<1>2. q \in Payload
  <2>1. q # Nothing
    BY DEF Look, Fresh, NewsFor
  <2> QED
    BY <1>1, <2>1, ReadBackPayload
<1>3. /\ seen' = [seen EXCEPT ![w] = q]
      /\ claimed' = IF n \in Linux THEN [claimed EXCEPT ![n] = q] ELSE claimed
      /\ watch' = [watch EXCEPT ![w] = [pc |-> "read", data |-> q, to |-> {}]]
      /\ UNCHANGED <<os, netVars, recv, missed, endVars, panelVars, acts, informed>>
  BY DEF Look, ghostVars
<1> HIDE DEF q, n
<1>4. /\ seen' \in [Watcher -> Payload \cup {Nothing}]
      /\ claimed' \in [Node -> Payload \cup {Nothing}]
  BY <1>1, <1>2, <1>3 DEF ClipInv, TypeOK
<1>5. watch' \in [Watcher -> Doing] /\ HandsFull'
  BY <1>2, <1>3 DEF ClipInv, TypeOK, HandsFull, Doing, Stage
<1>6. TypeOK'
  BY <1>3, <1>4, <1>5, PanelsKept DEF ClipInv, TypeOK, netVars, endVars
<1> QED
  BY <1>3, <1>5, <1>6, PanelsKept DEF ClipInv

LEMMA LookFailsKeeps ==
  ASSUME ClipInv, NEW w \in Watcher, LookFails(w)
  PROVE  ClipInv'
<1>1. /\ missed' = missed \cup {w} /\ informed' = {}
      /\ UNCHANGED <<os, netVars, recv, watch, seen, claimed, endVars, panelVars, acts>>
  BY DEF LookFails
<1>2. TypeOK' /\ HandsFull'
  BY <1>1, PanelsKept DEF ClipInv, TypeOK, HandsFull, netVars, endVars
<1> QED
  BY <1>1, <1>2, PanelsKept DEF ClipInv

\* A watcher that keeps its payload goes on with it.
LEMMA DecideKeeps ==
  ASSUME ClipInv, NEW w \in Watcher, Decide(w)
  PROVE  ClipInv'
<1>1. UNCHANGED <<os, netVars, recv, lookVars, settling, panelVars, acts, informed>>
  BY DEF Decide
<1>2. watch[w] \in Doing /\ watch[w].data \in Payload /\ open \subseteq Session
  BY DEF ClipInv, TypeOK, HandsFull, Decide
<1>3. /\ watch' \in [Watcher -> Doing] /\ mark' \in [Watcher -> Payload \cup {Nothing}]
      /\ HandsFull'
  <2>1. CASE Suppressed(w) /\ watch' = [watch EXCEPT ![w] = Quiet] /\ UNCHANGED mark
    BY <1>1, <2>1 DEF ClipInv, TypeOK, HandsFull, Quiet, Doing, Stage
  <2>2. CASE /\ w = Hub /\ mark' = mark
             /\ watch' = [watch EXCEPT ![w].pc = "sending", ![w].to = open]
    BY <1>1, <1>2, <2>2 DEF ClipInv, TypeOK, HandsFull, Doing, Stage
  <2>3. CASE /\ w # Hub /\ mark' = [mark EXCEPT ![w] = watch[w].data]
             /\ watch' = [watch EXCEPT ![w].pc = Told(w, "sending"), ![w].to = {w}]
    <3>1. w \in Session
      BY <2>3 DEF Watcher
    <3>2. Told(w, "sending") \in Stage
      BY DEF Told, Stage
    <3> QED
      BY <1>1, <1>2, <2>3, <3>1, <3>2 DEF ClipInv, TypeOK, HandsFull, Doing
  <2> QED
    BY <2>1, <2>2, <2>3 DEF Decide
<1>4. TypeOK'
  BY <1>1, <1>3, PanelsKept DEF ClipInv, TypeOK, netVars, lookVars
<1> QED
  BY <1>1, <1>3, <1>4, PanelsKept DEF ClipInv

LEMMA WatcherSendsKeeps ==
  ASSUME ClipInv, NEW w \in Watcher, WatcherSends(w)
  PROVE  ClipInv'
<1>1. /\ watch[w].pc = "sending"
      /\ UNCHANGED <<os, session, open, recv, lookVars, endVars, panelVars, acts, informed>>
  BY DEF WatcherSends, ghostVars
<1>2. PICK s \in watch[w].to :
        /\ Sent(IF w = Hub THEN Down(s) ELSE Up(s), watch[w].data)
        /\ watch' = [watch EXCEPT ![w] =
                       IF w = Hub THEN [watch[w] EXCEPT !.to = watch[w].to \ {s}] ELSE Quiet]
  BY DEF WatcherSends
<1>3. watch[w] \in Doing /\ watch[w].data \in Payload /\ s \in Session
  <2>1. watch[w] \in Doing /\ watch[w].data \in Payload
    BY <1>1 DEF ClipInv, TypeOK, HandsFull
  <2> QED
    BY <1>2, <2>1 DEF Doing
<1>4. /\ wire' \in [Receiver -> Seq(Payload)]
      /\ \A q \in Receiver : wire'[q] # <<>> => q[1] \in open
  <2>1. (IF w = Hub THEN Down(s) ELSE Up(s)) \in Receiver
    BY <1>3, Places
  <2> QED
    BY <1>2, <1>3, <2>1, SentKept
<1>5. watch' \in [Watcher -> Doing] /\ HandsFull'
  <2>1. CASE w = Hub
    BY <1>1, <1>2, <1>3, <2>1 DEF ClipInv, TypeOK, HandsFull, Doing
  <2>2. CASE w # Hub
    BY <1>1, <1>2, <1>3, <2>2 DEF ClipInv, TypeOK, HandsFull, Quiet, Doing, Stage
  <2> QED
    BY <2>1, <2>2
<1>6. TypeOK'
  BY <1>1, <1>4, <1>5, PanelsKept DEF ClipInv, TypeOK, lookVars, endVars
<1> QED
  BY <1>1, <1>5, <1>6, PanelsKept DEF ClipInv

LEMMA HubSentKeeps ==
  ASSUME ClipInv, HubSent
  PROVE  ClipInv'
<1>1. /\ watch[Hub].pc = "sending"
      /\ mark' = [mark EXCEPT ![Hub] = watch[Hub].data]
      /\ watch' = [watch EXCEPT ![Hub] =
                     IF Server \in Gui THEN [watch[Hub] EXCEPT !.pc = "telling"] ELSE Quiet]
      /\ UNCHANGED <<os, netVars, recv, lookVars, settling, panelVars, acts, informed>>
  BY DEF HubSent, ghostVars
<1>2. Hub \in Watcher /\ watch[Hub] \in Doing /\ watch[Hub].data \in Payload
  BY <1>1, Places DEF ClipInv, TypeOK, HandsFull
<1>3. /\ watch' \in [Watcher -> Doing] /\ mark' \in [Watcher -> Payload \cup {Nothing}]
      /\ HandsFull'
  BY <1>1, <1>2 DEF ClipInv, TypeOK, HandsFull, Quiet, Doing, Stage
<1>4. TypeOK'
  BY <1>1, <1>3, PanelsKept DEF ClipInv, TypeOK, netVars, lookVars
<1> QED
  BY <1>1, <1>3, <1>4, PanelsKept DEF ClipInv

LEMMA WatcherTellsKeeps ==
  ASSUME ClipInv, NEW w \in Watcher, WatcherTells(w)
  PROVE  ClipInv'
<1>1. /\ watch[w].pc = "telling" /\ Recorded(Host(w), watch[w].data)
      /\ watch' = [watch EXCEPT ![w] =
                     IF w = Hub THEN Quiet ELSE [watch[w] EXCEPT !.pc = "sending"]]
      /\ UNCHANGED <<os, netVars, recv, lookVars, endVars, shown, acts, informed>>
  BY DEF WatcherTells, ghostVars
<1>2. Host(w) \in Node /\ watch[w] \in Doing /\ watch[w].data \in Payload
  BY <1>1, Places DEF ClipInv, TypeOK, HandsFull
<1>3. watch' \in [Watcher -> Doing] /\ HandsFull'
  BY <1>1, <1>2 DEF ClipInv, TypeOK, HandsFull, Quiet, Doing, Stage
<1>4. /\ hist' \in [Node -> [items : Seq(Entry), nextID : Nat]]
      /\ shown' \in [Node -> Entry \cup {Nothing}]
      /\ HistoriesKept' /\ StaleIdsSafe'
  BY <1>1, <1>2, RecordedKept
<1>5. TypeOK'
  BY <1>1, <1>3, <1>4 DEF ClipInv, TypeOK, netVars, lookVars, endVars
<1> QED
  BY <1>3, <1>4, <1>5 DEF ClipInv

LEMMA WindowClosesKeeps ==
  ASSUME ClipInv, NEW w \in Watcher, WindowCloses(w)
  PROVE  ClipInv'
<1>1. /\ settling' = settling \ {w}
      /\ UNCHANGED <<os, netVars, recv, watchVars, mark, panelVars, acts, informed>>
  BY DEF WindowCloses, ghostVars
<1>2. TypeOK' /\ HandsFull'
  BY <1>1, PanelsKept DEF ClipInv, TypeOK, HandsFull, netVars, watchVars, lookVars
<1> QED
  BY <1>1, <1>2, PanelsKept DEF ClipInv

LEMMA ApplyKeeps ==
  ASSUME ClipInv, NEW r \in Receiver, Apply(r)
  PROVE  ClipInv'
<1>1. /\ Taken(r) /\ Written(PlaceOf(r), Head(wire[r]))
      /\ recv' = [recv EXCEPT ![r] = [pc |-> "written", data |-> Head(wire[r]), to |-> {}]]
      /\ UNCHANGED <<session, open, watch, seen, claimed, endVars, panelVars, acts, informed>>
  BY DEF Apply, ghostVars
<1>2. /\ wire' \in [Receiver -> Seq(Payload)] /\ Head(wire[r]) \in Payload
      /\ \A q \in Receiver : wire'[q] # <<>> => q[1] \in open
  BY <1>1, TakenKept
<1>3. os' \in [Node -> Payload \cup {Nothing}] /\ missed' \subseteq Watcher
  BY <1>1, <1>2, Places DEF ClipInv, TypeOK, Written
<1>4. recv' \in [Receiver -> Doing] /\ HandsFull'
  BY <1>1, <1>2 DEF ClipInv, TypeOK, HandsFull, Doing, Stage
<1>5. TypeOK'
  BY <1>1, <1>2, <1>3, <1>4, PanelsKept DEF ClipInv, TypeOK, endVars
<1> QED
  BY <1>1, <1>4, <1>5, PanelsKept DEF ClipInv

LEMMA ApplyFailsKeeps ==
  ASSUME ClipInv, NEW r \in Receiver, ApplyFails(r)
  PROVE  ClipInv'
<1>1. /\ Taken(r) /\ informed' = informed \ {PlaceOf(r)}
      /\ recv' = [recv EXCEPT ![r] = Passing(Head(wire[r]), Others(r))]
      /\ UNCHANGED <<session, open, watch, seen, claimed, endVars, panelVars, acts>>
  BY DEF ApplyFails
<1>2. /\ wire' \in [Receiver -> Seq(Payload)] /\ Head(wire[r]) \in Payload
      /\ \A q \in Receiver : wire'[q] # <<>> => q[1] \in open
  BY <1>1, TakenKept
<1>3. os' \in [Node -> Payload \cup {Nothing}] /\ missed' \subseteq Watcher
  <2>1. CASE UNCHANGED <<os, missed>>
    BY <2>1 DEF ClipInv, TypeOK
  <2>2. CASE Written(PlaceOf(r), Nothing)
    BY <2>2, Places DEF ClipInv, TypeOK, Written
  <2> QED
    BY <2>1, <2>2 DEF ApplyFails
<1>4. recv' \in [Receiver -> Doing] /\ HandsFull'
  <2>1. /\ Passing(Head(wire[r]), Others(r)) \in Doing
        /\ (Passing(Head(wire[r]), Others(r)).pc # "idle"
              => Passing(Head(wire[r]), Others(r)).data \in Payload)
    BY <1>2, OthersAreSessions, PassingTyped
  <2> QED
    BY <1>1, <2>1 DEF ClipInv, TypeOK, HandsFull
<1>5. TypeOK'
  BY <1>1, <1>2, <1>3, <1>4, PanelsKept DEF ClipInv, TypeOK, endVars
<1> QED
  BY <1>1, <1>4, <1>5, PanelsKept DEF ClipInv

LEMMA NoteKeeps ==
  ASSUME ClipInv, NEW r \in Receiver, Note(r)
  PROVE  ClipInv'
<1>1. /\ recv[r].pc = "written"
      /\ mark' = [mark EXCEPT ![EndOf(r)] = recv[r].data]
      /\ settling' = settling \cup {EndOf(r)}
      /\ recv' = [recv EXCEPT ![r] =
                    IF PlaceOf(r) \in Gui THEN [recv[r] EXCEPT !.pc = "telling"]
                                          ELSE Passing(recv[r].data, Others(r))]
      /\ UNCHANGED <<os, netVars, watchVars, panelVars, acts, informed>>
  BY DEF Note
<1>2. recv[r] \in Doing /\ recv[r].data \in Payload /\ EndOf(r) \in Watcher
  BY <1>1, Places DEF ClipInv, TypeOK, HandsFull
<1>3. /\ mark' \in [Watcher -> Payload \cup {Nothing}] /\ settling' \subseteq Watcher
  BY <1>1, <1>2 DEF ClipInv, TypeOK
<1>4. recv' \in [Receiver -> Doing] /\ HandsFull'
  <2>1. CASE PlaceOf(r) \in Gui
    BY <1>1, <1>2, <2>1 DEF ClipInv, TypeOK, HandsFull, Doing, Stage, watchVars
  <2>2. CASE PlaceOf(r) \notin Gui
    <3>1. /\ Passing(recv[r].data, Others(r)) \in Doing
          /\ (Passing(recv[r].data, Others(r)).pc # "idle"
                => Passing(recv[r].data, Others(r)).data \in Payload)
      BY <1>2, OthersAreSessions, PassingTyped
    <3> QED
      BY <1>1, <2>2, <3>1 DEF ClipInv, TypeOK, HandsFull, watchVars
  <2> QED
    BY <2>1, <2>2
<1>5. TypeOK'
  BY <1>1, <1>3, <1>4, PanelsKept DEF ClipInv, TypeOK, netVars, watchVars, lookVars
<1> QED
  BY <1>1, <1>4, <1>5, PanelsKept DEF ClipInv

LEMMA ReceiverTellsKeeps ==
  ASSUME ClipInv, NEW r \in Receiver, ReceiverTells(r)
  PROVE  ClipInv'
<1>1. /\ recv[r].pc = "telling" /\ Recorded(PlaceOf(r), recv[r].data)
      /\ recv' = [recv EXCEPT ![r] = Passing(recv[r].data, Others(r))]
      /\ UNCHANGED <<os, netVars, watchVars, endVars, shown, acts, informed>>
  BY DEF ReceiverTells, ghostVars
<1>2. recv[r].data \in Payload /\ PlaceOf(r) \in Node
  BY <1>1, Places DEF ClipInv, HandsFull
<1>3. /\ hist' \in [Node -> [items : Seq(Entry), nextID : Nat]]
      /\ shown' \in [Node -> Entry \cup {Nothing}]
      /\ HistoriesKept' /\ StaleIdsSafe'
  BY <1>1, <1>2, RecordedKept
<1>4. recv' \in [Receiver -> Doing] /\ HandsFull'
  <2>1. /\ Passing(recv[r].data, Others(r)) \in Doing
        /\ (Passing(recv[r].data, Others(r)).pc # "idle"
              => Passing(recv[r].data, Others(r)).data \in Payload)
    BY <1>2, OthersAreSessions, PassingTyped
  <2> QED
    BY <1>1, <2>1 DEF ClipInv, TypeOK, HandsFull, watchVars
<1>5. TypeOK'
  BY <1>1, <1>3, <1>4 DEF ClipInv, TypeOK, netVars, watchVars, lookVars, endVars
<1> QED
  BY <1>3, <1>4, <1>5 DEF ClipInv

LEMMA PassOnKeeps ==
  ASSUME ClipInv, NEW r \in Receiver, PassOn(r)
  PROVE  ClipInv'
<1>1. /\ recv[r].pc = "passing"
      /\ UNCHANGED <<os, session, open, watchVars, endVars, panelVars, acts, informed>>
  BY DEF PassOn, ghostVars
<1>2. PICK s \in recv[r].to :
        /\ Sent(Down(s), recv[r].data)
        /\ recv' = [recv EXCEPT ![r] = Passing(recv[r].data, recv[r].to \ {s})]
  BY DEF PassOn
<1>3. recv[r] \in Doing /\ recv[r].data \in Payload /\ s \in Session
  BY <1>1, <1>2 DEF ClipInv, TypeOK, HandsFull, Doing
<1>4. /\ wire' \in [Receiver -> Seq(Payload)]
      /\ \A q \in Receiver : wire'[q] # <<>> => q[1] \in open
  BY <1>2, <1>3, Places, SentKept
<1>5. recv' \in [Receiver -> Doing] /\ HandsFull'
  <2>1. recv[r].to \ {s} \subseteq Session
    BY <1>3 DEF Doing
  <2>2. /\ Passing(recv[r].data, recv[r].to \ {s}) \in Doing
        /\ (Passing(recv[r].data, recv[r].to \ {s}).pc # "idle"
              => Passing(recv[r].data, recv[r].to \ {s}).data \in Payload)
    BY <1>3, <2>1, PassingTyped
  <2> QED
    BY <1>1, <1>2, <2>2 DEF ClipInv, TypeOK, HandsFull, watchVars
<1>6. TypeOK'
  BY <1>1, <1>4, <1>5, PanelsKept DEF ClipInv, TypeOK, watchVars, lookVars, endVars
<1> QED
  BY <1>1, <1>5, <1>6, PanelsKept DEF ClipInv

-----------------------------------------------------------------------------
LEMMA InitKeeps ==
  ASSUME Init
  PROVE  ClipInv
<1>1. HandsFull
  BY DEF Init, HandsFull, Quiet
<1>2. HistoriesKept
  BY CapacityAssumption DEF Init, HistoriesKept, WellKept, EmptyHistory
<1>3. StaleIdsSafe
  BY DEF Init, StaleIdsSafe
<1>4. TypeOK
  <2>1. /\ <<>> \in Seq(Payload) /\ <<>> \in Seq(Entry) /\ 0 \in 0 .. MaxActs
        /\ Quiet \in Doing
    BY ClipboardAssumption DEF Quiet, Doing, Stage
  <2> QED
    BY <2>1, ClipboardAssumption DEF Init, TypeOK, EmptyHistory
<1> QED
  BY <1>1, <1>2, <1>3, <1>4 DEF ClipInv

\* The invariant is inductive.
THEOREM ClipInvariant == Spec => []ClipInv
<1>1. ClipInv /\ [Next]_vars => ClipInv'
  <2> SUFFICES ASSUME ClipInv, [Next]_vars
               PROVE  ClipInv'
    OBVIOUS
  <2>1. ASSUME NEW n \in Node, UserStep(n)
        PROVE  ClipInv'
    BY <2>1, CopyKeeps, RestoreKeeps, ShowKeeps, ClearKeeps DEF UserStep
  <2>2. ASSUME NEW w \in Watcher, WatcherStep(w)
        PROVE  ClipInv'
    BY <2>2, LookKeeps, LookFailsKeeps, DecideKeeps, WatcherSendsKeeps, WatcherTellsKeeps,
       WindowClosesKeeps DEF WatcherStep
  <2>3. ASSUME NEW r \in Receiver, ReceiverStep(r)
        PROVE  ClipInv'
    BY <2>3, ApplyKeeps, ApplyFailsKeeps, NoteKeeps, ReceiverTellsKeeps, PassOnKeeps
       DEF ReceiverStep
  <2>4. ASSUME UNCHANGED vars
        PROVE  ClipInv'
    <3>1. UNCHANGED <<os, netVars, recv, watchVars, endVars, panelVars, acts, informed>>
      BY <2>4 DEF vars, ghostVars
    <3>2. TypeOK' /\ HandsFull'
      BY <3>1, PanelsKept DEF ClipInv, TypeOK, HandsFull, netVars, watchVars, lookVars, endVars
    <3> QED
      BY <3>1, <3>2, PanelsKept DEF ClipInv
  <2> QED
    BY <2>1, <2>2, <2>3, <2>4, ConnectKeeps, BreakKeeps, HubSentKeeps DEF Next
<1> QED
  BY <1>1, InitKeeps, PTL DEF Spec

\* Histories are well kept, whoever adds to them: two receivers, a watcher and a
\* user's Clear.
THEOREM HistoriesStayKept == Spec => []HistoriesKept
<1>1. ClipInv => HistoriesKept
  BY DEF ClipInv
<1> QED
  BY <1>1, ClipInvariant, PTL

\* An id from a panel that was drawn long ago never restores another entry.
THEOREM NoStaleRestore == Spec => []StaleIdsSafe
<1>1. ClipInv => StaleIdsSafe
  BY DEF ClipInv
<1> QED
  BY <1>1, ClipInvariant, PTL

\* Every variable keeps its type: what is under way, noted and recorded is
\* always a payload that some machine had.
THEOREM ClipTyped == Spec => []TypeOK
<1>1. ClipInv => TypeOK
  BY DEF ClipInv
<1> QED
  BY <1>1, ClipInvariant, PTL

-----------------------------------------------------------------------------
(* Waves: what one user puts into a clipboard spreads before the next one   *)
(* acts, if users are patient and watchers do not look between a write and  *)
(* the note of it.                                                          *)

\* A client that never had a session has no watcher.
Begun(n) == n = Server \/ session[n] > 0

\* What is under way stays on its path: a receiver that is at work belongs to the
\* newest session, a handler passes nothing back, a client sends on its own
\* session only.  Of sessions to come nothing is known.
PathsKept ==
  /\ \A c \in Client : session[c] <= MaxSession[c]
  /\ \A s \in Session :
       /\ recv[Down(s)].pc # "idle" => s = End(Host(s))
       /\ s \notin recv[Up(s)].to /\ recv[Down(s)].to = {}
       /\ watch[s].to \subseteq {s}
       /\ s[2] > session[Host(s)] =>
            /\ watch[s].pc = "idle" /\ s \notin settling /\ s \notin missed
            /\ news[s] = Nothing /\ mark[s] = Nothing

\* Nothing is on its way to the origin o, and nobody else sends to the server.
OneWay(o) ==
  \A s \in Session :
    /\ s # End(o) => wire[Up(s)] = <<>> /\ recv[Up(s)].pc = "idle"
    /\ s = End(o) => wire[Down(s)] = <<>> /\ recv[Down(s)].pc = "idle"

\* Everybody else suppresses what its watcher finds.
Muted(n) ==
  LET w == End(n)
  IN  /\ watch[w].pc \in {"idle", "read"}
      /\ watch[w].pc = "read" => w \in settling
      /\ Fresh(w) => \/ w \in settling
                     \/ \E r \in Receiver : PlaceOf(r) = n /\ recv[r].pc = "written"

\* The origin sends what its user put there, once.
SendsOnce(o) ==
  LET w == End(o)
  IN  /\ w \notin settling
      /\ Fresh(w) => watch[w].pc = "idle" /\ os[o].item # news[w]
      /\ watch[w].pc = "read" => watch[w].data.item # news[w]

Wave(o) ==
  /\ OneWay(o)
  /\ \A n \in Node \ {o} : Begun(n) => Muted(n)
  /\ Begun(o) => SendsOnce(o)

\* All that happens until everything is settled again has one origin.
WaveInv == PathsKept /\ \E o \in Node : Wave(o)

\* Who is whose end.
LEMMA EndsApart ==
  ASSUME ClipInv, PathsKept
  PROVE  /\ \A s \in Session : s # Hub /\ Host(s) \in Client /\ Host(s) # Server
         /\ \A s \in Session : /\ EndOf(Up(s)) = Hub /\ PlaceOf(Up(s)) = Server
                               /\ EndOf(Down(s)) = s /\ PlaceOf(Down(s)) = Host(s)
                               /\ Up(s)[1] = s /\ Down(s)[1] = s
         /\ \A s, t \in Session : Up(s) # Down(t) /\ (Up(s) = Up(t) => s = t)
                                                  /\ (Down(s) = Down(t) => s = t)
         /\ \A r \in Receiver : \E s \in Session : r = Up(s) \/ r = Down(s)
         /\ \A w \in Watcher : w = Hub \/ w \in Session
         /\ \A n \in Node : Host(End(n)) = n /\ (Begun(n) => End(n) \in Watcher)
         /\ \A n \in Node : n # Server /\ Begun(n) => End(n) \in Session
         /\ \A s \in open : s \in Session /\ s = End(Host(s)) /\ Begun(Host(s))
         /\ \A s \in Session : s = End(Host(s)) => Begun(Host(s))
         /\ End(Server) = Hub /\ Begun(Server) /\ Server \in Node
<1>1. \A s \in Session : /\ s[1] \in Client /\ s[2] \in Nat /\ s = <<s[1], s[2]>>
                         /\ s[2] > 0
  <2>1. SUFFICES ASSUME NEW c \in Client, NEW s \in {c} \X (1 .. MaxSession[c])
                 PROVE  s[1] \in Client /\ s[2] \in Nat /\ s = <<s[1], s[2]>> /\ s[2] > 0
    BY DEF Session
  <2>2. MaxSession[c] \in Nat
    BY ClipboardAssumption
  <2> QED
    BY <2>2
<1>2. \A s \in Session : s # Hub /\ Host(s) \in Client /\ Host(s) # Server
  BY <1>1, ClipboardAssumption DEF Hub, Host
<1>3. \A s, t \in Session : Up(s) # Down(t) /\ (Up(s) = Up(t) => s = t)
                                            /\ (Down(s) = Down(t) => s = t)
  <2>1. "up" # "down"
    OBVIOUS
  <2> QED
    BY <2>1 DEF Up, Down
<1>4. \A s \in Session : /\ EndOf(Up(s)) = Hub /\ PlaceOf(Up(s)) = Server
                         /\ EndOf(Down(s)) = s /\ PlaceOf(Down(s)) = Host(s)
                         /\ Up(s)[1] = s /\ Down(s)[1] = s
  BY DEF EndOf, PlaceOf, Up, Down, Hub, Host
<1>5. \A r \in Receiver : \E s \in Session : r = Up(s) \/ r = Down(s)
  BY DEF Receiver, Up, Down
<1>6. \A w \in Watcher : w = Hub \/ w \in Session
  BY DEF Watcher
<1>7. End(Server) = Hub /\ Begun(Server) /\ Server \in Node
  BY DEF End, Begun, Node
<1>8. \A n \in Node : Host(End(n)) = n
  BY DEF End, Hub, Host
<1>9. ASSUME NEW n \in Node, n # Server, Begun(n) PROVE End(n) \in Session
  <2>1. n \in Client /\ session[n] \in Nat /\ session[n] > 0 /\ session[n] <= MaxSession[n]
    BY <1>9 DEF Node, Begun, PathsKept, ClipInv, TypeOK
  <2>2. End(n) \in {n} \X (1 .. MaxSession[n])
    BY <1>9, <2>1, ClipboardAssumption DEF End
  <2> QED
    BY <2>1, <2>2 DEF Session
<1>10. \A n \in Node : Begun(n) => End(n) \in Watcher
  BY <1>7, <1>9 DEF Watcher
<1>11. ASSUME NEW s \in Session, s[2] = session[s[1]] PROVE s = End(Host(s)) /\ Begun(Host(s))
  BY <1>1, <1>2, <1>11 DEF End, Host, Begun
<1>12. \A s \in open : s \in Session /\ s = End(Host(s)) /\ Begun(Host(s))
  BY <1>11 DEF ClipInv, TypeOK
<1>13. ASSUME NEW s \in Session, s = End(Host(s)) PROVE Begun(Host(s))
  <2>1. End(Host(s)) = <<Host(s), session[Host(s)]>>
    BY <1>2 DEF End
  <2>2. s[2] = session[s[1]]
    BY <1>13, <2>1 DEF Host
  <2> QED
    BY <1>11, <2>2
<1> QED
  BY <1>2, <1>3, <1>4, <1>5, <1>6, <1>7, <1>8, <1>9, <1>10, <1>12, <1>13

\* A watcher finds less when nobody writes.
LEMMA FreshOnlyLess ==
  ASSUME UNCHANGED <<session, os, seen, claimed>>, missed \subseteq missed', NEW w, Fresh(w)'
  PROVE  Fresh(w)
BY DEF Fresh, Running, NewsFor

\* After a look nobody finds more, and the watcher itself nothing.
LEMMA LookTakes ==
  ASSUME ClipInv, NEW v \in Watcher, Look(v)
  PROVE  ~Fresh(v)' /\ \A w \in Watcher : Fresh(w)' => Fresh(w)
<1> DEFINE q == ReadBack(Host(v), os[Host(v)])
<1>1. /\ seen' = [seen EXCEPT ![v] = q]
      /\ claimed' = IF Host(v) \in Linux THEN [claimed EXCEPT ![Host(v)] = q] ELSE claimed
      /\ UNCHANGED <<os, session, missed>>
  BY DEF Look, netVars
<1>2. \A w \in Watcher : seen'[w] = IF w = v THEN q ELSE seen[w]
  BY <1>1 DEF ClipInv, TypeOK
<1>3. \A n \in Node : claimed'[n] = IF n \in Linux /\ n = Host(v) THEN q ELSE claimed[n]
  BY <1>1 DEF ClipInv, TypeOK
<1>4. \A w \in Watcher : Fresh(w)' => Fresh(w) /\ w # v
  <2> SUFFICES ASSUME NEW w \in Watcher, Fresh(w)'
               PROVE  Fresh(w) /\ w # v
    OBVIOUS
  <2>1. Host(w) \in Node
    BY Places
  <2> DEFINE p == ReadBack(Host(w), os[Host(w)])
  <2>2. /\ p # Nothing /\ w \notin missed /\ Running(w)
        /\ p # (IF Host(w) \in Linux THEN claimed'[Host(w)] ELSE seen'[w])
    BY <1>1 DEF Fresh, NewsFor, Running, ReadBack
  <2>3. CASE Host(w) \in Linux
    <3>1. Host(w) # Host(v)
      BY <1>3, <2>1, <2>2, <2>3
    <3>2. claimed'[Host(w)] = claimed[Host(w)]
      BY <1>3, <2>1, <3>1
    <3> QED
      BY <2>2, <2>3, <3>1, <3>2 DEF Fresh, NewsFor
  <2>4. CASE Host(w) \notin Linux
    <3>1. w # v
      BY <1>2, <2>2, <2>4
    <3> QED
      BY <1>2, <2>2, <2>4, <3>1 DEF Fresh, NewsFor
  <2> QED
    BY <2>3, <2>4
<1> QED
  BY <1>4

\* Reading a clipboard may change the form of an item only.
LEMMA ReadBackItem ==
  ASSUME NEW n \in Node, NEW p \in Payload
  PROVE  ReadBack(n, p) \in Payload /\ ReadBack(n, p).item = p.item
BY DEF ReadBack, Payload

\* Steps of watchers that find no news leave Muted and SendsOnce to these facts.
LEMMA WatchersWave ==
  ASSUME ClipInv, PathsKept, NEW o \in Node, Wave(o),
         UNCHANGED <<session, os, news, settling, recv>>,
         \A w \in Watcher : Fresh(w)' => Fresh(w),
         NEW v \in Watcher, \A w \in Watcher : w # v => watch'[w] = watch[w],
         \A n \in Node \ {o} : v = End(n) => watch'[v].pc = "idle" \/ (watch'[v].pc = "read" /\ v \in settling),
         v = End(o) => ~Fresh(v)' /\ (watch'[v].pc = "read" => watch'[v].data.item # news[v])
  PROVE  /\ \A n \in Node \ {o} : Begun(n)' => Muted(n)'
         /\ Begun(o)' => SendsOnce(o)'
<1>1. \A n : End(n)' = End(n) /\ (Begun(n)' <=> Begun(n))
  BY DEF End, Begun
<1>2. ASSUME NEW n \in Node \ {o}, Begun(n) PROVE Muted(n)'
  <2>1. End(n) \in Watcher /\ Muted(n)
    BY <1>2, EndsApart DEF Wave
  <2>2. watch'[End(n)].pc \in {"idle", "read"} /\ (watch'[End(n)].pc = "read" => End(n) \in settling)
    BY <2>1 DEF Muted
  <2>3. Fresh(End(n))' => Fresh(End(n))
    BY <1>1, <2>1
  <2> QED
    BY <1>1, <2>1, <2>2, <2>3 DEF Muted
<1>3. ASSUME Begun(o) PROVE SendsOnce(o)'
  <2>1. End(o) \in Watcher /\ SendsOnce(o)
    BY <1>3, EndsApart DEF Wave
  <2> QED
    BY <1>1, <2>1 DEF SendsOnce
<1> QED
  BY <1>1, <1>2, <1>3

LEMMA LookWaves ==
  ASSUME ClipInv, PathsKept, Prompt, NEW o \in Node, Wave(o), NEW v \in Watcher, Look(v)
  PROVE  PathsKept' /\ Wave(o)'
<1>1. /\ watch[v].pc = "idle" /\ Fresh(v)
      /\ \A r \in Receiver : PlaceOf(r) = Host(v) => recv[r].pc # "written"
      /\ watch' = [watch EXCEPT ![v] = [pc |-> "read", data |-> ReadBack(Host(v), os[Host(v)]), to |-> {}]]
      /\ UNCHANGED <<os, session, wire, recv, missed, mark, settling, news>>
  BY DEF Look, netVars, endVars, ghostVars
<1>2. /\ \A w \in Watcher : w # v => watch'[w] = watch[w]
      /\ watch'[v] = [pc |-> "read", data |-> ReadBack(Host(v), os[Host(v)]), to |-> {}]
  BY <1>1 DEF ClipInv, TypeOK
<1>3. PathsKept'
  <2>1. \A s \in Session : watch'[s].to \subseteq {s}
    BY <1>2, Places DEF PathsKept
  <2>2. ASSUME NEW s \in Session, s[2] > session[Host(s)] PROVE s # v
    <3>1. Running(v) /\ s # Hub
      BY <1>1, EndsApart DEF Fresh
    <3>2. session[Host(s)] \in Nat /\ s[2] \in Nat
      BY Places, EndsApart DEF ClipInv, TypeOK
    <3> QED
      BY <2>2, <3>1, <3>2 DEF Running
  <2> QED
    BY <1>1, <1>2, <2>1, <2>2, Places DEF PathsKept, End
<1>4. OneWay(o)'
  BY <1>1 DEF Wave, OneWay, End
<1>5. ~Fresh(v)' /\ \A w \in Watcher : Fresh(w)' => Fresh(w)
  BY LookTakes
<1>6. ASSUME NEW n \in Node \ {o}, v = End(n) PROVE v \in settling
  <2>1. Host(v) = n /\ (n = Server \/ v \in Session)
    BY <1>6, EndsApart DEF Watcher, End, Hub
  <2>2. Begun(n)
    BY <1>6, <2>1, EndsApart
  <2> QED
    BY <1>1, <1>6, <2>1, <2>2 DEF Wave, Muted
<1>7. ASSUME v = End(o) PROVE watch'[v].data.item # news[v]
  <2>1. Host(v) = o /\ (o = Server \/ v \in Session)
    BY <1>7, EndsApart DEF Watcher, End, Hub
  <2>2. Begun(o)
    BY <1>7, <2>1, EndsApart
  <2>3. os[o].item # news[v]
    BY <1>1, <1>7, <2>2 DEF Wave, SendsOnce
  <2>4. os[o] \in Payload
    <3>1. os[o] # Nothing
      BY <1>1, <2>1 DEF Fresh, NewsFor, ReadBack
    <3> QED
      BY <3>1 DEF ClipInv, TypeOK
  <2> QED
    BY <1>2, <2>1, <2>3, <2>4, ReadBackItem
<1>8. /\ \A n \in Node \ {o} : Begun(n)' => Muted(n)'
      /\ Begun(o)' => SendsOnce(o)'
  BY <1>1, <1>2, <1>5, <1>6, <1>7, WatchersWave
<1> QED
  BY <1>3, <1>4, <1>8 DEF Wave

LEMMA LookFailsWaves ==
  ASSUME ClipInv, PathsKept, NEW o \in Node, Wave(o), NEW v \in Watcher, LookFails(v)
  PROVE  PathsKept' /\ Wave(o)'
<1>1. /\ missed' = missed \cup {v} /\ Fresh(v)
      /\ UNCHANGED <<os, session, wire, recv, watch, seen, claimed, mark, settling, news>>
  BY DEF LookFails, netVars, endVars
<1>2. \A w \in Watcher : Fresh(w)' => Fresh(w)
  BY <1>1, FreshOnlyLess
<1>3. PathsKept'
  <2>1. ASSUME NEW s \in Session, s[2] > session[Host(s)] PROVE s # v
    <3>1. Running(v) /\ s # Hub
      BY <1>1, EndsApart DEF Fresh
    <3>2. session[Host(s)] \in Nat /\ s[2] \in Nat
      BY Places, EndsApart DEF ClipInv, TypeOK
    <3> QED
      BY <2>1, <3>1, <3>2 DEF Running
  <2> QED
    BY <1>1, <2>1 DEF PathsKept, End
<1>4. OneWay(o)'
  BY <1>1 DEF Wave, OneWay, End
<1>5. \A n : End(n)' = End(n) /\ (Begun(n)' <=> Begun(n))
  BY <1>1 DEF End, Begun
<1>6. \A n \in Node \ {o} : Begun(n)' => Muted(n)'
  BY <1>1, <1>2, <1>5, EndsApart DEF Wave, Muted
<1>7. Begun(o)' => SendsOnce(o)'
  BY <1>1, <1>2, <1>5, EndsApart DEF Wave, SendsOnce
<1> QED
  BY <1>3, <1>4, <1>6, <1>7 DEF Wave

\* Watchers that have begun are ends of their machines or of sessions that are over.
LEMMA EndHasBegun ==
  ASSUME ClipInv, PathsKept, NEW n \in Node, End(n) \in Watcher
  PROVE  Begun(n)
BY EndsApart DEF Watcher, End, Hub

LEMMA DecideWaves ==
  ASSUME ClipInv, PathsKept, NEW o \in Node, Wave(o), NEW v \in Watcher, Decide(v)
  PROVE  PathsKept' /\ Wave(o)'
<1>1. /\ watch[v].pc = "read"
      /\ UNCHANGED <<os, session, wire, recv, seen, missed, claimed, settling>>
      /\ \A w \in Watcher : w # v => watch'[w] = watch[w] /\ news'[w] = news[w] /\ mark'[w] = mark[w]
      /\ watch'[v].pc \in {"idle", "sending", "telling"}
      /\ v # Hub => watch'[v].to \subseteq {v}
      /\ Suppressed(v) => watch'[v].pc = "idle"
  <2>1. watch[v] \in Doing /\ watch[v].pc = "read"
    BY DEF ClipInv, TypeOK, Decide
  <2>2. UNCHANGED <<os, session, wire, recv, seen, missed, claimed, settling>>
    BY DEF Decide, netVars, lookVars
  <2>3. CASE Suppressed(v) /\ watch' = [watch EXCEPT ![v] = Quiet] /\ UNCHANGED <<mark, news>>
    BY <2>1, <2>2, <2>3 DEF ClipInv, TypeOK, Quiet
  <2>4. CASE /\ ~Suppressed(v)
             /\ news' = [news EXCEPT ![v] = watch[v].data.item]
             /\ v = Hub /\ watch' = [watch EXCEPT ![v].pc = "sending", ![v].to = open] /\ mark' = mark
    BY <2>1, <2>2, <2>4 DEF ClipInv, TypeOK, Doing
  <2>5. CASE /\ ~Suppressed(v)
             /\ news' = [news EXCEPT ![v] = watch[v].data.item]
             /\ v # Hub /\ watch' = [watch EXCEPT ![v].pc = Told(v, "sending"), ![v].to = {v}]
             /\ mark' = [mark EXCEPT ![v] = watch[v].data]
    BY <2>1, <2>2, <2>5 DEF ClipInv, TypeOK, Doing, Told
  <2> QED
    BY <2>3, <2>4, <2>5 DEF Decide
<1>2. \A w \in Watcher : Fresh(w)' => Fresh(w)
  BY <1>1, FreshOnlyLess
<1>3. PathsKept'
  BY <1>1, EndsApart, Places DEF PathsKept, End
<1>4. OneWay(o)'
  BY <1>1 DEF Wave, OneWay, End
<1>5. \A n : End(n)' = End(n) /\ (Begun(n)' <=> Begun(n))
  BY <1>1 DEF End, Begun
<1>6. ASSUME NEW n \in Node \ {o}, Begun(n) PROVE Muted(n)'
  <2>1. End(n) \in Watcher /\ Muted(n)
    BY <1>6, EndsApart DEF Wave
  <2>2. CASE End(n) = v
    <3>1. watch'[v].pc = "idle"
      BY <1>1, <2>1, <2>2 DEF Muted, Suppressed
    <3> QED
      BY <1>1, <1>2, <1>5, <2>1, <2>2, <3>1 DEF Muted
  <2>3. CASE End(n) # v
    BY <1>1, <1>2, <1>5, <2>1, <2>3 DEF Muted
  <2> QED
    BY <2>2, <2>3
<1>7. ASSUME Begun(o) PROVE SendsOnce(o)'
  <2>1. End(o) \in Watcher /\ SendsOnce(o)
    BY <1>7, EndsApart DEF Wave
  <2>2. CASE End(o) = v
    <3>1. ~Fresh(v)
      BY <1>1, <2>1, <2>2 DEF SendsOnce
    <3>2. ~Fresh(v)'
      BY <1>2, <3>1
    <3> QED
      BY <1>1, <1>5, <2>1, <2>2, <3>2 DEF SendsOnce
  <2>3. CASE End(o) # v
    BY <1>1, <1>2, <1>5, <2>1, <2>3 DEF SendsOnce
  <2> QED
    BY <2>2, <2>3
<1> QED
  BY <1>3, <1>4, <1>5, <1>6, <1>7 DEF Wave

\* Who sends or tells is the origin, or an end of a session that is over.
LEMMA SenderIsOrigin ==
  ASSUME ClipInv, PathsKept, NEW o \in Node, Wave(o), NEW n \in Node, End(n) \in Watcher,
         watch[End(n)].pc \in {"sending", "telling"}
  PROVE  n = o /\ ~Fresh(End(n))
<1>1. Begun(n)
  BY EndHasBegun
<1>2. n = o
  BY <1>1 DEF Wave, Muted
<1> QED
  BY <1>1, <1>2 DEF Wave, SendsOnce

LEMMA WatcherSendsWaves ==
  ASSUME ClipInv, PathsKept, NEW o \in Node, Wave(o), NEW v \in Watcher, WatcherSends(v)
  PROVE  PathsKept' /\ Wave(o)'
<1>1. /\ watch[v].pc = "sending"
      /\ UNCHANGED <<os, session, open, recv, seen, missed, claimed, mark, settling, news>>
  BY DEF WatcherSends, ghostVars, lookVars, endVars
<1>2. PICK s \in watch[v].to :
        /\ Sent(IF v = Hub THEN Down(s) ELSE Up(s), watch[v].data)
        /\ watch' = [watch EXCEPT ![v] =
                       IF v = Hub THEN [watch[v] EXCEPT !.to = watch[v].to \ {s}] ELSE Quiet]
  BY DEF WatcherSends
<1>3. /\ \A w \in Watcher : w # v => watch'[w] = watch[w]
      /\ v = Hub => watch'[v].pc = "sending"
      /\ v # Hub => watch'[v] = Quiet
      /\ s \in Session
  BY <1>1, <1>2 DEF ClipInv, TypeOK, Doing
<1>4. \A w \in Watcher : Fresh(w)' => Fresh(w)
  BY <1>1, FreshOnlyLess
<1>5. PathsKept'
  BY <1>1, <1>3, EndsApart, Places DEF PathsKept, End, Quiet
<1>6. OneWay(o)'
  <2>1. CASE v = Hub
    <3>1. o = Server
      BY <1>1, <2>1, EndsApart, SenderIsOrigin
    <3>2. \A t \in Session : wire'[Up(t)] = wire[Up(t)]
      <4>1. \A t \in Session : Up(t) \in Receiver /\ Down(s) # Up(t)
        BY <1>3, EndsApart, Places
      <4> QED
        BY <1>2, <2>1, <4>1 DEF Sent, ClipInv, TypeOK
    <3> QED
      BY <1>1, <3>1, <3>2, EndsApart DEF Wave, OneWay, End
  <2>2. CASE v # Hub
    <3>1. v \in Session /\ s = v
      BY <1>2, <2>2, EndsApart DEF PathsKept
    <3>2. CASE v \notin open
      <4>1. wire' = wire
        BY <1>2, <2>2, <3>1, <3>2, EndsApart DEF Sent
      <4> QED
        BY <1>1, <4>1 DEF Wave, OneWay, End
    <3>3. CASE v \in open
      <4>1. v = End(Host(v)) /\ Host(v) \in Node
        BY <3>1, <3>3, EndsApart, Places
      <4>2. v = End(o)
        BY <1>1, <4>1, SenderIsOrigin
      <4>3. wire' = [wire EXCEPT ![Up(v)] = Append(wire[Up(v)], watch[v].data)]
        BY <1>2, <2>2, <3>1, <3>3, EndsApart DEF Sent
      <4>4. \A t \in Session : /\ wire'[Down(t)] = wire[Down(t)]
                               /\ t # v => wire'[Up(t)] = wire[Up(t)]
        <5>1. \A t \in Session : /\ Up(t) \in Receiver /\ Down(t) \in Receiver
                                 /\ Down(t) # Up(v) /\ (t # v => Up(t) # Up(v))
          BY <3>1, EndsApart, Places
        <5> QED
          BY <4>3, <5>1 DEF ClipInv, TypeOK
      <4> QED
        BY <1>1, <4>2, <4>4 DEF Wave, OneWay, End
    <3> QED
      BY <3>2, <3>3
  <2> QED
    BY <2>1, <2>2
<1>7. \A n \in Node \ {o} : v # End(n)
  BY <1>1, SenderIsOrigin
<1>8. v = End(o) => ~Fresh(v)' /\ watch'[v].pc # "read"
  BY <1>1, <1>3, <1>4, SenderIsOrigin DEF Quiet
<1>9. /\ \A n \in Node \ {o} : Begun(n)' => Muted(n)'
      /\ Begun(o)' => SendsOnce(o)'
  BY <1>1, <1>3, <1>4, <1>7, <1>8, WatchersWave
<1> QED
  BY <1>6, <1>5, <1>9 DEF Wave

LEMMA WatcherTellsWaves ==
  ASSUME ClipInv, PathsKept, NEW o \in Node, Wave(o), NEW v \in Watcher, WatcherTells(v)
  PROVE  PathsKept' /\ Wave(o)'
<1>1. /\ watch[v].pc = "telling"
      /\ watch' = [watch EXCEPT ![v] = IF v = Hub THEN Quiet ELSE [watch[v] EXCEPT !.pc = "sending"]]
      /\ UNCHANGED <<os, session, wire, recv, seen, missed, claimed, mark, settling, news>>
  BY DEF WatcherTells, ghostVars, netVars, lookVars, endVars
<1>2. /\ \A w \in Watcher : w # v => watch'[w] = watch[w]
      /\ watch'[v].pc \in {"idle", "sending"} /\ (v # Hub => watch'[v].to = watch[v].to)
  BY <1>1 DEF ClipInv, TypeOK, Doing, Quiet
<1>3. \A w \in Watcher : Fresh(w)' => Fresh(w)
  BY <1>1, FreshOnlyLess
<1>4. PathsKept'
  BY <1>1, <1>2, EndsApart, Places DEF PathsKept, End
<1>5. OneWay(o)'
  BY <1>1 DEF Wave, OneWay, End
<1>6. \A n \in Node \ {o} : v # End(n)
  BY <1>1, SenderIsOrigin
<1>7. v = End(o) => ~Fresh(v)' /\ watch'[v].pc # "read"
  BY <1>1, <1>2, <1>3, SenderIsOrigin
<1>8. /\ \A n \in Node \ {o} : Begun(n)' => Muted(n)'
      /\ Begun(o)' => SendsOnce(o)'
  BY <1>1, <1>2, <1>3, <1>6, <1>7, WatchersWave
<1> QED
  BY <1>4, <1>5, <1>8 DEF Wave

LEMMA HubSentWaves ==
  ASSUME ClipInv, PathsKept, NEW o \in Node, Wave(o), HubSent
  PROVE  PathsKept' /\ Wave(o)'
<1>1. /\ watch[Hub].pc = "sending" /\ mark' = [mark EXCEPT ![Hub] = watch[Hub].data]
      /\ watch' = [watch EXCEPT ![Hub] =
                     IF Server \in Gui THEN [watch[Hub] EXCEPT !.pc = "telling"] ELSE Quiet]
      /\ UNCHANGED <<os, session, wire, recv, seen, missed, claimed, settling, news>>
  BY DEF HubSent, ghostVars, netVars, lookVars
<1>2. /\ Hub \in Watcher /\ End(Server) = Hub /\ Server \in Node
      /\ \A w \in Watcher : w # Hub => watch'[w] = watch[w] /\ mark'[w] = mark[w]
      /\ watch'[Hub].pc \in {"idle", "telling"}
  <2>1. Hub \in Watcher /\ End(Server) = Hub /\ Server \in Node
    BY Places, EndsApart
  <2>2. watch \in [Watcher -> Doing] /\ mark \in [Watcher -> Payload \cup {Nothing}]
    BY DEF ClipInv, TypeOK
  <2>3. watch'[Hub].pc \in {"idle", "telling"}
    BY <1>1, <2>1, <2>2 DEF Doing, Quiet
  <2> QED
    BY <1>1, <2>1, <2>2, <2>3
<1>3. \A w \in Watcher : Fresh(w)' => Fresh(w)
  BY <1>1, FreshOnlyLess
<1>4. PathsKept'
  BY <1>1, <1>2, EndsApart, Places DEF PathsKept, End
<1>5. OneWay(o)'
  BY <1>1 DEF Wave, OneWay, End
<1>6. \A n \in Node \ {o} : Hub # End(n)
  BY <1>1, <1>2, SenderIsOrigin
<1>7. Hub = End(o) => ~Fresh(Hub)' /\ watch'[Hub].pc # "read"
  BY <1>1, <1>2, <1>3, SenderIsOrigin
<1>8. /\ \A n \in Node \ {o} : Begun(n)' => Muted(n)'
      /\ Begun(o)' => SendsOnce(o)'
  BY <1>1, <1>2, <1>3, <1>6, <1>7, WatchersWave
<1> QED
  BY <1>4, <1>5, <1>8 DEF Wave

LEMMA WindowClosesWaves ==
  ASSUME ClipInv, PathsKept, NEW o \in Node, Wave(o), NEW v \in Watcher, WindowCloses(v)
  PROVE  PathsKept' /\ Wave(o)'
<1>1. /\ settling' = settling \ {v} /\ watch[v].pc \in {"idle", "sending"}
      /\ watch[v].pc = "idle" => ~Fresh(v)
      /\ UNCHANGED <<os, session, wire, recv, watch, seen, missed, claimed, mark, news>>
  BY DEF WindowCloses, ghostVars, netVars, watchVars, lookVars
<1>2. \A w \in Watcher : Fresh(w)' => Fresh(w)
  BY <1>1, FreshOnlyLess
<1>3. PathsKept'
  BY <1>1 DEF PathsKept, End
<1>4. OneWay(o)'
  BY <1>1 DEF Wave, OneWay, End
<1>5. \A n : End(n)' = End(n) /\ (Begun(n)' <=> Begun(n))
  BY <1>1 DEF End, Begun
<1>6. ASSUME NEW n \in Node \ {o}, Begun(n) PROVE Muted(n)'
  <2>1. End(n) \in Watcher /\ Muted(n)
    BY <1>6, EndsApart DEF Wave
  <2>2. CASE End(n) = v
    BY <1>1, <1>2, <1>5, <2>1, <2>2 DEF Muted
  <2>3. CASE End(n) # v
    BY <1>1, <1>2, <1>5, <2>1, <2>3 DEF Muted
  <2> QED
    BY <2>2, <2>3
<1>7. Begun(o)' => SendsOnce(o)'
  BY <1>1, <1>2, <1>5, EndsApart DEF Wave, SendsOnce
<1> QED
  BY <1>3, <1>4, <1>5, <1>6, <1>7 DEF Wave

\* A receiver works for anybody but the origin.
LEMMA ReceiverElsewhere ==
  ASSUME ClipInv, PathsKept, NEW o \in Node, Wave(o), NEW r \in Receiver,
         recv[r].pc # "idle" \/ wire[r] # <<>>
  PROVE  /\ PlaceOf(r) \in Node \ {o} /\ EndOf(r) = End(PlaceOf(r)) /\ Begun(PlaceOf(r))
         /\ \/ \E s \in Session : r = Up(s) /\ s = End(o) /\ PlaceOf(r) = Server
            \/ \E s \in Session : r = Down(s) /\ s # End(o)
<1>1. PICK s \in Session : r = Up(s) \/ r = Down(s)
  BY EndsApart
<1>2. CASE r = Up(s)
  <2>1. s = End(o)
    BY <1>2 DEF Wave, OneWay
  <2>2. o # Server
    BY <2>1, EndsApart
  <2> QED
    BY <1>2, <2>1, <2>2, EndsApart
<1>3. CASE r = Down(s)
  <2>1. s # End(o)
    BY <1>3 DEF Wave, OneWay
  <2>2. s = End(Host(s))
    <3>1. CASE recv[r].pc # "idle"
      BY <1>3, <3>1 DEF PathsKept
    <3>2. CASE wire[r] # <<>>
      <4>1. r[1] = s /\ r[1] \in open
        BY <1>3, <3>2, EndsApart DEF ClipInv, TypeOK
      <4> QED
        BY <4>1, EndsApart
    <3> QED
      BY <3>1, <3>2
  <2>3. PlaceOf(r) = Host(s) /\ EndOf(r) = s /\ PlaceOf(r) \in Node /\ Begun(Host(s))
    BY <1>3, <2>2, EndsApart, Places
  <2>4. PlaceOf(r) # o
    BY <2>1, <2>2, <2>3
  <2> QED
    BY <1>3, <2>1, <2>2, <2>3, <2>4
<1> QED
  BY <1>1, <1>2, <1>3

\* Where a receiver writes, watchers find more only there, and it notes that next.
LEMMA ApplyWaves ==
  ASSUME ClipInv, PathsKept, NEW o \in Node, Wave(o), NEW r \in Receiver, Apply(r)
  PROVE  PathsKept' /\ Wave(o)'
<1> DEFINE m == PlaceOf(r)
<1>1. /\ recv[r].pc = "idle" /\ wire[r] # <<>>
      /\ os' = [os EXCEPT ![m] = Head(wire[r])]
      /\ missed' = {w \in missed : Host(w) # m}
      /\ wire' = [wire EXCEPT ![r] = Tail(wire[r])]
      /\ recv' = [recv EXCEPT ![r] = [pc |-> "written", data |-> Head(wire[r]), to |-> {}]]
      /\ UNCHANGED <<session, watch, seen, claimed, mark, settling, news>>
  BY DEF Apply, Taken, Written, ghostVars, endVars
<1>2. /\ m \in Node \ {o} /\ EndOf(r) = End(m) /\ Begun(m)
      /\ \/ \E s \in Session : r = Up(s) /\ s = End(o) /\ PlaceOf(r) = Server
         \/ \E s \in Session : r = Down(s) /\ s # End(o)
  BY <1>1, ReceiverElsewhere
<1>3. /\ \A q \in Receiver : q # r => recv'[q] = recv[q] /\ wire'[q] = wire[q]
      /\ recv'[r] = [pc |-> "written", data |-> Head(wire[r]), to |-> {}]
      /\ \A n \in Node : n # m => os'[n] = os[n]
  BY <1>1 DEF ClipInv, TypeOK
<1> HIDE DEF m
<1>4. \A w \in Watcher : Host(w) # m => (Fresh(w)' => Fresh(w))
  BY <1>1, <1>3, Places DEF Fresh, Running, NewsFor
<1>5. PathsKept'
  <2>1. ASSUME NEW s \in Session, r = Down(s) PROVE s = End(Host(s))
    BY <1>2, <2>1, EndsApart DEF m
  <2> QED
    BY <1>1, <1>3, <2>1, EndsApart, Places DEF PathsKept, End
<1>6. OneWay(o)'
  <2>1. \A s \in Session : Up(s) \in Receiver /\ Down(s) \in Receiver
    BY Places
  <2> QED
    BY <1>1, <1>2, <1>3, <2>1, EndsApart DEF Wave, OneWay, End
<1>7. \A n : End(n)' = End(n) /\ (Begun(n)' <=> Begun(n))
  BY <1>1 DEF End, Begun
<1>8. ASSUME NEW n \in Node \ {o}, Begun(n) PROVE Muted(n)'
  <2>1. End(n) \in Watcher /\ Muted(n) /\ Host(End(n)) = n
    BY <1>8, EndsApart DEF Wave
  <2>2. CASE n = m
    <3>1. PlaceOf(r) = n /\ recv'[r].pc = "written"
      BY <1>3, <2>2 DEF m
    <3>2. \E q \in Receiver : PlaceOf(q) = n /\ recv'[q].pc = "written"
      BY <3>1
    <3> QED
      BY <1>1, <1>7, <2>1, <3>2 DEF Muted
  <2>3. CASE n # m
    <3>1. Fresh(End(n))' => Fresh(End(n))
      BY <1>4, <1>7, <2>1, <2>3
    <3>2. \A q \in Receiver : recv[q].pc = "written" => recv'[q].pc = "written"
      BY <1>3
    <3> QED
      BY <1>1, <1>7, <2>1, <3>1, <3>2 DEF Muted
  <2> QED
    BY <2>2, <2>3
<1>9. ASSUME Begun(o) PROVE SendsOnce(o)'
  <2>1. End(o) \in Watcher /\ SendsOnce(o) /\ Host(End(o)) = o
    BY <1>9, EndsApart DEF Wave
  <2>2. Fresh(End(o))' => Fresh(End(o))
    BY <1>2, <1>4, <1>7, <2>1
  <2> QED
    BY <1>1, <1>2, <1>3, <1>7, <2>1, <2>2 DEF SendsOnce
<1> QED
  BY <1>5, <1>6, <1>7, <1>8, <1>9 DEF Wave

\* A write that fails leaves nothing to find.
LEMMA ApplyFailsWaves ==
  ASSUME ClipInv, PathsKept, NEW o \in Node, Wave(o), NEW r \in Receiver, ApplyFails(r)
  PROVE  PathsKept' /\ Wave(o)'
<1> DEFINE m == PlaceOf(r)
<1>1. /\ recv[r].pc = "idle" /\ wire[r] # <<>>
      /\ \/ UNCHANGED <<os, missed>>
         \/ os' = [os EXCEPT ![m] = Nothing] /\ missed' = {w \in missed : Host(w) # m}
      /\ wire' = [wire EXCEPT ![r] = Tail(wire[r])]
      /\ recv' = [recv EXCEPT ![r] = Passing(Head(wire[r]), Others(r))]
      /\ UNCHANGED <<session, watch, seen, claimed, mark, settling, news>>
  BY DEF ApplyFails, Taken, Written, endVars
<1>2. /\ m \in Node \ {o} /\ EndOf(r) = End(m) /\ Begun(m)
      /\ \/ \E s \in Session : r = Up(s) /\ s = End(o) /\ PlaceOf(r) = Server
         \/ \E s \in Session : r = Down(s) /\ s # End(o)
  BY <1>1, ReceiverElsewhere
<1>3. /\ \A q \in Receiver : q # r => recv'[q] = recv[q] /\ wire'[q] = wire[q]
      /\ recv'[r] = Passing(Head(wire[r]), Others(r))
      /\ \A n \in Node : n # m => os'[n] = os[n]
      /\ os'[m] = os[m] \/ os'[m] = Nothing
  BY <1>1, <1>2 DEF ClipInv, TypeOK
<1> HIDE DEF m
<1>4. \A w \in Watcher : Fresh(w)' => Fresh(w)
  <2> SUFFICES ASSUME NEW w \in Watcher, Fresh(w)' PROVE Fresh(w)
    OBVIOUS
  <2>1. CASE Host(w) # m
    BY <1>1, <1>3, <2>1, Places DEF Fresh, Running, NewsFor
  <2>2. CASE Host(w) = m
    <3>1. os'[m] # Nothing
      BY <2>2 DEF Fresh, NewsFor, ReadBack
    <3>2. UNCHANGED <<os, missed>>
      BY <1>1, <1>2, <3>1 DEF ClipInv, TypeOK
    <3> QED
      BY <1>1, <3>2 DEF Fresh, Running, NewsFor
  <2> QED
    BY <2>1, <2>2
<1>5. PathsKept'
  <2>1. ASSUME NEW s \in Session
        PROVE  /\ r = Down(s) => s = End(Host(s)) /\ recv'[r].to = {}
               /\ r = Up(s) => s \notin recv'[r].to
    <3>1. r = Down(s) => s = End(Host(s))
      BY <1>2, EndsApart DEF m
    <3>2. r = Down(s) => Others(r) = {}
      BY DEF Others, Down
    <3>3. r = Up(s) => s \notin Others(r)
      BY DEF Others, Up
    <3> QED
      BY <1>3, <3>1, <3>2, <3>3 DEF Passing, Quiet
  <2> QED
    BY <1>1, <1>3, <2>1, EndsApart, Places DEF PathsKept, End
<1>6. OneWay(o)'
  <2>1. \A s \in Session : Up(s) \in Receiver /\ Down(s) \in Receiver
    BY Places
  <2> QED
    BY <1>1, <1>2, <1>3, <2>1, EndsApart DEF Wave, OneWay, End
<1>7. \A n : End(n)' = End(n) /\ (Begun(n)' <=> Begun(n))
  BY <1>1 DEF End, Begun
<1>8. ASSUME NEW n \in Node \ {o}, Begun(n) PROVE Muted(n)'
  <2>1. End(n) \in Watcher /\ Muted(n)
    BY <1>8, EndsApart DEF Wave
  <2>2. \A q \in Receiver : recv[q].pc = "written" => recv'[q].pc = "written"
    BY <1>1, <1>3
  <2> QED
    BY <1>1, <1>4, <1>7, <2>1, <2>2 DEF Muted
<1>9. ASSUME Begun(o) PROVE SendsOnce(o)'
  <2>1. End(o) \in Watcher /\ SendsOnce(o)
    BY <1>9, EndsApart DEF Wave
  <2> QED
    BY <1>1, <1>2, <1>3, <1>4, <1>7, <2>1 DEF SendsOnce
<1> QED
  BY <1>5, <1>6, <1>7, <1>8, <1>9 DEF Wave

\* The note opens the window that mutes the watcher.
LEMMA NoteWaves ==
  ASSUME ClipInv, PathsKept, NEW o \in Node, Wave(o), NEW r \in Receiver, Note(r)
  PROVE  PathsKept' /\ Wave(o)'
<1> DEFINE m == PlaceOf(r)
<1>1. /\ recv[r].pc = "written"
      /\ mark' = [mark EXCEPT ![EndOf(r)] = recv[r].data]
      /\ news' = [news EXCEPT ![EndOf(r)] = recv[r].data.item]
      /\ settling' = settling \cup {EndOf(r)}
      /\ recv' = [recv EXCEPT ![r] =
                    IF m \in Gui THEN [recv[r] EXCEPT !.pc = "telling"]
                                 ELSE Passing(recv[r].data, Others(r))]
      /\ UNCHANGED <<os, session, wire, watch, seen, missed, claimed>>
  BY DEF Note, netVars, watchVars, lookVars
<1>2. /\ m \in Node \ {o} /\ EndOf(r) = End(m) /\ Begun(m)
      /\ \/ \E s \in Session : r = Up(s) /\ s = End(o) /\ PlaceOf(r) = Server
         \/ \E s \in Session : r = Down(s) /\ s # End(o)
  BY <1>1, ReceiverElsewhere
<1>3. /\ \A q \in Receiver : q # r => recv'[q] = recv[q]
      /\ recv'[r].pc # "written"
      /\ recv'[r].to = recv[r].to \/ recv'[r].to = Others(r) \/ recv'[r].to = {}
  <2>1. recv \in [Receiver -> Doing]
    BY DEF ClipInv, TypeOK
  <2>2. Passing(recv[r].data, Others(r)).pc # "written"
        /\ (Passing(recv[r].data, Others(r)).to \in {{}, Others(r)})
    BY DEF Passing, Quiet
  <2> QED
    BY <1>1, <2>1, <2>2 DEF Doing
<1> HIDE DEF m
<1>4. \A w \in Watcher : Fresh(w)' => Fresh(w)
  BY <1>1, FreshOnlyLess
<1>5. /\ End(m) \in Watcher
      /\ \A w \in Watcher : w # End(m) => news'[w] = news[w] /\ mark'[w] = mark[w]
  BY <1>1, <1>2, EndsApart DEF ClipInv, TypeOK
<1>6. PathsKept'
  <2>1. ASSUME NEW s \in Session
        PROVE  /\ r = Down(s) => s = End(Host(s)) /\ recv'[r].to = {}
               /\ r = Up(s) => s \notin recv'[r].to
    <3>1. r = Down(s) => s = End(Host(s)) /\ recv[r].to = {}
      BY <1>1 DEF PathsKept
    <3>2. r = Down(s) => Others(r) = {}
      BY DEF Others, Down
    <3>3. r = Up(s) => s \notin Others(r) /\ s \notin recv[r].to
      BY DEF Others, Up, PathsKept
    <3> QED
      BY <1>3, <3>1, <3>2, <3>3
  <2>2. ASSUME NEW s \in Session, s[2] > session[Host(s)] PROVE s # End(m)
    <3>1. s = End(m) => Host(s) = m
      BY <1>2, EndsApart
    <3>2. session[Host(s)] \in Nat /\ s[2] \in Nat
      BY Places, EndsApart DEF ClipInv, TypeOK
    <3> QED
      BY <1>2, <2>2, <3>1, <3>2, EndsApart DEF End
  <2>3. \A s \in Session : Up(s) \in Receiver /\ Down(s) \in Receiver /\ s \in Watcher
    BY Places
  <2> QED
    BY <1>1, <1>2, <1>3, <1>5, <2>1, <2>2, <2>3 DEF PathsKept, End
<1>7. OneWay(o)'
  <2>1. \A s \in Session : Up(s) \in Receiver /\ Down(s) \in Receiver
    BY Places
  <2> QED
    BY <1>1, <1>2, <1>3, <2>1, EndsApart DEF Wave, OneWay, End
<1>8. \A n : End(n)' = End(n) /\ (Begun(n)' <=> Begun(n))
  BY <1>1 DEF End, Begun
<1>9. ASSUME NEW n \in Node \ {o}, Begun(n) PROVE Muted(n)'
  <2>1. End(n) \in Watcher /\ Muted(n)
    BY <1>9, EndsApart DEF Wave
  <2>2. CASE n = m
    BY <1>1, <1>2, <1>8, <2>1, <2>2 DEF Muted
  <2>3. CASE n # m
    <3>1. \A q \in Receiver : PlaceOf(q) = n /\ recv[q].pc = "written" => recv'[q].pc = "written"
      BY <1>3, <2>3 DEF m
    <3> QED
      BY <1>1, <1>4, <1>8, <2>1, <3>1 DEF Muted
  <2> QED
    BY <2>2, <2>3
<1>10. ASSUME Begun(o) PROVE SendsOnce(o)'
  <2>1. End(o) \in Watcher /\ SendsOnce(o) /\ End(o) # End(m)
    BY <1>2, <1>10, EndsApart DEF Wave
  <2> QED
    BY <1>1, <1>2, <1>4, <1>5, <1>8, <2>1 DEF SendsOnce
<1> QED
  BY <1>6, <1>7, <1>8, <1>9, <1>10 DEF Wave

\* A receiver that goes on after it noted what it applied wakes no watcher.
LEMMA ReceiverGoesOn ==
  ASSUME ClipInv, PathsKept, NEW o \in Node, Wave(o), NEW r \in Receiver,
         UNCHANGED <<os, session, watch, seen, missed, claimed, mark, settling, news>>,
         recv[r].pc \in {"telling", "passing"},
         \A q \in Receiver : q # r => recv'[q] = recv[q],
         recv'[r].to \subseteq recv[r].to \cup Others(r),
         \A s \in Session : /\ wire[Up(s)] = wire'[Up(s)]
                            /\ s = End(o) => wire[Down(s)] = wire'[Down(s)]
  PROVE  PathsKept' /\ Wave(o)'
<1>1. /\ PlaceOf(r) \in Node \ {o} /\ EndOf(r) = End(PlaceOf(r))
      /\ \/ \E s \in Session : r = Up(s) /\ s = End(o) /\ PlaceOf(r) = Server
         \/ \E s \in Session : r = Down(s) /\ s # End(o)
  BY ReceiverElsewhere
<1>2. \A s \in Session : Up(s) \in Receiver /\ Down(s) \in Receiver
  BY Places
<1>3. \A w \in Watcher : Fresh(w)' => Fresh(w)
  BY FreshOnlyLess
<1>4. PathsKept'
  <2>1. ASSUME NEW s \in Session
        PROVE  /\ r = Down(s) => s = End(Host(s)) /\ recv'[r].to = {}
               /\ r = Up(s) => s \notin recv'[r].to
    <3>1. r = Down(s) => s = End(Host(s)) /\ recv[r].to = {}
      BY DEF PathsKept
    <3>2. r = Down(s) => Others(r) = {}
      BY DEF Others, Down
    <3>3. r = Up(s) => s \notin Others(r) /\ s \notin recv[r].to
      BY DEF Others, Up, PathsKept
    <3> QED
      BY <3>1, <3>2, <3>3
  <2> QED
    BY <1>2, <2>1 DEF PathsKept, End
<1>5. OneWay(o)'
  BY <1>1, <1>2, EndsApart DEF Wave, OneWay, End
<1>6. \A n : End(n)' = End(n) /\ (Begun(n)' <=> Begun(n))
  BY DEF End, Begun
<1>7. ASSUME NEW n \in Node \ {o}, Begun(n) PROVE Muted(n)'
  <2>1. End(n) \in Watcher /\ Muted(n)
    BY <1>7, EndsApart DEF Wave
  <2>2. \A q \in Receiver : recv[q].pc = "written" => recv'[q].pc = "written"
    OBVIOUS
  <2> QED
    BY <1>3, <1>6, <2>1, <2>2 DEF Muted
<1>8. Begun(o) => SendsOnce(o)'
  BY <1>3, <1>6, EndsApart DEF Wave, SendsOnce
<1> QED
  BY <1>4, <1>5, <1>6, <1>7, <1>8 DEF Wave

\* Where a receiver that passes on has got to.
LEMMA PassingTo ==
  ASSUME NEW data, NEW to
  PROVE  Passing(data, to).to = to
BY DEF Passing, Quiet

LEMMA ReceiverTellsWaves ==
  ASSUME ClipInv, PathsKept, NEW o \in Node, Wave(o), NEW r \in Receiver, ReceiverTells(r)
  PROVE  PathsKept' /\ Wave(o)'
<1>1. /\ recv[r].pc = "telling"
      /\ recv' = [recv EXCEPT ![r] = Passing(recv[r].data, Others(r))]
      /\ UNCHANGED <<os, session, wire, watch, seen, missed, claimed, mark, settling, news>>
  BY DEF ReceiverTells, ghostVars, netVars, watchVars, lookVars, endVars
<1>2. /\ \A q \in Receiver : q # r => recv'[q] = recv[q]
      /\ recv'[r].to = Others(r)
  BY <1>1, PassingTo DEF ClipInv, TypeOK
<1> QED
  BY <1>1, <1>2, ReceiverGoesOn

LEMMA PassOnWaves ==
  ASSUME ClipInv, PathsKept, NEW o \in Node, Wave(o), NEW r \in Receiver, PassOn(r)
  PROVE  PathsKept' /\ Wave(o)'
<1>1. /\ recv[r].pc = "passing"
      /\ UNCHANGED <<os, session, watch, seen, missed, claimed, mark, settling, news>>
  BY DEF PassOn, ghostVars, watchVars, lookVars, endVars
<1>2. PICK s \in recv[r].to :
        /\ Sent(Down(s), recv[r].data)
        /\ recv' = [recv EXCEPT ![r] = Passing(recv[r].data, recv[r].to \ {s})]
  BY DEF PassOn
<1>3. /\ \A q \in Receiver : q # r => recv'[q] = recv[q]
      /\ recv'[r].to = recv[r].to \ {s}
  BY <1>2, PassingTo DEF ClipInv, TypeOK
<1>4. s \in Session
  BY <1>2 DEF ClipInv, TypeOK, Doing
<1>5. s # End(o)
  <2>1. \/ \E t \in Session : r = Up(t) /\ t = End(o)
        \/ \E t \in Session : r = Down(t)
    BY <1>1, ReceiverElsewhere
  <2> QED
    BY <1>2, <2>1 DEF PathsKept
<1>6. \A t \in Session : wire'[Up(t)] = wire[Up(t)] /\ (t # s => wire'[Down(t)] = wire[Down(t)])
  <2>1. \A t \in Session : /\ Up(t) \in Receiver /\ Down(t) \in Receiver /\ Up(t) # Down(s)
                           /\ (t # s => Down(t) # Down(s))
    BY <1>4, EndsApart, Places
  <2> QED
    BY <1>2, <2>1 DEF Sent, ClipInv, TypeOK
<1> QED
  BY <1>1, <1>3, <1>5, <1>6, ReceiverGoesOn

\* Steps that touch neither clipboards nor ends change nothing, and a lost
\* session takes away what was under way.
LEMMA StillWaves ==
  ASSUME ClipInv, PathsKept, NEW o \in Node, Wave(o),
         UNCHANGED <<os, session, recv, watch, seen, missed, claimed, mark, settling, news>>,
         \A r \in Receiver : wire'[r] = wire[r] \/ wire'[r] = <<>>
  PROVE  PathsKept' /\ Wave(o)'
<1>1. \A w \in Watcher : Fresh(w)' => Fresh(w)
  BY FreshOnlyLess
<1>2. PathsKept'
  BY DEF PathsKept, End
<1>3. OneWay(o)'
  BY Places DEF Wave, OneWay, End
<1>4. \A n : End(n)' = End(n) /\ (Begun(n)' <=> Begun(n))
  BY DEF End, Begun
<1>5. \A n \in Node \ {o} : Begun(n)' => Muted(n)'
  BY <1>1, <1>4, EndsApart DEF Wave, Muted
<1>6. Begun(o)' => SendsOnce(o)'
  BY <1>1, <1>4, EndsApart DEF Wave, SendsOnce
<1> QED
  BY <1>2, <1>3, <1>5, <1>6 DEF Wave

LEMMA BreakWaves ==
  ASSUME ClipInv, PathsKept, NEW o \in Node, Wave(o), NEW s \in Session, Break(s)
  PROVE  PathsKept' /\ Wave(o)'
<1>1. /\ wire' = [wire EXCEPT ![Up(s)] = <<>>, ![Down(s)] = <<>>]
      /\ UNCHANGED <<os, session, recv, watch, seen, missed, claimed, mark, settling, news>>
  BY DEF Break, watchVars, lookVars, endVars
<1>2. \A r \in Receiver : wire'[r] = wire[r] \/ wire'[r] = <<>>
  BY <1>1 DEF ClipInv, TypeOK
<1> QED
  BY <1>1, <1>2, StillWaves

\* What a patient user puts into the clipboard is the next wave, wherever the
\* last one came from.
LEMMA PutWaves ==
  ASSUME ClipInv, PathsKept, Patient, NEW n \in Node, NEW p \in Payload, Put(n, p)
  PROVE  PathsKept' /\ Wave(n)'
<1>1. /\ os' = [os EXCEPT ![n] = p] /\ missed' = {w \in missed : Host(w) # n}
      /\ news' = [w \in Watcher |-> IF Host(w) = n THEN Nothing ELSE news[w]]
      /\ UNCHANGED <<session, wire, recv, watch, seen, claimed, mark, settling>>
  BY DEF Put, Written, netVars, endVars
<1>2. /\ settling = {}
      /\ \A w \in Watcher : watch[w].pc = "idle" /\ ~Fresh(w)
      /\ \A r \in Receiver : recv[r].pc = "idle" /\ wire[r] = <<>>
  BY DEF Put, Settled
<1>3. ASSUME NEW w \in Watcher, Fresh(w)' PROVE Host(w) = n
  <2>1. Host(w) \in Node
    BY Places
  <2>2. Host(w) # n => os'[Host(w)] = os[Host(w)] /\ (w \in missed => w \in missed')
    BY <1>1, <2>1 DEF ClipInv, TypeOK
  <2> QED
    BY <1>1, <1>2, <1>3, <2>2 DEF Fresh, Running, NewsFor
<1>4. PathsKept'
  BY <1>1, Places DEF PathsKept, End
<1>5. OneWay(n)'
  BY <1>1, <1>2, Places DEF OneWay
<1>6. \A m : End(m)' = End(m) /\ (Begun(m)' <=> Begun(m))
  BY <1>1 DEF End, Begun
<1>7. ASSUME NEW m \in Node \ {n}, Begun(m) PROVE Muted(m)'
  <2>1. End(m) \in Watcher /\ Host(End(m)) = m
    BY <1>7, EndsApart
  <2>2. ~Fresh(End(m))'
    BY <1>3, <1>6, <2>1
  <2> QED
    BY <1>1, <1>2, <1>6, <2>1, <2>2 DEF Muted
<1>8. ASSUME Begun(n) PROVE SendsOnce(n)'
  <2>1. End(n) \in Watcher /\ Host(End(n)) = n
    BY <1>8, EndsApart
  <2>2. news'[End(n)] = Nothing /\ os'[n].item # Nothing
    BY <1>1, <2>1, ClipboardAssumption DEF ClipInv, TypeOK, Payload
  <2> QED
    BY <1>1, <1>2, <1>6, <2>1, <2>2 DEF SendsOnce
<1> QED
  BY <1>4, <1>5, <1>6, <1>7, <1>8 DEF Wave

LEMMA UserWaves ==
  ASSUME ClipInv, PathsKept, Patient, NEW o \in Node, Wave(o), NEW n \in Node, UserStep(n)
  PROVE  PathsKept' /\ \E m \in Node : Wave(m)'
<1>1. CASE Copy(n)
  <2>1. PICK i \in Item : Put(n, [item |-> i, raw |-> TRUE])
    BY <1>1 DEF Copy
  <2> QED
    BY <2>1, PutWaves DEF Payload
<1>2. CASE Restore(n)
  <2>1. PICK e \in Get(hist[n], shown[n].id) : Put(n, e.data)
    BY <1>2 DEF Restore
  <2>2. hist[n].items \in Seq(Entry)
    BY DEF ClipInv, TypeOK
  <2>3. PICK i \in DOMAIN hist[n].items : e = hist[n].items[i]
    BY <2>1 DEF Get
  <2>4. e \in Entry
    BY <2>2, <2>3
  <2>5. e.data \in Payload
    BY <2>4 DEF Entry
  <2> QED
    BY <2>1, <2>5, PutWaves
<1>3. CASE ShowHistory(n)
  BY <1>3, StillWaves DEF ShowHistory, netVars, watchVars, lookVars, endVars, ghostVars
<1>4. CASE ClearHistory(n)
  BY <1>4, StillWaves DEF ClearHistory, netVars, watchVars, lookVars, endVars
<1> QED
  BY <1>1, <1>2, <1>3, <1>4 DEF UserStep

\* A session that begins makes its client the origin: it sends what it holds.
LEMMA ConnectWaves ==
  ASSUME ClipInv, PathsKept, Patient, NEW c \in Client, Connect(c)
  PROVE  PathsKept' /\ Wave(c)'
<1> DEFINE new == <<c, session[c] + 1>>
<1>1. /\ session' = [session EXCEPT ![c] = session[c] + 1] /\ session[c] < MaxSession[c]
      /\ UNCHANGED <<os, wire, recv, watch, seen, missed, claimed, mark, settling, news>>
      /\ Settled
  BY DEF Connect, watchVars, lookVars, endVars
<1>2. /\ settling = {}
      /\ \A w \in Watcher : watch[w].pc = "idle" /\ ~Fresh(w)
      /\ \A r \in Receiver : recv[r].pc = "idle" /\ wire[r] = <<>>
  BY <1>1 DEF Settled
<1>3. /\ session[c] \in Nat /\ MaxSession[c] \in Nat /\ c \in Node /\ c # Server
      /\ session'[c] = session[c] + 1
      /\ \A d \in Client : d # c => session'[d] = session[d]
  BY <1>1, ClipboardAssumption DEF ClipInv, TypeOK, Node
<1>4. PICK s \in Session : s = new /\ Host(s) = c /\ s[2] = session[c] + 1
  <2>1. new \in {c} \X (1 .. MaxSession[c])
    BY <1>1, <1>3
  <2> QED
    BY <2>1 DEF Session, Host
<1>5. s[2] > session[Host(s)] /\ news[s] = Nothing
  BY <1>3, <1>4 DEF PathsKept
<1>6. /\ End(c)' = s
      /\ \A n \in Node : n # c => End(n)' = End(n) /\ (Begun(n)' <=> Begun(n))
  BY <1>1, <1>3, <1>4 DEF End, Begun, Node
<1> HIDE DEF new
<1>7. PathsKept'
  <2>1. \A d \in Client : session'[d] <= MaxSession[d]
    BY <1>1, <1>3 DEF PathsKept
  <2>2. ASSUME NEW t \in Session, t[2] > session'[Host(t)] PROVE t[2] > session[Host(t)]
    <3>1. t[2] \in Nat /\ Host(t) \in Client /\ session[Host(t)] \in Nat
      BY Places, EndsApart DEF ClipInv, TypeOK
    <3> QED
      BY <1>3, <2>2, <3>1
  <2> QED
    BY <1>1, <1>2, <2>1, <2>2, Places DEF PathsKept
<1>8. OneWay(c)'
  BY <1>1, <1>2, Places DEF OneWay
<1>9. ASSUME NEW n \in Node \ {c}, Begun(n) PROVE Muted(n)'
  <2>1. End(n) \in Watcher /\ Host(End(n)) = n
    BY <1>9, EndsApart
  <2>2. End(n)' = End(n)
    BY <1>6
  <2>3. Running(End(n))' => Running(End(n))
    <3>1. CASE n = Server
      BY <3>1, EndsApart DEF Running
    <3>2. CASE n # Server
      <4>1. session'[n] = session[n]
        BY <1>3, <3>2 DEF Node
      <4> QED
        BY <2>1, <2>2, <4>1 DEF Running
    <3> QED
      BY <3>1, <3>2
  <2>4. ~Fresh(End(n))'
    BY <1>1, <1>2, <2>1, <2>2, <2>3 DEF Fresh, NewsFor
  <2> QED
    BY <1>1, <1>2, <2>1, <2>2, <2>4 DEF Muted
<1>10. SendsOnce(c)'
  <2>1. s \in Watcher
    BY <1>4, Places
  <2>2. Fresh(s)' => os[c].item # Nothing
    <3>1. Fresh(s)' => os[c] # Nothing
      BY <1>1, <1>4 DEF Fresh, NewsFor, ReadBack
    <3> QED
      BY <1>3, <3>1, ClipboardAssumption DEF ClipInv, TypeOK, Payload
  <2> QED
    BY <1>1, <1>2, <1>5, <1>6, <2>1, <2>2 DEF SendsOnce
<1> QED
  BY <1>6, <1>7, <1>8, <1>9, <1>10 DEF Wave

LEMMA InitWaves ==
  ASSUME Init
  PROVE  WaveInv
<1>1. /\ \A s \in Session : s \in Watcher /\ Up(s) \in Receiver /\ Down(s) \in Receiver
      /\ Hub \in Watcher /\ Server \in Node
  BY Places DEF Node
<1>2. PathsKept
  <2>1. \A c \in Client : session[c] <= MaxSession[c]
    BY ClipboardAssumption DEF Init
  <2> QED
    BY <1>1, <2>1 DEF Init, PathsKept, Quiet
<1>3. OneWay(Server)
  BY <1>1 DEF Init, OneWay, Quiet
<1>4. \A n \in Node \ {Server} : ~Begun(n)
  BY DEF Init, Begun, Node
<1>5. SendsOnce(Server)
  <2>1. End(Server) = Hub
    BY DEF End
  <2>2. Fresh(Hub) => os[Server].item # Nothing
    <3>1. Fresh(Hub) => os[Server] # Nothing
      BY Places DEF Fresh, NewsFor, ReadBack
    <3> QED
      BY <1>1, <3>1, ClipboardAssumption DEF Init, Payload
  <2> QED
    BY <1>1, <2>1, <2>2 DEF Init, SendsOnce, Quiet
<1> QED
  BY <1>1, <1>2, <1>3, <1>4, <1>5 DEF WaveInv, Wave

LEMMA NextWaves ==
  ASSUME ClipInv, WaveInv, Prompt, Patient, [Next]_vars
  PROVE  WaveInv'
<1>1. PathsKept
  BY DEF WaveInv
<1>2. PICK o \in Node : Wave(o)
  BY DEF WaveInv
<1>3. ASSUME NEW n \in Node, UserStep(n) PROVE WaveInv'
  BY <1>1, <1>2, <1>3, UserWaves DEF WaveInv
<1>4. ASSUME NEW c \in Client, Connect(c) PROVE WaveInv'
  BY <1>1, <1>4, ConnectWaves DEF WaveInv, Node
<1>5. ASSUME NEW s \in Session, Break(s) PROVE WaveInv'
  BY <1>1, <1>2, <1>5, BreakWaves DEF WaveInv
<1>6. ASSUME NEW w \in Watcher, WatcherStep(w) PROVE WaveInv'
  <2>1. PathsKept' /\ Wave(o)'
    BY <1>1, <1>2, <1>6, LookWaves, LookFailsWaves, DecideWaves, WatcherSendsWaves,
       WatcherTellsWaves, WindowClosesWaves DEF WatcherStep
  <2> QED
    BY <2>1 DEF WaveInv
<1>7. ASSUME HubSent PROVE WaveInv'
  BY <1>1, <1>2, <1>7, HubSentWaves DEF WaveInv
<1>8. ASSUME NEW r \in Receiver, ReceiverStep(r) PROVE WaveInv'
  <2>1. PathsKept' /\ Wave(o)'
    BY <1>1, <1>2, <1>8, ApplyWaves, ApplyFailsWaves, NoteWaves, ReceiverTellsWaves,
       PassOnWaves DEF ReceiverStep
  <2> QED
    BY <2>1 DEF WaveInv
<1>9. ASSUME UNCHANGED vars PROVE WaveInv'
  <2>1. PathsKept' /\ Wave(o)'
    BY <1>1, <1>2, <1>9, StillWaves
       DEF vars, netVars, watchVars, lookVars, endVars, ghostVars
  <2> QED
    BY <2>1 DEF WaveInv
<1> QED
  BY <1>3, <1>4, <1>5, <1>6, <1>7, <1>8, <1>9 DEF Next

\* Only the decision not to suppress makes a watcher send what it has read.
LEMMA OnlyDecideSends ==
  ASSUME ClipInv, [Next]_vars, NEW w \in Watcher, watch[w].pc = "read",
         watch'[w].pc \in {"sending", "telling"}
  PROVE  ~Suppressed(w)
<1>1. watch' # watch
  OBVIOUS
<1>2. ASSUME NEW n \in Node, UserStep(n) PROVE FALSE
  BY <1>1, <1>2 DEF UserStep, Copy, Restore, Put, ShowHistory, ClearHistory, watchVars
<1>3. ASSUME NEW c \in Client, Connect(c) PROVE FALSE
  BY <1>1, <1>3 DEF Connect, watchVars
<1>4. ASSUME NEW s \in Session, Break(s) PROVE FALSE
  BY <1>1, <1>4 DEF Break, watchVars
<1>5. ASSUME NEW r \in Receiver, ReceiverStep(r) PROVE FALSE
  BY <1>1, <1>5 DEF ReceiverStep, Apply, ApplyFails, Note, ReceiverTells, PassOn, watchVars
<1>6. ASSUME HubSent PROVE FALSE
  <2>1. watch[Hub].pc = "sending" /\ \A v \in Watcher : v # Hub => watch'[v] = watch[v]
    BY <1>6 DEF HubSent, ClipInv, TypeOK
  <2> QED
    BY <2>1
<1>7. ASSUME NEW v \in Watcher, WatcherStep(v) PROVE ~Suppressed(w)
  <2>1. CASE Look(v) \/ LookFails(v) \/ WindowCloses(v)
    <3>1. CASE Look(v)
      <4>1. watch[v].pc = "idle" /\ \A u \in Watcher : u # v => watch'[u] = watch[u]
        BY <3>1 DEF Look, ClipInv, TypeOK
      <4> QED
        BY <4>1
    <3>2. CASE LookFails(v) \/ WindowCloses(v)
      BY <1>1, <3>2 DEF LookFails, WindowCloses, watchVars
    <3> QED
      BY <2>1, <3>1, <3>2
  <2>2. CASE WatcherSends(v) \/ WatcherTells(v)
    <3>1. watch[v].pc # "read" /\ \A u \in Watcher : u # v => watch'[u] = watch[u]
      BY <2>2 DEF WatcherSends, WatcherTells, ClipInv, TypeOK
    <3> QED
      BY <3>1
  <2>3. CASE Decide(v)
    <3>1. \A u \in Watcher : u # v => watch'[u] = watch[u]
      BY <2>3 DEF Decide, ClipInv, TypeOK
    <3>2. v = w
      BY <3>1
    <3>3. watch' # [watch EXCEPT ![w] = Quiet]
      BY DEF ClipInv, TypeOK, Quiet
    <3> QED
      BY <2>3, <3>2, <3>3 DEF Decide
  <2> QED
    BY <1>7, <2>1, <2>2, <2>3 DEF WatcherStep
<1> QED
  BY <1>1, <1>2, <1>3, <1>4, <1>5, <1>6, <1>7 DEF Next, vars, watchVars

\* If users are patient and no watcher looks between a write and the note of it,
\* a machine never sends as new what it applied or sent last: the note, its
\* settling window and the hashes suppress all echoes, for any machines, sessions
\* and payloads.
THEOREM EchoesStop ==
  ASSUME Prompt, Patient
  PROVE  Spec => SendsOnlyNews
<1> DEFINE A == \A w \in Watcher :
             w = End(Host(w)) /\ watch[w].pc = "read" /\ watch'[w].pc \in {"sending", "telling"}
               => watch[w].data.item # news[w]
<1>1. ClipInv /\ WaveInv /\ [Next]_vars => A
  <2> SUFFICES ASSUME ClipInv, WaveInv, [Next]_vars,
                      NEW w \in Watcher, w = End(Host(w)), watch[w].pc = "read",
                      watch'[w].pc \in {"sending", "telling"}
               PROVE  watch[w].data.item # news[w]
    OBVIOUS
  <2>1. PathsKept
    BY DEF WaveInv
  <2>2. PICK o \in Node : Wave(o)
    BY DEF WaveInv
  <2>3. Host(w) \in Node /\ Begun(Host(w))
    BY <2>1, EndHasBegun, Places
  <2>4. ~Suppressed(w)
    BY OnlyDecideSends
  <2>5. Host(w) = o
    BY <2>2, <2>3, <2>4 DEF Wave, Muted, Suppressed
  <2> QED
    BY <2>2, <2>3, <2>5 DEF Wave, SendsOnce
<1>2. ClipInv /\ WaveInv /\ [Next]_vars => WaveInv'
  BY NextWaves
<1> HIDE DEF A
<1>3. Spec => [][A]_vars
  BY <1>1, <1>2, InitWaves, ClipInvariant, PTL DEF Spec
<1> QED
  BY <1>3 DEF SendsOnlyNews, A

-----------------------------------------------------------------------------
(* What the machines agree on: in a wave nothing but the announced item is  *)
(* under way, and whoever was promised it holds it or is about to get it.   *)

\* On Linux the watchers of a machine share what they saw, so that one of a session
\* that is over can take up a copy and send it nowhere; TLC finds Agreement violated
\* where a client with Linux reconnects.
OneOnLinux == \A c \in Client \cap Linux : MaxSession[c] = 1

Held(n) == Holds(os[n], latest)

\* The newest entry of a history is what was announced last.
Kept(n) ==
  LET items == hist[n].items
  IN  items # <<>> => items[Len(items)].data.item = latest.item

\* Nothing but the announced item is under way to a machine it is promised to.
UniformWires ==
  \A r \in Receiver :
    /\ \A i \in DOMAIN wire[r] : wire[r][i].item = latest.item
    /\ recv[r].pc # "idle" => recv[r].data.item = latest.item

UniformWatchers ==
  \A w \in Watcher : Host(w) \in informed =>
    /\ Fresh(w) => Held(Host(w))
    /\ watch[w].pc # "idle" => watch[w].data.item = latest.item

\* The watcher of o suppresses what it finds there, or has found.
Muffled(o) ==
  LET w == End(o)
  IN  /\ watch[w].pc \in {"idle", "read"}
      /\ watch[w].pc = "read" => mark[w] = watch[w].data
      /\ Fresh(w) => mark[w] = ReadBack(o, os[o])

\* The origin sends the announced item or nothing.
Speaks(o) ==
  Connected(o) =>
    \/ Muffled(o)
    \/ Held(o) /\ (watch[End(o)].pc # "idle" => watch[End(o)].data.item = latest.item)

\* The watcher of o has found, or will find, what it does not suppress.
Finding(o) ==
  LET w == End(o)
  IN  \/ watch[w].pc = "idle" /\ Fresh(w) /\ mark[w] # ReadBack(o, os[o])
      \/ watch[w].pc = "read" /\ mark[w] # watch[w].data

\* The watcher of o will send it to n.
Leaving(o, n) ==
  \/ Finding(o)
  \/ watch[End(o)].pc = "telling" /\ o # Server
  \/ watch[End(o)].pc = "sending" /\ (o # Server \/ End(n) \in watch[End(o)].to)

\* The handler of client o will pass it on to client n.
Relayed(o, n) ==
  LET r == Up(End(o))
  IN  /\ o # Server /\ n # Server
      /\ \/ wire[r] # <<>> \/ recv[r].pc \in {"written", "telling"}
         \/ recv[r].pc = "passing" /\ End(n) \in recv[r].to

\* Who takes to n what comes from o.
Inlet(o, n) == IF n = Server THEN Up(End(o)) ELSE Down(End(n))

Coming(o, n) == Leaving(o, n) \/ Relayed(o, n) \/ wire[Inlet(o, n)] # <<>>

\* The origin will record it, or a receiver of n what it has applied.
OwnTelling(o) ==
  \/ Finding(o) \/ watch[End(o)].pc = "telling"
  \/ o = Server /\ watch[End(o)].pc = "sending"

Recording(n) == \E r \in Receiver : PlaceOf(r) = n /\ recv[r].pc \in {"written", "telling"}

Promised(o) ==
  \A n \in informed :
    /\ n = o => Held(o)
    /\ n # o => Held(n) \/ (Connected(o) /\ Coming(o, n))
    /\ n \in Gui => \/ Kept(n)
                    \/ n = o /\ OwnTelling(o)
                    \/ n # o /\ Connected(o) /\ Coming(o, n)
                    \/ Recording(n)

Uniform == UniformWires /\ UniformWatchers
SpreadOut(o) == Uniform /\ Speaks(o) /\ Promised(o)

Spread(o) == informed \subseteq Online /\ (informed # {} => SpreadOut(o))

LEMMA OnlineEnds ==
  ASSUME ClipInv, PathsKept
  PROVE  \A n \in Online : /\ n \in Node /\ Begun(n) /\ End(n) \in Watcher /\ Host(End(n)) = n
                           /\ n # Server => End(n) \in open /\ End(n) \in Session
<1> SUFFICES ASSUME NEW n \in Online
             PROVE  /\ n \in Node /\ Begun(n) /\ End(n) \in Watcher /\ Host(End(n)) = n
                    /\ n # Server => End(n) \in open /\ End(n) \in Session
  OBVIOUS
<1>1. n \in Node /\ (n # Server => End(n) \in open) /\ Host(End(n)) = n
  BY EndsApart DEF Online, Connected
<1>2. Begun(n)
  BY <1>1, EndsApart
<1> QED
  BY <1>1, <1>2, EndsApart

\* Ends of different machines differ.
LEMMA EndsDiffer ==
  ASSUME ClipInv, PathsKept
  PROVE  \A m, n \in Node : End(m) = End(n) => m = n
BY EndsApart

\* A receiver that is at work, or about to, stands between the origin and its machine.
LEMMA InletAtWork ==
  ASSUME ClipInv, PathsKept, NEW o \in Node, Wave(o), NEW r \in Receiver,
         recv[r].pc # "idle" \/ wire[r] # <<>>
  PROVE  /\ PlaceOf(r) \in Node \ {o} /\ EndOf(r) = End(PlaceOf(r))
         /\ r = Inlet(o, PlaceOf(r))
         /\ r = Up(End(o)) => PlaceOf(r) = Server /\ Others(r) = open \ {End(o)}
         /\ PlaceOf(r) = Server => r = Up(End(o))
         /\ PlaceOf(r) # Server => recv[r].to = {} /\ Others(r) = {}
<1>1. /\ PlaceOf(r) \in Node \ {o} /\ EndOf(r) = End(PlaceOf(r))
      /\ \/ \E s \in Session : r = Up(s) /\ s = End(o) /\ PlaceOf(r) = Server
         \/ \E s \in Session : r = Down(s) /\ s # End(o)
  BY ReceiverElsewhere
<1>2. CASE \E s \in Session : r = Up(s) /\ s = End(o) /\ PlaceOf(r) = Server
  <2>1. r = Up(End(o)) /\ PlaceOf(r) = Server
    BY <1>2
  <2>2. r[2] = "up" /\ r[1] = End(o)
    BY <2>1 DEF Up
  <2> QED
    BY <1>1, <2>1, <2>2 DEF Inlet, Others
<1>3. CASE \E s \in Session : r = Down(s) /\ s # End(o)
  <2>1. PICK s \in Session : r = Down(s)
    BY <1>3
  <2>2. /\ PlaceOf(r) = Host(s) /\ Host(s) # Server /\ EndOf(r) = s /\ r[2] = "down"
        /\ recv[r].to = {}
    BY <2>1, EndsApart DEF PathsKept, Down
  <2>3. r # Up(End(o))
    BY <2>2 DEF Up
  <2>4. r = Inlet(o, PlaceOf(r)) /\ Others(r) = {}
    BY <1>1, <2>1, <2>2 DEF Inlet, Others
  <2> QED
    BY <1>1, <2>2, <2>3, <2>4
<1> QED
  BY <1>1, <1>2, <1>3

\* Inlets of different machines differ.
LEMMA InletsDiffer ==
  ASSUME ClipInv, PathsKept, NEW o \in Node, NEW n \in Online, n # o, Connected(o)
  PROVE  Inlet(o, n) \in Receiver /\ PlaceOf(Inlet(o, n)) = n
<1>1. o \in Online
  BY DEF Online
<1>2. CASE n = Server
  <2>1. End(o) \in Session
    BY <1>1, <1>2, OnlineEnds
  <2> QED
    BY <1>2, <2>1, EndsApart, Places DEF Inlet
<1>3. CASE n # Server
  <2>1. End(n) \in Session /\ Host(End(n)) = n
    BY <1>3, OnlineEnds
  <2> QED
    BY <1>3, <2>1, EndsApart, Places DEF Inlet
<1> QED
  BY <1>2, <1>3

\* What is added to a history is its newest entry.
LEMMA AddedIsLast ==
  ASSUME NEW h \in History, NEW data \in Payload
  PROVE  LET items == Add(h, data).items
         IN  items # <<>> => items[Len(items)].data = data
<1>1. CASE Repeats(h, data)
  BY <1>1 DEF Add, Repeats, History
<1>2. CASE ~Repeats(h, data)
  <2> DEFINE longer == Append(h.items, [id |-> h.nextID + 1, data |-> data])
  <2>1. h.items \in Seq(Entry) /\ h.nextID \in Nat /\ Capacity \in Nat \ {0}
    BY CapacityAssumption DEF History
  <2>2. [id |-> h.nextID + 1, data |-> data] \in Entry
    BY <2>1 DEF Entry
  <2>3. /\ longer \in Seq(Entry) /\ Len(longer) = Len(h.items) + 1 /\ Len(h.items) \in Nat
        /\ longer[Len(longer)].data = data
    BY <2>1, <2>2
  <2>4. Add(h, data).items = Evicted(longer)
    BY <1>2 DEF Add
  <2> HIDE DEF longer
  <2>5. CASE Evicted(longer) = longer
    BY <2>3, <2>4, <2>5
  <2>6. CASE Evicted(longer) = Tail(longer)
    <3>1. Tail(longer) \in Seq(Entry) /\ Len(Tail(longer)) = Len(longer) - 1
      BY <2>3
    <3>2. Tail(longer) # <<>> => Tail(longer)[Len(Tail(longer))] = longer[Len(longer)]
      BY <2>3, <3>1
    <3> QED
      BY <2>3, <2>4, <2>6, <3>2
  <2> QED
    BY <2>5, <2>6 DEF Evicted
<1> QED
  BY <1>1, <1>2

\* Promises that one step keeps.
LEMMA PromisesStay ==
  ASSUME NEW o \in Node, Promised(o), UNCHANGED <<session, open>>, informed' \subseteq informed,
         \A n \in informed' :
           /\ Held(n) => Held(n)'
           /\ Kept(n) => Kept(n)'
           /\ n # o /\ Connected(o) /\ Coming(o, n) => Coming(o, n)' \/ (Held(n)' /\ Recording(n)')
           /\ n \in Gui /\ n = o /\ OwnTelling(o) => Kept(n)' \/ OwnTelling(o)'
           /\ n \in Gui /\ Recording(n) => Kept(n)' \/ Recording(n)'
  PROVE  Promised(o)'
<1>1. Connected(o)' <=> Connected(o)
  BY DEF Connected, End
<1> SUFFICES ASSUME NEW n \in informed'
             PROVE  /\ n = o => Held(o)'
                    /\ n # o => Held(n)' \/ (Connected(o)' /\ Coming(o, n)')
                    /\ n \in Gui => \/ Kept(n)'
                                    \/ n = o /\ OwnTelling(o)'
                                    \/ n # o /\ Connected(o)' /\ Coming(o, n)'
                                    \/ Recording(n)'
  BY DEF Promised
<1>2. n \in informed
  OBVIOUS
<1>3. /\ n = o => Held(o)
      /\ n # o => Held(n) \/ (Connected(o) /\ Coming(o, n))
      /\ n \in Gui => \/ Kept(n)
                      \/ n = o /\ OwnTelling(o)
                      \/ n # o /\ Connected(o) /\ Coming(o, n)
                      \/ Recording(n)
  BY <1>2 DEF Promised
<1>4. n = o => Held(o)'
  BY <1>3
<1>5. n # o => Held(n)' \/ (Connected(o)' /\ Coming(o, n)')
  BY <1>1, <1>3
<1>6. n \in Gui => \/ Kept(n)'
                   \/ n = o /\ OwnTelling(o)'
                   \/ n # o /\ Connected(o)' /\ Coming(o, n)'
                   \/ Recording(n)'
  BY <1>1, <1>3
<1> QED
  BY <1>4, <1>5, <1>6

\* The end of a machine changes only when a session begins.
LEMMA EndsStay ==
  ASSUME UNCHANGED session
  PROVE  \A n : End(n)' = End(n)
BY DEF End

\* A machine with Linux has one watcher.
LEMMA OneWatcherOnLinux ==
  ASSUME ClipInv, PathsKept, OneOnLinux, NEW o \in Online, o \in Linux,
         NEW v \in Watcher, Host(v) = o
  PROVE  v = End(o)
<1>1. CASE o = Server
  BY <1>1, EndsApart
<1>2. CASE o # Server
  <2>1. v \in Session /\ End(o) \in Session
    BY <1>2, EndsApart, OnlineEnds, Places
  <2>2. PICK c \in Client : v \in {c} \X (1 .. MaxSession[c])
    BY <2>1 DEF Session
  <2>3. PICK d \in Client : End(o) \in {d} \X (1 .. MaxSession[d])
    BY <2>1 DEF Session
  <2>4. c = o /\ d = o
    BY <1>2, <2>2, <2>3 DEF Host, End
  <2>5. MaxSession[o] = 1
    BY <2>2, <2>4 DEF OneOnLinux
  <2> QED
    BY <2>2, <2>3, <2>4, <2>5
<1> QED
  BY <1>1, <1>2

\* Another watcher's look leaves the origin's watcher what it has to find.
LEMMA LookElsewhere ==
  ASSUME ClipInv, PathsKept, OneOnLinux, NEW o \in Online, NEW v \in Watcher, Look(v),
         v # End(o), Fresh(End(o))
  PROVE  Fresh(End(o))'
<1>1. /\ seen' = [seen EXCEPT ![v] = ReadBack(Host(v), os[Host(v)])]
      /\ claimed' = IF Host(v) \in Linux
                    THEN [claimed EXCEPT ![Host(v)] = ReadBack(Host(v), os[Host(v)])]
                    ELSE claimed
      /\ UNCHANGED <<os, session, missed>>
  BY DEF Look, netVars
<1>2. End(o)' = End(o) /\ End(o) \in Watcher /\ Host(End(o)) = o /\ o \in Node
  BY <1>1, EndsStay, OnlineEnds
<1>3. seen'[End(o)] = seen[End(o)]
  BY <1>1, <1>2 DEF ClipInv, TypeOK
<1>4. o \in Linux => claimed'[o] = claimed[o]
  <2>1. o \in Linux => Host(v) # o
    BY OneWatcherOnLinux
  <2> QED
    BY <1>1, <1>2, <2>1 DEF ClipInv, TypeOK
<1> QED
  BY <1>1, <1>2, <1>3, <1>4 DEF Fresh, Running, NewsFor

LEMMA LookSpreads ==
  ASSUME ClipInv, PathsKept, OneOnLinux, NEW o \in Node, Wave(o),
         informed \subseteq Online, SpreadOut(o), NEW v \in Watcher, Look(v)
  PROVE  SpreadOut(o)'
<1> DEFINE q == ReadBack(Host(v), os[Host(v)])
<1>1. /\ watch[v].pc = "idle" /\ Fresh(v)
      /\ watch' = [watch EXCEPT ![v] = [pc |-> "read", data |-> q, to |-> {}]]
      /\ UNCHANGED <<os, session, open, wire, recv, mark, hist, latest, informed>>
  BY DEF Look, netVars, endVars, panelVars, ghostVars
<1>2. /\ \A w \in Watcher : w # v => watch'[w] = watch[w]
      /\ watch'[v] = [pc |-> "read", data |-> q, to |-> {}]
  BY <1>1 DEF ClipInv, TypeOK
<1>3. q \in Payload /\ q.item = os[Host(v)].item
  <2>1. os[Host(v)] \in Payload /\ Host(v) \in Node
    BY <1>1, Places DEF Fresh, NewsFor, ReadBack, ClipInv, TypeOK
  <2> QED
    BY <2>1, ReadBackItem
<1>4. ~Fresh(v)' /\ \A w \in Watcher : Fresh(w)' => Fresh(w)
  BY LookTakes
<1> HIDE DEF q
<1>5. \A n : End(n)' = End(n)
  BY <1>1, EndsStay
<1>6. \A n : Held(n)' <=> Held(n)
  BY <1>1 DEF Held
<1>7. UniformWires'
  BY <1>1 DEF SpreadOut, Uniform, UniformWires
<1>8. UniformWatchers'
  <2> SUFFICES ASSUME NEW w \in Watcher, Host(w) \in informed
               PROVE  /\ Fresh(w)' => Held(Host(w))'
                      /\ watch'[w].pc # "idle" => watch'[w].data.item = latest.item
    BY <1>1 DEF UniformWatchers
  <2>1. /\ Fresh(w) => Held(Host(w))
        /\ watch[w].pc # "idle" => watch[w].data.item = latest.item
    BY DEF SpreadOut, Uniform, UniformWatchers
  <2>2. w = v => q.item = latest.item
    BY <1>1, <1>3, <2>1 DEF Held, Holds
  <2> QED
    BY <1>2, <1>4, <1>6, <2>1, <2>2
<1>9. ASSUME o \in Online PROVE /\ v = End(o) /\ mark[v] # q => Finding(o)'
                                /\ v = End(o) /\ Muffled(o) => Muffled(o)'
                                /\ v # End(o) => (Finding(o) => Finding(o)') /\ (Muffled(o) => Muffled(o)')
  <2>1. End(o) \in Watcher /\ Host(End(o)) = o
    BY <1>9, OnlineEnds
  <2>2. ASSUME v = End(o) PROVE (mark[v] # q => Finding(o)') /\ (Muffled(o) => Muffled(o)')
    BY <1>1, <1>2, <1>4, <1>5, <2>1, <2>2 DEF Finding, Muffled, q
  <2>3. ASSUME v # End(o) PROVE (Finding(o) => Finding(o)') /\ (Muffled(o) => Muffled(o)')
    <3>1. Fresh(End(o))' <=> Fresh(End(o))
      BY <1>4, <1>5, <1>9, <2>1, <2>3, LookElsewhere
    <3> QED
      BY <1>1, <1>2, <1>5, <2>1, <2>3, <3>1 DEF Finding, Muffled
  <2> QED
    BY <2>2, <2>3
<1>10. Speaks(o)'
  <2> SUFFICES ASSUME Connected(o)
               PROVE  \/ Muffled(o)'
                      \/ /\ Held(o)'
                         /\ watch'[End(o)].pc # "idle" => watch'[End(o)].data.item = latest.item
    BY <1>1, <1>5 DEF Speaks, Connected
  <2>1. o \in Online /\ End(o) \in Watcher /\ Host(End(o)) = o
    BY OnlineEnds DEF Online
  <2>2. \/ Muffled(o)
        \/ Held(o) /\ (watch[End(o)].pc # "idle" => watch[End(o)].data.item = latest.item)
    BY DEF SpreadOut, Speaks
  <2>3. v = End(o) /\ Held(o) => q.item = latest.item
    BY <1>3, <2>1 DEF Held, Holds
  <2> QED
    BY <1>2, <1>6, <1>9, <2>1, <2>2, <2>3
<1>11. Promised(o)'
  <2>1. ASSUME o \in Online, Finding(o) PROVE Finding(o)'
    BY <1>1, <1>9, <2>1, OnlineEnds DEF Finding, q
  <2>2. ASSUME o \in Online PROVE \A n : Leaving(o, n) => Leaving(o, n)'
    BY <1>1, <1>2, <1>5, <2>1, <2>2, OnlineEnds DEF Leaving
  <2>3. \A n : o \in Online /\ Coming(o, n) => Coming(o, n)'
    BY <1>1, <1>5, <2>2 DEF Coming, Relayed, Inlet
  <2>4. o \in Online /\ OwnTelling(o) => OwnTelling(o)'
    BY <1>1, <1>2, <1>5, <2>1, OnlineEnds DEF OwnTelling
  <2>5. \A n : (Kept(n)' <=> Kept(n)) /\ (Recording(n)' <=> Recording(n))
    BY <1>1 DEF Kept, Recording
  <2>6. Connected(o) => o \in Online
    BY DEF Online
  <2> QED
    BY <1>1, <1>6, <2>3, <2>4, <2>5, <2>6, PromisesStay DEF SpreadOut
<1> QED
  BY <1>7, <1>8, <1>10, <1>11 DEF SpreadOut, Uniform

\* What the watchers have in hand stays uniform when they put it down or go on.
LEMMA WatchersStayUniform ==
  ASSUME UniformWatchers, UNCHANGED <<os, latest, informed>>,
         \A w \in Watcher : Fresh(w)' => Fresh(w),
         \A w \in Watcher : watch'[w].pc # "idle" =>
           watch[w].pc # "idle" /\ watch'[w].data = watch[w].data
  PROVE  UniformWatchers'
BY DEF UniformWatchers, Held

\* A watcher that does not suppress the announced item sends it to all.
LEMMA DecideSpreads ==
  ASSUME ClipInv, PathsKept, NEW o \in Node, Wave(o),
         informed \subseteq Online, SpreadOut(o), NEW v \in Watcher, Decide(v)
  PROVE  SpreadOut(o)'
<1>1. /\ watch[v].pc = "read"
      /\ UNCHANGED <<os, session, open, wire, recv, seen, missed, claimed, settling, hist, latest, informed>>
      /\ \A w \in Watcher : w # v => watch'[w] = watch[w] /\ mark'[w] = mark[w]
      /\ Suppressed(v) => watch'[v].pc = "idle" /\ mark'[v] = mark[v]
      /\ ~Suppressed(v) /\ v = Hub => watch'[v] = [watch[v] EXCEPT !.pc = "sending", !.to = open]
      /\ ~Suppressed(v) /\ v # Hub => watch'[v] = [watch[v] EXCEPT !.pc = Told(v, "sending"), !.to = {v}]
  <2>1. /\ watch[v].pc = "read"
        /\ UNCHANGED <<os, session, open, wire, recv, seen, missed, claimed, settling, hist, latest, informed>>
    BY DEF Decide, netVars, lookVars, panelVars
  <2>2. watch \in [Watcher -> Doing] /\ mark \in [Watcher -> Payload \cup {Nothing}]
    BY DEF ClipInv, TypeOK
  <2>3. CASE Suppressed(v) /\ watch' = [watch EXCEPT ![v] = Quiet] /\ UNCHANGED mark
    BY <2>1, <2>2, <2>3 DEF Quiet
  <2>4. CASE /\ ~Suppressed(v) /\ v = Hub /\ mark' = mark
             /\ watch' = [watch EXCEPT ![v].pc = "sending", ![v].to = open]
    BY <2>1, <2>2, <2>4
  <2>5. CASE /\ ~Suppressed(v) /\ v # Hub /\ mark' = [mark EXCEPT ![v] = watch[v].data]
             /\ watch' = [watch EXCEPT ![v].pc = Told(v, "sending"), ![v].to = {v}]
    BY <2>1, <2>2, <2>5
  <2> QED
    BY <2>3, <2>4, <2>5 DEF Decide
<1>2. /\ watch'[v].pc # "idle" => watch'[v].data = watch[v].data /\ ~Suppressed(v)
      /\ ~Suppressed(v) => watch'[v].pc \in {"sending", "telling"}
      /\ ~Suppressed(v) /\ v = Hub => watch'[v].pc = "sending" /\ watch'[v].to = open
      /\ ~Suppressed(v) /\ v # Hub /\ Host(v) \in Gui => watch'[v].pc = "telling"
  <2>1. watch[v] \in Doing
    BY DEF ClipInv, TypeOK
  <2> QED
    BY <1>1, <2>1 DEF Told, Doing
<1>3. \A w \in Watcher : Fresh(w)' <=> Fresh(w)
  BY <1>1 DEF Fresh, Running, NewsFor
<1>4. (\A n : End(n)' = End(n)) /\ (\A n : Held(n)' <=> Held(n))
  BY <1>1, EndsStay DEF Held
<1>5. UniformWires'
  BY <1>1 DEF SpreadOut, Uniform, UniformWires
<1>6. UniformWatchers'
  <2>1. \A w \in Watcher : watch'[w].pc # "idle" => watch[w].pc # "idle" /\ watch'[w].data = watch[w].data
    BY <1>1, <1>2
  <2> QED
    BY <1>1, <1>3, <2>1, WatchersStayUniform DEF SpreadOut, Uniform
<1>7. ASSUME o \in Online, v = End(o)
      PROVE  (Muffled(o) => Suppressed(v)) /\ (Finding(o) => ~Suppressed(v))
             /\ (o = Server <=> v = Hub) /\ Host(v) = o
  <2>1. Host(v) = o /\ Begun(o) /\ (o = Server <=> v = Hub)
    BY <1>7, OnlineEnds, EndsApart
  <2>2. v \notin settling
    BY <1>7, <2>1 DEF Wave, SendsOnce
  <2> QED
    BY <1>1, <1>7, <2>1, <2>2 DEF Muffled, Finding, Suppressed
<1>8. Speaks(o)'
  <2> SUFFICES ASSUME Connected(o)
               PROVE  \/ Muffled(o)'
                      \/ /\ Held(o)'
                         /\ watch'[End(o)].pc # "idle" => watch'[End(o)].data.item = latest.item
    BY <1>1, <1>4 DEF Speaks, Connected
  <2>1. o \in Online /\ End(o) \in Watcher
    BY OnlineEnds DEF Online
  <2>2. \/ Muffled(o)
        \/ Held(o) /\ (watch[End(o)].pc # "idle" => watch[End(o)].data.item = latest.item)
    BY DEF SpreadOut, Speaks
  <2>3. CASE Muffled(o)
    BY <1>1, <1>3, <1>4, <1>7, <2>1, <2>3 DEF Muffled
  <2>4. CASE Held(o) /\ (watch[End(o)].pc # "idle" => watch[End(o)].data.item = latest.item)
    BY <1>1, <1>2, <1>4, <2>1, <2>4
  <2> QED
    BY <2>2, <2>3, <2>4
<1>9. ASSUME o \in Online, v # End(o) PROVE Finding(o) => Finding(o)'
  BY <1>1, <1>3, <1>4, <1>9, OnlineEnds DEF Finding
<1>10. ASSUME o \in Online, NEW n \in Online, n # o, Leaving(o, n) PROVE Leaving(o, n)'
  <2>1. CASE v = End(o)
    <3>1. ~Suppressed(v)
      BY <1>1, <1>7, <1>10, <2>1 DEF Leaving
    <3>2. CASE v = Hub
      <4>1. o = Server /\ End(n) \in open
        BY <1>7, <1>10, <2>1, <3>2, OnlineEnds
      <4> QED
        BY <1>2, <1>4, <2>1, <3>1, <3>2, <4>1 DEF Leaving
    <3>3. CASE v # Hub
      BY <1>2, <1>4, <1>7, <1>10, <2>1, <3>1, <3>3 DEF Leaving
    <3> QED
      BY <3>2, <3>3
  <2>2. CASE v # End(o)
    BY <1>1, <1>4, <1>9, <1>10, <2>2, OnlineEnds DEF Leaving
  <2> QED
    BY <2>1, <2>2
<1>11. Promised(o)'
  <2>1. \A n \in informed : n # o /\ Connected(o) /\ Coming(o, n) => Coming(o, n)'
    BY <1>1, <1>4, <1>10 DEF Coming, Relayed, Inlet, Online
  <2>2. ASSUME o \in informed, o \in Gui, OwnTelling(o) PROVE OwnTelling(o)'
    <3>1. CASE v = End(o)
      <4>1. ~Suppressed(v)
        BY <1>1, <1>7, <2>2, <3>1 DEF OwnTelling
      <4> QED
        BY <1>2, <1>4, <1>7, <2>2, <3>1, <4>1 DEF OwnTelling
    <3>2. CASE v # End(o)
      BY <1>1, <1>4, <1>9, <2>2, <3>2, OnlineEnds DEF OwnTelling
    <3> QED
      BY <3>1, <3>2
  <2>3. \A n : (Kept(n)' <=> Kept(n)) /\ (Recording(n)' <=> Recording(n))
    BY <1>1 DEF Kept, Recording
  <2> QED
    BY <1>1, <1>4, <2>1, <2>2, <2>3, PromisesStay DEF SpreadOut
<1> QED
  BY <1>5, <1>6, <1>8, <1>11 DEF SpreadOut, Uniform

\* The watcher of the server has sent to all that were connected.
LEMMA HubSentSpreads ==
  ASSUME ClipInv, PathsKept, NEW o \in Node, Wave(o),
         informed \subseteq Online, SpreadOut(o), HubSent
  PROVE  SpreadOut(o)'
<1>1. /\ watch[Hub].pc = "sending" /\ watch[Hub].to = {}
      /\ mark' = [mark EXCEPT ![Hub] = watch[Hub].data]
      /\ watch' = [watch EXCEPT ![Hub] =
                     IF Server \in Gui THEN [watch[Hub] EXCEPT !.pc = "telling"] ELSE Quiet]
      /\ UNCHANGED <<os, session, open, wire, recv, seen, missed, claimed, settling, hist, latest, informed>>
  BY DEF HubSent, netVars, lookVars, panelVars, ghostVars
<1>2. o = Server /\ End(o) = Hub /\ Hub \in Watcher /\ Connected(o)
  BY <1>1, EndsApart, Places, SenderIsOrigin DEF Connected
<1>3. /\ \A w \in Watcher : w # Hub => watch'[w] = watch[w] /\ mark'[w] = mark[w]
      /\ watch'[Hub].pc \in {"idle", "telling"} /\ (o \in Gui => watch'[Hub].pc = "telling")
      /\ watch'[Hub].pc # "idle" => watch'[Hub].data = watch[Hub].data
  <2>1. watch \in [Watcher -> Doing] /\ mark \in [Watcher -> Payload \cup {Nothing}]
    BY DEF ClipInv, TypeOK
  <2> QED
    BY <1>1, <1>2, <2>1 DEF Doing, Quiet
<1>4. \A w \in Watcher : Fresh(w)' <=> Fresh(w)
  BY <1>1 DEF Fresh, Running, NewsFor
<1>5. (\A n : End(n)' = End(n)) /\ (\A n : Held(n)' <=> Held(n))
  BY <1>1, EndsStay DEF Held
<1>6. UniformWires'
  BY <1>1 DEF SpreadOut, Uniform, UniformWires
<1>7. UniformWatchers'
  <2>1. \A w \in Watcher : watch'[w].pc # "idle" => watch[w].pc # "idle" /\ watch'[w].data = watch[w].data
    BY <1>1, <1>3
  <2> QED
    BY <1>1, <1>4, <2>1, WatchersStayUniform DEF SpreadOut, Uniform
<1>8. Speaks(o)'
  <2>1. Held(o) /\ watch[Hub].data.item = latest.item
    BY <1>1, <1>2 DEF SpreadOut, Speaks, Muffled
  <2> QED
    BY <1>1, <1>2, <1>3, <1>5, <2>1 DEF Speaks
<1>9. Promised(o)'
  <2>1. \A n : ~Leaving(o, n) /\ (Coming(o, n) => Coming(o, n)')
    BY <1>1, <1>2, <1>5 DEF Leaving, Finding, Coming, Relayed, Inlet
  <2>2. o \in Gui => OwnTelling(o)'
    BY <1>2, <1>3, <1>5 DEF OwnTelling
  <2>3. \A n : (Kept(n)' <=> Kept(n)) /\ (Recording(n)' <=> Recording(n))
    BY <1>1 DEF Kept, Recording
  <2> QED
    BY <1>1, <1>5, <2>1, <2>2, <2>3, PromisesStay DEF SpreadOut
<1> QED
  BY <1>6, <1>7, <1>8, <1>9 DEF SpreadOut, Uniform

\* Steps that leave the watcher of the origin alone leave its word alone.
LEMMA SpeaksStays ==
  ASSUME NEW o \in Node, Speaks(o), UNCHANGED <<session, open, latest>>,
         Connected(o) => /\ os'[o] = os[o] /\ watch'[End(o)] = watch[End(o)]
                         /\ mark'[End(o)] = mark[End(o)] /\ (Fresh(End(o))' => Fresh(End(o)))
  PROVE  Speaks(o)'
<1>1. (\A n : End(n)' = End(n)) /\ (Connected(o)' <=> Connected(o))
  BY EndsStay DEF Connected, End
<1>2. Connected(o) /\ Held(o) => Held(o)'
  BY DEF Held
<1>3. Connected(o) /\ Muffled(o) => Muffled(o)'
  BY <1>1 DEF Muffled
<1> QED
  BY <1>1, <1>2, <1>3 DEF Speaks

\* The watcher of a session that is over sends nowhere; the origin's sends the
\* announced item.
LEMMA WatcherSendsSpreads ==
  ASSUME ClipInv, PathsKept, NEW o \in Node, Wave(o),
         informed \subseteq Online, SpreadOut(o), NEW v \in Watcher, WatcherSends(v)
  PROVE  SpreadOut(o)'
<1>1. /\ watch[v].pc = "sending"
      /\ UNCHANGED <<os, session, open, recv, seen, missed, claimed, mark, settling, hist, latest, informed>>
  BY DEF WatcherSends, lookVars, endVars, panelVars, ghostVars
<1>2. PICK s \in watch[v].to :
        /\ Sent(IF v = Hub THEN Down(s) ELSE Up(s), watch[v].data)
        /\ watch' = [watch EXCEPT ![v] =
                       IF v = Hub THEN [watch[v] EXCEPT !.to = watch[v].to \ {s}] ELSE Quiet]
  BY DEF WatcherSends
<1>3. /\ \A w \in Watcher : w # v => watch'[w] = watch[w]
      /\ v = Hub => watch'[v] = [watch[v] EXCEPT !.to = watch[v].to \ {s}]
      /\ v # Hub => watch'[v] = Quiet
      /\ s \in Session /\ (v # Hub => s = v)
  <2>1. watch \in [Watcher -> Doing] /\ s \in Session
    BY <1>2 DEF ClipInv, TypeOK, Doing
  <2>2. v # Hub => s = v
    BY <1>2, EndsApart DEF PathsKept
  <2> QED
    BY <1>2, <2>1, <2>2
<1>4. /\ watch'[v].pc # "idle" => watch'[v].data = watch[v].data
      /\ v = Hub => watch'[v].pc = "sending" /\ watch'[v].to = watch[v].to \ {s}
      /\ v # Hub => watch'[v].pc = "idle"
  <2>1. watch[v] \in Doing
    BY DEF ClipInv, TypeOK
  <2> QED
    BY <1>1, <1>3, <2>1 DEF Doing, Quiet
<1> DEFINE r == IF v = Hub THEN Down(s) ELSE Up(s)
<1>5. /\ r \in Receiver /\ r[1] = s
      /\ wire' = IF s \in open THEN [wire EXCEPT ![r] = Append(wire[r], watch[v].data)] ELSE wire
  <2>1. r \in Receiver /\ r[1] = s
    BY <1>3, EndsApart, Places
  <2> QED
    BY <1>2, <2>1 DEF Sent
<1> HIDE DEF r
<1>6. /\ wire \in [Receiver -> Seq(Payload)] /\ watch[v].data \in Payload
      /\ \A q \in Receiver : wire[q] # <<>> => wire'[q] # <<>>
      /\ \A q \in Receiver : q # r => wire'[q] = wire[q]
      /\ s \in open => wire'[r] = Append(wire[r], watch[v].data) /\ wire'[r] # <<>>
      /\ s \notin open => wire' = wire
  <2>1. wire \in [Receiver -> Seq(Payload)] /\ watch[v].data \in Payload
    BY <1>1 DEF ClipInv, TypeOK, HandsFull
  <2>2. Append(wire[r], watch[v].data) # <<>>
    BY <1>5, <2>1
  <2> QED
    BY <1>5, <2>1, <2>2
<1>7. \A w \in Watcher : Fresh(w)' <=> Fresh(w)
  BY <1>1 DEF Fresh, Running, NewsFor
<1>8. (\A n : End(n)' = End(n)) /\ (\A n : Held(n)' <=> Held(n))
  BY <1>1, EndsStay DEF Held
<1>9. /\ v = Hub => o = Server
      /\ v # Hub /\ v = End(Host(v)) => v = End(o) /\ o # Server
      /\ v # Hub /\ s \in open => v = End(o) /\ o # Server
  <2>1. v = Hub => o = Server
    BY <1>1, EndsApart, SenderIsOrigin
  <2>2. v # Hub /\ v = End(Host(v)) => v = End(o) /\ o # Server
    BY <1>1, EndsApart, Places, SenderIsOrigin
  <2>3. v # Hub /\ s \in open => v = End(Host(v))
    BY <1>3, EndsApart
  <2> QED
    BY <2>1, <2>2, <2>3
<1>10. s \in open => /\ Connected(o) /\ v = End(o) /\ Held(o)
                     /\ watch[v].data.item = latest.item
  <2>1. s \in open => Connected(o) /\ v = End(o)
    BY <1>3, <1>9, EndsApart DEF Connected
  <2> QED
    BY <1>1, <2>1 DEF SpreadOut, Speaks, Muffled
<1>11. UniformWires'
  <2> SUFFICES ASSUME NEW q \in Receiver
               PROVE  \A i \in DOMAIN wire'[q] : wire'[q][i].item = latest.item
    BY <1>1 DEF SpreadOut, Uniform, UniformWires
  <2>1. \A i \in DOMAIN wire[q] : wire[q][i].item = latest.item
    BY DEF SpreadOut, Uniform, UniformWires
  <2>2. CASE q = r /\ s \in open
    <3>1. wire[q] \in Seq(Payload) /\ wire'[q] = Append(wire[q], watch[v].data)
      BY <1>6, <2>2
    <3>2. watch[v].data.item = latest.item
      BY <1>10, <2>2
    <3>3. \A i \in DOMAIN wire'[q] : \/ i \in DOMAIN wire[q] /\ wire'[q][i] = wire[q][i]
                                     \/ wire'[q][i] = watch[v].data
      BY <3>1
    <3> QED
      BY <2>1, <3>2, <3>3
  <2>3. CASE ~(q = r /\ s \in open)
    BY <1>6, <2>1, <2>3
  <2> QED
    BY <2>2, <2>3
<1>12. UniformWatchers'
  <2>1. \A w \in Watcher : watch'[w].pc # "idle" => watch[w].pc # "idle" /\ watch'[w].data = watch[w].data
    BY <1>1, <1>3, <1>4
  <2> QED
    BY <1>1, <1>7, <2>1, WatchersStayUniform DEF SpreadOut, Uniform
<1>13. Speaks(o)'
  <2> SUFFICES ASSUME Connected(o)
               PROVE  \/ Muffled(o)'
                      \/ /\ Held(o)'
                         /\ watch'[End(o)].pc # "idle" => watch'[End(o)].data.item = latest.item
    BY <1>1, <1>8 DEF Speaks, Connected
  <2>1. o \in Online /\ End(o) \in Watcher
    BY OnlineEnds DEF Online
  <2>2. \/ Muffled(o)
        \/ Held(o) /\ (watch[End(o)].pc # "idle" => watch[End(o)].data.item = latest.item)
    BY DEF SpreadOut, Speaks
  <2>3. CASE v = End(o)
    BY <1>1, <1>4, <1>8, <2>2, <2>3 DEF Muffled
  <2>4. CASE v # End(o)
    BY <1>1, <1>3, <1>7, <1>8, <2>1, <2>2, <2>4 DEF Muffled
  <2> QED
    BY <2>3, <2>4
<1>14. ASSUME NEW n \in informed, n # o, Connected(o), Coming(o, n) PROVE Coming(o, n)'
  <2>1. /\ n \in Online /\ o \in Online /\ End(o) \in Watcher /\ Inlet(o, n) \in Receiver
        /\ o # Server => Up(End(o)) \in Receiver /\ End(o) \in open
        /\ n # Server => End(n) \in open
    BY <1>14, OnlineEnds, InletsDiffer, Places DEF Online
  <2>2. CASE wire[Inlet(o, n)] # <<>>
    BY <1>6, <1>8, <2>1, <2>2 DEF Coming, Inlet
  <2>3. CASE Relayed(o, n)
    BY <1>1, <1>6, <1>8, <2>1, <2>3 DEF Coming, Relayed
  <2>4. CASE Leaving(o, n) /\ v # End(o)
    BY <1>1, <1>3, <1>7, <1>8, <2>1, <2>4 DEF Coming, Leaving, Finding
  <2>5. CASE Leaving(o, n) /\ v = End(o) /\ v = Hub
    <3>1. o = Server /\ n # Server /\ End(n) \in watch[v].to
      BY <1>1, <1>9, <1>14, <2>5 DEF Leaving, Finding
    <3>2. CASE s = End(n)
      <4>1. Inlet(o, n) = r
        BY <2>5, <3>1, <3>2 DEF Inlet, r
      <4>2. wire'[Inlet(o, n)] # <<>>
        BY <1>6, <2>1, <3>1, <3>2, <4>1
      <4> QED
        BY <1>8, <4>2 DEF Coming, Inlet
    <3>3. CASE s # End(n)
      BY <1>4, <1>8, <2>5, <3>1, <3>3 DEF Coming, Leaving
    <3> QED
      BY <3>2, <3>3
  <2>6. CASE Leaving(o, n) /\ v = End(o) /\ v # Hub
    <3>1. o # Server /\ s = End(o) /\ r = Up(End(o)) /\ wire'[r] # <<>>
      <4>1. s = v /\ r = Up(v) /\ o # Server
        BY <1>3, <2>6, EndsApart DEF r
      <4> QED
        BY <1>6, <2>1, <2>6, <4>1
    <3> QED
      BY <1>8, <3>1 DEF Coming, Relayed, Inlet
  <2> QED
    BY <1>14, <2>2, <2>3, <2>4, <2>5, <2>6 DEF Coming
<1>15. Promised(o)'
  <2>1. ASSUME o \in informed, OwnTelling(o) PROVE OwnTelling(o)'
    <3>1. o \in Online /\ End(o) \in Watcher
      BY <2>1, OnlineEnds
    <3>2. CASE v = End(o)
      <4>1. o = Server /\ v = Hub
        BY <1>1, <1>9, <2>1, <3>2, EndsApart DEF OwnTelling, Finding
      <4> QED
        BY <1>4, <1>8, <3>2, <4>1 DEF OwnTelling
    <3>3. CASE v # End(o)
      BY <1>1, <1>3, <1>7, <1>8, <2>1, <3>1, <3>3 DEF OwnTelling, Finding
    <3> QED
      BY <3>2, <3>3
  <2>2. \A n : (Kept(n)' <=> Kept(n)) /\ (Recording(n)' <=> Recording(n))
    BY <1>1 DEF Kept, Recording
  <2> QED
    BY <1>1, <1>8, <1>14, <2>1, <2>2, PromisesStay DEF SpreadOut
<1> QED
  BY <1>11, <1>12, <1>13, <1>15 DEF SpreadOut, Uniform

\* What is recorded becomes the newest entry.
LEMMA RecordedIsKept ==
  ASSUME ClipInv, NEW m \in Node, NEW data \in Payload, Recorded(m, data), UNCHANGED latest
  PROVE  /\ data.item = latest.item => Kept(m)'
         /\ \A n \in Node : n # m => (Kept(n)' <=> Kept(n))
<1>1. hist \in [Node -> History] /\ hist' = [hist EXCEPT ![m] = Add(hist[m], data)]
  BY DEF Recorded, ClipInv, TypeOK, History
<1>2. /\ hist[m] \in History /\ hist'[m] = Add(hist[m], data)
      /\ \A n \in Node : n # m => hist'[n] = hist[n]
  BY <1>1
<1> QED
  BY <1>2, AddedIsLast DEF Kept

LEMMA WatcherTellsSpreads ==
  ASSUME ClipInv, PathsKept, NEW o \in Node, Wave(o),
         informed \subseteq Online, SpreadOut(o), NEW v \in Watcher, WatcherTells(v)
  PROVE  SpreadOut(o)'
<1>1. /\ watch[v].pc = "telling" /\ Recorded(Host(v), watch[v].data)
      /\ watch' = [watch EXCEPT ![v] = IF v = Hub THEN Quiet ELSE [watch[v] EXCEPT !.pc = "sending"]]
      /\ UNCHANGED <<os, session, open, wire, recv, seen, missed, claimed, mark, settling, latest, informed>>
  BY DEF WatcherTells, netVars, lookVars, endVars, ghostVars
<1>2. /\ \A w \in Watcher : w # v => watch'[w] = watch[w]
      /\ v = Hub => watch'[v].pc = "idle"
      /\ v # Hub => watch'[v].pc = "sending" /\ watch'[v].data = watch[v].data
  <2>1. watch \in [Watcher -> Doing]
    BY DEF ClipInv, TypeOK
  <2> QED
    BY <1>1, <2>1 DEF Doing, Quiet
<1>3. \A w \in Watcher : Fresh(w)' <=> Fresh(w)
  BY <1>1 DEF Fresh, Running, NewsFor
<1>4. (\A n : End(n)' = End(n)) /\ (\A n : Held(n)' <=> Held(n))
  BY <1>1, EndsStay DEF Held
<1>5. UniformWires'
  BY <1>1 DEF SpreadOut, Uniform, UniformWires
<1>6. UniformWatchers'
  <2>1. \A w \in Watcher : watch'[w].pc # "idle" => watch[w].pc # "idle" /\ watch'[w].data = watch[w].data
    BY <1>1, <1>2
  <2> QED
    BY <1>1, <1>3, <2>1, WatchersStayUniform DEF SpreadOut, Uniform
<1>7. Speaks(o)'
  <2> SUFFICES ASSUME Connected(o)
               PROVE  \/ Muffled(o)'
                      \/ /\ Held(o)'
                         /\ watch'[End(o)].pc # "idle" => watch'[End(o)].data.item = latest.item
    BY <1>1, <1>4 DEF Speaks, Connected
  <2>1. o \in Online /\ End(o) \in Watcher
    BY OnlineEnds DEF Online
  <2>2. \/ Muffled(o)
        \/ Held(o) /\ (watch[End(o)].pc # "idle" => watch[End(o)].data.item = latest.item)
    BY DEF SpreadOut, Speaks
  <2>3. CASE v = End(o)
    BY <1>1, <1>2, <1>4, <2>2, <2>3 DEF Muffled
  <2>4. CASE v # End(o)
    BY <1>1, <1>2, <1>3, <1>4, <2>1, <2>2, <2>4 DEF Muffled
  <2> QED
    BY <2>3, <2>4
<1>8. ASSUME NEW n \in informed PROVE Kept(n) \/ n = Host(v) => Kept(n)'
  <2>1. Host(v) \in Node /\ watch[v].data \in Payload /\ n \in Node
    BY <1>1, <1>8, Places, OnlineEnds DEF ClipInv, HandsFull
  <2>2. n = Host(v) => watch[v].data.item = latest.item
    BY <1>1, <1>8 DEF SpreadOut, Uniform, UniformWatchers
  <2> QED
    BY <1>1, <2>1, <2>2, RecordedIsKept
<1>9. ASSUME NEW n \in informed, Connected(o), Coming(o, n) PROVE Coming(o, n)'
  <2>1. End(o) \in Watcher /\ (o # Server <=> End(o) # Hub)
    BY <1>9, OnlineEnds, EndsApart DEF Online
  <2>2. Leaving(o, n) => Leaving(o, n)'
    <3>1. CASE v = End(o)
      BY <1>1, <1>2, <1>4, <2>1, <3>1 DEF Leaving, Finding
    <3>2. CASE v # End(o)
      BY <1>1, <1>2, <1>3, <1>4, <2>1, <3>2 DEF Leaving, Finding
    <3> QED
      BY <3>1, <3>2
  <2> QED
    BY <1>1, <1>4, <1>9, <2>2 DEF Coming, Relayed, Inlet
<1>10. Promised(o)'
  <2>1. ASSUME o \in informed, OwnTelling(o) PROVE Kept(o)' \/ OwnTelling(o)'
    <3>1. o \in Online /\ End(o) \in Watcher /\ Host(End(o)) = o
      BY <2>1, OnlineEnds
    <3>2. CASE v = End(o)
      BY <1>8, <2>1, <3>1, <3>2
    <3>3. CASE v # End(o)
      BY <1>1, <1>2, <1>3, <1>4, <2>1, <3>1, <3>3 DEF OwnTelling, Finding
    <3> QED
      BY <3>2, <3>3
  <2>2. \A n : Recording(n)' <=> Recording(n)
    BY <1>1 DEF Recording
  <2> QED
    BY <1>1, <1>4, <1>8, <1>9, <2>1, <2>2, PromisesStay DEF SpreadOut
<1> QED
  BY <1>5, <1>6, <1>7, <1>10 DEF SpreadOut, Uniform

\* What a receiver takes off its wire is the announced item.
LEMMA TakenIsUniform ==
  ASSUME ClipInv, UniformWires, NEW r \in Receiver, wire[r] # <<>>,
         wire' = [wire EXCEPT ![r] = Tail(wire[r])], UNCHANGED latest,
         \A q \in Receiver : q # r => recv'[q] = recv[q],
         recv'[r].pc # "idle" => recv'[r].data = Head(wire[r])
  PROVE  UniformWires' /\ Head(wire[r]).item = latest.item /\ Head(wire[r]) \in Payload
<1>1. /\ wire \in [Receiver -> Seq(Payload)] /\ wire[r] \in Seq(Payload)
      /\ \A q \in Receiver : wire'[q] = IF q = r THEN Tail(wire[r]) ELSE wire[q]
  BY DEF ClipInv, TypeOK
<1>2. Head(wire[r]) = wire[r][1] /\ 1 \in DOMAIN wire[r] /\ Head(wire[r]) \in Payload
  BY <1>1
<1>3. Head(wire[r]).item = latest.item
  BY <1>2 DEF UniformWires
<1>4. \A i \in DOMAIN Tail(wire[r]) : i + 1 \in DOMAIN wire[r] /\ Tail(wire[r])[i] = wire[r][i + 1]
  BY <1>1
<1>5. \A i \in DOMAIN Tail(wire[r]) : Tail(wire[r])[i].item = latest.item
  BY <1>4 DEF UniformWires
<1> SUFFICES ASSUME NEW q \in Receiver
             PROVE  /\ \A i \in DOMAIN wire'[q] : wire'[q][i].item = latest.item
                    /\ recv'[q].pc # "idle" => recv'[q].data.item = latest.item
  BY <1>2, <1>3 DEF UniformWires
<1>6. CASE q = r
  BY <1>1, <1>3, <1>5, <1>6
<1>7. CASE q # r
  BY <1>1, <1>7 DEF UniformWires
<1> QED
  BY <1>6, <1>7

\* Where nothing is written a watcher finds what it found before.
LEMMA FreshElsewhere ==
  ASSUME NEW w \in Watcher, UNCHANGED <<session, seen, claimed>>,
         os'[Host(w)] = os[Host(w)], w \in missed <=> w \in missed'
  PROVE  Fresh(w)' <=> Fresh(w)
BY DEF Fresh, Running, NewsFor

LEMMA ApplySpreads ==
  ASSUME ClipInv, PathsKept, NEW o \in Node, Wave(o),
         informed \subseteq Online, SpreadOut(o), NEW r \in Receiver, Apply(r)
  PROVE  SpreadOut(o)'
<1> DEFINE m == PlaceOf(r)
           d == Head(wire[r])
<1>1. /\ recv[r].pc = "idle" /\ wire[r] # <<>>
      /\ os' = [os EXCEPT ![m] = d]
      /\ missed' = {w \in missed : Host(w) # m}
      /\ wire' = [wire EXCEPT ![r] = Tail(wire[r])]
      /\ recv' = [recv EXCEPT ![r] = [pc |-> "written", data |-> d, to |-> {}]]
      /\ UNCHANGED <<session, open, watch, seen, claimed, mark, settling, hist, latest, informed>>
  BY DEF Apply, Taken, Written, ghostVars, endVars, panelVars
<1>2. /\ m \in Node \ {o} /\ r = Inlet(o, m)
      /\ r = Up(End(o)) => m = Server
  BY <1>1, InletAtWork
<1>3. /\ \A q \in Receiver : q # r => recv'[q] = recv[q] /\ wire'[q] = wire[q]
      /\ recv'[r] = [pc |-> "written", data |-> d, to |-> {}]
      /\ \A n \in Node : n # m => os'[n] = os[n]
      /\ os'[m] = d
  BY <1>1, <1>2 DEF ClipInv, TypeOK
<1>4. UniformWires' /\ d.item = latest.item /\ d \in Payload
  <2>1. recv'[r].data = d /\ UniformWires
    BY <1>3 DEF SpreadOut, Uniform
  <2> QED
    BY <1>1, <1>3, <2>1, TakenIsUniform
<1>5. PlaceOf(r) = m
  OBVIOUS
<1> HIDE DEF m, d
<1>6. \A w \in Watcher : Host(w) # m => (Fresh(w)' <=> Fresh(w))
  BY <1>1, <1>3, Places, FreshElsewhere
<1>7. /\ \A n : End(n)' = End(n)
      /\ Held(m)' /\ \A n \in Node : n # m => (Held(n)' <=> Held(n))
  BY <1>1, <1>3, <1>4, EndsStay, ClipboardAssumption DEF Held, Holds
<1>8. UniformWatchers'
  <2> SUFFICES ASSUME NEW w \in Watcher, Host(w) \in informed
               PROVE  /\ Fresh(w)' => Held(Host(w))'
                      /\ watch[w].pc # "idle" => watch[w].data.item = latest.item
    BY <1>1 DEF UniformWatchers
  <2>1. /\ Fresh(w) => Held(Host(w))
        /\ watch[w].pc # "idle" => watch[w].data.item = latest.item
    BY DEF SpreadOut, Uniform, UniformWatchers
  <2> QED
    BY <1>6, <1>7, <2>1, Places
<1>9. Connected(o) => End(o) \in Watcher /\ (Fresh(End(o))' <=> Fresh(End(o)))
  BY <1>2, <1>6, <1>7, OnlineEnds DEF Online
<1>10. Speaks(o)'
  BY <1>1, <1>2, <1>3, <1>9, SpeaksStays DEF SpreadOut
<1>11. ASSUME NEW n \in informed, n # o, n # m, Connected(o), Coming(o, n) PROVE Coming(o, n)'
  <2>1. /\ n \in Online /\ Inlet(o, n) \in Receiver /\ PlaceOf(Inlet(o, n)) = n
        /\ o # Server => Up(End(o)) \in Receiver
    BY <1>11, OnlineEnds, InletsDiffer, Places DEF Online
  <2>2. CASE wire[Inlet(o, n)] # <<>>
    BY <1>3, <1>5, <1>7, <1>11, <2>1, <2>2 DEF Coming, Inlet
  <2>3. CASE Leaving(o, n)
    BY <1>1, <1>2, <1>3, <1>7, <1>9, <1>11, <2>3 DEF Coming, Leaving, Finding
  <2>4. CASE Relayed(o, n)
    <3>1. CASE r = Up(End(o))
      BY <1>3, <1>7, <2>4, <3>1 DEF Coming, Relayed
    <3>2. CASE r # Up(End(o))
      BY <1>3, <1>7, <2>1, <2>4, <3>2 DEF Coming, Relayed
    <3> QED
      BY <3>1, <3>2
  <2> QED
    BY <1>11, <2>2, <2>3, <2>4 DEF Coming
<1>12. Promised(o)'
  <2>1. ASSUME o \in informed, OwnTelling(o) PROVE OwnTelling(o)'
    BY <1>1, <1>2, <1>3, <1>7, <1>9, <2>1 DEF OwnTelling, Finding, Online
  <2>2. Recording(m)'
    BY <1>3, <1>5 DEF Recording
  <2>3. \A n : Kept(n)' <=> Kept(n)
    BY <1>1 DEF Kept
  <2>4. \A n : Recording(n) => Recording(n)'
    BY <1>1, <1>3 DEF Recording
  <2>5. \A n \in informed : n \in Node
    BY DEF Online
  <2> QED
    BY <1>1, <1>7, <1>11, <2>1, <2>2, <2>3, <2>4, <2>5, PromisesStay DEF SpreadOut
<1> QED
  BY <1>4, <1>8, <1>10, <1>12 DEF SpreadOut, Uniform

\* A machine that fails to apply is promised nothing any more; the others are.
LEMMA ApplyFailsSpreads ==
  ASSUME ClipInv, PathsKept, NEW o \in Node, Wave(o),
         informed \subseteq Online, SpreadOut(o), NEW r \in Receiver, ApplyFails(r)
  PROVE  SpreadOut(o)'
<1> DEFINE m == PlaceOf(r)
           d == Head(wire[r])
<1>1. /\ recv[r].pc = "idle" /\ wire[r] # <<>>
      /\ \/ UNCHANGED <<os, missed>>
         \/ os' = [os EXCEPT ![m] = Nothing] /\ missed' = {w \in missed : Host(w) # m}
      /\ wire' = [wire EXCEPT ![r] = Tail(wire[r])]
      /\ recv' = [recv EXCEPT ![r] = Passing(d, Others(r))]
      /\ informed' = informed \ {m}
      /\ UNCHANGED <<session, open, watch, seen, claimed, mark, settling, hist, latest>>
  BY DEF ApplyFails, Taken, Written, endVars, panelVars
<1>2. /\ m \in Node \ {o} /\ r = Inlet(o, m)
      /\ r = Up(End(o)) => m = Server /\ Others(r) = open \ {End(o)}
  BY <1>1, InletAtWork
<1>3. /\ \A q \in Receiver : q # r => recv'[q] = recv[q] /\ wire'[q] = wire[q]
      /\ recv'[r] = Passing(d, Others(r))
      /\ \A n \in Node : n # m => os'[n] = os[n]
  BY <1>1, <1>2 DEF ClipInv, TypeOK
<1>4. /\ recv'[r].pc # "idle" => recv'[r].data = d
      /\ Others(r) # {} => recv'[r].pc = "passing" /\ recv'[r].to = Others(r)
      /\ recv'[r].pc \notin {"written", "telling"}
  BY <1>3 DEF Passing, Quiet
<1>5. UniformWires'
  <2>1. UniformWires
    BY DEF SpreadOut, Uniform
  <2> QED
    BY <1>1, <1>3, <1>4, <2>1, TakenIsUniform
<1>6. PlaceOf(r) = m
  OBVIOUS
<1> HIDE DEF m, d
<1>7. \A w \in Watcher : Host(w) # m => (Fresh(w)' <=> Fresh(w))
  BY <1>1, <1>3, Places, FreshElsewhere
<1>8. /\ \A n : End(n)' = End(n)
      /\ \A n \in Node : n # m => (Held(n)' <=> Held(n))
  BY <1>1, <1>3, EndsStay DEF Held
<1>9. UniformWatchers'
  <2> SUFFICES ASSUME NEW w \in Watcher, Host(w) \in informed, Host(w) # m
               PROVE  /\ Fresh(w)' => Held(Host(w))'
                      /\ watch[w].pc # "idle" => watch[w].data.item = latest.item
    BY <1>1 DEF UniformWatchers
  <2>1. /\ Fresh(w) => Held(Host(w))
        /\ watch[w].pc # "idle" => watch[w].data.item = latest.item
    BY DEF SpreadOut, Uniform, UniformWatchers
  <2> QED
    BY <1>7, <1>8, <2>1, Places
<1>10. Connected(o) => End(o) \in Watcher /\ (Fresh(End(o))' <=> Fresh(End(o)))
  BY <1>2, <1>7, <1>8, OnlineEnds DEF Online
<1>11. Speaks(o)'
  BY <1>1, <1>2, <1>3, <1>10, SpeaksStays DEF SpreadOut
<1>12. ASSUME NEW n \in informed, n # o, n # m, Connected(o), Coming(o, n) PROVE Coming(o, n)'
  <2>1. /\ n \in Online /\ Inlet(o, n) \in Receiver /\ PlaceOf(Inlet(o, n)) = n
        /\ o # Server => Up(End(o)) \in Receiver
        /\ n # Server => End(n) \in open /\ End(n) # End(o)
    BY <1>12, OnlineEnds, InletsDiffer, EndsDiffer, Places DEF Online
  <2>2. CASE wire[Inlet(o, n)] # <<>>
    BY <1>3, <1>6, <1>8, <1>12, <2>1, <2>2 DEF Coming, Inlet
  <2>3. CASE Leaving(o, n)
    BY <1>1, <1>2, <1>3, <1>8, <1>10, <1>12, <2>3 DEF Coming, Leaving, Finding
  <2>4. CASE Relayed(o, n)
    <3>1. CASE r = Up(End(o))
      <4>1. n # Server /\ o # Server /\ End(n) \in Others(r)
        BY <1>2, <2>1, <2>4, <3>1 DEF Relayed
      <4> QED
        BY <1>4, <1>8, <3>1, <4>1 DEF Coming, Relayed
    <3>2. CASE r # Up(End(o))
      BY <1>3, <1>8, <2>1, <2>4, <3>2 DEF Coming, Relayed
    <3> QED
      BY <3>1, <3>2
  <2> QED
    BY <1>12, <2>2, <2>3, <2>4 DEF Coming
<1>13. Promised(o)'
  <2>1. ASSUME o \in informed, OwnTelling(o) PROVE OwnTelling(o)'
    BY <1>1, <1>2, <1>3, <1>8, <1>10, <2>1 DEF OwnTelling, Finding, Online
  <2>2. \A n : Kept(n)' <=> Kept(n)
    BY <1>1 DEF Kept
  <2>3. \A n : Recording(n) => Recording(n)'
    BY <1>1, <1>3 DEF Recording
  <2>4. \A n \in informed' : n \in informed /\ n \in Node /\ n # m
    BY <1>1 DEF Online
  <2> QED
    BY <1>1, <1>8, <1>12, <2>1, <2>2, <2>3, <2>4, PromisesStay DEF SpreadOut
<1> QED
  BY <1>5, <1>9, <1>11, <1>13 DEF SpreadOut, Uniform

\* A receiver that has applied the item goes on: it tells its panel, and the
\* handler of the origin turns to all the others.
LEMMA ReceiverGoesOnSpreads ==
  ASSUME ClipInv, PathsKept, NEW o \in Node, Wave(o),
         informed \subseteq Online, SpreadOut(o), NEW r \in Receiver,
         recv[r].pc \in {"written", "telling"},
         UNCHANGED <<os, session, open, wire, watch, seen, missed, claimed, latest, informed>>,
         \A q \in Receiver : q # r => recv'[q] = recv[q],
         \/ recv'[r].pc = "telling" /\ recv'[r].data = recv[r].data
         \/ recv'[r] = Passing(recv[r].data, Others(r)),
         Connected(o) => mark'[End(o)] = mark[End(o)],
         \A n \in informed : Kept(n) => Kept(n)',
         PlaceOf(r) \in informed \cap Gui => Kept(PlaceOf(r))' \/ recv'[r].pc = "telling"
  PROVE  SpreadOut(o)'
<1>1. r = Up(End(o)) => Others(r) = open \ {End(o)}
  BY InletAtWork
<1>2. /\ recv'[r].pc # "idle" => recv'[r].data = recv[r].data
      /\ recv'[r].pc # "telling" /\ Others(r) # {} => recv'[r].pc = "passing" /\ recv'[r].to = Others(r)
  BY DEF Passing, Quiet
<1>3. \A w \in Watcher : Fresh(w)' <=> Fresh(w)
  BY DEF Fresh, Running, NewsFor
<1>4. (\A n : End(n)' = End(n)) /\ (\A n : Held(n)' <=> Held(n))
  BY EndsStay DEF Held
<1>5. UniformWires'
  <2> SUFFICES ASSUME NEW q \in Receiver
               PROVE  /\ \A i \in DOMAIN wire[q] : wire[q][i].item = latest.item
                      /\ recv'[q].pc # "idle" => recv'[q].data.item = latest.item
    BY DEF UniformWires
  <2>1. /\ \A i \in DOMAIN wire[q] : wire[q][i].item = latest.item
        /\ recv[q].pc # "idle" => recv[q].data.item = latest.item
    BY DEF SpreadOut, Uniform, UniformWires
  <2>2. recv[r].data.item = latest.item
    BY DEF SpreadOut, Uniform, UniformWires
  <2> QED
    BY <1>2, <2>1, <2>2
<1>6. UniformWatchers'
  BY <1>3, WatchersStayUniform DEF SpreadOut, Uniform
<1>7. Connected(o) => End(o) \in Watcher /\ (Fresh(End(o))' <=> Fresh(End(o)))
  BY <1>3, <1>4, OnlineEnds DEF Online
<1>8. Speaks(o)'
  BY <1>7, SpeaksStays DEF SpreadOut
<1>9. ASSUME NEW n \in informed, n # o, Connected(o), Coming(o, n) PROVE Coming(o, n)'
  <2>1. /\ o # Server => Up(End(o)) \in Receiver
        /\ n # Server => End(n) \in open /\ End(n) # End(o)
    BY <1>9, OnlineEnds, EndsDiffer, Places DEF Online
  <2>2. CASE wire[Inlet(o, n)] # <<>>
    BY <1>4, <2>2 DEF Coming, Inlet
  <2>3. CASE Leaving(o, n)
    BY <1>3, <1>4, <1>7, <1>9, <2>3 DEF Coming, Leaving, Finding
  <2>4. CASE Relayed(o, n)
    <3>1. CASE r = Up(End(o))
      <4>1. n # Server /\ o # Server /\ End(n) \in Others(r)
        BY <1>1, <2>1, <2>4, <3>1 DEF Relayed
      <4> QED
        BY <1>2, <1>4, <3>1, <4>1 DEF Coming, Relayed
    <3>2. CASE r # Up(End(o))
      BY <1>4, <2>1, <2>4, <3>2 DEF Coming, Relayed
    <3> QED
      BY <3>1, <3>2
  <2> QED
    BY <1>9, <2>2, <2>3, <2>4 DEF Coming
<1>10. Promised(o)'
  <2>1. ASSUME o \in informed, OwnTelling(o) PROVE OwnTelling(o)'
    BY <1>3, <1>4, <1>7, <2>1 DEF OwnTelling, Finding, Online
  <2>2. ASSUME NEW n \in informed, n \in Gui, Recording(n) PROVE Kept(n)' \/ Recording(n)'
    <3>1. CASE PlaceOf(r) = n
      BY <2>2, <3>1 DEF Recording
    <3>2. CASE PlaceOf(r) # n
      BY <2>2, <3>2 DEF Recording
    <3> QED
      BY <3>1, <3>2
  <2> QED
    BY <1>4, <1>9, <2>1, <2>2, PromisesStay DEF SpreadOut
<1> QED
  BY <1>5, <1>6, <1>8, <1>10 DEF SpreadOut, Uniform

LEMMA NoteSpreads ==
  ASSUME ClipInv, PathsKept, NEW o \in Node, Wave(o),
         informed \subseteq Online, SpreadOut(o), NEW r \in Receiver, Note(r)
  PROVE  SpreadOut(o)'
<1>1. /\ recv[r].pc = "written"
      /\ mark' = [mark EXCEPT ![EndOf(r)] = recv[r].data]
      /\ recv' = [recv EXCEPT ![r] =
                    IF PlaceOf(r) \in Gui THEN [recv[r] EXCEPT !.pc = "telling"]
                                          ELSE Passing(recv[r].data, Others(r))]
      /\ UNCHANGED <<os, session, open, wire, watch, seen, missed, claimed, hist, latest, informed>>
  BY DEF Note, netVars, watchVars, lookVars, panelVars
<1>2. PlaceOf(r) \in Node \ {o} /\ EndOf(r) = End(PlaceOf(r))
  BY <1>1, InletAtWork
<1>3. /\ \A q \in Receiver : q # r => recv'[q] = recv[q]
      /\ PlaceOf(r) \in Gui => recv'[r].pc = "telling" /\ recv'[r].data = recv[r].data
      /\ PlaceOf(r) \notin Gui => recv'[r] = Passing(recv[r].data, Others(r))
  <2>1. recv \in [Receiver -> Doing]
    BY DEF ClipInv, TypeOK
  <2> QED
    BY <1>1, <2>1 DEF Doing
<1>4. Connected(o) => mark'[End(o)] = mark[End(o)]
  <2>1. Connected(o) => End(o) \in Watcher /\ End(o) # EndOf(r)
    BY <1>2, OnlineEnds, EndsDiffer DEF Online
  <2> QED
    BY <1>1, <2>1 DEF ClipInv, TypeOK
<1>5. \A n : Kept(n) => Kept(n)'
  BY <1>1 DEF Kept
<1> QED
  BY <1>1, <1>3, <1>4, <1>5, ReceiverGoesOnSpreads

LEMMA ReceiverTellsSpreads ==
  ASSUME ClipInv, PathsKept, NEW o \in Node, Wave(o),
         informed \subseteq Online, SpreadOut(o), NEW r \in Receiver, ReceiverTells(r)
  PROVE  SpreadOut(o)'
<1>1. /\ recv[r].pc = "telling" /\ Recorded(PlaceOf(r), recv[r].data)
      /\ recv' = [recv EXCEPT ![r] = Passing(recv[r].data, Others(r))]
      /\ UNCHANGED <<os, session, open, wire, watch, seen, missed, claimed, mark, latest, informed>>
  BY DEF ReceiverTells, netVars, watchVars, lookVars, endVars, ghostVars
<1>2. PlaceOf(r) \in Node /\ recv[r].data \in Payload
  BY <1>1, InletAtWork DEF ClipInv, HandsFull
<1>3. /\ \A q \in Receiver : q # r => recv'[q] = recv[q]
      /\ recv'[r] = Passing(recv[r].data, Others(r))
  BY <1>1 DEF ClipInv, TypeOK
<1>4. recv[r].data.item = latest.item
  BY <1>1 DEF SpreadOut, Uniform, UniformWires
<1>5. Kept(PlaceOf(r))' /\ \A n \in Node : Kept(n) => Kept(n)'
  BY <1>1, <1>2, <1>4, RecordedIsKept
<1>6. \A n \in informed : n \in Node
  BY DEF Online
<1> QED
  BY <1>1, <1>3, <1>5, <1>6, ReceiverGoesOnSpreads

\* What the handler of the origin passes on is the announced item.
LEMMA PassOnSpreads ==
  ASSUME ClipInv, PathsKept, NEW o \in Node, Wave(o),
         informed \subseteq Online, SpreadOut(o), NEW r \in Receiver, PassOn(r)
  PROVE  SpreadOut(o)'
<1>1. /\ recv[r].pc = "passing"
      /\ UNCHANGED <<os, session, open, watch, seen, missed, claimed, mark, hist, latest, informed>>
  BY DEF PassOn, ghostVars, watchVars, lookVars, endVars, panelVars
<1>2. PICK s \in recv[r].to :
        /\ Sent(Down(s), recv[r].data)
        /\ recv' = [recv EXCEPT ![r] = Passing(recv[r].data, recv[r].to \ {s})]
  BY DEF PassOn
<1>3. /\ \A q \in Receiver : q # r => recv'[q] = recv[q]
      /\ recv'[r].pc # "idle" => recv'[r].data = recv[r].data
      /\ recv[r].to \ {s} # {} => recv'[r].pc = "passing" /\ recv'[r].to = recv[r].to \ {s}
      /\ recv'[r].pc \notin {"written", "telling"}
  BY <1>2 DEF ClipInv, TypeOK, Passing, Quiet
<1>4. s \in Session /\ Down(s) \in Receiver /\ Down(s)[1] = s
  BY <1>2, EndsApart, Places DEF ClipInv, TypeOK, Doing
<1> DEFINE d == recv[r].data
<1>5. /\ d \in Payload /\ d.item = latest.item
      /\ wire' = IF s \in open THEN [wire EXCEPT ![Down(s)] = Append(wire[Down(s)], d)] ELSE wire
      /\ recv'[r].pc # "idle" => recv'[r].data = d
  BY <1>1, <1>2, <1>3, <1>4 DEF Sent, ClipInv, HandsFull, SpreadOut, Uniform, UniformWires
<1> HIDE DEF d
<1>6. /\ wire \in [Receiver -> Seq(Payload)]
      /\ \A q \in Receiver : q # Down(s) => wire'[q] = wire[q]
      /\ s \in open => wire'[Down(s)] = Append(wire[Down(s)], d) /\ wire'[Down(s)] # <<>>
      /\ s \notin open => wire' = wire
  <2>1. wire \in [Receiver -> Seq(Payload)]
    BY DEF ClipInv, TypeOK
  <2>2. wire[Down(s)] \in Seq(Payload) /\ Append(wire[Down(s)], d) # <<>>
    <3>1. \A q \in Seq(Payload) : Append(q, d) # <<>>
      BY <1>5
    <3>2. wire[Down(s)] \in Seq(Payload)
      BY <1>4, <2>1
    <3> QED
      BY <3>1, <3>2
  <2> QED
    BY <1>4, <1>5, <2>1, <2>2
<1>7. \A q \in Receiver : wire[q] # <<>> => wire'[q] # <<>>
  BY <1>6
<1>8. \A w \in Watcher : Fresh(w)' <=> Fresh(w)
  BY <1>1 DEF Fresh, Running, NewsFor
<1>9. (\A n : End(n)' = End(n)) /\ (\A n : Held(n)' <=> Held(n))
  BY <1>1, EndsStay DEF Held
<1>10. UniformWires'
  <2> SUFFICES ASSUME NEW q \in Receiver
               PROVE  /\ \A i \in DOMAIN wire'[q] : wire'[q][i].item = latest.item
                      /\ recv'[q].pc # "idle" => recv'[q].data.item = latest.item
    BY <1>1 DEF UniformWires
  <2>1. /\ \A i \in DOMAIN wire[q] : wire[q][i].item = latest.item
        /\ recv[q].pc # "idle" => recv[q].data.item = latest.item
    BY DEF SpreadOut, Uniform, UniformWires
  <2>2. recv'[q].pc # "idle" => recv'[q].data.item = latest.item
    BY <1>3, <1>5, <2>1
  <2>3. CASE q = Down(s) /\ s \in open
    <3>1. wire[q] \in Seq(Payload) /\ wire'[q] = Append(wire[q], d)
      BY <1>6, <2>3
    <3>2. \A i \in DOMAIN wire'[q] : \/ i \in DOMAIN wire[q] /\ wire'[q][i] = wire[q][i]
                                     \/ wire'[q][i] = d
      BY <3>1
    <3> QED
      BY <1>5, <2>1, <2>2, <3>2
  <2>4. CASE ~(q = Down(s) /\ s \in open)
    <3>1. wire'[q] = wire[q]
      BY <1>6, <2>4
    <3> QED
      BY <2>1, <2>2, <3>1
  <2> QED
    BY <2>3, <2>4
<1>11. UniformWatchers'
  BY <1>1, <1>8, WatchersStayUniform DEF SpreadOut, Uniform
<1>12. Connected(o) => End(o) \in Watcher /\ (Fresh(End(o))' <=> Fresh(End(o)))
  BY <1>8, <1>9, OnlineEnds DEF Online
<1>13. Speaks(o)'
  BY <1>1, <1>12, SpeaksStays DEF SpreadOut
<1>14. ASSUME NEW n \in informed, n # o, Connected(o), Coming(o, n) PROVE Coming(o, n)'
  <2>1. /\ Inlet(o, n) \in Receiver
        /\ o # Server => Up(End(o)) \in Receiver
        /\ n # Server => End(n) \in open
    BY <1>14, OnlineEnds, InletsDiffer, Places DEF Online
  <2>2. CASE wire[Inlet(o, n)] # <<>>
    BY <1>7, <1>9, <2>1, <2>2 DEF Coming, Inlet
  <2>3. CASE Leaving(o, n)
    BY <1>1, <1>8, <1>9, <1>12, <1>14, <2>3 DEF Coming, Leaving, Finding
  <2>4. CASE Relayed(o, n) /\ r # Up(End(o))
    BY <1>3, <1>7, <1>9, <2>1, <2>4 DEF Coming, Relayed
  <2>5. CASE Relayed(o, n) /\ r = Up(End(o)) /\ wire[r] # <<>>
    BY <1>7, <1>9, <2>5 DEF Coming, Relayed
  <2>6. CASE Relayed(o, n) /\ r = Up(End(o)) /\ wire[r] = <<>>
    <3>1. n # Server /\ o # Server /\ End(n) \in recv[r].to
      BY <1>1, <2>6 DEF Relayed
    <3>2. CASE s = End(n)
      <4>1. wire'[Down(End(n))] # <<>>
        BY <1>6, <2>1, <3>1, <3>2
      <4> QED
        BY <1>9, <3>1, <4>1 DEF Coming, Inlet
    <3>3. CASE s # End(n)
      BY <1>3, <1>9, <2>6, <3>1, <3>3 DEF Coming, Relayed
    <3> QED
      BY <3>2, <3>3
  <2> QED
    BY <1>14, <2>2, <2>3, <2>4, <2>5, <2>6 DEF Coming
<1>15. Promised(o)'
  <2>1. ASSUME o \in informed, OwnTelling(o) PROVE OwnTelling(o)'
    BY <1>1, <1>8, <1>9, <1>12, <2>1 DEF OwnTelling, Finding, Online
  <2>2. \A n : Kept(n)' <=> Kept(n)
    BY <1>1 DEF Kept
  <2>3. \A n : Recording(n) => Recording(n)'
    BY <1>1, <1>3 DEF Recording
  <2> QED
    BY <1>1, <1>9, <1>14, <2>1, <2>2, <2>3, PromisesStay DEF SpreadOut
<1> QED
  BY <1>10, <1>11, <1>13, <1>15 DEF SpreadOut, Uniform

\* Steps that leave clipboards, ends and what is under way alone.
LEMMA StillSpreads ==
  ASSUME NEW o \in Node, SpreadOut(o),
         UNCHANGED <<os, session, open, wire, recv, watch, seen, missed, claimed, mark, latest, informed>>,
         \A n \in informed : Kept(n) => Kept(n)'
  PROVE  SpreadOut(o)'
<1>1. \A w : Fresh(w)' <=> Fresh(w)
  BY DEF Fresh, Running, NewsFor
<1>2. (\A n : End(n)' = End(n)) /\ (\A n : Held(n)' <=> Held(n))
  BY EndsStay DEF Held
<1>3. UniformWires' /\ UniformWatchers'
  BY <1>1, WatchersStayUniform DEF SpreadOut, Uniform, UniformWires
<1>4. Fresh(End(o))' <=> Fresh(End(o))
  BY <1>1, <1>2
<1>5. Speaks(o)'
  BY <1>4, SpeaksStays DEF SpreadOut
<1>6. Finding(o) => Finding(o)'
  BY <1>2, <1>4 DEF Finding
<1>7. \A n : Coming(o, n) => Coming(o, n)'
  BY <1>2, <1>6 DEF Coming, Leaving, Relayed, Inlet
<1>8. (OwnTelling(o) => OwnTelling(o)') /\ \A n : Recording(n) => Recording(n)'
  BY <1>2, <1>6 DEF OwnTelling, Recording
<1>9. Promised(o)'
  BY <1>2, <1>7, <1>8, PromisesStay DEF SpreadOut
<1> QED
  BY <1>3, <1>5, <1>9 DEF SpreadOut, Uniform

\* A history that was cleared has no newest entry to be wrong.
LEMMA ClearSpreads ==
  ASSUME ClipInv, NEW o \in Node, SpreadOut(o), informed \subseteq Online,
         NEW n \in Node, ClearHistory(n)
  PROVE  SpreadOut(o)'
<1>1. /\ hist' = [hist EXCEPT ![n] = Clear(hist[n])]
      /\ UNCHANGED <<os, session, open, wire, recv, watch, seen, missed, claimed, mark, latest, informed>>
  BY DEF ClearHistory, netVars, watchVars, lookVars, endVars
<1>2. hist'[n].items = <<>> /\ \A m \in Node : m # n => hist'[m] = hist[m]
  BY <1>1 DEF ClipInv, TypeOK, Clear
<1>3. \A m \in informed : Kept(m) => Kept(m)'
  BY <1>1, <1>2 DEF Kept, Online
<1> QED
  BY <1>1, <1>3, StillSpreads

\* Once all is settled the promises are kept.
LEMMA SettledIsSpread ==
  ASSUME ClipInv, PathsKept, NEW o \in Node, Spread(o), Settled
  PROVE  \A n \in informed : n \in Node /\ Held(n) /\ (n \in Gui => Kept(n))
<1> SUFFICES ASSUME NEW n \in informed
             PROVE  n \in Node /\ Held(n) /\ (n \in Gui => Kept(n))
  OBVIOUS
<1>1. n \in Online /\ n \in Node /\ Promised(o)
  BY DEF Spread, SpreadOut, Online
<1>2. /\ \A w \in Watcher : watch[w].pc = "idle" /\ ~Fresh(w)
      /\ \A r \in Receiver : recv[r].pc = "idle" /\ wire[r] = <<>>
  BY DEF Settled
<1>3. ASSUME o \in Online PROVE ~Finding(o) /\ ~OwnTelling(o) /\ \A m : ~Leaving(o, m)
  <2>1. End(o) \in Watcher
    BY <1>3, OnlineEnds
  <2> QED
    BY <1>2, <2>1 DEF Finding, OwnTelling, Leaving
<1>4. n # o /\ Connected(o) => ~Coming(o, n)
  <2> SUFFICES ASSUME n # o, Connected(o)
               PROVE  ~Coming(o, n)
    OBVIOUS
  <2>1. o \in Online /\ Inlet(o, n) \in Receiver
    BY <1>1, InletsDiffer DEF Online
  <2>2. o # Server => Up(End(o)) \in Receiver
    BY <2>1, OnlineEnds, Places
  <2> QED
    BY <1>2, <1>3, <2>1, <2>2 DEF Coming, Relayed
<1>5. ~Recording(n)
  BY <1>2 DEF Recording
<1> QED
  BY <1>1, <1>3, <1>4, <1>5 DEF Promised

\* A lost session takes away what was under way: only what is settled stays promised.
LEMMA BreakSpreads ==
  ASSUME ClipInv, PathsKept, NEW o \in Node, Spread(o), NEW s \in Session, Break(s)
  PROVE  Spread(o)'
<1>1. /\ open' = open \ {s}
      /\ wire' = [wire EXCEPT ![Up(s)] = <<>>, ![Down(s)] = <<>>]
      /\ informed' = IF Settled THEN informed \ {Host(s)} ELSE {}
      /\ UNCHANGED <<os, session, recv, watch, seen, missed, claimed, mark, hist, latest>>
  BY DEF Break, watchVars, lookVars, endVars, panelVars
<1>2. CASE ~Settled
  BY <1>1, <1>2 DEF Spread
<1>3. CASE Settled
  <2>1. /\ \A w \in Watcher : watch[w].pc = "idle" /\ ~Fresh(w)
        /\ \A r \in Receiver : recv[r].pc = "idle" /\ wire[r] = <<>>
    BY <1>3 DEF Settled
  <2>2. \A r \in Receiver : wire'[r] = <<>>
    BY <1>1, <2>1 DEF ClipInv, TypeOK
  <2>3. \A w \in Watcher : ~Fresh(w)'
    BY <1>1, <2>1 DEF Fresh, Running, NewsFor
  <2>4. (\A n : End(n)' = End(n)) /\ (\A n : Held(n)' <=> Held(n)) /\ (\A n : Kept(n)' <=> Kept(n))
    BY <1>1, EndsStay DEF Held, Kept
  <2>5. \A n \in informed' : n \in informed /\ n # Host(s)
    BY <1>1, <1>3
  <2>6. informed' \subseteq Online'
    <3> SUFFICES ASSUME NEW n \in informed'
                 PROVE  n \in Online'
      OBVIOUS
    <3>1. n \in Online /\ n \in Node /\ Connected(n)
      BY <2>5 DEF Spread, Online
    <3>2. Host(End(n)) = n
      BY <3>1, OnlineEnds
    <3>3. Connected(n)'
      BY <1>1, <2>4, <2>5, <3>1, <3>2 DEF Connected
    <3> QED
      BY <3>1, <3>3 DEF Online
  <2>7. Uniform'
    <3>1. UniformWires'
      <4>1. DOMAIN <<>> = {}
        OBVIOUS
      <4> QED
        BY <1>1, <2>1, <2>2, <4>1 DEF UniformWires
    <3>2. UniformWatchers'
      BY <1>1, <2>1, <2>3 DEF UniformWatchers
    <3> QED
      BY <3>1, <3>2 DEF Uniform
  <2>8. Speaks(o)'
    <3> SUFFICES ASSUME Connected(o)'
                 PROVE  Muffled(o)'
      BY DEF Speaks
    <3>1. Connected(o)
      BY <1>1, <2>4 DEF Connected
    <3>2. End(o) \in Watcher
      BY <3>1, OnlineEnds DEF Online
    <3>3. ~Fresh(End(o))'
      BY <2>3, <2>4, <3>2
    <3> QED
      BY <1>1, <2>1, <2>4, <3>2, <3>3 DEF Muffled
  <2>9. Promised(o)'
    BY <1>3, <2>4, <2>5, SettledIsSpread DEF Promised
  <2> QED
    BY <2>6, <2>7, <2>8, <2>9 DEF Spread, SpreadOut
<1> QED
  BY <1>2, <1>3

\* When all was settled, and only the machine n has news now, it speaks for itself
\* and the others hold what they were promised.
LEMMA SettledSpreads ==
  ASSUME ClipInv, PathsKept, Settled, NEW n \in Node,
         UNCHANGED <<wire, recv, watch>>, informed' \subseteq Online',
         \A w \in Watcher : Fresh(w)' => Host(w) = n,
         n \in Online' => End(n)' \in Watcher,
         n \in Online' => \/ Held(n)'
                          \/ Fresh(End(n))' => mark'[End(n)'] = ReadBack(n, os[n])',
         n \in informed' => Held(n)',
         \A m \in informed' :
           \/ n \in Online' /\ Finding(n)'
           \/ Held(m)' /\ (m \in Gui => Kept(m)')
  PROVE  Spread(n)'
<1>1. /\ \A w \in Watcher : watch[w].pc = "idle"
      /\ \A r \in Receiver : recv[r].pc = "idle" /\ wire[r] = <<>>
  BY DEF Settled
<1>2. UniformWires'
  BY <1>1 DEF UniformWires
<1>3. UniformWatchers'
  BY <1>1 DEF UniformWatchers
<1>4. n \in Online' <=> Connected(n)'
  BY DEF Online
<1>5. Speaks(n)'
  BY <1>1, <1>4 DEF Speaks, Muffled
<1>6. Promised(n)'
  BY <1>4 DEF Promised, Coming, Leaving, OwnTelling
<1> QED
  BY <1>2, <1>3, <1>5, <1>6 DEF Spread, SpreadOut, Uniform

\* What a patient user puts into a clipboard is promised to all that are connected,
\* and its watcher will find it; or it is nothing that anyone will send.
LEMMA PutSpreads ==
  ASSUME ClipInv, PathsKept, Patient, NEW o \in Node, Spread(o),
         NEW n \in Node, NEW p \in Payload, Put(n, p)
  PROVE  Spread(n)'
<1>1. /\ Settled
      /\ os' = [os EXCEPT ![n] = p] /\ missed' = {w \in missed : Host(w) # n}
      /\ Announced(n, p, Online)
      /\ UNCHANGED <<session, open, wire, recv, watch, seen, claimed, mark, hist>>
  BY DEF Put, Written, netVars, endVars, panelVars
<1>2. \A w \in Watcher : watch[w].pc = "idle" /\ ~Fresh(w)
  BY <1>1 DEF Settled
<1>3. os'[n] = p /\ \A m \in Node : m # n => os'[m] = os[m]
  BY <1>1 DEF ClipInv, TypeOK
<1>4. ASSUME NEW w \in Watcher, Fresh(w)' PROVE Host(w) = n
  <2>1. Host(w) \in Node
    BY Places
  <2>2. Host(w) # n => os'[Host(w)] = os[Host(w)] /\ (w \in missed => w \in missed')
    BY <1>1, <1>3, <2>1
  <2> QED
    BY <1>1, <1>2, <1>4, <2>2 DEF Fresh, Running, NewsFor
<1>5. (\A m : End(m)' = End(m)) /\ Online' = Online
  BY <1>1, EndsStay DEF Online, Connected, End
<1>6. n \in Online => End(n) \in Watcher /\ Host(End(n)) = n
  BY OnlineEnds
<1>7. n \in Online /\ Fresh(End(n))' => NewsFor(End(n), p)
  BY <1>1, <1>3, <1>5, <1>6 DEF Fresh, NewsFor
<1>8. CASE n \in Online /\ NewsFor(End(n), p) /\ mark[End(n)] # ReadBack(n, p)
  <2>1. latest' = [item |-> p.item, at |-> n] /\ informed' = Online
    BY <1>1, <1>8 DEF Announced
  <2>2. Held(n)'
    BY <1>3, <2>1, ClipboardAssumption DEF Held, Holds
  <2>3. Running(End(n))
    <3>1. n # Server => session[n] \in Nat
      BY DEF Node, ClipInv, TypeOK
    <3> QED
      BY <1>6, <1>8, <3>1 DEF Running, End, Host
  <2>4. Fresh(End(n))'
    BY <1>1, <1>3, <1>5, <1>6, <1>8, <2>3 DEF Fresh, NewsFor, Running
  <2>5. Finding(n)'
    BY <1>1, <1>2, <1>3, <1>5, <1>6, <1>8, <2>4 DEF Finding
  <2> QED
    BY <1>1, <1>4, <1>5, <1>6, <1>8, <2>1, <2>2, <2>5, SettledSpreads
<1>9. CASE ~(n \in Online /\ NewsFor(End(n), p) /\ mark[End(n)] # ReadBack(n, p))
  <2>1. /\ latest' = latest
        /\ informed' = IF Holds(p, latest) THEN informed ELSE informed \ {n}
    BY <1>1, <1>9 DEF Announced
  <2>2. \A m \in informed : m \in Node /\ Held(m) /\ (m \in Gui => Kept(m))
    BY <1>1, SettledIsSpread
  <2>3. n \in informed' => Held(n)'
    BY <1>3, <2>1 DEF Held
  <2>4. \A m \in informed' : Held(m)' /\ (m \in Gui => Kept(m)')
    BY <1>1, <1>3, <2>1, <2>2, <2>3 DEF Held, Kept
  <2>5. n \in Online /\ Fresh(End(n))' => mark'[End(n)'] = ReadBack(n, os[n])'
    BY <1>1, <1>3, <1>5, <1>7, <1>9
  <2>6. informed' \subseteq Online'
    BY <1>5, <2>1 DEF Spread
  <2> QED
    BY <1>1, <1>4, <1>5, <1>6, <2>3, <2>4, <2>5, <2>6, SettledSpreads
<1> QED
  BY <1>8, <1>9

\* A session that begins: its watcher finds what the clipboard holds, if it is news.
LEMMA ConnectSpreads ==
  ASSUME ClipInv, PathsKept, Patient, NEW o \in Node, Spread(o), NEW c \in Client, Connect(c)
  PROVE  Spread(c)'
<1>1. PICK s : s = <<c, session[c] + 1>>
  OBVIOUS
<1>2. /\ session' = [session EXCEPT ![c] = session[c] + 1] /\ session[c] < MaxSession[c]
      /\ open' = open \cup {s}
      /\ IF NewsFor(s, os[c])
         THEN latest' = [item |-> os[c].item, at |-> c] /\ informed' = Online \cup {c}
         ELSE UNCHANGED <<latest, informed>>
      /\ UNCHANGED <<os, wire, recv, watch, seen, missed, claimed, mark, hist>>
      /\ Settled
  BY <1>1 DEF Connect, watchVars, lookVars, endVars, panelVars
<1>3. \A w \in Watcher : watch[w].pc = "idle" /\ ~Fresh(w)
  BY <1>2 DEF Settled
<1>4. /\ session[c] \in Nat /\ MaxSession[c] \in Nat /\ c \in Node /\ c # Server
      /\ session'[c] = session[c] + 1
      /\ \A d \in Client : d # c => session'[d] = session[d]
  BY <1>2, ClipboardAssumption DEF ClipInv, TypeOK, Node
<1>5. s \in Session /\ s \in Watcher /\ Host(s) = c /\ s[2] = session[c] + 1
  <2>1. s \in {c} \X (1 .. MaxSession[c])
    BY <1>1, <1>2, <1>4
  <2>2. s \in Session
    BY <2>1 DEF Session
  <2>3. Host(s) = c /\ s[2] = session[c] + 1
    BY <1>1 DEF Host
  <2> QED
    BY <2>2, <2>3 DEF Watcher
<1>6. mark[s] = Nothing /\ s \notin missed
  BY <1>4, <1>5 DEF PathsKept
<1>7. End(c)' = s /\ \A n \in Node : n # c => End(n)' = End(n)
  BY <1>1, <1>2, <1>4 DEF End, Node
<1>8. Online' = Online \cup {c}
  <2>1. \A n \in Node : n # c => (Connected(n)' <=> Connected(n))
    <3> SUFFICES ASSUME NEW n \in Node, n # c
                 PROVE  Connected(n)' <=> Connected(n)
      OBVIOUS
    <3>1. End(n) # s
      BY <1>4, <1>5, EndsApart
    <3> QED
      BY <1>2, <1>7, <3>1 DEF Connected
  <2>2. Connected(c)'
    BY <1>2, <1>7 DEF Connected
  <2> QED
    BY <1>4, <2>1, <2>2 DEF Online
<1>9. ASSUME NEW w \in Watcher, Fresh(w)' PROVE w = s
  <2>1. ~Running(w) /\ Running(w)'
    BY <1>2, <1>3, <1>9 DEF Fresh, NewsFor
  <2>2. w # Hub
    BY <2>1 DEF Running
  <2>3. w \in Session
    BY <2>2, EndsApart
  <2>4. PICK d \in Client : w \in {d} \X (1 .. MaxSession[d])
    BY <2>3 DEF Session
  <2>5. w = <<d, w[2]>> /\ w[2] \in Nat /\ Host(w) = d /\ session[d] \in Nat
    BY <2>4, ClipboardAssumption DEF Host, ClipInv, TypeOK
  <2>6. w[2] > session[d] /\ w[2] <= session'[d]
    BY <2>1, <2>2, <2>5 DEF Running
  <2>7. d = c
    BY <1>4, <2>5, <2>6
  <2> QED
    BY <1>1, <1>4, <2>5, <2>6, <2>7
<1>10. Fresh(s)' <=> NewsFor(s, os[c])
  <2>1. Running(s)'
    BY <1>4, <1>5 DEF Running
  <2> QED
    BY <1>2, <1>5, <1>6, <2>1 DEF Fresh, NewsFor
<1>11. CASE NewsFor(s, os[c])
  <2>1. latest' = [item |-> os[c].item, at |-> c] /\ informed' = Online \cup {c}
    BY <1>2, <1>11
  <2>2. ReadBack(c, os[c]) # Nothing /\ os[c] # Nothing
    BY <1>5, <1>11 DEF NewsFor, ReadBack
  <2>3. Held(c)'
    BY <1>2, <2>1, <2>2 DEF Held, Holds
  <2>4. Fresh(End(c))' /\ mark'[End(c)'] # ReadBack(c, os[c])'
    BY <1>2, <1>6, <1>7, <1>10, <1>11, <2>2 DEF ReadBack
  <2>5. Finding(c)'
    BY <1>2, <1>3, <1>5, <1>7, <2>4 DEF Finding
  <2> QED
    BY <1>2, <1>4, <1>5, <1>7, <1>8, <1>9, <2>1, <2>3, <2>5, SettledSpreads
<1>12. CASE ~NewsFor(s, os[c])
  <2>1. UNCHANGED <<latest, informed>>
    BY <1>2, <1>12
  <2>2. \A m \in informed : Held(m) /\ (m \in Gui => Kept(m))
    BY <1>2, SettledIsSpread
  <2>3. \A m \in informed' : Held(m)' /\ (m \in Gui => Kept(m)')
    BY <1>2, <2>1, <2>2 DEF Held, Kept
  <2>4. ~Fresh(End(c))'
    BY <1>7, <1>10, <1>12
  <2>5. informed' \subseteq Online'
    BY <1>8, <2>1 DEF Spread
  <2> QED
    BY <1>2, <1>4, <1>5, <1>7, <1>9, <2>3, <2>4, <2>5, SettledSpreads
<1> QED
  BY <1>11, <1>12

\* What is promised spreads, with the wave that carries it.
AgreeInv == PathsKept /\ \E o \in Node : Wave(o) /\ Spread(o)

\* A user's step begins a wave or leaves the promises alone.
LEMMA UserSpreads ==
  ASSUME ClipInv, PathsKept, Patient, NEW o \in Node, Wave(o), Spread(o),
         NEW n \in Node, UserStep(n)
  PROVE  AgreeInv'
<1>1. ASSUME NEW p \in Payload, Put(n, p) PROVE AgreeInv'
  <2>1. PathsKept' /\ Wave(n)'
    BY <1>1, PutWaves
  <2>2. Spread(n)'
    BY <1>1, PutSpreads
  <2> QED
    BY <2>1, <2>2 DEF AgreeInv
<1>2. CASE Copy(n)
  BY <1>1, <1>2 DEF Copy, Payload
<1>3. CASE Restore(n)
  <2>1. PICK e \in Get(hist[n], shown[n].id) : Put(n, e.data)
    BY <1>3 DEF Restore
  <2>2. hist[n].items \in Seq(Entry)
    BY DEF ClipInv, TypeOK
  <2>3. PICK i \in DOMAIN hist[n].items : e = hist[n].items[i]
    BY <2>1 DEF Get
  <2>4. e \in Entry
    BY <2>2, <2>3
  <2>5. e.data \in Payload
    BY <2>4 DEF Entry
  <2> QED
    BY <1>1, <2>1, <2>5
<1>4. CASE ShowHistory(n)
  <2>1. UNCHANGED <<os, session, open, wire, recv, watch, seen, missed, claimed, mark, settling, hist,
                    latest, informed, news>>
    BY <1>4 DEF ShowHistory, netVars, watchVars, lookVars, endVars, ghostVars
  <2>2. PathsKept' /\ Wave(o)'
    BY <2>1, StillWaves
  <2>3. SpreadOut(o) => SpreadOut(o)'
    BY <2>1, StillSpreads DEF Kept
  <2>4. Online' = Online
    BY <2>1 DEF Online, Connected, End
  <2> QED
    BY <2>1, <2>2, <2>3, <2>4 DEF AgreeInv, Spread
<1>5. CASE ClearHistory(n)
  <2>1. UNCHANGED <<os, session, open, wire, recv, watch, seen, missed, claimed, mark, settling,
                    latest, informed, news>>
    BY <1>5 DEF ClearHistory, netVars, watchVars, lookVars, endVars
  <2>2. PathsKept' /\ Wave(o)'
    BY <2>1, StillWaves
  <2>3. informed # {} => SpreadOut(o)'
    BY <1>5, ClearSpreads DEF Spread
  <2>4. Online' = Online
    BY <2>1 DEF Online, Connected, End
  <2> QED
    BY <2>1, <2>2, <2>3, <2>4 DEF AgreeInv, Spread
<1> QED
  BY <1>2, <1>3, <1>4, <1>5 DEF UserStep

\* The steps of watchers and receivers carry the announced item to its end.
LEMMA MachinesSpread ==
  ASSUME ClipInv, PathsKept, OneOnLinux, NEW o \in Node, Wave(o), informed \subseteq Online, SpreadOut(o),
         \/ \E w \in Watcher : WatcherStep(w) /\ ~LookFails(w)
         \/ HubSent
         \/ \E r \in Receiver : ReceiverStep(r)
  PROVE  SpreadOut(o)' /\ informed' \subseteq Online'
<1>1. ASSUME NEW w \in Watcher, WatcherStep(w), ~LookFails(w) PROVE SpreadOut(o)'
  <2>1. CASE WindowCloses(w)
    <3>1. /\ UNCHANGED <<os, session, open, wire, recv, watch, seen, missed, claimed, mark, latest, informed>>
          /\ UNCHANGED hist
      BY <2>1 DEF WindowCloses, netVars, watchVars, lookVars, panelVars, ghostVars
    <3> QED
      BY <3>1, StillSpreads DEF Kept
  <2> QED
    BY <1>1, <2>1, LookSpreads, DecideSpreads, WatcherSendsSpreads, WatcherTellsSpreads DEF WatcherStep
<1>2. ASSUME NEW r \in Receiver, ReceiverStep(r) PROVE SpreadOut(o)'
  BY <1>2, ApplySpreads, ApplyFailsSpreads, NoteSpreads, ReceiverTellsSpreads, PassOnSpreads
     DEF ReceiverStep
<1>3. UNCHANGED <<session, open>> /\ informed' \subseteq informed
  <2>1. ASSUME NEW w \in Watcher, WatcherStep(w), ~LookFails(w)
        PROVE  UNCHANGED <<session, open>> /\ informed' \subseteq informed
    BY <2>1 DEF WatcherStep, Look, Decide, WatcherSends, WatcherTells, WindowCloses, netVars, ghostVars
  <2>2. ASSUME NEW r \in Receiver, ReceiverStep(r)
        PROVE  UNCHANGED <<session, open>> /\ informed' \subseteq informed
    BY <2>2 DEF ReceiverStep, Apply, ApplyFails, Note, ReceiverTells, PassOn, netVars, ghostVars
  <2>3. ASSUME HubSent
        PROVE  UNCHANGED <<session, open>> /\ informed' \subseteq informed
    BY <2>3 DEF HubSent, netVars, ghostVars
  <2> QED
    BY <2>1, <2>2, <2>3
<1>4. Online' = Online
  BY <1>3 DEF Online, Connected, End
<1> QED
  BY <1>1, <1>2, <1>3, <1>4, HubSentSpreads

LEMMA NextSpreads ==
  ASSUME ClipInv, AgreeInv, Prompt, Patient, OneOnLinux, [Next]_vars
  PROVE  AgreeInv'
<1>1. PathsKept
  BY DEF AgreeInv
<1>2. PICK o \in Node : Wave(o) /\ Spread(o)
  BY DEF AgreeInv
<1>3. ASSUME NEW n \in Node, UserStep(n) PROVE AgreeInv'
  BY <1>1, <1>2, <1>3, UserSpreads
<1>4. ASSUME NEW c \in Client, Connect(c) PROVE AgreeInv'
  <2>1. PathsKept' /\ Wave(c)' /\ Spread(c)'
    BY <1>1, <1>2, <1>4, ConnectWaves, ConnectSpreads
  <2> QED
    BY <2>1 DEF AgreeInv, Node
<1>5. ASSUME NEW s \in Session, Break(s) PROVE AgreeInv'
  BY <1>1, <1>2, <1>5, BreakWaves, BreakSpreads DEF AgreeInv
<1>6. ASSUME PathsKept' /\ Wave(o)', informed # {} => SpreadOut(o)' /\ informed' \subseteq Online',
             informed = {} => informed' = {}
      PROVE  AgreeInv'
  BY <1>6 DEF AgreeInv, Spread
<1>7. ASSUME NEW w \in Watcher, WatcherStep(w) PROVE AgreeInv'
  <2>1. PathsKept' /\ Wave(o)'
    BY <1>1, <1>2, <1>7, LookWaves, LookFailsWaves, DecideWaves, WatcherSendsWaves,
       WatcherTellsWaves, WindowClosesWaves DEF WatcherStep
  <2>2. CASE LookFails(w)
    BY <2>1, <2>2 DEF LookFails, AgreeInv, Spread
  <2>3. CASE ~LookFails(w)
    <3>1. informed # {} => SpreadOut(o)' /\ informed' \subseteq Online'
      BY <1>1, <1>2, <1>7, <2>3, MachinesSpread DEF Spread
    <3>2. informed' = informed
      BY <1>7, <2>3 DEF WatcherStep, Look, Decide, WatcherSends, WatcherTells, WindowCloses, ghostVars
    <3> QED
      BY <1>6, <2>1, <3>1, <3>2
  <2> QED
    BY <2>2, <2>3
<1>8. ASSUME HubSent PROVE AgreeInv'
  <2>1. informed # {} => SpreadOut(o)' /\ informed' \subseteq Online'
    BY <1>1, <1>2, <1>8, MachinesSpread DEF Spread
  <2>2. informed' = informed
    BY <1>8 DEF HubSent, ghostVars
  <2> QED
    BY <1>1, <1>2, <1>6, <1>8, <2>1, <2>2, HubSentWaves
<1>9. ASSUME NEW r \in Receiver, ReceiverStep(r) PROVE AgreeInv'
  <2>1. PathsKept' /\ Wave(o)'
    BY <1>1, <1>2, <1>9, ApplyWaves, ApplyFailsWaves, NoteWaves, ReceiverTellsWaves,
       PassOnWaves DEF ReceiverStep
  <2>2. informed # {} => SpreadOut(o)' /\ informed' \subseteq Online'
    BY <1>1, <1>2, <1>9, MachinesSpread DEF Spread
  <2>3. informed' \subseteq informed
    BY <1>9 DEF ReceiverStep, Apply, ApplyFails, Note, ReceiverTells, PassOn, ghostVars
  <2> QED
    BY <1>6, <2>1, <2>2, <2>3
<1>10. ASSUME UNCHANGED vars PROVE AgreeInv'
  <2>1. UNCHANGED <<os, session, open, wire, recv, watch, seen, missed, claimed, mark, settling, hist,
                    latest, informed, news>>
    BY <1>10 DEF vars, netVars, watchVars, lookVars, endVars, panelVars, ghostVars
  <2>2. PathsKept' /\ Wave(o)'
    BY <1>1, <1>2, <2>1, StillWaves
  <2>3. SpreadOut(o) => SpreadOut(o)'
    BY <2>1, StillSpreads DEF Kept
  <2>4. Online' = Online
    BY <2>1 DEF Online, Connected, End
  <2> QED
    BY <1>2, <1>6, <2>1, <2>2, <2>3, <2>4 DEF Spread
<1> QED
  BY <1>3, <1>4, <1>5, <1>7, <1>8, <1>9, <1>10 DEF Next

\* If users are patient, no watcher looks between a write and the note of it, and no
\* watcher of a lost session competes with its successor, every machine an item was
\* promised to holds it once all is settled: applied writes, echoes, failures,
\* lost sessions and sessions that begin lie in between.
THEOREM MachinesAgree ==
  ASSUME Prompt, Patient, OneOnLinux
  PROVE  Spec => []Agreement
<1>1. Init => AgreeInv
  BY InitWaves DEF AgreeInv, WaveInv, Spread, Init
<1>2. ClipInv /\ AgreeInv /\ [Next]_vars => AgreeInv'
  BY NextSpreads
<1>3. ClipInv /\ AgreeInv => Agreement
  BY SettledIsSpread DEF AgreeInv, Agreement, Held
<1> QED
  BY <1>1, <1>2, <1>3, ClipInvariant, PTL DEF Spec

\* ... and the newest entry of its history, if it has any, is what it holds.
THEOREM PanelsAgree ==
  ASSUME Prompt, Patient, OneOnLinux
  PROVE  Spec => []HistoryCurrent
<1>1. Init => AgreeInv
  BY InitWaves DEF AgreeInv, WaveInv, Spread, Init
<1>2. ClipInv /\ AgreeInv /\ [Next]_vars => AgreeInv'
  BY NextSpreads
<1>3. ClipInv /\ AgreeInv => HistoryCurrent
  BY SettledIsSpread DEF AgreeInv, HistoryCurrent, Held, Kept, Holds
<1> QED
  BY <1>1, <1>2, <1>3, ClipInvariant, PTL DEF Spec
=============================================================================
