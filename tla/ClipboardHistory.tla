-------------------------- MODULE ClipboardHistory --------------------------
(***************************************************************************)
(* The ring of clipboard snapshots behind the history panel of a GUI:      *)
(* internal/clipboardhistory.  A history is a value; the mutex that guards *)
(* it makes every method one step.  Timestamps and origins are left out.   *)
(***************************************************************************)
EXTENDS Naturals, Sequences

CONSTANT Capacity \* entries kept

ASSUME CapacityAssumption == Capacity \in Nat \ {0}

EmptyHistory == [items |-> <<>>, nextID |-> 0]

\* Variant of Repeats that looks at all entries.
RepeatsAnywhere(h, data) == \E i \in DOMAIN h.items : h.items[i].data = data

\* The newest entry holds data already: only its timestamp changes.
Repeats(h, data) == h.items # <<>> /\ h.items[Len(h.items)].data = data

\* One entry at most is over the capacity: the oldest goes.
Evicted(items) == IF Len(items) > Capacity THEN Tail(items) ELSE items

\* Variant of Add that finds no repetition.
AddAlways(h, data) ==
  [items  |-> Evicted(Append(h.items, [id |-> h.nextID + 1, data |-> data])),
   nextID |-> h.nextID + 1]

Add(h, data) ==
  IF Repeats(h, data) THEN h
  ELSE [items  |-> Evicted(Append(h.items, [id |-> h.nextID + 1, data |-> data])),
        nextID |-> h.nextID + 1]

\* Variant of Clear that starts the ids over.
ClearAll(h) == EmptyHistory

\* Clear keeps counting: an id is never given twice.
Clear(h) == [h EXCEPT !.items = <<>>]

\* Get: the entries with this id, at most one.
Get(h, id) == {h.items[i] : i \in {j \in DOMAIN h.items : h.items[j].id = id}}

\* Snapshot: what the panel shows.
Snapshot(h) == {h.items[i] : i \in DOMAIN h.items}

-----------------------------------------------------------------------------
\* Entries stand in the order of their ids, within the capacity, and no two
\* neighbours are the same snapshot.
WellKept(h) ==
  /\ Len(h.items) <= Capacity
  /\ \A i \in DOMAIN h.items : h.items[i].id \in 1 .. h.nextID
  /\ \A i, j \in DOMAIN h.items : i < j => h.items[i].id < h.items[j].id
  /\ \A i \in DOMAIN h.items : i > 1 => h.items[i].data # h.items[i - 1].data
=============================================================================
