------------------------------ MODULE LruStorage ------------------------------
(***************************************************************************)
(* The storage of the learning rewriters (storage/lru_storage.cc): items   *)
(* in the slots of a mapped file, a list of slots from the most to the     *)
(* least recently used, and an index of the list by fingerprint.  Only the *)
(* file outlives the process; Open builds the rest from its times.         *)
(*                                                                         *)
(* A key stands for its fingerprint.  A list node is named by the slot it  *)
(* points to.  What a process has written to the mapping is in the file    *)
(* when it dies; items are copied and cleared whole.                       *)
(***************************************************************************)
EXTENDS Naturals, FiniteSets, Sequences, SequencesExt

CONSTANTS Key, Value,
          NoKey, NoValue,  \* the zeros of a free item
          Size,            \* size_
          MaxTime          \* bound on the clock, in seconds

ASSUME LruStorageAssumption ==
         /\ Size \in Nat \ {0} /\ MaxTime \in Nat \ {0}
         /\ NoKey \notin Key /\ NoValue \notin Value

VARIABLES file,       \* slot |-> item
          lru_list, lru_map, next_item,
          now,
          set_back,   \* history: the clock went back
          torn        \* a process died within a write

mapping == <<lru_list, lru_map, next_item>>
vars == <<file, mapping, now, set_back, torn>>

Slot == 1..Size
End == Size + 1
Free == [fp |-> NoKey, time |-> 0, value |-> NoValue]
Item(k, v) == [fp |-> k, time |-> now, value |-> v]

-----------------------------------------------------------------------------
(* Open.                                                                   *)

\* A stable sort by CompareByTimeStamp puts item i before item j.
Before(items, i, j) == \/ items[i].time > items[j].time
                       \/ items[i].time = items[j].time /\ i < j

\* The indexes S of items in that order.
LatestFirst(items, S) ==
  [n \in 1..Cardinality(S) |->
     CHOOSE i \in S : Cardinality({j \in S : Before(items, j, i)}) = n - 1]

Used(f) == {s \in Slot : f[s].time # 0}

\* Of slots with one fingerprint the last in the list gets into the index.
IndexOf(f) ==
  [k \in {f[s].fp : s \in Used(f)} |->
     CHOOSE s \in Used(f) :
       f[s].fp = k /\ \A t \in Used(f) : f[t].fp = k => t = s \/ Before(f, t, s)]

FirstFree(f) == IF Used(f) = Slot THEN End
                ELSE CHOOSE s \in Slot \ Used(f) : \A t \in Slot \ Used(f) : s <= t

Open(f) == /\ file' = f
           /\ lru_list' = LatestFirst(f, Used(f))
           /\ lru_map' = IndexOf(f)
           /\ next_item' = FirstFree(f)

Init ==
  /\ file = [s \in Slot |-> Free]
  /\ lru_list = <<>> /\ lru_map = <<>> /\ next_item = 1
  /\ now = 1 /\ set_back = FALSE
  /\ torn = FALSE

-----------------------------------------------------------------------------
(* The operations.                                                         *)

Without(f, k) == [x \in DOMAIN f \ {k} |-> f[x]]
With(f, k, v) == [x \in DOMAIN f \cup {k} |-> IF x = k THEN v ELSE f[x]]
Removed(l, s) == RemoveAt(l, CHOOSE i \in DOMAIN l : l[i] = s)
MovedToFront(s) == <<s>> \o Removed(lru_list, s)
NothingElse == UNCHANGED <<now, set_back, torn>>

Update(k, v) ==
  LET s == lru_map[k]
  IN  /\ k \in DOMAIN lru_map
      /\ file' = [file EXCEPT ![s] = Item(k, v)]
      /\ lru_list' = MovedToFront(s)
      /\ UNCHANGED <<lru_map, next_item>> /\ NothingElse

Full == Cardinality(DOMAIN lru_map) >= Size \/ next_item = End

ReplaceHead(k, v) ==
  LET s == Head(lru_list)
  IN  /\ k \notin DOMAIN lru_map /\ Full
      /\ file' = [file EXCEPT ![s] = Item(k, v)]
      /\ lru_list' = MovedToFront(s)
      /\ lru_map' = With(Without(lru_map, file[s].fp), k, s)
      /\ UNCHANGED next_item /\ NothingElse

\* The least recently used element is overwritten.
Replace(k, v) ==
  LET s == Last(lru_list)
  IN  /\ k \notin DOMAIN lru_map /\ Full
      /\ file' = [file EXCEPT ![s] = Item(k, v)]
      /\ lru_list' = MovedToFront(s)
      /\ lru_map' = With(Without(lru_map, file[s].fp), k, s)
      /\ UNCHANGED next_item /\ NothingElse

Add(k, v) ==
  /\ k \notin DOMAIN lru_map /\ ~Full
  /\ file' = [file EXCEPT ![next_item] = Item(k, v)]
  /\ lru_list' = <<next_item>> \o lru_list
  /\ lru_map' = With(lru_map, k, next_item)
  /\ next_item' = next_item + 1
  /\ NothingElse

Insert(k, v) == Update(k, v) \/ Replace(k, v) \/ Add(k, v)
TryInsert(k, v) == Update(k, v)

Touch(k) ==
  LET s == lru_map[k]
  IN  /\ k \in DOMAIN lru_map
      /\ file' = [file EXCEPT ![s].time = now]
      /\ lru_list' = MovedToFront(s)
      /\ UNCHANGED <<lru_map, next_item>> /\ NothingElse

\* The file when the last item was copied over a deleted one.
ClearedThenCopied(f, s, last) == [f EXCEPT ![last] = Free]
Copied(f, s, last) == [f EXCEPT ![s] = f[last]]

Storage == [file |-> file, list |-> lru_list, index |-> lru_map, next |-> next_item]
Becomes(st) == /\ file' = st.file /\ lru_list' = st.list
               /\ lru_map' = st.index /\ next_item' = st.next

\* Deleting slot s, indexed by fp: the last item fills its place, and the node
\* that the index has for that item gets the new address.
ErasedInPlace(st, fp, s) ==
  LET last == st.next - 1
  IN  [file |-> [Copied(st.file, s, last) EXCEPT ![last] = Free],
       list |-> Removed(st.list, s), index |-> Without(st.index, fp), next |-> last]

Erased(st, fp, s) ==
  LET last == st.next - 1
      index == Without(st.index, fp)
      list == Removed(st.list, s)
      moved == st.file[last].fp
  IN  [file |-> [Copied(st.file, s, last) EXCEPT ![last] = Free],
       list |-> IF s = last THEN list ELSE ReplaceAll(list, index[moved], s),
       index |-> IF s = last THEN index ELSE [index EXCEPT ![moved] = s],
       next |-> last]

Delete(k) == /\ k \in DOMAIN lru_map /\ Becomes(Erased(Storage, k, lru_map[k]))
             /\ NothingElse

\* The last element is deleted if it is older than t.
LastPruned(st, t) ==
  LET s == Last(st.list)
  IN  IF st.list = <<>> \/ st.file[s].time >= t THEN st
      ELSE Erased(st, st.file[s].fp, s)

\* The storage after each round of the loop.
Pruning(t) ==
  LET after[n \in 0..Len(lru_list)] ==
        IF n = 0 THEN Storage ELSE LastPruned(after[n - 1], t)
  IN  after

DeleteElementsBefore(t) ==
  lru_list # <<>> /\ Becomes(Pruning(t)[Len(lru_list)]) /\ NothingElse

Clear == lru_list # <<>> /\ Open([s \in Slot |-> Free]) /\ NothingElse

\* The process ends and another one opens the file, or the converter reloads.
Reopen == Open(file) /\ NothingElse

\* The items of both files, latest first, each fingerprint once.
Merged(other) ==
  LET items == file \o other
      first == {i \in DOMAIN items : \A j \in DOMAIN items \ {i} :
                  items[j].fp = items[i].fp => Before(items, i, j)}
      latest == LatestFirst(items, first)
  IN  [s \in Slot |-> IF s <= Len(latest) THEN items[latest[s]] ELSE Free]

Stored == [fp : Key, time : 1..now, value : Value]
Other == {<<e>> : e \in Stored} \cup {<<e1, e2>> : e1, e2 \in Stored}

Merge(other) == Open(Merged(other)) /\ NothingElse

-----------------------------------------------------------------------------
(* The clock, and processes that die within a write.                       *)

Tick == /\ \E t \in 1..MaxTime : t # now /\ now' = t
        /\ set_back' = (set_back \/ now' < now)
        /\ UNCHANGED <<file, mapping, torn>>

Kill == torn' = TRUE /\ UNCHANGED <<now, set_back>>

\* The last item is copied and not cleared.
KillInDelete(k) ==
  /\ Kill /\ k \in DOMAIN lru_map /\ lru_map[k] # next_item - 1
  /\ Open(Copied(file, lru_map[k], next_item - 1))

\* Only the fingerprint of the new item is written.
KillInReplace(k) ==
  /\ Kill /\ k \notin DOMAIN lru_map /\ Full
  /\ Open([file EXCEPT ![Last(lru_list)].fp = k])

Operation == \/ \E k \in Key, v \in Value : Insert(k, v) \/ TryInsert(k, v)
             \/ \E k \in Key : Touch(k) \/ Delete(k)
             \/ \E t \in 2..MaxTime : DeleteElementsBefore(t)
             \/ Clear \/ Reopen
             \/ \E other \in Other : Merge(other)

\* A torn write ends what the model follows.
Next == \/ ~torn /\ Operation
        \/ ~torn /\ \E k \in Key : KillInDelete(k) \/ KillInReplace(k)
        \/ Tick

Spec == Init /\ [][Next]_vars

-----------------------------------------------------------------------------
(* Properties.                                                             *)

TypeOK ==
  /\ file \in [Slot -> {Free} \cup [fp : Key, time : 1..MaxTime, value : Value]]
  /\ lru_list \in Seq(Slot) /\ DOMAIN lru_map \subseteq Key
  /\ \A k \in DOMAIN lru_map : lru_map[k] \in Slot
  /\ next_item \in 1..End /\ now \in 1..MaxTime /\ set_back \in BOOLEAN
  /\ torn \in BOOLEAN

\* File, list and index agree: the items fill the first slots, each is once in
\* the list, and the index finds it under its own fingerprint.
Indexed ==
  ~torn =>
    /\ Used(file) = 1..next_item - 1
    /\ ToSet(lru_list) = Used(file) /\ Len(lru_list) = next_item - 1
    /\ DOMAIN lru_map = {file[s].fp : s \in Used(file)}
    /\ \A s \in Used(file) : lru_map[file[s].fp] = s

\* GetAllValues gives the values from new to old, while the clock runs forward.
NewToOld ==
  ~torn /\ ~set_back =>
    \A i, j \in DOMAIN lru_list : i < j => file[lru_list[i]].time >= file[lru_list[j]].time

\* A process that dies within Delete or Insert damages the item it writes and
\* no other: Delete copies the last item before it clears it.
TornWriteHitsOneItem ==
  [][~torn /\ torn' =>
       \A x \in DOMAIN lru_map : \/ x \in DOMAIN lru_map' /\ file'[lru_map'[x]] = file[lru_map[x]]
                                 \/ KillInDelete(x)
                                 \/ \E k \in Key : KillInReplace(k) /\ lru_map[x] = Last(lru_list)]_vars

\* It is the bounded list of recent entries that lru_storage.h promises.
Entries == [i \in DOMAIN lru_list |-> file[lru_list[i]]]
Recent == INSTANCE Recency WITH entries <- Entries, void <- torn
KeepsRecent == Recent!Spec
===============================================================================
