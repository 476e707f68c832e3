------------------------------- MODULE Recency --------------------------------
(***************************************************************************)
(* What lru_storage.h promises of an LRU storage: entries from the most to *)
(* the least recently used, at most Size of them, that survive a restart.  *)
(* The file keeps one time per entry and no order, so that entries of one  *)
(* second may change places when it is opened.                             *)
(***************************************************************************)
EXTENDS Sequences, SequencesExt, FiniteSets, Naturals

CONSTANTS Key, Value, Size

VARIABLES entries,  \* sequence of [fp, time, value], most recent first
          now,      \* the clock
          void      \* a process died within a write: nothing is promised

recency_vars == <<entries, now, void>>

Init == entries = <<>> /\ now = 1 /\ void = FALSE

KeysOf(s) == {s[i].fp : i \in DOMAIN s}
Others(k) == IF k \in KeysOf(entries)
             THEN RemoveAt(entries, CHOOSE i \in DOMAIN entries : entries[i].fp = k)
             ELSE entries
Sorted(s) == \A i, j \in DOMAIN s : i < j => s[i].time >= s[j].time

Insert(k, v) ==
  LET used == <<[fp |-> k, time |-> now, value |-> v]>> \o Others(k)
  IN  entries' = SubSeq(used, 1, IF Len(used) > Size THEN Size ELSE Len(used))

TryInsert(k, v) == k \in KeysOf(entries) /\ Insert(k, v)

Touch(k) ==
  \E i \in DOMAIN entries :
    entries[i].fp = k /\ entries' = <<[entries[i] EXCEPT !.time = now]>> \o Others(k)

Delete(k) == entries' = Others(k)

\* The least recent entries, up to the first that is not older than some time.
DeleteElementsBefore ==
  \E n \in 0..Len(entries) :
    /\ entries' = SubSeq(entries, 1, n)
    /\ n > 0 => \A i \in n + 1..Len(entries) : entries[i].time < entries[n].time

Clear == entries' = <<>>

\* The same entries, latest first.
Reopen == /\ Len(entries') = Len(entries) /\ ToSet(entries') = ToSet(entries)
          /\ Sorted(entries')

\* Of both storages, every key's latest entry (this one's of the same second),
\* and of those the latest Size.
Merge(other) ==
  LET theirs == {e \in other : \A d \in ToSet(entries) : d.fp = e.fp => d.time < e.time}
      mine == {d \in ToSet(entries) : \A e \in other : e.fp = d.fp => e.time <= d.time}
      all == mine \cup theirs
  IN  /\ Sorted(entries')
      /\ ToSet(entries') \subseteq all /\ Cardinality(ToSet(entries')) = Len(entries')
      /\ Len(entries') = (IF Cardinality(all) > Size THEN Size ELSE Cardinality(all))
      /\ \A e \in all \ ToSet(entries'), i \in DOMAIN entries' : e.time <= entries'[i].time

Stored == [fp : Key, time : 1..now, value : Value]

Next ==
  \/ void' = TRUE
  \/ UNCHANGED <<entries, void>>
  \/ /\ UNCHANGED <<now, void>>
     /\ \/ \E k \in Key, v \in Value : Insert(k, v) \/ TryInsert(k, v)
        \/ \E k \in Key : Touch(k) \/ Delete(k)
        \/ DeleteElementsBefore \/ Clear \/ Reopen
        \/ \E e1, e2 \in Stored : Merge({e1, e2})

Spec == Init /\ [][Next]_recency_vars
===============================================================================
