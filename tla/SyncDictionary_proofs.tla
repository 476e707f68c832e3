------------------------ MODULE SyncDictionary_proofs ------------------------
(***************************************************************************)
(* Proofs about SyncDictionary, for every set of devices and words, every   *)
(* idempotent importer, every retention and bound, shared or copied         *)
(* bundles, with or without overlap.                                        *)
(***************************************************************************)
EXTENDS SyncDictionary, TLAPS

MaybeTomb == Tombstone \cup {NoTomb}

-----------------------------------------------------------------------------
(* Types. *)

\* Merging two tombstones of a word gives one of them.
LEMMA WinnerIsOne ==
    ASSUME NEW a \in MaybeTomb, NEW b \in MaybeTomb
    PROVE  /\ Winner(a, b) \in {a, b}
           /\ Winner(a, b) = NoTomb => a = NoTomb /\ b = NoTomb
  BY DEF Winner, MaybeTomb

\* A merge of two logs is a log.
LEMMA MergeTombstonesType ==
    ASSUME NEW a \in TombLog, NEW b \in TombLog
    PROVE  MergeDictionaryTombstones(a, b) \in TombLog
  <1>1. \A w \in Word : Winner(a[w], b[w]) \in MaybeTomb
    BY WinnerIsOne DEF TombLog, MaybeTomb
  <1> QED BY <1>1 DEF MergeDictionaryTombstones, TombLog, MaybeTomb

\* The merged files are files.
LEMMA MergeType ==
    ASSUME NEW d \in Device, NEW local \in Files, NEW remote \in Files
    PROVE  MergeDictionaryWithTombstones(d, local, remote) \in Files
  <1> DEFINE tombs == MergeDictionaryTombstones(local.tombs, remote.tombs)
             rows == (local.rows \cup remote.rows) \ Erased(d, local, remote, tombs)
  <1>1. tombs \in TombLog
    BY MergeTombstonesType DEF Files
  <1>2. rows \in SUBSET Word
    BY DEF Files
  <1> HIDE DEF tombs, rows
  <1>3. CompactDictionaryTombstones(tombs, rows) \in TombLog
    BY <1>1 DEF CompactDictionaryTombstones, TombLog
  <1> QED BY <1>2, <1>3 DEF MergeDictionaryWithTombstones, Files, tombs, rows

\* The exported log is a log.
LEMMA ExportType ==
    ASSUME NEW tombs \in TombLog, NEW rows
    PROVE  ExportDictionaryTombstones(tombs, rows) \in TombLog
  BY DEF ExportDictionaryTombstones, TombLog

\* The empty bundle of an idle device is a well-typed value.
LEMMA NoFilesType == NoFiles \in Files
  BY DEF NoFiles, NoTombs, Files, TombLog

\* The initial states are well typed.
LEMMA InitTypeOK == Init => TypeOK
  BY NoFilesType DEF Init, TypeOK, NoTombs, TombLog

USE DEF files, history

\* A sync begins with rows of the file, all or none of them.
LEMMA StartFacts ==
    ASSUME TypeOK, NEW d \in Device, ExportRows(d) \/ ExportUnread(d)
    PROVE  \E rows \in SUBSET live[d] : StartSync(d, rows) /\ changes' \in Nat
  <1>1. CASE ExportRows(d)
    BY <1>1 DEF ExportRows, TypeOK
  <1>2. CASE ExportUnread(d)
    <2>1. StartSync(d, {}) /\ changes' \in Nat /\ {} \in SUBSET live[d]
      BY <1>2 DEF ExportUnread, TypeOK
    <2> QED BY <2>1
  <1> QED BY <1>1, <1>2

\* What the importer makes of words are words.
LEMMA ConvertedType == ASSUME NEW rows \in SUBSET Word PROVE Converted(rows) \in SUBSET Word
  BY ImportAssumption DEF Converted

\* Every step of a sync keeps the types.
LEMMA SyncTypeOK ==
    ASSUME TypeOK, NEW d \in Device, SyncStep(d) \/ ExportUnread(d) \/ AbortSync(d)
    PROVE  TypeOK'
  <1>1. CASE ExportRows(d) \/ ExportUnread(d)
    <2>1. PICK rows \in SUBSET live[d] : StartSync(d, rows) /\ changes' \in Nat
      BY <1>1, StartFacts
    <2>2. [rows |-> rows, tombs |-> NoTombs] \in Files
      BY DEF TypeOK, Files, NoTombs, TombLog
    <2> QED BY <2>1, <2>2 DEF TypeOK, StartSync
  <1>2. CASE ExportTombstones(d)
    <2> DEFINE tombs == ExportDictionaryTombstones(log[d], out[d].rows)
    <2>1. tombs \in TombLog
      BY ExportType DEF TypeOK
    <2>2. out' = [out EXCEPT ![d] = [rows |-> @.rows, tombs |-> tombs]]
      BY <1>2 DEF ExportTombstones
    <2> HIDE DEF tombs
    <2>3. [rows |-> out[d].rows, tombs |-> tombs] \in Files
      BY <2>1 DEF TypeOK, Files
    <2> QED BY <1>2, <2>2, <2>3 DEF TypeOK, ExportTombstones
  <1>3. CASE MergeBundle(d)
    <2>1. CASE bundle[d] = NoBundle
      BY <1>3, <2>1 DEF TypeOK, MergeBundle
    <2>2. CASE bundle[d] # NoBundle
      <3> DEFINE merged == MergeDictionaryWithTombstones(d, out[d], bundle[d])
      <3>1. merged \in Files
        BY <2>2, MergeType DEF TypeOK
      <3>2. merged.tombs \in TombLog
        BY <3>1 DEF Files
      <3>3. PICK l \in {merged.tombs, log[d]} :
               out' = [out EXCEPT ![d] = merged] /\ log' = [log EXCEPT ![d] = l]
        BY <1>3, <2>2 DEF MergeBundle, WriteLog
      <3> HIDE DEF merged
      <3> QED BY <1>3, <3>1, <3>2, <3>3 DEF TypeOK, MergeBundle
    <2> QED BY <2>1, <2>2
  <1>4. CASE WriteBundle(d)
    BY <1>4 DEF TypeOK, WriteBundle
  <1>5. CASE ImportRefused(d) \/ AbortSync(d)
    <2>1. GiveUp(d) /\ changes' \in Nat
      BY <1>5 DEF TypeOK, ImportRefused, AbortSync
    <2> QED BY <2>1, NoFilesType DEF TypeOK, GiveUp, EndSync
  <1>6. CASE ImportDictionary(d)
    <2>1. out[d].rows \in SUBSET Word
      BY DEF TypeOK, Files
    <2>2. PICK kept \in {live[d] \cap out[d].rows, {}}, gone \in SUBSET Word :
             /\ live' = [live EXCEPT ![d] = kept \cup Converted(out[d].rows)]
             /\ changes' \in Nat
             /\ settled' = [settled EXCEPT ![d] = live'[d] \cup (@ \ gone)]
             /\ EndSync(d)
             /\ buried' \in [Device -> [Word -> Int]]
             /\ readded' \in [Device -> SUBSET Word]
      <3>1. PICK kept \in {live[d] \cap out[d].rows, {}} :
               /\ live' = [live EXCEPT ![d] = kept \cup Converted(out[d].rows)]
               /\ changes' = IF kept = live[d] \cap out[d].rows THEN changes ELSE changes + 1
               /\ settled' = [settled EXCEPT ![d] = live'[d] \cup (@ \ (unread[d] \cup
                                 (IF kept = {} THEN {w \in Word : Imported[w] # w} ELSE {})))]
        BY <1>6 DEF ImportDictionary
      <3>2. unread[d] \cup (IF kept = {} THEN {w \in Word : Imported[w] # w} ELSE {})
               \in SUBSET Word
        BY DEF TypeOK
      <3>3. buried' \in [Device -> [Word -> Int]]
        BY <1>6 DEF ImportDictionary, TypeOK
      <3>4. readded' \in [Device -> SUBSET Word]
        BY <1>6 DEF ImportDictionary, Remade, TypeOK
      <3>5. changes' \in Nat
        BY <3>1 DEF TypeOK
      <3>6. EndSync(d)
        BY <1>6 DEF ImportDictionary
      <3> QED BY <3>1, <3>2, <3>3, <3>4, <3>5, <3>6
    <2>3. kept \cup Converted(out[d].rows) \in SUBSET Word
      BY <2>1, <2>2, ConvertedType
    <2>4. live' \in [Device -> SUBSET Word] /\ live'[d] \in SUBSET Word
      BY <2>2, <2>3 DEF TypeOK
    <2>5. settled' \in [Device -> SUBSET Word]
      BY <2>2, <2>4 DEF TypeOK
    <2> QED BY <2>2, <2>4, <2>5, NoFilesType DEF TypeOK, EndSync
  <1> QED BY <1>1, <1>2, <1>3, <1>4, <1>5, <1>6 DEF SyncStep

\* A recorded removal is a tombstone.
LEMMA RemovalType == ASSUME TypeOK, NEW d \in Device PROVE Removal(d) \in Tombstone
  BY DEF TypeOK, Removal, Tombstone

\* Every step of an editor keeps the types.
LEMMA EditorTypeOK ==
    ASSUME TypeOK, NEW d \in Device, EditorStep(d)
    PROVE  TypeOK'
  <1>1. CASE EditorLoad(d)
    BY <1>1 DEF TypeOK, EditorLoad
  <1>5. CASE EditorLock(d) \/ EditorRelease(d)
    BY <1>5 DEF TypeOK, EditorLock, EditorRelease
  <1>6. CASE DeleteDictionary(d)
    BY <1>6 DEF TypeOK, DeleteDictionary
  <1>2. CASE EditorClose(d)
    BY <1>2 DEF TypeOK, EditorClose
  <1>3. CASE EditorSave(d)
    <2>1. \A w \in Word : log[d][w] # NoTomb => log[d][w].at \in Int
      BY DEF TypeOK, TombLog, Tombstone
    <2>2. buried' \in [Device -> [Word -> Int]]
      BY <1>3, <2>1 DEF TypeOK, EditorSave
    <2>3. readded' \in [Device -> SUBSET Word] /\ settled' \in [Device -> SUBSET Word]
      BY <1>3 DEF TypeOK, EditorSave
    <2> QED BY <1>3, <2>2, <2>3 DEF TypeOK, EditorSave
  <1>4. CASE SyncToStorage(d)
    <2>1. PICK rows \in SUBSET Word :
             /\ view' = [view EXCEPT ![d] = rows]
             /\ WriteLog(d, [w \in Word |->
                   IF w \in view[d] \ rows THEN Winner(log[d][w], Removal(d)) ELSE log[d][w]])
             /\ deleted' = deleted \cup (view[d] \ rows)
             /\ readded' = [e \in Device |-> readded[e] \ (view[d] \ rows)]
      BY <1>4 DEF SyncToStorage
    <2>2. \A w \in Word : Winner(log[d][w], Removal(d)) \in MaybeTomb
      <3> TAKE w \in Word
      <3>1. log[d][w] \in MaybeTomb
        BY DEF TypeOK, TombLog, MaybeTomb
      <3>2. Removal(d) \in MaybeTomb
        BY RemovalType DEF MaybeTomb
      <3> QED BY <3>1, <3>2, WinnerIsOne
    <2> DEFINE l == [w \in Word |->
                       IF w \in view[d] \ rows THEN Winner(log[d][w], Removal(d)) ELSE log[d][w]]
    <2>3. l \in TombLog
      BY <2>2 DEF TypeOK, TombLog, MaybeTomb
    <2>4. PICK m \in {l, log[d]} : log' = [log EXCEPT ![d] = m]
      BY <2>1 DEF WriteLog
    <2> HIDE DEF l
    <2>5. log' \in [Device -> TombLog]
      BY <2>3, <2>4 DEF TypeOK
    <2>6. /\ view' \in [Device -> SUBSET Word] /\ deleted' \in SUBSET Word
          /\ readded' \in [Device -> SUBSET Word]
      BY <2>1 DEF TypeOK
    <2>7. changes' \in Nat /\ UNCHANGED <<now, live, bundle, sync, out, editor, settled, buried,
                                       abandoned, unread>>
      BY <1>4 DEF TypeOK, SyncToStorage
    <2> QED BY <2>5, <2>6, <2>7 DEF TypeOK
  <1> QED BY <1>1, <1>2, <1>3, <1>4, <1>5, <1>6 DEF EditorStep

\* The clock and the transport keep the types.
LEMMA EnvironmentTypeOK ==
    ASSUME TypeOK, Tick \/ \E d, e \in Device : Deliver(d, e)
    PROVE  TypeOK'
  <1>1. CASE Tick
    BY <1>1 DEF TypeOK, Tick
  <1>2. CASE \E d, e \in Device : Deliver(d, e)
    BY <1>2 DEF TypeOK, Deliver
  <1> QED BY <1>1, <1>2

\* Every step, of a sync, an editor or the environment, keeps the types.
LEMMA NextTypeOK == TypeOK /\ [Next]_vars => TypeOK'
  <1> SUFFICES ASSUME TypeOK, [Next]_vars PROVE TypeOK'
    OBVIOUS
  <1>1. CASE UNCHANGED vars
    BY <1>1 DEF TypeOK, vars
  <1> QED BY <1>1, SyncTypeOK, EditorTypeOK, EnvironmentTypeOK DEF Next, DeviceStep

\* The type invariant, for every instance.
THEOREM Typing == Spec => []TypeOK
  BY InitTypeOK, NextTypeOK, PTL DEF Spec

-----------------------------------------------------------------------------
(* The inductive invariant behind the three safety properties.             *)

Running(d) == ~Idle(d)

\* A tombstone, wherever it is, comes from a recorded removal.
TombstonesRecorded ==
    \A d \in Device, w \in Word :
        /\ log[d][w] # NoTomb => w \in deleted
        /\ out[d].tombs[w] # NoTomb => w \in deleted
        /\ bundle[d] # NoBundle /\ bundle[d].tombs[w] # NoTomb => w \in deleted

\* The files a sync carries are unambiguous, like the bundle.
OutUnambiguous ==
    \A d \in Device : \A w \in out[d].rows : out[d].tombs[w] = NoTomb

\* A running sync carries every settled word that it could read.
SettledCarried ==
    \A d \in Device : Running(d) => settled[d] \ deleted \subseteq out[d].rows \cup unread[d]

Due(d, w) == buried[d][w] >= 0 /\ buried[d][w] >= now - Retention

\* A tombstone recent enough to outlive the burial of w on d.
Covers(t, d, w) == t # NoTomb /\ t.at >= buried[d][w]

\* A buried word is out of the file and keeps its tombstone, in the log and in what
\* a sync exported, and a sync does not carry the word.
CoveredWord(d, w) ==
    Due(d, w) => /\ w \notin live[d]
                 /\ Covers(log[d][w], d, w)
                 /\ Running(d) => w \notin out[d].rows
                 /\ sync[d] = "exported" => Covers(out[d].tombs[w], d, w)

BuriedCovered == \A d \in Device, w \in Word : CoveredWord(d, w)

IInv == /\ TypeOK /\ TombstonesRecorded
        /\ BundleUnambiguous /\ OutUnambiguous
        /\ SettledCarried /\ UndeletedWordsKept
        /\ BuriedCovered

-----------------------------------------------------------------------------
(* What the merge does to one word. *)

\* The winner of two tombstones is at least as recent as either.
LEMMA WinnerRecent ==
    ASSUME NEW a \in Tombstone, NEW b \in MaybeTomb
    PROVE  /\ Winner(a, b) \in Tombstone /\ Winner(a, b).at >= a.at
           /\ Winner(b, a) \in Tombstone /\ Winner(b, a).at >= a.at
  <1>1. a # NoTomb /\ a.at \in Nat
    BY NoTombAssumption DEF Tombstone
  <1>2. CASE b = NoTomb
    BY <1>1, <1>2 DEF Winner
  <1>3. CASE b \in Tombstone /\ b # NoTomb
    BY <1>1, <1>3 DEF Winner, TombstoneWinsOver, Tombstone
  <1> QED BY <1>2, <1>3 DEF MaybeTomb

\* A row of either side survives the merge unless a tombstone is known for it; the
\* merged files are unambiguous; the merge invents no tombstone; and a word the
\* exporter has deleted stays out and keeps a tombstone that has not expired.
LEMMA MergeFacts ==
    ASSUME TypeOK, NEW d \in Device, NEW local \in Files, NEW remote \in Files, NEW w \in Word
    PROVE  LET m == MergeDictionaryWithTombstones(d, local, remote)
           IN /\ w \in local.rows \cup remote.rows =>
                    w \in m.rows \/ local.tombs[w] # NoTomb \/ remote.tombs[w] # NoTomb
              /\ w \in m.rows => m.tombs[w] = NoTomb
              /\ m.tombs[w] # NoTomb => local.tombs[w] # NoTomb \/ remote.tombs[w] # NoTomb
              /\ w \notin local.rows /\ local.tombs[w] # NoTomb =>
                    /\ w \notin m.rows
                    /\ local.tombs[w].at >= now - Retention =>
                          m.tombs[w] # NoTomb /\ m.tombs[w].at >= local.tombs[w].at
  <1> DEFINE tombs == MergeDictionaryTombstones(local.tombs, remote.tombs)
             rows == (local.rows \cup remote.rows) \ Erased(d, local, remote, tombs)
             kept == CompactDictionaryTombstones(tombs, rows)
             m == MergeDictionaryWithTombstones(d, local, remote)
  <1>1. m.rows = rows /\ m.tombs = kept
    BY DEF MergeDictionaryWithTombstones
  <1>2. local.tombs[w] \in MaybeTomb /\ remote.tombs[w] \in MaybeTomb
    BY DEF Files, TombLog, MaybeTomb
  <1>3. tombs[w] = Winner(local.tombs[w], remote.tombs[w])
    BY DEF MergeDictionaryTombstones
  <1>4. tombs[w] # NoTomb <=> local.tombs[w] # NoTomb \/ remote.tombs[w] # NoTomb
    BY <1>2, <1>3 DEF Winner, MaybeTomb
  <1> HIDE DEF tombs
  <1>5. w \in rows <=> /\ w \in local.rows \/ w \in remote.rows
                       /\ ~(/\ tombs[w] # NoTomb
                            /\ \/ w \notin local.rows /\ w \in remote.rows
                               \/ w \in local.rows /\ w \notin remote.rows /\ tombs[w].by # d)
    BY DEF Erased
  <1>6. kept[w] = IF tombs[w] # NoTomb /\ (w \in rows \/ Expired(tombs[w]))
                  THEN NoTomb ELSE tombs[w]
    BY DEF CompactDictionaryTombstones
  <1> HIDE DEF rows, kept, m
  <1>7. ASSUME w \notin local.rows, local.tombs[w] # NoTomb
        PROVE  /\ w \notin rows
               /\ local.tombs[w].at >= now - Retention =>
                     kept[w] # NoTomb /\ kept[w].at >= local.tombs[w].at
    <2>1. w \notin rows
      BY <1>4, <1>5, <1>7
    <2>2. local.tombs[w] \in Tombstone
      BY <1>2, <1>7 DEF MaybeTomb
    <2>3. tombs[w] \in Tombstone /\ tombs[w].at >= local.tombs[w].at
      BY <1>2, <1>3, <2>2, WinnerRecent
    <2>4. local.tombs[w].at \in Nat /\ tombs[w].at \in Nat /\ now \in Nat /\ Retention \in Nat
      BY <2>2, <2>3, BoundAssumption DEF Tombstone, TypeOK
    <2> QED BY <1>4, <1>6, <1>7, <2>1, <2>3, <2>4 DEF Expired
  <1> QED BY <1>1, <1>4, <1>5, <1>6, <1>7 DEF m

-----------------------------------------------------------------------------
(* The invariant is inductive: one lemma per part.                          *)

\* The inductive invariant holds initially: no sync runs and nothing is deleted.
LEMMA InitIInv == Init => IInv
  <1> SUFFICES ASSUME Init PROVE IInv
    OBVIOUS
  <1>1. TypeOK
    BY InitTypeOK
  <1>2. \A d \in Device : out[d] = NoFiles /\ log[d] = NoTombs /\ bundle[d] = NoBundle /\ Idle(d)
    BY DEF Init, Idle
  <1>3. TombstonesRecorded /\ OutUnambiguous /\ BundleUnambiguous
    BY <1>2 DEF TombstonesRecorded, OutUnambiguous, BundleUnambiguous, NoFiles, NoTombs
  <1>4. SettledCarried /\ UndeletedWordsKept
    BY <1>2 DEF Init, SettledCarried, UndeletedWordsKept, Running
  <1>5. \A d \in Device, w \in Word : ~Due(d, w)
    BY DEF Init, Due
  <1> QED BY <1>1, <1>3, <1>4, <1>5 DEF IInv, BuriedCovered, CoveredWord

\* The actions that leave the files, the sync and the history alone.
Aside(d) == EditorLoad(d) \/ EditorLock(d) \/ DeleteDictionary(d) \/ EditorRelease(d)

\* Steps that begin or end a sync.
Begins(d) == ExportRows(d) \/ ExportUnread(d)
Ends(d) == ImportDictionary(d) \/ ImportRefused(d) \/ AbortSync(d)

\* A step is one of these.
LEMMA StepCases ==
    ASSUME NEW d \in Device, DeviceStep(d)
    PROVE  \/ Begins(d) \/ ExportTombstones(d) \/ MergeBundle(d) \/ WriteBundle(d)
           \/ Ends(d) \/ Aside(d) \/ SyncToStorage(d) \/ EditorSave(d) \/ EditorClose(d)
  BY DEF DeviceStep, SyncStep, EditorStep, Begins, Ends, Aside

\* A sync begins with rows of the file and knows which ones it lacks.
LEMMA BeginsFacts ==
    ASSUME TypeOK, NEW d \in Device, Begins(d)
    PROVE  \E rows \in SUBSET live[d] : StartSync(d, rows)
  BY StartFacts DEF Begins

\* However a sync ends, it ends.
LEMMA EndsFacts ==
    ASSUME TypeOK, NEW d \in Device, Ends(d)
    PROVE  EndSync(d) /\ Running(d)
  BY DEF Ends, ImportDictionary, ImportRefused, AbortSync, GiveUp, Running, Idle

\* A sync that is given up leaves the rows as they are.
LEMMA GiveUpFacts ==
    ASSUME TypeOK, NEW d \in Device, ImportRefused(d) \/ AbortSync(d)
    PROVE  GiveUp(d)
  BY DEF ImportRefused, AbortSync

\* A log is written as asked, or stays.
LEMMA MergeLog ==
    ASSUME NEW d \in Device, MergeBundle(d), bundle[d] # NoBundle
    PROVE  \E l \in {MergeDictionaryWithTombstones(d, out[d], bundle[d]).tombs, log[d]} :
              log' = [log EXCEPT ![d] = l]
  BY DEF MergeBundle, WriteLog

\* Every step records the words it logs tombstones for as deleted.
LEMMA TombstonesRecordedStep ==
    ASSUME IInv, [Next]_vars
    PROVE  TombstonesRecorded'
  <1> USE DEF IInv
  <1>1. CASE UNCHANGED vars
    BY <1>1 DEF TombstonesRecorded, vars
  <1>2. ASSUME NEW d \in Device, Begins(d)
        PROVE  TombstonesRecorded'
    <2>1. PICK rows \in SUBSET live[d] : StartSync(d, rows)
      BY <1>2, BeginsFacts
    <2> QED BY <2>1 DEF TombstonesRecorded, StartSync, NoTombs, TypeOK
  <1>3. ASSUME NEW d \in Device, ExportTombstones(d)
        PROVE  TombstonesRecorded'
    BY <1>3 DEF TombstonesRecorded, ExportTombstones, ExportDictionaryTombstones, TypeOK
  <1>4. ASSUME NEW d \in Device, MergeBundle(d)
        PROVE  TombstonesRecorded'
    <2>1. CASE bundle[d] = NoBundle
      BY <1>4, <2>1 DEF TombstonesRecorded, MergeBundle
    <2>2. CASE bundle[d] # NoBundle
      <3> DEFINE m == MergeDictionaryWithTombstones(d, out[d], bundle[d])
      <3>1. out[d] \in Files /\ bundle[d] \in Files
        BY <2>2 DEF TypeOK
      <3>2. \A w \in Word : m.tombs[w] # NoTomb => w \in deleted
        BY <2>2, <3>1, MergeFacts DEF TombstonesRecorded
      <3>3. out' = [out EXCEPT ![d] = m]
        BY <1>4, <2>2 DEF MergeBundle
      <3>4. PICK l \in {m.tombs, log[d]} : log' = [log EXCEPT ![d] = l]
        BY <1>4, <2>2, MergeLog
      <3> HIDE DEF m
      <3>5. \A w \in Word : l[w] # NoTomb => w \in deleted
        BY <3>2 DEF TombstonesRecorded
      <3> QED BY <1>4, <3>2, <3>3, <3>4, <3>5 DEF TombstonesRecorded, MergeBundle, TypeOK
    <2> QED BY <2>1, <2>2
  <1>5. ASSUME NEW d \in Device, WriteBundle(d)
        PROVE  TombstonesRecorded'
    BY <1>5 DEF TombstonesRecorded, WriteBundle, TypeOK
  <1>6. ASSUME NEW d \in Device, Ends(d)
        PROVE  TombstonesRecorded'
    <2>1. EndSync(d)
      BY <1>6, EndsFacts
    <2> QED BY <2>1 DEF TombstonesRecorded, EndSync, NoFiles, NoTombs, TypeOK
  <1>7. ASSUME NEW d \in Device, SyncToStorage(d)
        PROVE  TombstonesRecorded'
    <2>1. PICK rows \in SUBSET Word :
             /\ WriteLog(d, [w \in Word |->
                   IF w \in view[d] \ rows THEN Winner(log[d][w], Removal(d)) ELSE log[d][w]])
             /\ deleted' = deleted \cup (view[d] \ rows)
      BY <1>7 DEF SyncToStorage
    <2>2. \A e \in Device, w \in Word : log'[e][w] # NoTomb => w \in deleted'
      BY <2>1 DEF TombstonesRecorded, WriteLog, TypeOK
    <2> QED BY <1>7, <2>1, <2>2 DEF TombstonesRecorded, SyncToStorage
  <1>8. ASSUME NEW d \in Device, Aside(d) \/ EditorSave(d) \/ EditorClose(d)
        PROVE  TombstonesRecorded'
    <2>1. UNCHANGED <<log, out, bundle, deleted>>
      BY <1>8 DEF Aside, EditorLoad, EditorLock, DeleteDictionary, EditorRelease,
                  EditorSave, EditorClose
    <2> QED BY <2>1 DEF TombstonesRecorded
  <1>9. CASE Tick \/ \E d, e \in Device : Deliver(d, e)
    <2>1. CASE Tick
      BY <2>1 DEF TombstonesRecorded, Tick
    <2>2. ASSUME NEW d \in Device, NEW e \in Device, Deliver(d, e)
          PROVE  TombstonesRecorded'
      BY <2>2 DEF TombstonesRecorded, Deliver, TypeOK
    <2> QED BY <1>9, <2>1, <2>2
  <1> QED BY <1>1, <1>2, <1>3, <1>4, <1>5, <1>6, <1>7, <1>8, <1>9, StepCases DEF Next

\* No step makes a bundle, or the files of a running sync, carry a word twice.
LEMMA UnambiguousStep ==
    ASSUME IInv, [Next]_vars
    PROVE  BundleUnambiguous' /\ OutUnambiguous'
  <1> USE DEF IInv, BundleUnambiguous, OutUnambiguous
  <1>1. CASE UNCHANGED vars
    BY <1>1 DEF vars
  <1>2. ASSUME NEW d \in Device, Begins(d)
        PROVE  BundleUnambiguous' /\ OutUnambiguous'
    <2>1. PICK rows \in SUBSET live[d] : StartSync(d, rows)
      BY <1>2, BeginsFacts
    <2> QED BY <2>1 DEF StartSync, NoTombs, TypeOK
  <1>3. ASSUME NEW d \in Device, ExportTombstones(d)
        PROVE  BundleUnambiguous' /\ OutUnambiguous'
    <2>1. \A w \in out[d].rows : w \in Word
      BY DEF TypeOK, Files
    <2> QED BY <1>3, <2>1 DEF ExportTombstones, ExportDictionaryTombstones, TypeOK
  <1>4. ASSUME NEW d \in Device, MergeBundle(d)
        PROVE  BundleUnambiguous' /\ OutUnambiguous'
    <2>1. CASE bundle[d] = NoBundle
      BY <1>4, <2>1 DEF MergeBundle
    <2>2. CASE bundle[d] # NoBundle
      <3> DEFINE m == MergeDictionaryWithTombstones(d, out[d], bundle[d])
      <3>1. out[d] \in Files /\ bundle[d] \in Files
        BY <2>2 DEF TypeOK
      <3>2. m.rows \subseteq Word
        BY <3>1, MergeType DEF Files
      <3>3. \A w \in m.rows : m.tombs[w] = NoTomb
        BY <3>1, <3>2, MergeFacts
      <3>4. out' = [out EXCEPT ![d] = m]
        BY <1>4, <2>2 DEF MergeBundle
      <3> HIDE DEF m
      <3> QED BY <1>4, <3>3, <3>4 DEF MergeBundle, TypeOK
    <2> QED BY <2>1, <2>2
  <1>5. ASSUME NEW d \in Device, WriteBundle(d)
        PROVE  BundleUnambiguous' /\ OutUnambiguous'
    BY <1>5 DEF WriteBundle, TypeOK
  <1>6. ASSUME NEW d \in Device, Ends(d)
        PROVE  BundleUnambiguous' /\ OutUnambiguous'
    <2>1. EndSync(d)
      BY <1>6, EndsFacts
    <2> QED BY <2>1 DEF EndSync, NoFiles, TypeOK
  <1>7. ASSUME NEW d \in Device, Aside(d) \/ SyncToStorage(d) \/ EditorSave(d) \/ EditorClose(d)
        PROVE  BundleUnambiguous' /\ OutUnambiguous'
    <2>1. UNCHANGED <<out, bundle>>
      BY <1>7 DEF Aside, EditorLoad, EditorLock, DeleteDictionary, EditorRelease,
                  SyncToStorage, EditorSave, EditorClose
    <2> QED BY <2>1
  <1>8. CASE Tick \/ \E d, e \in Device : Deliver(d, e)
    <2>1. CASE Tick
      BY <2>1 DEF Tick
    <2>2. ASSUME NEW d \in Device, NEW e \in Device, Deliver(d, e)
          PROVE  BundleUnambiguous' /\ OutUnambiguous'
      BY <2>2 DEF Deliver, TypeOK
    <2> QED BY <1>8, <2>1, <2>2
  <1> QED BY <1>1, <1>2, <1>3, <1>4, <1>5, <1>6, <1>7, <1>8, StepCases DEF Next

\* An import leaves every word that it keeps settled in the file.
LEMMA ImportKeeps ==
    ASSUME IInv, NEW d \in Device, ImportDictionary(d)
    PROVE  SettledCarried' /\ UndeletedWordsKept'
  <1> USE DEF IInv, SettledCarried, UndeletedWordsKept, Running, Idle
  <1>1. PICK kept \in {live[d] \cap out[d].rows, {}} :
           /\ live' = [live EXCEPT ![d] = kept \cup Converted(out[d].rows)]
           /\ settled' = [settled EXCEPT ![d] = live'[d] \cup (@ \ (unread[d] \cup
                             (IF kept = {} THEN {w \in Word : Imported[w] # w} ELSE {})))]
    BY DEF ImportDictionary
  <1>2. EndSync(d) /\ sync[d] = "written"
    BY DEF ImportDictionary
  <1>3. settled[d] \ deleted \subseteq live[d] \cap (out[d].rows \cup unread[d])
    BY <1>2
  <1>4. ASSUME NEW w \in out[d].rows, Imported[w] = w PROVE w \in Converted(out[d].rows)
    <2>1. w # NoWord
      BY ImportAssumption DEF TypeOK, Files
    <2> QED BY <1>4, <2>1 DEF Converted
  <1>5. settled'[d] \ deleted \subseteq live'[d]
    <2>1. settled[d] \subseteq Word
      BY DEF TypeOK
    <2> SUFFICES ASSUME NEW w \in settled'[d], w \notin deleted, w \notin live'[d] PROVE FALSE
      OBVIOUS
    <2>2. w \in settled[d] /\ w \notin unread[d] /\ (kept = {} => Imported[w] = w)
      BY <1>1, <2>1 DEF TypeOK
    <2>3. w \in live[d] \cap out[d].rows
      BY <1>3, <2>2
    <2> QED BY <1>1, <1>4, <2>2, <2>3 DEF TypeOK
  <1>6. \A e \in Device \ {d} : /\ live'[e] = live[e] /\ settled'[e] = settled[e]
                                /\ out'[e] = out[e] /\ unread'[e] = unread[e] /\ sync'[e] = sync[e]
    BY <1>1, <1>2 DEF EndSync, TypeOK
  <1>7. deleted' = deleted /\ sync'[d] = "idle"
    BY <1>2 DEF EndSync, TypeOK
  <1> QED BY <1>5, <1>6, <1>7

\* No step takes a settled word out unless somebody deleted it.
LEMMA SettledStep ==
    ASSUME IInv, [Next]_vars
    PROVE  SettledCarried' /\ UndeletedWordsKept'
  <1> USE DEF IInv, SettledCarried, UndeletedWordsKept, Running, Idle
  <1>1. CASE UNCHANGED vars
    BY <1>1 DEF vars
  <1>2. ASSUME NEW d \in Device, Begins(d)
        PROVE  SettledCarried' /\ UndeletedWordsKept'
    BY <1>2, BeginsFacts DEF StartSync, TypeOK
  <1>3. ASSUME NEW d \in Device, ExportTombstones(d)
        PROVE  SettledCarried' /\ UndeletedWordsKept'
    BY <1>3 DEF ExportTombstones, TypeOK
  <1>4. ASSUME NEW d \in Device, MergeBundle(d)
        PROVE  SettledCarried' /\ UndeletedWordsKept'
    <2>1. CASE bundle[d] = NoBundle
      BY <1>4, <2>1 DEF MergeBundle, TypeOK
    <2>2. CASE bundle[d] # NoBundle
      <3> DEFINE m == MergeDictionaryWithTombstones(d, out[d], bundle[d])
      <3>1. out[d] \in Files /\ bundle[d] \in Files
        BY <2>2 DEF TypeOK
      <3>2. \A w \in Word : w \in out[d].rows \cup bundle[d].rows =>
                                w \in m.rows \/ w \in deleted
        BY <2>2, <3>1, MergeFacts DEF TombstonesRecorded
      <3>3. settled[d] \ deleted \subseteq out[d].rows \cup unread[d] /\ settled[d] \subseteq Word
        BY <1>4 DEF MergeBundle, TypeOK
      <3>4. settled[d] \ deleted \subseteq m.rows \cup (unread[d] \ bundle[d].rows)
        BY <3>2, <3>3
      <3>5. /\ out' = [out EXCEPT ![d] = m]
            /\ unread' = [unread EXCEPT ![d] = @ \ bundle[d].rows]
        BY <1>4, <2>2 DEF MergeBundle
      <3> HIDE DEF m
      <3> QED BY <1>4, <3>4, <3>5 DEF MergeBundle, TypeOK
    <2> QED BY <2>1, <2>2
  <1>5. ASSUME NEW d \in Device, WriteBundle(d)
        PROVE  SettledCarried' /\ UndeletedWordsKept'
    BY <1>5 DEF WriteBundle, TypeOK
  <1>6. ASSUME NEW d \in Device, Ends(d)
        PROVE  SettledCarried' /\ UndeletedWordsKept'
    <2>1. EndSync(d) /\ Running(d)
      BY <1>6, EndsFacts
    <2>2. CASE ImportDictionary(d)
      BY <2>2, ImportKeeps
    <2>3. CASE ImportRefused(d) \/ AbortSync(d)
      <3>1. UNCHANGED <<live, deleted>> /\ settled' = [settled EXCEPT ![d] = @ \cup live[d]]
        BY <2>1, <2>3, GiveUpFacts DEF GiveUp, EndSync
      <3>2. UndeletedWordsKept'
        BY <3>1 DEF TypeOK
      <3>3. SettledCarried'
        BY <2>1, <3>1 DEF EndSync, TypeOK
      <3> QED BY <3>2, <3>3
    <2> QED BY <1>6, <2>2, <2>3 DEF Ends
  <1>7. ASSUME NEW d \in Device, SyncToStorage(d)
        PROVE  SettledCarried' /\ UndeletedWordsKept'
    <2>1. UNCHANGED <<live, out, sync, settled, unread>> /\ deleted \subseteq deleted'
      BY <1>7 DEF SyncToStorage
    <2> QED BY <2>1
  <1>8. ASSUME NEW d \in Device, EditorSave(d)
        PROVE  SettledCarried' /\ UndeletedWordsKept'
    BY <1>8 DEF EditorSave, TypeOK
  <1>9. ASSUME NEW d \in Device, Aside(d) \/ EditorClose(d)
        PROVE  SettledCarried' /\ UndeletedWordsKept'
    <2>1. UNCHANGED <<live, out, sync, settled, deleted, unread>>
      BY <1>9 DEF Aside, EditorLoad, EditorLock, DeleteDictionary, EditorRelease, EditorClose
    <2> QED BY <2>1
  <1>10. CASE Tick \/ \E d, e \in Device : Deliver(d, e)
    <2>1. UNCHANGED <<live, out, sync, settled, deleted, unread>>
      BY <1>10 DEF Tick, Deliver
    <2> QED BY <2>1
  <1> QED BY <1>1, <1>2, <1>3, <1>4, <1>5, <1>6, <1>7, <1>8, <1>9, <1>10, StepCases DEF Next

\* Nothing about the buried words of a device can change in a step that leaves its
\* files, sync and burials alone, whatever the clock does.
LEMMA BuriedUnmoved ==
    ASSUME IInv, NEW d \in Device, now' \in Nat, now' >= now,
           live'[d] = live[d], log'[d] = log[d], out'[d] = out[d],
           sync'[d] = sync[d], buried'[d] = buried[d], NEW w \in Word
    PROVE  CoveredWord(d, w)'
  <1>1. Due(d, w)' => Due(d, w)
    BY BoundAssumption DEF Due, IInv, TypeOK
  <1>2. CoveredWord(d, w)
    BY DEF IInv, BuriedCovered
  <1> QED BY <1>1, <1>2 DEF CoveredWord, Covers, Running, Idle

\* The merge of a sync of d keeps the buried words of d covered.
LEMMA BuriedMerge ==
    ASSUME IInv, NEW d \in Device, MergeBundle(d), NEW w \in Word
    PROVE  CoveredWord(d, w)'
  <1> USE DEF IInv
  <1>1. now' = now /\ UNCHANGED <<live, buried>> /\ sync[d] = "exported" /\ sync'[d] = "merged"
    BY DEF MergeBundle, TypeOK
  <1>2. SUFFICES ASSUME Due(d, w)
                 PROVE  /\ w \notin live[d]
                        /\ Covers(log'[d][w], d, w)
                        /\ w \notin out'[d].rows
    BY <1>1 DEF CoveredWord, Due, Covers, Running, Idle
  <1>3. CoveredWord(d, w)
    BY DEF BuriedCovered
  <1>4. /\ w \notin live[d] /\ Covers(log[d][w], d, w) /\ w \notin out[d].rows
        /\ Covers(out[d].tombs[w], d, w)
    BY <1>1, <1>2, <1>3 DEF CoveredWord, Running, Idle
  <1>5. CASE bundle[d] = NoBundle
    BY <1>4, <1>5 DEF MergeBundle
  <1>6. CASE bundle[d] # NoBundle
    <2> DEFINE m == MergeDictionaryWithTombstones(d, out[d], bundle[d])
    <2>1. out[d] \in Files /\ bundle[d] \in Files
      BY <1>6 DEF TypeOK
    <2>2. out' = [out EXCEPT ![d] = m]
      BY <1>6 DEF MergeBundle
    <2>a. PICK l \in {m.tombs, log[d]} : log' = [log EXCEPT ![d] = l]
      BY <1>6, MergeLog
    <2>3. m \in Files
      BY <2>1, MergeType
    <2>4. out[d].tombs[w] \in Tombstone
      BY <1>4, <2>1 DEF Covers, Files, TombLog
    <2>5. /\ now \in Nat /\ Retention \in Nat /\ buried[d][w] \in Int
          /\ out[d].tombs[w].at \in Nat
      BY <2>4, BoundAssumption DEF TypeOK, Tombstone
    <2>6. out[d].tombs[w].at >= now - Retention
      BY <1>2, <1>4, <2>5 DEF Due, Covers
    <2>7. w \notin m.rows /\ m.tombs[w] # NoTomb /\ m.tombs[w].at >= out[d].tombs[w].at
      BY <1>4, <2>1, <2>6, MergeFacts DEF Covers
    <2>8. m.tombs[w].at \in Nat
      BY <2>3, <2>7 DEF Files, TombLog, Tombstone
    <2> HIDE DEF m
    <2>9. Covers(m.tombs[w], d, w)
      BY <1>4, <2>5, <2>7, <2>8 DEF Covers
    <2> QED BY <1>4, <2>2, <2>a, <2>7, <2>9 DEF TypeOK
  <1> QED BY <1>5, <1>6

\* Recording removals on d keeps its buried words covered.
LEMMA BuriedRecord ==
    ASSUME IInv, NEW d \in Device, SyncToStorage(d), NEW w \in Word
    PROVE  CoveredWord(d, w)'
  <1> USE DEF IInv
  <1>1. UNCHANGED <<now, live, out, sync, buried>>
    BY DEF SyncToStorage
  <1>2. PICK rows \in SUBSET Word :
           WriteLog(d, [v \in Word |->
              IF v \in view[d] \ rows THEN Winner(log[d][v], Removal(d)) ELSE log[d][v]])
    BY DEF SyncToStorage
  <1>3. log'[d][w] \in {Winner(log[d][w], Removal(d)), log[d][w]}
    BY <1>2 DEF WriteLog, TypeOK
  <1>4. ASSUME Covers(log[d][w], d, w) PROVE Covers(log'[d][w], d, w)
    <2>1. log[d][w] \in Tombstone
      BY <1>4 DEF Covers, TypeOK, TombLog
    <2>2. LET t == Winner(log[d][w], Removal(d))
          IN t \in Tombstone /\ t.at >= log[d][w].at
      BY <2>1, RemovalType, WinnerRecent DEF MaybeTomb
    <2>3. \A t \in Tombstone : t # NoTomb /\ t.at \in Nat
      BY NoTombAssumption DEF Tombstone
    <2>4. buried[d][w] \in Int
      BY DEF TypeOK
    <2> QED BY <1>3, <1>4, <2>1, <2>2, <2>3, <2>4 DEF Covers
  <1>5. CoveredWord(d, w)
    BY DEF BuriedCovered
  <1> QED BY <1>1, <1>4, <1>5 DEF CoveredWord, Due, Covers, Running, Idle

\* Saving the rows of an editor of d covers the words it buries.
LEMMA BuriedSave ==
    ASSUME IInv, NEW d \in Device, EditorSave(d), NEW w \in Word
    PROVE  CoveredWord(d, w)'
  <1> USE DEF IInv
  <1>1. UNCHANGED <<now, log, out, sync>>
    BY DEF EditorSave
  <1>2. live'[d] = view[d]
    BY DEF EditorSave, TypeOK
  <1>3. buried'[d][w] = IF w \in view[d] THEN -1
                        ELSE IF w \in live[d] /\ Idle(d) /\ log[d][w] # NoTomb
                             THEN log[d][w].at ELSE buried[d][w]
    BY DEF EditorSave, TypeOK
  <1>4. CoveredWord(d, w)
    BY DEF BuriedCovered
  <1>5. CASE w \in view[d]
    BY <1>3, <1>5 DEF CoveredWord, Due
  <1>6. CASE w \notin view[d] /\ w \in live[d] /\ Idle(d) /\ log[d][w] # NoTomb
    <2>1. log[d][w].at \in Nat
      BY <1>6 DEF TypeOK, TombLog, Tombstone
    <2> QED BY <1>1, <1>2, <1>3, <1>6, <2>1 DEF CoveredWord, Covers, Running, Idle
  <1>7. CASE w \notin view[d] /\ ~(w \in live[d] /\ Idle(d) /\ log[d][w] # NoTomb)
    BY <1>1, <1>2, <1>3, <1>4, <1>7 DEF CoveredWord, Due, Covers, Running, Idle
  <1> QED BY <1>5, <1>6, <1>7

\* The parts of the state of e that the burials of e depend on.
Unmoved(e) == /\ live'[e] = live[e] /\ log'[e] = log[e] /\ out'[e] = out[e]
              /\ sync'[e] = sync[e] /\ buried'[e] = buried[e]

\* A step of one device moves nothing of another.
LEMMA OthersUnmoved ==
    ASSUME TypeOK, NEW d \in Device, DeviceStep(d),
           NEW e \in Device, e # d
    PROVE  Unmoved(e) /\ now' = now
  <1>0. CASE Begins(d)
    BY <1>0, BeginsFacts DEF StartSync, Unmoved, TypeOK
  <1>1. CASE ExportTombstones(d) \/ WriteBundle(d)
    BY <1>1 DEF ExportTombstones, WriteBundle, Unmoved, TypeOK
  <1>2. CASE MergeBundle(d)
    BY <1>2 DEF MergeBundle, WriteLog, Unmoved, TypeOK
  <1>3. CASE Ends(d)
    <2>1. EndSync(d)
      BY <1>3, EndsFacts
    <2>2. live'[e] = live[e] /\ buried'[e] = buried[e]
      BY <1>3 DEF Ends, ImportDictionary, ImportRefused, AbortSync, GiveUp, TypeOK
    <2> QED BY <2>1, <2>2 DEF EndSync, Unmoved, TypeOK
  <1>4. CASE Aside(d) \/ EditorClose(d)
    BY <1>4 DEF Aside, EditorLoad, EditorLock, DeleteDictionary, EditorRelease, EditorClose,
                Unmoved
  <1>5. CASE SyncToStorage(d) \/ EditorSave(d)
    BY <1>5 DEF SyncToStorage, WriteLog, EditorSave, Unmoved, TypeOK
  <1> QED BY <1>0, <1>1, <1>2, <1>3, <1>4, <1>5, StepCases

\* A step of a device keeps its own buried words covered.
LEMMA BuriedOwn ==
    ASSUME IInv, NEW d \in Device, DeviceStep(d), NEW w \in Word
    PROVE  CoveredWord(d, w)'
  <1> USE DEF IInv
  <1>1. CoveredWord(d, w)
    BY DEF BuriedCovered
  <1>2. CASE Begins(d)
    BY <1>1, <1>2, BeginsFacts DEF StartSync, CoveredWord, Due, Covers, Running, Idle, TypeOK
  <1>3. CASE ExportTombstones(d)
    <2>1. /\ out'[d].rows = out[d].rows /\ sync'[d] = "exported" /\ sync[d] = "exporting"
          /\ w \notin out[d].rows => out'[d].tombs[w] = log[d][w]
          /\ UNCHANGED <<now, live, log, buried>>
      BY <1>3 DEF ExportTombstones, ExportDictionaryTombstones, TypeOK
    <2> QED BY <1>1, <2>1 DEF CoveredWord, Due, Covers, Running, Idle
  <1>4. CASE WriteBundle(d)
    <2>1. /\ UNCHANGED <<now, live, log, out, buried>>
          /\ sync[d] = "merged" /\ sync'[d] = "written"
      BY <1>4 DEF WriteBundle, TypeOK
    <2> QED BY <1>1, <2>1 DEF CoveredWord, Due, Covers, Running, Idle
  <1>5. CASE Ends(d)
    <2>1. /\ Running(d) /\ sync'[d] = "idle" /\ UNCHANGED <<now, log>>
      BY <1>5, EndsFacts DEF EndSync, TypeOK
    <2>2. CASE ImportRefused(d) \/ AbortSync(d)
      BY <1>1, <2>1, <2>2, GiveUpFacts DEF GiveUp, CoveredWord, Due, Covers, Running, Idle
    <2>3. CASE ImportDictionary(d)
      <3>1. /\ live'[d] \subseteq live[d] \cup Converted(out[d].rows)
            /\ buried'[d][w] = IF w \in Remade(out[d].rows) THEN -1 ELSE buried[d][w]
        BY <2>3 DEF ImportDictionary, TypeOK
      <3>2. w \in Converted(out[d].rows) => w \in out[d].rows \/ w \in Remade(out[d].rows)
        BY DEF Converted, Remade
      <3> QED BY <1>1, <2>1, <3>1, <3>2 DEF CoveredWord, Due, Covers, Running, Idle
    <2> QED BY <1>5, <2>2, <2>3 DEF Ends
  <1>6. CASE Aside(d) \/ EditorClose(d)
    <2>1. UNCHANGED <<now, live, log, out, sync, buried>>
      BY <1>6 DEF Aside, EditorLoad, EditorLock, DeleteDictionary, EditorRelease, EditorClose
    <2> QED BY <1>1, <2>1 DEF CoveredWord, Due, Covers, Running, Idle
  <1> QED BY <1>2, <1>3, <1>4, <1>5, <1>6, BuriedMerge, BuriedRecord, BuriedSave, StepCases

\* No step brings a buried word back before its tombstone expires.
LEMMA BuriedStep ==
    ASSUME IInv, [Next]_vars
    PROVE  BuriedCovered'
  <1> SUFFICES ASSUME NEW e \in Device, NEW w \in Word PROVE CoveredWord(e, w)'
    BY DEF BuriedCovered
  <1>1. now \in Nat
    BY DEF IInv, TypeOK
  <1>2. CASE UNCHANGED vars
    BY <1>1, <1>2, BuriedUnmoved DEF vars
  <1>3. ASSUME NEW d \in Device, DeviceStep(d)
        PROVE  CoveredWord(e, w)'
    <2>1. CASE e = d
      BY <1>3, <2>1, BuriedOwn
    <2>2. CASE e # d
      <3>1. Unmoved(e) /\ now' = now
        BY <1>3, <2>2, OthersUnmoved DEF IInv
      <3> QED BY <1>1, <3>1, BuriedUnmoved DEF Unmoved
    <2> QED BY <2>1, <2>2
  <1>4. CASE Tick \/ \E d, f \in Device : Deliver(d, f)
    <2>1. now' \in Nat /\ now' >= now /\ UNCHANGED <<live, log, out, sync, buried>>
      BY <1>1, <1>4 DEF Tick, Deliver
    <2> QED BY <2>1, BuriedUnmoved
  <1> QED BY <1>2, <1>3, <1>4 DEF Next

\* The invariant is inductive and holds in every behaviour.
THEOREM Invariance == Spec => []IInv
  <1>1. IInv /\ [Next]_vars => IInv'
    BY NextTypeOK, TombstonesRecordedStep, UnambiguousStep, SettledStep, BuriedStep DEF IInv
  <1> QED BY InitIInv, <1>1, PTL DEF Spec

-----------------------------------------------------------------------------
\* A sync never loses a word that it could read or find in the bundle: whatever the
\* bundles, the other devices, the edits, the importer and the failures, what was in a
\* device's dictionary while no sync ran, no editor took out and nobody deleted is
\* still there.
THEOREM NoUndeletedWordLost == Spec => []UndeletedWordsKept
  <1>1. IInv => UndeletedWordsKept
    BY DEF IInv
  <1> QED BY Invariance, <1>1, PTL

\* A sync never brings back a word its device deleted, until the tombstone expires,
\* an editor of the device saves the word again or the importer makes it of another.
THEOREM NoResurrection == Spec => []DeletedHereStaysDeleted
  <1>1. IInv => DeletedHereStaysDeleted
    BY DEF IInv, BuriedCovered, CoveredWord, Due, DeletedHereStaysDeleted
  <1> QED BY Invariance, <1>1, PTL

\* No bundle says both "row" and "deleted" of a word.
THEOREM BundlesUnambiguous == Spec => []BundleUnambiguous
  <1>1. IInv => BundleUnambiguous
    BY DEF IInv
  <1> QED BY Invariance, <1>1, PTL

=============================================================================
