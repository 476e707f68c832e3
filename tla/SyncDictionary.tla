--------------------------- MODULE SyncDictionary ---------------------------
(***************************************************************************)
(* Encrypted cross-device synchronisation of the user dictionary           *)
(* (src/sync/sync_service.cc, src/sync/sync_dictionary_tombstones.cc) and   *)
(* the two editors that change the same files                              *)
(* (src/gui/dictionary_tool, src/gui/word_register_dialog).                 *)
(*                                                                         *)
(* A word stands for a sync key (reading, surface, pos, locale).  Each     *)
(* device keeps the rows of user_dictionary.db, a log of tombstones and a  *)
(* copy of the bundle file.  PerformSync reads the rows, reads the log,    *)
(* merges with the bundle and saves the log, writes the bundle, and        *)
(* imports the result: nothing makes these steps atomic against an editor  *)
(* of the same device or a sync of another one.  A read of the rows or a    *)
(* write of the log that fails is not noticed, and the sync goes on.        *)
(***************************************************************************)
EXTENDS Integers

CONSTANTS
    Device,     \* device ids, ordered as the strings are ordered
    Word,       \* sync keys
    Imported,   \* Imported[w]: the word the importer makes of a row of w
    NoWord,     \* "the importer refuses the row"
    NoTomb,     \* "no tombstone for this word"
    NoBundle,   \* "no file at sync_file_path"
    Retention,  \* kDictionaryTombstoneRetentionDays, in ticks of the clock
    MaxTime,    \* bound on the clock
    MaxChange,  \* bound on editor sessions, edits and failures
    Shared,     \* TRUE: one file all devices open; FALSE: copies a transport carries
    Overlap     \* TRUE: syncs overlap each other and the editors, as nothing prevents;
                \* FALSE: one thing at a time

ASSUME DeviceAssumption == Device \subseteq Nat
ASSUME ImportAssumption ==
          /\ NoWord \notin Word
          /\ Imported \in [Word -> Word \cup {NoWord}]
          /\ \A w \in Word : Imported[w] # NoWord => Imported[Imported[w]] = Imported[w]
ASSUME NoTombAssumption == NoTomb \notin [at : Nat, by : Device]
ASSUME BoundAssumption == /\ Retention \in Nat /\ MaxTime \in Nat /\ MaxChange \in Nat
                          /\ Shared \in BOOLEAN /\ Overlap \in BOOLEAN

Tombstone == [at : Nat, by : Device]
TombLog == [Word -> Tombstone \cup {NoTomb}]
Files == [rows : SUBSET Word, tombs : TombLog]
ASSUME NoBundleAssumption == NoBundle \notin Files

VARIABLES
    now,      \* wall clock
    live,     \* live[d]: rows of user_dictionary.db
    log,      \* log[d]: dictionary_tombstones.tsv
    bundle,   \* bundle[d]: the file at sync_file_path of d
    sync,     \* sync[d]: how far PerformSync has got
    out,      \* out[d]: local_files, then merged, of the running PerformSync
    editor,   \* editor[d]: "closed", "unlocked" (loaded), "open" (holds the storage lock)
    view,     \* view[d]: rows the editor holds in memory
    changes,  \* editor sessions, edits and failures so far
    \* History variables, read by no action.
    deleted,  \* words an editor of some device removed, with a tombstone or a failed try
    settled,  \* settled[d]: words that were rows of d while no sync of d ran,
              \* and that no editor of d took out since
    buried,   \* buried[d][w]: time of the tombstone with which d deleted w while
              \* no sync of d ran, or -1
    readded,  \* readded[d]: words an editor of d saved again although d had logged
              \* their deletion, and that nobody deleted since
    abandoned, \* words an editor closed without saving their logged removal
    unread    \* unread[d]: words the running sync of d failed to read and did not
              \* find in the bundle either

files == <<live, log, bundle>>
history == <<deleted, settled, buried, readded, abandoned, unread>>
vars == <<now, files, sync, out, editor, view, changes, history>>

NoTombs == [w \in Word |-> NoTomb]
NoFiles == [rows |-> {}, tombs |-> NoTombs]
Idle(d) == sync[d] = "idle"

-----------------------------------------------------------------------------
(* The merge. *)

TombstoneWinsOver(a, b) == a.at > b.at \/ (a.at = b.at /\ a.by > b.by)

Winner(a, b) ==
    CASE a = NoTomb -> b
      [] b = NoTomb -> a
      [] OTHER -> IF TombstoneWinsOver(b, a) THEN b ELSE a

MergeDictionaryTombstones(local, remote) ==
    [w \in Word |-> Winner(local[w], remote[w])]

\* Mutated forms of the next definition: a missing row means a deletion even
\* without a tombstone; deletions made elsewhere are ignored.
ErasedWithoutTombstone(d, local, remote, tombs) ==
    (local.rows \ remote.rows) \cup (remote.rows \ local.rows)
ErasedLocalOnly(d, local, remote, tombs) ==
    {w \in remote.rows \ local.rows : tombs[w] # NoTomb}

\* The words the merge takes out of the union of the two sets of rows.
Erased(d, local, remote, tombs) ==
    {w \in Word : /\ tombs[w] # NoTomb
                  /\ \/ w \notin local.rows /\ w \in remote.rows
                     \/ w \in local.rows /\ w \notin remote.rows /\ tombs[w].by # d}

\* Mutated form: a tombstone expires one tick early.
ExpiredEarly(t) == t.at <= now - Retention

Expired(t) == t.at < now - Retention

CompactDictionaryTombstones(tombs, rows) ==
    [w \in Word |-> IF tombs[w] # NoTomb /\ (w \in rows \/ Expired(tombs[w]))
                    THEN NoTomb ELSE tombs[w]]

MergeDictionaryWithTombstones(d, local, remote) ==
    LET tombs == MergeDictionaryTombstones(local.tombs, remote.tombs)
        rows == (local.rows \cup remote.rows) \ Erased(d, local, remote, tombs)
    IN [rows |-> rows, tombs |-> CompactDictionaryTombstones(tombs, rows)]

ExportDictionaryTombstones(tombs, rows) ==
    [w \in Word |-> IF w \in rows THEN NoTomb ELSE tombs[w]]

-----------------------------------------------------------------------------
Init ==
    /\ now = 0
    /\ live \in [Device -> SUBSET Word]
    /\ log = [d \in Device |-> NoTombs]
    /\ bundle = [d \in Device |-> NoBundle]
    /\ sync = [d \in Device |-> "idle"]
    /\ out = [d \in Device |-> NoFiles]
    /\ editor = [d \in Device |-> "closed"]
    /\ view = [d \in Device |-> {}]
    /\ changes = 0
    /\ deleted = {}
    /\ settled = live
    /\ buried = [d \in Device |-> [w \in Word |-> -1]]
    /\ readded = [d \in Device |-> {}]
    /\ abandoned = {}
    /\ unread = [d \in Device |-> {}]

(* PerformSync of device d, direction BIDIRECTIONAL. *)

StartSync(d, rows) ==
    /\ Idle(d)
    /\ Overlap \/ (editor[d] # "open" /\ \A e \in Device : Idle(e))
    /\ sync' = [sync EXCEPT ![d] = "exporting"]
    /\ out' = [out EXCEPT ![d] = [rows |-> rows, tombs |-> NoTombs]]
    /\ unread' = [unread EXCEPT ![d] = live[d] \ rows]
    /\ UNCHANGED <<now, files, editor, view, deleted, settled, buried, readded, abandoned>>

ExportRows(d) == StartSync(d, live[d]) /\ UNCHANGED changes

\* A failed Load gives an empty dictionary, and the sync goes on with it.
ExportUnread(d) ==
    /\ changes < MaxChange
    /\ changes' = changes + 1
    /\ StartSync(d, {})

ExportTombstones(d) ==
    /\ sync[d] = "exporting"
    /\ sync' = [sync EXCEPT ![d] = "exported"]
    /\ out' = [out EXCEPT ![d] = [rows |-> @.rows,
                                    tombs |-> ExportDictionaryTombstones(log[d], @.rows)]]
    /\ UNCHANGED <<now, files, editor, view, changes, history>>

\* Both writers of the log ignore the error of a write.
WriteLog(d, tombs) == \E l \in {tombs, log[d]} : log' = [log EXCEPT ![d] = l]

\* Without a bundle, local_files is written as it is and the log stays.
MergeBundle(d) ==
    /\ sync[d] = "exported"
    /\ sync' = [sync EXCEPT ![d] = "merged"]
    /\ IF bundle[d] = NoBundle
       THEN UNCHANGED <<out, log, changes, unread>>
       ELSE LET merged == MergeDictionaryWithTombstones(d, out[d], bundle[d])
            IN /\ out' = [out EXCEPT ![d] = merged]
               /\ WriteLog(d, merged.tombs)
               /\ changes' = IF log'[d] = merged.tombs THEN changes ELSE changes + 1
               /\ changes' <= MaxChange
               /\ unread' = [unread EXCEPT ![d] = @ \ bundle[d].rows]
    /\ UNCHANGED <<now, live, bundle, editor, view, deleted, settled, buried,
                   readded, abandoned>>

WriteBundle(d) ==
    /\ sync[d] = "merged"
    /\ sync' = [sync EXCEPT ![d] = "written"]
    /\ bundle' = [e \in Device |-> IF e = d \/ Shared THEN out[d] ELSE bundle[e]]
    /\ UNCHANGED <<now, live, log, out, editor, view, changes, history>>

\* The end of a sync of d, whatever it did.
EndSync(d) ==
    /\ sync' = [sync EXCEPT ![d] = "idle"]
    /\ out' = [out EXCEPT ![d] = NoFiles]
    /\ unread' = [unread EXCEPT ![d] = {}]
    /\ UNCHANGED <<now, log, bundle, editor, view, deleted, abandoned>>

GiveUp(d) ==
    /\ EndSync(d)
    /\ settled' = [settled EXCEPT ![d] = @ \cup live[d]]
    /\ UNCHANGED <<live, buried, readded>>

\* The rows the importer makes of rows: it drops the locale, normalises the reading
\* and leaves out what is not valid.
Converted(rows) == {Imported[w] : w \in rows} \ {NoWord}

\* The words that it makes of rows of other words.
Remade(rows) == {v \in Word : \E w \in rows \ {v} : Imported[w] = v}

\* The rows that are in the merge stay, and what the importer makes of the merge is
\* added; a file that cannot be read is taken for an empty one.
ImportDictionary(d) ==
    /\ sync[d] = "written"
    /\ editor[d] # "open"
    /\ \E kept \in {live[d] \cap out[d].rows, {}} :
         /\ live' = [live EXCEPT ![d] = kept \cup Converted(out[d].rows)]
         /\ changes' = IF kept = live[d] \cap out[d].rows THEN changes ELSE changes + 1
         /\ changes' <= MaxChange
         /\ settled' = [settled EXCEPT ![d] = live'[d] \cup (@ \ (unread[d] \cup
                           (IF kept = {} THEN {w \in Word : Imported[w] # w} ELSE {})))]
    /\ buried' = [buried EXCEPT ![d] = [w \in Word |->
                     IF w \in Remade(out[d].rows) THEN -1 ELSE @[w]]]
    /\ readded' = [readded EXCEPT ![d] = @ \cup
                     {w \in Remade(out[d].rows) \ live[d] : log[d][w] # NoTomb}]
    /\ EndSync(d)

\* "Cannot lock user dictionary": the bundle and the log are already written.
ImportRefused(d) ==
    /\ sync[d] = "written"
    /\ editor[d] = "open"
    /\ GiveUp(d)
    /\ UNCHANGED changes

\* Any other error return of PerformSync, or the end of its process.
AbortSync(d) ==
    /\ ~Idle(d)
    /\ changes < MaxChange
    /\ changes' = changes + 1
    /\ GiveUp(d)

(* The Dictionary Tool and the word register dialog of device d. *)

\* Both load the file before they take its lock, and go on without rows when the
\* file cannot be read.
EditorLoad(d) ==
    /\ editor[d] # "open"
    /\ changes < MaxChange
    /\ changes' = changes + 1
    /\ editor' = [editor EXCEPT ![d] = "unlocked"]
    /\ \E rows \in {live[d], {}} : view' = [view EXCEPT ![d] = rows]
    /\ UNCHANGED <<now, files, sync, out, history>>

EditorLock(d) ==
    /\ editor[d] = "unlocked"
    /\ Overlap \/ Idle(d)
    /\ editor' = [editor EXCEPT ![d] = "open"]
    /\ UNCHANGED <<now, files, sync, out, view, changes, history>>

Removal(d) == [at |-> now, by |-> d]

\* The rows of the table replace those in memory, and the removed ones get a
\* tombstone on disk before the rows are saved, unless the log cannot be written.
SyncToStorage(d) ==
    /\ editor[d] = "open"
    /\ changes < MaxChange
    /\ changes' = changes + 1
    /\ \E rows \in SUBSET Word \ {view[d]} :
         LET removed == view[d] \ rows
         IN /\ view' = [view EXCEPT ![d] = rows]
            /\ WriteLog(d, [w \in Word |->
                   IF w \in removed THEN Winner(log[d][w], Removal(d)) ELSE log[d][w]])
            /\ deleted' = deleted \cup removed
            /\ readded' = [e \in Device |-> readded[e] \ removed]
    /\ UNCHANGED <<now, live, bundle, sync, out, editor, settled, buried, abandoned,
                   unread>>

\* Deleting a whole dictionary records no tombstone.
DeleteDictionary(d) ==
    /\ editor[d] = "open"
    /\ view[d] # {}
    /\ changes < MaxChange
    /\ changes' = changes + 1
    /\ view' = [view EXCEPT ![d] = {}]
    /\ UNCHANGED <<now, files, sync, out, editor, history>>

EditorSave(d) ==
    /\ editor[d] = "open"
    /\ live[d] # view[d]
    /\ live' = [live EXCEPT ![d] = view[d]]
    /\ settled' = [settled EXCEPT ![d] = (@ \cap view[d])
                                          \cup (IF Idle(d) THEN view[d] ELSE {})]
    /\ buried' = [buried EXCEPT ![d] = [w \in Word |->
                     IF w \in view[d] THEN -1
                     ELSE IF w \in live[d] /\ Idle(d) /\ log[d][w] # NoTomb
                          THEN log[d][w].at ELSE @[w]]]
    /\ readded' = [readded EXCEPT ![d] = @ \cup
                     {w \in view[d] \ live[d] : log[d][w] # NoTomb}]
    /\ UNCHANGED <<now, log, bundle, sync, out, editor, view, changes, deleted, abandoned, unread>>

\* SyncNow of the Dictionary Tool saves, gives the lock up while a spawned sync
\* runs, loads again unless the wait times out, and takes the lock back.
EditorRelease(d) ==
    /\ editor[d] = "open"
    /\ view[d] = live[d]
    /\ editor' = [editor EXCEPT ![d] = "unlocked"]
    /\ UNCHANGED <<now, files, sync, out, view, changes, history>>

\* The window closes or the process ends, with or without having saved.
EditorClose(d) ==
    /\ editor[d] # "closed"
    /\ editor' = [editor EXCEPT ![d] = "closed"]
    /\ view' = [view EXCEPT ![d] = {}]
    /\ abandoned' = abandoned \cup (IF editor[d] = "open"
                                    THEN (live[d] \ view[d]) \cap deleted ELSE {})
    /\ UNCHANGED <<now, files, sync, out, changes, deleted, settled, buried, readded, unread>>

(* The environment. *)

Tick ==
    /\ now < MaxTime
    /\ now' = now + 1
    /\ UNCHANGED <<files, sync, out, editor, view, changes, history>>

\* A cloud client carries some copy of the bundle, old or new, to another device.
Deliver(d, e) ==
    /\ ~Shared
    /\ bundle[d] # NoBundle /\ bundle[d] # bundle[e]
    /\ bundle' = [bundle EXCEPT ![e] = bundle[d]]
    /\ UNCHANGED <<now, live, log, sync, out, editor, view, changes, history>>

SyncStep(d) ==
    \/ ExportRows(d) \/ ExportTombstones(d) \/ MergeBundle(d)
    \/ WriteBundle(d) \/ ImportDictionary(d) \/ ImportRefused(d)

EditorStep(d) ==
    \/ EditorLoad(d) \/ EditorLock(d) \/ SyncToStorage(d) \/ DeleteDictionary(d)
    \/ EditorSave(d) \/ EditorRelease(d) \/ EditorClose(d)

DeviceStep(d) == SyncStep(d) \/ ExportUnread(d) \/ AbortSync(d) \/ EditorStep(d)

Next ==
    \/ \E d \in Device : DeviceStep(d)
    \/ Tick
    \/ \E d, e \in Device : Deliver(d, e)

Spec == Init /\ [][Next]_vars

\* Every device syncs again and again (a timer or the user starts each sync, so no
\* device is starved by another), and an editor does not stay open for ever.
FairSpec == Spec /\ \A d \in Device : SF_vars(SyncStep(d)) /\ WF_vars(EditorClose(d))

-----------------------------------------------------------------------------
\* Every variable keeps its type.
TypeOK ==
    /\ now \in Nat
    /\ live \in [Device -> SUBSET Word]
    /\ log \in [Device -> TombLog]
    /\ bundle \in [Device -> Files \cup {NoBundle}]
    /\ sync \in [Device -> {"idle", "exporting", "exported", "merged", "written"}]
    /\ out \in [Device -> Files]
    /\ editor \in [Device -> {"closed", "unlocked", "open"}]
    /\ view \in [Device -> SUBSET Word]
    /\ changes \in Nat
    /\ deleted \in SUBSET Word
    /\ settled \in [Device -> SUBSET Word]
    /\ buried \in [Device -> [Word -> Int]]
    /\ readded \in [Device -> SUBSET Word]
    /\ abandoned \in SUBSET Word
    /\ unread \in [Device -> SUBSET Word]

\* A sync loses no word that it could read: what was in the dictionary of a device
\* while no sync of it ran, no editor of the device took out and nobody recorded a
\* deletion of is still there, whatever bundles, failures and edits the merge met.
\* Given up are the words of a file that the export could not read, unless the bundle
\* has them, and, when the import cannot read the file, those the importer changes.
UndeletedWordsKept == \A d \in Device : settled[d] \ deleted \subseteq live[d]

\* A sync brings back no word that the device itself deleted, until the tombstone
\* expires, an editor of the device saves the word again or the
\* importer makes it of another word, even when other devices still write the word
\* to the bundle.
DeletedHereStaysDeleted ==
    \A d \in Device, w \in Word :
        buried[d][w] >= 0 /\ buried[d][w] >= now - Retention => w \notin live[d]

\* A bundle never carries a row and a tombstone for the same word: the merge,
\* which reads the absence of a row as a deletion, depends on it.
BundleUnambiguous ==
    \A d \in Device : bundle[d] # NoBundle =>
        \A w \in bundle[d].rows : bundle[d].tombs[w] = NoTomb

\* Once edits and failures stop, the devices come to agree, for good, on every word
\* that the importer takes as it is and whose deletion, if any, was saved and not
\* followed by adding the word again: additions reach every device and so do deletions.
\* (A word with a locale never arrives: the importer makes a plain one of it.)
Disputed == {w \in Word : Imported[w] # w} \cup abandoned \cup UNION {readded[d] : d \in Device}

Converges ==
    <>[](\A d, e \in Device : live[d] \ Disputed = live[e] \ Disputed)

\* "re-add on one device wins": the merge takes no word out of the exported rows
\* that the device saved again after it learnt of the deletion.
ReAddWins ==
    [][\A d \in Device : sync[d] = "exported" /\ sync'[d] = "merged"
                            => out[d].rows \cap readded[d] \subseteq out'[d].rows]_vars

\* "compaction: drop tombstones for re-added keys": the log of a device loses no
\* tombstone, short of expiry, of a word that the open Dictionary Tool has removed.
TombstonesOfRemovedWordsKept ==
    [][\A d \in Device, w \in Word :
          (editor[d] = "open" /\ w \notin view[d] /\ log[d][w] # NoTomb /\ ~Expired(log[d][w]))
             => log'[d][w] # NoTomb]_vars

=============================================================================
