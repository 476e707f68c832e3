------------------------- MODULE UserHistoryStorage -------------------------
(***************************************************************************)
(* The learning history of the converter: UserHistoryStorage, its syncer    *)
(* thread, and the session thread that calls it                             *)
(* (src/prediction/user_history_storage.cc, user_history_predictor.cc,      *)
(* src/config/character_form_manager.cc, legacy_character_form_db.cc).      *)
(*                                                                         *)
(* The session thread learns, deletes and clears entries and starts tasks;  *)
(* one task at a time loads or saves the file.  The mutex makes the fill of *)
(* dic_ by a load and the copy of dic_ by a save atomic; reading and        *)
(* writing the file, and the flags needs_sync_ and canceled_, are outside   *)
(* it.  The character forms travel in the same file with a dirty flag of    *)
(* their own.                                                               *)
(***************************************************************************)
EXTENDS Naturals

CONSTANTS
    Entry,       \* (key, value) pairs
    Form,        \* character forms the user can choose
    NoForm,      \* no form learned
    Legacy,      \* the form in a cform.db left by an older version, or NoForm
    MaxFail,     \* bound on loads and saves that fail
    MaxCrash,    \* bound on crashes
    MaxReload    \* bound on RELOAD commands

ASSUME HistoryBounds == /\ MaxFail \in Nat /\ MaxCrash \in Nat /\ MaxReload \in Nat
ASSUME NoFormAssumption == NoForm \notin Form

VARIABLES
    main,      \* what the session thread does
    dic,       \* dic_
    form,      \* CharacterFormManager's storage
    needsSync, \* needs_sync_
    formDirty, \* dirty_ of the character forms
    canceled,  \* canceled_
    task,      \* what the syncer thread does
    buf,       \* the UserHistory message the syncer thread holds
    file,      \* the history file; Empty when there is none
    legacy,    \* cform.db
    fails, crashes, reloads,
    \* History variables, read by no action.
    want,      \* entries the user should find
    wantForm,  \* form the user should find
    cleared,   \* entries cleared from memory and file, and not learnt since
    partial,   \* dic_ holds part of what a canceled load read
    late,      \* entries removed after the copy that a save wrote, and written by none since
    untracked, \* the file could not be read or removed, which no flag records
    failed     \* the last save that had to write failed

memory == <<dic, form, needsSync, formDirty>>
syncer == <<task, buf, canceled>>
bounds == <<fails, crashes, reloads>>
history == <<want, wantForm, cleared, partial, late, untracked, failed>>
vars == <<main, memory, syncer, file, legacy, bounds, history>>

\* An entry the user removed stays in dic_ and in the file, marked as removed.
Entries == [Entry -> {"absent", "live", "removed"}]
Forms == Form \cup {Legacy, NoForm}
Message == [entries : Entries, form : Forms]

ControlTypeOK ==
    /\ main \in {"on", "syncing", "clearing", "closing", "off", "crashed"}
    /\ task \in {"none", "load", "fill", "save", "write", "mark"}
    /\ canceled \in BOOLEAN /\ (main \in {"on", "syncing"} => ~canceled)
MemoryTypeOK ==
    /\ dic \in Entries /\ form \in Forms /\ needsSync \in BOOLEAN /\ formDirty \in BOOLEAN
FilesTypeOK == buf \in Message /\ file \in Message /\ legacy \in {Legacy, NoForm}
BoundsTypeOK == fails \in 0..MaxFail /\ crashes \in 0..MaxCrash /\ reloads \in 0..MaxReload
HistoryTypeOK ==
    /\ want \subseteq Entry /\ wantForm \in Forms /\ cleared \subseteq Entry /\ late \subseteq Entry
    /\ partial \in BOOLEAN /\ untracked \in BOOLEAN /\ failed \in BOOLEAN

TypeOK ==
    ControlTypeOK /\ MemoryTypeOK /\ FilesTypeOK /\ BoundsTypeOK /\ HistoryTypeOK

NoEntries == [e \in Entry |-> "absent"]
Empty == [entries |-> NoEntries, form |-> NoForm]
Live(entries) == {e \in Entry : entries[e] = "live"}
Stored(entries) == {e \in Entry : entries[e] # "absent"}

\* MergeMissingCharacterForms: the form of the file, or else that of cform.db.
Migrated(saved, old) == IF saved = NoForm THEN old ELSE saved

Init ==
    /\ main = "off" /\ dic = NoEntries /\ form = NoForm /\ needsSync = FALSE /\ formDirty = FALSE
    /\ canceled = FALSE /\ task = "none" /\ buf = Empty
    /\ file \in [entries : Entries, form : Form \cup {NoForm}] /\ legacy = Legacy
    /\ fails = 0 /\ crashes = 0 /\ reloads = 0
    /\ want = Live(file.entries) /\ wantForm = Migrated(file.form, legacy) /\ cleared = {}
    /\ partial = FALSE /\ late = {} /\ untracked = FALSE /\ failed = FALSE

Running == task # "none"
Dirty == needsSync \/ formDirty

-----------------------------------------------------------------------------
(* The syncer thread. *)

\* Load reads the file outside the mutex.
LoadRead ==
    /\ task = "load" /\ file # Empty
    /\ task' = "fill" /\ buf' = file
    /\ UNCHANGED <<main, memory, canceled, file, legacy, bounds, history>>

\* The file is missing, unreadable or broken: dic_ is emptied and the forms stay.
LoadFails ==
    /\ task = "load"
    /\ \/ file = Empty /\ UNCHANGED <<fails, untracked>>
       \/ fails < MaxFail /\ fails' = fails + 1 /\ untracked' = TRUE
    /\ task' = "none" /\ dic' = NoEntries /\ needsSync' = FALSE
    /\ want' = Live(file.entries) /\ late' = {}
    /\ UNCHANGED <<main, form, formDirty, canceled, buf, file, legacy, crashes, reloads,
                   wantForm, cleared, partial, failed>>

\* A canceled load leaves some of the entries out.
FillPart ==
    \E part \in Entries :
        /\ part # buf.entries /\ \A e \in Entry : part[e] \in {"absent", buf.entries[e]}
        /\ dic' = part

\* Mutant: needs_sync_ is reset when the load has succeeded.
LoadFillLateReset ==
    /\ task = "fill" /\ task' = "none"
    /\ \/ /\ canceled /\ FillPart /\ partial' = TRUE
          /\ UNCHANGED <<needsSync, form, formDirty, legacy, want, wantForm>>
       \/ /\ ~canceled \/ buf.entries = NoEntries
          /\ dic' = buf.entries /\ form' = Migrated(buf.form, legacy) /\ needsSync' = FALSE
          /\ formDirty' = (form' # buf.form) /\ legacy' = NoForm /\ partial' = FALSE
          /\ want' = Live(dic') /\ wantForm' = form'
    /\ late' = {}
    /\ UNCHANGED <<main, buf, canceled, file, bounds, cleared, untracked, failed>>

\* The critical section of Load: dic_ is refilled until the load is canceled, and
\* LoadStorage takes over the forms, those of cform.db once.  What was removed since
\* the load started is given up.
LoadFill ==
    /\ task = "fill" /\ task' = "none" /\ needsSync' = FALSE /\ late' = {}
    /\ \/ /\ canceled /\ FillPart /\ partial' = TRUE
          /\ UNCHANGED <<form, formDirty, legacy, want, wantForm>>
       \/ /\ ~canceled \/ buf.entries = NoEntries
          /\ dic' = buf.entries /\ form' = Migrated(buf.form, legacy)
          /\ formDirty' = (form' # buf.form) /\ legacy' = NoForm /\ partial' = FALSE
          /\ want' = Live(dic') /\ wantForm' = form'
    /\ UNCHANGED <<main, buf, canceled, file, bounds, cleared, untracked, failed>>

\* Mutant: the flag is cleared with the copy, before the file is written.
SaveCopyClears ==
    /\ task = "save" /\ Dirty
    /\ task' = "write" /\ buf' = [entries |-> dic, form |-> form]
    /\ needsSync' = FALSE /\ formDirty' = FALSE
    /\ UNCHANGED <<main, dic, form, canceled, file, legacy, bounds, history>>

\* The critical section of Save copies the entries and the forms.  (A scheduled save is
\* still due when it starts: Clear and the destructor wait for it.)
SaveCopy ==
    /\ task = "save" /\ Dirty
    /\ task' = "write" /\ buf' = [entries |-> dic, form |-> form]
    /\ formDirty' = FALSE
    /\ UNCHANGED <<main, dic, form, needsSync, canceled, file, legacy, bounds, history>>

\* The file is replaced atomically, or removed when there is nothing to keep; an error of
\* the removal is ignored, any other ends the task.
SaveWrite ==
    /\ task = "write"
    /\ \/ /\ file' = buf /\ task' = "mark"
          /\ late' = {e \in late : dic[e] # buf.entries[e]}
          /\ UNCHANGED <<fails, untracked, failed>>
       \/ /\ fails < MaxFail /\ fails' = fails + 1 /\ UNCHANGED <<file, late>>
          /\ \/ buf = Empty /\ task' = "mark" /\ untracked' = TRUE /\ UNCHANGED failed
             \/ buf # Empty /\ task' = "none" /\ failed' = TRUE /\ UNCHANGED untracked
    /\ UNCHANGED <<main, memory, buf, canceled, legacy, crashes, reloads, want, wantForm,
                   cleared, partial>>

\* The flag is cleared after the write, outside the mutex.
SaveMark ==
    /\ task = "mark"
    /\ task' = "none" /\ needsSync' = FALSE /\ failed' = FALSE
    /\ UNCHANGED <<main, dic, form, formDirty, buf, canceled, file, legacy, bounds, want,
                   wantForm, cleared, partial, late, untracked>>

Syncer == LoadRead \/ LoadFails \/ LoadFill \/ SaveCopy \/ SaveWrite \/ SaveMark

-----------------------------------------------------------------------------
(* The session thread. *)

\* Finish learns an entry, unless a task runs (IsSyncerInCriticalSection).
Finish(e) ==
    /\ main = "on" /\ ~Running
    /\ dic' = [dic EXCEPT ![e] = "live"] /\ needsSync' = TRUE
    /\ want' = want \cup {e} /\ cleared' = cleared \ {e} /\ late' = late \ {e}
    /\ UNCHANGED <<main, form, formDirty, syncer, file, legacy, bounds, wantForm, partial,
                   untracked, failed>>

\* ClearHistoryEntry, whatever task runs, removes an entry the user was shown.
ClearHistoryEntry(e) ==
    /\ main = "on" /\ needsSync' = TRUE
    /\ \/ /\ dic[e] = "live" /\ dic' = [dic EXCEPT ![e] = "removed"] /\ want' = want \ {e}
          /\ late' = IF task \in {"write", "mark"} THEN late \cup {e} ELSE late
       \/ dic[e] # "live" /\ UNCHANGED <<dic, want, late>>
    /\ UNCHANGED <<main, form, formDirty, syncer, file, legacy, bounds, wantForm, cleared,
                   partial, untracked, failed>>

\* A commit changes a character form.
SetCharacterForm(f) ==
    /\ main = "on" /\ f # form
    /\ form' = f /\ formDirty' = TRUE /\ wantForm' = f
    /\ UNCHANGED <<main, dic, needsSync, syncer, file, legacy, bounds, want, cleared, partial,
                   late, untracked, failed>>

\* AsyncSave, which does nothing when a task runs.  SYNC_DATA then waits for the task.
AsyncSave ==
    /\ main = "on" /\ main' \in {"on", "syncing"}
    /\ task' = IF Dirty /\ ~Running THEN "save" ELSE task
    /\ UNCHANGED <<memory, buf, canceled, file, legacy, bounds, history>>
\* Mutant: SYNC_DATA does not wait.
SyncDoneAtOnce ==
    /\ main = "syncing"
    /\ main' = "on"
    /\ UNCHANGED <<memory, syncer, file, legacy, bounds, history>>

SyncDone ==
    /\ main = "syncing" /\ ~Running
    /\ main' = "on"
    /\ UNCHANGED <<memory, syncer, file, legacy, bounds, history>>

\* Reload waits for the task and loads the file again, giving up what was not saved.
Reload ==
    /\ main = "on" /\ ~Running /\ reloads < MaxReload
    /\ reloads' = reloads + 1 /\ task' = "load"
    /\ UNCHANGED <<main, memory, buf, canceled, file, legacy, fails, crashes, history>>

\* Clear cancels a load, waits, and empties the memory and then the file.
ClearBegin ==
    /\ main = "on"
    /\ main' = "clearing" /\ canceled' = TRUE
    /\ UNCHANGED <<memory, task, buf, file, legacy, bounds, history>>

EmptyAll ==
    /\ main' = "on" /\ dic' = NoEntries /\ form' = NoForm /\ partial' = FALSE
    /\ needsSync' = FALSE /\ formDirty' = FALSE /\ failed' = FALSE
    /\ want' = {} /\ wantForm' = legacy /\ late' = {}
    /\ \/ file' = Empty /\ cleared' = Entry /\ UNCHANGED <<fails, untracked>>
       \/ fails < MaxFail /\ fails' = fails + 1 /\ untracked' = TRUE /\ UNCHANGED <<file, cleared>>
    /\ UNCHANGED <<task, buf, legacy, crashes, reloads>>

\* Mutant: Clear does not wait for the task it canceled.
ClearWithoutWait == main = "clearing" /\ canceled' = FALSE /\ EmptyAll

ClearEnd == main = "clearing" /\ ~Running /\ canceled' = FALSE /\ EmptyAll

\* The destructor cancels a load, waits, and saves what is unsaved.
CloseBegin ==
    /\ main = "on"
    /\ main' = "closing" /\ canceled' = Running
    /\ UNCHANGED <<memory, task, buf, file, legacy, bounds, history>>

\* Mutant: the destructor leaves the saving to the syncer thread.
CloseWithoutSave ==
    /\ main = "closing" /\ ~Running
    /\ main' = "off"
    /\ UNCHANGED <<memory, syncer, file, legacy, bounds, history>>

CloseEnd ==
    /\ main = "closing" /\ ~Running
    /\ main' = "off"
    /\ \/ ~Dirty /\ UNCHANGED <<file, late, fails, untracked, failed, needsSync, formDirty>>
       \/ /\ Dirty /\ file' = [entries |-> dic, form |-> form] /\ late' = {}
          /\ needsSync' = FALSE /\ formDirty' = FALSE /\ failed' = FALSE
          /\ UNCHANGED <<fails, untracked>>
       \/ /\ Dirty /\ fails < MaxFail /\ fails' = fails + 1 /\ formDirty' = FALSE
          /\ failed' = ([entries |-> dic, form |-> form] # Empty)
          /\ needsSync' = (needsSync /\ failed') /\ untracked' = (untracked \/ ~failed')
          /\ UNCHANGED <<file, late>>
    /\ UNCHANGED <<dic, form, syncer, legacy, crashes, reloads, want, wantForm, cleared, partial>>

Crash ==
    /\ main \notin {"off", "crashed"} /\ crashes < MaxCrash
    /\ crashes' = crashes + 1
    /\ main' = "crashed" /\ task' = "none"
    /\ want' = Live(file.entries) /\ wantForm' = Migrated(file.form, legacy)
    /\ UNCHANGED <<memory, buf, canceled, file, legacy, fails, reloads, cleared, partial,
                   late, untracked, failed>>

\* A new process; the constructor starts to load.
Start ==
    /\ main \in {"off", "crashed"}
    /\ main' = "on" /\ task' = "load" /\ canceled' = FALSE /\ buf' = Empty
    /\ dic' = NoEntries /\ form' = NoForm /\ needsSync' = FALSE /\ formDirty' = FALSE
    /\ want' = Live(file.entries) /\ wantForm' = Migrated(file.form, legacy)
    /\ partial' = FALSE /\ late' = {} /\ untracked' = FALSE /\ failed' = FALSE
    /\ UNCHANGED <<file, legacy, bounds, cleared>>

Session ==
    \/ \E e \in Entry : Finish(e) \/ ClearHistoryEntry(e)
    \/ \E f \in Form : SetCharacterForm(f)
    \/ AsyncSave \/ SyncDone \/ Reload
    \/ ClearBegin \/ ClearEnd \/ CloseBegin \/ CloseEnd

Next == Syncer \/ Session \/ Crash \/ Start

Spec == Init /\ [][Next]_vars

-----------------------------------------------------------------------------
(* Correctness. *)

\* Memory without unsaved changes is what the file says, whatever loads and saves
\* came before: needs_sync_ is never cleared for a change that is not in the file,
\* other than a removal that came after the copy that was being written.
CleanMeansSaved ==
    main = "on" /\ ~Running /\ ~needsSync /\ ~untracked =>
        \A e \in Entry \ late : dic[e] = file.entries[e]

\* The file holds the entries the user should find, and none that was removed in time.
Flushed == Live(file.entries) \ late = want \ late

\* ~UserHistoryStorage: "Call Saves() just in case as the internal data may be updated
\* while syncer thread is running."  An orderly end that canceled no load leaves the
\* history in the file, also what was changed while a task ran, but for such removals.
CloseSavesUpdates == main = "off" /\ ~failed /\ ~untracked /\ ~partial => Flushed

\* The same for every update.
CloseSavesAllUpdates ==
    main = "off" /\ ~failed /\ ~untracked /\ ~partial => Live(file.entries) = want

\* SYNC_DATA returns with the history in the file, which the sync exports, also when it
\* found another task running and started none.
FlushedOnReturn ==
    [][main = "syncing" /\ main' = "on" /\ ~failed /\ ~untracked => Flushed]_vars

\* A cleared history stays cleared: neither a load nor a save that was on its way when
\* the user cleared it brings an entry back to the memory or to the file.
ClearedGone == cleared \cap (Stored(dic) \cup Stored(file.entries)) = {}

\* Load: "When AsyncLoad is canceled, dic_ has incomplete data, so must not be synced."
\* Only Clear, which empties dic_ first, writes the file then.
IncompleteNotSynced == [][partial /\ main # "clearing" => file' = file]_vars

\* The same as long as no unsaved character form makes the destructor save.
IncompleteEntriesNotSynced ==
    [][partial /\ main # "clearing" /\ ~formDirty => file' = file]_vars

\* LoadStorage: "the merged forms are marked dirty and written by the next
\* UserHistoryStorage::Save()".  After an orderly end the form the user chose last, or the
\* one the last load took over from the file or from cform.db, is in the file, or still in
\* a cform.db that no load has read.
FormsKept ==
    main = "off" /\ ~failed /\ ~untracked => Migrated(file.form, legacy) = wantForm

=============================================================================
