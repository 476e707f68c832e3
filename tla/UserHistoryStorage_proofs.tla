---------------------- MODULE UserHistoryStorage_proofs ----------------------
(***************************************************************************)
(* Theorems about UserHistoryStorage, for any entries, forms and bounds:    *)
(*   - every state is well typed;                                          *)
(*   - a cleared entry comes back neither to the memory nor to the file,    *)
(*     whatever is removed or learnt while a task runs;                     *)
(*   - after an orderly end the form chosen last is in the file, whenever   *)
(*     it was chosen;                                                      *)
(*   - memory without unsaved changes is the file, and SYNC_DATA and an     *)
(*     orderly end leave every entry in the file, but for a removal that    *)
(*     came after the copy that was being written;                          *)
(*   - an incomplete load is not saved.                                     *)
(***************************************************************************)
EXTENDS UserHistoryStorage, TLAPS

USE DEF memory, syncer, bounds, history

-----------------------------------------------------------------------------
(* Types, one part of TypeOK at a time. *)

LEMMA TypeInit == Init => TypeOK
<1> SUFFICES ASSUME Init PROVE TypeOK
  OBVIOUS
<1>1. NoEntries \in Entries BY DEF NoEntries, Entries
<1>2. ControlTypeOK BY DEF Init, ControlTypeOK
<1>3. MemoryTypeOK BY <1>1 DEF Init, MemoryTypeOK, Forms
<1>4. FilesTypeOK BY <1>1 DEF Init, FilesTypeOK, Message, Empty, Forms
<1>5. BoundsTypeOK BY HistoryBounds DEF Init, BoundsTypeOK
<1>6. HistoryTypeOK BY <1>4 DEF Init, HistoryTypeOK, Live, Migrated, Forms
<1> QED BY <1>2, <1>3, <1>4, <1>5, <1>6 DEF TypeOK

LEMMA ControlStep == ControlTypeOK /\ [Next]_vars => ControlTypeOK'
<1> SUFFICES ASSUME ControlTypeOK, [Next]_vars PROVE ControlTypeOK'
  OBVIOUS
<1> USE DEF ControlTypeOK
<1>1. CASE Syncer BY <1>1 DEF Syncer, LoadRead, LoadFails, LoadFill, SaveCopy, SaveWrite, SaveMark
<1>2. CASE (\E e \in Entry : Finish(e) \/ ClearHistoryEntry(e)) \/ (\E f \in Form : SetCharacterForm(f))
  BY <1>2 DEF Finish, ClearHistoryEntry, SetCharacterForm
<1>3. CASE AsyncSave \/ SyncDone \/ Reload BY <1>3 DEF AsyncSave, SyncDone, Reload
<1>4. CASE ClearBegin \/ ClearEnd BY <1>4 DEF ClearBegin, ClearEnd, EmptyAll
<1>5. CASE CloseBegin \/ CloseEnd BY <1>5 DEF CloseBegin, CloseEnd, Running
<1>6. CASE Crash \/ Start BY <1>6 DEF Crash, Start
<1>7. CASE UNCHANGED vars BY <1>7 DEF vars
<1> QED BY <1>1, <1>2, <1>3, <1>4, <1>5, <1>6, <1>7 DEF Next, Session

LEMMA MemoryStep == TypeOK /\ [Next]_vars => MemoryTypeOK'
<1> SUFFICES ASSUME TypeOK, [Next]_vars PROVE MemoryTypeOK'
  OBVIOUS
<1> USE DEF TypeOK, MemoryTypeOK
<1>0. NoEntries \in Entries BY DEF NoEntries, Entries
<1>1. CASE LoadFill
  <2>1. dic' \in Entries BY <1>1 DEF LoadFill, FillPart, FilesTypeOK, Message
  <2>2. form' \in Forms BY <1>1 DEF LoadFill, Migrated, FilesTypeOK, Message, Forms
  <2> QED BY <1>1, <2>1, <2>2 DEF LoadFill
<1>2. CASE Syncer /\ ~LoadFill
  BY <1>0, <1>2 DEF Syncer, LoadRead, LoadFails, SaveCopy, SaveWrite, SaveMark
<1>3. CASE Session
  <2>1. CASE \E e \in Entry : Finish(e) \/ ClearHistoryEntry(e)
    <3>1. PICK e \in Entry : Finish(e) \/ ClearHistoryEntry(e) BY <2>1
    <3> QED BY <3>1 DEF Finish, ClearHistoryEntry, Entries
  <2>2. CASE \E f \in Form : SetCharacterForm(f) BY <2>2 DEF SetCharacterForm, Forms
  <2>3. CASE AsyncSave \/ SyncDone \/ Reload \/ ClearBegin \/ CloseBegin
    BY <2>3 DEF AsyncSave, SyncDone, Reload, ClearBegin, CloseBegin
  <2>4. CASE ClearEnd BY <1>0, <2>4 DEF ClearEnd, EmptyAll, Forms
  <2>5. CASE CloseEnd BY <2>5 DEF CloseEnd
  <2> QED BY <1>3, <2>1, <2>2, <2>3, <2>4, <2>5 DEF Session
<1>4. CASE Crash \/ Start BY <1>0, <1>4 DEF Crash, Start, Forms
<1>5. CASE UNCHANGED vars BY <1>5 DEF vars
<1> QED BY <1>1, <1>2, <1>3, <1>4, <1>5 DEF Next

LEMMA FilesStep == TypeOK /\ [Next]_vars => FilesTypeOK'
<1> SUFFICES ASSUME TypeOK, [Next]_vars PROVE FilesTypeOK'
  OBVIOUS
<1> USE DEF TypeOK, FilesTypeOK
<1>0. Empty \in Message BY DEF Empty, Message, NoEntries, Entries, Forms
<1>1. CASE Syncer
  BY <1>0, <1>1 DEF Syncer, LoadRead, LoadFails, LoadFill, SaveCopy, SaveWrite, SaveMark,
     MemoryTypeOK, Message
<1>2. CASE Session
  BY <1>0, <1>2 DEF Session, Finish, ClearHistoryEntry, SetCharacterForm, AsyncSave, SyncDone,
     Reload, ClearBegin, ClearEnd, EmptyAll, CloseBegin, CloseEnd, MemoryTypeOK, Message
<1>3. CASE Crash \/ Start BY <1>0, <1>3 DEF Crash, Start
<1>4. CASE UNCHANGED vars BY <1>4 DEF vars
<1> QED BY <1>1, <1>2, <1>3, <1>4 DEF Next

LEMMA BoundsStep == BoundsTypeOK /\ [Next]_vars => BoundsTypeOK'
<1> SUFFICES ASSUME BoundsTypeOK, [Next]_vars PROVE BoundsTypeOK'
  OBVIOUS
<1> USE HistoryBounds DEF BoundsTypeOK
<1>1. CASE Syncer BY <1>1 DEF Syncer, LoadRead, LoadFails, LoadFill, SaveCopy, SaveWrite, SaveMark
<1>2. CASE Session
  BY <1>2 DEF Session, Finish, ClearHistoryEntry, SetCharacterForm, AsyncSave, SyncDone, Reload,
     ClearBegin, ClearEnd, EmptyAll, CloseBegin, CloseEnd
<1>3. CASE Crash \/ Start BY <1>3 DEF Crash, Start
<1>4. CASE UNCHANGED vars BY <1>4 DEF vars
<1> QED BY <1>1, <1>2, <1>3, <1>4 DEF Next

LEMMA HistoryStep == TypeOK /\ [Next]_vars => HistoryTypeOK'
<1> SUFFICES ASSUME TypeOK, [Next]_vars PROVE HistoryTypeOK'
  OBVIOUS
<1> USE DEF TypeOK, HistoryTypeOK
<1>1. CASE Syncer
  <2>1. CASE LoadFails BY <2>1 DEF LoadFails, Live
  <2>2. CASE LoadFill
    <3>1. want' \subseteq Entry BY <2>2 DEF LoadFill, Live
    <3>2. wantForm' \in Forms BY <2>2 DEF LoadFill, FilesTypeOK, Message, Migrated, Forms
    <3> QED BY <2>2, <3>1, <3>2 DEF LoadFill
  <2>3. CASE LoadRead \/ SaveCopy \/ SaveWrite \/ SaveMark
    BY <2>3 DEF LoadRead, SaveCopy, SaveWrite, SaveMark
  <2> QED BY <1>1, <2>1, <2>2, <2>3 DEF Syncer
<1>2. CASE Session
  BY <1>2 DEF Session, Finish, ClearHistoryEntry, SetCharacterForm, AsyncSave, SyncDone, Reload,
     ClearBegin, ClearEnd, EmptyAll, CloseBegin, CloseEnd, FilesTypeOK, Forms, Live
<1>3. CASE Crash \/ Start BY <1>3 DEF Crash, Start, Live, Migrated, FilesTypeOK, Message, Forms
<1>4. CASE UNCHANGED vars BY <1>4 DEF vars
<1> QED BY <1>1, <1>2, <1>3, <1>4 DEF Next

\* Every reachable state of the storage and its syncer thread is well typed, and no load is
\* canceled unless the session thread waits to clear or to end.
THEOREM Typing == Spec => []TypeOK
<1>1. TypeOK /\ [Next]_vars => TypeOK'
  BY ControlStep, MemoryStep, FilesStep, BoundsStep, HistoryStep DEF TypeOK
<1> QED BY TypeInit, <1>1, PTL DEF Spec

-----------------------------------------------------------------------------
(* A cleared entry stays away. *)

\* The message in the hands of the syncer thread holds no cleared entry either.
ClearedInv ==
    /\ ClearedGone
    /\ task \in {"fill", "write"} => cleared \cap Stored(buf.entries) = {}

\* ClearedGone is kept because Clear waits for the task before it empties the memory and the
\* file: no message read or copied earlier is left.
THEOREM ClearedStaysAway == Spec => []ClearedGone
<1>1. Init => ClearedInv BY DEF Init, ClearedInv, ClearedGone
<1>2. TypeOK /\ ClearedInv /\ [Next]_vars => ClearedInv'
  <2> SUFFICES ASSUME TypeOK, ClearedInv, [Next]_vars PROVE ClearedInv'
    OBVIOUS
  <2> USE DEF ClearedInv, ClearedGone
  <2>0. Stored(NoEntries) = {} /\ Stored(Empty.entries) = {} BY DEF Stored, NoEntries, Empty
  <2>1. CASE LoadRead \/ LoadFails BY <2>0, <2>1 DEF LoadRead, LoadFails
  <2>2. CASE LoadFill
    <3>1. Stored(dic') \subseteq Stored(buf.entries) BY <2>2 DEF LoadFill, FillPart, Stored
    <3> QED BY <2>2, <3>1 DEF LoadFill
  <2>3. CASE SaveCopy BY <2>3 DEF SaveCopy
  <2>4. CASE SaveWrite \/ SaveMark BY <2>4 DEF SaveWrite, SaveMark
  <2>5. CASE \E e \in Entry : Finish(e)
    <3>1. PICK e \in Entry : Finish(e) BY <2>5
    <3>2. Stored(dic') \subseteq Stored(dic) \cup {e}
      BY <3>1 DEF Finish, Stored, TypeOK, MemoryTypeOK, Entries
    <3> QED BY <3>1, <3>2 DEF Finish, Running
  <2>6. CASE \E e \in Entry : ClearHistoryEntry(e)
    <3>1. PICK e \in Entry : ClearHistoryEntry(e) BY <2>6
    <3>2. Stored(dic') \subseteq Stored(dic)
      BY <3>1 DEF ClearHistoryEntry, Stored, TypeOK, MemoryTypeOK, Entries
    <3> QED BY <3>1, <3>2 DEF ClearHistoryEntry
  <2>7. CASE \/ \E f \in Form : SetCharacterForm(f)
             \/ AsyncSave \/ SyncDone \/ Reload \/ ClearBegin \/ CloseBegin
    BY <2>7 DEF SetCharacterForm, AsyncSave, SyncDone, Reload, ClearBegin, CloseBegin, Running
  <2>8. CASE ClearEnd BY <2>0, <2>8 DEF ClearEnd, EmptyAll, Running
  <2>9. CASE CloseEnd BY <2>9 DEF CloseEnd, Running
  <2>10. CASE Crash \/ Start BY <2>0, <2>10 DEF Crash, Start
  <2>11. CASE UNCHANGED vars BY <2>11 DEF vars
  <2> QED BY <2>1, <2>2, <2>3, <2>4, <2>5, <2>6, <2>7, <2>8, <2>9, <2>10, <2>11
          DEF Next, Syncer, Session
<1>3. ClearedInv => ClearedGone BY DEF ClearedInv
<1> QED BY <1>1, <1>2, <1>3, Typing, PTL DEF Spec

-----------------------------------------------------------------------------
(* What is learnt reaches the file. *)

Serving == main \in {"on", "syncing", "closing"}

\* The memory is what these entries say, but for removals that came too late.
Taken(entries) == \A e \in Entry \ late : dic[e] = entries[e]

\* A task holds what the file or the memory has; without unsaved changes the two agree; and
\* but for a load on its way the user should find what is in memory.
SavedInv ==
    /\ task = "fill" => buf = file
    /\ task = "write" => Taken(buf.entries)
    /\ task = "mark" /\ ~untracked => Taken(file.entries)
    /\ Serving /\ task \in {"none", "save", "write"} /\ ~needsSync /\ ~untracked /\ ~partial
          => Taken(file.entries)
    /\ Serving /\ ~untracked /\ ~partial /\ task \notin {"load", "fill"} => want = Live(dic)
    /\ main = "syncing" /\ task = "none" /\ ~failed => ~needsSync
    /\ partial => main \notin {"on", "syncing"} /\ ~needsSync /\ task = "none"
    /\ main \in {"off", "crashed"} => task = "none"
    /\ CloseSavesUpdates

LEMMA TakenFlushed == Taken(file.entries) /\ want = Live(dic) => Flushed
  BY DEF Taken, Flushed, Live

LEMMA SavedInit == Init => SavedInv
<1> SUFFICES ASSUME Init PROVE SavedInv
  OBVIOUS
<1> QED BY DEF Init, SavedInv, Serving, CloseSavesUpdates, Flushed

LEMMA SavedSyncer == TypeOK /\ SavedInv /\ Syncer => SavedInv'
<1> SUFFICES ASSUME TypeOK, SavedInv, Syncer PROVE SavedInv'
  OBVIOUS
<1> USE DEF SavedInv, Serving, Taken, CloseSavesUpdates
<1>1. CASE LoadRead BY <1>1 DEF LoadRead
<1>2. CASE LoadFails BY <1>2 DEF LoadFails, Empty
<1>3. CASE LoadFill
  <2>1. CASE partial' BY <1>3, <2>1 DEF LoadFill, TypeOK, ControlTypeOK
  <2>2. CASE ~partial' BY <1>3, <2>2 DEF LoadFill
  <2> QED BY <2>1, <2>2
<1>4. CASE SaveCopy BY <1>4 DEF SaveCopy
<1>5. CASE SaveWrite BY <1>5 DEF SaveWrite
<1>6. CASE SaveMark BY <1>6 DEF SaveMark
<1> QED BY <1>1, <1>2, <1>3, <1>4, <1>5, <1>6 DEF Syncer

LEMMA SavedSession == TypeOK /\ SavedInv /\ Session => SavedInv'
<1> SUFFICES ASSUME TypeOK, SavedInv, Session PROVE SavedInv'
  OBVIOUS
<1> USE DEF SavedInv, Serving, Taken, CloseSavesUpdates
<1>1. CASE \E e \in Entry : Finish(e)
  <2>1. PICK e \in Entry : Finish(e) BY <1>1
  <2>2. Live(dic') = Live(dic) \cup {e}
    BY <2>1 DEF Finish, Live, TypeOK, MemoryTypeOK, Entries
  <2> QED BY <2>1, <2>2 DEF Finish, Running
<1>2. CASE \E e \in Entry : ClearHistoryEntry(e)
  <2>1. PICK e \in Entry : ClearHistoryEntry(e) BY <1>2
  <2>2. /\ main = "on" /\ main' = main /\ needsSync' = TRUE
        /\ UNCHANGED <<task, buf, file, untracked, partial, failed>>
    BY <2>1 DEF ClearHistoryEntry
  <2>3. CASE /\ dic[e] = "live" /\ dic' = [dic EXCEPT ![e] = "removed"] /\ want' = want \ {e}
             /\ late' = IF task \in {"write", "mark"} THEN late \cup {e} ELSE late
    <3>1. Live(dic') = Live(dic) \ {e}
      BY <2>3 DEF Live, TypeOK, MemoryTypeOK, Entries
    <3>2. \A f \in Entry \ {e} : dic'[f] = dic[f]
      BY <2>3 DEF TypeOK, MemoryTypeOK, Entries
    <3> QED BY <2>2, <2>3, <3>1, <3>2
  <2>4. CASE UNCHANGED <<dic, want, late>>
    BY <2>2, <2>4 DEF Live
  <2> QED BY <2>1, <2>3, <2>4 DEF ClearHistoryEntry
<1>3. CASE \E f \in Form : SetCharacterForm(f) BY <1>3 DEF SetCharacterForm
<1>4. CASE AsyncSave
  <2>1. CASE Dirty /\ ~Running BY <1>4, <2>1 DEF AsyncSave, Running, Live
  <2>2. CASE ~(Dirty /\ ~Running)
    <3>1. task' = task BY <1>4, <2>2 DEF AsyncSave
    <3>2. task = "none" => ~needsSync BY <2>2 DEF Dirty, Running
    <3>3. main = "on" /\ main' \in {"on", "syncing"} BY <1>4 DEF AsyncSave
    <3> QED BY <1>4, <3>1, <3>2, <3>3 DEF AsyncSave, Live
  <2> QED BY <2>1, <2>2
<1>5. CASE SyncDone BY <1>5 DEF SyncDone, Running, Live
<1>6. CASE Reload BY <1>6 DEF Reload, Running
<1>7. CASE ClearBegin \/ CloseBegin BY <1>7 DEF ClearBegin, CloseBegin, Running
<1>8. CASE ClearEnd
  <2>1. Live(NoEntries) = {} BY DEF Live, NoEntries
  <2> QED BY <1>8, <2>1 DEF ClearEnd, EmptyAll, Running, Empty
<1>9. CASE CloseEnd
  <2>1. task = "none" /\ task' = "none" /\ main = "closing" /\ main' = "off"
    BY <1>9 DEF CloseEnd, Running
  <2>2. CASE ~Dirty
    <3>1. UNCHANGED <<file, want, late, failed, untracked, partial, needsSync>>
      BY <1>9, <2>2 DEF CloseEnd, Dirty
    <3>2. ~untracked /\ ~partial => Taken(file.entries) /\ want = Live(dic)
      BY <2>1, <2>2 DEF Dirty
    <3>3. ~untracked /\ ~partial => Flushed
      BY <3>2, TakenFlushed
    <3>4. Flushed' <=> Flushed
      BY <3>1 DEF Flushed, Live
    <3> QED BY <2>1, <3>1, <3>3, <3>4
  <2>3. CASE /\ Dirty /\ file' = [entries |-> dic, form |-> form] /\ ~needsSync'
             /\ UNCHANGED untracked
    <3>1. UNCHANGED <<want, partial>>  BY <1>9 DEF CloseEnd
    <3>2. ~untracked /\ ~partial => want = Live(dic)
      BY <2>1
    <3>3. Live(file'.entries) = Live(dic)
      BY <2>3 DEF Live
    <3>4. ~untracked /\ ~partial => Flushed'
      BY <3>1, <3>2, <3>3 DEF Flushed, Live
    <3> QED BY <2>1, <2>3, <3>1, <3>4
  <2>4. CASE fails < MaxFail /\ fails' = fails + 1 /\ untracked' = (untracked \/ ~failed')
    <3>1. failed' \/ untracked' BY <2>4
    <3>2. partial => ~needsSync' BY <1>9 DEF CloseEnd
    <3> QED BY <1>9, <2>1, <3>1, <3>2 DEF CloseEnd
  <2> QED BY <1>9, <2>2, <2>3, <2>4 DEF CloseEnd
<1> QED BY <1>1, <1>2, <1>3, <1>4, <1>5, <1>6, <1>7, <1>8, <1>9 DEF Session

LEMMA SavedStep == TypeOK /\ SavedInv /\ [Next]_vars => SavedInv'
<1> SUFFICES ASSUME TypeOK, SavedInv, [Next]_vars PROVE SavedInv'
  OBVIOUS
<1>1. CASE Syncer \/ Session BY <1>1, SavedSyncer, SavedSession
<1>2. CASE Crash BY <1>2 DEF Crash, SavedInv, Serving, CloseSavesUpdates
<1>3. CASE Start BY <1>3 DEF Start, SavedInv, Serving, CloseSavesUpdates
<1>4. CASE UNCHANGED vars BY <1>4 DEF vars, SavedInv, Serving, Taken, CloseSavesUpdates, Flushed, Live
<1> QED BY <1>1, <1>2, <1>3, <1>4 DEF Next

LEMMA Saved == Spec => [](TypeOK /\ SavedInv)
<1>1. TypeOK /\ SavedInv /\ [Next]_vars => SavedInv' BY SavedStep
<1> QED BY SavedInit, <1>1, Typing, PTL DEF Spec

\* needs_sync_ is never cleared for a change that is not in the file, other than a removal
\* that came after the copy that was being written.
THEOREM CleanIsSaved == Spec => []CleanMeansSaved
<1>1. TypeOK /\ SavedInv => CleanMeansSaved
  BY DEF SavedInv, CleanMeansSaved, Serving, Running, Taken
<1> QED BY <1>1, Saved, PTL

\* An orderly end that canceled no load leaves every entry in the file, whatever was changed
\* while a task ran, but for such a removal.
THEOREM CloseSaves == Spec => []CloseSavesUpdates
<1>1. TypeOK /\ SavedInv => CloseSavesUpdates BY DEF SavedInv
<1> QED BY <1>1, Saved, PTL

\* SYNC_DATA returns with every entry in the file, even when it found a task running and
\* started none, but for such a removal.
THEOREM SyncDataFlushes == Spec => FlushedOnReturn
<1>1. TypeOK /\ SavedInv /\ [Next]_vars
        => [main = "syncing" /\ main' = "on" /\ ~failed /\ ~untracked
              => Flushed]_vars
  <2> SUFFICES ASSUME SavedInv, [Next]_vars, main = "syncing", main' = "on", ~failed, ~untracked
               PROVE  Flushed
    OBVIOUS
  <2>1. ~Running
    <3>1. CASE Syncer
      BY <3>1 DEF Syncer, LoadRead, LoadFails, LoadFill, SaveCopy, SaveWrite, SaveMark
    <3>2. CASE Session
      BY <3>2 DEF Session, Finish, ClearHistoryEntry, SetCharacterForm, AsyncSave, SyncDone,
         Reload, ClearBegin, ClearEnd, CloseBegin, CloseEnd
    <3>3. CASE Crash \/ Start \/ UNCHANGED vars BY <3>3 DEF Crash, Start, vars
    <3> QED BY <3>1, <3>2, <3>3 DEF Next
  <2>2. Taken(file.entries) /\ want = Live(dic) BY <2>1 DEF SavedInv, Serving, Running
  <2> QED BY <2>2, TakenFlushed
<1> QED BY <1>1, Saved, PTL DEF Spec, FlushedOnReturn

\* A canceled load resets the flag first, so only a character form can make a save write it.
THEOREM IncompleteStaysUnsaved == Spec => IncompleteEntriesNotSynced
<1>1. TypeOK /\ SavedInv /\ [Next]_vars
        => [partial /\ main # "clearing" /\ ~formDirty => file' = file]_vars
  <2> SUFFICES ASSUME SavedInv, [Next]_vars, partial, main # "clearing", ~formDirty
               PROVE  file' = file
    OBVIOUS
  <2>1. task = "none" /\ ~Dirty BY DEF SavedInv, Dirty
  <2>2. CASE Syncer
    BY <2>1, <2>2 DEF Syncer, LoadRead, LoadFails, LoadFill, SaveCopy, SaveWrite, SaveMark
  <2>3. CASE Session
    BY <2>1, <2>3 DEF Session, Finish, ClearHistoryEntry, SetCharacterForm, AsyncSave, SyncDone,
       Reload, ClearBegin, ClearEnd, CloseBegin, CloseEnd
  <2>4. CASE Crash \/ Start \/ UNCHANGED vars BY <2>4 DEF Crash, Start, vars
  <2> QED BY <2>2, <2>3, <2>4 DEF Next
<1> QED BY <1>1, Saved, PTL DEF Spec, IncompleteEntriesNotSynced

-----------------------------------------------------------------------------
(* The forms. *)

Up == main \notin {"off", "crashed"}

\* An unsaved form is the one the user should find.  Without one the file has it, unless the
\* last save failed or is on its way, and so has the memory, unless a load is on its way or
\* was canceled.
FormsInv ==
    /\ partial => task = "none" /\ ~needsSync /\ main \notin {"on", "syncing"}
    /\ ~Up => task = "none"
    /\ task = "fill" => buf = file
    /\ Up /\ formDirty => form = wantForm /\ form # NoForm
    /\ task = "write" /\ ~formDirty => buf.form = form
    /\ ~untracked /\ ~formDirty =>
          /\ task = "mark" => file.form = form
          /\ Up /\ task \notin {"write", "mark"} /\ ~failed => Migrated(file.form, legacy) = wantForm
          /\ Up /\ task \notin {"load", "fill"} /\ ~partial => Migrated(form, legacy) = wantForm
          /\ task = "load" /\ file = Empty => Migrated(form, legacy) = wantForm
    /\ FormsKept

LEMMA FormsInit == Init => FormsInv
  BY DEF Init, FormsInv, FormsKept, Up

LEMMA FormsSyncer == TypeOK /\ FormsInv /\ Syncer => FormsInv'
<1> SUFFICES ASSUME TypeOK, FormsInv, Syncer PROVE FormsInv'
  OBVIOUS
<1> USE DEF FormsInv, FormsKept, Up
<1>1. CASE LoadRead BY <1>1 DEF LoadRead
<1>2. CASE LoadFails
  <2>1. CASE file = Empty
    BY <1>2, <2>1 DEF LoadFails, Empty
  <2>2. CASE untracked' BY <1>2, <2>2 DEF LoadFails
  <2> QED BY <1>2, <2>1, <2>2 DEF LoadFails
<1>3. CASE LoadFill
  <2>0. task = "fill" /\ task' = "none" /\ needsSync' = FALSE /\ Up /\ Up' /\ file' = file /\ buf = file
    BY <1>3 DEF LoadFill
  <2>1. CASE canceled /\ partial' = TRUE /\ UNCHANGED <<form, formDirty, legacy, wantForm>>
    BY <1>3, <2>0, <2>1 DEF LoadFill, TypeOK, ControlTypeOK
  <2>2. CASE /\ form' = Migrated(buf.form, legacy) /\ formDirty' = (form' # buf.form)
             /\ legacy' = NoForm /\ wantForm' = form' /\ partial' = FALSE
    BY <1>3, <2>0, <2>2 DEF LoadFill, Migrated
  <2> QED BY <1>3, <2>1, <2>2 DEF LoadFill
<1>4. CASE SaveCopy BY <1>4 DEF SaveCopy, Migrated
<1>5. CASE SaveWrite
  <2>1. CASE file' = buf /\ task' = "mark" /\ UNCHANGED <<fails, untracked, failed>>
    BY <1>5, <2>1 DEF SaveWrite
  <2>2. CASE task' = "mark" /\ untracked' = TRUE BY <1>5, <2>2 DEF SaveWrite
  <2>3. CASE task' = "none" /\ failed' = TRUE /\ UNCHANGED untracked BY <1>5, <2>3 DEF SaveWrite
  <2> QED BY <1>5, <2>1, <2>2, <2>3 DEF SaveWrite
<1>6. CASE SaveMark BY <1>6 DEF SaveMark
<1> QED BY <1>1, <1>2, <1>3, <1>4, <1>5, <1>6 DEF Syncer

LEMMA FormsSession == TypeOK /\ FormsInv /\ Session => FormsInv'
<1> SUFFICES ASSUME TypeOK, FormsInv, Session PROVE FormsInv'
  OBVIOUS
<1> USE DEF FormsInv, FormsKept, Up
<1>1. CASE \E e \in Entry : Finish(e) \/ ClearHistoryEntry(e)
  BY <1>1 DEF Finish, ClearHistoryEntry, Running
<1>2. CASE \E f \in Form : SetCharacterForm(f)
  BY <1>2, NoFormAssumption DEF SetCharacterForm
<1>3. CASE AsyncSave \/ SyncDone BY <1>3 DEF AsyncSave, SyncDone, Running, Dirty
<1>4. CASE Reload BY <1>4 DEF Reload, Running
<1>5. CASE ClearBegin \/ CloseBegin BY <1>5 DEF ClearBegin, CloseBegin
<1>6. CASE ClearEnd BY <1>6 DEF ClearEnd, EmptyAll, Running, Empty, Migrated
<1>7. CASE CloseEnd
  <2>1. task = "none" /\ main = "closing" /\ main' = "off" /\ UNCHANGED <<form, legacy, wantForm, partial, task, buf>>
    BY <1>7 DEF CloseEnd, Running
  <2>2. CASE ~Dirty BY <1>7, <2>1, <2>2 DEF CloseEnd, Dirty
  <2>3. CASE /\ Dirty /\ file' = [entries |-> dic, form |-> form]
             /\ ~needsSync' /\ ~formDirty' /\ ~failed' /\ UNCHANGED <<fails, untracked>>
    <3>1. ~partial \/ formDirty BY <2>3 DEF Dirty
    <3>2. ~untracked => Migrated(form, legacy) = wantForm
      BY <2>1, <3>1 DEF Migrated
    <3>3. file'.form = form BY <2>3
    <3> QED BY <2>1, <2>3, <3>2, <3>3
  <2>4. CASE /\ Dirty /\ formDirty' = FALSE
             /\ needsSync' = (needsSync /\ failed')
             /\ untracked' = (untracked \/ ~failed')
    <3>1. failed' \/ untracked' BY <2>4
    <3> QED BY <2>1, <2>4, <3>1
  <2> QED BY <1>7, <2>2, <2>3, <2>4 DEF CloseEnd
<1> QED BY <1>1, <1>2, <1>3, <1>4, <1>5, <1>6, <1>7 DEF Session

LEMMA FormsStep == TypeOK /\ FormsInv /\ [Next]_vars => FormsInv'
<1> SUFFICES ASSUME TypeOK, FormsInv, [Next]_vars PROVE FormsInv'
  OBVIOUS
<1>1. CASE Syncer \/ Session BY <1>1, FormsSyncer, FormsSession
<1>2. CASE Crash BY <1>2 DEF Crash, FormsInv, FormsKept, Up
<1>3. CASE Start BY <1>3 DEF Start, FormsInv, FormsKept, Up, Migrated, Empty
<1>4. CASE UNCHANGED vars BY <1>4 DEF vars, FormsInv, FormsKept, Up
<1> QED BY <1>1, <1>2, <1>3, <1>4 DEF Next

\* LoadStorage, Save and the destructor together lose no form that an orderly end could have
\* saved, even of forms learnt while a load or a save is under way: the dirty flag of the
\* forms, cleared with the copy, is set again by whatever makes the copy out of date.
THEOREM FormsReachTheFile == Spec => []FormsKept
<1>1. FormsInv => FormsKept BY DEF FormsInv
<1> QED BY <1>1, FormsInit, FormsStep, Typing, PTL DEF Spec

=============================================================================
