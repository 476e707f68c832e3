-------------------------- MODULE SyncRunner_proofs --------------------------
(***************************************************************************)
(* Theorems about SyncRunner, for any runners and phrases:                 *)
(*   - every state is well typed;                                          *)
(*   - without kills and timeouts, a lock that is set has a holder that    *)
(*     will clear it, however many sync processes run at once;             *)
(*   - one sync process at a time, killed or timed out anywhere, with a    *)
(*     converter that may stop at any step and reads and writes of the     *)
(*     history that may fail unnoticed, loses nothing the user committed   *)
(*     and merges both ways, but for what such a failure has exposed;      *)
(* and about SyncPoll, the daemon that starts these processes, for any     *)
(* devices, words and uses:                                                *)
(*   - the saved fingerprints mean what EvaluateIntervalSync takes them to *)
(*     mean, the settings survive a sync unless they were saved during it, *)
(*     and nothing disappears.                                             *)
(* The two modules share no name.                                          *)
(***************************************************************************)
EXTENDS SyncRunner, SyncPoll, TLAPS

USE DEF store, converter, local, runner, bounds

-----------------------------------------------------------------------------
(* Types, one part of TypeOK at a time. *)

LEMMA TypeInit == Init => TypeOK
<1> SUFFICES ASSUME Init PROVE TypeOK
  OBVIOUS
<1>1. ConverterTypeOK BY DEF Init, ConverterTypeOK
<1>2. RunnerTypeOK BY DEF Init, RunnerTypeOK, Steps
<1>3. FilesTypeOK BY DEF Init, FilesTypeOK
<1>4. BoundsTypeOK BY RunnerBounds DEF Init, BoundsTypeOK
<1> QED BY <1>1, <1>2, <1>3, <1>4 DEF TypeOK

\* What the user, the converter, the clock and the overlay do.
LEMMA TypeEnvironment ==
    ASSUME TypeOK, User \/ Converter \/ Spawn \/ Suspend \/ PollOverlay
    PROVE  TypeOK'
<1> USE DEF User, Type, Commit, Converter, DropSessions, Stop, Crash, Restart, Spawn, Start,
            Suspend, PollOverlay, StartConverter, LoadHistory, SaveHistory, Unnoticed
<1>1. ConverterTypeOK' BY DEF TypeOK, ConverterTypeOK
<1>2. RunnerTypeOK'
  <2>0. ASSUME NEW p \in Phrase, Commit(p) PROVE RunnerTypeOK'
    BY <2>0 DEF TypeOK, ConverterTypeOK, RunnerTypeOK, PastFlush
  <2>1. CASE Spawn
    <3>1. PICK r \in Runner, m \in {"daemon", "now", "force"} : Start(r, m)
      BY <2>1 DEF Spawn
    <3> QED BY <3>1 DEF TypeOK, RunnerTypeOK, Goto, Steps, RunStep
  <2>2. CASE Type \/ Converter \/ Suspend \/ PollOverlay
    BY <2>2 DEF TypeOK, RunnerTypeOK
  <2> QED BY <2>0, <2>1, <2>2
<1>3. bundle' \subseteq Phrase /\ learnt' \subseteq Phrase /\ overlay' \in BOOLEAN
  BY DEF TypeOK, FilesTypeOK
<1>4. status' \in [state : {"idle", "running", "done", "error"}, stale : BOOLEAN]
  BY DEF TypeOK, FilesTypeOK
<1>5. BoundsTypeOK'
  <2>1. CASE Suspend BY <2>1, RunnerBounds DEF TypeOK, BoundsTypeOK
  <2>2. fails' = fails \/ (fails < MaxFail /\ fails' = fails + 1)
    OBVIOUS
  <2>3. CASE User \/ Converter \/ Spawn \/ PollOverlay
    <3>1. UNCHANGED bounds
      BY <2>3
    <3> QED BY <2>2, <3>1, RunnerBounds DEF TypeOK, BoundsTypeOK
  <2> QED BY <2>1, <2>3
<1> QED BY <1>1, <1>2, <1>3, <1>4, <1>5 DEF TypeOK, FilesTypeOK

\* Whatever is called, the converter's state stays well typed.
LEMMA RunnerStepConverter ==
    ASSUME ConverterTypeOK, RunnerTypeOK, NEW r \in Runner, RunnerStep(r)
    PROVE  ConverterTypeOK'
<1> USE DEF ConverterTypeOK, RunnerTypeOK, Replied, NoReply, EvalBeginSyncLock, EvalSyncData,
            EvalReloadAndWait, EvalEndSyncLock, SaveHistory, LoadHistory, StartConverter,
            Unnoticed, FailureReport, Unwind
<1>1. CASE AutoConnect(r) \/ RunSyncConnect(r)
  BY <1>1 DEF AutoConnect, RunSyncConnect, Connected, NotConnected
<1>2. CASE AutoState(r) \/ RunSyncState(r) BY <1>2 DEF AutoState, RunSyncState
<1>3. CASE BeginSyncLock(r) BY <1>3 DEF BeginSyncLock
<1>4. CASE SyncData(r) BY <1>4 DEF SyncData
<1>5. CASE ReloadAndWait(r) BY <1>5 DEF ReloadAndWait
<1>6. CASE EndSyncLock(r) BY <1>6 DEF EndSyncLock
<1>7. CASE ImportSave(r) BY <1>7 DEF ImportSave
<1>8. CASE \/ AutoCheck(r) \/ RunSyncCheck(r) \/ Export(r) \/ Merge(r) \/ Upload(r)
           \/ ImportLoad(r) \/ Report(r)
  BY <1>8 DEF AutoCheck, RunSyncCheck, Export, Merge, Upload, ImportLoad, Report
<1> QED BY <1>1, <1>2, <1>3, <1>4, <1>5, <1>6, <1>7, <1>8 DEF RunnerStep

\* A runner stays at one of its steps, with a connection and phrases.
LEMMA RunnerStepRunner ==
    ASSUME TypeOK, NEW r \in Runner, RunnerStep(r)
    PROVE  RunnerTypeOK'
<1> USE DEF TypeOK, ConverterTypeOK, FilesTypeOK, RunnerTypeOK, Goto, FailureReport, Unwind, Steps,
            RunStep, Replied, NoReply
<1>1. CASE AutoConnect(r) \/ RunSyncConnect(r)
  BY <1>1 DEF AutoConnect, RunSyncConnect, Connected, NotConnected
<1>2. CASE AutoState(r)
  BY <1>2 DEF AutoState
<1>9. CASE RunSyncState(r)
  <2>1. UNCHANGED <<mode, holds>> /\ conn' \in [Runner -> {"unknown", "ok", "shutdown", "dead"}]
    BY <1>9 DEF RunSyncState
  <2>2. pc' \in [Runner -> Steps]
    BY <1>9 DEF RunSyncState
  <2>3. out' \in [Runner -> SUBSET Phrase] /\ unsent' \in [Runner -> SUBSET Phrase]
    BY <1>9 DEF RunSyncState
  <2> QED BY <2>1, <2>2, <2>3
<1>3. CASE BeginSyncLock(r)
  <2>1. mode' = mode /\ conn' \in [Runner -> {"unknown", "ok", "shutdown", "dead"}]
    BY <1>3 DEF BeginSyncLock
  <2>2. pc' \in [Runner -> Steps] /\ holds' \in [Runner -> BOOLEAN]
    BY <1>3 DEF BeginSyncLock
  <2>3. out' \in [Runner -> SUBSET Phrase] /\ unsent' \in [Runner -> SUBSET Phrase]
    BY <1>3 DEF BeginSyncLock
  <2> QED BY <2>1, <2>2, <2>3
<1>4. CASE SyncData(r) BY <1>4 DEF SyncData
<1>5. CASE ReloadAndWait(r) BY <1>5 DEF ReloadAndWait
<1>6. CASE EndSyncLock(r) BY <1>6 DEF EndSyncLock
<1>7. CASE ImportSave(r) BY <1>7 DEF ImportSave
<1>8. CASE \/ AutoCheck(r) \/ RunSyncCheck(r) \/ Export(r) \/ Merge(r) \/ Upload(r)
           \/ ImportLoad(r) \/ Report(r)
  BY <1>8 DEF AutoCheck, RunSyncCheck, Export, Merge, Upload, ImportLoad, Report
<1> QED BY <1>1, <1>2, <1>3, <1>4, <1>5, <1>6, <1>7, <1>8, <1>9 DEF RunnerStep

\* The bundle, the status file and the bounds.
LEMMA RunnerStepFiles ==
    ASSUME TypeOK, NEW r \in Runner, RunnerStep(r)
    PROVE  FilesTypeOK' /\ BoundsTypeOK'
<1> USE DEF RunnerStep, AutoCheck, AutoConnect, AutoState, RunSyncCheck, RunSyncState,
            RunSyncConnect, BeginSyncLock, SyncData, Export, Merge, Upload, ImportLoad, ImportSave,
            ReloadAndWait, Report, EndSyncLock
<1>1. bundle' \subseteq Phrase /\ learnt' \subseteq Phrase
  BY DEF TypeOK, FilesTypeOK, RunnerTypeOK
<1>2. overlay' \in BOOLEAN BY DEF TypeOK, FilesTypeOK
<1>3. \/ status' = status
      \/ \E s \in {"running", "done", "error"} : status' = [state |-> s, stale |-> FALSE]
  BY DEF WriteSyncStatus, FailureReport
<1>4. status' \in [state : {"idle", "running", "done", "error"}, stale : BOOLEAN]
  <2>1. CASE status' = status BY <2>1 DEF TypeOK, FilesTypeOK
  <2>2. ASSUME NEW s \in {"running", "done", "error"}, status' = [state |-> s, stale |-> FALSE]
        PROVE  status' \in [state : {"idle", "running", "done", "error"}, stale : BOOLEAN]
    BY <2>2
  <2> QED BY <1>3, <2>1, <2>2
<1>5. fails' = fails \/ (fails < MaxFail /\ fails' = fails + 1)
  BY DEF Replied, NoReply, EvalBeginSyncLock, EvalSyncData, EvalReloadAndWait, EvalEndSyncLock,
         SaveHistory, LoadHistory, StartConverter, Connected, NotConnected, Unnoticed
<1>6. UNCHANGED <<kills, suspends>>
      /\ (timeouts' = timeouts \/ (timeouts < MaxTimeout /\ timeouts' = timeouts + 1))
  BY DEF Replied, NoReply
<1>7. BoundsTypeOK' BY <1>5, <1>6, RunnerBounds DEF TypeOK, BoundsTypeOK
<1> QED BY <1>1, <1>2, <1>4, <1>7 DEF FilesTypeOK

LEMMA TypeKill ==
    ASSUME TypeOK, NEW r \in Runner, Kill(r)
    PROVE  TypeOK'
<1>1. ConverterTypeOK' /\ FilesTypeOK' BY DEF Kill, TypeOK, ConverterTypeOK, FilesTypeOK
<1>2. RunnerTypeOK' BY DEF Kill, Unwind, TypeOK, RunnerTypeOK, Goto, Steps
<1>3. BoundsTypeOK' BY RunnerBounds DEF Kill, TypeOK, BoundsTypeOK
<1> QED BY <1>1, <1>2, <1>3 DEF TypeOK

LEMMA TypeNext == TypeOK /\ [Next]_vars => TypeOK'
<1> SUFFICES ASSUME TypeOK, [Next]_vars PROVE TypeOK'
  OBVIOUS
<1>1. CASE User \/ Converter \/ Spawn \/ Suspend \/ PollOverlay
  BY <1>1, TypeEnvironment
<1>2. ASSUME NEW r \in Runner, RunnerStep(r) PROVE TypeOK'
  BY <1>2, RunnerStepConverter, RunnerStepRunner, RunnerStepFiles DEF TypeOK
<1>3. ASSUME NEW r \in Runner, Kill(r) PROVE TypeOK'
  BY <1>3, TypeKill
<1>4. CASE UNCHANGED vars
  BY <1>4 DEF vars, TypeOK, ConverterTypeOK, RunnerTypeOK, FilesTypeOK, BoundsTypeOK
<1> QED BY <1>1, <1>2, <1>3, <1>4 DEF Next

\* Every reachable state of the converter, the runners and the status file is well
\* typed, for any runners, phrases and bounds.
THEOREM Typing == Spec => []TypeOK
BY TypeInit, TypeNext, PTL DEF Spec

-----------------------------------------------------------------------------
\* Until it asks for the lock, a runner changes nothing but its own place, and may start
\* the converter.
Prepare(r) == \/ AutoCheck(r) \/ AutoConnect(r) \/ AutoState(r)
              \/ RunSyncCheck(r) \/ RunSyncState(r) \/ RunSyncConnect(r)
Prelude == {"idle", "autoconnect", "autostate", "check", "state", "connect", "lock", "unlock"}

LEMMA Preparing ==
    ASSUME TypeOK, NEW r \in Runner, Prepare(r)
    PROVE  /\ \/ ~up /\ StartConverter
              \/ UNCHANGED <<up, locked, mem, dirty, disk, exposed, lapsed>>
           /\ UNCHANGED <<holds, bundle, learnt>>
           /\ pc[r] \notin InSync \cup {"unlock"}
           /\ \E step \in Prelude : /\ pc' = [pc EXCEPT ![r] = step]
                                    /\ step = "lock" => conn'[r] # "dead"
                                    /\ step = "unlock" => holds[r]
           /\ \A q \in Runner \ {r} : conn'[q] = conn[q]
<1> USE DEF Goto, FailureReport, TypeOK, RunnerTypeOK, InSync, Prelude
<1>1. CASE AutoCheck(r) BY <1>1 DEF AutoCheck
<1>2. CASE AutoConnect(r) BY <1>2 DEF AutoConnect, Connected, NotConnected
<1>3. CASE AutoState(r) BY <1>3 DEF AutoState, Replied, NoReply
<1>4. CASE RunSyncCheck(r) BY <1>4 DEF RunSyncCheck
<1>5. CASE RunSyncState(r) BY <1>5 DEF RunSyncState, Replied, NoReply
<1>6. CASE RunSyncConnect(r) BY <1>6 DEF RunSyncConnect, Connected, NotConnected
<1> QED BY <1>1, <1>2, <1>3, <1>4, <1>5, <1>6 DEF Prepare

-----------------------------------------------------------------------------
(* A lock has a holder. *)

\* Only a runner between BeginSyncLock and EndSyncLock holds a guard, and without
\* timeouts its client is still willing to call.
LockInv ==
    /\ locked => up /\ \E r \in Runner : holds[r]
    /\ \A r \in Runner : /\ holds[r] => pc[r] \in InSync \cup {"unlock"}
                         /\ pc[r] \in InSync \cup {"lock", "unlock"} => conn[r] # "dead"

LEMMA LockInit == Init => LockInv
BY DEF Init, LockInv, InSync

LEMMA LockNext ==
    ASSUME MaxKill = 0, MaxTimeout = 0, TypeOK, LockInv, [Next]_vars
    PROVE  LockInv'
<1> USE DEF LockInv, InSync
<1>1. CASE User BY <1>1 DEF User, Type, Commit
<1>2. CASE Converter
  <2>1. CASE DropSessions BY <2>1 DEF DropSessions
  <2>2. CASE Stop BY <2>2 DEF Stop
  <2>3. CASE Crash BY <2>3 DEF Crash
  <2>4. CASE Restart BY <2>4 DEF Restart, StartConverter
  <2> QED BY <1>2, <2>1, <2>2, <2>3, <2>4 DEF Converter
<1>3. ASSUME NEW r \in Runner, NEW m, Start(r, m) PROVE LockInv'
  BY <1>3 DEF Start, Goto, TypeOK, RunnerTypeOK
<1>4. CASE Suspend \/ PollOverlay BY <1>4 DEF Suspend, PollOverlay
<1>5. ASSUME NEW r \in Runner, Kill(r) PROVE FALSE
  BY <1>5 DEF Kill, TypeOK, BoundsTypeOK
<1>6. ASSUME NEW r \in Runner, RunnerStep(r) PROVE LockInv'
  <2> USE DEF Goto, FailureReport, TypeOK, RunnerTypeOK, StartConverter
  <2>0. ~(timeouts < MaxTimeout)
    BY DEF BoundsTypeOK
  <2>1. CASE Prepare(r)
    <3>1. PICK step \in Prelude : /\ pc' = [pc EXCEPT ![r] = step]
                                  /\ step = "lock" => conn'[r] # "dead"
                                  /\ step = "unlock" => holds[r]
      BY <2>1, Preparing
    <3>4. \A q \in Runner : pc'[q] = IF q = r THEN step ELSE pc[q]
      BY <3>1
    <3>5. /\ UNCHANGED <<holds, bundle, learnt>> /\ pc[r] \notin InSync \cup {"unlock"}
          /\ \A q \in Runner \ {r} : conn'[q] = conn[q]
      BY <2>1, Preparing
    <3>2. CASE ~up /\ StartConverter
      BY <3>1, <3>2, <3>4, <3>5 DEF Prelude, LoadHistory, Unnoticed
    <3>3. CASE UNCHANGED <<up, locked, mem, dirty, disk, exposed, lapsed>>
      BY <3>1, <3>3, <3>4, <3>5 DEF Prelude
    <3>6. (~up /\ StartConverter) \/ UNCHANGED <<up, locked, mem, dirty, disk, exposed, lapsed>>
      BY <2>1, Preparing
    <3> QED BY <3>2, <3>3, <3>6
  <2>7. CASE BeginSyncLock(r)
    BY <2>0, <2>7 DEF BeginSyncLock, Replied, NoReply, EvalBeginSyncLock
  <2>8. CASE SyncData(r) BY <2>0, <2>8 DEF SyncData, Replied, NoReply, EvalSyncData
  <2>9. CASE Export(r) BY <2>9 DEF Export
  <2>10. CASE Merge(r) BY <2>10 DEF Merge
  <2>11. CASE Upload(r) BY <2>11 DEF Upload
  <2>12. CASE ImportLoad(r) BY <2>12 DEF ImportLoad
  <2>13. CASE ImportSave(r) BY <2>13 DEF ImportSave
  <2>14. CASE ReloadAndWait(r)
    BY <2>0, <2>14 DEF ReloadAndWait, Replied, NoReply, EvalReloadAndWait
  <2>15. CASE Report(r) BY <2>15 DEF Report
  <2>16. CASE EndSyncLock(r) BY <2>0, <2>16 DEF EndSyncLock, Replied, NoReply, EvalEndSyncLock
  <2> QED
    BY <1>6, <2>1, <2>7, <2>8, <2>9, <2>10, <2>11, <2>12, <2>13, <2>14, <2>15, <2>16
    DEF RunnerStep, Prepare
<1>7. CASE UNCHANGED vars BY <1>7 DEF vars
<1> QED BY <1>1, <1>2, <1>3, <1>4, <1>5, <1>6, <1>7 DEF Next, Spawn

\* When no process is killed and no call times out, a converter that is locked has a
\* sync process that holds its guard and will end it, however many run at once and
\* however often the converter stops.
THEOREM LockReleased ==
    ASSUME MaxKill = 0, MaxTimeout = 0
    PROVE  Spec => []LockHasHolder
<1>1. TypeOK /\ LockInv /\ [Next]_vars => LockInv'
  BY LockNext
<1>2. LockInv => LockHasHolder
  BY DEF LockInv, LockHasHolder, InSync
<1> QED BY <1>1, <1>2, LockInit, Typing, PTL DEF Spec

-----------------------------------------------------------------------------
(* One sync process at a time. *)

\* During a sync the converter is locked, unless it was started again since.
LockedInv == up /\ (\E r \in Runner : pc[r] \in InSync) => locked \/ lapsed

\* What is not exposed is in the memory, in the file from the flush on, and in the
\* copy that replaces the file; unsaved phrases outlast the flush only when exposed.
StoreInv ==
    /\ up => learnt \ exposed \subseteq mem
    /\ up /\ dirty => mem # {}
    /\ ~(up /\ dirty) => learnt \ exposed \subseteq disk
    /\ \A r \in Runner :
         /\ PastFlush(r) => learnt \ exposed \subseteq disk
         /\ PastFlush(r) /\ up /\ dirty => mem \cap exposed # {}
         /\ pc[r] = "save" => learnt \ exposed \subseteq out[r]

\* What PerformSync carries only grows, and reaches the bundle, the file and the memory.
CarryInv ==
    \A r \in Runner :
         /\ pc[r] \in {"merge", "upload"} => learnt \ unsent[r] \subseteq out[r]
         /\ pc[r] \in {"import", "save", "reload", "done"} => learnt \ unsent[r] \subseteq bundle
         /\ pc[r] \in {"import", "save"} => bundle \subseteq out[r]
         /\ pc[r] \in {"reload", "done"} => bundle \ exposed \subseteq disk
         /\ pc[r] = "done" /\ up => bundle \ exposed \subseteq mem

LEMMA AloneInit == Init => LockedInv /\ StoreInv /\ CarryInv
<1> SUFFICES ASSUME Init PROVE LockedInv /\ StoreInv /\ CarryInv
  OBVIOUS
<1>1. LockedInv BY DEF Init, LockedInv, InSync
<1>2. StoreInv BY DEF Init, StoreInv, PastFlush, InSync
<1>3. CarryInv BY DEF Init, CarryInv
<1> QED BY <1>1, <1>2, <1>3

\* Only the end of the sync clears the lock of a converter that keeps running.
LEMMA LockedNext ==
    ASSUME \A r, s \in Runner : r = s, TypeOK, LockedInv, [Next]_vars
    PROVE  LockedInv'
<1> USE DEF LockedInv, InSync
<1>1. CASE User
  <2>1. CASE Type BY <2>1 DEF Type
  <2>2. ASSUME NEW p \in Phrase, Commit(p) PROVE LockedInv'
    BY <2>2 DEF Commit, CanSendKey
  <2> QED BY <1>1, <2>1, <2>2 DEF User
<1>2. CASE Converter
  <2>1. CASE DropSessions BY <2>1 DEF DropSessions
  <2>2. CASE Stop BY <2>2 DEF Stop
  <2>3. CASE Crash BY <2>3 DEF Crash
  <2>4. CASE Restart BY <2>4 DEF Restart, StartConverter
  <2> QED BY <1>2, <2>1, <2>2, <2>3, <2>4 DEF Converter
<1>3. ASSUME NEW r \in Runner, NEW m, Start(r, m) PROVE LockedInv'
  BY <1>3 DEF Start, Goto, TypeOK, RunnerTypeOK
<1>4. CASE Suspend \/ PollOverlay BY <1>4 DEF Suspend, PollOverlay
<1>5. ASSUME NEW r \in Runner, Kill(r) PROVE LockedInv'
  BY <1>5 DEF Kill, Goto, Unwind, TypeOK, RunnerTypeOK
<1>6. ASSUME NEW r \in Runner, RunnerStep(r) PROVE LockedInv'
  <2> USE DEF Goto, FailureReport, TypeOK, RunnerTypeOK, StartConverter, Replied, NoReply,
              EvalBeginSyncLock, EvalSyncData, EvalReloadAndWait, EvalEndSyncLock
  <2>1. CASE Prepare(r)
    <3>1. PICK step \in Prelude : /\ pc' = [pc EXCEPT ![r] = step]
                                  /\ step = "lock" => conn'[r] # "dead"
                                  /\ step = "unlock" => holds[r]
      BY <2>1, Preparing
    <3>4. \A q \in Runner : pc'[q] = IF q = r THEN step ELSE pc[q]
      BY <3>1
    <3>5. /\ UNCHANGED <<holds, bundle, learnt>> /\ pc[r] \notin InSync \cup {"unlock"}
          /\ \A q \in Runner \ {r} : conn'[q] = conn[q]
      BY <2>1, Preparing
    <3>2. CASE ~up /\ StartConverter
      BY <3>1, <3>2, <3>4, <3>5 DEF Prelude
    <3>3. CASE UNCHANGED <<up, locked, mem, dirty, disk, exposed, lapsed>>
      BY <3>1, <3>3, <3>4, <3>5 DEF Prelude
    <3>6. (~up /\ StartConverter) \/ UNCHANGED <<up, locked, mem, dirty, disk, exposed, lapsed>>
      BY <2>1, Preparing
    <3> QED BY <3>2, <3>3, <3>6
  <2>7. CASE BeginSyncLock(r)
    <3>1. locked' = TRUE \/ \E step \in {"unlock", "idle"} : pc' = [pc EXCEPT ![r] = step]
      BY <2>7 DEF BeginSyncLock
    <3> QED BY <3>1
  <2>8. CASE SyncData(r) BY <2>8 DEF SyncData
  <2>9. CASE Export(r) BY <2>9 DEF Export
  <2>10. CASE Merge(r) BY <2>10 DEF Merge
  <2>11. CASE Upload(r) BY <2>11 DEF Upload
  <2>12. CASE ImportLoad(r) BY <2>12 DEF ImportLoad
  <2>13. CASE ImportSave(r) BY <2>13 DEF ImportSave
  <2>14. CASE ReloadAndWait(r) BY <2>14 DEF ReloadAndWait
  <2>15. CASE Report(r) BY <2>15 DEF Report
  <2>16. CASE EndSyncLock(r) BY <2>16 DEF EndSyncLock
  <2> QED
    BY <1>6, <2>1, <2>7, <2>8, <2>9, <2>10, <2>11, <2>12, <2>13, <2>14, <2>15, <2>16
    DEF RunnerStep, Prepare
<1>7. CASE UNCHANGED vars BY <1>7 DEF vars
<1> QED BY <1>1, <1>2, <1>3, <1>4, <1>5, <1>6, <1>7 DEF Next, Spawn

\* A save writes everything, or nothing is unsaved, or it fails; and it exposes what it
\* leaves out of the file or of the memory.
LEMMA Saving ==
    ASSUME SaveHistory
    PROVE  /\ \/ dirty /\ disk' = mem /\ ~dirty'
              \/ ~dirty /\ disk' = disk /\ ~dirty'
              \/ dirty /\ disk' = disk /\ exposed' = exposed \cup mem
           /\ exposed \ exposed' \subseteq mem \cap disk'
           /\ Merging => exposed \subseteq exposed'
           /\ exposed \cap mem # {} => disk \ disk' \subseteq exposed'
BY DEF SaveHistory, Unnoticed

LEMMA SavingKeeps ==
    ASSUME StoreInv, SaveHistory, up, UNCHANGED <<mem, bundle, learnt, pc, out, unsent>>
    PROVE  /\ StoreInv'
           /\ CarryInv /\ up' \in {up, FALSE} => CarryInv'
<1>1. (up' => learnt' \ exposed' \subseteq mem') /\ (up' /\ dirty' => mem' # {})
  BY Saving DEF StoreInv
<1>2. learnt' \ exposed' \subseteq disk'
  <2>1. CASE dirty /\ disk' = mem
    BY <2>1, Saving DEF StoreInv
  <2>2. CASE ~dirty /\ disk' = disk
    BY <2>2, Saving DEF StoreInv
  <2>3. CASE exposed' = exposed \cup mem
    BY <2>3 DEF StoreInv
  <2> QED BY <2>1, <2>2, <2>3, Saving
<1>3. dirty' => mem' \cap exposed' # {}
  BY Saving DEF StoreInv
<1>4. ASSUME NEW r \in Runner, pc'[r] = "save" PROVE learnt' \ exposed' \subseteq out'[r]
  <2>1. exposed \subseteq exposed'
    BY <1>4, Saving DEF Merging
  <2> QED BY <1>4, <2>1 DEF StoreInv
<1>5. StoreInv'
  BY <1>1, <1>2, <1>3, <1>4 DEF StoreInv, PastFlush
<1>6. ASSUME CarryInv, up' \in {up, FALSE} PROVE CarryInv'
  <2>1. ASSUME NEW r \in Runner, pc'[r] \in {"reload", "done"}
        PROVE  bundle' \ exposed' \subseteq disk'
    <3>1. PastFlush(r) /\ bundle \ exposed \subseteq disk
      BY <1>6, <2>1 DEF CarryInv, PastFlush, InSync
    <3>2. CASE dirty /\ disk' = mem
      <4>1. mem \cap exposed # {}
        BY <3>1, <3>2 DEF StoreInv
      <4> QED BY <3>1, <3>2, <4>1, Saving
    <3>3. CASE disk' = disk
      BY <3>1, <3>3, Saving
    <3> QED BY <3>2, <3>3, Saving
  <2>2. ASSUME NEW r \in Runner, pc'[r] = "done", up' PROVE bundle' \ exposed' \subseteq mem'
    BY <1>6, <2>2, Saving DEF CarryInv
  <2> QED BY <1>6, <2>1, <2>2 DEF CarryInv
<1> QED BY <1>5, <1>6

\* A load, a save or the import keeps what is not exposed, whichever of them fails.
LEMMA StoreNext ==
    ASSUME \A r, s \in Runner : r = s, TypeOK, LockedInv, StoreInv, [Next]_vars
    PROVE  StoreInv'
<1> USE DEF LockedInv, StoreInv, PastFlush, Merging, InSync
<1>1. CASE User
  <2>1. CASE Type BY <2>1 DEF Type
  <2>2. ASSUME NEW p \in Phrase, Commit(p) PROVE StoreInv'
    BY <2>2 DEF Commit, CanSendKey
  <2> QED BY <1>1, <2>1, <2>2 DEF User
<1>2. CASE Converter
  <2>1. CASE DropSessions BY <2>1, SavingKeeps DEF DropSessions
  <2>2. CASE Stop BY <2>2, SavingKeeps DEF Stop, MayStop
  <2>3. CASE Crash BY <2>3 DEF Crash
  <2>4. CASE Restart BY <2>4 DEF Restart, StartConverter, LoadHistory, Unnoticed
  <2> QED BY <1>2, <2>1, <2>2, <2>3, <2>4 DEF Converter
<1>3. ASSUME NEW r \in Runner, NEW m, Start(r, m) PROVE StoreInv'
  BY <1>3 DEF Start, Goto, TypeOK, RunnerTypeOK
<1>4. CASE Suspend \/ PollOverlay BY <1>4 DEF Suspend, PollOverlay
<1>5. ASSUME NEW r \in Runner, Kill(r) PROVE StoreInv'
  BY <1>5 DEF Kill, Goto, Unwind, TypeOK, RunnerTypeOK
<1>6. ASSUME NEW r \in Runner, RunnerStep(r) PROVE StoreInv'
  <2> USE DEF Goto, FailureReport, Unwind, TypeOK, RunnerTypeOK, StartConverter, Replied,
              NoReply, EvalBeginSyncLock, EvalSyncData, EvalReloadAndWait, EvalEndSyncLock,
              SaveHistory, LoadHistory, Unnoticed
  <2>1. CASE Prepare(r)
    <3>1. PICK step \in Prelude : /\ pc' = [pc EXCEPT ![r] = step]
                                  /\ step = "lock" => conn'[r] # "dead"
                                  /\ step = "unlock" => holds[r]
      BY <2>1, Preparing
    <3>4. \A q \in Runner : pc'[q] = IF q = r THEN step ELSE pc[q]
      BY <3>1
    <3>5. /\ UNCHANGED <<holds, bundle, learnt>> /\ pc[r] \notin InSync \cup {"unlock"}
          /\ \A q \in Runner \ {r} : conn'[q] = conn[q]
      BY <2>1, Preparing
    <3>2. CASE ~up /\ StartConverter
      BY <3>1, <3>2, <3>4, <3>5 DEF Prelude, LoadHistory, Unnoticed
    <3>3. CASE UNCHANGED <<up, locked, mem, dirty, disk, exposed, lapsed>>
      BY <3>1, <3>3, <3>4, <3>5 DEF Prelude
    <3>6. (~up /\ StartConverter) \/ UNCHANGED <<up, locked, mem, dirty, disk, exposed, lapsed>>
      BY <2>1, Preparing
    <3> QED BY <3>2, <3>3, <3>6
  <2>7. CASE BeginSyncLock(r) BY <2>7 DEF BeginSyncLock
  <2>8. CASE SyncData(r) BY <2>8 DEF SyncData
  <2>9. CASE Export(r) BY <2>9 DEF Export
  <2>10. CASE Merge(r) BY <2>10 DEF Merge
  <2>11. CASE Upload(r) BY <2>11 DEF Upload
  <2>12. CASE ImportLoad(r) BY <2>12 DEF ImportLoad
  <2>13. CASE ImportSave(r) BY <2>13 DEF ImportSave
  <2>14. CASE ReloadAndWait(r) BY <2>14 DEF ReloadAndWait
  <2>15. CASE Report(r) BY <2>15 DEF Report
  <2>16. CASE EndSyncLock(r) BY <2>16 DEF EndSyncLock
  <2> QED
    BY <1>6, <2>1, <2>7, <2>8, <2>9, <2>10, <2>11, <2>12, <2>13, <2>14, <2>15, <2>16
    DEF RunnerStep, Prepare
<1>7. CASE UNCHANGED vars BY <1>7 DEF vars
<1> QED BY <1>1, <1>2, <1>3, <1>4, <1>5, <1>6, <1>7 DEF Next, Spawn

\* What PerformSync carries reaches the bundle, and the bundle the file and the memory.
LEMMA CarryNext ==
    ASSUME \A r, s \in Runner : r = s, TypeOK, LockedInv, StoreInv, CarryInv, [Next]_vars
    PROVE  CarryInv'
<1> USE DEF LockedInv, StoreInv, CarryInv, PastFlush, Merging, InSync
<1>1. CASE User
  <2>1. CASE Type BY <2>1 DEF Type
  <2>2. ASSUME NEW p \in Phrase, Commit(p) PROVE CarryInv'
    BY <2>2 DEF Commit, CanSendKey
  <2> QED BY <1>1, <2>1, <2>2 DEF User
<1>2. CASE Converter
  <2>1. CASE DropSessions BY <2>1, SavingKeeps DEF DropSessions
  <2>2. CASE Stop BY <2>2, SavingKeeps DEF Stop, MayStop
  <2>3. CASE Crash BY <2>3 DEF Crash
  <2>4. CASE Restart BY <2>4 DEF Restart, StartConverter, LoadHistory, Unnoticed
  <2> QED BY <1>2, <2>1, <2>2, <2>3, <2>4 DEF Converter
<1>3. ASSUME NEW r \in Runner, NEW m, Start(r, m) PROVE CarryInv'
  BY <1>3 DEF Start, Goto, TypeOK, RunnerTypeOK
<1>4. CASE Suspend \/ PollOverlay BY <1>4 DEF Suspend, PollOverlay
<1>5. ASSUME NEW r \in Runner, Kill(r) PROVE CarryInv'
  BY <1>5 DEF Kill, Goto, Unwind, TypeOK, RunnerTypeOK
<1>6. ASSUME NEW r \in Runner, RunnerStep(r) PROVE CarryInv'
  <2> USE DEF Goto, FailureReport, Unwind, TypeOK, RunnerTypeOK, StartConverter, Replied,
              NoReply, EvalBeginSyncLock, EvalSyncData, EvalReloadAndWait, EvalEndSyncLock,
              SaveHistory, LoadHistory, Unnoticed
  <2>1. CASE Prepare(r)
    <3>1. PICK step \in Prelude : /\ pc' = [pc EXCEPT ![r] = step]
                                  /\ step = "lock" => conn'[r] # "dead"
                                  /\ step = "unlock" => holds[r]
      BY <2>1, Preparing
    <3>4. \A q \in Runner : pc'[q] = IF q = r THEN step ELSE pc[q]
      BY <3>1
    <3>5. /\ UNCHANGED <<holds, bundle, learnt>> /\ pc[r] \notin InSync \cup {"unlock"}
          /\ \A q \in Runner \ {r} : conn'[q] = conn[q]
      BY <2>1, Preparing
    <3>2. CASE ~up /\ StartConverter
      BY <3>1, <3>2, <3>4, <3>5 DEF Prelude, LoadHistory, Unnoticed
    <3>3. CASE UNCHANGED <<up, locked, mem, dirty, disk, exposed, lapsed>>
      BY <3>1, <3>3, <3>4, <3>5 DEF Prelude
    <3>6. (~up /\ StartConverter) \/ UNCHANGED <<up, locked, mem, dirty, disk, exposed, lapsed>>
      BY <2>1, Preparing
    <3> QED BY <3>2, <3>3, <3>6
  <2>7. CASE BeginSyncLock(r) BY <2>7 DEF BeginSyncLock
  <2>8. CASE SyncData(r) BY <2>8 DEF SyncData
  <2>9. CASE Export(r) BY <2>9 DEF Export
  <2>10. CASE Merge(r) BY <2>10 DEF Merge
  <2>11. CASE Upload(r) BY <2>11 DEF Upload
  <2>12. CASE ImportLoad(r) BY <2>12 DEF ImportLoad
  <2>13. CASE ImportSave(r) BY <2>13 DEF ImportSave
  <2>14. CASE ReloadAndWait(r) BY <2>14 DEF ReloadAndWait
  <2>15. CASE Report(r) BY <2>15 DEF Report
  <2>16. CASE EndSyncLock(r) BY <2>16 DEF EndSyncLock
  <2> QED
    BY <1>6, <2>1, <2>7, <2>8, <2>9, <2>10, <2>11, <2>12, <2>13, <2>14, <2>15, <2>16
    DEF RunnerStep, Prepare
<1>7. CASE UNCHANGED vars BY <1>7 DEF vars
<1> QED BY <1>1, <1>2, <1>3, <1>4, <1>5, <1>6, <1>7 DEF Next, Spawn

\* The inductive invariant of a lone sync process.
LEMMA AloneInvariance ==
    ASSUME \A r, s \in Runner : r = s
    PROVE  Spec => [](StoreInv /\ CarryInv)
<1>1. TypeOK /\ LockedInv /\ StoreInv /\ CarryInv /\ [Next]_vars
      => (LockedInv /\ StoreInv /\ CarryInv)'
  BY LockedNext, StoreNext, CarryNext
<1> QED BY <1>1, AloneInit, Typing, PTL DEF Spec

\* One sync process at a time, killed or timed out at any step, loses nothing the user
\* committed, wherever the converter crashes or stops, except what a read or a write
\* that failed unnoticed, or a converter started in the middle of the sync, has exposed.
THEOREM NothingLearntLost ==
    ASSUME \A r, s \in Runner : r = s
    PROVE  Spec => []LearntKept
<1>1. StoreInv => LearntKept
  BY DEF StoreInv, LearntKept
<1> QED BY <1>1, AloneInvariance, PTL

\* A lone RunSync that gets as far as reporting "done" has put everything learnt that
\* the export could hold into the bundle, and the bundle into the converter.
THEOREM DoneIsMerged ==
    ASSUME \A r, s \in Runner : r = s
    PROVE  Spec => []DoneMeansMerged
<1>1. CarryInv => DoneMeansMerged
  BY DEF CarryInv, DoneMeansMerged
<1> QED BY <1>1, AloneInvariance, PTL

-----------------------------------------------------------------------------
(* Interval polling: the fingerprints, the settings and the data of SyncPoll. *)

\* The first poll and the end of a sync write the fingerprints they have taken.
Writing(d) == stage[d] \in {"record", "captured"}

\* An unchanged bundle is the data for which the local fingerprint was taken.
BaselineInv ==
  \A d \in Device : baseline[d] /\ ~remote_new[d] /\ ~missed[d] => shared = base_local[d]

\* What RunSync holds between two of its steps.
Holds(d) == /\ Local(d, config[d]) \subseteq merged[d] \cup stray[d]
            /\ merged[d] \subseteq Selected(config[d])
SyncInv ==
  \A d \in Device :
    /\ stage[d] \in {"upload", "import"} => Holds(d)
    /\ stage[d] = "import" /\ ~overtaken[d] => shared = merged[d]
    /\ stage[d] = "capture" /\ ~overtaken[d] => shared = Local(d, config[d])
    /\ Writing(d) /\ ~overtaken[d] /\ ~taken[d].stale => shared = taken[d].local

\* A sync, and a poll that writes, that nobody saved settings behind saves those it found.
SettingsInv ==
  \A d \in Device : ~late[d] => /\ conf[d] = chosen[d]
                                /\ stage[d] \notin {"idle", "record"} => config[d] = conf[d]
                                /\ Writing(d) => taken[d].conf = conf[d]

-----------------------------------------------------------------------------
LEMMA SelectedType == \A s : Selected(s) \subseteq Addition
  BY DEF Selected, Addition

\* A device's events and faults stay within their bounds.
LEMMA CountersType ==
    ASSUME PollTypeOK, Event \/ Fault \/ Quiet
    PROVE  events' \in 0..MaxEvents /\ faults' \in 0..MaxFaults
  BY SyncPollAssumption DEF PollTypeOK, Event, Fault, Quiet, counters

\* What is taken is typed like what it is taken from.
Taken == [conf : SUBSET Setting, local : SUBSET Addition, stale : BOOLEAN]
LEMMA CaptureType ==
    ASSUME PollTypeOK, NEW d \in Device, NEW s, CaptureSyncFingerprints(d, s)
    PROVE  taken' \in [Device -> Taken]
<1>1. Local(d, s) \in SUBSET Addition
  BY DEF Local, PollTypeOK
<1>2. [conf |-> conf[d], local |-> Local(d, s), stale |-> FALSE] \in Taken
  BY <1>1 DEF PollTypeOK, Taken
<1> QED BY <1>2 DEF CaptureSyncFingerprints, PollTypeOK, Taken

LEMMA StaleType == \A t \in Taken : [t EXCEPT !.stale = TRUE] \in Taken
  BY DEF Taken

\* A sync starts with data and files as they are.
LEMMA PollTypingNext == PollTypeOK /\ [PollNext]_poll_vars => PollTypeOK'
<1> SUFFICES ASSUME PollTypeOK, [PollNext]_poll_vars PROVE PollTypeOK'
  OBVIOUS
<1> USE DEF PollTypeOK, sync_conf, history_vars, counters, Stage
<1>e. Event \/ Fault \/ Quiet => events' \in 0..MaxEvents /\ faults' \in 0..MaxFaults
  BY CountersType
<1>u. Untaken \in Taken
  BY DEF Untaken, Taken
<1>1. ASSUME NEW d \in Device, Edit(d) PROVE PollTypeOK'
  <2>1. PICK x \in Addition :
          /\ data' = [data EXCEPT ![d] = @ \cup {x}]
          /\ \/ Fault /\ stray' = [stray EXCEPT ![d] = @ \cup ({x} \cap Selected(config[d]))]
             \/ Quiet /\ stray' = stray
    BY <1>1 DEF Edit
  <2>2. stray' \in [Device -> SUBSET Addition]
    BY <2>1
  <2>3. data' \in [Device -> SUBSET Addition]
    BY <2>1
  <2>4. events' \in 0..MaxEvents /\ faults' \in 0..MaxFaults
    BY <1>e, <2>1
  <2>5. overtaken' \in [Device -> BOOLEAN]
    BY <1>1 DEF Edit
  <2> QED BY <1>1, <2>2, <2>3, <2>4, <2>5 DEF Edit
<1>2. ASSUME NEW d \in Device, SaveSyncConfig(d) PROVE PollTypeOK'
  <2>1. PICK s \in Setting :
          LET settings == IF s \in conf[d] THEN conf[d] \ {s} ELSE conf[d] \cup {s}
          IN  conf' = [conf EXCEPT ![d] = settings] /\ chosen' = [chosen EXCEPT ![d] = settings]
    BY <1>2 DEF SaveSyncConfig
  <2>2. conf' \in [Device -> SUBSET Setting] /\ chosen' \in [Device -> SUBSET Setting]
    BY <2>1
  <2>3. late' \in [Device -> BOOLEAN]
    BY <1>2 DEF SaveSyncConfig
  <2> QED BY <1>2, <1>e, <2>2, <2>3 DEF SaveSyncConfig
<1>3. ASSUME NEW d \in Device, RunSync(d), Event \/ Quiet PROVE PollTypeOK'
  BY <1>3, <1>e DEF RunSync
<1>w. ASSUME NEW d \in Device, SaveSyncBaselines(d)
      PROVE  /\ conf' \in [Device -> SUBSET Setting] /\ baseline' \in [Device -> BOOLEAN]
             /\ base_local' \in [Device -> SUBSET Addition]
             /\ remote_new' \in [Device -> BOOLEAN] /\ taken' \in [Device -> Taken]
             /\ missed' \in [Device -> BOOLEAN] /\ overtaken' \in [Device -> BOOLEAN]
  BY <1>w, <1>u DEF SaveSyncBaselines, Taken
<1>4. ASSUME NEW d \in Device, FirstPoll(d) PROVE PollTypeOK'
  <2>1. taken' \in [Device -> Taken]
    BY <1>4, CaptureType DEF FirstPoll
  <2> QED BY <1>4, <2>1 DEF FirstPoll, Taken
<1>r. ASSUME NEW d \in Device, Record(d) PROVE PollTypeOK'
  BY <1>r, <1>w DEF Record, Taken
<1>5. ASSUME NEW d \in Device, MergeData(d) PROVE PollTypeOK'
  <2>1. PICK unread \in {{}, Word, Use} :
          /\ Quiet \/ Fault
          /\ merged' = [merged EXCEPT ![d] = ((data[d] \ unread) \cup shared) \cap Selected(config[d])]
          /\ stray' = [stray EXCEPT ![d] = Local(d, config[d]) \ merged'[d]]
    BY <1>5 DEF MergeData
  <2>2. merged' \in [Device -> SUBSET Addition] /\ stray' \in [Device -> SUBSET Addition]
    BY <2>1 DEF Local
  <2> QED BY <1>5, <1>e, <2>1, <2>2 DEF MergeData
<1>6. ASSUME NEW d \in Device, UploadData(d) PROVE PollTypeOK'
  <2>0. taken \in [Device -> Taken]
    BY DEF Taken
  <2>1. taken' \in [Device -> Taken]
    BY <1>6, <2>0, StaleType DEF UploadData
  <2>2. overtaken' \in [Device -> BOOLEAN] /\ remote_new' \in [Device -> BOOLEAN]
    BY <1>6 DEF UploadData
  <2> QED BY <1>6, <2>1, <2>2 DEF UploadData, Taken
<1>7. ASSUME NEW d \in Device, Import(d) PROVE PollTypeOK'
  <2>1. PICK replaced \in {Word, Addition} :
          /\ Quiet \/ Fault
          /\ data' = [data EXCEPT ![d] = (@ \ (replaced \cap Selected(config[d]))) \cup merged[d]]
    BY <1>7 DEF Import
  <2>2. data' \in [Device -> SUBSET Addition]
    BY <2>1
  <2>3. merged' \in [Device -> SUBSET Addition] /\ stray' \in [Device -> SUBSET Addition]
    BY <1>7 DEF Import
  <2>4. overtaken' \in [Device -> BOOLEAN] /\ stage' \in [Device -> Stage]
    BY <1>7 DEF Import
  <2> QED BY <1>7, <1>e, <2>1, <2>2, <2>3, <2>4 DEF Import
<1>8. ASSUME NEW d \in Device, Capture(d) PROVE PollTypeOK'
  <2>1. taken' \in [Device -> Taken]
    BY <1>8, CaptureType DEF Capture
  <2> QED BY <1>8, <2>1 DEF Capture, Taken
<1>s. ASSUME NEW d \in Device, SaveBaselines(d) PROVE PollTypeOK'
  BY <1>s, <1>w DEF SaveBaselines, Taken
<1>n. ASSUME NEW d \in Device, NoBaselines(d) PROVE PollTypeOK'
  <2>1. taken' \in [Device -> Taken]
    BY <1>n, <1>u DEF NoBaselines, Taken
  <2> QED BY <1>n, <1>e, <2>1 DEF NoBaselines, Taken
<1>9. ASSUME NEW d \in Device, SaveConfig(d) PROVE PollTypeOK'
  BY <1>9 DEF SaveConfig, End
<1>10. ASSUME NEW d \in Device, Fail(d) PROVE PollTypeOK'
  <2>1. taken' \in [Device -> Taken]
    BY <1>10, <1>u DEF Fail, Taken
  <2> QED BY <1>10, <1>e, <2>1 DEF Fail, End, Taken
<1>11. CASE UNCHANGED poll_vars
  BY <1>11 DEF poll_vars
<1> QED BY <1>1, <1>2, <1>3, <1>4, <1>r, <1>5, <1>6, <1>7, <1>8, <1>s, <1>n, <1>9, <1>10, <1>11
        DEF PollNext, Daemon, Step, Poll, SyncNow

\* Every reachable state is well typed.
THEOREM PollTyping == PollSpec => []PollTypeOK
<1>1. PollInit => PollTypeOK
  BY SyncPollAssumption DEF PollInit, PollTypeOK, Setting, Stage, Untaken
<1> QED BY <1>1, PollTypingNext, PTL DEF PollSpec

-----------------------------------------------------------------------------
LEMMA BaselineNext == PollTypeOK /\ BaselineInv /\ SyncInv /\ [PollNext]_poll_vars => BaselineInv'
<1> SUFFICES ASSUME PollTypeOK, BaselineInv, SyncInv, [PollNext]_poll_vars PROVE BaselineInv'
  OBVIOUS
<1> USE DEF PollTypeOK, BaselineInv, sync_conf, history_vars
<1>1. ASSUME NEW d \in Device, Edit(d) PROVE BaselineInv'
  BY <1>1 DEF Edit
<1>2. ASSUME NEW d \in Device, SaveSyncConfig(d) PROVE BaselineInv'
  BY <1>2 DEF SaveSyncConfig
<1>3. ASSUME NEW d \in Device, RunSync(d) PROVE BaselineInv'
  BY <1>3 DEF RunSync
<1>4. ASSUME NEW d \in Device, FirstPoll(d) PROVE BaselineInv'
  BY <1>4 DEF FirstPoll
<1>w. ASSUME NEW d \in Device, Writing(d), SaveSyncBaselines(d), shared' = shared PROVE BaselineInv'
  <2>1. ~overtaken[d] /\ ~taken[d].stale => shared = taken[d].local
    BY <1>w DEF SyncInv
  <2> QED BY <1>w, <2>1 DEF SaveSyncBaselines
<1>r. ASSUME NEW d \in Device, Record(d) PROVE BaselineInv'
  BY <1>r, <1>w DEF Record, Writing
<1>5. ASSUME NEW d \in Device, MergeData(d) PROVE BaselineInv'
  BY <1>5 DEF MergeData
<1>6. ASSUME NEW d \in Device, UploadData(d) PROVE BaselineInv'
  BY <1>6 DEF UploadData
<1>7. ASSUME NEW d \in Device, Import(d) PROVE BaselineInv'
  BY <1>7 DEF Import
<1>8. ASSUME NEW d \in Device, Capture(d) PROVE BaselineInv'
  BY <1>8 DEF Capture
<1>s. ASSUME NEW d \in Device, SaveBaselines(d) PROVE BaselineInv'
  BY <1>s, <1>w DEF SaveBaselines, Writing
<1>n. ASSUME NEW d \in Device, NoBaselines(d) PROVE BaselineInv'
  BY <1>n DEF NoBaselines
<1>9. ASSUME NEW d \in Device, SaveConfig(d) PROVE BaselineInv'
  BY <1>9 DEF SaveConfig
<1>10. ASSUME NEW d \in Device, Fail(d) PROVE BaselineInv'
  BY <1>10 DEF Fail
<1>11. CASE UNCHANGED poll_vars
  BY <1>11 DEF poll_vars
<1> QED BY <1>1, <1>2, <1>3, <1>4, <1>r, <1>5, <1>6, <1>7, <1>8, <1>s, <1>n, <1>9, <1>10, <1>11
        DEF PollNext, Daemon, Step, Poll, SyncNow

\* An import takes from the device only what the sync does not carry.
LEMMA ImportedIsMerged ==
    ASSUME PollTypeOK, NEW d \in Device, Import(d), Holds(d)
    PROVE  data[d] \ stray[d] \subseteq data'[d]
<1>1. PICK replaced \in {Word, Addition} :
        data'[d] = (data[d] \ (replaced \cap Selected(config[d]))) \cup merged[d]
  BY DEF Import, PollTypeOK
<1>2. data[d] \cap Selected(config[d]) \subseteq merged[d] \cup stray[d]
  BY DEF Holds, Local
<1> QED BY <1>1, <1>2

LEMMA SyncNextInv == PollTypeOK /\ SyncInv /\ [PollNext]_poll_vars => SyncInv'
<1> SUFFICES ASSUME PollTypeOK, SyncInv, [PollNext]_poll_vars PROVE SyncInv'
  OBVIOUS
<1> USE DEF PollTypeOK, SyncInv, Holds, Local, Writing, sync_conf, history_vars
<1>1. ASSUME NEW d \in Device, Edit(d) PROVE SyncInv'
  <2>1. PICK x \in Addition :
          /\ data' = [data EXCEPT ![d] = @ \cup {x}]
          /\ stray' = IF stage[d] \in {"upload", "import"}
                      THEN [stray EXCEPT ![d] = @ \cup ({x} \cap Selected(config[d]))] ELSE stray
    BY <1>1 DEF Edit
  <2>2. \A e \in Device : e # d => data'[e] = data[e] /\ stray'[e] = stray[e]
    BY <2>1
  <2>3. stage[d] \in {"upload", "import"} => Local(d, config[d])' \subseteq merged[d] \cup stray'[d]
    BY <1>1, <2>1 DEF Edit
  <2> QED BY <1>1, <2>2, <2>3 DEF Edit
<1>2. ASSUME NEW d \in Device, SaveSyncConfig(d) PROVE SyncInv'
  BY <1>2 DEF SaveSyncConfig
<1>3. ASSUME NEW d \in Device, RunSync(d) PROVE SyncInv'
  BY <1>3 DEF RunSync
<1>4. ASSUME NEW d \in Device, FirstPoll(d) PROVE SyncInv'
  <2>1. stage'[d] = "record" /\ taken'[d].local = Local(d, conf[d])
    BY <1>4 DEF FirstPoll, CaptureSyncFingerprints
  <2>2. ~overtaken'[d] => shared = Local(d, conf[d])
    BY <1>4 DEF FirstPoll
  <2>3. \A e \in Device : e # d => /\ stage'[e] = stage[e] /\ taken'[e] = taken[e]
                                   /\ overtaken'[e] = overtaken[e]
    BY <1>4 DEF FirstPoll, CaptureSyncFingerprints
  <2>4. UNCHANGED <<data, shared, config, merged, stray>>
    BY <1>4 DEF FirstPoll
  <2>5. ~overtaken'[d] => shared' = taken'[d].local
    BY <2>1, <2>2, <2>4
  <2>6. \A e \in Device : e # d =>
          /\ stage'[e] \in {"upload", "import"} => Holds(e)'
          /\ stage'[e] = "import" /\ ~overtaken'[e] => shared' = merged'[e]
          /\ stage'[e] = "capture" /\ ~overtaken'[e] => shared' = Local(e, config[e])'
    BY <2>3, <2>4
  <2>7. \A e \in Device : e # d =>
          (Writing(e)' /\ ~overtaken'[e] /\ ~taken'[e].stale => shared' = taken'[e].local)
    BY <2>3, <2>4
  <2> QED BY <2>1, <2>5, <2>6, <2>7
<1>w. ASSUME NEW d \in Device, SaveSyncBaselines(d), stage'[d] \in {"idle", "save"},
             \A e \in Device : e # d => stage'[e] = stage[e],
             UNCHANGED <<data, shared, config, merged, stray>>
      PROVE  SyncInv'
  <2>1. \A e \in Device : e # d => taken'[e] = taken[e] /\ overtaken'[e] = overtaken[e]
    BY <1>w DEF SaveSyncBaselines
  <2> QED BY <1>w, <2>1
<1>r. ASSUME NEW d \in Device, Record(d) PROVE SyncInv'
  BY <1>r, <1>w DEF Record
<1>5. ASSUME NEW d \in Device, MergeData(d) PROVE SyncInv'
  <2>1. PICK unread \in {{}, Word, Use} :
          merged' = [merged EXCEPT ![d] = ((data[d] \ unread) \cup shared) \cap Selected(config[d])]
    BY <1>5 DEF MergeData
  <2>2. stray'[d] = Local(d, config[d]) \ merged'[d] /\ merged'[d] \subseteq Selected(config[d])
    BY <1>5, <2>1 DEF MergeData
  <2>3. \A e \in Device : e # d => /\ stray'[e] = stray[e] /\ merged'[e] = merged[e]
                                   /\ stage'[e] = stage[e]
    BY <1>5, <2>1 DEF MergeData
  <2>4. stage'[d] = "upload"
    BY <1>5 DEF MergeData
  <2> QED BY <1>5, <2>2, <2>3, <2>4 DEF MergeData
<1>6. ASSUME NEW d \in Device, UploadData(d) PROVE SyncInv'
  <2>1. stage'[d] = "import" /\ shared' = merged[d]
    BY <1>6 DEF UploadData
  <2>2. \A e \in Device : e # d => /\ stage'[e] = stage[e]
                                   /\ stage[e] \in {"import", "capture"} => overtaken'[e]
    BY <1>6 DEF UploadData
  <2>3. \A e \in Device : Writing(e) => taken'[e].stale
    BY <1>6 DEF UploadData
  <2>4. stage[d] = "upload" /\ UNCHANGED <<data, config, merged, stray>>
    BY <1>6 DEF UploadData
  <2> QED BY <2>1, <2>2, <2>3, <2>4
<1>7. ASSUME NEW d \in Device, Import(d) PROVE SyncInv'
  <2>1. stage'[d] = "capture" /\ overtaken'[d] = (overtaken[d] \/ data'[d] \cap Selected(config[d]) # merged[d])
    BY <1>7 DEF Import
  <2>2. stage[d] = "import" /\ UNCHANGED <<shared, config, taken>>
    BY <1>7 DEF Import
  <2>3. \A e \in Device : e # d => /\ data'[e] = data[e] /\ merged'[e] = merged[e]
                                   /\ stage'[e] = stage[e] /\ stray'[e] = stray[e]
                                   /\ overtaken'[e] = overtaken[e]
    BY <1>7 DEF Import
  <2>4. ~overtaken'[d] => shared' = Local(d, config[d])'
    BY <2>1, <2>2
  <2> QED BY <2>1, <2>2, <2>3, <2>4
<1>8. ASSUME NEW d \in Device, Capture(d) PROVE SyncInv'
  <2>1. stage'[d] = "captured" /\ taken'[d].local = Local(d, config[d])
    BY <1>8 DEF Capture, CaptureSyncFingerprints
  <2>2. \A e \in Device : e # d => stage'[e] = stage[e] /\ taken'[e] = taken[e]
    BY <1>8 DEF Capture, CaptureSyncFingerprints
  <2>3. stage[d] = "capture" /\ UNCHANGED <<data, shared, config, merged, stray, overtaken>>
    BY <1>8 DEF Capture
  <2> QED BY <2>1, <2>2, <2>3
<1>s. ASSUME NEW d \in Device, SaveBaselines(d) PROVE SyncInv'
  BY <1>s, <1>w DEF SaveBaselines
<1>n. ASSUME NEW d \in Device, NoBaselines(d) PROVE SyncInv'
  <2>1. stage'[d] = "save" /\ UNCHANGED <<data, shared, config, merged, stray>>
    BY <1>n DEF NoBaselines
  <2>2. \A e \in Device : e # d => /\ stage'[e] = stage[e] /\ taken'[e] = taken[e]
                                   /\ overtaken'[e] = overtaken[e]
    BY <1>n DEF NoBaselines
  <2> QED BY <2>1, <2>2
<1>9. ASSUME NEW d \in Device, SaveConfig(d) PROVE SyncInv'
  BY <1>9 DEF SaveConfig, End
<1>10. ASSUME NEW d \in Device, Fail(d) PROVE SyncInv'
  <2>1. stage'[d] = "idle" /\ UNCHANGED <<data, shared>>
    BY <1>10 DEF Fail, End
  <2>2. \A e \in Device : e # d => /\ stage'[e] = stage[e] /\ config'[e] = config[e]
                                   /\ merged'[e] = merged[e] /\ taken'[e] = taken[e]
                                   /\ stray'[e] = stray[e] /\ overtaken'[e] = overtaken[e]
    BY <1>10 DEF Fail, End
  <2> QED BY <2>1, <2>2
<1>11. CASE UNCHANGED poll_vars
  BY <1>11 DEF poll_vars
<1> QED BY <1>1, <1>2, <1>3, <1>4, <1>r, <1>5, <1>6, <1>7, <1>8, <1>s, <1>n, <1>9, <1>10, <1>11
        DEF PollNext, Daemon, Step, Poll, SyncNow

LEMMA SettingsNext == PollTypeOK /\ SettingsInv /\ [PollNext]_poll_vars => SettingsInv'
<1> SUFFICES ASSUME PollTypeOK, SettingsInv, [PollNext]_poll_vars PROVE SettingsInv'
  OBVIOUS
<1> USE DEF PollTypeOK, SettingsInv, Writing, sync_conf, history_vars
<1>1. ASSUME NEW d \in Device, Edit(d) PROVE SettingsInv'
  BY <1>1 DEF Edit
<1>2. ASSUME NEW d \in Device, SaveSyncConfig(d) PROVE SettingsInv'
  <2>1. late'[d] = (stage[d] # "idle") /\ conf'[d] = chosen'[d] /\ UNCHANGED <<stage, config, taken>>
    BY <1>2 DEF SaveSyncConfig
  <2>2. \A e \in Device : e # d => late'[e] = late[e] /\ conf'[e] = conf[e] /\ chosen'[e] = chosen[e]
    BY <1>2 DEF SaveSyncConfig
  <2> QED BY <2>1, <2>2
<1>3. ASSUME NEW d \in Device, RunSync(d) PROVE SettingsInv'
  BY <1>3 DEF RunSync
<1>c. ASSUME NEW d \in Device, NEW s, CaptureSyncFingerprints(d, s)
      PROVE  /\ taken'[d].conf = conf[d]
             /\ \A e \in Device : e # d => taken'[e] = taken[e]
  BY <1>c DEF CaptureSyncFingerprints
<1>4. ASSUME NEW d \in Device, FirstPoll(d) PROVE SettingsInv'
  BY <1>4, <1>c DEF FirstPoll
<1>w. ASSUME NEW d \in Device, SaveSyncBaselines(d), Writing(d)
      PROVE  /\ ~late[d] => conf'[d] = conf[d]
             /\ \A e \in Device : e # d => conf'[e] = conf[e] /\ taken'[e] = taken[e]
  BY <1>w DEF SaveSyncBaselines
<1>r. ASSUME NEW d \in Device, Record(d) PROVE SettingsInv'
  BY <1>r, <1>w DEF Record
<1>5. ASSUME NEW d \in Device, MergeData(d) PROVE SettingsInv'
  BY <1>5 DEF MergeData
<1>6. ASSUME NEW d \in Device, UploadData(d) PROVE SettingsInv'
  <2>1. \A e \in Device : taken'[e].conf = taken[e].conf
    BY <1>6 DEF UploadData
  <2> QED BY <1>6, <2>1 DEF UploadData
<1>7. ASSUME NEW d \in Device, Import(d) PROVE SettingsInv'
  BY <1>7 DEF Import
<1>8. ASSUME NEW d \in Device, Capture(d) PROVE SettingsInv'
  BY <1>8, <1>c DEF Capture
<1>s. ASSUME NEW d \in Device, SaveBaselines(d) PROVE SettingsInv'
  BY <1>s, <1>w DEF SaveBaselines
<1>n. ASSUME NEW d \in Device, NoBaselines(d) PROVE SettingsInv'
  BY <1>n DEF NoBaselines
<1>9. ASSUME NEW d \in Device, SaveConfig(d) PROVE SettingsInv'
  BY <1>9 DEF SaveConfig, End
<1>10. ASSUME NEW d \in Device, Fail(d) PROVE SettingsInv'
  BY <1>10 DEF Fail, End
<1>11. CASE UNCHANGED poll_vars
  BY <1>11 DEF poll_vars
<1> QED BY <1>1, <1>2, <1>3, <1>4, <1>r, <1>5, <1>6, <1>7, <1>8, <1>s, <1>n, <1>9, <1>10, <1>11
        DEF PollNext, Daemon, Step, Poll, SyncNow

LEMMA PollInvariance == PollSpec => [](PollTypeOK /\ BaselineInv /\ SyncInv /\ SettingsInv)
<1>1. PollInit => BaselineInv /\ SyncInv /\ SettingsInv
  BY DEF PollInit, BaselineInv, SyncInv, SettingsInv, Writing
<1> QED BY <1>1, PollTyping, BaselineNext, SyncNextInv, SettingsNext, PTL DEF PollSpec

-----------------------------------------------------------------------------
\* When EvaluateIntervalSync skips, bundle and device hold the same, unless the saved
\* fingerprints already hide a change; for any number of devices and any data.
THEOREM SkipsAreRight == PollSpec => []SkipIsRight
<1>1. BaselineInv => SkipIsRight
  BY DEF BaselineInv, SkipIsRight, Changed
<1> QED BY <1>1, PollInvariance, PTL

\* A sync, and a poll that writes its fingerprints, gives back the settings it found: the
\* user's, unless they were saved meanwhile.
THEOREM SettingsAreKept == PollSpec => []SettingsKept
<1>1. PollTypeOK /\ SettingsInv => SettingsKept
  BY DEF PollTypeOK, SettingsInv, SettingsKept
<1> QED BY <1>1, PollInvariance, PTL

\* No step of any device, with whichever parts selected, failing or misreading anywhere,
\* takes an addition from the device it is on, unless the running sync does not carry it:
\* what Import replaces is in what was merged.
THEOREM NothingIsLost == PollSpec => NothingDisappears
<1>1. PollTypeOK /\ SyncInv /\ [PollNext]_poll_vars => [Carried \subseteq Everywhere']_poll_vars
  <2> SUFFICES ASSUME PollTypeOK, SyncInv, PollNext
               PROVE  \A d \in Device : data[d] \ stray[d] \subseteq data'[d]
    BY DEF Carried, Everywhere
  <2> USE DEF PollTypeOK, sync_conf, history_vars
  <2>1. ASSUME NEW d \in Device, Edit(d) PROVE \A e \in Device : data[e] \subseteq data'[e]
    <3>1. PICK x \in Addition : data' = [data EXCEPT ![d] = @ \cup {x}]
      BY <2>1 DEF Edit
    <3> QED BY <3>1
  <2>2. ASSUME NEW d \in Device, Import(d)
        PROVE  \A e \in Device : data[e] \ stray[e] \subseteq data'[e]
    <3>1. data[d] \ stray[d] \subseteq data'[d]
      BY <2>2, ImportedIsMerged DEF SyncInv, Import
    <3>2. \A e \in Device : e # d => data'[e] = data[e]
      BY <2>2 DEF Import
    <3> QED BY <3>1, <3>2
  <2>3. CASE data' = data
    BY <2>3
  <2> QED BY <2>1, <2>2, <2>3
          DEF PollNext, Daemon, Step, Poll, SyncNow, SaveSyncConfig, FirstPoll, Record, RunSync,
              MergeData, UploadData, Capture, SaveBaselines, NoBaselines, SaveConfig, Fail
<1> QED BY <1>1, PollInvariance, PTL DEF PollSpec, NothingDisappears
=============================================================================
