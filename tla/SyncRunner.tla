----------------------------- MODULE SyncRunner -----------------------------
(***************************************************************************)
(* The sync processes (marinaMojiSync --daemon and --now), the converter   *)
(* they lock, and the keyboard overlay                                     *)
(* (src/sync/sync_runner.cc, sync_main.cc, sync_status.cc, sync_history.cc, *)
(* src/session/session_handler.cc, src/client/client.cc,                    *)
(* src/unix/ibus/sync_overlay.cc).                                          *)
(*                                                                         *)
(* A runner is one process.  It talks to the converter by calls that may   *)
(* time out or find the converter gone, and to the other runners and the   *)
(* overlay only through sync.status.json.  The data it moves is the        *)
(* learning history, a set of phrases: in the converter's memory, in its   *)
(* file, and in the bundle.  A read or a write of that file that fails is   *)
(* not noticed.  How the dictionary moves is SyncDictionary.                *)
(***************************************************************************)
EXTENDS Naturals

CONSTANTS
    Runner,          \* sync processes
    Phrase,          \* phrases a user can commit
    StopDuringSync,  \* TRUE: the converter may stop or crash while a sync runs
    MaxKill,         \* bound on runners killed before they finish
    MaxTimeout,      \* bound on calls that time out
    MaxSuspend,      \* bound on suspends that outlast the age of a status
    MaxFail          \* bound on reads and writes of .history.db that fail unnoticed

ASSUME RunnerBounds == /\ StopDuringSync \in BOOLEAN
                       /\ MaxKill \in Nat /\ MaxTimeout \in Nat /\ MaxSuspend \in Nat
                       /\ MaxFail \in Nat

VARIABLES
    up,         \* the converter process runs
    locked,     \* SessionHandler::sync_locked_
    composing,  \* some session has a composition
    mem,        \* UserHistoryStorage::dic_
    dirty,      \* UserHistoryStorage::needs_sync_
    disk,       \* .history.db
    bundle,     \* history of the file at sync_file_path
    status,     \* sync.status.json: state, and whether it is over 600 s old
    overlay,    \* g_sync_active of the IME process
    pc,         \* pc[r]: the next step of RunSync or CanAutoSync
    mode,       \* mode[r]: how the process was started
    conn,       \* conn[r]: Client::server_status_, all errors past SERVER_TIMEOUT as "dead"
    holds,      \* holds[r]: SyncLockGuard::locked_
    out,        \* out[r]: history of local_files, then of merged
    kills, timeouts, suspends,
    fails,      \* reads and writes of .history.db that failed
    \* History variables, read by no action.
    learnt,     \* phrases committed and not lost by a crash
    exposed,    \* phrases that a read or a write that failed, or a commit while the
                \* converter had forgotten the lock, left in one place only
    unsent,     \* unsent[r]: phrases that what r exported could not hold
    lapsed      \* a converter was started while a sync ran, and forgot its lock

store == <<dirty, disk, fails, exposed>>
converter == <<up, locked, composing, mem, store, lapsed>>
local == <<out, unsent>>
runner == <<pc, mode, conn, holds, local>>
bounds == <<kills, timeouts, suspends>>
vars == <<converter, bundle, status, overlay, runner, bounds, learnt>>

RunStep == {"check", "state", "connect", "lock", "flush", "export", "merge", "upload",
            "import", "save", "reload", "done", "unlock"}
Steps == {"idle", "auto", "autoconnect", "autostate"} \cup RunStep
InSync == {"flush", "export", "merge", "upload", "import", "save", "reload", "done"}

\* Steps at which a runner holds an older copy of the history than the file.
Merging == \E r \in Runner : pc[r] \in {"export", "merge", "upload", "import", "save"}
PastFlush(r) == pc[r] \in InSync \ {"flush"}

ConverterTypeOK ==
    /\ up \in BOOLEAN /\ locked \in BOOLEAN /\ composing \in BOOLEAN /\ dirty \in BOOLEAN
    /\ mem \subseteq Phrase /\ disk \subseteq Phrase
    /\ exposed \subseteq Phrase /\ lapsed \in BOOLEAN
RunnerTypeOK ==
    /\ pc \in [Runner -> Steps]
    /\ mode \in [Runner -> {"daemon", "now", "force"}]
    /\ conn \in [Runner -> {"unknown", "ok", "shutdown", "dead"}]
    /\ holds \in [Runner -> BOOLEAN]
    /\ out \in [Runner -> SUBSET Phrase] /\ unsent \in [Runner -> SUBSET Phrase]
FilesTypeOK ==
    /\ bundle \subseteq Phrase /\ overlay \in BOOLEAN /\ learnt \subseteq Phrase
    /\ status \in [state : {"idle", "running", "done", "error"}, stale : BOOLEAN]
BoundsTypeOK == /\ kills \in 0..MaxKill /\ timeouts \in 0..MaxTimeout
                /\ suspends \in 0..MaxSuspend /\ fails \in 0..MaxFail
TypeOK == ConverterTypeOK /\ RunnerTypeOK /\ FilesTypeOK /\ BoundsTypeOK

Init ==
    /\ up \in BOOLEAN /\ locked = FALSE /\ composing = FALSE
    /\ mem = {} /\ dirty = FALSE /\ disk = {} /\ bundle \in SUBSET Phrase
    /\ status = [state |-> "idle", stale |-> FALSE] /\ overlay = FALSE
    /\ pc = [r \in Runner |-> "idle"] /\ mode = [r \in Runner |-> "now"]
    /\ conn = [r \in Runner |-> "unknown"] /\ holds = [r \in Runner |-> FALSE]
    /\ out = [r \in Runner |-> {}]
    /\ kills = 0 /\ timeouts = 0 /\ suspends = 0 /\ fails = 0
    /\ learnt = {} /\ exposed = {} /\ lapsed = FALSE
    /\ unsent = [r \in Runner |-> {}]

-----------------------------------------------------------------------------
(* The converter. *)

Unnoticed == fails < MaxFail /\ fails' = fails + 1

\* AsyncLoad: a file that cannot be read leaves nothing in memory.
LoadHistory ==
    /\ dirty' = FALSE /\ UNCHANGED disk
    /\ \/ /\ mem' = disk
          /\ exposed' = IF Merging THEN exposed ELSE exposed \ disk
          /\ UNCHANGED fails
       \/ Unnoticed /\ mem' = {} /\ exposed' = exposed \cup disk

\* A new process: no lock, no session, the history loaded from its file.
StartConverter ==
    /\ up' = TRUE /\ locked' = FALSE /\ composing' = FALSE
    /\ lapsed' = (\E r \in Runner : pc[r] \in InSync)
    /\ LoadHistory

\* Mutant: Sync starts the save and nobody waits for it.
SaveForgotten == dirty' = FALSE /\ UNCHANGED <<disk, fails, exposed>>

\* AsyncSave and Wait: the file is written when something changed, unless the write
\* fails or AsyncSave does nothing because an older save, which clears the flag in
\* the end, is still running.  A converter that kept unsaved phrases through a merge
\* writes them over its result.
SaveHistory ==
    \/ /\ disk' = IF dirty THEN mem ELSE disk
       /\ dirty' = FALSE
       /\ exposed' = (IF Merging THEN exposed ELSE exposed \ (mem \cap disk'))
                     \cup (IF exposed \cap mem # {} THEN disk \ disk' ELSE {})
       /\ UNCHANGED fails
    \/ /\ Unnoticed /\ dirty /\ dirty' \in BOOLEAN
       /\ exposed' = exposed \cup mem
       /\ UNCHANGED disk

\* What each command of a runner does when the converter evaluates it.
\* BEGIN_SYNC_LOCK does nothing when the lock is taken.
EvalBeginSyncLock ==
    /\ locked' = TRUE /\ lapsed' = FALSE
    /\ IF locked THEN UNCHANGED store ELSE SaveHistory
    /\ UNCHANGED <<up, composing, mem>>
EvalSyncData == SaveHistory /\ UNCHANGED <<up, locked, composing, mem, lapsed>>

\* Mutant: ReloadAndWait does not wait for the load.
ReloadWithoutWait ==
    dirty' = FALSE /\ UNCHANGED <<up, locked, composing, mem, disk, fails, exposed, lapsed>>
EvalReloadAndWait == LoadHistory /\ UNCHANGED <<up, locked, composing, lapsed>>

\* Mutant: END_SYNC_LOCK answers the state and leaves the lock alone.
EvalEndSyncLockForgotten == UNCHANGED converter
EvalEndSyncLock == locked' = FALSE /\ UNCHANGED <<up, composing, mem, store, lapsed>>

\* SEND_KEY and SEND_COMMAND are refused while the lock is held.
CanSendKey == up /\ ~locked

\* A key reaches a session unless the overlay swallows it.
Type ==
    /\ CanSendKey /\ ~overlay
    /\ composing' = TRUE
    /\ UNCHANGED <<up, locked, mem, store, lapsed, bundle, status, overlay, runner, bounds, learnt>>

\* A commit, by a key or by a command sent when the focus leaves, is learnt.
Commit(p) ==
    /\ CanSendKey /\ composing
    /\ composing' = FALSE
    /\ mem' = mem \cup {p} /\ dirty' = TRUE
    /\ learnt' = learnt \cup {p}
    /\ exposed' = IF lapsed /\ \E r \in Runner : PastFlush(r)
                  THEN exposed \cup {p} ELSE exposed \ {p}
    /\ unsent' = [r \in Runner |-> IF lapsed /\ PastFlush(r) THEN unsent[r] \cup {p}
                                                           ELSE unsent[r]]
    /\ UNCHANGED <<up, locked, disk, fails, lapsed, bundle, status, overlay, pc, mode, conn, holds,
                   out, bounds>>

\* DELETE_SESSION and CLEANUP, accepted whether or not the lock is held, drop
\* sessions and save the history.
DropSessions ==
    /\ up
    /\ composing' \in {composing, FALSE}
    /\ SaveHistory
    /\ UNCHANGED <<up, locked, mem, lapsed, bundle, status, overlay, runner, bounds, learnt>>

MayStop == up /\ (StopDuringSync \/ \A r \in Runner : pc[r] = "idle")

\* SHUTDOWN saves before the process exits.
Stop ==
    /\ MayStop
    /\ up' = FALSE /\ locked' = FALSE /\ composing' = FALSE /\ SaveHistory
    /\ UNCHANGED <<mem, lapsed, bundle, status, overlay, runner, bounds, learnt>>

\* A crash loses what was not saved.
Crash ==
    /\ MayStop
    /\ up' = FALSE /\ locked' = FALSE /\ composing' = FALSE /\ learnt' = learnt \cap disk
    /\ UNCHANGED <<mem, store, lapsed, bundle, status, overlay, runner, bounds>>

\* A client application finds no converter and starts one.
Restart ==
    /\ ~up /\ StartConverter
    /\ UNCHANGED <<bundle, status, overlay, runner, bounds, learnt>>

-----------------------------------------------------------------------------
(* sync.status.json and the overlay. *)


WriteSyncStatus(state) == status' = [state |-> state, stale |-> FALSE]
IsSyncRunning == status.state = "running" /\ ~status.stale

\* 600 seconds pass under a status, as when the machine is suspended.
Suspend ==
    /\ suspends < MaxSuspend /\ ~status.stale /\ status.state = "running"
    /\ suspends' = suspends + 1 /\ status' = [status EXCEPT !.stale = TRUE]
    /\ UNCHANGED <<converter, bundle, overlay, runner, kills, timeouts, learnt>>

\* The IME process polls the status, and looks only at its state.
PollOverlay ==
    /\ overlay' = (status.state = "running")
    /\ UNCHANGED <<converter, bundle, status, runner, bounds, learnt>>

-----------------------------------------------------------------------------
(* The runners. *)

Goto(r, step) == pc' = [pc EXCEPT ![r] = step]

\* PerformSync returns, or its process ends: its copies of the data are gone.
Unwind(r) == out' = [out EXCEPT ![r] = {}] /\ unsent' = [unsent EXCEPT ![r] = {}]

\* Mutant: EndSyncLock is skipped after a failure.
FailureReportKeepsLock(r) == WriteSyncStatus("error") /\ Unwind(r) /\ Goto(r, "idle")

\* Mutant: The failed RunSync leaves its last progress in the status file.
FailureReportSilent(r) ==
    /\ UNCHANGED status /\ Unwind(r)
    /\ Goto(r, IF holds[r] THEN "unlock" ELSE "idle")

\* FailureReport, then the guard's destructor if there is a guard.
FailureReport(r) ==
    /\ WriteSyncStatus("error") /\ Unwind(r)
    /\ Goto(r, IF holds[r] THEN "unlock" ELSE "idle")

\* Client::Call of a command whose evaluation is Eval.  The reply is taken for a
\* success whatever the handler answered.
Replied(r, Eval) == up /\ conn[r] # "dead" /\ Eval /\ UNCHANGED <<conn, timeouts>>

\* No reply: the client refuses to call, or finds no converter, or gives up
\* waiting, whether the converter gets to the command or not.
NoReply(r, Eval) ==
    \/ /\ conn[r] = "dead"
       /\ UNCHANGED <<conn, timeouts, converter>>
    \/ /\ conn[r] # "dead" /\ ~up
       /\ conn' = IF conn[r] = "unknown" THEN conn ELSE [conn EXCEPT ![r] = "shutdown"]
       /\ UNCHANGED <<timeouts, converter>>
    \/ /\ conn[r] # "dead" /\ up /\ timeouts < MaxTimeout
       /\ timeouts' = timeouts + 1
       /\ conn' = [conn EXCEPT ![r] = "dead"]
       /\ (Eval \/ UNCHANGED converter)

\* EnsureConnection starts the converter when it has never answered, or no longer does.
Connected(r) ==
    /\ conn[r] # "dead"
    /\ conn' = [conn EXCEPT ![r] = "ok"]
    /\ IF conn[r] # "ok" /\ ~up THEN StartConverter ELSE UNCHANGED converter
NotConnected(r) ==
    /\ conn[r] = "dead" \/ (conn[r] # "ok" /\ ~up)
    /\ conn' = [conn EXCEPT ![r] = "dead"]
    /\ UNCHANGED converter

\* A process starts: the daemon's poll, or "Sync now".
Start(r, m) ==
    /\ pc[r] = "idle"
    /\ mode' = [mode EXCEPT ![r] = m]
    /\ conn' = [conn EXCEPT ![r] = "unknown"]
    /\ Goto(r, IF m = "daemon" THEN "auto" ELSE "check")
    /\ UNCHANGED <<converter, bundle, status, overlay, holds, local, bounds, learnt>>

\* CanAutoSync gives up without a report.
AutoCheck(r) ==
    /\ pc[r] = "auto"
    /\ Goto(r, IF IsSyncRunning THEN "idle" ELSE "autoconnect")
    /\ UNCHANGED <<converter, bundle, status, overlay, mode, conn, holds, local, bounds, learnt>>

AutoConnect(r) ==
    /\ pc[r] = "autoconnect"
    /\ \/ Connected(r) /\ Goto(r, "autostate")
       \/ NotConnected(r) /\ Goto(r, "idle")
    /\ UNCHANGED <<bundle, status, overlay, mode, holds, local, bounds, learnt>>

AutoState(r) ==
    /\ pc[r] = "autostate"
    /\ \/ /\ Replied(r, UNCHANGED converter)
          /\ ~locked /\ ~composing /\ Goto(r, "check")
       \/ /\ Replied(r, UNCHANGED converter)  \* locked, composing or cooling down
          /\ Goto(r, "idle")
       \/ NoReply(r, UNCHANGED converter) /\ Goto(r, "idle")
    /\ UNCHANGED <<bundle, status, overlay, mode, holds, local, kills, suspends, learnt>>

\* RunSync up to the query of the converter; sync.conf may be missing or disabled.
RunSyncCheck(r) ==
    /\ pc[r] = "check"
    /\ \/ ~IsSyncRunning /\ UNCHANGED <<status, local>>
          /\ Goto(r, IF mode[r] = "force" THEN "connect" ELSE "state")
       \/ FailureReport(r)
    /\ mode' = [mode EXCEPT ![r] = "now"]  \* not read again
    /\ UNCHANGED <<converter, bundle, overlay, conn, holds, bounds, learnt>>

RunSyncState(r) ==
    /\ pc[r] = "state"
    /\ \/ /\ Replied(r, UNCHANGED converter) /\ ~composing
          /\ Goto(r, "connect") /\ UNCHANGED <<status, local>>
       \/ Replied(r, UNCHANGED converter) /\ FailureReport(r)  \* composing or cooling down
       \/ NoReply(r, UNCHANGED converter) /\ FailureReport(r)
    /\ UNCHANGED <<bundle, overlay, mode, holds, kills, suspends, learnt>>

RunSyncConnect(r) ==
    /\ pc[r] = "connect"
    /\ \/ Connected(r) /\ Goto(r, "lock") /\ WriteSyncStatus("running") /\ UNCHANGED local
       \/ NotConnected(r) /\ FailureReport(r)
    /\ UNCHANGED <<bundle, overlay, mode, holds, bounds, learnt>>

\* SyncLockGuard.
BeginSyncLock(r) ==
    /\ pc[r] = "lock"
    /\ \/ /\ Replied(r, EvalBeginSyncLock)
          /\ holds' = [holds EXCEPT ![r] = TRUE]
          /\ Goto(r, "flush") /\ WriteSyncStatus("running") /\ UNCHANGED local
       \/ NoReply(r, EvalBeginSyncLock) /\ FailureReport(r) /\ UNCHANGED holds
    /\ UNCHANGED <<bundle, overlay, mode, kills, suspends, learnt>>

SyncData(r) ==
    /\ pc[r] = "flush"
    /\ \/ /\ Replied(r, EvalSyncData)
          /\ Goto(r, "export") /\ WriteSyncStatus("running") /\ UNCHANGED local
       \/ NoReply(r, EvalSyncData) /\ FailureReport(r)
    /\ UNCHANGED <<bundle, overlay, mode, holds, kills, suspends, learnt>>

\* PerformSync, for the history.  Each step reads or writes one file; the merge,
\* the upload and the import can fail.  A history that cannot be read is exported,
\* and loaded for the import, as an empty one.
Export(r) ==
    /\ pc[r] = "export"
    /\ \/ /\ out' = [out EXCEPT ![r] = disk]
          /\ unsent' = [unsent EXCEPT ![r] = exposed]
          /\ UNCHANGED fails
       \/ /\ Unnoticed /\ out' = [out EXCEPT ![r] = {}]
          /\ unsent' = [unsent EXCEPT ![r] = exposed \cup disk]
    /\ Goto(r, "merge") /\ WriteSyncStatus("running")
    /\ UNCHANGED <<up, locked, composing, mem, dirty, disk, exposed, lapsed, bundle, overlay, mode,
                   conn, holds, bounds, learnt>>

Merge(r) ==
    /\ pc[r] = "merge"
    /\ \/ /\ out' = [out EXCEPT ![r] = out[r] \cup bundle]
          /\ Goto(r, "upload") /\ WriteSyncStatus("running") /\ UNCHANGED unsent
       \/ FailureReport(r)
    /\ UNCHANGED <<converter, bundle, overlay, mode, conn, holds, bounds, learnt>>

Upload(r) ==
    /\ pc[r] = "upload"
    /\ \/ /\ bundle' = out[r]
          /\ Goto(r, "import") /\ WriteSyncStatus("running") /\ UNCHANGED local
       \/ FailureReport(r) /\ UNCHANGED bundle
    /\ UNCHANGED <<converter, overlay, mode, conn, holds, bounds, learnt>>

\* ImportHistory loads the file, inserts the merged rows and saves the result.
ImportLoad(r) ==
    /\ pc[r] = "import"
    /\ \/ out' = [out EXCEPT ![r] = out[r] \cup disk] /\ UNCHANGED <<fails, exposed>>
       \/ Unnoticed /\ exposed' = exposed \cup (disk \ out[r]) /\ UNCHANGED out
    /\ Goto(r, "save")
    /\ UNCHANGED <<up, locked, composing, mem, dirty, disk, lapsed, bundle, status, overlay, mode,
                   conn, holds, unsent, bounds, learnt>>

ImportSave(r) ==
    /\ pc[r] = "save"
    /\ \/ /\ disk' = out[r] /\ out' = [out EXCEPT ![r] = {}] /\ UNCHANGED unsent
          /\ Goto(r, "reload") /\ WriteSyncStatus("running")
       \/ disk' \in {disk, out[r]} /\ FailureReport(r)
    /\ UNCHANGED <<up, locked, composing, mem, dirty, fails, exposed, lapsed, bundle, overlay, mode,
                   conn, holds, bounds, learnt>>

ReloadAndWait(r) ==
    /\ pc[r] = "reload"
    /\ \/ Replied(r, EvalReloadAndWait) /\ Goto(r, "done") /\ UNCHANGED <<status, local>>
       \/ NoReply(r, EvalReloadAndWait) /\ FailureReport(r)
    /\ UNCHANGED <<bundle, overlay, mode, holds, kills, suspends, learnt>>

Report(r) ==
    /\ pc[r] = "done"
    /\ WriteSyncStatus("done") /\ Unwind(r) /\ Goto(r, "unlock")
    /\ UNCHANGED <<converter, bundle, overlay, mode, conn, holds, bounds, learnt>>

\* ~SyncLockGuard.
EndSyncLock(r) ==
    /\ pc[r] = "unlock"
    /\ Replied(r, EvalEndSyncLock) \/ NoReply(r, EvalEndSyncLock)
    /\ holds' = [holds EXCEPT ![r] = FALSE] /\ Goto(r, "idle")
    /\ UNCHANGED <<bundle, status, overlay, mode, local, kills, suspends, learnt>>

\* The process is killed; nothing runs its destructors.
Kill(r) ==
    /\ pc[r] # "idle" /\ kills < MaxKill
    /\ kills' = kills + 1
    /\ holds' = [holds EXCEPT ![r] = FALSE] /\ Unwind(r) /\ Goto(r, "idle")
    /\ UNCHANGED <<converter, bundle, status, overlay, mode, conn, timeouts, suspends, learnt>>

-----------------------------------------------------------------------------

RunnerStep(r) ==
    \/ AutoCheck(r) \/ AutoConnect(r) \/ AutoState(r)
    \/ RunSyncCheck(r) \/ RunSyncState(r) \/ RunSyncConnect(r)
    \/ BeginSyncLock(r) \/ SyncData(r)
    \/ Export(r) \/ Merge(r) \/ Upload(r) \/ ImportLoad(r) \/ ImportSave(r)
    \/ ReloadAndWait(r) \/ Report(r) \/ EndSyncLock(r)

User == Type \/ \E p \in Phrase : Commit(p)
Converter == DropSessions \/ Stop \/ Crash \/ Restart
Spawn == \E r \in Runner, m \in {"daemon", "now", "force"} : Start(r, m)

Next ==
    \/ User \/ Converter \/ Spawn
    \/ Suspend \/ PollOverlay
    \/ \E r \in Runner : RunnerStep(r) \/ Kill(r)

Spec == Init /\ [][Next]_vars

\* A process that is running keeps running, and the overlay's timer fires.
Fairness == WF_vars(PollOverlay) /\ \A r \in Runner : WF_vars(RunnerStep(r))
FairSpec == Spec /\ Fairness

-----------------------------------------------------------------------------
(* Correctness. *)

\* Nothing the user committed is lost by a sync: it is in the memory of the
\* converter, or in its file when it does not run.  ReloadAndWait discards what
\* was learnt after the flush, so this needs the lock (BeginSyncLock, SendKey).
\* Given up is only what a failed read or write, or a converter that was started
\* again in the middle of a sync, has left in one place.
LearntKept == learnt \ exposed \subseteq (IF up THEN mem ELSE disk)

\* SYNC_PLAN.md: "BEGIN_SYNC_LOCK - sets lock; rejects new keys/commands".  While a
\* runner was told that it holds the lock (SyncLockGuard::locked_), it is held.
KeysRejectedDuringSync == up /\ (\E r \in Runner : holds[r]) => locked

\* When RunSync reports "done", the bundle holds everything learnt here that the
\* export could hold, and the converter has loaded everything in the bundle, unless
\* it could not read its file or has written unsaved phrases over it.
DoneMeansMerged ==
    \A r \in Runner : up /\ pc[r] = "done" =>
        learnt \ unsent[r] \subseteq bundle /\ bundle \ exposed \subseteq mem

\* SYNC_PLAN.md: "END_SYNC_LOCK - clears lock (sync daemon must call even on
\* error)".  Some process is still going to clear a lock that is set.
LockHasHolder == up /\ locked => \E r \in Runner : holds[r] /\ pc[r] # "idle"

\* The keyboard is given back: a lock is always cleared again.
LockFreed == locked ~> ~locked

\* SYNC_EXPERIMENTAL_NOTES.md: the IME "blocks input with an overlay during sync".
\* Once no sync process is left, the overlay stops swallowing keys.
OverlayOnlyDuringSync == <>[](\A r \in Runner : pc[r] = "idle") => <>[]~overlay

=============================================================================
