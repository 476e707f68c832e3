# marinaMoji: TLA+ models, checks and proofs

marinaMoji is a Japanese input method built on Mozc. It adds an encrypted
synchronisation of the user dictionary, the learning history and the character
forms between devices. This directory holds TLA+ models of the parts whose
correctness depends on the order of steps taken by several processes, threads
or devices, the TLC runs that check them on small instances, and theorems
proved with TLAPS for every instance. Paths below are relative to the
repository's `src/` directory of C++ code.

## 1. Inventory

### 1.1 Processes

| process | code | what it does |
|---|---|---|
| converter server | `server/`, `session/`, `engine/`, `converter/`, `prediction/`, ... | one thread evaluates the commands of all clients in turn (`SessionHandler::EvalCommand`); helper threads load and save data |
| clients | `client/`, `unix/`, `mac/`, `win32/` | one per application; sends keys over IPC, restarts the server, replays keys |
| `marinaMojiSync` | `sync/sync_main.cc` | `--now`, `--now --force`, or `--daemon` (a loop) |
| Config dialog, Dictionary Tool, word register dialog | `gui/` | edit `sync.conf` and `user_dictionary.db`, start `marinaMojiSync --now --force` and poll the status file |
| renderer | `renderer/` | draws the candidate window |

### 1.2 Components, their state and their operations

| component | state | operations | why it is hard | what makes it correct |
|---|---|---|---|---|
| Dictionary merge (`sync/sync_service.cc`, `sync/sync_dictionary_tombstones.cc`) | rows on disk, tombstone log, bundle file | export, merge, write the bundle, import; record removals; compact | read, merge and write are separate steps; editors, other devices, failures and the expiry of tombstones come in between | no undeleted word is lost, no deleted word returns, devices agree in the end |
| Sync runner (`sync/sync_runner.cc`, `sync/sync_status.cc`) | `sync.status.json`, the converter's `sync_locked_` | `RunSync`, `CanAutoSync`, `IsSyncRunning` | status is check-then-act across processes; the lock call hides refusals; timeouts and crashes leave the lock | the converter accepts no keys during a merge; a lock does not outlive its holder |
| Learning history (`prediction/user_history_storage.cc`) | `dic_`, `needs_sync_`, `canceled_`, the task thread, `.history.db` | insert, erase, asynchronous load and save, clear, shutdown | the task thread and the session thread share the dictionary and a dirty flag | what was learnt is in the file in the end; an incomplete load is never saved |
| Interval polling (`sync/sync_poll.cc`, `sync/sync_main.cc`) | baselines in `sync.conf`, fingerprints | compare, sync, remember | two devices answer each other's uploads; a baseline may cover a bundle never merged | a skipped poll has nothing to do; every change reaches the other device |
| History and character form merge (`sync/sync_merge.cc`, `sync/sync_character_form.cc`, `sync/sync_history.cc`) | frequencies, last-writer stamps | merge, import, stamp | repeated merges of the same data; two values that must fit each other, merged one by one | no form or entry grows older, no removed entry returns, the forms agree in the end |
| Sync configuration (`sync/sync_config.cc`) | `sync.conf` | load, save | load-modify-write from several processes | no setting of the user is lost |
| Session handler (`session/session_handler.cc`) | LRU map of sessions, engine, `sync_locked_`, times | create, delete, keys, cleanup, reload, lock | eviction, timeouts, keys rejected by the sync lock | an application has one session, and gets another when it loses it |
| Client (`client/client.cc`) | `server_status_`, session id, history of inputs | call, ensure session, replay | the server restarts, times out, refuses; the trial is repeated after a playback | each character arrives once and in order |
| Engine and data loader (`engine/engine.cc`, `engine/data_loader.cc`) | data, requests, a loader thread | request, build, swap | a request races the end of the thread; high priority data comes late; swap only when no session uses the data | the best data is loaded and never replaced by worse |
| User dictionary reloader (`dictionary/user_dictionary.cc`) | tokens, `modified_at_`, `reload_state_`, a loader thread | load, reload, wait | requests race the end of the thread; the engine is swapped | no reload is lost; what was waited for stays known |
| User dictionary file (`dictionary/user_dictionary_storage.cc`) | rows, a lock file | load, lock, save, edit | load before lock | no edit is written over another |
| LRU storage (`storage/lru_storage.cc`) | mapped file, list, index | insert, look up, delete, merge, reopen | three structures change together; the order is rebuilt from times; a process dies in a write | the most recent entries survive, and a torn write damages one |
| IPC (`ipc/`) | sockets, path and key file | connect, call, time out | a dead server's path | a client reaches the live server |
| Renderer client and server (`renderer/`) | commands, process launcher | send, restart | a crashing renderer | bounded restarts |
| Composer and session state machine (`composer/`, `session/session.cc`, `session/ime_context.cc`, `engine/engine_converter.cc`) | state, composer, converter, undo stack | some 30 handlers | long legal key sequences; state, composer and converter must agree, also when undo brings them back | no text lost, doubled or moved; undo returns to the screen before |
| Converter, prediction, rewriters, system dictionary, data manager | lattices, candidates | pure functions of their input | ranking | quality, not protocol |
| GUI, platform integration, tools, generated data, packaging | widgets, registrations | | | outside these models |

### 1.3 How they interact

* Clients call the converter over IPC; `marinaMojiSync` is one more client. It
  sends `BEGIN_SYNC_LOCK`, `SYNC_DATA` (flush the learning history), works on
  the files on its own, then `RELOAD_AND_WAIT` and `END_SYNC_LOCK`.
* Sync processes, the dialogs and the keyboard overlay share nothing but
  `sync.status.json` and `sync.conf`, which they read and write without a lock.
* The dictionary tool, the word register dialog and the import of a sync write
  `user_dictionary.db` under a storage lock, which the tools take after they
  have read the file.
* The bundle file lies in a folder that a cloud client copies between devices.
* Inside the converter the session thread and one task thread share the history
  (`dic_` under a mutex; `needs_sync_` and `canceled_` outside it).

The hard behaviours, each with its line, are the hazards of `PROJECT.json`.

## 2. Plan

| # | module | composes | state |
|---|---|---|---|
| 1 | `SyncDictionary` (+ `MCSyncDictionary`, `_proofs`) | sync, tombstone log, editors, transport, clock | done |
| 2 | `SyncRunner` (+ `MCSyncRunner`, `_proofs`) | sync processes, converter lock, status file, overlay, calls that fail | done |
| 3 | `UserHistoryStorage` (+ `_proofs`) | session thread, task thread, file, character forms, cform.db | done |
| 4 | `SyncHistory` (+ `MCSyncHistory`, `_proofs`) | merges of an entry and of two tied forms on devices that fail and overlap | done |
| 5 | `SyncPoll` (+ `MCSyncPoll`, proofs in `SyncRunner_proofs`) | daemon, sync, dialog, `sync.conf` and bundle of several devices | done |
| 6 | `Session`, abstract: `Editor` (+ `Session_proofs`) | session, composer, converter, undo stack, client's deferred deletion | done |
| 7 | `SessionHandler`, `Client` (+ `Client_proofs`) | clients, server, other applications, sync lock, faults | done |
| 8 | `LruStorage`, abstract: `Recency` (+ `LruStorage_proofs`) | file, list, index, clock, torn writes | done |
| 9 | `UserDictionary`, `Engine` (+ `MCEngine`, `Engine_proofs`) | main thread, dictionary threads, data loader, sessions | done |
| 10 | `UserDictionaryStorage`, `RendererClient` | the dictionary file as a module of its own; bounded restarts | left |

Two abstract specifications are stated and refined: `Editor` (what an input
method promises the user) by `Session`, and `Recency` (a bounded list of recent
entries) by `LruStorage`; both refinements are theorems, the first for what
`Session` does without related conversions. What is left of the plan: an abstract *word set* for `SyncDictionary` outside its
disputed words, and row 10 of the table.

## 3. Modules, state and code

### 3.1 SyncDictionary

A word is a sync key (reading, surface, part of speech, locale). `live`, `log`
and `bundle` are the three files of a device; `out` is the `SyncBundleFiles`
that `PerformSync` carries; `editor` and `view` are the dictionary tool or the
register dialog and the rows it has in memory. `ExportRows`,
`ExportTombstones`, `MergeBundle`, `WriteBundle` and `ImportDictionary` are the
stretches of `PerformSync` between two accesses to shared files, in its order;
`AbortSync` and `ImportRefused` are its error returns, with what has been
written by then left behind. The decision for one word is in `Erased`,
`Winner` and `Expired`. `Tick` and `Deliver` stand for the wall clock and the
cloud client. A tombstone keeps its time and its device.

Failures the code does not look at are not error returns: `ExportUnread` is an
export that takes a dictionary file it cannot read for an empty one
(`sync_service.cc:39-41`), `WriteLog` may leave the old log, `ImportDictionary`
may find the file unreadable and write over it, and an editor may load nothing.
What the importer makes of an exported row is the constant `Imported`:
`user_dictionary_importer.cc` ignores the locale column, normalises the reading
and refuses some rows, so a row comes back as itself, as another word or as
`NoWord`. The theorems hold for any such function.

History variables (`deleted`, `settled`, `buried`, `readded`, `abandoned`,
`unread`) say what the user meant and what a sync could not read; no action
reads them. Two losses are therefore exceptions of `UndeletedWordsKept` and not
hidden by it: a word that neither an unreadable file's export nor the bundle
has, which the import then drops (`unread`), and, when the import cannot read
the file, a word that the importer changes. A word saved between the export and
the import is not `settled` before the next import, and is lost. `Converges`
excepts a word with a locale: it never arrives anywhere, its plain form does.

### 3.2 SyncRunner

`pc[r]` walks through `CanAutoSync` and `RunSync`. Each call to the converter
is one action with three outcomes: a reply (`Replied`), an error with or
without the command executed, or no converter (`NoReply`, after which the
client, like `Client::Call`, refuses every further call once
`server_status_` is past `SERVER_TIMEOUT`). `holds[r]` is
`SyncLockGuard::locked_`: what the process believes. `status` is the file with
its age reduced to "over 600 s or not", which `Suspend` changes. The converter
learns (`Commit`), saves when sessions end (`DropSessions`), stops, crashes and
is started again by an application. The history is a set of phrases and the
merge is the union of sets. `StopDuringSync = TRUE` in both runs: the converter
may stop or crash at any step of a sync. `FALSE` (three counterexamples of
section 4) only makes their traces shorter.

`LoadHistory` and `SaveHistory` may fail unnoticed (`MaxFail`): `SYNC_DATA`
looks at no result, `AsyncSave` starts nothing while a task runs, `Load` leaves
an empty dictionary. Such a failure, and a converter that is started again in
the middle of a sync and has forgotten its lock (`lapsed`), leave phrases in one
place only: `exposed`, for this device, and `unsent[r]`, for what the export of
one sync could hold. `LearntKept` and `DoneMeansMerged` except exactly these.

### 3.3 UserHistoryStorage

The task thread is `task`: `load` (about to read the file), `fill` (about to
enter the critical section of `Load`), `save`, `write` (has copied the entries
under the mutex), `mark` (has written, about to clear `needs_sync_`). The
session thread is `main`; `syncing`, `clearing` and `closing` are its waits in
`SYNC_DATA`, `Clear` and the destructor. `canceled_` makes the fill leave out
any part of the entries. An empty message is no file: the code unlinks it,
ignores an error of that, and reads a missing file as a failed load, which
leaves the character forms alone. `ClearHistoryEntry` and `SetCharacterForm` do
not look at a running task, `Finish` does. A removal that comes between the copy
of a save and line 252, where `needs_sync_` is cleared, loses its flag: `late`
marks it until a later save writes it, and `CleanMeansSaved`,
`CloseSavesUpdates` and `FlushedOnReturn` speak of everything else.
`AddHistoryEntry` has no caller and no action.

### 3.4 SyncHistory

One history entry and the two forms that `character_form_manager.cc` ties
together: the width of "0" and the number style, which names a width
(`AdaptNumberStyleToForm`). Each form has the stamp of the sync that first saw
it; the sidecar keeps the stamps. `ExportHistory`, `MergeBundle`, `WriteBundle`,
`ImportHistory` and `SaveSidecar` are `PerformSync` between two files;
`StampCharacterForms`, `MergeCharacterForms` and `ReconcileNumberForm` are the
operators of `sync_character_form.cc`. `Use`, `ClearHistoryEntry`, `Clear`,
`SetCharacterForm` and `SetLastNumberStyle` are the user's. `SkipExport` is the
privacy mode, in which nothing is exported while the import still happens. All
devices read one clock, no two stamps of different values fall into one second,
and the rule of "0" is `LAST_FORM`.

`Export` has the three failures that the code ignores: a history that cannot be
read counts as empty (`sync_history.cc:37-42`), a sidecar that cannot be read as
absent, and a sidecar that cannot be saved is logged. `ImportHistory` may find
the history unreadable too, and writes what it has merged over it. `hidden[d]`
says that the running sync exported nothing of what is there, `unread[d]` that
its import could not read the file, `forgot` that stamps were lost. So an import
after a hidden export can replace a form by an older one of the bundle (against
`sync_character_form.h:17-18`) and an entry by an older one, and an import that
cannot read brings a removed entry back: `StampsAdvance`, `AccessTimeKept` and
`RemovedStaysRemoved` except these syncs, and no others.

### 3.5 Session and Editor

`context` is `context_`: the session's state, the composer's reading, the
source text of a reconversion, the state of `EngineConverter` and the ends of
its segments. A character is a fresh number for every key, so that text lost,
moved or doubled shows. Every handler of `session.cc` that changes these is an
action; `document` is the application's text before the caret, `pending` the
deletion that the IBus client has deferred (`mozc_engine.cc`). `Editor` knows
only the text on the screen, how much of it the application owns, the text
that a reconversion opened and the pictures undo returns to.

Conversions of n keys count n characters; the cursor stays at the end of the
reading; a converter converts every reading that is not empty.

What reading the handlers for the model showed, beyond the properties: after
`IMEOff` the stack holds the context of its own commit; `CommitStringDirectly`
leaves the stack as it is, so that a later `Undo` deletes as many characters of
the wrong text (the model calls this `bypassed`); the cancel after a partial
commit of a reconversion inserts the whole source text again;
`HandleIndirectImeOnOff` commits into a command that nobody sends; a symbol
inserted while composing drops the reading.

### 3.6 SessionHandler and Client

`SessionHandler` is the server: `session_map`, a function from ids to sessions,
with its limit and, in `lru`, the place of each session in the list that
`storage/lru_cache.h` keeps (`Newest` moves one to its end, `Oldest` is evicted),
the lock, `Cleanup` with its two kinds of candidates, the end of the process.
`Client` walks each application through `EnsureCallCommand`: `Press` is its
entry with the first `EnsureSession`, `StartServer` and `CreateSessionCall`
are that function's calls, `CallFirst` the first trial, `PlayBack` one input
of `PlaybackHistory` (`Replaying` is what a new session becomes input by
input), `CallSecond` the second trial, `Report` the answer to
the application, `PushHistory` the journal. A fault is a crash, a call that
times out with or without its effect, or a launch that fails. A session is
reduced to its characters and whether they are being converted.

Where the code gives a composition up, history variables say so and the
properties excuse just that: `lost` (the client is FATAL after a time-out, a
second failure, a playback that is not made because the session was known to
be void at the entry), `partial` (the key that begins a composition while it
commits a conversion is not in the journal), `Overfull` (more inputs than
`kMaxPlayBackSize`), `cut` (a playback cut short).

### 3.7 SyncPoll

Data is a set of additions, of words and of uses, that the two settings
`sync_dictionary` and `sync_history` select. `base_local` and `remote_new`
stand for the two fingerprints in `sync.conf`: the local one is the data it was
taken of, the bundle's is only compared, and since every upload encrypts with
a new salt, it is new to all others. `shared` is the data in the bundle. `MergeData`,
`UploadData`, `Import`, `Capture`, `SaveBaselines` and `SaveConfig` are
`RunSync`, `stage` is where it is; `FirstPoll`, `Record` and `Poll` are the
daemon, `SaveSyncConfig` the dialog. `SaveSyncBaselines` reads the whole of
`sync.conf` and writes it back later, without a lock: `taken` is what it holds in
between, the settings included. `NoBaselines` is a capture or a save of the
fingerprints that fails, which `RunSync` ignores.

History variables mark what the code gives up, and the properties except just
that. `missed`: the fingerprints were taken of something the device had not
merged (the first poll takes whatever bundle there is, and a change between the
upload and the capture is remembered as seen), until the next clean sync.
`late`: the settings were saved during a sync or while a poll was about to write
its fingerprints, both of which put the old ones back. `stray`: additions that
the running sync does not carry, because they were saved after its export
(the dictionary tool and a new converter know nothing of the lock) or because
the export could not read the file; the import drops them.

Two devices whose polls alternate answer each other's uploads for ever, since
each finds a new fingerprint, although `docs/HOW_SYNC_WORKS.md:47` says the
poll syncs only if something changed. A device that leaves a part out drops
that part from the bundle; the others still have it (`NothingDisappears`).

### 3.8 LruStorage and Recency

`file` is the array of slots, `lru_list` and `lru_map` the list and the index
in memory, `next_item` the first free slot. `Insert` is `Update`, `Add` or
`Replace`; `Open` rebuilds list and index from the times. A key stands for its
fingerprint. `KillInDelete` and `KillInReplace` are processes that die between
the copy and the clearing of an item, and between its fingerprint and its
value; `torn` ends the behaviour, for what the code does to an item that is
there twice is undefined (an index entry made by `operator[]` is a default
iterator). `Recency` is the list that `lru_storage.h` promises; its `Reopen`
may exchange entries of one second. `DeleteElementsBefore` and `Touch` have no
caller but tests; they are part of the interface and of the model.

### 3.9 UserDictionary and Engine

`UserDictionary` has the main thread's `Reload` (`stat`, then `Request`: the two
exchanges, which may be one step since only the main thread changes
`modified_at_`, then `Schedule`), the wait, and the steps of
`ReloadThreadMain`. There are two dictionaries: the one in use and the one of
modules that have been built and wait. `Engine` adds `RegisterRequest` with its
sorted requests, `StartReloadLoop`, the modules handed over by the callback,
and `CreateSession`, which takes them over when no session is left and then
reloads and waits. The main thread evaluates one command at a time: nothing but
the two threads moves while it waits.

Each version of the file has a modification time of its own (the file system
counts nanoseconds), the file is there, and no dictionary is destroyed while
it loads. Nothing in the repository but the server's command sends a request
for other data; the model takes requests from anywhere at any time.

## 4. Runs

| run | asks | answer |
|---|---|---|
| `dict_copies` | Two devices, one word, overlapping syncs, editors, failures, noticed or not, deliveries in any order: is a word lost that nobody deleted? Does one return that was deleted here? | no, but words a sync could not read |
| `dict_converges` | A word and the same with a locale: do devices that go on syncing agree, once edits and failures stop? | yes, but for the word with the locale |
| `runner_alone` | One sync process, killed or timed out anywhere, a converter that stops or crashes at any step, a read or a save that fails unnoticed: is anything learnt lost, does "done" mean merged? | no and yes, but for what such a failure or restart leaves in one place |
| `runner_pair` | Two processes: does a lock have somebody to clear it, is it cleared, does the overlay go away? | yes, without kills and time-outs |
| `history_storage` | Entries are removed and forms change at any moment, also during a task; loads and saves fail, the process crashes, the user clears and reloads: is anything lost, brought back, or saved incomplete? | no, but a removal made after the copy of a running save |
| `sync_history` | Two devices edit, sync, overlap, fail and misread their files: do width and style agree, does one stamp stand for one width, does a sync make a form or an entry older or bring back a removed entry, do the forms converge? | as it should be, but for syncs that could not read their files |
| `sync_poll` | Is a skipped poll right, are settings kept, does anything disappear, does everything reach everybody? | yes, but for what a wrong fingerprint hides, settings saved during a sync or a poll that writes, and additions the running sync does not carry |
| `session_editor` | Does the session keep the promise of `Editor`, and do state, composer and converter agree, also after undo? | yes |
| `session_related` | Related conversions: is the selection left alone or replaced once, however they end? | yes |
| `client` | Does each character arrive once and in order through crashes, time-outs, evictions, clean-up and the lock? Does an application leave sessions behind? | yes, but for what the code gives up; no |
| `lru_storage` | Do list, index and file agree, is it the list of recent entries, does a torn write damage one item? | yes |
| `engine` | Is a reload lost, does a swap of the engine take words back, is the best data loaded, does the main thread ever hang? | no, no, yes, no |

The type invariants of the modules with proofs are theorems (`Typing`), as is
`BundleUnambiguous`. That of `LruStorage` has a configuration
of its own, with the bounds of the run: `LruStorageTypes.cfg` (`TypeOK`, and
`NewToOld`: the list is in the order of the times unless the clock was set
back). `ClientTypes.cfg` (with the limit of the session map) and
`EngineTypes.cfg` (start it with `MCEngine`) check on the small instances the
types that the theorems are about. TLC finds no error in them.

### Counterexamples to what the documents say

Eleven more configurations, for what the repository says of itself and the code
does otherwise: TLC gives the trace for each. They are not among the runs above;
start them with `tlc -config <name>.cfg <module>`
(`SyncHistoryThree` takes five minutes, the others seconds).

| configuration, module | property | says | TLC's trace |
|---|---|---|---|
| `SyncDictionaryReAdd`, `MCSyncDictionary` | `ReAddWins` | `sync_dictionary_tombstones.h:79`: a re-add on one device wins | a word deleted on one device, synced, and added again on another is removed by that device's next sync (`sync_dictionary_tombstones.cc:251`) |
| `SyncDictionaryTombstones`, `MCSyncDictionary` | `TombstonesOfRemovedWordsKept` | `SYNC_PLAN.md:97`: compaction drops tombstones of re-added keys | the tool records removals before it saves the rows: a sync in between drops the tombstone (`sync_service.cc:295`) |
| `SyncRunnerPairKeys`, `SyncRunner` | `KeysRejectedDuringSync` | `SYNC_PLAN.md:117`: the lock rejects keys | two processes believe they hold the lock, since `Client::CallCommand` (`client.cc:699`) hides the refusal; the first to end clears it |
| `SyncRunnerTimeoutLock`, `SyncRunner` | `LockHasHolder` | `SYNC_PLAN.md:118`: the lock is cleared even on error | after a time-out the client refuses to send END_SYNC_LOCK (`client.cc:726`) |
| `SyncRunnerKilledOverlay`, `SyncRunner` | `OverlayOnlyDuringSync` | `SYNC_EXPERIMENTAL_NOTES.md:9`: the overlay blocks during a sync | the overlay ignores the age of a "running" whose process was killed (`sync_overlay.cc:142`) |
| `UserHistoryStorageDelete`, `UserHistoryStorage` | `CloseSavesAllUpdates` | `user_history_storage.cc:96`: the destructor saves what changed meanwhile | an entry removed between the copy and line 252 loses its flag |
| `UserHistoryStoragePartial`, `UserHistoryStorage` | `IncompleteNotSynced` | `user_history_storage.cc:170`: an incomplete load must not be synced | a character form learnt during the load makes the destructor save it |
| `SyncHistoryWrap`, `SyncHistory` | `UsesCounted` | `SYNC_PLAN.md:100`: frequencies are summed | what was merged is summed again at every sync, doubles and wraps (`sync_merge.cc:139`; four bits here) |
| `SyncHistoryThree`, `SyncHistory` | `StampIdentifiesValue` | `sync_character_form.cc:42-43`: "so that every device reaches the same state" | of three devices, two give the stamp of one "0" to different styles of its width, and a merge keeps the local one on a tie |
| `SessionSelection`, `Session` | `DeletionWaitsForCommit` | `session.h:345`, `mozc_engine.cc:1325`: the selection is deleted when a pick is committed | a transliteration or the first Enter of a two-step commit looks like a cancel to the client, which drops the deletion |
| `ClientCrash`, `Client` | `SurvivesCrash` | `client.h:229`: the journal restores the state after a crash | a character typed over a conversion clears the journal it has just entered (`client.cc:296`) |

`SyncRunnerPairKeys` is the shortest way to two holders. With one runner and
`StopDuringSync = TRUE`, as in `runner_alone`, the property fails too: the lock
is a member of the converter process, and a converter started again in the
middle of a sync accepts keys. So it is no property of a passing run.

What the history model shows beyond its runs: the forms of an old `cform.db`
exist only in memory between the load that deletes the file and the next save
(`LoadFill` sets `legacy` to `NoForm`), so a crash or a RELOAD in between loses
them. `FormsKept` takes such a crash or reload as given up (`wantForm` is reset)
and covers the rest.

### Bounds

* `SyncDictionary`: two devices, since a third would act as the transport already
  does. In the safety run one word that the importer takes as it is; words
  interact only through the importer, and the theorems hold for any number of
  them and any importer. In the liveness run a word and the same word with a
  locale. `Retention = 1` and a clock that reaches 2 give fresh, expiring and
  expired tombstones. Three edits and failures (noticed or not)
  suffice for delete, re-add and a failed sync; the safety theorems
  hold without these bounds. One shared bundle file is the special case of
  copies in which every write is delivered at once, so the safety run uses
  copies; the liveness run uses the shared file.
* `SyncRunner`: the overlap of `IsSyncRunning`, the lock and the guard needs two
  runners. One kill, one time-out, one suspend, one unnoticed failure, one lone
  runner and two phrases alike (symmetry; the run states safety only) for the
  data; a second time-out adds nothing to a client that refuses calls after the
  first.
* `UserHistoryStorage`: two entries so that a canceled load can leave a proper
  part; one form besides the one of `cform.db`; one failure, crash and reload.
  Entries and forms change at any step, as in the code.
* `SyncHistory`: two devices (with a third the forms may differ for good:
  `SyncHistoryThree`), one entry, two forms, two edits and one failure (an error
  return or a file that cannot be read or saved): an edit on each side of a sync
  that fails or overlaps. The run starts where one device at least has synced, so that the
  two edits can be a removal and what follows it. `FreqMod = 1` leaves the
  counting out, of which no passing property speaks.
* `SyncPoll`: two devices, one word, one use, one event (settings, a sync by
  hand) and one fault (a sync or a read that fails, an addition between an export
  and an import); polls, syncs and other additions are not bounded. The run
  starts with everything selected but the dictionary of one device, so that the
  one change of settings can complete the selection or undo it elsewhere.
* `Session`: three keys make two segments and a rest to type on; an undo stack
  of two overflows with three commits. Two keys for related conversions, whose
  reading comes with the selection.
* `Client`: one application and the others as one, two sessions (the third
  evicts), a journal of three inputs (the fourth overflows it), two faults, so
  that the second trial or the playback fails too, one sync lock.
* `LruStorage`: three slots and four keys (the fourth evicts), two seconds
  (equal and different times), merges of at most two items.
* `Engine`: two requests of different priority, two versions of the file, one
  load that fails, one version that is very big. Two requests of one priority
  exchange places for ever and make the run too long; `Best` orders them.

### Fairness

`SyncDictionary!FairSpec`: a timer or the user starts syncs again and again
(strong fairness of the sync steps of each device, as another device's sync may
disable them for a while in the run without overlap), and an editor window is
closed in the end. `SyncRunner!FairSpec`: a running process keeps running and
the overlay's timer fires (weak fairness); nothing is assumed of users, of
spawning, or of the converter. `MCSyncHistory!MCSpec` (`SyncHistory!FairSpec`): a device whose turn comes
again and again starts a sync (strong fairness of its first step, which another
device's sync may disable) and goes on with it. `MCSyncPoll!MCPollSpec` (`SyncPoll!PollSpec`): each daemon
polls and each sync goes on (weak fairness); the properties that speak of
failures need none. `Engine!Spec`: the loader thread, the dictionaries' threads
and a main thread that waits go on (weak fairness); nothing is assumed of
commands, requests or saves. The other specifications assume nothing: they state
safety, and the refinements of `Editor` and `Recency` are of safety.

Deadlock is checked in every run but `sync_poll`, where a system in which all is
settled, or synchronisation switched off, has nothing to do.

## 5. Proofs

No theorem assumes anything about the size of a set or the value of a bound
beyond the named `ASSUME`s of the modules (types of the constants, and that
`NoTomb`, `NoBundle`, `NoForm`, `NoKey`, `NoValue` are not values) and the hypotheses below.

* `SyncDictionary_proofs`: `IInv` joins `TypeOK` with five parts. Every
  tombstone anywhere was recorded by somebody (`TombstonesRecorded`); bundles
  and files in flight carry no word both ways (`BundleUnambiguous`,
  `OutUnambiguous`); settled words are in the rows and, but for those it could
  not read (`unread`), in the files of a sync under way (`SettledCarried`,
  `UndeletedWordsKept`: the property
  alone is not inductive, for a sync imports what it exported earlier); and a
  word deleted here is covered by an unexpired tombstone in the log or in the
  files of the running sync (`BuriedCovered`, the same for
  `DeletedHereStaysDeleted`). From it `NoUndeletedWordLost`, `NoResurrection`,
  `BundlesUnambiguous`.
* `SyncRunner_proofs`: `LockReleased` for any number of runners and converter
  restarts when nothing is killed and no call times out (`LockInv`: a set lock
  has a runner at a step whose connection is alive and that will clear it).
  `NothingLearntLost` and `DoneIsMerged` for one runner, with kills and
  time-outs, unnoticed failures and a converter that stops or starts again at
  any step (`LockedInv`: during a sync the converter is locked or has forgotten
  its lock, `lapsed`; `StoreInv`: what is not exposed is in the memory and, from
  the flush on, in the file and in the copy that will replace it; `CarryInv`:
  what the sync carries and the bundle reach each other, the file and the
  memory). `SyncRunnerTimeoutLock` shows that `LockReleased` needs its
  hypotheses. The same module has the theorems about `SyncPoll`, the daemon that
  starts these processes (the two specifications share no name, which is why
  that one's is `PollSpec`), for any devices, words and uses. `BaselineInv`
  says what a fingerprint without a hidden change is (the bundle is the data it
  was taken of), `SyncInv` what a sync holds between its steps (what is selected
  is merged or `stray`, and fingerprints about to be written mean the same as
  written ones), `SettingsInv` that a sync or a poll will give back the settings
  it found only where nobody has saved others meanwhile. From them `SkipsAreRight`, `SettingsAreKept` and `NothingIsLost`.
* `UserHistoryStorage_proofs`: `ClearedStaysAway` for all constants
  (`ClearedInv` adds that the message in the hands of the task holds no cleared
  entry). `SavedInv` says what each stage of a task holds but for the late
  removals (`fill`: the file; `write`: the memory; `mark`: the file is the
  memory), that without unsaved changes memory and file agree, and that the user
  should find what is loading or what is in memory. From it `CleanIsSaved`,
  `CloseSaves`, `SyncDataFlushes`, `IncompleteStaysUnsaved`, with no hypothesis
  on when entries are removed; `UserHistoryStorageDelete` shows that the removals
  in `late` must be excepted. `FormsReachTheFile` needs no such exception: the
  dirty flag of the forms is cleared together with the copy, and `FormsInv` says
  where the forms the user should find are at each stage of a task (in memory,
  in the message being written, or in the file, seen through the migration of
  `cform.db`).
* `SyncHistory_proofs`: `TypeOK` is inductive. `Widths` and `Advancing` need what
  a sync in flight holds: its files agree in width, and each stamp in them is at
  least the one in the sidecar it will replace. `StaysRemoved` follows from the
  rules of the import; `TimeKept` needs that the row of a sync which exported the
  entry is at least as new as the entry (`Carried`), since an import that cannot
  read the history puts that row in its place. `WidthOfAStamp` holds for any number of
  devices, although a stamp need not identify a value: every file, the bundle and
  every sync in flight is compared with every other, and a merge or a stamping
  adds only widths that one of them has, or a time that none has.
* `Session_proofs`: `Typing` and `Agreement`, with `TypeOK` and `StatesAgree`
  together as the inductive invariant: undo brings back a context of the stack,
  so what must hold of the running context must hold of every context pushed.
  For any number of keys and any length of the stack. One lemma per handler.
  `EndsCleanly` (`RelatedEndsCleanly`) follows from that invariant alone: a step
  out of a conversion sends the whole reading or nothing. `Refinement`
  (`KeepsItsPromise`) has the hypothesis `~Related`, as the run has: an editor
  that knows of no deferred deletion does not describe a related conversion.
  `RefInv` adds to the invariant that nothing is deferred and no candidate is a
  drawing (`Alone`), and `Returns`: going down the undo stack from the document
  of now, each entry's deletion gives the document its picture was taken of, and
  the picture is that document and the reading the entry brings back, unless
  text went past the stack. Without `Returns` undo could not be shown to be the
  editor's, which returns to the picture whatever was pushed since. One more
  lemma per handler names the step of the editor it is.
* `Engine_proofs`: for any requests, priorities, versions and failures. Only what
  the dictionaries see of a step matters (`Steps`). `ReloadInv`: the state is
  idle if and only if the thread is over, but while it is to be scheduled, and
  a thread that nobody asked again has read what `modified_at_` promises.
  `PromiseInv`: the promise is kept, or the main thread is on its way through
  the reload that follows a swap. `NoReloadLost` alone is not inductive: it says
  nothing of a thread that runs. `LoaderInv` says of the loader's thread what it
  holds at each step: the request in hand is registered and no worse than the
  one in use, what has been built is what the main thread is to be told, and a
  thread that is about to end leaves no better request behind, but for one that
  came meanwhile. From it `BestLoaded` and `NoDowngrade`; the lemmas on
  `RemoveFirst` and `Best` (a list without repetitions stays one) carry `Typing`.
* `LruStorage_proofs`: for any size of the file, any keys, values and times. The
  inductive invariant is `IInv`, `TypeOK` and, while no write was torn,
  `Coherent`: the entries fill the first slots, one for each fingerprint
  (`Compact`), the list has each of these slots once (`Listed`), and the index
  leads from each fingerprint to its slot (`Indexes`). `Indexed` says so by
  counting; `Coherent` says it slot by slot, of any file, list and index, also
  of those in the middle of `DeleteElementsBefore`. One section for each
  operation shows that it keeps `Coherent`. `Open` needs that a choice by
  counting the items before each item sorts a set of any size, and pruning that
  after every round of its loop the first elements are left and the others were
  older. From it `StaysIndexed` and, since `KillInDelete` and `KillInReplace`
  change one slot, `TornWrites`. `RefinesRecency`: one lemma for each operation
  says what it does to `Entries`, the items in the order of the list
  (`InsertEntries`, ..., `MergeEntries`: the latest item of every fingerprint, cut
  to the size of the file), and these are the steps of `Recency`.
  `StaysNewToOld` adds `SortedInv`, the order of the times while the clock was
  not set back. The loop is a recursive function: that one exists that obeys the
  equations, and what it gives after each round, is proved by the least round
  that would fail.
* `Client_proofs`: for any number of applications, sessions and keys, with any
  crashes, time-outs, evictions and locks. `BaseInv` has the types, the places of
  the session map (within the limit) and what a
  client knows at each step of a call. `OneInv`: until a sync locks the server, the sessions of an
  application are the one its client holds and believes in; `OneSession`
  alone would not survive a client that lets go of a session it has.
  `Complete` and `NoRepetition` need each other and three parts (`Own`):
  `Main`, what the application has and what the session (or the journal, as far
  as `partial`, `cut` and the limit of the playback leave it trusted) still holds
  are together all that was typed; `Rebuilt`, during a playback the session is
  what the inputs played so far make of a new one; and `Once`, none of what the
  application has is held again. One lemma per action. `Replayed` is recursive:
  that its equations have exactly one solution is proved by the least index at
  which one would fail, so that nothing is induced over an operator.

Only model-checked: both `Converges`, `LockFreed`, `OverlayOnlyDuringSync`,
`FormsConverge`, `MainReturns` and `RequestsServed` (liveness under fairness is
out of the prover's reach).

## 6. What is not modelled

The components marked `not_modelled` in `PROJECT.json`, with the reason or the
plan: above all the conversion itself (lattices, ranking, rewriters, system
data), whose quality is not a matter of the order of steps, the widgets and the
platforms' registration code, and the renderer. They are by far the largest part
of the repository; the models cover the parts where several actors or long
sequences of calls meet.

Within the modelled parts: the encryption, key file and formats of the
bundle (a bundle is read whole or refused); `SyncDirection` other than the
default; the cooldown clock (a free choice); the LRU limit of the history and
the migration of fingerprints; comments, categories and order of dictionary
rows; more than one user dictionary per device; a write of the tombstone log
that is cut short; in `SyncPoll` the load and the write inside the dialog's own
`SaveSyncConfig`, which are one step there, and a second sync process of one
device (`SyncRunner` has it). Left out further: cursor movement, handwriting, `CommitHead`, the macron dead key,
the Left Shift lock, the odoriji palette, password fields and zero query
suggestions of the session; versions, broken messages and dialogs of the
client; `--timeout` and the creation interval of the session handler; flags of
history entries; a process that dies within `LruStorage::Merge`, fingerprint
collisions; the supplemental model of the engine; a dictionary file that is
removed; sync directions other than the default and the text of `sync.conf`.
