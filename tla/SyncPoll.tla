------------------------------- MODULE SyncPoll -------------------------------
(***************************************************************************)
(* Interval synchronisation of several devices through one bundle file:    *)
(* the daemon's poll compares the fingerprints of the bundle and of the    *)
(* local data with those saved after the last sync (sync_poll.cc,          *)
(* sync_main.cc), RunSync merges, uploads, imports, takes the fingerprints *)
(* and saves its configuration (sync_runner.cc, sync_config.cc).           *)
(*                                                                         *)
(* Data is a set of additions; removals and the order of merges are in     *)
(* SyncDictionary and SyncHistory, the converter's lock in SyncRunner.     *)
(* Every upload encrypts with a new salt, so that its fingerprint is new   *)
(* even if the data is the same.                                           *)
(***************************************************************************)
EXTENDS Naturals, FiniteSets

CONSTANTS Device,
          Word,       \* additions to the dictionary
          Use,        \* additions to the learning history
          MaxEvents,  \* bound: settings saved and syncs by hand
          MaxFaults   \* bound: reads and syncs that fail, additions behind an export

ASSUME SyncPollAssumption ==
         /\ IsFiniteSet(Device) /\ Word \cap Use = {}
         /\ MaxEvents \in Nat /\ MaxFaults \in Nat

VARIABLES data,        \* the device's dictionary and history on disk
          shared,      \* the data in the bundle, {} before the first upload
          conf,        \* the settings in sync.conf
          baseline,    \* is there a last_local_data_sha256?
          base_local,  \* the data that it stands for
          remote_new,  \* the bundle is not that of last_remote_bundle_sha256
          stage,       \* where RunSync is
          config,      \* the settings RunSync loaded
          merged,      \* what it uploads
          taken,       \* what SaveSyncBaselines is about to write to sync.conf
          chosen,      \* the settings the user saved last
          late,        \* history: they were saved during a sync or a poll that writes
          stray,       \* history: selected additions that the running sync does not carry
          overtaken,   \* history: something changed behind the running sync
          missed,      \* history: the saved fingerprints hide such a change
          events, faults

sync_conf == <<conf, baseline, base_local, remote_new>>
counters == <<events, faults>>
history_vars == <<chosen, late, stray, overtaken, missed>>
poll_vars == <<data, shared, sync_conf, stage, config, merged, taken, history_vars, counters>>

Addition == Word \cup Use
Setting == {"enabled", "sync_dictionary", "sync_history"}

\* What the settings put into a bundle and into the local fingerprint.
Selected(settings) == {x \in Word : "sync_dictionary" \in settings}
                        \cup {x \in Use : "sync_history" \in settings}
Local(d, settings) == data[d] \cap Selected(settings)

Untaken == [conf |-> {}, local |-> {}, stale |-> FALSE]

\* The user has saved settings on every device.
PollInit ==
  /\ data = [d \in Device |-> {}]
  /\ shared = {}
  /\ conf \in [Device -> SUBSET Setting]
  /\ baseline = [d \in Device |-> FALSE]
  /\ base_local = [d \in Device |-> {}]
  /\ remote_new = [d \in Device |-> FALSE]
  /\ stage = [d \in Device |-> "idle"]
  /\ config = [d \in Device |-> {}]
  /\ merged = [d \in Device |-> {}]
  /\ taken = [d \in Device |-> Untaken]
  /\ chosen = conf
  /\ late = [d \in Device |-> FALSE]
  /\ stray = [d \in Device |-> {}]
  /\ overtaken = [d \in Device |-> FALSE]
  /\ missed = [d \in Device |-> FALSE]
  /\ events = 0 /\ faults = 0

Event == events < MaxEvents /\ events' = events + 1 /\ faults' = faults
Fault == faults < MaxFaults /\ faults' = faults + 1 /\ events' = events
Quiet == UNCHANGED counters

-----------------------------------------------------------------------------
(* The user.                                                               *)

\* A word is registered or a conversion learned, at any time: the converter's lock does not
\* stop the Dictionary Tool, nor a converter that has started anew.  What comes after the
\* export of a sync is not in what it merged, what comes after the import changes the files
\* before their fingerprints are taken.
Edit(d) ==
  /\ \E x \in Addition :
       /\ \A e \in Device : x \notin data[e] \cup merged[e]
       /\ x \notin shared
       /\ data' = [data EXCEPT ![d] = @ \cup {x}]
       /\ IF stage[d] \in {"upload", "import"}
          THEN Fault /\ stray' = [stray EXCEPT ![d] = @ \cup ({x} \cap Selected(config[d]))]
          ELSE Quiet /\ stray' = stray
  /\ overtaken' = [overtaken EXCEPT ![d] = @ \/ stage[d] = "capture"]
  /\ UNCHANGED <<shared, sync_conf, stage, config, merged, taken, chosen, late, missed>>

\* The dialog saves its settings and keeps the fingerprints it finds.
SaveSyncConfig(d) ==
  /\ Event
  /\ \E s \in Setting :
       LET settings == IF s \in conf[d] THEN conf[d] \ {s} ELSE conf[d] \cup {s}
       IN  /\ conf' = [conf EXCEPT ![d] = settings]
           /\ chosen' = [chosen EXCEPT ![d] = settings]
  /\ late' = [late EXCEPT ![d] = stage[d] # "idle"]
  /\ UNCHANGED <<data, shared, baseline, base_local, remote_new, stage, config, merged,
                 taken, stray, overtaken, missed>>

-----------------------------------------------------------------------------
(* The daemon's poll.                                                      *)

Enabled(d) == stage[d] = "idle" /\ "enabled" \in conf[d]

ChangedLocally(d) == Local(d, conf[d]) # base_local[d]
ChangedRemotely(d) == remote_new[d]

\* EvaluateIntervalSync.
Changed(d) == remote_new[d] \/ Local(d, conf[d]) # base_local[d]

RunSyncWithDefaults(d) ==
  /\ stage' = [stage EXCEPT ![d] = "merge"]
  /\ config' = [config EXCEPT ![d] = Setting]
  /\ UNCHANGED <<data, shared, sync_conf, merged, taken, history_vars>>

RunSync(d) ==
  /\ stage' = [stage EXCEPT ![d] = "merge"]
  /\ config' = [config EXCEPT ![d] = conf[d]]
  /\ UNCHANGED <<data, shared, sync_conf, merged, taken, history_vars>>

\* CaptureSyncFingerprints reads the bundle and the files, and SaveSyncBaselines all of
\* sync.conf.
CaptureSyncFingerprints(d, settings) ==
  taken' = [taken EXCEPT ![d] = [conf |-> conf[d], local |-> Local(d, settings), stale |-> FALSE]]

\* SaveSyncBaselines writes sync.conf with these fingerprints, and with the settings it read.
SaveSyncBaselines(d) ==
  /\ conf' = [conf EXCEPT ![d] = taken[d].conf]
  /\ baseline' = [baseline EXCEPT ![d] = TRUE]
  /\ base_local' = [base_local EXCEPT ![d] = taken[d].local]
  /\ remote_new' = [remote_new EXCEPT ![d] = taken[d].stale]
  /\ taken' = [taken EXCEPT ![d] = Untaken]
  /\ missed' = [missed EXCEPT ![d] = overtaken[d]]
  /\ overtaken' = [overtaken EXCEPT ![d] = FALSE]

\* The first poll only records, whatever has not been synchronised yet.
FirstPoll(d) ==
  /\ Enabled(d) /\ ~baseline[d]
  /\ CaptureSyncFingerprints(d, conf[d])
  /\ overtaken' = [overtaken EXCEPT ![d] = Local(d, conf[d]) # shared]
  /\ stage' = [stage EXCEPT ![d] = "record"]
  /\ UNCHANGED <<data, shared, sync_conf, config, merged, chosen, late, stray, missed, counters>>

Record(d) ==
  /\ stage[d] = "record"
  /\ SaveSyncBaselines(d)
  /\ stage' = [stage EXCEPT ![d] = "idle"]
  /\ UNCHANGED <<data, shared, config, merged, chosen, late, stray, counters>>

\* A poll that finds a change, when CanAutoSync lets it.
Poll(d) == /\ Enabled(d) /\ baseline[d] /\ Changed(d)
           /\ RunSync(d) /\ Quiet

\* "Sync now".
SyncNow(d) == Enabled(d) /\ Event /\ RunSync(d)

-----------------------------------------------------------------------------
(* RunSync and PerformSync.                                                *)

End(d) == /\ stage' = [stage EXCEPT ![d] = "idle"]
          /\ config' = [config EXCEPT ![d] = {}]

MergeOfTheRemote(d) ==
  /\ stage[d] = "merge"
  /\ merged' = [merged EXCEPT ![d] = (IF shared = {} THEN data[d] ELSE shared)
                                       \cap Selected(config[d])]
  /\ stage' = [stage EXCEPT ![d] = "upload"]
  /\ UNCHANGED <<data, shared, sync_conf, config, taken, history_vars, counters>>

\* A part that is not selected is not read and, the bundle being written
\* anew, not kept either.  A part that cannot be read is exported as empty
\* (ExportDictionaryTsv, LoadHistory), and the sync goes on.
MergeData(d) == \E unread \in {{}, Word, Use} :
  /\ stage[d] = "merge"
  /\ IF unread = {} THEN Quiet ELSE Fault
  /\ merged' = [merged EXCEPT ![d] = ((data[d] \ unread) \cup shared) \cap Selected(config[d])]
  /\ stray' = [stray EXCEPT ![d] = Local(d, config[d]) \ merged'[d]]
  /\ stage' = [stage EXCEPT ![d] = "upload"]
  /\ UNCHANGED <<data, shared, sync_conf, config, taken, chosen, late, overtaken, missed>>

\* The new bundle is news to every device, also to one that has just read
\* the old one, and hides what another device uploaded since this one merged.
UploadData(d) ==
  /\ stage[d] = "upload"
  /\ shared' = merged[d]
  /\ remote_new' = [e \in Device |-> TRUE]
  /\ taken' = [e \in Device |-> IF stage[e] \in {"record", "captured"}
                                THEN [taken[e] EXCEPT !.stale = TRUE] ELSE taken[e]]
  /\ overtaken' = [e \in Device |-> overtaken[e] \/ (e # d /\ stage[e] \in {"import", "capture"})]
  /\ stage' = [stage EXCEPT ![d] = "import"]
  /\ UNCHANGED <<data, conf, baseline, base_local, config, merged, chosen, late, stray,
                 missed, counters>>

\* The dictionary becomes that of the bundle, the history takes it in, or
\* becomes it when it cannot be read.
Import(d) == \E replaced \in {Word, Addition} :
  /\ stage[d] = "import"
  /\ IF replaced = Word THEN Quiet ELSE Fault
  /\ data' = [data EXCEPT ![d] = (@ \ (replaced \cap Selected(config[d]))) \cup merged[d]]
  /\ merged' = [merged EXCEPT ![d] = {}]
  /\ overtaken' = [overtaken EXCEPT ![d] = @ \/ data'[d] \cap Selected(config[d]) # merged[d]]
  /\ stray' = [stray EXCEPT ![d] = {}]
  /\ stage' = [stage EXCEPT ![d] = "capture"]
  /\ UNCHANGED <<shared, sync_conf, config, taken, chosen, late, missed>>

Capture(d) ==
  /\ stage[d] = "capture"
  /\ CaptureSyncFingerprints(d, config[d])
  /\ stage' = [stage EXCEPT ![d] = "captured"]
  /\ UNCHANGED <<data, shared, sync_conf, config, merged, history_vars, counters>>

SaveBaselines(d) ==
  /\ stage[d] = "captured"
  /\ SaveSyncBaselines(d)
  /\ stage' = [stage EXCEPT ![d] = "save"]
  /\ UNCHANGED <<data, shared, config, merged, chosen, late, stray, counters>>

\* The fingerprints cannot be taken or saved, which the sync does not notice.
NoBaselines(d) ==
  /\ stage[d] \in {"capture", "captured"} /\ Fault
  /\ taken' = [taken EXCEPT ![d] = Untaken]
  /\ overtaken' = [overtaken EXCEPT ![d] = FALSE]
  /\ stage' = [stage EXCEPT ![d] = "save"]
  /\ UNCHANGED <<data, shared, sync_conf, config, merged, chosen, late, stray, missed>>

\* The settings loaded at the start come back with the time of the sync.
SaveConfig(d) ==
  /\ stage[d] = "save"
  /\ conf' = [conf EXCEPT ![d] = config[d]]
  /\ End(d)
  /\ UNCHANGED <<data, shared, baseline, base_local, remote_new, merged, taken,
                 history_vars, counters>>

\* A step fails or the process ends.
Fail(d) ==
  /\ stage[d] # "idle" /\ Fault
  /\ End(d)
  /\ merged' = [merged EXCEPT ![d] = {}]
  /\ taken' = [taken EXCEPT ![d] = Untaken]
  /\ stray' = [stray EXCEPT ![d] = {}]
  /\ overtaken' = [overtaken EXCEPT ![d] = FALSE]
  /\ UNCHANGED <<data, shared, sync_conf, chosen, late, missed>>

Daemon(d) == FirstPoll(d) \/ Record(d) \/ Poll(d)
Step(d) == \/ MergeData(d) \/ UploadData(d) \/ Import(d)
           \/ Capture(d) \/ SaveBaselines(d) \/ NoBaselines(d) \/ SaveConfig(d)

PollNext == \E d \in Device : \/ Edit(d) \/ SaveSyncConfig(d) \/ SyncNow(d)
                          \/ Daemon(d) \/ Step(d) \/ Fail(d)

\* The daemon keeps polling and a running sync goes on.
PollFairness == \A d \in Device : WF_poll_vars(Daemon(d)) /\ WF_poll_vars(Step(d))

PollSpec == PollInit /\ [][PollNext]_poll_vars /\ PollFairness

-----------------------------------------------------------------------------
(* Properties.                                                             *)

Stage == {"idle", "record", "merge", "upload", "import", "capture", "captured", "save"}

PollTypeOK ==
  /\ data \in [Device -> SUBSET Addition] /\ shared \subseteq Addition
  /\ conf \in [Device -> SUBSET Setting] /\ baseline \in [Device -> BOOLEAN]
  /\ base_local \in [Device -> SUBSET Addition] /\ remote_new \in [Device -> BOOLEAN]
  /\ stage \in [Device -> Stage] /\ config \in [Device -> SUBSET Setting]
  /\ merged \in [Device -> SUBSET Addition] /\ chosen \in [Device -> SUBSET Setting]
  /\ taken \in [Device -> [conf : SUBSET Setting, local : SUBSET Addition, stale : BOOLEAN]]
  /\ stray \in [Device -> SUBSET Addition]
  /\ late \in [Device -> BOOLEAN] /\ overtaken \in [Device -> BOOLEAN]
  /\ missed \in [Device -> BOOLEAN]
  /\ events \in 0..MaxEvents /\ faults \in 0..MaxFaults

\* A poll that skips is right: the device has nothing the bundle lacks and
\* lacks nothing the bundle has, unless its fingerprints were taken after
\* something changed behind the sync (EvaluateIntervalSync).
SkipIsRight ==
  \A d \in Device :
    Enabled(d) /\ baseline[d] /\ ~Changed(d) /\ ~missed[d] => shared = Local(d, conf[d])

\* The settings in sync.conf are those the user saved last, unless they were
\* saved during a sync, or while a poll was writing its fingerprints: those
\* put the old ones back (RunSync, SaveSyncBaselines).
SettingsKept == \A d \in Device : conf[d] = chosen[d] \/ late[d]

\* Nothing that was ever added disappears from all devices, whichever part a
\* device leaves out of the bundles it writes: but for what was added behind a
\* sync after its export, or what the export could not read.
Everywhere == UNION {data[d] : d \in Device}
Carried == UNION {data[d] \ stray[d] : d \in Device}
NothingDisappears == [][Carried \subseteq Everywhere']_poll_vars

\* When the devices synchronise everything and no fingerprints hide a change
\* any more, every addition reaches every device, and stays there.
AllSelected == \A d \in Device : conf[d] = Setting /\ config[d] \in {{}, Setting}
Converges ==
  <>[](AllSelected /\ \A d \in Device : ~missed[d])
    => <>[](\A d \in Device : data[d] = Everywhere)
===============================================================================
