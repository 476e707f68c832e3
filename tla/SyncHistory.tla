----------------------------- MODULE SyncHistory -----------------------------
(***************************************************************************)
(* What a sync does to the learning history and to the character forms     *)
(* (src/sync/sync_history.cc, sync_merge.cc, sync_character_form.cc,        *)
(* sync_service.cc, src/config/character_form_manager.cc).                  *)
(*                                                                         *)
(* Devices share one bundle.  The history is one entry: the code treats    *)
(* every (key, value) pair alike.  The forms are the two values the code   *)
(* ties together, the width of "0" and the style of numbers, each stamped  *)
(* with the time a sync first saw it; the stamps are kept in a sidecar.    *)
(* SyncRunner has the lock that keeps the user out of a running sync, so   *)
(* here a device is edited between its syncs only.                         *)
(***************************************************************************)
EXTENDS Naturals

CONSTANTS
    Device,
    FreqMod,    \* frequencies count modulo this, 2^32 in the code; 1 leaves them out
    MaxTime,    \* bound on the clock
    MaxEdit,    \* bound on changes by the user
    MaxFail     \* bound on syncs that fail or die

ASSUME HistoryBounds == /\ FreqMod \in Nat \ {0}
                        /\ MaxTime \in Nat \ {0} /\ MaxEdit \in Nat /\ MaxFail \in Nat

VARIABLES
    now,      \* the clock all devices read, in seconds
    entry,    \* entry[d]: the entry in the history file of d; at = 0 when it is not there
    form,     \* form[d]: character_form_history, in the same file
    sidecar,  \* sidecar[d]: character_forms.local.tsv
    bundle,   \* history.tsv and character_forms.tsv of the bundle
    pc,       \* pc[d]: the next step of PerformSync
    out,      \* out[d]: local_files, then merged
    edits, fails,
    \* History variables, read by no action.
    uses,     \* uses[d]: uses of the entry on d that d should remember, counted like its frequency
    hidden,   \* hidden[d]: this sync of d exported nothing: privacy mode, or a read that failed
    unread,   \* unread[d]: this sync of d could not read the history it imported into
    forgot    \* an export could not save its stamps

files == <<entry, form, sidecar>>
bounds == <<edits, fails>>
history == <<uses, hidden, unread, forgot>>
vars == <<now, files, bundle, pc, out, bounds, history>>

Width == {"half", "full"}
Styles == {"separated half", "separated full", "kanji"}

\* AdaptNumberStyleToForm: the styles that have a width follow the form.
AdaptNumberStyleToForm(style, width) ==
    CASE style = "kanji" -> style
      [] style # "kanji" /\ width = "half" -> "separated half"
      [] style # "kanji" /\ width = "full" -> "separated full"

NumberStyle == {n \in [form : Width, style : Styles] : n.style = AdaptNumberStyleToForm(n.style, n.form)}
NoNumber == [form |-> "none", style |-> "none"]

\* A value that is not there has the time 0.
Time == 1..MaxTime
Freq == 0..(FreqMod - 1)
NoZero == [form |-> "none", at |-> 0]
NoStyle == [form |-> "none", style |-> "none", at |-> 0]
NoForms == [zero |-> NoZero, number |-> NoStyle]
\* What a history file that cannot be read is taken for.
Absent == [removed |-> FALSE, freq |-> 0, at |-> 0]
Unformed == [zero |-> "none", number |-> NoNumber]
NoRow == [freq |-> 0, at |-> 0]
Nothing == [row |-> NoRow, forms |-> NoForms]

StampedZero == {NoZero} \cup [form : Width, at : Time]
StampedNumber == {NoStyle} \cup [form : Width, style : Styles, at : Time]
SyncState == [zero : StampedZero, number : StampedNumber]
Content == [row : {NoRow} \cup [freq : Freq, at : Time], forms : SyncState]

TypeOK ==
    /\ now \in 1..MaxTime
    /\ entry \in [Device -> [removed : BOOLEAN, freq : Freq, at : 0..MaxTime]]
    /\ form \in [Device -> [zero : Width \cup {"none"}, number : NumberStyle \cup {NoNumber}]]
    /\ sidecar \in [Device -> SyncState]
    /\ bundle \in Content
    /\ pc \in [Device -> {"idle", "merge", "write", "import", "sidecar"}]
    /\ out \in [Device -> Content]
    /\ edits \in 0..MaxEdit /\ fails \in 0..MaxFail
    /\ uses \in [Device -> Freq] /\ forgot \in BOOLEAN
    /\ hidden \in [Device -> BOOLEAN] /\ unread \in [Device -> BOOLEAN]

\* What an earlier sync left on the devices that have it, and in the bundle.
SyncedForms == [zero |-> [form |-> "half", at |-> 1],
                number |-> [form |-> "half", style |-> "separated half", at |-> 1]]
SyncedRow == [freq |-> 1 % FreqMod, at |-> 1]

Init ==
    /\ now = 1
    /\ \E synced \in SUBSET Device :
        /\ entry = [d \in Device |-> IF d \in synced THEN [removed |-> FALSE, freq |-> SyncedRow.freq, at |-> 1]
                                    ELSE Absent]
        /\ form = [d \in Device |-> IF d \in synced THEN [zero |-> "half", number |-> [form |-> "half", style |-> "separated half"]]
                                   ELSE Unformed]
        /\ sidecar = [d \in Device |-> IF d \in synced THEN SyncedForms ELSE NoForms]
        /\ bundle = IF synced = {} THEN Nothing ELSE [row |-> SyncedRow, forms |-> SyncedForms]
    /\ pc = [d \in Device |-> "idle"] /\ out = [d \in Device |-> Nothing]
    /\ edits = 0 /\ fails = 0
    /\ uses = [d \in Device |-> 0] /\ forgot = FALSE
    /\ hidden = [d \in Device |-> FALSE] /\ unread = [d \in Device |-> FALSE]

Tick == now < MaxTime /\ now' = now + 1
Plus(f, g) == (f + g) % FreqMod
\* Mutant: the time of the bundle replaces the local one.
BundleTime(s, t) == s
Later(s, t) == IF s > t THEN s ELSE t

-----------------------------------------------------------------------------
(* The user, between syncs. *)

Edit(d) == pc[d] = "idle" /\ edits < MaxEdit /\ edits' = edits + 1

\* A commit counts the entry and brings it back when it was removed.
Use(d) ==
    /\ Edit(d) /\ Tick
    /\ entry' = [entry EXCEPT ![d] = [removed |-> FALSE, freq |-> Plus(@.freq, 1), at |-> now']]
    /\ uses' = [uses EXCEPT ![d] = Plus(@, 1)]
    /\ UNCHANGED <<form, sidecar, bundle, pc, out, fails, hidden, unread, forgot>>

ClearHistoryEntry(d) ==
    /\ Edit(d) /\ entry[d].at > 0 /\ ~entry[d].removed
    /\ entry' = [entry EXCEPT ![d] = [@ EXCEPT !.removed = TRUE, !.freq = 0]]
    /\ uses' = [uses EXCEPT ![d] = 0]
    /\ UNCHANGED <<now, form, sidecar, bundle, pc, out, fails, hidden, unread, forgot>>

\* Clear empties the file; the sidecar stays.
Clear(d) ==
    /\ Edit(d)
    /\ entry' = [entry EXCEPT ![d] = Absent]
    /\ form' = [form EXCEPT ![d] = Unformed]
    /\ uses' = [uses EXCEPT ![d] = 0]
    /\ UNCHANGED <<now, sidecar, bundle, pc, out, fails, hidden, unread, forgot>>

\* SetLastNumberStyle, with a rule for "0" that learns (LAST_FORM).
SetLastNumberStyle(d, n) ==
    /\ Edit(d)
    /\ form' = [form EXCEPT ![d] = [zero |-> n.form, number |-> n]]
    /\ UNCHANGED <<now, entry, sidecar, bundle, pc, out, fails, history>>

\* The number style n brought to the width w.
Follow(n, w) == [form |-> w, style |-> AdaptNumberStyleToForm(n.style, w)]

SetCharacterForm(d, w) ==
    /\ Edit(d)
    /\ form' = [form EXCEPT ![d] = [zero |-> w, number |-> IF @.number = NoNumber THEN @.number
                                                           ELSE Follow(@.number, w)]]
    /\ UNCHANGED <<now, entry, sidecar, bundle, pc, out, fails, history>>

-----------------------------------------------------------------------------
(* The merge rules. *)

\* StampCharacterForms: what is new or changed since the last merge gets the time t.
StampCharacterForms(local, previous, t) ==
    [zero |-> CASE local.zero = "none" -> NoZero
                [] local.zero = previous.zero.form -> previous.zero
                [] OTHER -> [form |-> local.zero, at |-> t],
     number |-> CASE local.number = NoNumber -> NoStyle
                  [] /\ local.number.form = previous.number.form
                     /\ local.number.style = previous.number.style -> previous.number
                  [] OTHER -> [form |-> local.number.form, style |-> local.number.style, at |-> t]]

\* Mutant: the other takes the width and keeps its own stamp.
ReconcileKeepsStamp(s) ==
    CASE s.zero = NoZero \/ s.number = NoStyle \/ s.zero.form = s.number.form -> s
      [] OTHER ->
          IF s.number.at > s.zero.at
          THEN [s EXCEPT !.zero.form = s.number.form]
          ELSE [s EXCEPT !.number = [form |-> s.zero.form, at |-> s.number.at,
                                     style |-> AdaptNumberStyleToForm(s.number.style, s.zero.form)]]

\* The newer of the two sets the width of both, and the other takes its stamp.
ReconcileNumberForm(s) ==
    CASE s.zero = NoZero \/ s.number = NoStyle \/ s.zero.form = s.number.form -> s
      [] OTHER ->
          IF s.number.at > s.zero.at
          THEN [s EXCEPT !.zero = [form |-> s.number.form, at |-> s.number.at]]
          ELSE [s EXCEPT !.number = [form |-> s.zero.form, at |-> s.zero.at,
                                     style |-> AdaptNumberStyleToForm(s.number.style, s.zero.form)]]

\* Mutant: what the bundle has overwrites the local value.
MergeRemoteWins(remote, local) ==
    ReconcileNumberForm([zero |-> IF remote.zero # NoZero THEN remote.zero ELSE local.zero,
                         number |-> IF remote.number # NoStyle THEN remote.number ELSE local.number])
\* Mutant: the bundle only adds what is missing.
MergeLocalWins(remote, local) ==
    ReconcileNumberForm([zero |-> IF local.zero # NoZero THEN local.zero ELSE remote.zero,
                         number |-> IF local.number # NoStyle THEN local.number ELSE remote.number])
\* Mutant: the widths are not reconciled.
MergeUnreconciled(remote, local) ==
    [zero |-> IF remote.zero.at > local.zero.at THEN remote.zero ELSE local.zero,
     number |-> IF remote.number.at > local.number.at THEN remote.number ELSE local.number]

MergeCharacterForms(remote, local) ==
    ReconcileNumberForm([zero |-> IF remote.zero.at > local.zero.at THEN remote.zero ELSE local.zero,
                         number |-> IF remote.number.at > local.number.at THEN remote.number
                                    ELSE local.number])

\* MergeHistoryTsv: frequencies add up, the later access time stays.
MergeHistory(remote, local) ==
    [freq |-> Plus(remote.freq, local.freq), at |-> Later(remote.at, local.at)]

\* CharacterFormStorage::Merge: what arrives overwrites.  When "0" or the number style
\* arrives alone, the other follows it.
StorageMerge(local, state) ==
    LET zero == CASE state.zero # NoZero -> state.zero.form
                  [] state.zero = NoZero /\ state.number # NoStyle -> state.number.form
                  [] OTHER -> local.zero
        number == IF state.number # NoStyle
                  THEN [form |-> state.number.form, style |-> state.number.style]
                  ELSE local.number
    IN  [zero |-> zero,
         number |-> IF number # NoNumber /\ (state.number # NoStyle \/ state.zero # NoZero)
                    THEN Follow(number, zero) ELSE number]

-----------------------------------------------------------------------------
(* PerformSync on d. *)

\* The sync of d ends, and with it what it carried.
Finish(d) == /\ pc' = [pc EXCEPT ![d] = "idle"] /\ out' = [out EXCEPT ![d] = Nothing]
             /\ hidden' = [hidden EXCEPT ![d] = FALSE] /\ unread' = [unread EXCEPT ![d] = FALSE]
             /\ UNCHANGED <<uses, forgot>>

Goto(d, step) == pc' = [pc EXCEPT ![d] = step]
Fail == fails < MaxFail /\ fails' = fails + 1
Failed(ok) == IF ok THEN 0 ELSE 1

\* A removed entry is not exported.
ExportedRow(e) == IF e.removed \/ e.at = 0 THEN NoRow ELSE [freq |-> e.freq, at |-> e.at]

\* Export stamps the forms and remembers the stamps.  It ignores every error: a
\* history or a sidecar it cannot read is empty (LoadHistory, LoadLocalCharacterFormSyncState),
\* stamps it cannot save are forgotten.
\* The clock has moved on when something is new: no two stamps of different syncs agree.
Export(d, read, known, saved) ==
    LET previous == IF known THEN sidecar[d] ELSE NoForms
        Stamped(t) == StampCharacterForms(IF read THEN form[d] ELSE Unformed, previous, t)
    IN  /\ pc[d] = "idle" /\ Goto(d, "merge")
        /\ fails' = fails + Failed(read) + Failed(known) + Failed(saved) /\ fails' <= MaxFail
        /\ IF Stamped(now + 1) = Stamped(now) THEN UNCHANGED now ELSE Tick
        /\ out' = [out EXCEPT ![d] = [row |-> ExportedRow(IF read THEN entry[d] ELSE Absent),
                                      forms |-> Stamped(now')]]
        /\ sidecar' = IF saved THEN [sidecar EXCEPT ![d] = Stamped(now')] ELSE sidecar
        /\ forgot' = (forgot \/ ~saved)
        /\ hidden' = [hidden EXCEPT ![d] = ~read]
        /\ UNCHANGED <<entry, form, bundle, edits, uses, unread>>

ExportHistory(d) == \E read, known, saved \in BOOLEAN : Export(d, read, known, saved)

\* In privacy mode, which the user turns on, the history stays out of local_files and the
\* rest goes on.
SkipExport(d) ==
    /\ Edit(d) /\ Goto(d, "merge")
    /\ out' = [out EXCEPT ![d] = Nothing]
    /\ hidden' = [hidden EXCEPT ![d] = TRUE]
    /\ UNCHANGED <<now, files, bundle, fails, uses, unread, forgot>>

MergeBundle(d) ==
    /\ pc[d] = "merge"
    /\ out' = [out EXCEPT ![d] = [row |-> MergeHistory(bundle.row, @.row),
                                  forms |-> MergeCharacterForms(bundle.forms, @.forms)]]
    /\ Goto(d, "write")
    /\ UNCHANGED <<now, files, bundle, bounds, history>>

WriteBundle(d) ==
    /\ pc[d] = "write"
    /\ bundle' = out[d]
    /\ Goto(d, "import")
    /\ UNCHANGED <<now, files, out, bounds, history>>

\* Mutant: the row of an entry replaces it.
ImportedEntryReplaces(e, row) ==
    IF row = NoRow THEN e ELSE [removed |-> FALSE, freq |-> row.freq, at |-> row.at]

\* The merged row sets the fields it carries, and leaves the removal.
ImportedEntry(e, row) == IF row = NoRow THEN e ELSE [e EXCEPT !.freq = row.freq, !.at = row.at]

\* ImportHistory saves the file, and then the sidecar.  A file LoadHistory cannot read is
\* overwritten by what was merged.
ImportHistory(d) == \E read \in BOOLEAN :
    /\ pc[d] = "import"
    /\ fails' = fails + Failed(read) /\ fails' <= MaxFail
    /\ entry' = [entry EXCEPT ![d] = ImportedEntry(IF read THEN @ ELSE Absent, out[d].row)]
    /\ form' = [form EXCEPT ![d] = StorageMerge(IF read THEN @ ELSE Unformed, out[d].forms)]
    /\ unread' = [unread EXCEPT ![d] = ~read]
    /\ Goto(d, "sidecar")
    /\ UNCHANGED <<now, sidecar, bundle, out, edits, uses, hidden, forgot>>

SaveSidecar(d) ==
    /\ pc[d] = "sidecar" /\ Finish(d)
    /\ sidecar' = [sidecar EXCEPT ![d] = out[d].forms]
    /\ UNCHANGED <<now, entry, form, bundle, bounds>>

\* A step fails, and PerformSync reports it and returns, or the process dies.
Abort(d) ==
    /\ pc[d] # "idle" /\ Fail /\ Finish(d)
    /\ UNCHANGED <<now, files, bundle, edits>>

User(d) ==
    \/ Use(d) \/ ClearHistoryEntry(d) \/ Clear(d)
    \/ \E n \in NumberStyle : SetLastNumberStyle(d, n)
    \/ \E w \in Width : SetCharacterForm(d, w)
PerformSync(d) ==
    ExportHistory(d) \/ SkipExport(d) \/ MergeBundle(d) \/ WriteBundle(d) \/ ImportHistory(d) \/ SaveSidecar(d)

Next == \E d \in Device : User(d) \/ PerformSync(d) \/ Abort(d)

Spec == Init /\ [][Next]_vars

\* Every device syncs again and again, as its daemon does.
Fairness == \A d \in Device : SF_vars(ExportHistory(d)) /\ WF_vars(PerformSync(d))
FairSpec == Spec /\ Fairness

-----------------------------------------------------------------------------
(* Correctness. *)

States == {bundle.forms} \cup {sidecar[d] : d \in Device} \cup {out[d].forms : d \in Device}

\* A state's stamps, each with the width it stands for.
StampedWidths(s) == {<<s.zero.at, s.zero.form>>, <<s.number.at, s.number.form>>}

\* sync_character_form.cc: "the more recent of the two wins and the other takes its width and
\* stamp".  On any device, in the bundle and on the way, one stamp stands for one width,
\* whether "0" or the number style carries it: a merge that meets a stamp again changes no
\* width.
StampIdentifiesWidth ==
    \A s, t \in States : \A m \in StampedWidths(s), n \in StampedWidths(t) : m[1] = n[1] => m[2] = n[2]

\* The same comment goes on "so that every device reaches the same state": one stamp would
\* have to stand for one value, since the merge keeps the local one on a tie.  Two devices
\* keep to it; of three, two can give the stamp of the same "0" to different styles.
StampIdentifiesValue ==
    forgot \/ \A s, t \in States : /\ s.zero.at = t.zero.at => s.zero = t.zero
                                  /\ s.number.at = t.number.at => s.number = t.number

\* "CharacterFormManager keeps them aligned on a single device": the width of "0", the form
\* of the number style and the width its style has agree, in the files and the bundle.
WidthsAgree ==
    /\ \A d \in Device : form[d].number # NoNumber => form[d].number = Follow(form[d].number, form[d].zero)
    /\ \A s \in States : /\ s.number # NoStyle => s.number.style = AdaptNumberStyleToForm(s.number.style, s.number.form)
                         /\ s.number # NoStyle /\ s.zero # NoZero => s.number.form = s.zero.form

\* sync_character_form.h: "the value with the newer stamp wins".  No sync that exported its
\* forms leaves a device with a form older than the one it had, as long as the stamps are
\* remembered, whatever it could not read when it imported.
NewerOn(d) == /\ form[d].zero = "none" \/ sidecar'[d].zero.at >= sidecar[d].zero.at
              /\ form[d].number = NoNumber \/ sidecar'[d].number.at >= sidecar[d].number.at
StampsAdvance == [][\A d \in Device : forgot \/ hidden[d] \/ hidden'[d] \/ NewerOn(d)]_vars

\* Once the user stops and the syncs of different devices no longer overlap, both devices
\* end up with the same forms.  (With a third one they may not: see StampIdentifiesValue.)
Alone == \A d, e \in Device : d # e => pc[d] = "idle" \/ pc[e] = "idle"
FormsConverge == <>[]Alone => <>[](\A d, e \in Device : form[d] = form[e])

\* SYNC_PLAN.md: "import keeps the fields sync does not carry (... removed)".  An entry
\* the user removed stays removed through his syncs, though other devices keep sending it:
\* only an import that cannot read it brings it back.
RemovedStaysRemoved ==
    [][\A d \in Device : pc[d] # "idle" /\ entry[d].removed => entry'[d].removed \/ unread'[d]]_vars

\* SYNC_PLAN.md: "keep max last_access_time".  A sync that exported the entry never makes it
\* look older, not even when it cannot read the entry it replaces.
AccessTimeKept ==
    [][\A d \in Device : pc[d] # "idle" /\ ~entry[d].removed /\ ~hidden[d] => entry'[d].at >= entry[d].at]_vars

\* SYNC_PLAN.md: "sum suggestion_freq and shown_freq".  A device keeps counting at least
\* the uses it saw itself.
UsesCounted == \A d \in Device : ~entry[d].removed => entry[d].freq >= uses[d]

=============================================================================
