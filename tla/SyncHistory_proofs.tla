------------------------- MODULE SyncHistory_proofs -------------------------
(***************************************************************************)
(* Proofs about SyncHistory, for any devices, bounds and width of the      *)
(* frequencies: the widths of "0" and of the number style agree wherever   *)
(* they are stored, one stamp stands for one width wherever it occurs, and *)
(* a sync never makes a form or an entry older.                            *)
(***************************************************************************)
EXTENDS SyncHistory, TLAPS

LocalForm == [zero : Width \cup {"none"}, number : NumberStyle \cup {NoNumber}]

\* The widths of a stamped state agree.
StateAgrees(s) ==
    s.number # NoStyle => /\ s.number.style = AdaptNumberStyleToForm(s.number.style, s.number.form)
                          /\ s.zero # NoZero => s.number.form = s.zero.form
\* The widths of the forms in a file agree, and a number style has a width of "0".
FormAgrees(f) == f.number # NoNumber => f.zero \in Width /\ f.number = Follow(f.number, f.zero)

\* Adapting a style to a width gives a style that has this width.
LEMMA Adapted ==
    ASSUME NEW style \in Styles, NEW w \in Width
    PROVE  /\ AdaptNumberStyleToForm(style, w) \in Styles
           /\ AdaptNumberStyleToForm(AdaptNumberStyleToForm(style, w), w) = AdaptNumberStyleToForm(style, w)
  BY DEF Styles, Width, AdaptNumberStyleToForm

\* Stamping keeps types and widths, and the stamps are those of before or the new time.
LEMMA Stamping ==
    ASSUME NEW f \in LocalForm, NEW p \in SyncState, NEW t \in Time
    PROVE  /\ StampCharacterForms(f, p, t) \in SyncState
           /\ FormAgrees(f) => StateAgrees(StampCharacterForms(f, p, t))
           /\ StampCharacterForms(f, p, t).zero.at \in {0, p.zero.at, t}
           /\ StampCharacterForms(f, p, t).number.at \in {0, p.number.at, t}
           /\ f.zero # "none" => StampCharacterForms(f, p, t).zero.at \in {p.zero.at, t}
           /\ f.number # NoNumber => StampCharacterForms(f, p, t).number.at \in {p.number.at, t}
  <1> DEFINE s == StampCharacterForms(f, p, t)
  <1>1. /\ s.zero \in StampedZero
        /\ s.zero.form = f.zero
        /\ s.zero.at \in {0, p.zero.at, t}
        /\ f.zero # "none" => s.zero.at \in {p.zero.at, t}
        /\ f.zero = "none" => s.zero = NoZero
    BY DEF LocalForm, SyncState, StampCharacterForms, StampedZero, NoZero, Width, Time
  <1>2. /\ s.number \in StampedNumber
        /\ f.number # NoNumber => s.number.form = f.number.form /\ s.number.style = f.number.style
        /\ s.number.at \in {0, p.number.at, t}
        /\ f.number # NoNumber => s.number.at \in {p.number.at, t}
        /\ f.number = NoNumber => s.number = NoStyle
    <2>1. CASE f.number = NoNumber
      <3>1. p.number \in StampedNumber
        BY DEF SyncState
      <3>2. p.number.form = "none" => p.number = NoStyle
        BY <3>1 DEF StampedNumber, Width
      <3>3. f.number.form = "none"
        BY <2>1 DEF NoNumber
      <3>4. s.number = CASE f.number = NoNumber -> NoStyle
                         [] f.number.form = p.number.form /\ f.number.style = p.number.style -> p.number
                         [] OTHER -> [form |-> f.number.form, style |-> f.number.style, at |-> t]
        BY DEF StampCharacterForms
      <3>5. s.number = NoStyle
        BY <2>1, <3>2, <3>3, <3>4
      <3> QED BY <2>1, <3>5 DEF StampedNumber, NoStyle
    <2>2. CASE /\ f.number # NoNumber
               /\ f.number.form = p.number.form /\ f.number.style = p.number.style
      <3>1. s.number = p.number
        BY <2>2 DEF StampCharacterForms
      <3> QED BY <2>2, <3>1 DEF SyncState
    <2>3. CASE /\ f.number # NoNumber
               /\ ~(f.number.form = p.number.form /\ f.number.style = p.number.style)
      <3>1. s.number = [form |-> f.number.form, style |-> f.number.style, at |-> t]
        BY <2>3 DEF StampCharacterForms
      <3>2. f.number \in NumberStyle
        BY <2>3 DEF LocalForm
      <3>3. f.number.form \in Width /\ f.number.style \in Styles
        BY <3>2 DEF NumberStyle
      <3> QED BY <2>3, <3>1, <3>3 DEF StampedNumber
    <2> QED BY <2>1, <2>2, <2>3
  <1>3. s \in SyncState
    <2>1. s = [zero |-> s.zero, number |-> s.number]
      BY DEF StampCharacterForms
    <2> QED BY <1>1, <1>2, <2>1 DEF SyncState
  <1>4. FormAgrees(f) => StateAgrees(s)
    <2>1. CASE f.number = NoNumber
      BY <1>2, <2>1 DEF StateAgrees
    <2>2. CASE f.number # NoNumber
      <3>1. f.number \in [form : Width, style : Styles]
        BY <2>2 DEF LocalForm, NumberStyle
      <3>2. SUFFICES ASSUME FormAgrees(f)
                     PROVE  StateAgrees(s)
        OBVIOUS
      <3>3. f.number = [form |-> f.zero, style |-> AdaptNumberStyleToForm(f.number.style, f.zero)]
        BY <2>2, <3>2 DEF FormAgrees, Follow
      <3>4. f.number.form = f.zero /\ f.number.style = AdaptNumberStyleToForm(f.number.style, f.zero)
        BY <3>3
      <3> QED BY <1>1, <1>2, <2>2, <3>4 DEF StateAgrees
    <2> QED BY <2>1, <2>2
  <1> QED BY <1>1, <1>2, <1>3, <1>4

\* Without the stamps of before, what is there gets the new time.
LEMMA Restamping ==
    ASSUME NEW f \in LocalForm, NEW t \in Time
    PROVE  /\ f.zero # "none" => StampCharacterForms(f, NoForms, t).zero.at = t
           /\ f.number # NoNumber => StampCharacterForms(f, NoForms, t).number.at = t
  <1>1. /\ NoForms.zero.form = "none" /\ NoForms.number.form = "none"
    BY DEF NoForms, NoZero, NoStyle
  <1>2. f.number # NoNumber => f.number.form # "none"
    BY DEF LocalForm, NumberStyle, Width
  <1> QED BY <1>1, <1>2 DEF StampCharacterForms

\* Reconciling keeps types, makes the widths agree and never takes a stamp back.
LEMMA Reconciling ==
    ASSUME NEW s \in SyncState,
           s.number # NoStyle => s.number.style = AdaptNumberStyleToForm(s.number.style, s.number.form)
    PROVE  /\ ReconcileNumberForm(s) \in SyncState
           /\ StateAgrees(ReconcileNumberForm(s))
           /\ ReconcileNumberForm(s).zero.at >= s.zero.at
           /\ ReconcileNumberForm(s).number.at >= s.number.at
           /\ ReconcileNumberForm(s).zero.at \in {s.zero.at, s.number.at}
           /\ ReconcileNumberForm(s).number.at \in {s.zero.at, s.number.at}
  <1> DEFINE r == ReconcileNumberForm(s)
  <1>1. s.zero \in StampedZero /\ s.number \in StampedNumber /\ s = [zero |-> s.zero, number |-> s.number]
    BY DEF SyncState
  <1>2. s.zero.at \in Nat /\ s.number.at \in Nat
    BY <1>1, HistoryBounds DEF StampedZero, StampedNumber, NoZero, NoStyle, Time
  <1>3. CASE s.zero = NoZero \/ s.number = NoStyle \/ s.zero.form = s.number.form
    <2>1. r = s
      BY <1>3 DEF ReconcileNumberForm
    <2> QED BY <1>2, <1>3, <2>1 DEF StateAgrees
  <1>4. CASE /\ ~(s.zero = NoZero \/ s.number = NoStyle \/ s.zero.form = s.number.form)
             /\ s.number.at > s.zero.at
    <2>1. r = [zero |-> [form |-> s.number.form, at |-> s.number.at], number |-> s.number]
      BY <1>1, <1>4 DEF ReconcileNumberForm
    <2>2. s.number.form \in Width /\ s.number.at \in Time
      BY <1>1, <1>4 DEF StampedNumber
    <2>3. r.zero \in StampedZero
      BY <2>1, <2>2 DEF StampedZero
    <2> QED BY <1>1, <1>2, <1>4, <2>1, <2>3 DEF SyncState, StateAgrees
  <1>5. CASE /\ ~(s.zero = NoZero \/ s.number = NoStyle \/ s.zero.form = s.number.form)
             /\ ~(s.number.at > s.zero.at)
    <2> DEFINE style == AdaptNumberStyleToForm(s.number.style, s.zero.form)
    <2>1. r = [zero |-> s.zero, number |-> [form |-> s.zero.form, at |-> s.zero.at, style |-> style]]
      BY <1>1, <1>5 DEF ReconcileNumberForm
    <2>2. s.zero.form \in Width /\ s.zero.at \in Time /\ s.number.style \in Styles
      BY <1>1, <1>5 DEF StampedZero, StampedNumber
    <2>3. style \in Styles /\ AdaptNumberStyleToForm(style, s.zero.form) = style
      BY <2>2, Adapted
    <2>4. r.number \in StampedNumber
      BY <2>1, <2>2, <2>3 DEF StampedNumber
    <2> QED BY <1>1, <1>2, <1>5, <2>1, <2>3, <2>4 DEF SyncState, StateAgrees
  <1> QED BY <1>3, <1>4, <1>5

\* A merge keeps types, makes the widths agree and is as new as what was local.
LEMMA Merging ==
    ASSUME NEW remote \in SyncState, NEW local \in SyncState,
           StateAgrees(remote), StateAgrees(local)
    PROVE  /\ MergeCharacterForms(remote, local) \in SyncState
           /\ StateAgrees(MergeCharacterForms(remote, local))
           /\ MergeCharacterForms(remote, local).zero.at >= local.zero.at
           /\ MergeCharacterForms(remote, local).number.at >= local.number.at
           /\ MergeCharacterForms(remote, local).zero.at
                \in {remote.zero.at, remote.number.at, local.zero.at, local.number.at}
           /\ MergeCharacterForms(remote, local).number.at
                \in {remote.zero.at, remote.number.at, local.zero.at, local.number.at}
  <1> DEFINE s == [zero |-> IF remote.zero.at > local.zero.at THEN remote.zero ELSE local.zero,
                   number |-> IF remote.number.at > local.number.at THEN remote.number
                              ELSE local.number]
  <1>1. s \in SyncState
    BY DEF SyncState
  <1>2. s.number # NoStyle => s.number.style = AdaptNumberStyleToForm(s.number.style, s.number.form)
    BY DEF StateAgrees
  <1>3. /\ local.zero.at \in Nat /\ local.number.at \in Nat
        /\ remote.zero.at \in Nat /\ remote.number.at \in Nat
    BY HistoryBounds DEF SyncState, StampedZero, StampedNumber, NoZero, NoStyle, Time
  <1>4. /\ s.zero.at >= local.zero.at /\ s.number.at >= local.number.at
        /\ s.zero.at \in {remote.zero.at, local.zero.at}
        /\ s.number.at \in {remote.number.at, local.number.at}
        /\ s.zero.at \in Nat /\ s.number.at \in Nat
    BY <1>3
  <1>5. MergeCharacterForms(remote, local) = ReconcileNumberForm(s)
    BY DEF MergeCharacterForms
  <1>6. /\ ReconcileNumberForm(s) \in SyncState
        /\ StateAgrees(ReconcileNumberForm(s))
        /\ ReconcileNumberForm(s).zero.at >= s.zero.at
        /\ ReconcileNumberForm(s).number.at >= s.number.at
        /\ ReconcileNumberForm(s).zero.at \in {s.zero.at, s.number.at}
        /\ ReconcileNumberForm(s).number.at \in {s.zero.at, s.number.at}
    BY <1>1, <1>2, Reconciling
  <1> HIDE DEF s
  <1> QED BY <1>3, <1>4, <1>5, <1>6

\* What arrives on a device keeps types and widths.
LEMMA Storing ==
    ASSUME NEW f \in LocalForm, NEW s \in SyncState, FormAgrees(f), StateAgrees(s)
    PROVE  StorageMerge(f, s) \in LocalForm /\ FormAgrees(StorageMerge(f, s))
  <1> DEFINE zero == CASE s.zero # NoZero -> s.zero.form
                       [] s.zero = NoZero /\ s.number # NoStyle -> s.number.form
                       [] OTHER -> f.zero
             number == IF s.number # NoStyle THEN [form |-> s.number.form, style |-> s.number.style]
                       ELSE f.number
             result == IF number # NoNumber /\ (s.number # NoStyle \/ s.zero # NoZero)
                       THEN Follow(number, zero) ELSE number
  <1>1. StorageMerge(f, s) = [zero |-> zero, number |-> result]
    BY DEF StorageMerge
  <1>2. /\ zero \in Width \cup {"none"}
        /\ s.zero # NoZero \/ s.number # NoStyle => zero \in Width
    BY DEF LocalForm, SyncState, StampedZero, StampedNumber
  <1>3. number \in [form : Width, style : Styles] \cup {NoNumber}
    BY DEF LocalForm, SyncState, StampedNumber, NumberStyle
  <1>4. CASE number # NoNumber /\ (s.number # NoStyle \/ s.zero # NoZero)
    <2>1. result = [form |-> zero, style |-> AdaptNumberStyleToForm(number.style, zero)]
      BY <1>4 DEF Follow
    <2>2. zero \in Width /\ number.style \in Styles
      BY <1>2, <1>3, <1>4
    <2>3. /\ AdaptNumberStyleToForm(number.style, zero) \in Styles
          /\ AdaptNumberStyleToForm(AdaptNumberStyleToForm(number.style, zero), zero)
               = AdaptNumberStyleToForm(number.style, zero)
      BY <2>2, Adapted
    <2>4. result \in NumberStyle /\ result = Follow(result, zero)
      BY <2>1, <2>2, <2>3 DEF NumberStyle, Follow
    <2> QED BY <1>1, <2>2, <2>4 DEF LocalForm, FormAgrees
  <1>5. CASE ~(number # NoNumber /\ (s.number # NoStyle \/ s.zero # NoZero))
    <2>1. result = number
      BY <1>5
    <2>2. CASE number = NoNumber
      BY <1>1, <1>2, <2>1, <2>2 DEF LocalForm, FormAgrees
    <2>3. CASE number # NoNumber
      <3>1. s.number = NoStyle /\ s.zero = NoZero
        BY <1>5, <2>3
      <3>2. zero = f.zero /\ result = f.number
        BY <2>1, <3>1
      <3> QED BY <1>1, <3>2 DEF LocalForm, FormAgrees
    <2> QED BY <2>2, <2>3
  <1> QED BY <1>4, <1>5

-----------------------------------------------------------------------------
(* The invariant: types, widths that agree, and stamps and rows that are no *)
(* older than what they replace.                                            *)

Agreement ==
    /\ StateAgrees(bundle.forms)
    /\ \A d \in Device : StateAgrees(sidecar[d]) /\ StateAgrees(out[d].forms) /\ FormAgrees(form[d])

\* No stamp lies in the future.
Past(s, t) == s.zero.at <= t /\ s.number.at <= t
Stamped ==
    /\ Past(bundle.forms, now)
    /\ \A d \in Device : Past(sidecar[d], now) /\ Past(out[d].forms, now)

\* What a sync carries is as new as what it will replace.
Newer(s, t) == s.zero.at >= t.zero.at /\ s.number.at >= t.number.at
Carried ==
    \A d \in Device :
        /\ pc[d] # "idle" /\ ~hidden[d] /\ ~forgot => Newer(out[d].forms, sidecar[d])
        /\ pc[d] \in {"merge", "write", "import"} /\ ~hidden[d] /\ ~entry[d].removed
             => out[d].row.at >= entry[d].at

IInv == TypeOK /\ Agreement /\ Stamped /\ Carried

\* Frequencies keep their width.
LEMMA Counting ==
    ASSUME NEW f \in Nat, NEW g \in Nat
    PROVE  Plus(f, g) \in Freq
  BY HistoryBounds DEF Plus, Freq

\* The time is a natural number, and so is every stamp.
LEMMA Stamps ==
    ASSUME NEW s \in SyncState
    PROVE  s.zero.at \in 0..MaxTime /\ s.number.at \in 0..MaxTime
  BY HistoryBounds DEF SyncState, StampedZero, StampedNumber, NoZero, NoStyle, Time

\* A state with nothing in it has its type, agrees and is as old as can be.
LEMMA Empty ==
    /\ NoForms \in SyncState /\ StateAgrees(NoForms) /\ NoForms.zero.at = 0 /\ NoForms.number.at = 0
    /\ Nothing \in Content /\ Nothing.forms = NoForms /\ Nothing.row.at = 0
  BY DEF NoForms, SyncState, StampedZero, StampedNumber, StateAgrees, NoZero, NoStyle, Nothing, Content, NoRow

\* What stands for a file that cannot be read has its type and agrees.
LEMMA Unreadable ==
    /\ Unformed \in LocalForm /\ FormAgrees(Unformed)
    /\ Absent \in [removed : BOOLEAN, freq : Freq, at : 0..MaxTime]
    /\ ExportedRow(Absent) = NoRow
  <1>1. 0 \in Freq /\ 0 \in 0..MaxTime
    BY HistoryBounds DEF Freq
  <1>2. Absent \in [removed : BOOLEAN, freq : Freq, at : 0..MaxTime] /\ ExportedRow(Absent) = NoRow
    BY <1>1 DEF Absent, ExportedRow
  <1> QED BY <1>2 DEF Unformed, LocalForm, FormAgrees

\* What an earlier sync left has its type and agrees.
LEMMA Synced ==
    /\ SyncedForms \in SyncState /\ StateAgrees(SyncedForms)
    /\ SyncedForms.zero.at = 1 /\ SyncedForms.number.at = 1
    /\ SyncedRow \in [freq : Freq, at : Time] /\ SyncedRow.at = 1
    /\ [row |-> SyncedRow, forms |-> SyncedForms] \in Content
    /\ [form |-> "half", style |-> "separated half"] \in NumberStyle
    /\ FormAgrees([zero |-> "half", number |-> [form |-> "half", style |-> "separated half"]])
  <1>1. 1 \in Time /\ 1 % FreqMod \in Freq
    BY HistoryBounds DEF Time, Freq
  <1>2. /\ SyncedForms \in SyncState /\ StateAgrees(SyncedForms)
        /\ SyncedForms.zero.at = 1 /\ SyncedForms.number.at = 1
    BY <1>1 DEF SyncedForms, SyncState, StampedZero, StampedNumber, Width, Styles, StateAgrees,
                AdaptNumberStyleToForm
  <1>3. SyncedRow \in [freq : Freq, at : Time] /\ SyncedRow.at = 1
    BY <1>1 DEF SyncedRow
  <1>4. [row |-> SyncedRow, forms |-> SyncedForms] \in Content
    BY <1>2, <1>3 DEF Content
  <1>5. /\ [form |-> "half", style |-> "separated half"] \in NumberStyle
        /\ FormAgrees([zero |-> "half", number |-> [form |-> "half", style |-> "separated half"]])
    BY DEF NumberStyle, Width, Styles, AdaptNumberStyleToForm, FormAgrees, Follow
  <1> QED BY <1>2, <1>3, <1>4, <1>5

\* The first states satisfy the invariant.
LEMMA Starting == Init => IInv
  <1> SUFFICES ASSUME Init
               PROVE  IInv
    OBVIOUS
  <1> USE HistoryBounds
  <1>1. PICK synced \in SUBSET Device :
        /\ entry = [d \in Device |-> IF d \in synced THEN [removed |-> FALSE, freq |-> SyncedRow.freq, at |-> 1]
                                    ELSE Absent]
        /\ form = [d \in Device |-> IF d \in synced THEN [zero |-> "half", number |-> [form |-> "half", style |-> "separated half"]]
                                   ELSE Unformed]
        /\ sidecar = [d \in Device |-> IF d \in synced THEN SyncedForms ELSE NoForms]
        /\ bundle = IF synced = {} THEN Nothing ELSE [row |-> SyncedRow, forms |-> SyncedForms]
    BY DEF Init
  <1>2. /\ now = 1 /\ pc = [d \in Device |-> "idle"] /\ out = [d \in Device |-> Nothing]
        /\ edits = 0 /\ fails = 0
        /\ uses = [d \in Device |-> 0] /\ forgot = FALSE
        /\ hidden = [d \in Device |-> FALSE] /\ unread = [d \in Device |-> FALSE]
    BY DEF Init
  <1>0. SyncedForms.zero.at = 1 /\ SyncedForms.number.at = 1
    BY Synced, Zenon
  <1>3. bundle \in Content /\ StateAgrees(bundle.forms) /\ Past(bundle.forms, now)
    <2>1. CASE synced = {}
      <3>1. bundle = Nothing
        BY <1>1, <2>1
      <3> QED BY <1>2, <3>1, Empty DEF Past
    <2>2. CASE synced # {}
      <3>1. bundle = [row |-> SyncedRow, forms |-> SyncedForms]
        BY <1>1, <2>2
      <3>2. bundle.forms = SyncedForms
        BY <3>1
      <3>3. Past(bundle.forms, now)
        BY <1>0, <1>2, <3>2 DEF Past
      <3>4. bundle \in Content /\ StateAgrees(bundle.forms)
        BY <3>1, <3>2, Synced
      <3> QED BY <3>3, <3>4
    <2> QED BY <2>1, <2>2
  <1>4. ASSUME NEW d \in Device
        PROVE  /\ sidecar[d] \in SyncState /\ StateAgrees(sidecar[d]) /\ Past(sidecar[d], now)
               /\ out[d] = Nothing
               /\ StateAgrees(out[d].forms) /\ Past(out[d].forms, now)
    <2>1. out[d] = Nothing /\ StateAgrees(out[d].forms) /\ Past(out[d].forms, now)
      BY <1>2, Empty DEF Past
    <2>2. CASE d \in synced
      <3>1. sidecar[d] = SyncedForms
        BY <1>1, <2>2
      <3>2. Past(sidecar[d], now)
        BY <1>0, <1>2, <3>1 DEF Past
      <3>3. sidecar[d] \in SyncState /\ StateAgrees(sidecar[d])
        BY <3>1, Synced
      <3> QED BY <2>1, <3>2, <3>3
    <2>3. CASE d \notin synced
      <3>1. sidecar[d] = NoForms
        BY <1>1, <2>3
      <3>2. Past(sidecar[d], now)
        BY <1>2, <3>1, Empty DEF Past
      <3>3. sidecar[d] \in SyncState /\ StateAgrees(sidecar[d])
        BY <3>1, Empty
      <3> QED BY <2>1, <3>2, <3>3
    <2> QED BY <2>2, <2>3
  <1>5. ASSUME NEW d \in Device
        PROVE  /\ form[d] \in LocalForm /\ FormAgrees(form[d])
               /\ entry[d] \in [removed : BOOLEAN, freq : Freq, at : 0..MaxTime]
    <2>1. CASE d \in synced
      <3>1. form[d] = [zero |-> "half", number |-> [form |-> "half", style |-> "separated half"]]
        BY <1>1, <2>1
      <3>2. entry[d] = [removed |-> FALSE, freq |-> SyncedRow.freq, at |-> 1]
        BY <1>1, <2>1
      <3>3. FormAgrees(form[d])
        BY <3>1, Synced
      <3>4. form[d] \in LocalForm
        <4> DEFINE n == [form |-> "half", style |-> "separated half"]
        <4>1. n \in NumberStyle
          BY Synced, Zenon
        <4>2. form[d] = [zero |-> "half", number |-> n]
          BY <3>1
        <4> HIDE DEF n
        <4> QED BY <4>1, <4>2 DEF LocalForm, Width
      <3>5. SyncedRow.freq \in Freq
        BY Synced
      <3>6. entry[d] \in [removed : BOOLEAN, freq : Freq, at : 0..MaxTime]
        BY <3>2, <3>5
      <3> QED BY <3>3, <3>4, <3>6
    <2>2. CASE d \notin synced
      <3>1. form[d] = Unformed /\ entry[d] = Absent
        BY <1>1, <2>2
      <3> QED BY <3>1, Unreadable
    <2> QED BY <2>1, <2>2
  <1>6. /\ entry \in [Device -> [removed : BOOLEAN, freq : Freq, at : 0..MaxTime]]
        /\ form \in [Device -> LocalForm]
        /\ sidecar \in [Device -> SyncState]
    <2>1. /\ entry = [d \in Device |-> entry[d]] /\ form = [d \in Device |-> form[d]]
          /\ sidecar = [d \in Device |-> sidecar[d]]
      BY <1>1
    <2> QED BY <1>4, <1>5, <2>1
  <1>7. TypeOK
    <2>1. out \in [Device -> Content] /\ now \in 1..MaxTime
      BY <1>2, Empty
    <2>2. /\ pc \in [Device -> {"idle", "merge", "write", "import", "sidecar"}]
          /\ edits \in 0..MaxEdit /\ fails \in 0..MaxFail
      BY <1>2
    <2>3. uses \in [Device -> Freq]
      BY <1>2 DEF Freq
    <2>4. hidden \in [Device -> BOOLEAN] /\ unread \in [Device -> BOOLEAN] /\ forgot \in BOOLEAN
      BY <1>2, Zenon
    <2> QED BY <1>3, <1>6, <2>1, <2>2, <2>3, <2>4 DEF TypeOK, LocalForm
  <1>8. Agreement /\ Stamped
    BY <1>3, <1>4, <1>5 DEF Agreement, Stamped
  <1>9. Carried
    BY <1>2 DEF Carried
  <1> QED BY <1>7, <1>8, <1>9 DEF IInv

\* The forms the user can choose have their type and agree.
LEMMA Choosing ==
    ASSUME NEW w \in Width
    PROVE  /\ \A n \in NumberStyle : n.form = w => [zero |-> w, number |-> n] \in LocalForm /\ FormAgrees([zero |-> w, number |-> n])
           /\ \A n \in NumberStyle : Follow(n, w) \in NumberStyle /\ Follow(n, w).form = w
           /\ [zero |-> w, number |-> NoNumber] \in LocalForm /\ FormAgrees([zero |-> w, number |-> NoNumber])
  <1>1. ASSUME NEW n \in NumberStyle, n.form = w
        PROVE  [zero |-> w, number |-> n] \in LocalForm /\ FormAgrees([zero |-> w, number |-> n])
    <2>1. n = Follow(n, w)
      BY <1>1 DEF NumberStyle, Follow
    <2> QED BY <2>1 DEF LocalForm, FormAgrees
  <1>2. ASSUME NEW n \in NumberStyle
        PROVE  Follow(n, w) \in NumberStyle /\ Follow(n, w).form = w
    <2>1. n.style \in Styles
      BY DEF NumberStyle
    <2>2. /\ AdaptNumberStyleToForm(n.style, w) \in Styles
          /\ AdaptNumberStyleToForm(AdaptNumberStyleToForm(n.style, w), w) = AdaptNumberStyleToForm(n.style, w)
      BY <2>1, Adapted
    <2> QED BY <2>2 DEF Follow, NumberStyle
  <1>3. [zero |-> w, number |-> NoNumber] \in LocalForm /\ FormAgrees([zero |-> w, number |-> NoNumber])
    BY DEF LocalForm, FormAgrees
  <1> QED BY <1>1, <1>2, <1>3

\* Changes of the user keep the invariant: they touch the files of a device that does not
\* sync, and keep the widths of its forms.
LEMMA Editing ==
    ASSUME IInv, NEW d \in Device, User(d)
    PROVE  IInv'
  <1> USE HistoryBounds
  <1>1. /\ pc[d] = "idle" /\ edits < MaxEdit /\ edits' = edits + 1
        /\ UNCHANGED <<sidecar, bundle, pc, out, fails, hidden, unread, forgot>>
    BY DEF User, Use, ClearHistoryEntry, Clear, SetLastNumberStyle, SetCharacterForm, Edit, history
  <1>2. /\ now \in 1..MaxTime /\ edits \in 0..MaxEdit
        /\ entry \in [Device -> [removed : BOOLEAN, freq : Freq, at : 0..MaxTime]]
        /\ form \in [Device -> LocalForm]
        /\ uses \in [Device -> Freq]
    BY DEF IInv, TypeOK, LocalForm
  <1>3. now' \in 1..MaxTime /\ now' >= now
    <2>1. now' = now \/ (now' = now + 1 /\ now < MaxTime)
      BY DEF User, Use, ClearHistoryEntry, Clear, SetLastNumberStyle, SetCharacterForm, Tick
    <2> QED BY <1>2, <2>1
  <1>4. uses' \in [Device -> Freq]
    <2>1. \/ uses' = uses
          \/ uses' = [uses EXCEPT ![d] = Plus(uses[d], 1)]
          \/ uses' = [uses EXCEPT ![d] = 0]
      BY DEF User, Use, ClearHistoryEntry, Clear, SetLastNumberStyle, SetCharacterForm, history
    <2>2. uses[d] \in Nat /\ 0 \in Freq
      BY <1>2 DEF Freq
    <2>3. Plus(uses[d], 1) \in Freq
      BY <2>2, Counting
    <2> HIDE DEF Freq
    <2> QED BY <1>2, <2>1, <2>2, <2>3
  <1>5. /\ entry' \in [Device -> [removed : BOOLEAN, freq : Freq, at : 0..MaxTime]]
        /\ \A e \in Device : e # d => entry'[e] = entry[e]
    <2>1. CASE Use(d)
      <3>1. entry' = [entry EXCEPT ![d] = [removed |-> FALSE, freq |-> Plus(entry[d].freq, 1), at |-> now']]
        BY <2>1 DEF Use
      <3>2. entry[d].freq \in Nat
        BY <1>2 DEF Freq
      <3>3. Plus(entry[d].freq, 1) \in Freq
        BY <3>2, Counting
      <3>4. [removed |-> FALSE, freq |-> Plus(entry[d].freq, 1), at |-> now']
              \in [removed : BOOLEAN, freq : Freq, at : 0..MaxTime]
        BY <1>3, <3>3
      <3> HIDE DEF Freq
      <3> QED BY <1>2, <3>1, <3>4
    <2>2. CASE ClearHistoryEntry(d)
      <3>1. entry' = [entry EXCEPT ![d] = [entry[d] EXCEPT !.removed = TRUE, !.freq = 0]]
        BY <2>2 DEF ClearHistoryEntry
      <3>2. 0 \in Freq
        BY DEF Freq
      <3> QED BY <1>2, <3>1, <3>2
    <2>3. CASE Clear(d)
      <3>1. entry' = [entry EXCEPT ![d] = Absent]
        BY <2>3 DEF Clear
      <3> QED BY <1>2, <3>1, Unreadable
    <2>4. CASE ~Use(d) /\ ~ClearHistoryEntry(d) /\ ~Clear(d)
      <3>1. entry' = entry
        BY <2>4 DEF User, SetLastNumberStyle, SetCharacterForm
      <3> QED BY <1>2, <3>1
    <2> QED BY <2>1, <2>2, <2>3, <2>4
  <1>6. /\ form' \in [Device -> LocalForm]
        /\ \A e \in Device : FormAgrees(form'[e])
    <2>1. \A e \in Device : FormAgrees(form[e])
      BY DEF IInv, Agreement
    <2>2. ASSUME NEW f \in LocalForm, FormAgrees(f), form' = [form EXCEPT ![d] = f]
          PROVE  form' \in [Device -> LocalForm] /\ \A e \in Device : FormAgrees(form'[e])
      <3>1. form' \in [Device -> LocalForm]
        BY <1>2, <2>2
      <3>2. ASSUME NEW e \in Device
            PROVE  FormAgrees(form'[e])
        <4>1. CASE e = d
          <5>1. form'[e] = f
            BY <1>2, <2>2, <4>1
          <5> QED BY <2>2, <5>1
        <4>2. CASE e # d
          <5>1. form'[e] = form[e]
            BY <1>2, <2>2, <4>2
          <5> QED BY <2>1, <5>1
        <4> QED BY <4>1, <4>2
      <3> QED BY <3>1, <3>2
    <2>3. CASE Use(d) \/ ClearHistoryEntry(d)
      <3>1. form' = form
        BY <2>3 DEF Use, ClearHistoryEntry
      <3> QED BY <1>2, <2>1, <3>1
    <2>4. CASE Clear(d)
      <3>1. form' = [form EXCEPT ![d] = Unformed]
        BY <2>4 DEF Clear
      <3> QED BY <2>2, <3>1, Unreadable
    <2>5. CASE \E n \in NumberStyle : SetLastNumberStyle(d, n)
      <3>1. PICK n \in NumberStyle : SetLastNumberStyle(d, n)
        BY <2>5
      <3> DEFINE f == [zero |-> n.form, number |-> n]
      <3>2. form' = [form EXCEPT ![d] = f]
        BY <3>1 DEF SetLastNumberStyle
      <3>3. n.form \in Width
        BY DEF NumberStyle
      <3>4. f \in LocalForm /\ FormAgrees(f)
        BY <3>3, Choosing
      <3> HIDE DEF f
      <3> QED BY <2>2, <3>2, <3>4
    <2>6. CASE \E w \in Width : SetCharacterForm(d, w)
      <3>1. PICK w \in Width : SetCharacterForm(d, w)
        BY <2>6
      <3> DEFINE n == IF form[d].number = NoNumber THEN form[d].number ELSE Follow(form[d].number, w)
                 f == [zero |-> w, number |-> n]
      <3>2. form' = [form EXCEPT ![d] = f]
        BY <3>1 DEF SetCharacterForm
      <3>3. f \in LocalForm /\ FormAgrees(f)
        <4>1. CASE form[d].number = NoNumber
          <5>1. f = [zero |-> w, number |-> NoNumber]
            BY <4>1
          <5> HIDE DEF f
          <5> QED BY <5>1, Choosing
        <4>2. CASE form[d].number # NoNumber
          <5>1. n = Follow(form[d].number, w) /\ form[d].number \in NumberStyle
            BY <1>2, <4>2 DEF LocalForm
          <5>2. n \in NumberStyle /\ n.form = w
            BY <5>1, Choosing
          <5> HIDE DEF n
          <5> QED BY <5>2, Choosing
        <4> QED BY <4>1, <4>2
      <3> HIDE DEF f
      <3> QED BY <2>2, <3>2, <3>3
    <2> QED BY <2>3, <2>4, <2>5, <2>6 DEF User
  <1>7. TypeOK'
    BY <1>1, <1>2, <1>3, <1>4, <1>5, <1>6 DEF IInv, TypeOK, LocalForm
  <1>8. Agreement'
    BY <1>1, <1>6 DEF IInv, Agreement
  <1>9. Stamped'
    <2>1. /\ bundle.forms \in SyncState /\ \A e \in Device : sidecar[e] \in SyncState /\ out[e].forms \in SyncState
      BY DEF IInv, TypeOK, Content
    <2>2. ASSUME NEW s \in SyncState, Past(s, now)
          PROVE  Past(s, now')
      <3>1. s.zero.at \in 0..MaxTime /\ s.number.at \in 0..MaxTime
        BY Stamps
      <3> QED BY <1>2, <1>3, <2>2, <3>1 DEF Past
    <2> QED BY <1>1, <2>1, <2>2 DEF IInv, Stamped
  <1>10. Carried'
    <2>1. ASSUME NEW e \in Device
          PROVE  /\ pc'[e] # "idle" => pc[e] # "idle" /\ e # d
                 /\ e # d => entry'[e] = entry[e]
      BY <1>1, <1>5
    <2> QED BY <1>1, <2>1 DEF IInv, Carried
  <1> QED BY <1>7, <1>8, <1>9, <1>10 DEF IInv

\* Each step of a sync keeps the invariant.
LEMMA Syncing ==
    ASSUME IInv, NEW d \in Device, PerformSync(d) \/ Abort(d)
    PROVE  IInv'
  <1> USE HistoryBounds
  <1> DEFINE Entry == [removed : BOOLEAN, freq : Freq, at : 0..MaxTime]
  <1>1. /\ now \in 1..MaxTime /\ entry \in [Device -> Entry] /\ form \in [Device -> LocalForm]
        /\ sidecar \in [Device -> SyncState] /\ bundle \in Content /\ out \in [Device -> Content]
        /\ pc \in [Device -> {"idle", "merge", "write", "import", "sidecar"}]
        /\ edits \in 0..MaxEdit /\ fails \in 0..MaxFail
    BY DEF IInv, TypeOK, LocalForm
  <1>2. /\ bundle.forms \in SyncState /\ bundle.row \in {NoRow} \cup [freq : Freq, at : Time]
        /\ out[d].forms \in SyncState /\ out[d].row \in {NoRow} \cup [freq : Freq, at : Time]
        /\ sidecar[d] \in SyncState /\ form[d] \in LocalForm /\ entry[d] \in Entry
    BY <1>1 DEF Content
  <1>3. \* A step that changes what d carries, and the clock, keeps the rest.
        ASSUME NEW c \in Content, StateAgrees(c.forms), Past(c.forms, now'),
               out' = [out EXCEPT ![d] = c],
               now' \in 1..MaxTime, now' >= now
        PROVE  /\ out' \in [Device -> Content] /\ out'[d] = c
               /\ \A e \in Device : e # d => out'[e] = out[e]
               /\ \A e \in Device : StateAgrees(out'[e].forms) /\ Past(out'[e].forms, now')
    <2>1. /\ out' \in [Device -> Content] /\ out'[d] = c
          /\ \A e \in Device : e # d => out'[e] = out[e]
      BY <1>1, <1>3
    <2>2. ASSUME NEW e \in Device
          PROVE  StateAgrees(out'[e].forms) /\ Past(out'[e].forms, now')
      <3>1. CASE e = d
        BY <1>3, <2>1, <3>1 DEF Past
      <3>2. CASE e # d
        <4>1. StateAgrees(out[e].forms) /\ Past(out[e].forms, now) /\ out[e].forms \in SyncState
          BY <1>1 DEF IInv, Agreement, Stamped, Content
        <4>2. out[e].forms.zero.at \in 0..MaxTime /\ out[e].forms.number.at \in 0..MaxTime
          BY <4>1, Stamps
        <4>3. out'[e] = out[e]
          BY <2>1, <3>2
        <4> QED BY <1>1, <1>3, <4>1, <4>2, <4>3 DEF Past
      <3> QED BY <3>1, <3>2
    <2> QED BY <2>1, <2>2
  <1>4. \* What is left to show of a step: the files of d, the bundle and what d carries.
        ASSUME NEW c \in Content, out' = [out EXCEPT ![d] = c],
               StateAgrees(c.forms), Past(c.forms, now'),
               now' \in 1..MaxTime, now' >= now,
               entry' \in [Device -> Entry], \A e \in Device : e # d => entry'[e] = entry[e],
               form' \in [Device -> LocalForm], \A e \in Device : e # d => form'[e] = form[e],
               FormAgrees(form[d])',
               sidecar' \in [Device -> SyncState], \A e \in Device : e # d => sidecar'[e] = sidecar[e],
               StateAgrees(sidecar[d])', Past(sidecar'[d], now'),
               bundle' \in Content, StateAgrees(bundle.forms)', Past(bundle'.forms, now'),
               pc' \in [Device -> {"idle", "merge", "write", "import", "sidecar"}],
               \A e \in Device : e # d => pc'[e] = pc[e],
               edits' \in 0..MaxEdit, fails' \in 0..MaxFail, uses' = uses, unread' \in [Device -> BOOLEAN],
               hidden' \in [Device -> BOOLEAN], \A e \in Device : e # d => hidden'[e] = hidden[e],
               forgot' \in BOOLEAN, forgot => forgot',
               pc'[d] # "idle" /\ ~hidden'[d] /\ ~forgot' => Newer(c.forms, sidecar'[d]),
               pc'[d] \in {"merge", "write", "import"} /\ ~hidden'[d] /\ ~entry'[d].removed
                 => c.row.at >= entry'[d].at
        PROVE  IInv'
    <2>1. /\ out' \in [Device -> Content] /\ out'[d] = c
          /\ \A e \in Device : e # d => out'[e] = out[e]
          /\ \A e \in Device : StateAgrees(out'[e].forms) /\ Past(out'[e].forms, now')
      BY <1>3, <1>4
    <2>2. TypeOK'
      BY <1>4, <2>1 DEF IInv, TypeOK, LocalForm
    <2>3. Agreement'
      <3>1. ASSUME NEW e \in Device
            PROVE  StateAgrees(sidecar'[e]) /\ FormAgrees(form'[e])
        BY <1>4 DEF IInv, Agreement
      <3> QED BY <1>4, <2>1, <3>1 DEF Agreement
    <2>4. Stamped'
      <3>1. ASSUME NEW e \in Device
            PROVE  Past(sidecar'[e], now')
        <4>1. CASE e = d
          BY <1>4, <4>1
        <4>2. CASE e # d
          <5>1. sidecar'[e] = sidecar[e] /\ Past(sidecar[e], now) /\ sidecar[e] \in SyncState
            BY <1>1, <1>4, <4>2 DEF IInv, Stamped
          <5>2. sidecar[e].zero.at \in 0..MaxTime /\ sidecar[e].number.at \in 0..MaxTime
            BY <5>1, Stamps
          <5> QED BY <1>1, <1>4, <5>1, <5>2 DEF Past
        <4> QED BY <4>1, <4>2
      <3> QED BY <1>4, <2>1, <3>1 DEF Stamped
    <2>5. Carried'
      <3>1. ASSUME NEW e \in Device, e # d
            PROVE  /\ pc'[e] # "idle" /\ ~hidden'[e] /\ ~forgot' => Newer(out'[e].forms, sidecar'[e])
                   /\ pc'[e] \in {"merge", "write", "import"} /\ ~hidden'[e] /\ ~entry'[e].removed
                        => out'[e].row.at >= entry'[e].at
        <4>1. /\ pc'[e] = pc[e] /\ hidden'[e] = hidden[e] /\ out'[e] = out[e]
              /\ sidecar'[e] = sidecar[e] /\ entry'[e] = entry[e]
          BY <1>4, <2>1, <3>1
        <4> QED BY <1>4, <4>1, Zenon DEF IInv, Carried
      <3> QED BY <1>4, <2>1, <3>1, Zenon DEF Carried
    <2> QED BY <2>2, <2>3, <2>4, <2>5 DEF IInv
  <1> HIDE DEF Entry
  <1>5. /\ StateAgrees(sidecar[d]) /\ StateAgrees(out[d].forms) /\ FormAgrees(form[d]) /\ StateAgrees(bundle.forms)
        /\ Past(sidecar[d], now) /\ Past(out[d].forms, now) /\ Past(bundle.forms, now)
    BY DEF IInv, Agreement, Stamped
  <1>6. /\ pc[d] # "idle" /\ ~hidden[d] /\ ~forgot => Newer(out[d].forms, sidecar[d])
        /\ pc[d] \in {"merge", "write", "import"} /\ ~hidden[d] /\ ~entry[d].removed
             => out[d].row.at >= entry[d].at
    BY DEF IInv, Carried
  <1>7. hidden \in [Device -> BOOLEAN] /\ unread \in [Device -> BOOLEAN] /\ forgot \in BOOLEAN
    BY DEF IInv, TypeOK
  <1>8. \* The stamps of a state that are not in the future stay so.
        ASSUME NEW s \in SyncState, Past(s, now), now' = now \/ now' = now + 1
        PROVE  Past(s, now')
    <2>1. s.zero.at \in 0..MaxTime /\ s.number.at \in 0..MaxTime
      BY Stamps
    <2> QED BY <1>1, <1>8, <2>1 DEF Past
  <1>9. CASE ExportHistory(d)
    <2> DEFINE Row(b) == ExportedRow(IF b THEN entry[d] ELSE Absent)
               Forms(b, k) == StampCharacterForms(IF b THEN form[d] ELSE Unformed,
                                                  IF k THEN sidecar[d] ELSE NoForms, now')
    <2>a. PICK read, known, saved \in BOOLEAN : Export(d, read, known, saved)
      BY <1>9 DEF ExportHistory
    <2>0. /\ out' = [out EXCEPT ![d] = [row |-> Row(read), forms |-> Forms(read, known)]]
          /\ sidecar' = IF saved THEN [sidecar EXCEPT ![d] = Forms(read, known)] ELSE sidecar
          /\ fails' = fails + Failed(read) + Failed(known) + Failed(saved) /\ fails' <= MaxFail
          /\ forgot' = (forgot \/ ~saved)
          /\ hidden' = [hidden EXCEPT ![d] = ~read]
      BY <2>a, Zenon DEF Export
    <2> DEFINE f == IF read THEN form[d] ELSE Unformed
               p == IF known THEN sidecar[d] ELSE NoForms
               c == [row |-> Row(read), forms |-> Forms(read, known)]
    <2>1. /\ pc[d] = "idle" /\ pc' = [pc EXCEPT ![d] = "merge"]
          /\ now' = now \/ (now < MaxTime /\ now' = now + 1)
          /\ out' = [out EXCEPT ![d] = c]
          /\ UNCHANGED <<entry, form, bundle, edits, uses, unread>>
      BY <2>0, <2>a DEF Export, Goto, Tick
    <2>2. /\ sidecar' = [sidecar EXCEPT ![d] = c.forms] \/ (sidecar' = sidecar /\ forgot')
          /\ forgot' \in BOOLEAN /\ (forgot => forgot')
      BY <1>7, <2>0, Zenon
    <2>15. /\ f \in LocalForm /\ FormAgrees(f)
           /\ p \in SyncState /\ StateAgrees(p) /\ Past(p, now)
      <3>1. now \in Nat
        BY <1>1
      <3> QED BY <1>2, <1>5, <3>1, Empty, Unreadable DEF Past
    <2>16. fails' \in 0..MaxFail
      <3>1. Failed(read) \in Nat /\ Failed(known) \in Nat /\ Failed(saved) \in Nat
        BY DEF Failed
      <3>2. fails' = fails + Failed(read) + Failed(known) + Failed(saved) /\ fails' <= MaxFail
        BY <2>0
      <3> QED BY <1>1, <3>1, <3>2
    <2>17. /\ hidden' \in [Device -> BOOLEAN] /\ \A e \in Device : e # d => hidden'[e] = hidden[e]
           /\ hidden'[d] = ~read
      BY <1>7, <2>0, Zenon
    <2>3. now' \in Time /\ now' \in 1..MaxTime /\ now' >= now /\ now \in Nat /\ now' \in Nat
      BY <1>1, <2>1 DEF Time
    <2>4. /\ c.forms \in SyncState /\ StateAgrees(c.forms)
          /\ c.forms.zero.at \in {0, p.zero.at, now'}
          /\ c.forms.number.at \in {0, p.number.at, now'}
      BY <2>3, <2>15, Stamping
    <2>5. Past(c.forms, now')
      <3>1. p.zero.at <= now /\ p.number.at <= now
        BY <2>15 DEF Past
      <3>2. p.zero.at \in Nat /\ p.number.at \in Nat
        BY <2>15, Stamps
      <3>3. /\ c.forms.zero.at \in {0, p.zero.at, now'}
            /\ c.forms.number.at \in {0, p.number.at, now'}
        BY <2>4
      <3> HIDE DEF c, p
      <3>4. c.forms.zero.at <= now' /\ c.forms.number.at <= now'
        BY <2>3, <3>1, <3>2, <3>3
      <3> QED BY <3>4 DEF Past
    <2>6. c \in Content /\ (read /\ ~entry[d].removed => c.row.at >= entry[d].at)
      <3> DEFINE e == IF read THEN entry[d] ELSE Absent
      <3>1. e \in Entry /\ (read => e = entry[d])
        BY <1>2, Unreadable DEF Entry
      <3>2. c.row = IF e.removed \/ e.at = 0 THEN NoRow ELSE [freq |-> e.freq, at |-> e.at]
        BY DEF ExportedRow
      <3> HIDE DEF e, c
      <3>3. e.at \in 0..MaxTime /\ e.freq \in Freq
        BY <3>1 DEF Entry
      <3>4. c.row \in {NoRow} \cup [freq : Freq, at : Time]
        <4>1. CASE e.removed \/ e.at = 0
          BY <3>2, <4>1
        <4>2. CASE ~(e.removed \/ e.at = 0)
          BY <3>2, <3>3, <4>2 DEF Time
        <4> QED BY <4>1, <4>2
      <3>5. ~e.removed => c.row.at >= e.at
        BY <3>2, <3>3 DEF NoRow
      <3>6. c = [row |-> c.row, forms |-> c.forms]
        BY DEF c
      <3> QED BY <2>4, <3>1, <3>4, <3>5, <3>6 DEF Content
    <2> HIDE DEF c, f, p, Row, Forms
    <2>7. /\ sidecar' \in [Device -> SyncState] /\ \A e \in Device : e # d => sidecar'[e] = sidecar[e]
          /\ sidecar'[d] = c.forms \/ (sidecar'[d] = sidecar[d] /\ forgot')
      BY <1>1, <2>2, <2>4
    <2>8. StateAgrees(sidecar[d])' /\ Past(sidecar'[d], now')
      <3>1. CASE sidecar'[d] = c.forms
        BY <2>4, <2>5, <3>1 DEF Past
      <3>2. CASE sidecar'[d] = sidecar[d]
        <4>1. Past(sidecar'[d], now')
          BY <1>2, <1>5, <1>8, <2>1, <3>2 DEF Past
        <4> QED BY <1>5, <3>2, <4>1
      <3> QED BY <2>7, <3>1, <3>2
    <2>9. Past(bundle'.forms, now') /\ bundle' = bundle
      BY <1>2, <1>5, <1>8, <2>1
    <2>10. pc'[d] # "idle" /\ ~hidden'[d] /\ ~forgot' => Newer(c.forms, sidecar'[d])
      <3>1. c.forms.zero.at \in 0..MaxTime /\ c.forms.number.at \in 0..MaxTime
        BY <2>4, Stamps
      <3> QED BY <2>7, <3>1 DEF Newer
    <2>11. /\ entry' \in [Device -> Entry] /\ \A e \in Device : e # d => entry'[e] = entry[e]
           /\ form' \in [Device -> LocalForm] /\ \A e \in Device : e # d => form'[e] = form[e]
           /\ FormAgrees(form[d])' /\ bundle' \in Content /\ StateAgrees(bundle.forms)'
           /\ entry'[d] = entry[d] /\ uses' = uses
      BY <1>1, <1>5, <2>1
    <2>12. /\ pc' \in [Device -> {"idle", "merge", "write", "import", "sidecar"}]
           /\ \A e \in Device : e # d => pc'[e] = pc[e]
      BY <1>1, <2>1
    <2>13. ~hidden'[d] /\ ~entry'[d].removed => c.row.at >= entry'[d].at
      BY <2>6, <2>11, <2>17
    <2>14. edits' \in 0..MaxEdit /\ unread' \in [Device -> BOOLEAN]
      BY <1>1, <1>7, <2>1
    <2> QED BY <1>4, <2>1, <2>2, <2>3, <2>4, <2>5, <2>6, <2>7, <2>8, <2>9, <2>10, <2>11, <2>12, <2>13, <2>14,
               <2>16, <2>17
  <1>10. CASE SkipExport(d)
    <2>1. /\ pc' = [pc EXCEPT ![d] = "merge"] /\ out' = [out EXCEPT ![d] = Nothing]
          /\ hidden' = [hidden EXCEPT ![d] = TRUE] /\ edits < MaxEdit /\ edits' = edits + 1
          /\ UNCHANGED <<now, files, bundle, fails, uses, unread, forgot>>
      BY <1>10 DEF SkipExport, Goto, Edit
    <2>2. Nothing \in Content /\ StateAgrees(Nothing.forms) /\ Nothing.forms.zero.at = 0 /\ Nothing.forms.number.at = 0
      BY Empty, Zenon
    <2>3. Past(Nothing.forms, now') /\ now' = now /\ now' >= now
      BY <1>1, <2>1, <2>2 DEF Past
    <2>4. /\ entry' = entry /\ form' = form /\ sidecar' = sidecar /\ bundle' = bundle
          /\ hidden'[d] = TRUE
      BY <1>7, <2>1 DEF files
    <2>5. /\ pc' \in [Device -> {"idle", "merge", "write", "import", "sidecar"}]
          /\ \A e \in Device : e # d => pc'[e] = pc[e]
      BY <1>1, <2>1
    <2>6. /\ hidden' \in [Device -> BOOLEAN] /\ \A e \in Device : e # d => hidden'[e] = hidden[e]
          /\ forgot' = forgot /\ uses' = uses /\ edits' \in 0..MaxEdit /\ fails' \in 0..MaxFail
          /\ unread' \in [Device -> BOOLEAN]
      BY <1>1, <1>7, <2>1
    <2>7. out' = [out EXCEPT ![d] = Nothing]
      BY <2>1
    <2> QED BY <1>1, <1>4, <1>5, <1>7, <2>2, <2>3, <2>4, <2>5, <2>6, <2>7
  <1>11. CASE MergeBundle(d)
    <2> DEFINE c == [row |-> MergeHistory(bundle.row, out[d].row),
                     forms |-> MergeCharacterForms(bundle.forms, out[d].forms)]
    <2>1. /\ pc[d] = "merge" /\ pc' = [pc EXCEPT ![d] = "write"] /\ out' = [out EXCEPT ![d] = c]
          /\ UNCHANGED <<now, files, bundle, bounds, history>>
      BY <1>11 DEF MergeBundle, Goto
    <2>2. /\ c.forms \in SyncState /\ StateAgrees(c.forms)
          /\ c.forms.zero.at >= out[d].forms.zero.at /\ c.forms.number.at >= out[d].forms.number.at
          /\ c.forms.zero.at \in {bundle.forms.zero.at, bundle.forms.number.at, out[d].forms.zero.at, out[d].forms.number.at}
          /\ c.forms.number.at \in {bundle.forms.zero.at, bundle.forms.number.at, out[d].forms.zero.at, out[d].forms.number.at}
      BY <1>2, <1>5, Merging
    <2>3. c \in Content /\ c.row.at >= out[d].row.at
      <3>1. /\ bundle.row.freq \in Nat /\ bundle.row.at \in 0..MaxTime
            /\ out[d].row.freq \in Nat /\ out[d].row.at \in 0..MaxTime
            /\ bundle.row.at = 0 => bundle.row = NoRow
            /\ out[d].row.at = 0 => out[d].row = NoRow
        BY <1>2 DEF NoRow, Freq, Time
      <3>2. Plus(bundle.row.freq, out[d].row.freq) \in Freq
        BY <3>1, Counting
      <3>3. /\ c.row = [freq |-> Plus(bundle.row.freq, out[d].row.freq), at |-> Later(bundle.row.at, out[d].row.at)]
            /\ Later(bundle.row.at, out[d].row.at) \in 0..MaxTime
            /\ Later(bundle.row.at, out[d].row.at) >= out[d].row.at
        BY <3>1 DEF MergeHistory, Later
      <3>4. c.row \in {NoRow} \cup [freq : Freq, at : Time]
        <4>1. CASE Later(bundle.row.at, out[d].row.at) = 0
          <5>1. bundle.row.at = 0 /\ out[d].row.at = 0
            BY <3>1, <4>1 DEF Later
          <5>2. bundle.row.freq = 0 /\ out[d].row.freq = 0
            BY <3>1, <5>1 DEF NoRow
          <5>3. Plus(bundle.row.freq, out[d].row.freq) = 0
            BY <5>2 DEF Plus
          <5> QED BY <3>3, <4>1, <5>3 DEF NoRow
        <4>2. CASE Later(bundle.row.at, out[d].row.at) # 0
          BY <3>2, <3>3, <4>2 DEF Time
        <4> QED BY <4>1, <4>2
      <3>5. c.row.at >= out[d].row.at
        BY <3>3
      <3> QED BY <2>2, <3>4, <3>5 DEF Content
    <2> HIDE DEF c
    <2>4. Past(c.forms, now') /\ now' = now /\ now' >= now
      <3>1. /\ bundle.forms.zero.at <= now /\ bundle.forms.number.at <= now
            /\ out[d].forms.zero.at <= now /\ out[d].forms.number.at <= now
        BY <1>5 DEF Past
      <3>2. now' = now
        BY <2>1
      <3>3. c.forms.zero.at <= now /\ c.forms.number.at <= now
        BY <2>2, <3>1
      <3> QED BY <1>1, <3>2, <3>3 DEF Past
    <2>5. /\ entry' = entry /\ form' = form /\ sidecar' = sidecar /\ bundle' = bundle
          /\ hidden' = hidden /\ unread' = unread /\ forgot' = forgot /\ uses' = uses /\ edits' = edits /\ fails' = fails
      BY <2>1 DEF files, history, bounds
    <2>6. pc'[d] # "idle" /\ ~hidden'[d] /\ ~forgot' => Newer(c.forms, sidecar'[d])
      <3>1. SUFFICES ASSUME Newer(out[d].forms, sidecar[d])
                     PROVE  Newer(c.forms, sidecar[d])
        BY <1>6, <2>1, <2>5
      <3>2. /\ c.forms.zero.at \in 0..MaxTime /\ c.forms.number.at \in 0..MaxTime
            /\ sidecar[d].zero.at \in 0..MaxTime /\ sidecar[d].number.at \in 0..MaxTime
            /\ out[d].forms.zero.at \in 0..MaxTime /\ out[d].forms.number.at \in 0..MaxTime
        BY <1>2, <2>2, Stamps
      <3> QED BY <2>2, <3>1, <3>2 DEF Newer
    <2>7. ~hidden'[d] /\ ~entry'[d].removed => c.row.at >= entry'[d].at
      <3>1. c.row.at \in 0..MaxTime /\ out[d].row.at \in 0..MaxTime /\ entry[d].at \in 0..MaxTime
        BY <1>2, <2>3 DEF Content, NoRow, Time, Entry
      <3>2. ~hidden[d] /\ ~entry[d].removed => out[d].row.at >= entry[d].at
        BY <1>6, <2>1
      <3> QED BY <2>3, <2>5, <3>1, <3>2
    <2>8. /\ pc' \in [Device -> {"idle", "merge", "write", "import", "sidecar"}]
          /\ \A e \in Device : e # d => pc'[e] = pc[e]
      BY <1>1, <2>1, <2>5
    <2> QED BY <1>1, <1>4, <1>5, <1>7, <2>1, <2>2, <2>3, <2>4, <2>5, <2>6, <2>7, <2>8
  <1>12. CASE WriteBundle(d)
    <2>1. /\ pc[d] = "write" /\ pc' = [pc EXCEPT ![d] = "import"] /\ bundle' = out[d] /\ out' = out
          /\ UNCHANGED <<now, files, bounds, history>>
      BY <1>12 DEF WriteBundle, Goto
    <2>2. /\ entry' = entry /\ form' = form /\ sidecar' = sidecar /\ now' = now
          /\ hidden' = hidden /\ unread' = unread /\ forgot' = forgot /\ uses' = uses /\ edits' = edits /\ fails' = fails
      BY <2>1 DEF files, history, bounds
    <2>3. out[d] \in Content /\ out' = [out EXCEPT ![d] = out[d]]
      BY <1>1, <2>1
    <2>4. /\ pc' \in [Device -> {"idle", "merge", "write", "import", "sidecar"}]
          /\ \A e \in Device : e # d => pc'[e] = pc[e]
          /\ now' >= now
      BY <1>1, <2>1, <2>2
    <2>5. /\ pc'[d] # "idle" /\ ~hidden'[d] /\ ~forgot' => Newer(out[d].forms, sidecar'[d])
          /\ ~hidden'[d] /\ ~entry'[d].removed => out[d].row.at >= entry'[d].at
      BY <1>6, <2>1, <2>2
    <2>6. /\ bundle' \in Content /\ StateAgrees(bundle.forms)' /\ Past(bundle'.forms, now')
          /\ StateAgrees(out[d].forms) /\ Past(out[d].forms, now')
          /\ StateAgrees(sidecar[d])' /\ Past(sidecar'[d], now') /\ FormAgrees(form[d])'
      BY <1>5, <2>1, <2>2, <2>3
    <2>7. /\ now' \in 1..MaxTime /\ entry' \in [Device -> Entry] /\ form' \in [Device -> LocalForm]
          /\ sidecar' \in [Device -> SyncState] /\ edits' \in 0..MaxEdit /\ fails' \in 0..MaxFail
          /\ hidden' \in [Device -> BOOLEAN] /\ unread' \in [Device -> BOOLEAN]
          /\ forgot' \in BOOLEAN /\ (forgot => forgot')
          /\ \A e \in Device : e # d => /\ entry'[e] = entry[e] /\ form'[e] = form[e]
                                        /\ sidecar'[e] = sidecar[e] /\ hidden'[e] = hidden[e]
      BY <1>1, <1>7, <2>2
    <2> QED BY <1>4, <2>2, <2>3, <2>4, <2>5, <2>6, <2>7
  <1>13. CASE ImportHistory(d)
    <2>0. PICK read \in BOOLEAN :
            /\ entry' = [entry EXCEPT ![d] = ImportedEntry(IF read THEN entry[d] ELSE Absent, out[d].row)]
            /\ form' = [form EXCEPT ![d] = StorageMerge(IF read THEN form[d] ELSE Unformed, out[d].forms)]
            /\ fails' = fails + Failed(read) /\ fails' <= MaxFail
            /\ unread' = [unread EXCEPT ![d] = ~read]
      BY <1>13, Zenon DEF ImportHistory
    <2> DEFINE h == IF read THEN entry[d] ELSE Absent
               i == IF read THEN form[d] ELSE Unformed
               f == StorageMerge(i, out[d].forms)
               g == ImportedEntry(h, out[d].row)
    <2>1. /\ pc[d] = "import" /\ pc' = [pc EXCEPT ![d] = "sidecar"]
          /\ entry' = [entry EXCEPT ![d] = g] /\ form' = [form EXCEPT ![d] = f]
          /\ UNCHANGED <<now, sidecar, bundle, out, edits, uses, hidden, forgot>>
      BY <1>13, <2>0 DEF ImportHistory, Goto
    <2>10. h \in Entry /\ i \in LocalForm /\ FormAgrees(i)
      BY <1>2, <1>5, Unreadable DEF Entry
    <2>11. fails' \in 0..MaxFail
      <3>1. Failed(read) \in Nat /\ fails' = fails + Failed(read) /\ fails' <= MaxFail
        BY <2>0 DEF Failed
      <3> QED BY <1>1, <3>1
    <2>12. unread' \in [Device -> BOOLEAN]
      BY <1>7, <2>0, Zenon
    <2> HIDE DEF h, i
    <2>2. f \in LocalForm /\ FormAgrees(f)
      BY <1>2, <1>5, <2>10, Storing
    <2>3. g \in Entry
      <3>1. CASE out[d].row = NoRow
        BY <2>10, <3>1 DEF ImportedEntry
      <3>2. CASE out[d].row # NoRow
        <4>1. g = [h EXCEPT !.freq = out[d].row.freq, !.at = out[d].row.at]
          BY <3>2 DEF ImportedEntry
        <4>2. out[d].row.freq \in Freq /\ out[d].row.at \in 0..MaxTime
          BY <1>2, <3>2 DEF Time
        <4> QED BY <2>10, <4>1, <4>2 DEF Entry
      <3> QED BY <3>1, <3>2
    <2> HIDE DEF f, g
    <2>4. /\ sidecar' = sidecar /\ now' = now /\ out' = out /\ bundle' = bundle
          /\ hidden' = hidden /\ forgot' = forgot /\ uses' = uses /\ edits' = edits
      BY <2>1
    <2>5. out[d] \in Content /\ out' = [out EXCEPT ![d] = out[d]]
      BY <1>1, <2>1
    <2>6. /\ pc' \in [Device -> {"idle", "merge", "write", "import", "sidecar"}]
          /\ pc'[d] = "sidecar" /\ \A e \in Device : e # d => pc'[e] = pc[e]
          /\ now' >= now
      BY <1>1, <2>1, <2>4
    <2>7. /\ entry' \in [Device -> Entry] /\ \A e \in Device : e # d => entry'[e] = entry[e]
          /\ form' \in [Device -> LocalForm] /\ \A e \in Device : e # d => form'[e] = form[e]
          /\ form'[d] = f
      BY <1>1, <2>1, <2>2, <2>3
    <2>8. FormAgrees(form[d])'
      BY <2>2, <2>7
    <2>9. /\ pc'[d] # "idle" /\ ~hidden'[d] /\ ~forgot' => Newer(out[d].forms, sidecar'[d])
          /\ pc'[d] \notin {"merge", "write", "import"}
      BY <1>6, <2>1, <2>4, <2>6
    <2> QED BY <1>1, <1>4, <1>5, <1>7, <2>4, <2>5, <2>6, <2>7, <2>8, <2>9, <2>11, <2>12
  <1>14. CASE SaveSidecar(d) \/ Abort(d)
    <2>1. Nothing \in Content /\ StateAgrees(Nothing.forms) /\ Nothing.forms.zero.at = 0 /\ Nothing.forms.number.at = 0
      BY Empty, Zenon
    <2>2. /\ pc' = [pc EXCEPT ![d] = "idle"] /\ out' = [out EXCEPT ![d] = Nothing]
          /\ sidecar' = sidecar \/ sidecar' = [sidecar EXCEPT ![d] = out[d].forms]
          /\ now' = now /\ entry' = entry /\ form' = form /\ bundle' = bundle
          /\ hidden' = [hidden EXCEPT ![d] = FALSE] /\ unread' = [unread EXCEPT ![d] = FALSE]
          /\ forgot' = forgot /\ uses' = uses /\ edits' = edits
      BY <1>14 DEF SaveSidecar, Abort, Finish, files, bounds
    <2>3. fails' = fails \/ (fails < MaxFail /\ fails' = fails + 1)
      BY <1>14 DEF SaveSidecar, Abort, Fail, bounds
    <2>4. Past(Nothing.forms, now') /\ fails' \in 0..MaxFail /\ now' >= now
      BY <1>1, <2>1, <2>2, <2>3 DEF Past
    <2>5. /\ sidecar' \in [Device -> SyncState] /\ \A e \in Device : e # d => sidecar'[e] = sidecar[e]
          /\ sidecar'[d] = sidecar[d] \/ sidecar'[d] = out[d].forms
      BY <1>1, <1>2, <2>2
    <2>6. StateAgrees(sidecar[d])' /\ Past(sidecar'[d], now')
      BY <1>5, <2>2, <2>5
    <2>7. /\ pc' \in [Device -> {"idle", "merge", "write", "import", "sidecar"}]
          /\ pc'[d] = "idle" /\ \A e \in Device : e # d => pc'[e] = pc[e]
      BY <1>1, <2>2
    <2>8. pc'[d] \notin {"merge", "write", "import"} /\ ~(pc'[d] # "idle")
      BY <2>7
    <2>9. /\ hidden' \in [Device -> BOOLEAN] /\ unread' \in [Device -> BOOLEAN]
          /\ \A e \in Device : e # d => hidden'[e] = hidden[e]
      BY <1>7, <2>2, Zenon
    <2> QED BY <1>1, <1>4, <1>5, <1>7, <2>1, <2>2, <2>4, <2>5, <2>6, <2>7, <2>8, <2>9
  <1> QED BY <1>9, <1>10, <1>11, <1>12, <1>13, <1>14 DEF PerformSync

\* A step that changes nothing keeps the invariant.
LEMMA Stuttering == IInv /\ UNCHANGED vars => IInv'
  BY DEF vars, files, bounds, history, IInv, TypeOK, Agreement, Stamped, Carried

\* The invariant holds in every reachable state.
THEOREM Invariance == Spec => []IInv
  <1>1. IInv /\ [Next]_vars => IInv'
    <2> SUFFICES ASSUME IInv, [Next]_vars
                 PROVE  IInv'
      OBVIOUS
    <2>1. CASE \E d \in Device : User(d)
      BY <2>1, Editing
    <2>2. CASE \E d \in Device : PerformSync(d) \/ Abort(d)
      BY <2>2, Syncing
    <2>3. CASE UNCHANGED vars
      BY <2>3, Stuttering
    <2> QED BY <2>1, <2>2, <2>3 DEF Next
  <1> QED BY <1>1, Starting, PTL DEF Spec

\* Every variable keeps its type: an edit, a merge or an import never leaves a form without
\* its width, a stamp outside the clock or a frequency outside its width.
THEOREM Typing == Spec => []TypeOK
  <1>1. IInv => TypeOK
    BY DEF IInv
  <1> QED BY <1>1, Invariance, PTL

\* The width of "0" and that of the number style agree, in the files of every device and in
\* the bundle, whatever the devices edit, merge and import.
THEOREM Widths == Spec => []WidthsAgree
  <1>1. IInv => WidthsAgree
    BY DEF IInv, Agreement, StateAgrees, FormAgrees, WidthsAgree, States
  <1> QED BY <1>1, Invariance, PTL

\* A sync that exported the forms and remembers their stamps never gives a device a form
\* older than the one it had.
THEOREM Advancing == Spec => StampsAdvance
  <1>1. IInv /\ [Next]_vars => [\A d \in Device : forgot \/ hidden[d] \/ hidden'[d] \/ NewerOn(d)]_vars
    <2> SUFFICES ASSUME IInv, Next, NEW d \in Device, ~forgot, ~hidden[d], ~hidden'[d]
                 PROVE  NewerOn(d)
      OBVIOUS
    <2>1. /\ sidecar \in [Device -> SyncState] /\ form[d] \in LocalForm
          /\ sidecar[d].zero.at \in 0..MaxTime /\ sidecar[d].number.at \in 0..MaxTime
          /\ now \in Nat
      BY Stamps DEF IInv, TypeOK, LocalForm
    <2>2. CASE sidecar'[d] = sidecar[d]
      BY <2>1, <2>2 DEF NewerOn
    <2>3. CASE ExportHistory(d)
      <3>a. PICK read, known, saved \in BOOLEAN : Export(d, read, known, saved)
        BY <2>3 DEF ExportHistory
      <3>0. /\ sidecar' = IF saved
                          THEN [sidecar EXCEPT ![d] =
                                  StampCharacterForms(IF read THEN form[d] ELSE Unformed,
                                                      IF known THEN sidecar[d] ELSE NoForms, now')]
                          ELSE sidecar
            /\ hidden' = [hidden EXCEPT ![d] = ~read]
        BY <3>a, Zenon DEF Export
      <3> DEFINE p == IF known THEN sidecar[d] ELSE NoForms
                 s == StampCharacterForms(form[d], p, now')
      <3>7. read
        <4>1. hidden \in [Device -> BOOLEAN]
          BY DEF IInv, TypeOK
        <4> QED BY <3>0, <4>1, Zenon
      <3>1. sidecar' = [sidecar EXCEPT ![d] = s] \/ sidecar' = sidecar
        BY <3>0, <3>7, Zenon
      <3>2. now' \in Time /\ now' >= now
        <4>1. now' = now \/ (now < MaxTime /\ now' = now + 1)
          BY <3>a DEF Export, Tick
        <4> QED BY <4>1, HistoryBounds DEF IInv, TypeOK, Time
      <3>8. p \in SyncState /\ (p = sidecar[d] \/ p = NoForms)
        BY <2>1, Empty
      <3>3. /\ form[d].zero # "none" => s.zero.at \in {sidecar[d].zero.at, now'}
            /\ form[d].number # NoNumber => s.number.at \in {sidecar[d].number.at, now'}
        <4>1. CASE p = sidecar[d]
          <5> HIDE DEF p
          <5> QED BY <2>1, <3>2, <3>8, <4>1, Stamping
        <4>2. CASE p = NoForms
          <5> HIDE DEF p
          <5> QED BY <2>1, <3>2, <4>2, Restamping
        <4> QED BY <3>8, <4>1, <4>2
      <3>4. sidecar[d].zero.at <= now /\ sidecar[d].number.at <= now
        BY DEF IInv, Stamped, Past
      <3>5. /\ form[d].zero = "none" \/ s.zero.at >= sidecar[d].zero.at
            /\ form[d].number = NoNumber \/ s.number.at >= sidecar[d].number.at
        BY <2>1, <3>2, <3>3, <3>4, HistoryBounds DEF Time
      <3>6. sidecar'[d] = s \/ sidecar'[d] = sidecar[d]
        BY <2>1, <3>1
      <3> HIDE DEF s, p
      <3> QED BY <2>2, <3>5, <3>6 DEF NewerOn
    <2>4. CASE SaveSidecar(d)
      <3>1. pc[d] = "sidecar" /\ sidecar'[d] = out[d].forms
        BY <2>1, <2>4 DEF SaveSidecar
      <3>2. Newer(out[d].forms, sidecar[d])
        BY <3>1 DEF IInv, Carried
      <3> QED BY <3>1, <3>2 DEF Newer, NewerOn
    <2>5. CASE ~ExportHistory(d) /\ ~SaveSidecar(d)
      <3>1. PICK e \in Device : User(e) \/ PerformSync(e) \/ Abort(e)
        BY DEF Next
      <3>2. CASE ExportHistory(e)
        <4>1. e # d
          BY <2>5, <3>2
        <4> QED BY <2>1, <2>2, <3>2, <4>1 DEF ExportHistory, Export
      <3>3. CASE SaveSidecar(e)
        <4>1. e # d
          BY <2>5, <3>3
        <4> QED BY <2>1, <2>2, <3>3, <4>1 DEF SaveSidecar
      <3>4. CASE ~ExportHistory(e) /\ ~SaveSidecar(e)
        <4>1. sidecar' = sidecar
          BY <3>1, <3>4 DEF User, Use, ClearHistoryEntry, Clear, SetLastNumberStyle, SetCharacterForm, PerformSync,
                            SkipExport, MergeBundle, WriteBundle, ImportHistory, Abort, files
        <4> QED BY <2>2, <4>1
      <3> QED BY <3>2, <3>3, <3>4
    <2> QED BY <2>3, <2>4, <2>5
  <1> QED BY <1>1, Invariance, PTL DEF Spec, StampsAdvance

\* What a step of a sync of d does to its entry: nothing, or the import of the merged row.
LEMMA Entries ==
    ASSUME IInv, Next, NEW d \in Device, pc[d] # "idle"
    PROVE  \/ entry'[d] = entry[d]
           \/ /\ pc[d] = "import"
              /\ \/ entry'[d] = ImportedEntry(entry[d], out[d].row)
                 \/ entry'[d] = ImportedEntry(Absent, out[d].row) /\ unread'[d]
  <1>1. PICK e \in Device : User(e) \/ PerformSync(e) \/ Abort(e)
    BY DEF Next
  <1>2. entry \in [Device -> [removed : BOOLEAN, freq : Freq, at : 0..MaxTime]]
    BY DEF IInv, TypeOK
  <1>3. CASE User(e)
    <2>1. e # d
      BY <1>3 DEF User, Use, ClearHistoryEntry, Clear, SetLastNumberStyle, SetCharacterForm, Edit
    <2>2. \A x \in Device : x # e => entry'[x] = entry[x]
      BY <1>2, <1>3 DEF User, Use, ClearHistoryEntry, Clear, SetLastNumberStyle, SetCharacterForm
    <2> QED BY <2>1, <2>2
  <1>4. CASE ImportHistory(e)
    <2>1. PICK read \in BOOLEAN :
            /\ entry' = [entry EXCEPT ![e] = ImportedEntry(IF read THEN entry[e] ELSE Absent, out[e].row)]
            /\ unread' = [unread EXCEPT ![e] = ~read]
      BY <1>4, Zenon DEF ImportHistory
    <2>2. pc[e] = "import"
      BY <1>4 DEF ImportHistory
    <2>3. unread \in [Device -> BOOLEAN]
      BY DEF IInv, TypeOK
    <2>4. \/ entry' = [entry EXCEPT ![e] = ImportedEntry(entry[e], out[e].row)]
          \/ entry' = [entry EXCEPT ![e] = ImportedEntry(Absent, out[e].row)] /\ unread'[e]
      BY <2>1, <2>3, Zenon
    <2> QED BY <1>2, <2>2, <2>4
  <1>5. CASE (PerformSync(e) \/ Abort(e)) /\ ~ImportHistory(e)
    <2>1. entry' = entry
      BY <1>5 DEF PerformSync, ExportHistory, Export, SkipExport, MergeBundle, WriteBundle, SaveSidecar, Abort, files
    <2> QED BY <2>1
  <1> QED BY <1>1, <1>3, <1>4, <1>5

\* An entry the user removed stays removed through his syncs, unless an import cannot read it.
THEOREM StaysRemoved == Spec => RemovedStaysRemoved
  <1>1. IInv /\ [Next]_vars => [\A d \in Device : pc[d] # "idle" /\ entry[d].removed => entry'[d].removed \/ unread'[d]]_vars
    <2> SUFFICES ASSUME IInv, Next, NEW d \in Device, pc[d] # "idle", entry[d].removed, ~unread'[d]
                 PROVE  entry'[d].removed
      OBVIOUS
    <2>1. entry[d] \in [removed : BOOLEAN, freq : Freq, at : 0..MaxTime]
      BY DEF IInv, TypeOK
    <2>2. ImportedEntry(entry[d], out[d].row).removed = entry[d].removed
      BY <2>1 DEF ImportedEntry
    <2> QED BY <2>2, Entries
  <1> QED BY <1>1, Invariance, PTL DEF Spec, RemovedStaysRemoved

\* A sync that exported an entry never makes it look older, even one that cannot read it when
\* it imports.
THEOREM TimeKept == Spec => AccessTimeKept
  <1>1. IInv /\ [Next]_vars =>
          [\A d \in Device : pc[d] # "idle" /\ ~entry[d].removed /\ ~hidden[d] => entry'[d].at >= entry[d].at]_vars
    <2> SUFFICES ASSUME IInv, Next, NEW d \in Device, pc[d] # "idle", ~entry[d].removed, ~hidden[d]
                 PROVE  entry'[d].at >= entry[d].at
      OBVIOUS
    <2>1. entry[d] \in [removed : BOOLEAN, freq : Freq, at : 0..MaxTime] /\ entry[d].at \in Nat
      BY HistoryBounds DEF IInv, TypeOK
    <2>2. CASE entry'[d] = entry[d]
      BY <2>1, <2>2
    <2>3. CASE pc[d] = "import" /\ \E e \in {entry[d], Absent} : entry'[d] = ImportedEntry(e, out[d].row)
      <3>1. out[d].row.at >= entry[d].at
        BY <2>3 DEF IInv, Carried
      <3>2. PICK e \in {entry[d], Absent} : entry'[d] = ImportedEntry(e, out[d].row)
        BY <2>3
      <3>3. e \in [removed : BOOLEAN, freq : Freq, at : 0..MaxTime]
        BY <2>1, <3>2, Unreadable
      <3>4. ImportedEntry(e, out[d].row).at = IF out[d].row = NoRow THEN e.at ELSE out[d].row.at
        BY <3>3 DEF ImportedEntry
      <3>5. CASE out[d].row = NoRow
        <4>1. entry[d].at = 0 /\ entry'[d].at = e.at /\ e.at \in Nat
          BY <2>1, <3>1, <3>2, <3>3, <3>4, <3>5, HistoryBounds DEF NoRow
        <4> QED BY <4>1
      <3>6. CASE out[d].row # NoRow
        BY <3>1, <3>2, <3>4, <3>6
      <3> QED BY <3>5, <3>6
    <2> QED BY <2>2, <2>3, Entries
  <1> QED BY <1>1, Invariance, PTL DEF Spec, AccessTimeKept

-----------------------------------------------------------------------------
(* Stamps and widths. *)

\* A merge gives no stamp a width it did not have.
LEMMA ReconcilingWidths ==
    ASSUME NEW s \in SyncState
    PROVE  StampedWidths(ReconcileNumberForm(s)) \subseteq StampedWidths(s)
  <1> DEFINE z == [form |-> s.number.form, at |-> s.number.at]
             n == [form |-> s.zero.form, at |-> s.zero.at,
                   style |-> AdaptNumberStyleToForm(s.number.style, s.zero.form)]
  <1>1. CASE ReconcileNumberForm(s) = s
    BY <1>1
  <1>2. CASE ReconcileNumberForm(s) = [s EXCEPT !.zero = z]
    <2>1. ReconcileNumberForm(s).zero = z /\ ReconcileNumberForm(s).number = s.number
      BY <1>2 DEF SyncState
    <2> QED BY <2>1 DEF StampedWidths
  <1>3. CASE ReconcileNumberForm(s) = [s EXCEPT !.number = n]
    <2>1. ReconcileNumberForm(s).zero = s.zero /\ ReconcileNumberForm(s).number = n
      BY <1>3 DEF SyncState
    <2> QED BY <2>1 DEF StampedWidths
  <1> QED BY <1>1, <1>2, <1>3 DEF ReconcileNumberForm

LEMMA MergingWidths ==
    ASSUME NEW r \in SyncState, NEW l \in SyncState
    PROVE  StampedWidths(MergeCharacterForms(r, l)) \subseteq StampedWidths(r) \cup StampedWidths(l)
  <1> DEFINE s == [zero |-> IF r.zero.at > l.zero.at THEN r.zero ELSE l.zero,
                   number |-> IF r.number.at > l.number.at THEN r.number ELSE l.number]
  <1>1. s \in SyncState
    BY DEF SyncState
  <1>2. StampedWidths(s) \subseteq StampedWidths(r) \cup StampedWidths(l)
    BY DEF StampedWidths
  <1>3. MergeCharacterForms(r, l) = ReconcileNumberForm(s)
    BY DEF MergeCharacterForms
  <1> HIDE DEF s
  <1> QED BY <1>1, <1>2, <1>3, ReconcilingWidths

\* The new time stands for the width of "0", also on the number style.
LEMMA StampingWidths ==
    ASSUME NEW f \in LocalForm, FormAgrees(f), NEW p \in SyncState, NEW t
    PROVE  \A m \in StampedWidths(StampCharacterForms(f, p, t)) :
             m = <<0, "none">> \/ m \in StampedWidths(p) \/ m = <<t, f.zero>>
  <1> DEFINE s == StampCharacterForms(f, p, t)
  <1>1. s.zero \in {NoZero, p.zero, [form |-> f.zero, at |-> t]}
    BY DEF StampCharacterForms
  <1>2. s.number \in {NoStyle, p.number, [form |-> f.zero, style |-> f.number.style, at |-> t]}
    <2>1. f.number # NoNumber => f.number.form = f.zero
      BY DEF FormAgrees, Follow
    <2> QED BY <2>1 DEF StampCharacterForms
  <1> HIDE DEF s
  <1>3. <<s.zero.at, s.zero.form>> \in {<<0, "none">>, <<p.zero.at, p.zero.form>>, <<t, f.zero>>}
    BY <1>1 DEF NoZero
  <1>4. <<s.number.at, s.number.form>> \in {<<0, "none">>, <<p.number.at, p.number.form>>, <<t, f.zero>>}
    BY <1>2 DEF NoStyle
  <1> QED BY <1>3, <1>4 DEF StampedWidths, s

\* Where a stamp and its width come from.
Known(m) == m = <<0, "none">> \/ \E r \in States : m \in StampedWidths(r)

\* One new stamp with one width is no danger to the rest.
LEMMA Widening ==
    ASSUME IInv, StampIdentifiesWidth, NEW w,
           \A s \in States' : \A m \in StampedWidths(s) : Known(m) \/ m = <<now + 1, w>>
    PROVE  StampIdentifiesWidth'
  <1>1. ASSUME NEW r \in States PROVE r \in SyncState /\ Past(r, now)
    BY <1>1 DEF States, IInv, TypeOK, Content, Stamped
  <1>2. ASSUME NEW r \in States, NEW m \in StampedWidths(r)
        PROVE  m[1] \in 0..now /\ (m[1] = 0 => m[2] = "none")
    <2>1. r \in SyncState /\ Past(r, now)
      BY <1>1
    <2>2. /\ r.zero.at \in 0..MaxTime /\ r.number.at \in 0..MaxTime
          /\ r.zero.at <= now /\ r.number.at <= now
      BY <2>1, Stamps DEF Past
    <2>3. /\ r.zero.at = 0 => r.zero.form = "none"
          /\ r.number.at = 0 => r.number.form = "none"
      BY <2>1, HistoryBounds DEF SyncState, StampedZero, StampedNumber, NoZero, NoStyle, Time
    <2>4. now \in Nat
      BY HistoryBounds DEF IInv, TypeOK
    <2> QED BY <2>2, <2>3, <2>4, HistoryBounds DEF StampedWidths
  <1>3. now \in Nat
    BY HistoryBounds DEF IInv, TypeOK
  <1>4. ASSUME NEW m, Known(m) PROVE m[1] \in 0..now /\ (m[1] = 0 => m[2] = "none")
    BY <1>2, <1>3, <1>4 DEF Known
  <1>5. ASSUME NEW m, NEW n, Known(m), Known(n), m[1] = n[1] PROVE m[2] = n[2]
    <2>1. CASE m = <<0, "none">> \/ n = <<0, "none">>
      BY <1>4, <1>5, <2>1
    <2>2. CASE \E r, s \in States : m \in StampedWidths(r) /\ n \in StampedWidths(s)
      BY <1>5, <2>2 DEF StampIdentifiesWidth
    <2> QED BY <1>5, <2>1, <2>2 DEF Known
  <1>6. ASSUME NEW s \in States', NEW t \in States', NEW m \in StampedWidths(s), NEW n \in StampedWidths(t),
               m[1] = n[1]
        PROVE  m[2] = n[2]
    <2>1. (Known(m) \/ m = <<now + 1, w>>) /\ (Known(n) \/ n = <<now + 1, w>>)
      OBVIOUS
    <2> QED BY <1>3, <1>4, <1>5, <1>6, <2>1
  <1> QED BY <1>6 DEF StampIdentifiesWidth

\* What a step puts in place of the sidecar, the bundle or what is on its way.
LEMMA Replacing ==
    ASSUME IInv, StampIdentifiesWidth, NEW d \in Device, NEW x, NEW w,
           bundle' = bundle \/ bundle'.forms = x,
           sidecar' = sidecar \/ sidecar' = [sidecar EXCEPT ![d] = x],
           out' = out \/ (\E c : out' = [out EXCEPT ![d] = c] /\ c.forms = x),
           \A m \in StampedWidths(x) : Known(m) \/ m = <<now + 1, w>>
    PROVE  StampIdentifiesWidth'
  <1>1. sidecar \in [Device -> SyncState] /\ out \in [Device -> Content]
    BY DEF IInv, TypeOK
  <1>2. \A s \in States' : s \in States \/ s = x
    BY <1>1 DEF States
  <1>3. \A s \in States' : \A m \in StampedWidths(s) : Known(m) \/ m = <<now + 1, w>>
    BY <1>2 DEF Known
  <1> QED BY <1>3, Widening

\* Nothing is where every state begins, and it knows no width.
LEMMA NothingKnown ==
    \A m \in StampedWidths(NoForms) : Known(m)
  BY DEF StampedWidths, NoForms, NoZero, NoStyle, Known

LEMMA WidthStep ==
    ASSUME IInv, StampIdentifiesWidth, NEW d \in Device, User(d) \/ PerformSync(d) \/ Abort(d)
    PROVE  StampIdentifiesWidth'
  <1>1. /\ bundle.forms \in SyncState /\ out[d].forms \in SyncState /\ sidecar[d] \in SyncState
        /\ form[d] \in LocalForm /\ FormAgrees(form[d]) /\ now \in Nat
    BY HistoryBounds DEF IInv, TypeOK, Content, LocalForm, Agreement
  <1>2. /\ bundle.forms \in States /\ out[d].forms \in States /\ sidecar[d] \in States
    BY DEF States
  <1>3. \A r \in States : \A m \in StampedWidths(r) : Known(m)
    BY DEF Known
  <1>4. CASE UNCHANGED <<bundle, sidecar, out>>
    BY <1>4 DEF StampIdentifiesWidth, States
  <1>5. CASE ExportHistory(d)
    <2>a. PICK read, known, saved \in BOOLEAN : Export(d, read, known, saved)
      BY <1>5 DEF ExportHistory
    <2>0. LET S(t) == StampCharacterForms(IF read THEN form[d] ELSE Unformed,
                                          IF known THEN sidecar[d] ELSE NoForms, t)
          IN  /\ IF S(now + 1) = S(now) THEN UNCHANGED now ELSE Tick
              /\ out' = [out EXCEPT ![d] = [row |-> ExportedRow(IF read THEN entry[d] ELSE Absent),
                                            forms |-> S(now')]]
              /\ sidecar' = IF saved THEN [sidecar EXCEPT ![d] = S(now')] ELSE sidecar
      BY <2>a, Zenon DEF Export
    <2> DEFINE f == IF read THEN form[d] ELSE Unformed
               p == IF known THEN sidecar[d] ELSE NoForms
               S(t) == StampCharacterForms(f, p, t)
               c == [row |-> ExportedRow(IF read THEN entry[d] ELSE Absent), forms |-> S(now')]
    <2>1. /\ (S(now + 1) = S(now) /\ now' = now) \/ now' = now + 1
          /\ out' = [out EXCEPT ![d] = c]
          /\ sidecar' = [sidecar EXCEPT ![d] = S(now')] \/ sidecar' = sidecar
          /\ bundle' = bundle
      <3>1. bundle' = bundle
        BY <2>a DEF Export
      <3>2. IF S(now + 1) = S(now) THEN UNCHANGED now ELSE Tick
        BY <2>0
      <3>3. /\ out' = [out EXCEPT ![d] = c]
            /\ sidecar' = [sidecar EXCEPT ![d] = S(now')] \/ sidecar' = sidecar
        BY <2>0
      <3> HIDE DEF S, c
      <3> QED BY <3>1, <3>2, <3>3 DEF Tick
    <2>2. S(now') = S(now + 1)
      <3> HIDE DEF S
      <3> QED BY <2>1
    <2>3. f \in LocalForm /\ FormAgrees(f) /\ p \in SyncState /\ (p = sidecar[d] \/ p = NoForms)
      BY <1>1, Empty, Unreadable
    <2>4. \A m \in StampedWidths(p) : Known(m)
      <3> HIDE DEF p
      <3> QED BY <1>2, <1>3, <2>3, NothingKnown
    <2>5. \A m \in StampedWidths(S(now + 1)) : Known(m) \/ m = <<now + 1, f.zero>>
      <3> HIDE DEF f, p
      <3> QED BY <2>3, <2>4, StampingWidths DEF Known
    <2>6. out' = [out EXCEPT ![d] = c] /\ c.forms = S(now + 1)
      <3>1. c.forms = S(now')
        OBVIOUS
      <3> HIDE DEF c, S
      <3> QED BY <2>1, <2>2, <3>1
    <2> HIDE DEF S, c, f, p
    <2>7. \E e : out' = [out EXCEPT ![d] = e] /\ e.forms = S(now + 1)
      BY <2>6
    <2>8. sidecar' = [sidecar EXCEPT ![d] = S(now + 1)] \/ sidecar' = sidecar
      BY <2>1, <2>2
    <2> QED BY <2>1, <2>5, <2>7, <2>8, Replacing
  <1>6. CASE SkipExport(d) \/ Abort(d)
    <2>1. /\ out' = [out EXCEPT ![d] = Nothing] /\ UNCHANGED <<bundle, sidecar>>
          /\ Nothing.forms = NoForms
      BY <1>6 DEF SkipExport, Abort, Finish, files, Nothing
    <2>2. \E c : out' = [out EXCEPT ![d] = c] /\ c.forms = NoForms
      BY <2>1
    <2> QED BY <2>1, <2>2, NothingKnown, Replacing
  <1>7. CASE MergeBundle(d)
    <2> DEFINE x == MergeCharacterForms(bundle.forms, out[d].forms)
               c == [row |-> MergeHistory(bundle.row, out[d].row), forms |-> x]
    <2>1. out' = [out EXCEPT ![d] = c] /\ UNCHANGED <<bundle, sidecar>> /\ c.forms = x
      BY <1>7 DEF MergeBundle, files
    <2>2. \A m \in StampedWidths(x) : Known(m)
      BY <1>1, <1>2, <1>3, MergingWidths
    <2>3. \E e : out' = [out EXCEPT ![d] = e] /\ e.forms = x
      BY <2>1
    <2> HIDE DEF x, c
    <2> QED BY <2>1, <2>2, <2>3, Replacing
  <1>8. CASE WriteBundle(d)
    BY <1>2, <1>3, <1>8, Replacing DEF WriteBundle, files
  <1>9. CASE SaveSidecar(d)
    <2>1. /\ sidecar' = [sidecar EXCEPT ![d] = out[d].forms]
          /\ out' = [out EXCEPT ![d] = Nothing] /\ bundle' = bundle
      BY <1>9 DEF SaveSidecar, Finish
    <2>2. \A s \in States' : s \in States \/ s = NoForms
      <3>1. sidecar \in [Device -> SyncState] /\ out \in [Device -> Content] /\ Nothing.forms = NoForms
        BY DEF IInv, TypeOK, Nothing
      <3> QED BY <2>1, <3>1, <1>2 DEF States
    <2>3. \A s \in States' : \A m \in StampedWidths(s) : Known(m)
      BY <2>2, <1>3, NothingKnown
    <2> QED BY <2>3, Widening
  <1>10. CASE User(d) \/ ImportHistory(d)
    <2>1. UNCHANGED <<bundle, sidecar, out>>
      BY <1>10 DEF User, Use, ClearHistoryEntry, Clear, SetLastNumberStyle, SetCharacterForm,
                   ImportHistory
    <2> QED BY <1>4, <2>1
  <1> QED BY <1>5, <1>6, <1>7, <1>8, <1>9, <1>10 DEF PerformSync

LEMMA WidthsAtFirst == Init => StampIdentifiesWidth
  <1> SUFFICES ASSUME Init, NEW s \in States, NEW m \in StampedWidths(s)
               PROVE  m \in {<<0, "none">>, <<1, "half">>}
    BY DEF StampIdentifiesWidth
  <1>1. s \in {NoForms, SyncedForms}
    <2>1. bundle.forms \in {NoForms, SyncedForms}
      <3>1. PICK synced \in SUBSET Device :
              bundle = IF synced = {} THEN Nothing ELSE [row |-> SyncedRow, forms |-> SyncedForms]
        BY DEF Init
      <3> QED BY <3>1 DEF Nothing
    <2>2. \A d \in Device : sidecar[d] \in {NoForms, SyncedForms}
      BY DEF Init
    <2>3. \A d \in Device : out[d].forms = NoForms
      BY DEF Init, Nothing
    <2> QED BY <2>1, <2>2, <2>3 DEF States
  <1>2. CASE s = NoForms
    BY <1>2 DEF StampedWidths, NoForms, NoZero, NoStyle
  <1>3. CASE s = SyncedForms
    BY <1>3 DEF StampedWidths, SyncedForms
  <1> QED BY <1>1, <1>2, <1>3

\* ReconcileNumberForm and StampCharacterForms: for any number of devices, syncs that overlap
\* and fail anywhere, and stamps that were not remembered, one stamp stands for one width.
THEOREM WidthOfAStamp == Spec => []StampIdentifiesWidth
  <1>1. IInv /\ StampIdentifiesWidth /\ [Next]_vars => StampIdentifiesWidth'
    <2> SUFFICES ASSUME IInv, StampIdentifiesWidth, [Next]_vars
                 PROVE  StampIdentifiesWidth'
      OBVIOUS
    <2>1. CASE Next
      BY <2>1, WidthStep DEF Next
    <2>2. CASE UNCHANGED vars
      BY <2>2 DEF vars, files, StampIdentifiesWidth, States
    <2> QED BY <2>1, <2>2
  <1> QED BY <1>1, WidthsAtFirst, Invariance, PTL DEF Spec

=============================================================================
