----------------------------- MODULE Engine_proofs -----------------------------
(***************************************************************************)
(* For any requests, versions of the file and failures: no reload of the   *)
(* user dictionary is lost between the main thread and the thread that     *)
(* loads it, and what ReloadAndWait waited for stays known through later   *)
(* reloads and through the replacement of the engine.  And for any         *)
(* priorities: the data in use never gives way to worse data, and the best *)
(* request is loaded when the loader thread is gone, unless it came as the *)
(* thread ended.                                                           *)
(***************************************************************************)
EXTENDS Engine, TLAPS, NaturalsInduction, WellFoundedInduction

\* The types of DictionaryTypeOK, without its bounds.
Record == [tokens : Nat, modified_at : Nat, reload_state : {"idle", "running", "pending"},
           thread : {"none", "start", "open", "load", "finish", "exit"},
           opened : Nat, failed : BOOLEAN]
Typed == /\ dict \in [Dictionary -> Record]
         /\ version \in Nat /\ stat \in Nat /\ promised \in Nat

Scheduling(d) == d = "used" /\ main = "schedule"

\* A thread is over if and only if its state is idle, but for the moment in
\* which it is to be scheduled; and while nobody asked again, what the thread
\* has read is what the time stamp promises.
ReloadInv(d) ==
  /\ dict[d].modified_at <= version /\ dict[d].opened <= version
  /\ dict[d].reload_state = "idle" => /\ dict[d].thread \in {"exit", "none"}
                                      /\ Knows(d, dict[d].modified_at)
  /\ dict[d].thread \in {"exit", "none"} => dict[d].reload_state = "idle" \/ Scheduling(d)
  /\ Scheduling(d) => dict[d].thread \in {"exit", "none"} /\ dict[d].reload_state = "pending"
  /\ dict[d].reload_state = "running" =>
       /\ At(d, "load") => dict[d].opened >= dict[d].modified_at
       /\ At(d, "finish") => Knows(d, dict[d].modified_at)

\* What was promised is known or being read.
Kept ==
  /\ At("used", "load") => dict["used"].opened >= promised
  /\ Knows("used", promised) \/ (Big # {} /\ At("used", "load"))

\* A dictionary that has just been taken over need not keep the promise: the
\* main thread waits for its reload before anybody can see it.
PromiseInv ==
  /\ promised <= version /\ stat <= version
  /\ main \in {"schedule", "wait"} => stat = dict["used"].modified_at
  /\ Kept \/ (waits /\ main # "idle")

DictInv == Typed /\ (\A d \in Dictionary : ReloadInv(d)) /\ PromiseInv

-----------------------------------------------------------------------------
(* The steps, as the dictionaries see them.                                *)

\* Init of the handed over modules: the dictionary that was built is used.
TakeOver ==
  /\ Idle /\ dict' = [dict EXCEPT !["used"] = dict["built"], !["built"] = NoDictionary]
  /\ Reload(TRUE) /\ UNCHANGED <<version, fails>>
Build == /\ dict' = [dict EXCEPT !["built"] = Constructed]
         /\ UNCHANGED <<version, main_vars, fails>>
Asked == /\ Idle /\ \E wait \in BOOLEAN : Reload(wait)
         /\ UNCHANGED <<version, dict, fails>>

LEMMA Steps ==
  ASSUME [Next]_vars
  PROVE \/ MainThread \/ \E d \in Dictionary : ReloadThread(d)
        \/ SaveFile \/ TakeOver \/ Build \/ Asked \/ UNCHANGED dictionary_vars
<1> USE DEF dictionary_vars, main_vars, LoaderOnly
<1>1. CASE Loader
  BY <1>1 DEF Loader, GetPendingRequestData, WaitForHighPriority, BuildResponse,
              ReportLoadFailure, ReportLoadSuccess, LoaderExit, Build
<1>2. CASE Background \/ SaveFile
  BY <1>2 DEF Background
<1>3. ASSUME NEW r \in DataRequest, SendEngineReloadRequest(r)
      PROVE UNCHANGED dictionary_vars
  BY <1>3 DEF SendEngineReloadRequest
<1>4. CASE ReloadCommand
  BY <1>4 DEF ReloadCommand, Asked
<1>5. CASE CreateSession
  <2>1. CASE MayUse
    BY <1>5, <2>1 DEF CreateSession, ReloadModules, TakeOver
  <2>2. CASE ~MayUse
    BY <1>5, <2>2 DEF CreateSession
  <2> QED BY <2>1, <2>2
<1>6. CASE DeleteSession
  BY <1>6 DEF DeleteSession
<1>7. CASE UNCHANGED vars
  BY <1>7 DEF vars
<1> QED BY <1>1, <1>2, <1>3, <1>4, <1>5, <1>6, <1>7 DEF Next

-----------------------------------------------------------------------------
(* Init and the steps keep DictInv.                                        *)

LEMMA TypeOfNew == NoDictionary \in Record /\ (version \in Nat => Constructed \in Record)
  BY DEF NoDictionary, Constructed, Record

LEMMA FieldsOfNew == /\ Constructed.modified_at = version /\ Constructed.opened = 0
                     /\ Constructed.reload_state = "pending" /\ Constructed.thread = "start"
  BY DEF NoDictionary, Constructed

LEMMA DictInit == Init => DictInv
<1> SUFFICES ASSUME Init PROVE DictInv
  OBVIOUS
<1> USE UserDictionaryAssumption DEF Init, InitDictionary
<1>1. Typed
  BY TypeOfNew DEF Typed
<1>2. ASSUME NEW d \in Dictionary PROVE ReloadInv(d)
  BY DEF ReloadInv, Knows, At, Scheduling, Dictionary, NoDictionary, Constructed
<1>3. PromiseInv
  <2>1. dict["used"].tokens = 0 /\ dict["used"].thread = "start"
    BY DEF Dictionary, NoDictionary, Constructed
  <2> QED BY <2>1 DEF PromiseInv, Kept, Knows, At
<1> QED BY <1>1, <1>2, <1>3 DEF DictInv

LEMMA KeptByMainThread == DictInv /\ MainThread => DictInv'
<1> SUFFICES ASSUME DictInv, MainThread PROVE DictInv'
  OBVIOUS
<1> USE DEF DictInv
<1>1. Typed'
  <2> USE DEF Typed, Record, Return, Reloaded, Dictionary
  <2>1. CASE Request
    BY <2>1 DEF Request
  <2>2. CASE Schedule
    BY <2>2 DEF Schedule
  <2>3. CASE WaitForReloader
    BY <2>3 DEF WaitForReloader
  <2> QED BY <2>1, <2>2, <2>3 DEF MainThread
<1>2. ASSUME NEW d \in Dictionary PROVE ReloadInv(d)'
  BY DEF Typed, Record, MainThread, Request, Schedule, WaitForReloader, Return, Reloaded, Dictionary,
         ReloadInv, PromiseInv, Knows, At, Scheduling
<1>3. PromiseInv'
  BY DEF Typed, Record, MainThread, Request, Schedule, WaitForReloader, Return, Reloaded, Dictionary,
         ReloadInv, PromiseInv, Knows, At, Scheduling, Kept
<1> QED BY <1>1, <1>2, <1>3

LEMMA KeptByReloadThread ==
  ASSUME DictInv, NEW d \in Dictionary, ReloadThread(d)
  PROVE DictInv'
<1> USE DEF DictInv, ThreadOnly, main_vars
<1>1. Typed'
  <2>1. UNCHANGED <<version, stat, promised>>
    BY DEF ReloadThread, Start, OpenFails, Open, Load, LoadFails, Fail, Finish, Exit
  <2>2. dict' \in [Dictionary -> Record]
    <3>1. \A r \in Record : r.opened \in Nat
      BY DEF Record
    <3>2. \A r \in Record, v \in Nat, t \in Nat :
            /\ [r EXCEPT !.tokens = t, !.opened = 0, !.failed = FALSE, !.thread = "finish"] \in Record
            /\ [r EXCEPT !.opened = v, !.thread = "load", !.tokens = t] \in Record
            /\ [r EXCEPT !.failed = TRUE, !.opened = 0, !.thread = "finish"] \in Record
      BY DEF Record
    <3>3. CASE Open(d)
      <4>1. dict[d].tokens \in Nat /\ (IF dict[d].tokens \in Big THEN 0 ELSE dict[d].tokens) \in Nat
        BY DEF Typed, Record
      <4> QED BY <3>2, <3>3, <4>1 DEF Open, Typed
    <3>4. CASE Load(d)
      BY <3>1, <3>2, <3>4 DEF Load, Typed
    <3>5. CASE OpenFails(d) \/ LoadFails(d)
      <4>1. dict' = [dict EXCEPT ![d] = [dict[d] EXCEPT !.failed = TRUE, !.opened = 0,
                                                        !.thread = "finish"]]
        BY <3>5 DEF OpenFails, LoadFails, Fail, Typed
      <4>2. [dict[d] EXCEPT !.failed = TRUE, !.opened = 0, !.thread = "finish"] \in Record
        BY <3>2 DEF Typed
      <4> QED BY <4>1, <4>2 DEF Typed
    <3>6. CASE Start(d) \/ Exit(d)
      BY <3>6 DEF Start, Exit, Typed, Record
    <3>7. CASE Finish(d)
      BY <3>7 DEF Finish, Typed, Record
    <3> QED BY <3>3, <3>4, <3>5, <3>6, <3>7 DEF ReloadThread
  <2> QED BY <2>1, <2>2 DEF Typed
<1>2. ASSUME NEW e \in Dictionary PROVE ReloadInv(e)'
  BY DEF Typed, Record, ReloadThread, Start, OpenFails, Open, Load, LoadFails, Fail, Finish, Exit,
         ReloadInv, Knows, At, Scheduling
<1>3. PromiseInv'
  BY DEF Typed, Record, ReloadThread, Start, OpenFails, Open, Load, LoadFails, Fail, Finish, Exit,
         PromiseInv, Knows, At, Kept, Dictionary
<1> QED BY <1>1, <1>2, <1>3

LEMMA KeptByTheRest ==
  DictInv /\ (SaveFile \/ TakeOver \/ Build \/ Asked \/ UNCHANGED dictionary_vars) => DictInv'
<1> SUFFICES ASSUME DictInv,
                    SaveFile \/ TakeOver \/ Build \/ Asked \/ UNCHANGED dictionary_vars
             PROVE DictInv'
  OBVIOUS
<1> USE UserDictionaryAssumption DEF DictInv, main_vars, dictionary_vars
<1>0. Dictionary = {"used", "built"}
  BY DEF Dictionary
<1>1. Typed'
  <2> USE DEF Typed
  <2>1. CASE TakeOver \/ Build
    <3>1. \A d \in Dictionary : dict'[d] \in Record
      BY <1>0, <2>1, TypeOfNew DEF TakeOver, Build
    <3>2. dict' \in [Dictionary -> Record]
      BY <3>1, <2>1 DEF TakeOver, Build
    <3> QED BY <3>2, <2>1 DEF TakeOver, Build, Reload
  <2>2. CASE SaveFile
    BY <2>2 DEF SaveFile
  <2>3. CASE Asked \/ UNCHANGED dictionary_vars
    BY <2>3 DEF Asked, Reload
  <2> QED BY <2>1, <2>2, <2>3
<1>2. ASSUME NEW d \in Dictionary PROVE ReloadInv(d)'
  <2> USE DEF Typed, Record, ReloadInv, Knows, At, Scheduling
  <2>1. CASE TakeOver \/ Build
    <3>1. CASE TakeOver
      <4>1. dict'["used"] = dict["built"] /\ dict'["built"] = NoDictionary
        BY <1>0, <3>1 DEF TakeOver
      <4>2. main = "idle" /\ main' = "request" /\ version' = version
        BY <3>1 DEF TakeOver, Idle, Reload
      <4> QED BY <1>0, <4>1, <4>2 DEF NoDictionary
    <3>2. CASE Build
      <4>1. dict'["used"] = dict["used"] /\ dict'["built"] = Constructed
        BY <1>0, <3>2 DEF Build
      <4>2. main' = main /\ version' = version
        BY <3>2 DEF Build
      <4>3. CASE d = "used"
        <5>1. dict'[d] = dict[d]
          BY <4>1, <4>3
        <5> QED BY <4>2, <5>1
      <4>4. CASE d = "built"
        <5>1. /\ dict'[d].modified_at = version /\ dict'[d].opened = 0
              /\ dict'[d].reload_state = "pending" /\ dict'[d].thread = "start"
          BY <4>1, <4>4, FieldsOfNew
        <5>2. version \in Nat
          BY DEF Typed
        <5> QED BY <4>2, <4>4, <5>1, <5>2
      <4> QED BY <1>0, <4>3, <4>4
    <3> QED BY <2>1, <3>1, <3>2
  <2>2. CASE SaveFile
    BY <2>2 DEF SaveFile
  <2>3. CASE Asked \/ UNCHANGED dictionary_vars
    BY <2>3 DEF Asked, Idle, Reload
  <2> QED BY <2>1, <2>2, <2>3
<1>3. PromiseInv'
  BY DEF Typed, Record, SaveFile, TakeOver, Build, Asked, Idle, Reload, NoDictionary, Constructed,
         Dictionary, PromiseInv, Knows, At, Kept
<1> QED BY <1>1, <1>2, <1>3

-----------------------------------------------------------------------------
(* The requests.                                                           *)

\* A set of numbers has a least one.
LEMMA Least ==
  ASSUME NEW I, I \subseteq Nat, I # {}
  PROVE  \E x \in I : \A y \in I : x <= y
<1> DEFINE R == OpToRel(<, Nat)
<1>1. IsWellFoundedOn(R, Nat)
  BY NatLessThanWellFounded
<1>2. \A x, y \in Nat : <<y, x>> \in R <=> y < x
  BY DEF OpToRel
<1> HIDE DEF R
<1>3. PICK x \in I : \A y \in I : ~(<<y, x>> \in R)
  BY <1>1, WFMin
<1>4. ASSUME NEW y \in I PROVE x <= y
  <2>1. ~(<<y, x>> \in R) /\ x \in Nat /\ y \in Nat
    BY <1>3
  <2>2. ~(y < x)
    BY <1>2, <2>1
  <2> QED BY <2>1, <2>2
<1> QED BY <1>4

\* RemoveFirst (std::remove_if on ids that occur once) takes out what it is
\* asked to, and nothing else.
LEMMA Found ==
  ASSUME NEW S, NEW s \in Seq(S), NEW e, \E i \in 1..Len(s) : s[i] = e
  PROVE  LET k == SelectInSeq(s, LAMBDA v : v = e) IN k \in 1..Len(s) /\ s[k] = e
<1> DEFINE I == {i \in 1..Len(s) : s[i] = e}
<1>1. I # {} /\ I \subseteq Nat
  OBVIOUS
<1>2. SelectInSeq(s, LAMBDA v : v = e) = Min(I)
  BY <1>1 DEF SelectInSeq
<1> QED BY <1>1, <1>2, Least DEF Min

LEMMA RemoveFirstIs ==
  ASSUME NEW S, NEW s \in Seq(S), NEW e
  PROVE  /\ RemoveFirst(s, e) \in Seq(S)
         /\ ToSet(s) \ {e} \subseteq ToSet(RemoveFirst(s, e))
         /\ ToSet(RemoveFirst(s, e)) \subseteq ToSet(s)
         /\ IsInjective(s) => /\ IsInjective(RemoveFirst(s, e))
                             /\ e \notin ToSet(RemoveFirst(s, e))
<1>1. CASE ~\E i \in 1..Len(s) : s[i] = e
  BY <1>1 DEF RemoveFirst, ToSet
<1>2. CASE \E i \in 1..Len(s) : s[i] = e
  <2> DEFINE k == SelectInSeq(s, LAMBDA v : v = e)
             r == SubSeq(s, 1, k - 1) \o SubSeq(s, k + 1, Len(s))
  <2>1. k \in 1..Len(s) /\ s[k] = e
    BY <1>2, Found
  <2>2. RemoveFirst(s, e) = r
    BY <1>2 DEF RemoveFirst, RemoveAt
  <2> HIDE DEF k
  <2>3. /\ r \in Seq(S) /\ Len(r) = Len(s) - 1
        /\ \A i \in 1..Len(r) : r[i] = IF i < k THEN s[i] ELSE s[i + 1]
    <3> DEFINE p == SubSeq(s, 1, k - 1)
               q == SubSeq(s, k + 1, Len(s))
    <3>1. p \in Seq(S) /\ Len(p) = k - 1 /\ \A i \in 1..k - 1 : p[i] = s[i]
      BY <2>1
    <3>2. q \in Seq(S) /\ Len(q) = Len(s) - k /\ \A i \in 1..Len(s) - k : q[i] = s[k + i]
      BY <2>1
    <3>5. r = p \o q
      OBVIOUS
    <3> HIDE DEF p, q, r
    <3>3. p \o q \in Seq(S) /\ Len(p \o q) = Len(p) + Len(q)
      BY <3>1, <3>2
    <3>4. ASSUME NEW i \in 1..Len(p \o q)
          PROVE  (p \o q)[i] = IF i < k THEN s[i] ELSE s[i + 1]
      <4>1. (p \o q)[i] = IF i <= Len(p) THEN p[i] ELSE q[i - Len(p)]
        BY <3>1, <3>2, <3>3
      <4>2. CASE i < k
        BY <2>1, <3>1, <4>1, <4>2
      <4>3. CASE i >= k
        <5>1. i - Len(p) \in 1..Len(s) - k /\ k + (i - Len(p)) = i + 1
          BY <2>1, <3>1, <3>2, <3>3, <4>3
        <5> QED BY <2>1, <3>1, <3>2, <4>1, <4>3, <5>1
      <4> QED BY <2>1, <4>2, <4>3
    <3>6. r \in Seq(S) /\ Len(r) = Len(s) - 1
      BY <2>1, <3>1, <3>2, <3>3, <3>5
    <3>7. \A i \in 1..Len(r) : r[i] = IF i < k THEN s[i] ELSE s[i + 1]
      BY <3>4, <3>5
    <3> QED BY <3>6, <3>7
  <2> HIDE DEF r
  <2>4. ASSUME NEW x \in ToSet(s) \ {e} PROVE x \in ToSet(r)
    <3>1. PICK i \in 1..Len(s) : s[i] = x
      BY <2>4 DEF ToSet
    <3>2. CASE i < k
      BY <2>1, <2>3, <3>1, <3>2 DEF ToSet
    <3>3. CASE i > k
      <4>1. i - 1 \in 1..Len(r) /\ r[i - 1] = x
        BY <2>1, <2>3, <3>1, <3>3
      <4> QED BY <2>3, <4>1 DEF ToSet
    <3> QED BY <2>1, <3>1, <3>2, <3>3
  <2>5. ASSUME NEW i \in 1..Len(r) PROVE r[i] \in ToSet(s)
    <3>1. i \in 1..Len(s) /\ i + 1 \in 1..Len(s)
      BY <2>1, <2>3
    <3> QED BY <2>3, <3>1 DEF ToSet
  <2>6. ASSUME IsInjective(s) PROVE IsInjective(r) /\ e \notin ToSet(r)
    <3>1. \A i, j \in 1..Len(s) : s[i] = s[j] => i = j
      BY <2>6 DEF IsInjective
    <3>2. \A i, j \in 1..Len(r) : r[i] = r[j] => i = j
      BY <2>1, <2>3, <3>1
    <3>3. \A i \in 1..Len(r) : r[i] # e
      BY <2>1, <2>3, <3>1
    <3> QED BY <2>3, <3>2, <3>3 DEF IsInjective, ToSet
  <2>7. ToSet(r) \subseteq ToSet(s)
    BY <2>3, <2>5 DEF ToSet
  <2> QED BY <2>2, <2>3, <2>4, <2>6, <2>7
<1> QED BY <1>1, <1>2

\* The front of the sorted requests is one of them, and none is better.
LEMMA BestIs ==
  ASSUME NEW s \in Seq(DataRequest), s # <<>>
  PROVE  Best(s) \in ToSet(s) /\ \A r \in ToSet(s) : Priority[Best(s)] <= Priority[r]
<1> DEFINE D == DOMAIN s
           P(i) == Priority[s[i]]
           T == {i \in D : \A j \in D : P(i) <= P(j)}
           First(i) == \A j \in D : P(i) < P(j) \/ (P(i) = P(j) /\ j <= i)
<1>1. D = 1..Len(s) /\ Len(s) \in Nat /\ Len(s) # 0 /\ \A i \in D : P(i) \in Nat
  BY EngineAssumption
<1>2. T # {}
  <2>1. {P(i) : i \in D} # {} /\ {P(i) : i \in D} \subseteq Nat
    BY <1>1
  <2>2. PICK p \in {P(i) : i \in D} : \A q \in {P(i) : i \in D} : p <= q
    BY <2>1, Least
  <2> QED BY <2>2
<1> HIDE DEF P
<1>3. PICK i \in T : \A j \in T : j <= i
  <2> DEFINE L == {Len(s) - j : j \in T}
  <2>1. L # {} /\ L \subseteq Nat
    BY <1>1, <1>2
  <2>2. PICK l \in L : \A m \in L : l <= m
    BY <2>1, Least
  <2>3. PICK i \in T : l = Len(s) - i
    BY <2>2
  <2>4. \A j \in T : j <= i
    <3> TAKE j \in T
    <3>1. Len(s) - i <= Len(s) - j
      BY <2>2, <2>3
    <3>2. i \in Nat /\ j \in Nat /\ Len(s) \in Nat
      BY <1>1
    <3> HIDE DEF T, D
    <3> QED BY <3>1, <3>2
  <2> QED BY <2>3, <2>4
<1>4. i \in D /\ First(i)
  <2> SUFFICES ASSUME NEW j \in D PROVE P(i) < P(j) \/ (P(i) = P(j) /\ j <= i)
    OBVIOUS
  <2>1. P(i) \in Nat /\ P(j) \in Nat /\ P(i) <= P(j)
    BY <1>1, <1>3
  <2>2. P(i) = P(j) => j \in T
    <3> SUFFICES ASSUME P(i) = P(j), NEW k \in D PROVE P(j) <= P(k)
      OBVIOUS
    <3> QED BY <1>3
  <2> QED BY <1>3, <2>1, <2>2
<1> DEFINE b == CHOOSE k \in D : First(k)
<1>5. b \in D /\ First(b) /\ Best(s) = s[b]
  BY <1>4 DEF Best, P
<1> HIDE DEF b
<1>6. \A j \in D : P(b) <= P(j)
  BY <1>1, <1>5
<1> QED BY <1>5, <1>6 DEF ToSet, P

-----------------------------------------------------------------------------
(* Init and the steps keep LoaderInv.                                      *)

\* The loader works on the best request there was when it looked, which is not
\* worse than what is loaded; what is loaded stays requested, is not worse than
\* what is in use, and is ready or in use.
LoaderInv ==
  /\ requests \in Seq(DataRequest) /\ IsInjective(requests)
  /\ loader \in {"none", "get", "wait", "build", "report", "exit"}
  /\ current_request_id \in ToSet(requests) \cup {NoData}
  /\ loader \in {"wait", "build", "report"} =>
       /\ picked \in ToSet(requests)
       /\ current_request_id # NoData => Priority[picked] <= Priority[current_request_id]
  /\ loader \in {"wait", "build"} => picked # current_request_id
  /\ data \in DataRequest \cup {NoData}
  /\ data # NoData => /\ current_request_id # NoData
                      /\ Priority[current_request_id] <= Priority[data]
  /\ IF loader = "report" THEN loader_response = picked
     ELSE current_request_id = IF loader_response = NoData THEN data ELSE loader_response
  /\ loader \in {"none", "exit"} => Satisfied \/ lost

LEMMA LoaderInit == Init => LoaderInv
  BY DEF Init, LoaderInv, ToSet, IsInjective, Satisfied

\* RegisterRequest: what was requested stays requested.
LEMMA AddedIs ==
  ASSUME requests \in Seq(DataRequest), IsInjective(requests), NEW r \in DataRequest
  PROVE  /\ Added(r) \in Seq(DataRequest) /\ IsInjective(Added(r)) /\ Added(r) # <<>>
         /\ ToSet(requests) \subseteq ToSet(Added(r))
<1> DEFINE s == RemoveFirst(requests, r)
<1>1. /\ s \in Seq(DataRequest) /\ IsInjective(s) /\ r \notin ToSet(s)
      /\ ToSet(requests) \ {r} \subseteq ToSet(s)
  BY RemoveFirstIs
<1> HIDE DEF s
<1>2. /\ Append(s, r) \in Seq(DataRequest) /\ Len(Append(s, r)) = Len(s) + 1
      /\ Append(s, r)[Len(s) + 1] = r
      /\ \A i \in 1..Len(s) : Append(s, r)[i] = s[i]
  BY <1>1
<1>3. Append(s, r) # <<>>
  BY <1>1
<1>4. ToSet(Append(s, r)) = ToSet(s) \cup {r}
  BY <1>1, <1>2 DEF ToSet
<1>5. IsInjective(Append(s, r))
  <2>1. \A i, j \in 1..Len(s) : s[i] = s[j] => i = j
    BY <1>1 DEF IsInjective
  <2>2. \A i \in 1..Len(s) : s[i] # r
    BY <1>1 DEF ToSet
  <2>3. \A i, j \in 1..Len(s) + 1 : Append(s, r)[i] = Append(s, r)[j] => i = j
    BY <1>1, <1>2, <2>1, <2>2
  <2> QED BY <1>2, <2>3 DEF IsInjective
<1>6. Added(r) = Append(s, r)
  BY DEF Added, s
<1> QED BY <1>1, <1>2, <1>3, <1>4, <1>5, <1>6

\* The steps of the loader, and of the commands.
LEMMA LoaderKeeps == LoaderInv /\ Loader => LoaderInv'
<1> SUFFICES ASSUME LoaderInv, Loader PROVE LoaderInv'
  OBVIOUS
<1> USE EngineAssumption DEF LoaderInv, LoaderOnly
<1>0. ToSet(requests) \subseteq DataRequest
  BY DEF ToSet
<1>1. CASE GetPendingRequestData
  <2>1. CASE Satisfied
    BY <1>1, <2>1 DEF GetPendingRequestData, Satisfied
  <2>2. CASE ~Satisfied
    <3>1. /\ picked' = Best(requests) /\ picked' # current_request_id
          /\ UNCHANGED <<requests, current_request_id, loader_response, data, lost>>
          /\ loader' \in {"wait", "build"}
      BY <1>1, <2>2 DEF GetPendingRequestData, Satisfied
    <3>2. /\ picked' \in ToSet(requests)
          /\ current_request_id # NoData => Priority[picked'] <= Priority[current_request_id]
      BY <2>2, <3>1, BestIs DEF Satisfied
    <3> QED BY <1>1, <3>1, <3>2 DEF GetPendingRequestData
  <2> QED BY <2>1, <2>2
<1>2. CASE WaitForHighPriority
  BY <1>2 DEF WaitForHighPriority
<1>3. CASE BuildResponse
  BY <1>3 DEF BuildResponse
<1>4. CASE ReportLoadFailure
  <2>1. /\ requests' \in Seq(DataRequest) /\ IsInjective(requests')
        /\ ToSet(requests) \ {picked} \subseteq ToSet(requests')
    BY <1>4, RemoveFirstIs DEF ReportLoadFailure
  <2> QED BY <1>4, <2>1 DEF ReportLoadFailure
<1>5. CASE ReportLoadSuccess
  BY <1>0, <1>5 DEF ReportLoadSuccess
<1>6. CASE LoaderExit
  BY <1>6 DEF LoaderExit, Satisfied
<1> QED BY <1>1, <1>2, <1>3, <1>4, <1>5, <1>6 DEF Loader

LEMMA CommandsKeep == LoaderInv /\ Next /\ ~Loader => LoaderInv'
<1> SUFFICES ASSUME LoaderInv, Next, ~Loader PROVE LoaderInv'
  OBVIOUS
<1> USE EngineAssumption DEF LoaderInv
<1>1. CASE UNCHANGED loader_vars
  BY <1>1 DEF loader_vars, Satisfied
<1>2. ASSUME NEW r \in DataRequest, SendEngineReloadRequest(r) PROVE LoaderInv'
  <2>1. /\ requests' \in Seq(DataRequest) /\ IsInjective(requests') /\ requests' # <<>>
        /\ ToSet(requests) \subseteq ToSet(requests')
    BY <1>2, AddedIs DEF SendEngineReloadRequest
  <2>2. UNCHANGED <<current_request_id, picked, loader_response, data>>
    BY <1>2 DEF SendEngineReloadRequest
  <2>3. /\ loader' = loader \/ (loader = "none" /\ loader' = "get")
        /\ loader' \in {"none", "exit"} => Satisfied' \/ lost'
    BY <1>2 DEF SendEngineReloadRequest, Satisfied
  <2> QED BY <2>1, <2>2, <2>3
<1>3. CASE CreateSession
  <2>1. /\ UNCHANGED <<requests, current_request_id, loader, picked, lost>>
        /\ \/ UNCHANGED <<data, loader_response>>
           \/ /\ loader = "none" /\ loader_response # NoData
              /\ data' = loader_response /\ loader_response' = NoData
    BY <1>3 DEF CreateSession, MayUse, ReloadModules
  <2>2. current_request_id \in DataRequest \cup {NoData}
    BY DEF ToSet
  <2> QED BY <2>1, <2>2 DEF Satisfied
<1>4. CASE DeleteSession
  BY <1>4 DEF DeleteSession, Satisfied
<1> QED BY <1>1, <1>2, <1>3, <1>4 DEF Next, ReloadCommand

LEMMA LoaderInductive == LoaderInv /\ [Next]_vars => LoaderInv'
<1>1. LoaderInv /\ UNCHANGED vars => LoaderInv'
  BY DEF vars, loader_vars, LoaderInv, Satisfied
<1> QED BY <1>1, LoaderKeeps, CommandsKeep

-----------------------------------------------------------------------------
(* The types.                                                              *)

\* DictionaryTypeOK, with the fields of a dictionary apart.
Versions == 0..MaxVersion
Fields == [tokens : Versions, modified_at : Versions,
           reload_state : {"idle", "running", "pending"},
           thread : {"none", "start", "open", "load", "finish", "exit"},
           opened : Versions, failed : BOOLEAN]

LEMMA TypesOf == DictionaryTypeOK <=>
  /\ version \in 1..MaxVersion /\ dict \in [Dictionary -> Fields]
  /\ main \in {"idle", "request", "schedule", "wait"} /\ waits \in BOOLEAN
  /\ stat \in Versions /\ promised \in Versions
  /\ fails \in 0..MaxFail
  BY DEF DictionaryTypeOK, Versions, Fields

LEMMA VersionsIs == 0 \in Versions /\ (version \in 1..MaxVersion => version \in Versions)
  BY UserDictionaryAssumption DEF Versions

LEMMA NewFields == version \in Versions => NoDictionary \in Fields /\ Constructed \in Fields
  BY VersionsIs DEF NoDictionary, Constructed, Fields

LEMMA TypeInit == Init => TypeOK
<1> SUFFICES ASSUME Init PROVE TypeOK
  OBVIOUS
<1> USE DEF Init, InitDictionary
<1>1. DictionaryTypeOK
  <2>1. version \in 1..MaxVersion /\ fails \in 0..MaxFail
    BY UserDictionaryAssumption
  <2> QED BY <2>1, TypesOf, VersionsIs, NewFields
<1>2. ToSet(requests) \subseteq DataRequest /\ IsInjective(requests)
  BY DEF ToSet, IsInjective
<1> QED BY <1>1, <1>2 DEF TypeOK

LEMMA DictionaryTypes == DictionaryTypeOK /\ [Next]_vars => DictionaryTypeOK'
<1> SUFFICES ASSUME DictionaryTypeOK, [Next]_vars PROVE DictionaryTypeOK'
  OBVIOUS
<1> DEFINE T == /\ version \in 1..MaxVersion /\ dict \in [Dictionary -> Fields]
                /\ main \in {"idle", "request", "schedule", "wait"} /\ waits \in BOOLEAN
                /\ stat \in Versions /\ promised \in Versions
                /\ fails \in 0..MaxFail
<1>0. T /\ version \in Versions /\ 0 \in Versions /\ "used" \in Dictionary
  BY TypesOf, VersionsIs DEF Dictionary
<1> SUFFICES T'
  BY TypesOf DEF Versions, Fields, DictionaryTypeOK
<1> USE <1>0 DEF main_vars
<1>1. CASE MainThread
  <2>1. dict' \in [Dictionary -> Fields]
    BY <1>1 DEF MainThread, Request, Schedule, WaitForReloader, Fields
  <2> QED BY <1>1, <2>1 DEF MainThread, Request, Schedule, WaitForReloader, Return, Reloaded
<1>2. ASSUME NEW d \in Dictionary, ReloadThread(d) PROVE T'
  <2>0. dict[d] \in Fields /\ dict[d].opened \in Versions /\ dict[d].tokens \in Versions
    BY DEF Fields
  <2>1. dict' \in [Dictionary -> Fields]
    <3>1. CASE Open(d)
      <4>1. \A t \in Versions : [dict[d] EXCEPT !.opened = version, !.thread = "load",
                                                !.tokens = t] \in Fields
        BY <2>0 DEF Fields
      <4>2. (IF dict[d].tokens \in Big THEN 0 ELSE dict[d].tokens) \in Versions
        BY <2>0
      <4>3. dict' = [dict EXCEPT ![d] = [dict[d] EXCEPT !.opened = version, !.thread = "load",
                         !.tokens = IF dict[d].tokens \in Big THEN 0 ELSE dict[d].tokens]]
        BY <3>1 DEF Open
      <4> QED BY <4>1, <4>2, <4>3
    <3>2. CASE Load(d)
      <4>1. [dict[d] EXCEPT !.tokens = dict[d].opened, !.opened = 0, !.failed = FALSE,
                            !.thread = "finish"] \in Fields
        BY <2>0 DEF Fields
      <4> QED BY <3>2, <4>1 DEF Load
    <3>3. CASE OpenFails(d) \/ LoadFails(d)
      <4>1. [dict[d] EXCEPT !.failed = TRUE, !.opened = 0, !.thread = "finish"] \in Fields
        BY <2>0 DEF Fields
      <4> QED BY <3>3, <4>1 DEF OpenFails, LoadFails, Fail
    <3>4. CASE Start(d) \/ Finish(d) \/ Exit(d)
      BY <2>0, <3>4 DEF Start, Finish, Exit, Fields
    <3> QED BY <1>2, <3>1, <3>2, <3>3, <3>4 DEF ReloadThread
  <2>2. fails' \in 0..MaxFail /\ UNCHANGED <<version, main_vars>>
    <3>1. UNCHANGED fails \/ (fails < MaxFail /\ fails' = fails + 1)
      BY <1>2 DEF ReloadThread, Start, OpenFails, Open, Load, LoadFails, Fail, Finish, Exit
    <3> QED BY <1>2, <3>1, UserDictionaryAssumption DEF ReloadThread, Start, OpenFails, Open, Load,
               LoadFails, Fail, Finish, Exit, ThreadOnly
  <2> QED BY <2>1, <2>2
<1>3. CASE TakeOver \/ Build
  <2>1. dict' \in [Dictionary -> Fields]
    BY <1>3, NewFields DEF TakeOver, Build, Dictionary
  <2> QED BY <1>3, <2>1 DEF TakeOver, Build, Reload
<1>4. CASE SaveFile
  BY <1>4, UserDictionaryAssumption DEF SaveFile
<1>5. CASE Asked \/ UNCHANGED dictionary_vars
  BY <1>5 DEF Asked, Reload, dictionary_vars
<1> QED BY <1>1, <1>2, <1>3, <1>4, <1>5, Steps

LEMMA LoaderTypes == TypeOK /\ LoaderInv /\ LoaderInv' /\ [Next]_vars => TypeOK'
<1> SUFFICES ASSUME TypeOK, LoaderInv, LoaderInv', [Next]_vars PROVE TypeOK'
  OBVIOUS
<1>1. DictionaryTypeOK'
  BY DictionaryTypes DEF TypeOK
<1>2. (ToSet(requests) \subseteq DataRequest)' /\ IsInjective(requests)'
  BY DEF LoaderInv, ToSet
<1>3. (current_request_id \in DataRequest \cup {NoData})'
  BY <1>2 DEF LoaderInv
<1>4. picked' \in DataRequest \cup {NoData}
  <2>1. loader' \in {"wait", "build", "report"} => picked' \in DataRequest
    BY <1>2 DEF LoaderInv
  <2>2. picked' # picked => picked' = NoData \/ loader' \in {"wait", "build"}
    BY DEF Next, vars, loader_vars, Loader, GetPendingRequestData, WaitForHighPriority,
           BuildResponse, ReportLoadFailure, ReportLoadSuccess, LoaderExit,
           SendEngineReloadRequest, ReloadCommand, CreateSession, DeleteSession
  <2> QED BY <2>1, <2>2 DEF TypeOK
<1>5. /\ unregistered' \subseteq DataRequest
      /\ loader_response' \in DataRequest \cup {NoData}
      /\ sessions' \in BOOLEAN /\ lost' \in BOOLEAN /\ high_registered' \in BOOLEAN
  <2>1. picked \in DataRequest \/ loader # "build"
    BY DEF LoaderInv, TypeOK
  <2> QED BY <2>1 DEF TypeOK, Next, vars, loader_vars, Loader, GetPendingRequestData,
           WaitForHighPriority, BuildResponse, ReportLoadFailure, ReportLoadSuccess, LoaderExit,
           LoaderOnly, SendEngineReloadRequest, ReloadCommand, CreateSession, DeleteSession,
           ReloadModules
<1> QED BY <1>1, <1>2, <1>3, <1>4, <1>5 DEF TypeOK, LoaderInv

-----------------------------------------------------------------------------
(* The theorems.                                                           *)

\* What the two threads agree on holds in every reachable state.
THEOREM Agreement == Spec => []DictInv
<1>1. DictInv /\ [Next]_vars => DictInv'
  BY Steps, KeptByMainThread, KeptByReloadThread, KeptByTheRest
<1> QED BY DictInit, <1>1, PTL DEF Spec

\* No request to reload is lost between the threads.
THEOREM ReloadsAreServed == Spec => []NoReloadLost
<1>1. DictInv => NoReloadLost
  BY DEF DictInv, NoReloadLost, ReloadInv, At, Scheduling
<1> QED BY Agreement, <1>1, PTL

\* What ReloadAndWait waited for stays known.
THEOREM PromisesAreKept == Spec => []PromiseKept
<1>1. DictInv => PromiseKept
  BY DEF DictInv, PromiseKept, PromiseInv, Kept
<1> QED BY Agreement, <1>1, PTL

\* What the loader, the requests and the data in use agree on holds in every
\* reachable state.
THEOREM LoaderAgrees == Spec => []LoaderInv
  BY LoaderInit, LoaderInductive, PTL DEF Spec

\* When the loader thread is gone the best request is loaded, or a request came
\* as the thread ended; and what was loaded is in use or ready.
THEOREM BestLoaded == Spec => []BestIsLoaded
<1>1. LoaderInv => BestIsLoaded
  BY DEF LoaderInv, BestIsLoaded
<1> QED BY LoaderAgrees, <1>1, PTL

\* The data in use never gives way to data of lower priority.
THEOREM NoDowngrade == Spec => NeverDowngrades
<1>1. LoaderInv /\ [Next]_vars =>
        [data' # data /\ data # NoData => Priority[data'] <= Priority[data]]_vars
  <2> SUFFICES ASSUME LoaderInv, [Next]_vars, data' # data, data # NoData
               PROVE  Priority[data'] <= Priority[data]
    OBVIOUS
  <2>1. loader = "none" /\ loader_response # NoData /\ data' = loader_response
    BY DEF Next, vars, loader_vars, Loader, GetPendingRequestData, WaitForHighPriority, BuildResponse,
           ReportLoadFailure, ReportLoadSuccess, LoaderExit, LoaderOnly, SendEngineReloadRequest,
           ReloadCommand, CreateSession, DeleteSession, MayUse, ReloadModules
  <2> QED BY <2>1 DEF LoaderInv
<1> QED BY LoaderAgrees, <1>1, PTL DEF Spec, NeverDowngrades

\* The variables have their types.
THEOREM Typing == Spec => []TypeOK
  BY TypeInit, LoaderAgrees, LoaderTypes, PTL DEF Spec
===============================================================================
