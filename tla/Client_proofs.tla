---------------------------- MODULE Client_proofs ----------------------------
(***************************************************************************)
(* Theorems about Client.                                                  *)
(***************************************************************************)
EXTENDS Client, SequenceTheorems, FiniteSetTheorems, NaturalsInduction, WellFoundedInduction, TLAPS

-----------------------------------------------------------------------------
(* What a key makes of a session, and the keys of the journal.             *)

\* Nothing is converted where nothing is composed.
Coherent(s) == s \in SessionRecord /\ (s.converting => s.text # <<>>)
Same(s, r) == s.text = r.text /\ s.converting = r.converting

LEMMA Keys == /\ Character \subseteq Nat /\ Convert \notin Character
              /\ Enter \notin Character /\ Submit \notin Character
              /\ Convert # Enter /\ Convert # Submit /\ Enter # Submit
  BY SessionHandlerAssumption DEF Character, Convert, Enter, Submit

LEMMA AfterCharacter ==
  ASSUME NEW s, Coherent(s), NEW k \in Character
  PROVE  /\ Coherent(After(s, k)) /\ After(s, k).app = s.app
         /\ After(s, k).text = IF s.converting THEN <<k>> ELSE Append(s.text, k)
         /\ ~After(s, k).converting
         /\ Result(s, k) = IF s.converting THEN s.text ELSE <<>>
         /\ Consumed(s, k)
<1>1. s.text \in Seq(Character) /\ s \in SessionRecord
  BY DEF Coherent, SessionRecord
<1>2. k # Convert /\ k \notin {Enter, Submit}
  BY Keys
<1>3. After(s, k) = [s EXCEPT !.text = IF s.converting THEN <<k>> ELSE Append(s.text, k),
                              !.converting = FALSE]
  BY <1>2 DEF After
<1>4. (IF s.converting THEN <<k>> ELSE Append(s.text, k)) \in Seq(Character)
  BY <1>1
<1> QED BY <1>1, <1>2, <1>3, <1>4 DEF Coherent, SessionRecord, Result, Consumed

LEMMA AfterOther ==
  ASSUME NEW s, Coherent(s), NEW k \in {Convert, Enter, Submit}
  PROVE  /\ Coherent(After(s, k)) /\ After(s, k).app = s.app
         /\ After(s, k).text = IF k = Convert THEN s.text ELSE <<>>
         /\ After(s, k).converting = (k = Convert /\ s.text # <<>>)
         /\ Result(s, k) = IF k = Convert THEN <<>> ELSE s.text
         /\ Consumed(s, k) <=> s.text # <<>>
<1>1. s.text \in Seq(Character) /\ s \in SessionRecord
  BY DEF Coherent, SessionRecord
<1>2. k \notin Character /\ (k = Convert => k \notin {Enter, Submit})
  BY Keys
<1>3. After(s, k) = [s EXCEPT !.text = IF k = Convert THEN s.text ELSE <<>>,
                              !.converting = (k = Convert /\ s.text # <<>>)]
  BY <1>2 DEF After
<1>4. (IF k = Convert THEN s.text ELSE <<>>) \in Seq(Character)
  BY <1>1
<1> QED BY <1>1, <1>2, <1>3, <1>4 DEF Coherent, SessionRecord, Result, Consumed

LEMMA AfterCoherent ==
  ASSUME NEW s, Coherent(s), NEW k \in Key
  PROVE  /\ Coherent(After(s, k)) /\ After(s, k).app = s.app
         /\ Result(s, k) \in Seq(Character)
<1>0. s.text \in Seq(Character) /\ <<>> \in Seq(Character)
  BY DEF Coherent, SessionRecord
<1>1. CASE k \in Character
  <2>1. /\ Coherent(After(s, k)) /\ After(s, k).app = s.app
        /\ Result(s, k) = IF s.converting THEN s.text ELSE <<>>
    BY <1>1, AfterCharacter
  <2> QED BY <1>0, <2>1
<1>2. CASE k \in {Convert, Enter, Submit}
  <2>1. /\ Coherent(After(s, k)) /\ After(s, k).app = s.app
        /\ Result(s, k) = IF k = Convert THEN <<>> ELSE s.text
    BY <1>2, AfterOther
  <2> QED BY <1>0, <2>1
<1> QED BY <1>1, <1>2 DEF Key

\* What a key makes of a session depends on nothing but its composition.
LEMMA AfterSame ==
  ASSUME NEW s, NEW r, Coherent(s), Coherent(r), Same(s, r), NEW k \in Key
  PROVE  Same(After(s, k), After(r, k))
<1>1. CASE k \in Character
  <2>1. \A t \in {s, r} : /\ After(t, k).text = IF t.converting THEN <<k>> ELSE Append(t.text, k)
                          /\ ~After(t, k).converting /\ After(t, k).converting \in BOOLEAN
    BY <1>1, AfterCharacter DEF Coherent, SessionRecord
  <2> QED BY <2>1 DEF Same
<1>2. CASE k \in {Convert, Enter, Submit}
  <2>1. \A t \in {s, r} : /\ After(t, k).text = IF k = Convert THEN t.text ELSE <<>>
                          /\ After(t, k).converting = (k = Convert /\ t.text # <<>>)
    BY <1>2, AfterOther
  <2> QED BY <2>1 DEF Same
<1> QED BY <1>1, <1>2 DEF Key

LEMMA NewIsCoherent ==
  ASSUME NEW a \in App \cup {Other}
  PROVE  /\ Coherent(NewSession(a)) /\ NewSession(a).app = a
         /\ NewSession(a).text = <<>> /\ ~NewSession(a).converting
  BY DEF Coherent, NewSession, SessionRecord

-----------------------------------------------------------------------------
(* Playing inputs back: the recursion of Replaying has one solution.       *)

LEMMA Least ==
  ASSUME NEW I, I \subseteq Nat, I # {}
  PROVE  \E x \in I : \A y \in I : x <= y
<1> DEFINE R == OpToRel(<, Nat)
<1>1. IsWellFoundedOn(R, Nat)
  BY NatLessThanWellFounded
<1>2. \A x, y \in Nat : <<y, x>> \in R <=> y < x
  BY DEF OpToRel
<1> HIDE DEF R
<1>3. PICK x \in I : \A y \in I : ~(<<y, x>> \in R)
  BY <1>1, WFMin
<1>4. ASSUME NEW y \in I PROVE x <= y
  <2>1. ~(<<y, x>> \in R) /\ x \in Nat /\ y \in Nat
    BY <1>3
  <2>2. ~(y < x)
    BY <1>2, <2>1
  <2> QED BY <2>1, <2>2
<1> QED BY <1>4

Plays(R, h, m) ==
  R = [n \in 0..m |-> IF n = 0 THEN NewSession(Other) ELSE After(R[n - 1], h[n])]

LEMMA PlaysExists ==
  ASSUME NEW h, NEW m \in Nat
  PROVE  \E R : Plays(R, h, m)
<1> DEFINE Bad == {l \in Nat : ~\E R : Plays(R, h, l)}
<1> SUFFICES ASSUME Bad # {} PROVE FALSE
  OBVIOUS
<1>1. PICK l \in Bad : \A k \in Bad : l <= k
  BY Least
<1>2. l # 0
  <2> DEFINE R == [n \in 0..0 |-> NewSession(Other)]
  <2>1. Plays(R, h, 0)
    BY DEF Plays
  <2> QED BY <1>1, <2>1
<1>3. l - 1 \in Nat /\ l - 1 \notin Bad
  BY <1>1, <1>2
<1>4. PICK Q : Plays(Q, h, l - 1)
  BY <1>3
<1> DEFINE R == [n \in 0..l |-> IF n < l THEN Q[n] ELSE After(Q[l - 1], h[l])]
<1>5. ASSUME NEW n \in 0..l
      PROVE  R[n] = IF n = 0 THEN NewSession(Other) ELSE After(R[n - 1], h[n])
  <2>1. CASE n < l
    <3>1. Q[n] = IF n = 0 THEN NewSession(Other) ELSE After(Q[n - 1], h[n])
      BY <1>1, <1>3, <1>4, <2>1 DEF Plays
    <3>2. n # 0 => R[n - 1] = Q[n - 1]
      BY <1>1, <2>1
    <3> QED BY <2>1, <3>1, <3>2
  <2>2. CASE n = l
    <3>1. R[l - 1] = Q[l - 1] /\ R[l] = After(Q[l - 1], h[l])
      BY <1>1, <1>2
    <3> QED BY <1>2, <2>2, <3>1
  <2> QED BY <1>1, <2>1, <2>2
<1>6. Plays(R, h, l)
  BY <1>5 DEF Plays
<1> QED BY <1>1, <1>6

LEMMA PlaysUnique ==
  ASSUME NEW g, NEW h, NEW l \in Nat, NEW m \in Nat, NEW Q, NEW R, Plays(Q, g, l), Plays(R, h, m),
         NEW n \in Nat, n <= l, n <= m, \A i \in 1..n : g[i] = h[i]
  PROVE  Q[n] = R[n]
<1> DEFINE Bad == {i \in 0..n : Q[i] # R[i]}
<1>1. Bad = {}
  <2> SUFFICES ASSUME Bad # {} PROVE FALSE
    OBVIOUS
  <2>0. Bad \subseteq Nat
    OBVIOUS
  <2>1. PICK i \in Bad : \A j \in Bad : i <= j
    <3> HIDE DEF Bad
    <3> QED BY <2>0, Least
  <2>2. /\ Q[i] = IF i = 0 THEN NewSession(Other) ELSE After(Q[i - 1], g[i])
        /\ R[i] = IF i = 0 THEN NewSession(Other) ELSE After(R[i - 1], h[i])
    BY <2>1 DEF Plays
  <2>3. i # 0
    BY <2>1, <2>2
  <2>4. i - 1 \notin Bad /\ i - 1 \in 0..n /\ i \in 1..n
    BY <2>1, <2>3
  <2>5. Q[i - 1] = R[i - 1] /\ g[i] = h[i]
    BY <2>4
  <2> QED BY <2>1, <2>2, <2>3, <2>5
<1> QED BY <1>1

LEMMA ReplayingIs ==
  ASSUME NEW h \in Seq(Key)
  PROVE  Plays(Replaying(h), h, Len(h))
<1>1. \E R : Plays(R, h, Len(h))
  BY PlaysExists
<1> QED BY <1>1 DEF Replaying, Plays

LEMMA ReplayingSteps ==
  ASSUME NEW h \in Seq(Key)
  PROVE  /\ Replaying(h)[0] = NewSession(Other)
         /\ \A n \in 0..Len(h) - 1 : Replaying(h)[n + 1] = After(Replaying(h)[n], h[n + 1])
<1>1. \A n \in 0..Len(h) : Replaying(h)[n] =
         IF n = 0 THEN NewSession(Other) ELSE After(Replaying(h)[n - 1], h[n])
  BY ReplayingIs DEF Plays
<1>2. ASSUME NEW n \in 0..Len(h) - 1
      PROVE  Replaying(h)[n + 1] = After(Replaying(h)[n], h[n + 1])
  <2>1. n + 1 \in 0..Len(h) /\ n + 1 # 0 /\ (n + 1) - 1 = n
    OBVIOUS
  <2> QED BY <1>1, <2>1
<1>3. 0 \in 0..Len(h)
  OBVIOUS
<1> QED BY <1>1, <1>2, <1>3

LEMMA ReplayingCoherent ==
  ASSUME NEW h \in Seq(Key), NEW n \in 0..Len(h)
  PROVE  Coherent(Replaying(h)[n])
<1> DEFINE Bad == {i \in 0..Len(h) : ~Coherent(Replaying(h)[i])}
<1> SUFFICES ASSUME Bad # {} PROVE FALSE
  OBVIOUS
<1>0. Bad \subseteq Nat
  OBVIOUS
<1>1. PICK i \in Bad : \A j \in Bad : i <= j
  <2> HIDE DEF Bad
  <2> QED BY <1>0, Least
<1>2. i # 0
  BY <1>1, ReplayingSteps, NewIsCoherent
<1>3. i - 1 \in 0..Len(h) - 1 /\ i - 1 \in 0..Len(h) /\ i - 1 \notin Bad /\ (i - 1) + 1 = i
  BY <1>1, <1>2
<1>4. Replaying(h)[i] = After(Replaying(h)[i - 1], h[i])
  BY <1>3, ReplayingSteps
<1>5. h[i] \in Key
  BY <1>1, <1>2
<1> QED BY <1>1, <1>3, <1>4, <1>5, AfterCoherent

LEMMA ReplayedIs ==
  /\ Replayed(<<>>) = NewSession(Other)
  /\ \A h \in Seq(Key), k \in Key : /\ Coherent(Replayed(h))
                                    /\ Replayed(Append(h, k)) = After(Replayed(h), k)
<1>1. Replayed(<<>>) = NewSession(Other)
  <2>1. <<>> \in Seq(Key) /\ Len(<<>>) = 0
    OBVIOUS
  <2> QED BY <2>1, ReplayingSteps DEF Replayed
<1>2. ASSUME NEW h \in Seq(Key), NEW k \in Key
      PROVE  Coherent(Replayed(h)) /\ Replayed(Append(h, k)) = After(Replayed(h), k)
  <2> DEFINE g == Append(h, k)
  <2>1. /\ g \in Seq(Key) /\ Len(g) = Len(h) + 1 /\ g[Len(h) + 1] = k
        /\ \A i \in 1..Len(h) : g[i] = h[i]
    OBVIOUS
  <2> HIDE DEF g
  <2>2. Replaying(g)[Len(h)] = Replaying(h)[Len(h)]
    BY <2>1, ReplayingIs, PlaysUnique
  <2>3. Replaying(g)[Len(h) + 1] = After(Replaying(g)[Len(h)], k)
    BY <2>1, ReplayingSteps
  <2>4. Coherent(Replayed(h))
    BY ReplayingCoherent DEF Replayed
  <2> QED BY <2>1, <2>2, <2>3, <2>4 DEF Replayed, g
<1> QED BY <1>1, <1>2

-----------------------------------------------------------------------------
(* The session map.                                                        *)

MapInv ==
  /\ Ids \subseteq SessionID /\ Cardinality(Ids) <= MaxSessions
  /\ session_map \in [Ids -> SessionRecord] /\ lru \in [Ids -> 1..MaxSessions]
  /\ \A i \in Ids : session_map[i].converting => session_map[i].text # <<>>

LEMMA IDs == IsFiniteSet(SessionID) /\ SessionID \subseteq Nat /\ 0 \notin SessionID
             /\ Cardinality(SessionID) = MaxSessions + Cardinality(App) + 1
             /\ Cardinality(App) \in Nat
<1>1. Cardinality(App) \in Nat
  BY FS_CardinalityType, SessionHandlerAssumption
<1> DEFINE n == MaxSessions + Cardinality(App) + 1
<1>2. n \in Nat /\ n >= 1 /\ 1 \in Int /\ n \in Int
  BY <1>1, SessionHandlerAssumption
<1> HIDE DEF n
<1>3. IsFiniteSet(1..n) /\ Cardinality(1..n) = n
  <2>1. IsFiniteSet(1..n) /\ Cardinality(1..n) = IF 1 > n THEN 0 ELSE n - 1 + 1
    BY <1>2, FS_Interval
  <2> QED BY <1>2, <2>1
<1>4. SessionID = 1..n
  BY DEF SessionID, n
<1> QED BY <1>1, <1>2, <1>3, <1>4 DEF n

LEMMA PlacesIs ==
  ASSUME NEW ids, ids \subseteq SessionID, Cardinality(ids) <= MaxSessions,
         NEW at, \A i \in ids : at[i] \in Nat
  PROVE  Places(ids, at) \in [ids -> 1..MaxSessions]
<1>1. IsFiniteSet(ids) /\ Cardinality(ids) \in Nat
  BY IDs, FS_Subset, FS_CardinalityType
<1>2. ASSUME NEW i \in ids
      PROVE  Cardinality({j \in ids : at[j] <= at[i]}) \in 1..MaxSessions
  <2> DEFINE B == {j \in ids : at[j] <= at[i]}
  <2>1. B \in SUBSET ids /\ i \in B
    OBVIOUS
  <2> HIDE DEF B
  <2>2. IsFiniteSet(B) /\ Cardinality(B) <= Cardinality(ids) /\ Cardinality(B) \in Nat
    BY <1>1, <2>1, FS_Subset, FS_CardinalityType
  <2>3. Cardinality(B) # 0
    BY <2>1, <2>2, FS_EmptySet
  <2> QED BY <1>1, <2>2, <2>3, SessionHandlerAssumption DEF B
<1> QED BY <1>2 DEF Places

LEMMA NewestIs ==
  ASSUME MapInv, NEW id, NEW ids, ids \subseteq SessionID, ids \subseteq Ids \cup {id},
         Cardinality(ids) <= MaxSessions
  PROVE  Newest(id, ids) \in [ids -> 1..MaxSessions]
<1> DEFINE at == [i \in ids |-> IF i = id THEN MaxSessions + 1 ELSE lru[i]]
<1>1. \A i \in ids : at[i] \in Nat
  BY SessionHandlerAssumption DEF MapInv
<1> HIDE DEF at
<1>2. Places(ids, at) \in [ids -> 1..MaxSessions]
  BY <1>1, PlacesIs
<1> QED BY <1>2 DEF Newest, at

LEMMA OldestIs ==
  ASSUME MapInv, Ids # {}
  PROVE  Oldest \in Ids
<1> DEFINE L == {lru[i] : i \in Ids}
<1>1. L \subseteq Nat /\ L # {}
  BY DEF MapInv
<1>2. PICK l \in L : \A m \in L : l <= m
  BY <1>1, Least
<1>3. \E i \in Ids : \A j \in Ids : lru[i] <= lru[j]
  BY <1>2
<1> QED BY <1>3 DEF Oldest

LEMMA FreeIs ==
  ASSUME NEW used, \E id \in SessionID : id \notin used
  PROVE  FreeID(used) \in SessionID \ used
<1>1. PICK id \in SessionID \ used : \A j \in SessionID \ used : id <= j
  <2>1. SessionID \ used \subseteq Nat /\ SessionID \ used # {}
    BY IDs
  <2> QED BY <2>1, Least
<1> QED BY <1>1 DEF FreeID

LEMMA NewIDIs ==
  ASSUME MapInv
  PROVE  NewID \in SessionID /\ NewID \notin Ids /\ \A d \in App : NewID # session_id[d]
<1> DEFINE held == {session_id[d] : d \in App}
<1>1. IsFiniteSet(held) /\ Cardinality(held) <= Cardinality(App) /\ Cardinality(held) \in Nat
  <2> DEFINE f == [d \in App |-> session_id[d]]
  <2>1. f \in Surjection(App, held)
    BY DEF Surjection
  <2> QED BY <2>1, FS_Surjection, FS_CardinalityType, SessionHandlerAssumption
<1>2. IsFiniteSet(Ids) /\ Cardinality(Ids) \in Nat /\ Cardinality(Ids) <= MaxSessions
  BY IDs, FS_Subset, FS_CardinalityType DEF MapInv
<1>3. IsFiniteSet(Used) /\ Cardinality(Used) <= MaxSessions + Cardinality(App)
  <2>1. Used = Ids \cup held
    BY DEF Used
  <2> HIDE DEF held
  <2>2. /\ IsFiniteSet(Ids \cup held)
        /\ Cardinality(Ids \cup held) =
             Cardinality(Ids) + Cardinality(held) - Cardinality(Ids \cap held)
    BY <1>1, <1>2, FS_Union
  <2>3. IsFiniteSet(Ids \cap held) /\ Cardinality(Ids \cap held) \in Nat
    BY <1>1, FS_Subset, FS_CardinalityType
  <2> QED BY <1>1, <1>2, <2>1, <2>2, <2>3, IDs, SessionHandlerAssumption
<1>4. \E id \in SessionID : id \notin Used
  <2> SUFFICES ASSUME SessionID \subseteq Used PROVE FALSE
    OBVIOUS
  <2>1. Cardinality(SessionID) <= Cardinality(Used)
    BY <1>3, FS_Subset
  <2>2. Cardinality(Used) \in Nat
    BY <1>3, FS_CardinalityType
  <2> QED BY <1>3, <2>1, <2>2, IDs, SessionHandlerAssumption
<1>5. NewID \in SessionID /\ NewID \notin Used
  BY <1>4, FreeIs DEF NewID
<1> QED BY <1>5 DEF Used

\* What a command leaves of a session, if it leaves it.
Leaves(id) == id \in Ids' => id \in Ids /\ session_map'[id] = session_map[id]

LEMMA SendKeyMap ==
  ASSUME MapInv, NEW id, NEW k \in Key, SendKey(id, k)
  PROVE  /\ MapInv' /\ Ids' = Ids /\ UNCHANGED <<running, sync_locked, alive>>
         /\ \A i : i # id => Leaves(i)
         /\ Accepts(id) => session_map'[id] = After(SessionOf(id), k) /\ Coherent(SessionOf(id))
         /\ ~Accepts(id) => UNCHANGED session_map
         /\ \A i \in Ids : session_map'[i].app = session_map[i].app
<1>1. CASE Accepts(id)
  <2>1. session_map' = [session_map EXCEPT ![id] = After(session_map[id], k)] /\ id \in Ids
    BY <1>1 DEF SendKey, Accepts
  <2>2. Coherent(session_map[id])
    BY <2>1 DEF MapInv, Coherent
  <2>3. Coherent(After(session_map[id], k)) /\ After(session_map[id], k).app = session_map[id].app
    BY <2>2, AfterCoherent
  <2>4. Ids' = Ids
    BY <2>1 DEF Ids
  <2>5. \A i \in Ids : session_map'[i] = IF i = id THEN After(session_map[id], k) ELSE session_map[i]
    BY <2>1 DEF Ids
  <2>6. lru' \in [Ids -> 1..MaxSessions]
    BY <1>1, <2>1, NewestIs DEF SendKey, MapInv
  <2>7. session_map' \in [Ids -> SessionRecord]
    BY <2>1, <2>3 DEF MapInv, Coherent
  <2>8. \A i \in Ids : session_map'[i].converting => session_map'[i].text # <<>>
    BY <2>1, <2>3, <2>5 DEF MapInv, Coherent
  <2>9. MapInv'
    BY <2>4, <2>6, <2>7, <2>8 DEF MapInv
  <2>10. session_map'[id] = After(SessionOf(id), k) /\ Coherent(SessionOf(id))
    BY <2>1, <2>2, <2>5 DEF SessionOf
  <2>11. \A i : i # id => Leaves(i)
    BY <2>4, <2>5 DEF Leaves
  <2>12. \A i \in Ids : session_map'[i].app = session_map[i].app
    BY <2>3, <2>5
  <2>13. UNCHANGED <<running, sync_locked, alive>>
    BY DEF SendKey
  <2> QED BY <1>1, <2>4, <2>9, <2>10, <2>11, <2>12, <2>13
<1>2. CASE ~Accepts(id)
  BY <1>2 DEF SendKey, map_vars, MapInv, Leaves, Ids
<1> QED BY <1>1, <1>2

LEMMA CreateMap ==
  ASSUME MapInv, NEW id \in SessionID, id \notin Ids, NEW a \in App \cup {Other},
         CreateSession(id, a)
  PROVE  /\ MapInv' /\ UNCHANGED <<running, sync_locked, alive>>
         /\ id \in Ids' /\ session_map'[id] = NewSession(a)
         /\ \A i : i # id => Leaves(i)
<1> DEFINE kept == IF Cardinality(Ids) >= MaxSessions THEN Ids \ {Oldest} ELSE Ids
           ids == kept \cup {id}
<1>1. IsFiniteSet(Ids) /\ Cardinality(Ids) \in Nat /\ Cardinality(Ids) <= MaxSessions
  BY IDs, FS_Subset, FS_CardinalityType DEF MapInv
<1>2. kept \subseteq Ids /\ IsFiniteSet(kept) /\ Cardinality(kept) \in Nat
      /\ Cardinality(kept) < MaxSessions
  <2>1. CASE Cardinality(Ids) >= MaxSessions
    <3>1. Ids # {}
      BY <2>1, FS_EmptySet, SessionHandlerAssumption
    <3>2. Oldest \in Ids
      BY <3>1, OldestIs
    <3>3. IsFiniteSet(Ids \ {Oldest}) /\ Cardinality(Ids \ {Oldest}) = Cardinality(Ids) - 1
      BY <1>1, <3>2, FS_RemoveElement
    <3>4. Cardinality(Ids \ {Oldest}) \in Nat
      BY <3>3, FS_CardinalityType
    <3>5. kept = Ids \ {Oldest}
      BY <2>1
    <3> QED BY <1>1, <3>3, <3>4, <3>5, SessionHandlerAssumption
  <2>2. CASE ~(Cardinality(Ids) >= MaxSessions)
    BY <1>1, <2>2, SessionHandlerAssumption
  <2> QED BY <2>1, <2>2
<1> HIDE DEF kept
<1>3. Cardinality(ids) <= MaxSessions
  <2>1. Cardinality(kept \cup {id}) = IF id \in kept THEN Cardinality(kept) ELSE Cardinality(kept) + 1
    BY <1>2, FS_AddElement
  <2> QED BY <1>2, <2>1, SessionHandlerAssumption
<1>4. /\ session_map' = [i \in ids |-> IF i = id THEN NewSession(a) ELSE session_map[i]]
      /\ lru' = Newest(id, ids) /\ UNCHANGED <<running, sync_locked, alive>>
  BY DEF CreateSession, kept
<1>5. Ids' = ids
  BY <1>4 DEF Ids
<1>6. NewSession(a) \in SessionRecord /\ ~NewSession(a).converting
  BY NewIsCoherent DEF Coherent
<1>7. lru' \in [ids -> 1..MaxSessions]
  BY <1>2, <1>3, <1>4, NewestIs DEF MapInv
<1> HIDE DEF ids
<1>8. ids \subseteq Ids \cup {id} /\ id \in ids
  BY <1>2 DEF ids
<1>9. session_map' \in [ids -> SessionRecord]
  BY <1>4, <1>6, <1>8 DEF MapInv
<1>10. \A i \in ids : session_map'[i] = IF i = id THEN NewSession(a) ELSE session_map[i]
  BY <1>4
<1> QED BY <1>3, <1>4, <1>5, <1>6, <1>7, <1>8, <1>9, <1>10 DEF MapInv, Leaves

LEMMA DeleteMap ==
  ASSUME MapInv, NEW ids, DeleteSessionIDs(ids)
  PROVE  MapInv' /\ Ids' = Ids \ ids /\ \A i : Leaves(i)
<1> DEFINE kept == Ids \ ids
<1>1. IsFiniteSet(Ids) /\ Cardinality(Ids) \in Nat /\ Cardinality(Ids) <= MaxSessions
  BY IDs, FS_Subset, FS_CardinalityType DEF MapInv
<1>2. Cardinality(kept) <= MaxSessions /\ kept \subseteq Ids
  <2>1. kept \in SUBSET Ids
    OBVIOUS
  <2> HIDE DEF kept
  <2>2. IsFiniteSet(kept) /\ Cardinality(kept) <= Cardinality(Ids)
    BY <1>1, <2>1, FS_Subset
  <2>3. Cardinality(kept) \in Nat
    BY <2>2, FS_CardinalityType
  <2> QED BY <1>1, <2>1, <2>2, <2>3, SessionHandlerAssumption
<1>3. session_map' = [i \in kept |-> session_map[i]] /\ lru' = Places(kept, lru)
  BY DEF DeleteSessionIDs
<1> HIDE DEF kept
<1>4. Ids' = kept
  BY <1>3 DEF Ids
<1>5. lru' \in [kept -> 1..MaxSessions]
  <2>1. \A i \in kept : lru[i] \in Nat
    BY <1>2 DEF MapInv
  <2> QED BY <1>2, <1>3, <2>1, PlacesIs DEF MapInv
<1>6. session_map' \in [kept -> SessionRecord] /\ \A i \in kept : session_map'[i] = session_map[i]
  BY <1>2, <1>3 DEF MapInv
<1>7. MapInv' /\ \A i : Leaves(i)
  BY <1>2, <1>4, <1>5, <1>6 DEF MapInv, Leaves
<1> QED BY <1>4, <1>7 DEF kept

LEMMA EmptyMap ==
  session_map = NoSessions /\ lru = [i \in {} |-> 0] => MapInv /\ Ids = {}
<1> SUFFICES ASSUME session_map = NoSessions, lru = [i \in {} |-> 0] PROVE MapInv /\ Ids = {}
  OBVIOUS
<1>1. Ids = {}
  BY DEF NoSessions, Ids
<1>2. Cardinality({}) = 0
  BY FS_EmptySet
<1>3. session_map \in [{} -> SessionRecord] /\ lru \in [{} -> 1..MaxSessions]
  BY DEF NoSessions
<1> QED BY <1>1, <1>2, <1>3, SessionHandlerAssumption DEF MapInv

LEMMA StoppedMap ==
  ASSUME Stopped
  PROVE  MapInv' /\ Ids' = {} /\ running' = FALSE /\ sync_locked' = FALSE /\ \A i : Leaves(i)
<1>1. MapInv' /\ Ids' = {}
  <2>1. (session_map = NoSessions /\ lru = [i \in {} |-> 0])'
    BY DEF Stopped
  <2>2. (MapInv /\ Ids = {})'
    BY <2>1, EmptyMap, PTL
  <2> QED BY <2>2
<1> QED BY <1>1 DEF Stopped, Leaves

-----------------------------------------------------------------------------
(* Types, and what holds of the control.                                   *)

ClientTypes ==
  /\ running \in BOOLEAN /\ sync_locked \in BOOLEAN /\ alive \subseteq App
  /\ server_status \in [App -> Status]
  /\ session_id \in [App -> SessionID \cup {0}]
  /\ history_inputs \in [App -> Seq(Key)] /\ pc \in [App -> PC]
  /\ input \in [App -> Key] /\ played \in [App -> Nat]
  /\ document \in [App -> Seq(Character)] /\ typed \in [App -> 0..MaxKeys]
  /\ lost \in [App -> BOOLEAN] /\ partial \in [App -> BOOLEAN]
  /\ cut \in [App -> BOOLEAN]
  /\ faults \in 0..MaxFaults /\ locks \in 0..MaxLocks

\* No server, no session; no two clients hold one session.
Shared ==
  /\ ~running => Ids = {}
  /\ locks = 0 => ~sync_locked
  /\ \A c, d \in App : session_id[c] = session_id[d] /\ session_id[c] # 0 => c = d

\* What a client knows of the server at each point of EnsureCallCommand.
Control(c) ==
  /\ pc[c] = "idle" => input[c] = Enter /\ played[c] = 0
  /\ pc[c] # "idle" => c \in alive
  /\ pc[c] # "playback" /\ pc[c] # "second" => played[c] = 0
  /\ input[c] \in Character => input[c] = typed[c]
  /\ pc[c] \in {"session", "again"} =>
       server_status[c] \in {"UNKNOWN", "SHUTDOWN", "INVALID_SESSION"}
  /\ pc[c] \in {"first", "playback"} => server_status[c] = "OK"
  /\ pc[c] = "second" => server_status[c] \in {"OK", "SHUTDOWN", "TIMEOUT"}
  /\ pc[c] = "report" => server_status[c] \in {"SHUTDOWN", "TIMEOUT"} /\ session_id[c] = 0
  /\ pc[c] = "playback" => played[c] < Len(history_inputs[c])
  /\ pc[c] = "second" /\ server_status[c] = "TIMEOUT" => cut[c]
  /\ cut[c] => lost[c]

BaseInv == ClientTypes /\ MapInv /\ Shared /\ \A c \in App : Control(c)

StepOf(c) == Press(c) \/ ClientStep(c) \/ CallCommand(c) \/ AppEnds(c)

View(c) == <<server_status[c], session_id[c], history_inputs[c], pc[c], input[c], played[c],
             document[c], typed[c], lost[c], partial[c], cut[c]>>

\* What a step of the client c does to the server.
Served(c) ==
  /\ MapInv' /\ (~running' => Ids' = {}) /\ (sync_locked' => sync_locked)
  /\ running' \in BOOLEAN /\ sync_locked' \in BOOLEAN
  /\ \A i : i # session_id[c] /\ i # NewID => Leaves(i)

LEMMA ServedSame ==
  ASSUME BaseInv, UNCHANGED <<running, map_vars, sync_locked>>, NEW c \in App
  PROVE  Served(c) /\ \A i : Leaves(i)
<1>1. UNCHANGED Ids
  BY DEF Ids, map_vars
<1> QED BY <1>1 DEF BaseInv, MapInv, ClientTypes, Shared, Served, Leaves, map_vars

LEMMA ServedLaunch ==
  ASSUME BaseInv, Launch, NEW c \in App
  PROVE  Served(c) /\ \A i : Leaves(i)
<1>1. UNCHANGED Ids
  BY DEF Ids, map_vars, Launch
<1> QED BY <1>1 DEF BaseInv, MapInv, ClientTypes, Shared, Served, Leaves, map_vars, Launch

LEMMA ServedStopped ==
  ASSUME BaseInv, Stopped, NEW c \in App
  PROVE  Served(c) /\ Ids' = {}
  BY StoppedMap DEF Served

LEMMA ServedCallFails ==
  ASSUME BaseInv, NEW c \in App, CallFails(c)
  PROVE  Served(c) /\ Ids' = {} /\ UNCHANGED alive /\ faults' \in 0..MaxFaults
<1>1. CASE ~running /\ UNCHANGED <<server_vars, faults>>
  <2>1. UNCHANGED Ids
    BY <1>1 DEF Ids, server_vars, map_vars
  <2> QED BY <1>1, <2>1, ServedSame DEF server_vars, BaseInv, Shared, ClientTypes
<1>2. CASE running /\ faults < MaxFaults /\ faults' = faults + 1 /\ Stopped /\ UNCHANGED alive
  BY <1>2, ServedStopped, ClientAssumption DEF BaseInv, ClientTypes
<1> QED BY <1>1, <1>2 DEF CallFails

LEMMA ServedSendKey ==
  ASSUME BaseInv, NEW c \in App, NEW k \in Key, SendKey(session_id[c], k), running
  PROVE  Served(c) /\ Ids' = Ids /\ UNCHANGED <<running, sync_locked, alive>>
  BY SendKeyMap DEF BaseInv, ClientTypes, Served

LEMMA ServedCreate ==
  ASSUME BaseInv, NEW c \in App, CreateSession(NewID, c), running
  PROVE  /\ Served(c) /\ UNCHANGED <<running, sync_locked, alive>>
         /\ NewID \in Ids' /\ session_map'[NewID] = NewSession(c)
         /\ \A i : i # NewID => Leaves(i)
         /\ NewID \in SessionID /\ NewID \notin Ids /\ NewID # 0 /\ \A d \in App : NewID # session_id[d]
<1>1. NewID \in SessionID /\ NewID \notin Ids /\ \A d \in App : NewID # session_id[d]
  BY NewIDIs DEF BaseInv
<1>2. NewID # 0
  BY <1>1, IDs
<1>3. /\ MapInv' /\ UNCHANGED <<running, sync_locked, alive>>
      /\ NewID \in Ids' /\ session_map'[NewID] = NewSession(c)
      /\ \A i : i # NewID => Leaves(i)
  BY <1>1, CreateMap DEF BaseInv
<1> QED BY <1>1, <1>2, <1>3 DEF BaseInv, ClientTypes, Served

LEMMA Server ==
  ASSUME BaseInv, NEW c \in App, StepOf(c)
  PROVE  Served(c)
<1>k. input[c] \in Key /\ \A n \in 1..Len(history_inputs[c]) : history_inputs[c][n] \in Key
  BY DEF BaseInv, ClientTypes
<1>1. CASE Press(c) \/ CallCommand(c)
  BY <1>1, ServedSame DEF Press, CallCommand, server_vars
<1>2. CASE StartServer(c)
  BY <1>2, ServedSame, ServedLaunch DEF StartServer, LaunchFails, server_vars
<1>3. CASE CreateSessionCall(c)
  BY <1>3, ServedSame, ServedCreate, ServedCallFails DEF CreateSessionCall, CallTimesOut, server_vars
<1>4. CASE Report(c)
  BY <1>4, ServedSame, ServedLaunch DEF Report, LaunchFails, server_vars
<1>5. CASE CallFirst(c)
  BY <1>k, <1>5, ServedSame, ServedSendKey, ServedCallFails
     DEF CallFirst, CallTimesOut, Taken, server_vars
<1>6. CASE PlayBack(c)
  <2>1. pc[c] = "playback" /\ played[c] + 1 \in 1..Len(history_inputs[c])
    BY <1>6 DEF PlayBack, BaseInv, Control, ClientTypes
  <2> QED BY <1>k, <1>6, <2>1, ServedSame, ServedSendKey, ServedCallFails
          DEF PlayBack, CallTimesOut, server_vars
<1>7. CASE CallSecond(c)
  BY <1>k, <1>7, ServedSame, ServedSendKey, ServedCallFails
     DEF CallSecond, CallTimesOut, Taken, server_vars
<1>8. CASE AppEnds(c)
  <2>1. CASE DeleteSessionIDs({session_id[c]} \cap Ids)
    BY <1>8, <2>1, DeleteMap DEF AppEnds, Served, BaseInv, Shared, ClientTypes
  <2>2. CASE UNCHANGED map_vars
    BY <1>8, <2>2, ServedSame DEF AppEnds
  <2> QED BY <1>8, <2>1, <2>2 DEF AppEnds
<1> QED BY <1>1, <1>2, <1>3, <1>4, <1>5, <1>6, <1>7, <1>8 DEF StepOf, ClientStep

LEMMA ServedAlive ==
  ASSUME NEW c, CallFirst(c) \/ CallSecond(c)
  PROVE  UNCHANGED alive
  BY DEF CallFirst, CallSecond, Taken, SendKey, CallFails, CallTimesOut, Stopped, server_vars

\* A step of a client leaves the others alone, but for a session it evicts.
LEMMA Others ==
  ASSUME BaseInv, NEW c \in App, StepOf(c), NEW d \in App, d # c
  PROVE  View(d)' = View(d) /\ (d \in alive' <=> d \in alive) /\ Leaves(session_id[d])
<1> USE DEF ClientTypes, View
<1>0. ClientTypes
  BY DEF BaseInv
<1>1. Leaves(session_id[d])
  <2>1. CASE session_id[d] = 0
    BY <2>1, Server, IDs DEF Served, MapInv, Leaves
  <2>2. CASE session_id[d] # 0
    <3>1. session_id[d] # session_id[c] /\ session_id[d] # NewID
      BY <2>2, NewIDIs DEF BaseInv, Shared
    <3> QED BY <3>1, Server DEF Served
  <2> QED BY <2>1, <2>2
<1>2. CASE Press(c) \/ CallCommand(c)
  BY <1>0, <1>1, <1>2 DEF Press, CallCommand, server_vars
<1>3. CASE StartServer(c)
  BY <1>0, <1>1, <1>3 DEF StartServer, Launch, LaunchFails, server_vars, Fail, Return, Echo, GiveUp
<1>4. CASE CreateSessionCall(c)
  BY <1>0, <1>1, <1>4 DEF CreateSessionCall, CreateSession, GiveUp, CallFails, CallTimesOut, Stopped, server_vars
<1>5. CASE Report(c)
  BY <1>0, <1>1, <1>5 DEF Report, Launch, LaunchFails, server_vars, Fail, Return, Echo, GiveUp
<1>6. CASE CallFirst(c)
  <2>1. CASE Taken(c) /\ UNCHANGED faults
    BY <1>0, <1>1, <2>1 DEF Taken, SendKey, PushHistory, Return
  <2>2. CASE \E st : /\ server_status' = [server_status EXCEPT ![c] = st]
                     /\ pc' = [pc EXCEPT ![c] = "again"]
                     /\ UNCHANGED <<session_id, history_inputs, input, played, document,
                                    typed, lost, partial, cut>>
    <3>1. UNCHANGED alive
      BY <1>6, ServedAlive
    <3> QED BY <1>0, <1>1, <2>2, <3>1
  <2>3. CASE \E st : Fail(c, st) /\ UNCHANGED history_inputs
    <3>1. UNCHANGED alive
      BY <1>6, ServedAlive
    <3> QED BY <1>0, <1>1, <2>3, <3>1 DEF Fail, Return, Echo, GiveUp
  <2> QED BY <1>6, <2>1, <2>2, <2>3 DEF CallFirst
<1>7. CASE PlayBack(c)
  BY <1>0, <1>1, <1>7 DEF PlayBack, SendKey, CutShort, CallFails, CallTimesOut, Stopped, server_vars
<1>8. CASE CallSecond(c)
  <2>1. CASE Taken(c) /\ UNCHANGED faults
    BY <1>0, <1>1, <2>1 DEF Taken, SendKey, PushHistory, Return
  <2>2. CASE /\ Return(c) /\ GiveUp(c)
             /\ IF sync_locked THEN Blocked(c) ELSE Echo(c) /\ UNCHANGED typed
             /\ UNCHANGED <<server_vars, server_status, session_id, history_inputs,
                            partial, cut, faults>>
    BY <1>0, <1>1, <2>2 DEF Return, GiveUp, Blocked, Echo, server_vars
  <2>3. CASE /\ \E st : Fail(c, st)
             /\ history_inputs' = [history_inputs EXCEPT ![c] = <<>>]
    <3>1. UNCHANGED alive
      BY <1>8, ServedAlive
    <3> QED BY <1>0, <1>1, <2>3, <3>1 DEF Fail, Return, Echo, GiveUp
  <2> QED BY <1>8, <2>1, <2>2, <2>3 DEF CallSecond
<1>9. CASE AppEnds(c)
  BY <1>0, <1>1, <1>9 DEF AppEnds
<1> QED BY <1>2, <1>3, <1>4, <1>5, <1>6, <1>7, <1>8, <1>9 DEF StepOf, ClientStep

LEMMA Surroundings ==
  ASSUME BaseInv, Environment
  PROVE  /\ \A d \in App : View(d)' = View(d) /\ Leaves(session_id[d])
         /\ MapInv' /\ (~running' => Ids' = {}) /\ running' \in BOOLEAN /\ sync_locked' \in BOOLEAN
         /\ UNCHANGED <<client_vars, alive>>
         /\ faults' \in 0..MaxFaults /\ locks' \in 0..MaxLocks /\ (locks' = 0 => ~sync_locked')
         /\ \A i \in Ids' : Leaves(i) \/ (i = NewID /\ session_map'[i].app = Other)
<1> USE DEF BaseInv, Shared
<1>0. UNCHANGED client_vars => \A d \in App : View(d)' = View(d)
  BY DEF client_vars, View
<1>1. CASE OtherApplication(Used) /\ UNCHANGED <<client_vars, faults, locks>>
  <2>1. CASE ~running /\ Launch
    <3>1. UNCHANGED <<Ids, MapInv>>
      BY <2>1 DEF Launch, Ids, map_vars, MapInv
    <3> QED BY <1>0, <1>1, <2>1, <3>1 DEF Launch, map_vars, Leaves, ClientTypes
  <2>2. CASE running /\ CreateSession(NewID, Other)
    <3>1. NewID \in SessionID /\ NewID \notin Ids /\ \A d \in App : NewID # session_id[d]
      BY NewIDIs
    <3>2. /\ MapInv' /\ UNCHANGED <<running, sync_locked, alive>>
          /\ session_map'[NewID] = NewSession(Other)
          /\ \A i : i # NewID => Leaves(i)
      BY <2>2, <3>1, CreateMap
    <3> QED BY <1>0, <1>1, <2>2, <3>1, <3>2 DEF ClientTypes, NewSession
  <2> QED BY <1>1, <2>1, <2>2 DEF OtherApplication, NewID
<1>2. CASE WatchDog
  <2>1. PICK ids : DeleteSessionIDs(ids)
    BY <1>2 DEF WatchDog, Cleanup
  <2>2. MapInv' /\ \A i : Leaves(i)
    BY <2>1, DeleteMap
  <2> QED BY <1>0, <1>2, <2>2 DEF WatchDog, Cleanup, ClientTypes
<1>3. CASE BeginSyncLock /\ locks < MaxLocks /\ locks' = locks + 1 /\ UNCHANGED <<client_vars, faults>>
  <2>1. UNCHANGED <<Ids, MapInv>>
    BY <1>3 DEF BeginSyncLock, Ids, map_vars, MapInv
  <2>2. locks' \in 0..MaxLocks /\ locks' # 0
    BY <1>3, ClientAssumption DEF ClientTypes
  <2> QED BY <1>0, <1>3, <2>1, <2>2 DEF BeginSyncLock, map_vars, Leaves, ClientTypes
<1>4. CASE EndSyncLock /\ UNCHANGED <<client_vars, faults, locks>>
  <2>1. UNCHANGED <<Ids, MapInv>>
    BY <1>4 DEF EndSyncLock, Ids, map_vars, MapInv
  <2> QED BY <1>0, <1>4, <2>1 DEF EndSyncLock, map_vars, Leaves, ClientTypes
<1>5. CASE faults < MaxFaults /\ Crash /\ faults' = faults + 1 /\ UNCHANGED <<client_vars, locks>>
  <2>1. faults' \in 0..MaxFaults
    BY <1>5, ClientAssumption DEF ClientTypes
  <2>2. /\ MapInv' /\ Ids' = {} /\ running' = FALSE /\ sync_locked' = FALSE /\ \A i : Leaves(i)
    BY <1>5, StoppedMap DEF Crash
  <2> QED BY <1>0, <1>5, <2>1, <2>2 DEF Crash, ClientTypes
<1> QED BY <1>1, <1>2, <1>3, <1>4, <1>5 DEF Environment

LEMMA FailTypes ==
  ASSUME ClientTypes, NEW c \in App, NEW st \in Status, Fail(c, st)
  PROVE  /\ server_status' \in [App -> Status] /\ pc' \in [App -> PC] /\ input' \in [App -> Key]
         /\ played' \in [App -> Nat] /\ document' \in [App -> Seq(Character)]
         /\ lost' \in [App -> BOOLEAN]
         /\ UNCHANGED <<session_id, typed, partial, cut>>
<1>1. /\ Enter \in Key /\ "idle" \in PC /\ Open(c) \in BOOLEAN
      /\ input[c] \in Character => Append(document[c], input[c]) \in Seq(Character)
  BY DEF Key, PC, ClientTypes, Open
<1> QED BY <1>1 DEF ClientTypes, Fail, Return, Echo, GiveUp

LEMMA TakenTypes ==
  ASSUME BaseInv, NEW c \in App, Taken(c), running, Accepts(session_id[c])
  PROVE  ClientTypes' <=> faults' \in 0..MaxFaults /\ locks' \in 0..MaxLocks
<1> USE DEF ClientTypes
<1>0. ClientTypes
  BY DEF BaseInv
<1> DEFINE s == SessionOf(session_id[c])
           h == history_inputs[c]
<1>1. SendKey(session_id[c], input[c]) /\ input[c] \in Key
  BY <1>0 DEF Taken
<1>2. Coherent(s) /\ UNCHANGED <<running, sync_locked, alive>>
  BY <1>1, SendKeyMap DEF BaseInv
<1>3. Result(s, input[c]) \in Seq(Character)
  BY <1>1, <1>2, AfterCoherent
<1> HIDE DEF s
<1>4. document' = [document EXCEPT ![c] = @ \o Result(s, input[c])]
  BY DEF Taken, s
<1>5. document' \in [App -> Seq(Character)]
  <2>1. document[c] \o Result(s, input[c]) \in Seq(Character)
    BY <1>0, <1>3
  <2> QED BY <1>0, <1>4, <2>1
<1>6. history_inputs' \in [App -> Seq(Key)]
  <2>1. \E g \in Seq(Key) : history_inputs' = [history_inputs EXCEPT ![c] = g]
    <3>1. /\ h \in Seq(Key) /\ <<>> \in Seq(Key) /\ Append(h, input[c]) \in Seq(Key)
          /\ history_inputs' = [history_inputs EXCEPT ![c] = history_inputs'[c]]
          /\ history_inputs'[c] \in {h, <<>>, Append(h, input[c])}
      BY <1>0 DEF Taken, PushHistory
    <3> QED BY <3>1
  <2> QED BY <1>0, <2>1
<1>7. pc' \in [App -> PC] /\ input' \in [App -> Key] /\ played' \in [App -> Nat]
  BY <1>0 DEF Taken, Return, PC, Key
<1>8. partial' \in [App -> BOOLEAN] /\ UNCHANGED <<server_status, session_id, typed, lost, cut>>
  BY <1>0 DEF Taken
<1> QED BY <1>0, <1>2, <1>5, <1>6, <1>7, <1>8

\* The two ends of CreateSessionCall.
Created(c) ==
  /\ running
  /\ CreateSession(NewID, c)
  /\ session_id' = [session_id EXCEPT ![c] = NewID]
  /\ server_status' = [server_status EXCEPT ![c] = "OK"]
  /\ IF pc[c] = "session"
     THEN /\ pc' = [pc EXCEPT ![c] = "first"]
          /\ GiveUp(c) /\ UNCHANGED history_inputs
     ELSE /\ pc' = [pc EXCEPT ![c] = IF PlaybackOf(c) = <<>> THEN "second" ELSE "playback"]
          /\ history_inputs' = [history_inputs EXCEPT ![c] = PlaybackOf(c)]
          /\ IF partial[c] \/ PlaybackOf(c) # history_inputs[c] THEN GiveUp(c)
             ELSE UNCHANGED lost
  /\ UNCHANGED <<input, played, document, typed, partial, cut, faults, locks>>

NotCreated(c) ==
  /\ \/ /\ CallFails(c)
        /\ server_status' = [server_status EXCEPT ![c] = "SHUTDOWN"]
     \/ /\ CallTimesOut(CreateSession(NewID, c))
        /\ server_status' = [server_status EXCEPT ![c] = "TIMEOUT"]
  /\ session_id' = [session_id EXCEPT ![c] = 0]
  /\ pc' = [pc EXCEPT ![c] = "report"]
  /\ UNCHANGED <<history_inputs, input, played, document, typed, lost, partial, cut, locks>>

LEMMA CreateEnds ==
  ASSUME NEW c, CreateSessionCall(c)
  PROVE  Created(c) \/ NotCreated(c)
  BY DEF CreateSessionCall, Created, NotCreated

LEMMA Types ==
  ASSUME BaseInv, NEW c \in App, StepOf(c)
  PROVE  ClientTypes'
<1>0. ClientTypes /\ running' \in BOOLEAN /\ sync_locked' \in BOOLEAN
  BY Server DEF BaseInv, Served
<1>1. Open(c) \in BOOLEAN
  BY <1>0 DEF Open, ClientTypes
<1>f. \A st \in Status : Fail(c, st) =>
        /\ server_status' \in [App -> Status] /\ pc' \in [App -> PC] /\ input' \in [App -> Key]
        /\ played' \in [App -> Nat] /\ document' \in [App -> Seq(Character)]
        /\ lost' \in [App -> BOOLEAN]
        /\ UNCHANGED <<session_id, typed, partial, cut>>
  BY <1>0, FailTypes
<1>s. {"INVALID_SESSION", "SHUTDOWN", "TIMEOUT", "FATAL", "OK", "UNKNOWN"} = Status
  BY DEF Status
<1> USE <1>0, <1>1, ClientAssumption, SessionHandlerAssumption
<1>2. CASE Press(c)
  <2> DEFINE Now == /\ server_status' \in [App -> Status] /\ lost' \in [App -> BOOLEAN]
                    /\ pc' \in [App -> PC] /\ input' \in [App -> Key]
                    /\ document' \in [App -> Seq(Character)]
  <2>1. PICK k \in Key :
       /\ k \in Character => k = typed[c] + 1
       /\ typed' = [typed EXCEPT ![c] = IF k \in Character THEN k ELSE @]
       /\ IF GaveUp(c)
          THEN /\ server_status' = [server_status EXCEPT ![c] = "FATAL"]
               /\ document' = [document EXCEPT ![c] =
                                 IF k \in Character THEN Append(@, k) ELSE @]
               /\ lost' = [lost EXCEPT ![c] = @ \/ Len(document[c]) < typed[c]]
               /\ UNCHANGED <<pc, input>>
          ELSE /\ input' = [input EXCEPT ![c] = k]
               /\ pc' = [pc EXCEPT ![c] = IF HasSession(c) THEN "first" ELSE "session"]
               /\ UNCHANGED <<server_status, document, lost>>
    BY <1>2 DEF Press
  <2>2. typed' \in [App -> 0..MaxKeys]
    BY <2>1 DEF ClientTypes, Character
  <2>3. k \in Character => Append(document[c], k) \in Seq(Character)
    BY DEF ClientTypes
  <2>7. "FATAL" \in Status /\ {"first", "session"} \subseteq PC
    BY DEF Status, PC
  <2>8. ASSUME GaveUp(c) PROVE Now
    <3>1. /\ server_status' = [server_status EXCEPT ![c] = "FATAL"]
          /\ document' = [document EXCEPT ![c] = IF k \in Character THEN Append(@, k) ELSE @]
          /\ lost' = [lost EXCEPT ![c] = @ \/ Len(document[c]) < typed[c]]
          /\ UNCHANGED <<pc, input>>
      BY <2>1, <2>8
    <3>2. document' \in [App -> Seq(Character)]
      BY <2>3, <3>1 DEF ClientTypes
    <3>3. server_status' \in [App -> Status] /\ lost' \in [App -> BOOLEAN]
      BY <2>7, <3>1 DEF ClientTypes
    <3> QED BY <3>1, <3>2, <3>3 DEF ClientTypes
  <2>9. ASSUME ~GaveUp(c) PROVE Now
    <3>1. /\ input' = [input EXCEPT ![c] = k]
          /\ pc' = [pc EXCEPT ![c] = IF HasSession(c) THEN "first" ELSE "session"]
          /\ UNCHANGED <<server_status, document, lost>>
      BY <2>1, <2>9
    <3>2. pc' \in [App -> PC] /\ input' \in [App -> Key]
      BY <2>7, <3>1 DEF ClientTypes
    <3> QED BY <3>1, <3>2 DEF ClientTypes
  <2>6. UNCHANGED <<alive, session_id, history_inputs, played, partial, cut, faults, locks>>
    BY <1>2 DEF Press, server_vars
  <2> QED BY <2>2, <2>6, <2>8, <2>9 DEF ClientTypes
<1>3. CASE StartServer(c)
  <2>1. CASE LaunchFails /\ Fail(c, "FATAL") /\ UNCHANGED <<history_inputs, locks>>
    <3>1. UNCHANGED alive /\ faults' \in 0..MaxFaults
      BY <2>1 DEF LaunchFails, server_vars, ClientTypes
    <3>2. "FATAL" \in Status
      BY <1>s
    <3>3. /\ server_status' \in [App -> Status] /\ pc' \in [App -> PC] /\ input' \in [App -> Key]
          /\ played' \in [App -> Nat] /\ document' \in [App -> Seq(Character)]
          /\ lost' \in [App -> BOOLEAN]
          /\ UNCHANGED <<session_id, typed, partial, cut, history_inputs, locks>>
      BY <1>f, <2>1, <3>2
    <3> QED BY <3>1, <3>3 DEF ClientTypes
  <2>2. CASE Launch /\ server_status' = [server_status EXCEPT ![c] = "INVALID_SESSION"]
             /\ UNCHANGED <<session_id, history_inputs, pc, input, played, document,
                            typed, lost, partial, cut, faults, locks>>
    <3>1. server_status' \in [App -> Status]
      BY <1>s, <2>2 DEF ClientTypes
    <3>2. UNCHANGED <<alive, session_id, history_inputs, pc, input, played, document,
                      typed, lost, partial, cut, faults, locks>>
      BY <2>2 DEF Launch
    <3> QED BY <3>1, <3>2 DEF ClientTypes
  <2> QED BY <1>3, <2>1, <2>2 DEF StartServer
<1>4. CASE CreateSessionCall(c)
  <2>1. CASE Created(c)
    <3>1. NewID \in SessionID /\ UNCHANGED alive
      BY <2>1, ServedCreate DEF Created
    <3>2. PlaybackOf(c) \in Seq(Key)
      BY DEF PlaybackOf, ClientTypes
    <3>3. history_inputs' \in [App -> Seq(Key)]
      BY <2>1, <3>2 DEF Created, ClientTypes
    <3>7. {"first", "second", "playback"} \subseteq PC
      BY DEF PC
    <3>4. pc' \in [App -> PC]
      <4>1. pc \in [App -> PC] /\ \E x \in PC : pc' = [pc EXCEPT ![c] = x]
        BY <2>1, <3>7 DEF Created, ClientTypes
      <4> QED BY <4>1
    <3>5. lost' \in [App -> BOOLEAN]
      BY <2>1 DEF Created, ClientTypes, GiveUp
    <3>6. session_id' \in [App -> SessionID \cup {0}] /\ server_status' \in [App -> Status]
      BY <1>s, <2>1, <3>1 DEF Created, ClientTypes
    <3> QED BY <2>1, <3>1, <3>3, <3>4, <3>5, <3>6 DEF ClientTypes, Created
  <2>2. CASE NotCreated(c)
    <3>1. faults' \in 0..MaxFaults /\ UNCHANGED alive
      BY <2>2, ServedCallFails DEF NotCreated, CallTimesOut, CreateSession, server_vars, ClientTypes
    <3>2. /\ server_status' \in [App -> Status] /\ pc' \in [App -> PC]
          /\ session_id' \in [App -> SessionID \cup {0}]
      BY <1>s, <2>2 DEF NotCreated, ClientTypes, PC
    <3> QED BY <2>2, <3>1, <3>2 DEF ClientTypes, NotCreated
  <2> QED BY <1>4, <2>1, <2>2, CreateEnds
<1>5. CASE Report(c)
  <2>1. \E st \in Status : Fail(c, st)
    BY <1>5, <1>s DEF Report
  <2>2. UNCHANGED <<alive, history_inputs, locks>> /\ faults' \in 0..MaxFaults
    BY <1>5 DEF Report, Launch, LaunchFails, server_vars, ClientTypes
  <2> QED BY <1>f, <2>1, <2>2 DEF ClientTypes
<1>6. CASE CallFirst(c)
  <2>1. CASE running /\ Accepts(session_id[c]) /\ Taken(c) /\ UNCHANGED faults
    BY <1>6, <2>1, TakenTypes DEF CallFirst, ClientTypes
  <2>2. CASE /\ \/ running /\ ~Accepts(session_id[c])
                   /\ server_status' = [server_status EXCEPT ![c] = "INVALID_SESSION"]
                   /\ UNCHANGED <<server_vars, faults>>
                \/ CallFails(c) /\ server_status' = [server_status EXCEPT ![c] = "SHUTDOWN"]
             /\ pc' = [pc EXCEPT ![c] = "again"]
             /\ UNCHANGED <<session_id, history_inputs, input, played, document,
                            typed, lost, partial, cut>>
    BY <1>6, <2>2, ServedCallFails DEF CallFirst, ClientTypes, Status, PC, server_vars
  <2>3. CASE /\ CallTimesOut(SendKey(session_id[c], input[c]))
             /\ Fail(c, "TIMEOUT") /\ UNCHANGED history_inputs
    <3>0. UNCHANGED locks
      BY <1>6 DEF CallFirst
    <3>1. UNCHANGED alive
      BY <2>3 DEF CallTimesOut, SendKey, server_vars
    <3>2. faults' \in 0..MaxFaults
      BY <2>3 DEF CallTimesOut, ClientTypes
    <3> QED BY <1>f, <1>s, <2>3, <3>0, <3>1, <3>2 DEF ClientTypes
  <2> QED BY <1>6, <2>1, <2>2, <2>3 DEF CallFirst
<1>7. CASE PlayBack(c)
  <2>1. UNCHANGED alive /\ faults' \in 0..MaxFaults
    BY <1>7, ServedCallFails DEF PlayBack, CallTimesOut, SendKey, server_vars, ClientTypes
  <2>2. played' \in [App -> Nat] /\ pc' \in [App -> PC] /\ server_status' \in [App -> Status]
        /\ lost' \in [App -> BOOLEAN] /\ cut' \in [App -> BOOLEAN]
    <3>1. /\ played' = [played EXCEPT ![c] = played[c] + 1] \/ UNCHANGED played
          /\ \/ UNCHANGED pc \/ pc' = [pc EXCEPT ![c] = "second"]
             \/ pc' = [pc EXCEPT ![c] = pc[c]]
          /\ \/ UNCHANGED server_status \/ server_status' = [server_status EXCEPT ![c] = "SHUTDOWN"]
             \/ server_status' = [server_status EXCEPT ![c] = "TIMEOUT"]
          /\ UNCHANGED <<lost, cut>> \/ CutShort(c)
      <4> DEFINE L == Len(history_inputs[c])
      <4>1. PlayBack(c)
        BY <1>7
      <4> QED BY <4>1 DEF PlayBack
    <3>0. played \in [App -> Nat] /\ played[c] + 1 \in Nat
      BY DEF ClientTypes
    <3>2. played' \in [App -> Nat]
      BY <3>0, <3>1
    <3>3. pc' \in [App -> PC]
      BY <3>1 DEF ClientTypes, PC
    <3> QED BY <1>s, <3>1, <3>2, <3>3 DEF CutShort, ClientTypes
  <2> QED BY <1>7, <2>1, <2>2 DEF PlayBack, ClientTypes
<1>8. CASE CallSecond(c)
  <2>1. CASE running /\ Accepts(session_id[c]) /\ Taken(c) /\ UNCHANGED faults
    BY <1>8, <2>1, TakenTypes DEF CallSecond, ClientTypes
  <2>2. CASE /\ Return(c) /\ GiveUp(c)
             /\ IF sync_locked THEN Blocked(c) ELSE Echo(c) /\ UNCHANGED typed
             /\ UNCHANGED <<server_vars, server_status, session_id, history_inputs,
                            partial, cut, faults>>
    <3>1. pc[c] = "second"
      BY <1>8 DEF CallSecond
    <3>2. input[c] \in Character => typed[c] - 1 \in 0..MaxKeys
      BY <3>1 DEF BaseInv, Control, ClientTypes, Character
    <3>3. typed' \in [App -> 0..MaxKeys]
      BY <2>2, <3>2 DEF Blocked, ClientTypes
    <3>4. input[c] \in Character => Append(document[c], input[c]) \in Seq(Character)
      BY DEF ClientTypes
    <3>5. document' \in [App -> Seq(Character)]
      BY <2>2, <3>4 DEF Blocked, Echo, ClientTypes
    <3> QED BY <1>8, <2>2, <3>3, <3>5
            DEF CallSecond, ClientTypes, Return, GiveUp, server_vars, PC, Key
  <2>3. CASE /\ \/ server_status[c] = "TIMEOUT" /\ UNCHANGED <<server_vars, faults>>
                   /\ Fail(c, "TIMEOUT")
                \/ CallFails(c) /\ Fail(c, "SHUTDOWN")
                \/ /\ CallTimesOut(SendKey(session_id[c], input[c]))
                   /\ Fail(c, "TIMEOUT")
             /\ history_inputs' = [history_inputs EXCEPT ![c] = <<>>]
    <3>1. \E st \in Status : Fail(c, st)
      BY <1>s, <2>3
    <3>2. UNCHANGED <<alive, locks>> /\ faults' \in 0..MaxFaults
      BY <1>8, <2>3, ServedCallFails DEF CallSecond, CallTimesOut, SendKey, server_vars, ClientTypes
    <3>3. history_inputs' \in [App -> Seq(Key)]
      BY <2>3 DEF ClientTypes
    <3> QED BY <1>f, <3>1, <3>2, <3>3 DEF ClientTypes
  <2> QED BY <1>8, <2>1, <2>2, <2>3 DEF CallSecond
<1>9. CASE CallCommand(c)
  BY <1>9 DEF CallCommand, ClientTypes, Status, server_vars
<1>10. CASE AppEnds(c)
  <2>1. <<>> \in Seq(Key) /\ <<>> \in Seq(Character)
    OBVIOUS
  <2> QED BY <1>10, <2>1 DEF AppEnds, ClientTypes, Status
<1> QED BY <1>2, <1>3, <1>4, <1>5, <1>6, <1>7, <1>8, <1>9, <1>10 DEF StepOf, ClientStep

LEMMA ReturnControl ==
  ASSUME ClientTypes, NEW c \in App, Return(c), cut'[c] => lost'[c]
  PROVE  Control(c)'
<1>1. pc'[c] = "idle" /\ input'[c] = Enter /\ played'[c] = 0 /\ Enter \notin Character
  BY Keys DEF ClientTypes, Return
<1> QED BY <1>1 DEF Control, Character

LEMMA FailControl ==
  ASSUME BaseInv, NEW c \in App, NEW st, Fail(c, st)
  PROVE  Control(c)'
<1>1. Return(c) /\ (cut'[c] => lost'[c])
  BY DEF Fail, GiveUp, BaseInv, Control, ClientTypes
<1> QED BY <1>1, ReturnControl DEF BaseInv

LEMMA OwnControl ==
  ASSUME BaseInv, NEW c \in App, StepOf(c)
  PROVE  Control(c)'
<1>0. ClientTypes /\ Control(c)
  BY DEF BaseInv
<1>2. CASE Press(c)
  <2>1. PICK k \in Key :
       /\ k \in Character => k = typed[c] + 1
       /\ typed' = [typed EXCEPT ![c] = IF k \in Character THEN k ELSE @]
       /\ IF GaveUp(c)
          THEN /\ lost' = [lost EXCEPT ![c] = @ \/ Len(document[c]) < typed[c]]
               /\ UNCHANGED <<pc, input>>
          ELSE /\ input' = [input EXCEPT ![c] = k]
               /\ pc' = [pc EXCEPT ![c] = IF HasSession(c) THEN "first" ELSE "session"]
               /\ UNCHANGED <<server_status, document, lost>>
       /\ UNCHANGED <<server_vars, session_id, history_inputs, played, partial, cut, faults, locks>>
       /\ pc[c] = "idle" /\ c \in alive
    BY <1>2 DEF Press
  <2>2. Enter \notin Character
    BY Keys
  <2>3. CASE GaveUp(c)
    <3>1. pc'[c] = "idle" /\ input'[c] = Enter /\ played'[c] = 0 /\ (cut'[c] => lost'[c])
      BY <1>0, <2>1, <2>3 DEF Control, ClientTypes
    <3> QED BY <2>2, <3>1 DEF Control, Character
  <2>4. CASE ~GaveUp(c)
    <3>1. /\ input'[c] = k /\ (k \in Character => typed'[c] = k) /\ played'[c] = 0
          /\ pc'[c] = IF HasSession(c) THEN "first" ELSE "session"
          /\ c \in alive' /\ server_status'[c] = server_status[c] /\ (cut'[c] => lost'[c])
      BY <1>0, <2>1, <2>4 DEF Control, ClientTypes, server_vars
    <3>2. ~HasSession(c) => server_status[c] \in {"UNKNOWN", "SHUTDOWN", "INVALID_SESSION"}
      BY <1>0, <2>4 DEF HasSession, GaveUp, ClientTypes, Status
    <3> QED BY <3>1, <3>2 DEF Control, HasSession, Character
  <2> QED BY <2>3, <2>4
<1>3. CASE StartServer(c)
  <2>1. CASE Fail(c, "FATAL")
    BY <2>1, FailControl
  <2>2. CASE Launch /\ server_status' = [server_status EXCEPT ![c] = "INVALID_SESSION"]
             /\ UNCHANGED <<session_id, history_inputs, pc, input, played, document,
                            typed, lost, partial, cut, faults, locks>>
    <3>1. pc[c] \in {"session", "again"} /\ server_status'[c] = "INVALID_SESSION"
      BY <1>0, <1>3, <2>2 DEF StartServer, ClientTypes
    <3> QED BY <1>0, <2>2, <3>1 DEF Launch, Control, Character
  <2> QED BY <1>3, <2>1, <2>2 DEF StartServer
<1>4. CASE CreateSessionCall(c)
  <2>0. pc[c] \in {"session", "again"} /\ played[c] = 0 /\ c \in alive
    BY <1>0, <1>4 DEF CreateSessionCall, Control
  <2>1. CASE Created(c)
    <3>1. UNCHANGED alive
      BY <2>1 DEF Created, CreateSession
    <3>2. lost[c] => lost'[c]
      BY <1>0, <2>1 DEF Created, GiveUp, ClientTypes
    <3>3. PlaybackOf(c) # <<>> => 0 < Len(PlaybackOf(c))
      BY <1>0 DEF PlaybackOf, ClientTypes
    <3>4. /\ pc'[c] \in {"first", "second", "playback"} /\ server_status'[c] = "OK"
          /\ pc'[c] = "playback" => history_inputs'[c] = PlaybackOf(c) /\ PlaybackOf(c) # <<>>
      BY <1>0, <2>1 DEF Created, ClientTypes
    <3> QED BY <1>0, <2>0, <2>1, <3>1, <3>2, <3>3, <3>4 DEF Created, Control, Character
  <2>2. CASE NotCreated(c)
    <3>1. UNCHANGED alive
      BY <2>2, ServedCallFails DEF NotCreated, CallTimesOut, CreateSession, server_vars
    <3>2. /\ pc'[c] = "report" /\ session_id'[c] = 0
          /\ server_status'[c] \in {"SHUTDOWN", "TIMEOUT"}
      BY <1>0, <2>2 DEF NotCreated, ClientTypes
    <3> QED BY <1>0, <2>0, <2>2, <3>1, <3>2 DEF NotCreated, Control, Character
  <2> QED BY <1>4, <2>1, <2>2, CreateEnds
<1>5. CASE Report(c)
  BY <1>5, FailControl DEF Report
<1>6. CASE CallFirst(c)
  <2>0. pc[c] = "first" /\ c \in alive /\ played[c] = 0
    BY <1>0, <1>6 DEF CallFirst, Control
  <2>1. CASE Taken(c)
    BY <1>0, <2>1, ReturnControl DEF Taken, Control
  <2>2. CASE /\ \/ running /\ ~Accepts(session_id[c])
                   /\ server_status' = [server_status EXCEPT ![c] = "INVALID_SESSION"]
                   /\ UNCHANGED <<server_vars, faults>>
                \/ CallFails(c) /\ server_status' = [server_status EXCEPT ![c] = "SHUTDOWN"]
             /\ pc' = [pc EXCEPT ![c] = "again"]
             /\ UNCHANGED <<session_id, history_inputs, input, played, document,
                            typed, lost, partial, cut>>
    <3>1. UNCHANGED alive
      BY <2>2, ServedCallFails DEF server_vars
    <3>2. pc'[c] = "again" /\ server_status'[c] \in {"INVALID_SESSION", "SHUTDOWN"}
      BY <1>0, <2>2 DEF ClientTypes
    <3> QED BY <1>0, <2>0, <2>2, <3>1, <3>2 DEF Control, Character
  <2>3. CASE Fail(c, "TIMEOUT")
    BY <2>3, FailControl
  <2> QED BY <1>6, <2>1, <2>2, <2>3 DEF CallFirst
<1>7. CASE PlayBack(c)
  <2>0. /\ pc[c] = "playback" /\ c \in alive /\ server_status[c] = "OK"
        /\ played[c] < Len(history_inputs[c]) /\ played[c] \in Nat /\ Len(history_inputs[c]) \in Nat
        /\ UNCHANGED <<session_id, history_inputs, input, document, typed, partial, locks>>
    BY <1>0, <1>7 DEF PlayBack, Control, ClientTypes
  <2>1. CASE /\ SendKey(session_id[c], history_inputs[c][played[c] + 1])
             /\ played' = [played EXCEPT ![c] = played[c] + 1]
             /\ pc' = [pc EXCEPT ![c] = IF played[c] + 1 = Len(history_inputs[c]) THEN "second" ELSE @]
             /\ IF Accepts(session_id[c]) THEN UNCHANGED <<lost, cut>> ELSE CutShort(c)
             /\ UNCHANGED <<server_status, faults>>
    <3>1. UNCHANGED alive
      BY <2>1 DEF SendKey
    <3>2. cut'[c] => lost'[c]
      BY <1>0, <2>1 DEF CutShort, ClientTypes, Control
    <3>3. /\ played'[c] = played[c] + 1 /\ server_status'[c] = "OK"
          /\ pc'[c] = IF played[c] + 1 = Len(history_inputs[c]) THEN "second" ELSE "playback"
      BY <1>0, <2>0, <2>1 DEF ClientTypes
    <3> QED BY <1>0, <2>0, <3>1, <3>2, <3>3 DEF Control, Character
  <2>2. CASE /\ \/ CallFails(c) /\ server_status' = [server_status EXCEPT ![c] = "SHUTDOWN"]
                \/ /\ CallTimesOut(SendKey(session_id[c], history_inputs[c][played[c] + 1]))
                   /\ server_status' = [server_status EXCEPT ![c] = "TIMEOUT"]
             /\ pc' = [pc EXCEPT ![c] = "second"]
             /\ CutShort(c) /\ UNCHANGED played
    <3>1. UNCHANGED alive
      BY <2>2, ServedCallFails DEF CallTimesOut, SendKey, server_vars
    <3>2. cut'[c] /\ lost'[c] /\ pc'[c] = "second" /\ server_status'[c] \in {"SHUTDOWN", "TIMEOUT"}
      BY <1>0, <2>2 DEF CutShort, ClientTypes
    <3> QED BY <1>0, <2>0, <2>2, <3>1, <3>2 DEF Control, Character
  <2> QED BY <1>7, <2>1, <2>2 DEF PlayBack
<1>8. CASE CallSecond(c)
  <2>1. CASE Taken(c)
    BY <1>0, <2>1, ReturnControl DEF Taken, Control
  <2>2. CASE Return(c) /\ GiveUp(c) /\ UNCHANGED cut
    <3>1. cut'[c] => lost'[c]
      BY <1>0, <2>2 DEF GiveUp, ClientTypes, Control
    <3> QED BY <1>0, <2>2, <3>1, ReturnControl
  <2>3. CASE \E st \in Status : Fail(c, st)
    BY <2>3, FailControl
  <2> QED BY <1>8, <2>1, <2>2, <2>3 DEF CallSecond, Status
<1>9. CASE CallCommand(c)
  <2>1. /\ pc'[c] = "idle" /\ UNCHANGED <<pc, input, played, typed, cut, lost>> /\ pc[c] = "idle"
    BY <1>9 DEF CallCommand
  <2>2. Enter \notin Character
    BY Keys
  <2> QED BY <1>0, <2>1, <2>2 DEF Control, Character
<1>10. CASE AppEnds(c)
  <2>1. /\ pc'[c] = "idle" /\ UNCHANGED <<pc, input, played>> /\ pc[c] = "idle" /\ ~cut'[c]
    BY <1>0, <1>10 DEF AppEnds, ClientTypes
  <2>2. Enter \notin Character
    BY Keys
  <2> QED BY <1>0, <2>1, <2>2 DEF Control, Character
<1> QED BY <1>2, <1>3, <1>4, <1>5, <1>6, <1>7, <1>8, <1>9, <1>10 DEF StepOf, ClientStep

\* What a step of a client makes of the id it holds, and of the bound on locks.
LEMMA OwnID ==
  ASSUME BaseInv, NEW c \in App, StepOf(c)
  PROVE  /\ session_id'[c] = session_id[c] \/ session_id'[c] = 0 \/ session_id'[c] = NewID
         /\ UNCHANGED locks
<1> USE DEF ClientTypes
<1>0. ClientTypes
  BY DEF BaseInv
<1>1. CASE CreateSessionCall(c)
  BY <1>0, <1>1 DEF CreateSessionCall
<1>2. CASE AppEnds(c)
  BY <1>0, <1>2 DEF AppEnds
<1>3. CASE Press(c) \/ StartServer(c) \/ Report(c) \/ CallFirst(c) \/ PlayBack(c) \/ CallSecond(c) \/ CallCommand(c)
  BY <1>0, <1>3 DEF Press, StartServer, Report, CallFirst, PlayBack, CallSecond, CallCommand, Taken, Fail
<1> QED BY <1>1, <1>2, <1>3 DEF StepOf, ClientStep

LEMMA SameControl ==
  ASSUME NEW d, View(d)' = View(d), d \in alive => d \in alive', Control(d)
  PROVE  Control(d)'
  BY DEF View, Control, Character

LEMMA BaseStep ==
  ASSUME BaseInv, [Next]_vars
  PROVE  BaseInv'
<1>1. ASSUME NEW c \in App, StepOf(c) PROVE BaseInv'
  <2>1. ClientTypes'
    BY <1>1, Types
  <2>2. MapInv' /\ (~running' => Ids' = {}) /\ (sync_locked' => sync_locked)
    BY <1>1, Server DEF Served
  <2>3. locks' = 0 => ~sync_locked'
    BY <1>1, <2>2, OwnID DEF BaseInv, Shared
  <2>4. \A d, e \in App : session_id'[d] = session_id'[e] /\ session_id'[d] # 0 => d = e
    <3>1. \A d \in App : d # c => session_id'[d] = session_id[d]
      BY <1>1, Others DEF View
    <3>2. session_id'[c] = session_id[c] \/ session_id'[c] = 0 \/ session_id'[c] = NewID
      BY <1>1, OwnID
    <3>3. \A d \in App : NewID # session_id[d]
      BY NewIDIs DEF BaseInv
    <3> QED BY <3>1, <3>2, <3>3 DEF BaseInv, Shared
  <2>5. \A d \in App : Control(d)'
    <3>1. ASSUME NEW d \in App, d # c PROVE Control(d)'
      <4>1. View(d)' = View(d) /\ (d \in alive => d \in alive')
        BY <1>1, <3>1, Others
      <4> QED BY <4>1, SameControl DEF BaseInv
    <3> QED BY <1>1, <3>1, OwnControl
  <2> QED BY <2>1, <2>2, <2>3, <2>4, <2>5 DEF BaseInv, Shared
<1>2. ASSUME Environment PROVE BaseInv'
  <2>1. \A d \in App : Control(d)'
    BY <1>2, Surroundings, SameControl DEF BaseInv
  <2> QED BY <1>2, <2>1, Surroundings DEF BaseInv, Shared, ClientTypes, client_vars
<1>3. ASSUME UNCHANGED vars PROVE BaseInv'
  <2>1. \A d \in App : Control(d)'
    BY <1>3 DEF vars, server_vars, client_vars, BaseInv, Control, Character
  <2>2. MapInv' /\ Ids' = Ids
    BY <1>3 DEF vars, server_vars, map_vars, BaseInv, MapInv, Ids
  <2> QED BY <1>3, <2>1, <2>2 DEF vars, server_vars, client_vars, BaseInv, Shared, ClientTypes
<1> QED BY <1>1, <1>2, <1>3 DEF Next, StepOf

LEMMA BaseInit ==
  ASSUME Init
  PROVE  BaseInv
<1>1. MapInv /\ Ids = {}
  BY EmptyMap DEF Init, ServerInit
<1>2. ClientTypes
  <2>1. <<>> \in Seq(Key) /\ <<>> \in Seq(Character)
    OBVIOUS
  <2>2. /\ server_status \in [App -> Status] /\ pc \in [App -> PC] /\ input \in [App -> Key]
        /\ running = FALSE /\ sync_locked = FALSE /\ alive = App
    BY DEF Init, ServerInit, Status, PC, Key
  <2>3. /\ typed \in [App -> 0..MaxKeys] /\ played \in [App -> Nat]
        /\ faults \in 0..MaxFaults /\ locks \in 0..MaxLocks
    BY SessionHandlerAssumption, ClientAssumption DEF Init
  <2> QED BY <2>1, <2>2, <2>3 DEF Init, ClientTypes
<1>3. \A c \in App : Control(c)
  BY Keys DEF Init, Control
<1> QED BY <1>1, <1>2, <1>3 DEF BaseInv, Shared, Init, ServerInit

LEMMA BaseAlways == Spec => []BaseInv
<1>1. Init => BaseInv
  BY BaseInit
<1>2. BaseInv /\ [Next]_vars => BaseInv'
  BY BaseStep
<1> QED BY <1>1, <1>2, PTL DEF Spec

\* The variables have their types, and the server's list of sessions never
\* outgrows its limit, whatever the number of clients (SessionHandler).
THEOREM Typing == Spec => []TypeOK
<1>1. BaseInv => TypeOK
  BY DEF BaseInv, ClientTypes, MapInv, TypeOK
<1> QED BY <1>1, BaseAlways, PTL

-----------------------------------------------------------------------------
(* One session for each application.                                       *)

\* Until a sync locks the server, a session of an application that still calls
\* is the one its client holds and believes in, and there is no other of it.
One(c) ==
  \A i \in Ids : session_map[i].app = c =>
    /\ c \in alive /\ ~GaveUp(c) => server_status[c] = "OK" /\ session_id[c] = i
    /\ \A j \in Ids : session_map[j].app = c => j = i

OneInv == locks = 0 => \A c \in App : One(c)

AppsKept(d) == \A i \in Ids' : session_map'[i].app = d => i \in Ids /\ session_map[i].app = d

LEMMA Apps ==
  ASSUME BaseInv, NEW c \in App, StepOf(c), NEW d \in App, d # c \/ ~CreateSessionCall(c)
  PROVE  AppsKept(d)
<1>k. input[c] \in Key /\ \A n \in 1..Len(history_inputs[c]) : history_inputs[c][n] \in Key
  BY DEF BaseInv, ClientTypes
<1>l. (\A i : Leaves(i)) => AppsKept(d)
  BY DEF Leaves, AppsKept
<1>s. ASSUME NEW k \in Key, SendKey(session_id[c], k) PROVE AppsKept(d)
  BY <1>s, SendKeyMap DEF BaseInv, AppsKept
<1>1. CASE Press(c) \/ CallCommand(c)
  BY <1>l, <1>1, ServedSame DEF Press, CallCommand, server_vars
<1>2. CASE StartServer(c)
  BY <1>l, <1>2, ServedSame, ServedLaunch DEF StartServer, LaunchFails, server_vars
<1>3. CASE CreateSessionCall(c)
  <2>1. ASSUME CreateSession(NewID, c), running PROVE AppsKept(d)
    <3>1. session_map'[NewID].app = c /\ \A i : i # NewID => Leaves(i)
      BY <2>1, ServedCreate, NewIsCoherent
    <3> QED BY <1>3, <3>1 DEF Leaves, AppsKept
  <2>2. CallFails(c) => AppsKept(d)
    BY ServedCallFails DEF AppsKept
  <2>3. UNCHANGED server_vars => AppsKept(d)
    BY <1>l, ServedSame DEF server_vars
  <2> QED BY <1>3, <2>1, <2>2, <2>3 DEF CreateSessionCall, CallTimesOut
<1>4. CASE Report(c)
  BY <1>l, <1>4, ServedSame, ServedLaunch DEF Report, LaunchFails, server_vars
<1>5. CallFails(c) => AppsKept(d)
  BY ServedCallFails DEF AppsKept
<1>6. UNCHANGED server_vars => AppsKept(d)
  BY <1>l, ServedSame DEF server_vars
<1>7. CASE CallFirst(c)
  BY <1>k, <1>s, <1>5, <1>6, <1>7 DEF CallFirst, CallTimesOut, Taken
<1>8. CASE PlayBack(c)
  <2>1. pc[c] = "playback" /\ played[c] + 1 \in 1..Len(history_inputs[c])
    BY <1>8 DEF PlayBack, BaseInv, Control, ClientTypes
  <2> QED BY <1>k, <1>s, <1>5, <1>6, <1>8, <2>1 DEF PlayBack, CallTimesOut
<1>9. CASE CallSecond(c)
  BY <1>k, <1>s, <1>5, <1>6, <1>9 DEF CallSecond, CallTimesOut, Taken
<1>10. CASE AppEnds(c)
  <2>1. CASE DeleteSessionIDs({session_id[c]} \cap Ids)
    BY <1>l, <2>1, DeleteMap DEF BaseInv
  <2>2. CASE UNCHANGED map_vars
    BY <1>l, <1>10, <2>2, ServedSame DEF AppEnds
  <2> QED BY <1>10, <2>1, <2>2 DEF AppEnds
<1> QED BY <1>1, <1>2, <1>3, <1>4, <1>7, <1>8, <1>9, <1>10 DEF StepOf, ClientStep

LEMMA OneKept ==
  ASSUME NEW c \in App, One(c), AppsKept(c),
         c \in alive' /\ ~GaveUp(c)' =>
           /\ c \in alive /\ ~GaveUp(c) /\ session_id'[c] = session_id[c]
           /\ server_status[c] = "OK" => server_status'[c] = "OK"
  PROVE  One(c)'
  BY DEF One, AppsKept, Ids

\* A client that takes its session for void is right, and has none.
LEMMA OwnOne ==
  ASSUME BaseInv, NEW c \in App, One(c), StepOf(c), locks = 0
  PROVE  One(c)'
<1>0. ClientTypes /\ Control(c) /\ ~sync_locked /\ (~running => Ids = {})
  BY DEF BaseInv, Shared
<1>e. Ids' = {} => One(c)'
  BY DEF One
<1>n. c \in alive /\ ~GaveUp(c) /\ server_status[c] # "OK" =>
        \A i \in Ids : session_map[i].app # c
  BY DEF One
<1>a. ~CreateSessionCall(c) => AppsKept(c)
  BY Apps
<1>f. ASSUME GaveUp(c)', AppsKept(c) PROVE One(c)'
  BY <1>f, OneKept
<1>r. ASSUME \A i \in Ids : session_map[i].app # c, AppsKept(c) PROVE One(c)'
  BY <1>r DEF AppsKept, One, Ids
<1>x. CallFails(c) => Ids' = {}
  BY ServedCallFails
<1>t. ASSUME NEW st, \/ Fail(c, st)
                     \/ server_status' = [server_status EXCEPT ![c] = st]
      PROVE  server_status'[c] = st
  BY <1>0, <1>t DEF Fail, ClientTypes
<1>1. CASE Press(c)
  <2>1. /\ c \in alive /\ session_id' = session_id
        /\ server_status' = server_status \/ GaveUp(c)'
    BY <1>0, <1>1 DEF Press, GaveUp, ClientTypes
  <2>2. server_status' = server_status => (GaveUp(c)' <=> GaveUp(c))
    BY DEF GaveUp
  <2> QED BY <1>1, <1>a, <1>f, <2>1, <2>2, OneKept DEF Press, CreateSessionCall, server_vars
<1>2. CASE StartServer(c)
  <2>1. /\ pc[c] \in {"session", "again"} /\ c \in alive /\ ~GaveUp(c) /\ server_status[c] # "OK"
    BY <1>0, <1>2 DEF StartServer, Control, GaveUp
  <2>2. AppsKept(c)
    BY <1>2, <1>a DEF StartServer, CreateSessionCall
  <2> QED BY <1>n, <1>r, <2>1, <2>2
<1>3. CASE CreateSessionCall(c)
  <2>1. /\ c \in alive /\ ~GaveUp(c) /\ server_status[c] # "OK"
    BY <1>0, <1>3 DEF CreateSessionCall, Control, GaveUp
  <2>2. \A i \in Ids : session_map[i].app # c
    BY <1>n, <2>1
  <2>3. ASSUME CreateSession(NewID, c), running
        PROVE  \A i \in Ids' : session_map'[i].app = c => i = NewID
    <3>1. \A i : i # NewID => Leaves(i)
      BY <2>3, ServedCreate
    <3> QED BY <2>2, <3>1 DEF Leaves
  <2>4. CASE Created(c)
    <3>1. session_id'[c] = NewID /\ server_status'[c] = "OK"
      BY <1>0, <2>4 DEF Created, ClientTypes
    <3> QED BY <2>3, <2>4, <3>1 DEF Created, One, Ids
  <2>5. CASE NotCreated(c)
    <3>1. CASE CallFails(c)
      BY <1>e, <1>x, <3>1
    <3>2. CASE /\ CallTimesOut(CreateSession(NewID, c))
               /\ server_status' = [server_status EXCEPT ![c] = "TIMEOUT"]
      <4>1. GaveUp(c)'
        BY <1>t, <3>2 DEF GaveUp
      <4>2. CASE CreateSession(NewID, c)
        BY <2>3, <3>2, <4>1, <4>2 DEF One, GaveUp, Ids, CallTimesOut
      <4>3. CASE UNCHANGED server_vars
        <5>1. AppsKept(c)
          BY <4>3 DEF AppsKept, server_vars, map_vars, Ids
        <5> QED BY <1>f, <4>1, <5>1
      <4> QED BY <3>2, <4>2, <4>3 DEF CallTimesOut
    <3> QED BY <2>5, <3>1, <3>2 DEF NotCreated
  <2> QED BY <1>3, <2>4, <2>5, CreateEnds
<1>4. CASE Report(c)
  <2>1. AppsKept(c) /\ pc[c] = "report" /\ c \in alive
    BY <1>0, <1>4, <1>a DEF Report, CreateSessionCall, Control
  <2>2. CASE server_status[c] = "SHUTDOWN"
    BY <1>n, <1>r, <2>1, <2>2 DEF GaveUp
  <2>3. CASE server_status[c] = "TIMEOUT" /\ Fail(c, "FATAL")
    BY <1>f, <1>t, <2>1, <2>3 DEF GaveUp
  <2> QED BY <1>4, <2>2, <2>3 DEF Report
<1>5. CASE CallFirst(c)
  <2>1. AppsKept(c) /\ pc[c] = "first" /\ c \in alive /\ server_status[c] = "OK" /\ ~GaveUp(c)
    BY <1>0, <1>5, <1>a DEF CallFirst, CreateSessionCall, Control, GaveUp
  <2>2. CASE Taken(c)
    <3>1. UNCHANGED <<server_status, session_id>>
      BY <2>2 DEF Taken
    <3> QED BY <2>1, <3>1, OneKept DEF GaveUp
  <2>3. CASE ~Accepts(session_id[c])
    <3>1. session_id[c] \notin Ids
      BY <1>0, <2>3 DEF Accepts
    <3>2. \A i \in Ids : session_map[i].app # c
      BY <2>1, <3>1 DEF One
    <3> QED BY <1>r, <2>1, <3>2
  <2>4. CASE CallFails(c)
    BY <1>e, <1>x, <2>4
  <2>5. CASE Fail(c, "TIMEOUT")
    BY <1>f, <1>t, <2>1, <2>5 DEF GaveUp
  <2> QED BY <1>5, <2>2, <2>3, <2>4, <2>5 DEF CallFirst
<1>6. CASE PlayBack(c)
  <2>1. AppsKept(c) /\ pc[c] = "playback" /\ c \in alive /\ server_status[c] = "OK" /\ ~GaveUp(c)
        /\ UNCHANGED session_id
    BY <1>0, <1>6, <1>a DEF PlayBack, CreateSessionCall, Control, GaveUp
  <2>2. CASE UNCHANGED server_status
    BY <2>1, <2>2, OneKept DEF GaveUp
  <2>3. CASE CallFails(c)
    BY <1>e, <1>x, <2>3
  <2>4. CASE server_status' = [server_status EXCEPT ![c] = "TIMEOUT"]
    BY <1>f, <1>t, <2>1, <2>4 DEF GaveUp
  <2> QED BY <1>6, <2>2, <2>3, <2>4 DEF PlayBack
<1>7. CASE CallSecond(c)
  <2>1. AppsKept(c) /\ pc[c] = "second" /\ c \in alive
    BY <1>0, <1>7, <1>a DEF CallSecond, CreateSessionCall, Control
  <2>2. CASE UNCHANGED <<server_status, session_id>>
    BY <2>1, <2>2, OneKept DEF GaveUp
  <2>3. CASE CallFails(c)
    BY <1>e, <1>x, <2>3
  <2>4. CASE Fail(c, "TIMEOUT")
    BY <1>f, <1>t, <2>1, <2>4 DEF GaveUp
  <2> QED BY <1>7, <2>2, <2>3, <2>4 DEF CallSecond, Taken
<1>8. CASE CallCommand(c)
  <2>1. ~running /\ UNCHANGED Ids
    BY <1>8 DEF CallCommand, server_vars, map_vars, Ids
  <2> QED BY <1>0, <1>e, <2>1
<1>9. CASE AppEnds(c)
  <2>1. AppsKept(c) /\ c \notin alive'
    BY <1>9, <1>a DEF AppEnds, CreateSessionCall
  <2> QED BY <2>1, OneKept
<1> QED BY <1>1, <1>2, <1>3, <1>4, <1>5, <1>6, <1>7, <1>8, <1>9 DEF StepOf, ClientStep

LEMMA OneStep ==
  ASSUME BaseInv, OneInv, [Next]_vars
  PROVE  OneInv'
<1> SUFFICES ASSUME locks' = 0, NEW d \in App PROVE One(d)'
  BY DEF OneInv
<1>1. ASSUME NEW c \in App, StepOf(c) PROVE One(d)'
  <2>1. locks = 0
    BY <1>1, OwnID
  <2>2. CASE d = c
    BY <1>1, <2>1, <2>2, OwnOne DEF OneInv
  <2>3. CASE d # c
    <3>1. View(d)' = View(d) /\ (d \in alive' <=> d \in alive)
      BY <1>1, <2>3, Others
    <3>2. AppsKept(d)
      BY <1>1, <2>3, Apps
    <3>3. /\ server_status'[d] = server_status[d] /\ session_id'[d] = session_id[d]
          /\ GaveUp(d)' <=> GaveUp(d)
      BY <3>1 DEF View, GaveUp
    <3> QED BY <2>1, <3>1, <3>2, <3>3, OneKept DEF OneInv
  <2> QED BY <2>2, <2>3
<1>2. ASSUME Environment PROVE One(d)'
  <2>1. locks = 0
    BY <1>2 DEF Environment, WatchDog, BaseInv, ClientTypes
  <2>2. AppsKept(d) /\ UNCHANGED <<client_vars, alive>>
    BY <1>2, Surroundings, SessionHandlerAssumption DEF AppsKept, Leaves
  <2> QED BY <2>1, <2>2, OneKept DEF OneInv, client_vars, GaveUp
<1>3. ASSUME UNCHANGED vars PROVE One(d)'
  BY <1>3 DEF vars, server_vars, map_vars, client_vars, OneInv, One, Ids, GaveUp
<1> QED BY <1>1, <1>2, <1>3 DEF Next, StepOf

\* Before the first sync lock the server holds one session for an application
\* at most (EnsureSession, CreateSession).
THEOREM OneSession == Spec => []OneSessionEach
<1>1. Init => OneInv
  <2>1. Init => Ids = {}
    BY EmptyMap DEF Init, ServerInit
  <2> QED BY <2>1 DEF OneInv, One
<1>2. BaseInv /\ OneInv /\ [Next]_vars => OneInv'
  BY OneStep
<1>3. OneInv => OneSessionEach
  BY DEF OneInv, One, OneSessionEach
<1> QED BY <1>1, <1>2, <1>3, BaseAlways, PTL DEF Spec

-----------------------------------------------------------------------------
(* Texts: the first characters in order, and texts without a repetition.   *)

LEMMA CountIs ==
  ASSUME NEW n \in Nat
  PROVE  Count(n) \in Seq(Nat) /\ Len(Count(n)) = n /\ \A i \in 1..n : Count(n)[i] = i
<1>1. Count(n) \in [1..n -> Nat]
  BY DEF Count
<1>2. Count(n) \in Seq(Nat)
  BY <1>1, SeqDef
<1> QED BY <1>2 DEF Count

LEMMA Characters == \A t \in Seq(Character) : t \in Seq(Nat)
  BY Keys, SeqMonotonic

LEMMA CountOf ==
  ASSUME NEW d \in Seq(Nat), NEW n \in Nat
  PROVE  d = Count(n) <=> Len(d) = n /\ \A i \in 1..Len(d) : d[i] = i
<1>1. Count(n) \in Seq(Nat) /\ Len(Count(n)) = n /\ \A i \in 1..n : Count(n)[i] = i
  BY CountIs
<1>2. ASSUME Len(d) = n, \A i \in 1..Len(d) : d[i] = i PROVE d = Count(n)
  <2>1. Len(d) = Len(Count(n)) /\ \A i \in 1..Len(d) : d[i] = Count(n)[i]
    BY <1>1, <1>2
  <2> HIDE <1>2
  <2> QED BY <1>1, <2>1, SeqEqual
<1> QED BY <1>1, <1>2

LEMMA Concat ==
  ASSUME NEW d \in Seq(Nat), NEW t \in Seq(Nat)
  PROVE  /\ d \o t \in Seq(Nat) /\ Len(d \o t) = Len(d) + Len(t)
         /\ \A i \in 1..Len(d) : (d \o t)[i] = d[i]
         /\ \A i \in 1..Len(t) : (d \o t)[Len(d) + i] = t[i]
         /\ \A i \in 1..Len(d \o t) : i \in 1..Len(d) \/ (i - Len(d) \in 1..Len(t) /\ (d \o t)[i] = t[i - Len(d)])
<1>1. /\ d \o t \in Seq(Nat) /\ Len(d \o t) = Len(d) + Len(t)
      /\ \A i \in 1..Len(d) + Len(t) : (d \o t)[i] = IF i <= Len(d) THEN d[i] ELSE t[i - Len(d)]
  BY ConcatProperties
<1>2. Len(d) \in Nat /\ Len(t) \in Nat
  OBVIOUS
<1> DEFINE m == Len(d)
           e == d \o t
<1>3. ASSUME NEW i \in 1..Len(t) PROVE e[m + i] = t[i]
  <2>1. m + i \in 1..Len(d) + Len(t) /\ ~(m + i <= m) /\ (m + i) - m = i
    BY <1>2
  <2> QED BY <1>1, <2>1
<1> QED BY <1>1, <1>2, <1>3

\* d and then t are the numbers from 1 to n.
InOrder(d, t, n) == /\ Len(d) + Len(t) = n
                    /\ \A i \in 1..Len(d) : d[i] = i
                    /\ \A i \in 1..Len(t) : t[i] = Len(d) + i

LEMMA CountOfConcat ==
  ASSUME NEW d \in Seq(Nat), NEW t \in Seq(Nat), NEW n \in Nat
  PROVE  d \o t = Count(n) <=> InOrder(d, t, n)
<1> DEFINE e == d \o t
<1>1. /\ e \in Seq(Nat) /\ Len(e) = Len(d) + Len(t)
      /\ \A i \in 1..Len(d) : e[i] = d[i]
      /\ \A i \in 1..Len(t) : e[Len(d) + i] = t[i]
      /\ \A i \in 1..Len(e) : i \in 1..Len(d) \/ (i - Len(d) \in 1..Len(t) /\ e[i] = t[i - Len(d)])
      /\ Len(d) \in Nat /\ Len(t) \in Nat
  BY Concat
<1> HIDE DEF e
<1>2. e = Count(n) <=> Len(e) = n /\ \A i \in 1..Len(e) : e[i] = i
  BY <1>1, CountOf
<1>3. ASSUME \A i \in 1..Len(e) : e[i] = i
      PROVE  (\A i \in 1..Len(d) : d[i] = i) /\ (\A i \in 1..Len(t) : t[i] = Len(d) + i)
  <2>1. \A i \in 1..Len(t) : Len(d) + i \in 1..Len(e)
    BY <1>1
  <2>2. \A i \in 1..Len(d) : i \in 1..Len(e)
    BY <1>1
  <2>3. ASSUME NEW i \in 1..Len(t) PROVE t[i] = Len(d) + i
    <3>1. e[Len(d) + i] = Len(d) + i
      BY <1>3, <2>1
    <3> QED BY <1>1, <3>1
  <2>4. ASSUME NEW i \in 1..Len(d) PROVE d[i] = i
    BY <1>1, <1>3, <2>2
  <2> QED BY <2>3, <2>4
<1>4. ASSUME (\A i \in 1..Len(d) : d[i] = i) /\ (\A i \in 1..Len(t) : t[i] = Len(d) + i)
      PROVE  \A i \in 1..Len(e) : e[i] = i
  <2> SUFFICES ASSUME NEW i \in 1..Len(e) PROVE e[i] = i
    OBVIOUS
  <2>1. CASE i \in 1..Len(d)
    BY <1>1, <1>4, <2>1
  <2>2. CASE i - Len(d) \in 1..Len(t) /\ e[i] = t[i - Len(d)]
    <3>1. t[i - Len(d)] = Len(d) + (i - Len(d))
      BY <1>4, <2>2
    <3> QED BY <1>1, <2>2, <3>1
  <2> QED BY <1>1, <2>1, <2>2
<1> QED BY <1>1, <1>2, <1>3, <1>4 DEF e, InOrder

\* A text t of nothing but the last characters, and one more of them.
OneMore(d, t, n) == /\ d \o Append(t, n + 1) = Count(n + 1)
                    /\ (d \o t) \o <<>> = Count(n) /\ (d \o t) \o <<n + 1>> = Count(n + 1)
                    /\ Len(d) = n => t = <<>>
                    /\ t = <<>> => d = Count(n)
                    /\ d = Count(Len(d)) /\ Len(d) <= n

LEMMA CountMore ==
  ASSUME NEW d \in Seq(Nat), NEW t \in Seq(Nat), NEW n \in Nat, d \o t = Count(n)
  PROVE  OneMore(d, t, n)
<1>0. Len(d) \in Nat /\ Len(t) \in Nat
  OBVIOUS
<1>1. /\ Len(d) + Len(t) = n /\ \A i \in 1..Len(d) : d[i] = i
      /\ \A i \in 1..Len(t) : t[i] = Len(d) + i
  <2>1. InOrder(d, t, n)
    BY CountOfConcat, Zenon
  <2> QED BY <2>1 DEF InOrder
<1>l. Len(d) + Len(t) = n
  BY <1>1
<1>2. d \o Append(t, n + 1) = Count(n + 1)
  <2> DEFINE u == Append(t, n + 1)
  <2>1. u \in Seq(Nat) /\ u[Len(t) + 1] = n + 1 /\ \A i \in 1..Len(t) : u[i] = t[i]
    OBVIOUS
  <2>l. Len(u) = Len(t) + 1
    OBVIOUS
  <2> HIDE DEF u
  <2>2. Len(d) + Len(u) = n + 1
    BY ONLY <1>0, <1>l, <2>l
  <2>5. ASSUME NEW i \in 1..Len(u) PROVE u[i] = Len(d) + i
    <3>1. CASE i \in 1..Len(t)
      BY <1>1, <2>1, <3>1
    <3>2. CASE i = Len(t) + 1
      <4>1. u[i] = n + 1
        BY <2>1, <3>2
      <4>2. Len(d) + i = n + 1
        <5>1. PICK a \in Nat, b \in Nat : a = Len(d) /\ b = Len(t)
          BY ONLY <1>0
        <5>2. a + b = n /\ i = b + 1
          BY ONLY <1>l, <3>2, <5>1
        <5>3. a + i = n + 1
          BY ONLY <5>2, a \in Nat, b \in Nat
        <5> QED BY ONLY <5>1, <5>3
      <4> QED BY <4>1, <4>2
    <3> QED BY <1>0, <2>l, <3>1, <3>2
  <2>3. n + 1 \in Nat
    OBVIOUS
  <2>4. d \o u = Count(n + 1)
    <3>1. InOrder(d, u, n + 1)
      BY <1>1, <2>2, <2>5 DEF InOrder
    <3> QED BY <2>1, <2>3, <3>1, CountOfConcat, Zenon
  <2> QED BY <2>4 DEF u
<1>3. ASSUME NEW c \in Seq(Nat), c = Count(n)
      PROVE  c \o <<>> = Count(n) /\ c \o <<n + 1>> = Count(n + 1)
  <2>1. Len(c) = n /\ \A i \in 1..Len(c) : c[i] = i
    BY <1>3, CountOf
  <2>2. c \o <<>> = Count(n)
    BY <1>3, ConcatEmptySeq
  <2>3. <<n + 1>> \in Seq(Nat) /\ Len(<<n + 1>>) = 1 /\ <<n + 1>>[1] = n + 1 /\ n + 1 \in Nat
    OBVIOUS
  <2> DEFINE u == <<n + 1>>
  <2>5. u \in Seq(Nat) /\ Len(u) = 1 /\ \A i \in 1..Len(u) : u[i] = Len(c) + i
    BY <2>1, <2>3
  <2> HIDE DEF u
  <2>6. c \o u = Count(n + 1)
    <3>1. Len(c) + Len(u) = n + 1
      BY ONLY <2>1, <2>5
    <3>2. n + 1 \in Nat /\ c \in Seq(Nat) /\ u \in Seq(Nat) /\ \A i \in 1..Len(c) : c[i] = i
      BY <2>1, <2>3, <2>5
    <3>3. PICK m \in Nat : m = n + 1
      BY <3>2
    <3>5. Len(c) + Len(u) = m /\ \A i \in 1..Len(u) : u[i] = Len(c) + i
      BY <2>5, <3>1, <3>3
    <3>4. c \o u = Count(m)
      <4>1. InOrder(c, u, m)
        BY ONLY <3>2, <3>5 DEF InOrder
      <4> QED BY ONLY <3>2, <3>3, <4>1, CountOfConcat, Zenon
    <3> QED BY <3>3, <3>4
  <2>4. c \o <<n + 1>> = Count(n + 1)
    BY <2>6 DEF u
  <2> QED BY <2>2, <2>4
<1>4. d \o t \in Seq(Nat)
  BY Concat
<1>5. Len(d) = n => t = <<>>
  BY <1>1, EmptySeq
<1>6. t = <<>> => d = Count(n)
  BY ConcatEmptySeq
<1>7. d = Count(Len(d)) /\ Len(d) <= n
  BY <1>1, CountOf
<1> QED BY <1>2, <1>3, <1>4, <1>5, <1>6, <1>7 DEF OneMore

LEMMA CountEnds ==
  ASSUME NEW n \in Nat
  PROVE  Append(Count(n), n + 1) = Count(n + 1) /\ Count(n) \o <<>> = Count(n)
<1>1. Count(n) \in Seq(Nat) /\ <<>> \in Seq(Nat)
  BY CountIs
<1>2. <<>> \o Count(n) = Count(n) /\ Count(n) \o <<>> = Count(n)
  BY <1>1, ConcatEmptySeq
<1>3. <<>> \o Append(Count(n), n + 1) = Count(n + 1)
  BY <1>1, <1>2, CountMore DEF OneMore
<1>4. Append(Count(n), n + 1) \in Seq(Nat)
  BY <1>1
<1> QED BY <1>2, <1>3, <1>4, ConcatEmptySeq

\* The characters of d and t are at most n and no two of them are the same.
Apart(d, t, n) ==
  /\ \A i \in 1..Len(d) : d[i] <= n
  /\ \A i \in 1..Len(t) : t[i] <= n
  /\ \A i, j \in 1..Len(d) : d[i] = d[j] => i = j
  /\ \A i, j \in 1..Len(t) : t[i] = t[j] => i = j
  /\ \A i \in 1..Len(d), j \in 1..Len(t) : d[i] # t[j]

LEMMA ApartIsInjective ==
  ASSUME NEW d \in Seq(Nat), NEW t \in Seq(Nat), NEW n \in Nat, Apart(d, t, n)
  PROVE  IsInjective(d \o t) /\ Apart(d \o t, <<>>, n) /\ Apart(d, <<>>, n)
<1> DEFINE e == d \o t
<1>1. /\ e \in Seq(Nat) /\ Len(e) = Len(d) + Len(t)
      /\ \A i \in 1..Len(d) : e[i] = d[i]
      /\ \A i \in 1..Len(e) : i \in 1..Len(d) \/ (i - Len(d) \in 1..Len(t) /\ e[i] = t[i - Len(d)])
      /\ Len(d) \in Nat /\ Len(t) \in Nat /\ DOMAIN e = 1..Len(e)
  BY Concat
<1> HIDE DEF e
<1>2. ASSUME NEW i \in 1..Len(e), NEW j \in 1..Len(e), e[i] = e[j] PROVE i = j
  <2>1. CASE i \in 1..Len(d) /\ j \in 1..Len(d)
    BY <1>1, <1>2, <2>1 DEF Apart
  <2>2. CASE i \notin 1..Len(d) /\ j \notin 1..Len(d)
    <3>3. /\ i - Len(d) \in 1..Len(t) /\ e[i] = t[i - Len(d)]
          /\ j - Len(d) \in 1..Len(t) /\ e[j] = t[j - Len(d)]
      BY <1>1, <2>2
    <3>1. i - Len(d) = j - Len(d)
      BY <1>2, <3>3 DEF Apart
    <3>2. i \in Nat /\ j \in Nat /\ Len(d) \in Nat
      BY <1>1
    <3> QED BY ONLY <3>1, <3>2
  <2>3. CASE i \in 1..Len(d) /\ j \notin 1..Len(d)
    <3>1. e[i] = d[i] /\ e[j] = t[j - Len(d)] /\ j - Len(d) \in 1..Len(t)
      BY <1>1, <2>3
    <3> QED BY <1>2, <2>3, <3>1 DEF Apart
  <2>4. CASE i \notin 1..Len(d) /\ j \in 1..Len(d)
    <3>1. e[j] = d[j] /\ e[i] = t[i - Len(d)] /\ i - Len(d) \in 1..Len(t)
      BY <1>1, <2>4
    <3> QED BY <1>2, <2>4, <3>1 DEF Apart
  <2> QED BY <2>1, <2>2, <2>3, <2>4
<1>3. \A i \in 1..Len(e) : e[i] <= n
  BY <1>1 DEF Apart
<1>4. Len(<<>>) = 0 /\ 1..0 = {}
  OBVIOUS
<1>5. IsInjective(e)
  BY <1>1, <1>2 DEF IsInjective
<1>6. Apart(e, <<>>, n)
  BY <1>2, <1>3, <1>4 DEF Apart
<1>7. Apart(d, <<>>, n)
  BY <1>4 DEF Apart
<1> QED BY <1>5, <1>6, <1>7 DEF e

LEMMA ApartMore ==
  ASSUME NEW d \in Seq(Nat), NEW t \in Seq(Nat), NEW n \in Nat, Apart(d, t, n)
  PROVE  /\ Apart(d, t, n + 1)
         /\ Apart(Append(d, n + 1), t, n + 1) /\ Apart(d, Append(t, n + 1), n + 1)
         /\ Apart(d, <<n + 1>>, n + 1)
<1>0. Len(d) \in Nat /\ Len(t) \in Nat
  OBVIOUS
<1>a. ASSUME NEW u \in Seq(Nat)
      PROVE  /\ Len(Append(u, n + 1)) = Len(u) + 1 /\ Append(u, n + 1)[Len(u) + 1] = n + 1
             /\ \A i \in 1..Len(u) : Append(u, n + 1)[i] = u[i]
  OBVIOUS
<1>1. /\ \A i \in 1..Len(d) : d[i] \in Nat /\ d[i] <= n
      /\ \A i \in 1..Len(t) : t[i] \in Nat /\ t[i] <= n
  BY DEF Apart
<1>2. Apart(d, t, n + 1)
  BY <1>1 DEF Apart
<1>3. Apart(Append(d, n + 1), t, n + 1)
  <2> DEFINE u == Append(d, n + 1)
  <2>1. Len(u) = Len(d) + 1 /\ u[Len(d) + 1] = n + 1 /\ \A i \in 1..Len(d) : u[i] = d[i]
    BY <1>a
  <2> HIDE DEF u
  <2>2. \A i \in 1..Len(u) : i \in 1..Len(d) \/ i = Len(d) + 1
    BY <1>0, <2>1
  <2>3. Apart(u, t, n + 1)
    <3>1. \A i \in 1..Len(d) : u[i] \in Nat /\ u[i] <= n /\ u[i] # n + 1
      <4> SUFFICES ASSUME NEW i \in 1..Len(d) PROVE u[i] \in Nat /\ u[i] <= n /\ u[i] # n + 1
        OBVIOUS
      <4>1. u[i] \in Nat /\ u[i] <= n
        BY <1>1, <2>1
      <4> QED BY <4>1
    <3>2. ASSUME NEW i \in 1..Len(u), NEW j \in 1..Len(u), u[i] = u[j] PROVE i = j
      BY <2>1, <2>2, <3>1, <3>2 DEF Apart
    <3>3. ASSUME NEW i \in 1..Len(u) PROVE u[i] <= n + 1
      <4>1. CASE i \in 1..Len(d)
        BY <3>1, <4>1
      <4>2. CASE i = Len(d) + 1
        BY <2>1, <4>2
      <4> QED BY <2>2, <4>1, <4>2
    <3>4. ASSUME NEW i \in 1..Len(u), NEW j \in 1..Len(t) PROVE u[i] # t[j]
      <4>1. CASE i \in 1..Len(d)
        BY <2>1, <4>1 DEF Apart
      <4>2. CASE i = Len(d) + 1
        BY <1>1, <2>1, <4>2
      <4> QED BY <2>2, <4>1, <4>2
    <3> QED BY <1>1, <3>2, <3>3, <3>4 DEF Apart
  <2> QED BY <2>3 DEF u
<1>4. Apart(d, Append(t, n + 1), n + 1)
  <2> DEFINE u == Append(t, n + 1)
  <2>1. Len(u) = Len(t) + 1 /\ u[Len(t) + 1] = n + 1 /\ \A i \in 1..Len(t) : u[i] = t[i]
    BY <1>a
  <2> HIDE DEF u
  <2>2. \A i \in 1..Len(u) : i \in 1..Len(t) \/ i = Len(t) + 1
    BY <1>0, <2>1
  <2>3. Apart(d, u, n + 1)
    <3>1. \A i \in 1..Len(t) : u[i] \in Nat /\ u[i] <= n /\ u[i] # n + 1
      <4> SUFFICES ASSUME NEW i \in 1..Len(t) PROVE u[i] \in Nat /\ u[i] <= n /\ u[i] # n + 1
        OBVIOUS
      <4>1. u[i] \in Nat /\ u[i] <= n
        BY <1>1, <2>1
      <4> QED BY <4>1
    <3>2. ASSUME NEW i \in 1..Len(u), NEW j \in 1..Len(u), u[i] = u[j] PROVE i = j
      BY <2>1, <2>2, <3>1, <3>2 DEF Apart
    <3>3. ASSUME NEW i \in 1..Len(u) PROVE u[i] <= n + 1
      <4>1. CASE i \in 1..Len(t)
        BY <3>1, <4>1
      <4>2. CASE i = Len(t) + 1
        BY <2>1, <4>2
      <4> QED BY <2>2, <4>1, <4>2
    <3>4. ASSUME NEW i \in 1..Len(u), NEW j \in 1..Len(d) PROVE u[i] # d[j]
      <4>1. CASE i \in 1..Len(t)
        BY <2>1, <4>1 DEF Apart
      <4>2. CASE i = Len(t) + 1
        BY <1>1, <2>1, <4>2
      <4> QED BY <2>2, <4>1, <4>2
    <3> QED BY <1>1, <3>2, <3>3, <3>4 DEF Apart
  <2> QED BY <2>3 DEF u
<1>5. Apart(d, <<n + 1>>, n + 1)
  <2>1. Len(<<n + 1>>) = 1 /\ <<n + 1>>[1] = n + 1 /\ 1..1 = {1}
    OBVIOUS
  <2> QED BY <1>1, <2>1 DEF Apart
<1> QED BY <1>2, <1>3, <1>4, <1>5

-----------------------------------------------------------------------------
(* What a key leaves true of the document d, the journal h, the mark p of  *)
(* a partial commit and the session s, when n characters have been typed.  *)

Over(h) == Len(h) >= MaxPlayBackSize

Kept(d, h, p, n) ==
  /\ d = Count(Len(d)) /\ Len(d) <= n
  /\ p => Len(d) < n
  /\ ~p /\ ~Over(h) => d \o Replayed(h).text = Count(n)

Shown(d, h, p, n, s) ==
  /\ d \o s.text = Count(n)
  /\ ~p /\ ~Over(h) => Same(s, Replayed(h))

\* The same for Taken(c) of the module Client, of one client.
PushedHistory(h, s, k) ==
  IF ~Consumed(s, k) THEN h
  ELSE IF k # Submit /\ Result(s, k) # <<>> THEN <<>>
  ELSE IF Len(h) < MaxPlayBackSize THEN Append(h, k) ELSE h
PartialAfter(p, s, k) == IF After(s, k).text = <<>> THEN FALSE ELSE p \/ Result(s, k) # <<>>

LEMMA ReplayedText ==
  ASSUME NEW h \in Seq(Key)
  PROVE  /\ Replayed(h).text \in Seq(Nat)
         /\ Replayed(h).text = <<>> => ~Replayed(h).converting
<1>1. Coherent(Replayed(h))
  BY ReplayedIs DEF Key
<1> QED BY <1>1, Characters DEF Coherent, SessionRecord

LEMMA EmptyReplay ==
  /\ Replayed(<<>>).text = <<>> /\ ~Replayed(<<>>).converting
  /\ ~Over(<<>>)
<1>1. Replayed(<<>>) = NewSession(Other)
  BY ReplayedIs
<1>2. ~(0 >= MaxPlayBackSize) /\ Len(<<>>) = 0
  BY ClientAssumption
<1> QED BY <1>1, <1>2, NewIsCoherent DEF Over

\* Nothing is composed when every character but the key in hand is in the
\* document: what GiveUp gives up is then nothing.
LEMMA NothingOpen ==
  ASSUME NEW d \in Seq(Nat), NEW h \in Seq(Key), NEW p \in BOOLEAN, NEW n \in Nat,
         Kept(d, h, p, n), Len(d) >= n
  PROVE  /\ d = Count(n) /\ ~p
         /\ ~Over(h) => Replayed(h).text = <<>> /\ ~Replayed(h).converting
         /\ \A s : Coherent(s) /\ Shown(d, h, p, n, s) => s.text = <<>> /\ ~s.converting
<1>1. Len(d) = n /\ d = Count(n) /\ ~p
  BY DEF Kept
<1>2. ~Over(h) => Replayed(h).text = <<>> /\ ~Replayed(h).converting
  <2>1. ~Over(h) => d \o Replayed(h).text = Count(n)
    BY <1>1 DEF Kept
  <2> QED BY <1>1, <2>1, ReplayedText, CountMore DEF OneMore
<1>3. ASSUME NEW s, Coherent(s), Shown(d, h, p, n, s) PROVE s.text = <<>> /\ ~s.converting
  <2>1. s.text \in Seq(Nat)
    BY <1>3, Characters DEF Coherent, SessionRecord
  <2>2. d \o s.text = Count(n)
    BY <1>3 DEF Shown
  <2>3. s.text = <<>>
    BY <1>1, <2>1, <2>2, CountMore DEF OneMore
  <2> QED BY <1>3, <2>3 DEF Coherent
<1> QED BY <1>1, <1>2, <1>3

LEMMA KeptWhenOpen ==
  ASSUME NEW n \in Nat, NEW h, ~Over(h) => Replayed(h).text = <<>>
  PROVE  /\ Kept(Count(n), h, FALSE, n)
         /\ \A s : /\ s.text = <<>> /\ (~Over(h) => Same(s, Replayed(h))) => Shown(Count(n), h, FALSE, n, s)
<1>1. Len(Count(n)) = n /\ Count(n) \o <<>> = Count(n)
  BY CountIs, CountEnds
<1>2. Kept(Count(n), h, FALSE, n)
  <2> DEFINE e == Count(n)
  <2>1. e = Count(Len(e)) /\ Len(e) <= n /\ e \o <<>> = Count(n)
    BY <1>1
  <2> HIDE DEF e
  <2>2. Kept(e, h, FALSE, n)
    BY <2>1 DEF Kept
  <2> QED BY <2>2 DEF e
<1> QED BY <1>1, <1>2 DEF Shown

\* The server takes a key: the document, the journal and the session agree
\* after it as they did before.
LEMMA KeyKept ==
  ASSUME NEW d \in Seq(Nat), NEW h \in Seq(Key), NEW p \in BOOLEAN, NEW n \in Nat,
         NEW s, Coherent(s), Kept(d, h, p, n), Shown(d, h, p, n, s),
         NEW k \in Key, k \in Character => k = n + 1,
         NEW m \in Nat, m = IF k \in Character THEN n + 1 ELSE n
  PROVE  /\ Kept(d \o Result(s, k), PushedHistory(h, s, k), PartialAfter(p, s, k), m)
         /\ Shown(d \o Result(s, k), PushedHistory(h, s, k), PartialAfter(p, s, k), m, After(s, k))
<1> DEFINE t == s.text
           r == Result(s, k)
           a == After(s, k)
           g == PushedHistory(h, s, k)
           q == PartialAfter(p, s, k)
<1>1. t \in Seq(Nat) /\ d \o t = Count(n) /\ d \o t \in Seq(Nat) /\ (t = <<>> => ~s.converting)
  BY Characters, Concat DEF Coherent, SessionRecord, Shown
<1>2. /\ d \o Append(t, n + 1) = Count(n + 1)
      /\ (d \o t) \o <<>> = Count(n) /\ (d \o t) \o <<n + 1>> = Count(n + 1)
      /\ t = <<>> => d = Count(n)
      /\ d \o <<>> = d
  <2>1. d \o <<>> = d
    BY ConcatEmptySeq
  <2>2. t \in Seq(Nat) /\ d \o t = Count(n)
    BY <1>1
  <2> HIDE DEF t
  <2>3. /\ d \o Append(t, n + 1) = Count(n + 1)
        /\ (d \o t) \o <<>> = Count(n) /\ (d \o t) \o <<n + 1>> = Count(n + 1)
        /\ t = <<>> => d = Count(n)
    <3>1. n \in Nat /\ d \in Seq(Nat)
      OBVIOUS
    <3>2. OneMore(d, t, n)
      BY ONLY <2>2, <3>1, CountMore, Zenon
    <3> QED BY ONLY <3>2 DEF OneMore
  <2> QED BY <2>1, <2>3
<1>3. ~p /\ ~Over(h) => Same(s, Replayed(h))
  BY DEF Shown
<1>4. Coherent(Replayed(h)) /\ Replayed(Append(h, k)) = After(Replayed(h), k)
  BY ReplayedIs
<1>5. ~p /\ ~Over(h) => Same(a, Replayed(Append(h, k)))
  BY <1>3, <1>4, AfterSame
<1>6. ~Over(Append(h, k)) => ~Over(h) /\ Len(h) < MaxPlayBackSize
  <2>1. Len(Append(h, k)) = Len(h) + 1 /\ Len(h) \in Nat
    OBVIOUS
  <2> QED BY <2>1, ClientAssumption DEF Over
<1>7. Len(h) \in Nat /\ (~(Len(h) < MaxPlayBackSize) => Over(h))
  BY ClientAssumption DEF Over
<1>8. p => t # <<>>
  <2>1. p => Len(d) < n
    BY DEF Kept
  <2>2. t = <<>> => Len(d) = n
    BY <1>2, CountIs
  <2> QED BY <2>1, <2>2
<1>9. Count(n) \in Seq(Nat) /\ Len(Count(n)) = n /\ Len(Count(n + 1)) = n + 1 /\ n + 1 \in Nat
  BY CountIs
<1>10. CASE k \in Character /\ ~s.converting
  <2>1. r = <<>> /\ a.text = Append(t, n + 1) /\ Consumed(s, k)
    BY <1>10, AfterCharacter
  <2>2. q = p
    <3>1. Append(t, n + 1) # <<>>
      <4>1. Len(Append(t, n + 1)) = Len(t) + 1 /\ Len(t) \in Nat /\ Len(<<>>) = 0
        BY <1>1
      <4>2. Len(Append(t, n + 1)) # Len(<<>>)
        BY ONLY <4>1
      <4> QED BY <4>2
    <3>2. q = (p \/ r # <<>>)
      BY <2>1, <3>1 DEF PartialAfter
    <3> QED BY <2>1, <3>2
  <2>3. g = IF Len(h) < MaxPlayBackSize THEN Append(h, k) ELSE h
    BY <2>1 DEF PushedHistory
  <2>4. d \o r = d /\ d \o a.text = Count(m) /\ m = n + 1
    BY <1>2, <1>10, <2>1
  <2>5. ~q /\ ~Over(g) => Same(a, Replayed(g))
    BY <1>5, <1>6, <1>7, <2>2, <2>3
  <2>6. Kept(d, g, q, m)
    <3>1. ~q /\ ~Over(g) => d \o Replayed(g).text = Count(m)
      BY <2>4, <2>5 DEF Same
    <3>2. d = Count(Len(d)) /\ Len(d) <= m /\ (q => Len(d) < m)
      BY <2>2, <2>4 DEF Kept
    <3> QED BY <3>1, <3>2 DEF Kept
  <2> QED BY <2>4, <2>5, <2>6 DEF Shown
<1>11. CASE k \in Character /\ s.converting
  <2>1. r = t /\ a.text = <<n + 1>> /\ Consumed(s, k) /\ t # <<>> /\ k # Submit
    BY <1>1, <1>11, AfterCharacter, Keys
  <2>2. g = <<>> /\ q = TRUE
    BY <2>1 DEF PushedHistory, PartialAfter
  <2>3. d \o r = Count(n) /\ (d \o r) \o a.text = Count(m) /\ m = n + 1
    BY <1>1, <1>2, <1>11, <2>1
  <2>4. Kept(d \o r, g, q, m)
    BY <1>9, <2>2, <2>3 DEF Kept
  <2> QED BY <2>2, <2>3, <2>4 DEF Shown
<1>12. CASE k = Convert
  <2>1. r = <<>> /\ a.text = t /\ (Consumed(s, k) <=> t # <<>>) /\ k \notin Character
        /\ a.converting = (t # <<>>)
    BY <1>12, AfterOther, Keys
  <2>2. q = p /\ m = n /\ d \o r = d
    BY <1>2, <1>8, <2>1 DEF PartialAfter
  <2>3. g = IF t = <<>> THEN h ELSE IF Len(h) < MaxPlayBackSize THEN Append(h, k) ELSE h
    BY <2>1 DEF PushedHistory
  <2>4. ~q /\ ~Over(g) => Same(a, Replayed(g))
    <3>1. t = <<>> => a.text = s.text /\ a.converting = FALSE /\ s.converting = FALSE
      BY <1>1, <2>1 DEF Coherent, SessionRecord
    <3> QED BY <1>3, <1>5, <1>6, <1>7, <2>2, <2>3, <3>1 DEF Same
  <2>5. d \o a.text = Count(m)
    BY <1>1, <2>1, <2>2
  <2>6. Kept(d, g, q, m)
    BY <2>2, <2>4, <2>5 DEF Kept, Same
  <2> QED BY <2>2, <2>4, <2>5, <2>6 DEF Shown
<1>13. CASE k \in {Enter, Submit}
  <2>1. /\ r = t /\ a.text = <<>> /\ (Consumed(s, k) <=> t # <<>>) /\ k \notin Character
        /\ a.converting = FALSE
    <3>1. k \in {Convert, Enter, Submit} /\ k # Convert /\ k \notin Character
      BY <1>13, Keys
    <3>2. /\ a.text = IF k = Convert THEN s.text ELSE <<>>
          /\ a.converting = (k = Convert /\ s.text # <<>>)
          /\ r = IF k = Convert THEN <<>> ELSE s.text
          /\ Consumed(s, k) <=> s.text # <<>>
      BY <3>1, AfterOther
    <3> QED BY <3>1, <3>2
  <2>2. q = FALSE /\ m = n /\ d \o r = Count(n) /\ Count(n) \o <<>> = Count(n)
    BY <1>1, <1>2, <2>1 DEF PartialAfter
  <2>3. ~Over(g) => Same(a, Replayed(g))
    <3>1. CASE t = <<>>
      <4>1. g = h /\ ~p /\ s.text = <<>> /\ s.converting = FALSE
        BY <1>1, <1>8, <2>1, <3>1 DEF PushedHistory, Coherent, SessionRecord
      <4> QED BY <1>3, <2>1, <4>1 DEF Same
    <3>2. CASE t # <<>> /\ k # Submit
      <4>1. g = <<>>
        BY <2>1, <3>2 DEF PushedHistory
      <4>2. Replayed(<<>>).converting = FALSE
        BY EmptyReplay, NewIsCoherent, ReplayedIs DEF NewSession
      <4> QED BY <2>1, <4>1, <4>2, EmptyReplay DEF Same
    <3>3. CASE t # <<>> /\ k = Submit
      <4>1. g = IF Len(h) < MaxPlayBackSize THEN Append(h, k) ELSE h
        BY <2>1, <3>3 DEF PushedHistory
      <4>2. Replayed(Append(h, k)).text = <<>> /\ Replayed(Append(h, k)).converting = FALSE
        <5> DEFINE b == Replayed(h)
        <5>1. k \in {Convert, Enter, Submit} /\ k # Convert
          BY <3>3, Keys
        <5>2. /\ After(b, k).text = IF k = Convert THEN b.text ELSE <<>>
              /\ After(b, k).converting = (k = Convert /\ b.text # <<>>)
          BY <1>4, <5>1, AfterOther
        <5> QED BY <1>4, <5>1, <5>2
      <4> QED BY <1>6, <1>7, <2>1, <4>1, <4>2 DEF Same
    <3> QED BY <3>1, <3>2, <3>3
  <2>4. Kept(d \o r, g, q, m)
    <3>1. ~Over(g) => Replayed(g).text = <<>>
      BY <2>1, <2>3 DEF Same
    <3> QED BY <1>9, <2>2, <3>1 DEF Kept
  <2> QED BY <2>1, <2>2, <2>3, <2>4 DEF Shown
<1> QED BY <1>10, <1>11, <1>12, <1>13 DEF Key

\* Nor does a key that the server takes bring a character a second time.
LEMMA KeyApart ==
  ASSUME NEW d \in Seq(Nat), NEW h \in Seq(Key), NEW n \in Nat, NEW s, Coherent(s),
         Apart(d, s.text, n), ~Over(h) => Apart(d, Replayed(h).text, n),
         NEW k \in Key, k \in Character => k = n + 1,
         NEW m \in Nat, m = IF k \in Character THEN n + 1 ELSE n
  PROVE  /\ Apart(d \o Result(s, k), <<>>, m)
         /\ Apart(d \o Result(s, k), After(s, k).text, m)
         /\ ~Over(PushedHistory(h, s, k)) =>
              Apart(d \o Result(s, k), Replayed(PushedHistory(h, s, k)).text, m)
<1> DEFINE t == s.text
           r == Result(s, k)
           a == After(s, k)
           g == PushedHistory(h, s, k)
           b == Replayed(h)
<1>1. t \in Seq(Nat) /\ (t = <<>> => ~s.converting) /\ b.text \in Seq(Nat) /\ Coherent(b)
  BY Characters, ReplayedText, ReplayedIs DEF Coherent, SessionRecord
<1>2. d \o <<>> = d /\ d \o t \in Seq(Nat)
  <2>1. d \o <<>> = d
    BY ConcatEmptySeq
  <2> QED BY <1>1, <2>1, Concat
<1>3. /\ Apart(d \o t, <<>>, n) /\ Apart(d, <<>>, n)
      /\ Apart(d, Append(t, n + 1), n + 1) /\ Apart(d, <<n + 1>>, n + 1)
      /\ Apart(d, <<>>, n + 1)
  <2>1. Apart(d \o t, <<>>, n) /\ Apart(d, <<>>, n)
    BY <1>1, ApartIsInjective
  <2>2. <<>> \in Seq(Nat)
    OBVIOUS
  <2>3. Apart(d, <<>>, n + 1)
    BY <2>1, <2>2, ApartMore
  <2> QED BY <1>1, <2>1, <2>3, ApartMore
<1>4. Apart(d \o t, <<n + 1>>, n + 1) /\ Apart(d \o t, <<>>, n + 1)
  <2>1. <<>> \in Seq(Nat)
    OBVIOUS
  <2> QED BY <1>2, <1>3, <2>1, ApartMore
<1>5. ~Over(h) => Apart(d, Append(b.text, n + 1), n + 1)
  BY <1>1, ApartMore
<1>6. Replayed(Append(h, k)) = After(b, k)
  BY ReplayedIs
<1>7. Len(h) \in Nat /\ (~(Len(h) < MaxPlayBackSize) => Over(h)) /\ (Len(h) < MaxPlayBackSize => ~Over(h))
  BY ClientAssumption DEF Over
<1>8. Replayed(<<>>).text = <<>>
  BY EmptyReplay
<1>10. CASE k \in Character /\ ~s.converting
  <2>1. r = <<>> /\ a.text = Append(t, n + 1) /\ Consumed(s, k) /\ m = n + 1
    BY <1>10, AfterCharacter
  <2>2. g = IF Len(h) < MaxPlayBackSize THEN Append(h, k) ELSE h
    BY <2>1 DEF PushedHistory
  <2>3. After(b, k).text = IF b.converting THEN <<n + 1>> ELSE Append(b.text, n + 1)
    BY <1>1, <1>10, AfterCharacter
  <2>4. ~Over(g) => Apart(d, Replayed(g).text, m)
    BY <1>3, <1>5, <1>6, <1>7, <2>1, <2>2, <2>3
  <2> QED BY <1>2, <1>3, <2>1, <2>4
<1>11. CASE k \in Character /\ s.converting
  <2>1. r = t /\ a.text = <<n + 1>> /\ Consumed(s, k) /\ t # <<>> /\ k # Submit /\ m = n + 1
    BY <1>1, <1>11, AfterCharacter, Keys
  <2>2. g = <<>>
    BY <2>1 DEF PushedHistory
  <2> QED BY <1>4, <1>8, <2>1, <2>2
<1>12. CASE k = Convert
  <2>1. r = <<>> /\ a.text = t /\ (Consumed(s, k) <=> t # <<>>) /\ k \notin Character /\ m = n
        /\ After(b, k).text = b.text
    BY <1>1, <1>12, AfterOther, Keys
  <2>2. g = IF t = <<>> THEN h ELSE IF Len(h) < MaxPlayBackSize THEN Append(h, k) ELSE h
    BY <2>1 DEF PushedHistory
  <2>3. ~Over(g) => Apart(d, Replayed(g).text, n)
    BY <1>6, <1>7, <2>1, <2>2
  <2> QED BY <1>2, <1>3, <2>1, <2>3
<1>13. CASE k \in {Enter, Submit}
  <2>0. k \in {Convert, Enter, Submit} /\ k # Convert /\ k \notin Character
    BY <1>13, Keys
  <2>1. /\ a.text = IF k = Convert THEN s.text ELSE <<>>
        /\ r = IF k = Convert THEN <<>> ELSE s.text
        /\ Consumed(s, k) <=> s.text # <<>>
    BY <2>0, AfterOther
  <2>2. After(b, k).text = IF k = Convert THEN b.text ELSE <<>>
    BY <1>1, <2>0, AfterOther
  <2>3. r = t /\ a.text = <<>> /\ m = n /\ After(b, k).text = <<>>
    BY <2>0, <2>1, <2>2
  <2>4. ~Over(g) => Apart(d \o r, Replayed(g).text, n)
    <3>1. CASE t = <<>>
      <4>1. g = h /\ d \o r = d
        BY <1>2, <2>1, <2>3, <3>1 DEF PushedHistory
      <4> QED BY <4>1
    <3>2. CASE t # <<>>
      <4>1. g \in {<<>>, Append(h, k)} \/ Over(g)
        BY <1>7, <2>1, <3>2 DEF PushedHistory
      <4> QED BY <1>3, <1>6, <1>8, <2>3, <4>1
    <3> QED BY <3>1, <3>2
  <2> QED BY <1>3, <2>3, <2>4
<1> QED BY <1>10, <1>11, <1>12, <1>13 DEF Key

-----------------------------------------------------------------------------
(* What a client, its journal and its session agree on between the steps.  *)

\* The characters typed, without the key in hand.
T(c) == IF input[c] \in Character THEN typed[c] - 1 ELSE typed[c]
Has(c) == session_id[c] \in Ids
Gone(c) == GaveUp(c) /\ pc[c] = "idle"

\* Nothing lost: the document is the beginning of what was typed, and both the
\* journal and the session complete it, each as far as it can be trusted.
Main(c) ==
  c \in alive /\ ~lost[c] =>
    IF Gone(c) THEN document[c] = Count(T(c))
    ELSE /\ Kept(document[c], history_inputs[c], partial[c], T(c))
         /\ pc[c] = "playback" => ~partial[c]
         /\ Has(c) /\ pc[c] # "playback" =>
              Shown(document[c], history_inputs[c], partial[c], T(c), SessionOf(session_id[c]))

\* A playback has rebuilt the session of the inputs it has played.
Rebuilt(c) ==
  c \in alive /\ ~cut[c] /\ pc[c] = "playback" =>
    /\ ~Over(history_inputs[c])
    /\ Has(c) => Same(SessionOf(session_id[c]), Replaying(history_inputs[c])[played[c]])

\* Nothing is there twice, in the document and the session or what the journal
\* would make of it.
Once(c) ==
  c \in alive /\ ~cut[c] =>
    /\ Apart(document[c], <<>>, T(c))
    /\ ~GaveUp(c) =>
         /\ ~Over(history_inputs[c]) => Apart(document[c], Replayed(history_inputs[c]).text, T(c))
         /\ Has(c) /\ pc[c] # "playback" => Apart(document[c], SessionOf(session_id[c]).text, T(c))

Own(c) == Main(c) /\ Rebuilt(c) /\ Once(c)

LEMMA TypedIs ==
  ASSUME BaseInv, NEW c \in App
  PROVE  /\ T(c) \in Nat /\ (Open(c) <=> Len(document[c]) < T(c))
         /\ document[c] \in Seq(Nat) /\ history_inputs[c] \in Seq(Key) /\ partial[c] \in BOOLEAN
         /\ lost[c] \in BOOLEAN
         /\ Has(c) => Coherent(SessionOf(session_id[c]))
         /\ input[c] \in Key /\ (input[c] \in Character => input[c] = T(c) + 1 /\ typed[c] = T(c) + 1)
         /\ input[c] \notin Character => typed[c] = T(c)
<1>1. ClientTypes /\ Control(c) /\ MapInv
  BY DEF BaseInv
<1>2. document[c] \in Seq(Nat) /\ Len(document[c]) \in Nat
  BY <1>1, Characters DEF ClientTypes
<1>3. Has(c) => Coherent(SessionOf(session_id[c]))
  BY <1>1 DEF Has, MapInv, Coherent, SessionOf
<1>4. input[c] \in Character => typed[c] \in Character /\ typed[c] = input[c]
  BY <1>1 DEF Control
<1>5. typed[c] \in Nat /\ (typed[c] \in Character => typed[c] - 1 \in Nat /\ typed[c] = (typed[c] - 1) + 1)
  BY <1>1 DEF ClientTypes, Character
<1>6. T(c) \in Nat /\ (Open(c) <=> Len(document[c]) < T(c))
  BY <1>4, <1>5 DEF T, Open
<1>7. /\ input[c] \in Character => input[c] = T(c) + 1 /\ typed[c] = T(c) + 1
      /\ input[c] \notin Character => typed[c] = T(c)
  BY <1>4, <1>5 DEF T
<1>8. /\ history_inputs[c] \in Seq(Key) /\ partial[c] \in BOOLEAN /\ lost[c] \in BOOLEAN /\ input[c] \in Key
  BY <1>1 DEF ClientTypes
<1> QED BY <1>2, <1>3, <1>6, <1>7, <1>8

\* A step that leaves the composition, the journal and the session alone.
LEMMA StillOwn ==
  ASSUME NEW c \in App, Own(c), c \in alive' => c \in alive,
         /\ document'[c] = document[c] /\ history_inputs'[c] = history_inputs[c]
         /\ partial'[c] = partial[c] /\ lost'[c] = lost[c] /\ cut'[c] = cut[c]
         /\ played'[c] = played[c] /\ T(c)' = T(c),
         Gone(c)' <=> Gone(c), GaveUp(c) => GaveUp(c)',
         pc'[c] = "playback" <=> pc[c] = "playback",
         Has(c)' => Has(c) /\ SessionOf(session_id[c])' = SessionOf(session_id[c])
  PROVE  Own(c)'
<1>1. Main(c)'
  BY DEF Own, Main, Kept, Shown, Over
<1>2. Rebuilt(c)'
  BY DEF Own, Rebuilt, Over
<1>3. Once(c)'
  BY DEF Own, Once, Over
<1> QED BY <1>1, <1>2, <1>3 DEF Own

LEMMA LeavesHas ==
  ASSUME NEW c \in App, Leaves(session_id[c]), session_id'[c] = session_id[c]
  PROVE  Has(c)' => Has(c) /\ SessionOf(session_id[c])' = SessionOf(session_id[c])
  BY DEF Leaves, Has, SessionOf, Ids

LEMMA OthersOwn ==
  ASSUME NEW d \in App, Own(d), View(d)' = View(d), d \in alive' => d \in alive, Leaves(session_id[d])
  PROVE  Own(d)'
<1>1. /\ server_status'[d] = server_status[d] /\ session_id'[d] = session_id[d]
      /\ history_inputs'[d] = history_inputs[d] /\ pc'[d] = pc[d] /\ input'[d] = input[d]
      /\ played'[d] = played[d] /\ document'[d] = document[d] /\ typed'[d] = typed[d]
      /\ lost'[d] = lost[d] /\ partial'[d] = partial[d] /\ cut'[d] = cut[d]
  BY DEF View
<1>2. T(d)' = T(d) /\ (Gone(d)' <=> Gone(d)) /\ (GaveUp(d)' <=> GaveUp(d))
  BY <1>1 DEF T, Gone, GaveUp, Character
<1>3. Has(d)' => Has(d) /\ SessionOf(session_id[d])' = SessionOf(session_id[d])
  BY <1>1, LeavesHas
<1> QED BY <1>1, <1>2, <1>3, StillOwn

\* A call that ends without the server having taken the key.
LEMMA EndedOwn ==
  ASSUME BaseInv, NEW c \in App, Own(c), c \in alive, ~Gone(c), pc[c] # "playback",
         /\ pc'[c] = "idle" /\ partial'[c] = partial[c] /\ cut'[c] = cut[c]
         /\ lost'[c] = (lost[c] \/ Open(c)),
         \/ document'[c] = document[c] /\ T(c)' = T(c)
         \/ document'[c] = Append(document[c], T(c) + 1) /\ T(c)' = T(c) + 1,
         history_inputs'[c] \in {history_inputs[c], <<>>},
         ~GaveUp(c)' => ~GaveUp(c),
         ~GaveUp(c)' /\ Has(c)' =>
           /\ history_inputs'[c] = history_inputs[c]
           /\ Has(c) /\ SessionOf(session_id[c])' = SessionOf(session_id[c])
  PROVE  Own(c)'
<1> DEFINE d == document[c]
           h == history_inputs[c]
           p == partial[c]
           n == T(c)
           s == SessionOf(session_id[c])
           e == document'[c]
           g == history_inputs'[c]
           m == T(c)'
<1>1. /\ n \in Nat /\ d \in Seq(Nat) /\ h \in Seq(Key) /\ p \in BOOLEAN /\ n + 1 \in Nat
      /\ Open(c) <=> Len(d) < n
      /\ Has(c) => Coherent(s)
      /\ Len(d) \in Nat /\ m \in Nat
  BY TypedIs
<1>2. Main(c)'
  <2> SUFFICES ASSUME ~lost'[c] PROVE Main(c)'
    BY DEF Main
  <2>0. ~lost[c] /\ ~Open(c)
    OBVIOUS
  <2>1. ~lost[c] /\ Len(d) >= n
    BY <1>1, <2>0
  <2>2. Kept(d, h, p, n) /\ (Has(c) => Shown(d, h, p, n, s))
    BY <2>1 DEF Own, Main
  <2>3. /\ d = Count(n) /\ ~p
        /\ ~Over(h) => Replayed(h).text = <<>> /\ ~Replayed(h).converting
        /\ Has(c) => s.text = <<>> /\ ~s.converting
    BY <1>1, <2>1, <2>2, NothingOpen
  <2>4. e = Count(m)
    BY <1>1, <2>3, CountEnds
  <2>5. ~Over(g) => Replayed(g).text = <<>>
    BY <2>3, EmptyReplay
  <2>6. /\ Kept(e, g, FALSE, m)
        /\ \A r : /\ r.text = <<>> /\ (~Over(g) => Same(r, Replayed(g))) => Shown(e, g, FALSE, m, r)
    BY <1>1, <2>4, <2>5, KeptWhenOpen
  <2>7. ~Gone(c)' /\ Has(c)' => Shown(e, g, FALSE, m, s)
    <3>1. SUFFICES ASSUME ~GaveUp(c)', Has(c)' PROVE Shown(e, g, FALSE, m, s)
      BY DEF Gone
    <3>2. g = h /\ Has(c)
      BY <3>1
    <3>3. ~Over(h) => Same(s, Replayed(h))
      BY <2>2, <2>3, <3>2 DEF Shown
    <3> QED BY <2>3, <2>6, <3>2, <3>3
  <2>8. ~Gone(c)' /\ Has(c)' => SessionOf(session_id[c])' = s
    BY DEF Gone
  <2>9. partial'[c] = FALSE
    BY <1>1, <2>3
  <2> QED BY <2>4, <2>6, <2>7, <2>8, <2>9 DEF Main
<1>3. Rebuilt(c)'
  BY DEF Rebuilt
<1>4. Once(c)'
  <2> SUFFICES ASSUME ~cut'[c] PROVE Once(c)'
    BY DEF Once
  <2>1. /\ Apart(d, <<>>, n)
        /\ ~GaveUp(c) => /\ ~Over(h) => Apart(d, Replayed(h).text, n)
                         /\ Has(c) => Apart(d, s.text, n)
    BY DEF Own, Once
  <2>2. ASSUME NEW t \in Seq(Nat), Apart(d, t, n) PROVE Apart(e, t, m)
    BY <1>1, <2>2, ApartMore
  <2>3. <<>> \in Seq(Nat) /\ Replayed(h).text \in Seq(Nat) /\ (Has(c) => s.text \in Seq(Nat))
    BY <1>1, ReplayedText, Characters DEF Coherent, SessionRecord
  <2>4. Apart(e, <<>>, m)
    BY <2>1, <2>2, <2>3
  <2>5. ~GaveUp(c)' /\ ~Over(g) => Apart(e, Replayed(g).text, m)
    <3>1. CASE g = h
      BY <2>1, <2>2, <2>3, <3>1
    <3>2. CASE g = <<>>
      BY <2>4, <3>2, EmptyReplay
    <3> QED BY <3>1, <3>2
  <2>6. ~GaveUp(c)' /\ Has(c)' => Apart(e, SessionOf(session_id[c])'.text, m)
    BY <2>1, <2>2, <2>3
  <2> QED BY <2>4, <2>5, <2>6 DEF Once
<1> QED BY <1>2, <1>3, <1>4 DEF Own

LEMMA EchoIs ==
  ASSUME BaseInv, NEW c \in App, Return(c), Echo(c), typed'[c] = typed[c]
  PROVE  \/ document'[c] = document[c] /\ T(c)' = T(c)
         \/ document'[c] = Append(document[c], T(c) + 1) /\ T(c)' = T(c) + 1
<1>1. ClientTypes
  BY DEF BaseInv
<1>2. input'[c] = Enter /\ Enter \notin Character
  BY <1>1, Keys DEF ClientTypes, Return
<1>3. T(c)' = typed[c]
  BY <1>2 DEF T, Character
<1>4. document'[c] = IF input[c] \in Character THEN Append(document[c], input[c]) ELSE document[c]
  BY <1>1 DEF ClientTypes, Echo
<1> QED BY <1>3, <1>4, TypedIs

LEMMA FailOwn ==
  ASSUME BaseInv, NEW c \in App, Own(c), pc[c] \notin {"idle", "playback"},
         NEW st, Fail(c, st), history_inputs'[c] \in {history_inputs[c], <<>>},
         st \notin {"TIMEOUT", "FATAL"} =>
           /\ ~GaveUp(c)
           /\ Has(c)' => /\ history_inputs'[c] = history_inputs[c]
                         /\ Has(c) /\ SessionOf(session_id[c])' = SessionOf(session_id[c])
  PROVE  Own(c)'
<1>1. ClientTypes /\ Control(c)
  BY DEF BaseInv
<1>2. c \in alive /\ ~Gone(c)
  BY <1>1 DEF Control, Gone
<1>3. /\ pc'[c] = "idle" /\ partial'[c] = partial[c] /\ cut'[c] = cut[c]
      /\ lost'[c] = (lost[c] \/ Open(c)) /\ server_status'[c] = st
  BY <1>1 DEF Fail, Return, GiveUp, ClientTypes
<1>4. \/ document'[c] = document[c] /\ T(c)' = T(c)
      \/ document'[c] = Append(document[c], T(c) + 1) /\ T(c)' = T(c) + 1
  BY EchoIs DEF Fail
<1>5. ~GaveUp(c)' => st \notin {"TIMEOUT", "FATAL"}
  BY <1>3 DEF GaveUp
<1> QED BY <1>2, <1>3, <1>4, <1>5, EndedOwn

LEMMA TakenOwn ==
  ASSUME BaseInv, NEW c \in App, Own(c), pc[c] \in {"first", "second"}, ~GaveUp(c),
         Accepts(session_id[c]), Taken(c)
  PROVE  Own(c)'
<1> DEFINE d == document[c]
           h == history_inputs[c]
           p == partial[c]
           n == T(c)
           s == SessionOf(session_id[c])
           k == input[c]
           m == T(c)'
<1>1. ClientTypes /\ Control(c) /\ c \in alive
  BY DEF BaseInv, Control
<1>2. /\ n \in Nat /\ d \in Seq(Nat) /\ h \in Seq(Key) /\ p \in BOOLEAN /\ n + 1 \in Nat
      /\ k \in Key /\ (k \in Character => k = n + 1 /\ typed[c] = n + 1)
      /\ k \notin Character => typed[c] = n
  BY TypedIs
<1>3. /\ Ids' = Ids /\ session_map'[session_id[c]] = After(s, k) /\ Coherent(s)
      /\ session_id' = session_id /\ session_id[c] \in Ids
  <2>1. SendKey(session_id[c], k) /\ session_id' = session_id
    BY DEF Taken
  <2> QED BY <1>2, <2>1, SendKeyMap DEF BaseInv, Accepts
<1>4. Has(c) /\ Has(c)' /\ SessionOf(session_id[c])' = After(s, k)
  BY <1>3 DEF Has, SessionOf
<1>5. /\ document'[c] = d \o Result(s, k)
      /\ partial'[c] = PartialAfter(p, s, k)
      /\ history_inputs'[c] = PushedHistory(h, s, k)
      /\ pc'[c] = "idle" /\ input'[c] = Enter
      /\ UNCHANGED <<server_status, typed, lost, cut, alive>>
  <2>1. document'[c] = d \o Result(s, k) /\ partial'[c] = PartialAfter(p, s, k)
    BY <1>1 DEF Taken, PartialAfter, ClientTypes
  <2>2. history_inputs'[c] = PushedHistory(h, s, k)
    BY <1>1 DEF Taken, PushHistory, PushedHistory, ClientTypes
  <2>3. pc'[c] = "idle" /\ input'[c] = Enter
    BY <1>1 DEF Taken, Return, ClientTypes
  <2>4. UNCHANGED <<server_status, typed, lost, cut, alive>>
    BY DEF Taken, SendKey
  <2> QED BY <2>1, <2>2, <2>3, <2>4
<1>6. m = (IF k \in Character THEN n + 1 ELSE n) /\ m \in Nat
  <2>1. m = typed[c]
    BY <1>5, Keys DEF T, Character
  <2> QED BY <1>2, <2>1
<1>7. ~GaveUp(c)' /\ ~Gone(c) /\ ~Gone(c)' /\ pc[c] # "playback"
  BY <1>5 DEF GaveUp, Gone
<1>8. Main(c)'
  <2> SUFFICES ASSUME ~lost'[c] PROVE Main(c)'
    BY DEF Main
  <2>1. Kept(d, h, p, n) /\ Shown(d, h, p, n, s)
    BY <1>1, <1>4, <1>5, <1>7 DEF Own, Main
  <2>2. /\ Kept(d \o Result(s, k), PushedHistory(h, s, k), PartialAfter(p, s, k), m)
        /\ Shown(d \o Result(s, k), PushedHistory(h, s, k), PartialAfter(p, s, k), m, After(s, k))
    BY <1>2, <1>3, <1>6, <2>1, KeyKept
  <2>3. /\ Kept(document'[c], history_inputs'[c], partial'[c], m)
        /\ Shown(document'[c], history_inputs'[c], partial'[c], m, SessionOf(session_id[c])')
    BY <1>4, <1>5, <2>2
  <2> QED BY <1>5, <1>7, <2>3 DEF Main, Kept, Shown, Over
<1>9. Rebuilt(c)'
  BY <1>5 DEF Rebuilt
<1>10. Once(c)'
  <2> SUFFICES ASSUME ~cut'[c] PROVE Once(c)'
    BY DEF Once
  <2>1. Apart(d, s.text, n) /\ (~Over(h) => Apart(d, Replayed(h).text, n))
    BY <1>1, <1>4, <1>5, <1>7 DEF Own, Once
  <2>2. /\ Apart(d \o Result(s, k), <<>>, m)
        /\ Apart(d \o Result(s, k), After(s, k).text, m)
        /\ ~Over(PushedHistory(h, s, k)) =>
             Apart(d \o Result(s, k), Replayed(PushedHistory(h, s, k)).text, m)
    BY <1>2, <1>3, <1>6, <2>1, KeyApart
  <2> QED BY <1>4, <1>5, <2>2 DEF Once, Over
<1> QED BY <1>8, <1>9, <1>10 DEF Own

LEMMA PressOwn ==
  ASSUME BaseInv, NEW c \in App, Own(c), Press(c)
  PROVE  Own(c)'
<1>0. ClientTypes /\ Control(c)
  BY DEF BaseInv
<1>1. PICK k \in Key :
     /\ k \in Character => k = typed[c] + 1
     /\ typed' = [typed EXCEPT ![c] = IF k \in Character THEN k ELSE @]
     /\ IF GaveUp(c)
        THEN /\ server_status' = [server_status EXCEPT ![c] = "FATAL"]
             /\ document' = [document EXCEPT ![c] = IF k \in Character THEN Append(@, k) ELSE @]
             /\ lost' = [lost EXCEPT ![c] = @ \/ Len(document[c]) < typed[c]]
             /\ UNCHANGED <<pc, input>>
        ELSE /\ input' = [input EXCEPT ![c] = k]
             /\ pc' = [pc EXCEPT ![c] = IF HasSession(c) THEN "first" ELSE "session"]
             /\ UNCHANGED <<server_status, document, lost>>
  BY DEF Press
<1>2. /\ c \in alive /\ pc[c] = "idle" /\ input[c] = Enter /\ Enter \notin Character
      /\ UNCHANGED <<server_vars, session_id, history_inputs, played, partial, cut>>
  BY <1>0, Keys DEF Press, Control
<1>3. T(c) = typed[c] /\ T(c) \in Nat /\ document[c] \in Seq(Nat)
  BY <1>2, TypedIs DEF T
<1>4. typed'[c] = IF k \in Character THEN T(c) + 1 ELSE T(c)
  BY <1>0, <1>1, <1>3 DEF ClientTypes
<1>5. CASE GaveUp(c)
  <2>1. /\ server_status'[c] = "FATAL" /\ pc'[c] = "idle" /\ input'[c] = Enter
        /\ lost'[c] = (lost[c] \/ Len(document[c]) < typed[c])
        /\ document'[c] = IF k \in Character THEN Append(document[c], T(c) + 1) ELSE document[c]
    BY <1>0, <1>1, <1>2, <1>3, <1>5 DEF ClientTypes
  <2>2. GaveUp(c)' /\ Gone(c) /\ Gone(c)'
    BY <1>2, <1>5, <2>1 DEF GaveUp, Gone
  <2>3. T(c)' = typed'[c]
    BY <1>2, <2>1 DEF T, Character
  <2>4. Main(c)'
    <3> SUFFICES ASSUME ~lost'[c] PROVE document'[c] = Count(T(c)')
      BY <2>2 DEF Main
    <3>1. document[c] = Count(T(c))
      BY <1>2, <2>1, <2>2 DEF Own, Main
    <3> QED BY <1>3, <1>4, <2>1, <2>3, <3>1, CountEnds
  <2>5. Rebuilt(c)'
    BY <2>1 DEF Rebuilt
  <2>6. Once(c)'
    <3> SUFFICES ASSUME ~cut'[c] PROVE Apart(document'[c], <<>>, T(c)')
      BY <2>2 DEF Once
    <3>1. Apart(document[c], <<>>, T(c)) /\ <<>> \in Seq(Nat)
      BY <1>2 DEF Own, Once
    <3> QED BY <1>3, <1>4, <2>1, <2>3, <3>1, ApartMore
  <2> QED BY <2>4, <2>5, <2>6 DEF Own
<1>6. CASE ~GaveUp(c)
  <2>1. /\ input'[c] = k /\ pc'[c] \in {"first", "session"}
        /\ UNCHANGED <<server_status, document, lost>>
    BY <1>0, <1>1, <1>6 DEF ClientTypes
  <2>2. T(c)' = IF k \in Character THEN typed'[c] - 1 ELSE typed'[c]
    BY <2>1 DEF T, Character
  <2>3. T(c)' = T(c)
    BY <1>3, <1>4, <2>2
  <2>4. ~GaveUp(c)' /\ ~Gone(c) /\ ~Gone(c)'
    BY <1>6, <2>1 DEF GaveUp, Gone
  <2>5. Has(c)' => Has(c) /\ SessionOf(session_id[c])' = SessionOf(session_id[c])
    BY <1>2 DEF server_vars, map_vars, Has, SessionOf, Ids
  <2> QED BY <1>2, <1>6, <2>1, <2>3, <2>4, <2>5, StillOwn DEF server_vars
<1> QED BY <1>5, <1>6

LEMMA StartServerOwn ==
  ASSUME BaseInv, NEW c \in App, Own(c), StartServer(c)
  PROVE  Own(c)'
<1>0. ClientTypes /\ Control(c) /\ pc[c] \in {"session", "again"}
  BY DEF BaseInv, StartServer
<1>1. CASE LaunchFails /\ Fail(c, "FATAL") /\ UNCHANGED <<history_inputs, locks>>
  BY <1>0, <1>1, FailOwn
<1>2. CASE Launch /\ server_status' = [server_status EXCEPT ![c] = "INVALID_SESSION"]
           /\ UNCHANGED <<session_id, history_inputs, pc, input, played, document,
                          typed, lost, partial, cut, faults, locks>>
  <2>1. ~GaveUp(c) /\ ~Gone(c) /\ ~Gone(c)' /\ T(c)' = T(c)
    BY <1>0, <1>2 DEF Control, GaveUp, Gone, T, Character
  <2>2. Has(c)' => Has(c) /\ SessionOf(session_id[c])' = SessionOf(session_id[c])
    BY <1>2 DEF Launch, map_vars, Has, SessionOf, Ids
  <2> QED BY <1>2, <2>1, <2>2, StillOwn DEF Launch
<1> QED BY <1>1, <1>2 DEF StartServer

LEMMA CallFirstOwn ==
  ASSUME BaseInv, NEW c \in App, Own(c), CallFirst(c)
  PROVE  Own(c)'
<1>0. /\ ClientTypes /\ Control(c) /\ pc[c] = "first" /\ ~GaveUp(c) /\ c \in alive
      /\ input[c] \in Key
  BY DEF BaseInv, CallFirst, Control, GaveUp, ClientTypes
<1>1. CASE Accepts(session_id[c]) /\ Taken(c)
  BY <1>0, <1>1, TakenOwn
<1>2. CASE /\ \/ running /\ ~Accepts(session_id[c])
                 /\ server_status' = [server_status EXCEPT ![c] = "INVALID_SESSION"]
                 /\ UNCHANGED <<server_vars, faults>>
              \/ CallFails(c) /\ server_status' = [server_status EXCEPT ![c] = "SHUTDOWN"]
           /\ pc' = [pc EXCEPT ![c] = "again"]
           /\ UNCHANGED <<session_id, history_inputs, input, played, document,
                          typed, lost, partial, cut>>
  <2>1. pc'[c] = "again" /\ ~Gone(c) /\ ~Gone(c)' /\ T(c)' = T(c)
    BY <1>0, <1>2 DEF ClientTypes, Gone, T, Character
  <2>2. Leaves(session_id[c]) /\ UNCHANGED alive
    <3>1. CASE UNCHANGED server_vars
      BY <3>1 DEF server_vars, map_vars, Leaves, Ids
    <3>2. CASE CallFails(c)
      BY <3>2, ServedCallFails DEF Leaves
    <3> QED BY <1>2, <3>1, <3>2
  <2>3. Has(c)' => Has(c) /\ SessionOf(session_id[c])' = SessionOf(session_id[c])
    BY <1>2, <2>2, LeavesHas
  <2> QED BY <1>0, <1>2, <2>1, <2>2, <2>3, StillOwn
<1>3. CASE Fail(c, "TIMEOUT") /\ UNCHANGED history_inputs
  BY <1>0, <1>3, FailOwn
<1> QED BY <1>1, <1>2, <1>3 DEF CallFirst

LEMMA ReportOwn ==
  ASSUME BaseInv, NEW c \in App, Own(c), Report(c)
  PROVE  Own(c)'
<1>0. /\ ClientTypes /\ Control(c) /\ pc[c] = "report" /\ session_id[c] = 0 /\ 0 \notin Ids'
      /\ UNCHANGED history_inputs
  <2>1. MapInv'
    BY Server DEF StepOf, ClientStep, Served
  <2>2. 0 \notin Ids'
    BY <2>1, IDs DEF MapInv, SessionID
  <2> QED BY <2>2 DEF BaseInv, Report, Control
<1>1. CASE server_status[c] = "SHUTDOWN" /\ Fail(c, "INVALID_SESSION")
  <2>1. ~GaveUp(c) /\ ~Has(c)'
    BY <1>0, <1>1 DEF GaveUp, Has, Fail
  <2> QED BY <1>0, <1>1, <2>1, FailOwn
<1>2. CASE Fail(c, "FATAL")
  BY <1>0, <1>2, FailOwn
<1> QED BY <1>1, <1>2 DEF Report

LEMMA CallSecondOwn ==
  ASSUME BaseInv, NEW c \in App, Own(c), CallSecond(c)
  PROVE  Own(c)'
<1>0. ClientTypes /\ Control(c) /\ pc[c] = "second" /\ c \in alive
  BY DEF BaseInv, CallSecond, Control
<1>n. server_status[c] # "TIMEOUT" => ~GaveUp(c)
  BY <1>0 DEF Control, GaveUp
<1>1. CASE Accepts(session_id[c]) /\ server_status[c] # "TIMEOUT" /\ Taken(c)
  BY <1>0, <1>n, <1>1, TakenOwn
<1>2. CASE /\ server_status[c] # "TIMEOUT"
           /\ Return(c) /\ GiveUp(c)
           /\ IF sync_locked THEN Blocked(c) ELSE Echo(c) /\ UNCHANGED typed
           /\ UNCHANGED <<server_vars, server_status, session_id, history_inputs,
                          partial, cut, faults>>
  <2>1. /\ pc'[c] = "idle" /\ partial'[c] = partial[c] /\ cut'[c] = cut[c]
        /\ lost'[c] = (lost[c] \/ Open(c)) /\ input'[c] = Enter
    BY <1>0, <1>2 DEF Return, GiveUp, ClientTypes
  <2>2. \/ document'[c] = document[c] /\ T(c)' = T(c)
        \/ document'[c] = Append(document[c], T(c) + 1) /\ T(c)' = T(c) + 1
    <3>1. CASE sync_locked
      <4>1. document' = document /\ T(c)' = typed'[c]
        BY <1>2, <2>1, <3>1, Keys DEF Blocked, T, Character
      <4>2. typed'[c] = IF input[c] \in Character THEN typed[c] - 1 ELSE typed[c]
        BY <1>0, <1>2, <3>1 DEF Blocked, ClientTypes
      <4> QED BY <4>1, <4>2 DEF T
    <3>2. CASE ~sync_locked
      BY <1>2, <3>2, EchoIs
    <3> QED BY <3>1, <3>2
  <2>3. /\ Has(c)' => Has(c) /\ SessionOf(session_id[c])' = SessionOf(session_id[c])
        /\ ~GaveUp(c) /\ ~Gone(c) /\ history_inputs'[c] = history_inputs[c]
    BY <1>n, <1>2 DEF server_vars, map_vars, Has, SessionOf, Ids, Gone
  <2> QED BY <1>0, <2>1, <2>2, <2>3, EndedOwn
<1>3. CASE /\ \/ server_status[c] = "TIMEOUT" /\ Fail(c, "TIMEOUT")
              \/ server_status[c] # "TIMEOUT" /\ CallFails(c) /\ Fail(c, "SHUTDOWN")
              \/ Fail(c, "TIMEOUT")
           /\ history_inputs' = [history_inputs EXCEPT ![c] = <<>>]
  <2>1. history_inputs'[c] = <<>>
    BY <1>0, <1>3 DEF ClientTypes
  <2>2. CASE Fail(c, "TIMEOUT")
    BY <1>0, <2>1, <2>2, FailOwn
  <2>3. CASE server_status[c] # "TIMEOUT" /\ CallFails(c) /\ Fail(c, "SHUTDOWN")
    <3>1. ~Has(c)'
      BY <2>3, ServedCallFails DEF Has
    <3> QED BY <1>0, <1>n, <2>1, <2>3, <3>1, FailOwn
  <2> QED BY <1>3, <2>2, <2>3
<1> QED BY <1>1, <1>2, <1>3 DEF CallSecond

LEMMA CallCommandOwn ==
  ASSUME BaseInv, NEW c \in App, Own(c), CallCommand(c)
  PROVE  Own(c)'
<1>0. /\ ClientTypes /\ pc[c] = "idle" /\ ~GaveUp(c)
      /\ UNCHANGED <<server_vars, session_id, history_inputs, pc, input, played,
                     document, typed, lost, partial, cut>>
  BY DEF BaseInv, CallCommand, GaveUp
<1>1. server_status'[c] = "SHUTDOWN"
  BY <1>0 DEF CallCommand, ClientTypes
<1>2. ~GaveUp(c)' /\ ~Gone(c) /\ ~Gone(c)' /\ T(c)' = T(c)
  BY <1>0, <1>1 DEF GaveUp, Gone, T, Character
<1>3. Has(c)' => Has(c) /\ SessionOf(session_id[c])' = SessionOf(session_id[c])
  BY <1>0 DEF server_vars, map_vars, Has, SessionOf, Ids
<1> QED BY <1>0, <1>2, <1>3, StillOwn DEF server_vars

LEMMA CreatedOwn ==
  ASSUME BaseInv, NEW c \in App, Own(c), CreateSessionCall(c), Created(c)
  PROVE  Own(c)'
<1> DEFINE d == document[c]
           h == history_inputs[c]
           p == partial[c]
           n == T(c)
           g == history_inputs'[c]
           s == NewSession(c)
<1>0. /\ ClientTypes /\ Control(c) /\ c \in alive /\ pc[c] \in {"session", "again"}
      /\ ~GaveUp(c) /\ played[c] = 0
  BY DEF BaseInv, CreateSessionCall, Control, GaveUp
<1>1. /\ n \in Nat /\ d \in Seq(Nat) /\ h \in Seq(Key) /\ p \in BOOLEAN /\ Len(d) \in Nat
      /\ Open(c) <=> Len(d) < n
  BY TypedIs
<1>2. /\ UNCHANGED alive /\ session_id'[c] = NewID /\ server_status'[c] = "OK"
      /\ UNCHANGED <<input, played, document, typed, partial, cut>>
  BY <1>0, ServedCreate DEF Created, ClientTypes
<1>3. /\ Has(c)' /\ SessionOf(session_id[c])' = s
  <2>1. NewID \in Ids' /\ session_map'[NewID] = s
    BY ServedCreate DEF Created
  <2> QED BY <1>2, <2>1 DEF Has, SessionOf
<1>4. s.text = <<>> /\ ~s.converting /\ s.converting = FALSE
  BY NewIsCoherent DEF NewSession
<1>5. T(c)' = n /\ ~GaveUp(c)' /\ ~Gone(c) /\ ~Gone(c)'
  BY <1>0, <1>2 DEF T, GaveUp, Gone, Character
\* What the step keeps, or else it gives the composition up.
<1>6. /\ pc[c] = "session" => pc'[c] = "first" /\ g = h /\ lost'[c] = (lost[c] \/ Open(c))
      /\ pc[c] = "again" =>
           /\ g = PlaybackOf(c) /\ pc'[c] = IF g = <<>> THEN "second" ELSE "playback"
           /\ lost'[c] = IF p \/ g # h THEN lost[c] \/ Open(c) ELSE lost[c]
  BY <1>0 DEF Created, GiveUp, ClientTypes
<1>7. g \in Seq(Key) /\ (g = h \/ (Over(h) /\ g = <<>>))
  <2>1. PlaybackOf(c) = IF Over(h) THEN <<>> ELSE h
    BY DEF PlaybackOf, Overfull, Over
  <2>2. g = h \/ g = PlaybackOf(c)
    BY <1>0, <1>6
  <2>3. <<>> \in Seq(Key)
    OBVIOUS
  <2> QED BY <1>1, <2>1, <2>2, <2>3
<1>8. Main(c)'
  <2> SUFFICES ASSUME ~lost'[c] PROVE Main(c)'
    BY DEF Main
  <2>1. ~lost[c] /\ (Open(c) => pc[c] = "again" /\ ~p /\ g = h)
    BY <1>0, <1>1, <1>6
  <2>2. Kept(d, h, p, n)
    BY <1>0, <1>5, <2>1 DEF Own, Main
  <2>3. CASE Open(c)
    <3>1. Kept(d, g, p, n) /\ ~p
      BY <2>1, <2>2, <2>3
    <3>2. pc'[c] # "playback" => Shown(d, g, p, n, s)
      <4>1. SUFFICES ASSUME pc'[c] # "playback" PROVE Shown(d, g, p, n, s)
        OBVIOUS
      <4>2. g = <<>>
        BY <1>6, <2>1, <2>3, <4>1
      <4>3. Replayed(g).text = <<>> /\ Replayed(g).converting = FALSE /\ ~Over(g)
        BY <4>2, EmptyReplay, ReplayedIs DEF NewSession
      <4>4. d \o <<>> = Count(n)
        BY <3>1, <4>3 DEF Kept
      <4> QED BY <1>4, <4>3, <4>4 DEF Shown, Same
    <3> QED BY <1>2, <1>3, <1>5, <3>1, <3>2 DEF Main, Kept, Shown, Over
  <2>4. CASE ~Open(c)
    <3>1. Len(d) >= n
      BY <1>1, <2>4
    <3>2. d = Count(n) /\ ~p /\ (~Over(h) => Replayed(h).text = <<>> /\ ~Replayed(h).converting)
      BY <1>1, <2>2, <3>1, NothingOpen
    <3>3. ~Over(g) => Replayed(g).text = <<>> /\ ~Replayed(g).converting
      BY <1>7, <3>2, EmptyReplay
    <3>4. ~Over(g) => Same(s, Replayed(g))
      <4>1. Coherent(Replayed(g)) /\ Replayed(g).converting \in BOOLEAN
        BY <1>7, ReplayedIs DEF Key, Coherent, SessionRecord
      <4> QED BY <1>4, <3>3, <4>1 DEF Same
    <3>5. Kept(d, g, FALSE, n) /\ Shown(d, g, FALSE, n, s)
      BY <1>1, <1>4, <3>2, <3>3, <3>4, KeptWhenOpen
    <3>6. p = FALSE
      BY <1>1, <3>2
    <3> QED BY <1>2, <1>3, <1>5, <3>5, <3>6 DEF Main, Kept, Shown, Over
  <2> QED BY <2>3, <2>4
<1>9. Rebuilt(c)'
  <2> SUFFICES ASSUME pc'[c] = "playback" PROVE Rebuilt(c)'
    BY DEF Rebuilt
  <2>1. pc[c] = "again" /\ g # <<>> /\ g = h /\ ~Over(h)
    BY <1>0, <1>6 DEF PlaybackOf, Overfull, Over
  <2>2. Replaying(h)[0] = NewSession(Other)
    BY <1>1, ReplayingSteps
  <2>3. Same(s, Replaying(g)[played'[c]])
    <3>1. played'[c] = 0
      BY <1>0, <1>2
    <3>2. Replaying(g)[played'[c]] = NewSession(Other)
      BY <2>1, <2>2, <3>1
    <3> QED BY <3>2 DEF Same, NewSession
  <2> QED BY <1>3, <2>1, <2>3 DEF Rebuilt, Over, Same
<1>10. Once(c)'
  <2> SUFFICES ASSUME ~cut'[c] PROVE Once(c)'
    BY DEF Once
  <2>1. Apart(d, <<>>, n) /\ (~Over(h) => Apart(d, Replayed(h).text, n))
    BY <1>0, <1>2 DEF Own, Once
  <2>2. ~Over(g) => Apart(d, Replayed(g).text, n)
    BY <1>7, <2>1, EmptyReplay
  <2> QED BY <1>2, <1>3, <1>4, <1>5, <2>1, <2>2 DEF Once, Over
<1> QED BY <1>8, <1>9, <1>10 DEF Own

LEMMA NotCreatedOwn ==
  ASSUME BaseInv, NEW c \in App, Own(c), CreateSessionCall(c), NotCreated(c)
  PROVE  Own(c)'
<1>0. /\ ClientTypes /\ Control(c) /\ c \in alive /\ pc[c] \in {"session", "again"} /\ ~GaveUp(c)
      /\ UNCHANGED <<history_inputs, input, played, document, typed, lost, partial, cut>>
  BY DEF BaseInv, CreateSessionCall, Control, GaveUp, NotCreated
<1>1. pc'[c] = "report" /\ session_id'[c] = 0
  BY <1>0 DEF NotCreated, ClientTypes
<1>2. ~Has(c)'
  <2>1. MapInv'
    BY Server DEF StepOf, ClientStep, Served
  <2> QED BY <1>1, <2>1, IDs DEF MapInv, SessionID, Has
<1>3. ~Gone(c) /\ ~Gone(c)' /\ T(c)' = T(c)
  BY <1>0, <1>1 DEF Gone, T, Character
<1> QED BY <1>0, <1>1, <1>2, <1>3, StillOwn

LEMMA PlayBackOwn ==
  ASSUME BaseInv, NEW c \in App, Own(c), PlayBack(c)
  PROVE  Own(c)'
<1> DEFINE d == document[c]
           h == history_inputs[c]
           p == partial[c]
           n == T(c)
           i == played[c]
           s == SessionOf(session_id[c])
<1>0. /\ ClientTypes /\ Control(c) /\ c \in alive /\ pc[c] = "playback" /\ server_status[c] = "OK"
      /\ UNCHANGED <<session_id, history_inputs, input, document, typed, partial, locks>>
  BY DEF BaseInv, PlayBack, Control
<1>1. /\ h \in Seq(Key) /\ i \in Nat /\ Len(h) \in Nat /\ i < Len(h) /\ h[i + 1] \in Key
      /\ i + 1 \in 1..Len(h) /\ i \in 0..Len(h) - 1 /\ i \in 0..Len(h) /\ i + 1 \in 0..Len(h)
  <2>1. h \in Seq(Key) /\ i \in Nat /\ Len(h) \in Nat /\ i < Len(h)
    BY <1>0 DEF ClientTypes, Control
  <2>2. i + 1 \in 1..Len(h) /\ i \in 0..Len(h) - 1 /\ i \in 0..Len(h) /\ i + 1 \in 0..Len(h)
    BY <2>1
  <2> QED BY <2>1, <2>2
<1>2. CASE /\ SendKey(session_id[c], h[i + 1])
           /\ played' = [played EXCEPT ![c] = i + 1]
           /\ pc' = [pc EXCEPT ![c] = IF i + 1 = Len(h) THEN "second" ELSE @]
           /\ Accepts(session_id[c]) /\ UNCHANGED <<lost, cut>>
           /\ UNCHANGED server_status
  <2>1. /\ Ids' = Ids /\ session_map'[session_id[c]] = After(s, h[i + 1]) /\ Coherent(s)
        /\ UNCHANGED alive /\ session_id[c] \in Ids
    BY <1>1, <1>2, SendKeyMap DEF BaseInv, Accepts
  <2>2. Has(c) /\ Has(c)' /\ SessionOf(session_id[c])' = After(s, h[i + 1])
    BY <1>0, <2>1 DEF Has, SessionOf
  <2>3. /\ played'[c] = i + 1 /\ pc'[c] = IF i + 1 = Len(h) THEN "second" ELSE "playback"
    BY <1>0, <1>2 DEF ClientTypes
  <2>4. T(c)' = n /\ ~GaveUp(c) /\ ~GaveUp(c)' /\ ~Gone(c) /\ ~Gone(c)'
    BY <1>0, <1>2 DEF T, GaveUp, Gone, Character
  <2>5. ~cut[c] => ~Over(h) /\ Same(After(s, h[i + 1]), Replaying(h)[i + 1])
    <3> SUFFICES ASSUME ~cut[c] PROVE ~Over(h) /\ Same(After(s, h[i + 1]), Replaying(h)[i + 1])
      OBVIOUS
    <3>1. ~Over(h) /\ Same(s, Replaying(h)[i])
      BY <1>0, <2>2 DEF Own, Rebuilt
    <3>2. Coherent(Replaying(h)[i]) /\ Replaying(h)[i + 1] = After(Replaying(h)[i], h[i + 1])
      BY <1>1, ReplayingCoherent, ReplayingSteps
    <3> QED BY <1>1, <2>1, <3>1, <3>2, AfterSame
  <2>6. ~cut[c] /\ pc'[c] # "playback" => Same(After(s, h[i + 1]), Replayed(h))
    BY <2>3, <2>5 DEF Replayed
  <2>7. Main(c)'
    <3> SUFFICES ASSUME ~lost'[c] PROVE Main(c)'
      BY DEF Main
    <3>1. ~lost[c] /\ ~cut[c]
      BY <1>0, <1>2 DEF Control
    <3>2. Kept(d, h, p, n) /\ ~p
      BY <1>0, <2>4, <3>1 DEF Own, Main
    <3>3. pc'[c] # "playback" => Shown(d, h, p, n, After(s, h[i + 1]))
      BY <2>5, <2>6, <3>1, <3>2 DEF Shown, Kept, Same
    <3> QED BY <1>0, <2>2, <2>4, <3>2, <3>3 DEF Main, Kept, Shown, Over
  <2>8. Rebuilt(c)'
    BY <1>0, <1>2, <2>2, <2>3, <2>5 DEF Rebuilt, Over, Same
  <2>9. Once(c)'
    <3> SUFFICES ASSUME ~cut'[c] PROVE Once(c)'
      BY DEF Once
    <3>1. Apart(d, <<>>, n) /\ ~Over(h) /\ Apart(d, Replayed(h).text, n)
      BY <1>0, <1>2, <2>4, <2>5 DEF Own, Once
    <3>2. pc'[c] # "playback" => Apart(d, After(s, h[i + 1]).text, n)
      BY <1>2, <2>6, <3>1 DEF Same
    <3> QED BY <1>0, <2>2, <2>4, <3>1, <3>2 DEF Once, Over
  <2> QED BY <2>7, <2>8, <2>9 DEF Own
<1>3. CASE CutShort(c)
  <2>1. lost'[c] /\ cut'[c]
    BY <1>0, <1>3 DEF CutShort, ClientTypes
  <2> QED BY <2>1 DEF Own, Main, Rebuilt, Once
<1> QED BY <1>2, <1>3 DEF PlayBack

LEMMA OwnStep ==
  ASSUME BaseInv, \A c \in App : Own(c), [Next]_vars
  PROVE  \A c \in App : Own(c)'
<1>1. ASSUME NEW c \in App, StepOf(c) PROVE \A d \in App : Own(d)'
  <2>1. ASSUME NEW d \in App, d # c PROVE Own(d)'
    BY <1>1, <2>1, Others, OthersOwn
  <2>2. Own(c)'
    <3>1. CreateSessionCall(c) => Own(c)'
      BY CreateEnds, CreatedOwn, NotCreatedOwn
    <3>2. AppEnds(c) => Own(c)'
      <4>1. AppEnds(c) => c \notin alive'
        BY DEF AppEnds
      <4> QED BY <4>1 DEF Own, Main, Rebuilt, Once
    <3> QED BY <1>1, <3>1, <3>2, PressOwn, StartServerOwn, ReportOwn, CallFirstOwn, PlayBackOwn,
               CallSecondOwn, CallCommandOwn DEF StepOf, ClientStep
  <2> QED BY <2>1, <2>2
<1>2. ASSUME Environment PROVE \A d \in App : Own(d)'
  BY <1>2, Surroundings, OthersOwn
<1>3. ASSUME UNCHANGED vars PROVE \A d \in App : Own(d)'
  <2> SUFFICES ASSUME NEW d \in App PROVE Own(d)'
    OBVIOUS
  <2>1. View(d)' = View(d) /\ UNCHANGED alive /\ Leaves(session_id[d])
    BY <1>3 DEF vars, server_vars, map_vars, client_vars, View, Leaves, Ids
  <2> QED BY <2>1, OthersOwn
<1> QED BY <1>1, <1>2, <1>3 DEF Next, StepOf

LEMMA OwnInit ==
  ASSUME Init
  PROVE  \A c \in App : Own(c)
<1> SUFFICES ASSUME NEW c \in App PROVE Own(c)
  OBVIOUS
<1>1. /\ BaseInv /\ T(c) = 0 /\ document[c] = <<>> /\ history_inputs[c] = <<>>
      /\ ~partial[c] /\ ~Has(c) /\ pc[c] = "idle" /\ ~GaveUp(c)
  <2>1. BaseInv /\ Ids = {}
    BY BaseInit, EmptyMap DEF Init, ServerInit
  <2>2. T(c) = 0
    BY Keys DEF Init, T
  <2> QED BY <2>1, <2>2 DEF Init, Has, GaveUp
<1>2. Count(0) = <<>>
  BY CountIs
<1>3. Kept(document[c], history_inputs[c], partial[c], T(c))
  <2>1. Kept(Count(0), <<>>, FALSE, 0)
    BY EmptyReplay, KeptWhenOpen
  <2>2. partial[c] = FALSE
    BY DEF Init
  <2> QED BY <1>1, <1>2, <2>1, <2>2
<1>4. Apart(<<>>, <<>>, 0)
  BY DEF Apart
<1> QED BY <1>1, <1>3, <1>4, EmptyReplay DEF Own, Main, Rebuilt, Once, Gone

LEMMA OwnAlways == Spec => [](BaseInv /\ \A c \in App : Own(c))
<1>1. Init => BaseInv /\ \A c \in App : Own(c)
  BY BaseInit, OwnInit
<1>2. (BaseInv /\ \A c \in App : Own(c)) /\ [Next]_vars => (BaseInv /\ \A c \in App : Own(c))'
  BY BaseStep, OwnStep
<1> QED BY <1>1, <1>2, PTL DEF Spec

LEMMA CompositionIs ==
  ASSUME BaseInv, NEW c \in App, pc[c] = "idle"
  PROVE  /\ T(c) = typed[c]
         /\ GaveUp(c) => Composition(c) = <<>>
         /\ ~GaveUp(c) /\ Reachable(session_id[c]) => Has(c) /\ Composition(c) = SessionOf(session_id[c]).text
         /\ ~GaveUp(c) /\ ~Reachable(session_id[c]) =>
              Composition(c) = IF Over(history_inputs[c]) THEN <<>> ELSE Replayed(history_inputs[c]).text
<1>1. input[c] = Enter
  BY DEF BaseInv, Control
<1>2. T(c) = typed[c]
  BY <1>1, Keys DEF T
<1> QED BY <1>2, EmptyReplay DEF Composition, Reachable, Has, PlaybackOf, Overfull, Over

\* Whatever servers and sessions come and go, what an application typed is in
\* its document and its composition, complete, in order and once, as long as
\* nothing was given up (EnsureCallCommand, PlaybackHistory, PushHistory).
THEOREM Complete == Spec => []ExactlyOnce
<1>1. BaseInv /\ (\A c \in App : Own(c)) => ExactlyOnce
  <2> SUFFICES ASSUME BaseInv, NEW c \in App, Own(c), c \in alive, pc[c] = "idle", ~lost[c]
               PROVE  \/ document[c] \o Composition(c) = Count(typed[c])
                      \/ ~Reachable(session_id[c]) /\ (partial[c] \/ Overfull(c))
    BY DEF ExactlyOnce, BaseInv, ClientTypes
  <2>1. T(c) \in Nat /\ T(c) = typed[c]
    BY TypedIs, CompositionIs
  <2>2. CASE GaveUp(c)
    <3>1. document[c] = Count(T(c)) /\ Composition(c) = <<>>
      BY <2>2, CompositionIs DEF Own, Main, Gone
    <3> QED BY <2>1, <3>1, CountEnds
  <2>3. CASE ~GaveUp(c)
    <3>1. /\ Kept(document[c], history_inputs[c], partial[c], T(c))
          /\ Has(c) => Shown(document[c], history_inputs[c], partial[c], T(c), SessionOf(session_id[c]))
      BY <2>3 DEF Own, Main, Gone
    <3>2. CASE Reachable(session_id[c])
      BY <2>1, <2>3, <3>1, <3>2, CompositionIs DEF Shown
    <3>3. CASE ~Reachable(session_id[c])
      BY <2>1, <2>3, <3>1, <3>3, CompositionIs DEF Kept, Over, Overfull
    <3> QED BY <3>2, <3>3
  <2> QED BY <2>2, <2>3
<1> QED BY <1>1, OwnAlways, PTL

\* Not even a composition that was given up brings a character into the
\* document twice, or into the document and the composition, unless a playback
\* was cut short (EnsureCallCommand, PlaybackHistory).
THEOREM NoRepetition == Spec => []NothingTwice
<1>1. BaseInv /\ (\A c \in App : Own(c)) => NothingTwice
  <2> SUFFICES ASSUME BaseInv, NEW c \in App, Own(c), c \in alive, pc[c] = "idle", ~cut[c]
               PROVE  IsInjective(document[c] \o Composition(c))
    BY DEF NothingTwice, BaseInv, ClientTypes
  <2>1. /\ Apart(document[c], <<>>, T(c))
        /\ ~GaveUp(c) =>
             /\ ~Over(history_inputs[c]) => Apart(document[c], Replayed(history_inputs[c]).text, T(c))
             /\ Has(c) => Apart(document[c], SessionOf(session_id[c]).text, T(c))
    BY DEF Own, Once
  <2>2. /\ document[c] \in Seq(Nat) /\ T(c) \in Nat /\ <<>> \in Seq(Nat)
        /\ Replayed(history_inputs[c]).text \in Seq(Nat)
        /\ Has(c) => SessionOf(session_id[c]).text \in Seq(Nat)
    BY TypedIs, ReplayedText, Characters DEF Coherent, SessionRecord
  <2>3. Composition(c) \in Seq(Nat) /\ Apart(document[c], Composition(c), T(c))
    BY <2>1, <2>2, CompositionIs
  <2> QED BY <2>2, <2>3, ApartIsInjective
<1> QED BY <1>1, OwnAlways, PTL
=============================================================================
