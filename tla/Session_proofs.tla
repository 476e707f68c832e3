--------------------------- MODULE Session_proofs ---------------------------
(***************************************************************************)
(* Three results about Session, for every number of keys and every depth   *)
(* of the undo stack.                                                      *)
(*                                                                         *)
(* Types and agreement: IInv holds them together, for they are inductive   *)
(* only together.  The lemmas say that each helper returns a context that  *)
(* agrees, the ...Keeps lemmas that each handler only installs such        *)
(* contexts.                                                               *)
(*                                                                         *)
(* The end of a related conversion: an action property of IInv alone.      *)
(*                                                                         *)
(* The refinement of Editor: RefInv adds that no deletion is deferred and  *)
(* that undoing, entry by entry, goes through the remembered pictures.     *)
(* The ...Follows lemmas map each handler to a step of the editor.         *)
(***************************************************************************)
EXTENDS Session, SequenceTheorems, TLAPS

Good(c) == c \in Context /\ Agrees(c)

Entry == [context : Context, output : Nat, text : Text, done : Nat]

GoodStack(s) ==
  /\ s \in Seq(Entry) /\ Len(s) <= MaxUndo
  /\ \A i \in 1..Len(s) :
       Agrees(s[i].context) /\ s[i].context.state \in Composing

Flags == keep \in BOOLEAN /\ dismissed \in BOOLEAN /\ bypassed \in BOOLEAN

IInv == /\ Good(context) /\ GoodStack(undo_contexts)
        /\ Flags
        /\ document \in Text /\ pending \in Nat
        /\ typed \in 0..MaxKeys

-----------------------------------------------------------------------------
(* Texts.                                                                  *)

LEMMA Characters ==
  ASSUME NEW t \in Text
  PROVE  Len(t) \in Nat /\ \A i \in 1..Len(t) : t[i] \in 1..MaxKeys
<1>. t \in Seq(1..MaxKeys)
  BY DEF Text
<1>1. Len(t) \in Nat
  BY LenProperties
<1>2. \A i \in 1..Len(t) : t[i] \in 1..MaxKeys
  BY ElementOfSeq
<1>. QED BY <1>1, <1>2

LEMMA Prefix == ASSUME NEW t \in Text, NEW n \in Nat, n <= Len(t)
                PROVE  SubSeq(t, 1, n) \in Text /\ Len(SubSeq(t, 1, n)) = n
<1>1. Len(t) \in Nat /\ \A i \in 1..n : t[i] \in 1..MaxKeys
  BY Characters
<1>. QED BY <1>1, SubSeqProperties DEF Text

LEMMA Suffix == ASSUME NEW t \in Text, NEW n \in Nat, n <= Len(t)
                PROVE  /\ SubSeq(t, n + 1, Len(t)) \in Text
                       /\ Len(SubSeq(t, n + 1, Len(t))) = Len(t) - n
<1>1. Len(t) \in Nat /\ \A i \in (n + 1)..Len(t) : t[i] \in 1..MaxKeys
  BY Characters
<1>2. CASE n = Len(t)
  <2>1. n + 1 > Len(t)
    BY <1>1, <1>2
  <2>2. SubSeq(t, n + 1, Len(t)) = <<>>
    BY <1>1, <2>1, SubSeqProperties DEF Text
  <2>. QED BY <2>2, <1>1, <1>2 DEF Text
<1>3. CASE n < Len(t)
  BY <1>1, <1>3, SubSeqProperties DEF Text
<1>. QED BY <1>1, <1>2, <1>3

LEMMA Cut == ASSUME NEW t \in Text, NEW n \in Nat
             PROVE  SubSeq(t, 1, Len(t) - n) \in Text
<1>0. Len(t) \in Nat
  BY DEF Text
<1>1. CASE n <= Len(t)
  BY <1>0, <1>1, Prefix
<1>2. CASE n > Len(t)
  <2>0. Len(t) - n < 1 /\ Len(t) - n \in Int
    BY <1>0, <1>2
  <2>1. SubSeq(t, 1, Len(t) - n) = <<>>
    BY <1>0, <2>0, SubSeqProperties DEF Text
  <2>2. <<>> \in Text
    BY DEF Text
  <2>. QED BY <2>1, <2>2
<1>. QED BY <1>0, <1>1, <1>2 DEF Text

LEMMA Popped ==
  ASSUME NEW S, NEW s \in Seq(S), Len(s) > 0
  PROVE  /\ SubSeq(s, 1, Len(s) - 1) \in Seq(S)
         /\ Len(SubSeq(s, 1, Len(s) - 1)) = Len(s) - 1
         /\ \A i \in 1..(Len(s) - 1) : SubSeq(s, 1, Len(s) - 1)[i] = s[i]
<1>1. Len(s) \in Nat /\ \A i \in 1..Len(s) : s[i] \in S
  BY LenProperties, ElementOfSeq
<1>. DEFINE m == Len(s) - 1
<1>2. m \in Nat /\ \A i \in 1..m : s[i] \in S
  BY <1>1
<1>. HIDE DEF m
<1>3. /\ SubSeq(s, 1, m) \in Seq(S) /\ Len(SubSeq(s, 1, m)) = m
      /\ \A i \in 1..m : SubSeq(s, 1, m)[i] = s[i]
  BY <1>2, SubSeqProperties
<1>. QED BY <1>3 DEF m

-----------------------------------------------------------------------------
(* Contexts.                                                               *)

LEMMA ResetGood ==
  ASSUME NEW c \in Context, NEW s \in {"DIRECT", "PRECOMPOSITION"}
  PROVE  Good(ConverterReset(SetSessionState(c, s)))
<1>. DEFINE d == SetSessionState(c, s)
            r == ConverterReset(d)
<1>0. <<>> \in Text /\ Len(<<>>) = 0
  BY DEF Text
<1>1. /\ d \in Context /\ d.state = s /\ d.composer = <<>> /\ d.source = <<>>
  BY <1>0 DEF Context, SessionState, SetSessionState
<1>2. /\ r \in Context /\ r.state = s /\ r.composer = <<>> /\ r.source = <<>>
      /\ r.converter = "COMPOSITION" /\ r.segments = {}
  <2>. HIDE DEF d
  <2>. QED BY <1>1 DEF Context, ConverterState, ConverterReset
<1>. HIDE DEF r
<1>3. Agrees(r)
  BY <1>0, <1>2 DEF Agrees, Composing
<1>. QED BY <1>2, <1>3 DEF Good, r

LEMMA CancelGood ==
  ASSUME NEW c \in Context
  PROVE  Good(PrecompositionAndCancel(c))
  BY ResetGood DEF PrecompositionAndCancel

LEMMA SuggestGood ==
  ASSUME NEW c \in Context, c.state = "COMPOSITION", c.composer # <<>>,
         NEW d \in Suggest(c)
  PROVE  Good(d)
<1>. DEFINE r == ConverterReset(c)
<1>1. /\ r \in Context /\ r.state = "COMPOSITION" /\ r.composer = c.composer
      /\ r.converter = "COMPOSITION" /\ r.segments = {}
  BY DEF Context, ConverterReset, ConverterState
<1>2. Len(c.composer) \in Nat \ {0}
  BY DEF Context, Text
<1>3. CASE d = r
  BY <1>1, <1>2, <1>3 DEF Good, Agrees, Composing
<1>4. CASE d = [r EXCEPT !.converter = "SUGGESTION",
                         !.segments = {Len(c.composer)}]
  <2>. HIDE DEF r
  <2>1. /\ d \in Context /\ d.state = "COMPOSITION" /\ d.composer = c.composer
        /\ d.converter = "SUGGESTION" /\ d.segments = {Len(c.composer)}
    BY <1>1, <1>2, <1>4 DEF Context, ConverterState
  <2>. QED BY <2>1, <1>2 DEF Good, Agrees, Composing
<1>. QED BY <1>3, <1>4 DEF Suggest

LEMMA ConvertGood ==
  ASSUME NEW c \in Context, c.composer # <<>>, NEW d \in Convert(c)
  PROVE  Good(d)
<1>1. Len(c.composer) \in Nat \ {0}
  BY DEF Context, Text
<1>2. PICK cuts \in SUBSET (1..(Len(c.composer) - 1)) :
        d = [c EXCEPT !.state = "CONVERSION", !.converter = "CONVERSION",
                      !.segments = cuts \cup {Len(c.composer)}]
  BY DEF Convert
<1>. DEFINE n == Len(c.composer)
<1>3. cuts \subseteq 1..n /\ n \in 1..n /\ \A x \in 1..n : x \in Nat
  BY <1>1
<1>6. cuts \cup {n} \in SUBSET Nat
  BY <1>3
<1>4. /\ d \in Context /\ d.state = "CONVERSION" /\ d.composer = c.composer
      /\ d.converter = "CONVERSION"
      /\ d.segments = cuts \cup {Len(c.composer)}
  BY <1>2, <1>6 DEF Context, ConverterState, SessionState
<1>5. cuts \cup {Len(c.composer)} \subseteq 1..Len(c.composer)
  BY <1>3
<1>. QED BY <1>1, <1>4, <1>5 DEF Good, Agrees, Composing

LEMMA DeleteRangeGood ==
  ASSUME NEW c, Good(c), c.state = "CONVERSION", NEW n \in c.segments,
         n # Len(c.composer)
  PROVE  Good(DeleteRange(c, n))
<1>. DEFINE d == DeleteRange(c, n)
<1>1. /\ c \in Context /\ c.composer \in Text /\ Len(c.composer) \in Nat
      /\ n \in 1..Len(c.composer) /\ n < Len(c.composer)
      /\ Len(c.composer) \in c.segments
      /\ c.segments \subseteq 1..Len(c.composer)
      /\ c.converter \in {"PREDICTION", "CONVERSION"}
  BY DEF Good, Agrees, Context, Text
<1>2. /\ SubSeq(c.composer, n + 1, Len(c.composer)) \in Text
      /\ Len(SubSeq(c.composer, n + 1, Len(c.composer))) = Len(c.composer) - n
  BY <1>1, Suffix
<1>3. {e - n : e \in {x \in c.segments : x > n}} \subseteq
        1..(Len(c.composer) - n)
  BY <1>1
<1>4. Len(c.composer) - n \in {e - n : e \in {x \in c.segments : x > n}}
  BY <1>1
<1>. DEFINE left == {e - n : e \in {x \in c.segments : x > n}}
            rest == SubSeq(c.composer, n + 1, Len(c.composer))
<1>5. left \in SUBSET Nat
  BY <1>1, <1>3
<1>6. /\ d \in Context /\ d.state = "CONVERSION" /\ d.converter = c.converter
      /\ d.composer = rest /\ d.segments = left
  <2>1. d = [c EXCEPT !.composer = rest, !.segments = left]
    BY <1>1 DEF DeleteRange, Context
  <2>. HIDE DEF d, left, rest
  <2>. QED BY <1>1, <1>2, <1>5, <2>1, c.state = "CONVERSION" DEF Context, rest
<1>7. Len(rest) = Len(c.composer) - n /\ Len(rest) \in Nat \ {0}
  BY <1>1, <1>2
<1>8. Len(rest) \in left /\ left \subseteq 1..Len(rest)
  BY <1>3, <1>4, <1>7
<1>9. d.segments # {}
  BY <1>6, <1>8
<1>. HIDE DEF d, left, rest
<1>10. Agrees(d)
  BY <1>1, <1>6, <1>7, <1>8, <1>9 DEF Agrees, Composing
<1>. QED BY <1>6, <1>10 DEF Good, d

\* A context with a reading is one in which something is being composed.
LEMMA Reading ==
  ASSUME NEW c, Good(c)
  PROVE  /\ c \in Context /\ c.composer \in Text /\ Len(c.composer) \in Nat
         /\ c.state \in Composing <=> c.composer # <<>>
<1>1. c \in Context /\ c.composer \in Text
  BY DEF Good, Context
<1>2. Len(c.composer) \in Nat /\ (Len(c.composer) > 0 <=> c.composer # <<>>)
  BY <1>1, EmptySeq, LenProperties DEF Text
<1>3. c.state \in Composing <=> Len(c.composer) > 0
  BY DEF Good, Agrees
<1>. QED BY <1>1, <1>2, <1>3

-----------------------------------------------------------------------------
(* Helpers with variables.                                                 *)

\* The stack after a step.
Stacked == GoodStack(undo_contexts') /\ bypassed' \in BOOLEAN

LEMMA Emptied == GoodStack(<<>>)
  BY SessionAssumption DEF GoodStack

LEMMA Cleared == ASSUME ClearUndoContext PROVE Stacked
  BY Emptied DEF ClearUndoContext, Stacked

LEMMA KeptStack == ASSUME IInv, KeepUndo PROVE Stacked
  BY DEF KeepUndo, Stacked, IInv, Flags

LEMMA PassedBy == ASSUME IInv, BypassUndo PROVE Stacked
<1>1. undo_contexts' = undo_contexts /\ GoodStack(undo_contexts)
  BY DEF BypassUndo, IInv
<1>2. bypassed' \in BOOLEAN
  BY DEF BypassUndo, IInv, Flags
<1>. QED BY <1>1, <1>2 DEF Stacked

LEMMA ScreenText == ASSUME IInv PROVE Screen \in Text
<1>1. document \in Text /\ context.composer \in Text
  BY Reading DEF IInv
<1>2. document \o context.composer \in Text
  BY <1>1, ConcatProperties DEF Text
<1>. QED BY <1>1, <1>2 DEF Screen, ScreenOf

LEMMA PushGood ==
  ASSUME IInv, context.state \in Composing, NEW s, GoodStack(s), NEW n \in Nat
  PROVE  GoodStack(PushUndoContext(s, n))
<1>. DEFINE e == UndoEntry(n)
            t == Append(s, e)
<1>1. /\ e \in Entry /\ Agrees(e.context) /\ e.context.state \in Composing
  <2>1. Len(document) \in Nat /\ context \in Context /\ Agrees(context)
    BY Characters DEF IInv, Good
  <2>. QED BY <2>1, ScreenText DEF UndoEntry, Entry
<1>. HIDE DEF e
<1>2. s \in Seq(Entry) /\ Len(s) \in Nat /\ Len(s) <= MaxUndo
  BY LenProperties DEF GoodStack
<1>3. /\ t \in Seq(Entry) /\ Len(t) = Len(s) + 1
      /\ \A i \in 1..Len(s) : t[i] = s[i]
      /\ t[Len(s) + 1] = e
  BY <1>1, <1>2, AppendProperties
<1>. HIDE DEF t
<1>4. \A i \in 1..Len(t) : Agrees(t[i].context) /\ t[i].context.state \in Composing
  <2>. SUFFICES ASSUME NEW i \in 1..Len(t)
                PROVE  Agrees(t[i].context) /\ t[i].context.state \in Composing
    OBVIOUS
  <2>1. CASE i \in 1..Len(s)
    BY <2>1, <1>3 DEF GoodStack
  <2>2. CASE i = Len(s) + 1
    BY <2>2, <1>1, <1>3
  <2>. QED BY <2>1, <2>2, <1>2, <1>3
<1>5. CASE Len(t) > MaxUndo
  <2>1. t # <<>>
    BY <1>2, <1>3, EmptySeq
  <2>2. /\ Tail(t) \in Seq(Entry) /\ Len(Tail(t)) = Len(t) - 1
        /\ \A i \in 1..Len(Tail(t)) : Tail(t)[i] = t[i + 1]
    BY <2>1, <1>3, HeadTailProperties
  <2>3. \A i \in 1..Len(Tail(t)) : i + 1 \in 1..Len(t)
    BY <2>2, <1>2, <1>3
  <2>4. Len(Tail(t)) <= MaxUndo
    BY <2>2, <1>2, <1>3
  <2>5. GoodStack(Tail(t))
    BY <2>2, <2>3, <2>4, <1>4 DEF GoodStack
  <2>. QED BY <2>5, <1>5 DEF PushUndoContext, t, e
<1>6. CASE ~(Len(t) > MaxUndo)
  <2>1. Len(t) <= MaxUndo
    BY <1>2, <1>3, <1>6, SessionAssumption
  <2>2. GoodStack(t)
    BY <2>1, <1>3, <1>4 DEF GoodStack
  <2>. QED BY <2>2, <1>6 DEF PushUndoContext, t, e
<1>. QED BY <1>5, <1>6

LEMMA Pushed ==
  ASSUME IInv, context.state \in Composing, NEW n \in Nat, PushUndo(n)
  PROVE  Stacked
<1>1. GoodStack(PushUndoContext(undo_contexts, n))
  BY PushGood DEF IInv
<1>. QED BY <1>1 DEF PushUndo, Stacked, IInv, Flags

\* A step that shows a context that agrees keeps the invariant.
LEMMA Shown ==
  ASSUME IInv, NEW c, Good(c), NEW w, NEW r \in Text, NEW k \in BOOLEAN,
         Show(c, w, r, k), Stacked,
         dismissed' \in BOOLEAN, typed' \in 0..MaxKeys
  PROVE  IInv'
<1>1. Good(context') /\ keep' \in BOOLEAN
  BY DEF Show
<1>2. document \in Text /\ pending \in Nat
  BY DEF IInv
<1>3. SubSeq(document, 1, Len(document) - pending) \in Text
  BY <1>2, Cut
<1>4. document' \in Text
  <2>1. document \o r \in Text
    BY <1>2, ConcatProperties DEF Text
  <2>2. SubSeq(document, 1, Len(document) - pending) \o r \in Text
    BY <1>3, ConcatProperties DEF Text
  <2>. QED BY <2>1, <2>2 DEF Show
<1>5. pending' \in Nat
  BY <1>2 DEF Show
<1>. QED BY <1>1, <1>4, <1>5 DEF IInv, Flags, Stacked

LEMMA Outcome ==
  ASSUME IInv, NEW o \in CommitOutcomes
  PROVE  /\ context.state \in Composing
         /\ o.result \in Text /\ o.pushed \in BOOLEAN /\ Len(o.result) \in Nat
<1>1. context.state \in Composing
  BY DEF CommitOutcomes
<1>2. context.composer \in Text /\ <<>> \in Text /\ context.drawing \in BOOLEAN
  BY Reading DEF IInv, Good, Context, Text
<1>3. o.result \in {context.composer, <<>>}
  BY DEF CommitOutcomes
<1>4. o.pushed \in BOOLEAN
  <2>1. CASE o = [result |-> context.composer, pushed |-> TRUE]
    BY <2>1
  <2>2. CASE o = [result |-> <<>>, pushed |-> ~context.drawing]
    BY <2>2
  <2>. QED BY <2>1, <2>2 DEF CommitOutcomes
<1>. QED BY <1>1, <1>2, <1>3, <1>4, Characters

-----------------------------------------------------------------------------
(* Typing.                                                                 *)

LEMMA FreshKey ==
  ASSUME IInv, CanType, TypeKey
  PROVE  Fresh \in 1..MaxKeys /\ typed' \in 0..MaxKeys /\ <<Fresh>> \in Text
<1>1. Fresh \in 1..MaxKeys /\ typed' = Fresh
  BY SessionAssumption DEF IInv, CanType, TypeKey, Fresh
<1>. QED BY <1>1, SessionAssumption DEF Text

LEMMA ResetKeepsType ==
  ASSUME NEW c \in Context
  PROVE  /\ ConverterReset(c) \in Context
         /\ ConverterReset(c).state = c.state
         /\ ConverterReset(c).composer = c.composer
         /\ ConverterReset(c).source = c.source
  BY DEF ConverterReset, Context, ConverterState

LEMMA ResetOfGood ==
  ASSUME NEW c, Good(c), c.state # "CONVERSION"
  PROVE  Good(ConverterReset(c))
<1>. DEFINE r == ConverterReset(c)
<1>1. c \in Context /\ Len(c.composer) \in Nat /\ Agrees(c)
  BY Reading DEF Good
<1>2. /\ r \in Context /\ r.state = c.state /\ r.composer = c.composer
      /\ r.source = c.source
      /\ r.converter = "COMPOSITION" /\ r.segments = {}
  BY <1>1, ResetKeepsType DEF ConverterReset, Context, ConverterState
<1>. HIDE DEF r
<1>3. Agrees(r)
  BY <1>1, <1>2 DEF Agrees
<1>. QED BY <1>2, <1>3 DEF Good, r

LEMMA InsertCharacterKeeps == ASSUME IInv, InsertCharacter PROVE IInv'
<1>1. Good(context) /\ context \in Context
  BY DEF IInv, Good
<1>2. /\ Fresh \in 1..MaxKeys /\ typed' \in 0..MaxKeys
  BY FreshKey DEF InsertCharacter
<1>3. Stacked
  BY Cleared DEF InsertCharacter
<1>4. dismissed' \in BOOLEAN
  BY DEF InsertCharacter, IInv, Flags
<1>. DEFINE Typed(c) == SetSessionState(
                          [c EXCEPT !.composer = Append(@, Fresh)], "COMPOSITION")
            Then(c) == Suggest(Typed(c)) \cup Convert(ConverterReset(Typed(c)))
<1>5. ASSUME NEW c \in Context, NEW d \in Then(c)
      PROVE  Good(d)
  <2>1. c \in Context /\ c.composer \in Text
    BY <1>5 DEF Context
  <2>2. Append(c.composer, Fresh) \in Text /\ Append(c.composer, Fresh) # <<>>
    BY <2>1, <1>2, AppendProperties DEF Text
  <2>. DEFINE e == [c EXCEPT !.composer = Append(c.composer, Fresh)]
              t == Typed(c)
  <2>3. e \in Context /\ e.composer = Append(c.composer, Fresh)
    BY <2>1, <2>2 DEF Context
  <2>4. t = SetSessionState(e, "COMPOSITION")
    BY <2>1 DEF Context
  <2>. HIDE DEF e, t
  <2>5. /\ t \in Context /\ t.state = "COMPOSITION" /\ t.composer # <<>>
    BY <2>2, <2>3, <2>4 DEF SetSessionState, Context, SessionState
  <2>6. CASE d \in Suggest(t)
    BY <2>5, <2>6, SuggestGood
  <2>7. CASE d \in Convert(ConverterReset(t))
    BY <2>5, <2>7, ConvertGood, ResetKeepsType
  <2>. QED BY <2>6, <2>7, <1>5 DEF t
<1>. HIDE DEF Then
<1>6. CASE context.state # "CONVERSION" \/ dismissed
  <2>1. PICK d \in Then(ConverterReset(context)) : Respond(d, <<>>, keep)
    BY <1>6 DEF InsertCharacter, Then
  <2>2. Good(d)
    BY <2>1, <1>1, <1>5, ResetKeepsType
  <2>3. <<>> \in Text /\ keep \in BOOLEAN
    BY DEF Text, IInv, Flags
  <2>. QED BY <2>1, <2>2, <2>3, <1>2, <1>3, <1>4, Shown DEF Respond
<1>7. CASE context.state = "CONVERSION" /\ ~dismissed
  <2>1. PICK o \in CommitOutcomes :
          \E d \in Then(PrecompositionAndCancel(context)) :
             Respond(d, o.result, FALSE)
    BY <1>7 DEF InsertCharacter, Then
  <2>2. PICK d \in Then(PrecompositionAndCancel(context)) :
             Respond(d, o.result, FALSE)
    BY <2>1
  <2>3. Good(d)
    BY <2>2, <1>1, <1>5, CancelGood DEF Good
  <2>. QED BY <2>2, <2>3, Outcome, <1>2, <1>3, <1>4, Shown DEF Respond
<1>8. dismissed \in BOOLEAN
  BY DEF IInv, Flags
<1>. QED BY <1>6, <1>7, <1>8

LEMMA InsertDirectInputKeeps == ASSUME IInv, InsertDirectInput PROVE IInv'
<1>1. Good(PrecompositionAndCancel(context))
  BY CancelGood DEF IInv, Good
<1>2. Fresh \in 1..MaxKeys /\ typed' \in 0..MaxKeys /\ <<Fresh>> \in Text
  BY FreshKey DEF InsertDirectInput
<1>3. Stacked
  BY Cleared DEF InsertDirectInput
<1>4. dismissed' \in BOOLEAN /\ keep \in BOOLEAN
  BY DEF InsertDirectInput, IInv, Flags
<1>5. CASE Respond(PrecompositionAndCancel(context), <<Fresh>>, keep)
  BY <1>1, <1>2, <1>3, <1>4, <1>5, Shown DEF Respond
<1>6. CASE \E o \in CommitOutcomes :
             Respond(PrecompositionAndCancel(context), Append(o.result, Fresh), FALSE)
  <2>1. PICK o \in CommitOutcomes :
             Respond(PrecompositionAndCancel(context), Append(o.result, Fresh), FALSE)
    BY <1>6
  <2>2. Append(o.result, Fresh) \in Text
    BY Outcome, <1>2, AppendProperties DEF Text
  <2>. QED BY <1>1, <1>2, <1>3, <1>4, <2>1, <2>2, Shown DEF Respond
<1>. QED BY <1>5, <1>6 DEF InsertDirectInput

LEMMA BackspaceKeeps == ASSUME IInv, Backspace PROVE IInv'
<1>. DEFINE c == [context EXCEPT !.composer = SubSeq(@, 1, Len(@) - 1)]
<1>1. context \in Context /\ context.composer \in Text
  BY DEF IInv, Good, Context
<1>2. SubSeq(context.composer, 1, Len(context.composer) - 1) \in Text
  BY <1>1, Cut
<1>3. c \in Context /\ c.state = "COMPOSITION"
  <2>1. c = [context EXCEPT !.composer =
               SubSeq(context.composer, 1, Len(context.composer) - 1)]
    BY <1>1 DEF Context
  <2>. QED BY <2>1, <1>1, <1>2 DEF Context, Backspace
<1>4. Stacked /\ dismissed' \in BOOLEAN /\ typed' \in 0..MaxKeys
  BY Cleared DEF Backspace, IInv, Flags
<1>5. <<>> \in Text /\ keep \in BOOLEAN
  BY DEF Text, IInv, Flags
<1>6. CASE c.composer = <<>>
  <2>1. Respond(PrecompositionAndCancel(c), <<>>, keep)
    BY <1>6 DEF Backspace
  <2>. QED BY <2>1, <1>3, <1>4, <1>5, CancelGood, Shown DEF Respond
<1>7. CASE c.composer # <<>>
  <2>1. PICK d \in Suggest(c) : Respond(d, <<>>, keep)
    BY <1>7 DEF Backspace
  <2>2. Good(d)
    BY <1>3, <1>7, SuggestGood
  <2>. QED BY <2>1, <2>2, <1>4, <1>5, Shown DEF Respond
<1>. QED BY <1>6, <1>7

LEMMA EchoBackKeeps == ASSUME IInv, EchoBackAndClearUndoContext PROVE IInv'
<1>1. Good(ConverterReset(context))
  BY ResetOfGood DEF IInv, EchoBackAndClearUndoContext, Composing
<1>2. Stacked
  BY Cleared DEF EchoBackAndClearUndoContext
<1>3. document \in Text /\ typed \in 0..MaxKeys
  BY DEF IInv
<1>4. document' \in Text /\ typed' \in 0..MaxKeys
  <2>1. CASE CanType /\ TypeKey /\ document' = Append(document, Fresh)
    <3>1. Append(document, Fresh) \in Text
      BY <1>3, <2>1, FreshKey, AppendProperties DEF Text
    <3>. QED BY <3>1, <2>1, FreshKey
  <2>2. CASE /\ document # <<>>
             /\ document' = SubSeq(document, 1, Len(document) - 1)
             /\ UNCHANGED typed
    BY <1>3, <2>2, Cut
  <2>3. CASE UNCHANGED <<document, typed>>
    BY <1>3, <2>3
  <2>. QED BY <2>1, <2>2, <2>3 DEF EchoBackAndClearUndoContext
<1>. QED BY <1>1, <1>2, <1>4 DEF EchoBackAndClearUndoContext, IInv, Flags, Stacked

LEMMA InsertTextKeeps == ASSUME IInv, InsertText PROVE IInv'
<1>1. <<Fresh>> \in Text /\ typed' \in 0..MaxKeys
  BY FreshKey DEF InsertText
<1>2. Stacked /\ dismissed' \in BOOLEAN /\ keep \in BOOLEAN
  BY PassedBy DEF InsertText, IInv, Flags
<1>3. CASE context.state = "DIRECT"
  <2>1. Good(ConverterReset(context))
    BY <1>3, ResetOfGood DEF IInv
  <2>. QED BY <2>1, <1>1, <1>2, <1>3, Shown DEF Respond, InsertText
<1>4. CASE context.state # "DIRECT"
  <2>1. Good(PrecompositionAndCancel(context))
    BY CancelGood DEF IInv, Good
  <2>. QED BY <2>1, <1>1, <1>2, <1>4, Shown DEF Respond, InsertText
<1>. QED BY <1>3, <1>4

LEMMA CommitRawTextKeeps == ASSUME IInv, CommitRawText PROVE IInv'
<1>1. Good(PrecompositionAndCancel(context)) /\ context.composer \in Text
  BY CancelGood, Reading DEF IInv, Good
<1>2. /\ Stacked /\ dismissed' \in BOOLEAN /\ keep \in BOOLEAN
      /\ typed' \in 0..MaxKeys
  BY PassedBy DEF CommitRawText, IInv, Flags
<1>. QED BY <1>1, <1>2, Shown DEF Respond, CommitRawText

-----------------------------------------------------------------------------
(* Converting.                                                             *)

\* The facts most steps begin with.
LEMMA Start ==
  ASSUME IInv
  PROVE  /\ Good(context) /\ context \in Context /\ context.composer \in Text
         /\ Len(context.composer) \in Nat
         /\ context.state \in Composing => Len(context.composer) > 0
         /\ keep \in BOOLEAN /\ dismissed \in BOOLEAN
         /\ typed \in 0..MaxKeys /\ <<>> \in Text
         /\ document \in Text /\ Len(document) \in Nat
  BY Characters DEF IInv, Good, Flags, Text, Context, Agrees

\* A conversion over the reading as it is.
LEMMA ConversionGood ==
  ASSUME NEW c \in Context, Len(c.composer) \in Nat, Len(c.composer) > 0,
         c.state = "CONVERSION", c.converter \in {"PREDICTION", "CONVERSION"},
         Len(c.composer) \in c.segments, c.segments \subseteq 1..Len(c.composer)
  PROVE  Good(c)
  BY DEF Good, Agrees, Composing

LEMMA StartConversionKeeps == ASSUME IInv, StartConversion PROVE IInv'
<1>1. context.composer # <<>>
  BY Start DEF StartConversion, Composing
<1>2. PICK c \in Convert(ConverterReset(context)) : Respond(c, <<>>, keep)
  BY DEF StartConversion
<1>3. Good(c)
  BY <1>1, Start, ResetKeepsType, ConvertGood
<1>. QED BY <1>2, <1>3, Start, KeptStack, Shown DEF StartConversion, Respond

LEMMA PredictKeeps == ASSUME IInv, Predict PROVE IInv'
<1>. DEFINE n == Len(context.composer)
            c == [context EXCEPT !.state = "CONVERSION",
                    !.converter = "PREDICTION", !.segments = {n}]
<1>1. n \in Nat /\ n > 0
  BY Start DEF Predict, Composing
<1>2. /\ c \in Context /\ c.composer = context.composer
      /\ c.state = "CONVERSION" /\ c.converter = "PREDICTION"
      /\ c.segments = {n}
  <2>1. {n} \in SUBSET Nat
    BY <1>1
  <2>. HIDE DEF n
  <2>. QED BY <2>1, Start DEF Context, SessionState, ConverterState
<1>3. Respond(c, <<>>, keep)
  BY DEF Predict
<1>. HIDE DEF c
<1>4. Good(c)
  BY <1>1, <1>2, ConversionGood
<1>. QED BY <1>3, <1>4, Start, KeptStack, Shown DEF Predict, Respond

\* In a conversion the segments end with the reading.
LEMMA Segments ==
  ASSUME IInv, context.converter # "COMPOSITION"
  PROVE  /\ Len(context.composer) \in context.segments
         /\ context.segments \subseteq 1..Len(context.composer)
         /\ Len(context.composer) > 0
  BY DEF IInv, Good, Agrees

LEMMA TransliterateKeeps == ASSUME IInv, Transliterate PROVE IInv'
<1>. DEFINE n == Len(context.composer)
            ends == IF context.converter = "CONVERSION" THEN context.segments
                    ELSE {n}
            c == [context EXCEPT !.state = "CONVERSION",
                    !.converter = "CONVERSION", !.segments = ends]
<1>1. n \in Nat /\ n > 0
  BY Start DEF Transliterate
<1>2. n \in ends /\ ends \subseteq 1..n /\ ends \subseteq Nat
  BY <1>1, Segments
<1>3. /\ c \in Context /\ c.composer = context.composer
      /\ c.state = "CONVERSION" /\ c.converter = "CONVERSION"
      /\ c.segments = ends
  <2>. HIDE DEF n, ends
  <2>. QED BY <1>2, Start DEF Context, SessionState, ConverterState
<1>4. CloseWindow(c)
  <2>1. CloseWindow([context EXCEPT
          !.state = "CONVERSION", !.converter = "CONVERSION",
          !.segments = IF context.converter = "CONVERSION" THEN @
                       ELSE {Len(context.composer)}])
    BY DEF Transliterate
  <2>. QED BY <2>1, Start DEF Context
<1>. HIDE DEF c, ends
<1>5. Good(c)
  BY <1>1, <1>2, <1>3, ConversionGood
<1>6. dismissed' \in BOOLEAN /\ Stacked /\ typed' \in 0..MaxKeys
  BY Start, KeptStack DEF Transliterate
<1>. QED BY <1>4, <1>5, <1>6, Start, Shown DEF CloseWindow

LEMMA MoveCandidateKeeps == ASSUME IInv, MoveCandidate PROVE IInv'
<1>1. dismissed' \in BOOLEAN /\ Stacked /\ typed' \in 0..MaxKeys
  BY Start, KeptStack DEF MoveCandidate
<1>2. \E w \in BOOLEAN : Show(context, w, <<>>, keep)
  BY DEF MoveCandidate, Respond, CloseWindow
<1>. QED BY <1>1, <1>2, Start, Shown

LEMMA ResizeSegmentKeeps == ASSUME IInv, ResizeSegment PROVE IInv'
<1>. DEFINE n == Len(context.composer)
<1>1. n \in Nat /\ n > 0 /\ context.state = "CONVERSION"
  BY Start DEF ResizeSegment, Composing
<1>2. context.converter \in {"PREDICTION", "CONVERSION"}
  BY <1>1, Start DEF Good, Agrees
<1>3. PICK cuts \in SUBSET (1..(n - 1)) :
         CloseWindow([context EXCEPT !.segments =
                        IF context.converter = "PREDICTION" THEN @
                        ELSE cuts \cup {n}])
  BY DEF ResizeSegment
<1>. DEFINE ends == IF context.converter = "PREDICTION" THEN context.segments
                    ELSE cuts \cup {n}
            c == [context EXCEPT !.segments = ends]
<1>4. n \in ends /\ ends \subseteq 1..n /\ ends \subseteq Nat
  <2>1. CASE context.converter = "PREDICTION"
    BY <2>1, <1>1, Segments
  <2>2. CASE context.converter # "PREDICTION"
    <3>1. cuts \subseteq 1..n /\ n \in 1..n /\ \A x \in 1..n : x \in Nat
      BY <1>1
    <3>. QED BY <3>1, <2>2
  <2>. QED BY <2>1, <2>2
<1>5. /\ c \in Context /\ c.composer = context.composer
      /\ c.state = context.state /\ c.converter = context.converter
      /\ c.segments = ends
  <2>. HIDE DEF n, ends
  <2>. QED BY <1>4, Start DEF Context
<1>6. CloseWindow(c)
  BY <1>3, Start DEF Context
<1>. HIDE DEF c, ends
<1>7. Good(c)
  BY <1>1, <1>2, <1>4, <1>5, ConversionGood
<1>8. dismissed' \in BOOLEAN /\ Stacked /\ typed' \in 0..MaxKeys
  BY Start, KeptStack DEF ResizeSegment
<1>. QED BY <1>6, <1>7, <1>8, Start, Shown DEF CloseWindow

-----------------------------------------------------------------------------
(* Committing.                                                             *)

LEMMA ConfirmKeeps == ASSUME IInv, ConfirmConversionSelection PROVE IInv'
<1>1. dismissed' \in BOOLEAN /\ Stacked /\ typed' \in 0..MaxKeys
  BY Start, KeptStack DEF ConfirmConversionSelection
<1>. QED BY <1>1, Start, Shown DEF ConfirmConversionSelection, CloseWindow

LEMMA CommitKeeps == ASSUME IInv, Commit PROVE IInv'
<1>1. PICK o \in CommitOutcomes :
        /\ Respond(PrecompositionAndCancel(context), o.result, FALSE)
        /\ IF o.pushed THEN PushUndo(Len(o.result)) ELSE KeepUndo
  BY DEF Commit
<1>2. Stacked
  BY <1>1, Outcome, Pushed, KeptStack
<1>3. dismissed' \in BOOLEAN /\ typed' \in 0..MaxKeys
  BY Start DEF Commit
<1>. QED BY <1>1, <1>2, <1>3, Start, Outcome, CancelGood, Shown DEF Respond

LEMMA CommitSegmentsKeeps ==
  ASSUME IInv, NEW n \in 1..Len(context.composer), NEW k \in BOOLEAN,
         context.state \in Composing,
         n = Len(context.composer) \/
           (context.state = "CONVERSION" /\ n \in context.segments),
         CommitSegments(n, k),
         dismissed' \in BOOLEAN, typed' \in 0..MaxKeys
  PROVE  IInv'
<1>. DEFINE result == SubSeq(context.composer, 1, n)
<1>1. n \in Nat /\ result \in Text
  BY Start, Prefix
<1>2. Stacked
  BY <1>1, Pushed DEF CommitSegments
<1>3. CASE n = Len(context.composer)
  <2>1. Respond(PrecompositionAndCancel(context), result, k)
    BY <1>3 DEF CommitSegments
  <2>. QED BY <2>1, <1>1, <1>2, Start, CancelGood, Shown DEF Respond
<1>4. CASE n # Len(context.composer)
  <2>1. Respond(DeleteRange(context, n), result, k)
    BY <1>4 DEF CommitSegments
  <2>2. Good(DeleteRange(context, n))
    BY <1>4, Start, DeleteRangeGood
  <2>. QED BY <2>1, <2>2, <1>1, <1>2, Shown DEF Respond
<1>. QED BY <1>3, <1>4

LEMMA CommitSegmentKeeps == ASSUME IInv, CommitSegment PROVE IInv'
<1>1. context.state = "CONVERSION" /\ context.converter # "COMPOSITION"
  BY Start DEF CommitSegment, Good, Agrees
<1>2. PICK n \in {Len(context.composer)} \cup context.segments :
        CommitSegments(n, keep)
  BY DEF CommitSegment
<1>3. n \in 1..Len(context.composer)
  BY <1>1, <1>2, Segments
<1>4. dismissed' \in BOOLEAN /\ typed' \in 0..MaxKeys
  BY Start DEF CommitSegment
<1>. QED BY <1>1, <1>2, <1>3, <1>4, Start, CommitSegmentsKeeps DEF Composing

LEMMA CommitCandidateKeeps == ASSUME IInv, CommitCandidate PROVE IInv'
<1>1. /\ context.converter # "COMPOSITION" /\ context.state \in Composing
      /\ dismissed' \in BOOLEAN /\ typed' \in 0..MaxKeys
  BY Start DEF CommitCandidate, IsActive
<1>2. CASE context.state = "CONVERSION" /\ \E n \in context.segments : CommitSegments(n, FALSE)
  <2>1. PICK n \in context.segments : CommitSegments(n, FALSE)
    BY <1>2
  <2>2. n \in 1..Len(context.composer)
    BY <1>1, Segments
  <2>. QED BY <1>1, <1>2, <2>1, <2>2, CommitSegmentsKeeps
<1>3. CASE context.state = "COMPOSITION" /\ CommitSegments(Len(context.composer), FALSE)
  <2>1. Len(context.composer) \in 1..Len(context.composer)
    BY <1>1, Start
  <2>. QED BY <1>1, <1>3, <2>1, CommitSegmentsKeeps
<1>4. CASE PushUndo(0) /\ Respond(context, <<>>, FALSE)
  <2>1. Stacked
    BY <1>1, <1>4, Pushed
  <2>. QED BY <1>1, <1>4, <2>1, Start, Shown DEF Respond
<1>. QED BY <1>2, <1>3, <1>4 DEF CommitCandidate

LEMMA CommitFirstSuggestionKeeps == ASSUME IInv, CommitFirstSuggestion PROVE IInv'
<1>1. /\ context.state \in Composing
      /\ dismissed' \in BOOLEAN /\ typed' \in 0..MaxKeys
  BY Start DEF CommitFirstSuggestion, Composing
<1>2. Len(context.composer) \in 1..Len(context.composer)
  BY <1>1, Start
<1>. QED BY <1>1, <1>2, Start, CommitSegmentsKeeps DEF CommitFirstSuggestion

-----------------------------------------------------------------------------
(* Giving up.                                                              *)

LEMMA ConvertCancelKeeps == ASSUME IInv, ConvertCancel PROVE IInv'
<1>1. dismissed' \in BOOLEAN /\ Stacked /\ typed' \in 0..MaxKeys
  BY Start, KeptStack DEF ConvertCancel
<1>2. context.composer # <<>>
  <2>1. context.state \in Composing
    BY DEF ConvertCancel, Composing
  <2>. QED BY <2>1, Start
<1>3. CASE keep
  BY <1>1, <1>3, Start, CancelGood, Shown DEF ConvertCancel, Respond
<1>4. CASE ~keep
  <2>. DEFINE d == SetSessionState(context, "COMPOSITION")
  <2>1. PICK c \in Suggest(d) : Respond(c, <<>>, FALSE)
    BY <1>4 DEF ConvertCancel
  <2>2. /\ d \in Context /\ d.state = "COMPOSITION"
        /\ d.composer = context.composer
    BY Start DEF SetSessionState, Context, SessionState
  <2>. HIDE DEF d
  <2>3. Good(c)
    BY <1>2, <2>1, <2>2, SuggestGood
  <2>. QED BY <1>1, <2>1, <2>3, Start, Shown DEF Respond
<1>. QED BY <1>3, <1>4

LEMMA RestoredText == ASSUME IInv PROVE Restored \in Text
  BY Start DEF Restored, Context

LEMMA EditCancelKeeps == ASSUME IInv, EditCancel PROVE IInv'
<1>1. dismissed' \in BOOLEAN /\ Stacked /\ typed' \in 0..MaxKeys
  BY Start, KeptStack, PassedBy DEF EditCancel
<1>2. (keep /\ context.source = <<>>) \in BOOLEAN
  BY Start
<1>3. Good(PrecompositionAndCancel(context))
  BY Start, CancelGood
<1>. QED BY <1>1, <1>2, <1>3, RestoredText, Shown DEF EditCancel, Respond

LEMMA EditCancelAndIMEOffKeeps == ASSUME IInv, EditCancelAndIMEOff PROVE IInv'
<1>1. dismissed' \in BOOLEAN /\ Stacked /\ typed' \in 0..MaxKeys
  BY Start, Cleared DEF EditCancelAndIMEOff
<1>2. (keep /\ context.source = <<>>) \in BOOLEAN
  BY Start
<1>3. Good(ConverterReset(SetSessionState(context, "DIRECT")))
  BY Start, ResetGood
<1>. QED BY <1>1, <1>2, <1>3, RestoredText, Shown DEF EditCancelAndIMEOff, Respond

LEMMA RevertKeeps == ASSUME IInv, Revert PROVE IInv'
<1>1. dismissed' \in BOOLEAN /\ Stacked /\ typed' \in 0..MaxKeys
  BY Start, Cleared DEF Revert
<1>. QED BY <1>1, Start, CancelGood, Shown DEF Revert, Respond

LEMMA UndoKeeps == ASSUME IInv, Undo PROVE IInv'
<1>. DEFINE l == Len(undo_contexts)
            top == undo_contexts[l]
            n == IF top.output <= Len(document) THEN top.output
                 ELSE Len(document)
            rest == SubSeq(undo_contexts, 1, l - 1)
<1>1. /\ undo_contexts \in Seq(Entry) /\ l \in Nat /\ l <= MaxUndo /\ l > 0
      /\ \A i \in 1..l : /\ undo_contexts[i] \in Entry
                         /\ Agrees(undo_contexts[i].context)
                         /\ undo_contexts[i].context.state \in Composing
  <2>1. undo_contexts \in Seq(Entry) /\ undo_contexts # <<>>
    BY DEF IInv, GoodStack, Undo
  <2>2. l \in Nat /\ l > 0 /\ \A i \in 1..l : undo_contexts[i] \in Entry
    BY <2>1, LenProperties, EmptySeq, ElementOfSeq
  <2>. QED BY <2>1, <2>2 DEF IInv, GoodStack
<1>2. Good(top.context) /\ top.output \in Nat
  BY <1>1 DEF Good, Entry
<1>3. n \in Nat
  BY <1>2, Start
<1>4. context' = top.context
      /\ document' = SubSeq(document, 1, Len(document) - n)
  BY DEF Undo
<1>5. document' \in Text
  BY <1>3, <1>4, Start, Cut
<1>6. /\ rest \in Seq(Entry) /\ Len(rest) = l - 1
      /\ \A i \in 1..(l - 1) : rest[i] = undo_contexts[i]
  BY <1>1, Popped
<1>7. GoodStack(rest)
  <2>1. Len(rest) <= MaxUndo
    BY <1>1, <1>6, SessionAssumption
  <2>2. \A i \in 1..Len(rest) : Agrees(rest[i].context) /\ rest[i].context.state \in Composing
    BY <1>1, <1>6
  <2>. QED BY <1>6, <2>1, <2>2 DEF GoodStack
<1>8. undo_contexts' = rest /\ pending' = 0 /\ keep' = keep /\ typed' = typed
  BY DEF Undo
<1>9. dismissed' \in BOOLEAN /\ bypassed' \in BOOLEAN
  BY DEF Undo, IInv, Flags
<1>. QED BY <1>2, <1>4, <1>5, <1>7, <1>8, <1>9, Start DEF IInv, Flags

-----------------------------------------------------------------------------
(* Switching.                                                              *)

LEMMA DirectAfterCancel ==
  ASSUME NEW c \in Context
  PROVE  Good(SetSessionState(PrecompositionAndCancel(c), "DIRECT"))
<1>. DEFINE p == PrecompositionAndCancel(c)
            d == SetSessionState(p, "DIRECT")
<1>1. /\ Good(p) /\ p.converter = "COMPOSITION" /\ p.segments = {}
  <2>1. Good(p)
    BY CancelGood
  <2>2. p.state = "PRECOMPOSITION"
    BY DEF PrecompositionAndCancel, ConverterReset, SetSessionState, Context,
           SessionState
  <2>. HIDE DEF p
  <2>. QED BY <2>1, <2>2 DEF Good, Agrees, Composing
<1>. HIDE DEF p
<1>2. /\ d \in Context /\ d.state = "DIRECT" /\ d.composer = <<>> /\ d.source = <<>>
      /\ d.converter = "COMPOSITION" /\ d.segments = {}
  <2>1. p \in Context /\ <<>> \in Text
    BY <1>1 DEF Good, Text
  <2>2. d = [p EXCEPT !.state = "DIRECT", !.composer = <<>>, !.source = <<>>]
    BY DEF SetSessionState
  <2>. HIDE DEF d
  <2>. QED BY <1>1, <2>1, <2>2 DEF Context, SessionState
<1>. HIDE DEF d
<1>3. Agrees(d)
  BY <1>2 DEF Agrees, Composing
<1>. QED BY <1>2, <1>3 DEF Good, d, p

LEMMA IMEOffKeeps == ASSUME IInv, IMEOff PROVE IInv'
<1>1. dismissed' \in BOOLEAN /\ typed' \in 0..MaxKeys
  BY Start DEF IMEOff
<1>2. CASE /\ Respond(ConverterReset(SetSessionState(context, "DIRECT")), <<>>, keep)
           /\ ClearUndoContext
  <2>1. Good(ConverterReset(SetSessionState(context, "DIRECT")))
    BY Start, ResetGood
  <2>. QED BY <1>1, <1>2, <2>1, Start, Cleared, Shown DEF Respond
<1>3. CASE \E o \in CommitOutcomes :
             /\ Respond(SetSessionState(PrecompositionAndCancel(context), "DIRECT"), o.result, FALSE)
             /\ undo_contexts' = IF o.pushed THEN PushUndoContext(<<>>, Len(o.result))
                                 ELSE <<>>
             /\ bypassed' = FALSE
  <2>1. PICK o \in CommitOutcomes :
             /\ Respond(SetSessionState(PrecompositionAndCancel(context), "DIRECT"), o.result, FALSE)
             /\ undo_contexts' = IF o.pushed THEN PushUndoContext(<<>>, Len(o.result))
                                 ELSE <<>>
             /\ bypassed' = FALSE
    BY <1>3
  <2>2. Stacked
    BY <2>1, Outcome, Emptied, PushGood DEF Stacked
  <2>3. Good(SetSessionState(PrecompositionAndCancel(context), "DIRECT"))
    BY Start, DirectAfterCancel
  <2>. QED BY <1>1, <2>1, <2>2, <2>3, Outcome, Shown DEF Respond
<1>. QED BY <1>2, <1>3 DEF IMEOff

LEMMA IndirectIMEOffKeeps == ASSUME IInv, IndirectIMEOff PROVE IInv'
<1>1. Good(context')
  BY Start, DirectAfterCancel DEF IndirectIMEOff
<1>2. document' \in Text /\ typed' \in 0..MaxKeys
  <2>1. CASE CanType /\ TypeKey /\ document' = Append(document, Fresh)
    <3>1. Append(document, Fresh) \in Text
      BY <2>1, Start, FreshKey, AppendProperties DEF Text
    <3>. QED BY <3>1, <2>1, FreshKey
  <2>2. CASE UNCHANGED <<document, typed>>
    BY <2>2, Start
  <2>. QED BY <2>1, <2>2 DEF IndirectIMEOff
<1>3. Stacked
  BY Cleared DEF IndirectIMEOff
<1>4. keep' = FALSE /\ dismissed' = FALSE /\ pending' = 0
  BY DEF IndirectIMEOff
<1>. QED BY <1>1, <1>2, <1>3, <1>4 DEF IInv, Flags, Stacked

LEMMA OnGood ==
  ASSUME NEW c, Good(c), c.state = "DIRECT"
  PROVE  Good(SetSessionState(c, "PRECOMPOSITION"))
<1>. DEFINE d == SetSessionState(c, "PRECOMPOSITION")
<1>1. c \in Context /\ c.converter = "COMPOSITION" /\ c.segments = {}
  BY DEF Good, Agrees, Composing
<1>2. /\ d \in Context /\ d.state = "PRECOMPOSITION"
      /\ d.composer = <<>> /\ d.source = <<>>
      /\ d.converter = "COMPOSITION" /\ d.segments = {}
  <2>1. <<>> \in Text
    BY DEF Text
  <2>2. d = [c EXCEPT !.state = "PRECOMPOSITION", !.composer = <<>>, !.source = <<>>]
    BY DEF SetSessionState
  <2>. HIDE DEF d
  <2>. QED BY <1>1, <2>1, <2>2 DEF Context, SessionState
<1>. HIDE DEF d
<1>3. Agrees(d)
  BY <1>2 DEF Agrees, Composing
<1>. QED BY <1>2, <1>3 DEF Good, d

LEMMA IMEOnKeeps == ASSUME IInv, IMEOn PROVE IInv'
<1>1. dismissed' \in BOOLEAN /\ Stacked /\ typed' \in 0..MaxKeys
  BY Start, Cleared DEF IMEOn
<1>. QED BY <1>1, Start, OnGood, Shown DEF IMEOn, Respond

LEMMA CompositionModeKeeps == ASSUME IInv, CompositionMode PROVE IInv'
<1>1. dismissed' \in BOOLEAN /\ Stacked /\ typed' \in 0..MaxKeys
  BY Start, KeptStack DEF CompositionMode
<1>. QED BY <1>1, Start, OnGood, Shown DEF CompositionMode, Respond

LEMMA ReconfigureKeeps == ASSUME IInv, Reconfigure PROVE IInv'
  BY Cleared DEF IInv, Flags, Reconfigure, Quiet, Stacked

-----------------------------------------------------------------------------
(* Reconversion.                                                           *)

LEMMA ReopenedType ==
  ASSUME IInv, NEW n \in 1..Len(document)
  PROVE  /\ Reopened(n) \in Context
         /\ Reopened(n).composer \in Text /\ Len(Reopened(n).composer) = n
<1>. DEFINE r == ConverterReset(SetSessionState(context, "PRECOMPOSITION"))
            t == Selected(n)
<1>1. r \in Context
  BY Start, ResetGood DEF Good
<1>2. t \in Text /\ Len(t) = n
  <2>1. Len(document) - n \in Nat /\ Len(document) - n <= Len(document)
    BY Start
  <2>2. /\ SubSeq(document, (Len(document) - n) + 1, Len(document)) \in Text
        /\ Len(SubSeq(document, (Len(document) - n) + 1, Len(document))) =
             Len(document) - (Len(document) - n)
    BY <2>1, Start, Suffix
  <2>. QED BY <2>1, <2>2, Start DEF Selected
<1>3. Reopened(n) = [r EXCEPT !.composer = t, !.source = t]
  BY DEF Reopened
<1>. HIDE DEF r, t
<1>4. Reopened(n) \in Context /\ Reopened(n).composer = t
  BY <1>1, <1>2, <1>3 DEF Context
<1>. QED BY <1>2, <1>4

LEMMA ConvertReverseKeeps == ASSUME IInv, ConvertReverse PROVE IInv'
<1>1. PICK n \in 1..Len(document) :
         /\ \E c \in Convert(Reopened(n)) : context' = c
         /\ document' = SubSeq(document, 1, Len(document) - n)
  BY DEF ConvertReverse
<1>2. n \in Nat
  BY Start
<1>3. document' \in Text
  BY <1>1, <1>2, Start, Cut
<1>4. Reopened(n).composer # <<>>
  <2>1. Reopened(n).composer \in Text /\ Len(Reopened(n).composer) > 0
    BY ReopenedType, Start
  <2>. QED BY <2>1, EmptySeq DEF Text
<1>5. Good(context')
  BY <1>1, <1>4, ReopenedType, ConvertGood
<1>6. Stacked
  BY Cleared DEF ConvertReverse
<1>7. pending' = 0 /\ keep' = keep /\ dismissed' = dismissed /\ typed' = typed
  BY DEF ConvertReverse
<1>. QED BY <1>3, <1>5, <1>6, <1>7, Start DEF IInv, Flags, Stacked

LEMMA ConvertRelatedKeeps == ASSUME IInv, ConvertRelated PROVE IInv'
<1>1. PICK n \in 1..Len(document), d \in BOOLEAN :
         /\ context' = [Reopened(n) EXCEPT !.state = "CONVERSION",
                          !.converter = "CONVERSION", !.segments = {n},
                          !.drawing = d]
         /\ pending' = n
  BY DEF ConvertRelated
<1>. DEFINE r == Reopened(n)
            c == [r EXCEPT !.state = "CONVERSION",
                    !.converter = "CONVERSION", !.segments = {n}, !.drawing = d]
<1>2. n \in Nat /\ n > 0 /\ {n} \in SUBSET Nat
  BY Start
<1>3. r \in Context /\ Len(r.composer) = n
  BY ReopenedType
<1>. HIDE DEF r
<1>4. /\ c \in Context /\ c.composer = r.composer
      /\ c.state = "CONVERSION" /\ c.converter = "CONVERSION"
      /\ c.segments = {n}
  BY <1>2, <1>3 DEF Context, SessionState, ConverterState
<1>5. context' = c
  BY <1>1 DEF r
<1>. HIDE DEF c
<1>6. Good(c)
  BY <1>2, <1>3, <1>4, ConversionGood
<1>7. Stacked
  BY Cleared DEF ConvertRelated
<1>8. keep' = TRUE /\ dismissed' = dismissed /\ document' = document /\ typed' = typed
  BY DEF ConvertRelated
<1>. QED BY <1>1, <1>2, <1>5, <1>6, <1>7, <1>8, Start DEF IInv, Flags, Stacked

-----------------------------------------------------------------------------
(* The theorems.                                                           *)

LEMMA Initially == Init => IInv
<1>. SUFFICES ASSUME Init PROVE IInv
  OBVIOUS
<1>1. Initial \in Context /\ Len(Initial.composer) = 0
  BY DEF Initial, Context, SessionState, ConverterState, Text
<1>2. Agrees(Initial)
  BY <1>1 DEF Agrees, Initial, Composing
<1>3. <<>> \in Text /\ 0 \in 0..MaxKeys
  BY SessionAssumption DEF Text
<1>. QED BY <1>1, <1>2, <1>3, Emptied DEF Init, IInv, Good, Flags

LEMMA Unmoved == ASSUME IInv, UNCHANGED vars PROVE IInv'
  BY DEF IInv, Flags, vars

LEMMA Step == ASSUME IInv, Next PROVE IInv'
<1>1. CASE InsertCharacter \/ InsertDirectInput \/ Backspace \/ InsertText
           \/ EchoBackAndClearUndoContext \/ CommitRawText
  BY <1>1, InsertCharacterKeeps, InsertDirectInputKeeps, BackspaceKeeps,
     InsertTextKeeps, EchoBackKeeps, CommitRawTextKeeps
<1>2. CASE StartConversion \/ Predict \/ Transliterate \/ MoveCandidate
           \/ ResizeSegment
  BY <1>2, StartConversionKeeps, PredictKeeps, TransliterateKeeps,
     MoveCandidateKeeps, ResizeSegmentKeeps
<1>3. CASE ConfirmConversionSelection \/ Commit \/ CommitSegment
           \/ CommitCandidate \/ CommitFirstSuggestion
  BY <1>3, ConfirmKeeps, CommitKeeps, CommitSegmentKeeps,
     CommitCandidateKeeps, CommitFirstSuggestionKeeps
<1>4. CASE ConvertCancel \/ EditCancel \/ EditCancelAndIMEOff \/ Revert \/ Undo
  BY <1>4, ConvertCancelKeeps, EditCancelKeeps, EditCancelAndIMEOffKeeps,
     RevertKeeps, UndoKeeps
<1>5. CASE IMEOff \/ IndirectIMEOff \/ IMEOn \/ CompositionMode \/ Reconfigure
           \/ ConvertReverse \/ ConvertRelated
  BY <1>5, IMEOffKeeps, IndirectIMEOffKeeps, IMEOnKeeps,
     CompositionModeKeeps, ReconfigureKeeps, ConvertReverseKeeps,
     ConvertRelatedKeeps
<1>. QED BY <1>1, <1>2, <1>3, <1>4, <1>5 DEF Next

\* Every step of every handler keeps the types and the agreement.
THEOREM Invariance == Spec => []IInv
<1>1. IInv /\ [Next]_vars => IInv'
  BY Step, Unmoved
<1>. QED BY <1>1, Initially, PTL DEF Spec

\* The variables have their types, and the undo stack never grows past
\* kMultipleUndoMaxSize (PushUndoContext).
THEOREM Typing == Spec => []TypeOK
<1>1. IInv => TypeOK
  BY DEF IInv, Good, GoodStack, Flags, TypeOK, Entry
<1>. QED BY <1>1, Invariance, PTL

\* Session state, composer and converter agree in the running context and in
\* every context that undo can bring back.
THEOREM Agreement == Spec => []StatesAgree
<1>1. IInv => StatesAgree
  BY DEF IInv, Good, GoodStack, StatesAgree
<1>. QED BY <1>1, Invariance, PTL

-----------------------------------------------------------------------------
(* Related conversions.                                                    *)

LEMMA Results ==
  ASSUME NEW o \in CommitOutcomes
  PROVE  o.result \in {context.composer, <<>>}
  BY DEF CommitOutcomes

\* What the client makes of the whole reading or of nothing.
LEMMA Replaced ==
  ASSUME IInv, NEW c, NEW w, NEW r \in {context.composer, <<>>}, NEW k, Show(c, w, r, k)
  PROVE  document' \in {document, SubSeq(document, 1, Len(document) - pending)
                                    \o context.composer}
<1>1. document \o <<>> = document
  BY Start, ConcatEmptySeq DEF Text
<1>. QED BY <1>1 DEF Show

LEMMA RangeState ==
  ASSUME NEW c \in Context, NEW n
  PROVE  DeleteRange(c, n).state = c.state
  BY DEF DeleteRange, Context

LEMMA SegmentsReplaced ==
  ASSUME IInv, NEW n \in Nat, NEW k, CommitSegments(n, k), n <= Len(context.composer),
         context.state \in Composing, context'.state \notin Composing
  PROVE  document' \in {document, SubSeq(document, 1, Len(document) - pending)
                                    \o context.composer}
<1>1. n = Len(context.composer)
  <2>1. CASE n # Len(context.composer)
    <3>1. context' = DeleteRange(context, n)
      BY <2>1 DEF CommitSegments, Respond, Show
    <3>. QED BY <3>1, RangeState, Start
  <2>. QED BY <2>1
<1>2. SubSeq(context.composer, 1, n) = context.composer
  BY <1>1, Start, SubSeqFull DEF Text
<1>. QED BY <1>2, Replaced DEF CommitSegments, Respond

LEMMA Ends ==
  ASSUME IInv, Next, keep, typed' = typed,
         context.state \in Composing, context'.state \notin Composing
  PROVE  document' \in {document, SubSeq(document, 1, Len(document) - pending)
                                    \o context.composer}
<1>0. typed \in Nat /\ ~TypeKey
  BY Start DEF TypeKey, Fresh
<1>1. CASE InsertCharacter \/ InsertDirectInput \/ InsertText
  BY <1>0, <1>1 DEF InsertCharacter, InsertDirectInput, InsertText
<1>2. CASE Backspace
  <2>1. \E c, w, k : Show(c, w, <<>>, k)
    BY <1>2 DEF Backspace, Respond
  <2>. QED BY <2>1, Replaced
<1>3. CASE EchoBackAndClearUndoContext \/ IMEOn \/ CompositionMode \/ ConvertReverse \/ ConvertRelated
  BY <1>3 DEF EchoBackAndClearUndoContext, IMEOn, CompositionMode, ConvertReverse, ConvertRelated, Composing
<1>4. CASE CommitRawText
  BY <1>4, Replaced DEF CommitRawText, Respond
<1>5. CASE StartConversion \/ Predict \/ Transliterate \/ MoveCandidate \/ ResizeSegment
           \/ ConfirmConversionSelection \/ ConvertCancel \/ Revert
  <2>1. \E c, w, k : Show(c, w, <<>>, k)
    BY <1>5 DEF StartConversion, Predict, Transliterate, MoveCandidate, ResizeSegment,
                ConfirmConversionSelection, ConvertCancel, Revert, Respond, CloseWindow
  <2>. QED BY <2>1, Replaced
<1>6. CASE Commit
  <2>1. PICK o \in CommitOutcomes : Respond(PrecompositionAndCancel(context), o.result, FALSE)
    BY <1>6 DEF Commit
  <2>. QED BY <2>1, Results, Replaced DEF Respond
<1>7. CASE CommitSegment
  <2>1. context.converter # "COMPOSITION"
    BY <1>7, Start DEF CommitSegment, Good, Agrees
  <2>2. PICK n \in {Len(context.composer)} \cup context.segments : CommitSegments(n, keep)
    BY <1>7 DEF CommitSegment
  <2>3. n \in Nat /\ n <= Len(context.composer)
    BY <2>1, Segments, Start
  <2>. QED BY <2>2, <2>3, SegmentsReplaced
<1>8. CASE CommitCandidate
  <2>1. context.converter # "COMPOSITION"
    BY <1>8 DEF CommitCandidate, IsActive
  <2>2. CASE \E n \in context.segments : CommitSegments(n, FALSE)
    <3>1. PICK n \in context.segments : CommitSegments(n, FALSE)
      BY <2>2
    <3>2. n \in Nat /\ n <= Len(context.composer)
      BY <2>1, Segments, Start
    <3>. QED BY <3>1, <3>2, SegmentsReplaced
  <2>3. CASE CommitSegments(Len(context.composer), FALSE)
    <3>1. Len(context.composer) \in Nat /\ Len(context.composer) <= Len(context.composer)
      BY Start
    <3>. QED BY <2>3, <3>1, SegmentsReplaced
  <2>4. CASE Respond(context, <<>>, FALSE)
    BY <2>4, Replaced DEF Respond
  <2>. QED BY <1>8, <2>2, <2>3, <2>4 DEF CommitCandidate
<1>9. CASE CommitFirstSuggestion
  <2>1. Len(context.composer) \in Nat /\ Len(context.composer) <= Len(context.composer)
    BY Start
  <2>. QED BY <1>9, <2>1, SegmentsReplaced DEF CommitFirstSuggestion
<1>10. CASE EditCancel \/ EditCancelAndIMEOff
  <2>1. Restored = <<>>
    BY DEF Restored
  <2>2. \E c, w, k : Show(c, w, Restored, k)
    BY <1>10 DEF EditCancel, EditCancelAndIMEOff, Respond
  <2>. QED BY <2>1, <2>2, Replaced
<1>11. CASE Undo
  <2>1. undo_contexts \in Seq(Entry) /\ undo_contexts # <<>>
    BY <1>11 DEF IInv, GoodStack, Undo
  <2>2. Len(undo_contexts) \in 1..Len(undo_contexts)
    BY <2>1, LenProperties, EmptySeq
  <2>3. undo_contexts[Len(undo_contexts)].context.state \in Composing
    BY <2>2 DEF IInv, GoodStack
  <2>. QED BY <1>11, <2>3 DEF Undo
<1>12. CASE IMEOff
  <2>1. CASE \E c, w, k : Show(c, w, <<>>, k)
    BY <2>1, Replaced
  <2>2. CASE \E o \in CommitOutcomes : \E c, w, k : Show(c, w, o.result, k)
    BY <2>2, Results, Replaced
  <2>. QED BY <1>12, <2>1, <2>2 DEF IMEOff, Respond
<1>13. CASE IndirectIMEOff
  BY <1>0, <1>13 DEF IndirectIMEOff
<1>14. CASE Reconfigure
  BY <1>14 DEF Reconfigure
<1>. QED BY <1>1, <1>2, <1>3, <1>4, <1>5, <1>6, <1>7, <1>8, <1>9, <1>10, <1>11, <1>12, <1>13,
            <1>14 DEF Next

\* However a related conversion ends while its selection waits to be deleted,
\* the document stays as it was or has the reading for the selection, once
\* (keep_app_selection_, TryCancelConvertReverse, the commits and the client's
\* deferred deletion).
THEOREM EndsCleanly == Spec => RelatedEndsCleanly
<1>1. IInv /\ [Next]_vars =>
        [keep /\ pending > 0 /\ typed' = typed
           /\ context.state \in Composing /\ context'.state \notin Composing
         => document' \in {document, SubSeq(document, 1, Len(document) - pending)
                                       \o context.composer}]_vars
  BY Ends
<1>. QED BY <1>1, Invariance, PTL DEF Spec, RelatedEndsCleanly

-----------------------------------------------------------------------------
(* The pictures of the editor, and what undo gives.                        *)

LEMMA Joined ==
  ASSUME NEW d \in Text, NEW t \in Text
  PROVE  /\ d \o t \in Text /\ Len(d \o t) = Len(d) + Len(t)
         /\ Len(d) \in Nat /\ Len(t) \in Nat
         /\ SubSeq(d \o t, 1, Len(d)) = d /\ SubSeq(d, 1, Len(d)) = d
         /\ d \o <<>> = d /\ <<>> \in Text
<1>1. /\ d \o t \in Text /\ Len(d \o t) = Len(d) + Len(t)
      /\ \A i \in 1..Len(d) + Len(t) : (d \o t)[i] = IF i <= Len(d) THEN d[i] ELSE t[i - Len(d)]
  BY ConcatProperties DEF Text
<1>2. Len(d) \in Nat /\ Len(t) \in Nat
  BY Characters
<1>3. Len(d) <= Len(d \o t) /\ 1..Len(d) \subseteq 1..Len(d) + Len(t)
  BY <1>1, <1>2
<1>4. SubSeq(d \o t, 1, Len(d)) \in Text /\ Len(SubSeq(d \o t, 1, Len(d))) = Len(d)
  BY <1>1, <1>2, <1>3, Prefix
<1>5. ASSUME NEW i \in 1..Len(d) PROVE SubSeq(d \o t, 1, Len(d))[i] = d[i]
  <2>1. \A j \in 1..Len(d) : (d \o t)[j] \in 1..MaxKeys
    BY <1>1, <1>3, Characters
  <2>2. SubSeq(d \o t, 1, Len(d))[i] = (d \o t)[1 + i - 1]
    BY <1>2, <2>1, SubSeqProperties
  <2>3. 1 + i - 1 = i /\ i <= Len(d) /\ i \in 1..Len(d) + Len(t)
    BY <1>2
  <2>. QED BY <1>1, <2>2, <2>3
<1>6. SubSeq(d \o t, 1, Len(d)) = d
  BY <1>4, <1>5, SeqEqual DEF Text
<1>7. SubSeq(d, 1, Len(d)) = d /\ d \o <<>> = d
  BY SubSeqFull, ConcatEmptySeq DEF Text
<1>. QED BY <1>1, <1>2, <1>6, <1>7 DEF Text

LEMMA Entries ==
  ASSUME NEW s \in Seq(Entry)
  PROVE  /\ Len(s) \in Nat /\ (s # <<>> <=> Len(s) > 0)
         /\ \A i \in 1..Len(s) : /\ s[i] \in Entry /\ s[i].text \in Text /\ s[i].output \in Nat
                                 /\ s[i].done \in Nat /\ s[i].context \in Context
<1>1. Len(s) \in Nat /\ (s # <<>> <=> Len(s) > 0) /\ \A i \in 1..Len(s) : s[i] \in Entry
  BY LenProperties, EmptySeq, ElementOfSeq
<1>. QED BY <1>1 DEF Entry

Mark(e) == [text |-> e.text, done |-> e.done]
MarksOf(s) == [i \in 1..Len(s) |-> Mark(s[i])]
Pictures == [text : Text, done : Nat]

LEMMA MarksOfSeq ==
  ASSUME NEW s \in Seq(Entry)
  PROVE  /\ MarksOf(s) \in Seq(Pictures) /\ Len(MarksOf(s)) = Len(s)
         /\ \A i \in 1..Len(s) : MarksOf(s)[i] = Mark(s[i])
         /\ (MarksOf(s) = <<>> <=> s = <<>>)
<1>1. Len(s) \in Nat /\ \A i \in 1..Len(s) : Mark(s[i]) \in Pictures
  BY Entries DEF Mark, Pictures
<1>2. MarksOf(s) \in [1..Len(s) -> Pictures]
  BY <1>1 DEF MarksOf
<1>3. MarksOf(s) \in Seq(Pictures)
  BY <1>1, <1>2, SeqDef
<1>4. DOMAIN MarksOf(s) = 1..Len(s) /\ DOMAIN MarksOf(s) = 1..Len(MarksOf(s)) /\ Len(MarksOf(s)) \in Nat
  BY <1>2, <1>3, LenProperties
<1>5. Len(MarksOf(s)) = Len(s)
  BY <1>1, <1>4
<1>6. MarksOf(s) = <<>> <=> s = <<>>
  BY <1>3, <1>5, Entries, EmptySeq
<1>. QED BY <1>3, <1>5, <1>6 DEF MarksOf

LEMMA MarksEmpty == MarksOf(<<>>) = <<>>
<1>1. <<>> \in Seq(Entry)
  OBVIOUS
<1>. QED BY <1>1, MarksOfSeq

LEMMA MarksAppend ==
  ASSUME NEW s \in Seq(Entry), NEW e \in Entry
  PROVE  MarksOf(Append(s, e)) = Append(MarksOf(s), Mark(e))
<1>. DEFINE t == Append(s, e)
            m == Append(MarksOf(s), Mark(e))
<1>0. Len(s) \in Nat /\ Mark(e) \in Pictures
  BY Entries DEF Mark, Pictures, Entry
<1>1. /\ t \in Seq(Entry) /\ Len(t) = Len(s) + 1 /\ t[Len(s) + 1] = e
      /\ \A i \in 1..Len(s) : t[i] = s[i]
  BY AppendProperties
<1>2. /\ MarksOf(t) \in Seq(Pictures) /\ Len(MarksOf(t)) = Len(s) + 1
      /\ \A i \in 1..Len(s) + 1 : MarksOf(t)[i] = Mark(t[i])
  <2>. HIDE DEF t
  <2>. QED BY <1>1, MarksOfSeq
<1>3. /\ m \in Seq(Pictures) /\ Len(m) = Len(s) + 1 /\ m[Len(s) + 1] = Mark(e)
      /\ \A i \in 1..Len(s) : m[i] = Mark(s[i])
  BY <1>0, MarksOfSeq, AppendProperties
<1>. HIDE DEF t, m
<1>4. ASSUME NEW i \in 1..Len(s) + 1 PROVE MarksOf(t)[i] = m[i]
  <2>1. CASE i \in 1..Len(s)
    BY <1>1, <1>2, <1>3, <2>1
  <2>2. CASE i = Len(s) + 1
    BY <1>1, <1>2, <1>3, <2>2
  <2>. QED BY <1>0, <2>1, <2>2
<1>5. MarksOf(t) = m
  BY <1>2, <1>3, <1>4, SeqEqual
<1>. QED BY <1>5 DEF t, m

LEMMA MarksTail ==
  ASSUME NEW s \in Seq(Entry), s # <<>>
  PROVE  MarksOf(Tail(s)) = Tail(MarksOf(s))
<1>. DEFINE f == Tail(s)
<1>0. Len(s) \in Nat /\ Len(s) > 0 /\ MarksOf(s) # <<>>
  BY Entries, MarksOfSeq
<1>1. f \in Seq(Entry) /\ Len(f) = Len(s) - 1 /\ \A i \in 1..Len(f) : f[i] = s[i + 1]
  BY HeadTailProperties
<1>. HIDE DEF f
<1>2. /\ MarksOf(f) \in Seq(Pictures) /\ Len(MarksOf(f)) = Len(s) - 1
      /\ \A i \in 1..Len(s) - 1 : MarksOf(f)[i] = Mark(s[i + 1])
  <2>1. /\ MarksOf(f) \in Seq(Pictures) /\ Len(MarksOf(f)) = Len(f)
        /\ \A i \in 1..Len(f) : MarksOf(f)[i] = Mark(f[i])
    BY <1>1, MarksOfSeq
  <2>. QED BY <1>1, <2>1
<1>3. /\ Tail(MarksOf(s)) \in Seq(Pictures) /\ Len(Tail(MarksOf(s))) = Len(s) - 1
      /\ \A i \in 1..Len(s) - 1 : Tail(MarksOf(s))[i] = MarksOf(s)[i + 1]
  BY <1>0, MarksOfSeq, HeadTailProperties
<1>4. \A i \in 1..Len(s) - 1 : MarksOf(s)[i + 1] = Mark(s[i + 1])
  BY <1>0, MarksOfSeq
<1>5. MarksOf(f) = Tail(MarksOf(s))
  BY <1>2, <1>3, <1>4, SeqEqual
<1>. QED BY <1>5 DEF f

LEMMA MarksPopped ==
  ASSUME NEW s \in Seq(Entry), s # <<>>
  PROVE  MarksOf(SubSeq(s, 1, Len(s) - 1)) = SubSeq(MarksOf(s), 1, Len(MarksOf(s)) - 1)
<1>0. Len(s) \in Nat /\ Len(s) > 0 /\ Len(MarksOf(s)) = Len(s) /\ MarksOf(s) \in Seq(Pictures)
  BY Entries, MarksOfSeq
<1>. DEFINE f == SubSeq(s, 1, Len(s) - 1)
            m == SubSeq(MarksOf(s), 1, Len(MarksOf(s)) - 1)
<1>1. f \in Seq(Entry) /\ Len(f) = Len(s) - 1 /\ \A i \in 1..Len(s) - 1 : f[i] = s[i]
  BY <1>0, Popped
<1>2. m \in Seq(Pictures) /\ Len(m) = Len(s) - 1 /\ \A i \in 1..Len(s) - 1 : m[i] = MarksOf(s)[i]
  BY <1>0, Popped
<1>. HIDE DEF f, m
<1>3. /\ MarksOf(f) \in Seq(Pictures) /\ Len(MarksOf(f)) = Len(s) - 1
      /\ \A i \in 1..Len(s) - 1 : MarksOf(f)[i] = Mark(s[i])
  BY <1>1, MarksOfSeq
<1>4. \A i \in 1..Len(s) - 1 : MarksOf(s)[i] = Mark(s[i])
  BY <1>0, MarksOfSeq
<1>5. MarksOf(f) = m
  BY <1>2, <1>3, <1>4, SeqEqual
<1>. QED BY <1>5 DEF f, m

\* Undoing the commit of the entry e, after which the document was d, gives
\* the picture of e.
Undoes(e, d) == /\ e.output <= Len(d) /\ e.done = Len(d) - e.output
                /\ e.text = SubSeq(d, 1, e.done) \o e.context.composer

\* The document when the commit of entry i of the stack s had been made; it is
\* d now.
DocumentAt(s, d, i) == IF i = Len(s) THEN d ELSE SubSeq(s[i + 1].text, 1, s[i + 1].done)
Undoing(s, d) == \A i \in 1..Len(s) : Undoes(s[i], DocumentAt(s, d, i))

LEMMA UndoingMore ==
  ASSUME NEW s \in Seq(Entry), NEW e \in Entry, NEW d, NEW d2,
         Undoing(s, d), Undoes(e, d2), SubSeq(e.text, 1, e.done) = d
  PROVE  Undoing(Append(s, e), d2)
<1>. DEFINE t == Append(s, e)
<1>0. Len(s) \in Nat
  BY Entries
<1>1. /\ t \in Seq(Entry) /\ Len(t) = Len(s) + 1 /\ t[Len(s) + 1] = e
      /\ \A i \in 1..Len(s) : t[i] = s[i]
  BY AppendProperties
<1>. HIDE DEF t
<1>2. ASSUME NEW i \in 1..Len(t) PROVE Undoes(t[i], DocumentAt(t, d2, i))
  <2>1. CASE i = Len(t)
    BY <1>1, <2>1 DEF DocumentAt
  <2>2. CASE i = Len(s)
    <3>1. i # Len(t) /\ t[i + 1] = e /\ i \in 1..Len(s)
      BY <1>0, <1>1, <2>2
    <3>2. DocumentAt(t, d2, i) = d /\ DocumentAt(s, d, i) = d
      BY <2>2, <3>1 DEF DocumentAt
    <3>. QED BY <1>1, <3>1, <3>2 DEF Undoing
  <2>3. CASE i \in 1..Len(s) /\ i # Len(s)
    <3>1. i # Len(t) /\ i + 1 \in 1..Len(s)
      BY <1>0, <1>1, <2>3
    <3>2. DocumentAt(t, d2, i) = DocumentAt(s, d, i)
      BY <1>1, <2>3, <3>1 DEF DocumentAt
    <3>. QED BY <1>1, <2>3, <3>2 DEF Undoing
  <2>. QED BY <1>0, <1>1, <2>1, <2>2, <2>3
<1>. QED BY <1>2 DEF Undoing, t

LEMMA UndoingTail ==
  ASSUME NEW s \in Seq(Entry), NEW d, Undoing(s, d), s # <<>>
  PROVE  Undoing(Tail(s), d)
<1>. DEFINE t == Tail(s)
<1>0. Len(s) \in Nat /\ Len(s) > 0
  BY Entries
<1>1. /\ t \in Seq(Entry) /\ Len(t) = Len(s) - 1
      /\ \A i \in 1..Len(t) : t[i] = s[i + 1]
  BY HeadTailProperties
<1>. HIDE DEF t
<1>2. ASSUME NEW i \in 1..Len(t) PROVE Undoes(t[i], DocumentAt(t, d, i))
  <2>1. i + 1 \in 1..Len(s) /\ t[i] = s[i + 1] /\ (i = Len(t) <=> i + 1 = Len(s))
    BY <1>0, <1>1
  <2>2. i # Len(t) => t[i + 1] = s[(i + 1) + 1]
    BY <1>0, <1>1
  <2>3. DocumentAt(t, d, i) = DocumentAt(s, d, i + 1)
    BY <2>1, <2>2 DEF DocumentAt
  <2>. QED BY <2>1, <2>3 DEF Undoing
<1>. QED BY <1>2 DEF Undoing, t

\* Undo itself: the document d becomes the one of the top entry.
LEMMA UndoingLess ==
  ASSUME NEW s \in Seq(Entry), NEW d \in Text, Undoing(s, d), s # <<>>
  PROVE  LET top == s[Len(s)]
             back == SubSeq(d, 1, Len(d) - top.output)
         IN  /\ top.output <= Len(d) /\ top.done = Len(back) /\ back \in Text
             /\ top.text = back \o top.context.composer
             /\ Undoing(SubSeq(s, 1, Len(s) - 1), back)
<1>. DEFINE top == s[Len(s)]
            back == SubSeq(d, 1, Len(d) - top.output)
            f == SubSeq(s, 1, Len(s) - 1)
<1>0. Len(s) \in Nat /\ Len(s) \in 1..Len(s) /\ Len(d) \in Nat
  BY Entries, Characters
<1>1. top.output \in Nat /\ top.context.composer \in Text
  BY <1>0, Entries DEF Context
<1>2. Undoes(top, d)
  BY <1>0 DEF Undoing, DocumentAt
<1>3. /\ top.output <= Len(d) /\ top.done = Len(d) - top.output
      /\ top.text = back \o top.context.composer
  BY <1>2 DEF Undoes
<1>4. back \in Text /\ Len(back) = Len(d) - top.output
  BY <1>0, <1>1, <1>3, Prefix
<1>5. SubSeq(top.text, 1, top.done) = back
  <2>. HIDE DEF back, top
  <2>1. top.done = Len(back)
    BY <1>3, <1>4
  <2>2. SubSeq(back \o top.context.composer, 1, Len(back)) = back
    BY <1>1, <1>4, Joined
  <2>. QED BY <1>3, <2>1, <2>2
<1>6. f \in Seq(Entry) /\ Len(f) = Len(s) - 1 /\ \A i \in 1..Len(s) - 1 : f[i] = s[i]
  BY <1>0, Popped
<1>. HIDE DEF f, back
<1>7. ASSUME NEW i \in 1..Len(f) PROVE Undoes(f[i], DocumentAt(f, back, i))
  <2>1. i \in 1..Len(s) /\ i # Len(s) /\ f[i] = s[i] /\ (i = Len(f) <=> i + 1 = Len(s))
    BY <1>0, <1>6
  <2>2. i # Len(f) => f[i + 1] = s[i + 1]
    BY <1>0, <1>6
  <2>3. DocumentAt(f, back, i) = DocumentAt(s, d, i)
    BY <1>5, <2>1, <2>2 DEF DocumentAt
  <2>. QED BY <2>1, <2>3 DEF Undoing
<1>8. Undoing(f, back)
  BY <1>7 DEF Undoing
<1>. QED BY <1>3, <1>4, <1>8 DEF f, back

-----------------------------------------------------------------------------
(* What the user sees, and what a step makes of it.                        *)

\* Without related conversions the screen is the document and the reading,
\* and there are no drawings.
Alone == keep = FALSE /\ pending = 0 /\ context.drawing = FALSE

Plain(s) == \A i \in 1..Len(s) : s[i].context.drawing = FALSE

\* Undo returns to the pictures, one after the other.
Returns == Plain(undo_contexts) /\ (~bypassed => Undoing(undo_contexts, document))

RefInv == IInv /\ Alone /\ Returns

LEMMA Sight ==
  ASSUME RefInv
  PROVE  /\ Good(context) /\ context \in Context /\ context.source \in Text
         /\ context.composer \in Text /\ document \in Text
         /\ Screen = document \o context.composer /\ Screen \in Text
         /\ Len(Screen) = Len(document) + Len(context.composer)
         /\ Len(document) \in Nat /\ Len(context.composer) \in Nat
         /\ Promise!Owned = document
         /\ Promise!Picture = [text |-> Screen, done |-> Len(document)]
<1>1. /\ Good(context) /\ context \in Context /\ context.composer \in Text /\ document \in Text
      /\ context.source \in Text
  BY Start DEF RefInv, Context
<1>2. Screen = document \o context.composer
  BY DEF RefInv, Alone, Screen, ScreenOf
<1>3. Promise!Owned = SubSeq(Screen, 1, Len(document))
  BY DEF Promise!Owned
<1>4. Promise!Picture = [text |-> Screen, done |-> Len(document)]
  BY DEF Promise!Picture
<1>. QED BY <1>1, <1>2, <1>3, <1>4, Joined

\* A step that shows the context c and sends r.
LEMMA Seen ==
  ASSUME RefInv, NEW c, c.composer \in Text, c.drawing = FALSE, NEW w, NEW r \in Text,
         NEW k, k = FALSE, Show(c, w, r, k)
  PROVE  /\ context' = c /\ Alone'
         /\ document' = document \o r /\ Len(document') = Len(document) + Len(r)
         /\ Screen' = (document \o r) \o c.composer
         /\ r = <<>> => document' = document
<1>1. context' = c /\ keep' = FALSE /\ pending' = 0
  BY DEF Show, RefInv, Alone
<1>2. SubSeq(document, 1, Len(document) - pending) = document
  <2>1. pending = 0 /\ Len(document) - 0 = Len(document)
    BY Sight DEF RefInv, Alone
  <2>. QED BY <2>1, Sight, Joined
<1>3. document' = document \o r
  BY <1>2 DEF Show
<1>4. Screen' = document' \o c.composer
  BY <1>1 DEF Screen, ScreenOf
<1>. QED BY <1>1, <1>3, <1>4, Sight, Joined DEF Alone

LEMMA Forgets == ASSUME ClearUndoContext PROVE Promise!Forget /\ Returns'
<1>1. undo_contexts' = <<>> /\ bypassed' = FALSE /\ Len(<<>>) = 0
  BY DEF ClearUndoContext
<1>2. MarksOf(undo_contexts') = <<>>
  BY <1>1, MarksEmpty
<1>3. Promise!Forget
  BY <1>1, <1>2 DEF Promise!Forget, MarksOf, Mark
<1>4. Returns'
  BY <1>1 DEF Returns, Plain, Undoing
<1>. QED BY <1>3, <1>4

LEMMA Keeps ==
  ASSUME RefInv, KeepUndo
  PROVE  Promise!Keep /\ (document' = document => Returns')
<1>1. undo_contexts' = undo_contexts /\ bypassed' = bypassed
  BY DEF KeepUndo
<1>. QED BY <1>1 DEF Promise!Keep, Returns, RefInv

LEMMA Bypasses == ASSUME RefInv, BypassUndo PROVE Promise!Bypass /\ Returns'
<1>0. undo_contexts \in Seq(Entry)
  BY DEF RefInv, IInv, GoodStack
<1>1. undo_contexts' = undo_contexts /\ bypassed' = (bypassed \/ undo_contexts # <<>>)
  BY DEF BypassUndo
<1>2. MarksOf(undo_contexts) = <<>> <=> undo_contexts = <<>>
  BY <1>0, MarksOfSeq
<1>3. bypassed' = (bypassed \/ MarksOf(undo_contexts) # <<>>)
  BY <1>1, <1>2
<1>4. Promise!Bypass
  BY <1>1, <1>3 DEF Promise!Bypass, MarksOf, Mark
<1>5. ~bypassed' => Undoing(undo_contexts', document')
  <2>1. SUFFICES ASSUME ~bypassed' PROVE undo_contexts' = <<>>
    BY Entries DEF Undoing
  <2>. QED BY <1>1, <2>1
<1>. QED BY <1>1, <1>4, <1>5 DEF Returns, RefInv

\* Committing r on top of the stack s.
LEMMA PushedOn ==
  ASSUME RefInv, NEW s, GoodStack(s), Plain(s), NEW r \in Text,
         Undoing(s, document) \/ bypassed
  PROVE  LET t == PushUndoContext(s, Len(r))
         IN  /\ Plain(t) /\ MarksOf(t) = Promise!WithMark(MarksOf(s))
             /\ Undoing(s, document) => Undoing(t, document \o r)
<1>. DEFINE e == UndoEntry(Len(r))
            p == Append(s, e)
            t == PushUndoContext(s, Len(r))
<1>1. s \in Seq(Entry) /\ Len(s) \in Nat
  BY Entries DEF GoodStack
<1>2. /\ e \in Entry /\ e.context = context /\ e.context.drawing = FALSE
      /\ Mark(e) = Promise!Picture
      /\ e.text = Screen /\ e.done = Len(document) /\ e.output = Len(r)
  <2>1. Len(r) \in Nat
    BY Characters
  <2>. QED BY <2>1, Sight DEF UndoEntry, Entry, Mark, RefInv, Alone
<1>3. Undoes(e, document \o r) /\ SubSeq(e.text, 1, e.done) = document
  <2>1. /\ Len(document \o r) = Len(document) + Len(r) /\ Len(r) \in Nat
        /\ SubSeq(document \o r, 1, Len(document)) = document
        /\ SubSeq(document \o context.composer, 1, Len(document)) = document
    BY Sight, Joined
  <2>2. Len(document) = Len(document \o r) - Len(r) /\ Len(r) <= Len(document \o r)
    BY <2>1, Sight
  <2>. HIDE DEF e
  <2>. QED BY <1>2, <2>1, <2>2, Sight DEF Undoes
<1>. HIDE DEF e
<1>4. /\ p \in Seq(Entry) /\ p # <<>> /\ Len(p) = Len(s) + 1 /\ p[Len(s) + 1] = e
      /\ \A i \in 1..Len(s) : p[i] = s[i]
  BY <1>1, <1>2, AppendProperties
<1>5. MarksOf(p) = Append(MarksOf(s), Promise!Picture)
  BY <1>1, <1>2, MarksAppend
<1>6. Undoing(s, document) => Undoing(p, document \o r)
  BY <1>1, <1>2, <1>3, UndoingMore
<1>. HIDE DEF p
<1>7. Plain(p)
  BY <1>1, <1>2, <1>4 DEF Plain
<1>8. t = IF Len(p) > MaxUndo THEN Tail(p) ELSE p
  BY DEF PushUndoContext, p, e
<1>9. Len(MarksOf(p)) = Len(p)
  BY <1>4, MarksOfSeq
<1>10. Promise!WithMark(MarksOf(s)) = IF Len(MarksOf(p)) > MaxUndo THEN Tail(MarksOf(p)) ELSE MarksOf(p)
  BY <1>5 DEF Promise!WithMark
<1>. HIDE DEF t
<1>11. CASE Len(p) > MaxUndo
  <2>1. t = Tail(p) /\ MarksOf(t) = Promise!WithMark(MarksOf(s))
    BY <1>4, <1>8, <1>9, <1>10, <1>11, MarksTail
  <2>2. Plain(Tail(p))
    <3>1. Len(Tail(p)) = Len(p) - 1 /\ \A i \in 1..Len(Tail(p)) : Tail(p)[i] = p[i + 1]
      BY <1>4, HeadTailProperties
    <3>2. \A i \in 1..Len(Tail(p)) : i + 1 \in 1..Len(p)
      BY <1>1, <1>4, <3>1
    <3>. QED BY <1>7, <3>1, <3>2 DEF Plain
  <2>3. Undoing(s, document) => Undoing(Tail(p), document \o r)
    BY <1>4, <1>6, UndoingTail
  <2>. QED BY <2>1, <2>2, <2>3 DEF t
<1>12. CASE ~(Len(p) > MaxUndo)
  BY <1>6, <1>7, <1>8, <1>9, <1>10, <1>12 DEF t
<1>. QED BY <1>11, <1>12

LEMMA Remembers ==
  ASSUME RefInv, NEW r \in Text, PushUndo(Len(r)), document' = document \o r
  PROVE  Promise!Remember /\ Returns'
<1>0. GoodStack(undo_contexts) /\ Plain(undo_contexts) /\ bypassed \in BOOLEAN
  BY DEF RefInv, IInv, Returns, Flags
<1>1. undo_contexts' = PushUndoContext(undo_contexts, Len(r)) /\ bypassed' = bypassed
  BY DEF PushUndo
<1>2. Undoing(undo_contexts, document) \/ bypassed
  BY DEF RefInv, Returns
<1>3. /\ Plain(undo_contexts') /\ MarksOf(undo_contexts') = Promise!WithMark(MarksOf(undo_contexts))
      /\ Undoing(undo_contexts, document) => Undoing(undo_contexts', document')
  BY <1>0, <1>1, <1>2, PushedOn
<1>4. Promise!Remember
  BY <1>1, <1>3 DEF Promise!Remember, MarksOf, Mark
<1>. QED BY <1>1, <1>2, <1>3, <1>4 DEF Returns

LEMMA RemembersAnew ==
  ASSUME RefInv, NEW r \in Text, undo_contexts' = PushUndoContext(<<>>, Len(r)),
         bypassed' = FALSE, document' = document \o r
  PROVE  Promise!Remember /\ Returns'
<1>1. GoodStack(<<>>) /\ Plain(<<>>) /\ Undoing(<<>>, document)
  BY Emptied DEF Plain, Undoing
<1>2. /\ Plain(undo_contexts') /\ MarksOf(undo_contexts') = Promise!WithMark(<<>>)
      /\ Undoing(undo_contexts', document')
  BY <1>1, PushedOn, MarksEmpty
<1>3. Promise!WithMark(<<>>) = <<Promise!Picture>>
  <2>1. Append(<<>>, Promise!Picture) = <<Promise!Picture>> /\ Len(<<Promise!Picture>>) = 1
    OBVIOUS
  <2>. QED BY <2>1, SessionAssumption DEF Promise!WithMark
<1>4. Promise!Remember
  BY <1>2, <1>3 DEF Promise!Remember, MarksOf, Mark
<1>. QED BY <1>2, <1>4 DEF Returns

-----------------------------------------------------------------------------
(* What the session's helpers leave of a reading.                          *)

LEMMA ResetParts ==
  ASSUME NEW c \in Context
  PROVE  LET d == ConverterReset(c)
         IN  /\ d \in Context /\ d.composer = c.composer /\ d.source = c.source
             /\ d.state = c.state /\ d.drawing = FALSE
  BY ResetKeepsType DEF ConverterReset, Context

LEMMA StateParts ==
  ASSUME NEW c \in Context, NEW s \in {"DIRECT", "PRECOMPOSITION"}
  PROVE  LET d == SetSessionState(c, s)
         IN  /\ d \in Context /\ d.composer = <<>> /\ d.source = <<>>
             /\ d.drawing = c.drawing
<1>1. <<>> \in Text
  BY DEF Text
<1>2. SetSessionState(c, s) = [c EXCEPT !.state = s, !.composer = <<>>, !.source = <<>>]
  BY DEF SetSessionState
<1>. QED BY <1>1, <1>2 DEF Context, SessionState

LEMMA CancelParts ==
  ASSUME NEW c \in Context
  PROVE  LET d == PrecompositionAndCancel(c)
         IN  d \in Context /\ d.composer = <<>> /\ d.source = <<>> /\ d.drawing = FALSE
<1>. DEFINE e == SetSessionState(c, "PRECOMPOSITION")
<1>1. e \in Context /\ e.composer = <<>> /\ e.source = <<>>
  BY StateParts
<1>2. PrecompositionAndCancel(c) = ConverterReset(e)
  BY DEF PrecompositionAndCancel
<1>. HIDE DEF e
<1>. QED BY <1>1, <1>2, ResetParts

LEMMA SuggestParts ==
  ASSUME NEW c \in Context, NEW d \in Suggest(c)
  PROVE  d.composer = c.composer /\ d.source = c.source /\ d.drawing = FALSE
<1>. DEFINE r == ConverterReset(c)
<1>1. r \in Context /\ r.composer = c.composer /\ r.source = c.source /\ r.drawing = FALSE
  BY ResetParts
<1>2. d = r \/ d = [r EXCEPT !.converter = "SUGGESTION", !.segments = {Len(c.composer)}]
  BY DEF Suggest
<1>. HIDE DEF r
<1>. QED BY <1>1, <1>2 DEF Context

LEMMA ConvertParts ==
  ASSUME NEW c \in Context, NEW d \in Convert(c)
  PROVE  d.composer = c.composer /\ d.source = c.source /\ d.drawing = c.drawing
  BY DEF Convert, Context

\* The reading with the new character, with suggestions or converted at once.
LEMMA TypedParts ==
  ASSUME NEW c \in Context, Fresh \in 1..MaxKeys,
         NEW d,
         LET t == SetSessionState([c EXCEPT !.composer = Append(@, Fresh)], "COMPOSITION")
         IN  d \in Suggest(t) \cup Convert(ConverterReset(t))
  PROVE  /\ d.composer = Append(c.composer, Fresh) /\ d.composer \in Text
         /\ d.source = c.source /\ d.drawing = FALSE
<1>. DEFINE e == [c EXCEPT !.composer = Append(@, Fresh)]
            t == SetSessionState(e, "COMPOSITION")
<1>1. c.composer \in Text
  BY DEF Context
<1>2. Append(c.composer, Fresh) \in Text
  BY <1>1, AppendProperties DEF Text
<1>3. e \in Context /\ e.composer = Append(c.composer, Fresh) /\ e.source = c.source
  BY <1>2 DEF Context
<1>. HIDE DEF e
<1>4. t \in Context /\ t.composer = e.composer /\ t.source = e.source
  BY <1>3 DEF SetSessionState, Context, SessionState
<1>5. d \in Suggest(t) \/ d \in Convert(ConverterReset(t))
  BY DEF e
<1>. HIDE DEF t
<1>6. CASE d \in Suggest(t)
  BY <1>2, <1>3, <1>4, <1>6, SuggestParts
<1>7. CASE d \in Convert(ConverterReset(t))
  <2>1. /\ ConverterReset(t) \in Context /\ ConverterReset(t).composer = t.composer
        /\ ConverterReset(t).source = t.source /\ ConverterReset(t).drawing = FALSE
    BY <1>4, ResetParts
  <2>. QED BY <1>2, <1>3, <1>4, <1>7, <2>1, ConvertParts
<1>. QED BY <1>5, <1>6, <1>7

-----------------------------------------------------------------------------
(* Every step of the session is a step of the editor or changes nothing    *)
(* the user sees.                                                          *)

Follows == [Promise!Next]_(Promise!vars) /\ Alone' /\ Returns'

\* Between two compositions everything on the screen is the application's.
LEMMA Idle ==
  ASSUME RefInv, context.state \notin Composing
  PROVE  /\ context.composer = <<>> /\ context.source = <<>>
         /\ Screen = document /\ Len(Screen) = Len(document)
<1>1. Len(context.composer) = 0 /\ context.source = <<>>
  BY Sight DEF Good, Agrees
<1>2. context.composer = <<>>
  BY <1>1, Sight, EmptySeq DEF Text
<1>. QED BY <1>1, <1>2, Sight, Joined

LEMMA Unfinished ==
  ASSUME RefInv, context.state \in Composing
  PROVE  Len(document) < Len(Screen)
  BY Sight DEF Good, Agrees

\* The reading stays as it is.
LEMMA Stays ==
  ASSUME RefInv, NEW c, c.composer = context.composer, c.source = context.source,
         c.drawing = FALSE, NEW w, NEW k, k = FALSE, Show(c, w, <<>>, k)
  PROVE  /\ Alone' /\ document' = document /\ Screen' = Screen
         /\ Len(document)' = Len(document) /\ context.source' = context.source
<1>1. context.composer \in Text /\ <<>> \in Text /\ document \o <<>> = document
  BY Sight, Joined
<1>. QED BY <1>1, Sight, Seen

LEMMA Waits ==
  ASSUME RefInv, NEW c, c.composer = context.composer, c.source = context.source,
         c.drawing = FALSE, NEW w, NEW k, k = FALSE, Show(c, w, <<>>, k), KeepUndo
  PROVE  Follows
<1>1. /\ Alone' /\ document' = document /\ Screen' = Screen
      /\ Len(document)' = Len(document) /\ context.source' = context.source
  BY Stays
<1>2. Promise!Keep /\ Returns'
  BY <1>1, Keeps
<1>. QED BY <1>1, <1>2 DEF Follows, Promise!vars, Promise!Keep

\* The reading goes, and r is sent.
LEMMA Leaves ==
  ASSUME RefInv, NEW c, c.composer = <<>>, c.source = <<>>, c.drawing = FALSE,
         NEW w, NEW r \in Text, NEW k, k = FALSE, Show(c, w, r, k)
  PROVE  /\ Alone' /\ document' = document \o r /\ Screen' = document \o r
         /\ Len(document') = Len(Screen') /\ Len(document') = Len(document) + Len(r)
         /\ context.source' = <<>>
         /\ r = <<>> => document' = document /\ Screen' = document
         /\ r = context.composer => Screen' = Screen
<1>1. /\ document \in Text /\ <<>> \in Text /\ document \o r \in Text
      /\ (document \o r) \o <<>> = document \o r /\ document \o <<>> = document
      /\ Len(document \o r) = Len(document) + Len(r)
  BY Sight, Joined
<1>2. /\ context' = c /\ Alone' /\ document' = document \o r
      /\ Screen' = (document \o r) \o <<>>
  BY <1>1, Seen
<1>. QED BY <1>1, <1>2, Sight

LEMMA JoinedAppend ==
  ASSUME NEW d \in Text, NEW t \in Text, NEW k \in 1..MaxKeys
  PROVE  d \o Append(t, k) = Append(d \o t, k)
<1>1. <<k>> \in Text
  BY DEF Text
<1>2. Append(t, k) = t \o <<k>> /\ Append(d \o t, k) = (d \o t) \o <<k>>
  <2>1. t \in Seq(1..MaxKeys) /\ d \o t \in Seq(1..MaxKeys)
    BY Joined DEF Text
  <2>. QED BY <2>1, AppendIsConcat
<1>3. d \o (t \o <<k>>) = (d \o t) \o <<k>>
  BY <1>1, ConcatAssociative DEF Text
<1>. QED BY <1>2, <1>3

\* One more character.
LEMMA Appended ==
  ASSUME NEW d \in Text, NEW t \in Text, NEW k \in 1..MaxKeys
  PROVE  /\ d \o Append(t, k) = Append(d \o t, k) /\ d \o <<k>> = Append(d, k)
         /\ <<k>> \in Text /\ Append(t, k) \in Text /\ Append(<<>>, k) = <<k>>
         /\ <<k>> # <<>> /\ Append(t, k) # <<>>
         /\ Len(Append(t, k)) = Len(t) + 1 /\ Len(<<k>>) = 1
<1>1. <<k>> \in Text /\ Append(<<>>, k) = <<k>> /\ Len(<<k>>) = 1 /\ <<k>> # <<>>
  BY DEF Text
<1>2. Append(t, k) \in Text /\ Append(t, k) # <<>> /\ Len(Append(t, k)) = Len(t) + 1
  BY AppendProperties DEF Text
<1>3. d \o Append(t, k) = Append(d \o t, k) /\ d \o <<k>> = Append(d, k)
  BY AppendIsConcat, ConcatAssociative, <1>1, Joined DEF Text
<1>. QED BY <1>1, <1>2, <1>3

LEMMA InsertCharacterFollows == ASSUME RefInv, InsertCharacter PROVE Follows
<1>1. Fresh \in 1..MaxKeys /\ <<Fresh>> \in Text
  BY FreshKey DEF InsertCharacter, RefInv
<1>2. Promise!Forget /\ Returns'
  BY Forgets DEF InsertCharacter
<1>. DEFINE Typed(c) == SetSessionState(
                          [c EXCEPT !.composer = Append(@, Fresh)], "COMPOSITION")
            Then(c) == Suggest(Typed(c)) \cup Convert(ConverterReset(Typed(c)))
<1>3. ASSUME NEW c \in Context, NEW d \in Then(c)
      PROVE  /\ d.composer = Append(c.composer, Fresh) /\ d.composer \in Text
             /\ d.source = c.source /\ d.drawing = FALSE
  BY <1>1, <1>3, TypedParts
<1>. HIDE DEF Then
<1>4. CASE context.state # "CONVERSION" \/ dismissed
  <2>. DEFINE c == ConverterReset(context)
  <2>1. PICK d \in Then(c) : Respond(d, <<>>, keep)
    BY <1>4 DEF InsertCharacter, Then
  <2>2. c \in Context /\ c.composer = context.composer /\ c.source = context.source
    BY Sight, ResetParts
  <2>. HIDE DEF c
  <2>3. /\ d.composer = Append(context.composer, Fresh) /\ d.composer \in Text
        /\ d.source = context.source /\ d.drawing = FALSE
    BY <1>3, <2>1, <2>2
  <2>4. keep = FALSE /\ <<>> \in Text /\ document \o <<>> = document
    BY Sight, Joined DEF RefInv, Alone
  <2>5. /\ context' = d /\ Alone' /\ document' = document
        /\ Screen' = document \o d.composer
    BY <2>1, <2>3, <2>4, Seen DEF Respond
  <2>6. Screen' = Append(Screen, Fresh)
    <3>1. context.composer \in Text /\ document \in Text /\ Screen = document \o context.composer
      BY Sight
    <3>2. document \o Append(context.composer, Fresh) = Append(document \o context.composer, Fresh)
      BY <1>1, <3>1, JoinedAppend
    <3>. QED BY <2>3, <2>5, <3>1, <3>2
  <2>7. Len(document)' = Len(document) /\ context.source' = context.source
    BY <2>3, <2>5
  <2>8. Promise!Type
    BY <1>1, <1>2, <2>6, <2>7 DEF Promise!Type
  <2>. QED BY <1>2, <2>5, <2>8 DEF Follows, Promise!Next
<1>5. CASE context.state = "CONVERSION" /\ ~dismissed
  <2>. DEFINE c == PrecompositionAndCancel(context)
  <2>1. PICK o \in CommitOutcomes : \E d \in Then(c) : Respond(d, o.result, FALSE)
    BY <1>5 DEF InsertCharacter, Then
  <2>2. PICK d \in Then(c) : Respond(d, o.result, FALSE)
    BY <2>1
  <2>3. c \in Context /\ c.composer = <<>> /\ c.source = <<>>
    BY Sight, CancelParts
  <2>. HIDE DEF c
  <2>4. d.composer = <<Fresh>> /\ d.source = <<>> /\ d.drawing = FALSE
    <3>1. d.composer = Append(<<>>, Fresh) /\ d.source = <<>> /\ d.drawing = FALSE
      BY <1>3, <2>2, <2>3
    <3>. QED BY <1>1, <3>1, Sight, Appended
  <2>5. o.result \in Text /\ o.result \in {context.composer, <<>>}
    BY Outcome, Results DEF RefInv
  <2>6. /\ context' = d /\ Alone' /\ Len(document') = Len(document) + Len(o.result)
        /\ Screen' = (document \o o.result) \o <<Fresh>>
    BY <1>1, <2>2, <2>4, <2>5, Seen DEF Respond
  <2>7. Screen' = Append(document \o o.result, Fresh) /\ context.source' = <<>>
    <3>1. document \o o.result \in Text
      BY <2>5, Sight, Joined
    <3>. QED BY <1>1, <2>4, <2>6, <3>1, Appended
  <2>8. CASE o.result = context.composer
    <3>1. Screen' = Append(Screen, Fresh) /\ Len(document)' = Len(Screen)
      BY <2>6, <2>7, <2>8, Sight
    <3>2. Promise!Type
      BY <1>1, <1>2, <2>7, <3>1 DEF Promise!Type
    <3>. QED BY <1>2, <2>6, <3>2 DEF Follows, Promise!Next
  <2>9. CASE o.result = <<>>
    <3>1. document \o <<>> = document /\ Len(<<>>) = 0
      BY Sight, Joined
    <3>2. Screen' = Append(Promise!Owned, Fresh) /\ Len(document)' = Len(document)
      BY <2>6, <2>7, <2>9, <3>1, Sight
    <3>3. Promise!DropAndType
      BY <1>1, <1>2, <2>7, <3>2 DEF Promise!DropAndType
    <3>. QED BY <1>2, <2>6, <3>3 DEF Follows, Promise!Next
  <2>. QED BY <2>5, <2>8, <2>9
<1>6. dismissed \in BOOLEAN
  BY DEF RefInv, IInv, Flags
<1>. QED BY <1>4, <1>5, <1>6

LEMMA InsertDirectInputFollows == ASSUME RefInv, InsertDirectInput PROVE Follows
<1>1. Fresh \in 1..MaxKeys /\ <<Fresh>> \in Text
  BY FreshKey DEF InsertDirectInput, RefInv
<1>2. Promise!Forget /\ Returns'
  BY Forgets DEF InsertDirectInput
<1>. DEFINE c == PrecompositionAndCancel(context)
<1>3. c.composer = <<>> /\ c.source = <<>> /\ c.drawing = FALSE
  BY Sight, CancelParts
<1>4. keep = FALSE
  BY DEF RefInv, Alone
<1>5. CASE context.state = "PRECOMPOSITION" /\ Respond(c, <<Fresh>>, keep)
  <2>. HIDE DEF c
  <2>1. /\ Alone' /\ Screen' = document \o <<Fresh>> /\ Len(document') = Len(document) + 1
        /\ context.source' = <<>>
    <3>1. Len(<<Fresh>>) = 1
      OBVIOUS
    <3>. QED BY <1>1, <1>3, <1>4, <1>5, <3>1, Leaves DEF Respond
  <2>2. Screen = document
    BY <1>5, Idle DEF Composing
  <2>3. Screen' = Append(Screen, Fresh) /\ Len(document)' = Len(Screen) + 1
    BY <1>1, <2>1, <2>2, Sight, Appended
  <2>4. Promise!Type
    BY <1>1, <1>2, <2>1, <2>3 DEF Promise!Type
  <2>. QED BY <1>2, <2>1, <2>4 DEF Follows, Promise!Next
<1>6. CASE \E o \in CommitOutcomes : Respond(c, Append(o.result, Fresh), FALSE)
  <2>1. PICK o \in CommitOutcomes : Respond(c, Append(o.result, Fresh), FALSE)
    BY <1>6
  <2>. HIDE DEF c
  <2>2. o.result \in Text /\ o.result \in {context.composer, <<>>}
    BY Outcome, Results DEF RefInv
  <2>3. Append(o.result, Fresh) \in Text /\ Len(Append(o.result, Fresh)) = Len(o.result) + 1
    BY <1>1, <2>2, Appended
  <2>4. /\ Alone' /\ Screen' = document \o Append(o.result, Fresh)
        /\ Len(document') = Len(document) + (Len(o.result) + 1) /\ context.source' = <<>>
    BY <1>3, <2>1, <2>3, Leaves DEF Respond
  <2>5. Screen' = Append(document \o o.result, Fresh)
    <3>1. document \in Text
      BY Sight
    <3>2. document \o Append(o.result, Fresh) = Append(document \o o.result, Fresh)
      BY <1>1, <2>2, <3>1, JoinedAppend
    <3>. QED BY <2>4, <3>2
  <2>6. CASE o.result = context.composer
    <3>1. Screen' = Append(Screen, Fresh) /\ Len(document)' = Len(Screen) + 1
      <4>1. /\ Screen = document \o context.composer
            /\ Len(Screen) = Len(document) + Len(context.composer)
            /\ Len(document) \in Nat /\ Len(context.composer) \in Nat
        BY Sight
      <4>. QED BY <2>4, <2>5, <2>6, <4>1
    <3>2. Promise!Type
      BY <1>1, <1>2, <2>4, <3>1 DEF Promise!Type
    <3>. QED BY <1>2, <2>4, <3>2 DEF Follows, Promise!Next
  <2>7. CASE o.result = <<>>
    <3>1. document \o <<>> = document /\ Len(<<>>) = 0
      BY Sight, Joined
    <3>2. Screen' = Append(Promise!Owned, Fresh) /\ Len(document)' = Len(document) + 1
      BY <2>4, <2>5, <2>7, <3>1, Sight
    <3>3. Promise!DropAndType
      BY <1>1, <1>2, <2>4, <3>2 DEF Promise!DropAndType
    <3>. QED BY <1>2, <2>4, <3>3 DEF Follows, Promise!Next
  <2>. QED BY <2>2, <2>6, <2>7
<1>. QED BY <1>5, <1>6 DEF InsertDirectInput

\* One character less.
LEMMA Shortened ==
  ASSUME NEW d \in Text, NEW t \in Text, Len(t) > 0
  PROVE  /\ SubSeq(d \o t, 1, Len(d \o t) - 1) = d \o SubSeq(t, 1, Len(t) - 1)
         /\ SubSeq(t, 1, Len(t) - 1) \in Text /\ Len(SubSeq(t, 1, Len(t) - 1)) = Len(t) - 1
<1>. DEFINE r == SubSeq(t, 1, Len(t) - 1)
            j == d \o t
            l == SubSeq(j, 1, Len(j) - 1)
<1>1. Len(d) \in Nat /\ Len(t) \in Nat /\ j \in Text /\ Len(j) = Len(d) + Len(t)
  BY Joined
<1>2. /\ r \in Text /\ Len(r) = Len(t) - 1 /\ \A i \in 1..(Len(t) - 1) : r[i] = t[i]
  BY <1>1, Popped DEF Text
<1>3. \A i \in 1..Len(d) + Len(t) : j[i] = IF i <= Len(d) THEN d[i] ELSE t[i - Len(d)]
  BY <1>1, ConcatProperties DEF Text
<1>. HIDE DEF j
<1>4. l \in Text /\ Len(l) = Len(j) - 1 /\ \A i \in 1..(Len(j) - 1) : l[i] = j[i]
  <2>1. j \in Seq(1..MaxKeys) /\ Len(j) > 0
    BY <1>1 DEF Text
  <2>. QED BY <2>1, Popped DEF Text
<1>. HIDE DEF r, l
<1>5. /\ d \o r \in Text /\ Len(d \o r) = Len(d) + Len(r)
      /\ \A i \in 1..Len(d) + Len(r) : (d \o r)[i] = IF i <= Len(d) THEN d[i] ELSE r[i - Len(d)]
  BY <1>2, ConcatProperties DEF Text
<1>6. Len(d \o r) = Len(l)
  BY <1>1, <1>2, <1>4, <1>5
<1>7. ASSUME NEW i \in 1..Len(l) PROVE l[i] = (d \o r)[i]
  <2>1. i \in 1..(Len(j) - 1) /\ i \in 1..Len(d) + Len(t) /\ i \in 1..Len(d) + Len(r)
    BY <1>1, <1>2, <1>4
  <2>2. l[i] = IF i <= Len(d) THEN d[i] ELSE t[i - Len(d)]
    BY <2>1, <1>3, <1>4
  <2>3. ~(i <= Len(d)) => i - Len(d) \in 1..(Len(t) - 1)
    BY <2>1, <1>1
  <2>. QED BY <2>1, <2>2, <2>3, <1>2, <1>5
<1>8. l = d \o r
  BY <1>4, <1>5, <1>6, <1>7, SeqEqual DEF Text
<1>. QED BY <1>2, <1>8 DEF r, l, j

LEMMA BackspaceFollows == ASSUME RefInv, Backspace PROVE Follows
<1>. DEFINE t == SubSeq(context.composer, 1, Len(context.composer) - 1)
            c == [context EXCEPT !.composer = SubSeq(@, 1, Len(@) - 1)]
<1>1. context.state \in Composing /\ Len(document) < Len(Screen) /\ Len(context.composer) > 0
  <2>1. context.state \in Composing
    BY DEF Backspace, Composing
  <2>. QED BY <2>1, Sight, Unfinished
<1>2. /\ SubSeq(Screen, 1, Len(Screen) - 1) = document \o t
      /\ t \in Text /\ Len(t) = Len(context.composer) - 1
  BY <1>1, Sight, Shortened
<1>3. c \in Context /\ c.composer = t /\ c.source = context.source
  <2>1. c = [context EXCEPT !.composer = t]
    BY Sight DEF Context
  <2>. HIDE DEF c, t
  <2>. QED BY <1>2, <2>1, Sight DEF Context
<1>4. Promise!Forget /\ Returns' /\ keep = FALSE /\ <<>> \in Text /\ document \o <<>> = document
  BY Forgets, Sight, Joined DEF Backspace, RefInv, Alone
<1>5. CASE c.composer = <<>>
  <2>1. Respond(PrecompositionAndCancel(c), <<>>, keep)
    BY <1>5 DEF Backspace
  <2>. HIDE DEF c, t
  <2>2. /\ PrecompositionAndCancel(c).composer = <<>> /\ PrecompositionAndCancel(c).source = <<>>
        /\ PrecompositionAndCancel(c).drawing = FALSE
    BY <1>3, CancelParts
  <2>3. /\ Alone' /\ document' = document /\ Screen' = document /\ context.source' = <<>>
    BY <1>4, <2>1, <2>2, Leaves DEF Respond
  <2>4. Screen' = SubSeq(Screen, 1, Len(Screen) - 1) /\ Len(Screen') = Len(document)
    BY <1>2, <1>3, <1>4, <1>5, <2>3
  <2>5. Promise!Erase
    BY <1>1, <1>4, <2>3, <2>4 DEF Promise!Erase
  <2>. QED BY <1>4, <2>3, <2>5 DEF Follows, Promise!Next
<1>6. CASE c.composer # <<>>
  <2>1. PICK d \in Suggest(c) : Respond(d, <<>>, keep)
    BY <1>6 DEF Backspace
  <2>. HIDE DEF c, t
  <2>2. d.composer = t /\ d.source = context.source /\ d.drawing = FALSE
    BY <1>3, <2>1, SuggestParts
  <2>3. context' = d /\ Alone' /\ document' = document /\ Screen' = document \o t
    BY <1>2, <1>4, <2>1, <2>2, Seen DEF Respond
  <2>4. Screen' = SubSeq(Screen, 1, Len(Screen) - 1) /\ context.source' = context.source
    BY <1>2, <2>2, <2>3
  <2>5. Len(Screen') # Len(document)
    <3>1. Len(t) \in Nat /\ Len(t) > 0
      BY <1>2, <1>3, <1>6, EmptySeq, LenProperties DEF Text
    <3>2. Len(document \o t) = Len(document) + Len(t) /\ Len(document) \in Nat
      BY <1>2, Sight, Joined
    <3>. QED BY <2>3, <3>1, <3>2
  <2>6. Promise!Erase
    BY <1>1, <1>4, <2>3, <2>4, <2>5 DEF Promise!Erase
  <2>. QED BY <1>4, <2>3, <2>6 DEF Follows, Promise!Next
<1>. QED BY <1>5, <1>6

LEMMA EchoBackFollows == ASSUME RefInv, EchoBackAndClearUndoContext PROVE Follows
<1>1. /\ context.state \notin Composing
      /\ context.composer = <<>> /\ context.source = <<>> /\ Screen = document
  BY Idle DEF EchoBackAndClearUndoContext
<1>2. /\ context' = ConverterReset(context)
      /\ context'.composer = <<>> /\ context'.source = <<>> /\ context'.drawing = FALSE
  BY <1>1, Sight, ResetParts DEF EchoBackAndClearUndoContext
<1>3. /\ Promise!Forget /\ Returns' /\ Alone'
  BY <1>2, Forgets DEF EchoBackAndClearUndoContext, RefInv, Alone
<1>4. document' \in Text
  BY EchoBackKeeps DEF RefInv, IInv
<1>5. Screen' = document' /\ context.source' = context.source
  BY <1>1, <1>2, <1>3, <1>4, Joined DEF Alone, Screen, ScreenOf
<1>6. CASE CanType /\ TypeKey /\ document' = Append(document, Fresh)
  <2>1. Promise!Application
    <3>1. Fresh \in 1..MaxKeys
      BY <1>6, FreshKey DEF RefInv
    <3>. QED BY <1>1, <1>3, <1>5, <1>6, <3>1 DEF Promise!Application
  <2>. QED BY <1>3, <2>1 DEF Follows, Promise!Next
<1>7. CASE document # <<>> /\ document' = SubSeq(document, 1, Len(document) - 1)
  <2>1. Promise!Application
    BY <1>1, <1>3, <1>5, <1>7 DEF Promise!Application
  <2>. QED BY <1>3, <2>1 DEF Follows, Promise!Next
<1>8. CASE document' = document
  <2>1. Promise!ForgetMarks
    BY <1>1, <1>3, <1>5, <1>8 DEF Promise!ForgetMarks
  <2>. QED BY <1>3, <2>1 DEF Follows, Promise!Next
<1>. QED BY <1>6, <1>7, <1>8 DEF EchoBackAndClearUndoContext

LEMMA InsertTextFollows == ASSUME RefInv, InsertText PROVE Follows
<1>1. Fresh \in 1..MaxKeys /\ <<Fresh>> \in Text
  BY FreshKey DEF InsertText, RefInv
<1>2. PICK c : /\ c.composer = <<>> /\ c.source = <<>> /\ c.drawing = FALSE
               /\ Respond(c, <<Fresh>>, keep)
  <2>1. CASE context.state = "DIRECT"
    <3>1. /\ ConverterReset(context).composer = <<>> /\ ConverterReset(context).source = <<>>
          /\ ConverterReset(context).drawing = FALSE
      BY <2>1, Idle, Sight, ResetParts DEF Composing
    <3>. QED BY <2>1, <3>1 DEF InsertText
  <2>2. CASE context.state # "DIRECT"
    BY <2>2, Sight, CancelParts DEF InsertText
  <2>. QED BY <2>1, <2>2
<1>3. Promise!Bypass /\ Returns'
  BY Bypasses DEF InsertText
<1>4. keep = FALSE /\ document \o <<Fresh>> = Append(document, Fresh)
  BY <1>1, Sight, Appended DEF RefInv, Alone
<1>5. /\ Alone' /\ Screen' = Append(document, Fresh) /\ Len(document') = Len(Screen')
      /\ context.source' = <<>>
  BY <1>1, <1>2, <1>4, Leaves DEF Respond
<1>6. Promise!Insert
  BY <1>1, <1>3, <1>5, Sight DEF Promise!Insert
<1>. QED BY <1>3, <1>5, <1>6 DEF Follows, Promise!Next

LEMMA CommitRawTextFollows == ASSUME RefInv, CommitRawText PROVE Follows
<1>. DEFINE c == PrecompositionAndCancel(context)
<1>1. c.composer = <<>> /\ c.source = <<>> /\ c.drawing = FALSE
  BY Sight, CancelParts
<1>2. Promise!Bypass /\ Returns' /\ keep = FALSE
  BY Bypasses DEF CommitRawText, RefInv, Alone
<1>3. context.composer \in Text /\ Respond(c, context.composer, keep)
  BY Sight DEF CommitRawText
<1>. HIDE DEF c
<1>4. Alone' /\ Screen' = Screen /\ Len(document') = Len(Screen') /\ context.source' = <<>>
  BY <1>1, <1>2, <1>3, Leaves DEF Respond
<1>5. Len(document) < Len(Screen)
  <2>1. context.state \in Composing
    BY Reading DEF CommitRawText, RefInv, IInv
  <2>. QED BY <2>1, Unfinished
<1>6. Promise!AcceptRaw
  BY <1>2, <1>4, <1>5 DEF Promise!AcceptRaw
<1>. QED BY <1>2, <1>4, <1>6 DEF Follows, Promise!Next

LEMMA ConvertingFollows ==
  ASSUME RefInv, StartConversion \/ Predict \/ Transliterate \/ MoveCandidate
                 \/ ResizeSegment \/ ConfirmConversionSelection
  PROVE  Follows
<1>1. keep = FALSE /\ KeepUndo /\ context.drawing = FALSE
  BY DEF RefInv, Alone, StartConversion, Predict, Transliterate, MoveCandidate,
         ResizeSegment, ConfirmConversionSelection
<1>2. PICK c, w : /\ c.composer = context.composer /\ c.source = context.source
                  /\ c.drawing = FALSE /\ Show(c, w, <<>>, keep)
  <2>1. CASE StartConversion
    <3>1. PICK c \in Convert(ConverterReset(context)) : Respond(c, <<>>, keep)
      BY <2>1 DEF StartConversion
    <3>2. c.composer = context.composer /\ c.source = context.source /\ c.drawing = FALSE
      BY Sight, ResetParts, ConvertParts
    <3>. QED BY <3>1, <3>2 DEF Respond
  <2>2. CASE Predict
    BY <1>1, <2>2, Sight DEF Predict, Respond, Context
  <2>3. CASE Transliterate
    BY <1>1, <2>3, Sight DEF Transliterate, CloseWindow, Context
  <2>4. CASE MoveCandidate \/ ConfirmConversionSelection
    BY <1>1, <2>4 DEF MoveCandidate, ConfirmConversionSelection, CloseWindow, Respond
  <2>5. CASE ResizeSegment
    BY <1>1, <2>5, Sight DEF ResizeSegment, CloseWindow, Context
  <2>. QED BY <2>1, <2>2, <2>3, <2>4, <2>5
<1>. QED BY <1>1, <1>2, Waits

\* A text in two parts.
LEMMA Halves ==
  ASSUME NEW t \in Text, NEW n \in Nat, n <= Len(t)
  PROVE  /\ SubSeq(t, 1, n) \in Text /\ Len(SubSeq(t, 1, n)) = n
         /\ SubSeq(t, n + 1, Len(t)) \in Text
         /\ SubSeq(t, 1, n) \o SubSeq(t, n + 1, Len(t)) = t
<1>1. Len(t) \in Nat /\ SubSeq(t, 1, Len(t)) = t /\ t \in Seq(1..MaxKeys)
  BY Joined DEF Text
<1>2. SubSeq(t, 1, n) \o SubSeq(t, n + 1, Len(t)) = SubSeq(t, 1, Len(t))
  <2>1. 1 \in 1..(Len(t) + 1) /\ n \in (1 - 1)..Len(t) /\ Len(t) \in n..Len(t)
    BY <1>1
  <2>. QED BY <1>1, <2>1, ConcatAdjacentSubSeq
<1>. QED BY <1>1, <1>2, Prefix, Suffix

LEMMA OutcomeParts ==
  ASSUME RefInv, NEW o \in CommitOutcomes
  PROVE  /\ context.state \in Composing /\ o.pushed = TRUE
         /\ o.result \in Text /\ o.result \in {context.composer, <<>>}
<1>1. context.drawing = FALSE
  BY DEF RefInv, Alone
<1>2. o.pushed = TRUE
  <2>1. CASE o = [result |-> context.composer, pushed |-> TRUE]
    BY <2>1
  <2>2. CASE o = [result |-> <<>>, pushed |-> ~context.drawing]
    BY <1>1, <2>2
  <2>. QED BY <2>1, <2>2 DEF CommitOutcomes
<1>. QED BY <1>2, Outcome, Results DEF RefInv

\* A commit, also the one before the input method is switched off.
LEMMA Commits ==
  ASSUME RefInv, NEW o \in CommitOutcomes, NEW c, NEW w,
         c.composer = <<>>, c.source = <<>>, c.drawing = FALSE, Show(c, w, o.result, FALSE),
         \/ PushUndo(Len(o.result))
         \/ undo_contexts' = PushUndoContext(<<>>, Len(o.result)) /\ bypassed' = FALSE
  PROVE  Follows
<1>1. /\ o.result \in Text /\ o.result \in {context.composer, <<>>}
      /\ Len(document) < Len(Screen)
  BY OutcomeParts, Unfinished
<1>2. /\ Alone' /\ document' = document \o o.result /\ context.source' = <<>>
      /\ Len(document') = Len(Screen')
      /\ o.result = <<>> => document' = document /\ Screen' = document
      /\ o.result = context.composer => Screen' = Screen
  BY <1>1, Leaves
<1>3. Promise!Remember /\ Returns'
  BY <1>1, <1>2, Remembers, RemembersAnew
<1>4. CASE o.result = context.composer
  <2>1. Len(Screen) \in (Len(document) + 1)..Len(Screen)
    BY <1>1, Sight
  <2>2. Promise!Accept
    BY <1>2, <1>3, <1>4, <2>1 DEF Promise!Accept
  <2>. QED BY <1>2, <1>3, <2>2 DEF Follows, Promise!Next
<1>5. CASE o.result = <<>>
  <2>1. Promise!Drop
    BY <1>1, <1>2, <1>3, <1>5, Sight DEF Promise!Drop
  <2>. QED BY <1>2, <1>3, <2>1 DEF Follows, Promise!Next
<1>. QED BY <1>1, <1>4, <1>5

LEMMA CommitFollows == ASSUME RefInv, Commit PROVE Follows
<1>1. PICK o \in CommitOutcomes :
        /\ Respond(PrecompositionAndCancel(context), o.result, FALSE)
        /\ IF o.pushed THEN PushUndo(Len(o.result)) ELSE KeepUndo
  BY DEF Commit
<1>2. PushUndo(Len(o.result))
  BY <1>1, OutcomeParts
<1>. QED BY <1>1, <1>2, Sight, CancelParts, Commits DEF Respond

LEMMA RangeParts ==
  ASSUME NEW c \in Context, NEW n \in Nat, n <= Len(c.composer)
  PROVE  LET d == DeleteRange(c, n)
         IN  /\ d.composer = SubSeq(c.composer, n + 1, Len(c.composer))
             /\ d.source = c.source /\ d.drawing = c.drawing
  BY DEF DeleteRange, Context

\* The first n characters of the reading move to the application.
LEMMA CommitSegmentsFollows ==
  ASSUME RefInv, context.state \in Composing, NEW n \in 1..Len(context.composer),
         NEW k, k = FALSE, CommitSegments(n, k)
  PROVE  Follows
<1>. DEFINE result == SubSeq(context.composer, 1, n)
            rest == SubSeq(context.composer, n + 1, Len(context.composer))
<1>1. /\ context.composer \in Text /\ document \in Text /\ n \in Nat /\ n > 0
      /\ n <= Len(context.composer)
      /\ Len(document) \in Nat /\ Len(Screen) = Len(document) + Len(context.composer)
      /\ Screen = document \o context.composer /\ Len(context.composer) \in Nat
  BY Sight
<1>2. result \in Text /\ Len(result) = n /\ rest \in Text /\ result \o rest = context.composer
  BY <1>1, Halves
<1>3. PushUndo(Len(result))
  BY <1>2 DEF CommitSegments
<1>4. Len(document) + n \in (Len(document) + 1)..Len(Screen)
  BY <1>1
<1>5. CASE n = Len(context.composer)
  <2>1. result = context.composer
    BY <1>1, <1>5, Joined
  <2>2. Show(PrecompositionAndCancel(context), FALSE, result, k)
        \/ Show(PrecompositionAndCancel(context), TRUE, result, k)
    BY <1>5 DEF CommitSegments, Respond
  <2>. HIDE DEF result, rest
  <2>3. /\ Alone' /\ document' = document \o result /\ context.source' = <<>>
        /\ Len(document') = Len(document) + Len(result) /\ Screen' = Screen
    BY <1>2, <2>1, <2>2, Sight, CancelParts, Leaves
  <2>4. Promise!Remember /\ Returns'
    BY <1>2, <1>3, <2>3, Remembers
  <2>5. Promise!Accept
    BY <1>1, <1>2, <1>4, <1>5, <2>3, <2>4 DEF Promise!Accept
  <2>. QED BY <2>3, <2>4, <2>5 DEF Follows, Promise!Next
<1>6. CASE n # Len(context.composer)
  <2>. DEFINE d == DeleteRange(context, n)
  <2>1. Respond(d, result, k)
    BY <1>6 DEF CommitSegments
  <2>2. d.composer = rest /\ d.source = context.source /\ d.drawing = FALSE
    BY <1>1, Sight, RangeParts DEF RefInv, Alone
  <2>. HIDE DEF result, rest, d
  <2>3. /\ context' = d /\ Alone' /\ document' = document \o result
        /\ Len(document') = Len(document) + n /\ Screen' = (document \o result) \o rest
    BY <1>2, <2>1, <2>2, Seen DEF Respond
  <2>4. Screen' = Screen /\ context.source' = context.source
    <3>1. (document \o result) \o rest = document \o (result \o rest)
      <4>1. /\ document \in Seq(1..MaxKeys) /\ result \in Seq(1..MaxKeys)
            /\ rest \in Seq(1..MaxKeys)
        BY <1>1, <1>2 DEF Text
      <4>. QED BY <4>1, ConcatAssociative
    <3>. QED BY <1>1, <1>2, <2>2, <2>3, <3>1
  <2>5. Promise!Remember /\ Returns'
    BY <1>2, <1>3, <2>3, Remembers
  <2>6. Len(document) + n # Len(Screen)
    BY <1>1, <1>6
  <2>7. Promise!Accept
    BY <1>4, <2>3, <2>4, <2>5, <2>6 DEF Promise!Accept
  <2>. QED BY <2>3, <2>5, <2>7 DEF Follows, Promise!Next
<1>. QED BY <1>5, <1>6

LEMMA CommitSegmentFollows == ASSUME RefInv, CommitSegment PROVE Follows
<1>1. context.state \in Composing /\ context.converter # "COMPOSITION" /\ keep = FALSE
  BY Sight DEF CommitSegment, Composing, Good, Agrees, RefInv, Alone
<1>2. PICK n \in {Len(context.composer)} \cup context.segments : CommitSegments(n, keep)
  BY DEF CommitSegment
<1>3. n \in 1..Len(context.composer)
  BY <1>1, <1>2, Segments DEF RefInv
<1>. QED BY <1>1, <1>2, <1>3, CommitSegmentsFollows

LEMMA CommitCandidateFollows == ASSUME RefInv, CommitCandidate PROVE Follows
<1>1. context.state \in Composing /\ context.converter # "COMPOSITION" /\ context.drawing = FALSE
  BY DEF CommitCandidate, IsActive, RefInv, Alone
<1>2. /\ context.segments \subseteq 1..Len(context.composer)
      /\ Len(context.composer) \in 1..Len(context.composer)
  BY <1>1, Segments DEF RefInv
<1>3. CASE \E n \in context.segments : CommitSegments(n, FALSE)
  <2>1. PICK n \in context.segments : CommitSegments(n, FALSE)
    BY <1>3
  <2>. QED BY <1>1, <1>2, <2>1, CommitSegmentsFollows
<1>4. CASE CommitSegments(Len(context.composer), FALSE)
  BY <1>1, <1>2, <1>4, CommitSegmentsFollows
<1>5. CASE PushUndo(0) /\ Respond(context, <<>>, FALSE)
  <2>1. /\ Alone' /\ document' = document /\ Screen' = Screen
        /\ Len(document)' = Len(document) /\ context.source' = context.source
    BY <1>1, <1>5, Stays DEF Respond
  <2>2. <<>> \in Text /\ Len(<<>>) = 0 /\ document \o <<>> = document
    BY Sight, Joined
  <2>3. Promise!Remember /\ Returns'
    BY <1>5, <2>1, <2>2, Remembers
  <2>4. Promise!RememberOnly
    BY <2>1, <2>3 DEF Promise!RememberOnly
  <2>. QED BY <2>1, <2>3, <2>4 DEF Follows, Promise!Next
<1>. QED BY <1>3, <1>4, <1>5 DEF CommitCandidate

LEMMA CommitFirstSuggestionFollows == ASSUME RefInv, CommitFirstSuggestion PROVE Follows
<1>1. context.state \in Composing /\ keep = FALSE
  BY DEF CommitFirstSuggestion, Composing, RefInv, Alone
<1>2. Len(context.composer) \in 1..Len(context.composer)
  BY <1>1, Start DEF RefInv
<1>. QED BY <1>1, <1>2, CommitSegmentsFollows DEF CommitFirstSuggestion

LEMMA ConvertCancelFollows == ASSUME RefInv, ConvertCancel PROVE Follows
<1>. DEFINE d == SetSessionState(context, "COMPOSITION")
<1>1. keep = FALSE /\ KeepUndo
  BY DEF ConvertCancel, RefInv, Alone
<1>2. PICK c \in Suggest(d) : Respond(c, <<>>, FALSE)
  BY <1>1 DEF ConvertCancel
<1>3. d \in Context /\ d.composer = context.composer /\ d.source = context.source
  BY Sight DEF SetSessionState, Context, SessionState
<1>. HIDE DEF d
<1>4. c.composer = context.composer /\ c.source = context.source /\ c.drawing = FALSE
  BY <1>3, SuggestParts
<1>. QED BY <1>1, <1>2, <1>4, Waits DEF Respond

\* The reading goes, the reopened text comes back.
LEMMA Cancelled ==
  ASSUME RefInv, NEW c, c.composer = <<>>, c.source = <<>>, c.drawing = FALSE,
         NEW w, NEW k, k = FALSE, Show(c, w, Restored, k)
  PROVE  /\ Alone' /\ Restored = context.source /\ document' = document \o context.source
         /\ context.source = <<>> => document' = document
         /\ Screen' = Promise!Owned \o context.source
         /\ Len(document') = Len(Screen') /\ context.source' = <<>>
<1>1. Restored = context.source /\ Restored \in Text
  BY Sight DEF Restored, RefInv, Alone
<1>. QED BY <1>1, Sight, Leaves

LEMMA EditCancelFollows == ASSUME RefInv, EditCancel PROVE Follows
<1>. DEFINE c == PrecompositionAndCancel(context)
<1>1. c.composer = <<>> /\ c.source = <<>> /\ c.drawing = FALSE
  BY Sight, CancelParts
<1>2. (keep /\ context.source = <<>>) = FALSE
  BY DEF RefInv, Alone
<1>3. Respond(c, Restored, keep /\ context.source = <<>>)
  BY DEF EditCancel
<1>. HIDE DEF c
<1>4. /\ Alone' /\ Restored = context.source
      /\ context.source = <<>> => document' = document
      /\ Screen' = Promise!Owned \o context.source
      /\ Len(document') = Len(Screen') /\ context.source' = <<>>
  BY <1>1, <1>2, <1>3, Cancelled DEF Respond
<1>5. /\ IF context.source = <<>> THEN Promise!Keep ELSE Promise!Bypass
      /\ Returns'
  BY <1>4, Keeps, Bypasses DEF EditCancel
<1>6. Promise!Cancel
  BY <1>4, <1>5 DEF Promise!Cancel
<1>. QED BY <1>4, <1>5, <1>6 DEF Follows, Promise!Next

LEMMA EditCancelAndIMEOffFollows == ASSUME RefInv, EditCancelAndIMEOff PROVE Follows
<1>. DEFINE s == SetSessionState(context, "DIRECT")
            c == ConverterReset(s)
<1>1. c.composer = <<>> /\ c.source = <<>> /\ c.drawing = FALSE
  <2>1. s \in Context /\ s.composer = <<>> /\ s.source = <<>>
    BY Sight, StateParts
  <2>. HIDE DEF s
  <2>. QED BY <2>1, ResetParts
<1>2. (keep /\ context.source = <<>>) = FALSE
  BY DEF RefInv, Alone
<1>3. Respond(c, Restored, keep /\ context.source = <<>>)
  BY DEF EditCancelAndIMEOff
<1>. HIDE DEF c
<1>4. /\ Alone' /\ Screen' = Promise!Owned \o context.source
      /\ Len(document') = Len(Screen') /\ context.source' = <<>>
  BY <1>1, <1>2, <1>3, Cancelled DEF Respond
<1>5. Promise!Forget /\ Returns'
  BY Forgets DEF EditCancelAndIMEOff
<1>6. Promise!Cancel
  BY <1>4, <1>5 DEF Promise!Cancel
<1>. QED BY <1>4, <1>5, <1>6 DEF Follows, Promise!Next

LEMMA RevertFollows == ASSUME RefInv, Revert PROVE Follows
<1>. DEFINE c == PrecompositionAndCancel(context)
<1>1. c.composer = <<>> /\ c.source = <<>> /\ c.drawing = FALSE /\ <<>> \in Text
  BY Sight, CancelParts, Joined
<1>2. Respond(c, <<>>, FALSE) /\ context.state \in Composing
  BY DEF Revert
<1>. HIDE DEF c
<1>3. Alone' /\ document' = document /\ Screen' = document /\ context.source' = <<>>
  BY <1>1, <1>2, Leaves DEF Respond
<1>4. Promise!Forget /\ Returns'
  BY Forgets DEF Revert
<1>5. Promise!Drop
  BY <1>2, <1>3, <1>4, Sight, Unfinished DEF Promise!Drop
<1>. QED BY <1>3, <1>4, <1>5 DEF Follows, Promise!Next

LEMMA UndoFollows == ASSUME RefInv, Undo PROVE Follows
<1>. DEFINE s == undo_contexts
            l == Len(s)
            top == s[l]
            back == SubSeq(document, 1, Len(document) - top.output)
            rest == SubSeq(s, 1, l - 1)
<1>1. /\ s \in Seq(Entry) /\ s # <<>> /\ l \in Nat /\ l > 0 /\ l \in 1..l
      /\ top \in Entry /\ top.context \in Context /\ top.context.composer \in Text
      /\ top.context.drawing = FALSE
  <2>1. s \in Seq(Entry) /\ s # <<>>
    BY DEF Undo, RefInv, IInv, GoodStack
  <2>2. l \in Nat /\ l > 0 /\ l \in 1..l
    BY <2>1, Entries
  <2>3. top \in Entry /\ top.context \in Context
    BY <2>1, <2>2, Entries
  <2>4. top.context.drawing = FALSE
    BY <2>2 DEF RefInv, Returns, Plain
  <2>. QED BY <2>1, <2>2, <2>3, <2>4 DEF Context
<1>2. /\ context' = top.context /\ undo_contexts' = rest
      /\ bypassed' = (bypassed /\ undo_contexts' # <<>>)
      /\ pending' = 0 /\ keep' = keep
  BY DEF Undo
<1>3. Alone' /\ document' \in Text /\ Screen' = document' \o top.context.composer
  <2>1. document' \in Text
    BY UndoKeeps DEF RefInv, IInv
  <2>. QED BY <1>1, <1>2, <2>1 DEF RefInv, Alone, Screen, ScreenOf
<1>4. /\ rest \in Seq(Entry) /\ Len(rest) = l - 1
      /\ \A i \in 1..(l - 1) : rest[i] = s[i]
  BY <1>1, Popped
<1>5. Plain(undo_contexts')
  <2>1. 1..(l - 1) \subseteq 1..l
    BY <1>1
  <2>. HIDE DEF rest, s
  <2>. QED BY <1>2, <1>4, <2>1 DEF RefInv, Returns, Plain, s
<1>6. ~bypassed => /\ Screen' = top.text /\ Len(document') = top.done
                   /\ Undoing(undo_contexts', document')
  <2>1. SUFFICES ASSUME ~bypassed
                 PROVE  /\ Screen' = top.text /\ Len(document') = top.done
                        /\ Undoing(undo_contexts', document')
    OBVIOUS
  <2>2. Undoing(s, document) /\ document \in Text
    BY <2>1, Sight DEF RefInv, Returns
  <2>3. /\ top.output <= Len(document) /\ top.done = Len(back)
        /\ top.text = back \o top.context.composer /\ Undoing(rest, back)
    BY <1>1, <2>2, UndoingLess
  <2>4. document' = back
    BY <2>3 DEF Undo
  <2>. HIDE DEF back, rest, top
  <2>. QED BY <1>2, <1>3, <2>3, <2>4
<1>7. bypassed /\ ~bypassed' => Undoing(undo_contexts', document')
  <2>1. SUFFICES ASSUME bypassed, ~bypassed' PROVE undo_contexts' = <<>>
    BY Entries DEF Undoing
  <2>. QED BY <1>2, <2>1
<1>8. Returns'
  BY <1>5, <1>6, <1>7 DEF Returns
<1>9. /\ MarksOf(s) # <<>> /\ Len(MarksOf(s)) = l /\ MarksOf(s)[l] = Mark(top)
      /\ MarksOf(rest) = SubSeq(MarksOf(s), 1, l - 1)
      /\ (MarksOf(rest) = <<>> <=> rest = <<>>)
  <2>1. MarksOf(rest) = SubSeq(MarksOf(s), 1, Len(MarksOf(s)) - 1)
    BY <1>1, MarksPopped
  <2>2. MarksOf(s) # <<>> /\ Len(MarksOf(s)) = l /\ MarksOf(s)[l] = Mark(top)
    BY <1>1, MarksOfSeq
  <2>3. MarksOf(rest) = <<>> <=> rest = <<>>
    BY <1>4, MarksOfSeq
  <2>. QED BY <2>1, <2>2, <2>3
<1>10. Mark(top).text = top.text /\ Mark(top).done = top.done
  BY DEF Mark
<1>. HIDE DEF rest, top
<1>11. bypassed' = (bypassed /\ MarksOf(undo_contexts') # <<>>)
  BY <1>2, <1>9
<1>12. /\ MarksOf(undo_contexts) # <<>>
       /\ MarksOf(undo_contexts') = SubSeq(MarksOf(undo_contexts), 1, Len(MarksOf(undo_contexts)) - 1)
       /\ ~bypassed => /\ Screen' = MarksOf(undo_contexts)[Len(MarksOf(undo_contexts))].text
                       /\ Len(document)' = MarksOf(undo_contexts)[Len(MarksOf(undo_contexts))].done
  BY <1>2, <1>6, <1>9, <1>10
<1>13. Promise!Undo
  BY <1>11, <1>12 DEF Promise!Undo, MarksOf, Mark
<1>. QED BY <1>3, <1>8, <1>13 DEF Follows, Promise!Next

-----------------------------------------------------------------------------

\* The input method is switched while nothing is being composed.
LEMMA Switches ==
  ASSUME RefInv, context.state \notin Composing, NEW c, c.composer = <<>>,
         c.source = <<>>, c.drawing = FALSE, Respond(c, <<>>, keep),
         ClearUndoContext \/ KeepUndo
  PROVE  Follows
<1>1. /\ context.composer = <<>> /\ context.source = <<>> /\ keep = FALSE
  BY Idle DEF RefInv, Alone
<1>2. CASE ClearUndoContext
  <2>1. /\ Alone' /\ Screen' = Screen /\ Len(document)' = Len(document)
        /\ context.source' = context.source
    BY <1>1, Stays DEF Respond
  <2>2. Promise!Forget /\ Returns'
    BY <1>2, Forgets
  <2>3. Promise!ForgetMarks
    BY <2>1, <2>2 DEF Promise!ForgetMarks
  <2>. QED BY <2>1, <2>2, <2>3 DEF Follows, Promise!Next
<1>3. CASE KeepUndo
  BY <1>1, <1>3, Waits DEF Respond
<1>. QED BY <1>2, <1>3

LEMMA IMEOffFollows == ASSUME RefInv, IMEOff PROVE Follows
<1>1. CASE /\ context.state = "PRECOMPOSITION"
           /\ Respond(ConverterReset(SetSessionState(context, "DIRECT")), <<>>, keep)
           /\ ClearUndoContext
  <2>. DEFINE s == SetSessionState(context, "DIRECT")
  <2>1. s \in Context /\ s.composer = <<>> /\ s.source = <<>>
    BY Sight, StateParts
  <2>. HIDE DEF s
  <2>2. /\ ConverterReset(s).composer = <<>> /\ ConverterReset(s).source = <<>>
        /\ ConverterReset(s).drawing = FALSE
    BY <2>1, ResetParts
  <2>. QED BY <1>1, <2>2, Switches DEF s, Composing
<1>2. CASE \E o \in CommitOutcomes :
          /\ Respond(SetSessionState(PrecompositionAndCancel(context), "DIRECT"), o.result, FALSE)
          /\ undo_contexts' = IF o.pushed THEN PushUndoContext(<<>>, Len(o.result))
                              ELSE <<>>
          /\ bypassed' = FALSE
  <2>. DEFINE p == PrecompositionAndCancel(context)
              c == SetSessionState(p, "DIRECT")
  <2>1. PICK o \in CommitOutcomes :
          /\ Respond(c, o.result, FALSE)
          /\ undo_contexts' = IF o.pushed THEN PushUndoContext(<<>>, Len(o.result)) ELSE <<>>
          /\ bypassed' = FALSE
    BY <1>2
  <2>2. p \in Context /\ p.drawing = FALSE
    BY Sight, CancelParts
  <2>. HIDE DEF p
  <2>3. c.composer = <<>> /\ c.source = <<>> /\ c.drawing = FALSE
    BY <2>2, StateParts
  <2>. HIDE DEF c
  <2>4. undo_contexts' = PushUndoContext(<<>>, Len(o.result))
    BY <2>1, OutcomeParts
  <2>. QED BY <2>1, <2>3, <2>4, Commits DEF Respond
<1>. QED BY <1>1, <1>2 DEF IMEOff

LEMMA IndirectIMEOffFollows == ASSUME RefInv, IndirectIMEOff PROVE Follows
<1>. DEFINE p == PrecompositionAndCancel(context)
            c == SetSessionState(p, "DIRECT")
<1>1. c.composer = <<>> /\ c.source = <<>> /\ c.drawing = FALSE
  <2>1. p \in Context /\ p.drawing = FALSE
    BY Sight, CancelParts
  <2>. HIDE DEF p
  <2>. QED BY <2>1, StateParts
<1>2. context' = c /\ keep' = FALSE /\ pending' = 0 /\ context.state \in Composing
  BY DEF IndirectIMEOff
<1>3. Promise!Forget /\ Returns'
  BY Forgets DEF IndirectIMEOff
<1>. HIDE DEF c
<1>4. document' \in Text
  BY IndirectIMEOffKeeps DEF RefInv, IInv
<1>5. Alone' /\ Screen' = document' /\ context.source' = <<>>
  BY <1>1, <1>2, <1>4, Joined DEF Alone, Screen, ScreenOf
<1>6. CASE CanType /\ TypeKey /\ document' = Append(document, Fresh)
  <2>1. Fresh \in 1..MaxKeys
    BY <1>6, FreshKey DEF RefInv
  <2>2. Len(document)' = Len(document) + 1
    BY <1>6, <2>1, Sight, Appended
  <2>3. Screen' = Append(Promise!Owned, Fresh)
    BY <1>5, <1>6, Sight
  <2>4. Promise!DropAndType
    BY <1>3, <1>5, <2>1, <2>2, <2>3 DEF Promise!DropAndType
  <2>. QED BY <1>3, <1>5, <2>4 DEF Follows, Promise!Next
<1>7. CASE document' = document
  <2>1. Screen' = Promise!Owned /\ Len(document)' = Len(document)
    BY <1>5, <1>7, Sight
  <2>2. Promise!Drop
    BY <1>2, <1>3, <1>5, <2>1, Unfinished DEF Promise!Drop
  <2>. QED BY <1>3, <1>5, <2>2 DEF Follows, Promise!Next
<1>. QED BY <1>6, <1>7 DEF IndirectIMEOff

LEMMA OnFollows == ASSUME RefInv, IMEOn \/ CompositionMode PROVE Follows
<1>. DEFINE c == SetSessionState(context, "PRECOMPOSITION")
<1>1. c.composer = <<>> /\ c.source = <<>> /\ c.drawing = FALSE
  BY Sight, StateParts DEF RefInv, Alone
<1>2. /\ context.state \notin Composing /\ Respond(c, <<>>, keep)
      /\ ClearUndoContext \/ KeepUndo
  BY DEF IMEOn, CompositionMode, Composing
<1>. HIDE DEF c
<1>. QED BY <1>1, <1>2, Switches

LEMMA ReconfigureFollows == ASSUME RefInv, Reconfigure PROVE Follows
<1>1. /\ ClearUndoContext /\ context' = context /\ document' = document
      /\ pending' = pending /\ keep' = keep
  BY DEF Reconfigure, Quiet
<1>2. Promise!Forget /\ Returns'
  BY <1>1, Forgets
<1>3. Promise!ForgetMarks /\ Alone'
  BY <1>1, <1>2 DEF Promise!ForgetMarks, Screen, ScreenOf, RefInv, Alone
<1>. QED BY <1>2, <1>3 DEF Follows, Promise!Next

LEMMA ConvertReverseFollows == ASSUME RefInv, ConvertReverse PROVE Follows
<1>1. PICK n \in 1..Len(document) :
         /\ \E c \in Convert(Reopened(n)) : context' = c
         /\ document' = SubSeq(document, 1, Len(document) - n)
  BY DEF ConvertReverse
<1>. DEFINE m == Len(document) - n
            r == ConverterReset(SetSessionState(context, "PRECOMPOSITION"))
            t == Selected(n)
<1>2. /\ document \in Text /\ Len(document) \in Nat /\ n \in Nat /\ n > 0
      /\ m \in Nat /\ m <= Len(document) /\ m \in 0..(Len(document) - 1)
      /\ Len(document) - n + 1 = m + 1
  BY Sight
<1>3. /\ t = SubSeq(document, m + 1, Len(document)) /\ t \in Text
      /\ document' \o t = document /\ Len(document') = m
  BY <1>1, <1>2, Halves DEF Selected
<1>4. Reopened(n) \in Context /\ Reopened(n).composer = t /\ Reopened(n).source = t
      /\ Reopened(n).drawing = FALSE
  <2>1. r \in Context /\ r.drawing = FALSE
    <3>1. SetSessionState(context, "PRECOMPOSITION") \in Context
      BY Sight, StateParts
    <3>. QED BY <3>1, ResetParts
  <2>2. Reopened(n) = [r EXCEPT !.composer = t, !.source = t]
    BY DEF Reopened
  <2>. HIDE DEF r, t
  <2>. QED BY <1>3, <2>1, <2>2 DEF Context
<1>5. context'.composer = t /\ context'.source = t /\ context'.drawing = FALSE
  BY <1>1, <1>4, ConvertParts
<1>6. /\ context.state \notin Composing /\ pending' = 0 /\ keep' = keep
      /\ Promise!Forget /\ Returns'
  BY Forgets DEF ConvertReverse
<1>7. Screen = document /\ Len(Screen) = Len(document)
  BY <1>6, Idle
<1>. HIDE DEF t
<1>8. Alone' /\ Screen' = Screen
  BY <1>3, <1>5, <1>6, <1>7 DEF RefInv, Alone, Screen, ScreenOf
<1>9. /\ Len(document)' \in 0..(Len(document) - 1)
      /\ context.source' = SubSeq(Screen, Len(document)' + 1, Len(document))
  BY <1>2, <1>3, <1>5, <1>7
<1>10. Promise!Reopen
  BY <1>6, <1>7, <1>8, <1>9 DEF Promise!Reopen
<1>. QED BY <1>6, <1>8, <1>10 DEF Follows, Promise!Next

-----------------------------------------------------------------------------
(* The refinement.                                                         *)

LEMMA StartsAsPromised == Init => RefInv /\ Promise!Init
<1>. SUFFICES ASSUME Init PROVE RefInv /\ Promise!Init
  OBVIOUS
<1>1. /\ context = Initial /\ undo_contexts = <<>> /\ document = <<>>
      /\ keep = FALSE /\ pending = 0 /\ bypassed = FALSE
      /\ Initial.composer = <<>> /\ Initial.source = <<>> /\ Initial.drawing = FALSE
  BY DEF Init, Initial
<1>2. Alone /\ Returns
  BY <1>1 DEF Alone, Returns, Plain, Undoing
<1>3. RefInv
  BY <1>2, Initially DEF RefInv
<1>4. Screen = <<>> /\ Len(document) = 0
  BY <1>1, <1>3, Sight, Joined
<1>5. MarksOf(undo_contexts) = <<>>
  BY <1>1, MarksEmpty
<1>6. Promise!Init
  BY <1>1, <1>4, <1>5 DEF Promise!Init, MarksOf, Mark
<1>. QED BY <1>3, <1>6

LEMMA FollowsStep == ASSUME ~Related, RefInv, Next PROVE Follows
<1>1. ~ConvertRelated
  BY DEF ConvertRelated
<1>. QED BY <1>1, InsertCharacterFollows, InsertDirectInputFollows, BackspaceFollows,
            EchoBackFollows, InsertTextFollows, CommitRawTextFollows, ConvertingFollows,
            CommitFollows, CommitSegmentFollows, CommitCandidateFollows,
            CommitFirstSuggestionFollows, ConvertCancelFollows, EditCancelFollows,
            EditCancelAndIMEOffFollows, RevertFollows, UndoFollows, IMEOffFollows,
            IndirectIMEOffFollows, OnFollows, ReconfigureFollows, ConvertReverseFollows
         DEF Next

LEMMA FollowsStutter == ASSUME RefInv, UNCHANGED vars PROVE Follows
  BY DEF vars, Follows, Promise!vars, RefInv, Alone, Returns, Plain, Undoing, DocumentAt,
         Undoes, Screen, ScreenOf

\* Without related conversions the session keeps the promise of the editor:
\* commits move text to the application without changing the screen, undo
\* brings back the screen of the commit, a cancelled reconversion puts back
\* what it took (every handler of Session, with PushUndoContext and Undo).
THEOREM Refinement == ASSUME ~Related PROVE Spec => KeepsItsPromise
<1>1. RefInv /\ [Next]_vars => RefInv' /\ [Promise!Next]_(Promise!vars)
  <2>. SUFFICES ASSUME RefInv, [Next]_vars PROVE RefInv' /\ [Promise!Next]_(Promise!vars)
    OBVIOUS
  <2>1. IInv'
    BY Step, Unmoved DEF RefInv
  <2>2. Follows
    BY FollowsStep, FollowsStutter
  <2>. QED BY <2>1, <2>2 DEF Follows, RefInv
<1>. QED BY <1>1, StartsAsPromised, PTL DEF Spec, KeepsItsPromise, Promise!Spec
=============================================================================
