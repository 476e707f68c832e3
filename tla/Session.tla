------------------------------ MODULE Session -------------------------------
(***************************************************************************)
(* session::Session with the part of EngineConverter and Composer it acts  *)
(* on: one session's state machine from the keys and commands a client     *)
(* sends to the text that reaches the application.                         *)
(*                                                                         *)
(* A character is a number, fresh for every key, so that text lost, moved  *)
(* or duplicated shows.  Converting a reading keeps its characters (which  *)
(* kanji a candidate has is the converter's business), the cursor stays at *)
(* the end of the reading, and the desktop request is assumed: no zero     *)
(* query suggestion, no partial suggestion, no password field.  The        *)
(* converter converts every reading that is not empty.                     *)
(***************************************************************************)
EXTENDS Naturals, Sequences, FiniteSets

CONSTANTS MaxKeys,      \* bound: characters typed in a behaviour
          MaxText,      \* bound: characters in the document
          MaxUndo,      \* kMultipleUndoMaxSize
          Related,      \* the user asks for related characters (Ctrl+Shift+7/8)
          TwoStep       \* config: use_two_step_commit

ASSUME SessionAssumption == /\ MaxKeys \in Nat /\ MaxText \in Nat
                            /\ MaxUndo \in Nat \ {0}
                            /\ Related \in BOOLEAN /\ TwoStep \in BOOLEAN

VARIABLES context,       \* context_
          undo_contexts, \* undo_contexts_, each with the screen at its push
          keep,          \* keep_app_selection_
          dismissed,     \* two_step_candidate_dismissed_
          document,      \* the application's text before the caret
          pending,       \* the client's deferred deletion of the selection
          typed,         \* number of characters handed out
          bypassed       \* history: text went past a stack that was not empty

vars == <<context, undo_contexts, keep, dismissed, document, pending, typed,
          bypassed>>

SessionState == {"DIRECT", "PRECOMPOSITION", "COMPOSITION", "CONVERSION"}
ConverterState == {"COMPOSITION", "SUGGESTION", "PREDICTION", "CONVERSION"}
Text == Seq(1..MaxKeys)

\* segments holds the positions in the reading where a segment ends; drawing
\* tells whether the candidates include drawings instead of characters.
Context == [state : SessionState, composer : Text, source : Text,
            converter : ConverterState, segments : SUBSET Nat,
            drawing : BOOLEAN]

Composing == {"COMPOSITION", "CONVERSION"}
IsActive == context.converter # "COMPOSITION"

\* What the user sees: related conversions leave the selection on the screen
\* and hide their own reading.
ScreenOf(doc, c, k) == IF k THEN doc ELSE doc \o c.composer
Screen == ScreenOf(document, context, keep)

Initial == [state |-> "PRECOMPOSITION", composer |-> <<>>, source |-> <<>>,
            converter |-> "COMPOSITION", segments |-> {},
            drawing |-> FALSE]

Init == /\ context = Initial
        /\ undo_contexts = <<>>
        /\ keep = FALSE /\ dismissed = FALSE
        /\ document = <<>> /\ pending = 0
        /\ typed = 0 /\ bypassed = FALSE

-----------------------------------------------------------------------------
(* The engine converter and the session's helpers.                         *)

\* Reset, Cancel and ResetState end every conversion and suggestion.
ConverterReset(c) == [c EXCEPT !.converter = "COMPOSITION", !.segments = {},
                               !.drawing = FALSE]

SetSessionStateKeepingTheReading(c, s) == [c EXCEPT !.state = s]

SetSessionState(c, s) ==
  IF s \in {"DIRECT", "PRECOMPOSITION"}
  THEN [c EXCEPT !.state = s, !.composer = <<>>, !.source = <<>>]
  ELSE [c EXCEPT !.state = s]

PrecompositionAndCancel(c) == ConverterReset(SetSessionState(c, "PRECOMPOSITION"))

\* Suggest finds something or nothing.
Suggest(c) ==
  {ConverterReset(c),
   [ConverterReset(c) EXCEPT !.converter = "SUGGESTION",
                             !.segments = {Len(c.composer)}]}

\* StartConversion splits the reading into segments in any way.
Convert(c) ==
  {[c EXCEPT !.state = "CONVERSION", !.converter = "CONVERSION",
             !.segments = cuts \cup {Len(c.composer)}] :
     cuts \in SUBSET (1..(Len(c.composer) - 1))}

\* The first n characters go out, the composer and the segments follow.
DeleteRange(c, n) ==
  [c EXCEPT !.composer = SubSeq(@, n + 1, Len(@)),
            !.segments = {e - n : e \in {x \in @ : x > n}}]

\* What CommitInternal may do: the text it sends and whether it pushes an
\* undo context.  A focused command is executed instead of sent, a focused
\* drawing is handed off to the drawing tool.
CommitOutcomes ==
  IF context.state \notin Composing THEN {}
  ELSE {[result |-> context.composer, pushed |-> TRUE]} \cup
       (IF context.state = "CONVERSION"
        THEN {[result |-> <<>>, pushed |-> ~context.drawing]} ELSE {})

\* A pushed context with the length n of the result that was copied to
\* context_->output() right after: Undo asks the client to delete as much.
\* text and done are history, the screen at the push.
UndoEntry(n) == [context |-> context, output |-> n,
                 text |-> Screen, done |-> Len(document)]

PushUndoContextUnbounded(stack, n) == Append(stack, UndoEntry(n))

PushUndoContext(stack, n) ==
  LET pushed == Append(stack, UndoEntry(n))
  IN  IF Len(pushed) > MaxUndo THEN Tail(pushed) ELSE pushed

ClearUndoContextForgotten == UNCHANGED undo_contexts /\ bypassed' = FALSE

ClearUndoContext == undo_contexts' = <<>> /\ bypassed' = FALSE
PushUndo(n) == /\ undo_contexts' = PushUndoContext(undo_contexts, n)
               /\ UNCHANGED bypassed
KeepUndo == UNCHANGED <<undo_contexts, bypassed>>
\* CommitStringDirectly leaves the stack as it is.
BypassUndo == /\ bypassed' = (bypassed \/ undo_contexts # <<>>)
              /\ UNCHANGED undo_contexts

ShowKeepingTheSelection(c, window, result, k) ==
  /\ context' = c /\ keep' = k /\ document' = document \o result
  /\ Len(document') <= MaxText
  /\ pending' = IF result = <<>> THEN pending ELSE 0

\* The client shows the output: with a result it first deletes a selection
\* whose deletion was deferred, with neither result nor candidate window nor
\* preedit it gives the deletion up.
Show(c, window, result, k) ==
  /\ context' = c /\ keep' = k
  /\ document' = (IF result = <<>> THEN document
                  ELSE SubSeq(document, 1, Len(document) - pending)) \o result
  /\ Len(document') <= MaxText
  /\ pending' = IF result = <<>> /\ (window \/ (c.composer # <<>> /\ ~k))
                THEN pending ELSE 0

\* The candidate window is open while the converter has candidates, except
\* after what closes it.
Respond(c, result, k) == Show(c, c.converter # "COMPOSITION", result, k)
CloseWindow(c) == Show(c, FALSE, <<>>, keep)

Quiet == UNCHANGED <<document, pending>>
Fresh == typed + 1
CanType == typed < MaxKeys
TypeKey == typed' = Fresh

-----------------------------------------------------------------------------
(* Typing.                                                                 *)

\* InsertCharacter: a conversion is committed first, unless the first Enter
\* of two-step commit accepted it: then the reading comes back.
InsertCharacter ==
  /\ CanType /\ TypeKey
  /\ context.state \in {"PRECOMPOSITION"} \cup Composing
  /\ LET back   == context.state = "CONVERSION" /\ dismissed
         Typed(c) == SetSessionState(
                       [c EXCEPT !.composer = Append(@, Fresh)], "COMPOSITION")
         Then(c, result, k) ==
           \E d \in Suggest(Typed(c)) \cup Convert(ConverterReset(Typed(c))) :
             Respond(d, result, k)
     IN  \/ /\ context.state # "CONVERSION" \/ back
            /\ Then(ConverterReset(context), <<>>, keep)
         \/ /\ context.state = "CONVERSION" /\ ~back
            /\ \E o \in CommitOutcomes : Then(PrecompositionAndCancel(context), o.result, FALSE)
  /\ dismissed' = (dismissed /\ context.state # "CONVERSION")
  /\ ClearUndoContext

\* A space or a tenkey digit set to direct input.
InsertDirectInput ==
  /\ CanType /\ TypeKey
  /\ \/ /\ context.state = "PRECOMPOSITION"
        /\ Respond(PrecompositionAndCancel(context), <<Fresh>>, keep)
        /\ UNCHANGED dismissed
     \/ /\ context.state = "CONVERSION" /\ ~dismissed
        /\ \E o \in CommitOutcomes :
             Respond(PrecompositionAndCancel(context), Append(o.result, Fresh), FALSE)
        /\ dismissed' = FALSE
  /\ ClearUndoContext

\* Backspace and Delete.
Backspace ==
  /\ context.state = "COMPOSITION"
  /\ LET c == [context EXCEPT !.composer = SubSeq(@, 1, Len(@) - 1)]
     IN  IF c.composer = <<>> THEN Respond(PrecompositionAndCancel(c), <<>>, keep)
         ELSE \E d \in Suggest(c) : Respond(d, <<>>, keep)
  /\ ClearUndoContext
  /\ UNCHANGED <<dismissed, typed>>

\* A key the session echoes back: the application types, deletes or moves.
EchoBackAndClearUndoContext ==
  /\ context.state \notin Composing
  /\ \/ CanType /\ TypeKey /\ document' = Append(document, Fresh)
     \/ /\ document # <<>> /\ document' = SubSeq(document, 1, Len(document) - 1)
        /\ UNCHANGED typed
     \/ UNCHANGED <<document, typed>>
  /\ context' = ConverterReset(context)
  /\ ClearUndoContext
  /\ UNCHANGED <<keep, dismissed, pending>>

\* CommitStringDirectly for the palettes, the macron vowels and the letters
\* of a fixed romaji layout.
InsertText ==
  /\ CanType /\ TypeKey
  /\ Respond(IF context.state = "DIRECT" THEN ConverterReset(context)
             ELSE PrecompositionAndCancel(context), <<Fresh>>, keep)
  /\ BypassUndo
  /\ UNCHANGED dismissed

CommitRawText ==
  /\ context.composer # <<>>
  /\ Respond(PrecompositionAndCancel(context), context.composer, keep)
  /\ BypassUndo
  /\ UNCHANGED <<dismissed, typed>>

-----------------------------------------------------------------------------
(* Converting.                                                             *)

\* Convert, ConvertWithoutHistory.
StartConversion ==
  /\ context.state = "COMPOSITION"
  /\ \E c \in Convert(ConverterReset(context)) : Respond(c, <<>>, keep)
  /\ KeepUndo /\ UNCHANGED <<dismissed, typed>>

\* PredictAndConvert, and SelectCandidate on a suggestion.
Predict ==
  /\ context.state = "COMPOSITION"
  /\ Respond([context EXCEPT !.state = "CONVERSION",
                !.converter = "PREDICTION",
                !.segments = {Len(context.composer)}], <<>>, keep)
  /\ KeepUndo /\ UNCHANGED <<dismissed, typed>>

\* ConvertToTransliteration and SwitchKanaType: one segment if there was no
\* conversion, and no candidate window.
Transliterate ==
  /\ context.state \in Composing
  /\ CloseWindow([context EXCEPT
       !.state = "CONVERSION", !.converter = "CONVERSION",
       !.segments = IF context.converter = "CONVERSION" THEN @
                    ELSE {Len(context.composer)}])
  /\ dismissed' = (dismissed /\ context.state # "CONVERSION")
  /\ KeepUndo /\ UNCHANGED typed

\* ConvertNext and its relatives by key; the same and SelectCandidate by
\* command, which does not look at the first Enter.
MoveCandidate ==
  /\ context.state = "CONVERSION"
  /\ \/ dismissed' = FALSE /\ Respond(context, <<>>, keep)
     \/ /\ UNCHANGED dismissed
        /\ Respond(context, <<>>, keep) \/ CloseWindow(context)
  /\ KeepUndo /\ UNCHANGED typed

\* SegmentWidthExpand and SegmentWidthShrink; the focus is not modelled.
ResizeSegment ==
  /\ context.state = "CONVERSION"
  /\ \E cuts \in SUBSET (1..(Len(context.composer) - 1)) :
       CloseWindow([context EXCEPT !.segments =
                      IF context.converter = "PREDICTION" THEN @
                      ELSE cuts \cup {Len(context.composer)}])
  /\ dismissed' = FALSE
  /\ KeepUndo /\ UNCHANGED typed

-----------------------------------------------------------------------------
(* Committing.                                                             *)

\* ConfirmConversionSelection: the first Enter of two-step commit.
ConfirmConversionSelection ==
  /\ TwoStep /\ context.state = "CONVERSION" /\ ~dismissed
  /\ CloseWindow(context)
  /\ dismissed' = TRUE
  /\ KeepUndo /\ UNCHANGED typed

Commit ==
  /\ \E o \in CommitOutcomes :
       /\ Respond(PrecompositionAndCancel(context), o.result, FALSE)
       /\ IF o.pushed THEN PushUndo(Len(o.result)) ELSE KeepUndo
  /\ dismissed' = FALSE
  /\ UNCHANGED typed

\* CommitSegmentsInternal up to the end of a segment; committing the last
\* one, or a candidate that covers the sentence, is a commit.
CommitSegments(n, k) ==
  LET result == SubSeq(context.composer, 1, n)
      left   == IF n = Len(context.composer) THEN PrecompositionAndCancel(context)
                ELSE DeleteRange(context, n)
  IN  /\ Respond(left, result, k)
      /\ PushUndo(n)

CommitSegment ==
  /\ context.state = "CONVERSION"
  /\ \E n \in {Len(context.composer)} \cup
              {e \in context.segments : \A x \in context.segments : e <= x} :
       CommitSegments(n, keep)
  /\ dismissed' = FALSE
  /\ UNCHANGED typed

\* CommitCandidate: the segments up to the focused one, or a suggestion; a
\* suggestion that is gone leaves a pushed undo context and nothing else.
CommitCandidate ==
  /\ context.state \in Composing /\ IsActive
  /\ \/ context.state = "CONVERSION" /\ \E n \in context.segments : CommitSegments(n, FALSE)
     \/ context.state = "COMPOSITION" /\ CommitSegments(Len(context.composer), FALSE)
     \/ /\ context.state = "COMPOSITION" /\ PushUndo(0)
        /\ Respond(context, <<>>, FALSE)
  /\ UNCHANGED <<dismissed, typed>>

CommitFirstSuggestion ==
  /\ context.state = "COMPOSITION" /\ IsActive
  /\ CommitSegments(Len(context.composer), keep)
  /\ UNCHANGED <<dismissed, typed>>

-----------------------------------------------------------------------------
(* Giving up.                                                              *)

\* ConvertCancel, by key or after DeleteCandidateFromHistory: a related
\* conversion closes, any other goes back to the reading.
ConvertCancel ==
  /\ \/ context.state = "CONVERSION" /\ dismissed' \in {FALSE, dismissed}
     \/ /\ context.state = "COMPOSITION" /\ IsActive
        /\ UNCHANGED dismissed
  /\ IF keep THEN Respond(PrecompositionAndCancel(context), <<>>, FALSE)
     ELSE \E c \in Suggest(SetSessionState(context, "COMPOSITION")) :
            Respond(c, <<>>, FALSE)
  /\ KeepUndo /\ UNCHANGED typed

\* TryCancelConvertReverse: reopened text goes back unless it never left.
Restored == IF keep THEN <<>> ELSE context.source

EditCancel ==
  /\ context.state = "COMPOSITION"
  /\ Respond(PrecompositionAndCancel(context), Restored, keep /\ context.source = <<>>)
  /\ IF Restored = <<>> THEN KeepUndo ELSE BypassUndo
  /\ UNCHANGED <<dismissed, typed>>

EditCancelAndIMEOff ==
  /\ context.state # "DIRECT"
  /\ Respond(ConverterReset(SetSessionState(context, "DIRECT")), Restored,
             keep /\ context.source = <<>>)
  /\ dismissed' = (dismissed /\ context.state # "CONVERSION")
  /\ ClearUndoContext /\ UNCHANGED typed

\* Revert, and ResetContext, which differ only in the history they forget.
Revert ==
  /\ context.state \in Composing
  /\ Respond(PrecompositionAndCancel(context), <<>>, FALSE)
  /\ ClearUndoContext /\ UNCHANGED <<dismissed, typed>>

\* RequestUndo and the UNDO command the client answers it with.
Undo ==
  /\ context.state # "DIRECT" /\ undo_contexts # <<>>
  /\ LET top == undo_contexts[Len(undo_contexts)]
         n   == IF top.output <= Len(document) THEN top.output
                ELSE Len(document)
     IN  /\ context' = top.context
         /\ document' = SubSeq(document, 1, Len(document) - n)
  /\ undo_contexts' = SubSeq(undo_contexts, 1, Len(undo_contexts) - 1)
  /\ bypassed' = (bypassed /\ undo_contexts' # <<>>)
  /\ dismissed' = (dismissed /\ context.state # "CONVERSION")
  /\ pending' = 0
  /\ UNCHANGED <<keep, typed>>

-----------------------------------------------------------------------------
(* Switching the input method and its modes.                               *)

\* IMEOff, MakeSureIMEOff, the Left Shift toggle.
IMEOff ==
  /\ context.state # "DIRECT"
  /\ \/ /\ context.state = "PRECOMPOSITION"
        /\ Respond(ConverterReset(SetSessionState(context, "DIRECT")), <<>>, keep)
        /\ ClearUndoContext
     \/ \E o \in CommitOutcomes :
          /\ Respond(SetSessionState(PrecompositionAndCancel(context), "DIRECT"), o.result, FALSE)
          /\ undo_contexts' = IF o.pushed THEN PushUndoContext(<<>>, Len(o.result))
                              ELSE <<>>
          /\ bypassed' = FALSE
  /\ dismissed' = FALSE
  /\ UNCHANGED typed

\* HandleIndirectImeOnOff: a key says the application turned the input method
\* off.  The commit goes to a copy of the command that nobody reads, and the
\* key itself is echoed back.
IndirectIMEOff ==
  /\ context.state \in Composing
  /\ \E o \in CommitOutcomes :
       context' = SetSessionState(PrecompositionAndCancel(context), "DIRECT")
  /\ \/ CanType /\ TypeKey /\ document' = Append(document, Fresh)
     \/ UNCHANGED <<document, typed>>
  /\ keep' = FALSE /\ dismissed' = FALSE /\ pending' = 0
  /\ ClearUndoContext

IMEOn ==
  /\ context.state = "DIRECT"
  /\ Respond(SetSessionState(context, "PRECOMPOSITION"), <<>>, keep)
  /\ ClearUndoContext
  /\ UNCHANGED <<dismissed, typed>>

\* SWITCH_COMPOSITION_MODE: EnsureIMEIsOn keeps the undo contexts.
CompositionMode ==
  /\ context.state = "DIRECT"
  /\ Respond(SetSessionState(context, "PRECOMPOSITION"), <<>>, keep)
  /\ KeepUndo
  /\ UNCHANGED <<dismissed, typed>>

\* SetConfig, SetTable, SetRequest, StopKeyToggling.
Reconfigure ==
  /\ undo_contexts # <<>>
  /\ ClearUndoContext
  /\ Quiet /\ UNCHANGED <<context, keep, dismissed, typed>>

-----------------------------------------------------------------------------
(* Reconversion of text the application owns.                              *)

Selected(n) == SubSeq(document, Len(document) - n + 1, Len(document))
Reopened(n) == [ConverterReset(SetSessionState(context, "PRECOMPOSITION"))
                  EXCEPT !.composer = Selected(n), !.source = Selected(n)]

\* The client deletes the selection when the conversion has started.
ConvertReverse ==
  /\ context.state \notin Composing
  /\ \E n \in 1..Len(document) :
       /\ \E c \in Convert(Reopened(n)) : context' = c
       /\ document' = SubSeq(document, 1, Len(document) - n)
  /\ pending' = 0
  /\ ClearUndoContext
  /\ UNCHANGED <<keep, dismissed, typed>>

\* ConvertRelated and ConvertComponents: the client defers the deletion until
\* a result comes.
ConvertRelated ==
  /\ Related /\ context.state \notin Composing
  /\ \E n \in 1..Len(document), d \in BOOLEAN :
       /\ context' = [Reopened(n) EXCEPT !.state = "CONVERSION",
                        !.converter = "CONVERSION", !.segments = {n},
                        !.drawing = d]
       /\ pending' = n
  /\ keep' = TRUE
  /\ ClearUndoContext
  /\ UNCHANGED <<dismissed, document, typed>>

Next ==
  \/ InsertCharacter \/ InsertDirectInput \/ Backspace
  \/ EchoBackAndClearUndoContext \/ InsertText \/ CommitRawText
  \/ StartConversion \/ Predict \/ Transliterate \/ MoveCandidate
  \/ ResizeSegment \/ ConfirmConversionSelection \/ Commit \/ CommitSegment
  \/ CommitCandidate \/ CommitFirstSuggestion \/ ConvertCancel \/ EditCancel
  \/ EditCancelAndIMEOff \/ Revert \/ Undo \/ IMEOff \/ IndirectIMEOff
  \/ IMEOn \/ CompositionMode \/ Reconfigure \/ ConvertReverse
  \/ ConvertRelated

Spec == Init /\ [][Next]_vars

-----------------------------------------------------------------------------
(* Properties.                                                             *)

\* The variables have their types.
TypeOK == /\ context \in Context
          /\ undo_contexts \in Seq([context : Context, output : Nat,
                               text : Text, done : Nat])
          /\ Len(undo_contexts) <= MaxUndo
          /\ keep \in BOOLEAN /\ dismissed \in BOOLEAN /\ bypassed \in BOOLEAN
          /\ document \in Text /\ pending \in Nat
          /\ typed \in 0..MaxKeys

\* What a context must look like for the converter calls its state allows:
\* nothing is being converted without a reading, the converter runs exactly
\* in CONVERSION or with suggestions, and its segments end with the reading.
Agrees(c) ==
  LET n == Len(c.composer) IN
  /\ c.state \in Composing <=> n > 0
  /\ c.state \notin Composing => c.source = <<>> /\ c.converter = "COMPOSITION"
  /\ c.state = "COMPOSITION" => c.converter \in {"COMPOSITION", "SUGGESTION"}
  /\ c.state = "CONVERSION" => c.converter \in {"PREDICTION", "CONVERSION"}
  /\ c.converter = "COMPOSITION" <=> c.segments = {}
  /\ c.segments # {} => n \in c.segments /\ c.segments \subseteq 1..n

\* Session, composer and converter agree, now and in every context undo can
\* bring back: the converter's calls DCHECK their state, and release builds
\* index the segments without looking.
StatesAgree ==
  /\ Agrees(context)
  /\ \A i \in 1..Len(undo_contexts) :
       Agrees(undo_contexts[i].context) /\ undo_contexts[i].context.state \in Composing

\* The session keeps the promise of the editor: committing moves text to the
\* application without changing what the user sees, undo brings back the
\* exact screen of the commit unless text went past the stack since, and a
\* cancelled reconversion puts back what it took (Commit*, Undo, EditCancel).
Promise == INSTANCE Editor WITH
  Key <- 1..MaxKeys, MaxMarks <- MaxUndo,
  text <- Screen, done <- Len(document), origin <- context.source,
  marks <- [i \in 1..Len(undo_contexts) |->
              [text |-> undo_contexts[i].text, done |-> undo_contexts[i].done]]
KeepsItsPromise == Promise!Spec

\* Ending a related conversion while the deletion of its selection is still
\* deferred leaves the document as it was or replaces exactly the selection
\* by the reading: it is never put in a second time (ConvertCancel,
\* TryCancelConvertReverse and the commits, with the client's deletion).
RelatedEndsCleanly ==
  [][keep /\ pending > 0 /\ typed' = typed
       /\ context.state \in Composing /\ context'.state \notin Composing
     => document' \in {document, SubSeq(document, 1, Len(document) - pending)
                                   \o context.composer}]_vars

\* The selection of a related conversion waits for its deletion until the
\* conversion ends (the comments of keep_app_selection_ and of the client).
DeletionWaitsForCommit ==
  keep /\ context.state = "CONVERSION" => pending = Len(context.source)
=============================================================================
