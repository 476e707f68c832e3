------------------------------- MODULE Editor -------------------------------
(***************************************************************************)
(* What the input method promises the user, without sessions, composers or *)
(* converters: the text on the screen, the part of it that already belongs *)
(* to the application, the text a reconversion reopened, and the earlier   *)
(* pictures that undo can return to.                                       *)
(*                                                                         *)
(* text      the characters on the screen, the unfinished reading included *)
(* done      how many of them the application owns                         *)
(* origin    the text that was reopened for reconversion                   *)
(* marks     the pictures [text, done] to which undo returns, newest last  *)
(* bypassed  text reached the application past the marks, which therefore  *)
(*           no longer describe it                                         *)
(***************************************************************************)
EXTENDS Naturals, Sequences

CONSTANTS Key,         \* what the user can type
          MaxMarks     \* how many pictures are remembered

VARIABLES text, done, origin, marks, bypassed

vars == <<text, done, origin, marks, bypassed>>

Init == /\ text = <<>> /\ done = 0 /\ origin = <<>>
        /\ marks = <<>> /\ bypassed = FALSE

Owned == SubSeq(text, 1, done)
Picture == [text |-> text, done |-> done]
WithMark(s) == LET t == Append(s, Picture)
               IN  IF Len(t) > MaxMarks THEN Tail(t) ELSE t

Forget == marks' = <<>> /\ bypassed' = FALSE
Keep   == UNCHANGED <<marks, bypassed>>
\* Remember the picture, on top of the others or after forgetting them.
Remember == \/ marks' = WithMark(marks) /\ UNCHANGED bypassed
            \/ marks' = <<Picture>> /\ bypassed' = FALSE
\* The pictures stay but, if there are any, no longer describe the text.
Bypass == bypassed' = (bypassed \/ marks # <<>>) /\ UNCHANGED marks

\* Text grows at its end; what was unfinished stays so, is all accepted, or
\* is accepted together with the new character.
Type == \E k \in Key :
          /\ text' = Append(text, k)
          /\ \/ done' = done /\ UNCHANGED origin
             \/ done' \in {Len(text), Len(text) + 1} /\ origin' = <<>>
          /\ Forget

Erase == /\ done < Len(text)
         /\ text' = SubSeq(text, 1, Len(text) - 1)
         /\ origin' = IF Len(text') = done THEN <<>> ELSE origin
         /\ UNCHANGED done /\ Forget

\* Accepting changes the owner of the text and nothing the user sees.
Accept == \E n \in (done + 1)..Len(text) :
             /\ done' = n
             /\ origin' = IF n = Len(text) THEN <<>> ELSE origin
             /\ Remember
             /\ UNCHANGED text

\* The reading goes and the reopened text comes back.
Cancel == /\ text' = Owned \o origin
          /\ done' = Len(text') /\ origin' = <<>>
          /\ \/ Forget
             \/ IF origin = <<>> THEN Keep ELSE Bypass

\* The reading goes with nothing in its place.  A command chosen from the
\* candidates does this and can be undone.
Drop == /\ done < Len(text)
        /\ text' = Owned /\ origin' = <<>>
        /\ UNCHANGED done /\ (Forget \/ Remember)

\* A command chosen from the candidates while another character comes in.
DropAndType == \E k \in Key :
                 /\ text' = Append(Owned, k) /\ origin' = <<>>
                 /\ done' \in {done, done + 1}
                 /\ Forget

Undo == /\ marks # <<>>
        /\ ~bypassed => LET m == marks[Len(marks)]
                        IN  text' = m.text /\ done' = m.done
        /\ marks' = SubSeq(marks, 1, Len(marks) - 1)
        /\ bypassed' = (bypassed /\ marks' # <<>>)

\* The application's own editing, which the input method does not see.
Application == /\ done = Len(text)
               /\ \/ \E k \in Key : text' = Append(text, k)
                  \/ text # <<>> /\ text' = SubSeq(text, 1, Len(text) - 1)
               /\ done' = Len(text') /\ Forget /\ UNCHANGED origin

\* Text inserted past the reading, which goes.
Insert == \E k \in Key :
            /\ text' = Append(Owned, k)
            /\ done' = Len(text') /\ origin' = <<>>
            /\ Bypass

\* The reading accepted as it was typed, past the marks.
AcceptRaw == /\ done < Len(text)
             /\ done' = Len(text) /\ origin' = <<>>
             /\ UNCHANGED text /\ Bypass

Reopen == /\ done = Len(text)
          /\ done' \in 0..(done - 1)
          /\ origin' = SubSeq(text, done' + 1, done)
          /\ UNCHANGED text /\ Forget

ForgetMarks == Forget /\ UNCHANGED <<text, done, origin>>

\* A picture remembered although nothing was accepted.
RememberOnly == Remember /\ UNCHANGED <<text, done, origin>>

Next == \/ Type \/ Erase \/ Accept \/ Cancel \/ Drop \/ DropAndType \/ Undo
        \/ Application \/ Insert \/ AcceptRaw \/ Reopen \/ ForgetMarks
        \/ RememberOnly

Spec == Init /\ [][Next]_vars
=============================================================================
