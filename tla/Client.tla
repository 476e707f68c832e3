-------------------------------- MODULE Client --------------------------------
(***************************************************************************)
(* client::Client composed with the converter server: every application    *)
(* sends keys through EnsureCallCommand, which restarts the server, makes  *)
(* a new session and plays back the keys of the composition when the first *)
(* trial finds no server or no session.                                    *)
(*                                                                         *)
(* An application numbers the characters it types, so that one lost,       *)
(* repeated or moved shows.  A character the input method does not take    *)
(* goes into the document as it is.                                        *)
(***************************************************************************)
EXTENDS SessionHandler

CONSTANTS MaxPlayBackSize,  \* kMaxPlayBackSize
          MaxFaults,        \* bound: crashes, calls that fail, launches that fail
          MaxLocks          \* bound: syncs that lock the converter

ASSUME ClientAssumption == /\ MaxPlayBackSize \in Nat \ {0}
                           /\ MaxFaults \in Nat /\ MaxLocks \in Nat

VARIABLES server_status,   \* server_status_
          session_id,      \* id_, 0 if there is none
          history_inputs,  \* history_inputs_
          pc,              \* where EnsureCallCommand is
          input,           \* its input
          played,          \* inputs played back so far
          document,        \* the application's text
          typed,           \* characters typed
          lost,            \* history: what was composed is given up, see GiveUp
          partial,         \* history: a result left characters to be composed
          cut,             \* history: a playback was cut short
          faults, locks

client_vars == <<server_status, session_id, history_inputs, pc, input, played,
                 document, typed, lost, partial, cut>>
vars == <<server_vars, client_vars, faults, locks>>

Status == {"UNKNOWN", "SHUTDOWN", "INVALID_SESSION", "OK", "TIMEOUT", "FATAL"}
\* EnsureCallCommand: session is its first EnsureSession, again the second,
\* report the end of one that could not create a session.
PC == {"idle", "session", "first", "again", "playback", "second", "report"}
Key == Character \cup {Convert, Enter, Submit}

Init == /\ ServerInit
        /\ server_status = [c \in App |-> "UNKNOWN"]
        /\ session_id = [c \in App |-> 0]
        /\ history_inputs = [c \in App |-> <<>>]
        /\ pc = [c \in App |-> "idle"]
        /\ input = [c \in App |-> Enter]
        /\ played = [c \in App |-> 0]
        /\ document = [c \in App |-> <<>>]
        /\ typed = [c \in App |-> 0]
        /\ lost = [c \in App |-> FALSE]
        /\ partial = [c \in App |-> FALSE] /\ cut = [c \in App |-> FALSE]
        /\ faults = 0 /\ locks = 0

-----------------------------------------------------------------------------
(* What a client knows of the composition, and what it gives up.           *)

Overfull(c) == Len(history_inputs[c]) >= MaxPlayBackSize
PlaybackOf(c) == IF Overfull(c) THEN <<>> ELSE history_inputs[c]

\* The session that playing the inputs back builds, after each of them and in
\* the end.
Replaying(h) ==
  LET R[n \in 0..Len(h)] == IF n = 0 THEN NewSession(Other) ELSE After(R[n - 1], h[n]) IN R
Replayed(h) == Replaying(h)[Len(h)]

\* A client that met a time-out never calls again.
GaveUp(c) == server_status[c] \in {"TIMEOUT", "FATAL"}

Composition(c) == IF GaveUp(c) THEN <<>>
                  ELSE IF Reachable(session_id[c]) THEN SessionOf(session_id[c]).text
                  ELSE Replayed(PlaybackOf(c)).text

\* Characters typed before the key in hand that are not in the document.
Open(c) == \/ input[c] \in Character /\ Len(document[c]) < typed[c] - 1
           \/ input[c] \notin Character /\ Len(document[c]) < typed[c]

\* The code gives a composition up when a key fails twice, when no server can
\* be launched or a call times out, when the playback is too long or refused
\* by the sync lock, and when EnsureSession already knew that the session was
\* void (it plays nothing back).
GiveUp(c) == lost' = [lost EXCEPT ![c] = @ \/ Open(c)]

CutShort(c) == /\ lost' = [lost EXCEPT ![c] = TRUE]
               /\ cut' = [cut EXCEPT ![c] = TRUE]

-----------------------------------------------------------------------------
(* The parts of EnsureCallCommand.                                         *)

\* The key comes back to the application, which inserts a character itself.
Echo(c) == document' = [document EXCEPT ![c] = IF input[c] \in Character
                                               THEN Append(@, input[c]) ELSE @]

\* The application shows that a sync is running and drops the key.
Blocked(c) == /\ typed' = [typed EXCEPT ![c] = IF input[c] \in Character THEN @ - 1 ELSE @]
              /\ UNCHANGED document

Return(c) == /\ pc' = [pc EXCEPT ![c] = "idle"]
             /\ input' = [input EXCEPT ![c] = Enter]
             /\ played' = [played EXCEPT ![c] = 0]

\* EnsureCallCommand returns false.
Fail(c, status) ==
  /\ server_status' = [server_status EXCEPT ![c] = status]
  /\ Return(c) /\ Echo(c) /\ GiveUp(c)
  /\ UNCHANGED <<session_id, typed, partial, cut>>

PushHistoryOfKeys(c, s) ==
  history_inputs' =
    [history_inputs EXCEPT ![c] =
       IF ~Consumed(s, input[c]) \/ input[c] = Submit THEN @
       ELSE IF Result(s, input[c]) # <<>> THEN <<>>
       ELSE IF Len(@) < MaxPlayBackSize THEN Append(@, input[c]) ELSE @]

\* A key with a result is a context boundary, even if it left characters to
\* be composed; a command is none.
PushHistory(c, s) ==
  history_inputs' =
    [history_inputs EXCEPT ![c] =
       IF ~Consumed(s, input[c]) THEN @
       ELSE IF input[c] # Submit /\ Result(s, input[c]) # <<>> THEN <<>>
       ELSE IF Len(@) < MaxPlayBackSize THEN Append(@, input[c]) ELSE @]

\* The server took the key: the result and the keys it does not consume reach
\* the application.
Taken(c) ==
  LET s == SessionOf(session_id[c])
      r == Result(s, input[c])
  IN  /\ SendKey(session_id[c], input[c])
      /\ PushHistory(c, s)
      /\ document' = [document EXCEPT ![c] = @ \o r]
      /\ partial' = [partial EXCEPT ![c] =
                       IF After(s, input[c]).text = <<>> THEN FALSE
                       ELSE @ \/ r # <<>>]
      /\ Return(c)
      /\ UNCHANGED <<server_status, session_id, typed, lost, cut>>

\* A call meets no server, or one that dies before or after the command.
CallFails(c) ==
  \/ ~running /\ UNCHANGED <<server_vars, faults>>
  \/ running /\ faults < MaxFaults /\ faults' = faults + 1 /\ Stopped
     /\ UNCHANGED alive

\* A call that times out may be executed all the same; only the server's
\* state is left to say so.
CallTimesOut(effect) ==
  /\ running /\ faults < MaxFaults /\ faults' = faults + 1
  /\ effect \/ UNCHANGED server_vars

LaunchFails == /\ ~running /\ faults < MaxFaults /\ faults' = faults + 1
               /\ UNCHANGED server_vars

\* Ids are random, so a new one is none that anyone still holds.
Used == Ids \cup {session_id[d] : d \in App}
NewID == FreeID(Used)

-----------------------------------------------------------------------------
(* EnsureCallCommand.                                                      *)

HasNoSession(c) == FALSE
HasSession(c) == server_status[c] = "OK"

\* The application sends a key.  EnsureSession does nothing with SERVER_OK
\* and refuses when the client once met a time-out.
Press(c) ==
  /\ c \in alive /\ pc[c] = "idle"
  /\ \E k \in Key :
       /\ k \in Character => k = typed[c] + 1
       /\ typed' = [typed EXCEPT ![c] = IF k \in Character THEN k ELSE @]
       /\ IF GaveUp(c)
          THEN /\ server_status' = [server_status EXCEPT ![c] = "FATAL"]
               /\ document' = [document EXCEPT ![c] =
                                 IF k \in Character THEN Append(@, k) ELSE @]
               /\ lost' = [lost EXCEPT ![c] = @ \/ Len(document[c]) < typed[c]]
               /\ UNCHANGED <<pc, input>>
          ELSE /\ input' = [input EXCEPT ![c] = k]
               /\ pc' = [pc EXCEPT ![c] = IF HasSession(c) THEN "first" ELSE "session"]
               /\ UNCHANGED <<server_status, document, lost>>
  /\ UNCHANGED <<server_vars, session_id, history_inputs, played, partial, cut, faults, locks>>

\* EnsureConnection: a client that knows of no server finds or launches one.
StartServer(c) ==
  /\ pc[c] \in {"session", "again"}
  /\ server_status[c] \in {"UNKNOWN", "SHUTDOWN"}
  /\ \/ /\ Launch
        /\ server_status' = [server_status EXCEPT ![c] = "INVALID_SESSION"]
        /\ UNCHANGED <<session_id, history_inputs, pc, input, played, document,
                       typed, lost, partial, cut, faults, locks>>
     \/ /\ LaunchFails /\ Fail(c, "FATAL")
        /\ UNCHANGED <<history_inputs, locks>>

\* CreateSession.  Only the session made after a first trial is followed by a
\* playback.
CreateSessionCall(c) ==
  /\ pc[c] \in {"session", "again"} /\ server_status[c] \in {"OK", "INVALID_SESSION"}
  /\ \/ /\ running
        /\ CreateSession(NewID, c)
        /\ session_id' = [session_id EXCEPT ![c] = NewID]
        /\ server_status' = [server_status EXCEPT ![c] = "OK"]
        /\ IF pc[c] = "session"
           THEN /\ pc' = [pc EXCEPT ![c] = "first"]
                /\ GiveUp(c) /\ UNCHANGED history_inputs
           ELSE LET h == PlaybackOf(c)
                IN  /\ pc' = [pc EXCEPT ![c] = IF h = <<>> THEN "second" ELSE "playback"]
                    /\ history_inputs' = [history_inputs EXCEPT ![c] = h]
                    /\ IF partial[c] \/ h # history_inputs[c] THEN GiveUp(c)
                       ELSE UNCHANGED lost
        /\ UNCHANGED <<input, played, document, typed, partial, cut, faults>>
     \/ /\ \/ /\ CallFails(c)
              /\ server_status' = [server_status EXCEPT ![c] = "SHUTDOWN"]
           \/ /\ CallTimesOut(CreateSession(NewID, c))
              /\ server_status' = [server_status EXCEPT ![c] = "TIMEOUT"]
        /\ session_id' = [session_id EXCEPT ![c] = 0]
        /\ pc' = [pc EXCEPT ![c] = "report"]
        /\ UNCHANGED <<history_inputs, input, played, document, typed, lost, partial, cut>>
  /\ UNCHANGED locks

\* EnsureSession connects once more, which launches a server for the next key.
Report(c) ==
  /\ pc[c] = "report"
  /\ \/ server_status[c] = "SHUTDOWN" /\ Launch /\ Fail(c, "INVALID_SESSION")
        /\ UNCHANGED faults
     \/ /\ server_status[c] = "SHUTDOWN"
        /\ LaunchFails /\ Fail(c, "FATAL")
     \/ server_status[c] = "TIMEOUT" /\ Fail(c, "FATAL") /\ UNCHANGED <<server_vars, faults>>
  /\ UNCHANGED <<history_inputs, locks>>

\* The first trial.
CallFirst(c) ==
  /\ pc[c] = "first"
  /\ \/ /\ running /\ Accepts(session_id[c])
        /\ Taken(c) /\ UNCHANGED faults
     \/ /\ \/ running /\ ~Accepts(session_id[c])
              /\ server_status' = [server_status EXCEPT ![c] = "INVALID_SESSION"]
              /\ UNCHANGED <<server_vars, faults>>
           \/ /\ CallFails(c)
              /\ server_status' = [server_status EXCEPT ![c] = "SHUTDOWN"]
        /\ pc' = [pc EXCEPT ![c] = "again"]
        /\ UNCHANGED <<session_id, history_inputs, input, played, document,
                       typed, lost, partial, cut>>
     \/ /\ CallTimesOut(SendKey(session_id[c], input[c]))
        /\ Fail(c, "TIMEOUT") /\ UNCHANGED history_inputs
  /\ UNCHANGED locks

\* PlaybackHistory ignores what the server answers.
PlayBack(c) ==
  /\ pc[c] = "playback"
  /\ LET n == played[c] + 1
         k == history_inputs[c][n]
     IN  \/ /\ running
            /\ SendKey(session_id[c], k)
            /\ played' = [played EXCEPT ![c] = n]
            /\ pc' = [pc EXCEPT ![c] = IF n = Len(history_inputs[c]) THEN "second" ELSE @]
            /\ IF Accepts(session_id[c]) THEN UNCHANGED <<lost, cut>> ELSE CutShort(c)
            /\ UNCHANGED <<server_status, faults>>
         \/ /\ \/ CallFails(c) /\ server_status' = [server_status EXCEPT ![c] = "SHUTDOWN"]
               \/ /\ CallTimesOut(SendKey(session_id[c], k))
                  /\ server_status' = [server_status EXCEPT ![c] = "TIMEOUT"]
            /\ pc' = [pc EXCEPT ![c] = "second"]
            /\ CutShort(c) /\ UNCHANGED played
  /\ UNCHANGED <<session_id, history_inputs, input, document, typed, partial, locks>>

\* The second trial.  Its failure looks like a query of death and clears the
\* history; a reply is taken as it is, also without the id.
CallSecond(c) ==
  /\ pc[c] = "second"
  /\ \/ /\ running /\ Accepts(session_id[c]) /\ server_status[c] # "TIMEOUT"
        /\ Taken(c) /\ UNCHANGED faults
     \/ /\ running /\ ~Accepts(session_id[c]) /\ server_status[c] # "TIMEOUT"
        /\ Return(c) /\ GiveUp(c)
        /\ IF sync_locked THEN Blocked(c) ELSE Echo(c) /\ UNCHANGED typed
        /\ UNCHANGED <<server_vars, server_status, session_id, history_inputs,
                       partial, cut, faults>>
     \/ /\ \/ server_status[c] = "TIMEOUT" /\ UNCHANGED <<server_vars, faults>>
              /\ Fail(c, "TIMEOUT")
           \/ server_status[c] # "TIMEOUT" /\ CallFails(c) /\ Fail(c, "SHUTDOWN")
           \/ /\ server_status[c] # "TIMEOUT"
              /\ CallTimesOut(SendKey(session_id[c], input[c]))
              /\ Fail(c, "TIMEOUT")
        /\ history_inputs' = [history_inputs EXCEPT ![c] = <<>>]
  /\ UNCHANGED locks

\* Any other command (GetConfig, Reload, ...) calls without EnsureSession.
CallCommand(c) ==
  /\ c \in alive /\ pc[c] = "idle"
  /\ ~running /\ server_status[c] \in {"OK", "INVALID_SESSION"}
  /\ server_status' = [server_status EXCEPT ![c] = "SHUTDOWN"]
  /\ UNCHANGED <<server_vars, session_id, history_inputs, pc, input, played,
                 document, typed, lost, partial, cut, faults, locks>>

\* The application ends, with the destructor's DeleteSession or without.
AppEnds(c) ==
  /\ c \in alive /\ pc[c] = "idle"
  /\ alive' = alive \ {c}
  /\ \/ running /\ DeleteSessionIDs({session_id[c]} \cap Ids)
     \/ UNCHANGED map_vars
  /\ server_status' = [server_status EXCEPT ![c] = "UNKNOWN"]
  /\ session_id' = [session_id EXCEPT ![c] = 0]
  /\ history_inputs' = [history_inputs EXCEPT ![c] = <<>>]
  /\ document' = [document EXCEPT ![c] = <<>>]
  /\ typed' = [typed EXCEPT ![c] = 0]
  /\ lost' = [lost EXCEPT ![c] = FALSE] /\ partial' = [partial EXCEPT ![c] = FALSE]
  /\ cut' = [cut EXCEPT ![c] = FALSE]
  /\ UNCHANGED <<running, sync_locked, pc, input, played, faults, locks>>

ClientStep(c) == \/ StartServer(c) \/ CreateSessionCall(c) \/ Report(c)
                 \/ CallFirst(c) \/ PlayBack(c) \/ CallSecond(c)

\* A client in a call has just used its session.
WatchDog == /\ Cleanup({c \in App : pc[c] # "idle"})
            /\ UNCHANGED <<client_vars, faults, locks>>

Environment ==
  \/ OtherApplication(Used) /\ UNCHANGED <<client_vars, faults, locks>>
  \/ WatchDog
  \/ locks < MaxLocks /\ BeginSyncLock /\ locks' = locks + 1
     /\ UNCHANGED <<client_vars, faults>>
  \/ EndSyncLock /\ UNCHANGED <<client_vars, faults, locks>>
  \/ faults < MaxFaults /\ Crash /\ faults' = faults + 1
     /\ UNCHANGED <<client_vars, locks>>

Next == \/ \E c \in App : Press(c) \/ ClientStep(c) \/ CallCommand(c) \/ AppEnds(c)
        \/ Environment

Spec == Init /\ [][Next]_vars

-----------------------------------------------------------------------------
(* Properties.                                                             *)

SessionRecord == [app : App \cup {Other}, text : Seq(Character), converting : BOOLEAN]

\* The variables have their types; the list of sessions keeps its limit.
TypeOK ==
  /\ running \in BOOLEAN /\ sync_locked \in BOOLEAN
  /\ Ids \subseteq SessionID /\ Cardinality(Ids) <= MaxSessions
  /\ session_map \in [Ids -> SessionRecord] /\ lru \in [Ids -> 1..MaxSessions]
  /\ alive \subseteq App
  /\ server_status \in [App -> Status]
  /\ session_id \in [App -> SessionID \cup {0}]
  /\ history_inputs \in [App -> Seq(Key)] /\ pc \in [App -> PC]
  /\ input \in [App -> Key] /\ played \in [App -> Nat]
  /\ document \in [App -> Seq(Character)] /\ typed \in [App -> 0..MaxKeys]
  /\ lost \in [App -> BOOLEAN] /\ partial \in [App -> BOOLEAN]
  /\ cut \in [App -> BOOLEAN]
  /\ faults \in 0..MaxFaults /\ locks \in 0..MaxLocks

Count(n) == [i \in 1..n |-> i]

\* Unless the code gave a composition up, what an application typed is in its
\* document and in its composition, complete, in order and once, whichever
\* server and session have come and gone (PlaybackHistory, PushHistory).
ExactlyOnce ==
  \A c \in alive : pc[c] = "idle" /\ ~lost[c] =>
    \/ document[c] \o Composition(c) = Count(typed[c])
    \/ ~Reachable(session_id[c]) /\ (partial[c] \/ Overfull(c))

\* After a crash the journal restores the composition, also one that a key
\* began while it committed the conversion before it (PushHistory).
SurvivesCrash ==
  \A c \in alive : pc[c] = "idle" /\ ~lost[c] =>
    document[c] \o Composition(c) = Count(typed[c])

\* Even when a composition was given up no character reaches a
\* document twice, or the document and the composition, although the second
\* trial and the playback repeat inputs.  A playback cut short is the exception:
\* it leaves the composition of a commit it did not reach.
NothingTwice ==
  \A c \in alive : pc[c] = "idle" /\ ~cut[c] =>
    IsInjective(document[c] \o Composition(c))

\* Before the first sync lock the server has one session for an application
\* at most: the sessions that EnsureCallCommand replaces are gone, so that
\* eviction never takes a session in use while there are enough places.
OneSessionEach ==
  locks = 0 => \A i, j \in Ids :
                 session_map[i].app = session_map[j].app /\ session_map[i].app \in App => i = j
===============================================================================
