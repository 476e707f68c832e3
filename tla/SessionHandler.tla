---------------------------- MODULE SessionHandler ----------------------------
(***************************************************************************)
(* SessionHandler, the converter server: the sessions of all applications  *)
(* in an LRU list, the keys they take, the sync lock, the clean-up of the  *)
(* watch dog and the end of the process.  EvalCommand runs one command at  *)
(* a time, so each command is a step.  FLAGS_timeout is 0, as it is        *)
(* without --restricted: the server does not stop by itself.               *)
(*                                                                         *)
(* A session is reduced to what a lost or repeated key would change: the   *)
(* characters being composed and whether they are being converted.  The    *)
(* LRU list of sessions is the place of each in it.                        *)
(***************************************************************************)
EXTENDS Naturals, Sequences, FiniteSets, SequencesExt

CONSTANTS App,           \* the applications whose clients are modelled
          Other,         \* all further applications
          MaxSessions,   \* FLAGS_max_session_size
          MaxKeys        \* bound: characters an application types

ASSUME SessionHandlerAssumption ==
         /\ IsFiniteSet(App) /\ Other \notin App
         /\ MaxSessions \in Nat \ {0} /\ MaxKeys \in Nat

VARIABLES running,      \* the process is there and is_available_
          session_map,  \* session_map_, id |-> session
          lru,          \* id |-> its place in the map's list, the oldest first
          sync_locked,  \* sync_locked_
          alive         \* the applications that still run

map_vars == <<session_map, lru>>
server_vars == <<running, map_vars, sync_locked, alive>>

\* More ids than sessions and clients can hold at a time.
SessionID == 1..(MaxSessions + Cardinality(App) + 1)

NewSession(app) == [app |-> app, text |-> <<>>, converting |-> FALSE]

\* An application numbers the characters it types.  The keys that are not
\* characters: conversion, Enter, and the command of a click on a candidate.
Character == 1..MaxKeys
Convert == MaxKeys + 1
Enter == MaxKeys + 2
Submit == MaxKeys + 3

\* Session::SendKey and SendCommand: what a session becomes and what the
\* client reads in the output.  A character commits a conversion first.
Consumed(s, k) == k \in Character \/ s.text # <<>>
Result(s, k) == IF k \in {Enter, Submit} \/ (k \in Character /\ s.converting)
                THEN s.text ELSE <<>>
After(s, k) ==
  [s EXCEPT !.text = CASE k \in Character -> IF s.converting THEN <<k>> ELSE Append(@, k)
                       [] k = Convert      -> @
                       [] OTHER            -> <<>>,
            !.converting = k = Convert /\ s.text # <<>>]

Ids == DOMAIN session_map
Reachable(id) == running /\ id \in Ids
SessionOf(id) == session_map[id]

\* The places of the sessions ids in their list.
Places(ids, at) == [i \in ids |-> Cardinality({j \in ids : at[j] <= at[i]})]
Newest(id, ids) == Places(ids, [i \in ids |-> IF i = id THEN MaxSessions + 1 ELSE lru[i]])
Oldest == CHOOSE i \in Ids : \A j \in Ids : lru[i] <= lru[j]

NoSessions == [i \in {} |-> NewSession(Other)]

ServerInit == /\ running = FALSE /\ session_map = NoSessions /\ lru = [i \in {} |-> 0]
              /\ sync_locked = FALSE /\ alive = App

-----------------------------------------------------------------------------
(* Commands of a client.                                                   *)

\* Whether the reply carries the id of the request.
Accepts(id) == id \in Ids /\ ~sync_locked

\* A lookup moves the session to the head of the list.
SendKey(id, k) ==
  /\ IF Accepts(id)
     THEN /\ session_map' = [session_map EXCEPT ![id] = After(@, k)]
          /\ lru' = Newest(id, Ids)
     ELSE UNCHANGED map_vars
  /\ UNCHANGED <<running, sync_locked, alive>>

\* A full list loses its oldest session first.
CreateSession(id, app) ==
  LET kept == IF Cardinality(Ids) >= MaxSessions THEN Ids \ {Oldest} ELSE Ids
      ids == kept \cup {id}
  IN  /\ session_map' = [i \in ids |-> IF i = id THEN NewSession(app) ELSE session_map[i]]
      /\ lru' = Newest(id, ids)
      /\ UNCHANGED <<running, sync_locked, alive>>

DeleteSessionIDs(ids) ==
  /\ session_map' = [i \in Ids \ ids |-> session_map[i]]
  /\ lru' = Places(Ids \ ids, lru)

Stopped == /\ running' = FALSE /\ session_map' = NoSessions /\ lru' = [i \in {} |-> 0]
           /\ sync_locked' = FALSE

\* StartServer finds a server or launches one.
Launch == /\ running' = TRUE
          /\ UNCHANGED <<map_vars, sync_locked, alive>>

-----------------------------------------------------------------------------
(* Everybody else.                                                         *)

FreeID(used) == CHOOSE id \in SessionID \ used : \A j \in SessionID \ used : id <= j

\* Another application's client launches a server or makes a session.
OtherApplication(used) ==
  \/ ~running /\ Launch
  \/ running /\ CreateSession(FreeID(used), Other)

\* Every set of sessions may be past its time-out that nobody is using.
PastTimeout(busy) == SUBSET {i \in Ids : session_map[i].app \notin busy}
DeadApplications == {i \in Ids : session_map[i].app \notin alive \cup {Other}}

\* The watch dog's command: sessions of dead applications and sessions past
\* their time-out go.
Cleanup(busy) ==
  /\ running
  /\ \E removed \in PastTimeout(busy) : DeleteSessionIDs(removed \cup DeadApplications)
  /\ UNCHANGED <<running, sync_locked, alive>>

\* A sync process locks and unlocks the converter.
BeginSyncLock == /\ running /\ ~sync_locked
                 /\ sync_locked' = TRUE
                 /\ UNCHANGED <<running, map_vars, alive>>

EndSyncLock == /\ running /\ sync_locked
               /\ sync_locked' = FALSE
               /\ UNCHANGED <<running, map_vars, alive>>

Crash == running /\ Stopped /\ UNCHANGED alive
=============================================================================
