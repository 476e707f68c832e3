---------------------------- MODULE UserDictionary ----------------------------
(***************************************************************************)
(* The reload of the user dictionary (dictionary/user_dictionary.cc): the  *)
(* converter's main thread looks at the modification time of the file and  *)
(* asks a background thread to load it; the two agree through two atomics, *)
(* modified_at_ and reload_state_.                                         *)
(*                                                                         *)
(* A dictionary belongs to the modules of an engine: one is in use, one    *)
(* more may have been built and wait to be used (Engine).  The file is     *)
(* replaced by renaming: a thread that opened it reads one version.        *)
(***************************************************************************)
EXTENDS Naturals

CONSTANTS MaxVersion,  \* bound: versions of the file
          MaxFail,     \* bound: loads that fail
          Big          \* versions of kVeryBigUserDictionarySize words or more

ASSUME UserDictionaryAssumption ==
         MaxVersion \in Nat \ {0} /\ MaxFail \in Nat /\ Big \subseteq 1..MaxVersion

VARIABLES version,   \* of the file: its modification time stands for it
          dict,      \* the dictionary in use and the one built
          main,      \* where the main thread is
          waits,     \* does it wait for the reload?
          stat,      \* the modification time it read
          promised,  \* history: the version it last waited for
          fails

main_vars == <<main, waits, stat, promised>>
dictionary_vars == <<version, dict, main_vars, fails>>

Dictionary == {"used", "built"}

\* tokens is the version loaded, opened the one being read; failed: the last
\* load failed.
NoDictionary == [tokens |-> 0, modified_at |-> 0, reload_state |-> "idle", thread |-> "none",
                 opened |-> 0, failed |-> FALSE]

\* The constructor starts the first reload.
Constructed == [NoDictionary EXCEPT !.modified_at = version, !.reload_state = "pending",
                                    !.thread = "start"]

InitDictionary ==
  /\ version = 1
  /\ dict = [d \in Dictionary |-> IF d = "used" THEN Constructed ELSE NoDictionary]
  /\ main = "idle" /\ waits = FALSE /\ stat = 0 /\ promised = 0
  /\ fails = 0

\* Another process renames a new version into place.
SaveFile ==
  /\ version < MaxVersion /\ version' = version + 1
  /\ UNCHANGED <<dict, main_vars, fails>>

-----------------------------------------------------------------------------
(* The main thread.                                                        *)

\* Reload, or ReloadAndWait.
Reload(wait) ==
  /\ main' = "request" /\ waits' = wait
  /\ stat' = version
  /\ UNCHANGED promised

\* Reload is over, and with it what the main thread knew.
Return == main' = "idle" /\ waits' = FALSE /\ stat' = 0

Reloaded == IF waits THEN main' = "wait" /\ UNCHANGED <<waits, stat>> ELSE Return

\* A request that finds the thread running leaves it to the thread.
Request ==
  /\ main = "request"
  /\ IF dict["used"].modified_at = stat THEN Reloaded /\ UNCHANGED dict
     ELSE /\ dict' = [dict EXCEPT !["used"].modified_at = stat,
                                  !["used"].reload_state = "pending"]
          /\ IF dict["used"].reload_state = "idle"
             THEN main' = "schedule" /\ UNCHANGED <<waits, stat>>
             ELSE Reloaded
  /\ UNCHANGED <<version, promised, fails>>

\* Schedule waits for the end of the thread before.
Schedule ==
  /\ main = "schedule" /\ dict["used"].thread = "none"
  /\ dict' = [dict EXCEPT !["used"].thread = "start"]
  /\ Reloaded
  /\ UNCHANGED <<version, promised, fails>>

WaitForReloader ==
  /\ main = "wait" /\ dict["used"].thread = "none"
  /\ Return /\ promised' = stat
  /\ UNCHANGED <<version, dict, fails>>

-----------------------------------------------------------------------------
(* ReloadThreadMain.                                                       *)

At(d, pc) == dict[d].thread = pc
ThreadOnly == UNCHANGED <<version, main_vars>>

StartPending(d) ==
  /\ At(d, "start")
  /\ dict' = [dict EXCEPT ![d].thread = "open"]
  /\ ThreadOnly /\ UNCHANGED fails

Start(d) ==
  /\ At(d, "start")
  /\ dict' = [dict EXCEPT ![d].reload_state = "running", ![d].thread = "open"]
  /\ ThreadOnly /\ UNCHANGED fails

Fail(d) ==
  /\ fails < MaxFail /\ fails' = fails + 1
  /\ dict' = [dict EXCEPT ![d].failed = TRUE, ![d].opened = 0, ![d].thread = "finish"]
  /\ ThreadOnly

OpenFails(d) == At(d, "open") /\ Fail(d)

\* Very big tokens make room for the new ones.
Open(d) ==
  /\ At(d, "open")
  /\ dict' = [dict EXCEPT ![d].opened = version, ![d].thread = "load",
                          ![d].tokens = IF @ \in Big THEN 0 ELSE @]
  /\ ThreadOnly /\ UNCHANGED fails

Load(d) ==
  /\ At(d, "load")
  /\ dict' = [dict EXCEPT ![d].tokens = dict[d].opened, ![d].opened = 0,
                          ![d].failed = FALSE, ![d].thread = "finish"]
  /\ ThreadOnly /\ UNCHANGED fails

LoadFails(d) == At(d, "load") /\ Fail(d)

FinishAnyway(d) ==
  /\ At(d, "finish")
  /\ dict' = [dict EXCEPT ![d].reload_state = "idle", ![d].thread = "exit"]
  /\ ThreadOnly /\ UNCHANGED fails

\* Again, if somebody asked in the meantime.
Finish(d) ==
  /\ At(d, "finish")
  /\ IF dict[d].reload_state = "running"
     THEN dict' = [dict EXCEPT ![d].reload_state = "idle", ![d].thread = "exit"]
     ELSE dict' = [dict EXCEPT ![d].thread = "start"]
  /\ ThreadOnly /\ UNCHANGED fails

Exit(d) ==
  /\ At(d, "exit")
  /\ dict' = [dict EXCEPT ![d].thread = "none"]
  /\ ThreadOnly /\ UNCHANGED fails

ReloadThread(d) == \/ Start(d) \/ OpenFails(d) \/ Open(d) \/ Load(d) \/ LoadFails(d)
                   \/ Finish(d) \/ Exit(d)
MainThread == Request \/ Schedule \/ WaitForReloader

-----------------------------------------------------------------------------
(* Properties.                                                             *)

DictionaryTypeOK ==
  /\ version \in 1..MaxVersion
  /\ dict \in [Dictionary ->
       [tokens : 0..MaxVersion, modified_at : 0..MaxVersion,
        reload_state : {"idle", "running", "pending"},
        thread : {"none", "start", "open", "load", "finish", "exit"},
        opened : 0..MaxVersion, failed : BOOLEAN]]
  /\ main \in {"idle", "request", "schedule", "wait"} /\ waits \in BOOLEAN
  /\ stat \in 0..MaxVersion /\ promised \in 0..MaxVersion
  /\ fails \in 0..MaxFail

Knows(d, v) == dict[d].tokens >= v \/ dict[d].failed

\* No request to reload is lost between the two threads: a dictionary whose
\* thread has ended knows the version of its modification time or a later one,
\* unless the last load failed (Reload, ReloadThreadMain).
NoReloadLost ==
  \A d \in Dictionary :
    At(d, "none") /\ ~(d = "used" /\ main = "schedule") => Knows(d, dict[d].modified_at)

\* What ReloadAndWait waited for stays known, through later reloads and the
\* replacement of the engine, except while very big tokens make room.
PromiseKept ==
  main = "idle" => Knows("used", promised) \/ (Big # {} /\ At("used", "load"))
===============================================================================
