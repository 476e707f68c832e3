-------------------------------- MODULE Engine --------------------------------
(***************************************************************************)
(* The replacement of the engine's data while the converter runs: requests *)
(* and their loader thread (engine/data_loader.cc), the modules that it    *)
(* hands over (engine/engine.cc), the moment at which the session handler  *)
(* lets them be used, and the user dictionary that comes with them.        *)
(***************************************************************************)
EXTENDS UserDictionary, Sequences, SequencesExt

CONSTANTS DataRequest,      \* requests, each its own id
          Priority,      \* request |-> its priority, smaller is better
          HighPriority,  \* kHighPriority
          NoData         \* the data the converter was built with

ASSUME EngineAssumption == Priority \in [DataRequest -> Nat] /\ NoData \notin DataRequest

VARIABLES requests,            \* requests_ in the order of their sequence ids, each once
          unregistered,
          current_request_id,
          high_registered,     \* high_priority_data_registered_
          loader,              \* where the loader thread is
          picked,              \* the request of this turn of its loop
          loader_response,     \* whose modules are ready
          data,                \* whose modules are in use
          sessions,            \* is there a session?
          lost                 \* history: a request came while the thread ended

loader_vars == <<requests, unregistered, current_request_id, high_registered,
                 loader, picked, loader_response, data, sessions, lost>>
vars == <<dictionary_vars, loader_vars>>

Init ==
  /\ InitDictionary
  /\ requests = <<>> /\ unregistered = {} /\ current_request_id = NoData
  /\ high_registered = FALSE /\ loader = "none" /\ picked = NoData
  /\ loader_response = NoData /\ data = NoData
  /\ sessions = FALSE /\ lost = FALSE

LatestFirst(s) == Last(s)

\* requests_.front() after sorting: best priority, then latest.
Best(s) ==
  s[CHOOSE i \in DOMAIN s : \A j \in DOMAIN s :
      Priority[s[i]] < Priority[s[j]] \/ (Priority[s[i]] = Priority[s[j]] /\ j <= i)]

-----------------------------------------------------------------------------
(* Commands, on the main thread.                                           *)

Idle == main = "idle"

\* A request that is there already becomes the latest.
Added(r) == Append(RemoveFirst(requests, r), r)

\* A request that is news starts the thread, unless it runs: then the thread
\* is to find it, which it does not when it has left its loop already.
SendEngineReloadRequest(r) ==
  LET starts == Best(Added(r)) # current_request_id
  IN  /\ Idle /\ r # current_request_id /\ r \notin unregistered
      /\ requests' = Added(r)
      /\ high_registered' = (high_registered \/ (starts /\ Priority[r] <= HighPriority))
      /\ loader' = IF starts /\ loader = "none" THEN "get" ELSE loader
      /\ lost' = IF loader = "none" THEN lost /\ ~starts ELSE lost \/ (starts /\ loader = "exit")
      /\ UNCHANGED <<unregistered, current_request_id, picked, loader_response, data, sessions>>
      /\ UNCHANGED dictionary_vars

\* Reload and ReloadAndWait of the session handler.
ReloadCommand == /\ Idle /\ \E wait \in BOOLEAN : Reload(wait)
                 /\ UNCHANGED <<version, dict, fails, loader_vars>>

MayUse == ~sessions /\ loader = "none" /\ loader_response # NoData

\* Modules that are ready are used when no session holds the old ones.  Their
\* user dictionary was loaded when they were built: it is reloaded.
ReloadModulesOnly ==
  /\ data' = loader_response /\ loader_response' = NoData
  /\ dict' = [dict EXCEPT !["used"] = dict["built"], !["built"] = NoDictionary]
  /\ UNCHANGED main_vars

ReloadModules ==
  /\ data' = loader_response /\ loader_response' = NoData
  /\ dict' = [dict EXCEPT !["used"] = dict["built"], !["built"] = NoDictionary]
  /\ Reload(TRUE)

CreateSession ==
  /\ Idle /\ sessions' = TRUE
  /\ IF MayUse THEN ReloadModules ELSE UNCHANGED <<data, loader_response, dict, main_vars>>
  /\ UNCHANGED <<version, fails, requests, unregistered, current_request_id,
                 high_registered, loader, picked, lost>>

DeleteSession ==
  /\ Idle /\ sessions /\ sessions' = FALSE
  /\ UNCHANGED <<dictionary_vars, requests, unregistered, current_request_id, high_registered,
                 loader, picked, loader_response, data, lost>>

-----------------------------------------------------------------------------
(* StartReloadLoop.                                                        *)

LoaderOnly == UNCHANGED <<version, main_vars, fails, data, sessions>>

GetPendingRequestData ==
  /\ loader = "get"
  /\ IF requests = <<>> \/ Best(requests) = current_request_id
     THEN loader' = "exit" /\ picked' = NoData
     ELSE /\ picked' = Best(requests)
          /\ loader' = IF high_registered THEN "build" ELSE "wait"
  /\ LoaderOnly
  /\ UNCHANGED <<dict, requests, unregistered, current_request_id, high_registered,
                 loader_response, lost>>

\* A request of high priority ends the wait, or the time-out does.
WaitForHighPriority ==
  /\ loader = "wait"
  /\ \/ high_registered /\ loader' = "get" /\ picked' = NoData
     \/ loader' = "build" /\ UNCHANGED picked
  /\ LoaderOnly
  /\ UNCHANGED <<dict, requests, unregistered, current_request_id, high_registered,
                 loader_response, lost>>

\* The modules, with a user dictionary of their own, replace those that were
\* ready before.
BuildResponse ==
  /\ loader = "build" /\ loader' = "report"
  /\ loader_response' = picked
  /\ dict' = [dict EXCEPT !["built"] = Constructed]
  /\ LoaderOnly
  /\ UNCHANGED <<requests, unregistered, current_request_id, high_registered, picked, lost>>

FailureForgotten ==
  /\ loader = "build" /\ loader' = "get" /\ picked' = NoData
  /\ LoaderOnly
  /\ UNCHANGED <<dict, requests, unregistered, current_request_id, high_registered,
                 loader_response, lost>>

\* Data that cannot be built is refused from then on.
ReportLoadFailure ==
  /\ loader = "build" /\ loader' = "get" /\ picked' = NoData
  /\ requests' = RemoveFirst(requests, picked)
  /\ unregistered' = unregistered \cup {picked}
  /\ LoaderOnly
  /\ UNCHANGED <<dict, current_request_id, high_registered, loader_response, lost>>

LeavesTheLoop ==
  /\ loader = "report" /\ loader' = "exit" /\ picked' = NoData
  /\ current_request_id' = picked
  /\ LoaderOnly
  /\ UNCHANGED <<dict, requests, unregistered, high_registered, loader_response, lost>>

ReportLoadSuccess ==
  /\ loader = "report" /\ loader' = "get" /\ picked' = NoData
  /\ current_request_id' = picked
  /\ LoaderOnly
  /\ UNCHANGED <<dict, requests, unregistered, high_registered, loader_response, lost>>

LoaderExit ==
  /\ loader = "exit" /\ loader' = "none"
  /\ LoaderOnly
  /\ UNCHANGED <<dict, requests, unregistered, current_request_id, high_registered, picked,
                 loader_response, lost>>

Loader == \/ GetPendingRequestData \/ WaitForHighPriority \/ BuildResponse
          \/ ReportLoadFailure \/ ReportLoadSuccess \/ LoaderExit

Background == \/ MainThread \/ \E d \in Dictionary : ReloadThread(d)

Next == \/ Loader
        \/ (Background \/ SaveFile) /\ UNCHANGED loader_vars
        \/ \E r \in DataRequest : SendEngineReloadRequest(r)
        \/ ReloadCommand \/ CreateSession \/ DeleteSession

\* Threads run.
Fairness == /\ WF_loader_vars(Loader) /\ WF_dictionary_vars(MainThread)
            /\ \A d \in Dictionary : WF_dictionary_vars(ReloadThread(d))

Spec == Init /\ [][Next]_vars /\ Fairness

-----------------------------------------------------------------------------
(* Properties.                                                             *)

TypeOK ==
  /\ DictionaryTypeOK
  /\ ToSet(requests) \subseteq DataRequest /\ IsInjective(requests)
  /\ unregistered \subseteq DataRequest /\ current_request_id \in DataRequest \cup {NoData}
  /\ high_registered \in BOOLEAN
  /\ loader \in {"none", "get", "wait", "build", "report", "exit"}
  /\ {picked, loader_response, data} \subseteq DataRequest \cup {NoData}
  /\ sessions \in BOOLEAN /\ lost \in BOOLEAN

Satisfied == requests = <<>> \/ Best(requests) = current_request_id

\* When the loader thread is not there, the best request is loaded, or a
\* request came as the thread ended; and what was loaded is in use or ready.
BestIsLoaded ==
  loader = "none" =>
    /\ Satisfied \/ lost
    /\ current_request_id = IF loader_response = NoData THEN data ELSE loader_response

\* The data in use never gives way to data of lower priority.
NeverDowngrades ==
  [][data' # data /\ data # NoData => Priority[data'] <= Priority[data]]_vars

\* The converter comes back from every Reload and ReloadAndWait, and from
\* creating a session.
MainReturns == main # "idle" ~> main = "idle"

\* The best request comes to be loaded or refused, unless it came as the
\* thread ended.  (With requests of one priority that replace each other
\* without end, this would hold of each request only.)
RequestsServed == ~Satisfied ~> Satisfied \/ lost
===============================================================================
