--------------------------- MODULE MCSyncHistory ---------------------------
(***************************************************************************)
(* The model of SyncHistory: two devices that share what the first of them  *)
(* has synced before; the second has synced with it or is new.             *)
(***************************************************************************)
EXTENDS SyncHistory

CONSTANT d1

MCInit == Init /\ entry[d1].at > 0
MCSpec == MCInit /\ [][Next]_vars /\ Fairness

=============================================================================
