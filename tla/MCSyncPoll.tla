----------------------------- MODULE MCSyncPoll -----------------------------
(***************************************************************************)
(* SyncPoll for TLC, from a state where everything is selected but the     *)
(* dictionary of one device: the one change of settings may select it.     *)
(***************************************************************************)
EXTENDS SyncPoll

CONSTANT d1

MCPollInit ==
  /\ PollInit
  /\ conf = [d \in Device |-> IF d = d1 THEN Setting \ {"sync_dictionary"} ELSE Setting]

MCPollSpec == MCPollInit /\ [][PollNext]_poll_vars /\ PollFairness
=============================================================================
