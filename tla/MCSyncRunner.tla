---------------------------- MODULE MCSyncRunner ----------------------------
(* Small instances of SyncRunner; the phrases are alike.                       *)
EXTENDS SyncRunner, TLC
MCSymmetry == Permutations(Phrase)
=============================================================================
