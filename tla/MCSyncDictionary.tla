-------------------------- MODULE MCSyncDictionary --------------------------
(* Small instances of SyncDictionary: two devices, ordered 1 < 2, a plain word and *)
(* the same with a locale.                                                         *)
EXTENDS SyncDictionary

CONSTANTS plain, other

MCDevice == {1, 2}
MCWord == {plain, other}

\* Only a word that the importer takes as it is.
MCPlain == {plain}
MCSame == [w \in MCPlain |-> w]

\* other is plain with a locale, which the importer drops.
MCLocale == [w \in MCWord |-> plain]

=============================================================================
