-------------------------- MODULE MCSanctionsList --------------------------
(* Instances of SanctionsList small enough for TLC. *)
EXTENDS SanctionsList

SeededTwice == <<0, 1>>
=============================================================================
