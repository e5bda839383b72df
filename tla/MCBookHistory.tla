---------------------------- MODULE MCBookHistory ----------------------------
(* Instances of BookHistory small enough for TLC. *)
EXTENDS BookHistory

(* One unit in three of interest a month. *)
OneThird == <<1, 3>>

(* The settings are such that the checks can hold. *)
ASSUME ChecksAssumption == CardsComeInTime /\ EarlyWithinAMonth /\ InterestAddsUp
=============================================================================
