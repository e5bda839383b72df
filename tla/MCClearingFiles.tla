---------------------------- MODULE MCClearingFiles ----------------------------
(* Instances of ClearingFiles small enough for TLC. *)
EXTENDS ClearingFiles, TLC

(* A large day, a small one, one of more refunds than purchases. *)
ThreeDays == 0 :> <<40>> @@ 1 :> <<9, 4>> @@ 2 :> <<-5>>
FiveToEight == <<500, 800>>
Half == <<5000, 5000>>

(* The totals leave a warning room on both sides. *)
ASSUME WarnAssumption == WarningsStayWarnings
=============================================================================
