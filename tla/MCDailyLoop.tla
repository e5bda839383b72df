----------------------------- MODULE MCDailyLoop -----------------------------
(* Instances of DailyLoop small enough for TLC. *)
EXTENDS DailyLoop, TLC

(* The history starts on the day before the anchor, a day without           *)
(* publication; the day before that has one, and so have all but the third. *)
FirstDay == 0
Publications == {-1, 1, 2}
=============================================================================
