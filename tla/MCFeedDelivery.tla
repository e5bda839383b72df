--------------------------- MODULE MCFeedDelivery ---------------------------
(* Two scenarios of FeedDelivery small enough for TLC, chosen between at the *)
(* start.  In one the first day's run is alone: both files are sent, under   *)
(* any name, and tasks die after their commit.  In the other a second day's  *)
(* run overlaps it: one file is sent, and the contract changes on that day.  *)
EXTENDS FeedDelivery, TLC

CONSTANTS a, b, x   \* contents, and what they declare

AllDayOne == [k \in Keys |-> 1]
DatedDayOne == [k \in Contents |-> 1]
AllDeclareX == [k \in Contents |-> x]
SecondIsNew == [k \in Contents |-> IF k = b THEN 2 ELSE 1]
Anything == Keys \X Contents

VARIABLE alone   \* which of the two scenarios this behaviour is

DiedLate == registry' # registry /\ phase' = phase

(* What a step may do in each. *)
OnlyOne == phase'[2] = "none" /\ inForce' # 2
BothDays == inbox'[1] # b /\ inbox'[2] = NONE /\ inForce' # 1 /\ ~ DiedLate

MCInit == Init /\ alone \in BOOLEAN
MCNext == Next /\ UNCHANGED alone /\ IF alone THEN OnlyOne ELSE BothDays
MCSpec == MCInit /\ [][MCNext]_<<vars, alone>>
=============================================================================
