---------------------------- MODULE BatchRegistry ----------------------------
(***************************************************************************)
(* The batch registry of nordbank_ops.registry: one row per extraction     *)
(* batch, keyed by entity, interval and sequence.  This module holds the   *)
(* row and what each registry function does to it; the modules that drive  *)
(* a registry (the relational run, the feeds) hold the table.              *)
(***************************************************************************)
EXTENDS Integers

CONSTANT NONE   \* SQL null: no bound, no watermark, no report

Unregistered == {"open", "written"}
Statuses == Unregistered \cup {"absent", "registered", "failed"}

(***************************************************************************)
(* One row.  "absent" stands for a batch id no insert has used yet.        *)
(*   contract : the contract version the batch was opened under            *)
(*   from, to : watermark_from and watermark_to of the window it read      *)
(*   landed   : rows_landed, as the extract step reported it               *)
(*   run      : triggering_run_id, the run that last allocated it          *)
(*   reason   : failure_reason                                             *)
(***************************************************************************)
RowType(contracts, runs, reasons) ==
  [status : Statuses, contract : contracts, from : Int \cup {NONE},
   to : Int \cup {NONE}, landed : Nat, run : runs \cup {NONE},
   reason : reasons \cup {NONE}]

AbsentRow(contract) ==
  [status |-> "absent", contract |-> contract, from |-> NONE, to |-> NONE,
   landed |-> 0, run |-> NONE, reason |-> NONE]

(***************************************************************************)
(* choose_sequence, over the rows of one entity and interval: n is the     *)
(* sequence it answers.  It reuses the greatest unregistered sequence the  *)
(* caller may reuse, and otherwise takes the one after the greatest.       *)
(***************************************************************************)
Taken(rows) == {n \in DOMAIN rows : rows[n].status # "absent"}

Reusable(rows, allowed) ==
  {n \in Taken(rows) \cap allowed : rows[n].status \in Unregistered}

IsGreatest(n, S) == n \in S /\ \A m \in S : m <= n

ChosenSequence(rows, allowed, n) ==
  IF Reusable(rows, allowed) # {}
  THEN IsGreatest(n, Reusable(rows, allowed))
  ELSE IF Taken(rows) = {} THEN n = 1
  ELSE IsGreatest(n - 1, Taken(rows))

(***************************************************************************)
(* allocate: a reused row keeps its contract version, and everything the   *)
(* retry is about to write again is reset.                                 *)
(***************************************************************************)
AllocatedRow(row, contract, from, run) ==
  IF row.status = "absent"
  THEN [status |-> "open", contract |-> contract, from |-> from, to |-> NONE,
        landed |-> 0, run |-> run, reason |-> NONE]
  ELSE [row EXCEPT !.status = "open", !.from = from, !.to = NONE,
                   !.landed = 0, !.run = run, !.reason = NONE]

(* mark_written touches only an unregistered row. *)
WrittenRow(row, landed, to) ==
  IF row.status \in Unregistered
  THEN [row EXCEPT !.status = "written", !.landed = landed, !.to = to]
  ELSE row

(* mark_registered refuses every row that is not written. *)
CanRegister(row) == row.status = "written"
RegisteredRow(row) == [row EXCEPT !.status = "registered"]

(* Mutant of FailedRow: it counts no rows at all where it should count none. *)
FailedWithNullCount(row, reason) ==
  IF row.status # "registered"
  THEN [row EXCEPT !.status = "failed", !.landed = NONE, !.reason = reason]
  ELSE row

(* mark_failed leaves a registered row alone; a failed batch lands nothing. *)
FailedRow(row, reason) ==
  IF row.status # "registered"
  THEN [row EXCEPT !.status = "failed", !.landed = 0, !.reason = reason]
  ELSE row

(* advance_watermark: an empty batch observed no maximum and moves nothing; *)
(* any other batch sets the watermark to its own, whatever is held.         *)
AdvancedMark(held, to) == IF to = NONE THEN held ELSE to
=============================================================================
