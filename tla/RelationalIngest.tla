-------------------------- MODULE RelationalIngest --------------------------
(***************************************************************************)
(* The relational ingestion DAG over one source schema: open allocates a   *)
(* batch per entity, one extract task per entity reads the source and      *)
(* writes the lake, register commits everything that reported in one       *)
(* warehouse transaction, and the gate fails the run on any failed batch.  *)
(* Runs of different intervals interleave, tasks die before and after      *)
(* their effects and are retried, runs are cleared and run again, and the  *)
(* source commits under them, with stamps as old as CommitDelay.           *)
(***************************************************************************)
EXTENDS BatchRegistry, FiniteSets

CONSTANTS
  Entities,      \* the contracted tables of the source schema
  Days,          \* the logical dates runs exist for
  Keys,          \* primary keys a table can hold
  Purgeable,     \* the entities whose rows the source may physically delete
  Drifting,      \* the entities whose shape may change under the contract
  Identified,    \* the entities whose contract has an identifier column
  Lag,           \* EXTRACT_LAG, the overlap of two windows
  CommitDelay,   \* how far below the newest visible stamp a commit can land
  MaxStamp,      \* bound: the last instant of the source's clock
  MaxSequence,   \* bound: sequences of one entity and interval
  LateDeaths,    \* the tasks that may die after their commit, before they succeed
  QuietSource    \* TRUE: the source commits only while no run is under way

ASSUME ConstantsAssumption ==
  /\ Days \subseteq Nat
  /\ IsFiniteSet(Keys)
  /\ Purgeable \subseteq Entities
  /\ Drifting \subseteq Entities /\ Identified \subseteq Entities
  /\ Lag \in Nat /\ CommitDelay \in Nat /\ MaxStamp \in Nat
  /\ MaxSequence \in Nat \ {0}
  /\ LateDeaths \subseteq {"open", "register"}
  /\ QuietSource \in BOOLEAN

VARIABLES
  source,     \* [entity][key]: the row's updated_at, 0 before it exists, -1 once purged
  newest,     \* [entity]: the newest stamp the source has committed
  shape,      \* [entity]: the contract version the live table matches
  inForce,    \* [entity]: in_force_from of contract version 2, NONE until published
  registry,   \* ops.batch_registry, by batch id <<entity, day, sequence>>
  watermark,  \* ops.extract_watermark, by entity
  lake,       \* the rows of the bronze object under each batch id, {} with no object
  vault,      \* meta.pii_vault: the row versions of each entity it resolves
  phase,      \* [day]: where the run of that day stands
  allocated,  \* [day]: the XCom of open_batches, NONE when the task pushed none
  queued,     \* [day]: the entities whose mapped extract has not ended
  report,     \* [day][entity]: the XCom of the entity's extract task
  summary     \* [day]: the entities register reported failed, NONE without one

warehouse == <<registry, watermark, vault>>
sourceVars == <<source, newest, shape, inForce>>
runVars == <<phase, allocated, queued, report, summary>>
vars == <<source, newest, shape, inForce, registry, watermark, lake, vault,
          phase, allocated, queued, report, summary>>

Sequences == 1 .. MaxSequence
BatchIds == Entities \X Days \X Sequences
Stamps == 1 .. MaxStamp
Versions == Keys \X Stamps     \* a row as one commit left it
Contracts == 1 .. 2
Reasons == {"breaking drift", "did not report"}
Running == {"open", "extract", "gate"}
Ended == {"success", "failed"}

(* What the extract task hands to register. *)
Reports == [batch : BatchIds, ok : BOOLEAN, from : Int \cup {NONE},
            to : Stamps \cup {NONE}, landed : Nat]

(* SQL null is none of the values it stands beside. *)
ASSUME NoneAssumption ==
  /\ NONE \notin Int /\ NONE \notin Reports
  /\ \A S \in SUBSET BatchIds : S # NONE
  /\ \A S \in SUBSET Entities : S # NONE
  /\ \A S \in SUBSET Versions : S # NONE
-----------------------------------------------------------------------------
(***************************************************************************)
(* The source.                                                             *)
(***************************************************************************)
Present(e, k) == source[e][k] > 0

RowsFrom(e, from) ==
  {<<k, source[e][k]>> : k \in {x \in Keys :
      Present(e, x) /\ (from = NONE \/ source[e][x] >= from)}}

(* Mutant of RowsWithin: it leaves the maximum of the window out. *)
RowsBelow(e, from, to) == {v \in RowsFrom(e, from) : v[2] < to}

RowsWithin(e, from, to) == {v \in RowsFrom(e, from) : v[2] <= to}

Quiet == QuietSource => \A d \in Days : phase[d] \notin Running

(* A transaction that wrote row k with stamp s becomes visible.  It may have *)
(* started before others that committed first, by at most CommitDelay.       *)
Commit(e, k, s) ==
  /\ Quiet
  /\ source[e][k] >= 0 /\ s > source[e][k]
  /\ s >= newest[e] - CommitDelay
  /\ source' = [source EXCEPT ![e][k] = s]
  /\ newest' = [newest EXCEPT ![e] = IF s > @ THEN s ELSE @]
  /\ UNCHANGED <<shape, inForce, warehouse, lake, runVars>>

(* The one physical delete the source makes: a duplicate nothing refers to. *)
Purge(e, k) ==
  /\ Quiet
  /\ e \in Purgeable /\ Present(e, k)
  /\ source' = [source EXCEPT ![e][k] = -1]
  /\ UNCHANGED <<newest, shape, inForce, warehouse, lake, runVars>>

(* A scripted breaking change of the live table, ahead of its contract. *)
Drift(e) ==
  /\ Quiet
  /\ e \in Drifting /\ shape[e] = 1
  /\ shape' = [shape EXCEPT ![e] = 2]
  /\ UNCHANGED <<source, newest, inForce, warehouse, lake, runVars>>

(* A person publishes contract version 2, in force from day d. *)
Bump(e, d) ==
  /\ e \in Drifting /\ inForce[e] = NONE
  /\ inForce' = [inForce EXCEPT ![e] = d]
  /\ UNCHANGED <<source, newest, shape, warehouse, lake, runVars>>
-----------------------------------------------------------------------------
(***************************************************************************)
(* open_batches.                                                           *)
(***************************************************************************)
SequencesOf(e, d) == [n \in Sequences |-> registry[<<e, d, n>>]]

HasRegistered(e, d) == \E n \in Sequences : registry[<<e, d, n>>].status = "registered"

(* contracts.select: the latest version in force on the interval's day. *)
ContractFor(e, d) == IF inForce[e] # NONE /\ inForce[e] <= d THEN 2 ELSE 1

(* Mutant of WindowStart: windows that do not overlap. *)
WindowStartWithoutLag(e) == watermark[e]

WindowStart(e) == IF watermark[e] = NONE THEN NONE ELSE watermark[e] - Lag

Trigger(d) ==
  /\ phase[d] = "none"
  /\ phase' = [phase EXCEPT ![d] = "open"]
  /\ UNCHANGED <<sourceVars, warehouse, lake, allocated, queued, report, summary>>

(* Clearing a run runs every task again.  The XCom of an extract the new try *)
(* does not expand to stays behind.                                          *)
Clear(d) ==
  /\ phase[d] \in Ended
  /\ phase' = [phase EXCEPT ![d] = "open"]
  /\ UNCHANGED <<sourceVars, warehouse, lake, allocated, queued, report, summary>>

(* Mutant of Pending: a resumed interval allocates every entity again. *)
PendingEvenRegistered(d) == Entities

Pending(d) == {e \in Entities : ~ HasRegistered(e, d)}

(* The open transaction, choosing sequence pick[e] for every entity that has *)
(* no registered batch of the interval.  The task is acknowledged, or dies   *)
(* after the commit and is retried.                                          *)
OpenTransaction(d, pick) ==
  registry' = [b \in BatchIds |->
    IF b[1] \in Pending(d) /\ b = <<b[1], d, pick[b[1]]>>
    THEN AllocatedRow(registry[b], ContractFor(b[1], d), WindowStart(b[1]), d)
    ELSE registry[b]]

OpenBatches(d) ==
  /\ phase[d] = "open"
  /\ \E pick \in [Pending(d) -> Sequences] :
       /\ \A e \in Pending(d) : ChosenSequence(SequencesOf(e, d), Sequences, pick[e])
       /\ OpenTransaction(d, pick)
       /\ \/ /\ phase' = [phase EXCEPT ![d] = "extract"]
             /\ allocated' = [allocated EXCEPT ![d] = {<<e, d, pick[e]>> : e \in Pending(d)}]
             /\ queued' = [queued EXCEPT ![d] = Pending(d)]
          \/ "open" \in LateDeaths /\ UNCHANGED <<phase, allocated, queued>>
  /\ UNCHANGED <<sourceVars, watermark, vault, lake, report, summary>>

(* Every try of open failed: extract is upstream_failed, register still runs. *)
OpenGivesUp(d) ==
  /\ phase[d] = "open"
  /\ phase' = [phase EXCEPT ![d] = "extract"]
  /\ UNCHANGED <<sourceVars, warehouse, lake, allocated, queued, report, summary>>
-----------------------------------------------------------------------------
(***************************************************************************)
(* extract, one mapped task per allocated batch.                           *)
(***************************************************************************)
(* The highest stamp read, which an empty window does not have. *)
Observed(rows, to) ==
  IF rows = {} THEN to = NONE
  ELSE (\E v \in rows : v[2] = to) /\ \A v \in rows : v[2] <= to

EndExtract(d, e, r) ==
  /\ report' = [report EXCEPT ![d][e] = r]
  /\ queued' = [queued EXCEPT ![d] = @ \ {e}]

(* A shape the batch's contract cannot accept: reported as failed, nothing  *)
(* written, and the task fails without a retry.                             *)
ExtractBreaking(d, e) ==
  \E b \in allocated[d] :
    /\ b[1] = e /\ registry[b].contract # shape[e]
    /\ EndExtract(d, e, [batch |-> b, ok |-> FALSE, from |-> NONE,
                         to |-> NONE, landed |-> 0])
    /\ UNCHANGED lake

(* Mutant of PutObject: a retry appends to the object it finds. *)
PutAppended(b, rows) == [lake EXCEPT ![b] = @ \cup rows]

(* An empty batch writes no object; any other overwrites the one under its id. *)
PutObject(b, rows) == IF rows = {} THEN lake ELSE [lake EXCEPT ![b] = rows]

(* Reads the window, which has no upper bound, and puts the object unless it *)
(* is empty.  A task that dies before it reports is retried.                 *)
ExtractWindow(d, e) ==
  \E b \in allocated[d], to \in Stamps \cup {NONE} :
    LET rows == RowsFrom(e, registry[b].from) IN
    /\ b[1] = e /\ registry[b].contract = shape[e]
    /\ Observed(rows, to)
    /\ lake' = PutObject(b, rows)
    /\ \/ EndExtract(d, e, [batch |-> b, ok |-> TRUE, from |-> registry[b].from,
                            to |-> to, landed |-> Cardinality(rows)])
       \/ /\ report' = [report EXCEPT ![d][e] = NONE]
          /\ UNCHANGED queued

Extract(d, e) ==
  /\ phase[d] = "extract" /\ e \in queued[d]
  /\ ExtractBreaking(d, e) \/ ExtractWindow(d, e)
  /\ UNCHANGED <<sourceVars, warehouse, phase, allocated, summary>>

ExtractGivesUp(d, e) ==
  /\ phase[d] = "extract" /\ e \in queued[d]
  /\ EndExtract(d, e, NONE)
  /\ UNCHANGED <<sourceVars, warehouse, lake, phase, allocated, summary>>
-----------------------------------------------------------------------------
(***************************************************************************)
(* register, on all_done, and the gate.                                    *)
(***************************************************************************)
(* The entities with a report for a batch this try of the run allocated. *)
Reported(d) ==
  {e \in Entities : /\ report[d][e] # NONE
                    /\ allocated[d] # NONE
                    /\ report[d][e].batch \in allocated[d]}

Wrote(d) == {e \in Reported(d) : report[d][e].ok}

(* Every unregistered batch of the interval whose entity did not report. *)
Silent(d) ==
  {b \in BatchIds : /\ b[2] = d /\ b[1] \notin Reported(d)
                    /\ registry[b].status \in Unregistered}

FailedEntities(d) == (Reported(d) \ Wrote(d)) \cup {b[1] : b \in Silent(d)}

WrittenBatch(d, e) ==
  WrittenRow(registry[report[d][e].batch], report[d][e].landed, report[d][e].to)

(* mark_registered raises and the whole transaction rolls back. *)
Refused(d) == \E e \in Wrote(d) : ~ CanRegister(WrittenBatch(d, e))

(* Mutant of RegisteredAt: every batch of a silent entity is failed, whatever *)
(* its status.                                                                *)
RegisteredAtAnyStatus(d, b) ==
  LET e == b[1] IN
  CASE b[2] = d /\ e \notin Reported(d) /\ registry[b].status # "absent" ->
         [registry[b] EXCEPT !.status = "failed", !.landed = 0]
    [] e \in Reported(d) /\ b = report[d][e].batch ->
         IF report[d][e].ok THEN RegisteredRow(WrittenBatch(d, e))
         ELSE FailedRow(registry[b], "breaking drift")
    [] OTHER -> registry[b]

RegisteredAt(d, b) ==
  LET e == b[1] IN
  CASE b \in Silent(d) -> FailedRow(registry[b], "did not report")
    [] e \in Reported(d) /\ b = report[d][e].batch ->
         IF report[d][e].ok THEN RegisteredRow(WrittenBatch(d, e))
         ELSE FailedRow(registry[b], "breaking drift")
    [] OTHER -> registry[b]

(* The vault re-reads the source between the bounds of the batch's window. *)
Vaulted(d, e) ==
  IF e \in Identified \cap Wrote(d) /\ report[d][e].to # NONE
  THEN vault[e] \cup RowsWithin(e, report[d][e].from, report[d][e].to)
  ELSE vault[e]

(* Mutant of RegisterTransaction: the watermark follows every report left    *)
(* behind, also one for a batch this run did not allocate.                   *)
RegisterTransactionUnfiltered(d) ==
  /\ registry' = [b \in BatchIds |-> RegisteredAt(d, b)]
  /\ watermark' = [e \in Entities |->
       IF report[d][e] # NONE THEN AdvancedMark(watermark[e], report[d][e].to)
       ELSE watermark[e]]
  /\ vault' = [e \in Entities |-> Vaulted(d, e)]

RegisterTransaction(d) ==
  /\ registry' = [b \in BatchIds |-> RegisteredAt(d, b)]
  /\ watermark' = [e \in Entities |->
       IF e \in Wrote(d) THEN AdvancedMark(watermark[e], report[d][e].to)
       ELSE watermark[e]]
  /\ vault' = [e \in Entities |-> Vaulted(d, e)]

(* Mutant of ReadyToRegister: the trigger rule all_success. *)
ReadyWhenAllReported(d) ==
  phase[d] = "extract" /\ queued[d] = {} /\ \A e \in Entities : report[d][e] # NONE

ReadyToRegister(d) == phase[d] = "extract" /\ queued[d] = {}

Register(d) ==
  /\ ReadyToRegister(d)
  /\ ~ Refused(d)
  /\ RegisterTransaction(d)
  /\ \/ /\ phase' = [phase EXCEPT ![d] = "gate"]
        /\ summary' = [summary EXCEPT ![d] = FailedEntities(d)]
     \/ "register" \in LateDeaths /\ UNCHANGED <<phase, summary>>
  /\ UNCHANGED <<sourceVars, lake, allocated, queued, report>>

(* Every try of register raised or died. *)
RegisterGivesUp(d) ==
  /\ ReadyToRegister(d)
  /\ phase' = [phase EXCEPT ![d] = "gate"]
  /\ UNCHANGED <<sourceVars, warehouse, lake, allocated, queued, report, summary>>

(* Mutant of GatePasses: a run without an allocation had nothing to fail. *)
GatePassesUnallocated(d) == summary[d] = {} \/ allocated[d] = NONE

GatePasses(d) == allocated[d] # NONE /\ summary[d] = {}

(* Nothing reads the XComs of open and register again before the next try   *)
(* starts those tasks and drops them, so the run ends without them.          *)
Gate(d) ==
  /\ phase[d] = "gate"
  /\ phase' = [phase EXCEPT ![d] = IF GatePasses(d) THEN "success" ELSE "failed"]
  /\ allocated' = [allocated EXCEPT ![d] = NONE]
  /\ summary' = [summary EXCEPT ![d] = NONE]
  /\ UNCHANGED <<sourceVars, warehouse, lake, queued, report>>
-----------------------------------------------------------------------------
Init ==
  /\ source = [e \in Entities |-> [k \in Keys |-> 0]]
  /\ newest = [e \in Entities |-> 0]
  /\ shape = [e \in Entities |-> 1]
  /\ inForce = [e \in Entities |-> NONE]
  /\ registry = [b \in BatchIds |-> AbsentRow(1)]
  /\ watermark = [e \in Entities |-> NONE]
  /\ lake = [b \in BatchIds |-> {}]
  /\ vault = [e \in Entities |-> {}]
  /\ phase = [d \in Days |-> "none"]
  /\ allocated = [d \in Days |-> NONE]
  /\ queued = [d \in Days |-> {}]
  /\ report = [d \in Days |-> [e \in Entities |-> NONE]]
  /\ summary = [d \in Days |-> NONE]

SourceStep ==
  \E e \in Entities :
    \/ \E k \in Keys : Purge(e, k) \/ \E s \in Stamps : Commit(e, k, s)
    \/ Drift(e)
    \/ \E d \in Days : Bump(e, d)

RunStep(d) ==
  \/ OpenBatches(d) \/ OpenGivesUp(d)
  \/ \E e \in Entities : Extract(d, e) \/ ExtractGivesUp(d, e)
  \/ Register(d) \/ RegisterGivesUp(d)
  \/ Gate(d)

Next ==
  \/ SourceStep
  \/ \E d \in Days : Trigger(d) \/ Clear(d) \/ RunStep(d)

Spec == Init /\ [][Next]_vars

(* The scheduler runs every task it can, and no task is retried for ever. *)
Fairness ==
  \A d \in Days :
    /\ WF_vars(OpenGivesUp(d)) /\ WF_vars(RegisterGivesUp(d)) /\ WF_vars(Gate(d))
    /\ \A e \in Entities : WF_vars(ExtractGivesUp(d, e))

FairSpec == Spec /\ Fairness
-----------------------------------------------------------------------------
(***************************************************************************)
(* Properties.                                                             *)
(***************************************************************************)
TypeOK ==
  /\ source \in [Entities -> [Keys -> -1 .. MaxStamp]]
  /\ newest \in [Entities -> 0 .. MaxStamp]
  /\ shape \in [Entities -> Contracts]
  /\ inForce \in [Entities -> Days \cup {NONE}]
  /\ registry \in [BatchIds -> RowType(Contracts, Days, Reasons)]
  /\ watermark \in [Entities -> Stamps \cup {NONE}]
  /\ lake \in [BatchIds -> SUBSET Versions]
  /\ vault \in [Entities -> SUBSET Versions]
  /\ phase \in [Days -> {"none"} \cup Running \cup Ended]
  /\ allocated \in [Days -> {NONE} \cup SUBSET BatchIds]
  /\ queued \in [Days -> SUBSET Entities]
  /\ report \in [Days -> [Entities -> {NONE} \cup Reports]]
  /\ summary \in [Days -> {NONE} \cup SUBSET Entities]

Registered(b) == registry[b].status = "registered"

(* The row versions readable downstream: bronze filters on the registry. *)
Landed(e) ==
  UNION {lake[b] : b \in {x \in BatchIds : x[1] = e /\ Registered(x)}}

(* No committed row is lost for good: either a registered batch holds the    *)
(* version the source has now, or the next window still reaches it.  Rests   *)
(* on the overlap of read_window, on a failed batch leaving the watermark    *)
(* alone, and on no commit arriving later than the overlap.                  *)
NoRowIsLost ==
  \A e \in Entities, k \in Keys :
    Present(e, k) =>
      \/ <<k, source[e][k]>> \in Landed(e)
      \/ watermark[e] = NONE
      \/ source[e][k] >= watermark[e] - Lag

(* A registered partition is final: neither its row nor its object changes   *)
(* again, through retries, cleared runs and runs of other intervals.         *)
RegisteredIsFinal ==
  [][\A b \in BatchIds : Registered(b) => registry'[b] = registry[b] /\ lake'[b] = lake[b]]_vars

(* An interval registers at most one batch per entity, however often its     *)
(* run is retried, cleared or resumed (the skip of open_phase).              *)
OneBatchPerInterval ==
  \A b, c \in BatchIds :
    Registered(b) /\ Registered(c) /\ b[1] = c[1] /\ b[2] = c[2] => b = c

(* A watermark was observed by a registered batch of its entity: it is never *)
(* ahead of what bronze holds.                                               *)
WatermarkWasRegistered ==
  \A e \in Entities :
    watermark[e] # NONE =>
      \E b \in BatchIds : b[1] = e /\ Registered(b) /\ registry[b].to = watermark[e]

(* Register is one transaction: when it refuses a batch as already           *)
(* registered, an earlier try of the same run committed, and every batch of  *)
(* the run is already in its final status.                                   *)
RefusalMeansCommitted ==
  \A d \in Days :
    ReadyToRegister(d) /\ Refused(d) =>
      \A b \in allocated[d] : registry[b].status \in {"registered", "failed"}

(* A run that succeeded left every entity of its interval registered: the    *)
(* gate fails a run with a failed batch, and one whose open or register      *)
(* step never finished.                                                      *)
SuccessMeansRegistered ==
  \A d \in Days : phase[d] = "success" => \A e \in Entities : HasRegistered(e, d)

(* The rows a registered batch claims are the rows its object holds, across  *)
(* retries that overwrite the object of an earlier try, or that find the     *)
(* window empty and leave it: for that the newest row of a table must not be *)
(* one that is purged.                                                       *)
ObjectHoldsWhatIsClaimed ==
  \A b \in BatchIds :
    Registered(b) => registry[b].landed = Cardinality(lake[b])

(* The maximum a finished extract reports is the stamp of a row in its       *)
(* object, until register uses the report: no later step takes the object    *)
(* from under it.                                                            *)
ReportDescribesObject ==
  \A d \in Days : \A e \in Wrote(d) \ queued[d] :
    report[d][e].to # NONE =>
      \E v \in lake[report[d][e].batch] : v[2] = report[d][e].to

(* Every identifier in registered bronze resolves in the vault, which        *)
(* register fills by reading the source a second time; again while no purge  *)
(* takes the newest row of a table, and the source is quiet under a run.     *)
VaultResolvesBronze == \A e \in Identified : Landed(e) \subseteq vault[e]

(* A triggered or cleared run ends, whatever dies on the way: register runs  *)
(* on all_done and the gate after it.                                        *)
RunsEnd == \A d \in Days : phase[d] = "open" ~> phase[d] \in Ended
-----------------------------------------------------------------------------
(***************************************************************************)
(* The inductive invariant behind the safety properties, by parts.         *)
(***************************************************************************)
(* A run's allocation is its own, one batch per entity, and lasts one try. *)
AllocationInv ==
  \A d \in Days :
    /\ allocated[d] # NONE => phase[d] \in {"extract", "gate"}
    /\ queued[d] # {} => allocated[d] # NONE /\ phase[d] = "extract"
    /\ allocated[d] # NONE =>
         /\ \A b \in allocated[d] : b[2] = d
         /\ \A b, c \in allocated[d] : b[1] = c[1] => b = c
         /\ \A e \in queued[d] : \E b \in allocated[d] : b[1] = e
    /\ \A e \in Entities :
         report[d][e] # NONE => report[d][e].batch[1] = e /\ report[d][e].batch[2] = d

(* Until register commits every allocated batch is open and its entity has  *)
(* nothing registered for the interval; afterwards every one is final.      *)
AllOpen(d) ==
  \A b \in allocated[d] : registry[b].status = "open" /\ ~ HasRegistered(b[1], d)

AllFinal(d) ==
  queued[d] = {} /\ \A b \in allocated[d] : registry[b].status \in {"registered", "failed"}

CommitInv == \A d \in Days : allocated[d] # NONE => AllOpen(d) \/ AllFinal(d)

(* Every mark and window taken from the source lies behind what it committed. *)
StampInv ==
  /\ \A e \in Entities, k \in Keys : source[e][k] <= newest[e]
  /\ \A e \in Entities : watermark[e] # NONE => watermark[e] <= newest[e]
  /\ \A d \in Days, e \in Entities :
       report[d][e] # NONE /\ report[d][e].to # NONE => report[d][e].to <= newest[e]
  /\ \A b \in BatchIds :
       registry[b].from # NONE => registry[b].from <= newest[b[1]] - Lag

(* Whatever the source holds of e is in `held` or stamped at or after `from`. *)
Covered(e, held, from) ==
  \A k \in Keys :
    Present(e, k) => <<k, source[e][k]>> \in held \/ from = NONE \/ source[e][k] >= from

(* A queued extract will read everything bronze lacks, and a report not yet *)
(* registered can move the watermark to its maximum without losing a row.   *)
WindowInv ==
  \A d \in Days :
    /\ \A e \in queued[d] : \A b \in allocated[d] :
         b[1] = e => Covered(e, Landed(e), registry[b].from)
    /\ \A e \in Wrote(d) \ queued[d] :
         report[d][e].to # NONE =>
           Covered(e, Landed(e) \cup lake[report[d][e].batch], report[d][e].to - Lag)

(* Together: what every step of the system keeps. *)
IngestInv == TypeOK /\ AllocationInv /\ CommitInv /\ OneBatchPerInterval /\ WatermarkWasRegistered

LossInv == StampInv /\ WindowInv /\ NoRowIsLost
-----------------------------------------------------------------------------
(***************************************************************************)
(* The refinement: readers see the objects of registered batches.          *)
(***************************************************************************)
Published ==
  [s \in Entities \X Days |->
    IF HasRegistered(s[1], s[2])
    THEN {v \in Versions : \E n \in Sequences :
            Registered(<<s[1], s[2], n>>) /\ v \in lake[<<s[1], s[2], n>>]}
    ELSE NONE]

Bronze == INSTANCE PublishedBronze WITH published <- Published, mark <- watermark

(* The run, with its retries, crashes and clears, implements the promise. *)
PublishesBronze == Bronze!Spec
=============================================================================
