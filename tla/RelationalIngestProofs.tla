----------------------- MODULE RelationalIngestProofs -----------------------
(***************************************************************************)
(* Proofs about RelationalIngest, for every value of its constants.        *)
(***************************************************************************)
EXTENDS RelationalIngest, FiniteSetTheorems, TLAPS

-----------------------------------------------------------------------------
(***************************************************************************)
(* Batch ids, rows and windows.                                            *)
(***************************************************************************)
LEMMA BatchParts ==
  \A b \in BatchIds : /\ b[1] \in Entities /\ b[2] \in Days /\ b[3] \in Sequences
                      /\ b = <<b[1], b[2], b[3]>>
  BY DEF BatchIds

Rows == RowType(Contracts, Days, Reasons)

LEMMA AllocatedRowType ==
  ASSUME NEW row \in Rows, NEW c \in Contracts, NEW f \in Int \cup {NONE}, NEW d \in Days
  PROVE  AllocatedRow(row, c, f, d) \in Rows
  BY DEF Rows, RowType, Statuses, Unregistered, AllocatedRow

LEMMA WrittenRowType ==
  ASSUME NEW row \in Rows, NEW n \in Nat, NEW t \in Int \cup {NONE}
  PROVE  WrittenRow(row, n, t) \in Rows
  BY DEF Rows, RowType, Statuses, Unregistered, WrittenRow

LEMMA RegisteredRowType ==
  ASSUME NEW row \in Rows
  PROVE  RegisteredRow(row) \in Rows
  BY DEF Rows, RowType, Statuses, Unregistered, RegisteredRow

LEMMA FailedRowType ==
  ASSUME NEW row \in Rows, NEW r \in Reasons
  PROVE  FailedRow(row, r) \in Rows
  BY DEF Rows, RowType, Statuses, Unregistered, FailedRow

(* What a window reads: row versions, and only finitely many of them. *)
LEMMA RowsFromType ==
  ASSUME TypeOK, NEW e \in Entities, NEW from \in Int \cup {NONE}
  PROVE  /\ RowsFrom(e, from) \subseteq Versions
         /\ Cardinality(RowsFrom(e, from)) \in Nat
<1> DEFINE Read == {x \in Keys : Present(e, x) /\ (from = NONE \/ source[e][x] >= from)}
<1> DEFINE f == [k \in Read |-> <<k, source[e][k]>>]
<1>1. RowsFrom(e, from) \subseteq Versions
  BY DEF TypeOK, RowsFrom, Present, Versions, Stamps
<1>2. IsFiniteSet(Read)
  BY FS_Subset, ConstantsAssumption
<1>3. f \in Surjection(Read, RowsFrom(e, from))
  BY DEF Surjection, RowsFrom
<1>4. IsFiniteSet(RowsFrom(e, from))
  <2> HIDE DEF Read, f
  <2> QED BY <1>2, <1>3, FS_Surjection
<1> QED BY <1>1, <1>4, FS_CardinalityType
-----------------------------------------------------------------------------
(***************************************************************************)
(* Types.                                                                  *)
(***************************************************************************)
LEMMA TypeInit == Init => TypeOK
<1> SUFFICES ASSUME Init PROVE TypeOK
  OBVIOUS
<1>1. registry \in [BatchIds -> RowType(Contracts, Days, Reasons)]
  BY DEF Init, AbsentRow, RowType, Statuses, Unregistered, Contracts
<1>2. source \in [Entities -> [Keys -> -1 .. MaxStamp]]
  BY ConstantsAssumption DEF Init
<1>3. newest \in [Entities -> 0 .. MaxStamp]
  BY ConstantsAssumption DEF Init
<1> QED
  BY <1>1, <1>2, <1>3 DEF Init, TypeOK, Contracts, Running, Ended

LEMMA WindowStartType ==
  ASSUME TypeOK, NEW e \in Entities
  PROVE  WindowStart(e) \in Int \cup {NONE}
  BY ConstantsAssumption DEF TypeOK, WindowStart, Stamps

LEMMA TypeOpenTransaction ==
  ASSUME TypeOK, NEW d \in Days, NEW pick \in [Pending(d) -> Sequences],
         OpenTransaction(d, pick)
  PROVE  registry' \in [BatchIds -> RowType(Contracts, Days, Reasons)]
<1> SUFFICES ASSUME NEW b \in BatchIds
             PROVE  registry'[b] \in Rows
  BY DEF OpenTransaction, Rows
<1>1. registry[b] \in Rows /\ b[1] \in Entities
  BY BatchParts DEF TypeOK, Rows
<1>2. ContractFor(b[1], d) \in Contracts
  BY DEF ContractFor, Contracts
<1>3. AllocatedRow(registry[b], ContractFor(b[1], d), WindowStart(b[1]), d) \in Rows
  BY <1>1, <1>2, WindowStartType, AllocatedRowType
<1> QED
  BY <1>1, <1>3 DEF OpenTransaction

LEMMA TypeRegisterTransaction ==
  ASSUME TypeOK, NEW d \in Days, RegisterTransaction(d)
  PROVE  /\ registry' \in [BatchIds -> RowType(Contracts, Days, Reasons)]
         /\ watermark' \in [Entities -> Stamps \cup {NONE}]
         /\ vault' \in [Entities -> SUBSET Versions]
<1>1. \A e \in Reported(d) : e \in Entities /\ report[d][e] \in Reports
  BY DEF TypeOK, Reported
<1>2. \A b \in BatchIds : RegisteredAt(d, b) \in Rows
  <2> SUFFICES ASSUME NEW b \in BatchIds PROVE RegisteredAt(d, b) \in Rows
    OBVIOUS
  <2>1. registry[b] \in Rows
    BY DEF TypeOK, Rows
  <2>2. FailedRow(registry[b], "did not report") \in Rows
        /\ FailedRow(registry[b], "breaking drift") \in Rows
    BY <2>1, FailedRowType DEF Reasons
  <2>3. ASSUME b[1] \in Reported(d), b = report[d][b[1]].batch
        PROVE  RegisteredRow(WrittenBatch(d, b[1])) \in Rows
    <3>1. report[d][b[1]].landed \in Nat /\ report[d][b[1]].to \in Int \cup {NONE}
      BY <1>1, <2>3 DEF Reports, Stamps
    <3> QED BY <2>1, <2>3, <3>1, WrittenRowType, RegisteredRowType DEF WrittenBatch
  <2> QED BY <2>1, <2>2, <2>3 DEF RegisteredAt
<1>3. \A e \in Entities :
        (IF e \in Wrote(d) THEN AdvancedMark(watermark[e], report[d][e].to)
         ELSE watermark[e]) \in Stamps \cup {NONE}
  BY <1>1 DEF TypeOK, Wrote, AdvancedMark, Reports
<1>4. \A e \in Entities : Vaulted(d, e) \subseteq Versions
  <2> SUFFICES ASSUME NEW e \in Entities PROVE Vaulted(d, e) \subseteq Versions
    OBVIOUS
  <2>1. vault[e] \subseteq Versions
    BY DEF TypeOK
  <2>2. ASSUME e \in Wrote(d)
        PROVE  RowsWithin(e, report[d][e].from, report[d][e].to) \subseteq Versions
    <3>1. report[d][e].from \in Int \cup {NONE}
      BY <1>1, <2>2 DEF Wrote, Reports
    <3> QED BY <3>1, RowsFromType DEF RowsWithin
  <2> QED BY <2>1, <2>2 DEF Vaulted
<1> QED
  BY <1>2, <1>3, <1>4 DEF RegisterTransaction, Rows

(* A queued extract has a batch of its entity, which is its own. *)
LEMMA QueuedBatch ==
  ASSUME TypeOK, AllocationInv, NEW d \in Days, NEW e \in queued[d]
  PROVE  /\ phase[d] = "extract" /\ allocated[d] # NONE /\ e \in Entities
         /\ \A b \in allocated[d] : b \in BatchIds /\ b[2] = d
         /\ \E b \in allocated[d] : b[1] = e
  BY DEF TypeOK, AllocationInv

LEMMA TypeExtract ==
  ASSUME TypeOK, AllocationInv, NEW d \in Days, NEW e \in Entities, Extract(d, e)
  PROVE  TypeOK'
<1>1. /\ queued' \in [Days -> SUBSET Entities] /\ lake' \in [BatchIds -> SUBSET Versions]
      /\ report' \in [Days -> [Entities -> {NONE} \cup Reports]]
  <2>1. CASE ExtractBreaking(d, e)
    <3>1. PICK b \in allocated[d] :
            /\ EndExtract(d, e, [batch |-> b, ok |-> FALSE, from |-> NONE,
                                 to |-> NONE, landed |-> 0])
            /\ UNCHANGED lake
      BY <2>1 DEF ExtractBreaking
    <3>2. [batch |-> b, ok |-> FALSE, from |-> NONE, to |-> NONE, landed |-> 0] \in Reports
      BY <3>1, QueuedBatch DEF Extract, Reports
    <3> QED BY <3>1, <3>2 DEF TypeOK, EndExtract
  <2>2. CASE ExtractWindow(d, e)
    <3> DEFINE rows(b) == RowsFrom(e, registry[b].from)
    <3>1. PICK b \in allocated[d], to \in Stamps \cup {NONE} :
            /\ lake' = PutObject(b, rows(b))
            /\ \/ EndExtract(d, e, [batch |-> b, ok |-> TRUE, from |-> registry[b].from,
                                    to |-> to, landed |-> Cardinality(rows(b))])
               \/ /\ report' = [report EXCEPT ![d][e] = NONE]
                  /\ UNCHANGED queued
      BY <2>2 DEF ExtractWindow
    <3>2. b \in BatchIds /\ registry[b].from \in Int \cup {NONE}
      BY <3>1, QueuedBatch DEF Extract, TypeOK, RowType
    <3>3. rows(b) \subseteq Versions /\ Cardinality(rows(b)) \in Nat
      BY <3>2, RowsFromType
    <3>4. [batch |-> b, ok |-> TRUE, from |-> registry[b].from, to |-> to,
           landed |-> Cardinality(rows(b))] \in Reports
      BY <3>1, <3>2, <3>3 DEF Reports
    <3> HIDE DEF rows
    <3>5. lake' \in [BatchIds -> SUBSET Versions]
      BY <3>1, <3>3 DEF TypeOK, PutObject
    <3>6. CASE EndExtract(d, e, [batch |-> b, ok |-> TRUE, from |-> registry[b].from,
                                 to |-> to, landed |-> Cardinality(rows(b))])
      BY <3>4, <3>5, <3>6 DEF TypeOK, EndExtract
    <3>7. CASE report' = [report EXCEPT ![d][e] = NONE] /\ UNCHANGED queued
      BY <3>5, <3>7 DEF TypeOK
    <3> QED BY <3>1, <3>6, <3>7
  <2> QED BY <2>1, <2>2 DEF Extract
<1> QED BY <1>1 DEF Extract, TypeOK, sourceVars, warehouse

LEMMA TypeStep ==
  ASSUME TypeOK, AllocationInv, [Next]_vars
  PROVE  TypeOK'
<1>1. CASE UNCHANGED vars
  BY <1>1 DEF TypeOK, vars
<1>2. CASE SourceStep
  <2>1. ASSUME NEW e \in Entities, NEW k \in Keys, Purge(e, k) PROVE TypeOK'
    BY <2>1, ConstantsAssumption DEF Purge, TypeOK, warehouse, runVars
  <2>2. ASSUME NEW e \in Entities, NEW k \in Keys, NEW s \in Stamps, Commit(e, k, s)
        PROVE  TypeOK'
    <3>1. s \in 0 .. MaxStamp /\ s \in -1 .. MaxStamp
      BY ConstantsAssumption DEF Stamps
    <3> QED BY <2>2, <3>1 DEF Commit, TypeOK, warehouse, runVars
  <2>3. ASSUME NEW e \in Entities, Drift(e) PROVE TypeOK'
    BY <2>3 DEF Drift, TypeOK, warehouse, runVars, Contracts
  <2>4. ASSUME NEW e \in Entities, NEW d \in Days, Bump(e, d) PROVE TypeOK'
    BY <2>4 DEF Bump, TypeOK, warehouse, runVars
  <2> QED BY <1>2, <2>1, <2>2, <2>3, <2>4 DEF SourceStep
<1>3. ASSUME NEW d \in Days, Trigger(d) \/ Clear(d) PROVE TypeOK'
  BY <1>3 DEF Trigger, Clear, TypeOK, sourceVars, warehouse, Running
<1>4. ASSUME NEW d \in Days, RunStep(d) PROVE TypeOK'
  <2>1. CASE OpenBatches(d)
    <3>1. PICK pick \in [Pending(d) -> Sequences] :
            /\ OpenTransaction(d, pick)
            /\ \/ /\ phase' = [phase EXCEPT ![d] = "extract"]
                  /\ allocated' = [allocated EXCEPT ![d] = {<<e, d, pick[e]>> : e \in Pending(d)}]
                  /\ queued' = [queued EXCEPT ![d] = Pending(d)]
               \/ UNCHANGED <<phase, allocated, queued>>
      BY <2>1 DEF OpenBatches
    <3>2. registry' \in [BatchIds -> RowType(Contracts, Days, Reasons)]
      BY <3>1, TypeOpenTransaction
    <3>3. {<<e, d, pick[e]>> : e \in Pending(d)} \subseteq BatchIds
          /\ Pending(d) \subseteq Entities
      BY DEF BatchIds, Pending
    <3>4. /\ phase' \in [Days -> {"none"} \cup Running \cup Ended]
          /\ allocated' \in [Days -> {NONE} \cup SUBSET BatchIds]
          /\ queued' \in [Days -> SUBSET Entities]
      <4>1. CASE UNCHANGED <<phase, allocated, queued>>
        BY <4>1 DEF TypeOK
      <4>2. CASE /\ phase' = [phase EXCEPT ![d] = "extract"]
                 /\ allocated' = [allocated EXCEPT ![d] = {<<e, d, pick[e]>> : e \in Pending(d)}]
                 /\ queued' = [queued EXCEPT ![d] = Pending(d)]
        BY <3>3, <4>2 DEF TypeOK, Running
      <4> QED BY <3>1, <4>1, <4>2
    <3>5. UNCHANGED <<source, newest, shape, inForce, watermark, vault, lake, report, summary>>
      BY <2>1 DEF OpenBatches, sourceVars
    <3> QED BY <3>2, <3>4, <3>5 DEF TypeOK
  <2>2. CASE OpenGivesUp(d)
    BY <2>2 DEF OpenGivesUp, TypeOK, sourceVars, warehouse, Running
  <2>3. ASSUME NEW e \in Entities, Extract(d, e) PROVE TypeOK'
    BY <2>3, TypeExtract
  <2>4. ASSUME NEW e \in Entities, ExtractGivesUp(d, e) PROVE TypeOK'
    BY <2>4 DEF ExtractGivesUp, EndExtract, TypeOK, sourceVars, warehouse
  <2>5. CASE Register(d)
    <3>1. FailedEntities(d) \subseteq Entities
      BY BatchParts DEF FailedEntities, Reported, Silent
    <3>2. /\ phase' \in [Days -> {"none"} \cup Running \cup Ended]
          /\ summary' \in [Days -> {NONE} \cup SUBSET Entities]
      <4>1. CASE UNCHANGED <<phase, summary>>
        BY <4>1 DEF TypeOK
      <4>2. CASE /\ phase' = [phase EXCEPT ![d] = "gate"]
                 /\ summary' = [summary EXCEPT ![d] = FailedEntities(d)]
        BY <3>1, <4>2 DEF TypeOK, Running
      <4> QED BY <2>5, <4>1, <4>2 DEF Register
    <3>3. /\ registry' \in [BatchIds -> RowType(Contracts, Days, Reasons)]
          /\ watermark' \in [Entities -> Stamps \cup {NONE}]
          /\ vault' \in [Entities -> SUBSET Versions]
      BY <2>5, TypeRegisterTransaction DEF Register
    <3>4. UNCHANGED <<source, newest, shape, inForce, lake, allocated, queued, report>>
      BY <2>5 DEF Register, sourceVars
    <3> QED BY <3>2, <3>3, <3>4 DEF TypeOK
  <2>6. CASE RegisterGivesUp(d)
    BY <2>6 DEF RegisterGivesUp, TypeOK, sourceVars, warehouse, Running
  <2>7. CASE Gate(d)
    BY <2>7 DEF Gate, TypeOK, sourceVars, warehouse, Ended
  <2> QED BY <1>4, <2>1, <2>2, <2>3, <2>4, <2>5, <2>6, <2>7 DEF RunStep
<1> QED BY <1>1, <1>2, <1>3, <1>4 DEF Next

-----------------------------------------------------------------------------
(***************************************************************************)
(* What the two transactions on the registry do to it.                     *)
(***************************************************************************)
LEMMA OpenEffect ==
  ASSUME TypeOK, NEW d \in Days, NEW pick \in [Pending(d) -> Sequences],
         OpenTransaction(d, pick)
  PROVE  /\ \A b \in BatchIds : Registered(b) => registry'[b] = registry[b]
         /\ \A b \in BatchIds : registry'[b].status = "registered" => Registered(b)
         /\ \A b \in BatchIds : b[2] # d => registry'[b] = registry[b]
         /\ \A e \in Pending(d) : registry'[<<e, d, pick[e]>>].status = "open"
<1>1. ASSUME NEW b \in BatchIds, Registered(b)
      PROVE  registry'[b] = registry[b]
  BY <1>1, BatchParts DEF OpenTransaction, Pending, HasRegistered, Registered
<1>2. ASSUME NEW row, NEW c, NEW f, NEW r, row \in Rows
      PROVE  AllocatedRow(row, c, f, r).status = "open"
  BY <1>2 DEF AllocatedRow, Rows, RowType
<1>3. ASSUME NEW b \in BatchIds, registry'[b].status = "registered"
      PROVE  Registered(b)
  <2>1. registry[b] \in Rows
    BY DEF TypeOK, Rows
  <2> QED BY <1>2, <1>3, <2>1 DEF OpenTransaction, Registered
<1>4. ASSUME NEW b \in BatchIds, b[2] # d
      PROVE  registry'[b] = registry[b]
  BY <1>4 DEF OpenTransaction
<1>5. ASSUME NEW e \in Pending(d)
      PROVE  registry'[<<e, d, pick[e]>>].status = "open"
  <2>1. <<e, d, pick[e]>> \in BatchIds /\ registry[<<e, d, pick[e]>>] \in Rows
    BY DEF Pending, BatchIds, TypeOK, Rows
  <2> QED BY <1>2, <2>1 DEF OpenTransaction
<1> QED BY <1>1, <1>3, <1>4, <1>5

(* An entity whose extract reported rows registers the batch it was given. *)
LEMMA WroteEffect ==
  ASSUME TypeOK, AllocationInv, NEW d \in Days, ~ Refused(d), RegisterTransaction(d),
         NEW e \in Wrote(d), NEW b, b = report[d][e].batch
  PROVE  /\ e \in Entities /\ report[d][e] \in Reports
         /\ allocated[d] # NONE /\ b \in allocated[d]
         /\ b \in BatchIds /\ b[1] = e /\ b[2] = d
         /\ registry[b].status \in Unregistered
         /\ registry'[b].status = "registered"
         /\ registry'[b].landed = report[d][e].landed
         /\ registry'[b].to = report[d][e].to
<1>1. /\ e \in Entities /\ report[d][e] \in Reports /\ e \in Reported(d)
      /\ allocated[d] # NONE /\ b \in allocated[d] /\ report[d][e].ok
      /\ report[d][e] # NONE
  BY DEF Wrote, Reported, TypeOK
<1>2. b \in BatchIds /\ b[1] = e /\ b[2] = d
  <2>1. b \in BatchIds
    BY <1>1 DEF Reports
  <2> QED BY <1>1, <2>1 DEF AllocationInv
<1>3. CanRegister(WrittenBatch(d, e))
  BY DEF Refused
<1>4. registry[b] \in Rows
  BY <1>2 DEF TypeOK, Rows
<1>5. registry[b].status \in Unregistered
  BY <1>3, <1>4 DEF CanRegister, WrittenBatch, WrittenRow, Unregistered
<1>6. registry'[b] = RegisteredRow(WrittenBatch(d, e))
  <2>1. b \notin Silent(d)
    BY <1>1, <1>2 DEF Silent
  <2> QED BY <1>1, <1>2, <2>1 DEF RegisterTransaction, RegisteredAt
<1>7. /\ RegisteredRow(WrittenBatch(d, e)).status = "registered"
      /\ RegisteredRow(WrittenBatch(d, e)).landed = report[d][e].landed
      /\ RegisteredRow(WrittenBatch(d, e)).to = report[d][e].to
  BY <1>4, <1>5 DEF RegisteredRow, WrittenBatch, WrittenRow, Rows, RowType
<1> QED BY <1>1, <1>2, <1>5, <1>6, <1>7

LEMMA RegisterEffect ==
  ASSUME TypeOK, AllocationInv, NEW d \in Days, ~ Refused(d), RegisterTransaction(d),
         NEW b \in BatchIds
  PROVE  /\ Registered(b) => registry'[b] = registry[b]
         /\ b[2] # d => registry'[b] = registry[b]
         /\ registry'[b].status = "registered" /\ ~ Registered(b) =>
              b[1] \in Wrote(d) /\ b = report[d][b[1]].batch
         /\ registry'[b] # registry[b] => registry'[b].status \in {"registered", "failed"}
         /\ b \in Silent(d) => registry'[b].status = "failed"
<1>1. registry[b] \in Rows /\ registry'[b] = RegisteredAt(d, b)
  BY DEF TypeOK, Rows, RegisterTransaction
<1>2. ASSUME NEW r \in Reasons
      PROVE  /\ Registered(b) => FailedRow(registry[b], r) = registry[b]
             /\ ~ Registered(b) => FailedRow(registry[b], r).status = "failed"
  BY <1>1 DEF FailedRow, Registered, Rows, RowType
<1>3. {"did not report", "breaking drift"} = Reasons
  BY DEF Reasons
<1>4. CASE b \in Silent(d)
  <2>1. b[2] = d /\ ~ Registered(b)
    BY <1>4 DEF Silent, Registered, Unregistered
  <2>2. registry'[b] = FailedRow(registry[b], "did not report")
    BY <1>1, <1>4 DEF RegisteredAt, Silent
  <2> QED BY <1>2, <1>3, <2>1, <2>2
<1>5. CASE b \notin Silent(d) /\ b[1] \in Reported(d) /\ b = report[d][b[1]].batch
  <2>1. b[2] = d
    BY <1>5 DEF Reported, AllocationInv
  <2>2. CASE report[d][b[1]].ok
    <3>1. b[1] \in Wrote(d)
      BY <1>5, <2>2 DEF Wrote
    <3>2. registry[b].status \in Unregistered /\ registry'[b].status = "registered"
      BY <1>5, <3>1, WroteEffect
    <3> QED BY <1>5, <2>1, <3>1, <3>2 DEF Registered, Unregistered
  <2>3. CASE ~ report[d][b[1]].ok
    <3>1. registry'[b] = FailedRow(registry[b], "breaking drift")
      BY <1>1, <1>5, <2>3 DEF RegisteredAt
    <3> QED BY <1>2, <1>3, <1>5, <2>1, <3>1
  <2> QED BY <2>2, <2>3
<1>6. CASE b \notin Silent(d) /\ ~ (b[1] \in Reported(d) /\ b = report[d][b[1]].batch)
  BY <1>1, <1>6 DEF RegisteredAt, Registered
<1> QED BY <1>4, <1>5, <1>6

-----------------------------------------------------------------------------
(***************************************************************************)
(* Allocations belong to one try of one run.                               *)
(***************************************************************************)
LEMMA AllocationOpen ==
  ASSUME TypeOK, AllocationInv, NEW d \in Days, OpenBatches(d)
  PROVE  AllocationInv'
<1>1. PICK pick \in [Pending(d) -> Sequences] :
        \/ /\ phase' = [phase EXCEPT ![d] = "extract"]
           /\ allocated' = [allocated EXCEPT ![d] = {<<e, d, pick[e]>> : e \in Pending(d)}]
           /\ queued' = [queued EXCEPT ![d] = Pending(d)]
        \/ UNCHANGED <<phase, allocated, queued>>
  BY DEF OpenBatches
<1>2. UNCHANGED report
  BY DEF OpenBatches
<1>3. CASE UNCHANGED <<phase, allocated, queued>>
  BY <1>2, <1>3 DEF AllocationInv
<1>4. CASE /\ phase' = [phase EXCEPT ![d] = "extract"]
           /\ allocated' = [allocated EXCEPT ![d] = {<<e, d, pick[e]>> : e \in Pending(d)}]
           /\ queued' = [queued EXCEPT ![d] = Pending(d)]
  <2>1. /\ phase'[d] = "extract" /\ queued'[d] = Pending(d)
        /\ allocated'[d] = {<<e, d, pick[e]>> : e \in Pending(d)}
    BY <1>4 DEF TypeOK
  <2>2. ASSUME NEW x \in Days, x # d
        PROVE  phase'[x] = phase[x] /\ queued'[x] = queued[x] /\ allocated'[x] = allocated[x]
    BY <1>4, <2>2 DEF TypeOK
  <2>3. allocated'[d] # NONE
    <3>1. allocated'[d] \subseteq BatchIds
      BY <2>1 DEF Pending, BatchIds
    <3> QED BY <3>1, NoneAssumption
  <2>4. /\ \A b \in allocated'[d] : b[2] = d
        /\ \A b, c \in allocated'[d] : b[1] = c[1] => b = c
        /\ \A e \in queued'[d] : \E b \in allocated'[d] : b[1] = e
    <3>1. \A b \in allocated'[d] : b = <<b[1], d, pick[b[1]]>>
      BY <2>1
    <3>2. \A e \in queued'[d] : <<e, d, pick[e]>> \in allocated'[d] /\ <<e, d, pick[e]>>[1] = e
      BY <2>1
    <3>3. \A b \in allocated'[d] : b[2] = d
      BY <3>1
    <3> QED BY <3>1, <3>2, <3>3
  <2> QED BY <1>2, <2>1, <2>2, <2>3, <2>4 DEF AllocationInv
<1> QED BY <1>1, <1>3, <1>4

LEMMA AllocationExtract ==
  ASSUME TypeOK, AllocationInv, NEW d \in Days, NEW e \in Entities,
         Extract(d, e) \/ ExtractGivesUp(d, e)
  PROVE  AllocationInv'
<1>1. /\ UNCHANGED <<phase, allocated>> /\ phase[d] = "extract" /\ allocated[d] # NONE
      /\ \A b \in allocated[d] : b[2] = d
  BY DEF Extract, ExtractGivesUp, AllocationInv
<1>2. ASSUME NEW x \in Days PROVE queued'[x] \subseteq queued[x]
  BY DEF Extract, ExtractGivesUp, ExtractBreaking, ExtractWindow, EndExtract, TypeOK
<1>3. ASSUME NEW x \in Days, NEW y \in Entities, report'[x][y] # NONE
      PROVE  report'[x][y].batch[1] = y /\ report'[x][y].batch[2] = x
  <2>1. \/ report' = [report EXCEPT ![d][e] = NONE]
        \/ \E b \in allocated[d] : \E ok, f, t, n :
             /\ b[1] = e
             /\ report' = [report EXCEPT ![d][e] =
                  [batch |-> b, ok |-> ok, from |-> f, to |-> t, landed |-> n]]
    BY DEF Extract, ExtractGivesUp, ExtractBreaking, ExtractWindow, EndExtract
  <2>2. CASE report' = [report EXCEPT ![d][e] = NONE]
    BY <1>3, <2>2 DEF TypeOK, AllocationInv
  <2>3. CASE \E b \in allocated[d] : \E ok, f, t, n :
               /\ b[1] = e
               /\ report' = [report EXCEPT ![d][e] =
                    [batch |-> b, ok |-> ok, from |-> f, to |-> t, landed |-> n]]
    BY <1>1, <1>3, <2>3 DEF TypeOK, AllocationInv
  <2> QED BY <2>1, <2>2, <2>3
<1> QED BY <1>1, <1>2, <1>3 DEF AllocationInv

LEMMA AllocationStep ==
  ASSUME TypeOK, AllocationInv, [Next]_vars
  PROVE  AllocationInv'
<1>1. CASE UNCHANGED vars
  BY <1>1 DEF AllocationInv, vars
<1>2. CASE SourceStep
  BY <1>2 DEF SourceStep, Purge, Commit, Drift, Bump, AllocationInv, runVars
<1>3. ASSUME NEW d \in Days, Trigger(d) \/ Clear(d) PROVE AllocationInv'
  <2>1. /\ UNCHANGED <<allocated, queued, report>>
        /\ phase[d] \in {"none"} \cup Ended
        /\ phase' = [phase EXCEPT ![d] = "open"]
    BY <1>3 DEF Trigger, Clear
  <2>2. phase[d] \notin {"extract", "gate"}
    BY <2>1 DEF Ended
  <2>3. allocated[d] = NONE /\ queued[d] = {}
    BY <2>2 DEF AllocationInv
  <2>4. \A x \in Days : x # d => phase'[x] = phase[x]
    BY <2>1 DEF TypeOK
  <2> QED BY <2>1, <2>3, <2>4 DEF AllocationInv
<1>4. ASSUME NEW d \in Days, RunStep(d) PROVE AllocationInv'
  <2>1. CASE OpenBatches(d)
    BY <2>1, AllocationOpen
  <2>2. CASE OpenGivesUp(d)
    <3>1. UNCHANGED <<allocated, queued, report>> /\ phase'[d] = "extract"
          /\ \A x \in Days : x # d => phase'[x] = phase[x]
      BY <2>2 DEF OpenGivesUp, TypeOK
    <3> QED BY <3>1 DEF AllocationInv
  <2>3. ASSUME NEW e \in Entities, Extract(d, e) \/ ExtractGivesUp(d, e) PROVE AllocationInv'
    BY <2>3, AllocationExtract
  <2>4. CASE Register(d) \/ RegisterGivesUp(d)
    <3>1. /\ UNCHANGED <<allocated, queued, report>>
          /\ phase'[d] \in {"extract", "gate"} /\ queued[d] = {}
          /\ \A x \in Days : x # d => phase'[x] = phase[x]
      BY <2>4 DEF Register, RegisterGivesUp, ReadyToRegister, TypeOK
    <3> QED BY <3>1 DEF AllocationInv
  <2>5. CASE Gate(d)
    <3>1. /\ UNCHANGED <<queued, report>>
          /\ phase[d] = "gate" /\ allocated'[d] = NONE
          /\ \A x \in Days : x # d => phase'[x] = phase[x] /\ allocated'[x] = allocated[x]
      BY <2>5 DEF Gate, TypeOK
    <3> QED BY <3>1 DEF AllocationInv
  <2> QED BY <1>4, <2>1, <2>2, <2>3, <2>4, <2>5 DEF RunStep
<1> QED BY <1>1, <1>2, <1>3, <1>4 DEF Next

-----------------------------------------------------------------------------
(***************************************************************************)
(* The run's batches are open until its transaction, and final after it.   *)
(***************************************************************************)
LEMMA RegistryFrame ==
  ASSUME NEW d \in Days, \A b \in BatchIds : b[2] = d => registry'[b] = registry[b]
  PROVE  \A e \in Entities : HasRegistered(e, d)' <=> HasRegistered(e, d)
<1>1. \A e \in Entities, n \in Sequences : registry'[<<e, d, n>>] = registry[<<e, d, n>>]
  BY DEF BatchIds
<1> QED BY <1>1 DEF HasRegistered

(* A run whose allocation stands and whose rows nobody touched. *)
LEMMA CommitFrame ==
  ASSUME TypeOK, AllocationInv, CommitInv, NEW d \in Days,
         allocated'[d] = allocated[d], queued'[d] \subseteq queued[d],
         \A b \in BatchIds : b[2] = d => registry'[b] = registry[b],
         allocated'[d] # NONE
  PROVE  AllOpen(d)' \/ AllFinal(d)'
<1>1. /\ \A b \in allocated[d] : b \in BatchIds /\ b[1] \in Entities /\ b[2] = d
      /\ \A b \in allocated[d] : registry'[b] = registry[b]
  BY BatchParts DEF TypeOK, AllocationInv
<1>2. \A e \in Entities : HasRegistered(e, d)' <=> HasRegistered(e, d)
  BY RegistryFrame
<1>3. CASE AllOpen(d)
  BY <1>1, <1>2, <1>3 DEF AllOpen
<1>4. CASE AllFinal(d)
  BY <1>1, <1>4 DEF AllFinal
<1> QED BY <1>3, <1>4 DEF CommitInv

LEMMA CommitOpen ==
  ASSUME TypeOK, AllocationInv, CommitInv, NEW d \in Days, OpenBatches(d)
  PROVE  CommitInv'
<1>1. PICK pick \in [Pending(d) -> Sequences] :
        /\ OpenTransaction(d, pick)
        /\ \/ /\ phase' = [phase EXCEPT ![d] = "extract"]
              /\ allocated' = [allocated EXCEPT ![d] = {<<e, d, pick[e]>> : e \in Pending(d)}]
              /\ queued' = [queued EXCEPT ![d] = Pending(d)]
           \/ UNCHANGED <<phase, allocated, queued>>
  BY DEF OpenBatches
<1>2. allocated[d] = NONE
  BY DEF OpenBatches, AllocationInv
<1>3. ASSUME NEW x \in Days, x # d
      PROVE  allocated'[x] = allocated[x] /\ queued'[x] = queued[x]
  BY <1>1, <1>3 DEF TypeOK
<1>4. ASSUME NEW x \in Days, x # d, allocated'[x] # NONE
      PROVE  AllOpen(x)' \/ AllFinal(x)'
  BY <1>1, <1>3, <1>4, OpenEffect, CommitFrame
<1>5. ASSUME allocated'[d] # NONE
      PROVE  AllOpen(d)'
  <2>1. allocated'[d] = {<<e, d, pick[e]>> : e \in Pending(d)}
    BY <1>1, <1>2, <1>5 DEF TypeOK
  <2>2. \A e \in Pending(d) : registry'[<<e, d, pick[e]>>].status = "open"
    BY <1>1, OpenEffect
  <2>3. \A e \in Pending(d) : ~ HasRegistered(e, d)'
    <3>1. \A e \in Pending(d), n \in Sequences : <<e, d, n>> \in BatchIds
      BY DEF Pending, BatchIds
    <3> QED BY <1>1, <3>1, OpenEffect DEF Pending, HasRegistered, Registered
  <2>4. \A b \in allocated'[d] : b[1] \in Pending(d) /\ b = <<b[1], d, pick[b[1]]>>
    BY <2>1
  <2> QED BY <2>2, <2>3, <2>4 DEF AllOpen
<1> QED BY <1>4, <1>5 DEF CommitInv

LEMMA CommitExtract ==
  ASSUME TypeOK, AllocationInv, CommitInv, NEW d \in Days, NEW e \in Entities,
         Extract(d, e) \/ ExtractGivesUp(d, e)
  PROVE  CommitInv'
<1>1. UNCHANGED <<allocated, registry>>
  BY DEF Extract, ExtractGivesUp, warehouse
<1>2. ASSUME NEW x \in Days PROVE queued'[x] \subseteq queued[x]
  BY DEF Extract, ExtractGivesUp, ExtractBreaking, ExtractWindow, EndExtract, TypeOK
<1> QED BY <1>1, <1>2, CommitFrame DEF CommitInv

(* What a run knows when its register step starts. *)
LEMMA BeforeRegister ==
  ASSUME TypeOK, AllocationInv, CommitInv, NEW d \in Days, ~ Refused(d),
         RegisterTransaction(d), NEW e \in Wrote(d)
  PROVE  AllOpen(d)
<1>1. /\ allocated[d] # NONE /\ report[d][e].batch \in allocated[d]
      /\ registry[report[d][e].batch].status \in Unregistered
  BY WroteEffect
<1>2. ~ AllFinal(d)
  BY <1>1 DEF AllFinal, Unregistered
<1> QED BY <1>1, <1>2 DEF CommitInv

LEMMA CommitRegister ==
  ASSUME TypeOK, AllocationInv, CommitInv, NEW d \in Days, Register(d)
  PROVE  CommitInv'
<1>1. /\ ~ Refused(d) /\ RegisterTransaction(d) /\ queued[d] = {}
      /\ UNCHANGED <<allocated, queued>>
  BY DEF Register, ReadyToRegister
<1>2. ASSUME NEW x \in Days, x # d, allocated'[x] # NONE
      PROVE  AllOpen(x)' \/ AllFinal(x)'
  BY <1>1, <1>2, RegisterEffect, CommitFrame
<1>3. ASSUME allocated[d] # NONE, NEW b \in allocated[d]
      PROVE  registry'[b].status \in {"registered", "failed"}
  <2>1. b \in BatchIds /\ b[1] \in Entities /\ b[2] = d
    BY <1>3, BatchParts DEF TypeOK, AllocationInv
  <2>2. CASE registry'[b] # registry[b]
    BY <1>1, <2>1, <2>2, RegisterEffect
  <2>3. CASE registry'[b] = registry[b] /\ registry[b].status \in {"registered", "failed"}
    BY <2>3
  <2>4. CASE registry'[b] = registry[b] /\ registry[b].status \notin {"registered", "failed"}
    <3>1. registry[b].status = "open"
      BY <1>3, <2>4 DEF CommitInv, AllOpen, AllFinal
    <3>2. b[1] \in Reported(d)
      <4>1. CASE b \in Silent(d)
        BY <1>1, <2>1, <2>4, <4>1, RegisterEffect
      <4>2. CASE b \notin Silent(d)
        BY <2>1, <3>1, <4>2 DEF Silent, Unregistered
      <4> QED BY <4>1, <4>2
    <3>3. b = report[d][b[1]].batch
      BY <1>3, <2>1, <3>2 DEF Reported, AllocationInv
    <3>4. CASE b[1] \in Wrote(d)
      <4>1. registry'[b].status = "registered"
        BY <1>1, <3>3, <3>4, WroteEffect
      <4> QED BY <4>1
    <3>5. CASE b[1] \notin Wrote(d)
      <4>1. b \notin Silent(d) /\ ~ report[d][b[1]].ok
        BY <3>2, <3>5 DEF Silent, Wrote
      <4>2. registry'[b] = FailedRow(registry[b], "breaking drift")
        BY <1>1, <2>1, <3>2, <3>3, <4>1 DEF RegisterTransaction, RegisteredAt
      <4>3. registry[b] \in Rows
        BY <2>1 DEF TypeOK, Rows
      <4> QED BY <3>1, <4>2, <4>3 DEF FailedRow, Rows, RowType
    <3> QED BY <3>4, <3>5
  <2> QED BY <2>2, <2>3, <2>4
<1>4. allocated'[d] # NONE => AllFinal(d)'
  BY <1>1, <1>3 DEF AllFinal
<1> QED BY <1>2, <1>4 DEF CommitInv

LEMMA CommitStep ==
  ASSUME TypeOK, AllocationInv, CommitInv, [Next]_vars
  PROVE  CommitInv'
<1>1. CASE UNCHANGED <<allocated, queued, registry>>
  BY <1>1, CommitFrame DEF CommitInv
<1>2. CASE SourceStep
  BY <1>1, <1>2 DEF SourceStep, Purge, Commit, Drift, Bump, runVars, warehouse
<1>3. ASSUME NEW d \in Days, Trigger(d) \/ Clear(d) \/ OpenGivesUp(d) \/ RegisterGivesUp(d)
      PROVE  CommitInv'
  BY <1>1, <1>3 DEF Trigger, Clear, OpenGivesUp, RegisterGivesUp, warehouse
<1>4. ASSUME NEW d \in Days, Gate(d) PROVE CommitInv'
  <2>1. /\ UNCHANGED <<queued, registry>> /\ allocated'[d] = NONE
        /\ \A x \in Days : x # d => allocated'[x] = allocated[x]
    BY <1>4 DEF Gate, warehouse, TypeOK
  <2> QED BY <2>1, CommitFrame DEF CommitInv
<1>5. ASSUME NEW d \in Days, RunStep(d) PROVE CommitInv'
  BY <1>3, <1>4, <1>5, CommitOpen, CommitExtract, CommitRegister DEF RunStep
<1>6. CASE UNCHANGED vars
  BY <1>1, <1>6 DEF vars
<1> QED BY <1>2, <1>3, <1>5, <1>6 DEF Next
-----------------------------------------------------------------------------
(***************************************************************************)
(* One registered batch per interval, and a watermark bronze holds.        *)
(***************************************************************************)
(* A step registers only the batches one run wrote, in one transaction. *)
Kept == \A b \in BatchIds : Registered(b) => registry'[b] = registry[b]
NoneRegistered == \A b \in BatchIds : registry'[b].status = "registered" => Registered(b)

LEMMA RegistrySteps ==
  ASSUME TypeOK, AllocationInv, CommitInv, [Next]_vars
  PROVE  /\ Kept
         /\ \/ NoneRegistered /\ UNCHANGED <<watermark, vault>>
            \/ \E d \in Days : Register(d)
<1>1. CASE UNCHANGED warehouse
  BY <1>1 DEF warehouse, Kept, NoneRegistered, Registered
<1>2. CASE UNCHANGED vars
  BY <1>1, <1>2 DEF vars, warehouse
<1>3. CASE SourceStep
  BY <1>1, <1>3 DEF SourceStep, Purge, Commit, Drift, Bump
<1>4. ASSUME NEW d \in Days,
             \/ Trigger(d) \/ Clear(d) \/ OpenGivesUp(d) \/ RegisterGivesUp(d) \/ Gate(d)
             \/ \E e \in Entities : Extract(d, e) \/ ExtractGivesUp(d, e)
      PROVE  UNCHANGED warehouse
  BY <1>4 DEF Trigger, Clear, OpenGivesUp, RegisterGivesUp, Gate, Extract, ExtractGivesUp
<1>5. ASSUME NEW d \in Days, OpenBatches(d)
      PROVE  Kept /\ NoneRegistered /\ UNCHANGED <<watermark, vault>>
  <2>1. \E pick \in [Pending(d) -> Sequences] : OpenTransaction(d, pick)
    BY <1>5 DEF OpenBatches
  <2>2. Kept /\ NoneRegistered
    BY <2>1, OpenEffect DEF Kept, NoneRegistered
  <2> QED BY <1>5, <2>2 DEF OpenBatches
<1>6. ASSUME NEW d \in Days, Register(d) PROVE Kept
  BY <1>6, RegisterEffect DEF Register, Kept
<1> QED BY <1>1, <1>2, <1>3, <1>4, <1>5, <1>6 DEF Next, RunStep

LEMMA OneBatchStep ==
  ASSUME TypeOK, AllocationInv, CommitInv, OneBatchPerInterval, [Next]_vars
  PROVE  OneBatchPerInterval'
<1> SUFFICES ASSUME NEW b \in BatchIds, NEW c \in BatchIds,
                    registry'[b].status = "registered", registry'[c].status = "registered",
                    b[1] = c[1], b[2] = c[2]
             PROVE  b = c
  BY DEF OneBatchPerInterval, Registered
<1>1. CASE NoneRegistered
  BY <1>1 DEF NoneRegistered, OneBatchPerInterval
<1>2. ASSUME NEW d \in Days, Register(d) PROVE b = c
  <2>1. ~ Refused(d) /\ RegisterTransaction(d)
    BY <1>2 DEF Register
  (* A batch this transaction registers is alone in its interval. *)
  <2>2. ASSUME NEW x \in BatchIds, registry'[x].status = "registered", ~ Registered(x)
        PROVE  x = report[d][x[1]].batch /\ x[2] = d /\ ~ HasRegistered(x[1], d)
    <3>1. x[1] \in Wrote(d) /\ x = report[d][x[1]].batch
      BY <2>1, <2>2, RegisterEffect
    <3>2. x[2] = d /\ x \in allocated[d]
      BY <2>1, <3>1, WroteEffect
    <3>3. AllOpen(d)
      BY <2>1, <3>1, BeforeRegister
    <3> QED BY <3>1, <3>2, <3>3 DEF AllOpen
  <2>3. ASSUME NEW x \in BatchIds, Registered(x)
        PROVE  HasRegistered(x[1], x[2])
    BY <2>3, BatchParts DEF HasRegistered, Registered
  <2>4. CASE Registered(b) /\ Registered(c)
    BY <2>4 DEF OneBatchPerInterval
  <2>5. CASE ~ Registered(b)
    BY <2>2, <2>3, <2>5
  <2>6. CASE ~ Registered(c)
    BY <2>2, <2>3, <2>6
  <2> QED BY <2>4, <2>5, <2>6
<1> QED BY <1>1, <1>2, RegistrySteps

LEMMA WatermarkStep ==
  ASSUME TypeOK, AllocationInv, CommitInv, WatermarkWasRegistered, [Next]_vars
  PROVE  WatermarkWasRegistered'
<1> SUFFICES ASSUME NEW e \in Entities, watermark'[e] # NONE
             PROVE  \E b \in BatchIds : /\ b[1] = e /\ registry'[b].status = "registered"
                                        /\ registry'[b].to = watermark'[e]
  BY DEF WatermarkWasRegistered, Registered
<1>1. Kept
  BY RegistrySteps
<1>2. CASE watermark'[e] = watermark[e]
  <2>1. PICK b \in BatchIds : b[1] = e /\ Registered(b) /\ registry[b].to = watermark[e]
    BY <1>2 DEF WatermarkWasRegistered
  <2>2. registry'[b] = registry[b]
    BY <1>1, <2>1 DEF Kept
  <2> QED BY <1>2, <2>1, <2>2 DEF Registered
<1>3. ASSUME NEW d \in Days, Register(d), watermark'[e] # watermark[e]
      PROVE  \E b \in BatchIds : /\ b[1] = e /\ registry'[b].status = "registered"
                                 /\ registry'[b].to = watermark'[e]
  <2>1. ~ Refused(d) /\ RegisterTransaction(d)
    BY <1>3 DEF Register
  <2>2. e \in Wrote(d) /\ watermark'[e] = report[d][e].to
    BY <1>3, <2>1 DEF RegisterTransaction, AdvancedMark
  <2> QED BY <2>1, <2>2, WroteEffect
<1> QED BY <1>2, <1>3, RegistrySteps
-----------------------------------------------------------------------------
(***************************************************************************)
(* IngestInv is inductive.                                                 *)
(***************************************************************************)
LEMMA IngestInit == Init => IngestInv
<1> SUFFICES ASSUME Init PROVE IngestInv
  OBVIOUS
<1>1. AllocationInv
  BY DEF Init, AllocationInv
<1>2. CommitInv
  BY DEF Init, CommitInv
<1>3. \A b \in BatchIds : ~ Registered(b)
  BY DEF Init, Registered, AbsentRow
<1>4. OneBatchPerInterval /\ WatermarkWasRegistered
  BY <1>3 DEF Init, OneBatchPerInterval, WatermarkWasRegistered
<1> QED BY <1>1, <1>2, <1>4, TypeInit DEF IngestInv

LEMMA IngestStep == IngestInv /\ [Next]_vars => IngestInv'
  BY TypeStep, AllocationStep, CommitStep, OneBatchStep, WatermarkStep DEF IngestInv

(* Every state of the system satisfies IngestInv. *)
THEOREM IngestInvariant == Spec => []IngestInv
  BY IngestInit, IngestStep, PTL DEF Spec

(* Every variable keeps its type, whatever the tables, keys and days. *)
THEOREM TypeCorrect == Spec => []TypeOK
<1>1. IngestInv => TypeOK
  BY DEF IngestInv
<1> QED BY <1>1, IngestInvariant, PTL

(* However runs are retried, cleared and interleaved, an interval registers  *)
(* at most one batch per entity (open_phase's skip, register's transaction). *)
THEOREM OneBatchCorrect == Spec => []OneBatchPerInterval
<1>1. IngestInv => OneBatchPerInterval
  BY DEF IngestInv
<1> QED BY <1>1, IngestInvariant, PTL

(* The watermark was observed by a registered batch: no run moves it past    *)
(* what bronze holds (advance_watermark, in the registering transaction).    *)
THEOREM WatermarkCorrect == Spec => []WatermarkWasRegistered
<1>1. IngestInv => WatermarkWasRegistered
  BY DEF IngestInv
<1> QED BY <1>1, IngestInvariant, PTL

(* When register refuses a batch as already registered, an earlier try of    *)
(* the same run committed, and all of its batches are final.                 *)
THEOREM RefusalCorrect == Spec => []RefusalMeansCommitted
<1>1. IngestInv => RefusalMeansCommitted
  <2> SUFFICES ASSUME IngestInv, NEW d \in Days, Refused(d)
               PROVE  \A b \in allocated[d] : registry[b].status \in {"registered", "failed"}
    BY DEF RefusalMeansCommitted
  <2>1. PICK e \in Wrote(d) : ~ CanRegister(WrittenBatch(d, e))
    BY DEF Refused
  <2>2. allocated[d] # NONE /\ report[d][e].batch \in allocated[d]
    BY DEF Wrote, Reported
  <2>3. registry[report[d][e].batch] \in Rows
    BY <2>2 DEF IngestInv, TypeOK, Rows
  <2>4. registry[report[d][e].batch].status \notin Unregistered
    BY <2>1, <2>3 DEF CanRegister, WrittenBatch, WrittenRow, Rows, RowType
  <2>5. ~ AllOpen(d)
    BY <2>2, <2>4 DEF AllOpen, Unregistered
  <2> QED BY <2>2, <2>5 DEF IngestInv, CommitInv, AllFinal
<1> QED BY <1>1, IngestInvariant, PTL

-----------------------------------------------------------------------------
(***************************************************************************)
(* Registered partitions are final.                                        *)
(***************************************************************************)
(* A batch an extract may still write is open. *)
LEMMA QueuedBatchOpen ==
  ASSUME IngestInv, NEW d \in Days, NEW e \in queued[d], NEW b \in allocated[d]
  PROVE  registry[b].status = "open"
<1>1. allocated[d] # NONE /\ ~ AllFinal(d)
  BY QueuedBatch DEF IngestInv, AllFinal
<1> QED BY <1>1 DEF IngestInv, CommitInv, AllOpen

(* What a step does to the lake. *)
LEMMA LakeSteps ==
  ASSUME IngestInv, [Next]_vars
  PROVE  \/ UNCHANGED lake
         \/ \E d \in Days : \E e \in queued[d] : \E b \in allocated[d] :
              /\ b \in BatchIds /\ b[1] = e /\ b[2] = d
              /\ lake' = [lake EXCEPT ![b] = RowsFrom(e, registry[b].from)]
<1>1. ASSUME NEW d \in Days, NEW e \in Entities, Extract(d, e)
      PROVE  \/ UNCHANGED lake
             \/ \E b \in allocated[d] :
                  /\ b \in BatchIds /\ b[1] = e /\ b[2] = d
                  /\ lake' = [lake EXCEPT ![b] = RowsFrom(e, registry[b].from)]
  <2>1. \A b \in allocated[d] : b \in BatchIds /\ b[2] = d
    BY <1>1, QueuedBatch DEF Extract, IngestInv
  <2> QED BY <1>1, <2>1 DEF Extract, ExtractBreaking, ExtractWindow, PutObject
<1>2. ASSUME NEW d \in Days, RunStep(d)
      PROVE  UNCHANGED lake \/ \E e \in queued[d] : Extract(d, e)
  BY <1>2 DEF RunStep, OpenBatches, OpenGivesUp, Extract, ExtractGivesUp, Register,
              RegisterGivesUp, Gate
<1>3. ASSUME NEW d \in Days, Trigger(d) \/ Clear(d) PROVE UNCHANGED lake
  BY <1>3 DEF Trigger, Clear
<1>4. CASE SourceStep
  BY <1>4 DEF SourceStep, Purge, Commit, Drift, Bump
<1>5. CASE UNCHANGED vars
  BY <1>5 DEF vars
<1>6. \A d \in Days : queued[d] \subseteq Entities
  BY DEF IngestInv, TypeOK
<1> QED BY <1>1, <1>2, <1>3, <1>4, <1>5, <1>6 DEF Next

LakeKept == \A b \in BatchIds : Registered(b) => lake'[b] = lake[b]

LEMMA RegisteredKept ==
  ASSUME IngestInv, [Next]_vars
  PROVE  Kept /\ LakeKept
<1>1. Kept
  BY RegistrySteps DEF IngestInv
<1>2. CASE UNCHANGED lake
  BY <1>1, <1>2 DEF LakeKept
<1>3. ASSUME NEW d \in Days, NEW e \in queued[d], NEW c \in allocated[d],
             lake' = [lake EXCEPT ![c] = RowsFrom(e, registry[c].from)]
      PROVE  LakeKept
  <2>1. ~ Registered(c)
    BY QueuedBatchOpen DEF Registered
  <2> QED BY <1>3, <2>1 DEF LakeKept, IngestInv, TypeOK
<1> QED BY <1>1, <1>2, <1>3, LakeSteps

(* A registered partition is final, for its registry row and its object:     *)
(* allocate skips it, mark_failed leaves it, and no extract writes under it. *)
THEOREM RegisteredFinalCorrect == Spec => RegisteredIsFinal
<1>1. IngestInv /\ [Next]_vars =>
        [\A b \in BatchIds : Registered(b) => registry'[b] = registry[b] /\ lake'[b] = lake[b]]_vars
  BY RegisteredKept DEF Kept, LakeKept
<1> QED BY <1>1, IngestInvariant, PTL DEF Spec, RegisteredIsFinal

-----------------------------------------------------------------------------
(***************************************************************************)
(* What the ingestion leaves in bronze: no committed row is lost, the      *)
(* promise of PublishedBronze is kept, a successful run registered its     *)
(* interval, and what a registered batch claims and identifies is what its *)
(* object holds.                                                           *)
(***************************************************************************)

-----------------------------------------------------------------------------
(***************************************************************************)
(* What a step does to the source.                                         *)
(***************************************************************************)
LEMMA SourceSteps ==
  ASSUME [Next]_vars
  PROVE  \/ UNCHANGED <<source, newest>>
         \/ \E e \in Entities, k \in Keys :
              \/ Purge(e, k)
              \/ \E s \in Stamps : Commit(e, k, s)
<1>1. CASE SourceStep
  BY <1>1 DEF SourceStep, Drift, Bump
<1>2. ASSUME NEW d \in Days, Trigger(d) \/ Clear(d) \/ RunStep(d)
      PROVE  UNCHANGED <<source, newest>>
  BY <1>2 DEF Trigger, Clear, RunStep, OpenBatches, OpenGivesUp, Extract, ExtractGivesUp,
              Register, RegisterGivesUp, Gate, sourceVars
<1>3. CASE UNCHANGED vars
  BY <1>3 DEF vars
<1> QED BY <1>1, <1>2, <1>3 DEF Next

(* The newest stamp never moves back. *)
LEMMA NewestSteps ==
  ASSUME TypeOK, [Next]_vars, NEW e \in Entities
  PROVE  newest[e] \in Int /\ newest'[e] \in Int /\ newest[e] <= newest'[e]
<1>1. newest[e] \in Int
  BY DEF TypeOK
<1>2. CASE UNCHANGED <<source, newest>>
  BY <1>1, <1>2
<1>3. ASSUME NEW x \in Entities, NEW k \in Keys, Purge(x, k)
      PROVE  newest' = newest
  BY <1>3 DEF Purge
<1>4. ASSUME NEW x \in Entities, NEW k \in Keys, NEW s \in Stamps, Commit(x, k, s)
      PROVE  newest'[e] \in Int /\ newest[e] <= newest'[e]
  BY <1>1, <1>4 DEF Commit, TypeOK, Stamps
<1> QED BY <1>1, <1>2, <1>3, <1>4, SourceSteps

(* What is new in the source after a step lies at or above any bound that is *)
(* an overlap behind the newest stamp.                                       *)
LEMMA NewRows ==
  ASSUME TypeOK, CommitDelay <= Lag, [Next]_vars,
         NEW e \in Entities, NEW k \in Keys, source'[e][k] > 0,
         NEW f \in Int, f <= newest[e] - Lag
  PROVE  source'[e][k] = source[e][k] \/ source'[e][k] >= f
<1>1. CASE UNCHANGED <<source, newest>>
  BY <1>1
<1>2. ASSUME NEW x \in Entities, NEW y \in Keys, Purge(x, y)
      PROVE  source'[e][k] = source[e][k]
  BY <1>2 DEF Purge, TypeOK
<1>3. ASSUME NEW x \in Entities, NEW y \in Keys, NEW s \in Stamps, Commit(x, y, s),
             source'[e][k] # source[e][k]
      PROVE  source'[e][k] >= f
  <2>1. x = e /\ source'[e][k] = s
    BY <1>3 DEF Commit, TypeOK
  <2>2. s >= newest[e] - CommitDelay /\ s \in Int /\ newest[e] \in Int
    BY <1>3, <2>1 DEF Commit, TypeOK, Stamps
  <2> QED BY <2>1, <2>2, ConstantsAssumption
<1> QED BY <1>1, <1>2, <1>3, SourceSteps

(* Coverage survives a step: the bound is old enough for what is new, and    *)
(* what was held is still held.                                              *)
LEMMA CoveredStep ==
  ASSUME TypeOK, CommitDelay <= Lag, [Next]_vars, NEW e \in Entities,
         NEW held, NEW held2, held \subseteq held2,
         NEW f \in Int \cup {NONE}, f # NONE => f <= newest[e] - Lag,
         Covered(e, held, f),
         NEW k \in Keys, source'[e][k] > 0
  PROVE  <<k, source'[e][k]>> \in held2 \/ f = NONE \/ source'[e][k] >= f
<1>1. CASE f = NONE
  BY <1>1
<1>2. CASE f # NONE
  <2>1. source'[e][k] = source[e][k] \/ source'[e][k] >= f
    BY <1>2, NewRows
  <2> QED BY <1>2, <2>1 DEF Covered, Present
<1> QED BY <1>1, <1>2

-----------------------------------------------------------------------------
(***************************************************************************)
(* Stamps, marks and bounds lie behind the source.                         *)
(***************************************************************************)
(* What a step does to the reports: only the entity's own extract, which ends *)
(* with it, puts one.                                                         *)
LEMMA ReportSteps ==
  ASSUME IngestInv, [Next]_vars, NEW d \in Days, NEW e \in Entities,
         report'[d][e] # NONE,
         \/ report'[d][e] # report[d][e]
         \/ e \in queued[d] /\ e \notin queued'[d]
  PROVE  /\ Extract(d, e) /\ e \in queued[d]
         /\ \E b \in allocated[d] :
              /\ b \in BatchIds /\ b[1] = e /\ b[2] = d
              /\ report'[d][e].batch = b
              /\ \/ ~ report'[d][e].ok /\ report'[d][e].to = NONE
                 \/ /\ report'[d][e].from = registry[b].from
                    /\ report'[d][e].landed = Cardinality(RowsFrom(e, registry[b].from))
                    /\ Observed(RowsFrom(e, registry[b].from), report'[d][e].to)
                    /\ lake' = IF RowsFrom(e, registry[b].from) = {} THEN lake
                               ELSE [lake EXCEPT ![b] = RowsFrom(e, registry[b].from)]
<1>1. ASSUME NEW x \in Days, NEW y \in Entities, ExtractGivesUp(x, y)
      PROVE  FALSE
  <2>1. /\ report' = [report EXCEPT ![x][y] = NONE]
        /\ queued' = [queued EXCEPT ![x] = queued[x] \ {y}]
    BY <1>1 DEF ExtractGivesUp, EndExtract
  <2>2. x # d \/ y # e
    BY <2>1 DEF IngestInv, TypeOK
  <2> QED BY <2>1, <2>2 DEF IngestInv, TypeOK
<1>2. ASSUME NEW x \in Days, NEW y \in Entities, Extract(x, y)
      PROVE  x = d /\ y = e
  <2>1. PICK r : report' = [report EXCEPT ![x][y] = r]
    BY <1>2 DEF Extract, ExtractBreaking, ExtractWindow, EndExtract
  <2>2. queued' = queued \/ queued' = [queued EXCEPT ![x] = queued[x] \ {y}]
    BY <1>2 DEF Extract, ExtractBreaking, ExtractWindow, EndExtract
  <2>3. report'[d][e] # report[d][e] => x = d /\ y = e
    BY <2>1 DEF IngestInv, TypeOK
  <2>4. e \in queued[d] /\ e \notin queued'[d] => x = d /\ y = e
    BY <2>2 DEF IngestInv, TypeOK
  <2> QED BY <2>3, <2>4
<1>3. CASE UNCHANGED <<report, queued>>
  BY <1>3
<1>4. ASSUME NEW x \in Days, Trigger(x) \/ Clear(x) PROVE UNCHANGED <<report, queued>>
  BY <1>4 DEF Trigger, Clear
<1>5. CASE SourceStep
  BY <1>3, <1>5 DEF SourceStep, Purge, Commit, Drift, Bump, runVars
<1>6. CASE UNCHANGED vars
  BY <1>3, <1>6 DEF vars
<1>7. ASSUME NEW x \in Days, RunStep(x)
      PROVE  \/ UNCHANGED <<report, queued>> \/ OpenBatches(x)
             \/ \E y \in Entities : Extract(x, y) \/ ExtractGivesUp(x, y)
  BY <1>7 DEF RunStep, OpenGivesUp, Register, RegisterGivesUp, Gate
<1>7a. ASSUME NEW x \in Days, OpenBatches(x) PROVE FALSE
  <2>1. UNCHANGED report /\ phase[x] = "open"
    BY <1>7a DEF OpenBatches
  <2>2. x # d
    BY <2>1, QueuedBatch DEF IngestInv
  <2>3. queued' = queued \/ queued' = [queued EXCEPT ![x] = Pending(x)]
    BY <1>7a DEF OpenBatches
  <2> QED BY <2>1, <2>2, <2>3 DEF IngestInv, TypeOK
<1>8. Extract(d, e)
  BY <1>1, <1>2, <1>3, <1>4, <1>5, <1>6, <1>7, <1>7a DEF Next
<1>9. e \in queued[d] /\ \A b \in allocated[d] : b \in BatchIds /\ b[2] = d
  BY <1>8, QueuedBatch DEF Extract, IngestInv
<1>10. report \in [Days -> [Entities -> {NONE} \cup Reports]]
  BY DEF IngestInv, TypeOK
<1>11. CASE ExtractBreaking(d, e)
  <2>1. PICK b \in allocated[d] :
          /\ b[1] = e
          /\ report' = [report EXCEPT ![d][e] = [batch |-> b, ok |-> FALSE, from |-> NONE,
                                                 to |-> NONE, landed |-> 0]]
    BY <1>11 DEF ExtractBreaking, EndExtract
  <2>2. report'[d][e] = [batch |-> b, ok |-> FALSE, from |-> NONE, to |-> NONE, landed |-> 0]
    BY <1>10, <2>1
  <2> QED BY <1>8, <1>9, <2>1, <2>2
<1>12. CASE ExtractWindow(d, e)
  <2>1. PICK b \in allocated[d], to \in Stamps \cup {NONE} :
          /\ b[1] = e
          /\ Observed(RowsFrom(e, registry[b].from), to)
          /\ lake' = IF RowsFrom(e, registry[b].from) = {} THEN lake
                     ELSE [lake EXCEPT ![b] = RowsFrom(e, registry[b].from)]
          /\ \/ report' = [report EXCEPT ![d][e] =
                  [batch |-> b, ok |-> TRUE, from |-> registry[b].from, to |-> to,
                   landed |-> Cardinality(RowsFrom(e, registry[b].from))]]
             \/ report' = [report EXCEPT ![d][e] = NONE]
    BY <1>12 DEF ExtractWindow, EndExtract, PutObject
  <2>2. report'[d][e] = [batch |-> b, ok |-> TRUE, from |-> registry[b].from, to |-> to,
                         landed |-> Cardinality(RowsFrom(e, registry[b].from))]
    <3>1. PICK r : /\ report' = [report EXCEPT ![d][e] = r]
                   /\ r = NONE \/ r = [batch |-> b, ok |-> TRUE, from |-> registry[b].from,
                                      to |-> to,
                                      landed |-> Cardinality(RowsFrom(e, registry[b].from))]
      BY <2>1
    <3>2. report'[d][e] = r
      BY <1>10, <3>1
    <3> QED BY <3>1, <3>2
  <2>3. /\ report'[d][e].batch = b /\ report'[d][e].to = to
        /\ report'[d][e].from = registry[b].from
        /\ report'[d][e].landed = Cardinality(RowsFrom(e, registry[b].from))
    BY <2>2
  <2> QED BY <1>8, <1>9, <2>1, <2>3
<1> QED BY <1>8, <1>11, <1>12 DEF Extract

(* What a step does to the rows of the registry: only open moves a window. *)
LEMMA RowSteps ==
  ASSUME IngestInv, [Next]_vars, NEW b \in BatchIds
  PROVE  \/ registry'[b].from = registry[b].from
         \/ registry'[b].from = WindowStart(b[1]) /\ UNCHANGED source
<1>1. registry[b] \in Rows
  BY DEF IngestInv, TypeOK, Rows
<1>2. ASSUME NEW d \in Days, OpenBatches(d)
      PROVE  registry'[b].from \in {registry[b].from, WindowStart(b[1])} /\ UNCHANGED source
  <2>1. PICK pick \in [Pending(d) -> Sequences] : OpenTransaction(d, pick)
    BY <1>2 DEF OpenBatches
  <2>2. ASSUME NEW c
        PROVE  AllocatedRow(registry[b], c, WindowStart(b[1]), d).from = WindowStart(b[1])
    BY <1>1 DEF AllocatedRow, Rows, RowType
  <2>3. registry'[b].from \in {registry[b].from, WindowStart(b[1])}
    BY <2>1, <2>2 DEF OpenTransaction
  <2> QED BY <1>2, <2>3 DEF OpenBatches, sourceVars
<1>3. ASSUME NEW d \in Days, Register(d)
      PROVE  registry'[b].from = registry[b].from
  <2>1. registry'[b] = RegisteredAt(d, b)
    BY <1>3 DEF Register, RegisterTransaction
  <2>2. ASSUME NEW r PROVE FailedRow(registry[b], r).from = registry[b].from
    BY <1>1 DEF FailedRow, Rows, RowType
  <2>3. b[1] \in Reported(d) /\ b = report[d][b[1]].batch =>
          RegisteredRow(WrittenBatch(d, b[1])).from = registry[b].from
    BY <1>1 DEF RegisteredRow, WrittenBatch, WrittenRow, Rows, RowType
  <2> QED BY <2>1, <2>2, <2>3 DEF RegisteredAt
<1>4. CASE UNCHANGED warehouse
  BY <1>4 DEF warehouse
<1>5. ASSUME NEW d \in Days,
             \/ Trigger(d) \/ Clear(d) \/ OpenGivesUp(d) \/ RegisterGivesUp(d) \/ Gate(d)
             \/ \E e \in Entities : Extract(d, e) \/ ExtractGivesUp(d, e)
      PROVE  UNCHANGED warehouse
  BY <1>5 DEF Trigger, Clear, OpenGivesUp, RegisterGivesUp, Gate, Extract, ExtractGivesUp
<1>6. CASE SourceStep
  BY <1>4, <1>6 DEF SourceStep, Purge, Commit, Drift, Bump
<1>7. CASE UNCHANGED vars
  BY <1>4, <1>7 DEF vars, warehouse
<1> QED BY <1>2, <1>3, <1>4, <1>5, <1>6, <1>7 DEF Next, RunStep

(* What a step does to a watermark: a register step moves it to a report. *)
LEMMA MarkSteps ==
  ASSUME IngestInv, [Next]_vars, NEW e \in Entities, watermark'[e] # watermark[e]
  PROVE  \E d \in Days : /\ Register(d) /\ e \in Wrote(d)
                         /\ report[d][e].to # NONE /\ watermark'[e] = report[d][e].to
<1>1. PICK d \in Days : Register(d)
  BY RegistrySteps DEF IngestInv
<1> QED BY <1>1 DEF Register, RegisterTransaction, AdvancedMark

(* Every step keeps marks, reports and bounds behind the source. *)
LEMMA StampStep ==
  ASSUME IngestInv, StampInv, [Next]_vars
  PROVE  StampInv'
<1>1. TypeOK /\ TypeOK'
  BY TypeStep DEF IngestInv
<1>2. ASSUME NEW e \in Entities, NEW k \in Keys
      PROVE  source'[e][k] <= newest'[e]
  <2>1. source[e][k] \in Int /\ newest[e] \in Int /\ source[e][k] <= newest[e]
    BY <1>1 DEF TypeOK, StampInv
  <2>2. CASE UNCHANGED <<source, newest>>
    BY <2>1, <2>2
  <2>3. ASSUME NEW x \in Entities, NEW y \in Keys, Purge(x, y)
        PROVE  source'[e][k] <= newest'[e]
    <3>1. newest' = newest /\ source'[e][k] \in {source[e][k], -1}
      BY <1>1, <2>3 DEF Purge, TypeOK
    <3>2. newest[e] >= -1
      BY <1>1, ConstantsAssumption DEF TypeOK
    <3> QED BY <2>1, <3>1, <3>2
  <2>4. ASSUME NEW x \in Entities, NEW y \in Keys, NEW s \in Stamps, Commit(x, y, s)
        PROVE  source'[e][k] <= newest'[e]
    <3>1. s \in Int
      BY DEF Stamps
    <3>2. CASE x = e
      <4>1. newest'[e] = IF s > newest[e] THEN s ELSE newest[e]
        BY <1>1, <2>4, <3>2 DEF Commit, TypeOK
      <4>2. source'[e][k] \in {source[e][k], s}
        BY <1>1, <2>4, <3>2 DEF Commit, TypeOK
      <4> QED BY <2>1, <3>1, <4>1, <4>2
    <3>3. CASE x # e
      <4>1. newest'[e] = newest[e] /\ source'[e] = source[e]
        BY <1>1, <2>4, <3>3 DEF Commit, TypeOK
      <4> QED BY <2>1, <4>1
    <3> QED BY <3>2, <3>3
  <2> QED BY <2>2, <2>3, <2>4, SourceSteps
<1>3. ASSUME NEW d \in Days, NEW e \in Entities, report'[d][e] # NONE, report'[d][e].to # NONE
      PROVE  report'[d][e].to <= newest'[e]
  <2>1. newest[e] \in Int /\ newest'[e] \in Int /\ newest[e] <= newest'[e]
    BY <1>1, NewestSteps
  <2>2. report'[d][e].to \in Stamps
    BY <1>1, <1>3 DEF TypeOK, Reports
  <2>3. report'[d][e].to <= newest[e]
    <3>1. CASE report'[d][e] = report[d][e]
      BY <1>3, <3>1 DEF StampInv
    <3>2. CASE report'[d][e] # report[d][e]
      <4>1. PICK b \in allocated[d] : Observed(RowsFrom(e, registry[b].from), report'[d][e].to)
        BY <1>3, <3>2, ReportSteps
      <4>2. \E v \in RowsFrom(e, registry[b].from) : v[2] = report'[d][e].to
        BY <1>3, <4>1 DEF Observed
      <4>3. \E k \in Keys : report'[d][e].to = source[e][k]
        BY <4>2 DEF RowsFrom
      <4> QED BY <4>3 DEF StampInv
    <3> QED BY <3>1, <3>2
  <2> QED BY <2>1, <2>2, <2>3 DEF Stamps
<1>4. ASSUME NEW e \in Entities, watermark'[e] # NONE
      PROVE  watermark'[e] <= newest'[e]
  <2>1. newest[e] \in Int /\ newest'[e] \in Int /\ newest[e] <= newest'[e]
    BY <1>1, NewestSteps
  <2>2. watermark'[e] \in Stamps
    BY <1>1, <1>4 DEF TypeOK
  <2>3. watermark'[e] <= newest[e]
    <3>1. CASE watermark'[e] = watermark[e]
      BY <1>4, <3>1 DEF StampInv
    <3>2. CASE watermark'[e] # watermark[e]
      <4>1. PICK d \in Days : e \in Wrote(d) /\ report[d][e].to # NONE
                              /\ watermark'[e] = report[d][e].to
        BY <3>2, MarkSteps
      <4> QED BY <4>1 DEF Wrote, Reported, StampInv
    <3> QED BY <3>1, <3>2
  <2> QED BY <2>1, <2>2, <2>3 DEF Stamps
<1>5. ASSUME NEW b \in BatchIds, registry'[b].from # NONE
      PROVE  registry'[b].from <= newest'[b[1]] - Lag
  <2>1. b[1] \in Entities
    BY BatchParts
  <2>2. newest[b[1]] \in Int /\ newest'[b[1]] \in Int /\ newest[b[1]] <= newest'[b[1]]
    BY <1>1, <2>1, NewestSteps
  <2>3. registry'[b].from \in Int
    BY <1>1, <1>5 DEF TypeOK, RowType
  <2>4. registry'[b].from <= newest[b[1]] - Lag
    <3>1. CASE registry'[b].from = registry[b].from
      BY <1>5, <3>1 DEF StampInv
    <3>2. CASE registry'[b].from = WindowStart(b[1])
      <4>1. watermark[b[1]] # NONE /\ registry'[b].from = watermark[b[1]] - Lag
        BY <1>5, <3>2 DEF WindowStart
      <4>2. watermark[b[1]] \in Stamps /\ watermark[b[1]] <= newest[b[1]]
        BY <1>1, <2>1, <4>1 DEF TypeOK, StampInv
      <4> QED BY <2>2, <4>1, <4>2, ConstantsAssumption DEF Stamps
    <3> QED BY <3>1, <3>2, RowSteps
  <2> QED BY <2>2, <2>3, <2>4, ConstantsAssumption
<1> QED BY <1>2, <1>3, <1>4, <1>5 DEF StampInv

-----------------------------------------------------------------------------
(***************************************************************************)
(* Windows cover what bronze lacks.                                        *)
(***************************************************************************)
LEMMA LandedGrows ==
  ASSUME IngestInv, [Next]_vars, NEW e \in Entities
  PROVE  Landed(e) \subseteq Landed(e)'
  BY RegisteredKept DEF Landed, Kept, LakeKept, Registered

(* The batch of a queued extract was queued before the step, or open has     *)
(* just given it the next window.                                            *)
LEMMA QueuedSteps ==
  ASSUME IngestInv, [Next]_vars, NEW d \in Days, NEW e \in queued'[d],
         NEW b \in allocated'[d], b[1] = e
  PROVE  \/ e \in queued[d] /\ b \in allocated[d] /\ registry'[b] = registry[b]
         \/ registry'[b].from = WindowStart(e) /\ UNCHANGED source
<1>0. TypeOK /\ AllocationInv /\ CommitInv /\ TypeOK'
  BY TypeStep DEF IngestInv
<1>1. CASE UNCHANGED <<allocated, queued, registry>>
  BY <1>1
<1>2. CASE SourceStep
  BY <1>1, <1>2 DEF SourceStep, Purge, Commit, Drift, Bump, runVars, warehouse
<1>3. ASSUME NEW x \in Days,
             Trigger(x) \/ Clear(x) \/ OpenGivesUp(x) \/ RegisterGivesUp(x)
      PROVE  UNCHANGED <<allocated, queued, registry>>
  BY <1>3 DEF Trigger, Clear, OpenGivesUp, RegisterGivesUp, warehouse
<1>4. ASSUME NEW x \in Days, Gate(x)
      PROVE  e \in queued[d] /\ b \in allocated[d] /\ registry'[b] = registry[b]
  <2>1. queued' = queued /\ registry' = registry /\ allocated' = [allocated EXCEPT ![x] = NONE]
        /\ phase[x] = "gate"
    BY <1>4 DEF Gate, warehouse
  <2>2. x # d
    BY <1>0, <2>1, QueuedBatch
  <2> QED BY <1>0, <2>1, <2>2 DEF TypeOK
<1>5. ASSUME NEW x \in Days, NEW y \in Entities, Extract(x, y) \/ ExtractGivesUp(x, y)
      PROVE  e \in queued[d] /\ b \in allocated[d] /\ registry'[b] = registry[b]
  <2>1. UNCHANGED <<allocated, registry>>
    BY <1>5 DEF Extract, ExtractGivesUp, warehouse
  <2>2. queued'[d] \subseteq queued[d]
    <3>1. queued' = queued \/ queued' = [queued EXCEPT ![x] = @ \ {y}]
      BY <1>5 DEF Extract, ExtractGivesUp, ExtractBreaking, ExtractWindow, EndExtract
    <3> QED BY <1>0, <3>1 DEF TypeOK
  <2> QED BY <2>1, <2>2
<1>6. ASSUME NEW x \in Days, Register(x)
      PROVE  e \in queued[d] /\ b \in allocated[d] /\ registry'[b] = registry[b]
  <2>1. /\ UNCHANGED <<allocated, queued>> /\ queued[x] = {}
        /\ ~ Refused(x) /\ RegisterTransaction(x)
    BY <1>6 DEF Register, ReadyToRegister
  <2>2. x # d /\ b \in BatchIds /\ b[2] = d
    BY <1>0, <2>1, QueuedBatch
  <2> QED BY <1>0, <2>1, <2>2, RegisterEffect
<1>7. ASSUME NEW x \in Days, OpenBatches(x)
      PROVE  \/ e \in queued[d] /\ b \in allocated[d] /\ registry'[b] = registry[b]
             \/ registry'[b].from = WindowStart(e) /\ UNCHANGED source
  <2>1. PICK pick \in [Pending(x) -> Sequences] :
          /\ OpenTransaction(x, pick)
          /\ \/ /\ allocated' = [allocated EXCEPT ![x] = {<<y, x, pick[y]>> : y \in Pending(x)}]
                /\ queued' = [queued EXCEPT ![x] = Pending(x)]
             \/ UNCHANGED <<allocated, queued>>
    BY <1>7 DEF OpenBatches
  <2>2. UNCHANGED source /\ phase[x] = "open"
    BY <1>7 DEF OpenBatches, sourceVars
  <2>3. CASE x # d
    <3>1. allocated'[d] = allocated[d] /\ queued'[d] = queued[d]
      BY <1>0, <2>1, <2>3 DEF TypeOK
    <3>2. b \in BatchIds /\ b[2] = d
      BY <1>0, <3>1, QueuedBatch
    <3> QED BY <1>0, <2>1, <2>3, <3>1, <3>2, OpenEffect
  <2>4. CASE x = d
    <3>1. queued[d] = {}
      BY <1>0, <2>2, <2>4 DEF AllocationInv
    <3>2. allocated'[d] = {<<y, d, pick[y]>> : y \in Pending(d)}
      BY <1>0, <2>1, <2>4, <3>1 DEF TypeOK
    <3>3. e \in Pending(d) /\ b = <<e, d, pick[e]>>
      BY <3>2
    <3>4. b \in BatchIds /\ registry[b] \in Rows
      BY <1>0, <2>4, <3>3 DEF Pending, BatchIds, TypeOK, Rows
    <3>5. registry'[b] = AllocatedRow(registry[b], ContractFor(e, d), WindowStart(e), d)
      BY <2>1, <2>4, <3>3, <3>4 DEF OpenTransaction
    <3>6. registry'[b].from = WindowStart(e)
      BY <3>4, <3>5 DEF AllocatedRow, Rows, RowType
    <3> QED BY <2>2, <3>6
  <2> QED BY <2>3, <2>4
<1>8. CASE UNCHANGED vars
  BY <1>1, <1>8 DEF vars
<1> QED BY <1>1, <1>2, <1>3, <1>4, <1>5, <1>6, <1>7, <1>8 DEF Next, RunStep

(* Only open allocates, and what it allocates it queues. *)
LEMMA AllocatedSteps ==
  ASSUME IngestInv, [Next]_vars, NEW d \in Days, NEW e \in Entities, e \notin queued'[d],
         allocated'[d] # NONE, NEW b \in allocated'[d], b[1] = e
  PROVE  allocated'[d] = allocated[d]
<1>0. TypeOK /\ AllocationInv
  BY DEF IngestInv
<1>1. ASSUME NEW x \in Days, Gate(x) PROVE allocated'[d] = allocated[d]
  BY <1>0, <1>1 DEF Gate, TypeOK
<1>2. ASSUME NEW x \in Days, OpenBatches(x) PROVE allocated'[d] = allocated[d]
  <2>1. PICK pick :
          \/ /\ allocated' = [allocated EXCEPT ![x] = {<<y, x, pick[y]>> : y \in Pending(x)}]
             /\ queued' = [queued EXCEPT ![x] = Pending(x)]
          \/ UNCHANGED <<allocated, queued>>
    BY <1>2 DEF OpenBatches
  <2>2. CASE /\ allocated' = [allocated EXCEPT ![x] = {<<y, x, pick[y]>> : y \in Pending(x)}]
             /\ queued' = [queued EXCEPT ![x] = Pending(x)]
    <3>1. ASSUME x = d PROVE FALSE
      <4>1. b \in {<<y, d, pick[y]>> : y \in Pending(d)} /\ queued'[d] = Pending(d)
        BY <1>0, <2>2, <3>1 DEF TypeOK
      <4>2. b[1] \in Pending(d)
        BY <4>1
      <4> QED BY <4>1, <4>2
    <3> QED BY <1>0, <2>2, <3>1 DEF TypeOK
  <2> QED BY <2>1, <2>2
<1>3. ASSUME NEW x \in Days, Trigger(x) \/ Clear(x) PROVE UNCHANGED allocated
  BY <1>3 DEF Trigger, Clear
<1>4. ASSUME NEW x \in Days, RunStep(x)
      PROVE  OpenBatches(x) \/ Gate(x) \/ UNCHANGED allocated
  BY <1>4 DEF RunStep, OpenGivesUp, Extract, ExtractGivesUp, Register, RegisterGivesUp
<1>5. CASE SourceStep
  BY <1>5 DEF SourceStep, Purge, Commit, Drift, Bump, runVars
<1>6. CASE UNCHANGED vars
  BY <1>6 DEF vars
<1> QED BY <1>1, <1>2, <1>3, <1>4, <1>5, <1>6 DEF Next

(* A report register may use was usable before the step, or its extract has  *)
(* just written it.                                                          *)
LEMMA ReportedSteps ==
  ASSUME IngestInv, [Next]_vars, NEW d \in Days, NEW e \in Wrote(d)', e \notin queued'[d]
  PROVE  \/ /\ e \in Wrote(d) /\ e \notin queued[d] /\ report'[d][e] = report[d][e]
            /\ lake'[report[d][e].batch] = lake[report[d][e].batch]
         \/ \E b \in allocated[d] :
              /\ e \in queued[d] /\ b \in BatchIds /\ b[1] = e /\ b[2] = d
              /\ report'[d][e].batch = b /\ report'[d][e].from = registry[b].from
              /\ report'[d][e].landed = Cardinality(RowsFrom(e, registry[b].from))
              /\ Observed(RowsFrom(e, registry[b].from), report'[d][e].to)
              /\ lake' = IF RowsFrom(e, registry[b].from) = {} THEN lake
                         ELSE [lake EXCEPT ![b] = RowsFrom(e, registry[b].from)]
<1>0. TypeOK /\ AllocationInv /\ CommitInv /\ TypeOK' /\ AllocationInv'
  BY TypeStep, AllocationStep DEF IngestInv
<1>1. /\ e \in Entities /\ report'[d][e] # NONE /\ allocated'[d] # NONE
      /\ report'[d][e].batch \in allocated'[d] /\ report'[d][e].ok
  BY DEF Wrote, Reported
<1>2. CASE \/ report'[d][e] # report[d][e]
           \/ e \in queued[d] /\ e \notin queued'[d]
  BY <1>1, <1>2, ReportSteps
<1>3. CASE report'[d][e] = report[d][e] /\ e \notin queued[d]
  <2>1. allocated'[d] = allocated[d]
    <3>1. report'[d][e].batch[1] = e
      BY <1>0, <1>1 DEF AllocationInv
    <3> QED BY <1>1, <3>1, AllocatedSteps
  <2>2. report[d][e].batch[1] = e /\ report[d][e].batch[2] = d
    BY <1>0, <1>1, <1>3 DEF AllocationInv
  <2>3. lake'[report[d][e].batch] = lake[report[d][e].batch]
    <3>1. CASE UNCHANGED lake
      BY <3>1
    <3>2. ASSUME NEW x \in Days, NEW y \in queued[x], NEW c \in allocated[x],
                 c \in BatchIds, c[1] = y, c[2] = x,
                 lake' = [lake EXCEPT ![c] = RowsFrom(y, registry[c].from)]
          PROVE  lake'[report[d][e].batch] = lake[report[d][e].batch]
      <4>1. c # report[d][e].batch
        BY <1>3, <2>2, <3>2
      <4>2. report[d][e].batch \in BatchIds
        BY <1>0, <1>1, <1>3 DEF TypeOK, Reports
      <4> QED BY <1>0, <3>2, <4>1, <4>2 DEF TypeOK
    <3> QED BY <3>1, <3>2, LakeSteps
  <2> QED BY <1>1, <1>3, <2>1, <2>3 DEF Wrote, Reported
<1> QED BY <1>2, <1>3

(* The same for a report of rows, whose object holds them. *)
LEMMA WroteSteps ==
  ASSUME IngestInv, [Next]_vars, NEW d \in Days, NEW e \in Wrote(d)', e \notin queued'[d],
         report'[d][e].to # NONE
  PROVE  \/ /\ e \in Wrote(d) /\ e \notin queued[d] /\ report'[d][e] = report[d][e]
            /\ lake'[report[d][e].batch] = lake[report[d][e].batch]
         \/ \E b \in allocated[d] :
              /\ e \in queued[d] /\ b \in BatchIds /\ b[1] = e /\ report'[d][e].batch = b
              /\ lake'[b] = RowsFrom(e, registry[b].from)
              /\ Observed(lake'[b], report'[d][e].to)
<1>1. ASSUME NEW b \in BatchIds, NEW rows, Observed(rows, report'[d][e].to),
             lake' = IF rows = {} THEN lake ELSE [lake EXCEPT ![b] = rows]
      PROVE  lake'[b] = rows
  BY <1>1 DEF Observed, IngestInv, TypeOK
<1> QED BY <1>1, ReportedSteps

(* A queued extract keeps its window, or open has just given it one. *)
LEMMA QueuedWindowStep ==
  ASSUME IngestInv, LossInv, CommitDelay <= Lag, [Next]_vars,
         NEW d \in Days, NEW e \in queued'[d], NEW b \in allocated'[d], b[1] = e
  PROVE  Covered(e, Landed(e), registry[b].from)'
<1>0. TypeOK /\ AllocationInv /\ TypeOK' /\ AllocationInv'
  BY TypeStep, AllocationStep DEF IngestInv
<1>1. /\ e \in Entities /\ b \in BatchIds
      /\ Landed(e) \subseteq Landed(e)'
  <2>1. e \in Entities /\ allocated'[d] # NONE
    BY <1>0 DEF TypeOK, AllocationInv
  <2>2. b \in BatchIds
    BY <1>0, <2>1 DEF TypeOK
  <2> QED BY <2>1, <2>2, LandedGrows
<1>2. CASE e \in queued[d] /\ b \in allocated[d] /\ registry'[b] = registry[b]
  <2>1. Covered(e, Landed(e), registry[b].from)
    BY <1>2 DEF LossInv, WindowInv
  <2>2. /\ registry[b].from \in Int \cup {NONE}
        /\ registry[b].from # NONE => registry[b].from <= newest[e] - Lag
    BY <1>0, <1>1 DEF TypeOK, RowType, LossInv, StampInv
  <2> QED BY <1>0, <1>1, <1>2, <2>1, <2>2, CoveredStep DEF Covered, Present
<1>3. CASE registry'[b].from = WindowStart(e) /\ UNCHANGED source
  BY <1>1, <1>3 DEF WindowStart, LossInv, NoRowIsLost, Covered, Present
<1> QED BY <1>2, <1>3, QueuedSteps

(* And a report the coverage of its maximum. *)
LEMMA WroteWindowStep ==
  ASSUME IngestInv, LossInv, CommitDelay <= Lag, [Next]_vars,
         NEW d \in Days, NEW e \in Wrote(d)', e \notin queued'[d], report'[d][e].to # NONE
  PROVE  Covered(e, Landed(e) \cup lake[report[d][e].batch], report[d][e].to - Lag)'
<1>0. TypeOK /\ AllocationInv /\ TypeOK' /\ StampInv'
  BY TypeStep, StampStep DEF IngestInv, LossInv
<1>1. /\ e \in Entities /\ report'[d][e] # NONE
      /\ Landed(e) \subseteq Landed(e)'
  BY LandedGrows DEF Wrote, Reported
<1>2. report'[d][e].to \in Stamps
  BY <1>0, <1>1 DEF TypeOK, Reports
<1>3. CASE /\ e \in Wrote(d) /\ e \notin queued[d] /\ report'[d][e] = report[d][e]
           /\ lake'[report[d][e].batch] = lake[report[d][e].batch]
  <2> DEFINE f == report[d][e].to - Lag
             held == Landed(e) \cup lake[report[d][e].batch]
             held2 == Landed(e)' \cup lake'[report[d][e].batch]
  <2>1. Covered(e, held, f)
    BY <1>3 DEF LossInv, WindowInv
  <2>2. f \in Int \cup {NONE} /\ f <= newest[e] - Lag /\ f # NONE
    <3>1. report[d][e].to <= newest[e] /\ newest[e] \in Int /\ report[d][e].to \in Int
      BY <1>0, <1>1, <1>2, <1>3 DEF LossInv, StampInv, TypeOK, Stamps
    <3> QED BY <3>1, ConstantsAssumption, NoneAssumption
  <2>3. held \subseteq held2
    BY <1>1, <1>3
  <2> HIDE DEF f, held, held2
  <2>4. \A k \in Keys : source'[e][k] > 0 =>
          <<k, source'[e][k]>> \in held2 \/ source'[e][k] >= f
    BY <1>0, <1>1, <2>1, <2>2, <2>3, CoveredStep
  <2> QED BY <1>3, <2>4 DEF Covered, Present, f, held2
<1>4. ASSUME NEW b \in allocated[d], e \in queued[d], b \in BatchIds, b[1] = e,
             report'[d][e].batch = b, lake'[b] = RowsFrom(e, registry[b].from)
      PROVE  Covered(e, Landed(e) \cup lake[report[d][e].batch], report[d][e].to - Lag)'
  <2>1. Covered(e, Landed(e), registry[b].from)
    BY <1>4 DEF LossInv, WindowInv
  <2>2. \A k \in Keys : Present(e, k) => <<k, source[e][k]>> \in Landed(e) \cup lake'[b]
    BY <1>4, <2>1 DEF Covered, RowsFrom
  <2>3. UNCHANGED source
    <3>1. Extract(d, e)
      <4>1. report'[d][e] # report[d][e] \/ e \notin queued'[d]
        BY DEF Wrote
      <4> QED BY <1>1, <1>4, <4>1, ReportSteps
    <3> QED BY <3>1 DEF Extract, sourceVars
  <2> QED BY <1>1, <1>4, <2>2, <2>3 DEF Covered, Present
<1> QED BY <1>3, <1>4, WroteSteps

(* A register step moves the watermark only as far as its objects cover. *)
LEMMA NoLossStep ==
  ASSUME IngestInv, LossInv, CommitDelay <= Lag, [Next]_vars
  PROVE  NoRowIsLost'
<1>0. TypeOK /\ AllocationInv /\ CommitInv /\ TypeOK'
  BY TypeStep DEF IngestInv
<1> SUFFICES ASSUME NEW e \in Entities, NEW k \in Keys, source'[e][k] > 0,
                    watermark'[e] # NONE
             PROVE  <<k, source'[e][k]>> \in Landed(e)' \/ source'[e][k] >= watermark'[e] - Lag
  BY DEF NoRowIsLost, Present
<1>1. Landed(e) \subseteq Landed(e)'
  BY LandedGrows
<1>2. CASE watermark'[e] = watermark[e]
  <2> DEFINE f == watermark[e] - Lag
  <2>1. f \in Int \cup {NONE} /\ f <= newest[e] - Lag /\ f # NONE
    <3>1. watermark[e] \in Int /\ newest[e] \in Int /\ watermark[e] <= newest[e]
      BY <1>0, <1>2 DEF TypeOK, Stamps, LossInv, StampInv
    <3> QED BY <3>1, ConstantsAssumption, NoneAssumption
  <2>2. Covered(e, Landed(e), f)
    BY <1>2 DEF LossInv, NoRowIsLost, Covered
  <2> HIDE DEF f
  <2>3. <<k, source'[e][k]>> \in Landed(e)' \/ source'[e][k] >= f
    BY <1>0, <1>1, <2>1, <2>2, CoveredStep
  <2> QED BY <1>2, <2>3 DEF f
<1>3. CASE watermark'[e] # watermark[e]
  <2>1. PICK d \in Days : /\ Register(d) /\ e \in Wrote(d)
                          /\ report[d][e].to # NONE /\ watermark'[e] = report[d][e].to
    BY <1>3, MarkSteps
  <2>2. /\ ~ Refused(d) /\ RegisterTransaction(d) /\ queued[d] = {}
        /\ UNCHANGED <<source, lake>>
    BY <2>1 DEF Register, ReadyToRegister, sourceVars
  <2>3. Covered(e, Landed(e) \cup lake[report[d][e].batch], report[d][e].to - Lag)
    BY <2>1, <2>2 DEF LossInv, WindowInv
  <2>4. lake[report[d][e].batch] \subseteq Landed(e)'
    <3>1. /\ report[d][e].batch \in BatchIds /\ report[d][e].batch[1] = e
          /\ registry'[report[d][e].batch].status = "registered"
      BY <1>0, <2>1, <2>2, WroteEffect
    <3> QED BY <2>2, <3>1 DEF Landed, Registered
  <2>5. report[d][e].to - Lag # NONE
    <3>1. report[d][e].to \in Int
      BY <1>0, <2>1 DEF TypeOK, Stamps
    <3> QED BY <3>1, ConstantsAssumption, NoneAssumption
  <2> QED BY <1>1, <2>1, <2>2, <2>3, <2>4, <2>5 DEF Covered, Present
<1> QED BY <1>2, <1>3
-----------------------------------------------------------------------------
(* The loss invariant holds at first. *)
LEMMA LossInit == Init => LossInv
<1> SUFFICES ASSUME Init PROVE LossInv
  OBVIOUS
<1>1. StampInv
  BY ConstantsAssumption DEF Init, StampInv, AbsentRow
<1>2. \A d \in Days : queued[d] = {} /\ Wrote(d) = {}
  BY DEF Init, Wrote, Reported
<1>3. WindowInv
  BY <1>2 DEF WindowInv
<1>4. NoRowIsLost
  BY DEF Init, NoRowIsLost
<1> QED BY <1>1, <1>3, <1>4 DEF LossInv

(* And every step keeps it. *)
LEMMA LossStep ==
  ASSUME IngestInv, LossInv, CommitDelay <= Lag, [Next]_vars
  PROVE  LossInv'
<1>1. StampInv'
  BY StampStep DEF LossInv
<1>2. WindowInv'
  BY QueuedWindowStep, WroteWindowStep DEF WindowInv
<1> QED BY <1>1, <1>2, NoLossStep DEF LossInv

(* No committed row is lost, through retries, clears, failures, overlapping  *)
(* runs and late commits, while no commit lands further below the newest     *)
(* visible stamp than EXTRACT_LAG, the overlap read_window gives a window.   *)
THEOREM NoLossCorrect == CommitDelay <= Lag /\ Spec => []NoRowIsLost
<1>1. CASE CommitDelay <= Lag
  <2>1. IngestInv /\ LossInv /\ [Next]_vars => LossInv'
    BY <1>1, LossStep
  <2>2. LossInv => NoRowIsLost
    BY DEF LossInv
  <2> QED BY <2>1, <2>2, LossInit, IngestInvariant, PTL DEF Spec
<1>2. CASE ~ (CommitDelay <= Lag)
  BY <1>2
<1> QED BY <1>1, <1>2
-----------------------------------------------------------------------------
(***************************************************************************)
(* The promise to the readers of bronze.                                   *)
(***************************************************************************)
(* No step takes the object from under a report. *)
LEMMA ReportDescribesStep ==
  ASSUME IngestInv, ReportDescribesObject, [Next]_vars
  PROVE  ReportDescribesObject'
<1> SUFFICES ASSUME NEW d \in Days, NEW e \in Wrote(d)', e \notin queued'[d],
                    report'[d][e].to # NONE
             PROVE  \E v \in lake'[report'[d][e].batch] : v[2] = report'[d][e].to
  BY DEF ReportDescribesObject
<1>1. CASE /\ e \in Wrote(d) /\ e \notin queued[d] /\ report'[d][e] = report[d][e]
           /\ lake'[report[d][e].batch] = lake[report[d][e].batch]
  BY <1>1 DEF ReportDescribesObject
<1>2. ASSUME NEW b \in allocated[d], report'[d][e].batch = b,
             Observed(lake'[b], report'[d][e].to)
      PROVE  \E v \in lake'[b] : v[2] = report'[d][e].to
  BY <1>2 DEF Observed
<1> QED BY <1>1, <1>2, WroteSteps

(* The maximum a finished extract reports is held by its object until        *)
(* register uses the report.                                                 *)
THEOREM ReportCorrect == Spec => []ReportDescribesObject
<1>1. Init => ReportDescribesObject
  BY DEF Init, ReportDescribesObject, Wrote, Reported
<1>2. IngestInv /\ ReportDescribesObject /\ [Next]_vars => ReportDescribesObject'
  BY ReportDescribesStep
<1> QED BY <1>1, <1>2, IngestInvariant, PTL DEF Spec

Partition(e, d) ==
  {v \in Versions : \E n \in Sequences :
     Registered(<<e, d, n>>) /\ v \in lake[<<e, d, n>>]}

(* The partitions of bronze, by entity and day. *)
LEMMA Slot ==
  \A s \in Entities \X Days : s[1] \in Entities /\ s[2] \in Days /\ s = <<s[1], s[2]>>
  OBVIOUS

(* What a reader finds in one. *)
LEMMA PublishedAt ==
  ASSUME NEW e \in Entities, NEW d \in Days
  PROVE  /\ Published[<<e, d>>] = IF HasRegistered(e, d) THEN Partition(e, d) ELSE NONE
         /\ Partition(e, d) # NONE
  BY NoneAssumption DEF Published, Partition

(* An interval whose batch is registered reads the same after any step. *)
LEMMA PublishedKept ==
  ASSUME IngestInv, [Next]_vars, NEW e \in Entities, NEW d \in Days, HasRegistered(e, d)
  PROVE  HasRegistered(e, d)' /\ Partition(e, d)' = Partition(e, d)
<1>1. Kept /\ LakeKept /\ OneBatchPerInterval'
  BY RegisteredKept, IngestStep DEF IngestInv
<1>2. \A n \in Sequences : <<e, d, n>> \in BatchIds
  BY DEF BatchIds
<1>3. PICK m \in Sequences : Registered(<<e, d, m>>)
  BY DEF HasRegistered, Registered
<1>4. registry'[<<e, d, m>>].status = "registered" /\ lake'[<<e, d, m>>] = lake[<<e, d, m>>]
  BY <1>1, <1>2, <1>3 DEF Kept, LakeKept, Registered
<1>5. \A n \in Sequences : registry'[<<e, d, n>>].status = "registered" => n = m
  BY <1>1, <1>2, <1>4 DEF OneBatchPerInterval, Registered
<1>6. \A n \in Sequences : Registered(<<e, d, n>>) => n = m
  BY <1>2, <1>3 DEF IngestInv, OneBatchPerInterval
<1> QED BY <1>3, <1>4, <1>5, <1>6 DEF HasRegistered, Partition, Registered

(* A register step publishes, at once, what it registered. *)
LEMMA PublishStep ==
  ASSUME IngestInv, ReportDescribesObject, [Next]_vars, NEW d \in Days, Register(d)
  PROVE  Bronze!Publish(d, Wrote(d))
<1>0. TypeOK /\ AllocationInv /\ CommitInv /\ TypeOK'
  BY TypeStep DEF IngestInv
<1>1. /\ ~ Refused(d) /\ RegisterTransaction(d) /\ queued[d] = {} /\ UNCHANGED lake
  BY DEF Register, ReadyToRegister
<1>2. ASSUME NEW e \in Wrote(d)
      PROVE  /\ e \in Entities /\ ~ HasRegistered(e, d) /\ HasRegistered(e, d)'
             /\ lake[report[d][e].batch] \subseteq Partition(e, d)'
  <2>1. /\ e \in Entities /\ report[d][e].batch \in allocated[d]
        /\ report[d][e].batch \in BatchIds /\ report[d][e].batch[1] = e
        /\ report[d][e].batch[2] = d
        /\ registry'[report[d][e].batch].status = "registered"
    BY <1>0, <1>1, WroteEffect
  <2>2. ~ HasRegistered(e, d)
    BY <1>0, <1>1, <2>1, BeforeRegister DEF AllOpen
  <2>3. report[d][e].batch = <<e, d, report[d][e].batch[3]>>
        /\ report[d][e].batch[3] \in Sequences
    BY <2>1, BatchParts
  <2>4. lake[report[d][e].batch] \subseteq Versions
    BY <1>0, <2>1 DEF TypeOK
  <2> QED BY <1>1, <2>1, <2>2, <2>3, <2>4 DEF HasRegistered, Partition, Registered
<1>3. ASSUME NEW e \in Entities, NEW x \in Days, ~ (e \in Wrote(d) /\ x = d)
      PROVE  Published'[<<e, x>>] = Published[<<e, x>>]
  <2>1. CASE HasRegistered(e, x)
    BY <2>1, PublishedKept DEF Published, Partition
  <2>2. CASE ~ HasRegistered(e, x)
    <3>1. ASSUME NEW n \in Sequences, registry'[<<e, x, n>>].status = "registered"
          PROVE  FALSE
      <4>1. <<e, x, n>> \in BatchIds /\ ~ Registered(<<e, x, n>>)
        BY <2>2 DEF BatchIds, HasRegistered, Registered
      <4>2. <<e, x, n>>[1] \in Wrote(d) /\ <<e, x, n>> = report[d][e].batch
        BY <1>0, <1>1, <3>1, <4>1, RegisterEffect
      <4>3. report[d][e].batch[2] = d
        BY <1>0, <1>1, <4>2, WroteEffect
      <4> QED BY <1>3, <4>2, <4>3
    <3> QED BY <2>2, <3>1 DEF Published, HasRegistered
  <2> QED BY <2>1, <2>2
<1>4. Published' = [s \in Bronze!Slots |->
         IF s[1] \in Wrote(d) /\ s[2] = d THEN Published'[s] ELSE Published[s]]
  <2>1. \A s \in Entities \X Days : ~ (s[1] \in Wrote(d) /\ s[2] = d) => Published'[s] = Published[s]
    BY <1>3, Slot
  <2>2. Published' = [s \in Entities \X Days |-> Published'[s]]
    BY DEF Published
  <2> HIDE DEF Published
  <2> QED BY <2>1, <2>2 DEF Bronze!Slots
<1>5. watermark' = [e \in Entities |-> IF e \in Wrote(d) THEN watermark'[e] ELSE watermark[e]]
  BY <1>1 DEF RegisterTransaction
<1>6. ASSUME NEW e \in Wrote(d)
      PROVE  /\ Published[<<e, d>>] = NONE /\ Published'[<<e, d>>] # NONE
             /\ \/ watermark'[e] = watermark[e]
                \/ \E v \in Published'[<<e, d>>] : watermark'[e] = v[2]
  <2>1. Published[<<e, d>>] = NONE
    BY <1>2, PublishedAt
  <2>2. Published'[<<e, d>>] = Partition(e, d)' /\ Published'[<<e, d>>] # NONE
    BY <1>2, NoneAssumption DEF Published, Partition
  <2>3. watermark'[e] = AdvancedMark(watermark[e], report[d][e].to)
    BY <1>1, <1>2 DEF RegisterTransaction
  <2>4. CASE report[d][e].to = NONE
    BY <2>1, <2>2, <2>3, <2>4 DEF AdvancedMark
  <2>5. CASE report[d][e].to # NONE
    <3>1. PICK v \in lake[report[d][e].batch] : v[2] = report[d][e].to
      BY <1>1, <2>5 DEF ReportDescribesObject
    <3> QED BY <1>2, <2>1, <2>2, <2>3, <2>5, <3>1 DEF AdvancedMark
  <2> QED BY <2>4, <2>5
<1> QED BY <1>4, <1>5, <1>6 DEF Bronze!Publish

(* Any other step leaves readers what they have. *)
LEMMA UnpublishedStep ==
  ASSUME IngestInv, [Next]_vars, NoneRegistered
  PROVE  UNCHANGED Published
<1>1. ASSUME NEW e \in Entities, NEW d \in Days
      PROVE  Published'[<<e, d>>] = Published[<<e, d>>]
  <2>1. CASE HasRegistered(e, d)
    BY <2>1, PublishedKept DEF Published, Partition
  <2>2. CASE ~ HasRegistered(e, d)
    <3>1. \A n \in Sequences : <<e, d, n>> \in BatchIds
      BY DEF BatchIds
    <3>2. ~ HasRegistered(e, d)'
      BY <2>2, <3>1 DEF NoneRegistered, HasRegistered, Registered
    <3> QED BY <2>2, <3>2 DEF Published
  <2> QED BY <2>1, <2>2
<1>2. \A s \in Entities \X Days : Published'[s] = Published[s]
  BY <1>1, Slot
<1>3. /\ Published' = [s \in Entities \X Days |-> Published'[s]]
      /\ Published = [s \in Entities \X Days |-> Published[s]]
  BY DEF Published
<1> QED BY <1>2, <1>3

(* Readers of bronze see whole, final partitions, and watermarks that move   *)
(* only with them: every behaviour of the runs is one of PublishedBronze.    *)
THEOREM IngestPublishesBronze == Spec => PublishesBronze
<1>1. Init => Bronze!Init
  <2> SUFFICES ASSUME Init PROVE Bronze!Init
    OBVIOUS
  <2>1. \A e \in Entities, d \in Days : ~ HasRegistered(e, d)
    <3>1. \A e \in Entities, d \in Days, n \in Sequences : <<e, d, n>> \in BatchIds
      BY DEF BatchIds
    <3> QED BY <3>1 DEF Init, HasRegistered, AbsentRow
  <2>2. Published = [s \in Entities \X Days |-> NONE]
    BY <2>1, Slot DEF Published
  <2> QED BY <2>2 DEF Init, Bronze!Init, Bronze!Slots
<1>2. IngestInv /\ ReportDescribesObject /\ [Next]_vars
        => [Bronze!Next]_<<Published, watermark>>
  <2> SUFFICES ASSUME IngestInv, ReportDescribesObject, [Next]_vars
               PROVE  [Bronze!Next]_<<Published, watermark>>
    OBVIOUS
  <2>1. CASE NoneRegistered /\ UNCHANGED <<watermark, vault>>
    BY <2>1, UnpublishedStep
  <2>2. ASSUME NEW d \in Days, Register(d) PROVE Bronze!Next
    <3>1. Wrote(d) \in SUBSET Entities
      BY DEF Wrote, Reported
    <3> QED BY <2>2, <3>1, PublishStep DEF Bronze!Next
  <2> QED BY <2>1, <2>2, RegistrySteps DEF IngestInv
<1> QED
  BY <1>1, <1>2, IngestInvariant, ReportCorrect, PTL DEF Spec, Bronze!Spec, PublishesBronze
-----------------------------------------------------------------------------
(***************************************************************************)
(* What success means.                                                     *)
(***************************************************************************)
(* Until register commits, all a run allocated is open.                     *)
Uncommitted(d) == phase[d] = "extract" /\ allocated[d] # NONE => AllOpen(d)

(* A run with an allocation has a batch, or a registered one, for each      *)
(* entity.                                                                  *)
Spanned(d) ==
  allocated[d] # NONE =>
    \A e \in Entities : HasRegistered(e, d) \/ \E b \in allocated[d] : b[1] = e

(* A summary is that of the register step before the gate. *)
GatePart(d) ==
  /\ Uncommitted(d) /\ Spanned(d)
  /\ summary[d] # NONE => phase[d] = "gate"
  /\ phase[d] = "gate" /\ GatePasses(d) => \A e \in Entities : HasRegistered(e, d)
  /\ phase[d] = "success" => \A e \in Entities : HasRegistered(e, d)

GateInv == \A d \in Days : GatePart(d)

(* A registered interval stays one. *)
LEMMA RegisteredStays ==
  ASSUME IngestInv, [Next]_vars, NEW e \in Entities, NEW d \in Days, HasRegistered(e, d)
  PROVE  HasRegistered(e, d)'
BY PublishedKept

(* Nothing failed, so all a run allocated registered. *)
LEMMA NothingFailed ==
  ASSUME IngestInv, NEW d \in Days, ~ Refused(d), RegisterTransaction(d),
         AllOpen(d), Spanned(d), allocated[d] # NONE, FailedEntities(d) = {},
         [Next]_vars, NEW e \in Entities
  PROVE  HasRegistered(e, d)'
<1> USE DEF IngestInv
<1>1. CASE HasRegistered(e, d)
  BY <1>1, RegisteredStays
<1>2. CASE ~ HasRegistered(e, d)
  <2>1. PICK b \in allocated[d] : b[1] = e
    BY <1>2 DEF Spanned
  <2>2. b \in BatchIds /\ b[2] = d /\ registry[b].status = "open"
    BY <2>1 DEF TypeOK, AllocationInv, AllOpen
  <2>3. e \in Wrote(d)
    <3>1. b \notin Silent(d)
      BY DEF FailedEntities
    <3>2. e \in Reported(d)
      BY <2>1, <2>2, <3>1 DEF Silent, Unregistered
    <3> QED BY <3>2 DEF FailedEntities
  <2>4. PICK c \in BatchIds : c[1] = e /\ c[2] = d /\ registry'[c].status = "registered"
    BY <2>3, WroteEffect
  <2>5. c = <<e, d, c[3]>> /\ c[3] \in Sequences
    BY <2>4, BatchParts
  <2> QED BY <2>4, <2>5 DEF HasRegistered
<1> QED BY <1>1, <1>2

(* A run whose allocation, phase and summary a step leaves alone keeps its   *)
(* part, if its batches do not close.                                        *)
LEMMA GateFrame ==
  ASSUME IngestInv, GateInv, [Next]_vars, NEW d \in Days,
         allocated'[d] = allocated[d], phase'[d] = phase[d], summary'[d] = summary[d],
         allocated[d] # NONE /\ AllOpen(d) => AllOpen(d)'
  PROVE  GatePart(d)'
<1>1. \A e \in Entities : HasRegistered(e, d) => HasRegistered(e, d)'
  BY RegisteredStays
<1>2. Uncommitted(d)'
  BY DEF GateInv, GatePart, Uncommitted
<1>3. Spanned(d)'
  BY <1>1 DEF GateInv, GatePart, Spanned
<1>4. GatePasses(d)' => GatePasses(d)
  BY DEF GatePasses
<1> QED BY <1>1, <1>2, <1>3, <1>4 DEF GateInv, GatePart

(* Open batches stay so, while no register step of the run commits. *)
LEMMA OpenStays ==
  ASSUME IngestInv, NEW d \in Days, allocated'[d] = allocated[d],
         \A b \in BatchIds : b[2] = d => registry'[b] = registry[b]
  PROVE  allocated[d] # NONE /\ AllOpen(d) => AllOpen(d)'
<1> SUFFICES ASSUME allocated[d] # NONE, AllOpen(d) PROVE AllOpen(d)'
  OBVIOUS
<1>1. \A b \in allocated[d] : b \in BatchIds /\ b[1] \in Entities /\ b[2] = d
  BY BatchParts DEF IngestInv, TypeOK, AllocationInv
<1>2. \A e \in Entities : HasRegistered(e, d)' <=> HasRegistered(e, d)
  BY RegistryFrame
<1> QED BY <1>1, <1>2 DEF AllOpen

(* A step of one run leaves the parts of the others. *)
LEMMA OtherGates ==
  ASSUME IngestInv, GateInv, [Next]_vars, NEW d \in Days,
         \A x \in Days \ {d} :
           allocated'[x] = allocated[x] /\ phase'[x] = phase[x] /\ summary'[x] = summary[x],
         \A b \in BatchIds : b[2] # d => registry'[b] = registry[b],
         GatePart(d)'
  PROVE  GateInv'
<1>1. ASSUME NEW x \in Days, x # d PROVE GatePart(x)'
  <2>1. /\ allocated'[x] = allocated[x] /\ phase'[x] = phase[x] /\ summary'[x] = summary[x]
        /\ allocated[x] # NONE /\ AllOpen(x) => AllOpen(x)'
    BY <1>1, OpenStays
  <2> QED BY <2>1, GateFrame DEF GatePart
<1>2. \A x \in Days : GatePart(x)'
  BY <1>1
<1> QED BY <1>2 DEF GateInv, GatePart

(* open gives the run its batches. *)
LEMMA GateOpens ==
  ASSUME IngestInv, GateInv, NEW d \in Days, OpenBatches(d), [Next]_vars
  PROVE  GateInv'
<1> USE DEF IngestInv
<1>1. PICK pick \in [Pending(d) -> Sequences] :
        /\ OpenTransaction(d, pick)
        /\ \/ /\ phase' = [phase EXCEPT ![d] = "extract"]
              /\ allocated' = [allocated EXCEPT ![d] = {<<e, d, pick[e]>> : e \in Pending(d)}]
              /\ queued' = [queued EXCEPT ![d] = Pending(d)]
           \/ UNCHANGED <<phase, allocated, queued>>
  BY DEF OpenBatches
<1>2. phase[d] = "open" /\ allocated[d] = NONE /\ summary' = summary /\ summary[d] = NONE
  BY DEF OpenBatches, AllocationInv, GateInv, GatePart
<1>3. \A b \in BatchIds : b[2] # d => registry'[b] = registry[b]
  BY <1>1, OpenEffect
<1>4. CASE UNCHANGED <<phase, allocated, queued>>
  <2>1. GatePart(d)'
    BY <1>2, <1>4, GateFrame DEF GatePart
  <2> QED BY <1>2, <1>3, <1>4, <2>1, OtherGates
<1>5. CASE /\ phase' = [phase EXCEPT ![d] = "extract"]
           /\ allocated' = [allocated EXCEPT ![d] = {<<e, d, pick[e]>> : e \in Pending(d)}]
           /\ queued' = [queued EXCEPT ![d] = Pending(d)]
  <2>1. /\ phase'[d] = "extract" /\ queued'[d] = Pending(d)
        /\ allocated'[d] = {<<e, d, pick[e]>> : e \in Pending(d)}
        /\ \A x \in Days \ {d} : allocated'[x] = allocated[x] /\ phase'[x] = phase[x]
    BY <1>5 DEF TypeOK
  <2>2. allocated'[d] # NONE => AllOpen(d)'
    <3>1. CASE Pending(d) = {}
      BY <2>1, <3>1 DEF AllOpen
    <3>2. CASE Pending(d) # {}
      BY <2>1, <3>2, IngestStep DEF CommitInv, AllFinal
    <3> QED BY <3>1, <3>2
  <2>3. Spanned(d)'
    <3>1. \A e \in Entities : HasRegistered(e, d) => HasRegistered(e, d)'
      BY RegisteredStays
    <3>2. \A e \in Pending(d) : <<e, d, pick[e]>> \in allocated'[d] /\ <<e, d, pick[e]>>[1] = e
      BY <2>1
    <3>3. \A e \in Entities : HasRegistered(e, d) \/ e \in Pending(d)
      BY DEF Pending
    <3> QED BY <3>1, <3>2, <3>3 DEF Spanned
  <2>4. GatePart(d)'
    BY <1>2, <2>1, <2>2, <2>3 DEF GatePart, Uncommitted
  <2> QED BY <1>2, <1>3, <2>1, <2>4, OtherGates
<1> QED BY <1>1, <1>4, <1>5

(* register and the gate tell whether they all registered. *)
LEMMA GateRegisters ==
  ASSUME IngestInv, GateInv, NEW d \in Days, Register(d) \/ RegisterGivesUp(d) \/ Gate(d),
         "register" \notin LateDeaths, [Next]_vars
  PROVE  GateInv'
<1> USE DEF IngestInv
<1>1. \A e \in Entities : HasRegistered(e, d) => HasRegistered(e, d)'
  BY RegisteredStays
<1>2. CASE Register(d)
  <2>1. /\ phase[d] = "extract" /\ ~ Refused(d) /\ RegisterTransaction(d)
        /\ phase' = [phase EXCEPT ![d] = "gate"]
        /\ summary' = [summary EXCEPT ![d] = FailedEntities(d)]
        /\ allocated' = allocated
    BY <1>2 DEF Register, ReadyToRegister
  <2>2. /\ phase'[d] = "gate" /\ summary'[d] = FailedEntities(d)
        /\ \A x \in Days \ {d} : phase'[x] = phase[x] /\ summary'[x] = summary[x]
    BY <2>1 DEF TypeOK
  <2>3. \A b \in BatchIds : b[2] # d => registry'[b] = registry[b]
    BY <2>1, RegisterEffect
  <2>4. Spanned(d)'
    BY <1>1, <2>1 DEF GateInv, GatePart, Spanned
  <2>5. GatePasses(d)' => \A e \in Entities : HasRegistered(e, d)'
    <3> SUFFICES ASSUME allocated[d] # NONE, FailedEntities(d) = {}, NEW e \in Entities
                 PROVE  HasRegistered(e, d)'
      BY <2>1, <2>2 DEF GatePasses
    <3>1. AllOpen(d) /\ Spanned(d)
      BY <2>1 DEF GateInv, GatePart, Uncommitted
    <3> QED BY <2>1, <3>1, NothingFailed
  <2>6. GatePart(d)'
    BY <2>2, <2>4, <2>5 DEF GatePart, Uncommitted
  <2> QED BY <2>1, <2>2, <2>3, <2>6, OtherGates
<1>3. CASE RegisterGivesUp(d)
  <2>1. /\ phase[d] = "extract" /\ summary' = summary /\ allocated' = allocated
        /\ registry' = registry /\ phase' = [phase EXCEPT ![d] = "gate"]
    BY <1>3 DEF RegisterGivesUp, ReadyToRegister, warehouse
  <2>2. phase'[d] = "gate" /\ \A x \in Days \ {d} : phase'[x] = phase[x]
    BY <2>1 DEF TypeOK
  <2>3. summary'[d] = NONE /\ NONE # {}
    BY <2>1, NoneAssumption DEF GateInv, GatePart
  <2>4. GatePart(d)'
    BY <1>1, <2>1, <2>2, <2>3 DEF GatePart, GateInv, Uncommitted, Spanned, GatePasses
  <2> QED BY <2>1, <2>2, <2>4, OtherGates
<1>4. CASE Gate(d)
  <2>1. /\ phase[d] = "gate" /\ registry' = registry
        /\ phase' = [phase EXCEPT ![d] = IF GatePasses(d) THEN "success" ELSE "failed"]
        /\ allocated' = [allocated EXCEPT ![d] = NONE]
        /\ summary' = [summary EXCEPT ![d] = NONE]
    BY <1>4 DEF Gate, warehouse
  <2>2. /\ phase'[d] = (IF GatePasses(d) THEN "success" ELSE "failed")
        /\ allocated'[d] = NONE /\ summary'[d] = NONE
        /\ \A x \in Days \ {d} :
             allocated'[x] = allocated[x] /\ phase'[x] = phase[x] /\ summary'[x] = summary[x]
    BY <2>1 DEF TypeOK
  <2>3. phase'[d] = "success" => \A e \in Entities : HasRegistered(e, d)'
    BY <1>1, <2>1, <2>2 DEF GateInv, GatePart
  <2>4. GatePart(d)'
    BY <2>2, <2>3 DEF GatePart, Uncommitted, Spanned
  <2> QED BY <2>1, <2>2, <2>4, OtherGates
<1> QED BY <1>2, <1>3, <1>4

(* Every step keeps what success rests on. *)
LEMMA GateStep ==
  ASSUME IngestInv, GateInv, "register" \notin LateDeaths, [Next]_vars
  PROVE  GateInv'
<1> USE DEF IngestInv
<1>1. ASSUME UNCHANGED <<allocated, phase, summary, registry>>
      PROVE  GateInv'
  <2>1. \A d \in Days : allocated[d] # NONE /\ AllOpen(d) => AllOpen(d)'
    BY <1>1, OpenStays
  <2>2. \A d \in Days : GatePart(d)'
    BY <1>1, <2>1, GateFrame DEF GatePart
  <2> QED BY <2>2 DEF GateInv, GatePart
<1>2. CASE UNCHANGED vars
  BY <1>1, <1>2 DEF vars
<1>3. CASE SourceStep
  BY <1>1, <1>3 DEF SourceStep, Purge, Commit, Drift, Bump, runVars, warehouse
<1>4. ASSUME NEW d \in Days, Trigger(d) \/ Clear(d) \/ OpenGivesUp(d)
      PROVE  GateInv'
  <2>1. /\ phase[d] \notin {"extract", "gate"}
        /\ \E p \in {"open", "extract"} : phase' = [phase EXCEPT ![d] = p]
        /\ UNCHANGED <<allocated, summary, registry>>
    BY <1>4 DEF Trigger, Clear, OpenGivesUp, Ended, warehouse
  <2>2. /\ phase'[d] \in {"open", "extract"} /\ allocated[d] = NONE /\ summary[d] = NONE
        /\ \A x \in Days \ {d} : phase'[x] = phase[x]
    BY <2>1 DEF TypeOK, AllocationInv, GateInv, GatePart
  <2>3. GatePart(d)'
    BY <2>1, <2>2 DEF GatePart, Uncommitted, Spanned
  <2> QED BY <2>1, <2>2, <2>3, OtherGates
<1>5. ASSUME NEW d \in Days, NEW e \in Entities, Extract(d, e) \/ ExtractGivesUp(d, e)
      PROVE  GateInv'
  BY <1>1, <1>5 DEF Extract, ExtractGivesUp, warehouse
<1>6. ASSUME NEW d \in Days, RunStep(d) PROVE GateInv'
  BY <1>4, <1>5, <1>6, GateOpens, GateRegisters DEF RunStep
<1> QED BY <1>2, <1>3, <1>4, <1>6 DEF Next

(* A run that succeeded left every entity of its interval registered,        *)
(* through failed tries, clears and runs of other intervals, while register  *)
(* is not tried again after a commit of its own: a second try finds nothing  *)
(* left to fail.                                                             *)
THEOREM SuccessMeansRegisteredCorrect ==
  "register" \notin LateDeaths => (Spec => []SuccessMeansRegistered)
<1> SUFFICES ASSUME "register" \notin LateDeaths PROVE Spec => []SuccessMeansRegistered
  OBVIOUS
<1>1. Init => GateInv
  BY DEF Init, GateInv, GatePart, Uncommitted, Spanned
<1>2. IngestInv /\ GateInv /\ [Next]_vars => GateInv'
  BY GateStep
<1>3. GateInv => SuccessMeansRegistered
  BY DEF GateInv, GatePart, SuccessMeansRegistered
<1> QED BY <1>1, <1>2, <1>3, IngestInvariant, PTL DEF Spec
-----------------------------------------------------------------------------
(***************************************************************************)
(* What a registered batch claims.                                         *)
(***************************************************************************)
(* The newest row of a table is still there: no purge took it.              *)
NewestStands ==
  \A e \in Entities : newest[e] > 0 => \E k \in Keys : source[e][k] = newest[e]

(* An object was read from a table that holds rows.                         *)
ReadInv == \A b \in BatchIds : lake[b] # {} => newest[b[1]] > 0

(* A report register may use counts the rows of the object.                 *)
CountInv ==
  \A d \in Days : \A e \in Wrote(d) \ queued[d] :
    report[d][e].landed = Cardinality(lake[report[d][e].batch])

(* A window whose earlier reading left an object is not empty now, although *)
(* its bound may have moved: the newest row is above any bound.             *)
LEMMA WindowHasRows ==
  ASSUME TypeOK, StampInv, NewestStands, NEW b \in BatchIds, newest[b[1]] > 0
  PROVE  RowsFrom(b[1], registry[b].from) # {}
<1> DEFINE e == b[1]
<1>1. e \in Entities /\ newest[e] \in Int /\ Lag \in Nat
  BY BatchParts, ConstantsAssumption DEF TypeOK
<1>2. PICK k \in Keys : source[e][k] = newest[e]
  BY <1>1 DEF NewestStands
<1>3. registry[b].from \in Int \cup {NONE}
  BY DEF TypeOK, RowType
<1>4. registry[b].from = NONE \/ source[e][k] >= registry[b].from
  BY <1>1, <1>2, <1>3 DEF StampInv
<1>5. k \in {x \in Keys : Present(e, x) /\ (registry[b].from = NONE \/ source[e][x] >= registry[b].from)}
  BY <1>2, <1>4 DEF Present
<1>6. <<k, source[e][k]>> \in RowsFrom(e, registry[b].from)
  BY <1>5 DEF RowsFrom
<1> QED BY <1>6

(* Only rows below the newest stamp are read. *)
LEMMA RowsAreBehind ==
  ASSUME TypeOK, StampInv, NEW e \in Entities, NEW from, RowsFrom(e, from) # {}
  PROVE  newest[e] > 0
<1>1. PICK k \in Keys : source[e][k] > 0
  BY DEF RowsFrom, Present
<1> QED BY <1>1 DEF TypeOK, StampInv

(* Every step keeps the objects to tables that hold rows. *)
LEMMA ReadStep ==
  ASSUME IngestInv, StampInv, ReadInv, [Next]_vars
  PROVE  ReadInv'
<1> USE DEF IngestInv
<1> SUFFICES ASSUME NEW b \in BatchIds, lake'[b] # {}
             PROVE  newest'[b[1]] > 0
  BY DEF ReadInv
<1>1. b[1] \in Entities
  BY BatchParts
<1>2. newest[b[1]] \in Int /\ newest'[b[1]] \in Int /\ newest[b[1]] <= newest'[b[1]]
  BY <1>1, NewestSteps
<1>3. newest[b[1]] > 0
  <2>1. CASE UNCHANGED lake
    BY <2>1 DEF ReadInv
  <2>2. ASSUME NEW c \in BatchIds, lake' = [lake EXCEPT ![c] = RowsFrom(c[1], registry[c].from)]
        PROVE  newest[b[1]] > 0
    <3>1. CASE b = c
      <4>1. RowsFrom(b[1], registry[b].from) # {}
        BY <2>2, <3>1 DEF TypeOK
      <4> QED BY <1>1, <4>1, RowsAreBehind
    <3>2. CASE b # c
      BY <2>2, <3>2 DEF TypeOK, ReadInv
    <3> QED BY <3>1, <3>2
  <2> QED BY <2>1, <2>2, LakeSteps
<1> QED BY <1>2, <1>3

(* What an extract has just reported, whether it put an object or found an  *)
(* empty window, is what lies under its batch.                              *)
LEMMA PutIsRead ==
  ASSUME IngestInv, StampInv, NewestStands, ReadInv, NEW b \in BatchIds,
         lake' = IF RowsFrom(b[1], registry[b].from) = {} THEN lake
                 ELSE [lake EXCEPT ![b] = RowsFrom(b[1], registry[b].from)]
  PROVE  lake'[b] = RowsFrom(b[1], registry[b].from)
<1> USE DEF IngestInv
<1>1. CASE RowsFrom(b[1], registry[b].from) = {}
  <2>1. ~ (newest[b[1]] > 0)
    BY <1>1, WindowHasRows
  <2> QED BY <1>1, <2>1 DEF ReadInv
<1>2. CASE RowsFrom(b[1], registry[b].from) # {}
  BY <1>2 DEF TypeOK
<1> QED BY <1>1, <1>2

(* Every step keeps the counts of the reports. *)
LEMMA CountStep ==
  ASSUME IngestInv, StampInv, NewestStands, ReadInv, CountInv, [Next]_vars
  PROVE  CountInv'
<1> SUFFICES ASSUME NEW d \in Days, NEW e \in Wrote(d)', e \notin queued'[d]
             PROVE  report'[d][e].landed = Cardinality(lake'[report'[d][e].batch])
  BY DEF CountInv
<1>1. CASE /\ e \in Wrote(d) /\ e \notin queued[d] /\ report'[d][e] = report[d][e]
           /\ lake'[report[d][e].batch] = lake[report[d][e].batch]
  BY <1>1 DEF CountInv
<1>2. ASSUME NEW b \in BatchIds, b[1] = e, report'[d][e].batch = b,
             report'[d][e].landed = Cardinality(RowsFrom(e, registry[b].from)),
             lake' = IF RowsFrom(e, registry[b].from) = {} THEN lake
                     ELSE [lake EXCEPT ![b] = RowsFrom(e, registry[b].from)]
      PROVE  report'[d][e].landed = Cardinality(lake'[b])
  BY <1>2, PutIsRead
<1> QED BY <1>1, <1>2, ReportedSteps

(* And register takes them over. *)
LEMMA ClaimStep ==
  ASSUME IngestInv, CountInv, ObjectHoldsWhatIsClaimed, [Next]_vars
  PROVE  ObjectHoldsWhatIsClaimed'
<1> USE DEF IngestInv
<1> SUFFICES ASSUME NEW b \in BatchIds, registry'[b].status = "registered"
             PROVE  registry'[b].landed = Cardinality(lake'[b])
  BY DEF ObjectHoldsWhatIsClaimed, Registered
<1>1. CASE Registered(b)
  BY <1>1, RegisteredKept DEF Kept, LakeKept, ObjectHoldsWhatIsClaimed
<1>2. CASE ~ Registered(b)
  <2>1. PICK d \in Days : Register(d)
    BY <1>2, RegistrySteps DEF NoneRegistered
  <2>2. ~ Refused(d) /\ RegisterTransaction(d) /\ queued[d] = {} /\ lake' = lake
    BY <2>1 DEF Register, ReadyToRegister
  <2>3. b[1] \in Wrote(d) /\ b = report[d][b[1]].batch
    BY <1>2, <2>2, RegisterEffect
  <2>4. registry'[b].landed = report[d][b[1]].landed
    BY <2>2, <2>3, WroteEffect
  <2>5. report[d][b[1]].landed = Cardinality(lake[b])
    BY <2>2, <2>3 DEF CountInv
  <2> QED BY <2>2, <2>4, <2>5
<1> QED BY <1>1, <1>2

(* The bounds of LossInv without its condition on late commits. *)
LEMMA StampsStand == Spec => []StampInv
<1>1. Init => StampInv
  BY LossInit DEF LossInv
<1>2. IngestInv /\ StampInv /\ [Next]_vars => StampInv'
  BY StampStep
<1> QED BY <1>1, <1>2, IngestInvariant, PTL DEF Spec

(* The rows a registered batch claims are the rows its object holds, across *)
(* retries that overwrite an object or, finding nothing, leave it; while no  *)
(* purge takes the newest row of its table.                                  *)
THEOREM ClaimsCorrect == Spec /\ []NewestStands => []ObjectHoldsWhatIsClaimed
<1>1. Init => ReadInv /\ CountInv /\ ObjectHoldsWhatIsClaimed
  BY DEF Init, ReadInv, CountInv, ObjectHoldsWhatIsClaimed, Wrote, Reported, Registered, AbsentRow
<1>2. IngestInv /\ StampInv /\ NewestStands /\ ReadInv /\ CountInv /\ ObjectHoldsWhatIsClaimed /\ [Next]_vars
      => (ReadInv /\ CountInv /\ ObjectHoldsWhatIsClaimed)'
  BY ReadStep, CountStep, ClaimStep
<1> QED BY <1>1, <1>2, IngestInvariant, StampsStand, PTL DEF Spec
-----------------------------------------------------------------------------
(***************************************************************************)
(* Every identifier resolves.                                              *)
(***************************************************************************)
(* A report covers the object it speaks of, in the source as it stands.     *)
Covers(e, r) ==
  /\ r.to = NONE => lake[r.batch] = {}
  /\ r.to # NONE => lake[r.batch] \subseteq RowsWithin(e, r.from, r.to)

(* A report register may use covers what its object holds, in the source as *)
(* it stands.                                                               *)
ReadAgainInv ==
  \A d \in Days : \A e \in Wrote(d) \ queued[d] : Covers(e, report[d][e])

(* Nothing moves in the source under a run. *)
LEMMA SourceWaits ==
  ASSUME IngestInv, QuietSource, NEW d \in Days, allocated[d] # NONE, [Next]_vars
  PROVE  source' = source
<1>1. ~ Quiet
  BY DEF Quiet, IngestInv, AllocationInv, Running
<1> QED BY <1>1, SourceSteps DEF Purge, Commit

(* A window of an unchanged source reads the same. *)
LEMMA WindowStays ==
  ASSUME NEW e, NEW from, NEW to, source' = source
  PROVE  RowsWithin(e, from, to)' = {v \in RowsFrom(e, from) : v[2] <= to}
BY DEF RowsWithin, RowsFrom, Present

(* Every step keeps the reports covering their objects. *)
LEMMA ReadAgainStep ==
  ASSUME IngestInv, StampInv, NewestStands, ReadInv, ReadAgainInv, QuietSource, [Next]_vars
  PROVE  ReadAgainInv'
<1> USE DEF IngestInv
<1>0. SUFFICES ASSUME NEW d \in Days, NEW e \in Wrote(d)', e \notin queued'[d],
                      NEW r, r = report'[d][e]
               PROVE  Covers(e, r)'
  BY DEF ReadAgainInv, Covers
<1>1. CASE /\ e \in Wrote(d) /\ e \notin queued[d] /\ r = report[d][e]
           /\ lake'[report[d][e].batch] = lake[report[d][e].batch]
  <2>1. allocated[d] # NONE
    BY <1>1 DEF Wrote, Reported
  <2>2. source' = source
    BY <2>1, SourceWaits
  <2>3. Covers(e, r)
    BY <1>1 DEF ReadAgainInv, Covers
  <2> QED BY <1>1, <2>2, <2>3, WindowStays DEF Covers, RowsWithin
<1>2. ASSUME NEW b \in allocated[d], e \in queued[d], b \in BatchIds, b[1] = e,
             r.batch = b, r.from = registry[b].from,
             Observed(RowsFrom(e, registry[b].from), r.to),
             lake' = IF RowsFrom(e, registry[b].from) = {} THEN lake
                     ELSE [lake EXCEPT ![b] = RowsFrom(e, registry[b].from)]
      PROVE  Covers(e, r)'
  <2>1. lake'[b] = RowsFrom(e, registry[b].from)
    BY <1>2, PutIsRead
  <2>2. source' = source
    BY <1>2, QueuedBatch, SourceWaits
  <2>3. RowsFrom(e, registry[b].from) \subseteq Versions
    <3>1. registry[b].from \in Int \cup {NONE} /\ e \in Entities
      BY <1>2, BatchParts DEF TypeOK, RowType
    <3> QED BY <3>1, RowsFromType
  <2>4. r.to = NONE => RowsFrom(e, registry[b].from) = {}
    BY <1>2, <2>3, NoneAssumption DEF Observed, Versions, Stamps
  <2>5. r.to # NONE => \A v \in RowsFrom(e, registry[b].from) : v[2] <= r.to
    BY <1>2 DEF Observed
  <2>6. RowsWithin(e, r.from, r.to)' = {v \in RowsFrom(e, r.from) : v[2] <= r.to}
    BY <2>2, WindowStays
  <2> QED BY <1>2, <2>1, <2>4, <2>5, <2>6 DEF Covers
<1> QED BY <1>0, <1>1, <1>2, ReportedSteps

(* And register fills the vault by them. *)
LEMMA VaultStep ==
  ASSUME IngestInv, ReadAgainInv, VaultResolvesBronze, [Next]_vars
  PROVE  VaultResolvesBronze'
<1> USE DEF IngestInv
<1> SUFFICES ASSUME NEW e \in Identified, NEW b \in BatchIds, b[1] = e,
                    registry'[b].status = "registered", NEW v \in lake'[b]
             PROVE  v \in vault'[e]
  BY DEF VaultResolvesBronze, Landed, Registered
<1>1. e \in Entities
  BY ConstantsAssumption
<1>2. vault[e] \subseteq vault'[e]
  <2>1. CASE UNCHANGED vault
    BY <2>1
  <2>2. ASSUME NEW d \in Days, Register(d) PROVE vault[e] \subseteq vault'[e]
    BY <1>1, <2>2 DEF Register, RegisterTransaction, Vaulted
  <2> QED BY <2>1, <2>2, RegistrySteps
<1>3. CASE Registered(b)
  <2>1. v \in lake[b]
    BY <1>3, RegisteredKept DEF LakeKept
  <2>2. v \in vault[e]
    BY <1>3, <2>1 DEF VaultResolvesBronze, Landed
  <2> QED BY <1>2, <2>2
<1>4. CASE ~ Registered(b)
  <2>1. PICK d \in Days : Register(d)
    BY <1>4, RegistrySteps DEF NoneRegistered
  <2>2. ~ Refused(d) /\ RegisterTransaction(d) /\ queued[d] = {} /\ lake' = lake
    BY <2>1 DEF Register, ReadyToRegister
  <2>3. e \in Wrote(d) /\ b = report[d][e].batch
    BY <1>4, <2>2, RegisterEffect
  <2>4. /\ report[d][e].to # NONE
        /\ v \in RowsWithin(e, report[d][e].from, report[d][e].to)
    BY <2>2, <2>3 DEF ReadAgainInv, Covers
  <2> QED BY <1>1, <2>2, <2>3, <2>4 DEF RegisterTransaction, Vaulted
<1> QED BY <1>3, <1>4

(* Every identifier in registered bronze resolves in the vault, although     *)
(* register reads the source a second time, through retries, clears and dead *)
(* tasks: while the source is quiet under a run, as the driver keeps it, and *)
(* no purge between two tries takes the newest row of a table.               *)
THEOREM VaultResolvesCorrect ==
  QuietSource => (Spec /\ []NewestStands => []VaultResolvesBronze)
<1> SUFFICES ASSUME QuietSource PROVE Spec /\ []NewestStands => []VaultResolvesBronze
  OBVIOUS
<1>1. Init => ReadInv /\ ReadAgainInv /\ VaultResolvesBronze
  BY ConstantsAssumption DEF Init, ReadInv, ReadAgainInv, VaultResolvesBronze, Wrote, Reported, Landed, Registered, AbsentRow
<1>2. IngestInv /\ StampInv /\ NewestStands /\ ReadInv /\ ReadAgainInv /\ VaultResolvesBronze /\ [Next]_vars
      => (ReadInv /\ ReadAgainInv /\ VaultResolvesBronze)'
  BY ReadStep, ReadAgainStep, VaultStep
<1> QED BY <1>1, <1>2, IngestInvariant, StampsStand, PTL DEF Spec

(* A source that purges nothing keeps its newest rows. *)
THEOREM NewestStandsUnpurged == Purgeable = {} => (Spec => []NewestStands)
<1> SUFFICES ASSUME Purgeable = {} PROVE Spec => []NewestStands
  OBVIOUS
<1>1. Init => NewestStands
  BY DEF Init, NewestStands
<1>2. IngestInv /\ StampInv /\ NewestStands /\ [Next]_vars => NewestStands'
  <2> SUFFICES ASSUME IngestInv, StampInv, NewestStands, [Next]_vars,
                      NEW e \in Entities, newest'[e] > 0
               PROVE  \E k \in Keys : source'[e][k] = newest'[e]
    BY DEF NewestStands
  <2>1. CASE UNCHANGED <<source, newest>>
    BY <2>1 DEF NewestStands
  <2>2. ASSUME NEW x \in Entities, NEW k \in Keys, NEW s \in Stamps, Commit(x, k, s)
        PROVE  \E y \in Keys : source'[e][y] = newest'[e]
    <3>1. /\ source' = [source EXCEPT ![x][k] = s] /\ s > source[x][k]
          /\ newest' = [newest EXCEPT ![x] = IF s > newest[x] THEN s ELSE newest[x]]
      BY <2>2 DEF Commit
    <3>2. CASE x # e
      BY <3>1, <3>2 DEF NewestStands, IngestInv, TypeOK
    <3>3. CASE x = e /\ s > newest[e]
      BY <3>1, <3>3 DEF IngestInv, TypeOK
    <3>4. CASE x = e /\ ~ (s > newest[e])
      <4>1. newest'[e] = newest[e]
        BY <3>1, <3>4 DEF IngestInv, TypeOK
      <4>2. PICK y \in Keys : source[e][y] = newest[e]
        BY <4>1 DEF NewestStands
      <4>3. y # k
        BY <3>1, <3>4, <4>2
      <4> QED BY <3>1, <3>4, <4>1, <4>2, <4>3 DEF IngestInv, TypeOK
    <3> QED BY <3>2, <3>3, <3>4
  <2> QED BY <2>1, <2>2, SourceSteps DEF Purge
<1> QED BY <1>1, <1>2, IngestInvariant, StampsStand, PTL DEF Spec
=============================================================================
