------------------------- MODULE SanctionsListProofs -------------------------
(***************************************************************************)
(* Proofs about SanctionsList, for simulations of any length, any Mondays  *)
(* and seedings, lists of any size, and any number of kills, deaths and    *)
(* runs cleared.                                                           *)
(***************************************************************************)
EXTENDS SanctionsList, FiniteSetTheorems, WellFoundedInduction, TLAPS

Units == [batch : Batches, refuse : BOOLEAN]
Reasons == {"declaration conflict", "changed", "did not report"}
Reports == [ok : BOOLEAN, reason : Reasons \cup {NONE}]
RegistryRows == RowType({1}, Mondays, Reasons)

(* What a run knows by the step it is at.                                   *)
RunTypes ==
  run # NONE =>
    /\ run = [monday |-> run.monday, phase |-> run.phase, version |-> run.version,
              list |-> run.list, unit |-> run.unit, report |-> run.report]
    /\ run.monday \in Mondays
    /\ run.phase \in {"index", "entities", "open", "extract", "register"}
    /\ run.phase \in {"index", "entities", "open"} => run.unit = NONE /\ run.report = NONE
    /\ run.phase \in {"entities", "open", "extract"} \/ run.unit # NONE => run.version \in Days
    /\ run.phase = "extract" => run.unit \in Units /\ run.report = NONE
    /\ run.report # NONE => run.report \in Reports /\ run.unit \in Units
    /\ run.report # NONE /\ ~ run.report.ok => run.report.reason \in Reasons

WarehouseTypes ==
  /\ registry \in [Batches -> RegistryRows]
  /\ \A l \in DOMAIN sighted : sighted[l] \subseteq Batches
  /\ \A l \in DOMAIN attempt : attempt[l] \in Batches

ListTypes ==
  /\ seeding \in Nat \ {0} /\ day \in Days
  /\ objects = [d \in Days |-> objects[d]]
  /\ ended = [m \in Mondays |-> ended[m]]
  /\ latest # NONE => latest \in Days
  /\ at \in {"ingest", "wait"} => day \in Mondays
  /\ RunTypes /\ WarehouseTypes
-----------------------------------------------------------------------------
(***************************************************************************)
(* One list under a version.                                               *)
(***************************************************************************)
(* Nothing has landed under a version. *)
Fresh(v) == \A f \in files : f.version # v

(* A run that open let through lands its list as the first of its version. *)
OneListInv ==
  /\ VersionIsOneList
  /\ run # NONE /\ run.phase = "extract" /\ ~ run.unit.refuse => Fresh(run.version)
  /\ run # NONE /\ run.report # NONE /\ run.report.ok => Fresh(run.version)
-----------------------------------------------------------------------------
(***************************************************************************)
(* A week has its list, while the source is seeded once.                   *)
(***************************************************************************)
(* The list of a day by the first seeding. *)
ListOf(d) == EntitiesOn(AnchorOf[1], d)

HasVersion == \/ run.phase \in {"entities", "open", "extract"}
              \/ run.unit # NONE \/ run.report # NONE
HasList == run.phase \in {"open", "extract"} \/ run.unit # NONE \/ run.report # NONE

(* What is published, and where the loop is. *)
PublishedInv ==
  /\ \A d \in Days : at \in {"point", "ingest", "wait"} /\ d = day => objects[d] = ListOf(d)
  /\ \A d \in Days : latest # NONE /\ d = latest => objects[d] = ListOf(d)
  /\ at \in {"ingest", "wait"} => latest = day

(* A batch of the run that is going on, not yet registered. *)
IsOwn(b) == registry[b].run = run.monday /\ registry[b].status \in Unregistered

(* The run read the list of the version it has, found no conflict and no    *)
(* change, and what it opened is its own until it reports.                  *)
RunReads ==
  run # NONE =>
    /\ \A d \in Days : HasVersion /\ d = run.version => objects[d] = ListOf(d)
    /\ \A d \in Days : HasList /\ d = run.version => run.list = ListOf(d)
    /\ run.phase = "extract" => ~ run.unit.refuse
    /\ run.report # NONE => run.report.ok
    /\ run.phase = "extract" \/ run.report # NONE => registry[run.unit.batch].status # "absent"
    /\ run.unit # NONE /\ run.report = NONE =>
         LandedAs(run.list) # {} \/ (run.unit \in Units /\ IsOwn(run.unit.batch))

(* Every batch is of the list of its version, and none failed for the list  *)
(* being another. *)
BatchesRead ==
  /\ \A f \in files, d \in Days : f.version = d => f.list = ListOf(d)
  /\ \A b \in Batches : registry[b].status = "failed" => registry[b].reason = "did not report"
  /\ \A l \in DOMAIN sighted, b \in Batches, d \in Days :
       b \in sighted[l] /\ b[1] = d => l = ListOf(d)
  /\ \A b \in Batches : registry[b].status # "absent" => \E l \in DOMAIN sighted : b \in sighted[l]

(* The run the loop waits for reads the day's version, and landed its list   *)
(* if it succeeded; no run of the day goes on before.                        *)
WaitInv ==
  /\ at \in {"publish", "point", "ingest"} => ~ RunOf(day)
  /\ at = "wait" /\ RunOf(day) /\ HasVersion => run.version = day
  /\ at \in {"ingest", "wait"} /\ ended[day] = "success" =>
       \A d \in Days : d = day => LandedAs(ListOf(d)) # {}

WeekInv == seeding = 1 => PublishedInv /\ RunReads /\ BatchesRead /\ WaitInv
-----------------------------------------------------------------------------
(***************************************************************************)
(* Types.                                                                  *)
(***************************************************************************)
LEMMA DaysAreNumbers ==
  /\ LastDay \in Nat /\ Days = 1 .. LastDay /\ Mondays \subseteq Days
  /\ \A s \in Seedings : AnchorOf[s] + 1 \in Days /\ AnchorOf[s] \in Int
  /\ 1 \in Seedings
<1>1. LastDay \in Nat /\ Mondays \subseteq Days /\ 1 \in Seedings
        /\ AnchorOf \in [Seedings -> 0 .. LastDay - 1]
  BY SanctionsAssumption
<1>2. ASSUME NEW s \in Seedings
      PROVE  AnchorOf[s] + 1 \in Days /\ AnchorOf[s] \in Int
  <2>1. AnchorOf[s] \in 0 .. LastDay - 1
    BY <1>1
  <2> QED BY <1>1, <2>1 DEF Days
<1> QED BY <1>1, <1>2 DEF Days

(* What the functions of the registry do to a row. *)
LEMMA RowsStayRows ==
  ASSUME NEW row \in RegistryRows
  PROVE  /\ \A m \in Mondays :
              /\ AllocatedRow(row, 1, NONE, m) \in RegistryRows
              /\ AllocatedRow(row, 1, NONE, m).status = "open"
              /\ AllocatedRow(row, 1, NONE, m).run = m
         /\ RegisteredRow(WrittenRow(row, 1, NONE)) \in RegistryRows
         /\ RegisteredRow(WrittenRow(row, 1, NONE)).status = "registered"
         /\ \A r \in Reasons :
              /\ FailedRow(row, r) \in RegistryRows
              /\ FailedRow(row, r).status = "failed" => FailedRow(row, r).reason = r
              /\ FailedRow(row, r).status # "absent"
<1> USE DEF RegistryRows, RowType, Statuses, Unregistered
<1>1. ASSUME NEW m \in Mondays
      PROVE  /\ AllocatedRow(row, 1, NONE, m) \in RegistryRows
             /\ AllocatedRow(row, 1, NONE, m).status = "open"
             /\ AllocatedRow(row, 1, NONE, m).run = m
  BY DEF AllocatedRow
<1>2. /\ RegisteredRow(WrittenRow(row, 1, NONE)) \in RegistryRows
      /\ RegisteredRow(WrittenRow(row, 1, NONE)).status = "registered"
  BY DEF RegisteredRow, WrittenRow
<1>3. ASSUME NEW r \in Reasons
      PROVE  /\ FailedRow(row, r) \in RegistryRows
             /\ FailedRow(row, r).status = "failed" => FailedRow(row, r).reason = r \/ row.status = "registered"
             /\ FailedRow(row, r).status # "absent"
  BY DEF FailedRow
<1>4. ASSUME NEW r \in Reasons, FailedRow(row, r).status = "failed"
      PROVE  FailedRow(row, r).reason = r
  BY <1>4 DEF FailedRow
<1> QED BY <1>1, <1>2, <1>3, <1>4

(* The loop's steps leave the run and the warehouse alone. *)
LEMMA LoopTypesStep ==
  ASSUME ListTypes,
         \/ Decide \/ PutEntities \/ PointLatest \/ Judge \/ Kill \/ Reseed
         \/ \E d \in Days : Restart(d)
  PROVE  ListTypes' /\ UNCHANGED <<run, registry, sighted, attempt, files, ended, sampled>>
<1>1. UNCHANGED <<run, registry, sighted, attempt, files, ended, sampled>>
  BY DEF Decide, PutEntities, PointLatest, Judge, Kill, Reseed, Restart, warehouse
<1>2. seeding' \in Nat \ {0}
  BY DEF Decide, PutEntities, PointLatest, Judge, Kill, Reseed, Restart, ListTypes
<1>3. Forward => day' \in Days
  BY DaysAreNumbers DEF Forward, ListTypes
<1>4. day' \in Days
  BY <1>3, DaysAreNumbers DEF Decide, PutEntities, PointLatest, Judge, Kill, Reseed, Restart, ListTypes
<1>5. objects' = [d \in Days |-> objects'[d]] /\ (latest' # NONE => latest' \in Days)
  BY DEF Decide, PutEntities, PointLatest, Judge, Kill, Reseed, Restart, ListTypes, inbound
<1>6. at' \in {"ingest", "wait"} => day' \in Mondays
  BY DEF Decide, PutEntities, PointLatest, Judge, Kill, Reseed, Restart, ListTypes, Forward, IsPending
<1>7. RunTypes' /\ WarehouseTypes'
  BY <1>1 DEF RunTypes, WarehouseTypes, ListTypes
<1> QED BY <1>1, <1>2, <1>4, <1>5, <1>6, <1>7 DEF ListTypes

(* A run with what it knows at its next step. *)
RunAt(phase, version, list, unit, report) ==
  [monday |-> run.monday, phase |-> phase, version |-> version,
   list |-> list, unit |-> unit, report |-> report]

(* What each step of a run makes of it. *)
LEMMA RunSteps ==
  ASSUME RunTypes, run # NONE
  PROVE  /\ ReadIndex => run' = RunAt("entities", latest, run.list, NONE, NONE)
         /\ ReadEntities => run' = RunAt("open", run.version, objects[run.version], NONE, NONE)
         /\ GiveUp => run' = RunAt("register", run.version, run.list, run.unit, run.report)
         /\ ExtractSnapshot =>
              \E ok \in BOOLEAN, reason \in Reasons \cup {NONE} :
                /\ ~ ok => reason \in Reasons
                /\ ok => ~ run.unit.refuse /\ objects[run.version] = run.list
                /\ ~ ok => run.unit.refuse \/ Changed
                /\ run' = RunAt("register", run.version, run.list, run.unit, Reported(ok, reason))
<1>1. run = [monday |-> run.monday, phase |-> run.phase, version |-> run.version,
             list |-> run.list, unit |-> run.unit, report |-> run.report]
  BY DEF RunTypes
<1>2. ReadIndex => run' = RunAt("entities", latest, run.list, NONE, NONE)
  BY <1>1 DEF RunTypes, ReadIndex, RunAt
<1>3. ReadEntities => run' = RunAt("open", run.version, objects[run.version], NONE, NONE)
  BY <1>1 DEF RunTypes, ReadEntities, RunAt
<1>4. GiveUp => run' = RunAt("register", run.version, run.list, run.unit, run.report)
  BY <1>1 DEF GiveUp, RunAt
<1>5. ASSUME ExtractSnapshot
      PROVE  \E ok \in BOOLEAN, reason \in Reasons \cup {NONE} :
                /\ ~ ok => reason \in Reasons
                /\ ok => ~ run.unit.refuse /\ objects[run.version] = run.list
                /\ ~ ok => run.unit.refuse \/ Changed
                /\ run' = RunAt("register", run.version, run.list, run.unit, Reported(ok, reason))
  <2>1. CASE run.unit.refuse
    <3>1. run' = RunAt("register", run.version, run.list, run.unit,
                       Reported(FALSE, "declaration conflict"))
      BY <1>1, <1>5, <2>1 DEF ExtractSnapshot, RunAt
    <3> QED BY <2>1, <3>1 DEF Reasons
  <2>2. CASE ~ run.unit.refuse /\ Changed
    <3>1. run' = RunAt("register", run.version, run.list, run.unit, Reported(FALSE, "changed"))
      BY <1>1, <1>5, <2>2 DEF ExtractSnapshot, RunAt
    <3> QED BY <2>2, <3>1 DEF Reasons
  <2>3. CASE ~ run.unit.refuse /\ ~ Changed
    <3>1. run' = RunAt("register", run.version, run.list, run.unit, Reported(TRUE, NONE))
      BY <1>1, <1>5, <2>3 DEF ExtractSnapshot, RunAt
    <3> QED BY <2>3, <3>1 DEF Changed
  <2> QED BY <2>1, <2>2, <2>3
<1> QED BY <1>2, <1>3, <1>4, <1>5

(* Open allocates one batch of the version to the list, or finds nothing to  *)
(* do.                                                                       *)
LEMMA OpenStep ==
  ASSUME RunTypes, OpenSnapshot
  PROVE  \/ /\ IsAttempted(run.list)
            /\ \E n \in 1 .. MaxSequence :
                 /\ ChosenSequence(Rows(run.version), SequencesOf(run.list, run.version), n)
                 /\ registry' = [registry EXCEPT ![<<run.version, n>>] = AllocatedRow(@, 1, NONE, run.monday)]
                 /\ sighted' = With(sighted, run.list, BatchesOf(run.list) \cup {<<run.version, n>>})
                 /\ attempt' = With(attempt, run.list, <<run.version, n>>)
                 /\ \/ run' = RunAt("extract", run.version, run.list, Unit(<<run.version, n>>), run.report)
                    \/ run' = run
         \/ /\ ~ IsAttempted(run.list)
            /\ run' = RunAt("register", run.version, run.list, "nothing", run.report)
            /\ UNCHANGED <<registry, sighted, attempt>>
<1>1. run = [monday |-> run.monday, phase |-> run.phase, version |-> run.version,
             list |-> run.list, unit |-> run.unit, report |-> run.report]
  BY DEF RunTypes, OpenSnapshot
<1>2. CASE IsAttempted(run.list)
  <2>1. PICK n \in 1 .. MaxSequence :
          /\ ChosenSequence(Rows(run.version), SequencesOf(run.list, run.version), n)
          /\ registry' = [registry EXCEPT ![<<run.version, n>>] = AllocatedRow(@, 1, NONE, run.monday)]
          /\ sighted' = With(sighted, run.list, BatchesOf(run.list) \cup {<<run.version, n>>})
          /\ attempt' = With(attempt, run.list, <<run.version, n>>)
          /\ \/ run' = [run EXCEPT !.phase = "extract", !.unit = Unit(<<run.version, n>>)]
             \/ run' = run
    BY <1>2 DEF OpenSnapshot
  <2>2. run' = [run EXCEPT !.phase = "extract", !.unit = Unit(<<run.version, n>>)]
          => run' = RunAt("extract", run.version, run.list, Unit(<<run.version, n>>), run.report)
    BY <1>1 DEF RunAt
  <2> QED BY <1>2, <2>1, <2>2
<1>3. CASE ~ IsAttempted(run.list)
  <2>1. run' = RunAt("register", run.version, run.list, "nothing", run.report)
    BY <1>1, <1>3 DEF OpenSnapshot, RunAt
  <2> QED BY <1>3, <2>1 DEF OpenSnapshot
<1> QED BY <1>2, <1>3

(* A run keeps its shape through its own steps. *)
LEMMA RunTypesStep ==
  ASSUME ListTypes, RunStep
  PROVE  RunTypes'
<1> USE DEF ListTypes
<1> SUFFICES ASSUME run' # NONE
             PROVE  RunTypes'
  BY DEF RunTypes
<1>1. run # NONE
  BY DEF RunStep, ReadIndex, ReadEntities, OpenSnapshot, ExtractSnapshot, GiveUp, RegisterSnapshot
<1>2. ASSUME ReadIndex
      PROVE  RunTypes'
  <2>1. run' = RunAt("entities", latest, run.list, NONE, NONE) /\ latest \in Days
    BY <1>1, <1>2, RunSteps DEF ReadIndex
  <2> QED BY <1>1, <2>1 DEF RunTypes, RunAt
<1>3. ASSUME ReadEntities
      PROVE  RunTypes'
  <2>1. run' = RunAt("open", run.version, objects[run.version], NONE, NONE) /\ run.version \in Days
    BY <1>1, <1>3, RunSteps DEF ReadEntities, RunTypes
  <2> QED BY <1>1, <2>1 DEF RunTypes, RunAt
<1>4. ASSUME GiveUp
      PROVE  RunTypes'
  <2>1. run' = RunAt("register", run.version, run.list, run.unit, run.report)
    BY <1>1, <1>4, RunSteps
  <2> QED BY <1>1, <2>1 DEF RunTypes, RunAt
<1>5. ASSUME ExtractSnapshot
      PROVE  RunTypes'
  <2>1. PICK ok \in BOOLEAN, reason \in Reasons \cup {NONE} :
          /\ ~ ok => reason \in Reasons
          /\ run' = RunAt("register", run.version, run.list, run.unit, Reported(ok, reason))
    BY <1>1, <1>5, RunSteps
  <2>2. run.unit \in Units
    BY <1>1, <1>5 DEF RunTypes, ExtractSnapshot
  <2>3. Reported(ok, reason) \in Reports /\ Reported(ok, reason).ok = ok
          /\ Reported(ok, reason).reason = reason
    BY DEF Reported, Reports
  <2> QED BY <1>1, <2>1, <2>2, <2>3 DEF RunTypes, RunAt
<1>6. ASSUME OpenSnapshot
      PROVE  RunTypes'
  <2>1. run.phase = "open" /\ run.report = NONE
    BY <1>1, <1>6 DEF OpenSnapshot, RunTypes
  <2>2. CASE run' = run
    BY <1>1, <2>2 DEF RunTypes
  <2>3. CASE run' = RunAt("register", run.version, run.list, "nothing", run.report)
    BY <1>1, <2>1, <2>3 DEF RunTypes, RunAt
  <2>4. ASSUME NEW n \in 1 .. MaxSequence,
               run' = RunAt("extract", run.version, run.list, Unit(<<run.version, n>>), run.report)
        PROVE  RunTypes'
    <3>1. Unit(<<run.version, n>>) \in Units
      <4>1. run.version \in Days
        BY <1>1, <2>1 DEF RunTypes
      <4>2. <<run.version, n>> \in Batches
        BY <4>1 DEF Batches
      <4>3. Conflicts(run.list, run.version) \in BOOLEAN
        BY DEF Conflicts
      <4> QED BY <4>2, <4>3 DEF Unit, Units
    <3> QED BY <1>1, <2>1, <2>4, <3>1 DEF RunTypes, RunAt
  <2> QED BY <1>6, <2>2, <2>3, <2>4, OpenStep
<1>7. ~ RegisterSnapshot
  BY DEF RegisterSnapshot
<1> QED BY <1>2, <1>3, <1>4, <1>5, <1>6, <1>7 DEF RunStep

(* And so does what it writes in the warehouse. *)
LEMMA WarehouseTypesStep ==
  ASSUME ListTypes, RunStep
  PROVE  /\ WarehouseTypes'
         /\ ended' = [m \in Mondays |-> ended'[m]]
<1> USE DEF ListTypes
<1>1. ASSUME OpenSnapshot
      PROVE  WarehouseTypes' /\ ended' = [m \in Mondays |-> ended'[m]]
  <2>1. run # NONE /\ run.phase = "open" /\ run.monday \in Mondays /\ run.version \in Days
    BY <1>1 DEF OpenSnapshot, RunTypes
  <2>2. ASSUME NEW n \in 1 .. MaxSequence,
               registry' = [registry EXCEPT ![<<run.version, n>>] = AllocatedRow(@, 1, NONE, run.monday)],
               sighted' = With(sighted, run.list, BatchesOf(run.list) \cup {<<run.version, n>>}),
               attempt' = With(attempt, run.list, <<run.version, n>>)
        PROVE  WarehouseTypes'
    <3> DEFINE b == <<run.version, n>>
    <3>1. b \in Batches
      BY <2>1 DEF Batches
    <3>2. AllocatedRow(registry[b], 1, NONE, run.monday) \in RegistryRows
      BY <2>1, <3>1, RowsStayRows DEF WarehouseTypes
    <3>3. registry' \in [Batches -> RegistryRows]
      BY <2>2, <3>1, <3>2 DEF WarehouseTypes
    <3>4. BatchesOf(run.list) \cup {b} \subseteq Batches
      BY <3>1 DEF BatchesOf, WarehouseTypes
    <3>5. \A l \in DOMAIN sighted' : sighted'[l] \subseteq Batches
      BY <2>2, <3>4 DEF With, WarehouseTypes
    <3>6. \A l \in DOMAIN attempt' : attempt'[l] \in Batches
      BY <2>2, <3>1 DEF With, WarehouseTypes
    <3> QED BY <3>3, <3>5, <3>6 DEF WarehouseTypes
  <2>3. ASSUME UNCHANGED <<registry, sighted, attempt>>
        PROVE  WarehouseTypes'
    BY <2>3 DEF WarehouseTypes
  <2>4. WarehouseTypes'
    BY <1>1, <2>2, <2>3, OpenStep
  <2>5. ended' = ended
    BY <1>1 DEF OpenSnapshot
  <2> QED BY <2>4, <2>5
<1>2. ASSUME RegisterSnapshot
      PROVE  WarehouseTypes' /\ ended' = [m \in Mondays |-> ended'[m]]
  <2>1. registry' \in [Batches -> RegistryRows]
    <3> SUFFICES ASSUME NEW b \in Batches
                 PROVE  /\ RegisteredRow(WrittenRow(registry[b], 1, NONE)) \in RegistryRows
                        /\ b \in Failing => FailedRow(registry[b], run.report.reason) \in RegistryRows
                        /\ FailedRow(registry[b], "did not report") \in RegistryRows
                        /\ registry[b] \in RegistryRows
      BY <1>2 DEF RegisterSnapshot, RegisterTransaction
    <3>1. registry[b] \in RegistryRows
      BY DEF WarehouseTypes
    <3>2. b \in Failing => run.report.reason \in Reasons
      BY <1>2 DEF Failing, RunTypes, RegisterSnapshot
    <3> QED BY <3>1, <3>2, RowsStayRows DEF Reasons
  <2>2. UNCHANGED <<sighted, attempt>> /\ ended' = [m \in Mondays |-> ended'[m]]
    BY <1>2 DEF RegisterSnapshot
  <2> QED BY <2>1, <2>2 DEF WarehouseTypes
<1>3. ASSUME ReadIndex \/ ReadEntities \/ ExtractSnapshot \/ GiveUp
      PROVE  WarehouseTypes' /\ ended' = [m \in Mondays |-> ended'[m]]
  <2>1. UNCHANGED <<registry, sighted, attempt, ended>>
    BY <1>3 DEF ReadIndex, ReadEntities, ExtractSnapshot, GiveUp, warehouse
  <2> QED BY <2>1 DEF WarehouseTypes
<1> QED BY <1>1, <1>2, <1>3 DEF RunStep

(* A new run knows nothing yet. *)
LEMMA StartedTypes ==
  ASSUME NEW m \in Mondays, run' = Started(m)
  PROVE  RunTypes' /\ (run' # NONE =>
           run'.phase = "index" /\ run'.unit = NONE /\ run'.report = NONE /\ run'.monday = m)
BY DEF RunTypes, Started

(* Every variable has its type. *)
THEOREM ListTypesCorrect == Spec => []ListTypes
<1>1. Init => ListTypes
  <2> SUFFICES ASSUME Init
               PROVE  ListTypes
    OBVIOUS
  <2>1. seeding \in Nat \ {0} /\ day \in Days
    BY DaysAreNumbers DEF Init
  <2>2. objects = [d \in Days |-> objects[d]] /\ ended = [m \in Mondays |-> ended[m]]
    BY DEF Init
  <2>3. RunTypes /\ (latest # NONE => latest \in Days) /\ at \notin {"ingest", "wait"}
    BY DEF Init, RunTypes
  <2>4. AbsentRow(1) \in RegistryRows
    BY DEF AbsentRow, RegistryRows, RowType, Statuses
  <2>5. WarehouseTypes
    BY <2>4 DEF Init, WarehouseTypes
  <2> QED BY <2>1, <2>2, <2>3, <2>5 DEF ListTypes
<1>2. ListTypes /\ [Next]_vars => ListTypes'
  <2> SUFFICES ASSUME ListTypes, [Next]_vars
               PROVE  ListTypes'
    OBVIOUS
  <2>1. ASSUME RunStep
        PROVE  ListTypes'
    <3>1. UNCHANGED <<seeding, day, at, objects, latest>>
      BY <2>1 DEF RunStep, ReadIndex, ReadEntities, OpenSnapshot, ExtractSnapshot, GiveUp,
                  RegisterSnapshot, runOnly, inbound
    <3> QED BY <2>1, <3>1, RunTypesStep, WarehouseTypesStep DEF ListTypes
  <2>2. ASSUME NEW m \in Mondays, run' = Started(m), UNCHANGED <<seeding, day, inbound, ended, warehouse>>,
               at' = at \/ (at' = "wait" /\ day \in Mondays)
        PROVE  ListTypes'
    BY <2>2, StartedTypes DEF ListTypes, WarehouseTypes, inbound, warehouse
  <2>3. ASSUME Ingest
        PROVE  ListTypes'
    BY <2>2, <2>3 DEF Ingest, ListTypes
  <2>4. ASSUME NEW m \in Mondays, Clear(m)
        PROVE  ListTypes'
    BY <2>2, <2>4 DEF Clear
  <2>5. ASSUME Loop, ~ Ingest
        PROVE  ListTypes'
    BY <2>5, LoopTypesStep DEF Loop
  <2>6. CASE UNCHANGED vars
    BY <2>6 DEF vars, inbound, warehouse, ListTypes, RunTypes, WarehouseTypes
  <2> QED BY <2>1, <2>3, <2>4, <2>5, <2>6 DEF Next
<1> QED BY <1>1, <1>2, PTL DEF Spec
-----------------------------------------------------------------------------
(***************************************************************************)
(* One list under a version.                                               *)
(***************************************************************************)
(* Steps that land nothing, and of a run only what it keeps.                *)
LEMMA OneListKept ==
  ASSUME OneListInv, files' = files,
         \/ run' = NONE
         \/ run' = run
         \/ run'.phase # "extract" /\ run'.report = NONE
         \/ Fresh(run'.version)
  PROVE  OneListInv'
<1>1. VersionIsOneList'
  BY DEF OneListInv, VersionIsOneList
<1>2. run' # NONE /\ run'.phase = "extract" /\ ~ run'.unit.refuse => Fresh(run.version)'
  BY DEF OneListInv, Fresh
<1>3. run' # NONE /\ run'.report # NONE /\ run'.report.ok => Fresh(run.version)'
  BY DEF OneListInv, Fresh
<1> QED BY <1>1, <1>2, <1>3 DEF OneListInv

(* The steps of a run keep a version one list. *)
LEMMA OneListRun ==
  ASSUME ListTypes, OneListInv, RunStep
  PROVE  OneListInv'
<1> USE DEF ListTypes
<1>1. run # NONE
  BY DEF RunStep, ReadIndex, ReadEntities, OpenSnapshot, ExtractSnapshot, GiveUp, RegisterSnapshot
<1>2. ASSUME ReadIndex \/ ReadEntities \/ GiveUp
      PROVE  OneListInv'
  <2>1. files' = files
    BY <1>2 DEF ReadIndex, ReadEntities, GiveUp, warehouse
  <2>2. ASSUME ReadIndex \/ ReadEntities
        PROVE  run'.phase # "extract" /\ run'.report = NONE
    BY <1>1, <2>2, RunSteps DEF RunAt
  <2>3. ASSUME GiveUp
        PROVE  run'.phase # "extract" /\ run'.report = NONE
    BY <1>1, <2>3, RunSteps DEF RunAt, GiveUp, RunTypes
  <2> QED BY <1>2, <2>1, <2>2, <2>3, OneListKept
<1>3. ASSUME ExtractSnapshot
      PROVE  OneListInv'
  <2>1. PICK ok \in BOOLEAN, reason \in Reasons \cup {NONE} :
          /\ ok => ~ run.unit.refuse
          /\ run' = RunAt("register", run.version, run.list, run.unit, Reported(ok, reason))
    BY <1>1, <1>3, RunSteps
  <2>2. run'.phase = "register" /\ run'.version = run.version /\ run'.report.ok = ok
    BY <2>1 DEF RunAt, Reported
  <2>3. ok => Fresh(run.version)
    BY <1>1, <1>3, <2>1 DEF OneListInv, ExtractSnapshot
  <2>4. files' = files
    BY <1>3 DEF ExtractSnapshot, warehouse
  <2> QED BY <2>2, <2>3, <2>4 DEF OneListInv, VersionIsOneList, Fresh
<1>4. ASSUME OpenSnapshot
      PROVE  OneListInv'
  <2>1. run.phase = "open" /\ run.report = NONE /\ files' = files
    BY <1>1, <1>4 DEF OpenSnapshot, RunTypes
  <2>2. CASE run' = run
    BY <2>1, <2>2, OneListKept
  <2>3. CASE run' = RunAt("register", run.version, run.list, "nothing", run.report)
    <3>1. run'.phase # "extract" /\ run'.report = NONE
      BY <2>1, <2>3 DEF RunAt
    <3> QED BY <2>1, <3>1, OneListKept
  <2>4. ASSUME NEW n \in 1 .. MaxSequence, IsAttempted(run.list),
               run' = RunAt("extract", run.version, run.list, Unit(<<run.version, n>>), run.report)
        PROVE  OneListInv'
    <3>1. run'.version = run.version /\ run'.report = NONE
            /\ run'.unit.refuse = Conflicts(run.list, run.version)
      BY <2>1, <2>4 DEF RunAt, Unit
    <3>2. ~ Conflicts(run.list, run.version) => Fresh(run.version)
      BY <2>4 DEF Conflicts, IsAttempted, LandedAs, Fresh
    <3> QED BY <2>1, <3>1, <3>2 DEF OneListInv, VersionIsOneList, Fresh
  <2> QED BY <1>4, <2>2, <2>3, <2>4, OpenStep
<1>5. ASSUME RegisterSnapshot
      PROVE  OneListInv'
  <2>1. run' = NONE
    BY <1>5 DEF RegisterSnapshot
  <2>2. files' = files \cup {[list |-> run.list, version |-> run.version, batch |-> b] : b \in Registered}
    BY <1>5 DEF RegisterSnapshot, RegisterTransaction
  <2>3. ASSUME NEW f \in files', NEW g \in files', f.version = g.version
        PROVE  f = g
    <3>1. CASE Registered = {}
      BY <2>2, <2>3, <3>1 DEF OneListInv, VersionIsOneList
    <3>2. CASE Registered # {}
      <4> DEFINE new == [list |-> run.list, version |-> run.version, batch |-> run.unit.batch]
      <4>1. Registered = {run.unit.batch} /\ Fresh(run.version)
        BY <1>1, <3>2 DEF Registered, OneListInv
      <4>2. files' = files \cup {new} /\ new.version = run.version
        BY <2>2, <4>1
      <4>3. (f \in files \/ f = new) /\ (g \in files \/ g = new)
        BY <4>2
      <4> HIDE DEF new
      <4> QED BY <2>3, <4>1, <4>2, <4>3 DEF Fresh, OneListInv, VersionIsOneList
    <3> QED BY <3>1, <3>2
  <2> QED BY <2>1, <2>3 DEF OneListInv, VersionIsOneList
<1> QED BY <1>2, <1>3, <1>4, <1>5 DEF RunStep

(* A version is one list, with what a run under way holds of it. *)
LEMMA OneListInvariant == Spec => []OneListInv
<1>1. Init => OneListInv
  BY DEF Init, OneListInv, VersionIsOneList
<1>2. ListTypes /\ OneListInv /\ [Next]_vars => OneListInv'
  <2> SUFFICES ASSUME ListTypes, OneListInv, [Next]_vars
               PROVE  OneListInv'
    OBVIOUS
  <2>1. ASSUME NEW m \in Mondays, run' = Started(m), files' = files
        PROVE  OneListInv'
    <3>1. run'.phase # "extract" /\ run'.report = NONE
      BY <2>1 DEF Started
    <3> QED BY <2>1, <3>1, OneListKept
  <2>2. ASSUME Ingest
        PROVE  OneListInv'
    BY <2>1, <2>2 DEF Ingest, ListTypes, warehouse
  <2>3. ASSUME NEW m \in Mondays, Clear(m)
        PROVE  OneListInv'
    BY <2>1, <2>3 DEF Clear, warehouse
  <2>4. ASSUME Loop, ~ Ingest
        PROVE  OneListInv'
    BY <2>4, LoopTypesStep, OneListKept DEF Loop
  <2>5. CASE UNCHANGED vars
    BY <2>5, OneListKept DEF vars, warehouse
  <2> QED BY <2>2, <2>3, <2>4, <2>5, OneListRun DEF Next
<1> QED BY <1>1, <1>2, ListTypesCorrect, PTL DEF Spec

(* A version that landed is one list, however often the source is seeded    *)
(* anew under the same names, whatever run is cleared, dies or is tried      *)
(* again: the run that lands a version is the first to land it.              *)
THEOREM VersionIsOneListCorrect == Spec => []VersionIsOneList
<1>1. OneListInv => VersionIsOneList
  BY DEF OneListInv
<1> QED BY <1>1, OneListInvariant, PTL
-----------------------------------------------------------------------------
(***************************************************************************)
(* A week has its list.                                                    *)
(***************************************************************************)
(* The seed's draws are made once: what a day's list is never changes. *)
LEMMA SampledStays ==
  ASSUME sampled' = sampled
  PROVE  \A d : ListOf(d)' = ListOf(d)
BY DEF ListOf, EntitiesOn, Leaving, Position, Joining, NextSerial, MondaysTo, Entity, Fixture

(* The sample is drawn once. *)
LEMMA NextKeepsSampled == [Next]_vars => sampled' = sampled
BY DEF Next, Loop, RunStep, Decide, PutEntities, PointLatest, Ingest, Judge, Kill, Reseed, Restart, Clear,
       ReadIndex, ReadEntities, OpenSnapshot, ExtractSnapshot, GiveUp, RegisterSnapshot, runOnly, vars

(* The run's steps leave what is published, and the loop, alone. *)
LEMMA RunStepKeeps == RunStep => UNCHANGED <<objects, latest, day, at, seeding>>
BY DEF RunStep, ReadIndex, ReadEntities, OpenSnapshot, ExtractSnapshot, GiveUp, RegisterSnapshot,
       runOnly, inbound

(* What the loop publishes is the first seeding's list of the day. *)
LEMMA PublishedStep ==
  ASSUME ListTypes, PublishedInv, seeding = 1, seeding' = 1, [Next]_vars
  PROVE  PublishedInv'
<1> USE DEF ListTypes
<1> DEFINE L(d) == ListOf(d)
<1>1. \A d : ListOf(d)' = ListOf(d)
  BY SampledStays, NextKeepsSampled
<1>2. ASSUME UNCHANGED <<objects, latest, day>>, at' \in {"point", "ingest", "wait"} => at' = at
      PROVE  PublishedInv'
  BY <1>1, <1>2 DEF PublishedInv
<1>3. ASSUME PutEntities
      PROVE  PublishedInv'
  <2>1. objects' = [objects EXCEPT ![day] = ListOf(day)] /\ at' = "point" /\ UNCHANGED <<latest, day>>
    BY <1>3 DEF PutEntities, Publication, ListOf
  <2>2. \A d \in Days : objects'[d] = IF d = day THEN ListOf(d) ELSE objects[d]
    BY <2>1
  <2> QED BY <1>1, <2>1, <2>2 DEF PublishedInv
<1>4. ASSUME PointLatest
      PROVE  PublishedInv'
  <2>1. at = "point" /\ objects' = objects /\ latest' = day
    BY <1>4 DEF PointLatest
  <2>2. at' \notin {"point", "ingest", "wait"} \/ (at' = "ingest" /\ day' = day)
    BY <1>4 DEF PointLatest, Forward
  <2> QED BY <1>1, <2>1, <2>2 DEF PublishedInv
<1>5. ASSUME Ingest
      PROVE  PublishedInv'
  <2>1. at = "ingest" /\ at' = "wait" /\ UNCHANGED <<objects, latest, day>>
    BY <1>5 DEF Ingest, inbound
  <2> QED BY <1>1, <2>1 DEF PublishedInv
<1>6. ASSUME Decide \/ Judge \/ Kill \/ \E d \in Days : Restart(d)
      PROVE  PublishedInv'
  <2>1. UNCHANGED <<objects, latest>> /\ at' \notin {"point", "ingest", "wait"}
    BY <1>6 DEF Decide, Judge, Kill, Restart, Forward, inbound
  <2> QED BY <1>1, <2>1 DEF PublishedInv
<1>7. ~ Reseed
  BY DEF Reseed
<1>8. ASSUME RunStep \/ (\E m \in Mondays : Clear(m)) \/ UNCHANGED vars
      PROVE  PublishedInv'
  <2>1. UNCHANGED <<objects, latest, day, at>>
    BY <1>8, RunStepKeeps DEF Clear, vars, inbound
  <2> QED BY <1>2, <2>1
<1> QED BY <1>3, <1>4, <1>5, <1>6, <1>7, <1>8 DEF Next, Loop

(* What a run may rely on as long as it does not step: the list it read stays *)
(* published, its batch its own.                                             *)
LEMMA RunReadsKept ==
  ASSUME ListTypes, PublishedInv, RunReads, seeding = 1, Loop, ~ Ingest
  PROVE  RunReads'
<1> USE DEF ListTypes
<1>1. UNCHANGED <<run, registry, files, sampled>>
  BY LoopTypesStep DEF Loop
<1>2. \A d : ListOf(d)' = ListOf(d)
  BY <1>1, SampledStays
<1>3. \A d \in Days : objects[d] = ListOf(d) => objects'[d] = ListOf(d)
  <2>1. CASE PutEntities
    <3>1. objects' = [objects EXCEPT ![day] = ListOf(day)]
      BY <2>1 DEF PutEntities, Publication, ListOf
    <3>2. \A d \in Days : objects'[d] = IF d = day THEN ListOf(d) ELSE objects[d]
      BY <3>1
    <3> QED BY <3>2
  <2>2. CASE ~ PutEntities
    <3>1. objects' = objects
      BY <2>2 DEF Loop, Decide, PointLatest, Ingest, Judge, Kill, Reseed, Restart, inbound
    <3> QED BY <3>1
  <2> QED BY <2>1, <2>2
<1>4. HasVersion' = HasVersion /\ HasList' = HasList
  BY <1>1 DEF HasVersion, HasList
<1>5. \A b : IsOwn(b)' = IsOwn(b)
  BY <1>1 DEF IsOwn
<1>6. LandedAs(run.list)' = LandedAs(run.list)
  BY <1>1 DEF LandedAs
<1> QED BY <1>1, <1>2, <1>3, <1>4, <1>5, <1>6 DEF RunReads

(* While the source is seeded once no list is parked: no version conflicts.  *)
LEMMA NothingParked ==
  ASSUME ListTypes, BatchesRead, NEW l
  PROVE  ~ Parked(l)
BY DEF Parked, BatchesRead, ListTypes, WarehouseTypes

(* What a run read of a version is the list of that version. *)
LEMMA RunReadsRun ==
  ASSUME ListTypes, PublishedInv, RunReads, BatchesRead, seeding = 1, RunStep
  PROVE  RunReads'
<1> USE DEF ListTypes
<1>1. run # NONE /\ objects' = objects
  BY RunStepKeeps DEF RunStep, ReadIndex, ReadEntities, OpenSnapshot, ExtractSnapshot, GiveUp, RegisterSnapshot
<1>2. \A d : ListOf(d)' = ListOf(d)
  BY SampledStays, NextKeepsSampled DEF Next
<1>3. ASSUME ReadIndex
      PROVE  RunReads'
  <2>1. run' = RunAt("entities", latest, run.list, NONE, NONE) /\ latest \in Days
    BY <1>1, <1>3, RunSteps DEF ReadIndex
  <2>2. run'.phase = "entities" /\ run'.version = latest /\ run'.unit = NONE /\ run'.report = NONE
    BY <2>1 DEF RunAt
  <2>3. ~ HasList'
    BY <2>2 DEF HasList
  <2> QED BY <1>1, <1>2, <1>3, <2>2, <2>3 DEF RunReads, PublishedInv, ReadIndex
<1>4. ASSUME ReadEntities
      PROVE  RunReads'
  <2>1. run' = RunAt("open", run.version, objects[run.version], NONE, NONE)
    BY <1>1, <1>4, RunSteps
  <2>2. run'.phase = "open" /\ run'.version = run.version /\ run'.list = objects[run.version]
          /\ run'.unit = NONE /\ run'.report = NONE
    BY <2>1 DEF RunAt
  <2>3. HasVersion
    BY <1>4 DEF HasVersion, ReadEntities
  <2> QED BY <1>1, <1>2, <2>2, <2>3 DEF RunReads
<1>5. ASSUME GiveUp
      PROVE  RunReads'
  <2>1. run' = RunAt("register", run.version, run.list, run.unit, run.report)
          /\ UNCHANGED <<registry, files>>
    BY <1>1, <1>5, RunSteps DEF GiveUp, warehouse
  <2>2. run'.phase = "register" /\ run'.version = run.version /\ run'.list = run.list
          /\ run'.unit = run.unit /\ run'.report = run.report /\ run'.monday = run.monday
    BY <2>1 DEF RunAt
  <2>3. (HasVersion' => HasVersion) /\ (HasList' => HasList)
    BY <2>2 DEF HasVersion, HasList
  <2>4. LandedAs(run.list)' = LandedAs(run.list) /\ IsOwn(run.unit.batch)' = IsOwn(run.unit.batch)
    BY <2>1, <2>2 DEF LandedAs, IsOwn
  <2> QED BY <1>1, <1>2, <2>1, <2>2, <2>3, <2>4 DEF RunReads
<1>6. ASSUME ExtractSnapshot
      PROVE  RunReads'
  <2>1. PICK ok \in BOOLEAN, reason \in Reasons \cup {NONE} :
          /\ ~ ok => run.unit.refuse \/ Changed
          /\ run' = RunAt("register", run.version, run.list, run.unit, Reported(ok, reason))
    BY <1>1, <1>6, RunSteps
  <2>2. run.phase = "extract" /\ run.report = NONE /\ UNCHANGED <<registry, files>>
          /\ run.version \in Days
    BY <1>1, <1>6 DEF ExtractSnapshot, RunTypes, warehouse
  <2>3. HasVersion /\ HasList
    BY <2>2 DEF HasVersion, HasList
  <2>4. ok
    BY <1>1, <2>1, <2>2, <2>3 DEF RunReads, Changed
  <2>5. run'.phase = "register" /\ run'.version = run.version /\ run'.list = run.list
          /\ run'.unit = run.unit /\ run'.report.ok = ok /\ run'.monday = run.monday
    BY <2>1 DEF RunAt, Reported
  <2>6. LandedAs(run.list)' = LandedAs(run.list) /\ IsOwn(run.unit.batch)' = IsOwn(run.unit.batch)
    BY <2>2, <2>5 DEF LandedAs, IsOwn
  <2> QED BY <1>1, <1>2, <2>2, <2>3, <2>4, <2>5, <2>6 DEF RunReads
<1>7. ASSUME OpenSnapshot
      PROVE  RunReads'
  <2>1. run.phase = "open" /\ run.report = NONE /\ run.unit = NONE /\ files' = files
          /\ run.version \in Days
    BY <1>1, <1>7 DEF OpenSnapshot, RunTypes
  <2>2. HasVersion /\ HasList
    BY <2>1 DEF HasVersion, HasList
  <2>3. CASE run' = run
    BY <1>1, <1>2, <2>1, <2>2, <2>3 DEF RunReads
  <2>4. ASSUME ~ IsAttempted(run.list),
               run' = RunAt("register", run.version, run.list, "nothing", run.report)
        PROVE  RunReads'
    <3>1. LandedAs(run.list) # {}
      BY <2>4, NothingParked DEF IsAttempted
    <3>2. run'.phase = "register" /\ run'.version = run.version /\ run'.list = run.list
            /\ run'.report = NONE
      BY <2>1, <2>4 DEF RunAt
    <3>3. LandedAs(run.list)' # {}
      BY <2>1, <3>1, <3>2 DEF LandedAs
    <3> QED BY <1>1, <1>2, <2>1, <2>2, <3>2, <3>3 DEF RunReads
  <2>5. ASSUME NEW n \in 1 .. MaxSequence, IsAttempted(run.list),
               registry' = [registry EXCEPT ![<<run.version, n>>] = AllocatedRow(@, 1, NONE, run.monday)],
               run' = RunAt("extract", run.version, run.list, Unit(<<run.version, n>>), run.report)
        PROVE  RunReads'
    <3> DEFINE b == <<run.version, n>>
    <3>1. run'.phase = "extract" /\ run'.version = run.version /\ run'.list = run.list
            /\ run'.report = NONE /\ run'.monday = run.monday /\ run'.unit = Unit(b)
            /\ run'.unit.batch = b
      BY <2>1, <2>5 DEF RunAt, Unit
    <3>2. ~ run'.unit.refuse
      <4>1. ~ Conflicts(run.list, run.version)
        BY <1>1, <2>1, <2>2 DEF Conflicts, BatchesRead, RunReads
      <4> QED BY <3>1, <4>1 DEF Unit
    <3>3. b \in Batches /\ run.monday \in Mondays
      BY <1>1, <2>1 DEF Batches, RunTypes
    <3>4. registry'[b] = AllocatedRow(registry[b], 1, NONE, run.monday) /\ registry[b] \in RegistryRows
      BY <2>5, <3>3 DEF WarehouseTypes
    <3> DEFINE row == AllocatedRow(registry[b], 1, NONE, run.monday)
    <3>5. registry'[b].status = "open" /\ registry'[b].run = run.monday
      <4>1. row.status = "open" /\ row.run = run.monday
        BY <3>3, <3>4, RowsStayRows
      <4> QED BY <3>4, <4>1
    <3>6. IsOwn(run.unit.batch)' /\ registry'[run'.unit.batch].status # "absent"
      BY <3>1, <3>5 DEF IsOwn, Unregistered
    <3>7. run'.unit \in Units
      <4>1. Conflicts(run.list, run.version) \in BOOLEAN
        BY DEF Conflicts
      <4> QED BY <3>1, <3>3, <4>1 DEF Unit, Units
    <3> QED BY <1>1, <1>2, <2>2, <3>1, <3>2, <3>6, <3>7 DEF RunReads, Units, Batches
  <2> QED BY <1>7, <2>3, <2>4, <2>5, OpenStep
<1>8. ASSUME RegisterSnapshot
      PROVE  RunReads'
  BY <1>8 DEF RegisterSnapshot, RunReads
<1> QED BY <1>3, <1>4, <1>5, <1>6, <1>7, <1>8 DEF RunStep

(* What register does, while the source is seeded once: the one batch that    *)
(* reported lands its version's list, and the ones that did not are failed.   *)
LEMMA RegisterRows ==
  ASSUME ListTypes, RunReads, RegisterSnapshot
  PROVE  /\ Failing = {}
         /\ \A b \in Batches :
              /\ registry'[b].status = "failed" => registry'[b].reason = "did not report" \/ registry'[b] = registry[b]
              /\ registry'[b].status # "absent" => registry[b].status # "absent"
         /\ \A f \in files' \ files :
              /\ f.version = run.version /\ f.list = run.list
              /\ run.report # NONE
<1> USE DEF ListTypes
<1>1. Failing = {}
  BY DEF Failing, RunReads, RegisterSnapshot
<1>2. ASSUME NEW b \in Batches
      PROVE  /\ registry'[b].status = "failed" =>
                  registry'[b].reason = "did not report" \/ registry'[b] = registry[b]
             /\ registry'[b].status # "absent" => registry[b].status # "absent"
  <2>1. registry[b] \in RegistryRows
    BY DEF WarehouseTypes
  <2>2. CASE b \in Registered
    <3> DEFINE row == RegisteredRow(WrittenRow(registry[b], 1, NONE))
    <3>1. registry'[b] = row
      BY <2>2 DEF RegisterSnapshot, RegisterTransaction
    <3>2. row.status = "registered"
      BY <2>1, RowsStayRows
    <3>3. registry[b].status # "absent"
      BY <2>2 DEF Registered, RunReads, RegisterSnapshot
    <3> QED BY <3>1, <3>2, <3>3
  <2>3. CASE b \notin Registered /\ b \in Stranded
    <3> DEFINE row == FailedRow(registry[b], "did not report")
    <3>1. registry'[b] = row
      BY <1>1, <2>3 DEF RegisterSnapshot, RegisterTransaction
    <3>2. row.status = "failed" => row.reason = "did not report"
      BY <2>1, RowsStayRows DEF Reasons
    <3>3. registry[b].status # "absent"
      BY <2>3 DEF Stranded, Unregistered
    <3> QED BY <3>1, <3>2, <3>3
  <2>4. CASE b \notin Registered /\ b \notin Stranded
    <3>1. registry'[b] = registry[b]
      BY <1>1, <2>4 DEF RegisterSnapshot, RegisterTransaction
    <3> QED BY <3>1
  <2> QED BY <2>2, <2>3, <2>4
<1>3. ASSUME NEW f \in files', f \notin files
      PROVE  f.version = run.version /\ f.list = run.list /\ run.report # NONE
  <2>1. PICK b \in Registered : f = [list |-> run.list, version |-> run.version, batch |-> b]
    BY <1>3 DEF RegisterSnapshot, RegisterTransaction
  <2> QED BY <2>1 DEF Registered
<1> QED BY <1>1, <1>2, <1>3

(* What is registered was read, whatever the step. *)
LEMMA BatchesReadStep ==
  ASSUME ListTypes, RunReads, BatchesRead, [Next]_vars
  PROVE  BatchesRead'
<1> USE DEF ListTypes
<1>1. \A d : ListOf(d)' = ListOf(d)
  BY SampledStays, NextKeepsSampled
<1>2. ASSUME RegisterSnapshot
      PROVE  BatchesRead'
  <2>1. sighted' = sighted
    BY <1>2 DEF RegisterSnapshot
  <2>2. ASSUME NEW f \in files', NEW d \in Days, f.version = d
        PROVE  f.list = ListOf(d)
    <3>1. CASE f \in files
      BY <2>2, <3>1 DEF BatchesRead
    <3>2. CASE f \notin files
      <4>1. f.version = run.version /\ f.list = run.list /\ run.report # NONE /\ run # NONE
        BY <1>2, <3>2, RegisterRows DEF RegisterSnapshot
      <4> QED BY <2>2, <4>1 DEF RunReads, HasList
    <3> QED BY <3>1, <3>2
  <2>3. \A b \in Batches : registry'[b].status = "failed" => registry'[b].reason = "did not report"
    BY <1>2, RegisterRows DEF BatchesRead
  <2>4. \A b \in Batches : registry'[b].status # "absent" => \E l \in DOMAIN sighted' : b \in sighted'[l]
    BY <1>2, <2>1, RegisterRows DEF BatchesRead
  <2>5. \A f \in files', d \in Days : f.version = d => f.list = ListOf(d)
    BY <2>2
  <2> QED BY <1>1, <2>1, <2>3, <2>4, <2>5 DEF BatchesRead
<1>3. ASSUME OpenSnapshot, UNCHANGED <<registry, sighted>>
      PROVE  BatchesRead'
  BY <1>1, <1>3 DEF BatchesRead, OpenSnapshot
<1>4. ASSUME OpenSnapshot, NEW n \in 1 .. MaxSequence,
             registry' = [registry EXCEPT ![<<run.version, n>>] = AllocatedRow(@, 1, NONE, run.monday)],
             sighted' = With(sighted, run.list, BatchesOf(run.list) \cup {<<run.version, n>>})
      PROVE  BatchesRead'
  <2> DEFINE b == <<run.version, n>>
             row == AllocatedRow(registry[b], 1, NONE, run.monday)
  <2>1. run # NONE /\ run.monday \in Mondays /\ run.version \in Days /\ files' = files
          /\ run.phase = "open"
    BY <1>4 DEF OpenSnapshot, RunTypes
  <2>2. b \in Batches
    BY <2>1 DEF Batches
  <2>3. row.status = "open" /\ registry[b] \in RegistryRows
    BY <2>1, <2>2, RowsStayRows DEF WarehouseTypes
  <2>4. \A c \in Batches : registry'[c] = IF c = b THEN row ELSE registry[c]
    BY <1>4, <2>2 DEF WarehouseTypes
  <2>5. DOMAIN sighted' = DOMAIN sighted \cup {run.list}
          /\ \A l \in DOMAIN sighted' : sighted'[l] = IF l = run.list THEN BatchesOf(run.list) \cup {b}
                                                      ELSE sighted[l]
    BY <1>4 DEF With
  <2>6. BatchesOf(run.list) = IF run.list \in DOMAIN sighted THEN sighted[run.list] ELSE {}
    BY DEF BatchesOf
  <2>7. run.list = ListOf(run.version)
    BY <2>1 DEF RunReads, HasList
  <2>8. ASSUME NEW l \in DOMAIN sighted', NEW c \in Batches, NEW d \in Days, c \in sighted'[l], c[1] = d
        PROVE  l = ListOf(d)
    <3>1. CASE l \in DOMAIN sighted /\ c \in sighted[l]
      BY <2>8, <3>1 DEF BatchesRead
    <3>2. CASE l = run.list /\ c = b
      BY <2>7, <2>8, <3>2
    <3> QED BY <2>5, <2>6, <2>8, <3>1, <3>2
  <2>9. ASSUME NEW c \in Batches, registry'[c].status # "absent"
        PROVE  \E l \in DOMAIN sighted' : c \in sighted'[l]
    <3>1. CASE c = b
      BY <2>5, <3>1
    <3>2. CASE c # b
      <4>1. PICK l \in DOMAIN sighted : c \in sighted[l]
        BY <2>4, <2>9, <3>2 DEF BatchesRead
      <4> QED BY <2>5, <2>6, <4>1
    <3> QED BY <3>1, <3>2
  <2>10. \A c \in Batches : registry'[c].status = "failed" => registry'[c].reason = "did not report"
    BY <2>3, <2>4 DEF BatchesRead
  <2>11. \A f \in files', d \in Days : f.version = d => f.list = ListOf(d)
    BY <2>1 DEF BatchesRead
  <2>12. \A l \in DOMAIN sighted', c \in Batches, d \in Days :
           c \in sighted'[l] /\ c[1] = d => l = ListOf(d)
    BY <2>8
  <2> QED BY <1>1, <2>9, <2>10, <2>11, <2>12 DEF BatchesRead
<1>5. ASSUME ~ RegisterSnapshot, ~ OpenSnapshot
      PROVE  BatchesRead'
  <2>1. UNCHANGED <<registry, sighted, files>>
    BY <1>5 DEF Next, Loop, RunStep, Decide, PutEntities, PointLatest, Ingest, Judge, Kill, Reseed,
                Restart, Clear, ReadIndex, ReadEntities, ExtractSnapshot, GiveUp, warehouse, vars
  <2> QED BY <1>1, <2>1 DEF BatchesRead
<1> QED BY <1>2, <1>3, <1>4, <1>5, OpenStep

(* Steps that leave the day, the warehouse and the run's end alone. *)
LEMMA WaitKept ==
  ASSUME WaitInv, sampled' = sampled,
         UNCHANGED <<day, ended, files>>,
         at' = at \/ at' \notin {"publish", "point", "ingest", "wait"},
         RunOf(day)' => RunOf(day) /\ (HasVersion' => HasVersion) /\ run'.version = run.version
  PROVE  WaitInv'
<1>1. \A d : ListOf(d)' = ListOf(d)
  BY SampledStays
<1>2. \A l : LandedAs(l)' = LandedAs(l)
  BY DEF LandedAs
<1> QED BY <1>1, <1>2 DEF WaitInv

(* The loop waits at its Monday until the run of that Monday ends. *)
LEMMA WaitLoop ==
  ASSUME ListTypes, WaitInv, Loop, ~ Reseed
  PROVE  WaitInv'
<1>1. sampled' = sampled /\ files' = files
  BY DEF Loop, Decide, PutEntities, PointLatest, Ingest, Judge, Kill, Reseed, Restart, warehouse
<1>2. ASSUME Decide
      PROVE  WaitInv'
  <2>1. ~ RunOf(day) /\ run' = run
    BY <1>2 DEF Decide
  <2>2. at' = "publish" => day' = day
    BY <1>2 DEF Decide, Forward
  <2>3. at' \notin {"point", "ingest", "wait"}
    BY <1>2 DEF Decide, Forward
  <2>4. at' = "publish" => ~ RunOf(day)'
    BY <2>1, <2>2 DEF RunOf
  <2> QED BY <2>3, <2>4 DEF WaitInv
<1>3. ASSUME PutEntities
      PROVE  WaitInv'
  <2>1. at = "publish" /\ at' = "point" /\ UNCHANGED <<day, run>>
    BY <1>3 DEF PutEntities
  <2>2. ~ RunOf(day)'
    BY <2>1 DEF WaitInv, RunOf
  <2> QED BY <2>1, <2>2 DEF WaitInv
<1>4. ASSUME PointLatest
      PROVE  WaitInv'
  <2>1. at = "point" /\ UNCHANGED <<run, ended>>
    BY <1>4 DEF PointLatest
  <2>2. at' \notin {"publish", "point", "ingest", "wait"}
          \/ (at' = "ingest" /\ day' = day /\ ended[day] # "success")
    BY <1>4 DEF PointLatest, Forward, IsPending, Complete
  <2>3. day' = day => ~ RunOf(day)'
    BY <2>1 DEF WaitInv, RunOf
  <2> QED BY <2>1, <2>2, <2>3 DEF WaitInv
<1>5. ASSUME Ingest
      PROVE  WaitInv'
  <2>1. at = "ingest" /\ at' = "wait" /\ UNCHANGED <<day, ended, files>> /\ run' = Started(day)
    BY <1>5 DEF Ingest, warehouse
  <2>2. ~ HasVersion'
    BY <2>1 DEF HasVersion, Started
  <2>3. ended[day] = "success" => \A d \in Days : d = day => LandedAs(ListOf(d)) # {}
    BY <2>1 DEF WaitInv
  <2>4. \A d : ListOf(d)' = ListOf(d) /\ LandedAs(ListOf(d))' = LandedAs(ListOf(d))
    BY <1>1, SampledStays DEF LandedAs
  <2> QED BY <2>1, <2>2, <2>3, <2>4 DEF WaitInv
<1>6. ASSUME Judge \/ Kill \/ \E d \in Days : Restart(d)
      PROVE  WaitInv'
  <2>1. at' \notin {"publish", "point", "ingest", "wait"}
    BY <1>6 DEF Judge, Kill, Restart, Forward
  <2> QED BY <2>1 DEF WaitInv
<1> QED BY <1>2, <1>3, <1>4, <1>5, <1>6 DEF Loop

(* And the run of that Monday ends with its list registered. *)
LEMMA WaitRun ==
  ASSUME ListTypes, PublishedInv, RunReads, WaitInv, RunStep
  PROVE  WaitInv'
<1> USE DEF ListTypes
<1>1. run # NONE /\ UNCHANGED <<at, day, latest, sampled>>
  BY RunStepKeeps DEF RunStep, ReadIndex, ReadEntities, OpenSnapshot, ExtractSnapshot, GiveUp,
                      RegisterSnapshot, runOnly
<1>2. ASSUME ReadIndex
      PROVE  WaitInv'
  <2>1. run' = RunAt("entities", latest, run.list, NONE, NONE) /\ UNCHANGED <<ended, files>>
    BY <1>1, <1>2, RunSteps DEF ReadIndex, warehouse
  <2>2. run'.version = latest /\ run'.monday = run.monday
    BY <2>1 DEF RunAt
  <2>3. RunOf(day)' => RunOf(day)
    BY <1>1, <2>2 DEF RunOf
  <2>4. at = "wait" => run'.version = day
    BY <2>2 DEF PublishedInv
  <2>5. \A d : ListOf(d)' = ListOf(d) /\ LandedAs(ListOf(d))' = LandedAs(ListOf(d))
    BY <1>1, <2>1, SampledStays DEF LandedAs
  <2> QED BY <1>1, <2>1, <2>3, <2>4, <2>5 DEF WaitInv
<1>3. ASSUME ReadEntities \/ GiveUp \/ ExtractSnapshot
      PROVE  WaitInv'
  <2>1. UNCHANGED <<ended, files>>
    BY <1>3 DEF ReadEntities, GiveUp, ExtractSnapshot, warehouse
  <2>2. run'.version = run.version /\ run'.monday = run.monday /\ (HasVersion' => HasVersion)
    <3>1. CASE ReadEntities
      <4>1. run' = RunAt("open", run.version, objects[run.version], NONE, NONE) /\ HasVersion
        BY <1>1, <3>1, RunSteps DEF HasVersion, ReadEntities
      <4> QED BY <4>1 DEF RunAt
    <3>2. CASE GiveUp
      <4>1. run' = RunAt("register", run.version, run.list, run.unit, run.report)
        BY <1>1, <3>2, RunSteps
      <4> QED BY <4>1 DEF RunAt, HasVersion
    <3>3. CASE ExtractSnapshot
      <4>1. PICK ok \in BOOLEAN, reason \in Reasons \cup {NONE} :
              run' = RunAt("register", run.version, run.list, run.unit, Reported(ok, reason))
        BY <1>1, <3>3, RunSteps
      <4>2. HasVersion
        BY <3>3 DEF HasVersion, ExtractSnapshot
      <4> QED BY <4>1, <4>2 DEF RunAt
    <3> QED BY <1>3, <3>1, <3>2, <3>3
  <2>3. RunOf(day)' => RunOf(day)
    BY <1>1, <2>2 DEF RunOf
  <2> QED BY <1>1, <2>1, <2>2, <2>3, WaitKept
<1>4. ASSUME OpenSnapshot
      PROVE  WaitInv'
  <2>1. UNCHANGED <<ended, files>> /\ HasVersion
    BY <1>4 DEF OpenSnapshot, HasVersion
  <2>2. run'.version = run.version /\ run'.monday = run.monday
    <3>1. ASSUME NEW u, run' = RunAt("extract", run.version, run.list, u, run.report)
                          \/ run' = RunAt("register", run.version, run.list, u, run.report)
          PROVE  run'.version = run.version /\ run'.monday = run.monday
      BY <3>1 DEF RunAt
    <3> QED BY <1>4, <3>1, OpenStep
  <2>3. RunOf(day)' => RunOf(day)
    BY <1>1, <2>2 DEF RunOf
  <2> QED BY <1>1, <2>1, <2>2, <2>3, WaitKept
<1>5. ASSUME RegisterSnapshot
      PROVE  WaitInv'
  <2>1. ~ RunOf(day)'
    BY <1>5 DEF RegisterSnapshot, RunOf
  <2>2. \A d : ListOf(d)' = ListOf(d)
    BY <1>1, SampledStays
  <2>3. \A l : LandedAs(l) # {} => LandedAs(l)' # {}
    BY <1>5 DEF RegisterSnapshot, RegisterTransaction, LandedAs
  <2>4. ASSUME at \in {"ingest", "wait"}, ended'[day] = "success", ended[day] # "success",
               NEW d \in Days, d = day
        PROVE  LandedAs(ListOf(d))' # {}
    <3>1. run.monday = day /\ GatePasses
      BY <1>5, <2>4 DEF RegisterSnapshot
    <3>2. at = "wait" /\ RunOf(day)
      BY <1>1, <2>4, <3>1 DEF RunOf, WaitInv
    <3>3. run.unit # NONE /\ HasVersion /\ HasList
      BY <3>1 DEF GatePasses, HasVersion, HasList
    <3>4. run.version = d /\ run.list = ListOf(d)
      BY <1>1, <2>4, <3>2, <3>3 DEF WaitInv, RunReads
    <3>5. CASE run.report = NONE
      <4>1. run.unit \notin Units \/ ~ IsOwn(run.unit.batch)
        BY <3>1, <3>5 DEF GatePasses, Stranded, IsOwn, Units
      <4> QED BY <1>1, <2>2, <2>3, <3>3, <3>4, <3>5, <4>1 DEF RunReads
    <3>6. CASE run.report # NONE
      <4> DEFINE new == [list |-> run.list, version |-> run.version, batch |-> run.unit.batch]
      <4>1. new \in files'
        BY <1>1, <1>5, <3>6 DEF RegisterSnapshot, RegisterTransaction, Registered, RunReads
      <4> QED BY <2>2, <3>4, <4>1 DEF LandedAs
    <3> QED BY <3>5, <3>6
  <2>5. ASSUME at \in {"ingest", "wait"}, ended'[day] = "success", ended[day] = "success",
               NEW d \in Days, d = day
        PROVE  LandedAs(ListOf(d))' # {}
    BY <2>2, <2>3, <2>5 DEF WaitInv
  <2> QED BY <1>1, <2>1, <2>4, <2>5 DEF WaitInv
<1> QED BY <1>2, <1>3, <1>4, <1>5 DEF RunStep

(* The invariant of the week, in every state. *)
LEMMA WeekInvariant == Spec => []WeekInv
<1>1. Init => WeekInv
  <2> SUFFICES ASSUME Init
               PROVE  WeekInv
    OBVIOUS
  <2>1. PublishedInv /\ RunReads /\ WaitInv
    BY DEF Init, PublishedInv, RunReads, WaitInv
  <2>2. \A b \in Batches : registry[b].status = "absent"
    BY DEF Init, AbsentRow
  <2>3. files = {} /\ DOMAIN sighted = {}
    BY DEF Init
  <2>4. BatchesRead
    BY <2>2, <2>3 DEF BatchesRead
  <2> QED BY <2>1, <2>4 DEF WeekInv
<1>2. ListTypes /\ WeekInv /\ [Next]_vars => WeekInv'
  <2> SUFFICES ASSUME ListTypes, WeekInv, [Next]_vars, seeding' = 1
               PROVE  PublishedInv' /\ RunReads' /\ BatchesRead' /\ WaitInv'
    BY DEF WeekInv
  <2>1. seeding = 1 /\ ~ Reseed
    <3>1. ASSUME Reseed
          PROVE  FALSE
      BY <3>1 DEF Reseed, ListTypes
    <3>2. seeding' = seeding
      BY <3>1, RunStepKeeps DEF Next, Loop, Decide, PutEntities, PointLatest, Ingest, Judge, Kill,
                                Restart, Clear, vars
    <3> QED BY <3>1, <3>2
  <2>2. PublishedInv /\ RunReads /\ BatchesRead /\ WaitInv
    BY <2>1 DEF WeekInv
  <2>3. PublishedInv' /\ BatchesRead'
    BY <2>1, <2>2, PublishedStep, BatchesReadStep
  <2>4. ASSUME NEW m \in Mondays, run' = Started(m)
        PROVE  RunReads'
    <3>1. run'.phase = "index" /\ run'.unit = NONE /\ run'.report = NONE
      BY <2>4 DEF Started
    <3>2. ~ HasVersion' /\ ~ HasList'
      BY <3>1 DEF HasVersion, HasList
    <3> QED BY <3>1, <3>2 DEF RunReads
  <2>5. CASE RunStep
    BY <2>1, <2>2, <2>3, <2>5, RunReadsRun, WaitRun
  <2>6. CASE Loop /\ ~ Ingest
    BY <2>1, <2>2, <2>3, <2>6, RunReadsKept, WaitLoop
  <2>7. CASE Ingest
    BY <2>1, <2>2, <2>3, <2>4, <2>7, WaitLoop DEF Ingest, Loop, ListTypes
  <2>8. ASSUME NEW m \in Mondays, Clear(m)
        PROVE  RunReads' /\ WaitInv'
    <3>1. run' = Started(m) /\ m # day /\ sampled' = sampled /\ UNCHANGED <<day, at, ended, files>>
      BY <2>8 DEF Clear, warehouse
    <3>2. ~ RunOf(day)'
      BY <3>1 DEF RunOf, Started
    <3> QED BY <2>2, <2>4, <3>1, <3>2, WaitKept
  <2>9. CASE UNCHANGED vars
    <3>1. UNCHANGED <<sampled, objects, day, at, ended, run, registry, files>>
      BY <2>9 DEF vars, inbound, warehouse
    <3>2. \A d : ListOf(d)' = ListOf(d)
      BY <3>1, SampledStays
    <3>3. HasVersion' = HasVersion /\ HasList' = HasList /\ LandedAs(run.list)' = LandedAs(run.list)
            /\ \A b : IsOwn(b)' = IsOwn(b)
      BY <3>1 DEF HasVersion, HasList, LandedAs, IsOwn
    <3>4. RunReads'
      BY <2>2, <3>1, <3>2, <3>3 DEF RunReads
    <3>5. RunOf(day)' = RunOf(day)
      BY <3>1 DEF RunOf
    <3> QED BY <2>2, <2>3, <3>1, <3>3, <3>4, <3>5, WaitKept
  <2> QED BY <2>3, <2>5, <2>6, <2>7, <2>8, <2>9 DEF Next
<1> QED BY <1>1, <1>2, ListTypesCorrect, PTL DEF Spec

(* While the source is seeded once, the loop leaves a Monday it waited for   *)
(* only with the list it published that Monday in bronze, whatever task died *)
(* or gave up and whatever other Monday was cleared and read the same latest.*)
THEOREM MondayHasItsListCorrect == Spec => MondayHasItsList
<1>1. ListTypes /\ WeekInv /\ [Next]_vars
        => [seeding = 1 /\ at = "wait" /\ at' \notin {"wait", "halted"}
              /\ (\A b \in FailedOf(day) : b[1] = day)
            => LandedAs(objects[day]) # {}]_vars
  <2> SUFFICES ASSUME ListTypes, WeekInv, [Next]_vars, seeding = 1, at = "wait",
                      at' \notin {"wait", "halted"}, \A b \in FailedOf(day) : b[1] = day
               PROVE  LandedAs(objects[day]) # {}
    OBVIOUS
  <2>1. PublishedInv /\ BatchesRead /\ WaitInv /\ day \in Days
    BY DEF WeekInv, ListTypes
  <2>2. objects[day] = ListOf(day)
    BY <2>1 DEF PublishedInv
  <2>3. Complete(day)
    <3>1. ~ RunStep /\ ~ (\E m \in Mondays : Clear(m)) /\ ~ UNCHANGED vars
      BY RunStepKeeps DEF Clear, vars
    <3>2. Judge
      BY <3>1 DEF Next, Loop, Decide, PutEntities, PointLatest, Ingest, Kill, Reseed, Restart, Stopped
    <3> QED BY <3>2 DEF Judge
  <2>4. CASE ended[day] = "success"
    BY <2>1, <2>2, <2>4 DEF WaitInv
  <2>5. CASE ended[day] # "success"
    <3>1. PICK b \in FailedOf(day) : LandedAs(ListOfBatch(b)) # {}
      BY <2>1, <2>3, <2>5, NothingParked DEF Complete
    <3>2. b \in Batches /\ registry[b].status # "absent" /\ b[1] = day
      BY <3>1 DEF FailedOf
    <3>3. ListOfBatch(b) \in DOMAIN sighted /\ b \in sighted[ListOfBatch(b)]
      BY <2>1, <3>2 DEF ListOfBatch, BatchesRead
    <3>4. ListOfBatch(b) = ListOf(day)
      BY <2>1, <3>2, <3>3 DEF BatchesRead
    <3> QED BY <2>2, <3>1, <3>4
  <2> QED BY <2>4, <2>5
<1> QED BY <1>1, ListTypesCorrect, WeekInvariant, PTL DEF Spec, MondayHasItsList
-----------------------------------------------------------------------------
(***************************************************************************)
(* What a list holds: the recursion over days, taken apart.                *)
(***************************************************************************)
(* A set of naturals that is not empty has a least member. *)
LEMMA LeastNatural ==
  ASSUME NEW S, S \subseteq Nat, S # {}
  PROVE  \E i \in S : \A j \in S : i <= j
<1>1. PICK i \in S : \A j \in S : ~ (<<j, i>> \in OpToRel(<, Nat))
  BY NatLessThanWellFounded, WFMin, Zenon
<1>2. \A j \in S : ~ (j < i)
  BY <1>1 DEF OpToRel
<1> QED BY <1>2

(* Induction over the naturals. *)
LEMMA CountingUp ==
  ASSUME NEW G, 0 \in G, \A n \in Nat : n \in G => n + 1 \in G
  PROVE  Nat \subseteq G
<1>1. SUFFICES ASSUME Nat \ G # {} PROVE FALSE
  OBVIOUS
<1>2. PICK n \in Nat \ G : \A m \in Nat \ G : n <= m
  BY <1>1, LeastNatural
<1>3. n # 0 /\ n - 1 \in Nat
  BY <1>2
<1>4. n - 1 \in G
  BY <1>2, <1>3
<1>5. (n - 1) + 1 \in G
  BY <1>3, <1>4
<1> QED BY <1>2, <1>5

(* The entities at the anchor, and what a day makes of the list before it. *)
AtAnchor(anchor) == {Entity(serial, anchor) : serial \in 0 .. Base - 1}
Moved(anchor, n, list) ==
  IF n \notin Mondays THEN list ELSE (list \ Leaving(n, list)) \cup Joining(anchor, n)
ListNext(anchor, n, f) ==
  IF n = 0 \/ n < anchor THEN AtAnchor(anchor) ELSE Moved(anchor, n, f[n - 1])

(* f is the list of every day. *)
Lists(f, anchor) == \A n \in 0 .. LastDay : f[n] = ListNext(anchor, n, f)

(* There is one, and EntitiesOn looks it up. *)
LEMMA ListsExist ==
  ASSUME NEW anchor \in Nat
  PROVE  \E f : /\ Lists(f, anchor)
                /\ \A d \in 0 .. LastDay : EntitiesOn(anchor, d) = f[d] \cup {Entity(Fixture, anchor)}
<1> DEFINE Fits(f, k) == f = [n \in 0 .. k |-> ListNext(anchor, n, f)]
           G == {k \in Nat : \E f : Fits(f, k)}
<1>1. 0 \in G
  <2>1. Fits([n \in 0 .. 0 |-> AtAnchor(anchor)], 0)
    BY DEF ListNext
  <2> QED BY <2>1
<1>2. ASSUME NEW k \in Nat, k \in G PROVE k + 1 \in G
  <2>1. PICK f : Fits(f, k)
    BY <1>2
  <2> DEFINE h == [n \in 0 .. k + 1 |-> IF n = k + 1 THEN ListNext(anchor, n, f) ELSE f[n]]
  <2>2. \A n \in 0 .. k : h[n] = f[n]
    OBVIOUS
  <2>3. \A n \in 0 .. k + 1 : n = 0 \/ n - 1 \in 0 .. k
    OBVIOUS
  <2>4. \A n \in 0 .. k + 1 : ListNext(anchor, n, h) = ListNext(anchor, n, f)
    BY <2>2, <2>3 DEF ListNext
  <2>5. \A n \in 0 .. k : f[n] = ListNext(anchor, n, f)
    BY <2>1
  <2>6. \A n \in 0 .. k + 1 : h[n] = ListNext(anchor, n, h)
    BY <2>4, <2>5
  <2>7. h = [n \in 0 .. k + 1 |-> h[n]]
    OBVIOUS
  <2> HIDE DEF h
  <2>8. Fits(h, k + 1)
    BY <2>6, <2>7
  <2> QED BY <2>8
<1> HIDE DEF G
<1>3. LastDay \in G
  BY <1>1, <1>2, CountingUp, DaysAreNumbers
<1> DEFINE Eqn(live) == live = [n \in 0 .. LastDay |->
             IF n = 0 \/ n < anchor THEN {Entity(serial, anchor) : serial \in 0 .. Base - 1}
             ELSE IF n \notin Mondays THEN live[n - 1]
             ELSE (live[n - 1] \ Leaving(n, live[n - 1])) \cup Joining(anchor, n)]
           g == CHOOSE live : Eqn(live)
<1>4. \E f : Eqn(f)
  <2>1. PICK f : Fits(f, LastDay)
    BY <1>3 DEF G
  <2>2. Eqn(f)
    BY <2>1 DEF ListNext, Moved, AtAnchor
  <2> QED BY <2>2
<1>5. Eqn(g)
  BY <1>4
<1>6. \A d \in 0 .. LastDay : EntitiesOn(anchor, d) = g[d] \cup {Entity(Fixture, anchor)}
  BY DEF EntitiesOn
<1>7. Lists(g, anchor)
  <2> HIDE DEF g
  <2> QED BY <1>5 DEF Lists, ListNext, Moved, AtAnchor
<1> HIDE DEF g
<1> QED BY <1>6, <1>7

(* The Mondays are numbers of days. *)
LEMMA MondaysAreNumbers == \A m \in Mondays : m \in Nat /\ m \in 1 .. LastDay
<1>1. LastDay \in Nat /\ Mondays \subseteq 1 .. LastDay
  BY DaysAreNumbers
<1> QED BY <1>1

(* They are finitely many. *)
LEMMA MondaysAreFew ==
  ASSUME NEW anchor, NEW d
  PROVE  IsFiniteSet(MondaysTo(anchor, d)) /\ Cardinality(MondaysTo(anchor, d)) \in Nat
<1>1. LastDay \in Nat /\ Mondays \subseteq 1 .. LastDay
  BY DaysAreNumbers
<1>2. IsFiniteSet(1 .. LastDay)
  BY <1>1, FS_Interval
<1>3. MondaysTo(anchor, d) \subseteq 1 .. LastDay
  BY <1>1 DEF MondaysTo
<1> QED BY <1>2, <1>3, FS_Subset, FS_CardinalityType

(* All that may ever have been listed by a day. *)
Known(anchor, n) ==
  AtAnchor(anchor) \cup UNION {Joining(anchor, m) : m \in MondaysTo(anchor, n)}

(* And is all that is. *)
LEMMA ListedAreKnown ==
  ASSUME NEW anchor \in Nat, NEW f, Lists(f, anchor)
  PROVE  \A n \in 0 .. LastDay : f[n] \subseteq Known(anchor, n)
<1> DEFINE G == {n \in Nat : n =< LastDay => f[n] \subseteq Known(anchor, n)}
<1>0. LastDay \in Nat
  BY DaysAreNumbers
<1>1. 0 \in G
  BY <1>0 DEF Lists, ListNext, Known
<1>2. ASSUME NEW k \in Nat, k \in G PROVE k + 1 \in G
  <2> SUFFICES ASSUME k + 1 =< LastDay
               PROVE  f[k + 1] \subseteq Known(anchor, k + 1)
    OBVIOUS
  <2>1. f[k + 1] = ListNext(anchor, k + 1, f) /\ f[k] \subseteq Known(anchor, k)
    BY <1>0, <1>2 DEF Lists
  <2>2. MondaysTo(anchor, k) \subseteq MondaysTo(anchor, k + 1)
    BY MondaysAreNumbers DEF MondaysTo
  <2>3. Known(anchor, k) \subseteq Known(anchor, k + 1)
    BY <2>2 DEF Known
  <2>4. CASE k + 1 < anchor
    BY <2>1, <2>4 DEF ListNext, Known
  <2>5. CASE ~ (k + 1 < anchor)
    <3>1. f[k + 1] = Moved(anchor, k + 1, f[k])
      BY <2>1, <2>5 DEF ListNext
    <3>2. k + 1 \in Mondays => k + 1 \in MondaysTo(anchor, k + 1)
      BY <2>5 DEF MondaysTo
    <3>3. k + 1 \in Mondays => Joining(anchor, k + 1) \subseteq Known(anchor, k + 1)
      BY <3>2 DEF Known
    <3> QED BY <2>1, <2>3, <3>1, <3>3 DEF Moved
  <2> QED BY <2>4, <2>5
<1> HIDE DEF G
<1>3. Nat \subseteq G
  BY <1>1, <1>2, CountingUp
<1> QED BY <1>0, <1>3 DEF G

(* A later Monday counts on from after what an earlier one added. *)
LEMMA SerialsGrow ==
  ASSUME NEW anchor \in Nat
  PROVE  /\ \A m \in Mondays : anchor <= m =>
              NextSerial(anchor, m) \in Nat /\ NextSerial(anchor, m) >= Base
         /\ \A m, k \in Mondays : anchor <= m /\ m < k =>
              NextSerial(anchor, m) + Additions <= NextSerial(anchor, k)
<1>0. Additions \in Nat /\ Base \in Nat
  BY SanctionsAssumption
<1>1. \A m \in Mondays : /\ m \in Nat /\ IsFiniteSet(MondaysTo(anchor, m))
                         /\ Cardinality(MondaysTo(anchor, m)) \in Nat
                         /\ anchor <= m => m \in MondaysTo(anchor, m)
  BY MondaysAreNumbers, MondaysAreFew DEF MondaysTo
<1>2. ASSUME NEW m \in Mondays, anchor <= m
      PROVE  Cardinality(MondaysTo(anchor, m)) >= 1
  BY <1>1, <1>2, FS_EmptySet
<1>3. ASSUME NEW m \in Mondays, NEW k \in Mondays, anchor <= m, m < k
      PROVE  Cardinality(MondaysTo(anchor, m)) + 1 <= Cardinality(MondaysTo(anchor, k))
  <2>1. MondaysTo(anchor, m) \subseteq MondaysTo(anchor, k)
    BY <1>1, <1>3, MondaysAreNumbers DEF MondaysTo
  <2>2. k \in MondaysTo(anchor, k) /\ k \notin MondaysTo(anchor, m)
    BY <1>1, <1>3, MondaysAreNumbers DEF MondaysTo
  <2>3. Cardinality(MondaysTo(anchor, m)) < Cardinality(MondaysTo(anchor, k))
    BY <1>1, <2>1, <2>2, FS_Subset
  <2> QED BY <1>1, <2>3
<1>4. \A x, y, z \in Nat : x * y \in Nat /\ (z >= y => x * z >= x * y)
  BY SMTT(30)
<1>5. ASSUME NEW m \in Mondays, anchor <= m
      PROVE  NextSerial(anchor, m) \in Nat /\ NextSerial(anchor, m) >= Base
  <2> DEFINE c == Cardinality(MondaysTo(anchor, m))
  <2>1. c - 1 \in Nat
    BY <1>1, <1>2, <1>5
  <2>2. NextSerial(anchor, m) = Base + Additions * (c - 1)
    BY DEF NextSerial
  <2> HIDE DEF c
  <2>3. Additions * (c - 1) \in Nat
    BY <1>0, <1>4, <2>1
  <2> QED BY <1>0, <2>2, <2>3
<1>6. ASSUME NEW m \in Mondays, NEW k \in Mondays, anchor <= m, m < k
      PROVE  NextSerial(anchor, m) + Additions <= NextSerial(anchor, k)
  <2> DEFINE c == Cardinality(MondaysTo(anchor, m))
             d == Cardinality(MondaysTo(anchor, k))
  <2>1. c \in Nat /\ c >= 1 /\ d \in Nat /\ d - 1 >= c
    BY <1>1, <1>2, <1>3, <1>6
  <2>2. NextSerial(anchor, m) = Base + Additions * (c - 1)
          /\ NextSerial(anchor, k) = Base + Additions * (d - 1)
    BY DEF NextSerial
  <2> HIDE DEF c, d
  <2>3. d - 1 \in Nat /\ c - 1 \in Nat
    BY <2>1
  <2>4. Additions * (d - 1) >= Additions * c
    BY <1>0, <1>4, <2>1, <2>3
  <2>5. Additions * c = Additions * (c - 1) + Additions
    BY <1>0, <2>1
  <2>6. Additions * c \in Nat /\ Additions * (d - 1) \in Nat /\ Additions * (c - 1) \in Nat
    BY <1>0, <1>4, <2>1, <2>3
  <2> QED BY <1>0, <2>2, <2>4, <2>5, <2>6
<1> QED BY <1>5, <1>6

(* A serial number is given once. *)
LEMMA SerialsAreGivenOnce ==
  ASSUME NEW anchor \in Nat, NEW c \in 0 .. LastDay, NEW d \in 0 .. LastDay,
         NEW e \in Known(anchor, c) \cup {Entity(Fixture, anchor)},
         NEW o \in Known(anchor, d) \cup {Entity(Fixture, anchor)}, e.id = o.id
  PROVE  e = o
<1>0. Base \in Nat /\ Additions \in Nat /\ Fixture = -1
  BY SanctionsAssumption DEF Fixture
<1> DEFINE Old(x) == \E i \in 0 .. Base - 1 : x = Entity(i, anchor)
           Named(x) == x = Entity(-1, anchor)
           Added(x) == \E m \in Mondays, i \in 0 .. Additions - 1 :
                         anchor <= m /\ x = Entity(NextSerial(anchor, m) + i, m)
<1>1. ASSUME NEW x, NEW k, x \in Known(anchor, k) \cup {Entity(Fixture, anchor)}
      PROVE  Old(x) \/ Named(x) \/ Added(x)
  BY <1>0, <1>1 DEF Known, AtAnchor, Joining, MondaysTo
<1>2. ASSUME NEW x, Added(x) PROVE x.id \in Nat /\ x.id >= Base
  BY <1>0, <1>2, SerialsGrow DEF Entity
<1>3. ASSUME NEW x, Old(x) PROVE x.id \in Nat /\ x.id < Base /\ x = Entity(x.id, anchor)
  BY <1>0, <1>3 DEF Entity
<1>4. ASSUME NEW x, Named(x) PROVE x.id = -1
  BY <1>4 DEF Entity
<1>5. ASSUME Added(e), Added(o) PROVE e = o
  <2>1. PICK m \in Mondays, i \in 0 .. Additions - 1 :
          anchor <= m /\ e = Entity(NextSerial(anchor, m) + i, m)
    BY <1>5
  <2>2. PICK k \in Mondays, j \in 0 .. Additions - 1 :
          anchor <= k /\ o = Entity(NextSerial(anchor, k) + j, k)
    BY <1>5
  <2>3. NextSerial(anchor, m) + i = NextSerial(anchor, k) + j
    BY <2>1, <2>2 DEF Entity
  <2>4. m \in Nat /\ k \in Nat /\ NextSerial(anchor, m) \in Nat /\ NextSerial(anchor, k) \in Nat
    BY <2>1, <2>2, DaysAreNumbers, SerialsGrow
  <2>5. ~ (m < k)
    BY <1>0, <2>1, <2>3, <2>4, SerialsGrow
  <2>6. ~ (k < m)
    BY <1>0, <2>2, <2>3, <2>4, SerialsGrow
  <2> QED BY <2>1, <2>2, <2>3, <2>4, <2>5, <2>6
<1>6. (Old(e) \/ Named(e) \/ Added(e)) /\ (Old(o) \/ Named(o) \/ Added(o))
  BY <1>1
<1> HIDE DEF Old, Added
<1> QED BY <1>0, <1>2, <1>3, <1>4, <1>5, <1>6

(* Whoever a day lists is listed the day before, or joins that day. *)
LEMMA ListedBefore ==
  ASSUME NEW anchor \in Nat, NEW f, Lists(f, anchor), NEW n \in 1 .. LastDay, anchor < n,
         NEW e \in f[n], e.first_seen # n
  PROVE  e \in f[n - 1]
<1>1. f[n] = Moved(anchor, n, f[n - 1])
  BY DaysAreNumbers DEF Lists, ListNext
<1>2. e \notin Joining(anchor, n)
  BY DEF Joining, Entity
<1> QED BY <1>1, <1>2 DEF Moved

(* So a list keeps whom a list before it and one after it hold.             *)
LEMMA ListedBetween ==
  ASSUME NEW anchor \in Nat, NEW c \in Days, NEW d \in Days, NEW k \in Days, anchor < c, c < d, d < k
  PROVE  EntitiesOn(anchor, c) \cap EntitiesOn(anchor, k) \subseteq EntitiesOn(anchor, d)
<1>0. PICK f : /\ Lists(f, anchor)
               /\ \A n \in 0 .. LastDay : EntitiesOn(anchor, n) = f[n] \cup {Entity(Fixture, anchor)}
  BY ListsExist
<1>1. c \in 0 .. LastDay /\ d \in 0 .. LastDay /\ k \in 0 .. LastDay /\ LastDay \in Nat
  BY DaysAreNumbers
<1>2. SUFFICES ASSUME NEW e \in f[c], e \in f[k] PROVE e \in f[d]
  BY <1>0, <1>1
<1>3. e.first_seen <= c /\ e.first_seen \in Int
  <2>1. e \in Known(anchor, c)
    BY <1>0, <1>1, ListedAreKnown
  <2>2. \A m \in MondaysTo(anchor, c) : m \in Int /\ m <= c
    BY <1>1, MondaysAreNumbers DEF MondaysTo
  <2>3. e.first_seen = anchor \/ \E m \in MondaysTo(anchor, c) : e.first_seen = m
    BY <2>1 DEF Known, AtAnchor, Joining, Entity
  <2> QED BY <1>1, <2>2, <2>3
<1> DEFINE S == {n \in d .. k : e \in f[n]}
<1>4. S \subseteq Nat /\ k \in S
  BY <1>1, <1>2
<1>5. PICK n \in S : \A j \in S : n <= j
  BY <1>4, LeastNatural
<1>6. CASE n = d
  BY <1>5, <1>6
<1>7. CASE n # d
  <2>1. n \in 1 .. LastDay /\ anchor < n /\ e \in f[n] /\ e.first_seen # n /\ n - 1 \in d .. k
    BY <1>1, <1>3, <1>5, <1>7
  <2>2. e \in f[n - 1]
    BY <1>0, <2>1, ListedBefore
  <2>3. n - 1 \in S
    BY <2>1, <2>2
  <2> QED BY <1>5, <2>1, <2>3
<1> QED BY <1>6, <1>7

(* And an entity is the same in every list. *)
LEMMA ListedAlike ==
  ASSUME NEW anchor \in Nat, NEW c \in Days, NEW d \in Days,
         NEW e \in EntitiesOn(anchor, c), NEW o \in EntitiesOn(anchor, d), e.id = o.id
  PROVE  e = o
<1>0. PICK f : /\ Lists(f, anchor)
               /\ \A n \in 0 .. LastDay : EntitiesOn(anchor, n) = f[n] \cup {Entity(Fixture, anchor)}
  BY ListsExist
<1>1. c \in 0 .. LastDay /\ d \in 0 .. LastDay
  BY DaysAreNumbers
<1>2. f[c] \subseteq Known(anchor, c) /\ f[d] \subseteq Known(anchor, d)
  BY <1>0, <1>1, ListedAreKnown
<1>3. /\ e \in Known(anchor, c) \cup {Entity(Fixture, anchor)}
      /\ o \in Known(anchor, d) \cup {Entity(Fixture, anchor)}
  BY <1>0, <1>1, <1>2
<1> QED BY <1>1, <1>3, SerialsAreGivenOnce
-----------------------------------------------------------------------------
(***************************************************************************)
(* What landed of it.                                                      *)
(***************************************************************************)
(* Versions are days after the anchor: the loop begins the day after it.    *)
AheadInv ==
  seeding = 1 =>
    /\ day \in Days /\ AnchorOf[1] < day
    /\ latest # NONE => latest \in Days /\ AnchorOf[1] < latest
    /\ run # NONE /\ HasVersion => run.version \in Days /\ AnchorOf[1] < run.version
    /\ \A f \in files : f.version \in Days /\ AnchorOf[1] < f.version

(* And they stay so. *)
LEMMA AheadStep ==
  ASSUME ListTypes, AheadInv, [Next]_vars
  PROVE  AheadInv'
<1> USE DEF ListTypes
<1>1. SUFFICES ASSUME seeding' = 1
               PROVE  /\ day' \in Days /\ AnchorOf[1] < day'
                      /\ latest' # NONE => latest' \in Days /\ AnchorOf[1] < latest'
                      /\ run' # NONE /\ HasVersion' => run'.version \in Days /\ AnchorOf[1] < run'.version
                      /\ \A f \in files' : f.version \in Days /\ AnchorOf[1] < f.version
  BY DEF AheadInv
<1>2. seeding = 1 /\ ~ Reseed
  <2>1. ~ Reseed
    BY <1>1 DEF Reseed
  <2>2. seeding' = seeding
    BY <2>1, RunStepKeeps DEF Next, Loop, Decide, PutEntities, PointLatest, Ingest, Judge, Kill,
                              Restart, Clear, vars
  <2> QED BY <1>1, <2>1, <2>2
<1>3. /\ day \in Days /\ AnchorOf[1] < day /\ AnchorOf[1] \in Int
      /\ latest # NONE => latest \in Days /\ AnchorOf[1] < latest
      /\ run # NONE /\ HasVersion => run.version \in Days /\ AnchorOf[1] < run.version
      /\ \A f \in files : f.version \in Days /\ AnchorOf[1] < f.version
  BY <1>2, DaysAreNumbers DEF AheadInv
<1>4. CASE Loop /\ ~ Ingest
  <2>1. UNCHANGED <<run, files>>
    BY <1>4, LoopTypesStep DEF Loop
  <2>2. HasVersion' = HasVersion
    BY <2>1 DEF HasVersion
  <2>3. day' \in Days /\ AnchorOf[1] < day'
    <3>1. day' = day \/ (day # LastDay /\ day' = day + 1) \/ (day' \in Days /\ AnchorOf[1] < day')
      BY <1>2, <1>4 DEF Loop, Decide, PutEntities, PointLatest, Judge, Kill, Restart, Forward
    <3> QED BY <1>3, <3>1, DaysAreNumbers
  <2>4. latest' = latest \/ latest' = day
    BY <1>2, <1>4 DEF Loop, Decide, PutEntities, PointLatest, Judge, Kill, Restart, inbound
  <2> QED BY <1>3, <2>1, <2>2, <2>3, <2>4
<1>5. ASSUME NEW m \in Mondays, run' = Started(m), UNCHANGED <<files, day, latest>>
      PROVE  /\ day' \in Days /\ AnchorOf[1] < day'
             /\ latest' # NONE => latest' \in Days /\ AnchorOf[1] < latest'
             /\ ~ HasVersion'
             /\ \A f \in files' : f.version \in Days /\ AnchorOf[1] < f.version
  BY <1>3, <1>5 DEF HasVersion, Started
<1>6. CASE Ingest
  <2>1. run' = Started(day) /\ day \in Mondays /\ UNCHANGED <<files, day, latest>>
    BY <1>6 DEF Ingest, inbound, warehouse
  <2> QED BY <1>5, <2>1
<1>7. ASSUME NEW m \in Mondays, Clear(m) PROVE run' = Started(m) /\ UNCHANGED <<files, day, latest>>
  BY <1>7 DEF Clear, inbound, warehouse
<1>8. CASE RunStep
  <2>1. UNCHANGED <<day, latest>> /\ run # NONE
    BY <1>8, RunStepKeeps DEF RunStep, ReadIndex, ReadEntities, OpenSnapshot, ExtractSnapshot, GiveUp,
                              RegisterSnapshot
  <2>2. CASE RegisterSnapshot
    <3>1. run' = NONE /\ files' = files \cup {[list |-> run.list, version |-> run.version, batch |-> b] : b \in Registered}
      BY <2>2 DEF RegisterSnapshot, RegisterTransaction
    <3>2. Registered # {} => run.version \in Days /\ AnchorOf[1] < run.version
      BY <1>3, <2>1 DEF Registered, HasVersion
    <3>3. \A f \in files' : f \in files \/ (Registered # {} /\ f.version = run.version)
      BY <3>1
    <3> QED BY <1>3, <2>1, <3>1, <3>2, <3>3
  <2>3. CASE ~ RegisterSnapshot
    <3>1. files' = files
      BY <1>8, <2>3 DEF RunStep, ReadIndex, ReadEntities, OpenSnapshot, ExtractSnapshot, GiveUp, warehouse
    <3>2. CASE ReadIndex
      <4>1. run'.version = latest /\ latest # NONE
        BY <2>1, <3>2, RunSteps DEF RunAt, ReadIndex
      <4> QED BY <1>3, <2>1, <3>1, <4>1
    <3>3. CASE ~ ReadIndex
      <4>1. run'.version = run.version /\ (HasVersion' => HasVersion)
        <5>1. CASE ReadEntities
          BY <2>1, <5>1, RunSteps DEF RunAt, HasVersion, ReadEntities
        <5>2. CASE GiveUp
          <6>1. run' = RunAt("register", run.version, run.list, run.unit, run.report)
            BY <2>1, <5>2, RunSteps
          <6>2. run'.version = run.version /\ run'.phase = "register" /\ run'.unit = run.unit /\ run'.report = run.report
            BY <6>1 DEF RunAt
          <6> QED BY <6>2 DEF HasVersion
        <5>3. CASE ExtractSnapshot
          <6>1. PICK ok \in BOOLEAN, reason \in Reasons \cup {NONE} :
                  run' = RunAt("register", run.version, run.list, run.unit, Reported(ok, reason))
            BY <2>1, <5>3, RunSteps
          <6> QED BY <5>3, <6>1 DEF RunAt, HasVersion, ExtractSnapshot
        <5>4. CASE OpenSnapshot
          <6>1. run' = run \/ \E p, u : run' = RunAt(p, run.version, run.list, u, run.report)
            BY <2>1, <5>4, OpenStep
          <6> QED BY <5>4, <6>1 DEF RunAt, HasVersion, OpenSnapshot
        <5> QED BY <1>8, <2>3, <3>3, <5>1, <5>2, <5>3, <5>4 DEF RunStep
      <4> QED BY <1>3, <2>1, <3>1, <4>1
    <3> QED BY <3>2, <3>3
  <2> QED BY <2>2, <2>3
<1>9. CASE UNCHANGED vars
  BY <1>3, <1>9 DEF vars, inbound, warehouse, HasVersion
<1> QED BY <1>4, <1>5, <1>6, <1>7, <1>8, <1>9 DEF Next

(* While the source is seeded once, an entity is the same in every list that *)
(* landed, and one that left does not come back: for simulations of any     *)
(* length and lists of any size, whatever run dies or is cleared.           *)
THEOREM LeftForGoodCorrect == Spec => []LeftForGood
<1>1. Init => AheadInv
  BY DaysAreNumbers DEF Init, AheadInv
<1>2. ListTypes /\ WeekInv /\ AheadInv => LeftForGood
  <2> SUFFICES ASSUME WeekInv, AheadInv, seeding = 1, NEW f \in files, NEW g \in files, f.version < g.version
               PROVE  /\ \A e \in f.list, o \in g.list : e.id = o.id => e = o
                      /\ \A h \in files : g.version < h.version => f.list \cap h.list \subseteq g.list
    BY DEF LeftForGood
  <2>1. \A h \in files : /\ h.version \in Days /\ AnchorOf[1] < h.version
                         /\ h.list = EntitiesOn(AnchorOf[1], h.version)
    BY DEF WeekInv, AheadInv, BatchesRead, ListOf
  <2>2. AnchorOf[1] \in Nat
    BY DaysAreNumbers, SanctionsAssumption
  <2>3. \A e \in f.list, o \in g.list : e.id = o.id => e = o
    BY <2>1, <2>2, ListedAlike
  <2>4. \A h \in files : g.version < h.version => f.list \cap h.list \subseteq g.list
    BY <2>1, <2>2, ListedBetween
  <2> QED BY <2>3, <2>4
<1>3. ListTypes /\ AheadInv /\ [Next]_vars => AheadInv'
  BY AheadStep
<1> QED BY <1>1, <1>2, <1>3, ListTypesCorrect, WeekInvariant, PTL DEF Spec
=============================================================================
