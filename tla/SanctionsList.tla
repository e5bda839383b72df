---------------------------- MODULE SanctionsList ----------------------------
(***************************************************************************)
(* The sanctions list: the publisher's simulation puts a version of the    *)
(* list in the inbound bucket on every day of the daily loop and points    *)
(* latest at it, and on Mondays a run reads what latest names, recognises  *)
(* a list by its content, refuses a version that was another list, and     *)
(* lands the list as one batch.  The loop is killed and started again, an  *)
(* operator clears ended runs, and the source is seeded anew under the     *)
(* same seed with another anchor, so that a version's name comes again.    *)
(* Runs follow one another; FeedDelivery has what runs do to each other.   *)
(***************************************************************************)
EXTENDS BatchRegistry, FiniteSetsExt

CONSTANTS
  LastDay,      \* the days of the simulation are 1 .. LastDay
  Mondays,      \* those on which a week begins
  AnchorOf,     \* the anchor of each seeding of the source, in turn
  Base,         \* entities listed at the anchor
  Removals, Additions,  \* entities that leave and join on a Monday
  MaxSequence,  \* bound: batches of one version
  MaxFaults     \* bound: kills of the loop, runs cleared, tasks that give up or die

Days == 1 .. LastDay
Seedings == DOMAIN AnchorOf
ASSUME SanctionsAssumption ==
  /\ LastDay \in Nat /\ Mondays \subseteq Days
  /\ Seedings = 1 .. Cardinality(Seedings) /\ 1 \in Seedings
  /\ AnchorOf \in [Seedings -> 0 .. LastDay - 1]
  /\ Base \in Nat \ {0} /\ Removals \in 1 .. Base /\ Additions \in Nat \ 0 .. Removals - 1
  /\ MaxSequence \in Nat \ {0} /\ MaxFaults \in Nat

VARIABLES
  sampled,    \* [Monday]: the positions of the list the seed draws to leave
  seeding,    \* how often the source was seeded
  objects,    \* [day]: the entities under that day's version, NONE before
  latest,     \* the version latest/index.json names, NONE before
  day,        \* the day the daily loop is at
  at,         \* where in that day it is
  ended,      \* [Monday]: how its run ended
  run,        \* the run that is going on, NONE without one
  registry,   \* ops.batch_registry, by batch <<version, sequence>>
  sighted,    \* ops.file_sighting: the batches allocated to a list
  attempt,    \* ops.file_sighting: a list's latest attempt
  files,      \* ops.ingested_file: a list that landed, its version and its batch
  lake,       \* [batch]: the entities of its bronze object
  faults      \* how much has gone wrong, or been cleared

warehouse == <<registry, sighted, attempt, files>>
inbound == <<objects, latest>>
vars == <<sampled, seeding, inbound, day, at, ended, run, warehouse, lake, faults>>

Batches == Days \X (1 .. MaxSequence)
-----------------------------------------------------------------------------
(***************************************************************************)
(* The list.  An entity is its serial number and the day it was first seen. *)
(***************************************************************************)
Entity(serial, since) == [id |-> serial, first_seen |-> since]
Fixture == -1    \* the names the simulated payments are screened against

(* The Mondays from the anchor on, to a day. *)
MondaysTo(anchor, d) == {m \in Mondays : anchor <= m /\ m <= d}

Position(e, live) == Cardinality({o \in live : o.id <= e.id})
Leaving(m, live) == {e \in live : Position(e, live) \in sampled[m]}

(* Mutant of NextSerial: each Monday counts on from the entities of the anchor. *)
NextSerialOfBase(anchor, m) == Base

(* serial: the first number no entity has had. *)
NextSerial(anchor, m) == Base + Additions * (Cardinality(MondaysTo(anchor, m)) - 1)

Joining(anchor, m) ==
  {Entity(NextSerial(anchor, m) + i, m) : i \in 0 .. Additions - 1}

(* entities_on. *)
EntitiesOn(anchor, d) ==
  LET live[n \in 0 .. LastDay] ==
        IF n = 0 \/ n < anchor THEN {Entity(serial, anchor) : serial \in 0 .. Base - 1}
        ELSE IF n \notin Mondays THEN live[n - 1]
        ELSE (live[n - 1] \ Leaving(n, live[n - 1])) \cup Joining(anchor, n)
  IN  live[d] \cup {Entity(Fixture, anchor)}
-----------------------------------------------------------------------------
(***************************************************************************)
(* The loop's day: publish, then on a Monday ingest.                       *)
(***************************************************************************)
RunOf(m) == run # NONE /\ run.monday = m
Started(m) == [monday |-> m, phase |-> "index", version |-> NONE, list |-> NONE,
               unit |-> NONE, report |-> NONE]

(* A day's feed is complete: its run succeeded, or every batch it failed is  *)
(* parked for the publisher to resolve or has landed since.                  *)
FailedOf(m) == {b \in Batches : registry[b].status = "failed" /\ registry[b].run = m}
ListOfBatch(b) == CHOOSE l \in DOMAIN sighted : b \in sighted[l]
LandedAs(l) == {f \in files : f.list = l}

(* Mutant of Parked: any failure parks a list. *)
ParkedByAny(l) == l \in DOMAIN attempt /\ registry[attempt[l]].status = "failed"

Parked(l) ==
  /\ l \in DOMAIN attempt
  /\ registry[attempt[l]].status = "failed"
  /\ registry[attempt[l]].reason = "declaration conflict"

Complete(m) ==
  \/ ended[m] = "success"
  \/ /\ ended[m] = "failed" /\ FailedOf(m) # {}
     /\ \A b \in FailedOf(m) : Parked(ListOfBatch(b)) \/ LandedAs(ListOfBatch(b)) # {}

IsPending(d) == d \in Mondays /\ ~ Complete(d)

(* Past the last day the loop ends. *)
Forward ==
  IF day = LastDay THEN at' = "ended" /\ day' = day ELSE at' = "decide" /\ day' = day + 1

(* Everything of the day is complete, or something is not and the day is    *)
(* delivered again.                                                          *)
Decide ==
  /\ at = "decide" /\ ~ RunOf(day)
  /\ \/ ~ IsPending(day) /\ Forward
     \/ at' = "publish" /\ UNCHANGED day
  /\ UNCHANGED <<sampled, seeding, inbound, ended, run, warehouse, lake, faults>>

(* publish: the list of a day, by the present seeding. *)
Publication(d) == EntitiesOn(AnchorOf[seeding], d)

(* The entities are put under the day's version, *)
PutEntities ==
  /\ at = "publish"
  /\ objects' = [objects EXCEPT ![day] = Publication(day)]
  /\ at' = "point"
  /\ UNCHANGED <<sampled, seeding, latest, day, ended, run, warehouse, lake, faults>>

(* then latest. *)
PointLatest ==
  /\ at = "point"
  /\ latest' = day
  /\ IF IsPending(day) THEN at' = "ingest" /\ UNCHANGED day ELSE Forward
  /\ UNCHANGED <<sampled, seeding, objects, ended, run, warehouse, lake, faults>>

Ingest ==
  /\ at = "ingest" /\ run = NONE
  /\ run' = Started(day) /\ at' = "wait"
  /\ UNCHANGED <<sampled, seeding, inbound, day, ended, warehouse, lake, faults>>

(* The run's verdict: on with the next day, or a halt. *)
Judge ==
  /\ at = "wait" /\ ~ RunOf(day)
  /\ IF Complete(day) THEN Forward ELSE at' = "halted" /\ UNCHANGED day
  /\ UNCHANGED <<sampled, seeding, inbound, ended, run, warehouse, lake, faults>>

(* One more thing has gone wrong. *)
Faulty == faults < MaxFaults /\ faults' = faults + 1

Stopped == {"halted", "ended"}
Kill ==
  /\ at \notin Stopped
  /\ at' = "halted"
  /\ Faulty
  /\ UNCHANGED <<sampled, seeding, inbound, day, ended, run, warehouse, lake>>

(* The loop again, from a day it has come to.  No run of another day is      *)
(* left going on.                                                            *)
Restart(d) ==
  /\ at \in Stopped /\ AnchorOf[seeding] < d /\ d <= day
  /\ run = NONE \/ RunOf(d)
  /\ day' = d /\ at' = "decide"
  /\ UNCHANGED <<sampled, seeding, inbound, ended, run, warehouse, lake, faults>>

(* The source is seeded anew; the platform keeps what it has. *)
Reseed ==
  /\ at \in Stopped /\ seeding + 1 \in Seedings
  /\ seeding' = seeding + 1 /\ day' = AnchorOf[seeding + 1] + 1 /\ at' = "halted"
  /\ UNCHANGED <<sampled, inbound, ended, run, warehouse, lake, faults>>

(* An operator clears a run that has ended, of a day the loop is not at. *)
Clear(m) ==
  /\ run = NONE /\ ended[m] # "none" /\ m # day
  /\ run' = Started(m)
  /\ Faulty
  /\ UNCHANGED <<sampled, seeding, inbound, day, at, ended, warehouse, lake>>
-----------------------------------------------------------------------------
(***************************************************************************)
(* The run: discover, open, extract, register, gate.                       *)
(***************************************************************************)
runOnly == <<sampled, seeding, inbound, day, at>>

(* sanctions_discover reads the index, whatever day the run is of, *)
ReadIndex ==
  /\ run # NONE /\ run.phase = "index" /\ latest # NONE
  /\ run' = [run EXCEPT !.phase = "entities", !.version = latest]
  /\ UNCHANGED <<runOnly, ended, warehouse, lake, faults>>

(* then the entities that the index names. *)
ReadEntities ==
  /\ run # NONE /\ run.phase = "entities"
  /\ run' = [run EXCEPT !.phase = "open", !.list = objects[run.version]]
  /\ UNCHANGED <<runOnly, ended, warehouse, lake, faults>>

IsAttempted(l) == LandedAs(l) = {} /\ ~ Parked(l)
SequencesOf(l, v) ==
  {n \in 1 .. MaxSequence : l \in DOMAIN sighted /\ <<v, n>> \in sighted[l]}
Rows(v) == [n \in 1 .. MaxSequence |-> registry[<<v, n>>]]

(* Mutant of Conflicts: what the publisher calls a list is not asked. *)
NeverConflicts(l, v) == FALSE

(* declared_conflict: the version has landed with another content. *)
Conflicts(l, v) == \E f \in files : f.version = v /\ f.list # l

Unit(b) == [batch |-> b, refuse |-> Conflicts(run.list, run.version)]

(* A function with one more value. *)
With(f, x, y) == [z \in DOMAIN f \cup {x} |-> IF z = x THEN y ELSE f[z]]
BatchesOf(l) == IF l \in DOMAIN sighted THEN sighted[l] ELSE {}

(* sanctions_open.  Its task may die after the commit and be tried again.    *)
OpenSnapshot ==
  /\ run # NONE /\ run.phase = "open"
  /\ IF IsAttempted(run.list)
     THEN \E n \in 1 .. MaxSequence :
            LET b == <<run.version, n>> IN
            /\ ChosenSequence(Rows(run.version), SequencesOf(run.list, run.version), n)
            /\ registry' = [registry EXCEPT ![b] = AllocatedRow(@, 1, NONE, run.monday)]
            /\ sighted' = With(sighted, run.list, BatchesOf(run.list) \cup {b})
            /\ attempt' = With(attempt, run.list, b)
            /\ \/ run' = [run EXCEPT !.phase = "extract", !.unit = Unit(b)] /\ UNCHANGED faults
               \/ run' = run /\ Faulty
     ELSE /\ run' = [run EXCEPT !.phase = "register", !.unit = "nothing"]
          /\ UNCHANGED <<registry, sighted, attempt, faults>>
  /\ UNCHANGED <<runOnly, ended, files, lake>>

Reported(ok, reason) == [ok |-> ok, reason |-> reason]

Changed == objects[run.version] # run.list

(* sanctions_extract: a unit that open refused, a list that is not what was  *)
(* discovered, or the list landed.                                           *)
ExtractSnapshot ==
  /\ run # NONE /\ run.phase = "extract"
  /\ IF run.unit.refuse
     THEN run' = [run EXCEPT !.phase = "register",
                             !.report = Reported(FALSE, "declaration conflict")] /\ UNCHANGED lake
     ELSE IF Changed
     THEN run' = [run EXCEPT !.phase = "register", !.report = Reported(FALSE, "changed")]
          /\ UNCHANGED lake
     ELSE /\ run' = [run EXCEPT !.phase = "register", !.report = Reported(TRUE, NONE)]
          /\ lake' = [lake EXCEPT ![run.unit.batch] = objects[run.version]]
  /\ UNCHANGED <<runOnly, ended, warehouse, faults>>

(* A task's last try ends without an answer; register runs all the same. *)
GiveUp ==
  /\ run # NONE /\ run.phase \in {"index", "entities", "open", "extract"}
  /\ run' = [run EXCEPT !.phase = "register"]
  /\ Faulty
  /\ UNCHANGED <<runOnly, ended, warehouse, lake>>

(* What the run opened last and no report speaks for. *)
Stranded == {b \in Batches : registry[b].run = run.monday
                             /\ registry[b].status \in Unregistered /\ run.report = NONE}
Registered == IF run.report # NONE /\ run.report.ok THEN {run.unit.batch} ELSE {}
Failing == IF run.report # NONE /\ ~ run.report.ok THEN {run.unit.batch} ELSE {}

RegisterTransaction ==
  /\ registry' = [b \in Batches |->
       IF b \in Registered THEN RegisteredRow(WrittenRow(registry[b], 1, NONE))
       ELSE IF b \in Failing THEN FailedRow(registry[b], run.report.reason)
       ELSE IF b \in Stranded THEN FailedRow(registry[b], "did not report")
       ELSE registry[b]]
  /\ files' = files \cup {[list |-> run.list, version |-> run.version, batch |-> b] :
                           b \in Registered}

(* The gate: nothing failed, and open had an answer. *)
GatePasses == run.unit # NONE /\ Failing = {} /\ Stranded = {}

(* Register, and the gate after it.  A register that dies after its commit   *)
(* is refused when it is tried again.                                        *)
RegisterSnapshot ==
  /\ run # NONE /\ run.phase = "register"
  /\ RegisterTransaction
  /\ \/ /\ ended' = [ended EXCEPT ![run.monday] = IF GatePasses THEN "success" ELSE "failed"]
        /\ UNCHANGED faults
     \/ /\ Registered # {}
        /\ ended' = [ended EXCEPT ![run.monday] = "failed"]
        /\ Faulty
  /\ run' = NONE
  /\ UNCHANGED <<runOnly, sighted, attempt, lake>>
-----------------------------------------------------------------------------
Init ==
  /\ sampled \in [Mondays -> kSubset(Removals, 1 .. Base)]
  /\ seeding = 1 /\ day = AnchorOf[1] + 1 /\ at = "decide"
  /\ objects = [d \in Days |-> NONE] /\ latest = NONE
  /\ ended = [m \in Mondays |-> "none"] /\ run = NONE
  /\ registry = [b \in Batches |-> AbsentRow(1)]
  /\ sighted = <<>> /\ attempt = <<>> /\ files = {}
  /\ lake = [b \in Batches |-> NONE] /\ faults = 0

Loop ==
  \/ Decide \/ PutEntities \/ PointLatest \/ Ingest \/ Judge \/ Kill \/ Reseed
  \/ \E d \in Days : Restart(d)

RunStep ==
  \/ ReadIndex \/ ReadEntities \/ OpenSnapshot \/ ExtractSnapshot \/ GiveUp \/ RegisterSnapshot

Next == Loop \/ RunStep \/ \E m \in Mondays : Clear(m)
Spec == Init /\ [][Next]_vars
-----------------------------------------------------------------------------
(***************************************************************************)
(* Properties.                                                             *)
(***************************************************************************)
(* A version that landed is one list: bronze never holds two lists under a  *)
(* version, although the same seed names another list so after it was       *)
(* seeded anew.  The silver models hold one row per entity and version.     *)
VersionIsOneList ==
  \A f, g \in files : f.version = g.version => f = g

(* While the source is seeded once, the loop leaves a Monday whose run it    *)
(* waited for only with the list published that Monday landed, whatever     *)
(* attempt failed and whatever run of another Monday an operator cleared.   *)
(* Not so when the run of the Monday itself was cleared while latest named  *)
(* another version, and failed on that one: once the other list has landed, *)
(* the registry calls the Monday complete.                                  *)
MondayHasItsList ==
  [][seeding = 1 /\ at = "wait" /\ at' \notin {"wait", "halted"}
       /\ (\A b \in FailedOf(day) : b[1] = day)
     => LandedAs(objects[day]) # {}]_vars

(* While the source is seeded once, an entity is the same in every list that *)
(* landed, and one that left the list does not come back.                    *)
LeftForGood ==
  seeding = 1 =>
    \A f, g \in files : f.version < g.version =>
      /\ \A e \in f.list, o \in g.list : e.id = o.id => e = o
      /\ \A h \in files : g.version < h.version => f.list \cap h.list \subseteq g.list
=============================================================================
