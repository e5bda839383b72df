---------------------------- MODULE FeedDelivery ----------------------------
(***************************************************************************)
(* The card settlement feed: a sensor waits for the day's file, discovery  *)
(* hashes everything in the inbound prefix, open recognises what has       *)
(* landed or is parked and allocates two batches to each other delivery,   *)
(* one mapped extract per delivery reads and lands it, register commits    *)
(* what reported in one transaction, and the gate ends the run.  A         *)
(* delivery is its content: the sender may send it under several names,    *)
(* send something else under an old name, and send late.                   *)
(***************************************************************************)
EXTENDS BatchRegistry, FiniteSets, Sequences

CONSTANTS
  Days,          \* the logical dates runs exist for
  Keys,          \* object names in the inbound prefix, in their sorted order
  Contents,      \* what can be delivered, by checksum
  Sends,         \* the pairs <<name, content>> the sender may send
  Published,     \* the days version 2 of the contract may be in force from
  KeyDay,        \* [Keys]: the day the sensor's pattern finds in the name
  DateOf,        \* [Contents]: the settlement date the header declares
  Declares,      \* [Contents]: its sequence and revision, NONE when unreadable
  Layout,        \* [Contents]: the contract version that reads it
  Malformed,     \* the contents that are not whole files
  Dirty,         \* the contents some of whose records are quarantined
  MaxSequence,   \* bound: sequences of one entity and interval
  MaxUnits,      \* bound: mapped extracts of one run
  MaxIndexed,    \* bound: times one quarantine object is indexed
  LateDeaths,    \* the tasks that may die after their commit, before they succeed
  Cleared,       \* bound: the days whose runs may be started again
  Overlap        \* FALSE: a run starts only when no other is under way

ASSUME FeedAssumption ==
  /\ Days \subseteq Nat \ {0} /\ Keys \subseteq Nat \ {0} /\ IsFiniteSet(Keys)
  /\ Sends \subseteq Keys \X Contents /\ Published \subseteq Days /\ Cleared \subseteq Days
  /\ KeyDay \in [Keys -> Days] /\ DateOf \in [Contents -> Days]
  /\ Layout \in [Contents -> 1 .. 2]
  /\ Malformed \subseteq Contents /\ Dirty \subseteq Contents
  /\ MaxSequence \in Nat \ {0} /\ MaxUnits \in Nat /\ MaxIndexed \in Nat \ {0}
  /\ LateDeaths \subseteq {"open", "register"}
  /\ Overlap \in BOOLEAN

VARIABLES
  inbox,      \* [key]: the content delivered under it, NONE before any
  inForce,    \* in_force_from of version 2 of the settlements contract
  registry,   \* ops.batch_registry, by batch id <<entity, interval, sequence>>
  files,      \* ops.ingested_file: the batch a content landed as, NONE before
  sighted,    \* ops.file_sighting: the batches allocated to a content
  attempt,    \* ops.file_sighting: the batch of its latest attempt
  lake,       \* the content of the bronze object under each batch id
  indexed,    \* dq.quarantine_log: times the object of a batch was loaded
  phase,      \* [day]: where the run of that day stands
  found,      \* [day]: the sensor's answer
  seen,       \* [day]: the XCom of discovery, [key -> content]
  units,      \* [day]: the XCom of open, a sequence, NONE when it pushed none
  queued,     \* [day]: the map indices whose extract has not ended
  report,     \* [day][map index]: the XCom of that extract
  summary     \* [day]: whether register reported no failure, NONE without one

warehouse == <<registry, files, sighted, attempt, indexed>>
senderVars == <<inbox, inForce>>
vars == <<inbox, inForce, registry, files, sighted, attempt, lake, indexed,
          phase, found, seen, units, queued, report, summary>>

Entities == {"settlements", "settlement_totals"}
Sequences == 1 .. MaxSequence
Stems == Days \X Sequences        \* the interval and sequence siblings share
BatchIds == Entities \X Days \X Sequences
Indices == 1 .. MaxUnits
Verdicts == {"breaking drift", "malformed", "declaration conflict"}
Reasons == Verdicts \cup {"changed", "did not report"}
Running == {"sense", "discover", "open", "extract", "gate"}
Ended == {"success", "failed"}

NoFile == 0                       \* the unit of a day that nothing arrived for
Units == [key : Keys \cup {NoFile}, content : Contents \cup {NONE}, day : Days,
          seq : [Entities -> Sequences], refuse : Reasons \cup {NONE}]
Reports == [unit : Units, ok : [Entities -> BOOLEAN], reason : Reasons \cup {NONE},
            quarantined : BOOLEAN]

ASSUME NoneAssumption ==
  NONE \notin Contents /\ NONE \notin Stems /\ NONE \notin BOOLEAN /\ NONE \notin Reasons

BatchOf(u, e) == <<e, u.day, u.seq[e]>>
StemOf(u) == <<u.day, u.seq["settlements"]>>
-----------------------------------------------------------------------------
(***************************************************************************)
(* The sender and the people.                                              *)
(***************************************************************************)
(* A file arrives under a new name, or replaces what was sent under an old *)
(* one.                                                                     *)
Deliver(k, c) ==
  /\ <<k, c>> \in Sends /\ inbox[k] # c
  /\ inbox' = [inbox EXCEPT ![k] = c]
  /\ UNCHANGED <<inForce, warehouse, lake, phase, found, seen, units, queued, report, summary>>

(* A person publishes version 2 of the settlements contract. *)
Bump(d) ==
  /\ d \in Published /\ inForce = NONE
  /\ inForce' = d
  /\ UNCHANGED <<inbox, warehouse, lake, phase, found, seen, units, queued, report, summary>>
-----------------------------------------------------------------------------
(***************************************************************************)
(* wait_for_file and discover_deliveries.                                  *)
(***************************************************************************)
Idle(d) == \A o \in Days \ {d} : phase[o] \notin Running

Start(d) ==
  /\ phase[d] \in {"none"} \cup (IF d \in Cleared THEN Ended ELSE {})
  /\ Overlap \/ Idle(d)
  /\ phase' = [phase EXCEPT ![d] = "sense"]
  /\ UNCHANGED <<senderVars, warehouse, lake, found, seen, units, queued, report, summary>>

Arrived(d) == \E k \in Keys : inbox[k] # NONE /\ KeyDay[k] = d

(* The sensor sees the day's file, or has waited long enough without one. *)
Sense(d) ==
  /\ phase[d] = "sense"
  /\ phase' = [phase EXCEPT ![d] = "discover"]
  /\ found' = [found EXCEPT ![d] = Arrived(d)]
  /\ UNCHANGED <<senderVars, warehouse, lake, seen, units, queued, report, summary>>

Discover(d) ==
  /\ phase[d] = "discover"
  /\ phase' = [phase EXCEPT ![d] = "open"]
  /\ seen' = [seen EXCEPT ![d] = inbox]
  /\ UNCHANGED <<senderVars, warehouse, lake, found, units, queued, report, summary>>

(* The sensor or discovery failed for good: open and extract never start,   *)
(* and their XComs of an earlier try stay where they are.                   *)
UpstreamFails(d) ==
  /\ phase[d] \in {"sense", "discover"}
  /\ phase' = [phase EXCEPT ![d] = "extract"]
  /\ UNCHANGED <<senderVars, warehouse, lake, found, seen, units, queued, report, summary>>
-----------------------------------------------------------------------------
(***************************************************************************)
(* settlement_open.                                                        *)
(***************************************************************************)
Rows(e, i) == [n \in Sequences |-> registry[<<e, i, n>>]]

(* The settlements contract in force on the run's day; the totals have one. *)
ContractOn(d) == IF inForce # NONE /\ inForce <= d THEN 2 ELSE 1
ContractFor(e, d) == IF e = "settlements" THEN ContractOn(d) ELSE 1

(* parked: the latest attempt of the content failed with a verdict. *)
Parked(c) ==
  /\ attempt[c] # NONE
  /\ LET row == registry[<<"settlements", attempt[c][1], attempt[c][2]>>]
     IN  row.status = "failed" /\ row.reason \in Verdicts

ParkedUnder(c) == registry[<<"settlements", attempt[c][1], attempt[c][2]>>].contract

(* Mutant of Admitted: it does not ask what has landed. *)
AdmittedAgain(d) ==
  {k \in Keys :
    LET c == seen[d][k] IN
    /\ c # NONE
    /\ ~ (Parked(c) /\ ParkedUnder(c) = ContractOn(d))
    /\ \A j \in Keys : j < k => seen[d][j] # c}

(* _admit: neither landed, nor parked under the contracts in force now, nor *)
(* a copy of what this run already attempts.                                *)
Admitted(d) ==
  {k \in Keys :
    LET c == seen[d][k] IN
    /\ c # NONE
    /\ files[c] = NONE
    /\ ~ (Parked(c) /\ ParkedUnder(c) = ContractOn(d))
    /\ \A j \in Keys : j < k => seen[d][j] # c}

(* Nothing is to be read for the day, and the sensor found nothing either. *)
NothingArrived(d) ==
  /\ \A k \in Admitted(d) : DateOf[seen[d][k]] # d
  /\ ~ found[d]

(* What the run allocates for, in order: its deliveries, then the empty day. *)
Slots(d) == Admitted(d) \cup (IF NothingArrived(d) THEN {NoFile} ELSE {})
Before(j, k) == j # NoFile /\ (k = NoFile \/ j < k)

Interval(d, s) == IF s = NoFile THEN d ELSE DateOf[seen[d][s]]

(* The registry as the transaction sees it when it comes to slot s. *)
RowsAt(d, s, e, pick) ==
  [n \in Sequences |->
    IF \E j \in Slots(d) :
         Before(j, s) /\ Interval(d, j) = Interval(d, s) /\ pick[j][e] = n
    THEN AllocatedRow(AbsentRow(1), 1, NONE, d)
    ELSE registry[<<e, Interval(d, s), n>>]]

SightedOf(c, i) == {n \in Sequences : <<i, n>> \in sighted[c]}

(* Mutant of MayReuse: any open batch of the interval will do. *)
ReuseAny(d, s) == Sequences

(* A delivery may reuse only its own batches; the empty day any batch that  *)
(* was never a delivery's.                                                  *)
MayReuse(d, s) ==
  IF s = NoFile
  THEN Sequences \ UNION {SightedOf(c, d) : c \in Contents}
  ELSE SightedOf(seen[d][s], Interval(d, s))

(* The batch that landed the declaration with other content, or an earlier  *)
(* delivery of this run that makes the same one.                            *)
SameDeclaration(b, c) ==
  b # c /\ Declares[b] # NONE /\ Declares[b] = Declares[c] /\ DateOf[b] = DateOf[c]

(* Mutant of Conflicts: it looks at what landed and not at this run. *)
ConflictsWithLanded(d, s) ==
  \E b \in Contents : files[b] # NONE /\ SameDeclaration(b, seen[d][s])

Conflicts(d, s) ==
  \/ \E b \in Contents : files[b] # NONE /\ SameDeclaration(b, seen[d][s])
  \/ \E j \in Admitted(d) : j < s /\ SameDeclaration(seen[d][j], seen[d][s])

Refusal(d, s) ==
  IF s = NoFile THEN NONE
  ELSE IF seen[d][s] \in Malformed THEN "malformed"
  ELSE IF Conflicts(d, s) THEN "declaration conflict"
  ELSE NONE

UnitOf(d, s, pick) ==
  [key |-> s, content |-> IF s = NoFile THEN NONE ELSE seen[d][s],
   day |-> Interval(d, s), seq |-> pick[s], refuse |-> Refusal(d, s)]

(* The slots in the order they are numbered in. *)
Orders(d) ==
  {order \in [1 .. Cardinality(Slots(d)) -> Slots(d)] :
     \A i, j \in DOMAIN order : i < j => Before(order[i], order[j])}

OpenTransaction(d, pick) ==
  /\ registry' = [b \in BatchIds |->
       IF \E s \in Slots(d) : b = <<b[1], Interval(d, s), pick[s][b[1]]>>
       THEN AllocatedRow(registry[b], ContractFor(b[1], d), NONE, d)
       ELSE registry[b]]
  /\ sighted' = [c \in Contents |-> sighted[c] \cup
       {<<DateOf[c], pick[k]["settlements"]>> : k \in {a \in Admitted(d) : seen[d][a] = c}}]
  /\ attempt' = [c \in Contents |->
       IF \E k \in Admitted(d) : seen[d][k] = c
       THEN LET k == CHOOSE k \in Admitted(d) : seen[d][k] = c
            IN  <<DateOf[c], pick[k]["settlements"]>>
       ELSE attempt[c]]

OpenBatches(d) ==
  /\ phase[d] = "open"
  /\ Cardinality(Slots(d)) <= MaxUnits
  /\ \E pick \in [Slots(d) -> [Entities -> Sequences]] :
       /\ \A s \in Slots(d), e \in Entities :
            ChosenSequence(RowsAt(d, s, e, pick), MayReuse(d, s), pick[s][e])
       /\ OpenTransaction(d, pick)
       /\ \/ /\ phase' = [phase EXCEPT ![d] = "extract"]
             /\ \E order \in Orders(d) :
                  units' = [units EXCEPT ![d] = [i \in DOMAIN order |-> UnitOf(d, order[i], pick)]]
             /\ queued' = [queued EXCEPT ![d] = 1 .. Cardinality(Slots(d))]
             /\ seen' = [seen EXCEPT ![d] = NONE]
             /\ found' = [found EXCEPT ![d] = FALSE]
          \/ "open" \in LateDeaths /\ UNCHANGED <<phase, units, queued, seen, found>>
  /\ UNCHANGED <<senderVars, files, indexed, lake, report, summary>>

OpenGivesUp(d) ==
  /\ phase[d] = "open"
  /\ phase' = [phase EXCEPT ![d] = "extract"]
  /\ units' = [units EXCEPT ![d] = NONE]
  /\ seen' = [seen EXCEPT ![d] = NONE]
  /\ found' = [found EXCEPT ![d] = FALSE]
  /\ UNCHANGED <<senderVars, warehouse, lake, queued, report, summary>>
-----------------------------------------------------------------------------
(***************************************************************************)
(* settlement_extract, one mapped instance per unit.  Its try starts by     *)
(* dropping the XCom of the one before; XComs of map indices the run no     *)
(* longer expands to stay.  A try that changed nothing and is tried again   *)
(* is no step of its own.                                                   *)
(***************************************************************************)
Said(u, ok, reason, quarantined) ==
  [unit |-> u, ok |-> ok, reason |-> reason, quarantined |-> quarantined]

AllFail == [e \in Entities |-> FALSE]
AllFit == [e \in Entities |-> TRUE]

(* Which of the file's two records its contract reads. *)
Fits(u) ==
  [e \in Entities |->
    e = "settlements" => registry[BatchOf(u, e)].contract = Layout[u.content]]

(* Mutant of Together: each entity stands for itself. *)
Apart(fits) == fits

(* One entity that fails takes its sibling with it. *)
Together(fits) == [e \in Entities |-> \A f \in Entities : fits[f]]

(* What a try that does not read the file, or must not use it, reports. *)
ReportUnread(u) ==
  IF u.key = NoFile THEN Said(u, AllFit, NONE, FALSE)
  ELSE IF u.refuse # NONE THEN Said(u, AllFail, u.refuse, FALSE)
  ELSE Said(u, AllFail, "changed", FALSE)

Unread(u) == u.key = NoFile \/ u.refuse # NONE \/ inbox[u.key] # u.content

ReportRead(u) ==
  Said(u, Together(Fits(u)),
       IF Fits(u) = AllFit THEN NONE ELSE "breaking drift",
       Fits(u) # AllFit \/ u.content \in Dirty)

(* Each entity that fits its contract is put, before the two are weighed     *)
(* together.                                                                 *)
LakeAfter(u) ==
  [b \in BatchIds |->
    IF \E e \in Entities : b = BatchOf(u, e) /\ Fits(u)[e] THEN u.content ELSE lake[b]]

EndExtract(d, i, r) ==
  /\ report' = [report EXCEPT ![d][i] = r]
  /\ queued' = [queued EXCEPT ![d] = @ \ {i}]

Extract(d, i) ==
  /\ i \in queued[d]
  /\ LET u == units[d][i] IN
     IF Unread(u)
     THEN lake' = lake /\ EndExtract(d, i, ReportUnread(u))
     ELSE /\ lake' = LakeAfter(u)
          /\ \/ EndExtract(d, i, ReportRead(u))
             \/ report' = [report EXCEPT ![d][i] = NONE] /\ UNCHANGED queued
  /\ UNCHANGED <<senderVars, warehouse, phase, found, seen, units, summary>>

(* The last try ends without a report. *)
ExtractGivesUp(d, i) ==
  /\ i \in queued[d]
  /\ EndExtract(d, i, NONE)
  /\ UNCHANGED <<senderVars, warehouse, lake, phase, found, seen, units, summary>>
-----------------------------------------------------------------------------
(***************************************************************************)
(* register, in one transaction, once every extract has ended.             *)
(***************************************************************************)
Allocated(d) ==
  IF units[d] = NONE THEN {}
  ELSE {BatchOf(units[d][i], e) : i \in DOMAIN units[d], e \in Entities}

(* current_reports: the map indices whose report names batch b, if this      *)
(* allocation holds it; reports of earlier tries among them.                 *)
Naming(d, b) ==
  {i \in Indices : report[d][i] # NONE
                   /\ b \in Allocated(d) /\ BatchOf(report[d][i].unit, b[1]) = b}

(* The current reports of the file itself, the settlements entity's.         *)
Current(d) == UNION {Naming(d, <<"settlements", s[1], s[2]>>) : s \in Stems}

Stranded(d) ==
  {b \in BatchIds : registry[b].status \in Unregistered /\ registry[b].run = d /\ Naming(d, b) = {}}

(* settlement_identifiers reads a registered file again: under the version   *)
(* only a batch still allocated to this run has, and the bytes that landed.  *)
CannotReread(d, u) ==
  /\ u.key # NoFile
  /\ registry[BatchOf(u, "settlements")].run # d \/ inbox[u.key] # u.content

(* The transaction raises: a batch that is not to be registered any more, or *)
(* one that two reports name, or a file that cannot be read again.           *)
Refused(d) ==
  \E b \in Allocated(d) : \E i \in Naming(d, b) :
    /\ report[d][i].ok[b[1]]
    /\ \/ ~ CanRegister(WrittenRow(registry[b], 0, NONE))
       \/ \E j \in Naming(d, b) : j < i
       \/ b[1] = "settlements" /\ CannotReread(d, report[d][i].unit)

First(S) == CHOOSE i \in S : \A j \in S : i <= j
Last(S) == CHOOSE i \in S : \A j \in S : j <= i

(* The row once its reports, in order, were applied: the first decides       *)
(* whether it registers, the last that fails one gives the reason.           *)
RegisteredAt(d, b) ==
  LET naming  == Naming(d, b)
      failing == {i \in naming : ~ report[d][i].ok[b[1]]}
  IN  IF b \in Stranded(d) THEN FailedRow(registry[b], "did not report")
      ELSE IF naming = {} THEN registry[b]
      ELSE IF First(naming) \in failing
      THEN FailedRow(registry[b], report[d][Last(failing)].reason)
      ELSE RegisteredRow(WrittenRow(registry[b],
             IF report[d][First(naming)].unit.key = NoFile THEN 0 ELSE 1, NONE))

Landing(d, c) ==
  {i \in Current(d) : report[d][i].unit.content = c /\ report[d][i].ok["settlements"]}

(* record_ingested leaves a content that is recorded already alone.          *)
Recorded(d) ==
  [c \in Contents |->
    IF files[c] = NONE /\ Landing(d, c) # {}
    THEN StemOf(report[d][First(Landing(d, c))].unit)
    ELSE files[c]]

(* load_quarantine inserts what each report's quarantine object holds.       *)
Indexed(d) ==
  [s \in Stems |->
    LET n == indexed[s] + Cardinality({i \in Current(d) : report[d][i].quarantined
                                                          /\ StemOf(report[d][i].unit) = s})
    IN  IF n > MaxIndexed THEN MaxIndexed ELSE n]

(* Mutant of NoneFailed: only an extract that never reported fails the run. *)
NoneStranded(d) == Stranded(d) = {}

NoneFailed(d) ==
  /\ Stranded(d) = {}
  /\ \A b \in Allocated(d) : \A i \in Naming(d, b) : report[d][i].ok[b[1]]

RegisterTransaction(d) ==
  /\ registry' = [b \in BatchIds |-> RegisteredAt(d, b)]
  /\ files' = Recorded(d)
  /\ indexed' = Indexed(d)

ReadyToRegister(d) == phase[d] = "extract" /\ queued[d] = {}

Register(d) ==
  /\ ReadyToRegister(d)
  /\ ~ Refused(d)
  /\ RegisterTransaction(d)
  /\ \/ /\ phase' = [phase EXCEPT ![d] = "gate"]
        /\ summary' = [summary EXCEPT ![d] = NoneFailed(d)]
     \/ "register" \in LateDeaths /\ UNCHANGED <<phase, summary>>
  /\ UNCHANGED <<senderVars, sighted, attempt, lake, found, seen, units, queued, report>>

RegisterGivesUp(d) ==
  /\ ReadyToRegister(d)
  /\ phase' = [phase EXCEPT ![d] = "gate"]
  /\ UNCHANGED <<senderVars, warehouse, lake, found, seen, units, queued, report, summary>>

(* Mutant of GatePasses: the summary alone decides. *)
GateOnSummary(d) == summary[d] = TRUE

(* The gate takes the allocation as well as the summary. *)
GatePasses(d) == units[d] # NONE /\ summary[d] = TRUE

Gate(d) ==
  /\ phase[d] = "gate"
  /\ phase' = [phase EXCEPT ![d] = IF GatePasses(d) THEN "success" ELSE "failed"]
  /\ summary' = [summary EXCEPT ![d] = NONE]
  /\ UNCHANGED <<senderVars, warehouse, lake, found, seen, units, queued, report>>
-----------------------------------------------------------------------------
Init ==
  /\ inbox = [k \in Keys |-> NONE] /\ inForce = NONE
  /\ registry = [b \in BatchIds |-> AbsentRow(1)]
  /\ files = [c \in Contents |-> NONE]
  /\ sighted = [c \in Contents |-> {}]
  /\ attempt = [c \in Contents |-> NONE]
  /\ lake = [b \in BatchIds |-> NONE]
  /\ indexed = [s \in Stems |-> 0]
  /\ phase = [d \in Days |-> "none"]
  /\ found = [d \in Days |-> FALSE]
  /\ seen = [d \in Days |-> NONE]
  /\ units = [d \in Days |-> NONE]
  /\ queued = [d \in Days |-> {}]
  /\ report = [d \in Days |-> [i \in Indices |-> NONE]]
  /\ summary = [d \in Days |-> NONE]

SenderStep ==
  \/ \E k \in Keys, c \in Contents : Deliver(k, c)
  \/ \E d \in Days : Bump(d)

RunStep(d) ==
  \/ Start(d) \/ Sense(d) \/ Discover(d) \/ UpstreamFails(d)
  \/ OpenBatches(d) \/ OpenGivesUp(d)
  \/ \E i \in Indices : Extract(d, i) \/ ExtractGivesUp(d, i)
  \/ Register(d) \/ RegisterGivesUp(d) \/ Gate(d)

Next == SenderStep \/ \E d \in Days : RunStep(d)
Spec == Init /\ [][Next]_vars
-----------------------------------------------------------------------------
(***************************************************************************)
(* Properties.                                                             *)
(***************************************************************************)
RowsOf(s) == {registry[<<e, s[1], s[2]>>] : e \in Entities}
DetailRow(s) == registry[<<"settlements", s[1], s[2]>>]

(* Every variable has its type.                                            *)
TypeOK ==
  /\ inbox \in [Keys -> Contents \cup {NONE}] /\ inForce \in Days \cup {NONE}
  /\ registry \in [BatchIds -> RowType(1 .. 2, Days, Reasons)]
  /\ files \in [Contents -> Stems \cup {NONE}]
  /\ sighted \in [Contents -> SUBSET Stems] /\ attempt \in [Contents -> Stems \cup {NONE}]
  /\ lake \in [BatchIds -> Contents \cup {NONE}]
  /\ indexed \in [Stems -> 0 .. MaxIndexed]
  /\ phase \in [Days -> Running \cup Ended \cup {"none"}] /\ found \in [Days -> BOOLEAN]
  /\ seen \in [Days -> [Keys -> Contents \cup {NONE}] \cup {NONE}]
  /\ units \in [Days -> Seq(Units) \cup {NONE}]
  /\ queued \in [Days -> SUBSET Indices]
  /\ report \in [Days -> [Indices -> Reports \cup {NONE}]]
  /\ summary \in [Days -> BOOLEAN \cup {NONE}]

(* A file's two batches, its records and its totals, are the same file's    *)
(* and of the same run throughout, and are registered or failed together:   *)
(* no file is half loaded.                                                  *)
SiblingsInStep ==
  \A s \in Stems : \A a, b \in RowsOf(s) :
    a.status = b.status /\ a.run = b.run /\ a.landed = b.landed

(* No batch is ever allocated to two deliveries, and the batch that says a  *)
(* day had nothing was never a delivery's.                                  *)
BatchHasOneOwner ==
  /\ \A b, c \in Contents : b # c => sighted[b] \cap sighted[c] = {}
  /\ \A s \in Stems : DetailRow(s).status = "registered" /\ DetailRow(s).landed = 0
                      => \A c \in Contents : s \notin sighted[c]

(* ops.ingested_file and bronze agree: a content is recorded as landed      *)
(* exactly by the registered batch whose objects, both, hold it, and so it  *)
(* lands once however often and under whatever names it arrives.            *)
LandsOnce ==
  \A c \in Contents, s \in Stems :
    files[c] = s <=>
      /\ DetailRow(s).status = "registered" /\ DetailRow(s).landed = 1
      /\ \A e \in Entities : lake[<<e, s[1], s[2]>>] = c

(* Two files that declare the same date, sequence and revision with         *)
(* different content never both land, if one run at a time sees them:       *)
(* extract asks before either is recorded.                                  *)
DeclarationIsOnce ==
  \A b, c \in Contents : SameDeclaration(b, c) => files[b] = NONE \/ files[c] = NONE

(* A run that ends in success left no batch of its own open, and registered *)
(* every one it allocated: all that can go missing in silence is a batch    *)
(* whose extract never reported, when register had to be tried again after  *)
(* its commit.  It says nothing of a run another may have overlapped: a run *)
(* finds its batches by what it pushed, which is stale when another took    *)
(* one of them over.                                                        *)
SuccessMeansLanded ==
  \A d \in Days : phase[d] = "success" /\ (Overlap => \A o \in Days \ {d} : phase[o] = "none") =>
    /\ \A b \in Allocated(d) :
         registry[b].status = "registered" \/ registry[b].reason = "did not report"
    /\ \A b \in BatchIds : registry[b].run = d => registry[b].status \notin Unregistered

(* After a run in success its day is accounted for by a batch: one for a    *)
(* file that declares it, or the one that says that nothing arrived.        *)
DayIsAccountedFor ==
  \A d \in Days : phase[d] = "success" =>
    \E n \in Sequences : DetailRow(<<d, n>>).status # "absent"

(* A registered batch and its object are final.                             *)
RegisteredIsFinal ==
  [][\A b \in BatchIds : registry[b].status = "registered" =>
       registry'[b] = registry[b] /\ lake'[b] = lake[b]]_vars

=============================================================================
