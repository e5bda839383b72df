------------------------- MODULE FeedDeliveryProofs -------------------------
(***************************************************************************)
(* The feed's types, who owns a batch, the two batches of a file in step,  *)
(* and what is landed, proved for every number of days, names, contents    *)
(* and sequences, and for runs of several days at once.                    *)
(*                                                                         *)
(* The argument of the first part is about what is left lying.  An XCom of *)
(* an earlier try still names batches when the next one runs, so the       *)
(* invariant speaks of every unit and every report there is, of stale ones *)
(* too: each names one stem for both entities, a stem some open inserted,  *)
(* and an empty day's stem is no delivery's.  choose_sequence keeps that:  *)
(* what it answers is the asker's already or was never inserted.           *)
(***************************************************************************)
EXTENDS FeedDelivery, FiniteSetTheorems, WellFoundedInduction, SequenceTheorems, TLAPS

Files == Contents \cup {NONE}
Listings == [Keys -> Files]

(* A unit names two batches with one sequence, which some open allocated,   *)
(* and that of an empty day no delivery's.                                  *)
Sound(u) ==
  /\ u.seq["settlements"] = u.seq["settlement_totals"]
  /\ DetailRow(StemOf(u)).status # "absent"
  /\ u.key = NoFile => \A c \in Contents : StemOf(u) \notin sighted[c]

(* A report speaks for both entities alike. *)
Even(r) == r.ok["settlements"] = r.ok["settlement_totals"]

(* A batch is sighted for contents of its own day, and once allocated. *)
SightInv ==
  \A c \in Contents : \A s \in sighted[c] : s[1] = DateOf[c] /\ DetailRow(s).status # "absent"

(* Units are sound also in the XComs of earlier tries.                      *)
UnitInv ==
  /\ \A d \in Days : units[d] # NONE => \A i \in DOMAIN units[d] : Sound(units[d][i])
  /\ \A d \in Days, i \in Indices : i \in queued[d] => Sound(units[d][i])
  /\ \A d \in Days, i \in Indices :
       report[d][i] # NONE => Sound(report[d][i].unit) /\ Even(report[d][i])

(* An extract under way has a unit, and open the listing of discovery.      *)
QueueInv ==
  \A d \in Days :
    /\ queued[d] # {} =>
         phase[d] = "extract" /\ units[d] \in Seq(Units) /\ queued[d] \subseteq DOMAIN units[d]
    /\ phase[d] = "open" => seen[d] \in Listings

FeedInv == TypeOK /\ QueueInv /\ SightInv /\ UnitInv /\ BatchHasOneOwner /\ SiblingsInStep
-----------------------------------------------------------------------------
(***************************************************************************)
(* Numbers and types.                                                      *)
(***************************************************************************)
(* A set of naturals that is not empty has a least element. *)
LEMMA LeastNatural ==
  ASSUME NEW S, S \subseteq Nat, S # {}
  PROVE  \E i \in S : \A j \in S : i <= j
<1>1. PICK i \in S : \A j \in S : ~ (<<j, i>> \in OpToRel(<, Nat))
  BY NatLessThanWellFounded, WFMin, Zenon
<1>2. \A j \in S : ~ (j < i)
  BY <1>1 DEF OpToRel
<1> QED BY <1>2

(* First and Last of a set of map indices are in it. *)
LEMMA EndsOfIndices ==
  ASSUME NEW S, S \subseteq Indices, S # {}
  PROVE  First(S) \in S /\ Last(S) \in S
<1>0. MaxUnits \in Nat
  BY FeedAssumption
<1>1. \E i \in S : \A j \in S : i <= j
  <2>1. S \subseteq Nat
    BY <1>0 DEF Indices
  <2> QED BY <2>1, LeastNatural
<1>2. \E i \in S : \A j \in S : j <= i
  <2> DEFINE T == {MaxUnits - i : i \in S}
  <2>1. T \subseteq Nat /\ T # {}
    <3>1. PICK i \in S : TRUE
      OBVIOUS
    <3>2. \A j \in S : j \in Int /\ 1 <= j /\ j <= MaxUnits
      BY <1>0 DEF Indices
    <3>3. \A j \in S : MaxUnits - j \in Nat
      BY <1>0, <3>2
    <3>4. MaxUnits - i \in T
      OBVIOUS
    <3> QED BY <3>3, <3>4
  <2>2. PICK t \in T : \A u \in T : t <= u
    BY <2>1, LeastNatural
  <2>3. PICK i \in S : t = MaxUnits - i
    BY <2>2
  <2>4. \A j \in S : j <= i
    <3> TAKE j \in S
    <3>1. MaxUnits - i <= MaxUnits - j
      BY <2>2, <2>3
    <3> QED BY <3>1, <1>0 DEF Indices
  <2> QED BY <2>4
<1> QED BY <1>1, <1>2 DEF First, Last

(* A row of the registry. *)
Rows2 == RowType(1 .. 2, Days, Reasons)

(* The batches of a unit are batches. *)
LEMMA UnitsNameBatches ==
  ASSUME NEW u \in Units
  PROVE  StemOf(u) \in Stems /\ \A e \in Entities : BatchOf(u, e) \in BatchIds
BY DEF Units, StemOf, BatchOf, Stems, BatchIds, Entities

(* What the registry functions make of a row is a row. *)
LEMMA RowsStayRows ==
  ASSUME NEW row \in Rows2
  PROVE  /\ \A n \in Nat : WrittenRow(row, n, NONE) \in Rows2
         /\ \A reason \in Reasons \cup {NONE} : FailedRow(row, reason) \in Rows2
         /\ \A contract \in 1 .. 2, d \in Days : AllocatedRow(row, contract, NONE, d) \in Rows2
         /\ RegisteredRow(row) \in Rows2
BY DEF Rows2, RowType, WrittenRow, FailedRow, AllocatedRow, RegisteredRow, Statuses, Unregistered
-----------------------------------------------------------------------------
(***************************************************************************)
(* Types.                                                                  *)
(***************************************************************************)
(* The types, and what is under way, at the start.                          *)
LEMMA TypesAtFirst == Init => TypeOK /\ QueueInv
<1> SUFFICES ASSUME Init PROVE TypeOK /\ QueueInv
  OBVIOUS
<1>1. registry \in [BatchIds -> RowType(1 .. 2, Days, Reasons)]
  BY DEF Init, AbsentRow, RowType, Statuses
<1>2. indexed \in [Stems -> 0 .. MaxIndexed]
  BY FeedAssumption DEF Init
<1>3. report \in [Days -> [Indices -> Reports \cup {NONE}]]
  BY DEF Init
<1> QED BY <1>1, <1>2, <1>3 DEF Init, TypeOK, QueueInv

(* The steps that only walk through the tasks. *)
Walks(d) ==
  \/ Start(d) \/ Sense(d) \/ Discover(d) \/ UpstreamFails(d)
  \/ OpenGivesUp(d) \/ RegisterGivesUp(d) \/ Gate(d)

(* A delivery or a new contract version keeps the types.                    *)
LEMMA TypesSend ==
  ASSUME TypeOK, QueueInv, SenderStep PROVE TypeOK' /\ QueueInv'
<1>1. \A k \in Keys, c \in Contents : Deliver(k, c) => inbox' \in [Keys -> Files] /\ inForce' = inForce
  BY FeedAssumption DEF Deliver, TypeOK, Files
<1>2. \A d \in Days : Bump(d) => inbox' = inbox /\ inForce' \in Days
  BY DEF Bump
<1>3. /\ inbox' \in [Keys -> Files] /\ inForce' \in Days \cup {NONE}
      /\ UNCHANGED <<registry, files, sighted, attempt, indexed, lake, phase, found, seen, units,
                     queued, report, summary>>
  BY <1>1, <1>2 DEF SenderStep, Deliver, Bump, TypeOK, Files, warehouse
<1> QED BY <1>3 DEF TypeOK, QueueInv, Files

(* So do the steps that move a run from task to task.                       *)
LEMMA TypesWalk ==
  ASSUME TypeOK, QueueInv, NEW d \in Days, Walks(d) PROVE TypeOK' /\ QueueInv'
<1>1. UNCHANGED <<inbox, inForce, registry, files, sighted, attempt, lake, indexed, queued, report>>
  BY DEF Walks, Start, Sense, Discover, UpstreamFails, OpenGivesUp, RegisterGivesUp, Gate,
         senderVars, warehouse
<1>2. /\ phase' \in [Days -> Running \cup Ended \cup {"none"}]
      /\ found' \in [Days -> BOOLEAN]
      /\ seen' \in [Days -> Listings \cup {NONE}]
      /\ units' \in [Days -> Seq(Units) \cup {NONE}]
      /\ summary' \in [Days -> BOOLEAN \cup {NONE}]
  BY ZenonT(40) DEF TypeOK, Walks, Start, Sense, Discover, UpstreamFails, OpenGivesUp, RegisterGivesUp, Gate,
         Arrived, Listings, Files, Running, Ended
<1>3. queued[d] = {} \/ (phase'[d] = "extract" /\ units' = units)
  BY DEF TypeOK, QueueInv, Walks, Start, Sense, Discover, UpstreamFails, OpenGivesUp,
         RegisterGivesUp, ReadyToRegister, Gate, Running, Ended
<1>4. phase'[d] = "open" => seen'[d] \in Listings
  BY DEF TypeOK, QueueInv, Walks, Start, Sense, Discover, UpstreamFails, OpenGivesUp,
         RegisterGivesUp, Gate, Running, Ended, Listings, Files
<1>5. \A o \in Days \ {d} : phase'[o] = phase[o] /\ seen'[o] = seen[o] /\ units'[o] = units[o]
  BY DEF TypeOK, Walks, Start, Sense, Discover, UpstreamFails, OpenGivesUp, RegisterGivesUp, Gate
<1>6. TypeOK'
  BY <1>1, <1>2 DEF TypeOK, Listings, Files
<1>7. QueueInv'
  BY <1>1, <1>3, <1>4, <1>5 DEF QueueInv
<1> QED BY <1>6, <1>7

(* What an extract says is a report that speaks for both entities alike. *)
LEMMA Reported ==
  ASSUME NEW u \in Units
  PROVE  /\ Unread(u) => ReportUnread(u) \in Reports /\ ReportUnread(u).unit = u
                          /\ Even(ReportUnread(u))
         /\ ReportRead(u) \in Reports /\ ReportRead(u).unit = u /\ Even(ReportRead(u))
<1>1. \A f : Together(f) \in [Entities -> BOOLEAN]
  BY DEF Together
<1>2. \A f : Together(f)["settlements"] = Together(f)["settlement_totals"]
  BY DEF Together, Entities
<1>3. AllFit \in [Entities -> BOOLEAN] /\ AllFail \in [Entities -> BOOLEAN]
  BY DEF AllFit, AllFail
<1>4. u.refuse # NONE => u.refuse \in Reasons
  BY DEF Units
<1>5. Unread(u) => ReportUnread(u) \in Reports /\ ReportUnread(u).unit = u /\ Even(ReportUnread(u))
  BY <1>3, <1>4 DEF ReportUnread, Said, Reports, Reasons, Even, AllFit, AllFail, Entities
<1>6. ReportRead(u).unit = u /\ Even(ReportRead(u))
  BY <1>2 DEF ReportRead, Said, Even
<1>7. ReportRead(u) \in Reports
  <2> DEFINE f == Together(Fits(u))
             r == IF Fits(u) = AllFit THEN NONE ELSE "breaking drift"
             q == Fits(u) # AllFit \/ u.content \in Dirty
  <2>1. f \in [Entities -> BOOLEAN] /\ r \in Reasons \cup {NONE} /\ q \in BOOLEAN
    BY <1>1 DEF Reasons, Verdicts
  <2>2. ReportRead(u) = [unit |-> u, ok |-> f, reason |-> r, quarantined |-> q]
    BY DEF ReportRead, Said
  <2> HIDE DEF f, r, q
  <2> QED BY <2>1, <2>2 DEF Reports
<1> QED BY <1>5, <1>6, <1>7

(* An extract under way, and what its end leaves. *)
LEMMA TypesExtract ==
  ASSUME TypeOK, QueueInv, NEW d \in Days, NEW i \in Indices,
         Extract(d, i) \/ ExtractGivesUp(d, i)
  PROVE  /\ TypeOK' /\ QueueInv'
         /\ units[d][i] \in Units /\ i \in queued[d] /\ queued' \in [Days -> SUBSET Indices]
         /\ \A o \in Days : queued'[o] \subseteq queued[o]
         /\ \A o \in Days, j \in Indices :
              \/ report'[o][j] = report[o][j] \/ report'[o][j] = NONE
              \/ o = d /\ j = i /\ report'[o][j].unit = units[d][i] /\ Even(report'[o][j])
<1>1. i \in queued[d] /\ UNCHANGED <<inbox, inForce, registry, files, sighted, attempt, indexed,
                                      phase, found, seen, units, summary>>
  BY DEF Extract, ExtractGivesUp, senderVars, warehouse
<1>2. units[d][i] \in Units
  BY <1>1 DEF QueueInv
<1> DEFINE u == units[d][i]
<1>3. lake' \in [BatchIds -> Contents \cup {NONE}]
  <2>1. ~ Unread(u) => u.content \in Contents \cup {NONE}
    BY <1>2 DEF Units
  <2>2. ~ Unread(u) => LakeAfter(u) \in [BatchIds -> Contents \cup {NONE}]
    BY <2>1 DEF LakeAfter, TypeOK
  <2>3. lake' = lake \/ (~ Unread(u) /\ lake' = LakeAfter(u))
    BY DEF Extract, ExtractGivesUp
  <2> QED BY <2>2, <2>3 DEF TypeOK
<1>4. \E r \in Reports \cup {NONE} :
        /\ report' = [report EXCEPT ![d][i] = r]
        /\ r = NONE \/ (r.unit = u /\ Even(r))
        /\ queued' = queued \/ queued' = [queued EXCEPT ![d] = @ \ {i}]
  BY <1>2, Reported DEF Extract, ExtractGivesUp, EndExtract
<1>5. PICK r \in Reports \cup {NONE} :
        /\ report' = [report EXCEPT ![d][i] = r]
        /\ r = NONE \/ (r.unit = u /\ Even(r))
        /\ queued' = queued \/ queued' = [queued EXCEPT ![d] = @ \ {i}]
  BY <1>4
<1>6. report' \in [Days -> [Indices -> Reports \cup {NONE}]]
  BY <1>5 DEF TypeOK
<1>7. queued' \in [Days -> SUBSET Indices] /\ \A o \in Days : queued'[o] \subseteq queued[o]
  BY <1>5 DEF TypeOK
<1>8. TypeOK'
  BY <1>1, <1>3, <1>6, <1>7 DEF TypeOK
<1>9. QueueInv'
  BY <1>1, <1>7 DEF QueueInv
<1>10. \A o \in Days, j \in Indices :
         \/ report'[o][j] = report[o][j] \/ report'[o][j] = NONE
         \/ o = d /\ j = i /\ report'[o][j].unit = units[d][i] /\ Even(report'[o][j])
  <2> TAKE o \in Days, j \in Indices
  <2>1. CASE o = d /\ j = i
    <3>1. report'[o][j] = r
      BY <1>5, <2>1 DEF TypeOK
    <3> QED BY <3>1, <1>5, <2>1
  <2>2. CASE ~ (o = d /\ j = i)
    <3>1. report'[o][j] = report[o][j]
      BY <1>5, <2>2 DEF TypeOK
    <3> QED BY <3>1
  <2> QED BY <2>1, <2>2
<1> QED BY <1>1, <1>2, <1>7, <1>8, <1>9, <1>10

(* And so does the transaction of register.                                 *)
LEMMA TypesRegister ==
  ASSUME TypeOK, QueueInv, NEW d \in Days, Register(d) PROVE TypeOK' /\ QueueInv'
<1>1. /\ UNCHANGED <<inbox, inForce, sighted, attempt, lake, found, seen, units, queued, report>>
      /\ registry' = [b \in BatchIds |-> RegisteredAt(d, b)]
      /\ files' = Recorded(d) /\ indexed' = Indexed(d)
      /\ queued[d] = {} /\ phase[d] = "extract"
      /\ phase' = phase \/ phase' = [phase EXCEPT ![d] = "gate"]
      /\ summary' = summary \/ summary' = [summary EXCEPT ![d] = NoneFailed(d)]
  BY DEF Register, RegisterTransaction, ReadyToRegister, senderVars
<1>2. \A b, i : i \in Naming(d, b) => i \in Indices /\ report[d][i] \in Reports
  BY DEF Naming, TypeOK
<1>3. \A i : i \in Current(d) => i \in Indices /\ report[d][i] \in Reports
  BY <1>2 DEF Current
<1>4. ASSUME NEW b \in BatchIds PROVE RegisteredAt(d, b) \in Rows2
  <2> DEFINE naming == Naming(d, b)
             failing == {i \in naming : ~ report[d][i].ok[b[1]]}
  <2>1. registry[b] \in Rows2
    BY DEF TypeOK, Rows2
  <2>2. First(naming) \in failing => report[d][Last(failing)] \in Reports
    BY <1>2, EndsOfIndices
  <2>3. First(naming) \in failing
          => FailedRow(registry[b], report[d][Last(failing)].reason) \in Rows2
    BY <2>1, <2>2, RowsStayRows DEF Reports
  <2>4. FailedRow(registry[b], "did not report") \in Rows2
    BY <2>1, RowsStayRows DEF Reasons
  <2>5. \A n \in {0, 1} : RegisteredRow(WrittenRow(registry[b], n, NONE)) \in Rows2
    BY <2>1, RowsStayRows
  <2> QED BY <2>1, <2>3, <2>4, <2>5 DEF RegisteredAt
<1>5. Recorded(d) \in [Contents -> Stems \cup {NONE}]
  <2>1. ASSUME NEW c \in Contents, Landing(d, c) # {}
        PROVE  StemOf(report[d][First(Landing(d, c))].unit) \in Stems
    <3>1. First(Landing(d, c)) \in Landing(d, c)
      BY <1>3, <2>1, EndsOfIndices DEF Landing
    <3>2. report[d][First(Landing(d, c))].unit \in Units
      BY <3>1, <1>3 DEF Landing, Reports
    <3> QED BY <3>2, UnitsNameBatches
  <2> QED BY <2>1 DEF Recorded, TypeOK
<1>6. Indexed(d) \in [Stems -> 0 .. MaxIndexed]
  <2> SUFFICES ASSUME NEW s \in Stems PROVE Indexed(d)[s] \in 0 .. MaxIndexed
    BY DEF Indexed
  <2> DEFINE T == {i \in Current(d) : report[d][i].quarantined /\ StemOf(report[d][i].unit) = s}
             n == indexed[s] + Cardinality(T)
  <2>1. IsFiniteSet(Indices)
    BY FeedAssumption, FS_Interval DEF Indices
  <2>2. T \subseteq Indices
    BY <1>3
  <2>3. Cardinality(T) \in Nat
    BY <2>1, <2>2, FS_Subset, FS_CardinalityType
  <2>4. Indexed(d)[s] = IF n > MaxIndexed THEN MaxIndexed ELSE n
    BY DEF Indexed
  <2>5. indexed[s] \in 0 .. MaxIndexed /\ MaxIndexed \in Nat
    BY FeedAssumption DEF TypeOK
  <2> HIDE DEF T
  <2> QED BY <2>3, <2>4, <2>5
<1>7. NoneFailed(d) \in BOOLEAN
  BY DEF NoneFailed
<1>8. TypeOK'
  <2>1. registry' \in [BatchIds -> Rows2]
    BY <1>1, <1>4
  <2>2. phase' \in [Days -> Running \cup Ended \cup {"none"}]
    BY <1>1 DEF TypeOK, Running
  <2>3. summary' \in [Days -> BOOLEAN \cup {NONE}]
    BY <1>1, <1>7 DEF TypeOK
  <2> QED BY <1>1, <1>5, <1>6, <2>1, <2>2, <2>3 DEF TypeOK, Rows2
<1>9. QueueInv'
  BY <1>1 DEF QueueInv, TypeOK
<1> QED BY <1>8, <1>9
-----------------------------------------------------------------------------
(***************************************************************************)
(* What open allocates.                                                    *)
(***************************************************************************)
(* choose_sequence has one answer, and looks at nothing but the statuses. *)
LEMMA ChosenIsOne ==
  ASSUME NEW p, NEW r, DOMAIN p = Sequences, DOMAIN r = Sequences,
         \A n \in Sequences : p[n].status = r[n].status,
         NEW may, NEW n \in Sequences, NEW m \in Sequences,
         ChosenSequence(p, may, n), ChosenSequence(r, may, m)
  PROVE  n = m
<1>1. Taken(p) = Taken(r) /\ Reusable(p, may) = Reusable(r, may)
  BY DEF Taken, Reusable
<1>2. Taken(p) \subseteq Sequences /\ Reusable(p, may) \subseteq Sequences
  BY DEF Taken, Reusable
<1>3. Sequences \subseteq Int
  BY FeedAssumption DEF Sequences
<1>4. \A S : S \subseteq Int => \A a, b \in Int : IsGreatest(a, S) /\ IsGreatest(b, S) => a = b
  BY DEF IsGreatest
<1>5. CASE Reusable(p, may) # {}
  BY <1>1, <1>2, <1>3, <1>4, <1>5 DEF ChosenSequence
<1>6. CASE Reusable(p, may) = {} /\ Taken(p) = {}
  BY <1>1, <1>6 DEF ChosenSequence
<1>7. CASE Reusable(p, may) = {} /\ Taken(p) # {}
  <2>1. IsGreatest(n - 1, Taken(p)) /\ IsGreatest(m - 1, Taken(p))
    BY <1>1, <1>7 DEF ChosenSequence
  <2>2. n \in Int /\ m \in Int /\ n - 1 \in Int /\ m - 1 \in Int
    BY <1>3
  <2>3. n - 1 = m - 1
    BY <2>1, <2>2, <1>2, <1>3, <1>4
  <2> QED BY <2>2, <2>3
<1> QED BY <1>5, <1>6, <1>7

(* It reuses an open row of those it may, or takes one never inserted. *)
LEMMA ChosenIsFree ==
  ASSUME NEW rows, DOMAIN rows = Sequences, NEW may, NEW n \in Sequences,
         ChosenSequence(rows, may, n)
  PROVE  (rows[n].status \in Unregistered /\ n \in may) \/ rows[n].status = "absent"
<1>1. Sequences \subseteq Int
  BY FeedAssumption DEF Sequences
<1>2. CASE Reusable(rows, may) # {}
  BY <1>2 DEF ChosenSequence, IsGreatest, Reusable
<1>3. CASE Reusable(rows, may) = {} /\ Taken(rows) = {}
  BY <1>3 DEF ChosenSequence, Taken
<1>4. CASE Reusable(rows, may) = {} /\ Taken(rows) # {}
  <2>1. \A m \in Taken(rows) : m <= n - 1
    BY <1>4 DEF ChosenSequence, IsGreatest
  <2>2. n \notin Taken(rows)
    BY <1>1, <2>1
  <2> QED BY <2>2 DEF Taken
<1> QED BY <1>2, <1>3, <1>4

(* The choice of a run: a sequence for each slot and entity. *)
Choice(d, pick) ==
  /\ pick \in [Slots(d) -> [Entities -> Sequences]]
  /\ \A s \in Slots(d), e \in Entities :
       ChosenSequence(RowsAt(d, s, e, pick), MayReuse(d, s), pick[s][e])

(* The slots of a listing: names of it, and the empty day only when no name *)
(* to be read declares the day.                                             *)
LEMMA SlotsOfListing ==
  ASSUME TypeOK, NEW d \in Days, seen[d] \in Listings
  PROVE  /\ \A k \in Admitted(d) : k \in Keys /\ k \in Nat /\ k # NoFile
                                   /\ seen[d][k] \in Contents /\ Interval(d, k) = DateOf[seen[d][k]]
         /\ \A s \in Slots(d) : s = NoFile \/ s \in Admitted(d)
         /\ \A s \in Slots(d) : Interval(d, s) \in Days
         /\ NoFile \in Slots(d) => Interval(d, NoFile) = d
                                   /\ \A k \in Admitted(d) : DateOf[seen[d][k]] # d
<1>1. ASSUME NEW k \in Admitted(d)
      PROVE  /\ k \in Keys /\ k \in Nat /\ k # NoFile
             /\ seen[d][k] \in Contents /\ Interval(d, k) = DateOf[seen[d][k]]
  <2>1. k \in Keys /\ seen[d][k] # NONE
    BY DEF Admitted
  <2>2. k \in Nat /\ k # NoFile
    BY <2>1, FeedAssumption DEF NoFile
  <2>3. seen[d][k] \in Contents
    BY <2>1 DEF Listings, Files
  <2> QED BY <2>1, <2>2, <2>3 DEF Interval
<1>2. \A s \in Slots(d) : s = NoFile \/ s \in Admitted(d)
  BY DEF Slots
<1>3. \A s \in Slots(d) : Interval(d, s) \in Days
  BY <1>1, <1>2, FeedAssumption DEF Interval
<1>4. NoFile \in Slots(d) => NothingArrived(d)
  BY <1>1 DEF Slots
<1> QED BY <1>1, <1>2, <1>3, <1>4 DEF NothingArrived, Interval

(* What a slot picks is its own already, or was nobody's. *)
LEMMA PicksAreFree ==
  ASSUME NEW d \in Days, NEW pick, Choice(d, pick), NEW s \in Slots(d), NEW e \in Entities
  PROVE  \/ pick[s][e] \in MayReuse(d, s)
         \/ /\ registry[<<e, Interval(d, s), pick[s][e]>>].status = "absent"
            /\ \A j \in Slots(d) : Before(j, s) /\ Interval(d, j) = Interval(d, s)
                                   => pick[j][e] # pick[s][e]
<1> DEFINE rows == RowsAt(d, s, e, pick)
           n == pick[s][e]
<1>1. n \in Sequences /\ DOMAIN rows = Sequences /\ ChosenSequence(rows, MayReuse(d, s), n)
  BY DEF Choice, RowsAt
<1>2. rows[n].status = "absent" \/ n \in MayReuse(d, s)
  <2> HIDE DEF rows, n
  <2> QED BY <1>1, ChosenIsFree DEF Unregistered
<1>3. AllocatedRow(AbsentRow(1), 1, NONE, d).status = "open"
  BY DEF AllocatedRow, AbsentRow
<1>4. ASSUME rows[n].status = "absent"
      PROVE  /\ registry[<<e, Interval(d, s), n>>].status = "absent"
             /\ \A j \in Slots(d) : Before(j, s) /\ Interval(d, j) = Interval(d, s) => pick[j][e] # n
  <2>1. rows[n] = IF \E j \in Slots(d) :
                       Before(j, s) /\ Interval(d, j) = Interval(d, s) /\ pick[j][e] = n
                  THEN AllocatedRow(AbsentRow(1), 1, NONE, d)
                  ELSE registry[<<e, Interval(d, s), n>>]
    BY <1>1 DEF RowsAt
  <2> QED BY <1>3, <1>4, <2>1
<1> QED BY <1>2, <1>4

(* The slots before one decide what it picks, alike for both entities. *)
LEMMA PicksFollow ==
  ASSUME TypeOK, SiblingsInStep, NEW d \in Days, seen[d] \in Listings, NEW pick, Choice(d, pick),
         NEW s \in Slots(d),
         \A j \in Slots(d) :
           Before(j, s) => pick[j]["settlements"] = pick[j]["settlement_totals"]
  PROVE  pick[s]["settlements"] = pick[s]["settlement_totals"]
<1> DEFINE p == RowsAt(d, s, "settlements", pick)
           r == RowsAt(d, s, "settlement_totals", pick)
<1>1. Interval(d, s) \in Days
  BY SlotsOfListing
<1>2. ASSUME NEW n \in Sequences PROVE p[n].status = r[n].status
  <2>1. <<Interval(d, s), n>> \in Stems
    BY <1>1 DEF Stems
  <2>2. registry[<<"settlements", Interval(d, s), n>>].status
          = registry[<<"settlement_totals", Interval(d, s), n>>].status
    BY <2>1 DEF SiblingsInStep, RowsOf, Entities
  <2> QED BY <2>2 DEF RowsAt
<1>3. /\ DOMAIN p = Sequences /\ DOMAIN r = Sequences
      /\ pick[s]["settlements"] \in Sequences /\ pick[s]["settlement_totals"] \in Sequences
      /\ ChosenSequence(p, MayReuse(d, s), pick[s]["settlements"])
      /\ ChosenSequence(r, MayReuse(d, s), pick[s]["settlement_totals"])
  BY DEF Choice, Entities, RowsAt
<1> HIDE DEF p, r
<1> QED BY <1>2, <1>3, ChosenIsOne

(* Hence every slot picks one sequence for both, by the least that would not. *)
LEMMA PicksAlike ==
  ASSUME TypeOK, SiblingsInStep, NEW d \in Days, seen[d] \in Listings, NEW pick, Choice(d, pick)
  PROVE  \A s \in Slots(d) : pick[s]["settlements"] = pick[s]["settlement_totals"]
<1> DEFINE Alike(s) == pick[s]["settlements"] = pick[s]["settlement_totals"]
           T == {k \in Admitted(d) : ~ Alike(k)}
<1>1. Admitted(d) \subseteq Nat /\ Admitted(d) \subseteq Slots(d)
  BY SlotsOfListing DEF Slots
<1>2. T = {}
  <2> SUFFICES ASSUME T # {} PROVE FALSE
    OBVIOUS
  <2>1. PICK k \in T : \A j \in T : k <= j
    <3>1. T \subseteq Nat
      BY <1>1
    <3> HIDE DEF T
    <3> QED BY <3>1, LeastNatural
  <2>2. \A j \in Slots(d) : Before(j, k) => Alike(j)
    <3> SUFFICES ASSUME NEW j \in Slots(d), Before(j, k) PROVE Alike(j)
      OBVIOUS
    <3>1. k \in Admitted(d) /\ k # NoFile
      BY SlotsOfListing
    <3>2. j \in Admitted(d) /\ j < k /\ j \in Nat /\ k \in Nat
      BY <1>1, <3>1, SlotsOfListing DEF Before
    <3>3. j \notin T
      BY <2>1, <3>2
    <3> QED BY <3>2, <3>3
  <2>3. Alike(k)
    BY <1>1, <2>2, PicksFollow
  <2> QED BY <2>3
<1>3. ASSUME NEW s \in Slots(d) PROVE Alike(s)
  <2>1. CASE s \in Admitted(d)
    BY <1>2, <2>1
  <2>2. CASE s = NoFile
    <3>1. \A j \in Slots(d) : Before(j, s) => Alike(j)
      BY <1>2, <2>2, SlotsOfListing DEF Before
    <3> QED BY <3>1, PicksFollow
  <2> QED BY <2>1, <2>2, SlotsOfListing
<1> QED BY <1>3

(* What the transaction of open does to a row. *)
LEMMA OpenedRows ==
  ASSUME TypeOK, NEW d \in Days, seen[d] \in Listings, NEW pick, Choice(d, pick),
         OpenTransaction(d, pick), NEW b \in BatchIds
  PROVE  \/ registry'[b] = registry[b]
         \/ /\ registry'[b].status = "open" /\ registry'[b].run = d /\ registry'[b].landed = 0
            /\ \E s \in Slots(d) : b = <<b[1], Interval(d, s), pick[s][b[1]]>>
<1>1. registry[b] \in Rows2
  BY DEF TypeOK, Rows2
<1>2. \A c : /\ AllocatedRow(registry[b], c, NONE, d).status = "open"
             /\ AllocatedRow(registry[b], c, NONE, d).run = d
             /\ AllocatedRow(registry[b], c, NONE, d).landed = 0
  BY <1>1 DEF AllocatedRow, Rows2, RowType
<1> QED BY <1>2 DEF OpenTransaction

(* The two rows of what a slot picks are opened, for the run. *)
LEMMA PickedIsOpen ==
  ASSUME TypeOK, NEW d \in Days, seen[d] \in Listings, NEW pick, Choice(d, pick),
         OpenTransaction(d, pick), NEW s \in Slots(d), NEW e \in Entities
  PROVE  registry'[<<e, Interval(d, s), pick[s][e]>>].status = "open"
<1> DEFINE b == <<e, Interval(d, s), pick[s][e]>>
<1>1. b \in BatchIds /\ b[1] = e
  BY SlotsOfListing DEF Choice, BatchIds
<1>2. registry[b] \in Rows2
  BY <1>1 DEF TypeOK, Rows2
<1>3. registry'[b] = AllocatedRow(registry[b], ContractFor(e, d), NONE, d)
  BY <1>1 DEF OpenTransaction
<1> QED BY <1>2, <1>3 DEF AllocatedRow, Rows2, RowType

(* A new sighting is of a batch this content had, or of one that was absent *)
(* and that no other content of the run is given.                           *)
LEMMA NewSightings ==
  ASSUME TypeOK, SightInv, NEW d \in Days, seen[d] \in Listings, NEW pick, Choice(d, pick),
         OpenTransaction(d, pick), NEW c \in Contents, NEW t \in sighted'[c], t \notin sighted[c]
  PROVE  /\ DetailRow(t).status = "absent" /\ t[1] = DateOf[c] /\ t \in Stems
         /\ \E k \in Admitted(d) : /\ seen[d][k] = c /\ t = <<DateOf[c], pick[k]["settlements"]>>
                                   /\ t = <<Interval(d, k), pick[k]["settlements"]>>
                                   /\ \A j \in Slots(d) :
                                        Before(j, k) /\ Interval(d, j) = Interval(d, k)
                                          => pick[j]["settlements"] # pick[k]["settlements"]
<1>1. PICK k \in Admitted(d) : seen[d][k] = c /\ t = <<DateOf[c], pick[k]["settlements"]>>
  BY DEF OpenTransaction
<1>2. k \in Slots(d) /\ k # NoFile /\ Interval(d, k) = DateOf[c]
  BY <1>1, SlotsOfListing DEF Slots
<1>3. pick[k]["settlements"] \in Sequences /\ DateOf[c] \in Days
  BY <1>2, FeedAssumption DEF Choice, Entities
<1>4. pick[k]["settlements"] \notin MayReuse(d, k)
  BY <1>1, <1>2, <1>3 DEF MayReuse, SightedOf
<1>5. "settlements" \in Entities
  BY DEF Entities
<1>6. /\ registry[<<"settlements", Interval(d, k), pick[k]["settlements"]>>].status = "absent"
      /\ \A j \in Slots(d) : Before(j, k) /\ Interval(d, j) = Interval(d, k)
                               => pick[j]["settlements"] # pick[k]["settlements"]
  BY <1>2, <1>4, <1>5, PicksAreFree
<1>7. DetailRow(t).status = "absent" /\ t \in Stems /\ t[1] = DateOf[c]
  BY <1>1, <1>2, <1>3, <1>6 DEF DetailRow, Stems
<1> QED BY <1>1, <1>2, <1>6, <1>7

(* open gives no delivery what another has, nor what says a day was empty.  *)
LEMMA OpenKeepsOwners ==
  ASSUME TypeOK, SightInv, BatchHasOneOwner, NEW d \in Days, seen[d] \in Listings,
         NEW pick, Choice(d, pick), OpenTransaction(d, pick)
  PROVE  BatchHasOneOwner' /\ SightInv'
<1>0. \A c \in Contents : sighted[c] \subseteq Stems /\ DateOf[c] \in Days
  BY FeedAssumption DEF TypeOK
<1>1. ASSUME NEW b \in Contents, NEW c \in Contents, b # c,
             NEW t \in sighted'[b], t \in sighted'[c]
      PROVE  FALSE
  <2>1. t \notin sighted[b] \/ t \notin sighted[c]
    BY <1>1 DEF BatchHasOneOwner
  <2>2. t \notin sighted[b] /\ t \notin sighted[c]
    BY <1>1, <2>1, NewSightings DEF SightInv
  <2>3. PICK k \in Admitted(d) :
          /\ seen[d][k] = b /\ t = <<Interval(d, k), pick[k]["settlements"]>>
          /\ \A j \in Slots(d) : Before(j, k) /\ Interval(d, j) = Interval(d, k)
                                  => pick[j]["settlements"] # pick[k]["settlements"]
    BY <1>1, <2>2, NewSightings
  <2>4. PICK m \in Admitted(d) :
          /\ seen[d][m] = c /\ t = <<Interval(d, m), pick[m]["settlements"]>>
          /\ \A j \in Slots(d) : Before(j, m) /\ Interval(d, j) = Interval(d, m)
                                  => pick[j]["settlements"] # pick[m]["settlements"]
    BY <1>1, <2>2, NewSightings
  <2>5. k \in Nat /\ m \in Nat /\ k # NoFile /\ m # NoFile /\ k \in Slots(d) /\ m \in Slots(d)
    BY SlotsOfListing DEF Slots
  <2>6. k # m
    BY <1>1, <2>3, <2>4
  <2>7. Before(k, m) \/ Before(m, k)
    BY <2>5, <2>6 DEF Before
  <2>8. Interval(d, k) = Interval(d, m) /\ pick[k]["settlements"] = pick[m]["settlements"]
    BY <2>3, <2>4
  <2> QED BY <2>3, <2>4, <2>5, <2>7, <2>8
<1>2. ASSUME NEW s \in Stems, (DetailRow(s).status = "registered" /\ DetailRow(s).landed = 0)',
             NEW c \in Contents, s \in sighted'[c]
      PROVE  FALSE
  <2> DEFINE b == <<"settlements", s[1], s[2]>>
  <2>1. b \in BatchIds
    BY DEF Stems, BatchIds, Entities
  <2>2. registry'[b] = registry[b]
    BY <1>2, <2>1, OpenedRows DEF DetailRow
  <2>3. s \notin sighted[c]
    BY <1>2, <2>2 DEF BatchHasOneOwner, DetailRow
  <2>4. DetailRow(s).status = "absent"
    BY <1>2, <2>3, NewSightings
  <2> QED BY <1>2, <2>2, <2>4 DEF DetailRow
<1>3. ASSUME NEW c \in Contents, NEW t \in sighted'[c]
      PROVE  t[1] = DateOf[c] /\ (DetailRow(t).status # "absent")'
  <2>1. CASE t \in sighted[c]
    <3>1. t \in Stems /\ t[1] = DateOf[c] /\ DetailRow(t).status # "absent"
      BY <1>0, <2>1 DEF SightInv
    <3>2. <<"settlements", t[1], t[2]>> \in BatchIds
      BY <3>1 DEF Stems, BatchIds, Entities
    <3> QED BY <3>1, <3>2, OpenedRows DEF DetailRow
  <2>2. CASE t \notin sighted[c]
    <3>1. PICK k \in Admitted(d) : t = <<Interval(d, k), pick[k]["settlements"]>>
      BY <2>2, NewSightings
    <3>2. k \in Slots(d) /\ "settlements" \in Entities
      BY DEF Slots, Entities
    <3>3. registry'[<<"settlements", Interval(d, k), pick[k]["settlements"]>>].status = "open"
      BY <3>2, PickedIsOpen
    <3> QED BY <2>2, <3>1, <3>3, NewSightings DEF DetailRow
  <2> QED BY <2>1, <2>2
<1> QED BY <1>1, <1>2, <1>3 DEF BatchHasOneOwner, SightInv

(* SiblingsInStep, entity by entity. *)
InStep(table) ==
  \A s \in Stems, e, f \in Entities :
    /\ table[<<e, s[1], s[2]>>].status = table[<<f, s[1], s[2]>>].status
    /\ table[<<e, s[1], s[2]>>].run = table[<<f, s[1], s[2]>>].run
    /\ table[<<e, s[1], s[2]>>].landed = table[<<f, s[1], s[2]>>].landed

(* The set of a file's rows is those two, before a step and after it. *)
LEMMA StepByEntity == (SiblingsInStep <=> InStep(registry)) /\ (SiblingsInStep' <=> InStep(registry'))
<1>1. \A s, table : {table[<<e, s[1], s[2]>>] : e \in Entities}
                     = {table[<<"settlements", s[1], s[2]>>], table[<<"settlement_totals", s[1], s[2]>>]}
  BY DEF Entities
<1>2. SiblingsInStep <=> InStep(registry)
  BY <1>1 DEF SiblingsInStep, RowsOf, InStep, Entities
<1>3. SiblingsInStep' <=> InStep(registry')
  BY <1>1 DEF SiblingsInStep, RowsOf, InStep, Entities
<1> QED BY <1>2, <1>3

(* open opens both batches of a file or neither.                            *)
LEMMA OpenKeepsSiblings ==
  ASSUME TypeOK, SiblingsInStep, NEW d \in Days, seen[d] \in Listings,
         NEW pick, Choice(d, pick), OpenTransaction(d, pick)
  PROVE  SiblingsInStep'
<1> SUFFICES ASSUME NEW s \in Stems, NEW e \in Entities, NEW f \in Entities
             PROVE  /\ registry'[<<e, s[1], s[2]>>].status = registry'[<<f, s[1], s[2]>>].status
                    /\ registry'[<<e, s[1], s[2]>>].run = registry'[<<f, s[1], s[2]>>].run
                    /\ registry'[<<e, s[1], s[2]>>].landed = registry'[<<f, s[1], s[2]>>].landed
  BY StepByEntity DEF InStep
<1> DEFINE x == <<e, s[1], s[2]>>
           y == <<f, s[1], s[2]>>
           Picked == \E q \in Slots(d) : <<s[1], s[2]>> = <<Interval(d, q), pick[q]["settlements"]>>
<1>1. x \in BatchIds /\ y \in BatchIds /\ x[1] = e /\ y[1] = f
  BY DEF Stems, BatchIds
<1>2. \A q \in Slots(d), g \in Entities : pick[q][g] = pick[q]["settlements"]
  BY PicksAlike DEF Entities
<1>3. ASSUME NEW g \in Entities
      PROVE  LET b == <<g, s[1], s[2]>> IN
             (\E q \in Slots(d) : b = <<g, Interval(d, q), pick[q][g]>>) <=> Picked
  BY <1>2
<1>4. registry[x] \in Rows2 /\ registry[y] \in Rows2
  BY <1>1 DEF TypeOK, Rows2
<1>5. CASE ~ Picked
  <2>1. registry'[x] = registry[x] /\ registry'[y] = registry[y]
    BY <1>1, <1>3, <1>5 DEF OpenTransaction
  <2> QED BY <2>1, StepByEntity DEF InStep
<1>6. CASE Picked
  <2>1. \A row \in Rows2 : \A c : /\ AllocatedRow(row, c, NONE, d).status = "open"
                                 /\ AllocatedRow(row, c, NONE, d).run = d
                                 /\ AllocatedRow(row, c, NONE, d).landed = 0
    BY DEF AllocatedRow, Rows2, RowType
  <2>2. /\ registry'[x] = AllocatedRow(registry[x], ContractFor(e, d), NONE, d)
        /\ registry'[y] = AllocatedRow(registry[y], ContractFor(f, d), NONE, d)
    BY <1>1, <1>3, <1>6 DEF OpenTransaction
  <2> QED BY <1>4, <2>1, <2>2
<1> QED BY <1>5, <1>6

(* The unit of a slot is a unit. *)
LEMMA UnitsOfSlots ==
  ASSUME TypeOK, NEW d \in Days, seen[d] \in Listings, NEW pick, Choice(d, pick), NEW s \in Slots(d)
  PROVE  UnitOf(d, s, pick) \in Units
<1>1. pick[s] \in [Entities -> Sequences]
  BY DEF Choice
<1>2. Refusal(d, s) \in Reasons \cup {NONE}
  BY DEF Refusal, Reasons, Verdicts
<1>3. s \in Keys \cup {NoFile} /\ Interval(d, s) \in Days
  BY SlotsOfListing
<1>4. s # NoFile => seen[d][s] \in Contents
  BY SlotsOfListing
<1> QED BY <1>1, <1>2, <1>3, <1>4 DEF UnitOf, Units

(* The transaction of open keeps the tables of their types. *)
LEMMA OpenKeepsTables ==
  ASSUME TypeOK, NEW d \in Days, seen[d] \in Listings, NEW pick, Choice(d, pick),
         OpenTransaction(d, pick)
  PROVE  /\ registry' \in [BatchIds -> Rows2]
         /\ sighted' \in [Contents -> SUBSET Stems]
         /\ attempt' \in [Contents -> Stems \cup {NONE}]
<1>1. registry' \in [BatchIds -> Rows2]
  <2>1. \A b \in BatchIds : AllocatedRow(registry[b], ContractFor(b[1], d), NONE, d) \in Rows2
    <3> TAKE b \in BatchIds
    <3>1. registry[b] \in Rows2
      BY DEF TypeOK, Rows2
    <3>2. ContractFor(b[1], d) \in 1 .. 2
      BY DEF ContractFor, ContractOn
    <3> QED BY <3>1, <3>2, RowsStayRows
  <2>2. \A b \in BatchIds : registry[b] \in Rows2
    BY DEF TypeOK, Rows2
  <2> QED BY <2>1, <2>2 DEF OpenTransaction
<1>2. \A c \in Contents, k \in Admitted(d) : <<DateOf[c], pick[k]["settlements"]>> \in Stems
  <2> TAKE c \in Contents, k \in Admitted(d)
  <2>1. k \in Slots(d) /\ "settlements" \in Entities
    BY DEF Slots, Entities
  <2>2. pick[k]["settlements"] \in Sequences
    BY <2>1 DEF Choice
  <2>3. DateOf[c] \in Days
    BY FeedAssumption
  <2> QED BY <2>2, <2>3 DEF Stems
<1>3. sighted' \in [Contents -> SUBSET Stems]
  BY <1>2 DEF OpenTransaction, TypeOK
<1>4. attempt' \in [Contents -> Stems \cup {NONE}]
  <2>1. ASSUME NEW c \in Contents, \E k \in Admitted(d) : seen[d][k] = c
        PROVE  <<DateOf[c], pick[CHOOSE k \in Admitted(d) : seen[d][k] = c]["settlements"]>> \in Stems
    BY <1>2, <2>1
  <2> QED BY <2>1 DEF OpenTransaction, TypeOK
<1> QED BY <1>1, <1>3, <1>4

(* The allocation of a run is as long as it has slots, no longer than the   *)
(* map indices, and of units.                                               *)
LEMMA Allocations ==
  ASSUME TypeOK, NEW d \in Days, seen[d] \in Listings, NEW pick, Choice(d, pick),
         Cardinality(Slots(d)) <= MaxUnits, NEW order \in Orders(d)
  PROVE  /\ [i \in DOMAIN order |-> UnitOf(d, order[i], pick)] \in Seq(Units)
         /\ DOMAIN order = 1 .. Cardinality(Slots(d))
         /\ 1 .. Cardinality(Slots(d)) \subseteq Indices
         /\ \A i \in DOMAIN order : order[i] \in Slots(d)
<1>1. IsFiniteSet(Keys \cup {NoFile})
  BY FeedAssumption, FS_EmptySet, FS_AddElement
<1>2. Slots(d) \subseteq Keys \cup {NoFile}
  BY SlotsOfListing
<1>3. Cardinality(Slots(d)) \in Nat
  BY <1>1, <1>2, FS_Subset, FS_CardinalityType
<1>4. order \in [1 .. Cardinality(Slots(d)) -> Slots(d)]
  BY DEF Orders
<1>5. \A i \in DOMAIN order : UnitOf(d, order[i], pick) \in Units
  BY <1>4, UnitsOfSlots
<1>6. 1 .. Cardinality(Slots(d)) \subseteq Indices
  BY <1>3, FeedAssumption DEF Indices
<1> DEFINE f == [i \in DOMAIN order |-> UnitOf(d, order[i], pick)]
<1>7. f \in [1 .. Cardinality(Slots(d)) -> Units]
  BY <1>4, <1>5
<1>8. f \in Seq(Units)
  <2> HIDE DEF f
  <2> QED BY <1>3, <1>7, SeqDef
<1> QED BY <1>4, <1>6, <1>8

(* Each new unit is sound, and what was sound stays so.                     *)
LEMMA OpenKeepsSound ==
  ASSUME TypeOK, SightInv, SiblingsInStep, NEW d \in Days, seen[d] \in Listings,
         NEW pick, Choice(d, pick), OpenTransaction(d, pick)
  PROVE  /\ \A s \in Slots(d), u \in Units : u = UnitOf(d, s, pick) => Sound(u)'
         /\ \A u \in Units : Sound(u) => Sound(u)'
<1>1. ASSUME NEW u \in Units, Sound(u) PROVE Sound(u)'
  <2>1. StemOf(u) \in Stems
    BY UnitsNameBatches
  <2>2. <<"settlements", StemOf(u)[1], StemOf(u)[2]>> \in BatchIds
    BY <2>1 DEF Stems, BatchIds, Entities
  <2>3. (DetailRow(StemOf(u)).status # "absent")'
    BY <1>1, <2>2, OpenedRows DEF Sound, DetailRow, StemOf
  <2>4. ASSUME NEW c \in Contents, u.key = NoFile PROVE StemOf(u) \notin sighted'[c]
    BY <1>1, <2>4, NewSightings DEF Sound
  <2> QED BY <1>1, <2>3, <2>4 DEF Sound, StemOf
<1>2. ASSUME NEW s \in Slots(d), NEW u \in Units, u = UnitOf(d, s, pick) PROVE Sound(u)'
  <2> DEFINE n == pick[s]["settlements"]
             b == <<"settlements", Interval(d, s), n>>
  <2>1. u.seq = pick[s] /\ u.day = Interval(d, s) /\ u.key = s
    BY <1>2 DEF UnitOf
  <2>2. pick[s]["settlements"] = pick[s]["settlement_totals"]
    BY PicksAlike
  <2>3. registry'[b].status = "open"
    <3>1. "settlements" \in Entities
      BY DEF Entities
    <3> QED BY <3>1, PickedIsOpen
  <2>4. ASSUME s = NoFile, NEW c \in Contents, <<Interval(d, s), n>> \in sighted'[c]
        PROVE  FALSE
    <3>1. Interval(d, s) = d /\ \A k \in Admitted(d) : DateOf[seen[d][k]] # d
      BY <2>4, SlotsOfListing
    <3>2. <<d, n>> \in sighted[c]
      BY <2>4, <3>1, NewSightings
    <3>3. n \notin MayReuse(d, s)
      BY <2>4, <3>2 DEF MayReuse, SightedOf
    <3>4. registry[b].status = "absent"
      <4>1. "settlements" \in Entities
        BY DEF Entities
      <4> QED BY <3>3, <4>1, PicksAreFree
    <3>5. registry[<<"settlements", d, n>>].status # "absent"
      BY <3>2 DEF SightInv, DetailRow
    <3> QED BY <3>1, <3>4, <3>5
  <2> HIDE DEF n
  <2>5. StemOf(u) = <<Interval(d, s), n>>
    BY <2>1 DEF StemOf, n
  <2>6. DetailRow(StemOf(u))'.status # "absent"
    BY <2>3, <2>5 DEF DetailRow, StemOf
  <2>7. u.key = NoFile => \A c \in Contents : StemOf(u) \notin sighted'[c]
    BY <2>1, <2>4, <2>5
  <2>8. u.seq["settlements"] = u.seq["settlement_totals"]
    BY <2>1, <2>2
  <2> QED BY <2>6, <2>7, <2>8 DEF Sound, DetailRow, StemOf
<1> QED BY <1>1, <1>2

(* open, with its commit and whether or not it then succeeds.               *)
LEMMA OpenKeeps ==
  ASSUME FeedInv, NEW d \in Days, OpenBatches(d) PROVE FeedInv'
<1> USE DEF FeedInv
<1>1. PICK pick \in [Slots(d) -> [Entities -> Sequences]] :
        /\ \A s \in Slots(d), e \in Entities :
             ChosenSequence(RowsAt(d, s, e, pick), MayReuse(d, s), pick[s][e])
        /\ OpenTransaction(d, pick)
        /\ \/ /\ phase' = [phase EXCEPT ![d] = "extract"]
              /\ \E order \in Orders(d) :
                   units' = [units EXCEPT ![d] = [i \in DOMAIN order |-> UnitOf(d, order[i], pick)]]
              /\ queued' = [queued EXCEPT ![d] = 1 .. Cardinality(Slots(d))]
              /\ seen' = [seen EXCEPT ![d] = NONE]
              /\ found' = [found EXCEPT ![d] = FALSE]
           \/ UNCHANGED <<phase, units, queued, seen, found>>
  BY DEF OpenBatches
<1>2. /\ phase[d] = "open" /\ Cardinality(Slots(d)) <= MaxUnits
      /\ UNCHANGED <<inbox, inForce, files, indexed, lake, report, summary>>
  BY DEF OpenBatches, senderVars
<1>3. seen[d] \in Listings /\ queued[d] = {}
  BY <1>2 DEF QueueInv
<1>4. Choice(d, pick)
  BY <1>1 DEF Choice
<1>5. BatchHasOneOwner' /\ SightInv'
  BY <1>1, <1>3, <1>4, OpenKeepsOwners
<1>6. SiblingsInStep'
  BY <1>1, <1>3, <1>4, OpenKeepsSiblings
<1>7. /\ \A s \in Slots(d), u \in Units : u = UnitOf(d, s, pick) => Sound(u)'
      /\ \A u \in Units : Sound(u) => Sound(u)'
  BY <1>1, <1>3, <1>4, OpenKeepsSound
<1>8. /\ registry' \in [BatchIds -> Rows2]
      /\ sighted' \in [Contents -> SUBSET Stems]
      /\ attempt' \in [Contents -> Stems \cup {NONE}]
  BY <1>1, <1>3, <1>4, OpenKeepsTables
<1>9. \A o \in Days, i \in Indices :
        (report[o][i] # NONE => Sound(report[o][i].unit) /\ Even(report[o][i]))'
  <2> TAKE o \in Days, i \in Indices
  <2>1. report'[o][i] = report[o][i]
    BY <1>2
  <2>2. report[o][i] # NONE => report[o][i].unit \in Units
    BY DEF TypeOK, Reports
  <2>3. report[o][i] # NONE => Sound(report[o][i].unit) /\ Even(report[o][i])
    BY DEF UnitInv
  <2> QED BY <1>7, <2>1, <2>2, <2>3 DEF Sound, Even, StemOf, DetailRow
<1>10. ASSUME NEW order \in Orders(d), NEW alloc,
              alloc = [i \in DOMAIN order |-> UnitOf(d, order[i], pick)]
       PROVE  /\ alloc \in Seq(Units)
              /\ DOMAIN alloc = 1 .. Cardinality(Slots(d))
              /\ 1 .. Cardinality(Slots(d)) \subseteq Indices
              /\ \A i \in DOMAIN alloc : Sound(alloc[i])'
  <2>1. /\ alloc \in Seq(Units) /\ DOMAIN order = 1 .. Cardinality(Slots(d))
        /\ 1 .. Cardinality(Slots(d)) \subseteq Indices
        /\ \A i \in DOMAIN order : order[i] \in Slots(d)
    BY <1>2, <1>3, <1>4, <1>10, Allocations
  <2>2. ASSUME NEW i \in DOMAIN order PROVE Sound(alloc[i])'
    <3>1. alloc[i] = UnitOf(d, order[i], pick) /\ alloc[i] \in Units
      BY <1>3, <1>4, <1>10, <2>1, UnitsOfSlots
    <3> QED BY <1>7, <2>1, <3>1
  <2> QED BY <1>10, <2>1, <2>2
<1>11. \A o \in Days : units[o] # NONE =>
         units[o] \in Seq(Units) /\ \A i \in DOMAIN units[o] : units[o][i] \in Units /\ Sound(units[o][i])
  BY DEF TypeOK, UnitInv
<1>12. \A o \in Days, i \in Indices : i \in queued[o] => units[o][i] \in Units /\ Sound(units[o][i])
  BY DEF QueueInv, UnitInv
<1>13. CASE UNCHANGED <<phase, units, queued, seen, found>>
  <2>1. TypeOK'
    BY <1>2, <1>8, <1>13 DEF TypeOK, Rows2
  <2>2. QueueInv'
    BY <1>13 DEF QueueInv
  <2>3. \A o \in Days : (units[o] # NONE => \A i \in DOMAIN units[o] : Sound(units[o][i]))'
    BY <1>7, <1>11, <1>13 DEF Sound, StemOf, DetailRow
  <2>4. \A o \in Days, i \in Indices : (i \in queued[o] => Sound(units[o][i]))'
    BY <1>7, <1>12, <1>13 DEF Sound, StemOf, DetailRow
  <2> QED BY <1>5, <1>6, <1>9, <2>1, <2>2, <2>3, <2>4 DEF UnitInv
<1>14. ASSUME NEW order \in Orders(d), NEW alloc,
              alloc = [i \in DOMAIN order |-> UnitOf(d, order[i], pick)],
              phase' = [phase EXCEPT ![d] = "extract"], units' = [units EXCEPT ![d] = alloc],
              queued' = [queued EXCEPT ![d] = 1 .. Cardinality(Slots(d))],
              seen' = [seen EXCEPT ![d] = NONE], found' = [found EXCEPT ![d] = FALSE]
       PROVE  FeedInv'
  <2>0. /\ units' \in [Days -> Seq(Units) \cup {NONE}]
        /\ queued' \in [Days -> SUBSET Indices]
        /\ phase' \in [Days -> Running \cup Ended \cup {"none"}]
        /\ seen' \in [Days -> Listings \cup {NONE}]
        /\ found' \in [Days -> BOOLEAN]
        /\ units'[d] = alloc /\ queued'[d] = 1 .. Cardinality(Slots(d)) /\ phase'[d] = "extract"
        /\ \A o \in Days \ {d} : units'[o] = units[o] /\ queued'[o] = queued[o]
                                  /\ phase'[o] = phase[o] /\ seen'[o] = seen[o]
    BY <1>10, <1>14 DEF TypeOK, Running, Listings, Files
  <2>1. TypeOK'
    BY <1>2, <1>8, <2>0 DEF TypeOK, Rows2, Listings, Files
  <2>2. QueueInv'
    <3>1. alloc \in Seq(Units) /\ DOMAIN alloc = 1 .. Cardinality(Slots(d))
      BY <1>10, <1>14
    <3>2. ASSUME NEW o \in Days
          PROVE  /\ queued'[o] # {} => phase'[o] = "extract" /\ units'[o] \in Seq(Units)
                                       /\ queued'[o] \subseteq DOMAIN units'[o]
                 /\ phase'[o] = "open" => seen'[o] \in Listings
      <4>1. CASE o = d
        BY <2>0, <3>1, <4>1
      <4>2. CASE o # d
        BY <2>0, <4>2 DEF QueueInv
      <4> QED BY <4>1, <4>2
    <3> QED BY <3>2 DEF QueueInv
  <2>3. \A o \in Days : (units[o] # NONE => \A i \in DOMAIN units[o] : Sound(units[o][i]))'
    <3> TAKE o \in Days
    <3>1. CASE o = d
      BY <1>10, <1>14, <2>0, <3>1 DEF Sound, StemOf, DetailRow
    <3>2. CASE o # d
      <4>1. units'[o] = units[o]
        BY <2>0, <3>2
      <4> QED BY <1>7, <1>11, <4>1, ZenonT(40) DEF Sound, StemOf, DetailRow
    <3> QED BY <3>1, <3>2
  <2>4. \A o \in Days, i \in Indices : (i \in queued[o] => Sound(units[o][i]))'
    <3> TAKE o \in Days, i \in Indices
    <3>1. CASE o = d
      <4>1. i \in queued'[o] => units'[o] = alloc /\ i \in DOMAIN alloc
        BY <1>10, <1>14, <2>0, <3>1
      <4>2. \A j \in DOMAIN alloc : Sound(alloc[j])'
        BY <1>10, <1>14
      <4> QED BY <4>1, <4>2 DEF Sound, StemOf, DetailRow
    <3>2. CASE o # d
      <4>1. units'[o] = units[o] /\ queued'[o] = queued[o]
        BY <2>0, <3>2
      <4> QED BY <1>7, <1>12, <4>1 DEF Sound, StemOf, DetailRow
    <3> QED BY <3>1, <3>2
  <2> QED BY <1>5, <1>6, <1>9, <2>1, <2>2, <2>3, <2>4 DEF UnitInv
<1> QED BY <1>1, <1>13, <1>14
-----------------------------------------------------------------------------
(***************************************************************************)
(* What register settles.                                                  *)
(***************************************************************************)
(* The two batches of a file are in one allocation, have the same reports,  *)
(* and those say the same of both.                                          *)
LEMMA NamedAlike ==
  ASSUME TypeOK, UnitInv, NEW d \in Days, NEW s \in Stems, NEW e \in Entities, NEW f \in Entities
  PROVE  /\ Naming(d, <<e, s[1], s[2]>>) = Naming(d, <<f, s[1], s[2]>>)
         /\ \A i \in Naming(d, <<e, s[1], s[2]>>) : report[d][i].ok[e] = report[d][i].ok[f]
<1> DEFINE x == <<e, s[1], s[2]>>
           y == <<f, s[1], s[2]>>
<1>1. \A u : Sound(u) => (BatchOf(u, e) = x <=> BatchOf(u, f) = y)
  BY DEF Sound, BatchOf, Entities
<1>2. x \in Allocated(d) <=> y \in Allocated(d)
  <2>1. CASE units[d] = NONE
    BY <2>1 DEF Allocated
  <2>2. CASE units[d] # NONE
    <3>1. \A i \in DOMAIN units[d] : Sound(units[d][i])
      BY <2>2 DEF UnitInv
    <3>2. \A g \in Entities : <<g, s[1], s[2]>> \in Allocated(d)
                               <=> \E i \in DOMAIN units[d] : BatchOf(units[d][i], g) = <<g, s[1], s[2]>>
      BY <2>2 DEF Allocated, BatchOf
    <3> QED BY <1>1, <3>1, <3>2
  <2> QED BY <2>1, <2>2
<1>3. \A i \in Indices : report[d][i] # NONE => Sound(report[d][i].unit) /\ Even(report[d][i])
  BY DEF UnitInv
<1>4. x[1] = e /\ y[1] = f
  OBVIOUS
<1> HIDE DEF x, y
<1>5. \A i \in Indices : i \in Naming(d, x) <=> i \in Naming(d, y)
  BY <1>1, <1>2, <1>3, <1>4 DEF Naming
<1>6. Naming(d, x) \subseteq Indices /\ Naming(d, y) \subseteq Indices
  BY DEF Naming
<1>7. Naming(d, x) = Naming(d, y)
  BY <1>5, <1>6
<1>8. \A i \in Naming(d, x) : report[d][i].ok[e] = report[d][i].ok[f]
  BY <1>3 DEF Naming, Even, Entities
<1> QED BY <1>7, <1>8 DEF x, y

(* The reports that fail a batch, and what register makes of its row, by    *)
(* status, run and count.                                                   *)
Failing(d, b) == {i \in Naming(d, b) : ~ report[d][i].ok[b[1]]}

Left(d, b, row, new) ==
  new = row /\ (row.status = "registered" \/ (b \notin Stranded(d) /\ Naming(d, b) = {}))

Failed(d, b, row, new) ==
  /\ new.status = "failed" /\ new.landed = 0 /\ row.status # "registered"
  /\ b \in Stranded(d) \/ (Naming(d, b) # {} /\ First(Naming(d, b)) \in Failing(d, b))

Landed(d, b, row, new) ==
  /\ new.status = "registered" /\ row.status \in Unregistered
  /\ b \notin Stranded(d) /\ Naming(d, b) # {} /\ First(Naming(d, b)) \notin Failing(d, b)
  /\ new.landed = IF report[d][First(Naming(d, b))].unit.key = NoFile THEN 0 ELSE 1

(* A row is left, failed or registered; the run that holds it stays. *)
LEMMA SettledRows ==
  ASSUME TypeOK, QueueInv, NEW d \in Days, Register(d), NEW b \in BatchIds
  PROVE  /\ registry'[b].run = registry[b].run
         /\ \/ Left(d, b, registry[b], registry'[b])
            \/ Failed(d, b, registry[b], registry'[b])
            \/ Landed(d, b, registry[b], registry'[b])
<1> DEFINE naming == Naming(d, b)
           failing == Failing(d, b)
           row == registry[b]
<1>0. registry'[b] = RegisteredAt(d, b)
  BY DEF Register, RegisterTransaction
<1>1. row \in Rows2
  BY DEF TypeOK, Rows2
<1>2. \A reason : /\ FailedRow(row, reason).run = row.run
                  /\ row.status = "registered" => FailedRow(row, reason) = row
                  /\ row.status # "registered" => /\ FailedRow(row, reason).status = "failed"
                                                  /\ FailedRow(row, reason).landed = 0
  BY <1>1 DEF FailedRow, Rows2, RowType
<1>3. b \in Stranded(d) => row.status \in Unregistered
  BY DEF Stranded
<1>4. CASE b \in Stranded(d)
  BY <1>0, <1>2, <1>3, <1>4 DEF RegisteredAt, Unregistered, Failed
<1>5. CASE b \notin Stranded(d) /\ naming = {}
  BY <1>0, <1>5 DEF RegisteredAt, Left
<1>6. CASE b \notin Stranded(d) /\ naming # {} /\ First(naming) \in failing
  <2>1. registry'[b] = FailedRow(row, report[d][Last(failing)].reason)
    BY <1>0, <1>6 DEF RegisteredAt, Failing
  <2> QED BY <1>2, <1>6, <2>1 DEF Left, Failed
<1>7. CASE b \notin Stranded(d) /\ naming # {} /\ First(naming) \notin failing
  <2>1. First(naming) \in naming
    BY <1>7, EndsOfIndices DEF Naming
  <2>2. b \in Allocated(d) /\ report[d][First(naming)].ok[b[1]]
    BY <1>7, <2>1 DEF Naming, Failing
  <2>3. CanRegister(WrittenRow(row, 0, NONE))
    BY <2>1, <2>2 DEF Register, Refused
  <2>4. row.status \in Unregistered
    BY <1>1, <2>3 DEF CanRegister, WrittenRow, Rows2, RowType, Unregistered
  <2> DEFINE n == IF report[d][First(naming)].unit.key = NoFile THEN 0 ELSE 1
  <2>5. registry'[b] = RegisteredRow(WrittenRow(row, n, NONE))
    BY <1>0, <1>7 DEF RegisteredAt, Failing
  <2>6. \A k : /\ RegisteredRow(WrittenRow(row, k, NONE)).status = "registered"
               /\ RegisteredRow(WrittenRow(row, k, NONE)).run = row.run
               /\ RegisteredRow(WrittenRow(row, k, NONE)).landed = k
    BY <1>1, <2>4 DEF RegisteredRow, WrittenRow, Rows2, RowType
  <2> QED BY <1>7, <2>4, <2>5, <2>6 DEF Landed
<1> QED BY <1>4, <1>5, <1>6, <1>7

(* register settles both batches of a file alike.                           *)
LEMMA RegisterKeepsSiblings ==
  ASSUME TypeOK, QueueInv, UnitInv, SiblingsInStep, NEW d \in Days, Register(d)
  PROVE  SiblingsInStep'
<1> SUFFICES ASSUME NEW s \in Stems, NEW e \in Entities, NEW f \in Entities
             PROVE  /\ registry'[<<e, s[1], s[2]>>].status = registry'[<<f, s[1], s[2]>>].status
                    /\ registry'[<<e, s[1], s[2]>>].run = registry'[<<f, s[1], s[2]>>].run
                    /\ registry'[<<e, s[1], s[2]>>].landed = registry'[<<f, s[1], s[2]>>].landed
  BY StepByEntity DEF InStep
<1> DEFINE x == <<e, s[1], s[2]>>
           y == <<f, s[1], s[2]>>
<1>1. x \in BatchIds /\ y \in BatchIds /\ x[1] = e /\ y[1] = f
  BY DEF Stems, BatchIds
<1>2. /\ registry[x].status = registry[y].status /\ registry[x].run = registry[y].run
      /\ registry[x].landed = registry[y].landed
  BY StepByEntity DEF InStep
<1>3. /\ Naming(d, x) = Naming(d, y)
      /\ \A i \in Naming(d, x) : report[d][i].ok[e] = report[d][i].ok[f]
  BY NamedAlike
<1>4. Failing(d, x) = Failing(d, y)
  BY <1>1, <1>3 DEF Failing
<1>5. x \in Stranded(d) <=> y \in Stranded(d)
  BY <1>1, <1>2, <1>3 DEF Stranded
<1>6. /\ registry'[x].run = registry[x].run /\ registry'[y].run = registry[y].run
      /\ \/ Left(d, x, registry[x], registry'[x])
         \/ Failed(d, x, registry[x], registry'[x])
         \/ Landed(d, x, registry[x], registry'[x])
      /\ \/ Left(d, y, registry[y], registry'[y])
         \/ Failed(d, y, registry[y], registry'[y])
         \/ Landed(d, y, registry[y], registry'[y])
  BY <1>1, SettledRows
<1> HIDE DEF x, y
<1>7. /\ registry'[x].status = registry'[y].status /\ registry'[x].run = registry'[y].run
      /\ registry'[x].landed = registry'[y].landed
  <2>1. CASE Left(d, x, registry[x], registry'[x])
    BY <1>2, <1>3, <1>4, <1>5, <1>6, <2>1 DEF Left, Failed, Landed, Unregistered
  <2>2. CASE Failed(d, x, registry[x], registry'[x])
    BY <1>2, <1>3, <1>4, <1>5, <1>6, <2>2 DEF Left, Failed, Landed, Unregistered
  <2>3. CASE Landed(d, x, registry[x], registry'[x])
    BY <1>2, <1>3, <1>4, <1>5, <1>6, <2>3 DEF Left, Failed, Landed, Unregistered
  <2> QED BY <1>6, <2>1, <2>2, <2>3
<1> QED BY <1>7 DEF x, y

(* register, with its commit and whether or not it then succeeds.           *)
LEMMA RegisterKeeps ==
  ASSUME FeedInv, NEW d \in Days, Register(d) PROVE FeedInv'
<1> USE DEF FeedInv
<1>1. TypeOK' /\ QueueInv'
  BY TypesRegister
<1>2. SiblingsInStep'
  BY RegisterKeepsSiblings
<1>3. UNCHANGED <<sighted, units, queued, report>>
  BY DEF Register
<1>4. ASSUME NEW s \in Stems
      PROVE  DetailRow(s).status # "absent" => (DetailRow(s).status # "absent")'
  <2>1. <<"settlements", s[1], s[2]>> \in BatchIds
    BY DEF Stems, BatchIds, Entities
  <2> QED BY <2>1, SettledRows DEF DetailRow, Left, Failed, Landed
<1>5. \A c \in Contents : sighted[c] \subseteq Stems
  BY DEF TypeOK
<1>6. SightInv'
  BY <1>3, <1>4, <1>5 DEF SightInv
<1>7. \A u \in Units : Sound(u) => Sound(u)'
  BY <1>3, <1>4, UnitsNameBatches DEF Sound, StemOf
<1>8. UnitInv'
  <2>1. \A o \in Days : (units[o] # NONE => \A i \in DOMAIN units[o] : Sound(units[o][i]))'
    <3>1. \A o \in Days : units[o] # NONE => \A i \in DOMAIN units[o] :
            units[o][i] \in Units /\ Sound(units[o][i])
      BY DEF TypeOK, UnitInv
    <3> QED BY <1>3, <1>7, <3>1 DEF Sound, StemOf, DetailRow
  <2>2. \A o \in Days, i \in Indices : (i \in queued[o] => Sound(units[o][i]))'
    <3>1. \A o \in Days, i \in Indices : i \in queued[o] => units[o][i] \in Units /\ Sound(units[o][i])
      BY DEF QueueInv, UnitInv
    <3> QED BY <1>3, <1>7, <3>1 DEF Sound, StemOf, DetailRow
  <2>3. \A o \in Days, i \in Indices :
          (report[o][i] # NONE => Sound(report[o][i].unit) /\ Even(report[o][i]))'
    <3>1. \A o \in Days, i \in Indices : report[o][i] # NONE =>
            report[o][i].unit \in Units /\ Sound(report[o][i].unit) /\ Even(report[o][i])
      BY DEF TypeOK, Reports, UnitInv
    <3> QED BY <1>3, <1>7, <3>1 DEF Sound, StemOf, DetailRow, Even
  <2> QED BY <2>1, <2>2, <2>3 DEF UnitInv
<1>9. BatchHasOneOwner'
  <2> SUFFICES ASSUME NEW s \in Stems,
                      (DetailRow(s).status = "registered" /\ DetailRow(s).landed = 0)',
                      NEW c \in Contents, s \in sighted[c]
               PROVE  FALSE
    BY <1>3 DEF BatchHasOneOwner
  <2> DEFINE b == <<"settlements", s[1], s[2]>>
             u == report[d][First(Naming(d, b))].unit
  <2>1. b \in BatchIds /\ s = <<s[1], s[2]>> /\ b[1] = "settlements"
    BY DEF Stems, BatchIds, Entities
  <2>2. registry'[b] # registry[b]
    BY DEF BatchHasOneOwner, DetailRow
  <2>3. Naming(d, b) # {} /\ u.key = NoFile
    BY <2>1, <2>2, SettledRows DEF DetailRow, Left, Failed, Landed
  <2>4. First(Naming(d, b)) \in Naming(d, b)
    BY <2>3, EndsOfIndices DEF Naming
  <2>5. Sound(u) /\ BatchOf(u, "settlements") = b
    BY <2>1, <2>4 DEF Naming, UnitInv
  <2>6. StemOf(u) = s
    BY <2>1, <2>5 DEF BatchOf, StemOf
  <2> QED BY <2>3, <2>5, <2>6 DEF Sound
<1> QED BY <1>1, <1>2, <1>6, <1>8, <1>9
-----------------------------------------------------------------------------
(***************************************************************************)
(* The invariant.                                                          *)
(***************************************************************************)
(* The invariant holds at the start.                                        *)
LEMMA FeedAtFirst == Init => FeedInv
<1> SUFFICES ASSUME Init PROVE FeedInv
  OBVIOUS
<1>1. TypeOK /\ QueueInv
  BY TypesAtFirst
<1>2. SightInv
  BY DEF Init, SightInv
<1>3. UnitInv
  BY DEF Init, UnitInv
<1>4. BatchHasOneOwner
  BY DEF Init, BatchHasOneOwner, DetailRow, Stems, BatchIds, Entities, AbsentRow
<1>5. InStep(registry)
  BY DEF Init, InStep, Stems, BatchIds
<1> QED BY <1>1, <1>2, <1>3, <1>4, <1>5, StepByEntity DEF FeedInv

(* What leaves the tables, and neither extends an allocation nor a queue,   *)
(* keeps the invariant but for its types.                                   *)
LEMMA TablesKept ==
  ASSUME FeedInv, UNCHANGED <<registry, sighted>>,
         \A o \in Days : units'[o] = units[o] \/ (units'[o] = NONE /\ queued'[o] = {}),
         \A o \in Days : queued'[o] \subseteq queued[o],
         \A o \in Days, i \in Indices :
           \/ report'[o][i] = report[o][i] \/ report'[o][i] = NONE
           \/ Sound(report'[o][i].unit) /\ Even(report'[o][i])
  PROVE  SightInv' /\ UnitInv' /\ BatchHasOneOwner' /\ SiblingsInStep'
<1> USE DEF FeedInv
<1>1. SightInv' /\ BatchHasOneOwner'
  BY DEF SightInv, BatchHasOneOwner, DetailRow
<1>2. SiblingsInStep'
  BY DEF SiblingsInStep, RowsOf
<1>3. UnitInv'
  <2>1. \A o \in Days : (units[o] # NONE => \A i \in DOMAIN units[o] : Sound(units[o][i]))'
    BY DEF UnitInv, Sound, StemOf, DetailRow
  <2>2. \A o \in Days, i \in Indices : (i \in queued[o] => Sound(units[o][i]))'
    BY DEF UnitInv, Sound, StemOf, DetailRow
  <2>3. \A o \in Days, i \in Indices :
          (report[o][i] # NONE => Sound(report[o][i].unit) /\ Even(report[o][i]))'
    <3> TAKE o \in Days, i \in Indices
    <3>1. \A u : Sound(u) => Sound(u)'
      BY DEF Sound, StemOf, DetailRow
    <3>2. report'[o][i] # NONE => Sound(report'[o][i].unit) /\ Even(report'[o][i])
      BY DEF UnitInv
    <3> QED BY <3>1, <3>2 DEF Sound, Even, StemOf, DetailRow
  <2> QED BY <2>1, <2>2, <2>3 DEF UnitInv
<1> QED BY <1>1, <1>2, <1>3

(* And every step keeps it.                                                 *)
LEMMA FeedStep == FeedInv /\ [Next]_vars => FeedInv'
<1> SUFFICES ASSUME FeedInv, [Next]_vars PROVE FeedInv'
  OBVIOUS
<1> USE DEF FeedInv
<1>1. CASE SenderStep
  <2>1. TypeOK' /\ QueueInv'
    BY <1>1, TypesSend
  <2>2. UNCHANGED <<registry, sighted, units, queued, report>>
    BY <1>1 DEF SenderStep, Deliver, Bump, warehouse
  <2>3. SightInv' /\ UnitInv' /\ BatchHasOneOwner' /\ SiblingsInStep'
    BY <2>2, TablesKept
  <2> QED BY <2>1, <2>3
<1>2. ASSUME NEW d \in Days, Walks(d) PROVE FeedInv'
  <2>1. TypeOK' /\ QueueInv'
    BY <1>2, TypesWalk
  <2>2. UNCHANGED <<registry, sighted, queued, report>>
    BY <1>2 DEF Walks, Start, Sense, Discover, UpstreamFails, OpenGivesUp, RegisterGivesUp, Gate,
                warehouse
  <2>3. \A o \in Days : units'[o] = units[o] \/ (units'[o] = NONE /\ queued'[o] = {})
    <3>1. CASE OpenGivesUp(d)
      <4>1. queued[d] = {}
        BY <3>1 DEF OpenGivesUp, QueueInv
      <4>2. units' = [units EXCEPT ![d] = NONE]
        BY <3>1 DEF OpenGivesUp
      <4> QED BY <2>2, <4>1, <4>2 DEF TypeOK
    <3>2. CASE ~ OpenGivesUp(d)
      BY <1>2, <3>2 DEF Walks, Start, Sense, Discover, UpstreamFails, RegisterGivesUp, Gate
    <3> QED BY <3>1, <3>2
  <2>4. SightInv' /\ UnitInv' /\ BatchHasOneOwner' /\ SiblingsInStep'
    BY <2>2, <2>3, TablesKept
  <2> QED BY <2>1, <2>4
<1>3. ASSUME NEW d \in Days, NEW i \in Indices, Extract(d, i) \/ ExtractGivesUp(d, i) PROVE FeedInv'
  <2>1. /\ TypeOK' /\ QueueInv'
        /\ i \in queued[d] /\ \A o \in Days : queued'[o] \subseteq queued[o]
        /\ \A o \in Days, j \in Indices :
             \/ report'[o][j] = report[o][j] \/ report'[o][j] = NONE
             \/ o = d /\ j = i /\ report'[o][j].unit = units[d][i] /\ Even(report'[o][j])
    BY <1>3, TypesExtract
  <2>2. UNCHANGED <<registry, sighted, units>>
    BY <1>3 DEF Extract, ExtractGivesUp, warehouse
  <2>3. Sound(units[d][i])
    BY <2>1 DEF UnitInv
  <2>4. \A o \in Days, j \in Indices :
          \/ report'[o][j] = report[o][j] \/ report'[o][j] = NONE
          \/ Sound(report'[o][j].unit) /\ Even(report'[o][j])
    BY <2>1, <2>3
  <2>5. SightInv' /\ UnitInv' /\ BatchHasOneOwner' /\ SiblingsInStep'
    BY <2>1, <2>2, <2>4, TablesKept
  <2> QED BY <2>1, <2>5
<1>4. ASSUME NEW d \in Days, OpenBatches(d) PROVE FeedInv'
  BY <1>4, OpenKeeps
<1>5. ASSUME NEW d \in Days, Register(d) PROVE FeedInv'
  BY <1>5, RegisterKeeps
<1>6. CASE UNCHANGED vars
  <2>1. TypeOK' /\ QueueInv'
    BY <1>6 DEF vars, TypeOK, QueueInv
  <2>2. UNCHANGED <<registry, sighted, units, queued, report>>
    BY <1>6 DEF vars
  <2>3. SightInv' /\ UnitInv' /\ BatchHasOneOwner' /\ SiblingsInStep'
    BY <2>2, TablesKept
  <2> QED BY <2>1, <2>3
<1>7. CASE \E d \in Days : RunStep(d)
  BY <1>2, <1>3, <1>4, <1>5, <1>7 DEF RunStep, Walks
<1> QED BY <1>1, <1>6, <1>7 DEF Next

(* Every variable keeps its type, whatever is delivered and however runs    *)
(* are interrupted, cleared and interleaved.                                *)
THEOREM FeedTypesAreRight == Spec => []TypeOK
<1>1. FeedInv => TypeOK
  BY DEF FeedInv
<1> QED BY FeedAtFirst, FeedStep, <1>1, PTL DEF Spec

(* No batch is ever allocated to two deliveries, and the batch that says a  *)
(* day had nothing was never a delivery's: for any number of days, names,   *)
(* contents and sequences, and with runs of several days at once.           *)
THEOREM BatchesHaveOneOwner == Spec => []BatchHasOneOwner
<1>1. FeedInv => BatchHasOneOwner
  BY DEF FeedInv
<1> QED BY FeedAtFirst, FeedStep, <1>1, PTL DEF Spec

(* The two batches of a file stay in step, in status, run and count: no     *)
(* file is half loaded, even when their reports come from other tries.      *)
THEOREM SiblingsStayInStep == Spec => []SiblingsInStep
<1>1. FeedInv => SiblingsInStep
  BY DEF FeedInv
<1> QED BY FeedAtFirst, FeedStep, <1>1, PTL DEF Spec

-----------------------------------------------------------------------------
(***************************************************************************)
(* What the feed lands.  The first part is again for runs in any order,    *)
(* several at once: a delivery lands once, a registered batch is final,    *)
(* and a day whose run succeeded is accounted for.  Its invariant gives    *)
(* each batch to one delivery and each delivery at most one unfinished     *)
(* batch, and says so of what the XComs of earlier tries still name.  The  *)
(* second part is for runs that take turns, and says what a run's success  *)
(* means and that two files which declare the same never both land.        *)
(***************************************************************************)
(* The object of batch s of an entity. *)
ObjectOf(e, s) == lake[<<e, s[1], s[2]>>]

(* An object is put for a delivery the batch was allocated to.              *)
ObjectInv ==
  \A e \in Entities, s \in Stems, c \in Contents : ObjectOf(e, s) = c => s \in sighted[c]

(* What is recorded as landed landed, in a batch of its own.                *)
FileInv ==
  \A c \in Contents, s \in Stems : files[c] = s =>
    /\ s \in sighted[c] /\ DetailRow(s).status = "registered" /\ DetailRow(s).landed = 1
    /\ \A e \in Entities : ObjectOf(e, s) = c

(* A delivery's registered batch is the one recorded for it, at most one    *)
(* batch of a delivery is unfinished, and none of one that landed.          *)
OwnInv ==
  \A c \in Contents, s \in Stems : s \in sighted[c] =>
    /\ DetailRow(s).status = "registered" => files[c] = s
    /\ DetailRow(s).status \in Unregistered => files[c] = NONE

OneOpenInv ==
  \A c \in Contents, s, t \in Stems :
    /\ s \in sighted[c] /\ t \in sighted[c]
    /\ DetailRow(s).status \in Unregistered /\ DetailRow(t).status \in Unregistered
    => s = t

(* A unit for a delivery names a batch allocated to it. *)
Owned(u) ==
  /\ u.key = NoFile => u.content = NONE
  /\ u.key # NoFile => u.content \in Contents /\ StemOf(u) \in sighted[u.content]

(* A report that a file landed speaks of two objects that hold it. *)
Held(r) ==
  r.ok["settlements"] /\ r.unit.key # NoFile =>
    \A e \in Entities : ObjectOf(e, StemOf(r.unit)) = r.unit.content

(* Stale units and reports among them.                                      *)
ClaimInv ==
  /\ \A d \in Days : units[d] # NONE => \A i \in DOMAIN units[d] : Owned(units[d][i])
  /\ \A d \in Days, i \in Indices : i \in queued[d] => Owned(units[d][i])
  /\ \A d \in Days, i \in Indices :
       report[d][i] # NONE => Owned(report[d][i].unit) /\ Held(report[d][i])

LandInv == FeedInv /\ ObjectInv /\ FileInv /\ OwnInv /\ OneOpenInv /\ ClaimInv

(* The batch of a stem. *)
LEMMA DetailBatch ==
  ASSUME NEW s \in Stems
  PROVE  /\ <<"settlements", s[1], s[2]>> \in BatchIds /\ s = <<s[1], s[2]>>
         /\ \A e \in Entities : <<e, s[1], s[2]>> \in BatchIds
BY DEF Stems, BatchIds, Entities

(* What a slot picks was unfinished or absent in the registry itself: no    *)
(* earlier slot of the run can have taken a batch this one may reuse.       *)
LEMMA PickedWasFree ==
  ASSUME FeedInv, NEW d \in Days, seen[d] \in Listings, NEW pick, Choice(d, pick),
         OpenTransaction(d, pick), NEW s \in Slots(d)
  PROVE  /\ <<Interval(d, s), pick[s]["settlements"]>> \in Stems
         /\ DetailRow(<<Interval(d, s), pick[s]["settlements"]>>).status \in Unregistered \cup {"absent"}
<1> USE DEF FeedInv
<1> DEFINE rows == RowsAt(d, s, "settlements", pick)
           n == pick[s]["settlements"]
           t == <<Interval(d, s), n>>
<1>1. /\ n \in Sequences /\ DOMAIN rows = Sequences
      /\ ChosenSequence(rows, MayReuse(d, s), n) /\ t \in Stems
  <2>1. "settlements" \in Entities /\ Interval(d, s) \in Days
    BY SlotsOfListing DEF Entities
  <2> QED BY <2>1 DEF Choice, RowsAt, Stems
<1>2. (rows[n].status \in Unregistered /\ n \in MayReuse(d, s)) \/ rows[n].status = "absent"
  <2> HIDE DEF rows, n
  <2> QED BY <1>1, ChosenIsFree DEF Unregistered
<1>3. AllocatedRow(AbsentRow(1), 1, NONE, d).status = "open"
  BY DEF AllocatedRow, AbsentRow
<1>4. rows[n] = IF \E j \in Slots(d) :
                     Before(j, s) /\ Interval(d, j) = Interval(d, s) /\ pick[j]["settlements"] = n
                THEN AllocatedRow(AbsentRow(1), 1, NONE, d)
                ELSE registry[<<"settlements", Interval(d, s), n>>]
  BY <1>1 DEF RowsAt
<1>5. CASE rows[n] = registry[<<"settlements", Interval(d, s), n>>]
  BY <1>1, <1>2, <1>5 DEF DetailRow
<1>6. CASE rows[n] # registry[<<"settlements", Interval(d, s), n>>]
  <2>1. PICK j \in Slots(d) :
          Before(j, s) /\ Interval(d, j) = Interval(d, s) /\ pick[j]["settlements"] = n
    BY <1>4, <1>6
  <2>2. n \in MayReuse(d, s)
    BY <1>2, <1>3, <1>4, <2>1
  <2>3. j \in Admitted(d) /\ j \in Nat
    BY <2>1, SlotsOfListing DEF Before
  <2>4. s # NoFile
    BY <2>1, <2>3, SlotsOfListing
  <2>5. s \in Admitted(d) /\ s \in Nat /\ j < s
    BY <2>1, <2>3, <2>4, SlotsOfListing DEF Before
  <2>6. seen[d][j] # seen[d][s] /\ seen[d][j] \in Contents /\ seen[d][s] \in Contents
    BY <2>3, <2>5, SlotsOfListing DEF Admitted
  <2>7. t \in sighted[seen[d][s]]
    BY <2>2, <2>4 DEF MayReuse, SightedOf
  <2>8. t \in sighted'[seen[d][s]] /\ t \in sighted'[seen[d][j]]
    <3>1. t = <<DateOf[seen[d][j]], pick[j]["settlements"]>>
      BY <2>1, <2>3, SlotsOfListing
    <3> QED BY <2>3, <2>6, <2>7, <3>1 DEF OpenTransaction
  <2>9. BatchHasOneOwner'
    BY OpenKeepsOwners
  <2> QED BY <2>6, <2>8, <2>9 DEF BatchHasOneOwner
<1> QED BY <1>5, <1>6

(* What open leaves Unregistered it left alone, or opened for the one       *)
(* delivery of the run it is allocated to.                                  *)
LEMMA OpenedIsOwned ==
  ASSUME FeedInv, NEW d \in Days, seen[d] \in Listings, NEW pick, Choice(d, pick),
         OpenTransaction(d, pick), NEW s \in Stems
  PROVE  /\ DetailRow(s).status = "registered" => \A e \in Entities :
              registry'[<<e, s[1], s[2]>>] = registry[<<e, s[1], s[2]>>]
         /\ \/ DetailRow(s)' = DetailRow(s)
            \/ /\ DetailRow(s)'.status = "open" /\ DetailRow(s).status \in Unregistered \cup {"absent"}
               /\ \/ \A c \in Contents : s \notin sighted'[c]
                  \/ \E k \in Admitted(d) : /\ s = <<Interval(d, k), pick[k]["settlements"]>>
                                            /\ \A c \in Contents : s \in sighted'[c] => c = seen[d][k]
<1> USE DEF FeedInv
<1> DEFINE Of(q) == s = <<Interval(d, q), pick[q]["settlements"]>>
<1>1. \A e \in Entities, q \in Slots(d) : pick[q][e] = pick[q]["settlements"]
  BY PicksAlike DEF Entities
<1>2. ASSUME NEW e \in Entities, registry'[<<e, s[1], s[2]>>] # registry[<<e, s[1], s[2]>>]
      PROVE  /\ \E q \in Slots(d) : Of(q)
             /\ registry'[<<e, s[1], s[2]>>].status = "open"
  <2> DEFINE b == <<e, s[1], s[2]>>
  <2>1. b \in BatchIds /\ b[1] = e /\ s = <<s[1], s[2]>>
    BY DetailBatch
  <2>2. /\ registry'[b].status = "open"
        /\ \E q \in Slots(d) : b = <<b[1], Interval(d, q), pick[q][b[1]]>>
    BY <1>2, <2>1, OpenedRows
  <2> QED BY <1>1, <2>1, <2>2
<1>3. ASSUME NEW q \in Slots(d), Of(q)
      PROVE  DetailRow(s).status \in Unregistered \cup {"absent"}
  BY <1>3, PickedWasFree
<1>4. DetailRow(s).status = "registered" => \A e \in Entities :
        registry'[<<e, s[1], s[2]>>] = registry[<<e, s[1], s[2]>>]
  BY <1>2, <1>3 DEF Unregistered
<1>5. ASSUME DetailRow(s)' # DetailRow(s)
      PROVE  /\ DetailRow(s)'.status = "open" /\ DetailRow(s).status \in Unregistered \cup {"absent"}
             /\ \/ \A c \in Contents : s \notin sighted'[c]
                \/ \E k \in Admitted(d) : /\ Of(k)
                                          /\ \A c \in Contents : s \in sighted'[c] => c = seen[d][k]
  <2>0. "settlements" \in Entities
    BY DEF Entities
  <2>1. PICK q \in Slots(d) : Of(q)
    BY <1>2, <1>5, <2>0 DEF DetailRow
  <2>2. DetailRow(s)'.status = "open"
    BY <1>2, <1>5, <2>0 DEF DetailRow
  <2>3. DetailRow(s).status \in Unregistered \cup {"absent"}
    BY <1>3, <2>1
  <2>4. CASE q = NoFile
    <3>0. PICK u \in Units : u = UnitOf(d, q, pick)
      BY UnitsOfSlots
    <3>1. u.key = q /\ StemOf(u) = s
      BY <2>1, <3>0 DEF UnitOf, StemOf
    <3>2. Sound(u)'
      BY <3>0, OpenKeepsSound
    <3>3. \A c \in Contents : s \notin sighted'[c]
      BY <2>4, <3>1, <3>2 DEF Sound, StemOf
    <3> QED BY <2>2, <2>3, <3>3
  <2>5. CASE q # NoFile
    <3>1. q \in Admitted(d) /\ seen[d][q] \in Contents /\ Interval(d, q) = DateOf[seen[d][q]]
      BY <2>5, SlotsOfListing
    <3>2. s \in sighted'[seen[d][q]]
      BY <2>1, <3>1 DEF OpenTransaction
    <3>3. \A c \in Contents : s \in sighted'[c] => c = seen[d][q]
      BY <3>1, <3>2, OpenKeepsOwners DEF BatchHasOneOwner
    <3> QED BY <2>1, <2>2, <2>3, <3>1, <3>3
  <2> QED BY <2>4, <2>5
<1> QED BY <1>4, <1>5

(* The one batch a delivery is given is the unfinished one it had.          *)
LEMMA OpensItsOwn ==
  ASSUME FeedInv, OneOpenInv, NEW d \in Days, seen[d] \in Listings, NEW pick, Choice(d, pick),
         OpenTransaction(d, pick), NEW k \in Admitted(d),
         NEW t \in sighted[seen[d][k]], DetailRow(t).status \in Unregistered
  PROVE  t = <<Interval(d, k), pick[k]["settlements"]>>
<1> USE DEF FeedInv
<1> DEFINE c == seen[d][k]
           n == pick[k]["settlements"]
           s == <<Interval(d, k), n>>
           rows == RowsAt(d, k, "settlements", pick)
<1>1. /\ c \in Contents /\ k # NoFile /\ Interval(d, k) = DateOf[c] /\ k \in Slots(d)
      /\ "settlements" \in Entities
  BY SlotsOfListing DEF Slots, Entities
<1>2. t \in Stems /\ t = <<Interval(d, k), t[2]>> /\ t[2] \in Sequences
  <2>1. t \in Stems /\ t[1] = DateOf[c]
    BY <1>1 DEF SightInv, TypeOK
  <2> QED BY <1>1, <2>1 DEF Stems
<1>3. n \in Sequences /\ DOMAIN rows = Sequences /\ ChosenSequence(rows, MayReuse(d, k), n)
  BY <1>1 DEF Choice, RowsAt
<1>4. t[2] \in MayReuse(d, k)
  BY <1>1, <1>2 DEF MayReuse, SightedOf
<1>5. rows[t[2]].status \in Unregistered
  <2>1. AllocatedRow(AbsentRow(1), 1, NONE, d).status = "open"
    BY DEF AllocatedRow, AbsentRow
  <2>2. registry[<<"settlements", Interval(d, k), t[2]>>].status \in Unregistered
    BY <1>2 DEF DetailRow
  <2> QED BY <1>2, <2>1, <2>2 DEF RowsAt, Unregistered
<1>6. n \in MayReuse(d, k)
  <2>1. t[2] \in Reusable(rows, MayReuse(d, k))
    BY <1>2, <1>3, <1>4, <1>5 DEF Reusable, Taken, Unregistered
  <2> HIDE DEF n, rows
  <2>2. n \in Reusable(rows, MayReuse(d, k))
    BY <1>3, <2>1 DEF ChosenSequence, IsGreatest
  <2> QED BY <2>2 DEF Reusable
<1>7. s \in sighted[c]
  BY <1>1, <1>6 DEF MayReuse, SightedOf
<1>8. s \in Stems /\ DetailRow(s).status \in Unregistered
  BY <1>1, <1>7, PickedWasFree DEF SightInv
<1> QED BY <1>1, <1>2, <1>7, <1>8 DEF OneOpenInv

(* open keeps what landed, and who owns what.                               *)
LEMMA OpenKeepsLanded ==
  ASSUME LandInv, NEW d \in Days, seen[d] \in Listings, NEW pick, Choice(d, pick),
         OpenTransaction(d, pick), UNCHANGED <<files, lake>>
  PROVE  ObjectInv' /\ FileInv' /\ OwnInv' /\ OneOpenInv'
<1> USE DEF LandInv, FeedInv
<1>1. \A c \in Contents : sighted[c] \subseteq sighted'[c]
  BY DEF OpenTransaction
<1>2. ObjectInv'
  BY <1>1 DEF ObjectInv, ObjectOf
<1>3. FileInv'
  <2> SUFFICES ASSUME NEW c \in Contents, NEW s \in Stems, files[c] = s
               PROVE  /\ s \in sighted'[c] /\ DetailRow(s)'.status = "registered"
                      /\ DetailRow(s)'.landed = 1
                      /\ \A e \in Entities : ObjectOf(e, s) = c
    BY DEF FileInv, ObjectOf, DetailRow
  <2>1. /\ s \in sighted[c] /\ DetailRow(s).status = "registered" /\ DetailRow(s).landed = 1
        /\ \A e \in Entities : ObjectOf(e, s) = c
    BY DEF FileInv
  <2>2. DetailRow(s)' = DetailRow(s)
    BY <2>1, OpenedIsOwned DEF DetailRow, Entities
  <2> QED BY <1>1, <2>1, <2>2
<1>4. ASSUME NEW c \in Contents, NEW s \in Stems, s \in sighted'[c], DetailRow(s)' = DetailRow(s),
             DetailRow(s).status # "absent"
      PROVE  s \in sighted[c]
  BY <1>4, NewSightings
<1>5. OwnInv'
  <2> SUFFICES ASSUME NEW c \in Contents, NEW s \in Stems, s \in sighted'[c]
               PROVE  /\ DetailRow(s)'.status = "registered" => files[c] = s
                      /\ DetailRow(s)'.status \in Unregistered => files[c] = NONE
    BY DEF OwnInv, DetailRow
  <2>1. CASE DetailRow(s)' = DetailRow(s)
    BY <1>4, <2>1 DEF OwnInv, Unregistered
  <2>2. CASE DetailRow(s)' # DetailRow(s)
    <3>1. PICK k \in Admitted(d) : c = seen[d][k]
      BY <2>2, OpenedIsOwned
    <3>2. files[c] = NONE /\ DetailRow(s)'.status = "open"
      BY <2>2, <3>1, OpenedIsOwned DEF Admitted
    <3> QED BY <3>2
  <2> QED BY <2>1, <2>2
<1>6. OneOpenInv'
  <2> SUFFICES ASSUME NEW c \in Contents, NEW s \in Stems, NEW t \in Stems,
                      s \in sighted'[c], t \in sighted'[c],
                      DetailRow(s)'.status \in Unregistered, DetailRow(t)'.status \in Unregistered
               PROVE  s = t
    BY DEF OneOpenInv, DetailRow
  <2>1. ASSUME NEW q \in Stems, NEW r \in Stems, q \in sighted'[c], r \in sighted'[c],
               DetailRow(q)' # DetailRow(q), DetailRow(r)'.status \in Unregistered
        PROVE  q = r
    <3>1. PICK k \in Admitted(d) : /\ q = <<Interval(d, k), pick[k]["settlements"]>>
                                   /\ c = seen[d][k]
      BY <2>1, OpenedIsOwned
    <3>2. CASE DetailRow(r)' = DetailRow(r)
      <4>1. r \in sighted[c] /\ DetailRow(r).status \in Unregistered
        BY <1>4, <2>1, <3>2 DEF Unregistered
      <4> QED BY <3>1, <4>1, OpensItsOwn
    <3>3. CASE DetailRow(r)' # DetailRow(r)
      <4>1. PICK j \in Admitted(d) : /\ r = <<Interval(d, j), pick[j]["settlements"]>>
                                     /\ c = seen[d][j]
        BY <2>1, <3>3, OpenedIsOwned
      <4>2. j = k
        <5>1. j \in Keys /\ k \in Keys /\ j \in Nat /\ k \in Nat
          BY SlotsOfListing
        <5>2. \A x, y \in Admitted(d) : x < y => seen[d][x] # seen[d][y]
          BY DEF Admitted
        <5>3. ~ (j < k) /\ ~ (k < j)
          BY <3>1, <4>1, <5>2
        <5> QED BY <5>1, <5>3
      <4> QED BY <3>1, <4>1, <4>2
    <3> QED BY <3>2, <3>3
  <2>2. CASE DetailRow(s)' # DetailRow(s)
    BY <2>1, <2>2
  <2>3. CASE DetailRow(t)' # DetailRow(t)
    BY <2>1, <2>3
  <2>4. CASE DetailRow(s)' = DetailRow(s) /\ DetailRow(t)' = DetailRow(t)
    BY <1>4, <2>4 DEF OneOpenInv, Unregistered
  <2> QED BY <2>2, <2>3, <2>4
<1> QED BY <1>2, <1>3, <1>5, <1>6

(* The units of open name batches allocated to what they deliver.           *)
LEMMA OpenKeepsOwned ==
  ASSUME FeedInv, NEW d \in Days, seen[d] \in Listings, NEW pick, Choice(d, pick),
         OpenTransaction(d, pick)
  PROVE  /\ \A u : Owned(u) => Owned(u)'
         /\ \A s \in Slots(d) : \A u : u = UnitOf(d, s, pick) => Owned(u)'
<1> USE DEF FeedInv
<1>1. \A u : Owned(u) => Owned(u)'
  BY DEF OpenTransaction, Owned, StemOf
<1>2. ASSUME NEW s \in Slots(d), NEW u, u = UnitOf(d, s, pick)
      PROVE  Owned(u)'
  <2>1. /\ u.key = s /\ u.content = IF s = NoFile THEN NONE ELSE seen[d][s]
        /\ u.day = Interval(d, s) /\ u.seq = pick[s]
    BY <1>2 DEF UnitOf
  <2>2. CASE s = NoFile
    BY <2>1, <2>2 DEF Owned
  <2>3. CASE s # NoFile
    <3>1. s \in Admitted(d) /\ seen[d][s] \in Contents /\ Interval(d, s) = DateOf[seen[d][s]]
      BY <2>3, SlotsOfListing
    <3>2. <<Interval(d, s), pick[s]["settlements"]>> \in sighted'[seen[d][s]]
      BY <3>1 DEF OpenTransaction
    <3> QED BY <2>1, <2>3, <3>1, <3>2 DEF Owned, StemOf
  <2> QED BY <2>2, <2>3
<1> QED BY <1>1, <1>2

(* A report that lands a file names the unfinished batch of it, the first   *)
(* report to name it, and both its objects hold the file.                   *)
LEMMA LandingReport ==
  ASSUME LandInv, NEW d \in Days, Register(d), NEW c \in Contents, NEW i \in Landing(d, c),
         NEW s, s = StemOf(report[d][i].unit)
  PROVE  /\ s \in Stems /\ s \in sighted[c] /\ DetailRow(s).status \in Unregistered
         /\ DetailRow(s)'.status = "registered" /\ DetailRow(s)'.landed = 1
         /\ \A e \in Entities : ObjectOf(e, s) = c
<1> USE DEF LandInv, FeedInv
<1> DEFINE r == report[d][i]
           b == <<"settlements", s[1], s[2]>>
<1>1. PICK q \in Stems : i \in Naming(d, <<"settlements", q[1], q[2]>>)
  BY DEF Landing, Current
<1>2. r.unit.content = c /\ r.ok["settlements"]
  BY DEF Landing
<1>3. /\ i \in Indices /\ r # NONE /\ r \in Reports /\ r.unit \in Units
      /\ <<"settlements", q[1], q[2]>> \in Allocated(d)
      /\ BatchOf(r.unit, "settlements") = <<"settlements", q[1], q[2]>>
  BY <1>1 DEF Naming, TypeOK, Reports
<1>4. q = s
  BY <1>3 DEF BatchOf, StemOf, Stems
<1>5. b \in BatchIds /\ b[1] = "settlements" /\ b \in Allocated(d) /\ i \in Naming(d, b)
  BY <1>1, <1>3, <1>4, DetailBatch
<1>6. r.unit.key # NoFile /\ s \in sighted[c]
  BY <1>2, <1>3, NoneAssumption DEF ClaimInv, Owned
<1>7. \A e \in Entities : ObjectOf(e, s) = c
  BY <1>2, <1>3, <1>6 DEF ClaimInv, Held
<1>8. /\ CanRegister(WrittenRow(registry[b], 0, NONE))
      /\ \A j \in Naming(d, b) : ~ (j < i)
  BY <1>2, <1>5 DEF Register, Refused
<1>9. First(Naming(d, b)) = i
  <2>1. Naming(d, b) \subseteq Indices /\ Naming(d, b) # {}
    BY <1>5 DEF Naming
  <2>2. First(Naming(d, b)) \in Naming(d, b)
    BY <2>1, EndsOfIndices
  <2>3. \A j, k \in Indices : ~ (j < k) => k <= j
    BY FeedAssumption DEF Indices
  <2>4. \A j \in Naming(d, b) : i <= j
    BY <1>3, <1>8, <2>1, <2>3
  <2>5. \A j \in Naming(d, b) : (\A k \in Naming(d, b) : j <= k) => j = i
    <3>1. \A j, k \in Indices : j <= k /\ k <= j => j = k
      BY FeedAssumption DEF Indices
    <3> QED BY <1>5, <2>1, <2>4, <3>1
  <2> QED BY <1>5, <2>4, <2>5 DEF First
<1>10. registry[b].status \in Unregistered
  <2>1. registry[b] \in Rows2
    BY <1>5 DEF TypeOK, Rows2
  <2> QED BY <1>8, <2>1 DEF CanRegister, WrittenRow, Rows2, RowType, Unregistered
<1>11. /\ \/ Left(d, b, registry[b], registry'[b])
          \/ Failed(d, b, registry[b], registry'[b])
          \/ Landed(d, b, registry[b], registry'[b])
  BY <1>5, SettledRows
<1>12. i \notin Failing(d, b)
  BY <1>2, <1>5 DEF Failing
<1>13. ~ Left(d, b, registry[b], registry'[b])
  BY <1>5, <1>10 DEF Left, Unregistered
<1>14. ~ Failed(d, b, registry[b], registry'[b])
  BY <1>5, <1>9, <1>12 DEF Failed, Stranded
<1>15. registry'[b].status = "registered" /\ registry'[b].landed = 1
  BY <1>6, <1>9, <1>11, <1>13, <1>14 DEF Landed
<1>16. s \in Stems
  BY <1>4
<1> QED BY <1>6, <1>7, <1>10, <1>15, <1>16 DEF DetailRow

(* What register registers for a delivery it has a landing report of.       *)
LEMMA LandedIsLanding ==
  ASSUME LandInv, NEW d \in Days, Register(d), NEW c \in Contents, NEW s \in sighted[c],
         DetailRow(s)'.status = "registered", DetailRow(s).status # "registered"
  PROVE  \E i \in Landing(d, c) : StemOf(report[d][i].unit) = s
<1> USE DEF LandInv, FeedInv
<1> DEFINE b == <<"settlements", s[1], s[2]>>
<1>1. s \in Stems
  BY DEF TypeOK
<1>2. b \in BatchIds /\ s = <<s[1], s[2]>> /\ b[1] = "settlements"
  BY <1>1, DetailBatch
<1>3. Landed(d, b, registry[b], registry'[b])
  BY <1>2, SettledRows DEF DetailRow, Left, Failed
<1>4. First(Naming(d, b)) \in Naming(d, b) \ Failing(d, b)
  <2>1. Naming(d, b) # {} /\ First(Naming(d, b)) \notin Failing(d, b)
    BY <1>3 DEF Landed
  <2> QED BY <2>1, EndsOfIndices DEF Naming
<1>5. PICK i \in Naming(d, b) : i \notin Failing(d, b)
  BY <1>4
<1> DEFINE r == report[d][i]
<1>6. /\ r.ok["settlements"] /\ r \in Reports /\ r # NONE /\ i \in Indices
      /\ BatchOf(r.unit, "settlements") = b
  BY <1>2, <1>5 DEF Naming, Failing, TypeOK
<1>7. StemOf(r.unit) = s
  BY <1>2, <1>6 DEF BatchOf, StemOf
<1>8. Sound(r.unit) /\ Owned(r.unit)
  BY <1>6 DEF UnitInv, ClaimInv
<1>9. r.unit.key # NoFile
  BY <1>7, <1>8 DEF Sound
<1>10. r.unit.content = c
  <2>1. r.unit.content \in Contents /\ s \in sighted[r.unit.content]
    BY <1>7, <1>8, <1>9 DEF Owned
  <2> QED BY <2>1 DEF BatchHasOneOwner
<1>11. i \in Current(d)
  BY <1>1, <1>5 DEF Current
<1> QED BY <1>6, <1>7, <1>10, <1>11 DEF Landing

(* register records what it lands, where it landed.                         *)
LEMMA RegisterKeepsLanded ==
  ASSUME LandInv, NEW d \in Days, Register(d)
  PROVE  ObjectInv' /\ FileInv' /\ OwnInv' /\ OneOpenInv'
<1> USE DEF LandInv, FeedInv
<1>1. UNCHANGED <<sighted, lake, report, units>> /\ files' = Recorded(d)
  BY DEF Register, RegisterTransaction
<1>2. ObjectInv'
  BY <1>1 DEF ObjectInv, ObjectOf
<1>3. ASSUME NEW c \in Contents, Landing(d, c) # {}
      PROVE  First(Landing(d, c)) \in Landing(d, c)
  <2>1. Landing(d, c) \subseteq Indices
    BY DEF Landing, Current, Naming
  <2> QED BY <1>3, <2>1, EndsOfIndices
<1>4. ASSUME NEW s \in Stems, DetailRow(s).status = "registered"
      PROVE  DetailRow(s)' = DetailRow(s)
  BY <1>4, SettledRows, DetailBatch DEF DetailRow, Left, Failed, Landed, Unregistered
<1>5. ASSUME NEW s \in Stems, DetailRow(s)'.status \in Unregistered
      PROVE  DetailRow(s).status \in Unregistered
  BY <1>5, SettledRows, DetailBatch DEF DetailRow, Left, Failed, Landed, Unregistered
<1>6. FileInv'
  <2> SUFFICES ASSUME NEW c \in Contents, NEW s \in Stems, files'[c] = s
               PROVE  /\ s \in sighted[c] /\ DetailRow(s)'.status = "registered"
                      /\ DetailRow(s)'.landed = 1
                      /\ \A e \in Entities : ObjectOf(e, s) = c
    BY <1>1 DEF FileInv, ObjectOf, DetailRow
  <2>1. CASE files[c] = s
    BY <1>4, <2>1 DEF FileInv
  <2>2. CASE files[c] # s
    <3>1. Landing(d, c) # {} /\ s = StemOf(report[d][First(Landing(d, c))].unit)
      BY <1>1, <2>2 DEF Recorded
    <3> QED BY <1>3, <3>1, LandingReport
  <2> QED BY <2>1, <2>2
<1>7. OwnInv'
  <2> SUFFICES ASSUME NEW c \in Contents, NEW s \in Stems, s \in sighted[c]
               PROVE  /\ DetailRow(s)'.status = "registered" => files'[c] = s
                      /\ DetailRow(s)'.status \in Unregistered => files'[c] = NONE
    BY <1>1 DEF OwnInv, DetailRow
  <2>1. ASSUME DetailRow(s)'.status = "registered" PROVE files'[c] = s
    <3>1. CASE DetailRow(s).status = "registered"
      <4>1. files[c] = s
        BY <3>1 DEF OwnInv
      <4> QED BY <1>1, <4>1, NoneAssumption DEF Recorded
    <3>2. CASE DetailRow(s).status # "registered"
      <4>1. PICK i \in Landing(d, c) : StemOf(report[d][i].unit) = s
        BY <2>1, <3>2, LandedIsLanding
      <4>2. DetailRow(s).status \in Unregistered
        BY <4>1, LandingReport
      <4>3. files[c] = NONE
        BY <4>2 DEF OwnInv
      <4>4. files'[c] = StemOf(report[d][First(Landing(d, c))].unit)
        BY <1>1, <4>1, <4>3 DEF Recorded
      <4>5. /\ files'[c] \in Stems /\ files'[c] \in sighted[c]
            /\ DetailRow(files'[c]).status \in Unregistered
        BY <1>3, <4>1, <4>4, LandingReport
      <4> QED BY <4>2, <4>5 DEF OneOpenInv
    <3> QED BY <3>1, <3>2
  <2>2. ASSUME DetailRow(s)'.status \in Unregistered PROVE files'[c] = NONE
    <3>1. DetailRow(s).status \in Unregistered
      BY <1>5, <2>2
    <3>2. files[c] = NONE
      BY <3>1 DEF OwnInv
    <3>3. ASSUME Landing(d, c) # {} PROVE FALSE
      <4>1. PICK t : t = StemOf(report[d][First(Landing(d, c))].unit)
        OBVIOUS
      <4>2. /\ t \in Stems /\ t \in sighted[c] /\ DetailRow(t).status \in Unregistered
            /\ DetailRow(t)'.status = "registered"
        BY <1>3, <3>3, <4>1, LandingReport
      <4>3. t = s
        BY <3>1, <4>2 DEF OneOpenInv
      <4> QED BY <2>2, <4>2, <4>3 DEF Unregistered
    <3> QED BY <1>1, <3>2, <3>3 DEF Recorded
  <2> QED BY <2>1, <2>2
<1>8. OneOpenInv'
  BY <1>1, <1>5 DEF OneOpenInv, DetailRow
<1> QED BY <1>2, <1>6, <1>7, <1>8

(* An extract puts under a batch what the batch was allocated to, and what  *)
(* was put for it stays.                                                    *)
LEMMA PutsItsOwn ==
  ASSUME LandInv, NEW d \in Days, NEW i \in Indices, Extract(d, i) \/ ExtractGivesUp(d, i)
  PROVE  \A e \in Entities, s \in Stems :
           /\ \/ ObjectOf(e, s)' = ObjectOf(e, s)
              \/ \E c \in Contents : s \in sighted[c] /\ ObjectOf(e, s)' = c
           /\ \A c \in Contents : s \in sighted[c] /\ ObjectOf(e, s) = c => ObjectOf(e, s)' = c
<1> USE DEF LandInv, FeedInv
<1> SUFFICES ASSUME NEW e \in Entities, NEW s \in Stems
             PROVE  \/ ObjectOf(e, s)' = ObjectOf(e, s)
                    \/ \E c \in Contents : s \in sighted[c] /\ ObjectOf(e, s)' = c
  BY DEF BatchHasOneOwner
<1> DEFINE u == units[d][i]
           b == <<e, s[1], s[2]>>
<1>1. i \in queued[d] /\ u \in Units /\ Owned(u) /\ Sound(u)
  BY TypesExtract DEF ClaimInv, UnitInv
<1>2. b \in BatchIds /\ s = <<s[1], s[2]>>
  BY DetailBatch
<1>3. lake' = lake \/ (~ Unread(u) /\ lake' = LakeAfter(u))
  BY DEF Extract, ExtractGivesUp
<1>4. CASE lake' = lake
  BY <1>4 DEF ObjectOf
<1>5. CASE ~ Unread(u) /\ lake' = LakeAfter(u)
  <2>1. u.key # NoFile /\ u.content \in Contents /\ StemOf(u) \in sighted[u.content]
    BY <1>1, <1>5 DEF Unread, Owned
  <2>2. lake'[b] = lake[b] \/ (\E f \in Entities : b = BatchOf(u, f) /\ lake'[b] = u.content)
    BY <1>2, <1>5 DEF LakeAfter
  <2>3. \A f \in Entities : b = BatchOf(u, f) => s = StemOf(u)
    BY <1>1, <1>2 DEF BatchOf, StemOf, Sound, Entities
  <2> QED BY <2>1, <2>2, <2>3 DEF ObjectOf
<1> QED BY <1>3, <1>4, <1>5

(* A report that a file landed is made once both objects are put.           *)
LEMMA ReportsWhatIsPut ==
  ASSUME LandInv, NEW d \in Days, NEW i \in Indices, Extract(d, i) \/ ExtractGivesUp(d, i),
         report'[d][i] # NONE
  PROVE  Held(report[d][i])'
<1> USE DEF LandInv, FeedInv
<1> DEFINE u == units[d][i]
<1>1. i \in queued[d] /\ u \in Units /\ Sound(u) /\ UNCHANGED units
  BY TypesExtract DEF UnitInv, Extract, ExtractGivesUp
<1>2. \A r : report' = [report EXCEPT ![d][i] = r] => report'[d][i] = r
  BY DEF TypeOK
<1>3. Extract(d, i)
  BY <1>2 DEF ExtractGivesUp, EndExtract
<1>4. CASE Unread(u)
  <2>1. report'[d][i] = ReportUnread(u)
    BY <1>2, <1>3, <1>4 DEF Extract, EndExtract
  <2>2. report'[d][i].ok["settlements"] => u.key = NoFile
    BY <1>4, <2>1 DEF ReportUnread, Said, AllFail, Entities
  <2>3. report'[d][i].unit = u
    BY <1>1, <1>4, <2>1, Reported
  <2> QED BY <2>2, <2>3 DEF Held
<1>5. CASE ~ Unread(u)
  <2>1. report'[d][i] = ReportRead(u) /\ lake' = LakeAfter(u)
    BY <1>2, <1>3, <1>5 DEF Extract, EndExtract
  <2>2. report'[d][i].unit = u
    BY <1>1, <2>1, Reported
  <2>3. report'[d][i].ok = Together(Fits(u))
    <3> DEFINE reason == IF Fits(u) = AllFit THEN NONE ELSE "breaking drift"
               quarantined == Fits(u) # AllFit \/ u.content \in Dirty
    <3>1. ReportRead(u) = [unit |-> u, ok |-> Together(Fits(u)), reason |-> reason,
                           quarantined |-> quarantined]
      BY DEF ReportRead, Said
    <3> HIDE DEF reason, quarantined
    <3> QED BY <2>1, <3>1
  <2>4. ASSUME report'[d][i].ok["settlements"], NEW e \in Entities
        PROVE  lake'[<<e, StemOf(u)[1], StemOf(u)[2]>>] = u.content
    <3>1. Fits(u)[e]
      BY <2>3, <2>4 DEF Together, Entities
    <3>2. <<e, StemOf(u)[1], StemOf(u)[2]>> = BatchOf(u, e)
      BY <1>1 DEF BatchOf, StemOf, Sound, Entities
    <3>3. BatchOf(u, e) \in BatchIds
      BY <1>1, UnitsNameBatches
    <3> QED BY <2>1, <3>1, <3>2, <3>3 DEF LakeAfter
  <2> QED BY <2>2, <2>4 DEF Held, ObjectOf
<1> QED BY <1>4, <1>5

(* What landed stays as it is while others are extracted.                   *)
LEMMA ExtractKeepsLanded ==
  ASSUME LandInv, NEW d \in Days, NEW i \in Indices, Extract(d, i) \/ ExtractGivesUp(d, i)
  PROVE  ObjectInv' /\ FileInv' /\ OwnInv' /\ OneOpenInv' /\ ClaimInv'
<1> USE DEF LandInv, FeedInv
<1>1. UNCHANGED <<registry, sighted, files, units>>
  BY DEF Extract, ExtractGivesUp, warehouse
<1>2. OwnInv' /\ OneOpenInv'
  BY <1>1 DEF OwnInv, OneOpenInv, DetailRow
<1>3. ObjectInv'
  BY <1>1, PutsItsOwn DEF ObjectInv, BatchHasOneOwner
<1>4. FileInv'
  <2> SUFFICES ASSUME NEW c \in Contents, NEW s \in Stems, files[c] = s
               PROVE  /\ s \in sighted[c] /\ DetailRow(s).status = "registered"
                      /\ DetailRow(s).landed = 1
                      /\ \A e \in Entities : ObjectOf(e, s)' = c
    BY <1>1 DEF FileInv, DetailRow
  <2> QED BY PutsItsOwn DEF FileInv
<1>5. i \in queued[d] /\ \A o \in Days : queued'[o] \subseteq queued[o]
  BY TypesExtract
<1>6. Owned(units[d][i])
  BY <1>5 DEF ClaimInv
<1>7. \A o \in Days, j \in Indices :
        (report[o][j] # NONE => Owned(report[o][j].unit) /\ Held(report[o][j]))'
  <2> SUFFICES ASSUME NEW o \in Days, NEW j \in Indices, report'[o][j] # NONE
               PROVE  Owned(report[o][j].unit)' /\ Held(report[o][j])'
    OBVIOUS
  <2>1. \/ report'[o][j] = report[o][j]
        \/ o = d /\ j = i /\ report'[o][j].unit = units[d][i]
    BY TypesExtract
  <2>2. Owned(report[o][j].unit)'
    BY <1>1, <1>6, <2>1 DEF ClaimInv, Owned, StemOf
  <2>3. CASE o = d /\ j = i
    BY <2>2, <2>3, ReportsWhatIsPut
  <2>4. CASE report'[o][j] = report[o][j]
    <3> DEFINE r == report[o][j]
    <3>1. Owned(r.unit) /\ Held(r) /\ r.unit \in Units
      BY <2>4 DEF ClaimInv, TypeOK, Reports
    <3>2. ASSUME r.ok["settlements"], r.unit.key # NoFile, NEW e \in Entities
          PROVE  lake'[<<e, StemOf(r.unit)[1], StemOf(r.unit)[2]>>] = r.unit.content
      <4>1. PICK s \in Stems : s = StemOf(r.unit)
        BY <3>1, UnitsNameBatches
      <4>2. r.unit.content \in Contents /\ s \in sighted[r.unit.content]
            /\ ObjectOf(e, s) = r.unit.content
        BY <3>1, <3>2, <4>1 DEF Owned, Held
      <4>3. ObjectOf(e, s)' = r.unit.content
        BY <4>2, PutsItsOwn
      <4> QED BY <4>1, <4>3 DEF ObjectOf
    <3> QED BY <2>2, <2>4, <3>2 DEF Held, ObjectOf, StemOf
  <2> QED BY <2>1, <2>3, <2>4
<1>8. \A o \in Days : (units[o] # NONE => \A j \in DOMAIN units[o] : Owned(units[o][j]))'
  BY <1>1 DEF ClaimInv, Owned, StemOf
<1>9. \A o \in Days, j \in Indices : (j \in queued[o] => Owned(units[o][j]))'
  BY <1>1, <1>5 DEF ClaimInv, Owned, StemOf
<1>10. ClaimInv'
  BY <1>7, <1>8, <1>9 DEF ClaimInv
<1> QED BY <1>2, <1>3, <1>4, <1>10

(* What leaves the tables and the objects, and neither extends a queue nor  *)
(* allocates, keeps all this.                                               *)
LEMMA LandingKept ==
  ASSUME LandInv, UNCHANGED <<registry, sighted, files, lake, report>>,
         \A o \in Days : units'[o] = units[o] \/ (units'[o] = NONE /\ queued'[o] = {}),
         \A o \in Days : queued'[o] \subseteq queued[o]
  PROVE  ObjectInv' /\ FileInv' /\ OwnInv' /\ OneOpenInv' /\ ClaimInv'
<1> USE DEF LandInv
<1>1. ObjectInv' /\ FileInv' /\ OwnInv' /\ OneOpenInv'
  BY DEF ObjectInv, FileInv, OwnInv, OneOpenInv, ObjectOf, DetailRow
<1>2. \A o \in Days : (units[o] # NONE => \A j \in DOMAIN units[o] : Owned(units[o][j]))'
  BY DEF ClaimInv, Owned, StemOf
<1>3. \A o \in Days, j \in Indices : (j \in queued[o] => Owned(units[o][j]))'
  BY DEF ClaimInv, Owned, StemOf
<1>4. \A o \in Days, j \in Indices :
        (report[o][j] # NONE => Owned(report[o][j].unit) /\ Held(report[o][j]))'
  BY DEF ClaimInv, Owned, Held, ObjectOf, StemOf
<1> QED BY <1>1, <1>2, <1>3, <1>4 DEF ClaimInv

(* open, with its commit and whether or not it then succeeds, keeps it.     *)
LEMMA OpenKeepsClaims ==
  ASSUME LandInv, NEW d \in Days, OpenBatches(d)
  PROVE  ObjectInv' /\ FileInv' /\ OwnInv' /\ OneOpenInv' /\ ClaimInv'
<1> USE DEF LandInv, FeedInv
<1>1. PICK pick \in [Slots(d) -> [Entities -> Sequences]] :
        /\ \A s \in Slots(d), e \in Entities :
             ChosenSequence(RowsAt(d, s, e, pick), MayReuse(d, s), pick[s][e])
        /\ OpenTransaction(d, pick)
        /\ \/ /\ phase' = [phase EXCEPT ![d] = "extract"]
              /\ \E order \in Orders(d) :
                   units' = [units EXCEPT ![d] = [i \in DOMAIN order |-> UnitOf(d, order[i], pick)]]
              /\ queued' = [queued EXCEPT ![d] = 1 .. Cardinality(Slots(d))]
              /\ seen' = [seen EXCEPT ![d] = NONE]
              /\ found' = [found EXCEPT ![d] = FALSE]
           \/ UNCHANGED <<phase, units, queued, seen, found>>
  BY DEF OpenBatches
<1>2. /\ phase[d] = "open" /\ Cardinality(Slots(d)) <= MaxUnits
      /\ UNCHANGED <<files, lake, report>>
  BY DEF OpenBatches, senderVars
<1>3. seen[d] \in Listings /\ queued[d] = {}
  BY <1>2 DEF QueueInv
<1>4. Choice(d, pick)
  BY <1>1 DEF Choice
<1>5. ObjectInv' /\ FileInv' /\ OwnInv' /\ OneOpenInv'
  BY <1>1, <1>2, <1>3, <1>4, OpenKeepsLanded
<1>6. /\ \A u : Owned(u) => Owned(u)'
      /\ \A s \in Slots(d) : \A u : u = UnitOf(d, s, pick) => Owned(u)'
  BY <1>1, <1>3, <1>4, OpenKeepsOwned
<1>7. \A o \in Days, j \in Indices :
        (report[o][j] # NONE => Owned(report[o][j].unit) /\ Held(report[o][j]))'
  <2> SUFFICES ASSUME NEW o \in Days, NEW j \in Indices, report[o][j] # NONE
               PROVE  Owned(report[o][j].unit)' /\ Held(report[o][j])'
    BY <1>2
  <2>1. Owned(report[o][j].unit) /\ Held(report[o][j])
    BY DEF ClaimInv
  <2>2. Held(report[o][j])'
    BY <1>2, <2>1 DEF Held, ObjectOf, StemOf
  <2> QED BY <1>2, <1>6, <2>1, <2>2 DEF Owned, StemOf
<1>8. CASE UNCHANGED <<units, queued>>
  <2>1. \A o \in Days : (units[o] # NONE => \A j \in DOMAIN units[o] : Owned(units[o][j]))'
    BY <1>6, <1>8 DEF ClaimInv, Owned, StemOf
  <2>2. \A o \in Days, j \in Indices : (j \in queued[o] => Owned(units[o][j]))'
    BY <1>6, <1>8 DEF ClaimInv, Owned, StemOf
  <2> QED BY <1>5, <1>7, <2>1, <2>2 DEF ClaimInv
<1>9. CASE /\ \E order \in Orders(d) :
                units' = [units EXCEPT ![d] = [i \in DOMAIN order |-> UnitOf(d, order[i], pick)]]
           /\ queued' = [queued EXCEPT ![d] = 1 .. Cardinality(Slots(d))]
  <2>1. PICK order \in Orders(d) :
          units' = [units EXCEPT ![d] = [i \in DOMAIN order |-> UnitOf(d, order[i], pick)]]
    BY <1>9
  <2>2. DOMAIN order = 1 .. Cardinality(Slots(d)) /\ \A i \in DOMAIN order : order[i] \in Slots(d)
    BY <1>2, <1>3, <1>4, Allocations
  <2>3. units'[d] = [i \in DOMAIN order |-> UnitOf(d, order[i], pick)]
    BY <2>1 DEF TypeOK
  <2>4. ASSUME NEW i \in DOMAIN order PROVE Owned(units[d][i])'
    <3>1. PICK u : u = UnitOf(d, order[i], pick)
      OBVIOUS
    <3>2. Owned(u)' /\ u = units'[d][i]
      BY <1>6, <2>2, <2>3, <3>1
    <3> QED BY <3>2 DEF Owned, StemOf
  <2>5. \A o \in Days : o # d => units'[o] = units[o] /\ queued'[o] = queued[o]
    BY <1>9, <2>1
  <2>6. queued'[d] = DOMAIN order
    BY <1>9, <2>2 DEF TypeOK
  <2>7. \A o \in Days : (units[o] # NONE => \A j \in DOMAIN units[o] : Owned(units[o][j]))'
    <3> SUFFICES ASSUME NEW o \in Days, units'[o] # NONE, NEW j \in DOMAIN units'[o]
                 PROVE  Owned(units[o][j])'
      OBVIOUS
    <3>1. CASE o = d
      BY <2>3, <2>4, <3>1
    <3>2. CASE o # d
      <4>1. PICK u : u = units[o][j]
        OBVIOUS
      <4>2. Owned(u) /\ u = units'[o][j]
        BY <2>5, <3>2, <4>1 DEF ClaimInv
      <4>3. Owned(u)'
        BY <1>6, <4>2
      <4> QED BY <4>2, <4>3 DEF Owned, StemOf
    <3> QED BY <3>1, <3>2
  <2>8. \A o \in Days, j \in Indices : (j \in queued[o] => Owned(units[o][j]))'
    <3> SUFFICES ASSUME NEW o \in Days, NEW j \in Indices, j \in queued'[o]
                 PROVE  Owned(units[o][j])'
      OBVIOUS
    <3>1. CASE o = d
      BY <2>4, <2>6, <3>1
    <3>2. CASE o # d
      <4>1. PICK u : u = units[o][j]
        OBVIOUS
      <4>2. Owned(u) /\ u = units'[o][j]
        BY <2>5, <3>2, <4>1 DEF ClaimInv
      <4>3. Owned(u)'
        BY <1>6, <4>2
      <4> QED BY <4>2, <4>3 DEF Owned, StemOf
    <3> QED BY <3>1, <3>2
  <2> QED BY <1>5, <1>7, <2>7, <2>8 DEF ClaimInv
<1> QED BY <1>1, <1>8, <1>9

(* The invariant at the start. *)
LEMMA LandAtFirst == Init => LandInv
<1> SUFFICES ASSUME Init PROVE LandInv
  OBVIOUS
<1>1. FeedInv
  BY FeedAtFirst
<1>2. ObjectInv
  BY NoneAssumption, DetailBatch DEF Init, ObjectInv, ObjectOf
<1>3. FileInv
  BY NoneAssumption DEF Init, FileInv
<1>4. OwnInv /\ OneOpenInv
  BY DEF Init, OwnInv, OneOpenInv
<1>5. ClaimInv
  BY DEF Init, ClaimInv
<1> QED BY <1>1, <1>2, <1>3, <1>4, <1>5 DEF LandInv

(* And after every step. *)
LEMMA LandStep == LandInv /\ [Next]_vars => LandInv'
<1> SUFFICES ASSUME LandInv, [Next]_vars PROVE LandInv'
  OBVIOUS
<1> DEFINE Rest == ObjectInv' /\ FileInv' /\ OwnInv' /\ OneOpenInv' /\ ClaimInv'
<1>0. FeedInv /\ FeedInv'
  BY FeedStep DEF LandInv
<1>1. CASE SenderStep
  <2>1. UNCHANGED <<registry, sighted, files, lake, units, queued, report>>
    BY <1>1 DEF SenderStep, Deliver, Bump, warehouse
  <2>2. Rest
    BY <2>1, LandingKept
  <2> QED BY <1>0, <2>2 DEF LandInv
<1>2. ASSUME NEW d \in Days, Walks(d) PROVE LandInv'
  <2>1. UNCHANGED <<registry, sighted, files, lake, queued, report>>
    BY <1>2 DEF Walks, Start, Sense, Discover, UpstreamFails, OpenGivesUp, RegisterGivesUp, Gate,
                warehouse
  <2>2. \A o \in Days : units'[o] = units[o] \/ (units'[o] = NONE /\ queued'[o] = {})
    <3>1. CASE OpenGivesUp(d)
      <4>1. queued[d] = {}
        BY <1>0, <3>1 DEF OpenGivesUp, QueueInv, FeedInv
      <4>2. units' = [units EXCEPT ![d] = NONE]
        BY <3>1 DEF OpenGivesUp
      <4> QED BY <1>0, <2>1, <4>1, <4>2 DEF TypeOK, FeedInv
    <3>2. CASE ~ OpenGivesUp(d)
      BY <1>2, <3>2 DEF Walks, Start, Sense, Discover, UpstreamFails, RegisterGivesUp, Gate
    <3> QED BY <3>1, <3>2
  <2>3. Rest
    BY <2>1, <2>2, LandingKept
  <2> QED BY <1>0, <2>3 DEF LandInv
<1>3. ASSUME NEW d \in Days, NEW i \in Indices, Extract(d, i) \/ ExtractGivesUp(d, i) PROVE LandInv'
  BY <1>0, <1>3, ExtractKeepsLanded DEF LandInv
<1>4. ASSUME NEW d \in Days, OpenBatches(d) PROVE LandInv'
  BY <1>0, <1>4, OpenKeepsClaims DEF LandInv
<1>5. ASSUME NEW d \in Days, Register(d) PROVE LandInv'
  <2>1. UNCHANGED <<sighted, lake, units, queued, report>>
    BY <1>5 DEF Register
  <2>2. ClaimInv'
    BY <2>1 DEF LandInv, ClaimInv, Owned, Held, ObjectOf, StemOf
  <2> QED BY <1>0, <1>5, <2>2, RegisterKeepsLanded DEF LandInv
<1>6. CASE UNCHANGED vars
  <2>1. UNCHANGED <<registry, sighted, files, lake, units, queued, report>>
    BY <1>6 DEF vars
  <2>2. Rest
    BY <2>1, LandingKept
  <2> QED BY <1>0, <2>2 DEF LandInv
<1>7. CASE \E d \in Days : RunStep(d)
  BY <1>2, <1>3, <1>4, <1>5, <1>7 DEF RunStep, Walks
<1> QED BY <1>1, <1>6, <1>7 DEF Next

(* A content is recorded as landed exactly by the registered batch whose    *)
(* objects, both, hold it, and so lands once: for every number of days,     *)
(* names, contents and sequences, with runs of several days at once, tasks  *)
(* that die after their commit and runs that are started again.             *)
THEOREM LandsOnceCorrect == Spec => []LandsOnce
<1>1. LandInv => LandsOnce
  <2> SUFFICES ASSUME LandInv, NEW c \in Contents, NEW s \in Stems,
                      DetailRow(s).status = "registered",
                      \A e \in Entities : lake[<<e, s[1], s[2]>>] = c
               PROVE  files[c] = s
    BY DEF LandInv, FileInv, ObjectOf, LandsOnce
  <2>1. s \in sighted[c]
    BY DEF LandInv, ObjectInv, ObjectOf, Entities
  <2> QED BY <2>1 DEF LandInv, OwnInv
<1> QED BY LandAtFirst, LandStep, <1>1, PTL DEF Spec

(* No step changes a registered batch. *)
LEMMA RegisteredRowsStay ==
  ASSUME LandInv, [Next]_vars, NEW b \in BatchIds, registry[b].status = "registered"
  PROVE  registry'[b] = registry[b]
<1> USE DEF LandInv, FeedInv
<1>1. PICK e \in Entities, s \in Stems : b = <<e, s[1], s[2]>>
  <2>1. b[1] \in Entities /\ <<b[2], b[3]>> \in Stems /\ b = <<b[1], b[2], b[3]>>
    BY DEF BatchIds, Stems
  <2> QED BY <2>1
<1>2. DetailRow(s).status = "registered"
  BY <1>1, StepByEntity DEF InStep, DetailRow, Entities
<1>3. ASSUME NEW d \in Days, OpenBatches(d) PROVE registry'[b] = registry[b]
  <2>1. PICK pick \in [Slots(d) -> [Entities -> Sequences]] :
          /\ \A t \in Slots(d), f \in Entities :
               ChosenSequence(RowsAt(d, t, f, pick), MayReuse(d, t), pick[t][f])
          /\ OpenTransaction(d, pick)
    BY <1>3 DEF OpenBatches
  <2>2. seen[d] \in Listings
    BY <1>3 DEF OpenBatches, QueueInv
  <2>3. Choice(d, pick)
    BY <2>1 DEF Choice
  <2> QED BY <1>1, <1>2, <2>1, <2>2, <2>3, OpenedIsOwned
<1>4. ASSUME NEW d \in Days, Register(d) PROVE registry'[b] = registry[b]
  BY <1>4, SettledRows DEF Left, Failed, Landed, Unregistered
<1>5. CASE UNCHANGED registry
  BY <1>5
<1>6. CASE \E d \in Days : OpenBatches(d) \/ Register(d)
  BY <1>3, <1>4, <1>6
<1>7. UNCHANGED registry \/ \E d \in Days : OpenBatches(d) \/ Register(d)
  BY DEF Next, SenderStep, RunStep, Deliver, Bump, Start, Sense, Discover, UpstreamFails, OpenGivesUp,
         Extract, ExtractGivesUp, RegisterGivesUp, Gate, warehouse, vars
<1> QED BY <1>5, <1>6, <1>7

(* Nor its object. *)
LEMMA RegisteredObjectsStay ==
  ASSUME LandInv, [Next]_vars, NEW b \in BatchIds, registry[b].status = "registered"
  PROVE  lake'[b] = lake[b]
<1> USE DEF LandInv, FeedInv
<1>1. PICK e \in Entities, s \in Stems : b = <<e, s[1], s[2]>>
  <2>1. b[1] \in Entities /\ <<b[2], b[3]>> \in Stems /\ b = <<b[1], b[2], b[3]>>
    BY DEF BatchIds, Stems
  <2> QED BY <2>1
<1>2. DetailRow(s).status = "registered"
  BY <1>1, StepByEntity DEF InStep, DetailRow, Entities
<1>3. ASSUME NEW d \in Days, NEW i \in Indices, Extract(d, i) \/ ExtractGivesUp(d, i)
      PROVE  lake'[b] = lake[b]
  <2>1. \/ ObjectOf(e, s)' = ObjectOf(e, s)
        \/ \E c \in Contents : s \in sighted[c] /\ ObjectOf(e, s)' = c
    BY <1>3, PutsItsOwn
  <2>2. ASSUME NEW c \in Contents, s \in sighted[c], ObjectOf(e, s)' = c
        PROVE  ObjectOf(e, s) = c
    <3>1. files[c] = s
      BY <1>2, <2>2 DEF OwnInv
    <3> QED BY <3>1 DEF FileInv
  <2> QED BY <1>1, <2>1, <2>2 DEF ObjectOf
<1>4. UNCHANGED lake \/ \E d \in Days, i \in Indices : Extract(d, i) \/ ExtractGivesUp(d, i)
  BY DEF Next, SenderStep, RunStep, Deliver, Bump, Start, Sense, Discover, UpstreamFails, OpenGivesUp,
         OpenBatches, Register, RegisterGivesUp, Gate, warehouse, vars
<1> QED BY <1>3, <1>4

(* A registered batch and its object are final: no later run, retry or      *)
(* delivery changes the row, and no later extract the bytes.                *)
THEOREM RegisteredIsFinalCorrect == Spec => RegisteredIsFinal
<1>1. LandInv /\ [Next]_vars => [\A b \in BatchIds : registry[b].status = "registered" =>
                                   registry'[b] = registry[b] /\ lake'[b] = lake[b]]_vars
  BY RegisteredRowsStay, RegisteredObjectsStay
<1> QED BY LandAtFirst, LandStep, <1>1, PTL DEF Spec, RegisteredIsFinal
-----------------------------------------------------------------------------
(***************************************************************************)
(* A day is accounted for.                                                 *)
(***************************************************************************)
(* The sender names a file for the date that its header declares.           *)
NamesTellTheDate == \A p \in Sends : KeyDay[p[1]] = DateOf[p[2]]

(* What the inbox and a listing hold was sent, what the sensor found is     *)
(* still there to be discovered, and an attempt is a sighting.              *)
ListingInv ==
  /\ \A k \in Keys : inbox[k] # NONE => <<k, inbox[k]>> \in Sends
  /\ \A d \in Days, k \in Keys :
       phase[d] = "open" /\ seen[d][k] # NONE => <<k, seen[d][k]>> \in Sends
  /\ \A d \in Days : phase[d] = "discover" /\ found[d] =>
       \E k \in Keys : inbox[k] # NONE /\ KeyDay[k] = d
  /\ \A d \in Days : phase[d] = "open" /\ found[d] =>
       \E k \in Keys : seen[d][k] # NONE /\ KeyDay[k] = d

AttemptInv == \A c \in Contents : attempt[c] # NONE => attempt[c] \in sighted[c]

Accounted(d) == \E n \in Sequences : DetailRow(<<d, n>>).status # "absent"

(* A run that has its allocation has accounted for its day.                 *)
AccountInv ==
  \A d \in Days : units[d] # NONE \/ phase[d] = "success" => Accounted(d)

DayInv == LandInv /\ ListingInv /\ AttemptInv /\ AccountInv

(* The listing and the attempts, through every step. *)
LEMMA ListingStep ==
  ASSUME DayInv, [Next]_vars PROVE ListingInv'
<1> USE DEF DayInv, LandInv, FeedInv, ListingInv
<1>1. ASSUME NEW k \in Keys, NEW c \in Contents, Deliver(k, c) PROVE ListingInv'
  <2>1. <<k, c>> \in Sends /\ inbox' = [inbox EXCEPT ![k] = c] /\ c # NONE
        /\ UNCHANGED <<phase, found, seen>>
    BY <1>1, NoneAssumption DEF Deliver
  <2>2. \A j \in Keys : inbox'[j] = IF j = k THEN c ELSE inbox[j]
    BY <2>1 DEF TypeOK
  <2>3. \A j \in Keys : inbox'[j] # NONE => <<j, inbox'[j]>> \in Sends
    BY <2>1, <2>2
  <2>4. \A j \in Keys : inbox[j] # NONE => inbox'[j] # NONE
    BY <2>1, <2>2
  <2> QED BY <2>1, <2>3, <2>4
<1>2. ASSUME NEW d \in Days, Sense(d) PROVE ListingInv'
  <2>1. /\ \A o \in Days : o # d => phase'[o] = phase[o] /\ found'[o] = found[o]
        /\ phase'[d] = "discover" /\ found'[d] = Arrived(d) /\ UNCHANGED <<inbox, seen>>
    BY <1>2 DEF Sense, senderVars, TypeOK
  <2> QED BY <2>1 DEF Arrived
<1>3. ASSUME NEW d \in Days, Discover(d) PROVE ListingInv'
  <2>1. /\ \A o \in Days : o # d => phase'[o] = phase[o] /\ seen'[o] = seen[o]
        /\ phase[d] = "discover" /\ phase'[d] = "open" /\ seen'[d] = inbox
        /\ UNCHANGED <<inbox, found>>
    BY <1>3 DEF Discover, senderVars, TypeOK
  <2>2. found[d] => \E k \in Keys : inbox[k] # NONE /\ KeyDay[k] = d
    BY <2>1
  <2> QED BY <2>1, <2>2
<1>4. CASE /\ UNCHANGED inbox
           /\ \A o \in Days :
                \/ phase'[o] \notin {"discover", "open"}
                \/ phase'[o] = phase[o] /\ seen'[o] = seen[o] /\ found'[o] = found[o]
  BY <1>4
<1>5. ASSUME NEW d \in Days, Start(d) \/ UpstreamFails(d) \/ OpenBatches(d) \/ OpenGivesUp(d)
                             \/ Register(d) \/ RegisterGivesUp(d) \/ Gate(d)
      PROVE  ListingInv'
  <2>1. /\ UNCHANGED inbox
        /\ \A o \in Days :
             \/ phase'[o] \notin {"discover", "open"}
             \/ phase'[o] = phase[o] /\ seen'[o] = seen[o] /\ found'[o] = found[o]
    BY <1>5 DEF TypeOK, Start, UpstreamFails, OpenBatches, OpenGivesUp, Register, RegisterGivesUp,
                Gate, senderVars
  <2> QED BY <1>4, <2>1
<1>6. ASSUME NEW d \in Days, NEW i \in Indices, Extract(d, i) \/ ExtractGivesUp(d, i)
      PROVE  ListingInv'
  BY <1>4, <1>6 DEF Extract, ExtractGivesUp, senderVars
<1>7. ASSUME NEW d \in Days, Bump(d) PROVE ListingInv'
  BY <1>4, <1>7 DEF Bump
<1>8. CASE UNCHANGED vars
  BY <1>4, <1>8 DEF vars
<1> QED BY <1>1, <1>2, <1>3, <1>5, <1>6, <1>7, <1>8 DEF Next, SenderStep, RunStep

(* An attempt keeps to the sightings. *)
LEMMA AttemptStep ==
  ASSUME DayInv, [Next]_vars PROVE AttemptInv'
<1> USE DEF DayInv, AttemptInv
<1>1. ASSUME NEW d \in Days, OpenBatches(d) PROVE AttemptInv'
  <2>1. PICK pick : OpenTransaction(d, pick)
    BY <1>1 DEF OpenBatches
  <2> SUFFICES ASSUME NEW c \in Contents, attempt'[c] # NONE
               PROVE  attempt'[c] \in sighted'[c]
    OBVIOUS
  <2>2. CASE \E k \in Admitted(d) : seen[d][k] = c
    <3>1. PICK k \in Admitted(d) :
            seen[d][k] = c /\ attempt'[c] = <<DateOf[c], pick[k]["settlements"]>>
      BY <2>1, <2>2 DEF OpenTransaction
    <3> QED BY <2>1, <3>1 DEF OpenTransaction
  <2>3. CASE ~ \E k \in Admitted(d) : seen[d][k] = c
    BY <2>1, <2>3 DEF OpenTransaction
  <2> QED BY <2>2, <2>3
<1>2. UNCHANGED <<attempt, sighted>> \/ \E d \in Days : OpenBatches(d)
  BY DEF Next, SenderStep, RunStep, Deliver, Bump, Start, Sense, Discover, UpstreamFails, OpenGivesUp,
         Extract, ExtractGivesUp, Register, RegisterGivesUp, Gate, warehouse, vars
<1> QED BY <1>1, <1>2

(* A row once inserted stays. *)
LEMMA AccountsStay ==
  ASSUME LandInv, [Next]_vars, NEW o \in Days, Accounted(o) PROVE Accounted(o)'
<1> USE DEF LandInv, FeedInv
<1>1. PICK n \in Sequences : DetailRow(<<o, n>>).status # "absent"
  BY DEF Accounted
<1> DEFINE b == <<"settlements", o, n>>
<1>2. b \in BatchIds
  BY DEF BatchIds, Entities
<1>3. ASSUME NEW d \in Days, OpenBatches(d) PROVE registry'[b].status # "absent"
  <2>1. PICK pick \in [Slots(d) -> [Entities -> Sequences]] :
          /\ \A t \in Slots(d), f \in Entities :
               ChosenSequence(RowsAt(d, t, f, pick), MayReuse(d, t), pick[t][f])
          /\ OpenTransaction(d, pick)
    BY <1>3 DEF OpenBatches
  <2>2. seen[d] \in Listings /\ Choice(d, pick)
    BY <1>3, <2>1 DEF OpenBatches, QueueInv, Choice
  <2> QED BY <1>1, <1>2, <2>1, <2>2, OpenedRows DEF DetailRow
<1>4. ASSUME NEW d \in Days, Register(d) PROVE registry'[b].status # "absent"
  BY <1>1, <1>2, <1>4, SettledRows DEF Left, Failed, Landed, DetailRow
<1>5. UNCHANGED registry \/ \E d \in Days : OpenBatches(d) \/ Register(d)
  BY DEF Next, SenderStep, RunStep, Deliver, Bump, Start, Sense, Discover, UpstreamFails, OpenGivesUp,
         Extract, ExtractGivesUp, RegisterGivesUp, Gate, warehouse, vars
<1>6. registry'[b].status # "absent"
  BY <1>1, <1>3, <1>4, <1>5 DEF DetailRow
<1> QED BY <1>6 DEF Accounted, DetailRow

(* open accounts for its day: by a file of it, by the batch that says there *)
(* was none, or by the earlier batch of the file that the sensor found.     *)
LEMMA OpenAccounts ==
  ASSUME DayInv, NamesTellTheDate, NEW d \in Days, seen[d] \in Listings, phase[d] = "open",
         NEW pick, Choice(d, pick), OpenTransaction(d, pick)
  PROVE  Accounted(d) \/ Accounted(d)'
<1> USE DEF DayInv, LandInv, FeedInv
<1>1. ASSUME NEW s \in Slots(d), Interval(d, s) = d PROVE Accounted(d)'
  <2>1. "settlements" \in Entities
    BY DEF Entities
  <2>2. registry'[<<"settlements", Interval(d, s), pick[s]["settlements"]>>].status = "open"
    BY <2>1, PickedIsOpen
  <2>3. pick[s]["settlements"] \in Sequences
    BY <2>1 DEF Choice
  <2> QED BY <1>1, <2>2, <2>3 DEF Accounted, DetailRow
<1>2. CASE NothingArrived(d)
  BY <1>1, <1>2 DEF Slots, Interval
<1>3. ASSUME NEW k \in Admitted(d), DateOf[seen[d][k]] = d PROVE Accounted(d)'
  BY <1>1, <1>3, SlotsOfListing DEF Slots
<1>4. CASE found[d] /\ \A k \in Admitted(d) : DateOf[seen[d][k]] # d
  <2>1. PICK k \in Keys : seen[d][k] # NONE /\ KeyDay[k] = d
    BY <1>4 DEF ListingInv
  <2> DEFINE c == seen[d][k]
             Copies == {j \in Keys : seen[d][j] = c}
  <2>2. c \in Contents /\ <<k, c>> \in Sends /\ DateOf[c] = d
    BY <2>1 DEF ListingInv, NamesTellTheDate, Listings, Files
  <2>3. PICK j \in Copies : \A i \in Copies : j <= i
    <3>1. Copies \subseteq Nat /\ Copies # {}
      BY FeedAssumption
    <3> HIDE DEF Copies
    <3> QED BY <3>1, LeastNatural
  <2>4. \A i \in Keys : i < j => seen[d][i] # c
    <3>1. Keys \subseteq Nat
      BY FeedAssumption
    <3> QED BY <2>3, <3>1
  <2>5. j \in Keys /\ seen[d][j] = c
    BY <2>3
  <2>6. j \notin Admitted(d)
    BY <1>4, <2>2, <2>5
  <2>7. files[c] # NONE \/ Parked(c)
    BY <2>1, <2>4, <2>5, <2>6 DEF Admitted
  <2>8. PICK s \in Stems : s \in sighted[c]
    <3>1. files[c] # NONE => files[c] \in Stems /\ files[c] \in sighted[c]
      BY <2>2 DEF TypeOK, FileInv
    <3>2. Parked(c) => attempt[c] \in Stems /\ attempt[c] \in sighted[c]
      BY <2>2 DEF TypeOK, AttemptInv, Parked
    <3> QED BY <2>7, <3>1, <3>2
  <2>9. s[1] = d /\ DetailRow(s).status # "absent" /\ s[2] \in Sequences
    BY <2>2, <2>8 DEF SightInv, Stems
  <2> QED BY <2>9 DEF Accounted, DetailRow
<1> QED BY <1>2, <1>3, <1>4 DEF NothingArrived

(* Every step keeps the whole of it. *)
LEMMA DayStep == NamesTellTheDate /\ DayInv /\ [Next]_vars => DayInv'
<1> SUFFICES ASSUME NamesTellTheDate, DayInv, [Next]_vars PROVE DayInv'
  OBVIOUS
<1> USE DEF DayInv
<1>1. LandInv' /\ ListingInv' /\ AttemptInv'
  BY LandStep, ListingStep, AttemptStep
<1>2. \A o \in Days : Accounted(o) => Accounted(o)'
  BY AccountsStay
<1>3. TypeOK /\ QueueInv
  BY DEF LandInv, FeedInv
<1>4. ASSUME NEW d \in Days, OpenBatches(d) PROVE AccountInv'
  <2>1. PICK pick \in [Slots(d) -> [Entities -> Sequences]] :
          /\ \A t \in Slots(d), f \in Entities :
               ChosenSequence(RowsAt(d, t, f, pick), MayReuse(d, t), pick[t][f])
          /\ OpenTransaction(d, pick)
    BY <1>4 DEF OpenBatches
  <2>2. /\ seen[d] \in Listings /\ phase[d] = "open" /\ Choice(d, pick)
    BY <1>3, <1>4, <2>1 DEF OpenBatches, QueueInv, Choice
  <2>3. Accounted(d)'
    BY <1>2, <2>1, <2>2, OpenAccounts
  <2>4. \A o \in Days : o # d => units'[o] = units[o] /\ phase'[o] = phase[o]
    BY <1>3, <1>4 DEF OpenBatches, TypeOK
  <2> QED BY <1>2, <2>3, <2>4 DEF AccountInv
<1>5. ASSUME NEW d \in Days, Gate(d) PROVE AccountInv'
  <2>1. /\ \A o \in Days : o # d => phase'[o] = phase[o]
        /\ phase'[d] = "success" => units[d] # NONE
        /\ UNCHANGED units
    BY <1>3, <1>5 DEF Gate, GatePasses, TypeOK
  <2> QED BY <1>2, <2>1 DEF AccountInv
<1>6. CASE \A o \in Days : /\ units'[o] = units[o] \/ units'[o] = NONE
                           /\ phase'[o] = "success" => phase[o] = "success"
  BY <1>1, <1>2, <1>6 DEF AccountInv
<1>7. ASSUME NEW d \in Days, Start(d) \/ Sense(d) \/ Discover(d) \/ UpstreamFails(d)
                             \/ OpenGivesUp(d) \/ Register(d) \/ RegisterGivesUp(d)
      PROVE  AccountInv'
  <2>1. \A o \in Days : /\ units'[o] = units[o] \/ units'[o] = NONE
                        /\ phase'[o] = "success" => phase[o] = "success"
    BY <1>3, <1>7 DEF TypeOK, Start, Sense, Discover, UpstreamFails, OpenGivesUp, Register,
                RegisterGivesUp
  <2> QED BY <1>6, <2>1
<1>8. ASSUME NEW d \in Days, NEW i \in Indices, Extract(d, i) \/ ExtractGivesUp(d, i)
      PROVE  AccountInv'
  BY <1>6, <1>8 DEF Extract, ExtractGivesUp
<1>9. CASE SenderStep
  BY <1>6, <1>9 DEF SenderStep, Deliver, Bump
<1>10. CASE UNCHANGED vars
  BY <1>6, <1>10 DEF vars
<1>11. CASE \E d \in Days : RunStep(d)
  <2>1. PICK d \in Days : RunStep(d)
    BY <1>11
  <2>2. AccountInv'
    BY <1>4, <1>5, <1>7, <1>8, <2>1 DEF RunStep
  <2> QED BY <1>1, <2>2
<1> QED BY <1>1, <1>9, <1>10, <1>11 DEF Next

(* A day whose run ends in success is accounted for by a batch, one of a    *)
(* file that declares it or the one that says nothing arrived: for every    *)
(* number of days and files, however runs overlap, die and are cleared, if  *)
(* the sender names its files for the date they declare.                    *)
THEOREM DayIsAccountedForCorrect == NamesTellTheDate => (Spec => []DayIsAccountedFor)
<1> SUFFICES ASSUME NamesTellTheDate PROVE Spec => []DayIsAccountedFor
  OBVIOUS
<1>1. Init => DayInv
  <2> SUFFICES ASSUME Init PROVE DayInv
    OBVIOUS
  <2>1. LandInv
    BY LandAtFirst
  <2>2. ListingInv /\ AttemptInv /\ AccountInv
    BY DEF Init, ListingInv, AttemptInv, AccountInv
  <2> QED BY <2>1, <2>2 DEF DayInv
<1>2. DayInv /\ [Next]_vars => DayInv'
  BY DayStep
<1>3. DayInv => DayIsAccountedFor
  BY DEF DayInv, AccountInv, Accounted, DayIsAccountedFor
<1> QED BY <1>1, <1>2, <1>3, PTL DEF Spec

-----------------------------------------------------------------------------
(***************************************************************************)
(* What success means, for runs that take turns.                           *)
(***************************************************************************)
(* Runs go one at a time, and none is started again, unless there is but    *)
(* one day.                                                                 *)
OneDay == \E d \in Days : Days = {d}
OneByOne == ~ Overlap /\ (Cleared = {} \/ OneDay)

(* What a run allocated is still its own: unfinished, registered, or failed *)
(* for want of a report or by one that is there to be seen.                 *)
Carried(d) ==
  \A b \in Allocated(d) :
    /\ registry[b].run = d
    /\ \/ registry[b].status \in Unregistered
       \/ registry[b].status = "registered"
       \/ /\ registry[b].status = "failed"
          /\ \/ registry[b].reason = "did not report"
             \/ \E i \in Naming(d, b) : ~ report[d][i].ok[b[1]]

(* All a run allocated is registered or did not report, and it left nothing *)
(* of its own unfinished.                                                   *)
Finished(d) ==
  /\ \A b \in Allocated(d) :
       /\ registry[b].run = d
       /\ \/ registry[b].status = "registered"
          \/ registry[b].status = "failed" /\ registry[b].reason = "did not report"
  /\ \A b \in BatchIds : registry[b].run = d => registry[b].status \notin Unregistered

(* One run is under way, with an allocation of its own try or of one        *)
(* nothing came between.                                                    *)
TurnInv ==
  /\ \A d, o \in Days : phase[d] \in Running /\ phase[o] \in Running => d = o
  /\ \A d \in Days : Cleared = {} /\ phase[d] \in {"none", "sense", "discover", "open"}
                     => units[d] = NONE
  /\ \A d \in Days : phase[d] \in Running \/ OneDay => Carried(d)
  /\ \A d \in Days : queued[d] # {} =>
       \A b \in Allocated(d) : registry[b].status \in Unregistered /\ registry[b].run = d

(* The summary is that of the register before the gate. *)
SummaryInv ==
  /\ \A d \in Days : summary[d] = TRUE => phase[d] = "gate"
  /\ \A d \in Days : phase[d] = "success" \/ (phase[d] = "gate" /\ summary[d] = TRUE) => Finished(d)

SuccessInv == LandInv /\ TurnInv /\ SummaryInv

(* A row that open writes was unfinished or absent, and is the run's. *)
LEMMA OpenedWereFree ==
  ASSUME FeedInv, NEW d \in Days, seen[d] \in Listings, NEW pick, Choice(d, pick),
         OpenTransaction(d, pick), NEW b \in BatchIds
  PROVE  \/ registry'[b] = registry[b]
         \/ /\ registry[b].status \in Unregistered \cup {"absent"}
            /\ registry'[b].status = "open" /\ registry'[b].run = d
<1> USE DEF FeedInv
<1>1. PICK e \in Entities, s \in Stems : b = <<e, s[1], s[2]>>
  <2>1. b[1] \in Entities /\ <<b[2], b[3]>> \in Stems /\ b = <<b[1], b[2], b[3]>>
    BY DEF BatchIds, Stems
  <2> QED BY <2>1
<1>2. SUFFICES ASSUME registry'[b] # registry[b]
               PROVE  registry[b].status \in Unregistered \cup {"absent"}
  BY OpenedRows
<1>3. PICK q \in Slots(d) : b = <<b[1], Interval(d, q), pick[q][b[1]]>>
  BY <1>2, OpenedRows
<1>4. pick[q][e] = pick[q]["settlements"]
  BY PicksAlike DEF Entities
<1>5. s = <<Interval(d, q), pick[q]["settlements"]>>
  BY <1>1, <1>3, <1>4 DEF Stems
<1>6. DetailRow(s).status \in Unregistered \cup {"absent"}
  BY <1>5, PickedWasFree
<1>7. registry[b].status = DetailRow(s).status
  BY <1>1, StepByEntity DEF InStep, DetailRow, Entities
<1> QED BY <1>6, <1>7

(* What register fails for want of a report says so. *)
LEMMA StrandedSaysSo ==
  ASSUME TypeOK, NEW d \in Days, Register(d), NEW b \in BatchIds, b \in Stranded(d)
  PROVE  registry'[b].status = "failed" /\ registry'[b].reason = "did not report"
<1>1. registry[b] \in Rows2 /\ registry[b].status # "registered"
  BY DEF TypeOK, Rows2, Stranded, Unregistered
<1>2. registry'[b] = FailedRow(registry[b], "did not report")
  BY DEF Register, RegisterTransaction, RegisteredAt
<1> QED BY <1>1, <1>2 DEF FailedRow, Rows2, RowType

(* A step of one run leaves the others as they are, and they are not under  *)
(* way.                                                                     *)
LEMMA OthersWait ==
  ASSUME LandInv, TurnInv, NEW o \in Days, phase[o] \in Running,
         \A d \in Days \ {o} : /\ phase'[d] = phase[d] /\ units'[d] = units[d]
                               /\ queued'[d] = queued[d],
         Cleared = {} /\ phase'[o] \in {"none", "sense", "discover", "open"} => units'[o] = NONE,
         Carried(o)',
         queued'[o] # {} => \A b \in Allocated(o)' :
           registry'[b].status \in Unregistered /\ registry'[b].run = o
  PROVE  TurnInv'
<1> USE DEF TurnInv
<1>1. \A d \in Days \ {o} : phase[d] \notin Running /\ ~ OneDay /\ queued[d] = {}
  BY DEF OneDay, LandInv, FeedInv, QueueInv, Running
<1>2. \A d, q \in Days : phase'[d] \in Running /\ phase'[q] \in Running => d = q
  BY <1>1
<1>3. \A d \in Days : Cleared = {} /\ phase'[d] \in {"none", "sense", "discover", "open"}
                      => units'[d] = NONE
  OBVIOUS
<1>4. \A d \in Days : (phase[d] \in Running \/ OneDay => Carried(d))'
  <2> TAKE d \in Days
  <2>1. CASE d = o
    BY <2>1
  <2>2. CASE d # o
    BY <1>1, <2>2 DEF OneDay
  <2> QED BY <2>1, <2>2
<1>5. \A d \in Days : (queued[d] # {} =>
        \A b \in Allocated(d) : registry[b].status \in Unregistered /\ registry[b].run = d)'
  <2> TAKE d \in Days
  <2>1. CASE d = o
    BY <2>1
  <2>2. CASE d # o
    BY <1>1, <2>2
  <2> QED BY <2>1, <2>2
<1> QED BY <1>2, <1>3, <1>4, <1>5

(* What a run allocated are batches, and depends on its units alone. *)
LEMMA AllocatedBatches ==
  ASSUME TypeOK, NEW d \in Days
  PROVE  Allocated(d) \subseteq BatchIds
<1>1. \A i : units[d] # NONE /\ i \in DOMAIN units[d] => units[d][i] \in Units
  BY DEF TypeOK
<1> QED BY <1>1, UnitsNameBatches DEF Allocated

(* What a run allocated is told by its units alone. *)
LEMMA AllocatedKept ==
  ASSUME NEW d \in Days
  PROVE  /\ units[d] = NONE => Allocated(d) = {}
         /\ units'[d] = NONE => Allocated(d)' = {}
         /\ units'[d] = units[d] => Allocated(d)' = Allocated(d)
BY DEF Allocated, BatchOf

(* So do the reports that name a batch of it. *)
LEMMA NamingKept ==
  ASSUME NEW d \in Days, units'[d] = units[d], UNCHANGED report
  PROVE  \A b : Naming(d, b)' = Naming(d, b)
BY AllocatedKept DEF Naming, BatchOf

(* And what it carries by its units, the rows and the reports. *)
LEMMA CarriedKept ==
  ASSUME NEW d \in Days, units'[d] = units[d], UNCHANGED <<registry, report>>, Carried(d)
  PROVE  Carried(d)'
BY AllocatedKept, NamingKept DEF Carried

(* A run starts when no other is under way, afresh or where it stood.       *)
LEMMA TurnStarts ==
  ASSUME LandInv, TurnInv, OneByOne, NEW o \in Days, Start(o)
  PROVE  TurnInv'
<1> USE DEF LandInv, FeedInv, TurnInv
<1>1. /\ phase[o] \in {"none"} \cup (IF o \in Cleared THEN Ended ELSE {}) /\ Idle(o)
      /\ \A d \in Days : phase'[d] = IF d = o THEN "sense" ELSE phase[d]
      /\ UNCHANGED <<registry, units, queued, report>>
  BY DEF Start, OneByOne, TypeOK, warehouse
<1>2. \A d, q \in Days : phase'[d] \in Running /\ phase'[q] \in Running => d = q
  BY <1>1 DEF Idle
<1>3. \A d \in Days : Cleared = {} /\ phase'[d] \in {"none", "sense", "discover", "open"}
                      => units'[d] = NONE
  BY <1>1
<1>4. \A d \in Days : Carried(d) => Carried(d)'
  BY <1>1, CarriedKept
<1>5. Cleared = {} => Carried(o)
  BY <1>1, AllocatedKept DEF Carried
<1>6. Carried(o)
  BY <1>5 DEF OneByOne
<1>7. \A d \in Days : (phase[d] \in Running \/ OneDay => Carried(d))'
  <2> TAKE d \in Days
  <2>1. CASE d = o
    BY <1>4, <1>6, <2>1
  <2>2. CASE d # o
    BY <1>1, <1>4, <2>2 DEF OneDay
  <2> QED BY <2>1, <2>2
<1>8. \A d \in Days : (queued[d] # {} =>
        \A b \in Allocated(d) : registry[b].status \in Unregistered /\ registry[b].run = d)'
  BY <1>1, AllocatedKept
<1> QED BY <1>2, <1>3, <1>7, <1>8

(* It walks through its tasks with what it allocated.                       *)
LEMMA TurnWalks ==
  ASSUME LandInv, TurnInv, NEW o \in Days,
         Sense(o) \/ Discover(o) \/ UpstreamFails(o) \/ OpenGivesUp(o) \/ RegisterGivesUp(o)
         \/ Gate(o)
  PROVE  TurnInv'
<1> USE DEF LandInv, FeedInv
<1>1. /\ phase[o] \in Running /\ UNCHANGED <<registry, queued, report>>
      /\ \A d \in Days \ {o} : phase'[d] = phase[d] /\ units'[d] = units[d]
      /\ units'[o] = units[o] \/ units'[o] = NONE
      /\ phase'[o] \in {"none", "sense", "discover", "open"}
           => phase[o] \in {"none", "sense", "discover", "open"}
  BY DEF Sense, Discover, UpstreamFails, OpenGivesUp, RegisterGivesUp, ReadyToRegister, Gate, TypeOK,
         Running, warehouse
<1>2. Allocated(o)' = Allocated(o) \/ Allocated(o)' = {}
  BY <1>1, AllocatedKept
<1>4. Carried(o)
  BY <1>1 DEF TurnInv
<1>5. Carried(o)'
  <2>1. CASE units'[o] = units[o]
    BY <1>1, <1>4, <2>1, CarriedKept
  <2>2. CASE units'[o] = NONE
    BY <2>2, AllocatedKept DEF Carried
  <2> QED BY <1>1, <2>1, <2>2
<1>6. queued'[o] # {} => \A b \in Allocated(o)' :
         registry'[b].status \in Unregistered /\ registry'[b].run = o
  BY <1>1, <1>2 DEF TurnInv
<1>7. Cleared = {} /\ phase'[o] \in {"none", "sense", "discover", "open"} => units'[o] = NONE
  BY <1>1 DEF TurnInv
<1> QED BY <1>1, <1>5, <1>6, <1>7, OthersWait

(* open gives it batches that are unfinished and its own.                   *)
LEMMA TurnOpens ==
  ASSUME LandInv, TurnInv, NEW o \in Days, OpenBatches(o)
  PROVE  TurnInv'
<1> USE DEF LandInv, FeedInv
<1>1. PICK pick \in [Slots(o) -> [Entities -> Sequences]] :
        /\ \A s \in Slots(o), e \in Entities :
             ChosenSequence(RowsAt(o, s, e, pick), MayReuse(o, s), pick[s][e])
        /\ OpenTransaction(o, pick)
        /\ \/ /\ phase' = [phase EXCEPT ![o] = "extract"]
              /\ \E order \in Orders(o) :
                   units' = [units EXCEPT ![o] = [i \in DOMAIN order |-> UnitOf(o, order[i], pick)]]
              /\ queued' = [queued EXCEPT ![o] = 1 .. Cardinality(Slots(o))]
              /\ seen' = [seen EXCEPT ![o] = NONE]
              /\ found' = [found EXCEPT ![o] = FALSE]
           \/ UNCHANGED <<phase, units, queued, seen, found>>
  BY DEF OpenBatches
<1>2. /\ phase[o] = "open" /\ Cardinality(Slots(o)) <= MaxUnits /\ UNCHANGED report
  BY DEF OpenBatches
<1>3. seen[o] \in Listings /\ queued[o] = {} /\ Choice(o, pick)
  BY <1>1, <1>2 DEF QueueInv, Choice
<1>4. phase[o] \in Running
  BY <1>2 DEF Running
<1>5. \A d \in Days \ {o} : phase'[d] = phase[d] /\ units'[d] = units[d] /\ queued'[d] = queued[d]
  <2> TAKE d \in Days \ {o}
  <2>1. /\ \A v : [phase EXCEPT ![o] = v][d] = phase[d]
        /\ \A v : [units EXCEPT ![o] = v][d] = units[d]
        /\ \A v : [queued EXCEPT ![o] = v][d] = queued[d]
    BY DEF TypeOK
  <2>3. CASE UNCHANGED <<phase, units, queued>>
    BY <2>3
  <2>4. CASE /\ phase' = [phase EXCEPT ![o] = "extract"]
             /\ \E x : units' = [units EXCEPT ![o] = x]
             /\ queued' = [queued EXCEPT ![o] = 1 .. Cardinality(Slots(o))]
    BY <2>1, <2>4
  <2> HIDE DEF Orders, UnitOf
  <2> QED BY <1>1, <2>3, <2>4
<1>6. CASE UNCHANGED <<phase, units, queued>>
  <2>1. Carried(o)'
    <3> SUFFICES ASSUME NEW b \in Allocated(o)
                 PROVE  /\ registry'[b].run = o
                        /\ \/ registry'[b].status \in Unregistered
                           \/ registry'[b].status = "registered"
                           \/ /\ registry'[b].status = "failed"
                              /\ \/ registry'[b].reason = "did not report"
                                 \/ \E i \in Naming(o, b) : ~ report[o][i].ok[b[1]]
      BY <1>2, <1>6, AllocatedKept, NamingKept DEF Carried
    <3>1. Carried(o)
      BY <1>4 DEF TurnInv
    <3>2. b \in BatchIds
      BY AllocatedBatches
    <3>3. \/ registry'[b] = registry[b]
          \/ registry'[b].status = "open" /\ registry'[b].run = o
      BY <1>1, <1>3, <3>2, OpenedWereFree
    <3> QED BY <3>1, <3>3 DEF Carried, Unregistered
  <2>2. Cleared = {} /\ phase'[o] \in {"none", "sense", "discover", "open"} => units'[o] = NONE
    BY <1>6 DEF TurnInv
  <2> QED BY <1>3, <1>4, <1>5, <1>6, <2>1, <2>2, OthersWait
<1>7. CASE /\ phase' = [phase EXCEPT ![o] = "extract"]
           /\ \E order \in Orders(o) :
                units' = [units EXCEPT ![o] = [i \in DOMAIN order |-> UnitOf(o, order[i], pick)]]
  <2>1. PICK order \in Orders(o) :
          units' = [units EXCEPT ![o] = [i \in DOMAIN order |-> UnitOf(o, order[i], pick)]]
    BY <1>7
  <2>2. \A i \in DOMAIN order : order[i] \in Slots(o)
    BY <1>2, <1>3, Allocations
  <2>3. units'[o] = [i \in DOMAIN order |-> UnitOf(o, order[i], pick)]
    BY <2>1 DEF TypeOK
  <2>4. ASSUME NEW b \in Allocated(o)'
        PROVE  registry'[b].status \in Unregistered /\ registry'[b].run = o
    <3>1. PICK i \in DOMAIN order, e \in Entities : b = BatchOf(UnitOf(o, order[i], pick), e)
      BY <2>3 DEF Allocated, BatchOf
    <3>2. b = <<e, Interval(o, order[i]), pick[order[i]][e]>> /\ order[i] \in Slots(o)
      BY <2>2, <3>1 DEF BatchOf, UnitOf
    <3>3. b \in BatchIds /\ b[1] = e
      BY <1>3, <3>2, SlotsOfListing DEF Choice, BatchIds
    <3>4. registry[b] \in Rows2
      BY <3>3 DEF TypeOK, Rows2
    <3>5. registry'[b] = AllocatedRow(registry[b], ContractFor(e, o), NONE, o)
      BY <1>1, <3>2, <3>3 DEF OpenTransaction
    <3> QED BY <3>4, <3>5 DEF AllocatedRow, Rows2, RowType, Unregistered
  <2>5. Carried(o)'
    BY <2>4 DEF Carried
  <2>6. phase'[o] = "extract"
    BY <1>7 DEF TypeOK
  <2> QED BY <1>4, <1>5, <2>4, <2>5, <2>6, OthersWait
<1> QED BY <1>1, <1>6, <1>7

(* Its extracts leave the registry as open made it.                         *)
LEMMA TurnExtracts ==
  ASSUME LandInv, TurnInv, NEW o \in Days, NEW i \in Indices, Extract(o, i) \/ ExtractGivesUp(o, i)
  PROVE  TurnInv'
<1> USE DEF LandInv, FeedInv
<1>1. /\ i \in queued[o] /\ UNCHANGED <<registry, phase, units>>
      /\ queued' \in [Days -> SUBSET Indices]
      /\ queued' = queued \/ queued' = [queued EXCEPT ![o] = @ \ {i}]
  BY TypesExtract DEF Extract, ExtractGivesUp, EndExtract, warehouse
<1>2. phase[o] = "extract"
  BY <1>1 DEF QueueInv
<1>3. \A b \in Allocated(o) : registry[b].status \in Unregistered /\ registry[b].run = o
  BY <1>1 DEF TurnInv
<1>4. Carried(o)'
  BY <1>1, <1>3, AllocatedKept DEF Carried
<1>5. \A d \in Days \ {o} : queued'[d] = queued[d]
  BY <1>1
<1>6. queued'[o] # {} => \A b \in Allocated(o)' :
         registry'[b].status \in Unregistered /\ registry'[b].run = o
  BY <1>1, <1>3, AllocatedKept
<1> QED BY <1>1, <1>2, <1>4, <1>5, <1>6, OthersWait DEF Running

(* register settles each batch, and what fails one is there to be seen.     *)
LEMMA TurnRegisters ==
  ASSUME LandInv, TurnInv, NEW o \in Days, Register(o)
  PROVE  TurnInv'
<1> USE DEF LandInv, FeedInv
<1>1. /\ queued[o] = {} /\ phase[o] = "extract" /\ UNCHANGED <<units, queued, report>>
      /\ phase' = phase \/ phase' = [phase EXCEPT ![o] = "gate"]
  BY DEF Register, ReadyToRegister
<1>2. Allocated(o)' = Allocated(o) /\ \A b : Naming(o, b)' = Naming(o, b)
  BY <1>1, AllocatedKept, NamingKept
<1>3. Carried(o)'
  <2> SUFFICES ASSUME NEW b \in Allocated(o)
               PROVE  /\ registry'[b].run = o
                      /\ \/ registry'[b].status \in Unregistered
                         \/ registry'[b].status = "registered"
                         \/ /\ registry'[b].status = "failed"
                            /\ \/ registry'[b].reason = "did not report"
                               \/ \E i \in Naming(o, b) : ~ report[o][i].ok[b[1]]
    BY <1>1, <1>2 DEF Carried
  <2>1. Carried(o)
    BY <1>1 DEF TurnInv, Running
  <2>2. b \in BatchIds
    BY AllocatedBatches
  <2>3. /\ registry'[b].run = registry[b].run
        /\ \/ Left(o, b, registry[b], registry'[b])
           \/ Failed(o, b, registry[b], registry'[b])
           \/ Landed(o, b, registry[b], registry'[b])
    BY <2>2, SettledRows
  <2>4. CASE Left(o, b, registry[b], registry'[b])
    BY <2>1, <2>4 DEF Left, Carried
  <2>5. CASE Failed(o, b, registry[b], registry'[b])
    <3>1. CASE b \in Stranded(o)
      BY <2>1, <2>2, <2>3, <3>1, StrandedSaysSo DEF Carried
    <3>2. CASE b \notin Stranded(o)
      <4>1. Naming(o, b) # {} /\ First(Naming(o, b)) \in Failing(o, b)
        BY <2>5, <3>2 DEF Failed
      <4>2. \E i \in Naming(o, b) : ~ report[o][i].ok[b[1]]
        BY <4>1 DEF Failing
      <4> QED BY <2>1, <2>3, <2>5, <4>2 DEF Failed, Carried
    <3> QED BY <3>1, <3>2
  <2>6. CASE Landed(o, b, registry[b], registry'[b])
    BY <2>1, <2>3, <2>6 DEF Landed, Carried
  <2> QED BY <2>3, <2>4, <2>5, <2>6
<1>4. phase'[o] \in {"extract", "gate"} /\ \A d \in Days \ {o} : phase'[d] = phase[d]
  BY <1>1 DEF TypeOK
<1> QED BY <1>1, <1>3, <1>4, OthersWait DEF Running

(* TurnInv is an invariant. *)
LEMMA TurnStep ==
  ASSUME LandInv, TurnInv, OneByOne, [Next]_vars PROVE TurnInv'
<1> USE DEF LandInv, FeedInv
<1>1. CASE UNCHANGED <<registry, phase, units, queued, report>>
  <2>1. \A d \in Days : Carried(d) => Carried(d)'
    BY <1>1, CarriedKept
  <2>2. \A d \in Days : Allocated(d)' = Allocated(d)
    BY <1>1, AllocatedKept
  <2> QED BY <1>1, <2>1, <2>2 DEF TurnInv
<1>2. CASE SenderStep \/ UNCHANGED vars
  <2>1. UNCHANGED <<registry, phase, units, queued, report>>
    BY <1>2 DEF SenderStep, Deliver, Bump, vars, warehouse
  <2> QED BY <1>1, <2>1
<1>3. CASE \E d \in Days : RunStep(d)
  <2>1. PICK d \in Days : RunStep(d)
    BY <1>3
  <2> QED BY <2>1, TurnStarts, TurnWalks, TurnOpens, TurnExtracts, TurnRegisters DEF RunStep
<1> QED BY <1>2, <1>3 DEF Next

(* What a run finished stays so while others run. *)
LEMMA FinishedStays ==
  ASSUME LandInv, TurnInv, OneByOne, [Next]_vars, NEW d \in Days, Finished(d),
         units'[d] = units[d], phase'[d] \in {"gate", "success"}, phase[d] \in {"gate", "success"}
  PROVE  Finished(d)'
<1> USE DEF LandInv, FeedInv
<1>0. Allocated(d)' = Allocated(d) /\ Allocated(d) \subseteq BatchIds
  BY AllocatedKept, AllocatedBatches
<1>1. CASE UNCHANGED registry
  BY <1>0, <1>1 DEF Finished
<1>2. ASSUME \A b \in BatchIds :
               \/ registry'[b] = registry[b]
               \/ /\ registry'[b].run # d
                  /\ registry[b].run = d => registry[b].status \in Unregistered \cup {"absent"}
      PROVE  Finished(d)'
  <2>1. \A b \in Allocated(d) : registry'[b] = registry[b]
    BY <1>0, <1>2 DEF Finished, Unregistered
  <2> QED BY <1>0, <1>2, <2>1 DEF Finished
<1>3. ASSUME NEW o \in Days, OpenBatches(o) PROVE Finished(d)'
  <2>1. PICK pick \in [Slots(o) -> [Entities -> Sequences]] :
          /\ \A s \in Slots(o), e \in Entities :
               ChosenSequence(RowsAt(o, s, e, pick), MayReuse(o, s), pick[s][e])
          /\ OpenTransaction(o, pick)
    BY <1>3 DEF OpenBatches
  <2>2. seen[o] \in Listings /\ Choice(o, pick) /\ phase[o] = "open"
    BY <1>3, <2>1 DEF OpenBatches, QueueInv, Choice
  <2>3. o # d
    BY <2>2
  <2>4. \A b \in BatchIds :
          \/ registry'[b] = registry[b]
          \/ /\ registry[b].status \in Unregistered \cup {"absent"}
             /\ registry'[b].run = o
    BY <2>1, <2>2, OpenedWereFree
  <2> QED BY <1>2, <2>3, <2>4 DEF Unregistered
<1>4. ASSUME NEW o \in Days, Register(o) PROVE Finished(d)'
  <2>1. phase[o] = "extract"
    BY <1>4 DEF Register, ReadyToRegister
  <2>2. o # d /\ Carried(o)
    BY <2>1 DEF TurnInv, Running
  <2>3. ASSUME NEW b \in BatchIds
        PROVE  \/ registry'[b] = registry[b]
               \/ registry'[b].run # d /\ registry[b].run # d
    <3>1. /\ registry'[b].run = registry[b].run
          /\ \/ Left(o, b, registry[b], registry'[b])
             \/ Failed(o, b, registry[b], registry'[b])
             \/ Landed(o, b, registry[b], registry'[b])
      BY <1>4, SettledRows
    <3>2. b \in Stranded(o) => registry[b].run = o
      BY DEF Stranded
    <3>3. Naming(o, b) # {} => b \in Allocated(o)
      BY DEF Naming
    <3>4. b \in Allocated(o) => registry[b].run = o
      BY <2>2 DEF Carried
    <3> QED BY <2>2, <3>1, <3>2, <3>3, <3>4 DEF Left, Failed, Landed
  <2> QED BY <1>2, <2>3
<1>5. UNCHANGED registry \/ \E o \in Days : OpenBatches(o) \/ Register(o)
  BY DEF Next, SenderStep, RunStep, Deliver, Bump, Start, Sense, Discover, UpstreamFails, OpenGivesUp,
         Extract, ExtractGivesUp, RegisterGivesUp, Gate, warehouse, vars
<1> QED BY <1>1, <1>3, <1>4, <1>5

(* A register with nothing failed finishes its run. *)
LEMMA RegisterFinishes ==
  ASSUME LandInv, TurnInv, NEW d \in Days, Register(d), NoneFailed(d)
  PROVE  Finished(d)'
<1> USE DEF LandInv, FeedInv
<1>1. phase[d] = "extract" /\ UNCHANGED <<units, report>>
  BY DEF Register, ReadyToRegister
<1>2. Allocated(d)' = Allocated(d) /\ Allocated(d) \subseteq BatchIds
  BY <1>1, AllocatedKept, AllocatedBatches
<1>3. Carried(d)
  BY <1>1 DEF TurnInv, Running
<1>4. Stranded(d) = {} /\ \A b \in Allocated(d) : \A i \in Naming(d, b) : report[d][i].ok[b[1]]
  BY DEF NoneFailed
<1>5. ASSUME NEW b \in BatchIds
      PROVE  /\ registry'[b].run = registry[b].run
             /\ \/ Left(d, b, registry[b], registry'[b])
                \/ Landed(d, b, registry[b], registry'[b])
             /\ Naming(d, b) # {} => b \in Allocated(d)
             /\ registry[b].run = d /\ Naming(d, b) = {} => registry[b].status \notin Unregistered
  <2>1. Naming(d, b) # {} => b \in Allocated(d)
    BY DEF Naming
  <2>2. Failing(d, b) = {}
    BY <1>4, <2>1 DEF Failing
  <2>3. ~ Failed(d, b, registry[b], registry'[b])
    BY <1>4, <2>2 DEF Failed
  <2>4. registry[b].run = d /\ Naming(d, b) = {} => registry[b].status \notin Unregistered
    BY <1>4 DEF Stranded
  <2> QED BY <2>1, <2>3, <2>4, SettledRows
<1>6. \A b \in BatchIds : registry'[b].run = d => registry'[b].status \notin Unregistered
  BY <1>5 DEF Left, Landed, Unregistered
<1>7. ASSUME NEW b \in Allocated(d)
      PROVE  /\ registry'[b].run = d
             /\ \/ registry'[b].status = "registered"
                \/ registry'[b].status = "failed" /\ registry'[b].reason = "did not report"
  <2>1. b \in BatchIds
    BY <1>2
  <2>2. CASE Landed(d, b, registry[b], registry'[b])
    BY <1>3, <1>5, <2>1, <2>2 DEF Landed, Carried
  <2>3. CASE Left(d, b, registry[b], registry'[b])
    <3>1. \A i \in Naming(d, b) : report[d][i].ok[b[1]]
      BY <1>4
    <3> QED BY <1>3, <1>5, <2>1, <2>3, <3>1 DEF Left, Carried, Unregistered
  <2> QED BY <1>5, <2>1, <2>2, <2>3
<1> QED BY <1>2, <1>6, <1>7 DEF Finished

(* The summary of register speaks at the gate, and of a run that finished.  *)
LEMMA SummaryStep ==
  ASSUME SuccessInv, OneByOne, [Next]_vars PROVE SummaryInv'
<1> USE DEF SuccessInv, LandInv, FeedInv
<1> DEFINE Passed(d) == phase[d] = "success" \/ (phase[d] = "gate" /\ summary[d] = TRUE)
           Stays(d) ==
             /\ summary'[d] = TRUE => phase'[d] = "gate"
             /\ Passed(d)' => Passed(d) /\ units'[d] = units[d]
<1>0. \A d \in Days : (summary[d] = TRUE => phase[d] = "gate") /\ (Passed(d) => Finished(d))
  BY DEF SummaryInv
<1>1. ASSUME \A d \in Days : Stays(d)
      PROVE  SummaryInv'
  <2>1. ASSUME NEW d \in Days, Passed(d)'
        PROVE  Finished(d)'
    <3>1. Finished(d) /\ Passed(d) /\ units'[d] = units[d]
      BY <1>0, <1>1, <2>1
    <3>2. phase[d] \in {"gate", "success"} /\ phase'[d] \in {"gate", "success"}
      BY <2>1, <3>1
    <3> QED BY <3>1, <3>2, FinishedStays
  <2> QED BY <1>1, <2>1 DEF SummaryInv
<1>2. CASE UNCHANGED <<phase, units, summary>>
  <2>1. \A d \in Days : Stays(d)
    BY <1>0, <1>2
  <2> QED BY <1>1, <2>1
<1>3. CASE SenderStep \/ UNCHANGED vars
  <2>1. UNCHANGED <<phase, units, summary>>
    BY <1>3 DEF SenderStep, Deliver, Bump, vars
  <2> QED BY <1>2, <2>1
<1>4. ASSUME NEW o \in Days, Start(o) \/ Sense(o) \/ Discover(o) \/ UpstreamFails(o)
                             \/ RegisterGivesUp(o)
      PROVE  SummaryInv'
  <2>1. /\ UNCHANGED <<units, summary>> /\ \A d \in Days \ {o} : phase'[d] = phase[d]
        /\ phase[o] # "gate" /\ phase'[o] # "success"
    BY <1>4 DEF Start, Sense, Discover, UpstreamFails, RegisterGivesUp, ReadyToRegister, TypeOK, Ended
  <2>2. summary[o] # TRUE
    BY <1>0, <2>1
  <2>3. Stays(o)
    BY <2>1, <2>2
  <2>4. \A d \in Days \ {o} : Stays(d)
    BY <1>0, <2>1
  <2> HIDE DEF Stays
  <2> QED BY <1>1, <2>3, <2>4
<1>5. ASSUME NEW o \in Days, OpenGivesUp(o) \/ OpenBatches(o)
      PROVE  SummaryInv'
  <2>1. /\ UNCHANGED summary /\ phase[o] = "open" /\ phase'[o] \in {"open", "extract"}
        /\ \A d \in Days \ {o} : phase'[d] = phase[d] /\ units'[d] = units[d]
    BY <1>5 DEF OpenGivesUp, OpenBatches, TypeOK
  <2>2. summary[o] # TRUE
    BY <1>0, <2>1
  <2>3. Stays(o)
    BY <2>1, <2>2
  <2>4. \A d \in Days \ {o} : Stays(d)
    BY <1>0, <2>1
  <2> HIDE DEF Stays
  <2> QED BY <1>1, <2>3, <2>4
<1>6. ASSUME NEW o \in Days, NEW i \in Indices, Extract(o, i) \/ ExtractGivesUp(o, i)
      PROVE  SummaryInv'
  BY <1>2, <1>6 DEF Extract, ExtractGivesUp
<1>7. ASSUME NEW o \in Days, Gate(o) PROVE SummaryInv'
  <2>1. /\ UNCHANGED units /\ phase[o] = "gate" /\ summary'[o] = NONE
        /\ phase'[o] = "success" => summary[o] = TRUE
        /\ \A d \in Days \ {o} : phase'[d] = phase[d] /\ summary'[d] = summary[d]
    BY <1>7 DEF Gate, GatePasses, TypeOK
  <2>2. summary'[o] # TRUE
    BY <2>1, NoneAssumption
  <2>3. Stays(o)
    BY <2>1, <2>2
  <2>4. \A d \in Days \ {o} : Stays(d)
    BY <1>0, <2>1
  <2> HIDE DEF Stays
  <2> QED BY <1>1, <2>3, <2>4
<1>8. ASSUME NEW o \in Days, Register(o) PROVE SummaryInv'
  <2>1. /\ phase[o] = "extract" /\ UNCHANGED units
        /\ \A d \in Days \ {o} : phase'[d] = phase[d] /\ summary'[d] = summary[d]
        /\ \/ phase'[o] = "gate" /\ summary'[o] = NoneFailed(o)
           \/ phase'[o] = phase[o] /\ summary'[o] = summary[o]
    BY <1>8 DEF Register, ReadyToRegister, TypeOK
  <2>2. summary[o] # TRUE
    BY <2>1 DEF SummaryInv
  <2>3. \A d \in Days \ {o} : phase'[d] = "success" \/ (phase'[d] = "gate" /\ summary'[d] = TRUE)
                              => Finished(d)'
    BY <2>1, FinishedStays DEF SummaryInv
  <2>4. phase'[o] = "success" \/ (phase'[o] = "gate" /\ summary'[o] = TRUE) => Finished(o)'
    BY <1>8, <2>1, RegisterFinishes
  <2> QED BY <2>1, <2>2, <2>3, <2>4 DEF SummaryInv
<1>9. CASE \E o \in Days : RunStep(o)
  <2>1. PICK o \in Days : RunStep(o)
    BY <1>9
  <2> QED BY <1>4, <1>5, <1>6, <1>7, <1>8, <2>1 DEF RunStep
<1> QED BY <1>3, <1>9 DEF Next

(* A run that ends in success left no batch of its own open, and registered *)
(* every one it allocated but those whose extract never reported: for every *)
(* number of days, names, contents and sequences, with tasks that die after *)
(* their commit, for runs that take turns and are not started again; or for *)
(* a single day, however often its run is.                                  *)
THEOREM SuccessMeansLandedCorrect == OneByOne => (Spec => []SuccessMeansLanded)
<1> SUFFICES ASSUME OneByOne PROVE Spec => []SuccessMeansLanded
  OBVIOUS
<1>1. Init => SuccessInv
  <2> SUFFICES ASSUME Init PROVE SuccessInv
    OBVIOUS
  <2>1. LandInv
    BY LandAtFirst
  <2>2. \A d \in Days : Allocated(d) = {}
    BY AllocatedKept DEF Init
  <2>3. TurnInv
    BY <2>2 DEF Init, TurnInv, Carried, Running
  <2>4. SummaryInv
    BY NoneAssumption DEF Init, SummaryInv
  <2> QED BY <2>1, <2>3, <2>4 DEF SuccessInv
<1>2. SuccessInv /\ [Next]_vars => SuccessInv'
  BY LandStep, TurnStep, SummaryStep DEF SuccessInv
<1>3. SuccessInv => SuccessMeansLanded
  BY DEF SuccessInv, SummaryInv, Finished, SuccessMeansLanded
<1> QED BY <1>1, <1>2, <1>3, PTL DEF Spec

-----------------------------------------------------------------------------
(***************************************************************************)
(* A declaration lands once, for runs that take turns.                     *)
(***************************************************************************)
(* Runs go one at a time, and none is started again. *)
InTurns == ~ Overlap /\ Cleared = {}

BeforeExtract == {"none", "sense", "discover", "open"}

(* A report is about a unit of its run's one allocation, and says that the  *)
(* file was read only if open did not refuse it.                            *)
SpokenInv ==
  \A d \in Days, i \in Indices : report[d][i] # NONE =>
    /\ phase[d] \notin BeforeExtract
    /\ i \in DOMAIN units[d] /\ report[d][i].unit = units[d][i]
    /\ report[d][i].ok["settlements"] /\ report[d][i].unit.key # NoFile
         => report[d][i].unit.refuse = NONE

(* A unit whose file may be read. *)
Readable(u) == u.key # NoFile /\ u.refuse = NONE

(* Such a unit declares what nothing that landed and no other such unit of  *)
(* its allocation does.                                                     *)
Distinct(d) ==
  \A i \in DOMAIN units[d] : Readable(units[d][i]) =>
    /\ \A c \in Contents : files[c] # NONE => ~ SameDeclaration(c, units[d][i].content)
    /\ \A j \in DOMAIN units[d] :
         Readable(units[d][j]) => ~ SameDeclaration(units[d][j].content, units[d][i].content)

DistinctInv == \A d \in Days : phase[d] = "extract" /\ units[d] # NONE => Distinct(d)

DeclaredInv == LandInv /\ TurnInv /\ SpokenInv /\ DistinctInv /\ DeclarationIsOnce

(* Two files that declare the same do so of each other. *)
LEMMA DeclarationsMatch ==
  ASSUME NEW b, NEW c, SameDeclaration(b, c) PROVE SameDeclaration(c, b)
BY DEF SameDeclaration

(* Only a register records a file. *)
LEMMA OnlyRegisterRecords ==
  ASSUME [Next]_vars
  PROVE  UNCHANGED files \/ \E d \in Days : Register(d)
BY DEF Next, SenderStep, RunStep, Deliver, Bump, Start, Sense, Discover, UpstreamFails, OpenBatches,
       OpenGivesUp, Extract, ExtractGivesUp, RegisterGivesUp, Gate, warehouse, vars

(* What register records anew is the file of a readable unit. *)
LEMMA RecordedIsReadable ==
  ASSUME LandInv, SpokenInv, NEW d \in Days, Register(d), NEW c \in Contents,
         files[c] = NONE, files'[c] # NONE
  PROVE  /\ phase[d] = "extract" /\ units[d] # NONE
         /\ \E i \in DOMAIN units[d] : Readable(units[d][i]) /\ units[d][i].content = c
<1> USE DEF LandInv, FeedInv
<1>1. phase[d] = "extract" /\ files'[c] = Recorded(d)[c]
  BY DEF Register, ReadyToRegister, RegisterTransaction
<1>2. PICK i \in Landing(d, c) : TRUE
  BY <1>1 DEF Recorded
<1>3. PICK q \in Stems : i \in Naming(d, <<"settlements", q[1], q[2]>>)
  BY DEF Landing, Current
<1>4. i \in Indices /\ report[d][i] # NONE /\ Allocated(d) # {}
  BY <1>3 DEF Naming
<1>5. report[d][i].unit.content = c /\ report[d][i].ok["settlements"]
  BY DEF Landing
<1>6. report[d][i].unit.key # NoFile
  BY <1>4, <1>5, NoneAssumption DEF ClaimInv, Owned
<1>7. units[d] # NONE
  BY <1>4 DEF Allocated
<1>8. i \in DOMAIN units[d] /\ Readable(units[d][i]) /\ units[d][i].content = c
  BY <1>4, <1>5, <1>6 DEF SpokenInv, Readable
<1> QED BY <1>1, <1>7, <1>8

(* The readable units of an allocation declare different things, and none   *)
(* what landed.                                                             *)
LEMMA OpenedDistinct ==
  ASSUME LandInv, NEW o \in Days, NEW pick, seen[o] \in Listings, NEW order,
         \A i \in DOMAIN order : order[i] \in Slots(o),
         units'[o] = [i \in DOMAIN order |-> UnitOf(o, order[i], pick)], UNCHANGED files
  PROVE  Distinct(o)'
<1> DEFINE u(i) == UnitOf(o, order[i], pick)
<1>1. ASSUME NEW i \in DOMAIN order, Readable(u(i))
      PROVE  /\ order[i] \in Admitted(o) /\ u(i).content = seen[o][order[i]]
             /\ ~ Conflicts(o, order[i])
  <2>1. order[i] # NoFile /\ u(i).content = seen[o][order[i]] /\ Refusal(o, order[i]) = NONE
    BY <1>1 DEF Readable, UnitOf
  <2>2. order[i] \in Admitted(o)
    BY <2>1 DEF Slots
  <2>3. ~ Conflicts(o, order[i])
    BY <2>1, NoneAssumption DEF Refusal, Reasons, Verdicts
  <2> QED BY <2>1, <2>2, <2>3
<1>2. ASSUME NEW i \in DOMAIN order, NEW j \in DOMAIN order, Readable(u(i)), Readable(u(j))
      PROVE  ~ SameDeclaration(u(j).content, u(i).content)
  <2>1. /\ order[i] \in Admitted(o) /\ u(i).content = seen[o][order[i]] /\ ~ Conflicts(o, order[i])
        /\ order[j] \in Admitted(o) /\ u(j).content = seen[o][order[j]] /\ ~ Conflicts(o, order[j])
    BY <1>1, <1>2
  <2>2. order[i] \in Nat /\ order[j] \in Nat
    BY <2>1, FeedAssumption DEF Admitted
  <2>3. CASE order[j] < order[i]
    BY <2>1, <2>3 DEF Conflicts
  <2>4. CASE order[i] < order[j]
    BY <2>1, <2>4, DeclarationsMatch DEF Conflicts
  <2>5. CASE order[i] = order[j]
    BY <2>1, <2>5 DEF SameDeclaration
  <2> QED BY <2>2, <2>3, <2>4, <2>5
<1>3. ASSUME NEW i \in DOMAIN order, Readable(u(i)), NEW c \in Contents, files[c] # NONE
      PROVE  ~ SameDeclaration(c, u(i).content)
  BY <1>1, <1>3 DEF Conflicts
<1>4. DOMAIN units'[o] = DOMAIN order /\ \A i \in DOMAIN order : units'[o][i] = u(i)
  OBVIOUS
<1> HIDE DEF u
<1> QED BY <1>2, <1>3, <1>4 DEF Distinct

(* Reports are spoken of this way after every step. *)
LEMMA SpokenStep ==
  ASSUME LandInv, TurnInv, SpokenInv, InTurns, [Next]_vars
  PROVE  SpokenInv'
<1> USE DEF LandInv, FeedInv
<1>1. ASSUME UNCHANGED report,
             \A d \in Days : \/ units'[d] = units[d] /\ (phase'[d] \in BeforeExtract => phase[d] \in BeforeExtract)
                             \/ phase[d] \in BeforeExtract
      PROVE  SpokenInv'
  BY <1>1 DEF SpokenInv
<1>2. CASE SenderStep \/ UNCHANGED vars
  <2>1. UNCHANGED <<report, units, phase>>
    BY <1>2 DEF SenderStep, Deliver, Bump, vars
  <2> QED BY <1>1, <2>1
<1>3. ASSUME NEW o \in Days, Walks(o) \/ Register(o)
      PROVE  SpokenInv'
  <2>1. UNCHANGED report
    BY <1>3 DEF Walks, Start, Sense, Discover, UpstreamFails, OpenGivesUp, Register, RegisterGivesUp, Gate
  <2>2. \A d \in Days \ {o} : phase'[d] = phase[d] /\ units'[d] = units[d]
    BY <1>3 DEF Walks, Start, Sense, Discover, UpstreamFails, OpenGivesUp, Register, RegisterGivesUp,
                Gate, TypeOK
  <2>3. \/ units'[o] = units[o] /\ (phase'[o] \in BeforeExtract => phase[o] \in BeforeExtract)
        \/ phase[o] \in BeforeExtract
    BY <1>3 DEF Walks, Start, Sense, Discover, UpstreamFails, OpenGivesUp, Register, RegisterGivesUp,
                ReadyToRegister, Gate, TypeOK, BeforeExtract, InTurns
  <2> QED BY <1>1, <2>1, <2>2, <2>3
<1>4. ASSUME NEW o \in Days, OpenBatches(o) PROVE SpokenInv'
  <2>1. UNCHANGED report /\ phase[o] \in BeforeExtract
    BY <1>4 DEF OpenBatches, BeforeExtract
  <2>2. \A d \in Days \ {o} : phase'[d] = phase[d] /\ units'[d] = units[d]
    BY <1>4 DEF OpenBatches, TypeOK
  <2> QED BY <1>1, <2>1, <2>2
<1>5. ASSUME NEW o \in Days, NEW i \in Indices, Extract(o, i) \/ ExtractGivesUp(o, i)
      PROVE  SpokenInv'
  <2>1. i \in queued[o] /\ UNCHANGED <<phase, units>>
    BY <1>5 DEF Extract, ExtractGivesUp
  <2>2. phase[o] = "extract" /\ i \in DOMAIN units[o]
    BY <2>1 DEF QueueInv
  <2>3. \/ report' = report
        \/ report' = [report EXCEPT ![o][i] = NONE]
        \/ \E r : /\ report' = [report EXCEPT ![o][i] = r]
                  /\ r.unit = units[o][i]
                  /\ r.ok["settlements"] /\ r.unit.key # NoFile => r.unit.refuse = NONE
    <3>1. CASE ExtractGivesUp(o, i)
      BY <3>1 DEF ExtractGivesUp, EndExtract
    <3>2. CASE Extract(o, i)
      <4> DEFINE u == units[o][i]
      <4>1. CASE Unread(u)
        <5>1. report' = [report EXCEPT ![o][i] = ReportUnread(u)]
          BY <3>2, <4>1 DEF Extract, EndExtract
        <5>2. ReportUnread(u).unit = u /\ (ReportUnread(u).ok["settlements"] => u.key = NoFile)
          BY DEF ReportUnread, Said, AllFit, AllFail, Entities
        <5> QED BY <5>1, <5>2
      <4>2. CASE ~ Unread(u)
        <5>1. \/ report' = [report EXCEPT ![o][i] = ReportRead(u)]
              \/ report' = [report EXCEPT ![o][i] = NONE]
          BY <3>2, <4>2 DEF Extract, EndExtract
        <5>2. ReportRead(u).unit = u /\ u.refuse = NONE
          BY <4>2 DEF ReportRead, Said, Unread
        <5> QED BY <5>1, <5>2
      <4> QED BY <4>1, <4>2
    <3> QED BY <1>5, <3>1, <3>2
  <2>4. ASSUME NEW d \in Days, NEW j \in Indices
        PROVE  \/ report'[d][j] = report[d][j] \/ report'[d][j] = NONE
               \/ /\ d = o /\ j = i /\ report'[d][j].unit = units[o][i]
                  /\ report'[d][j].ok["settlements"] /\ report'[d][j].unit.key # NoFile
                       => report'[d][j].unit.refuse = NONE
    BY <2>3 DEF TypeOK
  <2> QED BY <2>1, <2>2, <2>4 DEF SpokenInv, BeforeExtract
<1>6. CASE \E d \in Days : RunStep(d)
  BY <1>3, <1>4, <1>5, <1>6 DEF RunStep, Walks
<1> QED BY <1>2, <1>6 DEF Next

(* So the readable units of an allocation stay distinct.                    *)
LEMMA DistinctStep ==
  ASSUME DeclaredInv, InTurns, [Next]_vars
  PROVE  DistinctInv'
<1> USE DEF DeclaredInv, LandInv, FeedInv
<1>1. ASSUME UNCHANGED files, NEW d \in Days, units'[d] = units[d], Distinct(d)
      PROVE  Distinct(d)'
  BY <1>1 DEF Distinct
<1>2. ASSUME NEW o \in Days, OpenBatches(o) PROVE DistinctInv'
  <2>1. UNCHANGED files /\ phase[o] = "open" /\ Cardinality(Slots(o)) <= MaxUnits
    BY <1>2 DEF OpenBatches
  <2>2. \A d \in Days \ {o} : phase'[d] = phase[d] /\ units'[d] = units[d]
    BY <1>2 DEF OpenBatches, TypeOK
  <2>3. seen[o] \in Listings
    BY <2>1 DEF QueueInv
  <2>4. PICK pick \in [Slots(o) -> [Entities -> Sequences]] :
          \/ \E order \in Orders(o) :
               units' = [units EXCEPT ![o] = [i \in DOMAIN order |-> UnitOf(o, order[i], pick)]]
          \/ UNCHANGED <<phase, units>>
    BY <1>2 DEF OpenBatches
  <2>5. CASE UNCHANGED <<phase, units>>
    BY <1>1, <2>1, <2>5 DEF DistinctInv
  <2>6. CASE \E order \in Orders(o) :
               units' = [units EXCEPT ![o] = [i \in DOMAIN order |-> UnitOf(o, order[i], pick)]]
    <3>1. PICK order \in Orders(o) :
            units' = [units EXCEPT ![o] = [i \in DOMAIN order |-> UnitOf(o, order[i], pick)]]
      BY <2>6
    <3>2. units'[o] = [i \in DOMAIN order |-> UnitOf(o, order[i], pick)]
      BY <3>1 DEF TypeOK
    <3>3. \A i \in DOMAIN order : order[i] \in Slots(o)
      BY DEF Orders
    <3>4. Distinct(o)'
      BY <2>1, <2>3, <3>2, <3>3, OpenedDistinct
    <3> QED BY <1>1, <2>1, <2>2, <3>4 DEF DistinctInv
  <2> QED BY <2>4, <2>5, <2>6
<1>3. ASSUME NEW o \in Days, Register(o) PROVE DistinctInv'
  <2>1. phase[o] = "extract" /\ UNCHANGED units
    BY <1>3 DEF Register, ReadyToRegister
  <2>2. \A d \in Days \ {o} : phase'[d] # "extract"
    BY <1>3, <2>1 DEF Register, TypeOK, TurnInv, Running
  <2>3. ASSUME units[o] # NONE PROVE Distinct(o)'
    <3>1. Distinct(o)
      BY <2>1, <2>3 DEF DistinctInv
    <3>2. ASSUME NEW i \in DOMAIN units[o], Readable(units[o][i]), NEW c \in Contents,
                 files'[c] # NONE
          PROVE  ~ SameDeclaration(c, units[o][i].content)
      <4>1. CASE files[c] # NONE
        BY <3>1, <3>2, <4>1 DEF Distinct
      <4>2. CASE files[c] = NONE
        <5>1. \E j \in DOMAIN units[o] : Readable(units[o][j]) /\ units[o][j].content = c
          BY <1>3, <3>2, <4>2, RecordedIsReadable
        <5> QED BY <3>1, <3>2, <5>1 DEF Distinct
      <4> QED BY <4>1, <4>2
    <3> QED BY <2>1, <3>1, <3>2 DEF Distinct
  <2> QED BY <2>1, <2>2, <2>3 DEF DistinctInv
<1>4. ASSUME UNCHANGED files,
             \A d \in Days : \/ units'[d] = units[d] /\ (phase'[d] = "extract" => phase[d] = "extract")
                             \/ units'[d] = NONE
      PROVE  DistinctInv'
  BY <1>1, <1>4 DEF DistinctInv
<1>5. CASE SenderStep \/ UNCHANGED vars
  <2>1. UNCHANGED <<files, units, phase>>
    BY <1>5 DEF SenderStep, Deliver, Bump, vars, warehouse
  <2> QED BY <1>4, <2>1
<1>6. ASSUME NEW o \in Days, Walks(o) PROVE DistinctInv'
  <2>1. UNCHANGED files /\ \A d \in Days \ {o} : phase'[d] = phase[d] /\ units'[d] = units[d]
    BY <1>6 DEF Walks, Start, Sense, Discover, UpstreamFails, OpenGivesUp, RegisterGivesUp, Gate,
                TypeOK, warehouse
  <2>2. \/ units'[o] = units[o] /\ (phase'[o] = "extract" => phase[o] = "extract")
        \/ units'[o] = NONE
    <3>1. CASE UpstreamFails(o)
      BY <3>1 DEF UpstreamFails, TurnInv, InTurns
    <3>2. CASE ~ UpstreamFails(o)
      BY <1>6, <3>2 DEF Walks, Start, Sense, Discover, OpenGivesUp, RegisterGivesUp, Gate, TypeOK
    <3> QED BY <3>1, <3>2
  <2> QED BY <1>4, <2>1, <2>2
<1>7. ASSUME NEW o \in Days, NEW i \in Indices, Extract(o, i) \/ ExtractGivesUp(o, i)
      PROVE  DistinctInv'
  BY <1>4, <1>7 DEF Extract, ExtractGivesUp, warehouse
<1>8. CASE \E d \in Days : RunStep(d)
  BY <1>2, <1>3, <1>6, <1>7, <1>8 DEF RunStep, Walks
<1> QED BY <1>5, <1>8 DEF Next

(* And no two files that landed declare the same.                           *)
LEMMA DeclaredStep ==
  ASSUME DeclaredInv, InTurns, [Next]_vars
  PROVE  DeclarationIsOnce'
<1> SUFFICES ASSUME NEW b \in Contents, NEW c \in Contents, SameDeclaration(b, c),
                    files'[b] # NONE, files'[c] # NONE
             PROVE  FALSE
  BY DEF DeclarationIsOnce, SameDeclaration
<1>1. files[b] = NONE \/ files[c] = NONE
  BY DEF DeclaredInv, DeclarationIsOnce
<1>2. PICK d \in Days : Register(d)
  BY <1>1, OnlyRegisterRecords
<1>3. LandInv /\ SpokenInv /\ DistinctInv
  BY DEF DeclaredInv
<1>4. CASE files[b] = NONE
  <2>1. PICK i \in DOMAIN units[d] : Readable(units[d][i]) /\ units[d][i].content = b
    BY <1>2, <1>3, <1>4, RecordedIsReadable
  <2>2. Distinct(d)
    BY <1>2, <1>3, <1>4, RecordedIsReadable DEF DistinctInv
  <2>3. CASE files[c] # NONE
    BY <2>1, <2>2, <2>3, DeclarationsMatch DEF Distinct
  <2>4. CASE files[c] = NONE
    <3>1. PICK j \in DOMAIN units[d] : Readable(units[d][j]) /\ units[d][j].content = c
      BY <1>2, <1>3, <2>4, RecordedIsReadable
    <3> QED BY <2>1, <2>2, <3>1, DeclarationsMatch DEF Distinct
  <2> QED BY <2>3, <2>4
<1>5. CASE files[c] = NONE /\ files[b] # NONE
  <2>1. PICK i \in DOMAIN units[d] : Readable(units[d][i]) /\ units[d][i].content = c
    BY <1>2, <1>3, <1>5, RecordedIsReadable
  <2>2. Distinct(d)
    BY <1>2, <1>3, <1>5, RecordedIsReadable DEF DistinctInv
  <2> QED BY <1>5, <2>1, <2>2 DEF Distinct
<1> QED BY <1>1, <1>4, <1>5

(* Two files with different content that declare the same date, sequence    *)
(* and revision never both land: for every number of days, names and        *)
(* contents, with tasks that die after their commit, for runs that take     *)
(* turns and are not started again.                                         *)
THEOREM DeclarationIsOnceCorrect == InTurns => (Spec => []DeclarationIsOnce)
<1> SUFFICES ASSUME InTurns PROVE Spec => []DeclarationIsOnce
  OBVIOUS
<1>1. Init => DeclaredInv
  <2> SUFFICES ASSUME Init PROVE DeclaredInv
    OBVIOUS
  <2>1. LandInv
    BY LandAtFirst
  <2>2. \A d \in Days : Allocated(d) = {}
    BY AllocatedKept DEF Init
  <2>3. TurnInv
    BY <2>2 DEF Init, TurnInv, Carried, Running
  <2>4. SpokenInv /\ DistinctInv /\ DeclarationIsOnce
    BY DEF Init, SpokenInv, DistinctInv, DeclarationIsOnce
  <2> QED BY <2>1, <2>3, <2>4 DEF DeclaredInv
<1>2. DeclaredInv /\ [Next]_vars => DeclaredInv'
  <2> SUFFICES ASSUME DeclaredInv, [Next]_vars PROVE DeclaredInv'
    OBVIOUS
  <2>1. OneByOne
    BY DEF InTurns, OneByOne
  <2>2. LandInv /\ TurnInv /\ SpokenInv
    BY DEF DeclaredInv
  <2> QED BY <2>1, <2>2, LandStep, TurnStep, SpokenStep, DistinctStep, DeclaredStep DEF DeclaredInv
<1>3. DeclaredInv => DeclarationIsOnce
  BY DEF DeclaredInv
<1> QED BY <1>1, <1>2, <1>3, PTL DEF Spec
=============================================================================
