----------------------- MODULE SimulatedSourceProofs -----------------------
(***************************************************************************)
(* Proofs about the simulation.  First SimulatedSource, for every value of *)
(* its constants: any number of tickers beside a seed, any timeline of     *)
(* drift, any set of foreign keys, any load and any number of processes    *)
(* killed.  Then ClearingFiles, the card processor beside it.              *)
(***************************************************************************)
EXTENDS SimulatedSource, ClearingFiles, FiniteSetTheorems, SequenceTheorems, WellFoundedInduction, TLAPS

-----------------------------------------------------------------------------
(***************************************************************************)
(* Types.                                                                  *)
(***************************************************************************)
Names == Profiles \cup {"none"}
SimRows == [anchor : Nat, date : Nat, seq : Nat, profile : Names]
LogRows == [date : Nat, seq : Nat, profile : Names]
TickStates == {"idle", "ready", "working", "fired", "committed"}
Ticks == [at : TickStates, dates : Seq(Nat), profile : Names]
SeedStates == {"idle", "generated", "cleared", "reset", "repaired", "writing", "journalled",
               "dropping", "copying", "restoring", "loaded"}
SeedRows == [at : SeedStates, profile : Names, anchor : Nat,
             fired : SUBSET Events, dropped : SUBSET Keys, failed : BOOLEAN]
Journals == [file : {"absent", "torn", "written"}, names : SUBSET Keys]

(* Each process and each table, on its own.  A tick that is under way has a *)
(* day before it.                                                           *)
SourceTypes ==
  /\ sim \in SimRows \cup {Unseeded}
  /\ tickLog \in Seq(LogRows)
  /\ driftLog \in Seq(Events)
  /\ parts \in 0 .. Parts
  /\ keys \subseteq Keys
  /\ journal \in Journals
  /\ tick \in [Tickers -> Ticks]
  /\ \A t \in Tickers : tick[t].at # "idle" => tick[t].dates # <<>>
  /\ seed \in SeedRows

(* Only a seeded source is ticked.  The state row is held by one tick at a  *)
(* time, and the day that tick holds it for is the one after the simulated  *)
(* day, until it commits.                                                   *)
RowInv ==
  /\ \A t \in Tickers : tick[t].at # "idle" => sim # Unseeded
  /\ \A t \in Tickers : InTransaction(t) => Head(tick[t].dates) = sim.date + 1
  /\ \A t, u \in Tickers : InTransaction(t) /\ InTransaction(u) => t = u

(* A seed past the reset has put back what the last one took off, and one   *)
(* that takes keys off has them all in the journal.                         *)
LoadInv ==
  /\ Keys \ keys \subseteq journal.names
  /\ seed.at \in {"repaired", "writing", "loaded"} => keys = Keys
  /\ seed.at \in {"writing", "journalled", "dropping", "copying", "restoring"} =>
       seed.dropped = Keys
  /\ seed.at \in {"journalled", "dropping", "copying", "restoring"} => journal.names = Keys
  /\ seed.at = "restoring" => (seed.failed \/ parts = Parts)
  /\ seed.at = "loaded" => parts = Parts

LogInv == TickedDayByDay /\ DriftOnTime /\ LogIsInTheSchema
SourceInv == SourceTypes /\ RowInv /\ LogInv /\ LoadInv
-----------------------------------------------------------------------------
(***************************************************************************)
(* Sequences of days and of events.                                        *)
(***************************************************************************)
(* What a tick command may ask for is a sequence of days, and not empty.    *)
LEMMA CommandsAreDays ==
  ASSUME SourceTypes, sim # Unseeded, NEW dates \in Commands
  PROVE  dates \in Seq(Nat) /\ dates # <<>>
<1>0. sim.date \in Nat /\ MaxDay \in Nat
  BY SourceAssumption DEF SourceTypes, SimRows
<1>1. CASE dates = <<NextDay>>
  BY <1>1 DEF NextDay
<1>2. CASE \E d \in 1 .. MaxDay : dates = <<d>>
  BY <1>2, <1>0
<1>3. CASE \E d \in sim.date + 1 .. MaxDay : dates = [i \in 1 .. d - sim.date |-> sim.date + i]
  <2>1. PICK d \in sim.date + 1 .. MaxDay : dates = [i \in 1 .. d - sim.date |-> sim.date + i]
    BY <1>3
  <2>2. d - sim.date \in Nat \ {0} /\ \A i \in 1 .. d - sim.date : sim.date + i \in Nat
    BY <1>0
  <2>3. dates \in [1 .. d - sim.date -> Nat]
    BY <2>1, <2>2
  <2>4. dates \in Seq(Nat)
    BY <2>2, <2>3, SeqDef
  <2>5. Len(dates) = d - sim.date
    BY <2>2, <2>3, <2>4, LenProperties
  <2> QED BY <2>2, <2>4, <2>5, EmptySeq
<1> QED BY <1>1, <1>2, <1>3 DEF Commands

LEMMA FirstReplaced ==
  ASSUME NEW dates \in Seq(Nat), dates # <<>>, NEW d \in Nat
  PROVE  LET new == [dates EXCEPT ![1] = d]
         IN  new \in Seq(Nat) /\ new # <<>> /\ Head(new) = d
<1> DEFINE new == [dates EXCEPT ![1] = d]
<1>1. Len(dates) \in Nat \ {0}
  BY EmptySeq
<1>2. new \in Seq(Nat) /\ Len(new) = Len(dates) /\ new[1] = d
  BY <1>1, ExceptSeq
<1>3. new # <<>>
  BY <1>1, <1>2, EmptySeq
<1> HIDE DEF new
<1>4. Head(new) = new[1]
  BY <1>2, <1>3
<1> QED BY <1>2, <1>3, <1>4 DEF new

(* An order of a set of events lists each of them once. *)
LEMMA OrderListsOnce ==
  ASSUME NEW S \in SUBSET Events, NEW order \in SetToSeqs(S)
  PROVE  order \in Seq(Events) /\ ToSet(order) = S /\ Len(order) = Cardinality(S)
<1> DEFINE n == Cardinality(S)
<1>1. IsFiniteSet(S)
  BY SourceAssumption, FS_Subset
<1>2. n \in Nat
  BY <1>1, FS_CardinalityType
<1>3. order \in [1 .. n -> S] /\ \A i, j \in 1 .. n : i # j => order[i] # order[j]
  BY DEF SetToSeqs
<1>4. order \in Injection(1 .. n, S)
  BY <1>3 DEF Injection, IsInjective
<1>5. Cardinality(1 .. n) = n
  BY <1>2, FS_Interval
<1>6. order \in Surjection(1 .. n, S)
  BY <1>1, <1>4, <1>5, FS_Injection
<1>7. order \in [1 .. n -> Events]
  BY <1>3
<1>8. order \in Seq(Events)
  BY <1>2, <1>7, SeqDef
<1>9. Len(order) = n
  BY <1>2, <1>7, <1>8, LenProperties
<1> HIDE DEF n
<1>10. ToSet(order) = S
  BY <1>3, <1>6 DEF ToSet, Surjection
<1> QED BY <1>8, <1>9, <1>10 DEF n

LEMMA LoggedAppended ==
  ASSUME NEW s \in Seq(Events), NEW t \in Seq(Events)
  PROVE  s \o t \in Seq(Events) /\ ToSet(s \o t) = ToSet(s) \cup ToSet(t)
                                /\ Len(s \o t) = Len(s) + Len(t)
<1>1. s \o t \in Seq(Events) /\ Len(s \o t) = Len(s) + Len(t)
  BY ConcatProperties
<1>2. Range(s \o t) = Range(s) \cup Range(t)
  BY RangeConcatenation
<1>3. \A r : ToSet(r) = Range(r)
  BY DEF ToSet, Range
<1> QED BY <1>1, <1>2, <1>3

LEMMA LoggedEvents ==
  ASSUME NEW s \in Seq(Events)
  PROVE  ToSet(s) \subseteq Events /\ IsFiniteSet(ToSet(s))
<1>1. ToSet(s) \subseteq Events
  BY LenProperties DEF ToSet
<1> QED BY <1>1, SourceAssumption, FS_Subset
-----------------------------------------------------------------------------
(***************************************************************************)
(* What a step does to the processes.                                      *)
(***************************************************************************)
LEMMA TypeInit == Init => SourceTypes
<1> SUFFICES ASSUME Init PROVE SourceTypes
  OBVIOUS
<1>1. tickLog \in Seq(LogRows) /\ driftLog \in Seq(Events) /\ <<>> \in Seq(Nat)
  BY EmptySeq DEF Init
<1>2. [at |-> "idle", dates |-> <<>>, profile |-> "none"] \in Ticks
  BY <1>1 DEF Ticks, TickStates, Names
<1>3. seed \in SeedRows
  BY DEF Init, SeedRows, SeedStates, Names
<1>4. journal \in Journals
  BY DEF Init, Absent, Journals
<1> QED BY <1>1, <1>2, <1>3, <1>4, SourceAssumption DEF Init, SourceTypes, Unseeded

LEMMA TickEndsType ==
  ASSUME SourceTypes, NEW t \in Tickers, TickEnds(t)
  PROVE  /\ tick' \in [Tickers -> Ticks]
         /\ \A u \in Tickers : tick'[u].at # "idle" => u # t /\ tick'[u] = tick[u]
<1>1. [at |-> "idle", dates |-> <<>>, profile |-> "none"] \in Ticks
  BY EmptySeq DEF Ticks, TickStates, Names
<1> QED BY <1>1 DEF SourceTypes, TickEnds

LEMMA TickGoesType ==
  ASSUME SourceTypes, NEW t \in Tickers, tick[t].at # "idle", NEW s \in TickStates, TickGoes(t, s)
  PROVE  /\ tick' \in [Tickers -> Ticks]
         /\ tick'[t].at = s /\ tick'[t].dates = tick[t].dates
         /\ \A u \in Tickers \ {t} : tick'[u] = tick[u]
  BY DEF SourceTypes, TickGoes, Ticks

LEMMA SeedGoesType ==
  ASSUME SourceTypes, NEW from \in SeedStates, NEW to \in SeedStates, SeedGoes(from, to)
  PROVE  /\ seed' \in SeedRows /\ seed'.at = to
         /\ seed'.anchor = seed.anchor /\ seed'.dropped = seed.dropped
         /\ seed'.failed = seed.failed /\ seed'.profile = seed.profile
  BY DEF SourceTypes, SeedGoes, SeedRows

LEMMA SeedEndsType ==
  ASSUME SourceTypes, SeedEnds
  PROVE  seed' \in SeedRows /\ seed'.at = "idle"
  BY DEF SourceTypes, SeedEnds, SeedRows, SeedStates

LEMMA CallTickType ==
  ASSUME SourceTypes, NEW t \in Tickers, CallTick(t)
  PROVE  /\ tick' \in [Tickers -> Ticks]
         /\ tick'[t].at = "ready" /\ tick'[t].dates # <<>>
         /\ \A u \in Tickers \ {t} : tick'[u] = tick[u]
<1>1. PICK dates \in Commands :
        tick' = [tick EXCEPT ![t] = [at |-> "ready", dates |-> dates, profile |-> sim.profile]]
  BY DEF CallTick
<1>2. dates \in Seq(Nat) /\ dates # <<>>
  BY CommandsAreDays DEF CallTick
<1>3. [at |-> "ready", dates |-> dates, profile |-> sim.profile] \in Ticks
  BY <1>2 DEF SourceTypes, SimRows, Unseeded, Ticks, TickStates, Names
<1> QED BY <1>1, <1>2, <1>3 DEF SourceTypes

LEMMA RequireType ==
  ASSUME SourceTypes, NEW t \in Tickers, Require(t), Permits(t), sim # Unseeded
  PROVE  /\ tick' \in [Tickers -> Ticks]
         /\ tick'[t].at = "working" /\ tick'[t].dates # <<>>
         /\ Head(tick'[t].dates) = sim.date + 1
         /\ \A u \in Tickers \ {t} : tick'[u] = tick[u]
<1> DEFINE new == [tick[t].dates EXCEPT ![1] = sim.date + 1]
<1>1. tick[t] \in Ticks /\ tick[t].dates # <<>> /\ sim.date + 1 \in Nat
  BY DEF SourceTypes, Require, SimRows
<1>2. Target(t) = sim.date + 1
  BY DEF Permits, Target
<1>3. new \in Seq(Nat) /\ new # <<>> /\ Head(new) = sim.date + 1
  BY <1>1, FirstReplaced DEF Ticks
<1>4. tick' = [tick EXCEPT ![t].at = "working", ![t].dates[1] = sim.date + 1]
  BY <1>2 DEF Require
<1> DEFINE held == [tick EXCEPT ![t].at = "working"]
<1>5. held \in [Tickers -> Ticks] /\ held[t].at = "working" /\ held[t].dates = tick[t].dates
  BY <1>1 DEF SourceTypes, Ticks, TickStates
<1>6. tick' = [held EXCEPT ![t].dates = new]
  BY <1>4, <1>5 DEF SourceTypes
<1>7. \A u \in Tickers \ {t} : held[u] = tick[u]
  BY DEF SourceTypes
<1> HIDE DEF new, held
<1>8. tick' \in [Tickers -> Ticks] /\ tick'[t].at = "working" /\ tick'[t].dates = new
  BY <1>3, <1>5, <1>6 DEF Ticks
<1> QED BY <1>3, <1>5, <1>6, <1>7, <1>8

LEMMA ReconcileType ==
  ASSUME SourceTypes, NEW t \in Tickers, Reconcile(t)
  PROVE  /\ tick' \in [Tickers -> Ticks]
         /\ tick'[t].at \in {"idle", "ready"}
         /\ tick'[t].at = "ready" => tick'[t].dates # <<>>
         /\ \A u \in Tickers \ {t} : tick'[u] = tick[u]
<1>1. tick[t] \in Ticks /\ tick[t].dates # <<>>
  BY DEF SourceTypes, Reconcile
<1>2. CASE TickEnds(t)
  BY <1>2, TickEndsType DEF SourceTypes, TickEnds
<1>3. CASE /\ Len(tick[t].dates) > 1
           /\ tick' = [tick EXCEPT ![t].at = "ready", ![t].dates = Tail(@)]
  <2> DEFINE rest == Tail(tick[t].dates)
  <2> DEFINE n == Len(tick[t].dates)
  <2>1. rest \in Seq(Nat) /\ Len(rest) = n - 1
    BY <1>1, HeadTailProperties DEF Ticks
  <2>2. Len(rest) # 0
    <3>1. n \in Nat
      BY <1>1, LenProperties DEF Ticks
    <3>2. n > 1
      BY <1>3
    <3> HIDE DEF n, rest
    <3> QED BY <2>1, <3>1, <3>2
  <2>3. rest # <<>>
    BY <2>2, EmptySeq
  <2> DEFINE ready == [tick EXCEPT ![t].at = "ready"]
  <2>4. ready \in [Tickers -> Ticks] /\ ready[t].at = "ready" /\ ready[t].dates = tick[t].dates
    BY <1>1 DEF SourceTypes, Ticks, TickStates
  <2>5. tick' = [ready EXCEPT ![t].dates = rest]
    BY <1>3, <2>4 DEF SourceTypes
  <2>6. \A u \in Tickers \ {t} : ready[u] = tick[u]
    BY DEF SourceTypes
  <2> HIDE DEF rest, ready
  <2>7. tick' \in [Tickers -> Ticks] /\ tick'[t].at = "ready" /\ tick'[t].dates = rest
    BY <2>1, <2>4, <2>5 DEF Ticks
  <2> QED BY <2>3, <2>4, <2>5, <2>6, <2>7
<1> QED BY <1>2, <1>3 DEF Reconcile
-----------------------------------------------------------------------------
(***************************************************************************)
(* Types, and who holds the state row.                                     *)
(***************************************************************************)
LEMMA CommitTickType ==
  ASSUME SourceTypes, RowInv, NEW t \in Tickers, CommitTick(t)
  PROVE  /\ sim \in SimRows
         /\ Head(tick[t].dates) = sim.date + 1
         /\ sim' \in SimRows /\ sim'.anchor = sim.anchor /\ sim'.profile = sim.profile
         /\ sim'.date = sim.date + 1 /\ sim'.seq = sim.seq + 1
         /\ [date |-> sim.date + 1, seq |-> sim.seq + 1, profile |-> sim.profile] \in LogRows
         /\ tickLog' = Append(tickLog, [date |-> sim.date + 1, seq |-> sim.seq + 1,
                                        profile |-> sim.profile])
         /\ tickLog' \in Seq(LogRows)
<1>1. sim \in SimRows /\ Head(tick[t].dates) = sim.date + 1
  BY DEF SourceTypes, RowInv, CommitTick, InTransaction
<1>2. sim' \in SimRows /\ sim'.anchor = sim.anchor /\ sim'.profile = sim.profile
        /\ sim'.date = sim.date + 1 /\ sim'.seq = sim.seq + 1
  <2>1. sim' = [sim EXCEPT !.date = sim.date + 1, !.seq = sim.seq + 1]
    BY <1>1 DEF CommitTick
  <2>2. sim.anchor \in Nat /\ sim.date + 1 \in Nat /\ sim.seq + 1 \in Nat
          /\ sim.profile \in Names
    BY <1>1 DEF SimRows
  <2>3. sim' = [anchor |-> sim.anchor, date |-> sim.date + 1, seq |-> sim.seq + 1,
                profile |-> sim.profile]
    BY <1>1, <2>1 DEF SimRows
  <2> QED BY <2>2, <2>3 DEF SimRows
<1>3. [date |-> sim.date + 1, seq |-> sim.seq + 1, profile |-> sim.profile] \in LogRows
  BY <1>1 DEF SimRows, LogRows
<1>4. tickLog' = Append(tickLog, [date |-> sim.date + 1, seq |-> sim.seq + 1,
                                  profile |-> sim.profile])
  BY <1>1 DEF CommitTick
<1>5. tickLog' \in Seq(LogRows)
  BY <1>3, <1>4, AppendProperties DEF SourceTypes
<1> QED BY <1>1, <1>2, <1>3, <1>4, <1>5

(* What a commit adds to the drift log: what was due, each once. *)
LEMMA CommitTickFires ==
  ASSUME SourceTypes, RowInv, NEW t \in Tickers, CommitTick(t)
  PROVE  LET due == DueEvents(sim.date + 1)
         IN  /\ driftLog' \in Seq(Events)
             /\ Logged' = Logged \cup due
             /\ Len(driftLog') = Len(driftLog) + Cardinality(due)
             /\ schema' = schema \cup due
             /\ classified' = classified \cup (due \cap Adding)
<1> DEFINE due == DueEvents(sim.date + 1)
<1>1. Head(tick[t].dates) = sim.date + 1
  BY CommitTickType
<1>2. due \in SUBSET Events
  BY DEF DueEvents
<1>3. PICK order \in SetToSeqs(due) : driftLog' = driftLog \o order
  BY <1>1 DEF CommitTick
<1>4. order \in Seq(Events) /\ ToSet(order) = due /\ Len(order) = Cardinality(due)
  BY <1>2, OrderListsOnce
<1>5. driftLog \in Seq(Events)
  BY DEF SourceTypes
<1>6. /\ driftLog' \in Seq(Events)
      /\ ToSet(driftLog') = ToSet(driftLog) \cup due
      /\ Len(driftLog') = Len(driftLog) + Cardinality(due)
  BY <1>3, <1>4, <1>5, LoggedAppended
<1>7. schema' = schema \cup due /\ classified' = classified \cup (due \cap Adding)
  BY <1>1 DEF CommitTick
<1> QED BY <1>6, <1>7 DEF Logged

LEMMA TickKeepsTypes ==
  ASSUME SourceTypes, RowInv, NEW t \in Tickers, Tick(t)
  PROVE  SourceTypes' /\ RowInv'
<1> USE DEF database
<1>1. CASE CallTick(t)
  <2>1. sim # Unseeded /\ UNCHANGED <<database, journal, seed>>
    BY <1>1 DEF CallTick
  <2> QED BY <1>1, <2>1, CallTickType DEF SourceTypes, RowInv, InTransaction
<1>2. CASE Require(t)
  <2>1. UNCHANGED <<database, journal, seed>> /\ tick[t].at = "ready" /\ RowIsFree
    BY <1>2 DEF Require
  <2>2. CASE Permits(t)
    <3>1. sim # Unseeded
      BY <2>1 DEF RowInv
    <3>2. \A u \in Tickers \ {t} : ~ InTransaction(u)'
      BY <1>2, <2>1, <2>2, <3>1, RequireType DEF RowIsFree, InTransaction
    <3> QED BY <1>2, <2>1, <2>2, <3>1, <3>2, RequireType DEF SourceTypes, RowInv, InTransaction
  <2>3. CASE ~ Permits(t)
    <3>1. TickEnds(t)
      BY <1>2, <2>3 DEF Require
    <3> QED BY <2>1, <3>1, TickEndsType DEF SourceTypes, RowInv, InTransaction
  <2> QED BY <2>2, <2>3
<1>3. CASE ReadDriftLog(t)
  <2>1. UNCHANGED <<database, journal, seed>> /\ tick[t].at = "working" /\ TickGoes(t, "fired")
    BY <1>3 DEF ReadDriftLog
  <2>2. "fired" \in TickStates
    BY DEF TickStates
  <2> QED BY <2>1, <2>2, TickGoesType DEF SourceTypes, RowInv, InTransaction
<1>4. CASE TickFails(t) \/ KillTick(t)
  <2>1. UNCHANGED <<database, journal, seed>> /\ TickEnds(t)
    BY <1>4 DEF TickFails, KillTick
  <2> QED BY <2>1, TickEndsType DEF SourceTypes, RowInv, InTransaction
<1>5. CASE CommitTick(t)
  <2>1. UNCHANGED <<parts, keys, journal, seed>> /\ tick[t].at = "fired"
          /\ TickGoes(t, "committed")
    BY <1>5 DEF CommitTick
  <2>2. "committed" \in TickStates
    BY DEF TickStates
  <2>3. sim' \in SimRows /\ tickLog' \in Seq(LogRows) /\ driftLog' \in Seq(Events)
    BY <1>5, CommitTickType, CommitTickFires
  <2>4. \A u \in Tickers : ~ InTransaction(u)'
    BY <2>1, <2>2, TickGoesType DEF RowInv, InTransaction
  <2>5. sim' # Unseeded
    BY <2>3 DEF SimRows, Unseeded
  <2>6. SourceTypes'
    BY <2>1, <2>2, <2>3, TickGoesType DEF SourceTypes
  <2>7. RowInv'
    BY <2>4, <2>5 DEF RowInv
  <2> QED BY <2>6, <2>7
<1>6. CASE Reconcile(t)
  <2>1. UNCHANGED <<database, journal, seed>>
    BY <1>6 DEF Reconcile
  <2>2. tick[t].at = "committed"
    BY <1>6 DEF Reconcile
  <2> QED BY <1>6, <2>1, <2>2, ReconcileType DEF SourceTypes, RowInv, InTransaction
<1> QED BY <1>1, <1>2, <1>3, <1>4, <1>5, <1>6 DEF Tick
LEMMA DeadlockKeepsTypes ==
  ASSUME SourceTypes, RowInv, NEW t \in Tickers, BreakDeadlock(t)
  PROVE  SourceTypes' /\ RowInv'
<1>1. UNCHANGED <<database, journal>>
  BY DEF BreakDeadlock
<1>2. CASE TickEnds(t) /\ UNCHANGED seed
  BY <1>1, <1>2, TickEndsType DEF database, SourceTypes, RowInv, InTransaction
<1>3. CASE SeedEnds /\ UNCHANGED tick
  BY <1>1, <1>3, SeedEndsType DEF database, SourceTypes, RowInv, InTransaction
<1> QED BY <1>2, <1>3 DEF BreakDeadlock

(* A seed leaves the ticks alone, and the state row too until it points it  *)
(* at its anchor, which it does when no tick holds it.                      *)
LEMMA SeedKeepsRow ==
  ASSUME SourceTypes, RowInv, Seed
  PROVE  RowInv'
<1>1. UNCHANGED tick
  BY DEF Seed, Load, CallSeed, ClearLogs, PointAtAnchor, KillSeed, Repair, Repaired, RepairFails,
         OpenJournal, WriteJournal, TruncateCore, DropKey, CopyTables, CopyLedger, LeaveCopy,
         RestoreKey, RestoreFails, Restored
<1>2. CASE PointAtAnchor
  <2>1. \A t \in Tickers : ~ InTransaction(t)
    BY <1>2 DEF PointAtAnchor, RowIsFree
  <2>2. sim' # Unseeded
    BY <1>2 DEF PointAtAnchor, SourceTypes, SeedRows, Unseeded
  <2> QED BY <1>1, <2>1, <2>2 DEF RowInv, InTransaction
<1>3. CASE UNCHANGED sim
  BY <1>1, <1>3 DEF RowInv, InTransaction
<1> QED BY <1>2, <1>3
    DEF Seed, Load, CallSeed, ClearLogs, KillSeed, Repair, Repaired, RepairFails,
        OpenJournal, WriteJournal, TruncateCore, DropKey, CopyTables, CopyLedger, LeaveCopy,
        RestoreKey, RestoreFails, Restored, database

LEMMA ResetKeepsTypes ==
  ASSUME SourceTypes, CallSeed \/ ClearLogs \/ PointAtAnchor \/ KillSeed
  PROVE  SourceTypes'
<1> USE DEF database
<1>1. CASE CallSeed
  <2>1. Logged \subseteq Events
    BY LoggedEvents DEF SourceTypes, Logged
  <2>2. seed' \in SeedRows
    BY <1>1, <2>1, SourceAssumption DEF CallSeed, SeedRows, SeedStates, Names
  <2> QED BY <1>1, <2>2 DEF CallSeed, SourceTypes
<1>2. CASE ClearLogs
  <2>1. "generated" \in SeedStates /\ "cleared" \in SeedStates
    BY DEF SeedStates
  <2> QED BY <1>2, <2>1, SeedGoesType DEF ClearLogs, SourceTypes
<1>3. CASE PointAtAnchor
  <2>1. "cleared" \in SeedStates /\ "reset" \in SeedStates
    BY DEF SeedStates
  <2>2. tickLog' \in Seq(LogRows) /\ driftLog' \in Seq(Events)
    BY <1>3, EmptySeq DEF PointAtAnchor, Emptied
  <2>3. sim' \in SimRows \cup {Unseeded}
    BY <1>3 DEF PointAtAnchor, SourceTypes, SeedRows, SimRows
  <2> QED BY <1>3, <2>1, <2>2, <2>3, SeedGoesType DEF PointAtAnchor, SourceTypes
<1>4. CASE KillSeed
  BY <1>4, SeedEndsType DEF KillSeed, SourceTypes
<1> QED BY <1>1, <1>2, <1>3, <1>4
LEMMA LoadKeepsTypes ==
  ASSUME SourceTypes, Load
  PROVE  SourceTypes'
<1> USE DEF database
<1>0. \A K \in SUBSET Keys : Written(K) \in Journals /\ Absent \in Journals /\ Torn \in Journals
  BY DEF Written, Absent, Torn, Journals
<1>s. {"reset", "repaired", "writing", "journalled", "dropping", "copying", "restoring",
       "loaded", "idle"} \subseteq SeedStates
  BY DEF SeedStates
<1>1. CASE Repair
  BY <1>1 DEF Repair, Journalled, SourceTypes, Journals
<1>2. CASE Repaired
  BY <1>2, <1>0, <1>s, SeedGoesType DEF Repaired, SourceTypes
<1>3. CASE RepairFails \/ RestoreFails
  BY <1>3, SeedEndsType DEF RepairFails, RestoreFails, SourceTypes
<1>4. CASE OpenJournal
  <2>1. seed' \in SeedRows
    BY <1>4, <1>s DEF OpenJournal, SourceTypes, SeedRows
  <2> QED BY <1>4, <1>0, <2>1 DEF OpenJournal, SourceTypes
<1>5. CASE WriteJournal
  <2>1. seed.dropped \subseteq Keys
    BY DEF SourceTypes, SeedRows
  <2> QED BY <1>5, <1>0, <1>s, <2>1, SeedGoesType DEF WriteJournal, SourceTypes
<1>6. CASE TruncateCore
  BY <1>6, <1>s, SeedGoesType, SourceAssumption DEF TruncateCore, SourceTypes
<1>7. CASE DropKey
  <2>1. seed' \in SeedRows
    BY <1>7, <1>s DEF DropKey, SourceTypes, SeedRows
  <2> QED BY <1>7, <2>1 DEF DropKey, SourceTypes
<1>8. CASE CopyTables \/ CopyLedger
  BY <1>8, SourceAssumption DEF CopyTables, CopyLedger, SourceTypes
<1>9. CASE LeaveCopy
  <2>1. seed' \in SeedRows
    <3>1. (parts < Parts) \in BOOLEAN
      OBVIOUS
    <3>2. PICK b \in BOOLEAN : seed' = [seed EXCEPT !.at = "restoring", !.failed = b]
      BY <1>9, <3>1, Zenon DEF LeaveCopy
    <3> QED BY <3>2, <1>s DEF SourceTypes, SeedRows
  <2> QED BY <1>9, <2>1 DEF LeaveCopy, SourceTypes
<1>10. CASE RestoreKey
  <2>1. seed.dropped \subseteq Keys
    BY DEF SourceTypes, SeedRows
  <2> QED BY <1>10, <2>1 DEF RestoreKey, SourceTypes
<1>11. CASE Restored
  <2>1. \E to \in SeedStates : SeedGoes("restoring", to)
    BY <1>11, <1>s DEF Restored
  <2>2. seed' \in SeedRows
    BY <2>1, <1>s, SeedGoesType
  <2> QED BY <1>11, <1>0, <2>2 DEF Restored, SourceTypes
<1> QED BY <1>1, <1>2, <1>3, <1>4, <1>5, <1>6, <1>7, <1>8, <1>9, <1>10, <1>11 DEF Load

LEMMA TypeStep == SourceTypes /\ RowInv /\ [Next]_vars => SourceTypes' /\ RowInv'
<1> SUFFICES ASSUME SourceTypes, RowInv, [Next]_vars PROVE SourceTypes' /\ RowInv'
  OBVIOUS
<1>1. CASE Seed
  BY <1>1, SeedKeepsRow, ResetKeepsTypes, LoadKeepsTypes DEF Seed
<1>2. CASE \E t \in Tickers : Tick(t) \/ BreakDeadlock(t)
  BY <1>2, TickKeepsTypes, DeadlockKeepsTypes
<1>3. CASE UNCHANGED vars
  BY <1>3 DEF vars, database, SourceTypes, RowInv, InTransaction
<1> QED BY <1>1, <1>2, <1>3 DEF Next
-----------------------------------------------------------------------------
(***************************************************************************)
(* The logs and the drift.                                                 *)
(***************************************************************************)
(* Only a commit and a reset touch what the logs are about. *)
LEMMA OthersKeepLogs ==
  ASSUME [Next]_vars, ~ PointAtAnchor, \A t \in Tickers : ~ CommitTick(t)
  PROVE  UNCHANGED <<sim, tickLog, driftLog, schema, classified>>
<1> USE DEF database
<1>1. CASE Seed
  BY <1>1 DEF Seed, Load, CallSeed, ClearLogs, KillSeed, Repair, Repaired, RepairFails,
              OpenJournal, WriteJournal, TruncateCore, DropKey, CopyTables, CopyLedger,
              LeaveCopy, RestoreKey, RestoreFails, Restored
<1>2. CASE \E t \in Tickers : Tick(t) \/ BreakDeadlock(t)
  BY <1>2 DEF Tick, BreakDeadlock, CallTick, Require, ReadDriftLog, TickFails, Reconcile, KillTick
<1>3. CASE UNCHANGED vars
  BY <1>3 DEF vars
<1> QED BY <1>1, <1>2, <1>3 DEF Next

LEMMA CommitKeepsLogs ==
  ASSUME SourceTypes, RowInv, LogInv, NEW t \in Tickers, CommitTick(t)
  PROVE  LogInv'
<1> DEFINE tomorrow == sim.date + 1
           row == [date |-> tomorrow, seq |-> sim.seq + 1, profile |-> sim.profile]
           due == DueEvents(tomorrow)
<1>1. /\ sim \in SimRows /\ sim # Unseeded
      /\ sim' \in SimRows /\ sim'.anchor = sim.anchor /\ sim'.profile = sim.profile
      /\ sim'.date = tomorrow /\ sim'.seq = sim.seq + 1
      /\ row \in LogRows /\ tickLog' = Append(tickLog, row)
  BY CommitTickType DEF SimRows, Unseeded
<1>2. /\ driftLog' \in Seq(Events)
      /\ Logged' = Logged \cup due
      /\ Len(driftLog') = Len(driftLog) + Cardinality(due)
      /\ schema' = schema \cup due
      /\ classified' = classified \cup (due \cap Adding)
  BY CommitTickFires
<1>3. TickedDayByDay'
  <2>1. Len(tickLog') = Len(tickLog) + 1 /\ tickLog'[Len(tickLog) + 1] = row
          /\ \A i \in 1 .. Len(tickLog) : tickLog'[i] = tickLog[i]
    BY <1>1, AppendProperties DEF SourceTypes
  <2>2. tickLog' \in Seq(LogRows)
    BY CommitTickType
  <2>3. DOMAIN tickLog = 1 .. Len(tickLog) /\ DOMAIN tickLog' = 1 .. Len(tickLog')
          /\ Len(tickLog) \in Nat
    BY <2>2, LenProperties DEF SourceTypes
  <2>4. Len(tickLog) = sim.seq /\ sim.date = sim.anchor + sim.seq
          /\ \A i \in DOMAIN tickLog :
               tickLog[i] = [date |-> sim.anchor + i, seq |-> i, profile |-> sim.profile]
    BY <1>1 DEF LogInv, TickedDayByDay
  <2>5. tomorrow = sim.anchor + (sim.seq + 1) /\ sim.seq \in Nat /\ sim.anchor \in Nat
    BY <1>1, <2>4 DEF SimRows
  <2>6. \A i \in DOMAIN tickLog' :
          tickLog'[i] = [date |-> sim.anchor + i, seq |-> i, profile |-> sim.profile]
    <3> TAKE i \in DOMAIN tickLog'
    <3>1. i \in 1 .. sim.seq \/ i = sim.seq + 1
      BY <2>1, <2>3, <2>4, <2>5
    <3> QED BY <3>1, <2>1, <2>3, <2>4, <2>5
  <2> QED BY <1>1, <2>1, <2>4, <2>5, <2>6 DEF TickedDayByDay
<1>4. DriftOnTime'
  <2>1. Logged = {e \in Events : sim.anchor + Offset[e] =< sim.date}
          /\ Len(driftLog) = Cardinality(Logged)
    BY <1>1 DEF LogInv, DriftOnTime
  <2>2. due = {e \in Events \ Logged : sim.anchor + Offset[e] =< tomorrow}
    BY DEF DueEvents
  <2>3. Logged' = {e \in Events : sim.anchor + Offset[e] =< tomorrow}
    <3>1. \A e \in Events : sim.anchor + Offset[e] \in Int /\ sim.date \in Int
      BY <1>1, SourceAssumption DEF SimRows
    <3>2. \A e \in Events : sim.anchor + Offset[e] =< sim.date => sim.anchor + Offset[e] =< tomorrow
      BY <3>1
    <3> QED BY <1>2, <2>1, <2>2, <3>2
  <2>4. IsFiniteSet(Logged) /\ IsFiniteSet(due) /\ Logged \cap due = {}
    BY <2>1, <2>2, SourceAssumption, FS_Subset
  <2>5. Cardinality(Logged \cup due) = Cardinality(Logged) + Cardinality(due)
    <3>1. Cardinality(Logged \cap due) = 0
      BY <2>4, FS_EmptySet
    <3>2. Cardinality(Logged \cup due)
            = Cardinality(Logged) + Cardinality(due) - Cardinality(Logged \cap due)
      BY <2>4, FS_Union
    <3>3. Cardinality(Logged) \in Nat /\ Cardinality(due) \in Nat
      BY <2>4, FS_CardinalityType
    <3> QED BY <3>1, <3>2, <3>3
  <2>6. Len(driftLog') = Cardinality(Logged')
    BY <1>2, <2>1, <2>5
  <2> QED BY <1>1, <2>3, <2>6 DEF DriftOnTime
<1>5. LogIsInTheSchema'
  BY <1>2 DEF LogInv, LogIsInTheSchema
<1> QED BY <1>3, <1>4, <1>5 DEF LogInv

LEMMA ResetKeepsLogs ==
  ASSUME SourceTypes, PointAtAnchor
  PROVE  LogInv'
<1>1. tickLog' = <<>> /\ driftLog' = <<>>
  BY DEF PointAtAnchor, Emptied
<1>2. sim' = [anchor |-> seed.anchor, date |-> seed.anchor, seq |-> 0, profile |-> seed.profile]
        /\ seed.anchor \in Nat
  BY DEF PointAtAnchor, SourceTypes, SeedRows
<1>3. Logged' = {} /\ Len(driftLog') = 0 /\ Len(tickLog') = 0
  BY <1>1 DEF Logged, ToSet
<1>4. TickedDayByDay'
  BY <1>1, <1>2, <1>3 DEF TickedDayByDay
<1>5. DriftOnTime'
  <2>1. \A e \in Events : ~ (seed.anchor + Offset[e] =< seed.anchor)
    BY <1>2, SourceAssumption
  <2> QED BY <1>2, <1>3, <2>1, FS_EmptySet DEF DriftOnTime
<1>6. LogIsInTheSchema'
  BY <1>3 DEF LogIsInTheSchema
<1> QED BY <1>4, <1>5, <1>6 DEF LogInv

LEMMA LogStep == SourceTypes /\ RowInv /\ LogInv /\ [Next]_vars => LogInv'
<1> SUFFICES ASSUME SourceTypes, RowInv, LogInv, [Next]_vars PROVE LogInv'
  OBVIOUS
<1>1. CASE UNCHANGED <<sim, tickLog, driftLog, schema, classified>>
  BY <1>1 DEF LogInv, TickedDayByDay, DriftOnTime, LogIsInTheSchema, Logged
<1> QED BY <1>1, CommitKeepsLogs, ResetKeepsLogs, OthersKeepLogs
-----------------------------------------------------------------------------
(***************************************************************************)
(* The foreign keys a load takes off.                                      *)
(***************************************************************************)
LEMMA TickKeepsLoad ==
  ASSUME SourceTypes, LoadInv, NEW t \in Tickers, Tick(t) \/ BreakDeadlock(t)
  PROVE  LoadInv'
<1>1. UNCHANGED <<parts, keys, journal>>
  BY DEF Tick, BreakDeadlock, CallTick, Require, ReadDriftLog, TickFails, CommitTick, Reconcile,
         KillTick, database
<1>2. CASE UNCHANGED seed
  BY <1>1, <1>2 DEF LoadInv
<1>3. CASE seed'.at = "idle"
  BY <1>1, <1>3 DEF LoadInv
<1>4. UNCHANGED seed \/ SeedEnds
  BY DEF Tick, BreakDeadlock, CallTick, Require, ReadDriftLog, TickFails, CommitTick, Reconcile,
         KillTick, database
<1> QED BY <1>2, <1>3, <1>4, SeedEndsType

LEMMA SeedKeepsLoad ==
  ASSUME SourceTypes, LoadInv, Seed
  PROVE  LoadInv'
<1> USE DEF database
<1>n. Torn.names = {} /\ Absent.names = {} /\ \A K : Written(K).names = K
  BY DEF Torn, Absent, Written
<1>1. CASE SeedEnds /\ UNCHANGED <<parts, keys, journal>>
  BY <1>1, SeedEndsType DEF LoadInv
<1>2. CASE CallSeed
  BY <1>2 DEF CallSeed, LoadInv
<1>3. CASE ClearLogs
  BY <1>3, SeedGoesType DEF ClearLogs, LoadInv, SeedStates
<1>4. CASE PointAtAnchor
  BY <1>4, SeedGoesType DEF PointAtAnchor, LoadInv, SeedStates
<1>5. CASE Repair
  BY <1>5 DEF Repair, LoadInv
<1>6. CASE Repaired
  <2>1. keys = Keys
    BY <1>6 DEF Repaired, Journalled, LoadInv, SourceTypes
  <2> QED BY <1>6, <1>n, <2>1, SeedGoesType DEF Repaired, LoadInv, SeedStates
<1>7. CASE OpenJournal
  <2>1. seed'.at = "writing" /\ seed'.dropped = Keys
    BY <1>7 DEF OpenJournal, SourceTypes, SeedRows, LoadInv
  <2> QED BY <1>7, <1>n, <2>1 DEF OpenJournal, LoadInv
<1>8. CASE WriteJournal
  <2>1. seed.dropped = Keys
    BY <1>8 DEF WriteJournal, SeedGoes, LoadInv
  <2> QED BY <1>8, <1>n, <2>1, SeedGoesType DEF WriteJournal, LoadInv, SeedStates
<1>9. CASE TruncateCore
  <2>1. seed.dropped = Keys /\ journal.names = Keys
    BY <1>9 DEF TruncateCore, SeedGoes, LoadInv
  <2>2. seed'.at = "dropping" /\ seed'.dropped = seed.dropped
    BY <1>9, SeedGoesType DEF TruncateCore, SeedStates
  <2> QED BY <1>9, <2>1, <2>2 DEF TruncateCore, LoadInv
<1>10. CASE DropKey
  <2>1. seed'.at \in {"dropping", "copying"} /\ seed'.dropped = seed.dropped
    BY <1>10 DEF DropKey, SourceTypes, SeedRows
  <2> QED BY <1>10, <2>1 DEF DropKey, LoadInv
<1>11. CASE CopyTables \/ CopyLedger
  BY <1>11 DEF CopyTables, CopyLedger, LoadInv
<1>12. CASE LeaveCopy
  <2>1. seed' = [seed EXCEPT !.at = "restoring", !.failed = parts < Parts]
    BY <1>12 DEF LeaveCopy
  <2>2. CASE parts < Parts
    <3>1. (parts < Parts) = TRUE
      BY <2>2
    <3>2. seed' = [seed EXCEPT !.at = "restoring", !.failed = TRUE]
      BY <2>1, <3>1, Zenon
    <3>3. seed'.at = "restoring" /\ seed'.dropped = seed.dropped /\ seed'.failed
      BY <3>2 DEF SourceTypes, SeedRows
    <3> QED BY <1>12, <3>3 DEF LeaveCopy, LoadInv
  <2>3. CASE ~ (parts < Parts)
    <3>1. seed'.at = "restoring" /\ seed'.dropped = seed.dropped
      BY <2>1 DEF SourceTypes, SeedRows
    <3>2. parts = Parts
      BY <2>3, SourceAssumption DEF SourceTypes
    <3> QED BY <1>12, <3>1, <3>2 DEF LeaveCopy, LoadInv
  <2> QED BY <2>2, <2>3
<1>13. CASE RestoreKey
  BY <1>13 DEF RestoreKey, LoadInv
<1>14. CASE Restored
  <2>1. keys = Keys
    BY <1>14 DEF Restored, SeedGoes, LoadInv, SourceTypes
  <2>2. CASE seed.failed
    <3>1. seed'.at = "idle"
      BY <1>14, <2>2 DEF Restored, SeedGoes, SourceTypes, SeedRows
    <3> QED BY <1>14, <1>n, <2>1, <3>1 DEF Restored, LoadInv
  <2>3. CASE ~ seed.failed
    <3>1. seed'.at = "loaded" /\ parts = Parts
      BY <1>14, <2>3 DEF Restored, SeedGoes, SourceTypes, SeedRows, LoadInv
    <3> QED BY <1>14, <1>n, <2>1, <3>1 DEF Restored, LoadInv
  <2> QED BY <2>2, <2>3
<1> QED BY <1>1, <1>2, <1>3, <1>4, <1>5, <1>6, <1>7, <1>8, <1>9, <1>10, <1>11, <1>12, <1>13, <1>14
    DEF Seed, Load, KillSeed, RepairFails, RestoreFails
-----------------------------------------------------------------------------
(***************************************************************************)
(* Theorems.                                                               *)
(***************************************************************************)
LEMMA SourceInit == Init => SourceInv
<1> SUFFICES ASSUME Init PROVE SourceInv
  OBVIOUS
<1>1. \A t \in Tickers : tick[t].at = "idle"
  BY DEF Init
<1>2. RowInv
  BY <1>1 DEF RowInv, InTransaction
<1>3. LogInv
  <2>1. sim = Unseeded /\ driftLog = <<>>
    BY DEF Init
  <2>2. Logged = {}
    BY <2>1 DEF Logged, ToSet
  <2> QED BY <2>1, <2>2 DEF LogInv, TickedDayByDay, DriftOnTime, LogIsInTheSchema
<1>4. LoadInv
  BY DEF Init, LoadInv
<1> QED BY <1>2, <1>3, <1>4, TypeInit DEF SourceInv

LEMMA SourceStep == SourceInv /\ [Next]_vars => SourceInv'
<1> SUFFICES ASSUME SourceInv, [Next]_vars PROVE SourceInv'
  OBVIOUS
<1>1. SourceTypes' /\ RowInv' /\ LogInv'
  BY TypeStep, LogStep DEF SourceInv
<1>2. LoadInv'
  <2>1. CASE Seed
    BY <2>1, SeedKeepsLoad DEF SourceInv
  <2>2. CASE \E t \in Tickers : Tick(t) \/ BreakDeadlock(t)
    BY <2>2, TickKeepsLoad DEF SourceInv
  <2>3. CASE UNCHANGED vars
    BY <2>3 DEF vars, database, SourceInv, LoadInv
  <2> QED BY <2>1, <2>2, <2>3 DEF Next
<1> QED BY <1>1, <1>2 DEF SourceInv

(* The inductive invariant: types, who holds the state row, what the logs   *)
(* say, and what a load has done with the keys.                             *)
THEOREM SourceInvariant == Spec => []SourceInv
<1>1. Init => SourceInv
  BY SourceInit
<1>2. SourceInv /\ [Next]_vars => SourceInv'
  BY SourceStep
<1> QED BY <1>1, <1>2, PTL DEF Spec

(* However many tick at once and whoever is killed: one log row for each    *)
(* day since the anchor, and the state at the last (state.require).         *)
THEOREM TickedDayByDayCorrect == Spec => []TickedDayByDay
<1>1. SourceInv => TickedDayByDay
  BY DEF SourceInv, LogInv
<1> QED BY <1>1, SourceInvariant, PTL

(* Whatever the timeline: an event has fired once, on its day, or not yet   *)
(* (drift.due_events).                                                      *)
THEOREM DriftOnTimeCorrect == Spec => []DriftOnTime
<1>1. SourceInv => DriftOnTime
  BY DEF SourceInv, LogInv
<1> QED BY <1>1, SourceInvariant, PTL

(* A reset that races a tick never takes from the schema what the log says  *)
(* is there (mutation.reset).                                               *)
THEOREM LogIsInTheSchemaCorrect == Spec => []LogIsInTheSchema
<1>1. SourceInv => LogIsInTheSchema
  BY DEF SourceInv, LogInv
<1> QED BY <1>1, SourceInvariant, PTL

(* Whatever kills a load, and however many keys it had off: the journal     *)
(* names what is missing, and a load that ends well has all of them and     *)
(* the whole book (writer.load).                                            *)
THEOREM KeysAreKeptCorrect == Spec => []KeysAreKept
<1>1. SourceInv => KeysAreKept
  BY DEF SourceInv, LoadInv, KeysAreKept
<1> QED BY <1>1, SourceInvariant, PTL

-----------------------------------------------------------------------------
(***************************************************************************)
(* The card processor of the same simulation, beside the source: what its  *)
(* files say of a settlement date and which of them the platform keeps.    *)
(* Its theorems are about ClearingFiles, for every ledger, script and band *)
(* its settings allow.                                                     *)
(***************************************************************************)
(* What the settings say, one by one. *)
LEMMA SettingsApart ==
  ASSUME Settings
  PROVE  /\ \A s \in Dates : s \in Nat /\ Items[s] \in Seq(Int)
         /\ LateBy \in Nat /\ CorrectionLag \in Nat /\ OnArrival \in Nat /\ Cut \in Nat
         /\ Room \in Nat /\ Absolute \in Nat
         /\ WarnBand[1] \in Nat /\ WarnBand[2] \in Nat /\ ErrorBand[1] \in Nat /\ ErrorBand[2] \in Nat
         /\ (Room - 1) * ErrorBand[1] >= 15000
<1>1. \A s \in Dates : s \in Nat /\ Items[s] \in Seq(Int)
  BY DEF Settings
<1>2. /\ LateBy \in Nat /\ CorrectionLag \in Nat /\ OnArrival \in Nat /\ Cut \in Nat
      /\ Room \in Nat /\ Absolute \in Nat
  BY DEF Settings
<1>3. WarnBand[1] \in Nat /\ WarnBand[2] \in Nat /\ ErrorBand[1] \in Nat /\ ErrorBand[2] \in Nat
  BY DEF Settings
<1>4. (Room - 1) * ErrorBand[1] >= 15000
  BY DEF Settings
<1> QED BY <1>1, <1>2, <1>3, <1>4

(***************************************************************************)
(* Totals.                                                                 *)
(***************************************************************************)
(* A set of naturals that is not empty has a least element. *)
LEMMA SmallestOf ==
  ASSUME NEW S, S \subseteq Nat, S # {}
  PROVE  \E i \in S : \A j \in S : i <= j
<1>1. PICK i \in S : \A j \in S : ~ (<<j, i>> \in OpToRel(<, Nat))
  BY NatLessThanWellFounded, WFMin, Zenon
<1>2. \A j \in S : ~ (j < i)
  BY <1>1 DEF OpToRel
<1> QED BY <1>2

(* A set of naturals that holds 0 and, with a number, the next one, up to n *)
(* holds n.                                                                 *)
LEMMA CountUp ==
  ASSUME NEW n \in Nat, NEW G, 0 \in G, \A i \in 0 .. n - 1 : i \in G => i + 1 \in G
  PROVE  n \in G
<1> DEFINE Missing == {i \in 0 .. n : i \notin G}
<1>1. SUFFICES ASSUME n \notin G PROVE FALSE
  OBVIOUS
<1>2. PICK i \in Missing : \A j \in Missing : i <= j
  <2>1. Missing # {} /\ Missing \subseteq Nat
    BY <1>1
  <2> HIDE DEF Missing
  <2> QED BY <2>1, SmallestOf
<1>3. i \in 1 .. n /\ i - 1 \in 0 .. n - 1
  BY <1>2
<1>4. i - 1 \in G
  BY <1>2, <1>3
<1> QED BY <1>2, <1>3, <1>4

(* The running sum that Total reads off at its end.                         *)
RunningSum(sum, amounts) ==
  sum = [n \in 0 .. Len(amounts) |-> IF n = 0 THEN 0 ELSE sum[n - 1] + amounts[n]]

(* What the sum is at a count.                                             *)
LEMMA RunningSumRuns ==
  ASSUME NEW sum, NEW amounts, RunningSum(sum, amounts), NEW n \in 0 .. Len(amounts)
  PROVE  sum[n] = IF n = 0 THEN 0 ELSE sum[n - 1] + amounts[n]
<1> DEFINE F(k) == IF k = 0 THEN 0 ELSE sum[k - 1] + amounts[k]
<1>1. sum = [k \in 0 .. Len(amounts) |-> F(k)]
  BY DEF RunningSum
<1> HIDE DEF F
<1>2. sum[n] = F(n)
  BY <1>1
<1> QED BY <1>2 DEF F

LEMMA RunningSumGoesOn ==
  ASSUME NEW sum, NEW amounts, RunningSum(sum, amounts), NEW n \in Nat, n + 1 \in 0 .. Len(amounts)
  PROVE  sum[n + 1] = sum[n] + amounts[n + 1]
<1>1. PICK k : k = n + 1
  OBVIOUS
<1>2. k \in 0 .. Len(amounts)
  BY <1>1
<1>3. sum[k] = IF k = 0 THEN 0 ELSE sum[k - 1] + amounts[k]
  BY <1>2, RunningSumRuns
<1>4. k # 0 /\ k - 1 = n
  BY <1>1
<1> QED BY <1>1, <1>3, <1>4

(* There is one, of integers.                                               *)
LEMMA RunningSumExists ==
  ASSUME NEW amounts \in Seq(Int)
  PROVE  \E sum \in [0 .. Len(amounts) -> Int] : RunningSum(sum, amounts)
<1> DEFINE N == Len(amounts)
           Upto(m, sum) == \A n \in 0 .. m : sum[n] = IF n = 0 THEN 0 ELSE sum[n - 1] + amounts[n]
           G == {m \in Nat : \E sum \in [0 .. N -> Int] : Upto(m, sum)}
<1>0. N \in Nat /\ \A n \in 1 .. N : amounts[n] \in Int
  OBVIOUS
<1>1. 0 \in G
  <2>1. [n \in 0 .. N |-> 0] \in [0 .. N -> Int] /\ Upto(0, [n \in 0 .. N |-> 0])
    BY <1>0
  <2> QED BY <2>1
<1>2. ASSUME NEW m \in 0 .. N - 1, m \in G PROVE m + 1 \in G
  <2>1. PICK sum \in [0 .. N -> Int] : Upto(m, sum)
    BY <1>2
  <2> DEFINE longer == [sum EXCEPT ![m + 1] = sum[m] + amounts[m + 1]]
  <2>2. longer \in [0 .. N -> Int]
    <3> HIDE DEF N, Upto, G
    <3>1. m \in 0 .. N /\ m + 1 \in 1 .. N
      BY <1>0
    <3>2. sum[m] \in Int /\ amounts[m + 1] \in Int
      BY <3>1, <1>0
    <3>3. sum[m] + amounts[m + 1] \in Int
      BY <3>2
    <3> QED BY <3>3
  <2>3. Upto(m + 1, longer)
    <3>1. ASSUME NEW n \in 0 .. m + 1
          PROVE  longer[n] = IF n = 0 THEN 0 ELSE longer[n - 1] + amounts[n]
      <4>1. CASE n = m + 1
        BY <4>1, <1>0
      <4>2. CASE n # m + 1
        <5>1. n \in 0 .. m /\ longer[n] = sum[n] /\ (n # 0 => longer[n - 1] = sum[n - 1])
          BY <4>2, <1>0
        <5> QED BY <5>1, <2>1
      <4> QED BY <4>1, <4>2
    <3> QED BY <3>1
  <2>4. m + 1 \in Nat
    BY <1>0
  <2> HIDE DEF longer, Upto
  <2> QED BY <2>2, <2>3, <2>4
<1>3. N \in G
  <2> HIDE DEF G, N
  <2> QED BY <1>0, <1>1, <1>2, CountUp
<1>4. PICK sum \in [0 .. N -> Int] : Upto(N, sum)
  BY <1>3
<1>5. RunningSum(sum, amounts)
  BY <1>4, <1>0 DEF RunningSum
<1> QED BY <1>5

(* A total is the end of a running sum of integers.                        *)
LEMMA TotalIsRunningSum ==
  ASSUME NEW amounts \in Seq(Int)
  PROVE  \E sum \in [0 .. Len(amounts) -> Int] :
           RunningSum(sum, amounts) /\ Total(amounts) = sum[Len(amounts)]
<1> DEFINE sum == CHOOSE sum : RunningSum(sum, amounts)
<1>1. PICK some \in [0 .. Len(amounts) -> Int] : RunningSum(some, amounts)
  BY RunningSumExists
<1>2. RunningSum(sum, amounts)
  BY <1>1
<1>3. Total(amounts) = sum[Len(amounts)]
  BY DEF Total, RunningSum
<1>4. sum[Len(amounts)] = some[Len(amounts)]
  <2> HIDE DEF sum
  <2> DEFINE N == Len(amounts)
             G == {n \in Nat : sum[n] = some[n]}
  <2>0. N \in Nat
    OBVIOUS
  <2>1. 0 \in G
    BY <1>1, <1>2 DEF RunningSum
  <2>2. \A n \in 0 .. N - 1 : n \in G => n + 1 \in G
    BY <1>1, <1>2 DEF RunningSum
  <2>3. N \in G
    <3> HIDE DEF G, N
    <3> QED BY <2>0, <2>1, <2>2, CountUp
  <2> QED BY <2>3
<1>5. Total(amounts) = some[Len(amounts)]
  BY <1>3, <1>4
<1> QED BY <1>1, <1>5

(* A total moves by what one of its amounts moves.                          *)
LEMMA TotalMoves ==
  ASSUME NEW amounts \in Seq(Int), NEW item, NEW delta \in Int
  PROVE  Total([i \in DOMAIN amounts |-> amounts[i] + IF i = item THEN delta ELSE 0])
           = Total(amounts) + IF item \in DOMAIN amounts THEN delta ELSE 0
<1> DEFINE moved == [i \in DOMAIN amounts |-> amounts[i] + IF i = item THEN delta ELSE 0]
           N == Len(amounts)
<1>1. N \in Nat /\ DOMAIN amounts = 1 .. N /\ \A i \in 1 .. N : amounts[i] \in Int
  OBVIOUS
<1>2. moved \in Seq(Int) /\ Len(moved) = N
  BY <1>1
<1>3. PICK sum \in [0 .. N -> Int] : RunningSum(sum, amounts) /\ Total(amounts) = sum[N]
  BY TotalIsRunningSum
<1>4. PICK other \in [0 .. N -> Int] : RunningSum(other, moved) /\ Total(moved) = other[N]
  BY <1>2, TotalIsRunningSum
<1> DEFINE G == {n \in Nat : other[n] = sum[n] + IF item \in 1 .. n THEN delta ELSE 0}
<1>5. 0 \in G
  BY <1>1, <1>2, <1>3, <1>4 DEF RunningSum
<1>6. ASSUME NEW n \in 0 .. N - 1, n \in G PROVE n + 1 \in G
  <2>0. n + 1 \in 0 .. N /\ n + 1 # 0 /\ n + 1 - 1 = n
    BY <1>1
  <2>1. other[n + 1] = other[n] + moved[n + 1] /\ sum[n + 1] = sum[n] + amounts[n + 1]
    <3> HIDE DEF moved, G
    <3>1. n \in Nat /\ n + 1 \in 0 .. Len(moved) /\ n + 1 \in 0 .. Len(amounts)
      BY <2>0, <1>2
    <3>2. RunningSum(other, moved) /\ RunningSum(sum, amounts)
      BY <1>3, <1>4
    <3> HIDE DEF N
    <3> QED BY <3>1, <3>2, RunningSumGoesOn, ZenonT(30)
  <2>2. moved[n + 1] = amounts[n + 1] + IF n + 1 = item THEN delta ELSE 0
    BY <1>1
  <2>3. amounts[n + 1] \in Int /\ sum[n] \in Int /\ other[n] = sum[n] + IF item \in 1 .. n THEN delta ELSE 0
    BY <1>1, <1>3, <1>6
  <2>4. item \in 1 .. n + 1 <=> item \in 1 .. n \/ item = n + 1
    BY <1>1
  <2>5. n + 1 \notin 1 .. n
    BY <1>1
  <2> HIDE DEF moved
  <2>6. CASE item = n + 1
    BY <2>1, <2>2, <2>3, <2>4, <2>5, <2>6
  <2>7. CASE item # n + 1
    BY <2>1, <2>2, <2>3, <2>4, <2>7
  <2> QED BY <2>6, <2>7
<1>7. N \in G
  <2>1. N \in Nat
    BY <1>1
  <2> HIDE DEF G, N
  <2> QED BY <2>1, <1>5, <1>6, CountUp
<1> QED BY <1>1, <1>3, <1>4, <1>7

(* A total of whole hundreds is one. *)
LEMMA TotalOfHundreds ==
  ASSUME NEW amounts \in Seq(Int), \A i \in DOMAIN amounts : \E c \in Int : amounts[i] = 100 * c
  PROVE  \E c \in Int : Total(amounts) = 100 * c
<1> DEFINE N == Len(amounts)
<1>1. N \in Nat /\ DOMAIN amounts = 1 .. N
  OBVIOUS
<1>2. PICK sum \in [0 .. N -> Int] : RunningSum(sum, amounts) /\ Total(amounts) = sum[N]
  BY TotalIsRunningSum
<1> DEFINE G == {n \in Nat : \E c \in Int : sum[n] = 100 * c}
<1>3. 0 \in G
  <2>1. sum[0] = 0
    BY <1>1, <1>2, RunningSumRuns
  <2>2. 0 \in Int /\ 0 = 100 * 0
    OBVIOUS
  <2> QED BY <2>1, <2>2
<1>4. ASSUME NEW n \in 0 .. N - 1, n \in G PROVE n + 1 \in G
  <2>1. n + 1 \in 0 .. N /\ n + 1 # 0 /\ n + 1 - 1 = n /\ n + 1 \in DOMAIN amounts
    BY <1>1
  <2>2. sum[n + 1] = sum[n] + amounts[n + 1]
    <3>0. n + 1 \in 0 .. Len(amounts) /\ RunningSum(sum, amounts)
      BY <2>1, <1>2
    <3>1. sum[n + 1] = (IF n + 1 = 0 THEN 0 ELSE sum[n + 1 - 1] + amounts[n + 1])
      BY <3>0, RunningSumRuns
    <3> QED BY <3>1, <2>1
  <2>3. PICK b \in Int : sum[n] = 100 * b
    BY <1>4
  <2>4. PICK c \in Int : amounts[n + 1] = 100 * c
    BY <2>1
  <2>5. b + c \in Int /\ sum[n + 1] = 100 * (b + c)
    BY <2>2, <2>3, <2>4
  <2>6. n + 1 \in Nat
    BY <1>1
  <2> QED BY <2>5, <2>6
<1>5. N \in G
  <2> HIDE DEF G, N
  <2> QED BY <1>1, <1>3, <1>4, CountUp
<1> QED BY <1>2, <1>5

(***************************************************************************)
(* Files.                                                                  *)
(***************************************************************************)
(* The day a file is made on: the first one when it is due, its correction  *)
(* with it or the lag after it.                                             *)
DueDay(s) == IF IsLate(s) THEN s + LateBy ELSE s
MadeOn(s, revision) ==
  IF revision = 1 THEN DueDay(s) ELSE DueDay(s) + IF s = OnArrival THEN 0 ELSE CorrectionLag

(* A file the processor sends: for a date that is drawn, as made on its day *)
(* and cut short only in the script.                                        *)
SentFile(s, revision, whole) ==
  [File(s, revision, MadeOn(s, revision)) EXCEPT !.whole = whole]
Genuine(file) ==
  \E s \in DOMAIN drawn, revision \in {1, 2}, whole \in BOOLEAN :
    /\ file = SentFile(s, revision, whole)
    /\ ~ whole => s = Cut /\ revision = 1

(* What was drawn of the days that came, and that all the bucket and the    *)
(* platform hold is genuine.  What landed is whole, what is malformed is    *)
(* not, and nothing was refused for a conflict.                             *)
DrawnInv ==
  /\ day \in Nat
  /\ DOMAIN drawn \subseteq Dates
  /\ \A s \in Dates : s < day \/ (sent /\ s = day) => s \in DOMAIN drawn
  /\ \A s \in DOMAIN drawn : drawn[s] \in Drawings(s)
HeldFilesInv ==
  /\ \A k \in DOMAIN bucket : Genuine(bucket[k].file)
  /\ \A f \in landed : Genuine(f) /\ f.whole
  /\ \A p \in parked : /\ Genuine(p.file)
                       /\ p.reason = "malformed" => ~ p.file.whole
                       /\ p.reason # "conflict"
ProcessorInv == DrawnInv /\ HeldFilesInv

(* The fields of such a file. *)
LEMMA SentFileFields ==
  ASSUME NEW s, NEW revision, NEW whole
  PROVE  /\ SentFile(s, revision, whole).date = s
         /\ SentFile(s, revision, whole).revision = revision
         /\ SentFile(s, revision, whole).whole = whole
         /\ SentFile(s, revision, whole).total = File(s, revision, MadeOn(s, revision)).total
BY DEF SentFile, File

(* What is genuine stays so: a date is drawn once.                          *)
LEMMA GenuineStays ==
  ASSUME DOMAIN drawn \subseteq DOMAIN drawn', \A s \in DOMAIN drawn : drawn'[s] = drawn[s]
  PROVE  \A f : Genuine(f) => Genuine(f)'
<1>1. \A s \in DOMAIN drawn : IsLate(s) = IsLate(s)'
  BY DEF IsLate
<1>2. \A s \in DOMAIN drawn : \A revision : MadeOn(s, revision) = MadeOn(s, revision)'
  BY <1>1 DEF MadeOn, DueDay
<1>3. \A s \in DOMAIN drawn : \A revision, on : File(s, revision, on) = File(s, revision, on)'
  <2>1. ASSUME NEW s \in DOMAIN drawn, NEW revision, NEW on
        PROVE  File(s, revision, on) = File(s, revision, on)'
    <3>1. drawn'[s] = drawn[s]
      OBVIOUS
    <3> QED BY <3>1, Zenon DEF File
  <2> QED BY <2>1
<1>4. \A s \in DOMAIN drawn : \A revision, whole : SentFile(s, revision, whole) = SentFile(s, revision, whole)'
  BY <1>2, <1>3 DEF SentFile
<1> QED BY <1>4 DEF Genuine

(* What one day's plan sends is genuine, if its days are drawn.             *)
LEMMA PlanIsGenuine ==
  ASSUME Settings, Scripts, DrawnInv,
         day \in Dates => day \in DOMAIN drawn,
         NEW d \in Plan(day)
  PROVE  Genuine(Sent(d, day))
<1> USE DEF Delivery
<1>0. /\ \A s \in Dates : s \in Nat
      /\ LateBy \in Nat /\ CorrectionLag \in Nat /\ OnArrival \in Nat /\ Cut \in Nat /\ day \in Nat
      /\ Cut \in Dates
  BY SettingsApart DEF Scripts, DrawnInv
<1>1. \A s \in Dates : s <= day => s \in DOMAIN drawn
  BY <1>0 DEF DrawnInv
<1>2. Cut <= day => DueDay(Cut) = Cut
  <2>1. SUFFICES ASSUME Cut <= day PROVE ~ drawn[Cut].late /\ Cut # HeldLate
    BY DEF DueDay, IsLate
  <2>2. drawn[Cut] \in Drawings(Cut)
    BY <2>1, <1>0, <1>1 DEF DrawnInv
  <2> QED BY <2>2 DEF Drawings, Scripts
<1>3. \A on \in Int : \A s \in DueOn(on) : s \in Dates /\ on = DueDay(s) /\ s <= on
  BY <1>0 DEF DueOn, DueDay
<1>4. ASSUME NEW s \in Dates, NEW revision \in {1, 2}, NEW transmission, s <= day,
             d = Delivery(s, revision, transmission),
             ProducedOn(d, day) = MadeOn(s, revision),
             transmission \in {"cut_off", "retry"} => s = Cut /\ revision = 1
      PROVE  Genuine(Sent(d, day))
  <2> DEFINE whole == transmission \notin {"cut_off", "retry"}
  <2>1. Sent(d, day) = SentFile(s, revision, whole)
    BY <1>4 DEF Sent, SentFile
  <2> QED BY <2>1, <1>1, <1>4 DEF Genuine
<1>5. CASE \E s \in DueOn(day) :
             d = Delivery(s, 1, IF s = Cut /\ day = Cut THEN "cut_off" ELSE "complete")
  <2>1. PICK s \in DueOn(day) :
               d = Delivery(s, 1, IF s = Cut /\ day = Cut THEN "cut_off" ELSE "complete")
    BY <1>5
  <2>2. s \in Dates /\ s <= day /\ DueDay(s) = day
    BY <1>0, <1>3
  <2>3. CASE s = Cut /\ day = Cut
    BY <2>1, <2>2, <2>3, <1>4 DEF ProducedOn, MadeOn
  <2>4. CASE ~ (s = Cut /\ day = Cut)
    BY <2>1, <2>2, <2>4, <1>4 DEF ProducedOn, MadeOn
  <2> QED BY <2>3, <2>4
<1>6. CASE \E s \in Corrections(day) : d = Delivery(s, 2, "complete")
  <2>1. PICK s \in Corrections(day) : d = Delivery(s, 2, "complete")
    BY <1>6
  <2>2. /\ s \in Dates /\ s <= day
        /\ day = DueDay(s) + IF s = OnArrival THEN 0 ELSE CorrectionLag
    <3>1. CASE s \in DueOn(day - CorrectionLag) /\ s # OnArrival
      <4>1. day - CorrectionLag \in Int
        BY <1>0
      <4>2. s \in Dates /\ day - CorrectionLag = DueDay(s) /\ s <= day - CorrectionLag
        BY <4>1, <3>1, <1>3
      <4> QED BY <4>2, <3>1, <1>0
    <3>2. CASE s \in DueOn(day) \cap {OnArrival}
      BY <3>2, <1>0, <1>3
    <3> QED BY <3>1, <3>2 DEF Corrections
  <2> QED BY <2>1, <2>2, <1>4 DEF ProducedOn, MadeOn
<1>7. CASE day = Cut + 1 /\ d = Delivery(Cut, 1, "resend")
  BY <1>7, <1>0, <1>2, <1>4 DEF ProducedOn, MadeOn
<1>8. CASE day = Cut + 2 /\ d = Delivery(Cut, 1, "retry")
  BY <1>8, <1>0, <1>2, <1>4 DEF ProducedOn, MadeOn
<1> QED BY <1>5, <1>6, <1>7, <1>8 DEF Plan

(***************************************************************************)
(* Each step keeps the invariant.                                          *)
(***************************************************************************)
LEMMA ProcessorStarts == ProcessorInit /\ Settings => ProcessorInv
<1> SUFFICES ASSUME ProcessorInit, Settings PROVE ProcessorInv
  OBVIOUS
<1>1. DOMAIN drawn = {} /\ DOMAIN bucket = {}
  BY DEF ProcessorInit
<1>2. \A s \in Dates : s \in Nat
  BY SettingsApart
<1> QED BY <1>1, <1>2 DEF ProcessorInit, ProcessorInv, DrawnInv, HeldFilesInv

(* A step that draws nothing leaves every file what it is.                  *)
LEMMA DrawnAlone ==
  ASSUME UNCHANGED drawn
  PROVE  /\ \A f : Genuine(f) => Genuine(f)'
         /\ DrawnInv /\ UNCHANGED <<day, sent>> => DrawnInv'
         /\ \A s : Drawings(s) = Drawings(s)'
<1>1. \A f : Genuine(f) => Genuine(f)'
  BY GenuineStays
<1>2. \A s : Drawings(s) = Drawings(s)'
  BY DEF Drawings, Breaks, MayBeDamaged, Deltas
<1> QED BY <1>1, <1>2 DEF DrawnInv

(* A draw adds a date and its drawing.                                     *)
LEMMA DrawKeeps == ProcessorInv /\ Draw => ProcessorInv'
<1> SUFFICES ASSUME ProcessorInv, Draw PROVE ProcessorInv'
  OBVIOUS
<1>1. PICK drawing \in Drawings(day) :
        drawn' = [s \in DOMAIN drawn \cup {day} |-> IF s = day THEN drawing ELSE drawn[s]]
  BY DEF Draw
<1>2. day \in Dates /\ day \notin DOMAIN drawn
  BY DEF Draw
<1>3. DOMAIN drawn' = DOMAIN drawn \cup {day} /\ \A s \in DOMAIN drawn : drawn'[s] = drawn[s]
  BY <1>1, <1>2
<1>4. \A f : Genuine(f) => Genuine(f)'
  BY <1>3, GenuineStays
<1>5. DrawnInv'
  BY <1>1, <1>2, <1>3 DEF DrawnInv, ProcessorInv, Draw
<1>6. HeldFilesInv'
  BY <1>4 DEF HeldFilesInv, ProcessorInv, Draw
<1> QED BY <1>5, <1>6 DEF ProcessorInv

(* A delivery puts genuine files into the bucket.                          *)
LEMMA DeliverKeeps ==
  Settings /\ Scripts /\ ProcessorInv /\ Deliver => ProcessorInv'
<1> SUFFICES ASSUME Settings, Scripts, ProcessorInv, Deliver
             PROVE  ProcessorInv'
  OBVIOUS
<1> DEFINE sending == {Key(d) : d \in Plan(day)}
           Put(k) == Sent(CHOOSE d \in Plan(day) : Key(d) = k, day)
<1>1. bucket' = [k \in sending \cup DOMAIN bucket |->
                   IF k \in sending THEN [file |-> Put(k), on |-> day] ELSE bucket[k]]
  BY DEF Deliver
<1>2. \A k \in sending : Genuine(Put(k))
  <2>1. ASSUME NEW k \in sending PROVE Genuine(Put(k))
    <3>1. PICK d \in Plan(day) : Key(d) = k
      BY <2>1
    <3>2. (CHOOSE e \in Plan(day) : Key(e) = k) \in Plan(day)
      BY <3>1
    <3> QED BY <3>2, PlanIsGenuine DEF ProcessorInv, Deliver
  <2> QED BY <2>1
<1>3. \A k \in DOMAIN bucket' : Genuine(bucket'[k].file)
  <2> HIDE DEF sending, Put
  <2> QED BY <1>1, <1>2 DEF ProcessorInv, HeldFilesInv
<1>4. UNCHANGED <<day, drawn, landed, parked>> /\ (day \in Dates => day \in DOMAIN drawn)
  BY DEF Deliver
<1>5. DrawnInv'
  BY <1>4, DrawnAlone DEF ProcessorInv, DrawnInv
<1> QED BY <1>3, <1>4, <1>5, DrawnAlone DEF ProcessorInv, HeldFilesInv

(* Two whole files that declare the same are one.                           *)
LEMMA WholeIsOne ==
  ASSUME NEW f, NEW g, Genuine(f), Genuine(g), f.whole = g.whole,
         f.date = g.date, f.revision = g.revision
  PROVE  f = g
BY SentFileFields DEF Genuine

(* What the platform makes of a genuine file it does not know.              *)
LEMMA ReadKeeps ==
  ASSUME NEW k \in DOMAIN bucket, ProcessorInv, Read(k)
  PROVE  ProcessorInv'
<1> DEFINE file == bucket[k].file
           on == bucket[k].on
<1>1. Genuine(file) /\ file.whole \in BOOLEAN
  BY SentFileFields DEF ProcessorInv, HeldFilesInv, Genuine
<1>2. UNCHANGED <<day, sent, drawn, bucket>>
  BY DEF Read
<1>3. DrawnInv' /\ \A f : Genuine(f) => Genuine(f)'
  BY <1>2, DrawnAlone DEF ProcessorInv
<1>4. CASE Known(file)
  BY <1>2, <1>3, <1>4 DEF Read, ProcessorInv, HeldFilesInv
<1>5. CASE ~ Known(file)
  <2> DEFINE verdict == Verdict(file, on)
  <2>1. verdict = "malformed" => ~ file.whole
    BY <1>1 DEF Verdict
  <2>2. verdict = "landed" => file.whole
    BY <1>1 DEF Verdict
  <2>3. verdict # "conflict"
    <3>1. SUFFICES ASSUME file.whole, NEW f \in landed, SameDeclaration(f, file)
                   PROVE  FALSE
      BY <1>1 DEF Verdict
    <3>2. f = file
      BY <3>1, <1>1, WholeIsOne DEF SameDeclaration, ProcessorInv, HeldFilesInv
    <3> QED BY <3>1, <3>2, <1>5 DEF Known
  <2> HIDE DEF verdict, file, on
  <2>4. IF verdict = "landed" THEN landed' = landed \cup {file} /\ UNCHANGED parked
        ELSE UNCHANGED landed /\ parked' = parked \cup {[file |-> file, on |-> on, reason |-> verdict]}
    BY <1>5 DEF Read, Take, verdict, file, on
  <2>5. CASE verdict = "landed"
    BY <2>2, <2>4, <2>5, <1>1, <1>2, <1>3 DEF ProcessorInv, HeldFilesInv
  <2>6. CASE verdict # "landed"
    BY <2>1, <2>3, <2>4, <2>6, <1>1, <1>2, <1>3 DEF ProcessorInv, HeldFilesInv
  <2> QED BY <2>5, <2>6
<1> QED BY <1>4, <1>5

(* What lands on a second attempt was parked, and is whole.                *)
LEMMA ReattemptKeeps ==
  ASSUME NEW p \in parked, ProcessorInv, Reattempt(p)
  PROVE  ProcessorInv'
<1>1. UNCHANGED <<day, sent, drawn, bucket>> /\ landed' = landed \cup {p.file} /\ parked' = parked \ {p}
  BY DEF Reattempt
<1>2. DrawnInv' /\ \A f : Genuine(f) => Genuine(f)'
  BY <1>1, DrawnAlone DEF ProcessorInv
<1>3. Genuine(p.file) /\ p.file.whole \in BOOLEAN
  BY SentFileFields DEF ProcessorInv, HeldFilesInv, Genuine
<1>4. p.file.whole
  BY <1>3 DEF Reattempt, Verdict
<1> QED BY <1>1, <1>2, <1>3, <1>4 DEF ProcessorInv, HeldFilesInv

(* The next day comes when its date before it was drawn.                   *)
LEMMA DayEndsKeeps ==
  Settings /\ ProcessorInv /\ DayEnds => ProcessorInv'
<1> SUFFICES ASSUME Settings, ProcessorInv, DayEnds PROVE ProcessorInv'
  OBVIOUS
<1>1. UNCHANGED <<drawn, bucket, landed, parked>> /\ day' = day + 1 /\ sent /\ ~ sent'
  BY DEF DayEnds
<1>2. DrawnInv'
  <2>1. \A s \in Dates : s < day + 1 => s \in DOMAIN drawn
    BY SettingsApart DEF ProcessorInv, DrawnInv, DayEnds
  <2> QED BY <1>1, <2>1, DrawnAlone DEF ProcessorInv, DrawnInv
<1> QED BY <1>1, <1>2, DrawnAlone DEF ProcessorInv, HeldFilesInv

(* Every step keeps it.                                                    *)
LEMMA ProcessorStep ==
  Settings /\ Scripts /\ ProcessorInv /\ [ProcessorNext]_processorVars => ProcessorInv'
<1> SUFFICES ASSUME Settings, Scripts, ProcessorInv, [ProcessorNext]_processorVars
             PROVE  ProcessorInv'
  OBVIOUS
<1>1. CASE Draw
  BY <1>1, DrawKeeps
<1>2. CASE Deliver
  BY <1>2, DeliverKeeps
<1>3. CASE DayEnds
  BY <1>3, DayEndsKeeps
<1>4. CASE Publish
  BY <1>4, DrawnAlone DEF Publish, ProcessorInv, HeldFilesInv
<1>5. CASE \E k \in DOMAIN bucket : Read(k)
  BY <1>5, ReadKeeps
<1>6. CASE \E p \in parked : Reattempt(p)
  BY <1>6, ReattemptKeeps
<1>7. CASE UNCHANGED processorVars
  BY <1>7, DrawnAlone DEF processorVars, ProcessorInv, HeldFilesInv
<1> QED BY <1>1, <1>2, <1>3, <1>4, <1>5, <1>6, <1>7 DEF ProcessorNext

(***************************************************************************)
(* Breaks.                                                                 *)
(***************************************************************************)
(* What is drawn as a break, and how large it is.                           *)
LEMMA DrawnBreak ==
  ASSUME NEW s, NEW drawing \in Drawings(s)
  PROVE  drawing.break \in Breaks(s)
BY DEF Drawings

(* A break moves one record by a size of its band.                         *)
LEMMA BreakIsADelta ==
  ASSUME NEW s, NEW break \in Breaks(s), break # NoBreak
  PROVE  /\ break.kind \in {"warn", "error"} /\ break.item \in DOMAIN Items[s]
         /\ \E d \in Deltas(Ledger(s), break.kind) :
              break.delta = d \/ break.delta = - d
<1>1. PICK kind \in {"warn", "error"} :
        \E i \in DOMAIN Items[s], d \in Deltas(Ledger(s), kind), sign \in {1, -1} :
          break = [kind |-> kind, item |-> i, delta |-> sign * d]
  BY DEF Breaks
<1>2. PICK i \in DOMAIN Items[s], d \in Deltas(Ledger(s), kind), sign \in {1, -1} :
        break = [kind |-> kind, item |-> i, delta |-> sign * d]
  BY <1>1
<1>3. d \in Int
  BY DEF Deltas
<1> QED BY <1>1, <1>2, <1>3

(* The severity of a difference of a size.                                  *)
LEMMA SeverityIs ==
  ASSUME NEW file, NEW on, NEW d, Abs(file - on) = d
  PROVE  Severity(file, on) =
           IF d = 0 THEN "none"
           ELSE IF d * Room < Abs(file) /\ d < Absolute THEN "warn" ELSE "error"
BY DEF Severity

(* A ledger total is an integer.                                           *)
LEMMA LedgerIsANumber ==
  ASSUME Settings, NEW s \in Dates
  PROVE  Ledger(s) \in Int
<1>1. Items[s] \in Seq(Int)
  BY SettingsApart
<1>2. PICK sum \in [0 .. Len(Items[s]) -> Int] : Total(Items[s]) = sum[Len(Items[s])]
  BY <1>1, TotalIsRunningSum
<1>3. Len(Items[s]) \in 0 .. Len(Items[s])
  BY <1>1
<1> QED BY <1>2, <1>3 DEF Ledger

(* A first file is off the ledger by its break, a correction by nothing.    *)
LEMMA FileIsOffByItsBreak ==
  ASSUME Settings, DrawnInv, NEW s \in DOMAIN drawn, NEW revision \in {1, 2}, NEW on
  PROVE  File(s, revision, on).total
           = Ledger(s) + (IF revision > 1 THEN NoBreak ELSE drawn[s].break).delta
<1> DEFINE break == IF revision > 1 THEN NoBreak ELSE drawn[s].break
<1>1. s \in Dates /\ Items[s] \in Seq(Int)
  BY SettingsApart DEF DrawnInv
<1>2. break.delta \in Int /\ (break.item \in DOMAIN Items[s] \/ break.delta = 0)
  <2>1. CASE break = NoBreak
    BY <2>1 DEF NoBreak
  <2>2. CASE break # NoBreak
    <3>1. break \in Breaks(s)
      BY <2>2, DrawnBreak DEF DrawnInv
    <3>2. PICK d \in Deltas(Ledger(s), break.kind) : break.delta = d \/ break.delta = - d
      BY <3>1, <2>2, BreakIsADelta
    <3>3. d \in Int
      BY <3>2 DEF Deltas
    <3> QED BY <3>1, <3>2, <3>3, <2>2, BreakIsADelta
  <2> QED BY <2>1, <2>2
<1>3. File(s, revision, on).total
        = Total([i \in DOMAIN Items[s] |-> Items[s][i] + IF i = break.item THEN break.delta ELSE 0])
  BY DEF File, Trailer
<1> HIDE DEF break
<1>4. Total([i \in DOMAIN Items[s] |-> Items[s][i] + IF i = break.item THEN break.delta ELSE 0])
        = Ledger(s) + IF break.item \in DOMAIN Items[s] THEN break.delta ELSE 0
  BY <1>1, <1>2, TotalMoves DEF Ledger
<1>5. (IF break.item \in DOMAIN Items[s] THEN break.delta ELSE 0) = break.delta
  BY <1>2
<1> QED BY <1>3, <1>4, <1>5 DEF break

(* The settings of the profiles leave a warning its room: a hundredth of a  *)
(* per cent to eight of them under a threshold of a tenth, on amounts of    *)
(* whole cents, the unit being a hundredth of one (profiles.yml, cents).    *)
LEMMA CentsLeaveRoom ==
  ASSUME Settings, WarnBand[1] = 1, WarnBand[2] = 8, Room = 1000,
         \A s \in Dates : \A i \in DOMAIN Items[s] : \E c \in Int : Items[s][i] = 100 * c
  PROVE  WarningsStayWarnings
<1> SUFFICES ASSUME NEW s \in Dates, NEW d \in Deltas(Ledger(s), "warn")
             PROVE  d * (Room + 1) < Abs(Ledger(s))
  BY DEF WarningsStayWarnings
<1> DEFINE A == Abs(Ledger(s))
<1>1. PICK c \in Int : Ledger(s) = 100 * c
  <2>1. Items[s] \in Seq(Int)
    BY SettingsApart
  <2> QED BY <2>1, TotalOfHundreds DEF Ledger
<1>2. A \in Nat /\ \E k \in Nat : A = 100 * k
  <2> DEFINE k == IF c < 0 THEN - c ELSE c
  <2>1. k \in Nat /\ 100 * k \in Nat /\ (100 * c < 0 <=> c < 0)
    OBVIOUS
  <2>2. A = IF 100 * c < 0 THEN - (100 * c) ELSE 100 * c
    BY <1>1 DEF Abs
  <2>3. A = 100 * k
    BY <2>1, <2>2
  <2> HIDE DEF A, k
  <2> QED BY <2>1, <2>3
<1>3. /\ d \in Int /\ d <= (2 * A * 8 + 10000) \div 20000
      /\ ~ (10000 > A * 8) /\ d * 1000 < A
  BY DEF Deltas
<1> HIDE DEF A
<1>4. 20000 * d <= 16 * A + 10000
  BY <1>2, <1>3
<1>5. d * 1001 < A
  <2>1. PICK k \in Nat : A = 100 * k
    BY <1>2
  <2> QED BY <2>1, <1>3, <1>4
<1> QED BY <1>5 DEF A

(* A warning is one, on either side of the ledger.                          *)
LEMMA WarnIsWarn ==
  ASSUME Settings, WarningsStayWarnings, NEW s \in Dates,
         NEW d \in Deltas(Ledger(s), "warn"), NEW delta \in {d, - d}
  PROVE  Severity(Ledger(s) + delta, Ledger(s)) = "warn"
<1> DEFINE L == Ledger(s)
<1>1. L \in Int /\ Room \in Nat /\ Absolute \in Nat
  BY LedgerIsANumber, SettingsApart
<1>2. d \in Nat \ {0} /\ d < Absolute /\ d * (Room + 1) < Abs(L)
  <2>1. d * (Room + 1) < Abs(L)
    BY DEF WarningsStayWarnings
  <2>2. d < Absolute /\ d # 0 /\ d \in Int /\ d >= (2 * Abs(L) * WarnBand[1] + 10000) \div 20000
    BY DEF Deltas
  <2>3. Abs(L) \in Nat
    BY <1>1 DEF Abs
  <2>4. 2 * Abs(L) * WarnBand[1] \in Nat
    <3>1. WarnBand[1] \in Nat
      BY SettingsApart
    <3> QED BY <2>3, <3>1
  <2>5. (2 * Abs(L) * WarnBand[1] + 10000) \div 20000 >= 0
    <3> HIDE DEF L
    <3> QED BY <2>4
  <2>6. d \in Nat \ {0}
    <3> DEFINE low == (2 * Abs(L) * WarnBand[1] + 10000) \div 20000
    <3>1. low \in Int /\ low >= 0 /\ d >= low /\ d \in Int /\ d # 0
      BY <2>2, <2>4, <2>5
    <3> HIDE DEF low
    <3> QED BY <3>1
  <2> QED BY <2>1, <2>2, <2>6
<1>3. Abs(L + delta - L) = d
  BY <1>1, <1>2 DEF Abs
<1>4. Abs(L) - d <= Abs(L + delta)
  BY <1>1, <1>2 DEF Abs
<1>5. d * (Room + 1) = d * Room + d /\ d * Room \in Int
  BY <1>1, <1>2
<1>6. d * Room < Abs(L + delta)
  <2>1. Abs(L) \in Int /\ Abs(L + delta) \in Int
    BY <1>1, <1>2 DEF Abs
  <2> QED BY <2>1, <1>2, <1>4, <1>5
<1> HIDE DEF L
<1>7. Severity(L + delta, L) = "warn"
  <2>1. Severity(L + delta, L) =
          IF d = 0 THEN "none"
          ELSE IF d * Room < Abs(L + delta) /\ d < Absolute THEN "warn" ELSE "error"
    <3> DEFINE T == L + delta
    <3>1. Abs(T - L) = d
      BY <1>1, <1>2 DEF Abs
    <3> HIDE DEF T
    <3>2. Severity(T, L) =
            IF d = 0 THEN "none"
            ELSE IF d * Room < Abs(T) /\ d < Absolute THEN "warn" ELSE "error"
      BY <3>1, SeverityIs
    <3> QED BY <3>2 DEF T
  <2> QED BY <2>1, <1>2, <1>6
<1> QED BY <1>7 DEF L

(* An error is one, on either side of the ledger.                           *)
LEMMA ErrorIsError ==
  ASSUME Settings, NEW s \in Dates,
         NEW d \in Deltas(Ledger(s), "error"), NEW delta \in {d, - d}
  PROVE  Severity(Ledger(s) + delta, Ledger(s)) = "error"
<1> DEFINE L == Ledger(s)
           A == Abs(L)
           low == (2 * A * ErrorBand[1] + 10000) \div 20000
<1>1. L \in Int /\ Room \in Nat /\ ErrorBand[1] \in Nat /\ A \in Nat
  BY LedgerIsANumber, SettingsApart DEF Abs
<1>2. d \in Int /\ low <= d /\ d # 0 /\ A * ErrorBand[1] \in Nat
  BY <1>1 DEF Deltas
<1>3. 20000 * low >= 2 * (A * ErrorBand[1]) - 9999 /\ low \in Nat
  <2>1. 2 * A * ErrorBand[1] = 2 * (A * ErrorBand[1])
    BY <1>1
  <2> HIDE DEF A
  <2> QED BY <2>1, <1>2, SMTT(30)
<1> HIDE DEF A, low
<1>4. d >= 1 /\ 20000 * d >= 2 * (A * ErrorBand[1]) - 9999
  BY <1>2, <1>3
<1>5. Room - 1 >= 0 /\ (Room - 1) * ErrorBand[1] >= 15000
  <2>1. (Room - 1) * ErrorBand[1] >= 15000
    BY SettingsApart
  <2>2. CASE Room = 0
    BY <2>1, <2>2, <1>1
  <2> QED BY <2>1, <2>2, <1>1
<1>6. d * (Room - 1) >= A
  <2>1. CASE A <= Room - 1
    <3> DEFINE r == Room - 1
    <3>1. r \in Nat /\ d \in Nat /\ d >= 1 /\ A <= r
      BY <1>1, <1>2, <1>4, <1>5, <2>1
    <3> HIDE DEF r
    <3>2. d * r >= r /\ d * r \in Int
      BY <3>1
    <3>3. d * r >= A
      BY <3>1, <3>2, <1>1
    <3> QED BY <3>3 DEF r
  <2>2. CASE A >= Room
    <3> DEFINE r == Room - 1
               b == ErrorBand[1]
    <3>1. r \in Nat /\ b \in Nat /\ A \in Nat /\ d \in Int /\ r * b >= 15000 /\ A >= r
      BY <1>1, <1>2, <1>5, <2>2
    <3>2. 20000 * d >= 2 * (A * b) - 9999
      BY <1>4
    <3> HIDE DEF r, b
    <3>3. (20000 * d) * r >= (2 * (A * b) - 9999) * r
      BY <3>1, <3>2
    <3>4. (20000 * d) * r = 20000 * (d * r) /\ (2 * (A * b) - 9999) * r = 2 * (A * (r * b)) - 9999 * r
      BY <3>1
    <3>5. A * (r * b) >= A * 15000
      BY <3>1
    <3>6. A * (r * b) \in Int /\ d * r \in Int
      BY <3>1
    <3>7. 20000 * (d * r) >= 20000 * A
      BY <3>1, <3>3, <3>4, <3>5, <3>6
    <3>8. d * r >= A
      BY <3>1, <3>6, <3>7
    <3> QED BY <3>8 DEF r
  <2> QED BY <2>1, <2>2, <1>1
<1>7. Abs(L + delta - L) = d /\ Abs(L + delta) <= A + d
  BY <1>1, <1>2, <1>4 DEF Abs, A
<1>8. ~ (d * Room < Abs(L + delta))
  <2>1. d * Room = d * (Room - 1) + d /\ d * Room \in Int /\ d * (Room - 1) \in Int
    BY <1>1, <1>2
  <2>2. Abs(L + delta) \in Int
    BY <1>1, <1>2 DEF Abs
  <2> QED BY <1>1, <1>2, <1>6, <1>7, <2>1, <2>2
<1> HIDE DEF L
<1>9. Severity(L + delta, L) = "error"
  <2>1. Severity(L + delta, L) =
          IF d = 0 THEN "none"
          ELSE IF d * Room < Abs(L + delta) /\ d < Absolute THEN "warn" ELSE "error"
    <3> DEFINE T == L + delta
    <3>1. Abs(T - L) = d
      BY <1>1, <1>2, <1>4 DEF Abs
    <3> HIDE DEF T
    <3>2. Severity(T, L) =
            IF d = 0 THEN "none"
            ELSE IF d * Room < Abs(T) /\ d < Absolute THEN "warn" ELSE "error"
      BY <3>1, SeverityIs
    <3> QED BY <3>2 DEF T
  <2> QED BY <2>1, <1>2, <1>8
<1> QED BY <1>9 DEF L

(* The file that counts is one that landed.                                 *)
LEMMA CountedLanded ==
  ASSUME ProcessorInv, NEW s, HasLanded(s)
  PROVE  Counted(s) \in landed /\ Counted(s).date = s
<1> DEFINE files == {f \in landed : f.date = s}
<1>1. \A f \in files : f.revision \in {1, 2}
  BY SentFileFields DEF ProcessorInv, HeldFilesInv, Genuine
<1>2. \E f \in files : \A g \in files : g.revision =< f.revision
  <2>1. CASE \E f \in files : f.revision = 2
    BY <1>1, <2>1
  <2>2. CASE \A f \in files : f.revision # 2
    BY <1>1, <2>2 DEF HasLanded
  <2> QED BY <2>1, <2>2
<1> HIDE DEF files
<1>3. (CHOOSE f \in files : \A g \in files : g.revision =< f.revision) \in files
  BY <1>2
<1>4. Counted(s) = CHOOSE f \in files : \A g \in files : g.revision =< f.revision
  BY DEF Counted, files
<1> QED BY <1>3, <1>4 DEF files

(* So a file that counts is off by its break, with its severity.           *)
LEMMA BreaksShown ==
  ASSUME Settings, WarningsStayWarnings, ProcessorInv
  PROVE  BreaksAreTheProcessors
<1> SUFFICES ASSUME NEW s \in DOMAIN drawn, HasLanded(s)
             PROVE  LET file == Counted(s)
                        break == IF file.revision > 1 THEN NoBreak ELSE drawn[s].break
                    IN  /\ file.total - Ledger(s) = break.delta
                        /\ Severity(file.total, Ledger(s)) = break.kind
  BY DEF BreaksAreTheProcessors
<1> DEFINE file == Counted(s)
           break == IF file.revision > 1 THEN NoBreak ELSE drawn[s].break
           L == Ledger(s)
<1>1. Genuine(file) /\ file.date = s
  BY CountedLanded DEF ProcessorInv, HeldFilesInv
<1>2. PICK revision \in {1, 2}, whole \in BOOLEAN : file = SentFile(s, revision, whole)
  BY <1>1, SentFileFields DEF Genuine
<1>3. s \in Dates /\ L \in Int
  BY LedgerIsANumber DEF ProcessorInv, DrawnInv
<1>4. file.revision = revision /\ file.total = File(s, revision, MadeOn(s, revision)).total
  BY <1>2, SentFileFields
<1>5. file.total = L + break.delta
  BY <1>4, FileIsOffByItsBreak DEF ProcessorInv
<1> HIDE DEF file
<1>6. CASE break = NoBreak
  <2>1. file.total = L
    BY <1>3, <1>5, <1>6 DEF NoBreak
  <2>2. Severity(L, L) = "none"
    BY <1>3, SeverityIs DEF Abs
  <2> HIDE DEF L, break
  <2> QED BY <2>1, <2>2, <1>3, <1>6 DEF NoBreak, break, L, file
<1>7. CASE break # NoBreak
  <2>1. break \in Breaks(s)
    BY <1>7, DrawnBreak DEF ProcessorInv, DrawnInv
  <2>2. PICK d \in Deltas(L, break.kind) : break.delta = d \/ break.delta = - d
    BY <2>1, <1>7, BreakIsADelta
  <2>3. break.delta \in Int
    BY <2>2 DEF Deltas
  <2>4. break.kind \in {"warn", "error"}
    BY <2>1, <1>7, BreakIsADelta
  <2>5. Severity(L + break.delta, L) = break.kind
    <3>1. CASE break.kind = "warn"
      BY <3>1, <2>2, <1>3, WarnIsWarn
    <3>2. CASE break.kind = "error"
      BY <3>2, <2>2, <1>3, ErrorIsError
    <3> QED BY <3>1, <3>2, <2>4
  <2>6. L + break.delta - L = break.delta
    BY <1>3, <2>3
  <2>7. file.total - L = break.delta /\ Severity(file.total, L) = break.kind
    <3> HIDE DEF L, break
    <3>1. file.total = L + break.delta
      BY <1>5
    <3>2. L \in Int /\ break.delta \in Int
      BY <1>3, <2>3
    <3>3. file.total - L = break.delta
      BY <3>1, <3>2
    <3>4. Severity(file.total, L) = break.kind
      BY <3>1, <2>5
    <3> QED BY <3>3, <3>4
  <2> QED BY <2>7 DEF file
<1> QED BY <1>6, <1>7

(* So what is malformed of a date is one file, and nothing conflicts.      *)
LEMMA CopiesShown == ProcessorInv => CopiesAreRecognised
<1> SUFFICES ASSUME ProcessorInv PROVE CopiesAreRecognised
  OBVIOUS
<1>1. ASSUME NEW p \in parked, NEW q \in parked, p.reason = "malformed", q.reason = "malformed",
             p.file.date = q.file.date
      PROVE  p.file = q.file
  <2>1. /\ Genuine(p.file) /\ ~ p.file.whole
        /\ Genuine(q.file) /\ ~ q.file.whole
    BY <1>1 DEF ProcessorInv, HeldFilesInv
  <2>2. p.file.whole = FALSE /\ q.file.whole = FALSE /\ p.file.revision = 1 /\ q.file.revision = 1
    BY <2>1, SentFileFields DEF Genuine
  <2> QED BY <2>1, <2>2, <1>1, WholeIsOne
<1>2. \A p \in parked : p.reason # "conflict"
  BY DEF ProcessorInv, HeldFilesInv
<1> QED BY <1>1, <1>2 DEF CopiesAreRecognised

(* What holds of the processor's days, its bucket and the platform's files, *)
(* for every ledger and script: one file for a date and a revision, and     *)
(* nothing malformed but what the script cuts off (plan, main and           *)
(* declared_conflict).                                                      *)
THEOREM ProcessorInvariant ==
  ASSUME Settings, Scripts
  PROVE  ProcessorSpec => []ProcessorInv
<1>1. ProcessorInit => ProcessorInv
  BY ProcessorStarts
<1>2. ProcessorInv /\ [ProcessorNext]_processorVars => ProcessorInv'
  BY ProcessorStep
<1> QED BY <1>1, <1>2, PTL DEF ProcessorSpec

(* The only breaks are those the processor made, with the severity they are *)
(* meant to have (build, severity, plan): a file that counts is off the     *)
(* ledger by its break, and a corrected date by nothing.                    *)
THEOREM BreaksAreTheProcessorsCorrect ==
  ASSUME Settings, Scripts, WarningsStayWarnings
  PROVE  ProcessorSpec => []BreaksAreTheProcessors
<1>1. ProcessorInv => BreaksAreTheProcessors
  BY BreaksShown
<1> QED BY <1>1, ProcessorInvariant, PTL

(* What is sent twice is known as one file (discover, declared_conflict):   *)
(* one malformed file of a date, and no resend or retry refused as another  *)
(* file of its date.                                                        *)
THEOREM CopiesAreRecognisedCorrect ==
  ASSUME Settings, Scripts
  PROVE  ProcessorSpec => []CopiesAreRecognised
<1> QED BY CopiesShown, ProcessorInvariant, PTL
=============================================================================
