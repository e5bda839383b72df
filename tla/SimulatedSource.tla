--------------------------- MODULE SimulatedSource ---------------------------
(***************************************************************************)
(* The simulated source as a machine that is seeded and ticked: the state  *)
(* row and the logs, the drift timeline, and the load of a new book with   *)
(* its foreign keys taken off.  What a tick does to the book is another    *)
(* module; here it is one transaction that takes the state row, may fail   *)
(* and commits.  Ticks are called by hand or by the scheduler, two at once *)
(* too, a seed may run at the same time, and any of them may be killed.    *)
(* Days count from the epoch of the first anchor.                          *)
(***************************************************************************)
EXTENDS Integers, Sequences, FiniteSets, SequencesExt

CONSTANTS
  Tickers,    \* the processes that tick
  Profiles,   \* the generator's profiles
  Anchors,    \* the days a history may end on
  Events,     \* the drift timeline
  Offset,     \* [Events -> Nat]: days from the anchor to the event
  Adding,     \* the events that add a column, the rest widen one
  Keys,       \* the foreign keys of core
  OfCustomer, \* those that reference core.customers
  Parts,      \* commits the load is made of: the tables, then the ledger's chunks
  MaxDay,     \* bound: the last day ticked
  Calls,      \* bound: tick commands
  Seeds,      \* bound: seed commands
  Kills       \* bound: processes killed

ASSUME SourceAssumption ==
  /\ Anchors \subseteq Nat /\ MaxDay \in Nat
  /\ IsFiniteSet(Events)
  /\ Parts \in Nat \ {0}
  /\ Offset \in [Events -> Nat \ {0}]
  /\ Adding \subseteq Events /\ OfCustomer \subseteq Keys

VARIABLES
  sim,        \* platform.simulation_state, Unseeded when it has no row
  tickLog,    \* platform.tick_log, in the order of the ticks
  driftLog,   \* platform.drift_log
  schema,     \* the events whose DDL is in force in core
  classified, \* platform.column_classifications: the events' columns it holds
  parts,      \* the commits of the new book that are loaded
  orphans,    \* a customer with dependents is gone from the book
  keys,       \* the foreign keys in force
  journal,    \* dropped-constraints.json
  tick,       \* [Tickers -> what the process does]
  seed,       \* what the seed process does
  calls, seeds, kills  \* what is left of the bounds

database == <<sim, tickLog, driftLog, schema, classified, parts, orphans, keys>>
bounds == <<calls, seeds, kills>>
vars == <<database, journal, tick, seed, bounds>>

Unseeded == [anchor |-> -1, date |-> -1, seq |-> 0, profile |-> "none"]
Absent == [file |-> "absent", names |-> {}]
Torn == [file |-> "torn", names |-> {}]     \* cut off while it was written
Written(K) == [file |-> "written", names |-> K]
NextDay == 0           \* the date a bare tick asks for
Logged == ToSet(driftLog)

(* A process holds the state row from its check until it commits, and has   *)
(* read the drift log once it fired; a seed that emptied the logs holds     *)
(* them until it commits.                                                   *)
InTransaction(t) == tick[t].at \in {"working", "fired"}
RowIsFree == \A t \in Tickers : ~ InTransaction(t)
LogsAreFree == seed.at # "cleared"

TickGoes(t, s) == tick' = [tick EXCEPT ![t].at = s]
TickEnds(t) == tick' = [tick EXCEPT ![t] = [at |-> "idle", dates |-> <<>>, profile |-> "none"]]
SeedGoes(from, to) == seed.at = from /\ seed' = [seed EXCEPT !.at = to]
SeedEnds == seed' = [seed EXCEPT !.at = "idle"]
-----------------------------------------------------------------------------
(***************************************************************************)
(* A tick.                                                                 *)
(***************************************************************************)
(* tick, tick --date d, tick --to d; the scheduler's run is the second.  To *)
(* a day, the dates are fixed now, from a state read without its lock.      *)
Commands == {<<NextDay>>} \cup {<<d>> : d \in 1 .. MaxDay}
              \cup {[i \in 1 .. d - sim.date |-> sim.date + i] : d \in sim.date + 1 .. MaxDay}

(* A source never seeded is refused before anything. *)
CallTick(t) ==
  /\ calls > 0 /\ tick[t].at = "idle" /\ sim # Unseeded
  /\ \E dates \in Commands :
       tick' = [tick EXCEPT ![t] = [at |-> "ready", dates |-> dates, profile |-> sim.profile]]
  /\ calls' = calls - 1
  /\ UNCHANGED <<database, journal, seed, seeds, kills>>

(* Mutant of Permits: any day after the simulated one.                      *)
PermitsLater(t) ==
  /\ sim.profile = tick[t].profile
  /\ Head(tick[t].dates) = NextDay \/ Head(tick[t].dates) > sim.date

Permits(t) ==
  /\ sim.profile = tick[t].profile
  /\ Head(tick[t].dates) \in {NextDay, sim.date + 1}

Target(t) == IF Head(tick[t].dates) = NextDay THEN sim.date + 1 ELSE Head(tick[t].dates)

(* Under the lock of the state row: the day is decided, or refused. *)
Require(t) ==
  /\ tick[t].at = "ready" /\ RowIsFree
  /\ IF Permits(t) THEN /\ Target(t) =< MaxDay
                        /\ tick' = [tick EXCEPT ![t].at = "working", ![t].dates[1] = Target(t)]
                   ELSE TickEnds(t)
  /\ UNCHANGED <<database, journal, seed, bounds>>

(* The last phase reads which events have fired. *)
ReadDriftLog(t) ==
  /\ tick[t].at = "working" /\ LogsAreFree
  /\ TickGoes(t, "fired")
  /\ UNCHANGED <<database, journal, seed, bounds>>

(* Mutant of DueEvents: events whose date has passed.                       *)
DueEventsPassed(day) == {e \in Events \ Logged : sim.anchor + Offset[e] < day}

(* What the timeline owes on a day. *)
DueEvents(day) == {e \in Events \ Logged : sim.anchor + Offset[e] =< day}

(* The guard, or any phase: the transaction is rolled back and the command  *)
(* gives up.                                                                *)
TickFails(t) ==
  /\ InTransaction(t)
  /\ TickEnds(t)
  /\ UNCHANGED <<database, journal, seed, bounds>>

(* The state, the logs, the DDL and the book move together.  The purge asks *)
(* the catalogue which tables reference a customer: with those keys off, it *)
(* takes any customer to be a duplicate nothing depends on.                 *)
CommitTick(t) ==
  LET day == Head(tick[t].dates)
      due == SetToSeqs(DueEvents(day))
  IN  /\ tick[t].at = "fired"
      /\ \A i \in DOMAIN tickLog : tickLog[i].date # day /\ tickLog[i].seq # sim.seq + 1
      /\ sim' = [sim EXCEPT !.date = day, !.seq = @ + 1]
      /\ tickLog' = Append(tickLog, [date |-> day, seq |-> sim.seq + 1, profile |-> sim.profile])
      /\ \E order \in due : driftLog' = driftLog \o order
      /\ schema' = schema \cup DueEvents(day)
      /\ classified' = classified \cup (DueEvents(day) \cap Adding)
      /\ orphans' \in {orphans, orphans \/ (parts > 0 /\ ~ (OfCustomer \subseteq keys))}
      /\ TickGoes(t, "committed")
      /\ UNCHANGED <<parts, keys, journal, seed, bounds>>

(* The log and the window of the latest tick are compared after the commit, *)
(* in reads of their own, and the command gives up when they disagree: the  *)
(* tick itself may have made them (BankRegister), or whoever ticked since.  *)
(* Then the next day of the command.                                        *)
Reconcile(t) ==
  /\ tick[t].at = "committed" /\ LogsAreFree
  /\ \E agrees \in BOOLEAN :
       IF agrees /\ Len(tick[t].dates) > 1
       THEN tick' = [tick EXCEPT ![t].at = "ready", ![t].dates = Tail(@)]
       ELSE TickEnds(t)
  /\ UNCHANGED <<database, journal, seed, bounds>>

KillTick(t) ==
  /\ kills > 0 /\ tick[t].at # "idle"
  /\ TickEnds(t) /\ kills' = kills - 1
  /\ UNCHANGED <<database, journal, seed, calls, seeds>>
-----------------------------------------------------------------------------
(***************************************************************************)
(* A seed: reset the simulation, then load the new book.                   *)
(***************************************************************************)
(* The events to revert are read before the transaction that reverts them.  *)
CallSeed ==
  /\ seeds > 0 /\ seed.at \in {"idle", "loaded"} /\ LogsAreFree
  /\ \E p \in Profiles, a \in Anchors :
       seed' = [at |-> "generated", profile |-> p, anchor |-> a, fired |-> Logged,
                dropped |-> {}, failed |-> FALSE]
  /\ seeds' = seeds - 1
  /\ UNCHANGED <<database, journal, tick, calls, kills>>

ClearLogs ==
  /\ \A t \in Tickers : tick[t].at # "fired"
  /\ SeedGoes("generated", "cleared")
  /\ UNCHANGED <<database, journal, tick, bounds>>

(* Mutant of Emptied: the drift log is not among the tables truncated.      *)
EmptiedTicks == tickLog' = <<>> /\ driftLog' = driftLog

Emptied == tickLog' = <<>> /\ driftLog' = <<>>

(* The upsert of the state row, which commits the reset. *)
PointAtAnchor ==
  /\ RowIsFree
  /\ SeedGoes("cleared", "reset")
  /\ schema' = schema \ seed.fired
  /\ classified' = classified \ seed.fired
  /\ Emptied
  /\ sim' = [anchor |-> seed.anchor, date |-> seed.anchor, seq |-> 0, profile |-> seed.profile]
  /\ UNCHANGED <<parts, orphans, keys, journal, tick, bounds>>

(* The seed waits for the state row and the tick for the log: PostgreSQL    *)
(* aborts one of them.                                                      *)
BreakDeadlock(t) ==
  /\ seed.at = "cleared" /\ tick[t].at = "working"
  /\ \/ TickEnds(t) /\ UNCHANGED seed
     \/ SeedEnds /\ UNCHANGED tick
  /\ UNCHANGED <<database, journal, bounds>>

(* Mutant of Journalled: a load goes ahead over what the last one left.     *)
JournalledNever == {}

(* The keys a killed load took off and did not put back. *)
Journalled == journal.names \ keys

(* A key can be put back unless rows break it. *)
Holds(k) == orphans => k \notin OfCustomer

(* restore_dropped_constraints, one statement at a time, before anything.   *)
Repair ==
  /\ seed.at = "reset" /\ journal # Torn
  /\ \E k \in Journalled : Holds(k) /\ keys' = keys \cup {k}
  /\ UNCHANGED <<sim, tickLog, driftLog, schema, classified, parts, orphans, journal, tick, seed,
                 bounds>>

Repaired ==
  /\ journal # Torn /\ Journalled = {}
  /\ SeedGoes("reset", "repaired")
  /\ journal' = Absent
  /\ UNCHANGED <<database, tick, bounds>>

(* A journal that does not parse, or a key the rows break. *)
RepairFails ==
  /\ seed.at = "reset"
  /\ journal = Torn \/ \E k \in Journalled : ~ Holds(k)
  /\ SeedEnds
  /\ UNCHANGED <<database, journal, tick, bounds>>

(* The catalogue is read, and the file written over two steps. *)
OpenJournal ==
  /\ seed.at = "repaired"
  /\ seed' = [seed EXCEPT !.at = "writing", !.dropped = keys]
  /\ journal' = Torn
  /\ UNCHANGED <<database, tick, bounds>>

WriteJournal ==
  /\ SeedGoes("writing", "journalled")
  /\ journal' = Written(seed.dropped)
  /\ UNCHANGED <<database, tick, bounds>>

TruncateCore ==
  /\ RowIsFree
  /\ SeedGoes("journalled", "dropping")
  /\ parts' = 0 /\ orphans' = FALSE
  /\ UNCHANGED <<sim, tickLog, driftLog, schema, classified, keys, journal, tick, bounds>>

DropKey ==
  /\ seed.at = "dropping" /\ RowIsFree
  /\ \E k \in keys :
       /\ keys' = keys \ {k}
       /\ seed' = IF keys = {k} THEN [seed EXCEPT !.at = "copying"] ELSE seed
  /\ UNCHANGED <<sim, tickLog, driftLog, schema, classified, parts, orphans, journal, tick, bounds>>

(* One session for every table but the ledger entries. *)
CopyTables ==
  /\ seed.at = "copying" /\ parts = 0
  /\ parts' = 1
  /\ UNCHANGED <<sim, tickLog, driftLog, schema, classified, orphans, keys, journal, tick, seed,
                 bounds>>

(* The ledger entries, in chunks that never split a posting batch. *)
CopyLedger ==
  /\ seed.at = "copying" /\ parts \in 1 .. Parts - 1
  /\ parts' = parts + 1
  /\ UNCHANGED <<sim, tickLog, driftLog, schema, classified, orphans, keys, journal, tick, seed,
                 bounds>>

(* The copy is over, or raised: in either case the keys go back on. *)
LeaveCopy ==
  /\ seed.at = "copying"
  /\ seed' = [seed EXCEPT !.at = "restoring", !.failed = parts < Parts]
  /\ UNCHANGED <<database, journal, tick, bounds>>

RestoreKey ==
  /\ seed.at = "restoring" /\ RowIsFree
  /\ \E k \in seed.dropped \ keys : Holds(k) /\ keys' = keys \cup {k}
  /\ UNCHANGED <<sim, tickLog, driftLog, schema, classified, parts, orphans, journal, tick, seed,
                 bounds>>

RestoreFails ==
  /\ seed.at = "restoring"
  /\ \E k \in seed.dropped \ keys : ~ Holds(k)
  /\ SeedEnds
  /\ UNCHANGED <<database, journal, tick, bounds>>

Restored ==
  /\ seed.dropped \subseteq keys
  /\ SeedGoes("restoring", IF seed.failed THEN "idle" ELSE "loaded")
  /\ journal' = Absent
  /\ UNCHANGED <<database, tick, bounds>>

KillSeed ==
  /\ kills > 0 /\ seed.at \notin {"idle", "loaded"}
  /\ SeedEnds /\ kills' = kills - 1
  /\ UNCHANGED <<database, journal, tick, calls, seeds>>
-----------------------------------------------------------------------------
(* A source with its schema applied and nothing in it. *)
Init ==
  /\ sim = Unseeded /\ tickLog = <<>> /\ driftLog = <<>>
  /\ schema = {} /\ classified = {}
  /\ parts = 0 /\ orphans = FALSE /\ keys = Keys /\ journal = Absent
  /\ tick = [t \in Tickers |-> [at |-> "idle", dates |-> <<>>, profile |-> "none"]]
  /\ seed = [at |-> "idle", profile |-> "none", anchor |-> 0, fired |-> {}, dropped |-> {},
             failed |-> FALSE]
  /\ calls = Calls /\ seeds = Seeds /\ kills = Kills

Tick(t) ==
  \/ CallTick(t) \/ Require(t) \/ ReadDriftLog(t) \/ TickFails(t) \/ CommitTick(t)
  \/ Reconcile(t) \/ KillTick(t)

Load ==
  \/ Repair \/ Repaired \/ RepairFails \/ OpenJournal \/ WriteJournal \/ TruncateCore
  \/ DropKey \/ CopyTables \/ CopyLedger \/ LeaveCopy \/ RestoreKey \/ RestoreFails \/ Restored

Seed == CallSeed \/ ClearLogs \/ PointAtAnchor \/ Load \/ KillSeed

Next == Seed \/ \E t \in Tickers : Tick(t) \/ BreakDeadlock(t)
Spec == Init /\ [][Next]_vars
-----------------------------------------------------------------------------
(***************************************************************************)
(* Properties.                                                             *)
(***************************************************************************)
(* Whoever ticks, and however many at once: the tick log has one row for    *)
(* each day since the anchor, numbered from one, all at the profile of the  *)
(* seed, and the state is at the last of them (state.require).              *)
TickedDayByDay ==
  sim # Unseeded =>
    /\ Len(tickLog) = sim.seq /\ sim.date = sim.anchor + sim.seq
    /\ \A i \in DOMAIN tickLog :
         tickLog[i] = [date |-> sim.anchor + i, seq |-> i, profile |-> sim.profile]

(* An event fires once, on its own day: neither lost by a rollback or a     *)
(* reseed nor fired again by one (drift.due_events).                        *)
DriftOnTime ==
  sim # Unseeded =>
    /\ Logged = {e \in Events : sim.anchor + Offset[e] =< sim.date}
    /\ Len(driftLog) = Cardinality(Logged)

(* What the drift log says has fired is in the schema, and a column it      *)
(* added is classified, also across a reset that races a tick               *)
(* (drift.record_fired, mutation.reset).                                    *)
LogIsInTheSchema == Logged \subseteq schema /\ Logged \cap Adding \subseteq classified

(* A foreign key a load took off is not forgotten: until it is back, the    *)
(* journal names it, and a seed that says it loaded has a whole book with   *)
(* every key in force (writer.load).                                        *)
KeysAreKept ==
  /\ Keys \ keys \subseteq journal.names
  /\ seed.at = "loaded" => keys = Keys /\ parts = Parts

=============================================================================
