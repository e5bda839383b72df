-------------------------- MODULE DailyLoopProofs --------------------------
(***************************************************************************)
(* Proofs about DailyLoop, for windows of any length, any ends of the runs *)
(* and any number of kills, halts, resumed loops and ticks by hand.        *)
(***************************************************************************)
EXTENDS DailyLoop, WellFoundedInduction, TLAPS

(* Where the loop is on its way through the days, and where it holds the    *)
(* transforms.                                                              *)
Walking == {"recording", "pausing", "history", "loading", "day", "ticking", "relational", "feeds"}
Holding == {"pausing", "history", "loading", "day", "ticking", "relational", "feeds", "unpausing",
            "forgetting"}
LoopStates == Walking \cup Holding \cup {"idle", "building", "settling", "reported"}
LoopRows == [at : LoopStates, from : Days, day : Nat \ {0}, to : Days, prior : BOOLEAN,
             todo : SUBSET Relational, feeds : SUBSET Feeds, code : {0, 1}]

LoopTypes ==
  /\ sim \in Nat
  /\ run \in [DAGs \X (0 .. Last) -> {"none", "running", "success", "failed"}]
  /\ readAt \in [Relational \X Days -> Nat]
  /\ loop \in LoopRows

(* A relational run that goes on is of the day the source is at, and the    *)
(* loop has not walked past it; it ticks with none going on, and runs the   *)
(* relational DAGs of the day the source is at only.                        *)
WalkInv ==
  /\ \A dag \in Relational, d \in Days : Active(dag, d) => d = sim
  /\ loop.at \in Walking =>
       \A dag \in Relational, d \in Days : Active(dag, d) => loop.day =< d
  /\ loop.at \in {"ticking", "relational", "feeds"} => loop.day \in Days
  /\ loop.at = "feeds" => \A dag \in Relational : ~ Active(dag, loop.day)
  /\ loop.at = "ticking" => sim = loop.day - 1
  /\ loop.at = "relational" /\ loop.todo # {} => sim = loop.day

(* Between taking and giving back the DAG, the Variable and the loop both   *)
(* know what the operator chose.                                            *)
HoldInv ==
  /\ wanted \in BOOLEAN /\ PauseComesBack
  /\ loop.at \in Holding => record = {wanted} /\ loop.prior = wanted
  /\ loop.at = "forgetting" => paused = wanted

LoopInv == LoopTypes /\ WalkInv /\ DayIsReadInTime
-----------------------------------------------------------------------------
(***************************************************************************)
(* The runs.                                                               *)
(***************************************************************************)
LEMMA StartedType ==
  ASSUME LoopTypes, NEW S \in SUBSET DAGs, NEW d \in 0 .. Last, run' = Started(S, d)
  PROVE  /\ run' \in [DAGs \X (0 .. Last) -> {"none", "running", "success", "failed"}]
         /\ \A g \in DAGs, e \in 0 .. Last : Active(g, e)' => Active(g, e) \/ (g \in S /\ e = d)
<1>1. run' \in [DAGs \X (0 .. Last) -> {"none", "running", "success", "failed"}]
  BY DEF LoopTypes, Started
<1>2. \A x \in DAGs \X (0 .. Last) : run'[x] = IF x[2] = d /\ x[1] \in S THEN "running" ELSE run[x]
  BY DEF LoopTypes, Started
<1> QED BY <1>1, <1>2 DEF Active

LEMMA FinishedType ==
  ASSUME LoopTypes, NEW dag, NEW d, NEW held, Finished(dag, d, held)
  PROVE  /\ run' \in [DAGs \X (0 .. Last) -> {"none", "running", "success", "failed"}]
         /\ \A g \in DAGs, e \in 0 .. Last : Active(g, e)' => Active(g, e)
<1>1. PICK s \in {"success", "failed"} : run' = [run EXCEPT ![<<dag, d>>] = s]
  BY DEF Finished
<1> QED BY <1>1 DEF LoopTypes, Active

LEMMA RelationalDAGs ==
  /\ Relational \subseteq DAGs /\ Feeds \subseteq DAGs /\ Relational \cap Feeds = {}
  /\ Days \subseteq 0 .. Last /\ Days \subseteq Nat \ {0}
  /\ Last \in Nat
  BY LoopAssumption DEF Relational, Feeds, DAGs, Days
-----------------------------------------------------------------------------
(***************************************************************************)
(* A day is read in its time.                                              *)
(***************************************************************************)
LEMMA LoopInit == Init => LoopInv
<1> SUFFICES ASSUME Init PROVE LoopInv
  OBVIOUS
<1>1. LoopTypes
  <2>1. 1 \in Days
    BY LoopAssumption DEF Days
  <2>2. loop \in LoopRows
    BY <2>1 DEF Init, LoopRows, LoopStates
  <2> QED BY <2>2 DEF Init, LoopTypes
<1>2. WalkInv
  BY RelationalDAGs DEF Init, WalkInv, Active, Walking
<1>3. DayIsReadInTime
  BY DEF Init, DayIsReadInTime
<1> QED BY <1>1, <1>2, <1>3 DEF LoopInv

(* A run that ends. *)
LEMMA RelationalEndKeeps ==
  ASSUME LoopInv, NEW dag \in Relational, NEW d \in Days, EndRelational(dag, d)
  PROVE  LoopInv'
<1>1. PICK held \in Ends :
        /\ Finished(dag, d, held)
        /\ IF held = "registered" THEN readAt' = [readAt EXCEPT ![<<dag, d>>] = sim]
                                  ELSE UNCHANGED readAt
  BY DEF EndRelational
<1>2. UNCHANGED <<sim, loop>> /\ Active(dag, d)
  BY DEF EndRelational
<1>3. /\ run' \in [DAGs \X (0 .. Last) -> {"none", "running", "success", "failed"}]
      /\ \A g \in DAGs, e \in 0 .. Last : Active(g, e)' => Active(g, e)
  BY <1>1, FinishedType, RelationalDAGs DEF LoopInv
<1>4. d = sim
  BY <1>2 DEF LoopInv, WalkInv
<1>5. readAt' \in [Relational \X Days -> Nat] /\ DayIsReadInTime'
  BY <1>1, <1>4 DEF LoopInv, LoopTypes, DayIsReadInTime
<1>6. WalkInv'
  BY <1>2, <1>3, RelationalDAGs DEF LoopInv, WalkInv
<1> QED BY <1>2, <1>3, <1>5, <1>6 DEF LoopInv, LoopTypes

LEMMA FeedEndKeeps ==
  ASSUME LoopInv, UNCHANGED <<sim, readAt, loop>>,
         NEW dag, NEW d, NEW held, Finished(dag, d, held)
  PROVE  LoopInv'
<1>1. /\ run' \in [DAGs \X (0 .. Last) -> {"none", "running", "success", "failed"}]
      /\ \A g \in DAGs, e \in 0 .. Last : Active(g, e)' => Active(g, e)
  BY FinishedType DEF LoopInv
<1>2. WalkInv'
  BY <1>1, RelationalDAGs DEF LoopInv, WalkInv
<1> QED BY <1>1, <1>2 DEF LoopInv, LoopTypes, DayIsReadInTime

LEMMA QuietKeeps ==
  ASSUME LoopInv, UNCHANGED <<sim, run, readAt, loop>>
  PROVE  LoopInv'
  BY DEF LoopInv, LoopTypes, WalkInv, DayIsReadInTime, Active
(* A loop that moves to a state where nothing is asked of the runs, or on   *)
(* among those where as much is asked. *)
LEMMA LoopMovesKeeps ==
  ASSUME LoopInv, UNCHANGED <<sim, run, readAt>>, loop' \in LoopRows, loop'.day = loop.day,
         loop'.at \notin {"feeds", "ticking", "relational"},
         loop'.at \in Walking => loop.at \in Walking
  PROVE  LoopInv'
  BY DEF LoopInv, LoopTypes, WalkInv, DayIsReadInTime, Active

LEMMA InvokeKeeps ==
  ASSUME LoopInv, Invoke
  PROVE  LoopInv'
<1>1. PICK from, to \in Days :
        /\ \A dag \in DAGs, d \in 1 .. from - 1 : ~ Active(dag, d)
        /\ loop' = [at |-> "recording", from |-> from, day |-> from, to |-> to, prior |-> FALSE,
                    todo |-> {}, feeds |-> {}, code |-> 0]
  BY DEF Invoke
<1>2. loop' \in LoopRows /\ loop'.at = "recording" /\ loop'.day = from
  BY <1>1, RelationalDAGs DEF LoopRows, LoopStates, Walking
<1>3. UNCHANGED <<sim, run, readAt>>
  BY DEF Invoke, platform
<1>4. \A dag \in Relational, d \in Days : Active(dag, d) => from =< d
  <2> TAKE dag \in Relational, d \in Days
  <2>1. from \in Nat /\ d \in Nat \ {0} /\ dag \in DAGs
    BY RelationalDAGs
  <2>2. d \in 1 .. from - 1 \/ from =< d
    BY <2>1
  <2> QED BY <1>1, <2>1, <2>2
<1>5. WalkInv'
  BY <1>2, <1>3, <1>4 DEF LoopInv, WalkInv, Active
<1> QED BY <1>2, <1>3, <1>5 DEF LoopInv, LoopTypes, DayIsReadInTime

LEMMA HistoryKeeps ==
  ASSUME LoopInv, LoadHistory
  PROVE  LoopInv'
<1>0. UNCHANGED <<sim, readAt>> /\ loop.at = "history"
  BY DEF LoadHistory
<1>1. loop' \in LoopRows /\ loop'.day = loop.day /\ loop'.at \in {"day", "loading"}
  <2>1. PICK s \in {"day", "loading"} : loop' = [loop EXCEPT !.at = s]
    BY DEF LoadHistory
  <2> QED BY <2>1 DEF LoopInv, LoopTypes, LoopRows, LoopStates, Walking
<1>2. CASE UNCHANGED run
  BY <1>0, <1>1, <1>2, LoopMovesKeeps DEF Walking
<1>3. CASE run' = Started({"fx"}, HistoryEnd)
  <2>1. {"fx"} \in SUBSET DAGs /\ "fx" \notin Relational /\ HistoryEnd \in 0 .. Last
    BY RelationalDAGs DEF DAGs, Feeds, Relational, HistoryEnd
  <2>2. /\ run' \in [DAGs \X (0 .. Last) -> {"none", "running", "success", "failed"}]
        /\ \A dag \in Relational, d \in Days : Active(dag, d)' => Active(dag, d)
    BY <1>3, <2>1, StartedType, RelationalDAGs DEF LoopInv
  <2>3. WalkInv'
    BY <1>0, <1>1, <2>2 DEF LoopInv, WalkInv, Walking
  <2> QED BY <1>0, <1>1, <2>2, <2>3 DEF LoopInv, LoopTypes, DayIsReadInTime
<1> QED BY <1>2, <1>3 DEF LoadHistory

LEMMA BeginDayKeeps ==
  ASSUME LoopInv, BeginDay
  PROVE  LoopInv'
<1> DEFINE relational == Pending(Relational, loop.day)
           feeds == Pending(Feeds, loop.day)
           Work(at) == [loop EXCEPT !.at = at, !.todo = relational, !.feeds = feeds]
<1>1. /\ loop.at = "day" /\ loop.day =< loop.to
      /\ \A dag \in DAGs : ~ Active(dag, loop.day)
      /\ UNCHANGED <<sim, run, readAt>>
  BY DEF BeginDay, platform
<1>2. relational \in SUBSET Relational /\ feeds \in SUBSET Feeds
  BY DEF Pending
<1>3. \/ loop' = [loop EXCEPT !.day = loop.day + 1]
      \/ Stops
      \/ sim = loop.day - 1 /\ loop' = Work("ticking")
      \/ MayProceed(loop.day, relational) /\ loop' = Work("relational")
  BY DEF BeginDay
<1> HIDE DEF relational, feeds
<1>4. CASE loop' = [loop EXCEPT !.day = loop.day + 1]
  <2>1. loop' \in LoopRows /\ loop'.at = "day" /\ loop'.day = loop.day + 1
    BY <1>1, <1>4 DEF LoopInv, LoopTypes, LoopRows
  <2>2. \A dag \in Relational, d \in Days : Active(dag, d) => loop.day + 1 =< d
    <3> SUFFICES ASSUME NEW dag \in Relational, NEW d \in Days, Active(dag, d)
                 PROVE  loop.day + 1 =< d
      OBVIOUS
    <3>1. loop.day =< d /\ loop.day # d
      BY <1>1, RelationalDAGs DEF LoopInv, WalkInv, Walking
    <3> QED BY <3>1, RelationalDAGs, SMTT(40) DEF LoopInv, LoopTypes, LoopRows
  <2>3. WalkInv'
    BY <1>1, <2>1, <2>2 DEF LoopInv, WalkInv, Active
  <2> QED BY <1>1, <2>1, <2>3 DEF LoopInv, LoopTypes, DayIsReadInTime
<1>5. CASE Stops
  <2>1. loop' \in LoopRows /\ loop'.at = "unpausing" /\ loop'.day = loop.day
    BY <1>5 DEF Stops, LoopInv, LoopTypes, LoopRows, LoopStates, Holding
  <2> QED BY <1>1, <2>1, LoopMovesKeeps DEF Walking
<1>6. CASE sim = loop.day - 1 /\ loop' = Work("ticking")
  <2>1. loop' \in LoopRows /\ loop'.at = "ticking" /\ loop'.day = loop.day
    BY <1>2, <1>6 DEF LoopInv, LoopTypes, LoopRows, LoopStates, Walking
  <2>d. loop.day \in Days
    BY <1>1, RelationalDAGs DEF LoopInv, LoopTypes, LoopRows, Days
  <2>2. WalkInv'
    BY <1>1, <1>6, <2>1, <2>d DEF LoopInv, WalkInv, Walking, Active
  <2> QED BY <1>1, <2>1, <2>2 DEF LoopInv, LoopTypes, DayIsReadInTime
<1>7. CASE MayProceed(loop.day, relational) /\ loop' = Work("relational")
  <2>1. loop' \in LoopRows /\ loop'.at = "relational" /\ loop'.day = loop.day
          /\ loop'.todo = relational
    BY <1>2, <1>7 DEF LoopInv, LoopTypes, LoopRows, LoopStates, Walking
  <2>2. sim = loop.day \/ relational = {}
    BY <1>7 DEF MayProceed
  <2>d. loop.day \in Days
    BY <1>1, RelationalDAGs DEF LoopInv, LoopTypes, LoopRows, Days
  <2>3. WalkInv'
    BY <1>1, <2>1, <2>2, <2>d DEF LoopInv, WalkInv, Walking, Active
  <2> QED BY <1>1, <2>1, <2>3 DEF LoopInv, LoopTypes, DayIsReadInTime
<1> QED BY <1>3, <1>4, <1>5, <1>6, <1>7

LEMMA TickDayKeeps ==
  ASSUME LoopInv, TickDay
  PROVE  LoopInv'
<1>1. UNCHANGED <<run, readAt>> /\ loop.at = "ticking"
  BY DEF TickDay, platform
<1>2. CASE Stops /\ UNCHANGED sim
  <2>1. loop' \in LoopRows /\ loop'.at = "unpausing" /\ loop'.day = loop.day
    BY <1>2 DEF Stops, LoopInv, LoopTypes, LoopRows, LoopStates, Holding
  <2> QED BY <1>1, <1>2, <2>1, LoopMovesKeeps DEF Walking
<1>4. CASE Stops /\ sim' = loop.day
  <2>1. loop' \in LoopRows /\ loop'.at = "unpausing" /\ loop'.day = loop.day /\ sim' \in Nat
    BY <1>4 DEF Stops, LoopInv, LoopTypes, LoopRows, LoopStates, Holding
  <2>2. \A dag \in Relational, d \in Days : ~ Active(dag, d)
    <3> SUFFICES ASSUME NEW dag \in Relational, NEW d \in Days, Active(dag, d) PROVE FALSE
      OBVIOUS
    <3>1. d = sim /\ sim = loop.day - 1 /\ loop.day =< d
      BY <1>1 DEF LoopInv, WalkInv, Walking
    <3> QED BY <3>1, RelationalDAGs DEF LoopInv, LoopTypes, LoopRows
  <2>3. WalkInv'
    BY <1>1, <1>4, <2>1, <2>2 DEF LoopInv, WalkInv, Active, Walking
  <2> QED BY <1>1, <2>1, <2>3 DEF LoopInv, LoopTypes, DayIsReadInTime
<1>3. CASE Goes("ticking", "relational") /\ sim' = loop.day
  <2>1. loop' \in LoopRows /\ loop'.at = "relational" /\ loop'.day = loop.day /\ sim' \in Nat
    BY <1>3 DEF Goes, LoopInv, LoopTypes, LoopRows, LoopStates, Walking
  <2>2. \A dag \in Relational, d \in Days : ~ Active(dag, d)
    <3> SUFFICES ASSUME NEW dag \in Relational, NEW d \in Days, Active(dag, d) PROVE FALSE
      OBVIOUS
    <3>1. d = sim /\ sim = loop.day - 1 /\ loop.day =< d
      BY <1>1 DEF LoopInv, WalkInv, Walking
    <3> QED BY <3>1, RelationalDAGs DEF LoopInv, LoopTypes, LoopRows
  <2>3. WalkInv'
    BY <1>1, <1>3, <2>1, <2>2 DEF LoopInv, WalkInv, Active
  <2> QED BY <1>1, <2>1, <2>3 DEF LoopInv, LoopTypes, DayIsReadInTime
<1> QED BY <1>2, <1>3, <1>4 DEF TickDay

LEMMA RunRelationalKeeps ==
  ASSUME LoopInv, RunRelational
  PROVE  LoopInv'
<1>1. loop.at = "relational" /\ loop.todo # {} /\ UNCHANGED <<sim, readAt>>
        /\ run' = Started({NextToRun}, loop.day)
        /\ loop' = [loop EXCEPT !.todo = loop.todo \ {NextToRun}]
  BY DEF RunRelational
<1>2. loop.todo \subseteq Relational /\ sim = loop.day
  BY <1>1 DEF LoopInv, LoopTypes, LoopRows, WalkInv
<1>3. loop' \in LoopRows /\ loop'.at = "relational" /\ loop'.day = loop.day
  BY <1>1, <1>2 DEF LoopInv, LoopTypes, LoopRows
<1>4. NextToRun \in Relational /\ {NextToRun} \in SUBSET DAGs
  BY RelationalDAGs DEF NextToRun, Relational
<1>5. loop.day \in 0 .. Last
  BY <1>1, RelationalDAGs DEF LoopInv, WalkInv
<1>6. /\ run' \in [DAGs \X (0 .. Last) -> {"none", "running", "success", "failed"}]
      /\ \A dag \in Relational, d \in Days : Active(dag, d)' => Active(dag, d) \/ d = loop.day
  BY <1>1, <1>4, <1>5, StartedType, RelationalDAGs, ZenonT(40) DEF LoopInv
<1>7. WalkInv'
  BY <1>1, <1>2, <1>3, <1>6, RelationalDAGs DEF LoopInv, WalkInv, Walking
<1> QED BY <1>1, <1>3, <1>6, <1>7 DEF LoopInv, LoopTypes, DayIsReadInTime

LEMMA RunFeedsKeeps ==
  ASSUME LoopInv, RunFeeds
  PROVE  LoopInv'
<1>1. loop.at = "relational" /\ UNCHANGED <<sim, readAt>>
        /\ \A dag \in Relational : ~ Active(dag, loop.day)
  BY DEF RunFeeds
<1>2. CASE Stops /\ UNCHANGED run
  <2>1. loop' \in LoopRows /\ loop'.at = "unpausing" /\ loop'.day = loop.day
    BY <1>2 DEF Stops, LoopInv, LoopTypes, LoopRows, LoopStates, Holding
  <2> QED BY <1>1, <1>2, <2>1, LoopMovesKeeps DEF Walking
<1>3. CASE run' = Started(loop.feeds, loop.day) /\ loop' = [loop EXCEPT !.at = "feeds"]
  <2>1. loop' \in LoopRows /\ loop'.at = "feeds" /\ loop'.day = loop.day
    BY <1>3 DEF LoopInv, LoopTypes, LoopRows, LoopStates, Walking
  <2>2. loop.feeds \subseteq Feeds /\ loop.feeds \in SUBSET DAGs /\ loop.day \in 0 .. Last
    BY <1>1, RelationalDAGs DEF LoopInv, LoopTypes, LoopRows, WalkInv
  <2>3. /\ run' \in [DAGs \X (0 .. Last) -> {"none", "running", "success", "failed"}]
        /\ \A dag \in Relational, d \in Days : Active(dag, d)' => Active(dag, d)
    BY <1>3, <2>2, StartedType, RelationalDAGs DEF LoopInv
  <2>4. WalkInv'
    BY <1>1, <2>1, <2>3, RelationalDAGs DEF LoopInv, WalkInv, Walking
  <2> QED BY <1>1, <2>1, <2>3, <2>4 DEF LoopInv, LoopTypes, DayIsReadInTime
<1> QED BY <1>2, <1>3 DEF RunFeeds

LEMMA EndDayKeeps ==
  ASSUME LoopInv, EndDay
  PROVE  LoopInv'
<1>1. loop.at = "feeds" /\ UNCHANGED <<sim, run, readAt>>
  BY DEF EndDay, platform
<1>2. CASE Stops
  <2>1. loop' \in LoopRows /\ loop'.at = "unpausing" /\ loop'.day = loop.day
    BY <1>2 DEF Stops, LoopInv, LoopTypes, LoopRows, LoopStates, Holding
  <2> QED BY <1>1, <2>1, LoopMovesKeeps DEF Walking
<1>3. CASE loop' = [loop EXCEPT !.at = "day", !.day = loop.day + 1]
  <2>1. loop' \in LoopRows /\ loop'.at = "day" /\ loop'.day = loop.day + 1
    <3>1. loop.day + 1 \in Nat \ {0} /\ "day" \in LoopStates
      BY DEF LoopInv, LoopTypes, LoopRows, LoopStates, Walking
    <3>2. loop \in LoopRows
      BY DEF LoopInv, LoopTypes
    <3>3. [loop EXCEPT !.at = "day"] \in LoopRows
      BY <3>1, <3>2 DEF LoopRows
    <3> QED BY <1>3, <3>1, <3>2, <3>3 DEF LoopRows
  <2>2. \A dag \in Relational, d \in Days : Active(dag, d) => loop.day + 1 =< d
    <3> SUFFICES ASSUME NEW dag \in Relational, NEW d \in Days, Active(dag, d)
                 PROVE  loop.day + 1 =< d
      OBVIOUS
    <3>1. loop.day =< d /\ loop.day # d
      BY <1>1 DEF LoopInv, WalkInv, Walking
    <3> QED BY <3>1, RelationalDAGs DEF LoopInv, LoopTypes, LoopRows
  <2>3. WalkInv'
    BY <1>1, <2>1, <2>2 DEF LoopInv, WalkInv, Active
  <2> QED BY <1>1, <2>1, <2>3 DEF LoopInv, LoopTypes, DayIsReadInTime
<1> QED BY <1>2, <1>3 DEF EndDay
(* What the loop records is what the operator chose, be it read from the    *)
(* DAG or from the Variable of a loop that was killed.                      *)
LEMMA PriorIsWanted ==
  ASSUME HoldInv
  PROVE  Prior = wanted
<1>1. CASE record = {}
  BY <1>1 DEF Prior, HoldInv, PauseComesBack
<1>2. CASE record = {wanted}
  BY <1>2 DEF Prior
<1>3. record = {} \/ record = {wanted}
  BY DEF HoldInv, PauseComesBack
<1> QED BY <1>1, <1>2, <1>3

(* Every step of the loop. *)
LEMMA LoopStepKeeps ==
  ASSUME LoopInv, HoldInv, Loop
  PROVE  LoopInv'
<1>1. CASE \/ Invoke \/ LoadHistory \/ BeginDay \/ TickDay \/ RunRelational \/ RunFeeds \/ EndDay
  BY <1>1, InvokeKeeps, HistoryKeeps, BeginDayKeeps, TickDayKeeps, RunRelationalKeeps,
     RunFeedsKeeps, EndDayKeeps
<1> DEFINE Moves(s, t) == loop.at = s /\ loop' = [loop EXCEPT !.at = t]
<1>2. ASSUME UNCHANGED <<sim, run, readAt>>,
             NEW s \in LoopStates, NEW t \in LoopStates \ {"feeds", "ticking", "relational"},
             t \in Walking => s \in Walking, Moves(s, t)
      PROVE  LoopInv'
  <2>1. loop' \in LoopRows /\ loop'.at = t /\ loop'.day = loop.day
    BY <1>2 DEF LoopInv, LoopTypes, LoopRows
  <2> QED BY <1>2, <2>1, LoopMovesKeeps
<1>3. ASSUME UNCHANGED <<sim, run, readAt>>, Stops
      PROVE  LoopInv'
  <2>1. loop' \in LoopRows /\ loop'.at = "unpausing" /\ loop'.day = loop.day
    BY <1>3 DEF Stops, LoopInv, LoopTypes, LoopRows, LoopStates, Holding
  <2> QED BY <1>3, <2>1, LoopMovesKeeps DEF Walking
<1>s. /\ LoopStates = Walking \cup Holding \cup {"idle", "building", "settling", "reported"}
      /\ {"pausing", "history", "unpausing", "forgetting", "idle", "building", "settling",
          "reported", "day", "loading"} \subseteq LoopStates
  BY DEF LoopStates, Walking, Holding
<1>4. CASE RecordPause
  <2>1. UNCHANGED <<sim, run, readAt>> /\ loop.at = "recording"
    BY <1>4 DEF RecordPause, platform
  <2>2. PICK b \in BOOLEAN : loop' = [loop EXCEPT !.at = "pausing", !.prior = b]
    BY <1>4, PriorIsWanted DEF RecordPause, HoldInv
  <2>3. loop' \in LoopRows /\ loop'.at = "pausing" /\ loop'.day = loop.day
    BY <2>2, <1>s DEF LoopInv, LoopTypes, LoopRows
  <2> QED BY <2>1, <2>3, LoopMovesKeeps DEF Walking
<1>5. CASE Pause
  <2>1. UNCHANGED <<sim, run, readAt>> /\ Moves("pausing", "history")
    BY <1>5 DEF Pause, platform, Goes
  <2> QED BY <1>2, <1>s, <2>1 DEF Walking
<1>6. CASE HistoryLoaded
  <2>1. UNCHANGED <<sim, run, readAt>> /\ (Moves("loading", "day") \/ Stops)
    BY <1>6 DEF HistoryLoaded, platform
  <2> QED BY <1>2, <1>3, <1>s, <2>1 DEF Walking
<1>7. CASE EndDays
  <2>1. UNCHANGED <<sim, run, readAt>> /\ Moves("day", "unpausing")
    BY <1>7 DEF EndDays, platform
  <2> QED BY <1>2, <1>s, <2>1 DEF Walking
<1>8. CASE Unpause
  <2>1. UNCHANGED <<sim, run, readAt>> /\ Moves("unpausing", "forgetting")
    BY <1>8 DEF Unpause, platform, Goes
  <2> QED BY <1>2, <1>s, <2>1 DEF Walking
<1>9. CASE ForgetRecord
  <2>1. UNCHANGED <<sim, run, readAt>>
          /\ (Moves("forgetting", "building") \/ Moves("forgetting", "idle"))
    BY <1>9 DEF ForgetRecord, platform, Goes
  <2> QED BY <1>2, <1>s, <2>1 DEF Walking
<1>10. CASE BuildOnce
  <2>1. UNCHANGED <<sim, run, readAt>> /\ Moves("building", "settling")
    BY <1>10 DEF BuildOnce, platform, Goes
  <2> QED BY <1>2, <1>s, <2>1 DEF Walking
<1>11. CASE ReportWindow \/ ReportFailure \/ Return
  <2>1. UNCHANGED <<sim, run, readAt>>
          /\ \/ Moves("settling", "reported") \/ Moves("settling", "idle")
             \/ Moves("reported", "idle")
    BY <1>11 DEF ReportWindow, ReportFailure, Return, platform, Goes
  <2> QED BY <1>2, <1>s, <2>1 DEF Walking
<1>12. CASE WaitTimesOut
  BY <1>12, <1>3 DEF WaitTimesOut, platform
<1>13. CASE Kill
  <2>1. UNCHANGED <<sim, run, readAt>> /\ Moves(loop.at, "idle") /\ loop.at \in LoopStates
    BY <1>13 DEF Kill, platform, LoopInv, LoopTypes, LoopRows
  <2> QED BY <1>2, <1>s, <2>1 DEF Walking
<1> QED BY <1>1, <1>4, <1>5, <1>6, <1>7, <1>8, <1>9, <1>10, <1>11, <1>12, <1>13 DEF Loop

LEMMA RunsKeep ==
  ASSUME LoopInv, Runs
  PROVE  LoopInv'
<1>1. CASE \E dag \in Relational, d \in Days : EndRelational(dag, d)
  BY <1>1, RelationalEndKeeps
<1>2. CASE \E d \in Days : EndSettlement(d)
  <2>1. PICK d \in Days : EndSettlement(d)
    BY <1>2
  <2>2. /\ UNCHANGED <<sim, readAt, loop>>
        /\ \E held \in {"registered", "parked", "failed", "nothing"} : Finished("settlement", d, held)
    BY <2>1 DEF EndSettlement
  <2> QED BY <2>2, FeedEndKeeps
<1>3. CASE \/ \E d \in 0 .. Last : FxOpen(d)
           \/ FxAnswer \/ FxRetry \/ FxGiveUp
  BY <1>3, QuietKeeps DEF FxOpen, FxAnswer, FxRetry, FxGiveUp
<1>4. CASE FxEnd \/ FxDies
  <2>1. UNCHANGED <<sim, readAt, loop>> /\ \E held : Finished("fx", fetching.day, held)
    BY <1>4 DEF FxEnd, FxDies
  <2> QED BY <2>1, FeedEndKeeps
<1> QED BY <1>1, <1>2, <1>3, <1>4 DEF Runs

LEMMA LoopStep == LoopInv /\ HoldInv /\ [Next]_vars => LoopInv'
<1> SUFFICES ASSUME LoopInv, HoldInv, [Next]_vars PROVE LoopInv'
  OBVIOUS
<1>1. CASE Builds \/ ChoosePause \/ UNCHANGED vars
  BY <1>1, QuietKeeps
     DEF Builds, StartBronze, EndBronze, StartSilver, EndSilver, ChoosePause, platform, vars
<1>2. CASE TickByHand
  <2>1. UNCHANGED <<run, readAt, loop>> /\ sim' \in Nat /\ loop.at = "idle"
    BY <1>2 DEF TickByHand, platform, LoopInv, LoopTypes
  <2>2. \A dag \in Relational, d \in Days : ~ Active(dag, d)
    BY <1>2, RelationalDAGs DEF TickByHand, Idle
  <2>3. WalkInv'
    BY <2>1, <2>2 DEF LoopInv, WalkInv, Walking, Active
  <2> QED BY <2>1, <2>3 DEF LoopInv, LoopTypes, DayIsReadInTime
<1> QED BY <1>1, <1>2, RunsKeep, LoopStepKeeps DEF Next
-----------------------------------------------------------------------------
(***************************************************************************)
(* The pause comes back.                                                   *)
(***************************************************************************)
LEMMA HoldStep == LoopTypes /\ HoldInv /\ [Next]_vars => HoldInv'
<1> SUFFICES ASSUME LoopTypes, HoldInv, [Next]_vars PROVE HoldInv'
  OBVIOUS
<1> USE DEF holds
<1>1. CASE RecordPause
  <2>1. Prior = wanted
    BY PriorIsWanted
  <2>2. record' = {wanted} /\ UNCHANGED <<paused, wanted>>
    BY <1>1, <2>1 DEF RecordPause
  <2>3. PICK b \in BOOLEAN : b = wanted /\ loop' = [loop EXCEPT !.at = "pausing", !.prior = b]
    BY <1>1, <2>1 DEF RecordPause, HoldInv
  <2>4. loop'.at = "pausing" /\ loop'.prior = b
    BY <2>3 DEF LoopTypes, LoopRows
  <2> QED BY <2>2, <2>3, <2>4 DEF HoldInv, PauseComesBack
<1>2. CASE Pause
  BY <1>2 DEF Pause, Goes, HoldInv, PauseComesBack, Holding, LoopTypes, LoopRows
<1>3. CASE Unpause
  BY <1>3 DEF Unpause, Goes, HoldInv, PauseComesBack, Holding, LoopTypes, LoopRows
<1>4. CASE ForgetRecord
  <2>1. loop'.at \in {"building", "idle"} /\ record' = {} /\ UNCHANGED <<paused, wanted>>
    BY <1>4 DEF ForgetRecord, Goes, LoopTypes, LoopRows
  <2>2. paused = wanted
    BY <1>4 DEF ForgetRecord, Goes, HoldInv
  <2> QED BY <2>1, <2>2 DEF HoldInv, PauseComesBack, Holding
<1>5. CASE ChoosePause
  <2>1. wanted' \in BOOLEAN /\ paused' = wanted' /\ record' = {} /\ loop'.at = "idle"
    BY <1>5 DEF ChoosePause
  <2> QED BY <2>1 DEF HoldInv, PauseComesBack, Holding
<1>6. ASSUME UNCHANGED holds, loop'.at # "forgetting",
             loop'.at \in Holding => loop.at \in Holding /\ loop'.prior = loop.prior
      PROVE  HoldInv'
  BY <1>6 DEF HoldInv, PauseComesBack
<1>7. CASE UNCHANGED <<holds, loop>>
  BY <1>7 DEF HoldInv, PauseComesBack
<1> DEFINE Stepped(s) == loop'.at = s /\ loop'.prior = loop.prior
<1>8. Stops => Stepped("unpausing")
  BY DEF Stops, LoopTypes, LoopRows
<1>9. CASE Invoke
  <2>1. UNCHANGED holds /\ loop'.at = "recording"
    BY <1>9 DEF Invoke
  <2> QED BY <1>6, <2>1 DEF Holding
<1>10. CASE LoadHistory \/ HistoryLoaded
  <2>1. UNCHANGED holds /\ loop.at \in {"history", "loading"}
    BY <1>10 DEF LoadHistory, HistoryLoaded
  <2>2. Stops \/ \E s \in {"day", "loading"} : loop' = [loop EXCEPT !.at = s]
    BY <1>10 DEF LoadHistory, HistoryLoaded
  <2>3. Stepped("unpausing") \/ Stepped("day") \/ Stepped("loading")
    BY <1>8, <2>2 DEF LoopTypes, LoopRows
  <2> QED BY <1>6, <2>1, <2>3 DEF Holding
<1>11. CASE BeginDay
  <2>1. UNCHANGED holds /\ loop.at = "day"
    BY <1>11 DEF BeginDay
  <2>2. \/ Stops
        \/ loop' = [loop EXCEPT !.day = loop.day + 1]
        \/ \E t, f : \E s \in {"ticking", "relational"} :
             loop' = [loop EXCEPT !.at = s, !.todo = t, !.feeds = f]
    BY <1>11 DEF BeginDay
  <2>3. Stepped("unpausing") \/ Stepped("day") \/ Stepped("ticking") \/ Stepped("relational")
    BY <1>8, <2>1, <2>2 DEF LoopTypes, LoopRows
  <2> QED BY <1>6, <2>1, <2>3 DEF Holding
<1>12. CASE TickDay \/ RunRelational \/ RunFeeds
  <2>1. UNCHANGED holds /\ loop.at \in {"ticking", "relational"}
    BY <1>12 DEF TickDay, RunRelational, RunFeeds
  <2>2. \/ Stops
        \/ \E s \in {"relational", "feeds"} : loop' = [loop EXCEPT !.at = s]
        \/ loop.at = "relational" /\ \E t : loop' = [loop EXCEPT !.todo = t]
    BY <1>12 DEF TickDay, RunRelational, RunFeeds, Goes
  <2>3. Stepped("unpausing") \/ Stepped("relational") \/ Stepped("feeds")
    BY <1>8, <2>2 DEF LoopTypes, LoopRows
  <2> QED BY <1>6, <2>1, <2>3 DEF Holding
<1>13. CASE EndDay
  <2>1. UNCHANGED holds /\ loop.at = "feeds"
    BY <1>13 DEF EndDay
  <2>2. Stops \/ loop' = [loop EXCEPT !.at = "day", !.day = loop.day + 1]
    BY <1>13 DEF EndDay
  <2>3. Stepped("unpausing") \/ Stepped("day")
    BY <1>8, <2>2 DEF LoopTypes, LoopRows
  <2> QED BY <1>6, <2>1, <2>3 DEF Holding
<1>14. CASE EndDays \/ WaitTimesOut
  <2>1. UNCHANGED holds /\ loop.at \in {"loading", "relational", "feeds", "day"}
    BY <1>14 DEF EndDays, WaitTimesOut
  <2>2. Stops \/ loop' = [loop EXCEPT !.at = "unpausing"]
    BY <1>14 DEF EndDays, WaitTimesOut
  <2>3. Stepped("unpausing")
    BY <1>8, <2>2 DEF LoopTypes, LoopRows
  <2> QED BY <1>6, <2>1, <2>3 DEF Holding
<1>15. CASE BuildOnce \/ ReportWindow \/ ReportFailure \/ Return \/ Kill
  <2>1. UNCHANGED holds
    BY <1>15 DEF BuildOnce, ReportWindow, ReportFailure, Return, Kill
  <2>2. \E s \in {"settling", "reported", "idle"} : loop' = [loop EXCEPT !.at = s]
    BY <1>15 DEF BuildOnce, ReportWindow, ReportFailure, Return, Kill, Goes
  <2>3. loop'.at \in {"settling", "reported", "idle"}
    BY <2>2 DEF LoopTypes, LoopRows
  <2> QED BY <1>6, <2>1, <2>3 DEF Holding
<1>16. CASE Runs \/ Builds \/ TickByHand
  <2>1. UNCHANGED <<holds, loop>>
    BY <1>16
       DEF Runs, EndRelational, EndSettlement, FxOpen, FxAnswer, FxRetry, FxGiveUp, FxEnd, FxDies,
           Builds, StartBronze, EndBronze, StartSilver, EndSilver, TickByHand
  <2> QED BY <1>7, <2>1
<1>17. CASE UNCHANGED vars
  BY <1>7, <1>17 DEF vars
<1> QED
  BY <1>1, <1>2, <1>3, <1>4, <1>5, <1>9, <1>10, <1>11, <1>12, <1>13, <1>14, <1>15, <1>16, <1>17
  DEF Next, Loop
-----------------------------------------------------------------------------
(***************************************************************************)
(* Theorems.                                                               *)
(***************************************************************************)
DriverInv == LoopInv /\ HoldInv

(* The inductive invariant of the driver: what its state says of the runs   *)
(* that go on and of the date of the source, and of the hold it has.        *)
THEOREM DriverInvariant == Spec => []DriverInv
<1>1. Init => DriverInv
  <2> SUFFICES ASSUME Init PROVE DriverInv
    OBVIOUS
  <2>1. HoldInv
    BY DEF Init, HoldInv, PauseComesBack, Holding
  <2> QED BY <2>1, LoopInit DEF DriverInv
<1>2. DriverInv /\ [Next]_vars => DriverInv'
  BY LoopStep, HoldStep DEF DriverInv, LoopInv
<1> QED BY <1>1, <1>2, PTL DEF Spec

(* Whatever the window, and however a loop was killed, timed out or resumed *)
(* with runs still going: a relational run reads its day while the source   *)
(* is at that day (backfill.tick_needed).                                   *)
THEOREM DayIsReadInTimeCorrect == Spec => []DayIsReadInTime
<1>1. DriverInv => DayIsReadInTime
  BY DEF DriverInv, LoopInv
<1> QED BY <1>1, DriverInvariant, PTL

(* However often a loop is killed while it holds the transforms: the record *)
(* it leaves is what the operator chose, and without a record the DAG is as *)
(* the operator left it (backfill.hold_transforms).                         *)
THEOREM PauseComesBackCorrect == Spec => []PauseComesBack
<1>1. DriverInv => PauseComesBack
  BY DEF DriverInv, HoldInv
<1> QED BY <1>1, DriverInvariant, PTL
-----------------------------------------------------------------------------
(***************************************************************************)
(* The window: no run of a day the loop is through with goes on.           *)
(***************************************************************************)
Cells == DAGs \X (0 .. Last)
BatchStates == {"none", "registered", "parked", "failed", "nothing"}

FetchRows == [day : Int, left : SUBSET Nat, got : SUBSET Int, failed : BOOLEAN, attempt : Nat]

(* The FX run that fetches is one that goes on; the watermark is a day.     *)
FetchTypes ==
  /\ batches \in [Cells -> BatchStates]
  /\ watermark \in {NoRates} \cup Days
  /\ fetching \in FetchRows
  /\ fetching.day >= 0 => fetching.day \in 0 .. Last /\ Active("fx", fetching.day)
  /\ fetching.day < 0 => fetching = NotFetching

(* The days of the window are over: the loop goes on to the build. *)
Through(l) ==
  \/ l.at \in {"unpausing", "forgetting"} /\ l.code = 0
  \/ l.at \in {"building", "settling", "reported"}

QuietInv ==
  /\ loop.at \in Walking =>
       \A dag \in DAGs, d \in Days : loop.from =< d /\ d < loop.day => ~ Active(dag, d)
  /\ loop.at \in {"ticking", "relational"} =>
       \A dag \in Feeds, d \in Days : d = loop.day => ~ Active(dag, d)
  /\ loop.at = "feeds" =>
       \A dag \in Feeds \ loop.feeds, d \in Days : d = loop.day => ~ Active(dag, d)
  /\ Through(loop) =>
       \A dag \in DAGs, d \in Days : loop.from =< d /\ d =< loop.to => ~ Active(dag, d)

(* The builds: what bronze and silver hold, or are about to.                *)
TransformRows == [queued : BOOLEAN, running : BOOLEAN, last : {"success", "failed"},
                  next : SUBSET Cells, holds : SUBSET Cells]
BuildTypes == bronze \in TransformRows /\ silver \in TransformRows

(* A silver that is not to be built again holds what bronze holds, unless   *)
(* its last build failed. *)
SilverFollows ==
  /\ ~ (bronze.running /\ silver.running)
  /\ \/ silver.queued
     \/ silver.running /\ silver.next = bronze.holds
     \/ ~ silver.running /\ (silver.last = "failed" \/ silver.holds = bronze.holds)

Window == {x \in Registered : x[2] \in loop.from .. loop.to}

(* The build that the loop asked for is of all its window registered, and   *)
(* so is every later one.                                                   *)
BuildInv ==
  /\ loop.at = "settling" =>
       /\ bronze.running => bronze.queued \/ Window \subseteq bronze.next
       /\ ~ bronze.running /\ ~ bronze.queued =>
            bronze.last = "failed" \/ Window \subseteq bronze.holds
  /\ loop.at = "reported" =>
       /\ Window \subseteq bronze.holds /\ Window \subseteq silver.holds
       /\ bronze.running => Window \subseteq bronze.next
       /\ silver.running => Window \subseteq silver.next

WindowInv == FetchTypes /\ QuietInv /\ BuildTypes /\ SilverFollows /\ BuildInv
-----------------------------------------------------------------------------
(***************************************************************************)
(* What the steps do to the runs and the registry.                         *)
(***************************************************************************)
NoneStarts == \A g \in DAGs, e \in 0 .. Last : Active(g, e)' => Active(g, e)
OnlyEnded == \A g \in DAGs, e \in 0 .. Last : ~ Active(g, e) => batches'[g, e] = batches[g, e]

(* A run that ends: it was going on, and only its row changes. *)
LEMMA FinishedChanges ==
  ASSUME LoopTypes, FetchTypes, NEW dag \in DAGs, NEW d \in 0 .. Last, Active(dag, d),
         NEW held \in BatchStates, Finished(dag, d, held)
  PROVE  /\ run' \in [Cells -> {"none", "running", "success", "failed"}]
         /\ batches' \in [Cells -> BatchStates]
         /\ NoneStarts /\ OnlyEnded
         /\ ~ Active(dag, d)' /\ batches'[dag, d] = held
         /\ \A g \in DAGs, e \in 0 .. Last : <<g, e>> # <<dag, d>> =>
              batches'[g, e] = batches[g, e] /\ run'[g, e] = run[g, e]
<1>1. PICK s \in {"success", "failed"} : run' = [run EXCEPT ![<<dag, d>>] = s]
  BY DEF Finished
<1>2. batches' = [batches EXCEPT ![<<dag, d>>] = held]
  BY DEF Finished
<1>3. <<dag, d>> \in Cells
  BY DEF Cells
<1>4. \A g \in DAGs, e \in 0 .. Last : <<g, e>> \in Cells
  BY DEF Cells
<1>5. run \in [Cells -> {"none", "running", "success", "failed"}] /\ batches \in [Cells -> BatchStates]
  BY DEF LoopTypes, FetchTypes, Cells
<1>6. \A g \in DAGs, e \in 0 .. Last : <<g, e>> # <<dag, d>> =>
        batches'[g, e] = batches[g, e] /\ run'[g, e] = run[g, e]
  BY <1>1, <1>2, <1>4, <1>5
<1>7. run'[dag, d] = s /\ batches'[dag, d] = held
  BY <1>1, <1>2, <1>3, <1>5
<1>8. /\ run' \in [Cells -> {"none", "running", "success", "failed"}]
      /\ batches' \in [Cells -> BatchStates]
  BY <1>1, <1>2, <1>3, <1>5
<1> QED BY <1>6, <1>7, <1>8 DEF NoneStarts, OnlyEnded, Active

(* A relational run and one of the clearing files leave the FX runs alone. *)
LEMMA OtherRunsChange ==
  ASSUME LoopTypes, FetchTypes,
         \/ \E dag \in Relational, d \in Days : EndRelational(dag, d)
         \/ \E d \in Days : EndSettlement(d)
  PROVE  /\ UNCHANGED <<loop, rates, watermark, fetching>>
         /\ batches' \in [Cells -> BatchStates]
         /\ \A e \in 0 .. Last : run'["fx", e] = run["fx", e] /\ batches'["fx", e] = batches["fx", e]
<1>1. UNCHANGED <<loop, rates, watermark, fetching>>
  BY DEF EndRelational, EndSettlement
<1>2. PICK dag \in DAGs \ {"fx"}, d \in 0 .. Last, held \in BatchStates :
        Active(dag, d) /\ Finished(dag, d, held)
  <2>1. Days \subseteq 0 .. Last /\ Relational \subseteq DAGs \ {"fx"} /\ Ends \subseteq BatchStates
          /\ "settlement" \in DAGs \ {"fx"}
    BY RelationalDAGs, LoopAssumption DEF DAGs, Feeds, Relational, RelationalEnds, BatchStates
  <2>2. ASSUME NEW dag \in Relational, NEW d \in Days, EndRelational(dag, d)
        PROVE  \E held \in BatchStates : Active(dag, d) /\ Finished(dag, d, held)
    BY <2>1, <2>2 DEF EndRelational
  <2>3. ASSUME NEW d \in Days, EndSettlement(d)
        PROVE  \E held \in BatchStates : Active("settlement", d) /\ Finished("settlement", d, held)
    BY <2>3 DEF EndSettlement, BatchStates
  <2> QED BY <2>1, <2>2, <2>3
<1>3. /\ batches' \in [Cells -> BatchStates]
      /\ \A g \in DAGs, e \in 0 .. Last : <<g, e>> # <<dag, d>> =>
           batches'[g, e] = batches[g, e] /\ run'[g, e] = run[g, e]
  BY <1>2, FinishedChanges
<1>4. "fx" \in DAGs /\ \A e \in 0 .. Last : <<"fx", e>> # <<dag, d>>
  BY <1>2 DEF DAGs, Feeds
<1> QED BY <1>1, <1>3, <1>4

(* What a step of the runs leaves alone. *)
LEMMA RunsChange ==
  ASSUME LoopTypes, FetchTypes, Runs
  PROVE  /\ UNCHANGED <<sim, loop, silver>>
         /\ NoneStarts /\ OnlyEnded
         /\ batches' \in [Cells -> BatchStates]
         /\ UNCHANGED bronze \/ Registration
<1>a. {"settlement", "fx"} \subseteq DAGs /\ Relational \subseteq DAGs /\ Days \subseteq 0 .. Last
  BY RelationalDAGs DEF DAGs, Feeds
<1>1. CASE \E dag \in Relational, d \in Days : EndRelational(dag, d)
  <2>1. PICK dag \in Relational, d \in Days : EndRelational(dag, d)
    BY <1>1
  <2>2. PICK held \in Ends : Finished(dag, d, held)
    BY <2>1 DEF EndRelational
  <2>3. held \in BatchStates /\ Active(dag, d)
    BY <2>1, LoopAssumption DEF RelationalEnds, BatchStates, EndRelational
  <2>4. UNCHANGED <<sim, loop, silver>> /\ (UNCHANGED bronze \/ Registration)
    BY <2>1 DEF EndRelational
  <2> QED BY <1>a, <2>2, <2>3, <2>4, FinishedChanges
<1>2. CASE \E d \in Days : EndSettlement(d)
  <2>1. PICK d \in Days : EndSettlement(d)
    BY <1>2
  <2>2. PICK held \in {"registered", "parked", "failed", "nothing"} : Finished("settlement", d, held)
    BY <2>1 DEF EndSettlement
  <2>3. held \in BatchStates /\ Active("settlement", d)
    BY <2>1 DEF BatchStates, EndSettlement
  <2>4. UNCHANGED <<sim, loop, silver>> /\ (UNCHANGED bronze \/ Registration)
    BY <2>1 DEF EndSettlement
  <2> QED BY <1>a, <2>2, <2>3, <2>4, FinishedChanges
<1>3. CASE \/ \E d \in 0 .. Last : FxOpen(d)
           \/ FxAnswer \/ FxRetry \/ FxGiveUp
  <2>1. UNCHANGED <<sim, run, batches, loop, bronze, silver>>
    BY <1>3 DEF FxOpen, FxAnswer, FxRetry, FxGiveUp, transforms
  <2> QED BY <2>1 DEF NoneStarts, OnlyEnded, Active, FetchTypes
<1>4. CASE FxEnd \/ FxDies
  <2>1. PICK held \in BatchStates : Finished("fx", fetching.day, held)
    BY <1>4 DEF FxEnd, FxDies, BatchStates
  <2>2. fetching.day \in 0 .. Last /\ Active("fx", fetching.day)
    BY <1>4 DEF FxEnd, FxDies, FetchTypes
  <2>3. UNCHANGED <<sim, loop, silver>> /\ (UNCHANGED bronze \/ Registration)
    BY <1>4 DEF FxEnd, FxDies, transforms
  <2> QED BY <1>a, <2>1, <2>2, <2>3, FinishedChanges
<1> QED BY <1>1, <1>2, <1>3, <1>4 DEF Runs

(* Steps that neither start nor end a run. *)
LEMMA OthersChange ==
  ASSUME LoopTypes, FetchTypes,
         \/ Builds \/ ChoosePause \/ TickByHand \/ UNCHANGED vars
         \/ Invoke \/ RecordPause \/ Pause \/ HistoryLoaded \/ BeginDay \/ TickDay \/ EndDay
         \/ EndDays \/ Unpause \/ ForgetRecord \/ BuildOnce \/ ReportWindow \/ ReportFailure
         \/ Return \/ WaitTimesOut \/ Kill
  PROVE  UNCHANGED platform
  BY DEF Builds, StartBronze, EndBronze, StartSilver, EndSilver, ChoosePause, TickByHand, vars,
         Invoke, RecordPause, Pause, HistoryLoaded, BeginDay, TickDay, EndDay, EndDays, Unpause,
         ForgetRecord, BuildOnce, ReportWindow, ReportFailure, Return, WaitTimesOut, Kill

(* The loop's steps that start a run, or fetch the history over. *)
LEMMA StartsChange ==
  ASSUME LoopTypes, LoopInv, FetchTypes, LoadHistory \/ RunRelational \/ RunFeeds
  PROVE  /\ UNCHANGED <<batches, rates, watermark, transforms>>
         /\ \A g \in DAGs, e \in 0 .. Last : Active(g, e) => Active(g, e)'
         /\ \/ fetching' = fetching
            \/ fetching' = NotFetching /\ fetching.day = HistoryEnd
<1>1. UNCHANGED <<batches, rates, watermark, transforms>>
  BY DEF LoadHistory, RunRelational, RunFeeds
<1>2. \/ fetching' = fetching
      \/ fetching' = NotFetching /\ fetching.day = HistoryEnd
  BY DEF LoadHistory, RunRelational, RunFeeds
<1>3. UNCHANGED run \/ \E S, d : run' = Started(S, d)
  BY DEF LoadHistory, RunRelational, RunFeeds
<1>4. \A g \in DAGs, e \in 0 .. Last : Active(g, e) => Active(g, e)'
  BY <1>3 DEF Started, Active, LoopTypes
<1> QED BY <1>1, <1>2, <1>4

(* A set of dates has a first one. *)
LEMMA LeastDate ==
  ASSUME NEW S \in SUBSET Nat, S # {}
  PROVE  Min(S) \in S /\ \A x \in S : Min(S) =< x
<1>1. PICK n \in S : \A m \in S : ~ (<<m, n>> \in OpToRel(<, Nat))
  BY NatLessThanWellFounded, WFMin, Zenon
<1>2. \A m \in S : ~ (m < n)
  BY <1>1 DEF OpToRel
<1>3. \A m \in S : n =< m
  BY <1>2
<1> QED BY <1>3 DEF Min

(* What the bank answers is published days; for a date, that date if it is  *)
(* published, and for the history, all of it.                               *)
LEMMA AnswerType ==
  ASSUME NEW d \in Int
  PROVE  /\ Answer(d) \in SUBSET Int
         /\ \A x \in Answer(d) : x =< d
         /\ Published \cap {d} \subseteq Answer(d)
<1>1. Published \subseteq Int /\ First \in Int /\ First =< 0
  BY LoopAssumption DEF HistoryEnd
<1>2. CASE d = HistoryEnd
  BY <1>1, <1>2 DEF Answer, HistoryAnswer, FirstReturned, HistoryEnd
<1>3. CASE d # HistoryEnd
  BY <1>1, <1>3 DEF Answer, DateAnswer
<1> QED BY <1>2, <1>3

(* The FX run that fetches is one that goes on, and its own. *)
LEMMA FetchStep ==
  ASSUME DriverInv, FetchTypes, [Next]_vars
  PROVE  FetchTypes'
<1> USE DEF HistoryEnd
<1>0. LoopTypes /\ LoopInv
  BY DEF DriverInv, LoopInv
<1>f. "fx" \in DAGs /\ Last \in Nat /\ Days \subseteq 0 .. Last /\ Days \subseteq Nat
  BY RelationalDAGs DEF DAGs, Feeds
<1>n. NotFetching \in FetchRows /\ NotFetching.day < 0
  BY DEF NotFetching, FetchRows
<1>1. CASE UNCHANGED platform
  BY <1>1 DEF platform, FetchTypes, Active
<1>2. CASE LoadHistory \/ RunRelational \/ RunFeeds
  <2>1. CASE fetching' = fetching
    BY <2>1, <1>0, <1>2, <1>f, StartsChange DEF FetchTypes, FetchRows
  <2>2. CASE fetching' = NotFetching
    BY <2>2, <1>0, <1>2, <1>n, StartsChange DEF FetchTypes, FetchRows
  <2> QED BY <2>1, <2>2, <1>0, <1>2, StartsChange
<1>3. CASE \/ \E dag \in Relational, d \in Days : EndRelational(dag, d)
           \/ \E d \in Days : EndSettlement(d)
  BY <1>0, <1>3, OtherRunsChange DEF FetchTypes, FetchRows, Active
<1>5. CASE \E d \in 0 .. Last : FxOpen(d)
  <2>1. PICK d \in 0 .. Last : FxOpen(d)
    BY <1>5
  <2>2. PICK S : S = (IF d = HistoryEnd THEN {d} ELSE DatesToFetch(d))
                 /\ fetching' = [NotFetching EXCEPT !.day = d, !.left = S]
    BY <2>1 DEF FxOpen
  <2>5. fetching' = [day |-> d, left |-> S, got |-> {}, failed |-> FALSE, attempt |-> 1]
    BY <2>2 DEF NotFetching
  <2>3. S \in SUBSET Nat
    BY <2>2, <1>f DEF DatesToFetch, FetchTypes
  <2>4. UNCHANGED <<run, batches, watermark>> /\ Active("fx", d)
    BY <2>1 DEF FxOpen
  <2>6. fetching' \in FetchRows /\ fetching'.day = d
    BY <2>3, <2>5, <1>f DEF FetchRows
  <2>7. run'["fx", fetching'.day] = "running"
    BY <2>4, <2>6 DEF Active
  <2>8. fetching'.day \in 0 .. Last /\ ~ (fetching'.day < 0)
    BY <2>4, <2>6, <1>f
  <2> QED BY <2>4, <2>6, <2>7, <2>8 DEF FetchTypes, Active
<1>6. CASE FxAnswer \/ FxRetry \/ FxGiveUp
  <2>1. UNCHANGED <<run, batches, watermark>> /\ fetching.left # {}
    BY <1>6 DEF FxAnswer, FxRetry, FxGiveUp
  <2>2. fetching.day \in 0 .. Last /\ Active("fx", fetching.day)
    BY <2>1 DEF FetchTypes, FetchRows, NotFetching
  <2>m. Min(fetching.left) \in Int
    BY <2>1, LeastDate DEF FetchTypes, FetchRows
  <2>3. fetching' \in FetchRows /\ fetching'.day = fetching.day
    <3>1. CASE FxAnswer
      <4>1. PICK d \in Int, m \in SUBSET fetching.left :
              fetching' = [fetching EXCEPT !.left = m, !.got = fetching.got \cup Answer(d), !.attempt = 1]
        BY <3>1, <2>m DEF FxAnswer
      <4> QED BY <4>1, AnswerType DEF FetchTypes, FetchRows
    <3>2. CASE FxRetry
      BY <3>2 DEF FxRetry, FetchTypes, FetchRows
    <3>3. CASE FxGiveUp
      BY <3>3 DEF FxGiveUp, FetchTypes, FetchRows
    <3> QED BY <1>6, <3>1, <3>2, <3>3
  <2>4. run'["fx", fetching'.day] = "running"
    BY <2>1, <2>2, <2>3 DEF Active
  <2>8. fetching'.day \in 0 .. Last /\ ~ (fetching'.day < 0)
    BY <2>1, <2>2, <2>3, <1>f
  <2> QED BY <2>1, <2>3, <2>4, <2>8 DEF FetchTypes, Active
<1>7. CASE FxEnd \/ FxDies
  <2>1. PICK held \in BatchStates : Finished("fx", fetching.day, held)
    BY <1>7 DEF FxEnd, FxDies, BatchStates
  <2>2. fetching.day \in 0 .. Last /\ Active("fx", fetching.day)
    BY <1>7 DEF FxEnd, FxDies, FetchTypes
  <2>3. batches' \in [Cells -> BatchStates]
    BY <1>0, <1>f, <2>1, <2>2, FinishedChanges
  <2>4. watermark' \in {NoRates} \cup Days /\ fetching' = NotFetching
    BY <1>7, <2>2 DEF FxEnd, FxDies, FetchTypes, Days
  <2> QED BY <2>3, <2>4, <1>n DEF FetchTypes, FetchRows
<1> QED BY <1>0, <1>1, <1>2, <1>3, <1>5, <1>6, <1>7, OthersChange DEF Next, Loop, Runs

(* A loop that moves on while no other run is started. *)
LEMMA QuietMoves ==
  ASSUME QuietInv, NoneStarts,
         loop'.from = loop.from, loop'.to = loop.to, loop'.day = loop.day, loop'.feeds = loop.feeds,
         loop'.at \in Walking => loop.at \in Walking,
         loop'.at \in {"ticking", "relational"} => loop.at \in {"ticking", "relational"},
         loop'.at = "feeds" => loop.at = "feeds",
         Through(loop') => Through(loop)
  PROVE  QuietInv'
<1>1. \A dag \in DAGs, d \in Days : Active(dag, d)' => Active(dag, d)
  BY RelationalDAGs DEF NoneStarts
<1>2. Feeds \subseteq DAGs
  BY RelationalDAGs
<1> HIDE DEF NoneStarts
<1> QED BY <1>1, <1>2 DEF QuietInv

(* A halt asks nothing of the runs. *)
LEMMA QuietStops ==
  ASSUME LoopTypes, NoneStarts, Stops
  PROVE  QuietInv'
<1>1. loop'.at = "unpausing" /\ loop'.code = 1
  BY DEF Stops, LoopTypes, LoopRows
<1> QED BY <1>1 DEF QuietInv, Through, Walking

(* No step starts a run of a day that the loop is through with. *)
LEMMA QuietStep ==
  ASSUME DriverInv, FetchTypes, QuietInv, [Next]_vars
  PROVE  QuietInv'
<1>0. LoopTypes /\ LoopInv /\ WalkInv /\ loop \in LoopRows
  BY DEF DriverInv, LoopInv, LoopTypes
<1>d. /\ loop.from \in Int /\ loop.to \in Int /\ loop.day \in Int /\ Last \in Nat
      /\ Relational \subseteq DAGs /\ Feeds \subseteq DAGs /\ Relational \cap Feeds = {}
      /\ Days \subseteq 0 .. Last /\ Days \subseteq Nat \ {0} /\ DAGs = Relational \cup Feeds
  <2>1. loop.from \in Days /\ loop.to \in Days /\ loop.day \in Nat \ {0}
    BY <1>0 DEF LoopRows
  <2>2. loop.from \in Int /\ loop.to \in Int /\ loop.day \in Int
    BY <2>1 DEF Days
  <2>3. DAGs = Relational \cup Feeds
    BY DEF DAGs
  <2> QED BY <2>2, <2>3, RelationalDAGs
<1>1. CASE Runs
  BY <1>0, <1>1, RunsChange, QuietMoves
<1>2. UNCHANGED platform => NoneStarts
  BY DEF platform, NoneStarts, Active
<1>3. CASE Builds \/ ChoosePause \/ TickByHand \/ UNCHANGED vars
  <2>1. UNCHANGED <<platform, loop>>
    BY <1>0, <1>3, OthersChange
       DEF Builds, StartBronze, EndBronze, StartSilver, EndSilver, ChoosePause, TickByHand, vars
  <2> QED BY <2>1, <1>2, QuietMoves
<1>4. CASE Invoke
  <2>1. PICK from, to \in Days :
          /\ loop' = [at |-> "recording", from |-> from, day |-> from, to |-> to, prior |-> FALSE,
                      todo |-> {}, feeds |-> {}, code |-> 0]
    BY <1>4 DEF Invoke
  <2> QED BY <2>1, <1>d DEF QuietInv, Through
<1> DEFINE Moves(s, t) == loop.at = s /\ loop' = [loop EXCEPT !.at = t]
<1>5. ASSUME NEW s, NEW t, Moves(s, t), NoneStarts,
             t \in Walking => s \in Walking, t \notin {"ticking", "relational", "feeds"},
             Through([loop EXCEPT !.at = t]) => Through(loop)
      PROVE  QuietInv'
  <2>1. /\ loop'.from = loop.from /\ loop'.to = loop.to /\ loop'.day = loop.day
        /\ loop'.feeds = loop.feeds /\ loop'.at = t
    BY <1>5, <1>0 DEF LoopRows
  <2> QED BY <2>1, <1>5, QuietMoves
<1>6. CASE RecordPause
  <2>1. loop.at = "recording" /\ NoneStarts /\ loop' = [loop EXCEPT !.at = "pausing", !.prior = Prior]
    BY <1>0, <1>2, <1>6, OthersChange DEF RecordPause
  <2>2. /\ loop'.from = loop.from /\ loop'.to = loop.to /\ loop'.day = loop.day
        /\ loop'.feeds = loop.feeds /\ loop'.at = "pausing"
    BY <2>1, <1>0 DEF LoopRows
  <2> QED BY <2>1, <2>2, QuietMoves DEF Walking, Through
<1>7. CASE \/ Pause \/ HistoryLoaded \/ Unpause \/ ForgetRecord \/ BuildOnce \/ ReportWindow
           \/ ReportFailure \/ Return \/ WaitTimesOut \/ Kill
  <2>1. NoneStarts
    BY <1>0, <1>2, <1>7, OthersChange
  <2>2. \/ Stops
        \/ Moves("pausing", "history") \/ Moves("loading", "day")
        \/ Moves("unpausing", "forgetting")
        \/ loop.code = 0 /\ Moves("forgetting", "building")
        \/ Moves("building", "settling") \/ Moves("settling", "reported")
        \/ Moves(loop.at, "idle")
    BY <1>7 DEF Pause, HistoryLoaded, Unpause, ForgetRecord, BuildOnce, ReportWindow,
                ReportFailure, Return, WaitTimesOut, Kill, Goes
  <2> QED BY <1>0, <1>5, <2>1, <2>2, QuietStops DEF Walking, Through, LoopRows
<1>8. CASE EndDays
  <2>1. /\ loop.at = "day" /\ loop.day > loop.to /\ loop' = [loop EXCEPT !.at = "unpausing"]
        /\ NoneStarts
    BY <1>0, <1>2, <1>8, OthersChange DEF EndDays
  <2>2. loop'.at = "unpausing" /\ loop'.from = loop.from /\ loop'.to = loop.to
    BY <2>1, <1>0 DEF LoopRows
  <2>3. \A dag \in DAGs, d \in Days : loop.from =< d /\ d =< loop.to => ~ Active(dag, d)
    BY <2>1, <1>d DEF QuietInv, Walking
  <2> QED BY <2>1, <2>2, <2>3, <1>d DEF QuietInv, NoneStarts, Walking
<1>9. CASE TickDay
  <2>1. NoneStarts
    BY <1>0, <1>2, <1>9, OthersChange
  <2>2. Stops \/ Moves("ticking", "relational")
    BY <1>9 DEF TickDay, Goes
  <2>3. CASE Moves("ticking", "relational")
    <3>1. /\ loop'.from = loop.from /\ loop'.to = loop.to /\ loop'.day = loop.day
          /\ loop'.feeds = loop.feeds /\ loop'.at = "relational" /\ loop.at = "ticking"
      BY <2>3, <1>0 DEF LoopRows
    <3> QED BY <2>1, <3>1, QuietMoves DEF Walking, Through
  <2> QED BY <1>0, <2>1, <2>2, <2>3, QuietStops
<1>10. CASE LoadHistory
  <2>1. loop.at = "history" /\ (loop' = [loop EXCEPT !.at = "day"] \/ loop' = [loop EXCEPT !.at = "loading"])
    BY <1>10 DEF LoadHistory
  <2>2. /\ loop'.from = loop.from /\ loop'.day = loop.day /\ loop'.at \in {"day", "loading"}
    BY <2>1, <1>0 DEF LoopRows
  <2>3. UNCHANGED run \/ run' = Started({"fx"}, HistoryEnd)
    BY <1>10 DEF LoadHistory
  <2>4. {"fx"} \in SUBSET DAGs /\ HistoryEnd \in 0 .. Last /\ HistoryEnd \notin Days
    BY <1>d DEF DAGs, Feeds, HistoryEnd
  <2>5. \A dag \in DAGs, d \in Days : Active(dag, d)' => Active(dag, d)
    <3>1. CASE UNCHANGED run
      BY <3>1 DEF Active
    <3>2. CASE run' = Started({"fx"}, HistoryEnd)
      <4>1. \A g \in DAGs, e \in 0 .. Last : Active(g, e)' => Active(g, e) \/ (g \in {"fx"} /\ e = HistoryEnd)
        BY <3>2, <2>4, <1>0, StartedType
      <4>2. \A d \in Days : d \in 0 .. Last /\ d # HistoryEnd
        BY <2>4, <1>d
      <4> QED BY <4>1, <4>2
    <3> QED BY <2>3, <3>1, <3>2
  <2> QED BY <2>1, <2>2, <2>5 DEF QuietInv, Walking, Through
<1>11. CASE BeginDay
  <2>1. /\ loop.at = "day" /\ loop.day =< loop.to /\ NoneStarts
        /\ \A dag \in DAGs : ~ Active(dag, loop.day)
    BY <1>0, <1>2, <1>11, OthersChange DEF BeginDay
  <2>2. \/ Stops
        \/ loop' = [loop EXCEPT !.day = loop.day + 1]
        \/ \E t, f : \E s \in {"ticking", "relational"} :
             loop' = [loop EXCEPT !.at = s, !.todo = t, !.feeds = f]
    BY <1>11 DEF BeginDay
  <2>3. \A dag \in DAGs, d \in Days : loop.from =< d /\ d < loop.day + 1 => ~ Active(dag, d)'
    <3> TAKE dag \in DAGs, d \in Days
    <3>1. ~ Active(dag, d)' \/ Active(dag, d)
      BY <2>1, <1>d DEF NoneStarts
    <3>2. d < loop.day + 1 => d < loop.day \/ d = loop.day
      BY <1>d
    <3> QED BY <2>1, <3>1, <3>2 DEF QuietInv, Walking
  <2>4. CASE loop' = [loop EXCEPT !.day = loop.day + 1]
    <3>1. /\ loop'.from = loop.from /\ loop'.day = loop.day + 1 /\ loop'.at = "day"
      BY <2>1, <2>4, <1>0 DEF LoopRows
    <3> QED BY <2>3, <3>1 DEF QuietInv, Through
  <2>5. CASE \E t, f : \E s \in {"ticking", "relational"} :
               loop' = [loop EXCEPT !.at = s, !.todo = t, !.feeds = f]
    <3>1. /\ loop'.from = loop.from /\ loop'.day = loop.day /\ loop'.at \in {"ticking", "relational"}
      BY <2>5, <1>0 DEF LoopRows
    <3>2. \A dag \in DAGs, d \in Days : loop.from =< d /\ d < loop.day => ~ Active(dag, d)'
      BY <2>3, <1>d
    <3>3. \A dag \in Feeds, d \in Days : d = loop.day => ~ Active(dag, d)'
      BY <2>1, <1>d DEF NoneStarts
    <3> QED BY <3>1, <3>2, <3>3 DEF QuietInv, Through
  <2> QED BY <1>0, <2>1, <2>2, <2>4, <2>5, QuietStops
<1>12. CASE RunRelational
  <2>1. /\ loop.at = "relational" /\ run' = Started({NextToRun}, loop.day)
        /\ loop' = [loop EXCEPT !.todo = loop.todo \ {NextToRun}]
    BY <1>12 DEF RunRelational
  <2>2. /\ loop'.from = loop.from /\ loop'.day = loop.day /\ loop'.at = "relational"
    BY <2>1, <1>0 DEF LoopRows
  <2>3. {NextToRun} \in SUBSET DAGs /\ NextToRun \in Relational /\ loop.day \in 0 .. Last
    BY <2>1, <1>0, <1>d DEF NextToRun, Relational, WalkInv
  <2>4. \A g \in DAGs, e \in Days : Active(g, e)' => Active(g, e) \/ (g \in Relational /\ e = loop.day)
    BY <2>1, <2>3, <1>0, <1>d, StartedType
  <2>5. \A dag \in DAGs, d \in Days : loop.from =< d /\ d < loop.day => ~ Active(dag, d)'
    BY <2>1, <2>4, <1>d DEF QuietInv, Walking
  <2>6. \A dag \in Feeds, d \in Days : d = loop.day => ~ Active(dag, d)'
    BY <2>1, <2>4, <1>d DEF QuietInv
  <2> QED BY <2>2, <2>5, <2>6 DEF QuietInv, Through
<1>13. CASE RunFeeds
  <2>1. loop.at = "relational"
    BY <1>13 DEF RunFeeds
  <2>2. CASE Stops /\ UNCHANGED run
    BY <2>2, <1>0, QuietStops DEF NoneStarts, Active
  <2>3. CASE run' = Started(loop.feeds, loop.day) /\ loop' = [loop EXCEPT !.at = "feeds"]
    <3>1. /\ loop'.from = loop.from /\ loop'.day = loop.day /\ loop'.at = "feeds"
          /\ loop'.feeds = loop.feeds
      BY <2>3, <1>0 DEF LoopRows
    <3>2. loop.feeds \in SUBSET DAGs /\ loop.feeds \subseteq Feeds /\ loop.day \in 0 .. Last
      BY <2>1, <1>0, <1>d DEF LoopRows, WalkInv
    <3>3. \A g \in DAGs, e \in Days : Active(g, e)' => Active(g, e) \/ (g \in loop.feeds /\ e = loop.day)
      BY <2>3, <3>2, <1>0, <1>d, StartedType
    <3>4. \A dag \in DAGs, d \in Days : loop.from =< d /\ d < loop.day => ~ Active(dag, d)'
      BY <2>1, <3>3, <1>d DEF QuietInv, Walking
    <3>5. \A dag \in Feeds \ loop.feeds, d \in Days : d = loop.day => ~ Active(dag, d)'
      BY <2>1, <3>3, <1>d DEF QuietInv
    <3> QED BY <3>1, <3>4, <3>5 DEF QuietInv, Through
  <2> QED BY <1>13, <2>2, <2>3 DEF RunFeeds
<1>14. CASE EndDay
  <2>1. loop.at = "feeds" /\ NoneStarts /\ \A dag \in loop.feeds : ~ Active(dag, loop.day)
    BY <1>0, <1>2, <1>14, OthersChange DEF EndDay
  <2>2. Stops \/ loop' = [loop EXCEPT !.at = "day", !.day = loop.day + 1]
    BY <1>14 DEF EndDay
  <2>3. CASE loop' = [loop EXCEPT !.at = "day", !.day = loop.day + 1]
    <3>1. /\ loop'.from = loop.from /\ loop'.day = loop.day + 1 /\ loop'.at = "day"
      BY <2>3, <1>0 DEF LoopRows
    <3>2. \A dag \in DAGs, d \in Days : loop.from =< d /\ d < loop.day + 1 => ~ Active(dag, d)'
      <4> TAKE dag \in DAGs, d \in Days
      <4>1. ~ Active(dag, d)' \/ Active(dag, d)
        BY <2>1, <1>d DEF NoneStarts
      <4>2. d < loop.day + 1 => d < loop.day \/ d = loop.day
        BY <1>d
      <4>3. d = loop.day => ~ Active(dag, d)
        BY <2>1, <1>0, <1>d DEF QuietInv, WalkInv
      <4> QED BY <2>1, <4>1, <4>2, <4>3 DEF QuietInv, Walking
    <3> QED BY <3>1, <3>2 DEF QuietInv, Through
  <2> QED BY <1>0, <2>1, <2>2, <2>3, QuietStops
<1> QED
  BY <1>1, <1>3, <1>4, <1>6, <1>7, <1>8, <1>9, <1>10, <1>11, <1>12, <1>13, <1>14 DEF Next, Loop

(* What a loop that is through with its window registered stays as it is.   *)
LEMMA WindowFixed ==
  ASSUME LoopTypes, FetchTypes, QuietInv, Through(loop), OnlyEnded, UNCHANGED loop,
         batches' \in [Cells -> BatchStates]
  PROVE  Window' = Window
<1>1. \A g \in DAGs, e \in 0 .. Last : e \in loop.from .. loop.to => batches'[g, e] = batches[g, e]
  <2> SUFFICES ASSUME NEW g \in DAGs, NEW e \in 0 .. Last, e \in loop.from .. loop.to
               PROVE  batches'[g, e] = batches[g, e]
    OBVIOUS
  <2>1. e \in Days /\ loop.from =< e /\ e =< loop.to
    BY RelationalDAGs DEF LoopTypes, LoopRows, Days
  <2>2. ~ Active(g, e)
    BY <2>1 DEF QuietInv
  <2> QED BY <2>2 DEF OnlyEnded
<1>2. \A x \in Cells : x[2] \in loop.from .. loop.to => batches'[x] = batches[x]
  <2> TAKE x \in Cells
  <2>1. PICK g \in DAGs, e \in 0 .. Last : x = <<g, e>>
    BY DEF Cells
  <2>2. x[2] = e
    BY <2>1
  <2> QED BY <1>1, <2>1, <2>2
<1>3. DOMAIN batches = Cells /\ DOMAIN batches' = Cells
  BY DEF FetchTypes
<1> QED BY <1>2, <1>3 DEF Window, Registered

(* What is built is what was registered when the build began, or later.     *)
LEMMA BuildStep ==
  ASSUME DriverInv, WindowInv, [Next]_vars
  PROVE  BuildTypes' /\ SilverFollows' /\ BuildInv'
<1>0. /\ LoopTypes /\ LoopInv /\ loop \in LoopRows /\ FetchTypes /\ QuietInv
      /\ BuildTypes /\ SilverFollows /\ BuildInv
  BY DEF DriverInv, LoopInv, LoopTypes, WindowInv
<1>1. \A x \in TransformRows :
        /\ x.queued \in BOOLEAN /\ x.running \in BOOLEAN /\ x.last \in {"success", "failed"}
        /\ x.next \in SUBSET Cells /\ x.holds \in SUBSET Cells
  BY DEF TransformRows
<1>w. Window \subseteq Registered /\ Registered \subseteq Cells
  BY <1>0 DEF Window, Registered, FetchTypes
<1>2. CASE Runs
  <2>1. /\ UNCHANGED <<loop, silver>> /\ OnlyEnded /\ batches' \in [Cells -> BatchStates]
        /\ UNCHANGED bronze \/ Registration
    BY <1>0, <1>2, RunsChange
  <2>2. PICK b \in BOOLEAN : bronze' = [bronze EXCEPT !.queued = b] /\ (bronze.queued => b)
    <3>1. CASE UNCHANGED bronze
      <4>1. bronze.queued \in BOOLEAN /\ bronze' = [bronze EXCEPT !.queued = bronze.queued]
        BY <3>1, <1>0 DEF BuildTypes, TransformRows
      <4> QED BY <4>1
    <3>2. CASE Registration
      BY <3>2 DEF Registration
    <3> QED BY <2>1, <3>1, <3>2
  <2>3. /\ bronze' \in TransformRows /\ bronze'.queued = b /\ bronze'.running = bronze.running
        /\ bronze'.last = bronze.last /\ bronze'.next = bronze.next /\ bronze'.holds = bronze.holds
    BY <2>2, <1>0 DEF BuildTypes, TransformRows
  <2>4. loop.at \in {"settling", "reported"} => Window' = Window
    BY <1>0, <2>1, WindowFixed DEF Through
  <2>5. BuildInv'
    BY <1>0, <2>1, <2>2, <2>3, <2>4 DEF BuildInv
  <2> QED BY <1>0, <2>1, <2>3, <2>5 DEF BuildTypes, SilverFollows
<1>3. CASE StartBronze
  <2>1. UNCHANGED <<loop, batches, silver>> /\ ~ bronze.running /\ ~ silver.running
          /\ bronze' = [bronze EXCEPT !.queued = FALSE, !.running = TRUE, !.next = Registered]
    BY <1>3 DEF StartBronze, NoneRunning, Begun, platform
  <2>2. /\ bronze' \in TransformRows /\ bronze'.queued = FALSE /\ bronze'.running = TRUE
        /\ bronze'.last = bronze.last /\ bronze'.next = Registered /\ bronze'.holds = bronze.holds
    BY <2>1, <1>0, <1>w DEF BuildTypes, TransformRows
  <2>3. Window' = Window
    BY <2>1 DEF Window, Registered
  <2>4. BuildInv'
    BY <1>0, <1>w, <2>1, <2>2, <2>3 DEF BuildInv
  <2> QED BY <1>0, <2>1, <2>2, <2>4 DEF BuildTypes, SilverFollows
<1>4. CASE EndBronze
  <2>1. UNCHANGED <<loop, batches>> /\ bronze.running /\ Window' = Window
    BY <1>4 DEF EndBronze, platform, Window, Registered
  <2>2. CASE /\ bronze' = Succeeded(bronze) /\ silver' = [silver EXCEPT !.queued = TRUE]
    <3>1. /\ bronze' \in TransformRows /\ bronze'.queued = bronze.queued /\ bronze'.running = FALSE
          /\ bronze'.last = "success" /\ bronze'.holds = bronze.next
      BY <2>2, <1>0 DEF Succeeded, BuildTypes, TransformRows
    <3>2. /\ silver' \in TransformRows /\ silver'.queued = TRUE /\ silver'.running = silver.running
          /\ silver'.next = silver.next /\ silver'.holds = silver.holds
      BY <2>2, <1>0 DEF BuildTypes, TransformRows
    <3>3. BuildInv'
      BY <1>0, <2>1, <3>1, <3>2 DEF BuildInv
    <3> QED BY <1>0, <2>1, <3>1, <3>2, <3>3 DEF BuildTypes, SilverFollows
  <2>3. CASE bronze' = Failed(bronze) /\ UNCHANGED silver
    <3>1. /\ bronze' \in TransformRows /\ bronze'.queued = bronze.queued /\ bronze'.running = FALSE
          /\ bronze'.last = "failed" /\ bronze'.holds = bronze.holds
      BY <2>3, <1>0 DEF Failed, BuildTypes, TransformRows
    <3>3. BuildInv'
      BY <1>0, <2>1, <2>3, <3>1 DEF BuildInv
    <3> QED BY <1>0, <2>1, <2>3, <3>1, <3>3 DEF BuildTypes, SilverFollows
  <2> QED BY <1>4, <2>2, <2>3 DEF EndBronze
<1>5. CASE StartSilver
  <2>1. UNCHANGED <<loop, batches, bronze>> /\ ~ bronze.running /\ ~ silver.running
          /\ silver' = [silver EXCEPT !.queued = FALSE, !.running = TRUE, !.next = bronze.holds]
          /\ Window' = Window
    BY <1>5 DEF StartSilver, NoneRunning, Begun, platform, Window, Registered
  <2>2. /\ silver' \in TransformRows /\ silver'.queued = FALSE /\ silver'.running = TRUE
        /\ silver'.next = bronze.holds /\ silver'.holds = silver.holds
    BY <2>1, <1>0 DEF BuildTypes, TransformRows
  <2>3. BuildInv'
    BY <1>0, <2>1, <2>2 DEF BuildInv
  <2> QED BY <1>0, <2>1, <2>2, <2>3 DEF BuildTypes, SilverFollows
<1>6. CASE EndSilver
  <2>1. UNCHANGED <<loop, batches, bronze>> /\ silver.running /\ Window' = Window
    BY <1>6 DEF EndSilver, platform, Window, Registered
  <2>2. CASE silver' = Succeeded(silver)
    <3>1. /\ silver' \in TransformRows /\ silver'.queued = silver.queued /\ silver'.running = FALSE
          /\ silver'.last = "success" /\ silver'.holds = silver.next
      BY <2>2, <1>0 DEF Succeeded, BuildTypes, TransformRows
    <3>2. BuildInv'
      BY <1>0, <2>1, <3>1 DEF BuildInv
    <3> QED BY <1>0, <2>1, <3>1, <3>2 DEF BuildTypes, SilverFollows
  <2>3. CASE silver' = Failed(silver)
    <3>1. /\ silver' \in TransformRows /\ silver'.queued = silver.queued /\ silver'.running = FALSE
          /\ silver'.last = "failed" /\ silver'.holds = silver.holds
      BY <2>3, <1>0 DEF Failed, BuildTypes, TransformRows
    <3>2. BuildInv'
      BY <1>0, <2>1, <3>1 DEF BuildInv
    <3> QED BY <1>0, <2>1, <3>1, <3>2 DEF BuildTypes, SilverFollows
  <2> QED BY <1>6, <2>2, <2>3 DEF EndSilver
<1>7. CASE ChoosePause \/ TickByHand \/ UNCHANGED vars
  <2>1. UNCHANGED <<loop, batches, bronze, silver>>
    BY <1>7 DEF ChoosePause, TickByHand, vars, platform, transforms
  <2>2. Window' = Window
    BY <2>1 DEF Window, Registered
  <2> QED BY <1>0, <2>1, <2>2 DEF BuildTypes, SilverFollows, BuildInv
<1>8. CASE BuildOnce
  <2>1. /\ bronze' = [bronze EXCEPT !.queued = TRUE] /\ UNCHANGED silver
        /\ loop' = [loop EXCEPT !.at = "settling"]
    BY <1>8 DEF BuildOnce, Goes
  <2>2. /\ bronze' \in TransformRows /\ bronze'.queued = TRUE /\ bronze'.running = bronze.running
        /\ bronze'.holds = bronze.holds
    BY <2>1, <1>0 DEF BuildTypes, TransformRows
  <2>3. loop'.at = "settling"
    BY <2>1, <1>0 DEF LoopRows
  <2> QED BY <1>0, <2>1, <2>2, <2>3 DEF BuildTypes, SilverFollows, BuildInv
<1>9. CASE ReportWindow
  <2>1. /\ loop.at = "settling" /\ loop' = [loop EXCEPT !.at = "reported"]
        /\ UNCHANGED <<batches, bronze, silver>> /\ Settled
    BY <1>9 DEF ReportWindow, Goes, platform, transforms
  <2>2. loop'.at = "reported" /\ loop'.from = loop.from /\ loop'.to = loop.to
    BY <2>1, <1>0 DEF LoopRows
  <2>3. Window' = Window
    BY <2>1, <2>2 DEF Window, Registered
  <2>4. /\ ~ bronze.running /\ ~ silver.running /\ Window \subseteq bronze.holds
        /\ silver.holds = bronze.holds
    BY <1>0, <2>1 DEF Settled, NoneRunning, BuildInv, SilverFollows
  <2>5. BuildInv'
    BY <2>1, <2>2, <2>3, <2>4 DEF BuildInv
  <2> QED BY <1>0, <2>1, <2>5 DEF BuildTypes, SilverFollows
<1>10. ASSUME UNCHANGED transforms, loop'.at \notin {"settling", "reported"}
       PROVE  BuildTypes' /\ SilverFollows' /\ BuildInv'
  BY <1>0, <1>10 DEF BuildTypes, SilverFollows, BuildInv, transforms
<1>s. Stops => loop'.at \notin {"settling", "reported"}
  BY <1>0 DEF Stops, LoopRows
<1>11. CASE \/ Invoke \/ RecordPause \/ Pause \/ LoadHistory \/ HistoryLoaded
            \/ BeginDay \/ TickDay
  <2>1. UNCHANGED transforms
    BY <1>11 DEF Invoke, RecordPause, Pause, LoadHistory, HistoryLoaded, BeginDay, TickDay
  <2>2. CASE Invoke
    <3>1. loop'.at = "recording"
      BY <2>2 DEF Invoke
    <3> QED BY <2>1, <3>1, <1>10
  <2>3. CASE ~ Invoke
    <3>1. \/ Stops
          \/ \E s \in {"pausing", "history", "loading", "day", "relational"} :
               loop' = [loop EXCEPT !.at = s] \/ \E b : loop' = [loop EXCEPT !.at = s, !.prior = b]
          \/ loop.at = "day" /\ \E n : loop' = [loop EXCEPT !.day = n]
          \/ \E t, f : \E s \in {"ticking", "relational"} :
               loop' = [loop EXCEPT !.at = s, !.todo = t, !.feeds = f]
      BY <1>11, <2>3 DEF RecordPause, Pause, LoadHistory, HistoryLoaded, BeginDay, TickDay, Goes
    <3>2. loop'.at \notin {"settling", "reported"}
      BY <1>0, <1>s, <3>1 DEF LoopRows
    <3> QED BY <2>1, <3>2, <1>10, SMTT(40)
  <2> QED BY <2>2, <2>3
<1>12. CASE \/ RunRelational \/ RunFeeds \/ EndDay \/ EndDays \/ Unpause
            \/ ForgetRecord \/ ReportFailure \/ Return \/ WaitTimesOut \/ Kill
  <2>1. UNCHANGED transforms
    BY <1>12 DEF RunRelational, RunFeeds, EndDay, EndDays, Unpause, ForgetRecord,
                 ReportFailure, Return, WaitTimesOut, Kill
  <2>2. \/ Stops
        \/ \E s \in {"feeds", "unpausing", "forgetting", "building", "idle"} :
               loop' = [loop EXCEPT !.at = s]
        \/ loop.at = "relational" /\ \E t : loop' = [loop EXCEPT !.todo = t]
        \/ \E n : loop' = [loop EXCEPT !.at = "day", !.day = n]
    BY <1>12 DEF RunRelational, RunFeeds, EndDay, EndDays, Unpause, ForgetRecord,
                 ReportFailure, Return, WaitTimesOut, Kill, Goes
  <2>3. loop'.at \notin {"settling", "reported"}
    BY <1>0, <1>s, <2>2 DEF LoopRows
  <2> QED BY <2>1, <2>3, <1>10
<1> QED
  BY <1>2, <1>3, <1>4, <1>5, <1>6, <1>7, <1>8, <1>9, <1>11, <1>12 DEF Next, Loop, Builds

(* One step of any kind. *)
LEMMA WindowStep == DriverInv /\ WindowInv /\ [Next]_vars => WindowInv'
<1> SUFFICES ASSUME DriverInv, WindowInv, [Next]_vars PROVE WindowInv'
  OBVIOUS
<1>1. FetchTypes /\ QuietInv
  BY DEF WindowInv
<1> QED BY <1>1, FetchStep, QuietStep, BuildStep DEF WindowInv

(* Where it starts. *)
LEMMA WindowInit == Init => WindowInv
<1> SUFFICES ASSUME Init PROVE WindowInv
  OBVIOUS
<1>1. FetchTypes
  BY DEF Init, FetchTypes, FetchRows, NotFetching, Cells, BatchStates
<1>2. QuietInv
  BY DEF Init, QuietInv, Through, Walking
<1>3. BuildTypes /\ SilverFollows /\ BuildInv
  BY DEF Init, BuildTypes, TransformRows, SilverFollows, BuildInv, Unbuilt
<1> QED BY <1>1, <1>2, <1>3 DEF WindowInv

(* The inductive invariant of the window: no run goes on of a day that the  *)
(* loop is through with, silver follows bronze, and the build the loop asks *)
(* for takes in all that its window registered.                             *)
THEOREM WindowInvariant == Spec => []WindowInv
<1> QED BY WindowInit, WindowStep, DriverInvariant, PTL DEF Spec

(* A window is reported complete when silver holds all it registered,       *)
(* however builds were queued, failed and were triggered meanwhile, and     *)
(* whatever an earlier loop left running (backfill.main).                   *)
THEOREM WindowIsBuiltCorrect == Spec => []WindowIsBuilt
<1>1. WindowInv => WindowIsBuilt
  BY DEF WindowInv, BuildInv, WindowIsBuilt, Window
<1> QED BY <1>1, WindowInvariant, PTL
-----------------------------------------------------------------------------
(***************************************************************************)
(* The rates: what an FX run that goes on has got and what it must, which  *)
(* days have theirs, and that no run goes on for a day that has.           *)
(***************************************************************************)
DoneDays == {d \in 0 .. Last : batches["fx", d] = "registered"}

FetchingInv ==
  /\ \A x \in fetching.left \cup fetching.got : x =< fetching.day
  /\ fetching.day > 0 /\ ~ fetching.failed =>
       Published \cap DatesToFetch(fetching.day) \subseteq fetching.left \cup fetching.got
  /\ fetching.day = 0 /\ ~ fetching.failed /\ fetching.left = {} => HistoryAnswer \subseteq fetching.got

OwedInv ==
  /\ \A d \in 0 .. Last : Active("fx", d) => d \notin DoneDays
  /\ loop.at \in {"ticking", "relational"} /\ "fx" \in loop.feeds => loop.day \notin DoneDays

RatesWhole ==
  /\ watermark = NoRates => DoneDays \subseteq {0}
  /\ \A d \in Published \cap Days :
       d =< watermark /\ (\E e \in DoneDays \ {0} : e =< d) => d \in rates
  /\ 0 \in DoneDays => Published \cap (First .. 0) \subseteq rates
  /\ \A d \in rates : \E e \in DoneDays : d =< e

RatesInv == FetchingInv /\ OwedInv /\ RatesWhole

(* A run that is over asks for nothing. *)
LEMMA NotFetchingInv ==
  ASSUME fetching' = NotFetching
  PROVE  FetchingInv'
  BY DEF FetchingInv, NotFetching

(* One request more of a run is made. *)
LEMMA FetchingStep ==
  ASSUME DriverInv, FetchTypes, FetchingInv,
         \/ \E d \in 0 .. Last : FxOpen(d)
         \/ FxAnswer \/ FxRetry \/ FxGiveUp
  PROVE  FetchingInv'
<1>0. /\ fetching.left \in SUBSET Nat /\ fetching.got \in SUBSET Int /\ fetching.day \in Int
      /\ Last \in Nat
  BY RelationalDAGs DEF FetchTypes, FetchRows
<1>1. ASSUME NEW d \in 0 .. Last, FxOpen(d)
      PROVE  FetchingInv'
  <2>1. PICK S : S = (IF d = HistoryEnd THEN {d} ELSE DatesToFetch(d))
                 /\ fetching' = [NotFetching EXCEPT !.day = d, !.left = S]
    BY <1>1 DEF FxOpen
  <2>2. /\ fetching'.day = d /\ fetching'.left = S /\ fetching'.got = {} /\ fetching'.failed = FALSE
        /\ UNCHANGED watermark
    BY <1>1, <2>1 DEF NotFetching, FxOpen
  <2>3. \A x \in S : x =< d
    <3>1. watermark \in Int \/ watermark = NoRates
      BY DEF FetchTypes, Days
    <3> QED BY <1>0, <2>1, <3>1 DEF DatesToFetch
  <2>4. d > 0 => S = DatesToFetch(d)
    BY <2>1 DEF HistoryEnd
  <2>5. d = 0 => S # {}
    BY <2>1 DEF HistoryEnd
  <2>6. \A u : u = d => DatesToFetch(u)' = DatesToFetch(u)
    BY <2>2 DEF DatesToFetch
  <2>7. \A x \in fetching'.left \cup fetching'.got : x =< fetching'.day
    BY <2>2, <2>3
  <2>8. fetching'.day > 0 => Published \cap DatesToFetch(fetching.day)' \subseteq fetching'.left \cup fetching'.got
    BY <2>2, <2>4, <2>6 DEF DatesToFetch
  <2> QED BY <2>2, <2>5, <2>7, <2>8 DEF FetchingInv
<1>2. ASSUME NEW S \in SUBSET fetching.left, NEW T,
             fetching'.left = S, fetching'.got = T, fetching'.day = fetching.day,
             fetching'.failed = fetching.failed, UNCHANGED watermark,
             \A x \in T : x \in fetching.got \/ x =< fetching.day,
             fetching.got \subseteq T, Published \cap (fetching.left \ S) \subseteq T,
             fetching.day = 0 /\ S = {} => HistoryAnswer \subseteq T \/ fetching.left = {}
      PROVE  FetchingInv'
  <2>1. \A u : u = fetching.day => DatesToFetch(u)' = DatesToFetch(u)
    BY <1>2 DEF DatesToFetch
  <2>2. \A x \in fetching'.left \cup fetching'.got : x =< fetching'.day
    BY <1>2 DEF FetchingInv
  <2>3. fetching'.day > 0 /\ ~ fetching'.failed =>
          Published \cap DatesToFetch(fetching.day)' \subseteq fetching'.left \cup fetching'.got
    BY <1>2 DEF FetchingInv, DatesToFetch
  <2> QED BY <1>2, <2>2, <2>3 DEF FetchingInv
<1>3. CASE FxAnswer
  <2> DEFINE d == Min(fetching.left)
  <2>1. /\ fetching.left # {} /\ UNCHANGED watermark
        /\ fetching' = [fetching EXCEPT !.left = fetching.left \ {d},
                                        !.got = fetching.got \cup Answer(d), !.attempt = 1]
    BY <1>3 DEF FxAnswer
  <2>2. d \in fetching.left /\ d \in Nat /\ d =< fetching.day
    BY <1>0, <2>1, LeastDate DEF FetchingInv
  <2>3. (\A x \in Answer(d) : x =< d) /\ Published \cap {d} \subseteq Answer(d) /\ Answer(d) \subseteq Int
    BY <2>2, AnswerType
  <2>4. fetching.day = 0 => Answer(d) = HistoryAnswer
    BY <2>2, <1>0 DEF Answer, HistoryEnd
  <2> HIDE DEF d
  <2>5. /\ fetching'.left = fetching.left \ {d} /\ fetching'.got = fetching.got \cup Answer(d)
        /\ fetching'.day = fetching.day /\ fetching'.failed = fetching.failed
    BY <2>1 DEF FetchTypes, FetchRows
  <2>6. \A x \in Answer(d) : x =< fetching.day
    BY <2>2, <2>3, <1>0
  <2>7. Published \cap (fetching.left \ (fetching.left \ {d})) \subseteq fetching.got \cup Answer(d)
    BY <2>3
  <2> QED BY <1>2, <2>1, <2>4, <2>5, <2>6, <2>7
<1>4. CASE FxRetry
  <2>1. /\ fetching'.left = fetching.left /\ fetching'.got = fetching.got
        /\ fetching'.day = fetching.day /\ fetching'.failed = fetching.failed
        /\ UNCHANGED watermark
    BY <1>4 DEF FxRetry, FetchTypes, FetchRows
  <2> QED BY <1>2, <2>1
<1>5. CASE FxGiveUp
  <2>1. /\ fetching'.left \subseteq fetching.left /\ fetching'.got = fetching.got
        /\ fetching'.day = fetching.day /\ fetching'.failed = TRUE
    BY <1>5 DEF FxGiveUp, FetchTypes, FetchRows
  <2> QED BY <2>1 DEF FetchingInv
<1> QED BY <1>1, <1>3, <1>4, <1>5

(* An FX run that ends. *)
LEMMA FxFinished ==
  ASSUME LoopTypes, FetchTypes, NEW d \in 0 .. Last, Active("fx", d),
         NEW held \in BatchStates, Finished("fx", d, held)
  PROVE  /\ ~ Active("fx", d)' /\ batches'["fx", d] = held
         /\ \A e \in 0 .. Last : Active("fx", e)' => Active("fx", e)
         /\ \A e \in 0 .. Last : e # d => batches'["fx", e] = batches["fx", e]
<1>1. PICK dag \in DAGs : dag = "fx"
  BY DEF DAGs, Feeds
<1>2. Active(dag, d) /\ Finished(dag, d, held)
  BY <1>1
<1>3. NoneStarts
  BY <1>2, FinishedChanges
<1>4. batches'[dag, d] = held
  BY <1>2, FinishedChanges
<1>5. ~ Active(dag, d)'
  BY <1>2, FinishedChanges
<1>6. batches' = [batches EXCEPT ![<<dag, d>>] = held]
  BY <1>1 DEF Finished
<1>7. \A e \in 0 .. Last : e # d => batches'[dag, e] = batches[dag, e]
  BY <1>6 DEF FetchTypes, Cells
<1>8. \A e \in 0 .. Last : Active(dag, e)' => Active(dag, e)
  BY <1>3 DEF NoneStarts
<1> QED BY <1>1, <1>4, <1>5, <1>7, <1>8 DEF Active

(* A run that registers lands what was published of its dates: those after  *)
(* the watermark, or its own.                                               *)
LEMMA FxEndKeepsRates ==
  ASSUME DriverInv, FetchTypes, QuietInv, RatesInv, FxEnd
  PROVE  RatesInv'
<1>p. PICK d \in 0 .. Last : d = fetching.day /\ Active("fx", d)
  BY DEF FxEnd, FetchTypes
<1>0. /\ LoopTypes /\ d \in Nat /\ Last \in Nat /\ d \notin DoneDays
      /\ fetching.left = {} /\ UNCHANGED loop /\ fetching' = NotFetching
  <2>1. LoopTypes /\ fetching.left = {} /\ UNCHANGED loop /\ fetching' = NotFetching
    BY DEF DriverInv, LoopInv, FxEnd
  <2> QED BY <1>p, <2>1, RelationalDAGs DEF RatesInv, OwedInv
<1>1. PICK held \in {"failed", "registered"} :
        Finished("fx", d, held) /\ held = IF fetching.failed THEN "failed" ELSE "registered"
  BY <1>p DEF FxEnd
<1>f. "fx" \in DAGs /\ held \in BatchStates
  BY DEF DAGs, Feeds, BatchStates
<1>2. /\ ~ Active("fx", d)' /\ batches'["fx", d] = held
      /\ \A e \in 0 .. Last : Active("fx", e)' => Active("fx", e)
      /\ \A e \in 0 .. Last : e # d => batches'["fx", e] = batches["fx", e]
  BY <1>p, <1>0, <1>1, <1>f, FxFinished
<1>3. DoneDays' = IF fetching.failed THEN DoneDays ELSE DoneDays \cup {d}
  BY <1>0, <1>1, <1>2 DEF DoneDays
<1>4. OwedInv'
  <2>1. \A e \in 0 .. Last : Active("fx", e)' => Active("fx", e) /\ e # d
    BY <1>2
  <2>2. \A e \in 0 .. Last : Active("fx", e)' => e \notin DoneDays'
    BY <1>3, <2>1 DEF RatesInv, OwedInv
  <2>3. loop.at \in {"ticking", "relational"} => loop.day # d
    <3>1. loop.at \in {"ticking", "relational"} => loop.day \in Days
      BY DEF DriverInv, LoopInv, WalkInv
    <3>2. "fx" \in Feeds
      BY DEF Feeds
    <3> QED BY <1>p, <3>1, <3>2 DEF QuietInv
  <2> QED BY <1>0, <1>3, <2>2, <2>3 DEF RatesInv, OwedInv
<1>5. CASE fetching.failed
  <2>1. DoneDays' = DoneDays /\ rates' = rates /\ watermark' = watermark
    BY <1>3, <1>5 DEF FxEnd, Landed
  <2>2. RatesWhole'
    BY <2>1 DEF RatesInv, RatesWhole
  <2> QED BY <1>0, <1>4, <2>2, NotFetchingInv DEF RatesInv
<1>6. CASE ~ fetching.failed
  <2>1. /\ DoneDays' = DoneDays \cup {d} /\ rates' = rates \cup fetching.got
        /\ watermark' = IF d = 0 THEN watermark ELSE d
    BY <1>p, <1>3, <1>6 DEF FxEnd, Landed, HistoryEnd
  <2>2. \A x \in fetching.got : x =< d
    BY <1>p DEF RatesInv, FetchingInv
  <2>3. d > 0 => Published \cap DatesToFetch(d) \subseteq fetching.got
    BY <1>p, <1>0, <1>6 DEF RatesInv, FetchingInv
  <2>4. d = 0 => HistoryAnswer \subseteq fetching.got
    BY <1>p, <1>0, <1>6 DEF RatesInv, FetchingInv
  <2>5. NoRates < 0 /\ NoRates \in Int /\ First \in Int
    BY LoopAssumption DEF NoRates, HistoryEnd
  <2>6. watermark' = NoRates => DoneDays' \subseteq {0}
    BY <1>0, <2>1, <2>5 DEF RatesInv, RatesWhole
  <2>7. \A x \in Published \cap Days :
          x =< watermark' /\ (\E e \in DoneDays' \ {0} : e =< x) => x \in rates'
    <3> SUFFICES ASSUME NEW x \in Published \cap Days, x =< watermark',
                        NEW e \in DoneDays' \ {0}, e =< x
                 PROVE  x \in rates'
      OBVIOUS
    <3>1. x \in Nat \ {0} /\ x =< Last /\ e \in Nat
      <4>1. x \in 1 .. Last /\ e \in 0 .. Last
        BY DEF Days, DoneDays
      <4> QED BY <1>0, <4>1
    <3>2. ASSUME e \in DoneDays, x =< watermark PROVE x \in rates'
      BY <2>1, <3>2 DEF RatesInv, RatesWhole
    <3>3. CASE d = 0
      <4>1. e \in DoneDays /\ watermark' = watermark
        BY <2>1, <3>3
      <4> QED BY <3>2, <4>1
    <3>4. CASE d > 0
      <4>1. x =< d /\ (e \in DoneDays \/ e = d)
        BY <2>1, <3>4
      <4>2. x \in DatesToFetch(d) => x \in rates'
        BY <2>1, <2>3, <3>4
      <4>3. CASE watermark = NoRates
        <5>1. e = d
          BY <2>5, <4>1, <4>3 DEF RatesInv, RatesWhole
        <5>2. x = d
          BY <1>0, <3>1, <4>1, <5>1
        <5> QED BY <4>2, <4>3, <5>2 DEF DatesToFetch
      <4>4. CASE watermark # NoRates /\ watermark >= d
        <5>1. watermark \in Days /\ watermark \in d .. Last
          BY <1>0, <4>4 DEF FetchTypes, Days
        <5>2. x = d \/ (x < d /\ x =< watermark)
          BY <1>0, <3>1, <4>1, <4>4, <5>1 DEF Days
        <5>3. x < d => e \in DoneDays
          BY <1>0, <3>1, <4>1
        <5>4. x = d => x \in DatesToFetch(d)
          BY <5>1 DEF DatesToFetch
        <5> QED BY <3>2, <4>2, <5>2, <5>3, <5>4
      <4>5. CASE watermark # NoRates /\ watermark < d
        <5>1. watermark \in Days /\ watermark \in Int /\ watermark \notin d .. Last
          BY <1>0, <4>5 DEF FetchTypes, Days
        <5>2. DatesToFetch(d) = watermark + 1 .. d
          BY <4>5, <5>1 DEF DatesToFetch
        <5>3. x =< watermark \/ x \in watermark + 1 .. d
          BY <1>0, <3>1, <4>1, <5>1
        <5>4. x =< watermark => e \in DoneDays
          BY <1>0, <3>1, <4>1, <4>5, <5>1
        <5> QED BY <3>2, <4>2, <5>2, <5>3, <5>4
      <4>6. watermark = NoRates \/ watermark \in Int
        BY DEF FetchTypes, Days
      <4> QED BY <1>0, <4>3, <4>4, <4>5, <4>6
    <3> QED BY <1>0, <3>3, <3>4
  <2>8. 0 \in DoneDays' => Published \cap (First .. 0) \subseteq rates'
    <3>1. CASE d = 0
      <4>1. Published \cap (First .. 0) \subseteq HistoryAnswer
        BY <2>5 DEF HistoryAnswer, FirstReturned, HistoryEnd
      <4> QED BY <2>1, <2>4, <3>1, <4>1
    <3>2. CASE d # 0
      BY <2>1, <3>2 DEF RatesInv, RatesWhole
    <3> QED BY <3>1, <3>2
  <2>9. \A x \in rates' : \E e \in DoneDays' : x =< e
    BY <2>1, <2>2 DEF RatesInv, RatesWhole
  <2>10. RatesWhole'
    BY <2>6, <2>7, <2>8, <2>9 DEF RatesWhole
  <2> QED BY <1>0, <1>4, <2>10, NotFetchingInv DEF RatesInv
<1> QED BY <1>5, <1>6

(* A run that dies lands nothing, and its day was not done. *)
LEMMA FxDiesKeepsRates ==
  ASSUME DriverInv, FetchTypes, QuietInv, RatesInv, FxDies
  PROVE  RatesInv'
<1>p. PICK d \in 0 .. Last : d = fetching.day /\ Active("fx", d)
  BY DEF FxDies, FetchTypes
<1>0. /\ LoopTypes /\ d \notin DoneDays
      /\ UNCHANGED <<loop, rates, watermark>> /\ fetching' = NotFetching
  BY <1>p DEF DriverInv, LoopInv, FxDies, RatesInv, OwedInv
<1>1. Finished("fx", d, "nothing") /\ "fx" \in DAGs /\ "nothing" \in BatchStates
  BY <1>p DEF FxDies, DAGs, Feeds, BatchStates
<1>2. /\ batches'["fx", d] = "nothing"
      /\ \A e \in 0 .. Last : Active("fx", e)' => Active("fx", e)
      /\ \A e \in 0 .. Last : e # d => batches'["fx", e] = batches["fx", e]
  BY <1>p, <1>0, <1>1, FxFinished
<1>3. DoneDays' = DoneDays
  BY <1>0, <1>2 DEF DoneDays
<1>5. OwedInv' /\ RatesWhole'
  BY <1>0, <1>2, <1>3 DEF RatesInv, OwedInv, RatesWhole
<1> QED BY <1>0, <1>5, NotFetchingInv DEF RatesInv

(* A run is started, or started over, only for a day that is not done. *)
LEMMA StartsKeepRates ==
  ASSUME DriverInv, FetchTypes, RatesInv, LoadHistory \/ RunRelational \/ RunFeeds
  PROVE  RatesInv'
<1>0. LoopTypes /\ LoopInv /\ loop \in LoopRows /\ WalkInv
  BY DEF DriverInv, LoopInv, LoopTypes
<1>1. UNCHANGED <<batches, rates, watermark>> /\ (UNCHANGED fetching \/ fetching' = NotFetching)
  BY <1>0, StartsChange
<1>2. DoneDays' = DoneDays
  BY <1>1 DEF DoneDays
<1>3. FetchingInv'
  <2>1. CASE UNCHANGED fetching
    BY <1>1, <2>1 DEF RatesInv, FetchingInv, DatesToFetch
  <2> QED BY <1>1, <2>1, NotFetchingInv
<1>4. RatesWhole'
  BY <1>1, <1>2 DEF RatesInv, RatesWhole
<1>f. "fx" \in DAGs /\ Feeds \subseteq DAGs /\ Days \subseteq 0 .. Last /\ Relational \cap Feeds = {} /\ "fx" \in Feeds
  BY RelationalDAGs DEF DAGs, Feeds
<1>5. ASSUME NEW S \in SUBSET DAGs, NEW d \in 0 .. Last, run' = Started(S, d), "fx" \in S => d \notin DoneDays
      PROVE  \A e \in 0 .. Last : Active("fx", e)' => e \notin DoneDays
  BY <1>0, <1>5, <1>f, StartedType DEF RatesInv, OwedInv
<1>6. UNCHANGED run => \A e \in 0 .. Last : Active("fx", e)' => e \notin DoneDays
  BY DEF RatesInv, OwedInv, Active
<1>7. CASE LoadHistory
  <2>1. loop'.at \in {"day", "loading"}
    BY <1>0, <1>7 DEF LoadHistory, LoopRows
  <2>2. UNCHANGED run \/ (run' = Started({"fx"}, HistoryEnd) /\ batches["fx", HistoryEnd] # "registered")
    BY <1>7 DEF LoadHistory
  <2>3. HistoryEnd \in 0 .. Last /\ {"fx"} \in SUBSET DAGs
    BY <1>f, RelationalDAGs DEF HistoryEnd
  <2>4. batches["fx", HistoryEnd] # "registered" => HistoryEnd \notin DoneDays
    BY DEF DoneDays
  <2>5. \A e \in 0 .. Last : Active("fx", e)' => e \notin DoneDays
    BY <1>5, <1>6, <2>2, <2>3, <2>4
  <2> QED BY <1>2, <1>3, <1>4, <2>1, <2>5 DEF RatesInv, OwedInv
<1>8. CASE RunRelational
  <2>1. /\ loop.at = "relational" /\ run' = Started({NextToRun}, loop.day)
        /\ loop' = [loop EXCEPT !.todo = loop.todo \ {NextToRun}]
    BY <1>8 DEF RunRelational
  <2>2. loop'.at = "relational" /\ loop'.day = loop.day /\ loop'.feeds = loop.feeds
    BY <1>0, <2>1 DEF LoopRows
  <2>3. NextToRun \in {"reference", "core"} /\ loop.day \in 0 .. Last
    BY <1>0, <1>f, <2>1 DEF NextToRun, WalkInv
  <2>4. {NextToRun} \in SUBSET DAGs /\ "fx" \notin {NextToRun}
    BY <2>3 DEF DAGs, Relational
  <2>5. \A e \in 0 .. Last : Active("fx", e)' => e \notin DoneDays
    BY <1>5, <2>1, <2>3, <2>4
  <2> QED BY <1>2, <1>3, <1>4, <2>1, <2>2, <2>5 DEF RatesInv, OwedInv
<1>9. CASE RunFeeds
  <2>1. loop.at = "relational" /\ loop'.at \in {"unpausing", "feeds"}
    BY <1>0, <1>9 DEF RunFeeds, Stops, LoopRows
  <2>2. UNCHANGED run \/ run' = Started(loop.feeds, loop.day)
    BY <1>9 DEF RunFeeds
  <2>3. loop.feeds \in SUBSET DAGs /\ loop.day \in 0 .. Last /\ ("fx" \in loop.feeds => loop.day \notin DoneDays)
    BY <1>0, <1>f, <2>1 DEF LoopRows, WalkInv, RatesInv, OwedInv
  <2>4. \A e \in 0 .. Last : Active("fx", e)' => e \notin DoneDays
    BY <1>5, <1>6, <2>2, <2>3
  <2> QED BY <1>2, <1>3, <1>4, <2>1, <2>4 DEF RatesInv, OwedInv
<1> QED BY <1>7, <1>8, <1>9

(* A loop that begins a day runs the feeds the day still owes. *)
LEMMA LoopKeepsRates ==
  ASSUME DriverInv, FetchTypes, RatesInv, UNCHANGED platform, [Next]_vars
  PROVE  RatesInv'
<1>0. LoopTypes /\ LoopInv /\ loop \in LoopRows /\ WalkInv
  BY DEF DriverInv, LoopInv, LoopTypes
<1>1. /\ UNCHANGED <<run, batches, rates, watermark, fetching>> /\ DoneDays' = DoneDays
      /\ \A e \in 0 .. Last : Active("fx", e)' = Active("fx", e)
  BY DEF platform, DoneDays, Active
<1>2. FetchingInv' /\ RatesWhole'
  BY <1>1 DEF RatesInv, FetchingInv, RatesWhole, DatesToFetch
<1>3. ASSUME loop'.at \in {"ticking", "relational"} /\ "fx" \in loop'.feeds => loop'.day \notin DoneDays
      PROVE  RatesInv'
  BY <1>1, <1>2, <1>3 DEF RatesInv, OwedInv
<1>4. CASE loop'.at \notin {"ticking", "relational"}
  BY <1>3, <1>4
<1>5. CASE loop'.at \in {"ticking", "relational"} /\ loop.at \in {"ticking", "relational"}
             /\ loop'.day = loop.day /\ loop'.feeds = loop.feeds
  BY <1>3, <1>5 DEF RatesInv, OwedInv
<1>6. CASE BeginDay
  <2>1. /\ loop.at = "day" /\ loop.day =< loop.to
        /\ \/ Stops
           \/ loop' = [loop EXCEPT !.day = loop.day + 1]
           \/ \E s \in {"ticking", "relational"} :
                loop' = [loop EXCEPT !.at = s, !.todo = Pending(Relational, loop.day),
                                     !.feeds = Pending(Feeds, loop.day)]
    BY <1>6 DEF BeginDay
  <2>2. CASE Stops \/ loop' = [loop EXCEPT !.day = loop.day + 1]
    BY <1>0, <1>4, <2>1, <2>2 DEF Stops, LoopRows
  <2>3. CASE \E s \in {"ticking", "relational"} :
                loop' = [loop EXCEPT !.at = s, !.todo = Pending(Relational, loop.day),
                                     !.feeds = Pending(Feeds, loop.day)]
    <3>1. loop'.day = loop.day /\ loop'.feeds = Pending(Feeds, loop.day)
      BY <1>0, <2>3 DEF LoopRows
    <3>2. "fx" \in Pending(Feeds, loop.day) => loop.day \notin DoneDays
      BY DEF Pending, FeedComplete, Feeds, DoneDays
    <3> QED BY <1>3, <3>1, <3>2
  <2> QED BY <2>1, <2>2, <2>3
<1>7. CASE TickDay
  <2>1. Stops \/ (loop.at = "ticking" /\ loop' = [loop EXCEPT !.at = "relational"])
    BY <1>7 DEF TickDay, Goes
  <2> QED BY <1>0, <1>4, <1>5, <2>1 DEF Stops, LoopRows
<1>8. CASE UNCHANGED loop
  BY <1>1, <1>3, <1>8 DEF RatesInv, OwedInv
<1>9. CASE Builds \/ ChoosePause \/ TickByHand \/ UNCHANGED vars \/ Runs
  <2>1. UNCHANGED loop
    BY <1>0, <1>9, RunsChange
       DEF Builds, StartBronze, EndBronze, StartSilver, EndSilver, ChoosePause, TickByHand, vars
  <2> QED BY <2>1, <1>8
<1>10. CASE \/ Invoke \/ RecordPause \/ Pause \/ LoadHistory \/ HistoryLoaded
  <2>1. CASE Invoke
    <3>1. loop'.at = "recording"
      BY <2>1 DEF Invoke
    <3> QED BY <3>1, <1>4
  <2>2. CASE ~ Invoke
    <3>1. \/ Stops
          \/ \E s \in {"pausing", "history", "loading", "day"} :
               loop' = [loop EXCEPT !.at = s] \/ \E b : loop' = [loop EXCEPT !.at = s, !.prior = b]
      BY <1>10, <2>2 DEF RecordPause, Pause, LoadHistory, HistoryLoaded, Goes
    <3> QED BY <1>0, <1>4, <3>1 DEF Stops, LoopRows
  <2> QED BY <2>1, <2>2
<1>11. CASE \/ RunRelational \/ RunFeeds \/ EndDay \/ EndDays \/ Unpause \/ ForgetRecord
            \/ BuildOnce \/ ReportWindow \/ ReportFailure \/ Return \/ WaitTimesOut \/ Kill
  <2>1. \/ Stops
        \/ \E s \in {"feeds", "unpausing", "forgetting", "building", "settling", "reported", "idle"} :
               loop' = [loop EXCEPT !.at = s]
        \/ loop.at = "relational" /\ \E t : loop' = [loop EXCEPT !.todo = t]
        \/ \E n : loop' = [loop EXCEPT !.at = "day", !.day = n]
    BY <1>11 DEF RunRelational, RunFeeds, EndDay, EndDays, Unpause, ForgetRecord, BuildOnce,
                 ReportWindow, ReportFailure, Return, WaitTimesOut, Kill, Goes
  <2> QED BY <1>0, <1>4, <1>5, <2>1 DEF Stops, LoopRows
<1> QED BY <1>6, <1>7, <1>9, <1>10, <1>11 DEF Next, Loop

(* One step of any kind. *)
LEMMA RatesStep == DriverInv /\ WindowInv /\ RatesInv /\ [Next]_vars => RatesInv'
<1> SUFFICES ASSUME DriverInv, WindowInv, RatesInv, [Next]_vars PROVE RatesInv'
  OBVIOUS
<1>0. LoopTypes /\ FetchTypes /\ QuietInv
  BY DEF DriverInv, LoopInv, WindowInv
<1>1. CASE UNCHANGED platform
  BY <1>0, <1>1, LoopKeepsRates
<1>2. CASE LoadHistory \/ RunRelational \/ RunFeeds
  BY <1>0, <1>2, StartsKeepRates
<1>3. CASE \/ \E dag \in Relational, d \in Days : EndRelational(dag, d)
           \/ \E d \in Days : EndSettlement(d)
  <2>1. /\ UNCHANGED <<loop, rates, watermark, fetching>>
        /\ \A e \in 0 .. Last : run'["fx", e] = run["fx", e] /\ batches'["fx", e] = batches["fx", e]
    BY <1>0, <1>3, OtherRunsChange
  <2>2. DoneDays' = DoneDays /\ \A e \in 0 .. Last : Active("fx", e)' => Active("fx", e)
    BY <2>1 DEF DoneDays, Active
  <2> QED BY <2>1, <2>2 DEF RatesInv, FetchingInv, OwedInv, RatesWhole, DatesToFetch
<1>4. CASE \/ \E d \in 0 .. Last : FxOpen(d)
           \/ FxAnswer \/ FxRetry \/ FxGiveUp
  <2>1. UNCHANGED <<run, batches, rates, watermark, loop>>
    BY <1>4 DEF FxOpen, FxAnswer, FxRetry, FxGiveUp
  <2>2. OwedInv' /\ RatesWhole'
    BY <2>1 DEF RatesInv, OwedInv, RatesWhole, DoneDays, Active
  <2> QED BY <1>0, <1>4, <2>2, FetchingStep DEF RatesInv
<1>5. CASE FxEnd \/ FxDies
  BY <1>0, <1>5, FxEndKeepsRates, FxDiesKeepsRates
<1> QED BY <1>0, <1>1, <1>2, <1>3, <1>4, <1>5, OthersChange DEF Next, Loop, Runs

(* The inductive invariant of the FX feed: what a run that goes on has got  *)
(* and still asks for is all that was published of its dates.               *)
THEOREM RatesInvariant == Spec => []RatesInv
<1>1. Init => RatesInv
  <2> SUFFICES ASSUME Init PROVE RatesInv
    OBVIOUS
  <2>1. DoneDays = {} /\ \A e \in 0 .. Last : ~ Active("fx", e)
    BY DEF Init, DoneDays, Active, DAGs, Feeds
  <2> QED BY <2>1 DEF Init, RatesInv, FetchingInv, OwedInv, RatesWhole, NotFetching
<1> QED BY <1>1, RatesStep, DriverInvariant, WindowInvariant, PTL DEF Spec

(* Every rate published from the first daily run to the watermark is        *)
(* landed and the history is whole, whatever runs failed, died, were passed *)
(* over or were started again (fx.fetch_dates).                             *)
THEOREM RatesAreWholeCorrect == Spec => []RatesAreWhole
<1>1. RatesInv => RatesAreWhole
  BY DEF RatesInv, RatesWhole, RatesAreWhole, DoneDays, HistoryEnd
<1> QED BY <1>1, RatesInvariant, PTL
=============================================================================
