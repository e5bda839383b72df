------------------------------ MODULE DailyLoop ------------------------------
(***************************************************************************)
(* The backfill driver over the platform it drives: for each day of a      *)
(* window it ticks the source, runs the two relational ingestions and then *)
(* the feeds, and at the end builds bronze, which triggers silver.  Runs   *)
(* are Airflow's and go on when the loop dies; where to resume comes from  *)
(* the registry, the state of the source and one Airflow Variable.  The    *)
(* FX feed is modelled request by request; of the relational ingestions    *)
(* and of the clearing files only the outcome is kept.  Day 1 is the       *)
(* anchor of the source.  One loop runs at a time.                         *)
(***************************************************************************)
EXTENDS Integers, FiniteSets, FiniteSetsExt

CONSTANTS
  Last,          \* the last day of any window
  First,         \* the first day of the FX history, before the anchor
  Published,     \* the days the central bank published rates for
  MaxAttempts,   \* requests made for one answer
  Ends,          \* how a relational run may end, out of RelationalEnds
  Invocations,   \* bound: times the operator starts the loop
  Interventions, \* bound: ticks by hand and pauses changed by hand
  Faults         \* bound: kills, runs, builds and requests that fail

Relational == {"reference", "core"}
Feeds == {"settlement", "fx"}
DAGs == Relational \cup Feeds
Days == 1 .. Last
HistoryEnd == 0
(* Registered; with a failed batch; over before any batch failed, be it    *)
(* that none was allocated or that some were left open.                     *)
RelationalEnds == {"registered", "failed", "nothing"}

ASSUME LoopAssumption ==
  /\ Last \in Nat \ {0} /\ First \in Int /\ First =< HistoryEnd
  /\ Published \subseteq First - 1 .. Last
  /\ MaxAttempts \in Nat \ {0}
  /\ Ends \subseteq RelationalEnds

VARIABLES
  sim,       \* the simulated date of the source
  run,       \* the Airflow run of a DAG for a day: "none", "running", "success" or "failed"
  batches,   \* what the registry holds of that run
  readAt,    \* the date the source was at when a relational run registered, 0 for never
  rates,     \* the days whose rates are landed
  watermark, \* the last date the daily FX runs requested, First - 1 for none
  fetching,  \* the FX run's task
  paused,    \* whether transform_bronze is paused
  record,    \* the Variable with the pause state before the loop, or nothing
  wanted,    \* the pause state the operator last chose
  bronze,    \* transform_bronze: its builds, and the registrations bronze holds
  silver,    \* transform_silver likewise
  loop,      \* the driver
  bounds     \* what is left of Invocations, Interventions and Faults

platform == <<run, batches, readAt, rates, watermark, fetching>>
transforms == <<bronze, silver>>
holds == <<paused, record, wanted>>
vars == <<sim, platform, transforms, holds, loop, bounds>>

NoRates == First - 1
Use(b) == bounds[b] > 0 /\ bounds' = [bounds EXCEPT ![b] = @ - 1]
Goes(from, to) == loop.at = from /\ loop' = [loop EXCEPT !.at = to]
(* Any SystemExit or halt inside the try: the pause is restored.            *)
Stops == loop' = [loop EXCEPT !.at = "unpausing", !.code = 1]
-----------------------------------------------------------------------------
(***************************************************************************)
(* The runs.                                                               *)
(***************************************************************************)
Active(dag, d) == run[dag, d] = "running"
Idle == \A dag \in DAGs, d \in 0 .. Last : ~ Active(dag, d)

(* start_run and trigger_and_wait: trigger, or clear the one that exists.   *)
Started(S, d) == [x \in DOMAIN run |-> IF x[2] = d /\ x[1] \in S THEN "running" ELSE run[x]]

(* A registration queues a build of an unpaused DAG, and of a paused one    *)
(* nothing.                                                                 *)
Registration == bronze' = [bronze EXCEPT !.queued = @ \/ ~ paused]
Registered == {x \in DOMAIN batches : batches[x] = "registered"}

Finished(dag, d, held) ==
  /\ run' = [run EXCEPT ![<<dag, d>>] = IF held = "registered" THEN "success" ELSE "failed"]
  /\ batches' = [batches EXCEPT ![<<dag, d>>] = held]

EndRelational(dag, d) ==
  /\ dag \in Relational /\ Active(dag, d)
  /\ \E held \in Ends :
       /\ IF held = "registered" THEN UNCHANGED bounds ELSE Use("faults")
       /\ Finished(dag, d, held)
       /\ IF held = "registered"
          THEN Registration /\ readAt' = [readAt EXCEPT ![<<dag, d>>] = sim]
          ELSE UNCHANGED <<bronze, readAt>>
  /\ UNCHANGED <<sim, rates, watermark, fetching, silver, holds, loop>>

(* A clearing file lands, is parked for its sender or for a person, or its  *)
(* run ends before any batch.                                               *)
EndSettlement(d) ==
  /\ Active("settlement", d)
  /\ \E held \in {"registered", "parked", "failed", "nothing"} :
       /\ IF held = "registered" THEN UNCHANGED bounds ELSE Use("faults")
       /\ Finished("settlement", d, held)
       /\ IF held = "registered" THEN Registration ELSE UNCHANGED bronze
  /\ UNCHANGED <<sim, readAt, rates, watermark, fetching, silver, holds, loop>>

NotFetching == [day |-> -1, left |-> {}, got |-> {}, failed |-> FALSE, attempt |-> 1]

(* Mutant of DatesToFetch: the run's own date, whatever was missed.         *)
DatesToFetchOwn(d) == {d}

(* The dates of a daily run: those after the last one requested. *)
DatesToFetch(d) == IF watermark \in {NoRates} \cup d .. Last THEN {d} ELSE watermark + 1 .. d

(* fx_open, one run at a time.  The run of the day before the anchor is the *)
(* history's, which is one request.                                         *)
FxOpen(d) ==
  /\ Active("fx", d) /\ fetching = NotFetching
  /\ fetching' = [NotFetching EXCEPT !.day = d,
                    !.left = IF d = HistoryEnd THEN {d} ELSE DatesToFetch(d)]
  /\ UNCHANGED <<sim, run, batches, readAt, rates, watermark, transforms, holds, loop, bounds>>

(* The rates of the date that was asked for, none if it is not published.   *)
DateAnswer(d) == Published \cap {d}

(* The history: all of its own, snapped back to the publication before it.  *)
FirstReturned == First - (IF First \in Published THEN 0 ELSE 1)
HistoryAnswer == Published \cap (FirstReturned .. HistoryEnd)

Answer(d) == IF d = HistoryEnd THEN HistoryAnswer ELSE DateAnswer(d)

(* One GET: an answer, a status that is retried, or a refusal that is not.  *)
FxAnswer ==
  /\ fetching.left # {}
  /\ LET d == Min(fetching.left)
     IN  fetching' = [fetching EXCEPT !.left = @ \ {d}, !.got = @ \cup Answer(d), !.attempt = 1]
  /\ UNCHANGED <<sim, run, batches, readAt, rates, watermark, transforms, holds, loop, bounds>>

FxRetry ==
  /\ fetching.left # {} /\ fetching.attempt < MaxAttempts
  /\ fetching' = [fetching EXCEPT !.attempt = @ + 1]
  /\ UNCHANGED <<sim, run, batches, readAt, rates, watermark, transforms, holds, loop, bounds>>

(* A request that failed is passed over; the others are still made. *)
FxGiveUp ==
  /\ fetching.left # {} /\ Use("faults")
  /\ fetching' = [fetching EXCEPT !.left = @ \ {Min(@)}, !.failed = TRUE, !.attempt = 1]
  /\ UNCHANGED <<sim, run, batches, readAt, rates, watermark, transforms, holds, loop>>

(* fetch_dates: an interval that failed anywhere lands nothing. *)
Landed == IF fetching.failed THEN {} ELSE fetching.got

(* The batch fails or registers; only a daily run moves the watermark. *)
FxEnd ==
  LET d == fetching.day
  IN  /\ d >= 0 /\ fetching.left = {}
      /\ Finished("fx", d, IF fetching.failed THEN "failed" ELSE "registered")
      /\ rates' = rates \cup Landed
      /\ watermark' = IF fetching.failed \/ d = HistoryEnd THEN watermark ELSE d
      /\ IF fetching.failed THEN UNCHANGED bronze ELSE Registration
      /\ fetching' = NotFetching
      /\ UNCHANGED <<sim, readAt, silver, holds, loop, bounds>>

(* The task dies, its batch left open. *)
FxDies ==
  /\ fetching.day >= 0 /\ Use("faults")
  /\ Finished("fx", fetching.day, "nothing")
  /\ fetching' = NotFetching
  /\ UNCHANGED <<sim, readAt, rates, watermark, transforms, holds, loop>>
-----------------------------------------------------------------------------
(***************************************************************************)
(* The builds, one at a time: they share the warehouse.  A build takes in  *)
(* what there is when it starts; a bronze that succeeds triggers silver.   *)
(***************************************************************************)
NoneRunning == ~ bronze.running /\ ~ silver.running
Begun(b, content) == [b EXCEPT !.queued = FALSE, !.running = TRUE, !.next = content]
Succeeded(b) == [b EXCEPT !.running = FALSE, !.last = "success", !.holds = b.next, !.next = {}]
Failed(b) == [b EXCEPT !.running = FALSE, !.last = "failed", !.next = {}]

StartBronze ==
  /\ bronze.queued /\ ~ paused /\ NoneRunning
  /\ bronze' = Begun(bronze, Registered)
  /\ UNCHANGED <<sim, platform, silver, holds, loop, bounds>>

EndBronze ==
  /\ bronze.running
  /\ \/ /\ bronze' = Succeeded(bronze) /\ silver' = [silver EXCEPT !.queued = TRUE]
        /\ UNCHANGED bounds
     \/ Use("faults") /\ bronze' = Failed(bronze) /\ UNCHANGED silver
  /\ UNCHANGED <<sim, platform, holds, loop>>

StartSilver ==
  /\ silver.queued /\ NoneRunning
  /\ silver' = Begun(silver, bronze.holds)
  /\ UNCHANGED <<sim, platform, bronze, holds, loop, bounds>>

EndSilver ==
  /\ silver.running
  /\ \/ silver' = Succeeded(silver) /\ UNCHANGED bounds
     \/ Use("faults") /\ silver' = Failed(silver)
  /\ UNCHANGED <<sim, platform, bronze, holds, loop>>
-----------------------------------------------------------------------------
(***************************************************************************)
(* The loop takes and gives back the hold of transform_bronze.             *)
(***************************************************************************)
(* A window that leaves out a day is taken to start with no run of it still *)
(* going: the loop only waits for the runs of the days it works on.         *)
Invoke ==
  /\ loop.at = "idle" /\ Use("invocations")
  /\ \E from, to \in Days :
       /\ from =< to
       /\ \A dag \in DAGs, d \in 1 .. from - 1 : ~ Active(dag, d)
       /\ loop' = [at |-> "recording", from |-> from, day |-> from, to |-> to, prior |-> FALSE, todo |-> {},
                   feeds |-> {}, code |-> 0]
  /\ UNCHANGED <<sim, platform, transforms, holds>>

(* Mutant of Prior: the pause found is taken for the operator's.            *)
PriorFound == paused

(* The pause state to restore: the one an earlier loop recorded and did not *)
(* restore, else the present one.                                           *)
Prior == IF record # {} THEN CHOOSE p \in record : TRUE ELSE paused

RecordPause ==
  /\ loop.at = "recording"
  /\ loop' = [loop EXCEPT !.at = "pausing", !.prior = Prior]
  /\ record' = {Prior}
  /\ UNCHANGED <<sim, platform, transforms, paused, wanted, bounds>>

Pause ==
  /\ Goes("pausing", "history")
  /\ paused' = (paused \/ ~ loop.prior)
  /\ UNCHANGED <<sim, platform, transforms, record, wanted, bounds>>

Unpause ==
  /\ Goes("unpausing", "forgetting")
  /\ paused' = loop.prior
  /\ UNCHANGED <<sim, platform, transforms, record, wanted, bounds>>

(* Then, for a window that went through with the DAG unpaused, one build. *)
ForgetRecord ==
  /\ Goes("forgetting", IF loop.code = 0 /\ ~ loop.prior THEN "building" ELSE "idle")
  /\ record' = {}
  /\ UNCHANGED <<sim, platform, transforms, paused, wanted, bounds>>

BuildOnce ==
  /\ Goes("building", "settling")
  /\ bronze' = [bronze EXCEPT !.queued = TRUE]
  /\ UNCHANGED <<sim, platform, silver, holds, bounds>>

(* Mutant of Settled: bronze has settled, however its build ended.          *)
SettledAnyhow == NoneRunning /\ ~ bronze.queued /\ ~ silver.queued

Settled ==
  /\ NoneRunning /\ ~ bronze.queued /\ ~ silver.queued
  /\ bronze.last = "success" /\ silver.last = "success"

ReportWindow ==
  /\ Settled /\ Goes("settling", "reported")
  /\ UNCHANGED <<sim, platform, transforms, holds, bounds>>

(* The last build failed, or none was seen to end in time. *)
ReportFailure ==
  /\ Goes("settling", "idle")
  /\ UNCHANGED <<sim, platform, transforms, holds, bounds>>

Return ==
  /\ Goes("reported", "idle")
  /\ UNCHANGED <<sim, platform, transforms, holds, bounds>>
-----------------------------------------------------------------------------
(***************************************************************************)
(* The days.                                                               *)
(***************************************************************************)
(* judge_feed: complete when it landed or waits for its sender.             *)
FeedComplete(dag, d) == batches[dag, d] \in {"registered", "parked"}
Complete(d) == \A dag \in Relational : batches[dag, d] = "registered"

(* load_fx_history, once for all invocations; a run of it still going is    *)
(* cleared, and starts over.                                                *)
LoadHistory ==
  /\ loop.at = "history"
  /\ IF batches["fx", HistoryEnd] = "registered"
     THEN loop' = [loop EXCEPT !.at = "day"] /\ UNCHANGED <<run, fetching>>
     ELSE /\ loop' = [loop EXCEPT !.at = "loading"]
          /\ run' = Started({"fx"}, HistoryEnd)
          /\ fetching' = IF fetching.day = HistoryEnd THEN NotFetching ELSE fetching
  /\ UNCHANGED <<sim, batches, readAt, rates, watermark, transforms, holds, bounds>>

HistoryLoaded ==
  /\ loop.at = "loading" /\ ~ Active("fx", HistoryEnd)
  /\ IF FeedComplete("fx", HistoryEnd) THEN loop' = [loop EXCEPT !.at = "day"] ELSE Stops
  /\ UNCHANGED <<sim, platform, transforms, holds, bounds>>

Pending(S, d) == {dag \in S : IF dag \in Feeds THEN ~ FeedComplete(dag, d)
                              ELSE batches[dag, d] # "registered"}

(* Mutant of MayProceed: only a source behind the day is a refusal.         *)
MayProceedPast(d, pending) == sim >= d

(* A day the source is at, or one it has passed with only feeds to run. *)
MayProceed(d, pending) == sim = d \/ (sim > d /\ pending = {})

(* The window is over: no day left, or all of it was complete. *)
EndDays ==
  /\ loop.at = "day" /\ loop.day > loop.to
  /\ loop' = [loop EXCEPT !.at = "unpausing"]
  /\ UNCHANGED <<sim, platform, transforms, holds, bounds>>

(* Runs an earlier loop left going are waited for; then the registry says   *)
(* what the day still owes, and the source whether it may be worked on.     *)
BeginDay ==
  LET d == loop.day
      relational == Pending(Relational, d)
      feeds == Pending(Feeds, d)
      Work(at) == [loop EXCEPT !.at = at, !.todo = relational, !.feeds = feeds]
  IN  /\ loop.at = "day" /\ d =< loop.to
      /\ \A dag \in DAGs : ~ Active(dag, d)
      /\ CASE relational \cup feeds = {} -> loop' = [loop EXCEPT !.day = @ + 1]
           [] relational \cup feeds # {} /\ sim = d - 1 /\ d > 1 ->
                IF relational = {} THEN Stops ELSE loop' = Work("ticking")
           [] OTHER -> IF MayProceed(d, relational) THEN loop' = Work("relational") ELSE Stops
      /\ UNCHANGED <<sim, platform, transforms, holds, bounds>>

(* The tick of the day, which may fail, also after its commit: when its log *)
(* and its window disagree.                                                 *)
TickDay ==
  /\ loop.at = "ticking"
  /\ \/ /\ Goes("ticking", "relational")
        /\ sim' = loop.day
        /\ UNCHANGED bounds
     \/ Use("faults") /\ Stops /\ sim' \in {sim, loop.day}
  /\ UNCHANGED <<platform, transforms, holds>>

(* Reference data before core banking. *)
NextToRun == IF "reference" \in loop.todo THEN "reference" ELSE "core"

(* One after the other, each waited for. *)
RunRelational ==
  /\ loop.at = "relational" /\ loop.todo # {}
  /\ \A dag \in Relational : ~ Active(dag, loop.day)
  /\ run' = Started({NextToRun}, loop.day)
  /\ loop' = [loop EXCEPT !.todo = @ \ {NextToRun}]
  /\ UNCHANGED <<sim, batches, readAt, rates, watermark, fetching, transforms, holds, bounds>>

(* Then the registry is read again, for batches that failed: those only. *)
RunFeeds ==
  /\ loop.at = "relational" /\ loop.todo = {}
  /\ \A dag \in Relational : ~ Active(dag, loop.day)
  /\ IF \E dag \in Relational : batches[dag, loop.day] = "failed"
     THEN Stops /\ UNCHANGED run
     ELSE /\ run' = Started(loop.feeds, loop.day)
          /\ loop' = [loop EXCEPT !.at = "feeds"]
  /\ UNCHANGED <<sim, batches, readAt, rates, watermark, fetching, transforms, holds, bounds>>

EndDay ==
  /\ loop.at = "feeds" /\ \A dag \in loop.feeds : ~ Active(dag, loop.day)
  /\ IF \A dag \in loop.feeds : FeedComplete(dag, loop.day)
     THEN loop' = [loop EXCEPT !.at = "day", !.day = @ + 1]
     ELSE Stops
  /\ UNCHANGED <<sim, platform, transforms, holds, bounds>>

(* RUN_TIMEOUT_SECONDS: the loop gives up on a run, which goes on.          *)
WaitTimesOut ==
  /\ loop.at \in {"loading", "relational", "feeds", "day"} /\ ~ Idle /\ Use("faults")
  /\ Stops
  /\ UNCHANGED <<sim, platform, transforms, holds>>

(* The process is killed: no finally, nothing restored. *)
Kill ==
  /\ loop.at # "idle" /\ Use("faults")
  /\ loop' = [loop EXCEPT !.at = "idle"]
  /\ UNCHANGED <<sim, platform, transforms, holds>>
-----------------------------------------------------------------------------
(***************************************************************************)
(* What the operator does beside the loop, with nothing running.           *)
(***************************************************************************)
ChoosePause ==
  /\ loop.at = "idle" /\ record = {} /\ Use("interventions")
  /\ wanted' = ~ wanted /\ paused' = wanted'
  /\ UNCHANGED <<sim, platform, transforms, record, loop>>

TickByHand ==
  /\ loop.at = "idle" /\ Idle /\ sim < Last /\ Use("interventions")
  /\ sim' = sim + 1
  /\ UNCHANGED <<platform, transforms, holds, loop>>
-----------------------------------------------------------------------------
Unbuilt == [queued |-> FALSE, running |-> FALSE, last |-> "success", next |-> {}, holds |-> {}]

Init ==
  /\ sim = 1
  /\ run = [x \in DAGs \X (0 .. Last) |-> "none"]
  /\ batches = [x \in DAGs \X (0 .. Last) |-> "none"]
  /\ readAt = [x \in Relational \X Days |-> 0]
  /\ rates = {} /\ watermark = NoRates /\ fetching = NotFetching
  /\ wanted \in BOOLEAN /\ paused = wanted /\ record = {}
  /\ bronze = Unbuilt /\ silver = Unbuilt
  /\ loop = [at |-> "idle", from |-> 1, day |-> 1, to |-> 1, prior |-> FALSE, todo |-> {}, feeds |-> {},
             code |-> 0]
  /\ bounds = [invocations |-> Invocations, interventions |-> Interventions, faults |-> Faults]

Runs ==
  \/ \E dag \in Relational, d \in Days : EndRelational(dag, d)
  \/ \E d \in Days : EndSettlement(d)
  \/ \E d \in 0 .. Last : FxOpen(d)
  \/ FxAnswer \/ FxRetry \/ FxGiveUp \/ FxEnd \/ FxDies

Builds == StartBronze \/ EndBronze \/ StartSilver \/ EndSilver

Loop ==
  \/ Invoke \/ RecordPause \/ Pause \/ LoadHistory \/ HistoryLoaded
  \/ BeginDay \/ TickDay \/ RunRelational \/ RunFeeds \/ EndDay \/ EndDays
  \/ Unpause \/ ForgetRecord \/ BuildOnce \/ ReportWindow \/ ReportFailure \/ Return
  \/ WaitTimesOut \/ Kill

Next == Runs \/ Builds \/ Loop \/ ChoosePause \/ TickByHand
Spec == Init /\ [][Next]_vars
-----------------------------------------------------------------------------
(***************************************************************************)
(* Properties.                                                             *)
(***************************************************************************)
(* A day of the source is read while the source is at that day and at no    *)
(* other, however the loop was killed, halted and resumed                   *)
(* (backfill.tick_needed).                                                  *)
DayIsReadInTime == \A x \in DOMAIN readAt : readAt[x] \in {0, x[2]}

(* While a loop holds transform_bronze, or was killed holding it, the       *)
(* record is the operator's choice; otherwise the DAG is as the operator    *)
(* left it (backfill.hold_transforms).                                      *)
PauseComesBack ==
  /\ record \subseteq {wanted}
  /\ record = {} => paused = wanted

(* Every rate published from the first daily run to the watermark is        *)
(* landed, and the history is whole; an interval that failed landed none    *)
(* (fx.fetch_dates).                                                        *)
RatesAreWhole ==
  LET done == {d \in 0 .. Last : batches["fx", d] = "registered"}
  IN  /\ \A d \in Published \cap Days :
           d =< watermark /\ (\E e \in done \ {0} : e =< d) => d \in rates
      /\ 0 \in done => Published \cap (First .. HistoryEnd) \subseteq rates
      /\ \A d \in rates : \E e \in done : d =< e

(* A window is reported complete when silver holds all it registered        *)
(* (backfill.main).                                                         *)
WindowIsBuilt ==
  loop.at = "reported" =>
    {x \in Registered : x[2] \in loop.from .. loop.to} \subseteq silver.holds

(* The loop ticks the source to a day only when reference data and core     *)
(* banking are complete for the day before it, a day of its window          *)
(* (backfill.ingest_days).                                                  *)
NeverPastIncomplete ==
  [][loop.at = "ticking" /\ sim' > sim /\ sim >= loop.from => Complete(sim)]_vars
=============================================================================
