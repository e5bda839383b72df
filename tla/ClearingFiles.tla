---------------------------- MODULE ClearingFiles ----------------------------
(***************************************************************************)
(* The card processor of the simulation and what the platform makes of its *)
(* files.  Every settlement date has a file, sent that day or late; some   *)
(* carry a break and are corrected, one is cut off, sent again and retried, *)
(* and the layout of a file is that of the day it is produced.  What the   *)
(* seed draws for a date is drawn once.  A file has one network and one    *)
(* currency; its records are amounts.  How the platform allocates batches  *)
(* for what it finds is FeedDelivery's.                                    *)
(***************************************************************************)
EXTENDS Integers, Sequences, FiniteSets

CONSTANTS
  Items,      \* the amounts the ledger posted to be settled, of each settlement date from 0
  LateBy,     \* days a late file is late
  CorrectionLag,  \* days between a file and its correction
  HeldLate, OnArrival, Cut,  \* the scripted dates: late, corrected on arrival, cut off
  Added, Removed,  \* the days on which the layout gains a field and loses one
  WarnBand, ErrorBand,  \* a break's size, in ten-thousandths of its file's total, from and to
  Room,       \* the relative threshold is one part in so many of the file total
  Absolute    \* the absolute threshold

Dates == DOMAIN Items

(* The settings of a profile.  The bands lie apart from the threshold, so   *)
(* that a break meant as an error is one whichever way it goes.             *)
Settings ==
  /\ Dates \subseteq Nat /\ Dates = 0 .. Cardinality(Dates) - 1
  /\ \A s \in Dates : Items[s] \in Seq(Int)
  /\ {LateBy, CorrectionLag, HeldLate, OnArrival, Cut, Added, Removed, Room, Absolute} \subseteq Nat
  /\ {WarnBand[1], WarnBand[2], ErrorBand[1], ErrorBand[2]} \subseteq Nat
  /\ WarnBand[2] * Room < 10000 /\ (Room - 1) * ErrorBand[1] >= 15000

(* The scripts are laid out for a seed that does not draw the date they cut *)
(* off as late.                                                             *)
Scripts == Cut \in Dates /\ Cut # HeldLate

ASSUME ClearingAssumption == Settings /\ Scripts

VARIABLES
  day,        \* the day of the processor
  sent,       \* it has sent what is due that day
  drawn,      \* what the seed draws for a settlement date
  bucket,     \* the inbound bucket: the file under a key, and the day it was put there
  read,       \* the keys the platform has read
  landed,     \* the files that landed
  parked,     \* the files refused, with the reason
  published   \* a contract without the removed field was published

processorVars == <<day, sent, drawn, bucket, read, landed, parked, published>>

Abs(n) == IF n < 0 THEN - n ELSE n
Total(amounts) ==
  LET sum[n \in 0 .. Len(amounts)] == IF n = 0 THEN 0 ELSE sum[n - 1] + amounts[n]
  IN  sum[Len(amounts)]
Ledger(s) == Total(Items[s])
-----------------------------------------------------------------------------
(***************************************************************************)
(* A file.                                                                 *)
(***************************************************************************)
(* The severity of a difference. *)
Severity(file, ledger) ==
  LET difference == Abs(file - ledger)
  IN  CASE difference = 0 -> "none"
        [] difference # 0 /\ difference * Room < Abs(file) /\ difference < Absolute -> "warn"
        [] OTHER -> "error"

(* _break_delta: whole amounts of the band, none if the total has no room.  *)
Deltas(total, kind) ==
  LET band == IF kind = "warn" THEN WarnBand ELSE ErrorBand
      Rounded(part) == (2 * Abs(total) * part + 10000) \div 20000
      sizes == (Rounded(band[1]) .. Rounded(band[2])) \ {0}
  IN  IF kind = "error" THEN sizes
      ELSE IF 10000 > Abs(total) * band[2] THEN {}
      ELSE {d \in sizes : d * Room < Abs(total) /\ d < Absolute}

(* The threshold is asked of the ledger's total, and severity asks it of    *)
(* the file's: a warning stays one when it is taken off the total.          *)
WarningsStayWarnings ==
  \A s \in Dates : \A d \in Deltas(Ledger(s), "warn") : d * (Room + 1) < Abs(Ledger(s))

NoBreak == [kind |-> "none", item |-> 0, delta |-> 0]
Breaks(s) ==
  {NoBreak} \cup
  UNION {{[kind |-> kind, item |-> i, delta |-> sign * d] :
            i \in DOMAIN Items[s], d \in Deltas(Ledger(s), kind), sign \in {1, -1}} : kind \in {"warn", "error"}}

(* The records transit may damage. *)
MayBeDamaged(s, break) == DOMAIN Items[s] \ {break.item}

(* The corrections a file may have, each with a damage of its own; only one *)
(* with a break is corrected.                                               *)
CorrectionsOf(break) ==
  {[sent |-> FALSE, damaged |-> {}]} \cup
  IF break = NoBreak THEN {} ELSE {[sent |-> TRUE, damaged |-> d] : d \in {{}, {1}}}

(* What the seed draws for a settlement date. *)
Drawings(s) ==
  {drawing \in [late : IF s \in {Cut, HeldLate} THEN {FALSE} ELSE BOOLEAN, break : Breaks(s),
                damaged : {{}} \cup {{i} : i \in DOMAIN Items[s]},
                correction : [sent : BOOLEAN, damaged : {{}, {1}}]] :
     /\ drawing.damaged \subseteq MayBeDamaged(s, drawing.break)
     /\ drawing.correction \in CorrectionsOf(drawing.break)}

IsLate(s) == drawn[s].late \/ s = HeldLate

(* The fields of a file produced on a day. *)
Columns(on) ==
  ({"amount", "merchant_name"} \cup (IF on >= Added THEN {"acquirer_reference_number"} ELSE {}))
    \ (IF on >= Removed THEN {"merchant_name"} ELSE {})

(* Mutant of Trailer: over the records that were not damaged.               *)
TrailerOfWhole(amounts, damaged) ==
  Total([i \in DOMAIN amounts |-> IF i \in damaged THEN 0 ELSE amounts[i]])

(* The trailer is totalled before the transmission damages a record. *)
Trailer(amounts, damaged) == Total(amounts)

(* build: a break before the trailer and in no correction, damage after it. *)
File(s, revision, on) ==
  LET break == IF revision > 1 THEN NoBreak ELSE drawn[s].break
      amounts == [i \in DOMAIN Items[s] |-> Items[s][i] + IF i = break.item THEN break.delta ELSE 0]
      damaged == IF revision > 1 THEN drawn[s].correction.damaged ELSE drawn[s].damaged
  IN  [date |-> s, revision |-> revision, created |-> on, columns |-> Columns(on), amounts |-> amounts,
       damaged |-> damaged, total |-> Trailer(amounts, damaged), whole |-> TRUE]
-----------------------------------------------------------------------------
(***************************************************************************)
(* What is sent on a day.                                                  *)
(***************************************************************************)
DueOn(on) ==
  {s \in Dates : (s = on /\ ~ IsLate(s)) \/ (s = on - LateBy /\ s >= 0 /\ IsLate(s))}

Corrections(on) ==
  {s \in DueOn(on - CorrectionLag) : s # OnArrival /\ drawn[s].correction.sent /\ drawn[s].break # NoBreak}
  \cup (DueOn(on) \cap {OnArrival})

Delivery(s, revision, transmission) == [date |-> s, revision |-> revision, transmission |-> transmission]

Plan(on) ==
  {Delivery(s, 1, IF s = Cut /\ on = Cut THEN "cut_off" ELSE "complete") : s \in DueOn(on)}
  \cup {Delivery(s, 2, "complete") : s \in Corrections(on)}
  \cup (IF on = Cut + 1 THEN {Delivery(Cut, 1, "resend")} ELSE {})
  \cup (IF on = Cut + 2 THEN {Delivery(Cut, 1, "retry")} ELSE {})

(* Mutant of ProducedOn: a retry is made anew.                              *)
ProducedOnDelivery(delivery, on) ==
  IF delivery.transmission = "resend" THEN delivery.date ELSE on

(* A transmission sent again is the file of the day it was first produced. *)
ProducedOn(delivery, on) == IF delivery.transmission = "complete" THEN on ELSE delivery.date

Sent(delivery, on) ==
  LET file == File(delivery.date, delivery.revision, ProducedOn(delivery, on))
  IN  [file EXCEPT !.whole = delivery.transmission \notin {"cut_off", "retry"}]

Key(delivery) ==
  <<delivery.date, delivery.revision,
    IF delivery.transmission \in {"resend", "retry"} THEN delivery.transmission ELSE "">>

(* The seed draws for a settlement date, here once that day comes.          *)
Draw ==
  /\ day \in Dates \ DOMAIN drawn
  /\ \E drawing \in Drawings(day) : drawn' = [s \in DOMAIN drawn \cup {day} |-> IF s = day THEN drawing ELSE drawn[s]]
  /\ UNCHANGED <<day, sent, bucket, read, landed, parked, published>>

Deliver ==
  /\ ~ sent /\ sent' = TRUE
  /\ day \in Dates => day \in DOMAIN drawn
  /\ LET keys == {Key(d) : d \in Plan(day)}
     IN  bucket' = [k \in keys \cup DOMAIN bucket |->
                      IF k \in keys THEN [file |-> Sent(CHOOSE d \in Plan(day) : Key(d) = k, day), on |-> day]
                      ELSE bucket[k]]
  /\ UNCHANGED <<day, drawn, read, landed, parked, published>>
-----------------------------------------------------------------------------
(***************************************************************************)
(* What the platform reads.                                                *)
(***************************************************************************)
(* Mutant of Expected: by the date the file settles.                        *)
ExpectedAtSettlement(file, on) ==
  {"amount"} \cup IF published /\ file.date >= Removed THEN {} ELSE {"merchant_name"}

(* The fields of the contract in force on the day of the delivery. *)
Expected(file, on) ==
  {"amount"} \cup IF published /\ on >= Removed THEN {} ELSE {"merchant_name"}

SameDeclaration(file, other) == file.date = other.date /\ file.revision = other.revision

(* A fault no contract changes comes first. *)
Verdict(file, on) ==
  CASE ~ file.whole -> "malformed"
    [] file.whole /\ ~ Expected(file, on) \subseteq file.columns -> "layout"
    [] file.whole /\ Expected(file, on) \subseteq file.columns /\ (\E f \in landed : SameDeclaration(f, file)) -> "conflict"
    [] OTHER -> "landed"

Known(file) == file \in landed \cup {p.file : p \in parked}

Take(file, on) ==
  IF Verdict(file, on) = "landed" THEN landed' = landed \cup {file} /\ UNCHANGED parked
  ELSE UNCHANGED landed /\ parked' = parked \cup {[file |-> file, on |-> on, reason |-> Verdict(file, on)]}

(* A new file; a copy of a known one, parked or not, is only seen.          *)
Read(k) ==
  /\ k \in DOMAIN bucket \ read /\ read' = read \cup {k}
  /\ IF Known(bucket[k].file) THEN UNCHANGED <<landed, parked>> ELSE Take(bucket[k].file, bucket[k].on)
  /\ UNCHANGED <<day, sent, drawn, bucket, published>>

(* A person publishes the contract the new layout needs. *)
Publish ==
  /\ ~ published /\ \E p \in parked : p.reason = "layout"
  /\ published' = TRUE
  /\ UNCHANGED <<day, sent, drawn, bucket, read, landed, parked>>

(* What is parked is attempted once more on the day after a change, by the  *)
(* contract then in force; it has the day it is found on.                   *)
Reattempt(p) ==
  /\ published /\ p \in parked /\ p.reason = "layout"
  /\ Verdict(p.file, p.on) = "landed"
  /\ landed' = landed \cup {p.file} /\ parked' = parked \ {p}
  /\ UNCHANGED <<day, sent, drawn, bucket, read, published>>

(* The loop goes on once the day is read and nothing waits for a contract.  *)
DayEnds ==
  /\ sent /\ read = DOMAIN bucket /\ \A p \in parked : p.reason # "layout"
  /\ day < Cardinality(Dates) + LateBy + CorrectionLag
  /\ day' = day + 1 /\ sent' = FALSE
  /\ UNCHANGED <<drawn, bucket, read, landed, parked, published>>
-----------------------------------------------------------------------------
ProcessorInit ==
  /\ day = 0 /\ sent = FALSE /\ drawn = <<>> /\ bucket = <<>>
  /\ read = {} /\ landed = {} /\ parked = {} /\ published = FALSE

ProcessorNext ==
  \/ Draw \/ Deliver \/ DayEnds \/ Publish
  \/ \E k \in DOMAIN bucket : Read(k)
  \/ \E p \in parked : Reattempt(p)

Fairness ==
  /\ WF_processorVars(Draw) /\ WF_processorVars(Deliver) /\ WF_processorVars(DayEnds) /\ WF_processorVars(Publish)
  /\ WF_processorVars(\E k \in DOMAIN bucket : Read(k)) /\ WF_processorVars(\E p \in parked : Reattempt(p))
ProcessorSpec == ProcessorInit /\ [][ProcessorNext]_processorVars
FairSpec == ProcessorSpec /\ Fairness
-----------------------------------------------------------------------------
(***************************************************************************)
(* Properties.                                                             *)
(***************************************************************************)
(* The file that counts for a date: its highest revision that landed.       *)
Counted(s) ==
  LET files == {f \in landed : f.date = s}
  IN  CHOOSE f \in files : \A g \in files : g.revision =< f.revision
HasLanded(s) == \E f \in landed : f.date = s

(* The only breaks are those the processor made: the counted total is off   *)
(* the ledger by the break of a file not corrected, with the severity meant *)
(* for it, and by nothing for a date that was corrected.                    *)
BreaksAreTheProcessors ==
  \A s \in {d \in DOMAIN drawn : HasLanded(d)} :
    LET file == Counted(s)
        break == IF file.revision > 1 THEN NoBreak ELSE drawn[s].break
    IN  /\ file.total - Ledger(s) = break.delta
        /\ Severity(file.total, Ledger(s)) = break.kind

(* What came twice is one file: of a date there is one malformed file, and  *)
(* none is refused for declaring what another file has landed.              *)
CopiesAreRecognised ==
  /\ \A p, q \in parked : p.reason = "malformed" /\ q.reason = "malformed" /\ p.file.date = q.file.date => p.file = q.file
  /\ \A p \in parked : p.reason # "conflict"

(* Every date's file arrives once the days it may be late are over, late    *)
(* and cut off ones and those in a new layout included.                     *)
EveryDateArrives == <>(\A s \in Dates : HasLanded(s))
=============================================================================
