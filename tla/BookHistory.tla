----------------------------- MODULE BookHistory -----------------------------
(***************************************************************************)
(* The generator of the book the bank starts from: accounts and cards are  *)
(* opened, loans are lent and their installments paid or not, and then the *)
(* months are walked one after the other.  A month first decides which     *)
(* accounts close, then draws the movements of each account, joins the     *)
(* loans' cash to them, and folds them all into the balances in the order  *)
(* of time.  A draw of a random number is a choice.  One customer holds    *)
(* one account; holders, merchants, agents, sessions and currencies are    *)
(* left out.  Last the book is checked by the invariants of the source.    *)
(***************************************************************************)
EXTENDS Integers, FiniteSets, FiniteSetsExt

CONSTANTS
  N,          \* the number of customers, of one account each
  History,    \* the first day of the history
  Anchor,     \* its last day, the simulated present
  MonthDays,  \* the days of a month, from day 0
  Slots,      \* the instants of a day
  Limits,     \* overdraft limits
  Openings,   \* opening deposits
  Salaries,   \* regular incomes, 0 for none
  Amounts,    \* what a drawn movement may be of
  Principals, \* what may be lent
  Terms,      \* the number of installments of a loan
  Interest,   \* the interest of a month: its first element over its second
  Lags,       \* days between a decision, its loan and a settlement
  EarlyDays,  \* days before it is due an installment is paid in time
  LateDays,   \* days a late installment is late, less than a month
  CureDays,   \* days an installment in arrears takes to be cured
  CoolingOff, \* days an account stays open at least
  Validity,   \* days a card is valid
  BurstLength,\* purchases of a velocity burst
  Delays,     \* instants between a card transaction and the alert it raises
  Draws       \* bound: movements drawn at random, a burst being one

ASSUME BookAssumption ==
  /\ N \in Nat /\ History \in Nat /\ Anchor \in Nat /\ History =< Anchor
  /\ MonthDays \in Nat \ {0} /\ History < MonthDays /\ Slots \in Nat \ {0}
  /\ Limits \cup Openings \cup Salaries \cup Amounts \cup Lags \cup EarlyDays \cup Delays \subseteq Nat
  /\ Amounts # {} /\ Principals \subseteq Nat \ {0} /\ Terms \subseteq Nat \ {0}
  /\ LateDays \subseteq 1 .. MonthDays - 1 /\ CureDays \subseteq Nat \ {0}
  /\ Interest[1] \in Nat /\ Interest[2] \in Nat \ {0} /\ Validity \in Nat \ {0}
  /\ CoolingOff \in Nat /\ BurstLength \in Nat /\ Draws \in Nat

VARIABLES
  at,       \* the pass: "deposits", "lending", "attrition", "drawing", "folding", "done", "checked"
  turn,     \* the account the pass is at
  month,    \* the month the movements are at
  accounts, \* the account book, of those opened
  cards,    \* the card of an account, of those issued
  loans,    \* the loan of an account, of those lent
  events,   \* the movements of the month that wait for the fold
  rows,     \* the transactions and payments written
  ledger,   \* the postings of the general ledger
  alerts,   \* the fraud alerts
  report,   \* the checks of the finished book that failed
  left      \* what is left of Draws

vars == <<at, turn, month, accounts, cards, loans, events, rows, ledger, alerts, report, left>>
book == <<rows, ledger, alerts, report>>

Never == Anchor + 1
AnchorEnd == Slots * Anchor + Slots - 1
At(day, slot) == Slots * day + slot
DayOf(instant) == instant \div Slots
(* Amounts are whole; cents rounds half up.                                 *)
Cents(num, den) == (2 * num + den) \div (2 * den)

(* A book with what is now in it of x. *)
With(f, x, v) == [i \in DOMAIN f \cup {x} |-> IF i = x THEN v ELSE f[i]]

InTurn(pass) == at = pass /\ turn =< N
Passes(pass) == turn' = turn + 1 /\ UNCHANGED <<at, month>>

(* The accounts have had their turn: the next pass begins with the first.   *)
After(pass, next) == at = pass /\ turn > N /\ at' = next /\ turn' = 1
-----------------------------------------------------------------------------
(***************************************************************************)
(* Accounts and cards.                                                     *)
(***************************************************************************)
(* A card is usable until it expires, or was blocked or cancelled.          *)
UsableUntil(issued) ==
  {Min({d, issued + Validity}) : d \in {Never + Validity} \cup
     (IF issued < Anchor THEN issued + 1 .. Anchor ELSE {issued})}

Card(issued, until) == [issued |-> issued, expiry |-> issued + Validity, until |-> until]

(* What would be opened or issued past the anchor is not.                   *)
OpenAccount ==
  /\ InTurn("deposits") /\ Passes("deposits")
  /\ \/ UNCHANGED <<accounts, cards>>
     \/ \E opened \in History .. Anchor, limit \in Limits, deposit \in Openings, salary \in Salaries :
          /\ accounts' = With(accounts, turn,
               [opened |-> opened, closed |-> Never, status |-> "active", limit |-> limit,
                opening |-> deposit, salary |-> salary, balance |-> 0])
          /\ \/ UNCHANGED cards
             \/ \E issued \in {opened + d : d \in Lags} \cap 0 .. Anchor :
               \E until \in UsableUntil(issued) :
                  cards' = With(cards, turn, Card(issued, until))
  /\ UNCHANGED <<loans, events, book, left>>

EndDeposits ==
  /\ After("deposits", "lending")
  /\ UNCHANGED <<month, accounts, cards, loans, events, book, left>>
-----------------------------------------------------------------------------
(***************************************************************************)
(* Lending.                                                                *)
(***************************************************************************)
(* What one unit becomes when it is multiplied by a base month after month. *)
Compounded(base, term) ==
  LET grown[n \in 0 .. term] == IF n = 0 THEN 1 ELSE base * grown[n - 1]
  IN  grown[term]

(* annuity_payment: what a loan costs a month.                              *)
Payment(principal, term) ==
  LET rate == Interest[1]
      whole == Interest[2]
      grown == Compounded(rate + whole, term)
  IN  IF rate = 0 THEN Cents(principal, term)
      ELSE Cents(principal * rate * grown, whole * (grown - Compounded(whole, term)))

(* Mutant of LastPart: the last installment is like the others.             *)
LastPartLevel(open, part) == part

(* The principal of the last installment: all that is open. *)
LastPart(open, part) == open

(* schedule: what each installment repays, what it costs and what stays open. *)
Schedule(principal, term) ==
  LET plan[n \in 0 .. term] ==
        IF n = 0 THEN [open |-> principal, part |-> 0, due |-> 0]
        ELSE LET open == plan[n - 1].open
                 interest == Cents(open * Interest[1], Interest[2])
                 level == Min({Payment(principal, term) - interest, open})
                 part == IF n = term THEN LastPart(open, level) ELSE level
             IN  [open |-> open - part, part |-> part, due |-> part + interest]
  IN  plan

Due(disbursed, n) == disbursed + n * MonthDays

(* The days an installment may be paid on, Never if after the anchor.  From *)
(* the month a loan stops being paid only a cure pays.                      *)
PaidDays(due, stopped) ==
  LET days == IF stopped THEN {Never} \cup {due + d : d \in CureDays}
              ELSE {due - d : d \in EarlyDays} \cup {due + d : d \in LateDays}
  IN  IF due > Anchor THEN {Never} ELSE {Min({d, Never}) : d \in days}

(* One customer's application: refused, left undecided or not drawn down,   *)
(* or lent, no sooner than the account opens.                               *)
Lend ==
  /\ InTurn("lending") /\ Passes("lending")
  /\ \/ UNCHANGED loans
     \/ /\ turn \in DOMAIN accounts
        /\ \E approved \in Principals, applied \in History .. Anchor, decision \in Lags, lag \in Lags, term \in Terms :
             \E stop \in 1 .. term + 1, paid \in [1 .. term -> History .. Never] :
               LET drawn == applied + decision + lag
                   disbursed == Max({drawn, accounts[turn].opened})
               IN  /\ drawn =< Anchor
                   /\ \A n \in 1 .. term : paid[n] \in PaidDays(Due(disbursed, n), n >= stop)
                   /\ loans' = With(loans, turn,
                        [disbursed |-> disbursed, principal |-> approved, term |-> term, paid |-> paid])
  /\ UNCHANGED <<accounts, cards, events, book, left>>

EndLending ==
  /\ After("lending", "attrition")
  /\ UNCHANGED <<month, accounts, cards, loans, events, book, left>>

(* The last day an account has cash of a loan on it. *)
Hold(a) ==
  IF a \in DOMAIN loans
  THEN Max({loans[a].disbursed} \cup ({loans[a].paid[n] : n \in 1 .. loans[a].term} \ {Never}))
  ELSE -1
-----------------------------------------------------------------------------
(***************************************************************************)
(* A month: who closes, and what is drawn.                                 *)
(***************************************************************************)
FirstDay == Max({month * MonthDays, History})
LastDay == Min({(month + 1) * MonthDays - 1, Anchor})

(* Opened by this month, and not closed before it. *)
IsActive(a) ==
  a \in DOMAIN accounts /\ accounts[a].opened \div MonthDays =< month /\ accounts[a].closed >= FirstDay

NextStatus ==
  [active |-> {"active", "dormant", "frozen"}, dormant |-> {"dormant", "active"}, frozen |-> {"frozen"}]

(* Mutant of MayClose: whatever a loan still collects.                      *)
MayCloseEarly(a, day) == day >= accounts[a].opened + CoolingOff

(* Not while a loan collects, and not before the account has cooled off. *)
MayClose(a, day) == day > Hold(a) /\ day >= accounts[a].opened + CoolingOff

(* _month_attrition, of one account. *)
Attrition ==
  /\ InTurn("attrition") /\ Passes("attrition")
  /\ IF IsActive(turn) /\ accounts[turn].closed = Never
     THEN \/ \E status \in NextStatus[accounts[turn].status] :
               accounts' = [accounts EXCEPT ![turn].status = status]
          \/ \E day \in FirstDay .. LastDay :
               MayClose(turn, day) /\ accounts' = [accounts EXCEPT ![turn].status = "closed", ![turn].closed = day]
     ELSE UNCHANGED accounts
  /\ UNCHANGED <<cards, loans, events, book, left>>

EndAttrition ==
  /\ After("attrition", "drawing")
  /\ UNCHANGED <<month, accounts, cards, loans, events, book, left>>

(* A movement of account a: the instant it is folded at and the day it was  *)
(* drawn for, its place among those of its instant, its direction and       *)
(* amount, the status drawn for it, and what it repays of a loan.           *)
Movement(a, instant, day, place, kind, debit, amount, status) ==
  [when |-> instant, day |-> day, account |-> a, place |-> place, kind |-> kind, debit |-> debit,
   amount |-> amount, status |-> status, installment |-> 0, repaid |-> 0]

Usable(a, day) == a \in DOMAIN cards /\ cards[a].issued =< day /\ day < cards[a].until

(* The opening deposit, in the month the account opens. *)
OpeningDeposit(a) ==
  LET of == accounts[a]
  IN  IF of.opened \div MonthDays = month /\ of.opening > 0
      THEN {Movement(a, At(of.opened, Slots - 1), of.opened, 1, "transfer", FALSE, of.opening, "posted")}
      ELSE {}

(* The salary, on the last day of the month. *)
Salary(a, days) ==
  LET payday == (month + 1) * MonthDays - 1
  IN  IF accounts[a].salary > 0 /\ payday \in days
      THEN {Movement(a, At(payday, 0), payday, 3, "transfer", FALSE, accounts[a].salary, "posted")}
      ELSE {}

(* What customers do: with a usable card, or without one. *)
Draw(a, days) ==
  {Movement(a, At(day, slot), day, 2, kind, debit, amount, status) :
     day \in days, slot \in 0 .. Slots - 1, kind \in {"card", "transfer"}, debit \in BOOLEAN,
     amount \in Amounts, status \in {"posted", "pending"}}

(* A subscription on the card, and a fee of the bank. *)
Mandates(a, days) ==
  {Movement(a, At(day, 0), day, 4, "card", TRUE, amount, "posted") : day \in days, amount \in Amounts}
Fees(a, days) ==
  {Movement(a, At(day, 0), day, 6, "fee", TRUE, amount, "posted") : day \in days, amount \in Amounts}

Payments(a, days) ==
  {Movement(a, At(day, slot), day, 7, "payment", debit, amount, status) :
     day \in days, slot \in 0 .. Slots - 1, debit \in BOOLEAN, amount \in Amounts,
     status \in {"initiated", "booked", "settled"}}

OnUsableCard(e) == e.kind = "card" => Usable(e.account, e.day)
Drawable(a, days) ==
  {e \in UNION {Draw(a, days), Mandates(a, days), Fees(a, days), Payments(a, days)} : OnUsableCard(e)}

(* A velocity burst: purchases minutes after its start, perhaps past the    *)
(* day it was drawn for.                                                    *)
Burst(a, start, late) ==
  {Movement(a, start + late[i], DayOf(start), 5 + i, "card", TRUE, Min(Amounts), "posted") : i \in 1 .. BurstLength}

Bursts(a, days) ==
  {Burst(a, start, late) : start \in {i \in At(0, 0) .. AnchorEnd : DayOf(i) \in days /\ Usable(a, DayOf(i))},
                           late \in [1 .. BurstLength -> {0, 1}]}

(* _account_month.  A dormant account has no movements, not even its        *)
(* opening deposit.                                                         *)
DrawMonth ==
  /\ InTurn("drawing") /\ Passes("drawing")
  /\ IF IsActive(turn) /\ accounts[turn].status # "dormant"
     THEN LET days == Max({FirstDay, accounts[turn].opened}) .. Min({LastDay, accounts[turn].closed})
              regular == IF days = {} THEN {} ELSE OpeningDeposit(turn) \cup Salary(turn, days)
          IN  \E drawn \in {{}} \cup {{e} : e \in Drawable(turn, days)} \cup Bursts(turn, days) :
                /\ events' = events \cup regular \cup drawn
                /\ left' = IF drawn = {} THEN left ELSE left - 1
                /\ left' >= 0
     ELSE UNCHANGED <<events, left>>
  /\ UNCHANGED <<accounts, cards, loans, book>>

(* The cash of the loans: the disbursement, a credit, and each installment  *)
(* that is paid, a direct debit.                                            *)
Cash(a, day, debit, amount, installment, repaid) ==
  [Movement(a, At(day, Slots - 1), day, 0, "loan", debit, amount, "posted")
     EXCEPT !.installment = installment, !.repaid = repaid]

LoanCash(a) ==
  LET loan == loans[a]
      plan == Schedule(loan.principal, loan.term)
  IN  {Cash(a, loan.disbursed, FALSE, loan.principal, 0, loan.principal)}
      \cup {Cash(a, loan.paid[n], TRUE, plan[n].due, n, plan[n].part) : n \in {i \in 1 .. loan.term : loan.paid[i] # Never}}

EndDrawing ==
  /\ After("drawing", "folding")
  /\ events' = events \cup {e \in UNION {LoanCash(a) : a \in DOMAIN loans} : e.day \in FirstDay .. LastDay}
  /\ UNCHANGED <<month, accounts, cards, loans, book, left>>
-----------------------------------------------------------------------------
(***************************************************************************)
(* The fold.                                                               *)
(***************************************************************************)
Before(e, f) ==
  \/ e.when < f.when
  \/ e.when = f.when /\ e.account < f.account
  \/ e.when = f.when /\ e.account = f.account /\ e.place =< f.place
Earliest == CHOOSE e \in events : \A f \in events : Before(e, f)

IsPosted(status) == status \in {"posted", "booked", "settled"}
Signed(e) == IF e.debit THEN - e.amount ELSE e.amount

(* Past the overdraft limit. *)
IsDeclined(e) ==
  e.debit /\ accounts[e.account].balance - e.amount < - accounts[e.account].limit

(* Mutant of Contra: all that a loan's installment pays repays the loan.    *)
ContraWhole(e) ==
  CASE e.kind = "fee" -> [fees |-> - e.amount]
    [] e.kind = "loan" -> [loans |-> Signed(e)]
    [] OTHER -> [cash |-> Signed(e)]

(* The legs of a posting: what a customer's deposits lose another account   *)
(* of the ledger gains; a loan's are its principal and its interest.        *)
Contra(e) ==
  CASE e.kind = "fee" -> [fees |-> - e.amount]
    [] e.kind = "loan" /\ e.debit -> [loans |-> - e.repaid, interest |-> e.repaid - e.amount]
    [] e.kind = "loan" /\ ~ e.debit -> [loans |-> e.amount]
    [] OTHER -> [cash |-> Signed(e)]

NotYet == AnchorEnd + 1

Posting(e, source, when) ==
  [source |-> source, account |-> e.account, day |-> DayOf(when), deposits |-> - Signed(e), others |-> Contra(e)]

Write(e, status, booked, settled) ==
  LET id == Cardinality(rows) + 1
  IN  /\ rows' = rows \cup {[id |-> id, account |-> e.account, kind |-> e.kind, day |-> e.day,
                             at |-> e.when, booked |-> booked, settled |-> settled, status |-> status,
                             amount |-> Signed(e), installment |-> e.installment, repaid |-> e.repaid]}
      /\ IF IsPosted(status)
         THEN /\ accounts' = [accounts EXCEPT ![e.account].balance = @ + Signed(e)]
              /\ ledger' = ledger \cup {Posting(e, id, booked)}
         ELSE UNCHANGED <<accounts, ledger>>

Clamped(instant) == Min({instant, AnchorEnd})

(* When an alert may be closed: days later, and never past the anchor.      *)
Dispositions(raised) ==
  {NotYet} \cup {c \in {raised + Slots * lag : lag \in Lags} : c =< AnchorEnd}

(* A card transaction may raise an alert. *)
Consider(e) ==
  \/ UNCHANGED alerts
  \/ /\ e.kind = "card"
     /\ \E delay \in Delays :
          LET raised == Clamped(e.when + delay)
          IN  \E closed \in Dispositions(raised) :
                alerts' = alerts \cup {[source |-> Cardinality(rows) + 1, at |-> raised, closed |-> closed]}

EmitTransaction(e) ==
  /\ e.kind # "payment"
  /\ Write(e, IF IsPosted(e.status) /\ IsDeclined(e) THEN "declined" ELSE e.status, e.when, NotYet)
  /\ Consider(e)

(* The stage a payment has reached by the anchor. *)
StageReached(status, booked, settled) ==
  CASE booked > AnchorEnd -> "pending"
    [] booked =< AnchorEnd /\ status = "settled" /\ settled > AnchorEnd -> "booked"
    [] OTHER -> status

(* Booked minutes after it was initiated, settled days after that. *)
EmitPayment(e) ==
  /\ e.kind = "payment" /\ UNCHANGED alerts
  /\ IF ~ IsPosted(e.status) THEN Write(e, e.status, NotYet, NotYet)
     ELSE \E minutes \in {0, 1}, lag \in Lags :
            LET booked == e.when + minutes
                settled == booked + Slots * lag
                stage == StageReached(e.status, booked, settled)
                status == IF IsPosted(stage) /\ IsDeclined(e) THEN "rejected" ELSE stage
            IN  Write(e, status, IF IsPosted(status) THEN booked ELSE NotYet,
                      IF status = "settled" THEN settled ELSE NotYet)

Emit ==
  /\ at = "folding" /\ events # {}
  /\ EmitTransaction(Earliest) \/ EmitPayment(Earliest)
  /\ events' = events \ {Earliest}
  /\ UNCHANGED <<at, turn, month, cards, loans, report, left>>

EndMonth ==
  /\ at = "folding" /\ events = {}
  /\ turn' = 1
  /\ IF (month + 1) * MonthDays =< Anchor
     THEN at' = "attrition" /\ month' = month + 1
     ELSE at' = "done" /\ UNCHANGED month
  /\ UNCHANGED <<accounts, cards, loans, events, book, left>>
-----------------------------------------------------------------------------
(***************************************************************************)
(* The checks of the finished book (the invariants of the source).         *)
(***************************************************************************)
(* The sum of what a function holds. *)
Total(f) == MapThenSumSet(LAMBDA x : f[x], DOMAIN f)

Posted == {r \in rows : IsPosted(r.status)}

(* 1: no movement and no card outside its account's open window.            *)
OutsideTheWindow ==
  {r \in rows : DayOf(r.at) \notin accounts[r.account].opened .. accounts[r.account].closed}
CardsOutside == {a \in DOMAIN cards : cards[a].issued \notin accounts[a].opened .. accounts[a].closed}

(* 2: no card transaction outside the card's validity. *)
OffTheCard == {r \in rows : r.kind = "card" /\ DayOf(r.at) \notin cards[r.account].issued .. cards[r.account].expiry - 1}

(* 4: the balance is the signed sum of what was posted. *)
BalancesOff ==
  {a \in DOMAIN accounts : accounts[a].balance # Total([r \in {r \in Posted : r.account = a} |-> r.amount])}

(* 5: debits equal credits on every posting date. *)
DaysOff ==
  {d \in {p.day : p \in ledger} :
     Total([p \in {p \in ledger : p.day = d} |-> p.deposits + Total(p.others)]) # 0}

(* 6: every posted movement reaches the ledger. *)
Unledgered == {r \in Posted : \A p \in ledger : p.source # r.id}

(* 7: a loan's installments add up to it and its interest at most, and are  *)
(* neither due nor paid before it.                                          *)
SchedulesOff ==
  {a \in DOMAIN loans :
     LET loan == loans[a]
         plan == Schedule(loan.principal, loan.term)
         total == Total([n \in 1 .. loan.term |-> plan[n].due])
     IN  \/ total < loan.principal
         \/ (total - loan.principal - 1) * Interest[2] > loan.principal * Interest[1] * loan.term
         \/ \E n \in 1 .. loan.term : loan.paid[n] < loan.disbursed \/ Due(loan.disbursed, n) < loan.disbursed}

(* What the checks need of a generator's settings: a card comes before its  *)
(* account can close; no installment is paid before its loan is lent; and   *)
(* what a plan's rounding adds to its interest stays in the bound of 7.     *)
CardsComeInTime == \A d \in Lags : d =< CoolingOff
EarlyWithinAMonth == \A d \in EarlyDays : d =< MonthDays
InterestAddsUp ==
  \A principal \in Principals, term \in Terms :
    LET plan == Schedule(principal, term)
        total == Total([n \in 1 .. term |-> plan[n].due])
    IN  (total - principal - 1) * Interest[2] =< principal * Interest[1] * term

(* 9a: an alert is about a card transaction, and not earlier than it. *)
AlertsOff ==
  {f \in alerts : \A r \in rows : r.id = f.source => r.kind # "card" \/ f.at < r.at}

(* 11: no row carries an instant past the present. *)
LastTouched(r) == Max({r.at} \cup ({r.booked, r.settled} \ {NotYet}))
PastThePresent ==
  {r \in rows : r.at > AnchorEnd \/ LastTouched(r) > AnchorEnd}
  \cup {f \in alerts : f.at > AnchorEnd \/ (f.closed # NotYet /\ f.closed > AnchorEnd)}

Check ==
  /\ at = "done" /\ at' = "checked"
  /\ report' = {check \in {1, 2, 4, 5, 6, 7, 9, 11} :
                  {} # CASE check = 1 -> OutsideTheWindow \cup CardsOutside
                         [] check = 2 -> OffTheCard
                         [] check = 4 -> BalancesOff
                         [] check = 5 -> DaysOff
                         [] check = 6 -> Unledgered
                         [] check = 7 -> SchedulesOff
                         [] check = 9 -> AlertsOff
                         [] check = 11 -> PastThePresent}
  /\ UNCHANGED <<turn, month, accounts, cards, loans, events, rows, ledger, alerts, left>>
-----------------------------------------------------------------------------
Init ==
  /\ at = "deposits" /\ turn = 1 /\ month = 0
  /\ accounts = <<>> /\ cards = <<>> /\ loans = <<>> /\ events = {}
  /\ rows = {} /\ ledger = {} /\ alerts = {} /\ report = {}
  /\ left = Draws

Next ==
  \/ OpenAccount \/ EndDeposits \/ Lend \/ EndLending \/ Attrition \/ EndAttrition
  \/ DrawMonth \/ EndDrawing \/ Emit \/ EndMonth \/ Check
Spec == Init /\ [][Next]_vars
-----------------------------------------------------------------------------
(***************************************************************************)
(* Properties.                                                             *)
(***************************************************************************)
Late(r) == DayOf(r.at) # r.day

(* A book without a purchase that a burst carried past midnight passes all  *)
(* of its checks (entities/movements against invariants).                   *)
ChecksPass == at = "checked" /\ (\A r \in rows : ~ Late(r)) => report = {}

(* The loans the ledger holds are the principal that moved, and the         *)
(* interest it earned is what was paid above that; the customers' deposits  *)
(* are their balances (no check of the source compares them).               *)
LedgerHoldsTheBooks ==
  LET Held(g) == Total([p \in ledger |-> IF g \in DOMAIN p.others THEN p.others[g] ELSE 0])
      paid == {r \in Posted : r.installment > 0}
      lent == {r \in Posted : r.kind = "loan"} \ paid
  IN  /\ Held("loans") = Total([r \in lent |-> r.amount]) - Total([r \in paid |-> r.repaid])
      /\ Held("interest") = Total([r \in paid |-> r.amount + r.repaid])
      /\ \A a \in DOMAIN accounts :
           Total([p \in {p \in ledger : p.account = a} |-> p.deposits]) = - accounts[a].balance

(* A loan is repaid by its schedule to the last unit, and no installment    *)
(* takes back principal (realism/lending).                                  *)
ScheduleRepays ==
  \A a \in DOMAIN loans :
    LET plan == Schedule(loans[a].principal, loans[a].term)
    IN  /\ plan[loans[a].term].open = 0
        /\ \A n \in 1 .. loans[a].term : plan[n].part >= 0

=============================================================================
