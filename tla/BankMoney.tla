----------------------------- MODULE BankMoney -----------------------------
(***************************************************************************)
(* One simulated day of the core bank, as far as money goes.  A tick reads *)
(* a snapshot, then runs its handlers one after the other: the overnight   *)
(* account sweep, the lending funnel, loan servicing, onboarding, the      *)
(* clearing cycle, the day's own movements, the write of the balances, the *)
(* deletes and the guard.  Each handler is one action; what the generator  *)
(* draws at random is chosen freely.  Rows are keyed by position, which is *)
(* the order the tick assigns identities in.  Every account is a current   *)
(* account.  The tick's transaction is not interrupted here.               *)
(***************************************************************************)
EXTENDS Integers, Sequences, FiniteSets, FiniteSetsExt

CONSTANTS
  Accounts,        \* account ids
  HolderOf,        \* [Accounts]: the customer who is primary holder of it
  Newcomers,       \* the accounts a customer may still open by onboarding
  Histories,       \* the books a seeded source may start from
  MaxDay,          \* bound: ticks
  Budget,          \* bound: sweeps, arrivals and movements drawn in all
  MaxApplications, \* bound: loan applications
  Draws,           \* [1 .. MaxApplications]: what the application's own streams say
  Month,           \* days between two installments
  Term,            \* installments of a loan
  Principal,       \* what an installment repays
  Interest,        \* what it costs on top
  Grace,           \* late_payment_days_max
  CoolingOff,      \* COOLING_OFF_DAYS
  Window,          \* max_age_days of the jobs that look back
  Lags,            \* lag days of an offline presentment
  Limits,          \* overdraft_limit_choices
  Deposits,        \* opening balances
  Amounts,         \* signed amounts of a movement
  Sample           \* BALANCE_SAMPLE

ASSUME MoneyAssumption ==
  /\ IsFiniteSet(Accounts) /\ Accounts \subseteq Nat \ {0} /\ Newcomers \subseteq Accounts
  /\ HolderOf \in [Accounts -> Nat]
  /\ MaxDay \in Nat /\ Budget \in Nat /\ MaxApplications \in Nat
  /\ Month \in Nat \ {0} /\ Term \in Nat \ {0}
  /\ Principal \in Nat \ {0} /\ Interest \in Nat
  /\ Grace \in Nat \ {0} /\ CoolingOff \in Nat \ {0} /\ Window \in Nat \ {0}
  /\ Lags \subseteq Nat \ {0} /\ IsFiniteSet(Lags) /\ Limits \subseteq Nat /\ Deposits \subseteq Nat
  /\ Amounts \subseteq Int \ {0} /\ Sample \in Nat \ {0}
  /\ Draws \in [1 .. MaxApplications ->
       [decides : Nat, roll : {"judged", "withdrawn", "expired"}, drawn : BOOLEAN,
        disburses : Nat]]

VARIABLES
  day,           \* the day being ticked; between ticks, the simulated date
  step,          \* the handler that runs next, "idle" between ticks
  accounts,      \* core.accounts
  txns,          \* core.transactions
  payments,      \* core.payments
  ledger,        \* core.gl_transactions with their entries
  applications,  \* core.loan_applications
  loans,         \* core.loans
  installments,  \* core.loan_installments
  snap,          \* Snapshot.accounts: the open accounts the tick decides against
  cash,          \* TickContext.cash_events
  fold,          \* Fold.balance
  touched,       \* TickContext.touched_accounts
  log,           \* TickReport: what was inserted and updated, by table
  budget         \* what is left of Budget

book == <<accounts, txns, payments, ledger, applications, loans, installments>>
vars == <<day, step, book, snap, cash, fold, touched, log, budget>>

Tables == {"accounts", "transactions", "payments", "loan_applications", "loans",
           "loan_installments"}
Servicing == {"current", "arrears", "restructured"}
Undecided == {"scoring", "withdrawn", "expired"}     \* is_decided is false of these
Finished == {"withdrawn", "expired", "rejected"}     \* CLOSED_APPLICATIONS
PostedPayment == {"booked", "settled"}
NoBalance == [a \in Accounts |-> 0]
Quiet == [t \in Tables |-> [inserted |-> 0, updated |-> {}]]
Absent == [status |-> "none", opened |-> 0, closed |-> 0, limit |-> 0, balance |-> 0, at |-> 0]

Open(x) == x.status \in {"active", "dormant", "frozen"}

Primary(c) == {a \in Accounts : HolderOf[a] = c /\ Open(accounts[a])}

Goes(s, t) == step = s /\ step' = t
Spend(n) == n =< budget /\ budget' = budget - n

(* The members of a set of ids in order, and of any small set in some order. *)
InOrder(S) == [k \in 1 .. Cardinality(S) |->
                 CHOOSE i \in S : Cardinality({j \in S : j =< i}) = k]
Listed(S) == CHOOSE f \in [1 .. Cardinality(S) -> S] : \A s \in S : \E k \in DOMAIN f : f[k] = s

(* TickReport.record and record_update. *)
Inserted(l, t, n) == [l EXCEPT ![t].inserted = @ + n]
Updated(l, t, S) == [l EXCEPT ![t].updated = @ \cup S]

(* A row of core.transactions written today. *)
Txn(a, amount, status, booked, kind, of) ==
  [acct |-> a, amt |-> amount, status |-> status, booked |-> booked, made |-> day,
   at |-> day, kind |-> kind, of |-> of, deleted |-> FALSE]

(* post_customer_debit and post_customer_credit: the leg on customer        *)
(* deposits, then its contra.                                               *)
Batch(kind, id, a, amount) ==
  [of |-> <<kind, id>>, acct |-> a, day |-> day, legs |-> <<0 - amount, amount>>]

(* The batches of the rows at the positions in S, and of new transactions.  *)
Posting(kind, rows, S) ==
  LET ids == InOrder(S)
  IN  [k \in DOMAIN ids |-> Batch(kind, ids[k], rows[ids[k]].acct, rows[ids[k]].amt)]

BatchesOf(new) ==
  [k \in DOMAIN new |-> Batch("transaction", Len(txns) + k, new[k].acct, new[k].amt)]

(* _post_loan_ledger: a collection separates principal from interest.       *)
LoanBatch(id, e) ==
  [of |-> <<"transaction", id>>, acct |-> e.acct, day |-> day,
   legs |-> IF e.amt > 0 \/ Interest = 0 THEN <<0 - e.amt, e.amt>>
            ELSE <<0 - e.amt, 0 - Principal, e.amt + Principal>>]

(* The sum of what f holds at the members of S, and the amounts of rows.    *)
Total(f, S) == MapThenSumSet(LAMBDA i : f[i], S)
AmountsOf(rows) == [i \in DOMAIN rows |-> rows[i].amt]

(* Fold.apply, of the rows whose positions are in S. *)
Moved(balance, rows, S) ==
  [a \in Accounts |-> balance[a] + Total(AmountsOf(rows), {i \in S : rows[i].acct = a})]
AccountsOf(rows, S) == {rows[i].acct : i \in S}

(* The signed sum of what is posted on an account, whether deleted or not.  *)
PostedTxns(a) == {i \in DOMAIN txns : txns[i].acct = a /\ txns[i].status = "posted"}
PostedPayments(a) ==
  {i \in DOMAIN payments : payments[i].acct = a /\ payments[i].status \in PostedPayment}
PostedSum(a) ==
  Total(AmountsOf(txns), PostedTxns(a)) + Total(AmountsOf(payments), PostedPayments(a))

(* The rows of the tables.  A date that is null is 0.                       *)
AccountRow ==
  [status : {"none", "active", "dormant", "frozen", "closed"}, opened : Nat, closed : Nat,
   limit : Nat, balance : Int, at : Nat]
TxnRow ==
  [acct : Accounts, amt : Int, status : {"pending", "posted", "declined"}, booked : Int,
   made : Int, at : Int,
   kind : {"drawn", "deposit", "late", "reversal", "disbursement", "collection"},
   of : Nat, deleted : BOOLEAN]
PaymentRow ==
  [acct : Accounts, amt : Int, status : PostedPayment \cup {"pending", "rejected"},
   initiated : Int, booked : Int, at : Int]
ApplicationRow ==
  [cust : Nat, status : Undecided \cup {"approved", "rejected"}, applied : Int,
   decided : Int, deleted : BOOLEAN, at : Int]
LoanRow ==
  [app : Nat, cust : Nat, status : Servicing \cup {"closed"}, disbursed : Int, at : Int]
InstallmentRow == [loan : Nat, due : Int, paid : Int, made : Int, at : Int]

(* What the source's own checks ask of a seeded book whose accounts opened  *)
(* at the anchor: rows of the tables, movements in the life of their        *)
(* account (check 1), nothing paid after the anchor (check 11), an account  *)
(* of the borrower's to collect from; and its generator writes one loan of  *)
(* an application.  The kinds of loan cash mark what a tick moved.          *)
Seeded(h) ==
  /\ h.txns \in Seq(TxnRow) /\ h.payments \in Seq(PaymentRow)
  /\ h.applications \in Seq(ApplicationRow) /\ Len(h.applications) =< MaxApplications
  /\ h.loans \in Seq(LoanRow) /\ h.installments \in Seq(InstallmentRow)
  /\ \A i \in DOMAIN h.txns : h.txns[i].acct \notin Newcomers /\ h.txns[i].booked = 0
  /\ \A i \in DOMAIN h.payments :
       h.payments[i].acct \notin Newcomers /\ h.payments[i].initiated = 0
  /\ \A l \in DOMAIN h.loans : h.loans[l].status \in Servicing =>
       \E a \in Accounts \ Newcomers : HolderOf[a] = h.loans[l].cust
  /\ \A l, m \in DOMAIN h.loans : h.loans[l].app = h.loans[m].app => l = m
  /\ \A l \in DOMAIN h.loans : h.loans[l].disbursed =< 0
  /\ \A i \in DOMAIN h.installments : h.installments[i].paid =< 0
  /\ \A i \in DOMAIN h.txns : h.txns[i].kind \notin {"disbursement", "collection"}

ASSUME HistoryAssumption == \A h \in Histories : Seeded(h)
-----------------------------------------------------------------------------
(***************************************************************************)
(* The tick opens: the snapshot is read once.                              *)
(***************************************************************************)
Seen(x) == [status |-> x.status, opened |-> x.opened, limit |-> x.limit, balance |-> x.balance]

BeginTick ==
  /\ Goes("idle", "accounts") /\ day < MaxDay
  /\ day' = day + 1
  /\ LET open == {a \in Accounts : Open(accounts[a])}
     IN  snap' = [a \in open |-> Seen(accounts[a])]
  /\ log' = Quiet
  /\ UNCHANGED <<book, cash, fold, touched, budget>>
-----------------------------------------------------------------------------
(***************************************************************************)
(* The lifecycle phase.                                                    *)
(***************************************************************************)
(* The accounts a loan is still collected from. *)
Collecting ==
  {a \in Accounts : \E l \in DOMAIN loans :
     loans[l].cust = HolderOf[a] /\ loans[l].status \in Servicing}

(* Mutant of Closable: a loan does not keep the account open. *)
ClosableAnyway(a) == day - snap[a].opened >= CoolingOff

Closable(a) == a \notin Collecting /\ day - snap[a].opened >= CoolingOff

(* One change per account and day. *)
MayChange(a, to) ==
  \/ to \in {"keep", "limit"}
  \/ to \in {"dormant", "frozen"} /\ snap[a].status = "active"
  \/ to = "active" /\ snap[a].status = "dormant"
  \/ to = "closed" /\ Closable(a)

(* The overnight sweep.  A closed account leaves the snapshot and a status  *)
(* follows it there; a new limit does not.                                  *)
SweepAccounts ==
  /\ Goes("accounts", "decide")
  /\ \E change \in [DOMAIN snap -> {"keep", "limit", "dormant", "frozen", "active", "closed"}],
        limit \in Limits :
       LET changed == {a \in DOMAIN snap : change[a] # "keep"}
           moved == {a \in changed : change[a] # "limit"}
           closed == {a \in changed : change[a] = "closed"}
       IN  /\ \A a \in changed : MayChange(a, change[a])
           /\ Spend(Cardinality(changed))
           /\ accounts' = [a \in Accounts |->
                IF a \in moved
                THEN [accounts[a] EXCEPT !.status = change[a], !.at = day,
                                         !.closed = IF a \in closed THEN day ELSE @]
                ELSE IF a \in changed THEN [accounts[a] EXCEPT !.limit = limit, !.at = day]
                ELSE accounts[a]]
           /\ snap' = [a \in DOMAIN snap \ closed |->
                IF a \in moved THEN [snap[a] EXCEPT !.status = change[a]] ELSE snap[a]]
           /\ log' = Updated(log, "accounts", changed)
  /\ UNCHANGED <<day, txns, payments, ledger, applications, loans, installments, cash, fold,
                 touched>>

(* An application is decided once its lag has passed.  Its streams fix the  *)
(* lag and whether it lapses; an underwriter judges the others.             *)
DecideApplications ==
  /\ Goes("decide", "disburse")
  /\ LET ready == {i \in DOMAIN applications :
                     /\ applications[i].status \in Undecided /\ ~ applications[i].deleted
                     /\ applications[i].applied + Draws[i].decides =< day}
         judged == {i \in ready : Draws[i].roll = "judged"}
     IN  /\ \E approved \in SUBSET judged :
              applications' = [i \in DOMAIN applications |->
                IF i \notin ready THEN applications[i]
                ELSE [applications[i] EXCEPT !.decided = day, !.at = day,
                        !.status = IF i \in approved THEN "approved"
                                   ELSE IF i \in judged THEN "rejected" ELSE Draws[i].roll]]
         /\ log' = Updated(log, "loan_applications", ready)
  /\ UNCHANGED <<day, accounts, txns, payments, ledger, loans, installments, snap, cash, fold,
                 touched, budget>>

(* Mutant of Drawable: it does not ask whether the loan exists. *)
DrawableAgain(i) ==
  /\ applications[i].status = "approved" /\ ~ applications[i].deleted
  /\ Draws[i].drawn /\ applications[i].decided + Draws[i].disburses =< day

Drawable(i) ==
  /\ applications[i].status = "approved" /\ ~ applications[i].deleted
  /\ Draws[i].drawn /\ applications[i].decided + Draws[i].disburses =< day
  /\ \A l \in DOMAIN loans : loans[l].app # i

(* A loan, its schedule and its cash for every row of the join of approved  *)
(* applications with the open accounts their customer is primary holder of. *)
DisburseApproved ==
  /\ Goes("disburse", "loans")
  /\ LET pairs == UNION {{<<i, a>> : a \in Primary(applications[i].cust)} :
                          i \in {j \in DOMAIN applications : Drawable(j)}}
         rows == Listed(pairs)
         first == Len(loans)
     IN  /\ loans' = loans \o [k \in DOMAIN rows |->
              [app |-> rows[k][1], cust |-> applications[rows[k][1]].cust,
               status |-> "current", disbursed |-> day, at |-> day]]
         /\ installments' = installments \o [n \in 1 .. Len(rows) * Term |->
              [loan |-> first + 1 + ((n - 1) \div Term),
               due |-> day + Month * (1 + ((n - 1) % Term)), paid |-> 0, made |-> day, at |-> day]]
         /\ cash' = cash \o [k \in DOMAIN rows |->
              [acct |-> rows[k][2], amt |-> Principal * Term, kind |-> "disbursement",
               of |-> first + k]]
         /\ log' = Inserted(Inserted(log, "loans", Len(rows)),
                            "loan_installments", Len(rows) * Term)
  /\ UNCHANGED <<day, accounts, txns, payments, ledger, applications, snap, fold, touched,
                 budget>>

(* Installments due are collected, late ones within the grace period, and   *)
(* what is later puts the loan in arrears.  There is a row for every open   *)
(* account of the borrower; the draw is the installment's.                  *)
CollectInstallments ==
  /\ Goes("loans", "onboard")
  /\ LET borrower(i) == loans[installments[i].loan].cust
         due == {i \in DOMAIN installments :
                   /\ installments[i].paid = 0 /\ installments[i].due =< day
                   /\ loans[installments[i].loan].status \in Servicing
                   /\ Primary(borrower(i)) # {}}
         overdue(i) == day - installments[i].due
         stuck == {installments[i].loan : i \in {j \in due : overdue(j) > Grace}}
     IN  \E paid \in SUBSET {i \in due : overdue(i) =< Grace} :
           /\ \A i \in due : overdue(i) = Grace => i \in paid
           /\ installments' = [i \in DOMAIN installments |->
                IF i \in paid THEN [installments[i] EXCEPT !.paid = day, !.at = day]
                ELSE installments[i]]
           /\ LET rows == Listed(UNION {{<<i, a>> : a \in Primary(borrower(i))} : i \in paid})
                  settled == {l \in DOMAIN loans :
                    /\ loans[l].status \in Servicing /\ loans[l].disbursed < day
                    /\ \A i \in DOMAIN installments :
                         installments[i].loan = l => installments'[i].paid # 0}
                  fallen == {l \in stuck : loans[l].status # "arrears"}
              IN  /\ cash' = cash \o [k \in DOMAIN rows |->
                       [acct |-> rows[k][2], amt |-> 0 - (Principal + Interest),
                        kind |-> "collection", of |-> rows[k][1]]]
                  /\ loans' = [l \in DOMAIN loans |->
                       IF l \in settled THEN [loans[l] EXCEPT !.status = "closed", !.at = day]
                       ELSE IF l \in fallen THEN [loans[l] EXCEPT !.status = "arrears", !.at = day]
                       ELSE loans[l]]
                  /\ log' = Updated(Updated(log, "loan_installments", paid),
                                    "loans", settled \cup fallen)
  /\ UNCHANGED <<day, accounts, txns, payments, ledger, applications, snap, fold, touched,
                 budget>>
-----------------------------------------------------------------------------
(***************************************************************************)
(* The acquisition phase.                                                  *)
(***************************************************************************)
(* _open_account: the first account, active, its balance written with it.   *)
NewAccount(limit, deposit) ==
  [status |-> "active", opened |-> day, closed |-> 0, limit |-> limit,
   balance |-> deposit, at |-> day]

(* The deposit that explains the balance, where there is one.               *)
OpeningDeposits(S, deposit) ==
  LET rows == IF deposit > 0 THEN InOrder(S) ELSE <<>>
  IN  [k \in DOMAIN rows |-> Txn(rows[k], deposit, "posted", day, "deposit", 0)]

(* New customers, each with a first account.                                *)
Onboard ==
  /\ Goes("onboard", "apply")
  /\ \E S \in SUBSET {a \in Newcomers : accounts[a] = Absent},
        limit \in Limits, deposit \in Deposits :
       LET new == NewAccount(limit, deposit)
           rows == OpeningDeposits(S, deposit)
       IN  /\ Spend(Cardinality(S))
           /\ accounts' = [a \in Accounts |-> IF a \in S THEN new ELSE accounts[a]]
           /\ snap' = [a \in DOMAIN snap \cup S |-> IF a \in S THEN Seen(new) ELSE snap[a]]
           /\ txns' = txns \o rows
           /\ ledger' = ledger \o BatchesOf(rows)
           /\ touched' = touched \cup S
           /\ log' = Inserted(Inserted(log, "accounts", Cardinality(S)),
                              "transactions", Len(rows))
  /\ UNCHANGED <<day, payments, applications, loans, installments, cash, fold>>

(* Customers of the existing book apply; a row for each of their accounts.  *)
Apply ==
  /\ Goes("apply", "deferred")
  /\ \E S \in SUBSET {HolderOf[a] : a \in Accounts} :
       LET pairs == UNION {{<<c, a>> : a \in {b \in Primary(c) : accounts[b].opened < day}} :
                            c \in S}
           rows == Listed(pairs)
       IN  /\ Spend(Cardinality(S)) /\ \A c \in S : \E p \in pairs : p[1] = c
           /\ Len(applications) + Len(rows) =< MaxApplications
           /\ applications' = applications \o [k \in DOMAIN rows |->
                [cust |-> rows[k][1], status |-> "scoring", applied |-> day, decided |-> 0,
                 deleted |-> FALSE, at |-> day]]
           /\ log' = Inserted(log, "loan_applications", Len(rows))
  /\ UNCHANGED <<day, accounts, txns, payments, ledger, loans, installments, snap, cash, fold,
                 touched>>
-----------------------------------------------------------------------------
(***************************************************************************)
(* The movement phase: the clearing cycle.                                 *)
(***************************************************************************)
Recent(d) == day - Window =< d /\ d < day
Opening == [a \in Accounts |-> IF a \in DOMAIN snap THEN snap[a].balance ELSE 0]

(* Authorisations of the last days clear: an update of the row, never       *)
(* declined for funds.                                                      *)
PostDeferred ==
  /\ Goes("deferred", "payments")
  /\ \E S \in SUBSET {i \in DOMAIN txns :
            /\ txns[i].status = "pending" /\ ~ txns[i].deleted /\ Recent(txns[i].booked)
            /\ Open(accounts[txns[i].acct]) /\ txns[i].acct \in DOMAIN snap} :
         /\ txns' = [i \in DOMAIN txns |->
              IF i \in S THEN [txns[i] EXCEPT !.status = "posted", !.at = day] ELSE txns[i]]
         /\ ledger' = ledger \o Posting("transaction", txns, S)
         /\ fold' = Moved(Opening, txns, S)
         /\ touched' = touched \cup AccountsOf(txns, S)
         /\ log' = Updated(log, "transactions", S)
  /\ UNCHANGED <<day, accounts, payments, applications, loans, installments, snap, cash, budget>>

(* Mutant of Crossing: settlement moves the money again. *)
CrossingTwice(booking, settling) == booking \cup settling

(* Which payments cross into a posted status: settled is as posted as booked. *)
Crossing(booking, settling) == booking

AdvancePayments ==
  /\ Goes("payments", "late")
  /\ LET here == {i \in DOMAIN payments : Open(accounts[payments[i].acct])
                                          /\ payments[i].acct \in DOMAIN snap}
     IN  \E booking \in SUBSET {i \in here : /\ payments[i].status = "pending"
                                             /\ Recent(payments[i].initiated)},
            settling \in SUBSET {i \in here : /\ payments[i].status = "booked"
                                              /\ payments[i].booked < day} :
           LET crossing == Crossing(booking, settling)
           IN  /\ payments' = [i \in DOMAIN payments |->
                    IF i \in booking
                    THEN [payments[i] EXCEPT !.status = "booked", !.booked = day, !.at = day]
                    ELSE IF i \in settling
                    THEN [payments[i] EXCEPT !.status = "settled", !.at = day]
                    ELSE payments[i]]
               /\ ledger' = ledger \o Posting("payment", payments, booking)
               /\ fold' = Moved(fold, payments, crossing)
               /\ touched' = touched \cup AccountsOf(payments, crossing)
               /\ log' = Updated(log, "payments", booking \cup settling)
  /\ UNCHANGED <<day, accounts, txns, applications, loans, installments, snap, cash, budget>>

(* Rows the clearing cycle inserts: they are written, folded and ledgered.  *)
InsertPosted(new, batches) ==
  /\ txns' = txns \o new
  /\ ledger' = ledger \o batches
  /\ fold' = Moved(fold, new, DOMAIN new)
  /\ touched' = touched \cup AccountsOf(new, DOMAIN new)
  /\ log' = Inserted(log, "transactions", Len(new))

(* Mutant of Admissible: the account's own life is not looked at. *)
AdmissibleAlways(a, lag) == TRUE

(* _draw_lag: the business day lies in the account's life. *)
Admissible(a, lag) == snap[a].opened =< day - lag

(* Offline purchases of earlier days, presented now. *)
ClearLateArrivals ==
  /\ Goes("late", "reversals")
  /\ \E S \in SUBSET {p \in (DOMAIN snap) \X Lags : Admissible(p[1], p[2])} :
       LET rows == Listed(S)
           new == [k \in DOMAIN rows |->
                     Txn(rows[k][1], -1, "posted", day - rows[k][2], "late", 0)]
       IN  Spend(Cardinality(S)) /\ InsertPosted(new, BatchesOf(new))
  /\ UNCHANGED <<day, accounts, payments, applications, loans, installments, snap, cash>>

(* What this tick inserted is not yet in the book it queries. *)
Reversible(i) ==
  /\ txns[i].status = "posted" /\ ~ txns[i].deleted /\ Recent(txns[i].booked)
  /\ txns[i].made < day /\ Open(accounts[txns[i].acct]) /\ txns[i].acct \in DOMAIN snap
  /\ \A r \in DOMAIN txns : ~ (txns[r].kind = "reversal" /\ txns[r].of = i)

ReverseRecentPostings ==
  /\ Goes("reversals", "loan cash")
  /\ \E S \in SUBSET {i \in DOMAIN txns : Reversible(i)} :
       LET rows == InOrder(S)
           new == [k \in DOMAIN rows |->
                     Txn(txns[rows[k]].acct, 0 - txns[rows[k]].amt, "posted", day,
                         "reversal", rows[k])]
       IN  Spend(Cardinality(S)) /\ InsertPosted(new, BatchesOf(new))
  /\ UNCHANGED <<day, accounts, payments, applications, loans, installments, snap, cash>>

(* The cash lifecycle decided on; an account it has closed since is skipped. *)
CollectLoanCash ==
  /\ Goes("loan cash", "day")
  /\ LET kept == InOrder({n \in DOMAIN cash : cash[n].acct \in DOMAIN snap})
         new == [k \in DOMAIN kept |->
                   LET e == cash[kept[k]]
                   IN  Txn(e.acct, e.amt, "posted", day, e.kind, e.of)]
     IN  InsertPosted(new, [k \in DOMAIN new |-> LoanBatch(Len(txns) + k, cash[kept[k]])])
  /\ cash' = <<>>
  /\ UNCHANGED <<day, accounts, payments, applications, loans, installments, snap, budget>>
-----------------------------------------------------------------------------
(***************************************************************************)
(* The movement phase: the day itself, in time order.                      *)
(***************************************************************************)

Active(a) == a \in DOMAIN snap /\ snap[a].status # "dormant" /\ snap[a].opened # day

(* Fold.would_breach, of a debit, against the limit the snapshot holds. *)
Breaches(a, amount) == amount < 0 /\ fold[a] + amount < 0 - snap[a].limit

(* Mutant of Ledgered: it asks what was drawn, not what became of it. *)
LedgeredAsDrawn(drawn, status) == drawn \in {"posted"} \cup PostedPayment

Ledgered(drawn, status) == status \in {"posted"} \cup PostedPayment

(* _account_day draws movements of either direction, most of them posted;    *)
(* income, mandates and fees that fall due are always posted.               *)
Drawn == Amounts \X {"posted", "pending", "declined"}
Scheduled == Amounts \X {"posted"}

(* _payment_instructions: a payment whose booking or settlement would fall  *)
(* after the day is still at the stage before.                              *)
Instructions == Amounts \X {"pending", "booked", "settled", "rejected"}

EmitTransaction(a, amount, drawn) ==
  /\ step = "day" /\ Active(a) /\ Spend(1)
  /\ LET status == IF drawn = "posted" /\ Breaches(a, amount) THEN "declined" ELSE drawn
     IN  /\ txns' = Append(txns, Txn(a, amount, status, day, "drawn", 0))
         /\ ledger' = IF Ledgered(drawn, status)
                      THEN Append(ledger, Batch("transaction", Len(txns) + 1, a, amount))
                      ELSE ledger
         /\ fold' = IF status = "posted" THEN [fold EXCEPT ![a] = @ + amount] ELSE fold
         /\ touched' = IF status = "posted" THEN touched \cup {a} ELSE touched
  /\ log' = Inserted(log, "transactions", 1)
  /\ UNCHANGED <<day, step, accounts, payments, applications, loans, installments, snap, cash>>

EmitPayment(a, amount, drawn) ==
  /\ step = "day" /\ Active(a) /\ Spend(1)
  /\ LET status == IF drawn \in PostedPayment /\ Breaches(a, amount) THEN "rejected" ELSE drawn
         posted == status \in PostedPayment
     IN  /\ payments' = Append(payments,
              [acct |-> a, amt |-> amount, status |-> status, initiated |-> day,
               booked |-> IF posted THEN day ELSE 0, at |-> day])
         /\ ledger' = IF Ledgered(drawn, status)
                      THEN Append(ledger, Batch("payment", Len(payments) + 1, a, amount))
                      ELSE ledger
         /\ fold' = IF posted THEN [fold EXCEPT ![a] = @ + amount] ELSE fold
         /\ touched' = IF posted THEN touched \cup {a} ELSE touched
  /\ log' = Inserted(log, "payments", 1)
  /\ UNCHANGED <<day, step, accounts, txns, applications, loans, installments, snap, cash>>

EmitDay(a) ==
  \/ \E m \in Drawn \cup Scheduled : EmitTransaction(a, m[1], m[2])
  \/ \E m \in Instructions : EmitPayment(a, m[1], m[2])

(* _write_fold: one update for every balance the day moved. *)
WriteFold ==
  /\ Goes("day", "void")
  /\ LET moved == {a \in DOMAIN snap : fold[a] # snap[a].balance}
     IN  /\ accounts' = [a \in Accounts |->
              IF a \in moved
              THEN [accounts[a] EXCEPT !.balance = @ + (fold[a] - snap[a].balance), !.at = day]
              ELSE accounts[a]]
         /\ log' = Updated(log, "accounts", moved)
  /\ fold' = NoBalance
  /\ UNCHANGED <<day, txns, payments, ledger, applications, loans, installments, snap, cash,
                 touched, budget>>
-----------------------------------------------------------------------------
(***************************************************************************)
(* The deletes phase, the guard and the commit.                            *)
(***************************************************************************)
Voidable(i) ==
  txns[i].status \in {"pending", "declined"} /\ ~ txns[i].deleted /\ Recent(txns[i].booked)

VoidTransactions ==
  /\ Goes("void", "clear")
  /\ \E S \in SUBSET {i \in DOMAIN txns : Voidable(i)} :
       /\ txns' = [i \in DOMAIN txns |->
            IF i \in S THEN [txns[i] EXCEPT !.deleted = TRUE, !.at = day] ELSE txns[i]]
       /\ log' = Updated(log, "transactions", S)
  /\ UNCHANGED <<day, accounts, payments, ledger, applications, loans, installments, snap, cash,
                 fold, touched, budget>>

ClearApplications ==
  /\ Goes("clear", "guard")
  /\ \E S \in SUBSET {i \in DOMAIN applications :
            /\ applications[i].status \in Finished /\ ~ applications[i].deleted
            /\ applications[i].applied < day /\ \A l \in DOMAIN loans : loans[l].app # i} :
       /\ applications' = [i \in DOMAIN applications |->
            IF i \in S THEN [applications[i] EXCEPT !.deleted = TRUE, !.at = day]
            ELSE applications[i]]
       /\ log' = Updated(log, "loan_applications", S)
  /\ UNCHANGED <<day, accounts, txns, payments, ledger, loans, installments, snap, cash, fold,
                 touched, budget>>

(* The guard re-derives the balances of a sample of the touched accounts.   *)
Samples ==
  {S \in SUBSET touched : Cardinality(S) = Sample \/ (Cardinality(S) < Sample /\ S = touched)}
GuardPasses == \E S \in Samples : \A a \in S : accounts[a].balance = PostedSum(a)

(* The date advances and the tick commits.                                  *)
Commit ==
  /\ Goes("guard", "idle") /\ GuardPasses
  /\ touched' = {} /\ snap' = [a \in {} |-> 0]
  /\ UNCHANGED <<day, book, cash, fold, log, budget>>
-----------------------------------------------------------------------------
(***************************************************************************)
(* The specification.                                                      *)
(***************************************************************************)
(* A seeded source at its anchor: every posted row of the history has its   *)
(* batch, and the balances are what was posted.                             *)
Init ==
  /\ day = 0 /\ step = "idle" /\ budget = Budget
  /\ snap = [a \in {} |-> 0] /\ cash = <<>> /\ fold = NoBalance /\ touched = {} /\ log = Quiet
  /\ \E h \in Histories :
       /\ txns = h.txns /\ payments = h.payments /\ applications = h.applications
       /\ loans = h.loans /\ installments = h.installments
       /\ LET posted(rows) == {i \in DOMAIN rows : rows[i].status \in {"posted"} \cup PostedPayment}
          IN  ledger = Posting("transaction", txns, posted(txns))
                       \o Posting("payment", payments, posted(payments))
       /\ \E limit \in Limits :
            accounts = [a \in Accounts |->
              IF a \in Newcomers THEN Absent
              ELSE [status |-> "active", opened |-> 0, closed |-> 0, limit |-> limit,
                    balance |-> PostedSum(a), at |-> 0]]

Lifecycle == SweepAccounts \/ DecideApplications \/ DisburseApproved \/ CollectInstallments
Acquisition == Onboard \/ Apply
Movements ==
  \/ PostDeferred \/ AdvancePayments \/ ClearLateArrivals \/ ReverseRecentPostings
  \/ CollectLoanCash \/ WriteFold
  \/ \E a \in Accounts : EmitDay(a)
Deletes == VoidTransactions \/ ClearApplications

Next == BeginTick \/ Lifecycle \/ Acquisition \/ Movements \/ Deletes \/ Commit

Spec == Init /\ [][Next]_vars
-----------------------------------------------------------------------------
(***************************************************************************)
(* Properties.                                                             *)
(***************************************************************************)
Folded == step \in {"void", "clear", "guard", "idle"}     \* the balances are written
CashDone == step \in {"day"} \/ Folded                     \* the loan cash has moved

(* Invariant 4: once the fold is written, every stored balance is the sum   *)
(* of what is posted, over deferred, late, reversed, loan and day movements *)
(* and whatever was declined, voided or closed in between.                  *)
BalanceIsPosted == Folded => \A a \in Accounts : accounts[a].balance = PostedSum(a)

(* The rows of the ledger for an event, and whether one mirrors it.         *)
BatchesFor(kind, id) == {b \in DOMAIN ledger : ledger[b].of = <<kind, id>>}
Mirrors(b, row) ==
  /\ ledger[b].acct = row.acct /\ ledger[b].legs[1] = 0 - row.amt
  /\ Total(ledger[b].legs, DOMAIN ledger[b].legs) = 0

(* Invariants 5 and 6: what is posted has exactly one batch, which balances *)
(* and moves the account by the posted amount; what is not posted has none. *)
PostedIsLedgered ==
  /\ \A i \in DOMAIN txns :
       IF txns[i].status = "posted"
       THEN \E b \in DOMAIN ledger : BatchesFor("transaction", i) = {b} /\ Mirrors(b, txns[i])
       ELSE BatchesFor("transaction", i) = {}
  /\ \A i \in DOMAIN payments :
       IF payments[i].status \in PostedPayment
       THEN \E b \in DOMAIN ledger : BatchesFor("payment", i) = {b} /\ Mirrors(b, payments[i])
       ELSE BatchesFor("payment", i) = {}

WithinLife(a, d) ==
  accounts[a].opened =< d /\ (accounts[a].closed # 0 => d =< accounts[a].closed)

(* Invariant 1: no movement, however late it is presented, lies outside the *)
(* life of its account.                                                     *)
NoMovementOutsideLife ==
  /\ \A i \in DOMAIN txns : WithinLife(txns[i].acct, txns[i].booked)
  /\ \A i \in DOMAIN payments : WithinLife(payments[i].acct, payments[i].initiated)

MovementsOf(kind, id) == {i \in DOMAIN txns : txns[i].kind = kind /\ txns[i].of = id}

(* A repayment is two facts in two phases, and they agree: a paid           *)
(* installment left the account of its borrower once, a loan reached it     *)
(* once, and an application became one loan.                                *)
LoanMoneyMovesOnce ==
  CashDone =>
    /\ \A i \in DOMAIN installments :
         Cardinality(MovementsOf("collection", i)) = IF installments[i].paid > 0 THEN 1 ELSE 0
    /\ \A l \in DOMAIN loans : loans[l].disbursed > 0 =>
         Cardinality(MovementsOf("disbursement", l)) = 1
    /\ \A l, m \in DOMAIN loans : loans[l].app = loans[m].app => l = m

(* A loan that is still collected has an open account to collect it from.   *)
LoanHasAnAccount ==
  \A l \in DOMAIN loans : loans[l].status \in Servicing => Primary(loans[l].cust) # {}

=============================================================================
