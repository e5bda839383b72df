---------------------------- MODULE BankRegister ----------------------------
(***************************************************************************)
(* One simulated day of the core bank, as far as its registers go: the     *)
(* customers with their addresses, accounts and cards, the alerts raised   *)
(* on card spending, the dirt the tick plants and the duplicates it later  *)
(* resolves.  A tick decides against a snapshot read at its start; each    *)
(* handler is one action, in the order the tick runs them, and what the    *)
(* generator draws at random is chosen freely.  Of a customer only the     *)
(* stamps and the delete mark are kept: names, KYC and contact details are *)
(* an update.  An account has the id of its holder.  Rows that are never   *)
(* deleted are keyed by position.                                          *)
(***************************************************************************)
EXTENDS Integers, Sequences, FiniteSets, FiniteSetsExt

CONSTANTS
  Histories,       \* the registers a seeded source may start from
  MaxDay,          \* bound: ticks
  Budget,          \* bound: rows changed or inserted in all, outside the due ones
  Validity,        \* days a card is valid
  Lags,            \* lag days of an offline presentment
  DispositionLag   \* [Nat]: the days an analyst takes over an alert

ASSUME RegisterAssumption ==
  /\ MaxDay \in Nat /\ Budget \in Nat /\ Validity \in Nat \ {0}
  /\ Lags \subseteq Nat \ {0}
  /\ IsFiniteSet(Lags)
  /\ \A i \in DOMAIN DispositionLag : DispositionLag[i] \in Nat \ {0}

VARIABLES
  day,        \* the day being ticked; between ticks, the simulated date
  step,       \* the handler that runs next, "idle" between ticks
  customers,  \* core.customers, by id
  addresses,  \* core.customer_addresses, the residential ones
  accounts,   \* core.accounts with their holders, by id
  cards,      \* core.cards
  spends,     \* the card purchases of core.transactions
  alerts,     \* core.fraud_alerts
  open,       \* Snapshot.accounts: the accounts the tick decides against
  held,       \* Snapshot.cards_by_account: the cards it decides against
  lastId,     \* Snapshot.next_id of the customers
  log,        \* TickReport: what was inserted and updated, by table
  purged,     \* TickReport.deleted_keys
  gone,       \* platform.tick_deleted_keys
  budget      \* what is left of Budget

registers == <<customers, addresses, accounts, cards, spends, alerts>>
vars == <<day, step, registers, open, held, lastId, log, purged, gone, budget>>

Tables == {"customers", "customer_addresses", "cards", "fraud_alerts"}
Live == {"issued", "active", "blocked"}          \* the card states a snapshot reads
Final == {"confirmed_fraud", "dismissed"}
Quiet == [t \in Tables |-> [inserted |-> 0, updated |-> {}]]

Goes(s, t) == step = s /\ step' = t
Spend(n) == n =< budget /\ budget' = budget - n
Listed(S) == CHOOSE f \in [1 .. Cardinality(S) -> S] : \A s \in S : \E k \in DOMAIN f : f[k] = s

(* TickReport.record and record_update. *)
Inserted(l, t, n) == [l EXCEPT ![t].inserted = @ + n]
Updated(l, t, S) == [l EXCEPT ![t].updated = @ \cup S]

Extend(f, g) == [x \in DOMAIN f \cup DOMAIN g |-> IF x \in DOMAIN g THEN g[x] ELSE f[x]]
Customer == [made |-> day, at |-> day, deleted |-> FALSE]
Card(a) == [acct |-> a, status |-> "active", issued |-> day, expiry |-> day + Validity, at |-> day]
Forever == MaxDay + 1      \* a valid_to_date that is null
Address(c) == [cust |-> c, from |-> day, to |-> Forever, at |-> day]

(* The rows of the tables.  A date that is null is 0 for an account's       *)
(* closing and an alert's verdict.                                          *)
CustomerRow == [made : Int, at : Int, deleted : BOOLEAN]
AddressRow == [cust : Nat, from : Int, to : Int, at : Int]
AccountRow == [opened : Int, closed : Int]
CardRow ==
  [acct : Nat, status : Live \cup {"expired", "cancelled", "replaced"},
   issued : Int, expiry : Int, at : Int]
AlertRow ==
  [raised : Int, verdict : Final \cup {"open", "investigating", "escalated"},
   ruled : Int, at : Int]

(* What the source's own checks ask of a seeded register: rows of the       *)
(* tables, no stamp after the anchor (check 11), holders and accounts that  *)
(* exist (12c), a card issued in the life of its account (check 1), and a   *)
(* verdict at least the shortest lag after its alert.                       *)
Seeded(h) ==
  /\ IsFiniteSet(DOMAIN h.customers) /\ DOMAIN h.customers \subseteq Nat
  /\ h.customers \in [DOMAIN h.customers -> CustomerRow]
  /\ DOMAIN h.accounts \subseteq DOMAIN h.customers
  /\ h.accounts \in [DOMAIN h.accounts -> AccountRow]
  /\ h.addresses \in Seq(AddressRow) /\ h.cards \in Seq(CardRow) /\ h.alerts \in Seq(AlertRow)
  /\ \A c \in DOMAIN h.customers : h.customers[c].made =< 0 /\ h.customers[c].at =< 0
  /\ \A k \in DOMAIN h.addresses : h.addresses[k].from =< 0 /\ h.addresses[k].at =< 0
  /\ \A a \in DOMAIN h.accounts : h.accounts[a].opened =< 0
  /\ \A k \in DOMAIN h.cards :
       /\ h.cards[k].acct \in DOMAIN h.accounts
       /\ h.cards[k].issued =< 0 /\ h.cards[k].at =< 0
       /\ LET a == h.accounts[h.cards[k].acct]
          IN  a.opened =< h.cards[k].issued /\ (a.closed # 0 => h.cards[k].issued =< a.closed)
  /\ \A i \in DOMAIN h.alerts :
       /\ h.alerts[i].raised =< 0 /\ h.alerts[i].at =< 0
       /\ h.alerts[i].verdict \in Final => h.alerts[i].raised < h.alerts[i].ruled

ASSUME HistoryAssumption == \A h \in Histories : Seeded(h)
-----------------------------------------------------------------------------
(***************************************************************************)
(* The tick opens: the snapshot is read once, and new identities continue  *)
(* from the largest key it finds.                                          *)
(***************************************************************************)

Held == [k \in {i \in DOMAIN cards : cards[i].status \in Live} |-> cards[k]]

BeginTick ==
  /\ Goes("idle", "accounts") /\ day < MaxDay
  /\ day' = day + 1
  /\ open' = {a \in DOMAIN accounts : accounts[a].closed = 0}
  /\ held' = Held
  /\ lastId' = Max(DOMAIN customers \cup {0})
  /\ log' = Quiet /\ purged' = {}
  /\ UNCHANGED <<registers, gone, budget>>
-----------------------------------------------------------------------------
(***************************************************************************)
(* The lifecycle phase.                                                    *)
(***************************************************************************)
(* An account the sweep closes leaves the snapshot; its cards are not       *)
(* touched.                                                                 *)
CloseAccounts ==
  /\ Goes("accounts", "cards")
  /\ \E S \in SUBSET open :
       /\ Spend(Cardinality(S))
       /\ accounts' = [a \in DOMAIN accounts |->
            IF a \in S THEN [accounts[a] EXCEPT !.closed = day] ELSE accounts[a]]
       /\ open' = open \ S
  /\ UNCHANGED <<day, customers, addresses, cards, spends, alerts, held, lastId, log, purged, gone>>

(* A card that may carry a transaction today, as the snapshot has it.       *)
Usable(k) == held[k].status = "active" /\ held[k].issued =< day /\ day < held[k].expiry

CardsOf(a) == {k \in DOMAIN held : held[k].acct = a}

(* Expiry is certain, a block or a replacement is drawn; whoever lost a     *)
(* card is sent a new one, and who has no usable card may be.  The snapshot *)
(* learns of the new cards only.                                            *)
SweepCards ==
  /\ Goes("cards", "customers")
  /\ LET serviced == {k \in DOMAIN held : held[k].acct \in open}
         expiring == {k \in serviced : held[k].status = "active" /\ held[k].expiry =< day}
         without == {a \in open : \A k \in CardsOf(a) : ~ Usable(k)}
     IN  \E blocking \in SUBSET {k \in serviced \ expiring : held[k].status = "active"},
            replacing \in SUBSET {k \in serviced : held[k].status = "blocked"},
            healed \in SUBSET without :
           LET lost == {held[k].acct : k \in expiring \cup replacing}
               rows == Listed(lost \cup healed)
               new == [k \in DOMAIN rows |-> Card(rows[k])]
           IN  /\ Spend(Cardinality(blocking \cup replacing \cup (healed \ lost)))
               /\ cards' = [k \in DOMAIN cards |->
                    IF k \in blocking THEN [cards[k] EXCEPT !.status = "blocked", !.at = day]
                    ELSE IF k \in replacing THEN [cards[k] EXCEPT !.status = "replaced", !.at = day]
                    ELSE IF k \in expiring THEN [cards[k] EXCEPT !.status = "expired", !.at = day]
                    ELSE cards[k]] \o new
               /\ held' = Extend(held, [k \in {Len(cards) + n : n \in DOMAIN new} |->
                                          new[k - Len(cards)]])
               /\ log' = Inserted(Updated(log, "cards", blocking \cup replacing \cup expiring),
                                  "cards", Len(new))
  /\ UNCHANGED <<day, customers, addresses, accounts, spends, alerts, open, lastId, purged, gone>>

(* What updates a set of customers, and says so. *)
Restamp(S) ==
  /\ customers' = [c \in DOMAIN customers |->
       IF c \in S THEN [customers[c] EXCEPT !.at = day] ELSE customers[c]]
  /\ log' = Updated(log, "customers", S)

(* Risk band, KYC, contact or surname, of customers who hold an account.    *)
ChangeCustomers ==
  /\ Goes("customers", "addresses")
  /\ \E S \in SUBSET {c \in DOMAIN customers : ~ customers[c].deleted /\ c \in DOMAIN accounts} :
       Spend(Cardinality(S)) /\ Restamp(S)
  /\ UNCHANGED <<day, addresses, accounts, cards, spends, alerts, open, held, lastId, purged, gone>>

(* The day the old address ends. *)
LastDay == day - 1

(* A move closes the address in force and opens a new one.                  *)
MoveAddresses ==
  /\ Goes("addresses", "onboard")
  /\ \E S \in SUBSET {k \in DOMAIN addresses : addresses[k].to = Forever} :
       LET rows == Listed(S)
       IN  /\ Spend(Cardinality(S))
           /\ addresses' = [k \in DOMAIN addresses |->
                IF k \in S THEN [addresses[k] EXCEPT !.to = LastDay, !.at = day]
                ELSE addresses[k]] \o [n \in DOMAIN rows |-> Address(addresses[rows[n]].cust)]
           /\ log' = Inserted(Updated(log, "customer_addresses", S),
                              "customer_addresses", Len(rows))
  /\ UNCHANGED <<day, customers, accounts, cards, spends, alerts, open, held, lastId, purged, gone>>
-----------------------------------------------------------------------------
(***************************************************************************)
(* The acquisition phase: a customer, an address, an account, and a card    *)
(* for most, which the snapshot does not learn of.                          *)
(***************************************************************************)
Onboard ==
  /\ Goes("onboard", "late")
  /\ \E n \in 0 .. budget, carded \in BOOLEAN :
       LET ids == lastId + 1 .. lastId + n
           rows == Listed(ids)
           new == IF carded THEN [k \in DOMAIN rows |-> Card(rows[k])] ELSE <<>>
       IN  /\ Spend(n)
           /\ customers' = Extend(customers, [c \in ids |-> Customer])
           /\ addresses' = addresses \o [k \in DOMAIN rows |-> Address(rows[k])]
           /\ accounts' = Extend(accounts, [c \in ids |-> [opened |-> day, closed |-> 0]])
           /\ cards' = cards \o new
           /\ open' = open \cup ids
           /\ lastId' = lastId + n
           /\ log' = Inserted(Inserted(Inserted(log, "customers", n),
                                       "customer_addresses", n), "cards", Len(new))
  /\ UNCHANGED <<day, spends, alerts, held, purged, gone>>
-----------------------------------------------------------------------------
(***************************************************************************)
(* The movement phase, as far as cards go: what was bought offline on an    *)
(* earlier day is presented, then the day's own purchases.  A purchase may  *)
(* raise an alert.                                                          *)
(***************************************************************************)
Purchase(new) ==
  /\ spends' = spends \o new
  /\ \E raised \in SUBSET DOMAIN new :
       /\ alerts' = alerts \o [n \in 1 .. Cardinality(raised) |->
                                 [raised |-> day, verdict |-> "open", ruled |-> 0, at |-> day]]
       /\ log' = Inserted(log, "fraud_alerts", Cardinality(raised))

(* Mutant of Admissible: the card's own life is not looked at.              *)
AdmissibleAccount(k, d) == accounts[held[k].acct].opened =< d

Admissible(k, d) ==
  /\ accounts[held[k].acct].opened =< d
  /\ held[k].issued =< d /\ d < held[k].expiry

ClearLateArrivals ==
  /\ Goes("late", "day")
  /\ \E S \in SUBSET {p \in (DOMAIN held) \X Lags :
            held[p[1]].acct \in open /\ Usable(p[1]) /\ Admissible(p[1], day - p[2])} :
       LET rows == Listed(S)
       IN  /\ Spend(Cardinality(S))
           /\ Purchase([n \in DOMAIN rows |-> [card |-> rows[n][1], booked |-> day - rows[n][2]]])
  /\ UNCHANGED <<day, customers, addresses, accounts, cards, open, held, lastId, purged, gone>>

SpendToday ==
  /\ Goes("day", "dispositions")
  /\ \E S \in SUBSET {k \in DOMAIN held : held[k].acct \in open /\ Usable(k)
                                          /\ accounts[held[k].acct].opened # day} :
       LET rows == Listed(S)
       IN  /\ Spend(Cardinality(S))
           /\ Purchase([n \in DOMAIN rows |-> [card |-> rows[n], booked |-> day]])
  /\ UNCHANGED <<day, customers, addresses, accounts, cards, open, held, lastId, purged, gone>>
-----------------------------------------------------------------------------
(***************************************************************************)
(* The dispositions phase.                                                 *)
(***************************************************************************)
(* Mutant of Due: only what falls due today, so the backlog is never worked. *)
DueToday(i) == alerts[i].raised < day /\ alerts[i].raised + DispositionLag[i] = day

(* The lag is the alert's own, not redrawn each day.                        *)
Due(i) == alerts[i].raised < day /\ alerts[i].raised + DispositionLag[i] =< day

DisposeAlerts ==
  /\ Goes("dispositions", "duplicates")
  /\ LET due == {i \in DOMAIN alerts : alerts[i].verdict \notin Final /\ Due(i)}
     IN  /\ \E confirmed \in SUBSET due :
              alerts' = [i \in DOMAIN alerts |->
                IF i \notin due THEN alerts[i]
                ELSE [alerts[i] EXCEPT !.ruled = day, !.at = day,
                        !.verdict = IF i \in confirmed THEN "confirmed_fraud" ELSE "dismissed"]]
         /\ log' = Updated(log, "fraud_alerts", due)
  /\ UNCHANGED <<day, customers, addresses, accounts, cards, spends, open, held, lastId, purged,
                 gone, budget>>
-----------------------------------------------------------------------------
(***************************************************************************)
(* The dirt phase.                                                         *)
(***************************************************************************)
(* Mutant of Existing: a row this tick inserted is edited as well.          *)
ExistingAny == {c \in DOMAIN customers : ~ customers[c].deleted}

(* Customers that were there before this tick.                              *)
Existing == {c \in DOMAIN customers : ~ customers[c].deleted /\ customers[c].made < day}

(* The same person entered again: a row nothing refers to.                  *)
PlantDuplicates ==
  /\ Goes("duplicates", "dirt")
  /\ \E S \in SUBSET Existing :
       LET ids == lastId + 1 .. lastId + Cardinality(S)
       IN  /\ Spend(Cardinality(S))
           /\ customers' = Extend(customers, [c \in ids |-> Customer])
           /\ lastId' = lastId + Cardinality(S)
           /\ log' = Inserted(log, "customers", Cardinality(S))
  /\ UNCHANGED <<day, addresses, accounts, cards, spends, alerts, open, held, purged, gone>>

(* A rough name, a lapsed KYC status, an email removed.                     *)
DirtyCustomers ==
  /\ Goes("dirt", "resolve")
  /\ \E S \in SUBSET Existing : Spend(Cardinality(S)) /\ Restamp(S)
  /\ UNCHANGED <<day, addresses, accounts, cards, spends, alerts, open, held, lastId, purged, gone>>
-----------------------------------------------------------------------------
(***************************************************************************)
(* The deletes phase, and the commit.                                      *)
(***************************************************************************)

(* Every row with a foreign key to a customer. *)
Dependents == DOMAIN accounts \cup {addresses[k].cust : k \in DOMAIN addresses}

(* A row without dependents is tombstoned or purged.                        *)
ResolveDuplicates ==
  /\ Goes("resolve", "commit")
  /\ LET candidates == Existing \ Dependents
     IN  \E fate \in [candidates -> {"keep", "tombstone", "purge"}] :
           LET of(f) == {c \in candidates : fate[c] = f}
           IN  /\ customers' = [c \in DOMAIN customers \ of("purge") |->
                    IF c \in of("tombstone")
                    THEN [customers[c] EXCEPT !.deleted = TRUE, !.at = day] ELSE customers[c]]
               /\ purged' = of("purge")
               /\ log' = Updated(log, "customers", of("tombstone"))
  /\ UNCHANGED <<day, addresses, accounts, cards, spends, alerts, open, held, lastId, gone, budget>>

(* The keys are written once each: a key purged before fails the tick.      *)
Commit ==
  /\ Goes("commit", "idle")
  /\ purged \cap gone = {} /\ gone' = gone \cup purged
  /\ open' = {} /\ held' = [k \in {} |-> 0]
  /\ UNCHANGED <<day, registers, lastId, log, purged, budget>>
-----------------------------------------------------------------------------
(***************************************************************************)
(* The specification.                                                      *)
(***************************************************************************)
Init ==
  /\ day = 0 /\ step = "idle" /\ budget = Budget
  /\ open = {} /\ held = [k \in {} |-> 0] /\ lastId = 0 /\ log = Quiet
  /\ purged = {} /\ gone = {} /\ spends = <<>>
  /\ \E h \in Histories :
       /\ customers = h.customers /\ addresses = h.addresses /\ accounts = h.accounts
       /\ cards = h.cards /\ alerts = h.alerts

Lifecycle == CloseAccounts \/ SweepCards \/ ChangeCustomers \/ MoveAddresses
Movements == ClearLateArrivals \/ SpendToday
Dirt == PlantDuplicates \/ DirtyCustomers

Next ==
  \/ BeginTick \/ Lifecycle \/ Onboard \/ Movements \/ DisposeAlerts \/ Dirt
  \/ ResolveDuplicates \/ Commit

Spec == Init /\ [][Next]_vars
-----------------------------------------------------------------------------
(***************************************************************************)
(* Properties.                                                             *)
(***************************************************************************)
(* Invariants 1 and 2: a card is issued in the life of its account, and no  *)
(* purchase, however late it is presented, lies outside the validity of its *)
(* card, whatever the sweep of that day did to the card.                    *)
CardSpendsAreValid ==
  /\ \A k \in DOMAIN cards :
       LET a == accounts[cards[k].acct]
       IN  a.opened =< cards[k].issued /\ (a.closed # 0 => cards[k].issued =< a.closed)
  /\ \A s \in DOMAIN spends :
       LET card == cards[spends[s].card]
       IN  /\ card.issued =< spends[s].booked /\ spends[s].booked < card.expiry
           /\ card.status # "issued"

(* No alert is left beyond its analyst's lag, the backlog of the history    *)
(* included, and no verdict comes on the day of the alert.                  *)
AlertsAreWorked ==
  /\ step = "idle" /\ day > 0 => \A i \in DOMAIN alerts :
       alerts[i].raised < day /\ alerts[i].raised + DispositionLag[i] =< day => alerts[i].verdict \in Final
  /\ \A i \in DOMAIN alerts : alerts[i].verdict \in Final => alerts[i].raised < alerts[i].ruled

(* What reconcile counts in the window of the day, and what the log has.    *)
StampedToday(t) ==
  CASE t = "customers" -> Cardinality({c \in DOMAIN customers : customers[c].at = day})
    [] t = "customer_addresses" -> Cardinality({k \in DOMAIN addresses : addresses[k].at = day})
    [] t = "cards" -> Cardinality({k \in DOMAIN cards : cards[k].at = day})
    [] t = "fraud_alerts" -> Cardinality({k \in DOMAIN alerts : alerts[k].at = day})
Logged(t) == log[t].inserted + Cardinality(log[t].updated)
Agrees(t) == Logged(t) = StampedToday(t)

(* The log of a committed tick agrees exactly with the rows in its window,  *)
(* as reconcile.py has it and assert_agrees demands.  It is false: a row    *)
(* that dirt updated and the deletes of the same tick purged is logged and  *)
(* in no window.                                                            *)
LogReconciles == step = "idle" /\ day > 0 => \A t \in Tables : Agrees(t)

(* No other way leads to a disagreement: whatever the phases of a tick do   *)
(* to one row one after the other, every table agrees exactly, customers on *)
(* every day on which the tick purged no row it had updated.                *)
OnlyPurgesDisagree ==
  step = "idle" /\ day > 0 =>
    \A t \in Tables : Agrees(t) \/ (t = "customers" /\ log[t].updated \cap purged # {})

=============================================================================
