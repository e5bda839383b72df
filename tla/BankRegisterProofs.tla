------------------------- MODULE BankRegisterProofs -------------------------
(***************************************************************************)
(* Proofs about BankRegister, for every seeded history, any number of days *)
(* and rows, any validity of cards and any lag of presentments and of      *)
(* analysts: types; the lives of accounts, cards and purchases; alerts;    *)
(* and that what a tick reports is what it stamped.                        *)
(***************************************************************************)
EXTENDS BankRegister, FiniteSetTheorems, WellFoundedInduction, SequenceTheorems, TLAPS

(* A set of naturals that is not empty has a least element. *)
LEMMA LeastNatural ==
  ASSUME NEW S, S \subseteq Nat, S # {}
  PROVE  \E i \in S : \A j \in S : i <= j
<1>1. PICK i \in S : \A j \in S : ~ (<<j, i>> \in OpToRel(<, Nat))
  BY NatLessThanWellFounded, WFMin, Zenon
<1>2. \A j \in S : ~ (j < i)
  BY <1>1 DEF OpToRel
<1> QED BY <1>2

(* A finite set of naturals has a bound: take one that has none, of the     *)
(* least size there is, and leave an element out.                           *)
LEMMA FiniteIsBounded ==
  ASSUME NEW S, S \subseteq Nat, IsFiniteSet(S)
  PROVE  \E b \in Nat : \A s \in S : s <= b
<1> DEFINE Bounded(T) == \E b \in Nat : \A t \in T : t <= b
           Sizes == {n \in Nat : \E T \in SUBSET Nat :
                       IsFiniteSet(T) /\ Cardinality(T) = n /\ ~ Bounded(T)}
<1>1. SUFFICES ASSUME ~ Bounded(S) PROVE FALSE
  OBVIOUS
<1>2. Cardinality(S) \in Sizes
  BY <1>1, FS_CardinalityType
<1>3. PICK n \in Sizes : \A m \in Sizes : n <= m
  BY <1>2, LeastNatural
<1>4. PICK T \in SUBSET Nat : IsFiniteSet(T) /\ Cardinality(T) = n /\ ~ Bounded(T)
  BY <1>3
<1>5. PICK x \in T : TRUE
  BY <1>4
<1>6. IsFiniteSet(T \ {x}) /\ Cardinality(T \ {x}) = n - 1
  BY <1>4, <1>5, FS_RemoveElement
<1>7. n - 1 \in Nat
  BY <1>6, FS_CardinalityType
<1>8. Bounded(T \ {x})
  BY <1>3, <1>6, <1>7
<1>9. PICK b \in Nat : \A t \in T \ {x} : t <= b
  BY <1>8
<1>10. x + b \in Nat /\ \A t \in T : t <= x + b
  BY <1>4, <1>5, <1>9
<1> QED BY <1>4, <1>10

(* The largest of finitely many naturals. *)
LEMMA LargestNatural ==
  ASSUME NEW S, S \subseteq Nat, S # {}, IsFiniteSet(S)
  PROVE  Max(S) \in S /\ \A s \in S : s <= Max(S)
<1>1. PICK b \in Nat : \A s \in S : s <= b
  BY FiniteIsBounded
<1> DEFINE T == {b - s : s \in S}
<1>2. T \subseteq Nat /\ T # {}
  <2>1. \A s \in S : b - s \in Nat
    BY <1>1
  <2>2. PICK s \in S : TRUE
    OBVIOUS
  <2> QED BY <2>1, <2>2
<1>3. PICK t \in T : \A u \in T : t <= u
  BY <1>2, LeastNatural
<1>4. PICK m \in S : t = b - m
  BY <1>3
<1>5. \A s \in S : b - m <= b - s
  BY <1>3, <1>4
<1>6. \A s \in S : m >= s
  BY <1>1, <1>5
<1>7. Max(S) \in S /\ \A s \in S : Max(S) >= s
  BY <1>6 DEF Max
<1> QED BY <1>7

(* Listed names each element of a finite set. *)
LEMMA ListedNamesAll ==
  ASSUME NEW S, IsFiniteSet(S)
  PROVE  /\ Cardinality(S) \in Nat
         /\ Listed(S) \in [1 .. Cardinality(S) -> S]
         /\ Listed(S) \in Seq(S) /\ Len(Listed(S)) = Cardinality(S)
         /\ DOMAIN Listed(S) = 1 .. Cardinality(S)
         /\ \A s \in S : \E k \in DOMAIN Listed(S) : Listed(S)[k] = s
<1> DEFINE F == [1 .. Cardinality(S) -> S]
<1>1. Cardinality(S) \in Nat /\ ExistsBijection(1 .. Cardinality(S), S)
  BY FS_CardinalityType
<1>2. PICK f \in Bijection(1 .. Cardinality(S), S) : TRUE
  BY <1>1 DEF ExistsBijection
<1>3. f \in F /\ \A s \in S : \E k \in DOMAIN f : f[k] = s
  BY <1>2 DEF Bijection, Surjection
<1>4. Listed(S) \in F /\ \A s \in S : \E k \in DOMAIN Listed(S) : Listed(S)[k] = s
  BY <1>3 DEF Listed
<1>5. Listed(S) \in Seq(S) /\ Len(Listed(S)) = Cardinality(S)
  BY <1>1, <1>4
<1> QED BY <1>1, <1>4, <1>5

(* The keys, or positions, of n new rows. *)
LEMMA KeysInARow ==
  ASSUME NEW l \in Nat, NEW n \in Nat
  PROVE  IsFiniteSet(l + 1 .. l + n) /\ Cardinality(l + 1 .. l + n) = n /\ l + 1 .. l + n \subseteq Nat
<1>1. \A a, b \in Int :
        IsFiniteSet(a .. b) /\ Cardinality(a .. b) = IF a > b THEN 0 ELSE b - a + 1
  BY FS_Interval
<1>2. l + 1 \in Int /\ l + n \in Int
  OBVIOUS
<1>3. IsFiniteSet(l + 1 .. l + n)
      /\ Cardinality(l + 1 .. l + n) = IF l + 1 > l + n THEN 0 ELSE (l + n) - (l + 1) + 1
  BY <1>1, <1>2
<1>4. (IF l + 1 > l + n THEN 0 ELSE (l + n) - (l + 1) + 1) = n
  OBVIOUS
<1> QED BY <1>3, <1>4

(* Rows added to the end of a table. *)
LEMMA Joined ==
  ASSUME NEW R, NEW s \in Seq(R), NEW t \in Seq(R)
  PROVE  /\ s \o t \in Seq(R) /\ Len(s \o t) = Len(s) + Len(t)
         /\ DOMAIN s = 1 .. Len(s) /\ DOMAIN t = 1 .. Len(t)
         /\ DOMAIN (s \o t) = 1 .. Len(s) + Len(t)
         /\ \A k \in DOMAIN s : (s \o t)[k] = s[k]
         /\ \A n \in DOMAIN t : Len(s) + n \in DOMAIN (s \o t) /\ (s \o t)[Len(s) + n] = t[n]
         /\ \A k \in DOMAIN (s \o t) : k \notin DOMAIN s =>
              k - Len(s) \in DOMAIN t /\ (s \o t)[k] = t[k - Len(s)]
OBVIOUS

-----------------------------------------------------------------------------
(***************************************************************************)
(* The invariant.                                                          *)
(***************************************************************************)
BeforeOnboard == {"accounts", "cards", "customers", "addresses", "onboard"}
Steps ==
  BeforeOnboard \cup {"idle", "late", "day", "dispositions", "duplicates", "dirt", "resolve", "commit"}
Worked == {"idle", "duplicates", "dirt", "resolve", "commit"}
Spent == [card : Nat, booked : Int]
Entry == [inserted : Nat, updated : SUBSET Nat]

CustomerTypes ==
  /\ IsFiniteSet(DOMAIN customers) /\ DOMAIN customers \subseteq Nat
  /\ customers \in [DOMAIN customers -> CustomerRow]
  /\ DOMAIN accounts \subseteq DOMAIN customers
  /\ accounts \in [DOMAIN accounts -> AccountRow]

Types ==
  /\ day \in Nat /\ step \in Steps /\ budget \in Nat /\ lastId \in Nat
  /\ CustomerTypes
  /\ addresses \in Seq(AddressRow) /\ cards \in Seq(CardRow)
  /\ spends \in Seq(Spent) /\ alerts \in Seq(AlertRow)
  /\ open \subseteq DOMAIN accounts
  /\ DOMAIN held \subseteq DOMAIN cards /\ held \in [DOMAIN held -> CardRow]
  /\ log \in [Tables -> Entry] /\ purged \subseteq Nat

(* Nothing is stamped after the day that is ticked. *)
Dated ==
  /\ \A c \in DOMAIN customers : customers[c].made <= day /\ customers[c].at <= day
  /\ \A k \in DOMAIN addresses : addresses[k].from <= day /\ addresses[k].at <= day
  /\ \A a \in DOMAIN accounts : accounts[a].opened <= day
  /\ \A k \in DOMAIN cards : cards[k].issued <= day /\ cards[k].at <= day
  /\ \A i \in DOMAIN alerts : alerts[i].raised <= day /\ alerts[i].at <= day

-----------------------------------------------------------------------------
(***************************************************************************)
(* Types.                                                                  *)
(***************************************************************************)
(* The largest key of the customers, or 0. *)
LEMMA LastIdIsLargest ==
  ASSUME CustomerTypes
  PROVE  /\ Max(DOMAIN customers \cup {0}) \in Nat
         /\ \A c \in DOMAIN customers : c <= Max(DOMAIN customers \cup {0})
<1> DEFINE S == DOMAIN customers \cup {0}
<1>1. S \subseteq Nat /\ S # {} /\ IsFiniteSet(S)
  BY FS_AddElement DEF CustomerTypes
<1>2. Max(S) \in S /\ \A s \in S : s <= Max(S)
  BY <1>1, LargestNatural
<1> QED BY <1>1, <1>2

(* New rows of customers under keys that continue from the largest. *)
LEMMA ExtendedCustomers ==
  ASSUME CustomerTypes, day \in Int, lastId \in Nat, NEW n \in Nat,
         NEW rows, rows = Extend(customers, [c \in lastId + 1 .. lastId + n |-> Customer])
  PROVE  /\ DOMAIN rows = DOMAIN customers \cup (lastId + 1 .. lastId + n)
         /\ IsFiniteSet(DOMAIN rows) /\ DOMAIN rows \subseteq Nat
         /\ rows \in [DOMAIN rows -> CustomerRow]
<1> DEFINE ids == lastId + 1 .. lastId + n
           more == [c \in ids |-> Customer]
<1>1. DOMAIN rows = DOMAIN customers \cup ids
  BY DEF Extend
<1>2. IsFiniteSet(ids) /\ ids \subseteq Nat
  BY FS_Interval
<1>3. IsFiniteSet(DOMAIN rows) /\ DOMAIN rows \subseteq Nat
  BY <1>1, <1>2, FS_Union, ZenonT(40) DEF CustomerTypes
<1>4. \A c \in DOMAIN rows : rows[c] = IF c \in ids THEN Customer ELSE customers[c]
  BY DEF Extend
<1>5. Customer \in CustomerRow
  BY DEF Customer, CustomerRow
<1>6. rows = [c \in DOMAIN rows |-> rows[c]]
  BY DEF Extend
<1>7. \A c \in DOMAIN rows : rows[c] \in CustomerRow
  BY <1>1, <1>4, <1>5 DEF CustomerTypes
<1> QED BY <1>1, <1>3, <1>6, <1>7

(* A seeded register has the types. *)
LEMMA TypesInit == Init => Types
<1> SUFFICES ASSUME Init PROVE Types
  OBVIOUS
<1>1. PICK h \in Histories :
        /\ customers = h.customers /\ addresses = h.addresses /\ accounts = h.accounts
        /\ cards = h.cards /\ alerts = h.alerts
  BY DEF Init
<1>2. Seeded(h)
  BY <1>1, HistoryAssumption
<1>3. log \in [Tables -> Entry]
  BY DEF Init, Quiet, Entry
<1>4. CustomerTypes
  BY <1>1, <1>2 DEF CustomerTypes, Seeded
<1>5. addresses \in Seq(AddressRow) /\ cards \in Seq(CardRow) /\ alerts \in Seq(AlertRow)
  BY <1>1, <1>2 DEF Seeded
<1>6. DOMAIN held = {} /\ held \in [DOMAIN held -> CardRow]
  BY DEF Init
<1> QED BY <1>3, <1>4, <1>5, <1>6, RegisterAssumption DEF Init, Types, Steps, BeforeOnboard

(* What the report records of an insert, and of an update. *)
LEMMA InsertRecorded ==
  ASSUME NEW l \in [Tables -> Entry], NEW t \in Tables, NEW n \in Nat
  PROVE  /\ Inserted(l, t, n) \in [Tables -> Entry]
         /\ Inserted(l, t, n)[t].inserted = l[t].inserted + n
         /\ Inserted(l, t, n)[t].updated = l[t].updated
         /\ \A u \in Tables \ {t} : Inserted(l, t, n)[u] = l[u]
BY DEF Inserted, Entry

(* The same of an update. *)
LEMMA UpdateRecorded ==
  ASSUME NEW l \in [Tables -> Entry], NEW t \in Tables, NEW S \in SUBSET Nat
  PROVE  /\ Updated(l, t, S) \in [Tables -> Entry]
         /\ Updated(l, t, S)[t].inserted = l[t].inserted
         /\ Updated(l, t, S)[t].updated = l[t].updated \cup S
         /\ \A u \in Tables \ {t} : Updated(l, t, S)[u] = l[u]
BY DEF Updated, Entry

(* The tables of the report. *)
LEMMA TableNames ==
  /\ "customers" \in Tables /\ "customer_addresses" \in Tables
  /\ "cards" \in Tables /\ "fraud_alerts" \in Tables
BY DEF Tables

(* A set of positions of a sequence is finite. *)
LEMMA PositionsAreFinite ==
  ASSUME NEW R, NEW s \in Seq(R), NEW S \in SUBSET DOMAIN s
  PROVE  IsFiniteSet(S) /\ S \subseteq Nat
<1>1. DOMAIN s = 1 .. Len(s) /\ Len(s) \in Nat
  OBVIOUS
<1>2. IsFiniteSet(DOMAIN s)
  BY <1>1, FS_Interval
<1> QED BY <1>1, <1>2, FS_Subset

(* What a tick draws is taken from the budget. *)
LEMMA SpendKeepsBudget ==
  ASSUME budget \in Nat, NEW n \in Nat, Spend(n)
  PROVE  budget' \in Nat
BY DEF Spend

(* A card that is issued today, and an address that begins today, are rows  *)
(* of their tables.                                                         *)
LEMMA CardIsRow ==
  ASSUME day \in Nat, NEW a \in Nat
  PROVE  Card(a) \in CardRow
BY RegisterAssumption DEF Card, CardRow, Live

(* A new address is a row. *)
LEMMA AddressIsRow ==
  ASSUME day \in Nat, NEW c \in Nat
  PROVE  Address(c) \in AddressRow
BY RegisterAssumption DEF Address, AddressRow, Forever

(* The tick opens: types, and what the snapshot holds. *)
LEMMA BeginTickTypes ==
  ASSUME Types, BeginTick
  PROVE  Types'
<1>1. lastId' \in Nat
  BY LastIdIsLargest DEF Types, BeginTick
<1>2. log' \in [Tables -> Entry]
  BY DEF BeginTick, Quiet, Entry
<1>3. DOMAIN held' \subseteq DOMAIN cards /\ held' \in [DOMAIN held' -> CardRow]
  BY DEF BeginTick, Held, Types
<1>4. CustomerTypes'
  BY DEF BeginTick, registers, Types, CustomerTypes
<1> QED BY <1>1, <1>2, <1>3, <1>4 DEF BeginTick, Goes, registers, Types, Steps, BeforeOnboard

(* The accounts that close. *)
LEMMA CloseAccountsTypes ==
  ASSUME Types, CloseAccounts
  PROVE  Types'
<1>1. PICK S \in SUBSET open :
        /\ Spend(Cardinality(S))
        /\ accounts' = [a \in DOMAIN accounts |->
             IF a \in S THEN [accounts[a] EXCEPT !.closed = day] ELSE accounts[a]]
        /\ open' = open \ S
  BY DEF CloseAccounts
<1>2. IsFiniteSet(S)
  BY <1>1, FS_Subset DEF Types, CustomerTypes
<1>3. budget' \in Nat
  BY <1>1, <1>2, FS_CardinalityType, SpendKeepsBudget DEF Types
<1>4. accounts' \in [DOMAIN accounts -> AccountRow]
  <2>1. \A a \in DOMAIN accounts : accounts[a] \in AccountRow
    BY DEF Types, CustomerTypes
  <2>2. \A a \in DOMAIN accounts : [accounts[a] EXCEPT !.closed = day] \in AccountRow
    BY <2>1 DEF AccountRow, Types
  <2> QED BY <1>1, <2>1, <2>2
<1>5. CustomerTypes' /\ DOMAIN accounts' = DOMAIN accounts
  BY <1>4 DEF CloseAccounts, Types, CustomerTypes
<1> QED BY <1>1, <1>3, <1>5 DEF CloseAccounts, Goes, Types, Steps, BeforeOnboard

(* A customer that is stamped stays one. *)
LEMMA RestampTypes ==
  ASSUME Types, NEW S \in SUBSET DOMAIN customers, Restamp(S), Spend(Cardinality(S)),
         UNCHANGED <<accounts>>
  PROVE  CustomerTypes' /\ log' \in [Tables -> Entry] /\ budget' \in Nat
<1>1. IsFiniteSet(S) /\ S \in SUBSET Nat
  BY FS_Subset DEF Types, CustomerTypes
<1>2. budget' \in Nat
  BY <1>1, FS_CardinalityType, SpendKeepsBudget DEF Types
<1>3. log' \in [Tables -> Entry]
  BY <1>1, TableNames, UpdateRecorded DEF Restamp, Types
<1>4. customers' \in [DOMAIN customers -> CustomerRow]
  <2>1. \A c \in DOMAIN customers : customers[c] \in CustomerRow
    BY DEF Types, CustomerTypes
  <2>2. \A c \in DOMAIN customers : [customers[c] EXCEPT !.at = day] \in CustomerRow
    BY <2>1 DEF CustomerRow, Types
  <2> QED BY <2>1, <2>2 DEF Restamp
<1> QED BY <1>2, <1>3, <1>4 DEF Types, CustomerTypes

(* The customers who change, and those the dirt phase edits. *)
LEMMA ChangeCustomersTypes ==
  ASSUME Types, ChangeCustomers
  PROVE  Types'
<1>1. PICK S \in SUBSET DOMAIN customers : Spend(Cardinality(S)) /\ Restamp(S)
  BY DEF ChangeCustomers
<1>2. CustomerTypes' /\ log' \in [Tables -> Entry] /\ budget' \in Nat
  BY <1>1, RestampTypes DEF ChangeCustomers
<1> QED BY <1>2 DEF ChangeCustomers, Goes, Types, Steps, BeforeOnboard

(* The same of the dirt phase. *)
LEMMA DirtyCustomersTypes ==
  ASSUME Types, DirtyCustomers
  PROVE  Types'
<1>1. PICK S \in SUBSET DOMAIN customers : Spend(Cardinality(S)) /\ Restamp(S)
  BY DEF DirtyCustomers, Existing
<1>2. CustomerTypes' /\ log' \in [Tables -> Entry] /\ budget' \in Nat
  BY <1>1, RestampTypes DEF DirtyCustomers
<1> QED BY <1>2 DEF DirtyCustomers, Goes, Types, Steps, BeforeOnboard

-----------------------------------------------------------------------------
(***************************************************************************)
(* What the handlers that add rows do to their tables.                     *)
(***************************************************************************)
(* The cards as the sweep leaves those that were there. *)
Swept(kept, U) ==
  /\ kept \in Seq(CardRow) /\ Len(kept) = Len(cards)
  /\ \A k \in DOMAIN cards :
       /\ kept[k].acct = cards[k].acct
       /\ kept[k].issued = cards[k].issued /\ kept[k].expiry = cards[k].expiry
       /\ k \notin U => kept[k] = cards[k]
       /\ k \in U => kept[k].at = day /\ kept[k].status # "issued"

(* Cards of open accounts, issued today. *)
Issued(new, accts) ==
  new \in Seq(CardRow) /\ \A n \in DOMAIN new : \E a \in accts : new[n] = Card(a)

(* What the sweep does to the table, without its cases: U is updated, and   *)
(* new cards follow.                                                        *)
LEMMA SweepEffect ==
  ASSUME Types, SweepCards
  PROVE  \E U \in SUBSET DOMAIN held, kept \in Seq(CardRow), new \in Seq(CardRow) :
           /\ Swept(kept, U) /\ Issued(new, open)
           /\ cards' = kept \o new
           /\ held' = Extend(held, [k \in {Len(cards) + n : n \in DOMAIN new} |-> new[k - Len(cards)]])
           /\ log' = Inserted(Updated(log, "cards", U), "cards", Len(new))
           /\ budget' \in Nat
<1> DEFINE serviced == {k \in DOMAIN held : held[k].acct \in open}
           expiring == {k \in serviced : held[k].status = "active" /\ held[k].expiry =< day}
           without == {a \in open : \A k \in CardsOf(a) : ~ Usable(k)}
<1>1. PICK blocking \in SUBSET {k \in serviced \ expiring : held[k].status = "active"},
           replacing \in SUBSET {k \in serviced : held[k].status = "blocked"},
           healed \in SUBSET without :
           LET lost == {held[k].acct : k \in expiring \cup replacing}
               rows == Listed(lost \cup healed)
               new == [k \in DOMAIN rows |-> Card(rows[k])]
           IN  /\ Spend(Cardinality(blocking \cup replacing \cup (healed \ lost)))
               /\ cards' = [k \in DOMAIN cards |->
                    IF k \in blocking THEN [cards[k] EXCEPT !.status = "blocked", !.at = day]
                    ELSE IF k \in replacing THEN [cards[k] EXCEPT !.status = "replaced", !.at = day]
                    ELSE IF k \in expiring THEN [cards[k] EXCEPT !.status = "expired", !.at = day]
                    ELSE cards[k]] \o new
               /\ held' = Extend(held, [k \in {Len(cards) + n : n \in DOMAIN new} |->
                                          new[k - Len(cards)]])
               /\ log' = Inserted(Updated(log, "cards", blocking \cup replacing \cup expiring),
                                  "cards", Len(new))
  BY DEF SweepCards
<1> DEFINE lost == {held[k].acct : k \in expiring \cup replacing}
           rows == Listed(lost \cup healed)
           new == [k \in DOMAIN rows |-> Card(rows[k])]
           U == blocking \cup replacing \cup expiring
           kept == [k \in DOMAIN cards |->
                    IF k \in blocking THEN [cards[k] EXCEPT !.status = "blocked", !.at = day]
                    ELSE IF k \in replacing THEN [cards[k] EXCEPT !.status = "replaced", !.at = day]
                    ELSE IF k \in expiring THEN [cards[k] EXCEPT !.status = "expired", !.at = day]
                    ELSE cards[k]]
<1>2. /\ Spend(Cardinality(blocking \cup replacing \cup (healed \ lost)))
      /\ cards' = kept \o new
      /\ held' = Extend(held, [k \in {Len(cards) + n : n \in DOMAIN new} |-> new[k - Len(cards)]])
      /\ log' = Inserted(Updated(log, "cards", U), "cards", Len(new))
  BY <1>1
<1>3. U \in SUBSET DOMAIN held /\ lost \cup healed \subseteq open
  OBVIOUS
<1>4. open \subseteq Nat /\ IsFiniteSet(open) /\ IsFiniteSet(DOMAIN held)
  BY FS_Subset, PositionsAreFinite DEF Types, CustomerTypes
<1>5. IsFiniteSet(lost \cup healed) /\ IsFiniteSet(blocking \cup replacing \cup (healed \ lost))
  <2>1. IsFiniteSet(healed \ lost) /\ IsFiniteSet(blocking \cup replacing)
    BY <1>3, <1>4, FS_Subset
  <2> QED BY <2>1, <1>3, <1>4, FS_Subset, FS_Union
<1>6. budget' \in Nat
  BY <1>2, <1>5, FS_CardinalityType, SpendKeepsBudget DEF Types
<1>7. new \in Seq(CardRow) /\ Issued(new, open)
  <2> DEFINE N == Cardinality(lost \cup healed)
  <2>1. N \in Nat /\ rows \in [1 .. N -> lost \cup healed]
    BY <1>5, ListedNamesAll
  <2> HIDE DEF rows, lost, N
  <2>2. \A n \in DOMAIN rows : rows[n] \in open /\ rows[n] \in Nat
    BY <2>1, <1>3, <1>4
  <2>3. \A n \in DOMAIN rows : Card(rows[n]) \in CardRow
    BY <2>2, CardIsRow DEF Types
  <2>4. new \in Seq(CardRow)
    BY <2>1, <2>3
  <2> QED BY <2>2, <2>4 DEF Issued
<1>8. kept \in Seq(CardRow) /\ Swept(kept, U)
  <2>1. DOMAIN cards = 1 .. Len(cards) /\ Len(cards) \in Nat /\ \A k \in DOMAIN cards : cards[k] \in CardRow
    BY DEF Types
  <2>2. \A k \in DOMAIN cards, t \in {"blocked", "replaced", "expired"} :
          LET c == [cards[k] EXCEPT !.status = t, !.at = day]
          IN  /\ c \in CardRow /\ c.acct = cards[k].acct
              /\ c.issued = cards[k].issued /\ c.expiry = cards[k].expiry
              /\ c.at = day /\ c.status # "issued"
    <3> TAKE k \in DOMAIN cards, t \in {"blocked", "replaced", "expired"}
    <3>1. day \in Int /\ cards[k] \in CardRow
      BY <2>1 DEF Types
    <3> QED BY <3>1 DEF CardRow, Live
  <2>3. \A k \in DOMAIN cards :
       /\ kept[k] \in CardRow
       /\ kept[k].acct = cards[k].acct
       /\ kept[k].issued = cards[k].issued /\ kept[k].expiry = cards[k].expiry
       /\ k \notin U => kept[k] = cards[k]
       /\ k \in U => kept[k].at = day /\ kept[k].status # "issued"
    <3> TAKE k \in DOMAIN cards
    <3>1. CASE k \in blocking
      BY <3>1, <2>2
    <3>2. CASE k \notin blocking /\ k \in replacing
      BY <3>2, <2>2
    <3>3. CASE k \notin blocking /\ k \notin replacing /\ k \in expiring
      BY <3>3, <2>2
    <3>4. CASE k \notin U
      BY <3>4, <2>1
    <3> QED BY <3>1, <3>2, <3>3, <3>4
  <2>4. kept = [k \in 1 .. Len(cards) |-> kept[k]]
    BY <2>1
  <2> HIDE DEF kept, U
  <2>5. kept \in Seq(CardRow) /\ Len(kept) = Len(cards)
    BY <2>1, <2>3, <2>4
  <2> QED BY <2>3, <2>5 DEF Swept
<1> HIDE DEF U, kept, new
<1> QED BY <1>2, <1>3, <1>6, <1>7, <1>8

(* The sweep keeps the types. *)
LEMMA SweepCardsTypes ==
  ASSUME Types, SweepCards
  PROVE  Types'
<1>1. PICK U \in SUBSET DOMAIN held, kept \in Seq(CardRow), new \in Seq(CardRow) :
           /\ Swept(kept, U) /\ Issued(new, open)
           /\ cards' = kept \o new
           /\ held' = Extend(held, [k \in {Len(cards) + n : n \in DOMAIN new} |-> new[k - Len(cards)]])
           /\ log' = Inserted(Updated(log, "cards", U), "cards", Len(new))
           /\ budget' \in Nat
  BY SweepEffect
<1>2. U \in SUBSET Nat
  BY PositionsAreFinite DEF Types
<1>3. log' \in [Tables -> Entry]
  <2>1. Updated(log, "cards", U) \in [Tables -> Entry]
    BY <1>2, TableNames, UpdateRecorded DEF Types
  <2>2. Len(new) \in Nat
    OBVIOUS
  <2> QED BY <1>1, <2>1, <2>2, TableNames, InsertRecorded
<1>4. cards' \in Seq(CardRow) /\ DOMAIN cards' = 1 .. Len(cards) + Len(new)
  <2>1. kept \o new \in Seq(CardRow) /\ DOMAIN (kept \o new) = 1 .. Len(kept) + Len(new)
    BY Joined
  <2> QED BY <2>1, <1>1 DEF Swept
<1>5. DOMAIN cards = 1 .. Len(cards) /\ Len(cards) \in Nat /\ DOMAIN new = 1 .. Len(new) /\ Len(new) \in Nat
  BY DEF Types
<1>6. DOMAIN held' \subseteq DOMAIN cards' /\ held' \in [DOMAIN held' -> CardRow]
  <2> DEFINE ks == {Len(cards) + n : n \in DOMAIN new}
  <2>1. DOMAIN held' = DOMAIN held \cup ks
    BY <1>1 DEF Extend
  <2>2. ks \subseteq DOMAIN cards'
    BY <1>4, <1>5
  <2>3. \A k \in DOMAIN held' : held'[k] = IF k \in ks THEN new[k - Len(cards)] ELSE held[k]
    BY <1>1 DEF Extend
  <2>4. \A k \in ks : k - Len(cards) \in DOMAIN new
    BY <1>5
  <2>5. \A k \in DOMAIN held' : held'[k] \in CardRow
    BY <2>1, <2>3, <2>4 DEF Types
  <2>6. held' = [k \in DOMAIN held' |-> held'[k]]
    BY <1>1 DEF Extend
  <2>7. DOMAIN held \subseteq DOMAIN cards'
    BY <1>4, <1>5 DEF Types
  <2> QED BY <2>1, <2>2, <2>5, <2>6, <2>7
<1>7. CustomerTypes'
  BY DEF SweepCards, Types, CustomerTypes
<1> QED BY <1>1, <1>3, <1>4, <1>6, <1>7 DEF SweepCards, Goes, Types, Steps, BeforeOnboard

(* The addresses as the moves leave those that were there, and new ones. *)
Moved(kept, S) ==
  /\ kept \in Seq(AddressRow) /\ Len(kept) = Len(addresses)
  /\ \A k \in DOMAIN addresses :
       /\ kept[k].from = addresses[k].from
       /\ k \notin S => kept[k] = addresses[k]
       /\ k \in S => kept[k].at = day

Settled(new) ==
  new \in Seq(AddressRow) /\ \A n \in DOMAIN new : \E c \in Nat : new[n] = Address(c)

(* The moves: S ends, and new addresses follow. *)
LEMMA MoveEffect ==
  ASSUME Types, MoveAddresses
  PROVE  \E S \in SUBSET DOMAIN addresses, kept \in Seq(AddressRow), new \in Seq(AddressRow) :
           /\ Moved(kept, S) /\ Settled(new)
           /\ addresses' = kept \o new
           /\ log' = Inserted(Updated(log, "customer_addresses", S), "customer_addresses", Len(new))
           /\ budget' \in Nat
<1>1. PICK S \in SUBSET {k \in DOMAIN addresses : addresses[k].to = Forever} :
       LET rows == Listed(S)
       IN  /\ Spend(Cardinality(S))
           /\ addresses' = [k \in DOMAIN addresses |->
                IF k \in S THEN [addresses[k] EXCEPT !.to = LastDay, !.at = day]
                ELSE addresses[k]] \o [n \in DOMAIN rows |-> Address(addresses[rows[n]].cust)]
           /\ log' = Inserted(Updated(log, "customer_addresses", S),
                              "customer_addresses", Len(rows))
  BY DEF MoveAddresses
<1> DEFINE N == Cardinality(S)
           rows == Listed(S)
           new == [n \in DOMAIN rows |-> Address(addresses[rows[n]].cust)]
           kept == [k \in DOMAIN addresses |->
                IF k \in S THEN [addresses[k] EXCEPT !.to = LastDay, !.at = day] ELSE addresses[k]]
<1>2. IsFiniteSet(S) /\ S \in SUBSET DOMAIN addresses
  BY PositionsAreFinite DEF Types
<1>3. N \in Nat /\ rows \in [1 .. N -> S] /\ Len(rows) = N /\ DOMAIN rows = 1 .. N
  BY <1>2, ListedNamesAll
<1>4. budget' \in Nat
  BY <1>1, <1>3, SpendKeepsBudget DEF Types
<1>5. addresses' = kept \o new
      /\ log' = Inserted(Updated(log, "customer_addresses", S), "customer_addresses", Len(rows))
  BY <1>1
<1>6. DOMAIN addresses = 1 .. Len(addresses) /\ Len(addresses) \in Nat
      /\ \A k \in DOMAIN addresses : addresses[k] \in AddressRow
  BY DEF Types
<1>7. kept \in Seq(AddressRow) /\ Moved(kept, S)
  <2>1. LastDay \in Int /\ day \in Int
    BY DEF LastDay, Types
  <2>2. \A k \in DOMAIN addresses :
          LET a == [addresses[k] EXCEPT !.to = LastDay, !.at = day]
          IN  a \in AddressRow /\ a.from = addresses[k].from /\ a.at = day
    BY <2>1, <1>6 DEF AddressRow
  <2>3. \A k \in DOMAIN addresses :
          /\ kept[k] \in AddressRow /\ kept[k].from = addresses[k].from
          /\ k \notin S => kept[k] = addresses[k]
          /\ k \in S => kept[k].at = day
    BY <2>2, <1>6
  <2>4. kept = [k \in 1 .. Len(addresses) |-> kept[k]]
    BY <1>6
  <2> HIDE DEF kept
  <2>5. kept \in Seq(AddressRow) /\ Len(kept) = Len(addresses)
    BY <1>6, <2>3, <2>4
  <2> QED BY <2>3, <2>5 DEF Moved
<1>8. new \in Seq(AddressRow) /\ Settled(new) /\ Len(new) = Len(rows)
  <2> HIDE DEF rows, N
  <2>1. \A n \in DOMAIN rows : addresses[rows[n]].cust \in Nat
    BY <1>2, <1>3, <1>6 DEF AddressRow
  <2>2. \A n \in DOMAIN rows : Address(addresses[rows[n]].cust) \in AddressRow
    BY <2>1, AddressIsRow DEF Types
  <2>3. new \in Seq(AddressRow) /\ Len(new) = N
    BY <1>3, <2>2
  <2> QED BY <1>3, <2>1, <2>3 DEF Settled
<1> HIDE DEF kept, new, rows
<1> QED BY <1>2, <1>4, <1>5, <1>7, <1>8

(* The moves keep the types. *)
LEMMA MoveAddressesTypes ==
  ASSUME Types, MoveAddresses
  PROVE  Types'
<1>1. PICK S \in SUBSET DOMAIN addresses, kept \in Seq(AddressRow), new \in Seq(AddressRow) :
           /\ Moved(kept, S) /\ Settled(new)
           /\ addresses' = kept \o new
           /\ log' = Inserted(Updated(log, "customer_addresses", S), "customer_addresses", Len(new))
           /\ budget' \in Nat
  BY MoveEffect
<1>2. log' \in [Tables -> Entry]
  <2>1. S \in SUBSET Nat
    BY PositionsAreFinite DEF Types
  <2>2. Updated(log, "customer_addresses", S) \in [Tables -> Entry]
    BY <2>1, TableNames, UpdateRecorded DEF Types
  <2>3. Len(new) \in Nat
    OBVIOUS
  <2> QED BY <1>1, <2>2, <2>3, TableNames, InsertRecorded
<1>3. addresses' \in Seq(AddressRow)
  BY <1>1
<1>4. CustomerTypes'
  BY DEF MoveAddresses, Types, CustomerTypes
<1> QED BY <1>1, <1>2, <1>3, <1>4 DEF MoveAddresses, Goes, Types, Steps, BeforeOnboard

(* A customer who joins, with an address, an account and perhaps a card. *)
Joining(n) == lastId + 1 .. lastId + n

(* Whoever joins has an unused key, an address, and a card or none. *)
LEMMA OnboardEffect ==
  ASSUME Types, Onboard
  PROVE  \E n \in Nat, homes \in Seq(AddressRow), new \in Seq(CardRow) :
           /\ customers' = Extend(customers, [c \in Joining(n) |-> Customer])
           /\ accounts' = Extend(accounts, [c \in Joining(n) |-> [opened |-> day, closed |-> 0]])
           /\ open' = open \cup Joining(n) /\ lastId' = lastId + n
           /\ addresses' = addresses \o homes /\ Settled(homes) /\ Len(homes) = n
           /\ cards' = cards \o new /\ Issued(new, Joining(n))
           /\ log' = Inserted(Inserted(Inserted(log, "customers", n),
                                       "customer_addresses", n), "cards", Len(new))
           /\ budget' \in Nat
<1>1. PICK n \in 0 .. budget, carded \in BOOLEAN :
       LET ids == lastId + 1 .. lastId + n
           rows == Listed(ids)
           new == IF carded THEN [k \in DOMAIN rows |-> Card(rows[k])] ELSE <<>>
       IN  /\ Spend(n)
           /\ customers' = Extend(customers, [c \in ids |-> Customer])
           /\ addresses' = addresses \o [k \in DOMAIN rows |-> Address(rows[k])]
           /\ accounts' = Extend(accounts, [c \in ids |-> [opened |-> day, closed |-> 0]])
           /\ cards' = cards \o new
           /\ open' = open \cup ids
           /\ lastId' = lastId + n
           /\ log' = Inserted(Inserted(Inserted(log, "customers", n),
                                       "customer_addresses", n), "cards", Len(new))
  BY DEF Onboard
<1> DEFINE ids == Joining(n)
           N == Cardinality(ids)
           rows == Listed(ids)
           new == IF carded THEN [k \in DOMAIN rows |-> Card(rows[k])] ELSE <<>>
           homes == [k \in DOMAIN rows |-> Address(rows[k])]
<1>2. n \in Nat /\ budget' \in Nat
  BY <1>1, SpendKeepsBudget DEF Types
<1>3. IsFiniteSet(ids) /\ N = n /\ ids \subseteq Nat
  BY <1>2, KeysInARow DEF Types, Joining
<1>4. N \in Nat /\ rows \in [1 .. N -> ids] /\ DOMAIN rows = 1 .. N
  BY <1>3, ListedNamesAll
<1>5. /\ customers' = Extend(customers, [c \in ids |-> Customer])
      /\ addresses' = addresses \o homes
      /\ accounts' = Extend(accounts, [c \in ids |-> [opened |-> day, closed |-> 0]])
      /\ cards' = cards \o new
      /\ open' = open \cup ids /\ lastId' = lastId + n
      /\ log' = Inserted(Inserted(Inserted(log, "customers", n), "customer_addresses", n),
                         "cards", Len(new))
  BY <1>1 DEF Joining
<1>6. homes \in Seq(AddressRow) /\ Settled(homes) /\ Len(homes) = n
  <2> HIDE DEF rows, N, ids
  <2>1. \A k \in DOMAIN rows : rows[k] \in Nat
    BY <1>3, <1>4
  <2>2. \A k \in DOMAIN rows : Address(rows[k]) \in AddressRow
    BY <2>1, AddressIsRow DEF Types
  <2>3. homes \in Seq(AddressRow) /\ Len(homes) = n
    BY <1>3, <1>4, <2>2
  <2> QED BY <2>1, <2>3 DEF Settled
<1>7. new \in Seq(CardRow) /\ Issued(new, ids)
  <2> HIDE DEF rows, N, ids
  <2>1. \A k \in DOMAIN rows : rows[k] \in ids /\ rows[k] \in Nat
    BY <1>3, <1>4
  <2>2. \A k \in DOMAIN rows : Card(rows[k]) \in CardRow
    BY <2>1, CardIsRow DEF Types
  <2>3. new \in Seq(CardRow)
    BY <1>4, <2>2
  <2> QED BY <2>1, <2>3 DEF Issued
<1> HIDE DEF new, homes, rows
<1> QED BY <1>2, <1>5, <1>6, <1>7

(* Acquisition keeps the types. *)
LEMMA OnboardTypes ==
  ASSUME Types, Onboard
  PROVE  Types'
<1>1. PICK n \in Nat, homes \in Seq(AddressRow), new \in Seq(CardRow) :
           /\ customers' = Extend(customers, [c \in Joining(n) |-> Customer])
           /\ accounts' = Extend(accounts, [c \in Joining(n) |-> [opened |-> day, closed |-> 0]])
           /\ open' = open \cup Joining(n) /\ lastId' = lastId + n
           /\ addresses' = addresses \o homes /\ Settled(homes) /\ Len(homes) = n
           /\ cards' = cards \o new /\ Issued(new, Joining(n))
           /\ log' = Inserted(Inserted(Inserted(log, "customers", n),
                                       "customer_addresses", n), "cards", Len(new))
           /\ budget' \in Nat
  BY OnboardEffect
<1>2. log' \in [Tables -> Entry]
  <2> DEFINE l == Inserted(log, "customers", n)
             m == Inserted(l, "customer_addresses", n)
  <2>1. l \in [Tables -> Entry]
    BY TableNames, InsertRecorded DEF Types
  <2>2. m \in [Tables -> Entry]
    BY <2>1, TableNames, InsertRecorded
  <2>3. Len(new) \in Nat
    OBVIOUS
  <2> QED BY <1>1, <2>2, <2>3, TableNames, InsertRecorded
<1>3. DOMAIN customers' = DOMAIN customers \cup Joining(n) /\ IsFiniteSet(DOMAIN customers')
      /\ DOMAIN customers' \subseteq Nat /\ customers' \in [DOMAIN customers' -> CustomerRow]
  <2>1. CustomerTypes /\ day \in Int /\ lastId \in Nat
        /\ customers' = Extend(customers, [c \in lastId + 1 .. lastId + n |-> Customer])
    BY <1>1 DEF Types, Joining
  <2> QED BY <2>1, ExtendedCustomers DEF Joining
<1>4. DOMAIN accounts' = DOMAIN accounts \cup Joining(n) /\ accounts' \in [DOMAIN accounts' -> AccountRow]
  <2>1. DOMAIN accounts' = DOMAIN accounts \cup Joining(n) /\ accounts' = [a \in DOMAIN accounts' |-> accounts'[a]]
    BY <1>1 DEF Extend
  <2>2. \A a \in DOMAIN accounts' :
          accounts'[a] = IF a \in Joining(n) THEN [opened |-> day, closed |-> 0] ELSE accounts[a]
    BY <1>1 DEF Extend
  <2>3. [opened |-> day, closed |-> 0] \in AccountRow
    BY DEF AccountRow, Types
  <2>4. \A a \in DOMAIN accounts' : accounts'[a] \in AccountRow
    BY <2>1, <2>2, <2>3 DEF Types, CustomerTypes
  <2> QED BY <2>1, <2>4
<1>5. CustomerTypes' /\ open' \subseteq DOMAIN accounts'
  BY <1>1, <1>3, <1>4 DEF Types, CustomerTypes
<1>6. addresses' \in Seq(AddressRow) /\ cards' \in Seq(CardRow) /\ DOMAIN cards \subseteq DOMAIN cards'
  BY <1>1, Joined DEF Types
<1>7. lastId' \in Nat
  BY <1>1 DEF Types
<1> QED BY <1>1, <1>2, <1>5, <1>6, <1>7 DEF Onboard, Goes, Types, Steps, BeforeOnboard

(* Alerts raised today, open. *)
Raised(new) ==
  /\ new \in Seq(AlertRow)
  /\ \A n \in DOMAIN new : new[n] = [raised |-> day, verdict |-> "open", ruled |-> 0, at |-> day]

(* Purchases raise alerts, and the report counts them. *)
LEMMA PurchaseEffect ==
  ASSUME Types, NEW new \in Seq(Spent), Purchase(new)
  PROVE  /\ spends' = spends \o new
         /\ \E more \in Seq(AlertRow) :
              /\ Raised(more) /\ alerts' = alerts \o more
              /\ log' = Inserted(log, "fraud_alerts", Len(more))
<1>1. PICK raised \in SUBSET DOMAIN new :
       /\ alerts' = alerts \o [n \in 1 .. Cardinality(raised) |->
                                 [raised |-> day, verdict |-> "open", ruled |-> 0, at |-> day]]
       /\ log' = Inserted(log, "fraud_alerts", Cardinality(raised))
  BY DEF Purchase
<1>2. Cardinality(raised) \in Nat
  BY PositionsAreFinite, FS_CardinalityType
<1> DEFINE N == Cardinality(raised)
           row == [raised |-> day, verdict |-> "open", ruled |-> 0, at |-> day]
           more == [n \in 1 .. N |-> row]
<1>3. row \in AlertRow
  BY DEF Types, AlertRow
<1> HIDE DEF N
<1>4. more \in Seq(AlertRow) /\ Len(more) = N
  BY <1>2, <1>3 DEF N
<1>5. Raised(more)
  BY <1>4 DEF Raised
<1> QED BY <1>1, <1>4, <1>5 DEF Purchase, N

(* Purchases keep the types. *)
LEMMA PurchaseTypes ==
  ASSUME Types, NEW new \in Seq(Spent), Purchase(new)
  PROVE  spends' \in Seq(Spent) /\ alerts' \in Seq(AlertRow) /\ log' \in [Tables -> Entry]
<1>1. PICK more \in Seq(AlertRow) :
        alerts' = alerts \o more /\ log' = Inserted(log, "fraud_alerts", Len(more))
  BY PurchaseEffect
<1>2. Len(more) \in Nat
  OBVIOUS
<1>3. log' \in [Tables -> Entry]
  BY <1>1, <1>2, TableNames, InsertRecorded DEF Types
<1>4. spends' = spends \o new
  BY PurchaseEffect
<1> QED BY <1>1, <1>3, <1>4 DEF Types

(* What is presented late is of a card of the snapshot that was admissible  *)
(* on its day.                                                              *)
LEMMA LateArrivalsEffect ==
  ASSUME Types, ClearLateArrivals
  PROVE  /\ budget' \in Nat
         /\ \E new \in Seq(Spent) :
              /\ Purchase(new)
              /\ \A n \in DOMAIN new :
                   /\ new[n].card \in DOMAIN held /\ held[new[n].card].acct \in open
                   /\ Usable(new[n].card) /\ Admissible(new[n].card, new[n].booked)
<1> DEFINE Late == {p \in (DOMAIN held) \X Lags :
            held[p[1]].acct \in open /\ Usable(p[1]) /\ Admissible(p[1], day - p[2])}
<1>1. PICK S \in SUBSET Late :
       LET rows == Listed(S)
       IN  /\ Spend(Cardinality(S))
           /\ Purchase([n \in DOMAIN rows |-> [card |-> rows[n][1], booked |-> day - rows[n][2]]])
  BY DEF ClearLateArrivals
<1> DEFINE N == Cardinality(S)
           rows == Listed(S)
           new == [n \in DOMAIN rows |-> [card |-> rows[n][1], booked |-> day - rows[n][2]]]
<1>2. IsFiniteSet(S)
  <2>1. IsFiniteSet(DOMAIN held) /\ IsFiniteSet(Lags)
    BY PositionsAreFinite, RegisterAssumption DEF Types
  <2>2. IsFiniteSet((DOMAIN held) \X Lags)
    BY <2>1, FS_Product
  <2> QED BY <2>2, FS_Subset
<1>3. N \in Nat /\ rows \in [1 .. N -> S] /\ DOMAIN rows = 1 .. N
  BY <1>2, ListedNamesAll
<1>4. budget' \in Nat /\ Purchase(new)
  BY <1>1, <1>3, SpendKeepsBudget DEF Types
<1> HIDE DEF rows, N
<1>5. \A n \in DOMAIN rows :
        /\ rows[n][1] \in DOMAIN held /\ rows[n][2] \in Lags
        /\ held[rows[n][1]].acct \in open
        /\ Usable(rows[n][1]) /\ Admissible(rows[n][1], day - rows[n][2])
  BY <1>3
<1>6. \A n \in DOMAIN rows : rows[n][1] \in Nat /\ day - rows[n][2] \in Int
  BY <1>5, RegisterAssumption, PositionsAreFinite, SMTT(40) DEF Types
<1>7. new \in Seq(Spent)
  BY <1>3, <1>6 DEF Spent
<1>8. \A n \in DOMAIN new : new[n].card = rows[n][1] /\ new[n].booked = day - rows[n][2]
  OBVIOUS
<1> QED BY <1>4, <1>5, <1>7, <1>8

(* What is bought today is of a card of the snapshot that is usable. *)
LEMMA SpendTodayEffect ==
  ASSUME Types, SpendToday
  PROVE  /\ budget' \in Nat
         /\ \E new \in Seq(Spent) :
              /\ Purchase(new)
              /\ \A n \in DOMAIN new :
                   /\ new[n].card \in DOMAIN held /\ new[n].booked = day
                   /\ Usable(new[n].card)
<1> DEFINE Today == {k \in DOMAIN held : held[k].acct \in open /\ Usable(k)
                                          /\ accounts[held[k].acct].opened # day}
<1>1. PICK S \in SUBSET Today :
       LET rows == Listed(S)
       IN  /\ Spend(Cardinality(S))
           /\ Purchase([n \in DOMAIN rows |-> [card |-> rows[n], booked |-> day]])
  BY DEF SpendToday
<1> DEFINE N == Cardinality(S)
           rows == Listed(S)
           new == [n \in DOMAIN rows |-> [card |-> rows[n], booked |-> day]]
<1>2. IsFiniteSet(S)
  BY PositionsAreFinite DEF Types
<1>3. N \in Nat /\ rows \in [1 .. N -> S] /\ DOMAIN rows = 1 .. N
  BY <1>2, ListedNamesAll
<1>4. budget' \in Nat /\ Purchase(new)
  BY <1>1, <1>3, SpendKeepsBudget DEF Types
<1> HIDE DEF rows, N
<1>5. \A n \in DOMAIN rows : rows[n] \in DOMAIN held /\ Usable(rows[n])
  BY <1>3
<1>6. \A n \in DOMAIN rows : rows[n] \in Nat /\ day \in Int
  BY <1>5, PositionsAreFinite DEF Types
<1>7. new \in Seq(Spent)
  BY <1>3, <1>6 DEF Spent
<1> QED BY <1>4, <1>5, <1>7

(* Both handlers of the movements. *)
LEMMA MovementTypes ==
  ASSUME Types, Movements
  PROVE  Types'
<1>1. budget' \in Nat /\ \E new \in Seq(Spent) : Purchase(new)
  BY LateArrivalsEffect, SpendTodayEffect DEF Movements
<1>2. spends' \in Seq(Spent) /\ alerts' \in Seq(AlertRow) /\ log' \in [Tables -> Entry]
  BY <1>1, PurchaseTypes
<1>3. CustomerTypes'
  BY DEF Movements, ClearLateArrivals, SpendToday, Types, CustomerTypes
<1>4. step' \in Steps
  BY DEF Movements, ClearLateArrivals, SpendToday, Goes, Steps
<1> QED BY <1>1, <1>2, <1>3, <1>4 DEF Movements, ClearLateArrivals, SpendToday, Types

(* The alerts as an analyst leaves them. *)
DisposeDue == {i \in DOMAIN alerts : alerts[i].verdict \notin Final /\ Due(i)}

(* What the analysts leave: the alerts due are ruled on today, the others   *)
(* as they were.                                                            *)
LEMMA DisposeEffect ==
  ASSUME Types, DisposeAlerts
  PROVE  /\ alerts' \in Seq(AlertRow) /\ DOMAIN alerts' = DOMAIN alerts
         /\ \A i \in DOMAIN alerts :
              /\ alerts'[i].raised = alerts[i].raised
              /\ i \notin DisposeDue => alerts'[i] = alerts[i]
              /\ i \in DisposeDue =>
                   alerts'[i].ruled = day /\ alerts'[i].at = day /\ alerts'[i].verdict \in Final
         /\ log' = Updated(log, "fraud_alerts", DisposeDue)
<1>1. PICK confirmed \in SUBSET DisposeDue :
              alerts' = [i \in DOMAIN alerts |->
                IF i \notin DisposeDue THEN alerts[i]
                ELSE [alerts[i] EXCEPT !.ruled = day, !.at = day,
                        !.verdict = IF i \in confirmed THEN "confirmed_fraud" ELSE "dismissed"]]
  BY DEF DisposeAlerts, DisposeDue
<1>2. DOMAIN alerts = 1 .. Len(alerts) /\ Len(alerts) \in Nat /\ day \in Int
      /\ \A i \in DOMAIN alerts : alerts[i] \in AlertRow
  BY DEF Types
<1>3. \A i \in DOMAIN alerts :
        /\ alerts'[i] \in AlertRow
        /\ alerts'[i].raised = alerts[i].raised
        /\ i \notin DisposeDue => alerts'[i] = alerts[i]
        /\ i \in DisposeDue =>
             alerts'[i].ruled = day /\ alerts'[i].at = day /\ alerts'[i].verdict \in Final
  <2> TAKE i \in DOMAIN alerts
  <2>1. CASE i \notin DisposeDue
    BY <1>1, <1>2, <2>1
  <2>2. CASE i \in DisposeDue
    <3>1. PICK v \in Final :
            alerts'[i] = [alerts[i] EXCEPT !.ruled = day, !.at = day, !.verdict = v]
      BY <1>1, <2>2 DEF Final
    <3>2. alerts[i] \in AlertRow /\ day \in Int
      BY <1>2
    <3> QED BY <2>2, <3>1, <3>2 DEF AlertRow
  <2> QED BY <2>1, <2>2
<1>4. DOMAIN alerts' = 1 .. Len(alerts) /\ alerts' = [i \in 1 .. Len(alerts) |-> alerts'[i]]
  BY <1>1, <1>2
<1>5. alerts' \in Seq(AlertRow)
  BY <1>2, <1>3, <1>4
<1> QED BY <1>2, <1>3, <1>4, <1>5 DEF DisposeAlerts, DisposeDue

(* The dispositions keep the types. *)
LEMMA DisposeTypes ==
  ASSUME Types, DisposeAlerts
  PROVE  Types'
<1>1. alerts' \in Seq(AlertRow) /\ log' = Updated(log, "fraud_alerts", DisposeDue)
  BY DisposeEffect
<1>2. DisposeDue \in SUBSET Nat
  BY PositionsAreFinite DEF DisposeDue, Types
<1>3. log' \in [Tables -> Entry]
  BY <1>1, <1>2, TableNames, UpdateRecorded DEF Types
<1>4. CustomerTypes'
  BY DEF DisposeAlerts, Types, CustomerTypes
<1> QED BY <1>1, <1>3, <1>4 DEF DisposeAlerts, Goes, Types, Steps

(* A duplicate is a customer under a new key. *)
LEMMA PlantEffect ==
  ASSUME Types, PlantDuplicates
  PROVE  \E n \in Nat :
           /\ customers' = Extend(customers, [c \in Joining(n) |-> Customer])
           /\ lastId' = lastId + n
           /\ log' = Inserted(log, "customers", n)
           /\ budget' \in Nat
<1>1. PICK S \in SUBSET Existing :
       LET ids == lastId + 1 .. lastId + Cardinality(S)
       IN  /\ Spend(Cardinality(S))
           /\ customers' = Extend(customers, [c \in ids |-> Customer])
           /\ lastId' = lastId + Cardinality(S)
           /\ log' = Inserted(log, "customers", Cardinality(S))
  BY DEF PlantDuplicates
<1>2. Cardinality(S) \in Nat
  <2>1. S \in SUBSET DOMAIN customers /\ IsFiniteSet(DOMAIN customers)
    BY DEF Existing, Types, CustomerTypes
  <2> QED BY <2>1, FS_Subset, FS_CardinalityType
<1>3. budget' \in Nat
  BY <1>1, <1>2, SpendKeepsBudget DEF Types
<1> QED BY <1>1, <1>2, <1>3 DEF Joining

(* Duplicates keep the types. *)
LEMMA PlantTypes ==
  ASSUME Types, PlantDuplicates
  PROVE  Types'
<1>1. PICK n \in Nat :
           /\ customers' = Extend(customers, [c \in Joining(n) |-> Customer])
           /\ lastId' = lastId + n
           /\ log' = Inserted(log, "customers", n)
           /\ budget' \in Nat
  BY PlantEffect
<1>2. DOMAIN customers' = DOMAIN customers \cup Joining(n) /\ IsFiniteSet(DOMAIN customers')
      /\ DOMAIN customers' \subseteq Nat /\ customers' \in [DOMAIN customers' -> CustomerRow]
  <2>1. CustomerTypes /\ day \in Int /\ lastId \in Nat
        /\ customers' = Extend(customers, [c \in lastId + 1 .. lastId + n |-> Customer])
    BY <1>1 DEF Types, Joining
  <2> QED BY <2>1, ExtendedCustomers DEF Joining
<1>3. CustomerTypes'
  BY <1>2 DEF PlantDuplicates, Types, CustomerTypes
<1>4. log' \in [Tables -> Entry]
  BY <1>1, TableNames, InsertRecorded DEF Types
<1> QED BY <1>1, <1>3, <1>4 DEF PlantDuplicates, Goes, Types, Steps

(* What becomes of the duplicates: T are tombstoned, P purged. *)
LEMMA ResolveEffect ==
  ASSUME Types, ResolveDuplicates
  PROVE  \E T \in SUBSET (Existing \ Dependents), P \in SUBSET (Existing \ Dependents) :
           /\ T \cap P = {}
           /\ DOMAIN customers' = DOMAIN customers \ P
           /\ \A c \in DOMAIN customers \ P :
                /\ customers'[c] \in CustomerRow
                /\ customers'[c].made = customers[c].made
                /\ c \in T => customers'[c].at = day
                /\ c \notin T => customers'[c] = customers[c]
           /\ customers' \in [DOMAIN customers' -> CustomerRow]
           /\ purged' = P /\ log' = Updated(log, "customers", T)
<1> DEFINE candidates == Existing \ Dependents
<1>1. PICK fate \in [candidates -> {"keep", "tombstone", "purge"}] :
         LET of(f) == {c \in candidates : fate[c] = f}
           IN  /\ customers' = [c \in DOMAIN customers \ of("purge") |->
                    IF c \in of("tombstone")
                    THEN [customers[c] EXCEPT !.deleted = TRUE, !.at = day] ELSE customers[c]]
               /\ purged' = of("purge")
               /\ log' = Updated(log, "customers", of("tombstone"))
  BY DEF ResolveDuplicates
<1> DEFINE marked == TRUE
           T == {c \in candidates : fate[c] = "tombstone"}
           P == {c \in candidates : fate[c] = "purge"}
<1>2. /\ customers' = [c \in DOMAIN customers \ P |->
           IF c \in T THEN [customers[c] EXCEPT !.deleted = marked, !.at = day] ELSE customers[c]]
      /\ purged' = P /\ log' = Updated(log, "customers", T)
  BY <1>1
<1>3. T \in SUBSET candidates /\ P \in SUBSET candidates /\ T \cap P = {}
  OBVIOUS
<1>10. marked \in BOOLEAN
  OBVIOUS
<1> HIDE DEF marked
<1>4. \A c \in DOMAIN customers :
        LET r == [customers[c] EXCEPT !.deleted = marked, !.at = day]
        IN  customers[c] \in CustomerRow /\ r \in CustomerRow /\ r.made = customers[c].made /\ r.at = day
  <2> DEFINE B == BOOLEAN
  <2>1. day \in Int /\ marked \in B /\ CustomerRow = [made : Int, at : Int, deleted : B]
    BY <1>10 DEF Types, CustomerRow
  <2> HIDE DEF B
  <2>2. \A c \in DOMAIN customers : customers[c] \in CustomerRow
    BY DEF Types, CustomerTypes
  <2> QED BY <2>1, <2>2
<1> HIDE DEF T, P
<1>5. DOMAIN customers' = DOMAIN customers \ P
  BY <1>2
<1>6. \A c \in DOMAIN customers \ P :
                /\ customers'[c] \in CustomerRow
                /\ customers'[c].made = customers[c].made
                /\ c \in T => customers'[c].at = day
                /\ c \notin T => customers'[c] = customers[c]
  BY <1>2, <1>4
<1>7. customers' = [c \in DOMAIN customers' |-> customers'[c]]
  BY <1>2
<1>8. customers' \in [DOMAIN customers' -> CustomerRow]
  BY <1>5, <1>6, <1>7
<1> QED BY <1>2, <1>3, <1>5, <1>6, <1>8

(* The deletes keep the types. *)
LEMMA ResolveTypes ==
  ASSUME Types, ResolveDuplicates
  PROVE  Types'
<1>1. PICK T \in SUBSET (Existing \ Dependents), P \in SUBSET (Existing \ Dependents) :
           /\ DOMAIN customers' = DOMAIN customers \ P
           /\ customers' \in [DOMAIN customers' -> CustomerRow]
           /\ purged' = P /\ log' = Updated(log, "customers", T)
  BY ResolveEffect
<1>2. T \in SUBSET Nat /\ P \in SUBSET Nat
  BY DEF Existing, Types, CustomerTypes
<1>3. log' \in [Tables -> Entry]
  BY <1>1, <1>2, TableNames, UpdateRecorded DEF Types
<1>4. IsFiniteSet(DOMAIN customers')
  BY <1>1, FS_Subset DEF Types, CustomerTypes
<1>5. DOMAIN accounts \subseteq DOMAIN customers'
  BY <1>1 DEF Dependents, Types, CustomerTypes
<1>6. CustomerTypes'
  BY <1>1, <1>4, <1>5 DEF ResolveDuplicates, Types, CustomerTypes
<1> QED BY <1>1, <1>2, <1>3, <1>6 DEF ResolveDuplicates, Goes, Types, Steps

(* The commit empties the snapshot and leaves the registers. *)
LEMMA CommitTypes ==
  ASSUME Types, Commit
  PROVE  Types'
<1>1. DOMAIN held' = {} /\ held' \in [DOMAIN held' -> CardRow]
  BY DEF Commit
<1>2. CustomerTypes'
  BY DEF Commit, registers, Types, CustomerTypes
<1> QED BY <1>1, <1>2 DEF Commit, registers, Goes, Types, Steps

(* Every variable keeps its type. *)
THEOREM RegisterTypesCorrect == Spec => []Types
<1>1. Types /\ [Next]_vars => Types'
  <2> SUFFICES ASSUME Types, [Next]_vars PROVE Types'
    OBVIOUS
  <2>1. CASE UNCHANGED vars
    BY <2>1 DEF vars, registers, Types, CustomerTypes
  <2>2. CASE Next
    BY <2>2, BeginTickTypes, CloseAccountsTypes, SweepCardsTypes, ChangeCustomersTypes, MoveAddressesTypes,
       OnboardTypes, MovementTypes, DisposeTypes, PlantTypes, DirtyCustomersTypes, ResolveTypes, CommitTypes
    DEF Next, Lifecycle, Dirt
  <2> QED BY <2>1, <2>2
<1> QED BY <1>1, TypesInit, PTL DEF Spec

-----------------------------------------------------------------------------
(***************************************************************************)
(* Cards.                                                                  *)
(***************************************************************************)
(* The rows of the tables that are kept by position. *)
LEMMA RowTypes ==
  ASSUME Types
  PROVE  /\ \A k \in DOMAIN addresses : addresses[k] \in AddressRow
         /\ \A k \in DOMAIN cards : cards[k] \in CardRow
         /\ \A i \in DOMAIN alerts : alerts[i] \in AlertRow
         /\ \A s \in DOMAIN spends : spends[s] \in Spent
         /\ \A k \in DOMAIN held : held[k] \in CardRow
BY DEF Types

(* While a tick runs, identities continue from above all there are. *)
IdInv == step # "idle" => \A c \in DOMAIN customers : c <= lastId

(* What the snapshot knows is no longer all there is, but of an account and *)
(* a card it has, it is right about all that does not change.               *)
OpenInv == \A a \in open : accounts[a].closed = 0

HeldInv ==
  \A k \in DOMAIN held :
    /\ held[k].acct = cards[k].acct
    /\ held[k].issued = cards[k].issued /\ held[k].expiry = cards[k].expiry
    /\ held[k].status = "active" => cards[k].status # "issued"

IssueInv ==
  \A k \in DOMAIN cards :
    /\ cards[k].acct \in DOMAIN accounts
    /\ accounts[cards[k].acct].opened <= cards[k].issued
    /\ accounts[cards[k].acct].closed # 0 => cards[k].issued <= accounts[cards[k].acct].closed

SpendInv ==
  \A s \in DOMAIN spends :
    /\ spends[s].card \in DOMAIN cards
    /\ cards[spends[s].card].issued <= spends[s].booked
    /\ spends[s].booked < cards[spends[s].card].expiry
    /\ cards[spends[s].card].status # "issued"

CardInv == Dated /\ IdInv /\ OpenInv /\ HeldInv /\ IssueInv /\ SpendInv

(* A seeded register meets the invariant: its cards were issued in the life *)
(* of their accounts, and nothing is bought yet.                            *)
LEMMA CardInit == Init => CardInv
<1> SUFFICES ASSUME Init PROVE CardInv
  OBVIOUS
<1>1. PICK h \in Histories :
        /\ customers = h.customers /\ addresses = h.addresses /\ accounts = h.accounts
        /\ cards = h.cards /\ alerts = h.alerts
  BY DEF Init
<1>2. Seeded(h)
  BY <1>1, HistoryAssumption
<1>3. Dated
  BY <1>1, <1>2 DEF Dated, Seeded, Init
<1>4. IssueInv
  BY <1>1, <1>2 DEF IssueInv, Seeded
<1> QED BY <1>3, <1>4 DEF Init, CardInv, IdInv, OpenInv, HeldInv, SpendInv

(* The snapshot is true when it is read. *)
LEMMA BeginTickKeepsCards ==
  ASSUME Types, CardInv, BeginTick
  PROVE  CardInv'
<1>1. day' = day + 1 /\ UNCHANGED registers /\ step = "idle"
  BY DEF BeginTick, Goes
<1>2. Dated'
  <2>1. day \in Nat /\ \A x \in Int : x <= day => x <= day + 1
    BY DEF Types
  <2>2. /\ \A c \in DOMAIN customers : customers[c].made \in Int /\ customers[c].at \in Int
        /\ \A a \in DOMAIN accounts : accounts[a].opened \in Int
    BY DEF Types, CustomerTypes, CustomerRow, AccountRow
  <2>3. \A k \in DOMAIN addresses : addresses[k].from \in Int /\ addresses[k].at \in Int
    BY RowTypes DEF AddressRow
  <2>4. \A k \in DOMAIN cards : cards[k].issued \in Int /\ cards[k].at \in Int
    BY RowTypes DEF CardRow
  <2>5. \A i \in DOMAIN alerts : alerts[i].raised \in Int /\ alerts[i].at \in Int
    BY RowTypes DEF AlertRow
  <2> QED BY <1>1, <2>1, <2>2, <2>3, <2>4, <2>5 DEF CardInv, Dated, registers
<1>3. IdInv'
  BY <1>1, LastIdIsLargest DEF BeginTick, Types, IdInv, registers
<1>4. OpenInv' /\ HeldInv'
  BY <1>1 DEF BeginTick, Held, OpenInv, HeldInv, registers
<1>5. IssueInv' /\ SpendInv'
  BY <1>1 DEF CardInv, IssueInv, SpendInv, registers
<1> QED BY <1>2, <1>3, <1>4, <1>5 DEF CardInv

(* An account that closes today had its cards issued by today. *)
LEMMA CloseAccountsKeepsCards ==
  ASSUME Types, CardInv, CloseAccounts
  PROVE  CardInv'
<1>1. PICK S \in SUBSET open :
        /\ accounts' = [a \in DOMAIN accounts |->
             IF a \in S THEN [accounts[a] EXCEPT !.closed = day] ELSE accounts[a]]
        /\ open' = open \ S
  BY DEF CloseAccounts
<1>2. \A a \in DOMAIN accounts :
        /\ accounts'[a].opened = accounts[a].opened
        /\ a \in S => accounts'[a].closed = day
        /\ a \notin S => accounts'[a] = accounts[a]
  BY <1>1 DEF Types, CustomerTypes, AccountRow
<1>3. DOMAIN accounts' = DOMAIN accounts
  BY <1>1
<1>4. Dated' /\ OpenInv'
  BY <1>1, <1>2, <1>3 DEF CloseAccounts, CardInv, Dated, OpenInv, Types
<1>5. IssueInv'
  <2> SUFFICES ASSUME NEW k \in DOMAIN cards
               PROVE  /\ cards[k].acct \in DOMAIN accounts'
                      /\ accounts'[cards[k].acct].opened <= cards[k].issued
                      /\ accounts'[cards[k].acct].closed # 0
                           => cards[k].issued <= accounts'[cards[k].acct].closed
    BY DEF CloseAccounts, IssueInv
  <2>1. cards[k].issued <= day /\ cards[k].acct \in DOMAIN accounts
    BY DEF CardInv, Dated, IssueInv
  <2> QED BY <2>1, <1>2, <1>3 DEF CardInv, IssueInv
<1>6. IdInv' /\ HeldInv' /\ SpendInv'
  BY DEF CloseAccounts, Goes, CardInv, IdInv, HeldInv, SpendInv
<1> QED BY <1>4, <1>5, <1>6 DEF CardInv

(* The sweep changes no life of a card that was there, and issues to open   *)
(* accounts only.                                                           *)
LEMMA SweepCardsKeepsCards ==
  ASSUME Types, CardInv, SweepCards
  PROVE  CardInv'
<1>1. PICK U \in SUBSET DOMAIN held, kept \in Seq(CardRow), new \in Seq(CardRow) :
           /\ Swept(kept, U) /\ Issued(new, open)
           /\ cards' = kept \o new
           /\ held' = Extend(held, [k \in {Len(cards) + n : n \in DOMAIN new} |-> new[k - Len(cards)]])
  BY SweepEffect
<1>2. Len(cards) \in Nat /\ DOMAIN cards = 1 .. Len(cards) /\ DOMAIN kept = DOMAIN cards
      /\ Len(kept) = Len(cards) /\ DOMAIN new = 1 .. Len(new)
  BY <1>1 DEF Types, Swept
<1>3. DOMAIN cards \subseteq DOMAIN cards' /\ \A k \in DOMAIN cards : cards'[k] = kept[k]
  <2>1. \A k \in DOMAIN kept : k \in DOMAIN (kept \o new) /\ (kept \o new)[k] = kept[k]
    BY Joined
  <2> QED BY <2>1, <1>1, <1>2
<1>4. \A k \in DOMAIN cards :
       /\ cards'[k].acct = cards[k].acct
       /\ cards'[k].issued = cards[k].issued /\ cards'[k].expiry = cards[k].expiry
       /\ cards'[k].at = cards[k].at \/ cards'[k].at = day
       /\ cards[k].status # "issued" => cards'[k].status # "issued"
  BY <1>1, <1>3 DEF Swept
<1>5. \A k \in DOMAIN cards' : k \notin DOMAIN cards => \E a \in open : cards'[k] = Card(a)
  <2>1. \A k \in DOMAIN (kept \o new) : k \notin DOMAIN kept =>
          k - Len(kept) \in DOMAIN new /\ (kept \o new)[k] = new[k - Len(kept)]
    BY Joined
  <2> QED BY <2>1, <1>1, <1>2 DEF Issued
<1>6. Dated'
  <2>1. \A k \in DOMAIN cards' : cards'[k].issued <= day /\ cards'[k].at <= day
    <3> TAKE k \in DOMAIN cards'
    <3>0. day <= day
      BY DEF Types
    <3>1. CASE k \in DOMAIN cards
      BY <3>0, <3>1, <1>4 DEF CardInv, Dated
    <3>2. CASE k \notin DOMAIN cards
      BY <3>0, <3>2, <1>5 DEF Card
    <3> QED BY <3>1, <3>2
  <2> QED BY <2>1 DEF SweepCards, CardInv, Dated
<1>7. IssueInv'
  <2> SUFFICES ASSUME NEW k \in DOMAIN cards'
               PROVE  /\ cards'[k].acct \in DOMAIN accounts
                      /\ accounts[cards'[k].acct].opened <= cards'[k].issued
                      /\ accounts[cards'[k].acct].closed # 0
                           => cards'[k].issued <= accounts[cards'[k].acct].closed
    BY DEF SweepCards, IssueInv
  <2>1. CASE k \in DOMAIN cards
    BY <2>1, <1>4 DEF CardInv, IssueInv
  <2>2. CASE k \notin DOMAIN cards
    <3>1. PICK a \in open : cards'[k] = Card(a)
      BY <2>2, <1>5
    <3>2. a \in DOMAIN accounts /\ accounts[a].opened <= day /\ accounts[a].closed = 0
      BY <3>1 DEF CardInv, OpenInv, Dated, Types
    <3> QED BY <3>1, <3>2 DEF Card
  <2> QED BY <2>1, <2>2
<1>8. HeldInv'
  <2> DEFINE ks == {Len(cards) + n : n \in DOMAIN new}
  <2>1. DOMAIN held' = DOMAIN held \cup ks
        /\ \A k \in DOMAIN held' : held'[k] = IF k \in ks THEN new[k - Len(cards)] ELSE held[k]
    BY <1>1 DEF Extend
  <2>2. \A k \in ks : cards'[k] = new[k - Len(cards)]
    <3>1. \A n \in DOMAIN new : (kept \o new)[Len(kept) + n] = new[n]
      BY Joined
    <3> QED BY <3>1, <1>1, <1>2
  <2>3. \A n \in DOMAIN new : new[n].status = "active"
    BY <1>1 DEF Issued, Card
  <2> SUFFICES ASSUME NEW k \in DOMAIN held'
               PROVE  /\ held'[k].acct = cards'[k].acct
                      /\ held'[k].issued = cards'[k].issued /\ held'[k].expiry = cards'[k].expiry
                      /\ held'[k].status = "active" => cards'[k].status # "issued"
    BY DEF HeldInv
  <2>4. CASE k \in ks
    BY <2>1, <2>2, <2>3, <2>4, <1>2
  <2>5. CASE k \notin ks
    BY <2>1, <2>5, <1>4 DEF CardInv, HeldInv, Types
  <2> QED BY <2>4, <2>5
<1>9. SpendInv'
  BY <1>3, <1>4, ZenonT(40) DEF SweepCards, CardInv, SpendInv
<1>10. IdInv' /\ OpenInv'
  BY DEF SweepCards, Goes, CardInv, IdInv, OpenInv
<1> QED BY <1>6, <1>7, <1>8, <1>9, <1>10 DEF CardInv

(* A stamp of today is not after today. *)
LEMMA RestampKeepsDated ==
  ASSUME Types, Dated, NEW S, Restamp(S), UNCHANGED <<day, addresses, accounts, cards, alerts>>
  PROVE  Dated' /\ DOMAIN customers' = DOMAIN customers
<1>1. \A c \in DOMAIN customers :
        /\ customers'[c].made = customers[c].made
        /\ customers'[c].at = customers[c].at \/ customers'[c].at = day
  BY DEF Restamp, Types, CustomerTypes, CustomerRow
<1>2. DOMAIN customers' = DOMAIN customers
  BY DEF Restamp
<1> QED BY <1>1, <1>2 DEF Dated, Types

(* What touches neither cards, accounts nor spending. *)
LEMMA OthersKeepCards ==
  ASSUME CardInv, Dated', IdInv', UNCHANGED <<accounts, cards, spends, open, held>>
  PROVE  CardInv'
BY DEF CardInv, OpenInv, HeldInv, IssueInv, SpendInv

(* Stamping customers is such a handler. *)
LEMMA RestampKeepsCards ==
  ASSUME Types, CardInv, ChangeCustomers \/ DirtyCustomers
  PROVE  CardInv'
<1>1. PICK S \in SUBSET DOMAIN customers : Restamp(S)
  BY DEF ChangeCustomers, DirtyCustomers, Existing
<1>2. Dated' /\ DOMAIN customers' = DOMAIN customers
  BY <1>1, RestampKeepsDated DEF ChangeCustomers, DirtyCustomers, CardInv
<1>3. IdInv'
  BY <1>2 DEF ChangeCustomers, DirtyCustomers, Goes, CardInv, IdInv
<1> QED BY <1>2, <1>3, OthersKeepCards DEF ChangeCustomers, DirtyCustomers

(* So is moving addresses. *)
LEMMA MoveKeepsCards ==
  ASSUME Types, CardInv, MoveAddresses
  PROVE  CardInv'
<1>1. PICK S \in SUBSET DOMAIN addresses, kept \in Seq(AddressRow), new \in Seq(AddressRow) :
        Moved(kept, S) /\ Settled(new) /\ addresses' = kept \o new
  BY MoveEffect
<1>2. DOMAIN kept = DOMAIN addresses
  BY <1>1 DEF Moved, Types
<1>3. \A k \in DOMAIN addresses' : addresses'[k].from <= day /\ addresses'[k].at <= day
  <2>1. \A k \in DOMAIN (kept \o new) :
          IF k \in DOMAIN kept THEN (kept \o new)[k] = kept[k]
          ELSE k - Len(kept) \in DOMAIN new /\ (kept \o new)[k] = new[k - Len(kept)]
    BY Joined
  <2>2. \A k \in DOMAIN addresses : kept[k].from <= day /\ kept[k].at <= day
    <3>1. day <= day
      BY DEF Types
    <3>2. \A k \in DOMAIN addresses :
            kept[k].from = addresses[k].from /\ (kept[k].at = addresses[k].at \/ kept[k].at = day)
      BY <1>1 DEF Moved
    <3> QED BY <3>1, <3>2 DEF CardInv, Dated
  <2>3. \A n \in DOMAIN new : new[n].from <= day /\ new[n].at <= day
    BY <1>1 DEF Settled, Address, Types
  <2> QED BY <1>1, <1>2, <2>1, <2>2, <2>3
<1>4. Dated'
  BY <1>3 DEF MoveAddresses, CardInv, Dated
<1>5. IdInv'
  BY DEF MoveAddresses, Goes, CardInv, IdInv
<1> QED BY <1>4, <1>5, OthersKeepCards DEF MoveAddresses

(* Keys given to new rows are nobody's. *)
LEMMA JoiningIsFresh ==
  ASSUME Types, IdInv, step # "idle", NEW n \in Nat
  PROVE  /\ Joining(n) \cap DOMAIN customers = {} /\ Joining(n) \cap DOMAIN accounts = {}
         /\ \A c \in DOMAIN customers \cup Joining(n) : c <= lastId + n
<1>1. \A c \in DOMAIN customers : c \in Nat /\ c <= lastId
  BY DEF Types, CustomerTypes, IdInv
<1>2. \A c \in Joining(n) : c \in Nat /\ c > lastId /\ c <= lastId + n
  BY DEF Types, Joining
<1> QED BY <1>1, <1>2 DEF Types, CustomerTypes

(* Whoever joins takes keys nobody has: no card there changes its account. *)
LEMMA OnboardKeepsCards ==
  ASSUME Types, CardInv, Onboard
  PROVE  CardInv'
<1>1. PICK n \in Nat, homes \in Seq(AddressRow), new \in Seq(CardRow) :
           /\ customers' = Extend(customers, [c \in Joining(n) |-> Customer])
           /\ accounts' = Extend(accounts, [c \in Joining(n) |-> [opened |-> day, closed |-> 0]])
           /\ open' = open \cup Joining(n) /\ lastId' = lastId + n
           /\ addresses' = addresses \o homes /\ Settled(homes)
           /\ cards' = cards \o new /\ Issued(new, Joining(n))
  BY OnboardEffect
<1>2. /\ Joining(n) \cap DOMAIN customers = {} /\ Joining(n) \cap DOMAIN accounts = {}
      /\ \A c \in DOMAIN customers \cup Joining(n) : c <= lastId + n
  BY JoiningIsFresh DEF Onboard, Goes, CardInv
<1>3. day <= day
  BY DEF Types
<1>4. /\ DOMAIN customers' = DOMAIN customers \cup Joining(n)
      /\ \A c \in DOMAIN customers' : customers'[c] = IF c \in Joining(n) THEN Customer ELSE customers[c]
  BY <1>1 DEF Extend
<1>5. /\ DOMAIN accounts' = DOMAIN accounts \cup Joining(n)
      /\ \A a \in DOMAIN accounts' :
           accounts'[a] = IF a \in Joining(n) THEN [opened |-> day, closed |-> 0] ELSE accounts[a]
  BY <1>1 DEF Extend
<1>6. /\ \A k \in DOMAIN cards : k \in DOMAIN cards' /\ cards'[k] = cards[k]
      /\ \A k \in DOMAIN cards' : k \notin DOMAIN cards => \E a \in Joining(n) : cards'[k] = Card(a)
  <2>1. /\ \A k \in DOMAIN cards : k \in DOMAIN (cards \o new) /\ (cards \o new)[k] = cards[k]
        /\ \A k \in DOMAIN (cards \o new) : k \notin DOMAIN cards =>
             k - Len(cards) \in DOMAIN new /\ (cards \o new)[k] = new[k - Len(cards)]
    BY Joined DEF Types
  <2> QED BY <2>1, <1>1 DEF Issued
<1>7. Dated'
  <2>1. \A c \in DOMAIN customers' : customers'[c].made <= day /\ customers'[c].at <= day
    <3> TAKE c \in DOMAIN customers'
    <3>1. CASE c \in Joining(n)
      BY <1>3, <1>4, <3>1 DEF Customer
    <3>2. CASE c \notin Joining(n)
      BY <1>4, <3>2 DEF CardInv, Dated
    <3> QED BY <3>1, <3>2
  <2>2. \A a \in DOMAIN accounts' : accounts'[a].opened <= day
    BY <1>3, <1>5 DEF CardInv, Dated
  <2>3. \A k \in DOMAIN cards' : cards'[k].issued <= day /\ cards'[k].at <= day
    <3> TAKE k \in DOMAIN cards'
    <3>1. CASE k \in DOMAIN cards
      BY <3>1, <1>6 DEF CardInv, Dated
    <3>2. CASE k \notin DOMAIN cards
      BY <1>3, <3>2, <1>6 DEF Card
    <3> QED BY <3>1, <3>2
  <2>4. \A k \in DOMAIN addresses' : addresses'[k].from <= day /\ addresses'[k].at <= day
    <3>1. \A k \in DOMAIN (addresses \o homes) :
            IF k \in DOMAIN addresses THEN (addresses \o homes)[k] = addresses[k]
            ELSE k - Len(addresses) \in DOMAIN homes /\ (addresses \o homes)[k] = homes[k - Len(addresses)]
      BY Joined DEF Types
    <3>2. \A k \in DOMAIN homes : homes[k].from <= day /\ homes[k].at <= day
      BY <1>1, <1>3 DEF Settled, Address
    <3> QED BY <1>1, <3>1, <3>2 DEF CardInv, Dated
  <2> QED BY <2>1, <2>2, <2>3, <2>4 DEF Onboard, CardInv, Dated
<1>8. IdInv'
  BY <1>1, <1>2, <1>4 DEF IdInv
<1>9. OpenInv'
  <2> SUFFICES ASSUME NEW a \in open' PROVE accounts'[a].closed = 0
    BY DEF OpenInv
  <2>1. CASE a \in Joining(n)
    BY <2>1, <1>5
  <2>2. CASE a \notin Joining(n)
    BY <2>2, <1>1, <1>5 DEF CardInv, OpenInv, Types
  <2> QED BY <2>1, <2>2
<1>10. HeldInv'
  BY <1>6 DEF Onboard, CardInv, HeldInv, Types
<1>11. IssueInv'
  <2> SUFFICES ASSUME NEW k \in DOMAIN cards'
               PROVE  /\ cards'[k].acct \in DOMAIN accounts'
                      /\ accounts'[cards'[k].acct].opened <= cards'[k].issued
                      /\ accounts'[cards'[k].acct].closed # 0
                           => cards'[k].issued <= accounts'[cards'[k].acct].closed
    BY DEF IssueInv
  <2>1. CASE k \in DOMAIN cards
    <3>1. cards[k].acct \in DOMAIN accounts /\ cards[k].acct \notin Joining(n)
      BY <2>1, <1>2 DEF CardInv, IssueInv
    <3>2. accounts'[cards[k].acct] = accounts[cards[k].acct] /\ cards'[k] = cards[k]
      BY <2>1, <3>1, <1>5, <1>6
    <3> QED BY <2>1, <3>1, <3>2, <1>5 DEF CardInv, IssueInv
  <2>2. CASE k \notin DOMAIN cards
    <3>1. PICK a \in Joining(n) : cards'[k] = Card(a)
      BY <2>2, <1>6
    <3>2. a \in DOMAIN accounts' /\ accounts'[a] = [opened |-> day, closed |-> 0]
      BY <1>5
    <3> QED BY <3>1, <3>2, <1>3 DEF Card
  <2> QED BY <2>1, <2>2
<1>12. SpendInv'
  BY <1>6 DEF Onboard, CardInv, SpendInv
<1> QED BY <1>7, <1>8, <1>9, <1>10, <1>11, <1>12 DEF CardInv

(* Purchases of cards of the snapshot, in their lives, are valid of the     *)
(* table.                                                                   *)
LEMMA PurchaseKeepsCards ==
  ASSUME Types, CardInv, NEW new \in Seq(Spent), Purchase(new), step # "idle",
         UNCHANGED <<day, customers, addresses, accounts, cards, open, held, lastId>>,
         \A n \in DOMAIN new :
           /\ new[n].card \in DOMAIN held
           /\ held[new[n].card].status = "active"
           /\ held[new[n].card].issued <= new[n].booked
           /\ new[n].booked < held[new[n].card].expiry
  PROVE  CardInv'
<1>1. spends' = spends \o new
  BY PurchaseEffect
<1>2. SpendInv'
  <2>1. \A s \in DOMAIN (spends \o new) :
          IF s \in DOMAIN spends THEN (spends \o new)[s] = spends[s]
          ELSE s - Len(spends) \in DOMAIN new /\ (spends \o new)[s] = new[s - Len(spends)]
    BY Joined DEF Types
  <2>2. \A n \in DOMAIN new :
          /\ new[n].card \in DOMAIN cards
          /\ cards[new[n].card].issued <= new[n].booked
          /\ new[n].booked < cards[new[n].card].expiry
          /\ cards[new[n].card].status # "issued"
    BY DEF CardInv, HeldInv, Types
  <2> QED BY <1>1, <2>1, <2>2 DEF CardInv, SpendInv
<1>3. Dated'
  <2>1. PICK more \in Seq(AlertRow) : Raised(more) /\ alerts' = alerts \o more
    BY PurchaseEffect
  <2>2. \A i \in DOMAIN (alerts \o more) :
          IF i \in DOMAIN alerts THEN (alerts \o more)[i] = alerts[i]
          ELSE i - Len(alerts) \in DOMAIN more /\ (alerts \o more)[i] = more[i - Len(alerts)]
    BY Joined DEF Types
  <2>3. \A n \in DOMAIN more : more[n].raised <= day /\ more[n].at <= day
    BY <2>1 DEF Raised, Types
  <2>4. \A i \in DOMAIN alerts' : alerts'[i].raised <= day /\ alerts'[i].at <= day
    BY <2>1, <2>2, <2>3 DEF CardInv, Dated
  <2> QED BY <2>4 DEF CardInv, Dated
<1> QED BY <1>2, <1>3 DEF CardInv, IdInv, OpenInv, HeldInv, IssueInv

(* Both handlers buy only so. *)
LEMMA MovementsKeepCards ==
  ASSUME Types, CardInv, Movements
  PROVE  CardInv'
<1>1. CASE ClearLateArrivals
  <2>1. PICK new \in Seq(Spent) :
              /\ Purchase(new)
              /\ \A n \in DOMAIN new :
                   /\ new[n].card \in DOMAIN held /\ held[new[n].card].acct \in open
                   /\ Usable(new[n].card) /\ Admissible(new[n].card, new[n].booked)
    BY <1>1, LateArrivalsEffect
  <2>2. \A n \in DOMAIN new :
           /\ new[n].card \in DOMAIN held
           /\ held[new[n].card].status = "active"
           /\ held[new[n].card].issued <= new[n].booked
           /\ new[n].booked < held[new[n].card].expiry
    BY <2>1 DEF Usable, Admissible
  <2> QED BY <1>1, <2>1, <2>2, PurchaseKeepsCards DEF ClearLateArrivals, Goes
<1>2. CASE SpendToday
  <2>1. PICK new \in Seq(Spent) :
              /\ Purchase(new)
              /\ \A n \in DOMAIN new :
                   /\ new[n].card \in DOMAIN held /\ new[n].booked = day
                   /\ Usable(new[n].card)
    BY <1>2, SpendTodayEffect
  <2>2. \A n \in DOMAIN new :
           /\ new[n].card \in DOMAIN held
           /\ held[new[n].card].status = "active"
           /\ held[new[n].card].issued <= new[n].booked
           /\ new[n].booked < held[new[n].card].expiry
    BY <2>1 DEF Usable
  <2> QED BY <1>2, <2>1, <2>2, PurchaseKeepsCards DEF SpendToday, Goes
<1> QED BY <1>1, <1>2 DEF Movements

(* Dispositions touch alerts only. *)
LEMMA DisposeKeepsCards ==
  ASSUME Types, CardInv, DisposeAlerts
  PROVE  CardInv'
<1>1. /\ DOMAIN alerts' = DOMAIN alerts
      /\ \A i \in DOMAIN alerts :
           alerts'[i].raised = alerts[i].raised
           /\ (alerts'[i].at = alerts[i].at \/ alerts'[i].at = day)
  BY DisposeEffect
<1>2. Dated'
  <2>1. day <= day
    BY DEF Types
  <2> QED BY <1>1, <2>1 DEF DisposeAlerts, CardInv, Dated
<1>3. IdInv'
  BY DEF DisposeAlerts, Goes, CardInv, IdInv
<1> QED BY <1>2, <1>3, OthersKeepCards DEF DisposeAlerts

(* A duplicate has a key nobody has, and no account. *)
LEMMA PlantKeepsCards ==
  ASSUME Types, CardInv, PlantDuplicates
  PROVE  CardInv'
<1>1. PICK n \in Nat :
           /\ customers' = Extend(customers, [c \in Joining(n) |-> Customer])
           /\ lastId' = lastId + n
  BY PlantEffect
<1>2. \A c \in DOMAIN customers \cup Joining(n) : c <= lastId + n
  BY JoiningIsFresh DEF PlantDuplicates, Goes, CardInv
<1>3. /\ DOMAIN customers' = DOMAIN customers \cup Joining(n)
      /\ \A c \in DOMAIN customers' : customers'[c] = IF c \in Joining(n) THEN Customer ELSE customers[c]
  BY <1>1 DEF Extend
<1>4. Dated'
  <2>1. \A c \in DOMAIN customers' : customers'[c].made <= day /\ customers'[c].at <= day
    <3> TAKE c \in DOMAIN customers'
    <3>1. CASE c \in Joining(n)
      BY <1>3, <3>1 DEF Customer, Types
    <3>2. CASE c \notin Joining(n)
      BY <1>3, <3>2 DEF CardInv, Dated
    <3> QED BY <3>1, <3>2
  <2> QED BY <2>1 DEF PlantDuplicates, CardInv, Dated
<1>5. IdInv'
  BY <1>1, <1>2, <1>3 DEF IdInv
<1> QED BY <1>4, <1>5, OthersKeepCards DEF PlantDuplicates

(* A customer that is purged holds no account. *)
LEMMA ResolveKeepsCards ==
  ASSUME Types, CardInv, ResolveDuplicates
  PROVE  CardInv'
<1>1. PICK T \in SUBSET (Existing \ Dependents), P \in SUBSET (Existing \ Dependents) :
           /\ DOMAIN customers' = DOMAIN customers \ P
           /\ \A c \in DOMAIN customers \ P :
                /\ customers'[c] \in CustomerRow
                /\ customers'[c].made = customers[c].made
                /\ c \in T => customers'[c].at = day
                /\ c \notin T => customers'[c] = customers[c]
  BY ResolveEffect, ZenonT(40)
<1>2. Dated'
  <2>1. \A c \in DOMAIN customers' : customers'[c].made <= day /\ customers'[c].at <= day
    BY <1>1 DEF CardInv, Dated, Types
  <2> QED BY <2>1 DEF ResolveDuplicates, CardInv, Dated
<1>3. IdInv'
  BY <1>1 DEF ResolveDuplicates, Goes, CardInv, IdInv
<1> QED BY <1>2, <1>3, OthersKeepCards DEF ResolveDuplicates

(* After the commit there is no snapshot to be right about. *)
LEMMA CommitKeepsCards ==
  ASSUME Types, CardInv, Commit
  PROVE  CardInv'
BY DEF Commit, Goes, registers, CardInv, Dated, IdInv, OpenInv, HeldInv, IssueInv, SpendInv

(* Every step keeps the invariant. *)
LEMMA CardStep ==
  ASSUME Types, CardInv, [Next]_vars
  PROVE  CardInv'
<1>1. CASE UNCHANGED vars
  BY <1>1 DEF vars, registers, CardInv, Dated, IdInv, OpenInv, HeldInv, IssueInv, SpendInv
<1>2. CASE Next
  BY <1>2, BeginTickKeepsCards, CloseAccountsKeepsCards, SweepCardsKeepsCards, RestampKeepsCards,
     MoveKeepsCards, OnboardKeepsCards, MovementsKeepCards, DisposeKeepsCards, PlantKeepsCards,
     ResolveKeepsCards, CommitKeepsCards
  DEF Next, Lifecycle, Dirt
<1> QED BY <1>1, <1>2

(* A card is issued in the life of its account, and no purchase, however    *)
(* late it is presented, lies outside the validity of its card: for every   *)
(* history, validity, lag, budget and number of days (phases/movements,     *)
(* Snapshot.cards_by_account).                                              *)
THEOREM CardSpendsCorrect == Spec => []CardSpendsAreValid
<1>1. CardInv => CardSpendsAreValid
  BY DEF CardInv, IssueInv, SpendInv, CardSpendsAreValid
<1> QED BY <1>1, CardInit, CardStep, RegisterTypesCorrect, PTL DEF Spec

-----------------------------------------------------------------------------
(***************************************************************************)
(* Alerts.                                                                 *)
(***************************************************************************)
(* From the dispositions of a day to the end of it no alert is left that is *)
(* due, and every verdict came after its alert.                             *)
WorkInv ==
  /\ (step \in Worked /\ (step = "idle" => day > 0)) =>
       \A i \in DOMAIN alerts : Due(i) => alerts[i].verdict \in Final
  /\ \A i \in DOMAIN alerts : alerts[i].verdict \in Final => alerts[i].raised < alerts[i].ruled

(* No tick has run, and the verdicts of a seeded register came after their  *)
(* alerts.                                                                  *)
LEMMA WorkInit == Init => WorkInv
<1> SUFFICES ASSUME Init PROVE WorkInv
  OBVIOUS
<1>1. PICK h \in Histories : alerts = h.alerts
  BY DEF Init
<1>2. \A i \in DOMAIN alerts : alerts[i].verdict \in Final => alerts[i].raised < alerts[i].ruled
  BY <1>1, HistoryAssumption DEF Seeded
<1> QED BY <1>2 DEF Init, WorkInv

(* An alert raised by a purchase is open. *)
LEMMA PurchaseKeepsWork ==
  ASSUME Types, WorkInv, Movements
  PROVE  WorkInv'
<1>1. PICK new \in Seq(Spent) : Purchase(new)
  BY LateArrivalsEffect, SpendTodayEffect DEF Movements
<1>2. PICK more \in Seq(AlertRow) : Raised(more) /\ alerts' = alerts \o more
  BY <1>1, PurchaseEffect
<1>3. \A i \in DOMAIN (alerts \o more) :
        IF i \in DOMAIN alerts THEN (alerts \o more)[i] = alerts[i]
        ELSE i - Len(alerts) \in DOMAIN more /\ (alerts \o more)[i] = more[i - Len(alerts)]
  BY Joined DEF Types
<1>4. \A n \in DOMAIN more : more[n].verdict \notin Final
  BY <1>2 DEF Raised, Final
<1>5. \A i \in DOMAIN alerts' : alerts'[i].verdict \in Final => alerts'[i].raised < alerts'[i].ruled
  BY <1>2, <1>3, <1>4 DEF WorkInv
<1>6. step' \notin Worked
  BY DEF Movements, ClearLateArrivals, SpendToday, Goes, Worked
<1> QED BY <1>5, <1>6 DEF WorkInv

(* After the dispositions nothing is due. *)
LEMMA DisposeWorks ==
  ASSUME Types, WorkInv, DisposeAlerts
  PROVE  WorkInv'
<1>1. /\ DOMAIN alerts' = DOMAIN alerts
      /\ \A i \in DOMAIN alerts :
           /\ alerts'[i].raised = alerts[i].raised
           /\ i \notin DisposeDue => alerts'[i] = alerts[i]
           /\ i \in DisposeDue =>
                alerts'[i].ruled = day /\ alerts'[i].at = day /\ alerts'[i].verdict \in Final
  BY DisposeEffect
<1>2. day' = day
  BY DEF DisposeAlerts
<1>3. ASSUME NEW i \in DOMAIN alerts PROVE Due(i)' => alerts'[i].verdict \in Final
  <2>1. Due(i)' => Due(i)
    BY <1>1, <1>2 DEF Due
  <2> QED BY <2>1, <1>1 DEF DisposeDue
<1>4. ASSUME NEW i \in DOMAIN alerts
      PROVE  alerts'[i].verdict \in Final => alerts'[i].raised < alerts'[i].ruled
  <2>1. CASE i \in DisposeDue
    BY <2>1, <1>1 DEF DisposeDue, Due
  <2>2. CASE i \notin DisposeDue
    BY <2>2, <1>1 DEF WorkInv
  <2> QED BY <2>1, <2>2
<1> QED BY <1>1, <1>3, <1>4 DEF WorkInv

(* The handlers that touch neither the alerts nor the day. *)
LEMMA OthersKeepWork ==
  ASSUME WorkInv, UNCHANGED <<day, alerts>>, step' \in Worked => step \in Worked \ {"idle"}
  PROVE  WorkInv'
BY DEF WorkInv, Due

(* Every step keeps the invariant. *)
LEMMA WorkStep ==
  ASSUME Types, WorkInv, [Next]_vars
  PROVE  WorkInv'
<1>1. CASE UNCHANGED vars
  BY <1>1 DEF vars, registers, WorkInv, Due
<1>2. CASE BeginTick
  <2>1. UNCHANGED alerts /\ step' \notin Worked
    BY <1>2 DEF BeginTick, registers, Goes, Worked
  <2> QED BY <2>1 DEF WorkInv
<1>3. CASE Lifecycle \/ Onboard \/ Dirt \/ ResolveDuplicates \/ Commit
  <2>1. UNCHANGED <<day, alerts>>
    BY <1>3 DEF Lifecycle, CloseAccounts, SweepCards, ChangeCustomers, MoveAddresses, Onboard,
                Dirt, PlantDuplicates, DirtyCustomers, ResolveDuplicates, Commit, registers
  <2>2. step' \in Worked => step \in Worked \ {"idle"}
    BY <1>3 DEF Lifecycle, CloseAccounts, SweepCards, ChangeCustomers, MoveAddresses, Onboard,
                Dirt, PlantDuplicates, DirtyCustomers, ResolveDuplicates, Commit, Goes, Worked
  <2> QED BY <2>1, <2>2, OthersKeepWork
<1> QED BY <1>1, <1>2, <1>3, PurchaseKeepsWork, DisposeWorks DEF Next

(* No alert is left beyond its analyst's lag, the backlog of the history    *)
(* included, and no verdict comes on the day of the alert: for every lag,   *)
(* number of alerts and day (phases/dispositions.run).                      *)
THEOREM AlertsAreWorkedCorrect == Spec => []AlertsAreWorked
<1>1. WorkInv => AlertsAreWorked
  BY DEF WorkInv, AlertsAreWorked, Due, Worked
<1> QED BY <1>1, WorkInit, WorkStep, RegisterTypesCorrect, PTL DEF Spec

-----------------------------------------------------------------------------
(***************************************************************************)
(* The log.                                                                *)
(***************************************************************************)
(* Of each table the rows stamped today, and those made today.             *)
StampedCustomers == {c \in DOMAIN customers : customers[c].at = day}
StampedAddresses == {k \in DOMAIN addresses : addresses[k].at = day}
StampedCards == {k \in DOMAIN cards : cards[k].at = day}
StampedAlerts == {i \in DOMAIN alerts : alerts[i].at = day}
NewCustomers == {c \in DOMAIN customers : customers[c].made = day}
NewAddresses == {k \in DOMAIN addresses : addresses[k].from = day}
NewCards == {k \in DOMAIN cards : cards[k].issued = day}
NewAlerts == {i \in DOMAIN alerts : alerts[i].raised = day}

(* What is stamped is what was made and, apart from it, what was updated    *)
(* and is not in P; the entry counts the one and lists the other.           *)
Recorded(stamped, new, entry, P) ==
  /\ IsFiniteSet(new) /\ IsFiniteSet(entry.updated)
  /\ entry.inserted = Cardinality(new)
  /\ new \cap entry.updated = {}
  /\ stamped = new \cup (entry.updated \ P)

CustomerBooks == Recorded(StampedCustomers, NewCustomers, log["customers"], purged)
AddressBooks == Recorded(StampedAddresses, NewAddresses, log["customer_addresses"], {})
CardBooks == Recorded(StampedCards, NewCards, log["cards"], {})
AlertBooks == Recorded(StampedAlerts, NewAlerts, log["fraud_alerts"], {})

Books == CustomerBooks /\ AddressBooks /\ CardBooks /\ AlertBooks

(* A handler updates a row before any handler can have made it, or only     *)
(* rows that were there before.                                             *)
LogInv ==
  /\ step # "idle" \/ day > 0 => Books
  /\ step \in BeforeOnboard => NewCustomers = {}
  /\ step \in BeforeOnboard \ {"onboard"} => NewAddresses = {}
  /\ step \in {"accounts", "cards"} => NewCards = {}
  /\ step \notin {"idle", "commit"} => purged = {}

(* An empty log and nothing stamped. *)
LEMMA NothingRecorded ==
  ASSUME NEW P, NEW e, e = [inserted |-> 0, updated |-> {}]
  PROVE  Recorded({}, {}, e, P)
BY FS_EmptySet DEF Recorded

(* Rows made under new keys. *)
LEMMA InsertsRecorded ==
  ASSUME NEW A, NEW N, NEW e, NEW P, Recorded(A, N, e, P), e.inserted \in Nat,
         NEW ids, IsFiniteSet(ids), ids \cap N = {}, ids \cap e.updated = {},
         NEW f, f.updated = e.updated, f.inserted = e.inserted + Cardinality(ids)
  PROVE  Recorded(A \cup ids, N \cup ids, f, P)
<1>1. IsFiniteSet(N \cup ids)
      /\ Cardinality(N \cup ids) = Cardinality(N) + Cardinality(ids) - Cardinality(N \cap ids)
  BY FS_Union DEF Recorded
<1>2. N \cap ids = {} /\ Cardinality({}) = 0
  BY FS_EmptySet
<1>3. Cardinality(N) \in Nat /\ Cardinality(ids) \in Nat
  BY FS_CardinalityType DEF Recorded
<1>4. Cardinality(N \cup ids) = Cardinality(N) + Cardinality(ids)
  BY <1>1, <1>2, <1>3
<1> QED BY <1>1, <1>4 DEF Recorded

(* Rows updated that were not made today and are not purged. *)
LEMMA UpdatesRecorded ==
  ASSUME NEW A, NEW N, NEW e, NEW P, Recorded(A, N, e, P),
         NEW S, IsFiniteSet(S), S \cap N = {}, S \cap P = {},
         NEW f, f.inserted = e.inserted, f.updated = e.updated \cup S
  PROVE  Recorded(A \cup S, N, f, P)
<1>1. IsFiniteSet(e.updated \cup S)
  BY FS_Union DEF Recorded
<1> QED BY <1>1 DEF Recorded

(* A handler that updates U and then adds ids to a table whose keys are D. *)
LEMMA RowsRecorded ==
  ASSUME NEW A, NEW N, NEW e, Recorded(A, N, e, {}), e.inserted \in Nat,
         NEW D, A \subseteq D,
         NEW U, IsFiniteSet(U), U \subseteq D, U \cap N = {},
         NEW ids, IsFiniteSet(ids), ids \cap D = {},
         NEW f, f.updated = e.updated \cup U, f.inserted = e.inserted + Cardinality(ids)
  PROVE  Recorded((A \cup U) \cup ids, N \cup ids, f, {})
<1> DEFINE m == [inserted |-> e.inserted, updated |-> e.updated \cup U]
<1>1. m.inserted = e.inserted /\ m.updated = e.updated \cup U
  OBVIOUS
<1>2. f.updated = m.updated /\ f.inserted = m.inserted + Cardinality(ids) /\ m.inserted \in Nat
  OBVIOUS
<1> HIDE DEF m
<1>3. Recorded(A \cup U, N, m, {})
  BY <1>1, UpdatesRecorded
<1>4. ids \cap N = {} /\ ids \cap m.updated = {}
  BY <1>1 DEF Recorded
<1> QED BY <1>2, <1>3, <1>4, InsertsRecorded

(* The count reconcile makes, of one table. *)
LEMMA RecordBalances ==
  ASSUME NEW A, NEW N, NEW e, NEW P, Recorded(A, N, e, P)
  PROVE  e.inserted + Cardinality(e.updated) = Cardinality(A) + Cardinality(e.updated \cap P)
<1> DEFINE U == e.updated
<1>1. IsFiniteSet(U \ P) /\ Cardinality(U \ P) = Cardinality(U) - Cardinality(U \cap P)
  BY FS_Difference DEF Recorded
<1>2. Cardinality(A) = Cardinality(N) + Cardinality(U \ P) - Cardinality(N \cap (U \ P))
  BY <1>1, FS_Union DEF Recorded
<1>3. N \cap (U \ P) = {} /\ Cardinality({}) = 0
  BY FS_EmptySet DEF Recorded
<1>4. IsFiniteSet(U \cap P)
  BY FS_Subset DEF Recorded
<1>5. Cardinality(N) \in Nat /\ Cardinality(U) \in Nat /\ Cardinality(U \cap P) \in Nat
  BY <1>4, FS_CardinalityType DEF Recorded
<1>6. e.inserted = Cardinality(N)
  BY DEF Recorded
<1>7. Cardinality(A) = Cardinality(N) + Cardinality(U \ P) - 0
  BY <1>2, <1>3
<1> QED BY <1>1, <1>5, <1>6, <1>7

(* With the books of its four tables a tick reconciles but for what it purged. *)
LEMMA BooksBalance == LogInv => OnlyPurgesDisagree
<1> SUFFICES ASSUME LogInv, step = "idle", day > 0, NEW t \in Tables,
                    t = "customers" => log[t].updated \cap purged = {}
             PROVE  Logged(t) = StampedToday(t)
  BY DEF OnlyPurgesDisagree, Agrees
<1>1. Books
  BY DEF LogInv
<1>2. ASSUME NEW A, NEW N, NEW e, NEW P, Recorded(A, N, e, P), e.updated \cap P = {}
      PROVE  e.inserted + Cardinality(e.updated) = Cardinality(A)
  <2>1. e.inserted + Cardinality(e.updated) = Cardinality(A) + Cardinality(e.updated \cap P)
    BY <1>2, RecordBalances
  <2>2. Cardinality(e.updated \cap P) = 0
    BY <1>2, FS_EmptySet
  <2>3. A = N \cup (e.updated \ P) /\ IsFiniteSet(N) /\ IsFiniteSet(e.updated)
    BY <1>2 DEF Recorded
  <2>4. IsFiniteSet(A)
    BY <2>3, FS_Union, FS_Difference
  <2>5. Cardinality(A) \in Nat
    BY <2>4, FS_CardinalityType
  <2> QED BY <2>1, <2>2, <2>5
<1>3. \A e : e.updated \cap {} = {}
  OBVIOUS
<1>4. CASE t = "customers"
  <2>1. log[t].inserted + Cardinality(log[t].updated) = Cardinality(StampedCustomers)
    BY <1>1, <1>2, <1>4 DEF Books, CustomerBooks
  <2> QED BY <1>4, <2>1 DEF Logged, StampedToday, StampedCustomers
<1>5. CASE t = "customer_addresses"
  <2>1. log[t].inserted + Cardinality(log[t].updated) = Cardinality(StampedAddresses)
    BY <1>1, <1>2, <1>3, <1>5 DEF Books, AddressBooks
  <2> QED BY <1>5, <2>1 DEF Logged, StampedToday, StampedAddresses
<1>6. CASE t = "cards"
  <2>1. log[t].inserted + Cardinality(log[t].updated) = Cardinality(StampedCards)
    BY <1>1, <1>2, <1>3, <1>6 DEF Books, CardBooks
  <2> QED BY <1>6, <2>1 DEF Logged, StampedToday, StampedCards
<1>7. CASE t = "fraud_alerts"
  <2>1. log[t].inserted + Cardinality(log[t].updated) = Cardinality(StampedAlerts)
    BY <1>1, <1>2, <1>3, <1>7 DEF Books, AlertBooks
  <2> QED BY <1>7, <2>1 DEF Logged, StampedToday, StampedAlerts
<1> QED BY <1>4, <1>5, <1>6, <1>7 DEF Tables

(* A table that no handler touches keeps its books. *)
LEMMA CustomerBooksKept ==
  ASSUME CustomerBooks, UNCHANGED <<day, customers, purged>>, log'["customers"] = log["customers"]
  PROVE  CustomerBooks' /\ NewCustomers' = NewCustomers
BY DEF CustomerBooks, StampedCustomers, NewCustomers, Recorded

(* The same of the addresses. *)
LEMMA AddressBooksKept ==
  ASSUME AddressBooks, UNCHANGED <<day, addresses>>,
         log'["customer_addresses"] = log["customer_addresses"]
  PROVE  AddressBooks' /\ NewAddresses' = NewAddresses
BY DEF AddressBooks, StampedAddresses, NewAddresses, Recorded

(* The same of the cards. *)
LEMMA CardBooksKept ==
  ASSUME CardBooks, UNCHANGED <<day, cards>>, log'["cards"] = log["cards"]
  PROVE  CardBooks' /\ NewCards' = NewCards
BY DEF CardBooks, StampedCards, NewCards, Recorded

(* The same of the alerts. *)
LEMMA AlertBooksKept ==
  ASSUME AlertBooks, UNCHANGED <<day, alerts>>, log'["fraud_alerts"] = log["fraud_alerts"]
  PROVE  AlertBooks'
BY DEF AlertBooks, StampedAlerts, NewAlerts, Recorded

(* The tick opens with nothing stamped today and an empty log. *)
LEMMA BeginTickKeepsLog ==
  ASSUME Types, Dated, BeginTick
  PROVE  LogInv'
<1>1. day' = day + 1 /\ UNCHANGED registers /\ log' = Quiet /\ purged' = {} /\ step' = "accounts"
  BY DEF BeginTick, Goes
<1>2. \A x \in Int : x <= day => x # day + 1
  BY DEF Types
<1>3. StampedCustomers' = {} /\ NewCustomers' = {}
  <2>1. \A c \in DOMAIN customers : customers[c].made \in Int /\ customers[c].at \in Int
    BY DEF Types, CustomerTypes, CustomerRow
  <2> QED BY <1>1, <1>2, <2>1 DEF StampedCustomers, NewCustomers, registers, Dated
<1>4. StampedAddresses' = {} /\ NewAddresses' = {}
  <2>1. \A k \in DOMAIN addresses : addresses[k].from \in Int /\ addresses[k].at \in Int
    BY RowTypes DEF AddressRow
  <2> QED BY <1>1, <1>2, <2>1 DEF StampedAddresses, NewAddresses, registers, Dated
<1>5. StampedCards' = {} /\ NewCards' = {}
  <2>1. \A k \in DOMAIN cards : cards[k].issued \in Int /\ cards[k].at \in Int
    BY RowTypes DEF CardRow
  <2> QED BY <1>1, <1>2, <2>1 DEF StampedCards, NewCards, registers, Dated
<1>6. StampedAlerts' = {} /\ NewAlerts' = {}
  <2>1. \A i \in DOMAIN alerts : alerts[i].raised \in Int /\ alerts[i].at \in Int
    BY RowTypes DEF AlertRow
  <2> QED BY <1>1, <1>2, <2>1 DEF StampedAlerts, NewAlerts, registers, Dated
<1>7. \A t \in Tables : log'[t] = [inserted |-> 0, updated |-> {}]
  BY <1>1 DEF Quiet
<1>8. CustomerBooks' /\ AddressBooks' /\ CardBooks' /\ AlertBooks'
  <2>1. /\ Recorded({}, {}, log'["customers"], purged') /\ Recorded({}, {}, log'["customer_addresses"], {})
        /\ Recorded({}, {}, log'["cards"], {}) /\ Recorded({}, {}, log'["fraud_alerts"], {})
    BY <1>7, TableNames, NothingRecorded
  <2> QED BY <2>1, <1>3, <1>4, <1>5, <1>6 DEF CustomerBooks, AddressBooks, CardBooks, AlertBooks
<1> QED BY <1>1, <1>3, <1>4, <1>5, <1>8 DEF LogInv, Books

(* Accounts are in no book. *)
LEMMA CloseAccountsKeepsLog ==
  ASSUME LogInv, CloseAccounts
  PROVE  LogInv'
<1>1. Books'
  BY CustomerBooksKept, AddressBooksKept, CardBooksKept, AlertBooksKept
  DEF LogInv, CloseAccounts, Goes, Books
<1>2. NewCustomers' = {} /\ NewAddresses' = {} /\ NewCards' = {} /\ purged' = {}
  BY DEF LogInv, CloseAccounts, Goes, BeforeOnboard, NewCustomers, NewAddresses, NewCards
<1> QED BY <1>1, <1>2 DEF LogInv

(* The positions at which rows are appended. *)
Appended(s, n) == Len(s) + 1 .. Len(s) + n

(* The sweep updates cards and then adds cards. *)
LEMMA SweepCardsKeepsLog ==
  ASSUME Types, LogInv, SweepCards
  PROVE  LogInv'
<1>1. PICK U \in SUBSET DOMAIN held, kept \in Seq(CardRow), new \in Seq(CardRow) :
           /\ Swept(kept, U) /\ Issued(new, open)
           /\ cards' = kept \o new
           /\ log' = Inserted(Updated(log, "cards", U), "cards", Len(new))
  BY SweepEffect
<1>2. step = "cards" /\ step' = "customers" /\ Books /\ NewCustomers = {} /\ NewAddresses = {}
      /\ NewCards = {} /\ purged = {}
  BY DEF SweepCards, Goes, LogInv, BeforeOnboard
<1>3. UNCHANGED <<day, customers, addresses, alerts, purged>>
  BY DEF SweepCards
<1>4. Len(cards) \in Nat /\ DOMAIN cards = 1 .. Len(cards) /\ DOMAIN kept = DOMAIN cards
      /\ Len(kept) = Len(cards) /\ DOMAIN new = 1 .. Len(new) /\ Len(new) \in Nat
  BY <1>1 DEF Types, Swept
<1> DEFINE ids == Appended(cards, Len(new))
<1>5. IsFiniteSet(ids) /\ Cardinality(ids) = Len(new)
  BY <1>4, KeysInARow DEF Appended
<1>6. U \subseteq DOMAIN cards /\ IsFiniteSet(U) /\ U \in SUBSET Nat
  <2>1. U \in SUBSET DOMAIN cards
    BY DEF Types
  <2> QED BY <2>1, PositionsAreFinite DEF Types
<1>7. /\ log'["customers"] = log["customers"]
      /\ log'["customer_addresses"] = log["customer_addresses"]
      /\ log'["fraud_alerts"] = log["fraud_alerts"]
      /\ log'["cards"].inserted = log["cards"].inserted + Len(new)
      /\ log'["cards"].updated = log["cards"].updated \cup U
  <2> DEFINE l == Updated(log, "cards", U)
  <2>1. /\ l \in [Tables -> Entry] /\ l["cards"].inserted = log["cards"].inserted
        /\ l["cards"].updated = log["cards"].updated \cup U
        /\ \A u \in Tables \ {"cards"} : l[u] = log[u]
    BY <1>6, TableNames, UpdateRecorded DEF Types
  <2>2. /\ log'["cards"].inserted = l["cards"].inserted + Len(new)
        /\ log'["cards"].updated = l["cards"].updated
        /\ \A u \in Tables \ {"cards"} : log'[u] = l[u]
    BY <1>1, <1>4, <2>1, TableNames, InsertRecorded
  <2> QED BY <2>1, <2>2, TableNames
<1>8. /\ \A k \in DOMAIN cards : k \in DOMAIN cards' /\ cards'[k] = kept[k]
      /\ \A k \in DOMAIN cards' : k \notin DOMAIN cards =>
           k \in ids /\ cards'[k].at = day /\ cards'[k].issued = day
      /\ \A k \in ids : k \in DOMAIN cards' /\ k \notin DOMAIN cards
  <2>1. /\ DOMAIN (kept \o new) = 1 .. Len(kept) + Len(new)
        /\ \A k \in DOMAIN kept : (kept \o new)[k] = kept[k]
        /\ \A k \in DOMAIN (kept \o new) : k \notin DOMAIN kept =>
             k - Len(kept) \in DOMAIN new /\ (kept \o new)[k] = new[k - Len(kept)]
    BY Joined
  <2>2. \A n \in DOMAIN new : new[n].at = day /\ new[n].issued = day
    BY <1>1 DEF Issued, Card
  <2> QED BY <1>1, <1>4, <2>1, <2>2 DEF Appended
<1>9. NewCards' = NewCards \cup ids
  BY <1>1, <1>2, <1>3, <1>8 DEF NewCards, Swept
<1>10. StampedCards' = (StampedCards \cup U) \cup ids
  BY <1>1, <1>3, <1>6, <1>8 DEF StampedCards, Swept
<1>11. CardBooks'
  <2>1. Recorded(StampedCards, NewCards, log["cards"], {}) /\ log["cards"].inserted \in Nat
    BY <1>2, TableNames DEF Books, CardBooks, Types, Entry
  <2>2. StampedCards \subseteq DOMAIN cards /\ ids \cap DOMAIN cards = {} /\ U \cap NewCards = {}
    BY <1>2, <1>8 DEF StampedCards
  <2> HIDE DEF ids
  <2>3. Recorded((StampedCards \cup U) \cup ids, NewCards \cup ids, log'["cards"], {})
    BY <2>1, <2>2, <1>5, <1>6, <1>7, RowsRecorded
  <2> QED BY <2>3, <1>9, <1>10 DEF CardBooks
<1>12. CustomerBooks' /\ AddressBooks' /\ AlertBooks' /\ NewCustomers' = {} /\ NewAddresses' = {}
  BY <1>2, <1>3, <1>7, CustomerBooksKept, AddressBooksKept, AlertBooksKept DEF Books
<1> QED BY <1>2, <1>3, <1>11, <1>12 DEF LogInv, Books

(* An insert, or an update, alone. *)
LEMMA InsertRecordedIn ==
  ASSUME Types, NEW t \in Tables, NEW n \in Nat, log' = Inserted(log, t, n)
  PROVE  /\ log[t].inserted \in Nat
         /\ log'[t].inserted = log[t].inserted + n /\ log'[t].updated = log[t].updated \cup {}
         /\ \A u \in Tables \ {t} : log'[u] = log[u]
<1>1. log \in [Tables -> Entry]
  BY DEF Types
<1> QED BY <1>1, InsertRecorded DEF Entry

(* The same of an update. *)
LEMMA UpdateRecordedIn ==
  ASSUME Types, NEW t \in Tables, NEW S \in SUBSET Nat, log' = Updated(log, t, S)
  PROVE  /\ log[t].inserted \in Nat
         /\ log'[t].inserted = log[t].inserted /\ log'[t].updated = log[t].updated \cup S
         /\ \A u \in Tables \ {t} : log'[u] = log[u]
<1>1. log \in [Tables -> Entry]
  BY DEF Types
<1> QED BY <1>1, UpdateRecorded DEF Entry

(* Customers that were there and are stamped. *)
LEMMA RestampKeepsLog ==
  ASSUME Types, LogInv, step # "idle", purged = {}, Books,
         NEW S \in SUBSET DOMAIN customers, Restamp(S), S \cap NewCustomers = {},
         UNCHANGED <<day, addresses, cards, alerts, purged>>
  PROVE  Books' /\ NewCustomers' = NewCustomers /\ NewAddresses' = NewAddresses /\ NewCards' = NewCards
<1>1. IsFiniteSet(S) /\ S \in SUBSET Nat
  BY FS_Subset DEF Types, CustomerTypes
<1>2. \A c \in DOMAIN customers :
        /\ customers'[c].made = customers[c].made
        /\ c \in S => customers'[c].at = day
        /\ c \notin S => customers'[c] = customers[c]
  BY DEF Restamp, Types, CustomerTypes, CustomerRow
<1>3. DOMAIN customers' = DOMAIN customers
  BY DEF Restamp
<1>4. NewCustomers' = NewCustomers /\ StampedCustomers' = StampedCustomers \cup S
  BY <1>2, <1>3 DEF NewCustomers, StampedCustomers
<1>5. /\ log'["customers"].inserted = log["customers"].inserted
      /\ log'["customers"].updated = log["customers"].updated \cup S
      /\ \A u \in Tables \ {"customers"} : log'[u] = log[u]
  BY <1>1, TableNames, UpdateRecordedIn DEF Restamp
<1>6. CustomerBooks'
  <2>1. Recorded(StampedCustomers, NewCustomers, log["customers"], purged)
    BY DEF Books, CustomerBooks
  <2>2. Recorded(StampedCustomers \cup S, NewCustomers, log'["customers"], purged)
    BY <1>1, <1>5, <2>1, UpdatesRecorded
  <2> QED BY <2>2, <1>4 DEF CustomerBooks
<1>7. AddressBooks' /\ CardBooks' /\ AlertBooks' /\ NewAddresses' = NewAddresses /\ NewCards' = NewCards
  BY <1>5, TableNames, AddressBooksKept, CardBooksKept, AlertBooksKept DEF Books
<1> QED BY <1>4, <1>6, <1>7 DEF Books

(* No customer has been made when customers change. *)
LEMMA ChangeCustomersKeepsLog ==
  ASSUME Types, LogInv, ChangeCustomers
  PROVE  LogInv'
<1>1. step = "customers" /\ step' = "addresses" /\ Books /\ NewCustomers = {} /\ NewAddresses = {} /\ purged = {}
  BY DEF ChangeCustomers, Goes, LogInv, BeforeOnboard
<1>2. PICK S \in SUBSET DOMAIN customers : Restamp(S)
  BY DEF ChangeCustomers
<1>3. Books' /\ NewCustomers' = {} /\ NewAddresses' = {}
  BY <1>1, <1>2, RestampKeepsLog DEF ChangeCustomers
<1> QED BY <1>1, <1>3 DEF LogInv, ChangeCustomers

(* The dirt phase edits those who were there before the tick. *)
LEMMA DirtyCustomersKeepsLog ==
  ASSUME Types, LogInv, DirtyCustomers
  PROVE  LogInv'
<1>1. step = "dirt" /\ step' = "resolve" /\ Books /\ purged = {}
  BY DEF DirtyCustomers, Goes, LogInv
<1>2. PICK S \in SUBSET Existing : Restamp(S)
  BY DEF DirtyCustomers
<1>3. S \in SUBSET DOMAIN customers /\ S \cap NewCustomers = {}
  BY DEF Existing, NewCustomers, Types
<1>4. Books'
  BY <1>1, <1>2, <1>3, RestampKeepsLog DEF DirtyCustomers
<1> QED BY <1>1, <1>4 DEF LogInv, DirtyCustomers, BeforeOnboard

(* The moves end addresses and then add addresses. *)
LEMMA MoveAddressesKeepsLog ==
  ASSUME Types, LogInv, MoveAddresses
  PROVE  LogInv'
<1>1. PICK S \in SUBSET DOMAIN addresses, kept \in Seq(AddressRow), new \in Seq(AddressRow) :
           /\ Moved(kept, S) /\ Settled(new)
           /\ addresses' = kept \o new
           /\ log' = Inserted(Updated(log, "customer_addresses", S), "customer_addresses", Len(new))
  BY MoveEffect
<1>2. step = "addresses" /\ step' = "onboard" /\ Books /\ NewCustomers = {} /\ NewAddresses = {} /\ purged = {}
  BY DEF MoveAddresses, Goes, LogInv, BeforeOnboard
<1>3. UNCHANGED <<day, customers, cards, alerts, purged>>
  BY DEF MoveAddresses
<1>4. Len(addresses) \in Nat /\ DOMAIN addresses = 1 .. Len(addresses) /\ DOMAIN kept = DOMAIN addresses
      /\ Len(kept) = Len(addresses) /\ DOMAIN new = 1 .. Len(new) /\ Len(new) \in Nat
  BY <1>1 DEF Types, Moved
<1> DEFINE ids == Appended(addresses, Len(new))
<1>5. IsFiniteSet(ids) /\ Cardinality(ids) = Len(new)
  BY <1>4, KeysInARow DEF Appended
<1>6. IsFiniteSet(S) /\ S \in SUBSET Nat
  BY PositionsAreFinite DEF Types
<1>7. /\ log'["customers"] = log["customers"]
      /\ log'["cards"] = log["cards"]
      /\ log'["fraud_alerts"] = log["fraud_alerts"]
      /\ log'["customer_addresses"].inserted = log["customer_addresses"].inserted + Len(new)
      /\ log'["customer_addresses"].updated = log["customer_addresses"].updated \cup S
  <2> DEFINE l == Updated(log, "customer_addresses", S)
  <2>1. /\ l \in [Tables -> Entry]
        /\ l["customer_addresses"].inserted = log["customer_addresses"].inserted
        /\ l["customer_addresses"].updated = log["customer_addresses"].updated \cup S
        /\ \A u \in Tables \ {"customer_addresses"} : l[u] = log[u]
    BY <1>6, TableNames, UpdateRecorded DEF Types
  <2>2. /\ log'["customer_addresses"].inserted = l["customer_addresses"].inserted + Len(new)
        /\ log'["customer_addresses"].updated = l["customer_addresses"].updated
        /\ \A u \in Tables \ {"customer_addresses"} : log'[u] = l[u]
    BY <1>1, <1>4, <2>1, TableNames, InsertRecorded
  <2> QED BY <2>1, <2>2, TableNames
<1>8. /\ \A k \in DOMAIN addresses : k \in DOMAIN addresses' /\ addresses'[k] = kept[k]
      /\ \A k \in DOMAIN addresses' : k \notin DOMAIN addresses =>
           k \in ids /\ addresses'[k].at = day /\ addresses'[k].from = day
      /\ \A k \in ids : k \in DOMAIN addresses' /\ k \notin DOMAIN addresses
  <2>1. /\ DOMAIN (kept \o new) = 1 .. Len(kept) + Len(new)
        /\ \A k \in DOMAIN kept : (kept \o new)[k] = kept[k]
        /\ \A k \in DOMAIN (kept \o new) : k \notin DOMAIN kept =>
             k - Len(kept) \in DOMAIN new /\ (kept \o new)[k] = new[k - Len(kept)]
    BY Joined
  <2>2. \A n \in DOMAIN new : new[n].at = day /\ new[n].from = day
    BY <1>1 DEF Settled, Address
  <2> QED BY <1>1, <1>4, <2>1, <2>2 DEF Appended
<1>9. NewAddresses' = NewAddresses \cup ids
  BY <1>1, <1>2, <1>3, <1>8 DEF NewAddresses, Moved
<1>10. StampedAddresses' = (StampedAddresses \cup S) \cup ids
  BY <1>1, <1>3, <1>6, <1>8 DEF StampedAddresses, Moved
<1>11. AddressBooks'
  <2>1. Recorded(StampedAddresses, NewAddresses, log["customer_addresses"], {})
        /\ log["customer_addresses"].inserted \in Nat
    BY <1>2, TableNames DEF Books, AddressBooks, Types, Entry
  <2>2. StampedAddresses \subseteq DOMAIN addresses /\ ids \cap DOMAIN addresses = {} /\ S \cap NewAddresses = {}
    BY <1>2, <1>8 DEF StampedAddresses
  <2> HIDE DEF ids
  <2>3. Recorded((StampedAddresses \cup S) \cup ids, NewAddresses \cup ids, log'["customer_addresses"], {})
    BY <2>1, <2>2, <1>5, <1>6, <1>7, RowsRecorded
  <2> QED BY <2>3, <1>9, <1>10 DEF AddressBooks
<1>12. CustomerBooks' /\ CardBooks' /\ AlertBooks' /\ NewCustomers' = {}
  BY <1>2, <1>3, <1>7, CustomerBooksKept, CardBooksKept, AlertBooksKept DEF Books
<1> QED BY <1>2, <1>3, <1>11, <1>12 DEF LogInv, Books

(* Customers under new keys. *)
LEMMA JoinedCustomersBooks ==
  ASSUME Types, IdInv, step # "idle", CustomerBooks, purged = {}, NEW n \in Nat,
         customers' = Extend(customers, [c \in Joining(n) |-> Customer]),
         log'["customers"].inserted = log["customers"].inserted + n,
         log'["customers"].updated = log["customers"].updated \cup {},
         UNCHANGED <<day, purged>>
  PROVE  CustomerBooks'
<1> DEFINE ids == Joining(n)
<1>1. IsFiniteSet(ids) /\ Cardinality(ids) = n
  BY KeysInARow DEF Joining, Types
<1>2. ids \cap DOMAIN customers = {}
  BY JoiningIsFresh
<1>3. /\ DOMAIN customers' = DOMAIN customers \cup ids
      /\ \A c \in DOMAIN customers' : customers'[c] = IF c \in ids THEN Customer ELSE customers[c]
  BY DEF Extend
<1> HIDE DEF ids
<1>4. Customer.made = day /\ Customer.at = day
  BY DEF Customer
<1>5. NewCustomers' = NewCustomers \cup ids
  BY <1>2, <1>3, <1>4 DEF NewCustomers
<1>6. StampedCustomers' = (StampedCustomers \cup {}) \cup ids
  BY <1>2, <1>3, <1>4 DEF StampedCustomers
<1>7. Recorded(StampedCustomers, NewCustomers, log["customers"], {}) /\ log["customers"].inserted \in Nat
  BY TableNames DEF CustomerBooks, Types, Entry
<1>8. StampedCustomers \subseteq DOMAIN customers /\ IsFiniteSet({}) /\ {} \cap NewCustomers = {}
      /\ {} \subseteq DOMAIN customers
  BY FS_EmptySet DEF StampedCustomers
<1>9. Recorded((StampedCustomers \cup {}) \cup ids, NewCustomers \cup ids, log'["customers"], {})
  BY <1>1, <1>2, <1>7, <1>8, RowsRecorded
<1> QED BY <1>5, <1>6, <1>9 DEF CustomerBooks

(* Duplicates are inserts. *)
LEMMA PlantKeepsLog ==
  ASSUME Types, IdInv, LogInv, PlantDuplicates
  PROVE  LogInv'
<1>1. PICK n \in Nat :
           /\ customers' = Extend(customers, [c \in Joining(n) |-> Customer])
           /\ log' = Inserted(log, "customers", n)
  BY PlantEffect
<1>2. step = "duplicates" /\ step' = "dirt" /\ Books /\ purged = {}
      /\ UNCHANGED <<day, addresses, cards, alerts, purged>>
  BY DEF PlantDuplicates, Goes, LogInv
<1>3. /\ log'["customers"].inserted = log["customers"].inserted + n
      /\ log'["customers"].updated = log["customers"].updated \cup {}
      /\ \A u \in Tables \ {"customers"} : log'[u] = log[u]
  BY <1>1, TableNames, InsertRecordedIn
<1>4. CustomerBooks'
  BY <1>1, <1>2, <1>3, JoinedCustomersBooks DEF Books
<1>5. AddressBooks' /\ CardBooks' /\ AlertBooks'
  BY <1>2, <1>3, TableNames, AddressBooksKept, CardBooksKept, AlertBooksKept DEF Books
<1> QED BY <1>2, <1>4, <1>5 DEF LogInv, Books, BeforeOnboard

(* Rows at the end of a table, all of them made and stamped today. *)
LEMMA RowsAppended ==
  ASSUME NEW R, NEW s \in Seq(R), NEW new \in Seq(R)
  PROVE  LET ids == Appended(s, Len(new))
         IN  /\ IsFiniteSet(ids) /\ Cardinality(ids) = Len(new) /\ ids \cap DOMAIN s = {}
             /\ \A k \in DOMAIN s : k \in DOMAIN (s \o new) /\ (s \o new)[k] = s[k]
             /\ \A k \in ids : /\ k \in DOMAIN (s \o new) /\ k - Len(s) \in DOMAIN new
                               /\ (s \o new)[k] = new[k - Len(s)]
             /\ \A k \in DOMAIN (s \o new) : k \in DOMAIN s \/ k \in ids
<1>1. Len(s) \in Nat /\ Len(new) \in Nat /\ DOMAIN s = 1 .. Len(s) /\ DOMAIN new = 1 .. Len(new)
  OBVIOUS
<1>2. IsFiniteSet(Appended(s, Len(new))) /\ Cardinality(Appended(s, Len(new))) = Len(new)
  BY <1>1, KeysInARow DEF Appended
<1>3. /\ DOMAIN (s \o new) = 1 .. Len(s) + Len(new)
      /\ \A k \in DOMAIN (s \o new) :
           IF k \in DOMAIN s THEN (s \o new)[k] = s[k]
           ELSE k - Len(s) \in DOMAIN new /\ (s \o new)[k] = new[k - Len(s)]
  BY Joined
<1>4. \A k \in Appended(s, Len(new)) : k \in DOMAIN (s \o new) /\ k \notin DOMAIN s
  BY <1>1, <1>3 DEF Appended
<1>5. \A k \in DOMAIN (s \o new) : k \in DOMAIN s \/ k \in Appended(s, Len(new))
  BY <1>1, <1>3 DEF Appended
<1>6. \A k \in DOMAIN s : k \in DOMAIN (s \o new)
  BY <1>1, <1>3
<1> QED BY <1>2, <1>3, <1>4, <1>5, <1>6

(* Addresses that are added. *)
LEMMA JoinedAddressesBooks ==
  ASSUME Types, AddressBooks, NEW new \in Seq(AddressRow), addresses' = addresses \o new,
         Settled(new),
         log'["customer_addresses"].inserted = log["customer_addresses"].inserted + Len(new),
         log'["customer_addresses"].updated = log["customer_addresses"].updated \cup {},
         UNCHANGED day
  PROVE  AddressBooks'
<1> DEFINE ids == Appended(addresses, Len(new))
<1>1. /\ IsFiniteSet(ids) /\ Cardinality(ids) = Len(new) /\ ids \cap DOMAIN addresses = {}
      /\ \A k \in DOMAIN addresses : k \in DOMAIN addresses' /\ addresses'[k] = addresses[k]
      /\ \A k \in ids : /\ k \in DOMAIN addresses' /\ k - Len(addresses) \in DOMAIN new
                        /\ addresses'[k] = new[k - Len(addresses)]
      /\ \A k \in DOMAIN addresses' : k \in DOMAIN addresses \/ k \in ids
  <2>1. addresses \in Seq(AddressRow)
    BY DEF Types
  <2> QED BY <2>1, RowsAppended
<1> HIDE DEF ids
<1>2. \A n \in DOMAIN new : new[n].at = day /\ new[n].from = day
  BY DEF Settled, Address
<1>3. NewAddresses' = NewAddresses \cup ids
  BY <1>1, <1>2 DEF NewAddresses
<1>4. StampedAddresses' = (StampedAddresses \cup {}) \cup ids
  BY <1>1, <1>2 DEF StampedAddresses
<1>5. Recorded(StampedAddresses, NewAddresses, log["customer_addresses"], {})
      /\ log["customer_addresses"].inserted \in Nat
  BY TableNames DEF AddressBooks, Types, Entry
<1>6. StampedAddresses \subseteq DOMAIN addresses /\ IsFiniteSet({}) /\ {} \cap NewAddresses = {}
      /\ {} \subseteq DOMAIN addresses
  BY FS_EmptySet DEF StampedAddresses
<1>7. Recorded((StampedAddresses \cup {}) \cup ids, NewAddresses \cup ids, log'["customer_addresses"], {})
  BY <1>1, <1>5, <1>6, RowsRecorded
<1> QED BY <1>3, <1>4, <1>7 DEF AddressBooks

(* Cards that are added. *)
LEMMA JoinedCardsBooks ==
  ASSUME Types, CardBooks, NEW new \in Seq(CardRow), cards' = cards \o new,
         NEW accts, Issued(new, accts),
         log'["cards"].inserted = log["cards"].inserted + Len(new),
         log'["cards"].updated = log["cards"].updated \cup {},
         UNCHANGED day
  PROVE  CardBooks'
<1> DEFINE ids == Appended(cards, Len(new))
<1>1. /\ IsFiniteSet(ids) /\ Cardinality(ids) = Len(new) /\ ids \cap DOMAIN cards = {}
      /\ \A k \in DOMAIN cards : k \in DOMAIN cards' /\ cards'[k] = cards[k]
      /\ \A k \in ids : /\ k \in DOMAIN cards' /\ k - Len(cards) \in DOMAIN new
                        /\ cards'[k] = new[k - Len(cards)]
      /\ \A k \in DOMAIN cards' : k \in DOMAIN cards \/ k \in ids
  <2>1. cards \in Seq(CardRow)
    BY DEF Types
  <2> QED BY <2>1, RowsAppended
<1> HIDE DEF ids
<1>2. \A n \in DOMAIN new : new[n].at = day /\ new[n].issued = day
  BY DEF Issued, Card
<1>3. NewCards' = NewCards \cup ids
  BY <1>1, <1>2 DEF NewCards
<1>4. StampedCards' = (StampedCards \cup {}) \cup ids
  BY <1>1, <1>2 DEF StampedCards
<1>5. Recorded(StampedCards, NewCards, log["cards"], {}) /\ log["cards"].inserted \in Nat
  BY TableNames DEF CardBooks, Types, Entry
<1>6. StampedCards \subseteq DOMAIN cards /\ IsFiniteSet({}) /\ {} \cap NewCards = {}
      /\ {} \subseteq DOMAIN cards
  BY FS_EmptySet DEF StampedCards
<1>7. Recorded((StampedCards \cup {}) \cup ids, NewCards \cup ids, log'["cards"], {})
  BY <1>1, <1>5, <1>6, RowsRecorded
<1> QED BY <1>3, <1>4, <1>7 DEF CardBooks

(* Alerts that are raised. *)
LEMMA RaisedAlertsBooks ==
  ASSUME Types, AlertBooks, NEW new \in Seq(AlertRow), alerts' = alerts \o new, Raised(new),
         log'["fraud_alerts"].inserted = log["fraud_alerts"].inserted + Len(new),
         log'["fraud_alerts"].updated = log["fraud_alerts"].updated \cup {},
         UNCHANGED day
  PROVE  AlertBooks'
<1> DEFINE ids == Appended(alerts, Len(new))
<1>1. /\ IsFiniteSet(ids) /\ Cardinality(ids) = Len(new) /\ ids \cap DOMAIN alerts = {}
      /\ \A k \in DOMAIN alerts : k \in DOMAIN alerts' /\ alerts'[k] = alerts[k]
      /\ \A k \in ids : /\ k \in DOMAIN alerts' /\ k - Len(alerts) \in DOMAIN new
                        /\ alerts'[k] = new[k - Len(alerts)]
      /\ \A k \in DOMAIN alerts' : k \in DOMAIN alerts \/ k \in ids
  <2>1. alerts \in Seq(AlertRow)
    BY DEF Types
  <2> QED BY <2>1, RowsAppended
<1> HIDE DEF ids
<1>2. \A n \in DOMAIN new : new[n].at = day /\ new[n].raised = day
  BY DEF Raised
<1>3. NewAlerts' = NewAlerts \cup ids
  BY <1>1, <1>2 DEF NewAlerts
<1>4. StampedAlerts' = (StampedAlerts \cup {}) \cup ids
  BY <1>1, <1>2 DEF StampedAlerts
<1>5. Recorded(StampedAlerts, NewAlerts, log["fraud_alerts"], {}) /\ log["fraud_alerts"].inserted \in Nat
  BY TableNames DEF AlertBooks, Types, Entry
<1>6. StampedAlerts \subseteq DOMAIN alerts /\ IsFiniteSet({}) /\ {} \cap NewAlerts = {}
      /\ {} \subseteq DOMAIN alerts
  BY FS_EmptySet DEF StampedAlerts
<1>7. Recorded((StampedAlerts \cup {}) \cup ids, NewAlerts \cup ids, log'["fraud_alerts"], {})
  BY <1>1, <1>5, <1>6, RowsRecorded
<1> QED BY <1>3, <1>4, <1>7 DEF AlertBooks

(* Acquisition inserts in three tables. *)
LEMMA OnboardKeepsLog ==
  ASSUME Types, IdInv, LogInv, Onboard
  PROVE  LogInv'
<1>1. PICK n \in Nat, homes \in Seq(AddressRow), new \in Seq(CardRow) :
           /\ customers' = Extend(customers, [c \in Joining(n) |-> Customer])
           /\ addresses' = addresses \o homes /\ Settled(homes) /\ Len(homes) = n
           /\ cards' = cards \o new /\ Issued(new, Joining(n))
           /\ log' = Inserted(Inserted(Inserted(log, "customers", n),
                                       "customer_addresses", n), "cards", Len(new))
  BY OnboardEffect
<1>2. step = "onboard" /\ step' = "late" /\ Books /\ purged = {}
      /\ UNCHANGED <<day, alerts, purged>>
  BY DEF Onboard, Goes, LogInv
<1>3. /\ log'["customers"].inserted = log["customers"].inserted + n
      /\ log'["customers"].updated = log["customers"].updated \cup {}
      /\ log'["customer_addresses"].inserted = log["customer_addresses"].inserted + n
      /\ log'["customer_addresses"].updated = log["customer_addresses"].updated \cup {}
      /\ log'["cards"].inserted = log["cards"].inserted + Len(new)
      /\ log'["cards"].updated = log["cards"].updated \cup {}
      /\ log'["fraud_alerts"] = log["fraud_alerts"]
  <2> DEFINE l == Inserted(log, "customers", n)
             m == Inserted(l, "customer_addresses", n)
  <2>1. /\ l \in [Tables -> Entry] /\ l["customers"].inserted = log["customers"].inserted + n
        /\ l["customers"].updated = log["customers"].updated
        /\ \A u \in Tables \ {"customers"} : l[u] = log[u]
    BY TableNames, InsertRecorded DEF Types
  <2>5. log' = Inserted(m, "cards", Len(new))
    BY <1>1
  <2> HIDE DEF l
  <2>2. /\ m \in [Tables -> Entry]
        /\ m["customer_addresses"].inserted = l["customer_addresses"].inserted + n
        /\ m["customer_addresses"].updated = l["customer_addresses"].updated
        /\ \A u \in Tables \ {"customer_addresses"} : m[u] = l[u]
    BY <2>1, TableNames, InsertRecorded
  <2> HIDE DEF m
  <2>3. Len(new) \in Nat
    OBVIOUS
  <2>4. /\ log'["cards"].inserted = m["cards"].inserted + Len(new)
        /\ log'["cards"].updated = m["cards"].updated
        /\ \A u \in Tables \ {"cards"} : log'[u] = m[u]
    BY <2>2, <2>3, <2>5, TableNames, InsertRecorded
  <2> QED BY <2>1, <2>2, <2>4, TableNames
<1>4. CustomerBooks'
  BY <1>1, <1>2, <1>3, JoinedCustomersBooks DEF Books
<1>5. AddressBooks'
  BY <1>1, <1>2, <1>3, JoinedAddressesBooks DEF Books
<1>6. CardBooks'
  BY <1>1, <1>2, <1>3, JoinedCardsBooks DEF Books
<1>7. AlertBooks'
  BY <1>2, <1>3, AlertBooksKept DEF Books
<1> QED BY <1>2, <1>4, <1>5, <1>6, <1>7 DEF LogInv, Books, BeforeOnboard

(* Purchases insert alerts. *)
LEMMA MovementsKeepLog ==
  ASSUME Types, LogInv, Movements
  PROVE  LogInv'
<1>1. PICK new \in Seq(Spent) : Purchase(new)
  BY LateArrivalsEffect, SpendTodayEffect DEF Movements
<1>2. PICK more \in Seq(AlertRow) :
        /\ Raised(more) /\ alerts' = alerts \o more
        /\ log' = Inserted(log, "fraud_alerts", Len(more))
  BY <1>1, PurchaseEffect
<1>3. step # "idle" /\ Books /\ purged = {} /\ step' \in {"day", "dispositions"}
      /\ UNCHANGED <<day, customers, addresses, cards, purged>>
  BY DEF Movements, ClearLateArrivals, SpendToday, Goes, LogInv
<1>4. /\ log'["fraud_alerts"].inserted = log["fraud_alerts"].inserted + Len(more)
      /\ log'["fraud_alerts"].updated = log["fraud_alerts"].updated \cup {}
      /\ \A u \in Tables \ {"fraud_alerts"} : log'[u] = log[u]
  <2>1. Len(more) \in Nat
    OBVIOUS
  <2> QED BY <2>1, <1>2, TableNames, InsertRecordedIn
<1>5. AlertBooks'
  BY <1>2, <1>3, <1>4, RaisedAlertsBooks DEF Books
<1>6. CustomerBooks' /\ AddressBooks' /\ CardBooks'
  BY <1>3, <1>4, TableNames, CustomerBooksKept, AddressBooksKept, CardBooksKept DEF Books
<1> QED BY <1>3, <1>5, <1>6 DEF LogInv, Books, BeforeOnboard

(* The alerts ruled on were raised before today. *)
LEMMA DisposeKeepsLog ==
  ASSUME Types, LogInv, DisposeAlerts
  PROVE  LogInv'
<1>1. /\ DOMAIN alerts' = DOMAIN alerts
      /\ \A i \in DOMAIN alerts :
           /\ alerts'[i].raised = alerts[i].raised
           /\ i \notin DisposeDue => alerts'[i] = alerts[i]
           /\ i \in DisposeDue => alerts'[i].at = day
      /\ log' = Updated(log, "fraud_alerts", DisposeDue)
  BY DisposeEffect
<1>2. step = "dispositions" /\ step' = "duplicates" /\ Books /\ purged = {}
      /\ UNCHANGED <<day, customers, addresses, cards, purged>>
  BY DEF DisposeAlerts, Goes, LogInv
<1>3. DisposeDue \in SUBSET DOMAIN alerts
  BY DEF DisposeDue
<1>4. IsFiniteSet(DisposeDue) /\ DisposeDue \in SUBSET Nat
  BY <1>3, PositionsAreFinite DEF Types
<1>5. DisposeDue \cap NewAlerts = {}
  <2>1. \A i \in DOMAIN alerts : alerts[i].raised \in Int
    BY RowTypes DEF AlertRow
  <2> QED BY <2>1 DEF DisposeDue, Due, NewAlerts, Types
<1>6. /\ log'["fraud_alerts"].inserted = log["fraud_alerts"].inserted
      /\ log'["fraud_alerts"].updated = log["fraud_alerts"].updated \cup DisposeDue
      /\ \A u \in Tables \ {"fraud_alerts"} : log'[u] = log[u]
  BY <1>1, <1>4, TableNames, UpdateRecordedIn
<1>7. NewAlerts' = NewAlerts /\ StampedAlerts' = StampedAlerts \cup DisposeDue
  BY <1>1, <1>2, <1>3 DEF NewAlerts, StampedAlerts
<1>8. AlertBooks'
  <2>1. Recorded(StampedAlerts, NewAlerts, log["fraud_alerts"], {})
    BY <1>2 DEF Books, AlertBooks
  <2>2. Recorded(StampedAlerts \cup DisposeDue, NewAlerts, log'["fraud_alerts"], {})
    BY <2>1, <1>4, <1>5, <1>6, UpdatesRecorded
  <2> QED BY <2>2, <1>7 DEF AlertBooks
<1>9. CustomerBooks' /\ AddressBooks' /\ CardBooks'
  BY <1>2, <1>6, TableNames, CustomerBooksKept, AddressBooksKept, CardBooksKept DEF Books
<1> QED BY <1>2, <1>8, <1>9 DEF LogInv, Books, BeforeOnboard

(* The duplicates resolved were there before the tick: a tombstone is an    *)
(* update, and a purge takes from the window what was updated only.         *)
LEMMA ResolveKeepsLog ==
  ASSUME Types, LogInv, ResolveDuplicates
  PROVE  LogInv'
<1>1. PICK T \in SUBSET (Existing \ Dependents), P \in SUBSET (Existing \ Dependents) :
           /\ T \cap P = {}
           /\ DOMAIN customers' = DOMAIN customers \ P
           /\ \A c \in DOMAIN customers \ P :
                /\ customers'[c].made = customers[c].made
                /\ c \in T => customers'[c].at = day
                /\ c \notin T => customers'[c] = customers[c]
           /\ purged' = P /\ log' = Updated(log, "customers", T)
  BY ResolveEffect
<1>2. step = "resolve" /\ step' = "commit" /\ Books /\ purged = {}
      /\ UNCHANGED <<day, addresses, cards, alerts>>
  BY DEF ResolveDuplicates, Goes, LogInv
<1>3. T \in SUBSET DOMAIN customers /\ P \in SUBSET DOMAIN customers
  BY <1>1 DEF Existing
<1>4. IsFiniteSet(T) /\ T \in SUBSET Nat
  BY <1>3, FS_Subset DEF Types, CustomerTypes
<1>5. T \cap NewCustomers = {} /\ P \cap NewCustomers = {}
  BY <1>1 DEF Existing, NewCustomers, Types
<1>6. /\ log'["customers"].inserted = log["customers"].inserted
      /\ log'["customers"].updated = log["customers"].updated \cup T
      /\ \A u \in Tables \ {"customers"} : log'[u] = log[u]
  BY <1>1, <1>4, TableNames, UpdateRecordedIn
<1>7. NewCustomers' = NewCustomers
  BY <1>1, <1>2, <1>5 DEF NewCustomers
<1>8. StampedCustomers' = (StampedCustomers \cup T) \ P
  BY <1>1, <1>2, <1>3 DEF StampedCustomers
<1>9. CustomerBooks'
  <2>1. Recorded(StampedCustomers, NewCustomers, log["customers"], {})
    BY <1>2 DEF Books, CustomerBooks
  <2>2. Recorded(StampedCustomers \cup T, NewCustomers, log'["customers"], {})
    BY <2>1, <1>4, <1>5, <1>6, UpdatesRecorded
  <2>3. (StampedCustomers \cup T) \ P = NewCustomers \cup (log'["customers"].updated \ P)
    BY <2>2, <1>5 DEF Recorded
  <2>4. Recorded(StampedCustomers', NewCustomers', log'["customers"], P)
    BY <2>2, <2>3, <1>7, <1>8 DEF Recorded
  <2> QED BY <2>4, <1>1 DEF CustomerBooks
<1>10. AddressBooks' /\ CardBooks' /\ AlertBooks'
  BY <1>2, <1>6, TableNames, AddressBooksKept, CardBooksKept, AlertBooksKept DEF Books
<1> QED BY <1>2, <1>9, <1>10 DEF LogInv, Books, BeforeOnboard

(* The commit stamps nothing. *)
LEMMA CommitKeepsLog ==
  ASSUME LogInv, Commit
  PROVE  LogInv'
<1>1. Books'
  BY CustomerBooksKept, AddressBooksKept, CardBooksKept, AlertBooksKept
  DEF LogInv, Commit, Goes, Books, registers
<1> QED BY <1>1 DEF LogInv, Commit, Goes, BeforeOnboard

(* Before the first tick nothing is asked. *)
LEMMA LogInit == Init => LogInv
BY DEF Init, LogInv, BeforeOnboard

(* Every step keeps the invariant. *)
LEMMA LogStep ==
  ASSUME Types, CardInv, LogInv, [Next]_vars
  PROVE  LogInv'
<1>1. CASE UNCHANGED vars
  <2>1. UNCHANGED <<day, step, customers, addresses, cards, alerts, log, purged>>
    BY <1>1 DEF vars, registers
  <2>2. Books => Books'
    BY <2>1, CustomerBooksKept, AddressBooksKept, CardBooksKept, AlertBooksKept DEF Books
  <2>3. UNCHANGED <<NewCustomers, NewAddresses, NewCards>>
    BY <2>1 DEF NewCustomers, NewAddresses, NewCards
  <2> QED BY <2>1, <2>2, <2>3 DEF LogInv
<1>2. CASE Next
  BY <1>2, BeginTickKeepsLog, CloseAccountsKeepsLog, SweepCardsKeepsLog, ChangeCustomersKeepsLog,
     MoveAddressesKeepsLog, OnboardKeepsLog, MovementsKeepLog, DisposeKeepsLog, PlantKeepsLog,
     DirtyCustomersKeepsLog, ResolveKeepsLog, CommitKeepsLog
  DEF Next, Lifecycle, Dirt, CardInv
<1> QED BY <1>1, <1>2

(* A committed tick reconciles exactly, table by table (TickReport,         *)
(* reconcile), but for customers on a day on which it purged a row it had   *)
(* updated: for every history, lag, budget and number of days.              *)
THEOREM OnlyPurgesDisagreeCorrect == Spec => []OnlyPurgesDisagree
<1>1. Types /\ CardInv /\ LogInv /\ [Next]_vars => LogInv'
  BY LogStep
<1> QED BY <1>1, BooksBalance, LogInit, CardInit, CardStep, RegisterTypesCorrect, PTL DEF Spec

=============================================================================
