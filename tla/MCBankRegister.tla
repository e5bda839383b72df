--------------------------- MODULE MCBankRegister ---------------------------
(* Instances of BankRegister small enough for TLC. *)
EXTENDS BankRegister, TLC

TwoDays == [i \in 1 .. 8 |-> 2]

OldCard(status, issued, expiry) ==
  [acct |-> 1, status |-> status, issued |-> issued, expiry |-> expiry, at |-> 0]
Open(raised) == [raised |-> raised, verdict |-> "open", ruled |-> 0, at |-> 0]
Holder(card, raised) ==
  [customers |-> [c \in {1} |-> [made |-> 0, at |-> 0, deleted |-> FALSE]],
   addresses |-> <<[cust |-> 1, from |-> -2, to |-> Forever, at |-> 0]>>,
   accounts |-> [c \in {1} |-> [opened |-> -2, closed |-> 0]],
   cards |-> <<card>>, alerts |-> raised]

(* A card in the middle of its life with an alert long overdue, one that    *)
(* expires at the first tick, and one that is blocked.                      *)
Registers == {Holder(OldCard("active", -1, 2), <<Open(-3)>>),
              Holder(OldCard("active", -2, 1), <<>>),
              Holder(OldCard("blocked", -2, 9), <<>>)}
=============================================================================
