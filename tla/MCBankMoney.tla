---------------------------- MODULE MCBankMoney ----------------------------
(* Instances of BankMoney small enough for TLC. *)
EXTENDS BankMoney, TLC

OneEach == [a \in Accounts |-> a]

Prompt == [i \in 1 .. MaxApplications |->
             [decides |-> 1, roll |-> IF i = 2 THEN "withdrawn" ELSE "judged",
              drawn |-> TRUE, disburses |-> 1]]

Nothing == [txns |-> <<>>, payments |-> <<>>, applications |-> <<>>, loans |-> <<>>,
            installments |-> <<>>]
App(status, decided) ==
  [cust |-> 1, status |-> status, applied |-> 0, decided |-> decided, deleted |-> FALSE, at |-> 0]
Old(status, kind) == [acct |-> 1, amt |-> -1, status |-> status, booked |-> 0, made |-> 0,
                      at |-> 0, kind |-> kind, of |-> 0, deleted |-> FALSE]
Paying(status) == [acct |-> 1, amt |-> -1, status |-> status, initiated |-> 0,
                   booked |-> 0, at |-> 0]
Owing(due) == [loan |-> 1, due |-> due, paid |-> 0, made |-> 0, at |-> 0]

(* A book with movements in flight, one with an application in the funnel,  *)
(* one that lends already: an installment due, another long overdue.        *)
InFlight == [Nothing EXCEPT !.txns = <<Old("pending", "drawn")>>,
                            !.payments = <<Paying("pending")>>]
InFunnel(status) == [Nothing EXCEPT !.applications = <<App(status, 0)>>]
Lending(due) == [Nothing EXCEPT !.applications = <<App("approved", 0)>>,
                   !.loans = <<[app |-> 1, cust |-> 1, status |-> "current", disbursed |-> 0,
                                at |-> 0]>>,
                   !.installments = [n \in DOMAIN due |-> Owing(due[n])]]

PlusMinus == {-1, 1}
Books == {InFlight, InFunnel("scoring"), InFunnel("approved"), Lending(<<1, 2>>), Lending(<<-2, 1>>)}
=============================================================================
