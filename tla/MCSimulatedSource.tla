-------------------------- MODULE MCSimulatedSource --------------------------
(* Instances of SimulatedSource small enough for TLC. *)
EXTENDS SimulatedSource, TLC

CONSTANTS risk, remittance

Timeline == {risk, remittance}
Offsets == risk :> 1 @@ remittance :> 2
Risk == {risk}
CustomerKeys == {"addresses"}
Symmetric == Permutations(Tickers)
=============================================================================
