--------------------------- MODULE DepositLedger ---------------------------
(***************************************************************************)
(* What the fill consumers promise of one deposit: the amount filled only  *)
(* grows, each time to a total that a fill event of the chain reports, and *)
(* the deposit is filled when, and only when, the total is its amount.     *)
(***************************************************************************)
EXTENDS Integers

CONSTANTS
    Amount,     \* amount of the deposit, a positive number
    Totals      \* running totals the fill events report, a subset of 1..Amount

VARIABLES filled, status

ledgerVars == <<filled, status>>

StatusAt(n) == IF n = Amount THEN "filled" ELSE "pending"

Init == filled = 0 /\ status = "pending"

Fill(total) ==
    /\ filled < total
    /\ filled' = total
    /\ status' = StatusAt(total)

Next == \E total \in Totals : Fill(total)

Spec == Init /\ [][Next]_ledgerVars
=============================================================================
