---------------------------- MODULE MCFillEvents ----------------------------
(***************************************************************************)
(* A deposit of 3 filled by three transactions, the last to be mined being *)
(* a block later than the deposit's clock and the first one earlier.       *)
(***************************************************************************)
EXTENDS FillEvents, TLC

CONSTANTS w, f1, f2, f3

MCTotal == (f1 :> 1) @@ (f2 :> 2) @@ (f3 :> 3)
MCFillTime == (f1 :> 1) @@ (f2 :> 3) @@ (f3 :> 3)
=============================================================================
