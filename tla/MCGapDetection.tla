--------------------------- MODULE MCGapDetection ---------------------------
(***************************************************************************)
(* Ids 0 to 2 and 5 to 8, and two contracts, the second deployed in the    *)
(* block of the first V2.5 deposit, 5.  With samples of two blocks, a      *)
(* range from block 1 leaves out block 3, the last one before the second   *)
(* contract and that of deposit 2; and one from block 4 to block 6, which  *)
(* deposit 6 shares with 7, leaves out block 6.                            *)
(***************************************************************************)
EXTENDS GapDetection

BlockOf == <<1, 1, 3, 1, 1, 4, 6, 6, 7>>
MCDepositBlock == [d \in Id |-> BlockOf[d + 1]]
MCStarts == <<1, 4>>
=============================================================================
