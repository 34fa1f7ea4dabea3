------------------------- MODULE MCReferralRewards -------------------------
(***************************************************************************)
(* Two deposits, of two depositors that have the same referrer, and a      *)
(* request for each of two windows.                                        *)
(***************************************************************************)
EXTENDS ReferralRewards, TLC

CONSTANTS d1, d2, r1, r2, alice, bob, rita

MCDepositor == (d1 :> alice) @@ (d2 :> bob)
MCDate == (d1 :> 1) @@ (d2 :> 2)
MCWindow == (r1 :> 1) @@ (r2 :> 2)
MCMaxDate == (r1 :> 1) @@ (r2 :> 2)
=============================================================================
