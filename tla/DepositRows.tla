----------------------------- MODULE DepositRows -----------------------------
(***************************************************************************)
(* The rows of the deposit table, which the jobs of Enrichment and those   *)
(* of StickyReferrals fill: different columns of the same rows.            *)
(***************************************************************************)
EXTENDS FiniteSets

CONSTANT Deposit

ASSUME DepositAssumption == IsFiniteSet(Deposit)
=============================================================================
