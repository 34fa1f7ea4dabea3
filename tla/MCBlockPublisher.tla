-------------------------- MODULE MCBlockPublisher --------------------------
(***************************************************************************)
(* Two publishing loops: a spoke pool loop, which republishes and starts   *)
(* at a configured block, and the V1 distributor loop, which publishes     *)
(* once and whose start block is not configured.                           *)
(***************************************************************************)
EXTENDS BlockPublisher, TLC

CONSTANTS spoke, merkle

MCStartBlock == (spoke :> 2) @@ (merkle :> 0)
MCDistance == (spoke :> 1) @@ (merkle :> 2)
MCMinBlockRange == (spoke :> 1) @@ (merkle :> 2)
=============================================================================
