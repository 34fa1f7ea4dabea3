----------------------------- MODULE MCOpRewards -----------------------------
(***************************************************************************)
(* Two deposits of one account, one of them after the last date of the     *)
(* first window, and a request for each of two windows.  A behaviour is of *)
(* one of three kinds, chosen at the start:                                *)
(*                                                                         *)
(* - "rebates": two workers at one deposit; nobody claims, no request dies;*)
(* - "claims": the rebates are settled before the first claim, and it is   *)
(*   the ranges, the blocks and the uploads that vary;                     *)
(* - "marks": a reward is saved again while it is claimed, in the simplest *)
(*   of ranges.                                                            *)
(***************************************************************************)
EXTENDS OpRewards, TLC

CONSTANTS w1, w2, d1, d2, r1, r2, alice

VARIABLE group

MCRecipient == [d \in Deposit |-> alice]
MCDate == (d1 :> 1) @@ (d2 :> 2)
MCWindow == (r1 :> 1) @@ (r2 :> 2)
MCFee == (d1 :> {1, 2}) @@ (d2 :> {1})
MCMaxBreakdowns == (d1 :> 2) @@ (d2 :> 1)
MCMaxDate == (r1 :> 1) @@ (r2 :> 2)

OneWorker == UNCHANGED worker[w2]

Rebates ==
    /\ group = "rebates"
    /\ breakdowns'[d2] = 0
    /\ \A r \in Request : step'[r] # "dead"
    /\ lastBlock' = 0 /\ uploaded' = {}

\* Every deposit has its reward, and no job is left that could change it.
Settled ==
    /\ \A d \in Deposit : reward[d].amount # 0 /\ unsent[d] = 0 /\ rebateQueue[d] = 0
    /\ \A w \in Worker : worker[w].pc = "idle"
    /\ UNCHANGED rebateVars

Claims ==
    /\ group = "claims"
    /\ OneWorker
    /\ \A d \in Deposit : breakdowns'[d] <= 1 /\ fee'[d] <= 1
    /\ Settled \/ (lastBlock' = 0 /\ uploaded' = {} /\ deaths' = 0 /\ began' = <<>>)

Marks ==
    /\ group = "marks"
    /\ OneWorker
    /\ breakdowns'[d2] = 0
    /\ \A r \in Request : job'[r] = "Done" => Window[r] = 1
    /\ claimer'.passed = {}
    /\ blockRows' = blockRows \/ claimer'.pc = "dated"
    /\ deaths' = 0

MCInit == Init /\ group \in {"rebates", "claims", "marks"}
MCNext == Next /\ (Rebates \/ Claims \/ Marks) /\ UNCHANGED group
MCSpec == MCInit /\ [][MCNext]_<<vars, group>> /\ Fairness
=============================================================================
