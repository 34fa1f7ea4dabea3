---------------------------- MODULE MCIngestion ----------------------------
(***************************************************************************)
(* Two chains with two contracts each, of which one grows: no loop or job  *)
(* of a chain reads what those of another chain have written.  Batches of  *)
(* two blocks lie in one era or cross into the next.                       *)
(*                                                                         *)
(* In the last block of the first era, which samples of one block leave    *)
(* out of a batch of two, are, on one chain, a transaction with two        *)
(* deposits, the first of which is of a swap, and on the other chain a     *)
(* fill, with a speed-up in the next block.                                *)
(***************************************************************************)
EXTENDS Ingestion, TLC

CONSTANTS chain1, chain2, d1, d2, s1, t1, f1, u1

MCLoops(v) == [l \in Loop |-> v]
MCStartBlock == MCLoops(1)
MCDistance == MCLoops(1)
MCMinBlockRange == MCLoops(1)
MCDeployment == MCLoops(<<1, 3>>)
MCEventLoop == [e \in Event |-> IF e \in Deposit THEN chain1 ELSE chain2]
MCEventBlock == [e \in Event |-> IF e = u1 THEN 3 ELSE 2]
MCKindOf ==
    [e \in Event |-> IF e \in Deposit THEN "deposit" ELSE IF e \in Fill THEN "fill" ELSE "speedUp"]
MCQuerySize == MCLoops({1})
MCTokenOf == [s \in Swap |-> t1]
MCReceipts == {<<s1, d1, d2>>}

OneGrows == \E l \in Loop : \A m \in Loop \ {l} : head'[m] = 0
MCSpec == Init /\ [][Next /\ OneGrows]_vars /\ Fairness
=============================================================================
