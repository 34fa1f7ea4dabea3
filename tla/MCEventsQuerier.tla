-------------------------- MODULE MCEventsQuerier --------------------------
(***************************************************************************)
(* Three calls of one querier, over ranges of one, four and nine blocks.   *)
(* The node refuses more than four blocks, and the four blocks from 5 on,  *)
(* which hold too many logs.  The size starts unset, and takes the default *)
(* 8 and then 4 and 2 as calls are refused at their first interval or at a *)
(* later one.                                                              *)
(***************************************************************************)
EXTENDS EventsQuerier, TLC

CONSTANTS c1, c2, c3

Interval(from, to) == [from |-> from, to |-> to]
MCQueryRange == {Interval(3, 3), Interval(5, 8), Interval(1, 9)}
MCTooLarge == {Interval(a, b) : a \in {1, 5}, b \in {8, 9}}
=============================================================================
