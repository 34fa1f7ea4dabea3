---------------------------- MODULE BlockRanges ----------------------------
(***************************************************************************)
(* The pure block arithmetic of the scraper: which blocks a publishing     *)
(* loop hands out next, which SpokePool contract each block of a range is  *)
(* queried at, and how one query is cut into samples a node will accept.   *)
(* A range is a record [from, to], both ends included.                     *)
(***************************************************************************)
EXTENDS Integers, Sequences

Blocks(r) == r.from .. r.to

Lesser(a, b) == IF a <= b THEN a ELSE b

(***************************************************************************)
(* ScraperService.determineBlockRange.  `latest` is the block the database *)
(* holds for the chain (NoRow when it holds none), `start` the configured  *)
(* start block (0 when it is not set, which the code reads as falsy).      *)
(* There is nothing to publish when the result is empty: from > to.        *)
(***************************************************************************)
NoRow == 0

FirstBlock(start) == IF start = 0 THEN 1 ELSE start

\* Mutated form of NextFrom: the block after the saved one is not stepped to.
NextFromSaved(latest, start) ==
    IF latest = NoRow THEN FirstBlock(start) ELSE latest

NextFrom(latest, start) ==
    IF latest = NoRow THEN FirstBlock(start) ELSE latest + 1

DetermineBlockRange(latest, start, head, distance, minRange) ==
    LET from == NextFrom(latest, start)
    IN  [from |-> from, to |-> Lesser(head - distance, from + minRange)]

(***************************************************************************)
(* splitBlockRanges.  A deployment is the sequence of the start blocks of  *)
(* a chain's contracts, which the caller sorts in ascending order; an      *)
(* interval names the contract its blocks are queried at by its position.  *)
(*                                                                         *)
(* The code walks the contracts except the last.  It first looks for the   *)
(* contract whose era holds `from`; every later one opens an interval of   *)
(* its own; and the last contract is added while the walk is at the one    *)
(* before it, so not when that one has just opened the first interval.     *)
(***************************************************************************)
Deployments == {s \in Seq(Nat) : Len(s) > 0 /\ \A i, j \in 1..Len(s) : i < j => s[i] < s[j]}

LastBlockOf(starts, i, to) ==
    IF i = Len(starts) THEN to ELSE Lesser(to, starts[i + 1] - 1)

\* The last contract deployed at or before block b: the one whose era holds b.
ContractAt(starts, b) ==
    CHOOSE i \in 1..Len(starts) :
        starts[i] <= b /\ \A j \in 1..Len(starts) : j > i => starts[j] > b

\* The code returns undefined, over which the caller cannot iterate, when this is false.
CanSplit(starts, from) == starts[1] <= from

\* The contracts after the first one queried that get an interval of their own.
LaterContracts(starts, first, to) ==
    {i \in 1..Len(starts) :
        /\ i > first
        /\ starts[i] <= to
        /\ i = Len(starts) => first < Len(starts) - 1}

SplitBlockRanges(starts, from, to) ==
    LET first == ContractAt(starts, from)
    IN  {[from |-> from, to |-> LastBlockOf(starts, first, to), contract |-> first]}
        \cup {[from |-> starts[i], to |-> LastBlockOf(starts, i, to), contract |-> i] :
                  i \in LaterContracts(starts, first, to)}

\* The blocks of a range that are queried at the contract that was live in them.
QueriedBlocks(starts, from, to) ==
    UNION {Blocks(i) \cap {b \in from..to : ContractAt(starts, b) = i.contract} :
              i \in SplitBlockRanges(starts, from, to)}

(***************************************************************************)
(* EventsQuerier.getSamplesBetween.  Samples of `size` blocks from `min`   *)
(* on; the loop runs once at least and stops when the next sample would    *)
(* start at `max` or beyond.                                               *)
(***************************************************************************)
GetSamplesBetween(min, max, size) ==
    {[from |-> s, to |-> Lesser(s + size - 1, max)] :
        s \in {n \in min..max : n = min \/ (n < max /\ (n - min) % size = 0)}}

\* What the samples leave out: the last block, when it would be a sample of its own.  Unset
\* stands for a size that is undefined or 0, with which a range is not cut at all: the code
\* tells neither from the other.
Unset == 0
LoneLastBlock(r, size) == size # Unset /\ r.from < r.to /\ (r.to - r.from) % size = 0

\* The blocks that a query of each of these intervals may leave out, whichever of these
\* sizes the querier has come to.
LoneBlocks(intervals, sizes) ==
    {i.to : i \in {x \in intervals : \E size \in sizes : LoneLastBlock(x, size)}}
=============================================================================
