--------------------------- MODULE BlockPublisher ---------------------------
(***************************************************************************)
(* ScraperService.publishBlocks and the two publishMerkleDistributorBlocks *)
(* loops.  Every loop repeats, for ever: ask a node for the chain's head,  *)
(* read the row that holds the last block handed out, save the end of the  *)
(* next range in that row, add the range to a queue, and (spoke pools and  *)
(* the V2 distributor) add it again with a delay of minutes, to be read a  *)
(* second time when the chain has settled.                                 *)
(*                                                                         *)
(* The row is saved BEFORE the range is published, so a failure between    *)
(* the two loses the range; `lost` remembers such ranges.                  *)
(*                                                                         *)
(* A loop owns its row.  The two distributor loops share a table keyed by  *)
(* chain: that assumption is the one under which they read two chains.     *)
(***************************************************************************)
EXTENDS BlockRanges, FiniteSets

CONSTANTS
    Loop,           \* the publishing loops
    Republishing,   \* the loops that publish every range a second time
    StartBlock,     \* [Loop -> Nat] configured start block, 0 when not set
    Distance,       \* [Loop -> Nat] getFollowingDistance
    MinBlockRange,  \* [Loop -> Nat] getMinBlockRange
    MaxHead,        \* bound: the chain stops growing here
    MaxFailures     \* bound: failures of a loop's iteration, restarts included

ASSUME PublisherAssumption ==
    /\ Republishing \subseteq Loop
    /\ StartBlock \in [Loop -> Nat]
    /\ Distance \in [Loop -> Nat]
    /\ MinBlockRange \in [Loop -> Nat]
    /\ MaxHead \in Nat
    /\ MaxFailures \in Nat

VARIABLES
    head,           \* [Loop -> Nat] head of the chain the loop follows
    latestBlock,    \* [Loop -> Nat] ProcessedBlock.latestBlock, NoRow without a row
    pc,             \* [Loop -> where the loop is waiting]
    range,          \* [Loop -> the range of the current iteration]
    published,      \* [Loop -> ranges added to the queue]
    republished,    \* [Loop -> ranges added again with a delay]
    lost,           \* [Loop -> ranges saved in the row and never published]
    failures        \* number of failures so far

publisherVars ==
    <<head, latestBlock, pc, range, published, republished, lost, failures>>

Step == {"wait", "save", "publish", "republish"}
BlockRange == [from : Nat, to : Int]
NoRange == [from |-> 1, to |-> 0]

PublisherInit ==
    /\ head = [l \in Loop |-> 0]
    /\ latestBlock = [l \in Loop |-> NoRow]
    /\ pc = [l \in Loop |-> "wait"]
    /\ range = [l \in Loop |-> NoRange]
    /\ published = [l \in Loop |-> {}]
    /\ republished = [l \in Loop |-> {}]
    /\ lost = [l \in Loop |-> {}]
    /\ failures = 0

----------------------------------------------------------------------------
\* The chain grows.
Mine(l) ==
    /\ head[l] < MaxHead
    /\ head' = [head EXCEPT ![l] = @ + 1]
    /\ UNCHANGED <<latestBlock, pc, range, published, republished, lost, failures>>

NextRange(l, seen) ==
    DetermineBlockRange(latestBlock[l], StartBlock[l], seen, Distance[l], MinBlockRange[l])

\* Mutated form of Determine: a range of one block is taken for an empty one.
DetermineTwoBlocks(l, seen) ==
    /\ pc[l] = "wait"
    /\ seen \in 0..head[l]
    /\ NextRange(l, seen).from < NextRange(l, seen).to
    /\ range' = [range EXCEPT ![l] = NextRange(l, seen)]
    /\ pc' = [pc EXCEPT ![l] = "save"]
    /\ UNCHANGED <<head, latestBlock, published, republished, lost, failures>>

\* getBlockNumber, answered by a node that may lag behind the chain, and findOne.
\* With nothing to publish the loop goes back to waiting.
Determine(l, seen) ==
    /\ pc[l] = "wait"
    /\ seen \in 0..head[l]
    /\ Blocks(NextRange(l, seen)) # {}
    /\ range' = [range EXCEPT ![l] = NextRange(l, seen)]
    /\ pc' = [pc EXCEPT ![l] = "save"]
    /\ UNCHANGED <<head, latestBlock, published, republished, lost, failures>>

\* Mutated form of Save: the row takes the head of the chain, not the end of the range.
SaveHead(l) ==
    /\ pc[l] = "save"
    /\ latestBlock' = [latestBlock EXCEPT ![l] = head[l]]
    /\ pc' = [pc EXCEPT ![l] = "publish"]
    /\ UNCHANGED <<head, range, published, republished, lost, failures>>

\* blockRepository.save
Save(l) ==
    /\ pc[l] = "save"
    /\ latestBlock' = [latestBlock EXCEPT ![l] = range[l].to]
    /\ pc' = [pc EXCEPT ![l] = "publish"]
    /\ UNCHANGED <<head, range, published, republished, lost, failures>>

\* The first publishMessage.
Publish(l) ==
    /\ pc[l] = "publish"
    /\ published' = [published EXCEPT ![l] = @ \cup {range[l]}]
    /\ pc' = [pc EXCEPT ![l] = IF l \in Republishing THEN "republish" ELSE "wait"]
    /\ UNCHANGED <<head, latestBlock, range, republished, lost, failures>>

\* The second publishMessage, with a delay.
Republish(l) ==
    /\ pc[l] = "republish"
    /\ republished' = [republished EXCEPT ![l] = @ \cup {range[l]}]
    /\ pc' = [pc EXCEPT ![l] = "wait"]
    /\ UNCHANGED <<head, latestBlock, range, published, lost, failures>>

(***************************************************************************)
(* The iteration ends early: an await rejects and the loop's catch logs    *)
(* it, or the process is restarted.  The range is not remembered anywhere  *)
(* but in the loop, so the next iteration goes on after the saved block.   *)
(***************************************************************************)
Fail(l) ==
    /\ pc[l] # "wait"
    /\ failures < MaxFailures
    /\ failures' = failures + 1
    /\ pc' = [pc EXCEPT ![l] = "wait"]
    /\ lost' = [lost EXCEPT ![l] = IF pc[l] = "publish" THEN @ \cup {range[l]} ELSE @]
    /\ UNCHANGED <<head, latestBlock, range, published, republished>>

Iterate(l) ==
    \/ \E seen \in 0..MaxHead : Determine(l, seen)
    \/ Save(l)
    \/ Publish(l)
    \/ Republish(l)

PublisherNext == \E l \in Loop : Mine(l) \/ Iterate(l) \/ Fail(l)

\* The loop is `while (true)` around a try/catch, so it takes its next step in the end,
\* and a node that lags catches up; a failure is never owed to anyone.
FairIterate(l) == Determine(l, head[l]) \/ Save(l) \/ Publish(l) \/ Republish(l)

PublisherFairness == \A l \in Loop : WF_publisherVars(FairIterate(l))

PublisherSpec == PublisherInit /\ [][PublisherNext]_publisherVars
FairPublisherSpec == PublisherSpec /\ PublisherFairness

----------------------------------------------------------------------------
PublisherTypeOK ==
    /\ head \in [Loop -> 0..MaxHead]
    /\ latestBlock \in [Loop -> Nat]
    /\ pc \in [Loop -> Step]
    /\ range \in [Loop -> BlockRange]
    /\ published \in [Loop -> SUBSET BlockRange]
    /\ republished \in [Loop -> SUBSET BlockRange]
    /\ lost \in [Loop -> SUBSET BlockRange]
    /\ failures \in 0..MaxFailures

\* The range that is saved in the row and not yet in the queue.
InFlight(l) == IF pc[l] = "publish" THEN {range[l]} ELSE {}

HandedOut(l) == published[l] \cup lost[l] \cup InFlight(l)

(***************************************************************************)
(* Every block from the start block to the saved one was handed out, and   *)
(* in one range only: batches neither overlap nor leave a hole, whatever   *)
(* the heads the nodes report, the cap on a batch and the failures.        *)
(***************************************************************************)
EachBlockOnce ==
    \A l \in Loop :
        /\ \A b \in FirstBlock(StartBlock[l])..latestBlock[l] :
              \E r \in HandedOut(l) : b \in Blocks(r)
        /\ \A r, s \in HandedOut(l) : Blocks(r) \cap Blocks(s) # {} => r = s

(***************************************************************************)
(* What a loop loses, it loses to failures, and no more than one failure   *)
(* can cost: a batch of blocks behind the saved one that the queue never   *)
(* saw, when the failure comes between the save and the publish, and the   *)
(* second read of a batch, when it comes between the two publishes.        *)
(***************************************************************************)
MissingBlocks(l) ==
    {b \in FirstBlock(StartBlock[l])..latestBlock[l] :
        \A r \in published[l] \cup InFlight(l) : b \notin Blocks(r)}
ReadOnce(l) ==
    {r \in published[l] \ republished[l] : pc[l] = "republish" => r # range[l]}
LossNeedsFailure ==
    /\ \A l \in Loop : Cardinality(MissingBlocks(l)) <= failures * (MinBlockRange[l] + 1)
    /\ \A l \in Republishing : Cardinality(ReadOnce(l)) <= failures

(***************************************************************************)
(* No range reaches the queue before its last block is Distance[l] blocks  *)
(* deep: the scraper never reads a block the chain may still reorganise.   *)
(***************************************************************************)
FollowsAtDistance ==
    \A l \in Loop : \A r \in published[l] \cup lost[l] : r.to + Distance[l] <= head[l]

(***************************************************************************)
(* The loop catches up with the chain: in the end every block that is deep *)
(* enough when the chain stops has been handed out, in as many batches as  *)
(* the cap on a batch requires.                                            *)
(***************************************************************************)
CatchesUp ==
    \A l \in Loop :
        <>[](\/ latestBlock[l] = head[l] - Distance[l]
             \/ head[l] - Distance[l] < FirstBlock(StartBlock[l]))
=============================================================================
