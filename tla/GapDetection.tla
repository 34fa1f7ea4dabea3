---------------------------- MODULE GapDetection ----------------------------
(***************************************************************************)
(* DepositsGapDetectionCron and DepositGapService, for one chain.  Deposit *)
(* ids are consecutive, but for the jump from the last V2 id to the first  *)
(* V2.5 one.  Every ten minutes the cron walks the ids from its checkpoint *)
(* to the last deposit stored, one query per id, collects the gaps, moves  *)
(* the checkpoint, and publishes for each gap the blocks between the       *)
(* deposits known on both sides, to be read again.                         *)
(*                                                                         *)
(* Deposits arrive while it walks, in any order, and some never arrive by  *)
(* themselves: their range was lost, or their row was never inserted.      *)
(*                                                                         *)
(* The in-memory lock lets one run at a time through; a tick that finds it *)
(* taken does nothing.  The chains of one run are walked one after another *)
(* and share no state.                                                     *)
(***************************************************************************)
EXTENDS BlockRanges, FiniteSets

CONSTANTS
    FirstId,        \* least firstDepositId of the chain's contracts
    MaxIdV2,        \* MaxDepositIdV2; a chain without one has FirstIdV25 - 1
    FirstIdV25,     \* ACROSS_V2_5_FIRST_DEPOSIT_ID
    LastId,         \* bound: the last deposit of the chain
    DepositBlock,   \* [Id -> Nat] the block a deposit is in
    Starts,         \* start blocks of the chain's contracts
    GapsLimit,      \* DEPOSITS_GAP_DETECTION_LIMIT
    MaxGapSize,     \* MAX_GAP_SIZE
    QuerySizes,     \* the sizes of a query the nodes may bring the queriers to
    MaxFailures     \* bound: runs that fail half way, queries and tokens refused

Id == FirstId..MaxIdV2 \cup FirstIdV25..LastId

ASSUME GapAssumption ==
    /\ FirstId \in Nat /\ MaxIdV2 \in Nat /\ FirstIdV25 \in Nat /\ LastId \in Nat
    /\ FirstId <= MaxIdV2 /\ MaxIdV2 < FirstIdV25 /\ FirstIdV25 <= LastId
    /\ DepositBlock \in [Id -> Nat]
    /\ Starts \in Deployments
    /\ \A d, e \in Id : d < e => DepositBlock[d] <= DepositBlock[e]
    /\ \A d \in Id : CanSplit(Starts, DepositBlock[d])
    /\ GapsLimit \in Nat \ {0}
    /\ MaxGapSize \in Nat \ {0, 1}
    /\ QuerySizes \subseteq Nat \ {0}
    /\ MaxFailures \in Nat

VARIABLES
    rows,           \* deposits with a row in the database
    checkpoint,     \* DepositGapCheck.depositId, NoCheckpoint without a row
    cron,           \* the run of the cron
    owed,           \* deposits without a row that the queries of published ranges found
    querySize,      \* [contract -> the size of a query its querier has come to, or Unset]
    failures

vars == <<rows, checkpoint, cron, owed, querySize, failures>>

\* gapCheckPassDepositId is tested for truth: the code tells undefined and 0 apart nowhere.
NoPass == 0
NoCheckpoint == 0

Gap == [from : Id, to : Id]
Cron == [pc : {"idle", "start", "visit", "mark", "attach", "publish"},
         id : Nat, last : Nat, pass : Nat, gaps : Seq(Gap),
         ranges : SUBSET [from : Nat, to : Nat]]

Idle == [pc |-> "idle", id |-> 0, last |-> 0, pass |-> NoPass, gaps |-> <<>>, ranges |-> {}]

Init ==
    /\ rows = {}
    /\ checkpoint = NoCheckpoint
    /\ cron = Idle
    /\ owed = {}
    /\ querySize \in [1..Len(Starts) -> QuerySizes \cup {Unset}]
    /\ failures = 0

----------------------------------------------------------------------------
\* BlocksEventsConsumer inserts a deposit, out of order as its jobs run in parallel.
Store(d) ==
    /\ rows' = rows \cup {d}
    /\ owed' = owed \ {d}
    /\ UNCHANGED <<checkpoint, cron, querySize, failures>>

Scrape(d) == d \notin rows /\ Store(d)

\* As Scrape, for a deposit in a range the cron published.
Reread(d) == d \in owed /\ Store(d)

\* The id after i: the walk jumps over the ids that no deposit has.
NextId(i) == IF i = MaxIdV2 THEN FirstIdV25 ELSE i + 1

IsLast(d) == d \in rows /\ \A e \in rows : e <= d

\* The cron takes the lock, and finds the last deposit.
Tick ==
    /\ cron.pc = "idle"
    /\ \E d \in rows : IsLast(d) /\ cron' = [Idle EXCEPT !.pc = "start", !.last = d]
    /\ UNCHANGED <<rows, checkpoint, owed, querySize, failures>>

\* Where a walk goes on: at the next id, or, when it is over, at the checkpoint.
At(id, last) == IF id <= last THEN "visit" ELSE "mark"

\* Mutated form of GetDepositToStartGapCheck: the id after the checkpoint is skipped.
GetDepositToStartAfterNext ==
    IF checkpoint = NoCheckpoint THEN FirstId ELSE NextId(NextId(checkpoint))

GetDepositToStartGapCheck ==
    IF checkpoint = NoCheckpoint THEN FirstId ELSE NextId(checkpoint)

Start ==
    /\ cron.pc = "start"
    /\ LET id == GetDepositToStartGapCheck
       IN  cron' = [cron EXCEPT !.pc = At(id, cron.last), !.id = id]
    /\ UNCHANGED <<rows, checkpoint, owed, querySize, failures>>

\* Mutated form of VisitFound: the checkpoint follows every deposit found.
VisitFoundAnywhere ==
    /\ cron.pc = "visit" /\ cron.id \in rows
    /\ LET next == NextId(cron.id)
       IN  cron' = [cron EXCEPT
               !.id = next,
               !.pass = cron.id,
               !.pc = IF Len(cron.gaps) = GapsLimit THEN "mark" ELSE At(next, cron.last)]
    /\ UNCHANGED <<rows, checkpoint, owed, querySize, failures>>

\* The walk finds the deposit.
VisitFound ==
    /\ cron.pc = "visit" /\ cron.id \in rows
    /\ LET next == NextId(cron.id)
       IN  cron' = [cron EXCEPT
               !.id = next,
               !.pass = IF cron.gaps = <<>> THEN cron.id ELSE @,
               !.pc = IF Len(cron.gaps) = GapsLimit THEN "mark" ELSE At(next, cron.last)]
    /\ UNCHANGED <<rows, checkpoint, owed, querySize, failures>>

Size(gap) == gap.to - gap.from + 1

\* Mutated form of WithMissing: a gap is extended whatever lies between.
WithMissingJoined(gaps, id) ==
    LET n == Len(gaps)
    IN  IF n > 0 /\ Size(gaps[n]) < MaxGapSize
        THEN [gaps EXCEPT ![n].to = id]
        ELSE Append(gaps, [from |-> id, to |-> id])

\* The gaps with one more id: the last one is extended, or a new one begun.
WithMissing(gaps, id) ==
    LET n == Len(gaps)
    IN  IF n > 0 /\ gaps[n].to = id - 1 /\ Size(gaps[n]) < MaxGapSize
        THEN [gaps EXCEPT ![n].to = id]
        ELSE Append(gaps, [from |-> id, to |-> id])

\* The walk stops in a gap once it has as many as it may and the last can grow no more.
Full(gaps) == Len(gaps) = GapsLimit /\ Size(gaps[Len(gaps)]) = MaxGapSize

\* The walk does not find it.
VisitMissing ==
    /\ cron.pc = "visit" /\ cron.id \notin rows
    /\ LET next == NextId(cron.id)
           gaps == WithMissing(cron.gaps, cron.id)
       IN  cron' = [cron EXCEPT
               !.id = next,
               !.gaps = gaps,
               !.pc = IF Full(gaps) THEN "mark" ELSE At(next, cron.last)]
    /\ UNCHANGED <<rows, checkpoint, owed, querySize, failures>>

\* markDepositGapCheckAsPassed.
Mark ==
    /\ cron.pc = "mark"
    /\ checkpoint' = IF cron.pass = NoPass THEN checkpoint ELSE cron.pass
    /\ cron' = [cron EXCEPT !.pc = "attach"]
    /\ UNCHANGED <<rows, owed, querySize, failures>>

\* The deposits known before and after a gap.
Previous(gap) == {d \in rows : d < gap.from /\ \A e \in rows : e < gap.from => e <= d}
Following(gap) == {d \in rows : d > gap.to /\ \A e \in rows : e > gap.to => d <= e}

\* The blocks to read again: none when the gap has a side without a deposit.
RangesOver(gap) ==
    {[from |-> DepositBlock[p], to |-> DepositBlock[n]] : p \in Previous(gap), n \in Following(gap)}

\* Mutated form of Attach: each gap takes the place of the one before.
AttachLastOnly ==
    /\ cron.pc = "attach"
    /\ cron' = IF cron.gaps = <<>> THEN [cron EXCEPT !.pc = "publish"]
               ELSE [cron EXCEPT !.gaps = Tail(@), !.ranges = RangesOver(Head(cron.gaps))]
    /\ UNCHANGED <<rows, checkpoint, owed, querySize, failures>>

\* attachBlocksToDepositGaps, one gap at a time.
Attach ==
    /\ cron.pc = "attach"
    /\ cron' = IF cron.gaps = <<>> THEN [cron EXCEPT !.pc = "publish"]
               ELSE [cron EXCEPT !.gaps = Tail(@), !.ranges = @ \cup RangesOver(Head(cron.gaps))]
    /\ UNCHANGED <<rows, checkpoint, owed, querySize, failures>>

\* Each interval is queried at its contract, with the samples of that contract's querier,
\* which leave a lone last block out.
LeftOut(r) ==
    UNION {LoneBlocks({i}, {querySize[i.contract]}) : i \in SplitBlockRanges(Starts, r.from, r.to)}

BlocksRead(r) == QueriedBlocks(Starts, r.from, r.to) \ LeftOut(r)

ReadAgain(r) == {d \in Id \ rows : DepositBlock[d] \in BlocksRead(r)}

\* publishMessage(BlocksEvents, ...) after the message to Slack, for each gap, with the query
\* of the job: the cron changes nothing that it reads.
Publish ==
    /\ cron.pc = "publish"
    /\ \E r \in cron.ranges :
          /\ owed' = owed \cup ReadAgain(r)
          /\ cron' = [cron EXCEPT !.ranges = @ \ {r}]
    /\ UNCHANGED <<rows, checkpoint, querySize, failures>>

\* The lock is released.
Finish ==
    /\ cron.pc = "publish" /\ cron.ranges = {}
    /\ cron' = Idle
    /\ UNCHANGED <<rows, checkpoint, owed, querySize, failures>>

\* An await rejects, the one to Slack before the messages included, or the process dies.
Fail ==
    /\ cron.pc # "idle"
    /\ failures < MaxFailures
    /\ failures' = failures + 1
    /\ cron' = Idle
    /\ UNCHANGED <<rows, checkpoint, owed, querySize>>

\* A node refuses a query, and the size of the querier is halved, down to 0 and up again
\* from the default; or the process of the querier starts anew.
Resize(contract) ==
    /\ failures < MaxFailures
    /\ failures' = failures + 1
    /\ \E size \in QuerySizes \cup {Unset} : querySize' = [querySize EXCEPT ![contract] = size]
    /\ UNCHANGED <<rows, checkpoint, cron, owed>>

\* The save of the token a deposit refers to is refused, because some other process saved it
\* first: the job gives the deposit up and completes.
RefuseToken(d) ==
    /\ d \in owed
    /\ failures < MaxFailures
    /\ failures' = failures + 1
    /\ owed' = owed \ {d}
    /\ UNCHANGED <<rows, checkpoint, cron, querySize>>

Run ==
    \/ Tick \/ Start \/ VisitFound \/ VisitMissing \/ Mark
    \/ Attach \/ Publish \/ Finish

Next ==
    \/ \E d \in Id : Scrape(d) \/ Reread(d) \/ RefuseToken(d)
    \/ \E contract \in 1..Len(Starts) : Resize(contract)
    \/ Run
    \/ Fail

\* The cron ticks for ever, and the jobs it publishes are run; a deposit that was missed
\* is not owed to anyone before that.
Fairness == WF_vars(Run) /\ \A d \in Id : WF_vars(Reread(d))

Spec == Init /\ [][Next]_vars
FairSpec == Spec /\ Fairness

----------------------------------------------------------------------------
TypeOK ==
    /\ rows \subseteq Id
    /\ checkpoint \in Nat
    /\ cron \in Cron
    /\ owed \subseteq Id
    /\ querySize \in [1..Len(Starts) -> QuerySizes \cup {Unset}]
    /\ failures \in 0..MaxFailures

(***************************************************************************)
(* DepositGapCheck holds "the deposit ids for which the preceding deposits *)
(* don't have gaps": the checkpoint never passes a missing deposit, which  *)
(* no later walk would look for, though deposits arrive while it walks and *)
(* runs end half way.                                                      *)
(***************************************************************************)
PrecedingStored(id) == \A d \in Id : d <= id => d \in rows
CheckpointPassed == checkpoint # NoCheckpoint => PrecedingStored(checkpoint)

(***************************************************************************)
(* When the walk is over, each id it passed that still has no deposit is   *)
(* in a gap, gaps hold ids of deposits only and never those between V2 and *)
(* V2.5, and there are no more of them than the limit, unless it was       *)
(* reached at the last V2 id: the walk then jumps past its own stop.       *)
(***************************************************************************)
GapsReported ==
    cron.pc \in {"visit", "mark"} =>
        /\ \A d \in Id \ rows : d < cron.id =>
              \E k \in 1..Len(cron.gaps) : d \in Blocks(cron.gaps[k])
        /\ \A k \in 1..Len(cron.gaps) :
              Blocks(cron.gaps[k]) \subseteq Id /\ Size(cron.gaps[k]) <= MaxGapSize
        /\ \/ Len(cron.gaps) <= GapsLimit
           \/ cron.gaps[GapsLimit].to = MaxIdV2

(***************************************************************************)
(* A gap is stuck when no range over it reads its blocks: there is no      *)
(* deposit before it, the split loses the block, or the samples of the     *)
(* querier leave it out: the last block before the next contract, or the   *)
(* block that the missing deposit shares with the next one known.          *)
(***************************************************************************)
Missing == {d \in Id \ rows : \E e \in rows : d < e}
Stuck ==
    {d \in Missing : \A r \in RangesOver([from |-> d, to |-> d]) :
        DepositBlock[d] \notin BlocksRead(r)}

(***************************************************************************)
(* What the scraper missed it reads again: in the end no deposit is        *)
(* missing before the last one but those that are stuck, unless so many    *)
(* are that they fill the limit and every walk ends at them.               *)
(***************************************************************************)
GapsHealed == <>[](Cardinality(Stuck) < GapsLimit => Missing = Stuck)
=============================================================================
