-------------------------- MODULE DistributorClaims --------------------------
(***************************************************************************)
(* The claims of the merkle distributor of the op rebates, from the blocks *)
(* the contract emits them in to the rows of merkle_distributor_claim: the *)
(* loop that publishes ranges of blocks, each twice, and the job of        *)
(* MerkleDistributorBlocksEventsConsumerV2, one at a time, which handles   *)
(* the claims of a range one after another.                                *)
(*                                                                         *)
(* The job stops at a claim of a window that is not uploaded, and Bull     *)
(* delivers its range again, from the first claim on: what is behind such  *)
(* a claim waits for it.  Of its errors one is swallowed: a violated       *)
(* unique key, which is taken for a claim that is stored, but is that of   *)
(* the row of the claim's block when some other process has saved it       *)
(* first.                                                                  *)
(*                                                                         *)
(* Blocks are those that hold a claim.  A range is named by its last one;  *)
(* the order of the claims of one block is left open, each time.           *)
(***************************************************************************)
EXTENDS RewardsWindowJobs

CONSTANTS
    Account,        \* recipients of the deposits' rebates
    NoAccount,
    MaxBlock,       \* bound: blocks with claims
    Copies          \* messages published for each range

ASSUME ClaimsAssumption ==
    /\ NoAccount \notin Account
    /\ MaxBlock \in Nat
    /\ Copies \in Nat \ {0}

VARIABLES
    uploaded,       \* windows whose recipients an operator has uploaded
    claimBlock,     \* [ClaimEvent -> the block it is in, 0 when it is not emitted]
    lastBlock,      \* the last block with a claim
    claimRange,     \* [ClaimEvent -> the range it is in, 0 when there is none yet]
    copies,         \* [Block -> messages published for the range]
    waiting,        \* [Block -> messages of the range that wait]
    claimer,        \* the job
    missed,         \* [ClaimEvent -> jobs of its range that completed without it]
    blockRows,      \* blocks with a row in the database
    claims,         \* merkle_distributor_claim
    markQueue,      \* claims waiting in the MerkleDistributorClaim queue
    unannounced     \* stored claims whose message was lost

claimVars == <<uploaded, claimBlock, lastBlock, claimRange, copies, waiting, claimer, missed,
               blockRows, claims, markQueue, unannounced>>

WindowIndex == {Window[r] : r \in Request}
Block == 1..MaxBlock

\* MerkleDistributorClaim: one account has one claim of a window.
ClaimEvent == [window : WindowIndex, account : Account]
NoEvent == [window |-> 0, account |-> NoAccount]

\* passed: the claims of the range that the job has passed over.
ClaimerState == [pc : {"idle", "loop", "seeking", "dated", "inserted"}, range : 0..MaxBlock,
                 event : ClaimEvent \cup {NoEvent}, todo : SUBSET ClaimEvent,
                 passed : SUBSET ClaimEvent]
IdleClaimer == [pc |-> "idle", range |-> 0, event |-> NoEvent, todo |-> {}, passed |-> {}]

ClaimsInit ==
    /\ uploaded = {}
    /\ claimBlock = [e \in ClaimEvent |-> 0]
    /\ lastBlock = 0
    /\ claimRange = [e \in ClaimEvent |-> 0]
    /\ copies = [b \in Block |-> 0]
    /\ waiting = [b \in Block |-> 0]
    /\ claimer = IdleClaimer
    /\ missed = [e \in ClaimEvent |-> 0]
    /\ blockRows = {}
    /\ claims = {}
    /\ markQueue = {}
    /\ unannounced = {}

OnChain == {e \in ClaimEvent : claimBlock[e] # 0}
Unscanned == {e \in OnChain : claimRange[e] = 0}

----------------------------------------------------------------------------
\* The contract lets an account claim a window once: in a block after the last one, or in
\* that one as long as no range has it.
Emit(e) ==
    /\ claimBlock[e] = 0
    /\ \E b \in {lastBlock, lastBlock + 1} \cap Block :
          /\ b = lastBlock => \E x \in Unscanned : claimBlock[x] = b
          /\ claimBlock' = [claimBlock EXCEPT ![e] = b]
          /\ lastBlock' = b
    /\ UNCHANGED <<deaths, uploaded, claimRange, copies, waiting, claimer, missed, blockRows,
                   claims, markQueue, unannounced>>

\* publishMerkleDistributorBlocksV2 saves the last block of a range and publishes it twice;
\* n is less when the process dies in between.
PublishRange(n) ==
    /\ Unscanned # {}
    /\ n = Copies \/ deaths < MaxDeaths
    /\ deaths' = IF n = Copies THEN deaths ELSE deaths + 1
    /\ claimRange' = [e \in ClaimEvent |-> IF e \in Unscanned THEN lastBlock ELSE claimRange[e]]
    /\ copies' = [copies EXCEPT ![lastBlock] = n]
    /\ waiting' = [waiting EXCEPT ![lastBlock] = n]
    /\ UNCHANGED <<uploaded, claimBlock, lastBlock, claimer, missed, blockRows, claims,
                   markQueue, unannounced>>

\* Other consumers save the rows of blocks too.
CacheBlock(b) ==
    /\ b <= lastBlock
    /\ b \notin blockRows
    /\ blockRows' = blockRows \cup {b}
    /\ UNCHANGED <<deaths, uploaded, claimBlock, lastBlock, claimRange, copies, waiting,
                   claimer, missed, claims, markQueue, unannounced>>

\* An operator uploads the recipients of a window.
Upload(x) ==
    /\ x \notin uploaded
    /\ uploaded' = uploaded \cup {x}
    /\ UNCHANGED <<deaths, claimBlock, lastBlock, claimRange, copies, waiting, claimer, missed,
                   blockRows, claims, markQueue, unannounced>>

----------------------------------------------------------------------------
\* getClaimedEvents: the samples of the querier may leave the last block of the range out.
TakeRange(b) ==
    /\ claimer.pc = "idle"
    /\ waiting[b] > 0
    /\ waiting' = [waiting EXCEPT ![b] = @ - 1]
    /\ LET inRange == {e \in ClaimEvent : claimRange[e] = b}
       IN  \E left \in {{}, {e \in inRange : claimBlock[e] = b}} :
              claimer' = [IdleClaimer EXCEPT !.pc = "loop", !.range = b,
                                             !.todo = inRange \ left, !.passed = left]
    /\ UNCHANGED <<deaths, uploaded, claimBlock, lastBlock, claimRange, copies, missed,
                   blockRows, claims, markQueue, unannounced>>

\* getCachedBlock of the next claim: the row of its block, or the block from the node.
NextClaim(e) ==
    /\ claimer.pc = "loop"
    /\ e \in claimer.todo
    /\ \A x \in claimer.todo : claimBlock[e] <= claimBlock[x]
    /\ claimer' = [claimer EXCEPT !.event = e,
                                  !.pc = IF claimBlock[e] \in blockRows THEN "dated" ELSE "seeking"]
    /\ UNCHANGED <<deaths, uploaded, claimBlock, lastBlock, claimRange, copies, waiting, missed,
                   blockRows, claims, markQueue, unannounced>>

\* The claimer once it is over with its claim.
Onward == [claimer EXCEPT !.pc = "loop", !.event = NoEvent, !.todo = @ \ {claimer.event}]

\* getCachedBlock saves the row.  When there is one by now the save is refused, and the job
\* goes on to the next claim.
SaveBlock ==
    /\ claimer.pc = "seeking"
    /\ blockRows' = blockRows \cup {claimBlock[claimer.event]}
    /\ claimer' = IF claimBlock[claimer.event] \in blockRows
                  THEN [Onward EXCEPT !.passed = @ \cup {claimer.event}]
                  ELSE [claimer EXCEPT !.pc = "dated"]
    /\ UNCHANGED <<deaths, uploaded, claimBlock, lastBlock, claimRange, copies, waiting, missed,
                   claims, markQueue, unannounced>>

Requeue ==
    /\ waiting' = [waiting EXCEPT ![claimer.range] = @ + 1]
    /\ claimer' = IdleClaimer

\* Mutated form of Throw: the claim of a window nobody has uploaded is dropped.
ThrowDropping ==
    /\ claimer.pc = "dated"
    /\ claimer.event.window \notin uploaded
    /\ claimer' = Onward
    /\ UNCHANGED <<deaths, uploaded, claimBlock, lastBlock, claimRange, copies, waiting, missed,
                   blockRows, claims, markQueue, unannounced>>

\* fromClaimedEventToMerkleDistributorClaim finds no window, and throws.
Throw ==
    /\ claimer.pc = "dated"
    /\ claimer.event.window \notin uploaded
    /\ Requeue
    /\ UNCHANGED <<deaths, uploaded, claimBlock, lastBlock, claimRange, copies, missed,
                   blockRows, claims, markQueue, unannounced>>

\* A claim that is stored already is not announced again.
InsertClaim ==
    /\ claimer.pc = "dated"
    /\ claimer.event.window \in uploaded
    /\ claims' = claims \cup {claimer.event}
    /\ claimer' = IF claimer.event \in claims THEN Onward
                  ELSE [claimer EXCEPT !.pc = "inserted"]
    /\ UNCHANGED <<deaths, uploaded, claimBlock, lastBlock, claimRange, copies, waiting, missed,
                   blockRows, markQueue, unannounced>>

\* The message is not awaited: it may be lost without a word.
PublishClaim ==
    /\ claimer.pc = "inserted"
    /\ claimer' = Onward
    /\ \/ markQueue' = markQueue \cup {claimer.event} /\ UNCHANGED <<unannounced, deaths>>
       \/ /\ deaths < MaxDeaths
          /\ deaths' = deaths + 1
          /\ unannounced' = unannounced \cup {claimer.event}
          /\ UNCHANGED markQueue
    /\ UNCHANGED <<uploaded, claimBlock, lastBlock, claimRange, copies, waiting, missed,
                   blockRows, claims>>

CompleteRange ==
    /\ claimer.pc = "loop" /\ claimer.todo = {}
    /\ missed' = [e \in ClaimEvent |-> IF e \in claimer.passed THEN missed[e] + 1 ELSE missed[e]]
    /\ claimer' = IdleClaimer
    /\ UNCHANGED <<deaths, uploaded, claimBlock, lastBlock, claimRange, copies, waiting,
                   blockRows, claims, markQueue, unannounced>>

\* The process dies: Bull delivers the range again.
CrashClaimer ==
    /\ claimer.pc # "idle"
    /\ deaths < MaxDeaths
    /\ deaths' = deaths + 1
    /\ Requeue
    /\ unannounced' = IF claimer.pc = "inserted" THEN unannounced \cup {claimer.event}
                      ELSE unannounced
    /\ UNCHANGED <<uploaded, claimBlock, lastBlock, claimRange, copies, missed, blockRows,
                   claims, markQueue>>

ClaimerStep ==
    \/ \E b \in Block : TakeRange(b)
    \/ \E e \in ClaimEvent : NextClaim(e)
    \/ SaveBlock
    \/ Throw
    \/ InsertClaim
    \/ PublishClaim
    \/ CompleteRange

----------------------------------------------------------------------------
ClaimsTypeOK ==
    /\ uploaded \subseteq WindowIndex
    /\ claimBlock \in [ClaimEvent -> 0..MaxBlock]
    /\ lastBlock \in 0..MaxBlock
    /\ claimRange \in [ClaimEvent -> 0..MaxBlock]
    /\ copies \in [Block -> 0..Copies]
    /\ waiting \in [Block -> Nat]
    /\ claimer \in ClaimerState
    /\ missed \in [ClaimEvent -> Nat]
    /\ blockRows \subseteq Block
    /\ claims \subseteq ClaimEvent
    /\ markQueue \subseteq ClaimEvent
    /\ unannounced \subseteq ClaimEvent

\* Every job of the range of a claim has passed it over, or none was published.
PassedOver(e) == claimRange[e] # 0 /\ missed[e] = copies[claimRange[e]]

\* A claim is behind one of a window that is not uploaded.
Behind(e) ==
    \E x \in ClaimEvent :
        /\ claimRange[x] = claimRange[e] /\ claimRange[e] # 0
        /\ claimBlock[x] <= claimBlock[e]
        /\ x.window \notin uploaded
=============================================================================
