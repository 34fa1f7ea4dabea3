----------------------------- MODULE Ingestion -----------------------------
(***************************************************************************)
(* The way in: the publishing loops composed with BlocksEventsConsumer.    *)
(* A published range is a job of the BlocksEvents queue.  Up to 20 jobs    *)
(* run at a time, more than any instance here has, so every job has a      *)
(* worker.  A job splits its range over the chain's contracts, queries     *)
(* every interval, inserts a row per deposit event and publishes one       *)
(* message per fresh row, one per fill event and one per speed-up.  The    *)
(* row of a V3 deposit holds the swap that came before it, which the job   *)
(* looks for in the receipt of the transaction, and the token of the swap, *)
(* which it reads from the chain when the database has no row of it.       *)
(*                                                                         *)
(* A query may leave out the last block of an interval (EventsQuerier),    *)
(* and the save of a token's row may be refused, because another consumer  *)
(* has saved it: the error is taken for that of a deposit that is there.   *)
(*                                                                         *)
(* Jobs are delivered at least once: a job that throws, or whose process   *)
(* dies, is queued again and starts over.  The delay of the second copy    *)
(* of a range is left open: it may run at any time after it was added.     *)
(***************************************************************************)
EXTENDS BlockPublisher

CONSTANTS
    Deployment,     \* [Loop -> start blocks of the chain's contracts]
    Deposit,        \* deposit events
    Swap, NoSwap,   \* SwapBeforeBridge events
    Token, TokenOf, \* tokens by chain, and [Swap -> Token] the swapToken of the event
    Receipts,       \* of transactions: their V3 deposits and swaps, by logIndex
    Fill,           \* fill events (V2, V2.5 and V3 alike)
    SpeedUp,        \* speed-up events (alike)
    EventLoop,      \* [Deposit, Fill and SpeedUp -> Loop] the chain that emitted the event
    EventBlock,     \* [the same -> Nat] and the block it is in
    Kind, KindOf,   \* [the same -> Kind] the event types that are queried one by one
    QuerySize       \* [Loop -> the sizes, by halving, of the samples of its queries]

Event == Deposit \cup Fill \cup SpeedUp

NoDeposit == "none"

ASSUME IngestionAssumption ==
    /\ Deployment \in [Loop -> Deployments]
    /\ \A l \in Loop : StartBlock[l] = Deployment[l][1]
    /\ EventLoop \in [Event -> Loop]
    /\ EventBlock \in [Event -> Nat]
    /\ Fill \cap SpeedUp = {}
    /\ NoSwap \notin Swap
    /\ NoDeposit \notin Deposit
    /\ TokenOf \in [Swap -> Token]
    /\ KindOf \in [Event -> Kind]
    /\ QuerySize \in [Loop -> SUBSET Nat]
    /\ Receipts \subseteq Seq(Deposit \cup Swap)
    \* An event is in one receipt, and the deposits of a transaction are in one block.
    /\ \A r1, r2 \in Receipts : \A p \in DOMAIN r1, q \in DOMAIN r2 :
        r1[p] = r2[q] => r1 = r2 /\ p = q
    /\ \A r \in Receipts : \A p, q \in DOMAIN r : {r[p], r[q]} \subseteq Deposit =>
        /\ EventBlock[r[p]] = EventBlock[r[q]]
        /\ EventLoop[r[p]] = EventLoop[r[q]]
        /\ KindOf[r[p]] = KindOf[r[q]]

VARIABLES
    jobs,           \* the BlocksEvents jobs, finished ones included
    rows,           \* deposits with a row in the database
    tokens,         \* tokens with a row in the database
    swapped,        \* [Deposit -> the swap in the columns of its row]
    announced,      \* [Deposit -> BlockNumber messages published for its row]
    delivered       \* [Fill and SpeedUp -> messages published for the event]

queueVars == <<jobs, rows, tokens, swapped, announced, delivered>>
vars == <<publisherVars, queueVars>>

\* owed: the deposit whose row was just inserted and whose message is still to be published.
\* seeking: the deposit whose token had no row, and is being read from the chain.
\* left: the events that the queries have left out; refused: the deposits that the job has
\* given up because the save of their token was refused.
Job == [loop : Loop, range : BlockRange, copy : {"now", "delayed"},
        at : {"queued", "running", "done"},
        deposits : SUBSET Deposit, fills : SUBSET Fill, speedUps : SUBSET SpeedUp,
        owed : Deposit \cup {NoDeposit}, seeking : Deposit \cup {NoDeposit},
        left : SUBSET Event, refused : SUBSET Deposit]

NewJob(l, r, copy) ==
    [loop |-> l, range |-> r, copy |-> copy, at |-> "queued",
     deposits |-> {}, fills |-> {}, speedUps |-> {}, owed |-> NoDeposit,
     seeking |-> NoDeposit, left |-> {}, refused |-> {}]

Init ==
    /\ PublisherInit
    /\ jobs = {}
    /\ rows = {}
    /\ tokens = {}
    /\ swapped = [d \in Deposit |-> NoSwap]
    /\ announced = [d \in Deposit |-> 0]
    /\ delivered = [f \in Fill \cup SpeedUp |-> 0]

----------------------------------------------------------------------------
\* publishMessage(BlocksEvents, ...) by the loop.
AddJob(l) ==
    /\ Publish(l)
    /\ jobs' = jobs \cup {NewJob(l, range[l], "now")}
    /\ UNCHANGED <<rows, tokens, swapped, announced, delivered>>

AddDelayedJob(l) ==
    /\ Republish(l)
    /\ jobs' = jobs \cup {NewJob(l, range[l], "delayed")}
    /\ UNCHANGED <<rows, tokens, swapped, announced, delivered>>

LoopStep(l) ==
    \/ AddJob(l)
    \/ AddDelayedJob(l)
    \/ /\ Mine(l) \/ (\E seen \in 0..MaxHead : Determine(l, seen)) \/ Save(l) \/ Fail(l)
       /\ UNCHANGED queueVars

Update(j, new) == jobs' = (jobs \ {j}) \cup {new}

ReadBlocks ==
    [l \in Loop |-> [r \in [from : 1..MaxHead, to : 1..MaxHead] |->
        QueriedBlocks(Deployment[l], r.from, r.to)]]

EventsIn(S, l, blocks) == {e \in S : EventLoop[e] = l /\ EventBlock[e] \in blocks}

\* The blocks that the queries of a range may leave out.
MayLeaveOut ==
    [l \in Loop |-> [r \in [from : 1..MaxHead, to : 1..MaxHead] |->
        LoneBlocks(SplitBlockRanges(Deployment[l], r.from, r.to), QuerySize[l])]]

\* splitBlockRanges and getEvents.  The blocks are deep enough to be final, so a query
\* finds every event that is in the blocks it reads.  The events of a contract are queried
\* kind by kind, with the samples of its querier: which sizes those have come to by now,
\* and so which of the kinds leave a block out, is left open.
Query(j) ==
    /\ j.at = "queued"
    /\ CanSplit(Deployment[j.loop], j.range.from)
    /\ \E leftOut \in [Kind -> SUBSET MayLeaveOut[j.loop][j.range]] :
        LET inRange == EventsIn(Event, j.loop, ReadBlocks[j.loop][j.range])
            found == {e \in inRange : EventBlock[e] \notin leftOut[KindOf[e]]}
        IN  Update(j, [j EXCEPT !.at = "running",
                                !.deposits = found \cap Deposit,
                                !.fills = found \cap Fill,
                                !.speedUps = found \cap SpeedUp,
                                !.left = inRange \ found])
    /\ UNCHANGED <<publisherVars, rows, tokens, swapped, announced, delivered>>

\* The logs of the transaction of a deposit; those of V2 deposits are not looked at.
ReceiptOf(d) ==
    IF \E r \in Receipts : \E p \in DOMAIN r : r[p] = d
    THEN CHOOSE r \in Receipts : \E p \in DOMAIN r : r[p] = d
    ELSE <<d>>

PlaceOf(d) == CHOOSE p \in DOMAIN ReceiptOf(d) : ReceiptOf(d)[p] = d

\* Mutated form of Pairs: a deposit that has its row already takes no swap.
PairsOfFresh(receipt) ==
    LET pair[p \in DOMAIN receipt] ==
            LET free == {q \in 1..(p - 1) :
                    /\ receipt[q] \in Swap
                    /\ \A e \in 1..(p - 1) :
                        receipt[e] \in Deposit \ rows => pair[e] # receipt[q]}
            IN  IF free = {} THEN NoSwap
                ELSE receipt[CHOOSE q \in free : \A o \in free : q <= o]
    IN  pair

\* The pairs of processDepositV3Events: each deposit of the receipt, whether it has its row
\* already or not, takes the first swap before it that none took before.
Pairs(receipt) ==
    LET pair[p \in DOMAIN receipt] ==
            LET free == {q \in 1..(p - 1) :
                    /\ receipt[q] \in Swap
                    /\ \A e \in 1..(p - 1) :
                        receipt[e] \in Deposit => pair[e] # receipt[q]}
            IN  IF free = {} THEN NoSwap
                ELSE receipt[CHOOSE q \in free : \A o \in free : q <= o]
    IN  pair

SwapFor == [d \in Deposit |-> Pairs(ReceiptOf(d))[PlaceOf(d)]]

\* The V3 deposits of a transaction are handled by logIndex.
First(j, d) == \A q \in 1..(PlaceOf(d) - 1) : ReceiptOf(d)[q] \notin j.deposits

\* The next deposit of a job that is at none: no message is owed, no token sought.
Turn(j, d) ==
    /\ j.at = "running" /\ j.owed = NoDeposit /\ j.seeking = NoDeposit
    /\ d \in j.deposits
    /\ First(j, d)

\* The token that the row of a deposit refers to must have a row itself.
HasToken(d) == SwapFor[d] # NoSwap => TokenOf[SwapFor[d]] \in tokens

\* getCachedToken finds no row, and reads the token from the chain.
SeekToken(j, d) ==
    /\ Turn(j, d)
    /\ ~HasToken(d)
    /\ Update(j, [j EXCEPT !.seeking = d])
    /\ UNCHANGED <<publisherVars, rows, tokens, swapped, announced, delivered>>

\* It saves the token.  When it has a row by now the save violates UK_token_address_chainId,
\* which the consumer takes for a deposit that is there: it goes on to the next one.
SaveToken(j) ==
    /\ j.at = "running" /\ j.owed = NoDeposit /\ j.seeking # NoDeposit
    /\ tokens' = tokens \cup {TokenOf[SwapFor[j.seeking]]}
    /\ Update(j, IF HasToken(j.seeking)
                  THEN [j EXCEPT !.seeking = NoDeposit, !.deposits = @ \ {j.seeking},
                                 !.refused = @ \cup {j.seeking}]
                  ELSE [j EXCEPT !.seeking = NoDeposit])
    /\ UNCHANGED <<publisherVars, rows, swapped, announced, delivered>>

\* Mutated form of Insert: the second read of a range is taken to find no fresh row.
InsertSilentCopy(j, d) ==
    /\ Turn(j, d)
    /\ HasToken(d)
    /\ rows' = rows \cup {d}
    /\ swapped' = IF d \in rows THEN swapped ELSE [swapped EXCEPT ![d] = SwapFor[d]]
    /\ Update(j, [j EXCEPT !.deposits = @ \ {d},
                           !.owed = IF d \in rows \/ j.copy = "delayed" THEN NoDeposit ELSE d])
    /\ UNCHANGED <<publisherVars, tokens, announced, delivered>>

\* depositRepository.insert: a second row for the same deposit violates
\* UK_deposit_depositId_sourceChainId, and the consumer goes on to the next event.
Insert(j, d) ==
    /\ Turn(j, d)
    /\ HasToken(d)
    /\ rows' = rows \cup {d}
    /\ swapped' = IF d \in rows THEN swapped ELSE [swapped EXCEPT ![d] = SwapFor[d]]
    /\ Update(j, [j EXCEPT !.deposits = @ \ {d},
                           !.owed = IF d \in rows THEN NoDeposit ELSE d])
    /\ UNCHANGED <<publisherVars, tokens, announced, delivered>>

\* publishMessage(BlockNumber, ...) for the row just inserted.
Announce(j) ==
    /\ j.at = "running" /\ j.owed # NoDeposit
    /\ announced' = [announced EXCEPT ![j.owed] = @ + 1]
    /\ Update(j, [j EXCEPT !.owed = NoDeposit])
    /\ UNCHANGED <<publisherVars, rows, tokens, swapped, delivered>>

\* publishMessage(FillEvents..., ...), once every deposit is handled.
PublishFill(j, f) ==
    /\ j.at = "running" /\ j.owed = NoDeposit /\ j.deposits = {}
    /\ f \in j.fills
    /\ delivered' = [delivered EXCEPT ![f] = @ + 1]
    /\ Update(j, [j EXCEPT !.fills = @ \ {f}])
    /\ UNCHANGED <<publisherVars, rows, tokens, swapped, announced>>

\* publishMessage(SpeedUpEvents..., ...), after the fills.
PublishSpeedUp(j, s) ==
    /\ j.at = "running" /\ j.owed = NoDeposit /\ j.deposits = {} /\ j.fills = {}
    /\ s \in j.speedUps
    /\ delivered' = [delivered EXCEPT ![s] = @ + 1]
    /\ Update(j, [j EXCEPT !.speedUps = @ \ {s}])
    /\ UNCHANGED <<publisherVars, rows, tokens, swapped, announced>>

Complete(j) ==
    /\ j.at = "running" /\ j.owed = NoDeposit
    /\ j.deposits = {} /\ j.fills = {} /\ j.speedUps = {}
    /\ Update(j, [j EXCEPT !.at = "done"])
    /\ UNCHANGED <<publisherVars, rows, tokens, swapped, announced, delivered>>

\* Mutated form of Retry: the job has a single attempt.
GiveUp(j) ==
    /\ j.at = "running"
    /\ failures < MaxFailures
    /\ failures' = failures + 1
    /\ Update(j, [j EXCEPT !.at = "done", !.owed = NoDeposit])
    /\ UNCHANGED <<head, latestBlock, pc, range, published, republished, lost>>
    /\ UNCHANGED <<rows, tokens, swapped, announced, delivered>>

\* The job throws or its process dies: it is queued again, its progress forgotten.
Retry(j) ==
    /\ j.at = "running"
    /\ failures < MaxFailures
    /\ failures' = failures + 1
    /\ Update(j, NewJob(j.loop, j.range, j.copy))
    /\ UNCHANGED <<head, latestBlock, pc, range, published, republished, lost>>
    /\ UNCHANGED <<rows, tokens, swapped, announced, delivered>>

\* getCachedToken elsewhere: in TokenDetailsConsumer, or for the tokens of a rebate.
SaveTokenElsewhere(t) ==
    /\ t \notin tokens
    /\ tokens' = tokens \cup {t}
    /\ UNCHANGED <<publisherVars, jobs, rows, swapped, announced, delivered>>

Work(j) ==
    \/ Query(j)
    \/ \E d \in Deposit : SeekToken(j, d) \/ Insert(j, d)
    \/ SaveToken(j)
    \/ Announce(j)
    \/ \E f \in Fill : PublishFill(j, f)
    \/ \E s \in SpeedUp : PublishSpeedUp(j, s)
    \/ Complete(j)

Next ==
    \/ \E l \in Loop : LoopStep(l)
    \/ \E j \in jobs : Work(j) \/ Retry(j)
    \/ \E t \in Token : SaveTokenElsewhere(t)

\* As in BlockPublisher, and Bull keeps handing queued jobs to the workers.
FairLoopStep(l) ==
    \/ AddJob(l)
    \/ AddDelayedJob(l)
    \/ (Determine(l, head[l]) \/ Save(l)) /\ UNCHANGED queueVars

Fairness ==
    /\ \A l \in Loop : WF_vars(FairLoopStep(l))
    /\ WF_vars(\E j \in jobs : Work(j))

Spec == Init /\ [][Next]_vars
FairSpec == Spec /\ Fairness

----------------------------------------------------------------------------
TypeOK ==
    /\ PublisherTypeOK
    /\ jobs \subseteq Job
    /\ rows \subseteq Deposit
    /\ tokens \subseteq Token
    /\ swapped \in [Deposit -> Swap \cup {NoSwap}]
    /\ announced \in [Deposit -> Nat]
    /\ delivered \in [Fill \cup SpeedUp -> Nat]

(***************************************************************************)
(* However often a range is read, and by however many jobs at a time, one  *)
(* BlockNumber message at most is published for a deposit: the pipeline    *)
(* that dates, prices and attributes it is started once.  It is started at *)
(* all unless a job failed between insert and publish, whose retry takes   *)
(* the row for a duplicate and stays silent: a failure silences one row.   *)
(***************************************************************************)
Silent(d) == announced[d] = 0 /\ \A j \in jobs : j.owed # d
AnnouncedOnce ==
    /\ \A d \in Deposit : announced[d] <= 1
    /\ Cardinality({d \in rows : Silent(d)}) <= failures

(***************************************************************************)
(* The blocks the split loses: those of the last contract, when the range  *)
(* starts in the era of the contract before it.                            *)
(***************************************************************************)
SkippedBlocks(l, r) ==
    LET starts == Deployment[l]  n == Len(starts)
    IN  IF n > 1 /\ ContractAt(starts, r.from) = n - 1
        THEN {b \in Blocks(r) : b >= starts[n]} ELSE {}

Covers(j, e) ==
    EventLoop[e] = j.loop /\ EventBlock[e] \in Blocks(j.range) \ SkippedBlocks(j.loop, j.range)

(***************************************************************************)
(* What splitBlockRanges is documented to do, "determine which contracts   *)
(* need to be queried" for a range: each block of a finished range was     *)
(* queried at the contract that was live in it.                            *)
(***************************************************************************)
EveryBlockQueried ==
    \A j \in jobs : j.at = "done" => ReadBlocks[j.loop][j.range] = Blocks(j.range)

\* SwapAndBridge emits a swap right before it deposits what it has swapped.
OwnSwap ==
    [d \in Deposit |->
        LET p == PlaceOf(d) - 1
        IN  IF p > 0 /\ ReceiptOf(d)[p] \in Swap THEN ReceiptOf(d)[p] ELSE NoSwap]

(***************************************************************************)
(* A deposit in a published range gets its row in the end, whatever fails  *)
(* on the way; and the row has the swap that was made for this deposit,    *)
(* though its transaction has several of each and the job may come back to *)
(* it when some of them are stored.  Three things keep a deposit from it:  *)
(* the split loses its block; or each job that covers it has, in its last  *)
(* attempt, either left its block out, as a last block of an interval that *)
(* would be a sample of its own, or had the save of its token refused.     *)
(***************************************************************************)
DepositStored ==
    <>[](\A d \in Deposit :
            (\E j \in jobs : Covers(j, d) /\ d \notin j.left \cup j.refused) =>
                d \in rows /\ swapped[d] = OwnSwap[d])

(***************************************************************************)
(* In the end a fill, and a speed-up, was delivered once for each copy of  *)
(* its range, but for those that left out its block: the second delivery   *)
(* is what later consumers rely on to recover a fill that was dropped or   *)
(* overwritten after the first.                                            *)
(***************************************************************************)
EventsDelivered ==
    <>[](\A e \in Fill \cup SpeedUp :
            delivered[e] >= Cardinality({j \in jobs : Covers(j, e) /\ e \notin j.left}))
=============================================================================
