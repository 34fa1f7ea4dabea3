# TLA+ specifications of the Across scraper

The scraper follows the Across contracts on several chains, turns their events
into rows of a Postgres database, and serves what it computes from them
(deposit status, referral and rebate rewards, airdrops). It is a NestJS
application: publishing loops feed Bull queues in Redis, queue consumers read a
row, wait for nodes or HTTP services, and write columns of the row back.

Little in it is transactional. Ranges of blocks are read twice on purpose,
jobs are delivered at least once, and most consumers follow the pattern *read
row, await, write columns computed from the row read*. What the specifications
are about is whether the results are right under all the orders this allows.

Paths below are relative to the repository's `src/modules/` unless they start
otherwise.

## 1. Inventory

### 1.1 Publishing loops — `scraper/service.ts`

* **State.** One `ProcessedBlock` (or `MerkleDistributorProcessedBlock`) row per
  chain with the last block handed out; in memory, the range of the iteration.
* **Operations.** Per chain, for ever: ask for the head, `determineBlockRange`
  (follow at a distance, cap the batch), save the row, add the range to the
  `BlocksEvents` queue, add it again with a delay of ten minutes. The V2
  distributor loop does the same with a delay of three minutes, the V1 loop
  publishes once.
* **Hard.** The row is saved before the range is published, and each await can
  fail; nodes lag; heads, distance, cap and an unset start block meet in one
  expression.
* **Correct when** batches are disjoint and leave no hole, none is read before
  it is deep enough, a block is missed only because of a failure, and the loop
  catches up.

### 1.2 Reading events — `scraper/utils/blocks.ts`, `BlocksEventsConsumer.ts`, `web3/services/EventsQuerier.ts`

* **State.** The job in its queue; the `deposit` rows; the sample size of each
  cached querier, shared by all jobs that read that contract.
* **Operations.** `splitBlockRanges` assigns the blocks of a range to the
  contracts that were live in them; the querier cuts each interval into samples
  and halves the size when a node refuses one; the consumer pairs each V3
  deposit with the swap that came before it in its transaction, inserts a row
  per deposit, treats a unique-constraint violation as "already there", and
  publishes messages for fresh rows, fills and speed-ups.
* **Hard.** 20 jobs in parallel, two copies of each range, a retry that starts
  over, a size that changes under a call, a last block left out when it would be
  a sample of its own, several deposits and swaps in one transaction, and a
  violated constraint that is not the deposit's but that of its swap's token.
* **Correct when** every block is queried at the contract live in it, each
  deposit is stored with its own swap, and announced once, each fill and
  speed-up is delivered for every copy, a call returns what it was asked for and
  refusals do not add up.

### 1.3 Fills and speed-ups — `scraper/adapter/messaging/`

* **State.** Columns `fillTxs`, `filled`, `status`, the fee, `filledDate`,
  `speedUps`, `outputAmount`, `recipientAddr`, `message` of a deposit row.
* **Operations.** `FillEventsConsumer` and `FillEventsConsumer2` (V2, V2.5)
  append to `fillTxs` and recompute the totals; `FillEventsV3Consumer` fills a
  V3 deposit; `SpeedUpEventsConsumer` and `SpeedUpEventsV3Consumer` insert into
  the sorted `speedUps` and overwrite columns; `DepositFilledDateConsumer`
  fetches the fills' blocks and rewrites `fillTxs` with dates;
  `TrackFillEventConsumer` needs the fill it was told of to be in `fillTxs` and
  retries until it is. The repository's `README.md` marks `FillEventsQueue2`
  "not implemented"; the consumer exists.
* **Hard.** Lost updates on a JSON array, duplicates, reordering, a fill before
  its deposit (the V2 consumers throw and wait, the V3 one returns and the
  delivery is used up), a crash between a write and the message that follows.
* **Correct when** no fill is counted twice, `filled` and `status` never go
  back, the fee covers the fills recorded, the columns are those of the latest
  speed-up, a fill told to be tracked is there, and everything settles.

### 1.4 Enrichment — `scraper/adapter/messaging/`, `web3/services/`, `market-price/`

* **State.** The columns of a deposit row that other jobs wait for: date, token,
  price, ACX price, suggested fees, filled date, fee breakdown, bridge fee; the
  tables of blocks, tokens, transactions, receipts and prices.
* **Operations.** `BlockNumber` leads to `TokenDetails`, `TokenPrice`,
  `DepositAcxPrice`, `SuggestedFees` and `DepositReferral`; a fill leads to
  `DepositFilledDate`, `TrackFillEvent`, `FeeBreakdown`, `CappedBridgeFee` and
  `OpRebateReward`. A stage waits for the columns of the ones before by throwing,
  and writes its own. What is fetched is kept by *find, fetch, save*, guarded by
  unique constraints that the loser of a race runs into. Endpoints start jobs
  again for the deposits whose columns are incomplete.
* **Hard.** Some messages are published without being awaited; a deposit waits
  for a token another one brings, or for a price nobody has; every job may die
  between its write and the messages that follow.
* **Correct when** no empty column is without a message that leads to it, every
  stage ends, and callers of a cache are all served.

### 1.5 Referrals — `DepositReferralConsumer`, `referral/`

* **State.** `referralAddress` and `stickyReferralAddress` of a deposit row; the
  count of the nightly statistics; the materialized view `deposits_mv`; claims.
* **Operations.** The referral address is taken from the data of the
  transaction, or is *sticky*: that of the depositor's last referral. A cron may
  recompute the sticky addresses of all; another counts, per referrer and claim,
  the referrals that rewards depend on, and refreshes the view.
  `RectifyStickyReferral`, which would repair later deposits, is disabled.
* **Hard.** Deposits are processed ten at a time and in any order; a claim
  resets the count; the view is as old as its last refresh.
* **Correct when** the sticky address is that of the latest earlier referral, a
  claim settles what was earned before it, and the view follows the rows.

### 1.6 Gap detection — `scraper/service/DepositGapService.ts`, `DepositsGapDetectionCron.ts`

* **State.** The checkpoint row of the chain; in memory, the lock, the walk and
  the gaps it has found.
* **Operations.** Deposit ids are consecutive per chain, but for a jump from the
  last V2 id to 1 000 000. Every ten minutes the cron walks them from the
  checkpoint, one query each, with a limit on gaps and on their size; moves the
  checkpoint; posts the gaps to Slack; and publishes for each the range of blocks
  between the deposits known on both sides, so that they are read again.
* **Hard.** Deposits arrive during the walk; the limits meet the jump; a gap with
  nothing before it is never read again.
* **Correct when** the checkpoint never passes a missing id, every id the walk
  missed is reported, and what can be read again is stored in the end.

### 1.7 Rewards — `rewards/`, `scraper/adapter/messaging/MerkleDistributorBlocksEventsConsumer*.ts`, `OpRebateRewardConsumer`

* **State.** The window jobs and their results; `reward` rows with window and
  claimed flag; `rewardsWindowIndex` of deposits; claims.
* **Operations.** An operator's request creates a job unless another is open and
  computes the window in the background: rebates without a window, or the rows of
  the view without one, up to a date. A rebate is read, awaited over and saved
  whole, again after each fee breakdown. Claims are read from the chain, stored,
  and (V2) mark the rewards claimed.
* **Hard.** Requests race; a save meets a window set in between; the view is
  stale; a claim comes before the upload of its window and stops the job of its
  range, with the claims behind it; its message is not awaited, nor is that of a
  breakdown.
* **Correct when** a reward is paid in one window, results and rows agree, a
  reward follows the last breakdown, and every claim is marked.

### 1.8 Airdrop and users — `airdrop/`, `user/`

* **State.** The tables of wallet and community rewards with their `processed`
  flag; windows of the Merkle distributors with recipients and proofs; two caches
  of proofs; users and their wallets.
* **Operations.** An upload marks all rows unprocessed, saves those of the file
  one by one, and deletes the rest; a window is uploaded in one transaction;
  proofs are answered through a cache of minutes; a login finds or inserts a
  user; a wallet is linked by an upsert.
* **Hard.** Uploads fail half way or overlap; cache keys leave out part of the
  question; sessions race for a user or a wallet.
* **Correct when** an undisturbed upload is exact, an answer is right and no
  older than the cache allows, and a wallet stays with its user.

### 1.9 Lists and monitoring — `deposit/service.ts`, `monitoring/`

Lists of deposits are read page by page, by place, each page a query of its own,
while deposits come into the list and leave it. One cron counts the jobs of the
queues and inserts a row for each; another reads the rows of the latest date and
posts when a queue is crowded. Correct when a reader of all pages misses nothing
that stayed, and a report passes over no queue that was crowded.

### 1.10 The rest

Bull itself (`messaging/`) is external: at-least-once delivery, attempts without
limit, capped exponential backoff, one worker per queue and process unless the
processor says otherwise (`BlocksEvents` 20, `BlockNumber` 50, `TokenDetails`
10, `DepositReferral` 10). Configuration, migrations, entity classes, HTTP
controllers, contract ABIs and analytics clients are wiring.

`PROJECT.json` lists every component with its status, and the hazards, each at
the line where it bites.

## 2. Modules

| Module | Models | Uses |
| --- | --- | --- |
| `BlockRanges` | `determineBlockRange`, `splitBlockRanges`, `getSamplesBetween`, as operators | |
| `BlockPublisher` | the publishing loops | `BlockRanges` |
| `Ingestion` | loops composed with `BlocksEventsConsumer` | `BlockPublisher` |
| `EventsQuerier` | one querier, its concurrent calls | `BlockRanges` |
| `DepositLedger` | *abstract*: what the fill consumers promise | |
| `FillEvents` | the fills of one V2 deposit and its dating | refines `DepositLedger` |
| `DepositsV3` | fill, speed-ups and dating of one V3 deposit | refines `DepositLedger` |
| `SpeedUps` | the speed-ups of one V2 or V2.5 deposit | |
| `GapDetection` | the gap walk, its checkpoint and the cron | `BlockRanges` |
| `DepositRows` | the deposits that the next two fill columns of | |
| `Enrichment` | the jobs of a deposit's columns, and the operators' repairs | `DepositRows` |
| `StickyReferrals` | referral and sticky addresses | `DepositRows` |
| `RewardsWindowJobs` | window jobs, for one type of rewards | |
| `DistributorClaims` | the claims of rebates, from their blocks to their rows | `RewardsWindowJobs` |
| `OpRewards` | rebates, their windows, and the claims composed with them | `DistributorClaims` |
| `ReferralRewards` | nightly counts, the view, windows and claims of referrals | `RewardsWindowJobs` |
| `RewardFiles` | uploads of wallet and community rewards | |
| `MerkleProofs` | uploaded windows, the proof endpoints and their caches | |
| `Users` | logins and linked wallets | |
| `CachedRows` | rows that are fetched once and kept | |
| `Reindexing` | `reindexReferralAddress` | |
| `DepositPages` | the lists of deposits, page by page | |
| `QueueReports` | the two monitoring crons | |
| `MCSideBySide` | the parts that share no rows, a behaviour of one of them at a time | ten of the above |
| `MC*` | instances for TLC | |
| `*Proofs` | theorems and proofs; `IngestionProofs` also those of `BlockPublisher`, `SideBySideProofs` those of nine of the ten parts | the modules they are about |

Definitions described as *mutated forms* sit before the definition they mutate:
each is a plausible bug of that code, and the property named beside it in
`PROJECT.json` was seen to fail when the mutated form takes the definition's
place. No specification uses them.

### How code becomes actions

JavaScript runs a handler without interruption between two awaits, so an action
is what a handler does from one await to the next, and the locals that survive
an await are part of its state. Variables called *history* below record what
happened for a property to speak of; no guard reads them.

* **`BlockPublisher`.** One iteration is `Determine` (head and row read),
  `Save`, `Publish`, `Republish`; `pc[l]` is where loop `l` waits. The head a
  node reports is any block up to the real head. `Fail` is a rejected await
  (the loop's `catch` logs it) or a restart: both leave the row and drop the
  range, so one action stands for both; `lost` remembers the range. The row
  value 0 means no row, and an unset start block is 0, as the code reads it.
* **`Ingestion`.** `AddJob` and `AddDelayedJob` are the two publishes with the
  job they create. `Query` is the split and the queries of a job, which see the
  same events whenever they run, because the blocks are deep enough to be final;
  but each kind of event is a query of its own, with the samples of its querier at
  that moment, and may leave out a lone last block of an interval (`MayLeaveOut`).
  A V3 deposit with a swap needs the row of the swap's token: `SeekToken` finds
  none and reads the chain, `SaveToken` saves it, and is refused when someone else
  (`SaveTokenElsewhere`) has saved it by then; the consumer takes the error for a
  deposit that is there and goes on (`refused`). The other cached row it reads, the
  receipt, is inserted with `orIgnore` and cannot be refused. `Insert`, `Announce`,
  `PublishFill`, `PublishSpeedUp`, `Complete` follow the consumer's loops, deposits
  before fills before speed-ups; within each, in any order, which includes the
  code's. `Pairs` is the pairing of the swaps in a
  receipt with the V3 deposits that follow them. `Retry` forgets the job's
  progress. The delayed copy may run at any time.
* **`EventsQuerier`.** `GetEvents` starts a call with the shared size,
  `AnswerFirst` is the answer to the first sample, on which the others wait,
  `AnswerRest` the `Promise.all` over them, `Throw` any other error. A refusal
  (`Refused`) lowers the size and starts the next attempt in one step: there is
  no await between the two in the code.
* **`FillEvents`.** `Take` is the message and `findOne`; without a row it is not
  enabled, which is what throwing and being delivered again amounts to. `Write`
  is the `update` with the columns computed from the row `Take` saw; `Publish`
  the message after it; `ReadDates` and `WriteDates` the same for the dating.
  `Crash` and `CrashDater` return the message to its queue. `fillTxs` is a bag
  of fills and the set of those with a date; the fee is the set of fills it was
  computed over; `erased` is a history variable.
* **`DepositsV3`.** As `FillEvents`, with the columns that several events write
  holding the event whose values they have. `early` counts the deliveries of
  the fill that found no deposit and were dropped.
* **`SpeedUps`.** `PublishSpeedUp` is the message of one reading of the event,
  `TakeSpedUp` the message and `findOne`, `WriteSpedUp` the `update`,
  `FailSpeedUp` a job that throws or dies and is delivered again. `ByBlock` is
  the stable sort with the latest block first, of a list that is sorted but for its
  last element. Columns hold the event whose values they
  have.
* **`GapDetection`.** `Tick` takes the lock and finds the last deposit, `Start`
  reads the checkpoint, `VisitFound` and `VisitMissing` are the two answers to
  the query of one id, `Mark`, `Attach` and `Publish` the steps of the cron after
  the walk, `Fail` any rejected await, the one to Slack included. `Scrape` is a
  deposit that arrives by itself, `Reread` one that a published range brings.
  The two are the insert of `Ingestion`; a published range reads the blocks that
  `SplitBlockRanges` assigns to the contract live in them (`BlocksRead`), but for
  those the samples of that contract's querier leave out, at the size it has:
  `Resize` is a node that refuses a query, or a process that starts with queriers
  anew. `RefuseToken` is the save of a swap's token that is refused, with its
  deposit passed over. A chain
  without V2 deposits of its own numbering is one whose first V2.5 id follows
  the last V2 id.
* **`Enrichment`.** No job empties a column, so what a job has read still holds
  when it writes, and a job is one step. `Needed(k)` are the columns whose
  absence makes job `k` throw, `Waits` adds what else does, such as the price of an unsupported symbol
  (`NoPrice`), `WrittenBy(k)` those it writes, `Awaited(k)` and
  `NotAwaited(k)` the messages it publishes. `Run` is a job that does its work,
  `Return` one that finds nothing to do, `MissOutput` the job that stores the
  tokens it finds and then throws for the output token. `DieInJob` is a process
  that dies after the write and the first awaited messages, with the job still
  queued; `DieAfterJob` one that dies when the job is acknowledged and a message
  that was not awaited is not yet out, which `lost` remembers. `Fill` is the
  fill of a V2.5 or V3 deposit with its two messages (V2's consumer publishes
  `DepositFilledDate` only), neither of them awaited. `RetryIncompleteDeposits`, `BackfillFeeBreakdown`,
  `BackfillFilledDate` and `FixBridgeFee` are the operators' endpoints.
* **`StickyReferrals`.** `TakeReferral` is the message and the row,
  `WriteReferral` the address taken from the transaction, `LookBack` the query
  for the last referral, `WriteSticky` its result, `CrashReferral` a job that
  throws or dies, `UpdateSticky` the cron. The history variable `missed` has the
  deposits an earlier referral came too late for.
* **`RewardsWindowJobs`.** A request's steps are the transaction that reads the
  jobs and inserts one more, the change to `InProgress`, and the background run,
  whose content is the including module's. The query calls `where` twice and the
  second call replaces the first, so a job of any window of the type blocks.
  `Die` leaves the job as it is: nothing resumes it.
* **`DistributorClaims`.** `Emit` puts a claim into a block, `PublishRange` is the
  loop, whose range goes to the queue twice unless its process dies. `TakeRange` is
  the delivery of a range with the query of its events, which may leave out those of
  the last block; then the claims come one after another, by their blocks:
  `NextClaim` looks for the row of the claim's block, `SaveBlock` saves it or is
  refused, because another consumer has (`CacheBlock`), and the job takes that for
  a claim that is stored; `Throw` is the window that nobody has uploaded, with
  which the whole range goes back to the queue; `InsertClaim` and `PublishClaim`
  the row and its message, which is not awaited. `missed` counts the jobs that
  completed without a claim; with `unannounced` it is history.
* **`OpRewards`.** `BreakFees` is the write of a breakdown, `SendRebate` the message
  after it, which is not awaited, and `LoseRebate` its loss with the process.
  `TakeRebate` computes the amount from the fee, `ReadReward` is
  the `findOne`, `LoadReward` the read that `save` does itself, `SaveReward` the
  update of the columns in which the two differ. `CheckOpWindow` is the check of
  the window's index, `AssignWindow` the rest of the transaction: its update waits
  for rows that another holds and looks at their window again. `StoreClaims` are the
  steps of `DistributorClaims`, `MarkClaimed` the job of a stored claim. `freed`,
  `resaved`, `raced` and `untold` are history variables.
* **`ReferralRewards`.** `StartCrons`, `ComputeStats`, `RefreshView` and
  `CronFails` are the night, under its semaphore; the count of a claimed deposit
  is not computed again. `ReadView` is the query of a window's rows,
  `CommitReferralWindow` the transaction that stores the results and gives the
  deposits their window, `Revert` the endpoint that takes a window back. Sticky
  addresses change as they like (`Refer`).
* **`RewardFiles`.** `Reset` marks all rows, `FindRow` and `SaveRow` are the two
  awaits per line of the file, `DeleteUnprocessed` the end; `FailUpload` the
  `catch`, which marks all rows processed; `DieInUpload` a process that dies,
  `EditRewards` the endpoint that edits a row.
* **`MerkleProofs`.** `Ask` looks in the cache, `Read` queries the database,
  `ReadDiscord` the user, `Keep` puts the answer in the cache and answers; `Tick`
  is time, by which entries grow too old.
* **`Users`.** `LogIn` is the search for the user, `CreateUser` the insert;
  `StartLink` the search for the wallet, `LinkWallet` the upsert.
* **`CachedRows`.** `Find`, `DeleteBare` (a receipt kept before logs were),
  `Fetch`, `Insert` and `FindAgain`; `FetchFails` is a node that refuses. A
  caller that throws is delivered again.
* **`Reindexing`, `DepositPages`.** `ReadPage` and `ReadPageAt` are one query of
  the list; deposits come, move and leave between two of them, and each query puts
  deposits of one date in the order it likes (`Page`, `Pages`). `Redirect` is a
  speed-up that writes another recipient, which takes a deposit out of the
  recipient's list or (`DateListed`) into it. `RefuseOffset` is the endpoint with a
  cap.
* **`QueueReports`.** `StartCount`, `AskQueue`, `InsertCount` are the count, one
  await each; `StartReport` finds the latest date, `Report` reads its rows.

`MCSideBySide` puts ten parts beside each other that keep different rows or
columns and call nothing of one another: all their interleavings add nothing to
what each does alone, so a behaviour is of one part (`group`), chosen at the
start. The messages that leave `Enrichment` for another module, `DepositReferral`
and `OpRebateReward`, are `handed` there, and are the inputs `DateDeposit` of
`StickyReferrals` and `BreakFees` of `OpRewards`, which come at any time. The parts that do meet are composed: the loops with the consumer, the
fills with the dating, the rebates with their windows and claims, the nights with
the windows of referrals.

## 3. Runs

| Run | Question | States |
| --- | --- | --- |
| `publisher` | Are blocks handed out once, deep enough, and in the end? | 137 000 |
| `ingestion` | Are deposits stored with their swaps, and announced once, and fills and speed-ups delivered? | 166 000 |
| `ingestion_split` | *(violated)* Is every block of a finished range queried? | |
| `querier` | Does a shared, shrinking sample size lose blocks or shrink too far? | 17 000 |
| `querier_samples` | *(violated)* Is the last block of a range read? | |
| `fills` | Do fills add up under duplicates, reordering, crashes and dating? | 13 000 |
| `deposits_v3` | Do fill, speed-ups and dating of a V3 deposit agree? | 3 300 |
| `gaps` | Is the checkpoint sound, and what was missed read again? | 234 000 |
| `op_rewards` | Do rebates, windows and claims agree when saves, requests and claims race? | 154 000 |
| `referral_rewards` | Is a referral paid in one window, at the rate earned before the claim? | 601 000 |
| `side_by_side` | The ten parts that share no rows: does each keep its promise? | 696 000 |
| `proof_cache` | *(violated)* Does who asks for Discord details get them? | |

The passing runs allow a state without successors, except `gaps`, whose cron
ticks for ever: the bounded inputs stop, the queues drain, and the system of the
run is then done.

### Properties

**`publisher`.** `EachBlockOnce`: ranges handed out are disjoint and cover every
block up to the saved one. `LossNeedsFailure`: the blocks missing from the queue
are at most one batch per failure, and the ranges without their second copy at
most one. `CatchesUp`: in the end everything deep enough is handed out.

**`ingestion`.** `AnnouncedOnce`: one `BlockNumber` message per deposit at most,
and no more rows that nobody announces than failures (the retry of a job that
failed between insert and message takes the row for a duplicate and stays
silent: the code has this gap, and the property bounds it). `DepositStored`: the
deposits of published ranges have their rows in the end, each with the swap made
for it. `EventsDelivered`: fills and speed-ups arrive once per copy. The code keeps
three things from coming, and the properties except exactly those: events in the
blocks the split loses; events that the samples of a job's query left out, as a
lone last block (for a deposit, when each copy left it out or gave it up); and a
deposit that each copy gave up for a swap token whose save was refused. Without the
first TLC refutes `EventsDelivered` (no deposit of the run lies in such a block),
without the second both, without the third `DepositStored`.

**`querier`.** `NoOvershrink`: the size is never lowered under half of what the
node answers, however many calls are refused together. `ResultComplete`: a call
returns its whole range, but for a last block that would be a sample of its own.
`CallEnds`.

**`fills`.** `NoDuplicateFill`, `FilledIsHighestTotal`, `FeeCountsRecorded`,
`TrackedStaysRecorded`; `LedgerSpec`, the refinement of `DepositLedger`;
`FillsSettle`: every fill is recorded, or was recorded and erased by a stale
write of the dating, and without a failure dates and fills agree.

**`deposits_v3`.** `LatestWins`: amount and recipient come from one event, never
from a replaced speed-up; `LedgerSpec`: the fill is recorded exactly when the
deposit is filled, and stays; `EventsSettle`: fill and speed-ups are recorded in
the end, and the fees asked for once.

**`gaps`.** `CheckpointPassed`: every id up to the checkpoint is stored.
`GapsReported`: what the walk passed and is not stored is in a gap; gaps are made
of real ids, no larger than the limit, and no more of them than the limit, unless
it was reached at the last V2 id. There the walk goes on to the end: the stop is
tested with `===` after the jump has begun a gap more, although a test
(`test/scraper/deposit-gap.e2e-spec.ts`, "should not exceed max gaps and max gap
limit") expects otherwise. `GapsHealed`: in the end nothing is missing before the
last deposit but what is *stuck*: ids with no deposit before them, those in
blocks `splitBlockRanges` loses, which the range between their neighbours loses
again, and those in a block that the samples leave out of that range: the last
block before a contract, or the block shared with the next deposit known. With as
many stuck ids as the limit allows gaps the walk may never get past them, and the
property promises nothing. TLC refutes the property without any of the exceptions.

**`op_rewards`.** `PaidOnce`: a rebate is in the results of two windows only if a
save took its reward out of the first. `BooksAgree`: as long as no save changes
a reward that is in a window, results, rows and claims agree. `ClaimsMarked`: a
claim of an uploaded window marks every reward it paid in the end, except those
that a save changed, and except a claim whose message was lost after it was stored;
one that every job of its range has passed over, because the samples left its block
out or another consumer saved the row of its block first, or whose range was lost
with the loop; and one that comes in its range behind a claim of a window that
nobody has uploaded. `RewardFollowsFee`: the reward is, in the end, that of the
last breakdown, unless the message of a breakdown was lost and no job came after
it, or two workers were at the last jobs of the deposit together, of which the older
may save last. The exceptions name what the code's unguarded save, its swallowed
error and its messages that nobody awaits can do; without them TLC finds the loss.

**`referral_rewards`.** `PaidOnce`: two windows pay for one deposit only if the
view each read was older than the other's commit, or a revert came between.
`ClaimSettles`: after a claim the count of an earlier deposit changes no more,
unless the deposit goes to another referrer. `ViewSettles`: the view comes to
hold every deposit with a referral, with its referrer, window and rate, except a
deposit claimed before its first count, which is never paid. The
run, and `ViewSettles` with it, assumes that no two referred deposits have one date
(`DatesDiffer`). In the database they may: the count then takes the deposits of one
date in the order the query happens to give, so which of them has the higher rate is
open. `PaidOnce` and `ClaimSettles` do not hang on it, and are proved without it.

**`side_by_side`.** `NeverStranded`: an empty column has a message that leads to
it, unless a message that is not awaited was lost. `AllEnriched`: the columns are
filled in the end, but for those, for a deposit whose output token no other
deposit brings, for the fees of one whose tokens do not pair, and, when a token's
symbol has no price (`Unpriced`: `coingecko/index.ts` maps some), for the price and
all that goes by it, ACX price, tracking and fees: that job fails for ever.
`StickyRight`: the sticky address is that of the latest earlier referral, unless that referral was written later and no night has come since.
`UploadExact`: an upload that nothing disturbs leaves its file in the table,
whatever was there before; one that fails alone deletes nobody. `AnswersRight`: a
proof is of the account and the window asked for, "none" is answered only if
there was none, and a list is behind by no more than the cache's duration and a
request; of which distributor they are is right unless requests for the two met in
the cache. `OneUserPerDiscord`: a second user needs two overlapping first
logins. `WalletStays`: no other session takes a linked wallet. `ReindexCovers`:
a reindexing has published every deposit that was in its range when it began and
shares its date with no other, also when it throws on an empty last page; of those
of one date, which no column orders, one may fall between two pages, and TLC shows
it. `PagesCover`: a reader of all pages
saw every deposit that stayed in the list and shares its date with no other,
unless one left the list or moved back in it. `LatestSpeedUp`: the columns are
those of the latest speed-up delivered, each recorded once. `CrowdReported`: a
silent report overlooked no crowded queue, but for one whose row had not been
inserted when it read. `MCCallersServed`: every caller of a cache is served,
and the row stays.

Type invariants, `FollowsAtDistance` (nothing is published before it is deep
enough) and `SizeOnlyShrinks` are proved and not run again.

### Disagreements the runs exhibit

* `ingestion_split`: `splitBlockRanges`, documented to "determine which contracts
  need to be queried", returns no interval for the last contract when the range
  starts in the era of the contract before it. `SkippedBlocks` states exactly
  which blocks are lost, and the properties of `ingestion` hold for the others.
* `querier_samples`: `getSamplesBetween` is documented with samples up to the
  last block, and omits it when it would be a sample of its own.
  `LoneLastBlock` states exactly when.
* `proof_cache`: the proof endpoint, tested to answer with "the merkle proof and
  discord details" (`test/airdrop/merkle-distributor.e2e-spec.ts`), looks in a
  cache whose key is the address and the window only. After a request without
  `includeDiscord`, one with it gets no details until the entry is too old.

### Two workers on one deposit

`FillEvents` is parameterised by the workers of the fill queue. Bull runs one
per process, but a deployment with two scraper processes, or a deposit that has
fills in both the V2 and the V2.5 queue, has two. Checked with two workers,
`NoDuplicateFill` still holds, and `FilledIsHighestTotal`, `FeeCountsRecorded`,
`TrackedStaysRecorded` and `LedgerSpec` fail: a worker that read the row before
another wrote it takes `filled`, `status` and `fillTxs` back. The repository
claims nothing of such a deployment, so this is a limit of the design recorded
here, and the theorems that need one worker assume it by name (`OneWorker`).

### Bounds

* `publisher`: `MaxHead` 6 with a cap of 2 blocks a batch from block 2 (spoke
  loop) and 3 blocks a batch from an unset start (distributor loop): several
  full batches, a short one, an empty one, and a head below start plus distance.
  `MaxFailures` 2: a failure in either loop, or two in a row in one.
* `ingestion`: two chains, of which one grows in a behaviour, as no loop or job of
  a chain reads what those of another write; two contracts each, at blocks 1 and 3,
  and batches of two blocks up to block 3, which lie in one era or cross into the
  next. Samples of one block or none are cut, so that a query may leave out block 2,
  the last of the first era, kind by kind. In that block are, on one chain, a
  transaction with two V3 deposits, the first of them made by a swap, so that a swap
  could go to the wrong one and its token's save be refused; and on the other a fill,
  with a speed-up in block 3. Two copies of each range in parallel; one failure, of
  the loop or of a job. Two failures add interleavings of the same gaps, whose counts
  the properties bound.
* `querier`: three calls, ranges of one, four and nine blocks; the size goes
  unset, 8, 4, 2, with refusals at the first sample and at a later one, and the
  node never refuses 3 blocks or fewer (`Limit`). Three calls are what one
  refusal, one that raced with it, and one that began later take.
* `fills`: three fills with totals 1, 2, 3 of an amount of 3, two of them in one
  block (a tie in the sort by date), one older than the deposit's own clock (the
  two clocks belong to different chains); two deliveries each; one crash.
* `deposits_v3`: two speed-ups in different blocks, one fill, two deliveries
  each, one crash of any of the three consumers.
* `gaps`: ids 0 to 2 and 5 to 8, one per block, two contracts of which the second
  starts with id 5; two gaps of two ids at most, so that both limits are reached,
  also at the jump; queries uncut or of samples of two blocks, with which a block
  before the second contract and one shared with the next deposit are left out; one
  failed run, refused query or refused token. Id 0 is the first id of the older chains, and
  0 is what the code takes for no checkpoint.
* `op_rewards`: two deposits of one account on different dates, two requests whose
  windows and last dates differ; one death, which is what it takes to leave a job
  stuck, a reward half saved, or a message, a claim or half a range unpublished. A
  behaviour is of one of three kinds. *Rebates*: two workers at one deposit, broken
  down twice with fees that differ, so that a save has something to change, against
  the windows. *Claims*: the rewards are settled first; two claims, of two windows, in
  one block or two, in one range or two of two copies each, against uploads in any
  order, rows of blocks saved by others, and a death. *Marks*: a reward is saved again
  while its claim is read, stored and marked.
* `referral_rewards`: two deposits of two depositors with one referrer and a
  threshold of 2, so that the second deposit raises the rate of the first; three
  changes of sticky addresses; one claim, between the dates or after both; two
  requests, one revert.
* `side_by_side`: *enrichment*, a V3 deposit without output token that waits for
  another's, one that an operator begins again, one whose tokens do not pair, one
  that is filled, one with an output token that has no price, and one death and one
  request; *referrals*, three deposits of
  one account, two with referrals of the two forms, two workers, two crashes;
  *files*, three files of two owners, of which one throws half way, two admins, two
  uploads and an edit; *proofs*, one holder, two windows of one distributor and
  one of the other, two clients, a duration and a delay of one unit each; *users*,
  two accounts, two wallets, two sessions and room for the third user that a race
  makes; *cache*, three callers (one that inserted, one that lost the race, one
  that came later) and one refusal; *reindexing*, four deposits of three dates, pages of two, so that the last page is full,
  short or empty; *pages*,
  four deposits, two of one date, pages of two, an offset cap of two pages;
  *speed-ups*, three, two of them in one block, two copies, two faults; *reports*,
  two queues, two counts, one report, one error.

The proofs of section 4 have none of these bounds, except that the numbers that
bound failures, requests and the like are arbitrary there.

### Fairness

Never of an action that models the outside world failing, and weak but for two cases.

* A loop takes its next step: it is a `while (true)` around a `try/catch`. A node
  may lag, but not for ever: fairness is asked of `Determine` with the real head.
* Bull hands a waiting job to a worker: attempts are `Number.MAX_SAFE_INTEGER`
  and the backoff is capped. In `Ingestion` it is asked of the jobs together, in
  `FillEvents` and `DepositsV3` of each worker, in `OpRewards` of each worker, of
  the claims' job, of each message that nobody awaits and of each stored claim, in `Enrichment` of the jobs of a behaviour
  together, and in `CachedRows` of each caller.
* A range of claims that fails goes back behind the others, so none is passed over
  for ever for one that fails again and again: strong fairness of `TakeRange`, of
  each range, in `OpRewards`.
* `InsertRow` and `DateDeposit`, steps of the other consumers, happen in the end.
* The node answers (`EventsQuerier`).
* The cron of the gaps ticks (`Run`) and the jobs it publishes insert what they
  read (`Reread`).
* The nightly cron of the referrals ticks, which is weak fairness of `CronStep`;
  and it does not fail every night, which is strong fairness of `ComputeStats` and
  of `RefreshView`: a failure disables them until the next night.
* `Mine`, `Scrape`, `Fail`, `Retry`, `Crash`, `Throw` of a querier, `GetEvents`, the requests
  of operators, users and clients, claims, refusals and deaths are never owed.

## 4. Proofs

Checked by TLAPS for every value of the constants that satisfies the named
assumption of the module.

**`IngestionProofs`**, of the loops (assumes `PublisherAssumption`): `TypeCorrect`,
`BlocksHandedOutOnce` (`EachBlockOnce`), `PublishedIsDeep`
(`FollowsAtDistance`). `EachBlockOnce` alone is not inductive: nothing in it
says that the range a loop holds follows the saved row. The invariant adds, per
loop, that the pending range begins at `NextFrom` of the row until it is saved
and ends at the row after (`PendingIsNext`); that ranges handed out end at or
before the row (`HandedOutInBounds`); that they leave no hole (`NoHole`) and do
not overlap (`NoOverlap`); and that a saved block is not before the start block
(`SavedAfterStart`). `Save` is where the pending range joins those handed out,
and all five are used there. `LossIsBounded` (`LossNeedsFailure`) adds that the
range of an iteration is no wider than a batch and the published ones are finitely
many (`LossInv`): a failure adds one range to what is missing, or one to what is
read only once, and every other step at most replaces what it had.

Of the loops with their jobs (assumes `IngestionAssumption` too):
`DepositsAnnouncedOnce` (`AnnouncedOnce`) and `WayInHandsOutBlocks`, that the loops
keep their promises when the failures of jobs count as well. `AnnouncedOnce` is not
inductive: two jobs could owe a message for one row. `QueueInv` says that a message
is owed by a running job, for a row that is there and has none (`OwedIsFresh`), that
no two jobs owe the same one (`OwedByOne`), and that the silent rows are finitely
many; only `Retry` makes a row silent, and it counts a failure. Neither the split
nor the pairing of swaps plays a part in this: the proof holds for any result of
theirs.

Of the split: `SplitIsExact`. The era of a block exists (`EraOfBlock`) and grows with
it (`EraGrows`); an interval lies in the era of its contract (`IntervalInEra`), which
makes the intervals disjoint; and a block is in the interval of its contract unless
the walk is at its end with the first interval (`BlockInInterval`, `UnreadIsUnread`).
So the finding about `splitBlockRanges` is all that is wrong with it.

Of what comes of the blocks: `QueriesReadRanges`, `DoneJobsDelivered`, `NoOtherLoss`,
`OnlyDeepIsKnown`, all from one invariant, `ReadInv`: a job reads a published range,
has from its query on stored or in hand each deposit that it covers, and what it has
is deep (`JobRight`); each published range has its job (`RangesQueued`); and the jobs
that are past the message of an event are no more than its messages (`AllHeard`),
since a retry goes back behind a message that stays published. What a query left out
is a lone last block of an interval that the split made, at one of the chain's sizes
(`LeftWith`); and what a job gave up is the one deposit of a swap whose token has a
row by now (`GivenUpFor`), which a further invariant, `TokenInv`, says: a token is in
the table for good, so a job is refused each token once at most. `NoOtherLoss` joins
this to `NoHole` of the loops: from the start block to the saved one, a deposit is
stored unless its range waits, a counted failure lost it, the split lost its block, or
every job that covers it passed it over for one of these two reasons. It is the safety
half of `DepositStored`, without the bounds and without fairness; its swaps are not in
it.

**`EventsQuerierProofs`** (assumes `QuerierAssumption`): `TypeCorrect`,
`RefusalsDoNotAddUp` (`NoOvershrink`), `SizeNeverGrows` (`SizeOnlyShrinks`),
`ReturnsWholeRange` (`ResultComplete`). The
key lemma `RefusedIsWide` says that a refused sample is wider than `Limit` and no
wider than the size its attempt began with. A call lowers the size only if it is
still that one; so the size that is halved is above `Limit`, and the result is
positive and at least half of it. For the result of a call, the samples begin at
multiples of the size, no multiple lies inside one, and each block but a last one on
a multiple is in the sample of the multiple before it (`SamplesCover`); a call that
returned has read the samples of its range at one size (`ReturnedComplete`).

**`FillEventsProofs`** (assumes `FillAssumption`): for any number of workers,
`TypeCorrect` and `FillsRecordedOnce` (`NoDuplicateFill`), from the invariant
that each copy of `fillTxs` in anyone's hands has a fill once, and a worker's
copy does not have its own fill (`CopiesOnce`). Under the further assumption
`OneWorker`: `HighestTotalKept`, `FeeCoversFills`, `TrackedFillsKept` and
`ImplementsLedger`, from `AInv`: what the worker read is not smaller than what is
in the row now, apart from what the dating erased, and what the dating read is
not larger (`JobsAgree`), and the row's columns agree with one another
(`RowAgrees`). This is where one worker matters: with a second one neither
comparison holds.

**`GapDetectionProofs`** (assumes `GapAssumption`): `TypeCorrect`,
`CheckpointNeverPassesGap` (`CheckpointPassed`), `WalkReportsGaps`
(`GapsReported`). The checkpoint is sound because a walk that has no gap yet has
found every deposit before its id, which is `GapsReported` with no gaps; the
invariant adds that the pending checkpoint is sound (`PassSound`), that gaps are
well formed (`WalkHasGoodGaps`), and that a walk which has reached the limit is
inside its last gap (`InLastGap`), so that only the jump can begin another.

**`DepositsV3Proofs`** (assumes `DepositAssumption`): `TypeCorrect`,
`LatestSpeedUpWins` (`LatestWins`), `SpeedUpsInOrder`, `ImplementsLedger`. Three
consumers read the row, await, and write columns computed from what they read;
none of the properties holds of a write without a fact about that copy. The
speed-ups' own columns are, when their consumer writes, what it read
(`SpeederAgrees`), as nobody else writes them and it has one worker; `fillTxs` has
two writers, the filler, which writes only while there is no fill, and the dater,
only once there is one, so they take turns (`FillsAgree`). That `speedUps` is sorted
and without repetition (`SpeedUpsSorted`) is part of the invariant: the sort puts a
new one at its place only in a list already sorted (`PlaceOfSpeedUp`, `SortedResult`).

**`SideBySideProofs`**: the parts that `MCSideBySide` runs beside each other, each
under its own specification and the assumption of its module. Two sections of
lemmas come first. A finite set has a greatest element (`GreatestExists`, by the
well-founded order of the subsets, in place of an induction). And for the lists that
are read page by page: in a finite set ranked by a key, whose ties a query orders as it
likes, a page has every element that ranks in its places, and is full while an
element behind it is left (`PageFull`).

* *Enrichment*: `TypeCorrect`, `ColumnsNeverStranded` (`NeverStranded`). The property
  is inductive together with `OutputKept`, which says that a V2.5 deposit, whose
  event has no output token, is not given one; the message that leads to a column is
  consumed only by a step that writes the column or publishes the next one of its
  chain.
* *Users*: `UsersUnique` (`OneUserPerDiscord`), `WalletsStay` (`WalletStays`). Two
  sessions may both be about to insert one user; `LoginsRaced` says that they are
  then known to have overlapped, which is the one exception the property makes.
* *Reports*: `CrowdedReported` (`CrowdReported`). The count so far has every queue it
  has asked that was crowded since it began (`CountFinds`), and so has each row it
  left (`RowsFind`), whatever other counts insert in between.
* *Referrals*: `StickyReferralsRight` (`StickyRight`). What a worker found when it
  looked back is still the latest, or a referral was written since and the deposit
  is marked late; a deposit that was missed has an earlier one with a referral
  (`MissedHasReferral`). That there is a latest one at all is `GreatestExists`.
* *Proofs*: `ProofsAnswered` (`AnswersRight`). An entry of the cache answers for its
  key as of the time it was kept less the delay of its query (`EntriesRight`), and
  the same holds of what a request has in hand at each await (`RequestsRight`).
* *Files*: `UploadsExact` (`UploadExact`). While nothing else writes, the rows marked
  are those of the entries saved so far, each with the last amount the file gives
  its owner (`Saved`), and no row of before is gone until the end
  (`UploadsRight`); `DeleteUnprocessed` is then what makes the table the file.
* *Reindexing*: `ReindexMissesNone` (`ReindexCovers`). A deposit that is owed was sent
  or is no nearer to the front than the pages that were read (`ReindexRight`): a
  deposit stored meanwhile can push it back, never forward. A page that is not full
  is then the last. This holds of a deposit without another of its date
  (`AloneOfDate`): whatever cut a query makes, the earlier ones are before it
  (`FirstCut`).
* *Pages*: `PagesMissNone` (`PagesCover`). The same, in either order, which the proof
  turns into a key, and for a deposit without another of its date: among those of
  one date each query orders as it likes (`ListRight`).
* *Speed-ups*: `LatestSpeedUpPaid` (`LatestSpeedUp`). The columns are those of the
  first of the sorted list (`RowRight`), what the job read is still the row
  (`JobAgrees`), and a speed-up that was read waits, is being written, or is there
  (`NoneLost`).

**`OpRewardsProofs`** (assumes `JobAssumption`, `ClaimsAssumption`, `OpAssumption`): `TypeCorrect`,
`RebatesPaidOnce` (`PaidOnce`), `BooksAlwaysAgree` (`BooksAgree`). What is paid
is in the window of the results until it is freed (`PaidInWindow`), and what is
freed was changed by a save (`FreedResaved`); what a worker has read of a reward
still holds, or the save that follows finds the difference (`SeenHolds`); a
claimed reward is claimed in its window (`ClaimedInWindow`), by a claim that is
stored before it is announced (`ClaimsStored`).

Over that invariant stands a second one for the claims, `ClaimsInv`. It keeps account
of the messages: of those of a range each waits, is the job's, or has completed
without the claim, as long as the claim is not stored, and the job that has the range
has the claim before it, behind it or passed over (`Accounted`); ranges lie before the
claims that are in none yet (`RangesPast`), so a claim never joins a range that is
published. From it follows that a claim waits, is in hand, is stored or was passed
over by every message (`EmittedKept`). It is of a window whose job is `Done`
(`ClaimsOfDone`), and what is announced and processed is marked (`AnnouncedMarked`).
Two theorems state the safety that `ClaimsMarked` rests on:
`ClaimsNeverLost`, and `StoredClaimsMark`, for the claims of a window that one
request asks for (`AskedOnce`). With two requests for one window the theorem
would be false, and TLC shows why: both transactions may find the index free, and
the second commit puts rewards into a window that is claimed and marked already.
The run of `ClaimsMarked` has requests of different windows.

**`ReferralRewardsProofs`** (assumes `JobAssumption`, `RewardsAssumption`, not `DatesDiffer`):
`TypeCorrect`, `DepositsPaidOnce` (`PaidOnce`), `ClaimsSettle` (`ClaimSettles`: only
`ComputeStats` changes counts, and it skips the claimed deposits). A deposit that was paid has a
window until it is reverted (`PaidHasWindow`), and so does the view a request read
after that commit (`ViewHasWindows`, `SawWindows`), and a committed request has
the rows it read (`CommittedHasRows`). `StatusIsTrue`: the status of a job tells
whether its window is committed, `Done` that it is and `Failed` that it is not
(`StepTells`); only `InProgress`, which a death leaves for ever, tells nothing.

Both modules prove `StuckJobBlocks` of the jobs they take from
`RewardsWindowJobs`: once a process has died between the insert of a job and its
first update, no request that has not begun ever gets a job. It is the hazard of
`reward-service.ts:165`, as a fact about the code and not a promise of it. The
invariant is that the stuck job stays and the request is new, or over without a
job (`Refused`).

**Only model-checked.** Liveness under fairness (`CatchesUp`, `DepositStored`,
`EventsDelivered`, `CallEnds`, `FillsSettle`, `EventsSettle`, `GapsHealed`,
`ClaimsMarked`, `RewardFollowsFee`, `ViewSettles`, `AllEnriched`,
`MCCallersServed`) is out of the prover's reach. So `CachedRows`, whose property
is of that kind, has no theorem; and the types of `Ingestion` as a whole have none,
as the swaps of its rows go through a recursive function. Every invariant and
action property that a passing run checks is stated by a theorem.
Induction over data and `RECURSIVE` operators are out of reach as well; no module
has such an operator, and the one recursive function, in `Ingestion`, is in no
theorem.

## 5. What is left out

* Reorganisations deeper than the following distance, and nodes that answer a
  query of final blocks incompletely.
* The payload of events and what is computed from it: the decoding of V2, V2.5,
  V3 and distributor events, amounts other than running totals, fees, prices and
  rates, the reward an amount is worth. In the rewards an amount is a number that
  stands for the fee or the tier it comes from.
* The summaries of referrals and rewards, with their caches, and the endpoints
  that list rewards and window results: single queries over rows that the other
  modules have. The rewards added to a page of transactions are of the same kind.
* `backfillDepositorAddress`, the endpoints that publish single messages (the
  consumers' modules admit their deliveries at any time), `retryFailedJobs`, and
  the ETL endpoint of the airdrop.
* `RectifyStickyReferral`, whose worker returns at once.
* How a claim of the V1 distributor comes to its row: its job may lose a claim as that
  of V2 does, and `ReferralRewards` lets each claim come at any time or never.
* Two publishing loops of the distributors on one chain, which would share a row
  (a hazard of the configuration).
* A node that refuses a query of a single block: the size would fall to 0, which
  the code reads as unset, and the call would start over for ever (a hazard).
* Configuration, migrations, analytics, the text of Slack messages, generated code.

Two remarks on code no run is about. The message of `getDepositsForTxPage` says
that an offset is limited to 2500; the code refuses one of 1500 or more
(`deposit/service.ts:56-61`). And the proof endpoint keeps its answers under the
checksum form of an address, but looks the wallet's user up by the address as it
was sent.

The hazards that no property covers are in `PROJECT.json`, each with a note that
says why.

## 6. Plan

Built: the way in (loops, split, querier, block events), fills and speed-ups, the
gap detection that repairs what the way in loses, the enrichment of deposits,
referrals, both kinds of rewards with their windows and claims, the airdrop, users,
caches, lists and reports. What is left, in this order:

1. **An abstract window** (unassigned, assigned, claimed) that `OpRewards` and
   `ReferralRewards` implement, with the exceptions their properties name.
2. **Summaries** of referrals with their caches, against the rows they sum.
