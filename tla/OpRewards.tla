------------------------------ MODULE OpRewards ------------------------------
(***************************************************************************)
(* The rebates of deposits to Optimism: OpRebateService writes one op      *)
(* reward for each deposit, again each time its fees are broken down; a    *)
(* window job puts the rewards that have no window into its own and writes *)
(* what each recipient is due; the claims the merkle distributor emits are *)
(* stored (DistributorClaims) and mark the rewards they paid.              *)
(*                                                                         *)
(* OpRebateService reads the row, and saves the whole of it later: `save`  *)
(* reads the row again and updates the columns in which what it was given  *)
(* differs.  A window set in between is a difference, and is cleared.      *)
(*                                                                         *)
(* A transaction of a window is the check of its index and one step for    *)
(* the rest: its update waits for the rows another transaction holds and   *)
(* looks at their window again, so that only one of them has each row.     *)
(* The rate and the price are fixed, so an amount is the fee it is 95% of. *)
(***************************************************************************)
EXTENDS DistributorClaims, FiniteSets

CONSTANTS
    Worker,         \* workers of the OpRebateReward queue: one per process
    Deposit,        \* filled deposits
    InProgram,      \* those to Optimism, of the dates of the program
    Recipient,      \* [Deposit -> sender of the deposit transaction]
    Date,           \* [Deposit -> Nat] depositDate
    Fee,            \* [Deposit -> fees a breakdown of it may find]
    MaxBreakdowns,  \* [Deposit -> Nat] bound: fee breakdowns of the deposit
    NoDeposit

ASSUME OpAssumption ==
    /\ InProgram \subseteq Deposit
    /\ Date \in [Deposit -> Nat]
    /\ Fee \in [Deposit -> SUBSET (Nat \ {0})]
    /\ MaxBreakdowns \in [Deposit -> Nat]
    /\ Recipient \in [Deposit -> Account]
    /\ NoDeposit \notin Deposit

VARIABLES
    fee,            \* [Deposit -> feeBreakdown.totalBridgeFeeUsd, or 0]
    breakdowns,     \* [Deposit -> times it has been broken down]
    unsent,         \* [Deposit -> breakdowns whose message is not yet published]
    rebateQueue,    \* [Deposit -> messages waiting in the OpRebateReward queue]
    worker,         \* [Worker -> the job the worker is at]
    reward,         \* [Deposit -> its op reward]
    paid,           \* [Request -> [Deposit -> what the results of its job pay for it]]
    freed,          \* deposits whose reward a save took out of its window
    resaved,        \* deposits whose reward a save changed while it was in a window
    raced,          \* deposits whose last job began while another was at them
    untold          \* deposits whose breakdown lost its message, and no job has begun since

rebateVars == <<fee, breakdowns, unsent, rebateQueue, worker, freed, resaved, raced, untold>>
vars == <<jobVars, rebateVars, reward, paid, claimVars>>

Amount == {0} \cup UNION {Fee[d] : d \in Deposit}

\* OpReward; amount 0 stands for no row, and window 0 for no window.
Reward == [amount : Amount, window : WindowIndex \cup {0}, claimed : BOOLEAN]
NoReward == [amount |-> 0, window |-> 0, claimed |-> FALSE]

WorkerState == [pc : {"idle", "priced", "read", "loaded"}, deposit : Deposit \cup {NoDeposit},
                amount : Amount, seen : Reward, loaded : Reward]
IdleWorker == [pc |-> "idle", deposit |-> NoDeposit, amount |-> 0,
               seen |-> NoReward, loaded |-> NoReward]

Init ==
    /\ JobsInit
    /\ ClaimsInit
    /\ fee = [d \in Deposit |-> 0]
    /\ breakdowns = [d \in Deposit |-> 0]
    /\ unsent = [d \in Deposit |-> 0]
    /\ rebateQueue = [d \in Deposit |-> 0]
    /\ worker = [w \in Worker |-> IdleWorker]
    /\ reward = [d \in Deposit |-> NoReward]
    /\ paid = [r \in Request |-> [d \in Deposit |-> 0]]
    /\ freed = {}
    /\ resaved = {}
    /\ raced = {}
    /\ untold = {}

----------------------------------------------------------------------------
\* FeeBreakdownConsumer writes the breakdown; it runs again with each message a fill or an
\* operator sends it.
BreakFees(d, f) ==
    /\ breakdowns[d] < MaxBreakdowns[d]
    /\ breakdowns' = [breakdowns EXCEPT ![d] = @ + 1]
    /\ fee' = [fee EXCEPT ![d] = f]
    /\ unsent' = [unsent EXCEPT ![d] = @ + 1]
    /\ UNCHANGED <<jobVars, rebateQueue, worker, reward, paid, freed, resaved, raced, untold,
                   claimVars>>

\* It publishes the deposit, ...
SendRebate(d) ==
    /\ unsent[d] > 0
    /\ unsent' = [unsent EXCEPT ![d] = @ - 1]
    /\ rebateQueue' = [rebateQueue EXCEPT ![d] = @ + 1]
    /\ UNCHANGED <<jobVars, fee, breakdowns, worker, reward, paid, freed, resaved, raced, untold,
                   claimVars>>

\* ... which is not awaited: the message is lost with the process, and the job is not
\* delivered again when it had completed.
LoseRebate(d) ==
    /\ unsent[d] > 0
    /\ deaths < MaxDeaths
    /\ deaths' = deaths + 1
    /\ unsent' = [unsent EXCEPT ![d] = @ - 1]
    /\ untold' = untold \cup {d}
    /\ UNCHANGED <<job, began, step, fee, breakdowns, rebateQueue, worker, reward, paid, freed,
                   resaved, raced, claimVars>>

Busy(d) == \E w \in Worker : worker[w].deposit = d

\* findOne of the deposit, its transaction, the token and the price: the amount is fixed.
\* A deposit outside the program is left alone.
TakeRebate(w, d) ==
    /\ worker[w].pc = "idle"
    /\ rebateQueue[d] > 0
    /\ rebateQueue' = [rebateQueue EXCEPT ![d] = @ - 1]
    /\ worker' = IF d \notin InProgram THEN worker
                 ELSE [worker EXCEPT ![w] = [IdleWorker EXCEPT !.pc = "priced",
                                                !.deposit = d, !.amount = fee[d]]]
    /\ raced' = IF Busy(d) THEN raced \cup {d} ELSE raced \ {d}
    /\ untold' = untold \ {d}
    /\ UNCHANGED <<jobVars, fee, breakdowns, unsent, reward, paid, freed, resaved, claimVars>>

\* findOne of the reward.
ReadReward(w) ==
    /\ worker[w].pc = "priced"
    /\ worker' = [worker EXCEPT ![w].pc = "read", ![w].seen = reward[worker[w].deposit]]
    /\ UNCHANGED <<jobVars, fee, breakdowns, unsent, rebateQueue, reward, paid, freed, resaved,
                   raced, untold, claimVars>>

\* The first query of `save`: the row that what is saved will be compared with.
LoadReward(w) ==
    /\ worker[w].pc = "read"
    /\ worker' = [worker EXCEPT ![w].pc = "loaded", ![w].loaded = reward[worker[w].deposit]]
    /\ UNCHANGED <<jobVars, fee, breakdowns, unsent, rebateQueue, reward, paid, freed, resaved,
                   raced, untold, claimVars>>

\* The columns `save` updates in row: those in which the saved entity differs from the
\* row as it was loaded.
WithDifferences(row, s) ==
    [amount  |-> IF s.amount # s.loaded.amount THEN s.amount ELSE row.amount,
     window  |-> IF s.seen.window # s.loaded.window THEN s.seen.window ELSE row.window,
     claimed |-> IF s.seen.claimed # s.loaded.claimed THEN s.seen.claimed
                 ELSE row.claimed]

\* Mutated form of Saved: a reward that is there is left as it is.
SavedOnce(row, s) ==
    IF s.seen.amount = 0 THEN [NoReward EXCEPT !.amount = s.amount] ELSE row

\* What `save` makes of the row: a new one, or the differences.
Saved(row, s) ==
    IF s.seen.amount = 0 THEN [NoReward EXCEPT !.amount = s.amount]
    ELSE WithDifferences(row, s)

\* The insert of a reward that another worker has inserted violates the unique key, and
\* the job is delivered again.
SaveReward(w) ==
    LET d == worker[w].deposit
        new == Saved(reward[d], worker[w])
        duplicate == worker[w].seen.amount = 0 /\ reward[d].amount # 0
    IN  /\ worker[w].pc = "loaded"
        /\ worker' = [worker EXCEPT ![w] = IdleWorker]
        /\ IF duplicate
           THEN /\ rebateQueue' = [rebateQueue EXCEPT ![d] = @ + 1]
                /\ UNCHANGED <<reward, freed, resaved>>
           ELSE /\ reward' = [reward EXCEPT ![d] = new]
                /\ freed' = IF reward[d].window \notin {0, new.window} THEN freed \cup {d}
                            ELSE freed
                /\ resaved' = IF reward[d].window # 0 /\ new # reward[d]
                              THEN resaved \cup {d} ELSE resaved
                /\ UNCHANGED rebateQueue
        /\ UNCHANGED <<jobVars, fee, breakdowns, unsent, paid, raced, untold, claimVars>>

\* The process dies, or an await rejects: Bull delivers the message again.
CrashRebate(w) ==
    /\ worker[w].pc # "idle"
    /\ deaths < MaxDeaths
    /\ deaths' = deaths + 1
    /\ rebateQueue' = [rebateQueue EXCEPT ![worker[w].deposit] = @ + 1]
    /\ worker' = [worker EXCEPT ![w] = IdleWorker]
    /\ UNCHANGED <<job, began, step, fee, breakdowns, unsent, reward, paid, freed, resaved,
                   raced, untold, claimVars>>

----------------------------------------------------------------------------
RequestStep(r) ==
    /\ JobStep(r)
    /\ UNCHANGED <<rebateVars, reward, paid, claimVars>>

\* setWindowForOpRewards looks for a reward that has the index, ...
CheckOpWindow(r) ==
    /\ CheckWindow(r, \E d \in Deposit : reward[d].window = Window[r])
    /\ UNCHANGED <<rebateVars, reward, paid, claimVars>>

\* Mutated form of Assignable: the condition that there is no window is lost.
AssignableAgain(row, d, r) == row.amount # 0 /\ Date[d] <= MaxDate[r]

\* ... gives it to every reward without a window up to the last date, ...
Assignable(row, d, r) == row.amount # 0 /\ row.window = 0 /\ Date[d] <= MaxDate[r]

\* ... and inserts the sum of each recipient over all the rewards that have it now.
AssignWindow(r) ==
    /\ CommitWindow(r)
    /\ reward' = [d \in Deposit |-> IF Assignable(reward[d], d, r)
                                    THEN [reward[d] EXCEPT !.window = Window[r]]
                                    ELSE reward[d]]
    /\ paid' = [paid EXCEPT ![r] = [d \in Deposit |->
                   IF reward'[d].window = Window[r] THEN reward'[d].amount ELSE 0]]
    /\ UNCHANGED <<rebateVars, claimVars>>

----------------------------------------------------------------------------
\* aggregateOpRewards: the recipients of the results of a job.
Recipients(r) == {Recipient[d] : d \in {x \in Deposit : paid[r][x] > 0}}

\* An operator uploads the recipients of a window.
UploadWindow(x) ==
    /\ \E r \in Request : job[r] = "Done" /\ Window[r] = x
    /\ Upload(x)
    /\ UNCHANGED <<job, began, step, rebateVars, reward, paid>>

\* An account claims a window it was given.
ClaimOnChain(e) ==
    /\ \E r \in Request : job[r] = "Done" /\ Window[r] = e.window /\ e.account \in Recipients(r)
    /\ Emit(e)
    /\ UNCHANGED <<job, began, step, rebateVars, reward, paid>>

\* The steps of the claims that leave the rewards alone.
StoreClaims ==
    /\ \/ \E n \in 0..Copies : PublishRange(n)
       \/ \E b \in Block : CacheBlock(b)
       \/ ClaimerStep
       \/ CrashClaimer
    /\ UNCHANGED <<job, began, step, rebateVars, reward, paid>>

\* Mutated form of PaidBy: the window of the claim is forgotten.
PaidByRecipient(e, d) == Recipient[d] = e.account /\ reward[d].window # 0

\* The rewards the update of MerkleDistributorClaimConsumer finds.
PaidBy(e, d) == Recipient[d] = e.account /\ reward[d].window = e.window

MarkClaimed(e) ==
    /\ e \in markQueue
    /\ markQueue' = markQueue \ {e}
    /\ reward' = [d \in Deposit |-> IF PaidBy(e, d) THEN [reward[d] EXCEPT !.claimed = TRUE]
                                    ELSE reward[d]]
    /\ UNCHANGED <<jobVars, rebateVars, paid, uploaded, claimBlock, lastBlock, claimRange, copies,
                   waiting, claimer, missed, blockRows, claims, unannounced>>

----------------------------------------------------------------------------
RebateStep(w) ==
    \/ \E d \in Deposit : TakeRebate(w, d)
    \/ ReadReward(w)
    \/ LoadReward(w)
    \/ SaveReward(w)

WindowStep(r) == RequestStep(r) \/ CheckOpWindow(r) \/ AssignWindow(r)

Next ==
    \/ \E d \in Deposit : (\E f \in Fee[d] : BreakFees(d, f)) \/ SendRebate(d) \/ LoseRebate(d)
    \/ \E w \in Worker : RebateStep(w) \/ CrashRebate(w)
    \/ \E r \in Request : WindowStep(r)
    \/ \E x \in WindowIndex : UploadWindow(x)
    \/ \E e \in ClaimEvent : ClaimOnChain(e) \/ MarkClaimed(e)
    \/ StoreClaims

Spec == Init /\ [][Next]_vars

\* The workers of the queues take what waits, a range whatever becomes of the others; the
\* loop goes on publishing.  Operators, claimants and crashes do as they like.
Fairness ==
    /\ \A d \in Deposit : WF_vars(SendRebate(d))
    /\ \A w \in Worker : WF_vars(RebateStep(w))
    /\ WF_vars(StoreClaims /\ PublishRange(Copies))
    /\ WF_vars(StoreClaims /\ ClaimerStep)
    /\ \A b \in Block : SF_vars(StoreClaims /\ TakeRange(b))
    /\ \A e \in ClaimEvent : WF_vars(MarkClaimed(e))

FairSpec == Spec /\ Fairness

----------------------------------------------------------------------------
TypeOK ==
    /\ JobsTypeOK
    /\ ClaimsTypeOK
    /\ fee \in [Deposit -> Amount]
    /\ breakdowns \in [Deposit -> Nat]
    /\ unsent \in [Deposit -> Nat]
    /\ rebateQueue \in [Deposit -> Nat]
    /\ worker \in [Worker -> WorkerState]
    /\ reward \in [Deposit -> Reward]
    /\ paid \in [Request -> [Deposit -> Amount]]
    /\ freed \subseteq Deposit
    /\ resaved \subseteq Deposit
    /\ raced \subseteq Deposit
    /\ untold \subseteq Deposit

(***************************************************************************)
(* Whatever the requests, a deposit's rebate is in the results of two      *)
(* windows only if a save has taken its reward out of the first one: two   *)
(* transactions that both found no reward of their index do not share one. *)
(***************************************************************************)
PaidOnce ==
    \A d \in Deposit, r1, r2 \in Request :
        paid[r1][d] > 0 /\ paid[r2][d] > 0 => Window[r1] = Window[r2] \/ d \in freed

(***************************************************************************)
(* As long as no save changes a reward that is in a window, the rewards    *)
(* and what was handed to the operators agree: the results that pay for a  *)
(* reward pay its amount, in the window of its row, and a reward is marked *)
(* as claimed only by a stored claim of its recipient in that window.      *)
(***************************************************************************)
BooksAgree ==
    \A d \in Deposit \ resaved :
        /\ \A r \in Request : paid[r][d] > 0 =>
               paid[r][d] = reward[d].amount /\ Window[r] = reward[d].window
        /\ reward[d].window # 0 => \E r \in Request : paid[r][d] > 0
        /\ reward[d].claimed =>
               [window |-> reward[d].window, account |-> Recipient[d]] \in claims

(***************************************************************************)
(* A claim the contract emits for a window that is uploaded sooner or      *)
(* later marks every reward of its account in that window, whichever of    *)
(* the two came first.  The exceptions are a reward that a save changed in *)
(* its window, which may lose the mark; a claim whose message was lost     *)
(* after it was stored: the next delivery finds it stored, and does not    *)
(* announce it; one that every job of its range has passed over, because   *)
(* the querier left its block out or the row of the block was refused, or  *)
(* because the loop died before it published the range; and one that comes *)
(* in its range behind a claim of a window that is not uploaded.           *)
(***************************************************************************)
ClaimsMarked ==
    \A e \in ClaimEvent :
        e \in OnChain /\ e.window \in uploaded ~>
            \/ e \in unannounced
            \/ PassedOver(e)
            \/ Behind(e)
            \/ \A d \in Deposit \ resaved : PaidBy(e, d) => reward[d].claimed

(***************************************************************************)
(* Once a deposit is broken down for the last time, its reward comes to be *)
(* the rebate of that breakdown: a job that was running with the fee       *)
(* before it does not have the last word.  The exceptions are a breakdown  *)
(* whose message was lost, and two jobs of the deposit that two workers    *)
(* were at together, of which the older may save last.                     *)
(***************************************************************************)
RewardFollowsFee ==
    \A d \in InProgram :
        <>[](fee[d] = 0 \/ d \in untold \/ d \in raced \/ reward[d].amount = fee[d])
=============================================================================
