-------------------------- MODULE OpRewardsProofs --------------------------
(***************************************************************************)
(* No rebate is paid by two windows, and the books agree, unless a save    *)
(* has changed a reward that was in a window; for any requests, deposits,  *)
(* workers, deliveries and deaths.                                         *)
(*                                                                         *)
(* As long as no save has done so, a reward that is in a window stays in   *)
(* it, so that what a worker has read of it still holds (SeenHolds): its   *)
(* save cannot put a reward into a window, nor mark it as claimed.         *)
(***************************************************************************)
EXTENDS OpRewards, TLAPS

\* The types of the jobs of the windows.
LEMMA JobsInitType == JobsInit => JobsTypeOK
  BY JobAssumption DEF JobsInit, JobsTypeOK, Status, StepName

LEMMA JobStepType ==
  ASSUME JobsTypeOK, NEW r \in Request, JobStep(r)
  PROVE  JobsTypeOK'
PROOF
  <1>1. CASE ReadJobs(r)
    <2>1. step' \in [Request -> StepName]
      BY <1>1 DEF ReadJobs, JobsTypeOK, StepName
    <2>2. began' \in Seq(Request)
      BY <1>1 DEF ReadJobs, JobsTypeOK
    <2>. QED
      BY <1>1, <2>1, <2>2 DEF ReadJobs, JobsTypeOK
  <1>2. CASE InsertJob(r)
    BY <1>2 DEF InsertJob, JobsTypeOK, Status, StepName
  <1>3. CASE MarkInProgress(r)
    BY <1>3 DEF MarkInProgress, JobsTypeOK, Status, StepName
  <1>4. CASE EndJob(r)
    BY <1>4 DEF EndJob, JobsTypeOK, Status, StepName
  <1>5. CASE Die(r)
    BY <1>5, JobAssumption DEF Die, JobsTypeOK, StepName
  <1>. QED
    BY <1>1, <1>2, <1>3, <1>4, <1>5 DEF JobStep

LEMMA WindowStepType ==
  ASSUME JobsTypeOK, NEW r \in Request
  PROVE  /\ \A taken \in BOOLEAN : CheckWindow(r, taken) => JobsTypeOK'
         /\ CommitWindow(r) => JobsTypeOK'
  BY DEF CheckWindow, CommitWindow, JobsTypeOK, StepName

----------------------------------------------------------------------------
\* A reward is where the results that pay for it say, unless a save has taken it out.
PaidInWindow ==
    \A d \in Deposit \ freed, r \in Request : paid[r][d] > 0 => reward[d].window = Window[r]

FreedResaved == freed \subseteq resaved

SeenHolds ==
    \A w \in Worker : worker[w].pc # "idle" /\ worker[w].deposit \notin resaved =>
        \A s \in {worker[w].seen, worker[w].loaded} :
            /\ s.window # 0 => reward[worker[w].deposit].window = s.window
            /\ s.claimed => reward[worker[w].deposit].claimed

ClaimedInWindow == \A d \in Deposit \ resaved : reward[d].claimed => reward[d].window # 0

AtClaim == claimer.pc \in {"seeking", "dated", "inserted"}

ClaimsStored ==
    /\ markQueue \subseteq claims
    /\ claimer.pc # "idle" => claimer.range \in Block
    /\ AtClaim => claimer.event \in OnChain
    /\ claimer.todo \subseteq OnChain
    /\ \A e \in ClaimEvent : claimRange[e] # 0 => e \in OnChain
    /\ claimer.pc = "inserted" => claimer.event \in claims

WorkersBusy == \A w \in Worker : worker[w].pc # "idle" => worker[w].deposit \in Deposit

IInv ==
    /\ TypeOK
    /\ WorkersBusy
    /\ FreedResaved
    /\ PaidInWindow
    /\ SeenHolds
    /\ ClaimedInWindow
    /\ ClaimsStored
    /\ BooksAgree

LEMMA WindowNotZero == 0 \notin WindowIndex
  BY JobAssumption DEF WindowIndex

LEMMA AmountType == Amount \subseteq Nat
PROOF
  <1>1. UNION {Fee[d] : d \in Deposit} \subseteq Nat
    BY OpAssumption
  <1>. QED
    BY <1>1 DEF Amount

LEMMA RewardFields ==
  ASSUME NEW x \in Reward
  PROVE  /\ x.amount \in Amount /\ x.window \in WindowIndex \cup {0} /\ x.claimed \in BOOLEAN
         /\ x = [amount |-> x.amount, window |-> x.window, claimed |-> x.claimed]
  BY DEF Reward

LEMMA NoRewardType == NoReward \in Reward
  BY DEF NoReward, Reward, Amount

LEMMA IdleClaimerType == IdleClaimer \in ClaimerState
  BY ClaimsAssumption DEF IdleClaimer, ClaimerState

LEMMA InitInv == Init => IInv
PROOF
  <1>. SUFFICES ASSUME Init PROVE IInv
    OBVIOUS
  <1>1. IdleWorker \in WorkerState
    BY NoRewardType DEF IdleWorker, WorkerState, Amount
  <1>2. ClaimsTypeOK
    BY IdleClaimerType, ClaimsAssumption DEF Init, ClaimsInit, ClaimsTypeOK, Block
  <1>3. TypeOK
    <2>1. paid \in [Request -> [Deposit -> Amount]] /\ fee \in [Deposit -> Amount]
      BY DEF Init, Amount
    <2>2. JobsTypeOK
      BY JobsInitType DEF Init
    <2>3. worker \in [Worker -> WorkerState] /\ reward \in [Deposit -> Reward]
      BY <1>1, NoRewardType DEF Init
    <2>. QED
      BY <1>2, <2>1, <2>2, <2>3 DEF Init, TypeOK
  <1>4. WorkersBusy /\ FreedResaved /\ PaidInWindow /\ SeenHolds
    BY DEF Init, WorkersBusy, FreedResaved, PaidInWindow, SeenHolds, IdleWorker
  <1>5. ClaimedInWindow /\ ClaimsStored /\ BooksAgree
    BY DEF Init, ClaimsInit, ClaimedInWindow, ClaimsStored, AtClaim, BooksAgree, IdleClaimer,
           NoReward, OnChain
  <1>. QED
    BY <1>3, <1>4, <1>5 DEF IInv

LEMMA InvPaidOnce == IInv => PaidOnce
  BY DEF IInv, PaidInWindow, PaidOnce

----------------------------------------------------------------------------
\* The actions that leave the rewards, the results and the rebates alone.
LEMMA RewardsKept ==
  ASSUME IInv, UNCHANGED <<worker, reward, paid, freed, resaved>>, claims \subseteq claims'
  PROVE  /\ WorkersBusy' /\ FreedResaved' /\ PaidInWindow' /\ SeenHolds' /\ ClaimedInWindow'
         /\ BooksAgree'
  BY DEF IInv, WorkersBusy, FreedResaved, PaidInWindow, SeenHolds, ClaimedInWindow, BooksAgree

LEMMA ClaimsUntouched ==
  ASSUME IInv, UNCHANGED claimVars
  PROVE  ClaimsTypeOK' /\ ClaimsStored'
  BY DEF IInv, TypeOK, ClaimsTypeOK, ClaimsStored, AtClaim, OnChain, claimVars

LEMMA BreakInv ==
  ASSUME IInv, NEW d \in Deposit,
         (\E f \in Fee[d] : BreakFees(d, f)) \/ SendRebate(d) \/ LoseRebate(d)
  PROVE  IInv'
PROOF
  <1>1. UNCHANGED <<worker, reward, paid, freed, resaved, raced, claimVars>>
    BY DEF BreakFees, SendRebate, LoseRebate
  <1>2. JobsTypeOK'
    BY JobAssumption DEF IInv, TypeOK, BreakFees, SendRebate, LoseRebate, jobVars, JobsTypeOK
  <1>3. /\ fee' \in [Deposit -> Amount] /\ breakdowns' \in [Deposit -> Nat]
        /\ unsent' \in [Deposit -> Nat] /\ rebateQueue' \in [Deposit -> Nat]
        /\ untold' \subseteq Deposit
    <2>1. CASE \E f \in Fee[d] : BreakFees(d, f)
      <3>1. PICK f \in Fee[d] : BreakFees(d, f)
        BY <2>1
      <3>2. f \in Amount
        BY DEF Amount
      <3>. QED
        BY <3>1, <3>2 DEF IInv, TypeOK, BreakFees
    <2>2. CASE SendRebate(d)
      BY <2>2 DEF IInv, TypeOK, SendRebate
    <2>3. CASE LoseRebate(d)
      BY <2>3 DEF IInv, TypeOK, LoseRebate
    <2>. QED
      BY <2>1, <2>2, <2>3
  <1>4. TypeOK'
    BY <1>1, <1>2, <1>3, ClaimsUntouched DEF IInv, TypeOK
  <1>. QED
    BY <1>1, <1>4, ClaimsUntouched, RewardsKept DEF IInv, claimVars

LEMMA RequestInv ==
  ASSUME IInv, NEW r \in Request, RequestStep(r) \/ CheckOpWindow(r)
  PROVE  IInv'
PROOF
  <1>1. UNCHANGED <<rebateVars, reward, paid, claimVars>>
    BY DEF RequestStep, CheckOpWindow
  <1>2. JobsTypeOK'
    BY JobStepType, WindowStepType DEF IInv, TypeOK, RequestStep, CheckOpWindow
  <1>3. TypeOK'
    BY <1>1, <1>2, ClaimsUntouched DEF IInv, TypeOK, rebateVars
  <1>. QED
    BY <1>1, <1>3, ClaimsUntouched, RewardsKept DEF IInv, rebateVars, claimVars

----------------------------------------------------------------------------
\* The claims.
\* The steps that give the rewards, the results and the rebates no part.
ClaimsAlone == UNCHANGED <<job, began, step, rebateVars, reward, paid>>

\* What the steps of the claims keep, action by action.
ClaimsFine ==
    /\ ClaimsTypeOK' /\ deaths' \in 0..MaxDeaths
    /\ ClaimsStored'
    /\ claims \subseteq claims'

LEMMA ClaimsInvKept ==
  ASSUME IInv, ClaimsAlone, ClaimsFine
  PROVE  IInv'
PROOF
  <1>1. JobsTypeOK'
    BY DEF IInv, TypeOK, JobsTypeOK, ClaimsAlone, ClaimsFine
  <1>2. TypeOK'
    BY <1>1 DEF IInv, TypeOK, ClaimsAlone, ClaimsFine, rebateVars
  <1>. QED
    BY <1>2, RewardsKept DEF IInv, ClaimsAlone, ClaimsFine, rebateVars

LEMMA OutsideFine ==
  ASSUME IInv,
         \/ \E x \in WindowIndex : Upload(x)
         \/ \E e \in ClaimEvent : Emit(e)
         \/ \E n \in 0..Copies : PublishRange(n)
         \/ \E b \in Block : CacheBlock(b)
  PROVE  ClaimsFine
PROOF
  <1>. USE DEF IInv, TypeOK, ClaimsTypeOK, ClaimsStored, AtClaim, OnChain, ClaimsFine, JobsTypeOK
  <1>1. CASE \E x \in WindowIndex : Upload(x)
    BY <1>1 DEF Upload
  <1>2. CASE \E e \in ClaimEvent : Emit(e)
    BY <1>2 DEF Emit, Block
  <1>3. CASE \E n \in 0..Copies : PublishRange(n)
    <2>1. PICK n \in 0..Copies : PublishRange(n)
      BY <1>3
    <2>2. n \in Nat /\ Copies \in Nat
      BY ClaimsAssumption
    <2>3. copies' \in [Block -> 0..Copies] /\ waiting' \in [Block -> Nat]
      BY <2>1, <2>2 DEF PublishRange
    <2>4. claimRange' \in [ClaimEvent -> 0..MaxBlock] /\ deaths' \in 0..MaxDeaths
      BY <2>1, JobAssumption DEF PublishRange
    <2>5. \A e \in ClaimEvent : claimRange'[e] # 0 => claimBlock[e] # 0
      BY <2>1 DEF PublishRange, Unscanned
    <2>. QED
      BY <2>1, <2>3, <2>4, <2>5 DEF PublishRange
  <1>4. CASE \E b \in Block : CacheBlock(b)
    BY <1>4 DEF CacheBlock
  <1>. QED
    BY <1>1, <1>2, <1>3, <1>4

\* Where the claimer is when it is over with its claim.
LEMMA OnwardType ==
  ASSUME IInv, claimer.pc # "idle"
  PROVE  /\ Onward \in ClaimerState /\ Onward.pc = "loop" /\ Onward.range = claimer.range
         /\ Onward.todo = claimer.todo \ {claimer.event} /\ Onward.passed = claimer.passed
  BY DEF IInv, TypeOK, ClaimsTypeOK, ClaimerState, Onward

LEMMA ClaimerFine ==
  ASSUME IInv, ClaimerStep \/ CrashClaimer
  PROVE  ClaimsFine
PROOF
  <1>. USE DEF IInv, TypeOK, ClaimsTypeOK, ClaimsStored, AtClaim, OnChain, ClaimsFine, JobsTypeOK
  <1>1. IdleClaimer \in ClaimerState /\ IdleClaimer.pc = "idle" /\ IdleClaimer.todo = {}
    BY IdleClaimerType DEF IdleClaimer
  <1>2. claimer.pc # "idle" =>
           /\ Onward \in ClaimerState /\ Onward.pc = "loop" /\ Onward.range = claimer.range
           /\ Onward.passed = claimer.passed /\ Onward.todo \subseteq claimer.todo
    BY OnwardType
  <1>3. ASSUME NEW b \in Block, TakeRange(b)
        PROVE  ClaimsFine
    <2>. DEFINE inRange == {e \in ClaimEvent : claimRange[e] = b}
    <2>1. waiting' \in [Block -> Nat] /\ waiting[b] > 0
      BY <1>3 DEF TakeRange
    <2>2. PICK left \in {{}, {e \in inRange : claimBlock[e] = b}} :
              claimer' = [IdleClaimer EXCEPT !.pc = "loop", !.range = b,
                                             !.todo = inRange \ left, !.passed = left]
      BY <1>3 DEF TakeRange
    <2>3. left \subseteq ClaimEvent /\ inRange \ left \subseteq ClaimEvent
          /\ inRange \subseteq OnChain /\ b \in 0..MaxBlock
      BY DEF Block
    <2>. HIDE DEF inRange
    <2>4. /\ claimer' \in ClaimerState /\ claimer'.pc = "loop" /\ claimer'.range = b
          /\ claimer'.todo \subseteq OnChain
      BY <1>1, <2>2, <2>3 DEF IdleClaimer, ClaimerState
    <2>. QED
      BY <1>3, <2>1, <2>4 DEF TakeRange
  <1>4. ASSUME NEW e \in ClaimEvent, NextClaim(e)
        PROVE  ClaimsFine
    <2>1. /\ claimer' \in ClaimerState /\ claimer'.pc \in {"seeking", "dated"}
          /\ claimer'.range = claimer.range /\ claimer'.event = e /\ claimer'.todo = claimer.todo
      BY <1>4 DEF NextClaim, ClaimerState
    <2>. QED
      BY <1>4, <2>1 DEF NextClaim
  <1>5. CASE SaveBlock
    <2>1. claimBlock[claimer.event] \in Block /\ claimer.event \in ClaimEvent
      BY <1>5 DEF SaveBlock, Block
    <2>2. /\ claimer' \in ClaimerState /\ claimer'.pc \in {"loop", "dated"}
          /\ claimer'.range = claimer.range /\ claimer'.todo \subseteq claimer.todo
          /\ claimer'.pc = "dated" => claimer'.event = claimer.event
      BY <1>2, <1>5, <2>1 DEF SaveBlock, ClaimerState
    <2>. QED
      BY <1>5, <2>1, <2>2 DEF SaveBlock
  <1>6. CASE Throw
    <2>1. waiting' \in [Block -> Nat] /\ claimer' = IdleClaimer
      BY <1>6 DEF Throw, Requeue
    <2>. QED
      BY <1>1, <1>6, <2>1 DEF Throw
  <1>7. CASE InsertClaim
    <2>1. /\ claimer' \in ClaimerState /\ claimer'.pc \in {"loop", "inserted"}
          /\ claimer'.range = claimer.range /\ claimer'.todo \subseteq claimer.todo
          /\ claimer'.pc = "inserted" => claimer'.event = claimer.event
      BY <1>2, <1>7 DEF InsertClaim, ClaimerState
    <2>. QED
      BY <1>7, <2>1 DEF InsertClaim
  <1>8. CASE PublishClaim
    <2>1. /\ claimer.pc = "inserted" /\ claimer' = Onward
          /\ claimer.event \in claims
          /\ markQueue' \subseteq markQueue \cup {claimer.event}
          /\ unannounced' \subseteq unannounced \cup {claimer.event}
          /\ deaths' \in 0..MaxDeaths
      BY <1>8, JobAssumption DEF PublishClaim
    <2>. QED
      BY <1>2, <1>8, <2>1 DEF PublishClaim
  <1>9. CASE CompleteRange
    <2>1. missed' \in [ClaimEvent -> Nat]
      BY <1>9 DEF CompleteRange
    <2>. QED
      BY <1>1, <1>9, <2>1 DEF CompleteRange
  <1>10. CASE CrashClaimer
    <2>1. /\ waiting' \in [Block -> Nat] /\ claimer' = IdleClaimer
          /\ unannounced' \subseteq ClaimEvent /\ deaths' \in 0..MaxDeaths
      BY <1>10, JobAssumption DEF CrashClaimer, Requeue
    <2>. QED
      BY <1>1, <1>10, <2>1 DEF CrashClaimer
  <1>. QED
    BY <1>3, <1>4, <1>5, <1>6, <1>7, <1>8, <1>9, <1>10 DEF ClaimerStep

LEMMA StoreInv ==
  ASSUME IInv,
         \/ \E x \in WindowIndex : UploadWindow(x)
         \/ \E e \in ClaimEvent : ClaimOnChain(e)
         \/ StoreClaims
  PROVE  IInv'
  BY OutsideFine, ClaimerFine, ClaimsInvKept
     DEF UploadWindow, ClaimOnChain, StoreClaims, ClaimsAlone

\* A claim that is marked is stored, and is of the window the rewards are in.
LEMMA MarkInv ==
  ASSUME IInv, NEW e \in ClaimEvent, MarkClaimed(e)
  PROVE  IInv'
PROOF
  <1>1. /\ e \in claims
        /\ markQueue' = markQueue \ {e}
        /\ reward' = [d \in Deposit |-> IF PaidBy(e, d) THEN [reward[d] EXCEPT !.claimed = TRUE]
                                        ELSE reward[d]]
        /\ UNCHANGED <<jobVars, rebateVars, paid, uploaded, claimBlock, lastBlock, claimRange,
                       copies, waiting, claimer, missed, blockRows, claims, unannounced>>
    BY DEF MarkClaimed, IInv, ClaimsStored
  <1>2. ASSUME NEW d \in Deposit
        PROVE  /\ reward'[d] \in Reward
               /\ reward'[d].amount = reward[d].amount
               /\ reward'[d].window = reward[d].window
               /\ reward[d].claimed => reward'[d].claimed
               /\ reward'[d].claimed => reward[d].claimed \/ PaidBy(e, d)
    BY <1>1 DEF IInv, TypeOK, Reward
  <1>3. JobsTypeOK'
    BY <1>1 DEF IInv, TypeOK, jobVars, JobsTypeOK
  <1>4. TypeOK'
    <2>1. reward' \in [Deposit -> Reward]
      BY <1>1, <1>2
    <2>2. ClaimsTypeOK'
      BY <1>1 DEF IInv, TypeOK, ClaimsTypeOK
    <2>. QED
      BY <1>1, <1>3, <2>1, <2>2 DEF IInv, TypeOK, rebateVars
  <1>5. WorkersBusy' /\ FreedResaved'
    BY <1>1 DEF IInv, WorkersBusy, FreedResaved, rebateVars
  <1>6. PaidInWindow'
    BY <1>1, <1>2 DEF IInv, PaidInWindow, rebateVars
  <1>7. SeenHolds'
    BY <1>1, <1>2 DEF IInv, SeenHolds, WorkersBusy, rebateVars
  <1>8. ClaimedInWindow'
    <2>1. \A d \in Deposit : PaidBy(e, d) => reward[d].window # 0
      BY WindowNotZero DEF PaidBy, ClaimEvent
    <2>. QED
      BY <1>1, <1>2, <2>1 DEF IInv, ClaimedInWindow, rebateVars
  <1>9. ClaimsStored'
    BY <1>1 DEF IInv, ClaimsStored, AtClaim, OnChain
  <1>10. BooksAgree'
    <2>1. \A d \in Deposit : PaidBy(e, d) =>
              e = [window |-> reward[d].window, account |-> Recipient[d]]
      BY DEF PaidBy, ClaimEvent
    <2>2. UNCHANGED <<resaved, paid, claims>>
      BY <1>1 DEF rebateVars
    <2>. QED
      BY <1>1, <1>2, <2>1, <2>2 DEF IInv, BooksAgree
  <1>. QED
    BY <1>4, <1>5, <1>6, <1>7, <1>8, <1>9, <1>10 DEF IInv

----------------------------------------------------------------------------
\* The window: the rewards it takes had none.
LEMMA AssignInv ==
  ASSUME IInv, NEW r \in Request, AssignWindow(r)
  PROVE  IInv'
PROOF
  <1>1. /\ reward' = [d \in Deposit |-> IF Assignable(reward[d], d, r)
                                        THEN [reward[d] EXCEPT !.window = Window[r]]
                                        ELSE reward[d]]
        /\ paid' = [paid EXCEPT ![r] = [d \in Deposit |->
                       IF reward'[d].window = Window[r] THEN reward'[d].amount ELSE 0]]
        /\ UNCHANGED <<rebateVars, claimVars>>
    BY DEF AssignWindow
  <1>2. Window[r] \in WindowIndex /\ Window[r] # 0
    BY JobAssumption DEF WindowIndex
  <1>3. ASSUME NEW d \in Deposit
        PROVE  /\ reward'[d] \in Reward
               /\ reward'[d].amount = reward[d].amount
               /\ reward'[d].claimed = reward[d].claimed
               /\ reward[d].window # 0 => reward'[d].window = reward[d].window
               /\ reward[d].window = 0 /\ reward'[d].window # 0 =>
                      reward'[d].window = Window[r] /\ reward[d].amount # 0
    BY <1>1, <1>2 DEF IInv, TypeOK, Reward, Assignable
  <1>4. JobsTypeOK'
    BY WindowStepType DEF IInv, TypeOK, AssignWindow
  <1>5. ASSUME NEW d \in Deposit
        PROVE  paid'[r][d] = IF reward'[d].window = Window[r] THEN reward'[d].amount ELSE 0
    BY <1>1 DEF IInv, TypeOK
  <1>6. \A s \in Request : s # r => paid'[s] = paid[s]
    BY <1>1 DEF IInv, TypeOK
  <1>7. \A d \in Deposit : reward'[d].amount \in Nat
    BY <1>3, AmountType DEF Reward
  <1>8. TypeOK'
    <2>1. reward' \in [Deposit -> Reward]
      BY <1>1, <1>3
    <2>2. \A d \in Deposit : reward'[d].amount \in Amount
      BY <1>3, RewardFields
    <2>3. [d \in Deposit |-> IF reward'[d].window = Window[r] THEN reward'[d].amount ELSE 0]
              \in [Deposit -> Amount]
      BY <2>2 DEF Amount
    <2>4. paid' \in [Request -> [Deposit -> Amount]]
      BY <1>1, <2>3 DEF IInv, TypeOK
    <2>. QED
      BY <1>1, <1>4, <2>1, <2>4, ClaimsUntouched DEF IInv, TypeOK, rebateVars
  <1>9. WorkersBusy' /\ FreedResaved'
    BY <1>1 DEF IInv, WorkersBusy, FreedResaved, rebateVars
  <1>10. PaidInWindow'
    <2>. SUFFICES ASSUME NEW d \in Deposit \ freed, NEW s \in Request, paid'[s][d] > 0
                  PROVE  reward'[d].window = Window[s]
      BY <1>1 DEF PaidInWindow, rebateVars
    <2>1. CASE s = r
      BY <1>5, <2>1
    <2>2. CASE s # r
      <3>1. reward[d].window = Window[s]
        BY <1>6, <2>2 DEF IInv, PaidInWindow
      <3>2. Window[s] # 0
        BY JobAssumption
      <3>. QED
        BY <1>3, <3>1, <3>2
    <2>. QED
      BY <2>1, <2>2
  <1>11. SeenHolds'
    BY <1>1, <1>3 DEF IInv, SeenHolds, WorkersBusy, rebateVars
  <1>12. ClaimedInWindow'
    BY <1>1, <1>3 DEF IInv, ClaimedInWindow, rebateVars
  <1>13. ClaimsStored'
    BY <1>1, ClaimsUntouched
  <1>14. BooksAgree'
    <2>. SUFFICES ASSUME NEW d \in Deposit \ resaved
                  PROVE  /\ \A s \in Request : paid'[s][d] > 0 =>
                                paid'[s][d] = reward'[d].amount /\ Window[s] = reward'[d].window
                         /\ reward'[d].window # 0 => \E s \in Request : paid'[s][d] > 0
                         /\ reward'[d].claimed =>
                                [window |-> reward'[d].window, account |-> Recipient[d]] \in claims
      BY <1>1 DEF BooksAgree, rebateVars, claimVars
    <2>1. ASSUME NEW s \in Request, paid'[s][d] > 0
          PROVE  paid'[s][d] = reward'[d].amount /\ Window[s] = reward'[d].window
      <3>1. CASE s = r
        BY <1>5, <2>1, <3>1
      <3>2. CASE s # r
        <4>1. paid'[s][d] = reward[d].amount /\ Window[s] = reward[d].window
          BY <1>6, <2>1, <3>2 DEF IInv, BooksAgree
        <4>2. Window[s] # 0
          BY JobAssumption
        <4>. QED
          BY <1>3, <4>1, <4>2
      <3>. QED
        BY <3>1, <3>2
    <2>2. ASSUME reward'[d].window # 0
          PROVE  \E s \in Request : paid'[s][d] > 0
      <3>1. CASE reward[d].window = 0
        <4>1. paid'[r][d] = reward[d].amount /\ reward[d].amount # 0
          BY <1>3, <1>5, <2>2, <3>1
        <4>. QED
          BY <1>3, <1>7, <4>1
      <3>2. CASE reward[d].window # 0
        <4>1. PICK s \in Request : paid[s][d] > 0
          BY <3>2 DEF IInv, BooksAgree
        <4>2. paid[s][d] = reward[d].amount /\ Window[s] = reward[d].window
          BY <4>1 DEF IInv, BooksAgree
        <4>3. CASE s = r
          BY <1>3, <1>5, <3>2, <4>1, <4>2, <4>3
        <4>4. CASE s # r
          BY <1>6, <4>1, <4>4
        <4>. QED
          BY <4>3, <4>4
      <3>. QED
        BY <3>1, <3>2
    <2>3. ASSUME reward'[d].claimed
          PROVE  [window |-> reward'[d].window, account |-> Recipient[d]] \in claims
      <3>1. reward[d].claimed /\ reward[d].window # 0
        BY <1>3, <2>3 DEF IInv, ClaimedInWindow
      <3>2. reward'[d].window = reward[d].window
        BY <1>3, <3>1
      <3>. QED
        BY <3>1, <3>2 DEF IInv, BooksAgree
    <2>. QED
      BY <2>1, <2>2, <2>3
  <1>. QED
    BY <1>8, <1>9, <1>10, <1>11, <1>12, <1>13, <1>14 DEF IInv

----------------------------------------------------------------------------
\* The rebates.
LEMMA WorkerFields ==
  ASSUME IInv, NEW w \in Worker
  PROVE  worker[w] \in WorkerState
  BY DEF IInv, TypeOK

\* A worker that takes a deposit, or reads or loads its reward, has seen what is there.
LEMMA ReadInv ==
  ASSUME IInv, NEW w \in Worker,
         worker' = [worker EXCEPT ![w] = worker'[w]],
         worker'[w] \in WorkerState,
         worker'[w].pc # "idle" =>
             /\ worker'[w].deposit \in Deposit
             /\ \A s \in {worker'[w].seen, worker'[w].loaded} :
                    \/ s = NoReward
                    \/ s = reward[worker'[w].deposit]
                    \/ /\ worker[w].pc # "idle"
                       /\ worker'[w].deposit = worker[w].deposit
                       /\ s \in {worker[w].seen, worker[w].loaded},
         rebateQueue' \in [Deposit -> Nat],
         raced' \subseteq Deposit, untold' \subseteq Deposit,
         JobsTypeOK',
         UNCHANGED <<fee, breakdowns, unsent, reward, paid, freed, resaved, claimVars>>
  PROVE  IInv'
PROOF
  <1>1. TypeOK'
    <2>1. worker' \in [Worker -> WorkerState]
      BY DEF IInv, TypeOK
    <2>. QED
      BY <2>1, ClaimsUntouched DEF IInv, TypeOK
  <1>2. \A v \in Worker : v # w => worker'[v] = worker[v]
    BY DEF IInv, TypeOK
  <1>3. WorkersBusy'
    BY <1>2 DEF IInv, WorkersBusy
  <1>4. SeenHolds'
    <2>. SUFFICES ASSUME NEW v \in Worker, worker'[v].pc # "idle",
                         worker'[v].deposit \notin resaved,
                         NEW s \in {worker'[v].seen, worker'[v].loaded}
                  PROVE  /\ s.window # 0 => reward[worker'[v].deposit].window = s.window
                         /\ s.claimed => reward[worker'[v].deposit].claimed
      BY DEF SeenHolds
    <2>1. CASE v # w
      BY <1>2, <2>1 DEF IInv, SeenHolds
    <2>2. CASE v = w
      <3>1. CASE s = NoReward
        BY <3>1 DEF NoReward
      <3>2. CASE s = reward[worker'[w].deposit]
        BY <2>2, <3>2
      <3>3. CASE /\ worker[w].pc # "idle"
                 /\ worker'[w].deposit = worker[w].deposit
                 /\ s \in {worker[w].seen, worker[w].loaded}
        BY <2>2, <3>3 DEF IInv, SeenHolds
      <3>. QED
        BY <2>2, <3>1, <3>2, <3>3
    <2>. QED
      BY <2>1, <2>2
  <1>5. FreedResaved' /\ PaidInWindow' /\ ClaimedInWindow'
    BY DEF IInv, FreedResaved, PaidInWindow, ClaimedInWindow
  <1>6. ClaimsStored' /\ BooksAgree'
    BY ClaimsUntouched DEF IInv, BooksAgree, claimVars
  <1>. QED
    BY <1>1, <1>3, <1>4, <1>5, <1>6 DEF IInv

LEMMA TakeInv ==
  ASSUME IInv, NEW w \in Worker, NEW d \in Deposit, TakeRebate(w, d)
  PROVE  IInv'
PROOF
  <1>. DEFINE taken == [IdleWorker EXCEPT !.pc = "priced", !.deposit = d, !.amount = fee[d]]
  <1>1. worker' = worker \/ worker' = [worker EXCEPT ![w] = taken]
    BY DEF TakeRebate
  <1>2. taken \in WorkerState /\ taken.deposit = d /\ taken.seen = NoReward
        /\ taken.loaded = NoReward
    BY NoRewardType DEF IInv, TypeOK, IdleWorker, WorkerState
  <1>3. rebateQueue' \in [Deposit -> Nat]
    BY DEF TakeRebate, IInv, TypeOK
  <1>4. /\ JobsTypeOK' /\ raced' \subseteq Deposit /\ untold' \subseteq Deposit
        /\ UNCHANGED <<fee, breakdowns, unsent, reward, paid, freed, resaved, claimVars>>
    BY DEF TakeRebate, IInv, TypeOK, jobVars, JobsTypeOK
  <1>. HIDE DEF taken
  <1>5. CASE worker' = worker
    <2>1. worker' = [worker EXCEPT ![w] = worker'[w]]
      BY <1>5 DEF IInv, TypeOK
    <2>2. worker'[w] \in WorkerState
      BY <1>5 DEF IInv, TypeOK
    <2>3. worker'[w].pc # "idle" => worker'[w].deposit \in Deposit
      BY <1>5 DEF IInv, WorkersBusy
    <2>. QED
      BY <1>3, <1>4, <1>5, <2>1, <2>2, <2>3, ReadInv
  <1>6. CASE worker' = [worker EXCEPT ![w] = taken]
    <2>1. worker'[w] = taken
      BY <1>6 DEF IInv, TypeOK
    <2>. QED
      BY <1>2, <1>3, <1>4, <1>6, <2>1, ReadInv
  <1>. QED
    BY <1>1, <1>5, <1>6

LEMMA LookInv ==
  ASSUME IInv, NEW w \in Worker, ReadReward(w) \/ LoadReward(w)
  PROVE  IInv'
PROOF
  <1>1. worker[w].pc # "idle" /\ worker[w].deposit \in Deposit
    BY DEF ReadReward, LoadReward, IInv, WorkersBusy
  <1>2. worker[w] \in WorkerState /\ reward[worker[w].deposit] \in Reward
    BY <1>1 DEF IInv, TypeOK
  <1>3. \/ worker' = [worker EXCEPT ![w].pc = "read", ![w].seen = reward[worker[w].deposit]]
        \/ worker' = [worker EXCEPT ![w].pc = "loaded", ![w].loaded = reward[worker[w].deposit]]
    BY DEF ReadReward, LoadReward
  <1>4. \/ worker'[w] = [worker[w] EXCEPT !.pc = "read", !.seen = reward[worker[w].deposit]]
        \/ worker'[w] = [worker[w] EXCEPT !.pc = "loaded", !.loaded = reward[worker[w].deposit]]
    BY <1>3 DEF IInv, TypeOK
  <1>5. worker' = [worker EXCEPT ![w] = worker'[w]]
    BY <1>3 DEF IInv, TypeOK
  <1>6. /\ worker'[w] \in WorkerState
        /\ worker'[w].deposit = worker[w].deposit
        /\ worker'[w].seen \in {worker[w].seen, reward[worker[w].deposit]}
        /\ worker'[w].loaded \in {worker[w].loaded, reward[worker[w].deposit]}
    BY <1>2, <1>4 DEF WorkerState
  <1>7. rebateQueue' \in [Deposit -> Nat]
    BY DEF ReadReward, LoadReward, IInv, TypeOK
  <1>8. /\ JobsTypeOK' /\ raced' \subseteq Deposit /\ untold' \subseteq Deposit
        /\ UNCHANGED <<fee, breakdowns, unsent, reward, paid, freed, resaved, claimVars>>
    BY DEF ReadReward, LoadReward, IInv, TypeOK, jobVars, JobsTypeOK
  <1>9. \A s \in {worker'[w].seen, worker'[w].loaded} :
           \/ s = reward[worker'[w].deposit]
           \/ s \in {worker[w].seen, worker[w].loaded}
    BY <1>6
  <1>. QED
    BY <1>1, <1>5, <1>6, <1>7, <1>8, <1>9, ReadInv

LEMMA CrashRebateInv ==
  ASSUME IInv, NEW w \in Worker, CrashRebate(w)
  PROVE  IInv'
PROOF
  <1>1. worker[w].deposit \in Deposit
    BY DEF CrashRebate, IInv, WorkersBusy
  <1>2. worker' = [worker EXCEPT ![w] = IdleWorker]
    BY DEF CrashRebate
  <1>3. worker'[w] = IdleWorker /\ IdleWorker.pc = "idle"
    BY <1>2 DEF IInv, TypeOK, IdleWorker
  <1>4. IdleWorker \in WorkerState
    BY NoRewardType DEF IdleWorker, WorkerState, Amount
  <1>5. rebateQueue' \in [Deposit -> Nat]
    BY <1>1 DEF CrashRebate, IInv, TypeOK
  <1>6. JobsTypeOK'
    BY JobAssumption DEF CrashRebate, IInv, TypeOK, JobsTypeOK
  <1>7. /\ raced' \subseteq Deposit /\ untold' \subseteq Deposit
        /\ UNCHANGED <<fee, breakdowns, unsent, reward, paid, freed, resaved, claimVars>>
    BY DEF CrashRebate, IInv, TypeOK
  <1>. QED
    BY <1>2, <1>3, <1>4, <1>5, <1>6, <1>7, ReadInv

\* What is saved has the type of a reward.
LEMMA SavedType ==
  ASSUME NEW row \in Reward, NEW s \in WorkerState
  PROVE  Saved(row, s) \in Reward
PROOF
  <1>1. /\ s.amount \in Amount
        /\ s.seen \in Reward
    BY DEF WorkerState
  <1>2. [NoReward EXCEPT !.amount = s.amount] \in Reward
    BY <1>1 DEF NoReward, Reward
  <1>3. WithDifferences(row, s) \in Reward
    BY <1>1 DEF WithDifferences, Reward
  <1>. QED
    BY <1>2, <1>3 DEF Saved

\* What is saved over a reward without a window, if none of it was seen in one, has none.
LEMMA SavedOutside ==
  ASSUME NEW row \in Reward, NEW s \in WorkerState,
         row.window = 0, ~row.claimed,
         s.seen.window = 0, s.loaded.window = 0, ~s.seen.claimed, ~s.loaded.claimed
  PROVE  Saved(row, s).window = 0 /\ ~Saved(row, s).claimed
PROOF
  <1>1. CASE s.seen.amount = 0
    BY <1>1 DEF Saved, NoReward
  <1>2. CASE s.seen.amount # 0
    <2>1. s.seen.claimed = s.loaded.claimed
      BY DEF WorkerState, Reward
    <2>. QED
      BY <1>2, <2>1 DEF Saved, WithDifferences
  <1>. QED
    BY <1>1, <1>2

LEMMA SaveInv ==
  ASSUME IInv, NEW w \in Worker, SaveReward(w)
  PROVE  IInv'
PROOF
  <1>. DEFINE d == worker[w].deposit
              new == Saved(reward[d], worker[w])
              duplicate == worker[w].seen.amount = 0 /\ reward[d].amount # 0
  <1>1. worker[w].pc # "idle" /\ d \in Deposit /\ worker[w] \in WorkerState
        /\ reward[d] \in Reward
    BY DEF SaveReward, IInv, TypeOK, WorkersBusy
  <1>2. IdleWorker \in WorkerState /\ IdleWorker.pc = "idle"
    BY NoRewardType DEF IdleWorker, WorkerState, Amount
  <1>3. worker' = [worker EXCEPT ![w] = IdleWorker] /\ worker'[w] = IdleWorker
    BY DEF SaveReward, IInv, TypeOK
  <1>4. \A v \in Worker : v # w => worker'[v] = worker[v]
    BY <1>3 DEF IInv, TypeOK
  <1>5. /\ JobsTypeOK' /\ raced' \subseteq Deposit /\ untold' \subseteq Deposit
        /\ UNCHANGED <<fee, breakdowns, unsent, paid, claimVars>>
    BY DEF SaveReward, IInv, TypeOK, jobVars, JobsTypeOK
  <1>6. CASE duplicate
    <2>1. rebateQueue' = [rebateQueue EXCEPT ![d] = @ + 1] /\ UNCHANGED <<reward, freed, resaved>>
      BY <1>6 DEF SaveReward
    <2>2. rebateQueue' \in [Deposit -> Nat]
      BY <1>1, <2>1 DEF IInv, TypeOK
    <2>. QED
      BY <1>2, <1>3, <1>5, <2>1, <2>2, ReadInv
  <1>7. CASE ~duplicate
    <2>1. /\ reward' = [reward EXCEPT ![d] = new]
          /\ freed' = IF reward[d].window \notin {0, new.window} THEN freed \cup {d} ELSE freed
          /\ resaved' = IF reward[d].window # 0 /\ new # reward[d] THEN resaved \cup {d}
                        ELSE resaved
          /\ UNCHANGED rebateQueue
      BY <1>7 DEF SaveReward
    <2>2. new \in Reward
      BY <1>1, SavedType
    <2>3. reward'[d] = new /\ \A x \in Deposit : x # d => reward'[x] = reward[x]
      BY <1>1, <2>1 DEF IInv, TypeOK
    <2>4. ASSUME d \notin resaved', new # reward[d]
          PROVE  /\ d \notin resaved
                 /\ reward[d].window = 0 /\ ~reward[d].claimed
                 /\ new.window = 0 /\ ~new.claimed
      <3>1. d \notin resaved /\ reward[d].window = 0
        BY <2>1, <2>4
      <3>2. ~reward[d].claimed
        BY <1>1, <3>1 DEF IInv, ClaimedInWindow
      <3>3. \A s \in {worker[w].seen, worker[w].loaded} : s.window = 0 /\ ~s.claimed
        BY <1>1, <3>1, <3>2 DEF IInv, SeenHolds
      <3>4. new.window = 0 /\ ~new.claimed
        BY <1>1, <3>1, <3>2, <3>3, SavedOutside
      <3>. QED
        BY <3>1, <3>2, <3>4
    <2>. HIDE DEF new, duplicate
    <2>5. freed \subseteq freed' /\ resaved \subseteq resaved' /\ freed' \subseteq resaved'
      <3>1. reward[d].window \notin {0, new.window} => reward[d].window # 0 /\ new # reward[d]
        OBVIOUS
      <3>. QED
        BY <2>1, <3>1 DEF IInv, FreedResaved
    <2>6. TypeOK'
      <3>1. worker' \in [Worker -> WorkerState]
        BY <1>2, <1>3 DEF IInv, TypeOK
      <3>2. reward' \in [Deposit -> Reward]
        BY <2>1, <2>2 DEF IInv, TypeOK
      <3>3. freed' \subseteq Deposit /\ resaved' \subseteq Deposit
        BY <1>1, <2>1 DEF IInv, TypeOK
      <3>. QED
        BY <1>5, <2>1, <3>1, <3>2, <3>3, ClaimsUntouched DEF IInv, TypeOK
    <2>7. WorkersBusy' /\ FreedResaved'
      BY <1>2, <1>3, <1>4, <2>5 DEF IInv, WorkersBusy, FreedResaved
    <2>8. PaidInWindow'
      <3>. SUFFICES ASSUME NEW x \in Deposit \ freed', NEW r \in Request, paid[r][x] > 0
                    PROVE  reward'[x].window = Window[r]
        BY <1>5 DEF PaidInWindow
      <3>1. reward[x].window = Window[r]
        BY <2>5 DEF IInv, PaidInWindow
      <3>2. Window[r] # 0
        BY JobAssumption
      <3>3. x = d => new.window = reward[d].window
        BY <2>1, <3>1, <3>2
      <3>. QED
        BY <2>3, <3>1, <3>3
    <2>9. SeenHolds'
      <3>. SUFFICES ASSUME NEW v \in Worker, worker'[v].pc # "idle",
                           worker'[v].deposit \notin resaved',
                           NEW s \in {worker'[v].seen, worker'[v].loaded}
                    PROVE  /\ s.window # 0 => reward'[worker'[v].deposit].window = s.window
                           /\ s.claimed => reward'[worker'[v].deposit].claimed
        BY DEF SeenHolds
      <3>1. v # w /\ worker'[v] = worker[v]
        BY <1>2, <1>3, <1>4
      <3>2. worker[v].deposit \in Deposit
        BY <3>1 DEF IInv, WorkersBusy
      <3>3. /\ s.window # 0 => reward[worker[v].deposit].window = s.window
            /\ s.claimed => reward[worker[v].deposit].claimed
        BY <2>5, <3>1 DEF IInv, SeenHolds
      <3>4. CASE worker[v].deposit # d \/ new = reward[d]
        BY <2>3, <3>1, <3>2, <3>3, <3>4
      <3>5. CASE worker[v].deposit = d /\ new # reward[d]
        BY <2>4, <3>1, <3>3, <3>5
      <3>. QED
        BY <3>4, <3>5
    <2>10. ClaimedInWindow'
      <3>. SUFFICES ASSUME NEW x \in Deposit \ resaved', reward'[x].claimed
                    PROVE  reward'[x].window # 0
        BY DEF ClaimedInWindow
      <3>1. reward'[x] = reward[x]
        BY <2>3, <2>4
      <3>. QED
        BY <2>5, <3>1 DEF IInv, ClaimedInWindow
    <2>11. ClaimsStored'
      BY <1>5, ClaimsUntouched
    <2>12. BooksAgree'
      <3>. SUFFICES ASSUME NEW x \in Deposit \ resaved'
                    PROVE  /\ \A r \in Request : paid[r][x] > 0 =>
                                  paid[r][x] = reward'[x].amount /\ Window[r] = reward'[x].window
                           /\ reward'[x].window # 0 => \E r \in Request : paid[r][x] > 0
                           /\ reward'[x].claimed =>
                                  [window |-> reward'[x].window, account |-> Recipient[x]]
                                      \in claims
        BY <1>5 DEF BooksAgree, claimVars
      <3>1. CASE x # d \/ new = reward[d]
        <4>1. reward'[x] = reward[x]
          BY <2>3, <3>1
        <4>. QED
          BY <2>5, <4>1 DEF IInv, BooksAgree
      <3>2. CASE x = d /\ new # reward[d]
        <4>1. d \notin resaved /\ reward[d].window = 0 /\ reward'[x].window = 0
              /\ ~reward'[x].claimed
          BY <2>3, <2>4, <3>2
        <4>2. ASSUME NEW r \in Request, paid[r][x] > 0
              PROVE  FALSE
          <5>1. Window[r] = reward[d].window
            BY <1>1, <3>2, <4>1, <4>2 DEF IInv, BooksAgree
          <5>. QED
            BY <4>1, <5>1, JobAssumption
        <4>. QED
          BY <4>1, <4>2
      <3>. QED
        BY <3>1, <3>2
    <2>. QED
      BY <2>6, <2>7, <2>8, <2>9, <2>10, <2>11, <2>12 DEF IInv
  <1>. QED
    BY <1>6, <1>7

----------------------------------------------------------------------------
LEMMA StepInv == IInv /\ [Next]_vars => IInv'
PROOF
  <1>. SUFFICES ASSUME IInv, [Next]_vars
                PROVE  IInv'
    OBVIOUS
  <1>1. ASSUME NEW d \in Deposit,
               (\E f \in Fee[d] : BreakFees(d, f)) \/ SendRebate(d) \/ LoseRebate(d)
        PROVE  IInv'
    BY <1>1, BreakInv
  <1>2. ASSUME NEW w \in Worker, RebateStep(w) \/ CrashRebate(w)
        PROVE  IInv'
    BY <1>2, TakeInv, LookInv, SaveInv, CrashRebateInv DEF RebateStep
  <1>3. ASSUME NEW r \in Request, WindowStep(r)
        PROVE  IInv'
    BY <1>3, RequestInv, AssignInv DEF WindowStep
  <1>4. ASSUME NEW x \in WindowIndex, UploadWindow(x)
        PROVE  IInv'
    BY <1>4, StoreInv
  <1>5. ASSUME NEW e \in ClaimEvent, ClaimOnChain(e) \/ MarkClaimed(e)
        PROVE  IInv'
    BY <1>5, StoreInv, MarkInv
  <1>6. CASE StoreClaims
    BY <1>6, StoreInv
  <1>7. CASE UNCHANGED vars
    <2>1. JobsTypeOK'
      BY <1>7 DEF vars, jobVars, IInv, TypeOK, JobsTypeOK
    <2>2. ClaimsTypeOK' /\ ClaimsStored'
      BY <1>7, ClaimsUntouched DEF vars
    <2>3. TypeOK'
      BY <1>7, <2>1, <2>2 DEF vars, rebateVars, IInv, TypeOK
    <2>. QED
      BY <1>7, <2>2, <2>3, RewardsKept DEF vars, rebateVars, claimVars, IInv
  <1>. QED
    BY <1>1, <1>2, <1>3, <1>4, <1>5, <1>6, <1>7 DEF Next

LEMMA Invariance == Spec => []IInv
  BY InitInv, StepInv, PTL DEF Spec

(***************************************************************************)
(* Every variable keeps its type: the counts of what waits in the queues   *)
(* never go below 0, and an amount is always the fee of some breakdown.    *)
(***************************************************************************)
THEOREM TypeCorrect == Spec => []TypeOK
PROOF
  <1>1. IInv => TypeOK
    BY DEF IInv
  <1>. QED
    BY <1>1, Invariance, PTL

(***************************************************************************)
(* A deposit's rebate is in the results of two windows only if a save took *)
(* its reward out of the first.                                            *)
(***************************************************************************)
THEOREM RebatesPaidOnce == Spec => []PaidOnce
  BY Invariance, InvPaidOnce, PTL

(***************************************************************************)
(* The rewards that no save changed in their window agree with the results *)
(* of the windows and with the stored claims.                              *)
(***************************************************************************)
THEOREM BooksAlwaysAgree == Spec => []BooksAgree
PROOF
  <1>1. IInv => BooksAgree
    BY DEF IInv
  <1>. QED
    BY <1>1, Invariance, PTL

----------------------------------------------------------------------------
(***************************************************************************)
(* The claims, and the jobs that stay where a death left them.             *)
(***************************************************************************)

\* No two requests ask for the window x.
AskedOnce(x) == \A r, s \in Request : Window[r] = x /\ Window[s] = x => r = s

\* A claim that the contract has emitted waits to be in a range, waits in its range, is
\* being handled, is stored, or was passed over by every job of its range.
EmittedKept ==
    \A e \in OnChain :
        \/ e \in claims
        \/ claimRange[e] = 0
        \/ waiting[claimRange[e]] > 0
        \/ claimer.pc # "idle" /\ e \in claimer.todo \cup claimer.passed
        \/ PassedOver(e)

\* A stored claim that is announced, and waits no longer, has marked what it paid for.
AnnouncedMarked ==
    \A e \in claims : AskedOnce(e.window) =>
        \/ e \in markQueue
        \/ claimer.pc = "inserted" /\ claimer.event = e
        \/ e \in unannounced
        \/ \A d \in Deposit \ resaved : PaidBy(e, d) => reward[d].claimed

\* What is stored has been emitted, for a window whose job is over.
ClaimsOfDone ==
    /\ claims \subseteq OnChain
    /\ \A e \in OnChain : \E r \in Request : job[r] = "Done" /\ Window[r] = e.window

AtRange(b) == claimer.pc # "idle" /\ claimer.range = b
Under(b) == IF AtRange(b) THEN 1 ELSE 0

\* The claimer has claims of its range only.
InHand ==
    claimer.pc # "idle" =>
        /\ \A e \in claimer.todo \cup claimer.passed : claimRange[e] = claimer.range
        /\ AtClaim => claimer.event \in claimer.todo

\* Each message of the range of a claim that is not stored waits, is at the claimer, or has
\* completed without the claim; and the claimer leaves none out of account.
Counted(e) ==
    \/ e \in claims
    \/ missed[e] + waiting[claimRange[e]] + Under(claimRange[e]) = copies[claimRange[e]]

AccountOf(e) ==
    /\ claimRange[e] = 0 => missed[e] = 0
    /\ claimRange[e] # 0 =>
          /\ Counted(e)
          /\ AtRange(claimRange[e]) => e \in claims \cup claimer.todo \cup claimer.passed

Accounted == \A e \in ClaimEvent : AccountOf(e)

\* The ranges lie before the claims that are in none yet.
Published(b) == waiting[b] > 0 \/ AtRange(b) \/ \E x \in ClaimEvent : claimRange[x] = b

RangesPast ==
    /\ \A e \in ClaimEvent : claimBlock[e] <= lastBlock
    /\ \A b \in Block : Published(b) => b <= lastBlock /\ \A e \in Unscanned : b < claimBlock[e]

RangesInv == InHand /\ Accounted /\ RangesPast

DoneIsOver == \A r \in Request : job[r] = "Done" => step[r] = "over"

\* A request has no job before its insert.
NoJobYet == \A r \in Request : step[r] \in {"new", "cleared"} => job[r] = "none"

ClaimsInv == DoneIsOver /\ NoJobYet /\ ClaimsOfDone /\ RangesInv /\ AnnouncedMarked

\* A request died before it marked its job as InProgress.
StuckJob == \E s \in Request : step[s] = "dead" /\ job[s] = "Initial"

Refused(r) == StuckJob /\ step[r] \in {"new", "over"} /\ job[r] = "none"

\* The steps of a request: the status of a job that is over stays, ...
LEMMA JobStepKeeps ==
  ASSUME IInv, DoneIsOver, NoJobYet, NEW q \in Request,
         \/ JobStep(q)
         \/ CheckOpWindow(q)
         \/ AssignWindow(q)
  PROVE  /\ DoneIsOver' /\ NoJobYet'
         /\ \A r \in Request : job[r] = "Done" => job'[r] = "Done"
PROOF
  <1>1. job \in [Request -> Status] /\ step \in [Request -> StepName]
    BY DEF IInv, TypeOK, JobsTypeOK
  <1>2. CASE ReadJobs(q)
    BY <1>1, <1>2 DEF ReadJobs, DoneIsOver, NoJobYet
  <1>3. CASE InsertJob(q)
    BY <1>1, <1>3 DEF InsertJob, DoneIsOver, NoJobYet
  <1>4. CASE MarkInProgress(q)
    BY <1>1, <1>4 DEF MarkInProgress, DoneIsOver, NoJobYet
  <1>5. CASE EndJob(q)
    BY <1>1, <1>5 DEF EndJob, DoneIsOver, NoJobYet
  <1>6. CASE Die(q)
    BY <1>1, <1>6 DEF Die, DoneIsOver, NoJobYet
  <1>7. CASE CheckOpWindow(q)
    BY <1>1, <1>7 DEF CheckOpWindow, CheckWindow, DoneIsOver, NoJobYet
  <1>8. CASE AssignWindow(q)
    BY <1>1, <1>8 DEF AssignWindow, CommitWindow, DoneIsOver, NoJobYet
  <1>. QED
    BY <1>2, <1>3, <1>4, <1>5, <1>6, <1>7, <1>8 DEF JobStep

\* ... and every other step leaves the jobs alone.
LEMMA JobsUntouched ==
  ASSUME DoneIsOver, NoJobYet, UNCHANGED <<job, step>>
  PROVE  /\ DoneIsOver' /\ NoJobYet'
         /\ \A r \in Request : job[r] = "Done" => job'[r] = "Done"
  BY DEF DoneIsOver, NoJobYet

LEMMA RangesUntouched ==
  ASSUME RangesInv,
         UNCHANGED <<claimBlock, lastBlock, claimRange, copies, waiting, claimer, missed, claims>>
  PROVE  RangesInv'
  BY DEF RangesInv, InHand, AtClaim, Accounted, AccountOf, Counted, Under, AtRange,
         RangesPast, Published, Unscanned, OnChain

\* The steps that touch no claim and put no reward into the window of one.
LEMMA ClaimsKept ==
  ASSUME ClaimsInv,
         UNCHANGED claimVars,
         DoneIsOver' /\ NoJobYet',
         \A r \in Request : job[r] = "Done" => job'[r] = "Done",
         \A e \in claims, d \in Deposit \ resaved' : AskedOnce(e.window) =>
             /\ d \notin resaved
             /\ reward'[d].window = e.window => reward'[d] = reward[d]
  PROVE  ClaimsInv'
PROOF
  <1>1. ClaimsOfDone'
    BY DEF ClaimsInv, ClaimsOfDone, OnChain, claimVars
  <1>2. RangesInv'
    BY RangesUntouched DEF ClaimsInv, claimVars
  <1>3. AnnouncedMarked'
    <2>. SUFFICES ASSUME NEW e \in claims, AskedOnce(e.window),
                         e \notin markQueue,
                         ~(claimer.pc = "inserted" /\ claimer.event = e),
                         e \notin unannounced,
                         NEW d \in Deposit \ resaved',
                         Recipient[d] = e.account, reward'[d].window = e.window
                  PROVE  reward'[d].claimed
      BY DEF AnnouncedMarked, PaidBy, AskedOnce, claimVars
    <2>1. d \notin resaved /\ reward'[d] = reward[d]
      OBVIOUS
    <2>2. PaidBy(e, d)
      BY <2>1 DEF PaidBy
    <2>. QED
      BY <2>1, <2>2 DEF ClaimsInv, AnnouncedMarked
  <1>. QED
    BY <1>1, <1>2, <1>3 DEF ClaimsInv

\* A save that leaves a deposit out of `resaved` leaves its reward as it was, or in no window.
LEMMA SaveKeeps ==
  ASSUME IInv, NEW w \in Worker, SaveReward(w), NEW x \in Deposit \ resaved'
  PROVE  /\ x \notin resaved
         /\ reward'[x] = reward[x] \/ reward'[x].window = 0
PROOF
  <1>. DEFINE d == worker[w].deposit
              new == Saved(reward[d], worker[w])
  <1>1. worker[w].pc # "idle" /\ d \in Deposit /\ worker[w] \in WorkerState
        /\ reward[d] \in Reward /\ reward \in [Deposit -> Reward]
    BY DEF SaveReward, IInv, TypeOK, WorkersBusy
  <1>2. \/ UNCHANGED <<reward, resaved>>
        \/ /\ reward' = [reward EXCEPT ![d] = new]
           /\ resaved' = IF reward[d].window # 0 /\ new # reward[d] THEN resaved \cup {d}
                         ELSE resaved
    BY DEF SaveReward
  <1>3. ASSUME d \notin resaved, reward[d].window = 0
        PROVE  new.window = 0
    <2>1. ~reward[d].claimed
      BY <1>1, <1>3 DEF IInv, ClaimedInWindow
    <2>2. \A s \in {worker[w].seen, worker[w].loaded} : s.window = 0 /\ ~s.claimed
      BY <1>1, <1>3, <2>1 DEF IInv, SeenHolds
    <2>. QED
      BY <1>1, <1>3, <2>1, <2>2, SavedOutside
  <1>. HIDE DEF d, new
  <1>. QED
    BY <1>1, <1>2, <1>3

\* The rewards and the jobs stay: the claims alone move.  What each step must show of the
\* messages: a claim is stored by the claimer, and its message is sent or lost.
MessagesKept ==
    /\ \A e \in claims' \ claims : claimer'.pc = "inserted" /\ claimer'.event = e
    /\ markQueue \subseteq markQueue' /\ unannounced \subseteq unannounced'
    /\ claimer.pc = "inserted" =>
           \/ claimer'.pc = "inserted" /\ claimer'.event = claimer.event
           \/ claimer.event \in markQueue' \cup unannounced'

EmittedGrows ==
    /\ OnChain \subseteq OnChain'
    /\ claims' \subseteq OnChain'
    /\ \A e \in OnChain' \ OnChain : \E r \in Request : job[r] = "Done" /\ Window[r] = e.window

LEMMA ClaimsInvStep ==
  ASSUME IInv, ClaimsInv, ClaimsAlone, RangesInv', MessagesKept, EmittedGrows
  PROVE  ClaimsInv'
PROOF
  <1>1. UNCHANGED <<job, step, reward, resaved>>
    BY DEF ClaimsAlone, rebateVars
  <1>2. DoneIsOver' /\ NoJobYet'
    BY <1>1 DEF ClaimsInv, DoneIsOver, NoJobYet
  <1>3. ClaimsOfDone'
    BY <1>1 DEF ClaimsInv, ClaimsOfDone, EmittedGrows
  <1>4. AnnouncedMarked'
    <2>. SUFFICES ASSUME NEW e \in claims', AskedOnce(e.window),
                         e \notin markQueue',
                         ~(claimer'.pc = "inserted" /\ claimer'.event = e),
                         e \notin unannounced',
                         NEW d \in Deposit \ resaved,
                         PaidBy(e, d)
                  PROVE  reward[d].claimed
      BY <1>1 DEF AnnouncedMarked, PaidBy, AskedOnce
    <2>1. e \in claims /\ e \notin markQueue /\ e \notin unannounced
          /\ ~(claimer.pc = "inserted" /\ claimer.event = e)
      BY DEF MessagesKept
    <2>. QED
      BY <2>1 DEF ClaimsInv, AnnouncedMarked
  <1>. QED
    BY <1>2, <1>3, <1>4 DEF ClaimsInv

\* The steps outside of the claimer.
LEMMA OutsideRanges ==
  ASSUME IInv, ClaimsInv,
         \/ \E x \in WindowIndex : Upload(x)
         \/ \E e \in ClaimEvent : Emit(e)
         \/ \E n \in 0..Copies : PublishRange(n)
         \/ \E b \in Block : CacheBlock(b)
  PROVE  RangesInv' /\ MessagesKept /\ OnChain \subseteq OnChain' /\ claims' = claims
PROOF
  <1>1. /\ MessagesKept /\ claims' = claims
        /\ UNCHANGED <<claimer, missed>>
    BY DEF Upload, Emit, PublishRange, CacheBlock, MessagesKept
  <1>2. CASE (\E x \in WindowIndex : Upload(x)) \/ (\E b \in Block : CacheBlock(b))
    <2>1. UNCHANGED <<claimBlock, lastBlock, claimRange, copies, waiting, claimer, missed, claims>>
      BY <1>2 DEF Upload, CacheBlock
    <2>. QED
      BY <1>1, <2>1, RangesUntouched DEF ClaimsInv, OnChain
  <1>. USE DEF IInv, TypeOK, ClaimsTypeOK, ClaimsStored
  <1>3. CASE \E e \in ClaimEvent : Emit(e)
    <2>1. PICK e \in ClaimEvent, b \in {lastBlock, lastBlock + 1} \cap Block :
              /\ claimBlock[e] = 0
              /\ b = lastBlock => \E x \in Unscanned : claimBlock[x] = b
              /\ claimBlock' = [claimBlock EXCEPT ![e] = b]
              /\ lastBlock' = b
              /\ UNCHANGED <<claimRange, copies, waiting, claimer, missed, claims>>
      BY <1>3 DEF Emit
    <2>2. b \in Nat /\ b # 0 /\ lastBlock \in Nat /\ lastBlock <= b
      BY <2>1 DEF Block
    <2>3. /\ claimBlock'[e] = b
          /\ \A x \in ClaimEvent : x # e => claimBlock'[x] = claimBlock[x]
      BY <2>1
    <2>4. OnChain \subseteq OnChain'
      BY <2>2, <2>3 DEF OnChain
    <2>5. InHand' /\ Accounted'
      BY <2>1 DEF ClaimsInv, RangesInv, InHand, AtClaim, Accounted, AccountOf, Counted,
                      Under, AtRange
    <2>6. \A p \in Block : Published(p)' => Published(p)
      BY <2>1 DEF Published, AtRange
    <2>7. \A x \in ClaimEvent : claimBlock'[x] <= lastBlock'
      BY <2>1, <2>2, <2>3 DEF ClaimsInv, RangesInv, RangesPast
    <2>8. ASSUME NEW p \in Block, Published(p)
          PROVE  p <= b /\ \A x \in Unscanned' : p < claimBlock'[x]
      <3>1. p <= lastBlock /\ \A x \in Unscanned : p < claimBlock[x]
        BY <2>8 DEF ClaimsInv, RangesInv, RangesPast
      <3>2. p < b
        <4>1. CASE b = lastBlock
          BY <2>1, <3>1, <4>1
        <4>2. CASE b = lastBlock + 1
          BY <2>2, <3>1, <4>2 DEF Block
        <4>. QED
          BY <2>1, <4>1, <4>2
      <3>3. \A x \in Unscanned' : x = e \/ (x # e /\ x \in Unscanned)
        BY <2>1, <2>3 DEF Unscanned, OnChain
      <3>4. \A x \in Unscanned' : x \in ClaimEvent
        BY DEF Unscanned, OnChain
      <3>5. \A x \in Unscanned' : p < claimBlock'[x]
        BY <2>3, <3>1, <3>2, <3>3, <3>4
      <3>. QED
        BY <2>2, <3>2, <3>5 DEF Block
    <2>9. RangesPast'
      BY <2>1, <2>6, <2>7, <2>8 DEF RangesPast
    <2>. QED
      BY <1>1, <2>4, <2>5, <2>9 DEF RangesInv
  <1>4. CASE \E n \in 0..Copies : PublishRange(n)
    <2>1. PICK n \in 0..Copies : PublishRange(n)
      BY <1>4
    <2>2. /\ Unscanned # {}
          /\ claimRange' = [e \in ClaimEvent |->
                                IF e \in Unscanned THEN lastBlock ELSE claimRange[e]]
          /\ copies' = [copies EXCEPT ![lastBlock] = n]
          /\ waiting' = [waiting EXCEPT ![lastBlock] = n]
          /\ UNCHANGED <<claimBlock, lastBlock, claimer, missed, claims>>
      BY <2>1 DEF PublishRange
    <2>3. PICK u \in ClaimEvent : u \in Unscanned
      BY <2>2 DEF Unscanned, OnChain
    <2>4. claimBlock[u] # 0 /\ claimBlock[u] <= lastBlock
      BY <2>3 DEF Unscanned, OnChain, ClaimsInv, RangesInv, RangesPast
    <2>5. lastBlock \in Block /\ lastBlock # 0
      BY <2>4, ClaimsAssumption DEF Block
    <2>6. ~Published(lastBlock)
      <3>1. claimBlock[u] \in Nat /\ lastBlock \in Nat
        OBVIOUS
      <3>2. Published(lastBlock) => lastBlock < claimBlock[u]
        BY <2>3, <2>5 DEF ClaimsInv, RangesInv, RangesPast
      <3>. QED
        BY <2>4, <3>1, <3>2
    <2>7. /\ copies'[lastBlock] = n /\ waiting'[lastBlock] = n
          /\ \A p \in Block : p # lastBlock => waiting'[p] = waiting[p] /\ copies'[p] = copies[p]
      BY <2>2, <2>5
    <2>8. Unscanned' = {}
      BY <2>2, <2>5 DEF Unscanned, OnChain
    <2>9. OnChain' = OnChain
      BY <2>2 DEF OnChain
    <2>10. InHand'
      <3>1. \A e \in claimer.todo \cup claimer.passed : e \in ClaimEvent
        BY DEF ClaimerState
      <3>2. claimer.pc # "idle" => claimer.range # 0
        BY DEF Block
      <3>3. claimer.pc # "idle" =>
               \A e \in claimer.todo \cup claimer.passed :
                   claimRange[e] = claimer.range /\ e \notin Unscanned
        BY <3>2 DEF ClaimsInv, RangesInv, InHand, Unscanned
      <3>. QED
        BY <2>2, <3>1, <3>3 DEF ClaimsInv, RangesInv, InHand, AtClaim
    <2>11. Accounted'
      <3>. SUFFICES ASSUME NEW e \in ClaimEvent
                    PROVE  AccountOf(e)'
        BY DEF Accounted
      <3>1. CASE e \in Unscanned
        <4>1. claimRange'[e] = lastBlock /\ claimRange[e] = 0 /\ missed[e] = 0
          BY <2>2, <3>1 DEF Unscanned, ClaimsInv, RangesInv, Accounted, AccountOf
        <4>2. ~(claimer'.pc # "idle" /\ claimer'.range = lastBlock)
          BY <2>2, <2>6 DEF Published, AtRange
        <4>3. copies'[lastBlock] = n /\ waiting'[lastBlock] = n /\ missed'[e] = 0 /\ n \in Nat
          BY <2>2, <2>7, <4>1, ClaimsAssumption
        <4>4. Counted(e)'
          BY <4>1, <4>2, <4>3 DEF Counted, Under, AtRange
        <4>. QED
          BY <2>5, <4>1, <4>2, <4>4 DEF AccountOf, AtRange
      <3>2. CASE e \notin Unscanned
        <4>1. claimRange'[e] = claimRange[e]
          BY <2>2, <3>2
        <4>2. CASE claimRange[e] = 0
          BY <2>2, <4>1, <4>2 DEF ClaimsInv, RangesInv, Accounted, AccountOf
        <4>3. CASE claimRange[e] # 0
          <5>1. claimRange[e] \in Block /\ claimRange[e] # lastBlock
            BY <2>6, <4>3 DEF Published, Block
          <5>. QED
            BY <2>2, <2>7, <4>1, <4>3, <5>1
               DEF ClaimsInv, RangesInv, Accounted, AccountOf, Counted, Under, AtRange
        <4>. QED
          BY <4>2, <4>3
      <3>. QED
        BY <3>1, <3>2
    <2>12. RangesPast'
      <3>1. \A p \in Block : Published(p)' => p = lastBlock \/ Published(p)
        BY <2>2, <2>7 DEF Published, AtRange
      <3>2. \A p \in Block : Published(p)' => p <= lastBlock'
        BY <2>2, <3>1 DEF ClaimsInv, RangesInv, RangesPast
      <3>. QED
        BY <2>2, <2>8, <3>2 DEF ClaimsInv, RangesInv, RangesPast
    <2>. QED
      BY <1>1, <2>9, <2>10, <2>11, <2>12 DEF RangesInv
  <1>. QED
    BY <1>2, <1>3, <1>4

\* The steps of the claimer, by what they do to the range in hand.
LEMMA Handled ==
  ASSUME IInv, ClaimsInv,
         claimer.pc # "idle", claimer'.pc # "idle", claimer'.range = claimer.range,
         claimer'.todo \subseteq claimer.todo,
         claimer'.passed \subseteq claimer.passed \cup claimer.todo,
         claimer.passed \subseteq claimer'.passed,
         claimer.todo \subseteq claimer'.todo \cup claimer'.passed \cup claims',
         AtClaim' => claimer'.event \in claimer'.todo,
         claims \subseteq claims',
         UNCHANGED <<claimBlock, lastBlock, claimRange, copies, waiting, missed>>
  PROVE  RangesInv'
PROOF
  <1>1. \A b : AtRange(b)' <=> AtRange(b)
    BY DEF AtRange
  <1>2. InHand'
    BY DEF ClaimsInv, RangesInv, InHand
  <1>3. Accounted'
    <2>1. \A e \in ClaimEvent : Counted(e) => Counted(e)'
      BY DEF Counted, Under, AtRange
    <2>2. \A e \in claims \cup claimer.todo \cup claimer.passed :
              e \in claims' \cup claimer'.todo \cup claimer'.passed
      OBVIOUS
    <2>. QED
      BY <2>1, <2>2 DEF ClaimsInv, RangesInv, Accounted, AccountOf, AtRange
  <1>4. RangesPast'
    BY DEF ClaimsInv, RangesInv, RangesPast, Published, AtRange, Unscanned, OnChain
  <1>. QED
    BY <1>2, <1>3, <1>4 DEF RangesInv

\* The message of the range in hand waits again.
LEMMA Requeued ==
  ASSUME IInv, ClaimsInv, claimer.pc # "idle", Requeue,
         UNCHANGED <<claimBlock, lastBlock, claimRange, copies, missed, claims>>
  PROVE  RangesInv'
PROOF
  <1>. DEFINE b == claimer.range
  <1>. USE DEF IInv, TypeOK, ClaimsTypeOK, ClaimsStored
  <1>1. /\ b \in Block
        /\ waiting'[b] = waiting[b] + 1
        /\ \A p \in Block : p # b => waiting'[p] = waiting[p]
        /\ claimer'.pc = "idle"
        /\ waiting[b] \in Nat
    BY DEF Requeue, IdleClaimer
  <1>2. AtRange(b) /\ \A p : p # b => ~AtRange(p)
    BY DEF AtRange
  <1>3. \A p : ~AtRange(p)'
    BY <1>1 DEF AtRange
  <1>4. InHand'
    BY <1>1 DEF InHand
  <1>5. Accounted'
    <2>1. ASSUME NEW e \in ClaimEvent, claimRange[e] # 0, Counted(e)
          PROVE  Counted(e)'
      <3>1. claimRange[e] \in Block /\ missed[e] \in Nat
        BY <2>1 DEF Block
      <3>2. CASE claimRange[e] = b
        <4>1. Under(b) = 1 /\ Under(b)' = 0
          BY <1>1, <1>2 DEF Under, AtRange
        <4>2. e \in claims \/ missed[e] + waiting[b] + 1 = copies[b]
          BY <2>1, <3>2, <4>1 DEF Counted
        <4>3. Under(claimRange[e])' = 0
          BY <1>1 DEF Under, AtRange
        <4>. QED
          BY <1>1, <3>1, <3>2, <4>2, <4>3 DEF Counted, Under, AtRange
      <3>3. CASE claimRange[e] # b
        <4>1. Under(claimRange[e]) = 0 /\ Under(claimRange[e])' = 0
          BY <1>1, <1>2, <3>3 DEF Under, AtRange
        <4>. QED
          BY <1>1, <2>1, <3>1, <3>3, <4>1 DEF Counted, Under, AtRange
      <3>. QED
        BY <3>2, <3>3
    <2>. QED
      BY <1>1, <2>1 DEF ClaimsInv, RangesInv, Accounted, AccountOf, AtRange
  <1>6. RangesPast'
    <2>1. \A p \in Block : Published(p)' => Published(p)
      BY <1>1, <1>2, <1>3 DEF Published
    <2>. QED
      BY <2>1 DEF ClaimsInv, RangesInv, RangesPast, Unscanned, OnChain
  <1>. QED
    BY <1>4, <1>5, <1>6 DEF RangesInv

LEMMA Taken ==
  ASSUME IInv, ClaimsInv, NEW b \in Block, TakeRange(b)
  PROVE  RangesInv'
PROOF
  <1>. DEFINE inRange == {e \in ClaimEvent : claimRange[e] = b}
  <1>. USE DEF IInv, TypeOK, ClaimsTypeOK, ClaimsStored
  <1>1. /\ claimer.pc = "idle" /\ waiting[b] > 0
        /\ waiting' = [waiting EXCEPT ![b] = @ - 1]
        /\ UNCHANGED <<claimBlock, lastBlock, claimRange, copies, missed, claims>>
    BY DEF TakeRange
  <1>2. PICK left \in {{}, {e \in inRange : claimBlock[e] = b}} :
            claimer' = [IdleClaimer EXCEPT !.pc = "loop", !.range = b,
                                           !.todo = inRange \ left, !.passed = left]
    BY DEF TakeRange
  <1>3. left \subseteq inRange
    OBVIOUS
  <1>4. /\ claimer'.pc = "loop" /\ claimer'.range = b
        /\ claimer'.todo = inRange \ left /\ claimer'.passed = left
    BY <1>2 DEF IdleClaimer
  <1>5. /\ waiting'[b] = waiting[b] - 1 /\ waiting[b] \in Nat
        /\ \A p \in Block : p # b => waiting'[p] = waiting[p]
    BY <1>1
  <1>6. InHand'
    BY <1>1, <1>3, <1>4 DEF InHand, AtClaim
  <1>7. Accounted'
    <2>1. ASSUME NEW e \in ClaimEvent, claimRange[e] # 0, Counted(e)
          PROVE  Counted(e)'
      <3>1. claimRange[e] \in Block /\ missed[e] \in Nat
        BY <2>1 DEF Block
      <3>2. Under(claimRange[e]) = 0
        BY <1>1 DEF Under, AtRange
      <3>3. Under(claimRange[e])' = IF claimRange[e] = b THEN 1 ELSE 0
        BY <1>1, <1>4 DEF Under, AtRange
      <3>. QED
        BY <1>1, <1>5, <2>1, <3>1, <3>2, <3>3 DEF Counted, Under, AtRange
    <2>2. \A e \in ClaimEvent : claimRange[e] = b =>
              e \in claimer'.todo \cup claimer'.passed
      BY <1>3, <1>4
    <2>3. \A e \in ClaimEvent :
              /\ claimRange[e] = 0 => missed[e] = 0
              /\ claimRange[e] # 0 => Counted(e)
      BY DEF ClaimsInv, RangesInv, Accounted, AccountOf
    <2>. QED
      BY <1>1, <1>4, <2>1, <2>2, <2>3 DEF Accounted, AccountOf, AtRange
  <1>8. RangesPast'
    <2>1. \A p \in Block : Published(p)' => Published(p)
      BY <1>1, <1>4, <1>5 DEF Published, AtRange
    <2>. QED
      BY <1>1, <2>1 DEF ClaimsInv, RangesInv, RangesPast, Unscanned, OnChain
  <1>. QED
    BY <1>6, <1>7, <1>8 DEF RangesInv

LEMMA Completed ==
  ASSUME IInv, ClaimsInv, CompleteRange
  PROVE  RangesInv'
PROOF
  <1>. USE DEF IInv, TypeOK, ClaimsTypeOK, ClaimsStored
  <1>1. /\ claimer.pc = "loop" /\ claimer.todo = {} /\ claimer.range \in Block
        /\ missed' = [e \in ClaimEvent |->
                          IF e \in claimer.passed THEN missed[e] + 1 ELSE missed[e]]
        /\ claimer'.pc = "idle"
        /\ UNCHANGED <<claimBlock, lastBlock, claimRange, copies, waiting, claims>>
    BY DEF CompleteRange, IdleClaimer
  <1>2. \A p : ~AtRange(p)'
    BY <1>1 DEF AtRange
  <1>3. \A e \in claimer.passed : claimRange[e] = claimer.range
    BY <1>1 DEF ClaimsInv, RangesInv, InHand
  <1>4. InHand'
    BY <1>1 DEF InHand
  <1>5. Accounted'
    <2>1. ASSUME NEW e \in ClaimEvent, claimRange[e] # 0
          PROVE  Counted(e)'
      <3>1. claimRange[e] \in Block /\ missed[e] \in Nat /\ waiting[claimRange[e]] \in Nat
        BY <2>1 DEF Block
      <3>2. Counted(e) /\ (AtRange(claimRange[e]) => e \in claims \cup claimer.passed)
        BY <1>1, <2>1 DEF ClaimsInv, RangesInv, Accounted, AccountOf
      <3>3. Under(claimRange[e])' = 0
        BY <1>1 DEF Under, AtRange
      <3>4. CASE AtRange(claimRange[e])
        <4>1. Under(claimRange[e]) = 1
          BY <3>4 DEF Under
        <4>. QED
          BY <1>1, <3>1, <3>2, <3>3, <3>4, <4>1 DEF Counted, Under, AtRange
      <3>5. CASE ~AtRange(claimRange[e])
        <4>1. Under(claimRange[e]) = 0 /\ e \notin claimer.passed
          BY <1>1, <1>3, <3>5 DEF Under, AtRange
        <4>. QED
          BY <1>1, <3>1, <3>2, <3>3, <4>1 DEF Counted, Under, AtRange
      <3>. QED
        BY <3>4, <3>5
    <2>2. \A e \in ClaimEvent : claimRange[e] = 0 => missed'[e] = 0
      BY <1>1, <1>3 DEF ClaimsInv, RangesInv, Accounted, AccountOf, Block
    <2>. QED
      BY <1>1, <2>1, <2>2 DEF Accounted, AccountOf, AtRange
  <1>6. RangesPast'
    <2>1. \A p \in Block : Published(p)' => Published(p)
      BY <1>1, <1>2 DEF Published
    <2>. QED
      BY <1>1, <2>1 DEF ClaimsInv, RangesInv, RangesPast, Unscanned, OnChain
  <1>. QED
    BY <1>4, <1>5, <1>6 DEF RangesInv

LEMMA ClaimerRanges ==
  ASSUME IInv, ClaimsInv, ClaimerStep \/ CrashClaimer
  PROVE  RangesInv' /\ MessagesKept /\ OnChain' = OnChain /\ claims' \subseteq OnChain
PROOF
  <1>. USE DEF IInv, TypeOK, ClaimsTypeOK, ClaimsStored
  <1>1. OnChain' = OnChain
    BY DEF ClaimerStep, TakeRange, NextClaim, SaveBlock, Throw, InsertClaim, PublishClaim,
           CompleteRange, CrashClaimer, OnChain
  <1>2. claims \subseteq OnChain /\ (AtClaim => claimer.event \in claimer.todo)
    BY DEF ClaimsInv, ClaimsOfDone, RangesInv, InHand, AtClaim
  <1>3. claimer.pc # "idle" =>
           /\ Onward.pc = "loop" /\ Onward.range = claimer.range
           /\ Onward.todo = claimer.todo \ {claimer.event} /\ Onward.passed = claimer.passed
           /\ Onward \in ClaimerState
    BY OnwardType
  <1>4. ASSUME NEW b \in Block, TakeRange(b)
        PROVE  RangesInv' /\ MessagesKept /\ claims' = claims
    BY <1>4, Taken DEF TakeRange, MessagesKept
  <1>5. ASSUME NEW e \in ClaimEvent, NextClaim(e)
        PROVE  RangesInv' /\ MessagesKept /\ claims' = claims
    <2>1. /\ claimer.pc = "loop" /\ e \in claimer.todo
          /\ claimer'.pc \in {"seeking", "dated"} /\ claimer'.event = e
          /\ claimer'.range = claimer.range /\ claimer'.todo = claimer.todo
          /\ claimer'.passed = claimer.passed
          /\ UNCHANGED <<claimBlock, lastBlock, claimRange, copies, waiting, missed, claims>>
      BY <1>5 DEF NextClaim, ClaimerState
    <2>2. RangesInv'
      BY <2>1, Handled
    <2>. QED
      BY <1>5, <2>1, <2>2 DEF NextClaim, MessagesKept
  <1>6. CASE SaveBlock
    <2>1. /\ claimer.pc = "seeking" /\ claimer.event \in claimer.todo
          /\ UNCHANGED <<claimBlock, lastBlock, claimRange, copies, waiting, missed, claims>>
      BY <1>2, <1>6 DEF SaveBlock, AtClaim
    <2>2. /\ claimer'.range = claimer.range
          /\ \/ /\ claimer'.pc = "loop" /\ claimer'.todo = claimer.todo \ {claimer.event}
                /\ claimer'.passed = claimer.passed \cup {claimer.event}
             \/ /\ claimer'.pc = "dated" /\ claimer'.todo = claimer.todo
                /\ claimer'.passed = claimer.passed /\ claimer'.event = claimer.event
      BY <1>3, <1>6, <2>1 DEF SaveBlock, ClaimerState
    <2>3. RangesInv'
      BY <2>1, <2>2, Handled DEF AtClaim
    <2>4. UNCHANGED <<markQueue, unannounced>>
      BY <1>6 DEF SaveBlock
    <2>5. MessagesKept
      BY <2>1, <2>4 DEF MessagesKept
    <2>. QED
      BY <1>1, <1>2, <2>1, <2>3, <2>5
  <1>7. CASE Throw
    <2>1. RangesInv'
      BY <1>7, Requeued DEF Throw
    <2>2. claimer.pc = "dated" /\ UNCHANGED <<claims, markQueue, unannounced>>
      BY <1>7 DEF Throw
    <2>3. MessagesKept
      BY <2>2 DEF MessagesKept
    <2>. QED
      BY <1>1, <1>2, <2>1, <2>2, <2>3
  <1>8. CASE InsertClaim
    <2>1. /\ claimer.pc = "dated" /\ claimer.event \in claimer.todo /\ claimer.event \in OnChain
          /\ claims' = claims \cup {claimer.event}
          /\ UNCHANGED <<claimBlock, lastBlock, claimRange, copies, waiting, missed, markQueue,
                         unannounced>>
      BY <1>2, <1>8 DEF InsertClaim, AtClaim
    <2>2. /\ claimer'.range = claimer.range /\ claimer'.passed = claimer.passed
          /\ \/ /\ claimer'.pc = "loop" /\ claimer'.todo = claimer.todo \ {claimer.event}
                /\ claimer.event \in claims
             \/ /\ claimer'.pc = "inserted" /\ claimer'.todo = claimer.todo
                /\ claimer'.event = claimer.event
      BY <1>3, <1>8, <2>1 DEF InsertClaim, ClaimerState
    <2>3. RangesInv'
      BY <2>1, <2>2, Handled DEF AtClaim
    <2>4. MessagesKept
      BY <2>1, <2>2 DEF MessagesKept
    <2>. QED
      BY <1>1, <1>2, <2>1, <2>3, <2>4
  <1>9. CASE PublishClaim
    <2>1. /\ claimer.pc = "inserted" /\ claimer.event \in claims
          /\ claimer'.pc = "loop" /\ claimer'.range = claimer.range
          /\ claimer'.todo = claimer.todo \ {claimer.event} /\ claimer'.passed = claimer.passed
          /\ UNCHANGED <<claimBlock, lastBlock, claimRange, copies, waiting, missed, claims>>
      BY <1>3, <1>9 DEF PublishClaim
    <2>2. RangesInv'
      BY <2>1, Handled DEF AtClaim
    <2>3. /\ markQueue \subseteq markQueue' /\ unannounced \subseteq unannounced'
          /\ claimer.event \in markQueue' \cup unannounced'
      BY <1>9 DEF PublishClaim
    <2>4. MessagesKept
      BY <2>1, <2>3 DEF MessagesKept
    <2>. QED
      BY <1>1, <1>2, <2>1, <2>2, <2>4
  <1>10. CASE CompleteRange
    <2>1. RangesInv'
      BY <1>10, Completed
    <2>2. claimer.pc = "loop" /\ UNCHANGED <<claims, markQueue, unannounced>>
      BY <1>10 DEF CompleteRange
    <2>3. MessagesKept
      BY <2>2 DEF MessagesKept
    <2>. QED
      BY <1>1, <1>2, <2>1, <2>2, <2>3
  <1>11. CASE CrashClaimer
    <2>1. RangesInv'
      BY <1>11, Requeued DEF CrashClaimer
    <2>2. /\ UNCHANGED <<claims, markQueue>>
          /\ unannounced' = IF claimer.pc = "inserted" THEN unannounced \cup {claimer.event}
                            ELSE unannounced
      BY <1>11 DEF CrashClaimer
    <2>3. MessagesKept
      BY <2>2 DEF MessagesKept
    <2>. QED
      BY <1>1, <1>2, <2>1, <2>2, <2>3
  <1>. QED
    BY <1>1, <1>2, <1>4, <1>5, <1>6, <1>7, <1>8, <1>9, <1>10, <1>11 DEF ClaimerStep

LEMMA StoreKeeps ==
  ASSUME IInv, ClaimsInv,
         \/ \E x \in WindowIndex : UploadWindow(x)
         \/ \E e \in ClaimEvent : ClaimOnChain(e)
         \/ StoreClaims
  PROVE  ClaimsInv'
PROOF
  <1>1. ClaimsAlone
    BY DEF UploadWindow, ClaimOnChain, StoreClaims, ClaimsAlone
  <1>2. claims \subseteq OnChain
    BY DEF ClaimsInv, ClaimsOfDone
  <1>3. CASE \E e \in ClaimEvent : ClaimOnChain(e)
    <2>1. PICK e \in ClaimEvent : ClaimOnChain(e)
      BY <1>3
    <2>2. RangesInv' /\ MessagesKept /\ OnChain \subseteq OnChain' /\ claims' = claims
      BY <2>1, OutsideRanges DEF ClaimOnChain
    <2>3. \A x \in OnChain' \ OnChain : x = e
      BY <2>1 DEF ClaimOnChain, Emit, OnChain, IInv, TypeOK, ClaimsTypeOK
    <2>4. \E r \in Request : job[r] = "Done" /\ Window[r] = e.window
      BY <2>1 DEF ClaimOnChain
    <2>5. EmittedGrows
      BY <1>2, <2>2, <2>3, <2>4 DEF EmittedGrows
    <2>. QED
      BY <1>1, <2>2, <2>5, ClaimsInvStep
  <1>4. CASE ClaimerStep \/ CrashClaimer
    <2>1. RangesInv' /\ MessagesKept /\ OnChain' = OnChain /\ claims' \subseteq OnChain
      BY <1>4, ClaimerRanges
    <2>2. EmittedGrows
      BY <2>1 DEF EmittedGrows
    <2>. QED
      BY <1>1, <2>1, <2>2, ClaimsInvStep
  <1>5. CASE \/ \E x \in WindowIndex : Upload(x)
             \/ \E n \in 0..Copies : PublishRange(n)
             \/ \E b \in Block : CacheBlock(b)
    <2>1. RangesInv' /\ MessagesKept /\ claims' = claims
      BY <1>5, OutsideRanges
    <2>2. OnChain' = OnChain
      BY <1>5 DEF Upload, PublishRange, CacheBlock, OnChain
    <2>3. EmittedGrows
      BY <1>2, <2>1, <2>2 DEF EmittedGrows
    <2>. QED
      BY <1>1, <2>1, <2>3, ClaimsInvStep
  <1>. QED
    BY <1>3, <1>4, <1>5 DEF UploadWindow, StoreClaims

LEMMA MarkClaims ==
  ASSUME IInv, ClaimsInv, NEW e \in ClaimEvent, MarkClaimed(e)
  PROVE  ClaimsInv'
PROOF
  <1>1. /\ markQueue' = markQueue \ {e}
        /\ reward' = [d \in Deposit |-> IF PaidBy(e, d) THEN [reward[d] EXCEPT !.claimed = TRUE]
                                        ELSE reward[d]]
        /\ UNCHANGED <<job, step, resaved, claimBlock, lastBlock, claimRange, copies, waiting,
                       claimer, missed, claims, unannounced>>
    BY DEF MarkClaimed, rebateVars, jobVars
  <1>2. ASSUME NEW d \in Deposit
        PROVE  /\ reward'[d].window = reward[d].window
               /\ reward[d].claimed => reward'[d].claimed
               /\ PaidBy(e, d) => reward'[d].claimed
    BY <1>1 DEF IInv, TypeOK, Reward
  <1>3. DoneIsOver' /\ NoJobYet'
    BY <1>1 DEF ClaimsInv, DoneIsOver, NoJobYet
  <1>4. ClaimsOfDone'
    BY <1>1 DEF ClaimsInv, ClaimsOfDone, OnChain
  <1>5. RangesInv'
    BY <1>1, RangesUntouched DEF ClaimsInv
  <1>6. AnnouncedMarked'
    <2>. SUFFICES ASSUME NEW x \in claims, AskedOnce(x.window),
                         x \notin markQueue',
                         ~(claimer.pc = "inserted" /\ claimer.event = x),
                         x \notin unannounced,
                         NEW d \in Deposit \ resaved,
                         Recipient[d] = x.account, reward'[d].window = x.window
                  PROVE  reward'[d].claimed
      BY <1>1 DEF AnnouncedMarked, PaidBy, AskedOnce
    <2>1. PaidBy(x, d)
      BY <1>2 DEF PaidBy
    <2>2. CASE x = e
      BY <1>2, <2>1, <2>2
    <2>3. CASE x # e
      <3>1. x \notin markQueue
        BY <1>1, <2>3
      <3>. QED
        BY <1>2, <2>1, <3>1 DEF ClaimsInv, AnnouncedMarked
    <2>. QED
      BY <2>2, <2>3
  <1>. QED
    BY <1>3, <1>4, <1>5, <1>6 DEF ClaimsInv

\* The window of a claim is of a job that is done: no other transaction fills it.
LEMMA AssignClaims ==
  ASSUME IInv, ClaimsInv, NEW q \in Request, AssignWindow(q)
  PROVE  ClaimsInv'
PROOF
  <1>1. /\ step[q] = "free"
        /\ reward' = [d \in Deposit |-> IF Assignable(reward[d], d, q)
                                        THEN [reward[d] EXCEPT !.window = Window[q]]
                                        ELSE reward[d]]
        /\ UNCHANGED <<resaved, claimVars>>
    BY DEF AssignWindow, CommitWindow, rebateVars
  <1>2. ASSUME NEW e \in claims, AskedOnce(e.window)
        PROVE  Window[q] # e.window
    <2>1. PICK r \in Request : job[r] = "Done" /\ Window[r] = e.window
      BY DEF ClaimsInv, ClaimsOfDone
    <2>2. r # q
      BY <1>1, <2>1 DEF ClaimsInv, DoneIsOver
    <2>. QED
      BY <1>2, <2>1, <2>2 DEF AskedOnce
  <1>3. ASSUME NEW d \in Deposit
        PROVE  reward'[d] = reward[d] \/ reward'[d].window = Window[q]
    BY <1>1 DEF IInv, TypeOK, Reward
  <1>4. \A e \in claims, d \in Deposit \ resaved' : AskedOnce(e.window) =>
            /\ d \notin resaved
            /\ reward'[d].window = e.window => reward'[d] = reward[d]
    BY <1>1, <1>2, <1>3
  <1>. QED
    BY <1>1, <1>4, JobStepKeeps, ClaimsKept DEF ClaimsInv

LEMMA ClaimsStep == IInv /\ ClaimsInv /\ [Next]_vars => ClaimsInv'
PROOF
  <1>. SUFFICES ASSUME IInv, ClaimsInv, [Next]_vars
                PROVE  ClaimsInv'
    OBVIOUS
  <1>1. ASSUME UNCHANGED <<claimVars, reward, resaved>>,
               DoneIsOver' /\ NoJobYet',
               \A r \in Request : job[r] = "Done" => job'[r] = "Done"
        PROVE  ClaimsInv'
    BY <1>1, ClaimsKept
  <1>2. ASSUME UNCHANGED <<claimVars, reward, resaved, job, step>>
        PROVE  ClaimsInv'
    BY <1>1, <1>2, JobsUntouched DEF ClaimsInv
  <1>3. ASSUME NEW d \in Deposit,
               (\E f \in Fee[d] : BreakFees(d, f)) \/ SendRebate(d) \/ LoseRebate(d)
        PROVE  ClaimsInv'
    BY <1>2, <1>3 DEF BreakFees, SendRebate, LoseRebate, jobVars
  <1>4. ASSUME NEW w \in Worker, RebateStep(w) \/ CrashRebate(w)
        PROVE  ClaimsInv'
    <2>1. CASE CrashRebate(w)
      BY <1>2, <2>1 DEF CrashRebate
    <2>2. CASE (\E d \in Deposit : TakeRebate(w, d)) \/ ReadReward(w) \/ LoadReward(w)
      BY <1>2, <2>2 DEF TakeRebate, ReadReward, LoadReward, jobVars
    <2>3. CASE SaveReward(w)
      <3>1. UNCHANGED <<job, step, claimVars>>
        BY <2>3 DEF SaveReward, jobVars
      <3>2. \A e \in claims, d \in Deposit \ resaved' :
                /\ d \notin resaved
                /\ reward'[d].window = e.window => reward'[d] = reward[d]
        <4>1. \A e \in claims : e.window # 0
          BY WindowNotZero DEF IInv, TypeOK, ClaimsTypeOK, ClaimEvent
        <4>2. \A d \in Deposit \ resaved' :
                  d \notin resaved /\ (reward'[d] = reward[d] \/ reward'[d].window = 0)
          BY <2>3, SaveKeeps
        <4>. QED
          BY <4>1, <4>2
      <3>. QED
        BY <3>1, <3>2, JobsUntouched, ClaimsKept DEF ClaimsInv
    <2>. QED
      BY <1>4, <2>1, <2>2, <2>3 DEF RebateStep
  <1>5. ASSUME NEW r \in Request, WindowStep(r)
        PROVE  ClaimsInv'
    <2>1. CASE AssignWindow(r)
      BY <2>1, AssignClaims
    <2>2. CASE RequestStep(r) \/ CheckOpWindow(r)
      <3>1. UNCHANGED <<claimVars, reward, resaved>>
        BY <2>2 DEF RequestStep, CheckOpWindow, rebateVars
      <3>2. /\ DoneIsOver' /\ NoJobYet'
            /\ \A q \in Request : job[q] = "Done" => job'[q] = "Done"
        BY <2>2, JobStepKeeps DEF ClaimsInv, RequestStep
      <3>. QED
        BY <1>1, <3>1, <3>2
    <2>. QED
      BY <1>5, <2>1, <2>2 DEF WindowStep
  <1>6. ASSUME NEW x \in WindowIndex, UploadWindow(x)
        PROVE  ClaimsInv'
    BY <1>6, StoreKeeps
  <1>7. ASSUME NEW e \in ClaimEvent, ClaimOnChain(e) \/ MarkClaimed(e)
        PROVE  ClaimsInv'
    BY <1>7, StoreKeeps, MarkClaims
  <1>8. CASE StoreClaims
    BY <1>8, StoreKeeps
  <1>9. CASE UNCHANGED vars
    BY <1>2, <1>9 DEF vars, jobVars, rebateVars
  <1>. QED
    BY <1>3, <1>4, <1>5, <1>6, <1>7, <1>8, <1>9 DEF Next

LEMMA ClaimsInvariant == Spec => [](IInv /\ ClaimsInv)
PROOF
  <1>1. Init => ClaimsInv
    BY DEF Init, JobsInit, ClaimsInit, ClaimsInv, DoneIsOver, NoJobYet, ClaimsOfDone, OnChain,
           RangesInv, InHand, AtClaim, Accounted, AccountOf, AtRange, RangesPast, Published,
           Unscanned, AnnouncedMarked, IdleClaimer, Block
  <1>. QED
    BY <1>1, ClaimsStep, Invariance, PTL DEF Spec

(***************************************************************************)
(* What becomes of a claim that the contract emits, whatever the retries   *)
(* and the deaths, the refusals and the blocks left out: it is stored, or  *)
(* a range that holds it is still to be published, delivered or worked     *)
(* off, unless each message of its range has ended in a job that passed it *)
(* over.  A job that stops at another claim of the range is none of those. *)
(***************************************************************************)
THEOREM ClaimsNeverLost == Spec => []EmittedKept
PROOF
  <1>1. IInv /\ ClaimsInv => EmittedKept
    <2>. SUFFICES ASSUME IInv, ClaimsInv, NEW e \in OnChain, e \notin claims,
                         claimRange[e] # 0, ~(waiting[claimRange[e]] > 0),
                         ~(claimer.pc # "idle" /\ e \in claimer.todo \cup claimer.passed)
                  PROVE  PassedOver(e)
      BY DEF EmittedKept
    <2>1. e \in ClaimEvent /\ claimRange[e] \in Block
      BY DEF OnChain, Block, IInv, TypeOK, ClaimsTypeOK
    <2>2. waiting[claimRange[e]] = 0 /\ missed[e] \in Nat
      BY <2>1 DEF IInv, TypeOK, ClaimsTypeOK
    <2>3. Counted(e) /\ ~AtRange(claimRange[e])
      BY <2>1 DEF ClaimsInv, RangesInv, Accounted, AccountOf, AtRange
    <2>4. Under(claimRange[e]) = 0
      BY <2>3 DEF Under
    <2>. QED
      BY <2>2, <2>3, <2>4 DEF Counted, PassedOver
  <1>. QED
    BY <1>1, ClaimsInvariant, PTL

(***************************************************************************)
(* The safety of ClaimsMarked: a stored claim of a window that one request *)
(* asks for marks every reward of its account there, unless it has yet to  *)
(* be announced or processed, a death lost the announcement, or a save     *)
(* changed the reward.  With two requests for one window both may find the *)
(* index free, and the second commit fills a window claimed already.       *)
(***************************************************************************)
THEOREM StoredClaimsMark == Spec => []AnnouncedMarked
PROOF
  <1>1. ClaimsInv => AnnouncedMarked
    BY DEF ClaimsInv
  <1>. QED
    BY <1>1, ClaimsInvariant, PTL

----------------------------------------------------------------------------
\* A job that is stuck refuses every request that has not begun, and stays stuck.
LEMMA RefusedStays ==
  ASSUME NEW r \in Request
  PROVE  IInv /\ Refused(r) /\ [Next]_vars => Refused(r)'
PROOF
  <1>. SUFFICES ASSUME IInv, Refused(r), [Next]_vars
                PROVE  Refused(r)'
    OBVIOUS
  <1>1. PICK s \in Request : step[s] = "dead" /\ job[s] = "Initial"
    BY DEF Refused, StuckJob
  <1>2. job \in [Request -> Status] /\ step \in [Request -> StepName]
    BY DEF IInv, TypeOK, JobsTypeOK
  <1>3. ASSUME UNCHANGED <<job, step>>
        PROVE  Refused(r)'
    BY <1>3 DEF Refused, StuckJob
  <1>4. ASSUME NEW q \in Request, WindowStep(q)
        PROVE  Refused(r)'
    <2>1. q # s
      BY <1>1, <1>4 DEF WindowStep, RequestStep, JobStep, ReadJobs, InsertJob, MarkInProgress,
                        EndJob, Die, CheckOpWindow, CheckWindow, AssignWindow, CommitWindow
    <2>2. q = r => ReadJobs(q)
      BY <1>4 DEF WindowStep, RequestStep, JobStep, InsertJob, MarkInProgress, EndJob, Die,
                  CheckOpWindow, CheckWindow, AssignWindow, CommitWindow, Refused
    <2>3. /\ \A x \in Request : x # q => step'[x] = step[x] /\ job'[x] = job[x]
          /\ q = r => step'[q] = "over" /\ job'[q] = job[q]
      <3>1. CASE ReadJobs(q)
        <4>1. Blocked(q)
          BY <1>1 DEF Blocked
        <4>. QED
          BY <1>2, <3>1, <4>1 DEF ReadJobs
      <3>2. CASE InsertJob(q)
        BY <1>2, <2>2, <3>2 DEF InsertJob, ReadJobs
      <3>3. CASE MarkInProgress(q)
        BY <1>2, <2>2, <3>3 DEF MarkInProgress, ReadJobs
      <3>4. CASE EndJob(q)
        BY <1>2, <2>2, <3>4 DEF EndJob, ReadJobs
      <3>5. CASE Die(q)
        BY <1>2, <2>2, <3>5 DEF Die, ReadJobs
      <3>6. CASE CheckOpWindow(q)
        BY <1>2, <2>2, <3>6 DEF CheckOpWindow, CheckWindow, ReadJobs
      <3>7. CASE AssignWindow(q)
        BY <1>2, <2>2, <3>7 DEF AssignWindow, CommitWindow, ReadJobs
      <3>. QED
        BY <1>4, <3>1, <3>2, <3>3, <3>4, <3>5, <3>6, <3>7 DEF WindowStep, RequestStep, JobStep
    <2>. QED
      BY <1>1, <2>1, <2>3 DEF Refused, StuckJob
  <1>5. ASSUME NEW d \in Deposit,
               (\E f \in Fee[d] : BreakFees(d, f)) \/ SendRebate(d) \/ LoseRebate(d)
        PROVE  Refused(r)'
    BY <1>3, <1>5 DEF BreakFees, SendRebate, LoseRebate, jobVars
  <1>6. ASSUME NEW w \in Worker, RebateStep(w) \/ CrashRebate(w)
        PROVE  Refused(r)'
    BY <1>3, <1>6 DEF RebateStep, TakeRebate, ReadReward, LoadReward, SaveReward, CrashRebate,
                      jobVars
  <1>7. ASSUME NEW x \in WindowIndex, UploadWindow(x)
        PROVE  Refused(r)'
    BY <1>3, <1>7 DEF UploadWindow
  <1>8. ASSUME NEW e \in ClaimEvent, ClaimOnChain(e) \/ MarkClaimed(e)
        PROVE  Refused(r)'
    BY <1>3, <1>8 DEF ClaimOnChain, MarkClaimed, jobVars
  <1>9. CASE StoreClaims
    BY <1>3, <1>9 DEF StoreClaims
  <1>10. CASE UNCHANGED vars
    BY <1>3, <1>10 DEF vars, jobVars
  <1>. QED
    BY <1>4, <1>5, <1>6, <1>7, <1>8, <1>9, <1>10 DEF Next

(***************************************************************************)
(* A process that dies between the insert of a job and its first update    *)
(* leaves it Initial, and nothing ever ends it: no request that comes      *)
(* after gets a job of this type, whatever window it asks for.             *)
(***************************************************************************)
THEOREM StuckJobBlocks ==
  ASSUME NEW r \in Request
  PROVE  Spec => [](StuckJob /\ step[r] = "new" => [](job[r] = "none"))
PROOF
  <1>1. ClaimsInv /\ StuckJob /\ step[r] = "new" => Refused(r)
    BY DEF ClaimsInv, NoJobYet, Refused
  <1>2. Refused(r) => job[r] = "none"
    BY DEF Refused
  <1>3. IInv /\ Refused(r) /\ [Next]_vars => Refused(r)'
    BY RefusedStays
  <1>. QED
    BY <1>1, <1>2, <1>3, ClaimsInvariant, PTL DEF Spec
=============================================================================
