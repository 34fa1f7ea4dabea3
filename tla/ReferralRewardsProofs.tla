----------------------- MODULE ReferralRewardsProofs -----------------------
(***************************************************************************)
(* No deposit is paid by two windows that could have known of each other,  *)
(* for any requests, deposits, referrers and claims.                       *)
(*                                                                         *)
(* PaidOnce follows from what a job saw: the windows of the commits it saw *)
(* were in the rows it read (SawWindows), because they are in the view     *)
(* that reflects them (ViewHasWindows), because they are in the deposits   *)
(* until a revert (PaidHasWindow).                                         *)
(***************************************************************************)
EXTENDS ReferralRewards, FiniteSetTheorems, TLAPS

\* The types of the jobs of the windows.
LEMMA JobsInitType == JobsInit => JobsTypeOK
  BY JobAssumption DEF JobsInit, JobsTypeOK, Status, StepName

LEMMA JobStepType ==
  ASSUME JobsTypeOK, NEW r \in Request, JobStep(r)
  PROVE  JobsTypeOK'
PROOF
  <1>1. CASE ReadJobs(r)
    <2>1. step' \in [Request -> StepName]
      BY <1>1 DEF ReadJobs, JobsTypeOK, StepName
    <2>2. began' \in Seq(Request)
      BY <1>1 DEF ReadJobs, JobsTypeOK
    <2>. QED
      BY <1>1, <2>1, <2>2 DEF ReadJobs, JobsTypeOK
  <1>2. CASE InsertJob(r)
    BY <1>2 DEF InsertJob, JobsTypeOK, Status, StepName
  <1>3. CASE MarkInProgress(r)
    BY <1>3 DEF MarkInProgress, JobsTypeOK, Status, StepName
  <1>4. CASE EndJob(r)
    BY <1>4 DEF EndJob, JobsTypeOK, Status, StepName
  <1>5. CASE Die(r)
    BY <1>5, JobAssumption DEF Die, JobsTypeOK, StepName
  <1>. QED
    BY <1>1, <1>2, <1>3, <1>4, <1>5 DEF JobStep

LEMMA WindowStepType ==
  ASSUME JobsTypeOK, NEW r \in Request
  PROVE  /\ \A taken \in BOOLEAN : CheckWindow(r, taken) => JobsTypeOK'
         /\ CommitWindow(r) => JobsTypeOK'
  BY DEF CheckWindow, CommitWindow, JobsTypeOK, StepName

----------------------------------------------------------------------------
PaidHasWindow ==
    \A r \in Request, d \in Deposit : Paid(r, d) /\ d \notin reverted => window[d] # 0

ViewHasWindows ==
    \A r \in viewed, d \in Deposit :
        Paid(r, d) /\ d \notin reverted => view[d] = Unread \/ view[d].window # 0

CommittedHasRows == \A r \in committed : rows[r] # Unread

SawWindows ==
    \A r, s \in Request, d \in Deposit :
        /\ r # s
        /\ r \in saw[s]
        /\ rows[s] # Unread
        /\ rows[s][d] # Unread
        /\ Paid(r, d)
        => d \in reverted

WindowsInv == PaidHasWindow /\ ViewHasWindows /\ CommittedHasRows /\ SawWindows

IInv == TypeOK /\ WindowsInv

LEMMA InvPaidOnce == IInv => PaidOnce
PROOF
  <1>. SUFFICES ASSUME IInv, NEW d \in Deposit, NEW r1 \in Request, NEW r2 \in Request,
                       Paid(r1, d), Paid(r2, d), r1 # r2, d \notin reverted
                PROVE  r1 \notin saw[r2] /\ r2 \notin saw[r1]
    BY DEF PaidOnce
  <1>1. rows[r1] # Unread /\ rows[r1][d] # Unread /\ rows[r2] # Unread /\ rows[r2][d] # Unread
    BY DEF IInv, WindowsInv, CommittedHasRows, Paid
  <1>. QED
    BY <1>1 DEF IInv, WindowsInv, SawWindows

LEMMA InitInv == Init => IInv
PROOF
  <1>. SUFFICES ASSUME Init PROVE IInv
    OBVIOUS
  <1>1. TypeOK
    BY JobsInitType, RewardsAssumption DEF Init, TypeOK
  <1>2. WindowsInv
    BY DEF Init, WindowsInv, PaidHasWindow, ViewHasWindows, CommittedHasRows, SawWindows, Paid
  <1>. QED
    BY <1>1, <1>2 DEF IInv

----------------------------------------------------------------------------
\* The counts and the rates.
LEMMA CountedType ==
  ASSUME TypeOK
  PROVE  Counted \in [Deposit -> Nat]
PROOF
  <1>1. ASSUME NEW d \in Deposit PROVE ReferralCount(d) \in Nat
    <2>. DEFINE S == {x \in Filtered : ~Claimed(x) /\ sticky[x] = sticky[d] /\ Date[x] <= Date[d]}
    <2>1. S \subseteq Deposit
      BY DEF Filtered
    <2>2. IsFiniteSet(S)
      BY <2>1, RewardsAssumption, FS_Subset
    <2>3. IsFiniteSet({Depositor[e] : e \in S})
      <3>. DEFINE f == [e \in S |-> Depositor[e]]
                  T == {Depositor[e] : e \in S}
      <3>1. f \in [S -> T]
        OBVIOUS
      <3>2. \A t \in T : \E e \in S : f[e] = t
        OBVIOUS
      <3>3. f \in Surjection(S, T)
        BY <3>1, <3>2 DEF Surjection
      <3>. HIDE DEF S, T, f
      <3>. QED
        BY <2>2, <3>3, FS_Surjection DEF T
    <2>. QED
      BY <2>3, FS_CardinalityType DEF ReferralCount
  <1>. QED
    BY <1>1 DEF Counted, TypeOK

LEMMA TierType ==
  ASSUME NEW n \in Nat
  PROVE  Tier(n) \in 1..(1 + Cardinality(Thresholds))
PROOF
  <1>. DEFINE S == {t \in Thresholds : n >= t}
  <1>1. S \subseteq Thresholds /\ IsFiniteSet(Thresholds)
    BY RewardsAssumption
  <1>2. /\ Cardinality(S) \in Nat
        /\ Cardinality(Thresholds) \in Nat
        /\ Cardinality(S) <= Cardinality(Thresholds)
    <2>1. IsFiniteSet(S) /\ Cardinality(S) <= Cardinality(Thresholds)
      BY <1>1, FS_Subset
    <2>. QED
      BY <1>1, <2>1, FS_CardinalityType
  <1>. HIDE DEF S
  <1>3. Tier(n) = 1 + Cardinality(S)
    BY DEF Tier, S
  <1>. QED
    BY <1>2, <1>3

LEMMA ViewNowType ==
  ASSUME TypeOK
  PROVE  ViewNow \in [Deposit -> Row \cup {Unread}]
PROOF
  <1>1. ASSUME NEW d \in Filtered
        PROVE  [referrer |-> sticky[d], tier |-> Tier(stat[d]), window |-> window[d]] \in Row
    <2>1. sticky[d] \in Account /\ stat[d] \in Nat /\ window[d] \in WindowIndex \cup {0}
      BY DEF Filtered, TypeOK
    <2>2. Tier(stat[d]) \in 1..(1 + Cardinality(Thresholds))
      BY <2>1, TierType
    <2>. QED
      BY <2>1, <2>2 DEF Row
  <1>. QED
    BY <1>1 DEF ViewNow

----------------------------------------------------------------------------
\* The actions that leave alone what WindowsInv is about.
LEMMA WindowsKept ==
  ASSUME WindowsInv, UNCHANGED <<view, viewed, windowVars, reverted>>
  PROVE  WindowsInv'
  BY DEF windowVars, WindowsInv, PaidHasWindow, ViewHasWindows, CommittedHasRows, SawWindows, Paid

LEMMA ReferInv ==
  ASSUME IInv, NEW d \in Deposit, NEW a \in Referrers \cup {NoOne}, Refer(d, a)
  PROVE  IInv'
PROOF
  <1>1. JobsTypeOK'
    BY DEF IInv, TypeOK, Refer, jobVars, JobsTypeOK
  <1>2. TypeOK'
    BY <1>1, RewardsAssumption DEF IInv, TypeOK, Refer, statVars, windowVars
  <1>3. WindowsInv'
    BY WindowsKept DEF IInv, Refer, statVars
  <1>. QED
    BY <1>2, <1>3 DEF IInv

LEMMA CronInv ==
  ASSUME IInv, CronStep
  PROVE  IInv'
PROOF
  <1>1. UNCHANGED <<jobVars, stickyVars, windowVars, claims, reverted>>
        /\ cron' \in {"idle", "stats", "refresh"}
    BY DEF CronStep, StartCrons, ComputeStats, RefreshView, CronFails
  <1>2. JobsTypeOK'
    BY <1>1 DEF IInv, TypeOK, jobVars, JobsTypeOK
  <1>3. CASE StartCrons \/ CronFails \/ ComputeStats
    <2>1. stat' \in [Deposit -> Nat] /\ UNCHANGED <<view, viewed>>
      BY <1>3, CountedType DEF IInv, TypeOK, StartCrons, CronFails, ComputeStats
    <2>2. TypeOK'
      BY <1>1, <1>2, <2>1 DEF IInv, TypeOK, stickyVars, windowVars
    <2>3. WindowsInv'
      BY <1>1, <2>1, WindowsKept DEF IInv
    <2>. QED
      BY <2>2, <2>3 DEF IInv
  <1>4. CASE RefreshView
    <2>1. view' = ViewNow /\ viewed' = committed /\ stat' = stat
      BY <1>4 DEF RefreshView
    <2>2. TypeOK'
      BY <1>1, <1>2, <2>1, ViewNowType DEF IInv, TypeOK, stickyVars, windowVars
    <2>3. ViewHasWindows'
      <3>1. ASSUME NEW r \in committed, NEW d \in Deposit, Paid(r, d), d \notin reverted,
                   ViewNow[d] # Unread
            PROVE  ViewNow[d].window # 0
        <4>1. window[d] # 0
          BY <3>1 DEF IInv, TypeOK, WindowsInv, PaidHasWindow
        <4>2. ViewNow[d] = [referrer |-> sticky[d], tier |-> Tier(stat[d]), window |-> window[d]]
          BY <3>1 DEF ViewNow
        <4>. QED
          BY <4>1, <4>2
      <3>. QED
        BY <1>1, <2>1, <3>1 DEF ViewHasWindows, Paid, windowVars
    <2>4. PaidHasWindow' /\ CommittedHasRows' /\ SawWindows'
      BY <1>1 DEF IInv, WindowsInv, PaidHasWindow, CommittedHasRows, SawWindows, Paid, windowVars
    <2>. QED
      BY <2>2, <2>3, <2>4 DEF IInv, WindowsInv
  <1>. QED
    BY <1>3, <1>4 DEF CronStep

LEMMA RequestInv ==
  ASSUME IInv, NEW r \in Request, RequestStep(r) \/ CheckReferralWindow(r)
  PROVE  IInv'
PROOF
  <1>1. UNCHANGED <<stickyVars, statVars, windowVars, claims, reverted>>
    BY DEF RequestStep, CheckReferralWindow
  <1>2. JobsTypeOK'
    BY JobStepType, WindowStepType DEF IInv, TypeOK, RequestStep, CheckReferralWindow
  <1>3. TypeOK'
    BY <1>1, <1>2 DEF IInv, TypeOK, stickyVars, statVars, windowVars
  <1>4. WindowsInv'
    BY <1>1, WindowsKept DEF IInv, statVars
  <1>. QED
    BY <1>3, <1>4 DEF IInv

\* A job that has not read the view has not committed, and what it pays is without a window
\* in the view, so that it is not paid by what the view reflects.
LEMMA ReadViewInv ==
  ASSUME IInv, NEW r \in Request, ReadView(r)
  PROVE  IInv'
PROOF
  <1>. DEFINE read == [d \in Deposit |-> IF Payable(d, r) THEN view[d] ELSE Unread]
  <1>1. /\ rows' = [rows EXCEPT ![r] = read]
        /\ saw' = [saw EXCEPT ![r] = viewed]
        /\ UNCHANGED <<jobVars, stickyVars, statVars, window, committed, claims, reverted>>
    BY DEF ReadView
  <1>2. r \notin committed
    BY DEF ReadView, IInv, WindowsInv, CommittedHasRows
  <1>3. JobsTypeOK'
    BY <1>1 DEF IInv, TypeOK, jobVars, JobsTypeOK
  <1>4. read \in [Deposit -> Row \cup {Unread}]
    BY DEF IInv, TypeOK
  <1>5. TypeOK'
    BY <1>1, <1>3, <1>4 DEF IInv, TypeOK, stickyVars, statVars
  <1>6. ASSUME NEW s \in committed PROVE rows'[s] = rows[s]
    BY <1>1, <1>2, <1>6 DEF IInv, TypeOK
  <1>7. \A s \in Request, d \in Deposit : Paid(s, d)' <=> Paid(s, d)
    BY <1>1, <1>6 DEF Paid
  <1>8. PaidHasWindow' /\ CommittedHasRows'
    BY <1>1, <1>6, <1>7 DEF IInv, WindowsInv, PaidHasWindow, CommittedHasRows
  <1>9. ViewHasWindows'
    BY <1>1, <1>7 DEF IInv, TypeOK, WindowsInv, ViewHasWindows, statVars
  <1>10. SawWindows'
    <2>. SUFFICES ASSUME NEW p \in Request, NEW s \in Request, NEW d \in Deposit, p # s,
                         p \in saw'[s], rows'[s] # Unread, rows'[s][d] # Unread, Paid(p, d)',
                         d \notin reverted
                  PROVE  FALSE
      BY <1>1 DEF SawWindows
    <2>1. CASE s # r
      <3>1. rows'[s] = rows[s] /\ saw'[s] = saw[s]
        BY <1>1, <2>1 DEF IInv, TypeOK
      <3>. QED
        BY <1>7, <3>1 DEF IInv, WindowsInv, SawWindows
    <2>2. CASE s = r
      <3>1. p \in viewed /\ rows'[s] = read
        BY <1>1, <2>2 DEF IInv, TypeOK
      <3>2. view[d] # Unread /\ view[d].window = 0
        BY <3>1 DEF Payable
      <3>. QED
        BY <1>7, <3>1, <3>2 DEF IInv, WindowsInv, ViewHasWindows
    <2>. QED
      BY <2>1, <2>2
  <1>. QED
    BY <1>5, <1>8, <1>9, <1>10 DEF IInv, WindowsInv

LEMMA CommitInv ==
  ASSUME IInv, NEW r \in Request, CommitReferralWindow(r)
  PROVE  IInv'
PROOF
  <1>1. /\ rows[r] # Unread
        /\ window' = [d \in Deposit |-> IF rows[r][d] # Unread THEN Window[r] ELSE window[d]]
        /\ committed' = committed \cup {r}
        /\ UNCHANGED <<stickyVars, statVars, rows, saw, claims, reverted>>
    BY DEF CommitReferralWindow
  <1>2. JobsTypeOK'
    BY WindowStepType DEF IInv, TypeOK, CommitReferralWindow
  <1>3. Window[r] \in WindowIndex /\ Window[r] # 0
    BY JobAssumption DEF WindowIndex
  <1>4. TypeOK'
    BY <1>1, <1>2, <1>3 DEF IInv, TypeOK, stickyVars, statVars
  <1>5. PaidHasWindow'
    BY <1>1, <1>3 DEF IInv, WindowsInv, PaidHasWindow, Paid
  <1>6. \A s \in viewed : s \in committed
    BY DEF IInv, TypeOK
  <1>7. ViewHasWindows'
    BY <1>1, <1>6 DEF IInv, WindowsInv, ViewHasWindows, Paid, statVars
  <1>8. CommittedHasRows'
    BY <1>1 DEF IInv, WindowsInv, CommittedHasRows
  <1>9. \A p, s \in Request : p \in saw[s] => p \in committed
    BY DEF IInv, TypeOK
  <1>10. SawWindows'
    BY <1>1, <1>9 DEF IInv, WindowsInv, SawWindows, Paid
  <1>. QED
    BY <1>4, <1>5, <1>7, <1>8, <1>10 DEF IInv, WindowsInv

LEMMA RevertInv ==
  ASSUME IInv, NEW x \in WindowIndex, Revert(x)
  PROVE  IInv'
PROOF
  <1>1. /\ window' = [d \in Deposit |-> IF window[d] = x THEN 0 ELSE window[d]]
        /\ reverted' = reverted \cup {d \in Deposit : window[d] = x}
        /\ UNCHANGED <<jobVars, stickyVars, statVars, rows, committed, saw, claims>>
    BY DEF Revert
  <1>2. JobsTypeOK'
    BY <1>1 DEF IInv, TypeOK, jobVars, JobsTypeOK
  <1>3. TypeOK'
    BY <1>1, <1>2 DEF IInv, TypeOK, stickyVars, statVars
  <1>4. PaidHasWindow'
    BY <1>1 DEF IInv, WindowsInv, PaidHasWindow, Paid
  <1>5. ViewHasWindows' /\ CommittedHasRows' /\ SawWindows'
    BY <1>1 DEF IInv, WindowsInv, ViewHasWindows, CommittedHasRows, SawWindows, Paid, statVars
  <1>. QED
    BY <1>3, <1>4, <1>5 DEF IInv, WindowsInv

LEMMA ClaimInv ==
  ASSUME IInv, NEW r \in Request, NEW a \in Account, NEW t \in ClaimDates, InsertClaim(r, a, t)
  PROVE  IInv'
PROOF
  <1>1. UNCHANGED <<jobVars, stickyVars, statVars, windowVars, reverted>>
        /\ claims' = claims \cup {[account |-> a, window |-> Window[r], at |-> t]}
    BY DEF InsertClaim
  <1>2. [account |-> a, window |-> Window[r], at |-> t] \in ClaimRow
    BY RewardsAssumption DEF ClaimRow, WindowIndex
  <1>3. JobsTypeOK'
    BY <1>1 DEF IInv, TypeOK, jobVars, JobsTypeOK
  <1>4. TypeOK'
    BY <1>1, <1>2, <1>3 DEF IInv, TypeOK, stickyVars, statVars, windowVars
  <1>5. WindowsInv'
    BY <1>1, WindowsKept DEF IInv, statVars
  <1>. QED
    BY <1>4, <1>5 DEF IInv

----------------------------------------------------------------------------
LEMMA StepInv == IInv /\ [Next]_vars => IInv'
PROOF
  <1>. SUFFICES ASSUME IInv, [Next]_vars
                PROVE  IInv'
    OBVIOUS
  <1>1. CASE \E d \in Deposit, a \in Referrers \cup {NoOne} : Refer(d, a)
    BY <1>1, ReferInv
  <1>2. CASE CronStep
    BY <1>2, CronInv
  <1>3. CASE \E r \in Request : WindowStep(r)
    BY <1>3, RequestInv, ReadViewInv, CommitInv DEF WindowStep
  <1>4. CASE \E x \in WindowIndex : Revert(x)
    BY <1>4, RevertInv
  <1>5. CASE \E r \in Request, a \in Account, t \in ClaimDates : InsertClaim(r, a, t)
    BY <1>5, ClaimInv
  <1>6. CASE UNCHANGED vars
    <2>1. TypeOK'
      BY <1>6 DEF IInv, TypeOK, JobsTypeOK, vars, jobVars, stickyVars, statVars, windowVars
    <2>2. WindowsInv'
      BY <1>6, WindowsKept DEF IInv, vars, statVars
    <2>. QED
      BY <2>1, <2>2 DEF IInv
  <1>. QED
    BY <1>1, <1>2, <1>3, <1>4, <1>5, <1>6 DEF Next

(***************************************************************************)
(* The jobs, the counts, the view and the claims keep their types: counts  *)
(* are numbers and rates are among those the thresholds give.              *)
(***************************************************************************)
THEOREM TypeCorrect == Spec => []TypeOK
PROOF
  <1>1. IInv => TypeOK
    BY DEF IInv
  <1>. QED
    BY <1>1, InitInv, StepInv, PTL DEF Spec

(***************************************************************************)
(* Two windows pay for one deposit only if neither job's view was as new   *)
(* as the other's commit, or a revert took the deposit out of its window.  *)
(***************************************************************************)
THEOREM DepositsPaidOnce == Spec => []PaidOnce
  BY InvPaidOnce, InitInv, StepInv, PTL DEF Spec

(***************************************************************************)
(* A claim settles the rate of the deposits before it: no step changes the *)
(* count of a claimed deposit, whatever is referred, claimed or reverted.  *)
(***************************************************************************)
THEOREM ClaimsSettle == Spec => ClaimSettles
PROOF
  <1>1. ASSUME TypeOK, [Next]_vars, NEW d \in Deposit, Claimed(d)
        PROVE  stat'[d] = stat[d]
    <2>1. CASE ComputeStats
      BY <1>1, <2>1 DEF ComputeStats, Counted
    <2>2. CASE stat' = stat
      BY <2>2
    <2>. QED
      BY <1>1, <2>1, <2>2 DEF Next, CronStep, StartCrons, RefreshView, CronFails, Refer,
         WindowStep, RequestStep, CheckReferralWindow, ReadView, CommitReferralWindow, Revert,
         InsertClaim, statVars, vars
  <1>2. TypeOK /\ [Next]_vars =>
            [\A d \in Deposit : Claimed(d) /\ stat'[d] # stat[d] => sticky'[d] # sticky[d]]_vars
    BY <1>1
  <1>. QED
    BY <1>2, TypeCorrect, PTL DEF Spec, ClaimSettles

----------------------------------------------------------------------------
(***************************************************************************)
(* What the status of a job tells of its window, and the jobs that stay    *)
(* where a death left them.                                                *)
(***************************************************************************)

\* A request has no job before its insert.
NoJobYet == \A r \in Request : step[r] \in {"new", "cleared"} => job[r] = "none"

\* A job that is Done has committed its window, and a job that has committed is Done, or
\* stays InProgress for ever, or is about to be Done; no other has rows in a window.
StatusTells ==
    \A r \in Request :
        /\ job[r] = "Done" => r \in committed
        /\ r \in committed => job[r] \in {"InProgress", "Done"}

\* The step of a request and the status of its job.
StepTells ==
    \A r \in Request :
        /\ step[r] = "created" => job[r] = "Initial"
        /\ step[r] \in {"running", "free", "computed", "failing"} => job[r] = "InProgress"
        /\ step[r] = "computed" => r \in committed
        /\ r \in committed => step[r] \in {"computed", "over", "dead"}

\* A request died before it marked its job as InProgress.
StuckJob == \E s \in Request : step[s] = "dead" /\ job[s] = "Initial"

Refused(r) == StuckJob /\ step[r] \in {"new", "over"} /\ job[r] = "none"

JobsInv == NoJobYet /\ StatusTells /\ StepTells

\* Every step that is not of a request leaves the jobs and the commits alone.
LEMMA OtherSteps ==
  ASSUME [Next]_vars, ~\E r \in Request : WindowStep(r)
  PROVE  UNCHANGED <<job, step, committed>>
  BY DEF Next, Refer, CronStep, StartCrons, ComputeStats, RefreshView, CronFails, Revert,
         InsertClaim, vars, jobVars, windowVars

\* A step of a request moves its own job, and commits no other's window.
LEMMA RequestMoves ==
  ASSUME TypeOK, NEW q \in Request, WindowStep(q)
  PROVE  /\ \A r \in Request : r # q => step'[r] = step[r] /\ job'[r] = job[r]
         /\ \/ /\ step[q] = "new" /\ job'[q] = job[q] /\ committed' = committed
               /\ step'[q] = IF Blocked(q) THEN "over" ELSE "cleared"
            \/ step[q] = "cleared" /\ step'[q] = "created" /\ job'[q] = "Initial"
                   /\ committed' = committed
            \/ step[q] = "created" /\ step'[q] = "running" /\ job'[q] = "InProgress"
                   /\ committed' = committed
            \/ step[q] = "running" /\ step'[q] \in {"free", "failing"} /\ job'[q] = job[q]
                   /\ committed' = committed
            \/ step[q] = "free" /\ step'[q] = "free" /\ job'[q] = job[q]
                   /\ committed' = committed
            \/ step[q] = "free" /\ step'[q] = "computed" /\ job'[q] = job[q]
                   /\ committed' = committed \cup {q}
            \/ step[q] = "computed" /\ step'[q] = "over" /\ job'[q] = "Done"
                   /\ committed' = committed
            \/ step[q] = "failing" /\ step'[q] = "over" /\ job'[q] = "Failed"
                   /\ committed' = committed
            \/ step[q] \notin {"new", "over", "dead"} /\ step'[q] = "dead" /\ job'[q] = job[q]
                   /\ committed' = committed
PROOF
  <1>1. job \in [Request -> Status] /\ step \in [Request -> StepName]
    BY DEF TypeOK, JobsTypeOK
  <1>2. CASE RequestStep(q)
    <2>1. JobStep(q) /\ committed' = committed
      BY <1>2 DEF RequestStep, windowVars
    <2>2. CASE ReadJobs(q)
      BY <1>1, <2>1, <2>2 DEF ReadJobs
    <2>3. CASE InsertJob(q)
      BY <1>1, <2>1, <2>3 DEF InsertJob
    <2>4. CASE MarkInProgress(q)
      BY <1>1, <2>1, <2>4 DEF MarkInProgress
    <2>5. CASE EndJob(q)
      BY <1>1, <2>1, <2>5 DEF EndJob
    <2>6. CASE Die(q)
      BY <1>1, <2>1, <2>6 DEF Die
    <2>. QED
      BY <2>1, <2>2, <2>3, <2>4, <2>5, <2>6 DEF JobStep
  <1>3. CASE CheckReferralWindow(q)
    BY <1>1, <1>3 DEF CheckReferralWindow, CheckWindow, windowVars
  <1>4. CASE ReadView(q)
    BY <1>1, <1>4 DEF ReadView, jobVars
  <1>5. CASE CommitReferralWindow(q)
    BY <1>1, <1>5 DEF CommitReferralWindow, CommitWindow
  <1>. QED
    BY <1>2, <1>3, <1>4, <1>5 DEF WindowStep

LEMMA JobsInvStep == TypeOK /\ JobsInv /\ [Next]_vars => JobsInv'
PROOF
  <1>. SUFFICES ASSUME TypeOK, JobsInv, [Next]_vars
                PROVE  JobsInv'
    OBVIOUS
  <1>1. ASSUME NEW q \in Request, WindowStep(q)
        PROVE  JobsInv'
    <2>1. committed \subseteq Request
      BY DEF TypeOK
    <2>. QED
      BY <1>1, <2>1, RequestMoves DEF JobsInv, NoJobYet, StatusTells, StepTells
  <1>2. CASE ~\E r \in Request : WindowStep(r)
    BY <1>2, OtherSteps DEF JobsInv, NoJobYet, StatusTells, StepTells
  <1>. QED
    BY <1>1, <1>2

LEMMA JobsInvariant == Spec => [](TypeOK /\ JobsInv)
PROOF
  <1>1. Init => JobsInv
    BY DEF Init, JobsInit, JobsInv, NoJobYet, StatusTells, StepTells
  <1>. QED
    BY <1>1, JobsInvStep, TypeCorrect, PTL DEF Spec

(***************************************************************************)
(* The status that an operator reads of a job is true of its window: Done  *)
(* is committed, and Failed or not begun has put no deposit into a window. *)
(***************************************************************************)
THEOREM StatusIsTrue == Spec => []StatusTells
PROOF
  <1>1. JobsInv => StatusTells
    BY DEF JobsInv
  <1>. QED
    BY <1>1, JobsInvariant, PTL

\* A job that is stuck refuses every request that has not begun, and stays stuck.
LEMMA RefusedStays ==
  ASSUME NEW r \in Request
  PROVE  TypeOK /\ Refused(r) /\ [Next]_vars => Refused(r)'
PROOF
  <1>. SUFFICES ASSUME TypeOK, Refused(r), [Next]_vars
                PROVE  Refused(r)'
    OBVIOUS
  <1>1. PICK s \in Request : step[s] = "dead" /\ job[s] = "Initial"
    BY DEF Refused, StuckJob
  <1>2. ASSUME NEW q \in Request, WindowStep(q)
        PROVE  Refused(r)'
    <2>1. Blocked(q)
      BY <1>1 DEF Blocked
    <2>2. step'[s] = "dead" /\ job'[s] = "Initial"
      BY <1>1, <1>2, RequestMoves
    <2>3. step'[r] \in {"new", "over"} /\ job'[r] = "none"
      BY <1>2, <2>1, RequestMoves DEF Refused
    <2>. QED
      BY <2>2, <2>3 DEF Refused, StuckJob
  <1>3. CASE ~\E q \in Request : WindowStep(q)
    BY <1>3, OtherSteps DEF Refused, StuckJob
  <1>. QED
    BY <1>2, <1>3

(***************************************************************************)
(* A process that dies between the insert of a job and its first update    *)
(* leaves it Initial, and nothing ever ends it: no request that comes      *)
(* after gets a job of this type, whatever window it asks for.             *)
(***************************************************************************)
THEOREM StuckJobBlocks ==
  ASSUME NEW r \in Request
  PROVE  Spec => [](StuckJob /\ step[r] = "new" => [](job[r] = "none"))
PROOF
  <1>1. JobsInv /\ StuckJob /\ step[r] = "new" => Refused(r)
    BY DEF JobsInv, NoJobYet, Refused
  <1>2. Refused(r) => job[r] = "none"
    BY DEF Refused
  <1>3. TypeOK /\ Refused(r) /\ [Next]_vars => Refused(r)'
    BY RefusedStays
  <1>. QED
    BY <1>1, <1>2, <1>3, JobsInvariant, PTL DEF Spec
=============================================================================
