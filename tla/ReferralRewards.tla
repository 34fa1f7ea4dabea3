--------------------------- MODULE ReferralRewards ---------------------------
(***************************************************************************)
(* The rewards of referrals.  A nightly cron computes a count for each     *)
(* deposit that has a sticky referral address, which gives its rate, and   *)
(* refreshes the materialized view deposits_mv; a window job pays the rows *)
(* of the view that have no window, and gives the deposits the window of   *)
(* the job.  The view is as old as the last refresh, and the job looks     *)
(* nowhere else.  Claims come from the events of the distributor (V1).     *)
(*                                                                         *)
(* The sticky addresses are StickyReferrals': here they change as they     *)
(* like.  A deposit is filled and has its token and prices when it has one,*)
(* and is of the dates and the chains of the program.  Volumes stay below  *)
(* the thresholds that volumes have.                                       *)
(***************************************************************************)
EXTENDS RewardsWindowJobs, FiniteSets

CONSTANTS
    Deposit,
    Account, NoOne,
    Depositor,      \* [Deposit -> Account]
    Date,           \* [Deposit -> Nat] depositDate
    Thresholds,     \* the counts of referred depositors at which the rate goes up: 3, 5, ..
    Referrers,      \* accounts that deposits may have as their sticky address
    MaxChanges,     \* bound: changes of a sticky address
    ClaimDates,     \* bound: times at which recipients claim
    MaxClaims,      \* bound: claims the distributor emits
    Unread          \* no rows

ASSUME RewardsAssumption ==
    /\ IsFiniteSet(Deposit)
    /\ NoOne \notin Account
    /\ Depositor \in [Deposit -> Account]
    /\ Date \in [Deposit -> Nat \ {0}]
    /\ Thresholds \subseteq Nat \ {0}
    /\ IsFiniteSet(Thresholds)
    /\ Referrers \subseteq Account
    /\ MaxChanges \in Nat
    /\ ClaimDates \subseteq Nat
    /\ MaxClaims \in Nat

\* Two referred deposits may have one date: which of them is counted first is then left to
\* the query, and is not modelled.  What is paid once, and what a claim settles, is shown
\* without this assumption; only the rate that the view comes to show depends on it.
ASSUME DatesDiffer == \A d, e \in Deposit : Date[d] = Date[e] => d = e

VARIABLES
    sticky,         \* [Deposit -> stickyReferralAddress]
    changes,
    cron,           \* where the nightly cron is; anything but idle is its semaphore
    stat,           \* [Deposit -> DepositReferralStat.referralCount, or 0 for no row]
    view,           \* deposits_mv: [Deposit -> its row, or Unread]
    window,         \* [Deposit -> rewardsWindowIndex, or 0]
    claims,         \* claim: account, windowIndex, claimedAt
    rows,           \* [Request -> [Deposit -> the row its job pays], or Unread]
    committed,      \* requests whose transaction of the window is committed
    viewed,         \* those the view reflects
    saw,            \* [Request -> those the view reflected when its job read it]
    reverted        \* deposits that a revert took out of their window

stickyVars == <<sticky, changes>>
statVars == <<cron, stat, view, viewed>>
windowVars == <<window, rows, committed, saw>>
vars == <<jobVars, stickyVars, statVars, windowVars, claims, reverted>>

WindowIndex == {Window[r] : r \in Request}

\* The rate is 0.4, and 0.1 more for each threshold the count reaches.
Tier(count) == 1 + Cardinality({t \in Thresholds : count >= t})

Row == [referrer : Account, tier : 1..(1 + Cardinality(Thresholds)),
        window : WindowIndex \cup {0}]

ClaimRow == [account : Account, window : WindowIndex, at : Nat]

Init ==
    /\ JobsInit
    /\ sticky = [d \in Deposit |-> NoOne]
    /\ changes = 0
    /\ cron = "idle"
    /\ stat = [d \in Deposit |-> 0]
    /\ view = [d \in Deposit |-> Unread]
    /\ window = [d \in Deposit |-> 0]
    /\ claims = {}
    /\ rows = [r \in Request |-> Unread]
    /\ committed = {}
    /\ viewed = {}
    /\ saw = [r \in Request |-> {}]
    /\ reverted = {}

----------------------------------------------------------------------------
\* What DepositReferralConsumer and the cron do to the sticky address.
Refer(d, a) ==
    /\ changes < MaxChanges
    /\ changes' = changes + 1
    /\ sticky' = [sticky EXCEPT ![d] = a]
    /\ UNCHANGED <<jobVars, statVars, windowVars, claims, reverted>>

\* deposits_filtered_referrals
Filtered == {d \in Deposit : sticky[d] # NoOne}

\* groupDepositsByClaimDate: a claim of the referrer at or after the deposit.
Claimed(d) == \E c \in claims : c.account = sticky[d] /\ c.at >= Date[d]

\* The depositors the referrer has, up to d, since its last claim.
ReferralCount(d) ==
    Cardinality({Depositor[e] : e \in {x \in Filtered :
        ~Claimed(x) /\ sticky[x] = sticky[d] /\ Date[x] <= Date[d]}})

\* Mutated form of Counted: the count of a claimed deposit goes on.
CountedAll == [d \in Deposit |-> IF d \in Filtered THEN ReferralCount(d) ELSE stat[d]]

\* What the transaction of cumputeReferralStats leaves: only unclaimed deposits are counted.
Counted == [d \in Deposit |-> IF d \in Filtered /\ ~Claimed(d) THEN ReferralCount(d)
                              ELSE stat[d]]

\* deposits_mv joins the deposits with their counts: one without a count has no row.
ViewNow ==
    [d \in Deposit |-> IF d \in Filtered /\ stat[d] # 0
                       THEN [referrer |-> sticky[d], tier |-> Tier(stat[d]), window |-> window[d]]
                       ELSE Unread]

\* startCrons, after the sticky addresses.
StartCrons ==
    /\ cron = "idle"
    /\ cron' = "stats"
    /\ UNCHANGED <<jobVars, stickyVars, stat, view, viewed, windowVars, claims, reverted>>

\* Mutated form of ComputeStats: a deposit that has a count keeps it.
ComputeStatsOnce ==
    /\ cron = "stats"
    /\ cron' = "refresh"
    /\ stat' = [d \in Deposit |-> IF stat[d] = 0 THEN Counted[d] ELSE stat[d]]
    /\ UNCHANGED <<jobVars, stickyVars, view, viewed, windowVars, claims, reverted>>

ComputeStats ==
    /\ cron = "stats"
    /\ cron' = "refresh"
    /\ stat' = Counted
    /\ UNCHANGED <<jobVars, stickyVars, view, viewed, windowVars, claims, reverted>>

RefreshView ==
    /\ cron = "refresh"
    /\ cron' = "idle"
    /\ view' = ViewNow
    /\ viewed' = committed
    /\ UNCHANGED <<jobVars, stickyVars, stat, windowVars, claims, reverted>>

\* A statement fails: the error is logged, and the cron is over for the night.
CronFails ==
    /\ cron # "idle"
    /\ cron' = "idle"
    /\ UNCHANGED <<jobVars, stickyVars, stat, view, viewed, windowVars, claims, reverted>>

----------------------------------------------------------------------------
RequestStep(r) ==
    /\ JobStep(r)
    /\ UNCHANGED <<stickyVars, statVars, windowVars, claims, reverted>>

\* computeReferralRewardsForWindow looks for a deposit that has the index, ...
CheckReferralWindow(r) ==
    /\ CheckWindow(r, \E d \in Deposit : window[d] = Window[r])
    /\ UNCHANGED <<stickyVars, statVars, windowVars, claims, reverted>>

\* Mutated form of Payable: the condition that the row has no window is lost.
PayableAgain(d, r) == view[d] # Unread /\ Date[d] <= MaxDate[r]

\* ... reads the rows of the view without a window up to the last date, ...
Payable(d, r) == view[d] # Unread /\ view[d].window = 0 /\ Date[d] <= MaxDate[r]

ReadView(r) ==
    /\ step[r] = "free"
    /\ rows[r] = Unread
    /\ rows' = [rows EXCEPT ![r] = [d \in Deposit |-> IF Payable(d, r) THEN view[d] ELSE Unread]]
    /\ saw' = [saw EXCEPT ![r] = viewed]
    /\ UNCHANGED <<jobVars, stickyVars, statVars, window, committed, claims, reverted>>

\* ... gives their deposits the window, whatever window they have by now, and inserts the
\* results.
CommitReferralWindow(r) ==
    /\ CommitWindow(r)
    /\ rows[r] # Unread
    /\ window' = [d \in Deposit |-> IF rows[r][d] # Unread THEN Window[r] ELSE window[d]]
    /\ committed' = committed \cup {r}
    /\ UNCHANGED <<stickyVars, statVars, rows, saw, claims, reverted>>

Paid(r, d) == r \in committed /\ rows[r][d] # Unread

\* revertReferralsMerkleDistribution: the deposits lose the window, and the results stay.
\* One revert is enough here.
Revert(x) ==
    /\ \E d \in Deposit : window[d] = x
    /\ reverted = {}
    /\ window' = [d \in Deposit |-> IF window[d] = x THEN 0 ELSE window[d]]
    /\ reverted' = reverted \cup {d \in Deposit : window[d] = x}
    /\ UNCHANGED <<jobVars, stickyVars, statVars, rows, committed, saw, claims>>

\* The consumer of the distributor's events stores the claim of a recipient, who claimed
\* some time after the last date of the window; a claim that is there already is ignored.
InsertClaim(r, a, t) ==
    /\ \E d \in Deposit : Paid(r, d) /\ a \in {rows[r][d].referrer, Depositor[d]}
    /\ t >= MaxDate[r]
    /\ Cardinality(claims) < MaxClaims
    /\ \A c \in claims : c.window # Window[r] \/ c.account # a
    /\ claims' = claims \cup {[account |-> a, window |-> Window[r], at |-> t]}
    /\ UNCHANGED <<jobVars, stickyVars, statVars, windowVars, reverted>>

----------------------------------------------------------------------------
CronStep == StartCrons \/ ComputeStats \/ RefreshView \/ CronFails

WindowStep(r) ==
    RequestStep(r) \/ CheckReferralWindow(r) \/ ReadView(r) \/ CommitReferralWindow(r)

Next ==
    \/ \E d \in Deposit, a \in Referrers \cup {NoOne} : Refer(d, a)
    \/ CronStep
    \/ \E r \in Request : WindowStep(r)
    \/ \E x \in WindowIndex : Revert(x)
    \/ \E r \in Request, a \in Account, t \in ClaimDates : InsertClaim(r, a, t)

Spec == Init /\ [][Next]_vars

\* A night comes after the other, and the counts and the view do not fail every night.
FairSpec == Spec /\ WF_vars(CronStep) /\ SF_vars(ComputeStats) /\ SF_vars(RefreshView)

----------------------------------------------------------------------------
TypeOK ==
    /\ JobsTypeOK
    /\ sticky \in [Deposit -> Account \cup {NoOne}]
    /\ changes \in 0..MaxChanges
    /\ cron \in {"idle", "stats", "refresh"}
    /\ stat \in [Deposit -> Nat]
    /\ view \in [Deposit -> Row \cup {Unread}]
    /\ window \in [Deposit -> WindowIndex \cup {0}]
    /\ claims \subseteq ClaimRow
    /\ rows \in [Request -> [Deposit -> Row \cup {Unread}] \cup {Unread}]
    /\ committed \subseteq Request
    /\ viewed \subseteq committed
    /\ saw \in [Request -> SUBSET committed]
    /\ reverted \subseteq Deposit

(***************************************************************************)
(* Two windows pay for one deposit only if neither of them could know of   *)
(* the other, the view each read being older than the other's commit, or a *)
(* revert took the deposit out of its window.                              *)
(***************************************************************************)
PaidOnce ==
    \A d \in Deposit, r1, r2 \in Request :
        Paid(r1, d) /\ Paid(r2, d) /\ r1 # r2 /\ d \notin reverted =>
            r1 \notin saw[r2] /\ r2 \notin saw[r1]

(***************************************************************************)
(* What a referrer has earned until it claims is settled by the claim: the *)
(* count of a deposit of before it, which is its rate, changes no more     *)
(* whatever is referred later, unless the deposit goes to another referrer.*)
(***************************************************************************)
ClaimSettles ==
    [][\A d \in Deposit : Claimed(d) /\ stat'[d] # stat[d] => sticky'[d] # sticky[d]]_vars

(***************************************************************************)
(* The view comes to hold, for good, each deposit with a referral, its     *)
(* referrer, its window and the rate its referrer has earned by then.  A   *)
(* deposit that its referrer's claim follows keeps the rate it had, if it  *)
(* had one: if the claim comes before the first count, it is never in the  *)
(* view and never paid.                                                    *)
(***************************************************************************)
ViewSettles ==
    <>[](\A d \in Filtered :
        \/ /\ view[d] # Unread
           /\ view[d].referrer = sticky[d]
           /\ view[d].window = window[d]
           /\ Claimed(d) \/ view[d].tier = Tier(ReferralCount(d))
        \/ view[d] = Unread /\ Claimed(d) /\ stat[d] = 0)
=============================================================================
