--------------------------- MODULE StickyReferrals ---------------------------
(***************************************************************************)
(* The referral address of a deposit, which is in the data of its          *)
(* transaction, and its sticky one: the referral address of the latest     *)
(* deposit its depositor has made with one, up to it.  The workers of the  *)
(* DepositReferral queue find both; a nightly cron may update the sticky   *)
(* addresses of all deposits; an operator may publish a range of dates     *)
(* again.  The RectifyStickyReferral queue, which would repair the later   *)
(* deposits of a referral that is written late, has a worker that returns  *)
(* at once: publishing on it changes nothing and is left out.              *)
(***************************************************************************)
EXTENDS DepositRows, Integers

CONSTANTS
    Account, NoOne,
    NoDeposit,
    Depositor,      \* [Deposit -> Account]
    Date,           \* [Deposit -> Nat] depositDate, of which there are no two alike
    Tx,             \* [Deposit -> what follows the arguments in the data of its transaction]
    DelimiterStart, \* referralDelimiterStartTimestamp, or 0 for none
    Used,           \* accounts with a transaction on mainnet
    Worker,
    ByCron,         \* stickyReferralAddressesMechanism is the cron
    MaxCrashes      \* bound: jobs that fail

TxForm == {"delimited", "bare", "nothing"}

ASSUME StickyAssumption ==
    /\ NoOne \notin Account
    /\ NoDeposit \notin Deposit
    /\ Depositor \in [Deposit -> Account]
    /\ Date \in [Deposit -> Nat \ {0}]
    /\ \A d, e \in Deposit : Date[d] = Date[e] => d = e
    /\ Tx \in [Deposit -> [form : TxForm, address : Account]]
    /\ DelimiterStart \in Nat
    /\ Used \subseteq Account
    /\ ByCron \in BOOLEAN
    /\ MaxCrashes \in Nat

VARIABLES
    dated,          \* deposits whose row has a depositDate
    referral,       \* [Deposit -> referralAddress]
    sticky,         \* [Deposit -> stickyReferralAddress]
    queue,          \* [Deposit -> messages waiting in the DepositReferral queue]
    worker,         \* [Worker -> the job the worker is at]
    crashes,
    missed          \* deposits overtaken: an earlier referral was written after they looked back

stickyVars == <<dated, referral, sticky, queue, worker, crashes, missed>>

WorkerState == [pc : {"idle", "read", "looking", "found"}, deposit : Deposit \cup {NoDeposit},
                address : Account \cup {NoOne}, late : BOOLEAN]
IdleWorker == [pc |-> "idle", deposit |-> NoDeposit, address |-> NoOne, late |-> FALSE]

StickyTypeOK ==
    /\ dated \subseteq Deposit
    /\ referral \in [Deposit -> Account \cup {NoOne}]
    /\ sticky \in [Deposit -> Account \cup {NoOne}]
    /\ queue \in [Deposit -> Nat]
    /\ worker \in [Worker -> WorkerState]
    /\ crashes \in 0..MaxCrashes
    /\ missed \subseteq Deposit

StickyInit ==
    /\ dated = {}
    /\ referral = [d \in Deposit |-> NoOne]
    /\ sticky = [d \in Deposit |-> NoOne]
    /\ queue = [d \in Deposit |-> 0]
    /\ worker = [w \in Worker |-> IdleWorker]
    /\ crashes = 0
    /\ missed = {}

----------------------------------------------------------------------------
\* The address in the data of the transaction: from DelimiterStart on, what follows the
\* delimiter; before, the whole tail, if it is an account that has been used.
Extracted(d) ==
    LET delimited == DelimiterStart # 0 /\ Date[d] >= DelimiterStart
    IN  IF \/ delimited /\ Tx[d].form = "delimited"
           \/ ~delimited /\ Tx[d].form = "bare" /\ Tx[d].address \in Used
        THEN Tx[d].address ELSE NoOne

\* The deposits of the same depositor up to d that have a referral address, ...
Referring(d) ==
    {e \in dated : Depositor[e] = Depositor[d] /\ Date[e] <= Date[d] /\ referral[e] # NoOne}

\* ... and the address of the latest.
LatestReferral(d) ==
    IF Referring(d) = {} THEN NoOne
    ELSE referral[CHOOSE e \in Referring(d) : \A f \in Referring(d) : Date[f] <= Date[e]]

\* BlockNumberConsumer dates the deposit and publishes it; deposits come in any order.
DateDeposit(d) ==
    /\ d \notin dated
    /\ dated' = dated \cup {d}
    /\ queue' = [queue EXCEPT ![d] = @ + 1]
    /\ UNCHANGED <<referral, sticky, worker, crashes, missed>>

\* findOne of the deposit, then its transaction and its block; without a date the job throws.
TakeReferral(w, d) ==
    /\ worker[w].pc = "idle"
    /\ queue[d] > 0
    /\ d \in dated
    /\ queue' = [queue EXCEPT ![d] = @ - 1]
    /\ worker' = [worker EXCEPT ![w] = [IdleWorker EXCEPT !.pc = "read", !.deposit = d,
                                                              !.address = Extracted(d)]]
    /\ UNCHANGED <<dated, referral, sticky, crashes, missed>>

\* The deposits whose look back a referral of d would be found by.
LaterDeposits(d) == {e \in Deposit : Depositor[e] = Depositor[d] /\ Date[e] > Date[d]}

\* Mutated form of WriteReferral: a deposit without a referral of its own is not cleared, and
\* does not look back.
WriteReferralOnly(w) ==
    LET d == worker[w].deposit
        address == worker[w].address
    IN  /\ worker[w].pc = "read"
        /\ referral' = [referral EXCEPT ![d] = address]
        /\ sticky' = [sticky EXCEPT ![d] = address]
        /\ worker' = [worker EXCEPT ![w] = IdleWorker]
        /\ UNCHANGED <<dated, queue, crashes, missed>>

\* Both columns get the address, or null; with an address the job is done.
WriteReferral(w) ==
    LET d == worker[w].deposit
        address == worker[w].address
        overtaken == IF referral[d] = address THEN {} ELSE LaterDeposits(d)
    IN  /\ worker[w].pc = "read"
        /\ referral' = [referral EXCEPT ![d] = address]
        /\ sticky' = [sticky EXCEPT ![d] = address]
        /\ worker' = [x \in Worker |->
               IF x # w THEN [worker[x] EXCEPT !.late =
                   @ \/ (worker[x].pc = "found" /\ worker[x].deposit \in overtaken)]
               ELSE IF address # NoOne THEN IdleWorker
               ELSE [worker[w] EXCEPT !.pc = "looking"]]
        /\ missed' = missed \cup overtaken
        /\ UNCHANGED <<dated, queue, crashes>>

\* findOne of the latest earlier deposit with a referral address.
LookBack(w) ==
    /\ worker[w].pc = "looking"
    /\ worker' = [worker EXCEPT ![w].pc = "found",
                                ![w].address = LatestReferral(worker[w].deposit)]
    /\ UNCHANGED <<dated, referral, sticky, queue, crashes, missed>>

WriteSticky(w) ==
    LET d == worker[w].deposit
    IN  /\ worker[w].pc = "found"
        /\ referral' = [referral EXCEPT ![d] = NoOne]
        /\ sticky' = [sticky EXCEPT ![d] = worker[w].address]
        /\ worker' = [worker EXCEPT ![w] = IdleWorker]
        /\ missed' = IF worker[w].late THEN missed \cup {d} ELSE missed \ {d}
        /\ UNCHANGED <<dated, queue, crashes>>

\* The process dies, or an await rejects: Bull delivers the message again.
CrashReferral(w) ==
    /\ worker[w].pc # "idle"
    /\ crashes < MaxCrashes
    /\ crashes' = crashes + 1
    /\ queue' = [queue EXCEPT ![worker[w].deposit] = @ + 1]
    /\ worker' = [worker EXCEPT ![w] = IdleWorker]
    /\ UNCHANGED <<dated, referral, sticky, missed>>

\* updateStickyReferralAddressesQuery: one statement for all deposits that have a referral
\* up to them.
UpdateSticky ==
    /\ ByCron
    /\ sticky' = [d \in Deposit |-> IF d \in dated /\ Referring(d) # {} THEN LatestReferral(d)
                                    ELSE sticky[d]]
    /\ missed' = {}
    /\ UNCHANGED <<dated, referral, queue, worker, crashes>>

----------------------------------------------------------------------------
ReferralStep(w) ==
    \/ \E d \in Deposit : TakeReferral(w, d)
    \/ WriteReferral(w)
    \/ LookBack(w)
    \/ WriteSticky(w)

StickyNext ==
    \/ \E d \in Deposit : DateDeposit(d)
    \/ \E w \in Worker : ReferralStep(w) \/ CrashReferral(w)
    \/ UpdateSticky

(***************************************************************************)
(* A deposit whose jobs are over has the latest referral of its depositor  *)
(* up to it as its sticky address, unless an earlier referral was written  *)
(* after it looked back and no night of the cron has come since: nothing   *)
(* else repairs it.                                                        *)
(***************************************************************************)
StickyRight ==
    \A d \in dated :
        \/ queue[d] > 0
        \/ \E w \in Worker : worker[w].deposit = d
        \/ sticky[d] = LatestReferral(d)
        \/ d \in missed /\ referral[d] = NoOne
=============================================================================
