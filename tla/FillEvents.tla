----------------------------- MODULE FillEvents -----------------------------
(***************************************************************************)
(* The fills of one V2 or V2.5 deposit: FillEventsConsumer (whose twin     *)
(* FillEventsConsumer2 differs in the fee field of the message only) and   *)
(* DepositFilledDateConsumer, on the row of the deposit.                   *)
(*                                                                         *)
(* A consumer reads the row, awaits, and writes whole columns computed     *)
(* from what it read; fillTxs is one of them, a JSON array.  Both write    *)
(* fillTxs, so a write can undo another's: `erased` remembers the fills    *)
(* that went that way.  Every fill is delivered Copies times, and again    *)
(* after a failure; a job that throws stays in its queue.  The fill jobs   *)
(* may run before the deposit has a row.                                   *)
(*                                                                         *)
(* fillTxs is a bag, as a function from fills to the number of entries,    *)
(* and the set of the fills whose entries carry a date.                    *)
(***************************************************************************)
EXTENDS Integers, FiniteSets

CONSTANTS
    Worker,         \* workers of the fill queue: one per process
    FillTx,         \* fill events of the deposit, each with its (hash, total)
    Total,          \* [FillTx -> Nat] totalFilledAmount
    FillTime,       \* [FillTx -> Nat] date of the fill's block
    Amount,         \* amount of the deposit
    DepositTime,    \* date of the deposit's block
    Copies,         \* deliveries of each fill event
    MaxCrashes,     \* bound: jobs that fail between two of their steps
    NoFillTx        \* no fill

ASSUME FillAssumption ==
    /\ Total \in [FillTx -> 1..Amount]
    /\ FillTime \in [FillTx -> Nat]
    /\ Amount \in Nat \ {0}
    /\ DepositTime \in Nat \ {0}
    /\ Copies \in Nat
    /\ MaxCrashes \in Nat
    /\ NoFillTx \notin FillTx

VARIABLES
    row,            \* the deposit
    queue,          \* [FillTx -> messages waiting in the fill queue]
    worker,         \* [Worker -> the job the worker is at]
    dateQueue,      \* messages waiting in the DepositFilledDate queue
    dater,          \* the job of the DepositFilledDate worker
    tracked,        \* fills sent to the TrackFillEvent queue
    erased,         \* fills a stale write took out of fillTxs
    crashes

vars == <<row, queue, worker, dateQueue, dater, tracked, erased, crashes>>

Row == [exists : BOOLEAN, depositDated : BOOLEAN, txs : [FillTx -> Nat],
        dated : SUBSET FillTx, filled : 0..Amount, status : {"pending", "filled"},
        feeOver : SUBSET FillTx, filledDate : Nat]

NewRow == [exists |-> FALSE, depositDated |-> FALSE, txs |-> [f \in FillTx |-> 0],
           dated |-> {}, filled |-> 0, status |-> "pending",
           feeOver |-> {}, filledDate |-> 0]

Recorded(r) == {f \in FillTx : r.txs[f] > 0}

IdleWorker == [pc |-> "idle", fill |-> NoFillTx, seen |-> NewRow]
IdleDater == [pc |-> "idle", seen |-> NewRow]

Init ==
    /\ row = NewRow
    /\ queue = [f \in FillTx |-> Copies]
    /\ worker = [w \in Worker |-> IdleWorker]
    /\ dateQueue = 0
    /\ dater = IdleDater
    /\ tracked = {}
    /\ erased = {}
    /\ crashes = 0

----------------------------------------------------------------------------
\* BlocksEventsConsumer inserts the deposit.
InsertRow ==
    /\ ~row.exists
    /\ row' = [row EXCEPT !.exists = TRUE]
    /\ UNCHANGED <<queue, worker, dateQueue, dater, tracked, erased, crashes>>

\* BlockNumberConsumer sets depositDate.
DateDeposit ==
    /\ row.exists /\ ~row.depositDated
    /\ row' = [row EXCEPT !.depositDated = TRUE]
    /\ UNCHANGED <<queue, worker, dateQueue, dater, tracked, erased, crashes>>

\* Mutated form of FillTxAlreadyProcessed: the check is left to the caller.
NeverAlreadyProcessed(r, f) == FALSE

FillTxAlreadyProcessed(r, f) == r.txs[f] > 0

\* Mutated form of Take: as the V3 consumer does, a fill without a deposit is dropped.
TakeDroppingEarly(w, f) ==
    /\ worker[w].pc = "idle"
    /\ queue[f] > 0
    /\ queue' = [queue EXCEPT ![f] = @ - 1]
    /\ worker' = [worker EXCEPT ![w] =
          IF ~row.exists \/ FillTxAlreadyProcessed(row, f) THEN @
          ELSE [pc |-> "read", fill |-> f, seen |-> row]]
    /\ UNCHANGED <<row, dateQueue, dater, tracked, erased, crashes>>

\* findOne.  Without a row the job throws and stays in the queue; with the fill in the
\* row there is nothing to do.
Take(w, f) ==
    /\ worker[w].pc = "idle"
    /\ queue[f] > 0
    /\ row.exists
    /\ queue' = [queue EXCEPT ![f] = @ - 1]
    /\ worker' = [worker EXCEPT ![w] =
          IF FillTxAlreadyProcessed(row, f) THEN @
          ELSE [pc |-> "read", fill |-> f, seen |-> row]]
    /\ UNCHANGED <<row, dateQueue, dater, tracked, erased, crashes>>

Greater(a, b) == IF a < b THEN b ELSE a
StatusAt(n) == IF n = Amount THEN "filled" ELSE "pending"

\* Mutated forms of WithFill: fillTxs starts over; the total of the last fill to be
\* processed wins; the fee is computed before the fill is added.
WithFillOnly(r, seen, f) ==
    LET filled == Greater(seen.filled, Total[f])
    IN  [r EXCEPT !.txs = [NewRow.txs EXCEPT ![f] = 1],
                  !.dated = {},
                  !.feeOver = {f},
                  !.filled = filled,
                  !.status = StatusAt(filled)]
WithLastFill(r, seen, f) ==
    [r EXCEPT !.txs = [seen.txs EXCEPT ![f] = @ + 1],
              !.dated = seen.dated,
              !.feeOver = Recorded(seen) \cup {f},
              !.filled = Total[f],
              !.status = StatusAt(Total[f])]
WithFillAfterFee(r, seen, f) ==
    LET filled == Greater(seen.filled, Total[f])
    IN  [r EXCEPT !.txs = [seen.txs EXCEPT ![f] = @ + 1],
                  !.dated = seen.dated,
                  !.feeOver = Recorded(seen),
                  !.filled = filled,
                  !.status = StatusAt(filled)]

\* The columns processFillEventQueueMessage computes from the row it was given.
WithFill(r, seen, f) ==
    LET filled == Greater(seen.filled, Total[f])
    IN  [r EXCEPT !.txs = [seen.txs EXCEPT ![f] = @ + 1],
                  !.dated = seen.dated,
                  !.feeOver = Recorded(seen) \cup {f},
                  !.filled = filled,
                  !.status = StatusAt(filled)]

Update(r) ==
    /\ row' = r
    /\ erased' = erased \cup (Recorded(row) \ Recorded(r))

\* depositRepository.update
Write(w) ==
    /\ worker[w].pc = "read"
    /\ Update(WithFill(row, worker[w].seen, worker[w].fill))
    /\ worker' = [worker EXCEPT ![w].pc = "written", ![w].seen = NewRow]
    /\ UNCHANGED <<queue, dateQueue, dater, tracked, crashes>>

\* publishMessage(DepositFilledDate, ...), after the row has been read once more.
Publish(w) ==
    /\ worker[w].pc = "written"
    /\ dateQueue' = dateQueue + 1
    /\ worker' = [worker EXCEPT ![w] = IdleWorker]
    /\ UNCHANGED <<row, queue, dater, tracked, erased, crashes>>

\* The process dies, or an await rejects: Bull delivers the message again.
Crash(w) ==
    /\ worker[w].pc # "idle"
    /\ crashes < MaxCrashes
    /\ crashes' = crashes + 1
    /\ queue' = [queue EXCEPT ![worker[w].fill] = @ + 1]
    /\ worker' = [worker EXCEPT ![w] = IdleWorker]
    /\ UNCHANGED <<row, dateQueue, dater, tracked, erased>>

----------------------------------------------------------------------------
\* findOne of DepositFilledDateConsumer.  It returns at once when the deposit is not
\* filled, and throws, to be retried, when it waits for the deposit's own date.
ReadDates ==
    /\ dater.pc = "idle"
    /\ dateQueue > 0
    /\ row.status = "filled" => row.depositDated
    /\ dateQueue' = dateQueue - 1
    /\ dater' = IF row.status = "filled" THEN [pc |-> "read", seen |-> row] ELSE dater
    /\ UNCHANGED <<row, queue, worker, tracked, erased, crashes>>

\* fillTxs sorted by date: the fills that can come first.
LatestFills(fills) == {f \in fills : \A g \in fills : FillTime[g] <= FillTime[f]}

\* The blocks of the fills are fetched, fillTxs and filledDate written, and the
\* latest fill sent to be tracked.
WriteDates ==
    /\ dater.pc = "read"
    /\ \E f \in LatestFills(Recorded(dater.seen)) :
          /\ Update([row EXCEPT !.txs = dater.seen.txs,
                                !.dated = Recorded(dater.seen),
                                !.filledDate = Greater(FillTime[f], DepositTime)])
          /\ tracked' = tracked \cup {f}
    /\ dater' = IdleDater
    /\ UNCHANGED <<queue, worker, dateQueue, crashes>>

CrashDater ==
    /\ dater.pc # "idle"
    /\ crashes < MaxCrashes
    /\ crashes' = crashes + 1
    /\ dateQueue' = dateQueue + 1
    /\ dater' = IdleDater
    /\ UNCHANGED <<row, queue, worker, tracked, erased>>

----------------------------------------------------------------------------
Work(w) == (\E f \in FillTx : Take(w, f)) \/ Write(w) \/ Publish(w)
Date == ReadDates \/ WriteDates

Next ==
    \/ InsertRow
    \/ DateDeposit
    \/ \E w \in Worker : Work(w) \/ Crash(w)
    \/ Date
    \/ CrashDater

\* The deposit is scraped and dated in the end, and Bull hands every job that waits to a
\* worker, whatever number of attempts it takes.
Fairness ==
    /\ WF_vars(InsertRow)
    /\ WF_vars(DateDeposit)
    /\ \A w \in Worker : WF_vars(Work(w))
    /\ WF_vars(Date)

Spec == Init /\ [][Next]_vars
FairSpec == Spec /\ Fairness

----------------------------------------------------------------------------
WorkerState == [pc : {"idle", "read", "written"}, fill : FillTx \cup {NoFillTx}, seen : Row]
DaterState == [pc : {"idle", "read"}, seen : Row]

TypeOK ==
    /\ row \in Row
    /\ queue \in [FillTx -> Nat]
    /\ worker \in [Worker -> WorkerState]
    /\ dateQueue \in Nat
    /\ dater \in DaterState
    /\ tracked \subseteq FillTx
    /\ erased \subseteq FillTx
    /\ crashes \in 0..MaxCrashes

(***************************************************************************)
(* A fill is in fillTxs once at most, however often it is delivered, by    *)
(* however many workers at a time, and whatever fails: its relayer fee is  *)
(* never counted twice.                                                    *)
(***************************************************************************)
NoDuplicateFill == \A f \in FillTx : row.txs[f] <= 1

(***************************************************************************)
(* The filled amount is the highest total among the fills that were ever   *)
(* recorded, those included that a stale write took out of fillTxs: that   *)
(* write leaves the amount and the status alone.                           *)
(***************************************************************************)
FilledIsHighestTotal ==
    /\ \A f \in Recorded(row) \cup erased : Total[f] <= row.filled
    /\ row.filled = 0 \/ \E f \in Recorded(row) \cup erased : Total[f] = row.filled

(***************************************************************************)
(* The bridge fee was computed over every fill that is recorded, and over  *)
(* no other but those erased since.                                        *)
(***************************************************************************)
FeeCountsRecorded ==
    /\ Recorded(row) \subseteq row.feeOver
    /\ row.feeOver \subseteq Recorded(row) \cup erased

(***************************************************************************)
(* A fill that was sent to be tracked stays in fillTxs: TrackFillEvent,    *)
(* which retries for ever when it does not find it, finds it.              *)
(***************************************************************************)
TrackedStaysRecorded == tracked \subseteq Recorded(row)

\* With one worker the consumers keep the promise of DepositLedger: filled and status
\* only move forward.
Ledger == INSTANCE DepositLedger WITH
    Totals <- {Total[f] : f \in FillTx}, filled <- row.filled, status <- row.status
LedgerSpec == Ledger!Spec

(***************************************************************************)
(* Every fill is recorded in the end, even when all its deliveries came    *)
(* before the deposit or failed; what is missing was erased by a write of  *)
(* the other consumer, after its last delivery.  And unless a job fails    *)
(* between its write and its message, the dates agree with the fills: each *)
(* recorded fill is dated, and filledDate is that of the latest, or the    *)
(* deposit's own when it is later.                                         *)
(***************************************************************************)
Dated ==
    /\ row.dated = Recorded(row)
    /\ \E f \in LatestFills(Recorded(row)) :
          row.filledDate = Greater(FillTime[f], DepositTime)
FillsSettle ==
    <>[](/\ \A f \in FillTx : f \in Recorded(row) \cup erased
         /\ row.status = "filled" /\ crashes = 0 => Dated)
=============================================================================
