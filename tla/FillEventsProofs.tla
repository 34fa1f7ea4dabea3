-------------------------- MODULE FillEventsProofs --------------------------
(***************************************************************************)
(* What the fill consumers keep, for any fills, deliveries and failures.   *)
(*                                                                         *)
(* NoDuplicateFill holds for any number of workers: whoever writes, writes *)
(* an array it read without the fill, plus the fill.  The other results    *)
(* hold for one worker, and rest on how what the worker and the dater have *)
(* read compares with the row: the worker's copy is never smaller, the     *)
(* dater's never larger (JobsAgree).                                       *)
(***************************************************************************)
EXTENDS FillEvents, TLAPS

Once(r) == \A f \in FillTx : r.txs[f] <= 1

\* A worker that is about to write read the row before the fill was in it.
CopiesOnce ==
    /\ \A w \in Worker : worker[w].pc # "idle" => worker[w].fill \in FillTx
    /\ \A w \in Worker : worker[w].pc = "read" =>
          /\ worker[w].seen.txs[worker[w].fill] = 0
          /\ Once(worker[w].seen)
    /\ dater.pc = "read" => Once(dater.seen)

IInv == TypeOK /\ Once(row) /\ CopiesOnce

----------------------------------------------------------------------------
LEMMA NewRowType == NewRow \in Row /\ Once(NewRow)
  BY FillAssumption DEF NewRow, Row, Once

LEMMA WithFillType ==
    ASSUME NEW r \in Row, NEW seen \in Row, NEW f \in FillTx
    PROVE  /\ WithFill(r, seen, f) \in Row
           /\ seen.txs[f] = 0 /\ Once(seen) => Once(WithFill(r, seen, f))
  <1> DEFINE filled == Greater(seen.filled, Total[f])
  <1>1. filled \in 0..Amount
    BY FillAssumption DEF Greater, Row
  <1>2. StatusAt(filled) \in {"pending", "filled"}
    BY DEF StatusAt
  <1>3. [seen.txs EXCEPT ![f] = @ + 1] \in [FillTx -> Nat]
    BY DEF Row
  <1>4. Recorded(seen) \cup {f} \subseteq FillTx
    BY DEF Recorded
  <1> HIDE DEF filled
  <1>5. WithFill(r, seen, f) = [r EXCEPT !.txs = [seen.txs EXCEPT ![f] = @ + 1],
                                        !.dated = seen.dated,
                                        !.feeOver = Recorded(seen) \cup {f},
                                        !.filled = filled,
                                        !.status = StatusAt(filled)]
    BY DEF WithFill, filled
  <1>6. WithFill(r, seen, f) \in Row
    BY <1>1, <1>2, <1>3, <1>4, <1>5 DEF Row
  <1>7. ASSUME seen.txs[f] = 0, Once(seen) PROVE Once(WithFill(r, seen, f))
    BY <1>5, <1>7 DEF Once, Row
  <1> QED
    BY <1>6, <1>7

LEMMA InitInv == Init => IInv
  <1> SUFFICES ASSUME Init PROVE IInv
    OBVIOUS
  <1>1. TypeOK
    BY NewRowType, FillAssumption
       DEF Init, TypeOK, IdleWorker, IdleDater, WorkerState, DaterState
  <1>2. Once(row) /\ CopiesOnce
    BY NewRowType DEF Init, CopiesOnce, IdleWorker, IdleDater
  <1> QED
    BY <1>1, <1>2 DEF IInv

LEMMA RowStep ==
    ASSUME IInv, InsertRow \/ DateDeposit
    PROVE  IInv'
  <1>1. row' \in Row /\ row'.txs = row.txs
    BY DEF InsertRow, DateDeposit, IInv, TypeOK, Row
  <1>2. TypeOK'
    BY <1>1 DEF InsertRow, DateDeposit, IInv, TypeOK
  <1>3. Once(row)'
    BY <1>1 DEF IInv, Once
  <1>4. CopiesOnce'
    BY DEF InsertRow, DateDeposit, IInv, CopiesOnce, Once
  <1> QED
    BY <1>2, <1>3, <1>4 DEF IInv

LEMMA TakeInv ==
    ASSUME IInv, NEW w \in Worker, NEW f \in FillTx, Take(w, f)
    PROVE  IInv'
  <1> DEFINE job == [pc |-> "read", fill |-> f, seen |-> row]
  <1>1. CASE FillTxAlreadyProcessed(row, f)
    <2>1. worker' = worker /\ row' = row /\ UNCHANGED <<dateQueue, dater, tracked, erased, crashes>>
      BY <1>1 DEF Take, IInv, TypeOK
    <2>2. queue' \in [FillTx -> Nat]
      BY DEF Take, IInv, TypeOK
    <2> QED
      BY <2>1, <2>2 DEF IInv, TypeOK, CopiesOnce, Once
  <1>2. CASE ~FillTxAlreadyProcessed(row, f)
    <2>1. /\ worker' = [worker EXCEPT ![w] = job] /\ row' = row
          /\ UNCHANGED <<dateQueue, dater, tracked, erased, crashes>>
      BY <1>2 DEF Take
    <2>2. queue' \in [FillTx -> Nat]
      BY DEF Take, IInv, TypeOK
    <2>3. row.txs[f] = 0
      BY <1>2 DEF FillTxAlreadyProcessed, IInv, TypeOK, Row
    <2>4. job \in WorkerState
      BY DEF IInv, TypeOK, WorkerState
    <2>5. TypeOK'
      BY <2>1, <2>2, <2>4 DEF IInv, TypeOK
    <2>6. CopiesOnce'
      BY <2>1, <2>3 DEF IInv, TypeOK, CopiesOnce, Once
    <2> QED
      BY <2>1, <2>5, <2>6 DEF IInv, Once
  <1> QED
    BY <1>1, <1>2

LEMMA WriteInv ==
    ASSUME IInv, NEW w \in Worker, Write(w)
    PROVE  IInv'
  <1> DEFINE job == worker[w]
             new == WithFill(row, job.seen, job.fill)
  <1>1. /\ job.pc = "read" /\ job.fill \in FillTx /\ job.seen \in Row /\ row \in Row
        /\ job.seen.txs[job.fill] = 0 /\ Once(job.seen)
    BY DEF Write, IInv, TypeOK, CopiesOnce, WorkerState
  <1>2. new \in Row /\ Once(new)
    BY <1>1, WithFillType
  <1>3. row' = new /\ erased' = erased \cup (Recorded(row) \ Recorded(new))
    BY DEF Write, Update
  <1>4. worker' = [worker EXCEPT ![w] = [@ EXCEPT !.pc = "written", !.seen = NewRow]]
    BY DEF Write, IInv, TypeOK
  <1>5. worker' \in [Worker -> WorkerState]
    BY <1>4, NewRowType DEF IInv, TypeOK, WorkerState
  <1>6. TypeOK'
    BY <1>2, <1>3, <1>5 DEF Write, IInv, TypeOK, Recorded
  <1>7. CopiesOnce'
    BY <1>4 DEF Write, IInv, TypeOK, CopiesOnce, WorkerState, Once
  <1> QED
    BY <1>2, <1>3, <1>6, <1>7 DEF IInv, Once

\* The steps after which a worker or the dater is idle and the row as it was.
LEMMA IdleInv ==
    ASSUME IInv, (\E w \in Worker : Publish(w) \/ Crash(w)) \/ CrashDater
    PROVE  IInv'
  <1>1. IdleWorker \in WorkerState /\ IdleDater \in DaterState
    BY NewRowType DEF IdleWorker, IdleDater, WorkerState, DaterState
  <1>2. ASSUME NEW w \in Worker, Publish(w) PROVE IInv'
    <2>1. TypeOK'
      BY <1>1, <1>2 DEF Publish, IInv, TypeOK
    <2>2. CopiesOnce' /\ Once(row)'
      BY <1>2 DEF Publish, IInv, TypeOK, CopiesOnce, IdleWorker, Once
    <2> QED
      BY <2>1, <2>2 DEF IInv
  <1>3. ASSUME NEW w \in Worker, Crash(w) PROVE IInv'
    <2>0. worker[w].fill \in FillTx
      BY <1>3 DEF Crash, IInv, CopiesOnce
    <2>1. queue' \in [FillTx -> Nat] /\ crashes' \in 0..MaxCrashes
      BY <1>3, <2>0, FillAssumption DEF Crash, IInv, TypeOK
    <2>2. TypeOK'
      BY <1>1, <1>3, <2>1 DEF Crash, IInv, TypeOK
    <2>3. CopiesOnce' /\ Once(row)'
      BY <1>3 DEF Crash, IInv, TypeOK, CopiesOnce, IdleWorker, Once
    <2> QED
      BY <2>2, <2>3 DEF IInv
  <1>4. CASE CrashDater
    <2>1. TypeOK'
      BY <1>1, <1>4, FillAssumption DEF CrashDater, IInv, TypeOK
    <2>2. CopiesOnce' /\ Once(row)'
      BY <1>4 DEF CrashDater, IInv, CopiesOnce, IdleDater, Once
    <2> QED
      BY <2>1, <2>2 DEF IInv
  <1> QED
    BY <1>2, <1>3, <1>4

LEMMA ReadDatesInv == IInv /\ ReadDates => IInv'
  <1> SUFFICES ASSUME IInv, ReadDates PROVE IInv'
    OBVIOUS
  <1>1. dater' \in {dater, [pc |-> "read", seen |-> row]}
    BY DEF ReadDates
  <1>2. dater' \in DaterState
    BY <1>1 DEF IInv, TypeOK, DaterState
  <1>3. dateQueue' \in Nat
    BY DEF ReadDates, IInv, TypeOK
  <1>4. CopiesOnce' /\ Once(row)'
    BY <1>1 DEF ReadDates, IInv, CopiesOnce, Once
  <1> QED
    BY <1>2, <1>3, <1>4 DEF ReadDates, IInv, TypeOK

LEMMA LatestFillsType ==
    ASSUME NEW fills \in SUBSET FillTx, NEW f \in LatestFills(fills)
    PROVE  f \in fills
  BY DEF LatestFills

LEMMA WriteDatesInv == IInv /\ WriteDates => IInv'
  <1> SUFFICES ASSUME IInv, WriteDates PROVE IInv'
    OBVIOUS
  <1>1. dater.seen \in Row /\ Once(dater.seen) /\ row \in Row
    BY DEF WriteDates, IInv, TypeOK, CopiesOnce, DaterState
  <1>2. PICK f \in LatestFills(Recorded(dater.seen)) :
          /\ Update([row EXCEPT !.txs = dater.seen.txs,
                                !.dated = Recorded(dater.seen),
                                !.filledDate = Greater(FillTime[f], DepositTime)])
          /\ tracked' = tracked \cup {f}
    BY DEF WriteDates
  <1>3. f \in FillTx
    BY <1>2 DEF LatestFills, Recorded
  <1>4. Greater(FillTime[f], DepositTime) \in Nat
    BY <1>3, FillAssumption DEF Greater
  <1>5. row' \in Row /\ row'.txs = dater.seen.txs
    BY <1>1, <1>2, <1>4 DEF Update, Row, Recorded
  <1>6. TypeOK'
    BY <1>2, <1>3, <1>5, NewRowType
       DEF WriteDates, Update, IInv, TypeOK, Recorded, IdleDater, DaterState
  <1>7. CopiesOnce' /\ Once(row)'
    BY <1>1, <1>5 DEF WriteDates, IInv, CopiesOnce, IdleDater, Once
  <1> QED
    BY <1>6, <1>7 DEF IInv

LEMMA NextInv == IInv /\ [Next]_vars => IInv'
  <1> SUFFICES ASSUME IInv, [Next]_vars PROVE IInv'
    OBVIOUS
  <1>1. CASE UNCHANGED vars
    BY <1>1 DEF vars, IInv, TypeOK, CopiesOnce, Once
  <1>2. CASE Next
    BY <1>2, RowStep, TakeInv, WriteInv, IdleInv, ReadDatesInv, WriteDatesInv DEF Next, Work, Date
  <1> QED
    BY <1>1, <1>2

LEMMA Inductive == Spec => []IInv
  BY InitInv, NextInv, PTL DEF Spec

\* The row, the queues and the jobs keep their types; the filled amount stays within
\* the amount of the deposit.
THEOREM TypeCorrect == Spec => []TypeOK
  <1>1. IInv => TypeOK
    BY DEF IInv
  <1> QED
    BY <1>1, Inductive, PTL

\* fillTxAlreadyProcessed is enough to keep a fill from being counted twice, although it
\* is checked on a copy that may be stale, with any number of workers.
THEOREM FillsRecordedOnce == Spec => []NoDuplicateFill
  <1>1. IInv => NoDuplicateFill
    BY DEF IInv, Once, NoDuplicateFill
  <1> QED
    BY <1>1, Inductive, PTL

----------------------------------------------------------------------------
(***************************************************************************)
(* One worker.  What it has read has the row's filled amount, and all the  *)
(* row's fills, the tracked ones and those the dater has read among them;  *)
(* what the dater has read has the tracked fills, and no fill the row      *)
(* lacks.                                                                  *)
(***************************************************************************)
OneWorker == \A v, w \in Worker : v = w

Ever == Recorded(row) \cup erased

WorkerAgrees(w) ==
    worker[w].pc = "read" =>
        /\ worker[w].seen.filled = row.filled
        /\ Recorded(row) \subseteq Recorded(worker[w].seen)
        /\ Recorded(worker[w].seen) \subseteq Ever
        /\ dater.pc = "read" => Recorded(dater.seen) \subseteq Recorded(worker[w].seen)

DaterAgrees ==
    dater.pc = "read" =>
        /\ tracked \subseteq Recorded(dater.seen)
        /\ Recorded(dater.seen) \subseteq Recorded(row)

JobsAgree == DaterAgrees /\ \A w \in Worker : WorkerAgrees(w)

RowAgrees ==
    /\ row.status = StatusAt(row.filled)
    /\ FilledIsHighestTotal
    /\ FeeCountsRecorded
    /\ TrackedStaysRecorded

AInv == JobsAgree /\ RowAgrees

\* Nothing of AInv depends on the parts of the state these steps change.
LEMMA AInvStable ==
    ASSUME AInv,
           row'.txs = row.txs, row'.filled = row.filled, row'.status = row.status,
           row'.feeOver = row.feeOver, erased' = erased, tracked' = tracked,
           \A w \in Worker : worker'[w].pc = "read" => worker'[w] = worker[w],
           dater'.pc = "read" => dater' = dater
    PROVE  AInv'
  <1>1. Recorded(row)' = Recorded(row) /\ Ever' = Ever
    BY DEF Recorded, Ever
  <1>2. JobsAgree'
    BY <1>1 DEF AInv, JobsAgree, WorkerAgrees, DaterAgrees, Recorded
  <1>3. RowAgrees'
    BY <1>1 DEF AInv, RowAgrees, FilledIsHighestTotal, FeeCountsRecorded, TrackedStaysRecorded
  <1> QED
    BY <1>2, <1>3 DEF AInv

LEMMA InitAgrees == Init => AInv
  BY FillAssumption
     DEF Init, AInv, JobsAgree, RowAgrees, WorkerAgrees, DaterAgrees, FilledIsHighestTotal,
         FeeCountsRecorded, TrackedStaysRecorded, NewRow, Recorded, IdleWorker, IdleDater, StatusAt

LEMMA TakeAgrees ==
    ASSUME IInv, AInv, NEW w \in Worker, NEW f \in FillTx, Take(w, f)
    PROVE  AInv'
  <1>1. /\ row' = row /\ tracked' = tracked /\ dater' = dater /\ erased' = erased
        /\ \A v \in Worker : worker'[v] = worker[v] \/ worker'[v].seen = row
    BY DEF Take, IInv, TypeOK
  <1>2. Recorded(row)' = Recorded(row) /\ Ever' = Ever
    BY <1>1 DEF Recorded, Ever
  <1>3. DaterAgrees'
    BY <1>1, <1>2 DEF AInv, JobsAgree, DaterAgrees, Recorded
  <1>4. ASSUME NEW v \in Worker PROVE WorkerAgrees(v)'
    <2>1. CASE worker'[v] = worker[v]
      BY <1>1, <1>2, <2>1 DEF AInv, JobsAgree, WorkerAgrees, Recorded
    <2>2. CASE worker'[v].seen = row
      BY <1>1, <1>2, <2>2 DEF AInv, JobsAgree, DaterAgrees, WorkerAgrees, Recorded, Ever
    <2> QED
      BY <1>1, <2>1, <2>2
  <1>5. RowAgrees'
    BY <1>1, <1>2
       DEF AInv, RowAgrees, FilledIsHighestTotal, FeeCountsRecorded, TrackedStaysRecorded, Recorded
  <1> QED
    BY <1>3, <1>4, <1>5 DEF AInv, JobsAgree

\* The columns a fill leaves in the row, when the amount that was read is the row's.
LEMMA WrittenRow ==
    ASSUME IInv, AInv, NEW w \in Worker, Write(w)
    PROVE  /\ worker[w].fill \in FillTx /\ worker[w].pc = "read"
           /\ row'.filled = Greater(row.filled, Total[worker[w].fill])
           /\ row'.status = StatusAt(row'.filled)
           /\ Recorded(row)' = Recorded(worker[w].seen) \cup {worker[w].fill}
           /\ row'.feeOver = Recorded(row)'
           /\ Ever' = Ever \cup {worker[w].fill}
  <1> DEFINE job == worker[w]
  <1>1. /\ job.pc = "read" /\ job.fill \in FillTx /\ job.seen \in Row /\ row \in Row
        /\ row' = WithFill(row, job.seen, job.fill)
        /\ erased' = erased \cup (Recorded(row) \ Recorded(row'))
    BY DEF Write, Update, IInv, TypeOK, CopiesOnce, WorkerState
  <1>2. /\ job.seen.filled = row.filled
        /\ Recorded(row) \subseteq Recorded(job.seen)
        /\ Recorded(job.seen) \subseteq Ever
    BY <1>1 DEF AInv, JobsAgree, WorkerAgrees
  <1>3. /\ row'.txs = [job.seen.txs EXCEPT ![job.fill] = @ + 1]
        /\ row'.feeOver = Recorded(job.seen) \cup {job.fill}
        /\ row'.filled = Greater(row.filled, Total[job.fill])
        /\ row'.status = StatusAt(row'.filled)
    BY <1>1, <1>2 DEF WithFill, Row
  <1>4. Recorded(row') = Recorded(job.seen) \cup {job.fill}
    BY <1>1, <1>3 DEF Recorded, Row
  <1>5. Recorded(row)' = Recorded(row')
    BY DEF Recorded
  <1>6. Ever' = Ever \cup {job.fill}
    BY <1>1, <1>2, <1>4, <1>5 DEF Ever
  <1> QED
    BY <1>1, <1>3, <1>4, <1>5, <1>6

LEMMA WriteAgrees ==
    ASSUME IInv, AInv, OneWorker, NEW w \in Worker, Write(w)
    PROVE  AInv'
  <1> DEFINE f == worker[w].fill
             seen == worker[w].seen
  <1>1. /\ f \in FillTx /\ worker[w].pc = "read"
        /\ row'.filled = Greater(row.filled, Total[f])
        /\ row'.status = StatusAt(row'.filled)
        /\ Recorded(row)' = Recorded(seen) \cup {f}
        /\ row'.feeOver = Recorded(row)'
        /\ Ever' = Ever \cup {f}
    BY WrittenRow
  <1>2. /\ Recorded(row) \subseteq Recorded(seen)
        /\ dater.pc = "read" => Recorded(dater.seen) \subseteq Recorded(seen)
    BY <1>1 DEF AInv, JobsAgree, WorkerAgrees
  <1>3. dater' = dater /\ tracked' = tracked /\ worker'[w].pc = "written"
    BY DEF Write, IInv, TypeOK
  <1>4. \A v \in Worker : WorkerAgrees(v)'
    BY <1>3 DEF OneWorker, WorkerAgrees
  <1>5. DaterAgrees'
    BY <1>1, <1>2, <1>3 DEF AInv, JobsAgree, DaterAgrees, Recorded
  <1>6. row.filled \in Nat /\ \A g \in FillTx : Total[g] \in Nat
    BY FillAssumption DEF IInv, TypeOK, Row
  <1>7. FilledIsHighestTotal'
    <2>1. \A g \in Ever : g \in FillTx /\ Total[g] <= row.filled
      BY DEF AInv, RowAgrees, FilledIsHighestTotal, Ever, Recorded, IInv, TypeOK
    <2>2. row.filled = 0 \/ \E g \in Ever : Total[g] = row.filled
      BY DEF AInv, RowAgrees, FilledIsHighestTotal, Ever
    <2>3. /\ row'.filled \in {row.filled, Total[f]}
          /\ row.filled <= row'.filled /\ Total[f] <= row'.filled
      BY <1>1, <1>6 DEF Greater
    <2>4. \A g \in Ever' : Total[g] <= row'.filled
      BY <1>1, <1>6, <2>1, <2>3
    <2>5. row'.filled = 0 \/ \E g \in Ever' : Total[g] = row'.filled
      BY <1>1, <2>2, <2>3
    <2> QED
      BY <2>4, <2>5 DEF FilledIsHighestTotal, Ever
  <1>8. FeeCountsRecorded'
    BY <1>1 DEF FeeCountsRecorded
  <1>9. TrackedStaysRecorded'
    BY <1>1, <1>2, <1>3 DEF AInv, RowAgrees, TrackedStaysRecorded
  <1> QED
    BY <1>1, <1>4, <1>5, <1>7, <1>8, <1>9 DEF AInv, JobsAgree, RowAgrees

LEMMA ReadDatesAgrees == AInv /\ ReadDates => AInv'
  <1> SUFFICES ASSUME AInv, ReadDates PROVE AInv'
    OBVIOUS
  <1>1. /\ dater' = dater \/ dater'.seen = row
        /\ UNCHANGED <<row, worker, tracked, erased>>
    BY DEF ReadDates
  <1>2. Recorded(row)' = Recorded(row) /\ Ever' = Ever
    BY <1>1 DEF Recorded, Ever
  <1>3. DaterAgrees'
    BY <1>1, <1>2 DEF AInv, JobsAgree, RowAgrees, TrackedStaysRecorded, DaterAgrees, Recorded
  <1>4. \A w \in Worker : WorkerAgrees(w)'
    BY <1>1, <1>2 DEF AInv, JobsAgree, WorkerAgrees, Recorded
  <1>5. RowAgrees'
    BY <1>1, <1>2
       DEF AInv, RowAgrees, FilledIsHighestTotal, FeeCountsRecorded, TrackedStaysRecorded
  <1> QED
    BY <1>3, <1>4, <1>5 DEF AInv, JobsAgree

LEMMA WriteDatesAgrees == IInv /\ AInv /\ WriteDates => AInv'
  <1> SUFFICES ASSUME IInv, AInv, WriteDates PROVE AInv'
    OBVIOUS
  <1>1. /\ dater.pc = "read" /\ row \in Row
        /\ tracked \subseteq Recorded(dater.seen)
        /\ Recorded(dater.seen) \subseteq Recorded(row)
    BY DEF WriteDates, IInv, TypeOK, AInv, JobsAgree, DaterAgrees
  <1>2. PICK f \in LatestFills(Recorded(dater.seen)) :
          /\ Update([row EXCEPT !.txs = dater.seen.txs,
                                !.dated = Recorded(dater.seen),
                                !.filledDate = Greater(FillTime[f], DepositTime)])
          /\ tracked' = tracked \cup {f}
    BY DEF WriteDates
  <1>3. f \in Recorded(dater.seen)
    BY <1>2 DEF LatestFills
  <1>4. /\ row'.txs = dater.seen.txs /\ row'.filled = row.filled
        /\ row'.status = row.status /\ row'.feeOver = row.feeOver
        /\ erased' = erased \cup (Recorded(row) \ Recorded(row'))
    BY <1>1, <1>2 DEF Update, Row
  <1>5. Recorded(row') = Recorded(dater.seen) /\ Recorded(row)' = Recorded(row')
    BY <1>4 DEF Recorded
  <1>6. Ever' = Ever
    BY <1>1, <1>4, <1>5 DEF Ever
  <1>7. dater'.pc = "idle" /\ worker' = worker
    BY DEF WriteDates, IdleDater
  <1>8. \A w \in Worker : WorkerAgrees(w)'
    BY <1>1, <1>4, <1>5, <1>6, <1>7 DEF AInv, JobsAgree, WorkerAgrees, Recorded
  <1>9. FilledIsHighestTotal'
    BY <1>4, <1>6 DEF AInv, RowAgrees, FilledIsHighestTotal, Ever
  <1>10. FeeCountsRecorded'
    BY <1>1, <1>4, <1>5, <1>6 DEF AInv, RowAgrees, FeeCountsRecorded, Ever
  <1>11. TrackedStaysRecorded'
    BY <1>1, <1>2, <1>3, <1>5 DEF TrackedStaysRecorded
  <1> QED
    BY <1>4, <1>7, <1>8, <1>9, <1>10, <1>11 DEF AInv, JobsAgree, RowAgrees, DaterAgrees

LEMMA OtherStepsAgree ==
    ASSUME IInv, AInv,
           \/ InsertRow \/ DateDeposit \/ CrashDater
           \/ \E w \in Worker : Publish(w) \/ Crash(w)
           \/ UNCHANGED vars
    PROVE  AInv'
  <1>1. CASE InsertRow \/ DateDeposit
    BY <1>1, AInvStable DEF InsertRow, DateDeposit, IInv, TypeOK, Row
  <1>2. CASE CrashDater
    BY <1>2, AInvStable DEF CrashDater, IdleDater
  <1>3. ASSUME NEW w \in Worker, Publish(w) \/ Crash(w) PROVE AInv'
    <2>1. \A v \in Worker : worker'[v].pc = "read" => worker'[v] = worker[v]
      BY <1>3 DEF Publish, Crash, IdleWorker, IInv, TypeOK
    <2> QED
      BY <1>3, <2>1, AInvStable DEF Publish, Crash
  <1>4. CASE UNCHANGED vars
    BY <1>4, AInvStable DEF vars
  <1> QED
    BY <1>1, <1>2, <1>3, <1>4

LEMMA NextAgrees == OneWorker /\ IInv /\ AInv /\ [Next]_vars => AInv'
  BY TakeAgrees, WriteAgrees, ReadDatesAgrees, WriteDatesAgrees, OtherStepsAgree
     DEF Next, Work, Date

LEMMA InductiveAgrees ==
    ASSUME OneWorker
    PROVE  Spec => []AInv
  <1>1. IInv /\ AInv /\ [Next]_vars => AInv'
    BY NextAgrees
  <1> QED
    BY <1>1, InitAgrees, Inductive, PTL DEF Spec

----------------------------------------------------------------------------
\* A fill consumer of one process: the amount is the highest total ever recorded, a
\* total read before an await notwithstanding.
THEOREM HighestTotalKept ==
    ASSUME OneWorker
    PROVE  Spec => []FilledIsHighestTotal
  <1>1. AInv => FilledIsHighestTotal
    BY DEF AInv, RowAgrees
  <1> QED
    BY <1>1, InductiveAgrees, PTL

\* computeBridgeFee and the stale write of fillTxs: the fee covers what is recorded, and
\* only what has been erased besides.
THEOREM FeeCoversFills ==
    ASSUME OneWorker
    PROVE  Spec => []FeeCountsRecorded
  <1>1. AInv => FeeCountsRecorded
    BY DEF AInv, RowAgrees
  <1> QED
    BY <1>1, InductiveAgrees, PTL

\* The TrackFillEvent job of a fill finds the fill, whatever the two consumers overwrite.
THEOREM TrackedFillsKept ==
    ASSUME OneWorker
    PROVE  Spec => []TrackedStaysRecorded
  <1>1. AInv => TrackedStaysRecorded
    BY DEF AInv, RowAgrees
  <1> QED
    BY <1>1, InductiveAgrees, PTL

LEMMA WriteRefines ==
    ASSUME IInv, AInv, NEW w \in Worker, Write(w)
    PROVE  Ledger!Next \/ UNCHANGED <<row.filled, row.status>>
  <1> DEFINE f == worker[w].fill
  <1>1. /\ f \in FillTx
        /\ row'.filled = Greater(row.filled, Total[f])
        /\ row'.status = StatusAt(row'.filled)
    BY WrittenRow
  <1>2. row.status = StatusAt(row.filled)
    BY DEF AInv, RowAgrees
  <1>3. row.filled \in Nat /\ Total[f] \in Nat
    BY <1>1, FillAssumption DEF IInv, TypeOK, Row
  <1>4. CASE row.filled < Total[f]
    <2>1. row'.filled = Total[f] /\ row'.status = StatusAt(Total[f])
      BY <1>1, <1>4 DEF Greater
    <2>2. Ledger!Fill(Total[f])
      BY <1>4, <2>1 DEF Ledger!Fill, Ledger!StatusAt, StatusAt
    <2> QED
      BY <1>1, <2>2 DEF Ledger!Next
  <1>5. CASE ~(row.filled < Total[f])
    BY <1>1, <1>2, <1>5 DEF Greater
  <1> QED
    BY <1>4, <1>5

LEMMA NextRefines ==
    ASSUME IInv, AInv, [Next]_vars
    PROVE  Ledger!Next \/ UNCHANGED <<row.filled, row.status>>
  <1>1. ASSUME NEW w \in Worker, Write(w)
        PROVE  Ledger!Next \/ UNCHANGED <<row.filled, row.status>>
    BY <1>1, WriteRefines
  <1>2. CASE InsertRow \/ DateDeposit
    BY <1>2 DEF InsertRow, DateDeposit, IInv, TypeOK, Row
  <1>3. CASE WriteDates
    BY <1>3 DEF WriteDates, Update, IInv, TypeOK, Row
  <1>4. CASE UNCHANGED row
    BY <1>4
  <1> QED
    BY <1>1, <1>2, <1>3, <1>4
       DEF Next, Work, Date, Take, Publish, Crash, ReadDates, CrashDater, vars

\* The detailed consumers implement the abstract ledger: filled and status move forward
\* only, to totals the chain reported, and filled means filled.
THEOREM ImplementsLedger ==
    ASSUME OneWorker
    PROVE  Spec => LedgerSpec
  <1>1. Init => Ledger!Init
    BY DEF Init, NewRow, Ledger!Init
  <1>2. IInv /\ AInv /\ [Next]_vars => [Ledger!Next]_(Ledger!ledgerVars)
    BY NextRefines DEF Ledger!ledgerVars
  <1> QED
    BY <1>1, <1>2, Inductive, InductiveAgrees, PTL DEF Spec, LedgerSpec, Ledger!Spec
=============================================================================
