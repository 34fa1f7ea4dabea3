----------------------------- MODULE DepositsV3 -----------------------------
(***************************************************************************)
(* One V3 deposit and the three consumers that write its row:              *)
(* FillEventsV3Consumer, SpeedUpEventsV3Consumer and                       *)
(* DepositFilledDateConsumer.  The chain fills a V3 deposit once; its      *)
(* depositor may ask for any number of speed-ups, before or after.         *)
(*                                                                         *)
(* outputAmount, recipientAddr and message are written by the insert, the  *)
(* fill and the speed-ups alike.  What matters is whose values they hold,  *)
(* so each of them is the event that wrote it last: Origin for the deposit *)
(* event, Filled for the fill, or a speed-up.                              *)
(*                                                                         *)
(* Each queue has one worker; a worker reads the row, awaits, and writes.  *)
(***************************************************************************)
EXTENDS Integers, FiniteSets, Sequences, SequencesExt

CONSTANTS
    SpeedUp,        \* speed-up events, each with its transaction hash
    SpeedUpBlock,   \* [SpeedUp -> Nat] blockNumber
    Origin, Filled, \* the deposit event and the fill event
    Copies,         \* deliveries of each event
    MaxCrashes      \* bound: jobs that fail between two of their steps

ASSUME DepositAssumption ==
    /\ SpeedUpBlock \in [SpeedUp -> Nat]
    /\ Origin # Filled /\ {Origin, Filled} \cap SpeedUp = {}
    /\ Copies \in Nat
    /\ MaxCrashes \in Nat

Event == SpeedUp \cup {Filled}
Source == Event \cup {Origin}

VARIABLES
    row,            \* the deposit
    queue,          \* [Event -> messages waiting in the queue of the event]
    filler,         \* the job of the FillEventsV3 worker
    speeder,        \* the job of the SpeedUpEventsV3 worker
    dater,          \* the job of the DepositFilledDate worker
    published,      \* messages published after a fill: dates waiting, fees ever
    early,          \* deliveries of the fill that came before the deposit
    crashes

vars == <<row, queue, filler, speeder, dater, published, early, crashes>>

Row == [exists : BOOLEAN, depositDated : BOOLEAN, status : {"pending", "filled"},
        outputAmount : Source, recipientAddr : Source, message : Source,
        feePct : Source, speedUps : Seq(SpeedUp),
        fillTxs : Nat, fillDated : BOOLEAN, filledDate : BOOLEAN]

NewRow == [exists |-> FALSE, depositDated |-> FALSE, status |-> "pending",
           outputAmount |-> Origin, recipientAddr |-> Origin, message |-> Origin,
           feePct |-> Origin, speedUps |-> <<>>,
           fillTxs |-> 0, fillDated |-> FALSE, filledDate |-> FALSE]

IdleJob == [pc |-> "idle", seen |-> NewRow]
IdleSpeeder == [pc |-> "idle", seen |-> NewRow, event |-> Origin]

Init ==
    /\ row = NewRow
    /\ queue = [e \in Event |-> Copies]
    /\ filler = IdleJob
    /\ speeder = IdleSpeeder
    /\ dater = IdleJob
    /\ published = [dates |-> 0, fees |-> 0]
    /\ early = 0
    /\ crashes = 0

----------------------------------------------------------------------------
\* BlocksEventsConsumer inserts the deposit.
InsertRow ==
    /\ ~row.exists
    /\ row' = [row EXCEPT !.exists = TRUE]
    /\ UNCHANGED <<queue, filler, speeder, dater, published, early, crashes>>

\* BlockNumberConsumer sets depositDate.
DateDeposit ==
    /\ row.exists /\ ~row.depositDated
    /\ row' = [row EXCEPT !.depositDated = TRUE]
    /\ UNCHANGED <<queue, filler, speeder, dater, published, early, crashes>>

\* Mutated form of TakeFill: the check for a processed fill is dropped.
TakeAnyFill ==
    /\ filler.pc = "idle"
    /\ queue[Filled] > 0
    /\ queue' = [queue EXCEPT ![Filled] = @ - 1]
    /\ early' = IF row.exists THEN early ELSE early + 1
    /\ filler' = IF row.exists THEN [pc |-> "read", seen |-> row] ELSE filler
    /\ UNCHANGED <<row, speeder, dater, published, crashes>>

\* findOne of FillEventsV3Consumer: unlike the V2 consumers it returns, and the delivery
\* is used up, when there is no deposit.
TakeFill ==
    /\ filler.pc = "idle"
    /\ queue[Filled] > 0
    /\ queue' = [queue EXCEPT ![Filled] = @ - 1]
    /\ early' = IF row.exists THEN early ELSE early + 1
    /\ filler' = IF row.exists /\ row.fillTxs = 0 THEN [pc |-> "read", seen |-> row] ELSE filler
    /\ UNCHANGED <<row, speeder, dater, published, crashes>>

\* Mutated form of WriteFill: the row is saved as it was read, not column by column.
SaveFilledRow ==
    /\ filler.pc = "read"
    /\ row' = [filler.seen EXCEPT !.status = "filled",
                                  !.outputAmount = Filled, !.recipientAddr = Filled,
                                  !.fillTxs = @ + 1]
    /\ filler' = [pc |-> "written", seen |-> NewRow]
    /\ UNCHANGED <<queue, speeder, dater, published, early, crashes>>

\* depositRepository.update of the fill.  fillTxs holds the entries for the one fill.
WriteFill ==
    /\ filler.pc = "read"
    /\ row' = [row EXCEPT !.status = "filled",
                          !.outputAmount = Filled, !.recipientAddr = Filled,
                          !.fillTxs = filler.seen.fillTxs + 1,
                          !.fillDated = filler.seen.fillDated]
    /\ filler' = [pc |-> "written", seen |-> NewRow]
    /\ UNCHANGED <<queue, speeder, dater, published, early, crashes>>

\* The messages to DepositFilledDate, FeeBreakdown and CappedBridgeFee.
PublishFill ==
    /\ filler.pc = "written"
    /\ published' = [dates |-> published.dates + 1, fees |-> published.fees + 1]
    /\ filler' = IdleJob
    /\ UNCHANGED <<row, queue, speeder, dater, early, crashes>>

----------------------------------------------------------------------------
\* findOne of SpeedUpEventsV3Consumer, which throws, to be retried, without a deposit.
TakeSpeedUp(s) ==
    /\ speeder.pc = "idle"
    /\ queue[s] > 0
    /\ row.exists
    /\ queue' = [queue EXCEPT ![s] = @ - 1]
    /\ speeder' = IF Contains(row.speedUps, s) THEN speeder
                  ELSE [pc |-> "read", seen |-> row, event |-> s]
    /\ UNCHANGED <<row, filler, dater, published, early, crashes>>

\* Mutated form of SortedSpeedUps: the last one to be processed comes first.
PrependedSpeedUps(speedUps, s) == <<s>> \o speedUps

\* The speed-ups in descending order of their blocks.  sort is stable, and s is appended.
SortedSpeedUps(speedUps, s) ==
    LET before == Cardinality({i \in 1..Len(speedUps) :
                                  SpeedUpBlock[speedUps[i]] >= SpeedUpBlock[s]})
    IN  InsertAt(speedUps, before + 1, s)

\* depositRepository.update of the speed-up.  The fee comes from the speed-up that is
\* processed, the other columns from the one that sorts first.
WriteSpeedUp ==
    /\ speeder.pc = "read"
    /\ LET sorted == SortedSpeedUps(speeder.seen.speedUps, speeder.event)
       IN  row' = [row EXCEPT !.speedUps = sorted,
                              !.message = sorted[1],
                              !.recipientAddr = sorted[1],
                              !.outputAmount = sorted[1],
                              !.feePct = speeder.event]
    /\ speeder' = IdleSpeeder
    /\ UNCHANGED <<queue, filler, dater, published, early, crashes>>

----------------------------------------------------------------------------
\* findOne of DepositFilledDateConsumer.
ReadDates ==
    /\ dater.pc = "idle"
    /\ published.dates > 0
    /\ row.status = "filled" => row.depositDated
    /\ published' = [published EXCEPT !.dates = @ - 1]
    /\ dater' = IF row.status = "filled" THEN [pc |-> "read", seen |-> row] ELSE dater
    /\ UNCHANGED <<row, queue, filler, speeder, early, crashes>>

\* The block of the fill is fetched, and fillTxs and filledDate are written; a V3 fill
\* is sent to TrackFillEvent too, which ignores it.
WriteDates ==
    /\ dater.pc = "read"
    /\ row' = [row EXCEPT !.fillTxs = dater.seen.fillTxs, !.fillDated = TRUE, !.filledDate = TRUE]
    /\ dater' = IdleJob
    /\ UNCHANGED <<queue, filler, speeder, published, early, crashes>>

\* A job fails between two of its steps, and its message is delivered again.
CountCrash == crashes < MaxCrashes /\ crashes' = crashes + 1

CrashFiller ==
    /\ filler.pc # "idle"
    /\ CountCrash
    /\ queue' = [queue EXCEPT ![Filled] = @ + 1]
    /\ filler' = IdleJob
    /\ UNCHANGED <<row, speeder, dater, published, early>>

CrashSpeeder ==
    /\ speeder.pc # "idle"
    /\ CountCrash
    /\ queue' = [queue EXCEPT ![speeder.event] = @ + 1]
    /\ speeder' = IdleSpeeder
    /\ UNCHANGED <<row, filler, dater, published, early>>

CrashDater ==
    /\ dater.pc # "idle"
    /\ CountCrash
    /\ published' = [published EXCEPT !.dates = @ + 1]
    /\ dater' = IdleJob
    /\ UNCHANGED <<row, queue, filler, speeder, early>>

----------------------------------------------------------------------------
FillStep == TakeFill \/ WriteFill \/ PublishFill
SpeedUpStep == (\E s \in SpeedUp : TakeSpeedUp(s)) \/ WriteSpeedUp
DateStep == ReadDates \/ WriteDates

Next ==
    \/ InsertRow \/ DateDeposit
    \/ FillStep \/ SpeedUpStep \/ DateStep
    \/ CrashFiller \/ CrashSpeeder \/ CrashDater

\* As in FillEvents.
Fairness ==
    /\ WF_vars(InsertRow) /\ WF_vars(DateDeposit)
    /\ WF_vars(FillStep) /\ WF_vars(SpeedUpStep) /\ WF_vars(DateStep)

Spec == Init /\ [][Next]_vars
FairSpec == Spec /\ Fairness

----------------------------------------------------------------------------
Job == [pc : {"idle", "read", "written"}, seen : Row]

TypeOK ==
    /\ row \in Row
    /\ queue \in [Event -> Nat]
    /\ filler \in Job
    /\ speeder \in [pc : {"idle", "read"}, seen : Row, event : Source]
    /\ dater \in Job
    /\ published \in [dates : Nat, fees : Nat]
    /\ early \in Nat
    /\ crashes \in 0..MaxCrashes

(***************************************************************************)
(* The amount and the recipient come from one and the same event: the fill *)
(* or the latest speed-up known, never one that a later one replaced.  The *)
(* message, which a fill does not write, is that of the latest speed-up.   *)
(***************************************************************************)
LatestSpeedUp == IF row.speedUps = <<>> THEN Origin ELSE row.speedUps[1]
LatestWins ==
    /\ row.message = LatestSpeedUp
    /\ row.outputAmount \in {LatestSpeedUp, Filled}
    /\ row.recipientAddr = row.outputAmount
    /\ \A i \in 1..Len(row.speedUps) :
          SpeedUpBlock[row.speedUps[i]] <= SpeedUpBlock[LatestSpeedUp]

(***************************************************************************)
(* A V3 deposit keeps the promise of DepositLedger, in one step from       *)
(* nothing to all: its fill is recorded once, exactly when it is filled,   *)
(* DepositFilledDate, which rewrites fillTxs from the row it read, never   *)
(* drops it, and a filled deposit never turns pending.                     *)
(***************************************************************************)
Ledger == INSTANCE DepositLedger WITH
    Amount <- 1, Totals <- {1},
    filled <- row.fillTxs,
    status <- row.status
LedgerSpec == Ledger!Spec

(***************************************************************************)
(* The deposit is filled in the end, unless every delivery of its fill     *)
(* came before the deposit and was dropped, and its fees are asked for     *)
(* once, unless a job failed between the write and the message; and every  *)
(* speed-up is recorded in the end, those that came before the deposit and *)
(* those of a deposit filled already included.                             *)
(***************************************************************************)
EventsSettle ==
    <>[](/\ row.status = "filled" \/ early >= Copies
         /\ row.status = "filled" /\ crashes = 0 => published.fees = 1
         /\ \A s \in SpeedUp : Contains(row.speedUps, s))
=============================================================================
