------------------------------- MODULE SpeedUps -------------------------------
(***************************************************************************)
(* The speed-ups of a deposit of V2 or V2.5, each a message of the         *)
(* SpeedUpEvents queue that BlocksEventsConsumer publishes for every time  *)
(* it reads the event.  The consumer adds the speed-up to the row's, the   *)
(* latest block first, and gives the row the fee of the first, and its     *)
(* message and recipient, which an event of V2 does not have.              *)
(***************************************************************************)
EXTENDS Integers, FiniteSets, Sequences, SequencesExt

CONSTANTS
    SpeedUp,
    SpeedUpBlock,   \* [SpeedUp -> Nat]
    Updates,        \* [SpeedUp -> BOOLEAN] the event has a message and a recipient
    Original,       \* the deposit's own event
    Copies,         \* times that a speed-up is read
    MaxFaults       \* bound: jobs that fail

ASSUME SpeedUpsAssumption ==
    /\ SpeedUpBlock \in [SpeedUp -> Nat]
    /\ Updates \in [SpeedUp -> BOOLEAN]
    /\ Original \notin SpeedUp
    /\ Copies \in Nat
    /\ MaxFaults \in Nat

VARIABLES
    sped,           \* the row: whether it is there, speedUps, and the event each column is of
    requested,      \* [SpeedUp -> messages that wait]
    unread,         \* [SpeedUp -> times it has yet to be read]
    consumer,       \* the job of the one worker
    faults

speedVars == <<sped, requested, unread, consumer, faults>>

Source == SpeedUp \cup {Original}
SpedRow == [stored : BOOLEAN, speedUps : Seq(SpeedUp), fee : Source, recipient : Source]
NoJob == [pc |-> "idle"]

SpeedTypeOK ==
    /\ sped \in SpedRow
    /\ requested \in [SpeedUp -> Nat]
    /\ unread \in [SpeedUp -> 0..Copies]
    /\ consumer \in {NoJob} \cup [pc : {"write"}, speedUp : SpeedUp, row : SpedRow]
    /\ faults \in 0..MaxFaults

SpeedInit ==
    /\ sped = [stored |-> FALSE, speedUps |-> <<>>, fee |-> Original, recipient |-> Original]
    /\ requested = [s \in SpeedUp |-> 0]
    /\ unread = [s \in SpeedUp |-> Copies]
    /\ consumer = NoJob
    /\ faults = 0

----------------------------------------------------------------------------
Has(row, s) == \E i \in DOMAIN row.speedUps : row.speedUps[i] = s

StoreSped ==
    /\ ~sped.stored
    /\ sped' = [sped EXCEPT !.stored = TRUE]
    /\ UNCHANGED <<requested, unread, consumer, faults>>

\* processSpeedUpEvents, of the deposit's blocks or of others, before or after its row.
PublishSpeedUp(s) ==
    /\ unread[s] > 0
    /\ unread' = [unread EXCEPT ![s] = @ - 1]
    /\ requested' = [requested EXCEPT ![s] = @ + 1]
    /\ UNCHANGED <<sped, consumer, faults>>

\* findOne of the deposit, without which the job throws; a speed-up the row has is done.
TakeSpedUp(s) ==
    /\ consumer = NoJob
    /\ requested[s] > 0
    /\ sped.stored
    /\ requested' = [requested EXCEPT ![s] = @ - 1]
    /\ consumer' = IF Has(sped, s) THEN NoJob
                   ELSE [pc |-> "write", speedUp |-> s, row |-> sped]
    /\ UNCHANGED <<sped, unread, faults>>

\* Mutated form of ByBlock: the speed-up that comes last is the first.
ByArrival(speedUps, s) == <<s>> \o speedUps

\* The sort of [...speedUps, s] by block, the latest first, which is stable.
ByBlock(speedUps, s) ==
    LET before == Cardinality({i \in 1..Len(speedUps) :
                                  SpeedUpBlock[speedUps[i]] >= SpeedUpBlock[s]})
    IN  InsertAt(speedUps, before + 1, s)

\* The row that the job writes.
Written(row, s) ==
    LET speedUps == ByBlock(row.speedUps, s)
    IN  [row EXCEPT !.speedUps = speedUps,
                    !.fee = speedUps[1],
                    !.recipient = IF Updates[speedUps[1]] THEN speedUps[1] ELSE @]

WriteSpedUp ==
    /\ consumer # NoJob
    /\ sped' = Written(consumer.row, consumer.speedUp)
    /\ consumer' = NoJob
    /\ UNCHANGED <<requested, unread, faults>>

\* The process dies before the write or after it, and the message is delivered again.
FailSpeedUp ==
    /\ consumer # NoJob
    /\ faults < MaxFaults
    /\ faults' = faults + 1
    /\ sped' \in {sped, Written(consumer.row, consumer.speedUp)}
    /\ requested' = [requested EXCEPT ![consumer.speedUp] = @ + 1]
    /\ consumer' = NoJob
    /\ UNCHANGED unread

SpeedNext ==
    \/ StoreSped
    \/ \E s \in SpeedUp : PublishSpeedUp(s) \/ TakeSpedUp(s)
    \/ WriteSpedUp
    \/ FailSpeedUp

----------------------------------------------------------------------------
(***************************************************************************)
(* Once no message of a speed-up is left, the row has it, and has the fee  *)
(* of the latest and, if the events are of V2.5, its message and           *)
(* recipient: the order and the number of the deliveries leave no trace.   *)
(***************************************************************************)
LatestSpeedUp ==
    LET done == {s \in SpeedUp : requested[s] = 0 /\ unread[s] < Copies
                                 /\ (consumer = NoJob \/ consumer.speedUp # s)}
        latest(s) == \A u \in SpeedUp : Has(sped, u) => SpeedUpBlock[u] <= SpeedUpBlock[s]
    IN  /\ \A s \in done : Has(sped, s) /\ SpeedUpBlock[s] <= SpeedUpBlock[sped.fee]
        /\ \A i, j \in DOMAIN sped.speedUps : sped.speedUps[i] = sped.speedUps[j] => i = j
        /\ sped.fee # Original => latest(sped.fee)
        /\ (\A s \in SpeedUp : Updates[s]) => sped.recipient = sped.fee
=============================================================================
