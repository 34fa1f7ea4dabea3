----------------------------- MODULE Enrichment -----------------------------
(***************************************************************************)
(* The jobs that fill the columns of a deposit's row, each of which reads  *)
(* the row, throws to be delivered again while a column it needs is empty, *)
(* writes its own and publishes the next job.  BlockNumber leads to        *)
(* TokenDetails, TokenPrice and DepositAcxPrice, and to SuggestedFees and  *)
(* DepositReferral; the fill of the deposit leads to DepositFilledDate,    *)
(* which leads to TrackFillEvent, to FeeBreakdown, which leads to          *)
(* OpRebateReward, and to CappedBridgeFee.                                 *)
(*                                                                         *)
(* No job empties a column, so what a job has read of the row still holds  *)
(* when it writes, and a job is one step: it ends well, or its process     *)
(* dies after the write with some of the next jobs published.  A second    *)
(* copy of a message that waits would find the same columns: the queues    *)
(* are sets.  Blocks, tokens and prices are fetched once and kept in a     *)
(* table; the insert of a row another job has just inserted violates its   *)
(* key, which fails the job, as does a node that does not answer.          *)
(***************************************************************************)
EXTENDS DepositRows, Integers, Sequences

CONSTANTS
    Token, NoToken,
    SourceToken,    \* [Deposit -> Token]
    OutputAddress,  \* [Deposit -> the output token of the event, ZeroAddress, or NoToken (V2.5)]
    ZeroAddress,
    SameSymbol,     \* [Deposit -> tokens of the destination chain with the symbol looked for]
    Unpriced,       \* tokens whose symbol CoinGeckoService does not map, or has no price of
    Unpaired,       \* deposits of V3 whose tokens computeBridgeFeePctForV3Deposit does not pair
    Negative,       \* deposits of V2.5 whose bridge fee comes out negative
    MaxDeaths,      \* bound: processes that die
    MaxRequests     \* bound: requests of an operator to begin again

ASSUME EnrichmentAssumption ==
    /\ NoToken \notin Token
    /\ ZeroAddress \notin Token \cup {NoToken}
    /\ SourceToken \in [Deposit -> Token]
    /\ OutputAddress \in [Deposit -> Token \cup {ZeroAddress, NoToken}]
    /\ SameSymbol \in [Deposit -> SUBSET Token]
    /\ Unpriced \subseteq Token
    /\ Unpaired \subseteq {d \in Deposit : OutputAddress[d] # NoToken}
    /\ Negative \subseteq {d \in Deposit : OutputAddress[d] = NoToken}
    /\ MaxDeaths \in Nat
    /\ MaxRequests \in Nat

VARIABLES
    announced,      \* deposits that BlocksEventsConsumer has stored and published
    parts,          \* deposits of V2.5 filled in part: once, which is the bound
    filled,         \* deposits with status filled
    columns,        \* [Deposit -> columns that have a value]
    output,         \* [Deposit -> outputTokenAddress]
    cached,         \* table token
    queued,         \* messages that wait: a queue and a deposit
    handed,         \* messages on the queues whose jobs are other modules'
    lost,           \* messages whose publishing was not awaited, and never happened
    deaths,
    requests

vars == <<announced, parts, filled, columns, output, cached, queued, handed, lost, deaths,
          requests>>

\* "tracked" is no column: the fill has been told to Amplitude, which fills of V3 are not.
Column == {"date", "token", "price", "acx", "suggested", "filledDate", "tracked", "breakdown",
           "bridgeFee"}

Job == {"BlockNumber", "TokenDetails", "TokenPrice", "DepositAcxPrice", "SuggestedFees",
        "DepositFilledDate", "TrackFillEvent", "FeeBreakdown", "CappedBridgeFee"}
Elsewhere == {"DepositReferral", "OpRebateReward"}

Message == Job \X Deposit

Init ==
    /\ announced = {}
    /\ parts = {}
    /\ filled = {}
    /\ columns = [d \in Deposit |-> {}]
    /\ output = OutputAddress
    /\ cached = {}
    /\ queued = {}
    /\ handed = {}
    /\ lost = {}
    /\ deaths = 0
    /\ requests = 0

----------------------------------------------------------------------------
\* The jobs a job publishes, one after the other, before it ends.
Awaited(k) ==
    CASE k = "BlockNumber"  -> <<"TokenDetails", "DepositReferral", "SuggestedFees">>
      [] k = "TokenDetails" -> <<"TokenPrice">>
      [] OTHER              -> <<>>

\* The job it publishes without waiting for it.
NotAwaited(k) ==
    CASE k = "TokenPrice"        -> {"DepositAcxPrice"}
      [] k = "DepositFilledDate" -> {"TrackFillEvent"}
      [] k = "FeeBreakdown"      -> {"OpRebateReward"}
      [] OTHER                   -> {}

WrittenBy(k) ==
    CASE k = "BlockNumber"       -> "date"
      [] k = "TokenDetails"      -> "token"
      [] k = "TokenPrice"        -> "price"
      [] k = "DepositAcxPrice"   -> "acx"
      [] k = "SuggestedFees"     -> "suggested"
      [] k = "DepositFilledDate" -> "filledDate"
      [] k = "TrackFillEvent"    -> "tracked"
      [] k = "FeeBreakdown"      -> "breakdown"
      [] k = "CappedBridgeFee"   -> "bridgeFee"

\* The columns without which it throws; the token and the price of the output go with
\* those of the input.
Needed(k) ==
    CASE k = "TokenPrice"     -> {"date", "token"}
      [] k = "TrackFillEvent" -> {"date", "token", "price"}
      [] k \in {"DepositAcxPrice", "SuggestedFees", "DepositFilledDate"} -> {"date"}
      [] k \in {"FeeBreakdown", "CappedBridgeFee"} -> {"token", "price"}
      [] OTHER                -> {}

\* Mutated form of NothingToDo: a job returns, too, while a column it needs is empty.
NothingYet(k, d) ==
    \/ ~(Needed(k) \subseteq columns[d])
    \/ k \in {"DepositFilledDate", "FeeBreakdown"} /\ d \notin filled
    \/ k = "CappedBridgeFee" /\ output[d] = NoToken

\* A filled date and a breakdown that find no fill, and a capped fee of a deposit of V2, return.
NothingToDo(k, d) ==
    \/ k \in {"DepositFilledDate", "FeeBreakdown"} /\ d \notin filled
    \/ k = "CappedBridgeFee" /\ output[d] = NoToken

\* What the consumers of V2.5 and V3 publish of a fill; the one of V2 leaves out the breakdown.
FillJobs(d) == {"DepositFilledDate", "FeeBreakdown"}
               \cup IF OutputAddress[d] = NoToken THEN {} ELSE {"CappedBridgeFee"}

\* The price of the input or of the output cannot be had, now or later.
NoPrice(d) == {SourceToken[d], output[d]} \cap Unpriced # {}

\* CappedBridgeFee waits for the fill as well; both fee jobs throw on tokens that do not pair,
\* and TokenPrice on one without a price.
Waits(k, d) ==
    \/ ~(Needed(k) \subseteq columns[d])
    \/ k = "TokenPrice" /\ NoPrice(d)
    \/ k = "CappedBridgeFee" /\ d \notin filled
    \/ k \in {"FeeBreakdown", "CappedBridgeFee"} /\ d \in Unpaired

\* Messages of the jobs `ks`, for d.
To(ks, d) == {<<k, d>> : k \in ks}

\* The messages that are waiting after `published` are added to some.
Publish(some, published) ==
    /\ queued' = some \cup {m \in published : m[1] \in Job}
    /\ handed' = handed \cup {m \in published : m[1] \in Elsewhere}

----------------------------------------------------------------------------
\* The tokens that may be the output: the one of the event, or a token of the table with
\* the symbol; after the first time the row holds its address.
OutputTokens(d) ==
    CASE output[d] = NoToken     -> {NoToken}
      [] output[d] = ZeroAddress -> SameSymbol[d] \cap cached
      [] OTHER                   -> {output[d]}

\* TokenDetails writes the output too, and keeps both tokens; without an output it throws,
\* and the input has been kept.
FindTokens(d, t) ==
    /\ t \in OutputTokens(d)
    /\ output' = [output EXCEPT ![d] = t]
    /\ cached' = cached \cup ({SourceToken[d], t} \ {NoToken})

\* What a job does to the row: TokenDetails is the one that does more than write a column.
WriteRow(k, d) ==
    /\ columns' = [columns EXCEPT ![d] = @ \cup {WrittenBy(k)}]
    /\ IF k = "TokenDetails" THEN \E t \in OutputTokens(d) : FindTokens(d, t)
       ELSE UNCHANGED <<output, cached>>

\* BlocksEventsConsumer inserts the row and publishes it.
Announce(d) ==
    /\ d \notin announced
    /\ announced' = announced \cup {d}
    /\ queued' = queued \cup {<<"BlockNumber", d>>}
    /\ UNCHANGED <<parts, filled, columns, output, cached, handed, lost, deaths, requests>>

\* A fill of V2.5 in part publishes the same jobs, which find the deposit pending, or filled
\* meanwhile.
FillInPart(d) ==
    /\ d \in announced \ (filled \cup parts)
    /\ OutputAddress[d] = NoToken
    /\ parts' = parts \cup {d}
    /\ queued' = queued \cup To(FillJobs(d), d)
    /\ UNCHANGED <<announced, filled, columns, output, cached, handed, lost, deaths, requests>>

\* The fill consumers write the fill and publish its jobs, without waiting: a process that
\* dies keeps `kept` of them from being published.
Fill(d, kept) ==
    /\ d \in announced \ filled
    /\ kept \subseteq FillJobs(d)
    /\ kept # {} => deaths < MaxDeaths
    /\ filled' = filled \cup {d}
    /\ queued' = queued \cup To(FillJobs(d) \ kept, d)
    /\ lost' = lost \cup To(kept, d)
    /\ deaths' = IF kept = {} THEN deaths ELSE deaths + 1
    /\ UNCHANGED <<announced, parts, columns, output, cached, handed, requests>>

\* The job ends: what it has to write is there, and the next jobs are published.
Run(k, d) ==
    LET next == To({Awaited(k)[i] : i \in DOMAIN Awaited(k)} \cup NotAwaited(k), d)
    IN  /\ <<k, d>> \in queued
        /\ ~NothingToDo(k, d)
        /\ ~Waits(k, d)
        /\ WriteRow(k, d)
        /\ Publish(queued \ {<<k, d>>}, next)
        /\ lost' = lost \ next
        /\ UNCHANGED <<announced, parts, filled, deaths, requests>>

\* A message with nothing to do is done.
Return(k, d) ==
    /\ <<k, d>> \in queued
    /\ NothingToDo(k, d)
    /\ queued' = queued \ {<<k, d>>}
    /\ UNCHANGED <<announced, parts, filled, columns, output, cached, handed, lost, deaths,
                   requests>>

\* TokenDetails finds no output token in the table, and throws.
MissOutput(d) ==
    /\ <<"TokenDetails", d>> \in queued
    /\ OutputTokens(d) = {}
    /\ cached' = cached \cup {SourceToken[d]}
    /\ UNCHANGED <<announced, parts, filled, columns, output, queued, handed, lost, deaths,
                   requests>>

\* Mutated form of DieInJob: the message is acknowledged before the job runs.
DieAcknowledged(k, d, n) ==
    /\ <<k, d>> \in queued
    /\ ~NothingToDo(k, d)
    /\ ~Waits(k, d)
    /\ deaths < MaxDeaths
    /\ deaths' = deaths + 1
    /\ n \in 0..Len(Awaited(k))
    /\ WriteRow(k, d)
    /\ Publish(queued \ {<<k, d>>}, To({Awaited(k)[i] : i \in 1..n}, d))
    /\ lost' = lost \ To({Awaited(k)[i] : i \in 1..n}, d)
    /\ UNCHANGED <<announced, parts, filled, requests>>

\* The process dies after the write and the first n publishings: the message is delivered
\* again.
DieInJob(k, d, n) ==
    /\ <<k, d>> \in queued
    /\ ~NothingToDo(k, d)
    /\ ~Waits(k, d)
    /\ deaths < MaxDeaths
    /\ deaths' = deaths + 1
    /\ n \in 0..Len(Awaited(k))
    /\ WriteRow(k, d)
    /\ Publish(queued, To({Awaited(k)[i] : i \in 1..n}, d))
    /\ lost' = lost \ To({Awaited(k)[i] : i \in 1..n}, d)
    /\ UNCHANGED <<announced, parts, filled, requests>>

\* The process dies when the job has ended, before what it did not await is published.
DieAfterJob(k, d) ==
    /\ <<k, d>> \in queued
    /\ ~NothingToDo(k, d)
    /\ ~Waits(k, d)
    /\ NotAwaited(k) # {}
    /\ deaths < MaxDeaths
    /\ deaths' = deaths + 1
    /\ WriteRow(k, d)
    /\ queued' = queued \ {<<k, d>>}
    /\ lost' = lost \cup (To(NotAwaited(k), d) \ (queued \cup handed))
    /\ UNCHANGED <<announced, parts, filled, handed, requests>>

----------------------------------------------------------------------------
\* retryIncompleteDeposits: an operator has the deposits with an empty column, of those it
\* looks at, begin again.
Incomplete == {d \in announced : ~({"date", "price", "token", "acx"} \subseteq columns[d])}

RetryIncompleteDeposits ==
    /\ Incomplete # {}
    /\ queued' = queued \cup {<<"BlockNumber", d>> : d \in Incomplete}
    /\ requests < MaxRequests
    /\ requests' = requests + 1
    /\ UNCHANGED <<announced, parts, filled, columns, output, cached, handed, lost, deaths>>

\* backfillFeeBreakdown: the same for filled deposits without a breakdown.
NotBroken == {d \in filled : {"date", "price", "token"} \subseteq columns[d]
                             /\ "breakdown" \notin columns[d]}

BackfillFeeBreakdown ==
    /\ NotBroken # {}
    /\ queued' = queued \cup {<<"FeeBreakdown", d>> : d \in NotBroken}
    /\ requests < MaxRequests
    /\ requests' = requests + 1
    /\ lost' = lost \ {<<"FeeBreakdown", d>> : d \in NotBroken}
    /\ UNCHANGED <<announced, parts, filled, columns, output, cached, handed, deaths>>

\* backfillFilledDate: the same for filled deposits without a filled date.
NotDated == {d \in filled : "date" \in columns[d] /\ "filledDate" \notin columns[d]}

BackfillFilledDate ==
    /\ NotDated # {}
    /\ queued' = queued \cup {<<"DepositFilledDate", d>> : d \in NotDated}
    /\ requests < MaxRequests
    /\ requests' = requests + 1
    /\ lost' = lost \ {<<"DepositFilledDate", d>> : d \in NotDated}
    /\ UNCHANGED <<announced, parts, filled, columns, output, cached, handed, deaths>>

\* fixBridgeFee: both fee jobs for the deposits with a negative fee, which are of V2.
FixBridgeFee ==
    /\ Negative \cap filled # {}
    /\ queued' = queued \cup ({"CappedBridgeFee", "FeeBreakdown"} \X (Negative \cap filled))
    /\ requests < MaxRequests
    /\ requests' = requests + 1
    /\ lost' = lost \ ({"FeeBreakdown"} \X (Negative \cap filled))
    /\ UNCHANGED <<announced, parts, filled, columns, output, cached, handed, deaths>>

----------------------------------------------------------------------------
Deliver(k, d) == Run(k, d) \/ Return(k, d) \/ (k = "TokenDetails" /\ MissOutput(d))

Next ==
    \/ \E d \in Deposit : Announce(d) \/ FillInPart(d)
    \/ \E d \in Deposit : \E kept \in SUBSET FillJobs(d) : Fill(d, kept)
    \/ \E k \in Job, d \in Deposit : Deliver(k, d)
    \/ \E k \in Job, d \in Deposit, n \in 0..3 : DieInJob(k, d, n)
    \/ \E k \in Job, d \in Deposit : DieAfterJob(k, d)
    \/ RetryIncompleteDeposits
    \/ BackfillFeeBreakdown
    \/ BackfillFilledDate
    \/ FixBridgeFee

Spec == Init /\ [][Next]_vars

\* The workers go on: of the messages that can be done one is, sooner or later.
DeliverOne == \E k \in Job, d \in Deposit : Run(k, d) \/ Return(k, d)

FairSpec == Spec /\ WF_vars(DeliverOne)

----------------------------------------------------------------------------
TypeOK ==
    /\ announced \subseteq Deposit
    /\ parts \cup filled \subseteq announced
    /\ columns \in [Deposit -> SUBSET Column]
    /\ output \in [Deposit -> Token \cup {ZeroAddress, NoToken}]
    /\ cached \subseteq Token
    /\ queued \subseteq Message
    /\ handed \subseteq Elsewhere \X Deposit
    /\ lost \subseteq (Job \cup Elsewhere) \X Deposit
    /\ deaths \in 0..MaxDeaths
    /\ requests \in 0..MaxRequests

\* A message that leads to the job of the column waits, or was lost.
Coming(ks, d) == \E k \in ks : <<k, d>> \in queued \/ <<k, d>> \in lost

Chain == {"BlockNumber", "TokenDetails", "TokenPrice"}

(***************************************************************************)
(* No column is forgotten: while one is empty, a message that leads to it  *)
(* waits, in spite of the processes that die between the write of a job    *)
(* and what it publishes, or the message is one of those whose publishing  *)
(* is not awaited and was lost.                                            *)
(***************************************************************************)
NeverStranded ==
    /\ \A d \in announced :
        /\ "token" \in columns[d] \/ Coming({"BlockNumber", "TokenDetails"}, d)
        /\ "price" \in columns[d] \/ Coming(Chain, d)
        /\ "acx" \in columns[d] \/ Coming(Chain \cup {"DepositAcxPrice"}, d)
        /\ "suggested" \in columns[d] \/ Coming({"BlockNumber", "SuggestedFees"}, d)
        /\ <<"DepositReferral", d>> \in handed \/ Coming({"BlockNumber"}, d)
    /\ \A d \in filled :
        /\ "filledDate" \in columns[d] \/ Coming({"DepositFilledDate"}, d)
        /\ "tracked" \in columns[d] \/ Coming({"DepositFilledDate", "TrackFillEvent"}, d)
        /\ "breakdown" \in columns[d] \/ Coming({"FeeBreakdown"}, d)
        /\ \/ "bridgeFee" \in columns[d]
           \/ Coming({"CappedBridgeFee"}, d)
           \/ output[d] = NoToken
        /\ <<"OpRebateReward", d>> \in handed \/ Coming({"FeeBreakdown", "OpRebateReward"}, d)

\* The price, what goes by it, and what goes by the price and the fill.
Priced(d) ==
    /\ "price" \in columns[d]
    /\ "acx" \in columns[d] \/ <<"DepositAcxPrice", d>> \in lost
    /\ d \in filled =>
        \/ "tracked" \in columns[d]
        \/ <<"DepositFilledDate", d>> \in lost
        \/ <<"TrackFillEvent", d>> \in lost
    /\ d \in filled \ Unpaired =>
        /\ "breakdown" \in columns[d] \/ <<"FeeBreakdown", d>> \in lost
        /\ "bridgeFee" \in columns[d] \/ <<"CappedBridgeFee", d>> \in lost \/ output[d] = NoToken

\* Only what was lost is missing, the fees of a deposit whose tokens do not pair, and all that
\* goes by the price of one that has none.
Enriched(d) ==
    /\ {"date", "token", "suggested"} \subseteq columns[d]
    /\ d \in filled => "filledDate" \in columns[d] \/ <<"DepositFilledDate", d>> \in lost
    /\ NoPrice(d) \/ Priced(d)

(***************************************************************************)
(* The deposits come to have all their columns, and do so again whenever   *)
(* one is announced or filled, whatever order their jobs run in, but for   *)
(* what was lost.  A deposit of a token without a price goes without what  *)
(* needs one: its TokenPrice job fails for ever.  One whose event has no   *)
(* output token waits for another deposit that brings a token with the     *)
(* symbol into the table, and needs nothing more.                          *)
(***************************************************************************)
AllEnriched ==
    []<>(\A d \in announced :
            \/ Enriched(d)
            \/ output[d] = ZeroAddress /\ SameSymbol[d] \cap cached = {})
=============================================================================
