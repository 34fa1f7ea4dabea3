--------------------------- MODULE DepositsV3Proofs ---------------------------
(***************************************************************************)
(* The row of a V3 deposit, for any speed-ups in any blocks, any number of *)
(* deliveries and failures.                                                *)
(*                                                                         *)
(* Each queue has one worker, so the columns that one consumer alone       *)
(* writes are, when it writes, what it has read (SpeederAgrees); and the   *)
(* two that write fillTxs do so in turns: the filler only while there is   *)
(* no fill, the dater only once there is (FillsAgree).                     *)
(***************************************************************************)
EXTENDS DepositsV3, FiniteSetTheorems, TLAPS

\* The speed-ups in the row, the latest block first, and no one twice.
Descending(speedUps) ==
    \A i, j \in 1..Len(speedUps) :
        i < j => SpeedUpBlock[speedUps[i]] >= SpeedUpBlock[speedUps[j]]

Distinct(speedUps) ==
    \A i, j \in 1..Len(speedUps) : speedUps[i] = speedUps[j] => i = j

SpeedUpsSorted == Descending(row.speedUps) /\ Distinct(row.speedUps)

SpeederAgrees ==
    speeder.pc = "read" =>
        /\ speeder.event \in SpeedUp
        /\ speeder.seen.speedUps = row.speedUps
        /\ ~Contains(row.speedUps, speeder.event)

FillsAgree ==
    /\ row.fillTxs = IF row.status = "filled" THEN 1 ELSE 0
    /\ filler.pc = "read" => filler.seen.fillTxs = 0 /\ row.fillTxs = 0
    /\ dater.pc = "read" => dater.seen.fillTxs = 1 /\ row.fillTxs = 1

IInv == TypeOK /\ SpeedUpsSorted /\ LatestWins /\ SpeederAgrees /\ FillsAgree

----------------------------------------------------------------------------
LEMMA IntervalSize ==
    ASSUME NEW m \in Nat
    PROVE  IsFiniteSet(1..m) /\ Cardinality(1..m) = m
  <1>1. IsFiniteSet(1..m) /\ Cardinality(1..m) = IF 1 > m THEN 0 ELSE m - 1 + 1
    BY FS_Interval
  <1> QED
    BY <1>1

\* Where a speed-up goes: after those of its block and of later ones, which come first.
LEMMA PlaceOfSpeedUp ==
    ASSUME NEW speedUps \in Seq(SpeedUp), Descending(speedUps), NEW s \in SpeedUp
    PROVE  LET later == {i \in 1..Len(speedUps) :
                            SpeedUpBlock[speedUps[i]] >= SpeedUpBlock[s]}
           IN  /\ Cardinality(later) \in 0..Len(speedUps)
               /\ later = 1..Cardinality(later)
  <1> DEFINE n == Len(speedUps)
             later == {i \in 1..n : SpeedUpBlock[speedUps[i]] >= SpeedUpBlock[s]}
             k == Cardinality(later)
  <1>1. n \in Nat /\ IsFiniteSet(1..n) /\ Cardinality(1..n) = n
    BY IntervalSize
  <1>2. IsFiniteSet(later) /\ k \in Nat /\ k <= n
    <2>1. later \subseteq 1..n
      OBVIOUS
    <2>2. IsFiniteSet(later) /\ Cardinality(later) <= Cardinality(1..n)
      BY <1>1, <2>1, FS_Subset
    <2> QED
      BY <1>1, <2>2, FS_CardinalityType
  <1>3. ASSUME NEW i \in 1..n, NEW j \in 1..n, i \in later, j < i PROVE j \in later
    <2>1. /\ SpeedUpBlock[speedUps[i]] \in Nat /\ SpeedUpBlock[speedUps[j]] \in Nat
          /\ SpeedUpBlock[s] \in Nat
      BY DepositAssumption DEF DepositAssumption
    <2> QED
      BY <1>3, <2>1 DEF Descending
  <1>4. ASSUME NEW i \in 1..n, i \in later PROVE i <= k
    <2>1. 1..i \subseteq later
      BY <1>3, <1>4
    <2>2. Cardinality(1..i) = i
      BY IntervalSize
    <2>3. Cardinality(1..i) <= Cardinality(later)
      BY <1>2, <2>1, FS_Subset
    <2> QED
      BY <2>2, <2>3
  <1>5. ASSUME NEW i \in 1..n, i \notin later PROVE k < i
    <2>1. later \subseteq 1..(i - 1)
      BY <1>1, <1>3, <1>5
    <2>2. /\ IsFiniteSet(1..(i - 1)) /\ Cardinality(1..(i - 1)) = i - 1
      BY IntervalSize
    <2>3. k <= i - 1
      BY <2>1, <2>2, FS_Subset
    <2> QED
      BY <1>2, <2>3
  <1>6. later = 1..k
    <2> HIDE DEF k
    <2> QED
      BY <1>1, <1>2, <1>4, <1>5
  <1> QED
    BY <1>1, <1>2, <1>6

\* What the consumer writes for the speed-ups.
LEMMA SortedResult ==
    ASSUME NEW speedUps \in Seq(SpeedUp), Descending(speedUps), Distinct(speedUps),
           NEW s \in SpeedUp, ~Contains(speedUps, s)
    PROVE  LET sorted == SortedSpeedUps(speedUps, s)
           IN  /\ sorted \in Seq(SpeedUp) /\ Len(sorted) = Len(speedUps) + 1
               /\ Descending(sorted) /\ Distinct(sorted)
  <1> DEFINE n == Len(speedUps)
             later == {i \in 1..n : SpeedUpBlock[speedUps[i]] >= SpeedUpBlock[s]}
             k == Cardinality(later)
             sorted == SortedSpeedUps(speedUps, s)
  <1>1. n \in Nat /\ k \in 0..n /\ later = 1..k
    BY PlaceOfSpeedUp
  <1>2. \A i \in 1..n : (i <= k <=> SpeedUpBlock[speedUps[i]] >= SpeedUpBlock[s])
    BY <1>1
  <1>3. sorted = InsertAt(speedUps, k + 1, s)
    BY DEF SortedSpeedUps
  <1> HIDE DEF k, sorted
  <1>4. /\ sorted \in Seq(SpeedUp) /\ Len(sorted) = n + 1
        /\ \A i \in 1..(n + 1) : sorted[i] = IF i <= k THEN speedUps[i]
                                            ELSE IF i = k + 1 THEN s ELSE speedUps[i - 1]
    <2> DEFINE front == SubSeq(speedUps, 1, k)
               back == SubSeq(speedUps, k + 1, n)
    <2>1. k \in Nat /\ (k + 1) - 1 = k /\ k <= n
      BY <1>1
    <2>2. /\ front \in Seq(SpeedUp) /\ Len(front) = k
          /\ \A i \in 1..k : front[i] = speedUps[i]
      BY <1>1, <2>1
    <2>3. /\ back \in Seq(SpeedUp) /\ Len(back) = n - k
          /\ \A i \in 1..(n - k) : back[i] = speedUps[k + i]
      BY <1>1, <2>1
    <2>4. sorted = front \o <<s>> \o back
      <3>1. sorted = SubSeq(speedUps, 1, (k + 1) - 1) \o <<s>> \o SubSeq(speedUps, k + 1, n)
        BY <1>3, Zenon DEF InsertAt
      <3> QED
        BY <2>1, <3>1, Zenon
    <2> HIDE DEF front, back
    <2> DEFINE first == front \o <<s>>
    <2>5. /\ first \in Seq(SpeedUp) /\ Len(first) = k + 1
          /\ \A i \in 1..(k + 1) : first[i] = IF i <= k THEN speedUps[i] ELSE s
      BY <1>1, <2>1, <2>2
    <2>6. sorted = first \o back
      BY <2>4
    <2> HIDE DEF first
    <2>7. sorted \in Seq(SpeedUp) /\ Len(sorted) = n + 1
      BY <1>1, <2>1, <2>3, <2>5, <2>6
    <2>8. ASSUME NEW i \in 1..(n + 1)
          PROVE  sorted[i] = IF i <= k THEN speedUps[i]
                             ELSE IF i = k + 1 THEN s ELSE speedUps[i - 1]
      <3>1. CASE i <= k + 1
        BY <1>1, <2>1, <2>3, <2>5, <2>6, <3>1
      <3>2. CASE i > k + 1
        <4> DEFINE m == i - (k + 1)
        <4>1. sorted[i] = back[m]
          BY <1>1, <2>1, <2>3, <2>5, <2>6, <3>2
        <4>2. m \in 1..(n - k) /\ k + m = i - 1 /\ ~(i <= k) /\ i # k + 1
          BY <1>1, <2>1, <3>2
        <4> HIDE DEF m
        <4>3. back[m] = speedUps[k + m]
          BY <2>3, <4>2
        <4> QED
          BY <4>1, <4>2, <4>3, Zenon
      <3> QED
        BY <1>1, <2>1, <3>1, <3>2
    <2> QED
      BY <2>7, <2>8
  <1>5. \A i \in 1..n : speedUps[i] \in SpeedUp /\ speedUps[i] # s
    BY DEF Contains
  <1>6. SpeedUpBlock[s] \in Nat /\ \A i \in 1..n : SpeedUpBlock[speedUps[i]] \in Nat
    BY <1>5, DepositAssumption DEF DepositAssumption
  <1>7. Descending(sorted)
    <2> SUFFICES ASSUME NEW i \in 1..(n + 1), NEW j \in 1..(n + 1), i < j
                 PROVE  SpeedUpBlock[sorted[i]] >= SpeedUpBlock[sorted[j]]
      BY <1>4 DEF Descending
    <2>1. CASE j <= k
      BY <1>1, <1>4, <2>1 DEF Descending
    <2>2. CASE j = k + 1
      BY <1>1, <1>2, <1>4, <2>2
    <2>3. CASE i = k + 1 /\ j > k + 1
      <3>1. j - 1 \in 1..n /\ ~(j - 1 <= k)
        BY <1>1, <2>3
      <3>2. sorted[i] = s /\ sorted[j] = speedUps[j - 1]
        BY <1>1, <1>4, <2>3
      <3> QED
        BY <1>2, <1>6, <3>1, <3>2
    <2>4. CASE i <= k /\ j > k + 1
      <3>1. i \in 1..n /\ j - 1 \in 1..n /\ i < j - 1
        BY <1>1, <2>4
      <3>2. sorted[i] = speedUps[i] /\ sorted[j] = speedUps[j - 1]
        BY <1>1, <1>4, <2>4
      <3> QED
        BY <3>1, <3>2 DEF Descending
    <2>5. CASE i > k + 1
      <3>1. i - 1 \in 1..n /\ j - 1 \in 1..n /\ i - 1 < j - 1
        BY <1>1, <2>5
      <3>2. sorted[i] = speedUps[i - 1] /\ sorted[j] = speedUps[j - 1]
        BY <1>1, <1>4, <2>5
      <3> QED
        BY <3>1, <3>2 DEF Descending
    <2> QED
      BY <1>1, <2>1, <2>2, <2>3, <2>4, <2>5
  <1>8. Distinct(sorted)
    <2> SUFFICES ASSUME NEW i \in 1..(n + 1), NEW j \in 1..(n + 1), sorted[i] = sorted[j], i < j
                 PROVE  FALSE
      BY <1>4 DEF Distinct
    <2> DEFINE place(m) == IF m <= k THEN m ELSE m - 1
    <2>1. CASE i = k + 1 \/ j = k + 1
      BY <1>1, <1>4, <1>5, <2>1
    <2>2. CASE i # k + 1 /\ j # k + 1
      <3>1. place(i) \in 1..n /\ place(j) \in 1..n /\ place(i) # place(j)
        BY <1>1, <2>2
      <3>2. sorted[i] = speedUps[place(i)] /\ sorted[j] = speedUps[place(j)]
        BY <1>4, <2>2
      <3> HIDE DEF place
      <3> QED
        BY <3>1, <3>2 DEF Distinct
    <2> QED
      BY <2>1, <2>2
  <1> QED
    BY <1>4, <1>7, <1>8 DEF sorted

----------------------------------------------------------------------------
\* Nothing that the columns of speed-ups depend on changes.
SameSpeedUps ==
    /\ row'.speedUps = row.speedUps /\ row'.message = row.message
    /\ row'.outputAmount = row.outputAmount /\ row'.recipientAddr = row.recipientAddr

LEMMA SortedStable ==
    ASSUME SpeedUpsSorted, LatestWins, SameSpeedUps
    PROVE  SpeedUpsSorted' /\ LatestWins'
  BY DEF SpeedUpsSorted, Descending, Distinct, LatestWins, LatestSpeedUp, SameSpeedUps

LEMMA SpeederStable ==
    ASSUME SpeederAgrees, row'.speedUps = row.speedUps,
           speeder' = speeder \/ speeder'.pc = "idle"
    PROVE  SpeederAgrees'
  BY DEF SpeederAgrees, Contains

LEMMA FillsStable ==
    ASSUME FillsAgree, row'.fillTxs = row.fillTxs, row'.status = row.status,
           filler' = filler \/ filler'.pc # "read",
           dater' = dater \/ dater'.pc # "read"
    PROVE  FillsAgree'
  BY DEF FillsAgree

----------------------------------------------------------------------------
LEMMA NewRowType ==
    /\ NewRow \in Row /\ NewRow.speedUps = <<>>
    /\ Filled \in Event /\ Filled \in Source
  BY DEF NewRow, Row, Event, Source

LEMMA InitInv == Init => IInv
  <1> SUFFICES ASSUME Init PROVE IInv
    OBVIOUS
  <1>1. row = NewRow /\ speeder = IdleSpeeder /\ filler = IdleJob /\ dater = IdleJob
    BY DEF Init
  <1>2. NewRow \in Row /\ NewRow.speedUps = <<>>
    BY NewRowType
  <1>3. TypeOK
    BY <1>1, <1>2, DepositAssumption
       DEF Init, TypeOK, Job, IdleJob, IdleSpeeder, Source, DepositAssumption
  <1>4. SpeedUpsSorted /\ LatestWins
    BY <1>1, <1>2 DEF SpeedUpsSorted, Descending, Distinct, LatestWins, LatestSpeedUp, NewRow
  <1>5. SpeederAgrees /\ FillsAgree
    BY <1>1 DEF SpeederAgrees, FillsAgree, IdleSpeeder, IdleJob, NewRow
  <1> QED
    BY <1>3, <1>4, <1>5 DEF IInv

\* The row is inserted, and dated.
LEMMA RowInv ==
    ASSUME IInv, InsertRow \/ DateDeposit
    PROVE  IInv'
  <1>1. /\ row' = [row EXCEPT !.exists = TRUE] \/ row' = [row EXCEPT !.depositDated = TRUE]
        /\ UNCHANGED <<queue, filler, speeder, dater, published, early, crashes>>
    BY DEF InsertRow, DateDeposit
  <1>2. row \in Row
    BY DEF IInv, TypeOK
  <1>3. row' \in Row /\ SameSpeedUps /\ row'.fillTxs = row.fillTxs /\ row'.status = row.status
    BY <1>1, <1>2 DEF Row, SameSpeedUps
  <1> QED
    BY <1>1, <1>3, SortedStable, SpeederStable, FillsStable DEF IInv, TypeOK, SameSpeedUps

\* The steps that leave the row alone, by the job that takes them.
LEMMA FillJobInv ==
    ASSUME IInv, TakeFill \/ PublishFill \/ CrashFiller
    PROVE  IInv'
  <1>1. row' = row /\ speeder' = speeder /\ dater' = dater
    BY DEF TakeFill, PublishFill, CrashFiller
  <1>2. TypeOK'
    <2>1. Filled \in Event /\ IdleJob \in Job /\ [pc |-> "written", seen |-> NewRow] \in Job
      BY NewRowType DEF IdleJob, Job
    <2>2. queue' \in [Event -> Nat]
      BY <2>1 DEF TakeFill, PublishFill, CrashFiller, IInv, TypeOK
    <2>3. filler' \in Job
      BY <2>1 DEF TakeFill, PublishFill, CrashFiller, IInv, TypeOK, Job
    <2>4. early' \in Nat /\ crashes' \in 0..MaxCrashes /\ published' \in [dates : Nat, fees : Nat]
      BY DepositAssumption
         DEF TakeFill, PublishFill, CrashFiller, CountCrash, IInv, TypeOK, DepositAssumption
    <2> QED
      BY <1>1, <2>2, <2>3, <2>4 DEF IInv, TypeOK
  <1>3. SpeedUpsSorted' /\ LatestWins'
    BY <1>1, SortedStable DEF IInv, SameSpeedUps
  <1>4. SpeederAgrees'
    BY <1>1, SpeederStable DEF IInv
  <1>5. FillsAgree'
    BY <1>1 DEF TakeFill, PublishFill, CrashFiller, IInv, FillsAgree, IdleJob
  <1> QED
    BY <1>2, <1>3, <1>4, <1>5 DEF IInv

\* The fill is written while there is none, and the dater waits for one.
LEMMA WriteFillInv ==
    ASSUME IInv, WriteFill
    PROVE  IInv'
  <1>1. /\ filler.pc = "read" /\ filler.seen \in Row /\ filler.seen.fillTxs = 0
        /\ row \in Row /\ dater.pc # "read"
    BY DEF WriteFill, IInv, TypeOK, Job, FillsAgree
  <1>2. /\ row' \in Row /\ row'.status = "filled" /\ row'.fillTxs = 1
        /\ row'.outputAmount = Filled /\ row'.recipientAddr = Filled
        /\ row'.speedUps = row.speedUps /\ row'.message = row.message
    <2>1. Filled \in Source /\ filler.seen.fillDated \in BOOLEAN /\ filler.seen.fillTxs + 1 = 1
      BY <1>1, NewRowType DEF Row
    <2>2. row' = [row EXCEPT !.status = "filled",
                             !.outputAmount = Filled, !.recipientAddr = Filled,
                             !.fillTxs = 1, !.fillDated = filler.seen.fillDated]
      BY <2>1 DEF WriteFill
    <2> QED
      BY <1>1, <2>1, <2>2 DEF Row
  <1>3. filler' = [pc |-> "written", seen |-> NewRow] /\ dater' = dater /\ speeder' = speeder
    BY DEF WriteFill
  <1>4. TypeOK'
    <2>1. NewRow \in Row
      BY DEF NewRow, Row, Source
    <2>2. filler' \in Job
      BY <1>3, <2>1 DEF Job
    <2> QED
      BY <1>2, <2>2 DEF WriteFill, IInv, TypeOK
  <1>5. SpeedUpsSorted' /\ LatestWins'
    BY <1>2 DEF IInv, SpeedUpsSorted, Descending, Distinct, LatestWins, LatestSpeedUp
  <1>6. SpeederAgrees'
    BY <1>2, <1>3, SpeederStable DEF IInv
  <1>7. FillsAgree'
    BY <1>1, <1>2, <1>3 DEF FillsAgree
  <1> QED
    BY <1>4, <1>5, <1>6, <1>7 DEF IInv

LEMMA SpeedUpJobInv ==
    ASSUME IInv, (\E s \in SpeedUp : TakeSpeedUp(s)) \/ CrashSpeeder
    PROVE  IInv'
  <1>1. row' = row /\ filler' = filler /\ dater' = dater
    BY DEF TakeSpeedUp, CrashSpeeder
  <1>2. IdleSpeeder \in [pc : {"idle", "read"}, seen : Row, event : Source]
    BY DEF IdleSpeeder, NewRow, Row, Source
  <1>3. SpeedUpsSorted' /\ LatestWins' /\ FillsAgree'
    BY <1>1, SortedStable, FillsStable DEF IInv, SameSpeedUps
  <1>4. ASSUME NEW s \in SpeedUp, TakeSpeedUp(s) PROVE TypeOK' /\ SpeederAgrees'
    <2>1. s \in Event /\ s \in Source
      BY DEF Event, Source
    <2>2. queue' \in [Event -> Nat]
      BY <1>4, <2>1 DEF TakeSpeedUp, IInv, TypeOK
    <2>3. speeder' \in [pc : {"idle", "read"}, seen : Row, event : Source]
      BY <1>4, <2>1 DEF TakeSpeedUp, IInv, TypeOK
    <2>4. SpeederAgrees'
      BY <1>4 DEF TakeSpeedUp, IInv, SpeederAgrees
    <2> QED
      BY <1>1, <1>4, <2>2, <2>3, <2>4 DEF TakeSpeedUp, IInv, TypeOK
  <1>5. ASSUME CrashSpeeder PROVE TypeOK' /\ SpeederAgrees'
    <2>1. speeder.event \in SpeedUp /\ speeder.event \in Event
      BY <1>5 DEF CrashSpeeder, IInv, TypeOK, SpeederAgrees, Event
    <2>2. queue' \in [Event -> Nat]
      BY <1>5, <2>1 DEF CrashSpeeder, IInv, TypeOK
    <2>3. crashes' \in 0..MaxCrashes
      BY <1>5, DepositAssumption DEF CrashSpeeder, CountCrash, IInv, TypeOK, DepositAssumption
    <2>4. SpeederAgrees'
      BY <1>1, <1>5, SpeederStable DEF CrashSpeeder, IInv, IdleSpeeder
    <2> QED
      BY <1>1, <1>2, <1>5, <2>2, <2>3, <2>4 DEF CrashSpeeder, IInv, TypeOK
  <1> QED
    BY <1>3, <1>4, <1>5 DEF IInv

\* The speed-ups that are written are those of the row, and the one that is processed.
LEMMA WriteSpeedUpInv ==
    ASSUME IInv, WriteSpeedUp
    PROVE  IInv'
  <1> DEFINE sorted == SortedSpeedUps(speeder.seen.speedUps, speeder.event)
  <1>1. /\ speeder.event \in SpeedUp /\ speeder.seen.speedUps = row.speedUps
        /\ ~Contains(row.speedUps, speeder.event)
        /\ row \in Row /\ row.speedUps \in Seq(SpeedUp)
        /\ Descending(row.speedUps) /\ Distinct(row.speedUps)
    BY DEF WriteSpeedUp, IInv, TypeOK, Row, SpeederAgrees, SpeedUpsSorted
  <1>2. /\ sorted \in Seq(SpeedUp) /\ Len(sorted) = Len(row.speedUps) + 1
        /\ Descending(sorted) /\ Distinct(sorted)
    BY <1>1, SortedResult
  <1>3. /\ row' = [row EXCEPT !.speedUps = sorted, !.message = sorted[1],
                              !.recipientAddr = sorted[1], !.outputAmount = sorted[1],
                              !.feePct = speeder.event]
        /\ speeder' = IdleSpeeder
        /\ UNCHANGED <<queue, filler, dater, published, early, crashes>>
    BY DEF WriteSpeedUp
  <1> HIDE DEF sorted
  <1>4. sorted[1] \in SpeedUp /\ sorted # <<>>
    BY <1>1, <1>2
  <1>5. /\ row' \in Row /\ row'.speedUps = sorted /\ row'.message = sorted[1]
        /\ row'.recipientAddr = sorted[1] /\ row'.outputAmount = sorted[1]
        /\ row'.fillTxs = row.fillTxs /\ row'.status = row.status
    BY <1>1, <1>2, <1>3, <1>4 DEF Row, Source, Event
  <1>6. TypeOK'
    BY <1>3, <1>5 DEF IInv, TypeOK, IdleSpeeder, NewRow, Row, Source
  <1>7. SpeedUpsSorted'
    BY <1>2, <1>5 DEF SpeedUpsSorted, Descending, Distinct
  <1>8. LatestWins'
    <2>1. LatestSpeedUp' = sorted[1]
      BY <1>4, <1>5 DEF LatestSpeedUp
    <2>2. \A i \in 1..Len(sorted) : SpeedUpBlock[sorted[i]] <= SpeedUpBlock[sorted[1]]
      <3>1. \A i \in 1..Len(sorted) : sorted[i] \in SpeedUp /\ SpeedUpBlock[sorted[i]] \in Nat
        BY <1>2, DepositAssumption DEF DepositAssumption
      <3>2. ASSUME NEW i \in 1..Len(sorted)
            PROVE  SpeedUpBlock[sorted[i]] <= SpeedUpBlock[sorted[1]]
        <4>1. 1 \in 1..Len(sorted) /\ (i = 1 \/ 1 < i)
          BY <1>2
        <4> QED
          BY <1>2, <3>1, <4>1 DEF Descending
      <3> QED
        BY <3>2
    <2> QED
      BY <1>5, <2>1, <2>2 DEF LatestWins
  <1>9. SpeederAgrees'
    BY <1>3 DEF SpeederAgrees, IdleSpeeder
  <1>10. FillsAgree'
    BY <1>3, <1>5, FillsStable DEF IInv
  <1> QED
    BY <1>6, <1>7, <1>8, <1>9, <1>10 DEF IInv

LEMMA DateJobInv ==
    ASSUME IInv, ReadDates \/ CrashDater
    PROVE  IInv'
  <1>1. row' = row /\ filler' = filler /\ speeder' = speeder
    BY DEF ReadDates, CrashDater
  <1>2. TypeOK'
    <2>1. IdleJob \in Job /\ row \in Row
      BY DEF IInv, TypeOK, IdleJob, Job, NewRow, Row, Source
    <2>2. dater' \in Job
      BY <2>1 DEF ReadDates, CrashDater, IInv, TypeOK, Job
    <2>3. published' \in [dates : Nat, fees : Nat] /\ crashes' \in 0..MaxCrashes
      BY DepositAssumption DEF ReadDates, CrashDater, CountCrash, IInv, TypeOK, DepositAssumption
    <2> QED
      BY <1>1, <2>2, <2>3 DEF ReadDates, CrashDater, IInv, TypeOK
  <1>3. SpeedUpsSorted' /\ LatestWins' /\ SpeederAgrees'
    BY <1>1, SortedStable, SpeederStable DEF IInv, SameSpeedUps
  <1>4. FillsAgree'
    BY <1>1 DEF ReadDates, CrashDater, IInv, FillsAgree, IdleJob
  <1> QED
    BY <1>2, <1>3, <1>4 DEF IInv

\* What the dater writes back is the fill that is there.
LEMMA WriteDatesInv ==
    ASSUME IInv, WriteDates
    PROVE  IInv'
  <1>1. /\ dater.pc = "read" /\ dater.seen \in Row /\ row \in Row
        /\ dater.seen.fillTxs = 1 /\ row.fillTxs = 1
    BY DEF WriteDates, IInv, TypeOK, Job, FillsAgree
  <1>2. /\ row' \in Row /\ SameSpeedUps /\ row'.fillTxs = row.fillTxs /\ row'.status = row.status
    BY <1>1 DEF WriteDates, Row, SameSpeedUps
  <1>3. /\ dater' = IdleJob /\ IdleJob \in Job /\ IdleJob.pc = "idle"
        /\ UNCHANGED <<queue, filler, speeder, published, early, crashes>>
    BY DEF WriteDates, IdleJob, Job, NewRow, Row, Source
  <1> QED
    BY <1>2, <1>3, SortedStable, SpeederStable, FillsStable DEF IInv, TypeOK, SameSpeedUps

LEMMA StepInv == IInv /\ [Next]_vars => IInv'
  <1> SUFFICES ASSUME IInv, [Next]_vars PROVE IInv'
    OBVIOUS
  <1>1. CASE UNCHANGED vars
    BY <1>1 DEF vars, IInv, TypeOK, SpeedUpsSorted, Descending, Distinct, LatestWins,
                LatestSpeedUp, SpeederAgrees, FillsAgree
  <1>2. CASE Next
    BY <1>2, RowInv, FillJobInv, WriteFillInv, SpeedUpJobInv, WriteSpeedUpInv, DateJobInv,
       WriteDatesInv DEF Next, FillStep, SpeedUpStep, DateStep
  <1> QED
    BY <1>1, <1>2

LEMMA Inductive == Spec => []IInv
  BY InitInv, StepInv, PTL DEF Spec

----------------------------------------------------------------------------
(***************************************************************************)
(* The row and the jobs keep their types.                                  *)
(***************************************************************************)
THEOREM TypeCorrect == Spec => []TypeOK
  <1>1. IInv => TypeOK
    BY DEF IInv
  <1> QED
    BY <1>1, Inductive, PTL

(***************************************************************************)
(* In whatever order speed-ups are processed, before or after the fill,    *)
(* the message of a V3 deposit is that of the speed-up with the highest    *)
(* block among those recorded, and the amount and the recipient are its    *)
(* own, or the fill's.                                                     *)
(***************************************************************************)
THEOREM LatestSpeedUpWins == Spec => []LatestWins
  <1>1. IInv => LatestWins
    BY DEF IInv
  <1> QED
    BY <1>1, Inductive, PTL

(***************************************************************************)
(* Redelivered or out of order, each speed-up is recorded once, and the    *)
(* recorded ones are in descending order of their blocks: the order that   *)
(* sort gives the array, which is written whole.                           *)
(***************************************************************************)
THEOREM SpeedUpsInOrder == Spec => []SpeedUpsSorted
  <1>1. IInv => SpeedUpsSorted
    BY DEF IInv
  <1> QED
    BY <1>1, Inductive, PTL

LEMMA NextRefines ==
    ASSUME IInv, [Next]_vars
    PROVE  [Ledger!Next]_(Ledger!ledgerVars)
  <1>1. CASE WriteFill
    <2>1. row \in Row /\ row.fillTxs = 0 /\ filler.seen.fillTxs = 0
      BY <1>1 DEF WriteFill, IInv, TypeOK, FillsAgree
    <2>2. row'.fillTxs = 1 /\ row'.status = "filled"
      BY <1>1, <2>1 DEF WriteFill, Row
    <2>3. Ledger!Fill(1)
      BY <2>1, <2>2 DEF Ledger!Fill, Ledger!StatusAt
    <2> QED
      BY <2>3 DEF Ledger!Next
  <1>2. CASE row'.fillTxs = row.fillTxs /\ row'.status = row.status
    BY <1>2 DEF Ledger!ledgerVars
  <1>3. CASE InsertRow \/ DateDeposit \/ WriteSpeedUp
    <2>1. row'.fillTxs = row.fillTxs /\ row'.status = row.status
      BY <1>3 DEF InsertRow, DateDeposit, WriteSpeedUp, IInv, TypeOK, Row
    <2> QED
      BY <1>2, <2>1
  <1>4. CASE WriteDates
    <2>1. row'.fillTxs = row.fillTxs /\ row'.status = row.status
      BY <1>4 DEF WriteDates, IInv, TypeOK, Row, FillsAgree
    <2> QED
      BY <1>2, <2>1
  <1>5. CASE row' = row
    BY <1>2, <1>5
  <1> QED
    BY <1>1, <1>3, <1>4, <1>5
       DEF Next, FillStep, SpeedUpStep, DateStep, TakeFill, PublishFill, TakeSpeedUp, ReadDates,
           CrashFiller, CrashSpeeder, CrashDater, vars

(***************************************************************************)
(* A V3 deposit goes from pending to filled in one step, with its one fill *)
(* recorded, and never back, though two consumers write fillTxs from rows  *)
(* they read earlier.                                                      *)
(***************************************************************************)
THEOREM ImplementsLedger == Spec => LedgerSpec
  <1>1. Init => Ledger!Init
    BY DEF Init, NewRow, Ledger!Init
  <1>2. IInv /\ [Next]_vars => [Ledger!Next]_(Ledger!ledgerVars)
    BY NextRefines
  <1> QED
    BY <1>1, <1>2, Inductive, PTL DEF Spec, LedgerSpec, Ledger!Spec
=============================================================================
