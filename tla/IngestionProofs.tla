-------------------------- MODULE IngestionProofs --------------------------
(***************************************************************************)
(* The safety of the way in, for any number of loops, any start block,     *)
(* distance and batch size, any contracts, events and growth of the chains.*)
(*                                                                         *)
(* First the loops alone.  EachBlockOnce is not inductive: what was handed *)
(* out must be known to lie between the start block and the saved one, and *)
(* the range a loop is about to save to start right after it.  IInv adds   *)
(* both.                                                                   *)
(*                                                                         *)
(* Then the loops with the jobs they add.  AnnouncedOnce holds because a   *)
(* job owes a message only for a row that has none, and no two jobs owe    *)
(* the same one: QueueInv.                                                 *)
(*                                                                         *)
(* Then the split of a range, for any contracts.  And with it, what the    *)
(* way in has of every deposit and event in the blocks it has gone past:   *)
(* ReadInv.  TokenInv adds why a job gave up a deposit: another consumer   *)
(* saved its token while the job was reading it, which happens once for a  *)
(* token in a job.                                                         *)
(***************************************************************************)
EXTENDS Ingestion, FiniteSetTheorems, TLAPS

\* The range a loop is about to save begins where the saved block leaves off.
PendingIsNext(l) ==
    pc[l] = "save" =>
        /\ range[l].from = NextFrom(latestBlock[l], StartBlock[l])
        /\ range[l].from <= range[l].to
        /\ range[l].to + Distance[l] <= head[l]

\* A range in the row or beyond it lies in the part of the chain that was handed out.
HandedOutInBounds(l) ==
    \A r \in HandedOut(l) :
        /\ FirstBlock(StartBlock[l]) <= r.from
        /\ r.from <= r.to
        /\ r.to <= latestBlock[l]
        /\ r.to + Distance[l] <= head[l]

NoHole(l) ==
    \A b \in FirstBlock(StartBlock[l])..latestBlock[l] : \E r \in HandedOut(l) : b \in Blocks(r)

NoOverlap(l) == \A r, s \in HandedOut(l) : Blocks(r) \cap Blocks(s) # {} => r = s

SavedAfterStart(l) == latestBlock[l] # NoRow => FirstBlock(StartBlock[l]) <= latestBlock[l]

LoopInv(l) ==
    PendingIsNext(l) /\ HandedOutInBounds(l) /\ NoHole(l) /\ NoOverlap(l) /\ SavedAfterStart(l)

IInv == PublisherTypeOK /\ \A l \in Loop : LoopInv(l)

----------------------------------------------------------------------------
LEMMA NextFromType ==
    ASSUME NEW latest \in Nat, NEW start \in Nat
    PROVE  NextFrom(latest, start) \in Nat
  BY DEF NextFrom, FirstBlock, NoRow

LEMMA FirstBlockPositive ==
    ASSUME NEW start \in Nat
    PROVE  FirstBlock(start) \in Nat /\ FirstBlock(start) >= 1
  BY DEF FirstBlock

\* Every range that is handed out has the type of a range.
LEMMA HandedOutType ==
    ASSUME PublisherTypeOK, NEW l \in Loop
    PROVE  \A r \in HandedOut(l) : r \in BlockRange
  BY DEF PublisherTypeOK, HandedOut, InFlight

\* A step that changes nothing of a loop but its clock keeps the loop's invariant.
LEMMA LoopInvStable ==
    ASSUME PublisherTypeOK, PublisherAssumption, NEW l \in Loop, LoopInv(l),
           HandedOut(l)' = HandedOut(l), latestBlock'[l] = latestBlock[l],
           head'[l] \in Nat, head'[l] >= head[l],
           pc'[l] = "save" => pc[l] = "save" /\ range'[l] = range[l]
    PROVE  LoopInv(l)'
  <1>1. /\ head[l] \in Nat
        /\ latestBlock[l] \in Nat
        /\ Distance[l] \in Nat
        /\ range[l] \in BlockRange
    BY DEF PublisherTypeOK, PublisherAssumption
  <1>2. PendingIsNext(l)'
    BY <1>1 DEF LoopInv, PendingIsNext, BlockRange, NextFrom, NoRow
  <1>3. HandedOutInBounds(l)'
    BY <1>1, HandedOutType DEF LoopInv, HandedOutInBounds, BlockRange
  <1>4. NoHole(l)' /\ NoOverlap(l)' /\ SavedAfterStart(l)'
    BY DEF LoopInv, NoHole, NoOverlap, SavedAfterStart
  <1> QED
    BY <1>2, <1>3, <1>4 DEF LoopInv

----------------------------------------------------------------------------
LEMMA InitInv == PublisherAssumption /\ PublisherInit => IInv
  <1> SUFFICES ASSUME PublisherAssumption, PublisherInit
               PROVE  IInv
    OBVIOUS
  <1>1. PublisherTypeOK
    BY DEF PublisherInit, PublisherTypeOK, PublisherAssumption, Step, BlockRange, NoRange, NoRow
  <1>2. ASSUME NEW l \in Loop PROVE LoopInv(l)
    <2>1. HandedOut(l) = {} /\ latestBlock[l] = 0 /\ pc[l] = "wait"
      BY DEF PublisherInit, HandedOut, InFlight, NoRow
    <2>2. FirstBlock(StartBlock[l]) \in Nat /\ FirstBlock(StartBlock[l]) >= 1
      BY FirstBlockPositive DEF PublisherAssumption
    <2> QED
      BY <2>1, <2>2 DEF LoopInv, PendingIsNext, HandedOutInBounds, NoHole, NoOverlap,
                             SavedAfterStart, NoRow
  <1> QED
    BY <1>1, <1>2 DEF IInv

LEMMA MineInv ==
    ASSUME PublisherAssumption, IInv, NEW k \in Loop, Mine(k)
    PROVE  IInv'
  <1>1. PublisherTypeOK'
    BY DEF IInv, PublisherTypeOK, Mine, PublisherAssumption
  <1>2. ASSUME NEW l \in Loop PROVE LoopInv(l)'
    <2>1. head'[l] \in Nat /\ head'[l] >= head[l]
      BY <1>1 DEF Mine, IInv, PublisherTypeOK, PublisherAssumption
    <2>2. HandedOut(l)' = HandedOut(l)
      BY DEF Mine, HandedOut, InFlight
    <2> QED
      BY <2>1, <2>2, LoopInvStable DEF IInv, Mine
  <1> QED
    BY <1>1, <1>2 DEF IInv

LEMMA DetermineInv ==
    ASSUME PublisherAssumption, IInv, NEW k \in Loop, NEW seen \in 0..MaxHead, Determine(k, seen)
    PROVE  IInv'
  <1> DEFINE new == NextRange(k, seen)
  <1>1. /\ new \in BlockRange
        /\ new.from = NextFrom(latestBlock[k], StartBlock[k])
        /\ new.to + Distance[k] <= seen
        /\ new.from <= new.to
    <2>1. /\ latestBlock[k] \in Nat /\ StartBlock[k] \in Nat /\ seen \in Nat
          /\ Distance[k] \in Nat /\ MinBlockRange[k] \in Nat
      BY DEF IInv, PublisherTypeOK, PublisherAssumption
    <2>2. Blocks(new) # {}
      BY DEF Determine
    <2>3. NextFrom(latestBlock[k], StartBlock[k]) \in Nat
      BY <2>1, NextFromType
    <2> QED
      BY <2>1, <2>2, <2>3 DEF NextRange, DetermineBlockRange, Lesser, BlockRange, Blocks
  <1>2. PublisherTypeOK'
    BY <1>1 DEF IInv, PublisherTypeOK, Determine, Step
  <1>3. ASSUME NEW l \in Loop PROVE LoopInv(l)'
    <2>0. head[l] \in Nat
      BY DEF IInv, PublisherTypeOK, PublisherAssumption
    <2>1. HandedOut(l)' = HandedOut(l)
      BY DEF Determine, HandedOut, InFlight, IInv, PublisherTypeOK
    <2>2. CASE l # k
      <3>1. pc'[l] = pc[l] /\ range'[l] = range[l]
        BY <2>2 DEF Determine, IInv, PublisherTypeOK
      <3> QED
        BY <2>0, <2>1, <3>1, LoopInvStable DEF IInv, Determine
    <2>3. CASE l = k
      <3>1. range'[k] = new /\ seen <= head[k] /\ head' = head /\ latestBlock' = latestBlock
        BY DEF Determine, IInv, PublisherTypeOK
      <3>2. Distance[k] \in Nat /\ seen \in Nat
        BY DEF PublisherAssumption
      <3>3. PendingIsNext(k)'
        BY <1>1, <2>0, <2>3, <3>1, <3>2 DEF PendingIsNext, BlockRange
      <3> QED
        BY <2>1, <2>3, <3>1, <3>3
           DEF IInv, LoopInv, HandedOutInBounds, NoHole, NoOverlap, SavedAfterStart
    <2> QED
      BY <2>2, <2>3
  <1> QED
    BY <1>2, <1>3 DEF IInv

LEMMA SaveInv ==
    ASSUME PublisherAssumption, IInv, NEW k \in Loop, Save(k)
    PROVE  IInv'
  <1>1. /\ latestBlock[k] \in Nat /\ StartBlock[k] \in Nat /\ Distance[k] \in Nat
        /\ head[k] \in Nat /\ range[k] \in BlockRange
    BY DEF IInv, PublisherTypeOK, PublisherAssumption
  <1>2. FirstBlock(StartBlock[k]) \in Nat /\ FirstBlock(StartBlock[k]) >= 1
    BY <1>1, FirstBlockPositive
  <1>3. /\ pc[k] = "save"
        /\ range[k].from = NextFrom(latestBlock[k], StartBlock[k])
        /\ range[k].from <= range[k].to
        /\ range[k].to + Distance[k] <= head[k]
        /\ range[k].from \in Nat /\ range[k].to \in Nat
    BY <1>1 DEF Save, IInv, LoopInv, PendingIsNext, BlockRange
  <1>4. /\ latestBlock[k] # 0 => range[k].from = latestBlock[k] + 1
        /\ latestBlock[k] = 0 => range[k].from = FirstBlock(StartBlock[k])
    BY <1>3 DEF NextFrom, NoRow
  <1>5. PublisherTypeOK'
    BY <1>3 DEF IInv, PublisherTypeOK, Save, Step
  <1>6. ASSUME NEW l \in Loop PROVE LoopInv(l)'
    <2>1. CASE l # k
      <3>1. /\ HandedOut(l)' = HandedOut(l) /\ latestBlock'[l] = latestBlock[l]
            /\ head'[l] = head[l] /\ head[l] \in Nat
            /\ pc'[l] = pc[l] /\ range'[l] = range[l]
        BY <2>1 DEF Save, HandedOut, InFlight, IInv, PublisherTypeOK, PublisherAssumption
      <3> QED
        BY <3>1, LoopInvStable DEF IInv
    <2>2. CASE l = k
      <3>1. /\ HandedOut(k)' = HandedOut(k) \cup {range[k]}
            /\ latestBlock'[k] = range[k].to /\ head'[k] = head[k]
            /\ pc'[k] = "publish" /\ range'[k] = range[k]
        BY <1>3 DEF Save, HandedOut, InFlight, IInv, PublisherTypeOK
      <3>2. \A r \in HandedOut(k) : r.from \in Nat /\ r.to \in Int
        BY HandedOutType DEF IInv, BlockRange
      <3>3. HandedOutInBounds(k) /\ NoHole(k) /\ NoOverlap(k) /\ SavedAfterStart(k)
        BY DEF IInv, LoopInv
      <3>4. PendingIsNext(k)'
        BY <3>1 DEF PendingIsNext
      <3>5. \A r \in HandedOut(k) : r.to < range[k].from
        BY <1>1, <1>2, <1>3, <1>4, <3>2, <3>3 DEF HandedOutInBounds
      <3>6. HandedOutInBounds(k)' /\ SavedAfterStart(k)'
        <4>1. FirstBlock(StartBlock[k]) <= range[k].from
          BY <1>1, <1>2, <1>4, <3>3 DEF SavedAfterStart, NoRow
        <4>2. SavedAfterStart(k)'
          BY <1>2, <1>3, <3>1, <4>1 DEF SavedAfterStart
        <4>3. \A r \in HandedOut(k) : r.to <= range[k].to
          BY <1>3, <3>2, <3>5
        <4> QED
          BY <1>3, <3>1, <3>3, <4>1, <4>2, <4>3 DEF HandedOutInBounds
      <3>7. NoHole(k)'
        <4> SUFFICES ASSUME NEW b \in FirstBlock(StartBlock[k])..range[k].to
                     PROVE  \E r \in HandedOut(k) \cup {range[k]} : b \in Blocks(r)
          BY <3>1 DEF NoHole
        <4>1. CASE b < range[k].from
          BY <1>1, <1>2, <1>3, <1>4, <3>3, <4>1 DEF NoHole
        <4>2. CASE range[k].from <= b
          BY <1>2, <1>3, <4>2 DEF Blocks
        <4> QED
          BY <1>2, <1>3, <4>1, <4>2
      <3>8. NoOverlap(k)'
        <4>1. \A r \in HandedOut(k) : Blocks(r) \cap Blocks(range[k]) = {}
          BY <1>3, <3>2, <3>5 DEF Blocks
        <4> QED
          BY <3>1, <3>3, <4>1 DEF NoOverlap
      <3> QED
        BY <2>2, <3>4, <3>6, <3>7, <3>8 DEF LoopInv
    <2> QED
      BY <2>1, <2>2
  <1> QED
    BY <1>5, <1>6 DEF IInv

\* A step that publishes or loses the range in flight, or drops the loop's iteration,
\* leaves what was handed out as it is.
LEMMA PublishInv ==
    ASSUME PublisherAssumption, IInv, NEW k \in Loop, Publish(k) \/ Republish(k) \/ Fail(k)
    PROVE  IInv'
  <1>1. PublisherTypeOK'
    BY DEF IInv, PublisherTypeOK, PublisherAssumption, Publish, Republish, Fail, Step
  <1>2. ASSUME NEW l \in Loop PROVE LoopInv(l)'
    <2>1. /\ latestBlock'[l] = latestBlock[l] /\ head'[l] = head[l] /\ head[l] \in Nat
          /\ pc'[l] = "save" => pc[l] = "save" /\ range'[l] = range[l]
      BY DEF IInv, PublisherTypeOK, PublisherAssumption, Publish, Republish, Fail
    <2>2. HandedOut(l)' = HandedOut(l)
      <3>1. CASE Publish(k)
        BY <3>1 DEF Publish, HandedOut, InFlight, IInv, PublisherTypeOK
      <3>2. CASE Republish(k)
        BY <3>2 DEF Republish, HandedOut, InFlight, IInv, PublisherTypeOK
      <3>3. CASE Fail(k)
        BY <3>3 DEF Fail, HandedOut, InFlight, IInv, PublisherTypeOK
      <3> QED
        BY <3>1, <3>2, <3>3
    <2> QED
      BY <2>1, <2>2, LoopInvStable DEF IInv
  <1> QED
    BY <1>1, <1>2 DEF IInv

LEMMA StutterInv == IInv /\ UNCHANGED publisherVars => IInv'
  BY DEF IInv, LoopInv, PublisherTypeOK, PendingIsNext, HandedOutInBounds, NoHole, NoOverlap,
         SavedAfterStart, HandedOut, InFlight, publisherVars

LEMMA StepInv == PublisherAssumption /\ IInv /\ [PublisherNext]_publisherVars => IInv'
  <1> SUFFICES ASSUME PublisherAssumption, IInv, [PublisherNext]_publisherVars
               PROVE  IInv'
    OBVIOUS
  <1>1. CASE UNCHANGED publisherVars
    BY <1>1, StutterInv
  <1>2. ASSUME NEW k \in Loop, Mine(k) PROVE IInv'
    BY <1>2, MineInv
  <1>3. ASSUME NEW k \in Loop, Iterate(k) PROVE IInv'
    BY <1>3, DetermineInv, SaveInv, PublishInv DEF Iterate
  <1>4. ASSUME NEW k \in Loop, Fail(k) PROVE IInv'
    BY <1>4, PublishInv
  <1> QED
    BY <1>1, <1>2, <1>3, <1>4 DEF PublisherNext

LEMMA Inductive == PublisherSpec => []IInv
  <1>1. PublisherInit => IInv
    BY PublisherAssumption, InitInv
  <1>2. IInv /\ [PublisherNext]_publisherVars => IInv'
    BY PublisherAssumption, StepInv
  <1> QED
    BY <1>1, <1>2, PTL DEF PublisherSpec

----------------------------------------------------------------------------
\* The state of the loops keeps its types; in particular the saved block is a natural
\* number although a range is computed by a subtraction.
THEOREM TypeCorrect == PublisherSpec => []PublisherTypeOK
  <1>1. IInv => PublisherTypeOK
    BY DEF IInv
  <1> QED
    BY <1>1, Inductive, PTL

\* determineBlockRange: every block up to the saved one was handed out in exactly one
\* range, for any number of loops, any configuration and any failures.
THEOREM BlocksHandedOutOnce == PublisherSpec => []EachBlockOnce
  <1>1. IInv => EachBlockOnce
    BY DEF IInv, LoopInv, NoHole, NoOverlap, EachBlockOnce
  <1> QED
    BY <1>1, Inductive, PTL

\* getFollowingDistance: what is published is as deep in the chain as is configured.
THEOREM PublishedIsDeep == PublisherSpec => []FollowsAtDistance
  <1>1. IInv => FollowsAtDistance
    BY DEF IInv, LoopInv, HandedOutInBounds, HandedOut, FollowsAtDistance
  <1> QED
    BY <1>1, Inductive, PTL

----------------------------------------------------------------------------
\* What failures cost.  A range is as wide as a batch, and ranges are published one by one.
LossInv ==
    /\ LossNeedsFailure
    /\ \A l \in Loop :
        /\ pc[l] # "wait" => Cardinality(Blocks(range[l])) <= MinBlockRange[l] + 1
        /\ IsFiniteSet(published[l])

LEMMA MissingFinite ==
    ASSUME PublisherAssumption, PublisherTypeOK, NEW l \in Loop
    PROVE  IsFiniteSet(MissingBlocks(l)) /\ Cardinality(MissingBlocks(l)) \in Nat
  <1>1. FirstBlock(StartBlock[l]) \in Int /\ latestBlock[l] \in Int
    BY FirstBlockPositive DEF PublisherAssumption, PublisherTypeOK
  <1>2. IsFiniteSet(FirstBlock(StartBlock[l])..latestBlock[l])
    BY <1>1, FS_Interval
  <1>3. MissingBlocks(l) \subseteq FirstBlock(StartBlock[l])..latestBlock[l]
    BY DEF MissingBlocks
  <1>4. IsFiniteSet(MissingBlocks(l))
    BY <1>2, <1>3, FS_Subset
  <1> QED
    BY <1>4, FS_CardinalityType

LEMMA ReadOnceFinite ==
    ASSUME LossInv, NEW l \in Loop
    PROVE  IsFiniteSet(ReadOnce(l)) /\ Cardinality(ReadOnce(l)) \in Nat
  <1>1. ReadOnce(l) \subseteq published[l] /\ IsFiniteSet(published[l])
    BY DEF ReadOnce, LossInv
  <1>2. IsFiniteSet(ReadOnce(l))
    BY <1>1, FS_Subset
  <1> QED
    BY <1>2, FS_CardinalityType

\* A step that fails nothing and costs a loop no block and no range keeps the bounds.
LEMMA NoLoss ==
    ASSUME PublisherAssumption, PublisherTypeOK, LossInv,
           failures' = failures,
           \A l \in Loop : MissingBlocks(l)' \subseteq MissingBlocks(l),
           \A l \in Republishing : ReadOnce(l)' \subseteq ReadOnce(l)
    PROVE  LossNeedsFailure'
  <1>1. ASSUME NEW l \in Loop
        PROVE  Cardinality(MissingBlocks(l)') <= failures' * (MinBlockRange[l] + 1)
    <2>1. Cardinality(MissingBlocks(l)') <= Cardinality(MissingBlocks(l))
      BY MissingFinite, FS_Subset
    <2>2. IsFiniteSet(MissingBlocks(l)')
      BY MissingFinite, FS_Subset
    <2>3. Cardinality(MissingBlocks(l)') \in Nat /\ Cardinality(MissingBlocks(l)) \in Nat
      BY <2>2, MissingFinite, FS_CardinalityType
    <2>4. Cardinality(MissingBlocks(l)) <= failures * (MinBlockRange[l] + 1)
      BY DEF LossInv, LossNeedsFailure
    <2>5. failures * (MinBlockRange[l] + 1) \in Nat
      BY DEF PublisherTypeOK, PublisherAssumption
    <2> QED
      BY <2>1, <2>3, <2>4, <2>5
  <1>2. ASSUME NEW l \in Republishing PROVE Cardinality(ReadOnce(l)') <= failures'
    <2>0. l \in Loop /\ failures \in Nat
      BY DEF PublisherAssumption, PublisherTypeOK
    <2>1. Cardinality(ReadOnce(l)') <= Cardinality(ReadOnce(l)) /\ IsFiniteSet(ReadOnce(l)')
      BY <2>0, ReadOnceFinite, FS_Subset
    <2>2. Cardinality(ReadOnce(l)') \in Nat /\ Cardinality(ReadOnce(l)) \in Nat
      BY <2>0, <2>1, ReadOnceFinite, FS_CardinalityType
    <2>3. Cardinality(ReadOnce(l)) <= failures
      BY DEF LossInv, LossNeedsFailure
    <2> QED
      BY <2>0, <2>1, <2>2, <2>3
  <1> QED
    BY <1>1, <1>2 DEF LossNeedsFailure

LEMMA WidthOfRange ==
    ASSUME PublisherAssumption, IInv, NEW k \in Loop, NEW seen \in 0..MaxHead, Determine(k, seen)
    PROVE  Cardinality(Blocks(NextRange(k, seen))) <= MinBlockRange[k] + 1
  <1>1. /\ latestBlock[k] \in Nat /\ StartBlock[k] \in Nat /\ seen \in Nat
        /\ Distance[k] \in Nat /\ MinBlockRange[k] \in Nat
    BY DEF IInv, PublisherTypeOK, PublisherAssumption
  <1> DEFINE from == NextFrom(latestBlock[k], StartBlock[k])
             to == Lesser(seen - Distance[k], from + MinBlockRange[k])
  <1>2. from \in Nat
    BY <1>1, NextFromType
  <1>3. to \in Int /\ to <= from + MinBlockRange[k]
    BY <1>1, <1>2 DEF Lesser
  <1>4. Blocks(NextRange(k, seen)) = from..to
    BY DEF Blocks, NextRange, DetermineBlockRange
  <1> HIDE DEF from, to
  <1>5. Cardinality(from..to) = IF from > to THEN 0 ELSE to - from + 1
    BY <1>2, <1>3, FS_Interval
  <1> QED
    BY <1>1, <1>2, <1>3, <1>4, <1>5

LEMMA QuietLoss ==
    ASSUME PublisherAssumption, IInv, LossInv, NEW k \in Loop,
           Mine(k) \/ Republish(k) \/ (\E seen \in 0..MaxHead : Determine(k, seen))
    PROVE  LossInv'
  <1>1. /\ UNCHANGED <<latestBlock, published, failures>>
        /\ \A l \in Loop : InFlight(l)' = InFlight(l)
    BY DEF Mine, Republish, Determine, InFlight, IInv, PublisherTypeOK
  <1>2. \A l \in Loop : MissingBlocks(l)' = MissingBlocks(l)
    BY <1>1 DEF MissingBlocks
  <1>3. \A l \in Loop : ReadOnce(l)' \subseteq ReadOnce(l)
    BY DEF Mine, Republish, Determine, ReadOnce, IInv, PublisherTypeOK
  <1>4. LossNeedsFailure'
    BY <1>1, <1>2, <1>3, NoLoss DEF IInv, PublisherAssumption
  <1>5. ASSUME NEW l \in Loop, pc'[l] # "wait"
        PROVE  Cardinality(Blocks(range'[l])) <= MinBlockRange[l] + 1
    <2>1. CASE pc[l] # "wait" /\ range'[l] = range[l]
      BY <2>1 DEF LossInv
    <2>2. CASE \E seen \in 0..MaxHead : Determine(l, seen)
      BY <2>2, WidthOfRange DEF Determine, IInv, PublisherTypeOK
    <2> QED
      BY <1>5, <2>1, <2>2 DEF Mine, Republish, Determine, IInv, PublisherTypeOK
  <1> QED
    BY <1>1, <1>4, <1>5 DEF LossInv

\* The blocks that Save adds to the saved ones are those of the range in flight.
LEMMA SaveLoss ==
    ASSUME PublisherAssumption, IInv, LossInv, NEW k \in Loop, Save(k)
    PROVE  LossInv'
  <1>1. /\ latestBlock[k] \in Nat /\ StartBlock[k] \in Nat
        /\ FirstBlock(StartBlock[k]) \in Nat
        /\ range[k].from \in Nat /\ range[k].to \in Nat
        /\ range[k].from = NextFrom(latestBlock[k], StartBlock[k])
    <2>1. range[k] \in BlockRange /\ latestBlock[k] \in Nat /\ StartBlock[k] \in Nat
      BY DEF IInv, PublisherTypeOK, PublisherAssumption
    <2>2. range[k].from = NextFrom(latestBlock[k], StartBlock[k]) /\ range[k].from <= range[k].to
      BY DEF Save, IInv, LoopInv, PendingIsNext
    <2> QED
      BY <2>1, <2>2, FirstBlockPositive DEF BlockRange
  <1>2. /\ UNCHANGED <<published, republished, failures, range>>
        /\ pc[k] = "save" /\ pc' = [pc EXCEPT ![k] = "publish"]
        /\ latestBlock' = [latestBlock EXCEPT ![k] = range[k].to]
    BY DEF Save
  <1>3. ASSUME NEW l \in Loop PROVE MissingBlocks(l)' \subseteq MissingBlocks(l)
    <2>1. CASE l # k
      BY <1>2, <2>1 DEF MissingBlocks, InFlight, IInv, PublisherTypeOK
    <2>2. CASE l = k
      <3>1. InFlight(k) = {} /\ InFlight(k)' = {range[k]} /\ latestBlock'[k] = range[k].to
        BY <1>2 DEF InFlight, IInv, PublisherTypeOK
      <3> SUFFICES ASSUME NEW b \in FirstBlock(StartBlock[k])..range[k].to,
                          \A r \in published[k] \cup {range[k]} : b \notin Blocks(r)
                   PROVE  b \in MissingBlocks(k)
        BY <1>2, <2>2, <3>1 DEF MissingBlocks
      <3>2. b < range[k].from
        BY <1>1 DEF Blocks
      <3>3. b <= latestBlock[k]
        BY <1>1, <3>2 DEF NextFrom, NoRow
      <3> QED
        BY <1>1, <3>1, <3>3 DEF MissingBlocks
    <2> QED
      BY <2>1, <2>2
  <1>4. \A l \in Loop : ReadOnce(l)' = ReadOnce(l)
    BY <1>2 DEF ReadOnce, IInv, PublisherTypeOK
  <1>5. LossNeedsFailure'
    BY <1>2, <1>3, <1>4, NoLoss DEF IInv, PublisherAssumption
  <1>6. ASSUME NEW l \in Loop, pc'[l] # "wait"
        PROVE  Cardinality(Blocks(range'[l])) <= MinBlockRange[l] + 1
    BY <1>2, <1>6 DEF LossInv, IInv, PublisherTypeOK
  <1> QED
    BY <1>2, <1>5, <1>6 DEF LossInv

LEMMA PublishLoss ==
    ASSUME PublisherAssumption, IInv, LossInv, NEW k \in Loop, Publish(k)
    PROVE  LossInv'
  <1>1. /\ UNCHANGED <<latestBlock, republished, failures, range>>
        /\ pc[k] = "publish"
        /\ pc' = [pc EXCEPT ![k] = IF k \in Republishing THEN "republish" ELSE "wait"]
        /\ published' = [published EXCEPT ![k] = @ \cup {range[k]}]
    BY DEF Publish
  <1>2. ASSUME NEW l \in Loop PROVE MissingBlocks(l)' = MissingBlocks(l)
    <2>1. (published[l] \cup InFlight(l))' = published[l] \cup InFlight(l)
      BY <1>1 DEF InFlight, IInv, PublisherTypeOK
    <2> QED
      BY <1>1, <2>1 DEF MissingBlocks
  <1>3. ASSUME NEW l \in Republishing PROVE ReadOnce(l)' \subseteq ReadOnce(l)
    BY <1>1 DEF ReadOnce, IInv, PublisherTypeOK, PublisherAssumption
  <1>4. LossNeedsFailure'
    BY <1>1, <1>2, <1>3, NoLoss DEF IInv
  <1>5. ASSUME NEW l \in Loop PROVE IsFiniteSet(published'[l])
    BY <1>1, FS_AddElement DEF LossInv, IInv, PublisherTypeOK
  <1>6. ASSUME NEW l \in Loop, pc'[l] # "wait"
        PROVE  Cardinality(Blocks(range'[l])) <= MinBlockRange[l] + 1
    BY <1>1, <1>6 DEF LossInv, IInv, PublisherTypeOK
  <1> QED
    BY <1>4, <1>5, <1>6 DEF LossInv

\* A failure costs the batch in flight, or the second read of the batch just published.
LEMMA FailLoss ==
    ASSUME PublisherAssumption, IInv, LossInv, NEW k \in Loop, Fail(k)
    PROVE  LossInv'
  <1>1. /\ UNCHANGED <<latestBlock, published, republished, range>>
        /\ pc[k] # "wait" /\ pc' = [pc EXCEPT ![k] = "wait"]
        /\ failures' = failures + 1 /\ failures \in Nat
    BY DEF Fail, IInv, PublisherTypeOK
  <1>2. range[k] \in BlockRange
    BY DEF IInv, PublisherTypeOK
  <1>3. ASSUME NEW l \in Loop
        PROVE  Cardinality(MissingBlocks(l)') <= failures' * (MinBlockRange[l] + 1)
    <2> DEFINE batch == MinBlockRange[l] + 1
    <2>1. batch \in Nat /\ Cardinality(MissingBlocks(l)) <= failures * batch
          /\ IsFiniteSet(MissingBlocks(l)) /\ Cardinality(MissingBlocks(l)) \in Nat
      BY MissingFinite DEF LossInv, LossNeedsFailure, PublisherAssumption, IInv
    <2>2. failures' * batch = (failures * batch) + batch /\ failures * batch \in Nat
      BY <1>1, <2>1
    <2>3. CASE l # k \/ pc[k] # "publish"
      <3>1. MissingBlocks(l)' = MissingBlocks(l)
        BY <1>1, <2>3 DEF MissingBlocks, InFlight, IInv, PublisherTypeOK
      <3> HIDE DEF batch
      <3> QED
        BY <2>1, <2>2, <3>1 DEF batch
    <2>4. CASE l = k /\ pc[k] = "publish"
      <3>1. MissingBlocks(k)' \subseteq MissingBlocks(k) \cup Blocks(range[k])
        BY <1>1, <2>4 DEF MissingBlocks, InFlight, IInv, PublisherTypeOK
      <3>2. IsFiniteSet(Blocks(range[k])) /\ Cardinality(Blocks(range[k])) \in Nat
        <4>1. range[k].from \in Int /\ range[k].to \in Int
          BY <1>2 DEF BlockRange
        <4>2. IsFiniteSet(Blocks(range[k]))
          BY <4>1, FS_Interval DEF Blocks
        <4> QED
          BY <4>2, FS_CardinalityType
      <3>3. Cardinality(Blocks(range[k])) <= batch
        BY <1>1, <2>4 DEF LossInv
      <3> DEFINE both == MissingBlocks(k) \cup Blocks(range[k])
                 common == MissingBlocks(k) \cap Blocks(range[k])
      <3>4. /\ IsFiniteSet(both)
            /\ Cardinality(both) <= Cardinality(MissingBlocks(k)) + Cardinality(Blocks(range[k]))
        <4>1. IsFiniteSet(common)
          BY <3>2, FS_Subset
        <4>2. Cardinality(common) \in Nat
          BY <4>1, FS_CardinalityType
        <4>3. /\ IsFiniteSet(both)
              /\ Cardinality(both) = Cardinality(MissingBlocks(k)) + Cardinality(Blocks(range[k]))
                                      - Cardinality(common)
          BY <2>1, <2>4, <3>2, FS_Union
        <4> HIDE DEF both, common
        <4> QED
          BY <2>1, <2>4, <3>2, <4>2, <4>3
      <3>5. /\ Cardinality(MissingBlocks(k)') \in Nat
            /\ Cardinality(MissingBlocks(k)')
                 <= Cardinality(MissingBlocks(k)) + Cardinality(Blocks(range[k]))
        <4>1. IsFiniteSet(MissingBlocks(k)') /\ Cardinality(MissingBlocks(k)') <= Cardinality(both)
          BY <3>1, <3>4, FS_Subset
        <4>2. Cardinality(MissingBlocks(k)') \in Nat /\ Cardinality(both) \in Nat
          BY <3>4, <4>1, FS_CardinalityType
        <4> HIDE DEF both
        <4> QED
          BY <2>1, <2>4, <3>2, <3>4, <4>1, <4>2
      <3> HIDE DEF batch
      <3> QED
        BY <2>1, <2>2, <2>4, <3>2, <3>3, <3>5 DEF batch
    <2> QED
      BY <2>3, <2>4
  <1>4. ASSUME NEW l \in Republishing PROVE Cardinality(ReadOnce(l)') <= failures'
    <2>1. l \in Loop /\ Cardinality(ReadOnce(l)) <= failures
      BY DEF PublisherAssumption, LossInv, LossNeedsFailure
    <2>2. ReadOnce(l)' \subseteq ReadOnce(l) \cup {range[l]}
      BY <1>1 DEF ReadOnce, IInv, PublisherTypeOK
    <2>3. IsFiniteSet(ReadOnce(l)) /\ Cardinality(ReadOnce(l)) \in Nat
      BY <2>1, ReadOnceFinite
    <2>4. IsFiniteSet(ReadOnce(l) \cup {range[l]})
          /\ Cardinality(ReadOnce(l) \cup {range[l]}) <= Cardinality(ReadOnce(l)) + 1
      BY <2>3, FS_AddElement
    <2>5. IsFiniteSet(ReadOnce(l)')
          /\ Cardinality(ReadOnce(l)') <= Cardinality(ReadOnce(l) \cup {range[l]})
      BY <2>2, <2>4, FS_Subset
    <2>6. Cardinality(ReadOnce(l)') \in Nat /\ Cardinality(ReadOnce(l) \cup {range[l]}) \in Nat
      BY <2>4, <2>5, FS_CardinalityType
    <2> QED
      BY <1>1, <2>1, <2>3, <2>4, <2>5, <2>6
  <1>5. LossNeedsFailure'
    BY <1>3, <1>4 DEF LossNeedsFailure
  <1>6. ASSUME NEW l \in Loop, pc'[l] # "wait"
        PROVE  Cardinality(Blocks(range'[l])) <= MinBlockRange[l] + 1
    BY <1>1, <1>6 DEF LossInv, IInv, PublisherTypeOK
  <1> QED
    BY <1>1, <1>5, <1>6 DEF LossInv

LEMMA LossStep ==
    PublisherAssumption /\ IInv /\ LossInv /\ [PublisherNext]_publisherVars => LossInv'
  <1> SUFFICES ASSUME PublisherAssumption, IInv, LossInv, [PublisherNext]_publisherVars
               PROVE  LossInv'
    OBVIOUS
  <1>1. CASE UNCHANGED publisherVars
    BY <1>1 DEF publisherVars, LossInv, LossNeedsFailure, MissingBlocks, ReadOnce, InFlight
  <1>2. ASSUME NEW k \in Loop, Mine(k) \/ Iterate(k) \/ Fail(k) PROVE LossInv'
    BY <1>2, QuietLoss, SaveLoss, PublishLoss, FailLoss DEF Iterate
  <1> QED
    BY <1>1, <1>2 DEF PublisherNext

LEMMA InitLoss == PublisherInit => LossInv
  <1> SUFFICES ASSUME PublisherInit PROVE LossInv
    OBVIOUS
  <1>1. ASSUME NEW l \in Loop PROVE MissingBlocks(l) = {} /\ ReadOnce(l) = {}
    <2>1. FirstBlock(StartBlock[l]) \in Nat /\ FirstBlock(StartBlock[l]) >= 1
      BY PublisherAssumption, FirstBlockPositive DEF PublisherAssumption
    <2>2. latestBlock[l] = 0 /\ published[l] = {}
      BY DEF PublisherInit, NoRow
    <2> QED
      BY <2>1, <2>2 DEF MissingBlocks, ReadOnce
  <1>2. \A l \in Loop : pc[l] = "wait" /\ published[l] = {} /\ MinBlockRange[l] \in Nat
    BY PublisherAssumption DEF PublisherInit, PublisherAssumption
  <1>3. failures = 0 /\ Republishing \subseteq Loop
    BY PublisherAssumption DEF PublisherInit, PublisherAssumption
  <1>4. LossNeedsFailure
    <2>1. \A l \in Loop : failures * (MinBlockRange[l] + 1) = 0
      BY <1>2, <1>3
    <2> QED
      BY <1>1, <1>3, <2>1, FS_EmptySet DEF LossNeedsFailure
  <1> QED
    BY <1>2, <1>4, FS_EmptySet DEF LossInv

(***************************************************************************)
(* A failure of a loop costs one batch of blocks, or the second read of    *)
(* one, and nothing else does: for any number of loops and failures, any   *)
(* batch size and any growth of the chains.                                *)
(***************************************************************************)
THEOREM LossIsBounded == PublisherSpec => []LossNeedsFailure
  <1>1. PublisherInit => LossInv
    BY InitLoss
  <1>2. LossInv => LossNeedsFailure
    BY DEF LossInv
  <1>3. IInv /\ LossInv /\ [PublisherNext]_publisherVars => LossInv'
    BY PublisherAssumption, LossStep
  <1> QED
    BY <1>1, <1>2, <1>3, Inductive, PTL DEF PublisherSpec

----------------------------------------------------------------------------
\* A message is owed for a row that is there and not announced, by one running job.
OwedIsFresh ==
    \A j \in jobs : j.owed # NoDeposit =>
        j.at = "running" /\ j.owed \in rows /\ announced[j.owed] = 0

OwedByOne == \A j, k \in jobs : j.owed # NoDeposit /\ j.owed = k.owed => j = k

AnnouncedHasRow == \A d \in Deposit : announced[d] # 0 => d \in rows

SilentRows == {d \in rows : Silent(d)}

QueueTypes ==
    /\ jobs \subseteq Job
    /\ rows \subseteq Deposit
    /\ announced \in [Deposit -> Nat]

QueueInv ==
    /\ QueueTypes
    /\ AnnouncedOnce
    /\ OwedIsFresh
    /\ OwedByOne
    /\ AnnouncedHasRow
    /\ IsFiniteSet(SilentRows)

\* A job that fails counts as a failure and leaves the loops alone.
OnlyFailure ==
    /\ UNCHANGED <<head, latestBlock, pc, range, published, republished, lost>>
    /\ failures' = failures + 1
    /\ failures < MaxFailures

\* What a step of the system is to the loops.
LEMMA StepOfLoops == [Next]_vars => [PublisherNext]_publisherVars \/ OnlyFailure
  <1> SUFFICES ASSUME [Next]_vars PROVE [PublisherNext]_publisherVars \/ OnlyFailure
    OBVIOUS
  <1>1. CASE UNCHANGED vars
    BY <1>1 DEF vars
  <1>2. ASSUME NEW l \in Loop, LoopStep(l) PROVE PublisherNext
    BY <1>2 DEF LoopStep, AddJob, AddDelayedJob, PublisherNext, Iterate
  <1>3. ASSUME NEW j \in jobs, Work(j) PROVE UNCHANGED publisherVars
    BY <1>3 DEF Work, Query, SeekToken, SaveToken, Insert, Announce, PublishFill,
                PublishSpeedUp, Complete
  <1>4. ASSUME NEW j \in jobs, Retry(j) PROVE OnlyFailure
    BY <1>4 DEF Retry, OnlyFailure
  <1>5. ASSUME NEW t \in Token, SaveTokenElsewhere(t) PROVE UNCHANGED publisherVars
    BY <1>5 DEF SaveTokenElsewhere
  <1> QED
    BY <1>1, <1>2, <1>3, <1>4, <1>5 DEF Next

LEMMA OnlyFailureInv ==
    ASSUME PublisherAssumption, IInv, LossInv, OnlyFailure
    PROVE  IInv' /\ LossInv'
  <1>1. IInv'
    BY DEF OnlyFailure, IInv, PublisherTypeOK, LoopInv, PendingIsNext, HandedOutInBounds,
           NoHole, NoOverlap, SavedAfterStart, HandedOut, InFlight, PublisherAssumption
  <1>2. /\ failures \in Nat /\ failures' = failures + 1
    BY DEF OnlyFailure, IInv, PublisherTypeOK
  <1>3. ASSUME NEW l \in Loop
        PROVE  Cardinality(MissingBlocks(l)') <= failures' * (MinBlockRange[l] + 1)
    <2> DEFINE batch == MinBlockRange[l] + 1
    <2>1. MissingBlocks(l)' = MissingBlocks(l)
      BY DEF OnlyFailure, MissingBlocks, InFlight
    <2>2. batch \in Nat /\ Cardinality(MissingBlocks(l)) <= failures * batch
          /\ Cardinality(MissingBlocks(l)) \in Nat
      BY MissingFinite DEF LossInv, LossNeedsFailure, PublisherAssumption, IInv
    <2>3. failures' * batch = (failures * batch) + batch /\ failures * batch \in Nat
      BY <1>2, <2>2
    <2> HIDE DEF batch
    <2> QED
      BY <2>1, <2>2, <2>3 DEF batch
  <1>4. ASSUME NEW l \in Republishing PROVE Cardinality(ReadOnce(l)') <= failures'
    <2>1. ReadOnce(l)' = ReadOnce(l)
      BY DEF OnlyFailure, ReadOnce
    <2>2. l \in Loop /\ Cardinality(ReadOnce(l)) <= failures
      BY DEF PublisherAssumption, LossInv, LossNeedsFailure
    <2>3. Cardinality(ReadOnce(l)) \in Nat
      BY <2>2, ReadOnceFinite
    <2> QED
      BY <1>2, <2>1, <2>2, <2>3
  <1>5. LossNeedsFailure'
    BY <1>3, <1>4 DEF LossNeedsFailure
  <1> QED
    BY <1>1, <1>5 DEF LossInv, OnlyFailure

LEMMA LoopsStep ==
    ASSUME PublisherAssumption, IInv, LossInv, [Next]_vars
    PROVE  IInv' /\ LossInv'
  BY StepOfLoops, StepInv, LossStep, OnlyFailureInv

----------------------------------------------------------------------------
\* What a step needs to keep the part of QueueInv that counts silent rows.
LEMMA SilentBound ==
    ASSUME QueueInv, failures \in Nat, failures' \in Nat, failures' >= failures,
           SilentRows' \subseteq SilentRows
    PROVE  IsFiniteSet(SilentRows') /\ Cardinality(SilentRows') <= failures'
  <1>1. IsFiniteSet(SilentRows) /\ Cardinality(SilentRows) <= failures
    BY DEF QueueInv, AnnouncedOnce, SilentRows
  <1>2. IsFiniteSet(SilentRows') /\ Cardinality(SilentRows') <= Cardinality(SilentRows)
    BY <1>1, FS_Subset
  <1>3. Cardinality(SilentRows) \in Nat /\ Cardinality(SilentRows') \in Nat
    BY <1>1, <1>2, FS_CardinalityType
  <1> QED
    BY <1>1, <1>2, <1>3

\* The jobs may change as they like where no message is owed.
LEMMA SameDebts ==
    ASSUME QueueInv, failures \in Nat, failures' \in Nat, failures' >= failures,
           QueueTypes', rows' = rows, announced' = announced,
           \A k : k.owed # NoDeposit => (k \in jobs' <=> k \in jobs)
    PROVE  QueueInv'
  <1>1. ASSUME NEW d \in Deposit PROVE Silent(d)' <=> Silent(d)
    <2>1. d # NoDeposit
      BY IngestionAssumption DEF IngestionAssumption
    <2> QED
      BY <2>1 DEF Silent
  <1>2. SilentRows' \subseteq SilentRows
    BY <1>1 DEF SilentRows, QueueTypes
  <1>3. OwedIsFresh' /\ OwedByOne' /\ AnnouncedHasRow'
    BY DEF QueueInv, OwedIsFresh, OwedByOne, AnnouncedHasRow
  <1>4. AnnouncedOnce' /\ IsFiniteSet(SilentRows')
    BY <1>2, SilentBound DEF AnnouncedOnce, QueueInv, SilentRows
  <1> QED
    BY <1>3, <1>4 DEF QueueInv

\* The jobs keep their types, whatever is updated in one.
LEMMA UpdateTypes ==
    ASSUME QueueTypes, NEW j \in jobs, NEW new \in Job, Update(j, new),
           rows' \subseteq Deposit, announced' \in [Deposit -> Nat]
    PROVE  QueueTypes'
  BY DEF QueueTypes, Update

LEMMA NewJobType ==
    ASSUME NEW l \in Loop, NEW r \in BlockRange, NEW copy \in {"now", "delayed"}
    PROVE  NewJob(l, r, copy) \in Job /\ NewJob(l, r, copy).owed = NoDeposit
  BY DEF NewJob, Job

\* The loops add jobs that owe nothing.
LEMMA LoopQueue ==
    ASSUME QueueInv, PublisherTypeOK, PublisherTypeOK', NEW l \in Loop, LoopStep(l)
    PROVE  QueueInv'
  <1>1. failures \in Nat /\ failures' \in Nat /\ failures' >= failures
    BY DEF PublisherTypeOK, LoopStep, AddJob, AddDelayedJob, Publish, Republish, Mine,
           Determine, Save, Fail
  <1>2. rows' = rows /\ announced' = announced
    BY DEF LoopStep, AddJob, AddDelayedJob, queueVars
  <1>3. range[l] \in BlockRange
    BY DEF PublisherTypeOK
  <1>4. \/ jobs' = jobs
        \/ \E copy \in {"now", "delayed"} : jobs' = jobs \cup {NewJob(l, range[l], copy)}
    BY DEF LoopStep, AddJob, AddDelayedJob, queueVars
  <1>5. CASE jobs' = jobs
    BY <1>1, <1>2, <1>5, SameDebts DEF QueueTypes, QueueInv
  <1>6. ASSUME NEW copy \in {"now", "delayed"}, jobs' = jobs \cup {NewJob(l, range[l], copy)}
        PROVE  QueueInv'
    <2>1. NewJob(l, range[l], copy) \in Job /\ NewJob(l, range[l], copy).owed = NoDeposit
      BY <1>3, NewJobType
    <2>2. QueueTypes'
      BY <1>2, <1>6, <2>1 DEF QueueInv, QueueTypes
    <2> QED
      BY <1>1, <1>2, <1>6, <2>1, <2>2, SameDebts
  <1> QED
    BY <1>4, <1>5, <1>6

\* A job that owes nothing, before and after, and leaves rows and messages alone.
LEMMA IdleQueue ==
    ASSUME QueueInv, PublisherTypeOK, PublisherTypeOK', NEW j \in jobs, NEW new \in Job,
           Update(j, new), j.owed = NoDeposit, new.owed = NoDeposit,
           rows' = rows, announced' = announced, failures' >= failures
    PROVE  QueueInv'
  <1>1. failures \in Nat /\ failures' \in Nat
    BY DEF PublisherTypeOK
  <1>2. QueueTypes'
    BY UpdateTypes DEF QueueInv, QueueTypes
  <1>3. \A k : k.owed # NoDeposit => (k \in jobs' <=> k \in jobs)
    BY DEF Update
  <1> QED
    BY <1>1, <1>2, <1>3, SameDebts

\* The job after its query, by what the query left out.
Queried(j, leftOut) ==
    LET inRange == EventsIn(Event, j.loop, ReadBlocks[j.loop][j.range])
        found == {e \in inRange : EventBlock[e] \notin leftOut[KindOf[e]]}
    IN  [j EXCEPT !.at = "running", !.deposits = found \cap Deposit, !.fills = found \cap Fill,
                  !.speedUps = found \cap SpeedUp, !.left = inRange \ found]

LEMMA QueriedIs ==
    ASSUME NEW j \in Job, Query(j)
    PROVE  \E leftOut \in [Kind -> SUBSET MayLeaveOut[j.loop][j.range]] :
              /\ Update(j, Queried(j, leftOut))
              /\ Queried(j, leftOut) \in Job
              /\ Queried(j, leftOut).owed = j.owed
  <1>1. PICK leftOut \in [Kind -> SUBSET MayLeaveOut[j.loop][j.range]] :
            Update(j, Queried(j, leftOut))
    BY DEF Query, Queried
  <1>2. EventsIn(Event, j.loop, ReadBlocks[j.loop][j.range]) \subseteq Event
    BY DEF EventsIn
  <1>3. Queried(j, leftOut) \in Job /\ Queried(j, leftOut).owed = j.owed
    <2> DEFINE inRange == EventsIn(Event, j.loop, ReadBlocks[j.loop][j.range])
               found == {e \in inRange : EventBlock[e] \notin leftOut[KindOf[e]]}
    <2>1. inRange \ found \in SUBSET Event
      BY <1>2
    <2> HIDE DEF inRange, found
    <2>2. Queried(j, leftOut) =
            [j EXCEPT !.at = "running", !.deposits = found \cap Deposit, !.fills = found \cap Fill,
                      !.speedUps = found \cap SpeedUp, !.left = inRange \ found]
      BY DEF Queried, inRange, found
    <2> QED
      BY <2>1, <2>2 DEF Job
  <1> QED
    BY <1>1, <1>3

\* The jobs' steps that owe nothing: the query, the token of a deposit, the fills and the
\* speed-ups, the end.
LEMMA QuietJobQueue ==
    ASSUME QueueInv, PublisherTypeOK, PublisherTypeOK', NEW j \in jobs,
           \/ Query(j)
           \/ \E d \in Deposit : SeekToken(j, d)
           \/ SaveToken(j)
           \/ \E f \in Fill : PublishFill(j, f)
           \/ \E s \in SpeedUp : PublishSpeedUp(j, s)
           \/ Complete(j)
    PROVE  QueueInv'
  <1>1. j \in Job /\ failures \in Nat
    BY DEF QueueInv, QueueTypes, PublisherTypeOK
  <1>2. j.owed = NoDeposit /\ rows' = rows /\ announced' = announced /\ failures' = failures
    BY DEF Query, SeekToken, Turn, SaveToken, PublishFill, PublishSpeedUp, Complete, publisherVars,
           QueueInv, OwedIsFresh
  <1>3. CASE Query(j)
    <2>1. PICK leftOut : /\ Update(j, Queried(j, leftOut))
                         /\ Queried(j, leftOut) \in Job
                         /\ Queried(j, leftOut).owed = j.owed
      BY <1>1, <1>3, QueriedIs
    <2> QED
      BY <1>1, <1>2, <2>1, IdleQueue
  <1>4. ASSUME NEW f \in Fill, PublishFill(j, f) PROVE QueueInv'
    <2> DEFINE new == [j EXCEPT !.fills = @ \ {f}]
    <2>1. Update(j, new)
      BY <1>4 DEF PublishFill
    <2>2. new \in Job /\ new.owed = NoDeposit
      BY <1>1, <1>2 DEF Job
    <2> HIDE DEF new
    <2> QED
      BY <1>1, <1>2, <2>1, <2>2, IdleQueue
  <1>5. ASSUME NEW s \in SpeedUp, PublishSpeedUp(j, s) PROVE QueueInv'
    <2> DEFINE new == [j EXCEPT !.speedUps = @ \ {s}]
    <2>1. Update(j, new)
      BY <1>5 DEF PublishSpeedUp
    <2>2. new \in Job /\ new.owed = NoDeposit
      BY <1>1, <1>2 DEF Job
    <2> HIDE DEF new
    <2> QED
      BY <1>1, <1>2, <2>1, <2>2, IdleQueue
  <1>6. CASE Complete(j)
    <2> DEFINE new == [j EXCEPT !.at = "done"]
    <2>1. Update(j, new)
      BY <1>6 DEF Complete
    <2>2. new \in Job /\ new.owed = NoDeposit
      BY <1>1, <1>2 DEF Job
    <2> HIDE DEF new
    <2> QED
      BY <1>1, <1>2, <2>1, <2>2, IdleQueue
  <1>7. ASSUME NEW d \in Deposit, SeekToken(j, d) PROVE QueueInv'
    <2> DEFINE new == [j EXCEPT !.seeking = d]
    <2>1. Update(j, new)
      BY <1>7 DEF SeekToken
    <2>2. new \in Job /\ new.owed = NoDeposit
      BY <1>1, <1>2 DEF Job
    <2> HIDE DEF new
    <2> QED
      BY <1>1, <1>2, <2>1, <2>2, IdleQueue
  <1>8. CASE SaveToken(j)
    <2> DEFINE refusal == [j EXCEPT !.seeking = NoDeposit, !.deposits = @ \ {j.seeking},
                                    !.refused = @ \cup {j.seeking}]
               saved == [j EXCEPT !.seeking = NoDeposit]
    <2>1. Update(j, refusal) \/ Update(j, saved)
      BY <1>8 DEF SaveToken
    <2>2. j.seeking \in Deposit
      BY <1>1, <1>8 DEF SaveToken, Job
    <2>3. refusal \in Job /\ refusal.owed = NoDeposit
      BY <1>1, <1>2, <2>2 DEF Job
    <2>4. saved \in Job /\ saved.owed = NoDeposit
      BY <1>1, <1>2 DEF Job
    <2> HIDE DEF refusal, saved
    <2> QED
      BY <1>1, <1>2, <2>1, <2>3, <2>4, IdleQueue
  <1> QED
    BY <1>3, <1>4, <1>5, <1>6, <1>7, <1>8

\* A fresh row is owed its message by the job that inserted it, and by no other.
LEMMA InsertQueue ==
    ASSUME QueueInv, PublisherTypeOK, PublisherTypeOK', NEW j \in jobs, NEW d \in Deposit,
           Insert(j, d)
    PROVE  QueueInv'
  <1> DEFINE new == [j EXCEPT !.deposits = @ \ {d}, !.owed = IF d \in rows THEN NoDeposit ELSE d]
  <1>1. j \in Job /\ failures \in Nat /\ j.owed = NoDeposit
    BY DEF QueueInv, QueueTypes, PublisherTypeOK, Insert, Turn
  <1>2. Update(j, new) /\ rows' = rows \cup {d} /\ announced' = announced /\ failures' = failures
    BY DEF Insert, publisherVars
  <1>3. new \in Job /\ new.at = "running" /\ new.owed = IF d \in rows THEN NoDeposit ELSE d
    BY <1>1 DEF Job, Insert, Turn
  <1> HIDE DEF new
  <1>4. CASE d \in rows
    <2>1. rows' = rows
      BY <1>2, <1>4
    <2> QED
      BY <1>1, <1>2, <1>3, <1>4, <2>1, IdleQueue
  <1>5. CASE d \notin rows
    <2>1. new.owed = d /\ d # NoDeposit /\ announced[d] = 0
      BY <1>3, <1>5, IngestionAssumption DEF IngestionAssumption, QueueInv, AnnouncedHasRow
    <2>2. jobs' = (jobs \ {j}) \cup {new}
      BY <1>2 DEF Update
    <2>3. \A k \in jobs : k.owed # d
      BY <1>5, <2>1 DEF QueueInv, OwedIsFresh
    <2>4. QueueTypes'
      BY <1>2, <1>3, UpdateTypes DEF QueueInv, QueueTypes
    <2>5. OwedIsFresh' /\ OwedByOne' /\ AnnouncedHasRow'
      BY <1>2, <1>3, <2>1, <2>2, <2>3 DEF QueueInv, OwedIsFresh, OwedByOne, AnnouncedHasRow
    <2>6. SilentRows' \subseteq SilentRows
      <3> SUFFICES ASSUME NEW e \in rows', Silent(e)' PROVE e \in SilentRows
        BY DEF SilentRows
      <3>1. e # d
        BY <2>1, <2>2 DEF Silent
      <3>2. e \in rows /\ e \in Deposit /\ e # NoDeposit
        BY <1>2, <3>1, IngestionAssumption DEF IngestionAssumption, QueueInv, QueueTypes
      <3> QED
        BY <1>1, <1>2, <2>2, <3>2 DEF Silent, SilentRows
    <2>7. IsFiniteSet(SilentRows') /\ Cardinality(SilentRows') <= failures'
      BY <1>1, <1>2, <2>6, SilentBound
    <2> QED
      BY <1>2, <2>4, <2>5, <2>7 DEF QueueInv, AnnouncedOnce, SilentRows
  <1> QED
    BY <1>4, <1>5

\* The message that is published is the first for its row.
LEMMA AnnounceQueue ==
    ASSUME QueueInv, PublisherTypeOK, PublisherTypeOK', NEW j \in jobs, Announce(j)
    PROVE  QueueInv'
  <1> DEFINE new == [j EXCEPT !.owed = NoDeposit]
             d == j.owed
  <1>1. j \in Job /\ failures \in Nat /\ d # NoDeposit /\ d \in rows /\ announced[d] = 0
    BY DEF QueueInv, QueueTypes, PublisherTypeOK, Announce, OwedIsFresh
  <1>2. d \in Deposit /\ rows \subseteq Deposit /\ announced \in [Deposit -> Nat]
    BY <1>1 DEF QueueInv, QueueTypes
  <1>3. /\ jobs' = (jobs \ {j}) \cup {new}
        /\ announced' = [announced EXCEPT ![d] = @ + 1]
        /\ rows' = rows /\ failures' = failures
    BY DEF Announce, Update, publisherVars
  <1>4. new \in Job /\ new.owed = NoDeposit
    BY <1>1 DEF Job
  <1> HIDE DEF new
  <1>5. QueueTypes'
    BY <1>2, <1>3, <1>4 DEF QueueInv, QueueTypes
  <1>6. \A k \in jobs : k # j => k.owed # d
    BY <1>1 DEF QueueInv, OwedByOne
  <1>7. announced'[d] = 1 /\ \A e \in Deposit : e # d => announced'[e] = announced[e]
    BY <1>1, <1>2, <1>3
  <1>8. OwedIsFresh'
    <2> SUFFICES ASSUME NEW k \in jobs', k.owed # NoDeposit
                 PROVE  k.at = "running" /\ k.owed \in rows /\ announced'[k.owed] = 0
      BY <1>3 DEF OwedIsFresh
    <2>1. k \in jobs /\ k # j
      BY <1>3, <1>4
    <2>2. k.at = "running" /\ k.owed # d /\ k.owed \in rows /\ announced[k.owed] = 0
      BY <1>6, <2>1 DEF QueueInv, OwedIsFresh
    <2> HIDE DEF d
    <2> QED
      BY <1>2, <1>7, <2>2
  <1>9. OwedByOne'
    BY <1>3, <1>4 DEF QueueInv, OwedByOne
  <1> HIDE DEF d
  <1>10. AnnouncedHasRow'
    BY <1>1, <1>3, <1>7 DEF QueueInv, AnnouncedHasRow
  <1>11. SilentRows' \subseteq SilentRows
    <2> SUFFICES ASSUME NEW e \in rows, Silent(e)' PROVE Silent(e)
      BY <1>3 DEF SilentRows
    <2>1. e # d /\ e \in Deposit
      BY <1>2, <1>7 DEF Silent
    <2> QED
      BY <1>3, <1>7, <2>1 DEF Silent, d
  <1>12. IsFiniteSet(SilentRows') /\ Cardinality(SilentRows') <= failures'
    BY <1>1, <1>3, <1>11, SilentBound
  <1>13. \A e \in Deposit : announced'[e] <= 1
    BY <1>7 DEF QueueInv, AnnouncedOnce
  <1> QED
    BY <1>5, <1>8, <1>9, <1>10, <1>12, <1>13 DEF QueueInv, AnnouncedOnce, SilentRows

\* A job that fails forgets the message it owes: one more row is silent, one more failure.
LEMMA RetryQueue ==
    ASSUME QueueInv, PublisherTypeOK, PublisherTypeOK', NEW j \in jobs, Retry(j)
    PROVE  QueueInv'
  <1> DEFINE new == NewJob(j.loop, j.range, j.copy)
  <1>1. j \in Job /\ failures \in Nat
    BY DEF QueueInv, QueueTypes, PublisherTypeOK
  <1>2. new \in Job /\ new.owed = NoDeposit
    BY <1>1, NewJobType DEF Job
  <1> HIDE DEF new
  <1>3. /\ jobs' = (jobs \ {j}) \cup {new}
        /\ rows' = rows /\ announced' = announced /\ failures' = failures + 1
    BY DEF Retry, Update, new
  <1>4. QueueTypes'
    BY <1>2, <1>3 DEF QueueInv, QueueTypes
  <1>5. OwedIsFresh' /\ OwedByOne' /\ AnnouncedHasRow'
    BY <1>2, <1>3 DEF QueueInv, OwedIsFresh, OwedByOne, AnnouncedHasRow
  <1>6. SilentRows' \subseteq SilentRows \cup {j.owed}
    BY <1>3 DEF SilentRows, Silent
  <1>7. IsFiniteSet(SilentRows) /\ Cardinality(SilentRows) <= failures
    BY DEF QueueInv, AnnouncedOnce, SilentRows
  <1>8. /\ IsFiniteSet(SilentRows \cup {j.owed})
        /\ Cardinality(SilentRows \cup {j.owed}) <= Cardinality(SilentRows) + 1
    <2>1. Cardinality(SilentRows) \in Nat
      BY <1>7, FS_CardinalityType
    <2> QED
      BY <1>7, <2>1, FS_AddElement
  <1>9. /\ IsFiniteSet(SilentRows')
        /\ Cardinality(SilentRows') <= Cardinality(SilentRows \cup {j.owed})
    BY <1>6, <1>8, FS_Subset
  <1>10. Cardinality(SilentRows') <= failures'
    <2>1. /\ Cardinality(SilentRows) \in Nat /\ Cardinality(SilentRows') \in Nat
          /\ Cardinality(SilentRows \cup {j.owed}) \in Nat
      BY <1>7, <1>8, <1>9, FS_CardinalityType
    <2> QED
      BY <1>1, <1>3, <1>7, <1>8, <1>9, <2>1
  <1>11. \A d \in Deposit : announced'[d] <= 1
    BY <1>3 DEF QueueInv, AnnouncedOnce
  <1> QED
    BY <1>4, <1>5, <1>9, <1>10, <1>11 DEF QueueInv, AnnouncedOnce, SilentRows

----------------------------------------------------------------------------
\* The loops and the jobs together.
LEMMA QueueStep ==
    ASSUME QueueInv, PublisherTypeOK, PublisherTypeOK', [Next]_vars
    PROVE  QueueInv'
  <1>1. CASE UNCHANGED vars
    <2>1. /\ failures \in Nat /\ failures' = failures /\ jobs' = jobs
          /\ rows' = rows /\ announced' = announced
      BY <1>1 DEF vars, publisherVars, queueVars, PublisherTypeOK
    <2> QED
      BY <2>1, SameDebts DEF QueueInv, QueueTypes
  <1>2. ASSUME NEW l \in Loop, LoopStep(l) PROVE QueueInv'
    BY <1>2, LoopQueue
  <1>3. ASSUME NEW j \in jobs, Work(j) \/ Retry(j) PROVE QueueInv'
    BY <1>3, QuietJobQueue, InsertQueue, AnnounceQueue, RetryQueue DEF Work
  <1>4. ASSUME NEW t \in Token, SaveTokenElsewhere(t) PROVE QueueInv'
    <2>1. /\ failures \in Nat /\ failures' = failures /\ jobs' = jobs
          /\ rows' = rows /\ announced' = announced
      BY <1>4 DEF SaveTokenElsewhere, publisherVars, PublisherTypeOK
    <2> QED
      BY <2>1, SameDebts DEF QueueInv, QueueTypes
  <1> QED
    BY <1>1, <1>2, <1>3, <1>4 DEF Next

LEMMA InitQueue == Init => QueueInv
  <1> SUFFICES ASSUME Init PROVE QueueInv
    OBVIOUS
  <1>1. jobs = {} /\ rows = {} /\ announced = [d \in Deposit |-> 0] /\ failures = 0
    BY DEF Init, PublisherInit
  <1>2. SilentRows = {} /\ IsFiniteSet(SilentRows) /\ Cardinality(SilentRows) = 0
    BY <1>1, FS_EmptySet DEF SilentRows
  <1> QED
    BY <1>1, <1>2
       DEF QueueInv, QueueTypes, AnnouncedOnce, SilentRows, OwedIsFresh, OwedByOne, AnnouncedHasRow

LEMMA WayInInductive == Spec => [](IInv /\ LossInv /\ QueueInv)
  <1>1. Init => IInv /\ LossInv /\ QueueInv
    BY PublisherAssumption, InitInv, InitLoss, InitQueue DEF Init
  <1>2. IInv /\ LossInv /\ QueueInv /\ [Next]_vars => (IInv /\ LossInv /\ QueueInv)'
    <2> SUFFICES ASSUME IInv, LossInv, QueueInv, [Next]_vars
                 PROVE  IInv' /\ LossInv' /\ QueueInv'
      OBVIOUS
    <2>1. IInv' /\ LossInv'
      BY PublisherAssumption, LoopsStep
    <2> QED
      BY <2>1, QueueStep DEF IInv
  <1> QED
    BY <1>1, <1>2, PTL DEF Spec

(***************************************************************************)
(* The pipeline of a deposit is started once, however often and by however *)
(* many jobs its range is read; and it is started at all, but for one      *)
(* deposit per failure.  For any contracts, events and number of jobs.     *)
(***************************************************************************)
THEOREM DepositsAnnouncedOnce == Spec => []AnnouncedOnce
  <1>1. QueueInv => AnnouncedOnce
    BY DEF QueueInv
  <1> QED
    BY <1>1, WayInInductive, PTL

(***************************************************************************)
(* What the loops promise they also keep with the consumers behind them,   *)
(* whose failures come on top of their own: every block is handed out in   *)
(* one range, and only failures, of loops or of jobs, keep blocks back.    *)
(***************************************************************************)
THEOREM WayInHandsOutBlocks == Spec => [](EachBlockOnce /\ LossNeedsFailure)
  <1>1. IInv => EachBlockOnce
    BY DEF IInv, LoopInv, NoHole, NoOverlap, EachBlockOnce
  <1>2. LossInv => LossNeedsFailure
    BY DEF LossInv
  <1> QED
    BY <1>1, <1>2, WayInInductive, PTL

----------------------------------------------------------------------------
(* The split of a range over the contracts *)

\* The last of some positions.
LEMMA LastExists ==
    ASSUME NEW n \in Nat, NEW S, S \subseteq 1..n, S # {}
    PROVE  \E i \in S : \A j \in S : j <= i
  <1> DEFINE After(i) == {j \in S : j > i}
             R == StrictSubsetOrdering(S)
             T == {After(i) : i \in S}
  <1>1. IsFiniteSet(S)
    <2>1. IsFiniteSet(1..n)
      BY FS_Interval
    <2> QED
      BY <2>1, FS_Subset
  <1>2. IsWellFoundedOn(R, SUBSET S)
    BY <1>1, FS_FiniteSubsetsOfFinite, FS_StrictSubsetOrderingWellFounded
  <1>3. T \subseteq SUBSET S /\ T # {}
    OBVIOUS
  <1>4. \E t \in T : \A u \in T : ~(<<u, t>> \in R)
    <2> HIDE DEF R, T
    <2> QED
      BY <1>2, <1>3, WFMin
  <1>5. PICK i \in S : \A j \in S : ~(<<After(j), After(i)>> \in R)
    BY <1>4
  <1>6. ASSUME NEW j \in S, j > i PROVE FALSE
    <2>1. i \in Int /\ j \in Int /\ \A k \in S : k \in Int
      OBVIOUS
    <2>2. After(j) \subseteq After(i) /\ j \in After(i) /\ j \notin After(j)
      <3>1. \A k \in S : k > j => k > i
        BY <1>6, <2>1
      <3>2. j > i /\ ~(j > j)
        BY <1>6, <2>1
      <3> QED
        BY <3>1, <3>2
    <2>3. <<After(j), After(i)>> \in R
      BY <2>2 DEF StrictSubsetOrdering
    <2> QED
      BY <1>5, <2>3
  <1> QED
    BY <1>6

\* From the first contract on, there is one whose era a block is in.
LEMMA EraOfBlock ==
    ASSUME NEW starts \in Deployments, NEW b \in Nat, starts[1] <= b
    PROVE  /\ ContractAt(starts, b) \in 1..Len(starts)
           /\ starts[ContractAt(starts, b)] <= b
           /\ \A j \in 1..Len(starts) : j > ContractAt(starts, b) => starts[j] > b
  <1> DEFINE n == Len(starts)
             S == {i \in 1..n : starts[i] <= b}
  <1>1. /\ n \in Nat /\ n > 0 /\ \A i \in 1..n : starts[i] \in Nat
    BY DEF Deployments
  <1>2. PICK i \in S : \A j \in S : j <= i
    <2>1. S \subseteq 1..n /\ 1 \in S
      BY <1>1
    <2> HIDE DEF S, n
    <2> QED
      BY <1>1, <2>1, LastExists
  <1>3. i \in 1..n /\ starts[i] <= b /\ \A j \in 1..n : j > i => starts[j] > b
    BY <1>1, <1>2
  <1> QED
    BY <1>3 DEF ContractAt

\* An earlier block is in an earlier era.
LEMMA EraGrows ==
    ASSUME NEW starts \in Deployments, NEW a \in Nat, NEW b \in Nat, starts[1] <= a, a <= b
    PROVE  ContractAt(starts, a) <= ContractAt(starts, b)
  <1> DEFINE first == ContractAt(starts, a)
             c == ContractAt(starts, b)
  <1>1. /\ first \in 1..Len(starts) /\ starts[first] <= a
    BY EraOfBlock
  <1>2. starts[1] \in Nat /\ \A i \in 1..Len(starts) : starts[i] \in Nat
    BY DEF Deployments
  <1>3. c \in 1..Len(starts) /\ \A j \in 1..Len(starts) : j > c => starts[j] > b
    BY <1>2, EraOfBlock
  <1> HIDE DEF first, c
  <1>4. ~(first > c)
    BY <1>1, <1>2, <1>3
  <1>5. first <= c
    BY <1>1, <1>3, <1>4
  <1> QED
    BY <1>5 DEF first, c

\* Two starts that follow each other are apart.
LEMMA StartsGrow ==
    ASSUME NEW starts \in Deployments, NEW i \in 1..Len(starts), NEW j \in 1..Len(starts)
    PROVE  /\ starts[i] \in Nat /\ starts[j] \in Nat
           /\ i < j => starts[i] < starts[j]
           /\ i <= j => starts[i] <= starts[j]
  <1>1. starts[i] \in Nat /\ starts[j] \in Nat /\ (i < j => starts[i] < starts[j])
    BY DEF Deployments
  <1>2. i <= j => i < j \/ i = j
    OBVIOUS
  <1> QED
    BY <1>1, <1>2

\* An interval lies in the range and in the era of the contract it is for.
LEMMA IntervalInEra ==
    ASSUME NEW starts \in Deployments, NEW from \in Nat, NEW to \in Nat,
           CanSplit(starts, from), from <= to,
           NEW i \in SplitBlockRanges(starts, from, to), NEW b \in Blocks(i)
    PROVE  b \in from..to /\ ContractAt(starts, b) = i.contract
  <1> DEFINE n == Len(starts)
             first == ContractAt(starts, from)
  <1>1. /\ n \in Nat /\ n > 0 /\ \A k \in 1..n : starts[k] \in Nat
    BY DEF Deployments
  <1>2. /\ first \in 1..n /\ starts[first] <= from
        /\ \A k \in 1..n : k > first => starts[k] > from
    BY EraOfBlock DEF CanSplit
  <1>3. PICK k \in 1..n :
            /\ i.contract = k
            /\ i.to = LastBlockOf(starts, k, to)
            /\ from <= i.from /\ starts[k] <= i.from /\ i.from \in Nat
    <2>1. \/ i = [from |-> from, to |-> LastBlockOf(starts, first, to), contract |-> first]
          \/ \E k \in LaterContracts(starts, first, to) :
                i = [from |-> starts[k], to |-> LastBlockOf(starts, k, to), contract |-> k]
      BY DEF SplitBlockRanges
    <2>2. CASE i = [from |-> from, to |-> LastBlockOf(starts, first, to), contract |-> first]
      <3> HIDE DEF first
      <3> QED
        BY <1>2, <2>2
    <2>3. ASSUME NEW k \in LaterContracts(starts, first, to),
                 i = [from |-> starts[k], to |-> LastBlockOf(starts, k, to), contract |-> k]
          PROVE  \E m \in 1..n :
                    /\ i.contract = m
                    /\ i.to = LastBlockOf(starts, m, to)
                    /\ from <= i.from /\ starts[m] <= i.from /\ i.from \in Nat
      <3>1. k \in 1..n /\ k > first
        BY DEF LaterContracts
      <3> HIDE DEF first
      <3> QED
        BY <1>1, <1>2, <2>3, <3>1
    <2> QED
      BY <2>1, <2>2, <2>3
  <1>4. /\ i.to \in Int /\ i.to <= to
        /\ k < n => i.to < starts[k + 1]
    <2>1. CASE k = n
      BY <1>3, <2>1 DEF LastBlockOf
    <2>2. CASE k < n
      <3>1. starts[k + 1] \in Nat
        BY <1>1, <2>2
      <3> QED
        BY <1>3, <2>2, <3>1 DEF LastBlockOf, Lesser
    <2> QED
      BY <2>1, <2>2
  <1>5. b \in Nat /\ i.from <= b /\ b <= i.to
    BY <1>3, <1>4 DEF Blocks
  <1>6. \A m \in 1..n : m > k => starts[m] > b
    <2> SUFFICES ASSUME NEW m \in 1..n, m > k PROVE starts[m] > b
      OBVIOUS
    <2>1. k < n /\ k + 1 \in 1..n /\ k + 1 <= m
      OBVIOUS
    <2>2. /\ starts[k + 1] \in Nat /\ starts[m] \in Nat /\ starts[k + 1] <= starts[m]
      BY <2>1, StartsGrow
    <2> QED
      BY <1>4, <1>5, <2>1, <2>2
  <1>7. starts[k] <= b
    BY <1>1, <1>3, <1>5
  <1>8. ContractAt(starts, b) = k
    <2> DEFINE c == ContractAt(starts, b)
    <2>1. starts[1] <= b
      BY <1>1, <1>3, <1>5 DEF CanSplit
    <2>2. c \in 1..n /\ starts[c] <= b /\ \A m \in 1..n : m > c => starts[m] > b
      BY <1>5, <2>1, EraOfBlock
    <2> HIDE DEF c
    <2>3. ~(k > c) /\ ~(c > k)
      BY <1>1, <1>5, <1>6, <1>7, <2>2
    <2>4. c = k
      BY <2>2, <2>3
    <2> QED
      BY <2>4 DEF c
  <1> QED
    BY <1>3, <1>4, <1>5, <1>8

\* The blocks of a range that no interval has: those of the last contract, when the walk is
\* at its end with the first interval.
Unread(starts, from, to) ==
    IF Len(starts) > 1 /\ ContractAt(starts, from) = Len(starts) - 1
    THEN {b \in from..to : b >= starts[Len(starts)]} ELSE {}

\* A block is in the interval of its contract, unless it is one of those.
LEMMA BlockInInterval ==
    ASSUME NEW starts \in Deployments, NEW from \in Nat, NEW to \in Nat,
           CanSplit(starts, from), NEW b \in from..to, b \notin Unread(starts, from, to)
    PROVE  \E i \in SplitBlockRanges(starts, from, to) :
              b \in Blocks(i) /\ ContractAt(starts, b) = i.contract
  <1> DEFINE n == Len(starts)
             first == ContractAt(starts, from)
             c == ContractAt(starts, b)
  <1>1. /\ n \in Nat /\ n > 0 /\ \A k \in 1..n : starts[k] \in Nat
        /\ b \in Nat /\ from <= b /\ b <= to /\ starts[1] <= from /\ starts[1] <= b
    BY DEF Deployments, CanSplit
  <1>2. first \in 1..n
    BY <1>1, EraOfBlock
  <1>3. c \in 1..n /\ starts[c] <= b /\ \A m \in 1..n : m > c => starts[m] > b
    BY <1>1, EraOfBlock
  <1>4. first <= c
    BY <1>1, EraGrows
  <1>5. LastBlockOf(starts, c, to) \in Int /\ b <= LastBlockOf(starts, c, to)
    <2> HIDE DEF c, first
    <2>1. CASE c = n
      BY <1>1, <2>1 DEF LastBlockOf
    <2>2. CASE c < n
      <3>1. starts[c + 1] \in Nat /\ starts[c + 1] > b
        BY <1>1, <1>3, <2>2
      <3> QED
        BY <1>1, <2>2, <3>1 DEF LastBlockOf, Lesser
    <2> QED
      BY <1>3, <2>1, <2>2
  <1>6. CASE c = first
    <2> DEFINE i == [from |-> from, to |-> LastBlockOf(starts, first, to), contract |-> first]
    <2>1. i \in SplitBlockRanges(starts, from, to)
      BY DEF SplitBlockRanges
    <2>2. b \in Blocks(i) /\ c = i.contract
      <3> HIDE DEF c, first
      <3> QED
        BY <1>1, <1>5, <1>6 DEF Blocks
    <2> QED
      BY <2>1, <2>2
  <1>7. CASE c > first
    <2> DEFINE i == [from |-> starts[c], to |-> LastBlockOf(starts, c, to), contract |-> c]
    <2>1. c = n => first < n - 1
      <3> SUFFICES ASSUME c = n, ~(first < n - 1) PROVE FALSE
        OBVIOUS
      <3>1. n > 1 /\ first = n - 1
        <4> HIDE DEF c, first
        <4> QED
          BY <1>1, <1>2, <1>7
      <3>2. starts[n] <= b
        <4> HIDE DEF c, first
        <4> QED
          BY <1>3
      <3> QED
        BY <1>1, <3>1, <3>2 DEF Unread
    <2>2. starts[c] <= to
      <3> HIDE DEF c, first
      <3> QED
        BY <1>1, <1>3
    <2>3. c \in LaterContracts(starts, first, to)
      <3> HIDE DEF c, first
      <3> QED
        BY <1>3, <1>7, <2>1, <2>2 DEF LaterContracts
    <2>4. i \in SplitBlockRanges(starts, from, to)
      <3>1. SplitBlockRanges(starts, from, to) =
                {[from |-> from, to |-> LastBlockOf(starts, first, to), contract |-> first]}
                \cup {[from |-> starts[k], to |-> LastBlockOf(starts, k, to), contract |-> k] :
                          k \in LaterContracts(starts, first, to)}
        BY DEF SplitBlockRanges
      <3> HIDE DEF c, first
      <3> QED
        BY <2>3, <3>1
    <2>5. b \in Blocks(i) /\ c = i.contract
      <3> HIDE DEF c, first
      <3> QED
        BY <1>1, <1>3, <1>5 DEF Blocks
    <2> QED
      BY <2>4, <2>5
  <1> QED
    <2> HIDE DEF c, first
    <2> QED
      BY <1>2, <1>3, <1>4, <1>6, <1>7

\* No interval has a block of those.
LEMMA UnreadIsUnread ==
    ASSUME NEW starts \in Deployments, NEW from \in Nat, NEW to \in Nat,
           CanSplit(starts, from), NEW b \in Unread(starts, from, to)
    PROVE  \A i \in SplitBlockRanges(starts, from, to) : ContractAt(starts, b) # i.contract
  <1> DEFINE n == Len(starts)
             first == ContractAt(starts, from)
             c == ContractAt(starts, b)
  <1>1. /\ n \in Nat /\ n > 1 /\ first = n - 1 /\ b \in from..to /\ b >= starts[n]
        /\ \A k \in 1..n : starts[k] \in Nat
    BY DEF Unread, Deployments
  <1>2. c = n
    <2>1. b \in Nat /\ starts[1] <= b
      BY <1>1 DEF CanSplit
    <2>2. c \in 1..n /\ \A m \in 1..n : m > c => starts[m] > b
      BY <2>1, EraOfBlock
    <2> HIDE DEF c, first
    <2> QED
      BY <1>1, <2>1, <2>2
  <1> SUFFICES ASSUME NEW i \in SplitBlockRanges(starts, from, to) PROVE c # i.contract
    OBVIOUS
  <1>3. i.contract = first \/ i.contract \in LaterContracts(starts, first, to)
    BY DEF SplitBlockRanges
  <1>4. n \notin LaterContracts(starts, first, to)
    <2> HIDE DEF first, c
    <2> QED
      BY <1>1 DEF LaterContracts
  <1> HIDE DEF first, c
  <1> QED
    BY <1>1, <1>2, <1>3, <1>4

(***************************************************************************)
(* splitBlockRanges, for any contracts and any range that begins at or     *)
(* after the first: no block is in two of its intervals, and each block of *)
(* the range is queried at the contract that was live in it, except those  *)
(* of the last contract when the range begins in the era before it.        *)
(***************************************************************************)
THEOREM SplitIsExact ==
    ASSUME NEW starts \in Deployments, NEW from \in Nat, NEW to \in Nat,
           CanSplit(starts, from), from <= to
    PROVE  /\ \A i, j \in SplitBlockRanges(starts, from, to) :
                 Blocks(i) \cap Blocks(j) # {} => i = j
           /\ QueriedBlocks(starts, from, to) = (from..to) \ Unread(starts, from, to)
  <1>1. ASSUME NEW i \in SplitBlockRanges(starts, from, to),
               NEW j \in SplitBlockRanges(starts, from, to),
               Blocks(i) \cap Blocks(j) # {}
        PROVE  i = j
    <2>1. PICK b \in Blocks(i) : b \in Blocks(j)
      BY <1>1
    <2>2. i.contract = j.contract
      <3>1. ContractAt(starts, b) = i.contract
        BY IntervalInEra
      <3>2. ContractAt(starts, b) = j.contract
        BY <2>1, IntervalInEra
      <3> QED
        BY <3>1, <3>2
    <2> QED
      BY <2>2 DEF SplitBlockRanges, LaterContracts
  <1>2. QueriedBlocks(starts, from, to) \subseteq (from..to) \ Unread(starts, from, to)
    <2> SUFFICES ASSUME NEW b \in QueriedBlocks(starts, from, to)
                 PROVE  b \in from..to /\ b \notin Unread(starts, from, to)
      OBVIOUS
    <2>1. PICK i \in SplitBlockRanges(starts, from, to) :
              b \in Blocks(i) /\ b \in from..to /\ ContractAt(starts, b) = i.contract
      BY DEF QueriedBlocks
    <2> QED
      BY <2>1, UnreadIsUnread
  <1>3. (from..to) \ Unread(starts, from, to) \subseteq QueriedBlocks(starts, from, to)
    <2> SUFFICES ASSUME NEW b \in from..to, b \notin Unread(starts, from, to)
                 PROVE  b \in QueriedBlocks(starts, from, to)
      OBVIOUS
    <2>1. PICK i \in SplitBlockRanges(starts, from, to) :
              b \in Blocks(i) /\ ContractAt(starts, b) = i.contract
      BY BlockInInterval
    <2> QED
      BY <2>1 DEF QueriedBlocks
  <1> QED
    BY <1>1, <1>2, <1>3

----------------------------------------------------------------------------
(* What the jobs have read *)

\* An event is deep enough to be final.
IsDeep(heads, e) == EventBlock[e] + Distance[EventLoop[e]] <= heads[EventLoop[e]]

\* An event in a last block that a query may leave out.
MayBeLeft(j, e) == Covers(j, e) /\ EventBlock[e] \in MayLeaveOut[j.loop][j.range]

\* A job reads a published range.  From the query on, each deposit it covers is in a row, or
\* still to be inserted, or was left out or given up, and what it has in hand is deep; at its
\* end it has nothing in hand.
JobRight(heads, ranges, stored, j) ==
    /\ j.range \in ranges[j.loop]
    /\ j.at # "queued" => \A d \in Deposit :
            Covers(j, d) => d \in stored \cup j.deposits \cup j.left \cup j.refused
    /\ \A e \in j.left : MayBeLeft(j, e)
    /\ j.at = "done" => j.deposits = {} /\ j.fills = {} /\ j.speedUps = {}
    /\ \A e \in j.deposits \cup j.fills \cup j.speedUps : IsDeep(heads, e)

JobsRight == \A j \in jobs : JobRight(head, published, rows, j)

RepublishPublished == \A l \in Loop : pc[l] = "republish" => range[l] \in published[l]

RangesQueued == \A l \in Loop : \A r \in published[l] : \E j \in jobs : j.loop = l /\ j.range = r

\* What is in the database, or was published, is deep.
KnownIsDeep ==
    /\ \A d \in rows : IsDeep(head, d)
    /\ \A e \in Fill \cup SpeedUp : delivered[e] > 0 => IsDeep(head, e)

\* A job that has found an event and is past its message.
HasHeard(j, e) ==
    j.at # "queued" /\ Covers(j, e) /\ e \notin j.fills \cup j.speedUps \cup j.left
Heard(js, e) == {j \in js : HasHeard(j, e)}

AllHeard ==
    /\ delivered \in [Fill \cup SpeedUp -> Nat]
    /\ \A e \in Fill \cup SpeedUp :
          IsFiniteSet(Heard(jobs, e)) /\ Cardinality(Heard(jobs, e)) <= delivered[e]

ReadInv == JobsRight /\ RepublishPublished /\ RangesQueued /\ KnownIsDeep /\ AllHeard

\* The ranges that are read are of the chain, and begin at or after its first contract.
LEMMA RangeReadable ==
    ASSUME PublisherAssumption, IngestionAssumption, IInv, NEW l \in Loop, NEW r \in published[l]
    PROVE  /\ r \in [from : 1..MaxHead, to : 1..MaxHead]
           /\ r.from <= r.to /\ r.to + Distance[l] <= head[l]
           /\ Deployment[l] \in Deployments /\ CanSplit(Deployment[l], r.from)
  <1>1. /\ FirstBlock(StartBlock[l]) <= r.from /\ r.from <= r.to
        /\ r.to + Distance[l] <= head[l]
    BY DEF IInv, LoopInv, HandedOutInBounds, HandedOut
  <1>2. /\ r \in BlockRange /\ head[l] \in 0..MaxHead /\ MaxHead \in Nat
        /\ Distance[l] \in Nat /\ StartBlock[l] \in Nat
    BY DEF IInv, PublisherTypeOK, PublisherAssumption
  <1>3. Deployment[l] \in Deployments /\ StartBlock[l] = Deployment[l][1]
    BY DEF IngestionAssumption
  <1>4. /\ FirstBlock(StartBlock[l]) \in Nat /\ FirstBlock(StartBlock[l]) >= 1
        /\ StartBlock[l] <= FirstBlock(StartBlock[l])
    BY <1>2, FirstBlockPositive DEF FirstBlock
  <1>5. /\ r = [from |-> r.from, to |-> r.to] /\ r.from \in Nat /\ r.to \in Int
    BY <1>2 DEF BlockRange
  <1>6. r.from \in 1..MaxHead /\ r.to \in 1..MaxHead
    BY <1>1, <1>2, <1>4, <1>5
  <1>7. r \in [from : 1..MaxHead, to : 1..MaxHead]
    BY <1>5, <1>6
  <1>8. CanSplit(Deployment[l], r.from)
    BY <1>1, <1>2, <1>3, <1>4, <1>5 DEF CanSplit
  <1> QED
    BY <1>1, <1>3, <1>7, <1>8

\* A query reads its range but for what the split loses.
LEMMA QueryReads ==
    ASSUME PublisherAssumption, IngestionAssumption, IInv, NEW l \in Loop, NEW r \in published[l]
    PROVE  ReadBlocks[l][r] = Blocks(r) \ SkippedBlocks(l, r)
  <1>1. /\ r \in [from : 1..MaxHead, to : 1..MaxHead]
        /\ r.from <= r.to
        /\ Deployment[l] \in Deployments /\ CanSplit(Deployment[l], r.from)
    BY RangeReadable
  <1>2. ReadBlocks[l][r] = QueriedBlocks(Deployment[l], r.from, r.to)
    BY <1>1 DEF ReadBlocks
  <1>3. r.from \in Nat /\ r.to \in Nat
    BY <1>1, PublisherAssumption DEF PublisherAssumption
  <1>4. QueriedBlocks(Deployment[l], r.from, r.to)
            = (r.from..r.to) \ Unread(Deployment[l], r.from, r.to)
    BY <1>1, <1>3, SplitIsExact
  <1>5. Unread(Deployment[l], r.from, r.to) = SkippedBlocks(l, r)
    BY DEF Unread, SkippedBlocks, Blocks
  <1> QED
    BY <1>2, <1>4, <1>5 DEF Blocks

\* What a query finds, and what it leaves out, is what the job covers; it is deep.
FoundRight(j, new) ==
    /\ new.loop = j.loop /\ new.range = j.range /\ new.at = "running"
    /\ \A e \in Deposit : Covers(j, e) => e \in new.deposits \cup new.left
    /\ \A e \in Fill \cup SpeedUp :
            Covers(j, e) => e \in new.fills \cup new.speedUps \cup new.left
    /\ \A e \in new.deposits \cup new.fills \cup new.speedUps : IsDeep(head, e)
    /\ \A e \in new.left : MayBeLeft(j, e)

LEMMA FoundEvents ==
    ASSUME PublisherAssumption, IngestionAssumption, IInv, NEW j \in Job,
           j.range \in published[j.loop],
           NEW leftOut \in [Kind -> SUBSET MayLeaveOut[j.loop][j.range]]
    PROVE  FoundRight(j, Queried(j, leftOut))
  <1> DEFINE new == Queried(j, leftOut)
  <1> DEFINE inRange == EventsIn(Event, j.loop, ReadBlocks[j.loop][j.range])
             found == {e \in inRange : EventBlock[e] \notin leftOut[KindOf[e]]}
  <1>1. ReadBlocks[j.loop][j.range] = Blocks(j.range) \ SkippedBlocks(j.loop, j.range)
    BY QueryReads DEF Job
  <1>2. \A e : e \in inRange <=> e \in Event /\ Covers(j, e)
    BY <1>1 DEF Covers, EventsIn
  <1>3. ASSUME NEW e \in inRange PROVE IsDeep(head, e)
    <2>1. EventLoop[e] = j.loop /\ EventBlock[e] \in Blocks(j.range) /\ EventBlock[e] \in Nat
      BY <1>1 DEF EventsIn, IngestionAssumption
    <2>2. /\ j.range.from \in Nat /\ j.range.to \in Nat
          /\ j.range.to + Distance[j.loop] <= head[j.loop]
      BY RangeReadable, PublisherAssumption DEF PublisherAssumption, Job
    <2>3. Distance[j.loop] \in Nat /\ head[j.loop] \in Nat
      BY PublisherAssumption DEF PublisherAssumption, IInv, PublisherTypeOK, Job
    <2> QED
      BY <2>1, <2>2, <2>3 DEF IsDeep, Blocks
  <1>4. /\ found \subseteq inRange
        /\ \A e \in inRange \ found : EventBlock[e] \in leftOut[KindOf[e]]
    OBVIOUS
  <1>5. \A e \in Event : KindOf[e] \in Kind
    BY DEF IngestionAssumption
  <1> HIDE DEF inRange, found
  <1>6. \A e \in inRange \ found : EventBlock[e] \in MayLeaveOut[j.loop][j.range]
    BY <1>2, <1>4, <1>5
  <1>7. new = [j EXCEPT !.at = "running", !.deposits = found \cap Deposit,
                        !.fills = found \cap Fill, !.speedUps = found \cap SpeedUp,
                        !.left = inRange \ found]
    BY DEF Queried, inRange, found
  <1> HIDE DEF new
  <1>8. /\ new.loop = j.loop /\ new.range = j.range /\ new.at = "running"
        /\ new.deposits = found \cap Deposit
        /\ new.fills = found \cap Fill /\ new.speedUps = found \cap SpeedUp
        /\ new.left = inRange \ found
    BY <1>7 DEF Job
  <1>9. Deposit \subseteq Event /\ Fill \cup SpeedUp \subseteq Event
    BY DEF Event
  <1> QED
    <2>1. FoundRight(j, new)
      BY <1>2, <1>3, <1>4, <1>6, <1>8, <1>9 DEF MayBeLeft, FoundRight
    <2> QED
      BY <2>1 DEF new

\* Heads only grow, and what was deep stays deep.
LEMMA DeepStays ==
    ASSUME IngestionAssumption, PublisherAssumption, NEW e \in Event,
           PublisherTypeOK, PublisherTypeOK', \A l \in Loop : head'[l] >= head[l],
           IsDeep(head, e)
    PROVE  IsDeep(head', e)
  <1>1. /\ EventLoop[e] \in Loop /\ EventBlock[e] \in Nat
        /\ Distance[EventLoop[e]] \in Nat
    BY DEF IngestionAssumption, PublisherAssumption
  <1>2. head[EventLoop[e]] \in Nat /\ head'[EventLoop[e]] \in Nat
    BY <1>1 DEF PublisherTypeOK, PublisherAssumption
  <1> QED
    BY <1>1, <1>2 DEF IsDeep

\* A job that is as it was, or in which only the rest moved on, is right as it was.
LEMMA JobStaysRight ==
    ASSUME IngestionAssumption, PublisherAssumption, PublisherTypeOK, PublisherTypeOK',
           \A l \in Loop : head'[l] >= head[l],
           \A l \in Loop : published[l] \subseteq published'[l],
           rows \subseteq rows', NEW j \in Job, JobRight(head, published, rows, j)
    PROVE  JobRight(head', published', rows', j)
  <1>1. j.loop \in Loop /\ j.deposits \cup j.fills \cup j.speedUps \subseteq Event
    BY DEF Job, Event
  <1>2. j.range \in published'[j.loop]
    BY <1>1 DEF JobRight
  <1>3. \A e \in j.deposits \cup j.fills \cup j.speedUps : IsDeep(head', e)
    BY <1>1, DeepStays DEF JobRight
  <1>4. j.at # "queued" => \A d \in Deposit :
            Covers(j, d) => d \in rows' \cup j.deposits \cup j.left \cup j.refused
    BY DEF JobRight
  <1>5. /\ j.at = "done" => j.deposits = {} /\ j.fills = {} /\ j.speedUps = {}
        /\ \A e \in j.left : MayBeLeft(j, e)
    BY DEF JobRight
  <1> QED
    BY <1>2, <1>3, <1>4, <1>5 DEF JobRight

LEMMA OneMore ==
    ASSUME NEW S, IsFiniteSet(S), NEW x
    PROVE  /\ IsFiniteSet(S \cup {x}) /\ Cardinality(S) \in Nat
           /\ Cardinality(S \cup {x}) \in Nat
           /\ Cardinality(S \cup {x}) <= Cardinality(S) + 1
  <1>1. Cardinality(S) \in Nat
    BY FS_CardinalityType
  <1> QED
    BY <1>1, FS_AddElement

LEMMA OneLess ==
    ASSUME NEW S, IsFiniteSet(S), NEW x \in S
    PROVE  /\ IsFiniteSet(S \ {x}) /\ Cardinality(S \ {x}) \in Nat
           /\ Cardinality(S \ {x}) + 1 = Cardinality(S)
  <1>1. Cardinality(S) \in Nat
    BY FS_CardinalityType
  <1>2. IsFiniteSet(S \ {x}) /\ Cardinality(S \ {x}) = Cardinality(S) - 1
    BY FS_RemoveElement
  <1>3. Cardinality(S \ {x}) \in Nat
    BY <1>2, FS_CardinalityType
  <1> QED
    BY <1>1, <1>2, <1>3

\* A job moves on: at most one of those past a message is new, and only with a message.
LEMMA HeardStep ==
    ASSUME NEW js, NEW j \in js, NEW new, NEW e, NEW n \in Nat, NEW m \in Nat, n <= m,
           IsFiniteSet(Heard(js, e)), Cardinality(Heard(js, e)) <= n,
           HasHeard(new, e) => HasHeard(j, e) \/ n < m
    PROVE  LET after == Heard((js \ {j}) \cup {new}, e)
           IN  IsFiniteSet(after) /\ Cardinality(after) <= m
  <1> DEFINE before == Heard(js, e)
             after == Heard((js \ {j}) \cup {new}, e)
  <1>1. IsFiniteSet(before) /\ Cardinality(before) \in Nat
    BY FS_CardinalityType
  <1>2. CASE ~HasHeard(new, e)
    <2>1. after \subseteq before
      BY <1>2 DEF Heard
    <2>2. IsFiniteSet(after) /\ Cardinality(after) <= Cardinality(before)
      BY <2>1, FS_Subset
    <2> QED
      BY <1>1, <2>2, FS_CardinalityType
  <1>3. CASE HasHeard(new, e) /\ HasHeard(j, e)
    <2> DEFINE rest == before \ {j}
    <2>1. after \subseteq rest \cup {new} /\ j \in before
      BY <1>3 DEF Heard
    <2>2. /\ IsFiniteSet(rest) /\ Cardinality(rest) \in Nat
          /\ Cardinality(rest) + 1 = Cardinality(before)
      BY <1>1, <2>1, OneLess
    <2>3. /\ IsFiniteSet(rest \cup {new})
          /\ Cardinality(rest \cup {new}) <= Cardinality(rest) + 1
      BY <2>2, OneMore
    <2>4. IsFiniteSet(after) /\ Cardinality(after) <= Cardinality(rest \cup {new})
      BY <2>1, <2>3, FS_Subset
    <2>5. Cardinality(after) \in Nat /\ Cardinality(rest \cup {new}) \in Nat
      BY <2>3, <2>4, FS_CardinalityType
    <2> QED
      BY <1>1, <2>2, <2>3, <2>4, <2>5
  <1>4. CASE HasHeard(new, e) /\ ~HasHeard(j, e)
    <2>1. after \subseteq before \cup {new}
      BY DEF Heard
    <2>2. /\ IsFiniteSet(before \cup {new})
          /\ Cardinality(before \cup {new}) <= Cardinality(before) + 1
      BY <1>1, OneMore
    <2>3. IsFiniteSet(after) /\ Cardinality(after) <= Cardinality(before \cup {new})
      BY <2>1, <2>2, FS_Subset
    <2>4. Cardinality(after) \in Nat /\ Cardinality(before \cup {new}) \in Nat
      BY <2>2, <2>3, FS_CardinalityType
    <2>5. n + 1 <= m
      BY <1>4
    <2> QED
      BY <1>1, <2>2, <2>3, <2>4, <2>5
  <1> QED
    BY <1>2, <1>3, <1>4

\* The invariant after a step, written out.
LEMMA ReadInvNext ==
    ASSUME \A j \in jobs' : JobRight(head', published', rows', j),
           \A l \in Loop : pc'[l] = "republish" => range'[l] \in published'[l],
           \A l \in Loop : \A r \in published'[l] : \E j \in jobs' : j.loop = l /\ j.range = r,
           \A d \in rows' : IsDeep(head', d),
           \A e \in Fill \cup SpeedUp : delivered'[e] > 0 => IsDeep(head', e),
           delivered' \in [Fill \cup SpeedUp -> Nat],
           \A e \in Fill \cup SpeedUp :
              IsFiniteSet(Heard(jobs', e)) /\ Cardinality(Heard(jobs', e)) <= delivered'[e]
    PROVE  ReadInv'
  <1>1. JobsRight'
    BY DEF JobsRight, JobRight, IsDeep
  <1>2. RepublishPublished' /\ RangesQueued'
    BY DEF RepublishPublished, RangesQueued
  <1>3. KnownIsDeep'
    BY DEF KnownIsDeep, IsDeep
  <1>4. AllHeard'
    BY DEF AllHeard, Heard, HasHeard
  <1> QED
    BY <1>1, <1>2, <1>3, <1>4 DEF ReadInv

\* The parts of the system that a job leaves alone.
LoopsStay == UNCHANGED <<head, pc, range, published>>

\* A job moves on, by a step that is right for it and counts each message it gets past.
LEMMA JobMoves ==
    ASSUME IngestionAssumption, PublisherAssumption, PublisherTypeOK, PublisherTypeOK',
           jobs \subseteq Job, ReadInv, LoopsStay, NEW j \in jobs, NEW new, Update(j, new),
           new.loop = j.loop, new.range = j.range, JobRight(head, published, rows', new),
           rows \subseteq rows', \A d \in rows' : IsDeep(head, d),
           delivered' \in [Fill \cup SpeedUp -> Nat],
           \A e \in Fill \cup SpeedUp :
              /\ delivered[e] <= delivered'[e]
              /\ delivered'[e] > 0 => IsDeep(head, e)
              /\ HasHeard(new, e) => HasHeard(j, e) \/ delivered[e] < delivered'[e]
    PROVE  ReadInv'
  <1>1. head' = head /\ pc' = pc /\ range' = range /\ published' = published
    BY DEF LoopsStay
  <1>2. jobs' = (jobs \ {j}) \cup {new}
    BY DEF Update
  <1>3. \A l \in Loop : head[l] \in Nat /\ head'[l] >= head[l]
    BY <1>1 DEF PublisherTypeOK, PublisherAssumption
  <1>4. ASSUME NEW k \in jobs' PROVE JobRight(head', published', rows', k)
    <2>1. CASE k = new
      BY <1>1, <2>1
    <2>2. CASE k \in jobs
      <3>1. k \in Job /\ JobRight(head, published, rows, k)
        BY <2>2 DEF ReadInv, JobsRight
      <3>2. \A l \in Loop : published[l] \subseteq published'[l]
        BY <1>1
      <3> QED
        BY <1>3, <3>1, <3>2, JobStaysRight
    <2> QED
      BY <1>2, <2>1, <2>2
  <1>5. ASSUME NEW l \in Loop, NEW r \in published'[l]
        PROVE  \E k \in jobs' : k.loop = l /\ k.range = r
    <2>1. PICK k \in jobs : k.loop = l /\ k.range = r
      BY <1>1 DEF ReadInv, RangesQueued
    <2> QED
      BY <1>2, <2>1
  <1>6. ASSUME NEW e \in Fill \cup SpeedUp
        PROVE  IsFiniteSet(Heard(jobs', e)) /\ Cardinality(Heard(jobs', e)) <= delivered'[e]
    <2>1. delivered[e] \in Nat /\ delivered'[e] \in Nat /\ delivered[e] <= delivered'[e]
      BY DEF ReadInv, AllHeard
    <2>2. IsFiniteSet(Heard(jobs, e)) /\ Cardinality(Heard(jobs, e)) <= delivered[e]
      BY DEF ReadInv, AllHeard
    <2>3. HasHeard(new, e) => HasHeard(j, e) \/ delivered[e] < delivered'[e]
      OBVIOUS
    <2>4. LET after == Heard((jobs \ {j}) \cup {new}, e)
          IN  IsFiniteSet(after) /\ Cardinality(after) <= delivered'[e]
      BY <2>1, <2>2, <2>3, HeardStep
    <2> QED
      BY <1>2, <2>4
  <1>7. \A l \in Loop : pc'[l] = "republish" => range'[l] \in published'[l]
    BY <1>1 DEF ReadInv, RepublishPublished
  <1>8. /\ \A d \in rows' : IsDeep(head', d)
        /\ \A e \in Fill \cup SpeedUp : delivered'[e] > 0 => IsDeep(head', e)
    BY <1>1
  <1> QED
    BY <1>4, <1>5, <1>6, <1>7, <1>8, ReadInvNext

\* A job moves on without a row or a message.
LEMMA JobMovesQuietly ==
    ASSUME IngestionAssumption, PublisherAssumption, PublisherTypeOK, PublisherTypeOK',
           jobs \subseteq Job, ReadInv, LoopsStay, rows' = rows, delivered' = delivered,
           NEW j \in jobs, NEW new, Update(j, new),
           new.loop = j.loop, new.range = j.range, JobRight(head, published, rows, new),
           \A e \in Fill \cup SpeedUp : HasHeard(new, e) => HasHeard(j, e)
    PROVE  ReadInv'
  <1>1. JobRight(head, published, rows', new) /\ rows \subseteq rows'
    OBVIOUS
  <1>2. \A d \in rows' : IsDeep(head, d)
    BY DEF ReadInv, KnownIsDeep
  <1>3. delivered' \in [Fill \cup SpeedUp -> Nat]
    BY DEF ReadInv, AllHeard
  <1>4. \A e \in Fill \cup SpeedUp :
              /\ delivered[e] <= delivered'[e]
              /\ delivered'[e] > 0 => IsDeep(head, e)
              /\ HasHeard(new, e) => HasHeard(j, e) \/ delivered[e] < delivered'[e]
    BY <1>3 DEF ReadInv, KnownIsDeep
  <1> QED
    BY <1>1, <1>2, <1>3, <1>4, JobMoves

LEMMA QueryReadInv ==
    ASSUME IngestionAssumption, PublisherAssumption, IInv, PublisherTypeOK', jobs \subseteq Job,
           ReadInv, NEW j \in jobs, Query(j)
    PROVE  ReadInv'
  <1>1. j \in Job /\ j.range \in published[j.loop]
    BY DEF ReadInv, JobsRight, JobRight
  <1>2. PICK leftOut \in [Kind -> SUBSET MayLeaveOut[j.loop][j.range]] :
            Update(j, Queried(j, leftOut))
    BY <1>1, QueriedIs
  <1> DEFINE new == Queried(j, leftOut)
  <1>3. Update(j, new) /\ LoopsStay /\ rows' = rows /\ delivered' = delivered
    BY <1>2 DEF Query, LoopsStay, publisherVars
  <1> HIDE DEF new
  <1>4. new = Queried(j, leftOut)
    BY DEF new
  <1>5. /\ new.loop = j.loop /\ new.range = j.range /\ new.at = "running"
        /\ \A e \in Deposit : Covers(j, e) => e \in new.deposits \cup new.left
        /\ \A e \in Fill \cup SpeedUp :
             Covers(j, e) => e \in new.fills \cup new.speedUps \cup new.left
        /\ \A e \in new.deposits \cup new.fills \cup new.speedUps : IsDeep(head, e)
        /\ \A e \in new.left : MayBeLeft(j, e)
    <2>1. FoundRight(j, Queried(j, leftOut))
      BY <1>1, <1>2, FoundEvents, Zenon
    <2> QED
      BY <1>4, <2>1 DEF FoundRight
  <1>6. \A e : Covers(new, e) <=> Covers(j, e)
    BY <1>5 DEF Covers
  <1>7. \A e \in new.left : MayBeLeft(new, e)
    BY <1>5, <1>6 DEF MayBeLeft
  <1>8. JobRight(head, published, rows, new)
    BY <1>1, <1>5, <1>6, <1>7 DEF JobRight
  <1>9. \A e \in Fill \cup SpeedUp : ~HasHeard(new, e)
    BY <1>5, <1>6 DEF HasHeard
  <1>10. PublisherTypeOK
    BY DEF IInv
  <1> QED
    BY <1>3, <1>5, <1>8, <1>9, <1>10, JobMovesQuietly

\* The token of a deposit: the deposit is sought, then has its token or is given up.
LEMMA TokenReadInv ==
    ASSUME IngestionAssumption, PublisherAssumption, IInv, PublisherTypeOK', jobs \subseteq Job,
           ReadInv, NEW j \in jobs, (\E d \in Deposit : SeekToken(j, d)) \/ SaveToken(j)
    PROVE  ReadInv'
  <1>1. j \in Job /\ JobRight(head, published, rows, j)
    BY DEF ReadInv, JobsRight
  <1>2. /\ LoopsStay /\ rows' = rows /\ delivered' = delivered /\ j.at = "running"
        /\ PublisherTypeOK
    BY DEF SeekToken, Turn, SaveToken, LoopsStay, publisherVars, IInv
  <1>3. ASSUME NEW new, Update(j, new),
               new.loop = j.loop, new.range = j.range, new.at = "running",
               new.fills = j.fills, new.speedUps = j.speedUps, new.left = j.left,
               \/ new.deposits = j.deposits /\ new.refused = j.refused
               \/ /\ new.deposits = j.deposits \ {j.seeking}
                  /\ new.refused = j.refused \cup {j.seeking}
        PROVE  ReadInv'
    <2>1. \A e : Covers(new, e) <=> Covers(j, e)
      BY <1>3 DEF Covers
    <2>2. \A e \in new.left : MayBeLeft(new, e)
      BY <1>1, <1>3, <2>1 DEF JobRight, MayBeLeft
    <2>3. \A d \in Deposit :
              Covers(new, d) => d \in rows \cup new.deposits \cup new.left \cup new.refused
      BY <1>1, <1>2, <1>3, <2>1 DEF JobRight
    <2>4. JobRight(head, published, rows, new)
      BY <1>1, <1>3, <2>2, <2>3 DEF JobRight
    <2>5. \A e \in Fill \cup SpeedUp : HasHeard(new, e) => HasHeard(j, e)
      BY <1>2, <1>3, <2>1 DEF HasHeard
    <2> QED
      BY <1>2, <1>3, <2>4, <2>5, JobMovesQuietly
  <1>4. ASSUME NEW d \in Deposit, SeekToken(j, d) PROVE ReadInv'
    <2> DEFINE new == [j EXCEPT !.seeking = d]
    <2>1. Update(j, new)
      BY <1>4 DEF SeekToken
    <2>2. /\ new.loop = j.loop /\ new.range = j.range /\ new.at = "running"
          /\ new.fills = j.fills /\ new.speedUps = j.speedUps /\ new.left = j.left
          /\ new.deposits = j.deposits /\ new.refused = j.refused
      BY <1>1, <1>2 DEF Job
    <2> HIDE DEF new
    <2> QED
      BY <1>3, <2>1, <2>2
  <1>5. CASE SaveToken(j)
    <2> DEFINE refusal == [j EXCEPT !.seeking = NoDeposit, !.deposits = @ \ {j.seeking},
                                    !.refused = @ \cup {j.seeking}]
               saved == [j EXCEPT !.seeking = NoDeposit]
    <2>1. Update(j, refusal) \/ Update(j, saved)
      BY <1>5 DEF SaveToken
    <2>2. /\ refusal.loop = j.loop /\ refusal.range = j.range /\ refusal.at = "running"
          /\ refusal.fills = j.fills /\ refusal.speedUps = j.speedUps
          /\ refusal.left = j.left /\ refusal.deposits = j.deposits \ {j.seeking}
          /\ refusal.refused = j.refused \cup {j.seeking}
      BY <1>1, <1>2 DEF Job
    <2>3. /\ saved.loop = j.loop /\ saved.range = j.range /\ saved.at = "running"
          /\ saved.fills = j.fills /\ saved.speedUps = j.speedUps /\ saved.left = j.left
          /\ saved.deposits = j.deposits /\ saved.refused = j.refused
      BY <1>1, <1>2 DEF Job
    <2> HIDE DEF refusal, saved
    <2> QED
      BY <1>3, <2>1, <2>2, <2>3
  <1> QED
    BY <1>4, <1>5

LEMMA InsertReadInv ==
    ASSUME IngestionAssumption, PublisherAssumption, IInv, PublisherTypeOK', jobs \subseteq Job,
           ReadInv, NEW j \in jobs, NEW d \in Deposit, Insert(j, d)
    PROVE  ReadInv'
  <1> DEFINE new == [j EXCEPT !.deposits = @ \ {d},
                              !.owed = IF d \in rows THEN NoDeposit ELSE d]
  <1>1. /\ Update(j, new) /\ LoopsStay /\ rows' = rows \cup {d} /\ delivered' = delivered
        /\ j.at = "running" /\ d \in j.deposits
    BY DEF Insert, Turn, LoopsStay, publisherVars
  <1>2. j \in Job /\ JobRight(head, published, rows, j)
    BY DEF ReadInv, JobsRight
  <1>3. /\ new.loop = j.loop /\ new.range = j.range /\ new.at = "running"
        /\ new.deposits = j.deposits \ {d} /\ new.fills = j.fills /\ new.speedUps = j.speedUps
        /\ new.left = j.left /\ new.refused = j.refused
    BY <1>1, <1>2 DEF Job
  <1> HIDE DEF new
  <1>4. /\ \A e : Covers(new, e) <=> Covers(j, e)
        /\ \A e : MayBeLeft(new, e) <=> MayBeLeft(j, e)
    BY <1>3 DEF Covers, MayBeLeft
  <1>5. JobRight(head, published, rows', new)
    BY <1>1, <1>2, <1>3, <1>4 DEF JobRight
  <1>6. \A e \in rows' : IsDeep(head, e)
    BY <1>1, <1>2 DEF ReadInv, KnownIsDeep, JobRight
  <1>7. \A e \in Fill \cup SpeedUp : HasHeard(new, e) => HasHeard(j, e)
    BY <1>1, <1>3, <1>4 DEF HasHeard
  <1>8. delivered' \in [Fill \cup SpeedUp -> Nat]
    BY <1>1 DEF ReadInv, AllHeard
  <1>9. \A e \in Fill \cup SpeedUp :
              /\ delivered[e] <= delivered'[e]
              /\ delivered'[e] > 0 => IsDeep(head, e)
              /\ HasHeard(new, e) => HasHeard(j, e) \/ delivered[e] < delivered'[e]
    BY <1>1, <1>7, <1>8 DEF ReadInv, KnownIsDeep
  <1>10. PublisherTypeOK /\ rows \subseteq rows'
    BY <1>1 DEF IInv
  <1> QED
    BY <1>1, <1>3, <1>5, <1>6, <1>8, <1>9, <1>10, JobMoves

\* The message of a row, and the end: nothing that is read changes.
LEMMA AnnounceReadInv ==
    ASSUME IngestionAssumption, PublisherAssumption, IInv, PublisherTypeOK', jobs \subseteq Job,
           ReadInv, NEW j \in jobs, Announce(j) \/ Complete(j)
    PROVE  ReadInv'
  <1>1. PICK new :
            /\ Update(j, new) /\ LoopsStay /\ rows' = rows /\ delivered' = delivered
            /\ \/ new = [j EXCEPT !.owed = NoDeposit] /\ j.at = "running"
               \/ /\ new = [j EXCEPT !.at = "done"] /\ j.at = "running"
                  /\ j.deposits = {} /\ j.fills = {} /\ j.speedUps = {}
    BY DEF Announce, Complete, LoopsStay, publisherVars
  <1>2. j \in Job /\ JobRight(head, published, rows, j)
    BY DEF ReadInv, JobsRight
  <1>3. /\ new.loop = j.loop /\ new.range = j.range /\ j.at = "running"
        /\ \/ new.at = "running"
           \/ /\ new.at = "done"
              /\ j.deposits = {} /\ j.fills = {} /\ j.speedUps = {}
        /\ new.deposits = j.deposits /\ new.fills = j.fills /\ new.speedUps = j.speedUps
        /\ new.left = j.left /\ new.refused = j.refused
    BY <1>1, <1>2 DEF Job
  <1>4. /\ \A e : Covers(new, e) <=> Covers(j, e)
        /\ \A e : MayBeLeft(new, e) <=> MayBeLeft(j, e)
    BY <1>3 DEF Covers, MayBeLeft
  <1>5. JobRight(head, published, rows, new)
    BY <1>2, <1>3, <1>4 DEF JobRight
  <1>6. \A e \in Fill \cup SpeedUp : HasHeard(new, e) => HasHeard(j, e)
    BY <1>3, <1>4 DEF HasHeard
  <1>7. PublisherTypeOK
    BY DEF IInv
  <1> QED
    BY <1>1, <1>3, <1>5, <1>6, <1>7, JobMovesQuietly

\* The message of a fill or a speed-up is one more for the job to be past.
LEMMA PublishReadInv ==
    ASSUME IngestionAssumption, PublisherAssumption, IInv, PublisherTypeOK', jobs \subseteq Job,
           ReadInv, NEW j \in jobs, NEW f \in Fill \cup SpeedUp,
           \/ f \in Fill /\ PublishFill(j, f)
           \/ f \in SpeedUp /\ PublishSpeedUp(j, f)
    PROVE  ReadInv'
  <1>1. PICK new :
            /\ Update(j, new) /\ LoopsStay /\ rows' = rows
            /\ delivered' = [delivered EXCEPT ![f] = @ + 1]
            /\ j.at = "running" /\ f \in j.fills \cup j.speedUps
            /\ \/ new = [j EXCEPT !.fills = @ \ {f}]
               \/ new = [j EXCEPT !.speedUps = @ \ {f}]
    BY DEF PublishFill, PublishSpeedUp, LoopsStay, publisherVars
  <1>2. j \in Job /\ JobRight(head, published, rows, j)
    BY DEF ReadInv, JobsRight
  <1>3. /\ new.loop = j.loop /\ new.range = j.range /\ new.at = "running"
        /\ new.deposits = j.deposits /\ new.left = j.left /\ new.refused = j.refused
        /\ \/ new.fills = j.fills \ {f} /\ new.speedUps = j.speedUps
           \/ new.fills = j.fills /\ new.speedUps = j.speedUps \ {f}
    BY <1>1, <1>2 DEF Job
  <1>4. /\ \A e : Covers(new, e) <=> Covers(j, e)
        /\ \A e : MayBeLeft(new, e) <=> MayBeLeft(j, e)
    BY <1>3 DEF Covers, MayBeLeft
  <1>5. JobRight(head, published, rows, new)
    <2>1. new.deposits \cup new.fills \cup new.speedUps
              \subseteq j.deposits \cup j.fills \cup j.speedUps
      BY <1>3
    <2>2. \A e \in new.deposits \cup new.fills \cup new.speedUps : IsDeep(head, e)
      BY <1>2, <2>1 DEF JobRight
    <2>3. \A d \in Deposit :
              Covers(new, d) => d \in rows \cup new.deposits \cup new.left \cup new.refused
      BY <1>1, <1>2, <1>3, <1>4 DEF JobRight
    <2>4. \A e \in new.left : MayBeLeft(new, e)
      BY <1>2, <1>3, <1>4 DEF JobRight
    <2> QED
      BY <1>2, <1>3, <2>2, <2>3, <2>4 DEF JobRight
  <1>6. JobRight(head, published, rows', new) /\ rows \subseteq rows'
    BY <1>1, <1>5
  <1>7. \A d \in rows' : IsDeep(head, d)
    BY <1>1 DEF ReadInv, KnownIsDeep
  <1>8. delivered \in [Fill \cup SpeedUp -> Nat]
    BY DEF ReadInv, AllHeard
  <1>9. /\ delivered' \in [Fill \cup SpeedUp -> Nat] /\ delivered'[f] = delivered[f] + 1
        /\ \A e \in (Fill \cup SpeedUp) \ {f} : delivered'[e] = delivered[e]
    BY <1>1, <1>8
  <1>10. IsDeep(head, f)
    BY <1>1, <1>2 DEF JobRight
  <1>11. ASSUME NEW e \in Fill \cup SpeedUp
         PROVE  /\ delivered[e] <= delivered'[e]
                /\ delivered'[e] > 0 => IsDeep(head, e)
                /\ HasHeard(new, e) => HasHeard(j, e) \/ delivered[e] < delivered'[e]
    <2>1. CASE e = f
      BY <1>8, <1>9, <1>10, <2>1
    <2>2. CASE e # f
      <3>1. delivered'[e] = delivered[e] /\ delivered[e] \in Nat
        BY <1>8, <1>9, <2>2
      <3>2. HasHeard(new, e) => HasHeard(j, e)
        BY <1>1, <1>3, <1>4, <2>2 DEF HasHeard
      <3>3. delivered[e] > 0 => IsDeep(head, e)
        BY DEF ReadInv, KnownIsDeep
      <3> QED
        BY <3>1, <3>2, <3>3
    <2> QED
      BY <2>1, <2>2
  <1>12. PublisherTypeOK
    BY DEF IInv
  <1> QED
    BY <1>1, <1>3, <1>6, <1>7, <1>9, <1>11, <1>12, JobMoves

\* A job that is queued again has read nothing.
LEMMA RetryReadInv ==
    ASSUME IngestionAssumption, PublisherAssumption, IInv, PublisherTypeOK', jobs \subseteq Job,
           ReadInv, NEW j \in jobs, Retry(j)
    PROVE  ReadInv'
  <1> DEFINE new == NewJob(j.loop, j.range, j.copy)
  <1>1. Update(j, new) /\ LoopsStay /\ rows' = rows /\ delivered' = delivered
    BY DEF Retry, LoopsStay
  <1>2. j \in Job /\ JobRight(head, published, rows, j)
    BY DEF ReadInv, JobsRight
  <1>3. /\ new.loop = j.loop /\ new.range = j.range /\ new.at = "queued"
        /\ new.deposits = {} /\ new.fills = {} /\ new.speedUps = {} /\ new.left = {}
    BY DEF NewJob
  <1> HIDE DEF new
  <1>4. JobRight(head, published, rows, new)
    BY <1>2, <1>3 DEF JobRight
  <1>5. \A e \in Fill \cup SpeedUp : ~HasHeard(new, e)
    BY <1>3 DEF HasHeard
  <1>6. PublisherTypeOK
    BY DEF IInv
  <1> QED
    BY <1>1, <1>3, <1>4, <1>5, <1>6, JobMovesQuietly

\* The loops add queued jobs for ranges that are published with them.
LEMMA LoopReadInv ==
    ASSUME IngestionAssumption, PublisherAssumption, PublisherTypeOK, PublisherTypeOK',
           jobs \subseteq Job, rows \subseteq Deposit, ReadInv, NEW l \in Loop, LoopStep(l)
    PROVE  ReadInv'
  <1>1. rows' = rows /\ delivered' = delivered
    BY DEF LoopStep, AddJob, AddDelayedJob, queueVars
  <1>2. ASSUME NEW m \in Loop PROVE head'[m] >= head[m]
    <2>1. head[m] \in Nat
      BY DEF PublisherTypeOK, PublisherAssumption
    <2>2. CASE head' = head
      BY <2>1, <2>2
    <2>3. CASE head' = [head EXCEPT ![l] = @ + 1]
      <3>1. head'[m] = IF m = l THEN head[m] + 1 ELSE head[m]
        BY <2>3 DEF PublisherTypeOK
      <3> QED
        BY <2>1, <3>1
    <2> QED
      BY <2>2, <2>3 DEF LoopStep, AddJob, AddDelayedJob, Publish, Republish, Mine, Determine,
                        Save, Fail
  <1>3. \/ jobs' = jobs /\ published' = published
        \/ /\ published' = [published EXCEPT ![l] = @ \cup {range[l]}]
           /\ \E copy \in {"now", "delayed"} : jobs' = jobs \cup {NewJob(l, range[l], copy)}
    <2>1. CASE AddJob(l)
      BY <2>1 DEF AddJob, Publish
    <2>2. CASE AddDelayedJob(l)
      <3>1. published' = published /\ range[l] \in published[l]
        BY <2>2 DEF AddDelayedJob, Republish, ReadInv, RepublishPublished
      <3>2. published' = [published EXCEPT ![l] = @ \cup {range[l]}]
        <4>1. published[l] \cup {range[l]} = published[l]
          BY <3>1
        <4> QED
          BY <3>1, <4>1 DEF PublisherTypeOK
      <3> QED
        BY <2>2, <3>2 DEF AddDelayedJob
    <2>3. CASE ~AddJob(l) /\ ~AddDelayedJob(l)
      BY <2>3 DEF LoopStep, Mine, Determine, Save, Fail, queueVars
    <2> QED
      BY <2>1, <2>2, <2>3
  <1>4. /\ \A m \in Loop : published[m] \subseteq published'[m]
        /\ \A m \in Loop : \A r \in published'[m] :
              r \in published[m] \/ \E k \in jobs' : k.loop = m /\ k.range = r
        /\ \A k \in jobs' : k \in jobs
              \/ \E copy \in {"now", "delayed"} :
                    k = NewJob(l, range[l], copy) /\ range[l] \in published'[l]
        /\ jobs \subseteq jobs'
    <2>1. CASE jobs' = jobs /\ published' = published
      BY <2>1
    <2>2. ASSUME published' = [published EXCEPT ![l] = @ \cup {range[l]}],
                 NEW copy \in {"now", "delayed"},
                 jobs' = jobs \cup {NewJob(l, range[l], copy)}
          PROVE  /\ \A m \in Loop : published[m] \subseteq published'[m]
                 /\ \A m \in Loop : \A r \in published'[m] :
                       r \in published[m] \/ \E k \in jobs' : k.loop = m /\ k.range = r
                 /\ \A k \in jobs' : k \in jobs
                       \/ \E c \in {"now", "delayed"} :
                             k = NewJob(l, range[l], c) /\ range[l] \in published'[l]
                 /\ jobs \subseteq jobs'
      <3> DEFINE added == NewJob(l, range[l], copy)
      <3>1. added.loop = l /\ added.range = range[l]
        BY DEF NewJob
      <3> HIDE DEF added
      <3>2. DOMAIN published = Loop
        BY DEF PublisherTypeOK
      <3>3. /\ published'[l] = published[l] \cup {range[l]}
            /\ \A m \in Loop : m # l => published'[m] = published[m]
        BY <2>2, <3>2
      <3>4. \A m \in Loop : published[m] \subseteq published'[m]
        BY <3>3
      <3>5. jobs' = jobs \cup {added}
        BY <2>2 DEF added
      <3>6. ASSUME NEW m \in Loop, NEW r \in published'[m]
            PROVE  r \in published[m] \/ \E k \in jobs' : k.loop = m /\ k.range = r
        <4>1. CASE m # l
          BY <3>3, <3>6, <4>1
        <4>2. CASE m = l
          <5>1. r \in published[m] \/ r = range[l]
            BY <3>3, <3>6, <4>2
          <5>2. added \in jobs' /\ added.loop = m /\ added.range = range[l]
            BY <3>1, <3>5, <4>2
          <5> QED
            BY <5>1, <5>2
        <4> QED
          BY <4>1, <4>2
      <3>7. ASSUME NEW k \in jobs', k \notin jobs
            PROVE  \E c \in {"now", "delayed"} :
                      k = NewJob(l, range[l], c) /\ range[l] \in published'[l]
        BY <3>3, <3>5, <3>7 DEF added
      <3> QED
        BY <3>4, <3>5, <3>6, <3>7
    <2> QED
      BY <1>3, <2>1, <2>2
  <1>5. ASSUME NEW k \in jobs' PROVE JobRight(head', published', rows', k)
    <2>1. CASE k \in jobs
      <3>1. k \in Job /\ JobRight(head, published, rows, k)
        BY <2>1 DEF ReadInv, JobsRight
      <3> QED
        BY <1>1, <1>2, <1>4, <3>1, JobStaysRight
    <2>2. ASSUME NEW copy \in {"now", "delayed"}, k = NewJob(l, range[l], copy),
                 range[l] \in published'[l]
          PROVE  JobRight(head', published', rows', k)
      <3>1. /\ k.loop = l /\ k.range = range[l] /\ k.at = "queued"
            /\ k.deposits = {} /\ k.fills = {} /\ k.speedUps = {} /\ k.left = {}
        BY <2>2 DEF NewJob
      <3> QED
        BY <2>2, <3>1 DEF JobRight
    <2> QED
      BY <1>4, <2>1, <2>2
  <1>6. ASSUME NEW m \in Loop, pc'[m] = "republish" PROVE range'[m] \in published'[m]
    <2>1. CASE AddJob(l)
      <3>1. /\ range' = range /\ range[l] \in published'[l]
            /\ pc'[m] = IF m # l THEN pc[m]
                        ELSE IF l \in Republishing THEN "republish" ELSE "wait"
        BY <2>1 DEF AddJob, Publish, PublisherTypeOK
      <3> QED
        BY <1>4, <1>6, <3>1 DEF ReadInv, RepublishPublished
    <2>2. CASE ~AddJob(l)
      <3>1. \/ pc' = pc /\ range' = range
            \/ /\ \E at \in {"save", "publish", "wait"} : pc' = [pc EXCEPT ![l] = at]
               /\ range' = range \/ \E next : range' = [range EXCEPT ![l] = next]
        BY <2>2 DEF LoopStep, AddDelayedJob, Republish, Mine, Determine, Save, Fail
      <3>2. DOMAIN pc = Loop /\ DOMAIN range = Loop
        BY DEF PublisherTypeOK
      <3>3. pc[m] = "republish" /\ range'[m] = range[m]
        <4>1. CASE pc' = pc /\ range' = range
          BY <1>6, <4>1
        <4>2. ASSUME NEW at \in {"save", "publish", "wait"}, pc' = [pc EXCEPT ![l] = at]
              PROVE  m # l /\ pc[m] = "republish"
          BY <1>6, <3>2, <4>2
        <4> QED
          BY <3>1, <3>2, <4>1, <4>2
      <3> QED
        BY <1>4, <3>3 DEF ReadInv, RepublishPublished
    <2> QED
      BY <2>1, <2>2
  <1>7. ASSUME NEW m \in Loop, NEW r \in published'[m]
        PROVE  \E k \in jobs' : k.loop = m /\ k.range = r
    <2>1. CASE r \in published[m]
      <3>1. PICK k \in jobs : k.loop = m /\ k.range = r
        BY <2>1 DEF ReadInv, RangesQueued
      <3> QED
        BY <1>4, <3>1
    <2> QED
      BY <1>4, <2>1
  <1>8. ASSUME NEW e \in Fill \cup SpeedUp
        PROVE  /\ IsFiniteSet(Heard(jobs', e)) /\ Cardinality(Heard(jobs', e)) <= delivered'[e]
               /\ delivered'[e] > 0 => IsDeep(head', e)
    <2>1. Heard(jobs', e) = Heard(jobs, e)
      <3>1. ASSUME NEW k \in jobs', k \notin jobs PROVE ~HasHeard(k, e)
        <4>1. k.at = "queued"
          BY <1>4, <3>1 DEF NewJob
        <4> QED
          BY <4>1 DEF HasHeard
      <3> QED
        BY <1>4, <3>1 DEF Heard
    <2>2. e \in Event
      BY DEF Event
    <2> QED
      BY <1>1, <1>2, <2>1, <2>2, DeepStays DEF ReadInv, AllHeard, KnownIsDeep
  <1>9. ASSUME NEW d \in rows' PROVE IsDeep(head', d)
    <2>1. d \in Event /\ IsDeep(head, d)
      BY <1>1 DEF ReadInv, KnownIsDeep, Event
    <2> QED
      BY <1>2, <2>1, DeepStays
  <1>10. delivered' \in [Fill \cup SpeedUp -> Nat]
    BY <1>1 DEF ReadInv, AllHeard
  <1> QED
    BY <1>5, <1>6, <1>8, <1>9, <1>10, <1>7, ReadInvNext

LEMMA ReadStep ==
    ASSUME IngestionAssumption, PublisherAssumption, IInv, IInv', QueueInv, ReadInv, [Next]_vars
    PROVE  ReadInv'
  <1>1. /\ PublisherTypeOK /\ PublisherTypeOK'
        /\ jobs \subseteq Job /\ rows \subseteq Deposit
    BY DEF IInv, QueueInv, QueueTypes
  <1>2. CASE UNCHANGED vars
    <2>1. /\ jobs' = jobs /\ rows' = rows /\ delivered' = delivered
          /\ head' = head /\ pc' = pc /\ range' = range /\ published' = published
      BY <1>2 DEF vars, publisherVars, queueVars
    <2> QED
      BY <2>1, ReadInvNext
         DEF ReadInv, JobsRight, RepublishPublished, RangesQueued, KnownIsDeep, AllHeard
  <1>3. ASSUME NEW l \in Loop, LoopStep(l) PROVE ReadInv'
    BY <1>1, <1>3, LoopReadInv
  <1>4. ASSUME NEW j \in jobs, Work(j) \/ Retry(j) PROVE ReadInv'
    <2>1. CASE Query(j)
      BY <1>1, <2>1, QueryReadInv
    <2>2. ASSUME NEW d \in Deposit, Insert(j, d) PROVE ReadInv'
      BY <1>1, <2>2, InsertReadInv
    <2>3. CASE Announce(j) \/ Complete(j)
      BY <1>1, <2>3, AnnounceReadInv
    <2>4. ASSUME NEW f \in Fill, PublishFill(j, f) PROVE ReadInv'
      BY <1>1, <2>4, PublishReadInv
    <2>5. ASSUME NEW s \in SpeedUp, PublishSpeedUp(j, s) PROVE ReadInv'
      BY <1>1, <2>5, PublishReadInv
    <2>6. CASE Retry(j)
      BY <1>1, <2>6, RetryReadInv
    <2>7. CASE (\E d \in Deposit : SeekToken(j, d)) \/ SaveToken(j)
      BY <1>1, <2>7, TokenReadInv
    <2> QED
      BY <1>4, <2>1, <2>2, <2>3, <2>4, <2>5, <2>6, <2>7 DEF Work
  <1>5. ASSUME NEW t \in Token, SaveTokenElsewhere(t) PROVE ReadInv'
    <2>1. /\ jobs' = jobs /\ rows' = rows /\ delivered' = delivered
          /\ head' = head /\ pc' = pc /\ range' = range /\ published' = published
      BY <1>5 DEF SaveTokenElsewhere, publisherVars
    <2> QED
      BY <2>1, ReadInvNext
         DEF ReadInv, JobsRight, RepublishPublished, RangesQueued, KnownIsDeep, AllHeard
  <1> QED
    BY <1>2, <1>3, <1>4, <1>5 DEF Next

LEMMA InitRead == Init => ReadInv
  <1> SUFFICES ASSUME Init PROVE ReadInv
    OBVIOUS
  <1>1. /\ jobs = {} /\ rows = {} /\ delivered = [f \in Fill \cup SpeedUp |-> 0]
        /\ \A l \in Loop : pc[l] = "wait" /\ published[l] = {}
    BY DEF Init, PublisherInit
  <1>2. JobsRight /\ RepublishPublished /\ RangesQueued /\ KnownIsDeep
    BY <1>1 DEF JobsRight, RepublishPublished, RangesQueued, KnownIsDeep
  <1>3. ASSUME NEW e \in Fill \cup SpeedUp
        PROVE  IsFiniteSet(Heard(jobs, e)) /\ Cardinality(Heard(jobs, e)) <= delivered[e]
    <2>1. Heard(jobs, e) = {} /\ delivered[e] = 0
      BY <1>1 DEF Heard
    <2> QED
      BY <2>1, FS_EmptySet
  <1> QED
    BY <1>1, <1>2, <1>3 DEF ReadInv, AllHeard

LEMMA ReadInductive == Spec => [](IInv /\ ReadInv)
  <1>1. Init => ReadInv
    BY InitRead
  <1>2. /\ IInv /\ LossInv /\ QueueInv /\ (IInv /\ LossInv /\ QueueInv)'
        /\ ReadInv /\ [Next]_vars
        => ReadInv'
    BY IngestionAssumption, PublisherAssumption, ReadStep
  <1> QED
    BY <1>1, <1>2, WayInInductive, PTL DEF Spec

----------------------------------------------------------------------------
(* The tokens whose save was refused *)

\* The deposit a job seeks the token of, when there is one.
Sought(j) == {j.seeking} \ {NoDeposit}

\* A deposit is given up for a token that has a row, and a job gives up one for a token.
TokenRight(saved, j) ==
    /\ \A d \in j.refused \cup Sought(j) : d \in Deposit /\ SwapFor[d] # NoSwap
    /\ \A d \in j.refused : TokenOf[SwapFor[d]] \in saved
    /\ \A d, e \in j.refused \cup Sought(j) :
            TokenOf[SwapFor[d]] = TokenOf[SwapFor[e]] => d = e

TokenInv == \A j \in jobs : TokenRight(tokens, j)

LEMMA TokensStay ==
    ASSUME tokens \subseteq tokens', NEW j, NEW new, TokenRight(tokens, j),
           new.refused = j.refused, new.seeking = j.seeking
    PROVE  TokenRight(tokens', new)
  BY DEF TokenRight, Sought

LEMMA NoTokens ==
    ASSUME NEW j, j.refused = {}, j.seeking = NoDeposit
    PROVE  TokenRight(tokens', j)
  BY DEF TokenRight, Sought

\* What a job does about tokens.
LEMMA TokenJob ==
    ASSUME IngestionAssumption, jobs \subseteq Job, TokenInv, NEW j \in jobs, Work(j) \/ Retry(j)
    PROVE  TokenInv'
  <1>1. j \in Job /\ TokenRight(tokens, j)
    BY DEF TokenInv
  <1>2. ASSUME NEW new, Update(j, new), TokenRight(tokens', new), tokens \subseteq tokens'
        PROVE  TokenInv'
    <2>1. jobs' = (jobs \ {j}) \cup {new}
      BY <1>2 DEF Update
    <2>2. \A k \in jobs : TokenRight(tokens', k)
      BY <1>2, TokensStay DEF TokenInv
    <2>3. \A k \in jobs' : TokenRight(tokens', k)
      BY <1>2, <2>1, <2>2
    <2> QED
      BY <2>3 DEF TokenInv, TokenRight, Sought
  <1>3. CASE Query(j)
    <2>1. PICK leftOut : Update(j, Queried(j, leftOut))
      BY <1>1, <1>3, QueriedIs
    <2>2. Queried(j, leftOut).refused = j.refused /\ Queried(j, leftOut).seeking = j.seeking
      BY <1>1 DEF Queried, Job
    <2>3. tokens' = tokens
      BY <1>3 DEF Query
    <2> QED
      BY <1>1, <1>2, <2>1, <2>2, <2>3, TokensStay
  <1>4. ASSUME NEW d \in Deposit, SeekToken(j, d) PROVE TokenInv'
    <2> DEFINE new == [j EXCEPT !.seeking = d]
    <2>1. /\ Update(j, new) /\ tokens' = tokens /\ j.seeking = NoDeposit
          /\ SwapFor[d] # NoSwap /\ TokenOf[SwapFor[d]] \notin tokens
      BY <1>4 DEF SeekToken, Turn, HasToken
    <2>2. new.refused = j.refused /\ new.seeking = d
      BY <1>1 DEF Job
    <2> HIDE DEF new
    <2>3. TokenRight(tokens', new)
      BY <1>1, <2>1, <2>2 DEF TokenRight, Sought
    <2> QED
      BY <1>2, <2>1, <2>3
  <1>5. CASE SaveToken(j)
    <2>1. PICK new : /\ Update(j, new)
                     /\ \/ /\ TokenOf[SwapFor[j.seeking]] \in tokens
                           /\ new = [j EXCEPT !.seeking = NoDeposit, !.deposits = @ \ {j.seeking},
                                              !.refused = @ \cup {j.seeking}]
                        \/ new = [j EXCEPT !.seeking = NoDeposit]
      <3>1. j.seeking # NoDeposit /\ SwapFor[j.seeking] # NoSwap
        BY <1>1, <1>5 DEF SaveToken, TokenRight, Sought
      <3> QED
        BY <1>5, <3>1 DEF SaveToken, HasToken
    <2>2. /\ tokens' = tokens \cup {TokenOf[SwapFor[j.seeking]]}
          /\ j.seeking # NoDeposit
      BY <1>5 DEF SaveToken
    <2>3. /\ new.seeking = NoDeposit
          /\ \/ /\ TokenOf[SwapFor[j.seeking]] \in tokens
                /\ new.refused = j.refused \cup {j.seeking}
             \/ new.refused = j.refused
      BY <1>1, <2>1 DEF Job
    <2>4. Sought(j) = {j.seeking} /\ Sought(new) = {}
      BY <2>2, <2>3 DEF Sought
    <2>5. TokenRight(tokens', new)
      BY <1>1, <2>2, <2>3, <2>4 DEF TokenRight
    <2> QED
      BY <1>2, <2>1, <2>2, <2>5
  <1>6. ASSUME NEW d \in Deposit, Insert(j, d) PROVE TokenInv'
    <2> DEFINE new == [j EXCEPT !.deposits = @ \ {d}, !.owed = IF d \in rows THEN NoDeposit ELSE d]
    <2>1. Update(j, new) /\ tokens' = tokens
      BY <1>6 DEF Insert
    <2>2. new.refused = j.refused /\ new.seeking = j.seeking
      BY <1>1 DEF Job
    <2> HIDE DEF new
    <2> QED
      BY <1>1, <1>2, <2>1, <2>2, TokensStay
  <1>7. ASSUME NEW new, Update(j, new), tokens' = tokens,
               new.refused = j.refused, new.seeking = j.seeking
        PROVE  TokenInv'
    BY <1>1, <1>2, <1>7, TokensStay
  <1>9. CASE Announce(j)
    <2> DEFINE new == [j EXCEPT !.owed = NoDeposit]
    <2>1. Update(j, new) /\ tokens' = tokens /\ new.refused = j.refused /\ new.seeking = j.seeking
      BY <1>1, <1>9 DEF Announce, Job
    <2> QED
      BY <1>7, <2>1
  <1>10. CASE Complete(j)
    <2> DEFINE new == [j EXCEPT !.at = "done"]
    <2>1. Update(j, new) /\ tokens' = tokens /\ new.refused = j.refused /\ new.seeking = j.seeking
      BY <1>1, <1>10 DEF Complete, Job
    <2> QED
      BY <1>7, <2>1
  <1>11. ASSUME NEW f \in Fill, PublishFill(j, f) PROVE TokenInv'
    <2> DEFINE new == [j EXCEPT !.fills = @ \ {f}]
    <2>1. Update(j, new) /\ tokens' = tokens /\ new.refused = j.refused /\ new.seeking = j.seeking
      BY <1>1, <1>11 DEF PublishFill, Job
    <2> QED
      BY <1>7, <2>1
  <1>12. ASSUME NEW s \in SpeedUp, PublishSpeedUp(j, s) PROVE TokenInv'
    <2> DEFINE new == [j EXCEPT !.speedUps = @ \ {s}]
    <2>1. Update(j, new) /\ tokens' = tokens /\ new.refused = j.refused /\ new.seeking = j.seeking
      BY <1>1, <1>12 DEF PublishSpeedUp, Job
    <2> QED
      BY <1>7, <2>1
  <1>8. CASE Retry(j)
    <2> DEFINE new == NewJob(j.loop, j.range, j.copy)
    <2>1. Update(j, new) /\ tokens' = tokens
      BY <1>8 DEF Retry
    <2>2. new.refused = {} /\ new.seeking = NoDeposit
      BY DEF NewJob
    <2> HIDE DEF new
    <2> QED
      BY <1>2, <2>1, <2>2, NoTokens
  <1> QED
    BY <1>3, <1>4, <1>5, <1>6, <1>8, <1>9, <1>10, <1>11, <1>12 DEF Work

LEMMA TokenStep ==
    ASSUME IngestionAssumption, jobs \subseteq Job, TokenInv, [Next]_vars
    PROVE  TokenInv'
  <1>1. ASSUME jobs' = jobs, tokens \subseteq tokens' PROVE TokenInv'
    <2>1. \A k \in jobs : TokenRight(tokens', k)
      BY <1>1, TokensStay DEF TokenInv
    <2> QED
      BY <1>1, <2>1 DEF TokenInv, TokenRight, Sought
  <1>2. CASE UNCHANGED vars
    BY <1>1, <1>2 DEF vars, queueVars
  <1>3. ASSUME NEW l \in Loop, LoopStep(l) PROVE TokenInv'
    <2>1. /\ tokens' = tokens
          /\ jobs' = jobs \/ \E copy : jobs' = jobs \cup {NewJob(l, range[l], copy)}
      BY <1>3 DEF LoopStep, AddJob, AddDelayedJob, queueVars
    <2>2. ASSUME NEW copy, jobs' = jobs \cup {NewJob(l, range[l], copy)} PROVE TokenInv'
      <3> DEFINE new == NewJob(l, range[l], copy)
      <3>1. new.refused = {} /\ new.seeking = NoDeposit
        BY DEF NewJob
      <3>2. jobs' = jobs \cup {new}
        BY <2>2
      <3> HIDE DEF new
      <3>3. TokenRight(tokens', new)
        BY <3>1, NoTokens
      <3>4. \A k \in jobs : TokenRight(tokens', k)
        BY <2>1, TokensStay DEF TokenInv
      <3> QED
        BY <3>2, <3>3, <3>4 DEF TokenInv, TokenRight, Sought
    <2> QED
      BY <1>1, <2>1, <2>2
  <1>4. ASSUME NEW j \in jobs, Work(j) \/ Retry(j) PROVE TokenInv'
    BY <1>4, TokenJob
  <1>5. ASSUME NEW t \in Token, SaveTokenElsewhere(t) PROVE TokenInv'
    BY <1>1, <1>5 DEF SaveTokenElsewhere
  <1> QED
    BY <1>2, <1>3, <1>4, <1>5 DEF Next

LEMMA TokenInductive == Spec => []TokenInv
  <1>1. Init => TokenInv
    BY DEF Init, TokenInv
  <1>2. QueueInv /\ TokenInv /\ [Next]_vars => TokenInv'
    BY IngestionAssumption, TokenStep DEF QueueInv, QueueTypes
  <1> QED
    BY <1>1, <1>2, WayInInductive, PTL DEF Spec

----------------------------------------------------------------------------
(* What the way in promises of a job, of an event and of a deposit *)

\* Why a query left out an event: it is in the last block of an interval, which would be a
\* sample of its own.
LeftWith(j, e) ==
    \E i \in SplitBlockRanges(Deployment[j.loop], j.range.from, j.range.to) :
        \E size \in QuerySize[j.loop] : LoneLastBlock(i, size) /\ EventBlock[e] = i.to

\* Why a job gave up a deposit: its token has a row, but had none when the job looked.
GivenUpFor(j, d) ==
    /\ SwapFor[d] # NoSwap
    /\ TokenOf[SwapFor[d]] \in tokens
    /\ \A e \in j.refused : TokenOf[SwapFor[e]] = TokenOf[SwapFor[d]] => e = d

\* A job that ends without the row of a deposit it covers.
PassedOver(j, d) ==
    \/ d \in j.left /\ LeftWith(j, d)
    \/ d \in j.refused /\ GivenUpFor(j, d)

ReadsAllButLeft ==
    \A j \in jobs :
        /\ CanSplit(Deployment[j.loop], j.range.from)
        /\ ReadBlocks[j.loop][j.range] = Blocks(j.range) \ SkippedBlocks(j.loop, j.range)
        /\ \A e \in j.left : Covers(j, e) /\ LeftWith(j, e)

DoneIsDelivered ==
    /\ \A j \in jobs : j.at = "done" =>
          \A d \in Deposit : Covers(j, d) => d \in rows \/ PassedOver(j, d)
    /\ \A e \in Fill \cup SpeedUp :
          Cardinality({j \in jobs : j.at = "done" /\ Covers(j, e) /\ e \notin j.left})
              <= delivered[e]

DepositsAccounted ==
    \A d \in Deposit :
        LET l == EventLoop[d]
            b == EventBlock[d]
        IN  b \in FirstBlock(StartBlock[l])..latestBlock[l] =>
              \/ d \in rows
              \/ \E j \in jobs : j.loop = l /\ b \in Blocks(j.range) /\ j.at # "done"
              \/ \E r \in InFlight(l) : b \in Blocks(r)
              \/ b \in MissingBlocks(l)
              \/ \E r \in published[l] : b \in SkippedBlocks(l, r)
              \/ /\ \E j \in jobs : Covers(j, d)
                 /\ \A j \in jobs : Covers(j, d) => PassedOver(j, d)

LEMMA LeftIsLone ==
    ASSUME PublisherAssumption, IngestionAssumption, IInv, ReadInv, jobs \subseteq Job,
           NEW j \in jobs, NEW e \in j.left
    PROVE  Covers(j, e) /\ LeftWith(j, e)
  <1>1. j \in Job /\ j.range \in published[j.loop] /\ MayBeLeft(j, e)
    BY DEF ReadInv, JobsRight, JobRight
  <1>2. j.range \in [from : 1..MaxHead, to : 1..MaxHead]
    BY <1>1, RangeReadable DEF Job
  <1>3. MayLeaveOut[j.loop][j.range] =
            LoneBlocks(SplitBlockRanges(Deployment[j.loop], j.range.from, j.range.to),
                       QuerySize[j.loop])
    BY <1>1, <1>2 DEF MayLeaveOut, Job
  <1>4. EventBlock[e] \in
            LoneBlocks(SplitBlockRanges(Deployment[j.loop], j.range.from, j.range.to),
                       QuerySize[j.loop])
    BY <1>1, <1>3 DEF MayBeLeft
  <1>5. LeftWith(j, e)
    BY <1>4 DEF LoneBlocks, LeftWith
  <1> QED
    BY <1>1, <1>5 DEF MayBeLeft

\* A job at its end has the rows of the deposits it covers, but for those it passed over.
LEMMA DonePassesOver ==
    ASSUME PublisherAssumption, IngestionAssumption, IInv, ReadInv, TokenInv, jobs \subseteq Job,
           NEW j \in jobs, j.at = "done", NEW d \in Deposit, Covers(j, d), d \notin rows
    PROVE  PassedOver(j, d)
  <1>1. d \in j.left \/ d \in j.refused
    BY DEF ReadInv, JobsRight, JobRight
  <1>2. CASE d \in j.left
    BY <1>2, LeftIsLone DEF PassedOver
  <1>3. CASE d \in j.refused
    <2>1. TokenRight(tokens, j)
      BY DEF TokenInv
    <2>2. GivenUpFor(j, d)
      BY <1>3, <2>1 DEF TokenRight, GivenUpFor
    <2> QED
      BY <1>3, <2>2 DEF PassedOver
  <1> QED
    BY <1>1, <1>2, <1>3

(***************************************************************************)
(* No job is one that splitBlockRanges returns undefined for, which would  *)
(* throw at every attempt; its intervals hold every block of its range but *)
(* those that the split loses; and what its queries leave out of them are  *)
(* events of the last block of an interval, that a size of the querier     *)
(* makes a sample of its own.  For any contracts, start blocks, batches    *)
(* and sizes.                                                              *)
(***************************************************************************)
THEOREM QueriesReadRanges == Spec => []ReadsAllButLeft
  <1>1. IInv /\ ReadInv /\ QueueTypes => ReadsAllButLeft
    <2> SUFFICES ASSUME IInv, ReadInv, QueueTypes, NEW j \in jobs
                 PROVE  /\ CanSplit(Deployment[j.loop], j.range.from)
                        /\ ReadBlocks[j.loop][j.range]
                                = Blocks(j.range) \ SkippedBlocks(j.loop, j.range)
                        /\ \A e \in j.left : Covers(j, e) /\ LeftWith(j, e)
      BY DEF ReadsAllButLeft
    <2>1. j.loop \in Loop /\ j.range \in published[j.loop]
      BY DEF QueueTypes, Job, ReadInv, JobsRight, JobRight
    <2>2. \A e \in j.left : Covers(j, e) /\ LeftWith(j, e)
      BY PublisherAssumption, IngestionAssumption, LeftIsLone DEF QueueTypes
    <2>3. CanSplit(Deployment[j.loop], j.range.from)
      BY <2>1, PublisherAssumption, IngestionAssumption, RangeReadable
    <2>4. ReadBlocks[j.loop][j.range] = Blocks(j.range) \ SkippedBlocks(j.loop, j.range)
      BY <2>1, PublisherAssumption, IngestionAssumption, QueryReads
    <2> QED
      BY <2>2, <2>3, <2>4
  <1>2. QueueInv => QueueTypes
    BY DEF QueueInv
  <1> QED
    BY <1>1, <1>2, ReadInductive, WayInInductive, PTL

(***************************************************************************)
(* A job that ends has stored every deposit it covers, whoever else was to *)
(* store it, but for those in a last block that its query left out and one *)
(* for each token that was saved between its look and its save; and an     *)
(* event has been published at least as often as jobs that cover it have   *)
(* ended without leaving it out: retries may repeat a message, and nothing *)
(* loses one.                                                              *)
(***************************************************************************)
THEOREM DoneJobsDelivered == Spec => []DoneIsDelivered
  <1>1. IInv /\ ReadInv /\ TokenInv /\ QueueTypes => DoneIsDelivered
    <2> SUFFICES ASSUME IInv, ReadInv, TokenInv, QueueTypes PROVE DoneIsDelivered
      OBVIOUS
    <2>1. \A j \in jobs : j.at = "done" =>
            \A d \in Deposit : Covers(j, d) => d \in rows \/ PassedOver(j, d)
      BY PublisherAssumption, IngestionAssumption, DonePassesOver DEF QueueTypes
    <2>2. ASSUME NEW e \in Fill \cup SpeedUp
          PROVE  Cardinality({j \in jobs : j.at = "done" /\ Covers(j, e) /\ e \notin j.left})
                    <= delivered[e]
      <3> DEFINE done == {j \in jobs : j.at = "done" /\ Covers(j, e) /\ e \notin j.left}
      <3>1. done \subseteq Heard(jobs, e)
        BY DEF Heard, HasHeard, ReadInv, JobsRight, JobRight
      <3>2. /\ IsFiniteSet(Heard(jobs, e)) /\ Cardinality(Heard(jobs, e)) <= delivered[e]
            /\ delivered[e] \in Nat
        BY DEF ReadInv, AllHeard
      <3>3. IsFiniteSet(done) /\ Cardinality(done) <= Cardinality(Heard(jobs, e))
        BY <3>1, <3>2, FS_Subset
      <3>4. Cardinality(done) \in Nat /\ Cardinality(Heard(jobs, e)) \in Nat
        BY <3>2, <3>3, FS_CardinalityType
      <3> HIDE DEF done
      <3>5. Cardinality(done) <= delivered[e]
        BY <3>2, <3>3, <3>4
      <3> QED
        BY <3>5 DEF done
    <2> QED
      BY <2>1, <2>2 DEF DoneIsDelivered
  <1>2. QueueInv => QueueTypes
    BY DEF QueueInv
  <1> QED
    BY <1>1, <1>2, ReadInductive, WayInInductive, TokenInductive, PTL

(***************************************************************************)
(* A deposit in a block that its loop has gone past is in the database, or *)
(* a job that is to read the block has not ended, or the range is about to *)
(* be published, or a failure of the loop lost it (LossNeedsFailure bounds *)
(* those), or the split loses the block, or every job that covers it has   *)
(* left its block out or given it up for the save of its token.  There is  *)
(* no other way to miss a deposit.                                         *)
(***************************************************************************)
THEOREM NoOtherLoss == Spec => []DepositsAccounted
  <1>1. IInv /\ ReadInv /\ TokenInv /\ QueueTypes => DepositsAccounted
    <2> SUFFICES ASSUME IInv, ReadInv, TokenInv, QueueTypes, NEW d \in Deposit,
                        EventBlock[d] \in FirstBlock(StartBlock[EventLoop[d]])
                                              ..latestBlock[EventLoop[d]],
                        d \notin rows, EventBlock[d] \notin MissingBlocks(EventLoop[d]),
                        ~\E r \in InFlight(EventLoop[d]) : EventBlock[d] \in Blocks(r),
                        ~\E r \in published[EventLoop[d]] :
                            EventBlock[d] \in SkippedBlocks(EventLoop[d], r),
                        ~\E j \in jobs : /\ j.loop = EventLoop[d]
                                         /\ EventBlock[d] \in Blocks(j.range)
                                         /\ j.at # "done"
                 PROVE  /\ \E j \in jobs : Covers(j, d)
                        /\ \A j \in jobs : Covers(j, d) => PassedOver(j, d)
      BY DEF DepositsAccounted
    <2> DEFINE l == EventLoop[d]
               b == EventBlock[d]
    <2>1. l \in Loop
      BY IngestionAssumption DEF IngestionAssumption, Event
    <2>2. PICK r \in published[l] : b \in Blocks(r)
      BY DEF MissingBlocks
    <2>3. PICK j \in jobs : j.loop = l /\ j.range = r
      BY <2>1, <2>2 DEF ReadInv, RangesQueued
    <2>4. Covers(j, d)
      BY <2>2, <2>3 DEF Covers
    <2>5. ASSUME NEW k \in jobs, Covers(k, d) PROVE PassedOver(k, d)
      <3>1. k.at = "done"
        BY <2>5 DEF Covers
      <3> QED
        BY <2>5, <3>1, PublisherAssumption, IngestionAssumption, DonePassesOver DEF QueueTypes
    <2> QED
      BY <2>4, <2>5
  <1>2. QueueInv => QueueTypes
    BY DEF QueueInv
  <1> QED
    BY <1>1, <1>2, ReadInductive, WayInInductive, TokenInductive, PTL

(***************************************************************************)
(* No deposit is stored, and no fill or speed-up published, before its     *)
(* block is Distance blocks deep: nothing in the database or in a queue    *)
(* can be reorganised away by a shallower fork.                            *)
(***************************************************************************)
THEOREM OnlyDeepIsKnown == Spec => []KnownIsDeep
  <1>1. ReadInv => KnownIsDeep
    BY DEF ReadInv
  <1> QED
    BY <1>1, ReadInductive, PTL
=============================================================================
