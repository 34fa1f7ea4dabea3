------------------------- MODULE GapDetectionProofs -------------------------
(***************************************************************************)
(* Proofs about the gap detection, for any ids, limits and failures.       *)
(*                                                                         *)
(* The checkpoint is sound because a walk that has found no gap yet has    *)
(* found every deposit before its id: those up to the old checkpoint by    *)
(* induction, and those after it on its way.                               *)
(***************************************************************************)
EXTENDS GapDetection, TLAPS

Walking == cron.pc \in {"visit", "mark"}

\* The walk and the checkpoint stay on ids of deposits.
OnIds ==
    /\ checkpoint # NoCheckpoint => checkpoint \in Id
    /\ cron.pc # "idle" => cron.last \in Id
    /\ cron.pc = "visit" => cron.id \in Id
    /\ cron.pass # NoPass => cron.pass \in Id

\* What the walk is about to save as the checkpoint is sound already.
PassSound == cron.pass # NoPass => PrecedingStored(cron.pass)

\* With as many gaps as it may have, the walk is inside the last of them.
InLastGap ==
    cron.pc = "visit" /\ Len(cron.gaps) = GapsLimit =>
        /\ NextId(cron.gaps[Len(cron.gaps)].to) = cron.id
        /\ Size(cron.gaps[Len(cron.gaps)]) < MaxGapSize

\* A gap holds an id at least, ids of deposits only, and no more than it may.
GoodGap(g) ==
    /\ g \in Gap /\ g.from <= g.to
    /\ Blocks(g) \subseteq Id
    /\ Size(g) <= MaxGapSize

GoodGaps(gaps) == gaps \in Seq(Gap) /\ \A k \in 1..Len(gaps) : GoodGap(gaps[k])

WalkHasGoodGaps == Walking => GoodGaps(cron.gaps)

FreshWalk == cron.pc = "start" => cron.gaps = <<>>

IInv ==
    /\ TypeOK /\ OnIds /\ CheckpointPassed /\ PassSound
    /\ GapsReported /\ WalkHasGoodGaps /\ InLastGap /\ FreshWalk

----------------------------------------------------------------------------
\* NextId steps from an id to the next one, unless there is none left.
LEMMA NextIdFacts ==
    ASSUME NEW i \in Id
    PROVE  /\ NextId(i) \in Nat
           /\ i < NextId(i)
           /\ \A d \in Id : d < NextId(i) => d <= i
           /\ \A last \in Id : NextId(i) <= last => NextId(i) \in Id
           /\ NextId(i) # i + 1 => i = MaxIdV2
BY GapAssumption DEF Id, NextId

LEMMA IdIsNat == Id \subseteq Nat
BY GapAssumption DEF Id

LEMMA GoodGapFacts ==
    ASSUME NEW g, GoodGap(g)
    PROVE  g.from \in Nat /\ g.to \in Nat /\ g.to \in Id /\ Size(g) \in Int /\ Size(g) <= MaxGapSize
<1>1. g.from \in Id /\ g.to \in Id
  BY DEF GoodGap, Gap
<1>2. g.from \in Nat /\ g.to \in Nat
  BY <1>1, IdIsNat
<1> QED
  BY <1>1, <1>2 DEF GoodGap, Size

\* WithMissing extends the last gap by the id after it, or begins a gap with the id.
LEMMA Extended ==
    ASSUME NEW gaps, GoodGaps(gaps), NEW id \in Id,
           Len(gaps) > 0, gaps[Len(gaps)].to = id - 1, Size(gaps[Len(gaps)]) < MaxGapSize
    PROVE  LET n == Len(gaps)  new == WithMissing(gaps, id)
           IN  /\ GoodGaps(new) /\ Len(new) = n
               /\ new[n].to = id /\ id \in Blocks(new[n])
               /\ Blocks(gaps[n]) \subseteq Blocks(new[n])
               /\ \A k \in 1..n : k # n => new[k] = gaps[k]
<1> DEFINE n == Len(gaps)  g == gaps[n]  h == [g EXCEPT !.to = id]
           new == WithMissing(gaps, id)
<1>1. gaps \in Seq(Gap) /\ n \in Nat /\ n \in 1..n /\ GoodGap(g)
  BY DEF GoodGaps
<1>2. new = [gaps EXCEPT ![n] = h]
  BY DEF WithMissing
<1>3. g.from \in Nat /\ g.to \in Nat /\ id \in Nat
  BY <1>1, IdIsNat DEF GoodGap, Gap
<1>4. h.from = g.from /\ h.to = id /\ h \in Gap
  BY <1>1 DEF GoodGap, Gap
<1>5. Blocks(h) = Blocks(g) \cup {id} /\ g.from <= id
  BY <1>1, <1>3, <1>4 DEF Blocks, GoodGap
<1>6. Size(g) \in Int /\ Size(g) < MaxGapSize /\ Size(h) = Size(g) + 1
  <2>1. Size(g) \in Int /\ Size(h) = Size(g) + 1
    BY <1>3, <1>4 DEF Size
  <2> QED
    BY <2>1
<1>7. Size(h) <= MaxGapSize
  <2> MaxGapSize \in Nat
    BY GapAssumption
  <2> HIDE DEF g, h
  <2> QED
    BY <1>6
<1>8. GoodGap(h)
  BY <1>1, <1>4, <1>5, <1>7 DEF GoodGap
<1>9. new \in Seq(Gap) /\ Len(new) = n /\ new[n] = h /\ \A k \in 1..n : k # n => new[k] = gaps[k]
  BY <1>1, <1>2, <1>4
<1>10. GoodGaps(new)
  BY <1>8, <1>9 DEF GoodGaps
<1> QED
  BY <1>4, <1>5, <1>9, <1>10

LEMMA Begun ==
    ASSUME NEW gaps, GoodGaps(gaps), NEW id \in Id,
           ~(/\ Len(gaps) > 0 /\ gaps[Len(gaps)].to = id - 1
             /\ Size(gaps[Len(gaps)]) < MaxGapSize)
    PROVE  LET n == Len(gaps)  new == WithMissing(gaps, id)
           IN  /\ GoodGaps(new) /\ Len(new) = n + 1
               /\ new[n + 1].to = id /\ id \in Blocks(new[n + 1])
               /\ Size(new[n + 1]) = 1
               /\ \A k \in 1..n : new[k] = gaps[k]
<1> DEFINE n == Len(gaps)  h == [from |-> id, to |-> id]  new == WithMissing(gaps, id)
<1>1. gaps \in Seq(Gap) /\ n \in Nat /\ id \in Nat
  BY IdIsNat DEF GoodGaps
<1>2. new = Append(gaps, h)
  BY DEF WithMissing
<1>3. h \in Gap
  BY DEF Gap
<1>4. Blocks(h) = {id} /\ Size(h) = 1
  BY <1>1 DEF Blocks, Size
<1>5. GoodGap(h)
  BY <1>1, <1>3, <1>4, GapAssumption DEF GoodGap
<1>6. new \in Seq(Gap) /\ Len(new) = n + 1 /\ new[n + 1] = h /\ \A k \in 1..n : new[k] = gaps[k]
  BY <1>1, <1>2, <1>3
<1>7. GoodGaps(new)
  BY <1>5, <1>6 DEF GoodGaps
<1> QED
  BY <1>4, <1>6, <1>7

----------------------------------------------------------------------------
\* Rows only grow, and what was stored stays stored.
LEMMA StoreKeeps ==
    ASSUME IInv, NEW d \in Id, Store(d)
    PROVE  IInv'
<1> USE DEF Store, IInv
<1>1. TypeOK'
  BY DEF TypeOK
<1>2. OnIds'
  BY DEF OnIds
<1>3. CheckpointPassed'
  BY DEF CheckpointPassed, PrecedingStored
<1>4. PassSound'
  BY DEF PassSound, PrecedingStored
<1>5. GapsReported'
  BY DEF GapsReported
<1>6. WalkHasGoodGaps' /\ InLastGap' /\ FreshWalk'
  BY DEF WalkHasGoodGaps, InLastGap, FreshWalk, Walking
<1> QED
  BY <1>1, <1>2, <1>3, <1>4, <1>5, <1>6

\* Every deposit before the id the walk starts at is stored.
LEMMA StartKeeps ==
    ASSUME IInv, Start
    PROVE  IInv'
<1> DEFINE id == GetDepositToStartGapCheck
<1> USE DEF Start, IInv
<1>1. cron \in Cron /\ cron.last \in Id /\ cron.pass \in Nat
  BY DEF TypeOK, OnIds, Cron
<1>2. id \in Nat /\ (id <= cron.last => id \in Id) /\ \A d \in Id : d < id => d \in rows
  <2>1. CASE checkpoint = NoCheckpoint
    BY <2>1, <1>1, GapAssumption, IdIsNat DEF GetDepositToStartGapCheck, Id
  <2>2. CASE checkpoint # NoCheckpoint
    <3>1. checkpoint \in Id /\ PrecedingStored(checkpoint)
      BY <2>2 DEF OnIds, CheckpointPassed
    <3> QED
      BY <2>2, <3>1, <1>1, NextIdFacts DEF GetDepositToStartGapCheck, PrecedingStored
  <2> QED
    BY <2>1, <2>2
<1>3. /\ cron' = [cron EXCEPT !.pc = At(id, cron.last), !.id = id]
      /\ At(id, cron.last) \in {"visit", "mark"}
      /\ UNCHANGED <<rows, checkpoint, owed, querySize, failures>>
  BY DEF At
<1>4. /\ cron'.pc = At(id, cron.last) /\ cron'.id = id /\ cron'.last = cron.last
      /\ cron'.pass = cron.pass /\ cron'.gaps = <<>> /\ cron' \in Cron
  BY <1>1, <1>2, <1>3 DEF Cron, FreshWalk
<1>5. TypeOK'
  BY <1>3, <1>4 DEF TypeOK
<1>6. OnIds'
  BY <1>1, <1>2, <1>3, <1>4 DEF OnIds, At
<1>7. CheckpointPassed' /\ PassSound'
  BY <1>3, <1>4 DEF CheckpointPassed, PassSound, PrecedingStored
<1>8. GapsReported'
  BY <1>2, <1>3, <1>4, GapAssumption DEF GapsReported
<1>9. WalkHasGoodGaps'
  <2>1. <<>> \in Seq(Gap) /\ 1..Len(<<>>) = {}
    OBVIOUS
  <2>2. GoodGaps(<<>>)
    BY <2>1 DEF GoodGaps
  <2> QED
    BY <2>2, <1>4 DEF WalkHasGoodGaps
<1>10. InLastGap' /\ FreshWalk'
  BY <1>3, <1>4, GapAssumption DEF InLastGap, FreshWalk
<1> QED
  BY <1>5, <1>6, <1>7, <1>8, <1>9, <1>10

\* A deposit found: the walk has found all before it, or keeps the gaps it has.
LEMMA VisitFoundKeeps ==
    ASSUME IInv, VisitFound
    PROVE  IInv'
<1> DEFINE id == cron.id  next == NextId(id)
           pc == IF Len(cron.gaps) = GapsLimit THEN "mark" ELSE At(next, cron.last)
           pass == IF cron.gaps = <<>> THEN id ELSE cron.pass
<1> USE DEF IInv
<1>1. /\ cron \in Cron /\ cron.pc = "visit" /\ id \in rows /\ id \in Id
      /\ cron.last \in Id /\ id \in Nat
  BY IdIsNat DEF VisitFound, TypeOK, OnIds
<1>2. /\ next \in Nat
      /\ \A d \in Id : d < next => d <= id
      /\ next <= cron.last => next \in Id
  BY <1>1, NextIdFacts
<1>3. /\ cron' = [cron EXCEPT !.id = next, !.pass = pass, !.pc = pc]
      /\ pc \in {"visit", "mark"} /\ (pc = "visit" => next <= cron.last)
      /\ (pc = "visit" => Len(cron.gaps) # GapsLimit)
      /\ UNCHANGED <<rows, checkpoint, owed, querySize, failures>>
  BY DEF VisitFound, At
<1>4. /\ cron'.pc = pc /\ cron'.id = next /\ cron'.last = cron.last
      /\ cron'.pass = pass /\ cron'.gaps = cron.gaps /\ cron' \in Cron
  BY <1>1, <1>2, <1>3 DEF Cron
<1>5. TypeOK'
  BY <1>3, <1>4 DEF TypeOK
<1>6. OnIds'
  BY <1>1, <1>2, <1>3, <1>4 DEF OnIds
<1>7. CheckpointPassed'
  BY <1>3 DEF CheckpointPassed, PrecedingStored
<1>8. PassSound'
  <2>1. CASE cron.gaps = <<>>
    <3>1. PrecedingStored(id)
      <4> SUFFICES ASSUME NEW d \in Id, d <= id PROVE d \in rows
        BY DEF PrecedingStored
      <4>1. d < id \/ d = id
        BY <1>1, IdIsNat
      <4>2. Len(cron.gaps) = 0
        BY <2>1
      <4> QED
        BY <1>1, <4>1, <4>2 DEF GapsReported
    <3> QED
      BY <2>1, <3>1, <1>3, <1>4 DEF PassSound, PrecedingStored
  <2>2. CASE cron.gaps # <<>>
    BY <2>2, <1>3, <1>4 DEF PassSound, PrecedingStored
  <2> QED
    BY <2>1, <2>2
<1>9. GapsReported'
  <2>1. \A d \in Id \ rows : d < next => d < id
    BY <1>1, <1>2, IdIsNat
  <2> QED
    BY <2>1, <1>1, <1>3, <1>4 DEF GapsReported
<1>10. WalkHasGoodGaps'
  BY <1>1, <1>4 DEF WalkHasGoodGaps, Walking
<1>11. InLastGap' /\ FreshWalk'
  BY <1>3, <1>4 DEF InLastGap, FreshWalk
<1> QED
  BY <1>5, <1>6, <1>7, <1>8, <1>9, <1>10, <1>11

\* A deposit missing: it is in the last gap, and the limit is passed only by the jump.
LEMMA VisitMissingKeeps ==
    ASSUME IInv, VisitMissing
    PROVE  IInv'
<1> DEFINE id == cron.id  next == NextId(id)
           gaps == cron.gaps  n == Len(gaps)  new == WithMissing(gaps, id)
           pc == IF Full(new) THEN "mark" ELSE At(next, cron.last)
           extends == n > 0 /\ gaps[n].to = id - 1 /\ Size(gaps[n]) < MaxGapSize
<1> USE DEF IInv
<1>1. /\ cron \in Cron /\ cron.pc = "visit" /\ id \notin rows /\ id \in Id
      /\ cron.last \in Id /\ id \in Nat
  BY IdIsNat DEF VisitMissing, TypeOK, OnIds
<1>2. /\ next \in Nat
      /\ \A d \in Id : d < next => d <= id
      /\ next <= cron.last => next \in Id
  BY <1>1, NextIdFacts
<1>3. GoodGaps(gaps) /\ n \in Nat
  BY <1>1 DEF WalkHasGoodGaps, Walking, GoodGaps
<1>4. /\ GoodGaps(new) /\ Len(new) \in Nat \ {0}
      /\ new[Len(new)].to = id /\ id \in Blocks(new[Len(new)])
      /\ \A k \in 1..n : k \in 1..Len(new) /\ Blocks(gaps[k]) \subseteq Blocks(new[k])
  <2>1. CASE extends
    <3>1. /\ GoodGaps(new) /\ Len(new) = n
          /\ new[n].to = id /\ id \in Blocks(new[n])
          /\ Blocks(gaps[n]) \subseteq Blocks(new[n])
          /\ \A k \in 1..n : k # n => new[k] = gaps[k]
      BY <2>1, <1>1, <1>3, Extended
    <3> HIDE DEF new, gaps, n
    <3> QED
      BY <3>1, <2>1, <1>3
  <2>2. CASE ~extends
    <3>1. /\ GoodGaps(new) /\ Len(new) = n + 1
          /\ new[n + 1].to = id /\ id \in Blocks(new[n + 1])
          /\ \A k \in 1..n : new[k] = gaps[k]
      BY <2>2, <1>1, <1>3, Begun
    <3> HIDE DEF new, gaps, n
    <3> QED
      BY <3>1, <1>3
  <2> QED
    BY <2>1, <2>2
<1>5. /\ cron' = [cron EXCEPT !.id = next, !.gaps = new, !.pc = pc]
      /\ pc \in {"visit", "mark"} /\ (pc = "visit" => next <= cron.last /\ ~Full(new))
      /\ UNCHANGED <<rows, checkpoint, owed, querySize, failures>>
  BY DEF VisitMissing, At
<1>6. /\ cron'.pc = pc /\ cron'.id = next /\ cron'.last = cron.last
      /\ cron'.pass = cron.pass /\ cron'.gaps = new /\ cron' \in Cron
  BY <1>1, <1>2, <1>4, <1>5 DEF Cron, GoodGaps
<1>7. TypeOK' /\ OnIds'
  BY <1>1, <1>2, <1>5, <1>6 DEF TypeOK, OnIds
<1>8. CheckpointPassed' /\ PassSound'
  BY <1>5, <1>6 DEF CheckpointPassed, PassSound, PrecedingStored
<1>9. WalkHasGoodGaps'
  BY <1>4, <1>6 DEF WalkHasGoodGaps
<1>10. GapsReported'
  <2>1. ASSUME NEW d \in Id \ rows, d < next
        PROVE  \E k \in 1..Len(new) : d \in Blocks(new[k])
    <3>1. CASE d < id
      <4>1. PICK k \in 1..n : d \in Blocks(gaps[k])
        BY <3>1, <1>1 DEF GapsReported
      <4> QED
        BY <4>1, <1>4
    <3>2. CASE d = id
      BY <3>2, <1>4
    <3> QED
      BY <2>1, <3>1, <3>2, <1>1, <1>2, IdIsNat
  <2>2. \A k \in 1..Len(new) : Blocks(new[k]) \subseteq Id /\ Size(new[k]) <= MaxGapSize
    BY <1>4 DEF GoodGaps, GoodGap
  <2>3. Len(new) <= GapsLimit \/ new[GapsLimit].to = MaxIdV2
    <3>1. GapsLimit \in Nat \ {0} /\ (n <= GapsLimit \/ gaps[GapsLimit].to = MaxIdV2)
      BY <1>1, GapAssumption DEF GapsReported
    <3>2. CASE extends
      <4>1. Len(new) = n /\ \A k \in 1..n : k # n => new[k] = gaps[k]
        BY <3>2, <1>1, <1>3, Extended
      <4> QED
        BY <3>1, <4>1, <1>3
    <3>3. CASE ~extends
      <4>1. Len(new) = n + 1 /\ \A k \in 1..n : new[k] = gaps[k]
        BY <3>3, <1>1, <1>3, Begun
      <4>2. CASE n = GapsLimit
        <5>1. n \in 1..n /\ NextId(gaps[n].to) = id /\ Size(gaps[n]) < MaxGapSize
          BY <4>2, <3>1, <1>1 DEF InLastGap
        <5>2. gaps[n].to \in Id /\ gaps[n].to \in Nat
          BY <5>1, <1>3, GoodGapFacts DEF GoodGaps
        <5>3. id # gaps[n].to + 1
          <6>1. gaps[n].to # id - 1
            BY <5>1, <3>3, <1>3
          <6> HIDE DEF id, gaps, n
          <6> QED
            BY <5>2, <6>1, <1>1
        <5>4. gaps[n].to = MaxIdV2
          BY <5>1, <5>2, <5>3, NextIdFacts
        <5> QED
          BY <5>1, <5>4, <4>1, <4>2
      <4>3. CASE n # GapsLimit
        BY <4>1, <4>3, <3>1, <1>3
      <4> QED
        BY <4>2, <4>3
    <3> QED
      BY <3>2, <3>3
  <2> QED
    BY <2>1, <2>2, <2>3, <1>5, <1>6 DEF GapsReported
<1>11. InLastGap' /\ FreshWalk'
  <2>1. Size(new[Len(new)]) \in Int /\ Size(new[Len(new)]) <= MaxGapSize
    <3>1. GoodGap(new[Len(new)])
      BY <1>4 DEF GoodGaps
    <3> QED
      BY <3>1, GoodGapFacts
  <2>2. Size(new[Len(new)]) # MaxGapSize => Size(new[Len(new)]) < MaxGapSize
    BY <2>1, GapAssumption
  <2> QED
    BY <2>2, <1>4, <1>5, <1>6 DEF InLastGap, FreshWalk, Full
<1> QED
  BY <1>7, <1>8, <1>9, <1>10, <1>11

\* A range over a gap is a range of blocks.
LEMMA RangesAreBlocks ==
    ASSUME TypeOK, NEW gap
    PROVE  RangesOver(gap) \subseteq [from : Nat, to : Nat]
<1>1. \A d \in rows : DepositBlock[d] \in Nat
  BY GapAssumption DEF TypeOK
<1> QED
  BY <1>1 DEF RangesOver, Previous, Following

\* After the walk only the checkpoint matters.
LEMMA RestKeeps ==
    ASSUME IInv, Tick \/ Mark \/ Attach \/ Publish \/ Finish \/ Fail
    PROVE  IInv'
<1> USE DEF IInv
<1>1. /\ cron \in Cron /\ Idle.pc = "idle" /\ Idle.pass = NoPass /\ Idle.gaps = <<>>
      /\ Idle \in Cron /\ rows \subseteq Id
  BY DEF TypeOK, Idle, Cron, NoPass
<1>2. CASE Tick
  <2>1. PICK d \in rows : cron' = [Idle EXCEPT !.pc = "start", !.last = d]
    BY <1>2 DEF Tick
  <2>2. /\ cron'.pc = "start" /\ cron'.last = d /\ d \in Id /\ cron'.pass = NoPass
        /\ cron'.gaps = <<>> /\ cron' \in Cron
        /\ UNCHANGED <<rows, checkpoint, owed, querySize, failures>>
    BY <1>1, <1>2, <2>1, IdIsNat DEF Tick, Idle, Cron
  <2> QED
    BY <2>2 DEF TypeOK, OnIds, CheckpointPassed, PassSound, PrecedingStored, GapsReported,
                WalkHasGoodGaps, Walking, InLastGap, FreshWalk
<1>3. CASE Mark
  <2>1. /\ cron'.pc = "attach" /\ cron'.last = cron.last /\ cron'.pass = cron.pass
        /\ cron' \in Cron /\ cron.pc = "mark" /\ UNCHANGED <<rows, owed, querySize, failures>>
        /\ checkpoint' = IF cron.pass = NoPass THEN checkpoint ELSE cron.pass
    BY <1>1, <1>3 DEF Mark, Cron
  <2>2. TypeOK' /\ OnIds'
    BY <2>1, <1>1 DEF TypeOK, OnIds, Cron
  <2>3. CheckpointPassed' /\ PassSound'
    BY <2>1 DEF CheckpointPassed, PassSound, PrecedingStored
  <2> QED
    BY <2>1, <2>2, <2>3 DEF GapsReported, WalkHasGoodGaps, Walking, InLastGap, FreshWalk
<1>4. CASE Attach
  <2>1. /\ cron'.pc \in {"attach", "publish"} /\ cron'.last = cron.last
        /\ cron'.pass = cron.pass /\ cron' \in Cron /\ cron.pc = "attach"
        /\ UNCHANGED <<rows, checkpoint, owed, querySize, failures>>
    <3>1. cron.gaps # <<>> => Tail(cron.gaps) \in Seq(Gap)
      BY <1>1 DEF Cron
    <3>2. RangesOver(Head(cron.gaps)) \subseteq [from : Nat, to : Nat]
      BY RangesAreBlocks
    <3> QED
      BY <3>1, <3>2, <1>1, <1>4 DEF Attach, Cron
  <2> QED
    BY <2>1 DEF TypeOK, OnIds, CheckpointPassed, PassSound, PrecedingStored, GapsReported,
                WalkHasGoodGaps, Walking, InLastGap, FreshWalk
<1>5. CASE Publish
  <2>1. /\ cron'.pc = "publish" /\ cron'.last = cron.last /\ cron'.pass = cron.pass
        /\ cron' \in Cron /\ owed' \subseteq Id /\ cron.pc = "publish"
        /\ UNCHANGED <<rows, checkpoint, querySize, failures>>
    BY <1>1, <1>5 DEF Publish, Cron, ReadAgain, TypeOK
  <2> QED
    BY <2>1 DEF TypeOK, OnIds, CheckpointPassed, PassSound, PrecedingStored, GapsReported,
                WalkHasGoodGaps, Walking, InLastGap, FreshWalk
<1>6. CASE Finish \/ Fail
  <2>1. /\ cron' = Idle /\ UNCHANGED <<rows, checkpoint, owed, querySize>>
        /\ failures' \in 0..MaxFailures
    BY <1>6, GapAssumption DEF Finish, Fail, TypeOK
  <2> QED
    BY <2>1, <1>1 DEF TypeOK, OnIds, CheckpointPassed, PassSound, PrecedingStored,
                      GapsReported, WalkHasGoodGaps, Walking, InLastGap, FreshWalk
<1> QED
  BY <1>2, <1>3, <1>4, <1>5, <1>6

\* A refusal, of a query or of a token, disturbs neither the walk nor the checkpoint.
LEMMA RefusalsKeep ==
    ASSUME IInv, \/ \E d \in Id : RefuseToken(d)
                 \/ \E contract \in 1..Len(Starts) : Resize(contract)
    PROVE  IInv'
<1> USE DEF IInv
<1>1. /\ UNCHANGED <<rows, checkpoint, cron>> /\ owed' \subseteq owed
      /\ failures < MaxFailures /\ failures' = failures + 1
      /\ querySize' \in [1..Len(Starts) -> QuerySizes \cup {Unset}]
  BY DEF RefuseToken, Resize, TypeOK
<1>2. failures' \in 0..MaxFailures /\ owed' \subseteq Id
  BY <1>1, GapAssumption DEF TypeOK
<1> QED
  BY <1>1, <1>2 DEF TypeOK, OnIds, CheckpointPassed, PassSound, PrecedingStored, GapsReported,
                    WalkHasGoodGaps, Walking, InLastGap, FreshWalk

\* IInv is an inductive invariant of the specification.
THEOREM Inductive == Spec => []IInv
<1>1. Init => IInv
  <2> SUFFICES ASSUME Init PROVE IInv
    OBVIOUS
  <2>1. /\ cron \in Cron /\ cron.pc = "idle" /\ cron.pass = NoPass
        /\ rows = {} /\ owed = {} /\ checkpoint = NoCheckpoint /\ failures = 0
        /\ querySize \in [1..Len(Starts) -> QuerySizes \cup {Unset}]
    BY DEF Init, Idle, Cron, NoPass
  <2> QED
    BY <2>1, GapAssumption
       DEF IInv, TypeOK, OnIds, CheckpointPassed, PassSound, GapsReported,
           WalkHasGoodGaps, Walking, InLastGap, FreshWalk, NoCheckpoint
<1>2. IInv /\ [Next]_vars => IInv'
  <2> SUFFICES ASSUME IInv, [Next]_vars PROVE IInv'
    OBVIOUS
  <2>1. CASE \E d \in Id : Scrape(d) \/ Reread(d)
    BY <2>1, StoreKeeps DEF Scrape, Reread
  <2>2. CASE Start
    BY <2>2, StartKeeps
  <2>3. CASE VisitFound
    BY <2>3, VisitFoundKeeps
  <2>4. CASE VisitMissing
    BY <2>4, VisitMissingKeeps
  <2>5. CASE Tick \/ Mark \/ Attach \/ Publish \/ Finish \/ Fail
    BY <2>5, RestKeeps
  <2>6. CASE UNCHANGED vars
    BY <2>6 DEF vars, IInv, TypeOK, OnIds, CheckpointPassed, PassSound, PrecedingStored,
                GapsReported, WalkHasGoodGaps, Walking, InLastGap, FreshWalk
  <2>7. CASE \/ \E d \in Id : RefuseToken(d)
             \/ \E contract \in 1..Len(Starts) : Resize(contract)
    BY <2>7, RefusalsKeep
  <2> QED
    BY <2>1, <2>2, <2>3, <2>4, <2>5, <2>6, <2>7 DEF Next, Run
<1> QED
  BY <1>1, <1>2, PTL DEF Spec

\* The cron, its checkpoint and the rows keep their types.
THEOREM TypeCorrect == Spec => []TypeOK
<1>1. IInv => TypeOK
  BY DEF IInv
<1> QED
  BY <1>1, Inductive, PTL

\* The checkpoint never passes a deposit that is not stored, whatever arrives during the
\* walk and wherever a run ends.
THEOREM CheckpointNeverPassesGap == Spec => []CheckpointPassed
<1>1. IInv => CheckpointPassed
  BY DEF IInv
<1> QED
  BY <1>1, Inductive, PTL

\* A walk reports every deposit it did not find, in gaps of real ids, and within the
\* limits but for the jump from V2 to V2.5.
THEOREM WalkReportsGaps == Spec => []GapsReported
<1>1. IInv => GapsReported
  BY DEF IInv
<1> QED
  BY <1>1, Inductive, PTL
=============================================================================
