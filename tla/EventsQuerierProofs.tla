------------------------ MODULE EventsQuerierProofs ------------------------
(***************************************************************************)
(* What calls of one querier, however many and however interleaved, can do *)
(* to the size they share.  The argument is one fact about a refusal: the  *)
(* interval refused is a sample of the size the attempt began with, so     *)
(* that size is above the limit of the node, and its half not below half   *)
(* of the limit.  A call whose size somebody has changed changes nothing.  *)
(***************************************************************************)
EXTENDS EventsQuerier, TLAPS

\* A sample is at most as wide as the size it was cut to.
LEMMA SampleWidth ==
    ASSUME NEW min \in Nat, NEW max \in Nat, NEW size \in Nat \ {0},
           NEW i \in GetSamplesBetween(min, max, size)
    PROVE  /\ i.from \in Nat /\ i.to \in Int
           /\ Width(i) <= size
  BY DEF GetSamplesBetween, Width, Lesser

LEMMA IntervalType ==
    ASSUME NEW r \in QueryRange, NEW size \in Nat, NEW i \in Intervals(r, size)
    PROVE  i.from \in Nat /\ i.to \in Int /\ Blocks(i) \subseteq Nat
  <1>1. r.from \in Nat /\ r.to \in Nat
    BY QuerierAssumption
  <1>2. i.from \in Nat /\ i.to \in Int
    BY <1>1, SampleWidth DEF Intervals, Unset
  <1> QED
    BY <1>2 DEF Blocks

\* There is a first interval: the choice in FirstInterval is made among one at least.
LEMMA FirstIntervalExists ==
    ASSUME NEW r \in QueryRange, NEW size \in Nat
    PROVE  FirstInterval(r, size) \in Intervals(r, size)
  <1>1. r.from \in Nat /\ r.to \in Nat /\ r.from <= r.to
    BY QuerierAssumption
  <1>2. \E i \in Intervals(r, size) : i.from = r.from
    <2>1. CASE size = Unset
      BY <2>1 DEF Intervals
    <2>2. CASE size # Unset
      <3>1. r.from \in {n \in r.from..r.to : n = r.from \/ (n < r.to /\ (n - r.from) % size = 0)}
        BY <1>1
      <3>2. [from |-> r.from, to |-> Lesser(r.from + size - 1, r.to)]
                \in GetSamplesBetween(r.from, r.to, size)
        BY <3>1 DEF GetSamplesBetween
      <3> QED
        BY <2>2, <3>2 DEF Intervals
    <2> QED
      BY <2>1, <2>2
  <1> QED
    BY <1>2 DEF FirstInterval

\* The fact behind the theorems: a refused attempt began with a size above the limit.
LEMMA RefusedIsWide ==
    ASSUME NEW r \in QueryRange, NEW size \in Nat \ {0}, NEW i \in Intervals(r, size) \cap TooLarge
    PROVE  size > Limit
  <1>1. r.from \in Nat /\ r.to \in Nat /\ Limit \in Nat
    BY QuerierAssumption
  <1>2. Width(i) <= size /\ i.from \in Nat /\ i.to \in Int
    BY <1>1, SampleWidth DEF Intervals, Unset
  <1>3. Width(i) > Limit
    BY QuerierAssumption
  <1> QED
    BY <1>1, <1>2, <1>3 DEF Width

\* The size a refusal leaves behind, when the attempt began with `size`.
LEMMA LoweredSize ==
    ASSUME blockRangeSize \in Nat, NEW size \in Nat, size # Unset => size > Limit
    PROVE  /\ LowerSize(size) \in Nat \ {0} \/ LowerSize(size) = blockRangeSize
           /\ \/ LowerSize(size) \in {blockRangeSize, DefaultSize}
              \/ 2 * LowerSize(size) + 1 > Limit
           /\ blockRangeSize # Unset => LowerSize(size) \in 1..blockRangeSize
  <1>1. Limit \in Nat \ {0} /\ DefaultSize \in Nat \ {0}
    BY QuerierAssumption
  <1>2. CASE blockRangeSize # size
    BY <1>2 DEF LowerSize, Unset
  <1>3. CASE blockRangeSize = size /\ size = Unset
    BY <1>1, <1>3 DEF LowerSize, Unset
  <1>4. CASE blockRangeSize = size /\ size # Unset
    <2>1. LowerSize(size) = size \div 2
      BY <1>4 DEF LowerSize
    <2>2. size \in Nat /\ size > 1 /\ size > Limit
      BY <1>1, <1>4
    <2>3. size \div 2 \in 1..size /\ 2 * (size \div 2) + 1 >= size
      BY <2>2
    <2> QED
      BY <1>1, <1>4, <2>1, <2>2, <2>3
  <1> QED
    BY <1>2, <1>3, <1>4

----------------------------------------------------------------------------
\* What one step of a call does to the shared size.
SizeStep ==
    /\ blockRangeSize' \in Nat
    /\ blockRangeSize' \in {blockRangeSize, DefaultSize} \/ 2 * blockRangeSize' + 1 > Limit
    /\ blockRangeSize # Unset => blockRangeSize' \in 1..blockRangeSize

LEMMA CallFacts ==
    ASSUME TypeOK, NEW c \in Call
    PROVE  call[c].range \in QueryRange /\ call[c].size \in Nat
  BY DEF TypeOK, CallState

LEMMA RefusedStep ==
    ASSUME TypeOK, NEW c \in Call, Refused(c),
           NEW i \in Intervals(call[c].range, call[c].size) \cap TooLarge
    PROVE  TypeOK' /\ SizeStep
  <1>1. call[c].range \in QueryRange /\ call[c].size \in Nat /\ blockRangeSize \in Nat
    BY CallFacts DEF TypeOK
  <1>2. call[c].size # Unset => call[c].size > Limit
    BY <1>1, RefusedIsWide DEF Unset
  <1> DEFINE new == LowerSize(call[c].size)
  <1>3. /\ new \in Nat \ {0} \/ new = blockRangeSize
        /\ new \in {blockRangeSize, DefaultSize} \/ 2 * new + 1 > Limit
        /\ blockRangeSize # Unset => new \in 1..blockRangeSize
    BY <1>1, <1>2, LoweredSize
  <1>4. blockRangeSize' = new /\ new \in Nat
    BY <1>1, <1>3 DEF Refused
  <1>5. SizeStep
    BY <1>1, <1>3, <1>4 DEF SizeStep
  <1>6. Attempt(call[c].range, new) \in CallState
    BY <1>1, <1>4 DEF Attempt, CallState
  <1>7. call' \in [Call -> CallState]
    BY <1>6 DEF Refused, TypeOK
  <1> QED
    BY <1>4, <1>5, <1>7 DEF TypeOK

LEMMA SameSize == TypeOK /\ UNCHANGED blockRangeSize => SizeStep
  BY DEF TypeOK, SizeStep, Unset

LEMMA ReturnStep ==
    ASSUME TypeOK, NEW c \in Call, Return(c)
    PROVE  TypeOK' /\ SizeStep
  <1> DEFINE blocks == UNION {Blocks(i) : i \in Intervals(call[c].range, call[c].size)}
  <1>1. blocks \subseteq Nat
    BY CallFacts, IntervalType
  <1>2. call' = [call EXCEPT ![c] = [@ EXCEPT !.pc = "returned", !.read = blocks]]
    BY DEF Return, TypeOK
  <1>3. call' \in [Call -> CallState]
    BY <1>1, <1>2 DEF TypeOK, CallState
  <1> QED
    BY <1>3, SameSize DEF Return, TypeOK

LEMMA AnswerStep ==
    ASSUME TypeOK, NEW c \in Call, Answer(c)
    PROVE  TypeOK' /\ SizeStep
  <1>1. CASE AnswerFirst(c)
    <2> DEFINE first == FirstInterval(call[c].range, call[c].size)
    <2>1. first \in Intervals(call[c].range, call[c].size)
      BY CallFacts, FirstIntervalExists
    <2>2. CASE first \in TooLarge
      <3>1. Refused(c)
        BY <1>1, <2>2 DEF AnswerFirst
      <3> QED
        BY <2>1, <2>2, <3>1, RefusedStep
    <2>3. CASE first \notin TooLarge /\ call[c].size = Unset
      BY <1>1, <2>3, ReturnStep DEF AnswerFirst
    <2>4. CASE first \notin TooLarge /\ call[c].size # Unset
      <3>1. call' = [call EXCEPT ![c].pc = "rest"] /\ UNCHANGED blockRangeSize
        BY <1>1, <2>4 DEF AnswerFirst
      <3> QED
        BY <3>1, SameSize DEF TypeOK, CallState
    <2> QED
      BY <2>2, <2>3, <2>4
  <1>2. CASE AnswerRest(c)
    BY <1>2, RefusedStep, ReturnStep DEF AnswerRest
  <1> QED
    BY <1>1, <1>2 DEF Answer

LEMMA NextStep == TypeOK /\ [Next]_vars => TypeOK' /\ SizeStep
  <1> SUFFICES ASSUME TypeOK, [Next]_vars PROVE TypeOK' /\ SizeStep
    OBVIOUS
  <1>1. CASE UNCHANGED vars
    BY <1>1, SameSize DEF vars, TypeOK
  <1>2. ASSUME NEW c \in Call, NEW r \in QueryRange, GetEvents(c, r) PROVE TypeOK' /\ SizeStep
    <2>1. Attempt(r, blockRangeSize) \in CallState
      BY DEF Attempt, CallState, TypeOK
    <2> QED
      BY <1>2, <2>1, SameSize DEF GetEvents, TypeOK
  <1>3. ASSUME NEW c \in Call, Answer(c) PROVE TypeOK' /\ SizeStep
    BY <1>3, AnswerStep
  <1>4. ASSUME NEW c \in Call, Throw(c) PROVE TypeOK' /\ SizeStep
    <2>1. Idle \in CallState
      BY QuerierAssumption DEF Idle, CallState, Unset
    <2> QED
      BY <1>4, <2>1, SameSize DEF Throw, TypeOK
  <1> QED
    BY <1>1, <1>2, <1>3, <1>4 DEF Next

----------------------------------------------------------------------------
\* The querier's state keeps its types: no interleaving leaves a call without a range or
\* the size negative.
THEOREM TypeCorrect == Spec => []TypeOK
  <1>1. Init => TypeOK
    <2>1. Idle \in CallState
      BY QuerierAssumption DEF Idle, CallState, Unset
    <2> QED
      BY <2>1, QuerierAssumption DEF Init, TypeOK
  <1>2. TypeOK /\ [Next]_vars => TypeOK'
    BY NextStep
  <1> QED
    BY <1>1, <1>2, PTL DEF Spec

\* The check for a parallel change: for any number of calls, simultaneous refusals never
\* lower blockRangeSize further than one of them would.
THEOREM RefusalsDoNotAddUp == Spec => []NoOvershrink
  <1>1. Init => NoOvershrink
    BY DEF Init, NoOvershrink
  <1>2. TypeOK /\ NoOvershrink /\ [Next]_vars => NoOvershrink'
    BY NextStep DEF SizeStep, NoOvershrink
  <1> QED
    BY <1>1, <1>2, TypeCorrect, PTL DEF Spec

\* A call refused long ago never raises the size again, nor makes it unset.
THEOREM SizeNeverGrows == Spec => SizeOnlyShrinks
  <1>1. TypeOK /\ [Next]_vars
          => [blockRangeSize # Unset => blockRangeSize' \in 1..blockRangeSize]_vars
    BY NextStep DEF SizeStep
  <1> QED
    BY <1>1, TypeCorrect, PTL DEF Spec, SizeOnlyShrinks

----------------------------------------------------------------------------
\* Multiples of a size, which is where samples begin.
LEMMA QuotientOf ==
    ASSUME NEW x \in Nat, NEW n \in Nat \ {0}
    PROVE  /\ x \div n \in Nat
           /\ x % n \in 0..(n - 1)
           /\ x = (n * (x \div n)) + (x % n)
  OBVIOUS

LEMMA MultipleOf ==
    ASSUME NEW q \in Nat, NEW n \in Nat \ {0}
    PROVE  (n * q) % n = 0
  OBVIOUS

LEMMA NoMultipleBetween ==
    ASSUME NEW x \in Nat, NEW y \in Nat, NEW n \in Nat \ {0},
           x % n = 0, y % n = 0, x < y
    PROVE  x + n <= y
  <1> DEFINE p == x \div n
             q == y \div n
  <1>1. p \in Nat /\ q \in Nat /\ x = n * p /\ y = n * q
    BY QuotientOf
  <1> HIDE DEF p, q
  <1>2. q >= p + 1
    <2>1. q <= p => n * q <= n * p
      BY <1>1
    <2> QED
      BY <1>1, <2>1
  <1>3. n * q >= n * (p + 1)
    BY <1>1, <1>2
  <1>4. n * (p + 1) = (n * p) + n
    BY <1>1
  <1> QED
    BY <1>1, <1>3, <1>4

\* The sample a block is in, if there is one that begins there.
LEMMA SampleOf ==
    ASSUME NEW min \in Nat, NEW b \in Nat, min <= b, NEW size \in Nat \ {0}
    PROVE  \E s \in min..b : (s - min) % size = 0 /\ b <= s + size - 1
  <1> DEFINE q == (b - min) \div size
             s == min + (size * q)
  <1>1. q \in Nat /\ (b - min) % size \in 0..(size - 1)
        /\ b - min = (size * q) + ((b - min) % size)
    <2>1. b - min \in Nat
      OBVIOUS
    <2> QED
      BY <2>1, QuotientOf
  <1>2. size * q \in Nat /\ s - min = size * q
    BY <1>1
  <1>3. (s - min) % size = 0
    BY <1>1, <1>2, MultipleOf
  <1>4. s \in min..b /\ b <= s + size - 1
    BY <1>1, <1>2
  <1> QED
    BY <1>3, <1>4

(***************************************************************************)
(* The blocks of the samples are those of the range, but for a last block  *)
(* that would be a sample of its own.                                      *)
(***************************************************************************)
LEMMA SamplesCover ==
    ASSUME NEW min \in Nat, NEW max \in Nat, min <= max, NEW size \in Nat \ {0}
    PROVE  UNION {Blocks(i) : i \in GetSamplesBetween(min, max, size)}
               = IF min < max /\ (max - min) % size = 0 THEN (min..max) \ {max} ELSE min..max
  <1> DEFINE starts == {n \in min..max : n = min \/ (n < max /\ (n - min) % size = 0)}
             covered == UNION {Blocks(i) : i \in GetSamplesBetween(min, max, size)}
  <1> DEFINE sample(s) == [from |-> s, to |-> Lesser(s + size - 1, max)]
  <1>1. \A b : b \in covered <=> \E s \in starts : b \in s..Lesser(s + size - 1, max)
    <2>1. \A s : Blocks(sample(s)) = s..Lesser(s + size - 1, max)
      BY DEF Blocks
    <2>2. GetSamplesBetween(min, max, size) = {sample(s) : s \in starts}
      BY DEF GetSamplesBetween
    <2> HIDE DEF starts, sample
    <2>3. covered = UNION {Blocks(i) : i \in {sample(s) : s \in starts}}
      BY <2>2
    <2>4. \A b : b \in covered <=> \E s \in starts : b \in Blocks(sample(s))
      BY <2>3
    <2> QED
      BY <2>1, <2>4
  <1>2. \A b \in covered : b \in min..max
    BY <1>1 DEF Lesser
  <1>3. \A b \in min..max : b # max => b \in covered
    <2> SUFFICES ASSUME NEW b \in min..max, b # max PROVE b \in covered
      OBVIOUS
    <2>1. PICK s \in min..b : (s - min) % size = 0 /\ b <= s + size - 1
      <3>1. b \in Nat /\ min <= b
        OBVIOUS
      <3> QED
        BY <3>1, SampleOf
    <2>2. s \in starts /\ b \in s..Lesser(s + size - 1, max)
      BY <2>1 DEF Lesser
    <2> QED
      BY <1>1, <2>2
  <1>4. min = max => max \in covered
    <2> SUFFICES ASSUME min = max PROVE max \in covered
      OBVIOUS
    <2>1. min \in starts /\ max \in min..Lesser(min + size - 1, max)
      BY DEF Lesser
    <2> QED
      BY <1>1, <2>1
  <1>5. min < max /\ (max - min) % size # 0 => max \in covered
    <2> SUFFICES ASSUME min < max, (max - min) % size # 0 PROVE max \in covered
      OBVIOUS
    <2>1. PICK s \in min..max : (s - min) % size = 0 /\ max <= s + size - 1
      BY SampleOf
    <2>2. s < max
      BY <2>1
    <2>3. s \in starts /\ max \in s..Lesser(s + size - 1, max)
      BY <2>1, <2>2 DEF Lesser
    <2> QED
      BY <1>1, <2>3
  <1>6. min < max /\ (max - min) % size = 0 => max \notin covered
    <2> SUFFICES ASSUME min < max, (max - min) % size = 0, max \in covered PROVE FALSE
      OBVIOUS
    <2>1. PICK s \in starts : max \in s..Lesser(s + size - 1, max)
      BY <1>1
    <2>2. s \in Nat /\ min <= s /\ s < max /\ max <= s + size - 1
      BY <2>1 DEF Lesser
    <2>3. (s - min) % size = 0
      <3>1. CASE s = min
        <4>1. size * 0 = 0 /\ (size * 0) % size = 0
          BY MultipleOf
        <4> QED
          BY <3>1, <4>1
      <3>2. CASE s # min
        BY <2>1, <3>2
      <3> QED
        BY <3>1, <3>2
    <2>4. (s - min) + size <= max - min
      <3>1. s - min \in Nat /\ max - min \in Nat /\ s - min < max - min
        BY <2>2
      <3> QED
        BY <2>3, <3>1, NoMultipleBetween
    <2> QED
      BY <2>2, <2>4
  <1> HIDE DEF starts, covered
  <1>7. covered = IF min < max /\ (max - min) % size = 0 THEN (min..max) \ {max} ELSE min..max
    <2>1. CASE min < max /\ (max - min) % size = 0
      BY <1>2, <1>3, <1>6, <2>1
    <2>2. CASE ~(min < max /\ (max - min) % size = 0)
      <3>1. max \in covered
        BY <1>4, <1>5, <2>2
      <3> QED
        BY <1>2, <1>3, <2>2, <3>1
    <2> QED
      BY <2>1, <2>2
  <1> QED
    BY <1>7 DEF covered

\* What a call that returns has read.
ReadBy(r, size) == UNION {Blocks(i) : i \in Intervals(r, size)}

LEMMA ReadByRange ==
    ASSUME NEW r \in QueryRange, NEW size \in Nat
    PROVE  ReadBy(r, size) = IF LoneLastBlock(r, size) THEN Blocks(r) \ {r.to} ELSE Blocks(r)
  <1>1. r.from \in Nat /\ r.to \in Nat /\ r.from <= r.to
    BY QuerierAssumption
  <1>2. CASE size = Unset
    BY <1>2 DEF ReadBy, Intervals, LoneLastBlock
  <1>3. CASE size # Unset
    BY <1>1, <1>3, SamplesCover DEF ReadBy, Intervals, LoneLastBlock, Blocks, Unset
  <1> QED
    BY <1>2, <1>3

ReturnedComplete ==
    \A c \in Call : call[c].pc = "returned" => call[c].read = ReadBy(call[c].range, call[c].size)

LEMMA ReturnedStep == TypeOK /\ ReturnedComplete /\ [Next]_vars => ReturnedComplete'
  <1> SUFFICES ASSUME TypeOK, ReturnedComplete, [Next]_vars,
                      NEW c \in Call, call'[c].pc = "returned"
               PROVE  call'[c].read = ReadBy(call'[c].range, call'[c].size)
    BY DEF ReturnedComplete
  <1>0. CASE call'[c] = call[c]
    BY <1>0 DEF ReturnedComplete
  <1>1. CASE UNCHANGED vars
    BY <1>0, <1>1 DEF vars
  <1>2. ASSUME NEW d \in Call, d # c, \E s : call' = [call EXCEPT ![d] = s]
        PROVE  call'[c] = call[c]
    BY <1>2 DEF TypeOK
  <1>3. ASSUME NEW s, call' = [call EXCEPT ![c] = s] PROVE call'[c] = s
    BY <1>3 DEF TypeOK
  <1>4. ASSUME NEW d \in Call, NEW r \in QueryRange, GetEvents(d, r)
        PROVE  call'[c] = call[c]
    BY <1>4 DEF GetEvents, TypeOK, Attempt
  <1>5. ASSUME NEW d \in Call, Throw(d) PROVE call'[c] = call[c]
    BY <1>5 DEF Throw, TypeOK, Idle
  <1>6. ASSUME NEW d \in Call, Refused(d) PROVE call'[c] = call[c]
    BY <1>6 DEF Refused, TypeOK, Attempt
  <1>7. ASSUME NEW d \in Call, Return(d)
        PROVE  call'[c].read = ReadBy(call'[c].range, call'[c].size)
    <2>1. CASE d # c
      <3>1. call'[c] = call[c]
        BY <1>7, <2>1 DEF Return, TypeOK
      <3> QED
        BY <1>0, <3>1
    <2>2. CASE d = c
      <3>1. /\ call'[c].range = call[c].range
            /\ call'[c].size = call[c].size
            /\ call'[c].read = ReadBy(call[c].range, call[c].size)
        BY <1>7, <2>2 DEF Return, TypeOK, CallState, ReadBy
      <3> QED
        BY <3>1
    <2> QED
      BY <2>1, <2>2
  <1>8. ASSUME NEW d \in Call, Answer(d)
        PROVE  call'[c].read = ReadBy(call'[c].range, call'[c].size)
    <2>1. CASE Refused(d)
      BY <1>0, <1>6, <2>1
    <2>2. CASE Return(d)
      BY <1>7, <2>2
    <2>3. CASE call' = [call EXCEPT ![d].pc = "rest"]
      <3>1. call'[c] = call[c]
        BY <2>3 DEF TypeOK, CallState
      <3> QED
        BY <1>0, <3>1
    <2> QED
      BY <1>8, <2>1, <2>2, <2>3 DEF Answer, AnswerFirst, AnswerRest
  <1> QED
    BY <1>0, <1>1, <1>4, <1>5, <1>8 DEF Next

(***************************************************************************)
(* Whatever the size, and whatever other calls do to it while a call waits *)
(* for its samples, a call that returns has read its whole range, but for  *)
(* a last block that would be a sample of its own.                         *)
(***************************************************************************)
THEOREM ReturnsWholeRange == Spec => []ResultComplete
  <1>1. Init => ReturnedComplete
    BY DEF Init, ReturnedComplete, Idle
  <1>2. TypeOK /\ ReturnedComplete => ResultComplete
    <2> SUFFICES ASSUME TypeOK, ReturnedComplete, NEW c \in Call, call[c].pc = "returned"
                 PROVE  call[c].read = IF LoneLastBlock(call[c].range, call[c].size)
                                       THEN Blocks(call[c].range) \ {call[c].range.to}
                                       ELSE Blocks(call[c].range)
      BY DEF ResultComplete
    <2> QED
      BY CallFacts, ReadByRange DEF ReturnedComplete
  <1> QED
    BY <1>1, <1>2, ReturnedStep, TypeCorrect, PTL DEF Spec
=============================================================================
