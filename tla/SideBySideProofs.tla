-------------------------- MODULE SideBySideProofs --------------------------
(***************************************************************************)
(* The parts that keep rows of their own, as MCSideBySide runs them, each  *)
(* proved of its own specification, for all values of its constants:       *)
(*                                                                         *)
(*   Enrichment        no column of a deposit is forgotten                 *)
(*   Users             a Discord id has one user                           *)
(*   QueueReports      the crowded queues are reported                     *)
(*   StickyReferrals   the sticky referral is that of the latest deposit   *)
(*   MerkleProofs      the endpoints answer with the proofs of a window    *)
(*   RewardFiles       an upload makes the table that of its file          *)
(*   Reindexing        a request misses no deposit of its dates            *)
(*   DepositPages      a list read page by page misses no deposit          *)
(*   SpeedUps          a V2 deposit has the fee of its latest speed-up     *)
(*                                                                         *)
(* Each section states its inductive invariant and proves it action by     *)
(* action.  The first two are lemmas about finite sets and about pages     *)
(* that several of them rest on.                                           *)
(***************************************************************************)
EXTENDS Enrichment, StickyReferrals, RewardFiles, MerkleProofs, Users, Reindexing,
        DepositPages, SpeedUps, QueueReports, FiniteSetTheorems, TLAPS

----------------------------------------------------------------------------
(* The greatest of a finite set *)

\* An element of a finite set that has the greatest key.
LEMMA GreatestExists ==
    ASSUME NEW S, IsFiniteSet(S), S # {}, NEW key, \A x \in S : key[x] \in Int
    PROVE  \E x \in S : \A y \in S : key[y] <= key[x]
  <1> DEFINE Higher(x) == {y \in S : key[y] > key[x]}
             R == StrictSubsetOrdering(S)
             T == {Higher(x) : x \in S}
  <1>1. IsWellFoundedOn(R, SUBSET S)
    BY FS_FiniteSubsetsOfFinite, FS_StrictSubsetOrderingWellFounded
  <1>2. T \subseteq SUBSET S /\ T # {}
    OBVIOUS
  <1>3. \E t \in T : \A u \in T : ~(<<u, t>> \in R)
    <2> HIDE DEF R, T
    <2> QED
      BY <1>1, <1>2, WFMin
  <1>4. PICK x \in S : \A y \in S : ~(<<Higher(y), Higher(x)>> \in R)
    BY <1>3
  <1>5. ASSUME NEW y \in S, key[y] > key[x] PROVE FALSE
    <2>1. Higher(y) \subseteq Higher(x) /\ y \in Higher(x) /\ y \notin Higher(y)
      BY <1>5
    <2>2. <<Higher(y), Higher(x)>> \in R
      BY <2>1 DEF StrictSubsetOrdering
    <2> QED
      BY <1>4, <2>2
  <1> QED
    BY <1>5

\* The last of some positions.
LEMMA LastExists ==
    ASSUME NEW n \in Nat, NEW S, S \subseteq 1..n, S # {}
    PROVE  \E i \in S : \A j \in S : j <= i
  <1> DEFINE key == [i \in S |-> i]
  <1>1. IsFiniteSet(S)
    <2>1. 1 \in Int /\ n \in Int /\ S \in SUBSET (1..n)
      OBVIOUS
    <2>2. IsFiniteSet(1..n)
      BY <2>1, FS_Interval
    <2> QED
      BY <2>1, <2>2, FS_Subset
  <1>2. \A i \in S : key[i] \in Int
    OBVIOUS
  <1>3. \E i \in S : \A j \in S : key[j] <= key[i]
    <2> HIDE DEF key
    <2> QED
      BY <1>1, <1>2, GreatestExists
  <1> QED
    BY <1>3

----------------------------------------------------------------------------
(* Pages of a finite set in the descending order of a key *)

Ahead(S, key, x) == {e \in S : key[e] > key[x]}
Alike(S, key, x) == {e \in S : key[e] = key[x]}

\* How many elements two sets share.
Common(A, B) == Cardinality(A \cap B)

Down(S, key, x) == {e \in S : key[e] >= key[x]}

\* So many places from one on.
Span(from, size) == from..(from + size - 1)

\* The places of the elements alike x.
Places(S, key, x) == Span(Cardinality(Ahead(S, key, x)), Cardinality(Alike(S, key, x)))

LEMMA DisjointSize ==
    ASSUME NEW A, NEW B, IsFiniteSet(A), IsFiniteSet(B), A \cap B = {}
    PROVE  /\ Cardinality(A) \in Nat /\ Cardinality(B) \in Nat
           /\ Cardinality(A \cup B) = Cardinality(A) + Cardinality(B)
  <1>1. Cardinality(A) \in Nat /\ Cardinality(B) \in Nat
    BY FS_CardinalityType
  <1>2. Cardinality(A \cap B) = 0
    BY FS_EmptySet
  <1>3. Cardinality(A \cup B) = Cardinality(A) + Cardinality(B) - Cardinality(A \cap B)
    BY FS_Union
  <1> QED
    BY <1>1, <1>2, <1>3

LEMMA SplitWindow ==
    ASSUME NEW r \in Nat, NEW n \in Nat, NEW all \in Nat, all <= r + n, r + n <= all,
           NEW W
    PROVE  Common(W, Span(0, all))
               = Common(W, Span(0, r)) + Common(W, Span(r, n))
  <1> DEFINE A == Span(0, r) \cap W
             B == Span(r, n) \cap W
  <1>1. IsFiniteSet(A) /\ IsFiniteSet(B)
    <2>1. IsFiniteSet(Span(0, r)) /\ IsFiniteSet(Span(r, n))
      BY FS_Interval DEF Span
    <2> QED
      BY <2>1, FS_Intersection
  <1>2. Span(0, all) \cap W = A \cup B /\ A \cap B = {}
    BY DEF Span
  <1> HIDE DEF A, B
  <1>3. Cardinality(A \cup B) = Cardinality(A) + Cardinality(B)
    BY <1>1, <1>2, DisjointSize
  <1>4. /\ Common(W, Span(0, all)) = Cardinality(A \cup B)
        /\ Common(W, Span(0, r)) = Cardinality(A)
        /\ Common(W, Span(r, n)) = Cardinality(B)
    <2>1. /\ W \cap Span(0, all) = A \cup B /\ W \cap Span(0, r) = A /\ W \cap Span(r, n) = B
      BY <1>2 DEF A, B
    <2> QED
      BY <2>1 DEF Common
  <1> QED
    BY <1>3, <1>4

\* The elements that are ahead of the next lower key are those ahead of x and those alike x.
LEMMA AheadOfNext ==
    ASSUME NEW S, IsFiniteSet(S), NEW key, \A e \in S : key[e] \in Int, NEW x \in S
    PROVE  LET up == Ahead(S, key, x)  same == Alike(S, key, x)
           IN  /\ IsFiniteSet(up) /\ IsFiniteSet(same) /\ up \cap same = {}
               /\ Cardinality(up) \in Nat /\ Cardinality(same) \in Nat
               /\ Cardinality(up \cup same) = Cardinality(up) + Cardinality(same)
               /\ up \cup same = Down(S, key, x)
  <1> DEFINE up == Ahead(S, key, x)
             same == Alike(S, key, x)
  <1>1. /\ up \in SUBSET S /\ same \in SUBSET S /\ up \cap same = {}
        /\ up \cup same = Down(S, key, x)
    BY DEF Ahead, Alike, Down
  <1> HIDE DEF up, same
  <1>2. IsFiniteSet(up) /\ IsFiniteSet(same)
    BY <1>1, FS_Subset
  <1>3. Cardinality(up) \in Nat /\ Cardinality(same) \in Nat
    BY <1>2, FS_CardinalityType
  <1>5. Cardinality(up \cup same) = Cardinality(up) + Cardinality(same)
    BY <1>1, <1>2, DisjointSize
  <1> QED
    BY <1>1, <1>2, <1>3, <1>5 DEF up, same

\* A page that has of those alike as many as have their places in the window has of those
\* down to any element as many as have their places in it.
LEMMA PageDownTo ==
    ASSUME NEW S, IsFiniteSet(S), NEW key, \A e \in S : key[e] \in Int,
           NEW W, NEW page \in SUBSET S,
           \A x \in S : Common(page, Alike(S, key, x))
                            = Common(W, Places(S, key, x))
    PROVE  \A x \in S :
               Common(page, Down(S, key, x))
                   = Common(W, Span(0, Cardinality(Down(S, key, x))))
  <1> DEFINE Right(x) == Common(page, Down(S, key, x))
                             = Common(W, Span(0, Cardinality(Down(S, key, x))))
             Bad == {x \in S : ~Right(x)}
             low == [e \in S |-> 0 - key[e]]
  <1>1. SUFFICES ASSUME Bad # {} PROVE FALSE
    OBVIOUS
  <1>2. IsFiniteSet(Bad)
    <2>1. Bad \in SUBSET S
      OBVIOUS
    <2> HIDE DEF Bad
    <2> QED
      BY <2>1, FS_Subset
  <1>3. PICK x \in Bad : \A y \in Bad : key[y] <= key[x]
    <2>1. \A y \in Bad : key[y] \in Int
      OBVIOUS
    <2> HIDE DEF Bad
    <2> QED
      BY <1>1, <1>2, <2>1, GreatestExists
  <1> DEFINE up == Ahead(S, key, x)
             same == Alike(S, key, x)
             r == Cardinality(up)
             n == Cardinality(same)
  <1>4. /\ x \in S /\ ~Right(x)
        /\ \A y \in S : key[y] > key[x] => Right(y)
    <2>1. x \in S /\ ~Right(x)
      OBVIOUS
    <2>2. ASSUME NEW y \in S, key[y] > key[x], ~Right(y) PROVE FALSE
      <3>1. y \in Bad
        BY <2>2
      <3> HIDE DEF Bad, Right
      <3> QED
        BY <1>3, <2>1, <2>2, <3>1
    <2> HIDE DEF Right, Bad
    <2> QED
      BY <2>1, <2>2
  <1>5. /\ IsFiniteSet(up) /\ IsFiniteSet(same) /\ up \cap same = {}
        /\ r \in Nat /\ n \in Nat /\ Cardinality(up \cup same) = r + n
        /\ Down(S, key, x) = up \cup same
    BY <1>4, AheadOfNext
  <1>6. Common(page, same) = Common(W, Span(r, n))
    BY <1>4 DEF Places
  <1>7. Common(page, up) = Common(W, Span(0, r))
    <2>1. CASE up = {}
      <3>1. page \cap up = {} /\ r = 0
        BY <2>1, FS_EmptySet
      <3>2. W \cap Span(0, r) = {}
        BY <3>1 DEF Span
      <3> QED
        BY <3>1, <3>2 DEF Common
    <2>2. CASE up # {}
      <3>1. up \subseteq S /\ \A e \in up : low[e] \in Int
        BY DEF Ahead
      <3>2. PICK y \in up : \A e \in up : low[e] <= low[y]
        <4> HIDE DEF low, up
        <4> QED
          BY <1>5, <2>2, <3>1, GreatestExists
      <3>3. y \in S /\ key[y] > key[x] /\ \A e \in up : key[e] >= key[y]
        <4>1. y \in S /\ key[y] > key[x]
          BY DEF Ahead
        <4>2. ASSUME NEW e \in up PROVE key[e] >= key[y]
          <5>1. low[e] <= low[y] /\ e \in S
            BY <3>1, <3>2
          <5> QED
            BY <4>1, <5>1
        <4> QED
          BY <4>1, <4>2
      <3>4. Down(S, key, y) = up
        <4>1. ASSUME NEW e \in S PROVE key[e] >= key[y] <=> e \in up
          <5>1. key[e] \in Int /\ key[y] \in Int /\ key[x] \in Int
            BY <1>4, <3>3
          <5>2. e \in up <=> key[e] > key[x]
            BY DEF Ahead
          <5> HIDE DEF up
          <5> QED
            BY <3>3, <5>1, <5>2
        <4> HIDE DEF up
        <4> QED
          BY <3>1, <4>1 DEF Down
      <3>5. Right(y)
        BY <1>4, <3>3
      <3> QED
        BY <3>4, <3>5
    <2> QED
      BY <2>1, <2>2
  <1>8. Common(page, Down(S, key, x)) = Common(page, up) + Common(page, same)
    <2> HIDE DEF up, same, r, n
    <2>1. IsFiniteSet(page \cap up) /\ IsFiniteSet(page \cap same)
      BY <1>5, FS_Intersection
    <2>2. /\ page \cap Down(S, key, x) = (page \cap up) \cup (page \cap same)
          /\ (page \cap up) \cap (page \cap same) = {}
      BY <1>5
    <2>3. Cardinality(page \cap up) \in Nat /\ Cardinality(page \cap same) \in Nat
      BY <2>1, FS_CardinalityType
    <2> DEFINE A == page \cap up
               B == page \cap same
    <2>4. IsFiniteSet(A) /\ IsFiniteSet(B) /\ A \cap B = {} /\ page \cap Down(S, key, x) = A \cup B
          /\ Cardinality(A) \in Nat /\ Cardinality(B) \in Nat
      BY <2>1, <2>2, <2>3
    <2> HIDE DEF A, B
    <2>5. Cardinality(A \cup B) = Cardinality(A) + Cardinality(B)
      BY <2>4, DisjointSize
    <2> QED
      BY <2>4, <2>5 DEF A, B, Common
  <1>9. Common(W, Span(0, r + n))
            = Common(W, Span(0, r)) + Common(W, Span(r, n))
    <2>1. r \in Nat /\ n \in Nat
      BY <1>5
    <2> HIDE DEF up, same, r, n
    <2> DEFINE all == r + n
    <2>2. all = r + n /\ all \in Nat /\ all <= r + n /\ r + n <= all
      BY <2>1
    <2> HIDE DEF all
    <2>3. Common(W, Span(0, all))
              = Common(W, Span(0, r)) + Common(W, Span(r, n))
      BY <2>1, <2>2, SplitWindow
    <2> QED
      BY <2>2, <2>3
  <1>10. Right(x)
    <2>1. Cardinality(Down(S, key, x)) = r + n
      BY <1>5
    <2> HIDE DEF up, same, r, n
    <2> QED
      BY <1>6, <1>7, <1>8, <1>9, <2>1
  <1> QED
    BY <1>4, <1>10

\* Such a page is full as long as an element is left after it.
LEMMA PageFull ==
    ASSUME NEW S, IsFiniteSet(S), NEW key, \A e \in S : key[e] \in Int,
           NEW lo \in Nat, NEW size \in Nat, NEW page \in SUBSET S,
           \A x \in S : Common(page, Alike(S, key, x))
                            = Common(Span(lo, size), Places(S, key, x)),
           NEW z \in S, Cardinality(Ahead(S, key, z)) >= lo + size
    PROVE  Cardinality(page) = size
  <1> DEFINE W == Span(lo, size)
             low == [e \in S |-> 0 - key[e]]
  <1>1. PICK x \in S : \A e \in S : key[e] >= key[x]
    <2>1. S # {} /\ \A e \in S : low[e] \in Int
      OBVIOUS
    <2>2. \E x \in S : \A e \in S : low[e] <= low[x]
      <3> HIDE DEF low
      <3> QED
        BY <2>1, GreatestExists
    <2> QED
      BY <2>2
  <1>2. Down(S, key, x) = S /\ page \cap S = page
    BY <1>1 DEF Down
  <1>3. Common(page, S) = Common(W, Span(0, Cardinality(S)))
    <2>1. \A y \in S : Common(page, Alike(S, key, y))
                            = Common(W, Places(S, key, y))
      OBVIOUS
    <2> HIDE DEF W
    <2>2. \A y \in S :
              Common(page, Down(S, key, y))
                  = Common(W, Span(0, Cardinality(Down(S, key, y))))
      BY <2>1, PageDownTo
    <2> QED
      BY <1>2, <2>2
  <1>4. Cardinality(S) \in Nat /\ Cardinality(S) >= lo + size
    <2>1. Ahead(S, key, z) \in SUBSET S
      BY DEF Ahead
    <2>2. /\ Cardinality(S) \in Nat /\ Cardinality(Ahead(S, key, z)) \in Nat
          /\ Cardinality(Ahead(S, key, z)) <= Cardinality(S)
      BY <2>1, FS_Subset, FS_CardinalityType
    <2> QED
      BY <2>2
  <1>5. W \cap Span(0, Cardinality(S)) = W
    BY <1>4 DEF Span
  <1>6. Cardinality(W) = size
    <2>1. Cardinality(W) = IF lo > lo + size - 1 THEN 0 ELSE (lo + size - 1) - lo + 1
      BY FS_Interval DEF Span
    <2> QED
      BY <2>1
  <1> QED
    BY <1>2, <1>3, <1>5, <1>6 DEF Common

----------------------------------------------------------------------------
(* The columns of deposits: NeverStranded is inductive but for one fact, that a deposit of V2.5 *)
(* keeps having no output token, so that a fill which leaves out CappedBridgeFee is one that    *)
(* CappedBridgeFee would do nothing for.                                                        *)

OutputKept == \A d \in Deposit : OutputAddress[d] = NoToken => output[d] = NoToken

IInv == TypeOK /\ OutputKept /\ NeverStranded

LEMMA InitInv == Init => IInv
  BY EnrichmentAssumption DEF Init, IInv, TypeOK, OutputKept, NeverStranded, Message, Column, Job,
     Elsewhere

----------------------------------------------------------------------------
\* What the jobs publish and write, read off the tables.
NextJobs(k) == {Awaited(k)[i] : i \in DOMAIN Awaited(k)}

LEMMA AwaitedTable ==
  /\ Awaited("BlockNumber") = <<"TokenDetails", "DepositReferral", "SuggestedFees">>
  /\ Awaited("TokenDetails") = <<"TokenPrice">>
  /\ \A k : k # "BlockNumber" /\ k # "TokenDetails" => Awaited(k) = <<>>
PROOF
  <1>1. Awaited("BlockNumber") = <<"TokenDetails", "DepositReferral", "SuggestedFees">>
    BY DEF Awaited
  <1>2. Awaited("TokenDetails") = <<"TokenPrice">>
    BY DEF Awaited
  <1>3. ASSUME NEW k, k # "BlockNumber", k # "TokenDetails" PROVE Awaited(k) = <<>>
    BY <1>3 DEF Awaited
  <1>. QED
    BY <1>1, <1>2, <1>3

LEMMA NotAwaitedTable ==
  /\ NotAwaited("TokenPrice") = {"DepositAcxPrice"}
  /\ NotAwaited("DepositFilledDate") = {"TrackFillEvent"}
  /\ NotAwaited("FeeBreakdown") = {"OpRebateReward"}
  /\ \A k : k \notin {"TokenPrice", "DepositFilledDate", "FeeBreakdown"} => NotAwaited(k) = {}
PROOF
  <1>1. NotAwaited("TokenPrice") = {"DepositAcxPrice"}
    BY DEF NotAwaited
  <1>2. NotAwaited("DepositFilledDate") = {"TrackFillEvent"}
    BY DEF NotAwaited
  <1>3. NotAwaited("FeeBreakdown") = {"OpRebateReward"}
    BY DEF NotAwaited
  <1>4. ASSUME NEW k, k \notin {"TokenPrice", "DepositFilledDate", "FeeBreakdown"}
        PROVE  NotAwaited(k) = {}
    BY <1>4 DEF NotAwaited
  <1>. QED
    BY <1>1, <1>2, <1>3, <1>4

LEMMA WrittenTable ==
  /\ WrittenBy("BlockNumber") = "date"
  /\ WrittenBy("TokenDetails") = "token"
  /\ WrittenBy("TokenPrice") = "price"
  /\ WrittenBy("DepositAcxPrice") = "acx"
  /\ WrittenBy("SuggestedFees") = "suggested"
  /\ WrittenBy("DepositFilledDate") = "filledDate"
  /\ WrittenBy("TrackFillEvent") = "tracked"
  /\ WrittenBy("FeeBreakdown") = "breakdown"
  /\ WrittenBy("CappedBridgeFee") = "bridgeFee"
PROOF
  <1>1. WrittenBy("BlockNumber") = "date" /\ WrittenBy("TokenDetails") = "token"
    BY DEF WrittenBy
  <1>2. WrittenBy("TokenPrice") = "price" /\ WrittenBy("DepositAcxPrice") = "acx"
    BY DEF WrittenBy
  <1>3. WrittenBy("SuggestedFees") = "suggested"
    BY DEF WrittenBy
  <1>4. WrittenBy("DepositFilledDate") = "filledDate" /\ WrittenBy("TrackFillEvent") = "tracked"
    BY DEF WrittenBy
  <1>5. WrittenBy("FeeBreakdown") = "breakdown" /\ WrittenBy("CappedBridgeFee") = "bridgeFee"
    BY DEF WrittenBy
  <1>. QED
    BY <1>1, <1>2, <1>3, <1>4, <1>5

LEMMA NextJobsAre ==
  /\ NextJobs("BlockNumber") = {"TokenDetails", "DepositReferral", "SuggestedFees"}
  /\ NextJobs("TokenDetails") = {"TokenPrice"}
  /\ \A k \in Job \ {"BlockNumber", "TokenDetails"} : NextJobs(k) = {}
  BY AwaitedTable DEF NextJobs

\* Whatever a job publishes is a message of a queue, here or elsewhere.
LEMMA NextJobsType ==
  ASSUME NEW k \in Job
  PROVE  NextJobs(k) \cup NotAwaited(k) \subseteq Job \cup Elsewhere
  BY NextJobsAre, NotAwaitedTable DEF Job, Elsewhere

LEMMA FirstJobs ==
  ASSUME NEW k \in Job, NEW n \in 0..Len(Awaited(k))
  PROVE  {Awaited(k)[i] : i \in 1..n} \subseteq NextJobs(k)
PROOF
  <1>1. DOMAIN Awaited(k) = 1..Len(Awaited(k))
    BY AwaitedTable DEF Job
  <1>. QED
    BY <1>1 DEF NextJobs

----------------------------------------------------------------------------
(***************************************************************************)
(* What an action leaves in place: the columns, what was handed on, and    *)
(* the messages but those of `gone`; what was lost is lost still or has    *)
(* been published.                                                         *)
(***************************************************************************)
Keeps(gone) ==
    /\ \A d \in Deposit : columns[d] \subseteq columns'[d]
    /\ \A d \in Deposit : output[d] = NoToken => output'[d] = NoToken
    /\ handed \subseteq handed'
    /\ \A m \in queued : m \in queued' \/ m \in gone
    /\ \A m \in lost : m \in lost' \cup queued' \cup handed'
    /\ \A m \in lost : m[1] \in Job => m \in lost' \cup queued'

\* A lost message of a job of this module still comes.
LEMMA StillComing ==
  ASSUME NEW gone, Keeps(gone), NEW ks \in SUBSET Job, NEW d, Coming(ks, d),
         \A k \in ks : <<k, d>> \notin gone
  PROVE  Coming(ks, d)'
PROOF
  <1>1. PICK k \in ks : <<k, d>> \in queued \/ <<k, d>> \in lost
    BY DEF Coming
  <1>2. CASE <<k, d>> \in queued
    BY <1>2 DEF Keeps, Coming
  <1>3. CASE <<k, d>> \in lost
    <2>1. <<k, d>>[1] \in Job
      OBVIOUS
    <2>. QED
      BY <1>3, <2>1 DEF Keeps, Coming
  <1>. QED
    BY <1>1, <1>2, <1>3

\* The conjuncts of NeverStranded, for a deposit that is announced and one that is filled.
Led(d) ==
    /\ "token" \in columns[d] \/ Coming({"BlockNumber", "TokenDetails"}, d)
    /\ "price" \in columns[d] \/ Coming(Chain, d)
    /\ "acx" \in columns[d] \/ Coming(Chain \cup {"DepositAcxPrice"}, d)
    /\ "suggested" \in columns[d] \/ Coming({"BlockNumber", "SuggestedFees"}, d)
    /\ <<"DepositReferral", d>> \in handed \/ Coming({"BlockNumber"}, d)

LedFill(d) ==
    /\ "filledDate" \in columns[d] \/ Coming({"DepositFilledDate"}, d)
    /\ "tracked" \in columns[d] \/ Coming({"DepositFilledDate", "TrackFillEvent"}, d)
    /\ "breakdown" \in columns[d] \/ Coming({"FeeBreakdown"}, d)
    /\ \/ "bridgeFee" \in columns[d]
       \/ Coming({"CappedBridgeFee"}, d)
       \/ output[d] = NoToken
    /\ <<"OpRebateReward", d>> \in handed \/ Coming({"FeeBreakdown", "OpRebateReward"}, d)

LEMMA StrandedParts ==
  NeverStranded <=> (\A d \in announced : Led(d)) /\ (\A d \in filled : LedFill(d))
  BY DEF NeverStranded, Led, LedFill

\* The jobs that lead to the columns of a deposit that is not filled.
Leading == {"BlockNumber", "TokenDetails", "TokenPrice", "DepositAcxPrice", "SuggestedFees"}

LEMMA KeepsLed ==
  ASSUME NEW gone, Keeps(gone), NEW d \in Deposit, \A k \in Leading : <<k, d>> \notin gone, Led(d)
  PROVE  Led(d)'
PROOF
  <1>1. \A ks \in SUBSET Leading : Coming(ks, d) => Coming(ks, d)'
    <2>1. SUBSET Leading \subseteq SUBSET Job
      BY DEF Leading, Job
    <2>. QED
      BY <2>1, StillComing
  <1>2. /\ Coming({"BlockNumber", "TokenDetails"}, d) => Coming({"BlockNumber", "TokenDetails"}, d)'
        /\ Coming(Chain, d) => Coming(Chain, d)'
        /\ Coming(Chain \cup {"DepositAcxPrice"}, d) => Coming(Chain \cup {"DepositAcxPrice"}, d)'
        /\ Coming({"BlockNumber", "SuggestedFees"}, d)
              => Coming({"BlockNumber", "SuggestedFees"}, d)'
        /\ Coming({"BlockNumber"}, d) => Coming({"BlockNumber"}, d)'
    BY <1>1 DEF Chain, Leading
  <1>3. columns[d] \subseteq columns'[d] /\ handed \subseteq handed'
    BY DEF Keeps
  <1>. QED
    BY <1>2, <1>3 DEF Led

LEMMA KeepsLedFill ==
  ASSUME NEW gone, Keeps(gone), NEW d \in Deposit,
         \A k \in Job \cup Elsewhere : <<k, d>> \notin gone, LedFill(d)
  PROVE  LedFill(d)'
PROOF
  <1>. "OpRebateReward" \in Elsewhere
    BY DEF Elsewhere
  <1>1. \A ks \in SUBSET Job : Coming(ks, d) => Coming(ks, d)'
    BY StillComing
  <1>2. /\ Coming({"DepositFilledDate"}, d) => Coming({"DepositFilledDate"}, d)'
        /\ Coming({"DepositFilledDate", "TrackFillEvent"}, d)
              => Coming({"DepositFilledDate", "TrackFillEvent"}, d)'
        /\ Coming({"FeeBreakdown"}, d) => Coming({"FeeBreakdown"}, d)'
        /\ Coming({"CappedBridgeFee"}, d) => Coming({"CappedBridgeFee"}, d)'
    BY <1>1 DEF Job
  <1>3. Coming({"FeeBreakdown", "OpRebateReward"}, d) =>
            <<"OpRebateReward", d>> \in handed' \/ Coming({"FeeBreakdown", "OpRebateReward"}, d)'
    BY <1>2 DEF Coming, Keeps
  <1>4. columns[d] \subseteq columns'[d] /\ handed \subseteq handed'
        /\ (output[d] = NoToken => output'[d] = NoToken)
    BY DEF Keeps
  <1>. QED
    BY <1>2, <1>3, <1>4 DEF LedFill

\* An action that takes no message away.
LEMMA KeepsInv ==
  ASSUME TypeOK, NeverStranded, Keeps({}), announced' = announced, filled' = filled
  PROVE  NeverStranded'
PROOF
  <1>1. filled \subseteq Deposit /\ announced \subseteq Deposit
    BY DEF TypeOK
  <1>2. \A d \in announced : Led(d)'
    BY <1>1, KeepsLed, StrandedParts
  <1>3. ASSUME NEW d \in filled PROVE LedFill(d)'
    <2>1. LedFill(d) /\ d \in Deposit
      BY <1>1, StrandedParts
    <2>2. \A k \in Job \cup Elsewhere : <<k, d>> \notin {}
      OBVIOUS
    <2>. QED
      BY <2>1, <2>2, KeepsLedFill
  <1>. QED
    BY <1>2, <1>3, StrandedParts DEF NeverStranded, Led, LedFill

(***************************************************************************)
(* What the end of the job k of d does: its message may go, its column is  *)
(* written, and the next jobs are published or, of those that are not      *)
(* awaited, lost.                                                          *)
(***************************************************************************)
Ends(k, d) ==
    /\ Keeps({<<k, d>>})
    /\ WrittenBy(k) \in columns'[d]
    /\ \A j \in NextJobs(k) \cup NotAwaited(k) :
           /\ j \in Job => <<j, d>> \in queued' \/ <<j, d>> \in lost'
           /\ j \in Elsewhere =>
                  <<j, d>> \in handed' \/ (j \in NotAwaited(k) /\ <<j, d>> \in lost')

\* A column that is led to is led to still: by another message, by the next job of this
\* one, or not at all, because it is the column that was written.
LEMMA EndsColumn ==
  ASSUME NEW k \in Job, NEW d \in Deposit, Ends(k, d), NEW ks \in SUBSET Job, NEW c,
         c \in columns[d] \/ Coming(ks, d),
         k \in ks => WrittenBy(k) = c \/ \E j \in ks : j \in NextJobs(k) \cup NotAwaited(k)
  PROVE  c \in columns'[d] \/ Coming(ks, d)'
PROOF
  <1>1. CASE c \in columns[d]
    BY <1>1 DEF Ends, Keeps
  <1>2. CASE Coming(ks, d) /\ k \notin ks
    <2>1. \A j \in ks : <<j, d>> \notin {<<k, d>>}
      BY <1>2
    <2>. QED
      BY <1>2, <2>1, StillComing DEF Ends
  <1>3. CASE k \in ks /\ WrittenBy(k) = c
    BY <1>3 DEF Ends
  <1>4. CASE \E j \in ks : j \in NextJobs(k) \cup NotAwaited(k)
    BY <1>4 DEF Ends, Coming
  <1>. QED
    BY <1>1, <1>2, <1>3, <1>4

LEMMA EndsLed ==
  ASSUME NEW k \in Job, NEW d \in Deposit, Ends(k, d), Led(d)
  PROVE  Led(d)'
PROOF
  <1>1. "token" \in columns'[d] \/ Coming({"BlockNumber", "TokenDetails"}, d)'
    <2>. DEFINE ks == {"BlockNumber", "TokenDetails"}
    <2>1. k \in ks => WrittenBy(k) = "token"
                      \/ \E j \in ks : j \in NextJobs(k) \cup NotAwaited(k)
      BY WrittenTable, NextJobsAre
    <2>2. ks \in SUBSET Job
      BY DEF Job
    <2>. QED
      BY <2>1, <2>2, EndsColumn DEF Led
  <1>2. "price" \in columns'[d] \/ Coming(Chain, d)'
    <2>1. k \in Chain => WrittenBy(k) = "price"
                         \/ \E j \in Chain : j \in NextJobs(k) \cup NotAwaited(k)
      BY WrittenTable, NextJobsAre DEF Chain
    <2>2. Chain \in SUBSET Job
      BY DEF Job, Chain
    <2>. QED
      BY <2>1, <2>2, EndsColumn DEF Led
  <1>3. "acx" \in columns'[d] \/ Coming(Chain \cup {"DepositAcxPrice"}, d)'
    <2>. DEFINE ks == Chain \cup {"DepositAcxPrice"}
    <2>1. k \in ks => WrittenBy(k) = "acx"
                      \/ \E j \in ks : j \in NextJobs(k) \cup NotAwaited(k)
      BY WrittenTable, NextJobsAre, NotAwaitedTable DEF Chain
    <2>2. ks \in SUBSET Job
      BY DEF Job, Chain
    <2>. QED
      BY <2>1, <2>2, EndsColumn DEF Led
  <1>4. "suggested" \in columns'[d] \/ Coming({"BlockNumber", "SuggestedFees"}, d)'
    <2>. DEFINE ks == {"BlockNumber", "SuggestedFees"}
    <2>1. k \in ks => WrittenBy(k) = "suggested"
                      \/ \E j \in ks : j \in NextJobs(k) \cup NotAwaited(k)
      BY WrittenTable, NextJobsAre
    <2>2. ks \in SUBSET Job
      BY DEF Job
    <2>. QED
      BY <2>1, <2>2, EndsColumn DEF Led
  <1>5. <<"DepositReferral", d>> \in handed' \/ Coming({"BlockNumber"}, d)'
    <2>1. CASE k = "BlockNumber"
      BY <2>1, NextJobsAre, NotAwaitedTable DEF Ends, Elsewhere
    <2>2. CASE k # "BlockNumber"
      <3>1. \A j \in {"BlockNumber"} : <<j, d>> \notin {<<k, d>>}
        BY <2>2
      <3>2. {"BlockNumber"} \in SUBSET Job
        BY DEF Job
      <3>3. Coming({"BlockNumber"}, d) => Coming({"BlockNumber"}, d)'
        BY <3>1, <3>2, StillComing DEF Ends
      <3>. QED
        BY <3>3 DEF Led, Ends, Keeps
    <2>. QED
      BY <2>1, <2>2
  <1>. QED
    BY <1>1, <1>2, <1>3, <1>4, <1>5 DEF Led

LEMMA EndsLedFill ==
  ASSUME NEW k \in Job, NEW d \in Deposit, Ends(k, d), LedFill(d)
  PROVE  LedFill(d)'
PROOF
  <1>1. "filledDate" \in columns'[d] \/ Coming({"DepositFilledDate"}, d)'
    <2>. DEFINE ks == {"DepositFilledDate"}
    <2>1. k \in ks => WrittenBy(k) = "filledDate"
      BY WrittenTable
    <2>2. ks \in SUBSET Job
      BY DEF Job
    <2>. QED
      BY <2>1, <2>2, EndsColumn DEF LedFill
  <1>2. "tracked" \in columns'[d] \/ Coming({"DepositFilledDate", "TrackFillEvent"}, d)'
    <2>. DEFINE ks == {"DepositFilledDate", "TrackFillEvent"}
    <2>1. k \in ks => WrittenBy(k) = "tracked"
                      \/ \E j \in ks : j \in NextJobs(k) \cup NotAwaited(k)
      BY WrittenTable, NotAwaitedTable
    <2>2. ks \in SUBSET Job
      BY DEF Job
    <2>. QED
      BY <2>1, <2>2, EndsColumn DEF LedFill
  <1>3. "breakdown" \in columns'[d] \/ Coming({"FeeBreakdown"}, d)'
    <2>. DEFINE ks == {"FeeBreakdown"}
    <2>1. k \in ks => WrittenBy(k) = "breakdown"
      BY WrittenTable
    <2>2. ks \in SUBSET Job
      BY DEF Job
    <2>. QED
      BY <2>1, <2>2, EndsColumn DEF LedFill
  <1>4. \/ "bridgeFee" \in columns'[d]
        \/ Coming({"CappedBridgeFee"}, d)'
        \/ output'[d] = NoToken
    <2>. DEFINE ks == {"CappedBridgeFee"}
    <2>1. k \in ks => WrittenBy(k) = "bridgeFee"
      BY WrittenTable
    <2>2. ks \in SUBSET Job
      BY DEF Job
    <2>3. output[d] = NoToken => output'[d] = NoToken
      BY DEF Ends, Keeps
    <2>. QED
      BY <2>1, <2>2, <2>3, EndsColumn DEF LedFill
  <1>5. <<"OpRebateReward", d>> \in handed' \/ Coming({"FeeBreakdown", "OpRebateReward"}, d)'
    <2>1. CASE k = "FeeBreakdown"
      BY <2>1, NextJobsAre, NotAwaitedTable DEF Ends, Elsewhere, Coming
    <2>2. CASE k # "FeeBreakdown"
      <3>1. \A j \in {"FeeBreakdown"} : <<j, d>> \notin {<<k, d>>}
        BY <2>2
      <3>2. {"FeeBreakdown"} \in SUBSET Job
        BY DEF Job
      <3>3. Coming({"FeeBreakdown"}, d) => Coming({"FeeBreakdown"}, d)'
        BY <3>1, <3>2, StillComing DEF Ends
      <3>4. <<"OpRebateReward", d>> # <<k, d>>
        BY DEF Job
      <3>5. <<"OpRebateReward", d>> \in queued \cup lost
               => <<"OpRebateReward", d>> \in queued' \cup lost' \cup handed'
        BY <3>4 DEF Ends, Keeps
      <3>6. handed \subseteq handed'
        BY DEF Ends, Keeps
      <3>. QED
        BY <3>3, <3>5, <3>6 DEF LedFill, Coming
    <2>. QED
      BY <2>1, <2>2
  <1>. QED
    BY <1>1, <1>2, <1>3, <1>4, <1>5 DEF LedFill

(***************************************************************************)
(* A job of d that ends disturbs neither the other deposits nor, as it     *)
(* goes on to the next, d itself.                                          *)
(***************************************************************************)
LEMMA EndsInv ==
  ASSUME TypeOK, NeverStranded, NEW k \in Job, NEW d \in Deposit, Ends(k, d),
         announced' = announced, filled' = filled
  PROVE  NeverStranded'
PROOF
  <1>1. filled \subseteq Deposit /\ announced \subseteq Deposit
    BY DEF TypeOK
  <1>2. Keeps({<<k, d>>})
    BY DEF Ends
  <1>3. ASSUME NEW e \in announced PROVE Led(e)'
    <2>1. Led(e) /\ e \in Deposit
      BY <1>1, StrandedParts
    <2>2. CASE e = d
      BY <2>1, <2>2, EndsLed
    <2>3. CASE e # d
      <3>1. \A j \in Leading : <<j, e>> \notin {<<k, d>>}
        BY <2>3
      <3>. QED
        BY <1>2, <2>1, <3>1, KeepsLed
    <2>. QED
      BY <2>2, <2>3
  <1>4. ASSUME NEW e \in filled PROVE LedFill(e)'
    <2>1. LedFill(e) /\ e \in Deposit
      BY <1>1, StrandedParts
    <2>2. CASE e = d
      BY <2>1, <2>2, EndsLedFill
    <2>3. CASE e # d
      <3>1. \A j \in Job \cup Elsewhere : <<j, e>> \notin {<<k, d>>}
        BY <2>3
      <3>. QED
        BY <1>2, <2>1, <3>1, KeepsLedFill
    <2>. QED
      BY <2>2, <2>3
  <1>. QED
    BY <1>3, <1>4 DEF NeverStranded, Led, LedFill

----------------------------------------------------------------------------
\* What a job does to its row.
LEMMA OutputTokensType ==
  ASSUME TypeOK, NEW d \in Deposit, NEW t \in OutputTokens(d)
  PROVE  /\ t \in Token \cup {NoToken}
         /\ output[d] = NoToken => t = NoToken
PROOF
  <1>. ZeroAddress # NoToken
    BY EnrichmentAssumption
  <1>1. CASE output[d] = NoToken
    <2>1. OutputTokens(d) = {NoToken}
      BY <1>1, Zenon DEF OutputTokens
    <2>. QED
      BY <1>1, <2>1
  <1>2. CASE output[d] # NoToken /\ output[d] = ZeroAddress
    <2>1. OutputTokens(d) = SameSymbol[d] \cap cached
      BY <1>2, Zenon DEF OutputTokens
    <2>. QED
      BY <1>2, <2>1 DEF TypeOK
  <1>3. CASE output[d] # NoToken /\ output[d] # ZeroAddress
    <2>1. OutputTokens(d) = {output[d]}
      BY <1>3, Zenon DEF OutputTokens
    <2>. QED
      BY <1>3, <2>1 DEF TypeOK
  <1>. QED
    BY <1>1, <1>2, <1>3

LEMMA WriteRowKeeps ==
  ASSUME TypeOK, OutputKept, NEW k \in Job, NEW d \in Deposit, WriteRow(k, d)
  PROVE  /\ columns' \in [Deposit -> SUBSET Column]
         /\ output' \in [Deposit -> Token \cup {ZeroAddress, NoToken}]
         /\ cached' \subseteq Token
         /\ \A e \in Deposit : columns[e] \subseteq columns'[e]
         /\ WrittenBy(k) \in columns'[d]
         /\ \A e \in Deposit : output[e] = NoToken => output'[e] = NoToken
PROOF
  <1>1. WrittenBy(k) \in Column
    BY WrittenTable DEF Job, Column
  <1>2. columns' = [columns EXCEPT ![d] = columns[d] \cup {WrittenBy(k)}]
    BY DEF WriteRow
  <1>3. /\ columns' \in [Deposit -> SUBSET Column]
        /\ \A e \in Deposit : columns[e] \subseteq columns'[e]
        /\ WrittenBy(k) \in columns'[d]
    BY <1>1, <1>2 DEF TypeOK
  <1>4. /\ output' \in [Deposit -> Token \cup {ZeroAddress, NoToken}]
        /\ cached' \subseteq Token
        /\ \A e \in Deposit : output[e] = NoToken => output'[e] = NoToken
    <2>1. CASE k = "TokenDetails"
      <3>1. PICK t \in OutputTokens(d) : FindTokens(d, t)
        BY <2>1 DEF WriteRow
      <3>2. t \in Token \cup {NoToken} /\ (output[d] = NoToken => t = NoToken)
        BY OutputTokensType
      <3>3. output' = [output EXCEPT ![d] = t]
            /\ cached' = cached \cup ({SourceToken[d], t} \ {NoToken})
        BY <3>1 DEF FindTokens
      <3>. QED
        BY <3>2, <3>3, EnrichmentAssumption DEF TypeOK
    <2>2. CASE k # "TokenDetails"
      BY <2>2 DEF WriteRow, TypeOK
    <2>. QED
      BY <2>1, <2>2
  <1>. QED
    BY <1>3, <1>4

\* Messages of jobs, here and elsewhere, go where they belong.
LEMMA PublishType ==
  ASSUME TypeOK, NEW d \in Deposit, NEW ks \in SUBSET (Job \cup Elsewhere),
         NEW some \in SUBSET Message, Publish(some, To(ks, d))
  PROVE  /\ queued' \subseteq Message
         /\ handed' \subseteq Elsewhere \X Deposit
         /\ handed \subseteq handed'
         /\ some \subseteq queued'
         /\ \A j \in ks : /\ j \in Job => <<j, d>> \in queued'
                          /\ j \in Elsewhere => <<j, d>> \in handed'
  BY DEF TypeOK, Publish, To, Message

----------------------------------------------------------------------------
\* The actions, one lemma each, or one for those that are alike.
LEMMA AnnounceInv ==
  ASSUME IInv, NEW d \in Deposit, Announce(d)
  PROVE  IInv'
PROOF
  <1>1. TypeOK'
    BY DEF IInv, TypeOK, Announce, Message, Job
  <1>2. OutputKept'
    BY DEF IInv, OutputKept, Announce
  <1>3. Keeps({})
    BY DEF Announce, Keeps
  <1>4. ASSUME NEW e \in announced' PROVE Led(e)'
    <2>1. CASE e = d
      <3>1. <<"BlockNumber", d>> \in queued'
        BY DEF Announce
      <3>. QED
        BY <2>1, <3>1 DEF Led, Coming, Chain
    <2>2. CASE e # d
      <3>1. e \in Deposit /\ Led(e)
        BY <2>2, StrandedParts DEF Announce, IInv, TypeOK
      <3>2. \A j \in Leading : <<j, e>> \notin {}
        OBVIOUS
      <3>. QED
        BY <1>3, <3>1, <3>2, KeepsLed
    <2>. QED
      BY <2>1, <2>2
  <1>5. ASSUME NEW e \in filled' PROVE LedFill(e)'
    <2>1. e \in Deposit /\ LedFill(e)
      BY StrandedParts DEF Announce, IInv, TypeOK
    <2>2. \A j \in Job \cup Elsewhere : <<j, e>> \notin {}
      OBVIOUS
    <2>. QED
      BY <1>3, <2>1, <2>2, KeepsLedFill
  <1>6. NeverStranded'
    BY <1>4, <1>5 DEF NeverStranded, Led, LedFill
  <1>. QED
    BY <1>1, <1>2, <1>6 DEF IInv

LEMMA FillJobsAre ==
  ASSUME NEW d
  PROVE  /\ FillJobs(d) \subseteq Job
         /\ {"DepositFilledDate", "FeeBreakdown"} \subseteq FillJobs(d)
         /\ OutputAddress[d] # NoToken => "CappedBridgeFee" \in FillJobs(d)
  BY DEF FillJobs, Job

LEMMA FillInPartInv ==
  ASSUME IInv, NEW d \in Deposit, FillInPart(d)
  PROVE  IInv'
PROOF
  <1>1. To(FillJobs(d), d) \subseteq Message
    BY FillJobsAre DEF To, Message
  <1>2. TypeOK'
    BY <1>1 DEF IInv, TypeOK, FillInPart
  <1>3. OutputKept'
    BY DEF IInv, OutputKept, FillInPart
  <1>4. Keeps({})
    BY DEF FillInPart, Keeps
  <1>. QED
    BY <1>2, <1>3, <1>4, KeepsInv DEF IInv, FillInPart

LEMMA FillInv ==
  ASSUME IInv, NEW d \in Deposit, NEW kept \in SUBSET FillJobs(d), Fill(d, kept)
  PROVE  IInv'
PROOF
  <1>1. To(FillJobs(d) \ kept, d) \subseteq Message /\ To(kept, d) \subseteq Message
    BY FillJobsAre DEF To, Message
  <1>2. TypeOK'
    <2>1. lost' \subseteq (Job \cup Elsewhere) \X Deposit
      BY <1>1 DEF IInv, TypeOK, Fill, Message
    <2>2. deaths' \in 0..MaxDeaths
      BY EnrichmentAssumption DEF IInv, TypeOK, Fill
    <2>3. queued' \subseteq Message
      BY <1>1 DEF IInv, TypeOK, Fill
    <2>. QED
      BY <2>1, <2>2, <2>3 DEF IInv, TypeOK, Fill
  <1>3. OutputKept'
    BY DEF IInv, OutputKept, Fill
  <1>4. Keeps({})
    BY DEF Fill, Keeps
  <1>5. ASSUME NEW e \in announced' PROVE Led(e)'
    <2>1. e \in Deposit /\ Led(e)
      BY StrandedParts DEF Fill, IInv, TypeOK
    <2>2. \A j \in Leading : <<j, e>> \notin {}
      OBVIOUS
    <2>. QED
      BY <1>4, <2>1, <2>2, KeepsLed
  <1>6. ASSUME NEW e \in filled' PROVE LedFill(e)'
    <2>1. CASE e = d
      <3>1. \A j \in FillJobs(d) : <<j, d>> \in queued' \/ <<j, d>> \in lost'
        BY DEF Fill, To
      <3>2. \/ <<"CappedBridgeFee", d>> \in queued'
            \/ <<"CappedBridgeFee", d>> \in lost'
            \/ output'[d] = NoToken
        BY <1>3, <3>1, FillJobsAre DEF OutputKept
      <3>3. \A j \in {"DepositFilledDate", "FeeBreakdown"} :
                <<j, d>> \in queued' \/ <<j, d>> \in lost'
        BY <3>1, FillJobsAre
      <3>. QED
        BY <2>1, <3>2, <3>3 DEF LedFill, Coming
    <2>2. CASE e # d
      <3>1. e \in Deposit /\ LedFill(e)
        BY <2>2, StrandedParts DEF Fill, IInv, TypeOK
      <3>2. \A j \in Job \cup Elsewhere : <<j, e>> \notin {}
        OBVIOUS
      <3>. QED
        BY <1>4, <3>1, <3>2, KeepsLedFill
    <2>. QED
      BY <2>1, <2>2
  <1>7. NeverStranded'
    BY <1>5, <1>6 DEF NeverStranded, Led, LedFill
  <1>. QED
    BY <1>2, <1>3, <1>7 DEF IInv

LEMMA RunInv ==
  ASSUME IInv, NEW k \in Job, NEW d \in Deposit, Run(k, d)
  PROVE  IInv'
PROOF
  <1>. DEFINE next == NextJobs(k) \cup NotAwaited(k)
  <1>1. /\ WriteRow(k, d)
        /\ Publish(queued \ {<<k, d>>}, To(next, d))
        /\ lost' = lost \ To(next, d)
        /\ UNCHANGED <<announced, parts, filled, deaths, requests>>
    BY DEF Run, NextJobs
  <1>2. TypeOK /\ OutputKept /\ NeverStranded
    BY DEF IInv
  <1>3. next \in SUBSET (Job \cup Elsewhere)
    BY NextJobsType
  <1>4. queued \ {<<k, d>>} \in SUBSET Message
    BY <1>2 DEF TypeOK
  <1>. HIDE DEF next
  <1>5. /\ queued' \subseteq Message
        /\ handed' \subseteq Elsewhere \X Deposit
        /\ handed \subseteq handed'
        /\ queued \ {<<k, d>>} \subseteq queued'
        /\ \A j \in next : /\ j \in Job => <<j, d>> \in queued'
                           /\ j \in Elsewhere => <<j, d>> \in handed'
    BY <1>1, <1>2, <1>3, <1>4, PublishType
  <1>6. /\ columns' \in [Deposit -> SUBSET Column]
        /\ output' \in [Deposit -> Token \cup {ZeroAddress, NoToken}]
        /\ cached' \subseteq Token
        /\ \A e \in Deposit : columns[e] \subseteq columns'[e]
        /\ WrittenBy(k) \in columns'[d]
        /\ \A e \in Deposit : output[e] = NoToken => output'[e] = NoToken
    BY <1>1, <1>2, WriteRowKeeps
  <1>7. TypeOK'
    BY <1>1, <1>2, <1>5, <1>6 DEF TypeOK
  <1>8. OutputKept'
    BY <1>2, <1>6 DEF OutputKept
  <1>9. Keeps({<<k, d>>})
    <2>1. ASSUME NEW m \in lost, m \notin lost'
          PROVE  m \in queued' \cup handed' /\ (m[1] \in Job => m \in queued')
      <3>1. PICK j \in next : m = <<j, d>>
        BY <1>1, <2>1 DEF To
      <3>. QED
        BY <1>3, <1>5, <3>1
    <2>2. \A m \in queued : m \in queued' \/ m \in {<<k, d>>}
      BY <1>5
    <2>. QED
      BY <1>5, <1>6, <2>1, <2>2 DEF Keeps
  <1>10. Ends(k, d)
    BY <1>5, <1>6, <1>9 DEF Ends, next
  <1>. QED
    BY <1>1, <1>2, <1>7, <1>8, <1>10, EndsInv DEF IInv

LEMMA ReturnInv ==
  ASSUME IInv, NEW k \in Job, NEW d \in Deposit, Return(k, d)
  PROVE  IInv'
PROOF
  <1>1. TypeOK /\ OutputKept /\ NeverStranded
    BY DEF IInv
  <1>2. TypeOK' /\ OutputKept'
    BY <1>1 DEF TypeOK, OutputKept, Return
  <1>3. Keeps({<<k, d>>})
    BY DEF Return, Keeps
  <1>4. \/ k \in {"DepositFilledDate", "FeeBreakdown"} /\ d \notin filled
        \/ k = "CappedBridgeFee" /\ output[d] = NoToken
    BY DEF Return, NothingToDo
  <1>5. ASSUME NEW e \in announced' PROVE Led(e)'
    <2>1. e \in Deposit /\ Led(e)
      BY <1>1, StrandedParts DEF Return, TypeOK
    <2>2. \A j \in Leading : <<j, e>> \notin {<<k, d>>}
      BY <1>4 DEF Leading
    <2>. QED
      BY <1>3, <2>1, <2>2, KeepsLed
  <1>6. ASSUME NEW e \in filled' PROVE LedFill(e)'
    <2>1. e \in Deposit /\ LedFill(e) /\ e \in filled
      BY <1>1, StrandedParts DEF Return, TypeOK
    <2>2. CASE e = d
      <3>1. k = "CappedBridgeFee" /\ output'[d] = NoToken
        BY <1>4, <2>1, <2>2 DEF Return
      <3>2. ASSUME NEW ks, Coming(ks, d), "CappedBridgeFee" \notin ks PROVE Coming(ks, d)'
        BY <3>1, <3>2 DEF Coming, Return
      <3>3. /\ Coming({"DepositFilledDate"}, d) => Coming({"DepositFilledDate"}, d)'
            /\ Coming({"DepositFilledDate", "TrackFillEvent"}, d)
                  => Coming({"DepositFilledDate", "TrackFillEvent"}, d)'
            /\ Coming({"FeeBreakdown"}, d) => Coming({"FeeBreakdown"}, d)'
            /\ Coming({"FeeBreakdown", "OpRebateReward"}, d)
                  => Coming({"FeeBreakdown", "OpRebateReward"}, d)'
        BY <3>2
      <3>4. columns' = columns /\ handed' = handed
        BY DEF Return
      <3>. QED
        BY <2>1, <2>2, <3>1, <3>3, <3>4 DEF LedFill
    <2>3. CASE e # d
      <3>1. \A j \in Job \cup Elsewhere : <<j, e>> \notin {<<k, d>>}
        BY <2>3
      <3>. QED
        BY <1>3, <2>1, <3>1, KeepsLedFill
    <2>. QED
      BY <2>2, <2>3
  <1>7. NeverStranded'
    BY <1>5, <1>6 DEF NeverStranded, Led, LedFill
  <1>. QED
    BY <1>2, <1>7 DEF IInv

LEMMA MissOutputInv ==
  ASSUME IInv, NEW d \in Deposit, MissOutput(d)
  PROVE  IInv'
PROOF
  <1>1. TypeOK' /\ OutputKept'
    BY EnrichmentAssumption DEF IInv, TypeOK, OutputKept, MissOutput
  <1>2. Keeps({})
    BY DEF MissOutput, Keeps
  <1>. QED
    BY <1>1, <1>2, KeepsInv DEF IInv, MissOutput

LEMMA DieInJobInv ==
  ASSUME IInv, NEW k \in Job, NEW d \in Deposit, NEW n \in 0..3, DieInJob(k, d, n)
  PROVE  IInv'
PROOF
  <1>. DEFINE first == {Awaited(k)[i] : i \in 1..n}
  <1>1. /\ WriteRow(k, d)
        /\ Publish(queued, To(first, d))
        /\ lost' = lost \ To(first, d)
        /\ n \in 0..Len(Awaited(k))
        /\ deaths < MaxDeaths /\ deaths' = deaths + 1
        /\ UNCHANGED <<announced, parts, filled, requests>>
    BY DEF DieInJob
  <1>2. TypeOK /\ OutputKept /\ NeverStranded
    BY DEF IInv
  <1>3. first \in SUBSET (Job \cup Elsewhere)
    BY <1>1, FirstJobs, NextJobsType
  <1>4. queued \in SUBSET Message
    BY <1>2 DEF TypeOK
  <1>. HIDE DEF first
  <1>5. /\ queued' \subseteq Message
        /\ handed' \subseteq Elsewhere \X Deposit
        /\ handed \subseteq handed'
        /\ queued \subseteq queued'
        /\ \A j \in first : /\ j \in Job => <<j, d>> \in queued'
                            /\ j \in Elsewhere => <<j, d>> \in handed'
    BY <1>1, <1>2, <1>3, <1>4, PublishType
  <1>6. /\ columns' \in [Deposit -> SUBSET Column]
        /\ output' \in [Deposit -> Token \cup {ZeroAddress, NoToken}]
        /\ cached' \subseteq Token
        /\ \A e \in Deposit : columns[e] \subseteq columns'[e]
        /\ \A e \in Deposit : output[e] = NoToken => output'[e] = NoToken
    BY <1>1, <1>2, WriteRowKeeps
  <1>7. deaths' \in 0..MaxDeaths
    BY <1>1, <1>2, EnrichmentAssumption DEF TypeOK
  <1>8. TypeOK'
    BY <1>1, <1>2, <1>5, <1>6, <1>7 DEF TypeOK
  <1>9. OutputKept'
    BY <1>2, <1>6 DEF OutputKept
  <1>10. Keeps({})
    <2>1. ASSUME NEW m \in lost, m \notin lost'
          PROVE  m \in queued' \cup handed' /\ (m[1] \in Job => m \in queued')
      <3>1. PICK j \in first : m = <<j, d>>
        BY <1>1, <2>1 DEF To
      <3>. QED
        BY <1>3, <1>5, <3>1
    <2>. QED
      BY <1>5, <1>6, <2>1 DEF Keeps
  <1>. QED
    BY <1>1, <1>2, <1>8, <1>9, <1>10, KeepsInv DEF IInv

LEMMA DieAfterJobInv ==
  ASSUME IInv, NEW k \in Job, NEW d \in Deposit, DieAfterJob(k, d)
  PROVE  IInv'
PROOF
  <1>1. /\ WriteRow(k, d)
        /\ NotAwaited(k) # {}
        /\ queued' = queued \ {<<k, d>>}
        /\ lost' = lost \cup (To(NotAwaited(k), d) \ (queued \cup handed))
        /\ deaths < MaxDeaths /\ deaths' = deaths + 1
        /\ UNCHANGED <<announced, parts, filled, handed, requests>>
    BY DEF DieAfterJob
  <1>2. TypeOK /\ OutputKept /\ NeverStranded
    BY DEF IInv
  <1>3. k \in {"TokenPrice", "DepositFilledDate", "FeeBreakdown"} /\ k \notin NotAwaited(k)
    BY <1>1, NotAwaitedTable
  <1>4. NextJobs(k) = {} /\ NotAwaited(k) \subseteq Job \cup Elsewhere
    BY <1>3, NextJobsAre, NextJobsType
  <1>5. /\ columns' \in [Deposit -> SUBSET Column]
        /\ output' \in [Deposit -> Token \cup {ZeroAddress, NoToken}]
        /\ cached' \subseteq Token
        /\ \A e \in Deposit : columns[e] \subseteq columns'[e]
        /\ WrittenBy(k) \in columns'[d]
        /\ \A e \in Deposit : output[e] = NoToken => output'[e] = NoToken
    BY <1>1, <1>2, WriteRowKeeps
  <1>6. lost' \subseteq (Job \cup Elsewhere) \X Deposit
    BY <1>1, <1>2, <1>4 DEF TypeOK, To
  <1>7. deaths' \in 0..MaxDeaths
    BY <1>1, <1>2, EnrichmentAssumption DEF TypeOK
  <1>8. TypeOK'
    BY <1>1, <1>2, <1>5, <1>6, <1>7 DEF TypeOK
  <1>9. OutputKept'
    BY <1>2, <1>5 DEF OutputKept
  <1>10. Keeps({<<k, d>>})
    BY <1>1, <1>5 DEF Keeps
  <1>11. ASSUME NEW j \in NotAwaited(k)
         PROVE  /\ j \in Job => <<j, d>> \in queued' \/ <<j, d>> \in lost'
                /\ j \in Elsewhere => <<j, d>> \in handed' \/ <<j, d>> \in lost'
    <2>1. <<j, d>> \in To(NotAwaited(k), d) /\ <<j, d>> # <<k, d>>
      BY <1>3 DEF To
    <2>2. j \in Job => <<j, d>> \notin handed
      BY <1>2 DEF TypeOK, Job, Elsewhere
    <2>3. j \in Elsewhere => <<j, d>> \notin queued
      BY <1>2 DEF TypeOK, Message, Job, Elsewhere
    <2>. QED
      BY <1>1, <2>1, <2>2, <2>3
  <1>12. Ends(k, d)
    BY <1>4, <1>5, <1>10, <1>11 DEF Ends
  <1>. QED
    BY <1>1, <1>2, <1>8, <1>9, <1>12, EndsInv DEF IInv

\* The requests of an operator add messages, and so may bring back some that were lost.
LEMMA RequestsInv ==
  ASSUME IInv, NEW new \in SUBSET Message,
         queued' = queued \cup new, lost \ new \subseteq lost', lost' \subseteq lost,
         requests' \in 0..MaxRequests,
         UNCHANGED <<announced, parts, filled, columns, output, cached, handed, deaths>>
  PROVE  IInv'
PROOF
  <1>1. TypeOK' /\ OutputKept'
    BY DEF IInv, TypeOK, OutputKept
  <1>2. Keeps({})
    BY DEF Keeps
  <1>. QED
    BY <1>1, <1>2, KeepsInv DEF IInv

LEMMA OperatorInv ==
  ASSUME IInv,
         RetryIncompleteDeposits \/ BackfillFeeBreakdown \/ BackfillFilledDate \/ FixBridgeFee
  PROVE  IInv'
PROOF
  <1>1. announced \subseteq Deposit /\ filled \subseteq Deposit /\ requests \in 0..MaxRequests
    BY DEF IInv, TypeOK
  <1>2. CASE RetryIncompleteDeposits
    <2>1. {<<"BlockNumber", d>> : d \in Incomplete} \in SUBSET Message
      BY <1>1 DEF Incomplete, Message, Job
    <2>2. requests' \in 0..MaxRequests
      BY <1>1, <1>2, EnrichmentAssumption DEF RetryIncompleteDeposits
    <2>. QED
      BY <1>2, <2>1, <2>2, RequestsInv DEF RetryIncompleteDeposits
  <1>3. CASE BackfillFeeBreakdown
    <2>1. {<<"FeeBreakdown", d>> : d \in NotBroken} \in SUBSET Message
      BY <1>1 DEF NotBroken, Message, Job
    <2>2. requests' \in 0..MaxRequests
      BY <1>1, <1>3, EnrichmentAssumption DEF BackfillFeeBreakdown
    <2>. QED
      BY <1>3, <2>1, <2>2, RequestsInv DEF BackfillFeeBreakdown
  <1>4. CASE BackfillFilledDate
    <2>1. {<<"DepositFilledDate", d>> : d \in NotDated} \in SUBSET Message
      BY <1>1 DEF NotDated, Message, Job
    <2>2. requests' \in 0..MaxRequests
      BY <1>1, <1>4, EnrichmentAssumption DEF BackfillFilledDate
    <2>. QED
      BY <1>4, <2>1, <2>2, RequestsInv DEF BackfillFilledDate
  <1>5. CASE FixBridgeFee
    <2>. DEFINE new == {"CappedBridgeFee", "FeeBreakdown"} \X (Negative \cap filled)
    <2>1. new \in SUBSET Message
      BY <1>1 DEF Message, Job
    <2>2. requests' \in 0..MaxRequests
      BY <1>1, <1>5, EnrichmentAssumption DEF FixBridgeFee
    <2>3. queued' = queued \cup new /\ lost \ new \subseteq lost' /\ lost' \subseteq lost
      BY <1>5 DEF FixBridgeFee
    <2>4. UNCHANGED <<announced, parts, filled, columns, output, cached, handed, deaths>>
      BY <1>5 DEF FixBridgeFee
    <2>. HIDE DEF new
    <2>. QED
      BY <2>1, <2>2, <2>3, <2>4, RequestsInv
  <1>. QED
    BY <1>2, <1>3, <1>4, <1>5

----------------------------------------------------------------------------
LEMMA StepInv == IInv /\ [Next]_vars => IInv'
PROOF
  <1>. SUFFICES ASSUME IInv, [Next]_vars
                PROVE  IInv'
    OBVIOUS
  <1>1. CASE \E d \in Deposit : Announce(d) \/ FillInPart(d)
    BY <1>1, AnnounceInv, FillInPartInv
  <1>2. CASE \E d \in Deposit : \E kept \in SUBSET FillJobs(d) : Fill(d, kept)
    BY <1>2, FillInv
  <1>3. CASE \E k \in Job, d \in Deposit : Deliver(k, d)
    BY <1>3, RunInv, ReturnInv, MissOutputInv DEF Deliver
  <1>4. CASE \E k \in Job, d \in Deposit, n \in 0..3 : DieInJob(k, d, n)
    BY <1>4, DieInJobInv
  <1>5. CASE \E k \in Job, d \in Deposit : DieAfterJob(k, d)
    BY <1>5, DieAfterJobInv
  <1>6. CASE RetryIncompleteDeposits \/ BackfillFeeBreakdown \/ BackfillFilledDate \/ FixBridgeFee
    BY <1>6, OperatorInv
  <1>7. CASE UNCHANGED vars
    <2>1. TypeOK' /\ OutputKept' /\ Keeps({})
      BY <1>7 DEF IInv, TypeOK, OutputKept, Keeps, vars
    <2>. QED
      BY <1>7, <2>1, KeepsInv DEF IInv, vars
  <1>. QED
    BY <1>1, <1>2, <1>3, <1>4, <1>5, <1>6, <1>7 DEF Next

(***************************************************************************)
(* The rows, the queues and the tokens keep their types.                   *)
(***************************************************************************)
THEOREM TypeCorrect == Spec => []TypeOK
PROOF
  <1>1. IInv => TypeOK
    BY DEF IInv
  <1>. QED
    BY <1>1, InitInv, StepInv, PTL DEF Spec

(***************************************************************************)
(* While a column of an announced or a filled deposit is empty, a message  *)
(* that leads to it waits or was lost unawaited, wherever processes die    *)
(* and whatever an operator asks for.                                      *)
(***************************************************************************)
THEOREM ColumnsNeverStranded == Spec => []NeverStranded
PROOF
  <1>1. IInv => NeverStranded
    BY DEF IInv
  <1>. QED
    BY <1>1, InitInv, StepInv, PTL DEF Spec

----------------------------------------------------------------------------
(* Users and their wallets *)

UsersSpec == UsersInit /\ [][UsersNext]_userVars

\* Logins of one Discord id that are both to insert its user have overlapped, and so has one
\* that is to insert a user that is there by now.
LoginsRaced ==
    \A s \in Session : session[s].pc = "create" =>
        /\ \A u \in 1..users : discord[u] = session[s].discord => discord[u] \in raced
        /\ \A t \in Session \ {s} :
              session[t].pc = "create" /\ session[t].discord = session[s].discord
                  => session[s].discord \in raced

UsersInv == UsersTypeOK /\ LoginsRaced /\ OneUserPerDiscord

LEMMA UsersInitInv == UsersInit => UsersInv
  <1> SUFFICES ASSUME UsersInit PROVE UsersInv
    OBVIOUS
  <1>1. users = 0 /\ 1..users = {} /\ \A s \in Session : session[s] = Idle
    BY DEF UsersInit
  <1>2. UsersTypeOK
    BY <1>1, UsersAssumption DEF UsersInit, UsersTypeOK, UsersAssumption
  <1> QED
    BY <1>1, <1>2 DEF UsersInv, LoginsRaced, OneUserPerDiscord, Idle

LEMMA LogInInv ==
    ASSUME UsersInv, NEW s \in Session, NEW i \in Discord, LogIn(s, i)
    PROVE  UsersInv'
  <1> DEFINE login == [pc |-> "create", discord |-> i]
  <1>1. /\ session' = [session EXCEPT ![s] = login]
        /\ session'[s] = login /\ \A t \in Session \ {s} : session'[t] = session[t]
        /\ session[s].pc # "create"
        /\ UNCHANGED <<discord, users, linked>>
    BY DEF LogIn, UsersInv, UsersTypeOK, Idle
  <1>2. raced \subseteq raced' /\ raced' \subseteq Discord /\ ~Known(i)
    BY DEF LogIn, UsersInv, UsersTypeOK
  <1>3. \A t \in Session : session[t].pc = "create" /\ session[t].discord = i => i \in raced'
    BY DEF LogIn, FirstLogins
  <1>4. UsersTypeOK'
    BY <1>1, <1>2 DEF UsersInv, UsersTypeOK, LoginState
  <1>5. LoginsRaced'
    <2> SUFFICES ASSUME NEW t \in Session, session'[t].pc = "create"
                 PROVE  /\ \A u \in 1..users : discord[u] = session'[t].discord
                                                  => discord[u] \in raced'
                        /\ \A r \in Session \ {t} :
                              session'[r].pc = "create"
                              /\ session'[r].discord = session'[t].discord
                                  => session'[t].discord \in raced'
      BY <1>1 DEF LoginsRaced
    <2>1. CASE t = s
      BY <1>1, <1>2, <1>3, <2>1 DEF Known
    <2>2. CASE t # s
      BY <1>1, <1>2, <1>3, <2>2 DEF UsersInv, LoginsRaced
    <2> QED
      BY <2>1, <2>2
  <1>6. OneUserPerDiscord'
    BY <1>1, <1>2 DEF UsersInv, OneUserPerDiscord
  <1> QED
    BY <1>4, <1>5, <1>6 DEF UsersInv

LEMMA CreateUserInv ==
    ASSUME UsersInv, NEW s \in Session, CreateUser(s)
    PROVE  UsersInv'
  <1> DEFINE i == session[s].discord
  <1>1. /\ session[s].pc = "create" /\ i \in Discord
        /\ users \in Nat /\ users' = users + 1 /\ users' \in 0..MaxUser
        /\ session'[s] = Idle /\ \A t \in Session \ {s} : session'[t] = session[t]
        /\ session' = [session EXCEPT ![s] = Idle]
        /\ UNCHANGED <<linked, raced>>
    BY UsersAssumption
       DEF CreateUser, UsersInv, UsersTypeOK, UsersAssumption, LoginState, LinkState, Idle
  <1>2. /\ discord' = [u \in 1..users' |-> IF u = users' THEN i ELSE discord[u]]
        /\ \A u \in 1..users : discord[u] \in Discord /\ discord'[u] = discord[u]
        /\ discord'[users'] = i
        /\ \A u \in 1..users' : u = users' \/ u \in 1..users
    BY <1>1 DEF CreateUser, UsersInv, UsersTypeOK
  <1>3. UsersTypeOK'
    <2>1. discord' \in [1..users' -> Discord]
      BY <1>1, <1>2
    <2> QED
      BY <1>1, <2>1 DEF UsersInv, UsersTypeOK
  <1>4. ASSUME NEW t \in Session \ {s}, session[t].pc = "create", session[t].discord = i
        PROVE  i \in raced
    BY <1>1, <1>4 DEF UsersInv, LoginsRaced
  <1>5. LoginsRaced'
    BY <1>1, <1>2, <1>4 DEF UsersInv, LoginsRaced, Idle
  <1>6. OneUserPerDiscord'
    <2>1. ASSUME NEW u \in 1..users, discord[u] = i PROVE i \in raced
      BY <1>1, <2>1 DEF UsersInv, LoginsRaced
    <2> QED
      BY <1>1, <1>2, <2>1 DEF UsersInv, OneUserPerDiscord
  <1> QED
    BY <1>3, <1>5, <1>6 DEF UsersInv

\* Requests to link leave the users and the logins alone.
LEMMA LinkInv ==
    ASSUME UsersInv, NEW s \in Session,
           (\E u \in User, w \in Wallet : StartLink(s, u, w)) \/ LinkWallet(s)
    PROVE  UsersInv'
  <1>1. UNCHANGED <<discord, users, raced>> /\ session' \in [Session -> {Idle} \cup LinkState
                                                                \cup LoginState("create")]
    BY DEF StartLink, LinkWallet, UsersInv, UsersTypeOK, LinkState, User
  <1>2. \A t \in Session : session'[t].pc = "create" =>
            session'[t] = session[t]
    BY DEF StartLink, LinkWallet, UsersInv, UsersTypeOK, Idle
  <1>3. linked' \in [User -> Wallet \cup {NoWallet}]
    <2>1. CASE LinkWallet(s)
      <3>1. session[s] \in LinkState
        BY <2>1 DEF LinkWallet, UsersInv, UsersTypeOK, LoginState, Idle
      <3>2. session[s].user \in User /\ session[s].wallet \in Wallet
        BY <3>1 DEF LinkState
      <3> QED
        BY <2>1, <3>2 DEF LinkWallet, UsersInv, UsersTypeOK
    <2> QED
      BY <2>1 DEF StartLink, UsersInv, UsersTypeOK
  <1>4. UsersTypeOK'
    BY <1>1, <1>3 DEF UsersInv, UsersTypeOK
  <1>5. LoginsRaced' /\ OneUserPerDiscord'
    BY <1>1, <1>2 DEF UsersInv, LoginsRaced, OneUserPerDiscord
  <1> QED
    BY <1>4, <1>5 DEF UsersInv

LEMMA UsersInductive == UsersSpec => []UsersInv
  <1>1. UsersInv /\ [UsersNext]_userVars => UsersInv'
    <2> SUFFICES ASSUME UsersInv, [UsersNext]_userVars PROVE UsersInv'
      OBVIOUS
    <2>1. CASE UNCHANGED userVars
      BY <2>1 DEF userVars, UsersInv, UsersTypeOK, LoginsRaced, Known, OneUserPerDiscord
    <2>2. CASE UsersNext
      BY <2>2, LogInInv, CreateUserInv, LinkInv DEF UsersNext
    <2> QED
      BY <2>1, <2>2
  <1> QED
    BY <1>1, UsersInitInv, PTL DEF UsersSpec

(***************************************************************************)
(* For any users, wallets and requests under way: a Discord account gets a *)
(* second user only if its first logins overlapped, for the login that     *)
(* finds none inserts one later.                                           *)
(***************************************************************************)
THEOREM UsersUnique == UsersSpec => []OneUserPerDiscord
  <1>1. UsersInv => OneUserPerDiscord
    BY DEF UsersInv
  <1> QED
    BY <1>1, UsersInductive, PTL

(***************************************************************************)
(* No request takes a wallet from the user who has it: the upsert of       *)
(* linkWallet writes only the row of its own user, whatever has been       *)
(* linked since it looked.                                                 *)
(***************************************************************************)
THEOREM WalletsStay == UsersSpec => WalletStays
  <1> DEFINE Stays ==
        \A u \in User : linked[u] # NoWallet /\ linked'[u] # linked[u] =>
            \E s \in Session : session[s].pc = "link" /\ session[s].user = u
  <1>1. UsersInv /\ [UsersNext]_userVars => [Stays]_userVars
    BY DEF UsersInv, UsersTypeOK, UsersNext, LogIn, CreateUser, StartLink, LinkWallet
  <1> QED
    BY <1>1, UsersInductive, PTL DEF UsersSpec, WalletStays

----------------------------------------------------------------------------
(* Reports of crowded queues *)

ReportsSpec == ReportsInit /\ [][ReportsNext]_reportVars

\* A count that goes on has found the queues it has asked that were crowded all along.
CountFinds ==
    /\ count.pc # "idle" =>
        /\ counts # <<>>
        /\ count.at \in 1..Len(Queue)
        /\ count.since \subseteq crowded
        /\ count.since \subseteq counts[Len(counts)].since
    /\ count.pc = "ask" =>
        \A i \in 1..Len(Queue) : i < count.at /\ Queue[i] \in count.since
                                     => Queue[i] \in count.found
    /\ count.pc = "insert" => count.since \subseteq count.found

\* The rows of a run say so of those queues that they are of.
RowsFind ==
    \A i \in 1..Len(counts) : counts[i].since \cap counts[i].rows \subseteq counts[i].crowded

DateFound == report.pc \in {"find", "silent"} => report.date \in 1..Len(counts)

ReportsInv == ReportsTypeOK /\ CountFinds /\ RowsFind /\ DateFound /\ CrowdReported

LEMMA QueueSeq ==
    /\ Len(Queue) \in Nat \ {0} /\ DOMAIN Queue = 1..Len(Queue)
    /\ \A i \in 1..Len(Queue) : Queue[i] \in QueueName
    /\ \A q \in QueueName : \E i \in 1..Len(Queue) : q = Queue[i]
  <1> DEFINE S == {Queue[i] : i \in DOMAIN Queue}
  <1>1. Queue \in Seq(S) /\ Queue # <<>>
    BY QueueReportsAssumption DEF QueueReportsAssumption
  <1> HIDE DEF S
  <1>2. Len(Queue) \in Nat \ {0} /\ DOMAIN Queue = 1..Len(Queue)
    BY <1>1
  <1> QED
    BY <1>2 DEF QueueName

LEMMA ReportsInitInv == ReportsInit => ReportsInv
  <1> SUFFICES ASSUME ReportsInit PROVE ReportsInv
    OBVIOUS
  <1>1. NotCounting \in CountState
    BY QueueSeq DEF NotCounting, CountState
  <1>2. {MaxCounts, MaxReports, MaxErrors} \subseteq Nat
    BY QueueReportsAssumption DEF QueueReportsAssumption
  <1>3. ReportsTypeOK
    BY <1>1, <1>2 DEF ReportsInit, ReportsTypeOK, ReportState
  <1> QED
    BY <1>3 DEF ReportsInit, ReportsInv, CountFinds, RowsFind, DateFound, CrowdReported,
                NotCounting

LEMMA ChangeQueueInv ==
    ASSUME ReportsInv, NEW q \in QueueName, ChangeQueue(q)
    PROVE  ReportsInv'
  <1>1. /\ UNCHANGED <<counts, report, reports, errors>> /\ count \in CountState
        /\ count' = [count EXCEPT !.since = @ \ {q}]
        /\ crowded' = IF q \in crowded THEN crowded \ {q} ELSE crowded \cup {q}
    BY DEF ChangeQueue, ReportsInv, ReportsTypeOK
  <1>2. /\ count' \in CountState /\ count'.since = count.since \ {q}
        /\ count'.pc = count.pc /\ count'.at = count.at /\ count'.found = count.found
    BY <1>1 DEF CountState
  <1>3. ReportsTypeOK'
    BY <1>1, <1>2 DEF ReportsInv, ReportsTypeOK
  <1>4. CountFinds'
    BY <1>1, <1>2 DEF ReportsInv, CountFinds
  <1> QED
    BY <1>1, <1>3, <1>4 DEF ReportsInv, RowsFind, DateFound, CrowdReported

LEMMA StartCountInv ==
    ASSUME ReportsInv, StartCount
    PROVE  ReportsInv'
  <1> DEFINE run == [rows |-> {}, crowded |-> {}, since |-> crowded]
  <1>1. /\ UNCHANGED <<crowded, report, reports, errors>> /\ crowded \subseteq QueueName
        /\ counts \in Seq(RowsOf) /\ counts' = Append(counts, run) /\ run \in RowsOf
        /\ Len(counts) < MaxCounts /\ MaxCounts \in Nat
        /\ count' = [pc |-> "ask", at |-> 1, found |-> {}, since |-> crowded]
    BY QueueReportsAssumption
       DEF StartCount, ReportsInv, ReportsTypeOK, RowsOf, QueueReportsAssumption
  <1> HIDE DEF run
  <1>2. /\ counts' \in Seq(RowsOf) /\ Len(counts') = Len(counts) + 1 /\ Len(counts) \in Nat
        /\ counts'[Len(counts')] = run
        /\ \A i \in 1..Len(counts) : counts'[i] = counts[i]
    BY <1>1
  <1>3. count' \in CountState
    BY <1>1, QueueSeq DEF CountState
  <1>4. ReportsTypeOK'
    BY <1>1, <1>2, <1>3 DEF ReportsInv, ReportsTypeOK
  <1>5. CountFinds'
    BY <1>1, <1>2, QueueSeq DEF CountFinds, run
  <1>6. \A i \in 1..Len(counts') : i \in 1..Len(counts) \/ i = Len(counts')
    BY <1>2
  <1>7. RowsFind'
    BY <1>2, <1>6 DEF ReportsInv, RowsFind, run
  <1>8. DateFound' /\ CrowdReported'
    BY <1>1, <1>2 DEF ReportsInv, DateFound, CrowdReported
  <1> QED
    BY <1>4, <1>5, <1>7, <1>8 DEF ReportsInv

LEMMA AskQueueInv ==
    ASSUME ReportsInv, AskQueue
    PROVE  ReportsInv'
  <1> DEFINE q == Queue[count.at]
  <1>1. /\ UNCHANGED <<crowded, counts, report, reports, errors>> /\ count \in CountState
        /\ count.pc = "ask" /\ count.at \in 1..Len(Queue) /\ q \in QueueName
        /\ crowded \subseteq QueueName /\ Len(Queue) \in Nat
    BY QueueSeq DEF AskQueue, ReportsInv, ReportsTypeOK, CountFinds
  <1>2. /\ count'.found = count.found \cup ({q} \cap crowded)
        /\ count'.since = count.since
        /\ \/ /\ count.at = Len(Queue) /\ count'.at = 1 /\ count'.pc = "insert"
           \/ /\ count.at < Len(Queue) /\ count'.at = count.at + 1 /\ count'.pc = "ask"
    BY <1>1 DEF AskQueue, CountState
  <1>3. count' \in CountState
    <2>1. count'.at \in 1..(Len(Queue) + 1) /\ count'.pc \in {"idle", "ask", "insert"}
      BY <1>1, <1>2
    <2>2. count' = [count EXCEPT !.found = count'.found, !.at = count'.at, !.pc = count'.pc]
      BY <1>1 DEF AskQueue, CountState
    <2>3. count'.found \subseteq QueueName
      BY <1>1, <1>2 DEF CountState
    <2> QED
      BY <1>1, <2>1, <2>2, <2>3 DEF CountState
  <1>4. ReportsTypeOK'
    BY <1>1, <1>2, <1>3 DEF ReportsInv, ReportsTypeOK
  <1>5. \A i \in 1..Len(Queue) : i <= count.at /\ Queue[i] \in count.since
                                     => Queue[i] \in count'.found
    BY <1>1, <1>2 DEF ReportsInv, CountFinds
  <1>6. CountFinds'
    <2>1. count'.at \in 1..Len(Queue)
      BY <1>1, <1>2
    <2>2. CASE count'.pc = "ask"
      BY <1>1, <1>2, <1>5, <2>1, <2>2 DEF ReportsInv, CountFinds
    <2>3. CASE count'.pc = "insert"
      <3>1. count.since \subseteq count'.found
        BY <1>1, <1>2, <1>5, <2>3, QueueSeq DEF CountState
      <3> QED
        BY <1>1, <1>2, <2>1, <2>3, <3>1 DEF ReportsInv, CountFinds
    <2> QED
      BY <1>2, <2>2, <2>3
  <1> QED
    BY <1>1, <1>4, <1>6 DEF ReportsInv, RowsFind, DateFound, CrowdReported

LEMMA InsertCountInv ==
    ASSUME ReportsInv, InsertCount
    PROVE  ReportsInv'
  <1> DEFINE q == Queue[count.at]
             run == Len(counts)
             old == counts[run]
             new == [old EXCEPT !.rows = @ \cup {q}, !.crowded = @ \cup ({q} \cap count.found),
                                !.since = count.since]
  <1>1. /\ UNCHANGED <<crowded, report, reports, errors>> /\ count \in CountState
        /\ count.pc = "insert" /\ count.at \in 1..Len(Queue) /\ q \in QueueName
        /\ counts \in Seq(RowsOf) /\ run \in 1..Len(counts) /\ old \in RowsOf
        /\ count.since \subseteq old.since /\ count.since \subseteq count.found
    BY QueueSeq DEF InsertCount, ReportsInv, ReportsTypeOK, CountFinds
  <1>2. counts' = [counts EXCEPT ![run] = new]
    BY DEF InsertCount
  <1>3. /\ new \in RowsOf /\ new.rows = old.rows \cup {q} /\ new.since = count.since
        /\ new.crowded = old.crowded \cup ({q} \cap count.found)
    BY <1>1 DEF RowsOf, CountState
  <1>4. old.since \cap old.rows \subseteq old.crowded
    BY <1>1 DEF ReportsInv, RowsFind
  <1>5. /\ count' = NotCounting
        \/ /\ count.at < Len(Queue) /\ count' = [count EXCEPT !.at = @ + 1]
    BY <1>1, QueueSeq DEF InsertCount
  <1> HIDE DEF new
  <1>6. /\ counts' \in Seq(RowsOf) /\ Len(counts') = Len(counts) /\ counts'[run] = new
        /\ \A i \in 1..Len(counts) : i # run => counts'[i] = counts[i]
    BY <1>1, <1>2, <1>3
  <1>7. count' \in CountState
    BY <1>1, <1>5, QueueSeq DEF CountState, NotCounting
  <1>8. ReportsTypeOK'
    BY <1>1, <1>6, <1>7 DEF ReportsInv, ReportsTypeOK
  <1>9. CountFinds'
    <2>1. CASE count' = NotCounting
      BY <2>1 DEF CountFinds, NotCounting
    <2>2. CASE count.at < Len(Queue) /\ count' = [count EXCEPT !.at = @ + 1]
      <3>1. /\ count'.pc = "insert" /\ count'.since = count.since
            /\ count'.found = count.found /\ count'.at \in 1..Len(Queue)
        BY <1>1, <2>2, QueueSeq DEF CountState
      <3>2. counts' # <<>>
        BY <1>1, <1>6
      <3> QED
        BY <1>1, <1>3, <1>6, <3>1, <3>2 DEF ReportsInv, CountFinds
    <2> QED
      BY <1>5, <2>1, <2>2
  <1>10. RowsFind'
    BY <1>1, <1>3, <1>4, <1>6 DEF ReportsInv, RowsFind
  <1>11. DateFound'
    BY <1>1, <1>6 DEF ReportsInv, DateFound
  <1>12. CrowdReported'
    BY <1>1, <1>3, <1>6 DEF ReportsInv, CrowdReported, DateFound
  <1> QED
    BY <1>8, <1>9, <1>10, <1>11, <1>12 DEF ReportsInv

LEMMA CountThrowsInv ==
    ASSUME ReportsInv, CountThrows
    PROVE  ReportsInv'
  <1>1. NotCounting \in CountState /\ MaxErrors \in Nat
    BY QueueSeq, QueueReportsAssumption DEF NotCounting, CountState, QueueReportsAssumption
  <1>2. ReportsTypeOK'
    BY <1>1 DEF CountThrows, ReportsInv, ReportsTypeOK
  <1> QED
    BY <1>2 DEF CountThrows, ReportsInv, CountFinds, RowsFind, DateFound, CrowdReported,
                NotCounting

\* A report only reads what the counts have inserted.
LEMMA ReportStepInv ==
    ASSUME ReportsInv, StartReport \/ Report \/ ReportThrows
    PROVE  ReportsInv'
  <1>1. UNCHANGED <<crowded, counts, count>>
    BY DEF StartReport, Report, ReportThrows
  <1>2. /\ report \in ReportState /\ counts \in Seq(RowsOf) /\ Len(counts) \in 0..MaxCounts
        /\ {MaxCounts, MaxReports, MaxErrors} \subseteq Nat
    BY QueueReportsAssumption DEF ReportsInv, ReportsTypeOK, QueueReportsAssumption
  <1>3. reports' \in 0..MaxReports /\ errors' \in 0..MaxErrors
    BY <1>2 DEF StartReport, Report, ReportThrows, ReportsInv, ReportsTypeOK
  <1>4. report' \in ReportState /\ DateFound' /\ CrowdReported'
    <2>1. CASE Report
      <3>1. report.date \in 1..Len(counts) /\ counts[report.date] \in RowsOf
        BY <1>2, <2>1 DEF Report, ReportsInv, DateFound
      <3>2. counts[report.date].since \cap counts[report.date].rows
               \subseteq counts[report.date].crowded
        BY <3>1 DEF ReportsInv, RowsFind
      <3>3. /\ report' \in ReportState /\ report'.date = report.date
            /\ report'.pc = IF counts[report.date].crowded = {} THEN "silent" ELSE "posted"
            /\ report'.rows = counts[report.date].rows
        BY <1>2, <2>1, <3>1 DEF Report, ReportState, RowsOf
      <3> QED
        BY <1>1, <3>1, <3>2, <3>3 DEF DateFound, CrowdReported
    <2>2. CASE StartReport
      <3> DEFINE dates == {i \in DOMAIN counts : counts[i].rows # {}}
                 latest == CHOOSE i \in dates : \A j \in dates : j <= i
      <3>1. dates \subseteq 1..Len(counts) /\ dates # {}
        BY <1>2, <2>2 DEF StartReport
      <3>2. \E i \in dates : \A j \in dates : j <= i
        <4>1. Len(counts) \in Nat
          BY <1>2
        <4> HIDE DEF dates
        <4> QED
          BY <3>1, <4>1, LastExists
      <3>3. latest \in dates
        BY <3>2
      <3>4. report' = [pc |-> "find", date |-> latest, rows |-> {}, seen |-> {}]
        BY <2>2 DEF StartReport
      <3>5. latest \in 1..Len(counts) /\ latest \in 0..MaxCounts
        BY <1>2, <3>1, <3>3
      <3> HIDE DEF latest
      <3> QED
        BY <1>1, <3>4, <3>5 DEF ReportState, DateFound, CrowdReported
    <2>3. CASE ReportThrows
      BY <1>2, <2>3 DEF ReportThrows, ReportState, DateFound, CrowdReported
    <2> QED
      BY <2>1, <2>2, <2>3
  <1> QED
    BY <1>1, <1>3, <1>4 DEF ReportsInv, ReportsTypeOK, CountFinds, RowsFind

LEMMA ReportsInductive == ReportsSpec => []ReportsInv
  <1>1. ReportsInv /\ [ReportsNext]_reportVars => ReportsInv'
    <2> SUFFICES ASSUME ReportsInv, [ReportsNext]_reportVars PROVE ReportsInv'
      OBVIOUS
    <2>1. CASE UNCHANGED reportVars
      BY <2>1 DEF reportVars, ReportsInv, ReportsTypeOK, CountFinds, RowsFind, DateFound,
                  CrowdReported
    <2>2. CASE ReportsNext
      BY <2>2, ChangeQueueInv, StartCountInv, AskQueueInv, InsertCountInv, CountThrowsInv,
         ReportStepInv DEF ReportsNext
    <2> QED
      BY <2>1, <2>2
  <1> QED
    BY <1>1, ReportsInitInv, PTL DEF ReportsSpec

(***************************************************************************)
(* For any queues, and however the two crons of two processes interleave,  *)
(* fail or find rows half inserted: a report that posts nothing has        *)
(* overlooked no queue whose row it read and that was crowded all through  *)
(* its count.                                                              *)
(***************************************************************************)
THEOREM CrowdedReported == ReportsSpec => []CrowdReported
  <1>1. ReportsInv => CrowdReported
    BY DEF ReportsInv
  <1> QED
    BY <1>1, ReportsInductive, PTL

----------------------------------------------------------------------------
(* Sticky referrals *)

StickySpec == StickyInit /\ [][StickyNext]_stickyVars

\* A referral is written once, to what the transaction has, of a deposit that has a date.
ReferralsExtracted ==
    \A d \in Deposit : referral[d] # NoOne => referral[d] = Extracted(d) /\ d \in dated

\* What a worker knows of its deposit: its referral, or, later on, that it has none, and the
\* latest one before it, unless another has been written since.
WorkersKnow ==
    \A w \in Worker :
        LET d == worker[w].deposit
        IN  IF worker[w].pc = "idle" THEN worker[w] = IdleWorker
            ELSE /\ d \in dated
                 /\ worker[w].pc = "read" => worker[w].address = Extracted(d)
                 /\ worker[w].pc # "read" => Extracted(d) = NoOne
                 /\ worker[w].pc = "found" /\ ~worker[w].late
                        => worker[w].address = LatestReferral(d)
                 /\ worker[w].late => worker[w].pc = "found" /\ Referring(d) # {}

MissedHasReferral == \A d \in missed : Referring(d) # {}

StickyInv ==
    StickyTypeOK /\ ReferralsExtracted /\ WorkersKnow /\ MissedHasReferral /\ StickyRight

LEMMA StickyConstants ==
    /\ \A d \in Deposit : Date[d] \in Nat /\ Extracted(d) \in Account \cup {NoOne}
    /\ \A d, e \in Deposit : Date[d] = Date[e] => d = e
    /\ MaxCrashes \in Nat
  BY StickyAssumption DEF StickyAssumption, Extracted

LEMMA LatestExists ==
    ASSUME dated \subseteq Deposit, NEW d, Referring(d) # {}
    PROVE  \E e \in Referring(d) : /\ \A f \in Referring(d) : Date[f] <= Date[e]
                                   /\ LatestReferral(d) = referral[e]
  <1>1. Referring(d) \subseteq dated /\ IsFiniteSet(Referring(d))
    BY DepositAssumption, FS_Subset DEF DepositAssumption, Referring
  <1>2. \A e \in Referring(d) : Date[e] \in Int
    BY <1>1, StickyConstants
  <1>3. \E e \in Referring(d) : \A f \in Referring(d) : Date[f] <= Date[e]
    BY <1>1, <1>2, GreatestExists
  <1> QED
    BY <1>3 DEF LatestReferral

\* The latest is the deposit itself, if it has a referral.
LEMMA OwnIsLatest ==
    dated \subseteq Deposit =>
        \A d \in dated : referral[d] # NoOne => LatestReferral(d) = referral[d]
  <1> SUFFICES ASSUME dated \subseteq Deposit, NEW d \in dated, referral[d] # NoOne
               PROVE  LatestReferral(d) = referral[d]
    OBVIOUS
  <1>1. d \in Referring(d)
    BY StickyConstants DEF Referring
  <1>2. PICK e \in Referring(d) : /\ \A f \in Referring(d) : Date[f] <= Date[e]
                                  /\ LatestReferral(d) = referral[e]
    BY <1>1, LatestExists
  <1>3. Date[d] <= Date[e] /\ Date[e] <= Date[d] /\ e \in Deposit
    BY <1>1, <1>2 DEF Referring
  <1>4. e = d
    BY <1>3, StickyConstants
  <1> QED
    BY <1>2, <1>4

LEMMA OwnIsLatestNext ==
    (dated \subseteq Deposit =>
        \A d \in dated : referral[d] # NoOne => LatestReferral(d) = referral[d])'
  BY OwnIsLatest, PTL

LEMMA LatestStays ==
    ASSUME dated \subseteq Deposit, NEW d,
           Referring(d)' = Referring(d), \A e \in Referring(d) : referral'[e] = referral[e]
    PROVE  LatestReferral(d)' = LatestReferral(d)
  <1> DEFINE latest == CHOOSE e \in Referring(d) : \A f \in Referring(d) : Date[f] <= Date[e]
  <1>1. CASE Referring(d) = {}
    BY <1>1 DEF LatestReferral
  <1>2. CASE Referring(d) # {}
    <2>1. latest \in Referring(d)
      BY <1>2, LatestExists
    <2> QED
      BY <1>2, <2>1 DEF LatestReferral
  <1> QED
    BY <1>1, <1>2

LEMMA StickyInitInv == StickyInit => StickyInv
  <1> SUFFICES ASSUME StickyInit PROVE StickyInv
    OBVIOUS
  <1>1. StickyTypeOK
    BY StickyConstants DEF StickyInit, StickyTypeOK, IdleWorker, WorkerState
  <1> QED
    BY <1>1 DEF StickyInit, StickyInv, ReferralsExtracted, WorkersKnow, MissedHasReferral,
                StickyRight, IdleWorker

\* A step that writes no referral and at most dates a deposit finds the same latest ones.
LEMMA SameReferrals ==
    ASSUME StickyInv, UNCHANGED referral, dated \subseteq dated', dated' \subseteq Deposit
    PROVE  /\ ReferralsExtracted'
           /\ \A d : Referring(d)' = Referring(d) /\ LatestReferral(d)' = LatestReferral(d)
  <1>1. ReferralsExtracted'
    BY DEF StickyInv, ReferralsExtracted, Extracted
  <1>2. ASSUME NEW d PROVE Referring(d)' = Referring(d)
    BY DEF StickyInv, ReferralsExtracted, Referring
  <1>3. ASSUME NEW d PROVE LatestReferral(d)' = LatestReferral(d)
    BY <1>2, LatestStays DEF StickyInv, StickyTypeOK
  <1> QED
    BY <1>1, <1>2, <1>3

LEMMA DateDepositInv ==
    ASSUME StickyInv, NEW d \in Deposit, DateDeposit(d)
    PROVE  StickyInv'
  <1>1. /\ dated' = dated \cup {d} /\ UNCHANGED <<referral, sticky, worker, crashes, missed>>
        /\ queue' \in [Deposit -> Nat] /\ queue'[d] > 0
        /\ \A e \in Deposit \ {d} : queue'[e] = queue[e]
    BY DEF DateDeposit, StickyInv, StickyTypeOK
  <1>2. StickyTypeOK'
    BY <1>1 DEF StickyInv, StickyTypeOK
  <1>3. /\ ReferralsExtracted'
        /\ \A e : Referring(e)' = Referring(e) /\ LatestReferral(e)' = LatestReferral(e)
    BY <1>1, <1>2, SameReferrals DEF StickyTypeOK
  <1>4. WorkersKnow' /\ MissedHasReferral'
    BY <1>1, <1>3 DEF StickyInv, WorkersKnow, MissedHasReferral, Extracted
  <1>5. StickyRight'
    BY <1>1, <1>2, <1>3 DEF StickyInv, StickyTypeOK, StickyRight
  <1> QED
    BY <1>2, <1>3, <1>4, <1>5 DEF StickyInv

\* A worker that takes a deposit, looks back or fails writes no column.
LEMMA WorkerOnlyInv ==
    ASSUME StickyInv, NEW w \in Worker,
           (\E d \in Deposit : TakeReferral(w, d)) \/ LookBack(w) \/ CrashReferral(w)
    PROVE  StickyInv'
  <1>1. UNCHANGED <<dated, referral, sticky, missed>>
    BY DEF TakeReferral, LookBack, CrashReferral
  <1>2. /\ dated \subseteq Deposit /\ queue \in [Deposit -> Nat]
        /\ worker \in [Worker -> WorkerState]
        /\ crashes \in 0..MaxCrashes /\ MaxCrashes \in Nat
        /\ worker[w].pc # "idle" => worker[w].deposit \in dated
    BY StickyConstants DEF StickyInv, StickyTypeOK, WorkersKnow
  <1>3. /\ ReferralsExtracted'
        /\ \A e : Referring(e)' = Referring(e) /\ LatestReferral(e)' = LatestReferral(e)
    BY <1>1, <1>2, SameReferrals
  <1>4. ASSUME NEW d \in Deposit, TakeReferral(w, d)
        PROVE  StickyTypeOK' /\ WorkersKnow' /\ StickyRight'
    <2>1. queue' \in [Deposit -> Nat] /\ \A e \in Deposit \ {d} : queue'[e] = queue[e]
      <3>1. queue' = [queue EXCEPT ![d] = queue[d] - 1] /\ queue[d] > 0
        BY <1>4 DEF TakeReferral
      <3> QED
        BY <1>2, <3>1
    <2>2. /\ worker' = [worker EXCEPT ![w] = [IdleWorker EXCEPT !.pc = "read", !.deposit = d,
                                                               !.address = Extracted(d)]]
          /\ crashes' = crashes /\ d \in dated /\ worker[w].pc = "idle"
      BY <1>4 DEF TakeReferral
    <2>3. /\ worker' \in [Worker -> WorkerState]
          /\ worker'[w].pc = "read" /\ worker'[w].deposit = d /\ ~worker'[w].late
          /\ worker'[w].address = Extracted(d)
          /\ \A x \in Worker \ {w} : worker'[x] = worker[x]
      BY <1>2, <2>2, StickyConstants DEF IdleWorker, WorkerState
    <2>4. StickyTypeOK'
      BY <1>1, <2>1, <2>2, <2>3 DEF StickyInv, StickyTypeOK
    <2>5. WorkersKnow'
      BY <1>1, <1>3, <2>2, <2>3 DEF StickyInv, WorkersKnow, Extracted
    <2>6. worker[w].deposit \notin Deposit
      BY <2>2, StickyAssumption DEF StickyInv, WorkersKnow, IdleWorker, StickyAssumption
    <2>7. StickyRight'
      BY <1>1, <1>2, <1>3, <2>1, <2>3, <2>6 DEF StickyInv, StickyRight
    <2> QED
      BY <2>4, <2>5, <2>7
  <1>5. ASSUME LookBack(w) PROVE StickyTypeOK' /\ WorkersKnow' /\ StickyRight'
    <2> DEFINE d == worker[w].deposit
    <2>1. d \in Deposit /\ d \in dated /\ LatestReferral(d) \in Account \cup {NoOne}
      <3>1. d \in dated
        BY <1>2, <1>5 DEF LookBack
      <3>2. CASE Referring(d) = {}
        BY <1>2, <3>1, <3>2 DEF LatestReferral
      <3>3. CASE Referring(d) # {}
        BY <1>2, <3>1, <3>3, LatestExists DEF Referring, StickyInv, StickyTypeOK
      <3> QED
        BY <1>2, <3>1, <3>2, <3>3
    <2>2. /\ worker' = [worker EXCEPT ![w].pc = "found", ![w].address = LatestReferral(d)]
          /\ UNCHANGED <<queue, crashes>> /\ worker[w].pc = "looking"
      BY <1>5 DEF LookBack
    <2>3. /\ worker' \in [Worker -> WorkerState]
          /\ worker'[w].pc = "found" /\ worker'[w].deposit = d
          /\ worker'[w].late = worker[w].late /\ worker'[w].address = LatestReferral(d)
          /\ \A x \in Worker \ {w} : worker'[x] = worker[x]
      <3>1. /\ worker[w] \in WorkerState
            /\ worker'[w] = [worker[w] EXCEPT !.pc = "found", !.address = LatestReferral(d)]
            /\ worker' = [worker EXCEPT ![w] = worker'[w]]
        BY <1>2, <2>2
      <3> HIDE DEF d
      <3>2. /\ worker'[w] \in WorkerState /\ worker'[w].deposit = worker[w].deposit
            /\ worker'[w].pc = "found" /\ worker'[w].late = worker[w].late
            /\ worker'[w].address = LatestReferral(d)
        BY <2>1, <3>1 DEF WorkerState
      <3> QED
        BY <1>2, <3>1, <3>2 DEF d
    <2>4. StickyTypeOK'
      BY <1>1, <2>2, <2>3 DEF StickyInv, StickyTypeOK
    <2>5. WorkersKnow'
      BY <1>1, <1>3, <2>1, <2>2, <2>3 DEF StickyInv, WorkersKnow, Extracted
    <2>6. StickyRight'
      BY <1>1, <1>2, <1>3, <2>2, <2>3 DEF StickyInv, StickyRight
    <2> QED
      BY <2>4, <2>5, <2>6
  <1>6. ASSUME CrashReferral(w) PROVE StickyTypeOK' /\ WorkersKnow' /\ StickyRight'
    <2> DEFINE d == worker[w].deposit
    <2>1. /\ d \in Deposit /\ queue' = [queue EXCEPT ![d] = queue[d] + 1]
          /\ worker' = [worker EXCEPT ![w] = IdleWorker] /\ crashes' = crashes + 1
          /\ crashes < MaxCrashes
      BY <1>2, <1>6 DEF CrashReferral
    <2>2. /\ queue' \in [Deposit -> Nat] /\ queue'[d] > 0
          /\ \A e \in Deposit \ {d} : queue'[e] = queue[e]
      <3> HIDE DEF d
      <3> QED
        BY <1>2, <2>1
    <2>3. /\ worker' \in [Worker -> WorkerState] /\ worker'[w] = IdleWorker
          /\ \A x \in Worker \ {w} : worker'[x] = worker[x]
      BY <1>2, <2>1 DEF IdleWorker, WorkerState
    <2>4. StickyTypeOK'
      BY <1>1, <1>2, <2>1, <2>2, <2>3 DEF StickyInv, StickyTypeOK
    <2>5. WorkersKnow'
      BY <1>1, <1>3, <2>3 DEF StickyInv, WorkersKnow, Extracted, IdleWorker
    <2>6. StickyRight'
      BY <1>1, <1>2, <1>3, <2>2, <2>3 DEF StickyInv, StickyRight
    <2> QED
      BY <2>4, <2>5, <2>6
  <1>7. MissedHasReferral'
    BY <1>1, <1>3 DEF StickyInv, MissedHasReferral
  <1> QED
    BY <1>3, <1>4, <1>5, <1>6, <1>7 DEF StickyInv

\* A referral that is written anew is found by the later deposits of its depositor, who have
\* now missed one, unless they have referrals of their own.
LEMMA WriteReferralInv ==
    ASSUME StickyInv, NEW w \in Worker, WriteReferral(w)
    PROVE  StickyInv'
  <1> DEFINE d == worker[w].deposit
             address == worker[w].address
             overtaken == IF referral[d] = address THEN {} ELSE LaterDeposits(d)
  <1>1. /\ worker[w].pc = "read" /\ d \in Deposit /\ d \in dated /\ dated \subseteq Deposit
        /\ address = Extracted(d) /\ address \in Account \cup {NoOne} /\ ~worker[w].late
    <2>1. /\ worker[w].pc = "read" /\ worker[w] \in WorkerState /\ d \in dated
          /\ dated \subseteq Deposit /\ address = Extracted(d) /\ worker[w].late \in BOOLEAN
      BY DEF WriteReferral, StickyInv, StickyTypeOK, WorkersKnow, WorkerState
    <2>2. worker[w].late => FALSE
      BY <2>1 DEF StickyInv, WorkersKnow
    <2> QED
      BY <2>1, <2>2, StickyConstants
  <1>2. /\ referral' = [referral EXCEPT ![d] = address]
        /\ sticky' = [sticky EXCEPT ![d] = address]
        /\ missed' = missed \cup overtaken
        /\ UNCHANGED <<dated, queue, crashes>>
    BY DEF WriteReferral
  <1>3. /\ worker' \in [Worker -> WorkerState]
        /\ address # NoOne => worker'[w] = IdleWorker
        /\ address = NoOne =>
              worker'[w].pc = "looking" /\ worker'[w].deposit = d /\ ~worker'[w].late
        /\ \A x \in Worker \ {w} :
              /\ worker'[x].pc = worker[x].pc /\ worker'[x].deposit = worker[x].deposit
              /\ worker'[x].address = worker[x].address
              /\ worker'[x].late = \/ worker[x].late
                                   \/ worker[x].pc = "found" /\ worker[x].deposit \in overtaken
              /\ worker[x] = IdleWorker => worker'[x] = IdleWorker
    <2>1. worker \in [Worker -> WorkerState]
      BY DEF StickyInv, StickyTypeOK
    <2>2. /\ worker'[w] = IF address # NoOne THEN IdleWorker
                          ELSE [worker[w] EXCEPT !.pc = "looking"]
          /\ \A x \in Worker \ {w} :
                worker'[x] = [worker[x] EXCEPT !.late =
                    @ \/ (worker[x].pc = "found" /\ worker[x].deposit \in overtaken)]
          /\ worker' = [x \in Worker |-> worker'[x]]
      BY DEF WriteReferral
    <2> HIDE DEF address, overtaken
    <2>3. /\ worker'[w] \in WorkerState
          /\ address # NoOne => worker'[w] = IdleWorker
          /\ address = NoOne =>
                worker'[w].pc = "looking" /\ worker'[w].deposit = d /\ ~worker'[w].late
      BY <1>1, <2>1, <2>2 DEF IdleWorker, WorkerState
    <2>4. ASSUME NEW x \in Worker \ {w}
          PROVE  /\ worker'[x] \in WorkerState
                 /\ worker'[x].pc = worker[x].pc /\ worker'[x].deposit = worker[x].deposit
                 /\ worker'[x].address = worker[x].address
                 /\ worker'[x].late = \/ worker[x].late
                                      \/ /\ worker[x].pc = "found"
                                         /\ worker[x].deposit \in overtaken
                 /\ worker[x] = IdleWorker => worker'[x] = IdleWorker
      <3> DEFINE late == \/ worker[x].late
                         \/ worker[x].pc = "found" /\ worker[x].deposit \in overtaken
      <3>1. worker[x] \in WorkerState /\ late \in BOOLEAN
        BY <2>1 DEF WorkerState
      <3>2. worker'[x] = [worker[x] EXCEPT !.late = late]
        BY <2>2
      <3>3. worker[x] = IdleWorker => late = FALSE
        BY DEF IdleWorker
      <3> HIDE DEF late
      <3>4. /\ worker'[x] \in WorkerState
            /\ worker'[x].pc = worker[x].pc /\ worker'[x].deposit = worker[x].deposit
            /\ worker'[x].address = worker[x].address /\ worker'[x].late = late
        BY <3>1, <3>2 DEF WorkerState
      <3>5. worker[x] = IdleWorker => worker'[x] = IdleWorker
        <4> SUFFICES ASSUME worker[x] = IdleWorker PROVE worker'[x] = IdleWorker
          OBVIOUS
        <4>1. worker'[x] = [IdleWorker EXCEPT !.late = FALSE]
          BY <3>2, <3>3
        <4> QED
          BY <4>1 DEF IdleWorker
      <3> QED
        BY <3>4, <3>5 DEF late
    <2> QED
      BY <2>2, <2>3, <2>4
  <1> HIDE DEF d, address, overtaken
  <1>4. /\ referral \in [Deposit -> Account \cup {NoOne}] /\ referral'[d] = address
        /\ \A e \in Deposit \ {d} : referral'[e] = referral[e]
        /\ sticky \in [Deposit -> Account \cup {NoOne}] /\ sticky'[d] = address
        /\ \A e \in Deposit \ {d} : sticky'[e] = sticky[e]
    BY <1>1, <1>2 DEF StickyInv, StickyTypeOK
  <1>5. overtaken \subseteq Deposit /\ StickyTypeOK'
    BY <1>1, <1>2, <1>3 DEF StickyInv, StickyTypeOK, overtaken, LaterDeposits
  <1>6. ReferralsExtracted'
    BY <1>1, <1>2, <1>4 DEF StickyInv, ReferralsExtracted, Extracted
  <1>7. referral[d] = NoOne \/ referral[d] = address
    BY <1>1 DEF StickyInv, ReferralsExtracted
  <1>8. address = NoOne => referral' = referral /\ overtaken = {}
    BY <1>1, <1>2, <1>4, <1>7 DEF overtaken
  \* The look back of the others is as it was, and that of those overtaken finds d.
  <1>9. ASSUME NEW e \in Deposit, e # d, e \notin overtaken
        PROVE  Referring(e)' = Referring(e) /\ LatestReferral(e)' = LatestReferral(e)
    <2>1. Referring(e)' = Referring(e) /\ \A f \in Referring(e) : referral'[f] = referral[f]
      <3>1. CASE referral[d] = address
        BY <1>1, <1>2, <1>4, <3>1 DEF Referring
      <3>2. CASE referral[d] # address
        <4>1. Depositor[e] # Depositor[d] \/ ~(Date[e] > Date[d])
          BY <1>9, <3>2 DEF overtaken, LaterDeposits
        <4>2. Depositor[d] # Depositor[e] \/ ~(Date[d] <= Date[e])
          BY <1>1, <1>9, <4>1, StickyConstants
        <4> QED
          BY <1>1, <1>2, <1>4, <4>2 DEF Referring
      <3> QED
        BY <3>1, <3>2
    <2> QED
      BY <1>1, <2>1, LatestStays
  <1>10. \A e \in overtaken : e # d /\ d \in Referring(e)'
    BY <1>1, <1>2, <1>4, <1>7, StickyConstants DEF overtaken, LaterDeposits, Referring
  <1>11. \A e : Referring(e) # {} => Referring(e)' # {}
    BY <1>1, <1>2, <1>4, <1>7 DEF Referring
  <1>12. \A e \in dated : referral'[e] # NoOne => LatestReferral(e)' = referral'[e]
    BY <1>1, <1>2, OwnIsLatestNext
  <1>13. WorkersKnow'
    <2> SUFFICES ASSUME NEW x \in Worker, NEW e, e = worker'[x].deposit,
                        worker'[x].pc # "idle"
                 PROVE  /\ e \in dated
                        /\ worker'[x].pc = "read" => worker'[x].address = Extracted(e)
                        /\ worker'[x].pc # "read" => Extracted(e) = NoOne
                        /\ worker'[x].pc = "found" /\ ~worker'[x].late =>
                               worker'[x].address = LatestReferral(e)'
                        /\ worker'[x].late => worker'[x].pc = "found" /\ Referring(e)' # {}
      <3>1. \A x \in Worker : worker'[x].pc = "idle" => worker'[x] = IdleWorker
        BY <1>3 DEF StickyInv, WorkersKnow
      <3>2. \A e : Extracted(e)' = Extracted(e)
        BY DEF Extracted
      <3> QED
        BY <1>2, <3>1, <3>2 DEF WorkersKnow
    <2>1. CASE x = w
      BY <1>1, <1>3, <2>1 DEF IdleWorker
    <2>2. CASE x # w
      <3>1. /\ worker'[x].pc = worker[x].pc /\ e = worker[x].deposit
            /\ worker'[x].address = worker[x].address
            /\ worker'[x].late = \/ worker[x].late
                                 \/ worker[x].pc = "found" /\ worker[x].deposit \in overtaken
        BY <1>3, <2>2
      <3>2. /\ e \in dated /\ e \in Deposit
            /\ worker[x].pc = "read" => worker[x].address = Extracted(e)
            /\ worker[x].pc # "read" => Extracted(e) = NoOne
            /\ worker[x].pc = "found" /\ ~worker[x].late => worker[x].address = LatestReferral(e)
            /\ worker[x].late => worker[x].pc = "found" /\ Referring(e) # {}
        BY <1>1, <3>1 DEF StickyInv, WorkersKnow
      <3>3. ~worker'[x].late /\ worker'[x].pc = "found" => LatestReferral(e)' = LatestReferral(e)
        <4>1. CASE e = d
          <5>1. worker'[x].pc = "found" => address = NoOne
            BY <1>1, <3>1, <3>2, <4>1
          <5>2. address = NoOne => Referring(e)' = Referring(e)
                                   /\ \A f \in Referring(e) : referral'[f] = referral[f]
            BY <1>2, <1>8 DEF Referring
          <5> QED
            BY <1>1, <5>1, <5>2, LatestStays
        <4>2. CASE e # d
          BY <1>9, <3>1, <3>2, <4>2
        <4> QED
          BY <4>1, <4>2
      <3> QED
        BY <1>10, <1>11, <3>1, <3>2, <3>3
    <2> QED
      BY <2>1, <2>2
  <1>14. MissedHasReferral'
    BY <1>2, <1>10, <1>11 DEF StickyInv, MissedHasReferral
  <1>15. StickyRight'
    <2> SUFFICES ASSUME NEW e \in dated, ~(queue[e] > 0),
                        \A x \in Worker : worker'[x].deposit # e
                 PROVE  \/ sticky'[e] = LatestReferral(e)'
                        \/ e \in missed' /\ referral'[e] = NoOne
      BY <1>2 DEF StickyRight
    <2>1. CASE e = d
      BY <1>1, <1>3, <1>4, <1>12, <2>1
    <2>2. CASE e # d /\ e \notin overtaken
      <3>1. \A x \in Worker : worker[x].deposit # e
        BY <1>3, <2>2 DEF d
      <3> QED
        BY <1>1, <1>2, <1>4, <1>9, <2>2, <3>1 DEF StickyInv, StickyRight
    <2>3. CASE e # d /\ e \in overtaken
      <3>1. \A x \in Worker : worker[x].deposit # e
        BY <1>3, <2>3 DEF d
      <3>2. CASE referral[e] = NoOne
        BY <1>1, <1>2, <1>4, <2>3, <3>2
      <3>3. CASE referral[e] # NoOne
        <4>1. sticky[e] = LatestReferral(e) /\ LatestReferral(e) = referral[e]
          BY <1>1, <3>1, <3>3, OwnIsLatest DEF StickyInv, StickyRight
        <4> QED
          BY <1>1, <1>4, <1>12, <2>3, <3>3, <4>1
      <3> QED
        BY <3>2, <3>3
    <2> QED
      BY <2>1, <2>2, <2>3
  <1> QED
    BY <1>5, <1>6, <1>13, <1>14, <1>15 DEF StickyInv

\* A worker that has looked back writes what it found, of a deposit without a referral.
LEMMA WriteStickyInv ==
    ASSUME StickyInv, NEW w \in Worker, WriteSticky(w)
    PROVE  StickyInv'
  <1> DEFINE d == worker[w].deposit
             address == worker[w].address
  <1>1. /\ worker[w].pc = "found" /\ d \in dated /\ dated \subseteq Deposit
        /\ worker[w] \in WorkerState /\ address \in Account \cup {NoOne}
        /\ Extracted(d) = NoOne /\ referral[d] = NoOne
        /\ worker \in [Worker -> WorkerState] /\ missed \subseteq Deposit
        /\ referral \in [Deposit -> Account \cup {NoOne}]
        /\ sticky \in [Deposit -> Account \cup {NoOne}]
    BY DEF WriteSticky, StickyInv, StickyTypeOK, WorkersKnow, ReferralsExtracted, WorkerState
  <1>2. /\ IF worker[w].late THEN Referring(d) # {} ELSE address = LatestReferral(d)
        /\ worker[w].late => missed' = missed \cup {d}
        /\ ~worker[w].late => missed' = missed \ {d}
    BY <1>1 DEF WriteSticky, StickyInv, WorkersKnow
  <1>3. /\ referral' = referral /\ UNCHANGED <<dated, queue, crashes>>
        /\ sticky' = [sticky EXCEPT ![d] = address]
        /\ worker' = [worker EXCEPT ![w] = IdleWorker]
    BY <1>1 DEF WriteSticky
  <1> HIDE DEF d, address
  <1>4. /\ worker' \in [Worker -> WorkerState] /\ worker'[w] = IdleWorker
        /\ \A x \in Worker \ {w} : worker'[x] = worker[x]
        /\ sticky' \in [Deposit -> Account \cup {NoOne}] /\ sticky'[d] = address
        /\ \A e \in Deposit \ {d} : sticky'[e] = sticky[e]
    BY <1>1, <1>3 DEF IdleWorker, WorkerState
  <1>5. StickyTypeOK'
    BY <1>1, <1>2, <1>3, <1>4 DEF StickyInv, StickyTypeOK
  <1>6. /\ ReferralsExtracted'
        /\ \A e : Referring(e)' = Referring(e) /\ LatestReferral(e)' = LatestReferral(e)
    BY <1>1, <1>3, SameReferrals
  <1>7. WorkersKnow'
    BY <1>3, <1>4, <1>6 DEF StickyInv, WorkersKnow, Extracted, IdleWorker
  <1>8. MissedHasReferral'
    BY <1>2, <1>6 DEF StickyInv, MissedHasReferral
  <1>9. StickyRight'
    BY <1>1, <1>2, <1>3, <1>4, <1>6 DEF StickyInv, StickyRight, d
  <1> QED
    BY <1>5, <1>6, <1>7, <1>8, <1>9 DEF StickyInv

\* The cron repairs all that has been missed, as what was missed is there.
LEMMA UpdateStickyInv ==
    ASSUME StickyInv, UpdateSticky
    PROVE  StickyInv'
  <1>1. /\ UNCHANGED <<dated, referral, queue, worker, crashes>> /\ missed' = {}
        /\ \A d \in Deposit : sticky'[d] = IF d \in dated /\ Referring(d) # {}
                                           THEN LatestReferral(d) ELSE sticky[d]
        /\ sticky' = [d \in Deposit |-> sticky'[d]]
        /\ dated \subseteq Deposit
    BY DEF UpdateSticky, StickyInv, StickyTypeOK
  <1>2. /\ ReferralsExtracted'
        /\ \A e : Referring(e)' = Referring(e) /\ LatestReferral(e)' = LatestReferral(e)
    BY <1>1, SameReferrals
  <1>3. ASSUME NEW d \in Deposit PROVE sticky'[d] \in Account \cup {NoOne}
    <2>1. CASE d \in dated /\ Referring(d) # {}
      BY <1>1, <2>1, LatestExists DEF Referring, StickyInv, StickyTypeOK
    <2>2. CASE ~(d \in dated /\ Referring(d) # {})
      BY <1>1, <2>2 DEF StickyInv, StickyTypeOK
    <2> QED
      BY <2>1, <2>2
  <1>4. StickyTypeOK'
    BY <1>1, <1>3 DEF StickyInv, StickyTypeOK
  <1>5. WorkersKnow' /\ MissedHasReferral'
    BY <1>1, <1>2 DEF StickyInv, WorkersKnow, MissedHasReferral, Extracted
  <1>6. StickyRight'
    BY <1>1, <1>2 DEF StickyInv, StickyRight, MissedHasReferral
  <1> QED
    BY <1>2, <1>4, <1>5, <1>6 DEF StickyInv

LEMMA StickyInductive == StickySpec => []StickyInv
  <1>1. StickyInv /\ [StickyNext]_stickyVars => StickyInv'
    <2> SUFFICES ASSUME StickyInv, [StickyNext]_stickyVars PROVE StickyInv'
      OBVIOUS
    <2>1. CASE UNCHANGED stickyVars
      BY <2>1 DEF stickyVars, StickyInv, StickyTypeOK, ReferralsExtracted, WorkersKnow,
                  MissedHasReferral, StickyRight, Referring, LatestReferral, Extracted
    <2>2. CASE StickyNext
      BY <2>2, DateDepositInv, WorkerOnlyInv, WriteReferralInv, WriteStickyInv, UpdateStickyInv
         DEF StickyNext, ReferralStep
    <2> QED
      BY <2>1, <2>2
  <1> QED
    BY <1>1, StickyInitInv, PTL DEF StickySpec

(***************************************************************************)
(* For any deposits, dates and referrals, any number of workers, failures  *)
(* and nights of the cron, and messages delivered in any order: a deposit  *)
(* whose jobs are over has the latest referral of its depositor, unless an *)
(* earlier deposit's referral was written after it looked back.            *)
(***************************************************************************)
THEOREM StickyReferralsRight == StickySpec => []StickyRight
  <1>1. StickyInv => StickyRight
    BY DEF StickyInv
  <1> QED
    BY <1>1, StickyInductive, PTL

----------------------------------------------------------------------------
(* Proofs from the database and from the two caches *)

ProofSpec == ProofInit /\ [][ProofNext]_proofVars

Entry == [answer : Answer, since : Nat]
Request == [pc : Phases, query : Query, since : Nat, before : SUBSET Window, linked : BOOLEAN,
            answer : Answer]

ProofTypes ==
    /\ now \in Nat
    /\ DOMAIN uploaded \subseteq Window
    /\ \A w \in DOMAIN uploaded : uploaded[w] \in Nat
    /\ client \in [Client -> {Resting} \cup Request]
    /\ proof \in [Key -> {NoEntry} \cup Entry] /\ proofs \in [Key -> {NoEntry} \cup Entry]

\* The windows of one distributor that a query of this kind, account and index is about, and
\* when they came.
WindowsOf(came, all, a, i, t) ==
    {w \in DOMAIN came :
        /\ a \in w.recipients
        /\ w.contract = t
        /\ IF all THEN w.index >= i ELSE w.index = i}

\* An answer of one distributor, whose list has all windows from before `time`.
Fits(came, all, a, i, windows, time) ==
    \E t \in RewardsType :
        /\ windows \subseteq WindowsOf(came, all, a, i, t)
        /\ all => \A w \in WindowsOf(came, all, a, i, t) : came[w] < time => w \in windows
        /\ ~all => windows # {}

FitsQuery(came, q, windows, time) == Fits(came, q.all, q.account, q.index, windows, time)

\* What is kept was read at most MaxDelay before it was kept.
EntryRight(came, time, e, all, a, i) ==
    e # NoEntry =>
        e.since <= time /\ Fits(came, all, a, i, e.answer.windows, e.since - MaxDelay)

EntriesRight ==
    \A a \in Holder, i \in Index :
        /\ EntryRight(uploaded, now, proof[<<a, i>>], FALSE, a, i)
        /\ EntryRight(uploaded, now, proofs[<<a, i>>], TRUE, a, i)

RequestRight(came, time, r) ==
    /\ r.since <= time
    /\ r.pc # "answered" => time <= r.since + MaxDelay
    /\ r.pc = "asked" /\ ~r.query.all =>
          r.before \subseteq WindowsOf(came, FALSE, r.query.account, r.query.index, r.query.type)
    /\ r.pc \in {"read", "known"} => FitsQuery(came, r.query, r.answer.windows, r.since)
    /\ r.pc = "answered" =>
          \/ r.answer.windows = {} /\ ~r.query.all /\ r.before = {}
          \/ FitsQuery(came, r.query, r.answer.windows, r.since - (MaxDelay + Ttl) + 1)

RequestsRight == \A c \in Client : client[c] # Resting => RequestRight(uploaded, now, client[c])

ProofInv == ProofTypes /\ EntriesRight /\ RequestsRight

LEMMA ProofConstants == MaxDelay \in Nat /\ Ttl \in Nat \ {0} /\ "rest" \notin Phases
  BY MerkleProofsAssumption DEF MerkleProofsAssumption, Phases

LEMMA AskedOf ==
    ASSUME NEW q \in Query
    PROVE  /\ q.all \in BOOLEAN /\ q.account \in Holder /\ q.index \in Index
           /\ q.type \in RewardsType /\ <<q.account, q.index>> \in Key
           /\ Asked(q) = WindowsOf(uploaded, q.all, q.account, q.index, q.type)
           /\ \A t \in RewardsType :
                 Asked([q EXCEPT !.type = t])
                     = WindowsOf(uploaded, q.all, q.account, q.index, t)
  BY DEF Query, Asked, WindowsOf, Key

\* An answer fits if less is asked of it, ...
LEMMA FitsEarlier ==
    ASSUME NEW came, \A w \in DOMAIN came : came[w] \in Nat,
           NEW all, NEW a, NEW i, NEW windows, NEW time \in Int, NEW earlier \in Int,
           earlier <= time, Fits(came, all, a, i, windows, time)
    PROVE  Fits(came, all, a, i, windows, earlier)
  BY DEF Fits, WindowsOf

\* ... or if windows come after the time.
Later(came, then, time) ==
    /\ DOMAIN came \subseteq DOMAIN then
    /\ \A w \in DOMAIN came : then[w] = came[w]
    /\ \A w \in DOMAIN then \ DOMAIN came : then[w] >= time

LEMMA FitsLater ==
    ASSUME NEW came, NEW then, \A w \in DOMAIN then : then[w] \in Nat,
           NEW all, NEW a, NEW i, NEW windows, NEW time \in Int, Later(came, then, time),
           Fits(came, all, a, i, windows, time)
    PROVE  Fits(then, all, a, i, windows, time)
  BY DEF Fits, WindowsOf, Later

\* So does a request that is not late.
LEMMA RequestLater ==
    ASSUME NEW came, NEW then, \A w \in DOMAIN then : then[w] \in Nat,
           NEW time \in Nat, NEW time2 \in Nat, time <= time2, Later(came, then, time),
           NEW r \in Request, RequestRight(came, time, r),
           r.pc # "answered" => time2 <= r.since + MaxDelay
    PROVE  RequestRight(then, time2, r)
  <1> DEFINE end == r.since - (MaxDelay + Ttl) + 1
  <1>1. /\ r.since \in Int /\ end \in Int /\ end <= r.since /\ r.since <= time
        /\ r.since \in Nat
    BY ProofConstants DEF RequestRight, Request
  <1>2. Later(came, then, r.since) /\ Later(came, then, end)
    BY <1>1 DEF Later
  <1>3. FitsQuery(came, r.query, r.answer.windows, r.since)
            => FitsQuery(then, r.query, r.answer.windows, r.since)
    BY <1>1, <1>2, FitsLater DEF FitsQuery
  <1>4. FitsQuery(came, r.query, r.answer.windows, end)
            => FitsQuery(then, r.query, r.answer.windows, end)
    <2> HIDE DEF end
    <2> QED
      BY <1>1, <1>2, FitsLater DEF FitsQuery
  <1>5. r.pc = "asked" /\ ~r.query.all =>
          r.before \subseteq WindowsOf(then, FALSE, r.query.account, r.query.index, r.query.type)
    BY DEF RequestRight, WindowsOf, Later
  <1>6. r.since <= time2
    BY <1>1
  <1> QED
    BY <1>3, <1>4, <1>5, <1>6 DEF RequestRight

LEMMA ProofInitInv == ProofInit => ProofInv
  <1> SUFFICES ASSUME ProofInit PROVE ProofInv
    OBVIOUS
  <1>1. ProofTypes
    BY DEF ProofInit, ProofTypes
  <1>2. \A a \in Holder, i \in Index : <<a, i>> \in Key
    BY DEF Key
  <1> QED
    BY <1>1, <1>2 DEF ProofInit, ProofInv, EntriesRight, EntryRight, RequestsRight

\* The steps that no request and no entry takes part in.
LEMMA AroundInv ==
    ASSUME ProofInv,
           (\E w \in Window : UploadWindow(w)) \/ (\E a \in Holder : ChangeWallet(a)) \/ Tick
    PROVE  ProofInv'
  <1>1. ProofTypes
    BY DEF ProofInv
  <1>2. /\ UNCHANGED <<proof, proofs>> /\ now' \in Nat /\ now <= now'
        /\ DOMAIN uploaded' \subseteq Window /\ \A w \in DOMAIN uploaded' : uploaded'[w] \in Nat
        /\ Later(uploaded, uploaded', now)
    <2>1. CASE \E w \in Window : UploadWindow(w)
      <3>1. PICK w \in Window : UploadWindow(w)
        BY <2>1
      <3>2. /\ DOMAIN uploaded' = DOMAIN uploaded \cup {w} /\ w \notin DOMAIN uploaded
            /\ uploaded'[w] = now /\ \A v \in DOMAIN uploaded : uploaded'[v] = uploaded[v]
            /\ UNCHANGED <<now, proof, proofs>>
        BY <3>1 DEF UploadWindow
      <3> QED
        BY <1>1, <3>2 DEF ProofTypes, Later
    <2>2. CASE (\E a \in Holder : ChangeWallet(a)) \/ Tick
      <3>1. UNCHANGED <<uploaded, proof, proofs>> /\ (now' = now \/ now' = now + 1)
        BY <2>2 DEF ChangeWallet, Tick
      <3> QED
        BY <1>1, <3>1 DEF ProofTypes, Later
    <2> QED
      BY <2>1, <2>2
  <1>3. ASSUME NEW c \in Client
        PROVE  /\ client'[c] \in {Resting} \cup Request
               /\ client'[c] # Resting =>
                      /\ client[c] # Resting /\ client[c] \in Request
                      /\ client'[c].pc = client[c].pc /\ client'[c].query = client[c].query
                      /\ client'[c].since = client[c].since
                      /\ client'[c].before = client[c].before
                      /\ client'[c].answer = client[c].answer
    <2>1. CASE client'[c] = client[c]
      BY <1>1, <2>1 DEF ProofTypes
    <2>2. CASE client[c] # Resting /\ client'[c] = [client[c] EXCEPT !.linked = FALSE]
      BY <1>1, <2>2 DEF ProofTypes, Request
    <2> QED
      BY <2>1, <2>2 DEF UploadWindow, ChangeWallet, Tick
  <1>4. client' = [c \in Client |-> client'[c]]
    BY <1>1 DEF UploadWindow, ChangeWallet, Tick, ProofTypes
  <1>5. client' \in [Client -> {Resting} \cup Request]
    BY <1>3, <1>4
  <1>6. ProofTypes'
    BY <1>1, <1>2, <1>5 DEF ProofTypes
  <1>7. EntriesRight'
    <2>1. ASSUME NEW all, NEW a \in Holder, NEW i \in Index, NEW e \in {NoEntry} \cup Entry,
                 EntryRight(uploaded, now, e, all, a, i)
          PROVE  EntryRight(uploaded', now', e, all, a, i)
      <3>1. CASE e # NoEntry
        <4> DEFINE time == e.since - MaxDelay
        <4>1. time \in Int /\ time <= now /\ e.since <= now /\ e.since \in Nat /\ now \in Nat
          BY <1>1, <2>1, <3>1, ProofConstants DEF EntryRight, Entry, ProofTypes
        <4>2. Later(uploaded, uploaded', time)
          BY <1>2, <4>1 DEF Later
        <4>3. Fits(uploaded, all, a, i, e.answer.windows, time)
          BY <2>1, <3>1 DEF EntryRight
        <4> HIDE DEF time
        <4>4. Fits(uploaded', all, a, i, e.answer.windows, time)
          BY <1>2, <4>1, <4>2, <4>3, FitsLater
        <4> QED
          BY <1>2, <3>1, <4>1, <4>4 DEF EntryRight, time
      <3> QED
        BY <3>1 DEF EntryRight
    <2>2. \A a \in Holder, i \in Index : proof[<<a, i>>] \in {NoEntry} \cup Entry
                                         /\ proofs[<<a, i>>] \in {NoEntry} \cup Entry
      BY <1>1 DEF ProofTypes, Key
    <2> QED
      BY <1>2, <2>1, <2>2 DEF ProofInv, EntriesRight
  <1>8. RequestsRight'
    <2> SUFFICES ASSUME NEW c \in Client, client'[c] # Resting
                 PROVE  RequestRight(uploaded', now', client'[c])
      BY DEF RequestsRight
    <2>1. /\ client[c] \in Request /\ RequestRight(uploaded, now, client[c])
          /\ client'[c].pc = client[c].pc /\ client'[c].query = client[c].query
          /\ client'[c].since = client[c].since /\ client'[c].before = client[c].before
          /\ client'[c].answer = client[c].answer
      BY <1>3 DEF ProofInv, RequestsRight
    <2>2. client[c].pc # "answered" => now' <= client[c].since + MaxDelay
      <3>1. CASE now' = now
        BY <2>1, <3>1 DEF RequestRight
      <3>2. CASE Tick
        BY <1>1, <1>3, <2>1, <3>2, ProofConstants DEF Tick, ProofTypes, Request
      <3> QED
        BY <3>1, <3>2 DEF UploadWindow, ChangeWallet
    <2>3. RequestRight(uploaded', now', client[c])
      BY <1>1, <1>2, <2>1, <2>2, RequestLater DEF ProofTypes
    <2> QED
      BY <2>1, <2>3 DEF RequestRight, FitsQuery
  <1> QED
    BY <1>6, <1>7, <1>8 DEF ProofInv

\* What a step of one request leaves as it was.
LEMMA OneRequest ==
    ASSUME ProofInv, NEW c \in Client, NEW r \in Request, client' = [client EXCEPT ![c] = r],
           UNCHANGED <<now, uploaded>>, RequestRight(uploaded, now, r)
    PROVE  client' \in [Client -> {Resting} \cup Request] /\ RequestsRight'
  BY DEF ProofInv, ProofTypes, RequestsRight

LEMMA AskInv ==
    ASSUME ProofInv, NEW c \in Client, NEW q \in Query, Ask(c, q)
    PROVE  ProofInv'
  <1> DEFINE entry == Cache(q)[<<q.account, q.index>>]
             r == [pc |-> IF Fresh(entry) THEN "answered" ELSE "asked",
                   query |-> q,
                   since |-> now,
                   before |-> IF q.all THEN {} ELSE Asked(q),
                   linked |-> q.discord /\ q.account \in wallets,
                   answer |-> IF Fresh(entry) THEN entry.answer
                              ELSE [windows |-> {}, discord |-> FALSE]]
  <1>1. client' = [client EXCEPT ![c] = r] /\ UNCHANGED <<now, uploaded, proof, proofs>>
    BY DEF Ask
  <1>2. ProofTypes /\ EntriesRight
    BY DEF ProofInv
  <1>3. /\ entry \in {NoEntry} \cup Entry
        /\ EntryRight(uploaded, now, entry, q.all, q.account, q.index)
    BY <1>2, AskedOf DEF ProofTypes, EntriesRight, Cache
  <1>4. Asked(q) \subseteq Window
    BY <1>2 DEF Asked, ProofTypes
  <1>5. r \in Request
    <2>1. Fresh(entry) => entry.answer \in Answer
      BY <1>3 DEF Fresh, Entry
    <2>2. [windows |-> {}, discord |-> FALSE] \in Answer /\ now \in Nat /\ q.discord \in BOOLEAN
      BY <1>2 DEF Answer, ProofTypes, Query
    <2> HIDE DEF entry
    <2> QED
      BY <1>4, <2>1, <2>2 DEF Request, Phases
  <1>6. RequestRight(uploaded, now, r)
    <2>1. now <= r.since + MaxDelay /\ r.since = now /\ r.query = q /\ now \in Nat
      BY <1>2, ProofConstants DEF ProofTypes
    <2>2. CASE ~Fresh(entry)
      <3>1. r.pc = "asked" /\ (~q.all => r.before = Asked(q))
        BY <2>2
      <3>2. ~q.all => r.before = WindowsOf(uploaded, FALSE, q.account, q.index, q.type)
        BY <3>1, AskedOf
      <3> HIDE DEF r
      <3>3. r.since <= now
        BY <2>1
      <3> QED
        BY <2>1, <3>1, <3>2, <3>3, Zenon DEF RequestRight
    <2>3. CASE Fresh(entry)
      <3> DEFINE time == now - (MaxDelay + Ttl) + 1
                 kept == entry.since - MaxDelay
      <3>1. r.pc = "answered" /\ r.answer = entry.answer
        BY <2>3
      <3>2. entry # NoEntry /\ entry \in Entry /\ now < entry.since + Ttl
        BY <1>3, <2>3 DEF Fresh
      <3>3. time \in Int /\ kept \in Int /\ time <= kept
        BY <2>1, <3>2, ProofConstants DEF Entry
      <3>4. Fits(uploaded, q.all, q.account, q.index, entry.answer.windows, kept)
        BY <1>3, <3>2 DEF EntryRight
      <3> HIDE DEF kept, time, entry
      <3>5. Fits(uploaded, q.all, q.account, q.index, entry.answer.windows, time)
        BY <1>2, <3>3, <3>4, FitsEarlier DEF ProofTypes
      <3> HIDE DEF r
      <3> QED
        BY <2>1, <3>1, <3>5 DEF RequestRight, FitsQuery, time
    <2> QED
      BY <2>2, <2>3
  <1> HIDE DEF r
  <1> QED
    BY <1>1, <1>2, <1>5, <1>6, OneRequest DEF ProofInv, ProofTypes, EntriesRight

LEMMA ReadInv ==
    ASSUME ProofInv, NEW c \in Client, Read(c)
    PROVE  ProofInv'
  <1> DEFINE old == client[c]
             q == old.query
  <1>1. ProofTypes /\ old \in Request /\ q \in Query /\ RequestRight(uploaded, now, old)
        /\ old.pc = "asked"
    BY DEF ProofInv, ProofTypes, RequestsRight, Read, Resting, Request
  <1> DEFINE Pc(ws) == IF ~q.all /\ ws = {} THEN "answered"
                     ELSE IF q.discord THEN "read" ELSE "known"
  <1>2. PICK windows \in IF q.all THEN {Asked(q)}
                         ELSE IF Asked(q) = {} THEN {{}} ELSE {{w} : w \in Asked(q)} :
               client' = [client EXCEPT ![c].answer.windows = windows, ![c].pc = Pc(windows)]
    BY DEF Read
  <1>3. UNCHANGED <<now, uploaded, wallets, proof, proofs>>
    BY DEF Read
  <1> DEFINE pc == Pc(windows)
             r == [old EXCEPT !.answer.windows = windows, !.pc = pc]
  <1>4. client' = [client EXCEPT ![c] = r]
    <2> HIDE DEF Pc
    <2> QED
      BY <1>1, <1>2 DEF ProofTypes
  <1>5. windows \subseteq Asked(q) /\ (q.all => windows = Asked(q)) /\ Asked(q) \subseteq Window
        /\ (~q.all /\ windows = {} => Asked(q) = {})
    BY <1>1, <1>2 DEF Asked, ProofTypes
  <1>6. /\ pc \in {"answered", "read", "known"}
        /\ (pc = "answered" <=> ~q.all /\ windows = {})
    BY <1>1 DEF Query
  <1>7. q.all \in BOOLEAN /\ Asked(q) = WindowsOf(uploaded, q.all, q.account, q.index, q.type)
        /\ q.type \in RewardsType
    BY <1>1, AskedOf
  <1> HIDE DEF pc, q
  <1>8. /\ r \in Request /\ r.pc = pc /\ r.query = old.query /\ r.since = old.since
        /\ r.before = old.before /\ r.answer.windows = windows
    BY <1>1, <1>5, <1>6 DEF Request, Answer, Phases
  <1> HIDE DEF r
  <1>9. RequestRight(uploaded, now, r)
    <2>1. pc = "answered" => r.answer.windows = {} /\ ~r.query.all /\ r.before = {}
      BY <1>1, <1>5, <1>6, <1>7, <1>8 DEF RequestRight, q
    <2>2. pc # "answered" => FitsQuery(uploaded, r.query, r.answer.windows, r.since)
      BY <1>5, <1>6, <1>7, <1>8 DEF FitsQuery, Fits, q
    <2> QED
      BY <1>1, <1>6, <1>8, <2>1, <2>2 DEF RequestRight
  <1> QED
    BY <1>1, <1>3, <1>4, <1>8, <1>9, OneRequest DEF ProofInv, ProofTypes, EntriesRight

LEMMA ReadDiscordInv ==
    ASSUME ProofInv, NEW c \in Client, ReadDiscord(c)
    PROVE  ProofInv'
  <1> DEFINE old == client[c]
             joined == old.query.account \in wallets
             r == [old EXCEPT !.pc = "known", !.answer.discord = joined]
  <1>1. ProofTypes /\ old \in Request /\ RequestRight(uploaded, now, old) /\ old.pc = "read"
    BY DEF ProofInv, ProofTypes, RequestsRight, ReadDiscord, Resting, Request
  <1>2. client' = [client EXCEPT ![c].pc = "known", ![c].answer.discord = joined]
        /\ UNCHANGED <<now, uploaded, wallets, proof, proofs>>
    BY DEF ReadDiscord
  <1> HIDE DEF joined
  <1>3. client' = [client EXCEPT ![c] = r]
    BY <1>1, <1>2 DEF ProofTypes
  <1>4. joined \in BOOLEAN
    BY DEF joined
  <1>5. /\ r \in Request /\ r.pc = "known" /\ r.query = old.query /\ r.since = old.since
        /\ r.before = old.before /\ r.answer.windows = old.answer.windows
    BY <1>1, <1>4 DEF Request, Answer, Phases
  <1> HIDE DEF r
  <1>6. RequestRight(uploaded, now, r)
    BY <1>1, <1>5 DEF RequestRight
  <1> QED
    BY <1>1, <1>2, <1>3, <1>5, <1>6, OneRequest DEF ProofInv, ProofTypes, EntriesRight

LEMMA KeepInv ==
    ASSUME ProofInv, NEW c \in Client, Keep(c)
    PROVE  ProofInv'
  <1> DEFINE old == client[c]
             q == old.query
             k == <<q.account, q.index>>
             e == EntryNow(old.answer)
             r == [old EXCEPT !.pc = "answered"]
  <1>1. ProofTypes /\ old \in Request /\ RequestRight(uploaded, now, old) /\ old.pc = "known"
        /\ q \in Query
    BY DEF ProofInv, ProofTypes, RequestsRight, Keep, Resting, Request
  <1>2. /\ client' = [client EXCEPT ![c] = r] /\ UNCHANGED <<now, uploaded, wallets>>
        /\ proofs' = IF q.all THEN [proofs EXCEPT ![k] = e] ELSE proofs
        /\ proof' = IF q.all THEN proof ELSE [proof EXCEPT ![k] = e]
    BY DEF Keep, Cache
  <1>3. q.all \in BOOLEAN /\ q.account \in Holder /\ q.index \in Index /\ k \in Key
    BY <1>1, AskedOf
  <1>4. e \in Entry /\ e.since = now /\ e.answer = old.answer
    BY <1>1 DEF EntryNow, Entry, Request, ProofTypes
  <1>5. /\ r \in Request /\ r.pc = "answered" /\ r.query = old.query /\ r.since = old.since
        /\ r.before = old.before /\ r.answer = old.answer
    BY <1>1 DEF Request, Phases
  <1>6. /\ Fits(uploaded, q.all, q.account, q.index, old.answer.windows, old.since)
        /\ old.since \in Nat /\ old.since <= now /\ now <= old.since + MaxDelay /\ now \in Nat
        /\ \A w \in DOMAIN uploaded : uploaded[w] \in Nat
    BY <1>1 DEF RequestRight, FitsQuery, Request, ProofTypes
  <1> HIDE DEF r, e
  <1>7. EntryRight(uploaded, now, e, q.all, q.account, q.index)
    <2>1. now - MaxDelay \in Int /\ now - MaxDelay <= old.since
      BY <1>6, ProofConstants
    <2>2. Fits(uploaded, q.all, q.account, q.index, old.answer.windows, now - MaxDelay)
      BY <1>1, <1>6, <2>1, FitsEarlier
    <2> QED
      BY <1>4, <1>6, <2>2 DEF EntryRight
  <1>8. RequestRight(uploaded, now, r)
    <2> DEFINE time == old.since - (MaxDelay + Ttl) + 1
    <2>1. time \in Int /\ time <= old.since
      BY <1>6, ProofConstants
    <2> HIDE DEF time
    <2>2. Fits(uploaded, q.all, q.account, q.index, old.answer.windows, time)
      BY <1>1, <1>6, <2>1, FitsEarlier
    <2> QED
      BY <1>5, <1>6, <2>2 DEF RequestRight, FitsQuery, time
  <1>9. client' \in [Client -> {Resting} \cup Request] /\ RequestsRight'
    BY <1>2, <1>5, <1>8, OneRequest
  <1>10. ProofTypes'
    BY <1>1, <1>2, <1>3, <1>4, <1>9 DEF ProofTypes
  <1>11. EntriesRight'
    <2> SUFFICES ASSUME NEW a \in Holder, NEW i \in Index
                 PROVE  /\ EntryRight(uploaded, now, proof'[<<a, i>>], FALSE, a, i)
                        /\ EntryRight(uploaded, now, proofs'[<<a, i>>], TRUE, a, i)
      BY <1>2 DEF EntriesRight
    <2>1. /\ EntryRight(uploaded, now, proof[<<a, i>>], FALSE, a, i)
          /\ EntryRight(uploaded, now, proofs[<<a, i>>], TRUE, a, i)
      BY DEF ProofInv, EntriesRight
    <2>2. CASE <<a, i>> = k
      <3>1. a = q.account /\ i = q.index
        BY <2>2
      <3>2. /\ proofs'[k] = IF q.all THEN e ELSE proofs[k]
            /\ proof'[k] = IF q.all THEN proof[k] ELSE e
        BY <1>1, <1>2, <1>3 DEF ProofTypes
      <3> QED
        BY <1>3, <1>7, <2>1, <2>2, <3>1, <3>2
    <2>3. CASE <<a, i>> # k
      <3>1. proofs'[<<a, i>>] = proofs[<<a, i>>] /\ proof'[<<a, i>>] = proof[<<a, i>>]
        BY <1>1, <1>2, <1>3, <2>3 DEF ProofTypes, Key
      <3> QED
        BY <2>1, <3>1
    <2> QED
      BY <2>2, <2>3
  <1> QED
    BY <1>9, <1>10, <1>11 DEF ProofInv

LEMMA ProofInductive == ProofSpec => []ProofInv
  <1>1. ProofInv /\ [ProofNext]_proofVars => ProofInv'
    <2> SUFFICES ASSUME ProofInv, [ProofNext]_proofVars PROVE ProofInv'
      OBVIOUS
    <2>1. CASE UNCHANGED proofVars
      BY <2>1 DEF proofVars, ProofInv, ProofTypes, EntriesRight, RequestsRight
    <2>2. CASE ProofNext
      BY <2>2, AroundInv, AskInv, ReadInv, ReadDiscordInv, KeepInv DEF ProofNext
    <2> QED
      BY <2>1, <2>2
  <1> QED
    BY <1>1, ProofInitInv, PTL DEF ProofSpec

(***************************************************************************)
(* For any windows, accounts, requests under way and times: what the two   *)
(* endpoints answer, from the database or from their caches, whose keys    *)
(* leave the distributor out, is of one distributor and of the account,    *)
(* and a list lacks no window that came MaxDelay and the cache's duration  *)
(* before the request.                                                     *)
(***************************************************************************)
THEOREM ProofsAnswered == ProofSpec => []AnswersRight
  <1>1. ProofInv => AnswersRight
    <2> SUFFICES ASSUME ProofInv, NEW c \in Client, client[c] # Resting,
                        client[c].pc = "answered"
                 PROVE  LET q == client[c].query
                            answer == client[c].answer
                            of == [t \in RewardsType |-> Asked([q EXCEPT !.type = t])]
                        IN  \/ answer.windows = {} /\ ~q.all /\ client[c].before = {}
                            \/ \E t \in RewardsType :
                                   /\ answer.windows \subseteq of[t]
                                   /\ q.all => Settled(of[t], client[c].since)
                                                   \subseteq answer.windows
                                   /\ ~q.all => answer.windows # {}
      BY DEF AnswersRight
    <2> DEFINE q == client[c].query
               windows == client[c].answer.windows
               time == client[c].since - (MaxDelay + Ttl) + 1
    <2>1. client[c] \in Request /\ RequestRight(uploaded, now, client[c]) /\ q \in Query
          /\ client[c].since \in Nat /\ \A w \in DOMAIN uploaded : uploaded[w] \in Nat
      BY DEF ProofInv, ProofTypes, RequestsRight, Request
    <2>2. CASE windows = {} /\ ~q.all /\ client[c].before = {}
      BY <2>2
    <2>3. CASE FitsQuery(uploaded, q, windows, time)
      <3>1. PICK t \in RewardsType :
                /\ windows \subseteq WindowsOf(uploaded, q.all, q.account, q.index, t)
                /\ q.all => \A w \in WindowsOf(uploaded, q.all, q.account, q.index, t) :
                               uploaded[w] < time => w \in windows
                /\ ~q.all => windows # {}
        BY <2>3 DEF FitsQuery, Fits
      <3>2. Asked([q EXCEPT !.type = t]) = WindowsOf(uploaded, q.all, q.account, q.index, t)
        BY <2>1, AskedOf
      <3>3. q.all => Settled(Asked([q EXCEPT !.type = t]), client[c].since) \subseteq windows
        <4>1. \A w \in DOMAIN uploaded :
                 uploaded[w] + MaxDelay + Ttl <= client[c].since => uploaded[w] < time
          BY <2>1, ProofConstants
        <4> QED
          BY <3>1, <3>2, <4>1 DEF Settled, WindowsOf
      <3> QED
        BY <3>1, <3>2, <3>3
    <2> QED
      BY <2>1, <2>2, <2>3 DEF RequestRight
  <1> QED
    BY <1>1, ProofInductive, PTL

----------------------------------------------------------------------------
(* Uploads of the tables of rewards *)

FilesSpec == FilesInit /\ [][FilesNext]_fileVars

RowsIn(amounts) == {o \in Owner : amounts[o] # NoRow}

\* The first n entries are saved: their owners are marked, and each has the last amount.
Saved(amounts, marked, entries, n) ==
    /\ marked = {entries[i].owner : i \in 1..n}
    /\ \A i \in 1..n : (\A j \in 1..n : i < j => entries[j].owner # entries[i].owner)
                           => amounts[entries[i].owner] = entries[i].amount

UploadRight(amounts, marked, u) ==
    /\ u.pc = "reset" => u.at = 1
    /\ u.pc \in {"find", "save"} => u.at \in 1..(Len(u.file.entries) + 1)
    /\ u.pc = "save" => u.at <= Len(u.file.entries)
    /\ u.alone /\ u.pc # "ended" => u.before \subseteq RowsIn(amounts)
    /\ u.alone /\ u.pc \in {"find", "save"} =>
           Saved(amounts, marked, u.file.entries, u.at - 1)
    /\ u.alone /\ u.pc = "ended" => amounts = AmountsOf(u.file)

UploadsRight == \A a \in Admin : upload[a] # Nothing => UploadRight(table, processed, upload[a])

FilesInv == FilesTypeOK /\ UploadsRight

LEMMA FileTypes ==
    /\ NoRow \notin Amount /\ Edited \subseteq Owner /\ MaxUploads \in Nat
    /\ Rows = RowsIn(table) /\ Rows' = RowsIn(table')
    /\ \A file \in RewardFile :
          /\ file.throws \in BOOLEAN /\ Len(file.entries) \in Nat
          /\ DOMAIN file.entries = 1..Len(file.entries)
          /\ \A i \in 1..Len(file.entries) :
                file.entries[i].owner \in Owner /\ file.entries[i].amount \in Amount
  <1>1. /\ NoRow \notin Amount /\ Edited \subseteq Owner /\ MaxUploads \in Nat
        /\ RewardFile \subseteq [entries : Seq([owner : Owner, amount : Amount]), throws : BOOLEAN]
    BY RewardFilesAssumption DEF RewardFilesAssumption
  <1>2. Rows = RowsIn(table) /\ Rows' = RowsIn(table')
    BY DEF Rows, RowsIn
  <1>3. ASSUME NEW file \in RewardFile
        PROVE  /\ file.throws \in BOOLEAN /\ Len(file.entries) \in Nat
               /\ DOMAIN file.entries = 1..Len(file.entries)
               /\ \A i \in 1..Len(file.entries) :
                     file.entries[i].owner \in Owner /\ file.entries[i].amount \in Amount
    <2> DEFINE entries == file.entries
    <2> DEFINE Line == [owner : Owner, amount : Amount]
    <2>1. entries \in Seq(Line) /\ file.throws \in BOOLEAN
      BY <1>1
    <2> HIDE DEF entries, Line
    <2>2. /\ Len(entries) \in Nat /\ DOMAIN entries = 1..Len(entries)
          /\ \A i \in 1..Len(entries) : entries[i] \in Line
      BY <2>1
    <2> QED
      BY <2>1, <2>2 DEF entries, Line
  <1> QED
    BY <1>1, <1>2, <1>3

\* The table of a file is what its entries, all saved, and nothing else make.
LEMMA AllSaved ==
    ASSUME NEW file \in RewardFile, NEW amounts \in [Owner -> Amount \cup {NoRow}], NEW marked,
           Saved(amounts, marked, file.entries, Len(file.entries))
    PROVE  [o \in Owner |-> IF o \in RowsIn(amounts) \ marked THEN NoRow ELSE amounts[o]]
               = AmountsOf(file)
  <1> DEFINE entries == file.entries
             n == Len(entries)
             its(o) == {i \in DOMAIN entries : entries[i].owner = o}
             last(o) == CHOOSE i \in its(o) : \A j \in its(o) : j <= i
             left(o) == IF o \in RowsIn(amounts) \ marked THEN NoRow ELSE amounts[o]
  <1>1. n \in Nat /\ DOMAIN entries = 1..n
    BY FileTypes
  <1>2. marked = {entries[i].owner : i \in 1..n}
        /\ \A i \in 1..n : (\A j \in 1..n : i < j => entries[j].owner # entries[i].owner)
                               => amounts[entries[i].owner] = entries[i].amount
    BY DEF Saved
  <1>3. ASSUME NEW o \in Owner
        PROVE  left(o) = IF its(o) = {} THEN NoRow ELSE entries[last(o)].amount
    <2>1. CASE its(o) = {}
      <3>1. o \notin marked
        BY <1>1, <1>2, <2>1
      <3> QED
        BY <2>1, <3>1 DEF RowsIn
    <2>2. CASE its(o) # {}
      <3>1. \E i \in its(o) : \A j \in its(o) : j <= i
        <4>1. its(o) \subseteq 1..n
          BY <1>1
        <4> HIDE DEF its, n
        <4> QED
          BY <1>1, <2>2, <4>1, LastExists
      <3>2. last(o) \in its(o) /\ \A j \in its(o) : j <= last(o)
        <4> HIDE DEF its
        <4> QED
          BY <3>1
      <3>3. PICK i \in 1..n : i = last(o)
        BY <1>1, <3>2
      <3>4. entries[i].owner = o /\ \A j \in 1..n : entries[j].owner = o => j <= i
        BY <1>1, <3>2, <3>3
      <3>5. o \in marked /\ amounts[o] = entries[i].amount
        BY <1>1, <1>2, <3>4
      <3> HIDE DEF its, last
      <3> QED
        BY <2>2, <3>3, <3>5
    <2> QED
      BY <2>1, <2>2
  <1> QED
    BY <1>3 DEF AmountsOf

LEMMA FilesInitInv == FilesInit => FilesInv
  BY FileTypes DEF FilesInit, FilesInv, FilesTypeOK, UploadsRight, Rows, RowsIn

\* When an upload has written, the others are not alone, and where they were.
LEMMA WroteOthers ==
    ASSUME FilesInv, NEW a \in Admin, NEW is \in UploadState, NEW deleted,
           upload' = Wrote(a, is, deleted), UploadRight(table', processed', is)
    PROVE  upload' \in [Admin -> UploadState \cup {Nothing}] /\ UploadsRight'
  <1>1. ASSUME NEW b \in Admin \ {a}, upload[b] # Nothing
        PROVE  /\ upload'[b] \in UploadState /\ ~upload'[b].alone
               /\ upload'[b].pc = upload[b].pc /\ upload'[b].at = upload[b].at
               /\ upload'[b].file = upload[b].file
    <2> DEFINE found == /\ upload[b].found
                        /\ upload[b].file.entries[upload[b].at].owner \notin deleted
    <2>1. upload'[b] = [upload[b] EXCEPT !.alone = FALSE, !.found = found]
      BY <1>1 DEF Wrote
    <2>2. upload[b] \in UploadState /\ found \in BOOLEAN
      BY <1>1 DEF FilesInv, FilesTypeOK
    <2> HIDE DEF found
    <2> QED
      BY <2>1, <2>2 DEF UploadState
  <1>2. upload'[a] = is /\ \A b \in Admin \ {a} : upload[b] = Nothing => upload'[b] = Nothing
    BY DEF Wrote
  <1>3. upload' = [b \in Admin |-> upload'[b]]
    BY DEF Wrote
  <1>4. ASSUME NEW b \in Admin PROVE upload'[b] \in UploadState \cup {Nothing}
    BY <1>1, <1>2
  <1>5. upload' \in [Admin -> UploadState \cup {Nothing}]
    BY <1>3, <1>4
  <1>6. UploadsRight'
    <2> SUFFICES ASSUME NEW b \in Admin, upload'[b] # Nothing
                 PROVE  UploadRight(table', processed', upload'[b])
      BY DEF UploadsRight
    <2>1. CASE b = a
      BY <1>2, <2>1
    <2>2. CASE b # a
      BY <1>1, <1>2, <2>2 DEF FilesInv, UploadsRight, UploadRight
    <2> QED
      BY <2>1, <2>2
  <1> QED
    BY <1>5, <1>6

\* What an upload does that writes no row leaves the others alone.
LEMMA ReadsOnly ==
    ASSUME FilesInv, NEW a \in Admin, NEW u \in UploadState, upload' = [upload EXCEPT ![a] = u],
           UNCHANGED <<table, processed>>, UploadRight(table, processed, u)
    PROVE  upload' \in [Admin -> UploadState \cup {Nothing}] /\ UploadsRight'
  BY DEF FilesInv, FilesTypeOK, UploadsRight

LEMMA StartInv ==
    ASSUME FilesInv, NEW a \in Admin, NEW file \in RewardFile, StartUpload(a, file)
    PROVE  FilesInv'
  <1> DEFINE u == [pc |-> "reset", file |-> file, at |-> 1, found |-> FALSE, before |-> Rows,
                   alone |-> TRUE]
  <1>1. upload' = [upload EXCEPT ![a] = u] /\ UNCHANGED <<table, processed>>
        /\ uploads' = uploads + 1 /\ uploads < MaxUploads
    BY DEF StartUpload
  <1>2. u \in UploadState
    BY DEF UploadState, Rows
  <1>3. UploadRight(table, processed, u)
    BY FileTypes DEF UploadRight
  <1> HIDE DEF u
  <1>4. upload' \in [Admin -> UploadState \cup {Nothing}] /\ UploadsRight'
    BY <1>1, <1>2, <1>3, ReadsOnly
  <1> QED
    BY <1>1, <1>4, FileTypes DEF FilesInv, FilesTypeOK, RowsIn

\* The owners of a file's entries, up to any of them.
LEMMA OwnersInFile ==
    \A file \in RewardFile : \A n \in 1..Len(file.entries) : \A i \in 1..n :
        file.entries[i].owner \in Owner
  BY FileTypes

LEMMA FindRowInv ==
    ASSUME FilesInv, NEW a \in Admin, FindRow(a)
    PROVE  FilesInv'
  <1> DEFINE found == EntryOf(a).owner \in Rows
             u == [upload[a] EXCEPT !.pc = "save", !.found = found]
  <1>1. /\ upload[a] \in UploadState /\ upload[a].pc = "find" /\ More(a)
        /\ UploadRight(table, processed, upload[a])
        /\ upload' = [upload EXCEPT ![a].pc = "save", ![a].found = found]
        /\ UNCHANGED <<table, processed, uploads>>
    BY DEF FindRow, FilesInv, FilesTypeOK, UploadsRight, Nothing
  <1>2. found \in BOOLEAN
    OBVIOUS
  <1> HIDE DEF found
  <1>3. upload' = [upload EXCEPT ![a] = u]
    BY <1>1 DEF FilesInv, FilesTypeOK
  <1>4. /\ u \in UploadState /\ u.pc = "save" /\ u.at = upload[a].at /\ u.file = upload[a].file
        /\ u.before = upload[a].before /\ u.alone = upload[a].alone
    BY <1>1, <1>2 DEF UploadState
  <1> HIDE DEF u
  <1>5. UploadRight(table, processed, u)
    BY <1>1, <1>4 DEF UploadRight, More
  <1>6. upload' \in [Admin -> UploadState \cup {Nothing}] /\ UploadsRight'
    BY <1>1, <1>3, <1>4, <1>5, ReadsOnly
  <1> QED
    BY <1>1, <1>6, FileTypes DEF FilesInv, FilesTypeOK, RowsIn

LEMMA ResetInv ==
    ASSUME FilesInv, NEW a \in Admin, Reset(a)
    PROVE  FilesInv'
  <1> DEFINE u == [upload[a] EXCEPT !.pc = "find", !.before = Rows, !.alone = TRUE]
  <1>1. /\ upload[a] \in UploadState /\ upload[a].pc = "reset" /\ upload' = Wrote(a, u, {})
        /\ UploadRight(table, processed, upload[a])
        /\ processed' = {} /\ UNCHANGED <<table, uploads>>
    BY DEF Reset, FilesInv, FilesTypeOK, UploadsRight, Nothing
  <1>2. Rows \subseteq Owner
    BY DEF Rows
  <1>3. /\ u \in UploadState /\ u.pc = "find" /\ u.at = 1 /\ u.before = Rows
        /\ u.file \in RewardFile
    BY <1>1, <1>2 DEF UploadState, UploadRight
  <1> HIDE DEF u
  <1>4. Len(u.file.entries) \in Nat
    BY <1>3, FileTypes
  <1>5. Saved(table', processed', u.file.entries, 0)
    BY <1>1 DEF Saved
  <1>6. UploadRight(table', processed', u)
    BY <1>1, <1>3, <1>4, <1>5, FileTypes DEF UploadRight
  <1>7. upload' \in [Admin -> UploadState \cup {Nothing}] /\ UploadsRight'
    BY <1>1, <1>3, <1>6, WroteOthers
  <1> QED
    BY <1>1, <1>7 DEF FilesInv, FilesTypeOK

LEMMA EntrySaved ==
    ASSUME NEW r \in UploadState, r.at + 1 \in Nat
    PROVE  LET u == [r EXCEPT !.pc = "find", !.at = @ + 1, !.found = FALSE]
           IN  /\ u \in UploadState /\ u.pc = "find" /\ u.at = r.at + 1 /\ u.file = r.file
               /\ u.before = r.before /\ u.alone = r.alone
  <1> DEFINE k == r.at + 1
             u == [r EXCEPT !.pc = "find", !.at = k, !.found = FALSE]
  <1>1. k \in Nat
    OBVIOUS
  <1> HIDE DEF k
  <1>2. /\ u \in UploadState /\ u.pc = "find" /\ u.at = k /\ u.file = r.file
        /\ u.before = r.before /\ u.alone = r.alone
    BY <1>1 DEF UploadState
  <1> QED
    BY <1>2 DEF k

LEMMA SaveRowInv ==
    ASSUME FilesInv, NEW a \in Admin, SaveRow(a)
    PROVE  FilesInv'
  <1> DEFINE old == upload[a]
             entries == old.file.entries
             n == old.at
             owner == entries[n].owner
             amount == entries[n].amount
             u == [old EXCEPT !.pc = "find", !.at = @ + 1, !.found = FALSE]
  <1>1. /\ old \in UploadState /\ old.pc = "save" /\ upload' = Wrote(a, u, {})
        /\ table' = [table EXCEPT ![owner] = amount] /\ processed' = processed \cup {owner}
        /\ UploadRight(table, processed, old) /\ UNCHANGED uploads
    BY DEF SaveRow, EntryOf, FilesInv, FilesTypeOK, UploadsRight, Nothing
  <1>2. /\ old.file \in RewardFile /\ n \in 1..Len(entries) /\ n \in Nat /\ Len(entries) \in Nat
        /\ owner \in Owner /\ amount \in Amount
    <2>1. old.file \in RewardFile /\ n \in 1..(Len(entries) + 1) /\ n <= Len(entries)
      BY <1>1 DEF UploadRight, UploadState
    <2>2. Len(entries) \in Nat
      BY <2>1, FileTypes
    <2> HIDE DEF n, entries
    <2>3. n \in 1..Len(entries) /\ n \in Nat
      BY <2>1, <2>2
    <2> QED
      BY <2>1, <2>2, <2>3, FileTypes DEF entries
  <1>3. /\ u \in UploadState /\ u.pc = "find" /\ u.at = n + 1 /\ u.file = old.file
        /\ u.before = old.before /\ u.alone = old.alone
    <2>1. n + 1 \in Nat
      BY <1>2
    <2> HIDE DEF n, entries
    <2> QED
      BY <1>1, <2>1, EntrySaved DEF n
  <1> HIDE DEF u, n, entries, owner, amount
  <1>4. /\ table' \in [Owner -> Amount \cup {NoRow}] /\ table'[owner] = amount
        /\ \A o \in Owner \ {owner} : table'[o] = table[o]
    BY <1>1, <1>2 DEF FilesInv, FilesTypeOK
  <1>5. RowsIn(table) \cup {owner} \subseteq RowsIn(table')
    BY <1>2, <1>4, FileTypes DEF RowsIn
  <1>6. ASSUME Saved(table, processed, entries, n - 1)
        PROVE  Saved(table', processed', entries, n)
    <2>1. owner = entries[n].owner /\ amount = entries[n].amount
      BY DEF owner, amount, n, entries
    <2>2. 1..n = 1..(n - 1) \cup {n} /\ n \in Int
      BY <1>2
    <2>3. processed' = {entries[i].owner : i \in 1..n}
      BY <1>1, <1>6, <2>1, <2>2 DEF Saved
    <2>4. ASSUME NEW i \in 1..n,
                 \A j \in 1..n : i < j => entries[j].owner # entries[i].owner
          PROVE  table'[entries[i].owner] = entries[i].amount
      <3>1. CASE i = n
        BY <1>4, <2>1, <3>1
      <3>2. CASE i # n
        <4>1. i \in 1..(n - 1) /\ i < n /\ n \in 1..n
          BY <1>2, <2>2, <3>2
        <4>2. entries[i].owner # owner
          BY <2>1, <2>4, <4>1
        <4>3. entries[i].owner \in Owner
          BY <1>2, <4>1, OwnersInFile DEF entries, n
        <4>4. table[entries[i].owner] = entries[i].amount
          BY <1>6, <2>2, <2>4, <4>1 DEF Saved
        <4> QED
          BY <1>4, <4>2, <4>3, <4>4
      <3> QED
        BY <3>1, <3>2
    <2> QED
      BY <2>3, <2>4 DEF Saved
  <1>7. UploadRight(table', processed', u)
    <2>1. u.at \in 1..(Len(u.file.entries) + 1) /\ u.at - 1 = n
      BY <1>2, <1>3 DEF entries
    <2>2. u.alone => u.before \subseteq RowsIn(table')
      BY <1>1, <1>3, <1>5 DEF UploadRight
    <2>3. u.alone => Saved(table', processed', u.file.entries, u.at - 1)
      <3>1. u.alone => Saved(table, processed, entries, n - 1)
        BY <1>1, <1>3 DEF UploadRight, entries, n
      <3> QED
        BY <1>3, <1>6, <2>1, <3>1 DEF entries
    <2> QED
      BY <1>3, <2>1, <2>2, <2>3 DEF UploadRight
  <1>8. upload' \in [Admin -> UploadState \cup {Nothing}] /\ UploadsRight'
    BY <1>1, <1>3, <1>7, WroteOthers
  <1>9. processed' \subseteq Rows'
    BY <1>1, <1>5, FileTypes DEF FilesInv, FilesTypeOK
  <1> QED
    BY <1>1, <1>4, <1>8, <1>9 DEF FilesInv, FilesTypeOK

LEMMA PastTheEnd == \A n \in Nat : \A k \in 1..(n + 1) : ~(k <= n) => k - 1 = n
  OBVIOUS

LEMMA DeleteInv ==
    ASSUME FilesInv, NEW a \in Admin, DeleteUnprocessed(a)
    PROVE  FilesInv'
  <1> DEFINE old == upload[a]
             entries == old.file.entries
             deleted == Rows \ processed
             u == [old EXCEPT !.pc = "ended"]
  <1>1. /\ old \in UploadState /\ old.pc = "find" /\ ~(old.at <= Len(entries))
        /\ upload' = Wrote(a, u, deleted)
        /\ table' = [o \in Owner |-> IF o \in deleted THEN NoRow ELSE table[o]]
        /\ UploadRight(table, processed, old) /\ UNCHANGED <<processed, uploads>>
    BY DEF DeleteUnprocessed, More, FilesInv, FilesTypeOK, UploadsRight, Nothing
  <1>2. /\ u \in UploadState /\ u.pc = "ended" /\ u.file = old.file /\ u.alone = old.alone
        /\ old.file \in RewardFile /\ old.alone \in BOOLEAN
    BY <1>1 DEF UploadState
  <1>3. Len(entries) \in Nat /\ old.at - 1 = Len(entries)
    <2>1. old.file \in RewardFile /\ old.at \in 1..(Len(entries) + 1)
      BY <1>1 DEF UploadRight, UploadState
    <2>2. Len(entries) \in Nat
      BY <2>1, FileTypes
    <2>3. ~(old.at <= Len(entries))
      BY <1>1
    <2> QED
      BY <2>1, <2>2, <2>3, PastTheEnd
  <1>4. table \in [Owner -> Amount \cup {NoRow}] /\ processed \subseteq RowsIn(table)
    BY FileTypes DEF FilesInv, FilesTypeOK
  <1>5. old.alone => table' = AmountsOf(old.file)
    <2> SUFFICES ASSUME old.alone PROVE table' = AmountsOf(old.file)
      OBVIOUS
    <2>1. Saved(table, processed, old.file.entries, Len(old.file.entries))
      BY <1>1, <1>3 DEF UploadRight
    <2> QED
      BY <1>1, <1>2, <1>4, <2>1, AllSaved, FileTypes
  <1> HIDE DEF u
  <1>6. UploadRight(table', processed', u)
    BY <1>2, <1>5 DEF UploadRight
  <1> HIDE DEF deleted
  <1>7. upload' \in [Admin -> UploadState \cup {Nothing}] /\ UploadsRight'
    BY <1>1, <1>2, <1>6, WroteOthers
  <1>8. table' \in [Owner -> Amount \cup {NoRow}] /\ processed' \subseteq RowsIn(table')
    BY <1>1, <1>4 DEF RowsIn, deleted
  <1> QED
    BY <1>1, <1>7, <1>8, FileTypes DEF FilesInv, FilesTypeOK

LEMMA FailInv ==
    ASSUME FilesInv, NEW a \in Admin, FailUpload(a)
    PROVE  FilesInv'
  <1> DEFINE u == [upload[a] EXCEPT !.pc = "failed"]
  <1>1. /\ upload[a] \in UploadState /\ upload[a].pc \in {"find", "save"}
        /\ upload' = Wrote(a, u, {}) /\ processed' = Rows
        /\ UploadRight(table, processed, upload[a]) /\ UNCHANGED <<table, uploads>>
    BY DEF FailUpload, FilesInv, FilesTypeOK, UploadsRight, Nothing
  <1>2. /\ u \in UploadState /\ u.pc = "failed" /\ u.before = upload[a].before
        /\ u.alone = upload[a].alone
    BY <1>1 DEF UploadState
  <1> HIDE DEF u
  <1>3. UploadRight(table', processed', u)
    BY <1>1, <1>2 DEF UploadRight
  <1>4. upload' \in [Admin -> UploadState \cup {Nothing}] /\ UploadsRight'
    BY <1>1, <1>2, <1>3, WroteOthers
  <1> QED
    BY <1>1, <1>4, FileTypes DEF FilesInv, FilesTypeOK

LEMMA DieInv ==
    ASSUME FilesInv, DieInUpload
    PROVE  FilesInv'
  <1>1. /\ upload' = [a \in Admin |-> IF a \in Busy THEN [upload[a] EXCEPT !.pc = "dead"]
                                       ELSE upload[a]]
        /\ UNCHANGED <<table, processed, uploads>>
    BY DEF DieInUpload
  <1>2. ASSUME NEW a \in Admin
        PROVE  /\ upload'[a] \in UploadState \cup {Nothing}
               /\ upload'[a] # Nothing => UploadRight(table', processed', upload'[a])
    <2>1. CASE a \in Busy
      <3> DEFINE u == [upload[a] EXCEPT !.pc = "dead"]
      <3>1. /\ upload[a] \in UploadState /\ upload[a].pc # "ended" /\ upload'[a] = u
            /\ UploadRight(table, processed, upload[a])
        BY <1>1, <2>1 DEF Busy, FilesInv, FilesTypeOK, UploadsRight, Nothing
      <3>2. /\ u \in UploadState /\ u.pc = "dead" /\ u.before = upload[a].before
            /\ u.alone = upload[a].alone
        BY <3>1 DEF UploadState
      <3> HIDE DEF u
      <3> QED
        BY <1>1, <3>1, <3>2 DEF UploadRight
    <2>2. CASE a \notin Busy
      BY <1>1, <2>2 DEF FilesInv, FilesTypeOK, UploadsRight
    <2> QED
      BY <2>1, <2>2
  <1>3. upload' = [a \in Admin |-> upload'[a]]
    BY <1>1
  <1>4. upload' \in [Admin -> UploadState \cup {Nothing}]
    BY <1>2, <1>3
  <1> QED
    BY <1>1, <1>2, <1>4, FileTypes DEF FilesInv, FilesTypeOK, UploadsRight

LEMMA EditInv ==
    ASSUME FilesInv, NEW o \in Edited, NEW amount \in Amount, EditRewards(o, amount)
    PROVE  FilesInv'
  <1>1. /\ table' = [table EXCEPT ![o] = amount]
        /\ processed' \subseteq processed \cup {o}
        /\ upload' = [a \in Admin |-> IF upload[a] = Nothing THEN Nothing
                                       ELSE [upload[a] EXCEPT !.alone = FALSE]]
        /\ UNCHANGED uploads
    BY DEF EditRewards
  <1>2. /\ table' \in [Owner -> Amount \cup {NoRow}]
        /\ RowsIn(table) \cup {o} \subseteq RowsIn(table')
    BY <1>1, FileTypes DEF RowsIn, FilesInv, FilesTypeOK
  <1>3. ASSUME NEW a \in Admin
        PROVE  /\ upload'[a] \in UploadState \cup {Nothing}
               /\ upload'[a] # Nothing => UploadRight(table', processed', upload'[a])
    <2>1. CASE upload[a] = Nothing
      BY <1>1, <2>1
    <2>2. CASE upload[a] # Nothing
      <3> DEFINE u == [upload[a] EXCEPT !.alone = FALSE]
      <3>1. /\ upload[a] \in UploadState /\ upload'[a] = u
            /\ UploadRight(table, processed, upload[a])
        BY <1>1, <2>2 DEF FilesInv, FilesTypeOK, UploadsRight
      <3>2. /\ u \in UploadState /\ u.pc = upload[a].pc /\ u.at = upload[a].at
            /\ u.file = upload[a].file /\ ~u.alone
        BY <3>1 DEF UploadState
      <3> HIDE DEF u
      <3> QED
        BY <3>1, <3>2 DEF UploadRight
    <2> QED
      BY <2>1, <2>2
  <1>4. upload' = [a \in Admin |-> upload'[a]]
    BY <1>1
  <1>5. upload' \in [Admin -> UploadState \cup {Nothing}]
    BY <1>3, <1>4
  <1>6. processed' \subseteq RowsIn(table')
    BY <1>1, <1>2, FileTypes DEF FilesInv, FilesTypeOK
  <1> QED
    BY <1>1, <1>2, <1>3, <1>5, <1>6, FileTypes DEF FilesInv, FilesTypeOK, UploadsRight

LEMMA FilesInductive == FilesInv /\ [FilesNext]_fileVars => FilesInv'
  <1> SUFFICES ASSUME FilesInv, [FilesNext]_fileVars PROVE FilesInv'
    OBVIOUS
  <1>1. ASSUME NEW a \in Admin, UploadStep(a) PROVE FilesInv'
    BY <1>1, ResetInv, FindRowInv, SaveRowInv, DeleteInv, FailInv DEF UploadStep
  <1>2. ASSUME NEW a \in Admin, NEW file \in RewardFile, StartUpload(a, file) PROVE FilesInv'
    BY <1>2, StartInv
  <1>3. ASSUME NEW o \in Edited, NEW amount \in Amount, EditRewards(o, amount) PROVE FilesInv'
    BY <1>3, EditInv
  <1>4. CASE UNCHANGED fileVars
    BY <1>4, FileTypes DEF fileVars, FilesInv, FilesTypeOK, UploadsRight
  <1> QED
    BY <1>1, <1>2, <1>3, <1>4, DieInv DEF FilesNext

(***************************************************************************)
(* An upload of rewards that nothing else wrote into leaves exactly the    *)
(* rows of its file, whatever marks earlier uploads that failed or died    *)
(* have left; one that fails or dies loses nobody's row.                   *)
(***************************************************************************)
THEOREM UploadsExact == FilesSpec => []UploadExact
  <1>1. FilesInv => UploadExact
    <2> SUFFICES ASSUME FilesInv, NEW a \in Admin
                 PROVE  /\ upload[a].pc = "ended" /\ upload[a].alone
                              => table = AmountsOf(upload[a].file)
                        /\ upload[a].pc \in {"failed", "dead"} /\ upload[a].alone
                              => upload[a].before \subseteq Rows
      BY DEF UploadExact
    <2>1. CASE upload[a] = Nothing
      BY <2>1 DEF Nothing
    <2>2. CASE upload[a] # Nothing
      BY <2>2, FileTypes DEF FilesInv, UploadsRight, UploadRight
    <2> QED
      BY <2>1, <2>2
  <1> QED
    BY <1>1, FilesInitInv, FilesInductive, PTL DEF FilesSpec

----------------------------------------------------------------------------
(* Reindexing *)

ReindexSpec == ReindexInit /\ [][ReindexNext]_reindexVars

InDates(ds) == {d \in ds : From <= DateOf[d] /\ DateOf[d] <= Till}
Before(ds, d) == {e \in InDates(ds) : DateOf[e] < DateOf[d]}
Earlier(ds, d) == Cardinality(Before(ds, d))

\* No other deposit has the date of d.
AloneOfDate(ds, d) == \A e \in ds \ {d} : DateOf[e] # DateOf[d]

\* What is owed is sent, or comes after the pages that were read.
ReindexRight(ds, r) ==
    /\ r.status = "reading" =>
           \A d \in r.owed :
               /\ d \in InDates(ds)
               /\ AloneOfDate(ds, d) => d \in r.sent \/ r.page * PageLimit <= Earlier(ds, d)
    /\ r.status \in {"done", "failed"} =>
           \A d \in r.owed : AloneOfDate(ds, d) => d \in r.sent

ReindexInv == ReindexTypeOK /\ ReindexRight(rows, reindex)

LEMMA ReindexTypes ==
    /\ IsFiniteSet(Row) /\ PageLimit \in Nat /\ PageLimit > 0 /\ MaxReindexes \in Nat
    /\ \A d \in Row : DateOf[d] \in Nat
    /\ InRange = InDates(rows)
    /\ \A ds \in SUBSET Row : IsFiniteSet(InDates(ds)) /\ InDates(ds) \subseteq Row
  <1>1. \A ds \in SUBSET Row : InDates(ds) \in SUBSET Row
    BY DEF InDates
  <1>2. \A ds \in SUBSET Row : IsFiniteSet(InDates(ds))
    BY <1>1, FS_Subset, ReindexingAssumption DEF ReindexingAssumption
  <1>3. InRange = InDates(rows)
    BY DEF InRange, InDates
  <1>4. /\ IsFiniteSet(Row) /\ PageLimit \in Nat /\ PageLimit > 0 /\ MaxReindexes \in Nat
        /\ \A d \in Row : DateOf[d] \in Nat
    BY ReindexingAssumption DEF ReindexingAssumption
  <1> QED
    BY <1>1, <1>2, <1>3, <1>4

LEMMA EarlierType ==
    ASSUME NEW ds \in SUBSET Row, NEW d
    PROVE  IsFiniteSet(Before(ds, d)) /\ Earlier(ds, d) \in Nat
  <1>1. Before(ds, d) \in SUBSET InDates(ds)
    BY DEF Before
  <1> QED
    BY <1>1, ReindexTypes, FS_Subset, FS_CardinalityType DEF Earlier

\* What comes first in an order of the dates holds whatever is earlier than one of it, and
\* nothing later than what it leaves out.
LEMMA FirstCut ==
    ASSUME NEW ds, IsFiniteSet(ds), NEW n \in Nat, NEW first \in FirstByDate(ds, n)
    PROVE  /\ first \subseteq ds /\ IsFiniteSet(first) /\ Cardinality(first) \in Nat
           /\ Cardinality(first) <= n
           /\ first # ds => Cardinality(first) = n
           /\ \A d \in first, e \in ds \ first : DateOf[d] <= DateOf[e]
  <1>1. /\ first \in SUBSET ds
        /\ Cardinality(first) = IF n <= Cardinality(ds) THEN n ELSE Cardinality(ds)
        /\ \A d \in first, e \in ds \ first : DateOf[d] <= DateOf[e]
    BY DEF FirstByDate
  <1>2. /\ IsFiniteSet(first) /\ Cardinality(first) \in Nat /\ Cardinality(ds) \in Nat
        /\ first # ds => Cardinality(first) # Cardinality(ds)
    BY <1>1, FS_Subset, FS_CardinalityType
  <1> QED
    BY <1>1, <1>2

\* A deposit with its date alone, past the place a page begins at, is in it or past its end,
\* and then the page is full.
LEMMA NextPageReaches ==
    ASSUME NEW ds \in SUBSET Row, NEW d \in InDates(ds), AloneOfDate(ds, d),
           NEW skip \in Nat, skip <= Earlier(ds, d),
           NEW before \in FirstByDate(InDates(ds), skip),
           NEW page \in FirstByDate(InDates(ds) \ before, PageLimit),
           d \notin page
    PROVE  Cardinality(page) = PageLimit /\ skip + PageLimit <= Earlier(ds, d)
  <1> DEFINE S == InDates(ds)
             rest == S \ before
  <1>1. /\ IsFiniteSet(S) /\ S \subseteq Row /\ IsFiniteSet(rest) /\ PageLimit \in Nat
        /\ \A e \in S : DateOf[e] \in Nat
        /\ IsFiniteSet(Before(ds, d)) /\ Earlier(ds, d) \in Nat
    BY ReindexTypes, EarlierType, FS_Subset
  <1>2. /\ before \subseteq S /\ IsFiniteSet(before) /\ Cardinality(before) \in Nat
        /\ Cardinality(before) <= skip
        /\ before # S => Cardinality(before) = skip
        /\ \A x \in before, e \in S \ before : DateOf[x] <= DateOf[e]
    BY <1>1, FirstCut
  <1>3. /\ page \subseteq rest /\ IsFiniteSet(page) /\ Cardinality(page) \in Nat
        /\ page # rest => Cardinality(page) = PageLimit
        /\ \A x \in page, e \in rest \ page : DateOf[x] <= DateOf[e]
    BY <1>1, FirstCut
  <1>4. \A e \in S : e # d => DateOf[e] # DateOf[d]
    BY DEF AloneOfDate, InDates
  <1>5. d \in S
    OBVIOUS
  <1> HIDE DEF S
  <1>6. d \notin before
    <2> SUFFICES ASSUME d \in before PROVE FALSE
      OBVIOUS
    <2>1. Before(ds, d) \cup {d} \subseteq before
      <3>1. ASSUME NEW e \in Before(ds, d), e \notin before PROVE FALSE
        <4>1. e \in S /\ DateOf[e] < DateOf[d]
          BY <3>1 DEF Before, S
        <4>2. DateOf[d] <= DateOf[e]
          BY <1>2, <3>1, <4>1
        <4> QED
          BY <1>1, <1>5, <4>1, <4>2
      <3> QED
        BY <3>1
    <2>2. d \notin Before(ds, d)
      BY <1>1, <1>5 DEF Before
    <2>3. Cardinality(Before(ds, d) \cup {d}) = Earlier(ds, d) + 1
      BY <1>1, <2>2, FS_AddElement DEF Earlier
    <2>4. Earlier(ds, d) + 1 <= Cardinality(before)
      BY <1>2, <2>1, <2>3, FS_Subset
    <2> QED
      BY <1>1, <1>2, <2>4
  <1>7. /\ d \in rest \ page
        /\ Cardinality(before) = skip /\ Cardinality(page) = PageLimit
    BY <1>2, <1>3, <1>5, <1>6
  <1>8. before \cup page \subseteq Before(ds, d)
    <2>1. \A x \in before \cup page : x \in S /\ x # d /\ DateOf[x] <= DateOf[d]
      BY <1>2, <1>3, <1>5, <1>6, <1>7
    <2> QED
      BY <1>1, <1>4, <1>5, <2>1 DEF Before, S
  <1>9. Cardinality(before \cup page) = skip + PageLimit
    <2>1. before \cap page = {}
      BY <1>3
    <2>2. Cardinality(before \cap page) = 0
      BY <2>1, FS_EmptySet
    <2>3. Cardinality(before \cup page)
              = Cardinality(before) + Cardinality(page) - Cardinality(before \cap page)
      BY <1>2, <1>3, FS_Union
    <2> QED
      BY <1>1, <1>7, <2>2, <2>3
  <1>10. Cardinality(before \cup page) <= Cardinality(Before(ds, d))
    BY <1>1, <1>8, FS_Subset
  <1> QED
    BY <1>7, <1>9, <1>10 DEF Earlier

LEMMA StoreRowInv ==
    ASSUME ReindexInv, NEW d \in Row, StoreRow(d)
    PROVE  ReindexInv'
  <1>1. rows' = rows \cup {d} /\ UNCHANGED <<reindex, reindexes>>
    BY DEF StoreRow
  <1>2. rows \in SUBSET Row /\ rows' \in SUBSET Row /\ reindex.page \in Nat
    BY <1>1 DEF ReindexInv, ReindexTypeOK
  <1>3. InDates(rows) \subseteq InDates(rows')
    BY <1>1 DEF InDates
  <1>4. ASSUME NEW e
        PROVE  /\ Earlier(rows, e) \in Nat /\ Earlier(rows', e) \in Nat
               /\ Earlier(rows, e) <= Earlier(rows', e)
               /\ AloneOfDate(rows', e) => AloneOfDate(rows, e)
    <2>1. Before(rows, e) \subseteq Before(rows', e)
      BY <1>3 DEF Before
    <2>2. AloneOfDate(rows', e) => AloneOfDate(rows, e)
      BY <1>1 DEF AloneOfDate
    <2> QED
      BY <1>2, <2>1, <2>2, EarlierType, FS_Subset DEF Earlier
  <1>5. ReindexRight(rows', reindex)
    <2> DEFINE from == reindex.page * PageLimit
    <2>1. from \in Nat
      BY <1>2, ReindexTypes
    <2>2. reindex.status = "reading" =>
              \A e \in reindex.owed :
                  /\ e \in InDates(rows)
                  /\ AloneOfDate(rows, e) => e \in reindex.sent \/ from <= Earlier(rows, e)
      BY DEF ReindexInv, ReindexRight
    <2>3. reindex.status \in {"done", "failed"} =>
              \A e \in reindex.owed : AloneOfDate(rows', e) => e \in reindex.sent
      BY <1>4 DEF ReindexInv, ReindexRight
    <2> HIDE DEF from
    <2>4. reindex.status = "reading" =>
              \A e \in reindex.owed :
                  /\ e \in InDates(rows')
                  /\ AloneOfDate(rows', e) => e \in reindex.sent \/ from <= Earlier(rows', e)
      BY <1>3, <1>4, <2>1, <2>2
    <2> QED
      BY <2>3, <2>4 DEF from, ReindexRight
  <1> QED
    BY <1>1, <1>2, <1>5 DEF ReindexInv, ReindexTypeOK

LEMMA StartReindexInv ==
    ASSUME ReindexInv, StartReindex
    PROVE  ReindexInv'
  <1> DEFINE r == [status |-> "reading", page |-> 0, owed |-> InDates(rows), sent |-> {}]
  <1>1. /\ reindex' = r /\ rows' = rows /\ reindexes' = reindexes + 1
        /\ reindexes < MaxReindexes /\ rows \in SUBSET Row
    BY ReindexTypes DEF StartReindex, ReindexInv, ReindexTypeOK
  <1>2. InDates(rows) \in SUBSET Row
    BY <1>1, ReindexTypes
  <1>3. 0 * PageLimit = 0
    BY ReindexTypes
  <1>4. ReindexRight(rows, r)
    <2>1. \A d \in InDates(rows) : Earlier(rows, d) \in Nat
      BY <1>1, EarlierType
    <2>2. \A d \in InDates(rows) : 0 * PageLimit <= Earlier(rows, d)
      BY <1>3, <2>1
    <2> QED
      BY <2>2 DEF ReindexRight
  <1> QED
    BY <1>1, <1>2, <1>4, ReindexTypes DEF ReindexInv, ReindexTypeOK

LEMMA ReadPageInv ==
    ASSUME ReindexInv, ReadPage
    PROVE  ReindexInv'
  <1> DEFINE S == InDates(rows)
             from == reindex.page * PageLimit
  <1>1. /\ rows \in SUBSET Row /\ reindex.page \in Nat /\ reindex.status = "reading"
        /\ from \in Nat /\ S \subseteq Row
        /\ (reindex.page + 1) * PageLimit = from + PageLimit
    <2>1. rows \in SUBSET Row /\ reindex.page \in Nat /\ reindex.status = "reading"
      BY DEF ReindexInv, ReindexTypeOK, ReadPage
    <2> QED
      BY <2>1, ReindexTypes
  <1>2. PICK page \in Page(from, PageLimit) :
            reindex' = [reindex EXCEPT
                           !.sent = @ \cup page,
                           !.page = @ + 1,
                           !.status = CASE page = {}                     -> "failed"
                                        [] Cardinality(page) = PageLimit -> "reading"
                                        [] OTHER                         -> "done"]
    BY DEF ReadPage
  <1>3. UNCHANGED <<rows, reindexes>>
    BY DEF ReadPage
  <1>4. PICK before \in FirstByDate(S, from) : page \in FirstByDate(S \ before, PageLimit)
    BY ReindexTypes DEF Page
  <1>5. page \subseteq S
    BY <1>4 DEF FirstByDate
  <1> DEFINE status == CASE page = {}                     -> "failed"
                         [] Cardinality(page) = PageLimit -> "reading"
                         [] OTHER                         -> "done"
  <1>6. status \in {"reading", "done", "failed"}
        /\ (status # "reading" => Cardinality(page) # PageLimit)
    <2>1. page = {} => Cardinality(page) # PageLimit
      <3>1. page = {} => Cardinality(page) = 0
        BY FS_EmptySet
      <3> QED
        BY <3>1, ReindexTypes
    <2> QED
      BY <2>1
  <1>7. ASSUME NEW d \in reindex.owed
        PROVE  /\ d \in S
               /\ AloneOfDate(rows, d) =>
                      \/ d \in reindex.sent \cup page
                      \/ Cardinality(page) = PageLimit /\ from + PageLimit <= Earlier(rows, d)
    <2>1. d \in S /\ (AloneOfDate(rows, d) => d \in reindex.sent \/ from <= Earlier(rows, d))
      BY <1>1 DEF ReindexInv, ReindexRight
    <2> QED
      BY <1>1, <1>4, <2>1, NextPageReaches
  <1> HIDE DEF from, status
  <1>8. /\ reindex' \in [status : {"none", "reading", "done", "failed"}, page : Nat,
                         owed : SUBSET Row, sent : SUBSET Row]
        /\ reindex'.status = status /\ reindex'.owed = reindex.owed
        /\ reindex'.page = reindex.page + 1 /\ reindex'.sent = reindex.sent \cup page
    <2>1. reindex \in [status : {"none", "reading", "done", "failed"}, page : Nat,
                       owed : SUBSET Row, sent : SUBSET Row]
      BY DEF ReindexInv, ReindexTypeOK
    <2>2. reindex' = [reindex EXCEPT !.sent = @ \cup page, !.page = @ + 1, !.status = status]
      BY <1>2 DEF status
    <2>3. reindex.sent \cup page \in SUBSET Row /\ reindex.page + 1 \in Nat
      BY <1>1, <1>5, <2>1
    <2> QED
      BY <1>6, <2>1, <2>2, <2>3
  <1>9. ReindexRight(rows, reindex')
    <2>1. CASE status = "reading"
      <3>1. reindex'.page * PageLimit = from + PageLimit
        BY <1>1, <1>8
      <3> QED
        BY <1>7, <1>8, <2>1, <3>1 DEF ReindexRight
    <2>2. CASE status # "reading"
      BY <1>6, <1>7, <1>8, <2>2 DEF ReindexRight
    <2> QED
      BY <2>1, <2>2
  <1> QED
    BY <1>1, <1>3, <1>8, <1>9 DEF ReindexInv, ReindexTypeOK

LEMMA ReindexInductive == ReindexInv /\ [ReindexNext]_reindexVars => ReindexInv'
  <1> SUFFICES ASSUME ReindexInv, [ReindexNext]_reindexVars PROVE ReindexInv'
    OBVIOUS
  <1>1. CASE UNCHANGED reindexVars
    BY <1>1 DEF reindexVars, ReindexInv, ReindexTypeOK
  <1> QED
    BY <1>1, StoreRowInv, StartReindexInv, ReadPageInv DEF ReindexNext

(***************************************************************************)
(* A request that reindexes the deposits of a range of dates has published *)
(* every deposit that was dated in the range when it began, whatever is    *)
(* stored while it reads its pages and however the database orders those   *)
(* of one date, unless the deposit is one of several of its date.          *)
(***************************************************************************)
THEOREM ReindexMissesNone == ReindexSpec => []ReindexCovers
  <1>1. ReindexInit => ReindexInv
    BY ReindexTypes DEF ReindexInit, ReindexInv, ReindexTypeOK, ReindexRight
  <1>2. ReindexInv => ReindexCovers
    BY DEF ReindexInv, ReindexRight, ReindexCovers, AloneOfDate
  <1> QED
    BY <1>1, <1>2, ReindexInductive, PTL DEF ReindexSpec

----------------------------------------------------------------------------
(* The pages of the lists of deposits *)

PagesSpec == PagesInit /\ [][PagesNext]_pageVars

ListState ==
    [pc : {"none", "reading", "read", "refused"}, query : TxPage \cup OtherLists,
     offset : Nat, got : SUBSET Listed, stayed : SUBSET Listed, moved : BOOLEAN]

\* The order of a query as that of a number, where b is above all dates.
PendingAhead(q, st, b, d) == IF q.pendingFirst /\ st[d] # "filled" THEN b ELSE 0
ListKey(q, st, b) == [d \in Listed |-> ListedDate[d] + PendingAhead(q, st, b, d)]
AboveDates(b) == b \in Nat /\ \A d \in Listed : ListedDate[d] < b

\* Above, of a query and of what the deposits are.
OutRanks(q, st, d, e) ==
    LET first == st[d] # "filled" /\ st[e] = "filled"
        last == st[d] = "filled" /\ st[e] # "filled"
    IN  IF q.pendingFirst /\ (first \/ last) THEN first ELSE ListedDate[d] > ListedDate[e]

InFront(q, ds, st, d) == {e \in Fitting(q, ds, st) : OutRanks(q, st, e, d)}

OnlyOfDate(d) == \A e \in Listed \ {d} : ListedDate[e] # ListedDate[d]

\* What stayed in the list was got, or comes after the pages that were read.
ListRight(l, ds, st) ==
    /\ l.pc = "reading" => l.stayed \subseteq Fitting(l.query, ds, st)
    /\ l.pc = "reading" /\ ~l.moved =>
           \A d \in l.stayed : OnlyOfDate(d) =>
               d \in l.got \/ l.offset <= Cardinality(InFront(l.query, ds, st, d))
    /\ l.pc = "read" /\ ~l.moved => \A d \in l.stayed : OnlyOfDate(d) => d \in l.got

PagesInv == PagesTypeOK /\ ListRight(list, shown, standing)

LEMMA PagesTypes ==
    /\ IsFiniteSet(Listed) /\ PageSize \in Nat /\ PageSize > 0 /\ MaxLists \in Nat
    /\ \A d \in Listed : ListedDate[d] \in Nat
    /\ NoFilter \in OtherLists
    /\ \A q : Matching(q) = Fitting(q, shown, standing)
  <1>1. NoFilter \in OtherLists
    BY DEF NoFilter, OtherLists
  <1> QED
    BY <1>1, DepositPagesAssumption DEF DepositPagesAssumption, Matching

LEMMA PagesTypeIs ==
    /\ PagesTypeOK <=> /\ shown \in SUBSET Listed /\ standing \in [Listed -> Standing]
                       /\ list \in ListState /\ lists \in 0..MaxLists
    /\ PagesTypeOK' <=> /\ shown' \in SUBSET Listed /\ standing' \in [Listed -> Standing]
                        /\ list' \in ListState /\ lists' \in 0..MaxLists
  BY DEF PagesTypeOK, ListState

LEMMA FittingFinite ==
    ASSUME NEW q, NEW ds \in SUBSET Listed, NEW st
    PROVE  /\ IsFiniteSet(Fitting(q, ds, st)) /\ Fitting(q, ds, st) \subseteq Listed
           /\ \A d : IsFiniteSet(InFront(q, ds, st, d))
                     /\ Cardinality(InFront(q, ds, st, d)) \in Nat
  <1>1. Fitting(q, ds, st) \in SUBSET Listed
    BY DEF Fitting
  <1>2. IsFiniteSet(Fitting(q, ds, st))
    BY <1>1, FS_Subset, PagesTypes
  <1>3. ASSUME NEW d
        PROVE  IsFiniteSet(InFront(q, ds, st, d)) /\ Cardinality(InFront(q, ds, st, d)) \in Nat
    <2>1. InFront(q, ds, st, d) \in SUBSET Fitting(q, ds, st)
      BY DEF InFront
    <2> QED
      BY <1>2, <2>1, FS_Subset, FS_CardinalityType
  <1> QED
    BY <1>1, <1>2, <1>3

LEMMA DatesBounded == \E b : AboveDates(b)
  <1>1. CASE Listed = {}
    BY <1>1 DEF AboveDates
  <1>2. CASE Listed # {}
    <2>1. PICK x \in Listed : \A d \in Listed : ListedDate[d] <= ListedDate[x]
      <3>1. \A d \in Listed : ListedDate[d] \in Int
        BY PagesTypes
      <3> QED
        BY <1>2, <3>1, PagesTypes, GreatestExists
    <2>2. AboveDates(ListedDate[x] + 1)
      BY <2>1, PagesTypes DEF AboveDates
    <2> QED
      BY <2>2
  <1> QED
    BY <1>1, <1>2

\* The order is that of the numbers.
LEMMA KeyOrders ==
    ASSUME NEW q, NEW st, NEW b, AboveDates(b), NEW d \in Listed, NEW e \in Listed
    PROVE  /\ ListKey(q, st, b)[d] \in Int
           /\ OutRanks(q, st, d, e) <=> ListKey(q, st, b)[d] > ListKey(q, st, b)[e]
           /\ ListKey(q, st, b)[d] = ListKey(q, st, b)[e] => ListedDate[d] = ListedDate[e]
  <1>1. /\ ListKey(q, st, b)[d] = ListedDate[d] + PendingAhead(q, st, b, d)
        /\ ListKey(q, st, b)[e] = ListedDate[e] + PendingAhead(q, st, b, e)
    BY DEF ListKey
  <1>2. /\ ListedDate[d] \in Nat /\ ListedDate[e] \in Nat /\ b \in Nat
        /\ ListedDate[d] < b /\ ListedDate[e] < b
    BY PagesTypes DEF AboveDates
  <1> QED
    BY <1>1, <1>2 DEF PendingAhead, OutRanks

\* The pages of a query, by that order.
LEMMA PagesByKey ==
    ASSUME shown \in SUBSET Listed, NEW q, NEW offset \in Nat, NEW b, AboveDates(b),
           NEW page \in Pages(q, offset)
    PROVE  LET S == Fitting(q, shown, standing)
               key == ListKey(q, standing, b)
           IN  /\ page \in SUBSET S
               /\ \A x \in S : key[x] \in Int
                               /\ Ahead(S, key, x) = InFront(q, shown, standing, x)
               /\ \A x \in S : Common(page, Alike(S, key, x))
                                   = Common(Span(offset, PageSize), Places(S, key, x))
  <1> DEFINE S == Fitting(q, shown, standing)
             key == ListKey(q, standing, b)
             alike(d) == {e \in S : ~Above(q, d, e) /\ ~Above(q, e, d)}
             first(d) == Cardinality({e \in S : Above(q, e, d)})
             places(d) == first(d)..(first(d) + Cardinality(alike(d)) - 1)
  <1>1. /\ page \in SUBSET S
        /\ \A d \in S : Cardinality(page \cap alike(d))
                            = Cardinality(places(d) \cap offset..(offset + PageSize - 1))
    <2>1. Matching(q) = S
      BY PagesTypes
    <2> HIDE DEF S
    <2> QED
      BY <2>1 DEF Pages
  <1>2. S \subseteq Listed
    BY FittingFinite
  <1>3. \A d, e : Above(q, d, e) <=> OutRanks(q, standing, d, e)
    BY DEF Above, OutRanks
  <1>4. \A d, e \in S : /\ key[d] \in Int /\ key[e] \in Int
                        /\ Above(q, d, e) <=> key[d] > key[e]
    <2> HIDE DEF S, key
    <2>1. \A d, e \in S : /\ key[d] \in Int /\ key[e] \in Int
                          /\ OutRanks(q, standing, d, e) <=> key[d] > key[e]
      BY <1>2, KeyOrders DEF key
    <2> QED
      BY <1>3, <2>1
  <1> HIDE DEF S, key
  <1>5. ASSUME NEW x \in S
        PROVE  /\ Ahead(S, key, x) = {e \in S : Above(q, e, x)}
               /\ Ahead(S, key, x) = InFront(q, shown, standing, x)
               /\ Alike(S, key, x) = alike(x)
    <2>1. Ahead(S, key, x) = {e \in S : Above(q, e, x)}
      BY <1>4 DEF Ahead
    <2>2. {e \in S : Above(q, e, x)} = InFront(q, shown, standing, x)
      BY <1>3 DEF InFront, S
    <2>3. Alike(S, key, x) = alike(x)
      <3>1. \A e \in S : key[e] = key[x] <=> ~Above(q, x, e) /\ ~Above(q, e, x)
        BY <1>4
      <3> QED
        BY <3>1 DEF Alike
    <2> QED
      BY <2>1, <2>2, <2>3
  <1>6. ASSUME NEW x \in S
        PROVE  Common(page, Alike(S, key, x)) = Common(Span(offset, PageSize), Places(S, key, x))
    <2>1. Places(S, key, x) = places(x)
      BY <1>5 DEF Places, Span
    <2>2. Cardinality(page \cap alike(x)) = Common(page, Alike(S, key, x))
      BY <1>5 DEF Common
    <2>3. places(x) \cap offset..(offset + PageSize - 1)
              = Span(offset, PageSize) \cap Places(S, key, x)
      <3> HIDE DEF places
      <3> QED
        BY <2>1 DEF Span
    <2> QED
      BY <1>1, <2>2, <2>3 DEF Common
  <1> QED
    BY <1>1, <1>4, <1>5, <1>6 DEF S, key

----------------------------------------------------------------------------
LEMMA BecomeInv ==
    ASSUME PagesInv, NEW ds \in SUBSET Listed, NEW st \in [Listed -> Standing], Become(ds, st)
    PROVE  PagesInv'
  <1> DEFINE q == list.query
             before == Fitting(q, shown, standing)
             after == Fitting(q, ds, st)
             left == \E d \in before :
                         d \notin after \/ (q.pendingFirst /\ st[d] # standing[d])
             l == [list EXCEPT !.stayed = @ \cap after, !.moved = @ \/ left]
  <1>1. /\ shown' = ds /\ standing' = st /\ UNCHANGED lists
        /\ list' = IF list.pc # "reading" THEN list ELSE l
    BY PagesTypes DEF Become
  <1>2. /\ list \in ListState /\ shown \in SUBSET Listed /\ lists \in 0..MaxLists
        /\ ListRight(list, shown, standing)
    BY PagesTypeIs DEF PagesInv
  <1>3. CASE list.pc # "reading"
    BY <1>1, <1>2, <1>3, PagesTypeIs DEF PagesInv, ListRight
  <1>4. CASE list.pc = "reading"
    <2>1. left \in BOOLEAN /\ (~left => \A d \in before :
              d \in after /\ (q.pendingFirst => st[d] = standing[d]))
      OBVIOUS
    <2> HIDE DEF left, before, after
    <2>2. /\ l \in ListState /\ l.pc = "reading" /\ l.query = q /\ l.offset = list.offset
          /\ l.got = list.got /\ l.stayed = list.stayed \cap after
          /\ l.moved = (list.moved \/ left)
      BY <1>2, <1>4, <2>1 DEF ListState
    <2> HIDE DEF l
    <2>3. ASSUME ~left, NEW d \in before
          PROVE  Cardinality(InFront(q, shown, standing, d)) <= Cardinality(InFront(q, ds, st, d))
      <3>1. ASSUME NEW e \in before, OutRanks(q, standing, e, d)
            PROVE  e \in after /\ OutRanks(q, st, e, d)
        BY <2>1, <2>3, <3>1 DEF OutRanks
      <3>2. InFront(q, shown, standing, d) \in SUBSET InFront(q, ds, st, d)
        BY <3>1 DEF InFront, before, after
      <3>3. IsFiniteSet(InFront(q, ds, st, d))
        BY FittingFinite
      <3> QED
        BY <3>2, <3>3, FS_Subset
    <2>4. ASSUME ~l.moved, NEW d \in l.stayed, OnlyOfDate(d)
          PROVE  d \in l.got \/ l.offset <= Cardinality(InFront(l.query, ds, st, d))
      <3>1. ~left /\ ~list.moved /\ d \in list.stayed
        BY <2>2, <2>4
      <3>2. d \in before /\ (d \in list.got
                \/ list.offset <= Cardinality(InFront(q, shown, standing, d)))
        BY <1>2, <1>4, <2>4, <3>1 DEF ListRight, before
      <3>3. /\ Cardinality(InFront(q, shown, standing, d)) \in Nat
            /\ Cardinality(InFront(q, ds, st, d)) \in Nat
        BY <1>2, FittingFinite
      <3>4. list.offset \in Nat
        BY <1>2 DEF ListState
      <3>5. Cardinality(InFront(q, shown, standing, d)) <= Cardinality(InFront(q, ds, st, d))
        BY <2>3, <3>1, <3>2
      <3> DEFINE a == Cardinality(InFront(q, shown, standing, d))
                 b == Cardinality(InFront(q, ds, st, d))
      <3>6. a \in Nat /\ b \in Nat /\ a <= b /\ (d \in list.got \/ list.offset <= a)
        BY <3>2, <3>3, <3>5
      <3> HIDE DEF a, b
      <3>7. d \in list.got \/ list.offset <= b
        BY <3>4, <3>6
      <3> QED
        BY <2>2, <3>7 DEF b
    <2>5. ListRight(l, ds, st)
      BY <2>2, <2>4 DEF ListRight, after
    <2> QED
      BY <1>1, <1>2, <1>4, <2>2, <2>5, PagesTypeIs DEF PagesInv
  <1> QED
    BY <1>3, <1>4

LEMMA OpenListInv ==
    ASSUME PagesInv, NEW q \in TxPage \cup OtherLists, OpenList(q)
    PROVE  PagesInv'
  <1> DEFINE l == [pc |-> "reading", query |-> q, offset |-> 0, got |-> {},
                   stayed |-> Fitting(q, shown, standing), moved |-> FALSE]
  <1>1. /\ list' = l /\ lists' = lists + 1 /\ lists < MaxLists
        /\ UNCHANGED <<shown, standing>>
    BY PagesTypes DEF OpenList
  <1>2. shown \in SUBSET Listed /\ standing \in [Listed -> Standing] /\ lists \in 0..MaxLists
    BY PagesTypeIs DEF PagesInv
  <1>3. l \in ListState
    <2>1. Fitting(q, shown, standing) \in SUBSET Listed
      BY <1>2, FittingFinite
    <2> QED
      BY <2>1 DEF ListState
  <1>4. \A d : 0 <= Cardinality(InFront(q, shown, standing, d))
    <2>1. \A d : Cardinality(InFront(q, shown, standing, d)) \in Nat
      BY <1>2, FittingFinite
    <2> QED
      BY <2>1
  <1>5. ListRight(l, shown, standing)
    BY <1>4 DEF ListRight
  <1>6. lists' \in 0..MaxLists
    BY <1>1, <1>2, PagesTypes
  <1> HIDE DEF l
  <1> QED
    BY <1>1, <1>2, <1>3, <1>5, <1>6, PagesTypeIs DEF PagesInv

\* A deposit that is not got has its place in the page, or after it, and then the page is full.
LEMMA PageReaches ==
    ASSUME shown \in SUBSET Listed, NEW q, NEW offset \in Nat, NEW page \in Pages(q, offset),
           NEW d \in Fitting(q, shown, standing), OnlyOfDate(d),
           offset <= Cardinality(InFront(q, shown, standing, d)), d \notin page
    PROVE  /\ offset + PageSize <= Cardinality(InFront(q, shown, standing, d))
           /\ Cardinality(page) = PageSize
  <1> DEFINE S == Fitting(q, shown, standing)
             first == Cardinality(InFront(q, shown, standing, d))
  <1>1. PICK b : AboveDates(b)
    BY DatesBounded
  <1> DEFINE key == ListKey(q, standing, b)
  <1>2. /\ page \in SUBSET S
        /\ \A x \in S : key[x] \in Int
        /\ Ahead(S, key, d) = InFront(q, shown, standing, d)
        /\ \A x \in S : Common(page, Alike(S, key, x))
                            = Common(Span(offset, PageSize), Places(S, key, x))
    BY <1>1, PagesByKey
  <1>3. IsFiniteSet(S) /\ S \subseteq Listed /\ first \in Nat
    BY FittingFinite
  <1>4. Alike(S, key, d) = {d}
    <2>1. \A e \in S : key[e] = key[d] => ListedDate[e] = ListedDate[d]
      BY <1>1, <1>3, KeyOrders
    <2>2. \A e \in S : key[e] = key[d] => e = d
      BY <1>3, <2>1 DEF OnlyOfDate
    <2> HIDE DEF S, key
    <2> QED
      BY <2>2 DEF Alike, S
  <1> HIDE DEF S, key
  <1>5. Places(S, key, d) = Span(first, 1)
    BY <1>2, <1>4, FS_Singleton DEF Places
  <1>6. Common(page, {d}) = 0
    <2>1. page \cap {d} = {}
      OBVIOUS
    <2> QED
      BY <2>1, FS_EmptySet DEF Common
  <1>7. d \in S
    BY DEF S
  <1>8. Common(Span(offset, PageSize), Span(first, 1)) = 0
    BY <1>2, <1>4, <1>5, <1>6, <1>7
  <1> HIDE DEF first
  <1>9. offset + PageSize <= first
    <2> SUFFICES ASSUME ~(offset + PageSize <= first) PROVE FALSE
      OBVIOUS
    <2>1. offset <= first
      BY DEF first
    <2>2. Span(offset, PageSize) \cap Span(first, 1) = {first}
      BY <1>3, <2>1, PagesTypes DEF Span
    <2>3. Cardinality({first}) = 1
      BY FS_Singleton
    <2> QED
      BY <1>8, <2>2, <2>3 DEF Common
  <1>10. Cardinality(page) = PageSize
    <2>1. Cardinality(Ahead(S, key, d)) >= offset + PageSize
      BY <1>2, <1>3, <1>9, PagesTypes DEF first
    <2> QED
      BY <1>2, <1>3, <1>7, <2>1, PageFull, PagesTypes
  <1> QED
    BY <1>9, <1>10 DEF first

LEMMA ReadPageAtInv ==
    ASSUME PagesInv, ReadPageAt
    PROVE  PagesInv'
  <1> DEFINE q == list.query
  <1>1. /\ list \in ListState /\ shown \in SUBSET Listed /\ lists \in 0..MaxLists
        /\ standing \in [Listed -> Standing] /\ list.pc = "reading"
        /\ ListRight(list, shown, standing) /\ UNCHANGED <<shown, standing, lists>>
    BY PagesTypeIs DEF PagesInv, ReadPageAt
  <1>2. PICK page \in Pages(q, list.offset) :
            list' = [list EXCEPT
                        !.got = @ \cup page,
                        !.offset = @ + PageSize,
                        !.pc = IF Cardinality(page) < PageSize THEN "read" ELSE "reading"]
    BY DEF ReadPageAt
  <1> DEFINE pc == IF Cardinality(page) < PageSize THEN "read" ELSE "reading"
  <1>3. page \in SUBSET Listed /\ list.offset \in Nat
    <2>1. page \in SUBSET Matching(q)
      BY DEF Pages
    <2> QED
      BY <1>1, <2>1, FittingFinite, PagesTypes DEF ListState
  <1>4. pc \in {"read", "reading"}
    OBVIOUS
  <1>5. /\ list' \in ListState /\ list'.pc = pc /\ list'.query = q /\ list'.moved = list.moved
        /\ list'.stayed = list.stayed /\ list'.got = list.got \cup page
        /\ list'.offset = list.offset + PageSize
    <2> HIDE DEF pc
    <2>1. list' = [list EXCEPT !.got = @ \cup page, !.offset = @ + PageSize, !.pc = pc]
      BY <1>2 DEF pc
    <2>2. list.got \cup page \in SUBSET Listed /\ list.offset + PageSize \in Nat
      BY <1>1, <1>3, PagesTypes DEF ListState
    <2> QED
      BY <1>1, <1>4, <2>1, <2>2 DEF ListState
  <1>6. list.stayed \subseteq Fitting(q, shown, standing)
    BY <1>1 DEF ListRight
  <1>7. ASSUME ~list.moved, NEW d \in list.stayed, OnlyOfDate(d), d \notin list.got \cup page
        PROVE  /\ list.offset + PageSize <= Cardinality(InFront(q, shown, standing, d))
               /\ pc = "reading"
    <2>1. list.offset <= Cardinality(InFront(q, shown, standing, d))
      BY <1>1, <1>7 DEF ListRight
    <2>2. /\ list.offset + PageSize <= Cardinality(InFront(q, shown, standing, d))
          /\ Cardinality(page) = PageSize
      BY <1>1, <1>3, <1>6, <1>7, <2>1, PageReaches
    <2> QED
      BY <2>2, PagesTypes
  <1> HIDE DEF pc
  <1>8. ListRight(list', shown, standing)
    BY <1>4, <1>5, <1>6, <1>7 DEF ListRight
  <1> QED
    BY <1>1, <1>5, <1>8, PagesTypeIs DEF PagesInv

LEMMA RefuseInv ==
    ASSUME PagesInv, RefuseOffset
    PROVE  PagesInv'
  <1>1. list \in ListState /\ list' = [list EXCEPT !.pc = "refused"]
        /\ UNCHANGED <<shown, standing, lists>>
    BY PagesTypeIs DEF PagesInv, RefuseOffset
  <1>2. list' \in ListState /\ list'.pc = "refused"
    BY <1>1 DEF ListState
  <1> QED
    BY <1>1, <1>2, PagesTypeIs DEF PagesInv, ListRight

LEMMA PagesInductive == PagesInv /\ [PagesNext]_pageVars => PagesInv'
  <1> SUFFICES ASSUME PagesInv, [PagesNext]_pageVars PROVE PagesInv'
    OBVIOUS
  <1>1. ASSUME NEW d \in Listed, DateListed(d) PROVE PagesInv'
    <2>1. shown \cup {d} \in SUBSET Listed /\ standing \in [Listed -> Standing]
      BY PagesTypeIs DEF PagesInv
    <2> QED
      BY <1>1, <2>1, BecomeInv DEF DateListed
  <1>2. ASSUME NEW d \in Listed, Redirect(d) PROVE PagesInv'
    <2>1. shown \ {d} \in SUBSET Listed /\ standing \in [Listed -> Standing]
      BY PagesTypeIs DEF PagesInv
    <2> QED
      BY <1>2, <2>1, BecomeInv DEF Redirect
  <1>3. ASSUME NEW d \in Listed, NEW to \in Standing, ChangeStanding(d, to) PROVE PagesInv'
    <2>1. shown \in SUBSET Listed /\ [standing EXCEPT ![d] = to] \in [Listed -> Standing]
      BY PagesTypeIs DEF PagesInv
    <2> QED
      BY <1>3, <2>1, BecomeInv DEF ChangeStanding
  <1>4. CASE UNCHANGED pageVars
    BY <1>4, PagesTypeIs DEF pageVars, PagesInv
  <1> QED
    BY <1>1, <1>2, <1>3, <1>4, OpenListInv, ReadPageAtInv, RefuseInv DEF PagesNext

(***************************************************************************)
(* A reader of all pages of a list of deposits has seen each that was in   *)
(* it all the while and shares its date with none, unless one has left the *)
(* list or moved back: deposits that come into it, at whatever place, do   *)
(* not hide another.                                                       *)
(***************************************************************************)
THEOREM PagesMissNone == PagesSpec => []PagesCover
  <1>1. PagesInit => PagesInv
    BY PagesTypes DEF PagesInit, PagesInv, PagesTypeOK, ListRight, Standing
  <1>2. PagesInv => PagesCover
    <2> SUFFICES ASSUME PagesInv, list.pc = "read", ~list.moved, NEW d \in list.stayed
                 PROVE  d \in list.got \/ \E e \in Listed \ {d} : ListedDate[e] = ListedDate[d]
      BY DEF PagesCover
    <2> QED
      BY DEF PagesInv, ListRight, OnlyOfDate
  <1> QED
    BY <1>1, <1>2, PagesInductive, PTL DEF PagesSpec

----------------------------------------------------------------------------
(* The speed-ups of deposits of V2 *)

SpeedSpec == SpeedInit /\ [][SpeedNext]_speedVars

\* The speed-ups of a row, the latest block first, and no one twice.
Descending(speedUps) ==
    \A i, j \in 1..Len(speedUps) :
        i < j => SpeedUpBlock[speedUps[i]] >= SpeedUpBlock[speedUps[j]]

Distinct(speedUps) ==
    \A i, j \in 1..Len(speedUps) : speedUps[i] = speedUps[j] => i = j

FirstOf(speedUps) == IF speedUps = <<>> THEN Original ELSE speedUps[1]

\* The columns are of the first speed-up.
RowRight(row) ==
    /\ Descending(row.speedUps) /\ Distinct(row.speedUps)
    /\ row.fee = FirstOf(row.speedUps)
    /\ (\A s \in SpeedUp : Updates[s]) => row.recipient = row.fee

\* What the job read is still the row.
JobAgrees(row, job) ==
    job # NoJob =>
        /\ job.pc = "write" /\ job.speedUp \in SpeedUp
        /\ job.row = row /\ row.stored /\ ~Has(row, job.speedUp)

\* A speed-up that was read waits, is being written, or is in the row.
NoneLost(row, waiting, toRead, job) ==
    \A s \in SpeedUp :
        toRead[s] < Copies =>
            \/ waiting[s] > 0
            \/ job # NoJob /\ job.speedUp = s
            \/ Has(row, s)

SpeedInv ==
    /\ SpeedTypeOK
    /\ RowRight(sped)
    /\ JobAgrees(sped, consumer)
    /\ NoneLost(sped, requested, unread, consumer)

LEMMA IntervalSize ==
    ASSUME NEW m \in Nat
    PROVE  IsFiniteSet(1..m) /\ Cardinality(1..m) = m
  <1>1. IsFiniteSet(1..m) /\ Cardinality(1..m) = IF 1 > m THEN 0 ELSE m - 1 + 1
    BY FS_Interval
  <1> QED
    BY <1>1

\* Where a speed-up goes: after those of its block and of later ones, which come first.
LEMMA PlaceOfSpeedUp ==
    ASSUME NEW speedUps \in Seq(SpeedUp), Descending(speedUps), NEW s \in SpeedUp
    PROVE  LET later == {i \in 1..Len(speedUps) :
                            SpeedUpBlock[speedUps[i]] >= SpeedUpBlock[s]}
           IN  /\ Cardinality(later) \in 0..Len(speedUps)
               /\ later = 1..Cardinality(later)
  <1> DEFINE n == Len(speedUps)
             later == {i \in 1..n : SpeedUpBlock[speedUps[i]] >= SpeedUpBlock[s]}
             k == Cardinality(later)
  <1>1. n \in Nat /\ IsFiniteSet(1..n) /\ Cardinality(1..n) = n
    BY IntervalSize
  <1>2. IsFiniteSet(later) /\ k \in Nat /\ k <= n
    <2>1. later \subseteq 1..n
      OBVIOUS
    <2>2. IsFiniteSet(later) /\ Cardinality(later) <= Cardinality(1..n)
      BY <1>1, <2>1, FS_Subset
    <2> QED
      BY <1>1, <2>2, FS_CardinalityType
  <1>3. ASSUME NEW i \in 1..n, NEW j \in 1..n, i \in later, j < i PROVE j \in later
    <2>1. /\ SpeedUpBlock[speedUps[i]] \in Nat /\ SpeedUpBlock[speedUps[j]] \in Nat
          /\ SpeedUpBlock[s] \in Nat
      BY SpeedUpsAssumption DEF SpeedUpsAssumption
    <2> QED
      BY <1>3, <2>1 DEF Descending
  <1>4. ASSUME NEW i \in 1..n, i \in later PROVE i <= k
    <2>1. 1..i \subseteq later
      BY <1>3, <1>4
    <2>2. Cardinality(1..i) = i
      BY IntervalSize
    <2>3. Cardinality(1..i) <= Cardinality(later)
      BY <1>2, <2>1, FS_Subset
    <2> QED
      BY <2>2, <2>3
  <1>5. ASSUME NEW i \in 1..n, i \notin later PROVE k < i
    <2>1. later \subseteq 1..(i - 1)
      BY <1>1, <1>3, <1>5
    <2>2. /\ IsFiniteSet(1..(i - 1)) /\ Cardinality(1..(i - 1)) = i - 1
      BY IntervalSize
    <2>3. k <= i - 1
      BY <2>1, <2>2, FS_Subset
    <2> QED
      BY <1>2, <2>3
  <1>6. later = 1..k
    <2> HIDE DEF k
    <2> QED
      BY <1>1, <1>2, <1>4, <1>5
  <1> QED
    BY <1>1, <1>2, <1>6

\* What the consumer writes for the speed-ups.
LEMMA ByBlockResult ==
    ASSUME NEW speedUps \in Seq(SpeedUp), Descending(speedUps), Distinct(speedUps),
           NEW s \in SpeedUp, \A i \in 1..Len(speedUps) : speedUps[i] # s
    PROVE  LET sorted == ByBlock(speedUps, s)
           IN  /\ sorted \in Seq(SpeedUp) /\ Len(sorted) = Len(speedUps) + 1
               /\ Descending(sorted) /\ Distinct(sorted)
               /\ \A i \in 1..Len(speedUps) :
                     \E j \in 1..(Len(speedUps) + 1) : sorted[j] = speedUps[i]
               /\ \E j \in 1..(Len(speedUps) + 1) : sorted[j] = s
  <1> DEFINE n == Len(speedUps)
             later == {i \in 1..n : SpeedUpBlock[speedUps[i]] >= SpeedUpBlock[s]}
             k == Cardinality(later)
             sorted == ByBlock(speedUps, s)
  <1>1. n \in Nat /\ k \in 0..n /\ later = 1..k
    BY PlaceOfSpeedUp
  <1>2. \A i \in 1..n : (i <= k <=> SpeedUpBlock[speedUps[i]] >= SpeedUpBlock[s])
    BY <1>1
  <1>3. sorted = InsertAt(speedUps, k + 1, s)
    BY DEF ByBlock
  <1> HIDE DEF k, sorted
  <1>4. /\ sorted \in Seq(SpeedUp) /\ Len(sorted) = n + 1
        /\ \A i \in 1..(n + 1) : sorted[i] = IF i <= k THEN speedUps[i]
                                            ELSE IF i = k + 1 THEN s ELSE speedUps[i - 1]
    <2> DEFINE front == SubSeq(speedUps, 1, k)
               back == SubSeq(speedUps, k + 1, n)
    <2>1. k \in Nat /\ (k + 1) - 1 = k /\ k <= n
      BY <1>1
    <2>2. /\ front \in Seq(SpeedUp) /\ Len(front) = k
          /\ \A i \in 1..k : front[i] = speedUps[i]
      BY <1>1, <2>1
    <2>3. /\ back \in Seq(SpeedUp) /\ Len(back) = n - k
          /\ \A i \in 1..(n - k) : back[i] = speedUps[k + i]
      BY <1>1, <2>1
    <2>4. sorted = front \o <<s>> \o back
      <3>1. sorted = SubSeq(speedUps, 1, (k + 1) - 1) \o <<s>> \o SubSeq(speedUps, k + 1, n)
        BY <1>3, Zenon DEF InsertAt
      <3> QED
        BY <2>1, <3>1, Zenon
    <2> HIDE DEF front, back
    <2> DEFINE first == front \o <<s>>
    <2>5. /\ first \in Seq(SpeedUp) /\ Len(first) = k + 1
          /\ \A i \in 1..(k + 1) : first[i] = IF i <= k THEN speedUps[i] ELSE s
      BY <1>1, <2>1, <2>2
    <2>6. sorted = first \o back
      BY <2>4
    <2> HIDE DEF first
    <2>7. sorted \in Seq(SpeedUp) /\ Len(sorted) = n + 1
      <3> DEFINE Ups == Seq(SpeedUp)
      <3>1. first \o back \in Ups
        BY <2>3, <2>5
      <3>2. Len(first \o back) = Len(first) + Len(back)
        <4>1. first \in Seq(SpeedUp) /\ back \in Seq(SpeedUp)
          BY <2>3, <2>5
        <4> QED
          BY <4>1
      <3> HIDE DEF Ups
      <3>3. sorted \in Ups /\ Len(sorted) = Len(first) + Len(back)
        BY <2>6, <3>1, <3>2
      <3> QED
        BY <1>1, <2>1, <2>3, <2>5, <3>3 DEF Ups
    <2>8. ASSUME NEW i \in 1..(n + 1)
          PROVE  sorted[i] = IF i <= k THEN speedUps[i]
                             ELSE IF i = k + 1 THEN s ELSE speedUps[i - 1]
      <3>1. CASE i <= k + 1
        BY <1>1, <2>1, <2>3, <2>5, <2>6, <3>1
      <3>2. CASE i > k + 1
        <4> DEFINE m == i - (k + 1)
        <4>1. sorted[i] = back[m]
          BY <1>1, <2>1, <2>3, <2>5, <2>6, <3>2
        <4>2. m \in 1..(n - k) /\ k + m = i - 1 /\ ~(i <= k) /\ i # k + 1
          BY <1>1, <2>1, <3>2
        <4> HIDE DEF m
        <4>3. back[m] = speedUps[k + m]
          BY <2>3, <4>2
        <4> QED
          BY <4>1, <4>2, <4>3, Zenon
      <3> QED
        BY <1>1, <2>1, <3>1, <3>2
    <2> QED
      BY <2>7, <2>8
  <1>5. \A i \in 1..n : speedUps[i] \in SpeedUp /\ speedUps[i] # s
    OBVIOUS
  <1>6. SpeedUpBlock[s] \in Nat /\ \A i \in 1..n : SpeedUpBlock[speedUps[i]] \in Nat
    BY <1>5, SpeedUpsAssumption DEF SpeedUpsAssumption
  <1>7. Descending(sorted)
    <2> SUFFICES ASSUME NEW i \in 1..(n + 1), NEW j \in 1..(n + 1), i < j
                 PROVE  SpeedUpBlock[sorted[i]] >= SpeedUpBlock[sorted[j]]
      BY <1>4 DEF Descending
    <2>1. CASE j <= k
      BY <1>1, <1>4, <2>1 DEF Descending
    <2>2. CASE j = k + 1
      BY <1>1, <1>2, <1>4, <2>2
    <2>3. CASE i = k + 1 /\ j > k + 1
      <3>1. j - 1 \in 1..n /\ ~(j - 1 <= k)
        BY <1>1, <2>3
      <3>2. sorted[i] = s /\ sorted[j] = speedUps[j - 1]
        BY <1>1, <1>4, <2>3
      <3> QED
        BY <1>2, <1>6, <3>1, <3>2
    <2>4. CASE i <= k /\ j > k + 1
      <3>1. i \in 1..n /\ j - 1 \in 1..n /\ i < j - 1
        BY <1>1, <2>4
      <3>2. sorted[i] = speedUps[i] /\ sorted[j] = speedUps[j - 1]
        BY <1>1, <1>4, <2>4
      <3> QED
        BY <3>1, <3>2 DEF Descending
    <2>5. CASE i > k + 1
      <3>1. i - 1 \in 1..n /\ j - 1 \in 1..n /\ i - 1 < j - 1
        BY <1>1, <2>5
      <3>2. sorted[i] = speedUps[i - 1] /\ sorted[j] = speedUps[j - 1]
        BY <1>1, <1>4, <2>5
      <3> QED
        BY <3>1, <3>2 DEF Descending
    <2> QED
      BY <1>1, <2>1, <2>2, <2>3, <2>4, <2>5
  <1>8. Distinct(sorted)
    <2> SUFFICES ASSUME NEW i \in 1..(n + 1), NEW j \in 1..(n + 1), sorted[i] = sorted[j], i < j
                 PROVE  FALSE
      BY <1>4 DEF Distinct
    <2> DEFINE place(m) == IF m <= k THEN m ELSE m - 1
    <2>1. CASE i = k + 1
      <3>1. j - 1 \in 1..n /\ sorted[i] = s /\ sorted[j] = speedUps[j - 1]
        BY <1>1, <1>4, <2>1
      <3> QED
        BY <1>5, <3>1
    <2>2. CASE j = k + 1
      <3>1. i \in 1..n /\ sorted[j] = s /\ sorted[i] = speedUps[i]
        BY <1>1, <1>4, <2>2
      <3> QED
        BY <1>5, <3>1
    <2>3. CASE i # k + 1 /\ j # k + 1
      <3>1. place(i) \in 1..n /\ place(j) \in 1..n /\ place(i) # place(j)
        BY <1>1, <2>3
      <3>2. sorted[i] = speedUps[place(i)] /\ sorted[j] = speedUps[place(j)]
        BY <1>4, <2>3
      <3> HIDE DEF place
      <3> QED
        BY <3>1, <3>2 DEF Distinct
    <2> QED
      BY <2>1, <2>2, <2>3
  <1>9. ASSUME NEW i \in 1..n PROVE \E j \in 1..(n + 1) : sorted[j] = speedUps[i]
    <2>1. CASE i <= k
      BY <1>1, <1>4, <2>1
    <2>2. CASE ~(i <= k)
      <3> DEFINE j == i + 1
      <3>1. j \in 1..(n + 1) /\ ~(j <= k) /\ j # k + 1 /\ j - 1 = i
        BY <1>1, <2>2
      <3> HIDE DEF j
      <3>2. sorted[j] = speedUps[j - 1]
        BY <1>4, <3>1
      <3> QED
        BY <3>1, <3>2
    <2> QED
      BY <2>1, <2>2
  <1>10. k + 1 \in 1..(n + 1) /\ sorted[k + 1] = s
    BY <1>1, <1>4
  <1> QED
    BY <1>4, <1>7, <1>8, <1>9, <1>10 DEF sorted

LEMMA SpeedTypes ==
    /\ \A s \in SpeedUp : SpeedUpBlock[s] \in Nat /\ Updates[s] \in BOOLEAN
    /\ Original \notin SpeedUp /\ Copies \in Nat /\ MaxFaults \in Nat
    /\ \A row \in SpedRow : /\ Len(row.speedUps) \in Nat
                             /\ DOMAIN row.speedUps = 1..Len(row.speedUps)
                             /\ \A i \in 1..Len(row.speedUps) : row.speedUps[i] \in SpeedUp
  <1>1. ASSUME NEW row \in SpedRow
        PROVE  /\ Len(row.speedUps) \in Nat
               /\ DOMAIN row.speedUps = 1..Len(row.speedUps)
               /\ \A i \in 1..Len(row.speedUps) : row.speedUps[i] \in SpeedUp
    <2> DEFINE ups == row.speedUps
    <2>1. ups \in Seq(SpeedUp)
      BY DEF SpedRow
    <2> HIDE DEF ups
    <2>2. Len(ups) \in Nat /\ DOMAIN ups = 1..Len(ups) /\ \A i \in 1..Len(ups) : ups[i] \in SpeedUp
      BY <2>1
    <2> QED
      BY <2>2 DEF ups
  <1> QED
    BY <1>1, SpeedUpsAssumption DEF SpeedUpsAssumption

\* What the consumer writes.
LEMMA WrittenRight ==
    ASSUME NEW row \in SpedRow, RowRight(row), NEW s \in SpeedUp, ~Has(row, s)
    PROVE  /\ Written(row, s) \in SpedRow /\ RowRight(Written(row, s))
           /\ Written(row, s).stored = row.stored
           /\ \A u \in SpeedUp : Has(row, u) \/ u = s => Has(Written(row, s), u)
  <1> DEFINE old == row.speedUps
             new == ByBlock(old, s)
             recipient == IF Updates[new[1]] THEN new[1] ELSE row.recipient
  <1>1. /\ old \in Seq(SpeedUp) /\ Descending(old) /\ Distinct(old)
        /\ \A i \in 1..Len(old) : old[i] # s
    BY SpeedTypes DEF SpedRow, RowRight, Has
  <1> HIDE DEF old
  <1>2. /\ new \in Seq(SpeedUp) /\ Len(new) = Len(old) + 1 /\ Descending(new) /\ Distinct(new)
        /\ \A i \in 1..Len(old) : \E j \in 1..(Len(old) + 1) : new[j] = old[i]
        /\ \E j \in 1..(Len(old) + 1) : new[j] = s
    BY <1>1, ByBlockResult
  <1> HIDE DEF new
  <1>3. Len(old) \in Nat /\ new[1] \in SpeedUp /\ new # <<>> /\ Len(new) \in Nat
        /\ DOMAIN new = 1..Len(new)
    BY <1>1, <1>2
  <1>4. Written(row, s) = [row EXCEPT !.speedUps = new, !.fee = new[1], !.recipient = recipient]
    BY DEF Written, new, old
  <1>5. recipient \in Source
    BY <1>3, SpeedTypes DEF Source, SpedRow
  <1>6. (\A u \in SpeedUp : Updates[u]) => recipient = new[1]
    BY <1>3
  <1> HIDE DEF recipient
  <1>7. /\ Written(row, s) \in SpedRow /\ Written(row, s).speedUps = new
        /\ Written(row, s).fee = new[1] /\ Written(row, s).recipient = recipient
        /\ Written(row, s).stored = row.stored
    <2> DEFINE Ups == Seq(SpeedUp)
    <2>1. row \in [stored : BOOLEAN, speedUps : Ups, fee : Source, recipient : Source]
      BY DEF SpedRow
    <2>2. new \in Ups /\ new[1] \in Source
      BY <1>2, <1>3 DEF Source
    <2> HIDE DEF Ups
    <2>3. /\ Written(row, s)
                \in [stored : BOOLEAN, speedUps : Ups, fee : Source, recipient : Source]
          /\ Written(row, s).speedUps = new
          /\ Written(row, s).fee = new[1] /\ Written(row, s).recipient = recipient
          /\ Written(row, s).stored = row.stored
      BY <1>4, <1>5, <2>1, <2>2
    <2> QED
      BY <2>3 DEF Ups, SpedRow
  <1>8. RowRight(Written(row, s))
    BY <1>2, <1>3, <1>6, <1>7 DEF RowRight, FirstOf
  <1>9. ASSUME NEW u \in SpeedUp, Has(row, u) \/ u = s
        PROVE  Has(Written(row, s), u)
    <2>1. \E j \in 1..(Len(old) + 1) : new[j] = u
      <3>1. CASE u = s
        BY <1>2, <3>1
      <3>2. CASE Has(row, u)
        <4>1. PICK i \in 1..Len(old) : old[i] = u
          BY <3>2, SpeedTypes DEF Has, old
        <4> QED
          BY <1>2, <4>1
      <3> QED
        BY <1>9, <3>1, <3>2
    <2> QED
      BY <1>2, <1>3, <1>7, <2>1 DEF Has
  <1> QED
    BY <1>7, <1>8, <1>9

LEMMA StoreSpedInv ==
    ASSUME SpeedInv, StoreSped
    PROVE  SpeedInv'
  <1>1. /\ sped \in SpedRow /\ ~sped.stored /\ sped' = [sped EXCEPT !.stored = TRUE]
        /\ consumer = NoJob /\ UNCHANGED <<requested, unread, consumer, faults>>
    BY DEF StoreSped, SpeedInv, SpeedTypeOK, JobAgrees
  <1>2. /\ sped' \in SpedRow /\ sped'.speedUps = sped.speedUps /\ sped'.fee = sped.fee
        /\ sped'.recipient = sped.recipient
    BY <1>1 DEF SpedRow
  <1> QED
    BY <1>1, <1>2 DEF SpeedInv, SpeedTypeOK, RowRight, JobAgrees, NoneLost, Has

LEMMA PublishSpeedUpInv ==
    ASSUME SpeedInv, NEW s \in SpeedUp, PublishSpeedUp(s)
    PROVE  SpeedInv'
  <1>1. /\ unread[s] > 0 /\ unread' = [unread EXCEPT ![s] = @ - 1]
        /\ requested' = [requested EXCEPT ![s] = @ + 1] /\ UNCHANGED <<sped, consumer, faults>>
        /\ unread \in [SpeedUp -> 0..Copies] /\ requested \in [SpeedUp -> Nat]
    BY DEF PublishSpeedUp, SpeedInv, SpeedTypeOK
  <1>2. /\ unread' \in [SpeedUp -> 0..Copies] /\ requested' \in [SpeedUp -> Nat]
        /\ requested'[s] > 0
        /\ \A u \in SpeedUp \ {s} : unread'[u] = unread[u] /\ requested'[u] = requested[u]
    BY <1>1, SpeedTypes
  <1>3. NoneLost(sped, requested', unread', consumer)
    <2> SUFFICES ASSUME NEW u \in SpeedUp, unread'[u] < Copies
                 PROVE  \/ requested'[u] > 0
                        \/ consumer # NoJob /\ consumer.speedUp = u
                        \/ Has(sped, u)
      BY DEF NoneLost
    <2>1. CASE u = s
      BY <1>2, <2>1
    <2>2. CASE u # s
      <3>1. unread'[u] = unread[u] /\ requested'[u] = requested[u]
        BY <1>2, <2>2
      <3> QED
        BY <3>1 DEF SpeedInv, NoneLost
    <2> QED
      BY <2>1, <2>2
  <1> QED
    BY <1>1, <1>2, <1>3 DEF SpeedInv, SpeedTypeOK

LEMMA TakeSpedUpInv ==
    ASSUME SpeedInv, NEW s \in SpeedUp, TakeSpedUp(s)
    PROVE  SpeedInv'
  <1>1. /\ consumer = NoJob /\ requested[s] > 0 /\ sped.stored /\ sped \in SpedRow
        /\ requested' = [requested EXCEPT ![s] = @ - 1] /\ UNCHANGED <<sped, unread, faults>>
        /\ consumer' = IF Has(sped, s) THEN NoJob
                       ELSE [pc |-> "write", speedUp |-> s, row |-> sped]
        /\ requested \in [SpeedUp -> Nat]
    BY DEF TakeSpedUp, SpeedInv, SpeedTypeOK
  <1>2. /\ requested' \in [SpeedUp -> Nat]
        /\ \A u \in SpeedUp \ {s} : requested'[u] = requested[u]
    BY <1>1
  <1>3. consumer' \in {NoJob} \cup [pc : {"write"}, speedUp : SpeedUp, row : SpedRow]
    BY <1>1
  <1>4. JobAgrees(sped, consumer')
    BY <1>1 DEF JobAgrees
  <1>5. Has(sped, s) \/ (consumer' # NoJob /\ consumer'.speedUp = s)
    BY <1>1 DEF NoJob
  <1>6. NoneLost(sped, requested', unread, consumer')
    <2> SUFFICES ASSUME NEW u \in SpeedUp, unread[u] < Copies
                 PROVE  \/ requested'[u] > 0
                        \/ consumer' # NoJob /\ consumer'.speedUp = u
                        \/ Has(sped, u)
      BY DEF NoneLost
    <2>1. CASE u = s
      BY <1>5, <2>1
    <2>2. CASE u # s
      <3>1. requested'[u] = requested[u]
        BY <1>2, <2>2
      <3> QED
        BY <1>1, <3>1 DEF SpeedInv, NoneLost
    <2> QED
      BY <2>1, <2>2
  <1> QED
    BY <1>1, <1>2, <1>3, <1>4, <1>6 DEF SpeedInv, SpeedTypeOK

\* The row is written, and the messages that wait are no fewer.
LEMMA WrittenInv ==
    ASSUME SpeedInv, consumer # NoJob, consumer' = NoJob, UNCHANGED unread,
           faults' \in 0..MaxFaults, requested' \in [SpeedUp -> Nat],
           \A u \in SpeedUp : requested'[u] >= requested[u],
           \/ sped' = Written(consumer.row, consumer.speedUp)
           \/ sped' = sped /\ requested'[consumer.speedUp] > 0
    PROVE  SpeedInv'
  <1> DEFINE s == consumer.speedUp
  <1>1. /\ s \in SpeedUp /\ consumer.row = sped /\ ~Has(sped, s)
        /\ sped \in SpedRow /\ RowRight(sped) /\ requested \in [SpeedUp -> Nat]
    BY DEF SpeedInv, SpeedTypeOK, JobAgrees
  <1>2. /\ sped' \in SpedRow /\ RowRight(sped')
        /\ \A u \in SpeedUp : Has(sped, u) => Has(sped', u)
        /\ Has(sped', s) \/ requested'[s] > 0
    BY <1>1, WrittenRight
  <1>3. NoneLost(sped', requested', unread, NoJob)
    <2> SUFFICES ASSUME NEW u \in SpeedUp, unread[u] < Copies
                 PROVE  \/ requested'[u] > 0
                        \/ NoJob # NoJob /\ NoJob.speedUp = u
                        \/ Has(sped', u)
      BY DEF NoneLost
    <2>1. requested[u] > 0 \/ s = u \/ Has(sped, u)
      BY DEF SpeedInv, NoneLost
    <2>2. requested[u] \in Nat /\ requested'[u] \in Nat /\ requested'[u] >= requested[u]
      BY <1>1
    <2> HIDE DEF s
    <2> QED
      BY <1>2, <2>1, <2>2
  <1>4. JobAgrees(sped', NoJob)
    BY DEF JobAgrees
  <1> QED
    BY <1>2, <1>3, <1>4 DEF SpeedInv, SpeedTypeOK

LEMMA SpeedInductive == SpeedInv /\ [SpeedNext]_speedVars => SpeedInv'
  <1> SUFFICES ASSUME SpeedInv, [SpeedNext]_speedVars PROVE SpeedInv'
    OBVIOUS
  <1>1. CASE WriteSpedUp
    <2>1. /\ requested' = requested /\ requested \in [SpeedUp -> Nat]
          /\ faults' = faults /\ faults \in 0..MaxFaults
      BY <1>1 DEF WriteSpedUp, SpeedInv, SpeedTypeOK
    <2>2. \A u \in SpeedUp : requested'[u] >= requested[u]
      BY <2>1
    <2> QED
      BY <1>1, <2>1, <2>2, WrittenInv DEF WriteSpedUp
  <1>2. CASE FailSpeedUp
    <2>1. /\ consumer # NoJob /\ consumer' = NoJob /\ UNCHANGED unread
          /\ requested' = [requested EXCEPT ![consumer.speedUp] = @ + 1]
          /\ requested \in [SpeedUp -> Nat] /\ consumer.speedUp \in SpeedUp
          /\ faults' = faults + 1 /\ faults < MaxFaults /\ faults \in 0..MaxFaults
          /\ sped' \in {sped, Written(consumer.row, consumer.speedUp)}
      BY <1>2 DEF FailSpeedUp, SpeedInv, SpeedTypeOK, JobAgrees
    <2>2. /\ requested' \in [SpeedUp -> Nat] /\ requested'[consumer.speedUp] > 0
          /\ \A u \in SpeedUp : requested'[u] >= requested[u]
      BY <2>1
    <2>3. faults' \in 0..MaxFaults
      BY <2>1, SpeedTypes
    <2> QED
      BY <2>1, <2>2, <2>3, WrittenInv
  <1>3. CASE UNCHANGED speedVars
    BY <1>3 DEF speedVars, SpeedInv, SpeedTypeOK
  <1> QED
    BY <1>1, <1>2, <1>3, StoreSpedInv, PublishSpeedUpInv, TakeSpedUpInv DEF SpeedNext

(***************************************************************************)
(* Once no message of a speed-up of V2 is left, the row has it, once, and  *)
(* has the fee of the latest and, if the events are of V2.5, its message   *)
(* and recipient, in whatever order and however often the messages came    *)
(* and the jobs failed.                                                    *)
(***************************************************************************)
THEOREM LatestSpeedUpPaid == SpeedSpec => []LatestSpeedUp
  <1>1. SpeedInit => SpeedInv
    <2> SUFFICES ASSUME SpeedInit PROVE SpeedInv
      OBVIOUS
    <2>1. sped \in SpedRow /\ sped.speedUps = <<>> /\ sped.fee = Original
          /\ sped.recipient = Original
      BY DEF SpeedInit, SpedRow, Source
    <2>2. RowRight(sped)
      BY <2>1 DEF RowRight, Descending, Distinct, FirstOf
    <2>3. NoneLost(sped, requested, unread, consumer)
      BY SpeedTypes DEF SpeedInit, NoneLost
    <2> QED
      BY <2>1, <2>2, <2>3, SpeedTypes DEF SpeedInit, SpeedInv, SpeedTypeOK, JobAgrees
  <1>2. SpeedInv => LatestSpeedUp
    <2> SUFFICES ASSUME SpeedInv PROVE LatestSpeedUp
      OBVIOUS
    <2> DEFINE ups == sped.speedUps
    <2>1. /\ sped \in SpedRow /\ RowRight(sped) /\ requested \in [SpeedUp -> Nat]
          /\ NoneLost(sped, requested, unread, consumer)
      BY DEF SpeedInv, SpeedTypeOK
    <2>2. /\ Len(ups) \in Nat /\ DOMAIN ups = 1..Len(ups)
          /\ \A i \in 1..Len(ups) : ups[i] \in SpeedUp /\ SpeedUpBlock[ups[i]] \in Nat
          /\ Descending(ups) /\ Distinct(ups)
      BY <2>1, SpeedTypes DEF RowRight
    <2>3. ASSUME NEW u \in SpeedUp, Has(sped, u)
          PROVE  SpeedUpBlock[u] <= SpeedUpBlock[sped.fee] /\ sped.fee # Original
      <3>1. PICK i \in 1..Len(ups) : ups[i] = u
        BY <2>2, <2>3 DEF Has
      <3>2. ups # <<>> /\ 1 \in 1..Len(ups)
        BY <2>2, <3>1
      <3>3. sped.fee = ups[1]
        BY <2>1, <3>2 DEF RowRight, FirstOf
      <3> HIDE DEF ups
      <3>4. SpeedUpBlock[ups[i]] <= SpeedUpBlock[ups[1]]
        <4>1. CASE i = 1
          BY <2>2, <4>1
        <4>2. CASE i # 1
          <5>1. 1 < i
            BY <2>2, <4>2
          <5> QED
            BY <2>2, <3>2, <5>1 DEF Descending
        <4> QED
          BY <4>1, <4>2
      <3> QED
        BY <2>2, <3>1, <3>2, <3>3, <3>4, SpeedTypes
    <2>4. ASSUME NEW s \in SpeedUp, requested[s] = 0, unread[s] < Copies,
                 consumer = NoJob \/ consumer.speedUp # s
          PROVE  Has(sped, s) /\ SpeedUpBlock[s] <= SpeedUpBlock[sped.fee]
      <3>1. Has(sped, s)
        BY <2>1, <2>4 DEF NoneLost
      <3> QED
        BY <2>3, <3>1
    <2>5. \A i, j \in DOMAIN ups : ups[i] = ups[j] => i = j
      BY <2>2 DEF Distinct
    <2>6. (\A s \in SpeedUp : Updates[s]) => sped.recipient = sped.fee
      BY <2>1 DEF RowRight
    <2> HIDE DEF ups
    <2> QED
      BY <2>3, <2>4, <2>5, <2>6 DEF LatestSpeedUp, ups
  <1> QED
    BY <1>1, <1>2, SpeedInductive, PTL DEF SpeedSpec
=============================================================================
