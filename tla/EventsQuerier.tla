--------------------------- MODULE EventsQuerier ---------------------------
(***************************************************************************)
(* EventsQuerier.getEvents: one querier, cached per chain and contract and *)
(* shared by every job that reads the contract (EthProvidersService keeps  *)
(* it, BlocksEventsConsumer calls it for several event types at a time).   *)
(*                                                                         *)
(* A query is cut into samples of blockRangeSize blocks.  When the node    *)
(* refuses one as too large, the size is halved and the call starts over.  *)
(* Calls interleave at every await, and they share the size: a call halves *)
(* it only when nobody has changed it since the call's attempt began.      *)
(***************************************************************************)
EXTENDS BlockRanges, FiniteSets

CONSTANTS
    Call,           \* concurrent calls of getEvents
    QueryRange,     \* the block ranges they ask for
    InitialSize,    \* blockRangeSize given to the constructor, Unset when it is not
    DefaultSize,    \* DEFAULT_BLOCK_RANGE
    TooLarge,       \* the ranges the node refuses to answer in one query
    Limit           \* queries of this many blocks are never refused

Width(r) == r.to - r.from + 1

ASSUME QuerierAssumption ==
    /\ QueryRange \subseteq [from : Nat, to : Nat]
    /\ QueryRange # {}
    /\ \A r \in QueryRange : r.from <= r.to
    /\ InitialSize \in Nat
    /\ DefaultSize \in Nat \ {0}
    /\ Limit \in Nat \ {0}
    /\ TooLarge \subseteq [from : Nat, to : Nat]
    /\ \A r \in TooLarge : Width(r) > Limit

VARIABLES
    blockRangeSize, \* shared by the calls
    call            \* [Call -> what the call is doing]

vars == <<blockRangeSize, call>>

\* size: blockRangeSizeAtStart; read: the blocks a returned call has the events of.
CallState == [pc : {"idle", "first", "rest", "returned"},
              range : QueryRange, size : Nat, read : SUBSET Nat]

Idle == [pc |-> "idle", range |-> CHOOSE r \in QueryRange : TRUE, size |-> Unset, read |-> {}]

Init ==
    /\ blockRangeSize = InitialSize
    /\ call = [c \in Call |-> Idle]

----------------------------------------------------------------------------
\* The intervals of an attempt that began with `size`: the whole range when it is unset.
Intervals(range, size) ==
    IF size = Unset THEN {range} ELSE GetSamplesBetween(range.from, range.to, size)

FirstInterval(range, size) ==
    CHOOSE i \in Intervals(range, size) : i.from = range.from

\* An attempt reads the shared size, and waits for the answer to its first interval.
Attempt(range, size) == [pc |-> "first", range |-> range, size |-> size, read |-> {}]

GetEvents(c, r) ==
    /\ call[c].pc \in {"idle", "returned"}
    /\ call' = [call EXCEPT ![c] = Attempt(r, blockRangeSize)]
    /\ UNCHANGED blockRangeSize

\* Mutated forms of LowerSize: the check for a parallel change is dropped, or inverted.
LowerSizeUnchecked(atStart) ==
    IF blockRangeSize = Unset THEN DefaultSize ELSE blockRangeSize \div 2
LowerSizeInverted(atStart) ==
    IF blockRangeSize = atStart THEN blockRangeSize
    ELSE IF blockRangeSize = Unset THEN DefaultSize ELSE blockRangeSize \div 2

LowerSize(atStart) ==
    IF blockRangeSize # atStart THEN blockRangeSize
    ELSE IF blockRangeSize = Unset THEN DefaultSize ELSE blockRangeSize \div 2

\* The catch of a refusal and the next turn of the loop, with no await between them.
Refused(c) ==
    /\ blockRangeSize' = LowerSize(call[c].size)
    /\ call' = [call EXCEPT ![c] = Attempt(@.range, LowerSize(call[c].size))]

\* The answers are in.
Return(c) ==
    /\ call' = [call EXCEPT
          ![c].pc = "returned",
          ![c].read = UNION {Blocks(i) : i \in Intervals(call[c].range, call[c].size)}]
    /\ UNCHANGED blockRangeSize

\* Mutated form of AnswerFirst: the other intervals are not queried.
AnswerFirstOnly(c) ==
    /\ call[c].pc = "first"
    /\ LET first == FirstInterval(call[c].range, call[c].size)
       IN  IF first \in TooLarge THEN Refused(c)
           ELSE /\ call' = [call EXCEPT ![c].pc = "returned", ![c].read = Blocks(first)]
                /\ UNCHANGED blockRangeSize

\* The answer to the first interval, on which the others wait.
AnswerFirst(c) ==
    /\ call[c].pc = "first"
    /\ LET first == FirstInterval(call[c].range, call[c].size)
       IN  IF first \in TooLarge THEN Refused(c)
           ELSE IF call[c].size = Unset THEN Return(c)
           ELSE /\ call' = [call EXCEPT ![c].pc = "rest"]
                /\ UNCHANGED blockRangeSize

\* The Promise.all over the other intervals, which rejects as soon as one is refused.
AnswerRest(c) ==
    /\ call[c].pc = "rest"
    /\ IF Intervals(call[c].range, call[c].size) \cap TooLarge # {} THEN Refused(c)
       ELSE Return(c)

\* Any other error is thrown at the caller.
Throw(c) ==
    /\ call[c].pc \in {"first", "rest"}
    /\ call' = [call EXCEPT ![c] = Idle]
    /\ UNCHANGED blockRangeSize

Answer(c) == AnswerFirst(c) \/ AnswerRest(c)

Next ==
    \E c \in Call :
        \/ \E r \in QueryRange : GetEvents(c, r)
        \/ Answer(c)
        \/ Throw(c)

\* The node answers every query in the end.
Fairness == \A c \in Call : WF_vars(Answer(c))

Spec == Init /\ [][Next]_vars
FairSpec == Spec /\ Fairness

----------------------------------------------------------------------------
\* The querier's state stays well formed whatever the calls interleave.
TypeOK ==
    /\ blockRangeSize \in Nat
    /\ call \in [Call -> CallState]

(***************************************************************************)
(* Parallel refusals do not add up: the size is never lowered below half   *)
(* of what the node is known to answer, however many calls are refused at  *)
(* the same time.                                                          *)
(***************************************************************************)
NoOvershrink ==
    \/ blockRangeSize \in {InitialSize, DefaultSize}
    \/ 2 * blockRangeSize + 1 > Limit

(***************************************************************************)
(* Once set, the size only goes down: a call that was refused long ago     *)
(* never undoes what the calls after it have learned, and the size never   *)
(* falls back to unset, from which it would start over at the default.     *)
(***************************************************************************)
SizeOnlyShrinks ==
    [][blockRangeSize # Unset => blockRangeSize' \in 1..blockRangeSize]_vars

(***************************************************************************)
(* A call that returns has read its whole range, or all of it but the last *)
(* block, which is left out when it would be a sample of its own; what     *)
(* other calls did to the size in the meantime cannot cost more blocks.    *)
(***************************************************************************)
ResultComplete ==
    \A c \in Call : call[c].pc = "returned" =>
        LET r == call[c].range
        IN  call[c].read = IF LoneLastBlock(r, call[c].size)
                           THEN Blocks(r) \ {r.to} ELSE Blocks(r)

(***************************************************************************)
(* As the example of getSamplesBetween has it, the samples of a range go   *)
(* up to its last block: a call that returns has read all of it.           *)
(***************************************************************************)
EveryBlockRead ==
    \A c \in Call : call[c].pc = "returned" => call[c].read = Blocks(call[c].range)

(***************************************************************************)
(* A call ends: refusals stop, because each one lowers the size or finds   *)
(* it lowered by another call.                                             *)
(***************************************************************************)
CallEnds == \A c \in Call : (call[c].pc = "first") ~> (call[c].pc \in {"returned", "idle"})
=============================================================================
