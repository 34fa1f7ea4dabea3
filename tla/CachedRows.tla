----------------------------- MODULE CachedRows -----------------------------
(***************************************************************************)
(* What EthProvidersService and MarketPriceService fetch once and keep in  *)
(* a table: blocks, tokens, transactions and prices, whose row is saved,   *)
(* and receipts, whose row is inserted unless there is one and read again. *)
(* A receipt kept before logs were has none, and is replaced.  The callers *)
(* are jobs that want one row at the same time; a job that throws is       *)
(* delivered again.  Of the table, one row is modelled.                    *)
(***************************************************************************)
EXTENDS Naturals

CONSTANTS
    Caller,
    MaxRefusals     \* bound: calls the node does not answer

ASSUME CachedRowsAssumption == MaxRefusals \in Nat

VARIABLES
    receipt,        \* the row is a receipt
    stored,         \* the row: "none", "bare" for a receipt without logs, or "full"
    caller,         \* [Caller -> where it is, and the row it has]
    refusals

cacheVars == <<receipt, stored, caller, refusals>>

RowState == {"none", "bare", "full"}
CallerState == [pc : {"find", "delete", "fetch", "insert", "again", "served"}, row : RowState]

CacheTypeOK ==
    /\ receipt \in BOOLEAN
    /\ stored \in RowState
    /\ caller \in [Caller -> CallerState]
    /\ refusals \in 0..MaxRefusals

CacheInit ==
    /\ receipt \in BOOLEAN
    /\ stored \in IF receipt THEN RowState ELSE {"none", "full"}
    /\ caller = [c \in Caller |-> [pc |-> "find", row |-> "none"]]
    /\ refusals = 0

Go(c, pc, row) == caller' = [caller EXCEPT ![c] = [pc |-> pc, row |-> row]]

\* findOne of the row.
Find(c) ==
    /\ caller[c].pc = "find"
    /\ CASE stored = "full" -> Go(c, "served", stored)
         [] stored = "bare" -> Go(c, "delete", stored)
         [] stored = "none" -> Go(c, "fetch", stored)
    /\ UNCHANGED <<receipt, stored, refusals>>

\* Mutated form of DeleteBare: the row that is deleted is returned.
DeleteAndReturn(c) ==
    /\ caller[c].pc = "delete"
    /\ stored' = "none"
    /\ Go(c, "served", caller[c].row)
    /\ UNCHANGED <<receipt, refusals>>

\* The row without logs is deleted, or the one another caller has put in its place.
DeleteBare(c) ==
    /\ caller[c].pc = "delete"
    /\ stored' = "none"
    /\ Go(c, "fetch", "none")
    /\ UNCHANGED <<receipt, refusals>>

Fetch(c) ==
    /\ caller[c].pc = "fetch"
    /\ Go(c, "insert", "none")
    /\ UNCHANGED <<receipt, stored, refusals>>

\* The node does not answer: the job throws and begins again.
FetchFails(c) ==
    /\ caller[c].pc = "fetch"
    /\ refusals < MaxRefusals
    /\ refusals' = refusals + 1
    /\ Go(c, "find", "none")
    /\ UNCHANGED <<receipt, stored>>

\* A save violates the key of a row that has come meanwhile, and the job throws; the insert
\* of a receipt leaves that row.
Insert(c) ==
    /\ caller[c].pc = "insert"
    /\ stored' = IF stored = "none" THEN "full" ELSE stored
    /\ CASE receipt                     -> Go(c, "again", "none")
         [] ~receipt /\ stored = "none"  -> Go(c, "served", "full")
         [] ~receipt /\ stored # "none"  -> Go(c, "find", "none")
    /\ UNCHANGED <<receipt, refusals>>

\* The receipt is read again; its caller throws if another caller has deleted it.
FindAgain(c) ==
    /\ caller[c].pc = "again"
    /\ IF stored = "none" THEN Go(c, "find", "none") ELSE Go(c, "served", stored)
    /\ UNCHANGED <<receipt, stored, refusals>>

CallerStep(c) == Find(c) \/ DeleteBare(c) \/ Fetch(c) \/ Insert(c) \/ FindAgain(c)

CacheNext == \E c \in Caller : CallerStep(c) \/ FetchFails(c)

(***************************************************************************)
(* Every caller comes to have the row, whole, and it stays in the table:   *)
(* neither the save that violates the key nor a caller that deletes the    *)
(* receipt another has just written goes on for ever.                      *)
(***************************************************************************)
CallersServed ==
    <>[](stored = "full" /\ \A c \in Caller : caller[c] = [pc |-> "served", row |-> "full"])
=============================================================================
