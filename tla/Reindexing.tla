----------------------------- MODULE Reindexing -----------------------------
(***************************************************************************)
(* reindexReferralAddress, a request of an operator that publishes the     *)
(* deposits of a range of dates to the DepositReferral queue again.  It    *)
(* reads them page by page, by their place in the order of their dates,    *)
(* while other deposits are being stored.  Deposits of one block have one  *)
(* date, and each query leaves open in which order they come.              *)
(***************************************************************************)
EXTENDS FiniteSets, Integers

CONSTANTS
    Row,            \* deposits
    DateOf,         \* [Row -> Nat] depositDate
    From, Till,     \* the dates of the request
    PageLimit,
    MaxReindexes    \* bound: requests

ASSUME ReindexingAssumption ==
    /\ IsFiniteSet(Row)
    /\ DateOf \in [Row -> Nat]
    /\ From \in Nat /\ Till \in Nat
    /\ PageLimit \in Nat \ {0}
    /\ MaxReindexes \in Nat

VARIABLES
    rows,           \* deposits with a date
    reindex,        \* the last request: its page, the deposits there were, those it published
    reindexes

reindexVars == <<rows, reindex, reindexes>>

ReindexTypeOK ==
    /\ rows \subseteq Row
    /\ reindex \in [status : {"none", "reading", "done", "failed"}, page : Nat,
                    owed : SUBSET Row, sent : SUBSET Row]
    /\ reindexes \in 0..MaxReindexes

ReindexInit ==
    /\ rows = {}
    /\ reindex = [status |-> "none", page |-> 0, owed |-> {}, sent |-> {}]
    /\ reindexes = 0

\* BlockNumberConsumer dates a deposit.
StoreRow(d) ==
    /\ d \notin rows
    /\ rows' = rows \cup {d}
    /\ UNCHANGED <<reindex, reindexes>>

InRange == {d \in rows : From <= DateOf[d] /\ DateOf[d] <= Till}

StartReindex ==
    /\ reindex.status # "reading"
    /\ reindexes < MaxReindexes
    /\ reindexes' = reindexes + 1
    /\ reindex' = [status |-> "reading", page |-> 0, owed |-> InRange, sent |-> {}]
    /\ UNCHANGED rows

\* What may be the first n of some deposits in the order of their dates.
FirstByDate(ds, n) ==
    {first \in SUBSET ds :
        /\ Cardinality(first) = IF n <= Cardinality(ds) THEN n ELSE Cardinality(ds)
        /\ \A d \in first, e \in ds \ first : DateOf[d] <= DateOf[e]}

\* skip and take.
Page(skip, take) ==
    UNION {FirstByDate(InRange \ before, take) : before \in FirstByDate(InRange, skip)}

\* Mutated form of ReadPage: a page that is not full is not published.
ReadFullPages ==
    /\ reindex.status = "reading"
    /\ \E page \in Page(reindex.page * PageLimit, PageLimit) :
          reindex' = IF Cardinality(page) < PageLimit THEN [reindex EXCEPT !.status = "done"]
                     ELSE [reindex EXCEPT !.sent = @ \cup page, !.page = @ + 1]
    /\ UNCHANGED <<rows, reindexes>>

\* A page is read and published, and the last is the one that is not full; the date of the
\* first deposit of an empty one throws.
ReadPage ==
    /\ reindex.status = "reading"
    /\ \E page \in Page(reindex.page * PageLimit, PageLimit) :
          reindex' = [reindex EXCEPT
                         !.sent = @ \cup page,
                         !.page = @ + 1,
                         !.status = CASE page = {}                     -> "failed"
                                      [] Cardinality(page) = PageLimit -> "reading"
                                      [] OTHER                         -> "done"]
    /\ UNCHANGED <<rows, reindexes>>

ReindexNext ==
    \/ \E d \in Row : StoreRow(d)
    \/ StartReindex
    \/ ReadPage

(***************************************************************************)
(* A request for a range of dates, whether it ends well or throws on an    *)
(* empty last page, has published every deposit that was dated in the      *)
(* range when it began and shares its date with no other: the deposits     *)
(* that are stored meanwhile move the pages that are left, and no such     *)
(* deposit falls between two of them.  Of those of one date one may, when  *)
(* two queries order them differently.                                     *)
(***************************************************************************)
ReindexCovers ==
    reindex.status \in {"done", "failed"} =>
        \A d \in reindex.owed \ reindex.sent :
            \E e \in rows \ {d} : DateOf[e] = DateOf[d]
=============================================================================
