----------------------------- MODULE DepositPages -----------------------------
(***************************************************************************)
(* The lists of deposits that the endpoints answer with, a page at a time: *)
(* each request is a query of its own, by place in the order of the dates, *)
(* newest first, while deposits are dated, filled and grow old.  The       *)
(* deposits are those the filters on chains, tokens, accounts and dates    *)
(* let through, and of their columns a speed-up may change the recipient.  *)
(* Deposits of one block have the same date, and no column orders them     *)
(* then.                                                                   *)
(***************************************************************************)
EXTENDS FiniteSets, Integers

CONSTANTS
    Listed,         \* deposits
    ListedDate,     \* [Listed -> Nat] depositDate
    PageSize,       \* limit
    MaxOffset,      \* the offset that an endpoint with a cap refuses
    MaxLists        \* bound: lists that are read

ASSUME DepositPagesAssumption ==
    /\ IsFiniteSet(Listed)
    /\ ListedDate \in [Listed -> Nat]
    /\ PageSize \in Nat \ {0}
    /\ MaxOffset \in Nat
    /\ MaxLists \in Nat

VARIABLES
    shown,          \* deposits that have a date, and a recipient the filter lets through
    standing,       \* [Listed -> Standing]
    list,           \* the list that is being read
    lists

pageVars == <<shown, standing, list, lists>>

\* Pending without a suggested fee, pending, pending for more than a day or for too low a
\* fee, and filled.
Standing == {"new", "pending", "stale", "filled"}

NoFilter == [status |-> Standing, pendingFirst |-> FALSE, capped |-> FALSE]
Pending == Standing \ {"filled"}

\* getDepositsForTxPage, with its status, skipOldUnprofitable and orderBy.
TxPage ==
    [status : {Standing, Pending, {"filled"}, Standing \ {"stale"}, Pending \ {"stale"}},
     pendingFirst : BOOLEAN, capped : {TRUE}]

\* getUserDeposits and getDeposits, of which the pending ones are those of getPendingDeposits,
\* and getDepositsV2.
OtherLists ==
    [status : {Standing, Pending, {"pending"}, {"filled"}}, pendingFirst : {FALSE},
     capped : BOOLEAN]

PagesTypeOK ==
    /\ shown \subseteq Listed
    /\ standing \in [Listed -> Standing]
    /\ list \in [pc : {"none", "reading", "read", "refused"}, query : TxPage \cup OtherLists,
                 offset : Nat, got : SUBSET Listed, stayed : SUBSET Listed, moved : BOOLEAN]
    /\ lists \in 0..MaxLists

PagesInit ==
    /\ shown = {}
    /\ standing = [d \in Listed |-> "new"]
    /\ list = [pc |-> "none", query |-> NoFilter, offset |-> 0, got |-> {}, stayed |-> {},
               moved |-> FALSE]
    /\ lists = 0

----------------------------------------------------------------------------
Fitting(q, ds, st) == {d \in ds : st[d] \in q.status}
Matching(q) == Fitting(q, shown, standing)

\* d comes before e in the order of the query.
Above(q, d, e) ==
    LET first == standing[d] # "filled" /\ standing[e] = "filled"
        last == standing[d] = "filled" /\ standing[e] # "filled"
    IN  IF q.pendingFirst /\ (first \/ last) THEN first ELSE ListedDate[d] > ListedDate[e]

\* The pages take(limit) and skip(offset) may answer with: of deposits alike, any that fit.
Pages(q, offset) ==
    LET match == Matching(q)
        alike(d) == {e \in match : ~Above(q, d, e) /\ ~Above(q, e, d)}
        first(d) == Cardinality({e \in match : Above(q, e, d)})
        places(d) == first(d)..(first(d) + Cardinality(alike(d)) - 1)
    IN  {page \in SUBSET match : \A d \in match :
            Cardinality(page \cap alike(d))
                = Cardinality(places(d) \cap offset..(offset + PageSize - 1))}

\* The rows become these, and the list that is read notices: a deposit that is no longer in
\* it, or further back, moves the ones after it ahead.
Become(ds, st) ==
    LET before == Matching(list.query)
        after == Fitting(list.query, ds, st)
    IN  /\ shown' = ds
        /\ standing' = st
        /\ list' = IF list.pc # "reading" THEN list
                   ELSE [list EXCEPT
                       !.stayed = @ \cap after,
                       !.moved = @ \/ \E d \in before :
                           d \notin after \/ (list.query.pendingFirst /\ st[d] # standing[d])]
        /\ UNCHANGED lists

\* BlockNumberConsumer dates a deposit, in any order, or a speed-up brings it in.
DateListed(d) == d \notin shown /\ Become(shown \cup {d}, standing)

\* SpeedUpEventsConsumer writes another recipient.
Redirect(d) == d \in shown /\ Become(shown \ {d}, standing)

\* The suggested fee is written, the deposit grows old, it is sped up, or it is filled.
ChangeStanding(d, to) ==
    /\ \/ standing[d] = "new" /\ to # "new"
       \/ standing[d] = "pending" /\ to \in {"stale", "filled"}
       \/ standing[d] = "stale" /\ to \in {"pending", "filled"}
    /\ Become(shown, [standing EXCEPT ![d] = to])

OpenList(q) ==
    /\ list.pc # "reading"
    /\ lists < MaxLists
    /\ lists' = lists + 1
    /\ list' = [pc |-> "reading", query |-> q, offset |-> 0, got |-> {},
                stayed |-> Matching(q), moved |-> FALSE]
    /\ UNCHANGED <<shown, standing>>

\* Mutated form of ReadPageAt: the offset counts pages.
ReadPageAtPage ==
    /\ list.pc = "reading"
    /\ ~(list.query.capped /\ list.offset >= MaxOffset)
    /\ \E page \in Pages(list.query, list.offset * PageSize) :
           list' = [list EXCEPT
               !.got = @ \cup page,
               !.offset = @ + PageSize,
               !.pc = IF Cardinality(page) < PageSize THEN "read" ELSE "reading"]
    /\ UNCHANGED <<shown, standing, lists>>

\* One request: a page, and its reader goes on to the next until one is not full.
ReadPageAt ==
    /\ list.pc = "reading"
    /\ ~(list.query.capped /\ list.offset >= MaxOffset)
    /\ \E page \in Pages(list.query, list.offset) :
           list' = [list EXCEPT
               !.got = @ \cup page,
               !.offset = @ + PageSize,
               !.pc = IF Cardinality(page) < PageSize THEN "read" ELSE "reading"]
    /\ UNCHANGED <<shown, standing, lists>>

\* The endpoint throws.
RefuseOffset ==
    /\ list.pc = "reading"
    /\ list.query.capped
    /\ list.offset >= MaxOffset
    /\ list' = [list EXCEPT !.pc = "refused"]
    /\ UNCHANGED <<shown, standing, lists>>

PagesNext ==
    \/ \E d \in Listed : DateListed(d) \/ Redirect(d) \/ \E to \in Standing : ChangeStanding(d, to)
    \/ \E q \in TxPage \cup OtherLists : OpenList(q)
    \/ ReadPageAt
    \/ RefuseOffset

----------------------------------------------------------------------------
(***************************************************************************)
(* A reader of all pages of a list has seen every deposit that was in it   *)
(* all the while and shares its date with no other, whatever deposits came *)
(* into the list meanwhile, at whatever place, unless one that was in it   *)
(* has left or moved back.                                                 *)
(***************************************************************************)
PagesCover ==
    list.pc = "read" /\ ~list.moved =>
        \A d \in list.stayed :
            d \in list.got \/ \E e \in Listed \ {d} : ListedDate[e] = ListedDate[d]
=============================================================================
