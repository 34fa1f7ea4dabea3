---------------------------- MODULE MCSideBySide ----------------------------
(***************************************************************************)
(* The parts that keep rows of their own and do not meet, side by side: a  *)
(* behaviour is of one of them, chosen at the start.                       *)
(*                                                                         *)
(* Of the jobs of a deposit, d1 is of V3 and has an output token that only *)
(* d2, of V2, brings; d3 is of V3 and its tokens do not pair, so that its  *)
(* columns are filled alone; d4 is of V3 and has both tokens; d5 is of V3  *)
(* and there is no price for its output.  d1 and d2 wait for each other    *)
(* unfilled, and the requests of an operator come to the others alone.     *)
(* Of the referrals, d1 and d2 have one each, and d3 is a later deposit of *)
(* the same account that has none.                                         *)
(*                                                                         *)
(* The two endpoints of the proofs have caches of their own, and are asked *)
(* in behaviours of their own.                                             *)
(***************************************************************************)
EXTENDS Enrichment, StickyReferrals, RewardFiles, MerkleProofs, Users, CachedRows, Reindexing,
        DepositPages, SpeedUps, QueueReports, TLC

CONSTANTS
    Groups,         \* the parts that run
    d1, d2, d3, d4, d5, t1, t2, t3, alice, rita, ray, o1, o2, a1, c2,
    r1, r2, r3, r4, l1, l2, l3, l4, p1, p2, p3, q1, q2

VARIABLE group

MCSourceToken == (d1 :> t1) @@ (d2 :> t2) @@ (d3 :> t1) @@ (d4 :> t1) @@ (d5 :> t1)
MCOutputAddress == (d1 :> ZeroAddress) @@ (d2 :> NoToken) @@ (d3 :> t2) @@ (d4 :> t2)
                   @@ (d5 :> t3)
MCSameSymbol == [d \in Deposit |-> IF d = d1 THEN {t2} ELSE {}]

MCDepositor == [d \in Deposit |-> alice]
MCDate == (d1 :> 1) @@ (d2 :> 2) @@ (d3 :> 3) @@ (d4 :> 4) @@ (d5 :> 5)
MCTx == (d1 :> [form |-> "bare", address |-> rita])
        @@ (d2 :> [form |-> "delimited", address |-> ray])
        @@ (d3 :> [form |-> "nothing", address |-> ray])
        @@ (d4 :> [form |-> "nothing", address |-> ray])
        @@ (d5 :> [form |-> "nothing", address |-> ray])

Line(o, x) == [owner |-> o, amount |-> x]
MCRewardFile == {
    [entries |-> <<Line(o1, 1), Line(o2, 1)>>, throws |-> FALSE],
    [entries |-> <<Line(o2, 2)>>, throws |-> FALSE],
    [entries |-> <<Line(o1, 2)>>, throws |-> TRUE]}

MCWindow == {
    [contract |-> "referrals", chain |-> 1, index |-> 0, recipients |-> {a1}, broken |-> FALSE],
    [contract |-> "referrals", chain |-> 1, index |-> 1, recipients |-> {a1}, broken |-> FALSE],
    [contract |-> "op-rebates", chain |-> 10, index |-> 0, recipients |-> {a1}, broken |-> FALSE]}

\* Two deposits of one block; of the lists, one of each kind.
MCListedDate == (l1 :> 1) @@ (l2 :> 2) @@ (l3 :> 3) @@ (l4 :> 3)
MCLists == {
    [status |-> Standing \ {"stale"}, pendingFirst |-> TRUE, capped |-> TRUE],
    [status |-> {"pending"}, pendingFirst |-> FALSE, capped |-> FALSE]}

MCSpeedUpBlock == (p1 :> 1) @@ (p2 :> 2) @@ (p3 :> 2)
MCUpdates == [s \in {p1, p2, p3} |-> TRUE]

MCQueue == <<q1, q2>>

MCDateOf == (r1 :> 1) @@ (r2 :> 2) @@ (r3 :> 2) @@ (r4 :> 3)

----------------------------------------------------------------------------
MCInit ==
    /\ group \in Groups
    /\ Init /\ StickyInit /\ FilesInit /\ ProofInit /\ UsersInit /\ CacheInit /\ ReindexInit
    /\ PagesInit /\ SpeedInit /\ ReportsInit

moreVars == <<pageVars, speedVars, reportVars>>

allVars == <<group, vars, stickyVars, fileVars, proofVars, userVars, cacheVars, reindexVars,
             moreVars>>

ColumnGroups == {"columns", "repaired", "unpaired", "filled", "unpriced"}

ColumnsOnly ==
    /\ group \in ColumnGroups
    /\ UNCHANGED <<group, stickyVars, fileVars, proofVars, userVars, cacheVars, reindexVars,
                   moreVars>>

Columns ==
    /\ group \in ColumnGroups
    /\ Next
    /\ announced' \subseteq CASE group = "columns"  -> {d1, d2}
                              [] group = "repaired" -> {d2}
                              [] group = "unpaired" -> {d3}
                              [] group = "filled"   -> {d4}
                              [] group = "unpriced" -> {d5}
    /\ group = "columns" => filled' = {} /\ parts' = {} /\ requests' = 0
    /\ ColumnsOnly

Referrals ==
    /\ group = "referrals"
    /\ StickyNext
    /\ dated' \subseteq {d1, d2, d3}
    /\ UNCHANGED <<group, vars, fileVars, proofVars, userVars, cacheVars, reindexVars, moreVars>>

Files ==
    /\ group = "files"
    /\ FilesNext
    /\ UNCHANGED <<group, vars, stickyVars, proofVars, userVars, cacheVars, reindexVars, moreVars>>

OneProof ==
    /\ group = "one proof"
    /\ ProofNext
    /\ now' = 0
    /\ wallets \subseteq wallets'
    /\ \A w \in DOMAIN uploaded' : w.index = 0
    /\ \A c \in Client : client'[c] # Resting =>
           ~client'[c].query.all /\ client'[c].query.index = 0
    /\ UNCHANGED <<group, vars, stickyVars, fileVars, userVars, cacheVars, reindexVars, moreVars>>

AllProofs ==
    /\ group = "all proofs"
    /\ ProofNext
    /\ wallets' = {}
    /\ \A w \in DOMAIN uploaded' : w.index = 0 => uploaded'[w] = 0
    /\ \A c \in Client : client'[c] # Resting =>
           /\ client'[c].query.all /\ client'[c].query.index = 0
           /\ c = c2 => client'[c].query.type = "referrals"
    /\ UNCHANGED <<group, vars, stickyVars, fileVars, userVars, cacheVars, reindexVars, moreVars>>

UserLinks ==
    /\ group = "users"
    /\ UsersNext
    /\ UNCHANGED <<group, vars, stickyVars, fileVars, proofVars, cacheVars, reindexVars, moreVars>>

CacheOnly ==
    /\ group = "cache"
    /\ UNCHANGED <<group, vars, stickyVars, fileVars, proofVars, userVars, reindexVars, moreVars>>

Caching == CacheOnly /\ CacheNext

Reindex ==
    /\ group = "reindex"
    /\ ReindexNext
    /\ UNCHANGED <<group, vars, stickyVars, fileVars, proofVars, userVars, cacheVars, moreVars>>

Others ==
    UNCHANGED <<group, vars, stickyVars, fileVars, proofVars, userVars, cacheVars, reindexVars>>

PageReading ==
    /\ group = "pages"
    /\ PagesNext
    /\ list'.query \in MCLists \cup {NoFilter}
    /\ list.pc \in {"none", "reading"}
    /\ \A d \in {l1, l3} : standing'[d] \in {"new", "pending"}
    /\ standing'[l4] = "new"
    /\ Others /\ UNCHANGED <<speedVars, reportVars>>

Speeding ==
    /\ group = "speed-ups"
    /\ SpeedNext
    /\ Others /\ UNCHANGED <<pageVars, reportVars>>

Reporting ==
    /\ group = "reports"
    /\ ReportsNext
    /\ report.pc \in {"idle", "find"}
    /\ Others /\ UNCHANGED <<pageVars, speedVars>>

MCNext == Columns \/ Referrals \/ Files \/ OneProof \/ AllProofs \/ UserLinks \/ Caching \/ Reindex
          \/ PageReading \/ Speeding \/ Reporting

MCSpec ==
    /\ MCInit
    /\ [][MCNext]_allVars
    /\ WF_allVars(ColumnsOnly /\ DeliverOne)
    /\ \A c \in Caller : WF_allVars(CacheOnly /\ CallerStep(c))

\* The properties of one part that are about the end of its behaviours.
MCCallersServed == group = "cache" => CallersServed
=============================================================================
