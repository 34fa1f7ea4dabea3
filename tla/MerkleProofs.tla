---------------------------- MODULE MerkleProofs ----------------------------
(***************************************************************************)
(* The windows of the Merkle distributors, each with its recipients and    *)
(* their proofs, which an admin uploads in one transaction, and the two    *)
(* endpoints that answer with proofs: that of one window, and those from a *)
(* window on.  Both look in a cache first, whose keys are the account and  *)
(* the window only, and put there what they read.                          *)
(***************************************************************************)
EXTENDS Integers

CONSTANTS
    Holder,         \* accounts
    Window,         \* files: [contract, chain, index, recipients, broken]
    Client,         \* requests under way at a time
    NoEntry,
    Ttl,            \* cacheDuration.distributorProofs
    MaxDelay,       \* bound: how long a request takes
    MaxTime         \* bound

RewardsType == {"referrals", "op-rebates"}

ASSUME MerkleProofsAssumption ==
    /\ \A w \in Window :
        /\ w.contract \in RewardsType       \* the address configured for it
        /\ w.index \in Nat
        /\ w.recipients \subseteq Holder
        /\ w.broken \in BOOLEAN
    /\ Ttl \in Nat \ {0}
    /\ MaxDelay \in Nat
    /\ MaxTime \in Nat

VARIABLES
    now,
    uploaded,       \* [windows in the database -> when they came]
    wallets,        \* accounts linked to a user of Discord
    proof,          \* [keys of the cache -> the answer of getMerkleDistributorProof]
    proofs,         \* [keys of the cache -> the answer of getMerkleDistributorProofs]
    client          \* [Client -> a request]

proofVars == <<now, uploaded, wallets, proof, proofs, client>>

Index == {w.index : w \in Window}
Key == Holder \X Index

\* What a request asks for: a window, or the windows from it on.
Query ==
    {q \in [all : BOOLEAN, account : Holder, index : Index, type : RewardsType,
            discord : BOOLEAN] : q.all => ~q.discord}

\* The window of a proof, or none, and the details of Discord with it.
Answer == [windows : SUBSET Window, discord : BOOLEAN]
EntryNow(answer) == [answer |-> answer, since |-> now]

Resting == [pc |-> "rest"]
Phases == {"asked", "read", "known", "answered"}

ProofTypeOK ==
    /\ now \in 0..MaxTime
    /\ DOMAIN uploaded \subseteq Window
    /\ \A w \in DOMAIN uploaded : uploaded[w] \in 0..now
    /\ wallets \subseteq Holder
    /\ \A k \in Key : \A e \in {proof[k], proofs[k]} :
        e = NoEntry \/ (e.answer \in Answer /\ e.since \in 0..now)
    /\ \A c \in Client : client[c] # Resting =>
        client[c].pc \in Phases /\ client[c].query \in Query /\ client[c].answer \in Answer

ProofInit ==
    /\ now = 0
    /\ uploaded = [w \in {} |-> 0]
    /\ wallets = {}
    /\ proof = [k \in Key |-> NoEntry]
    /\ proofs = [k \in Key |-> NoEntry]
    /\ client = [c \in Client |-> Resting]

----------------------------------------------------------------------------
\* A second window of a chain, contract and index is refused, and a broken file undone.
UploadWindow(w) ==
    /\ ~w.broken
    /\ \A v \in DOMAIN uploaded :
        <<v.chain, v.contract, v.index>> # <<w.chain, w.contract, w.index>>
    /\ uploaded' = [v \in DOMAIN uploaded \cup {w} |-> IF v = w THEN now ELSE uploaded[v]]
    /\ UNCHANGED <<now, wallets, proof, proofs, client>>

\* A user links the wallet, or another in its place.
ChangeWallet(a) ==
    /\ wallets' = IF a \in wallets THEN wallets \ {a} ELSE wallets \cup {a}
    /\ client' = [c \in Client |->
           IF client[c] # Resting /\ client[c].query.account = a
           THEN [client[c] EXCEPT !.linked = FALSE] ELSE client[c]]
    /\ UNCHANGED <<now, uploaded, proof, proofs>>

Tick ==
    /\ now < MaxTime
    /\ \A c \in Client : client[c] # Resting /\ client[c].pc # "answered" =>
                             now < client[c].since + MaxDelay
    /\ now' = now + 1
    /\ UNCHANGED <<uploaded, wallets, proof, proofs, client>>

\* The windows a query is about.
Asked(q) ==
    {w \in DOMAIN uploaded :
        /\ q.account \in w.recipients
        /\ w.contract = q.type
        /\ IF q.all THEN w.index >= q.index ELSE w.index = q.index}

Cache(q) == IF q.all THEN proofs ELSE proof
Fresh(e) == e # NoEntry /\ now < e.since + Ttl

\* A request begins, and is answered from the cache if an entry is there.  `before` are the
\* windows there were; `linked` says that the wallet has been linked since.
Ask(c, q) ==
    LET entry == Cache(q)[<<q.account, q.index>>]
    IN  /\ client[c] = Resting \/ client[c].pc = "answered"
        /\ client' = [client EXCEPT ![c] =
               [pc |-> IF Fresh(entry) THEN "answered" ELSE "asked",
                query |-> q,
                since |-> now,
                before |-> IF q.all THEN {} ELSE Asked(q),
                linked |-> q.discord /\ q.account \in wallets,
                answer |-> IF Fresh(entry) THEN entry.answer
                           ELSE [windows |-> {}, discord |-> FALSE]]]
        /\ UNCHANGED <<now, uploaded, wallets, proof, proofs>>

\* The database is read.  getOne of what two chains may have is any; without a recipient the
\* answer is empty and not kept.
Read(c) ==
    LET q == client[c].query
    IN  /\ client[c].pc = "asked"
        /\ \E windows \in IF q.all THEN {Asked(q)}
                          ELSE IF Asked(q) = {} THEN {{}} ELSE {{w} : w \in Asked(q)} :
               client' = [client EXCEPT
                   ![c].answer.windows = windows,
                   ![c].pc = IF ~q.all /\ windows = {} THEN "answered"
                             ELSE IF q.discord THEN "read" ELSE "known"]
        /\ UNCHANGED <<now, uploaded, wallets, proof, proofs>>

ReadDiscord(c) ==
    /\ client[c].pc = "read"
    /\ client' = [client EXCEPT ![c].pc = "known",
                                ![c].answer.discord = client[c].query.account \in wallets]
    /\ UNCHANGED <<now, uploaded, wallets, proof, proofs>>

\* Mutated form of Keep: the answer is kept for good.
KeepForGood(c) ==
    LET q == client[c].query
        entry == [EntryNow(client[c].answer) EXCEPT !.since = MaxTime]
        kept == [Cache(q) EXCEPT ![<<q.account, q.index>>] = entry]
    IN  /\ client[c].pc = "known"
        /\ client' = [client EXCEPT ![c].pc = "answered"]
        /\ proofs' = IF q.all THEN kept ELSE proofs
        /\ proof' = IF q.all THEN proof ELSE kept
        /\ UNCHANGED <<now, uploaded, wallets>>

\* The answer is put in the cache, and given.
Keep(c) ==
    LET q == client[c].query
        kept == [Cache(q) EXCEPT ![<<q.account, q.index>>] = EntryNow(client[c].answer)]
    IN  /\ client[c].pc = "known"
        /\ client' = [client EXCEPT ![c].pc = "answered"]
        /\ proofs' = IF q.all THEN kept ELSE proofs
        /\ proof' = IF q.all THEN proof ELSE kept
        /\ UNCHANGED <<now, uploaded, wallets>>

ProofNext ==
    \/ \E w \in Window : UploadWindow(w)
    \/ \E a \in Holder : ChangeWallet(a)
    \/ \E c \in Client :
        \/ \E q \in Query : Ask(c, q)
        \/ Read(c)
        \/ ReadDiscord(c)
        \/ Keep(c)
    \/ Tick

----------------------------------------------------------------------------
\* The windows of `ws` that came long enough ago for no entry to be without them.
Settled(ws, since) == {w \in ws : uploaded[w] + MaxDelay + Ttl <= since}

(***************************************************************************)
(* A proof that is answered is one of the account in a window asked for,   *)
(* and none is answered only if there was none; a list of proofs is behind *)
(* by no more than the cache's duration and the time a request takes.      *)
(* Both are of one distributor, which is the one asked for unless requests *)
(* for the two have met in the cache.                                      *)
(***************************************************************************)
AnswersRight ==
    \A c \in Client : client[c] # Resting /\ client[c].pc = "answered" =>
        LET q == client[c].query
            answer == client[c].answer
            of == [t \in RewardsType |-> Asked([q EXCEPT !.type = t])]
        IN  \/ answer.windows = {} /\ ~q.all /\ client[c].before = {}
            \/ \E t \in RewardsType :
                   /\ answer.windows \subseteq of[t]
                   /\ q.all => Settled(of[t], client[c].since) \subseteq answer.windows
                   /\ ~q.all => answer.windows # {}

(***************************************************************************)
(* A request for the details of Discord gets them if the wallet is linked. *)
(* The end-to-end test of the endpoint says so, and its requests never     *)
(* meet another's entry.                                                   *)
(***************************************************************************)
DiscordShown ==
    \A c \in Client : client[c] # Resting /\ client[c].pc = "answered" =>
        LET q == client[c].query
        IN  ~q.all /\ q.discord /\ client[c].answer.windows # {} /\ client[c].linked
                => client[c].answer.discord
=============================================================================
