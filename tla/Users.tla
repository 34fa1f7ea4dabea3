-------------------------------- MODULE Users --------------------------------
(***************************************************************************)
(* Users, who log in with Discord, and the wallet each has linked.  A      *)
(* login finds the user with the Discord id or inserts one; there is no    *)
(* key on the id.  Linking finds the wallet, checks the signature and the  *)
(* user, and upserts on the user, of whom as of the wallet there is one    *)
(* row.                                                                    *)
(***************************************************************************)
EXTENDS Naturals

CONSTANTS
    Discord,        \* Discord ids
    Wallet, NoWallet,
    Session,        \* logins and requests to link that are under way
    MaxUser         \* bound: users

ASSUME UsersAssumption ==
    /\ MaxUser \in Nat
    /\ NoWallet \notin Wallet

VARIABLES
    discord,        \* the users there are, each with its Discord id: discord[u], from 1 on
    users,          \* how many
    linked,         \* [User -> Wallet \cup {NoWallet}]
    session,        \* [Session -> a login or a request to link]
    raced           \* Discord ids whose first logins overlapped

\* The ids of the rows, in the order they are taken.
User == 1..MaxUser

userVars == <<discord, users, linked, session, raced>>

Idle == [pc |-> "idle"]
LoginState(pc) == [pc : {pc}, discord : Discord]
LinkState == [pc : {"link"}, user : User, wallet : Wallet]

UsersTypeOK ==
    /\ users \in 0..MaxUser
    /\ discord \in [1..users -> Discord]
    /\ linked \in [User -> Wallet \cup {NoWallet}]
    /\ session \in [Session -> {Idle} \cup LoginState("create") \cup LinkState]
    /\ raced \subseteq Discord

UsersInit ==
    /\ users = 0
    /\ discord = [u \in {} |-> CHOOSE i \in Discord : TRUE]
    /\ linked = [u \in User |-> NoWallet]
    /\ session = [s \in Session |-> Idle]
    /\ raced = {}

----------------------------------------------------------------------------
Known(i) == \E u \in 1..users : discord[u] = i
FirstLogins(i) == {s \in Session : session[s].pc = "create" /\ session[s].discord = i}

\* Mutated form of LogIn: the user is not looked for.
LogInAnew(s, i) ==
    /\ session[s] = Idle
    /\ session' = [session EXCEPT ![s] = [pc |-> "create", discord |-> i]]
    /\ raced' = IF FirstLogins(i) = {} THEN raced ELSE raced \cup {i}
    /\ UNCHANGED <<discord, users, linked>>

\* findOne of the user by its Discord id; the name and the picture of one that is found are
\* left out, and with them the save.
LogIn(s, i) ==
    /\ session[s] = Idle
    /\ ~Known(i)
    /\ session' = [session EXCEPT ![s] = [pc |-> "create", discord |-> i]]
    /\ raced' = IF FirstLogins(i) = {} THEN raced ELSE raced \cup {i}
    /\ UNCHANGED <<discord, users, linked>>

CreateUser(s) ==
    /\ session[s].pc = "create"
    /\ users < MaxUser
    /\ users' = users + 1
    /\ discord' = [u \in 1..users' |-> IF u = users' THEN session[s].discord ELSE discord[u]]
    /\ session' = [session EXCEPT ![s] = Idle]
    /\ UNCHANGED <<linked, raced>>

\* linkWallet, and updateLinkedWallet, find the wallet: if it is linked they return, or throw
\* for another user; the signature is checked and the user found.
StartLink(s, u, w) ==
    /\ session[s] = Idle
    /\ u \in 1..users
    /\ \A v \in User : linked[v] # w
    /\ session' = [session EXCEPT ![s] = [pc |-> "link", user |-> u, wallet |-> w]]
    /\ UNCHANGED <<discord, users, linked, raced>>

\* Mutated form of LinkWallet: the upsert is on the wallet.
LinkOnWallet(s) ==
    /\ session[s].pc = "link"
    /\ linked' = [u \in User |-> IF u = session[s].user THEN session[s].wallet
                                 ELSE IF linked[u] = session[s].wallet THEN NoWallet
                                 ELSE linked[u]]
    /\ session' = [session EXCEPT ![s] = Idle]
    /\ UNCHANGED <<discord, users, raced>>

\* The upsert replaces the wallet of the user; a wallet that another user has linked since
\* violates its key.
LinkWallet(s) ==
    LET request == session[s]
    IN  /\ request.pc = "link"
        /\ linked' = IF \E v \in User \ {request.user} : linked[v] = request.wallet THEN linked
                     ELSE [linked EXCEPT ![request.user] = request.wallet]
        /\ session' = [session EXCEPT ![s] = Idle]
        /\ UNCHANGED <<discord, users, raced>>

UsersNext ==
    \E s \in Session :
        \/ \E i \in Discord : LogIn(s, i)
        \/ CreateUser(s)
        \/ \E u \in User, w \in Wallet : StartLink(s, u, w)
        \/ LinkWallet(s)

----------------------------------------------------------------------------
(***************************************************************************)
(* A Discord account has one user, and so one wallet and one share of the  *)
(* community rewards, unless its first two logins overlapped: nothing else *)
(* gives it a second, and nothing takes that one away.                     *)
(***************************************************************************)
OneUserPerDiscord ==
    \A u, v \in 1..users : discord[u] = discord[v] => u = v \/ discord[u] \in raced

(***************************************************************************)
(* A wallet that is linked leaves its user only when the user links        *)
(* another: a request for it that found it free, and comes late, does not  *)
(* take it.                                                                *)
(***************************************************************************)
WalletStays ==
    [][\A u \in User : linked[u] # NoWallet /\ linked'[u] # linked[u] =>
           \E s \in Session : session[s].pc = "link" /\ session[s].user = u]_userVars
=============================================================================
