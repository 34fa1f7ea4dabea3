----------------------------- MODULE RewardFiles -----------------------------
(***************************************************************************)
(* The tables of wallet and of community rewards, which admins replace by  *)
(* uploading a file.  An upload marks the rows unprocessed, saves those of *)
(* the file as processed, one by one, and deletes the ones that are still  *)
(* unprocessed; if it throws, it marks all rows processed and what it has  *)
(* saved stays.  A process that dies leaves the marks.  The two tables are *)
(* kept alike, and one is modelled, with the edits by hand that the rows   *)
(* of wallets may have.                                                    *)
(***************************************************************************)
EXTENDS Integers, Sequences

CONSTANTS
    Owner,          \* wallets, or Discord ids
    Amount, NoRow,
    Edited,         \* owners whose row is edited by hand
    RewardFile,     \* files: entries [owner, amount], and whether what follows them throws
    Admin,          \* uploads under way at a time
    MaxUploads      \* bound: uploads

ASSUME RewardFilesAssumption ==
    /\ NoRow \notin Amount
    /\ Edited \subseteq Owner
    /\ RewardFile \subseteq [entries : Seq([owner : Owner, amount : Amount]), throws : BOOLEAN]
    /\ MaxUploads \in Nat

VARIABLES
    table,          \* [Owner -> amount, or NoRow]
    processed,      \* owners whose row is marked processed
    upload,         \* [Admin -> the upload it is at, or was]
    uploads

fileVars == <<table, processed, upload, uploads>>

Rows == {o \in Owner : table[o] # NoRow}

\* `at` is the entry it has come to, `found` whether its row was found, `before` the rows at
\* the start, and `alone` says that nothing else has written the table since.
UploadState ==
    [pc : {"reset", "find", "save", "ended", "failed", "dead"}, file : RewardFile, at : Nat,
     found : BOOLEAN, before : SUBSET Owner, alone : BOOLEAN]

Nothing == [pc |-> "none"]
Busy == {a \in Admin : upload[a].pc \in {"reset", "find", "save"}}

FilesTypeOK ==
    /\ table \in [Owner -> Amount \cup {NoRow}]
    /\ processed \subseteq Rows
    /\ upload \in [Admin -> UploadState \cup {Nothing}]
    /\ uploads \in 0..MaxUploads

FilesInit ==
    /\ table = [o \in Owner |-> NoRow]
    /\ processed = {}
    /\ upload = [a \in Admin |-> Nothing]
    /\ uploads = 0

----------------------------------------------------------------------------
\* The uploads after `a` has written `rows`: a is as given, and the others are not alone; a
\* row that was deleted is not there to be saved for those that have found it.
Wrote(a, is, deleted) ==
    [b \in Admin |->
        IF b = a THEN is
        ELSE IF upload[b] = Nothing THEN Nothing
        ELSE [upload[b] EXCEPT
                 !.alone = FALSE,
                 !.found = @ /\ upload[b].file.entries[upload[b].at].owner \notin deleted]]

StartUpload(a, file) ==
    /\ a \notin Busy
    /\ uploads < MaxUploads
    /\ uploads' = uploads + 1
    /\ upload' = [upload EXCEPT ![a] = [pc |-> "reset", file |-> file, at |-> 1, found |-> FALSE,
                                        before |-> Rows, alone |-> TRUE]]
    /\ UNCHANGED <<table, processed>>

\* update({ id: Not(IsNull()) }, { processed: false }), the first thing it writes.
Reset(a) ==
    /\ upload[a].pc = "reset"
    /\ processed' = {}
    /\ upload' = Wrote(a, [upload[a] EXCEPT !.pc = "find", !.before = Rows,
                                          !.alone = TRUE], {})
    /\ UNCHANGED <<table, uploads>>

EntryOf(a) == upload[a].file.entries[upload[a].at]
More(a) == upload[a].at <= Len(upload[a].file.entries)

\* findOne of the row of the next entry.
FindRow(a) ==
    /\ upload[a].pc = "find"
    /\ More(a)
    /\ upload' = [upload EXCEPT ![a].pc = "save", ![a].found = EntryOf(a).owner \in Rows]
    /\ UNCHANGED <<table, processed, uploads>>

\* The row is saved, by its id if it was found; one that has come meanwhile violates the key.
SaveRow(a) ==
    LET owner == EntryOf(a).owner
    IN  /\ upload[a].pc = "save"
        /\ upload[a].found \/ owner \notin Rows
        /\ table' = [table EXCEPT ![owner] = EntryOf(a).amount]
        /\ processed' = processed \cup {owner}
        /\ upload' = Wrote(a, [upload[a] EXCEPT !.pc = "find", !.at = @ + 1, !.found = FALSE], {})
        /\ UNCHANGED uploads

\* Mutated form of DeleteUnprocessed: the rows that are not in the file stay.
DeleteNothing(a) ==
    /\ upload[a].pc = "find"
    /\ ~More(a)
    /\ ~upload[a].file.throws
    /\ upload' = Wrote(a, [upload[a] EXCEPT !.pc = "ended"], {})
    /\ UNCHANGED <<table, processed, uploads>>

DeleteUnprocessed(a) ==
    LET deleted == Rows \ processed
    IN  /\ upload[a].pc = "find"
        /\ ~More(a)
        /\ ~upload[a].file.throws
        /\ table' = [o \in Owner |-> IF o \in deleted THEN NoRow ELSE table[o]]
        /\ upload' = Wrote(a, [upload[a] EXCEPT !.pc = "ended"], deleted)
        /\ UNCHANGED <<processed, uploads>>

\* What throws: reading the file, an entry that is no address, or the key of the table.
FailUpload(a) ==
    /\ \/ upload[a].pc = "find" /\ ~More(a) /\ upload[a].file.throws
       \/ upload[a].pc = "save" /\ ~upload[a].found /\ EntryOf(a).owner \in Rows
    /\ processed' = Rows
    /\ upload' = Wrote(a, [upload[a] EXCEPT !.pc = "failed"], {})
    /\ UNCHANGED <<table, uploads>>

\* The process dies, and all uploads with it.
DieInUpload ==
    /\ Busy # {}
    /\ upload' = [a \in Admin |-> IF a \in Busy THEN [upload[a] EXCEPT !.pc = "dead"]
                                  ELSE upload[a]]
    /\ UNCHANGED <<table, processed, uploads>>

\* editWalletRewards: an upsert that inserts a processed row, or leaves the mark.
EditRewards(o, amount) ==
    /\ table[o] # amount
    /\ table' = [table EXCEPT ![o] = amount]
    /\ processed' = IF o \in Rows THEN processed ELSE processed \cup {o}
    /\ upload' = [a \in Admin |-> IF upload[a] = Nothing THEN Nothing
                                  ELSE [upload[a] EXCEPT !.alone = FALSE]]
    /\ UNCHANGED uploads

UploadStep(a) ==
    \/ Reset(a)
    \/ FindRow(a)
    \/ SaveRow(a)
    \/ DeleteUnprocessed(a)
    \/ FailUpload(a)

FilesNext ==
    \/ \E a \in Admin : UploadStep(a) \/ \E file \in RewardFile : StartUpload(a, file)
    \/ DieInUpload
    \/ \E o \in Edited, amount \in Amount : EditRewards(o, amount)

----------------------------------------------------------------------------
\* The last amount of each owner in the file.
AmountsOf(file) ==
    [o \in Owner |->
        LET its == {i \in DOMAIN file.entries : file.entries[i].owner = o}
        IN  IF its = {} THEN NoRow
            ELSE file.entries[CHOOSE i \in its : \A j \in its : j <= i].amount]

(***************************************************************************)
(* An upload that nothing disturbs makes the table that of its file,       *)
(* whatever earlier uploads failed or died halfway have left; one that     *)
(* fails or dies leaves the row of everyone who had one.                   *)
(***************************************************************************)
UploadExact ==
    \A a \in Admin :
        /\ upload[a].pc = "ended" /\ upload[a].alone => table = AmountsOf(upload[a].file)
        /\ upload[a].pc \in {"failed", "dead"} /\ upload[a].alone => upload[a].before \subseteq Rows
=============================================================================
