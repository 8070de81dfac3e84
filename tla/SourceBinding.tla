---------------------------- MODULE SourceBinding ----------------------------
(***************************************************************************)
(* To which WhatsApp account an archive belongs, and which Desktop         *)
(* directories may be merged into it (SnapshotPath, Extract and            *)
(* readAccountIdentity of whatsappdb; validateImportSource of store).      *)
(*                                                                         *)
(* The Desktop app keeps the account in Axolotl.sqlite and the messages in *)
(* ChatStorage.sqlite.  An import copies them one after the other while    *)
(* the app is running, Axolotl.sqlite twice: before and after the rest.    *)
(* Here the user logs in to other accounts at any time, and the app        *)
(* rewrites each file when it likes, as often as it likes: a copy has any  *)
(* contents the app may have written for the account the file is of.       *)
(*                                                                         *)
(* Only incoming direct messages name the account they were sent to.       *)
(* Fingerprints are injective.                                             *)
(***************************************************************************)
EXTENDS Naturals

CONSTANTS
    Accounts,     \* account JIDs
    LegacyIds,    \* identifiers that earlier versions took for the account
    Leftovers,    \* identities that old rows of Axolotl.sqlite may name
    Person,       \* the account an identity stands for
    Messages,     \* rows of the message stores, each at its own row number
    Owner,        \* the account a message was sent or received by
    Incoming,     \* the messages that name their account (ZTOJID)
    Stores,       \* fingerprints of message stores (Z_METADATA)
    Paths,        \* Desktop directories
    None          \* no account, no store, no path

Identities == Accounts \cup LegacyIds

ASSUME BindingAssumption ==
    /\ Leftovers \subseteq Identities
    /\ Person \in [Identities -> Accounts]
    /\ \A a \in Accounts : Person[a] = a
    /\ Owner \in [Messages -> Accounts]
    /\ Incoming \subseteq Messages
    /\ None \notin Identities /\ None \notin Stores /\ None \notin Paths

VARIABLES
    desktop,      \* the account logged in to, and those of the app's two files
    archive,      \* the sync_state of the archive, and its messages
    import,       \* the import that runs, with what it has copied
    excused       \* history: a capture was archived that nothing could check

vars == <<desktop, archive, import, excused>>

Axolotls == [accounts : SUBSET Accounts, legacy : SUBSET Leftovers]

Chats == [store : Stores \cup {None}, messages : SUBSET Messages]

-----------------------------------------------------------------------------
(* The Desktop app.                                                        *)

\* What the app writes while it is logged in to a.  Account metadata may be
\* missing, and an account that was left may still be listed.
AxolotlsOf(a) == {x \in Axolotls : x.accounts = {} \/ a \in x.accounts}

ChatsOf(a) == {c \in Chats : \A m \in c.messages : Owner[m] = a}

Settled == desktop.axolotl = desktop.login /\ desktop.chats = desktop.login

\* Nobody changes the account while adopting an archive.
Login ==
    /\ ~import.adopt
    /\ \E a \in Accounts \ {desktop.login} :
           /\ desktop' = [desktop EXCEPT !.login = a]
           /\ import' = [import EXCEPT !.logins = IF import.pc = "idle" THEN "none"
                                               ELSE IF @ = "none" THEN "one"
                                               ELSE "more"]
    /\ UNCHANGED <<archive, excused>>

RewriteAxolotl ==
    /\ desktop' = [desktop EXCEPT !.axolotl = desktop.login]
    /\ UNCHANGED <<archive, import, excused>>

RewriteChats ==
    /\ desktop' = [desktop EXCEPT !.chats = desktop.login]
    /\ UNCHANGED <<archive, import, excused>>

-----------------------------------------------------------------------------
(* The identity of a source.                                               *)

\* The accounts that Axolotl.sqlite names; none if it, its table or its columns
\* are missing.
Metadata(axolotl) == axolotl.accounts

\* The accounts the incoming messages were sent to.
Destinations(messages) == {Owner[m] : m \in messages \cap Incoming}

\* No UUID, or no Z_METADATA, is no store.
StoreIdentity(chats) == chats.store

\* Several accounts are an error.
Unique(ids) == \A a, b \in ids : a = b

Fingerprint(ids) == IF ids = {} THEN None ELSE CHOOSE a \in Accounts : a \in ids

\* Metadata and messages must not name different accounts.
Readable(axolotl, messages) ==
    LET metadata == Metadata(axolotl)
        named    == Destinations(messages)
    IN  /\ Unique(metadata) /\ Unique(named)
        /\ metadata = {} \/ named = {} \/ metadata = named

\* Metadata go before messages.
Identity(axolotl, messages) ==
    Fingerprint(IF Metadata(axolotl) # {} THEN Metadata(axolotl)
                ELSE Destinations(messages))

\* Faulty: trusts the last copy of the account alone.
LastCopy(before, after, messages) == Readable(after, messages)

\* Extract: the account must not have changed between the two copies.
Extractable(before, after, messages) ==
    /\ Readable(after, messages) /\ Readable(before, messages)
    /\ Identity(after, messages) = Identity(before, messages)

\* The candidates for a legacy binding are those of both copies.
SharedIdentities(current, before) == current.legacy \cap before.legacy

\* What Extract hands on.
Extracted(before, after, chats) ==
    [account  |-> Identity(after, chats.messages),
     legacy   |-> SharedIdentities(after, before),
     store    |-> StoreIdentity(chats),
     messages |-> chats.messages]

-----------------------------------------------------------------------------
(* validateImportSource.                                                   *)

\* The account is known under an identifier of an earlier version, from the
\* same store, and a message of the archive is still there.
LegacyContinues(data) ==
    /\ data.account # None
    /\ archive.store # None /\ archive.store = data.store
    /\ archive.account \in data.legacy
    /\ data.messages \cap archive.messages # {}

SameAccount(data) == archive.account # None /\ archive.account = data.account

AccountFits(data) ==
    archive.account # None => SameAccount(data) \/ LegacyContinues(data)

\* An archive with rows and no account is bound by an explicit adoption only,
\* and an adoption must bind.
BindingFits(data, adopt) ==
    /\ data.account = None => ~adopt
    /\ archive.account = None /\ archive.messages # {} => data.account # None /\ adopt

\* Faulty: a relogin that replaces the store is refused.
SameStore(data) == archive.store # None => data.store = archive.store

\* Another store is accepted for the same account, no store is not.
StoreFits(data) ==
    /\ archive.store # None /\ data.store # archive.store
    => SameAccount(data) /\ data.store # None

\* strong: the canonical path of the last merge; weak: source_path, which is
\* all that older archives have.
PathFits(path) ==
    IF archive.strong # None THEN path = archive.strong
    ELSE archive.weak # None => path = archive.weak

Admitted(data, path, adopt) ==
    /\ AccountFits(data) /\ BindingFits(data, adopt)
    /\ StoreFits(data) /\ PathFits(path)

-----------------------------------------------------------------------------
(* Imports.                                                                *)

NoAxolotl == [accounts |-> {}, legacy |-> {}]
NoChats   == [store |-> None, messages |-> {}]

NoImport == [pc |-> "idle", adopt |-> FALSE,
             before |-> NoAxolotl, chats |-> NoChats,
             settled |-> FALSE, logins |-> "none"]

\* The user adopts what is his: the archive's messages are of the account he is
\* logged in to.
MayAdopt == Settled /\ \A m \in archive.messages : Owner[m] = desktop.login

\* import [--adopt-source]; the first copy of Axolotl.sqlite.
Start ==
    /\ import.pc = "idle"
    /\ \E adopt \in BOOLEAN, axolotl \in AxolotlsOf(desktop.axolotl) :
           /\ adopt => MayAdopt
           /\ import' = [NoImport EXCEPT !.pc = "chats", !.adopt = adopt,
                                         !.before = axolotl, !.settled = Settled]
    /\ UNCHANGED <<desktop, archive, excused>>

CopyChats ==
    /\ import.pc = "chats"
    /\ \E chats \in ChatsOf(desktop.chats) :
           import' = [import EXCEPT !.pc = "account", !.chats = chats]
    /\ UNCHANGED <<desktop, archive, excused>>

\* Faulty: leaves source_path as it is.
StaleSourcePath(data, path, restore) ==
    [account  |-> data.account, store |-> data.store,
     strong   |-> path, weak |-> archive.weak,
     messages |-> IF restore THEN data.messages ELSE archive.messages \cup data.messages]

\* The transaction of importAll: the empty values of a merge are not recorded,
\* a restore deletes sync_state first.
Recorded(data, path, restore) ==
    [account  |-> IF data.account = None /\ ~restore THEN archive.account ELSE data.account,
     store    |-> IF data.store = None /\ ~restore THEN archive.store ELSE data.store,
     strong   |-> path,
     weak     |-> path,
     messages |-> IF restore THEN data.messages ELSE archive.messages \cup data.messages]

\* History: nothing in the captured files says whose messages they are, and the
\* app was between two accounts, or changed them twice.
Unverifiable(data) ==
    /\ data.account # None /\ Destinations(data.messages) = {}
    /\ ~(import.settled /\ Settled /\ import.logins # "more")

\* The second copy of Axolotl.sqlite, extraction, validation and merge.  Nothing
\* before depends on the path and on --restore, so they are chosen here.
Archive ==
    /\ import.pc = "account"
    /\ \E axolotl \in AxolotlsOf(desktop.axolotl) :
           LET data == Extracted(import.before, axolotl, import.chats)
           IN
           /\ Extractable(import.before, axolotl, import.chats.messages)
           /\ \E path \in Paths, restore \in BOOLEAN :
                  /\ IF restore THEN ~import.adopt
                     ELSE Admitted(data, path, import.adopt)
                  /\ archive' = Recorded(data, path, restore)
                  /\ excused' = (Unverifiable(data) \/ (excused /\ ~restore))
    /\ import' = NoImport
    /\ UNCHANGED desktop

\* A refused source, an error or a kill leaves the archive alone.
Fail ==
    /\ import.pc # "idle"
    /\ import' = NoImport
    /\ UNCHANGED <<desktop, archive, excused>>

-----------------------------------------------------------------------------
Archives == [account : Identities \cup {None}, store : Stores \cup {None},
             strong : Paths \cup {None}, weak : Paths \cup {None},
             messages : SUBSET Messages]

EmptyArchive == [account |-> None, store |-> None, strong |-> None, weak |-> None,
                 messages |-> {}]

\* A new archive, one of an earlier version, or one restored from a backup.
\* Earlier versions recorded the path, or the store, or a legacy identity; the
\* early "wa-store:" values of merge_source_path count as stores, and those of
\* merge_account_identity as no account.
InitialArchives ==
    {EmptyArchive} \cup
    {r \in Archives :
        /\ r.messages # {}
        /\ r.strong # None => r.weak = r.strong
        /\ \E a \in Accounts :
               /\ \A m \in r.messages : Owner[m] = a
               /\ r.account # None => Person[r.account] = a}

Init ==
    /\ \E a \in Accounts : desktop = [login |-> a, axolotl |-> a, chats |-> a]
    /\ archive \in InitialArchives
    /\ import = NoImport
    /\ excused = FALSE

Next ==
    \/ Login \/ RewriteAxolotl \/ RewriteChats
    \/ Start \/ CopyChats \/ Archive \/ Fail

Spec == Init /\ [][Next]_vars

-----------------------------------------------------------------------------
\* Type correctness; the path of the last merge is also the last source path,
\* and an adoption sees no login.
TypeOK ==
    /\ desktop \in [login : Accounts, axolotl : Accounts, chats : Accounts]
    /\ archive \in Archives
    /\ import \in [pc : {"idle", "chats", "account"}, adopt : BOOLEAN,
                   before : Axolotls, chats : Chats,
                   settled : BOOLEAN, logins : {"none", "one", "more"}]
    /\ excused \in BOOLEAN
    /\ archive.strong # None => archive.weak = archive.strong
    /\ import.adopt => import.pc # "idle" /\ import.logins = "none"

\* "A different or unknown account still refuses the merge" (docs/commands.md):
\* whatever logins happen before, after and in the middle of captures, whatever
\* the app has rewritten by then, every archived message is of the account the
\* archive is bound to.  The exception is a store without incoming messages that
\* is captured while the app is between two accounts or leaves and comes back.
MessagesAreOwned ==
    ~excused /\ archive.account # None =>
        \A m \in archive.messages : Owner[m] = Person[archive.account]

\* "Routine imports accept a replacement store for the same verified account"
\* (docs/commands.md): an archive is never locked out from its account.  Once it
\* is bound, it admits every readable source at its path that exposes the
\* account and a store, whatever was adopted, migrated, restored and refused
\* before.
NeverLockedOut ==
    archive.account \in Accounts =>
        \A store \in Stores, legacy \in SUBSET Leftovers, messages \in SUBSET Messages :
            Admitted([account |-> archive.account, legacy |-> legacy,
                      store |-> store, messages |-> messages], archive.weak, FALSE)
=============================================================================
