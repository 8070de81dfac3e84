------------------------ MODULE SourceBindingProofs ------------------------
(* Proofs about SourceBinding, for every set of accounts, messages, stores  *)
(* and paths.                                                               *)
EXTENDS SourceBinding, TLAPS

-----------------------------------------------------------------------------
(* Types.                                                                   *)

Maybe(S) == S \cup {None}

Imports == [pc : {"idle", "chats", "account"}, adopt : BOOLEAN,
            before : Axolotls, chats : Chats,
            settled : BOOLEAN, logins : {"none", "one", "more"}]

\* What Extract hands on.
Data == [account : Maybe(Accounts), legacy : SUBSET Leftovers,
         store : Maybe(Stores), messages : SUBSET Messages]

LEMMA FingerprintType ==
    ASSUME NEW ids \in SUBSET Accounts
    PROVE  /\ Fingerprint(ids) \in Maybe(Accounts)
           /\ ids # {} => Fingerprint(ids) \in ids
           /\ ids = {} => Fingerprint(ids) = None
BY DEF Fingerprint, Maybe

LEMMA DestinationsType ==
    ASSUME NEW messages \in SUBSET Messages
    PROVE  Destinations(messages) \in SUBSET Accounts
BY BindingAssumption DEF Destinations

LEMMA IdentityType ==
    ASSUME NEW axolotl \in Axolotls, NEW messages \in SUBSET Messages
    PROVE  Identity(axolotl, messages) \in Maybe(Accounts)
<1>1. axolotl.accounts \in SUBSET Accounts
  BY DEF Axolotls
<1> QED
  BY <1>1, FingerprintType, DestinationsType DEF Identity, Metadata

LEMMA ExtractedType ==
    ASSUME NEW before \in Axolotls, NEW after \in Axolotls, NEW chats \in Chats
    PROVE  Extracted(before, after, chats) \in Data
<1>1. chats.messages \in SUBSET Messages /\ chats.store \in Maybe(Stores)
  BY DEF Chats, Maybe
<1>2. after.legacy \in SUBSET Leftovers
  BY DEF Axolotls
<1> QED
  BY <1>1, <1>2, IdentityType DEF Extracted, Data, SharedIdentities, StoreIdentity

LEMMA RecordedType ==
    ASSUME TypeOK, NEW data \in Data, NEW path \in Paths, NEW restore \in BOOLEAN
    PROVE  /\ Recorded(data, path, restore) \in Archives
           /\ Recorded(data, path, restore).strong = Recorded(data, path, restore).weak
           /\ Recorded(data, path, restore).strong # None
<1>1. /\ archive.account \in Identities \cup {None}
      /\ archive.store \in Stores \cup {None}
      /\ archive.messages \in SUBSET Messages
  BY DEF TypeOK, Archives
<1>2. /\ data.account \in Identities \cup {None}
      /\ data.store \in Stores \cup {None}
      /\ data.messages \in SUBSET Messages
  BY DEF Data, Maybe, Identities
<1> QED
  BY <1>1, <1>2, BindingAssumption DEF Recorded, Archives

LEMMA NoImportType == NoImport \in Imports /\ ~NoImport.adopt /\ NoImport.pc = "idle"
BY DEF NoImport, Imports, NoAxolotl, NoChats, Axolotls, Chats

\* What an import does to the archive.
LEMMA ArchiveStep ==
    ASSUME TypeOK, Archive
    PROVE  \E axolotl \in AxolotlsOf(desktop.axolotl), path \in Paths, restore \in BOOLEAN :
               LET data == Extracted(import.before, axolotl, import.chats)
               IN  /\ axolotl \in Axolotls /\ data \in Data
                   /\ Extractable(import.before, axolotl, import.chats.messages)
                   /\ IF restore THEN ~import.adopt
                      ELSE Admitted(data, path, import.adopt)
                   /\ archive' = Recorded(data, path, restore)
                   /\ excused' = (Unverifiable(data) \/ (excused /\ ~restore))
<1>1. \A axolotl \in AxolotlsOf(desktop.axolotl) :
          axolotl \in Axolotls /\ Extracted(import.before, axolotl, import.chats) \in Data
  BY ExtractedType DEF AxolotlsOf, TypeOK
<1> QED
  BY <1>1 DEF Archive

LEMMA TypeInit == Init => TypeOK
<1> SUFFICES ASSUME Init PROVE TypeOK
  OBVIOUS
<1>1. archive \in Archives /\ (archive.strong # None => archive.weak = archive.strong)
  BY DEF Init, InitialArchives, EmptyArchive, Archives
<1>2. desktop \in [login : Accounts, axolotl : Accounts, chats : Accounts]
  BY DEF Init
<1>3. import \in Imports /\ ~import.adopt /\ excused \in BOOLEAN
  BY NoImportType DEF Init
<1> QED
  BY <1>1, <1>2, <1>3 DEF TypeOK, Imports

LEMMA TypeStep == TypeOK /\ [Next]_vars => TypeOK'
<1> SUFFICES ASSUME TypeOK, [Next]_vars PROVE TypeOK'
  OBVIOUS
<1>0. /\ import \in Imports
      /\ desktop \in [login : Accounts, axolotl : Accounts, chats : Accounts]
  BY DEF TypeOK, Imports
<1>1. CASE Login
  BY <1>1, <1>0 DEF Login, TypeOK, Imports
<1>2. CASE RewriteAxolotl \/ RewriteChats
  BY <1>2, <1>0 DEF RewriteAxolotl, RewriteChats, TypeOK
<1>3. CASE Start
  <2>1. PICK adopt \in BOOLEAN, axolotl \in AxolotlsOf(desktop.axolotl) :
            import' = [NoImport EXCEPT !.pc = "chats", !.adopt = adopt,
                                       !.before = axolotl, !.settled = Settled]
    BY <1>3 DEF Start
  <2>2. axolotl \in Axolotls /\ Settled \in BOOLEAN
    BY DEF AxolotlsOf, Settled
  <2>3. import' \in Imports /\ import'.pc = "chats" /\ import'.logins = "none"
    BY <2>1, <2>2, NoImportType DEF Imports, NoImport
  <2> QED
    BY <1>3, <2>3 DEF Start, TypeOK, Imports
<1>4. CASE CopyChats
  <2>1. PICK chats \in ChatsOf(desktop.chats) :
            import' = [import EXCEPT !.pc = "account", !.chats = chats]
    BY <1>4 DEF CopyChats
  <2>2. chats \in Chats
    BY DEF ChatsOf
  <2>3. import' \in Imports /\ import'.adopt = import.adopt
        /\ import'.pc = "account" /\ import'.logins = import.logins
    BY <1>0, <2>1, <2>2 DEF Imports
  <2> QED
    BY <1>4, <2>3 DEF CopyChats, TypeOK, Imports
<1>5. CASE Archive
  <2>1. archive' \in Archives /\ archive'.strong = archive'.weak
    BY <1>5, ArchiveStep, RecordedType
  <2>2. excused' \in BOOLEAN
    BY <1>5, ArchiveStep
  <2>3. import' = NoImport /\ UNCHANGED desktop
    BY <1>5 DEF Archive
  <2> QED
    BY <1>0, <2>1, <2>2, <2>3, NoImportType DEF TypeOK, Imports
<1>6. CASE Fail
  BY <1>6, NoImportType DEF Fail, TypeOK, Imports
<1>7. CASE UNCHANGED vars
  BY <1>7 DEF vars, TypeOK
<1> QED
  BY <1>1, <1>2, <1>3, <1>4, <1>5, <1>6, <1>7 DEF Next

\* Types hold in every reachable state; the archive's two paths agree, and the
\* account is not changed during an adoption.
THEOREM TypeCorrect == Spec => []TypeOK
BY TypeInit, TypeStep, PTL DEF Spec

\* An archive is never locked out from its own account, whatever happened to it
\* before (validateImportSource).
THEOREM NeverLocked == Spec => []NeverLockedOut
<1>1. TypeOK => NeverLockedOut
  <2> SUFFICES ASSUME TypeOK, archive.account \in Accounts,
                      NEW store \in Stores, NEW legacy \in SUBSET Leftovers,
                      NEW messages \in SUBSET Messages
               PROVE  Admitted([account |-> archive.account, legacy |-> legacy,
                                store |-> store, messages |-> messages], archive.weak, FALSE)
    BY DEF NeverLockedOut
  <2> DEFINE data == [account |-> archive.account, legacy |-> legacy,
                      store |-> store, messages |-> messages]
  <2>1. archive.account # None /\ store # None
    BY BindingAssumption DEF Identities
  <2>2. PathFits(archive.weak)
    BY DEF TypeOK, PathFits
  <2>3. SameAccount(data) /\ data.account # None /\ data.store # None
    BY <2>1 DEF SameAccount
  <2> HIDE DEF data
  <2>4. Admitted(data, archive.weak, FALSE)
    BY <2>1, <2>2, <2>3 DEF Admitted, AccountFits, BindingFits, StoreFits
  <2> QED
    BY <2>4 DEF data
<1> QED
  BY <1>1, TypeCorrect, PTL

-----------------------------------------------------------------------------
(* Ownership.                                                               *)

\* The messages are of one account.
OwnedBy(messages, a) == \A m \in messages : Owner[m] = a

\* What a running import knows of the logins since it was started, if the app was
\* settled then.  Without a login its files are of the account still logged in
\* to; after one login the first copy names another account.
Undisturbed ==
    import.pc # "idle" /\ import.settled /\ import.logins = "none" =>
        /\ Settled
        /\ OwnedBy(import.chats.messages, desktop.login)
        /\ import.before.accounts = {} \/ desktop.login \in import.before.accounts

LeftOnce ==
    import.pc # "idle" /\ import.settled /\ import.logins = "one" =>
        \/ import.before.accounts = {}
        \/ \E a \in import.before.accounts : a # desktop.login

\* The copy of a message store is of one account, whichever.
OneOwner == \E a \in Accounts : OwnedBy(import.chats.messages, a)

\* An adoption is by the owner of the messages.
HonestAdoption ==
    import.adopt => import.settled /\ OwnedBy(archive.messages, desktop.login)

Ownership ==
    TypeOK /\ Undisturbed /\ LeftOnce /\ OneOwner /\ HonestAdoption /\ MessagesAreOwned

\* An account that the files are found to be of, both times, owns their messages,
\* unless nothing could tell.
LEMMA IdentityIsOwner ==
    ASSUME Ownership, import.pc = "account",
           NEW axolotl \in Axolotls,
           axolotl.accounts = {} \/ desktop.axolotl \in axolotl.accounts,
           Extractable(import.before, axolotl, import.chats.messages),
           NEW data \in Data,
           data = Extracted(import.before, axolotl, import.chats),
           data.account # None,
           ~Unverifiable(data)
    PROVE  OwnedBy(data.messages, data.account)
<1> DEFINE named == Destinations(data.messages)
           b     == import.before.accounts
           c     == axolotl.accounts
<1>0. /\ data.messages = import.chats.messages
      /\ data.account = Identity(axolotl, data.messages)
      /\ data.messages \in SUBSET Messages
  BY DEF Extracted, Data
<1>1. b \in SUBSET Accounts /\ c \in SUBSET Accounts /\ named \in SUBSET Accounts
  BY <1>0, DestinationsType DEF Ownership, TypeOK, Axolotls
<1>2. /\ Unique(b) /\ Unique(c) /\ Unique(named)
      /\ c = {} \/ named = {} \/ c = named
      /\ data.account = Fingerprint(IF c # {} THEN c ELSE named)
      /\ data.account = Fingerprint(IF b # {} THEN b ELSE named)
  BY <1>0 DEF Extractable, Readable, Identity, Metadata
<1>3. PICK a \in Accounts : OwnedBy(data.messages, a)
  BY <1>0 DEF Ownership, OneOwner
<1>4. CASE named # {}
  <2>1. \A x \in named : x = a
    BY <1>0, <1>3 DEF OwnedBy, Destinations
  <2>2. Fingerprint(IF c # {} THEN c ELSE named) \in named
    BY <1>1, <1>2, <1>4, FingerprintType
  <2> QED
    BY <1>2, <1>3, <2>1, <2>2
<1>5. CASE named = {}
  <2>1. data.account \in c /\ data.account \in b
    BY <1>1, <1>2, <1>5, FingerprintType
  <2>2. desktop.axolotl = data.account
    BY <1>2, <2>1 DEF Unique
  <2>3. import.settled /\ Settled /\ import.logins # "more"
    BY <1>5 DEF Unverifiable
  <2>4. desktop.login = data.account
    BY <2>2, <2>3 DEF Settled
  <2>5. import.logins # "one"
    BY <1>2, <2>1, <2>3, <2>4 DEF Ownership, LeftOnce, Unique
  <2>6. import.logins = "none"
    BY <2>3, <2>5 DEF Ownership, TypeOK
  <2> QED
    BY <1>0, <2>3, <2>4, <2>6 DEF Ownership, Undisturbed
<1> QED
  BY <1>4, <1>5

\* An archive that admits a source holds nothing yet, or messages of its account.
LEMMA AdmittedIsOwner ==
    ASSUME Ownership, import.pc = "account", ~excused,
           NEW axolotl \in Axolotls,
           axolotl.accounts = {} \/ desktop.axolotl \in axolotl.accounts,
           NEW data \in Data,
           data = Extracted(import.before, axolotl, import.chats),
           data.account # None,
           OwnedBy(data.messages, data.account),
           Extractable(import.before, axolotl, import.chats.messages),
           NEW path, Admitted(data, path, import.adopt)
    PROVE  OwnedBy(archive.messages, data.account)
<1>0. /\ data.account \in Accounts /\ Person[data.account] = data.account
      /\ data.legacy \in SUBSET Leftovers
  BY BindingAssumption DEF Data, Maybe
<1>1. CASE archive.account # None /\ SameAccount(data)
  BY <1>0, <1>1 DEF SameAccount, Ownership, MessagesAreOwned, OwnedBy
<1>2. CASE archive.account # None /\ LegacyContinues(data)
  <2>1. PICK m \in data.messages : m \in archive.messages
    BY <1>2 DEF LegacyContinues
  <2>2. OwnedBy(archive.messages, Person[archive.account])
    BY <1>2 DEF Ownership, MessagesAreOwned, OwnedBy
  <2>3. Person[archive.account] = data.account
    BY <2>1, <2>2 DEF OwnedBy
  <2> QED
    BY <2>2, <2>3
<1>3. CASE archive.account = None /\ archive.messages = {}
  BY <1>3 DEF OwnedBy
<1>4. CASE archive.account = None /\ archive.messages # {}
  <2>1. import.adopt
    BY <1>4 DEF Admitted, BindingFits
  <2>2. /\ import.settled /\ import.logins = "none"
        /\ OwnedBy(archive.messages, desktop.login)
    BY <2>1 DEF Ownership, HonestAdoption, TypeOK
  <2>3. /\ desktop.axolotl = desktop.login
        /\ OwnedBy(data.messages, desktop.login)
    BY <2>2 DEF Ownership, Undisturbed, Settled, Extracted
  <2>4. desktop.login = data.account
    <3> DEFINE named == Destinations(data.messages)
               c     == axolotl.accounts
    <3>1. /\ c \in SUBSET Accounts /\ named \in SUBSET Accounts
      BY DestinationsType DEF Axolotls, Data
    <3>2. /\ Unique(c) /\ (c = {} \/ desktop.login \in c)
          /\ data.account = Fingerprint(IF c # {} THEN c ELSE named)
      BY <2>3 DEF Extractable, Readable, Identity, Metadata, Extracted
    <3>3. \A x \in named : x = desktop.login
      BY <2>3 DEF OwnedBy, Destinations
    <3>4. data.account \in (IF c # {} THEN c ELSE named)
      BY <3>1, <3>2, FingerprintType
    <3> QED
      BY <3>2, <3>3, <3>4 DEF Unique
  <2> QED
    BY <2>2, <2>4
<1> QED
  BY <1>1, <1>2, <1>3, <1>4 DEF Admitted, AccountFits

LEMMA OwnershipInit == Init => Ownership
<1> SUFFICES ASSUME Init PROVE Ownership
  OBVIOUS
<1>1. /\ import.pc = "idle" /\ ~import.adopt
      /\ import.chats.messages = {} /\ ~excused
  BY DEF Init, NoImport, NoChats
<1>2. PICK a \in Accounts : TRUE
  BY DEF Init
<1>3. MessagesAreOwned
  <2>1. CASE archive = EmptyArchive
    BY <2>1 DEF EmptyArchive, MessagesAreOwned
  <2>2. CASE archive # EmptyArchive
    BY <2>2 DEF Init, InitialArchives, MessagesAreOwned
  <2> QED
    BY <2>1, <2>2
<1> QED
  BY <1>1, <1>2, <1>3, TypeInit
  DEF Ownership, Undisturbed, LeftOnce, OneOwner, HonestAdoption, OwnedBy

LEMMA OwnershipStep == Ownership /\ [Next]_vars => Ownership'
<1> SUFFICES ASSUME Ownership, [Next]_vars PROVE Ownership'
  OBVIOUS
<1>0. /\ TypeOK /\ TypeOK'
      /\ desktop.login \in Accounts /\ import \in Imports
      /\ desktop \in [login : Accounts, axolotl : Accounts, chats : Accounts]
  BY TypeStep DEF Ownership, TypeOK, Imports
<1>1. CASE Login
  <2>1. PICK a \in Accounts \ {desktop.login} : desktop' = [desktop EXCEPT !.login = a]
    BY <1>1 DEF Login
  <2>2. /\ desktop'.login = a /\ ~import.adopt
        /\ UNCHANGED <<archive, excused>>
    BY <1>0, <1>1, <2>1 DEF Login
  <2>3. /\ import'.pc = import.pc /\ import'.adopt = import.adopt
        /\ import'.before = import.before /\ import'.chats = import.chats
        /\ import'.settled = import.settled
        /\ import'.logins = IF import.pc = "idle" THEN "none"
                            ELSE IF import.logins = "none" THEN "one"
                            ELSE "more"
    BY <1>0, <1>1 DEF Login, Imports
  <2>4. import.pc # "idle" => /\ import'.logins # "none"
                              /\ import'.logins = "one" => import.logins = "none"
    BY <2>3
  <2>5. LeftOnce'
    BY <2>1, <2>2, <2>3, <2>4 DEF Ownership, Undisturbed, LeftOnce
  <2> QED
    BY <1>0, <2>2, <2>3, <2>4, <2>5
    DEF Ownership, Undisturbed, OneOwner, HonestAdoption, MessagesAreOwned, OwnedBy
<1>2. CASE RewriteAxolotl \/ RewriteChats
  <2>1. /\ UNCHANGED <<archive, import, excused>>
        /\ desktop'.login = desktop.login /\ (Settled => Settled')
    BY <1>0, <1>2 DEF RewriteAxolotl, RewriteChats, Settled
  <2> QED
    BY <1>0, <2>1
    DEF Ownership, Undisturbed, LeftOnce, OneOwner, HonestAdoption, MessagesAreOwned, OwnedBy
<1>3. CASE Start
  <2>1. PICK adopt \in BOOLEAN, axolotl \in AxolotlsOf(desktop.axolotl) :
            /\ adopt => MayAdopt
            /\ import' = [NoImport EXCEPT !.pc = "chats", !.adopt = adopt,
                                          !.before = axolotl, !.settled = Settled]
    BY <1>3 DEF Start
  <2>2. /\ import'.adopt = adopt /\ import'.before = axolotl
        /\ import'.settled = Settled /\ import'.logins = "none"
        /\ import'.chats.messages = {}
    BY <2>1 DEF NoImport, NoChats
  <2>3. UNCHANGED <<desktop, archive, excused>>
    BY <1>3 DEF Start
  <2>4. axolotl.accounts = {} \/ desktop.axolotl \in axolotl.accounts
    BY DEF AxolotlsOf
  <2>5. Undisturbed'
    BY <2>2, <2>3, <2>4 DEF Undisturbed, Settled, OwnedBy
  <2> QED
    BY <1>0, <2>1, <2>2, <2>3, <2>5
    DEF Ownership, LeftOnce, OneOwner, HonestAdoption, MessagesAreOwned, OwnedBy, MayAdopt
<1>4. CASE CopyChats
  <2>1. PICK chats \in ChatsOf(desktop.chats) :
            import' = [import EXCEPT !.pc = "account", !.chats = chats]
    BY <1>4 DEF CopyChats
  <2>2. /\ import.pc = "chats" /\ UNCHANGED <<desktop, archive, excused>>
        /\ import'.chats = chats /\ import'.adopt = import.adopt
        /\ import'.before = import.before /\ import'.settled = import.settled
        /\ import'.logins = import.logins
    BY <1>0, <1>4, <2>1 DEF CopyChats, Imports
  <2>3. OwnedBy(chats.messages, desktop.chats) /\ desktop.chats \in Accounts
    BY <1>0 DEF ChatsOf, OwnedBy
  <2>4. OneOwner'
    BY <2>2, <2>3 DEF OneOwner, OwnedBy
  <2>5. Undisturbed'
    BY <2>2, <2>3 DEF Ownership, Undisturbed, Settled, OwnedBy
  <2> QED
    BY <1>0, <2>2, <2>4, <2>5
    DEF Ownership, LeftOnce, HonestAdoption, MessagesAreOwned, OwnedBy
<1>5. CASE Archive
  <2>1. /\ import'.pc = "idle" /\ ~import'.adopt /\ import'.chats.messages = {}
        /\ import.pc = "account"
    BY <1>5 DEF Archive, NoImport, NoChats
  <2>2. MessagesAreOwned'
    <3> SUFFICES ASSUME ~excused', archive'.account # None
                 PROVE  OwnedBy(archive'.messages, Person[archive'.account])
      BY DEF MessagesAreOwned, OwnedBy
    <3>1. PICK axolotl \in AxolotlsOf(desktop.axolotl), path \in Paths, restore \in BOOLEAN :
              LET data == Extracted(import.before, axolotl, import.chats)
              IN  /\ axolotl \in Axolotls /\ data \in Data
                  /\ Extractable(import.before, axolotl, import.chats.messages)
                  /\ IF restore THEN ~import.adopt
                     ELSE Admitted(data, path, import.adopt)
                  /\ archive' = Recorded(data, path, restore)
                  /\ excused' = (Unverifiable(data) \/ (excused /\ ~restore))
      BY <1>0, <1>5, ArchiveStep
    <3> DEFINE data == Extracted(import.before, axolotl, import.chats)
    <3>2. axolotl.accounts = {} \/ desktop.axolotl \in axolotl.accounts
      BY DEF AxolotlsOf
    <3>3. ~Unverifiable(data) /\ (~restore => ~excused)
      BY <3>1
    <3>4. data \in Data
      BY <3>1
    <3>5. data.account # None => OwnedBy(data.messages, data.account)
      BY <2>1, <3>1, <3>2, <3>3, <3>4, IdentityIsOwner
    <3>6. CASE restore
      <4>1. archive'.account = data.account /\ archive'.messages = data.messages
        BY <3>1, <3>6 DEF Recorded
      <4> QED
        BY <3>4, <3>5, <4>1, BindingAssumption DEF Data, Maybe
    <3>7. CASE ~restore /\ data.account # None
      <4>1. OwnedBy(archive.messages, data.account)
        BY <2>1, <3>1, <3>2, <3>3, <3>4, <3>5, <3>7, AdmittedIsOwner
      <4>2. archive'.account = data.account
            /\ archive'.messages = archive.messages \cup data.messages
        BY <3>1, <3>7 DEF Recorded
      <4>3. Person[data.account] = data.account
        BY <3>4, <3>7, BindingAssumption DEF Data, Maybe
      <4> QED
        BY <3>5, <3>7, <4>1, <4>2, <4>3 DEF OwnedBy
    <3>8. CASE ~restore /\ data.account = None
      <4>1. archive'.account = archive.account
        BY <3>1, <3>8 DEF Recorded
      <4>2. archive.account = None
        BY <3>1, <3>8 DEF Admitted, AccountFits, SameAccount, LegacyContinues
      <4> QED
        BY <4>1, <4>2
    <3> QED
      BY <3>6, <3>7, <3>8
  <2>3. OneOwner'
    BY <1>0, <2>1 DEF OneOwner, OwnedBy
  <2> QED
    BY <1>0, <2>1, <2>2, <2>3 DEF Ownership, Undisturbed, LeftOnce, HonestAdoption
<1>6. CASE Fail
  <2>1. /\ import'.pc = "idle" /\ ~import'.adopt /\ import'.chats.messages = {}
        /\ UNCHANGED <<desktop, archive, excused>>
    BY <1>6 DEF Fail, NoImport, NoChats
  <2> QED
    BY <1>0, <2>1
    DEF Ownership, Undisturbed, LeftOnce, OneOwner, HonestAdoption, MessagesAreOwned, OwnedBy
<1>7. CASE UNCHANGED vars
  BY <1>0, <1>7
  DEF vars, Ownership, Undisturbed, LeftOnce, OneOwner, HonestAdoption, MessagesAreOwned,
      OwnedBy, Settled
<1> QED
  BY <1>1, <1>2, <1>3, <1>4, <1>5, <1>6, <1>7 DEF Next

\* Messages of one account never reach the archive of another, whatever the user
\* and the app do between the copies of a capture (SnapshotPath, Extract,
\* validateImportSource).
THEOREM AccountsStayApart == Spec => []MessagesAreOwned
<1>1. Ownership => MessagesAreOwned
  BY DEF Ownership
<1> QED
  BY <1>1, OwnershipInit, OwnershipStep, PTL DEF Spec
=============================================================================
