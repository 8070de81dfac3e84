---------------------------- MODULE SourceResolve ----------------------------
(***************************************************************************)
(* Which archive event a row of a Desktop message store is (store/sources, *)
(* resolveImportMessages).  A relogin replaces the store and reuses its    *)
(* row numbers, WhatsApp reuses rows within a store, and a contact may be  *)
(* known by a phone number or by a LID; events must survive all of these.  *)
(*                                                                         *)
(* A row shows a discriminator: a core (chat, stanza, sender, time, from   *)
(* me, and the target of a reaction), and the raw type, which changes when *)
(* an attachment does.  One account is archived; ArchiveSync and           *)
(* validateImportSource keep others out.                                   *)
(*                                                                         *)
(* Event ids are hashes of the mapping that created them, taken to be      *)
(* injective, or the row number of a first import or a restore.  Numeric   *)
(* source keys follow the ids, since probing keeps them apart.             *)
(***************************************************************************)
EXTENDS Naturals, FiniteSets, Functions

CONSTANTS
    Stores,       \* fingerprints of Desktop stores
    Rows,         \* row numbers of ZWAMESSAGE
    Cores,        \* what identifies a message, save its type
    Complete,     \* the cores with every field known
    PN,           \* a core with its identifiers replaced by the linked numbers
    Worlds,       \* what the Desktop app may show: the discriminators of rows,
                  \* and whether it may tell that the chats were removed
    None,         \* no row, no store
    MaxEvents     \* bound of the archived events

Types == {"plain", "media", "reaction"}

ASSUME ResolveAssumption ==
    /\ Complete \subseteq Cores
    /\ PN \in [Cores -> Cores]
    /\ \A c \in Cores : PN[PN[c]] = PN[c] /\ (PN[c] \in Complete <=> c \in Complete)
    /\ Worlds \subseteq [discs : SUBSET [core : Cores, type : Types], removals : BOOLEAN]
    /\ None \notin [core : Cores, type : Types] /\ None \notin Stores
    /\ MaxEvents \in Nat

Discs == UNION {w.discs : w \in Worlds}

VARIABLES
    world,        \* what the Desktop app shows
    events,       \* the archived messages
    mappings,     \* message_sources
    fingerprint,  \* the store the archive was last imported from
    bound         \* whether the archive is bound to the account

vars == <<world, events, mappings, fingerprint, bound>>

\* Whether the contacts of a snapshot establish the links, if there are any.
LinkStates == IF \A d \in world.discs : PN[d.core] = d.core THEN {FALSE} ELSE BOOLEAN

Removals == IF world.removals THEN BOOLEAN ELSE {FALSE}

Tables == [Rows -> world.discs \cup {None}]

RowsOf(t) == {r \in Rows : t[r] # None}

Ids == [store : Stores \cup {None}, row : Rows, disc : Discs \cup {None}]

RowId(r)        == [store |-> None, row |-> r, disc |-> None]
KeyId(st, r, d) == [store |-> st, row |-> r, disc |-> d]

-----------------------------------------------------------------------------
(* Matching one row of table t of store st.  "linked" says whether the     *)
(* contacts of the snapshot establish the links between LIDs and numbers.  *)

Normalized(x, linked) ==
    [core |-> IF linked THEN PN[x.core] ELSE x.core, type |-> x.type]

StoreEvents(st) == {m.event : m \in {n \in mappings : n.store = st}}

Known(st, r, d) ==
    {m.event : m \in {n \in mappings : n.store = st /\ n.row = r /\ n.disc = d}}

\* Faulty: takes a reaction for its message's row.
SameCore(a, b) == a.core = b.core

\* Within a row of a store, a change of type is the same event, but for
\* reactions.
SameSourceRowEvent(a, b) ==
    a.core = b.core /\ a.type # "reaction" /\ b.type # "reaction"

RowMatches(st, r, d) ==
    {m.event : m \in {n \in mappings : /\ n.store = st /\ n.row = r
                                       /\ SameSourceRowEvent(n.disc, d)}}

Lookalikes(d, linked) ==
    {e.id : e \in {x \in events : /\ x.core \in Complete
                                  /\ Normalized(x, linked) = Normalized(d, linked)}}

\* Faulty: counts rows before the links are applied.
ExactTwins(t, d, linked) == {r \in RowsOf(t) : t[r] = d}

Twins(t, d, linked) ==
    {r \in RowsOf(t) : Normalized(t[r], linked) = Normalized(d, linked)}

\* Faulty: does not look whether the event already has a row in this store.
Claimable(st, ids) == ids

\* An event that has a row in this store is not matched to another row of it.
Unclaimed(st, ids) == ids \ StoreEvents(st)

\* Faulty: leaves every message of a new store separate.
NoUniqueMatches(st, t, r, linked) == {}

Single(S) == \E x \in S : S = {x}

\* The only event and the only row of their kind.
UniqueMatches(st, t, r, linked) ==
    LET ids == Lookalikes(t[r], linked)
    IN  IF /\ t[r].core \in Complete
           /\ Twins(t, t[r], linked) = {r}
           /\ Single(ids)
        THEN Unclaimed(st, ids) ELSE {}

\* Faulty: adopts nothing.
NoLegacyMatches(st, r, d) == {}

\* While an archive gets its first fingerprint, its own rows are adopted.
LegacyMatches(st, r, d) ==
    IF fingerprint = None
    THEN Unclaimed(st, {e.id : e \in {x \in events : x.row = r /\ x.core = d.core
                                                     /\ x.type = d.type}})
    ELSE {}

\* The loop over the rows also counts the events it has just given out as
\* claimed; ImportsAreAccepted shows that two rows never want the same one.
Matches(st, t, r, linked) ==
    LET known == Known(st, r, t[r])
        row   == RowMatches(st, r, t[r])
        uniq  == UniqueMatches(st, t, r, linked)
    IN  IF known # {} THEN known
        ELSE IF Single(row) THEN row
        ELSE IF uniq # {} THEN uniq
        ELSE LegacyMatches(st, r, t[r])

\* The event of every row of an authenticated import.
Resolve(st, t, linked) ==
    [r \in RowsOf(t) |->
        LET found == Matches(st, t, r, linked)
        IN  IF found # {} THEN CHOOSE id \in found : TRUE
            ELSE IF events = {} THEN RowId(r)
            ELSE KeyId(st, r, t[r])]

-----------------------------------------------------------------------------
(* Imports.                                                                *)

\* validateImportMessages, and the identity check of upsertMessage: no event
\* twice, and no event that is another message.
Accepted(t, res) ==
    \A r \in RowsOf(t) :
        /\ \A q \in RowsOf(t) \ {r} : res[q] # res[r]
        /\ \A e \in events : e.id = res[r] => PN[e.core] = PN[t[r].core]

NewEvent(id, r, d, removed) ==
    [id |-> id, row |-> r, core |-> d.core, type |-> d.type, dead |-> removed]

\* An archived message keeps its chat and sender, and all of it once it is
\* tombstoned; it takes the row and the type it is shown with.
Updated(e, t, res, removed) ==
    LET shown == {r \in RowsOf(t) : res[r] = e.id}
    IN  IF e.dead \/ shown = {}
        THEN [e EXCEPT !.dead = @ \/ removed]
        ELSE LET r == CHOOSE r \in shown : TRUE
             IN  [e EXCEPT !.row = r, !.type = t[r].type, !.dead = removed]

Merged(t, res, removed) ==
    {Updated(e, t, res, removed) : e \in events} \cup
    {NewEvent(res[r], r, t[r], removed) :
        r \in {q \in RowsOf(t) : \A e \in events : e.id # res[q]}}

\* Mappings are written once: "on conflict do nothing".
Recorded(st, t, res) ==
    mappings \cup {[store |-> st, row |-> r, disc |-> t[r], event |-> res[r]] :
                   r \in {q \in RowsOf(t) : Known(st, q, t[q]) = {}}}

\* A merge from a source with an account and a store.  An archive with rows
\* and no account yet is adopted explicitly, from its own store only.
Merge(st, t, linked, removed) ==
    LET res == Resolve(st, t, linked)
    IN  /\ bound \/ fingerprint \in {None, st}
        /\ Accepted(t, res)
        /\ events' = Merged(t, res, removed)
        /\ mappings' = Recorded(st, t, res)
        /\ fingerprint' = st
        /\ bound' = TRUE

Fresh(t, removed) == {NewEvent(RowId(r), r, t[r], removed) : r \in RowsOf(t)}

\* A merge from a source without account metadata, into an empty archive only.
\* Sources of the oldest archives had no fingerprint either.
MergeAccountless(st, t, removed) ==
    /\ ~bound /\ events = {}
    /\ fingerprint = None \/ fingerprint = st
    /\ events' = Fresh(t, removed)
    /\ fingerprint' = st
    /\ UNCHANGED <<mappings, bound>>

\* Faulty: forgets to delete the old mappings.
RestoreRows(st, t, removed, account) ==
    /\ events' = Fresh(t, removed)
    /\ fingerprint' = st
    /\ bound' = account
    /\ UNCHANGED mappings

\* import --restore: raw rows, and mappings if the account is known.
Restore(st, t, removed, account) ==
    /\ events' = Fresh(t, removed)
    /\ mappings' = IF account
                   THEN {[store |-> st, row |-> r, disc |-> t[r], event |-> RowId(r)] :
                         r \in RowsOf(t)}
                   ELSE {}
    /\ fingerprint' = st
    /\ bound' = account

-----------------------------------------------------------------------------
Init ==
    /\ world \in Worlds
    /\ events = {} /\ mappings = {}
    /\ fingerprint = None
    /\ bound = FALSE

Next ==
    /\ \E t \in Tables, removed \in Removals :
           \/ \E st \in Stores, linked \in LinkStates : Merge(st, t, linked, removed)
           \/ \E st \in Stores \cup {None} : MergeAccountless(st, t, removed)
           \/ \E st \in Stores, account \in BOOLEAN : Restore(st, t, removed, account)
    /\ Cardinality(events') <= MaxEvents
    /\ UNCHANGED world

Spec == Init /\ [][Next]_vars

-----------------------------------------------------------------------------
\* Type correctness; events have distinct ids, a mapping has one event, and
\* that event is archived.
TypeOK ==
    /\ world \in Worlds
    /\ events \subseteq [id : Ids, row : Rows, core : Cores, type : Types, dead : BOOLEAN]
    /\ \A e, f \in events : e.id = f.id => e = f
    /\ mappings \subseteq [store : Stores, row : Rows, disc : Discs, event : Ids]
    /\ \A m, n \in mappings :
           m.store = n.store /\ m.row = n.row /\ m.disc = n.disc => m = n
    /\ \A m \in mappings : \E e \in events : e.id = m.event
    /\ fingerprint \in Stores \cup {None}
    /\ bound \in BOOLEAN

\* Within one Desktop store an event has one row: otherwise a snapshot that
\* shows both rows would give the event twice and be refused for ever
\* (validateImportMessages).
OneRowPerEvent ==
    \A m, n \in mappings : m.store = n.store /\ m.event = n.event => m.row = n.row

\* Rows are only joined to an event that is the same message: the same core, up
\* to verified contact links, and never a reaction to a message.  A row reused
\* for another message or a reaction leaves the archived one alone.
SameMessage ==
    \A m \in mappings, e \in events :
        m.event = e.id => /\ PN[m.disc.core] = PN[e.core]
                          /\ m.disc.type = "reaction" <=> e.type = "reaction"

\* Resolution never produces what the import would refuse: no snapshot of a
\* store of the bound account is rejected for a conflict of identities, however
\* rows were reused, relogins interleaved and links came and went.
ImportsAreAccepted ==
    bound => \A st \in Stores, t \in Tables, linked \in LinkStates :
                Accepted(t, Resolve(st, t, linked))

\* The explicit adoption of an archive that never had an account or a store gives
\* every message the source still shows at its old row its old event, also
\* messages too incomplete to be told from others.
AdoptionKeepsEvents ==
    ~bound /\ fingerprint = None =>
        \A st \in Stores, t \in Tables, e \in events :
            t[e.row] = [core |-> e.core, type |-> e.type]
            => Resolve(st, t, FALSE)[e.row] = e.id

\* No two messages could be taken for each other: cores are complete, and no two
\* rows and no two archived events look alike.
Unambiguous(t) ==
    /\ \A r \in RowsOf(t) : t[r].core \in Complete /\ Twins(t, t[r], TRUE) = {r}
    /\ \A e, f \in events : PN[e.core] = PN[f.core] /\ e.type = f.type => e = f

\* Importing t from st again would change nothing: its rows are recorded, and
\* their events are as shown.  (A tombstoned message keeps the type it was
\* archived with.  When its row shows another one since, a relogin archives it
\* a second time.)
Unchanged(st, t) ==
    \A r \in RowsOf(t) :
        \E e \in events : Known(st, r, t[r]) = {e.id} /\ e.type = t[r].type

\* The tables that show what t shows, at other rows.
Renumbered(t) ==
    {[r \in Rows |-> t[p[r]]] : p \in Bijection(Rows, Rows)}

\* The events a relogin finds in a new store, which None stands for, are those
\* of the old one.
ReloginKeeps(st, t) ==
    \A u \in Renumbered(t) :
        \A r \in RowsOf(t), q \in RowsOf(u) :
            u[q] = t[r] => {Resolve(None, u, TRUE)[q]} = Known(st, r, t[r])

\* "An unchanged import adds no new events or revisions merely because Desktop
\* row IDs changed" (docs/data-model.md): the messages of an unambiguous
\* snapshot are found again in the store of a new login.
ReloginKeepsEvents ==
    bound => \A st \in Stores, t \in Tables :
                 Unambiguous(t) /\ Unchanged(st, t) => ReloginKeeps(st, t)
=============================================================================
