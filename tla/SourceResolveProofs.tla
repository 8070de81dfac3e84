------------------------- MODULE SourceResolveProofs -------------------------
(* Proofs about SourceResolve, for any stores, rows, messages and links.    *)
EXTENDS SourceResolve, TLAPS

Event == [id : Ids, row : Rows, core : Cores, type : Types, dead : BOOLEAN]

Mapping == [store : Stores, row : Rows, disc : Discs, event : Ids]

Reaction(x) == x.type = "reaction"

-----------------------------------------------------------------------------
(* The inductive invariant.                                                 *)

\* An event that was created in a store has the mapping that created it: its id
\* is not given to another message.
KeysAreRecorded ==
    \A e \in events : e.id.store # None =>
        \E m \in mappings : /\ m.store = e.id.store /\ m.row = e.id.row
                            /\ m.disc = e.id.disc /\ m.event = e.id

\* An archive without an account holds what one snapshot showed, and no mappings.
UnboundIsRaw ==
    ~bound => /\ mappings = {}
              /\ \A e, f \in events : e.row = f.row => e = f

Resolvable ==
    TypeOK /\ OneRowPerEvent /\ SameMessage /\ KeysAreRecorded /\ UnboundIsRaw

-----------------------------------------------------------------------------
(* Resolution.                                                              *)

\* What a snapshot shows in a row.
LEMMA RowTypes ==
    ASSUME TypeOK, NEW t \in Tables, NEW r \in RowsOf(t)
    PROVE  /\ r \in Rows /\ t[r] \in Discs /\ t[r].core \in Cores /\ t[r].type \in Types
           /\ t[r] = [core |-> t[r].core, type |-> t[r].type]
<1>1. world.discs \subseteq [core : Cores, type : Types] /\ world.discs \subseteq Discs
  BY ResolveAssumption DEF TypeOK, Discs
<1> QED
  BY <1>1 DEF Tables, RowsOf

\* Where the event of a row comes from: a mapping of the row, a message that
\* looks the same and has no row in the store, a row of an archive that gets its
\* first store, or nowhere.
FromMapping(st, r, d, id) ==
    \E m \in mappings : /\ m.store = st /\ m.row = r /\ m.event = id
                        /\ m.disc.core = d.core /\ (Reaction(m.disc) <=> Reaction(d))

FromLookalike(st, t, r, linked, id) ==
    /\ id \notin StoreEvents(st) /\ Twins(t, t[r], linked) = {r}
    /\ \E e \in events : e.id = id /\ Normalized(e, linked) = Normalized(t[r], linked)

FromRow(st, r, d, id) ==
    /\ id \notin StoreEvents(st)
    /\ \E e \in events : e.id = id /\ e.row = r /\ e.core = d.core /\ e.type = d.type

New(st, r, d, id) ==
    /\ \A e \in events : e.id # id
    /\ id = IF events = {} THEN RowId(r) ELSE KeyId(st, r, d)

LEMMA MatchSources ==
    ASSUME TypeOK, NEW st, NEW t \in Tables, NEW r \in RowsOf(t), NEW linked \in BOOLEAN,
           NEW id \in Matches(st, t, r, linked)
    PROVE  \/ FromMapping(st, r, t[r], id)
           \/ FromLookalike(st, t, r, linked, id)
           \/ FromRow(st, r, t[r], id)
<1>1. \/ id \in Known(st, r, t[r])
      \/ id \in RowMatches(st, r, t[r])
      \/ id \in UniqueMatches(st, t, r, linked)
      \/ id \in LegacyMatches(st, r, t[r])
  BY DEF Matches
<1>2. id \in Known(st, r, t[r]) => FromMapping(st, r, t[r], id)
  BY DEF Known, FromMapping
<1>3. id \in RowMatches(st, r, t[r]) => FromMapping(st, r, t[r], id)
  BY DEF RowMatches, FromMapping, SameSourceRowEvent, Reaction
<1>4. ASSUME id \in UniqueMatches(st, t, r, linked)
      PROVE  FromLookalike(st, t, r, linked, id)
  <2>1. id \in Unclaimed(st, Lookalikes(t[r], linked)) /\ Twins(t, t[r], linked) = {r}
    BY <1>4 DEF UniqueMatches
  <2> QED
    BY <2>1 DEF Unclaimed, Lookalikes, FromLookalike
<1>5. id \in LegacyMatches(st, r, t[r]) => FromRow(st, r, t[r], id)
  BY DEF LegacyMatches, Unclaimed, FromRow
<1> QED
  BY <1>1, <1>2, <1>3, <1>4, <1>5

\* No event has the id of a new one.
LEMMA NewIsNew ==
    ASSUME TypeOK, KeysAreRecorded, NEW st \in Stores, NEW r, NEW d,
           Known(st, r, d) = {}
    PROVE  \A e \in events : e.id # KeyId(st, r, d)
<1> SUFFICES ASSUME NEW e \in events, e.id = KeyId(st, r, d) PROVE FALSE
  OBVIOUS
<1>1. e.id.store = st /\ e.id.row = r /\ e.id.disc = d /\ st # None
  BY ResolveAssumption DEF KeyId
<1>2. PICK m \in mappings : m.store = st /\ m.row = r /\ m.disc = d
  BY <1>1 DEF KeysAreRecorded
<1>3. m.event \in Known(st, r, d)
  BY <1>2 DEF Known
<1> QED
  BY <1>3

LEMMA ResolveSources ==
    ASSUME TypeOK, KeysAreRecorded, NEW st \in Stores, NEW t \in Tables,
           NEW r \in RowsOf(t), NEW linked \in BOOLEAN,
           NEW id, id = Resolve(st, t, linked)[r]
    PROVE  \/ FromMapping(st, r, t[r], id)
           \/ FromLookalike(st, t, r, linked, id)
           \/ FromRow(st, r, t[r], id)
           \/ New(st, r, t[r], id) /\ Known(st, r, t[r]) = {}
<1> DEFINE found == Matches(st, t, r, linked)
<1>1. /\ found # {} => id = CHOOSE x \in found : TRUE
      /\ found = {} => id = IF events = {} THEN RowId(r) ELSE KeyId(st, r, t[r])
  BY DEF Resolve
<1>2. Known(st, r, t[r]) # {} => found # {}
  BY DEF Matches
<1> HIDE DEF found
<1>3. CASE found # {}
  <2>1. id \in found
    BY <1>1, <1>3, Zenon
  <2> QED
    BY <2>1, MatchSources DEF found
<1>4. CASE found = {}
  <2>1. Known(st, r, t[r]) = {}
    BY <1>2, <1>4
  <2>2. id = IF events = {} THEN RowId(r) ELSE KeyId(st, r, t[r])
    BY <1>1, <1>4
  <2> QED
    BY <2>1, <2>2, NewIsNew DEF New
<1> QED
  BY <1>3, <1>4

\* A row is only given an event that is not of another kind, and that has no other
\* row in the store.
LEMMA ResolveJoins ==
    ASSUME Resolvable, NEW st \in Stores, NEW t \in Tables,
           NEW r \in RowsOf(t), NEW linked \in BOOLEAN,
           NEW id, id = Resolve(st, t, linked)[r]
    PROVE  /\ id \in Ids
           /\ \A e \in events : e.id = id => (Reaction(e) <=> Reaction(t[r]))
           /\ \A e \in events : e.id = id => PN[e.core] = PN[t[r].core]
           /\ \A m \in mappings : m.store = st /\ m.event = id => m.row = r
           /\ (\A e \in events : e.id # id) =>
                  New(st, r, t[r], id) /\ Known(st, r, t[r]) = {}
<1> USE DEF Resolvable
<1>0. r \in Rows /\ t[r] \in Discs
  BY RowTypes
<1>1. CASE FromMapping(st, r, t[r], id)
  <2>1. PICK m \in mappings : /\ m.store = st /\ m.row = r /\ m.event = id
                              /\ m.disc.core = t[r].core
                              /\ (Reaction(m.disc) <=> Reaction(t[r]))
    BY <1>1 DEF FromMapping
  <2>2. PICK e \in events : e.id = id
    BY <2>1 DEF TypeOK
  <2>3. id \in Ids
    BY <2>2 DEF TypeOK
  <2>4. \A f \in events : f.id = id => /\ Reaction(f) <=> Reaction(t[r])
                                       /\ PN[f.core] = PN[t[r].core]
    BY <2>1 DEF SameMessage, Reaction
  <2>5. \A n \in mappings : n.store = st /\ n.event = id => n.row = r
    BY <2>1 DEF OneRowPerEvent
  <2> QED
    BY <2>2, <2>3, <2>4, <2>5
<1>2. CASE FromLookalike(st, t, r, linked, id)
  <2>1. PICK e \in events : e.id = id /\ Normalized(e, linked) = Normalized(t[r], linked)
    BY <1>2 DEF FromLookalike
  <2>4. e.core \in Cores /\ e.type = t[r].type /\ PN[e.core] = PN[t[r].core]
    BY <1>0, <2>1, RowTypes, ResolveAssumption DEF Normalized, TypeOK
  <2>2. id \in Ids /\ \A f \in events : f.id = id => f = e
    BY <2>1 DEF TypeOK
  <2>3. \A n \in mappings : n.store = st => n.event # id
    BY <1>2 DEF FromLookalike, StoreEvents
  <2> QED
    BY <2>1, <2>2, <2>3, <2>4 DEF Reaction
<1>3. CASE FromRow(st, r, t[r], id)
  <2>1. PICK e \in events : e.id = id /\ e.type = t[r].type /\ e.core = t[r].core
    BY <1>3 DEF FromRow
  <2>2. id \in Ids /\ \A f \in events : f.id = id => f = e
    BY <2>1 DEF TypeOK
  <2>3. \A n \in mappings : n.store = st => n.event # id
    BY <1>3 DEF FromRow, StoreEvents
  <2> QED
    BY <2>1, <2>2, <2>3 DEF Reaction
<1>4. CASE New(st, r, t[r], id) /\ Known(st, r, t[r]) = {}
  <2>1. id \in Ids
    BY <1>0, <1>4 DEF New, RowId, KeyId, Ids
  <2>2. \A m \in mappings : m.event # id
    BY <1>4 DEF New, TypeOK
  <2> QED
    BY <1>4, <2>1, <2>2 DEF New
<1> QED
  BY <1>1, <1>2, <1>3, <1>4, ResolveSources
-----------------------------------------------------------------------------
(* The steps.                                                               *)

\* An archived message keeps its id and core; its type may become that of a row
\* it was found in.
LEMMA UpdatedFacts ==
    ASSUME TypeOK, NEW e \in events, NEW t \in Tables, NEW res, NEW removed \in BOOLEAN
    PROVE  /\ Updated(e, t, res, removed) \in Event
           /\ Updated(e, t, res, removed).id = e.id
           /\ Updated(e, t, res, removed).core = e.core
           /\ \/ Updated(e, t, res, removed).type = e.type
              \/ \E r \in RowsOf(t) : /\ res[r] = e.id
                                      /\ Updated(e, t, res, removed).type = t[r].type
<1> DEFINE shown == {r \in RowsOf(t) : res[r] = e.id}
<1>0. e \in Event /\ (e.dead \/ removed) \in BOOLEAN
  BY DEF TypeOK, Event
<1>1. CASE e.dead \/ shown = {}
  <2>1. Updated(e, t, res, removed) = [e EXCEPT !.dead = @ \/ removed]
    BY <1>1 DEF Updated
  <2> QED
    BY <2>1, <1>0 DEF Event
<1>2. CASE ~(e.dead \/ shown = {})
  <2> DEFINE r == CHOOSE r \in shown : TRUE
  <2>1. Updated(e, t, res, removed)
            = [e EXCEPT !.row = r, !.type = t[r].type, !.dead = removed]
    BY <1>2 DEF Updated
  <2>2. r \in shown
    <3> HIDE DEF shown
    <3> QED
      BY <1>2, Zenon
  <2> HIDE DEF r
  <2>3. r \in RowsOf(t) /\ res[r] = e.id
    BY <2>2
  <2>4. r \in Rows /\ t[r].type \in Types
    BY <2>3, RowTypes
  <2> QED
    BY <1>0, <2>1, <2>3, <2>4 DEF Event
<1> QED
  BY <1>1, <1>2

\* The rows of a snapshot as a first import or a restore archives them.
LEMMA FreshFacts ==
    ASSUME TypeOK, NEW t \in Tables, NEW removed \in BOOLEAN
    PROVE  /\ Fresh(t, removed) \subseteq Event
           /\ \A e \in Fresh(t, removed) :
                  /\ e.row \in RowsOf(t) /\ e.id = RowId(e.row)
                  /\ e.core = t[e.row].core /\ e.type = t[e.row].type
           /\ \A e, f \in Fresh(t, removed) : e.id = f.id \/ e.row = f.row => e = f
           /\ \A r \in RowsOf(t) : NewEvent(RowId(r), r, t[r], removed) \in Fresh(t, removed)
<1>1. \A r \in RowsOf(t) : RowId(r) \in Ids /\ NewEvent(RowId(r), r, t[r], removed) \in Event
  BY RowTypes DEF RowId, Ids, NewEvent, Event
<1>2. \A r, q : RowId(r) = RowId(q) => r = q
  BY DEF RowId
<1>3. \A e \in Fresh(t, removed) :
          /\ e.row \in RowsOf(t) /\ e.id = RowId(e.row)
          /\ e.core = t[e.row].core /\ e.type = t[e.row].type
          /\ e = NewEvent(RowId(e.row), e.row, t[e.row], removed)
  BY DEF Fresh, NewEvent
<1> QED
  BY <1>1, <1>2, <1>3 DEF Fresh

LEMMA RemovalsType == ASSUME NEW removed \in Removals PROVE removed \in BOOLEAN
BY DEF Removals

LEMMA LinkStatesType == ASSUME NEW linked \in LinkStates PROVE linked \in BOOLEAN
BY DEF LinkStates

LEMMA ResolvableInit == Init => Resolvable
BY DEF Init, Resolvable, TypeOK, OneRowPerEvent, SameMessage, KeysAreRecorded, UnboundIsRaw

LEMMA RestoreStep ==
    ASSUME Resolvable, NEW st \in Stores, NEW t \in Tables, NEW removed \in BOOLEAN,
           NEW account \in BOOLEAN, Restore(st, t, removed, account), UNCHANGED world
    PROVE  Resolvable'
<1>0. TypeOK
  BY DEF Resolvable
<1>1. /\ events' = Fresh(t, removed) /\ fingerprint' = st /\ bound' = account
      /\ \A m \in mappings' : /\ account /\ m.row \in RowsOf(t) /\ m.event = RowId(m.row)
                              /\ m = [store |-> st, row |-> m.row, disc |-> t[m.row],
                                      event |-> RowId(m.row)]
  BY DEF Restore
<1>2. ~account => mappings' = {}
  BY <1>1
<1>3. /\ \A r, q : RowId(r) = RowId(q) => r = q
      /\ \A r : RowId(r).store = None
      /\ \A r \in RowsOf(t) : RowId(r) \in Ids
  BY RowTypes, <1>0 DEF RowId, Ids
<1>4. TypeOK'
  <2>1. world' \in Worlds /\ fingerprint' \in Stores \cup {None} /\ bound' \in BOOLEAN
    BY <1>0, <1>1 DEF TypeOK
  <2>2. events' \subseteq Event /\ \A e, f \in events' : e.id = f.id => e = f
    BY <1>0, <1>1, FreshFacts
  <2>3. mappings' \subseteq [store : Stores, row : Rows, disc : Discs, event : Ids]
    <3> SUFFICES ASSUME NEW m \in mappings'
                 PROVE  m \in [store : Stores, row : Rows, disc : Discs, event : Ids]
      OBVIOUS
    <3>1. m.row \in Rows /\ t[m.row] \in Discs /\ RowId(m.row) \in Ids
      BY <1>0, <1>1, <1>3, RowTypes
    <3> QED
      BY <1>1, <3>1
  <2>4. \A m, n \in mappings' :
            m.store = n.store /\ m.row = n.row /\ m.disc = n.disc => m = n
    BY <1>1
  <2>5. \A m \in mappings' : \E e \in events' : e.id = m.event
    <3> SUFFICES ASSUME NEW m \in mappings' PROVE \E e \in events' : e.id = m.event
      OBVIOUS
    <3>1. NewEvent(RowId(m.row), m.row, t[m.row], removed) \in events'
      BY <1>0, <1>1, FreshFacts
    <3> QED
      BY <1>1, <3>1 DEF NewEvent
  <2> QED
    BY <2>1, <2>2, <2>3, <2>4, <2>5 DEF TypeOK, Event
<1>5. OneRowPerEvent'
  BY <1>1, <1>3 DEF OneRowPerEvent
<1>6. SameMessage'
  <2> SUFFICES ASSUME NEW m \in mappings', NEW e \in events', m.event = e.id
               PROVE  /\ PN[m.disc.core] = PN[e.core]
                      /\ m.disc.type = "reaction" <=> e.type = "reaction"
    BY DEF SameMessage
  <2>1. e.id = RowId(e.row) /\ e.core = t[e.row].core /\ e.type = t[e.row].type
    BY <1>0, <1>1, FreshFacts
  <2>2. e.row = m.row /\ m.disc = t[m.row]
    BY <1>1, <1>3, <2>1
  <2> QED
    BY <2>1, <2>2
<1>7. KeysAreRecorded'
  BY <1>0, <1>1, <1>3, FreshFacts DEF KeysAreRecorded
<1>8. UnboundIsRaw'
  BY <1>0, <1>1, <1>2, FreshFacts DEF UnboundIsRaw
<1> QED
  BY <1>4, <1>5, <1>6, <1>7, <1>8 DEF Resolvable

LEMMA AccountlessStep ==
    ASSUME Resolvable, NEW st \in Stores \cup {None}, NEW t \in Tables,
           NEW removed \in BOOLEAN, MergeAccountless(st, t, removed), UNCHANGED world
    PROVE  Resolvable'
<1>0. TypeOK /\ mappings = {} /\ mappings' = {}
  BY DEF Resolvable, UnboundIsRaw, MergeAccountless
<1>1. events' = Fresh(t, removed) /\ fingerprint' = st /\ bound' = bound
  BY DEF MergeAccountless
<1>2. \A r : RowId(r).store = None
  BY DEF RowId
<1>3. TypeOK'
  BY <1>0, <1>1, FreshFacts DEF TypeOK, Event
<1>4. KeysAreRecorded' /\ UnboundIsRaw'
  BY <1>0, <1>1, <1>2, FreshFacts DEF KeysAreRecorded, UnboundIsRaw
<1> QED
  BY <1>0, <1>3, <1>4 DEF Resolvable, OneRowPerEvent, SameMessage

\* A merge whose rows all get events that Accepted allows.
LEMMA MergeStep ==
    ASSUME Resolvable, NEW st \in Stores, NEW t \in Tables, NEW linked \in BOOLEAN,
           NEW removed \in BOOLEAN, Merge(st, t, linked, removed), UNCHANGED world
    PROVE  Resolvable'
<1> DEFINE res == Resolve(st, t, linked)
           Up(e) == Updated(e, t, res, removed)
           added == {q \in RowsOf(t) : \A e \in events : e.id # res[q]}
           Added(r) == NewEvent(res[r], r, t[r], removed)
           Entry(r) == [store |-> st, row |-> r, disc |-> t[r], event |-> res[r]]
           first == {q \in RowsOf(t) : Known(st, q, t[q]) = {}}
<1>0. TypeOK /\ OneRowPerEvent /\ SameMessage /\ KeysAreRecorded
  BY DEF Resolvable
<1>1. /\ Accepted(t, res) /\ fingerprint' = st /\ bound' = TRUE
      /\ events' = {Up(e) : e \in events} \cup {Added(r) : r \in added}
      /\ mappings' = mappings \cup {Entry(r) : r \in first}
  BY DEF Merge, Merged, Recorded
<1>2. \A e \in events :
          /\ Up(e) \in Event /\ Up(e).id = e.id /\ Up(e).core = e.core
          /\ Up(e).type = e.type \/ \E r \in RowsOf(t) : res[r] = e.id /\ Up(e).type = t[r].type
  BY <1>0, UpdatedFacts
<1>3. \A r \in RowsOf(t) :
          /\ r \in Rows /\ t[r] \in Discs /\ t[r].core \in Cores /\ t[r].type \in Types
          /\ res[r] \in Ids
          /\ \A e \in events : e.id = res[r] => (Reaction(e) <=> Reaction(t[r]))
          /\ \A m \in mappings : m.store = st /\ m.event = res[r] => m.row = r
          /\ (\A e \in events : e.id # res[r]) =>
                 New(st, r, t[r], res[r]) /\ Known(st, r, t[r]) = {}
  <2> SUFFICES ASSUME NEW r \in RowsOf(t)
               PROVE  /\ r \in Rows /\ t[r] \in Discs /\ t[r].core \in Cores
                      /\ t[r].type \in Types /\ res[r] \in Ids
                      /\ \A e \in events : e.id = res[r] => (Reaction(e) <=> Reaction(t[r]))
                      /\ \A m \in mappings : m.store = st /\ m.event = res[r] => m.row = r
                      /\ (\A e \in events : e.id # res[r]) =>
                             New(st, r, t[r], res[r]) /\ Known(st, r, t[r]) = {}
    OBVIOUS
  <2>1. PICK id : id = Resolve(st, t, linked)[r]
    OBVIOUS
  <2>2. /\ id \in Ids
        /\ \A e \in events : e.id = id => (Reaction(e) <=> Reaction(t[r]))
        /\ \A m \in mappings : m.store = st /\ m.event = id => m.row = r
        /\ (\A e \in events : e.id # id) => New(st, r, t[r], id) /\ Known(st, r, t[r]) = {}
    BY <2>1, ResolveJoins
  <2>3. /\ r \in Rows /\ t[r] \in Discs /\ t[r].core \in Cores /\ t[r].type \in Types
    BY <1>0, RowTypes
  <2> QED
    BY <2>1, <2>2, <2>3
<1>4. /\ \A r, q \in RowsOf(t) : res[r] = res[q] => r = q
      /\ \A r \in RowsOf(t), e \in events : e.id = res[r] => PN[e.core] = PN[t[r].core]
  BY <1>1 DEF Accepted
<1>5. \A r : /\ Added(r).id = res[r] /\ Added(r).row = r /\ Added(r).core = t[r].core
             /\ Added(r).type = t[r].type
             /\ Entry(r).store = st /\ Entry(r).row = r /\ Entry(r).disc = t[r]
             /\ Entry(r).event = res[r]
  BY DEF NewEvent
<1>6. \A r \in RowsOf(t) : Added(r) \in Event /\ Entry(r) \in Mapping
  BY <1>3 DEF NewEvent, Event, Mapping
<1>7. \A m \in mappings : \E e \in events : e.id = m.event
  BY <1>0 DEF TypeOK
<1>8. \A r \in first, m \in mappings : ~(m.store = st /\ m.row = r /\ m.disc = t[r])
  BY DEF Known
<1>9. \A e \in events, f \in events : e.id = f.id => e = f
  BY <1>0 DEF TypeOK
<1> HIDE DEF res, Up, Added, Entry
<1>10. TypeOK'
  <2>1. world' \in Worlds /\ fingerprint' \in Stores \cup {None} /\ bound' \in BOOLEAN
    BY <1>0, <1>1 DEF TypeOK
  <2>2. events' \subseteq Event
    BY <1>1, <1>2, <1>6
  <2>3. \A e, f \in events' : e.id = f.id => e = f
    BY <1>1, <1>2, <1>4, <1>5, <1>9
  <2>4. mappings' \subseteq Mapping
    BY <1>0, <1>1, <1>6 DEF TypeOK, Mapping
  <2>5. \A m, n \in mappings' :
            m.store = n.store /\ m.row = n.row /\ m.disc = n.disc => m = n
    BY <1>0, <1>1, <1>5, <1>8 DEF TypeOK
  <2>6. \A r \in RowsOf(t) : \E e \in events' : e.id = res[r]
    <3> SUFFICES ASSUME NEW r \in RowsOf(t) PROVE \E e \in events' : e.id = res[r]
      OBVIOUS
    <3>1. CASE r \in added
      BY <1>1, <1>5, <3>1
    <3>2. CASE \E e \in events : e.id = res[r]
      BY <1>1, <1>2, <3>2
    <3> QED
      BY <3>1, <3>2
  <2>7. \A m \in mappings' : \E e \in events' : e.id = m.event
    BY <1>1, <1>2, <1>5, <1>7, <2>6
  <2> QED
    BY <2>1, <2>2, <2>3, <2>4, <2>5, <2>7 DEF TypeOK, Event, Mapping
<1>11. OneRowPerEvent'
  BY <1>0, <1>1, <1>3, <1>4, <1>5 DEF OneRowPerEvent
<1>12. SameMessage'
  <2> SUFFICES ASSUME NEW m \in mappings', NEW f \in events', m.event = f.id
               PROVE  /\ PN[m.disc.core] = PN[f.core]
                      /\ Reaction(m.disc) <=> Reaction(f)
    BY DEF SameMessage, Reaction
  <2>1. CASE \E e \in events : f = Up(e)
    <3>1. PICK e \in events : f = Up(e)
      BY <2>1
    <3>2. f.id = e.id /\ f.core = e.core
      BY <1>2, <3>1
    <3>3. Reaction(f) <=> Reaction(e)
      BY <1>2, <1>3, <3>1 DEF Reaction
    <3>4. CASE m \in mappings
      BY <1>0, <3>2, <3>3, <3>4 DEF SameMessage, Reaction
    <3>5. CASE m \notin mappings
      <4>1. PICK r \in first : m = Entry(r)
        BY <1>1, <3>5
      <4>2. m.disc = t[r] /\ e.id = res[r] /\ r \in RowsOf(t)
        BY <1>5, <3>2, <4>1
      <4> QED
        BY <1>3, <1>4, <3>2, <3>3, <4>2
    <3> QED
      BY <3>4, <3>5
  <2>2. CASE \E r \in added : f = Added(r)
    <3>1. PICK r \in added : f = Added(r)
      BY <2>2
    <3>2. f.id = res[r] /\ f.core = t[r].core /\ f.type = t[r].type
      BY <1>5, <3>1
    <3>3. m \notin mappings
      BY <1>7, <3>2
    <3>4. PICK q \in first : m = Entry(q)
      BY <1>1, <3>3
    <3>5. q = r
      BY <1>4, <1>5, <3>2, <3>4
    <3> QED
      BY <1>5, <3>2, <3>4, <3>5 DEF Reaction
  <2> QED
    BY <1>1, <2>1, <2>2
<1>13. KeysAreRecorded'
  <2> SUFFICES ASSUME NEW f \in events', f.id.store # None
               PROVE  \E m \in mappings' : /\ m.store = f.id.store /\ m.row = f.id.row
                                           /\ m.disc = f.id.disc /\ m.event = f.id
    BY DEF KeysAreRecorded
  <2>1. CASE \E e \in events : f = Up(e)
    BY <1>0, <1>1, <1>2, <2>1 DEF KeysAreRecorded
  <2>2. CASE \E r \in added : f = Added(r)
    <3>1. PICK r \in added : f = Added(r)
      BY <2>2
    <3>2. f.id = res[r] /\ New(st, r, t[r], res[r]) /\ Known(st, r, t[r]) = {}
      BY <1>3, <1>5, <3>1
    <3>3. f.id = KeyId(st, r, t[r])
      BY <3>2 DEF New, RowId
    <3>4. f.id.store = st /\ f.id.row = r /\ f.id.disc = t[r]
      BY <3>3 DEF KeyId
    <3>5. Entry(r) \in mappings'
      BY <1>1, <3>2
    <3> QED
      BY <1>5, <3>2, <3>4, <3>5
  <2> QED
    BY <1>1, <2>1, <2>2
<1>14. UnboundIsRaw'
  BY <1>1 DEF UnboundIsRaw
<1> QED
  BY <1>10, <1>11, <1>12, <1>13, <1>14 DEF Resolvable

LEMMA ResolvableStep == Resolvable /\ [Next]_vars => Resolvable'
<1> SUFFICES ASSUME Resolvable, [Next]_vars PROVE Resolvable'
  OBVIOUS
<1>1. CASE Next
  <2>1. PICK t \in Tables, removed \in Removals :
            \/ \E st \in Stores, linked \in LinkStates : Merge(st, t, linked, removed)
            \/ \E st \in Stores \cup {None} : MergeAccountless(st, t, removed)
            \/ \E st \in Stores, account \in BOOLEAN : Restore(st, t, removed, account)
    BY <1>1 DEF Next
  <2>2. removed \in BOOLEAN /\ UNCHANGED world
    BY <1>1, RemovalsType DEF Next
  <2>3. ASSUME NEW st \in Stores, NEW linked \in LinkStates, Merge(st, t, linked, removed)
        PROVE  Resolvable'
    BY <2>2, <2>3, LinkStatesType, MergeStep
  <2>4. ASSUME NEW st \in Stores \cup {None}, MergeAccountless(st, t, removed)
        PROVE  Resolvable'
    BY <2>2, <2>4, AccountlessStep
  <2>5. ASSUME NEW st \in Stores, NEW account \in BOOLEAN, Restore(st, t, removed, account)
        PROVE  Resolvable'
    BY <2>2, <2>5, RestoreStep
  <2> QED
    BY <2>1, <2>3, <2>4, <2>5
<1>2. CASE UNCHANGED vars
  BY <1>2 DEF vars, Resolvable, TypeOK, OneRowPerEvent, SameMessage, KeysAreRecorded,
              UnboundIsRaw, Discs
<1> QED
  BY <1>1, <1>2

LEMMA AlwaysResolvable == Spec => []Resolvable
BY ResolvableInit, ResolvableStep, PTL DEF Spec

-----------------------------------------------------------------------------
(* What holds of every archive.                                             *)

\* Type correctness: events have distinct ids and every mapping has its event
\* (messages.event_id and message_sources).
THEOREM TypeCorrect == Spec => []TypeOK
BY AlwaysResolvable, PTL DEF Resolvable

\* Within one Desktop store an event has one row, for any stores and rows: two rows
\* of a snapshot are never both mapped to it (resolveImportMessages).
THEOREM OneRow == Spec => []OneRowPerEvent
BY AlwaysResolvable, PTL DEF Resolvable

\* Rows are only joined to an event that is the same message, whatever contacts were
\* linked and however rows were reused (resolveImportMessages, recordSource).
THEOREM JoinsAreSound == Spec => []SameMessage
BY AlwaysResolvable, PTL DEF Resolvable

\* Two rows of a snapshot never get the same event.
LEMMA ResolvesApart ==
    ASSUME Resolvable, NEW st \in Stores, NEW t \in Tables, NEW linked \in BOOLEAN,
           NEW r \in RowsOf(t), NEW q \in RowsOf(t),
           Resolve(st, t, linked)[r] = Resolve(st, t, linked)[q]
    PROVE  r = q
<1>0. TypeOK /\ KeysAreRecorded
  BY DEF Resolvable
<1>1. PICK id : id = Resolve(st, t, linked)[r] /\ id = Resolve(st, t, linked)[q]
  OBVIOUS
<1>2. \A m \in mappings : m.store = st /\ m.event = id => m.row = r /\ m.row = q
  BY <1>1, ResolveJoins
<1>3. CASE FromMapping(st, r, t[r], id) \/ FromMapping(st, q, t[q], id)
  BY <1>2, <1>3 DEF FromMapping
<1>4. CASE New(st, r, t[r], id)
  <2>0. \A e \in events : e.id # id
    BY <1>4 DEF New
  <2>1. New(st, q, t[q], id)
    BY <1>1, <2>0, ResolveJoins
  <2> QED
    BY <1>4, <2>1 DEF New, RowId, KeyId
<1>5. CASE New(st, q, t[q], id)
  <2>0. \A e \in events : e.id # id
    BY <1>5 DEF New
  <2>1. New(st, r, t[r], id)
    BY <1>1, <2>0, ResolveJoins
  <2> QED
    BY <1>5, <2>1 DEF New, RowId, KeyId
<1>6. \A e, f \in events : e.id = f.id => e = f
  BY <1>0 DEF TypeOK
<1>7. CASE FromLookalike(st, t, r, linked, id)
           /\ (FromLookalike(st, t, q, linked, id) \/ FromRow(st, q, t[q], id))
  <2>1. PICK e \in events : e.id = id /\ Normalized(e, linked) = Normalized(t[r], linked)
    BY <1>7 DEF FromLookalike
  <2>2. Normalized(e, linked) = Normalized(t[q], linked)
    BY <1>6, <1>7, <2>1 DEF FromLookalike, FromRow, Normalized
  <2>3. q \in Twins(t, t[r], linked)
    BY <2>1, <2>2 DEF Twins
  <2> QED
    BY <1>7, <2>3 DEF FromLookalike
<1>8. CASE FromRow(st, r, t[r], id) /\ FromLookalike(st, t, q, linked, id)
  <2>1. PICK e \in events : e.id = id /\ Normalized(e, linked) = Normalized(t[q], linked)
    BY <1>8 DEF FromLookalike
  <2>2. Normalized(e, linked) = Normalized(t[r], linked)
    BY <1>6, <1>8, <2>1 DEF FromRow, Normalized
  <2>3. r \in Twins(t, t[q], linked)
    BY <2>1, <2>2 DEF Twins
  <2> QED
    BY <1>8, <2>3 DEF FromLookalike
<1>9. CASE FromRow(st, r, t[r], id) /\ FromRow(st, q, t[q], id)
  BY <1>6, <1>9 DEF FromRow
<1> QED
  BY <1>0, <1>1, <1>3, <1>4, <1>5, <1>7, <1>8, <1>9, ResolveSources

\* Resolution gives the rows of a snapshot different events, each the same message.
LEMMA ResolvesSoundly ==
    ASSUME Resolvable, NEW st \in Stores, NEW t \in Tables, NEW linked \in BOOLEAN
    PROVE  Accepted(t, Resolve(st, t, linked))
<1>1. ASSUME NEW r \in RowsOf(t), NEW q \in RowsOf(t) \ {r}
      PROVE  Resolve(st, t, linked)[q] # Resolve(st, t, linked)[r]
  BY ResolvesApart
<1>2. ASSUME NEW r \in RowsOf(t), NEW e \in events,
             e.id = Resolve(st, t, linked)[r]
      PROVE  PN[e.core] = PN[t[r].core]
  BY <1>2, ResolveJoins
<1> QED
  BY <1>1, <1>2 DEF Accepted

\* No snapshot is ever refused for a conflict of identities (validateImportMessages,
\* upsertMessage).
THEOREM NothingIsRefused == Spec => []ImportsAreAccepted
<1>1. Resolvable => ImportsAreAccepted
  BY ResolvesSoundly, LinkStatesType DEF ImportsAreAccepted
<1> QED
  BY <1>1, AlwaysResolvable, PTL

\* The only match of a row is the event it gets.
LEMMA SingleMatch ==
    ASSUME NEW st, NEW t \in Tables, NEW r \in RowsOf(t), NEW linked \in BOOLEAN,
           NEW id \in Matches(st, t, r, linked), \A x \in Matches(st, t, r, linked) : x = id
    PROVE  Resolve(st, t, linked)[r] = id
<1>1. Resolve(st, t, linked)[r] = CHOOSE x \in Matches(st, t, r, linked) : TRUE
  BY DEF Resolve
<1>2. (CHOOSE x \in Matches(st, t, r, linked) : TRUE) \in Matches(st, t, r, linked)
  BY Zenon
<1> QED
  BY <1>1, <1>2

\* In a store without mappings only lookalikes and rows of the archive match.
LEMMA UnknownStore ==
    ASSUME NEW st, \A m \in mappings : m.store # st, NEW t, NEW r, NEW linked
    PROVE  /\ \A ids : Unclaimed(st, ids) = ids
           /\ Matches(st, t, r, linked) =
                  IF UniqueMatches(st, t, r, linked) # {}
                  THEN UniqueMatches(st, t, r, linked) ELSE LegacyMatches(st, r, t[r])
<1>1. StoreEvents(st) = {} /\ Known(st, r, t[r]) = {} /\ RowMatches(st, r, t[r]) = {}
  BY DEF StoreEvents, Known, RowMatches
<1>2. ~Single({})
  BY DEF Single
<1> QED
  BY <1>1, <1>2 DEF Unclaimed, Matches

\* The explicit adoption of an archive without account and store finds every
\* message that is still shown at its old row (resolveImportMessages, the legacy
\* candidates).
THEOREM AdoptionKeeps == Spec => []AdoptionKeepsEvents
<1>1. Resolvable => AdoptionKeepsEvents
  <2> SUFFICES ASSUME Resolvable, ~bound, fingerprint = None,
                      NEW st \in Stores, NEW t \in Tables, NEW e \in events,
                      t[e.row] = [core |-> e.core, type |-> e.type]
               PROVE  Resolve(st, t, FALSE)[e.row] = e.id
    BY DEF AdoptionKeepsEvents
  <2> DEFINE r == e.row
             uniq == UniqueMatches(st, t, r, FALSE)
  <2>1. /\ mappings = {} /\ \A f \in events : f.row = r => f = e
        /\ r \in Rows /\ e.core \in Cores /\ e.type \in Types
    BY DEF Resolvable, UnboundIsRaw, TypeOK
  <2>2. r \in RowsOf(t) /\ t[r].core = e.core /\ t[r].type = e.type
    BY <2>1, ResolveAssumption DEF RowsOf
  <2>3. /\ \A ids : Unclaimed(st, ids) = ids
        /\ Matches(st, t, r, FALSE) = IF uniq # {} THEN uniq ELSE LegacyMatches(st, r, t[r])
    BY <2>1, UnknownStore
  <2>4. uniq # {} => uniq = {e.id}
    <3> SUFFICES ASSUME uniq # {} PROVE uniq = {e.id}
      OBVIOUS
    <3>1. /\ t[r].core \in Complete /\ Single(Lookalikes(t[r], FALSE))
          /\ uniq = Lookalikes(t[r], FALSE)
      BY <2>3 DEF UniqueMatches
    <3>2. e.id \in Lookalikes(t[r], FALSE)
      BY <2>2, <3>1 DEF Lookalikes, Normalized
    <3> QED
      BY <3>1, <3>2 DEF Single
  <2>5. LegacyMatches(st, r, t[r]) = {e.id}
    <3>1. LegacyMatches(st, r, t[r])
              = {f.id : f \in {x \in events : x.row = r /\ x.core = t[r].core
                                              /\ x.type = t[r].type}}
      BY <2>3 DEF LegacyMatches
    <3>2. {x \in events : x.row = r /\ x.core = t[r].core /\ x.type = t[r].type} = {e}
      BY <2>1, <2>2
    <3> QED
      BY <3>1, <3>2
  <2>6. Matches(st, t, r, FALSE) = {e.id}
    BY <2>3, <2>4, <2>5
  <2>7. PICK linked \in BOOLEAN : linked = FALSE
    OBVIOUS
  <2>8. e.id \in Matches(st, t, r, linked) /\ \A x \in Matches(st, t, r, linked) : x = e.id
    BY <2>6, <2>7
  <2>9. Resolve(st, t, linked)[r] = e.id
    BY <2>2, <2>8, SingleMatch
  <2> QED
    BY <2>7, <2>9
<1> QED
  BY <1>1, AlwaysResolvable, PTL

\* The event of an unambiguous, recorded message is the only one that looks like it.
LEMMA OneLookalike ==
    ASSUME Resolvable, NEW t \in Tables, Unambiguous(t), NEW r \in RowsOf(t),
           NEW e \in events, NEW m \in mappings, m.disc = t[r], m.event = e.id,
           e.type = t[r].type
    PROVE  /\ e.core \in Complete /\ t[r].core \in Complete
           /\ \A x \in events : PN[x.core] = PN[t[r].core] /\ x.type = t[r].type <=> x = e
<1>1. /\ e.core \in Cores /\ t[r].core \in Cores /\ t[r].core \in Complete
      /\ \A f \in events : PN[f.core] = PN[e.core] /\ f.type = e.type => f = e
  BY RowTypes DEF Resolvable, TypeOK, Unambiguous
<1>2. PN[e.core] = PN[t[r].core]
  BY DEF Resolvable, SameMessage
<1>3. e.core \in Complete
  BY <1>1, <1>2, ResolveAssumption
<1> QED
  BY <1>1, <1>2, <1>3

\* A renumbered row has no other twin than the row had.
LEMMA TwinsMove ==
    ASSUME NEW t \in Tables, NEW p \in Bijection(Rows, Rows), NEW r \in RowsOf(t),
           NEW linked \in BOOLEAN, \A x \in Twins(t, t[r], linked) : x = r,
           NEW u, \A x \in Rows : u[x] = t[p[x]],
           NEW q \in RowsOf(u), u[q] = t[r]
    PROVE  \A x \in Twins(u, u[q], linked) : x = q
<1>1. /\ \A x \in Rows : p[x] \in Rows /\ u[x] = t[p[x]]
      /\ \A x, y \in Rows : p[x] = p[y] => x = y
  BY DEF Bijection, Injection, Surjection, IsInjective
<1>2. \A x \in RowsOf(u) : x \in Rows /\ p[x] \in RowsOf(t)
  BY <1>1 DEF RowsOf
<1>3. \A x \in Twins(u, u[q], linked) : p[x] \in Twins(t, t[r], linked) /\ x \in RowsOf(u)
  BY <1>1, <1>2 DEF Twins
<1>4. q \in Twins(u, u[q], linked)
  BY DEF Twins
<1> QED
  BY <1>1, <1>2, <1>3, <1>4

\* The messages of an unambiguous, unchanged snapshot are found again at any other
\* rows of the store of a new login (resolveImportMessages, the unique candidates).
THEOREM ReloginKeepsThem == Spec => []ReloginKeepsEvents
<1>1. Resolvable => ReloginKeepsEvents
  <2> SUFFICES ASSUME Resolvable, NEW st \in Stores, NEW t \in Tables,
                      Unambiguous(t), Unchanged(st, t), NEW u \in Renumbered(t),
                      NEW r \in RowsOf(t), NEW q \in RowsOf(u), u[q] = t[r]
               PROVE  {Resolve(None, u, TRUE)[q]} = Known(st, r, t[r])
    BY DEF ReloginKeepsEvents, ReloginKeeps
  <2>1. PICK e \in events : Known(st, r, t[r]) = {e.id} /\ e.type = t[r].type
    BY DEF Unchanged
  <2>2. PICK m \in mappings : m.disc = t[r] /\ m.event = e.id
    BY <2>1 DEF Known
  <2>3. PICK p \in Bijection(Rows, Rows) : u = [x \in Rows |-> t[p[x]]]
    BY DEF Renumbered
  <2>4. PICK linked \in BOOLEAN : linked = TRUE
    OBVIOUS
  <2>5. u \in Tables /\ t[r].core \in Complete
    BY <2>3 DEF Tables, Bijection, Injection, Unambiguous
  <2>6. \A n \in mappings : n.store # None
    BY ResolveAssumption DEF Resolvable, TypeOK
  <2>7. Lookalikes(u[q], linked) = {e.id} /\ Twins(u, u[q], linked) = {q}
    <3>1. /\ e.core \in Complete
          /\ \A x \in events : PN[x.core] = PN[t[r].core] /\ x.type = t[r].type <=> x = e
      BY <2>1, <2>2, OneLookalike
    <3>2. \A x, y : Normalized(x, linked) = Normalized(y, linked)
                        <=> PN[x.core] = PN[y.core] /\ x.type = y.type
      <4>1. \A x : /\ Normalized(x, linked).core = PN[x.core]
                   /\ Normalized(x, linked).type = x.type
                   /\ Normalized(x, linked) = [core |-> PN[x.core], type |-> x.type]
        BY <2>4 DEF Normalized
      <4> QED
        BY <4>1
    <3>3. {x \in events : x.core \in Complete /\ Normalized(x, linked) = Normalized(u[q], linked)}
              = {e}
      BY <3>1, <3>2
    <3>4. Lookalikes(u[q], linked) = {e.id}
      BY <3>3 DEF Lookalikes
    <3>5. \A x \in Rows : u[x] = t[p[x]]
      BY <2>3
    <3>6. \A x \in Twins(t, t[r], linked) : x = r
      BY <2>4 DEF Unambiguous
    <3>7. \A x \in Twins(u, u[q], linked) : x = q
      BY <3>5, <3>6, TwinsMove
    <3>8. q \in Twins(u, u[q], linked)
      BY DEF Twins
    <3> QED
      BY <3>4, <3>7, <3>8
  <2>8. UniqueMatches(None, u, q, linked) = {e.id}
    <3>1. \A ids : Unclaimed(None, ids) = ids
      BY <2>6, UnknownStore
    <3>2. Single(Lookalikes(u[q], linked))
      BY <2>7 DEF Single
    <3> QED
      BY <2>5, <2>7, <3>1, <3>2 DEF UniqueMatches
  <2>9. Matches(None, u, q, linked) = {e.id}
    BY <2>6, <2>8, UnknownStore
  <2>10. e.id \in Matches(None, u, q, linked) /\ \A x \in Matches(None, u, q, linked) : x = e.id
    BY <2>9
  <2>11. Resolve(None, u, linked)[q] = e.id
    BY <2>5, <2>10, SingleMatch
  <2> QED
    BY <2>1, <2>4, <2>11
<1> QED
  BY <1>1, AlwaysResolvable, PTL

-----------------------------------------------------------------------------
(* The same snapshot again.                                                 *)

\* Importing t from st again, whatever contacts are linked now, would leave the
\* archive as it is.
Repeats(st, t, removed) ==
    \A again \in LinkStates :
        LET res == Resolve(st, t, again)
        IN  /\ Accepted(t, res)
            /\ Merged(t, res, removed) = events
            /\ Recorded(st, t, res) = mappings

\* A snapshot that was just merged can be merged again, without an effect (the
\* "idempotent re-import" of store_test.go), also when the links of contacts are
\* found or lost in between.
ImportsRepeat ==
    [][\A t \in Tables, removed \in Removals : \A st \in Stores, linked \in LinkStates :
          Merge(st, t, linked, removed) => Repeats(st, t, removed)']_vars

\* Every row of t is recorded, and its event is shown as it is archived.
Settled(st, t, removed) ==
    /\ \A r \in RowsOf(t) : \E m \in mappings, e \in events :
           /\ m.store = st /\ m.row = r /\ m.disc = t[r] /\ m.event = e.id
           /\ e.dead \/ (e.row = r /\ e.type = t[r].type)
    /\ removed => \A e \in events : e.dead

LEMMA RecordedRow ==
    ASSUME Resolvable, NEW st \in Stores, NEW t \in Tables, NEW r \in RowsOf(t),
           NEW linked \in BOOLEAN, NEW m \in mappings,
           m.store = st, m.row = r, m.disc = t[r]
    PROVE  Resolve(st, t, linked)[r] = m.event
<1>1. \A n \in mappings : n.store = st /\ n.row = r /\ n.disc = t[r] => n = m
  BY DEF Resolvable, TypeOK
<1>2. m.event \in Known(st, r, t[r]) /\ \A x \in Known(st, r, t[r]) : x = m.event
  BY <1>1 DEF Known
<1>3. Matches(st, t, r, linked) = Known(st, r, t[r])
  BY <1>2 DEF Matches
<1> QED
  BY <1>2, <1>3, SingleMatch

SettledRepeat ==
    \A st \in Stores, t \in Tables, removed \in BOOLEAN :
        Settled(st, t, removed) => Repeats(st, t, removed)

LEMMA SettledRepeats == Resolvable => SettledRepeat
<1> SUFFICES ASSUME Resolvable, NEW st \in Stores, NEW t \in Tables,
                    NEW removed \in BOOLEAN, Settled(st, t, removed),
                    NEW again \in LinkStates
             PROVE  LET res == Resolve(st, t, again)
                    IN  /\ Accepted(t, res)
                        /\ Merged(t, res, removed) = events
                        /\ Recorded(st, t, res) = mappings
  BY DEF Repeats, SettledRepeat
<1> DEFINE res == Resolve(st, t, again)
<1>0. again \in BOOLEAN /\ events \subseteq Event /\ \A e, f \in events : e.id = f.id => e = f
  BY LinkStatesType DEF Resolvable, TypeOK, Event
<1>1. Accepted(t, res)
  BY <1>0, ResolvesSoundly
<1>2. ASSUME NEW r \in RowsOf(t)
      PROVE  /\ \E e \in events : /\ e.id = res[r]
                                  /\ e.dead \/ (e.row = r /\ e.type = t[r].type)
             /\ Known(st, r, t[r]) # {}
  <2>1. PICK m \in mappings, e \in events :
           /\ m.store = st /\ m.row = r /\ m.disc = t[r] /\ m.event = e.id
           /\ e.dead \/ (e.row = r /\ e.type = t[r].type)
    BY DEF Settled
  <2>2. res[r] = m.event
    BY <1>0, <2>1, RecordedRow
  <2> QED
    BY <2>1, <2>2 DEF Known
<1>3. \A r, q \in RowsOf(t) : res[r] = res[q] => r = q
  BY <1>1 DEF Accepted
<1> HIDE DEF res
<1>4. ASSUME NEW e \in events
      PROVE  Updated(e, t, res, removed) = e
  <2> DEFINE shown == {r \in RowsOf(t) : res[r] = e.id}
  <2>1. e \in Event /\ e.dead \in BOOLEAN /\ (removed => e.dead)
    BY <1>0 DEF Settled, Event
  <2>2. CASE e.dead \/ shown = {}
    <3>1. Updated(e, t, res, removed) = [e EXCEPT !.dead = @ \/ removed]
      BY <2>2 DEF Updated
    <3>2. (e.dead \/ removed) = e.dead
      BY <2>1
    <3> QED
      BY <2>1, <3>1, <3>2 DEF Event
  <2>3. CASE ~(e.dead \/ shown = {})
    <3> DEFINE q == CHOOSE r \in shown : TRUE
    <3>1. Updated(e, t, res, removed)
              = [e EXCEPT !.row = q, !.type = t[q].type, !.dead = removed]
      BY <2>3 DEF Updated
    <3>2. q \in shown
      <4> HIDE DEF shown
      <4> QED
        BY <2>3, Zenon
    <3> HIDE DEF q
    <3>3. q \in RowsOf(t) /\ res[q] = e.id
      BY <3>2
    <3>4. PICK f \in events : f.id = res[q] /\ (f.dead \/ (f.row = q /\ f.type = t[q].type))
      BY <1>2, <3>3
    <3>5. f = e /\ e.row = q /\ e.type = t[q].type /\ ~e.dead /\ ~removed
      BY <1>0, <2>1, <2>3, <3>3, <3>4
    <3>6. e.dead = removed
      BY <2>1, <3>5
    <3> QED
      BY <2>1, <3>1, <3>5, <3>6 DEF Event
  <2> QED
    BY <2>2, <2>3
<1>5. Merged(t, res, removed) = events
  <2>1. {q \in RowsOf(t) : \A e \in events : e.id # res[q]} = {}
    BY <1>2
  <2>2. {Updated(e, t, res, removed) : e \in events} = events
    BY <1>4
  <2> QED
    BY <2>1, <2>2 DEF Merged
<1>6. Recorded(st, t, res) = mappings
  <2>1. {q \in RowsOf(t) : Known(st, q, t[q]) = {}} = {}
    BY <1>2
  <2> QED
    BY <2>1 DEF Recorded
<1> QED
  BY <1>1, <1>5, <1>6 DEF res

\* What a merge leaves.
LEMMA MergeSettles ==
    ASSUME Resolvable, NEW st \in Stores, NEW t \in Tables, NEW linked \in BOOLEAN,
           NEW removed \in BOOLEAN, Merge(st, t, linked, removed)
    PROVE  Settled(st, t, removed)'
<1> DEFINE res == Resolve(st, t, linked)
           Up(e) == Updated(e, t, res, removed)
           added == {q \in RowsOf(t) : \A e \in events : e.id # res[q]}
           Added(r) == NewEvent(res[r], r, t[r], removed)
           Entry(r) == [store |-> st, row |-> r, disc |-> t[r], event |-> res[r]]
           first == {q \in RowsOf(t) : Known(st, q, t[q]) = {}}
<1>0. TypeOK /\ events \subseteq Event
  BY DEF Resolvable, TypeOK, Event
<1>1. /\ events' = {Up(e) : e \in events} \cup {Added(r) : r \in added}
      /\ mappings' = mappings \cup {Entry(r) : r \in first}
      /\ \A r, q \in RowsOf(t) : res[r] = res[q] => r = q
  BY DEF Merge, Merged, Recorded, Accepted
<1>2. ASSUME NEW r \in RowsOf(t)
      PROVE  \E m \in mappings' : /\ m.store = st /\ m.row = r /\ m.disc = t[r]
                                  /\ m.event = res[r]
  <2>1. CASE r \in first
    <3>1. Entry(r) \in mappings'
      BY <1>1, <2>1
    <3>2. /\ Entry(r).store = st /\ Entry(r).row = r /\ Entry(r).disc = t[r]
          /\ Entry(r).event = res[r]
      OBVIOUS
    <3> HIDE DEF Entry
    <3> QED
      BY <3>1, <3>2
  <2>2. CASE r \notin first
    <3>1. PICK m \in mappings : m.store = st /\ m.row = r /\ m.disc = t[r]
      BY <2>2 DEF Known
    <3>2. res[r] = m.event
      BY <3>1, RecordedRow
    <3> QED
      BY <1>1, <3>1, <3>2
  <2> QED
    BY <2>1, <2>2
<1> HIDE DEF res
<1>3. ASSUME NEW e \in events
      PROVE  /\ Up(e).id = e.id
             /\ removed => Up(e).dead
             /\ \A r \in RowsOf(t) : res[r] = e.id =>
                    Up(e).dead \/ (Up(e).row = r /\ Up(e).type = t[r].type)
  <2> DEFINE shown == {r \in RowsOf(t) : res[r] = e.id}
  <2>1. e \in Event /\ (e.dead \/ removed) \in BOOLEAN
    BY <1>0 DEF Event
  <2>2. CASE e.dead \/ shown = {}
    <3>1. Up(e) = [e EXCEPT !.dead = @ \/ removed]
      BY <2>2 DEF Updated
    <3>2. Up(e).id = e.id /\ Up(e).dead = (e.dead \/ removed)
      BY <2>1, <3>1 DEF Event
    <3> QED
      BY <2>2, <3>2
  <2>3. CASE ~(e.dead \/ shown = {})
    <3> DEFINE q == CHOOSE r \in shown : TRUE
    <3>1. Up(e) = [e EXCEPT !.row = q, !.type = t[q].type, !.dead = removed]
      BY <2>3 DEF Updated
    <3>2. q \in shown
      <4> HIDE DEF shown
      <4> QED
        BY <2>3, Zenon
    <3> HIDE DEF q
    <3>3. q \in RowsOf(t) /\ res[q] = e.id
      BY <3>2
    <3>4. /\ Up(e).id = e.id /\ Up(e).dead = removed /\ Up(e).row = q
          /\ Up(e).type = t[q].type
      BY <2>1, <3>1 DEF Event
    <3>5. \A r \in RowsOf(t) : res[r] = e.id => r = q
      BY <1>1, <3>3
    <3> QED
      BY <3>4, <3>5
  <2> QED
    BY <2>2, <2>3
<1>4. \A r : /\ Added(r).id = res[r] /\ Added(r).row = r /\ Added(r).type = t[r].type
             /\ Added(r).dead = removed
  BY DEF NewEvent
<1> HIDE DEF Up, Added, Entry
<1>5. ASSUME NEW r \in RowsOf(t)
      PROVE  \E e \in events' : e.id = res[r] /\ (e.dead \/ (e.row = r /\ e.type = t[r].type))
  <2>1. CASE r \in added
    BY <1>1, <1>4, <2>1
  <2>2. CASE r \notin added
    <3>1. PICK e \in events : e.id = res[r]
      BY <2>2
    <3> QED
      BY <1>1, <1>3, <3>1
  <2> QED
    BY <2>1, <2>2
<1>6. ASSUME removed, NEW e \in events'
      PROVE  e.dead
  <2>1. CASE \E f \in events : e = Up(f)
    BY <1>3, <1>6, <2>1
  <2>2. CASE \E r \in added : e = Added(r)
    BY <1>4, <1>6, <2>2
  <2> QED
    BY <1>1, <2>1, <2>2
<1>7. ASSUME NEW r \in RowsOf(t)
      PROVE  \E m \in mappings', e \in events' :
                 /\ m.store = st /\ m.row = r /\ m.disc = t[r] /\ m.event = e.id
                 /\ e.dead \/ (e.row = r /\ e.type = t[r].type)
  BY <1>2, <1>5
<1> QED
  BY <1>6, <1>7 DEF Settled

\* Merging a snapshot again, with or without the links of its contacts, changes
\* nothing, for any stores, rows and messages and after any history: its rows are
\* found where they were recorded (resolveImportMessages, insertMapping).
THEOREM RepeatsAreEmpty == Spec => ImportsRepeat
<1>1. Resolvable /\ [Next]_vars =>
          [\A t \in Tables, removed \in Removals : \A st \in Stores, linked \in LinkStates :
              Merge(st, t, linked, removed) => Repeats(st, t, removed)']_vars
  <2> SUFFICES ASSUME Resolvable, Next, NEW t \in Tables, NEW removed \in Removals,
                      NEW st \in Stores, NEW linked \in LinkStates,
                      Merge(st, t, linked, removed)
               PROVE  Repeats(st, t, removed)'
    OBVIOUS
  <2>1. removed \in BOOLEAN /\ linked \in BOOLEAN
    BY RemovalsType, LinkStatesType
  <2>2. Resolvable' /\ t \in Tables'
    BY ResolvableStep DEF Next, Tables
  <2>3. Settled(st, t, removed)'
    BY <2>1, MergeSettles
  <2>4. (Resolvable => SettledRepeat)'
    BY SettledRepeats, PTL
  <2> QED
    BY <2>1, <2>2, <2>3, <2>4 DEF SettledRepeat
<1> QED
  BY <1>1, AlwaysResolvable, PTL DEF Spec, ImportsRepeat

\* The row of mapping m gets its event in any snapshot that shows it.
Established(m) ==
    \A u \in Tables, again \in LinkStates :
        u[m.row] = m.disc => Resolve(m.store, u, again)[m.row] = m.event

\* "established event IDs and source mappings remain immutable"
\* (docs/data-model.md): after any merge, from any store, every row that ever had
\* an event has the same event, whichever row it is and whatever else is shown.
EventsStayEstablished ==
    [][\A t \in Tables, removed \in Removals : \A st \in Stores, linked \in LinkStates :
          Merge(st, t, linked, removed) => \A m \in mappings : Established(m)']_vars

AllEstablished == \A m \in mappings : Established(m)

LEMMA MappingsEstablish == Resolvable => AllEstablished
<1> SUFFICES ASSUME Resolvable, NEW m \in mappings, NEW u \in Tables,
                    NEW again \in LinkStates, u[m.row] = m.disc
             PROVE  Resolve(m.store, u, again)[m.row] = m.event
  BY DEF AllEstablished, Established
<1>1. /\ m.store \in Stores /\ m.row \in Rows /\ m.disc \in Discs
      /\ \A n \in mappings : n.store = m.store /\ n.row = m.row /\ n.disc = m.disc => n = m
  BY DEF Resolvable, TypeOK
<1>2. m.disc # None
  BY <1>1, ResolveAssumption DEF Discs
<1>3. m.row \in RowsOf(u)
  BY <1>1, <1>2 DEF RowsOf
<1> QED
  BY <1>1, <1>3, LinkStatesType, RecordedRow

\* No merge ever changes the event of a row that has one, for any stores, rows and
\* messages, although later stores are matched to the same events and contacts are
\* linked and separated (resolveImportMessages, insertMapping).
THEOREM EstablishedStay == Spec => EventsStayEstablished
<1>1. Resolvable /\ [Next]_vars =>
          [\A t \in Tables, removed \in Removals : \A st \in Stores, linked \in LinkStates :
              Merge(st, t, linked, removed) => \A m \in mappings : Established(m)']_vars
  <2> SUFFICES ASSUME Resolvable, Next, NEW t \in Tables, NEW removed \in Removals,
                      NEW st \in Stores, NEW linked \in LinkStates,
                      Merge(st, t, linked, removed), NEW m \in mappings
               PROVE  Established(m)'
    OBVIOUS
  <2>1. Resolvable' /\ m \in mappings'
    BY ResolvableStep DEF Merge, Recorded
  <2>2. (Resolvable => AllEstablished)'
    BY MappingsEstablish, PTL
  <2> QED
    BY <2>1, <2>2 DEF AllEstablished
<1> QED
  BY <1>1, AlwaysResolvable, PTL DEF Spec, EventsStayEstablished
=============================================================================
