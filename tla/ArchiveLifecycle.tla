-------------------------- MODULE ArchiveLifecycle --------------------------
(***************************************************************************)
(* The lifecycle of the rows of the wacrawl archive (internal/store): how  *)
(* an import of a WhatsApp Desktop snapshot, or the restore of a backup,   *)
(* creates, edits, tombstones and revives chats, groups, participants and  *)
(* messages, and what it keeps of the payloads it overwrites.              *)
(*                                                                         *)
(* One import is one SQLite transaction, hence one step.  The pipeline of  *)
(* importAll is a composition of operators: the incoming rows are given    *)
(* tombstones from the snapshot itself, then from stored parents, are      *)
(* upserted parents first, and what is still live under a dead parent is   *)
(* swept last.                                                             *)
(*                                                                         *)
(* Rows are reduced to what this pipeline reads.  A chat row is its status *)
(* and one time, "at": last_message_at of a live chat, deleted_at of a     *)
(* tombstoned one (the code never reads the other).  The deleted_at of     *)
(* groups, participants and messages is only ever compared with NULL, so   *)
(* their status says it all.  A group has the JID of its chat.             *)
(***************************************************************************)
EXTENDS Naturals, Sequences

CONSTANTS
    Chats,        \* chat JIDs
    Groups,       \* the chat JIDs that are groups
    Users,        \* group members
    Msgs,         \* message events (their identity is settled by then)
    ChatOf,       \* the canonical chat JID of an event, part of its identity
    Links,        \* the PN/LID links contact rows can carry: <<pn, lid>>
    Payloads,     \* message payloads
    Empty,        \* no text, title, media path or URL
    MaxTime,      \* bound of the clock
    MaxRevisions, \* bound of the revisions kept of one event
    MaxRestores   \* bound of the exact restores

ASSUME LifecycleAssumption ==
    /\ Groups \subseteq Chats
    /\ ChatOf \in [Msgs -> Chats]
    /\ Empty \notin Payloads
    /\ MaxTime \in Nat \ {0}
    \* contactPN and contactLID never accept a group's JID.
    /\ \A k \in Links : k[1] \notin Groups /\ k[2] \notin Groups

VARIABLES
    archive,      \* the rows of the archive
    backup,       \* the rows the newest backup holds
    now,          \* the clock FinishedAt is read from, in seconds
    restores      \* number of exact restores so far

vars == <<archive, backup, now, restores>>

Parts    == Groups \X Users
Texts    == Payloads \cup {Empty}
Statuses == {"absent", "live", "dead"}

-----------------------------------------------------------------------------
(* Contact links.  Two identifiers are aliases when each is the other's    *)
(* only neighbour; every further link disables both.  All contacts are     *)
(* live here: nothing in a Desktop snapshot tombstones one.                *)

Identifiers == {k[1] : k \in Links} \cup {k[2] : k \in Links}

Neighbours(E, id) == {b \in Identifiers : <<id, b>> \in E \/ <<b, id>> \in E}

AliasPairs(E) ==
    {p \in Identifiers \X Identifiers :
        Neighbours(E, p[1]) = {p[2]} /\ Neighbours(E, p[2]) = {p[1]}}

\* Faulty: trusts the snapshot's links alone.
CurrentAliases(retained, current) == AliasPairs(current)

\* An import may use a link only if the snapshot itself carries it and
\* nothing retained contradicts it.
ImportAliases(retained, current) ==
    AliasPairs(current) \cap AliasPairs(retained \cup current)

-----------------------------------------------------------------------------
(* Parents.  A tombstoned chat is a dead parent for its JID and its alias, *)
(* unless the alias is live with activity after the tombstone.             *)

Reopened(rows, al, c) ==
    \E d \in Chats : /\ <<c, d>> \in al
                     /\ rows[d].status = "live"
                     /\ rows[d].at > rows[c].at

DeadParents(rows, al) ==
    LET dead == {c \in Chats : rows[c].status = "dead" /\ ~Reopened(rows, al, c)}
    IN  dead \cup {c \in Chats : \E d \in dead : <<d, c>> \in al}

LiveChats(rows, al) ==
    LET live == {c \in Chats : rows[c].status = "live"}
    IN  live \cup {c \in Chats : \E d \in live : <<d, c>> \in al}

-----------------------------------------------------------------------------
(* The incoming rows, tombstoned from the snapshot and from stored parents. *)

\* Faulty: leaves removed chats unmarked.
UnmarkedChats(in, t) == in.chats

\* A removed chat is tombstoned at the time of this import, not of the removal.
PreparedChats(in, t) ==
    [c \in Chats |-> IF in.chats[c].status = "removed"
                     THEN [status |-> "dead", at |-> t]
                     ELSE in.chats[c]]

\* Faulty: takes the absence of the chat for its deletion.
OrphanedGroups(in, base, removed, observed) ==
    [g \in Groups |-> IF in.groups[g] = "live" /\ g \notin observed
                      THEN "dead" ELSE in.groups[g]]

PreparedGroups(in, base, removed, observed) ==
    [g \in Groups |->
        IF /\ in.groups[g] = "live"
           /\ g \in removed \/ (g \notin observed /\ base.chats[g].status = "dead")
        THEN "dead" ELSE in.groups[g]]

\* deleted: the groups this snapshot tombstones; preparedGroups also counts
\* the stored parents.
PreparedParts(in, base, deleted, preparedGroups) ==
    [p \in Parts |->
        CASE in.parts[p] = "inactive" -> "dead"
          [] in.parts[p] = "active" ->
                IF \/ p[1] \in deleted
                   \/ preparedGroups[p[1]] # "live" /\ base.groups[p[1]] = "dead"
                THEN "dead" ELSE "live"
          [] OTHER -> in.parts[p]]

PreparedMsgs(in, removed, observed, stored) ==
    [m \in Msgs |->
        IF /\ in.msgs[m].status = "live"
           /\ \/ ChatOf[m] \in removed
              \/ ChatOf[m] \notin observed /\ ChatOf[m] \in stored
        THEN [in.msgs[m] EXCEPT !.status = "dead"] ELSE in.msgs[m]]

-----------------------------------------------------------------------------
(* Upserts.  A stored tombstone is sticky unless the row may be revived.   *)

UpsertChat(old, new) ==
    IF \/ new.status = "absent"
       \/ old.status = "dead" /\ ~(new.status = "live" /\ new.at > old.at)
    THEN old ELSE new

\* Groups and participants: alive says whether the parent's row is live.
UpsertChild(old, new, alive) ==
    IF \/ new = "absent"
       \/ old = "dead" /\ ~(new = "live" /\ alive)
    THEN old ELSE new

\* The source now reports SQL NULL where the archive holds a payload.
Withdrawn(old, new) ==
    /\ new.status = "live" /\ new.null /\ new.text = Empty
    /\ old.text # Empty

\* Faulty: keeps the index entry whenever the new text is empty.
StaleIndexMsg(old, new) ==
    [status |-> IF Withdrawn(old, new) THEN "dead" ELSE new.status,
     text   |-> new.text,
     index  |-> IF new.text = Empty THEN old.index ELSE new.text]

UpsertedMsg(old, new) ==
    [status |-> IF Withdrawn(old, new) THEN "dead" ELSE new.status,
     text   |-> new.text,
     index  |-> IF Withdrawn(old, new) THEN old.index ELSE new.text]

\* Faulty: forgets that message tombstones are sticky.
OverwriteMsg(old, new) ==
    CASE new.status = "absent" -> old
      [] new.status # "absent" /\ old.status = "absent" ->
            [status |-> new.status, text |-> new.text, index |-> new.text]
      [] OTHER -> UpsertedMsg(old, new)

UpsertMsg(old, new) ==
    CASE new.status = "absent" -> old
      [] new.status # "absent" /\ old.status = "absent" ->
            [status |-> new.status, text |-> new.text, index |-> new.text]
      [] new.status # "absent" /\ old.status = "dead" -> old
      [] OTHER -> UpsertedMsg(old, new)

\* Faulty: records edits but not withdrawals.
EditsOnlyRevs(revs, old, new) ==
    IF old.status = "live" /\ new.status # "absent" /\ new.text \notin {old.text, Empty}
    THEN Append(revs, old.text) ELSE revs

\* Faulty: records a revision of a tombstoned row that is not overwritten.
UnguardedRevs(revs, old, new) ==
    IF old.status # "absent" /\ new.status # "absent" /\ new.text # old.text
    THEN Append(revs, old.text) ELSE revs

\* The payload that is overwritten goes to message_revisions first.
UpsertRevs(revs, old, new) ==
    IF /\ old.status = "live" /\ new.status # "absent"
       /\ \/ new.text # old.text
          \/ UpsertedMsg(old, new).status # "live"
    THEN Append(revs, old.text) ELSE revs

-----------------------------------------------------------------------------
(* The last stage: whatever is live under a dead parent dies with it.  It  *)
(* follows the retained links, not those of the snapshot.                  *)

\* Faulty: does not follow aliases.
OwnParents(a) == DeadParents(a.chats, {})

SweepParents(a) == DeadParents(a.chats, AliasPairs(a.links))

Swept(a, m) == a.msgs[m].status = "live" /\ ChatOf[m] \in SweepParents(a)

SweptMsgs(a) ==
    [m \in Msgs |-> IF Swept(a, m) THEN [a.msgs[m] EXCEPT !.status = "dead"]
                                   ELSE a.msgs[m]]

SweptRevs(a) ==
    [m \in Msgs |-> IF Swept(a, m) THEN Append(a.revs[m], a.msgs[m].text)
                                   ELSE a.revs[m]]

SweptGroups(a) ==
    [g \in Groups |-> IF a.groups[g] = "live" /\ a.chats[g].status = "dead"
                      THEN "dead" ELSE a.groups[g]]

\* Faulty: looks at the groups before they are swept.
EarlySweptParts(a) ==
    [p \in Parts |-> IF a.parts[p] = "live" /\ a.groups[p[1]] = "dead"
                     THEN "dead" ELSE a.parts[p]]

\* Participants die with the groups this sweep has just tombstoned.
SweptParts(a) ==
    [p \in Parts |-> IF a.parts[p] = "live" /\ SweptGroups(a)[p[1]] = "dead"
                     THEN "dead" ELSE a.parts[p]]

TombstoneSubordinates(a) ==
    [chats  |-> a.chats,
     groups |-> SweptGroups(a),
     parts  |-> SweptParts(a),
     msgs   |-> SweptMsgs(a),
     revs   |-> SweptRevs(a),
     links  |-> a.links]

-----------------------------------------------------------------------------
(* One import, from the rows it finds (none, in an exact restore) to the   *)
(* rows it commits.                                                        *)

Upserted(base, in, t) ==
    LET al       == ImportAliases(base.links, in.links)
        chatsIn  == PreparedChats(in, t)
        removed  == DeadParents(chatsIn, al)
        observed == LiveChats(chatsIn, al)
        groupsIn == PreparedGroups(in, base, removed, observed)
        deleted  == {g \in Groups : \/ in.groups[g] = "dead"
                                    \/ in.groups[g] = "live" /\ g \in removed}
        partsIn  == PreparedParts(in, base, deleted, groupsIn)
        msgsIn   == PreparedMsgs(in, removed, observed, DeadParents(base.chats, al))
        chats    == [c \in Chats |-> UpsertChat(base.chats[c], chatsIn[c])]
        groups   == [g \in Groups |-> UpsertChild(base.groups[g], groupsIn[g],
                                                  chats[g].status = "live")]
    IN  [chats  |-> chats,
         groups |-> groups,
         parts  |-> [p \in Parts |-> UpsertChild(base.parts[p], partsIn[p],
                                                 groups[p[1]] = "live")],
         msgs   |-> [m \in Msgs |-> UpsertMsg(base.msgs[m], msgsIn[m])],
         revs   |-> [m \in Msgs |-> UpsertRevs(base.revs[m], base.msgs[m], msgsIn[m])
                                    \o in.revs[m]],
         links  |-> base.links \cup in.links]

ImportAll(base, in, t) == TombstoneSubordinates(Upserted(base, in, t))

NoMsg == [status |-> "absent", text |-> Empty, index |-> Empty]

NoRevs == [m \in Msgs |-> <<>>]

EmptyArchive ==
    [chats  |-> [c \in Chats |-> [status |-> "absent", at |-> 0]],
     groups |-> [g \in Groups |-> "absent"],
     parts  |-> [p \in Parts |-> "absent"],
     msgs   |-> [m \in Msgs |-> NoMsg],
     revs   |-> NoRevs,
     links  |-> {}]

\* What a Desktop snapshot can hold: no tombstones, no revisions, and last
\* activity no later than the import.
Snapshots(t) ==
    [chats  : [Chats -> [status : {"live"}, at : 0..t] \cup
                        {[status |-> s, at |-> 0] : s \in {"absent", "removed"}}],
     groups : [Groups -> {"absent", "live"}],
     parts  : [Parts -> {"absent", "active", "inactive"}],
     msgs   : [Msgs -> [status : {"live"}, text : Payloads, null : {FALSE}] \cup
                       [status : {"live"}, text : {Empty}, null : BOOLEAN] \cup
                       [status : {"absent"}, text : {Empty}, null : {FALSE}]],
     revs   : {NoRevs},
     links  : SUBSET Links]

\* Faulty: leaves the revisions out of the backup.
ExportRowsOnly(a) ==
    [chats  |-> a.chats,
     groups |-> a.groups,
     parts  |-> [p \in Parts |-> IF a.parts[p] = "live" THEN "active" ELSE a.parts[p]],
     msgs   |-> [m \in Msgs |-> [status |-> a.msgs[m].status,
                                 text   |-> a.msgs[m].text,
                                 null   |-> FALSE]],
     revs   |-> NoRevs,
     links  |-> a.links]

\* The rows a backup carries: neither the search index nor the fact that a
\* text was NULL, and is_active is set exactly on live participants.
Export(a) ==
    [chats  |-> a.chats,
     groups |-> a.groups,
     parts  |-> [p \in Parts |-> IF a.parts[p] = "live" THEN "active" ELSE a.parts[p]],
     msgs   |-> [m \in Msgs |-> [status |-> a.msgs[m].status,
                                 text   |-> a.msgs[m].text,
                                 null   |-> FALSE]],
     revs   |-> a.revs,
     links  |-> a.links]

-----------------------------------------------------------------------------
Init ==
    /\ archive = EmptyArchive
    /\ backup = Export(EmptyArchive)
    /\ now = 1
    /\ restores = 0

WithinBounds(a) == \A m \in Msgs : Len(a.revs[m]) =< MaxRevisions

\* wacrawl import, sync: MergeAll.
Merge(in) ==
    /\ archive' = ImportAll(archive, in, now)
    /\ WithinBounds(archive')
    /\ UNCHANGED <<backup, now, restores>>

\* wacrawl import --restore: ReplaceAll of a Desktop snapshot.
ReplaceAll(in) ==
    /\ restores < MaxRestores
    /\ archive' = ImportAll(EmptyArchive, in, now)
    /\ restores' = restores + 1
    /\ UNCHANGED <<backup, now>>

\* wacrawl backup push: ExportAll.  Only a backup that can still be pulled
\* within MaxRestores is taken.
ExportAll ==
    /\ restores < MaxRestores
    /\ backup' = Export(archive)
    /\ UNCHANGED <<archive, now, restores>>

\* Faulty: merges the backup into what is there.
MergeSnapshot ==
    /\ restores < MaxRestores
    /\ archive' = ImportAll(archive, backup, now)
    /\ WithinBounds(archive')
    /\ restores' = restores + 1
    /\ UNCHANGED <<backup, now>>

\* wacrawl backup pull: ImportSnapshot.
ImportSnapshot ==
    /\ restores < MaxRestores
    /\ archive' = ImportAll(EmptyArchive, backup, now)
    /\ WithinBounds(archive')
    /\ restores' = restores + 1
    /\ UNCHANGED <<backup, now>>

Tick ==
    /\ now < MaxTime
    /\ now' = now + 1
    /\ UNCHANGED <<archive, backup, restores>>

Next ==
    \/ \E in \in Snapshots(now) : Merge(in)
    \/ \E in \in Snapshots(now) : ReplaceAll(in)
    \/ ExportAll
    \/ ImportSnapshot
    \/ Tick

Spec == Init /\ [][Next]_vars

-----------------------------------------------------------------------------
(* Properties.                                                             *)

ChatRows == {r \in [status : Statuses, at : Nat] : r.status = "absent" => r.at = 0}
MsgRows  == {r \in [status : Statuses, text : Texts, index : Texts] :
                r.status = "absent" => r = NoMsg}

ArchiveType ==
    [chats  : [Chats -> ChatRows],
     groups : [Groups -> Statuses],
     parts  : [Parts -> Statuses],
     msgs   : [Msgs -> MsgRows],
     revs   : [Msgs -> Seq(Texts)],
     links  : SUBSET Links]

BackupType ==
    [chats  : [Chats -> ChatRows],
     groups : [Groups -> Statuses],
     parts  : [Parts -> {"absent", "active", "dead"}],
     msgs   : [Msgs -> [status : Statuses, text : Texts, null : {FALSE}]],
     revs   : [Msgs -> Seq(Texts)],
     links  : SUBSET Links]

\* Every variable holds rows of the schema (internal/store/schema.go).
TypeOK ==
    /\ archive \in ArchiveType
    /\ backup \in BackupType
    /\ now \in 1..MaxTime
    /\ restores \in Nat

\* No family has a live child of a dead parent.
FamilyClosed(a) ==
    /\ \A g \in Groups : a.chats[g].status = "dead" => a.groups[g] # "live"
    /\ \A p \in Parts : a.groups[p[1]] = "dead" => a.parts[p] # "live"
    /\ \A m \in Msgs :
          ChatOf[m] \in DeadParents(a.chats, AliasPairs(a.links))
            => a.msgs[m].status # "live"

\* No row outlives its parent: no live group of a tombstoned chat, no live
\* participant of a tombstoned group, and no live message whose chat, or the
\* alias of whose chat by retained contact evidence, is a dead parent.
\* Imports bring rows, parents and links in any combination and order.
NoOrphans == FamilyClosed(archive)

\* Search over live messages answers from what they say now: the index of a
\* live message is its text (message_write.go keeps the old index entry only
\* when a withdrawn payload kills the message).
LiveIndexed ==
    \A m \in Msgs : archive.msgs[m].status # "dead"
                       => archive.msgs[m].index = archive.msgs[m].text

\* The rows, with every message indexed by its text.
WithoutIndex(a) ==
    [a EXCEPT !.msgs = [m \in Msgs |-> [a.msgs[m] EXCEPT !.index = a.msgs[m].text]]]

\* Restoring a backup of the archive now or later reproduces every row of it:
\* no stage of the import pipeline sees something left to tombstone, revive
\* or revise in rows it has already settled ("exact restore does not discard
\* source deletion history", docs/data-model.md).  Only the index of withdrawn
\* messages is not part of a backup.
RestoreIsExact ==
    \A t \in now..MaxTime :
        ImportAll(EmptyArchive, Export(archive), t) = WithoutIndex(archive)

\* A pull puts back exactly the rows that were pushed, whatever the archive
\* has become in between.
PullRestoresBackup == [][ImportSnapshot => Export(archive') = backup]_vars

\* Importing the same snapshot once more, now or later, changes nothing: no
\* row, no revision ("An unchanged import adds no new events or revisions",
\* docs/data-model.md).
ImportIsIdempotent ==
    \A in \in Snapshots(now) :
        LET once == ImportAll(archive, in, now)
        IN  \A t \in now..MaxTime : ImportAll(once, in, t) = once

\* What the archive holds of an event: its payload and its revisions.
Held(a, m) ==
    {a.revs[m][i] : i \in 1..Len(a.revs[m])} \cup
    (IF a.msgs[m].status = "absent" THEN {} ELSE {a.msgs[m].text})

\* A merge loses no payload: one that is overwritten or tombstoned has become
\* a revision, and revisions are append-only.
NothingLost ==
    [][restores' = restores =>
          \A m \in Msgs : /\ Held(archive, m) \subseteq Held(archive', m)
                          /\ Len(archive.revs[m]) =< Len(archive'.revs[m])
                          /\ \A i \in 1..Len(archive.revs[m]) :
                               archive'.revs[m][i] = archive.revs[m][i]]_vars

\* A merge never changes a tombstoned message again, whatever happens to its
\* chat: a revived chat, a new alias, a sweep or an edit leaves it as it is.
TombstonesAreSticky ==
    [][restores' = restores =>
          \A m \in Msgs : archive.msgs[m].status = "dead"
             => /\ archive'.msgs[m] = archive.msgs[m]
                /\ archive'.revs[m] = archive.revs[m]]_vars

\* Tombstones have a cause ("an unobserved row is never implicitly
\* tombstoned", docs/data-model.md): a message dies in a merge only if its
\* payload was withdrawn, or its chat or a chat aliased to it by evidence
\* nothing contradicts is tombstoned; a group only with its chat.
DeathHasCause ==
    [][restores' = restores =>
         /\ \A m \in Msgs :
              /\ archive.msgs[m].status = "live"
              /\ archive'.msgs[m].status = "dead"
              => \/ archive'.msgs[m].text = Empty /\ archive.msgs[m].text # Empty
                 \/ \E c \in Chats :
                       /\ \/ c = ChatOf[m]
                          \/ <<c, ChatOf[m]>> \in AliasPairs(archive'.links)
                       /\ archive'.chats[c].status = "dead"
         /\ \A g \in Groups :
              archive.groups[g] = "live" /\ archive'.groups[g] = "dead"
              => archive'.chats[g].status = "dead"]_vars

\* "A removed chat can start a new live lifecycle when WhatsApp reports
\* post-tombstone activity" (docs/commands.md): a message first archived by a
\* merge is live when its chat is live with activity after every tombstone of
\* that chat and of its alias.  The code breaks this for aliases: a removed
\* sibling chat that the snapshot still lists is tombstoned at the time of
\* this import, which no activity is later than.
NewLifecycleIsLive ==
    [][restores' = restores =>
          \A m \in Msgs :
             /\ archive.msgs[m].status = "absent"
             /\ archive'.msgs[m].status # "absent"
             /\ archive'.chats[ChatOf[m]].status = "live"
             /\ ChatOf[m] \notin DeadParents(archive'.chats, AliasPairs(archive'.links))
             => archive'.msgs[m].status = "live"]_vars
=============================================================================
