------------------------ MODULE ArchiveHistoryProofs ------------------------
(* What a merge does to the rows it finds, for every value of the constants *)
(* of ArchiveLifecycle: it keeps every payload, leaves tombstoned messages  *)
(* alone, kills only for a cause, keeps live messages indexed, changes      *)
(* nothing when it is repeated, and does the same to a restored archive.    *)
EXTENDS ArchiveLifecycleProofs

-----------------------------------------------------------------------------
(* The incoming rows of an import, as Upserted names them.                 *)

Aliases(base, in) == ImportAliases(base.links, in.links)
Removed(base, in, t) == DeadParents(PreparedChats(in, t), Aliases(base, in))
Observed(base, in, t) == LiveChats(PreparedChats(in, t), Aliases(base, in))
Stored(base, in) == DeadParents(base.chats, Aliases(base, in))

Incoming(base, in, t) ==
    PreparedMsgs(in, Removed(base, in, t), Observed(base, in, t), Stored(base, in))

IncomingGroups(base, in, t) ==
    PreparedGroups(in, base, Removed(base, in, t), Observed(base, in, t))

\* The upserts, row by row.
LEMMA UpsertedChat ==
    ASSUME NEW base, NEW in, NEW t, NEW c \in Chats
    PROVE  Upserted(base, in, t).chats[c] =
             UpsertChat(base.chats[c], PreparedChats(in, t)[c])
BY DEF Upserted

LEMMA UpsertedGroup ==
    ASSUME NEW base, NEW in, NEW t, NEW g \in Groups
    PROVE  Upserted(base, in, t).groups[g] =
             UpsertChild(base.groups[g], IncomingGroups(base, in, t)[g],
                         UpsertChat(base.chats[g], PreparedChats(in, t)[g]).status = "live")
BY LifecycleAssumption DEF Upserted, IncomingGroups, Removed, Observed, Aliases

LEMMA UpsertedMessage ==
    ASSUME NEW base, NEW in, NEW t, NEW m \in Msgs
    PROVE  Upserted(base, in, t).msgs[m] =
             UpsertMsg(base.msgs[m], Incoming(base, in, t)[m])
BY DEF Upserted, Incoming, Removed, Observed, Stored, Aliases

\* A snapshot brings no revisions of its own.
LEMMA UpsertedRevisions ==
    ASSUME NEW base \in ArchiveType, NEW t \in Nat, NEW in \in Snapshots(t),
           NEW m \in Msgs
    PROVE  Upserted(base, in, t).revs[m] =
             UpsertRevs(base.revs[m], base.msgs[m], Incoming(base, in, t)[m])
<1> DEFINE kept == UpsertRevs(base.revs[m], base.msgs[m], Incoming(base, in, t)[m])
<1>1. Upserted(base, in, t).revs[m] = kept \o in.revs[m]
  BY DEF Upserted, Incoming, Removed, Observed, Stored, Aliases
<1>2. in.revs[m] = <<>>
  BY DEF Snapshots, NoRevs
<1>3. kept \in Seq(Texts)
  <2>1. base.revs[m] \in Seq(Texts) /\ base.msgs[m].text \in Texts
    BY DEF ArchiveType, MsgRows
  <2> QED
    BY <2>1 DEF UpsertRevs
<1> QED
  BY <1>1, <1>2, <1>3

\* An incoming message has the type of an input's, and its text.
LEMMA IncomingType ==
    ASSUME NEW base, NEW in \in InputType, NEW t, NEW m \in Msgs
    PROVE  /\ Incoming(base, in, t)[m] \in [status : Statuses, text : Texts, null : BOOLEAN]
           /\ Incoming(base, in, t)[m].text = in.msgs[m].text
BY DEF Incoming, PreparedMsgs, InputType, Statuses

\* A step that is no restore leaves the archive alone or merges a snapshot.
LEMMA MergeSteps ==
    ASSUME TypeOK, [Next]_vars, restores' = restores
    PROVE  \/ archive' = archive
           \/ \E in \in Snapshots(now) : archive' = ImportAll(archive, in, now)
<1>1. restores \in Nat
  BY DEF TypeOK
<1>2. CASE \E in \in Snapshots(now) : Merge(in)
  BY <1>2 DEF Merge
<1>3. CASE \E in \in Snapshots(now) : ReplaceAll(in)
  BY <1>1, <1>3 DEF ReplaceAll
<1>4. CASE ImportSnapshot
  BY <1>1, <1>4 DEF ImportSnapshot
<1>5. CASE ExportAll \/ Tick \/ UNCHANGED vars
  BY <1>5 DEF ExportAll, Tick, vars
<1> QED
  BY <1>2, <1>3, <1>4, <1>5 DEF Next

-----------------------------------------------------------------------------
(* Tombstones.                                                             *)

\* A merge leaves a tombstoned message and its revisions as they are.
LEMMA DeadStay ==
    ASSUME NEW a \in ArchiveType, NEW t \in Nat, NEW in \in Snapshots(t),
           NEW m \in Msgs, a.msgs[m].status = "dead"
    PROVE  /\ ImportAll(a, in, t).msgs[m] = a.msgs[m]
           /\ ImportAll(a, in, t).revs[m] = a.revs[m]
<1> DEFINE U == Upserted(a, in, t)
           new == Incoming(a, in, t)[m]
<1>1. U.msgs[m] = UpsertMsg(a.msgs[m], new)
  BY UpsertedMessage
<1>2. U.revs[m] = UpsertRevs(a.revs[m], a.msgs[m], new)
  BY UpsertedRevisions
<1>3. U.msgs[m] = a.msgs[m]
  BY <1>1 DEF UpsertMsg
<1>4. UpsertRevs(a.revs[m], a.msgs[m], new) = a.revs[m]
  BY DEF UpsertRevs
<1>5. U.revs[m] = a.revs[m]
  BY <1>2, <1>4
<1> HIDE DEF U
<1>6. ~Swept(U, m)
  BY <1>3 DEF Swept
<1> QED
  BY <1>3, <1>5, <1>6 DEF ImportAll, U, TombstoneSubordinates, SweptMsgs, SweptRevs

\* Once tombstoned, a message is never changed again by any merge, in any
\* later history: not by edits, revived chats, new aliases or sweeps.
THEOREM TombstonesStick == Spec => TombstonesAreSticky
<1>1. TypeOK /\ [Next]_vars =>
        [restores' = restores =>
          \A m \in Msgs : archive.msgs[m].status = "dead"
             => /\ archive'.msgs[m] = archive.msgs[m]
                /\ archive'.revs[m] = archive.revs[m]]_vars
  <2> SUFFICES ASSUME TypeOK, [Next]_vars, restores' = restores,
                      NEW m \in Msgs, archive.msgs[m].status = "dead"
               PROVE  /\ archive'.msgs[m] = archive.msgs[m]
                      /\ archive'.revs[m] = archive.revs[m]
    OBVIOUS
  <2>1. archive \in ArchiveType /\ now \in Nat
    BY DEF TypeOK
  <2> QED
    BY <2>1, MergeSteps, DeadStay
<1> QED
  BY <1>1, TypeCorrect, PTL DEF Spec, TombstonesAreSticky

-----------------------------------------------------------------------------
(* The search index.                                                       *)

\* The rows an archive indexes by what they say now.
Indexed(row) == row.status # "dead" => row.index = row.text

\* An upsert indexes what it leaves live; the sweep only tombstones.
LEMMA ImportIndexes ==
    ASSUME NEW a \in ArchiveType, \A m \in Msgs : Indexed(a.msgs[m]),
           NEW in \in InputType, NEW t \in Nat, NEW m \in Msgs
    PROVE  Indexed(ImportAll(a, in, t).msgs[m])
<1> DEFINE U == Upserted(a, in, t)
           old == a.msgs[m]
           new == Incoming(a, in, t)[m]
<1>1. Indexed(UpsertMsg(old, new))
  <2>1. /\ old \in MsgRows /\ Indexed(old)
        /\ new \in [status : Statuses, text : Texts, null : BOOLEAN]
    BY IncomingType DEF ArchiveType
  <2> QED
    BY <2>1 DEF UpsertMsg, UpsertedMsg, Indexed, MsgRows, Statuses
<1>2. U.msgs[m] = UpsertMsg(old, new)
  BY UpsertedMessage
<1>3. U \in ArchiveType
  BY UpsertedTypeLemma
<1>4. Indexed(U.msgs[m])
  BY <1>1, <1>2
<1> HIDE DEF U
<1>5. Indexed(TombstoneSubordinates(U).msgs[m])
  <2>1. U.msgs[m] \in MsgRows
    BY <1>3 DEF ArchiveType
  <2>2. TombstoneSubordinates(U).msgs[m] =
          IF Swept(U, m) THEN [U.msgs[m] EXCEPT !.status = "dead"] ELSE U.msgs[m]
    BY DEF TombstoneSubordinates, SweptMsgs
  <2>3. [U.msgs[m] EXCEPT !.status = "dead"].status = "dead"
    BY <2>1 DEF MsgRows
  <2> QED
    BY <1>4, <2>2, <2>3 DEF Indexed
<1> QED
  BY <1>5 DEF ImportAll, U

\* A search over live messages never answers from an overwritten payload.
THEOREM LiveAreIndexed == Spec => []LiveIndexed
<1>0. LiveIndexed <=> \A m \in Msgs : Indexed(archive.msgs[m])
  BY DEF LiveIndexed, Indexed
<1>1. Init => LiveIndexed
  BY DEF Init, LiveIndexed, EmptyArchive, NoMsg
<1>2. TypeOK /\ LiveIndexed /\ [Next]_vars => LiveIndexed'
  <2> SUFFICES ASSUME TypeOK, LiveIndexed, [Next]_vars PROVE LiveIndexed'
    OBVIOUS
  <2>0. /\ now \in Nat /\ archive \in ArchiveType /\ backup \in BackupType
        /\ \A m \in Msgs : Indexed(archive.msgs[m])
        /\ \A m \in Msgs : Indexed(EmptyArchive.msgs[m])
    BY <1>0 DEF TypeOK, EmptyArchive, NoMsg, Indexed
  <2>1. ASSUME NEW base \in ArchiveType, \A m \in Msgs : Indexed(base.msgs[m]),
               NEW in \in InputType, archive' = ImportAll(base, in, now)
        PROVE  LiveIndexed'
    <3>1. \A m \in Msgs : Indexed(ImportAll(base, in, now).msgs[m])
      BY <2>0, <2>1, ImportIndexes
    <3> QED
      BY <2>1, <3>1 DEF LiveIndexed, Indexed
  <2>2. ASSUME NEW in \in Snapshots(now), Merge(in) PROVE LiveIndexed'
    BY <2>0, <2>1, <2>2, SnapshotType DEF Merge
  <2>3. ASSUME NEW in \in Snapshots(now), ReplaceAll(in) PROVE LiveIndexed'
    BY <2>0, <2>1, <2>3, SnapshotType, EmptyType DEF ReplaceAll
  <2>4. CASE ImportSnapshot
    BY <2>0, <2>1, <2>4, BackupIsInput, EmptyType DEF ImportSnapshot
  <2>5. CASE ExportAll \/ Tick \/ UNCHANGED vars
    BY <2>5 DEF ExportAll, Tick, vars, LiveIndexed
  <2> QED
    BY <2>2, <2>3, <2>4, <2>5 DEF Next
<1> QED
  BY <1>1, <1>2, TypeCorrect, PTL DEF Spec

-----------------------------------------------------------------------------
(* Payloads.                                                               *)

\* Appending the current payload, and keeping or replacing it.
LEMMA AppendHolds ==
    ASSUME NEW s \in Seq(Texts), NEW x \in Texts
    PROVE  /\ Len(s) =< Len(Append(s, x))
           /\ \A i \in 1..Len(s) : Append(s, x)[i] = s[i]
           /\ Append(s, x)[Len(s) + 1] = x
           /\ Len(Append(s, x)) = Len(s) + 1
OBVIOUS

\* The state of one event before and after a stage that may append its
\* payload to its revisions, and that does so if it changes the payload.
LEMMA StageHolds ==
    ASSUME NEW a \in ArchiveType, NEW b \in ArchiveType, NEW m \in Msgs,
           \/ /\ b.revs[m] = a.revs[m]
              /\ \/ a.msgs[m].status = "absent"
                 \/ b.msgs[m].status # "absent" /\ b.msgs[m].text = a.msgs[m].text
           \/ b.revs[m] = Append(a.revs[m], a.msgs[m].text)
    PROVE  /\ Held(a, m) \subseteq Held(b, m)
           /\ Len(a.revs[m]) =< Len(b.revs[m])
           /\ \A i \in 1..Len(a.revs[m]) : b.revs[m][i] = a.revs[m][i]
<1>1. /\ a.revs[m] \in Seq(Texts) /\ b.revs[m] \in Seq(Texts)
      /\ a.msgs[m].text \in Texts /\ a.msgs[m].status \in Statuses
  BY DEF ArchiveType, MsgRows
<1>2. CASE b.revs[m] = a.revs[m]
  <2>1. \/ a.msgs[m].status = "absent"
        \/ b.msgs[m].status # "absent" /\ b.msgs[m].text = a.msgs[m].text
    <3>1. Len(Append(a.revs[m], a.msgs[m].text)) # Len(a.revs[m])
      BY <1>1
    <3> QED
      BY <1>2, <3>1
  <2> QED
    BY <1>1, <1>2, <2>1 DEF Held
<1>3. CASE b.revs[m] = Append(a.revs[m], a.msgs[m].text)
  <2>1. /\ Len(b.revs[m]) = Len(a.revs[m]) + 1
        /\ \A i \in 1..Len(a.revs[m]) : b.revs[m][i] = a.revs[m][i]
        /\ b.revs[m][Len(a.revs[m]) + 1] = a.msgs[m].text
    BY <1>1, <1>3, AppendHolds
  <2>2. Len(a.revs[m]) \in Nat
    BY <1>1
  <2>3. ASSUME NEW x \in Held(a, m)
        PROVE  \E i \in 1..Len(b.revs[m]) : x = b.revs[m][i]
    <3>1. CASE \E i \in 1..Len(a.revs[m]) : x = a.revs[m][i]
      <4>1. PICK i \in 1..Len(a.revs[m]) : x = a.revs[m][i]
        BY <3>1
      <4>2. i \in 1..Len(b.revs[m]) /\ x = b.revs[m][i]
        BY <2>1, <2>2, <4>1
      <4> QED
        BY <4>2
    <3>2. CASE x = a.msgs[m].text
      <4>1. Len(a.revs[m]) + 1 \in 1..Len(b.revs[m])
        BY <2>1, <2>2
      <4> QED
        BY <2>1, <3>2, <4>1
    <3> QED
      BY <2>3, <3>1, <3>2 DEF Held
  <2>4. Held(a, m) \subseteq Held(b, m)
    BY <2>3 DEF Held
  <2> QED
    BY <2>1, <2>2, <2>4
<1> QED
  BY <1>2, <1>3

\* A merge keeps the payload and the revisions of every event.
LEMMA MergeHolds ==
    ASSUME NEW a \in ArchiveType, NEW t \in Nat, NEW in \in Snapshots(t),
           NEW m \in Msgs
    PROVE  LET b == ImportAll(a, in, t)
           IN  /\ Held(a, m) \subseteq Held(b, m)
               /\ Len(a.revs[m]) =< Len(b.revs[m])
               /\ \A i \in 1..Len(a.revs[m]) : b.revs[m][i] = a.revs[m][i]
<1> DEFINE U == Upserted(a, in, t)
           b == TombstoneSubordinates(U)
           old == a.msgs[m]
           new == Incoming(a, in, t)[m]
<1>1. in \in InputType
  BY SnapshotType
<1>2. U \in ArchiveType /\ b \in ArchiveType
  BY <1>1, UpsertedTypeLemma, SweptType
<1>3. old \in MsgRows /\ new \in [status : Statuses, text : Texts, null : BOOLEAN]
  BY <1>1, IncomingType DEF ArchiveType
<1>4. U.msgs[m] = UpsertMsg(old, new) /\ U.revs[m] = UpsertRevs(a.revs[m], old, new)
  BY UpsertedMessage, UpsertedRevisions
<1> HIDE DEF U, b, new
<1>5. \/ /\ U.revs[m] = a.revs[m]
         /\ \/ old.status = "absent"
            \/ U.msgs[m].status # "absent" /\ U.msgs[m].text = old.text
      \/ U.revs[m] = Append(a.revs[m], old.text)
  BY <1>3, <1>4 DEF UpsertMsg, UpsertRevs, UpsertedMsg, MsgRows, Statuses
<1>6. \/ /\ b.revs[m] = U.revs[m]
         /\ \/ U.msgs[m].status = "absent"
            \/ b.msgs[m].status # "absent" /\ b.msgs[m].text = U.msgs[m].text
      \/ b.revs[m] = Append(U.revs[m], U.msgs[m].text)
  BY DEF b, TombstoneSubordinates, SweptMsgs, SweptRevs
<1>7. /\ Held(a, m) \subseteq Held(U, m)
      /\ Len(a.revs[m]) =< Len(U.revs[m])
      /\ \A i \in 1..Len(a.revs[m]) : U.revs[m][i] = a.revs[m][i]
  BY <1>2, <1>5, StageHolds
<1>8. /\ Held(U, m) \subseteq Held(b, m)
      /\ Len(U.revs[m]) =< Len(b.revs[m])
      /\ \A i \in 1..Len(U.revs[m]) : b.revs[m][i] = U.revs[m][i]
  BY <1>2, <1>6, StageHolds
<1>9. Len(a.revs[m]) \in Nat /\ Len(U.revs[m]) \in Nat /\ Len(b.revs[m]) \in Nat
  BY <1>2 DEF ArchiveType
<1>10. ImportAll(a, in, t) = b
  BY DEF ImportAll, b, U
<1> QED
  BY <1>7, <1>8, <1>9, <1>10

\* No merge, in any history, loses a payload or rewrites a revision.
THEOREM NothingIsLost == Spec => NothingLost
<1>1. TypeOK /\ [Next]_vars =>
        [restores' = restores =>
          \A m \in Msgs : /\ Held(archive, m) \subseteq Held(archive', m)
                          /\ Len(archive.revs[m]) =< Len(archive'.revs[m])
                          /\ \A i \in 1..Len(archive.revs[m]) :
                               archive'.revs[m][i] = archive.revs[m][i]]_vars
  <2> SUFFICES ASSUME TypeOK, [Next]_vars, restores' = restores, NEW m \in Msgs
               PROVE  /\ Held(archive, m) \subseteq Held(archive', m)
                      /\ Len(archive.revs[m]) =< Len(archive'.revs[m])
                      /\ \A i \in 1..Len(archive.revs[m]) :
                           archive'.revs[m][i] = archive.revs[m][i]
    OBVIOUS
  <2>1. archive \in ArchiveType /\ now \in Nat
    BY DEF TypeOK
  <2>2. CASE archive' = archive
    <3>1. Len(archive.revs[m]) \in Nat
      BY <2>1 DEF ArchiveType
    <3> QED
      BY <2>2, <3>1
  <2>3. CASE \E in \in Snapshots(now) : archive' = ImportAll(archive, in, now)
    BY <2>1, <2>3, MergeHolds
  <2> QED
    BY <2>2, <2>3, MergeSteps
<1> QED
  BY <1>1, TypeCorrect, PTL DEF Spec, NothingLost

-----------------------------------------------------------------------------
(* Causes.                                                                 *)

\* A chat the snapshot removes ends up tombstoned, and so does a tombstoned
\* chat the snapshot does not report live.
LEMMA DeadChatStays ==
    ASSUME NEW a \in ArchiveType, NEW t \in Nat, NEW in \in InputType, NEW c \in Chats,
           \/ PreparedChats(in, t)[c].status = "dead"
           \/ a.chats[c].status = "dead" /\ PreparedChats(in, t)[c].status # "live"
    PROVE  ImportAll(a, in, t).chats[c].status = "dead"
<1> DEFINE new == PreparedChats(in, t)[c]
<1>1. UpsertChat(a.chats[c], new).status = "dead"
  <2>1. new.status \in Statuses
    BY DEF PreparedChats, InputType, Statuses
  <2> HIDE DEF new
  <2> QED
    BY <2>1 DEF UpsertChat, Statuses, new
<1>2. ImportAll(a, in, t).chats[c] = UpsertChat(a.chats[c], new)
  BY UpsertedChat DEF ImportAll, TombstoneSubordinates
<1> QED
  BY <1>1, <1>2

\* An import trusts a link only if the archive's evidence supports it after.
LEMMA TrustedAliases ==
    ASSUME NEW a, NEW in, NEW t
    PROVE  Aliases(a, in) \subseteq AliasPairs(ImportAll(a, in, t).links)
<1>1. ImportAll(a, in, t).links = a.links \cup in.links
  BY DEF ImportAll, TombstoneSubordinates, Upserted
<1> QED
  BY <1>1 DEF Aliases, ImportAliases

\* What makes an incoming row dead is a tombstoned chat, after the import.
LEMMA PreparedDeathHasCause ==
    ASSUME NEW a \in ArchiveType, NEW t \in Nat, NEW in \in InputType, NEW c \in Chats,
           \/ c \in Removed(a, in, t)
           \/ c \notin Observed(a, in, t) /\ c \in Stored(a, in)
    PROVE  \E d \in Chats : /\ d = c \/ <<d, c>> \in AliasPairs(ImportAll(a, in, t).links)
                            /\ ImportAll(a, in, t).chats[d].status = "dead"
<1> DEFINE al == Aliases(a, in)
           chatsIn == PreparedChats(in, t)
           Dying(d) == \/ chatsIn[d].status = "dead"
                       \/ a.chats[d].status = "dead" /\ chatsIn[d].status # "live"
<1>1. \E d \in Chats : (d = c \/ <<d, c>> \in al) /\ Dying(d)
  <2>1. CASE c \in Removed(a, in, t)
    BY <2>1 DEF Removed, DeadParents
  <2>2. CASE c \notin Observed(a, in, t) /\ c \in Stored(a, in)
    <3>1. \A d \in Chats : (d = c \/ <<d, c>> \in al) => chatsIn[d].status # "live"
      BY <2>2 DEF Observed, LiveChats
    <3>2. \E d \in Chats : (d = c \/ <<d, c>> \in al) /\ a.chats[d].status = "dead"
      BY <2>2 DEF Stored, DeadParents
    <3> QED
      BY <3>1, <3>2
  <2> QED
    BY <2>1, <2>2
<1>2. PICK d \in Chats : (d = c \/ <<d, c>> \in al) /\ Dying(d)
  BY <1>1
<1>3. ImportAll(a, in, t).chats[d].status = "dead"
  BY <1>2, DeadChatStays
<1> QED
  BY <1>2, <1>3, TrustedAliases

\* A message dies of a withdrawn payload or of a tombstoned chat.
LEMMA MessageDeath ==
    ASSUME NEW a \in ArchiveType, NEW t \in Nat, NEW in \in Snapshots(t), NEW m \in Msgs,
           a.msgs[m].status = "live", ImportAll(a, in, t).msgs[m].status = "dead"
    PROVE  LET b == ImportAll(a, in, t)
           IN  \/ b.msgs[m].text = Empty /\ a.msgs[m].text # Empty
               \/ \E c \in Chats : /\ \/ c = ChatOf[m]
                                      \/ <<c, ChatOf[m]>> \in AliasPairs(b.links)
                                   /\ b.chats[c].status = "dead"
<1> DEFINE U == Upserted(a, in, t)
           b == ImportAll(a, in, t)
           old == a.msgs[m]
           new == Incoming(a, in, t)[m]
<1>0. /\ in \in InputType
      /\ ChatOf[m] \in Chats
  BY SnapshotType, LifecycleAssumption
<1>1. /\ U \in ArchiveType
      /\ old \in MsgRows
      /\ new \in [status : Statuses, text : Texts, null : BOOLEAN]
  BY <1>0, UpsertedTypeLemma, IncomingType DEF ArchiveType
<1>2. U.msgs[m] = UpsertMsg(old, new)
  BY UpsertedMessage
<1>3. CASE U.msgs[m].status = "live"
  <2>1. ChatOf[m] \in DeadParents(U.chats, AliasPairs(U.links))
    BY <1>3 DEF ImportAll, TombstoneSubordinates, SweptMsgs, Swept, SweepParents
  <2>2. b.chats = U.chats /\ b.links = U.links
    BY DEF ImportAll, TombstoneSubordinates
  <2> QED
    BY <2>1, <2>2 DEF DeadParents
<1>4. CASE U.msgs[m].status # "live"
  <2> HIDE DEF new
  <2>1. (Withdrawn(old, new) \/ new.status = "dead") /\ U.msgs[m].text = new.text
    BY <1>1, <1>2, <1>4 DEF UpsertMsg, UpsertedMsg, MsgRows, Statuses
  <2>2. CASE Withdrawn(old, new)
    <3>1. b.msgs[m] = U.msgs[m]
      BY <1>4 DEF ImportAll, TombstoneSubordinates, SweptMsgs, Swept
    <3> QED
      BY <2>1, <2>2, <3>1 DEF Withdrawn
  <2>3. CASE new.status = "dead"
    <3>1. in.msgs[m].status # "dead"
      BY DEF Snapshots
    <3>2. \/ ChatOf[m] \in Removed(a, in, t)
          \/ ChatOf[m] \notin Observed(a, in, t) /\ ChatOf[m] \in Stored(a, in)
      BY <2>3, <3>1 DEF new, Incoming, PreparedMsgs
    <3> QED
      BY <1>0, <3>2, PreparedDeathHasCause
  <2> QED
    BY <2>1, <2>2, <2>3
<1> QED
  BY <1>3, <1>4

\* A group dies only with its chat.
LEMMA GroupDeath ==
    ASSUME NEW a \in ArchiveType, NEW t \in Nat, NEW in \in Snapshots(t), NEW g \in Groups,
           a.groups[g] = "live", ImportAll(a, in, t).groups[g] = "dead"
    PROVE  ImportAll(a, in, t).chats[g].status = "dead"
<1> DEFINE U == Upserted(a, in, t)
           b == ImportAll(a, in, t)
           chat == UpsertChat(a.chats[g], PreparedChats(in, t)[g])
           new == IncomingGroups(a, in, t)[g]
<1>0. in \in InputType /\ g \in Chats
  BY SnapshotType, LifecycleAssumption
<1>1. U.groups[g] = UpsertChild(a.groups[g], new, chat.status = "live")
  BY UpsertedGroup
<1>2. CASE U.groups[g] = "live"
  BY <1>2 DEF ImportAll, TombstoneSubordinates, SweptGroups
<1>3. CASE U.groups[g] # "live"
  <2>1. b.groups[g] = U.groups[g]
    BY <1>3 DEF ImportAll, TombstoneSubordinates, SweptGroups
  <2> HIDE DEF new
  <2>2. new = "dead"
    BY <1>1, <2>1 DEF UpsertChild
  <2>3. \/ g \in Removed(a, in, t)
        \/ g \notin Observed(a, in, t) /\ a.chats[g].status = "dead"
    <3>1. in.groups[g] # "dead"
      BY DEF Snapshots
    <3> QED
      BY <2>2, <3>1 DEF new, IncomingGroups, PreparedGroups
  <2>4. CASE g \in Removed(a, in, t)
    <3>1. PreparedChats(in, t)[g].status = "dead"
      BY <2>4, DeadGroupChat DEF Removed, Aliases, ImportAliases
    <3> QED
      BY <1>0, <3>1, DeadChatStays
  <2>5. CASE g \notin Observed(a, in, t) /\ a.chats[g].status = "dead"
    <3>1. PreparedChats(in, t)[g].status # "live"
      BY <1>0, <2>5 DEF Observed, LiveChats
    <3> QED
      BY <1>0, <2>5, <3>1, DeadChatStays
  <2> QED
    BY <2>3, <2>4, <2>5
<1> QED
  BY <1>2, <1>3

\* Nothing dies of being unobserved.
THEOREM DeathsHaveCauses == Spec => DeathHasCause
<1>1. TypeOK /\ [Next]_vars =>
    [restores' = restores =>
         /\ \A m \in Msgs :
              /\ archive.msgs[m].status = "live"
              /\ archive'.msgs[m].status = "dead"
              => \/ archive'.msgs[m].text = Empty /\ archive.msgs[m].text # Empty
                 \/ \E c \in Chats :
                       /\ \/ c = ChatOf[m]
                          \/ <<c, ChatOf[m]>> \in AliasPairs(archive'.links)
                       /\ archive'.chats[c].status = "dead"
         /\ \A g \in Groups :
              archive.groups[g] = "live" /\ archive'.groups[g] = "dead"
              => archive'.chats[g].status = "dead"]_vars
  <2> SUFFICES ASSUME TypeOK, [Next]_vars, restores' = restores
      PROVE
         /\ \A m \in Msgs :
              /\ archive.msgs[m].status = "live"
              /\ archive'.msgs[m].status = "dead"
              => \/ archive'.msgs[m].text = Empty /\ archive.msgs[m].text # Empty
                 \/ \E c \in Chats :
                       /\ \/ c = ChatOf[m]
                          \/ <<c, ChatOf[m]>> \in AliasPairs(archive'.links)
                       /\ archive'.chats[c].status = "dead"
         /\ \A g \in Groups :
              archive.groups[g] = "live" /\ archive'.groups[g] = "dead"
              => archive'.chats[g].status = "dead"
    OBVIOUS
  <2>1. archive \in ArchiveType /\ now \in Nat
    BY DEF TypeOK
  <2>2. CASE archive' = archive
    BY <2>2
  <2>3. CASE \E in \in Snapshots(now) : archive' = ImportAll(archive, in, now)
    <3>1. PICK in \in Snapshots(now) : archive' = ImportAll(archive, in, now)
      BY <2>3
    <3>2. ASSUME NEW m \in Msgs, archive.msgs[m].status = "live",
                 archive'.msgs[m].status = "dead"
          PROVE  \/ archive'.msgs[m].text = Empty /\ archive.msgs[m].text # Empty
                 \/ \E c \in Chats :
                       /\ \/ c = ChatOf[m]
                          \/ <<c, ChatOf[m]>> \in AliasPairs(archive'.links)
                       /\ archive'.chats[c].status = "dead"
      BY <2>1, <3>1, <3>2, MessageDeath
    <3>3. ASSUME NEW g \in Groups, archive.groups[g] = "live",
                 archive'.groups[g] = "dead"
          PROVE  archive'.chats[g].status = "dead"
      BY <2>1, <3>1, <3>3, GroupDeath
    <3> QED
      BY <3>2, <3>3
  <2> QED
    BY <2>2, <2>3, MergeSteps
<1> QED
  BY <1>1, TypeCorrect, PTL DEF Spec, DeathHasCause

-----------------------------------------------------------------------------
(* Importing a snapshot twice.                                             *)

\* Chats end up as the upsert leaves them, and links only ever join.
LEMMA ImportedChats ==
    ASSUME NEW a, NEW in, NEW t
    PROVE  /\ \A c \in Chats : ImportAll(a, in, t).chats[c] =
                                 UpsertChat(a.chats[c], PreparedChats(in, t)[c])
           /\ ImportAll(a, in, t).links = a.links \cup in.links
<1>1. ImportAll(a, in, t).chats = Upserted(a, in, t).chats
  BY DEF ImportAll, TombstoneSubordinates
<1>2. ImportAll(a, in, t).links = a.links \cup in.links
  BY DEF ImportAll, TombstoneSubordinates, Upserted
<1> QED
  BY <1>1, <1>2, UpsertedChat

\* The second import trusts the same aliases as the first.
LEMMA SameAliases ==
    ASSUME NEW a, NEW in, NEW t
    PROVE  Aliases(ImportAll(a, in, t), in) = Aliases(a, in)
<1>1. (a.links \cup in.links) \cup in.links = a.links \cup in.links
  OBVIOUS
<1> QED
  BY <1>1, ImportedChats DEF Aliases, ImportAliases

\* What a snapshot says of chats: none is active after the import.
LEMMA SnapshotChats ==
    ASSUME NEW t \in Nat, NEW in \in Snapshots(t), NEW c \in Chats
    PROVE  /\ in.chats[c].status \in {"live", "absent", "removed"}
           /\ in.chats[c].status = "live" => in.chats[c].at \in 0..t
<1>1. in.chats \in [Chats -> [status : {"live"}, at : 0..t] \cup
                             {[status |-> s, at |-> 0] : s \in {"absent", "removed"}}]
  BY DEF Snapshots
<1>2. in.chats[c] \in [status : {"live"}, at : 0..t] \cup
                      {[status |-> s, at |-> 0] : s \in {"absent", "removed"}}
  BY <1>1
<1> QED
  BY <1>2

\* The chats a snapshot shows as they say, and their aliases.
Shown(in, al, status) ==
    {c \in Chats : \E d \in Chats : /\ d = c \/ <<d, c>> \in al
                                    /\ in.chats[d].status = status}

\* The dead parents are those it removes at any later time, and the live ones
\* those it shows.
LEMMA PreparedParents ==
    ASSUME NEW t \in Nat, NEW in \in Snapshots(t), NEW u \in Nat, t =< u, NEW al
    PROVE  /\ DeadParents(PreparedChats(in, u), al) = Shown(in, al, "removed")
           /\ LiveChats(PreparedChats(in, u), al) = Shown(in, al, "live")
<1> DEFINE rows == PreparedChats(in, u)
<1>1. ASSUME NEW c \in Chats
      PROVE  /\ rows[c].status = "dead" <=> in.chats[c].status = "removed"
             /\ rows[c].status = "live" <=> in.chats[c].status = "live"
             /\ rows[c].status = "dead" => rows[c].at = u
             /\ rows[c].status = "live" => rows[c].at \in 0..t
  BY SnapshotChats DEF PreparedChats
<1> HIDE DEF rows
<1>2. ASSUME NEW c \in Chats, rows[c].status = "dead"
      PROVE  ~Reopened(rows, al, c)
  <2>1. ASSUME NEW d \in Chats, rows[d].status = "live", rows[d].at > rows[c].at
        PROVE  FALSE
    <3>1. rows[c].at = u /\ rows[d].at \in 0..t
      BY <1>1, <1>2, <2>1
    <3> QED
      BY <2>1, <3>1
  <2> QED
    BY <2>1 DEF Reopened
<1>3. DeadParents(rows, al) = Shown(in, al, "removed")
  BY <1>1, <1>2 DEF DeadParents, Shown
<1>4. LiveChats(rows, al) = Shown(in, al, "live")
  BY <1>1 DEF LiveChats, Shown
<1> QED
  BY <1>3, <1>4 DEF rows

LEMMA SameParents ==
    ASSUME NEW a, NEW t \in Nat, NEW in \in Snapshots(t), NEW u \in Nat, t =< u
    PROVE  /\ Removed(ImportAll(a, in, t), in, u) = Removed(a, in, t)
           /\ Observed(ImportAll(a, in, t), in, u) = Observed(a, in, t)
<1> DEFINE b  == ImportAll(a, in, t)
           al == Aliases(a, in)
<1>1. t =< t
  OBVIOUS
<1>2. Aliases(b, in) = al
  BY SameAliases
<1> HIDE DEF b, al
<1>3. /\ DeadParents(PreparedChats(in, u), al) = DeadParents(PreparedChats(in, t), al)
      /\ LiveChats(PreparedChats(in, u), al) = LiveChats(PreparedChats(in, t), al)
  BY <1>1, PreparedParents
<1>4. /\ Removed(b, in, u) = DeadParents(PreparedChats(in, u), al)
      /\ Observed(b, in, u) = LiveChats(PreparedChats(in, u), al)
  BY <1>2 DEF Removed, Observed
<1>5. /\ Removed(a, in, t) = DeadParents(PreparedChats(in, t), al)
      /\ Observed(a, in, t) = LiveChats(PreparedChats(in, t), al)
  BY DEF Removed, Observed, al
<1> QED
  BY <1>3, <1>4, <1>5 DEF b

\* A chat of which the snapshot says nothing stays as it was.
LEMMA SilentChats ==
    ASSUME NEW a \in ArchiveType, NEW t \in Nat, NEW in \in Snapshots(t),
           NEW c \in Chats, c \notin Removed(a, in, t), c \notin Observed(a, in, t),
           NEW d \in Chats, d = c \/ <<d, c>> \in Aliases(a, in)
    PROVE  ImportAll(a, in, t).chats[d] = a.chats[d]
<1>1. in.chats[d].status # "removed" /\ in.chats[d].status # "live"
  <2>1. c \notin Shown(in, Aliases(a, in), "removed") /\ c \notin Shown(in, Aliases(a, in), "live")
    BY PreparedParents DEF Removed, Observed
  <2> QED
    BY <2>1 DEF Shown
<1>2. PreparedChats(in, t)[d].status = "absent"
  BY <1>1, SnapshotChats DEF PreparedChats
<1>3. UpsertChat(a.chats[d], PreparedChats(in, t)[d]) = a.chats[d]
  BY <1>2 DEF UpsertChat
<1> QED
  BY <1>3, ImportedChats

\* Aliases come in pairs.
LEMMA AliasesPair ==
    ASSUME NEW E, NEW c, NEW d, <<d, c>> \in AliasPairs(E)
    PROVE  /\ <<c, d>> \in AliasPairs(E)
           /\ \A e : <<d, e>> \in AliasPairs(E) => e = c
           /\ \A e : <<e, c>> \in AliasPairs(E) => e = d
BY DEF AliasPairs

\* So stored parents settle it, if at all, in both imports alike.
LEMMA SameStored ==
    ASSUME NEW a \in ArchiveType, NEW t \in Nat, NEW in \in Snapshots(t),
           NEW c \in Chats, c \notin Removed(a, in, t), c \notin Observed(a, in, t)
    PROVE  c \in Stored(ImportAll(a, in, t), in) <=> c \in Stored(a, in)
<1> DEFINE al == Aliases(a, in)
           b  == ImportAll(a, in, t)
           Near(d) == d = c \/ <<d, c>> \in al
<1>1. \A d \in Chats : Near(d) => b.chats[d] = a.chats[d]
  BY SilentChats
<1>2. al \subseteq AliasPairs(in.links)
  BY DEF Aliases, ImportAliases
<1>3. al \subseteq AliasPairs(a.links \cup in.links)
  BY DEF Aliases, ImportAliases
<1>4. ASSUME NEW d \in Chats, NEW e \in Chats, Near(d), <<d, e>> \in al
      PROVE  Near(e)
  <2>1. CASE d = c
    <3>1. <<c, e>> \in AliasPairs(in.links) /\ <<c, e>> \in AliasPairs(a.links \cup in.links)
      BY <1>2, <1>3, <1>4, <2>1
    <3>2. <<e, c>> \in AliasPairs(in.links) /\ <<e, c>> \in AliasPairs(a.links \cup in.links)
      BY <3>1, AliasesPair
    <3> QED
      BY <3>2 DEF Aliases, ImportAliases
  <2>2. CASE <<d, c>> \in al
    BY <1>2, <1>4, <2>2, AliasesPair
  <2> QED
    BY <1>4, <2>1, <2>2
<1> HIDE DEF b, al
<1>5. ASSUME NEW d \in Chats, Near(d)
      PROVE  Reopened(b.chats, al, d) <=> Reopened(a.chats, al, d)
  BY <1>1, <1>4, <1>5 DEF Reopened
<1>6. ASSUME NEW rows
      PROVE  c \in DeadParents(rows, al) <=>
               \E d \in Chats : Near(d) /\ rows[d].status = "dead" /\ ~Reopened(rows, al, d)
  BY DEF DeadParents
<1>7. c \in DeadParents(b.chats, al) <=> c \in DeadParents(a.chats, al)
  BY <1>1, <1>5, <1>6
<1> QED
  BY <1>7, SameAliases DEF Stored, b, al

\* A message comes in the second time as it did the first.
LEMMA SameIncoming ==
    ASSUME NEW a \in ArchiveType, NEW t \in Nat, NEW in \in Snapshots(t),
           NEW u \in Nat, t =< u, NEW m \in Msgs
    PROVE  Incoming(ImportAll(a, in, t), in, u)[m] = Incoming(a, in, t)[m]
<1> DEFINE b == ImportAll(a, in, t)
           c == ChatOf[m]
<1>1. c \in Chats
  BY LifecycleAssumption
<1>2. /\ Removed(b, in, u) = Removed(a, in, t)
      /\ Observed(b, in, u) = Observed(a, in, t)
  BY SameParents
<1>3. \/ c \in Removed(a, in, t)
      \/ c \notin Observed(a, in, t) /\ c \in Stored(a, in)
      <=>
      \/ c \in Removed(b, in, u)
      \/ c \notin Observed(b, in, u) /\ c \in Stored(b, in)
  BY <1>1, <1>2, SameStored
<1> HIDE DEF b
<1>4. Incoming(b, in, u)[m] = Incoming(a, in, t)[m]
  BY <1>3 DEF Incoming, PreparedMsgs
<1> QED
  BY <1>4 DEF b

-----------------------------------------------------------------------------
\* The second import finds each kind of row as it would leave it.
LEMMA ChatsAgain ==
    ASSUME NEW a \in ArchiveType, NEW t \in Nat, NEW in \in Snapshots(t),
           NEW u \in Nat, t =< u, NEW c \in Chats
    PROVE  LET b == ImportAll(a, in, t)
           IN  UpsertChat(b.chats[c], PreparedChats(in, u)[c]) = b.chats[c]
<1> DEFINE old == a.chats[c]
           one == PreparedChats(in, t)[c]
           two == PreparedChats(in, u)[c]
           b   == ImportAll(a, in, t)
<1>1. b.chats[c] = UpsertChat(old, one)
  BY ImportedChats
<1>2. old \in ChatRows
  BY DEF ArchiveType
<1>3. \/ two = one /\ one.status \in {"absent", "live"} /\ (one.status = "live" => one.at \in Nat)
      \/ one.status = "dead" /\ two.status = "dead"
  BY SnapshotChats DEF PreparedChats
<1> HIDE DEF old, one, two, b
<1>4. UpsertChat(UpsertChat(old, one), two) = UpsertChat(old, one)
  <2>1. CASE one.status = "dead" /\ two.status = "dead"
    BY <2>1 DEF UpsertChat
  <2>2. CASE two = one /\ one.status = "absent"
    BY <2>2 DEF UpsertChat
  <2>3. CASE two = one /\ one.status = "live" /\ one.at \in Nat
    BY <1>2, <2>3 DEF UpsertChat, ChatRows
  <2> QED
    BY <1>3, <2>1, <2>2, <2>3
<1> QED
  BY <1>1, <1>4 DEF b, two

LEMMA GroupsAgain ==
    ASSUME NEW a \in ArchiveType, NEW t \in Nat, NEW in \in Snapshots(t),
           NEW u \in Nat, t =< u, NEW g \in Groups
    PROVE  LET b == ImportAll(a, in, t)
           IN  /\ UpsertChild(b.groups[g], IncomingGroups(b, in, u)[g],
                              b.chats[g].status = "live") = b.groups[g]
               /\ in.groups[g] = "live" => b.groups[g] # "absent"
               /\ in.groups[g] = "live" /\ g \in Removed(a, in, t) => b.groups[g] = "dead"
<1> DEFINE U == Upserted(a, in, t)
           b == ImportAll(a, in, t)
           one == IncomingGroups(a, in, t)[g]
           two == IncomingGroups(b, in, u)[g]
<1>0. in \in InputType /\ g \in Chats
  BY SnapshotType, LifecycleAssumption
<1>1. /\ U \in ArchiveType
      /\ b \in ArchiveType
      /\ FamilyClosed(b)
  BY <1>0, UpsertedTypeLemma, ImportType, SweepCloses DEF ImportAll
<1>2. /\ in.groups[g] \in {"absent", "live"}
      /\ a.groups[g] \in Statuses
      /\ b.groups[g] \in Statuses
      /\ b.chats[g].status = "dead" => b.groups[g] # "live"
  BY <1>0, <1>1 DEF Snapshots, ArchiveType, FamilyClosed
<1>3. /\ U.groups[g] = UpsertChild(a.groups[g], one, b.chats[g].status = "live")
      /\ b.groups[g] = IF U.groups[g] = "live" /\ b.chats[g].status = "dead"
                       THEN "dead" ELSE U.groups[g]
  BY <1>0, UpsertedGroup, UpsertedChat, ImportedChats
     DEF ImportAll, TombstoneSubordinates, SweptGroups
<1>4. /\ Removed(b, in, u) = Removed(a, in, t)
      /\ Observed(b, in, u) = Observed(a, in, t)
  BY SameParents
<1>5. g \in Removed(a, in, t) => b.chats[g].status = "dead"
  BY <1>0, DeadGroupChat, DeadChatStays DEF Removed, Aliases, ImportAliases
<1>6. g \notin Observed(a, in, t) /\ a.chats[g].status = "dead" => b.chats[g].status = "dead"
  BY <1>0, DeadChatStays DEF Observed, LiveChats
<1>7. /\ one = IF /\ in.groups[g] = "live"
                  /\ \/ g \in Removed(a, in, t)
                     \/ g \notin Observed(a, in, t) /\ a.chats[g].status = "dead"
               THEN "dead" ELSE in.groups[g]
      /\ two = IF /\ in.groups[g] = "live"
                  /\ \/ g \in Removed(a, in, t)
                     \/ g \notin Observed(a, in, t) /\ b.chats[g].status = "dead"
               THEN "dead" ELSE in.groups[g]
  BY <1>4 DEF IncomingGroups, PreparedGroups
<1> HIDE DEF U, b, one, two
<1>8. in.groups[g] = "live" => b.groups[g] # "absent"
  BY <1>2, <1>3, <1>7 DEF UpsertChild, Statuses
<1>9. two = "dead" => b.groups[g] = "dead"
  BY <1>2, <1>5, <1>7, <1>8 DEF Statuses
<1>10. two = "live" /\ b.chats[g].status = "live" => b.groups[g] = "live"
  BY <1>2, <1>3, <1>5, <1>6, <1>7 DEF UpsertChild, Statuses
<1>11. two = "live" /\ b.groups[g] # "dead" => b.groups[g] = "live"
  BY <1>2, <1>7, <1>8 DEF Statuses
<1>12. UpsertChild(b.groups[g], two, b.chats[g].status = "live") = b.groups[g]
  BY <1>2, <1>7, <1>9, <1>10, <1>11 DEF UpsertChild, Statuses
<1>13. in.groups[g] = "live" /\ g \in Removed(a, in, t) => b.groups[g] = "dead"
  BY <1>2, <1>5, <1>8 DEF Statuses
<1> QED
  BY <1>8, <1>12, <1>13 DEF b, two

\* The incoming participants of an import, as Upserted names them.
Deleted(base, in, t) ==
    {g \in Groups : \/ in.groups[g] = "dead"
                    \/ in.groups[g] = "live" /\ g \in Removed(base, in, t)}

IncomingParts(base, in, t) ==
    PreparedParts(in, base, Deleted(base, in, t), IncomingGroups(base, in, t))

LEMMA UpsertedPart ==
    ASSUME NEW base, NEW in, NEW t, NEW p \in Parts
    PROVE  Upserted(base, in, t).parts[p] =
             UpsertChild(base.parts[p], IncomingParts(base, in, t)[p],
                         Upserted(base, in, t).groups[p[1]] = "live")
BY DEF Upserted, IncomingParts, IncomingGroups, Deleted, Removed, Observed, Aliases, Parts

\* What an import does to a group and its participants, sweep included.
LEMMA ImportedFamilies ==
    ASSUME NEW a, NEW in, NEW t
    PROVE  LET U == Upserted(a, in, t)
               b == ImportAll(a, in, t)
           IN  /\ \A g \in Groups : b.groups[g] = IF U.groups[g] = "live" /\ b.chats[g].status = "dead"
                                                  THEN "dead" ELSE U.groups[g]
               /\ \A p \in Parts : b.parts[p] = IF U.parts[p] = "live" /\ b.groups[p[1]] = "dead"
                                                THEN "dead" ELSE U.parts[p]
BY DEF ImportAll, TombstoneSubordinates, SweptGroups, SweptParts

LEMMA PartsAgain ==
    ASSUME NEW a \in ArchiveType, NEW t \in Nat, NEW in \in Snapshots(t),
           NEW u \in Nat, t =< u, NEW p \in Parts
    PROVE  LET b == ImportAll(a, in, t)
           IN  UpsertChild(b.parts[p], IncomingParts(b, in, u)[p],
                           b.groups[p[1]] = "live") = b.parts[p]
<1> DEFINE U == Upserted(a, in, t)
           b == ImportAll(a, in, t)
           g == p[1]
           one == IncomingParts(a, in, t)[p]
           two == IncomingParts(b, in, u)[p]
           shut == IncomingGroups(a, in, t)[g] # "live" /\ a.groups[g] = "dead"
           late == IncomingGroups(b, in, u)[g] # "live" /\ b.groups[g] = "dead"
<1>0. in \in InputType /\ g \in Groups
  BY SnapshotType DEF Parts
<1>1. /\ U \in ArchiveType
      /\ b \in ArchiveType
      /\ FamilyClosed(b)
  BY <1>0, UpsertedTypeLemma, ImportType, SweepCloses DEF ImportAll
<1>2. /\ in.parts[p] \in {"absent", "active", "inactive"}
      /\ U.groups[g] \in Statuses
      /\ a.parts[p] \in Statuses /\ b.parts[p] \in Statuses /\ U.parts[p] \in Statuses
      /\ b.groups[g] = "dead" => b.parts[p] # "live"
  BY <1>0, <1>1 DEF Snapshots, ArchiveType, FamilyClosed
<1>3. /\ U.parts[p] = UpsertChild(a.parts[p], one, U.groups[g] = "live")
      /\ b.parts[p] = IF U.parts[p] = "live" /\ b.groups[g] = "dead" THEN "dead" ELSE U.parts[p]
      /\ b.groups[g] = "live" => U.groups[g] = "live"
  BY <1>0, UpsertedPart, ImportedFamilies
<1>4. Deleted(b, in, u) = Deleted(a, in, t)
  BY SameParents DEF Deleted
<1>5. g \in Deleted(a, in, t) => b.groups[g] = "dead"
  <2>1. in.groups[g] # "dead"
    BY <1>0 DEF Snapshots
  <2>2. in.groups[g] = "live" /\ g \in Removed(a, in, t) => b.groups[g] = "dead"
    BY <1>0, GroupsAgain
  <2> QED
    BY <2>1, <2>2 DEF Deleted
<1>6. shut => U.groups[g] # "live"
  BY <1>0, UpsertedGroup DEF UpsertChild
<1>7. ASSUME NEW base, NEW time
      PROVE  LET new == IncomingParts(base, in, time)[p]
                 dying == \/ g \in Deleted(base, in, time)
                          \/ IncomingGroups(base, in, time)[g] # "live" /\ base.groups[g] = "dead"
             IN  /\ in.parts[p] = "absent" => new = "absent"
                 /\ in.parts[p] = "inactive" => new = "dead"
                 /\ in.parts[p] = "active" /\ dying => new = "dead"
                 /\ in.parts[p] = "active" /\ ~dying => new = "live"
  BY DEF IncomingParts, PreparedParts
<1>8. /\ in.parts[p] = "absent" => one = "absent" /\ two = "absent"
      /\ in.parts[p] = "inactive" => one = "dead" /\ two = "dead"
      /\ in.parts[p] = "active" => one \in {"live", "dead"} /\ two \in {"live", "dead"}
  BY <1>7
<1>9. in.parts[p] = "active" /\ two = "dead" => b.groups[g] = "dead"
  BY <1>4, <1>5, <1>7
<1>10. in.parts[p] = "active" /\ b.groups[g] = "live" => one = "live"
  BY <1>3, <1>5, <1>6, <1>7
<1> HIDE DEF U, b, g, one, two, shut
<1>11. two # "absent" => b.parts[p] # "absent"
  BY <1>2, <1>3, <1>8 DEF UpsertChild, Statuses
<1>12. two = "dead" => b.parts[p] = "dead"
  BY <1>2, <1>3, <1>8, <1>9, <1>11 DEF UpsertChild, Statuses
<1>13. two = "live" /\ b.groups[g] = "live" => b.parts[p] = "live"
  BY <1>2, <1>3, <1>8, <1>10 DEF UpsertChild, Statuses
<1>14. two = "live" /\ b.parts[p] # "dead" => b.parts[p] = "live"
  BY <1>2, <1>11 DEF Statuses
<1>15. UpsertChild(b.parts[p], two, b.groups[g] = "live") = b.parts[p]
  BY <1>2, <1>8, <1>12, <1>13, <1>14 DEF UpsertChild, Statuses
<1> QED
  BY <1>15 DEF b, g, two

LEMMA MessagesAgain ==
    ASSUME NEW a \in ArchiveType, NEW t \in Nat, NEW in \in Snapshots(t),
           NEW u \in Nat, t =< u, NEW m \in Msgs
    PROVE  LET b   == ImportAll(a, in, t)
               new == Incoming(b, in, u)[m]
           IN  /\ UpsertMsg(b.msgs[m], new) = b.msgs[m]
               /\ UpsertRevs(b.revs[m], b.msgs[m], new) = b.revs[m]
<1> DEFINE U   == Upserted(a, in, t)
           b   == ImportAll(a, in, t)
           new == Incoming(a, in, t)[m]
<1>0. in \in InputType
  BY SnapshotType
<1>1. /\ U \in ArchiveType
      /\ b \in ArchiveType
      /\ new \in [status : Statuses, text : Texts, null : BOOLEAN]
  BY <1>0, UpsertedTypeLemma, ImportType, IncomingType
<1>2. /\ a.msgs[m] \in MsgRows
      /\ U.msgs[m] \in MsgRows
      /\ b.msgs[m] \in MsgRows
  BY <1>1 DEF ArchiveType
<1>3. U.msgs[m] = UpsertMsg(a.msgs[m], new)
  BY UpsertedMessage
<1>4. Incoming(b, in, u)[m] = new
  BY SameIncoming
<1>5. /\ U.msgs[m].status # "live" => b.msgs[m] = U.msgs[m]
      /\ U.msgs[m].status = "live" => \/ b.msgs[m] = U.msgs[m]
                                      \/ b.msgs[m] = [U.msgs[m] EXCEPT !.status = "dead"]
  BY DEF ImportAll, TombstoneSubordinates, SweptMsgs, Swept
<1>6. [U.msgs[m] EXCEPT !.status = "dead"].status = "dead"
  BY <1>2 DEF MsgRows
<1> HIDE DEF U, b, new
<1>7. new.status # "absent" => b.msgs[m].status # "absent"
  <2>1. new.status # "absent" => U.msgs[m].status # "absent"
    BY <1>2, <1>3 DEF UpsertMsg, UpsertedMsg
  <2> QED
    BY <1>5, <1>6, <2>1
<1>8. new.status = "dead" => b.msgs[m].status = "dead"
  <2>1. new.status = "dead" => U.msgs[m].status = "dead"
    BY <1>1, <1>2, <1>3 DEF UpsertMsg, UpsertedMsg, MsgRows, Statuses
  <2> QED
    BY <1>5, <2>1
<1>9. new.status = "live" /\ b.msgs[m].status = "live"
         => b.msgs[m] = [status |-> "live", text |-> new.text, index |-> new.text]
  <2> SUFFICES ASSUME new.status = "live", b.msgs[m].status = "live"
               PROVE  b.msgs[m] = [status |-> "live", text |-> new.text, index |-> new.text]
    OBVIOUS
  <2>1. b.msgs[m] = U.msgs[m]
    BY <1>5, <1>6
  <2> QED
    BY <1>2, <1>3, <2>1 DEF UpsertMsg, UpsertedMsg, MsgRows, Statuses
<1>10. CASE new.status = "absent" \/ b.msgs[m].status = "dead"
  <2>1. UpsertMsg(b.msgs[m], new) = b.msgs[m]
    BY <1>7, <1>10 DEF UpsertMsg
  <2>2. UpsertRevs(b.revs[m], b.msgs[m], new) = b.revs[m]
    BY <1>10 DEF UpsertRevs
  <2> QED
    BY <1>4, <2>1, <2>2 DEF b
<1>11. CASE new.status = "live" /\ b.msgs[m].status = "live"
  <2>1. b.msgs[m].text = new.text /\ ~Withdrawn(b.msgs[m], new)
    BY <1>9, <1>11 DEF Withdrawn
  <2>2. UpsertedMsg(b.msgs[m], new) = b.msgs[m]
    BY <1>9, <1>11, <2>1 DEF UpsertedMsg
  <2>3. UpsertMsg(b.msgs[m], new) = b.msgs[m]
    BY <1>11, <2>2 DEF UpsertMsg
  <2>4. UpsertRevs(b.revs[m], b.msgs[m], new) = b.revs[m]
    BY <1>11, <2>1, <2>2 DEF UpsertRevs
  <2> QED
    BY <1>4, <2>3, <2>4 DEF b
<1> QED
  BY <1>1, <1>2, <1>7, <1>8, <1>10, <1>11 DEF MsgRows, Statuses

\* So a second import upserts nothing new, and finds nothing to sweep.
LEMMA ImportTwice ==
    ASSUME NEW a \in ArchiveType, NEW t \in Nat, NEW in \in Snapshots(t),
           NEW u \in Nat, t =< u
    PROVE  LET b == ImportAll(a, in, t) IN ImportAll(b, in, u) = b
<1> DEFINE b == ImportAll(a, in, t)
           V == Upserted(b, in, u)
<1>0. in \in InputType
  BY SnapshotType
<1>1. b \in ArchiveType /\ FamilyClosed(b)
  BY <1>0, UpsertedTypeLemma, ImportType, SweepCloses DEF ImportAll
<1>2. V \in ArchiveType
  BY <1>0, <1>1, UpsertedTypeLemma
<1>3. ASSUME NEW c \in Chats PROVE V.chats[c] = b.chats[c]
  BY ChatsAgain, UpsertedChat
<1>4. ASSUME NEW g \in Groups PROVE V.groups[g] = b.groups[g]
  <2>1. UpsertChat(b.chats[g], PreparedChats(in, u)[g]) = b.chats[g]
    BY ChatsAgain, LifecycleAssumption
  <2> QED
    BY <2>1, GroupsAgain, UpsertedGroup
<1>5. ASSUME NEW p \in Parts PROVE V.parts[p] = b.parts[p]
  <2>1. V.groups[p[1]] = b.groups[p[1]]
    BY <1>4 DEF Parts
  <2>2. V.parts[p] = UpsertChild(b.parts[p], IncomingParts(b, in, u)[p], V.groups[p[1]] = "live")
    BY UpsertedPart
  <2> HIDE DEF V, b
  <2> QED
    BY <2>1, <2>2, PartsAgain DEF b
<1>6. ASSUME NEW m \in Msgs PROVE V.msgs[m] = b.msgs[m] /\ V.revs[m] = b.revs[m]
  <2>1. V.msgs[m] = UpsertMsg(b.msgs[m], Incoming(b, in, u)[m])
    BY UpsertedMessage
  <2>2. V.revs[m] = UpsertRevs(b.revs[m], b.msgs[m], Incoming(b, in, u)[m]) \o in.revs[m]
    BY DEF Upserted, Incoming, Removed, Observed, Stored, Aliases
  <2>3. in.revs[m] = <<>> /\ b.revs[m] \in Seq(Texts)
    BY <1>1 DEF Snapshots, NoRevs, ArchiveType
  <2> HIDE DEF V, b
  <2> QED
    BY <2>1, <2>2, <2>3, MessagesAgain DEF b
<1>7. V.links = b.links
  BY ImportedChats DEF Upserted
<1> HIDE DEF V, b
<1>8. V = b
  <2>1. /\ V.chats = b.chats /\ V.groups = b.groups /\ V.parts = b.parts
        /\ V.msgs = b.msgs /\ V.revs = b.revs
    BY <1>1, <1>2, <1>3, <1>4, <1>5, <1>6 DEF ArchiveType
  <2>2. ASSUME NEW x \in ArchiveType
        PROVE  x = [chats |-> x.chats, groups |-> x.groups, parts |-> x.parts,
                     msgs |-> x.msgs, revs |-> x.revs, links |-> x.links]
    BY DEF ArchiveType
  <2> QED
    BY <1>1, <1>2, <1>7, <2>1, <2>2
<1>9. TombstoneSubordinates(b) = b
  BY <1>1, ClosedIsSwept
<1> QED
  BY <1>8, <1>9 DEF ImportAll, V, b

\* In every reachable state, whatever snapshot comes, importing it once more,
\* now or later, changes no row and no revision.
THEOREM ImportsAreIdempotent == Spec => []ImportIsIdempotent
<1>1. TypeOK => ImportIsIdempotent
  <2> SUFFICES ASSUME TypeOK, NEW in \in Snapshots(now), NEW t \in now..MaxTime
               PROVE  ImportAll(ImportAll(archive, in, now), in, t)
                         = ImportAll(archive, in, now)
    BY DEF ImportIsIdempotent
  <2>1. archive \in ArchiveType /\ now \in Nat /\ t \in Nat /\ now =< t
    BY LifecycleAssumption DEF TypeOK
  <2> QED
    BY <2>1, ImportTwice
<1> QED
  BY <1>1, TypeCorrect, PTL

-----------------------------------------------------------------------------
(* A restored archive keeps up with the one it was made from.              *)

\* Archives that differ in the index of their messages at most.
SameButIndex(a, b) ==
    /\ a.chats = b.chats /\ a.groups = b.groups /\ a.parts = b.parts
    /\ a.revs = b.revs /\ a.links = b.links
    /\ \A m \in Msgs : /\ a.msgs[m].status = b.msgs[m].status
                      /\ a.msgs[m].text = b.msgs[m].text

\* They are the same without it,
LEMMA SameWithoutIndex ==
    ASSUME NEW a \in ArchiveType, NEW b \in ArchiveType, SameButIndex(a, b)
    PROVE  WithoutIndex(a) = WithoutIndex(b)
<1> DEFINE plain(r) == [r EXCEPT !.index = r.text]
<1>1. ASSUME NEW m \in Msgs PROVE plain(a.msgs[m]) = plain(b.msgs[m])
  <2>1. /\ a.msgs[m] \in [status : Statuses, text : Texts, index : Texts]
        /\ b.msgs[m] \in [status : Statuses, text : Texts, index : Texts]
        /\ a.msgs[m].status = b.msgs[m].status
        /\ a.msgs[m].text = b.msgs[m].text
    BY DEF ArchiveType, MsgRows, SameButIndex
  <2> QED
    BY <2>1
<1>2. [m \in Msgs |-> plain(a.msgs[m])] = [m \in Msgs |-> plain(b.msgs[m])]
  BY <1>1
<1> DEFINE without(x, rows) ==
             [chats |-> x.chats, groups |-> x.groups, parts |-> x.parts,
              msgs |-> rows, revs |-> x.revs, links |-> x.links]
<1>3. /\ WithoutIndex(a) = without(a, [m \in Msgs |-> plain(a.msgs[m])])
      /\ WithoutIndex(b) = without(b, [m \in Msgs |-> plain(b.msgs[m])])
  BY WithoutIndexRows
<1> HIDE DEF plain
<1>4. \A rows : without(a, rows) = without(b, rows)
  BY DEF SameButIndex
<1> QED
  BY <1>2, <1>3, <1>4

\* and leaving it out changes nothing else.
LEMMA WithoutIndexIsSame ==
    ASSUME NEW a \in ArchiveType
    PROVE  SameButIndex(WithoutIndex(a), a)
<1> DEFINE rows == [m \in Msgs |-> [a.msgs[m] EXCEPT !.index = a.msgs[m].text]]
<1>1. ASSUME NEW m \in Msgs
      PROVE  rows[m].status = a.msgs[m].status /\ rows[m].text = a.msgs[m].text
  BY DEF ArchiveType, MsgRows
<1>2. WithoutIndex(a) = [chats |-> a.chats, groups |-> a.groups, parts |-> a.parts,
                         msgs |-> rows, revs |-> a.revs, links |-> a.links]
  BY WithoutIndexRows
<1> HIDE DEF rows
<1> QED
  BY <1>1, <1>2 DEF SameButIndex

\* No upsert reads the index to decide a status, a text or a revision.
LEMMA UpsertsIgnoreIndex ==
    ASSUME NEW r \in MsgRows, NEW q \in MsgRows,
           r.status = q.status, r.text = q.text,
           NEW new \in [status : Statuses, text : Texts, null : BOOLEAN], NEW revs
    PROVE  /\ UpsertMsg(r, new).status = UpsertMsg(q, new).status
           /\ UpsertMsg(r, new).text = UpsertMsg(q, new).text
           /\ UpsertRevs(revs, r, new) = UpsertRevs(revs, q, new)
<1>1. Withdrawn(r, new) <=> Withdrawn(q, new)
  BY DEF Withdrawn
<1>2. /\ UpsertedMsg(r, new).status = UpsertedMsg(q, new).status
      /\ UpsertedMsg(r, new).text = UpsertedMsg(q, new).text
  BY <1>1 DEF UpsertedMsg
<1>3. UpsertRevs(revs, r, new) = UpsertRevs(revs, q, new)
  BY <1>2 DEF UpsertRevs
<1>4. CASE new.status = "absent"
  BY <1>3, <1>4 DEF UpsertMsg
<1>5. CASE new.status # "absent" /\ r.status = "absent"
  BY <1>3, <1>5 DEF UpsertMsg
<1>6. CASE new.status # "absent" /\ r.status = "dead"
  BY <1>3, <1>6 DEF UpsertMsg
<1>7. CASE new.status # "absent" /\ r.status = "live"
  <2>1. UpsertMsg(r, new) = UpsertedMsg(r, new) /\ UpsertMsg(q, new) = UpsertedMsg(q, new)
    BY <1>7 DEF UpsertMsg
  <2> QED
    BY <1>2, <1>3, <2>1
<1> QED
  BY <1>4, <1>5, <1>6, <1>7 DEF MsgRows, Statuses

\* So archives that differ in the index at most still do after the upserts,
LEMMA UpsertedSame ==
    ASSUME NEW a \in ArchiveType, NEW b \in ArchiveType, SameButIndex(a, b),
           NEW in \in InputType, NEW t \in Nat
    PROVE  SameButIndex(Upserted(a, in, t), Upserted(b, in, t))
<1> DEFINE U == Upserted(a, in, t)
           V == Upserted(b, in, t)
<1>1. /\ a.chats = b.chats /\ a.groups = b.groups /\ a.parts = b.parts
      /\ a.revs = b.revs /\ a.links = b.links
  BY DEF SameButIndex
<1>2. Aliases(a, in) = Aliases(b, in)
  BY <1>1 DEF Aliases
<1>3. /\ Removed(a, in, t) = Removed(b, in, t)
      /\ Observed(a, in, t) = Observed(b, in, t)
      /\ Stored(a, in) = Stored(b, in)
  BY <1>1, <1>2 DEF Removed, Observed, Stored
<1>4. Incoming(a, in, t) = Incoming(b, in, t)
  BY <1>3 DEF Incoming
<1>5. U.chats = V.chats /\ U.links = V.links
  BY <1>1 DEF Upserted
<1>6. IncomingGroups(a, in, t) = IncomingGroups(b, in, t)
  BY <1>1, <1>3 DEF IncomingGroups, PreparedGroups
<1>7. U.groups = V.groups
  BY <1>1, <1>6 DEF Upserted, IncomingGroups, Removed, Observed, Aliases
<1>8. IncomingParts(a, in, t) = IncomingParts(b, in, t)
  BY <1>1, <1>3, <1>6 DEF IncomingParts, PreparedParts
<1>9. ASSUME NEW p \in Parts PROVE U.parts[p] = V.parts[p]
  BY <1>1, <1>7, <1>8, UpsertedPart
<1>10. /\ U \in ArchiveType /\ V \in ArchiveType
  BY UpsertedTypeLemma
<1>11. ASSUME NEW m \in Msgs
       PROVE  /\ U.msgs[m].status = V.msgs[m].status
              /\ U.msgs[m].text = V.msgs[m].text
              /\ U.revs[m] = V.revs[m]
  <2>1. /\ U.msgs[m] = UpsertMsg(a.msgs[m], Incoming(a, in, t)[m])
        /\ V.msgs[m] = UpsertMsg(b.msgs[m], Incoming(a, in, t)[m])
    BY <1>4, UpsertedMessage
  <2>2. /\ U.revs[m] = UpsertRevs(a.revs[m], a.msgs[m], Incoming(a, in, t)[m]) \o in.revs[m]
        /\ V.revs[m] = UpsertRevs(b.revs[m], b.msgs[m], Incoming(b, in, t)[m]) \o in.revs[m]
    BY DEF Upserted, Incoming, Removed, Observed, Stored, Aliases
  <2>3. /\ a.msgs[m] \in MsgRows /\ b.msgs[m] \in MsgRows
        /\ a.msgs[m].status = b.msgs[m].status
        /\ a.msgs[m].text = b.msgs[m].text
    BY DEF ArchiveType, SameButIndex
  <2>4. Incoming(a, in, t)[m] \in [status : Statuses, text : Texts, null : BOOLEAN]
    BY IncomingType
  <2> HIDE DEF U, V
  <2> DEFINE new == Incoming(a, in, t)[m]
  <2> HIDE DEF new
  <2>5. new \in [status : Statuses, text : Texts, null : BOOLEAN]
    BY <2>4 DEF new
  <2>6. /\ UpsertMsg(a.msgs[m], new).status = UpsertMsg(b.msgs[m], new).status
        /\ UpsertMsg(a.msgs[m], new).text = UpsertMsg(b.msgs[m], new).text
        /\ UpsertRevs(a.revs[m], a.msgs[m], new) = UpsertRevs(a.revs[m], b.msgs[m], new)
    BY <2>3, <2>5, UpsertsIgnoreIndex
  <2> QED
    BY <1>1, <1>4, <2>1, <2>2, <2>6 DEF new
<1> HIDE DEF U, V
<1>12. U.parts = V.parts /\ U.revs = V.revs
  BY <1>9, <1>10, <1>11 DEF ArchiveType
<1>13. SameButIndex(U, V)
  BY <1>5, <1>7, <1>11, <1>12 DEF SameButIndex
<1> QED
  BY <1>13 DEF U, V

\* and after the sweep, hence after an import.
LEMMA SweptSame ==
    ASSUME NEW a \in ArchiveType, NEW b \in ArchiveType, SameButIndex(a, b)
    PROVE  SameButIndex(TombstoneSubordinates(a), TombstoneSubordinates(b))
<1>1. /\ a.chats = b.chats /\ a.groups = b.groups /\ a.parts = b.parts
      /\ a.revs = b.revs /\ a.links = b.links
  BY DEF SameButIndex
<1>2. SweptGroups(a) = SweptGroups(b)
  BY <1>1 DEF SweptGroups
<1>3. SweptParts(a) = SweptParts(b)
  BY <1>1, <1>2 DEF SweptParts
<1>4. ASSUME NEW m \in Msgs PROVE Swept(a, m) <=> Swept(b, m)
  BY <1>1 DEF Swept, SweepParents, SameButIndex
<1>5. ASSUME NEW m \in Msgs
      PROVE  /\ SweptMsgs(a)[m].status = SweptMsgs(b)[m].status
             /\ SweptMsgs(a)[m].text = SweptMsgs(b)[m].text
  <2>1. /\ a.msgs[m] \in [status : Statuses, text : Texts, index : Texts]
        /\ b.msgs[m] \in [status : Statuses, text : Texts, index : Texts]
        /\ a.msgs[m].status = b.msgs[m].status
        /\ a.msgs[m].text = b.msgs[m].text
    BY DEF ArchiveType, MsgRows, SameButIndex
  <2> QED
    BY <1>4, <2>1 DEF SweptMsgs
<1>6. \A m \in Msgs : a.msgs[m].text = b.msgs[m].text
  BY DEF SameButIndex
<1>7. SweptRevs(a) = SweptRevs(b)
  BY <1>1, <1>4, <1>6 DEF SweptRevs
<1> QED
  BY <1>1, <1>2, <1>3, <1>5, <1>7 DEF TombstoneSubordinates, SameButIndex

LEMMA ImportedSame ==
    ASSUME NEW a \in ArchiveType, NEW b \in ArchiveType, SameButIndex(a, b),
           NEW in \in InputType, NEW t \in Nat
    PROVE  WithoutIndex(ImportAll(a, in, t)) = WithoutIndex(ImportAll(b, in, t))
BY UpsertedSame, UpsertedTypeLemma, SweptSame, SweptType, SameWithoutIndex DEF ImportAll

\* A restore is not a fork: the archive that is restored from a backup and
\* the archive the backup was made from import whatever snapshot comes next,
\* now or later, to the same rows and revisions.  Nothing a backup leaves out
\* is read by a later import (store/export.go, store/import.go).
RestoredKeepsUp ==
    \A in \in Snapshots(now), t \in now..MaxTime :
        LET restored == ImportAll(EmptyArchive, Export(archive), t)
        IN  WithoutIndex(ImportAll(restored, in, t))
              = WithoutIndex(ImportAll(archive, in, t))

\* It holds in every reachable state.
THEOREM RestoresKeepUp == Spec => []RestoredKeepsUp
<1>1. TypeOK /\ NoOrphans => RestoredKeepsUp
  <2> SUFFICES ASSUME TypeOK, NoOrphans, NEW in \in Snapshots(now), NEW t \in now..MaxTime
               PROVE  WithoutIndex(ImportAll(ImportAll(EmptyArchive, Export(archive), t), in, t))
                        = WithoutIndex(ImportAll(archive, in, t))
    BY DEF RestoredKeepsUp
  <2>1. archive \in ArchiveType /\ FamilyClosed(archive) /\ now \in Nat /\ t \in Nat
    BY LifecycleAssumption DEF TypeOK, NoOrphans
  <2>2. ImportAll(EmptyArchive, Export(archive), t) = WithoutIndex(archive)
    BY <2>1, RestoreReproduces
  <2>3. WithoutIndex(archive) \in ArchiveType /\ SameButIndex(WithoutIndex(archive), archive)
    BY <2>1, WithoutIndexCloses, WithoutIndexIsSame
  <2>4. in \in InputType
    BY <2>1, SnapshotType
  <2> QED
    BY <2>1, <2>2, <2>3, <2>4, ImportedSame
<1> QED
  BY <1>1, TypeCorrect, FamiliesAreClosed, PTL
=============================================================================
