----------------------- MODULE ArchiveLifecycleProofs -----------------------
(* Proofs about ArchiveLifecycle, for every set of chats, members, events, *)
(* links and payloads and every bound.                                     *)
EXTENDS ArchiveLifecycle, TLAPS

-----------------------------------------------------------------------------
(* Types.                                                                  *)

\* What an import may be given: rows of a Desktop snapshot or of a backup.
InputType ==
    [chats  : [Chats -> {r \in [status : Statuses \cup {"removed"}, at : Nat] :
                            r.status = "absent" => r.at = 0}],
     groups : [Groups -> Statuses],
     parts  : [Parts -> {"absent", "active", "inactive", "dead"}],
     msgs   : [Msgs -> [status : Statuses, text : Texts, null : BOOLEAN]],
     revs   : [Msgs -> Seq(Texts)],
     links  : SUBSET Links]

\* A Desktop snapshot is an input.
LEMMA SnapshotType ==
    ASSUME NEW t \in Nat, NEW in \in Snapshots(t)
    PROVE  in \in InputType
<1> DEFINE NativeChats == [status : {"live"}, at : 0..t] \cup
                          {[status |-> s, at |-> 0] : s \in {"absent", "removed"}}
           InputChats  == {r \in [status : Statuses \cup {"removed"}, at : Nat] :
                              r.status = "absent" => r.at = 0}
           NativeMsgs  == [status : {"live"}, text : Payloads, null : {FALSE}] \cup
                          [status : {"live"}, text : {Empty}, null : BOOLEAN] \cup
                          [status : {"absent"}, text : {Empty}, null : {FALSE}]
           InputMsgs   == [status : Statuses, text : Texts, null : BOOLEAN]
<1>1. NativeChats \subseteq InputChats
  <2>1. ASSUME NEW r \in [status : {"live"}, at : 0..t] PROVE r \in InputChats
    BY <2>1 DEF Statuses
  <2>2. ASSUME NEW s \in {"absent", "removed"}
        PROVE  [status |-> s, at |-> 0] \in InputChats
    BY <2>2 DEF Statuses
  <2> QED
    BY <2>1, <2>2
<1>2. NativeMsgs \subseteq InputMsgs
  BY DEF Statuses, Texts
<1>3. NoRevs \in [Msgs -> Seq(Texts)]
  BY DEF NoRevs
<1> HIDE DEF InputChats, InputMsgs
<1>4. /\ in.chats \in [Chats -> NativeChats]
      /\ in.msgs \in [Msgs -> NativeMsgs]
  BY DEF Snapshots
<1> HIDE DEF NativeChats, NativeMsgs
<1>5. /\ in.chats \in [Chats -> InputChats]
      /\ in.msgs \in [Msgs -> InputMsgs]
  BY <1>1, <1>2, <1>4
<1>6. in \in [chats  : [Chats -> InputChats],
             groups : [Groups -> Statuses],
             parts  : [Parts -> {"absent", "active", "inactive", "dead"}],
             msgs   : [Msgs -> InputMsgs],
             revs   : [Msgs -> Seq(Texts)],
             links  : SUBSET Links]
  BY <1>3, <1>5 DEF Snapshots, Statuses
<1> QED
  BY <1>6 DEF InputType, InputChats, InputMsgs

\* So is a backup.
LEMMA BackupIsInput ==
    ASSUME NEW in \in BackupType
    PROVE  in \in InputType
BY DEF BackupType, InputType, ChatRows, Statuses

\* The archive starts out as no rows at all, which is well typed.
LEMMA EmptyType == EmptyArchive \in ArchiveType
BY DEF EmptyArchive, ArchiveType, ChatRows, MsgRows, Statuses, Texts, NoMsg, NoRevs

\* A backup of a well-typed archive is well typed.
LEMMA ExportType ==
    ASSUME NEW a \in ArchiveType
    PROVE  Export(a) \in BackupType
BY DEF ArchiveType, BackupType, Export, ChatRows, MsgRows, Statuses

\* Preparing the messages of an input keeps them well typed.
LEMMA PreparedMsgsType ==
    ASSUME NEW in \in InputType, NEW removed, NEW observed, NEW stored
    PROVE  PreparedMsgs(in, removed, observed, stored)
               \in [Msgs -> [status : Statuses, text : Texts, null : BOOLEAN]]
<1>1. in.msgs \in [Msgs -> [status : Statuses, text : Texts, null : BOOLEAN]]
  BY DEF InputType, Statuses
<1>2. ASSUME NEW m \in Msgs
      PROVE  [in.msgs[m] EXCEPT !.status = "dead"]
                 \in [status : Statuses, text : Texts, null : BOOLEAN]
  BY <1>1 DEF Statuses
<1> QED
  BY <1>1, <1>2 DEF PreparedMsgs

\* Preparing and upserting the rows of an input keeps the archive well typed.
LEMMA UpsertedTypeLemma ==
    ASSUME NEW base \in ArchiveType, NEW in \in InputType, NEW t \in Nat
    PROVE  Upserted(base, in, t) \in ArchiveType
<1> DEFINE al       == ImportAliases(base.links, in.links)
           chatsIn  == PreparedChats(in, t)
           removed  == DeadParents(chatsIn, al)
           observed == LiveChats(chatsIn, al)
           groupsIn == PreparedGroups(in, base, removed, observed)
           deleted  == {g \in Groups : \/ in.groups[g] = "dead"
                                       \/ in.groups[g] = "live" /\ g \in removed}
           partsIn  == PreparedParts(in, base, deleted, groupsIn)
           msgsIn   == PreparedMsgs(in, removed, observed, DeadParents(base.chats, al))
           chats    == [c \in Chats |-> UpsertChat(base.chats[c], chatsIn[c])]
           groups   == [g \in Groups |-> UpsertChild(base.groups[g], groupsIn[g],
                                                     chats[g].status = "live")]
           parts    == [p \in Parts |-> UpsertChild(base.parts[p], partsIn[p],
                                                    groups[p[1]] = "live")]
           msgs     == [m \in Msgs |-> UpsertMsg(base.msgs[m], msgsIn[m])]
           revs     == [m \in Msgs |-> UpsertRevs(base.revs[m], base.msgs[m], msgsIn[m])
                                       \o in.revs[m]]
<1>1. chatsIn \in [Chats -> ChatRows]
  BY DEF PreparedChats, InputType, ChatRows, Statuses
<1>2. groupsIn \in [Groups -> Statuses]
  BY DEF PreparedGroups, InputType, Statuses
<1>3. partsIn \in [Parts -> Statuses]
  BY DEF PreparedParts, InputType, Statuses
<1>4. msgsIn \in [Msgs -> [status : Statuses, text : Texts, null : BOOLEAN]]
  BY PreparedMsgsType
<1> HIDE DEF chatsIn, groupsIn, partsIn, msgsIn
<1>5. chats \in [Chats -> ChatRows]
  BY <1>1 DEF UpsertChat, ArchiveType
<1>6. groups \in [Groups -> Statuses]
  BY <1>2 DEF UpsertChild, ArchiveType
<1>7. parts \in [Parts -> Statuses]
  BY <1>3 DEF UpsertChild, ArchiveType
<1>8. ASSUME NEW m \in Msgs
      PROVE  UpsertMsg(base.msgs[m], msgsIn[m]) \in MsgRows
  <2>1. base.msgs[m] \in MsgRows /\ msgsIn[m] \in [status : Statuses, text : Texts, null : BOOLEAN]
    BY <1>4 DEF ArchiveType
  <2>2. QED
    BY <2>1 DEF UpsertMsg, UpsertedMsg, Withdrawn, MsgRows, Statuses, Texts, NoMsg
<1>9. ASSUME NEW m \in Msgs
      PROVE  UpsertRevs(base.revs[m], base.msgs[m], msgsIn[m]) \o in.revs[m] \in Seq(Texts)
  <2>1. /\ base.revs[m] \in Seq(Texts)
        /\ in.revs[m] \in Seq(Texts)
        /\ base.msgs[m].text \in Texts
    BY DEF ArchiveType, InputType, MsgRows
  <2>2. QED
    BY <2>1 DEF UpsertRevs
<1>10. base.links \cup in.links \in SUBSET Links
  BY DEF ArchiveType, InputType
<1>11. /\ msgs \in [Msgs -> MsgRows]
       /\ revs \in [Msgs -> Seq(Texts)]
  BY <1>8, <1>9
<1>12. Upserted(base, in, t) =
         [chats |-> chats, groups |-> groups, parts |-> parts, msgs |-> msgs,
          revs |-> revs, links |-> base.links \cup in.links]
  BY DEF Upserted, chatsIn, groupsIn, partsIn, msgsIn
<1> HIDE DEF chats, groups, parts, msgs, revs
<1> QED
  BY <1>5, <1>6, <1>7, <1>10, <1>11, <1>12 DEF ArchiveType

\* The sweep of subordinates keeps it well typed.
LEMMA SweptType ==
    ASSUME NEW a \in ArchiveType
    PROVE  TombstoneSubordinates(a) \in ArchiveType
<1>1. SweptGroups(a) \in [Groups -> Statuses]
  BY DEF SweptGroups, ArchiveType, Statuses
<1>2. SweptParts(a) \in [Parts -> Statuses]
  BY DEF SweptParts, ArchiveType, Statuses
<1>3. SweptMsgs(a) \in [Msgs -> MsgRows]
  BY DEF SweptMsgs, Swept, ArchiveType, MsgRows, Statuses, NoMsg
<1>4. SweptRevs(a) \in [Msgs -> Seq(Texts)]
  BY DEF SweptRevs, ArchiveType, MsgRows
<1> QED
  BY <1>1, <1>2, <1>3, <1>4 DEF TombstoneSubordinates, ArchiveType

\* Hence so does an import.
LEMMA ImportType ==
    ASSUME NEW base \in ArchiveType, NEW in \in InputType, NEW t \in Nat
    PROVE  ImportAll(base, in, t) \in ArchiveType
BY UpsertedTypeLemma, SweptType DEF ImportAll

\* The rows of the archive and of the backup stay well typed.
THEOREM TypeCorrect == Spec => []TypeOK
<1>1. Init => TypeOK
  BY EmptyType, ExportType, LifecycleAssumption DEF Init, TypeOK
<1>2. TypeOK /\ [Next]_vars => TypeOK'
  <2> SUFFICES ASSUME TypeOK, [Next]_vars PROVE TypeOK'
    OBVIOUS
  <2>0. now \in Nat /\ archive \in ArchiveType /\ backup \in BackupType /\ restores \in Nat
    BY DEF TypeOK
  <2>1. ASSUME NEW in \in Snapshots(now), Merge(in) PROVE TypeOK'
    <3>1. archive' \in ArchiveType
      BY <2>0, <2>1, SnapshotType, ImportType DEF Merge
    <3> QED
      BY <3>1, <2>1 DEF Merge, TypeOK
  <2>2. ASSUME NEW in \in Snapshots(now), ReplaceAll(in) PROVE TypeOK'
    <3>1. archive' \in ArchiveType
      BY <2>0, <2>2, SnapshotType, EmptyType, ImportType DEF ReplaceAll
    <3> QED
      BY <3>1, <2>2 DEF ReplaceAll, TypeOK
  <2>3. CASE ExportAll
    <3>1. backup' \in BackupType
      BY <2>0, <2>3, ExportType DEF ExportAll
    <3> QED
      BY <3>1, <2>3 DEF ExportAll, TypeOK
  <2>4. CASE ImportSnapshot
    <3>1. archive' \in ArchiveType
      BY <2>0, <2>4, BackupIsInput, EmptyType, ImportType DEF ImportSnapshot
    <3> QED
      BY <3>1, <2>4 DEF ImportSnapshot, TypeOK
  <2>5. CASE Tick
    BY <2>5, LifecycleAssumption DEF Tick, TypeOK
  <2>6. CASE UNCHANGED vars
    BY <2>6 DEF vars, TypeOK
  <2> QED
    BY <2>1, <2>2, <2>3, <2>4, <2>5, <2>6 DEF Next
<1> QED
  BY <1>1, <1>2, PTL DEF Spec

-----------------------------------------------------------------------------
(* Parents and children.                                                   *)

\* Whatever the upserts left, the sweep closes every family.
LEMMA SweepCloses ==
    ASSUME NEW a \in ArchiveType
    PROVE  FamilyClosed(TombstoneSubordinates(a))
<1> DEFINE b == TombstoneSubordinates(a)
<1>1. ASSUME NEW g \in Groups, b.chats[g].status = "dead"
      PROVE  b.groups[g] # "live"
  BY <1>1 DEF TombstoneSubordinates, SweptGroups
<1>2. ASSUME NEW p \in Parts, b.groups[p[1]] = "dead"
      PROVE  b.parts[p] # "live"
  BY <1>2 DEF TombstoneSubordinates, SweptParts
<1>3. ASSUME NEW m \in Msgs, ChatOf[m] \in DeadParents(b.chats, AliasPairs(b.links))
      PROVE  b.msgs[m].status # "live"
  <2>1. ChatOf[m] \in SweepParents(a)
    BY <1>3 DEF SweepParents, TombstoneSubordinates
  <2>2. CASE a.msgs[m].status = "live"
    <3>1. b.msgs[m] = [a.msgs[m] EXCEPT !.status = "dead"]
      BY <2>1, <2>2 DEF TombstoneSubordinates, SweptMsgs, Swept
    <3> QED
      BY <3>1 DEF ArchiveType, MsgRows
  <2>3. CASE a.msgs[m].status # "live"
    BY <2>3 DEF TombstoneSubordinates, SweptMsgs, Swept
  <2> QED
    BY <2>2, <2>3
<1> QED
  BY <1>1, <1>2, <1>3 DEF FamilyClosed

\* An archive without rows has no families.
LEMMA EmptyCloses == FamilyClosed(EmptyArchive)
BY LifecycleAssumption DEF FamilyClosed, EmptyArchive, NoMsg

\* No reachable archive has a live row under a dead parent: every import, of
\* any rows, parents and links, ends closed, and nothing else writes rows.
THEOREM FamiliesAreClosed == Spec => []NoOrphans
<1>1. Init => NoOrphans
  BY EmptyCloses DEF Init, NoOrphans
<1>2. TypeOK /\ NoOrphans /\ [Next]_vars => NoOrphans'
  <2> SUFFICES ASSUME TypeOK, NoOrphans, [Next]_vars PROVE NoOrphans'
    OBVIOUS
  <2>0. now \in Nat /\ archive \in ArchiveType /\ backup \in BackupType
    BY DEF TypeOK
  <2>1. ASSUME NEW base \in ArchiveType, NEW in \in InputType,
               archive' = ImportAll(base, in, now)
        PROVE  NoOrphans'
    <3>1. FamilyClosed(ImportAll(base, in, now))
      BY <2>0, UpsertedTypeLemma, SweepCloses DEF ImportAll
    <3> QED
      BY <2>1, <3>1 DEF NoOrphans
  <2>2. ASSUME NEW in \in Snapshots(now), Merge(in) PROVE NoOrphans'
    BY <2>0, <2>1, <2>2, SnapshotType DEF Merge
  <2>3. ASSUME NEW in \in Snapshots(now), ReplaceAll(in) PROVE NoOrphans'
    BY <2>0, <2>1, <2>3, SnapshotType, EmptyType DEF ReplaceAll
  <2>4. CASE ImportSnapshot
    BY <2>0, <2>1, <2>4, BackupIsInput, EmptyType DEF ImportSnapshot
  <2>5. CASE ExportAll \/ Tick \/ UNCHANGED vars
    BY <2>5 DEF ExportAll, Tick, vars, NoOrphans
  <2> QED
    BY <2>2, <2>3, <2>4, <2>5 DEF Next
<1> QED
  BY <1>1, <1>2, TypeCorrect, PTL DEF Spec

-----------------------------------------------------------------------------
(* Exact restore.                                                          *)

\* A group's JID has no alias.
LEMMA GroupsHaveNoAlias ==
    ASSUME NEW E, NEW g \in Groups, NEW c
    PROVE  <<c, g>> \notin AliasPairs(E)
BY LifecycleAssumption DEF AliasPairs, Identifiers

\* So it is under a dead parent only if its own chat is tombstoned.
LEMMA DeadGroupChat ==
    ASSUME NEW rows, NEW E, NEW g \in Groups, NEW al, al \subseteq AliasPairs(E),
           g \in DeadParents(rows, al)
    PROVE  rows[g].status = "dead"
BY GroupsHaveNoAlias DEF DeadParents

\* The aliases of an exact restore are those of the retained evidence.
LEMMA RestoreAliases ==
    ASSUME NEW E
    PROVE  ImportAliases({}, E) = AliasPairs(E)
<1>1. {} \cup E = E
  OBVIOUS
<1> QED
  BY <1>1 DEF ImportAliases

\* Leaving the index out changes the messages only.
LEMMA WithoutIndexRows ==
    ASSUME NEW a \in ArchiveType
    PROVE  WithoutIndex(a) =
             [chats |-> a.chats, groups |-> a.groups, parts |-> a.parts,
              msgs |-> [m \in Msgs |-> [a.msgs[m] EXCEPT !.index = a.msgs[m].text]],
              revs |-> a.revs, links |-> a.links]
<1> DEFINE rows == [m \in Msgs |-> [a.msgs[m] EXCEPT !.index = a.msgs[m].text]]
<1>1. WithoutIndex(a) = [a EXCEPT !.msgs = rows]
  BY DEF WithoutIndex
<1> HIDE DEF rows
<1>2. [a EXCEPT !.msgs = rows] =
        [chats |-> a.chats, groups |-> a.groups, parts |-> a.parts,
         msgs |-> rows, revs |-> a.revs, links |-> a.links]
  BY DEF ArchiveType
<1> QED
  BY <1>1, <1>2 DEF rows

\* What is left is well typed, and closed if the archive is.
LEMMA WithoutIndexCloses ==
    ASSUME NEW a \in ArchiveType, FamilyClosed(a)
    PROVE  WithoutIndex(a) \in ArchiveType /\ FamilyClosed(WithoutIndex(a))
<1> DEFINE rows == [m \in Msgs |-> [a.msgs[m] EXCEPT !.index = a.msgs[m].text]]
           b    == WithoutIndex(a)
<1>1. ASSUME NEW m \in Msgs
      PROVE  rows[m] \in MsgRows /\ rows[m].status = a.msgs[m].status
  BY DEF ArchiveType, MsgRows, NoMsg
<1>2. rows \in [Msgs -> MsgRows]
  BY <1>1
<1>3. b = [chats |-> a.chats, groups |-> a.groups, parts |-> a.parts,
           msgs |-> rows, revs |-> a.revs, links |-> a.links]
  BY WithoutIndexRows
<1> HIDE DEF rows, b
<1>4. b \in ArchiveType
  BY <1>2, <1>3 DEF ArchiveType
<1>5. FamilyClosed(b)
  <2>1. /\ b.chats = a.chats /\ b.groups = a.groups /\ b.parts = a.parts
        /\ b.links = a.links /\ b.msgs = rows
    BY <1>3
  <2> QED
    BY <1>1, <2>1 DEF FamilyClosed
<1> QED
  BY <1>4, <1>5 DEF b

\* The rows of a closed archive go through preparation and upsert unchanged.
LEMMA RestoreUpserts ==
    ASSUME NEW a \in ArchiveType, FamilyClosed(a), NEW t \in Nat
    PROVE  Upserted(EmptyArchive, Export(a), t) = WithoutIndex(a)
<1> DEFINE base     == EmptyArchive
           in       == Export(a)
           al       == ImportAliases(base.links, in.links)
           chatsIn  == PreparedChats(in, t)
           removed  == DeadParents(chatsIn, al)
           observed == LiveChats(chatsIn, al)
           groupsIn == PreparedGroups(in, base, removed, observed)
           deleted  == {g \in Groups : \/ in.groups[g] = "dead"
                                       \/ in.groups[g] = "live" /\ g \in removed}
           partsIn  == PreparedParts(in, base, deleted, groupsIn)
           msgsIn   == PreparedMsgs(in, removed, observed, DeadParents(base.chats, al))
           chats    == [c \in Chats |-> UpsertChat(base.chats[c], chatsIn[c])]
           groups   == [g \in Groups |-> UpsertChild(base.groups[g], groupsIn[g],
                                                     chats[g].status = "live")]
           parts    == [p \in Parts |-> UpsertChild(base.parts[p], partsIn[p],
                                                    groups[p[1]] = "live")]
           msgs     == [m \in Msgs |-> UpsertMsg(base.msgs[m], msgsIn[m])]
           revs     == [m \in Msgs |-> UpsertRevs(base.revs[m], base.msgs[m], msgsIn[m])
                                       \o in.revs[m]]
<1>1. al = AliasPairs(a.links)
  BY RestoreAliases DEF EmptyArchive, Export
<1>2. chatsIn = a.chats
  BY DEF PreparedChats, Export, ArchiveType, ChatRows, Statuses
<1>3. removed = DeadParents(a.chats, AliasPairs(a.links))
  BY <1>1, <1>2
<1>4. ASSUME NEW g \in Groups, g \in removed
      PROVE  a.groups[g] # "live"
  <2>1. a.chats[g].status = "dead"
    BY <1>3, <1>4, DeadGroupChat
  <2> QED
    BY <2>1 DEF FamilyClosed
<1> HIDE DEF removed, observed, chatsIn, al
<1>5. groupsIn = a.groups
  <2>1. ASSUME NEW g \in Groups PROVE base.chats[g].status # "dead"
    BY LifecycleAssumption DEF EmptyArchive
  <2> QED
    BY <1>4, <2>1 DEF PreparedGroups, Export, ArchiveType
<1>6. ASSUME NEW g \in Groups, g \in deleted
      PROVE  a.groups[g] = "dead"
  BY <1>4, <1>6 DEF Export
<1> HIDE DEF groupsIn, deleted
<1>7. partsIn = a.parts
  <2>1. ASSUME NEW p \in Parts
        PROVE  PreparedParts(in, base, deleted, groupsIn)[p] = a.parts[p]
    <3>1. p[1] \in Groups
      BY DEF Parts
    <3>2. base.groups[p[1]] # "dead"
      BY <3>1 DEF EmptyArchive
    <3>3. p[1] \in deleted => a.parts[p] # "live"
      BY <1>6, <3>1 DEF FamilyClosed
    <3> QED
      BY <3>2, <3>3 DEF PreparedParts, Export, ArchiveType, Statuses
  <2> QED
    BY <2>1 DEF PreparedParts, ArchiveType
<1>8. msgsIn = in.msgs
  <2>1. ASSUME NEW m \in Msgs PROVE PreparedMsgs(in, removed, observed, DeadParents(base.chats, al))[m] = in.msgs[m]
    <3>1. DeadParents(base.chats, al) = {}
      BY DEF DeadParents, EmptyArchive
    <3>2. ChatOf[m] \in removed => in.msgs[m].status # "live"
      BY <1>3 DEF FamilyClosed, Export
    <3> QED
      BY <3>1, <3>2 DEF PreparedMsgs
  <2> QED
    BY <2>1 DEF PreparedMsgs, Export
<1> HIDE DEF partsIn, msgsIn
<1>9. chats = a.chats
  BY <1>2 DEF EmptyArchive, UpsertChat, ArchiveType, ChatRows
<1>10. groups = a.groups
  BY <1>5 DEF EmptyArchive, UpsertChild, ArchiveType
<1>11. parts = a.parts
  BY <1>7 DEF EmptyArchive, UpsertChild, ArchiveType
<1>12. msgs = [m \in Msgs |-> [a.msgs[m] EXCEPT !.index = a.msgs[m].text]]
  <2>1. ASSUME NEW m \in Msgs
        PROVE  UpsertMsg(base.msgs[m], msgsIn[m]) = [a.msgs[m] EXCEPT !.index = a.msgs[m].text]
    <3>1. a.msgs[m] \in MsgRows /\ base.msgs[m] = NoMsg
      BY DEF ArchiveType, EmptyArchive
    <3>2. msgsIn[m] = [status |-> a.msgs[m].status, text |-> a.msgs[m].text, null |-> FALSE]
      BY <1>8 DEF Export
    <3> QED
      BY <3>1, <3>2 DEF UpsertMsg, NoMsg, MsgRows
  <2> QED
    BY <2>1
<1>13. revs = a.revs
  <2>1. ASSUME NEW m \in Msgs
        PROVE  UpsertRevs(base.revs[m], base.msgs[m], msgsIn[m]) \o in.revs[m] = a.revs[m]
    <3>1. UpsertRevs(base.revs[m], base.msgs[m], msgsIn[m]) = <<>>
      BY DEF UpsertRevs, EmptyArchive, NoMsg, NoRevs
    <3>2. in.revs[m] \in Seq(Texts) /\ in.revs[m] = a.revs[m]
      BY DEF Export, ArchiveType
    <3> QED
      BY <3>1, <3>2
  <2> QED
    BY <2>1 DEF ArchiveType
<1>14. base.links \cup in.links = a.links
  BY DEF EmptyArchive, Export
<1>15. Upserted(base, in, t) =
         [chats |-> chats, groups |-> groups, parts |-> parts, msgs |-> msgs,
          revs |-> revs, links |-> base.links \cup in.links]
  BY DEF Upserted, chatsIn, groupsIn, partsIn, msgsIn, al, removed, observed, deleted
<1> HIDE DEF chats, groups, parts, msgs, revs, base, in
<1> QED
  BY <1>9, <1>10, <1>11, <1>12, <1>13, <1>14, <1>15, WithoutIndexRows DEF base, in

\* And the sweep finds nothing left to do.
LEMMA ClosedIsSwept ==
    ASSUME NEW a \in ArchiveType, FamilyClosed(a)
    PROVE  TombstoneSubordinates(a) = a
<1>1. SweptGroups(a) = a.groups
  BY DEF SweptGroups, FamilyClosed, ArchiveType
<1>2. SweptParts(a) = a.parts
  BY <1>1 DEF SweptParts, FamilyClosed, ArchiveType
<1>3. \A m \in Msgs : ~Swept(a, m)
  BY DEF Swept, SweepParents, FamilyClosed
<1>4. SweptMsgs(a) = a.msgs /\ SweptRevs(a) = a.revs
  BY <1>3 DEF SweptMsgs, SweptRevs, ArchiveType
<1> QED
  BY <1>1, <1>2, <1>4 DEF TombstoneSubordinates, ArchiveType

\* Restoring the backup of a closed archive reproduces its rows.
LEMMA RestoreReproduces ==
    ASSUME NEW a \in ArchiveType, FamilyClosed(a), NEW t \in Nat
    PROVE  ImportAll(EmptyArchive, Export(a), t) = WithoutIndex(a)
BY RestoreUpserts, WithoutIndexCloses, ClosedIsSwept DEF ImportAll

\* In every reachable state a restore of the archive's backup reproduces it.
THEOREM RestoresAreExact == Spec => []RestoreIsExact
<1>1. TypeOK /\ NoOrphans => RestoreIsExact
  <2> SUFFICES ASSUME TypeOK, NoOrphans, NEW t \in now..MaxTime
               PROVE  ImportAll(EmptyArchive, Export(archive), t) = WithoutIndex(archive)
    BY DEF RestoreIsExact
  <2>1. archive \in ArchiveType /\ FamilyClosed(archive) /\ t \in Nat
    BY LifecycleAssumption DEF TypeOK, NoOrphans
  <2> QED
    BY <2>1, RestoreReproduces
<1> QED
  BY <1>1, TypeCorrect, FamiliesAreClosed, PTL

\* The newest backup is that of some closed archive.
BackupIsClosed == \E a \in ArchiveType : FamilyClosed(a) /\ backup = Export(a)

\* A backup does not depend on the index.
LEMMA ExportIgnoresIndex ==
    ASSUME NEW a \in ArchiveType
    PROVE  Export(WithoutIndex(a)) = Export(a)
<1> DEFINE rows == [m \in Msgs |-> [a.msgs[m] EXCEPT !.index = a.msgs[m].text]]
           exported(r) == [status |-> r.status, text |-> r.text, null |-> FALSE]
<1>1. ASSUME NEW m \in Msgs
      PROVE  exported(rows[m]) = exported(a.msgs[m])
  BY DEF ArchiveType, MsgRows
<1>2. [m \in Msgs |-> exported(rows[m])] = [m \in Msgs |-> exported(a.msgs[m])]
  BY <1>1
<1> HIDE DEF rows
<1>3. WithoutIndex(a) = [chats |-> a.chats, groups |-> a.groups, parts |-> a.parts,
                         msgs |-> rows, revs |-> a.revs, links |-> a.links]
  BY WithoutIndexRows DEF rows
<1> QED
  BY <1>2, <1>3 DEF Export

\* Every pull reproduces the rows that were pushed, however far the archive
\* has moved on since.
THEOREM PullsRestore == Spec => PullRestoresBackup
<1>1. Init => BackupIsClosed
  BY EmptyType, EmptyCloses DEF Init, BackupIsClosed
<1>2. TypeOK /\ NoOrphans /\ BackupIsClosed /\ [Next]_vars => BackupIsClosed'
  <2> SUFFICES ASSUME TypeOK, NoOrphans, BackupIsClosed, [Next]_vars
               PROVE  BackupIsClosed'
    OBVIOUS
  <2>1. CASE backup' = backup
    BY <2>1 DEF BackupIsClosed
  <2>2. CASE ExportAll
    BY <2>2 DEF ExportAll, BackupIsClosed, TypeOK, NoOrphans
  <2>3. ExportAll \/ backup' = backup
    BY DEF Next, Merge, ReplaceAll, ImportSnapshot, Tick, vars
  <2> QED
    BY <2>1, <2>2, <2>3
<1>3. TypeOK /\ BackupIsClosed /\ [Next]_vars => [ImportSnapshot => Export(archive') = backup]_vars
  <2> SUFFICES ASSUME TypeOK, BackupIsClosed, ImportSnapshot
               PROVE  Export(archive') = backup
    OBVIOUS
  <2>1. PICK a \in ArchiveType : FamilyClosed(a) /\ backup = Export(a)
    BY DEF BackupIsClosed
  <2>2. now \in Nat /\ archive' = ImportAll(EmptyArchive, backup, now)
    BY DEF TypeOK, ImportSnapshot
  <2>3. archive' = WithoutIndex(a)
    BY <2>1, <2>2, RestoreReproduces
  <2> QED
    BY <2>1, <2>3, ExportIgnoresIndex
<1> QED
  BY <1>1, <1>2, <1>3, TypeCorrect, FamiliesAreClosed, PTL DEF Spec, PullRestoresBackup
=============================================================================
