-------------------------- MODULE BackupPushProofs --------------------------
(* Proofs about BackupPush, for every set of artifacts, exports and tags    *)
(* and every bound, of checkouts nobody works in while a push runs.         *)
EXTENDS BackupPush, SequenceTheorems, FiniteSetTheorems, TLAPS

Files == [Shards -> Contents]

-----------------------------------------------------------------------------
(* Types.                                                                   *)

LEMMA EmptyTrees == NoManifest \in Manifest /\ EmptyTree \in Tree
BY DEF NoManifest, Manifest, EmptyTree, Tree, Contents

LEMMA TipTypes ==
    ASSUME NEW h \in Seq(Commit)
    PROVE  /\ TipTree(h) \in Tree
           /\ h # <<>> => h[Len(h)] \in Commit
<1>1. CASE h = <<>>
  BY <1>1, EmptyTrees DEF TipTree
<1>2. CASE h # <<>>
  <2>1. h[Len(h)] \in Commit
    BY <1>2
  <2> QED
    BY <1>2, <2>1 DEF TipTree, Commit
<1> QED
  BY <1>1, <1>2

LEMMA NewCommitTypes ==
    ASSUME NEW h \in Seq(Commit), NEW t \in Tree, NEW m \in BOOLEAN, NEW a \in Authors
    PROVE  NewCommit(h, t, m, a) \in Commit
<1>1. TipTree(h) \in Tree /\ Len(h) \in Nat
  BY TipTypes
<1> QED
  BY <1>1 DEF NewCommit, Commit

\* What the steps do to a tree.
LEMMA TreeTypes ==
    ASSUME NEW t \in Tree, NEW m \in Manifest, NEW s \in Shards, NEW c \in Contents,
           NEW f \in Files
    PROVE  /\ [t EXCEPT !.readme = "ours"] \in Tree
           /\ [t EXCEPT !.readme = "theirs"] \in Tree
           /\ [t EXCEPT !.notes = TRUE] \in Tree
           /\ [t EXCEPT !.manifest = m] \in Tree
           /\ [t EXCEPT !.manifest.state = "bad"] \in Tree
           /\ [t EXCEPT !.shards = f] \in Tree
           /\ [t EXCEPT !.shards[s] = c] \in Tree
<1>1. t.shards \in Files /\ t.manifest \in Manifest
  BY DEF Tree, Files
<1>2. [t.shards EXCEPT ![s] = c] \in Files
  BY <1>1 DEF Files
<1>3. [t.manifest EXCEPT !.state = "bad"] \in Manifest
  BY <1>1 DEF Manifest
<1>4. [t EXCEPT !.shards[s] = c] = [t EXCEPT !.shards = [t.shards EXCEPT ![s] = c]]
  BY DEF Tree
<1>5. [t EXCEPT !.manifest.state = "bad"]
        = [t EXCEPT !.manifest = [t.manifest EXCEPT !.state = "bad"]]
  BY DEF Tree
<1>6. \A g \in Files : [t EXCEPT !.shards = g] \in Tree
  BY DEF Tree, Files
<1>7. \A g \in Manifest : [t EXCEPT !.manifest = g] \in Tree
  BY DEF Tree
<1>8. /\ [t EXCEPT !.readme = "ours"] \in Tree
      /\ [t EXCEPT !.readme = "theirs"] \in Tree
      /\ [t EXCEPT !.notes = TRUE] \in Tree
  BY DEF Tree
<1> QED
  BY <1>2, <1>3, <1>4, <1>5, <1>6, <1>7, <1>8

LEMMA ReadmeTypes == ASSUME NEW t \in Tree PROVE WithReadme(t) \in Tree
<1>1. [t EXCEPT !.readme = "ours"] \in Tree
  BY DEF Tree
<1> QED
  BY <1>1 DEF WithReadme

LEMMA EditTypes == ASSUME work \in Tree PROVE Edits \subseteq Tree
<1>1. \A s \in Shards, c \in {0, Plain} : [work EXCEPT !.shards[s] = c] \in Tree
  <2> TAKE s \in Shards, c \in {0, Plain}
  <2>1. NoManifest \in Manifest /\ c \in Contents /\ work.shards \in Files
    BY EmptyTrees DEF Contents, Tree, Files
  <2> QED
    BY <2>1, TreeTypes
<1>2. /\ [work EXCEPT !.notes = TRUE] \in Tree
      /\ [work EXCEPT !.readme = "theirs"] \in Tree
      /\ [work EXCEPT !.manifest = NoManifest] \in Tree
  BY EmptyTrees DEF Tree
<1>3. [work EXCEPT !.manifest.state = "bad"] \in Tree
  <2>1. [work.manifest EXCEPT !.state = "bad"] \in Manifest
    BY DEF Tree, Manifest
  <2>2. [work EXCEPT !.manifest.state = "bad"]
          = [work EXCEPT !.manifest = [work.manifest EXCEPT !.state = "bad"]]
    BY DEF Tree
  <2> QED
    BY <2>1, <2>2 DEF Tree
<1> SUFFICES ASSUME NEW w \in Edits PROVE w \in Tree
  BY DEF Edits
<1>5. CASE \E s \in Shards, c \in {0, Plain} : w = [work EXCEPT !.shards[s] = c]
  BY <1>1, <1>5
<1>6. CASE w \in {[work EXCEPT !.notes = TRUE], [work EXCEPT !.readme = "theirs"],
                  [work EXCEPT !.manifest = NoManifest],
                  [work EXCEPT !.manifest.state = "bad"]}
  BY <1>2, <1>3, <1>6
<1> QED
  BY <1>5, <1>6 DEF Edits

Jobs == [init : BOOLEAN, publish : BOOLEAN, tag : Tags \cup {None},
         export : [Shards -> Nat], old : [Shards -> Nat]]

LEMMA JobTypes ==
    /\ NoJob \in Jobs
    /\ \A j \in Jobs, p \in BOOLEAN, t \in Tags \cup {None} :
           [j EXCEPT !.publish = p, !.tag = t] \in Jobs
    /\ \A e \in [Shards -> Nat], o \in [Shards -> Nat] :
           [NoJob EXCEPT !.export = e, !.old = o] \in Jobs
    /\ [NoJob EXCEPT !.init = TRUE] \in Jobs
BY DEF Jobs, NoJob

LEMMA CommitTreeTypes ==
    ASSUME TypeOK, NEW specs \in SUBSET Shards
    PROVE  CommitTree(specs) \in Tree
<1>1. TipTree(local) \in Tree /\ work \in Tree
  BY TipTypes DEF TypeOK
<1>2. [s \in Shards |-> IF s \in specs THEN work.shards[s] ELSE TipTree(local).shards[s]]
        \in [Shards -> Contents]
  BY <1>1 DEF Tree
<1> QED
  BY <1>1, <1>2 DEF CommitTree, Tree

LEMMA InitTypes == Init => TypeOK
<1> SUFFICES ASSUME Init PROVE TypeOK
  OBVIOUS
<1>1. job \in Jobs /\ work \in Tree
  BY JobTypes, EmptyTrees DEF Init
<1>2. /\ remote \in Seq(Commit) /\ local \in Seq(Commit)
      /\ vouched \subseteq DOMAIN remote
  BY DEF Init
<1>3. fetched \in 0 .. Len(remote)
  BY DEF Init
<1>4. /\ rtags \in [Tags -> Commit \cup {None}]
      /\ tags \in [Tags -> Commit \cup {None}]
  BY DEF Init
<1>5. /\ cloned \in BOOLEAN /\ origin \in BOOLEAN /\ staged \subseteq Shards
      /\ pc \in Labels /\ hand \in Nat /\ faults \in Nat
  BY DEF Init, Labels
<1> QED
  BY <1>1, <1>2, <1>3, <1>4, <1>5 DEF TypeOK, Jobs

LEMMA PendingCounts ==
    ASSUME TypeOK
    PROVE  Cardinality(Pending) \in 0 .. Len(local)
<1>0. local \in Seq(Commit)
  BY DEF TypeOK
<1>1. Len(local) \in Nat /\ DOMAIN local = 1 .. Len(local)
  BY <1>0
<1> DEFINE n == Len(local)
<1>2. n \in Nat /\ Pending \subseteq 1 .. n
  BY <1>1 DEF Pending
<1> HIDE DEF n
<1>3. 1 \in Int /\ n \in Int
  BY <1>2
<1>4. /\ IsFiniteSet(1 .. n)
      /\ Cardinality(1 .. n) = IF 1 > n THEN 0 ELSE n - 1 + 1
  BY <1>3, FS_Interval, Zenon
<1>5. /\ IsFiniteSet(Pending) /\ Cardinality(Pending) <= Cardinality(1 .. n)
  BY <1>2, <1>4, FS_Subset
<1>6. Cardinality(Pending) \in Nat
  BY <1>5, FS_CardinalityType
<1>7. Cardinality(Pending) \in 0 .. n
  BY <1>2, <1>4, <1>5, <1>6
<1> QED
  BY <1>7 DEF n

\* The commits a branch can gain.
LEMMA BranchTypes ==
    ASSUME TypeOK
    PROVE  /\ \A t \in Tree, a \in Authors :
                  /\ Append(local, NewCommit(local, t, FALSE, a)) \in Seq(Commit)
                  /\ Append(remote, NewCommit(remote, t, FALSE, a)) \in Seq(Commit)
           /\ HandMerge => local' \in Seq(Commit)
<1>1. \A t \in Tree, a \in Authors :
         /\ Append(local, NewCommit(local, t, FALSE, a)) \in Seq(Commit)
         /\ Append(remote, NewCommit(remote, t, FALSE, a)) \in Seq(Commit)
  <2> TAKE t \in Tree, a \in Authors
  <2>1. /\ NewCommit(local, t, FALSE, a) \in Commit
        /\ NewCommit(remote, t, FALSE, a) \in Commit
    BY NewCommitTypes DEF TypeOK
  <2>2. local \in Seq(Commit) /\ remote \in Seq(Commit)
    BY DEF TypeOK
  <2> QED
    BY <2>1, <2>2, AppendProperties
<1>2. ASSUME HandMerge PROVE local' \in Seq(Commit)
  <2> DEFINE n == Cardinality(Pending)
             mine == SubSeq(local, Len(local) - n + 1, Len(local))
             both == remote \o mine
  <2>1. n \in 0 .. Len(local) /\ local \in Seq(Commit) /\ remote \in Seq(Commit)
    BY PendingCounts DEF TypeOK
  <2>2. mine \in Seq(Commit)
    <3> HIDE DEF n
    <3>1. Len(local) - n + 1 \in Int /\ Len(local) \in Int
      BY <2>1
    <3>2. \A i \in Len(local) - n + 1 .. Len(local) : local[i] \in Commit
      BY <2>1
    <3> QED
      BY <3>1, <3>2, SubSeqProperties
  <2>3. both \in Seq(Commit)
    <3> HIDE DEF mine
    <3> QED
      BY <2>1, <2>2, ConcatProperties
  <2>4. local' = Append(both, NewCommit(both, work, TRUE, "hand"))
    BY <1>2 DEF HandMerge
  <2>5. NewCommit(both, work, TRUE, "hand") \in Commit
    <3> HIDE DEF both
    <3> QED
      BY <2>3, NewCommitTypes DEF TypeOK, Authors
  <2> HIDE DEF both
  <2> QED
    BY <2>3, <2>4, <2>5, AppendProperties
<1> QED
  BY <1>1, <1>2

LEMMA StepTypes == TypeOK /\ [Next]_vars => TypeOK'
<1> SUFFICES ASSUME TypeOK, [Next]_vars PROVE TypeOK'
  OBVIOUS
<1> USE PushAssumption
<1>0. End => pc' \in Labels /\ job' \in Jobs
  BY JobTypes DEF End, Labels
<1>1. CASE UNCHANGED vars
  BY <1>1 DEF vars, checkout, server, TypeOK
<1>2. CASE Clone
  <2>1. TipTree(remote) \in Tree
    BY TipTypes DEF TypeOK
  <2> QED
    BY <1>2, <2>1 DEF Clone, server, TypeOK
<1>3. CASE StartInit
  BY <1>3, ReadmeTypes, JobTypes DEF StartInit, server, TypeOK, Jobs, Labels
<1>4. CASE StartPush
  <2>1. work.manifest.size \in [Shards -> Nat]
    BY DEF TypeOK, Tree, Manifest
  <2>2. job' \in Jobs
    <3>1. PICK e \in Exports :
             job' = [NoJob EXCEPT !.export = e, !.old = work.manifest.size]
      BY <1>4 DEF StartPush
    <3>2. e \in [Shards -> Nat]
      OBVIOUS
    <3> QED
      BY <2>1, <3>1, <3>2, JobTypes
  <2> QED
    BY <1>4, <2>2, ReadmeTypes DEF StartPush, server, TypeOK, Jobs, Labels
<1>5. CASE WriteShard
  <2>1. PICK s \in Shards : work' = [work EXCEPT !.shards[s] = job.export[s]]
    BY <1>5 DEF WriteShard
  <2>2. job.export[s] \in Contents
    BY DEF TypeOK, Contents
  <2>3. [work.shards EXCEPT ![s] = job.export[s]] \in Files
    BY <2>2 DEF TypeOK, Tree, Files
  <2>4. work' = [work EXCEPT !.shards = [work.shards EXCEPT ![s] = job.export[s]]]
    BY <2>1 DEF TypeOK, Tree
  <2>5. work' \in Tree
    BY <2>3, <2>4 DEF TypeOK, Tree, Files
  <2> QED
    BY <1>5, <2>5 DEF WriteShard, server, TypeOK
<1>6. CASE WriteManifest
  <2>1. [state |-> "good", size |-> job.export] \in Manifest
    BY DEF TypeOK, Manifest
  <2>2. work' \in Tree
    BY <1>6, <2>1 DEF WriteManifest, TypeOK, Tree
  <2> QED
    BY <1>6, <2>2 DEF WriteManifest, server, TypeOK, Labels
<1>7. CASE Prune
  <2>1. PICK gone \in SUBSET Stale :
           work' = [work EXCEPT !.shards = [s \in Shards |-> IF s \in gone THEN 0 ELSE @[s]]]
    BY <1>7 DEF Prune
  <2>2. [s \in Shards |-> IF s \in gone THEN 0 ELSE work.shards[s]] \in Files
    BY DEF TypeOK, Tree, Files, Contents
  <2>3. work' \in Tree
    BY <2>1, <2>2 DEF TypeOK, Tree, Files
  <2> QED
    BY <1>7, <2>3 DEF Prune, server, TypeOK, Labels
<1>8. CASE CommitOwned
  <2>1. local' \in Seq(Commit)
    <3>1. CommitTree(Pathspecs) \in Tree
      BY CommitTreeTypes DEF Pathspecs, Owned
    <3> QED
      BY <1>8, <3>1, BranchTypes DEF CommitOwned, CommitPaths, TypeOK, Authors
  <2>2. pc' \in Labels /\ job' \in Jobs
    <3>1. PICK publish \in {FALSE, origin}, t \in Tags \cup {None} :
             IF publish \/ t # None
             THEN /\ pc' = IF publish THEN "verify" ELSE "tag"
                  /\ job' = [job EXCEPT !.publish = publish, !.tag = t]
             ELSE End
      BY <1>8 DEF CommitOwned
    <3>2. publish \in BOOLEAN /\ job \in Jobs
      BY DEF TypeOK, Jobs
    <3>3. [job EXCEPT !.publish = publish, !.tag = t] \in Jobs
      BY <3>2, JobTypes
    <3> QED
      BY <1>0, <3>1, <3>3 DEF Labels
  <2>3. staged' \subseteq Shards
    BY <1>8 DEF CommitOwned, Unstaged, TypeOK
  <2> QED
    BY <1>8, <2>1, <2>2, <2>3 DEF CommitOwned, server, TypeOK, Jobs
<1>9. CASE CommitFails
  BY <1>0, <1>9 DEF CommitFails, Unstaged, server, TypeOK, Jobs
<1>10. CASE Verify
  <2>1. pc' \in Labels /\ job' \in Jobs
    BY <1>0, <1>10 DEF Verify, TypeOK, Jobs, Labels
  <2> QED
    BY <1>10, <2>1 DEF Verify, checkout, server, TypeOK, Jobs
<1>11. CASE TagSnapshot
  <2>1. pc' \in Labels /\ job' \in Jobs
    BY <1>0, <1>11 DEF TagSnapshot, TypeOK, Jobs, Labels
  <2>2. local # <<>> => Tip \in Commit
    BY TipTypes DEF TypeOK, Tip
  <2>3. tags' \in [Tags -> Commit \cup {None}]
    BY <1>11, <2>2 DEF TagSnapshot, TypeOK
  <2> QED
    BY <1>11, <2>1, <2>3 DEF TagSnapshot, server, TypeOK, Jobs
<1>12. CASE PushAtomic
  <2>1. pc' \in Labels /\ job' \in Jobs
    BY <1>0, <1>12 DEF PushAtomic
  <2>2. CASE RemoteAccepts
    <3>1. /\ remote' = local /\ fetched' = Len(local)
          /\ vouched' = vouched \cup (Len(remote) + 1 .. Len(local))
          /\ rtags' = IF job.tag = None THEN rtags
                      ELSE [rtags EXCEPT ![job.tag] = tags[job.tag]]
      BY <1>12, <2>2 DEF PushAtomic
    <3>2. Len(remote) <= Len(local) /\ Len(remote) \in Nat /\ Len(local) \in Nat
      BY <2>2 DEF RemoteAccepts, Prefix, TypeOK
    <3>3. vouched' \subseteq DOMAIN local /\ fetched' \in 0 .. Len(local)
      BY <3>1, <3>2 DEF TypeOK
    <3>4. job.tag # None => job.tag \in Tags
      BY DEF TypeOK
    <3>5. rtags' \in [Tags -> Commit \cup {None}]
      BY <3>1, <3>4 DEF TypeOK
    <3> QED
      BY <1>12, <2>1, <3>1, <3>3, <3>5 DEF PushAtomic, TypeOK, Jobs
  <2>3. CASE ~RemoteAccepts
    BY <1>12, <2>1, <2>3 DEF PushAtomic, server, TypeOK, Jobs
  <2> QED
    BY <2>2, <2>3
<1>13. CASE Refused
  BY <1>0, <1>13 DEF Refused, checkout, server, TypeOK, Jobs
<1>14. CASE Kill
  BY <1>0, <1>14 DEF Kill, checkout, server, TypeOK, Jobs
<1>15. CASE HandEdit
  BY <1>15, EditTypes DEF HandEdit, ByHand, TypeOK
<1>16. CASE HandRemove
  <2>1. PICK s \in Shards : /\ work' = [work EXCEPT !.shards[s] = 0]
                            /\ staged' = staged \cup {s}
    BY <1>16 DEF HandRemove
  <2>2. work' \in Tree
    <3>1. [work.shards EXCEPT ![s] = 0] \in Files
      BY DEF TypeOK, Tree, Files, Contents
    <3>2. work' = [work EXCEPT !.shards = [work.shards EXCEPT ![s] = 0]]
      BY <2>1 DEF TypeOK, Tree
    <3> QED
      BY <3>1, <3>2 DEF TypeOK, Tree, Files
  <2> QED
    BY <1>16, <2>1, <2>2 DEF HandRemove, ByHand, TypeOK
<1>17. CASE HandCommit
  <2>1. work' \in Tree
    BY <1>17, EditTypes DEF HandCommit, TypeOK
  <2>2. local' \in Seq(Commit)
    BY <1>17, <2>1, BranchTypes DEF HandCommit, Authors
  <2>3. staged' \subseteq Shards
    BY <1>17 DEF HandCommit
  <2>4. hand' \in Nat
    BY <1>17 DEF HandCommit, ByHand, TypeOK
  <2> QED
    BY <1>17, <2>1, <2>2, <2>3, <2>4 DEF HandCommit, ByHand, TypeOK
<1>18. CASE HandPush
  <2>1. /\ Len(remote) <= Len(local) /\ Len(remote) \in Nat /\ Len(local) \in Nat
        /\ remote' = local /\ vouched' = vouched
    BY <1>18 DEF HandPush, ByHand, Prefix, TypeOK
  <2>2. vouched' \subseteq DOMAIN remote' /\ Len(local) \in 0 .. Len(local)
    BY <2>1 DEF TypeOK
  <2> QED
    BY <1>18, <2>1, <2>2 DEF HandPush, ByHand, TypeOK
<1>19. CASE HandMerge
  <2>1. Len(remote) \in 0 .. Len(remote)
    BY DEF TypeOK
  <2>2. local' \in Seq(Commit) /\ fetched' \in 0 .. Len(remote) /\ staged' \subseteq Shards
    BY <1>19, <2>1, BranchTypes DEF HandMerge
  <2>3. /\ hand' \in Nat
        /\ UNCHANGED <<work, remote, cloned, tags, rtags, vouched, origin, pc, job, faults>>
    BY <1>19 DEF HandMerge, ByHand, TypeOK
  <2> QED
    BY <2>2, <2>3 DEF TypeOK
<1>20. CASE AddOrigin
  BY <1>20 DEF AddOrigin, checkout, server, TypeOK
<1>21. CASE Fetch
  <2>1. TipTree(remote) \in Tree /\ Len(remote) \in 0 .. Len(remote)
    BY TipTypes DEF TypeOK
  <2> QED
    BY <1>21, <2>1 DEF Fetch, server, TypeOK
<1>22. CASE OtherPush
  <2>1. PICK e \in Exports :
           remote' = Append(remote, NewCommit(remote,
               [readme |-> "ours", manifest |-> [state |-> "good", size |-> e],
                shards |-> e, notes |-> TipTree(remote).notes], FALSE, "other"))
    BY <1>22 DEF OtherPush
  <2>2. [readme |-> "ours", manifest |-> [state |-> "good", size |-> e],
         shards |-> e, notes |-> TipTree(remote).notes] \in Tree
    BY TipTypes DEF TypeOK, Tree, Manifest, Contents
  <2>3. remote' \in Seq(Commit)
    BY <2>1, <2>2, BranchTypes DEF Authors
  <2>4. Len(remote') = Len(remote) + 1 /\ Len(remote) \in Nat
    BY <2>1 DEF TypeOK
  <2>5. vouched \subseteq DOMAIN remote' /\ fetched \in 0 .. Len(remote')
    BY <2>3, <2>4 DEF TypeOK
  <2> QED
    BY <1>22, <2>3, <2>5 DEF OtherPush, checkout, TypeOK
<1> QED
  BY <1>1, <1>2, <1>3, <1>4, <1>5, <1>6, <1>7, <1>8, <1>9, <1>10, <1>11, <1>12,
     <1>13, <1>14, <1>15, <1>16, <1>17, <1>18, <1>19, <1>20, <1>21, <1>22
     DEF Next, Step, Users

\* Every reachable state of a checkout and its remote is well typed.
THEOREM TypeCorrect == Spec => []TypeOK
BY InitTypes, StepTypes, PTL DEF Spec

-----------------------------------------------------------------------------
(* What a push publishes.                                                   *)

\* From the verification on, a push knows that what it will add is verified.
\* The invariant is inductive because nobody commits in between: another
\* machine's push only makes less of the local history unpublished.
Checked ==
    /\ pc \in {"verify", "publish"} => job.publish
    /\ pc \in {"tag", "publish"} /\ job.publish => \A i \in Pending : Verified(local[i])

LEMMA VerifiedIsSound ==
    ASSUME NEW c \in Commit, Verified(c)
    PROVE  Publication!Sound(c)
<1>1. \A s \in Shards : c.tree.shards[s] \in
          {c.base.shards[s], 0, c.tree.manifest.size[s]}
  BY DEF Verified, Changed
<1>2. Publication!Complete(c.tree)
  BY DEF Verified, Complete, Listed, Publication!Complete, Publication!Listed
<1> QED
  BY <1>1, <1>2 DEF Verified, Acceptable, Publication!Sound

\* What was published stays published when the remote's branch grows.
LEMMA PendingShrinks ==
    ASSUME TypeOK, UNCHANGED local, Prefix(remote, remote'), remote' \in Seq(Commit)
    PROVE  Pending' \subseteq Pending
<1>1. \A i \in DOMAIN local : Published(i) => Published(i)'
  BY DEF Published, Prefix, TypeOK
<1> QED
  BY <1>1 DEF Pending

LEMMA OtherGrows ==
    ASSUME TypeOK, OtherPush
    PROVE  Prefix(remote, remote') /\ Len(remote) < Len(remote')
<1>1. PICK c : remote' = Append(remote, c)
  BY DEF OtherPush
<1> QED
  BY <1>1 DEF Prefix, TypeOK

LEMMA CheckedStep ==
    ASSUME ~Concurrent
    PROVE  TypeOK /\ TypeOK' /\ Checked /\ [Next]_vars => Checked'
<1> SUFFICES ASSUME TypeOK, TypeOK', Checked, [Next]_vars PROVE Checked'
  OBVIOUS
<1>1. ASSUME pc' \notin {"verify", "tag", "publish"} PROVE Checked'
  BY <1>1 DEF Checked
<1>2. ASSUME UNCHANGED <<pc, job, local, remote>> PROVE Checked'
  BY <1>2 DEF Checked, Pending, Published
<1>3. End => Checked'
  BY <1>1 DEF End
<1>4. CASE pc = "idle" /\ pc' = "idle"
  BY <1>1, <1>4
<1>5. CASE StartInit \/ StartPush \/ WriteShard \/ WriteManifest \/ Prune
  BY <1>1, <1>5 DEF StartInit, StartPush, WriteShard, WriteManifest, Prune
<1>6. CASE CommitOwned
  <2>1. PICK publish \in {FALSE, origin}, t \in Tags \cup {None} :
           IF publish \/ t # None
           THEN /\ pc' = IF publish THEN "verify" ELSE "tag"
                /\ job' = [job EXCEPT !.publish = publish, !.tag = t]
           ELSE End
    BY <1>6 DEF CommitOwned
  <2>2. CASE publish
    <3>1. pc' = "verify" /\ job'.publish = publish
      BY <2>1, <2>2 DEF TypeOK
    <3> QED
      BY <2>2, <3>1 DEF Checked
  <2>3. CASE ~publish /\ t # None
    <3>1. pc' = "tag" /\ job'.publish = publish
      BY <2>1, <2>3 DEF TypeOK
    <3> QED
      BY <2>3, <3>1 DEF Checked
  <2> QED
    BY <1>3, <2>1, <2>2, <2>3
<1>7. CASE CommitFails \/ PushAtomic \/ Refused \/ Kill
  BY <1>3, <1>7 DEF CommitFails, PushAtomic, Refused, Kill
<1>8. CASE Verify
  <2>1. UNCHANGED <<local, remote>> /\ pc = "verify"
    BY <1>8 DEF Verify, checkout, server
  <2>2. CASE HistoryVerified
    <3>1. UNCHANGED job /\ pc' \in {"tag", "publish"}
      BY <1>8, <2>2 DEF Verify
    <3>2. \A i \in Pending' : Verified(local'[i])
      BY <2>1, <2>2 DEF HistoryVerified, Pending, Published
    <3>3. job'.publish
      BY <2>1, <3>1 DEF Checked
    <3>4. pc' # "verify"
      BY <3>1
    <3> QED
      BY <3>2, <3>3 DEF Checked, Verified
  <2>3. CASE ~HistoryVerified
    BY <1>3, <1>8, <2>3 DEF Verify
  <2> QED
    BY <2>2, <2>3
<1>9. CASE TagSnapshot
  <2>1. UNCHANGED <<local, remote>> /\ pc = "tag"
    BY <1>9 DEF TagSnapshot, server
  <2>2. CASE End
    BY <1>3, <2>2
  <2>3. CASE job.publish /\ pc' = "publish" /\ UNCHANGED job
    BY <2>1, <2>3 DEF Checked, Pending, Published
  <2> QED
    BY <1>9, <2>2, <2>3 DEF TagSnapshot
<1>10. CASE UNCHANGED vars \/ AddOrigin
  BY <1>2, <1>10 DEF vars, AddOrigin, checkout, server
<1>11. CASE OtherPush
  <2>1. UNCHANGED <<pc, job, local>>
    BY <1>11 DEF OtherPush, checkout
  <2>2. Pending' \subseteq Pending
    <3>1. remote' \in Seq(Commit)
      BY DEF TypeOK
    <3> QED
      BY <1>11, <2>1, <3>1, OtherGrows, PendingShrinks
  <2> QED
    BY <2>1, <2>2 DEF Checked, Verified
<1>12. CASE HandEdit \/ HandRemove \/ HandCommit \/ HandPush \/ HandMerge
  <2>1. pc = "idle" /\ pc' = pc
    BY <1>12 DEF HandEdit, HandRemove, HandCommit, HandPush, HandMerge, ByHand
  <2> QED
    BY <1>4, <2>1
<1>13. CASE Clone \/ Fetch
  BY <1>4, <1>13 DEF Clone, Fetch
<1> QED
  BY <1>5, <1>6, <1>7, <1>8, <1>9, <1>10, <1>11, <1>12, <1>13 DEF Next, Step, Users

-----------------------------------------------------------------------------
(* The refinement: accepted pushes publish, the user's and other machines'  *)
(* contribute, and nothing else touches the remote's branch.                *)

LEMMA Growth ==
    ASSUME TypeOK, TypeOK', Prefix(remote, remote'), Len(remote) < Len(remote')
    PROVE  Publication!Grows
<1>1. remote' \in Seq(Publication!Commit)
  <2>1. Publication!Commit = Commit
    BY DEF Commit, Tree, Manifest, Authors, Contents, Publication!Commit,
       Publication!Tree, Publication!Manifest, Publication!Authors, Publication!Contents
  <2> QED
    BY <2>1 DEF TypeOK
<1> QED
  BY <1>1 DEF Prefix, Publication!Grows

LEMMA PushPublishes ==
    ASSUME TypeOK, TypeOK', Checked, PushAtomic
    PROVE  [Publication!Next]_<<remote, vouched>>
<1>1. CASE ~RemoteAccepts
  BY <1>1 DEF PushAtomic, server
<1>2. CASE RemoteAccepts
  <2>1. /\ remote' = local
        /\ vouched' = vouched \cup (Len(remote) + 1 .. Len(local))
        /\ Prefix(remote, remote')
    BY <1>2 DEF PushAtomic, RemoteAccepts
  <2>2. Len(remote) \in Nat /\ Len(local) \in Nat /\ Len(remote) <= Len(local)
    BY <2>1 DEF TypeOK, Prefix
  <2>3. CASE Len(remote) = Len(local)
    <3>1. \A i \in 1 .. Len(remote) : remote[i] = remote'[i]
      BY <2>1 DEF Prefix
    <3>2. remote \in Seq(Commit) /\ remote' \in Seq(Commit)
      BY DEF TypeOK
    <3>3. remote' = remote
      BY <2>1, <2>3, <3>1, <3>2, SeqEqual
    <3>4. Len(remote) + 1 .. Len(local) = {}
      BY <2>2, <2>3
    <3> QED
      BY <2>1, <3>3, <3>4
  <2>4. CASE Len(remote) < Len(local)
    <3>1. Publication!Grows
      BY <2>1, <2>4, Growth
    <3>2. \A i \in Publication!Added : Publication!Sound(remote'[i])
      <4> TAKE i \in Publication!Added
      <4>1. i \in DOMAIN local /\ i > Len(remote)
        BY <2>1, <2>2 DEF TypeOK, Publication!Added
      <4>2. i \in Pending
        BY <2>2, <4>1 DEF Pending, Published, TypeOK
      <4>3. Verified(local[i]) /\ local[i] \in Commit
        BY <4>1, <4>2 DEF Checked, PushAtomic, TypeOK
      <4> QED
        BY <2>1, <4>3, VerifiedIsSound
    <3>3. vouched' = vouched \cup Publication!Added
      BY <2>1 DEF Publication!Added
    <3> QED
      BY <3>1, <3>2, <3>3 DEF Publication!Next, Publication!Publish
  <2> QED
    BY <2>2, <2>3, <2>4
<1> QED
  BY <1>1, <1>2

LEMMA StepSimulation ==
    TypeOK /\ TypeOK' /\ Checked /\ [Next]_vars => [Publication!Next]_<<remote, vouched>>
<1> SUFFICES ASSUME TypeOK, TypeOK', Checked, [Next]_vars
             PROVE  [Publication!Next]_<<remote, vouched>>
  OBVIOUS
<1>1. CASE PushAtomic
  BY <1>1, PushPublishes
<1>2. CASE OtherPush
  <2>1. Publication!Grows /\ vouched' = vouched
    BY <1>2, OtherGrows, Growth DEF OtherPush
  <2> QED
    BY <2>1 DEF Publication!Next, Publication!Contribute
<1>3. CASE HandPush
  <2>1. /\ Prefix(remote, remote') /\ Len(remote) < Len(remote')
        /\ vouched' = vouched
    BY <1>3 DEF HandPush, ByHand
  <2> QED
    BY <2>1, Growth DEF Publication!Next, Publication!Contribute
<1>4. CASE UNCHANGED <<remote, vouched>>
  BY <1>4
<1>5. CASE \/ UNCHANGED vars \/ Clone \/ StartInit \/ StartPush \/ WriteShard
           \/ WriteManifest \/ Prune \/ CommitOwned \/ CommitFails \/ Verify
  BY <1>4, <1>5 DEF vars, Clone, StartInit, StartPush, WriteShard, WriteManifest,
     Prune, CommitOwned, CommitFails, Verify, server
<1>6. CASE \/ TagSnapshot \/ Refused \/ Kill \/ HandEdit \/ HandRemove
           \/ HandCommit \/ HandMerge \/ AddOrigin \/ Fetch
  BY <1>4, <1>6 DEF TagSnapshot, Refused, Kill, HandEdit, HandRemove, HandCommit,
     HandMerge, AddOrigin, Fetch, ByHand, server
<1> QED
  BY <1>1, <1>2, <1>3, <1>5, <1>6 DEF Next, Step, Users

\* Whatever the user commits by hand, however pushes are killed or refused and
\* whatever other machines push: pushes implement PublishedBackup, unless the
\* user works in the checkout while a push runs (verifyPendingHistory).
THEOREM PublicationRefined ==
    ASSUME ~Concurrent
    PROVE  Spec => PublishesSoundly
<1>1. Init => Publication!Init /\ Checked
  BY DEF Init, Publication!Init, Checked
<1>2. TypeOK /\ TypeOK' /\ Checked /\ [Next]_vars => Checked'
  BY CheckedStep
<1> QED
  BY <1>1, <1>2, TypeCorrect, StepSimulation, PTL
     DEF Spec, PublishesSoundly, Publication!Spec

\* A published history keeps its sound commits, for it only grows.
LEMMA VouchedStep ==
    ASSUME TypeOK, Publication!VouchedAreSound, [Publication!Next]_<<remote, vouched>>
    PROVE  Publication!VouchedAreSound'
<1>1. CASE UNCHANGED <<remote, vouched>>
  BY <1>1 DEF Publication!VouchedAreSound
<1>2. CASE Publication!Next
  <2>1. Publication!Grows
    BY <1>2 DEF Publication!Next, Publication!Publish, Publication!Contribute
  <2>2. \A i \in DOMAIN remote : i \in DOMAIN remote' /\ remote'[i] = remote[i]
    <3>1. /\ remote \in Seq(Commit) /\ remote' \in Seq(Publication!Commit)
          /\ Len(remote) < Len(remote')
          /\ \A i \in 1 .. Len(remote) : remote'[i] = remote[i]
      BY <2>1 DEF TypeOK, Publication!Grows
    <3>2. Len(remote) \in Nat /\ DOMAIN remote = 1 .. Len(remote)
      BY <3>1
    <3>3. Len(remote') \in Nat /\ DOMAIN remote' = 1 .. Len(remote')
      BY <3>1
    <3> QED
      BY <3>1, <3>2, <3>3
  <2>3. \A i \in vouched : i \in DOMAIN remote' /\ Publication!Sound(remote'[i])
    BY <2>2 DEF Publication!VouchedAreSound
  <2>4. CASE vouched' = vouched
    BY <2>3, <2>4 DEF Publication!VouchedAreSound
  <2>5. CASE Publication!Publish
    <3>1. Publication!Added \subseteq DOMAIN remote'
      BY <2>1 DEF TypeOK, Publication!Grows, Publication!Added
    <3> QED
      BY <2>3, <2>5, <3>1 DEF Publication!Publish, Publication!VouchedAreSound
  <2> QED
    BY <1>2, <2>4, <2>5 DEF Publication!Next, Publication!Contribute
<1> QED
  BY <1>1, <1>2

\* Every snapshot that backup push ever published stays where it was, complete
\* and encrypted: what it is worth to a restore never depends on a later push.
THEOREM VouchedStaySound ==
    ASSUME ~Concurrent
    PROVE  Spec => []Publication!VouchedAreSound
<1>1. Init => Publication!VouchedAreSound
  BY DEF Init, Publication!VouchedAreSound
<1>2. PublishesSoundly => [][Publication!Next]_<<remote, vouched>>
  BY PTL DEF PublishesSoundly, Publication!Spec
<1> QED
  BY <1>1, <1>2, PublicationRefined, TypeCorrect, VouchedStep, PTL DEF Spec

-----------------------------------------------------------------------------
(* What a push has written.                                                 *)

\* Nobody has touched the checkout while a push ran.
Alone == ~Concurrent \/ hand = 0

ManifestWritten == work.manifest = [state |-> "good", size |-> job.export]

\* From the manifest on the checkout holds what is exported, at last nothing else.
Written ==
    Alone =>
        /\ pc \in {"write", "prune"} => ~job.init
        /\ pc = "prune" => /\ ManifestWritten
                           /\ \A s \in Shards : job.export[s] \in {0, work.shards[s]}
        /\ pc = "commit" /\ job.init => \A s \in Shards : job.export[s] = 0 /\ job.old[s] = 0
        /\ pc = "commit" /\ ~job.init => ManifestWritten /\ work.shards = job.export

ByHands == HandEdit \/ HandRemove \/ HandCommit \/ HandPush \/ HandMerge

LEMMA AloneBefore ==
    ASSUME TypeOK, Next, Alone'
    PROVE  /\ Alone
           /\ ByHands => pc = "idle" /\ hand' # 0 /\ UNCHANGED <<pc, job>>
<1>1. CASE ByHands
  <2>1. hand \in Nat /\ hand' = hand + 1 /\ (pc = "idle" \/ Concurrent) /\ UNCHANGED <<pc, job>>
    BY <1>1 DEF ByHands, HandEdit, HandRemove, HandCommit, HandPush, HandMerge, ByHand, TypeOK
  <2> QED
    BY <2>1 DEF Alone
<1>2. CASE ~ByHands
  <2>1. hand' = hand
    <3>1. Clone \/ StartInit \/ StartPush \/ WriteShard \/ WriteManifest \/ Prune => hand' = hand
      BY DEF Clone, StartInit, StartPush, WriteShard, WriteManifest, Prune
    <3>2. CommitOwned \/ CommitFails \/ Verify \/ TagSnapshot \/ PushAtomic => hand' = hand
      BY DEF CommitOwned, CommitFails, Verify, TagSnapshot, PushAtomic
    <3>3. Refused \/ Kill \/ AddOrigin \/ Fetch \/ OtherPush => hand' = hand
      BY DEF Refused, Kill, AddOrigin, Fetch, OtherPush
    <3> QED
      BY <1>2, <3>1, <3>2, <3>3 DEF Next, Step, Users, ByHands
  <2> QED
    BY <1>2, <2>1 DEF Alone
<1> QED
  BY <1>1, <1>2

LEMMA WrittenStep == TypeOK /\ Written /\ [Next]_vars => Written'
<1> SUFFICES ASSUME TypeOK, Written, [Next]_vars, Alone' PROVE Written'
  BY DEF Written
<1>0. CASE UNCHANGED vars
  BY <1>0 DEF vars, checkout, Written, Alone, ManifestWritten
<1> SUFFICES ASSUME Next PROVE Written'
  BY <1>0
<1>1. Alone
  BY AloneBefore
<1>2. ASSUME pc' \notin {"write", "prune", "commit"} PROVE Written'
  BY <1>2 DEF Written
<1>3. ASSUME UNCHANGED <<pc, job, work>> PROVE Written'
  BY <1>1, <1>3 DEF Written, ManifestWritten
<1>4. CASE StartInit
  <2>1. pc' = "commit" /\ job' = [NoJob EXCEPT !.init = TRUE]
    BY <1>4 DEF StartInit
  <2>2. job'.init /\ \A s \in Shards : job'.export[s] = 0 /\ job'.old[s] = 0
    BY <2>1 DEF NoJob
  <2> QED
    BY <2>1, <2>2 DEF Written
<1>5. CASE StartPush
  <2>1. PICK e \in Exports : job' = [NoJob EXCEPT !.export = e, !.old = work.manifest.size]
    BY <1>5 DEF StartPush
  <2>2. pc' = "write" /\ ~job'.init
    BY <1>5, <2>1 DEF StartPush, NoJob
  <2> QED
    BY <2>2 DEF Written
<1>6. CASE WriteShard
  <2>1. pc = "write" /\ pc' = pc /\ job' = job
    BY <1>6 DEF WriteShard
  <2> QED
    BY <1>1, <2>1 DEF Written
<1>7. CASE WriteManifest
  <2>1. /\ pc = "write" /\ job' = job /\ ~job.init
        /\ \A s \in Shards : job.export[s] \in {0, work.shards[s]}
        /\ work' = [work EXCEPT !.manifest = [state |-> "good", size |-> job.export]]
        /\ pc' = IF Stale = {} THEN "commit" ELSE "prune"
    BY <1>1, <1>7 DEF WriteManifest, Written
  <2>2. ManifestWritten' /\ work'.shards = work.shards
    BY <2>1 DEF ManifestWritten, TypeOK, Tree
  <2>3. Stale = {} => work.shards = job.export
    <3> SUFFICES ASSUME Stale = {} PROVE work.shards = job.export
      OBVIOUS
    <3>1. \A s \in Shards : work.shards[s] = job.export[s]
      BY <2>1 DEF Stale
    <3> QED
      BY <3>1 DEF TypeOK, Tree
  <2> QED
    BY <2>1, <2>2, <2>3 DEF Written
<1>8. CASE Prune
  <2>1. PICK gone \in SUBSET Stale :
            /\ work' = [work EXCEPT !.shards = [s \in Shards |-> IF s \in gone THEN 0 ELSE @[s]]]
            /\ pc' = IF gone = Stale THEN "commit" ELSE "prune"
    BY <1>8 DEF Prune
  <2>2. /\ job' = job /\ ~job.init /\ ManifestWritten
        /\ \A s \in Shards : job.export[s] \in {0, work.shards[s]}
    BY <1>1, <1>8 DEF Prune, Written
  <2>3. /\ work'.manifest = work.manifest
        /\ work'.shards = [s \in Shards |-> IF s \in gone THEN 0 ELSE work.shards[s]]
    BY <2>1 DEF TypeOK, Tree
  <2>4. ManifestWritten' /\ \A s \in Shards : job.export[s] \in {0, work'.shards[s]}
    BY <2>2, <2>3 DEF ManifestWritten, Stale
  <2>5. gone = Stale => work'.shards = job.export
    <3> SUFFICES ASSUME gone = Stale PROVE work'.shards = job.export
      OBVIOUS
    <3>1. \A s \in Shards : work'.shards[s] = job.export[s]
      BY <2>2, <2>3 DEF Stale
    <3> QED
      BY <2>3, <3>1 DEF TypeOK
  <2> QED
    BY <2>1, <2>2, <2>4, <2>5 DEF Written
<1>9. CASE CommitOwned \/ CommitFails \/ Verify \/ TagSnapshot \/ PushAtomic
  <2>1. pc' \notin {"write", "prune", "commit"}
    BY <1>9 DEF CommitOwned, CommitFails, Verify, TagSnapshot, PushAtomic, End
  <2> QED
    BY <1>2, <2>1
<1>10. CASE Refused \/ Kill \/ Clone \/ Fetch
  <2>1. pc' \notin {"write", "prune", "commit"}
    BY <1>10 DEF Refused, Kill, Clone, Fetch, End
  <2> QED
    BY <1>2, <2>1
<1>11. CASE ByHands
  <2>1. pc' = "idle"
    BY <1>11, AloneBefore
  <2> QED
    BY <1>2, <2>1
<1>12. CASE AddOrigin \/ OtherPush
  BY <1>3, <1>12 DEF AddOrigin, OtherPush, checkout
<1> QED
  BY <1>4, <1>5, <1>6, <1>7, <1>8, <1>9, <1>10, <1>11, <1>12 DEF Next, Step, Users, ByHands

\* The tree of the commit: init adds nothing but the README, a push replaces the
\* owned artifacts by what is exported.
LEMMA CommitTreeFacts ==
    ASSUME TypeOK, Written, Alone, pc = "commit", NEW t, t = CommitTree(Pathspecs)
    PROVE  /\ t \in Tree /\ t.notes = TipTree(local).notes
           /\ t.readme \in {TipTree(local).readme, "ours"}
           /\ job.init => /\ t.manifest = TipTree(local).manifest
                          /\ t.shards = TipTree(local).shards
           /\ ~job.init => /\ t.manifest = [state |-> "good", size |-> job.export]
                           /\ work.manifest = t.manifest /\ work.shards = job.export
           /\ ~job.init => \A s \in Shards :
                  \/ t.shards[s] = job.export[s]
                  \/ /\ t.shards[s] = TipTree(local).shards[s] /\ job.export[s] = 0
                     /\ job.old[s] = 0 \/ TipTree(local).shards[s] = 0
<1> DEFINE head == TipTree(local)
<1>0. head \in Tree /\ work \in Tree /\ Pathspecs \subseteq Shards /\ job \in Jobs
  BY TipTypes DEF TypeOK, Pathspecs, Owned, Jobs
<1>1. t \in Tree
  BY <1>0, CommitTreeTypes
<1>2. /\ t.notes = head.notes /\ t.readme = IF work.readme = "ours" THEN "ours" ELSE head.readme
      /\ t.manifest = IF job.init THEN head.manifest ELSE work.manifest
      /\ t.shards = [s \in Shards |-> IF s \in Pathspecs THEN work.shards[s] ELSE head.shards[s]]
  <2> HIDE DEF head
  <2>1. CommitTree(Pathspecs) = [head EXCEPT
           !.readme   = IF work.readme = "ours" THEN "ours" ELSE @,
           !.manifest = IF job.init THEN @ ELSE work.manifest,
           !.shards   = [s \in Shards |-> IF s \in Pathspecs THEN work.shards[s] ELSE @[s]]]
    BY DEF CommitTree, head
  <2> QED
    BY <1>0, <2>1 DEF Tree
<1>3. CASE job.init
  <2>1. Pathspecs = {}
    BY <1>3 DEF Written, Pathspecs, Owned
  <2>2. t.shards = head.shards
    BY <1>0, <1>2, <2>1 DEF Tree
  <2> QED
    BY <1>1, <1>2, <1>3, <2>2
<1>4. CASE ~job.init
  <2>1. work.manifest = [state |-> "good", size |-> job.export] /\ work.shards = job.export
    BY <1>4 DEF Written, ManifestWritten
  <2>2. ASSUME NEW s \in Shards \ Pathspecs
        PROVE  job.export[s] = 0 /\ (job.old[s] = 0 \/ head.shards[s] = 0)
    BY <1>0, <2>1 DEF Pathspecs, Owned, Tracked, Jobs
  <2>3. \A s \in Shards : IF s \in Pathspecs THEN t.shards[s] = job.export[s]
                          ELSE t.shards[s] = head.shards[s]
    BY <1>2, <2>1
  <2> QED
    BY <1>1, <1>2, <1>4, <2>1, <2>2, <2>3
<1> QED
  BY <1>3, <1>4

-----------------------------------------------------------------------------
(* A property of the commits of every branch: the checkout's history takes  *)
(* over commits from the remote's, and the other way round.                 *)

\* How the branches change.
LEMMA Branches ==
    ASSUME TypeOK, TypeOK', Next
    PROVE  \/ UNCHANGED <<local, remote>>
           \/ local' = remote /\ UNCHANGED remote
           \/ remote' = local /\ UNCHANGED local
           \/ CommitOwned /\ UNCHANGED remote
           \/ HandCommit \/ HandMerge \/ OtherPush
<1>1. CASE Clone \/ StartInit \/ StartPush
  BY <1>1 DEF Clone, StartInit, StartPush, server
<1>2. CASE WriteShard \/ WriteManifest \/ Prune \/ CommitFails \/ Verify \/ TagSnapshot
  BY <1>2 DEF WriteShard, WriteManifest, Prune, CommitFails, Verify, TagSnapshot,
              checkout, server
<1>3. CASE CommitOwned
  BY <1>3 DEF CommitOwned, server
<1>4. CASE PushAtomic
  BY <1>4 DEF PushAtomic, server
<1>5. CASE Refused \/ Kill \/ HandEdit \/ HandRemove \/ HandPush \/ AddOrigin
  BY <1>5 DEF Refused, Kill, HandEdit, HandRemove, HandPush, AddOrigin, checkout, server
<1>6. CASE Fetch
  BY <1>6 DEF Fetch, server
<1> QED
  BY <1>1, <1>2, <1>3, <1>4, <1>5, <1>6 DEF Next, Step, Users

\* The commits of a history that something is appended to.
LEMMA AppendedCommits ==
    ASSUME NEW h \in Seq(Commit), NEW c \in Commit, NEW i \in DOMAIN Append(h, c)
    PROVE  IF i \in DOMAIN h THEN Append(h, c)[i] = h[i] ELSE Append(h, c)[i] = c
<1>1. /\ Len(h) \in Nat /\ DOMAIN h = 1 .. Len(h)
      /\ DOMAIN Append(h, c) = 1 .. Len(h) + 1
      /\ \A j \in 1 .. Len(h) : Append(h, c)[j] = h[j]
      /\ Append(h, c)[Len(h) + 1] = c
  BY AppendProperties
<1> QED
  BY <1>1

\* What a merge by hand brings together.
LEMMA MergedCommits ==
    ASSUME TypeOK, HandMerge, NEW i \in DOMAIN local'
    PROVE  \/ \E j \in DOMAIN remote : local'[i] = remote[j]
           \/ \E j \in DOMAIN local : local'[i] = local[j]
           \/ local'[i].by = "hand" /\ local'[i].tree = work
<1> DEFINE n == Cardinality(Pending)
           mine == SubSeq(local, Len(local) - n + 1, Len(local))
           both == remote \o mine
           c == NewCommit(both, work, TRUE, "hand")
<1>1. n \in 0 .. Len(local) /\ local \in Seq(Commit) /\ remote \in Seq(Commit)
  BY PendingCounts DEF TypeOK
<1>2. local' = Append(both, c)
  BY DEF HandMerge
<1>3. c.by = "hand" /\ c.tree = work
  BY DEF NewCommit
<1>4. /\ mine \in Seq(Commit)
      /\ \A k \in DOMAIN mine : \E j \in DOMAIN local : mine[k] = local[j]
  <2> HIDE DEF n
  <2>1. Len(local) - n + 1 \in Int /\ Len(local) \in Int /\ Len(local) - n + 1 >= 1
    BY <1>1
  <2>2. \A k \in Len(local) - n + 1 .. Len(local) : k \in DOMAIN local /\ local[k] \in Commit
    BY <1>1, <2>1
  <2>3. /\ mine \in Seq(Commit)
        /\ Len(mine) = IF Len(local) - n + 1 <= Len(local)
                       THEN Len(local) - (Len(local) - n + 1) + 1 ELSE 0
        /\ \A k \in 1 .. Len(local) - (Len(local) - n + 1) + 1 :
               mine[k] = local[Len(local) - n + 1 + k - 1]
    BY <2>1, <2>2, SubSeqProperties
  <2>4. \A k \in DOMAIN mine : /\ Len(local) - n + 1 + k - 1 \in DOMAIN local
                               /\ mine[k] = local[Len(local) - n + 1 + k - 1]
    BY <1>1, <2>1, <2>3
  <2> QED
    BY <2>3, <2>4
<1> HIDE DEF n, mine
<1>5. /\ both \in Seq(Commit)
      /\ \A k \in DOMAIN both : \/ \E j \in DOMAIN remote : both[k] = remote[j]
                                \/ \E j \in DOMAIN mine : both[k] = mine[j]
  <2>1. /\ both \in Seq(Commit) /\ Len(both) = Len(remote) + Len(mine)
        /\ \A k \in 1 .. Len(both) :
               both[k] = IF k <= Len(remote) THEN remote[k] ELSE mine[k - Len(remote)]
    BY <1>1, <1>4, ConcatProperties
  <2>2. Len(remote) \in Nat /\ Len(mine) \in Nat
    BY <1>1, <1>4
  <2> HIDE DEF both
  <2>3. \A k \in DOMAIN both : IF k <= Len(remote) THEN k \in DOMAIN remote
                               ELSE k - Len(remote) \in DOMAIN mine
    BY <1>1, <1>4, <2>1, <2>2
  <2>4. \A k \in DOMAIN both : k \in 1 .. Len(both)
    BY <2>1
  <2> QED
    BY <2>1, <2>3, <2>4
<1>6. c \in Commit
  <2> HIDE DEF both
  <2> QED
    BY <1>5, NewCommitTypes DEF TypeOK, Authors
<1> HIDE DEF both, c
<1>7. IF i \in DOMAIN both THEN local'[i] = both[i] ELSE local'[i] = c
  BY <1>2, <1>5, <1>6, AppendedCommits
<1>8. CASE i \in DOMAIN both
  BY <1>4, <1>5, <1>7, <1>8
<1>9. CASE i \notin DOMAIN both
  BY <1>3, <1>7, <1>9
<1> QED
  BY <1>8, <1>9

-----------------------------------------------------------------------------
(* wacrawl's own commits.                                                   *)

OwnVerified(c) == c.by = "wacrawl" /\ Tidy(c.base) => Verified(c)

\* Commits travel between the two branches, so both hold only such commits.
OwnEverywhere ==
    /\ \A i \in DOMAIN local : OwnVerified(local[i])
    /\ \A i \in DOMAIN remote : OwnVerified(remote[i])

LEMMA OwnCommitVerified ==
    ASSUME TypeOK, Written, Alone, pc = "commit", NEW t, t = CommitTree(Pathspecs)
    PROVE  OwnVerified(NewCommit(local, t, FALSE, "wacrawl"))
<1> DEFINE head == TipTree(local)
           c == NewCommit(local, t, FALSE, "wacrawl")
<1>0. head \in Tree /\ head.manifest \in Manifest
  BY TipTypes DEF TypeOK, Tree
<1> HIDE DEF head
<1>1. /\ t \in Tree /\ t.notes = head.notes /\ t.readme \in {head.readme, "ours"}
      /\ job.init => t.manifest = head.manifest /\ t.shards = head.shards
      /\ ~job.init => t.manifest = [state |-> "good", size |-> job.export]
      /\ ~job.init => \A s \in Shards :
             \/ t.shards[s] = job.export[s]
             \/ t.shards[s] = head.shards[s] /\ job.export[s] = 0
  BY CommitTreeFacts DEF head
<1>2. c.base = head /\ c.tree = t /\ c.merge = FALSE
  BY DEF NewCommit, head
<1> HIDE DEF c
<1> SUFFICES ASSUME Tidy(head) PROVE Verified(c)
  BY <1>2 DEF OwnVerified, c
<1>3. head.manifest.state # "bad" /\ head.shards = head.manifest.size
  BY DEF Tidy
<1>4. \A s \in Shards : job.export[s] \in Nat /\ head.manifest.size[s] \in Nat
  BY <1>0 DEF TypeOK, Manifest
<1>5. t.manifest.state # "bad" /\ (head.manifest.state = "good" => t.manifest.state = "good")
  BY <1>1, <1>3
<1>6. Complete(t)
  <2>1. CASE job.init
    BY <1>1, <1>3, <2>1 DEF Complete, Listed
  <2>2. CASE ~job.init
    <3>1. t.manifest.size = job.export
      BY <1>1, <2>2
    <3>2. ASSUME NEW s \in Shards, job.export[s] > 0 PROVE t.shards[s] = job.export[s]
      <4>1. \/ t.shards[s] = job.export[s]
            \/ t.shards[s] = head.shards[s] /\ job.export[s] = 0
        BY <1>1, <2>2
      <4> QED
        BY <3>2, <4>1
    <3> QED
      BY <3>1, <3>2 DEF Complete, Listed
  <2> QED
    BY <2>1, <2>2
<1>7. ASSUME NEW s \in Changed(c)
      PROVE  s \in OwnedByHistory(c) /\ t.shards[s] \in {0, t.manifest.size[s]}
  <2>1. s \in Shards /\ t.shards[s] # head.shards[s]
    BY <1>2 DEF Changed
  <2>2. ~job.init /\ t.shards[s] = job.export[s] /\ t.manifest.size[s] = job.export[s]
    BY <1>1, <2>1
  <2>3. t.manifest.size[s] > 0 \/ head.manifest.size[s] > 0
    BY <1>3, <1>4, <2>1, <2>2
  <2> QED
    BY <1>2, <2>1, <2>2, <2>3 DEF OwnedByHistory, Listed
<1> QED
  BY <1>1, <1>2, <1>3, <1>5, <1>6, <1>7 DEF Verified, Acceptable

LEMMA OwnStep ==
    ASSUME ~Concurrent
    PROVE  TypeOK /\ TypeOK' /\ Written /\ OwnEverywhere /\ [Next]_vars => OwnEverywhere'
<1> SUFFICES ASSUME TypeOK, TypeOK', Written, OwnEverywhere, [Next]_vars PROVE OwnEverywhere'
  OBVIOUS
<1>0. /\ local \in Seq(Commit) /\ remote \in Seq(Commit)
      /\ local' \in Seq(Commit) /\ remote' \in Seq(Commit)
  BY DEF TypeOK
<1>1. CASE UNCHANGED <<local, remote>> \/ UNCHANGED vars
  BY <1>1 DEF OwnEverywhere, vars, checkout, server
<1>2. CASE local' = remote /\ UNCHANGED remote
  BY <1>2 DEF OwnEverywhere
<1>3. CASE remote' = local /\ UNCHANGED local
  BY <1>3 DEF OwnEverywhere
<1>4. CASE CommitOwned /\ UNCHANGED remote
  <2>1. PICK t : t = CommitTree(Pathspecs)
    OBVIOUS
  <2> DEFINE c == NewCommit(local, t, FALSE, "wacrawl")
  <2>2. pc = "commit" /\ (UNCHANGED local \/ local' = Append(local, c))
    BY <1>4, <2>1 DEF CommitOwned, CommitPaths
  <2>3. OwnVerified(c)
    BY <2>1, <2>2, OwnCommitVerified DEF Alone
  <2>4. c \in Commit
    <3>1. t \in Tree
      BY <2>1, CommitTreeTypes DEF Pathspecs, Owned
    <3> QED
      BY <1>0, <3>1, NewCommitTypes DEF Authors
  <2> HIDE DEF c
  <2>5. ASSUME local' = Append(local, c), NEW i \in DOMAIN local' PROVE OwnVerified(local'[i])
    <3>1. local'[i] = c \/ (i \in DOMAIN local /\ local'[i] = local[i])
      BY <1>0, <2>4, <2>5, AppendedCommits
    <3> QED
      BY <2>3, <3>1 DEF OwnEverywhere
  <2> QED
    BY <1>4, <2>2, <2>5 DEF OwnEverywhere
<1>5. CASE HandCommit
  <2> DEFINE c == NewCommit(local, work', FALSE, "hand")
  <2>1. local' = Append(local, c) /\ UNCHANGED remote
    BY <1>5 DEF HandCommit
  <2>2. c \in Commit
    BY <1>0, NewCommitTypes DEF TypeOK, Authors
  <2>3. OwnVerified(c)
    BY DEF OwnVerified, NewCommit
  <2> HIDE DEF c
  <2>4. ASSUME NEW i \in DOMAIN local' PROVE OwnVerified(local'[i])
    <3>1. local'[i] = c \/ (i \in DOMAIN local /\ local'[i] = local[i])
      BY <1>0, <2>1, <2>2, AppendedCommits
    <3> QED
      BY <2>3, <3>1 DEF OwnEverywhere
  <2> QED
    BY <2>1, <2>4 DEF OwnEverywhere
<1>6. CASE HandMerge
  <2>1. ASSUME NEW i \in DOMAIN local' PROVE OwnVerified(local'[i])
    BY <1>6, MergedCommits DEF OwnEverywhere, OwnVerified
  <2> QED
    BY <1>6, <2>1 DEF OwnEverywhere, HandMerge
<1>7. CASE OtherPush
  <2>1. PICK t : remote' = Append(remote, NewCommit(remote, t, FALSE, "other"))
    BY <1>7 DEF OtherPush
  <2> DEFINE c == NewCommit(remote, t, FALSE, "other")
  <2>2. c \in Commit
    <3> HIDE DEF c
    <3>1. /\ remote' = Append(remote, c) /\ Len(remote) \in Nat
          /\ DOMAIN remote' = 1 .. Len(remote')
      BY <1>0, <2>1 DEF c
    <3>2. Len(remote') = Len(remote) + 1 /\ remote'[Len(remote) + 1] = c
      BY <1>0, <3>1
    <3> QED
      BY <1>0, <3>1, <3>2
  <2>3. OwnVerified(c)
    BY DEF OwnVerified, NewCommit
  <2>4. UNCHANGED local /\ remote' = Append(remote, c)
    BY <1>7, <2>1 DEF OtherPush, checkout
  <2> HIDE DEF c
  <2>5. ASSUME NEW i \in DOMAIN remote' PROVE OwnVerified(remote'[i])
    <3>1. remote'[i] = c \/ (i \in DOMAIN remote /\ remote'[i] = remote[i])
      BY <1>0, <2>2, <2>4, AppendedCommits
    <3> QED
      BY <2>3, <3>1 DEF OwnEverywhere
  <2> QED
    BY <2>4, <2>5 DEF OwnEverywhere
<1> QED
  BY <1>1, <1>2, <1>3, <1>4, <1>5, <1>6, <1>7, Branches

\* A commit that a push makes on a tidy tree passes the verification of every later
\* push, for every set of artifacts and every bound on kills, edits and commits by
\* hand: wacrawl never refuses its own work (ownedPathspecs, verifyPendingHistory).
THEOREM OwnWorkVerifies ==
    ASSUME ~Concurrent
    PROVE  Spec => []OwnCommitsVerify
<1>1. Init => Written /\ OwnEverywhere
  BY DEF Init, Written, OwnEverywhere
<1>2. OwnEverywhere => OwnCommitsVerify
  BY DEF OwnEverywhere, OwnVerified, OwnCommitsVerify
<1>3. TypeOK /\ TypeOK' /\ Written /\ OwnEverywhere /\ [Next]_vars => OwnEverywhere'
  BY OwnStep
<1> QED
  BY <1>1, <1>2, <1>3, WrittenStep, TypeCorrect, PTL DEF Spec

\* The safety half of EventuallyPublished.  As long as the remote has not moved on and
\* all that is pending are commits of earlier pushes on tidy trees, a push that gets to
\* the verification passes it, and one that gets to publish without a tag leaves the
\* remote with all of them: no killed or refused push puts the checkout in a state
\* that every later push refuses (verifyPendingHistory, PushAtomic).
OwnPushesPass ==
    [][OnlyOwnPending => /\ Verify => pc' \in {"tag", "publish"}
                         /\ PushAtomic /\ job.tag = None => remote' = local /\ Pending' = {}]_vars

\* A branch that equals the remote's has nothing pending.
LEMMA NothingPending == TypeOK /\ remote = local => Pending = {}
BY DEF TypeOK, Pending, Published

\* Every push keeps to it.
THEOREM OwnPushesGoThrough ==
    ASSUME ~Concurrent
    PROVE  Spec => OwnPushesPass
<1>1. TypeOK /\ OwnCommitsVerify /\ OnlyOwnPending => HistoryVerified
  <2> SUFFICES ASSUME TypeOK, OwnCommitsVerify, OnlyOwnPending PROVE HistoryVerified
    OBVIOUS
  <2>1. BaselineKnown
    BY DEF OnlyOwnPending, BaselineKnown
  <2>2. ASSUME NEW i \in Pending PROVE Verified(local[i])
    BY <2>2 DEF Pending, OnlyOwnPending, OwnCommitsVerify
  <2> QED
    BY <2>1, <2>2 DEF OnlyOwnPending, HistoryVerified
<1>2. (TypeOK /\ remote = local => Pending = {})'
  BY NothingPending, PTL
<1>3. TypeOK /\ TypeOK' /\ OwnCommitsVerify
        => [OnlyOwnPending => /\ Verify => pc' \in {"tag", "publish"}
                              /\ PushAtomic /\ job.tag = None
                                   => remote' = local /\ Pending' = {}]_vars
  <2> SUFFICES ASSUME TypeOK, TypeOK', OwnCommitsVerify, OnlyOwnPending
               PROVE  /\ Verify => pc' \in {"tag", "publish"}
                      /\ PushAtomic /\ job.tag = None => remote' = local /\ Pending' = {}
    OBVIOUS
  <2>1. ASSUME Verify PROVE pc' \in {"tag", "publish"}
    BY <1>1, <2>1 DEF Verify
  <2>2. ASSUME PushAtomic, job.tag = None PROVE remote' = local /\ Pending' = {}
    <3>1. RemoteAccepts
      BY <2>2 DEF RemoteAccepts, OnlyOwnPending
    <3>2. remote' = local /\ local' = local
      BY <2>2, <3>1 DEF PushAtomic
    <3> QED
      BY <1>2, <3>2
  <2> QED
    BY <2>1, <2>2
<1> QED
  BY <1>3, TypeCorrect, OwnWorkVerifies, PTL DEF OwnPushesPass

-----------------------------------------------------------------------------
(* Tags.                                                                    *)

IsSnapshot(t) == t.manifest.state = "good" /\ Complete(t)

InRemote(c) == \E i \in DOMAIN remote : remote[i] = c

TagsPublished == \A t \in Tags : rtags[t] # None => InRemote(rtags[t])

\* A push that was asked for a tag has committed a snapshot, and the tag it pushes is
\* on the tip that it pushes.
Tagging ==
    /\ \A t \in Tags : tags[t] # None => IsSnapshot(tags[t].tree)
    /\ TagsPublished
    /\ pc \in {"verify", "tag", "publish"} /\ job.tag # None =>
           local # <<>> /\ IsSnapshot(TipTree(local))
    /\ pc = "publish" /\ job.tag # None => tags[job.tag] = Tip

\* A longer branch has what the shorter one had.
LEMMA StaysInRemote ==
    ASSUME TypeOK, TypeOK', Prefix(remote, remote'), NEW c, InRemote(c)
    PROVE  InRemote(c)'
<1>1. PICK i \in DOMAIN remote : remote[i] = c
  BY DEF InRemote
<1>2. i \in 1 .. Len(remote) /\ i \in 1 .. Len(remote')
  BY DEF Prefix, TypeOK
<1>3. i \in DOMAIN remote' /\ remote'[i] = c
  BY <1>1, <1>2 DEF Prefix, TypeOK
<1> QED
  BY <1>3 DEF InRemote

LEMMA TaggedCommit ==
    ASSUME TypeOK, Written, Alone, CommitOwned, ~job.init
    PROVE  local' # <<>> /\ IsSnapshot(TipTree(local'))
<1>1. PICK t : t = CommitTree(Pathspecs)
  OBVIOUS
<1>2. /\ pc = "commit" /\ t \in Tree
      /\ t.manifest = [state |-> "good", size |-> job.export]
      /\ \A s \in Shards : \/ t.shards[s] = job.export[s]
                           \/ t.shards[s] = TipTree(local).shards[s] /\ job.export[s] = 0
  BY <1>1, CommitTreeFacts DEF CommitOwned
<1>3. IsSnapshot(t)
  <2>1. t.manifest.state = "good" /\ t.manifest.size = job.export
    BY <1>2
  <2>2. ASSUME NEW s \in Shards, job.export[s] > 0 PROVE t.shards[s] = job.export[s]
    <3>1. job.export[s] # 0
      BY <2>2
    <3>2. \/ t.shards[s] = job.export[s]
          \/ t.shards[s] = TipTree(local).shards[s] /\ job.export[s] = 0
      BY <1>2
    <3> QED
      BY <3>1, <3>2
  <2> QED
    BY <2>1, <2>2 DEF IsSnapshot, Complete, Listed
<1>4. local' # <<>> /\ TipTree(local') = t
  <2> DEFINE c == NewCommit(local, t, FALSE, "wacrawl")
  <2>1. \/ t = TipTree(local) /\ local' = local
        \/ local' = Append(local, c)
    BY <1>1 DEF CommitOwned, CommitPaths
  <2>2. CASE t = TipTree(local) /\ local' = local
    <3>1. local # <<>>
      BY <1>2, <2>2 DEF TipTree, EmptyTree, NoManifest
    <3> QED
      BY <2>2, <3>1
  <2>3. CASE local' = Append(local, c)
    <3>1. local \in Seq(Commit) /\ c.tree = t
      BY DEF TypeOK, NewCommit
    <3> HIDE DEF c
    <3>2. local' # <<>> /\ local'[Len(local')] = c
      BY <2>3, <3>1
    <3> QED
      BY <3>1, <3>2 DEF TipTree
  <2> QED
    BY <2>1, <2>2, <2>3
<1> QED
  BY <1>3, <1>4

LEMMA TaggingStep ==
    ASSUME ~Concurrent
    PROVE  TypeOK /\ TypeOK' /\ Written /\ Tagging /\ [Next]_vars => Tagging'
<1> SUFFICES ASSUME TypeOK, TypeOK', Written, Tagging, [Next]_vars PROVE Tagging'
  OBVIOUS
<1>0. Alone
  BY DEF Alone
<1>1. ASSUME pc' \notin {"verify", "tag", "publish"}, UNCHANGED tags, TagsPublished'
      PROVE  Tagging'
  BY <1>1 DEF Tagging, IsSnapshot, Complete, Listed
<1>2. ASSUME UNCHANGED rtags, Prefix(remote, remote')
      PROVE  TagsPublished'
  BY <1>2, StaysInRemote DEF Tagging, TagsPublished
<1>3. UNCHANGED remote => Prefix(remote, remote')
  BY DEF Prefix, TypeOK
<1>4. CASE UNCHANGED vars
  BY <1>4 DEF vars, checkout, server, Tagging, TagsPublished, Tip, InRemote, IsSnapshot, Complete, Listed
<1>5. CASE \/ Clone \/ StartInit \/ StartPush \/ WriteShard \/ WriteManifest \/ Prune
           \/ CommitFails \/ Refused \/ Kill \/ Fetch
  <2>1. pc' \notin {"verify", "tag", "publish"} /\ UNCHANGED <<tags, rtags, remote>>
    <3>1. CASE Clone \/ StartInit \/ StartPush \/ WriteShard \/ WriteManifest \/ Prune
      BY <3>1 DEF Clone, StartInit, StartPush, WriteShard, WriteManifest, Prune, server
    <3>2. CASE CommitFails \/ Refused \/ Kill \/ Fetch
      BY <3>2 DEF CommitFails, Refused, Kill, Fetch, End, checkout, server
    <3> QED
      BY <1>5, <3>1, <3>2
  <2> QED
    BY <1>1, <1>2, <1>3, <2>1
<1>6. CASE CommitOwned
  <2>1. UNCHANGED <<tags, rtags, remote>>
    BY <1>6 DEF CommitOwned, server
  <2>2. PICK publish \in {FALSE, origin}, t \in Tags \cup {None} :
           /\ job.init => t = None
           /\ IF publish \/ t # None
              THEN /\ pc' = IF publish THEN "verify" ELSE "tag"
                   /\ job' = [job EXCEPT !.publish = publish, !.tag = t]
              ELSE End
    BY <1>6 DEF CommitOwned
  <2>3. CASE ~(publish \/ t # None)
    <3>1. pc' = "idle"
      BY <2>2, <2>3 DEF End
    <3> QED
      BY <1>1, <1>2, <1>3, <2>1, <3>1
  <2>4. CASE publish \/ t # None
    <3>1. pc' \in {"verify", "tag"} /\ job'.tag = t
      BY <2>2, <2>4 DEF TypeOK
    <3>2. t # None => local' # <<>> /\ IsSnapshot(TipTree(local'))
      BY <1>0, <1>6, <2>2, TaggedCommit
    <3>3. TagsPublished'
      BY <1>2, <1>3, <2>1
    <3> QED
      BY <2>1, <3>1, <3>2, <3>3 DEF Tagging, IsSnapshot, Complete, Listed, TipTree
  <2> QED
    BY <2>3, <2>4
<1>7. CASE Verify
  <2>1. UNCHANGED <<tags, rtags, remote, local>> /\ pc = "verify"
    BY <1>7 DEF Verify, checkout, server
  <2>2. TagsPublished'
    BY <1>2, <1>3, <2>1
  <2>3. CASE End
    BY <1>1, <2>1, <2>2, <2>3 DEF End
  <2>4. CASE pc' = (IF job.tag = None THEN "publish" ELSE "tag") /\ UNCHANGED job
    BY <2>1, <2>2, <2>4 DEF Tagging, IsSnapshot, Complete, Listed, TipTree
  <2> QED
    BY <1>7, <2>3, <2>4 DEF Verify
<1>8. CASE TagSnapshot
  <2>1. UNCHANGED <<rtags, remote, local>> /\ pc = "tag"
    BY <1>8 DEF TagSnapshot, server
  <2>2. TagsPublished'
    BY <1>2, <1>3, <2>1
  <2>3. CASE End /\ UNCHANGED tags
    BY <1>1, <2>2, <2>3 DEF End
  <2>4. CASE /\ local # <<>> /\ tags[job.tag] \in {None, Tip}
             /\ tags' = [tags EXCEPT ![job.tag] = Tip]
             /\ (pc' = "publish" /\ UNCHANGED job) \/ End
    <3>1. job.tag \in Tags \cup {None}
      BY DEF TypeOK
    <3>2. CASE job.tag = None
      <4>1. UNCHANGED tags
        BY <2>4, <3>2, PushAssumption DEF TypeOK
      <4>2. CASE End
        BY <1>1, <2>2, <4>1, <4>2 DEF End
      <4>3. CASE pc' = "publish" /\ UNCHANGED job
        BY <2>1, <2>2, <3>2, <4>1, <4>3 DEF Tagging, IsSnapshot, Complete, Listed
      <4> QED
        BY <2>4, <4>2, <4>3
    <3>3. CASE job.tag \in Tags
      <4>1. job.tag # None
        BY <3>3, PushAssumption
      <4>2. IsSnapshot(TipTree(local)) /\ TipTree(local) = Tip.tree
        BY <2>1, <2>4, <4>1 DEF Tagging, TipTree, Tip
      <4>3. \A u \in Tags : tags'[u] # None => IsSnapshot(tags'[u].tree)
        BY <2>4, <3>3, <4>2 DEF Tagging, TypeOK
      <4>4. tags'[job.tag] = Tip /\ Tip' = Tip
        BY <2>1, <2>4, <3>3 DEF TypeOK, Tip
      <4>5. CASE End
        BY <2>2, <4>3, <4>5 DEF End, Tagging, IsSnapshot, Complete, Listed
      <4>6. CASE pc' = "publish" /\ UNCHANGED job
        BY <2>1, <2>2, <2>4, <4>2, <4>3, <4>4, <4>6
           DEF Tagging, IsSnapshot, Complete, Listed, TipTree
      <4> QED
        BY <2>4, <4>5, <4>6
    <3> QED
      BY <3>1, <3>2, <3>3
  <2> QED
    BY <1>8, <2>3, <2>4 DEF TagSnapshot
<1>9. CASE PushAtomic
  <2>1. pc = "publish" /\ pc' = "idle" /\ UNCHANGED <<tags, local>>
    BY <1>9 DEF PushAtomic, End
  <2>2. CASE ~RemoteAccepts
    BY <1>1, <1>2, <1>3, <1>9, <2>1, <2>2 DEF PushAtomic, server
  <2>3. CASE RemoteAccepts
    <3>1. /\ remote' = local /\ Prefix(remote, remote')
          /\ rtags' = IF job.tag = None THEN rtags
                      ELSE [rtags EXCEPT ![job.tag] = tags[job.tag]]
      BY <1>9, <2>3 DEF PushAtomic, RemoteAccepts
    <3>2. ASSUME NEW u \in Tags, NEW c, c = rtags'[u], c # None PROVE InRemote(c)'
      <4>1. CASE c = rtags[u]
        BY <3>1, <3>2, <4>1, StaysInRemote DEF Tagging, TagsPublished
      <4>2. CASE c # rtags[u]
        <5>1. job.tag # None /\ u = job.tag /\ c = tags[job.tag]
          BY <3>1, <3>2, <4>2 DEF TypeOK
        <5>2. c = local[Len(local)] /\ local # <<>>
          BY <2>1, <5>1 DEF Tagging, Tip
        <5>3. Len(local) \in DOMAIN local
          BY <5>2 DEF TypeOK
        <5> QED
          BY <3>1, <5>2, <5>3 DEF InRemote
      <4> QED
        BY <4>1, <4>2
    <3>3. TagsPublished'
      BY <3>2 DEF TagsPublished
    <3> QED
      BY <1>1, <2>1, <3>3
  <2> QED
    BY <2>2, <2>3
<1>10. CASE ByHands
  <2>1. pc' = "idle" /\ UNCHANGED <<tags, rtags>>
    BY <1>0, <1>10 DEF ByHands, HandEdit, HandRemove, HandCommit, HandPush, HandMerge, ByHand
  <2>2. Prefix(remote, remote')
    BY <1>3, <1>10 DEF ByHands, HandEdit, HandRemove, HandCommit, HandPush, HandMerge
  <2> QED
    BY <1>1, <1>2, <2>1, <2>2
<1>11. CASE AddOrigin \/ OtherPush
  <2>1. UNCHANGED <<tags, rtags, pc, job, local>>
    BY <1>11 DEF AddOrigin, OtherPush, checkout, server
  <2>2. Prefix(remote, remote')
    BY <1>3, <1>11, OtherGrows DEF AddOrigin, server
  <2> QED
    BY <1>2, <2>1, <2>2 DEF Tagging, IsSnapshot, Complete, Listed, TipTree, Tip
<1> QED
  BY <1>4, <1>5, <1>6, <1>7, <1>8, <1>9, <1>10, <1>11 DEF Next, Step, Users, ByHands

\* A tag is only ever given to a complete snapshot, and a tag of the remote names a
\* commit of its branch, however many pushes were refused or killed in between
\* (CreateImmutableTag, PushAtomic).
THEOREM TagsAreSnapshots ==
    ASSUME ~Concurrent
    PROVE  Spec => []TagsNameSnapshots
<1>1. Init => Written /\ Tagging
  BY DEF Init, Written, Tagging, TagsPublished
<1>2. Tagging => TagsNameSnapshots
  BY DEF Tagging, TagsPublished, TagsNameSnapshots, IsSnapshot, InRemote
<1>3. TypeOK /\ TypeOK' /\ Written /\ Tagging /\ [Next]_vars => Tagging'
  BY TaggingStep
<1> QED
  BY <1>1, <1>2, <1>3, WrittenStep, TypeCorrect, PTL DEF Spec

-----------------------------------------------------------------------------
(* Stale artifacts.                                                         *)

AllTidy ==
    /\ \A i \in DOMAIN local : Tidy(local[i].tree)
    /\ \A i \in DOMAIN remote : Tidy(remote[i].tree)

\* The artifacts of the checkout are those of a tree.
Reflects(w, t) == w.manifest = t.manifest /\ w.shards = t.shards

\* Between pushes the checkout is as committed, and a push knows what the last
\* commit listed.
InStep ==
    /\ pc \in {"idle", "verify", "tag", "publish"} => Reflects(work, TipTree(local))
    /\ pc = "commit" /\ job.init => Reflects(work, TipTree(local))
    /\ pc \in {"write", "prune", "commit"} /\ ~job.init =>
           job.old = TipTree(local).manifest.size

\* While nothing was killed, refused or done by hand; a commit fails only once there
\* are MaxCommits of them, and no commit follows it.
Undisturbed ==
    faults = 0 /\ hand = 0 =>
        /\ staged = {}
        /\ AllTidy
        /\ Len(local) < MaxCommits => InStep

LEMMA TidyTips ==
    ASSUME TypeOK, AllTidy
    PROVE  Tidy(TipTree(local)) /\ Tidy(TipTree(remote))
<1>1. Tidy(EmptyTree)
  BY DEF Tidy, EmptyTree, NoManifest
<1>2. ASSUME NEW h \in Seq(Commit), \A i \in DOMAIN h : Tidy(h[i].tree)
      PROVE  Tidy(TipTree(h))
  <2>1. h # <<>> => Len(h) \in DOMAIN h
    OBVIOUS
  <2> QED
    BY <1>1, <1>2, <2>1 DEF TipTree
<1> QED
  BY <1>2 DEF AllTidy, TypeOK

\* What a commit makes of a checkout that is in step.
LEMMA TidyCommit ==
    ASSUME TypeOK, Written, Alone, AllTidy, InStep, pc = "commit",
           NEW t, t = CommitTree(Pathspecs)
    PROVE  Tidy(t) /\ Reflects(work, t)
<1> DEFINE head == TipTree(local)
<1>0. head \in Tree /\ head.manifest.size \in [Shards -> Nat] /\ job.export \in [Shards -> Nat]
  BY TipTypes DEF TypeOK, Tree, Manifest
<1>1. head.manifest.state # "bad" /\ head.shards = head.manifest.size
  BY TidyTips DEF Tidy
<1>2. /\ t \in Tree
      /\ job.init => t.manifest = head.manifest /\ t.shards = head.shards
      /\ ~job.init => /\ t.manifest = [state |-> "good", size |-> job.export]
                      /\ work.manifest = t.manifest /\ work.shards = job.export
      /\ ~job.init => \A s \in Shards :
             \/ t.shards[s] = job.export[s]
             \/ /\ t.shards[s] = head.shards[s] /\ job.export[s] = 0
                /\ job.old[s] = 0 \/ head.shards[s] = 0
  BY CommitTreeFacts
<1>3. ~job.init => job.old = head.manifest.size
  BY DEF InStep
<1>4. job.init => Reflects(work, head)
  BY DEF InStep
<1> HIDE DEF head
<1>5. CASE job.init
  BY <1>1, <1>2, <1>4, <1>5 DEF Tidy, Reflects
<1>6. CASE ~job.init
  <2>1. ASSUME NEW s \in Shards PROVE t.shards[s] = job.export[s]
    <3>1. \/ t.shards[s] = job.export[s]
          \/ /\ t.shards[s] = head.shards[s] /\ job.export[s] = 0
             /\ job.old[s] = 0 \/ head.shards[s] = 0
      BY <1>2, <1>6
    <3>2. job.old[s] = head.shards[s]
      BY <1>1, <1>3, <1>6
    <3> QED
      BY <3>1, <3>2
  <2>2. t.shards = job.export
    BY <1>0, <1>2, <2>1 DEF Tree
  <2>3. t.manifest.state = "good" /\ t.manifest.size = job.export
    BY <1>2, <1>6
  <2> QED
    BY <1>2, <1>6, <2>2, <2>3 DEF Tidy, Reflects
<1> QED
  BY <1>5, <1>6

\* A commit does not fail for what is in the checkout.
LEMMA CommitSucceeds ==
    ASSUME TypeOK, Written, Alone, staged = {}, CommitFails
    PROVE  Len(local) = MaxCommits
<1>1. Committable(Pathspecs)
  BY DEF Committable, Unstaged
<1>2. NoPlaintext(Pathspecs)
  <2>1. CASE job.init
    <3>1. Pathspecs = {}
      BY <2>1 DEF Written, CommitFails, Pathspecs, Owned
    <3> QED
      BY <3>1 DEF NoPlaintext
  <2>2. CASE ~job.init
    <3>1. work.shards = job.export /\ job.export \in [Shards -> Nat]
      BY <2>2 DEF Written, CommitFails, TypeOK
    <3> QED
      BY <3>1, PlainAssumption DEF NoPlaintext, Pathspecs, Owned
  <2> QED
    BY <2>1, <2>2
<1> QED
  BY <1>1, <1>2 DEF CommitFails

LEMMA ReadmeReflects ==
    ASSUME work \in Tree PROVE Reflects(WithReadme(work), work)
<1>1. /\ [work EXCEPT !.readme = "ours"].manifest = work.manifest
      /\ [work EXCEPT !.readme = "ours"].shards = work.shards
  BY DEF Tree
<1> QED
  BY <1>1 DEF WithReadme, Reflects

LEMMA UndisturbedBefore ==
    ASSUME TypeOK, Next, faults' = 0, hand' = 0
    PROVE  faults = 0 /\ hand = 0 /\ ~ByHands /\ ~Refused /\ ~Kill
<1>0. faults \in Nat /\ hand \in Nat
  BY DEF TypeOK
<1>1. ~ByHands
  BY AloneBefore DEF Alone
<1>2. ~Refused /\ ~Kill
  BY <1>0 DEF Refused, Kill
<1>3. CASE Clone
  BY <1>0, <1>1, <1>2, <1>3 DEF Clone
<1>4. CASE StartInit \/ StartPush \/ WriteShard \/ WriteManifest \/ Prune
  BY <1>1, <1>2, <1>4 DEF StartInit, StartPush, WriteShard, WriteManifest, Prune
<1>5. CASE CommitOwned \/ CommitFails \/ Verify \/ TagSnapshot \/ PushAtomic
  BY <1>1, <1>2, <1>5 DEF CommitOwned, CommitFails, Verify, TagSnapshot, PushAtomic
<1>6. CASE AddOrigin \/ Fetch \/ OtherPush
  <2>1. hand' = hand /\ faults' = faults
    BY <1>6 DEF AddOrigin, Fetch, OtherPush
  <2> QED
    BY <1>1, <1>2, <2>1
<1>7. faults = 0 /\ hand = 0
  BY <1>1, <1>2, <1>3, <1>4, <1>5, <1>6 DEF Next, Step, Users, ByHands
<1> QED
  BY <1>1, <1>2, <1>7

LEMMA UndisturbedStep ==
    TypeOK /\ TypeOK' /\ Written /\ Undisturbed /\ [Next]_vars => Undisturbed'
<1> SUFFICES ASSUME TypeOK, TypeOK', Written, Undisturbed, [Next]_vars,
                    faults' = 0, hand' = 0
             PROVE  staged' = {} /\ AllTidy' /\ (Len(local') < MaxCommits => InStep')
  BY DEF Undisturbed
<1>0. CASE UNCHANGED vars
  BY <1>0 DEF vars, checkout, server, Undisturbed, AllTidy, Tidy, InStep, Reflects, TipTree
<1> SUFFICES ASSUME Next
             PROVE  staged' = {} /\ AllTidy' /\ (Len(local') < MaxCommits => InStep')
  BY <1>0
<1>1. /\ faults = 0 /\ hand = 0 /\ ~ByHands /\ ~Refused /\ ~Kill /\ Alone
      /\ staged = {} /\ AllTidy /\ (Len(local) < MaxCommits => InStep)
  BY UndisturbedBefore DEF Undisturbed, Alone
<1>2. ASSUME UNCHANGED <<local, remote, staged>>
      PROVE  staged' = {} /\ AllTidy'
  BY <1>1, <1>2 DEF AllTidy, Tidy
<1>3. Reflects(WithReadme(work), work)
  BY ReadmeReflects DEF TypeOK
<1>4. CASE Clone
  <2>1. UNCHANGED <<remote, staged, pc, job>> /\ pc = "idle"
    BY <1>4 DEF Clone, server
  <2>2. CASE local' = remote /\ work' = TipTree(remote)
    BY <1>1, <2>1, <2>2 DEF AllTidy, Tidy, InStep, Reflects, TipTree
  <2>3. CASE UNCHANGED <<local, work>>
    BY <1>1, <1>2, <2>1, <2>3 DEF InStep, Reflects, TipTree
  <2> QED
    BY <1>4, <2>2, <2>3 DEF Clone
<1>5. CASE StartInit
  <2>1. /\ UNCHANGED <<local, remote, staged>> /\ pc = "idle" /\ pc' = "commit"
        /\ work' = WithReadme(work) /\ job' = [NoJob EXCEPT !.init = TRUE]
    BY <1>5 DEF StartInit, server
  <2>2. job'.init
    BY <2>1 DEF NoJob
  <2>3. Len(local) < MaxCommits => Reflects(work', TipTree(local'))
    BY <1>1, <1>3, <2>1 DEF InStep, Reflects, TipTree
  <2> QED
    BY <1>2, <2>1, <2>2, <2>3 DEF InStep
<1>6. CASE StartPush
  <2>1. PICK e \in Exports : job' = [NoJob EXCEPT !.export = e, !.old = work.manifest.size]
    BY <1>6 DEF StartPush
  <2>2. /\ UNCHANGED <<local, remote, staged>> /\ pc = "idle" /\ pc' = "write"
        /\ job'.old = work.manifest.size
    BY <1>6, <2>1 DEF StartPush, server, NoJob
  <2>3. Len(local) < MaxCommits => job'.old = TipTree(local').manifest.size
    BY <1>1, <2>2 DEF InStep, Reflects, TipTree
  <2> QED
    BY <1>2, <2>2, <2>3 DEF InStep
<1>7. CASE WriteShard \/ WriteManifest \/ Prune
  <2>1. /\ UNCHANGED <<local, remote, staged, job>>
        /\ pc \in {"write", "prune"} /\ pc' \in {"write", "prune", "commit"}
    BY <1>7 DEF WriteShard, WriteManifest, Prune, server
  <2>2. ~job.init
    BY <1>1, <2>1 DEF Written
  <2>3. Len(local) < MaxCommits => InStep'
    BY <1>1, <2>1, <2>2 DEF InStep, TipTree
  <2> QED
    BY <1>2, <2>1, <2>3
<1>8. CASE CommitOwned
  <2>1. PICK t : t = CommitTree(Pathspecs)
    OBVIOUS
  <2> DEFINE c == NewCommit(local, t, FALSE, "wacrawl")
  <2>2. /\ pc = "commit" /\ UNCHANGED <<remote, work>>
        /\ \/ t = TipTree(local) /\ local' = local
           \/ Len(local) < MaxCommits /\ local' = Append(local, c)
    BY <1>8, <2>1 DEF CommitOwned, CommitPaths, server
  <2>3. staged' = {}
    BY <1>1, <1>8 DEF CommitOwned, Unstaged
  <2>4. pc' \in {"idle", "verify", "tag"}
    BY <1>8 DEF CommitOwned, End
  <2>5. Len(local) < MaxCommits => Tidy(t) /\ Reflects(work, t)
    BY <1>1, <2>1, <2>2, TidyCommit
  <2>6. CASE t = TipTree(local) /\ local' = local
    <3>1. AllTidy'
      BY <1>1, <2>2, <2>6 DEF AllTidy, Tidy
    <3>2. Len(local) < MaxCommits => Reflects(work', TipTree(local'))
      BY <2>2, <2>5, <2>6
    <3> QED
      BY <2>3, <2>4, <2>6, <3>1, <3>2 DEF InStep
  <2>7. CASE Len(local) < MaxCommits /\ local' = Append(local, c)
    <3>1. t \in Tree
      BY <2>1, CommitTreeTypes DEF Pathspecs, Owned
    <3>2. local \in Seq(Commit) /\ c \in Commit /\ c.tree = t
      BY <3>1, NewCommitTypes DEF TypeOK, Authors, NewCommit
    <3> HIDE DEF c
    <3>3. ASSUME NEW i \in DOMAIN local' PROVE Tidy(local'[i].tree)
      <4>1. local'[i] = c \/ (i \in DOMAIN local /\ local'[i] = local[i])
        BY <2>7, <3>2, AppendedCommits
      <4> QED
        BY <1>1, <2>5, <2>7, <3>2, <4>1 DEF AllTidy
    <3>4. AllTidy'
      BY <1>1, <2>2, <3>3 DEF AllTidy, Tidy
    <3>5. TipTree(local') = t
      <4>1. local' # <<>> /\ local'[Len(local')] = c
        BY <2>7, <3>2
      <4> QED
        BY <3>2, <4>1 DEF TipTree
    <3>6. Reflects(work', TipTree(local'))
      BY <2>2, <2>5, <2>7, <3>5
    <3> QED
      BY <2>3, <2>4, <3>4, <3>6 DEF InStep
  <2> QED
    BY <2>2, <2>6, <2>7
<1>9. CASE CommitFails
  <2>1. Len(local) = MaxCommits
    BY <1>1, <1>9, CommitSucceeds
  <2>2. UNCHANGED <<local, remote>> /\ staged' = {}
    BY <1>1, <1>9 DEF CommitFails, Unstaged, server
  <2>3. AllTidy'
    BY <1>1, <2>2 DEF AllTidy, Tidy
  <2>4. ~(Len(local') < MaxCommits)
    BY <2>1, <2>2 DEF TypeOK
  <2> QED
    BY <2>2, <2>3, <2>4
<1>10. CASE Verify \/ TagSnapshot
  <2>1. /\ UNCHANGED <<local, remote, staged, work>>
        /\ pc \in {"verify", "tag"} /\ pc' \in {"idle", "tag", "publish"}
    BY <1>10 DEF Verify, TagSnapshot, End, checkout, server
  <2> QED
    BY <1>1, <1>2, <2>1 DEF InStep, Reflects, TipTree
<1>11. CASE PushAtomic
  <2>1. /\ UNCHANGED <<local, staged, work>> /\ pc = "publish" /\ pc' = "idle"
        /\ remote' \in {remote, local}
    BY <1>11 DEF PushAtomic, End, server
  <2>2. AllTidy'
    BY <1>1, <2>1 DEF AllTidy, Tidy
  <2> QED
    BY <1>1, <2>1, <2>2 DEF InStep, Reflects, TipTree
<1>12. CASE AddOrigin
  <2>1. UNCHANGED <<local, remote, staged, work, pc, job>>
    BY <1>12 DEF AddOrigin, checkout, server
  <2> QED
    BY <1>1, <1>2, <2>1 DEF InStep, Reflects, TipTree
<1>13. CASE Fetch
  <2>1. UNCHANGED <<remote, pc, job>> /\ pc = "idle" /\ staged' = {}
    BY <1>1, <1>13 DEF Fetch, server
  <2>2. CASE UNCHANGED <<local, work>>
    BY <1>1, <2>1, <2>2 DEF AllTidy, Tidy, InStep, Reflects, TipTree
  <2>3. CASE local' = remote /\ work' = TipTree(remote)
    BY <1>1, <2>1, <2>3 DEF AllTidy, Tidy, InStep, Reflects, TipTree
  <2> QED
    BY <1>13, <2>2, <2>3 DEF Fetch
<1>14. CASE OtherPush
  <2>0. PICK e \in Exports :
            remote' = Append(remote, NewCommit(remote,
                [readme |-> "ours", manifest |-> [state |-> "good", size |-> e],
                 shards |-> e, notes |-> TipTree(remote).notes], FALSE, "other"))
    BY <1>14 DEF OtherPush
  <2>1. PICK t :
            /\ t = [readme |-> "ours", manifest |-> [state |-> "good", size |-> e],
                    shards |-> e, notes |-> TipTree(remote).notes]
            /\ remote' = Append(remote, NewCommit(remote, t, FALSE, "other"))
    BY <2>0
  <2> DEFINE c == NewCommit(remote, t, FALSE, "other")
  <2>2. Tidy(t) /\ c.tree = t
    BY <2>1 DEF Tidy, NewCommit
  <2>3. UNCHANGED <<local, staged, work, pc, job>> /\ remote' = Append(remote, c)
    BY <1>14, <2>1 DEF OtherPush, checkout
  <2>4. /\ remote \in Seq(Commit) /\ c \in Commit
    <3>1. TipTree(remote) \in Tree /\ e \in [Shards -> Nat]
      BY TipTypes, PushAssumption DEF TypeOK
    <3>2. t \in Tree
      BY <2>1, <3>1 DEF Tree, Manifest, Contents
    <3> QED
      BY <3>2, NewCommitTypes DEF TypeOK, Authors
  <2> HIDE DEF c
  <2>5. ASSUME NEW i \in DOMAIN remote' PROVE Tidy(remote'[i].tree)
    <3>1. remote'[i] = c \/ (i \in DOMAIN remote /\ remote'[i] = remote[i])
      BY <2>3, <2>4, AppendedCommits
    <3> QED
      BY <1>1, <2>2, <3>1 DEF AllTidy
  <2>6. AllTidy'
    BY <1>1, <2>3, <2>5 DEF AllTidy, Tidy
  <2> QED
    BY <1>1, <2>3, <2>6 DEF InStep, Reflects, TipTree
<1> QED
  BY <1>1, <1>4, <1>5, <1>6, <1>7, <1>8, <1>9, <1>10, <1>11, <1>12, <1>13, <1>14
     DEF Next, Step, Users, ByHands

\* Pushes that are neither killed nor refused, in a checkout nobody touches, leave no
\* stale artifact behind: every commit holds exactly what its manifest lists, whatever
\* other machines push in between (ownedPathspecs).
THEOREM NothingStale == Spec => []StaleAreRemoved
<1>1. Init => Written /\ Undisturbed
  BY DEF Init, Written, Undisturbed, AllTidy, InStep, Reflects, TipTree
<1>2. Undisturbed => StaleAreRemoved
  BY DEF Undisturbed, AllTidy, StaleAreRemoved
<1> QED
  BY <1>1, <1>2, WrittenStep, UndisturbedStep, TypeCorrect, PTL DEF Spec
=============================================================================
