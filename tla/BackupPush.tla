----------------------------- MODULE BackupPush -----------------------------
(***************************************************************************)
(* backup init and backup push on one checkout, step by step               *)
(* (internal/backup: backup.go, git.go, git_scope.go, push_safety.go).     *)
(*                                                                         *)
(* A push never fetches into a checkout it has.  It writes the snapshot,   *)
(* commits what it owns, verifies every unpublished commit and pushes; a   *)
(* refused push leaves its commit behind for the next one.  Beside it the  *)
(* user works in the checkout by hand and other machines push.             *)
(*                                                                         *)
(* Git and crawlkit are modelled by how the code uses them.  The snapshot  *)
(* writer writes shards, then the manifest, then removes what is stale.    *)
(***************************************************************************)
EXTENDS BackupTree, Sequences, FiniteSets

CONSTANTS
    Exports,      \* what the archive may be exported as: the size of each shard
    Tags,         \* names of snapshot tags
    None,         \* no tag, no commit
    Concurrent,   \* whether the user works in the checkout while a push runs
    MaxPending,   \* 128 in the code: unpublished commits that are verified
    MaxCommits,   \* bound of the commits of a branch
    MaxOthers,    \* bound of what other machines push
    MaxHand,      \* bound of what the user does by hand
    MaxFaults     \* bound of the kills and the refusals of the remote

ASSUME PushAssumption ==
    /\ Exports \subseteq [Shards -> Nat]
    /\ None \notin Tags /\ None \notin Commit
    /\ Concurrent \in BOOLEAN
    /\ {MaxPending, MaxCommits, MaxOthers, MaxHand, MaxFaults} \subseteq Nat

VARIABLES
    cloned,       \* there is a checkout
    origin,       \* a remote is configured
    remote,       \* the commits of the remote's branch, oldest first
    vouched,      \* the positions wacrawl has published (for the properties)
    rtags,        \* the remote's tags: a commit or None
    local,        \* the commits of the checkout's branch
    fetched,      \* how many of the remote's commits the checkout has seen
    work,         \* the files of the checkout
    staged,       \* artifacts whose deletion the user has staged
    tags,         \* the checkout's tags
    pc, job,      \* where the command is, and what it was asked for
    hand, faults

checkout == <<cloned, local, fetched, work, staged, tags>>
server == <<remote, vouched, rtags>>
vars == <<checkout, server, origin, pc, job, hand, faults>>

NoJob == [init |-> FALSE, publish |-> FALSE, tag |-> None,
          export |-> [s \in Shards |-> 0], old |-> [s \in Shards |-> 0]]

Labels == {"idle", "write", "prune", "commit", "verify", "tag", "publish"}

TipTree(h) == IF h = <<>> THEN EmptyTree ELSE h[Len(h)].tree

NewCommit(h, t, merge, by) ==
    [base |-> TipTree(h), tree |-> t, merge |-> merge, by |-> by, at |-> Len(h)]

Prefix(h, g) == Len(h) <= Len(g) /\ \A i \in 1 .. Len(h) : h[i] = g[i]

\* The commits of the checkout that cannot be reached from the remote's branch.
Published(i) == i <= Len(remote) /\ \A j \in 1 .. i : local[j] = remote[j]

Pending == {i \in DOMAIN local : ~Published(i)}

End == pc' = "idle" /\ job' = NoJob

-----------------------------------------------------------------------------
(* Starting.  Without a checkout the remote is cloned; when that fails the *)
(* command goes on with an empty local repository.                         *)

Clone ==
    /\ pc = "idle" /\ ~cloned
    /\ cloned' = TRUE
    /\ \/ /\ origin
          /\ local' = remote /\ fetched' = Len(remote) /\ work' = TipTree(remote)
          /\ UNCHANGED faults
       \/ /\ origin => faults < MaxFaults
          /\ faults' = IF origin THEN faults + 1 ELSE faults
          /\ UNCHANGED <<local, fetched, work>>
    /\ UNCHANGED <<server, staged, tags, origin, pc, job, hand>>

\* writeBackupReadme leaves any file of that name alone.
WithReadme(t) == IF t.readme = "none" THEN [t EXCEPT !.readme = "ours"] ELSE t

StartInit ==
    /\ pc = "idle" /\ cloned
    /\ work' = WithReadme(work)
    /\ job' = [NoJob EXCEPT !.init = TRUE]
    /\ pc' = "commit"
    /\ UNCHANGED <<cloned, local, fetched, staged, tags, server, origin, hand, faults>>

\* validateSnapshotInputs: a ciphertext that the checkout's manifest does not
\* list might be anybody's and stops the push.
SnapshotInputs == \A s \in Shards : work.shards[s] # 0 => s \in Listed(work.manifest)

StartPush ==
    /\ pc = "idle" /\ cloned
    /\ work.manifest.state # "bad"
    /\ SnapshotInputs
    /\ work' = WithReadme(work)
    /\ \E e \in Exports :
           job' = [NoJob EXCEPT !.export = e, !.old = work.manifest.size]
    /\ pc' = "write"
    /\ UNCHANGED <<cloned, local, fetched, staged, tags, server, origin, hand, faults>>

-----------------------------------------------------------------------------
(* Writing the snapshot into the checkout.                                 *)

WriteShard ==
    /\ pc = "write"
    /\ \E s \in Shards :
           /\ job.export[s] \notin {0, work.shards[s]}
           /\ work' = [work EXCEPT !.shards[s] = job.export[s]]
    /\ UNCHANGED <<cloned, local, fetched, staged, tags, server, origin, pc, job, hand, faults>>

\* Files the new manifest does not list.
Stale == {s \in Shards : job.export[s] = 0 /\ work.shards[s] # 0}

WriteManifest ==
    /\ pc = "write"
    /\ \A s \in Shards : job.export[s] \in {0, work.shards[s]}
    /\ work' = [work EXCEPT !.manifest = [state |-> "good", size |-> job.export]]
    /\ pc' = IF Stale = {} THEN "commit" ELSE "prune"
    /\ UNCHANGED <<cloned, local, fetched, staged, tags, server, origin, job, hand, faults>>

Prune ==
    /\ pc = "prune"
    /\ \E gone \in SUBSET Stale :
           /\ gone = {} => Stale = {}
           /\ work' = [work EXCEPT !.shards = [s \in Shards |-> IF s \in gone THEN 0 ELSE @[s]]]
           /\ pc' = IF gone = Stale THEN "commit" ELSE "prune"
    /\ UNCHANGED <<cloned, local, fetched, staged, tags, server, origin, job, hand, faults>>

-----------------------------------------------------------------------------
(* Committing what wacrawl owns, and nothing else that is in the checkout  *)
(* or staged.                                                              *)

\* Faulty: the manifest that was found is forgotten.
OwnedNow == {s \in Shards : job.export[s] > 0}

\* ownedArtifactPaths of the manifest that was found and the one written.
Owned == {s \in Shards : job.old[s] > 0 \/ job.export[s] > 0}

Tracked(s) == TipTree(local).shards[s] # 0

\* ownedPathspecs: the owned artifacts that exist or ever were tracked.
Pathspecs == {s \in Owned : work.shards[s] # 0 \/ Tracked(s)}

\* prepareOwnedDeletions takes owned deletions out of the index again.
Unstaged(specs) == staged \ specs

\* CommitPaths needs every path it is given on disk or in the index.
Committable(specs) ==
    \A s \in specs : work.shards[s] # 0 \/ s \notin Unstaged(specs)

\* Faulty: the tree of the commit is built from its paths alone.
CommitPathsOnly(specs) ==
    [work EXCEPT !.shards = [s \in specs |-> work.shards[s]]]

CommitTree(specs) ==
    LET head == TipTree(local)
    IN  [head EXCEPT
           !.readme   = IF work.readme = "ours" THEN "ours" ELSE @,
           !.manifest = IF job.init THEN @ ELSE work.manifest,
           !.shards   = [s \in Shards |-> IF s \in specs THEN work.shards[s] ELSE @[s]]]

\* A commit can fail, as on a full disk: here, once MaxCommits are reached.
CommitPaths(specs) ==
    LET t == CommitTree(specs)
    IN  \/ t = TipTree(local) /\ UNCHANGED local
        \/ /\ t # TipTree(local) /\ Len(local) < MaxCommits
           /\ local' = Append(local, NewCommit(local, t, FALSE, "wacrawl"))

\* validateCiphertextFile
NoPlaintext(specs) == \A s \in specs : work.shards[s] # Plain

\* --no-push, --tag and whether there is a remote matter from here on.
CommitOwned ==
    /\ pc = "commit"
    /\ NoPlaintext(Pathspecs) /\ Committable(Pathspecs)
    /\ CommitPaths(Pathspecs)
    /\ staged' = Unstaged(Pathspecs)
    /\ \E publish \in {FALSE, origin}, t \in Tags \cup {None} :
           /\ job.init => t = None
           /\ IF publish \/ t # None
              THEN /\ pc' = IF publish THEN "verify" ELSE "tag"
                   /\ job' = [job EXCEPT !.publish = publish, !.tag = t]
              ELSE End
    /\ UNCHANGED <<cloned, fetched, work, tags, server, origin, hand, faults>>

CommitFails ==
    /\ pc = "commit"
    /\ \/ ~NoPlaintext(Pathspecs) /\ UNCHANGED staged
       \/ /\ ~Committable(Pathspecs) \/ Len(local) = MaxCommits
          /\ staged' = Unstaged(Pathspecs)
    /\ End
    /\ UNCHANGED <<cloned, local, fetched, work, tags, server, origin, hand, faults>>

-----------------------------------------------------------------------------
(* Verifying the unpublished history, as publicationManifest,              *)
(* verifyManifestArtifacts and the paths of diff-tree tell it.             *)

Acceptable(t) == t.manifest.state # "bad"

\* Faulty: what a commit removes belongs to nobody.
OwnedByCommit(c) == Listed(c.tree.manifest)

OwnedByHistory(c) == Listed(c.base.manifest) \cup Listed(c.tree.manifest)

Changed(c) == {s \in Shards : c.tree.shards[s] # c.base.shards[s]}

\* Faulty: only the artifacts a commit changes are looked at.
VerifiedChanges(c) ==
    /\ ~c.merge
    /\ Acceptable(c.tree) /\ Acceptable(c.base)
    /\ c.base.manifest.state = "good" => c.tree.manifest.state = "good"
    /\ c.tree.notes = c.base.notes
    /\ c.tree.readme \in {c.base.readme, "none", "ours"}
    /\ Changed(c) \subseteq OwnedByHistory(c)
    /\ \A s \in Changed(c) : c.tree.shards[s] \in {0, c.tree.manifest.size[s]}

Verified(c) ==
    /\ ~c.merge
    /\ Acceptable(c.tree) /\ Acceptable(c.base)
    /\ c.base.manifest.state = "good" => c.tree.manifest.state = "good"
    /\ Complete(c.tree)
    /\ c.tree.notes = c.base.notes
    /\ c.tree.readme \in {c.base.readme, "none", "ours"}
    /\ Changed(c) \subseteq OwnedByHistory(c)
    /\ \A s \in Changed(c) : c.tree.shards[s] \in {0, c.tree.manifest.size[s]}

\* The tip of the remote's branch must be an object the checkout has.
BaselineKnown == Prefix(remote, local) \/ fetched = Len(remote)

\* Faulty: a bound that is one too low.
FewerVerified ==
    /\ BaselineKnown
    /\ Cardinality(Pending) < MaxPending
    /\ \A i \in Pending : Verified(local[i])

HistoryVerified ==
    /\ BaselineKnown
    /\ Cardinality(Pending) <= MaxPending
    /\ \A i \in Pending : Verified(local[i])

Verify ==
    /\ pc = "verify"
    /\ IF HistoryVerified
       THEN /\ pc' = IF job.tag = None THEN "publish" ELSE "tag"
            /\ UNCHANGED job
       ELSE End
    /\ UNCHANGED <<checkout, server, origin, hand, faults>>

-----------------------------------------------------------------------------
(* Tagging and publishing.                                                 *)

Tip == local[Len(local)]

\* CreateImmutableTag: a tag is never moved.
TagSnapshot ==
    /\ pc = "tag"
    /\ IF local # <<>> /\ tags[job.tag] \in {None, Tip}
       THEN /\ tags' = [tags EXCEPT ![job.tag] = Tip]
            /\ IF job.publish
               THEN pc' = "publish" /\ UNCHANGED job
               ELSE End
       ELSE End /\ UNCHANGED tags
    /\ UNCHANGED <<cloned, local, fetched, work, staged, server, origin, hand, faults>>

RemoteAccepts ==
    /\ Prefix(remote, local)
    /\ job.tag # None => rtags[job.tag] \in {None, tags[job.tag]}

\* Faulty: branch and tag are pushed one by one, and a refused branch does not
\* hold back the tag.
PushTagAnyway ==
    /\ pc = "publish"
    /\ IF Prefix(remote, local)
       THEN /\ remote' = local
            /\ vouched' = vouched \cup (Len(remote) + 1 .. Len(local))
            /\ fetched' = Len(local)
       ELSE UNCHANGED <<remote, vouched, fetched>>
    /\ rtags' = IF job.tag # None /\ rtags[job.tag] = None
                THEN [rtags EXCEPT ![job.tag] = tags[job.tag]] ELSE rtags
    /\ End
    /\ UNCHANGED <<cloned, local, work, staged, tags, origin, hand, faults>>

\* PushAtomic: branch and tag, or neither.
PushAtomic ==
    /\ pc = "publish"
    /\ IF RemoteAccepts
       THEN /\ remote' = local
            /\ vouched' = vouched \cup (Len(remote) + 1 .. Len(local))
            /\ rtags' = IF job.tag = None THEN rtags
                        ELSE [rtags EXCEPT ![job.tag] = tags[job.tag]]
            /\ fetched' = Len(local)
       ELSE UNCHANGED <<server, fetched>>
    /\ End
    /\ UNCHANGED <<cloned, local, work, staged, tags, origin, hand, faults>>

\* The remote cannot be reached, or refuses.
Refused ==
    /\ pc \in {"verify", "publish"} /\ faults < MaxFaults
    /\ faults' = faults + 1
    /\ End
    /\ UNCHANGED <<checkout, server, origin, hand>>

\* The command is killed; files, commits and tags it has made stay.
Kill ==
    /\ pc # "idle" /\ faults < MaxFaults
    /\ faults' = faults + 1
    /\ End
    /\ UNCHANGED <<checkout, server, origin, hand>>

-----------------------------------------------------------------------------
(* The user in the checkout, and other machines.                           *)

ByHand ==
    /\ cloned /\ hand < MaxHand
    /\ pc = "idle" \/ Concurrent
    /\ hand' = hand + 1
    /\ UNCHANGED <<cloned, tags, rtags, vouched, origin, pc, job, faults>>

\* What a user may do to the files.
Edits ==
    {[work EXCEPT !.notes = TRUE], [work EXCEPT !.readme = "theirs"],
     [work EXCEPT !.manifest = NoManifest], [work EXCEPT !.manifest.state = "bad"]}
    \cup {[work EXCEPT !.shards[s] = content] : s \in Shards, content \in {0, Plain}}

HandEdit ==
    /\ ByHand
    /\ work' \in Edits
    /\ UNCHANGED <<local, fetched, staged, remote>>

\* git rm
HandRemove ==
    /\ ByHand
    /\ \E s \in Shards \ staged :
           /\ Tracked(s)
           /\ work' = [work EXCEPT !.shards[s] = 0]
           /\ staged' = staged \cup {s}
    /\ UNCHANGED <<local, fetched, remote>>

\* git add -A, git commit, after an edit or not
HandCommit ==
    /\ ByHand
    /\ work' \in Edits \cup {work}
    /\ work' # TipTree(local) /\ Len(local) < MaxCommits
    /\ local' = Append(local, NewCommit(local, work', FALSE, "hand"))
    /\ staged' = {}
    /\ UNCHANGED <<fetched, remote>>

\* git push
HandPush ==
    /\ ByHand
    /\ origin /\ Prefix(remote, local) /\ Len(remote) < Len(local)
    /\ remote' = local
    /\ fetched' = Len(local)
    /\ UNCHANGED <<local, work, staged>>

\* git pull, which merges what both sides have committed.
HandMerge ==
    /\ ByHand
    /\ ~Prefix(remote, local) /\ ~Prefix(local, remote)
    /\ work = TipTree(local)
    /\ Len(remote) + Cardinality(Pending) < MaxCommits
    /\ LET mine == SubSeq(local, Len(local) - Cardinality(Pending) + 1, Len(local))
       IN  local' = Append(remote \o mine,
                           NewCommit(remote \o mine, work, TRUE, "hand"))
    /\ fetched' = Len(remote)
    /\ staged' = {}
    /\ UNCHANGED <<work, remote>>

AddOrigin ==
    /\ ~origin /\ origin' = TRUE
    /\ UNCHANGED <<checkout, server, pc, job, hand, faults>>

\* backup pull and backup status bring a clean checkout up to date;
\* backup pull --ref only fetches.
Fetch ==
    /\ pc = "idle" /\ cloned /\ origin
    /\ fetched' = Len(remote)
    /\ \/ UNCHANGED <<local, work>>
       \/ /\ Prefix(local, remote) /\ work = TipTree(local)
          /\ local' = remote
          /\ work' = TipTree(remote)
    /\ staged' = IF local' = local THEN staged ELSE {}
    /\ UNCHANGED <<cloned, tags, server, origin, pc, job, hand, faults>>

\* Another machine publishes a snapshot.
OtherPush ==
    /\ Len(remote) < MaxCommits
    /\ Cardinality({i \in DOMAIN remote : remote[i].by = "other"}) < MaxOthers
    /\ \E e \in Exports :
           LET t == [readme |-> "ours", manifest |-> [state |-> "good", size |-> e],
                     shards |-> e, notes |-> TipTree(remote).notes]
           IN  remote' = Append(remote, NewCommit(remote, t, FALSE, "other"))
    /\ UNCHANGED <<checkout, vouched, rtags, origin, pc, job, hand, faults>>

-----------------------------------------------------------------------------
Init ==
    /\ cloned = FALSE /\ origin \in BOOLEAN
    /\ remote = <<>> /\ vouched = {} /\ rtags = [t \in Tags |-> None]
    /\ local = <<>> /\ fetched = 0
    /\ work = EmptyTree /\ staged = {} /\ tags = [t \in Tags |-> None]
    /\ pc = "idle" /\ job = NoJob
    /\ hand = 0 /\ faults = 0

\* The steps a running command takes on its own.
Step ==
    \/ WriteShard \/ WriteManifest \/ Prune \/ CommitOwned \/ CommitFails
    \/ Verify \/ TagSnapshot \/ PushAtomic

Users ==
    \/ HandEdit \/ HandRemove \/ HandCommit \/ HandPush \/ HandMerge
    \/ AddOrigin \/ Fetch

Next ==
    \/ Clone \/ StartInit \/ StartPush \/ Step \/ Refused \/ Kill
    \/ Users \/ OtherPush

Spec == Init /\ [][Next]_vars

FairSpec == Spec /\ WF_vars(Step)

-----------------------------------------------------------------------------
\* Type correctness.
TypeOK ==
    /\ cloned \in BOOLEAN /\ origin \in BOOLEAN
    /\ remote \in Seq(Commit) /\ local \in Seq(Commit)
    /\ vouched \subseteq DOMAIN remote
    /\ fetched \in 0 .. Len(remote)
    /\ rtags \in [Tags -> Commit \cup {None}]
    /\ tags \in [Tags -> Commit \cup {None}]
    /\ work \in Tree /\ staged \subseteq Shards
    /\ pc \in Labels
    /\ job \in [init : BOOLEAN, publish : BOOLEAN, tag : Tags \cup {None},
                export : [Shards -> Nat], old : [Shards -> Nat]]
    /\ hand \in Nat /\ faults \in Nat

Publication == INSTANCE PublishedBackup WITH remote <- remote, vouched <- vouched

\* Pushing implements the promise of PublishedBackup: whatever the user has
\* committed by hand and wherever earlier pushes were killed or refused, all
\* that a push publishes are sound snapshots, and no history is rewritten
\* (verifyPendingHistory).
PublishesSoundly == Publication!Spec

Tidy(t) == t.manifest.state # "bad" /\ t.shards = t.manifest.size

\* wacrawl does not refuse its own work: a commit it makes on a tree that its
\* manifest describes passes the verification of every later push, also when
\* an earlier push was killed halfway and the user has edited the checkout.
OwnCommitsVerify ==
    \A i \in DOMAIN local :
        local[i].by = "wacrawl" /\ Tidy(local[i].base) => Verified(local[i])

\* Pushes that are not killed, in a checkout nobody touches, commit what the
\* manifest lists and remove what it no longer lists (ownedPathspecs of the
\* old and the new manifest).  A push that is killed after it replaced the
\* manifest may leave a stale shard for good: the next one no longer reads of it.
StaleAreRemoved ==
    faults = 0 /\ hand = 0 =>
        \A i \in DOMAIN local : local[i].by = "wacrawl" => Tidy(local[i].tree)

\* A tag names a complete snapshot, and a published tag a published one, also
\* when the push that made it was refused and another came in between.
TagsNameSnapshots ==
    \A t \in Tags :
        /\ tags[t] # None => /\ tags[t].tree.manifest.state = "good"
                             /\ Complete(tags[t].tree)
        /\ rtags[t] # None => \E i \in DOMAIN remote : remote[i] = rtags[t]

\* Only wacrawl has committed since the last publication, and not too often.
OnlyOwnPending ==
    /\ Prefix(remote, local)
    /\ Cardinality(Pending) <= MaxPending
    /\ \A i \in Pending : local[i].by = "wacrawl" /\ Tidy(local[i].base)

\* What refused pushes left behind is published, as long as the user goes on
\* pushing: commits of earlier pushes never stand in the way of later ones.
EventuallyPublished ==
    /\ []<>(pc = "verify" /\ job.tag = None)
    /\ <>[]OnlyOwnPending
    => []<>(remote = local)
=============================================================================
