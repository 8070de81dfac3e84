# Formal models of wacrawl

wacrawl archives the messages of WhatsApp Desktop. It copies the Desktop's SQLite databases, merges
what it reads into an archive of its own, searches and serves that archive, and pushes encrypted
backups of it to Git. This directory holds TLA+ models of that program, TLC configurations that check
them on small instances, and proofs of their main properties for all instances.

`PROJECT.json` says which lines of the source each definition stands for, which properties each run
checks, and which faulty variant of the code (definitions commented "Faulty") each property tells from
the real one.

## Inventory

| Part | State | Operations | What makes it correct | Model |
|---|---|---|---|---|
| Import pipeline (`store/import.go`, `tombstone.go`, `message_write.go`) | chats, groups, participants, messages, revisions, search index | `MergeAll`, `ReplaceAll`, `ImportSnapshot` | deletions reach whole families, nothing is lost, tombstones are final and have causes, a repeat changes nothing | `ArchiveLifecycle` |
| Backup rows (`store/export.go`) | exported rows | `ExportAll`, `ImportSnapshot` | a restore is exact | `ArchiveLifecycle` |
| Archive sync (`cli/sync.go`, `whatsappdb/desktop.go`, `store.Status`) | `sync_state`, SQLite's write lock | automatic and forced syncs, imports, restores, pushes, pulls, each a process | staleness is noticed, accounts do not mix, the archive catches up | `ArchiveSync` |
| Source resolution (`store/sources.go`) | `message_sources`, store fingerprint | resolve, record, adopt, restore | one event per message across row reuse, relogins and links; no import is refused for good | `SourceResolve` |
| Source binding (`store/identity.go`, `whatsappdb/identity.go`) | path, account and store fingerprints | identify a capture, `validateImportSource` | a source of another account is never merged, the archive's own account never refused | `SourceBinding` |
| Snapshot capture (`whatsappdb/source.go`) | temporary copies | copy the databases one after the other | rows and account belong together | `SourceBinding` (in part), one step in `ArchiveSync` |
| Media archive and restore (`whatsappdb/media_copy.go`, `media_paths.go`, `store/media.go`, `backup/media.go`) | content-addressed files, media directory, archived paths | copy, link, retain, collect, replace around a transaction | paths in the archive name the right bytes after any failure | `MediaArchive` |
| Backup repository (`backup/backup.go`, `git.go`, `push_safety.go`, `git_scope.go`) | files, index, commits, tags, remote | write, commit, verify, tag, push, retry | only verified owned files are published, refused pushes are made up for | `BackupPush`, `PublishedBackup` |
| Queries and web viewer (`store/query.go`, `webui`) | the page in the browser, requests under way | pages with a cursor, navigation, refresh, search | a conversation is shown in order and without gaps, all of it can be reached | `WebViewer` (in part) |
| Contact-link evidence, readers, migrations, encryption, command line, generated SQL | see Not modelled | | | |

How the parts interact: every command is a process. It opens the archive (and migrates it), may compare
`sync_state` with the Desktop files, and imports if the source is ahead: capture, read, validate, copy
media, then one immediate transaction that checks the source's identity, resolves event identities,
prepares tombstones, upserts, sweeps and records. A push exports in a read transaction, collects media
and commits to Git; a pull fetches, swaps the media directory and replaces the archive. The viewer is a
server whose handlers read the archive and a page that puts their answers together. The shared state is
the archive's SQLite file, the Desktop databases and media files (written by WhatsApp at any time), the
media directory and the backup repository, in which the user may work by hand.

The hard behaviours are long sequences of legal imports; identifiers that are reused, replaced or
linked late; processes that race between a check and its transaction; watermarks that are times of
something else; answers that overtake each other; refused pushes; and kills. `PROJECT.json` lists them,
each at its line, with the properties that cover them.

## Modules

### ArchiveLifecycle

The rows of the archive and the import pipeline over them. `ImportAll(base, in, t)` is one transaction
of `store.importAll` on rows `base` with input `in` at second `t`. Its stages have the names of the
code: `PreparedChats`, `PreparedGroups`, `PreparedParts` and `PreparedMsgs`
(`prepareImportTombstones`, `prepareStoredParentTombstones`), `UpsertChat`, `UpsertChild`, `UpsertMsg`
and `UpsertRevs`, and `TombstoneSubordinates`, the final sweep. `Merge`, `ReplaceAll`, `ExportAll` and
`ImportSnapshot` are the operations; `Tick` is the clock, in whole seconds as in the code.

What is abstracted: a payload is one value or empty; a message keeps its chat (an event that is another
message is rejected: `SourceResolve`); `deleted_at` is kept as a status, and only chats, whose activity
is compared with times, keep a time `at`: their last activity or, when deleted, the deletion. The
deletion's source and reason, contact rows (never tombstoned by a native source) and display fields
are left out. A snapshot is any combination of rows, whether or not their parents are in it: the readers
put no such condition on it.

### ArchiveSync

Concurrent commands on one archive, step by step: open, the separate reads of `Status` (`ReadAge`,
`ReadWatermark`, `ReadRows`), `Discover`, `StartImport` (the watermark is taken), `Copy`, `Validate`,
`Begin` (the write lock, and the second check of the account), `Commit`; `Read`, `Publish` and `Fetch`
for backups; `Busy` for the busy timeout; `Stop` for a kill or a cancelled context. `SourceWrite` is
WhatsApp, which edits, adds or is logged in to another account at any time.

The source's content is a version, the time of its last write. The clock ticks only when the source is
written, so times are equal exactly when nothing was written between them; file times are taken to be
as fine as that. The databases are copied in one step (`SourceBinding` looks into it), and `Discover`
reads row count and file times in one step. crawlkit, which compares file times and copies databases, is
not in the repository and is modelled by how it is used. A pull's watermark is the time its manifest was
written, after the export, which is what `Pull` passes on as `manifest.Exported` (`backup.go:206`).

### SourceResolve

`resolveImportMessages`: which event a row of a store is. `Matches` has the code's order: the row is
mapped (`Known`), the row was this event before its attachment changed (`RowMatches`), it is the only
row and the event the only event that look alike (`UniqueMatches`, up to contact links), or the archive
is just being given its first store (`LegacyMatches`); otherwise `Resolve` makes a new event. `Merge`
then validates (`Accepted`), writes (`Merged`) and records the mappings (`Recorded`).
`MergeAccountless` is an import from before accounts were recorded and `Restore` is
`import --restore`.

Event ids are hashes and taken to be injective. What identifies a message is a "core", a value of
which the model knows whether all fields are known (`Complete`) and what it becomes when LIDs are
replaced by linked numbers (`PN`). The code's loop also counts the events it has given to earlier rows
of the snapshot as claimed; the model gives every row its event at once, and `ImportsAreAccepted`
(proved: `NothingIsRefused`) shows that no two rows ever want the same. One path is left out:
`resolveReusedReactionIdentities` on an archive that has rows and no store fingerprint.

### SourceBinding

To which account an archive belongs. The app keeps the account in `Axolotl.sqlite` and the messages in
`ChatStorage.sqlite`, rewrites each when it likes (`RewriteAxolotl`, `RewriteChats`), and the user logs
in to other accounts at any time (`Login`). An import is `Start` (the first copy of the account),
`CopyChats`, and `Archive`: the second copy of the account, `Extractable` and `Identity`
(`readAccountIdentity` over both), `Admitted` (`validateImportSource`, rule by rule: `AccountFits`,
`BindingFits`, `StoreFits`, `PathFits`) and `Recorded` (the `sync_state` of `importAll`). `Fail` is a
refused source, an error or a kill. The archive starts as new, restored, or one of an earlier version
that lacks any of its four identities.

Fingerprints are injective. A copy may hold anything the app may have written for the account the file
is of, an account that was left included. Only the user knows whose an unbound archive is:
`--adopt-source` is taken to be used honestly (`MayAdopt`). The path and `--restore` are chosen in the
last step because nothing before depends on them. `Contacts.sqlite`, whose rows name no account, is
left out.

### MediaArchive

Imports with and without `--copy-media`, pushes and pulls on one media directory that nothing locks.
An import opens a file, reads it, looks at it again and links the complete copy (`OpenFile`, `ReadFile`,
`LinkObject`). Its transaction (`BeginImport`, `CommitImport`) holds the archive's write lock (`Locked`)
and goes through the messages (`UpsertRow`): `Retainable` is the check of `retainArchivedMedia` that the
archive has a copy of the same attachment, and `CompareCopies` the comparison with a copy just made. The
media directory is not locked by it, so a pull may move the directory between those checks and the
commit. `import --restore` deletes the rows first and retains nothing. A push exports the
rows before it collects the files (`StartPush`, `Collect`, `WriteBackup`). A pull is
`replaceMediaDuring`: `MoveAside`, `Install`, `Replace` (the transaction), `ReplaceFails` and `PutBack`,
`Cleanup`. WhatsApp downloads, rewrites and evicts files, withdraws messages and removes their chats
(`WriteSource`), and any command is killed between any two steps (`Stop`). Objects are named by their
content, so an object is its content, and `Torn` is a mixture of two; the link of a copy and the check
that it is there are one step. An attachment stands for what `sameAttachment` compares, and `Identifiable`
are those with a type and with a URL or a size. All commands use one regular media root, and a snapshot
lists every message: a row it does not list is not written.

### BackupTree, PublishedBackup and BackupPush

`BackupTree` says what a commit is, by its tree and the tree of its first parent, and what makes it a
sound snapshot. `PublishedBackup` is the abstract specification of a backup repository as others see
it: a branch that only grows, by sound commits when `backup push` publishes them, and by anything when
others do. `BackupPush` is `backup init` and `backup push` step by step, in one checkout: `Clone`,
`StartInit`, `StartPush` (with `validateSnapshotInputs`), `WriteShard`, `WriteManifest`, `Prune`,
`CommitOwned` (pathspecs, staged deletions, plaintext checks), `Verify` (`verifyPendingHistory`),
`TagSnapshot`, `PushAtomic`, and failures: `CommitFails`, `Refused`, `Kill`. Beside it the user edits,
removes, stages, commits, merges and pushes by hand, and other machines push. `Publication` is the
instance of `PublishedBackup` that `BackupPush` implements; the remote's branch is the same variable in
both, and `vouched` is a history variable.

The content of a file is the size of its ciphertext, as the manifest records it, or `Plain`. Git and
crawlkit's snapshot writer are modelled by how the code uses them.

### WebViewer

The list of chats and the messages of a conversation, page by page: `Page` and `Before` are the query of
`store.Messages` with its cursor, answered in one step though the code reads the contact's chats in a
statement of its own before, `Listed` puts the rows it selects in order, oldest first,
`ServeMessages` and `ServeChats` are the handlers, and the rest is `app.js`: `SelectChat`, `Search`,
`Back`, `Refresh`, `LoadOlder`, and `Receive` with the view number that tells late answers apart
(`Current`). Requests are answered in any order, at any time, or fail (`Disturb`); `Import` changes the
archive between any two of them, linking a contact's chats included. There are finitely many rows, and
`source_pk` is unique, as in the table. What a search finds, media previews, tokens, headers and
rendering are left out.

### Proof modules and MC modules

`ArchiveLifecycleProofs`, `ArchiveHistoryProofs`, `ArchiveSyncProofs`, `SourceResolveProofs`,
`SourceBindingProofs`, `MediaArchiveProofs`, `BackupPushProofs` and `WebViewerProofs` extend the modules
they prove about; `ArchiveHistoryProofs` is the second half of the proofs about `ArchiveLifecycle`.
The `MC` modules only name the values that configurations use.

## Runs

| Run | Checks | Instance |
|---|---|---|
| `group_lifecycle` | `TypeOK`, `NoOrphans`, `LiveIndexed`, `RestoreIsExact`, `ImportIsIdempotent`, `NothingLost`, `TombstonesAreSticky`, `DeathHasCause` | a group, a member, a message with two payloads; three seconds; merges only |
| `alias_lifecycle` | `NoOrphans`, `DeathHasCause` | the phone number and LID chats of a contact, a message in the LID chat, and a link to another LID that contradicts the first |
| `group_restore` | `PullRestoresBackup` | a group and a message, with one restore or pull among the merges |
| `sync_restores` | `TypeOK`, `AheadIsVisible`, `EventuallyCurrent` | an automatic sync, a forced sync and a restore; two accounts, a write after the first, one kill or failed look; under fairness |
| `sync_backups` | `OneAccount` | a restore, a push and a pull |
| `source_resolve` | `TypeOK`, `OneRowPerEvent`, `SameMessage`, `ImportsAreAccepted`, `ReloginKeepsEvents`, `AdoptionKeepsEvents` | two stores of two rows, two events, in three worlds: rows reused for a message, its attachment, a reaction and an incomplete message; a message known by LID and by number; a message whose attachment changes and whose chat is removed |
| `source_binding` | `TypeOK`, `MessagesAreOwned`, `NeverLockedOut` | two accounts, a legacy identifier that may be a leftover, three messages received and sent, two stores, two paths |
| `media_archive` | `TypeOK`, `NoTornObjects`, `RowsHaveMedia`, `NothingIsLost`, `BackupsCarryMedia`, `CopiesAreKept` | two imports, a push and a pull; one message, two contents; one write of WhatsApp, one command beside a pull, one kill, failed transaction or import that restores |
| `backup_push` | `TypeOK`, `OwnCommitsVerify`, `StaleAreRemoved`, `TagsNameSnapshots`, `PublishesSoundly`, `EventuallyPublished` | two shards, of which one comes and goes, a tag; one act by hand, one push from elsewhere, one kill or refusal; under fairness |
| `web_viewer` | `TypeOK`, `ShowsAnInterval`, `NothingIsLeftOut`, `EverythingIsReached` | a contact's two chats, four messages, two of them of one second and one undated; pages of one message; one import, one failed request, three views; under fairness |
| `alias_new_lifecycle`, `sync_after_pull` | one property each, violated | see Findings |

Bounds. In `ArchiveLifecycle` three seconds suffice for a tombstone, activity after it and an import
after that; two revisions let an edit be followed by a withdrawal, and one message per chat is enough
because messages meet only through their chats. In `ArchiveSync` a write after the first version gives
an older capture and a newer one, or a login to the other account; three processes give a check, its
transaction and another's commit in between. In `SourceResolve` two events per archive is the least at
which events can be confused, two rows the least at which a row can be reused while the other message
stays, and two stores make a relogin. In `SourceBinding` a received message names its account and a sent
one does not; logins and rewrites are unbounded. In `MediaArchive` messages share nothing but the media
directory, so one is enough, two imports copy at the same time and wait for each other's transaction,
and the command beside a pull may start before or after it (`MaxCrossings` counts such meetings). Its
one attachment is one that can be kept; what happens to the others is left to the theorems. In
`BackupPush` `MaxPending` is 2 for the code's 128: two unpublished commits (of a push without a remote,
with `--no-push`, refused, or overtaken by another machine) reach the limit and a third passes it; one
shard that goes and comes back makes stale files and staged deletions. In `WebViewer` pages of one
message put a page boundary inside a second, and three views let two answers of left views be late.
`MaxTime`, `MaxRevisions`, `MaxRestores`, `MaxWrites`, `MaxEvents`, `MaxCrossings`, `MaxCommits`,
`MaxOthers`, `MaxHand`, `MaxViews`, `MaxImports` and `MaxFaults` are the bounds that stand in guards;
the proofs hold for every value of them.

Symmetry is used in runs of safety properties only. Deadlock is checked in every run: some import,
command or request is always possible.

Fairness. `sync_restores` assumes that the machine runs every process (`WF_vars(Step(p))`): each step
is a system call or a transaction that ends, or gives up after the busy timeout. It assumes nothing
about users and WhatsApp: that somebody keeps running an automatically syncing command on an archive
older than `--sync-max-age` (`SyncsKeepRunning`), and that the archive is not bound to another account
than the source's, are premises of `EventuallyCurrent`. `backup_push` assumes that a push that runs goes
on (`WF_vars(Step)`), as nothing in it waits; that the user goes on pushing, and that only wacrawl has
committed since the last publication, are premises of `EventuallyPublished`. `web_viewer` assumes that
requests are answered and answers received, which the browser does, and that the reader goes on pressing
the button for older messages while there is one. That writes, refusals and failures are finitely many
is what their bounds say.

## What the properties say

- `NoOrphans`: no live group of a deleted chat, no live participant of a deleted group, no live message
  of a chat that is deleted or linked to a deleted one, whatever order rows, parents and links arrive in.
- `RestoreIsExact`, `PullRestoresBackup`: rows that went through the pipeline come out of it unchanged,
  so a backup pulled now or later is the archive that was pushed.
- `NothingLost`, `TombstonesAreSticky`, `DeathHasCause`: merges keep every payload, never touch a deleted
  message, and delete one only for a withdrawn payload or a deleted chat it belongs to.
- `LiveIndexed`: search finds a live message by its current text.
- `ImportIsIdempotent`: a snapshot imported twice is imported once.
- `AheadIsVisible`: an archive that does not show the newest source is seen to be behind.
- `OneAccount`: no archive or backup mixes accounts, although restores rebind it between an import's
  check and its transaction.
- `EventuallyCurrent`: an older snapshot may overwrite a newer one, but the archive catches up.
- `OneRowPerEvent`, `SameMessage`, `ImportsAreAccepted`: rows are not joined to the wrong event, and no
  history of relogins leads to a snapshot that is refused for ever.
- `ReloginKeepsEvents`, `AdoptionKeepsEvents`: messages that can be told apart keep their events in a new
  store, and a first adoption keeps all of them.
- `MessagesAreOwned`: whatever logins happen in the middle of captures, every message of an archive is of
  the account it is bound to. `NeverLockedOut`: whatever was adopted, restored and imported before, a
  bound archive admits every readable source of its account at its path.
- `NoTornObjects`, `BackupsCarryMedia`: what is kept is whole, and in the backups of the rows that name
  it. `CopiesAreKept`: an import keeps the archive's copy of an attachment that is the same, also a copy
  that another import added since this one read its snapshot, with the exceptions below. `RowsHaveMedia`, `NothingIsLost`: pulls that fail lose nothing, pulls
  that are killed leave all there is in the media directory or beside it.
- `PublishesSoundly`: pushes implement `PublishedBackup`. `OwnCommitsVerify`: no push refuses what an
  earlier one committed. `StaleAreRemoved`, `TagsNameSnapshots`: what the branch and its tags hold.
  `EventuallyPublished`: refused pushes are made up for, up to the limit.
- `ShowsAnInterval`: a conversation is shown in order, once, and without gaps, although answers are late
  and imports come in between. `NothingIsLeftOut`: no empty or repeated page, no late answer and no
  refresh makes the button for older messages disappear, or the list empty, while there is more to load.
  `EverythingIsReached`: whoever goes on loading sees all of it.

Exceptions that the properties name, and what they stand for in the code:

- A tombstoned message keeps its archived type: if its row shows another type later, the message is
  archived a second time after a relogin (`ReloginKeepsEvents`, tombstoned messages).
- An archive that has a store fingerprint but no account, adopted later, gives its incomplete messages
  new events, since `LegacyMatches` applies only while there is no store (`sources.go:195-213`);
  `AdoptionKeepsEvents` speaks of archives without one.
- A store without incoming messages says nothing about its account. Captured while the app is between
  two accounts, or leaves one and comes back, it is archived under the wrong one (`excused`).
- A pull and another command that run at the same time may leave rows without their objects
  (`crossed`), and a pull killed between its renames and its commit leaves the directory and the rows
  apart until the next pull (`halfway`); nothing is lost then, but the previous files are in a hidden
  directory nothing looks for.
- The archive forgets a copy, which stays in the directory, in four cases (`CopiesAreKept` excepts them).
  `import --restore` passes no media root and has deleted the rows (`import.go:70-84`, `195-198`). A
  message that is archived as deleted is not looked at (`message_write.go:37`): one that was withdrawn
  has lost its attachment, and one whose chat was removed gets the path of the snapshot. Attachments with
  neither a URL nor a size are never the same (`media.go:12`). And the file checks of an import that meets
  a pull (`crossed`), or comes after one that was killed halfway, look at another directory than the
  archive's.
- A push killed after it replaced the manifest leaves a stale shard in the branch for good; one killed
  before it leaves an unlisted shard, on which later pushes stop until it is removed by hand. What is
  published stays sound.
- The verification of a push covers what was committed when it ran: a user who commits in the checkout
  between it and the push publishes that commit too (`Concurrent`, for which `PublishesSoundly` is not
  claimed).
- In the viewer, undated messages beyond the first page have no cursor; the button for older messages is
  missing when as many are shown as the last list of chats counted, for one of the contact's chats
  (`Reached` says both); and a refresh that fails drops the answer the view was waiting for (`broken`).

## Proofs

All are checked by TLAPS, for every value of the constants that satisfies the modules' assumptions.

*ArchiveLifecycle.* `TypeCorrect` goes stage by stage: each stage of the pipeline maps well-typed rows
to well-typed rows. `FamiliesAreClosed` needs no history: the sweep that ends every import closes the
families of any rows, because a group it kills is seen by the participants of the same sweep, and
`DeadParents` depends on chats and links, which the sweep leaves alone. `RestoresAreExact` is proved
from `TypeOK` and `NoOrphans`: on the export of a closed archive each stage is the identity but for the
index. `PullsRestore` needs the invariant that backups are closed too, since they are exports of closed
archives. `LiveAreIndexed` is inductive with `TypeOK`. `TombstonesStick`, `NothingIsLost` and
`DeathsHaveCauses` are action properties of a merge, each from lemmas about `UpsertMsg`, `UpsertRevs`
and the sweep; the last one also follows the links, as aliases of the snapshot's evidence must still be
aliases of the archive's. `ImportsAreIdempotent` compares two imports of one snapshot: what the first
leaves is closed (`FamiliesAreClosed`'s lemma), every row of the snapshot is shown by it or deleted in
it, and upserting a row into such an archive gives the row that is there, so the second upserts nothing
and its sweep, at any later second, finds nothing. `RestoresKeepUp` says that a restore is no fork: an
archive and its restored backup import any later snapshot to the same rows and revisions. It joins
`RestoresAreExact`'s lemma to one that says of every stage that it does not read the index, the one
thing a backup leaves out (`SameButIndex`).

*ArchiveSync.* `TypeCorrect` includes that a process is between `Begin` and `Commit` exactly while it
holds the lock. `StaleIsSeen` says `AheadIsVisible` holds if no process pulls, with the invariant that
every captured watermark is no later than the capture and a capture that is not the newest version is
older than the source's last write. From the same invariant, `NothingIsOverlooked` is about the check as
it is made, in separate reads: a process that reads the watermark of an archive behind its source holds
a watermark older than the source (`Due`), which no commit and no write between its reads can mend, and
so goes on to import. `AccountsAreApart` uses that a merge waiting to commit has the archive's account,
which nobody can change while it holds the lock; it covers pulls.

*BackupPush.* `PublicationRefined` is the refinement (`Publication`, an `INSTANCE ... WITH`): if the
user does not work in the checkout while a push runs, every step of `BackupPush` is a step of
`PublishedBackup` or leaves the remote alone. The invariant is `Checked`: from the verification on,
every unpublished commit is verified. It is inductive because nobody commits in between and another
machine's push only makes fewer commits unpublished; and that only a growing branch is ever pushed is
what the remote accepts. `VouchedStaySound` then follows from the abstract specification alone: a
snapshot once published stays complete and in place. `OwnWorkVerifies` needs to know what a push has
written when it commits (`Written`: the files are the export and the manifest lists them) and must speak
of the remote's branch too, since a push starts from it (`OwnEverywhere`). `OwnPushesGoThrough` is the
safety half of `EventuallyPublished` and follows from it: with nothing but such commits pending, a push
passes its verification, and one without a tag leaves nothing pending. `TagsAreSnapshots` adds what a
push that tags has verified (`Tagging`). All three assume `~Concurrent`, like the refinement: who
commits between the writing and the commit decides what it holds. `NothingStale` has no such assumption,
since its property speaks of checkouts nobody touches; its invariant `Undisturbed` says that the files
reflect the last commit whenever no push is writing, so that the old manifest a push reads is the one of
the branch. A branch at `MaxCommits` is excepted there: the model ends it, the code does not.

*SourceResolve.* All theorems follow from `Resolvable`: the types, `OneRowPerEvent`, `SameMessage`, and two
parts that no property states. `KeysAreRecorded` says that an event created in a store still has the
mapping that created it: without it, a new event could get the id of an old one whose row was reused.
`UnboundIsRaw` says that an archive without an account has no mappings and at most one event for a row:
without it, `LegacyMatches` could find two. The step of an import is one lemma about where the event of
a row comes from (`ResolveSources`: a mapping, an event that looks alike, a row of an archive without a
store, or nowhere) and one about two rows of a snapshot (`ResolvesApart`): whatever two sources they
have, they have different events. `ReloginKeepsThem` and `AdoptionKeeps` show that the lookup finds
exactly one candidate. `RepeatsAreEmpty` needs to know what a merge leaves of its snapshot (`Settled`:
every row is mapped as it is, and its event, if it is not deleted, is as the row shows it): such a
snapshot resolves to its own mappings, is accepted, and writes what is there, with any links.
`EstablishedStay` rests on mappings being kept and unique: whatever a merge does, a row that ever had an
event gets it again.

*SourceBinding.* `AccountsStayApart` proves `MessagesAreOwned` with the invariant `Ownership`: an import
without a login since its start has files of the account still logged in (`Undisturbed`), after one
login its first copy names another account than the second can (`LeftOnce`), a copied message store has
one owner, and an adoption is by the owner. `IdentityIsOwner` concludes that an account found twice owns
the messages. `NeverLocked` needs only that the two recorded paths agree, which is part of `TypeCorrect`.

*MediaArchive.* `NothingTorn` strengthens `NoTornObjects` to what running commands hold (`Untorn`). The
other theorems follow from `Restorable`: which command is where (`Role`), that a pull that has met no
other command is alone (`Solitary`), where such a pull is between the backup and the directory
(`Restoring`), what imports and pushes rely on as long as no pull has met them (`Relying`), and where
the objects of the archive's rows are, aside or in place (`Home`). From it `PathsHaveMedia`,
`NothingIsGone` and `BackupsAreWhole`. `CopiesStay` adds `Keeping`: there is one transaction at a time
(`OneWriter`), and every row it has been through has a copy if the archive's row has one (`Deciding`). It
is inductive because nobody else writes rows meanwhile (`Held`), and because, as long as no pull has met
another command, what the archive's rows name is in the directory the transaction looks at (`Home`).

*WebViewer.* `NoGaps` proves `ShowsAnInterval` for pages of any size. `Interval` says what a page is: in
order, of the conversation, before its cursor, and without gaps among the messages that were always
there. Three parts make it inductive. `Awaiting`: the view waits for one answer at most, and for none
while the button for older messages can be pressed, because a new view makes all earlier answers late
(`Numbered`). `Fitting`: the answer it waits for is of the conversation on the screen, its cursor is
still the first message shown, and what it holds is an interval up to there, whatever was imported since
it was read (`FewerThere`: the history only forgets). `Shown`: what is shown is an interval. A page from
the server is one because the newest messages of a finite set are those with fewest newer ones
(`Newest`, `PageIsInterval`), and `PagesJoin` puts it before what is shown. The lemmas on `Listed` rest
on ranks: in a finite set totally ordered by second and `source_pk` every rank is taken once.
`TypeCorrect` follows from the same invariant. `LeavesNothingOut` needs three more parts (`EndInv`). An
awaited answer without messages is the end of the conversation before its cursor (`Exhausted`): a page
is empty only if nothing is left to select. A view without the button, or without messages, has them
all, or as many as were counted (`Finished`); this takes that the messages before the first one shown
are those the page before it selects from, so that `Shown` and `Exhausted` leave none. And the view
that is there before any chat is selected shows nothing (`Starting`). `ReplacesNothing` says of every
step that what is shown of a conversation only grows at its old end until the view is left.

*Only model-checked.* Liveness (`EventuallyCurrent`, `EventuallyPublished`, `EverythingIsReached`),
which is out of the prover's reach. Of each, what can go wrong in a step is proved: nothing stale is
overlooked (`StaleIsSeen`, `NothingIsOverlooked`), no push refuses the work of earlier ones
(`OwnPushesGoThrough`), and nothing ends the loading early (`LeavesNothingOut`); that the steps are
taken is what TLC checks. `NewLifecycleIsLive` and, with pulls, `AheadIsVisible` do not hold (see
Findings). Every other property of the runs is a theorem; the theorems assume what the modules assume of
their constants and, where it says so above, that nobody pulls (`StaleIsSeen`, `NothingIsOverlooked`) or
that the user does not work in the checkout during a push.

## Findings

- `alias_new_lifecycle`: a removed chat that WhatsApp still lists is tombstoned at the time of every
  import, so the activity of its linked chat is never later, and every new message of the live chat is
  archived as deleted; `docs/commands.md:61` says the chat can start a new lifecycle.
- `sync_after_pull`: a pull records the time the backup was written as the time the source was read.
  An edit made between the last import and that backup is not noticed by `--sync auto`
  (`docs/commands.md:177`) until the source is written again.

## Not modelled

- Contact-link evidence (`contact_identity.go`): how evidence strings are normalized, ranked and merged
  is a function of values. `ArchiveLifecycle` takes any evidence a snapshot can add and derives the links
  from it.
- Desktop readers (`read.go`, `appletime.go`): queries on the copied databases, in one thread and without
  state. What a snapshot may contain is an input of the models.
- Backup encoding and encryption (`snapshot.go`, `crypto.go`): conversions; `ExportAll` says which rows a
  backup has and `BackupPush` which files.
- Parts of the backup repository: `verifyPushDestination`, which compares addresses, the layout checks of
  paths and aliases, which compare strings, and the listing of snapshots, which reads.
- The confinement of media paths to the two media roots (`mediafile`): a path is taken to be regular.
- Migrations (`migrate.go`, `schema.go`): one transaction of SQL text. `ArchiveSync` has the write
  transaction that every open takes.
- Command line, output, configuration, the lists without pages, generated SQL: no state of their own.
