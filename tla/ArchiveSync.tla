----------------------------- MODULE ArchiveSync -----------------------------
(***************************************************************************)
(* How concurrent wacrawl commands keep one archive in step with the       *)
(* WhatsApp Desktop databases (internal/cli/sync.go, whatsappdb, the       *)
(* transaction of store.importAll, and the watermark in sync_state).       *)
(*                                                                         *)
(* The contents of the source are a version: the time of its last write,   *)
(* which is also the mtime of its files.  The clock ticks only when the    *)
(* source is written, so two times are equal exactly when no write lies    *)
(* between them.  The archive shows one version, that of the snapshot      *)
(* committed last; how rows merge is ArchiveLifecycle's subject.           *)
(*                                                                         *)
(* Every command is a process of its own.  Readers never block (WAL);      *)
(* there is one writer at a time and others wait five seconds for it.      *)
(***************************************************************************)
EXTENDS Naturals, FiniteSets

CONSTANTS
    Procs,        \* processes, each running its command over and over
    Command,      \* the command of a process
    Accounts,     \* WhatsApp accounts the Desktop app can be logged in to
    None,         \* no account, no process
    MaxWrites,    \* bound of the writes to the source
    MaxFaults     \* bound of the kills and of the failed looks at the source

Commands == {"read",     \* a reading command with --sync auto
             "always",   \* one with --sync always
             "push",     \* backup push, with --sync auto
             "import",   \* an explicit import
             "restore",  \* import --restore
             "pull"}     \* backup pull

ASSUME SyncAssumption ==
    /\ Command \in [Procs -> Commands]
    /\ None \notin Accounts /\ None \notin Procs
    /\ MaxWrites \in Nat /\ MaxFaults \in Nat

VARIABLES
    source,       \* the Desktop databases
    archive,      \* the committed archive
    backup,       \* the newest backup
    aged,         \* the last import is at least --sync-max-age old
    writer,       \* the process that holds SQLite's write lock
    pc,           \* where each process is
    seen,         \* the sync state each process has read
    snap,         \* the snapshot each process has captured
    faults        \* kills and failed looks so far

vars == <<source, archive, backup, aged, writer, pc, seen, snap, faults>>

\* The clock: no write of the source is later than its last.
clock == source.modified

EmptyArchive == [imported |-> FALSE, latest |-> 0, rows |-> 0, at |-> 0,
                 events |-> 0, account |-> None, holds |-> {}]

NoBackup == [exists |-> FALSE, latest |-> 0, events |-> 0, exported |-> 0,
             account |-> None, holds |-> {}]

NoState == [imported |-> FALSE, rows |-> 0, at |-> 0]

NoSnap == [at |-> 0, latest |-> 0, rows |-> 0, account |-> None, holds |-> {}]

Labels == {"idle", "open", "age", "watermark", "rows", "discover", "start",
           "copy", "validate", "begin", "commit", "read", "publish", "fetch"}

Automatic(p) == Command[p] \in {"read", "push"}

Replaces(p) == Command[p] \in {"restore", "pull"}

\* Where a command goes once the archive is open, and once it is in sync.
Opened(p) == CASE Automatic(p)           -> "age"
               [] Command[p] = "always" -> "discover"
               [] Command[p] = "pull"   -> "fetch"
               [] OTHER                 -> "start"

Larger(a, b) == IF a > b THEN a ELSE b

Goto(p, label) == pc' = [pc EXCEPT ![p] = label]

\* A command that ends, well or not, drops all it knows.
End(p) == /\ Goto(p, "idle")
          /\ seen' = [seen EXCEPT ![p] = NoState]
          /\ snap' = [snap EXCEPT ![p] = NoSnap]

-----------------------------------------------------------------------------
(* The source.  It is written at any time: a row edited in place, a new    *)
(* message, or a login to another account.                                 *)

Edit ==
    source' = [source EXCEPT !.modified = clock + 1]

NewMessage ==
    source' = [source EXCEPT !.modified = clock + 1, !.rows = @ + 1]

Relogin ==
    \E a \in Accounts \ {source.account} :
        source' = [source EXCEPT !.modified = clock + 1, !.account = a]

SourceWrite ==
    /\ clock < MaxWrites
    /\ Edit \/ NewMessage \/ Relogin
    /\ UNCHANGED <<archive, backup, aged, writer, pc, seen, snap, faults>>

\* --sync-max-age goes by without an import.
Age ==
    /\ ~aged
    /\ aged' = TRUE
    /\ UNCHANGED <<source, archive, backup, writer, pc, seen, snap, faults>>

-----------------------------------------------------------------------------
(* Opening the archive and deciding whether to import.                     *)

Start(p) ==
    /\ pc[p] = "idle"
    /\ Goto(p, "open")
    /\ UNCHANGED <<source, archive, backup, aged, writer, seen, snap, faults>>

\* Every Open migrates the schema in a write transaction of its own.
Open(p) ==
    /\ pc[p] = "open" /\ writer = None
    /\ Goto(p, Opened(p))
    /\ UNCHANGED <<source, archive, backup, aged, writer, seen, snap, faults>>

\* Status reads sync_state row by row, outside a transaction.  (--sync always
\* reads it too, and ignores it.)
ReadAge(p) ==
    /\ pc[p] = "age"
    /\ IF archive.imported /\ ~aged
       THEN /\ Goto(p, "read") /\ UNCHANGED seen
       ELSE /\ Goto(p, "watermark")
            /\ seen' = [seen EXCEPT ![p].imported = archive.imported]
    /\ UNCHANGED <<source, archive, backup, aged, writer, snap, faults>>

ReadWatermark(p) ==
    /\ pc[p] = "watermark"
    /\ Goto(p, "rows")
    /\ seen' = [seen EXCEPT ![p].at = archive.at]
    /\ UNCHANGED <<source, archive, backup, aged, writer, snap, faults>>

ReadRows(p) ==
    /\ pc[p] = "rows"
    /\ Goto(p, "discover")
    /\ seen' = [seen EXCEPT ![p].rows = archive.rows]
    /\ UNCHANGED <<source, archive, backup, aged, writer, snap, faults>>

\* sourceAheadOfArchive.  A newer newest message would change the mtime too.
Ahead(state) ==
    \/ ~state.imported
    \/ source.rows # state.rows
    \/ source.modified > state.at

Discover(p) ==
    /\ pc[p] = "discover"
    /\ IF Automatic(p) /\ ~Ahead(seen[p])
       THEN Goto(p, "read")
       ELSE Goto(p, "start")
    /\ seen' = [seen EXCEPT ![p] = NoState]
    /\ UNCHANGED <<source, archive, backup, aged, writer, snap, faults>>

\* The source is missing or unreadable: automatic syncs go on with the
\* archive there is.
Unavailable(p) ==
    /\ pc[p] = "discover" /\ faults < MaxFaults
    /\ faults' = faults + 1
    /\ \/ /\ Automatic(p)
          /\ Goto(p, "read")
          /\ seen' = [seen EXCEPT ![p] = NoState]
          /\ UNCHANGED snap
       \/ /\ ~Automatic(p) \/ ~seen[p].imported
          /\ End(p)
    /\ UNCHANGED <<source, archive, backup, aged, writer>>

-----------------------------------------------------------------------------
(* Capturing the source: the watermark is read before the files are.       *)

Capture(s) == [at |-> s.at, latest |-> source.modified, rows |-> source.rows,
               account |-> source.account, holds |-> {source.account}]

StartImport(p) ==
    /\ pc[p] = "start"
    /\ snap' = [snap EXCEPT ![p].at = clock]
    /\ Goto(p, "copy")
    /\ UNCHANGED <<source, archive, backup, aged, writer, seen, faults>>

Copy(p) ==
    /\ pc[p] = "copy"
    /\ snap' = [snap EXCEPT ![p] = Capture(@)]
    /\ Goto(p, "validate")
    /\ UNCHANGED <<source, archive, backup, aged, writer, seen, faults>>

-----------------------------------------------------------------------------
(* Writing the archive.  The binding to an account is checked twice: before *)
(* media are copied, and again in the transaction that writes.              *)

Bound(p) == archive.account \in {None, snap[p].account}

Validate(p) ==
    /\ pc[p] = "validate"
    /\ IF Replaces(p) \/ Bound(p)
       THEN Goto(p, "begin") /\ UNCHANGED <<seen, snap>>
       ELSE End(p)
    /\ UNCHANGED <<source, archive, backup, aged, writer, faults>>

\* Faulty: relies on the earlier check.
CheckedBefore(p) == TRUE

\* The transaction is immediate: it holds the write lock before it reads.
Admitted(p) == Replaces(p) \/ Bound(p)

\* Faulty: a deferred transaction, which does not wait for the writer.
DeferredBegin(p) ==
    /\ pc[p] = "begin"
    /\ IF Admitted(p)
       THEN Goto(p, "commit") /\ writer' = p /\ UNCHANGED <<seen, snap>>
       ELSE End(p) /\ UNCHANGED writer
    /\ UNCHANGED <<source, archive, backup, aged, faults>>

Begin(p) ==
    /\ pc[p] = "begin" /\ writer = None
    /\ IF Admitted(p)
       THEN Goto(p, "commit") /\ writer' = p /\ UNCHANGED <<seen, snap>>
       ELSE End(p) /\ UNCHANGED writer
    /\ UNCHANGED <<source, archive, backup, aged, faults>>

\* Faulty: the time the import ends.
FinishedAt(s) == clock

\* Faulty: never moves back.
NewestWatermark(s) == Larger(s.at, archive.at)

\* The watermark is the snapshot's own, also when it is older than the stored one.
Recorded(s) == s.at

\* An import of the Desktop source.  A merge keeps the messages the source lost.
Imported(p) ==
    LET s == snap[p]
    IN  [imported |-> TRUE, latest |-> s.latest, rows |-> s.rows,
         at |-> Recorded(s), account |-> s.account,
         events |-> IF Replaces(p) THEN s.rows ELSE Larger(archive.events, s.rows),
         holds  |-> IF Replaces(p) THEN s.holds ELSE archive.holds \cup s.holds]

Commit(p) ==
    /\ pc[p] = "commit"
    /\ archive' = Imported(p)
    /\ aged' = FALSE
    /\ writer' = None
    /\ IF Automatic(p) \/ Command[p] = "always"
       THEN /\ Goto(p, "read")
            /\ snap' = [snap EXCEPT ![p] = NoSnap]
            /\ UNCHANGED seen
       ELSE End(p)
    /\ UNCHANGED <<source, backup, faults>>

\* busy_timeout: the writer held the lock for more than five seconds.
Busy(p) ==
    /\ pc[p] \in {"open", "begin"} /\ writer # None
    /\ End(p)
    /\ UNCHANGED <<source, archive, backup, aged, writer, faults>>

-----------------------------------------------------------------------------
(* Reading, and backups.                                                   *)

\* A reading command ends; a push first exports the archive in a read
\* transaction.
Read(p) ==
    /\ pc[p] = "read"
    /\ IF Command[p] = "push" /\ archive.imported
       THEN /\ Goto(p, "publish")
            /\ snap' = [snap EXCEPT ![p] =
                   [at |-> 0, latest |-> archive.latest, rows |-> archive.events,
                    account |-> archive.account, holds |-> archive.holds]]
            /\ UNCHANGED seen
       ELSE End(p)
    /\ UNCHANGED <<source, archive, backup, aged, writer, faults>>

\* The manifest is dated when it is written, after the export.
Publish(p) ==
    /\ pc[p] = "publish"
    /\ backup' = [exists |-> TRUE, latest |-> snap[p].latest,
                  events |-> snap[p].rows, exported |-> clock,
                  account |-> snap[p].account, holds |-> snap[p].holds]
    /\ End(p)
    /\ UNCHANGED <<source, archive, aged, writer, faults>>

\* A pull has no snapshot time of its own and takes the manifest's for its
\* watermark.
Fetch(p) ==
    /\ pc[p] = "fetch"
    /\ IF backup.exists
       THEN /\ Goto(p, "begin")
            /\ snap' = [snap EXCEPT ![p] =
                   [at |-> backup.exported, latest |-> backup.latest,
                    rows |-> backup.events, account |-> backup.account,
                    holds |-> backup.holds]]
            /\ UNCHANGED seen
       ELSE End(p)
    /\ UNCHANGED <<source, archive, backup, aged, writer, faults>>

\* A process is killed, or its context cancelled; SQLite rolls back.
Stop(p) ==
    /\ pc[p] # "idle" /\ faults < MaxFaults
    /\ faults' = faults + 1
    /\ writer' = IF writer = p THEN None ELSE writer
    /\ End(p)
    /\ UNCHANGED <<source, archive, backup, aged>>

-----------------------------------------------------------------------------
Init ==
    /\ source \in [modified : {1}, rows : {1}, account : Accounts]
    /\ archive = EmptyArchive
    /\ backup = NoBackup
    /\ aged = TRUE
    /\ writer = None
    /\ pc = [p \in Procs |-> "idle"]
    /\ seen = [p \in Procs |-> NoState]
    /\ snap = [p \in Procs |-> NoSnap]
    /\ faults = 0

\* The steps a running process takes on its own.
Step(p) ==
    \/ Open(p) \/ ReadAge(p) \/ ReadWatermark(p) \/ ReadRows(p) \/ Discover(p)
    \/ StartImport(p) \/ Copy(p) \/ Validate(p) \/ Begin(p) \/ Commit(p)
    \/ Busy(p) \/ Read(p) \/ Publish(p) \/ Fetch(p)

Next ==
    \/ SourceWrite
    \/ Age
    \/ \E p \in Procs : Step(p) \/ Start(p) \/ Unavailable(p) \/ Stop(p)

Spec == Init /\ [][Next]_vars

\* The scheduler of the machine runs every process.
Fairness == \A p \in Procs : WF_vars(Step(p))

FairSpec == Spec /\ Fairness

-----------------------------------------------------------------------------
\* Type correctness; a process that has begun a transaction, and no other,
\* holds SQLite's write lock (_txlock=immediate, store.go).
TypeOK ==
    /\ source \in [modified : Nat, rows : Nat, account : Accounts]
    /\ archive \in [imported : BOOLEAN, latest : Nat, rows : Nat, at : Nat,
                    events : Nat, account : Accounts \cup {None},
                    holds : SUBSET Accounts]
    /\ backup \in [exists : BOOLEAN, latest : Nat, events : Nat, exported : Nat,
                   account : Accounts \cup {None}, holds : SUBSET Accounts]
    /\ aged \in BOOLEAN
    /\ writer \in Procs \cup {None}
    /\ pc \in [Procs -> Labels]
    /\ seen \in [Procs -> [imported : BOOLEAN, rows : Nat, at : Nat]]
    /\ snap \in [Procs -> [at : Nat, latest : Nat, rows : Nat,
                           account : Accounts \cup {None}, holds : SUBSET Accounts]]
    /\ faults \in Nat
    /\ \A p \in Procs : pc[p] = "commit" <=> writer = p

\* An archive that does not show the newest version of the source is seen to
\* be behind: whatever the interleaving of imports, source writes and kills,
\* the stored watermark and row count let sourceAheadOfArchive tell, so that
\* an automatic sync cannot overlook a change.
AheadIsVisible ==
    archive.imported /\ archive.latest # source.modified => Ahead(archive)

\* Only rows of the account the archive is bound to are in it, also when
\* restores rebind it while imports of another account are under way
\* (validateImportSource, called by ValidateImport and by importAll), and the
\* same holds of the backups exported from it and pulled into it.
OneAccount ==
    /\ archive.holds \subseteq {archive.account}
    /\ backup.holds \subseteq {backup.account}

\* Some automatic sync finds the archive old, over and over.
SyncsKeepRunning == []<>(\E p \in Procs : Automatic(p) /\ pc[p] = "age" /\ aged)

\* The archive catches up: once the source is no longer written, the archive
\* shows its last version for good, even if an older snapshot was committed
\* after a newer one, as long as automatic syncs keep being run and the archive
\* is not bound to another account than the source's.
EventuallyCurrent ==
    /\ SyncsKeepRunning
    /\ <>[](archive.account \in {None, source.account})
    => <>[](archive.latest = source.modified)
=============================================================================
