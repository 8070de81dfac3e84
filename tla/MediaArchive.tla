---------------------------- MODULE MediaArchive ----------------------------
(***************************************************************************)
(* Copies of attachments beside the archive: imports with and without      *)
(* --copy-media, backup push and backup pull run concurrently on one media *)
(* directory that nothing locks (whatsappdb/media_copy.go, media_paths.go, *)
(* store/media.go, backup/media.go, backup/backup.go).                     *)
(*                                                                         *)
(* Objects are named by their content, so an object is its content.  Every *)
(* message has one attachment; WhatsApp downloads, rewrites and evicts its *)
(* file at any time.  A transaction holds the archive's write lock from    *)
(* its begin to its commit; files are looked at in between.                *)
(***************************************************************************)
EXTENDS Naturals, FiniteSets

CONSTANTS
    Messages,
    Attachments,  \* what sameAttachment compares: type, URL, size, title
    Identifiable, \* those with a type, and with a URL or a size
    Bytes,        \* contents of files
    Torn,         \* a mixture of two contents
    None,
    Procs, Command,
    MaxWrites,    \* bound of the changes in WhatsApp's container
    MaxCrossings, \* bound of the meetings of a pull and another command
    MaxFaults     \* bound of the kills, the transactions that fail and the imports that restore

ASSUME MediaAssumption ==
    /\ Identifiable \subseteq Attachments
    /\ Torn \notin Bytes /\ None \notin Messages \cup Bytes \cup {Torn}
    /\ \A dir \in SUBSET (Bytes \cup {Torn}) : dir # None
    /\ Command \in [Procs -> {"import", "push", "pull"}]
    /\ {MaxWrites, MaxCrossings, MaxFaults} \subseteq Nat

VARIABLES
    source,       \* WhatsApp's container: each message's attachment and file, and whether
                  \* its chat was removed; None: the message was withdrawn, or the file
                  \* is not there
    rows,         \* the archive's messages
    media,        \* the objects in the archive's media directory; None: there is none
    hidden,       \* directories that interrupted pulls have left behind
    backup,       \* what was pushed last
    pc, job,
    crossed,      \* a pull ran beside another command (for the properties)
    halfway,      \* a pull was killed halfway (for the properties)
    writes, crossings, faults

vars == <<source, rows, media, hidden, backup, pc, job, crossed, halfway,
          writes, crossings, faults>>

Objects == Bytes \cup {Torn}

\* Where a media path leads: nowhere, to the container, to an object of the
\* archive, or to one of the archive it will be restored to.
Paths == [kind : {"none", "container", "object", "portable"}, object : Objects \cup {None}]

Nowhere == [kind |-> "none", object |-> None]
Container == [kind |-> "container", object |-> None]
Object(o) == [kind |-> "object", object |-> o]
Portable(o) == [kind |-> "portable", object |-> o]

Row == [attachment : Attachments \cup {None}, path : Paths, deleted : BOOLEAN]
Rows == [Messages -> Row]

NoRows == [m \in Messages |-> [attachment |-> None, path |-> Nowhere, deleted |-> FALSE]]

Listed == [attachment : Attachments \cup {None}, file : Bytes \cup {None}, removed : BOOLEAN]
Source == [Messages -> Listed]

Directory == (SUBSET Objects) \cup {None}

Contents(dir) == IF dir = None THEN {} ELSE dir

\* rows and files are what is imported, exported or restored; file is the one
\* being copied, was its content when it was opened, got what was read; open is
\* the message whose archived copy is open; since (for the properties) is how
\* often pulls and other commands had met before.
NoJob == [rows |-> NoRows, restore |-> FALSE, todo |-> {}, file |-> None, was |-> None,
          got |-> None, dirty |-> FALSE, open |-> None, files |-> {}, aside |-> None,
          since |-> 0]

Pulling == \E p \in Procs : Command[p] = "pull" /\ pc[p] # "idle"

Goto(p, label) == pc' = [pc EXCEPT ![p] = label]

\* Faulty: a command that has ended is not idle.
EndElsewhere(p) == Goto(p, "ended") /\ job' = [job EXCEPT ![p] = NoJob]

End(p) == Goto(p, "idle") /\ job' = [job EXCEPT ![p] = NoJob]

\* A command starts; nothing keeps a pull and other commands apart.
Start(p, command, label) ==
    /\ Command[p] = command /\ pc[p] = "idle"
    /\ Goto(p, label)
    /\ LET met == {q \in Procs : pc[q] # "idle" /\ "pull" \in {command, Command[q]}}
       IN  IF met = {} THEN UNCHANGED <<crossings, crossed>>
           ELSE /\ crossings' = crossings + Cardinality(met)
                /\ crossings' \in crossings + 1 .. MaxCrossings
                /\ crossed' = TRUE

-----------------------------------------------------------------------------
(* Import.                                                                 *)

\* A withdrawn message has lost its attachment and its path; one whose chat was
\* removed is imported as deleted.
Extracted ==
    [m \in Messages |->
        [attachment |-> source[m].attachment,
         path |-> IF source[m].attachment = None THEN Nowhere ELSE Container,
         deleted |-> source[m].removed]]

StartImport(p) ==
    /\ Start(p, "import", "copy")
    /\ \E copied \in {{}, Messages}, restore \in BOOLEAN :
           /\ job' = [job EXCEPT ![p].rows = Extracted, ![p].restore = restore,
                                 ![p].todo = copied]
           /\ faults' = IF restore THEN faults + 1 ELSE faults
           /\ faults' <= MaxFaults
    /\ UNCHANGED <<source, rows, media, hidden, backup, halfway, writes>>

\* copyArchiveMedia goes through the messages.  Files that are missing or not
\* downloaded are counted and left alone.
OpenFile(p) ==
    /\ pc[p] = "copy" /\ job[p].file = None
    /\ \E m \in job[p].todo :
           IF source[m].file # None /\ source[m].attachment = job[p].rows[m].attachment
           THEN job' = [job EXCEPT ![p].file = m, ![p].was = source[m].file,
                                   ![p].todo = @ \ {m}]
           ELSE job' = [job EXCEPT ![p].todo = @ \ {m}]
    /\ UNCHANGED <<source, rows, media, hidden, backup, pc, crossed, crossings, halfway, writes, faults>>

ReadFile(p) ==
    /\ pc[p] = "copy" /\ job[p].file # None /\ job[p].got = None
    /\ job' = [job EXCEPT ![p].got = IF job[p].dirty THEN Torn ELSE job[p].was]
    /\ UNCHANGED <<source, rows, media, hidden, backup, pc, crossed, crossings, halfway, writes, faults>>

\* Faulty: the file is not looked at again after it was read.
ReadUnchanged(p) == TRUE

\* Size and modification time are those from before the file was opened.
Unchanged(p) == ~job[p].dirty

\* A link of the complete copy never overwrites an object.
LinkObject(p) ==
    /\ pc[p] = "copy" /\ job[p].got # None
    /\ IF Unchanged(p)
       THEN /\ media' = Contents(media) \cup {job[p].got}
            /\ job' = [job EXCEPT
                   ![p].rows = [@ EXCEPT ![job[p].file].path = Object(job[p].got)],
                   ![p].file = None, ![p].was = None, ![p].got = None, ![p].dirty = FALSE]
            /\ UNCHANGED pc
       ELSE End(p) /\ UNCHANGED media
    /\ UNCHANGED <<source, rows, hidden, backup, crossed, crossings, halfway, writes, faults>>

\* Faulty: nothing keeps transactions apart from the rows they have read.
NeverLocked == FALSE

\* The write lock of the archive is taken.
Locked == \E q \in Procs : pc[q] = "upsert"

\* The transaction begins; import --restore deletes every row and retains nothing.
BeginImport(p) ==
    /\ pc[p] = "copy" /\ job[p].todo = {} /\ job[p].file = None
    /\ ~Locked
    /\ Goto(p, "upsert")
    /\ job' = [job EXCEPT ![p].todo = IF job[p].restore THEN {} ELSE Messages]
    /\ UNCHANGED <<source, rows, media, hidden, backup, crossed, crossings, halfway, writes, faults>>

\* retainArchivedMedia: an attachment that was copied once stays copied while its
\* message lives.
Retainable(old, new) ==
    /\ ~old.deleted /\ ~new.deleted
    /\ old.attachment = new.attachment /\ new.attachment \in Identifiable
    /\ old.path.kind = "object" /\ old.path.object \in Contents(media)

\* A deleted message stays as it is, one that was withdrawn is deleted.  A copy
\* is retained at once unless this import has copied the file again.
UpsertRow(p) ==
    /\ pc[p] = "upsert" /\ job[p].open = None
    /\ \E m \in job[p].todo :
           LET new == job[p].rows[m]
               copied == new.path.kind = "object"
               retain == Retainable(rows[m], new)
               withdrawn == new.attachment = None /\ rows[m].attachment # None
           IN  job' = [job EXCEPT
                   ![p].todo = @ \ {m},
                   ![p].open = IF retain /\ copied THEN m ELSE None,
                   ![p].rows = [@ EXCEPT ![m] =
                       IF rows[m].deleted THEN rows[m]
                       ELSE IF retain /\ ~copied THEN [new EXCEPT !.path = rows[m].path]
                       ELSE [new EXCEPT !.deleted = @ \/ withdrawn]]]
    /\ UNCHANGED <<source, rows, media, hidden, backup, pc, crossed, crossings, halfway, writes, faults>>

\* A new copy with another content replaces the archived one, which stays open
\* even if its directory is moved meanwhile.
CompareCopies(p) ==
    /\ pc[p] = "upsert" /\ job[p].open # None
    /\ LET m == job[p].open
           new == job[p].rows[m].path
       IN  job' = [job EXCEPT
               ![p].open = None,
               ![p].rows = [@ EXCEPT ![m].path =
                   IF new.object \in Contents(media) /\ new # rows[m].path
                   THEN new ELSE rows[m].path]]
    /\ UNCHANGED <<source, rows, media, hidden, backup, pc, crossed, crossings, halfway, writes, faults>>

CommitImport(p) ==
    /\ pc[p] = "upsert" /\ job[p].todo = {} /\ job[p].open = None
    /\ rows' = job[p].rows
    /\ End(p)
    /\ UNCHANGED <<source, media, hidden, backup, crossed, crossings, halfway, writes, faults>>

-----------------------------------------------------------------------------
(* Push: the rows are exported before the files are collected.             *)

StartPush(p) ==
    /\ Start(p, "push", "collect")
    /\ job' = [job EXCEPT ![p].rows = rows]
    /\ UNCHANGED <<source, rows, media, hidden, backup, halfway, writes, faults>>

\* A path that leads to a collected file becomes portable.
Exported(r, files) ==
    IF r.path.kind = "object" /\ r.path.object \in files
    THEN [r EXCEPT !.path = Portable(@.object)] ELSE r

Collect(p) ==
    /\ pc[p] = "collect"
    /\ Goto(p, "write")
    /\ LET files == Contents(media)
       IN  job' = [job EXCEPT ![p].files = files,
                       ![p].rows = [m \in Messages |-> Exported(@[m], files)]]
    /\ UNCHANGED <<source, rows, media, hidden, backup, crossed, crossings, halfway, writes, faults>>

\* Faulty: the rows are exported after the files were collected.
WriteLate(p) ==
    /\ pc[p] = "write"
    /\ backup' = [rows |-> [m \in Messages |-> Exported(rows[m], job[p].files)],
                  files |-> job[p].files, whole |-> ~crossed /\ ~halfway]
    /\ End(p)
    /\ UNCHANGED <<source, rows, media, hidden, crossed, crossings, halfway, writes, faults>>

\* Files that have gone meanwhile make the push fail.
WriteBackup(p) ==
    /\ pc[p] = "write"
    /\ backup' = IF job[p].files \subseteq Contents(media)
                 THEN [rows |-> job[p].rows, files |-> job[p].files,
                       whole |-> ~crossed /\ ~halfway]
                 ELSE backup
    /\ End(p)
    /\ UNCHANGED <<source, rows, media, hidden, crossed, crossings, halfway, writes, faults>>

-----------------------------------------------------------------------------
(* Pull: replaceMediaDuring the transaction that replaces the rows.        *)

\* Without files in the backup the media directory is left alone and the paths
\* are as they were exported.
StartPull(p) ==
    /\ backup # None
    /\ Start(p, "pull", IF backup.files = {} THEN "replace" ELSE "aside")
    /\ job' = [job EXCEPT ![p].rows = backup.rows, ![p].files = backup.files,
                         ![p].since = crossings]
    /\ UNCHANGED <<source, rows, media, hidden, backup, halfway, writes, faults>>

\* Faulty: the previous directory is removed first.
RemoveFirst(p) ==
    /\ pc[p] = "aside"
    /\ media' = None
    /\ Goto(p, "install")
    /\ UNCHANGED <<source, rows, hidden, backup, job, crossed, crossings, halfway, writes, faults>>

MoveAside(p) ==
    /\ pc[p] = "aside"
    /\ job' = [job EXCEPT ![p].aside = media]
    /\ media' = None
    /\ Goto(p, "install")
    /\ UNCHANGED <<source, rows, hidden, backup, crossed, crossings, halfway, writes, faults>>

LeftBehind(p) == IF job[p].aside = None THEN {} ELSE {job[p].aside}

\* An import may have made the directory again: a rename never replaces one,
\* not even to put the previous one back.
Install(p) ==
    /\ pc[p] = "install"
    /\ IF media = None
       THEN media' = job[p].files /\ Goto(p, "replace") /\ UNCHANGED <<hidden, job>>
       ELSE hidden' = hidden \cup LeftBehind(p) /\ End(p) /\ UNCHANGED media
    /\ UNCHANGED <<source, rows, backup, crossed, crossings, halfway, writes, faults>>

\* localizeMediaPaths
Localized(r) == IF r.path.kind = "portable" THEN [r EXCEPT !.path = Object(@.object)] ELSE r

\* History: no other command has met this pull.
Alone(p) == job[p].since = crossings

Replace(p) ==
    /\ pc[p] = "replace" /\ ~Locked
    /\ rows' = IF job[p].files = {} THEN job[p].rows
               ELSE [m \in Messages |-> Localized(job[p].rows[m])]
    /\ Goto(p, "cleanup")
    /\ job' = [job EXCEPT ![p] = [NoJob EXCEPT !.aside = job[p].aside,
                                              !.since = job[p].since]]
    /\ crossed' = ~(Alone(p) /\ backup.whole)
    /\ halfway' = FALSE
    /\ UNCHANGED <<source, media, hidden, backup, writes, crossings, faults>>

\* Faulty: the previous directory is not put back.
ReplaceAborts(p) ==
    /\ pc[p] = "replace" /\ faults < MaxFaults
    /\ faults' = faults + 1
    /\ hidden' = hidden \cup LeftBehind(p)
    /\ End(p)
    /\ UNCHANGED <<source, rows, media, backup, crossed, crossings, halfway, writes>>

ReplaceFails(p) ==
    /\ pc[p] = "replace" /\ faults < MaxFaults
    /\ faults' = faults + 1
    /\ IF job[p].files = {}
       THEN End(p) /\ UNCHANGED media
       ELSE media' = None /\ Goto(p, "undo") /\ UNCHANGED job
    /\ UNCHANGED <<source, rows, hidden, backup, crossed, crossings, halfway, writes>>

PutBack(p) ==
    /\ pc[p] = "undo"
    /\ IF media = None
       THEN media' = job[p].aside /\ UNCHANGED hidden
       ELSE hidden' = hidden \cup LeftBehind(p) /\ UNCHANGED media
    /\ End(p)
    /\ UNCHANGED <<source, rows, backup, crossed, crossings, halfway, writes, faults>>

\* RemoveAll of the previous directory; errors are ignored.
Cleanup(p) ==
    /\ pc[p] = "cleanup"
    /\ End(p)
    /\ UNCHANGED <<source, rows, media, hidden, backup, crossed, crossings, halfway, writes, faults>>

-----------------------------------------------------------------------------
(* The surroundings.                                                       *)

\* The media directory is not the one of the archive's rows.
Halfway(p) ==
    \/ pc[p] \in {"install", "undo"}
    \/ pc[p] = "replace" /\ job[p].files # {}

\* A command is killed, or an import or a push fails.
Stop(p) ==
    /\ pc[p] # "idle" /\ faults < MaxFaults
    /\ faults' = faults + 1
    /\ hidden' = hidden \cup LeftBehind(p)
    /\ halfway' = (halfway \/ Halfway(p))
    /\ End(p)
    /\ UNCHANGED <<source, rows, media, backup, crossed, crossings, writes>>

\* WhatsApp downloads, rewrites or evicts a file, or a message gets another
\* attachment or is withdrawn, or its chat is removed or comes back.  A file that is open and rewritten in place is
\* noticed by its modification time; one that is evicted can still be read.
WriteSource(m) ==
    /\ writes < MaxWrites
    /\ writes' = writes + 1
    /\ \E new \in [attachment : Attachments \cup {None}, file : Bytes \cup {None},
                   removed : {source[m].removed}]
                  \cup {[source[m] EXCEPT !.removed = ~@]} :
           /\ new # source[m] /\ (new.attachment = None => new.file = None)
           /\ source' = [source EXCEPT ![m] = new]
           /\ job' = IF new.file \notin {None, source[m].file} /\ new.attachment = source[m].attachment
                     THEN [p \in Procs |-> [job[p] EXCEPT !.dirty =
                              @ \/ job[p].file = m]]
                     ELSE job
    /\ UNCHANGED <<rows, media, hidden, backup, pc, crossed, crossings, halfway, faults>>

-----------------------------------------------------------------------------
Init ==
    /\ source \in [Messages -> [attachment : Attachments, file : Bytes \cup {None},
                                removed : {FALSE}]]
    /\ rows = NoRows /\ media = None /\ hidden = {} /\ backup = None
    /\ pc = [p \in Procs |-> "idle"] /\ job = [p \in Procs |-> NoJob]
    /\ crossed = FALSE /\ halfway = FALSE
    /\ writes = 0 /\ crossings = 0 /\ faults = 0

Import(p) ==
    \/ StartImport(p) \/ OpenFile(p) \/ ReadFile(p) \/ LinkObject(p)
    \/ BeginImport(p) \/ UpsertRow(p) \/ CompareCopies(p) \/ CommitImport(p)

Push(p) == StartPush(p) \/ Collect(p) \/ WriteBackup(p)

Pull(p) ==
    \/ StartPull(p) \/ MoveAside(p) \/ Install(p) \/ Replace(p) \/ ReplaceFails(p)
    \/ PutBack(p) \/ Cleanup(p)

Next ==
    \/ \E p \in Procs : Import(p) \/ Push(p) \/ Pull(p) \/ Stop(p)
    \/ \E m \in Messages : WriteSource(m)

Spec == Init /\ [][Next]_vars

-----------------------------------------------------------------------------
Named(rs) == {rs[m].path.object : m \in {n \in Messages : rs[n].path.kind = "object"}}

\* Type correctness.
TypeOK ==
    /\ source \in Source
    /\ rows \in Rows /\ media \in Directory /\ hidden \subseteq SUBSET Objects
    /\ backup = None \/ backup \in [rows : Rows, files : SUBSET Objects, whole : BOOLEAN]
    /\ pc \in [Procs -> {"idle", "copy", "upsert", "collect", "write", "aside", "install",
                         "replace", "undo", "cleanup"}]
    /\ job \in [Procs -> [rows : Rows, restore : BOOLEAN, todo : SUBSET Messages,
                          file : Messages \cup {None}, was : Bytes \cup {None},
                          got : Objects \cup {None}, dirty : BOOLEAN,
                          open : Messages \cup {None}, files : SUBSET Objects, aside : Directory,
                          since : 0 .. MaxCrossings]]
    /\ crossed \in BOOLEAN /\ halfway \in BOOLEAN
    /\ writes \in 0 .. MaxWrites /\ crossings \in 0 .. MaxCrossings
    /\ faults \in 0 .. MaxFaults

\* No copy of a file that changed while it was read reaches the archive, its
\* media directory or a backup (copyMediaFile).
NoTornObjects ==
    /\ Torn \notin Contents(media) \cup (UNION hidden) \cup Named(rows)
    /\ backup # None => Torn \notin backup.files

\* Every archived path into the media directory leads to an object there, also
\* after pulls that failed and imports that were killed, unless a pull was
\* killed halfway or ran beside another command (replaceMediaDuring).
RowsHaveMedia ==
    ~crossed /\ ~halfway /\ ~Pulling => Named(rows) \subseteq Contents(media)

\* Even a pull that is killed halfway loses nothing: what the archive names is
\* in its media directory or in one that was set aside.
NothingIsLost ==
    ~crossed => Named(rows) \subseteq
        Contents(media) \cup (UNION hidden)
            \cup (UNION {Contents(job[p].aside) : p \in Procs})

\* A backup carries every copy its rows name, although imports go on adding
\* rows and files while it is made (Push).
BackupsCarryMedia ==
    backup # None /\ backup.whole =>
        /\ Named(backup.rows) = {}
        /\ \A m \in Messages : backup.rows[m].path.kind = "portable" =>
               backup.rows[m].path.object \in backup.files

\* An import of an attachment whose file was evicted, or that does not copy
\* media, leaves the archive with a copy in the media directory if it had one
\* when the import commits, whatever another import has added since the source
\* was read (retainArchivedMedia).  Excepted are import --restore, messages that
\* this import deletes, attachments with neither a URL nor a size, and archives
\* whose media a pull has replaced beside another command or left halfway.
CopiesAreKept ==
    [][\A m \in Messages, p \in Procs :
          /\ pc[p] = "upsert" /\ pc'[p] = "idle"
          /\ ~job[p].restore /\ ~crossed /\ ~halfway
          /\ rows[m].path.kind = "object" /\ rows[m].attachment \in Identifiable
          /\ rows'[m].attachment = rows[m].attachment /\ rows'[m].deleted = rows[m].deleted
          => rows'[m].path.kind = "object" /\ rows'[m].path.object \in Contents(media)]_vars
=============================================================================
