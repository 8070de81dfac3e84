------------------------- MODULE MediaArchiveProofs -------------------------
(* Proofs about MediaArchive, for any messages, contents and commands: what *)
(* is kept is whole, and stays with the rows that name it through imports,  *)
(* pushes and pulls that fail, are killed or meet each other.               *)
EXTENDS MediaArchive, TLAPS

Phases == {"idle", "copy", "upsert", "collect", "write", "aside", "install", "replace",
           "undo", "cleanup"}

Job == [rows : Rows, restore : BOOLEAN, todo : SUBSET Messages,
        file : Messages \cup {None}, was : Bytes \cup {None},
        got : Objects \cup {None}, dirty : BOOLEAN,
        open : Messages \cup {None}, files : SUBSET Objects, aside : Directory,
        since : 0 .. MaxCrossings]

Jobs == [Procs -> Job]

Backups == [rows : Rows, files : SUBSET Objects, whole : BOOLEAN]

\* TypeOK by the names of its sets.
Types ==
    /\ source \in Source
    /\ rows \in Rows /\ media \in Directory /\ hidden \subseteq SUBSET Objects
    /\ backup = None \/ backup \in Backups
    /\ pc \in [Procs -> Phases] /\ job \in Jobs
    /\ crossed \in BOOLEAN /\ halfway \in BOOLEAN
    /\ writes \in 0 .. MaxWrites /\ crossings \in 0 .. MaxCrossings
    /\ faults \in 0 .. MaxFaults

LEMMA TypesAre == TypeOK <=> Types
BY DEF TypeOK, Types, Phases, Job, Jobs, Backups

-----------------------------------------------------------------------------
(* Types.                                                                   *)

LEMMA PathTypes ==
    /\ Nowhere \in Paths /\ Container \in Paths
    /\ \A o \in Objects : Object(o) \in Paths /\ Portable(o) \in Paths
BY DEF Nowhere, Container, Object, Portable, Paths

LEMMA Bounds == MaxWrites \in Nat /\ MaxCrossings \in Nat /\ MaxFaults \in Nat
BY MediaAssumption

LEMMA NoJobType == NoRows \in Rows /\ NoJob \in Job
<1>1. NoRows \in Rows
  BY PathTypes DEF NoRows, Rows, Row
<1>2. 0 \in 0 .. MaxCrossings
  BY Bounds
<1> QED
  BY <1>1, <1>2 DEF NoJob, Job, Directory

LEMMA ContentsType == \A dir \in Directory : Contents(dir) \in SUBSET Objects
BY DEF Contents, Directory

LEMMA ExportedType ==
    ASSUME NEW r \in Row, NEW files \in SUBSET Objects
    PROVE  Exported(r, files) \in Row
BY DEF Exported, Row, Paths, Portable, Objects

LEMMA LocalizedType == ASSUME NEW r \in Row PROVE Localized(r) \in Row
BY DEF Localized, Row, Paths, Object

LEMMA ExtractedType == TypeOK => Extracted \in Rows
<1> SUFFICES ASSUME TypeOK PROVE Extracted \in Rows
  OBVIOUS
<1>1. \A m \in Messages : /\ source[m].attachment \in Attachments \cup {None}
                          /\ source[m].removed \in BOOLEAN
  BY DEF TypeOK, Source, Listed
<1> QED
  BY <1>1, PathTypes DEF Extracted, Rows, Row

\* A copy is of a file that was opened, and what was read of it; archived copies
\* are opened in a transaction only.
Copying ==
    \A p \in Procs : /\ job[p].file # None => job[p].was # None
                     /\ job[p].got # None => job[p].file # None
                     /\ pc[p] \in {"idle", "copy"} => job[p].open = None

Typed == TypeOK /\ Copying

LEMMA TypeInit == Init => Typed
<1> SUFFICES ASSUME Init PROVE Typed
  OBVIOUS
<1>1. job = [p \in Procs |-> NoJob] /\ pc = [p \in Procs |-> "idle"]
  BY DEF Init
<1>2. job \in [Procs -> Job] /\ pc \in [Procs -> Phases]
  BY <1>1, NoJobType DEF Phases
<1>3. rows \in Rows /\ media \in Directory /\ hidden \subseteq SUBSET Objects
  BY NoJobType DEF Init, Directory
<1>4. /\ writes \in 0 .. MaxWrites /\ crossings \in 0 .. MaxCrossings
      /\ faults \in 0 .. MaxFaults
  BY Bounds DEF Init
<1>s. source \in Source
  BY DEF Init, Source, Listed
<1>5. TypeOK
  BY <1>2, <1>3, <1>4, <1>s DEF Init, TypeOK, Job, Phases
<1>6. Copying
  BY <1>1 DEF Copying, NoJob
<1> QED
  BY <1>5, <1>6 DEF Typed

LEMMA StartType ==
    ASSUME TypeOK, NEW p \in Procs, NEW command, NEW label \in Phases,
           Start(p, command, label)
    PROVE  /\ pc' \in [Procs -> Phases]
           /\ crossed' \in BOOLEAN /\ crossings' \in 0 .. MaxCrossings
<1>1. pc' = [pc EXCEPT ![p] = label] /\ pc \in [Procs -> Phases]
  BY DEF Start, Goto, TypeOK, Phases
<1>2. crossed \in BOOLEAN /\ crossings \in 0 .. MaxCrossings /\ MaxCrossings \in Nat
  BY Bounds DEF TypeOK
<1>3. \/ crossings' = crossings /\ crossed' = crossed
      \/ crossings' \in crossings + 1 .. MaxCrossings /\ crossed' = TRUE
  BY DEF Start
<1>4. crossings' \in 0 .. MaxCrossings
  BY <1>2, <1>3
<1>5. crossed' \in BOOLEAN
  BY <1>2, <1>3
<1> QED
  BY <1>1, <1>4, <1>5

LEMMA EndType ==
    ASSUME TypeOK, NEW p \in Procs, End(p)
    PROVE  pc' \in [Procs -> Phases] /\ job' \in [Procs -> Job]
BY NoJobType DEF End, Goto, TypeOK, Phases, Job

LEMMA LeftType ==
    ASSUME TypeOK, NEW p \in Procs
    PROVE  LeftBehind(p) \in SUBSET SUBSET Objects
BY DEF LeftBehind, TypeOK, Directory

\* What commands do to their jobs, field by field.
LEMMA RowsField == \A f \in Jobs, p \in Procs, x \in Rows : [f EXCEPT ![p].rows = x] \in Jobs
BY DEF Jobs, Job

LEMMA RestoreField ==
    \A f \in Jobs, p \in Procs, x \in BOOLEAN : [f EXCEPT ![p].restore = x] \in Jobs
BY DEF Jobs, Job

LEMMA TodoField ==
    \A f \in Jobs, p \in Procs, x \in SUBSET Messages : [f EXCEPT ![p].todo = x] \in Jobs
BY DEF Jobs, Job

LEMMA FileField ==
    \A f \in Jobs, p \in Procs, x \in Messages \cup {None} : [f EXCEPT ![p].file = x] \in Jobs
BY DEF Jobs, Job

LEMMA WasField ==
    \A f \in Jobs, p \in Procs, x \in Bytes \cup {None} : [f EXCEPT ![p].was = x] \in Jobs
BY DEF Jobs, Job

LEMMA GotField ==
    \A f \in Jobs, p \in Procs, x \in Objects \cup {None} : [f EXCEPT ![p].got = x] \in Jobs
BY DEF Jobs, Job

LEMMA DirtyField ==
    /\ \A f \in Jobs, p \in Procs, x \in BOOLEAN : [f EXCEPT ![p].dirty = x] \in Jobs
    /\ \A j \in Job, x \in BOOLEAN : [j EXCEPT !.dirty = x] \in Job
BY DEF Jobs, Job

LEMMA OpenField ==
    \A f \in Jobs, p \in Procs, x \in Messages \cup {None} : [f EXCEPT ![p].open = x] \in Jobs
BY DEF Jobs, Job

LEMMA FilesField ==
    \A f \in Jobs, p \in Procs, x \in SUBSET Objects : [f EXCEPT ![p].files = x] \in Jobs
BY DEF Jobs, Job

LEMMA AsideField ==
    \A f \in Jobs, p \in Procs, x \in Directory : [f EXCEPT ![p].aside = x] \in Jobs
BY DEF Jobs, Job

LEMMA SinceField ==
    \A f \in Jobs, p \in Procs, x \in 0 .. MaxCrossings : [f EXCEPT ![p].since = x] \in Jobs
BY DEF Jobs, Job

\* The choices of StartImport and OpenFile.
Importing(p, copied, restore) ==
    /\ job' = [job EXCEPT ![p].rows = Extracted, ![p].restore = restore, ![p].todo = copied]
    /\ faults' = IF restore THEN faults + 1 ELSE faults
    /\ faults' <= MaxFaults

LEMMA ImportingIs ==
    ASSUME NEW p \in Procs, StartImport(p)
    PROVE  \E copied \in {{}, Messages}, restore \in BOOLEAN : Importing(p, copied, restore)
BY Zenon DEF StartImport, Importing

Opening(p, m) ==
    \/ /\ source[m].file # None
       /\ job' = [job EXCEPT ![p].file = m, ![p].was = source[m].file, ![p].todo = @ \ {m}]
    \/ job' = [job EXCEPT ![p].todo = @ \ {m}]

LEMMA OpeningIs ==
    ASSUME NEW p \in Procs, OpenFile(p)
    PROVE  \E m \in job[p].todo : Opening(p, m)
BY Zenon DEF OpenFile, Opening

\* What UpsertRow and CompareCopies make of the imported rows.
Reopened(p, m) ==
    IF Retainable(rows[m], job[p].rows[m]) /\ job[p].rows[m].path.kind = "object"
    THEN m ELSE None

UpsertedRow(p, m) ==
    LET new == job[p].rows[m]
    IN  IF rows[m].deleted THEN rows[m]
        ELSE IF Retainable(rows[m], new) /\ new.path.kind # "object"
        THEN [new EXCEPT !.path = rows[m].path]
        ELSE [new EXCEPT !.deleted = @ \/ (new.attachment = None /\ rows[m].attachment # None)]

Upserted(p, m) == [job[p].rows EXCEPT ![m] = UpsertedRow(p, m)]

Upserting(p, m) ==
    job' = [job EXCEPT ![p].todo = job[p].todo \ {m}, ![p].open = Reopened(p, m),
                       ![p].rows = Upserted(p, m)]

UpsertingAt(p, m) ==
    LET new == job[p].rows[m]
        copied == new.path.kind = "object"
        retain == Retainable(rows[m], new)
        withdrawn == new.attachment = None /\ rows[m].attachment # None
    IN  job' = [job EXCEPT
            ![p].todo = @ \ {m},
            ![p].open = IF retain /\ copied THEN m ELSE None,
            ![p].rows = [@ EXCEPT ![m] =
                IF rows[m].deleted THEN rows[m]
                ELSE IF retain /\ ~copied THEN [new EXCEPT !.path = rows[m].path]
                ELSE [new EXCEPT !.deleted = @ \/ withdrawn]]]

LEMMA UpsertIs ==
    ASSUME NEW p \in Procs, UpsertRow(p), job \in [Procs -> Job]
    PROVE  \E m \in job[p].todo : Upserting(p, m)
<1>1. PICK m \in job[p].todo : UpsertingAt(p, m)
  BY Zenon DEF UpsertRow, UpsertingAt
<1>2. Upserting(p, m)
  BY <1>1 DEF UpsertingAt, Upserting, Upserted, UpsertedRow, Reopened
<1> QED
  BY <1>2

ComparedPath(p) ==
    LET m == job[p].open
        new == job[p].rows[m].path
    IN  IF new.object \in Contents(media) /\ new # rows[m].path THEN new ELSE rows[m].path

Compared(p) == [job[p].rows EXCEPT ![job[p].open].path = ComparedPath(p)]

LEMMA UpsertedType ==
    ASSUME rows \in Rows, NEW p \in Procs, NEW m \in Messages, job[p].rows \in Rows
    PROVE  UpsertedRow(p, m) \in Row /\ Upserted(p, m) \in Rows
<1>1. rows[m] \in Row /\ job[p].rows[m] \in Row
  BY DEF Rows
<1>2. UpsertedRow(p, m) \in Row
  BY <1>1 DEF UpsertedRow, Row
<1> QED
  BY <1>2 DEF Upserted, Rows

LEMMA ComparedType ==
    ASSUME rows \in Rows, NEW p \in Procs, job[p].open \in Messages, job[p].rows \in Rows
    PROVE  ComparedPath(p) \in Paths /\ Compared(p) \in Rows
<1>1. rows[job[p].open] \in Row /\ job[p].rows[job[p].open] \in Row
  BY DEF Rows
<1>2. ComparedPath(p) \in Paths
  BY <1>1 DEF ComparedPath, Row
<1> QED
  BY <1>2 DEF Compared, Rows, Row

LEMMA TypesStep == Types /\ Copying /\ [Next]_vars => Types'
<1> SUFFICES ASSUME Types, Copying, [Next]_vars PROVE Types'
  OBVIOUS
<1>0. /\ source \in [Messages -> Listed]
      /\ rows \in Rows /\ media \in Directory /\ hidden \subseteq SUBSET Objects
      /\ backup = None \/ backup \in Backups
      /\ pc \in [Procs -> Phases] /\ job \in Jobs
      /\ crossed \in BOOLEAN /\ halfway \in BOOLEAN
      /\ writes \in 0 .. MaxWrites /\ crossings \in 0 .. MaxCrossings
      /\ faults \in 0 .. MaxFaults
      /\ MaxWrites \in Nat /\ MaxFaults \in Nat /\ MaxCrossings \in Nat
  BY MediaAssumption DEF Types, Source
<1>t. TypeOK
  BY TypesAre
<1>r. \A p \in Procs : /\ job[p].rows \in Rows /\ job[p].todo \in SUBSET Messages
                       /\ job[p].files \in SUBSET Objects /\ job[p].aside \in Directory
                       /\ job[p].was \in Bytes \cup {None} /\ job[p].got \in Objects \cup {None}
                       /\ job[p].open \in Messages \cup {None}
                       /\ job[p].since \in 0 .. MaxCrossings
  BY <1>0 DEF Jobs, Job
<1>e. ASSUME NEW p \in Procs, End(p) PROVE pc' \in [Procs -> Phases] /\ job' \in Jobs
  BY <1>t, <1>e, EndType DEF Jobs
<1>g. ASSUME NEW p \in Procs, NEW label \in Phases, Goto(p, label)
      PROVE  pc' \in [Procs -> Phases]
  BY <1>0, <1>g DEF Goto
<1>1. ASSUME NEW p \in Procs, StartImport(p) PROVE Types'
  <2>1. \E copied \in {{}, Messages}, restore \in BOOLEAN : Importing(p, copied, restore)
    BY <1>1, ImportingIs
  <2> PICK copied \in {{}, Messages}, restore \in BOOLEAN : Importing(p, copied, restore)
    BY <2>1
  <2>2. copied \in SUBSET Messages /\ Extracted \in Rows
    BY <1>t, ExtractedType
  <2>3. job' \in Jobs
    BY <1>0, <2>2, RowsField, RestoreField, TodoField DEF Importing
  <2>4. faults' \in 0 .. MaxFaults
    BY <1>0 DEF Importing
  <2>5. /\ pc' \in [Procs -> Phases]
        /\ crossed' \in BOOLEAN /\ crossings' \in 0 .. MaxCrossings
    BY <1>1, <1>t, StartType DEF StartImport, Phases
  <2> QED
    BY <1>1, <1>0, <2>3, <2>4, <2>5 DEF StartImport, Types, Source
<1>2. ASSUME NEW p \in Procs, OpenFile(p) PROVE Types'
  <2>1. job' \in Jobs
    <3>1. PICK m \in job[p].todo : Opening(p, m)
      BY <1>2, OpeningIs
    <3>2. m \in Messages /\ job[p].todo \ {m} \in SUBSET Messages
      BY <1>r
    <3>3. source[m].file \in Bytes \cup {None}
      BY <1>0, <3>2 DEF Listed
    <3>5. CASE job' = [job EXCEPT ![p].todo = @ \ {m}]
      BY <1>0, <3>2, <3>5, TodoField
    <3>6. CASE job' = [job EXCEPT ![p].file = m, ![p].was = source[m].file,
                                  ![p].todo = @ \ {m}]
      <4> DEFINE file == source[m].file
                 left == job[p].todo \ {m}
                 opened == [job EXCEPT ![p].file = m, ![p].was = file]
      <4>1. opened \in Jobs
        BY <1>0, <3>2, <3>3, FileField, WasField
      <4>2. job' = [opened EXCEPT ![p].todo = left]
        BY <1>0, <3>6 DEF Jobs, Job
      <4>3. left \in SUBSET Messages
        BY <3>2
      <4> HIDE DEF opened, left
      <4> QED
        BY <4>1, <4>2, <4>3, TodoField
    <3> QED
      BY <3>1, <3>5, <3>6 DEF Opening
  <2> QED
    BY <1>2, <1>0, <2>1 DEF OpenFile, Types, Source
<1>3. ASSUME NEW p \in Procs, ReadFile(p) PROVE Types'
  <2>1. job[p].was # None
    BY <1>3 DEF ReadFile, Copying
  <2>2. (IF job[p].dirty THEN Torn ELSE job[p].was) \in Objects \cup {None}
    BY <1>r, <2>1 DEF Objects
  <2>3. job' \in Jobs
    BY <1>3, <1>0, <2>2, GotField DEF ReadFile
  <2> QED
    BY <1>3, <1>0, <2>3 DEF ReadFile, Types, Source
<1>4. ASSUME NEW p \in Procs, LinkObject(p) PROVE Types'
  <2>1. CASE Unchanged(p)
    <3>1. /\ job[p].got \in Objects /\ job[p].rows \in Rows
      BY <1>4, <1>r DEF LinkObject
    <3> DEFINE linked == [job[p].rows EXCEPT ![job[p].file].path = Object(job[p].got)]
    <3>2. linked \in Rows
      BY <3>1, PathTypes DEF Rows, Row
    <3> HIDE DEF linked
    <3>3. job' = [job EXCEPT ![p].rows = linked, ![p].file = None, ![p].was = None,
                             ![p].got = None, ![p].dirty = FALSE]
      BY <1>4, <2>1 DEF LinkObject, linked
    <3> DEFINE first == [job EXCEPT ![p].rows = linked, ![p].file = None]
    <3>4. first \in Jobs
      BY <1>0, <3>2, RowsField, FileField
    <3>5. job' = [first EXCEPT ![p].was = None, ![p].got = None, ![p].dirty = FALSE]
      BY <3>3
    <3> HIDE DEF first
    <3>6. [first EXCEPT ![p].was = None, ![p].got = None] \in Jobs
      BY <3>4, WasField, GotField
    <3> DEFINE second == [first EXCEPT ![p].was = None, ![p].got = None]
    <3>7. second \in Jobs /\ job' = [second EXCEPT ![p].dirty = FALSE]
      BY <3>5, <3>6
    <3> HIDE DEF second
    <3>8. job' \in Jobs
      BY <3>7, DirtyField
    <3>9. media' \in Directory
      BY <1>4, <1>0, <2>1, <3>1, ContentsType DEF LinkObject, Directory
    <3> QED
      BY <1>4, <1>0, <2>1, <3>8, <3>9 DEF LinkObject, Types, Source
  <2>2. CASE ~Unchanged(p)
    <3>1. End(p) /\ UNCHANGED media
      BY <1>4, <2>2 DEF LinkObject
    <3> QED
      BY <1>4, <1>0, <1>e, <3>1 DEF LinkObject, Types, Source
  <2> QED
    BY <2>1, <2>2
<1>5. ASSUME NEW p \in Procs, BeginImport(p) PROVE Types'
  <2>1. (IF job[p].restore THEN {} ELSE Messages) \in SUBSET Messages
    OBVIOUS
  <2>2. job' \in Jobs
    BY <1>5, <1>0, <2>1, TodoField DEF BeginImport
  <2>3. pc' \in [Procs -> Phases]
    BY <1>5, <1>g DEF BeginImport, Phases
  <2> QED
    BY <1>5, <1>0, <2>2, <2>3 DEF BeginImport, Types, Source
<1>6. ASSUME NEW p \in Procs, UpsertRow(p) PROVE Types'
  <2>1. PICK m \in job[p].todo : Upserting(p, m)
    BY <1>6, <1>0, UpsertIs DEF Jobs
  <2>2. m \in Messages
    BY <1>r
  <2> DEFINE left == job[p].todo \ {m}
  <2>3. left \in SUBSET Messages
    BY <1>r
  <2>4. Upserted(p, m) \in Rows /\ Reopened(p, m) \in Messages \cup {None}
    BY <1>0, <1>r, <2>2, UpsertedType DEF Reopened
  <2>5. job' = [job EXCEPT ![p].todo = left, ![p].open = Reopened(p, m),
                           ![p].rows = Upserted(p, m)]
    BY <2>1 DEF Upserting
  <2> HIDE DEF left
  <2>6. job' \in Jobs
    BY <1>0, <2>3, <2>4, <2>5, RowsField, OpenField, TodoField
  <2> QED
    BY <1>6, <1>0, <2>6 DEF UpsertRow, Types, Source
<1>7. ASSUME NEW p \in Procs, CompareCopies(p) PROVE Types'
  <2>1. job[p].open \in Messages
    BY <1>7, <1>r DEF CompareCopies
  <2>2. Compared(p) \in Rows
    BY <1>0, <1>r, <2>1, ComparedType
  <2>3. job' = [job EXCEPT ![p].open = None, ![p].rows = Compared(p)]
    BY <1>7 DEF CompareCopies, Compared, ComparedPath
  <2>4. job' \in Jobs
    BY <1>0, <2>2, <2>3, RowsField, OpenField
  <2> QED
    BY <1>7, <1>0, <2>4 DEF CompareCopies, Types, Source
<1>8. ASSUME NEW p \in Procs, CommitImport(p) PROVE Types'
  BY <1>8, <1>0, <1>r, <1>e DEF CommitImport, Types, Source
<1>9. ASSUME NEW p \in Procs, StartPush(p) PROVE Types'
  <2>1. job' \in Jobs
    BY <1>9, <1>0, RowsField DEF StartPush
  <2>2. /\ pc' \in [Procs -> Phases]
        /\ crossed' \in BOOLEAN /\ crossings' \in 0 .. MaxCrossings
    BY <1>9, <1>t, StartType DEF StartPush, Phases
  <2> QED
    BY <1>9, <1>0, <2>1, <2>2 DEF StartPush, Types, Source
<1>10. ASSUME NEW p \in Procs, Collect(p) PROVE Types'
  <2>1. Contents(media) \in SUBSET Objects
    BY <1>0, ContentsType
  <2> DEFINE exported == [m \in Messages |-> Exported(job[p].rows[m], Contents(media))]
             listed == [job EXCEPT ![p].files = Contents(media)]
  <2>2. exported \in Rows
    BY <1>r, <2>1, ExportedType DEF Rows
  <2>3. listed \in Jobs
    BY <1>0, <2>1, FilesField
  <2>4. job' = [listed EXCEPT ![p].rows = exported]
    BY <1>10, <1>0 DEF Collect, Jobs, Job
  <2> HIDE DEF exported, listed
  <2>5. job' \in Jobs
    BY <2>2, <2>3, <2>4, RowsField
  <2>6. pc' \in [Procs -> Phases]
    BY <1>10, <1>g DEF Collect, Phases
  <2> QED
    BY <1>10, <1>0, <2>5, <2>6 DEF Collect, Types, Source
<1>11. ASSUME NEW p \in Procs, WriteBackup(p) PROVE Types'
  <2>1. backup' = None \/ backup' \in Backups
    BY <1>11, <1>0, <1>r DEF WriteBackup, Backups
  <2> QED
    BY <1>11, <1>0, <1>e, <2>1 DEF WriteBackup, Types, Source
<1>12. ASSUME NEW p \in Procs, StartPull(p) PROVE Types'
  <2>1. backup.rows \in Rows /\ backup.files \in SUBSET Objects
    BY <1>12, <1>0 DEF StartPull, Backups
  <2>2. job' \in Jobs
    BY <1>12, <1>0, <2>1, RowsField, FilesField, SinceField DEF StartPull
  <2>3. /\ pc' \in [Procs -> Phases]
        /\ crossed' \in BOOLEAN /\ crossings' \in 0 .. MaxCrossings
    BY <1>12, <1>t, StartType DEF StartPull, Phases
  <2> QED
    BY <1>12, <1>0, <2>2, <2>3 DEF StartPull, Types, Source
<1>13. ASSUME NEW p \in Procs, MoveAside(p) PROVE Types'
  <2>1. job' \in Jobs /\ None \in Directory
    BY <1>13, <1>0, AsideField DEF MoveAside, Directory
  <2>2. pc' \in [Procs -> Phases]
    BY <1>13, <1>g DEF MoveAside, Phases
  <2> QED
    BY <1>13, <1>0, <2>1, <2>2 DEF MoveAside, Types, Source
<1>14. ASSUME NEW p \in Procs, Install(p) PROVE Types'
  <2>1. CASE media = None
    <3>1. media' \in Directory
      BY <1>14, <1>r, <2>1 DEF Install, Directory
    <3>2. pc' \in [Procs -> Phases]
      BY <1>14, <1>g, <2>1 DEF Install, Phases
    <3> QED
      BY <1>14, <1>0, <2>1, <3>1, <3>2 DEF Install, Types, Source
  <2>2. CASE media # None
    <3>1. End(p) /\ hidden' \subseteq SUBSET Objects
      BY <1>14, <1>0, <1>t, <2>2, LeftType DEF Install
    <3> QED
      BY <1>14, <1>0, <1>e, <2>2, <3>1 DEF Install, Types, Source
  <2> QED
    BY <2>1, <2>2
<1>15. ASSUME NEW p \in Procs, Replace(p) PROVE Types'
  <2>1. rows' \in Rows
    BY <1>15, <1>r, LocalizedType DEF Replace, Rows
  <2> DEFINE rest == [NoJob EXCEPT !.aside = job[p].aside, !.since = job[p].since]
  <2>2. rest \in Job
    BY <1>r, NoJobType DEF Job
  <2>3. job' = [job EXCEPT ![p] = rest]
    BY <1>15 DEF Replace
  <2> HIDE DEF rest
  <2>4. job' \in Jobs
    BY <1>0, <2>2, <2>3 DEF Jobs
  <2>5. pc' \in [Procs -> Phases]
    BY <1>15, <1>g DEF Replace, Phases
  <2>6. crossed' \in BOOLEAN /\ halfway' \in BOOLEAN
    BY <1>15 DEF Replace
  <2> QED
    BY <1>15, <1>0, <2>1, <2>4, <2>5, <2>6 DEF Replace, Types, Source
<1>16. ASSUME NEW p \in Procs, ReplaceFails(p) PROVE Types'
  <2>1. faults' \in 0 .. MaxFaults
    BY <1>16, <1>0 DEF ReplaceFails
  <2>2. CASE job[p].files = {}
    <3>1. End(p) /\ UNCHANGED media
      BY <1>16, <2>2 DEF ReplaceFails
    <3> QED
      BY <1>16, <1>0, <1>e, <2>1, <3>1 DEF ReplaceFails, Types, Source
  <2>3. CASE job[p].files # {}
    <3>1. pc' \in [Procs -> Phases] /\ job' = job /\ media' \in Directory
      BY <1>16, <1>g, <2>3 DEF ReplaceFails, Phases, Directory
    <3> QED
      BY <1>16, <1>0, <2>1, <3>1 DEF ReplaceFails, Types, Source
  <2> QED
    BY <2>2, <2>3
<1>17. ASSUME NEW p \in Procs, PutBack(p) PROVE Types'
  <2>1. media' \in Directory /\ hidden' \subseteq SUBSET Objects
    BY <1>17, <1>0, <1>r, <1>t, LeftType DEF PutBack
  <2> QED
    BY <1>17, <1>0, <1>e, <2>1 DEF PutBack, Types, Source
<1>18. ASSUME NEW p \in Procs, Cleanup(p) PROVE Types'
  BY <1>18, <1>0, <1>e DEF Cleanup, Types, Source
<1>19. ASSUME NEW p \in Procs, Stop(p) PROVE Types'
  <2>1. halfway' \in BOOLEAN
    BY <1>19 DEF Stop
  <2>2. hidden' \subseteq SUBSET Objects /\ faults' \in 0 .. MaxFaults
    BY <1>19, <1>0, <1>t, LeftType DEF Stop
  <2> QED
    BY <1>19, <1>0, <1>e, <2>1, <2>2 DEF Stop, Types, Source
<1>20. ASSUME NEW m \in Messages, WriteSource(m) PROVE Types'
  <2>1. writes' \in 0 .. MaxWrites
    BY <1>20, <1>0 DEF WriteSource
  <2>2. source' \in Source
    <3>1. \E new \in Listed : source' = [source EXCEPT ![m] = new]
      BY <1>20, <1>0 DEF WriteSource, Listed
    <3> QED
      BY <1>0, <3>1 DEF Source
  <2>3. \A p \in Procs : [job[p] EXCEPT !.dirty = @ \/ job[p].file = m] \in Job
    BY <1>0, DirtyField DEF Jobs, Job
  <2>4. job' \in Jobs
    BY <1>20, <1>0, <2>3 DEF WriteSource, Jobs
  <2> QED
    BY <1>20, <1>0, <2>1, <2>2, <2>4 DEF WriteSource, Types
<1>21. CASE UNCHANGED vars
  BY <1>21, <1>0 DEF vars, Types, Source
<1> QED
  BY <1>1, <1>2, <1>3, <1>4, <1>5, <1>6, <1>7, <1>8, <1>9, <1>10, <1>11, <1>12, <1>13,
     <1>14, <1>15, <1>16, <1>17, <1>18, <1>19, <1>20, <1>21 DEF Next, Import, Push, Pull

LEMMA TypeStep == Typed /\ [Next]_vars => TypeOK'
<1>1. Types' => TypeOK'
  BY TypesAre, PTL
<1> QED
  BY <1>1, TypesAre, TypesStep DEF Typed

\* The commands keep their jobs apart.
LEMMA OthersWait ==
    ASSUME TypeOK, NEW p \in Procs, Import(p) \/ Push(p) \/ Pull(p) \/ Stop(p)
    PROVE  \A q \in Procs \ {p} : pc'[q] = pc[q] /\ job'[q] = job[q]
<1>1. pc \in [Procs -> Phases] /\ job \in [Procs -> Job]
  BY DEF TypeOK, Phases, Job
<1>2. CASE Import(p)
  <2>1. CASE StartImport(p)
    BY <1>1, <2>1 DEF StartImport, Start, Goto
  <2>2. CASE OpenFile(p)
    BY <1>1, <2>2 DEF OpenFile
  <2>3. CASE ReadFile(p)
    BY <1>1, <2>3 DEF ReadFile
  <2>4. CASE LinkObject(p)
    BY <1>1, <2>4 DEF LinkObject, End, Goto
  <2>5. CASE BeginImport(p)
    BY <1>1, <2>5 DEF BeginImport, Goto
  <2>6. CASE UpsertRow(p)
    BY <1>1, <2>6 DEF UpsertRow
  <2>7. CASE CompareCopies(p)
    BY <1>1, <2>7 DEF CompareCopies
  <2>8. CASE CommitImport(p)
    BY <1>1, <2>8 DEF CommitImport, End, Goto
  <2> QED
    BY <1>2, <2>1, <2>2, <2>3, <2>4, <2>5, <2>6, <2>7, <2>8 DEF Import
<1>3. CASE Push(p)
  BY <1>1, <1>3 DEF Push, StartPush, Collect, WriteBackup, Start, End, Goto
<1>4. CASE Pull(p)
  BY <1>1, <1>4 DEF Pull, StartPull, MoveAside, Install, Replace, ReplaceFails, PutBack,
                    Cleanup, Start, End, Goto
<1>5. CASE Stop(p)
  BY <1>1, <1>5 DEF Stop, End, Goto
<1> QED
  BY <1>2, <1>3, <1>4, <1>5

LEMMA CopyingStep == Typed /\ [Next]_vars => Copying'
<1> SUFFICES ASSUME Typed, [Next]_vars, NEW p \in Procs
             PROVE  /\ job'[p].file # None => job'[p].was # None
                    /\ job'[p].got # None => job'[p].file # None
                    /\ pc'[p] \in {"idle", "copy"} => job'[p].open = None
  BY DEF Copying
<1>0. /\ job \in [Procs -> Job] /\ pc \in [Procs -> Phases]
      /\ job[p].file # None => job[p].was # None
      /\ job[p].got # None => job[p].file # None
      /\ pc[p] \in {"idle", "copy"} => job[p].open = None
  BY DEF Typed, TypeOK, Copying, Job, Phases
<1>1. CASE /\ job'[p].file = job[p].file /\ job'[p].was = job[p].was /\ job'[p].got = job[p].got
           /\ job'[p].open = job[p].open /\ (pc'[p] = pc[p] \/ pc[p] = "idle")
  BY <1>0, <1>1
<1>2. CASE job'[p].file = None /\ job'[p].got = None /\ job'[p].open = None
  BY <1>2
<1>w. CASE /\ job'[p].file = job[p].file /\ job'[p].was = job[p].was /\ job'[p].got = job[p].got
           /\ pc'[p] \notin {"idle", "copy"}
  BY <1>0, <1>w
<1>3. CASE Import(p)
  <2>1. CASE StartImport(p)
    BY <1>0, <1>1, <2>1 DEF StartImport, Start
  <2>2. CASE OpenFile(p)
    BY <1>0, <2>2 DEF OpenFile, Job
  <2>3. CASE ReadFile(p)
    BY <1>0, <2>3 DEF ReadFile
  <2>4. CASE LinkObject(p)
    <3>1. CASE Unchanged(p)
      BY <1>0, <1>2, <2>4, <3>1 DEF LinkObject, Job
    <3>2. CASE ~Unchanged(p)
      BY <1>0, <1>2, <2>4, <3>2 DEF LinkObject, End, NoJob
    <3> QED
      BY <3>1, <3>2
  <2>5. CASE CommitImport(p)
    BY <1>0, <1>2, <2>5 DEF CommitImport, End, NoJob
  <2>6. CASE BeginImport(p)
    BY <1>0, <1>w, <2>6 DEF BeginImport, Goto, Job
  <2>7. CASE UpsertRow(p)
    <3>1. PICK m \in job[p].todo : Upserting(p, m)
      BY <1>0, <2>7, UpsertIs
    <3> QED
      BY <1>0, <1>w, <2>7, <3>1 DEF UpsertRow, Upserting, Job
  <2>8. CASE CompareCopies(p)
    BY <1>0, <1>w, <2>8 DEF CompareCopies, Job
  <2> QED
    BY <1>3, <2>1, <2>2, <2>3, <2>4, <2>5, <2>6, <2>7, <2>8 DEF Import
<1>4. CASE Push(p)
  <2>1. CASE StartPush(p)
    BY <1>0, <1>w, <2>1 DEF StartPush, Start, Goto, Job
  <2>2. CASE Collect(p)
    BY <1>0, <1>w, <2>2 DEF Collect, Goto, Job
  <2>3. CASE WriteBackup(p)
    BY <1>0, <1>2, <2>3 DEF WriteBackup, End, NoJob
  <2> QED
    BY <1>4, <2>1, <2>2, <2>3 DEF Push
<1>5. CASE Pull(p)
  <2>1. CASE StartPull(p)
    <3>1. pc'[p] \in {"aside", "replace"}
      BY <1>0, <2>1 DEF StartPull, Start, Goto
    <3> QED
      BY <1>0, <1>w, <2>1, <3>1 DEF StartPull, Job
  <2>4. CASE MoveAside(p)
    BY <1>0, <1>w, <2>4 DEF MoveAside, Goto, Job
  <2>2. CASE Install(p) \/ ReplaceFails(p)
    BY <1>0, <1>w, <1>2, <2>2 DEF Install, ReplaceFails, End, Goto, NoJob
  <2>3. CASE PutBack(p) \/ Cleanup(p)
    BY <1>0, <1>2, <2>3 DEF PutBack, Cleanup, End, NoJob
  <2>5. CASE Replace(p)
    <3> DEFINE rest == [NoJob EXCEPT !.aside = job[p].aside, !.since = job[p].since]
    <3>1. rest.file = None /\ rest.got = None /\ rest.open = None
      BY DEF NoJob
    <3>2. job'[p] = rest
      BY <1>0, <2>5 DEF Replace
    <3> HIDE DEF rest
    <3> QED
      BY <3>1, <3>2
  <2> QED
    BY <1>5, <2>1, <2>2, <2>3, <2>4, <2>5 DEF Pull
<1>6. CASE Stop(p)
  BY <1>0, <1>2, <1>6 DEF Stop, End, NoJob
<1>7. CASE \E q \in Procs \ {p} : Import(q) \/ Push(q) \/ Pull(q) \/ Stop(q)
  BY <1>1, <1>7, OthersWait DEF Typed
<1>8. CASE \E m \in Messages : WriteSource(m)
  BY <1>0, <1>1, <1>8 DEF WriteSource
<1>9. CASE UNCHANGED vars
  BY <1>1, <1>9 DEF vars
<1> QED
  BY <1>3, <1>4, <1>5, <1>6, <1>7, <1>8, <1>9 DEF Next

\* Every reachable state is well typed, however many commands run and whatever
\* WhatsApp does to its files.
THEOREM TypeCorrect == Spec => []TypeOK
<1>1. Typed => TypeOK
  BY DEF Typed
<1>2. Typed /\ [Next]_vars => Typed'
  BY TypeStep, CopyingStep DEF Typed
<1> QED
  BY TypeInit, <1>1, <1>2, PTL DEF Spec

-----------------------------------------------------------------------------
(* Torn copies.                                                             *)

CleanRows(rs) == \A m \in Messages : rs[m].path.object # Torn

CleanJob(j) ==
    /\ CleanRows(j.rows)
    /\ Torn \notin j.files /\ Torn \notin Contents(j.aside)
    /\ j.got = Torn => j.dirty

CleanArchive ==
    /\ CleanRows(rows) /\ Torn \notin Contents(media)
    /\ \A dir \in hidden : Torn \notin dir
    /\ backup # None => CleanRows(backup.rows) /\ Torn \notin backup.files

\* What was torn is still marked as rewritten while it is copied.
Untorn == CleanArchive /\ \A p \in Procs : CleanJob(job[p])

LEMMA TornIsNotNone == Torn # None
BY MediaAssumption

LEMMA NoContents == Contents(None) = {}
BY DEF Contents

LEMMA CleanNoJob == CleanRows(NoRows) /\ CleanJob(NoJob)
BY TornIsNotNone, NoContents DEF CleanRows, CleanJob, NoJob, NoRows, Nowhere

LEMMA CleanLeftBehind ==
    ASSUME NEW p \in Procs, CleanJob(job[p])
    PROVE  \A dir \in LeftBehind(p) : Torn \notin dir
BY DEF LeftBehind, CleanJob, Contents

LEMMA UntornInit == Init => Untorn
BY CleanNoJob, NoContents DEF Init, Untorn, CleanArchive

LEMMA UntornStep == TypeOK /\ Untorn /\ [Next]_vars => Untorn'
<1> SUFFICES ASSUME TypeOK, Untorn, [Next]_vars PROVE Untorn'
  OBVIOUS
<1>0. /\ job \in [Procs -> Job] /\ CleanArchive
      /\ \A p \in Procs : CleanJob(job[p]) /\ job[p] \in Job
  BY DEF TypeOK, Untorn, Job
<1>i. ASSUME NEW p \in Procs, Import(p) \/ Push(p) \/ Pull(p) \/ Stop(p),
             CleanArchive', CleanJob(job'[p])
      PROVE  Untorn'
  BY <1>0, <1>i, OthersWait DEF Untorn
<1>a. ASSUME UNCHANGED <<rows, media, hidden, backup>> PROVE CleanArchive'
  BY <1>0, <1>a DEF CleanArchive
<1>c. ASSUME NEW p \in Procs, Import(p) \/ Push(p) \/ Pull(p) \/ Stop(p),
             UNCHANGED <<rows, media, hidden, backup>>, CleanJob(job'[p])
      PROVE  Untorn'
  <2>1. CleanArchive'
    BY <1>a, <1>c
  <2> QED
    BY <1>c, <1>i, <2>1
<1>e. ASSUME NEW p \in Procs, End(p) PROVE CleanJob(job'[p])
  BY <1>0, <1>e, CleanNoJob DEF End
<1>1. ASSUME NEW p \in Procs, StartImport(p) PROVE Untorn'
  <2>1. /\ CleanRows(job'[p].rows) /\ job'[p].files = job[p].files
        /\ job'[p].aside = job[p].aside /\ job'[p].got = job[p].got
        /\ job'[p].dirty = job[p].dirty
    <3>1. PICK copied \in {{}, Messages}, restore \in BOOLEAN : Importing(p, copied, restore)
      BY <1>1, ImportingIs, Zenon
    <3>2. /\ job'[p].rows = Extracted /\ job'[p].files = job[p].files
          /\ job'[p].aside = job[p].aside /\ job'[p].got = job[p].got
          /\ job'[p].dirty = job[p].dirty
      BY <1>0, <3>1 DEF Importing, Job
    <3>3. CleanRows(Extracted)
      BY TornIsNotNone DEF Extracted, CleanRows, Container, Nowhere
    <3> QED
      BY <3>2, <3>3
  <2>2. CleanJob(job'[p])
    BY <1>0, <2>1 DEF CleanJob
  <2>3. UNCHANGED <<rows, media, hidden, backup>>
    BY <1>1 DEF StartImport
  <2> QED
    BY <1>1, <1>c, <2>2, <2>3 DEF Import
<1>2. ASSUME NEW p \in Procs, OpenFile(p) PROVE Untorn'
  <2>1. /\ job'[p].rows = job[p].rows /\ job'[p].files = job[p].files
        /\ job'[p].aside = job[p].aside /\ job'[p].got = job[p].got
        /\ job'[p].dirty = job[p].dirty
    <3>1. PICK m \in job[p].todo : Opening(p, m)
      BY <1>2, OpeningIs
    <3> QED
      BY <1>0, <3>1 DEF Opening, Job
  <2>2. CleanJob(job'[p])
    BY <1>0, <2>1 DEF CleanJob
  <2>3. UNCHANGED <<rows, media, hidden, backup>>
    BY <1>2 DEF OpenFile
  <2> QED
    BY <1>2, <1>c, <2>2, <2>3 DEF Import
<1>3. ASSUME NEW p \in Procs, ReadFile(p) PROVE Untorn'
  <2>1. /\ job'[p].rows = job[p].rows /\ job'[p].files = job[p].files
        /\ job'[p].aside = job[p].aside /\ job'[p].dirty = job[p].dirty
        /\ job'[p].got = IF job[p].dirty THEN Torn ELSE job[p].was
    BY <1>0, <1>3 DEF ReadFile, Job
  <2>2. job[p].was # Torn
    BY <1>0, TornIsNotNone, MediaAssumption DEF Job
  <2> QED
    BY <1>0, <1>3, <1>i, <1>a, <2>1, <2>2 DEF ReadFile, Import, CleanJob
<1>4. ASSUME NEW p \in Procs, LinkObject(p) PROVE Untorn'
  <2>1. CASE Unchanged(p)
    <3>1. job[p].got # Torn
      BY <1>0, <2>1 DEF CleanJob, Unchanged
    <3>2. /\ job'[p].rows = [job[p].rows EXCEPT ![job[p].file].path = Object(job[p].got)]
          /\ job'[p].files = job[p].files /\ job'[p].aside = job[p].aside
          /\ job'[p].got = None
      BY <1>0, <1>4, <2>1 DEF LinkObject, Job
    <3>3. CleanRows(job'[p].rows)
      BY <1>0, <3>1, <3>2 DEF CleanRows, CleanJob, Object, Job, Rows, Row
    <3>4. CleanArchive'
      <4>1. media' = Contents(media) \cup {job[p].got}
        BY <1>4, <2>1 DEF LinkObject
      <4>2. Torn \notin Contents(media')
        BY <1>0, <3>1, <4>1 DEF Contents, CleanArchive
      <4> QED
        BY <1>0, <1>4, <4>2 DEF LinkObject, CleanArchive
    <3> QED
      BY <1>0, <1>4, <1>i, <3>2, <3>3, <3>4, TornIsNotNone DEF Import, CleanJob
  <2>2. CASE ~Unchanged(p)
    <3>1. End(p) /\ UNCHANGED <<rows, media, hidden, backup>>
      BY <1>4, <2>2 DEF LinkObject
    <3> QED
      BY <1>4, <1>c, <1>e, <3>1 DEF Import
  <2> QED
    BY <2>1, <2>2
<1>5. ASSUME NEW p \in Procs, CommitImport(p) PROVE Untorn'
  <2>1. CleanRows(rows')
    BY <1>0, <1>5 DEF CommitImport, CleanJob
  <2> QED
    BY <1>0, <1>5, <1>i, <1>e, <2>1 DEF CommitImport, Import, CleanArchive
<1>19. ASSUME NEW p \in Procs, BeginImport(p) PROVE Untorn'
  <2>1. /\ job'[p].rows = job[p].rows /\ job'[p].files = job[p].files
        /\ job'[p].aside = job[p].aside /\ job'[p].got = job[p].got
        /\ job'[p].dirty = job[p].dirty
    BY <1>0, <1>19 DEF BeginImport, Job
  <2> QED
    BY <1>0, <1>19, <1>i, <1>a, <2>1 DEF BeginImport, Import, CleanJob
<1>20. ASSUME NEW p \in Procs, UpsertRow(p) PROVE Untorn'
  <2>1. PICK m \in job[p].todo : Upserting(p, m)
    BY <1>0, <1>20, UpsertIs
  <2>2. /\ job'[p].rows = Upserted(p, m) /\ job'[p].files = job[p].files
        /\ job'[p].aside = job[p].aside /\ job'[p].got = job[p].got
        /\ job'[p].dirty = job[p].dirty
    BY <1>0, <2>1 DEF Upserting, Job
  <2>3. m \in Messages /\ rows \in Rows /\ job[p].rows \in Rows
    BY <1>0 DEF Job, TypeOK
  <2>4. rows[m].path.object # Torn /\ job[p].rows[m].path.object # Torn
    BY <1>0, <2>3 DEF CleanArchive, CleanJob, CleanRows
  <2>5. rows[m] \in Row /\ job[p].rows[m] \in Row
    BY <2>3 DEF Rows
  <2>6. UpsertedRow(p, m).path.object # Torn
    BY <2>4, <2>5 DEF UpsertedRow, Row
  <2>7. CleanRows(Upserted(p, m))
    BY <1>0, <2>3, <2>6 DEF Upserted, CleanRows, CleanJob, Rows
  <2>8. CleanJob(job'[p])
    BY <1>0, <2>2, <2>7 DEF CleanJob
  <2>9. UNCHANGED <<rows, media, hidden, backup>>
    BY <1>20 DEF UpsertRow
  <2> QED
    BY <1>20, <1>c, <2>8, <2>9 DEF Import
<1>21. ASSUME NEW p \in Procs, CompareCopies(p) PROVE Untorn'
  <2>1. job[p].open \in Messages /\ rows \in Rows /\ job[p].rows \in Rows
    BY <1>0, <1>21 DEF CompareCopies, Job, TypeOK
  <2>2. /\ job'[p].rows = Compared(p) /\ job'[p].files = job[p].files
        /\ job'[p].aside = job[p].aside /\ job'[p].got = job[p].got
        /\ job'[p].dirty = job[p].dirty
    BY <1>0, <1>21 DEF CompareCopies, Compared, ComparedPath, Job
  <2>3. ComparedPath(p).object # Torn
    BY <1>0, <2>1 DEF ComparedPath, CleanArchive, CleanJob, CleanRows
  <2>4. CleanRows(Compared(p))
    BY <1>0, <2>1, <2>3 DEF Compared, CleanRows, CleanJob, Rows, Row
  <2>5. CleanJob(job'[p])
    BY <1>0, <2>2, <2>4 DEF CleanJob
  <2>6. UNCHANGED <<rows, media, hidden, backup>>
    BY <1>21 DEF CompareCopies
  <2> QED
    BY <1>21, <1>c, <2>5, <2>6 DEF Import
<1>6. ASSUME NEW p \in Procs, StartPush(p) PROVE Untorn'
  <2>1. /\ job'[p].rows = rows /\ job'[p].files = job[p].files
        /\ job'[p].aside = job[p].aside /\ job'[p].got = job[p].got
        /\ job'[p].dirty = job[p].dirty
    BY <1>0, <1>6 DEF StartPush, Job
  <2> QED
    BY <1>0, <1>6, <1>i, <1>a, <2>1 DEF StartPush, Push, CleanJob, CleanArchive
<1>7. ASSUME NEW p \in Procs, Collect(p) PROVE Untorn'
  <2>1. /\ job'[p].rows = [m \in Messages |-> Exported(job[p].rows[m], Contents(media))]
        /\ job'[p].files = Contents(media)
        /\ job'[p].aside = job[p].aside /\ job'[p].got = job[p].got
        /\ job'[p].dirty = job[p].dirty
    BY <1>0, <1>7 DEF Collect, Job
  <2>2. CleanRows(job'[p].rows)
    <3>1. \A r \in Row : Exported(r, Contents(media)).path.object = r.path.object
      BY DEF Exported, Portable, Row
    <3> QED
      BY <1>0, <2>1, <3>1 DEF CleanRows, CleanJob, Job, Rows
  <2>3. CleanJob(job'[p])
    BY <1>0, <2>1, <2>2 DEF CleanJob, CleanArchive
  <2>4. UNCHANGED <<rows, media, hidden, backup>>
    BY <1>7 DEF Collect
  <2> QED
    BY <1>7, <1>c, <2>3, <2>4 DEF Push
<1>8. ASSUME NEW p \in Procs, WriteBackup(p) PROVE Untorn'
  <2>1. CleanArchive'
    BY <1>0, <1>8 DEF WriteBackup, CleanArchive, CleanJob
  <2> QED
    BY <1>8, <1>i, <1>e, <2>1 DEF WriteBackup, Push
<1>9. ASSUME NEW p \in Procs, StartPull(p) PROVE Untorn'
  <2>1. /\ job'[p].rows = backup.rows /\ job'[p].files = backup.files
        /\ job'[p].aside = job[p].aside /\ job'[p].got = job[p].got
        /\ job'[p].dirty = job[p].dirty
    BY <1>0, <1>9 DEF StartPull, Job
  <2>2. CleanJob(job'[p])
    BY <1>0, <1>9, <2>1 DEF CleanJob, CleanArchive, StartPull
  <2>3. UNCHANGED <<rows, media, hidden, backup>>
    BY <1>9 DEF StartPull
  <2> QED
    BY <1>9, <1>c, <2>2, <2>3 DEF Pull
<1>10. ASSUME NEW p \in Procs, MoveAside(p) PROVE Untorn'
  <2>1. /\ job'[p].rows = job[p].rows /\ job'[p].files = job[p].files
        /\ job'[p].aside = media /\ job'[p].got = job[p].got
        /\ job'[p].dirty = job[p].dirty
    BY <1>0, <1>10 DEF MoveAside, Job
  <2>2. CleanArchive'
    BY <1>0, <1>10, NoContents DEF MoveAside, CleanArchive
  <2> QED
    BY <1>0, <1>10, <1>i, <2>1, <2>2 DEF Pull, CleanJob, CleanArchive
<1>11. ASSUME NEW p \in Procs, Install(p) PROVE Untorn'
  <2>1. CASE media = None
    <3>1. CleanArchive'
      BY <1>0, <1>11, <2>1 DEF Install, CleanArchive, CleanJob, Contents
    <3> QED
      BY <1>0, <1>11, <1>i, <2>1, <3>1 DEF Install, Pull
  <2>2. CASE media # None
    <3>1. CleanArchive'
      BY <1>0, <1>11, <2>2, CleanLeftBehind DEF Install, CleanArchive
    <3> QED
      BY <1>11, <1>i, <1>e, <2>2, <3>1 DEF Install, Pull
  <2> QED
    BY <2>1, <2>2
<1>12. ASSUME NEW p \in Procs, Replace(p) PROVE Untorn'
  <2>1. CleanRows(rows')
    <3>1. \A r \in Row : Localized(r).path.object = r.path.object
      BY DEF Localized, Object, Row
    <3> QED
      BY <1>0, <1>12, <3>1 DEF Replace, CleanRows, CleanJob, Job, Rows
  <2>2. CleanArchive'
    BY <1>0, <1>12, <2>1 DEF Replace, CleanArchive
  <2>3. job'[p] = [NoJob EXCEPT !.aside = job[p].aside, !.since = job[p].since]
    BY <1>0, <1>12 DEF Replace
  <2>4. CleanJob(job'[p])
    BY <1>0, <2>3, CleanNoJob DEF CleanJob, NoJob
  <2> QED
    BY <1>12, <1>i, <2>2, <2>4 DEF Pull
<1>13. ASSUME NEW p \in Procs, ReplaceFails(p) PROVE Untorn'
  <2>1. CleanArchive'
    BY <1>0, <1>13, NoContents DEF ReplaceFails, CleanArchive
  <2>2. CleanJob(job'[p])
    BY <1>0, <1>13, <1>e DEF ReplaceFails
  <2> QED
    BY <1>13, <1>i, <2>1, <2>2 DEF Pull
<1>14. ASSUME NEW p \in Procs, PutBack(p) PROVE Untorn'
  <2>1. CleanArchive'
    BY <1>0, <1>14, CleanLeftBehind DEF PutBack, CleanArchive, CleanJob
  <2> QED
    BY <1>14, <1>i, <1>e, <2>1 DEF PutBack, Pull
<1>15. ASSUME NEW p \in Procs, Cleanup(p) PROVE Untorn'
  BY <1>15, <1>i, <1>a, <1>e DEF Cleanup, Pull
<1>16. ASSUME NEW p \in Procs, Stop(p) PROVE Untorn'
  <2>1. CleanArchive'
    BY <1>0, <1>16, CleanLeftBehind DEF Stop, CleanArchive
  <2> QED
    BY <1>16, <1>i, <1>e, <2>1 DEF Stop
<1>17. ASSUME NEW m \in Messages, WriteSource(m) PROVE Untorn'
  <2>1. \A p \in Procs : /\ job'[p].rows = job[p].rows /\ job'[p].files = job[p].files
                         /\ job'[p].aside = job[p].aside /\ job'[p].got = job[p].got
                         /\ job[p].dirty => job'[p].dirty
    BY <1>0, <1>17 DEF WriteSource, Job
  <2>2. CleanArchive'
    BY <1>17, <1>a DEF WriteSource
  <2> QED
    BY <1>0, <2>1, <2>2 DEF Untorn, CleanJob
<1>18. CASE UNCHANGED vars
  BY <1>0, <1>18, <1>a DEF vars, Untorn
<1> QED
  BY <1>1, <1>2, <1>3, <1>4, <1>5, <1>6, <1>7, <1>8, <1>9, <1>10, <1>11, <1>12, <1>13,
     <1>14, <1>15, <1>16, <1>17, <1>18, <1>19, <1>20, <1>21 DEF Next, Import, Push, Pull

\* No torn copy ever reaches the archive, its media directory or a backup.
THEOREM NothingTorn == Spec => []NoTornObjects
<1>1. Typed /\ Untorn /\ [Next]_vars => (Typed /\ Untorn)'
  BY TypeStep, CopyingStep, UntornStep DEF Typed
<1>2. Typed /\ Untorn => NoTornObjects
  <2> SUFFICES ASSUME Untorn PROVE NoTornObjects
    OBVIOUS
  <2>1. Torn \notin Named(rows)
    BY DEF Untorn, CleanArchive, CleanRows, Named
  <2> QED
    BY <2>1 DEF Untorn, CleanArchive, NoTornObjects
<1> QED
  BY TypeInit, UntornInit, <1>1, <1>2, PTL DEF Spec

-----------------------------------------------------------------------------
(* The inductive invariant.                                                 *)

Pulls(p) == Command[p] = "pull" /\ pc[p] # "idle"

Portables(rs) == {rs[m].path.object : m \in {n \in Messages : rs[n].path.kind = "portable"}}

\* Which command is where, and what it holds there.
Role(p) ==
    /\ pc[p] \in {"copy", "upsert"} => Command[p] = "import"
    /\ pc[p] \in {"collect", "write"} => Command[p] = "push"
    /\ pc[p] \in {"aside", "install", "replace", "undo", "cleanup"} => Command[p] = "pull"
    /\ pc[p] = "idle" => job[p] = NoJob
    /\ pc[p] \in {"idle", "copy", "upsert", "collect", "write", "aside"} => job[p].aside = None
    /\ pc[p] \in {"aside", "install", "undo"} => job[p].files # {}
    /\ pc[p] = "replace" /\ job[p].files = {} => job[p].aside = None
    /\ pc[p] = "copy" => Portables(job[p].rows) = {}
    /\ job[p].since <= crossings

\* A pull that has met no other command is the only one, and as long as no pull
\* has met another command all of them are such.
Solitary(p) ==
    Pulls(p) => /\ ~crossed => Alone(p)
                /\ Alone(p) => \A q \in Procs \ {p} : pc[q] = "idle"

\* Where such a pull is with the backup and the media directory.
Restoring(p) ==
    Pulls(p) /\ Alone(p) =>
        /\ pc[p] # "cleanup" => /\ backup # None /\ job[p].rows = backup.rows
                                /\ job[p].files = backup.files
        /\ pc[p] \in {"install", "undo"} => media = None
        /\ pc[p] = "replace" /\ job[p].files # {} => media = job[p].files
        /\ pc[p] = "cleanup" /\ ~crossed => ~halfway

\* What an import and a push that have met no pull may rely on.
Relying(p) ==
    ~crossed =>
        /\ pc[p] = "copy" => Named(job[p].rows) \subseteq Contents(media)
        /\ pc[p] = "upsert" => /\ Portables(job[p].rows) = {}
                               /\ Named(job[p].rows) \subseteq Contents(media) \cup UNION hidden
                               /\ ~halfway => Named(job[p].rows) \subseteq Contents(media)
        /\ pc[p] = "collect" /\ ~halfway => /\ Named(job[p].rows) \subseteq Contents(media)
                                            /\ Portables(job[p].rows) = {}
        /\ pc[p] = "write" /\ ~halfway => /\ Named(job[p].rows) = {}
                                          /\ Portables(job[p].rows) \subseteq job[p].files

WholeBackup ==
    backup # None /\ backup.whole => /\ Named(backup.rows) = {}
                                     /\ Portables(backup.rows) \subseteq backup.files

\* Where what the archive names is.
Home ==
    ~crossed =>
        /\ Portables(rows) = {}
        /\ \A p \in Procs : Halfway(p) =>
               /\ Named(rows) \subseteq Contents(job[p].aside) \cup UNION hidden
               /\ ~halfway => Named(rows) \subseteq Contents(job[p].aside)
        /\ (\A p \in Procs : ~Halfway(p)) =>
               /\ Named(rows) \subseteq Contents(media) \cup UNION hidden
               /\ ~halfway => Named(rows) \subseteq Contents(media)

Restorable ==
    /\ WholeBackup /\ Home
    /\ \A p \in Procs : Role(p) /\ Solitary(p) /\ Restoring(p) /\ Relying(p)

\* What the proofs need of the types.
Fields ==
    /\ pc \in [Procs -> Phases] /\ job \in [Procs -> Job]
    /\ rows \in Rows /\ media \in Directory /\ hidden \subseteq SUBSET Objects
    /\ crossings \in Nat
    /\ \A p \in Procs : /\ job[p] \in Job /\ job[p].rows \in Rows
                        /\ job[p].files \in SUBSET Objects
                        /\ job[p].aside \in Directory /\ job[p].since \in Nat

LEMMA FieldTypes == TypeOK => Fields
<1> SUFFICES ASSUME TypeOK PROVE Fields
  OBVIOUS
<1>1. job \in [Procs -> Job] /\ pc \in [Procs -> Phases]
  BY DEF TypeOK, Job, Phases
<1>2. \A n \in 0 .. MaxCrossings : n \in Nat
  BY Bounds
<1> QED
  BY <1>1, <1>2 DEF TypeOK, Fields, Job

LEMMA ContentsOf == \A os \in SUBSET Objects : os # None /\ Contents(os) = os
BY MediaAssumption DEF Contents, Objects

LEMMA NoRowsNamed == Named(NoRows) = {} /\ Portables(NoRows) = {}
BY DEF Named, Portables, NoRows, Nowhere

\* Beside a command that runs, every pull has met another command.
LEMMA Apart ==
    ASSUME Restorable, NEW p \in Procs, pc[p] # "idle"
    PROVE  \A q \in Procs \ {p} : Pulls(q) => crossed /\ ~Alone(q)
BY DEF Restorable, Solitary

LEMMA HalfwayPulls ==
    ASSUME NEW p \in Procs, Role(p), Halfway(p) PROVE Pulls(p)
BY DEF Role, Halfway, Pulls

\* A step of a command that goes on or ends leaves the others where they are.
LEMMA Continues ==
    ASSUME Fields, TypeOK, Restorable, NEW p \in Procs, pc[p] # "idle",
           Import(p) \/ Push(p) \/ Pull(p) \/ Stop(p),
           crossings' = crossings,
           pc'[p] = "idle" \/ job'[p].since = job[p].since,
           ~crossed' => \/ /\ ~crossed /\ Contents(media) \subseteq Contents(media')
                           /\ hidden \subseteq hidden'
                           /\ ~halfway' => ~halfway
                        \/ Pulls(p) /\ Alone(p)
    PROVE  /\ \A q \in Procs \ {p} : Role(q)' /\ Restoring(q)' /\ Relying(q)'
           /\ \A q \in Procs : Solitary(q)'
<1>1. \A q \in Procs \ {p} : pc'[q] = pc[q] /\ job'[q] = job[q]
  BY OthersWait
<1>2. \A q \in Procs \ {p} : Pulls(q) => crossed /\ ~Alone(q)
  BY Apart
<1>3. Pulls(p) /\ Alone(p) => \A q \in Procs \ {p} : pc[q] = "idle"
  BY DEF Restorable, Solitary
<1>4. Pulls(p) /\ ~crossed => Alone(p)
  BY DEF Restorable, Solitary
<1>5. ASSUME NEW q \in Procs \ {p} PROVE Role(q)'
  BY <1>1 DEF Restorable, Role
<1>6. ASSUME NEW q \in Procs \ {p} PROVE Restoring(q)'
  BY <1>1, <1>2 DEF Restoring, Pulls, Alone
<1>7. ASSUME NEW q \in Procs \ {p} PROVE Relying(q)'
  <2>1. Relying(q)
    BY DEF Restorable
  <2>2. hidden \subseteq hidden' => UNION hidden \subseteq UNION hidden'
    OBVIOUS
  <2> QED
    BY <1>1, <1>3, <2>1, <2>2 DEF Relying
<1>8. ASSUME NEW q \in Procs \ {p} PROVE Solitary(q)'
  BY <1>1, <1>2, <1>3 DEF Solitary, Pulls, Alone
<1>9. Solitary(p)'
  <2>1. CASE pc'[p] = "idle"
    BY <2>1 DEF Solitary, Pulls
  <2>2. CASE pc'[p] # "idle"
    BY <1>1, <1>3, <1>4, <2>2 DEF Solitary, Pulls, Alone
  <2> QED
    BY <2>1, <2>2
<1> QED
  BY <1>5, <1>6, <1>7, <1>8, <1>9

LEMMA StartMet ==
    ASSUME NEW p \in Procs, NEW command, NEW label, Start(p, command, label)
    PROVE  \/ crossings' \in crossings + 1 .. MaxCrossings /\ crossed'
           \/ /\ crossings' = crossings /\ crossed' = crossed
              /\ ~Pulling /\ (command = "pull" => \A q \in Procs : pc[q] = "idle")
BY DEF Start, Pulling

\* A command that starts beside a pull has met it, and a pull that starts beside
\* a command has met that.
LEMMA Starts ==
    ASSUME Fields, TypeOK, Restorable, NEW p \in Procs, NEW label \in Phases \ {"idle"},
           Start(p, Command[p], label), Import(p) \/ Push(p) \/ Pull(p),
           Command[p] = "pull" => job'[p].since = crossings,
           UNCHANGED <<rows, media, hidden, backup, halfway>>
    PROVE  /\ \A q \in Procs \ {p} : Role(q)' /\ Restoring(q)' /\ Relying(q)'
           /\ \A q \in Procs : Solitary(q)'
           /\ crossings' \in Nat /\ crossings <= crossings'
           /\ Alone(p)' /\ Pulls(p)' => \A q \in Procs : pc[q] = "idle"
           /\ ~crossed' => ~crossed /\ \A q \in Procs : ~Pulls(q)
<1>1. \A q \in Procs \ {p} : pc'[q] = pc[q] /\ job'[q] = job[q]
  BY OthersWait
<1>2. pc[p] = "idle" /\ pc'[p] = label
  BY DEF Start, Goto, Fields
<1>3. /\ \A q \in Procs : job[q].since \in Nat /\ job[q].since <= crossings
      /\ crossings \in Nat /\ MaxCrossings \in Nat
  BY Bounds DEF Fields, Restorable, Role
<1>4. CASE /\ crossings' \in crossings + 1 .. MaxCrossings /\ crossed'
  <2>1. \A q \in Procs : Pulls(q)' => ~Alone(q)'
    BY <1>1, <1>3, <1>4 DEF Pulls, Alone, Fields
  <2>3. crossings' \in Nat /\ crossings <= crossings'
    BY <1>3, <1>4
  <2>2. ASSUME NEW q \in Procs \ {p} PROVE Role(q)'
    <3>1. Role(q) /\ pc'[q] = pc[q] /\ job'[q] = job[q]
      BY <1>1 DEF Restorable
    <3>2. job[q].since <= crossings'
      BY <1>3, <2>3
    <3> QED
      BY <3>1, <3>2 DEF Role
  <2> QED
    BY <1>4, <2>1, <2>2, <2>3 DEF Solitary, Restoring, Relying
<1>5. CASE /\ crossings' = crossings /\ crossed' = crossed
           /\ ~Pulling /\ (Command[p] = "pull" => \A q \in Procs : pc[q] = "idle")
  <2>1. \A q \in Procs : ~Pulls(q)
    BY <1>5 DEF Pulling, Pulls
  <2>2. \A q \in Procs \ {p} : ~Pulls(q)'
    BY <1>1, <2>1 DEF Pulls
  <2>3. \A q \in Procs \ {p} : Role(q)' /\ Relying(q)'
    BY <1>1, <1>5 DEF Restorable, Role, Relying
  <2>4. Solitary(p)'
    BY <1>1, <1>5 DEF Solitary, Pulls, Alone, Fields
  <2>5. Alone(p)' /\ Pulls(p)' => \A q \in Procs : pc[q] = "idle"
    BY <1>1, <1>5 DEF Pulls
  <2>6. \A q \in Procs : Solitary(q)'
    BY <2>2, <2>4 DEF Solitary
  <2>7. \A q \in Procs \ {p} : Restoring(q)'
    BY <2>2 DEF Restoring
  <2> QED
    BY <1>5, <2>1, <2>3, <2>5, <2>6, <2>7 DEF Fields
<1> QED
  BY <1>4, <1>5, StartMet

\* While no pull has met another command, the archive is at home: all it names is
\* in its media directory, or set aside by the pull that runs.
LEMMA AtHome ==
    ASSUME Restorable, ~crossed
    PROVE  /\ Portables(rows) = {}
           /\ (\A p \in Procs : ~Pulls(p)) =>
                  /\ Named(rows) \subseteq Contents(media) \cup UNION hidden
                  /\ ~halfway => Named(rows) \subseteq Contents(media)
           /\ \A p \in Procs : Pulls(p) =>
                  /\ \A q \in Procs \ {p} : pc[q] = "idle"
                  /\ Alone(p)
                  /\ IF Halfway(p)
                     THEN /\ Named(rows) \subseteq Contents(job[p].aside) \cup UNION hidden
                          /\ ~halfway => Named(rows) \subseteq Contents(job[p].aside)
                     ELSE /\ Named(rows) \subseteq Contents(media) \cup UNION hidden
                          /\ ~halfway => Named(rows) \subseteq Contents(media)
<1>1. \A p \in Procs : Halfway(p) => Pulls(p)
  BY HalfwayPulls DEF Restorable
<1>2. \A p \in Procs : Pulls(p) => Alone(p) /\ \A q \in Procs \ {p} : pc[q] = "idle"
  BY DEF Restorable, Solitary
<1>3. \A p \in Procs : Pulls(p) => \A q \in Procs \ {p} : ~Halfway(q)
  BY <1>2 DEF Halfway
<1> QED
  BY <1>1, <1>2, <1>3 DEF Restorable, Home

\* Without another pull no other command can be halfway.
LEMMA NotHalfway ==
    ASSUME TypeOK, Restorable, NEW p \in Procs, Import(p) \/ Push(p) \/ Pull(p) \/ Stop(p),
           \A q \in Procs \ {p} : ~Pulls(q), ~Halfway(p)'
    PROVE  \A q \in Procs : ~Halfway(q)'
<1>1. ASSUME NEW q \in Procs \ {p} PROVE ~Halfway(q)'
  <2>1. pc'[q] = pc[q] /\ job'[q] = job[q]
    BY OthersWait
  <2>2. ~Halfway(q)
    BY HalfwayPulls DEF Restorable
  <2> QED
    BY <2>1, <2>2 DEF Halfway
<1> QED
  BY <1>1

\* Nothing but the details of a copy changes.
LEMMA Unmoved ==
    ASSUME Restorable, UNCHANGED <<rows, media, hidden, backup, pc, crossed, halfway, crossings>>,
           \A p \in Procs : /\ pc[p] = "idle" => job'[p] = job[p]
                           /\ job'[p].rows = job[p].rows /\ job'[p].files = job[p].files
                           /\ job'[p].aside = job[p].aside /\ job'[p].since = job[p].since
    PROVE  Restorable'
<1>1. WholeBackup' /\ Home'
  BY DEF Restorable, WholeBackup, Home, Halfway
<1>2. ASSUME NEW p \in Procs PROVE Role(p)' /\ Solitary(p)' /\ Restoring(p)' /\ Relying(p)'
  <2>1. Role(p) /\ Solitary(p) /\ Restoring(p) /\ Relying(p)
    BY DEF Restorable
  <2>2. Role(p)'
    BY <2>1 DEF Role
  <2>3. Solitary(p)' /\ Restoring(p)'
    BY <2>1 DEF Solitary, Restoring, Pulls, Alone
  <2>4. Relying(p)'
    BY <2>1 DEF Relying
  <2> QED
    BY <2>2, <2>3, <2>4
<1> QED
  BY <1>1, <1>2 DEF Restorable

LEMMA RestorableInit == Init => Restorable
<1> SUFFICES ASSUME Init PROVE Restorable
  OBVIOUS
<1>1. \A p \in Procs : pc[p] = "idle" /\ job[p] = NoJob
  BY DEF Init
<1>2. \A p \in Procs : Role(p)
  BY <1>1 DEF Role, NoJob, Init
<1>3. \A p \in Procs : Solitary(p) /\ Restoring(p) /\ Relying(p)
  BY <1>1 DEF Solitary, Restoring, Relying, Pulls
<1>4. WholeBackup /\ Home
  BY <1>1, NoRowsNamed DEF Init, WholeBackup, Home, Halfway
<1> QED
  BY <1>2, <1>3, <1>4 DEF Restorable

-----------------------------------------------------------------------------
(* Imports.                                                                 *)

\* Rows whose paths come from others name nothing else.
LEMMA PathsFrom ==
    ASSUME NEW rs, NEW as, NEW bs,
           \A m \in Messages : rs[m].path = bs[m].path \/ rs[m].path = as[m].path
    PROVE  /\ Named(rs) \subseteq Named(as) \cup Named(bs)
           /\ Portables(rs) \subseteq Portables(as) \cup Portables(bs)
BY DEF Named, Portables

LEMMA ImportRestorable ==
    ASSUME TypeOK, Copying, Restorable, NEW p \in Procs, Import(p) PROVE Restorable'
<1>0. Fields
  BY FieldTypes
<1>r. Role(p) /\ Relying(p)
  BY DEF Restorable
<1>1. CASE StartImport(p)
  <2>1. /\ Command[p] = "import" /\ pc[p] = "idle" /\ pc'[p] = "copy"
        /\ Start(p, Command[p], "copy")
    BY <1>0, <1>1 DEF StartImport, Start, Goto, Fields
  <2>2. /\ job'[p].rows = Extracted /\ job'[p].aside = None /\ job'[p].since = 0
    BY <1>0, <1>1, <1>r, <2>1 DEF StartImport, Role, NoJob, Fields
  <2>3. Named(Extracted) = {} /\ Portables(Extracted) = {}
    BY DEF Named, Portables, Extracted, Container, Nowhere
  <2>4. /\ \A q \in Procs \ {p} : Role(q)' /\ Restoring(q)' /\ Relying(q)'
        /\ \A q \in Procs : Solitary(q)'
        /\ crossings' \in Nat /\ crossings <= crossings'
        /\ ~crossed' => ~crossed /\ \A q \in Procs : ~Pulls(q)
    <3>1. UNCHANGED <<rows, media, hidden, backup, halfway>>
      BY <1>1 DEF StartImport
    <3>2. "copy" \in Phases \ {"idle"} /\ Command[p] # "pull"
      BY <2>1 DEF Phases
    <3> QED
      BY <1>0, <2>1, <3>1, <3>2, Starts
  <2>5. Role(p)'
    BY <2>1, <2>2, <2>3, <2>4 DEF Role
  <2>6. Restoring(p)' /\ Relying(p)'
    BY <2>1, <2>2, <2>3 DEF Restoring, Relying, Pulls
  <2>7. Home'
    <3>1. ~Halfway(p)'
      BY <2>1 DEF Halfway
    <3>2. ~crossed' => \A q \in Procs : ~Halfway(q)'
      BY <1>1, <2>4, <3>1, NotHalfway DEF Import
    <3> QED
      BY <1>1, <2>4, <3>2, AtHome DEF StartImport, Home
  <2>8. WholeBackup'
    BY <1>1 DEF StartImport, Restorable, WholeBackup
  <2> QED
    BY <2>4, <2>5, <2>6, <2>7, <2>8 DEF Restorable
<1>2. CASE OpenFile(p)
  <2>1. \A q \in Procs \ {p} : job'[q] = job[q]
    BY <1>2, OthersWait DEF Import
  <2>2. /\ pc[p] # "idle"
        /\ job'[p].rows = job[p].rows /\ job'[p].files = job[p].files
        /\ job'[p].aside = job[p].aside /\ job'[p].since = job[p].since
    BY <1>0, <1>2 DEF OpenFile, Fields, Job
  <2> QED
    BY <1>2, <2>1, <2>2, Unmoved DEF OpenFile
<1>3. CASE ReadFile(p)
  <2>1. \A q \in Procs \ {p} : job'[q] = job[q]
    BY <1>3, OthersWait DEF Import
  <2>2. /\ pc[p] # "idle"
        /\ job'[p].rows = job[p].rows /\ job'[p].files = job[p].files
        /\ job'[p].aside = job[p].aside /\ job'[p].since = job[p].since
    BY <1>0, <1>3 DEF ReadFile, Fields, Job
  <2> QED
    BY <1>3, <2>1, <2>2, Unmoved DEF ReadFile
<1>p. pc[p] \in {"copy", "upsert"} /\ ~crossed => \A q \in Procs : ~Pulls(q)
  BY <1>r, Apart DEF Role, Pulls
<1>4. ASSUME End(p), pc[p] \in {"copy", "upsert"},
             UNCHANGED <<media, hidden, backup, crossed, crossings, halfway>>,
             ~crossed => /\ Portables(rows') = {}
                         /\ Named(rows') \subseteq Contents(media) \cup UNION hidden
                         /\ ~halfway => Named(rows') \subseteq Contents(media)
      PROVE  Restorable'
  <2>1. pc'[p] = "idle" /\ job'[p] = NoJob
    BY <1>0, <1>4 DEF End, Goto, Fields
  <2>2. /\ \A q \in Procs \ {p} : Role(q)' /\ Restoring(q)' /\ Relying(q)'
        /\ \A q \in Procs : Solitary(q)'
    BY <1>0, <1>4, <2>1, Continues
  <2>3. Role(p)' /\ Restoring(p)' /\ Relying(p)'
    BY <1>0, <1>4, <2>1 DEF Role, Restoring, Relying, Pulls, NoJob, Fields
  <2>4. ~crossed => \A q \in Procs : ~Halfway(q)'
    <3>1. ~Halfway(p)'
      BY <2>1 DEF Halfway
    <3> QED
      BY <1>4, <1>p, <3>1, NotHalfway
  <2>5. Home'
    BY <1>4, <2>4 DEF Home
  <2>6. WholeBackup'
    BY <1>4 DEF Restorable, WholeBackup
  <2> QED
    BY <2>2, <2>3, <2>5, <2>6 DEF Restorable
<1>5. CASE LinkObject(p) /\ ~Unchanged(p)
  BY <1>4, <1>5, <1>p, AtHome DEF LinkObject
<1>6. CASE LinkObject(p) /\ Unchanged(p)
  <2> DEFINE linked == [job[p].rows EXCEPT ![job[p].file].path = Object(job[p].got)]
  <2>1. /\ pc[p] = "copy" /\ pc'[p] = "copy" /\ job'[p].rows = linked
        /\ job'[p].aside = job[p].aside /\ job'[p].since = job[p].since
        /\ job'[p].files = job[p].files
        /\ media' = Contents(media) \cup {job[p].got}
    BY <1>0, <1>6 DEF LinkObject, Fields, Job
  <2>2. job[p].got \in Objects
    BY <1>0, <1>6 DEF LinkObject, Fields, Job
  <2>3. Contents(media') = Contents(media) \cup {job[p].got}
    <3>1. Contents(media) \cup {job[p].got} \in SUBSET Objects
      BY <1>0, <2>2, ContentsType DEF Fields
    <3> QED
      BY <2>1, <3>1, ContentsOf
  <2>4. /\ Named(linked) \subseteq Named(job[p].rows) \cup {job[p].got}
        /\ Portables(linked) \subseteq Portables(job[p].rows)
    BY <1>0 DEF Named, Portables, Object, Fields, Rows, Row
  <2>5. /\ \A q \in Procs \ {p} : Role(q)' /\ Restoring(q)' /\ Relying(q)'
        /\ \A q \in Procs : Solitary(q)'
    BY <1>0, <1>6, <2>1, <2>3, Continues DEF LinkObject
  <2>6. Role(p)'
    BY <1>6, <1>r, <2>1, <2>4 DEF LinkObject, Role
  <2>7. Restoring(p)' /\ Relying(p)'
    <3>1. ~Pulls(p)'
      BY <1>r, <2>1 DEF Pulls, Role
    <3>2. crossed' = crossed
      BY <1>6 DEF LinkObject
    <3>3. ~crossed => Named(linked) \subseteq Contents(media')
      BY <1>r, <2>1, <2>3, <2>4 DEF Relying
    <3> QED
      BY <2>1, <3>1, <3>2, <3>3 DEF Restoring, Relying
  <2>8. Home'
    <3>1. ~Halfway(p)'
      BY <2>1 DEF Halfway
    <3>2. ~crossed' => ~crossed /\ \A q \in Procs : ~Halfway(q)' /\ ~Pulls(q)
      <4>1. crossed' = crossed
        BY <1>6 DEF LinkObject
      <4>2. ~crossed => \A q \in Procs : ~Pulls(q)
        BY <1>p, <2>1
      <4> QED
        BY <3>1, <4>1, <4>2, NotHalfway
    <3>3. /\ rows' = rows /\ hidden' = hidden /\ halfway' = halfway
      BY <1>6 DEF LinkObject
    <3> QED
      BY <2>3, <3>2, <3>3, AtHome DEF Home
  <2>9. WholeBackup'
    BY <1>6 DEF LinkObject, Restorable, WholeBackup
  <2> QED
    BY <2>5, <2>6, <2>7, <2>8, <2>9 DEF Restorable
<1>7. CASE CommitImport(p)
  BY <1>4, <1>7, <1>r DEF CommitImport, Relying
<1>8. ASSUME pc[p] \in {"copy", "upsert"}, pc'[p] = "upsert",
             job'[p].aside = job[p].aside, job'[p].since = job[p].since,
             UNCHANGED <<rows, media, hidden, backup, crossed, crossings, halfway>>,
             ~crossed => /\ Portables(job'[p].rows) = {}
                         /\ Named(job'[p].rows) \subseteq Contents(media) \cup UNION hidden
                         /\ ~halfway => Named(job'[p].rows) \subseteq Contents(media)
      PROVE  Restorable'
  <2>1. /\ \A q \in Procs \ {p} : Role(q)' /\ Restoring(q)' /\ Relying(q)'
        /\ \A q \in Procs : Solitary(q)'
    BY <1>0, <1>8, Continues
  <2>2. Role(p)' /\ Restoring(p)'
    BY <1>8, <1>r DEF Role, Restoring, Pulls
  <2>3. Relying(p)'
    BY <1>8 DEF Relying
  <2>4. Home'
    <3>1. ~Halfway(p)'
      BY <1>8 DEF Halfway
    <3>2. ~crossed' => \A q \in Procs : ~Halfway(q)'
      BY <1>p, <1>8, <3>1, NotHalfway
    <3> QED
      BY <1>p, <1>8, <3>2, AtHome DEF Home
  <2>5. WholeBackup'
    BY <1>8 DEF Restorable, WholeBackup
  <2> QED
    BY <2>1, <2>2, <2>3, <2>4, <2>5 DEF Restorable
<1>9. CASE BeginImport(p)
  <2>1. /\ pc[p] = "copy" /\ pc'[p] = "upsert" /\ job'[p].rows = job[p].rows
        /\ job'[p].aside = job[p].aside /\ job'[p].since = job[p].since
        /\ UNCHANGED <<rows, media, hidden, backup, crossed, crossings, halfway>>
    BY <1>0, <1>9 DEF BeginImport, Goto, Fields, Job
  <2> QED
    BY <1>8, <1>r, <2>1 DEF Role, Relying
<1>h. pc[p] = "upsert" /\ ~crossed =>
          /\ Portables(rows) = {}
          /\ Named(rows) \subseteq Contents(media) \cup UNION hidden
          /\ ~halfway => Named(rows) \subseteq Contents(media)
  BY <1>p, AtHome
<1>10. CASE UpsertRow(p)
  <2>1. PICK m \in job[p].todo : Upserting(p, m)
    BY <1>0, <1>10, UpsertIs DEF Fields
  <2>2. /\ pc[p] = "upsert" /\ pc'[p] = "upsert" /\ job'[p].rows = Upserted(p, m)
        /\ job'[p].aside = job[p].aside /\ job'[p].since = job[p].since
        /\ UNCHANGED <<rows, media, hidden, backup, crossed, crossings, halfway>>
    BY <1>0, <1>10, <2>1 DEF UpsertRow, Upserting, Fields, Job
  <2>3. m \in Messages /\ rows[m] \in Row /\ job[p].rows[m] \in Row /\ job[p].rows \in Rows
    BY <1>0 DEF Fields, Job, Rows
  <2>4. \/ UpsertedRow(p, m).path = rows[m].path
        \/ UpsertedRow(p, m).path = job[p].rows[m].path
    BY <2>3 DEF UpsertedRow, Row
  <2>5. /\ Named(Upserted(p, m)) \subseteq Named(job[p].rows) \cup Named(rows)
        /\ Portables(Upserted(p, m)) \subseteq Portables(job[p].rows) \cup Portables(rows)
    <3>1. \A n \in Messages : \/ Upserted(p, m)[n].path = rows[n].path
                              \/ Upserted(p, m)[n].path = job[p].rows[n].path
      BY <2>3, <2>4 DEF Upserted, Rows
    <3> QED
      BY <3>1, PathsFrom
  <2> QED
    BY <1>8, <1>h, <1>r, <2>2, <2>5 DEF Relying
<1>11. CASE CompareCopies(p)
  <2>1. job[p].open \in Messages /\ rows \in Rows /\ job[p].rows \in Rows
    BY <1>0, <1>11 DEF CompareCopies, Fields, Job
  <2>2. /\ pc[p] = "upsert" /\ pc'[p] = "upsert" /\ job'[p].rows = Compared(p)
        /\ job'[p].aside = job[p].aside /\ job'[p].since = job[p].since
        /\ UNCHANGED <<rows, media, hidden, backup, crossed, crossings, halfway>>
    BY <1>0, <1>11 DEF CompareCopies, Compared, ComparedPath, Fields, Job
  <2>3. \A n \in Messages : \/ Compared(p)[n].path = rows[n].path
                            \/ Compared(p)[n].path = job[p].rows[n].path
    BY <2>1 DEF Compared, ComparedPath, Rows, Row
  <2>4. /\ Named(Compared(p)) \subseteq Named(job[p].rows) \cup Named(rows)
        /\ Portables(Compared(p)) \subseteq Portables(job[p].rows) \cup Portables(rows)
    BY <2>3, PathsFrom
  <2> QED
    BY <1>8, <1>h, <1>r, <2>2, <2>4 DEF Relying
<1> QED
  BY <1>1, <1>2, <1>3, <1>5, <1>6, <1>7, <1>9, <1>10, <1>11 DEF Import

-----------------------------------------------------------------------------
(* Pushes.                                                                  *)

LEMMA PushRestorable ==
    ASSUME TypeOK, Restorable, NEW p \in Procs, Push(p) PROVE Restorable'
<1>0. Fields
  BY FieldTypes
<1>r. Role(p) /\ Relying(p)
  BY DEF Restorable
<1>p. pc[p] \in {"collect", "write"} /\ ~crossed => \A q \in Procs : ~Pulls(q)
  BY <1>r, Apart DEF Role, Pulls
<1>1. CASE StartPush(p)
  <2>1. /\ Command[p] = "push" /\ pc[p] = "idle" /\ pc'[p] = "collect"
        /\ Start(p, Command[p], "collect")
    BY <1>0, <1>1 DEF StartPush, Start, Goto, Fields
  <2>2. job'[p].rows = rows /\ job'[p].aside = None /\ job'[p].since = 0
    BY <1>0, <1>1, <1>r, <2>1 DEF StartPush, Role, NoJob, Fields
  <2>3. /\ \A q \in Procs \ {p} : Role(q)' /\ Restoring(q)' /\ Relying(q)'
        /\ \A q \in Procs : Solitary(q)'
        /\ crossings' \in Nat /\ crossings <= crossings'
        /\ ~crossed' => ~crossed /\ \A q \in Procs : ~Pulls(q)
    BY <1>0, <1>1, <2>1, Starts DEF StartPush, Push, Phases
  <2>4. UNCHANGED <<rows, media, hidden, backup, halfway>>
    BY <1>1 DEF StartPush
  <2>5. Role(p)'
    BY <2>1, <2>2, <2>3 DEF Role
  <2>6. Restoring(p)' /\ Relying(p)'
    BY <2>1, <2>2, <2>3, <2>4, AtHome DEF Restoring, Relying, Pulls
  <2>7. Home'
    <3>1. ~Halfway(p)'
      BY <2>1 DEF Halfway
    <3>2. ~crossed' => \A q \in Procs : ~Halfway(q)'
      BY <2>3, <3>1, NotHalfway
    <3> QED
      BY <2>3, <2>4, <3>2, AtHome DEF Home
  <2>8. WholeBackup'
    BY <2>4 DEF Restorable, WholeBackup
  <2> QED
    BY <2>3, <2>5, <2>6, <2>7, <2>8 DEF Restorable
<1>2. CASE Collect(p)
  <2> DEFINE files == Contents(media)
             exported == [m \in Messages |-> Exported(job[p].rows[m], files)]
  <2>1. /\ Command[p] = "push" /\ pc[p] = "collect" /\ pc'[p] = "write"
        /\ job'[p].rows = exported /\ job'[p].files = files
        /\ job'[p].aside = None /\ job'[p].since = job[p].since
    BY <1>0, <1>2, <1>r DEF Collect, Goto, Role, Fields, Job
  <2>2. UNCHANGED <<rows, media, hidden, backup, crossed, crossings, halfway>>
    BY <1>2 DEF Collect
  <2>3. ASSUME ~crossed, ~halfway
        PROVE  Named(exported) = {} /\ Portables(exported) \subseteq files
    <3>1. Named(job[p].rows) \subseteq files /\ Portables(job[p].rows) = {}
      BY <1>r, <2>1, <2>3 DEF Relying
    <3>2. ASSUME NEW m \in Messages
          PROVE  /\ exported[m].path.kind # "object"
                 /\ exported[m].path.kind = "portable" => exported[m].path.object \in files
      <4>1. job[p].rows[m] \in Row
        BY <1>0 DEF Fields, Rows
      <4>2. /\ job[p].rows[m].path.kind # "portable"
            /\ job[p].rows[m].path.kind = "object" => job[p].rows[m].path.object \in files
        BY <3>1 DEF Named, Portables
      <4> QED
        BY <4>1, <4>2 DEF Exported, Portable, Row
    <3> QED
      BY <3>2 DEF Named, Portables
  <2>4. /\ \A q \in Procs \ {p} : Role(q)' /\ Restoring(q)' /\ Relying(q)'
        /\ \A q \in Procs : Solitary(q)'
    BY <1>0, <1>2, <2>1, <2>2, Continues
  <2>5. Role(p)' /\ Restoring(p)'
    BY <1>r, <2>1, <2>2 DEF Role, Restoring, Pulls
  <2>6. Relying(p)'
    BY <2>1, <2>2, <2>3 DEF Relying
  <2>7. Home'
    <3>1. ~Halfway(p)'
      BY <2>1 DEF Halfway
    <3>2. ~crossed' => \A q \in Procs : ~Halfway(q)'
      BY <1>p, <1>2, <2>1, <2>2, <3>1, NotHalfway
    <3> QED
      BY <1>p, <2>1, <2>2, <3>2, AtHome DEF Home
  <2>8. WholeBackup'
    BY <2>2 DEF Restorable, WholeBackup
  <2> QED
    BY <2>4, <2>5, <2>6, <2>7, <2>8 DEF Restorable
<1>3. CASE WriteBackup(p)
  <2>1. /\ pc[p] = "write" /\ pc'[p] = "idle" /\ job'[p] = NoJob
        /\ UNCHANGED <<rows, media, hidden, crossed, crossings, halfway>>
    BY <1>0, <1>3 DEF WriteBackup, End, Goto, Fields
  <2>2. /\ \A q \in Procs \ {p} : Role(q)' /\ Restoring(q)' /\ Relying(q)'
        /\ \A q \in Procs : Solitary(q)'
    BY <1>0, <1>3, <2>1, Continues
  <2>3. Role(p)' /\ Restoring(p)' /\ Relying(p)'
    BY <1>0, <2>1 DEF Role, Restoring, Relying, Pulls, NoJob, Fields
  <2>4. Home'
    <3>1. ~Halfway(p)'
      BY <2>1 DEF Halfway
    <3>2. ~crossed' => \A q \in Procs : ~Halfway(q)'
      BY <1>p, <1>3, <2>1, <3>1, NotHalfway
    <3> QED
      BY <1>p, <2>1, <3>2, AtHome DEF Home
  <2>5. WholeBackup'
    BY <1>3, <1>r, <2>1 DEF WriteBackup, Restorable, WholeBackup, Relying
  <2> QED
    BY <2>2, <2>3, <2>4, <2>5 DEF Restorable
<1> QED
  BY <1>1, <1>2, <1>3 DEF Push

-----------------------------------------------------------------------------
(* Pulls.                                                                   *)

\* The end of a command, however it comes.
LEMMA EndRestorable ==
    ASSUME TypeOK, Restorable, NEW p \in Procs, pc[p] # "idle", End(p), Pull(p) \/ Stop(p),
           rows' = rows, backup' = backup, crossed' = crossed, crossings' = crossings,
           ~halfway' => ~halfway, hidden \subseteq hidden',
           ~crossed /\ ~Pulls(p) => media' = media,
           ~crossed => /\ Named(rows) \subseteq Contents(media') \cup UNION hidden'
                       /\ ~halfway' => Named(rows) \subseteq Contents(media')
    PROVE  Restorable'
<1>0. Fields
  BY FieldTypes
<1>1. pc'[p] = "idle" /\ job'[p] = NoJob
  BY <1>0 DEF End, Goto, Fields
<1>2. Pulls(p) /\ ~crossed => Alone(p)
  BY DEF Restorable, Solitary
<1>3. /\ \A q \in Procs \ {p} : Role(q)' /\ Restoring(q)' /\ Relying(q)'
      /\ \A q \in Procs : Solitary(q)'
  BY <1>0, <1>1, <1>2, Continues
<1>4. Role(p)' /\ Restoring(p)' /\ Relying(p)'
  BY <1>0, <1>1 DEF Role, Restoring, Relying, Pulls, NoJob, Fields
<1>5. Home'
  <2>1. ~Halfway(p)'
    BY <1>1 DEF Halfway
  <2>2. ~crossed => \A q \in Procs : ~Halfway(q)'
    BY <2>1, Apart, NotHalfway
  <2> QED
    BY <2>2, AtHome DEF Home
<1>6. WholeBackup'
  BY DEF Restorable, WholeBackup
<1> QED
  BY <1>3, <1>4, <1>5, <1>6 DEF Restorable

\* A pull that goes on.
LEMMA PullGoesOn ==
    ASSUME TypeOK, Restorable, NEW p \in Procs, Pulls(p), Pull(p),
           pc'[p] \in {"install", "replace", "undo", "cleanup"},
           job'[p].since = job[p].since, crossings' = crossings, backup' = backup,
           ~crossed' => Alone(p),
           Role(p)', Restoring(p)',
           ~crossed' => Portables(rows') = {},
           ~crossed' /\ Halfway(p)' =>
               /\ Named(rows') \subseteq Contents(job'[p].aside) \cup UNION hidden'
               /\ ~halfway' => Named(rows') \subseteq Contents(job'[p].aside),
           ~crossed' /\ ~Halfway(p)' =>
               /\ Named(rows') \subseteq Contents(media') \cup UNION hidden'
               /\ ~halfway' => Named(rows') \subseteq Contents(media')
    PROVE  Restorable'
<1>0. Fields
  BY FieldTypes
<1>1. /\ \A q \in Procs \ {p} : Role(q)' /\ Restoring(q)' /\ Relying(q)'
      /\ \A q \in Procs : Solitary(q)'
  BY <1>0, Continues DEF Pulls
<1>2. Relying(p)'
  BY DEF Relying
<1>3. ~crossed' => \A q \in Procs \ {p} : ~Halfway(q)'
  <2>1. ~crossed' => \A q \in Procs \ {p} : pc[q] = "idle"
    BY DEF Restorable, Solitary
  <2>2. \A q \in Procs \ {p} : pc'[q] = pc[q]
    BY OthersWait
  <2> QED
    BY <2>1, <2>2 DEF Halfway
<1>4. Home'
  BY <1>3 DEF Home
<1>5. WholeBackup'
  <2>1. backup # None /\ backup.whole => /\ Named(backup.rows) = {}
                                          /\ Portables(backup.rows) \subseteq backup.files
    BY DEF Restorable, WholeBackup
  <2> QED
    BY <2>1 DEF WholeBackup
<1> QED
  BY <1>1, <1>2, <1>4, <1>5 DEF Restorable

LEMMA PullRestorable ==
    ASSUME TypeOK, Restorable, NEW p \in Procs, Pull(p) PROVE Restorable'
<1>0. Fields
  BY FieldTypes
<1>r. Role(p) /\ Restoring(p) /\ Solitary(p)
  BY DEF Restorable
<1>1. CASE StartPull(p)
  <2> DEFINE label == IF backup.files = {} THEN "replace" ELSE "aside"
  <2>1. /\ Command[p] = "pull" /\ pc[p] = "idle" /\ pc'[p] = label
        /\ Start(p, Command[p], label) /\ label \in {"replace", "aside"}
    BY <1>0, <1>1 DEF StartPull, Start, Goto, Fields
  <2>2. /\ job'[p].rows = backup.rows /\ job'[p].files = backup.files
        /\ job'[p].aside = None /\ job'[p].since = crossings
    BY <1>0, <1>1, <1>r, <2>1 DEF StartPull, Role, NoJob, Fields
  <2>3. UNCHANGED <<rows, media, hidden, backup, halfway>> /\ backup # None
    BY <1>1 DEF StartPull
  <2>4. /\ \A q \in Procs \ {p} : Role(q)' /\ Restoring(q)' /\ Relying(q)'
        /\ \A q \in Procs : Solitary(q)'
        /\ crossings' \in Nat /\ crossings <= crossings'
        /\ ~crossed' => ~crossed /\ \A q \in Procs : ~Pulls(q)
    BY <1>0, <1>1, <2>1, <2>2, <2>3, Starts DEF Phases
  <2>5. Role(p)'
    BY <2>1, <2>2, <2>4 DEF Role
  <2>6. Restoring(p)' /\ Relying(p)'
    BY <2>1, <2>2, <2>3 DEF Restoring, Relying
  <2>7. Home'
    <3>1. ~Halfway(p)'
      BY <2>1, <2>2 DEF Halfway
    <3>2. ~crossed' => \A q \in Procs : ~Halfway(q)'
      BY <2>4, <3>1, NotHalfway
    <3> QED
      BY <2>3, <2>4, <3>2, AtHome DEF Home
  <2>8. WholeBackup'
    BY <2>3 DEF Restorable, WholeBackup
  <2> QED
    BY <2>4, <2>5, <2>6, <2>7, <2>8 DEF Restorable
<1>p. pc[p] \in {"aside", "install", "replace", "undo", "cleanup"} => Pulls(p)
  BY <1>r DEF Role, Pulls
<1>a. Pulls(p) /\ ~crossed => Alone(p)
  BY <1>r DEF Solitary
<1>h. ~crossed /\ Pulls(p) =>
          /\ Portables(rows) = {}
          /\ IF Halfway(p)
             THEN /\ Named(rows) \subseteq Contents(job[p].aside) \cup UNION hidden
                  /\ ~halfway => Named(rows) \subseteq Contents(job[p].aside)
             ELSE /\ Named(rows) \subseteq Contents(media) \cup UNION hidden
                  /\ ~halfway => Named(rows) \subseteq Contents(media)
  BY AtHome
<1>2. CASE MoveAside(p)
  <2>1. /\ pc[p] = "aside" /\ pc'[p] = "install" /\ media' = None
        /\ job'[p].rows = job[p].rows /\ job'[p].files = job[p].files
        /\ job'[p].aside = media /\ job'[p].since = job[p].since
        /\ UNCHANGED <<rows, hidden, backup, crossed, crossings, halfway>>
    BY <1>0, <1>2 DEF MoveAside, Goto, Fields, Job
  <2>2. Role(p)'
    BY <1>r, <2>1 DEF Role
  <2>3. Restoring(p)'
    BY <1>r, <2>1 DEF Restoring, Pulls, Alone
  <2>4. ~Halfway(p) /\ Halfway(p)'
    BY <2>1 DEF Halfway
  <2> QED
    BY <1>a, <1>h, <1>p, <2>1, <2>2, <2>3, <2>4, PullGoesOn
<1>3. CASE Install(p) /\ media = None
  <2>1. /\ pc[p] = "install" /\ pc'[p] = "replace" /\ media' = job[p].files
        /\ job' = job
        /\ UNCHANGED <<rows, hidden, backup, crossed, crossings, halfway>>
    BY <1>0, <1>3 DEF Install, Goto, Fields
  <2>2. Role(p)'
    BY <1>r, <2>1 DEF Role
  <2>3. Restoring(p)'
    BY <1>r, <2>1 DEF Restoring, Pulls, Alone
  <2>4. Halfway(p) /\ Halfway(p)'
    BY <1>r, <2>1 DEF Halfway, Role
  <2> QED
    BY <1>a, <1>h, <1>p, <2>1, <2>2, <2>3, <2>4, PullGoesOn
<1>4. CASE Install(p) /\ media # None
  <2>1. /\ pc[p] = "install" /\ End(p)
        /\ UNCHANGED <<rows, media, backup, crossed, crossings, halfway>>
    BY <1>4 DEF Install
  <2>2. crossed
    BY <1>4, <1>a, <1>p, <1>r, <2>1 DEF Restoring
  <2>3. hidden \subseteq hidden'
    BY <1>4 DEF Install
  <2> QED
    BY <2>1, <2>2, <2>3, EndRestorable
<1>5. CASE Replace(p)
  <2>1. /\ pc[p] = "replace" /\ pc'[p] = "cleanup"
        /\ job'[p] = [NoJob EXCEPT !.aside = job[p].aside, !.since = job[p].since]
        /\ crossed' = ~(Alone(p) /\ backup.whole) /\ halfway' = FALSE
        /\ UNCHANGED <<media, hidden, backup, crossings>>
    BY <1>0, <1>5 DEF Replace, Goto, Fields
  <2>2. /\ job'[p].rows = NoRows /\ job'[p].aside = job[p].aside
        /\ job'[p].since = job[p].since
    BY <2>1 DEF NoJob
  <2>3. Role(p)'
    BY <1>r, <2>1, <2>2 DEF Role
  <2>4. Restoring(p)'
    BY <2>1 DEF Restoring
  <2>5. ~Halfway(p)'
    BY <2>1 DEF Halfway
  <2>6. ASSUME ~crossed'
        PROVE  Portables(rows') = {} /\ Named(rows') \subseteq Contents(media')
    <3>1. /\ backup # None /\ job[p].rows = backup.rows /\ job[p].files = backup.files
          /\ job[p].files # {} => media = job[p].files
          /\ backup.whole
      BY <1>p, <1>r, <2>1, <2>6 DEF Restoring
    <3>2. Named(job[p].rows) = {} /\ Portables(job[p].rows) \subseteq job[p].files
      BY <3>1 DEF Restorable, WholeBackup
    <3>3. CASE job[p].files = {}
      <4>1. rows' = job[p].rows
        BY <1>5, <3>3 DEF Replace
      <4> QED
        BY <3>2, <3>3, <4>1
    <3>4. CASE job[p].files # {}
      <4>1. rows' = [m \in Messages |-> Localized(job[p].rows[m])]
        BY <1>5, <3>4 DEF Replace
      <4>2. Contents(media') = job[p].files
        BY <1>0, <2>1, <3>1, <3>4, ContentsOf DEF Fields
      <4>3. ASSUME NEW m \in Messages
            PROVE  /\ rows'[m].path.kind # "portable"
                   /\ rows'[m].path.kind = "object" => rows'[m].path.object \in job[p].files
        <5>1. job[p].rows[m] \in Row
          BY <1>0 DEF Fields, Rows
        <5>2. /\ job[p].rows[m].path.kind # "object"
              /\ job[p].rows[m].path.kind = "portable" =>
                     job[p].rows[m].path.object \in job[p].files
          BY <3>2 DEF Named, Portables
        <5>3. rows'[m] = Localized(job[p].rows[m])
          BY <4>1
        <5> QED
          BY <5>1, <5>2, <5>3 DEF Localized, Object, Row
      <4> QED
        BY <4>2, <4>3 DEF Named, Portables
    <3> QED
      BY <3>3, <3>4
  <2>7. /\ Pulls(p) /\ pc'[p] \in {"install", "replace", "undo", "cleanup"}
        /\ ~crossed' => Alone(p)
    BY <1>p, <2>1
  <2> QED
    BY <2>1, <2>2, <2>3, <2>4, <2>5, <2>6, <2>7, PullGoesOn
<1>6. CASE ReplaceFails(p) /\ job[p].files = {}
  <2>1. /\ pc[p] = "replace" /\ End(p)
        /\ UNCHANGED <<rows, media, hidden, backup, crossed, crossings, halfway>>
    BY <1>6 DEF ReplaceFails
  <2>2. ~Halfway(p)
    BY <1>6, <2>1 DEF Halfway
  <2> QED
    BY <1>h, <1>p, <2>1, <2>2, EndRestorable
<1>7. CASE ReplaceFails(p) /\ job[p].files # {}
  <2>1. /\ pc[p] = "replace" /\ pc'[p] = "undo" /\ media' = None /\ job' = job
        /\ UNCHANGED <<rows, hidden, backup, crossed, crossings, halfway>>
    BY <1>0, <1>7 DEF ReplaceFails, Goto, Fields
  <2>2. Role(p)'
    BY <1>7, <1>r, <2>1 DEF Role
  <2>3. Restoring(p)'
    BY <1>r, <2>1 DEF Restoring, Pulls, Alone
  <2>4. Halfway(p) /\ Halfway(p)'
    BY <1>7, <2>1 DEF Halfway
  <2> QED
    BY <1>a, <1>h, <1>p, <2>1, <2>2, <2>3, <2>4, PullGoesOn
<1>8. CASE PutBack(p)
  <2>1. /\ pc[p] = "undo" /\ End(p)
        /\ UNCHANGED <<rows, backup, crossed, crossings, halfway>>
    BY <1>8 DEF PutBack
  <2>2. ~crossed => media' = job[p].aside /\ hidden' = hidden
    BY <1>8, <1>a, <1>p, <1>r, <2>1 DEF PutBack, Restoring
  <2>3. Halfway(p)
    BY <2>1 DEF Halfway
  <2>4. hidden \subseteq hidden'
    BY <1>8 DEF PutBack
  <2> QED
    BY <1>h, <1>p, <2>1, <2>2, <2>3, <2>4, EndRestorable
<1>9. CASE Cleanup(p)
  <2>1. /\ pc[p] = "cleanup" /\ End(p)
        /\ UNCHANGED <<rows, media, hidden, backup, crossed, crossings, halfway>>
    BY <1>9 DEF Cleanup
  <2>2. ~Halfway(p)
    BY <2>1 DEF Halfway
  <2> QED
    BY <1>h, <1>p, <2>1, <2>2, EndRestorable
<1> QED
  BY <1>1, <1>2, <1>3, <1>4, <1>5, <1>6, <1>7, <1>8, <1>9 DEF Pull

LEMMA StopRestorable ==
    ASSUME TypeOK, Restorable, NEW p \in Procs, Stop(p) PROVE Restorable'
<1>0. Fields
  BY FieldTypes
<1>1. /\ pc[p] # "idle" /\ End(p) /\ hidden' = hidden \cup LeftBehind(p)
      /\ halfway' = (halfway \/ Halfway(p))
      /\ UNCHANGED <<rows, media, backup, crossed, crossings>>
  BY DEF Stop
<1>2. Contents(job[p].aside) \subseteq UNION hidden' /\ UNION hidden \subseteq UNION hidden'
  BY <1>1 DEF LeftBehind, Contents
<1>3. ASSUME ~crossed
      PROVE  /\ Named(rows) \subseteq Contents(media) \cup UNION hidden'
             /\ ~halfway' => Named(rows) \subseteq Contents(media)
  <2>1. CASE Pulls(p)
    BY <1>1, <1>2, <1>3, <2>1, AtHome
  <2>2. CASE ~Pulls(p)
    BY <1>1, <1>2, <1>3, <2>2, Apart, AtHome
  <2> QED
    BY <2>1, <2>2
<1> QED
  BY <1>1, <1>3, EndRestorable

LEMMA RestorableStep == Typed /\ Restorable /\ [Next]_vars => Restorable'
<1> SUFFICES ASSUME TypeOK, Copying, Restorable, [Next]_vars PROVE Restorable'
  BY DEF Typed
<1>1. ASSUME NEW m \in Messages, WriteSource(m) PROVE Restorable'
  <2>1. ASSUME NEW p \in Procs
        PROVE  /\ pc[p] = "idle" => job'[p] = job[p]
               /\ job'[p].rows = job[p].rows /\ job'[p].files = job[p].files
               /\ job'[p].aside = job[p].aside /\ job'[p].since = job[p].since
    <3>0. job[p] \in Job
      BY FieldTypes DEF Fields
    <3>1. job'[p] = job[p] \/ job'[p] = [job[p] EXCEPT !.dirty = @ \/ job[p].file = m]
      BY <1>1 DEF WriteSource
    <3>2. ASSUME pc[p] = "idle" PROVE [job[p] EXCEPT !.dirty = @ \/ job[p].file = m] = job[p]
      <4>1. job[p] = NoJob
        BY <3>2 DEF Restorable, Role
      <4>2. NoJob.file # m /\ NoJob.dirty = FALSE
        BY MediaAssumption DEF NoJob
      <4> QED
        BY <4>1, <4>2 DEF NoJob
    <3> QED
      BY <3>0, <3>1, <3>2 DEF Job
  <2> QED
    BY <1>1, <2>1, Unmoved DEF WriteSource
<1>2. CASE UNCHANGED vars
  BY <1>2, Unmoved DEF vars
<1> QED
  BY <1>1, <1>2, ImportRestorable, PushRestorable, PullRestorable, StopRestorable DEF Next

LEMMA AlwaysRestorable == Spec => [](Typed /\ Restorable)
<1>1. Typed /\ Restorable /\ [Next]_vars => (Typed /\ Restorable)'
  BY TypeStep, CopyingStep, RestorableStep DEF Typed
<1> QED
  BY TypeInit, RestorableInit, <1>1, PTL DEF Spec

-----------------------------------------------------------------------------
(* What follows.                                                            *)

\* Archived paths lead to objects, also after failed pulls and killed imports,
\* unless a pull was killed halfway or met another command.
THEOREM PathsHaveMedia == Spec => []RowsHaveMedia
<1>1. Restorable => RowsHaveMedia
  BY AtHome DEF RowsHaveMedia, Pulling, Pulls
<1> QED
  BY <1>1, AlwaysRestorable, PTL

\* A killed pull loses nothing.
THEOREM NothingIsGone == Spec => []NothingIsLost
<1>1. Restorable => NothingIsLost
  <2> SUFFICES ASSUME Restorable, ~crossed
               PROVE  Named(rows) \subseteq Contents(media) \cup (UNION hidden)
                          \cup (UNION {Contents(job[p].aside) : p \in Procs})
    BY DEF NothingIsLost
  <2>1. CASE \E p \in Procs : Halfway(p)
    <3>1. PICK p \in Procs : Halfway(p)
      BY <2>1
    <3>2. Named(rows) \subseteq Contents(job[p].aside) \cup (UNION hidden)
      BY <3>1 DEF Restorable, Home
    <3>3. Contents(job[p].aside) \in {Contents(job[q].aside) : q \in Procs}
      OBVIOUS
    <3> QED
      BY <3>2, <3>3
  <2>2. CASE \A p \in Procs : ~Halfway(p)
    BY <2>2 DEF Restorable, Home
  <2> QED
    BY <2>1, <2>2
<1> QED
  BY <1>1, AlwaysRestorable, PTL

\* Backups carry every copy their rows name.
THEOREM BackupsAreWhole == Spec => []BackupsCarryMedia
<1>1. Restorable => BackupsCarryMedia
  BY DEF Restorable, WholeBackup, BackupsCarryMedia, Portables
<1> QED
  BY <1>1, AlwaysRestorable, PTL

-----------------------------------------------------------------------------
(* Copies are kept.                                                         *)

\* One transaction at a time.
OneWriter == \A p, q \in Procs : pc[p] = "upsert" /\ pc[q] = "upsert" => p = q

\* An archived copy that an import should know of.
Copied(r) == r.path.kind = "object" /\ r.attachment \in Identifiable

\* What an import has decided in its transaction, on the rows that it still sees.
Deciding(p) ==
    /\ job[p].open # None => /\ rows[job[p].open].path.kind = "object"
                             /\ job[p].rows[job[p].open].path.kind = "object"
    /\ ~job[p].restore /\ ~crossed /\ ~halfway =>
           \A m \in Messages \ (job[p].todo \cup {job[p].open}) :
               /\ Copied(rows[m]) /\ job[p].rows[m].attachment = rows[m].attachment
               /\ job[p].rows[m].deleted = rows[m].deleted
               => job[p].rows[m].path.kind = "object"

Keeping == OneWriter /\ \A p \in Procs : pc[p] = "upsert" => Deciding(p)

\* Beside a transaction nothing else changes the rows, nor what is known of pulls
\* for the better.
LEMMA Held ==
    ASSUME TypeOK, Restorable, NEW p \in Procs, pc[p] = "upsert", OneWriter,
           NEW q \in Procs \ {p}, Import(q) \/ Push(q) \/ Pull(q) \/ Stop(q)
    PROVE  /\ pc'[q] # "upsert" /\ rows' = rows
           /\ ~crossed' => ~crossed
           /\ ~halfway' => ~halfway
<1>0. pc \in [Procs -> Phases] /\ pc[q] # "upsert"
  BY DEF TypeOK, Phases, OneWriter
<1>1. Locked
  BY DEF Locked
<1>2. CASE Import(q)
  <2>1. ~BeginImport(q)
    BY <1>1 DEF BeginImport
  <2>a. ~UpsertRow(q)
    BY <1>0, Zenon DEF UpsertRow
  <2>b. ~CompareCopies(q)
    BY <1>0 DEF CompareCopies
  <2>c. ~CommitImport(q)
    BY <1>0 DEF CommitImport
  <2>2. CASE StartImport(q)
    BY <1>0, <2>2 DEF StartImport, Start, Goto
  <2>3. CASE OpenFile(q)
    BY <1>0, <2>3 DEF OpenFile
  <2>5. CASE ReadFile(q)
    BY <1>0, <2>5 DEF ReadFile
  <2>4. CASE LinkObject(q)
    BY <1>0, <2>4 DEF LinkObject, End, Goto
  <2> QED
    BY <1>2, <2>1, <2>a, <2>b, <2>c, <2>2, <2>3, <2>4, <2>5 DEF Import
<1>3. CASE Push(q)
  BY <1>0, <1>3 DEF Push, StartPush, Collect, WriteBackup, Start, End, Goto
<1>4. CASE Pull(q)
  <2>1. pc'[q] # "upsert"
    BY <1>0, <1>4 DEF Pull, StartPull, MoveAside, Install, Replace, ReplaceFails, PutBack,
                      Cleanup, Start, End, Goto
  <2>2. ~Replace(q)
    BY <1>1 DEF Replace
  <2> QED
    BY <1>4, <2>1, <2>2 DEF Pull, StartPull, MoveAside, Install, ReplaceFails, PutBack,
                            Cleanup, Start
<1>5. CASE Stop(q)
  BY <1>0, <1>5 DEF Stop, End, Goto
<1> QED
  BY <1>2, <1>3, <1>4, <1>5

\* A row that has been gone through keeps its copy.
LEMMA UpsertKeeps ==
    ASSUME TypeOK, Restorable, NEW p \in Procs, Deciding(p), UpsertRow(p)
    PROVE  Deciding(p)'
<1>0. Fields
  BY FieldTypes
<1>1. PICK m \in job[p].todo : Upserting(p, m)
  BY <1>0, UpsertIs DEF Fields
<1>2. /\ pc[p] = "upsert" /\ job[p].open = None /\ m \in Messages
      /\ UNCHANGED <<rows, media, crossed, halfway>>
  BY <1>0 DEF UpsertRow, Fields, Job
<1>3. /\ job'[p].rows = Upserted(p, m) /\ job'[p].open = Reopened(p, m)
      /\ job'[p].restore = job[p].restore /\ job'[p].todo = job[p].todo \ {m}
  BY <1>0, <1>1 DEF Upserting, Fields, Job
<1>4. /\ rows[m] \in Row /\ job[p].rows[m] \in Row /\ job[p].rows \in Rows /\ m # None
  BY <1>0, <1>2, MediaAssumption DEF Fields, Rows
<1>5. /\ Upserted(p, m)[m] = UpsertedRow(p, m)
      /\ \A n \in Messages \ {m} : Upserted(p, m)[n] = job[p].rows[n]
  BY <1>2, <1>4 DEF Upserted, Rows
<1>6. ASSUME Reopened(p, m) # None
      PROVE  /\ Reopened(p, m) = m /\ rows[m].path.kind = "object"
             /\ UpsertedRow(p, m).path.kind = "object"
  BY <1>4, <1>6 DEF Reopened, UpsertedRow, Retainable, Row
<1>7. ASSUME ~job[p].restore, ~crossed, ~halfway, Copied(rows[m]), m # Reopened(p, m),
             UpsertedRow(p, m).attachment = rows[m].attachment,
             UpsertedRow(p, m).deleted = rows[m].deleted
      PROVE  UpsertedRow(p, m).path.kind = "object"
  <2>1. \A q \in Procs : ~Pulls(q)
    BY <1>2, <1>7, Apart DEF Restorable, Role, Pulls
  <2>2. rows[m].path.object \in Contents(media)
    BY <1>2, <1>7, <2>1, AtHome DEF Copied, Named
  <2>3. CASE rows[m].deleted
    BY <1>7, <2>3 DEF UpsertedRow, Copied
  <2>4. CASE ~rows[m].deleted
    <3>1. job[p].rows[m].attachment = rows[m].attachment /\ ~job[p].rows[m].deleted
      BY <1>4, <1>7, <2>4 DEF UpsertedRow, Row
    <3>2. Retainable(rows[m], job[p].rows[m])
      BY <1>7, <2>2, <2>4, <3>1 DEF Retainable, Copied
    <3>3. job[p].rows[m].path.kind # "object"
      BY <1>7, <3>2 DEF Reopened
    <3> QED
      BY <1>4, <1>7, <2>4, <3>2, <3>3 DEF UpsertedRow, Copied, Row
  <2> QED
    BY <2>3, <2>4
<1>8. job'[p].open # None => /\ rows'[job'[p].open].path.kind = "object"
                             /\ job'[p].rows[job'[p].open].path.kind = "object"
  BY <1>2, <1>3, <1>5, <1>6
<1>9. ASSUME ~job'[p].restore, ~crossed', ~halfway',
             NEW n \in Messages \ (job'[p].todo \cup {job'[p].open}),
             Copied(rows[n]), job'[p].rows[n].attachment = rows[n].attachment,
             job'[p].rows[n].deleted = rows[n].deleted
      PROVE  job'[p].rows[n].path.kind = "object"
  <2>1. CASE n = m
    BY <1>2, <1>3, <1>5, <1>7, <1>9, <2>1
  <2>2. CASE n # m
    <3>1. n \in Messages \ (job[p].todo \cup {job[p].open})
      BY <1>2, <1>3, <1>9, <2>2, MediaAssumption
    <3> QED
      BY <1>2, <1>3, <1>5, <1>9, <2>2, <3>1 DEF Deciding
  <2> QED
    BY <2>1, <2>2
<1> QED
  BY <1>2, <1>8, <1>9 DEF Deciding, Copied

\* Either copy will do.
LEMMA CompareKeeps ==
    ASSUME TypeOK, NEW p \in Procs, Deciding(p), CompareCopies(p)
    PROVE  Deciding(p)'
<1>0. Fields
  BY FieldTypes
<1> DEFINE m == job[p].open
<1>1. /\ m \in Messages /\ m # None /\ job[p].rows \in Rows /\ rows \in Rows
      /\ UNCHANGED <<rows, crossed, halfway>>
  BY <1>0 DEF CompareCopies, Fields, Job
<1>2. /\ job'[p].rows = Compared(p) /\ job'[p].open = None
      /\ job'[p].restore = job[p].restore /\ job'[p].todo = job[p].todo
  BY <1>0 DEF CompareCopies, Compared, ComparedPath, Fields, Job
<1>3. rows[m].path.kind = "object" /\ job[p].rows[m].path.kind = "object"
  BY <1>1 DEF Deciding
<1>4. ComparedPath(p).kind = "object"
  BY <1>3 DEF ComparedPath
<1>5. /\ Compared(p)[m].path.kind = "object"
      /\ \A n \in Messages : Compared(p)[n].attachment = job[p].rows[n].attachment
      /\ \A n \in Messages \ {m} : Compared(p)[n] = job[p].rows[n]
  BY <1>1, <1>4 DEF Compared, Rows, Row
<1> HIDE DEF m
<1>6. ASSUME ~job'[p].restore, ~crossed', ~halfway',
             NEW n \in Messages \ (job'[p].todo \cup {job'[p].open}),
             Copied(rows[n]), job'[p].rows[n].attachment = rows[n].attachment,
             job'[p].rows[n].deleted = rows[n].deleted
      PROVE  job'[p].rows[n].path.kind = "object"
  <2>1. CASE n = m
    BY <1>2, <1>5, <2>1
  <2>2. CASE n # m
    BY <1>1, <1>2, <1>5, <1>6, <2>2 DEF Deciding, m
  <2> QED
    BY <2>1, <2>2
<1> QED
  BY <1>1, <1>2, <1>6 DEF Deciding, Copied

LEMMA KeepingStep == Typed /\ Restorable /\ Keeping /\ [Next]_vars => Keeping'
<1> SUFFICES ASSUME TypeOK, Copying, Restorable, Keeping, [Next]_vars PROVE Keeping'
  BY DEF Typed
<1>0. Fields
  BY FieldTypes
<1>1. CASE UNCHANGED <<pc, job, rows, crossed, halfway>>
  BY <1>1 DEF Keeping, OneWriter, Deciding, Copied
<1>2. ASSUME NEW m \in Messages, WriteSource(m) PROVE Keeping'
  <2>1. \A p \in Procs : /\ job'[p].rows = job[p].rows /\ job'[p].todo = job[p].todo
                         /\ job'[p].open = job[p].open /\ job'[p].restore = job[p].restore
    BY <1>0, <1>2 DEF WriteSource, Fields, Job
  <2> QED
    BY <1>2, <2>1 DEF WriteSource, Keeping, OneWriter, Deciding, Copied
<1>3. ASSUME NEW p \in Procs, Import(p) \/ Push(p) \/ Pull(p) \/ Stop(p),
             pc'[p] = "upsert" => Deciding(p)' /\ (pc[p] = "upsert" \/ ~Locked)
      PROVE  Keeping'
  <2>1. \A q \in Procs \ {p} : pc'[q] = pc[q] /\ job'[q] = job[q]
    BY <1>3, OthersWait
  <2>2. OneWriter'
    BY <1>3, <2>1 DEF Keeping, OneWriter, Locked
  <2>3. ASSUME NEW q \in Procs \ {p}, pc[q] = "upsert" PROVE Deciding(q)'
    <3>1. /\ rows' = rows
          /\ ~crossed' => ~crossed
          /\ ~halfway' => ~halfway
      BY <1>3, <2>3, Held DEF Keeping
    <3>2. Deciding(q)
      BY <2>3 DEF Keeping
    <3> QED
      <4>1. /\ job'[q] = job[q] /\ rows' = rows
            /\ (~crossed' => ~crossed) /\ (~halfway' => ~halfway)
        BY <2>1, <3>1
      <4> QED
        BY <3>2, <4>1 DEF Deciding, Copied
  <2> QED
    BY <1>3, <2>1, <2>2, <2>3 DEF Keeping
<1>4. ASSUME NEW p \in Procs, Import(p) PROVE Keeping'
  <2>1. CASE BeginImport(p)
    <3>1. /\ pc[p] = "copy" /\ job[p].open = None /\ ~Locked
          /\ job'[p].open = None /\ job'[p].restore = job[p].restore
          /\ ~job[p].restore => job'[p].todo = Messages
      BY <1>0, <2>1 DEF BeginImport, Copying, Fields, Job
    <3>2. Deciding(p)'
      BY <3>1 DEF Deciding
    <3> QED
      BY <1>3, <1>4, <3>1, <3>2
  <2>2. CASE UpsertRow(p)
    <3>1. pc[p] = "upsert"
      BY <2>2 DEF UpsertRow
    <3>2. Deciding(p)'
      BY <2>2, <3>1, UpsertKeeps DEF Keeping
    <3> QED
      BY <1>3, <1>4, <3>1, <3>2
  <2>3. CASE CompareCopies(p)
    <3>1. pc[p] = "upsert"
      BY <2>3 DEF CompareCopies
    <3>2. Deciding(p)'
      BY <2>3, <3>1, CompareKeeps DEF Keeping
    <3> QED
      BY <1>3, <1>4, <3>1, <3>2
  <2>4. CASE StartImport(p) \/ OpenFile(p) \/ ReadFile(p) \/ LinkObject(p) \/ CommitImport(p)
    <3>1. pc'[p] # "upsert"
      <4>1. CASE StartImport(p)
        BY <1>0, <4>1 DEF StartImport, Start, Goto, Fields
      <4>2. CASE OpenFile(p)
        BY <1>0, <4>2 DEF OpenFile, Fields
      <4>4. CASE ReadFile(p)
        BY <1>0, <4>4 DEF ReadFile, Fields
      <4>3. CASE LinkObject(p) \/ CommitImport(p)
        BY <1>0, <4>3 DEF LinkObject, CommitImport, End, Goto, Fields
      <4> QED
        BY <2>4, <4>1, <4>2, <4>3, <4>4
    <3> QED
      BY <1>3, <1>4, <3>1
  <2> QED
    BY <1>4, <2>1, <2>2, <2>3, <2>4 DEF Import
<1>5. ASSUME NEW p \in Procs, Push(p) \/ Pull(p) \/ Stop(p) PROVE Keeping'
  <2>1. pc'[p] # "upsert"
    BY <1>0, <1>5 DEF Push, StartPush, Collect, WriteBackup, Pull, StartPull, MoveAside,
                      Install, Replace, ReplaceFails, PutBack, Cleanup, Stop, Start, End,
                      Goto, Fields
  <2> QED
    BY <1>3, <1>5, <2>1
<1> QED
  BY <1>1, <1>2, <1>4, <1>5 DEF Next, vars

\* Once a file is copied, no import makes the archive forget the copy while the
\* message lives and its attachment stays the same, with these exceptions: --restore,
\* attachments with neither a URL nor a size, and archives whose media a pull has
\* moved beside another command or left halfway.
THEOREM CopiesStay == Spec => CopiesAreKept
<1>1. ASSUME Typed, Restorable, Keeping, [Next]_vars, NEW m \in Messages, NEW p \in Procs,
             pc[p] = "upsert", pc'[p] = "idle", ~job[p].restore, ~crossed, ~halfway,
             Copied(rows[m]), rows'[m].attachment = rows[m].attachment,
             rows'[m].deleted = rows[m].deleted
      PROVE  rows'[m].path.kind = "object" /\ rows'[m].path.object \in Contents(media)
  <2>0. TypeOK /\ Fields /\ Relying(p) /\ Role(p) /\ Deciding(p)
    BY <1>1, FieldTypes DEF Typed, Restorable, Keeping
  <2>1. \A q \in Procs : ~Pulls(q)
    BY <1>1, <2>0, Apart DEF Role, Pulls
  <2>2. CASE CommitImport(p)
    <3>1. rows' = job[p].rows /\ job[p].todo = {} /\ job[p].open = None
      BY <2>2 DEF CommitImport
    <3>2. m # None
      BY MediaAssumption
    <3>3. rows'[m].path.kind = "object"
      BY <1>1, <2>0, <3>1, <3>2 DEF Deciding
    <3> QED
      BY <1>1, <2>0, <3>1, <3>3 DEF Relying, Named
  <2>3. CASE rows' = rows
    BY <1>1, <2>1, <2>3, AtHome DEF Copied, Named
  <2>4. CASE Import(p)
    <3>1. ~CommitImport(p) => rows' = rows
      BY <2>4, Zenon DEF Import, StartImport, OpenFile, ReadFile, LinkObject, BeginImport,
                         UpsertRow, CompareCopies
    <3> QED
      BY <2>2, <2>3, <3>1
  <2>5. CASE Stop(p)
    BY <2>3, <2>5 DEF Stop
  <2>6. CASE Push(p) \/ Pull(p)
    BY <1>1, <2>6 DEF Push, StartPush, Collect, WriteBackup, Pull, StartPull, MoveAside,
                      Install, Replace, ReplaceFails, PutBack, Cleanup, Start
  <2>7. CASE \E q \in Procs \ {p} : Import(q) \/ Push(q) \/ Pull(q) \/ Stop(q)
    BY <1>1, <2>0, <2>7, OthersWait
  <2>8. CASE \E n \in Messages : WriteSource(n)
    BY <2>3, <2>8 DEF WriteSource
  <2>9. CASE UNCHANGED vars
    BY <2>3, <2>9 DEF vars
  <2> QED
    BY <1>1, <2>4, <2>5, <2>6, <2>7, <2>8, <2>9 DEF Next
<1>2. Init => Keeping
  BY DEF Init, Keeping, OneWriter
<1>3. /\ Typed /\ [Next]_vars => Typed'
      /\ Typed /\ Restorable /\ [Next]_vars => Restorable'
      /\ Typed /\ Restorable /\ Keeping /\ [Next]_vars => Keeping'
  BY TypeStep, CopyingStep, RestorableStep, KeepingStep DEF Typed
<1>4. Typed /\ Restorable /\ Keeping /\ [Next]_vars =>
          [\A m \in Messages, p \in Procs :
             /\ pc[p] = "upsert" /\ pc'[p] = "idle"
             /\ ~job[p].restore /\ ~crossed /\ ~halfway
             /\ rows[m].path.kind = "object" /\ rows[m].attachment \in Identifiable
             /\ rows'[m].attachment = rows[m].attachment /\ rows'[m].deleted = rows[m].deleted
             => rows'[m].path.kind = "object" /\ rows'[m].path.object \in Contents(media)]_vars
  BY <1>1 DEF Copied
<1> QED
  BY TypeInit, RestorableInit, <1>2, <1>3, <1>4, PTL DEF Spec, CopiesAreKept
=============================================================================
