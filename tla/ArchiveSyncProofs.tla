-------------------------- MODULE ArchiveSyncProofs --------------------------
(* Proofs about ArchiveSync, for every number of processes running any     *)
(* commands, every set of accounts and every bound.                        *)
EXTENDS ArchiveSync, TLAPS

Snaps  == [at : Nat, latest : Nat, rows : Nat, account : Accounts \cup {None},
           holds : SUBSET Accounts]
States == [imported : BOOLEAN, rows : Nat, at : Nat]

LEMMA SeenTypes ==
    ASSUME NEW s \in States, NEW i \in BOOLEAN, NEW n \in Nat
    PROVE  /\ [s EXCEPT !.imported = i] \in States
           /\ [s EXCEPT !.at = n] \in States
           /\ [s EXCEPT !.rows = n] \in States
BY DEF States

-----------------------------------------------------------------------------
(* Types and the write lock.                                               *)

LEMMA InitTypes == Init => TypeOK
BY SyncAssumption
   DEF Init, TypeOK, EmptyArchive, NoBackup, NoState, NoSnap, Labels

LEMMA EndTypes ==
    ASSUME TypeOK, NEW p \in Procs, End(p)
    PROVE  /\ pc' \in [Procs -> Labels]
           /\ seen' \in [Procs -> States]
           /\ snap' \in [Procs -> Snaps]
           /\ pc'[p] = "idle"
           /\ \A q \in Procs \ {p} : pc'[q] = pc[q]
<1>1. NoState \in States /\ NoSnap \in Snaps
  BY DEF NoState, NoSnap, States, Snaps
<1>2. seen \in [Procs -> States] /\ snap \in [Procs -> Snaps] /\ pc \in [Procs -> Labels]
  BY DEF TypeOK, States, Snaps
<1> QED
  BY <1>1, <1>2 DEF End, Goto, Labels

LEMMA GotoTypes ==
    ASSUME TypeOK, NEW p \in Procs, NEW l \in Labels, Goto(p, l)
    PROVE  /\ pc' \in [Procs -> Labels]
           /\ pc'[p] = l
           /\ \A q \in Procs \ {p} : pc'[q] = pc[q]
BY DEF TypeOK, Goto

\* The mutual exclusion conjunct of TypeOK, for a step of p that leaves the
\* lock alone.
LEMMA LockKept ==
    ASSUME TypeOK, NEW p \in Procs, writer' = writer,
           pc[p] # "commit", pc'[p] # "commit",
           \A q \in Procs \ {p} : pc'[q] = pc[q]
    PROVE  \A q \in Procs : pc'[q] = "commit" <=> writer' = q
BY DEF TypeOK

LEMMA StepTypes == TypeOK /\ [Next]_vars => TypeOK'
<1> SUFFICES ASSUME TypeOK, [Next]_vars PROVE TypeOK'
  OBVIOUS
<1> USE SyncAssumption
<1>0. seen \in [Procs -> States] /\ snap \in [Procs -> Snaps]
  BY DEF TypeOK, States, Snaps
<1>1. CASE UNCHANGED vars
  BY <1>1 DEF TypeOK, vars
<1>2. CASE SourceWrite
  <2>1. source' \in [modified : Nat, rows : Nat, account : Accounts]
    <3>1. source.modified + 1 \in Nat /\ source.rows + 1 \in Nat
      BY DEF TypeOK
    <3>2. CASE Edit BY <3>1, <3>2 DEF Edit, TypeOK, clock
    <3>3. CASE NewMessage BY <3>1, <3>3 DEF NewMessage, TypeOK, clock
    <3>4. CASE Relogin BY <3>1, <3>4 DEF Relogin, TypeOK, clock
    <3> QED BY <1>2, <3>2, <3>3, <3>4 DEF SourceWrite
  <2> QED
    BY <1>2, <2>1 DEF SourceWrite, TypeOK
<1>3. CASE Age
  BY <1>3 DEF Age, TypeOK
<1>4. ASSUME NEW p \in Procs, Start(p) PROVE TypeOK'
  <2>1. "open" \in Labels BY DEF Labels
  <2> QED BY <1>4, <2>1, GotoTypes, LockKept DEF Start, TypeOK
<1>5. ASSUME NEW p \in Procs, Open(p) PROVE TypeOK'
  <2>1. Opened(p) \in Labels /\ Opened(p) # "commit" BY DEF Labels, Opened
  <2> QED BY <1>5, <2>1, GotoTypes, LockKept DEF Open, TypeOK
<1>6. ASSUME NEW p \in Procs, ReadAge(p) PROVE TypeOK'
  <2>1. "read" \in Labels /\ "watermark" \in Labels BY DEF Labels
  <2>2. seen' \in [Procs -> States]
    <3>1. archive.imported \in BOOLEAN BY DEF TypeOK
    <3>2. [seen[p] EXCEPT !.imported = archive.imported] \in States
      BY <1>0, <3>1, SeenTypes
    <3> QED BY <1>0, <1>6, <3>2 DEF ReadAge
  <2> QED BY <1>6, <2>1, <2>2, GotoTypes, LockKept DEF ReadAge, TypeOK, States
<1>7. ASSUME NEW p \in Procs, ReadWatermark(p) PROVE TypeOK'
  <2>1. "rows" \in Labels BY DEF Labels
  <2>2. seen' \in [Procs -> States]
    <3>1. archive.at \in Nat BY DEF TypeOK
    <3>2. [seen[p] EXCEPT !.at = archive.at] \in States
      BY <1>0, <3>1, SeenTypes
    <3> QED BY <1>0, <1>7, <3>2 DEF ReadWatermark
  <2> QED BY <1>7, <2>1, <2>2, GotoTypes, LockKept DEF ReadWatermark, TypeOK, States
<1>8. ASSUME NEW p \in Procs, ReadRows(p) PROVE TypeOK'
  <2>1. "discover" \in Labels BY DEF Labels
  <2>2. seen' \in [Procs -> States]
    <3>1. archive.rows \in Nat BY DEF TypeOK
    <3>2. [seen[p] EXCEPT !.rows = archive.rows] \in States
      BY <1>0, <3>1, SeenTypes
    <3> QED BY <1>0, <1>8, <3>2 DEF ReadRows
  <2> QED BY <1>8, <2>1, <2>2, GotoTypes, LockKept DEF ReadRows, TypeOK, States
<1>9. ASSUME NEW p \in Procs, Discover(p) PROVE TypeOK'
  <2>1. "read" \in Labels /\ "start" \in Labels BY DEF Labels
  <2>2. seen' \in [Procs -> States] BY <1>0, <1>9 DEF Discover, States, NoState
  <2> QED BY <1>9, <2>1, <2>2, GotoTypes, LockKept DEF Discover, TypeOK, States
<1>10. ASSUME NEW p \in Procs, Unavailable(p) PROVE TypeOK'
  <2>1. "read" \in Labels BY DEF Labels
  <2>2. CASE End(p)
    BY <1>10, <2>2, EndTypes, LockKept DEF Unavailable, TypeOK, States, Snaps
  <2>3. CASE Goto(p, "read") /\ seen' = [seen EXCEPT ![p] = NoState] /\ UNCHANGED snap
    <3>1. seen' \in [Procs -> States] BY <1>0, <2>3 DEF States, NoState
    <3> QED BY <1>10, <2>1, <2>3, <3>1, GotoTypes, LockKept DEF Unavailable, TypeOK, States
  <2> QED BY <1>10, <2>2, <2>3 DEF Unavailable
<1>11. ASSUME NEW p \in Procs, StartImport(p) PROVE TypeOK'
  <2>1. "copy" \in Labels BY DEF Labels
  <2>2. snap' \in [Procs -> Snaps] BY <1>0, <1>11 DEF StartImport, Snaps, TypeOK, clock
  <2>3. /\ pc[p] = "start" /\ Goto(p, "copy")
        /\ UNCHANGED <<source, archive, backup, aged, writer, seen, faults>>
    BY <1>11 DEF StartImport
  <2> QED BY <2>1, <2>2, <2>3, GotoTypes, LockKept DEF TypeOK, Snaps
<1>12. ASSUME NEW p \in Procs, Copy(p) PROVE TypeOK'
  <2>1. "validate" \in Labels BY DEF Labels
  <2>2. snap' \in [Procs -> Snaps] BY <1>0, <1>12 DEF Copy, Capture, Snaps, TypeOK
  <2> QED BY <1>12, <2>1, <2>2, GotoTypes, LockKept DEF Copy, TypeOK, Snaps
<1>13. ASSUME NEW p \in Procs, Validate(p) PROVE TypeOK'
  <2>1. "begin" \in Labels BY DEF Labels
  <2>2. CASE End(p)
    BY <1>13, <2>2, EndTypes, LockKept DEF Validate, TypeOK, States, Snaps
  <2>3. CASE Goto(p, "begin") /\ UNCHANGED <<seen, snap>>
    BY <1>13, <2>1, <2>3, GotoTypes, LockKept DEF Validate, TypeOK
  <2> QED BY <1>13, <2>2, <2>3 DEF Validate
<1>14. ASSUME NEW p \in Procs, Begin(p) PROVE TypeOK'
  <2>1. "commit" \in Labels BY DEF Labels
  <2>2. CASE End(p) /\ UNCHANGED writer
    BY <1>14, <2>2, EndTypes, LockKept DEF Begin, TypeOK, States, Snaps
  <2>3. CASE Goto(p, "commit") /\ writer' = p /\ UNCHANGED <<seen, snap>>
    BY <1>14, <2>1, <2>3, GotoTypes DEF Begin, TypeOK
  <2> QED BY <1>14, <2>2, <2>3 DEF Begin
<1>15. ASSUME NEW p \in Procs, Commit(p) PROVE TypeOK'
  <2>1. "read" \in Labels BY DEF Labels
  <2>2. archive' \in [imported : BOOLEAN, latest : Nat, rows : Nat, at : Nat,
                      events : Nat, account : Accounts \cup {None},
                      holds : SUBSET Accounts]
    <3>1. snap[p] \in Snaps BY <1>0
    <3> QED BY <1>15, <3>1 DEF Commit, Imported, Recorded, Larger, Snaps, TypeOK
  <2>3. writer = p BY <1>15 DEF Commit, TypeOK
  <2>4. CASE End(p)
    BY <1>15, <2>2, <2>3, <2>4, EndTypes DEF Commit, TypeOK, States, Snaps
  <2>5. CASE Goto(p, "read") /\ snap' = [snap EXCEPT ![p] = NoSnap] /\ UNCHANGED seen
    <3>1. snap' \in [Procs -> Snaps] BY <1>0, <2>5 DEF Snaps, NoSnap
    <3>2. /\ aged' = FALSE /\ writer' = None /\ UNCHANGED <<source, backup, faults>>
      BY <1>15 DEF Commit
    <3>3. \A q \in Procs : pc'[q] = "commit" <=> writer' = q
      BY <2>1, <2>3, <2>5, <3>2, GotoTypes DEF TypeOK
    <3> QED BY <2>1, <2>2, <2>5, <3>1, <3>2, <3>3, GotoTypes DEF TypeOK, Snaps
  <2> QED BY <1>15, <2>4, <2>5 DEF Commit
<1>16. ASSUME NEW p \in Procs, Busy(p) PROVE TypeOK'
  BY <1>16, EndTypes, LockKept DEF Busy, TypeOK, States, Snaps
<1>17. ASSUME NEW p \in Procs, Read(p) PROVE TypeOK'
  <2>1. "publish" \in Labels BY DEF Labels
  <2>2. CASE End(p)
    BY <1>17, <2>2, EndTypes, LockKept DEF Read, TypeOK, States, Snaps
  <2>3. CASE /\ Goto(p, "publish")
             /\ snap' = [snap EXCEPT ![p] =
                    [at |-> 0, latest |-> archive.latest, rows |-> archive.events,
                     account |-> archive.account, holds |-> archive.holds]]
             /\ UNCHANGED seen
    <3>1. snap' \in [Procs -> Snaps] BY <1>0, <2>3 DEF Snaps, TypeOK
    <3> QED BY <1>17, <2>1, <2>3, <3>1, GotoTypes, LockKept DEF Read, TypeOK, Snaps
  <2> QED BY <1>17, <2>2, <2>3 DEF Read
<1>18. ASSUME NEW p \in Procs, Publish(p) PROVE TypeOK'
  <2>1. snap[p] \in Snaps BY <1>0
  <2>2. backup' \in [exists : BOOLEAN, latest : Nat, events : Nat, exported : Nat,
                     account : Accounts \cup {None}, holds : SUBSET Accounts]
    BY <1>18, <2>1 DEF Publish, Snaps, TypeOK, clock
  <2> QED BY <1>18, <2>2, EndTypes, LockKept DEF Publish, TypeOK, States, Snaps
<1>19. ASSUME NEW p \in Procs, Fetch(p) PROVE TypeOK'
  <2>1. "begin" \in Labels BY DEF Labels
  <2>2. CASE End(p)
    BY <1>19, <2>2, EndTypes, LockKept DEF Fetch, TypeOK, States, Snaps
  <2>3. CASE /\ Goto(p, "begin")
             /\ snap' = [snap EXCEPT ![p] =
                    [at |-> backup.exported, latest |-> backup.latest,
                     rows |-> backup.events, account |-> backup.account,
                     holds |-> backup.holds]]
             /\ UNCHANGED seen
    <3>1. snap' \in [Procs -> Snaps] BY <1>0, <2>3 DEF Snaps, TypeOK
    <3> QED BY <1>19, <2>1, <2>3, <3>1, GotoTypes, LockKept DEF Fetch, TypeOK, Snaps
  <2> QED BY <1>19, <2>2, <2>3 DEF Fetch
<1>20. ASSUME NEW p \in Procs, Stop(p) PROVE TypeOK'
  BY <1>20, EndTypes DEF Stop, TypeOK, States, Snaps
<1> QED
  BY <1>1, <1>2, <1>3, <1>4, <1>5, <1>6, <1>7, <1>8, <1>9, <1>10, <1>11, <1>12,
     <1>13, <1>14, <1>15, <1>16, <1>17, <1>18, <1>19, <1>20 DEF Next, Step

\* Whatever commands run, values keep their types and a process is in its
\* write transaction exactly while it holds the lock of SQLite.
THEOREM TypeCorrect == Spec => []TypeOK
BY InitTypes, StepTypes, PTL DEF Spec

-----------------------------------------------------------------------------
(* Watermarks.  Every snapshot, in flight or committed, was captured after  *)
(* its watermark was read, and so has no version between the two.           *)

NoPulls == \A p \in Procs : Command[p] # "pull"

Captured(s) == s.at <= s.latest /\ s.latest <= clock

Watermarks ==
    /\ Captured(archive)
    /\ \A p \in Procs :
           /\ pc[p] = "copy" => snap[p].at <= clock
           /\ pc[p] \in {"validate", "begin", "commit"} => Captured(snap[p])
           /\ pc[p] # "fetch"

LEMMA InitWatermarks == Init => Watermarks
BY DEF Init, Watermarks, Captured, EmptyArchive, clock

\* A step that moves p to a label at which nothing is claimed of its snapshot,
\* or leaves snapshots alone and claims nothing new of them.
LEMMA WatermarksKept ==
    ASSUME TypeOK, Watermarks, NEW p \in Procs,
           UNCHANGED <<source, archive>>,
           \A q \in Procs \ {p} : pc'[q] = pc[q] /\ snap'[q] = snap[q],
           \/ pc'[p] \notin {"copy", "validate", "begin", "commit", "fetch"}
           \/ /\ pc[p] \in {"validate", "begin"} /\ pc'[p] \in {"begin", "commit"}
              /\ snap'[p] = snap[p]
    PROVE  Watermarks'
BY DEF Watermarks, Captured, clock

LEMMA EndEffect ==
    ASSUME TypeOK, NEW p \in Procs, End(p)
    PROVE  /\ pc'[p] = "idle"
           /\ snap'[p] = NoSnap
           /\ \A q \in Procs \ {p} : pc'[q] = pc[q] /\ snap'[q] = snap[q]
BY DEF TypeOK, End, Goto

LEMMA GotoEffect ==
    ASSUME TypeOK, NEW p \in Procs, NEW l \in Labels, Goto(p, l)
    PROVE  /\ pc'[p] = l
           /\ \A q \in Procs \ {p} : pc'[q] = pc[q]
BY GotoTypes

LEMMA StepWatermarks ==
    ASSUME NoPulls, TypeOK, Watermarks, [Next]_vars
    PROVE  Watermarks'
<1>0. {"idle", "open", "age", "watermark", "rows", "discover", "start", "copy",
       "validate", "begin", "commit", "read", "publish", "fetch"} = Labels
  BY DEF Labels
<1>1. CASE UNCHANGED vars
  BY <1>1 DEF vars, Watermarks, Captured, clock
<1>2. CASE SourceWrite
  <2>1. clock' = clock + 1
    BY <1>2 DEF SourceWrite, Edit, NewMessage, Relogin, TypeOK, clock
  <2>2. UNCHANGED <<archive, pc, snap>>
    BY <1>2 DEF SourceWrite
  <2>3. clock \in Nat /\ archive.latest \in Nat
    BY DEF TypeOK, clock
  <2>4. \A p \in Procs : snap[p].latest \in Nat /\ snap[p].at \in Nat
    BY DEF TypeOK
  <2>5. Captured(archive)'
    BY <2>1, <2>2, <2>3 DEF Watermarks, Captured
  <2>6. ASSUME NEW p \in Procs
        PROVE  /\ pc'[p] = "copy" => snap'[p].at <= clock'
               /\ pc'[p] \in {"validate", "begin", "commit"} => Captured(snap[p])'
               /\ pc'[p] # "fetch"
    BY <2>1, <2>2, <2>3, <2>4 DEF Watermarks, Captured
  <2> QED
    BY <2>5, <2>6 DEF Watermarks
<1>3. CASE Age
  BY <1>3 DEF Age, Watermarks, Captured, clock
<1>4. ASSUME NEW p \in Procs,
             \/ Start(p) \/ ReadAge(p) \/ ReadWatermark(p) \/ ReadRows(p)
             \/ Discover(p)
      PROVE  Watermarks'
  <2>1. \E l \in Labels \ {"copy", "validate", "begin", "commit", "fetch"} : Goto(p, l)
    BY <1>0, <1>4 DEF Start, ReadAge, ReadWatermark, ReadRows, Discover
  <2>2. UNCHANGED <<source, archive, snap>>
    BY <1>4 DEF Start, ReadAge, ReadWatermark, ReadRows, Discover
  <2> QED
    BY <2>1, <2>2, GotoEffect, WatermarksKept
<1>5. ASSUME NEW p \in Procs, Open(p) PROVE Watermarks'
  <2>1. Opened(p) \in Labels \ {"copy", "validate", "begin", "commit", "fetch"}
    BY <1>0 DEF Opened, NoPulls
  <2> QED
    BY <1>5, <2>1, GotoEffect, WatermarksKept DEF Open
<1>6. ASSUME NEW p \in Procs,
             \/ Unavailable(p) \/ Busy(p) \/ Publish(p) \/ Read(p) \/ Stop(p)
             \/ Fetch(p)
      PROVE  Watermarks'
  <2>1. UNCHANGED <<source, archive>>
    BY <1>6 DEF Unavailable, Busy, Publish, Read, Stop, Fetch
  <2>2. CASE End(p)
    BY <2>1, <2>2, EndEffect, WatermarksKept
  <2>3. CASE Goto(p, "read") /\ UNCHANGED snap
    BY <1>0, <2>1, <2>3, GotoEffect, WatermarksKept
  <2>4. CASE /\ Goto(p, "publish")
             /\ snap' = [snap EXCEPT ![p] =
                    [at |-> 0, latest |-> archive.latest, rows |-> archive.events,
                     account |-> archive.account, holds |-> archive.holds]]
    <3>1. \A q \in Procs \ {p} : snap'[q] = snap[q]
      BY <2>4 DEF TypeOK
    <3> QED
      BY <1>0, <2>1, <2>4, <3>1, GotoEffect, WatermarksKept
  <2>5. ~Fetch(p)
    BY DEF Fetch, Watermarks
  <2> QED
    BY <1>6, <2>2, <2>3, <2>4, <2>5 DEF Unavailable, Busy, Publish, Read, Stop
<1>7. ASSUME NEW p \in Procs, StartImport(p) PROVE Watermarks'
  <2>1. /\ \A q \in Procs \ {p} : pc'[q] = pc[q] /\ snap'[q] = snap[q]
        /\ pc'[p] = "copy" /\ snap'[p].at = clock
    BY <1>0, <1>7, GotoEffect DEF StartImport, TypeOK
  <2>2. UNCHANGED <<source, archive>> /\ clock \in Nat
    BY <1>7 DEF StartImport, TypeOK, clock
  <2> QED
    BY <2>1, <2>2 DEF Watermarks, Captured, clock
<1>8. ASSUME NEW p \in Procs, Copy(p) PROVE Watermarks'
  <2>1. /\ \A q \in Procs \ {p} : pc'[q] = pc[q] /\ snap'[q] = snap[q]
        /\ pc'[p] = "validate" /\ snap'[p].at = snap[p].at
        /\ snap'[p].latest = clock /\ pc[p] = "copy"
    BY <1>0, <1>8, GotoEffect DEF Copy, Capture, TypeOK, clock
  <2>2. UNCHANGED <<source, archive>> /\ clock \in Nat
    BY <1>8 DEF Copy, TypeOK, clock
  <2> QED
    BY <2>1, <2>2 DEF Watermarks, Captured, clock
<1>9. ASSUME NEW p \in Procs, Validate(p) \/ Begin(p) PROVE Watermarks'
  <2>1. UNCHANGED <<source, archive>>
    BY <1>9 DEF Validate, Begin
  <2>2. CASE End(p)
    BY <2>1, <2>2, EndEffect, WatermarksKept
  <2>3. CASE /\ pc[p] \in {"validate", "begin"} /\ UNCHANGED snap
             /\ Goto(p, "begin") \/ Goto(p, "commit")
    BY <1>0, <2>1, <2>3, GotoEffect, WatermarksKept
  <2> QED
    BY <1>9, <2>2, <2>3 DEF Validate, Begin
<1>10. ASSUME NEW p \in Procs, Commit(p) PROVE Watermarks'
  <2>1. Captured(snap[p])
    BY <1>10 DEF Commit, Watermarks
  <2>2. archive'.at = snap[p].at /\ archive'.latest = snap[p].latest
    BY <1>10 DEF Commit, Imported, Recorded
  <2>3. /\ \A q \in Procs \ {p} : pc'[q] = pc[q] /\ snap'[q] = snap[q]
        /\ pc'[p] \in {"idle", "read"}
    <3>1. CASE End(p)
      BY <3>1, EndEffect
    <3>2. CASE Goto(p, "read") /\ snap' = [snap EXCEPT ![p] = NoSnap]
      BY <1>0, <3>2, GotoEffect DEF TypeOK
    <3> QED
      BY <1>10, <3>1, <3>2 DEF Commit
  <2>4. source' = source
    BY <1>10 DEF Commit
  <2>5. Captured(archive)'
    BY <2>1, <2>2, <2>4 DEF Captured, clock
  <2> QED
    BY <2>3, <2>4, <2>5 DEF Watermarks, Captured, clock
<1> QED
  BY <1>1, <1>2, <1>3, <1>4, <1>5, <1>6, <1>7, <1>8, <1>9, <1>10 DEF Next, Step

LEMMA WatermarksShow == TypeOK /\ Watermarks => AheadIsVisible
<1> SUFFICES ASSUME TypeOK, Watermarks, archive.latest # source.modified
             PROVE  source.modified > archive.at
  BY DEF AheadIsVisible, Ahead
<1>1. source.modified \in Nat /\ archive.latest \in Nat /\ archive.at \in Nat
  BY DEF TypeOK
<1>2. archive.at <= archive.latest /\ archive.latest <= source.modified
  BY DEF Watermarks, Captured, clock
<1> QED
  BY <1>1, <1>2

\* However imports, restores, source writes, relogins and kills interleave, an
\* archive that is behind its source is seen to be behind, as long as no
\* backup is pulled: a pulled archive has no watermark of its own.
THEOREM StaleIsSeen == ASSUME NoPulls PROVE Spec => []AheadIsVisible
<1>1. Init => TypeOK /\ Watermarks
  BY InitTypes, InitWatermarks
<1>2. TypeOK /\ Watermarks /\ [Next]_vars => (TypeOK /\ Watermarks)'
  BY StepTypes, StepWatermarks
<1> QED
  BY <1>1, <1>2, WatermarksShow, PTL DEF Spec

-----------------------------------------------------------------------------
(* The check itself reads sync_state row by row, and the source later.      *)

\* The watermark p has read is older than the source.
Due(p) == pc[p] \in {"rows", "discover"} /\ seen[p].at < source.modified

\* What a process finds behind the source is not overlooked.  A process that reads the
\* watermark of an archive which does not show the newest version of the source imports
\* it, unless it ends or the source cannot be read: whatever is imported, restored and
\* written between its reads, and however they tear, nothing makes it read on as if the
\* archive were current (Status, sourceAheadOfArchive).
NothingOverlooked ==
    [][\A p \in Procs :
          /\ pc[p] = "watermark" /\ pc'[p] = "rows" /\ archive.latest # source.modified
               => Due(p)'
          /\ Due(p) => Due(p)' \/ pc'[p] \in {"start", "idle"} \/ Unavailable(p)]_vars

\* A step of another process, or of the source, leaves it so.
LEMMA DueKept ==
    ASSUME TypeOK, TypeOK', NEW p \in Procs, Due(p),
           pc'[p] = pc[p], seen'[p] = seen[p], source.modified =< source'.modified
    PROVE  Due(p)'
<1>1. /\ seen[p].at \in Nat /\ source.modified \in Nat /\ source'.modified \in Nat
  BY DEF TypeOK
<1> QED
  BY <1>1 DEF Due

\* A step of q leaves what other processes have read alone.
LEMMA StepIsLocal ==
    ASSUME TypeOK, NEW q \in Procs, NEW p \in Procs \ {q},
           Step(q) \/ Start(q) \/ Unavailable(q) \/ Stop(q)
    PROVE  pc'[p] = pc[p] /\ seen'[p] = seen[p] /\ source' = source
<1> USE DEF TypeOK, Goto, End
<1>1. CASE Start(q) \/ Unavailable(q) \/ Stop(q)
  BY <1>1 DEF Start, Unavailable, Stop
<1>2. CASE Open(q) \/ ReadAge(q) \/ ReadWatermark(q) \/ ReadRows(q) \/ Discover(q)
  BY <1>2 DEF Open, ReadAge, ReadWatermark, ReadRows, Discover
<1>3. CASE StartImport(q) \/ Copy(q) \/ Validate(q) \/ Begin(q) \/ Commit(q)
  BY <1>3 DEF StartImport, Copy, Validate, Begin, Commit
<1>4. CASE Busy(q) \/ Read(q) \/ Publish(q) \/ Fetch(q)
  BY <1>4 DEF Busy, Read, Publish, Fetch
<1> QED
  BY <1>1, <1>2, <1>3, <1>4 DEF Step

\* The watermark of a stale archive is older than the source.
LEMMA StaleIsDue ==
    ASSUME TypeOK, Watermarks, NEW p \in Procs, ReadWatermark(p),
           archive.latest # source.modified
    PROVE  Due(p)'
<1>1. archive.at \in Nat /\ archive.latest \in Nat /\ source.modified \in Nat
  BY DEF TypeOK
<1>2. archive.at < source.modified
  BY <1>1 DEF Watermarks, Captured, clock
<1>3. seen \in [Procs -> States] /\ pc \in [Procs -> Labels]
  BY DEF TypeOK, States
<1>4. seen'[p].at = archive.at /\ pc'[p] = "rows" /\ source' = source
  BY <1>3 DEF ReadWatermark, Goto, States
<1> QED
  BY <1>2, <1>4 DEF Due

\* A step of p itself makes up for it.
LEMMA DueImports ==
    ASSUME TypeOK, TypeOK', NEW p \in Procs, Due(p),
           Step(p) \/ Start(p) \/ Unavailable(p) \/ Stop(p)
    PROVE  Due(p)' \/ pc'[p] \in {"start", "idle"} \/ Unavailable(p)
<1>0. /\ seen \in [Procs -> States] /\ pc \in [Procs -> Labels]
      /\ seen[p].at < source.modified /\ pc[p] \in {"rows", "discover"}
  BY DEF TypeOK, States, Due
<1>1. CASE ReadRows(p)
  <2>1. seen'[p].at = seen[p].at /\ pc'[p] = "discover" /\ source' = source
    BY <1>0, <1>1 DEF ReadRows, Goto, States
  <2> QED
    BY <1>0, <2>1 DEF Due
<1>2. CASE Discover(p)
  <2>1. Ahead(seen[p])
    BY <1>0 DEF Ahead
  <2> QED
    BY <1>0, <1>2, <2>1 DEF Discover, Goto
<1>3. CASE Stop(p)
  BY <1>0, <1>3 DEF Stop, End, Goto
<1>4. ~Start(p) /\ (Step(p) => ReadRows(p) \/ Discover(p))
  BY <1>0 DEF Start, Step, Open, ReadAge, ReadWatermark, StartImport, Copy, Validate,
              Begin, Commit, Busy, Read, Publish, Fetch
<1> QED
  BY <1>1, <1>2, <1>3, <1>4

\* Only a step that reads the watermark goes from there to the rows.
LEMMA WatermarkRead ==
    ASSUME TypeOK, NEW p \in Procs, pc[p] = "watermark", pc'[p] = "rows",
           Step(p) \/ Start(p) \/ Unavailable(p) \/ Stop(p)
    PROVE  ReadWatermark(p)
<1>1. ~Start(p) /\ ~Unavailable(p)
  BY DEF Start, Unavailable
<1>2. ~Stop(p)
  BY DEF Stop, End, Goto, TypeOK
<1>3. Step(p) => ReadWatermark(p)
  BY DEF Step, Open, ReadAge, ReadRows, Discover, StartImport, Copy, Validate,
         Begin, Commit, Busy, Read, Publish, Fetch
<1> QED
  BY <1>1, <1>2, <1>3

\* No process overlooks that the archive is behind, for any number of processes and
\* any commands but pulls.
THEOREM NothingIsOverlooked == ASSUME NoPulls PROVE Spec => NothingOverlooked
<1>1. TypeOK /\ TypeOK' /\ Watermarks /\ [Next]_vars =>
        [\A p \in Procs :
            /\ pc[p] = "watermark" /\ pc'[p] = "rows" /\ archive.latest # source.modified
                 => Due(p)'
            /\ Due(p) => Due(p)' \/ pc'[p] \in {"start", "idle"} \/ Unavailable(p)]_vars
  <2> SUFFICES ASSUME TypeOK, TypeOK', Watermarks, Next, NEW p \in Procs
               PROVE  /\ pc[p] = "watermark" /\ pc'[p] = "rows"
                         /\ archive.latest # source.modified => Due(p)'
                      /\ Due(p) => Due(p)' \/ pc'[p] \in {"start", "idle"} \/ Unavailable(p)
    OBVIOUS
  <2>1. CASE SourceWrite \/ Age
    <3>1. UNCHANGED <<pc, seen>>
      BY <2>1 DEF SourceWrite, Age
    <3>2. SourceWrite => source'.modified = source.modified + 1
      <4>1. source \in [modified : Nat, rows : Nat, account : Accounts]
        BY DEF TypeOK
      <4>2. Edit => source'.modified = source.modified + 1
        BY <4>1 DEF Edit, clock
      <4>3. NewMessage => source'.modified = source.modified + 1
        BY <4>1 DEF NewMessage, clock
      <4>4. Relogin => source'.modified = source.modified + 1
        BY <4>1 DEF Relogin, clock
      <4> QED
        BY <4>2, <4>3, <4>4 DEF SourceWrite
    <3>3. source.modified =< source'.modified
      BY <2>1, <3>2 DEF Age, TypeOK
    <3> QED
      BY <3>1, <3>3, DueKept
  <2>2. ASSUME NEW q \in Procs \ {p}, Step(q) \/ Start(q) \/ Unavailable(q) \/ Stop(q)
        PROVE  pc'[p] = pc[p] /\ (Due(p) => Due(p)')
    <3>1. pc'[p] = pc[p] /\ seen'[p] = seen[p] /\ source' = source
      BY <2>2, StepIsLocal
    <3>2. source.modified =< source'.modified
      BY <3>1 DEF TypeOK
    <3> QED
      BY <3>1, <3>2, DueKept
  <2>3. CASE Step(p) \/ Start(p) \/ Unavailable(p) \/ Stop(p)
    BY <2>3, StaleIsDue, DueImports, WatermarkRead
  <2> QED
    BY <2>1, <2>2, <2>3 DEF Next
<1>2. Init => TypeOK /\ Watermarks
  BY InitTypes, InitWatermarks
<1>3. TypeOK /\ Watermarks /\ [Next]_vars => (TypeOK /\ Watermarks)'
  BY StepTypes, StepWatermarks
<1> QED
  BY <1>1, <1>2, <1>3, PTL DEF Spec, NothingOverlooked

-----------------------------------------------------------------------------
(* Accounts.  While a process is in its transaction nobody else commits, so *)
(* what it checked when it began still holds when it writes.                *)

Binding ==
    /\ OneAccount
    /\ \A p \in Procs :
           /\ snap[p].holds \subseteq {snap[p].account}
           /\ pc[p] = "commit" /\ ~Replaces(p) => Bound(p)

LEMMA InitBinding == Init => Binding
BY DEF Init, Binding, OneAccount, EmptyArchive, NoBackup, NoSnap

\* A step of p that commits nothing.
LEMMA BindingKept ==
    ASSUME TypeOK, Binding, NEW p \in Procs,
           UNCHANGED archive,
           backup'.holds \subseteq {backup'.account},
           \A q \in Procs \ {p} : pc'[q] = pc[q] /\ snap'[q] = snap[q],
           snap'[p].holds \subseteq {snap'[p].account},
           pc'[p] # "commit"
    PROVE  Binding'
BY DEF Binding, OneAccount, Bound, Replaces

LEMMA StepBinding ==
    ASSUME TypeOK, Binding, [Next]_vars
    PROVE  Binding'
<1>0. {"idle", "open", "age", "watermark", "rows", "discover", "start", "copy",
       "validate", "begin", "commit", "read", "publish", "fetch"} = Labels
  BY DEF Labels
<1>a. \A p \in Procs : snap[p].holds \subseteq {snap[p].account}
  BY DEF Binding
<1>b. backup.holds \subseteq {backup.account} /\ archive.holds \subseteq {archive.account}
  BY DEF Binding, OneAccount
<1>c. NoSnap.holds \subseteq {NoSnap.account}
  BY DEF NoSnap
<1>1. CASE UNCHANGED <<archive, backup, pc, snap>>
  BY <1>1 DEF Binding, OneAccount, Bound, Replaces
<1>2. ASSUME NEW p \in Procs, End(p), UNCHANGED <<archive, backup>> PROVE Binding'
  BY <1>2, <1>b, <1>c, EndEffect, BindingKept
<1>3. ASSUME NEW p \in Procs, UNCHANGED <<archive, backup, snap>>,
             NEW l \in Labels \ {"commit"}, Goto(p, l)
      PROVE  Binding'
  BY <1>3, <1>a, <1>b, GotoEffect, BindingKept
<1>4. ASSUME NEW p \in Procs, NEW s, UNCHANGED <<archive, backup>>,
             snap' = [snap EXCEPT ![p] = s], s.holds \subseteq {s.account},
             NEW l \in Labels \ {"commit"}, Goto(p, l)
      PROVE  Binding'
  <2>1. \A q \in Procs \ {p} : pc'[q] = pc[q] /\ snap'[q] = snap[q]
    BY <1>4, GotoEffect DEF TypeOK
  <2>2. snap'[p] = s /\ pc'[p] # "commit"
    BY <1>4, GotoEffect DEF TypeOK
  <2> QED
    BY <1>4, <1>b, <2>1, <2>2, BindingKept
<1>5. CASE SourceWrite \/ Age
  BY <1>1, <1>5 DEF SourceWrite, Age
<1>6. ASSUME NEW p \in Procs,
             \/ Start(p) \/ ReadAge(p) \/ ReadWatermark(p) \/ ReadRows(p)
             \/ Discover(p)
      PROVE  Binding'
  <2>1. \E l \in Labels \ {"commit"} : Goto(p, l)
    BY <1>0, <1>6 DEF Start, ReadAge, ReadWatermark, ReadRows, Discover
  <2>2. UNCHANGED <<archive, backup, snap>>
    BY <1>6 DEF Start, ReadAge, ReadWatermark, ReadRows, Discover
  <2> QED
    BY <2>1, <2>2, <1>3
<1>7. ASSUME NEW p \in Procs, Open(p) PROVE Binding'
  <2>1. Opened(p) \in Labels \ {"commit"}
    BY <1>0 DEF Opened
  <2> QED
    BY <1>7, <2>1, <1>3 DEF Open
<1>8. ASSUME NEW p \in Procs, Unavailable(p) \/ Validate(p) \/ Busy(p) \/ Stop(p)
      PROVE  Binding'
  <2>1. UNCHANGED <<archive, backup>>
    BY <1>8 DEF Unavailable, Validate, Busy, Stop
  <2>2. CASE Goto(p, "read") /\ UNCHANGED snap
    BY <1>0, <1>3, <2>1, <2>2
  <2>3. CASE Goto(p, "begin") /\ UNCHANGED snap
    BY <1>0, <1>3, <2>1, <2>3
  <2>4. CASE End(p)
    BY <1>2, <2>1, <2>4
  <2> QED
    BY <1>8, <2>2, <2>3, <2>4 DEF Unavailable, Validate, Busy, Stop
<1>9. ASSUME NEW p \in Procs, StartImport(p) PROVE Binding'
  <2> DEFINE s == [snap[p] EXCEPT !.at = clock]
  <2>1. s.holds \subseteq {s.account}
    BY <1>a DEF TypeOK
  <2>2. snap' = [snap EXCEPT ![p] = s] /\ Goto(p, "copy") /\ UNCHANGED <<archive, backup>>
    BY <1>9 DEF StartImport
  <2> HIDE DEF s
  <2> QED
    BY <1>0, <1>4, <2>1, <2>2
<1>10. ASSUME NEW p \in Procs, Copy(p) PROVE Binding'
  <2> DEFINE s == Capture(snap[p])
  <2>1. s.holds \subseteq {s.account}
    BY DEF Capture
  <2>2. snap' = [snap EXCEPT ![p] = s] /\ Goto(p, "validate") /\ UNCHANGED <<archive, backup>>
    BY <1>10 DEF Copy
  <2> HIDE DEF s
  <2> QED
    BY <1>0, <1>4, <2>1, <2>2
<1>11. ASSUME NEW p \in Procs, Begin(p) PROVE Binding'
  <2>1. UNCHANGED <<archive, backup>>
    BY <1>11 DEF Begin
  <2>2. CASE End(p)
    BY <1>2, <2>1, <2>2
  <2>3. CASE Admitted(p) /\ Goto(p, "commit") /\ UNCHANGED snap
    <3>1. /\ pc'[p] = "commit"
          /\ \A q \in Procs \ {p} : pc'[q] = pc[q]
      BY <1>0, <2>3, GotoEffect
    <3> QED
      BY <2>1, <2>3, <3>1 DEF Admitted, Binding, OneAccount, Bound, Replaces
  <2> QED
    BY <1>11, <2>2, <2>3 DEF Begin
<1>12. ASSUME NEW p \in Procs, Commit(p) PROVE Binding'
  <2>1. /\ archive'.account = snap[p].account
        /\ archive'.holds = IF Replaces(p) THEN snap[p].holds
                            ELSE archive.holds \cup snap[p].holds
        /\ backup' = backup
    BY <1>12 DEF Commit, Imported
  <2>2. archive'.holds \subseteq {archive'.account}
    <3>1. CASE Replaces(p)
      BY <1>a, <2>1, <3>1
    <3>2. CASE ~Replaces(p)
      <4>1. archive.account \in {None, snap[p].account}
        BY <1>12, <3>2 DEF Commit, Binding, Bound
      <4>2. archive.holds \subseteq Accounts /\ None \notin Accounts
        BY SyncAssumption DEF TypeOK
      <4>3. archive.holds \subseteq {snap[p].account}
        BY <1>b, <4>1, <4>2
      <4> QED
        BY <1>a, <2>1, <3>2, <4>3
    <3> QED
      BY <3>1, <3>2
  <2>3. /\ \A q \in Procs \ {p} : pc'[q] = pc[q] /\ snap'[q] = snap[q]
        /\ pc'[p] # "commit" /\ snap'[p] = NoSnap
    <3>1. CASE End(p)
      BY <3>1, EndEffect
    <3>2. CASE Goto(p, "read") /\ snap' = [snap EXCEPT ![p] = NoSnap]
      BY <1>0, <3>2, GotoEffect DEF TypeOK
    <3> QED
      BY <1>12, <3>1, <3>2 DEF Commit
  <2>4. \A q \in Procs : pc'[q] # "commit"
    <3>1. writer = p
      BY <1>12 DEF Commit, TypeOK
    <3> QED
      BY <2>3, <3>1 DEF TypeOK
  <2>5. \A q \in Procs : snap'[q].holds \subseteq {snap'[q].account}
    BY <1>a, <1>c, <2>3
  <2> QED
    BY <1>b, <2>1, <2>2, <2>4, <2>5 DEF Binding, OneAccount
<1>13. ASSUME NEW p \in Procs, Read(p) PROVE Binding'
  <2> DEFINE s == [at |-> 0, latest |-> archive.latest, rows |-> archive.events,
                   account |-> archive.account, holds |-> archive.holds]
  <2>1. s.holds \subseteq {s.account}
    BY <1>b
  <2>2. UNCHANGED <<archive, backup>>
    BY <1>13 DEF Read
  <2>3. CASE Goto(p, "publish") /\ snap' = [snap EXCEPT ![p] = s]
    <3> HIDE DEF s
    <3> QED BY <1>0, <1>4, <2>1, <2>2, <2>3
  <2> QED
    BY <1>2, <1>13, <2>2, <2>3 DEF Read
<1>14. ASSUME NEW p \in Procs, Publish(p) PROVE Binding'
  <2>1. backup'.holds \subseteq {backup'.account}
    BY <1>14, <1>a DEF Publish
  <2> QED
    BY <1>14, <1>c, <2>1, EndEffect, BindingKept DEF Publish
<1>15. ASSUME NEW p \in Procs, Fetch(p) PROVE Binding'
  <2> DEFINE s == [at |-> backup.exported, latest |-> backup.latest,
                   rows |-> backup.events, account |-> backup.account,
                   holds |-> backup.holds]
  <2>1. s.holds \subseteq {s.account}
    BY <1>b
  <2>2. UNCHANGED <<archive, backup>>
    BY <1>15 DEF Fetch
  <2>3. CASE Goto(p, "begin") /\ snap' = [snap EXCEPT ![p] = s]
    <3> HIDE DEF s
    <3> QED BY <1>0, <1>4, <2>1, <2>2, <2>3
  <2> QED
    BY <1>2, <1>15, <2>2, <2>3 DEF Fetch
<1> QED
  BY <1>1, <1>5, <1>6, <1>7, <1>8, <1>9, <1>10, <1>11, <1>12, <1>13, <1>14, <1>15
     DEF Next, Step, vars

\* Neither the archive nor a backup ever mixes the rows of two accounts,
\* whatever commands run at the same time.
THEOREM AccountsAreApart == Spec => []OneAccount
<1>1. Init => TypeOK /\ Binding
  BY InitTypes, InitBinding
<1>2. TypeOK /\ Binding /\ [Next]_vars => (TypeOK /\ Binding)'
  BY StepTypes, StepBinding
<1>3. Binding => OneAccount
  BY DEF Binding
<1> QED
  BY <1>1, <1>2, <1>3, PTL DEF Spec
=============================================================================
