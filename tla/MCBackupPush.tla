---------------------------- MODULE MCBackupPush ----------------------------
\* Instances of BackupPush: one shard of rows and one that comes and goes, as
\* months of messages and media do.
EXTENDS BackupPush, TLC

CONSTANTS rows, media

Snapshots == {rows :> 1 @@ media :> 1, rows :> 2 @@ media :> 0}
=============================================================================
