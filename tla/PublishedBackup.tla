-------------------------- MODULE PublishedBackup --------------------------
(***************************************************************************)
(* What a backup repository promises those who clone it: its history only  *)
(* grows, and a commit that was published by backup push is a complete     *)
(* encrypted snapshot that changes nothing but backup artifacts.           *)
(***************************************************************************)
EXTENDS BackupTree, Sequences

VARIABLES
    remote,       \* the commits of the remote's branch, oldest first
    vouched       \* the positions of those that backup push has published

Grows ==
    /\ remote' \in Seq(Commit) /\ Len(remote) < Len(remote')
    /\ \A i \in 1 .. Len(remote) : remote'[i] = remote[i]

Added == Len(remote) + 1 .. Len(remote')

Init == remote = <<>> /\ vouched = {}

\* A push of wacrawl vouches for all it adds.
Publish ==
    /\ Grows
    /\ \A i \in Added : Sound(remote'[i])
    /\ vouched' = vouched \cup Added

\* Anyone else with access to the repository.
Contribute == Grows /\ vouched' = vouched

Next == Publish \/ Contribute

Spec == Init /\ [][Next]_<<remote, vouched>>

-----------------------------------------------------------------------------
\* What was vouched for stays sound and in place: a restore of any snapshot
\* that backup push ever published finds all its shards.
VouchedAreSound == \A i \in vouched : i \in DOMAIN remote /\ Sound(remote[i])
=============================================================================
