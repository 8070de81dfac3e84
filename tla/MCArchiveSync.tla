---------------------------- MODULE MCArchiveSync ----------------------------
(* Processes for the model checking of ArchiveSync. *)
EXTENDS ArchiveSync, TLC

CONSTANTS p1, p2, p3, a, b

\* An automatic and a forced sync beside a restore.
Restorers == (p1 :> "read") @@ (p2 :> "restore") @@ (p3 :> "always")

\* Restores, pushes and pulls.
Backups == (p1 :> "restore") @@ (p2 :> "push") @@ (p3 :> "pull")

\* An automatic read beside a push and a pull.
Pullers == (p1 :> "read") @@ (p2 :> "push") @@ (p3 :> "pull")

\* Accounts are only compared; processes are told apart by their commands.
AccountSymmetry == Permutations({a, b})
=============================================================================
