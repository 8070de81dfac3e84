----------------------------- MODULE BackupTree -----------------------------
(***************************************************************************)
(* Commits of a backup repository, and what makes one a complete encrypted *)
(* snapshot that changes nothing but backup artifacts.                     *)
(*                                                                         *)
(* A commit is known by its tree and by the tree of its first parent.  The *)
(* content of an artifact is the size of its ciphertext, 0 if there is no  *)
(* such file, or Plain for anything that is not a regular age file.        *)
(***************************************************************************)
EXTENDS Naturals

CONSTANTS
    Shards,       \* paths data/*.age: encrypted rows and media
    Plain         \* the content of a file that is no ciphertext

ASSUME PlainAssumption == Plain \notin Nat

Contents == Nat \cup {Plain}

\* "bad" is a manifest that publicationManifest cannot accept.
Manifest == [state : {"none", "good", "bad"}, size : [Shards -> Nat]]

NoManifest == [state |-> "none", size |-> [s \in Shards |-> 0]]

\* notes stands for the files of the repository that are no artifacts.
Tree == [readme : {"none", "ours", "theirs"}, manifest : Manifest,
         shards : [Shards -> Contents], notes : BOOLEAN]

EmptyTree == [readme |-> "none", manifest |-> NoManifest,
              shards |-> [s \in Shards |-> 0], notes |-> FALSE]

Authors == {"wacrawl", "hand", "other"}

\* by and at (how long the author's history was) make a commit unique.
Commit == [base : Tree, tree : Tree, merge : BOOLEAN, by : Authors, at : Nat]

Listed(m) == {s \in Shards : m.size[s] > 0}

\* Every artifact the manifest lists is there, with the size it records.
Complete(t) == \A s \in Listed(t.manifest) : t.shards[s] = t.manifest.size[s]

Sound(c) ==
    /\ ~c.merge
    /\ Complete(c.tree)
    /\ c.tree.manifest.state # "bad"
    /\ c.base.manifest.state = "good" => c.tree.manifest.state = "good"
    /\ c.tree.notes = c.base.notes
    /\ c.tree.readme \in {c.base.readme, "none", "ours"}
    /\ \A s \in Shards : c.tree.shards[s] \in
           {c.base.shards[s], 0, c.tree.manifest.size[s]}
=============================================================================
