--------------------------- MODULE MCMediaArchive ---------------------------
\* Commands for the model checking of MediaArchive.
EXTENDS MediaArchive, TLC

CONSTANTS p1, p2, p3, p4

\* Two imports, a push and a pull.
Commands == p1 :> "import" @@ p2 :> "import" @@ p3 :> "push" @@ p4 :> "pull"

\* Contents and attachments are only compared.
MediaSymmetry == Permutations(Bytes) \cup Permutations({p1, p2})
=============================================================================
