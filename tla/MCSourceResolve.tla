--------------------------- MODULE MCSourceResolve ---------------------------
(* Messages for the model checking of SourceResolve. *)
EXTENDS SourceResolve, TLC

CONSTANTS s1, s2, r1, r2, lid, pn, part

\* One message known by LID and by number, and one with a field missing.
Numbers == [c \in Cores |-> IF c = lid THEN pn ELSE c]

D(c, ty) == [core |-> c, type |-> ty]

\* Attachments, reactions and a missing field.
Reused == {D(pn, "plain"), D(pn, "media"), D(pn, "reaction"), D(part, "plain")}

\* Links between a LID and a number.
Linked == {D(pn, "plain"), D(lid, "plain"), D(part, "plain")}

\* One message whose attachment may change.
Attached == {D(pn, "plain"), D(pn, "media")}

SomeWorlds == {[discs |-> Reused, removals |-> FALSE],
               [discs |-> Linked, removals |-> FALSE],
               [discs |-> Attached, removals |-> TRUE]}

SourceSymmetry == Permutations(Stores) \cup Permutations(Rows)
=============================================================================
