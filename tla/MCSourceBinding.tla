--------------------------- MODULE MCSourceBinding ---------------------------
\* Accounts and messages for the model checking of SourceBinding.
EXTENDS SourceBinding, TLC

CONSTANTS a, b, legacy, in_a, out_a, in_b

\* An identifier that an earlier version took for account a.
Persons == a :> a @@ b :> b @@ legacy :> a

\* Received and sent messages.
Owners == in_a :> a @@ out_a :> a @@ in_b :> b

BindingSymmetry == Permutations(Stores) \cup Permutations(Paths)
=============================================================================
