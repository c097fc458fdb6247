---------------------------- MODULE MCOpoScopes -----------------------------
(* Small tables and sets of programs for OpoScopes. *)
EXTENDS OpoScopes, TLC

\* nothing compiled before, or a function with locals of every name
Fresh == [i \in Slots |-> Unwritten]
Used(x) == [i \in Slots |-> Local(x, "any")]
FreshOrUsed == {Fresh} \cup {Used(x) : x \in Names}

\* everything that leads no name astray, where types do not matter; and types,
\* in programs that the compiler judges right
Passing == {
    [features |-> AllFeatures \ (Misleads \cup {"nested_jump"}), types |-> {"any"}],
    [features |-> {}, types |-> {"fun", "opt"}]}

Alike == Permutations(Names)
=============================================================================
