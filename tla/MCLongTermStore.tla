-------------------------- MODULE MCLongTermStore --------------------------
(***************************************************************************)
(* Small instances of LongTermStore.                                       *)
(***************************************************************************)
EXTENDS LongTermStore, TLC

CONSTANTS e1, e2

Triple(from, type, to) == [from |-> from, type |-> type, to |-> to]

\* A "supersedes" cycle, an entity that supersedes itself, one replaced by
\* nobody, another relation.
MCTriples == {Triple(e1, Supersedes, e2), Triple(e2, Supersedes, e1),
              Triple(e1, Supersedes, e1), Triple(EmptyId, Supersedes, e2),
              Triple(e1, "prefers", EmptyId)}

\* Two relations are enough for the runs that look for one behaviour.
FewTriples == {Triple(e1, Supersedes, e2), Triple(e1, "prefers", e2)}

\* Agents and names are told apart by nothing but their rows.
Symmetry == Permutations(Agents) \cup Permutations(Names)
=============================================================================
