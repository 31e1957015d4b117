-------------------------- MODULE MCStoreLifecycle --------------------------
(***************************************************************************)
(* Small instances of StoreLifecycle.                                      *)
(***************************************************************************)
EXTENDS StoreLifecycle, TLC

CONSTANTS p1, p2

MCProcs == {p1, p2}
Symmetry == Permutations(MCProcs)

AllTables == ToSet(Tables)

\* A new file; a file from before the cursors and the upgraded columns; one
\* that lacks a column an index needs; one that lacks a column none needs.
MCOldSchemas == {
    [tables |-> {}, missing |-> {}],
    [tables |-> AllTables \ {"memory_consolidation_cursors"}, missing |-> ToSet(Upgrades)],
    [tables |-> AllTables, missing |-> {Column("memory_entities", "active")}],
    [tables |-> AllTables, missing |-> {Column("memory_relations", "metadata_json")}] }
=============================================================================
