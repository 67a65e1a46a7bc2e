--------------------------- MODULE MCSchemaStore ---------------------------
(* Small instances of SchemaStore for TLC. *)
EXTENDS SchemaStore, TLC

Symmetry == Permutations(Request) \cup Permutations(Name) \cup Permutations(Type)
=============================================================================
