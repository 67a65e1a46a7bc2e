--------------------------- MODULE MCQueryBroker ---------------------------
\* QueryBroker for TLC: calls, users and SQL texts are interchangeable.
EXTENDS QueryBroker, TLC

Symmetry == Permutations(Request) \cup Permutations(User) \cup Permutations(Query)
=============================================================================
