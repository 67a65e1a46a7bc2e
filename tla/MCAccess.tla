------------------------------ MODULE MCAccess ------------------------------
\* Access for TLC: passwords are interchangeable.
EXTENDS Access, TLC

Symmetry == Permutations(Password)
=============================================================================
