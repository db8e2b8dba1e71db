------------------------------ MODULE MCAccess ------------------------------
\* Access for users and organizations that nothing but their names tells apart.
EXTENDS Access, TLC

Symmetry == Permutations(Users) \cup Permutations(Orgs)
=============================================================================
