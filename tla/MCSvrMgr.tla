------------------------------ MODULE MCSvrMgr ------------------------------
\* Symmetry for TLC: no definition of SvrMgr tells handles or callers apart.
EXTENDS SvrMgr

Symmetric == Permutations(Handles) \cup Permutations(Callers)

=============================================================================
