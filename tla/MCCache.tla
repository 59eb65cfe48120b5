------------------------------ MODULE MCCache ------------------------------
EXTENDS CachingResourceLoader, TLC
MCSizeOf(k) == IF k = Track THEN 2 ELSE 1
Calm == ~history.disturbed
Symmetric == Permutations(Tasks)
=============================================================================
