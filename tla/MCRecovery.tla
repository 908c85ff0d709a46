----------------------------- MODULE MCRecovery -----------------------------
EXTENDS Recovery

CONSTANTS u, v

MCVal == {u, v}

Contents == Permutations(MCVal)
=============================================================================
