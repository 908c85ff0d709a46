---------------------------- MODULE MCStatements ----------------------------
EXTENDS Statements

CONSTANTS t1, t2, v1, v2

MCTxn == {t1, t2}
MCVal == {v1, v2}
Symmetry == Permutations(MCTxn) \cup Permutations(MCVal)
=============================================================================
