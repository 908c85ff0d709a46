---------------------------- MODULE MCRecordFile ----------------------------
EXTENDS RecordFile

CONSTANTS t1, t2, t3

MCTxn == {t1, t2, t3}
Symmetry == Permutations(MCTxn)
=============================================================================
