------------------------------ MODULE MCGapLock ------------------------------
(* Keys of two base-4 digits: -8..7.  The chosen keys have images with and  *)
(* without zero bytes, and low bytes that read as a sign when misplaced.    *)
EXTENDS GapLock, TLC

Symmetry == Permutations(Txn)
=============================================================================
