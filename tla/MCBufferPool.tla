---------------------------- MODULE MCBufferPool ----------------------------
EXTENDS BufferPool, TLC

CONSTANTS tab, idx, f1, f2, h1, h2

MCFd == {tab, idx}
MCRecordFd == {tab}
MCFrame == {f1, f2}
MCHandle == {h1, h2}
MCVal == {0, 1}

(* The table's descriptor is never reused, the index's once. *)
OpensOnce == [fd \in Fd |-> IF fd \in RecordFd THEN 1 ELSE 2]

(* Every descriptor is reused once. *)
OpensTwice == [fd \in Fd |-> 2]

Symmetry == Permutations(MCFrame) \cup Permutations(MCHandle)
=============================================================================
