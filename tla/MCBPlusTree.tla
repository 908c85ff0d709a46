----------------------------- MODULE MCBPlusTree -----------------------------
(* The smallest order a page gives.  The first 22 keys make a tree of      *)
(* three levels, in either order; the others merge and split its leaves    *)
(* and inner nodes at the left end, in the middle and at the right end.    *)
EXTENDS BPlusTree

Up == [i \in 1 .. 22 |-> 10 * i]
MCLoads == {Up, Reverse(Up)}
MCKey == {1, 2, 3, 4, 10, 100, 150}
=============================================================================
