---------------------------- MODULE MCTheoryExam ----------------------------
(* Two tabs of one player and two admins; the paper is saved twice.          *)
EXTENDS TheoryExam, TLC

CONSTANTS t1, t2, root, ops, right, i1, i2, i3

Symmetry == Permutations(Tabs) \cup Permutations(RowIds) \cup Permutations(Admins)
=============================================================================
