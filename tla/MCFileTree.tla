------------------------------ MODULE MCFileTree ------------------------------
(* Instances of FileTree for TLC.                                          *)
EXTENDS FileTree, TLC

CONSTANTS d1, d2, f1, f2, top

MCFile == {f1, f2}
MCDir == {d1}
MCTwoDirs == {d1, d2}
MCParent == [p \in MCFile |-> IF p = f1 THEN d1 ELSE top]
MCOwnDir == [p \in MCFile |-> IF p = f1 THEN d1 ELSE d2]
MCFlat == [p \in MCFile |-> top]
MCRank == [p \in Path |-> CASE p = f1 -> 1 [] p = f2 -> 2 [] p = d1 -> 3 [] p = d2 -> 4]
MCFileTarget == {{f1}, {f2}}
MCTarget == {{d1, f1}, {f2}}
MCNoBase == {-1}
MCBase == {-1, 1}

Symmetry == Permutations(Tx)
================================================================================
