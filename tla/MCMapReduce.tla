---------------------------- MODULE MCMapReduce ----------------------------
(* Instances of MapReduce for TLC.                                         *)
EXTENDS MapReduce, TLC

\* three words; those with the same hash are in the same part
TwoFiles == <<<<"a", "b", "a">>, <<"b", "c">>>>
Hash == [w \in {"a", "b", "c", "d"} |-> IF w = "c" THEN 5 ELSE 2]

OneFile == <<<<"a">>>>

Symmetry == Permutations(Worker)
============================================================================
