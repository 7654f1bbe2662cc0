---- MODULE MCIngestion ----
EXTENDS Ingestion, TLC
CONSTANTS p1, p2, a, b
MCPollers == {p1, p2}
MCUserNames == {a, b}
MCFileName == [f \in DriveFiles |-> "gdrive"]
MCFileContent == [f \in DriveFiles |-> IF f = "f1" THEN "c1" ELSE "c2"]
Symmetry == Permutations(MCPollers) \cup Permutations(MCUserNames)
====
