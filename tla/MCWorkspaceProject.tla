------------------------- MODULE MCWorkspaceProject -------------------------
(***************************************************************************)
(* Small instances of WorkspaceProject for TLC.                            *)
(***************************************************************************)
EXTENDS WorkspaceProject, TLC

CONSTANTS p1, p2, p3, n1, n2, r1, r2

\* One workspace at first, the default, or one of each name, or none.
DefaultFirst == [w \in Workspaces |-> IF w = 1 THEN "default" ELSE "unborn"]
BothFirst == [w \in Workspaces |->
                IF w = 1 THEN "default" ELSE IF w = 2 THEN "other" ELSE "unborn"]
NoneFirst == [w \in Workspaces |-> "unborn"]

\* Ids are interchangeable, except those of workspaces (the first is found).
IdSymmetry == Permutations(Projects) \cup Permutations(Requests) \cup Permutations(Namespaces)
=============================================================================
