--------------------------- MODULE MCUserAccount ---------------------------
(***************************************************************************)
(* Small instances of UserAccount for TLC.                                 *)
(***************************************************************************)
EXTENDS UserAccount, TLC

CONSTANTS k1, k2, alice, bob, i1, i2, r1, r2

OneName == [k \in KcIds |-> alice]
TwoNames == [k \in KcIds |-> IF k = k1 THEN alice ELSE bob]

\* Names tell the two accounts apart only by being equal or not.
IdSymmetry == Permutations(Ids) \cup Permutations(Requests) \cup Permutations(KcIds)
=============================================================================
