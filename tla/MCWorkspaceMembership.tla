----------------------- MODULE MCWorkspaceMembership -----------------------
(***************************************************************************)
(* Small instances of WorkspaceMembership for TLC.                         *)
(***************************************************************************)
EXTENDS WorkspaceMembership, TLC

CONSTANTS u1, w1, w2, basic, extra, i1, i2, i3, r1, r2

IdSymmetry == Permutations(Requests) \cup Permutations(Invitations \ Imported)
=============================================================================
