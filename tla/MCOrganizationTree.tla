------------------------- MODULE MCOrganizationTree -------------------------
EXTENDS OrganizationTree, TLC

CONSTANTS o1, o2, o3, o4, a, b, u1, r1, r2

\* A seed of one organization.
OneSeed == (<<1>> :> a)

\* A seed of two levels; the lower organization has the name of the upper one.
SameNames == (<<1>> :> a) @@ (<<1, 1>> :> a)

IdSymmetry == Permutations(Requests) \cup Permutations(Orgs)

=============================================================================
