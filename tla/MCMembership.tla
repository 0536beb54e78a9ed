---------------------------- MODULE MCMembership ----------------------------
EXTENDS Membership, TLC

\* Users, keys and requests are interchangeable.
Symmetry == Permutations(Users) \cup Permutations(MemberIds) \cup Permutations(Requests)
=============================================================================
