-------------------------- MODULE MCOrgMembership --------------------------
(* Instances of OrgMembership for TLC. *)
EXTENDS OrgMembership, TLC

\* Users and requests are interchangeable.
Symmetry == Permutations(Users) \cup Permutations(Requests)
=============================================================================
