---------------------------- MODULE MCTokenAuth ----------------------------
(* Instances of TokenAuth for TLC. *)
EXTENDS TokenAuth, TLC

\* Connections, callers and requests are interchangeable.
Symmetry == Permutations(Conns) \cup Permutations(Auths) \cup Permutations(Admins)
=============================================================================
