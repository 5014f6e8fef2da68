---------------------------- MODULE MCPasswords ----------------------------
(* Instances of Passwords for TLC. *)
EXTENDS Passwords, TLC

\* Requests are interchangeable.
Symmetry == Permutations(Requests)
=============================================================================
