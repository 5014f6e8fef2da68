---------------------------- MODULE MCEmailCodes ----------------------------
(* Instances of EmailCodes for TLC. *)
EXTENDS EmailCodes, TLC

\* Requests are interchangeable.
Symmetry == Permutations(Requests)
=============================================================================
