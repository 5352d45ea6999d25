---------------------------- MODULE MCDsmSession ----------------------------
(* Instances of DsmSession for TLC. *)
EXTENDS DsmSession, TLC

Symmetry == Permutations(Handlers)

=============================================================================
