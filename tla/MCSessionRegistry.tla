-------------------------- MODULE MCSessionRegistry --------------------------
(* Instances of SessionRegistry for TLC. *)
EXTENDS SessionRegistry, TLC

\* The specification treats identities alike and connections alike.
Symmetry == Permutations(Users) \cup Permutations(Sessions)
==============================================================================
