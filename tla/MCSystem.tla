------------------------------ MODULE MCSystem ------------------------------
(***************************************************************************)
(* Model checking of McstasSystem.                                         *)
(***************************************************************************)
EXTENDS McstasSystem, ServerRefines, TLC

SystemSymmetry == Permutations(Hash) \cup Permutations(Client)
=============================================================================
