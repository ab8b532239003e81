------------------------------ MODULE MCServer ------------------------------
(***************************************************************************)
(* Model checking of McstasServer.  The traffic of each run is in its      *)
(* .cfg; the hashes are interchangeable in the safety runs.                *)
(***************************************************************************)
EXTENDS ServerRefines, ServerInvariant, TLC

HashSymmetry == Permutations(Hash)
=============================================================================
