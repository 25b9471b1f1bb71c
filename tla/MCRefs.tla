------------------------------- MODULE MCRefs -------------------------------
(***************************************************************************)
(* Values and symmetry for model-checking Refs.                            *)
(***************************************************************************)
EXTENDS RefsInvariant, TLC

(***************************************************************************)
(* Names are only compared for equality: permuting them changes nothing.   *)
(* Runs that check liveness do not use this set.                           *)
(***************************************************************************)
NameSymmetry == Permutations(Names)
=============================================================================
