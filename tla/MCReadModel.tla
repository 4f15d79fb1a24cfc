----------------------------- MODULE MCReadModel -----------------------------
(* Small instances of ReadModel for TLC.                                   *)
EXTENDS ReadModelInv, TLC

ActorSymmetry == Permutations(Ingests) \cup Permutations(Readers)
=============================================================================
