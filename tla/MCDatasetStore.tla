---------------------------- MODULE MCDatasetStore ----------------------------
(* Small instances of DatasetStore for TLC.                                *)
EXTENDS DatasetStoreInv, TLC

ThreadSymmetry == Permutations(Ingests) \cup Permutations(Readers)
=============================================================================
