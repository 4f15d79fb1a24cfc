---------------------------- MODULE MCJobReceipts ----------------------------
(* Small instances of JobReceipts for TLC.                                 *)
EXTENDS JobReceiptsInv, TLC

JobSymmetry == Permutations(Ingests)
=============================================================================
