----------------------------- MODULE MCLiveSearch -----------------------------
(* Small instances of LiveSearch for TLC.                                  *)
EXTENDS LiveSearchInv, TLC

SearchSymmetry == Permutations(Searches)
=============================================================================
