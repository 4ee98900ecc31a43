----------------------------- MODULE MCLiveMicro -----------------------------
(* Small instances of LiveMicro: the constants are given in the .cfg files.  *)
EXTENDS LiveMicro, TLC

\* No definition tells one product from another.
ProductSymmetry == Permutations(Product)
=============================================================================
