------------------------------ MODULE MCJsonDb ------------------------------
\* Small instances of the merchant's database for TLC.
EXTENDS JsonDb, TLC

CONSTANTS t1, t2, k1, k2, k3

MCSymmetry == Permutations({t1, t2}) \cup Permutations({k1, k2, k3})
=============================================================================
