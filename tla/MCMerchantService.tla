------------------------- MODULE MCMerchantService -------------------------
\* Small instances of the merchant for TLC.
EXTENDS MerchantService, TLC

CONSTANTS t1, t2, k1, k2

MCSymmetry == Permutations({t1, t2}) \cup Permutations({k1, k2})

Checks(path, txids, scripts) == [path |-> path, txids |-> txids, scripts |-> scripts]

\* Good data with and without a path.
MCPathData == {Checks(TRUE, "match", TRUE), Checks(FALSE, "match", TRUE)}

\* Data that passes every check.
MCGoodData == {Checks(TRUE, "match", TRUE)}
=============================================================================
