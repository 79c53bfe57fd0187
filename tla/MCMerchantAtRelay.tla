------------------------- MODULE MCMerchantAtRelay -------------------------
\* Small instances of the merchant at the relay for TLC.
EXTENDS MerchantAtRelay
=============================================================================
