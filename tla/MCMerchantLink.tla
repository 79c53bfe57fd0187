--------------------------- MODULE MCMerchantLink ---------------------------
\* Small instances of the merchant's connection for TLC.
EXTENDS MerchantLink
=============================================================================
