---------------------------- MODULE MCClientApp ----------------------------
\* Small instances of the client for TLC.
EXTENDS ClientApp
=============================================================================
