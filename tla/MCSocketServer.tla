--------------------------- MODULE MCSocketServer ---------------------------
\* Model values for the sockets of the relay server.
EXTENDS SocketServer

CONSTANTS c1, c2
=============================================================================
