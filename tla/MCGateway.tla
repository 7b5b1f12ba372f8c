----------------------------- MODULE MCGateway ------------------------------
\* Two requests, of one client or of two, over two starts of the process.
EXTENDS Gateway
=============================================================================
