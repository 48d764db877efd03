--------------------------- MODULE MCWalletLogin ----------------------------
\* The login model for TLC.
EXTENDS WalletLogin
=============================================================================
