-------------------------- MODULE MCWalletIssuance --------------------------
\* The wallet server on small instances.
EXTENDS WalletIssuance
=============================================================================
