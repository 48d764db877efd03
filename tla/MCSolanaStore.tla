---------------------------- MODULE MCSolanaStore ----------------------------
(* Sizes on both sides of every threshold of calculateRequiredAccountSpace.  *)
EXTENDS SolanaStore

MCSizes == {1, 1000, 1001, 10000, 10001, 10007, 12001}
=============================================================================
