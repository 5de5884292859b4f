----------------------------- MODULE MCKvTester -----------------------------
(* Instances of KvTester for TLC.                                          *)
EXTENDS KvTester
=============================================================================
