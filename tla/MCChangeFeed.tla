---------------------------- MODULE MCChangeFeed ----------------------------
(* Small instances of ChangeFeed for TLC.                                  *)
EXTENDS ChangeFeed, TLC
=============================================================================
