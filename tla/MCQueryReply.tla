---------------------------- MODULE MCQueryReply ----------------------------
(* Small instances of QueryReply for TLC.                                  *)
EXTENDS QueryReply
==============================================================================
