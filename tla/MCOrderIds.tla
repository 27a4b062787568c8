----------------------------- MODULE MCOrderIds -----------------------------
(* Small instances of OrderIds for TLC.                                    *)
EXTENDS OrderIds
==============================================================================
