--------------------------- MODULE MCClientThreads ---------------------------
(* Small instances of ClientThreads for TLC.  Program threads are alike and meet    *)
(* only where they enter the critical section, so a second one would add nothing    *)
(* but its name as the owner.                                                       *)
EXTENDS ClientThreads

CONSTANTS u1, r1, r2

MCUsers == {u1}
MCReaders == {r1, r2}
==============================================================================
