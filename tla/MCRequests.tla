----------------------------- MODULE MCRequests -----------------------------
(* A small instance of Requests for TLC. *)
EXTENDS Requests

\* Both sides of each version the code tests for.
MCServers == {38, 39, 40, 41, 42, 44, 45, 46, 47, 49, 50, 51, 52, 53, 54, 55, 56, 57, 58,
              60, 61, 62, 66, 67, 68, 69, 70, 71}
==============================================================================
