------------------------------- MODULE MCServer -------------------------------
EXTENDS ServerLoop, TLC

\* No step tells one client from another.
ClientSymmetry == Permutations(Clients)
=============================================================================
