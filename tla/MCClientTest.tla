------------------------------ MODULE MCClientTest ------------------------------
(* A client that may start the proxy twice.                                 *)
EXTENDS ClientTest, TLC

CONSTANTS r1, r2

Two == Permutations({r1, r2})
===============================================================================
