----------------------------- MODULE MCHostedStore -----------------------------
(* Few clients of a hosted service with the files of three earlier runs.   *)
EXTENDS HostedStore

CONSTANTS u, d, g, l

\* Ids in the order of their names: 2, 3 and 4 are there, 1 is uploaded.
Files == 1..4

Asks(kind) == [kind |-> kind, id |-> 1]

FourClients ==
    [r \in {u, d, g, l} |->
        Asks(CASE r = u -> "upload" [] r = d -> "delete" [] r = g -> "get" [] r = l -> "list")]
===============================================================================
