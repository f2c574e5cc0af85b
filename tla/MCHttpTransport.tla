---------------------------- MODULE MCHttpTransport ----------------------------
(* A client that posts, and is answered at once or with a stream.           *)
EXTENDS HttpTransport

CONSTANTS client

Posts == [r \in Requests |-> "post"]
Either == [r \in Requests |-> {"whole", "stream"}]

\* Half of a blank line of either kind, and the other half with a whole event after
\* it: a blank line may be cut by the end of a chunk, and a chunk may end two events.
Pieces == {<<"x", "n">>, <<"r", "n">>, <<"n", "x", "n", "n">>}
===============================================================================
