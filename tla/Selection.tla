------------------------------ MODULE Selection ------------------------------
(***************************************************************************)
(* The array filter of the program (events.filter, mutations.filter): the  *)
(* elements of a sequence at some positions, in the order of the sequence. *)
(* It is written as a recursive function, so that SelectionProofs can say  *)
(* what it returns for every sequence; of SelectSeq, which is built in, no *)
(* prover knows anything.                                                  *)
(***************************************************************************)
EXTENDS Integers, Sequences

\* For each n the elements among the first n.
Taken(s, positions) ==
    LET take[n \in 0..Len(s)] ==
            IF n = 0 THEN <<>>
            ELSE IF n \in positions THEN Append(take[n - 1], s[n]) ELSE take[n - 1]
    IN  take

Selection(s, positions) == Taken(s, positions)[Len(s)]
==============================================================================
