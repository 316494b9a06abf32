---------------------------- MODULE MCLiveMerge ----------------------------
(***************************************************************************)
(* Pairs of files: streams in step, one that ends early, one that starts   *)
(* late, one that is empty, gaps in both, lines that do not parse, and one *)
(* long enough to fill its channel while the other waits at the barrier.   *)
(***************************************************************************)
EXTENDS LiveMerge

L(h) == [h |-> h, ok |-> TRUE]
X(h) == [h |-> h, ok |-> FALSE]
Pair(s, d) == [i \in Stream |-> IF i = 0 THEN s ELSE d]

MCFiles == {Pair(<<L(1), L(2), L(3)>>, <<L(1), L(2)>>),
            Pair(<<L(1), L(2), L(3)>>, <<L(1)>>),
            Pair(<<L(1), L(3)>>, <<L(1), L(3), L(4), L(5)>>),
            Pair(<<L(3)>>, <<L(1), L(2), L(3)>>),
            Pair(<<L(1), L(3)>>, <<>>),
            Pair(<<L(1), X(2), L(3)>>, <<L(2), L(3)>>),
            Pair(<<L(2)>>, <<X(1), L(2), L(3)>>)}
=============================================================================
