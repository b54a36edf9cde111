--------------------------- MODULE MCProposalLoop ---------------------------
(* Every deque of at most MaxLen proposals over MaxTerm terms and MaxIndex *)
(* indexes, in any order, for every entry.                                 *)
EXTENDS ProposalLoop

CONSTANTS MaxLen, MaxIndex, MaxTerm

MCPlaces == [index : 1..MaxIndex, term : 1..MaxTerm]

MCWaiter == 1..MaxLen

\* The proposals of a deque belong to different requests, here their ordinals.
MCDeques ==
    UNION {{[j \in 1..n |-> [index |-> f[j].index, term |-> f[j].term, req |-> j]] :
               f \in [1..n -> MCPlaces]} : n \in 0..MaxLen}
=============================================================================
