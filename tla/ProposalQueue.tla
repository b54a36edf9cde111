--------------------------- MODULE ProposalQueue ---------------------------
(***************************************************************************)
(* Peer::proposals_, the deque of client operations a leader has handed to *)
(* RawNode::Propose and not yet answered, and the two ways it is emptied   *)
(* when a committed entry is processed.  A proposal is a record            *)
(* [index, term, req]: where the entry was expected to land, and whose     *)
(* closure waits.                                                          *)
(***************************************************************************)
EXTENDS Naturals, Sequences

CONSTANT NoReq   \* the null ProposalPtr

\* Faulty variant: the proposal of the entry itself counts as behind it.
StaleOrEqual(p, index, term) ==
    \/ term > p.term
    \/ term = p.term /\ index >= p.index

\* The head p is behind the committed entry (index, term): popped, rejected.
Stale(p, index, term) ==
    \/ term > p.term
    \/ term = p.term /\ index > p.index

\* How many proposals the while loop of GetProposal pops and rejects before
\* it meets one that is not behind the entry, or the end of the deque.
StaleCount(q, index, term) ==
    CHOOSE n \in 0..Len(q) :
        /\ \A j \in 1..n : Stale(q[j], index, term)
        /\ n < Len(q) => ~Stale(q[n + 1], index, term)

\* Does the loop end by returning the proposal of this very entry?
Matches(q, index, term) ==
    LET n == StaleCount(q, index, term)
    IN  n < Len(q) /\ q[n + 1].index = index /\ q[n + 1].term = term

\* Faulty variant: what is behind the entry is popped and not answered.
GetProposalSilent(q, index, term) ==
    LET n == StaleCount(q, index, term)
        found == Matches(q, index, term)
    IN  [hit      |-> IF found THEN q[n + 1].req ELSE NoReq,
         rejected |-> {},
         rest     |-> SubSeq(q, IF found THEN n + 2 ELSE n + 1, Len(q))]

\* Peer::GetProposal: the proposal found (its request, or NoReq), the requests
\* rejected on the way, and the deque that is left.
GetProposal(q, index, term) ==
    LET n == StaleCount(q, index, term)
        found == Matches(q, index, term)
    IN  [hit      |-> IF found THEN q[n + 1].req ELSE NoReq,
         rejected |-> {q[j].req : j \in 1..n},
         rest     |-> SubSeq(q, IF found THEN n + 2 ELSE n + 1, Len(q))]

\* Faulty variants: proposals_.clear() is forgotten, and a peer that does not
\* lead leaves its proposals alone.
CallbackAllKeeping(q) ==
    [hit |-> NoReq, rejected |-> {q[j].req : j \in 1..Len(q)}, rest |-> q]
CallbackNone(q) ==
    [hit |-> NoReq, rejected |-> {}, rest |-> q]

\* Peer::CallbackAll: a peer that does not lead rejects everything.
CallbackAll(q) ==
    [hit      |-> NoReq,
     rejected |-> {q[j].req : j \in 1..Len(q)},
     rest     |-> << >>]
=============================================================================
