---------------------------- MODULE ProposalLoop ----------------------------
(***************************************************************************)
(* Peer::GetProposal iteration by iteration, on any deque, sorted or not.  *)
(* It shows that ProposalQueue!GetProposal, which Peer takes as one step,  *)
(* is what the loop computes.                                              *)
(***************************************************************************)
EXTENDS ProposalQueue

CONSTANTS Waiter,   \* the requests whose closures wait
          Deques,   \* the deques the loop is run on
          Places    \* the (index, term) pairs of the entries looked up

ASSUME WaiterAssumption == NoReq \notin Waiter
ASSUME PlaceAssumption == Places \subseteq [index : Nat, term : Nat]
ASSUME DequeAssumption == Deques \subseteq Seq([index : Nat, term : Nat, req : Waiter])

VARIABLES
    before,     \* proposals_ when the loop is entered
    entry,      \* the arguments: index and term of the committed entry
    proposals,  \* proposals_
    answered,   \* the requests done->Run() was called for, in order
    ret,        \* the ProposalPtr returned
    returned

vars == <<before, entry, proposals, answered, ret, returned>>

Init ==
    /\ before \in Deques /\ entry \in Places
    /\ proposals = before
    /\ answered = << >> /\ ret = NoReq /\ returned = FALSE

Return(r) == ret' = r /\ returned' = TRUE

\* while (!proposals_.empty()) falls through to return nullptr.
Exhausted ==
    /\ proposals = << >>
    /\ Return(NoReq)
    /\ UNCHANGED <<proposals, answered>>

\* Faulty variant: the proposal is returned and stays in the deque.
FoundNotPopped ==
    /\ proposals # << >>
    /\ LET p == Head(proposals)
       IN  entry.term = p.term /\ entry.index = p.index /\ Return(p.req)
    /\ UNCHANGED <<proposals, answered>>

\* The entry's own proposal is popped and returned.
Found ==
    /\ proposals # << >>
    /\ LET p == Head(proposals)
       IN  entry.term = p.term /\ entry.index = p.index /\ Return(p.req)
    /\ proposals' = Tail(proposals)
    /\ UNCHANGED answered

\* Faulty variant: index < p->index is not a case of its own.
AheadByTerm ==
    /\ proposals # << >>
    /\ entry.term < Head(proposals).term
    /\ Return(NoReq)
    /\ UNCHANGED <<proposals, answered>>

\* The head waits for a later entry: return nullptr.
Ahead ==
    /\ proposals # << >>
    /\ LET p == Head(proposals)
       IN  \/ entry.term = p.term /\ entry.index < p.index
           \/ entry.term < p.term
    /\ Return(NoReq)
    /\ UNCHANGED <<proposals, answered>>

\* Faulty variant: a proposal behind the entry is popped without an answer.
BehindUnanswered ==
    /\ proposals # << >>
    /\ Stale(Head(proposals), entry.index, entry.term)
    /\ proposals' = Tail(proposals)
    /\ UNCHANGED <<answered, ret, returned>>

\* The head is behind the entry: popped, rejected, and round again.
Behind ==
    /\ proposals # << >>
    /\ LET p == Head(proposals)
       IN  \/ entry.term = p.term /\ entry.index > p.index
           \/ entry.term > p.term
    /\ proposals' = Tail(proposals)
    /\ answered' = Append(answered, Head(proposals).req)
    /\ UNCHANGED <<ret, returned>>

Next ==
    /\ ~returned
    /\ Exhausted \/ Found \/ Ahead \/ Behind
    /\ UNCHANGED <<before, entry>>

Spec == Init /\ [][Next]_vars /\ WF_vars(Next)

-----------------------------------------------------------------------------
\* What the loop has popped is a prefix of the deque, and every proposal of it
\* but the one returned had its closure run, once and in order.
PopsInOrder ==
    LET popped == Len(before) - Len(proposals)
    IN  /\ proposals = SubSeq(before, popped + 1, Len(before))
        /\ Len(answered) = IF ret = NoReq THEN popped ELSE popped - 1
        /\ \A j \in 1..Len(answered) : answered[j] = before[j].req

\* The loop returns what GetProposal says: the same proposal, the same clients
\* rejected, the same deque left, for every deque and every entry.
ReturnsGetProposal ==
    returned =>
        LET g == GetProposal(before, entry.index, entry.term)
        IN  /\ ret = g.hit
            /\ {answered[j] : j \in 1..Len(answered)} = g.rejected
            /\ proposals = g.rest

\* The loop ends: one of its cases applies to every head.
LoopEnds == <>returned
=============================================================================
