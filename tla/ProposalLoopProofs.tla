------------------------- MODULE ProposalLoopProofs -------------------------
(***************************************************************************)
(* The loop of Peer::GetProposal computes ProposalQueue!GetProposal, for   *)
(* deques of any length.                                                   *)
(***************************************************************************)
EXTENDS ProposalLoop, ProposalQueueProofs

P == [index : Nat, term : Nat, req : Waiter]

a == Len(answered)

SamePlace(p) == p.index = entry.index /\ p.term = entry.term

\* After a rejections the first a proposals were behind the entry and the loop
\* looks at what follows them.
LoopInv ==
    /\ before \in Deques /\ entry \in Places
    /\ answered \in Seq(Waiter)
    /\ a <= Len(before)
    /\ \A j \in 1..a : answered[j] = before[j].req
    /\ \A j \in 1..a : Stale(before[j], entry.index, entry.term)
    /\ returned \in BOOLEAN
    /\ ~returned => ret = NoReq /\ proposals = SubSeq(before, a + 1, Len(before))
    /\ returned =>
         \/ /\ ret = NoReq /\ proposals = SubSeq(before, a + 1, Len(before))
            /\ a < Len(before) => /\ ~Stale(before[a + 1], entry.index, entry.term)
                                  /\ ~SamePlace(before[a + 1])
         \/ /\ a < Len(before) /\ SamePlace(before[a + 1])
            /\ ret = before[a + 1].req
            /\ proposals = SubSeq(before, a + 2, Len(before))

\* The shape of a deque and of an entry.
LEMMA Shapes ==
    ASSUME before \in Deques, entry \in Places
    PROVE  /\ before \in Seq(P) /\ Len(before) \in Nat
           /\ \A j \in 1..Len(before) : /\ before[j].index \in Nat
                                        /\ before[j].term \in Nat
                                        /\ before[j].req \in Waiter
                                        /\ before[j].req # NoReq
           /\ entry.index \in Nat /\ entry.term \in Nat
<1>1. before \in Seq(P)
  BY DequeAssumption DEF P
<1>2. entry \in [index : Nat, term : Nat]
  BY PlaceAssumption
<1>3. ASSUME NEW j \in 1..Len(before)
      PROVE  /\ before[j].index \in Nat /\ before[j].term \in Nat
             /\ before[j].req \in Waiter /\ before[j].req # NoReq
  <2>1. before[j] \in P
    BY <1>1
  <2> QED
    BY <2>1, WaiterAssumption DEF P
<1>4. Len(before) \in Nat
  BY <1>1
<1> QED
  BY <1>1, <1>2, <1>3, <1>4

\* What the loop has left while it runs: its head is the next proposal.
LEMMA HeadIsNext ==
    ASSUME LoopInv, ~returned
    PROVE  /\ proposals # << >> <=> a < Len(before)
           /\ a < Len(before) => /\ Head(proposals) = before[a + 1]
                                 /\ Tail(proposals) = SubSeq(before, a + 2, Len(before))
<1>1. before \in Seq(P) /\ Len(before) \in Nat
  BY Shapes DEF LoopInv
<1>2. a \in 0..Len(before)
  BY <1>1 DEF LoopInv, a
<1>3. proposals = SubSeq(before, a + 1, Len(before))
  BY DEF LoopInv
<1>4. Len(proposals) = Len(before) - a /\ proposals \in Seq(P)
  BY <1>1, <1>2, <1>3
<1>5. proposals # << >> <=> a < Len(before)
  BY <1>1, <1>2, <1>4
<1>6. ASSUME a < Len(before)
      PROVE  /\ Head(proposals) = before[a + 1]
             /\ Tail(proposals) = SubSeq(before, a + 2, Len(before))
  <2>1. a + 1 \in 1..Len(before) /\ (a + 1) + 1 = a + 2
        /\ Len(before) \in (a + 1)..Len(before)
    BY <1>1, <1>2, <1>6
  <2> QED
    BY <1>1, <1>3, <2>1, HeadTailOfSubSeq
<1> QED
  BY <1>5, <1>6

LEMMA LoopInit == Init => LoopInv
<1> SUFFICES ASSUME Init PROVE LoopInv
  OBVIOUS
<1>1. before \in Seq(P) /\ Len(before) \in Nat
  BY Shapes DEF Init
<1>2. proposals = SubSeq(before, 1, Len(before))
  BY <1>1 DEF Init
<1>3. a = 0 /\ answered \in Seq(Waiter)
  BY DEF a, Init
<1>4. \A j \in 1..0 : FALSE
  OBVIOUS
<1>5. returned \in BOOLEAN /\ ~returned /\ ret = NoReq
  BY DEF Init
<1>6. before \in Deques /\ entry \in Places
  BY DEF Init
<1>7. proposals = SubSeq(before, a + 1, Len(before)) /\ a <= Len(before)
  BY <1>1, <1>2, <1>3
<1> QED
  BY <1>3, <1>4, <1>5, <1>6, <1>7 DEF LoopInv

LEMMA LoopStep == LoopInv /\ [Next]_vars => LoopInv'
<1> SUFFICES ASSUME LoopInv, Next PROVE LoopInv'
  BY DEF vars, LoopInv, a, SamePlace
<1>1. ~returned /\ UNCHANGED <<before, entry>>
  BY DEF Next
<1>2. /\ before \in Seq(P) /\ Len(before) \in Nat
      /\ \A j \in 1..Len(before) : /\ before[j].index \in Nat /\ before[j].term \in Nat
                                   /\ before[j].req \in Waiter
      /\ entry.index \in Nat /\ entry.term \in Nat
  BY Shapes DEF LoopInv
<1>3. a \in 0..Len(before) /\ answered \in Seq(Waiter)
  BY <1>2 DEF LoopInv, a
<1>4. /\ proposals # << >> <=> a < Len(before)
      /\ a < Len(before) => /\ Head(proposals) = before[a + 1]
                            /\ Tail(proposals) = SubSeq(before, a + 2, Len(before))
  BY <1>1, HeadIsNext
<1>5. ASSUME Exhausted PROVE LoopInv'
  <2>1. returned' = TRUE /\ ret' = NoReq /\ UNCHANGED <<proposals, answered>> /\ a' = a
    BY <1>5 DEF Exhausted, Return, a
  <2> QED
    BY <1>1, <1>3, <1>4, <1>5, <2>1 DEF Exhausted, LoopInv
<1>6. ASSUME Found PROVE LoopInv'
  <2>1. /\ a < Len(before) /\ SamePlace(before[a + 1])
        /\ ret' = before[a + 1].req /\ proposals' = SubSeq(before, a + 2, Len(before))
        /\ returned' = TRUE /\ answered' = answered /\ a' = a
    BY <1>4, <1>6 DEF Found, Return, SamePlace, a
  <2>2. SamePlace(before[a + 1])'
    BY <1>1, <2>1 DEF SamePlace
  <2> QED
    BY <1>1, <2>1, <2>2 DEF LoopInv
<1>7. ASSUME Ahead PROVE LoopInv'
  <2>1. /\ a < Len(before) /\ ret' = NoReq /\ returned' = TRUE
        /\ UNCHANGED <<proposals, answered>> /\ a' = a
    BY <1>4, <1>7 DEF Ahead, Return, a
  <2>2. /\ ~Stale(before[a + 1], entry.index, entry.term)
        /\ ~SamePlace(before[a + 1])
    <3> DEFINE p == before[a + 1]
    <3>1. a + 1 \in 1..Len(before)
      BY <1>2, <1>3, <2>1
    <3>2. /\ p.index \in Nat /\ p.term \in Nat
          /\ entry.index \in Nat /\ entry.term \in Nat
      BY <1>2, <3>1
    <3>3. \/ entry.term = p.term /\ entry.index < p.index
          \/ entry.term < p.term
      BY <1>4, <1>7, <2>1 DEF Ahead
    <3> HIDE DEF p
    <3>4. ~Stale(p, entry.index, entry.term) /\ ~SamePlace(p)
      BY <3>2, <3>3 DEF Stale, SamePlace
    <3> QED
      BY <3>4 DEF p
  <2>3. ~SamePlace(before[a + 1])'
    BY <1>1, <2>1, <2>2 DEF SamePlace
  <2> QED
    BY <1>1, <2>1, <2>2, <2>3 DEF LoopInv
<1>8. ASSUME Behind PROVE LoopInv'
  <2>1. /\ a < Len(before) /\ UNCHANGED <<ret, returned>>
        /\ proposals' = SubSeq(before, a + 2, Len(before))
        /\ answered' = Append(answered, before[a + 1].req)
    BY <1>4, <1>8 DEF Behind
  <2>2. Stale(before[a + 1], entry.index, entry.term)
    BY <1>4, <1>8, <2>1 DEF Behind, Stale
  <2>3. /\ a' = a + 1 /\ answered' \in Seq(Waiter)
        /\ \A j \in 1..a : answered'[j] = answered[j]
        /\ answered'[a + 1] = before[a + 1].req
    BY <1>2, <1>3, <2>1 DEF a
  <2>4. 1..a' = 1..a \cup {a + 1} /\ a' <= Len(before) /\ a' + 1 = a + 2
    BY <1>2, <1>3, <2>1, <2>3
  <2> HIDE DEF a
  <2> QED
    BY <1>1, <2>1, <2>2, <2>3, <2>4 DEF LoopInv
<1> QED
  BY <1>5, <1>6, <1>7, <1>8 DEF Next

THEOREM LoopInvariance == Spec => []LoopInv
BY LoopInit, LoopStep, PTL DEF Spec

\* A run of proposals behind the entry that cannot be prolonged is the one
\* StaleCount names.
LEMMA StaleCountUnique ==
    ASSUME NEW q, Len(q) \in Nat, NEW index, NEW t, NEW n \in 0..Len(q),
           \A j \in 1..n : Stale(q[j], index, t),
           n < Len(q) => ~Stale(q[n + 1], index, t)
    PROVE  StaleCount(q, index, t) = n
<1> DEFINE k == StaleCount(q, index, t)
<1>1. /\ k \in 0..Len(q)
      /\ \A j \in 1..k : Stale(q[j], index, t)
      /\ k < Len(q) => ~Stale(q[k + 1], index, t)
  BY StaleCountProperty
<1> HIDE DEF k
<1>2. ~(k < n)
  <2>1. k < n => k + 1 \in 1..n /\ k < Len(q)
    BY <1>1
  <2> QED
    BY <1>1, <2>1
<1>3. ~(n < k)
  <2>1. n < k => n + 1 \in 1..k /\ n < Len(q)
    BY <1>1
  <2> QED
    BY <1>1, <2>1
<1> QED
  BY <1>1, <1>2, <1>3 DEF k

\* The while loop of Peer::GetProposal returns the proposal, rejects the clients
\* and leaves the deque that the operator GetProposal describes, for deques of
\* any length and in any order.
THEOREM LoopComputesGetProposal == Spec => []ReturnsGetProposal
<1>1. LoopInv => ReturnsGetProposal
  <2> SUFFICES ASSUME LoopInv, returned
               PROVE  LET g == GetProposal(before, entry.index, entry.term)
                      IN  /\ ret = g.hit
                          /\ {answered[j] : j \in 1..Len(answered)} = g.rejected
                          /\ proposals = g.rest
    BY DEF ReturnsGetProposal
  <2> DEFINE g == GetProposal(before, entry.index, entry.term)
             n == StaleCount(before, entry.index, entry.term)
             found == Matches(before, entry.index, entry.term)
  <2>1. /\ before \in Seq(P) /\ Len(before) \in Nat
        /\ \A j \in 1..Len(before) : before[j].index \in Nat /\ before[j].term \in Nat
        /\ entry.index \in Nat /\ entry.term \in Nat
    BY Shapes DEF LoopInv
  <2>2. a \in 0..Len(before) /\ \A j \in 1..a : Stale(before[j], entry.index, entry.term)
    BY <2>1 DEF LoopInv, a
  <2>3. a < Len(before) => ~Stale(before[a + 1], entry.index, entry.term)
    <3>1. ASSUME a < Len(before), SamePlace(before[a + 1])
          PROVE  ~Stale(before[a + 1], entry.index, entry.term)
      BY <2>1, <2>2, <3>1 DEF SamePlace, Stale
    <3> QED
      BY <3>1 DEF LoopInv
  <2>4. n = a
    BY <2>1, <2>2, <2>3, StaleCountUnique
  <2>5. found <=> a < Len(before) /\ SamePlace(before[a + 1])
    BY <2>4 DEF Matches, SamePlace
  <2>6. /\ g.hit = IF found THEN before[a + 1].req ELSE NoReq
        /\ g.rejected = {before[j].req : j \in 1..a}
        /\ g.rest = SubSeq(before, IF found THEN a + 2 ELSE a + 1, Len(before))
    BY <2>4 DEF GetProposal
  <2> HIDE DEF g, n, found
  <2>7. {answered[j] : j \in 1..Len(answered)} = {before[j].req : j \in 1..a}
    BY DEF LoopInv, a
  <2>8. \/ ~found /\ ret = NoReq /\ proposals = SubSeq(before, a + 1, Len(before))
        \/ found /\ ret = before[a + 1].req /\ proposals = SubSeq(before, a + 2, Len(before))
    BY <2>5 DEF LoopInv
  <2> QED
    BY <2>6, <2>7, <2>8 DEF g
<1> QED
  BY <1>1, LoopInvariance, PTL

\* In every iteration, for deques of any length: what Peer::GetProposal popped
\* is a prefix of the deque, and each proposal of it but the one returned had
\* its closure run, once and in order.
THEOREM LoopPopsInOrder == Spec => []PopsInOrder
<1>1. LoopInv => PopsInOrder
  <2> SUFFICES ASSUME LoopInv PROVE PopsInOrder
    OBVIOUS
  <2> DEFINE popped == Len(before) - Len(proposals)
  <2>1. /\ before \in Seq(P) /\ Len(before) \in Nat
        /\ \A j \in 1..Len(before) : before[j].req # NoReq
    BY Shapes DEF LoopInv
  <2>2. a \in Nat /\ a <= Len(before) /\ \A j \in 1..a : answered[j] = before[j].req
    BY DEF LoopInv, a
  <2>3. CASE ret = NoReq /\ proposals = SubSeq(before, a + 1, Len(before))
    <3>1. Len(proposals) = Len(before) - a
      BY <2>1, <2>2, <2>3
    <3>2. popped = a
      BY <2>1, <2>2, <3>1
    <3> QED
      BY <2>2, <2>3, <3>2 DEF PopsInOrder, a
  <2>4. CASE /\ a < Len(before) /\ ret = before[a + 1].req
             /\ proposals = SubSeq(before, a + 2, Len(before))
    <3>1. Len(proposals) = Len(before) - (a + 1)
      BY <2>1, <2>2, <2>4
    <3>2. popped = a + 1 /\ popped + 1 = a + 2 /\ popped - 1 = a
      BY <2>1, <2>2, <3>1
    <3>3. ret # NoReq
      BY <2>1, <2>2, <2>4
    <3> QED
      BY <2>2, <2>4, <3>2, <3>3 DEF PopsInOrder, a
  <2> QED
    BY <2>3, <2>4 DEF LoopInv
<1> QED
  BY <1>1, LoopInvariance, PTL
=============================================================================
