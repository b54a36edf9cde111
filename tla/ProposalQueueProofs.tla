------------------------ MODULE ProposalQueueProofs ------------------------
(***************************************************************************)
(* What Peer::GetProposal does to the deque, for a deque of any length.    *)
(***************************************************************************)
EXTENDS ProposalQueue, TLAPS, WellFoundedInduction, SequenceTheorems

\* A non-empty set of naturals has a least element.
LEMMA LeastNat ==
    ASSUME NEW T \in SUBSET Nat, T # {}
    PROVE  \E x \in T : \A y \in T : x <= y
<1>1. IsWellFoundedOn(OpToRel(<, Nat), Nat)
  BY NatLessThanWellFounded
<1>2. PICK x \in T : \A y \in T : ~(<<y, x>> \in OpToRel(<, Nat))
  BY <1>1, WFMin
<1>3. \A y \in T : ~(y < x)
  BY <1>2 DEF OpToRel
<1> QED
  BY <1>3

\* The loop of GetProposal ends: StaleCount is the length of the longest run of
\* proposals behind the entry at the front of the deque.
LEMMA StaleCountProperty ==
    ASSUME NEW q, Len(q) \in Nat, NEW index, NEW t
    PROVE  LET n == StaleCount(q, index, t)
           IN  /\ n \in 0..Len(q)
               /\ \A j \in 1..n : Stale(q[j], index, t)
               /\ n < Len(q) => ~Stale(q[n + 1], index, t)
<1> DEFINE Stop(n) == n < Len(q) => ~Stale(q[n + 1], index, t)
           T == {n \in 0..Len(q) : Stop(n)}
<1>1. Len(q) \in T /\ T \in SUBSET Nat
  OBVIOUS
<1>2. PICK n \in T : \A y \in T : n <= y
  BY <1>1, LeastNat
<1>3. \A j \in 1..n : Stale(q[j], index, t)
  <2> SUFFICES ASSUME NEW j \in 1..n PROVE Stale(q[j], index, t)
    OBVIOUS
  <2>1. j - 1 \in 0..Len(q) /\ j - 1 < n /\ (j - 1) + 1 = j
    BY <1>1, <1>2
  <2>2. j - 1 \notin T
    <3> HIDE DEF T
    <3> QED
      BY <1>1, <1>2, <2>1
  <2> QED
    BY <2>1, <2>2
<1>4. \E m \in 0..Len(q) : /\ \A j \in 1..m : Stale(q[j], index, t)
                           /\ m < Len(q) => ~Stale(q[m + 1], index, t)
  BY <1>2, <1>3
<1> QED
  BY <1>4 DEF StaleCount

\* The lookup result g splits the deque q: the first n proposals are rejected,
\* the next one (if m = n + 1) is the hit, and what follows the first m is left.
Splits(q, g, n, m) ==
    /\ g.rejected = {q[j].req : j \in 1..n}
    /\ Len(g.rest) = Len(q) - m
    /\ \A i \in 1..Len(g.rest) : g.rest[i] = q[i + m]
    /\ \/ m = n /\ g.hit = NoReq
       \/ m = n + 1 /\ g.hit = q[m].req

\* GetProposal splits the deque at the first proposal that is not behind the
\* entry; that one is the hit just when it has the entry's own place.
LEMMA GetProposalSplits ==
    ASSUME NEW P, NEW q \in Seq(P), NEW index, NEW t
    PROVE  LET g == GetProposal(q, index, t)
           IN  /\ g.rest \in Seq(P)
               /\ \E n, m \in 0..Len(q) :
                     /\ Splits(q, g, n, m)
                     /\ \A j \in 1..n : Stale(q[j], index, t)
                     /\ n < Len(q) => ~Stale(q[n + 1], index, t)
                     /\ m = n + 1 <=> /\ n < Len(q)
                                      /\ q[n + 1].index = index
                                      /\ q[n + 1].term = t
<1> DEFINE n == StaleCount(q, index, t)
           found == Matches(q, index, t)
           m == IF found THEN n + 1 ELSE n
           g == GetProposal(q, index, t)
<1>1. /\ n \in 0..Len(q)
      /\ \A j \in 1..n : Stale(q[j], index, t)
      /\ n < Len(q) => ~Stale(q[n + 1], index, t)
  <2>1. Len(q) \in Nat
    OBVIOUS
  <2> QED
    BY <2>1, StaleCountProperty
<1>2. found <=> n < Len(q) /\ q[n + 1].index = index /\ q[n + 1].term = t
  BY DEF Matches
<1> HIDE DEF n
<1>3. m \in 0..Len(q)
  BY <1>1, <1>2
<1>4. g.rest = SubSeq(q, m + 1, Len(q))
  <2>1. g.rest = SubSeq(q, IF found THEN n + 2 ELSE n + 1, Len(q))
    BY DEF GetProposal, n
  <2> QED
    BY <1>1, <2>1
<1>5. /\ g.rest \in Seq(P)
      /\ Len(g.rest) = Len(q) - m
      /\ \A i \in 1..Len(g.rest) : g.rest[i] = q[i + m]
  <2> HIDE DEF m, g
  <2> QED
    BY <1>3, <1>4
<1>6. g.rejected = {q[j].req : j \in 1..n}
  BY DEF GetProposal, n
<1>7. g.hit = IF found THEN q[n + 1].req ELSE NoReq
  BY DEF GetProposal, n
<1>8. \/ m = n /\ g.hit = NoReq
      \/ m = n + 1 /\ g.hit = q[m].req
  BY <1>7
<1>9. Splits(q, g, n, m)
  BY <1>5, <1>6, <1>8 DEF Splits
<1>10. m = n + 1 <=> found
  BY <1>1
<1> HIDE DEF g, m
<1> QED
  BY <1>1, <1>2, <1>3, <1>5, <1>9, <1>10 DEF g

\* CallbackAll rejects the whole deque.
LEMMA CallbackAllSplits ==
    ASSUME NEW P, NEW q \in Seq(P)
    PROVE  LET g == CallbackAll(q)
           IN  /\ g.rest \in Seq(P)
               /\ Splits(q, g, Len(q), Len(q))
BY DEF CallbackAll, Splits
=============================================================================
