------------------------------ MODULE KvStore ------------------------------
(***************************************************************************)
(* What jkv promises its clients: one store in which every operation takes *)
(* effect at one instant.  A request is received, takes effect at most     *)
(* once and only after it was received, and is answered at most once: with *)
(* what its effect yielded, or with "rejected", which promises nothing     *)
(* (the operation may have taken effect, and may still do so).             *)
(***************************************************************************)
EXTENDS KvOps, Sequences

CONSTANT Req    \* the requests of the clients that are looked at

VARIABLES
    received,   \* requests the store was given
    history,    \* what took effect, in order (NoOp has none)
    answer      \* answer[r]: the answers given to r

vars == <<received, history, answer>>

Init == received = {} /\ history = << >> /\ answer = [r \in Req |-> << >>]

\* x tells what r's effect was.
Truthful(h, r, x) ==
    /\ ~x.rejected
    /\ \E i \in 1..Len(h) :
          /\ h[i] = r
          /\ IF Cmd[r].type = "kGet" THEN ValueAfter(h, i - 1, Cmd[r].key, x.value)
                                     ELSE x.value = NoVal

\* A request may be turned down on the spot.
Receive(r) ==
    /\ r \notin received
    /\ received' = received \cup {r}
    /\ \/ UNCHANGED answer
       \/ answer' = [answer EXCEPT ![r] = <<Rejected>>]
    /\ UNCHANGED history

TakeEffect ==
    \E d \in Request \cup {NoOp} :
        /\ d \in Req => d \in received /\ \A i \in 1..Len(history) : history[i] # d
        /\ history' = Append(history, d)

Answer(r) ==
    \/ answer'[r] = answer[r]
    \/ /\ r \in received /\ answer[r] = << >>
       /\ \/ answer'[r] = <<Rejected>>
          \/ Len(answer'[r]) = 1 /\ Truthful(history', r, answer'[r][1])

\* Something takes effect, some are answered, or both at once.
Serve ==
    /\ TakeEffect \/ UNCHANGED history
    /\ answer' \in [Req -> {<< >>} \cup {<<x>> : x \in Response}]
    /\ \A r \in Req : Answer(r)
    /\ UNCHANGED received

Next == Serve \/ \E r \in Req : Receive(r)

Spec == Init /\ [][Next]_vars
=============================================================================
