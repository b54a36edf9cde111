--------------------------- MODULE KvClientProofs ---------------------------
(***************************************************************************)
(* Success means what it says, for any number of clients and operations.   *)
(***************************************************************************)
EXTENDS KvClient, TLAPS

Occurs(h, r) == \E i \in 1..Len(h) : h[i] = r

\* What the service has answered: at most once, only what it received, and the
\* truth unless it rejected.
AnswerInv ==
    /\ answer \in [Req -> {<< >>} \cup {<<x>> : x \in Response}]
    /\ \A r \in Req : answer[r] # << >> => r \in received
    /\ \A r \in Req : answer[r] # << >> /\ ~answer[r][1].rejected =>
          Service!Truthful(history, r, answer[r][1])

\* Only received requests take effect, once, and after every operation that had
\* succeeded when their client was started.
OrderInv ==
    /\ \A r \in Req : Occurs(history, r) => r \in received
    /\ \A i, j \in 1..Len(history) : history[i] = history[j] /\ history[i] \in Req => i = j
    /\ \A r \in Req : \A s \in before[r] : \A i \in 1..Len(history) :
          history[i] = r => \E j \in 1..(i - 1) : history[j] = s

\* A client that succeeded was told so; those before another one had succeeded.
SuccessInv ==
    \A r \in Req :
        /\ phase[r] = "success" => answer[r] # << >> /\ ~answer[r][1].rejected
        /\ \A s \in before[r] : phase[s] = "success"

ClientInv ==
    /\ ClientTypeOK
    /\ AnswerInv
    /\ OrderInv
    /\ SuccessInv

-----------------------------------------------------------------------------
LEMMA ClientInit == Init => ClientInv
<1> SUFFICES ASSUME Init PROVE ClientInv
  OBVIOUS
<1>1. /\ received = {} /\ history = << >> /\ answer = [r \in Req |-> << >>] /\ wire = {}
      /\ phase = [r \in Req |-> "off"] /\ before = [r \in Req |-> {}]
  BY DEF Init, Service!Init
<1> QED
  BY <1>1 DEF ClientInv, ClientTypeOK, AnswerInv, OrderInv, SuccessInv, Occurs

\* A step that appends keeps what the history says.
LEMMA TruthKept ==
    ASSUME history \in Seq(Request \cup {NoOp}), NEW d \in Request \cup {NoOp},
           history' = Append(history, d) \/ history' = history,
           NEW r, NEW x, Service!Truthful(history, r, x)
    PROVE  Service!Truthful(history', r, x)
<1>1. /\ Len(history) \in Nat /\ Len(history') >= Len(history) /\ Len(history') \in Nat
      /\ \A i \in 1..Len(history) : history'[i] = history[i]
  OBVIOUS
<1>2. PICK i \in 1..Len(history) :
         /\ history[i] = r
         /\ IF Cmd[r].type = "kGet"
            THEN Service!ValueAfter(history, i - 1, Cmd[r].key, x.value)
            ELSE x.value = NoVal
  BY DEF Service!Truthful
<1>3. i \in 1..Len(history') /\ history'[i] = r /\ ~x.rejected
  BY <1>1, <1>2 DEF Service!Truthful
<1>4. \A j \in 1..(i - 1) : history'[j] = history[j]
  BY <1>1, <1>2
<1>5. Service!ValueAfter(history, i - 1, Cmd[r].key, x.value) =>
         Service!ValueAfter(history', i - 1, Cmd[r].key, x.value)
  <2> DEFINE n == i - 1
             k == Cmd[r].key
             v == x.value
  <2>1. \A j \in 1..n : history'[j] = history[j]
    BY <1>4
  <2>2. \A j \in 1..n : \A m \in (j + 1)..n : m \in 1..n
    BY <1>1, <1>2
  <2> QED
    BY <2>1, <2>2 DEF Service!ValueAfter
<1> QED
  BY <1>2, <1>3, <1>5 DEF Service!Truthful

LEMMA SameResponses == Service!Rejected = Rejected /\ Service!Response = Response
BY DEF Service!Rejected, Rejected, Service!Response, Response

\* The steps of the service.
LEMMA ServeStep ==
    ASSUME ClientInv, Serve PROVE ClientInv'
<1>1. /\ ClientTypeOK /\ AnswerInv /\ OrderInv /\ SuccessInv
      /\ history \in Seq(Request \cup {NoOp}) /\ Len(history) \in Nat
      /\ UNCHANGED <<wire, phase, before, received>>
  BY DEF ClientInv, ClientTypeOK, Serve, client, Service!Serve
<1>2. PICK d \in Request \cup {NoOp} :
         \/ history' = history
         \/ /\ history' = Append(history, d)
            /\ d \in Req => d \in received /\ \A i \in 1..Len(history) : history[i] # d
  BY DEF Serve, Service!Serve, Service!TakeEffect
<1>3. ClientTypeOK'
  BY <1>1, <1>2 DEF ClientTypeOK
<1>4. answer' \in [Req -> {<< >>} \cup {<<x>> : x \in Response}]
  BY SameResponses DEF Serve, Service!Serve
<1>5. ASSUME NEW r \in Req
      PROVE  /\ answer[r] # << >> => answer'[r] = answer[r]
             /\ answer'[r] # << >> => r \in received
             /\ answer'[r] # << >> /\ ~answer'[r][1].rejected =>
                   Service!Truthful(history', r, answer'[r][1])
  <2>1. Service!Answer(r)
    BY <1>5 DEF Serve, Service!Serve
  <2>2. CASE answer'[r] = answer[r]
    <3>1. answer[r] # << >> /\ ~answer[r][1].rejected =>
             Service!Truthful(history', r, answer[r][1])
      BY <1>1, <1>2, <1>5, TruthKept DEF AnswerInv
    <3> QED
      BY <1>1, <1>5, <2>2, <3>1 DEF AnswerInv
  <2>3. CASE r \in received /\ answer[r] = << >> /\ answer'[r] = <<Rejected>>
    <3>1. answer'[r][1].rejected
      BY <2>3 DEF Rejected
    <3> QED
      BY <2>3, <3>1
  <2>4. CASE r \in received /\ answer[r] = << >> /\ Service!Truthful(history', r, answer'[r][1])
    BY <2>4
  <2> QED
    BY <2>1, <2>2, <2>3, <2>4, SameResponses DEF Service!Answer
<1>6. AnswerInv'
  BY <1>1, <1>4, <1>5 DEF AnswerInv
<1>7. SuccessInv'
  BY <1>1, <1>5 DEF SuccessInv, ClientTypeOK
<1>8. OrderInv'
  <2>1. CASE history' = history
    BY <1>1, <2>1 DEF OrderInv, Occurs
  <2>2. CASE /\ history' = Append(history, d)
             /\ d \in Req => d \in received /\ \A i \in 1..Len(history) : history[i] # d
    <3>1. /\ Len(history') = Len(history) + 1
          /\ \A i \in 1..Len(history) : history'[i] = history[i]
          /\ history'[Len(history) + 1] = d
      BY <1>1, <2>2
    <3>2. \A i \in 1..Len(history') : i \in 1..Len(history) \/ i = Len(history) + 1
      BY <1>1, <3>1
    <3>3. \A r \in Req : Occurs(history', r) => r \in received
      BY <1>1, <2>2, <3>1, <3>2 DEF OrderInv, Occurs
    <3>4. \A i, j \in 1..Len(history') :
             history'[i] = history'[j] /\ history'[i] \in Req => i = j
      BY <1>1, <2>2, <3>1, <3>2 DEF OrderInv
    <3>5. ASSUME NEW r \in Req, NEW s \in before[r], NEW i \in 1..Len(history'),
                 history'[i] = r
          PROVE  \E j \in 1..(i - 1) : history'[j] = s
      <4>1. CASE i \in 1..Len(history)
        <5>1. PICK j \in 1..(i - 1) : history[j] = s
          BY <1>1, <3>1, <3>5, <4>1 DEF OrderInv
        <5>2. j \in 1..Len(history)
          BY <1>1, <4>1
        <5> QED
          BY <3>1, <5>1, <5>2
      <4>2. CASE i = Len(history) + 1
        <5>1. s \in Req /\ phase[s] = "success"
          BY <1>1, <3>5 DEF ClientTypeOK, SuccessInv
        <5>2. Service!Truthful(history, s, answer[s][1])
          BY <1>1, <5>1 DEF SuccessInv, AnswerInv
        <5>3. PICK j \in 1..Len(history) : history[j] = s
          BY <5>2 DEF Service!Truthful
        <5>4. j \in 1..(i - 1)
          BY <1>1, <4>2
        <5> QED
          BY <3>1, <5>3, <5>4
      <4> QED
        BY <3>2, <4>1, <4>2
    <3> QED
      BY <1>1, <3>3, <3>4, <3>5 DEF OrderInv, Occurs
  <2> QED
    BY <1>2, <2>1, <2>2
<1> QED
  BY <1>3, <1>6, <1>7, <1>8 DEF ClientInv

LEMMA ReceiveStep ==
    ASSUME ClientInv, NEW r \in Req, Receive(r) PROVE ClientInv'
<1>1. /\ ClientTypeOK /\ AnswerInv /\ OrderInv /\ SuccessInv
      /\ r \in wire /\ wire' = wire \ {r} /\ received' = received \cup {r}
      /\ UNCHANGED <<phase, before, history>>
  BY DEF ClientInv, Receive, Service!Receive
<1>2. answer' = answer \/ answer' = [answer EXCEPT ![r] = <<Rejected>>]
  BY SameResponses DEF Receive, Service!Receive
<1>3. ClientTypeOK'
  BY <1>1 DEF ClientTypeOK
<1>4. <<Rejected>>[1].rejected /\ Rejected \in Response /\ <<Rejected>> # << >>
  BY DEF Rejected, Response
<1>5. AnswerInv'
  <2>1. answer' \in [Req -> {<< >>} \cup {<<x>> : x \in Response}]
    BY <1>1, <1>2, <1>4 DEF AnswerInv
  <2>2. \A s \in Req : answer'[s] = answer[s] \/ (s = r /\ answer'[s] = <<Rejected>>)
    BY <1>1, <1>2 DEF AnswerInv
  <2>3. \A s \in Req : answer'[s] # << >> => s \in received'
    BY <1>1, <2>2 DEF AnswerInv
  <2>4. \A s \in Req : answer'[s] # << >> /\ ~answer'[s][1].rejected => answer'[s] = answer[s]
    BY <1>4, <2>2
  <2>5. \A s \in Req : answer'[s] # << >> /\ ~answer'[s][1].rejected =>
           Service!Truthful(history', s, answer'[s][1])
    BY <1>1, <2>4 DEF AnswerInv
  <2> QED
    BY <2>1, <2>3, <2>5 DEF AnswerInv
<1>6. answer[r] = << >>
  BY <1>1 DEF AnswerInv, ClientTypeOK
<1>7. SuccessInv'
  <2>1. phase[r] # "success"
    BY <1>1, <1>6 DEF SuccessInv
  <2>2. \A s \in Req : s # r => answer'[s] = answer[s]
    BY <1>1, <1>2 DEF AnswerInv
  <2> QED
    BY <1>1, <2>1, <2>2 DEF SuccessInv
<1>8. OrderInv'
  BY <1>1 DEF OrderInv, Occurs
<1> QED
  BY <1>3, <1>5, <1>7, <1>8 DEF ClientInv

\* A client that is started has not been received, so nothing of it has taken
\* effect; those that had succeeded stay successful.
LEMMA CheckFlagsStep ==
    ASSUME ClientInv, NEW r \in Req, CheckFlags(r) PROVE ClientInv'
<1>1. /\ ClientTypeOK /\ AnswerInv /\ OrderInv /\ SuccessInv
      /\ phase[r] = "off"
      /\ before' = [before EXCEPT ![r] = {s \in Req : phase[s] = "success"}]
      /\ UNCHANGED <<wire, received, history, answer>>
  BY DEF ClientInv, CheckFlags, service
<1>2. PICK p \in {"checked", "fatal"} : phase' = [phase EXCEPT ![r] = p]
  BY DEF CheckFlags, Goto
<1>3. ClientTypeOK'
  BY <1>1, <1>2 DEF ClientTypeOK
<1>4. AnswerInv'
  BY <1>1 DEF AnswerInv
<1>5. r \notin received
  BY <1>1 DEF ClientTypeOK
<1>6. OrderInv'
  <2>1. \A i \in 1..Len(history) : history[i] # r
    BY <1>1, <1>5 DEF OrderInv, Occurs
  <2>2. \A s \in Req : s # r => before'[s] = before[s]
    BY <1>1 DEF ClientTypeOK
  <2> QED
    BY <1>1, <2>1, <2>2 DEF OrderInv, Occurs
<1>7. SuccessInv'
  <2>1. before'[r] = {s \in Req : phase[s] = "success"}
        /\ \A s \in Req : s # r => before'[s] = before[s]
    BY <1>1 DEF ClientTypeOK
  <2>2. \A s \in Req : phase'[s] = "success" <=> phase[s] = "success"
    BY <1>1, <1>2 DEF ClientTypeOK
  <2>3. \A s \in Req : before[s] \subseteq Req
    BY <1>1 DEF ClientTypeOK
  <2> QED
    BY <1>1, <2>1, <2>2, <2>3 DEF SuccessInv
<1> QED
  BY <1>3, <1>4, <1>6, <1>7 DEF ClientInv

LEMMA SendStep ==
    ASSUME ClientInv, NEW r \in Req, Send(r) PROVE ClientInv'
<1>1. /\ ClientTypeOK /\ AnswerInv /\ OrderInv /\ SuccessInv
      /\ phase[r] = "checked"
      /\ UNCHANGED <<before, received, history, answer>>
  BY DEF ClientInv, Send, service
<1>2. \/ wire' = wire /\ phase' = [phase EXCEPT ![r] = "fatal"]
      \/ wire' = wire \cup {r} /\ phase' = [phase EXCEPT ![r] = "waiting"]
  BY DEF Send, Abort, Call, Goto
<1>3. ClientTypeOK'
  BY <1>1, <1>2 DEF ClientTypeOK
<1>4. AnswerInv' /\ OrderInv'
  BY <1>1 DEF AnswerInv, OrderInv, Occurs
<1>5. SuccessInv'
  <2>1. \A s \in Req : phase'[s] = "success" <=> phase[s] = "success"
    BY <1>1, <1>2 DEF ClientTypeOK
  <2>2. \A s \in Req : before[s] \subseteq Req
    BY <1>1 DEF ClientTypeOK
  <2> QED
    BY <1>1, <2>1, <2>2 DEF SuccessInv
<1> QED
  BY <1>3, <1>4, <1>5 DEF ClientInv

LEMMA OpCbStep ==
    ASSUME ClientInv, NEW r \in Req, OpCb(r) PROVE ClientInv'
<1>1. /\ ClientTypeOK /\ AnswerInv /\ OrderInv /\ SuccessInv
      /\ phase[r] = "waiting"
      /\ UNCHANGED <<before, received, history, answer, wire>>
  BY DEF ClientInv, OpCb, service
<1>2. PICK p \in {"failed", "rejected", "success"} :
         /\ phase' = [phase EXCEPT ![r] = p]
         /\ p = "success" => answer[r] # << >> /\ ~answer[r][1].rejected
  BY DEF OpCb, Goto
<1>3. ClientTypeOK'
  BY <1>1, <1>2 DEF ClientTypeOK
<1>4. AnswerInv' /\ OrderInv'
  BY <1>1 DEF AnswerInv, OrderInv, Occurs
<1>5. SuccessInv'
  <2>1. /\ phase'[r] = p
        /\ \A s \in Req : s # r => phase'[s] = phase[s]
        /\ \A s \in Req : before[s] \subseteq Req
    BY <1>1, <1>2 DEF ClientTypeOK
  <2> QED
    BY <1>1, <1>2, <2>1 DEF SuccessInv
<1> QED
  BY <1>3, <1>4, <1>5 DEF ClientInv

-----------------------------------------------------------------------------
\* The invariant of the client and the service together is inductive.
THEOREM ClientInvariance == Spec => []ClientInv
<1>1. ClientInv /\ [Next]_vars => ClientInv'
  <2> SUFFICES ASSUME ClientInv, [Next]_vars PROVE ClientInv'
    OBVIOUS
  <2>1. CASE UNCHANGED vars
    BY <2>1 DEF ClientInv, ClientTypeOK, AnswerInv, OrderInv, SuccessInv, Occurs,
                Service!Truthful, Service!ValueAfter, Service!Sets, vars, service, client
  <2>2. CASE Serve
    BY <2>2, ServeStep
  <2>3. ASSUME NEW r \in Req, CheckFlags(r) \/ Send(r) \/ OpCb(r) \/ Receive(r)
        PROVE  ClientInv'
    BY <2>3, CheckFlagsStep, SendStep, OpCbStep, ReceiveStep
  <2> QED
    BY <2>1, <2>2, <2>3 DEF Next
<1> QED
  BY <1>1, ClientInit, PTL DEF Spec

\* The client's types hold whatever the number of clients; in particular a
\* client that complained of its command line never had a request received
\* (CheckFlags and the constructor come before the request is sent).
THEOREM ClientTypes == Spec => []ClientTypeOK
<1>1. ClientInv => ClientTypeOK
  BY DEF ClientInv
<1> QED
  BY <1>1, ClientInvariance, PTL

\* Whatever the number of clients, their operations and the timeouts: a client
\* that printed success did its operation after all that had succeeded before
\* it was started, and the answer of a Get holds what the store did then
\* (GetCb, PutCb and DelCb take an RPC that failed or was rejected for neither).
THEOREM SuccessIsReal == Spec => []SuccessInOrder
<1>1. ClientInv => SuccessInOrder
  <2> SUFFICES ASSUME ClientInv, NEW r \in Req, phase[r] = "success"
               PROVE  \E i \in 1..Len(history) :
                         /\ history[i] = r
                         /\ \A s \in before[r] : \E j \in 1..(i - 1) : history[j] = s
                         /\ Cmd[r].type = "kGet" =>
                              ValueAfter(history, i - 1, Cmd[r].key, answer[r][1].value)
    BY DEF SuccessInOrder
  <2>1. Service!Truthful(history, r, answer[r][1])
    BY DEF ClientInv, SuccessInv, AnswerInv
  <2>2. PICK i \in 1..Len(history) :
           /\ history[i] = r
           /\ Cmd[r].type = "kGet" =>
                Service!ValueAfter(history, i - 1, Cmd[r].key, answer[r][1].value)
    BY <2>1 DEF Service!Truthful
  <2>3. \A s \in before[r] : \E j \in 1..(i - 1) : history[j] = s
    BY <2>2 DEF ClientInv, OrderInv
  <2>4. \A n, k, v : Service!ValueAfter(history, n, k, v) <=> ValueAfter(history, n, k, v)
    BY DEF Service!ValueAfter, ValueAfter, Service!Sets, Sets
  <2> QED
    BY <2>2, <2>3, <2>4
<1> QED
  BY <1>1, ClientInvariance, PTL
=============================================================================
