------------------------------ MODULE KvClient ------------------------------
(***************************************************************************)
(* The command-line client (example/echo/client/main.cc) against the       *)
(* service of KvStore.  One process runs one operation: it checks its      *)
(* command line, connects, sends the request and waits for its callback,   *)
(* which the RPC library runs with the answer or, after 300 ms, with a     *)
(* failure, whatever the servers do with the request then.  Clients run    *)
(* one after the other, or overlap.                                        *)
(***************************************************************************)
EXTENDS KvOps, Sequences

CONSTANTS Req,        \* the clients that are run, by the request they carry
          MaxEffects   \* bound: operations and empty entries that take effect

ASSUME ClientAssumption ==
    /\ Req \subseteq Request /\ NoOp \notin Request /\ MaxEffects \in Nat
    /\ \A r \in Req : Cmd[r].type \in {"kGet", "kPut", "kDel"}

VARIABLES
    received, history, answer,   \* the service (KvStore)
    wire,     \* requests sent and not received
    phase,    \* how far the client of r has got, or how it ended
    before    \* history: the clients that had succeeded when r was started

Service == INSTANCE KvStore
client == <<wire, phase, before>>
service == <<received, history, answer>>
vars == <<service, client>>

Init ==
    /\ Service!Init
    /\ wire = {}
    /\ phase = [r \in Req |-> "off"]
    /\ before = [r \in Req |-> {}]

Goto(r, p) == phase' = [phase EXCEPT ![r] = p]

Running(r) == phase[r] \in {"checked", "waiting"}

\* A client is started, with port, operation and key or not: main, up to
\* CheckFlags.
CheckFlags(r) ==
    /\ phase[r] = "off"
    /\ before' = [before EXCEPT ![r] = {s \in Req : phase[s] = "success"}]
    /\ Goto(r, "checked") \/ Goto(r, "fatal")
    /\ UNCHANGED <<service, wire>>

\* The constructor cannot connect, or the type is none of get, put and del.
Abort(r) == Goto(r, "fatal") /\ UNCHANGED wire

\* KvClient::Get, Put and Del send the request; a callback waits for it.
Call(r) == Goto(r, "waiting") /\ wire' = wire \cup {r}

\* Faulty variant: the request is sent before the type is looked at.
SendFirst(r) ==
    /\ phase[r] = "checked"
    /\ Goto(r, "waiting") \/ Goto(r, "fatal")
    /\ wire' = wire \cup {r}
    /\ UNCHANGED <<service, before>>

\* The function main posts on the worker's loop.
Send(r) ==
    /\ phase[r] = "checked"
    /\ Abort(r) \/ Call(r)
    /\ UNCHANGED <<service, before>>

\* Faulty variants: cntl->Failed() is not looked at, and the answer of a failed
\* RPC is an empty KvResp; no timeout is set.
OpCbUnchecked(r) ==
    /\ phase[r] = "waiting"
    /\ \/ Goto(r, "success")
       \/ answer[r] # << >>
          /\ Goto(r, IF answer[r][1].rejected THEN "rejected" ELSE "success")
    /\ UNCHANGED <<service, wire, before>>
OpCbNoTimeout(r) ==
    /\ phase[r] = "waiting" /\ answer[r] # << >>
    /\ Goto(r, IF answer[r][1].rejected THEN "rejected" ELSE "success")
    /\ UNCHANGED <<service, wire, before>>

\* GetCb, PutCb and DelCb: the RPC failed, was rejected, or succeeded.  The
\* process ends with it, and an answer that comes later finds nobody.
OpCb(r) ==
    /\ phase[r] = "waiting"
    /\ \/ Goto(r, "failed")
       \/ answer[r] # << >>
          /\ Goto(r, IF answer[r][1].rejected THEN "rejected" ELSE "success")
    /\ UNCHANGED <<service, wire, before>>

\* The servers receive a request, now or long after its client has ended, or
\* never; what they do next is KvStore's.
Receive(r) ==
    /\ r \in wire /\ wire' = wire \ {r}
    /\ Service!Receive(r)
    /\ UNCHANGED <<phase, before>>

Serve ==
    /\ Service!Serve /\ Len(history') <= MaxEffects
    /\ UNCHANGED client

Next == Serve \/ \E r \in Req : CheckFlags(r) \/ Send(r) \/ OpCb(r) \/ Receive(r)

Spec == Init /\ [][Next]_vars

\* The client's loop runs what main has posted, and its timer fires.
FairSpec == Spec /\ \A r \in Req : WF_vars(Send(r)) /\ WF_vars(OpCb(r))

-----------------------------------------------------------------------------
\* A request is on its way or received only if its client got as far as
\* sending it: one that complains of its command line has changed nothing.
ClientTypeOK ==
    /\ phase \in [Req -> {"off", "checked", "waiting", "fatal", "failed",
                          "rejected", "success"}]
    /\ before \in [Req -> SUBSET Req]
    /\ received \subseteq Req /\ wire \subseteq Req
    /\ history \in Seq(Request \cup {NoOp})
    /\ wire \cap received = {}
    /\ \A r \in wire \cup received :
          phase[r] \in {"waiting", "failed", "rejected", "success"}

\* Success means what it says, in real time: the operation has taken effect,
\* after every operation that had succeeded before its client was started, and
\* the answer of a Get holds what the store held at that point.  Requests that
\* failed or were rejected may take effect in between, or later than all of
\* them: a timeout takes nothing back.
SuccessInOrder ==
    \A r \in Req : phase[r] = "success" =>
        \E i \in 1..Len(history) :
            /\ history[i] = r
            /\ \A s \in before[r] : \E j \in 1..(i - 1) : history[j] = s
            /\ Cmd[r].type = "kGet" =>
                  ValueAfter(history, i - 1, Cmd[r].key, answer[r][1].value)

\* A client ends, even if no server ever answers it.
ClientEnds == \A r \in Req : Running(r) ~> ~Running(r)
=============================================================================
