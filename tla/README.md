# jkv in TLA+

jkv is a replicated key-value store: a few hosts run one Raft group over the
`jraft` library, take client operations through `jrpc`, and keep the data in
leveldb. This directory models jkv's own code, checks it with TLC on small
instances and proves its main safety properties with TLAPS.

Paths below are those of the repository (`src/peer/peer.cc` and so on).

## Inventory

| component | state | operations | interacts with |
|---|---|---|---|
| `Peer` (`src/peer/peer.cc`) | `proposals_` (deque of waiting client operations), `kv_db_`, `raw_node_`, `mem_storage_`, `peers_` | `ProposeKvOp`, `Step`, `Tick` (→ `HandleRaftReady` → `ProcessEntry` → `GetProposal` / `CallbackAll`, `ProcessNormal`), `SendMsg2Peer` | RawNode (calls), clients (closures `done`), other hosts (RPC) |
| `KvServiceImpl` | none | `KvOp` posts `KvOpCb` on the worker's loop | `Peer` 1 of the host |
| `RaftMsgServiceImpl` | none | `HandleRaftMsg` posts `HandleRaftMsgCb` | `Peer::Step` |
| `PeerHost` | `local_peers_`, `rpc_cli_mgr_` | `AddLocalPeer`, `GetClient`, `mutable_local_peers` | `Peer`, jrpc clients |
| `DiskStorage` | a leveldb database | `Get`, `Put`, `Del` | leveldb |
| server `main` | – | checks flags, builds host, peer, timer, services in this order | all of the above |
| `KvClient` (`example/echo/client`) | one RPC client | one `Get`, `Put` or `Del`, 300 ms timeout | `KvService` |
| `jraft` | the Raft state | `Propose`, `Step`, `Tick`, `HasReady`, `GetReady`, `Advance` | git submodule, no source in the repository |
| `jrpc` | event loops, connections | – | vendored headers, no bodies |

What is hard here. All callbacks of a host run on one event loop, so there are
no data races inside a peer; what interleaves is *callbacks*: a client request,
a Raft message that changes the leader, the tick that processes what was
committed. Between the moment `ProposeKvOp` writes down where an entry should
land and the moment an entry of that index commits, leadership may have been
lost, regained, and the tail of the log replaced. The correlation between the
two is `GetProposal`, a loop that looks at the head of a deque. On top of that
come an ignored error (`Propose` may drop the entry), a request type that nobody
checks, an abort in the middle of a Ready (`DiskStorage::Get` of a missing key), servers that start in any order
and abort when they cannot connect, hosts that restart with an empty Raft log
over a full database, and clients that give up before the answer comes.

What makes each part correct:

* `Peer`: every client is answered exactly once and never told "done" falsely;
  the committed log is executed in order, each entry once, after it is stored;
  the deque stays ordered; waiting clients are answered eventually.
* `GetProposal`: ends, answers everything it pops and does not return, finds the
  entry's proposal if it is there.
* `DiskStorage`: a read returns the last write; it does not take the host down;
  executing the log again after a restart leads to the same database.
* `PeerHost`, start-up: a message reaches the host and the peer its sender meant,
  whatever the start order and whoever is restarted; operations reach a peer that
  exists; a group that is up stays up.
* `KvClient`: it reports success only of what took effect, and it always ends.
* the group: replicas execute the same log; the clients of all hosts see one
  store in which every operation takes effect at one instant.

## Modules

| module | models |
|---|---|
| `KvOps` | `pb/kv_op.proto` and `src/storage/disk_storage.cc`: commands of every type, `kInvalid` and unknown ones included, their effect on a database, the answers |
| `ProposalQueue` | `Peer::GetProposal` and `Peer::CallbackAll` as operators on the deque |
| `ProposalLoop` | `Peer::GetProposal` iteration by iteration; shown to compute `ProposalQueue`'s operator |
| `Peer` | one peer: `src/peer/peer.cc` and the two services that call it, over the contract of `jraft::RawNode` |
| `PeerHost` | the servers of a group: `main` of the server, `src/peer/peer_host.cc`, `Peer::InitGroupMembers`, `SendMsg2Peer`, the routing of both services, stopped and restarted processes |
| `KvStore` | abstract: what the clients are promised, by one peer and by the group |
| `Cluster` | the peers of a group over Raft nodes that vote, replicate and commit; composes `Peer` (each host implements it) and `KvStore` (the group implements it) |
| `Recovery` | one host that stops, loses unsynced writes and executes the log again from its start |
| `KvClient` | `example/echo/client/main.cc` against `KvStore` |
| `MCPeer`, `MCProposalLoop`, `MCPeerHost`, `MCCluster`, `MCRecovery`, `MCKvClient` | instances for TLC |
| `ProposalQueueProofs`, `ProposalLoopProofs`, `PeerProofs`, `PeerHostProofs`, `RecoveryProofs`, `KvClientProofs`, `ClusterProofs`, `ClusterPeerProofs` | theorems |

### Peer

Actions and the code they stand for:

* `KvOpCb(r)`: `KvServiceImpl::KvOp`/`KvOpCb` with `Peer::ProposeKvOp`. A peer that
  does not lead answers "rejected". A leader first pushes the proposal
  `[NextProposalIndex, Term, request]` and then calls `Propose`, which appends the
  entry or drops it; the code does not look at the result. `SerializeToString` of
  a `KvReq` cannot fail here and is left out.
* `Step`: `RaftMsgServiceImpl::HandleRaftMsg`/`HandleRaftMsgCb` with `Peer::Step`.
  What `RawNode::Step` does with a message is outside the repository; the four
  disjuncts say what it may do to `isLeader`, `term`, `log` and `committed`:
  see a newer term, follow a leader (adopt its log and its commit index), become
  leader (with an empty entry), commit as a leader. They are constrained by
  Raft's guarantees only: terms grow, a term has one leader, committed entries
  stay, a log matches that of the leader of its last term. The history variable
  `issued` records what this peer appended as a leader; with it `Adoptable` says
  that an entry of a term we led is one of ours, and one of another term is not.
  The messages are not represented, so loss, duplication and reordering are
  covered as any sequence of these steps.
* `Tick`: the 100 ms timer and `HandleRaftReady` up to `ProcessEntries`. `RawNode::Tick` may step a leader
  down (`check_quorum`). If there is a Ready, its entries go to `storage`, its
  messages out (not represented), and some non-empty part of what is
  committed and not applied is taken as `committed_entries` (`Config` bounds the
  size of one Ready).
* `ProcessEntry`: one iteration of `ProcessEntries`. A leader looks its proposal
  up, a peer that does not lead rejects everything; then `ProcessNormal` passes
  the entry over without running a closure (`Skips`: type `kInvalid`), executes it and
  answers, or aborts the process (`Aborts`: a Get of a missing key, an unknown type).
  Iterations are separate steps only so that an abort can happen between them;
  `pc = "ready"` keeps other callbacks out, as the event loop does.
* `Advance`: `raw_node_->Advance(rd)`.

A request is a model value and `Cmd` gives its command: payloads and their
serialization are not represented. Its type is one of `kInvalid`, `kGet`, `kPut`, `kDel`
and `"unknown"`: `KvOpCb` and `ProposeKvOp` propose whatever comes, `kInvalid` is what a
`KvReq` has that sets no type, and proto3 lets numbers through that the enum does not
have. A new leader's empty entry parses as a `KvReq` of type `kInvalid` too, and
`ProcessNormal` cannot tell them apart. Every request is sent at most once (`asked`).
Entries of type conf-change are not represented: nothing proposes one and
`ProcessConfChange` is an empty TODO.

`Peer` keeps four history variables (`asked`, `dropped`, `executed`, `issued`); the
first bounds the requests, the last feeds the Raft contract, the other two are
read by properties only.

### KvStore

The store has three variables: the requests it received, the sequence of operations
that took effect, and the answers. An operation of a client takes effect at most
once and only after it was received; operations of others and empty entries may
take effect at any time; an answer is either "rejected", which promises nothing, or
truthful: the operation is in the history, and the value of a Get is what the last
write before it left. That "rejected" promises nothing is not a weakness of the
model but what the code does: `CallbackAll` and `GetProposal` reject proposals whose
entries may be committed already (`peer.cc:187`), and a client that is told "rejected"
may find its operation done.

`Peer` implements it (`ImplementsKvStore`) with the executed entries as the history, as
long as `Propose` drops nothing.

### Cluster

The same code on every host of a group, but with the Raft nodes spelled out: votes of
a majority for a log that is up to date (`Elected`), messages that carry a part of the
leader's log and its commit index (`Deliver`), acknowledgements and commit (`Commit`). A
message may be lost, repeated, late or overtaken, because anything a leader of a term
can have said may arrive at any time. `Peer`'s own actions are the ones of module
`Peer`, indexed by host. Four reductions keep it small, none of which touches the
peers' code: an election is one step, in which the voters see the new term
(`NewTerm` lets the others see it); `Leader[t]` fixes who may win term `t`; an
acknowledgement is known to the leader as soon as it is given; the steps of one
`HandleRaftReady` meet no step of another host (`busy`), since what it does touches this
host only, and it takes all that is committed (`Peer` allows any part).
`Propose` drops nothing here, a leader does not campaign (jraft's election timer runs
on hosts that do not lead), and the set of hosts is finite and not empty. No host is
restarted.

What it is for: `ImplementsPeer` (proved as `ClusterIsPeer`) shows that the contract of `RawNode` in `Peer` is met by
Raft nodes (an `INSTANCE Peer WITH` for the host `Site`, `pc` and `last` derived from `busy`),
so that what is proved of `Peer` is about something; `GroupIsStore` that clients of
different hosts, served by different leaders, see one `KvStore`.

### Recovery

A host and the log that its group committed. `ProcessEntry` is `Peer`'s, without clients; `Stop` is
a kill, an abort or a loss of power, after which leveldb holds the last
state or one written back earlier (writes are made without `sync`, and its log keeps
them in order); `Restart` is the constructor of `Peer` again, `applied = 0` over the old
database, with the log sent again by the hosts that kept it. Every log is a `MemoryStorage`
(`main.cc:62`): when no host is left, and an entry that aborts kills each host
that executes it, the log is gone and the databases stay. `RestartGroup` is that case: an
empty log over whatever this host's leveldb holds. From then on `Leaves` tells two kinds
of keys apart: those that the new log writes, which hold what it says, and
the others, which hold what this host, and perhaps no other, kept of a log that is gone.

Between the two lies what is not modelled: term, vote and log are in memory, so that a
restarted host may vote twice in a term, and an entry that a bare majority held is lost to
a majority when one of these hosts restarts. Nothing in the code handles this and
nothing in the repository speaks of it; it is listed as a hazard without a property.

### KvClient

One process per operation: `CheckFlags`, then the function that `main` posts on the
worker's loop (`Send`: the constructor connects or aborts; Get, Put or Del sends, or the
type is unknown), then one of the three callbacks (`OpCb`), which has the same three
branches in each. The RPC library calls it with the answer or, after 300 ms, as
failed. The requests of these clients are Gets, Puts and Dels (`ClientAssumption`), which is
what the program sends; other requests at the store may be of any type. A request may be
received long after its client has ended. The servers are
`KvStore` itself: what `Peer` and `Cluster` implement. `before` records, when a client is
started, which had succeeded.

### ProposalLoop

`Peer` takes `GetProposal` as one step, written with `CHOOSE`: the proposals in
front that are behind the entry are rejected, and the next one is returned if it
is the entry's. `ProposalLoop` is the loop as written, on an arbitrary deque, and
`ReturnsGetProposal` says that both agree.

### PeerHost

Each process has its command line (`flags`), the place `main` has reached (`stage`)
and its tables. `CheckFlags`, `AddLocalPeer` (with `CheckPeerOption`, the constructor
of `Peer` and `InitGroupMembers`), `StartTimer` and `StartServer` are `main`'s steps in
order. From `StartTimer` on the worker runs beside `main`: `Tick` sends the messages
of a Ready through `GetClient`, and from `StartServer` on `HandleRaftMsg` and `KvOp`
arrive. `JLOG_FATAL` is `Fatal`, which records which assertion it was. `--members` is
a sequence of parsed items (an item without four fields is `BadMember`); ip and port
are one address; an address that is taken makes `StartServer` fail silently, as
`main` ignores the result. Which messages Raft sends is external: to any voter, and
to whoever was heard of. `peers_.find(msg.to())->second` for a host that is no
member reads past the table; it is modelled as the end of the process. A process of `Stoppable` may be
killed at any stage, or started again after an abort (`Stop`): its tables are gone, its
address is free, the others keep the clients they cached for it. Whether jrpc
reconnects cannot be read from its headers; in the model a message sent through
such a client may arrive at the restarted process, or wait for ever. `Peer` and
`PeerHost` meet at `Tick`, `HandleRaftMsg` and `KvOp`: `PeerHost` has the way of a message,
`Peer` its effect.

## Runs

| run | instance | shows |
|---|---|---|
| `peer_safety` | three requests (put and get of one key, one without a type) at this peer, terms 1–3, logs up to 4 entries, 2 unapplied requests before `Propose` drops | `TypeOK`, `AnsweredAtMostOnce`, `NoAnswerLost`, `ProposalsSorted`, `ExecutedInOrder`, `DoneIsExecuted`, `LeaderAnswers` hold |
| `peer_liveness` | the same three requests and an overwrite by another peer, terms 1–2, logs up to 4 entries, no drops | `EveryRequestAnswered` holds under `FairSpec`, and `ImplementsKvStore`: `Peer` implements `KvStore` |
| `get_proposal_loop` | every deque of up to 3 proposals over 2 terms and 3 indexes, any order, every entry | `PopsInOrder`, `ReturnsGetProposal`, `LoopEnds` hold |
| `cluster_store` | three hosts, a put through one and a get through another, two terms with different leaders, logs up to 4 entries | `ReplicasAgree` holds, and `GroupIsStore`: the group implements `KvStore` |
| `cluster_peer` | the same with logs up to 3 entries, seen from the first leader | `ImplementsPeer`: the host implements `Peer` |
| `restart` | every log of up to 4 entries over two puts, a delete and a get of one key, a put of another and a request of an unknown type; two stops, one start of the whole group | `RecoveryTypeOK`, `Converges`, `ReadsFollowLog` hold, and `CatchesUp` under `FairSpec` |
| `client` | three clients (put, get, delete of one key), three effects | `ClientTypeOK`, `SuccessInOrder` hold, and `ClientEnds` under `FairSpec` |
| `hosts` | the three servers of `scripts/`; a group of two with one server started twice; two servers, one with any of twelve command lines (missing id, bad port, malformed or duplicated member, foreign group, taken address, …). One process may be stopped and restarted any number of times | `HostTypeOK`, `MessagesArrive`, `GroupStaysUp`, `LinkedStaysUp`, and for all command lines `SteppedByAddressee`, `UnknownIsForeign` hold |
| `hosts_peer_id` | two servers whose peers have id 2 | `PeerShouldExist` fails, see below |
| `peer_dropped` | one term, one unapplied request before `Propose` drops | `DroppedNotDone` fails, see below |
| `peer_get_deleted` | one term, put, delete and get of one key | `GetAfterDelIsHarmless` fails, see below |
| `peer_invalid` | one term, a put, a get and a request without a type | `KvOpReturns` fails, see below |

Bounds. Three terms allow a peer to lead, lose its leadership with proposals
waiting, and lead again with older proposals still in the deque; four entries
allow an empty entry and three requests, and a tail to be replaced by another
one; two unapplied requests allow a drop with both an older and a later accepted
proposal. `peer_liveness` has two terms, enough for a leader to be deposed with all three
requests waiting; with a third its graph is beyond TLC's reach for liveness. The bounds are the constants `MaxTerm`, `MaxLog`, `MaxUncommitted` and the
set `Logs` of logs a leader elsewhere may have (in the runs: all with at most
`MaxLog` entries that hold a request at most once).
Deadlock is not checked: with every term used up and
every request asked, or after an abort, the bounded system stops.
`PeerHost` needs no bound but the number of processes: `net` is a set, and all else
is finite; stops are not counted.
In `Cluster` two terms are enough for a leader to be deposed with entries that are
replicated to nobody, to a minority or to a majority, for its successor to keep or
replace them, and for its clients to be answered, or not, on either side; four
entries are two empty ones and two requests. `cluster_peer` has three, because the host
looked at also keeps its storage. In `Recovery` two stops allow a stop during the
second execution of the log, and four entries a write, an overwrite, a deletion and a
read in any order; with one start of the whole group the second stop falls into either
life. In `KvClient` three clients allow one to fail and take effect between
or after two that succeed.

Fairness. The timer of `StartTimer` fires for ever and its callback runs to
the end, hence weak fairness of `Tick`, `ProcessEntry` and `Advance`. Strong
fairness of `CommitProgress` is Raft's own liveness: a group whose majority is up
and connected commits a new entry if there is time and again one to commit
(jraft repeats messages until they are acknowledged). Without it nothing is
promised: a deposed leader that never sees another committed entry keeps its
clients waiting for ever (`peer.cc:187`). Two modelling bounds protect it: a
leader steps down by `check_quorum` only below `MaxTerm`, because otherwise
no term would be left for a next leader.

`CatchesUp` needs weak fairness of `ProcessEntry` (the timer again) and of `Restart`: whoever
operates the host starts it again, which is not in the code. `ClientEnds` needs that the
client's event loop runs what was posted (`Send`) and that its RPC timer fires or the
answer comes (`OpCb`); nothing is assumed of the servers.

### What the failing runs show

* `peer_dropped`. `ProposeKvOp` pushes the proposal before `Propose` and ignores
  its result. When the entry is dropped, the proposal remains, the next accepted
  request is given the same index and term, and when this one commits the
  client of the *dropped* request is told "done"; the accepted request stays
  at the head of the deque and is rejected, although it was executed, when the
  next entry is processed. `pb/errnum.proto:29`
  describes `kErrProposalDropped` as returned "so that the proposer can be notified
  and fail fast". This is why `DoneIsExecuted`, `LeaderAnswers` and strict ordering in
  `ProposalsSorted` are stated for behaviours in which nothing was dropped.
* `peer_get_deleted`. `DiskStorage::Get` aborts on `NotFound`. The sequence of
  `scripts/client.sh` (put, get, del, "get op again") commits a Get of a deleted
  key, and every peer that executes it aborts.
* `peer_invalid`. A request that sets no `cmd_type` passes `KvOpCb` and `ProposeKvOp` like any
  other. Its entry commits, `GetProposal` pops its proposal, and `ProcessNormal` takes it for an
  empty entry and returns (`peer.cc:203-205`) without `done->Run()`: the closure leaks
  and the client hears nothing until its own timer fires, although
  `pb/kv_op.proto:49` says `rpc KvOp(KvReq) returns (KvResp)`. This is why `NoAnswerLost` has
  the case `Forgotten`, and `LeaderAnswers` and `EveryRequestAnswered` are about requests with a
  type. On a peer that does not lead any more such a request is rejected like the others.
  A `cmd_type` outside the enum gets as far, and aborts each host that executes it at
  `peer.cc:227`, "should not come here.": `Peer` and `Recovery` have it beside the
  abort of `DiskStorage::Get`.
* `hosts_peer_id`. `KvOpCb` hands every operation to local peer 1
  (`kv_service.cc:24`) and asserts "peer should exist", but a server may be started
  with any peer id except 0, and everything else works with it.

`MessagesArrive` leaves one abort open on purpose: `Connect` to a member that does not
listen yet (`peer_host.cc:39`). A group therefore has to be complete before the
first election message is sent, about 0.8 s after the first server's start;
`GroupStaysUp` shows that from then on all is well. A restart reopens it: the
restarted server has no clients cached and aborts if another member is down at its
first message, while the others go on with the clients they have (`LinkedStaysUp`); the
cache that is never renewed (`peer_host.cc:46`) is what keeps them alive.

It leaves another open, too: it is about consistent command lines, with which no message
is for somebody who is no member. `UnknownIsForeign` is about all others: the unchecked
`peers_.find(msg.to())->second` (`peer.cc:153`) goes wrong only on a server whose
`--members` lack somebody whose `--members` have it.

`Recovery` has the other side of `peer_get_deleted`. While some host keeps
the group's first log, a host that aborted on an entry and is started again executes the same entries
and aborts at the same one (`ReadsFollowLog`: it cannot find what they do not
leave). But sooner or later every host executes the entry. Then no log has it, and the
group starts again with an empty log over the databases as they are, which may differ, since
the hosts stopped at different moments and lost different writes. A Get that no write of
the new log precedes may then succeed on one host and abort another; `Converges` and
`ReadsFollowLog` hold of the keys that the new log has written, and of no others.

## Proofs

All theorems hold for every set of requests, every `Cmd`, every bound and every
set `Logs`; `Cmd` may give a request any type, `kInvalid` and unknown ones included (only
`KvClient` assumes Get, Put or Del, of its own requests). The assumptions are those of the
modules (`NoOp` and `NoReq` are not requests, `NoVal` is not a value, bounds are naturals,
`Logs` are sequences of entries).

* `TypeCorrect`, `AppliesInOrder`: `TypeOK`, then with `ReadyInv` the order of
  execution. What keeps `executed` a prefix of the log is that the log changes
  only above `committed` and that `cur <= last <= committed`.
* `Invariance`: `IndInv`, the inductive invariant. Besides `TypeOK` and `ReadyInv` it has
  * `AnswerInv`: asked requests are split into waiting ones, once each, answered
    ones, once each, and those that `ProcessNormal` passed over (`Forgotten`); after an
    abort only "at most once" remains. That a request is passed over only for its own
    type needs `PlaceInv`: the proposal popped with an entry is that of its request;
  * `IssuedInv`: what this peer issued lies in terms up to the present one, at
    different places and for different requests; while it leads, what it issued
    in this term is within the log;
  * `LogInv`: an entry of a term we led, or with a request of ours, is one we issued
    at that index;
  * `PlaceInv`: a waiting proposal lies in a term we led and never at the place of an
    empty entry; while nothing was dropped it sits at the place of the entry
    issued for its own request;
  * `DbInv`: `kv_db` holds for each key what the last executed write left.

  `ProposalsSorted` and `DoneIsExecuted` are not inductive: that a proposal is at the
  right place needs the history of what was issued, because between the proposal
  and the commit the entry may be gone from the log, and that no *other* entry can
  sit at this index and term needs that a term we led holds only what we issued.
* `AnsweredOnce`, `AnswersExact`, `DequeSorted`, `DoneIsTrue`, `LeaderAnswersWaiting` follow from it.
* `PeerIsStore`: `Spec /\ [](dropped = {}) => ImplementsKvStore`. The initial states map to
  initial ones; `KvOpCb` is `Receive`, `ProcessEntry` is `Serve` (something takes effect and
  some are answered), everything else a stutter. That an effect is new, and that the
  answer is truthful, comes from `IndInv`: an entry of ours is at the place where it was
  issued, so it is executed once, and the proposal found for it is its own.
* `ProposalQueueProofs` has what `GetProposal` and `CallbackAll` do to the deque: its
  proposals are split, each into exactly one of rejected, returned and left.
* `LoopComputesGetProposal`: the loop returns what the operator says, for every
  deque; `LoopInv` says that what was popped are the stale proposals in front,
  and `StaleCountUnique` that this determines the operator's `CHOOSE`. `LoopPopsInOrder`
  follows from the same invariant.

* `HostTypes`, `AddresseeSteps`, `UnknownsAreForeign`, `RoutingIsRight`, `GroupSurvives`, `LinkedSurvives`: for any
  number of processes, stopped and restarted any number of times. The invariant `HostInv`
  says what each stage of `main` has filled in (`TablesInv`), and, with consistent
  command lines, that a cached client leads to the host it is kept for, that a
  message is on its way to the member it names, and that only members are heard
  of (`RoutesInv`). Consistency includes that no two *members* share an address: with
  only the processes' addresses distinct the theorem is false, because a member
  that is not running could have the address of one that is.

  `AddresseeSteps` holds without consistency, from `SentInv`: a message names the
  host and peer that its sender's members do, and a host that steps it has that
  host id and holds that peer. It needs that command lines do not change at a restart.
  `UnknownsAreForeign` follows: whoever is no member and has to be answered was heard, so that
  a process with that host id names this server.

* `RecoveryTypes`, `RestartConverges`, `RereadsFollow`: for any log, any number of
  stops and of starts of the whole group. While the log is executed again the database is not that of any moment of
  the first execution: keys already written again are up to date with `cur`, the
  others hold what some earlier moment up to `high` left. `RecoveryInv` says exactly
  this, per key, of `kv_db` and of `disk` (`CurrentInv`, `FromPrefixes`); a Get that once
  succeeded had a write before it (`FirstLifeInv`), which is executed again first, and so
  finds the same. After a start of the whole group a Get may also have succeeded on what was
  left over, and only what the new log has written is claimed.
* `ClientTypes`, `SuccessIsReal`: for any number of clients. `SuccessInOrder` needs besides the
  truth of the answers that what took effect was received, so that a client that
  is only being started is not in the history yet, and all that had succeeded then
  is in front of it (`OrderInv`).

* `ClusterInvariance`, `HostsAgree`, `ClientInvariance`, `ClusterIsStore`: for any finite group of
  hosts, any number of terms, entries and requests, any assignment of requests to
  hosts and of terms to their leaders. The argument has three stages.

  *One log* (`ClusterInv`). `ReplicasAgree` is far from inductive: two hosts agree on what they
  executed because of where their logs came from. `RaftInv` says
  * `LogInv`: up to each of its entries a log is the log of the leader of that entry's
    term (`Tied`), terms do not fall along it (`Rising`), and none is later than its
    host's (`Within`). It reduces every question about two logs to one about two leaders;
  * `LeaderInv`: who leads was elected in its term, and until it sees a later one its log
    is that of the term; who acknowledged something in a term has seen it;
  * `VoteInv`: a majority has seen every term that has had a leader. Without it an
    election could overtake a term in which something is still to be chosen;
  * `SafeInv`: an entry that a leader appended in its own term is in the log of every later
    leader, or can no longer be chosen (`NotChosen`: a majority has passed the term without it).
    An election decides between the two, because two majorities meet (`QuorumsMeet`) and
    the voter in both has a log that is up to date only with one that has the entry
    (`UpToDateHas`);
  * `KeepInv`: a host that acknowledged such an entry keeps it, with the same exception. An
    entry that *can* still be chosen has to be followed through the hosts' logs before
    anything is committed, hence the exception rather than a premise;
  * `CommitInv`: what a host or a leader takes for committed lies below a chosen entry
    (`Settled`). An entry of an older term counts only below one of the leader's own.

  `DbInv` adds that a database is what the executed entries left. There is one lemma per
  action that disturbs it (`CommitKeeps`, `ProposeKeeps`, `DeliverKeeps`, `ElectedKeeps`); `RaftStep`
  puts them together. `HostsAgree` follows: what two hosts executed lies below two chosen
  entries, the later leader has the earlier one, and equal prefixes leave equal databases.

  *The clients* (`ClientInv`). `RequestInv`: a request has one place in all the leaders' logs,
  in a term that the host it was sent to led. `WaitInv`: a proposal in a deque waits, once
  and unanswered, for the entry at exactly its index and term, which is its own
  request's. So the lookup of `GetProposal` by index and term never finds another
  client's proposal, although the entry may have come back by way of another leader,
  and no request is executed at two places of the log.

  *The store*. The history is what the host that is furthest ahead has executed. By
  `HostsAgree` it does not matter which one this is, so it only grows, and only when that host
  executes an entry (`EffectsStay`, `EffectsMove`). `KvOpCb` is `Receive` (`ReceiveStep`), `ProcessEntry`
  of any host is `Serve` (`ServeStep`): on the furthest host something takes effect, on the
  others nothing does, and whoever is told "done" by either has its operation in the
  history, with the value that the writes before it left. All else is a stutter.

  TLC had checked the whole of `ClusterInv` and `ClientInv` before (three hosts, two terms, logs up
  to 3 entries, 471 thousand states). The proof brought two facts to light: the number of
  hosts has to be finite for majorities to meet, and in the model a leader could win an
  election while leading, which jraft does not do; `Elected` has that guard now.

* `TurnInvariance`, `ClusterIsPeer`: each host of the group implements `Peer`
  (`ASSUME Site \in Host PROVE Spec => ImplementsPeer`; `Site` is any host, so it holds of each).
  This closes the argument about a single peer: the contract under which the theorems of
  `PeerProofs` hold is kept by nodes that vote, replicate and commit. A step of the group is, at
  `Site`, the action of the same name (`Elected`, `NewTerm`, `Deliver` and `Commit` are the four
  kinds of `Step`), or goes unnoticed there (`SiteSame`). What the contract asks is met because
  * an adopted log keeps what is committed, by `DeliverKeeps`; it rises in its terms; and each
    of its entries was issued here, or is of a term that others led and holds no request of this
    host's clients: by `Tied` the entry is in the log of the leader of its term, and by
    `RequestInv` the requests there were sent to that leader's host (`FromLeader`);
  * a term is led once here: `Issued` is read off the logs of the terms whose leader is `Site`
    and grows by exactly the entry that is appended (`IssuedAdds`); a term led before is not
    later than the present one (`LedFacts`);
  * another host's `ProcessEntry` answers no client of this one, since a deque holds only
    requests that were sent to its own host (`WaitsElsewhere`, from `WaitInv` and `RequestInv`);
  * `Propose` never drops what fits in the log (`NotOverloaded`, with `MaxUncommitted` = `MaxLog`).

  `TurnInv` is what `ClusterInv` lacks for it: outside `HandleRaftReady` `cur` equals `applied`, from
  which `Tick` starts in `Peer`, and who is inside it lives.

Only model-checked: the liveness properties (`EveryRequestAnswered`, `LoopEnds`, `CatchesUp`,
`ClientEnds`; fairness and `ENABLED` are beyond the prover) and the four failing properties.

## Not modelled

* The loss of term, vote and log by the restart of some hosts, as far as it can break
  Raft's promises (see Recovery): the code does nothing about it. The loss of the log
  with all hosts is `RestartGroup`.
* Configuration changes: `ProcessConfChange` is an empty TODO.
* How jrpc reacts to a lost connection: it is vendored, headers only. `PeerHost` allows
  the outcomes that matter to jkv.
* The bodies of jraft: a git submodule without content; only what jkv relies on is modelled.
* `Options and ids`, message definitions: plain records, used by the modules above as
  fields. The Raft options of `PeerOption` are read by nobody.
* The tests: they test code this commit no longer has.

## Plan

Order followed: `KvOps`, `ProposalQueue` and `Peer` first, since truthful answers are what
clients rely on; the loop behind `GetProposal`; `PeerHost`; then `KvStore` with the
refinement from `Peer`, restarts (`Recovery`, `PeerHost`'s `Stop`), `KvClient`, and `Cluster`. Every
safety property and every refinement that a run checks is also proved; what is left to TLC
alone is liveness, which the prover cannot do.
