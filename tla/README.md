# TLA+ for distributed-system

Specifications of the distributed programs in this repository: the Raft
implementation in `src/mit/src/raft`, the replicated key/value service on top of
it in `src/mit/src/kvraft`, the simulated network and the test harness under both
(`src/mit/src/labrpc`, `kvraft/config.go`), the MapReduce library in
`src/mit/src/mapreduce`, and the key/value store on etcd's raft library in
`src/etcd-raft`. The modules are model-checked with TLC on small instances. For
Raft's types and elections, and for what the key/value service answers, there are
proofs that TLAPS checks for every value of the constants.

## The system

| Part | State | Operations | Talks to |
|---|---|---|---|
| Raft (`raft/raft.go`) | `currentTerm`, `votedFor`, `log`, `commitIndex`, `nextIndex`, `matchIndex`, `state`, `votes` | `Start`, `RequestVote`, `AppendEnties`, their replies, `campaign`, heartbeat, `Make`, `Kill` | peers over labrpc, the service over `applyCh`, the Persister |
| Persister (`raft/persister.go`) | saved term, vote and log | `SaveRaftState`, `ReadRaftState` | Raft |
| labrpc (`labrpc/labrpc.go`) | ends, enabled ends, registered servers | `Call`, `ProcessReq`, `Enable`, `AddServer`, `DeleteServer` | Raft, Clerks, the harness |
| Key/value server (`kvraft/server.go`) | `db`, `ack`, `result`, `prevIndex` | `Get`, `PutAppend`, `AppendLog`, `getApply`, `Kill` | Raft, Clerks |
| Clerk (`kvraft/client.go`) | `id`, `reqId` | `Get`, `PutAppend`, with endless retries | all servers |
| Harness (`kvraft/config.go`) | `kvservers`, `saved`, `endnames` | `ShutdownServer`, `StartServer`, `partition`, `ConnectAll`, clients | labrpc, the servers |
| MapReduce master (`mapreduce/master*.go`, `schedule.go`) | `workers`, `registerChannel`, `stats` | `Register`, `run`, `schedule`, `killWorkers`, `merge` | workers over RPC, the file system |
| MapReduce worker (`mapreduce/worker.go`) | `nRPC`, `nTasks` | `DoTask`, `Shutdown`, the accept loop | master, the file system |
| etcd-raft example (`src/etcd-raft`) | WAL, snapshots, `appliedIndex`, key/value map | propose, replay, publish, apply, snapshot, stop | the vendored etcd library, HTTP clients |

What makes the code hard: requests and replies that are lost, delayed or overtake
each other; a crash between any two steps, in particular between handing an entry
to the service and saving it (`raft.go:405`); replies that reach a peer in another
term than the one they were asked in; slices that share memory with the log;
goroutines that wait for each other over unbuffered channels; Clerks that repeat an
operation that may already be committed; handlers that run long after their Clerk
has given up or their server was shut down; goroutines of the MapReduce master that
race with `wg.Wait()`; a WAL whose end is not committed. The list with line numbers
is `hazards` in `PROJECT.json`.

## Modules

| Module | Models |
|---|---|
| `Raft` | the consensus core, with persistence, crashes and the network |
| `RaftSend` | `Raft` and the time between `bcastAppend` and the encoding of a request |
| `RaftLoop` | the goroutines, channels and locks of one server |
| `ReplicatedLog` | what Raft promises to the service above it |
| `RaftRefinement` | `Raft` as an implementation of `ReplicatedLog` |
| `RaftProofs`, `RaftElectionProofs` | type correctness; Election Safety, votes and terms |
| `KVRaft` | Clerks, RPC handlers and `getApply` over Raft as the service sees it |
| `KVStore`, `KVLinearizable` | one store for all Clerks; `KVRaft` as an implementation of it |
| `KVOverLog` | the same Clerks, handlers and `getApply` over anything that keeps `ReplicatedLog` |
| `KVRaftProofs` | types, answers, and that `KVOverLog` implements `KVRaft` |
| `LabRpc`, `KVHarness` | the simulated network; the harness of the key/value tests on it |
| `MapReduce` | a distributed job: master, task goroutines, workers |
| `EtcdRaftNode` | one process of the etcd example, with what is left on disk when it dies |
| `MCRaft`, `MCRaftScenarios`, `MCRaftSend`, `MCKVRaft`, `MCEtcdRaftNode` | instances for TLC |

How they hang together: the service meets Raft at `ReplicatedLog`. TLC checks that
`Raft` implements it (`ImplementsLog`), TLAPS proves that the
service over anything that keeps this contract (`KVOverLog`) behaves as `KVRaft`
says (`RestsOnContract`), and TLC checks that `KVRaft` implements `KVStore`
(`Linearizable`). `RaftLoop` joins the two once more,
at the level of channels: it relies on what `Raft` shows (a message changes the log
only above `commitIndex`) and shows that an entry gets from `commitTo` through
`stateMachine` to `getApply` and to the caller of `AppendLog`.

### Raft

`rf[i]` is the Go struct of peer `i`; a method that changes the struct is an
operator that takes and returns the record (`becomeFollower`, `commitTo`,
`handleAppendEntries`, ...), under the source's name. `run()` takes ticks,
messages and commands from channels one at a time, so each of these is one
action: `RequestVote` and `AppendEnties` (a request is handled and answered),
`RequestVoteReply` and `AppendEntiesReply` (a reply is handled, and what it
triggers is sent), `campaign`, `Heartbeat`, `Start`, `Restart`. Each action does
what the handler does to the end, `updateCommitIndex`, `bcastAppend` and the
deferred `persist` included.

`persist` runs before any message of the handler can leave the peer, so a crash
inside a handler is a crash before or after it. The exception is `commitTo`, which
hands entries to the service while the deferred `persist` is still to come:
`CrashInStep` is that crash.

`messages` is a bag: labrpc loses, delays and reorders, and never duplicates.
A message carries the incarnation of the sender that a reply goes back to; a
restarted peer has new ends, and replies to its former self are gone
(`config.go`, `start1`). When more than `MaxInFlight` messages would be in
flight the surplus is lost, in every possible choice.

Log indices are those of the code; its sentinel `log[0]` is implicit. The two ways
in which a peer can die are states of their own: `Panicked` for the code's own
assertions, `OutOfRange` for a runtime error. Timers are abstracted: elections and
heartbeats may be due at any time. `leaders` and `chosen` are history variables.

`RaftSend` adds one action, `LateEncode`. `Entries` of a request is a slice of
`rf.log`; no copy is made until `Call` encodes it in its own goroutine, and
`appendLog` truncates and appends in place. A request that is not encoded yet may
therefore come to hold what the sender's log holds by then.

### RaftLoop

One server, its goroutines `run`, `stateMachine`, the ticker, `serveChannels`, the
senders, handlers of peers' calls, `getApply` and callers of `AppendLog`. All
channels but `tickc` and `result[i]` are unbuffered: a send and its receive are one
step, and a goroutine that finds nobody at the other end waits. `kv.mu` is a
variable, so that who holds it while waiting for what is visible. Messages change
the log above `commitIndex` in any way and may raise `commitIndex`.

Assumptions: a tick comes when all goroutines have come to wait, since 100 ms lie
between two ticks and microseconds between two steps; `tickc` has room for one tick
where the code has ten, which is stricter. What `NoPanic` shows of `Tick` is thus
that no deadlock fills `tickc`; a live `run()` that falls ten ticks behind is a
question of real time. There is one handler, one caller and one
sender at a time, and a slice header is read in one piece. After `Kill`, goroutines
may stay behind in a send on `commitc`, `applyCh` or `commandc`; the properties ask
nothing of a server that is being killed but that it does not panic.

### KVRaft

Raft appears as what `AppendLog` and `getApply` see of it. `Start` puts an
operation at an index of some leader's log, several leaders may put different
operations at one index, one of them is chosen per index and in order, several at
once if need be (`Choose`), and every server is handed the chosen ones from index
1, from the start again after a restart. This allows more than Raft does (any
server may take itself for a leader at any time), which is sound for safety
properties.

The Clerk's loop is `Invoke`, `Call`, `CallFails` (no answer, or `WrongLeader`) and
`Return`; which server it tries next is left open. A call that has reached a server
runs there in a goroutine of its own: `AppendLog` (which may get to `Start` when the
Clerk has long gone on, even to its next operation), then `Receive` or
`AppendFails`, then the rest of `Get` or `PutAppend`. What it answers once its Clerk
has moved on is ignored. There is one key, and the value that an operation writes is
its own name, so that the database shows which operations were applied and in which
order.

`KVOverLog` has the same Clerks and handlers, and `ReplicatedLog` in place of
`StartIndex` and `Choose`: `Start` puts the operation where the contract allows it,
Raft may lose proposals, commit on a server that the service has not heard of, and
commit and crash in one step. It is there for the theorem `RestsOnContract`.

In `KVStore` an operation takes effect once, at one instant between call and
return. The mapping in `KVLinearizable` lets a write take effect when Raft first
chooses it; later places of the same operation in the log have none. A read returns
the store at some instant since its call, which the mapping takes from how long the
log was when the Clerk called.

### LabRpc and KVHarness

A call is `Send`, then the goroutine `ProcessReq` (`ReadEndnameInfo`,
`DropRequest`, `StartDispatch`, `ReceiveEch` or `PollDead`, `FinalCheck`,
`EndDelay`, `Return`) with its second goroutine `dispatch`, which goes on when the
server has been deleted. A handler is external: it writes the call down in the
persister of its life of the server.

A function of `config.go` holds `cfg.mu` but changes the network one call at a
time, so `todo` is the sequence of what the running function still has to do.
`Init` is after `make_config`. The number of servers is odd: for an even number
`make_partition` does not give the halves that its comment describes, and for one
server it indexes out of range. `partition(leader)` looks for a leader with
`Leader()`, which dereferences `kvservers[j]` in turn, hence its guard.

### MapReduce

One action per step between two points where a goroutine can be overtaken: `Begin`
(`wg.Add`), `TakeWorker` (`<-registerChannel` and the dial), `CallReturns`,
`CallFails` of a task; `CheckLimit`, `AcceptTask`, `AcceptShutdown`, `CountTask` of
a worker's accept loop, `DoTask` and `Shutdown` in the goroutine that serves a
connection; `Wait`, `DialShutdown`, `ShutdownFails`, `Merge` of `run()`.
`registerChannel` is unbuffered, so what it holds are the goroutines that want to
send: `senders[w]`. Files are abstracted to which map tasks have been written and
which of them a reduce task has read; `Sequential` is what the sequential run
makes of them. `LateStart` says whether a task's goroutine may start after
`wg.Wait()` has looked at the counter: Go allows it, and it is set to `FALSE` only
to see what the rest of the program does when it does not happen.

### EtcdRaftNode

The etcd library is external: `entries` is the log that the cluster decides, and a
`Ready` brings some of it, or a tail that may be replaced, or a snapshot ahead of
the log. (A snapshot that ends within the log and contradicts its uncommitted tail is
left out: an entry is known by its index alone.) Modelled
are `startRaft` with `replayWAL`, the event loop of `serveChannels` step by step
(`TakeEntries`, `saveSnap`, `publishSnapshot`, `publishEntries`,
`maybeTriggerSnapshot`), the proposer goroutine, the stoppable listener, the
goroutine `readCommits`, `main` and the REST handlers, and `Crash` between any two
of these steps. A `HardState` that only moves `Commit` is not synced, so a restart
may read an older one.

`Logs` gives the logs that the cluster may decide, `MaxCrashIndex` how long the log
is at most when the process is killed.

What the model shows of this code beside the properties: `kvstore.go:83` follows a
nil pointer whenever there is a snapshot to load, so a process that has ever written
a snapshot does not come up again; a snapshot may lack the last Put, which
`readCommits` has received but not yet written (`raft.go:341`), and one that is taken
while the kvstore has still to load a received snapshot lacks what that one had, and
replaces it on disk (`SnapshotLacksAtMostLast` allows these two and nothing else);
`getSnapshot` runs on a nil `kvs` when a snapshot is due during the replay;
`lastIndex` counts the uncommitted end of the WAL (`raft.go:227`); shutdown waits
for a leader as long as the proposer is inside `node.Propose` (`raft.go:390`).
`ComesToServe` counts a panic as an end of the start: that there is one is what
`Recovers` is about.

## Runs

Every bound is a constant. Deadlock is not checked as such: each model stops
when its bounds are used up, the job is over or the server is killed; where somebody
could wait for ever, a liveness property says that they do not.

| Run | Bounds | Properties | Distinct states |
|---|---|---|---|
| `raft_peers` | 3 peers, 2 in flight, 1 restart, up to term 5 and 2 entries, along four courses | `TypeOK`, `ElectionSafety`, `VotesAreDurable`, `OneVotePerTerm`, `LogMatching`, `LeaderCompleteness`, `StateMachineSafety`, `LogIsDurable`, `NoPanic`, `CommitCovered`, `MatchIndexSound`, `TermMonotonic`, `LeaderAppendOnly`, `ImplementsLog` | 339,970 |
| `raft_loop` | 1 caller, 1 peer call, 1 sender, log of 3 and the caller's entry | `NoPanic`, `AppliedIsCommitted`, `PeersAnswered`, `AppendLogReturns`, `CommittedIsApplied` | 317,663 |
| `kv_service` | 2 servers, a Clerk that writes twice and one that reads, 3 calls, 2 handlers at a time, 1 restart | `OnceInOrder`, `AckedApplied`, `ReplicasAgree`, `Linearizable` | 640,958 |
| `kv_harness` | 3 servers, 1 client, 1 call, 2 lives, 3 functions of the harness, unreliable and reordering | `AckedIsSaved`, `Isolated`, `CallReturns` | 506,506 |
| `mr_job` | 2 files, 1 reducer, 3 workers (one limited to 2 calls, one may crash), no late start | `WorkerAccounted`, `PhaseBarrier`, `OutputComplete`, `JobCompletes` | 224,467 |
| `etcd_node` | three logs of up to 4 entries, 1 crash with up to 2 entries, `snapCount` 1 | `AppliedInOrder`, `WrittenAhead`, `ReadsSurviveRestart`, `NoFatal`, `SnapshotLacksAtMostLast`, `RemovedNodeExits`, `ShutdownCompletes`, `ComesToServe` | 113,874 |

Why the bounds are enough. Three peers are the smallest cluster in which a minority
can fail; terms start at 1, so term 3 is two elections. `raft_peers` follows one of
four courses, which `MCRaft` states as restrictions on who stands for election, who
is connected and when a peer may be restarted; within a course every interleaving,
loss and reordering is explored, and each of its behaviours is one of `Raft`.

* "elections": anybody may stand, in two terms with a crash or three without, and
  there are no commands.
* "restarted": one command, and a crash of any peer at any point, the one between
  `commitTo` and `persist` included, with another leader in the next term.
* "partitioned": two entries, one peer cut off for a term; logs diverge, are cut and
  are repaired.
* "alternating": two peers lead in turn over terms 2 to 5 and reach only the third.
  A leader that committed an older term's entry by counting its replicas
  (`raft.go:423`) would lose it here.

In `raft_loop` three committed entries are
what it takes to fill the chain from `run` to `getApply`: with two, holding `kv.mu`
over `Start` would go unnoticed. Three calls of two Clerks let a repeated
operation and a competing one be proposed at the same index; the duplicate table is
per Clerk, so two Clerks show whether one disturbs the other. Three functions of the
harness are a shutdown, a start and a partition during one call. Four entries of an
etcd log are enough for two snapshots of the node's own in one life, and for own and
received ones in either order, which is where `CreateSnapshot` and `Compact` could
refuse their index.

Server symmetry is used where no operator orders the servers and no liveness
is checked.

### Where the code and what is said of it disagree

Each of these runs ends with a counterexample; `findings` in `PROJECT.json` quotes
both sides.

| Run | Property | What happens |
|---|---|---|
| `raft_late_encode` | `LogMatching` | a request of a deposed leader is encoded after its log was overwritten, and carries the new leader's entries behind the wrong previous entry |
| `raft_late_reply` | `LateRepliesHandled` | a refusal that outlives two changes of leadership makes the leader index its log out of range |
| `kv_duplicate` | `OnceInOrder` | the handler of an abandoned Get sets `ack` back; a repeated Append is then applied twice |
| `mr_late_start` | `PhaseBarrier` | `wg.Add(1)` inside the goroutine: `schedule` may return before a task has run |
| `mr_count` | `CountIsExact` | `Shutdown` sets its reply before it takes the shutdown RPC off the count; a worker that has done two tasks reports three |
| `etcd_restart` | `Recovers` | the `HardState` of a received snapshot is saved before the snapshot; a node killed in between panics when it is started again |

`raft_late_reply` and `raft_late_encode` use `MCRaftScenarios` and `MCRaftSend`,
which fix per term who stands for election and who is connected, the way the test
harness does, to reach long schedules; each of their behaviours is a behaviour of
`Raft` or `RaftSend`. `raft_late_encode` needs five servers: with three, a follower that
has acknowledged the previous entry makes a majority with the leader.

In `kv_service` no Clerk reads before it writes: the run shows that duplicates are
handled correctly under this condition, `kv_duplicate` what a Get does to it.
Likewise `mr_job` assumes that the goroutines start in time; `mr_late_start` shows
what happens when they do not.

Smaller disagreements that the models reproduce and no run is about: a refusal never
carries the index of the conflicting term, because a loop variable shadows it
(`raft.go:798`); a late refusal lowers `nextIndex`, and the next acknowledgement
then lowers `matchIndex` (`raft.go:920`), which `MatchIndexSound` shows to be
harmless; a single peer becomes leader without saving its term, so that a restart
takes it back (`raft.go:997`), and never commits (`raft.go:921`); every task looks
up `mr.files[i]`, so a job with more reducers than files indexes out of range
(`schedule.go:41`); a worker that has answered Shutdown waits in Accept for
another connection (`worker.go:48`).

### Fairness

* `raft_loop`: weak fairness for each goroutine's own steps and for timeouts; strong
  fairness for a handler or a caller to be served by `run`, because a `select` with
  several ready cases chooses at random and waiters of one channel form a queue, and
  for getting `kv.mu`, which Go hands to a starving waiter. Nothing is assumed of
  ticks, of peers or of `Kill`.
* `kv_harness`: weak fairness for the goroutines of a call, and for a handler of a
  server that has not been killed. The test may stop at any time.
* `mr_job`: weak fairness for each goroutine's steps; strong fairness for taking a
  worker from `registerChannel`, whose receivers are served first come, first
  served. Crashes may happen or not.
* `etcd_node`: weak fairness for the goroutines, and strong fairness for the case of
  the event loop's `select` that ends it. Of the cluster: it goes on deciding
  entries and sends them to this node, and there is a leader some time while a
  proposal waits. A cluster without these never gets a node past its replay.

Liveness of elections and of a Clerk's call over Raft is not stated: it rests on
timers that are random in the code and arbitrary in the model.

## Proofs

`RaftProofs`, `RaftElectionProofs` and `KVRaftProofs` hold for every finite,
non-empty set of servers, every set of commands or Clerks and their operations, and
all values of the bounds, from the named assumptions of `Raft` and `KVRaft`.

* `RaftProofs!TypeCorrect`: `Spec => []TypeOK`. `TypeOK` is not inductive: that a
  reply names a positive next index follows from `commitIndex` never being beyond
  the end of the log (`GoodPeer`), which every handler keeps and a restart
  re-establishes. The inductive invariant is `TypeInv`, and there is a lemma per
  handler that says which peer record and which reply it returns.
* `VotesSurviveCrashes`, `VotesOncePerTerm`, `ElectionIsSafe`:
  `VotesAreDurable`, `OneVotePerTerm`, `ElectionSafety`. The inductive invariant
  `ElectionInv` says, for clusters with a quorum other than one: every ballot of
  which there is a trace (in flight, counted, or in a leader's majority) is in the
  voter's stable storage, or the voter has saved a later term; the term and vote in
  memory are the saved ones; and every leader was elected by a quorum. Two
  ballots of one voter in one term then name the same candidate, and two quorums
  share a voter.
* `TermsNeverDecrease`: `TermMonotonic`, for clusters with a quorum other than one.
* `KVRaftProofs!TypeCorrect`, `AnswersAreChosen`: no server is handed more than was
  chosen, the channel of an index holds only what was chosen there, and nothing is
  answered that was not chosen. The inductive invariant `Inv` adds to `TypeOK` that
  a handler whose `AppendLog` has returned true has its operation in the log; what
  makes this inductive is that `getApply` puts into `result[index]` what stands in
  the log at `index`, and that `log` only grows.
* `RestsOnContract`: `OverSpec => Spec`, from `KVOverLog` to `KVRaft`. The
  contract's decided entries are those of `log`, and its position of a server is how
  far Raft has committed there, which may be ahead of `prevIndex`. The invariant
  `OverInv` adds to `Inv` that what Raft still has of the proposals was proposed
  by the service, and that no server's `prevIndex` is ahead of its position. With it a step of Raft is `Choose` or a stutter,
  a `Start` is `AppendLog`, and a restart, which may commit a last time, is
  `Restart`. Together with `ImplementsLog` this is what carries the properties of
  `KVRaft` over to the program.

Left to TLC: liveness; what recursive definitions compute; Log Matching, Leader
Completeness, State Machine Safety and `ImplementsLog` of `Raft`; `OnceInOrder`,
`AckedApplied`, `ReplicasAgree` and `Linearizable` of `KVRaft`; and the properties
of `RaftLoop`, `KVHarness`, `MapReduce` and `EtcdRaftNode`.

## Not modelled

* `viewservice`, `pbservice`, `paxos`, `kvpaxos`, `diskv`, `shardmaster`, `shardkv`
  and their Paxos variants are course skeletons: their operations have no bodies,
  so there is nothing to translate.
* `lockservice`: `Lock` is a test and set under one mutex; `Unlock` and everything
  about the backup are empty.
* `main/` (drivers for word count, inverted index and others), lecture material and
  vendored libraries. The etcd raft library appears as `EtcdRaftNode` uses it.
* Encoding (gob, JSON), reflection in labrpc, the counters of `GetCount`, hashing of
  keys to reducers, logging.
* The values of timers. Timeouts and elections may be due at any time; a model of
  their distribution is needed for progress of elections.
* `raft/config.go`: its waiting and counting loops. What they assert is stated as
  properties of `Raft`. In `kvraft/config.go`, `cleanup`, `deleteClient` and
  `LogSize`, which leave the network alone.
* MapReduce's `CleanupFiles` and the accept loop of the master's own RPC server.
* I/O and decoding errors of the etcd example, each of which ends the process.
* More than one key: no operation of the service touches two.

## Running it

In this directory, with the community modules on the path:

    tlc -config RaftPeers.cfg MCRaft
    tlapm RaftElectionProofs.tla

`runs` in `PROJECT.json` names the module and the configuration of each run. A run
takes one to three minutes; the proofs take about ten minutes (`RaftProofs`),
fifteen (`RaftElectionProofs`) and five (`KVRaftProofs`).
