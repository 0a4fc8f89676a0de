# Formal model of the Multi-Paxos distributed transaction system

TLA+ modules, TLC configurations and TLAPS proofs about the C++ program in
`src/`: a sharded key-value bank in which every shard is a cluster of `PaxosNode`
processes, a client retries transfers until they are answered, and a driver kills
and recovers nodes between rows of a test file. Line numbers refer to the commit
in `src/`; `paxos_node.cpp` stands for `src/src/paxos_node.cpp` and so on.
`PROJECT.json` maps every definition that models code to the lines it models.

    tlc -workers 2 -config Boot.cfg MCStableLeader      # one run
    tlapm PaxosClusterProofs.tla                        # one proof module

## 1. Inventory

### Components, state, operations

| Component | State | Operations | Where |
|---|---|---|---|
| Multi-Paxos node | role, `leader_id_`, `current_ballot_`, `highest_promised_ballot_`, `accept_log_`, `pending_entries_`, `pending_client_calls_`, `accepted_count_`, `entries_to_commit_`, `last_executed_seq_`, dedup set, account locks, election timer | one handler per RPC (Prepare, Promise, NewView, Accept, Accepted, Commit, Heartbeat, Request), timer expiry, kill, revive | `paxos_node.cpp` 11-2228 |
| Two-phase commit | `two_pc_*` tables, write-ahead log, retry thread | PREPARE, PREPARED, COMMIT, ABORT and their acknowledgements, each logged through Paxos on its shard | `paxos_node.cpp` 394-432, 2374-2824 |
| Client | `inflight_`, `timer_heap`, flags of `PendingRequest`, `leader_per_cluster_` | SendRequest, TimerLoop, SendToLeader, BroadcastRequest, HandleLeaderReply, HandleMoveOn | `paxos_client.cpp` |
| Driver | the row of the test file, `remaining_transactions`, the input thread | submit, wait for a set or a failure row, kill, recover, move on, reshard, print | `node_launch.cpp` |
| Shard map | account to cluster | MakeShardMap, Reshard | `node_launch.cpp` 123-210, 427-447 |
| gRPC call objects | one object per RPC | Proceed, OnComplete | `call_data.cpp`, `call_data.h` |
| Database | SQLite file | switched off (`alv_` is false) | `paxos_node.cpp` 2912-3071 |
| Benchmark, logging, generated stubs | none that matters | | `benchmark.h`, `log.h`, `grpc/` |

### How they interact

The driver forks the nodes, hands requests to the client and kills or recovers
nodes by RPC. The client sends a request to the leader it remembers for the
sender's shard and, from the second try on, to every node of that shard. A backup
forwards or queues it; the leader of the shard gives it a sequence number and
replicates it to the backups. Acknowledgements make it committed, commits are
executed in order of sequence numbers, and the leader answers the client. Each
node has several polling threads for its completion queues, an election timer
thread, a heartbeat thread and a retry thread; the client has a timer thread and
a server thread. All messages are asynchronous gRPC calls that may overtake each
other; none is repeated, and one to a dead node is lost.

### What is hard, and what correctness means

* *Node.* A view change has to preserve what an earlier leader may have committed
  although messages overtake each other and promises, NEW-VIEWs and
  acknowledgements of several elections mix. Correct: replicas apply the same
  transactions in the same order, once; what was answered survives; a node keeps
  its promise; a new leader's log has no gap; a leader that steps down leaves no
  call behind; as long as a quorum lives, every request is answered.
* *Two-phase commit.* Correct: both shards decide alike, an abort restores the
  balance, locks are released, a retry is not executed twice.
* *Client and driver.* Four threads share three tables. Correct: the count of
  remaining transactions is exact, since the driver's barriers wait on it; a
  pending request is always scheduled to be resent; the cached leader belongs to
  its cluster; the driver gets through the file.
* *Threads inside a node.* Locks, the dedup set, the execution loop and the timer
  thread are used by several handlers at once.

The full list, with a line for each, is `hazards` in `PROJECT.json`.

## 2. Plan

Modules in the order of importance; those marked * exist.

1. `PaxosCluster`* - one cluster, handlers atomic.
2. `ReplicatedLog`* - what a cluster promises; `PaxosCluster` is checked to
   implement it.
3. `PaxosClient`* - client and driver, at the level of threads.
4. `TwoPhaseCommit`* - several clusters: coordinator, participant, retry thread,
   write-ahead log, HandleMoveOn, loss of a leader.
5. `NodeThreads`* - duplicate checks, account locks and the claim of a timestamp in
   ProcessClientRequest, commit and the execution loop, run by several threads.
6. `Sharding`* - MakeShardMap against what a shard map is.
7. `ElectionTimer` - StartElectionTimer, StopElectionTimer, ResetElectionTimer.
8. `LogMerge` - the merge rule of a view change against the reference "the value
   that may have been chosen".

What a theorem can still say: that the two modules above, once written, keep their
promises; and, of `TwoPhaseCommit`, under which condition on the transfers undo
information stays current and balances match replies (section 5 says why those are
bounded so far).

## 3. The modules

### PaxosCluster

State variables keep the names of the members of `PaxosNode`, as functions from
nodes. `accept_log_`, `pending_entries_` and `entries_to_commit_` are functions of
the sequence number with a value for "absent"; `accepted_count_` is the set of
triples its nested map stands for; `pending_client_calls_` is the set of sequence
numbers with an open call. `applied` is a history: which request ExecuteTransaction
applied at which sequence number. Balances are a function of that history and are
left out, and a request is identified with its timestamp.

| Action | Code |
|---|---|
| HandleFirstRequest, AbortOnOwnForward, ProcessClientRequest | HandleClientRequest, ProcessClientRequest 176-516 |
| Campaign, SkipCampaign | OnElectionTimeout, SendPrepare 1705-1865 |
| HandlePrepare, RejectPrepare | HandlePrepare, SendPromise 519-619 |
| HandlePromise, BecomeLeader | HandlePromise, merge, gap filling, BecomeLeader, SendNewView, OnElectionComplete |
| HandleNewView | HandleNewView 1406-1542 |
| HandlePropose, StepDownOnPropose | HandlePropose 832-942 |
| HandleAccept, CommitEntry | HandleAccept 1545-1639, CommitEntry, BroadcastCommit, the execution loop |
| HandleCommit | HandleCommit 1341-1379, the execution loop |
| HandleHeartbeat | HeartbeatLoop, ResetElectionTimer |
| Kill, Revive, ReviveForNewSet | kill, revive, HandleSetAlive 2149-2228 |
| Drop | the early returns of every handler |

Messages in flight are a set: gRPC delivers a call at most once and in any order.
Loss is loss to a dead receiver, the only one the code meets; duplication comes
from the client, whose retries are free to reach any node at any time. Time is
abstracted: a running timer of a backup may expire at any moment and
`prepare_cooldown_` is a choice, available once the node has heard a leader.
The order in which MergeAcceptLogsFromPromises visits an `unordered_map` is a
choice among the entries of the highest ballot. A NO-OP that is executed ends the
process, as `std::stoi("")` throws; so does `std::abort` in ProcessClientRequest.
CommitEntry of a number for which neither `pending_entries_` nor `accept_log_` has an
entry commits a blank one (959-968), which is executed like a NO-OP; its Commits carry
the number 0 and are executed by nobody, so none is sent. That `operator[]` leaves the
blank entry in `accept_log_` is left out; the process ends with the execution, and
CommitFindsEntry says when all this cannot happen.

A handler is one atomic step. What threads of one node can do to each other inside
a handler is the subject of `NodeThreads`. The account locks, duplicate checks and
claims of ProcessClientRequest are part of its action here but cannot race.

### ReplicatedLog

One log that grows and has no repetition, a position in it for each replica, and
answers only for applied entries. The refinement mapping takes the longest applied
history as the log, `last_executed_seq_` as positions, and `replies` as answers.

### PaxosClient

A step is one critical section of a thread, or what it does between two. The
driver's thread counts a request (792) before SendRequest queues it; TimerLoop
pops and reschedules under one lock (TimerPass) and sends afterwards, one request
per step; HandleLeaderReply takes the request out of `inflight_`, updates the cache
and counts down in three steps; HandleMoveOn takes no mutex and has a step for each
operation on a shared container: mark and reset, size, clear, drain, subtract. Every
other thread may run between two of them, and a reply that finds a pointer which was
reset ends the process (`crashed`). The loop that marks and the one that drains are a
step each; what a container that is changed by two threads at once would do is left
out. The clusters are external: a request that reaches the leader of its cluster is
answered, once by each later leader as well, and one that was not answered may be
lost when the leader changes. After the last row the driver waits once more (816);
`Finished` is the end of that wait.

### TwoPhaseCommit

Here balances matter, and with them what each phase does to them. A transfer
between shards is proposed by the leader of the sender's cluster with status COORD
and announced to the receiver's cluster by a PREPARE; that cluster proposes it with
P, or with A if the receiver's account is locked, and votes once its entry is
executed. The second phase reuses sequence number and ballot of the first with the
status of the outcome (C_COORD or A_COORD, C or A_PART_COMMIT).

The state of a node is one record and each function of the code that takes part is
an operator from records to records, so that an action is the handler's composition
of them: HandleCommit, for instance, is RecordCommit, then the execution loop or
ExecuteRepeatedTwoPCEntry, which themselves may vote, reply or start a second phase.
What they send is collected and becomes messages when the handler ends.

| Action | Code |
|---|---|
| ProcessClientRequest, HandlePrepare, ForwardPrepare | ProcessClientRequest 217-516 |
| HandlePropose, HandleAccept, HandleCommit | the same handlers, with CommitEntry, ExecuteTransaction and the loop 946-1273, 1341-1379, 1545-1639 |
| HandlePreparedAndAborted, HandleCommittedAndAborted | 2431-2570, 2686-2698 |
| RetryPrepare, HandlePreparedTimeout | TransactionRetryLoop, HandlePreparedTimeout 2700-2824 |
| HandleMoveOn | 2300-2368 |
| Kill, Elect, HandleNewLeader | DemoteToBackup 2047-2134, HandlePromise at quorum with OnElectionComplete and NEW-VIEW, InformClustersOfElection 818-841 |

NodeState is the type of that record and Message the union of the RPCs' types, so
that TypeOK says which votes, statuses and sequence numbers may meet in a handler.
`outcomes` is a history of the second phases executed. `resolved`, `out` and `told`
are empty between handlers; a process with `exited` set runs no thread any more. An election is one step of the live nodes of a cluster
without a leader; a gap in the merged log is not followed further, as executing the
NO-OP that fills it ends the process. `accept_log_`'s AcceptedEntry keeps its
`phase2_result`, which decides what a merge and a reconciliation do. Only votes A
are kept of `pending_entries_` (`blank_votes`), since all other entries agree with the
log there: those a leader proposed, and those a backup stored (913) and has not erased
after executing them (1161-1165), which it prefers in CommitEntry should it come to
lead. `leader_id` is where a backup forwards a PREPARE; `cluster_leaders` is where a
leader sends its votes and decisions. SetNewLeader sets both, the second at index
`shard_map_[node_id_]` (2140), the cluster of the account with the node's number:
constant OwnSlot, which is the first cluster for every node of the instances.
The vector that HandleMoveOn empties and later code indexes is taken to keep its
storage, which is what `clear()` of this type leaves in practice; the other outcomes
of that undefined behaviour are outside the model.

`TimelyNext` is the part of `Next` in which leaders stay up and no coordinator gives
up on a vote. It is what the passing run explores; `Failure` holds the rest and is
explored by the runs that find disagreements.

### NodeThreads

One cluster with a leader that stays up; a step is what a thread does between two
mutexes. A client call is a thread that goes through ProcessClientRequest: first
check, try_lock of the sender, try_lock of the receiver, claim, proposal. An
acknowledgement that completes a quorum, or a Commit on a backup, is a thread that
records the entry under `pending_mutex_`, tests outside of it whether the entry is
the next, and runs the loop: take the next entry under the mutex, execute it outside
(check the balance, load, store, load, store, unlock), reply, go back. The check (1191)
and the load of the debit (1215) are two reads of the balance, and the
read-modify-write of a balance is a load and a store, as `accounts_` is not guarded.
Only the leader locks accounts; on a backup nothing keeps two threads apart. Read-only requests
are answered from `accounts_` after the first check, and once per timestamp.
`serial` is a history: the balances of each node had it executed, one after the
other, the entries its threads have taken.

### Sharding

MakeShardMap as an operator. An assumption compares it with what a shard map of
ranges is, for up to 12 items and 5 clusters; TLC evaluates it with every run of
`MCTwoPhaseCommit`, which takes its shard map from there.

### MC modules

`MCPaxosCluster` has the instances of the cluster. Three starting states save the
bounds for what follows; each is reachable from Init:

* established: node 1 campaigned, was elected, both backups handled its NEW-VIEW
  and all messages are consumed;
* crashed: after that, node 1 proposed r1 and r2 and was killed while its Accepts
  were under way;
* rivals: after established, both backups' timers expired.

`MCStableLeader` adds the inductive invariants of `FirstViewProofs` to these
instances. `MCPaxosClient` has two clusters of two nodes and a test file.
`MCTwoPhaseCommit` has two clusters with two live nodes each (three in the cluster
that loses its leader), three items and three transfers: one between the clusters in
each direction, through the same accounts, and one within a cluster. `MCNodeThreads`
has two transfers from one account that cannot pay both, a third transfer that needs
the money of the second, a read, and a retry of the first transfer and of the read.
The test file of `MCPaxosClient` has two requests, a failure row, a new set, a
request and a failure row, and the wait after the last row.

Action constraints leave out behaviour, and are named in the configurations:

* FirstLeaderStaysDown (leader_crash) does not revive the crashed leader;
* FocusOnSharedBallot (failover): from the established state there is one campaign
  more; from the rivals state one request, no delayed promise, an old leader that
  handles only the Prepares, and a kill only of the leader whose ballot the other
  candidate has come to lead; in both no heartbeat that does no more than restart a
  timer once the campaigns are used up. That is the way to the `std::abort` of
  ProcessClientRequest, and rivals_conflict has the unrestricted rivals;
* OneDisturbance (two_pc) allows one repeated PREPARE or one HandleMoveOn that finds
  something to abandon, not both;
* ConfirmAtOnce (two_pc) handles a COMMITTED or A_PART_COMMIT as soon as it is sent:
  it only removes an element that no guard reads, so that every other order leads to
  the same states;
* BackupsLast (node_threads) lets the threads of a backup run when those of the
  leader have nothing to do. Nothing goes from a backup to the leader but its
  acknowledgements, which are no steps of these threads, so that the two commute;
* OrderlyUntilKill (lost_decision) fixes the order of messages inside a cluster until
  the participant's leader is killed. It shortens the search for a violation, and
  cannot make one up.

## 4. Runs

| Run | Instance | Shows |
|---|---|---|
| boot | 3 nodes, 1 request, 1 campaign, 1 kill, cold start, fair | the inductive invariants of the first view; an answered request is in the log of a quorum; the request is answered unless the first leader or a majority fails |
| shared_account | 3 nodes, 2 transfers through one account, 1 kill, fair | account locks are released, both transfers are answered and live replicas catch up |
| failover | 3 nodes, 1 kill; an established leader, 2 requests competing for 1 sequence number and 1 campaign, or 2 rival campaigns and 1 request | types; no divergence, no rewritten history, no ballot above a promise and no client call left behind through one change of leader, and when two nodes lead one ballot |
| leader_crash | 3 nodes, leader lost with two proposals under way, then a new election | the successor's log is gapless, histories are prefixes, a commit finds its entry, claims are in the log, the cluster implements `ReplicatedLog` |
| client | 2 clusters of 2 nodes, 3 requests in 2 sets, 1 change of leader, 1 Continue, fair | until the Continue the counter is exact, pending requests are scheduled, barriers hold and the driver finishes; through it the cache stays in its cluster and a request scheduled outside HandleMoveOn is answered or dropped, whatever overlaps HandleMoveOn |
| two_pc | 2 clusters of 2 live nodes, 2 opposite transfers, a repeated PREPARE or a Continue | both clusters decide alike; leaders show exactly the transfers reported as successful; locks come free; undo information stays current; nobody waits for a message that nobody sends |
| node_threads | 2 nodes, 3 transfers, a read and 2 retries, 3 sequence numbers, fair | each entry executed once, each request answered once, no wake-up lost, the leader's balances serial and never negative, every call ends |
| rivals_conflict | two simultaneous campaigns | violation: leaders of two ballots commit different requests at one number |
| commit_order | 1 transfer between shards | violation: a backup never applies it |
| lost_decision | 1 transfer, the participant's leader killed | violation: a reported transfer is half undone |
| lock_leak | 1 transfer and its retry | violation: both accounts stay locked |
| continue_barrier | the test file, 1 Continue | violation: a failure row is executed with a request in flight |

Deadlock is not checked: every run stops when its requests are answered and its
bounds are used up. What it would show for two-phase commit is the invariant
NobodyWaitsForever: when no message is in flight nothing is outstanding.

### Why these bounds

Three nodes with F = 1 are the smallest cluster with a quorum that is neither one
node nor all, and the size the repository runs. Two campaigns give one change of
leader, from an established one; three give two rivals against it, which is where
promises and ballots of different elections mix. Two requests for one sequence
number are what divergence needs; two sequence numbers are what a gap, an
out-of-order commit and the execution of several entries at once need. Symmetry is
used only over requests, in a run with safety properties and requests that differ
in nothing.

Two live nodes of three are exactly a quorum, so that in two_pc both have to handle
every entry and the order of their messages is still free. Two transfers in opposite
directions are the smallest set in which each cluster coordinates and participates
at once, and in which votes A, parked votes and locks held for a second phase
happen. In node_threads two transfers that share a sender are what an overdraft
between check and debit needs, and one that needs the other's money is what an
unserial execution needs; a retry races through each window of ProcessClientRequest,
and three sequence numbers let entries become executable together.

Where a property holds under these bounds and is known to fail beyond them, the
run's bound is what makes it hold, and this is said here. Agreement holds with one
change of leader from an established one and fails with rival campaigns
(rivals_conflict). ReplyIsDurable holds with one campaign and fails with two.
ClaimIsLogged fails with a third campaign, when a former leader whose proposal was
superseded is elected again. EveryRequestIsAnswered fails when each backup is down
once at the moment of an Accept, as nothing is sent again (a limitation
Documentation.md lists). Atomicity fails with a second timeout,
LeadersMatchReplies with an overdraft, with a lost leader and with a third transfer,
WalIsCurrent with a third transfer (section 6).

### Fairness

`FairSpec` has weak fairness of "some node handles a message, a request reaches a
node, or a timer that runs expires": gRPC delivers calls and the pollers of a live
node handle them, the client repeats an unanswered request every 100 ms, and the
timer thread keeps running. It is one disjunction, so it says only that the system
does not stand still while one of these is possible; every such step uses up a
message, a sequence number, a campaign or a node's first request, so that none can
go on forever in place of another. Kills, recoveries, heartbeats and losses are
not fair. The client's fairness is that its threads and the driver run, that every
request still in the heap is among the expired ones again and again (strong
fairness, as a pass handles all that have expired), and that leaders answer. The
user's Continue and changes of leader are not fair.

`NodeThreads` has weak fairness of its next-state relation: threads run and peers
answer. Every step advances a call, an acknowledgement, a Commit or an entry, so none
can be repeated forever in place of another, and no more is needed. `TwoPhaseCommit`
states no fairness: that everything ends there is NobodyWaitsForever together with
the fact that every handler uses up a message or a bound.

### Continue

HandleMoveOn takes no mutex (`paxos_client.cpp` 337-367), and the model lets every
other thread run between its steps. What the client keeps up to the first Continue and
not beyond is said of the time before it: ExactUntilContinue, ScheduledUntilContinue,
BarrierUntilContinue and, with fairness, FinishesUnlessContinue. With a Continue the
counter, the heap, the barriers and the driver's end can all go wrong (continue_barrier,
and section 6). What holds with it as well is in run client: types, the cached leader,
and ScheduledIsSettled, that a request which is in flight and in the heap while no
HandleMoveOn is under way is answered or dropped by a later one, or the process dies.
One Continue and one change of leader are the bound: the change is what makes a retry
necessary, and a second of either takes the run past five minutes.

## 5. Proofs

Each theorem is for every value of the constants that the module's assumption
allows: `ConstantsAssumption` of `PaxosCluster` (node ids are positive naturals, F a
natural, NoOp and None are no requests), `ThreadsAssumption` of `NodeThreads` (the
leader is a node, a transfer has two different accounts, amounts and balances are
naturals), `ClientAssumption` of `PaxosClient` (a request is one row of the test
file), `ConstantsAssumption` of `TwoPhaseCommit` (finitely many nodes, each in one
cluster, the first leader of a cluster is one of its nodes).

| Module | Theorem | Statement |
|---|---|---|
| PaxosClusterProofs | TypeCorrect | `Spec => []TypeOK` |
| | HistoriesHaveNoGaps | `Spec => []AppliedIsPrefix` |
| | HistoriesAreFinal | `Spec => ExecutionIsFinal` |
| | AnswersAreApplied | `Spec => []RepliesAreApplied` |
| | BallotsStayWithinPromises | `Spec => []BallotWithinPromise` |
| | CallsAreReleased | `Spec => []NoOrphanedCalls` |
| FirstViewProofs | AgreementInFirstView | `Spec => [](campaigns <= 1 => Agreement)` |
| | OneLeaderOneLog, FirstViewIsSound | `Spec => []StableLeaderInv`, `Spec => []FirstViewInv` |
| | RepliesAreDurable | `Spec => [](campaigns <= 1 => ReplyIsDurable)` |
| | FirstLogHasNoGaps | `Spec => [](campaigns <= 1 => LeaderLogHasNoGaps)` |
| | QuorumsNameEntries | `Spec => [](campaigns <= 1 => CommitFindsEntry)` |
| | ClaimsAreLogged | `Spec => [](campaigns <= 1 => ClaimIsLogged)` |
| | NoExitInFirstView | `Spec => [](campaigns <= 1 => NoProcessExits)` |
| | FirstViewRefines | `Spec /\ [](campaigns <= 1) => RefinesReplicatedLog` |
| NodeThreadsProofs | ThreadsAreTyped | `Spec => []TypeOK` |
| | EntriesAreExecutedOnce | `Spec => []ExecutedOnce` |
| | NoWakeUpIsLost | `Spec => []NothingLeftBehind` |
| | RequestsAreAnsweredOnce | `Spec => []AnsweredOnce` |
| | LeaderExecutesSerially | `Spec => []LeaderIsSerial` |
| | LeaderIsNeverOverdrawn | `Spec => []LeaderNeverOverdraws` |
| PaxosClientProofs | CountIsExact | `Spec => []ExactUntilContinue` |
| | PendingStaysScheduled | `Spec => []ScheduledUntilContinue` |
| | RepliesAreSafe | `Spec => [](BeforeContinue => ClientSurvives)` |
| | BarriersHold | `Spec => BarrierUntilContinue` |
| | TypeCorrect | `Spec => []TypeOK`, if NodesPerCluster <= NumClusters |
| | CachedLeaderInCluster | `Spec => []CachedLeaderIsInCluster`, if NodesPerCluster = NumClusters |
| TwoPhaseCommitProofs | TwoPhaseCommitTypes | `Spec => []TypeOK` |
| AtomicityProofs | TransfersAreAtomic | `TimelySpec => []Atomicity`, if sharding_map = shard_map |
| ProgressProofs | ProgressIsInvariant | `TimelySpec => [](TypeInv /\ ProgressInv)`, if sharding_map = shard_map and Quorums |
| | NobodyIsLeftWaiting | `TimelySpec => []NobodyWaitsForever`, likewise |
| | EveryLockComesFree | `TimelySpec => []LocksComeFree`, likewise |
| UndoProofs | UndoInformationIsCurrent | `TimelySpec => []((\A a \in Account : UndoSafe(a, move_ons, outcomes)) => WalIsCurrent)`, likewise |

### The hypotheses

* `campaigns <= 1`: until a second election is started. It is how far the code
  guarantees these properties; section 4 says which second or third campaign breaks
  which. Kills, recoveries, lost and reordered messages are all allowed.
* `BeforeContinue`, which ExactUntilContinue, ScheduledUntilContinue and
  BarrierUntilContinue contain: until the user first types Continue. It is how far the
  client guarantees this, for a thread that overlaps HandleMoveOn breaks each of them
  (continue_barrier; section 6).
* NodesPerCluster against NumClusters: HandleLeaderReply takes `(id-1)/num_clusters`
  for the cluster of a node. Documentation.md:374 names the condition NodesPerCluster
  = NumClusters, and Documentation.md:38 says that deployments are 3 clusters of 3.
  Types need only the inequality.
* `TimelySpec`: leaders stay up and no coordinator gives up on a vote (HandleMoveOn,
  first retries of PREPARE and every order of messages are in it). Atomicity is false
  beyond (section 6).
* `Quorums`: F is at least 1 and every cluster has at least F+1 nodes, as in every
  deployment (2F+1 of them). With fewer no quorum is ever reached; with F = 0 the
  leader's own vote would be one, and CommitEntry runs only when an acknowledgement
  of a peer arrives.
* `UndoSafe` of an account: at most two transfers are from or to it, or it is not
  disturbed, that is, no participant has carried out an abort of a transfer to it and
  nobody has called HandleMoveOn. Both of these unlock an account by its name (2662),
  and a third transfer then breaks WalIsCurrent (section 6). The transfers of two_pc
  satisfy it in every state; any number of transfers do until the first abort or
  Continue.
* `sharding_map = shard_map`: the nodes' map is the client's, as it is until the user
  reshards. Otherwise a transfer reaches a cluster that is not its coordinator (section 6).

### PaxosCluster

`PaxosClusterProofs` proves types action by action; a few lemmas say what an action
keeps and what SequentiallyExecuteCommittedEntries does to each variable, and the
other theorems cite those. AppliedIsPrefix, RepliesAreApplied, BallotWithinPromise
and NoOrphanedCalls are inductive relative to TypeOK. ExecutionIsFinal follows from
AppliedIsPrefix: the loop writes only above `last_executed_seq_`.

`FirstViewProofs` first proves agreement until a second election is started, which is
how far the code guarantees it (rivals_conflict, and the entry kept at 906). Agreement
is not inductive. What makes it so is the invariant StableLeader:

* SoleCandidate: only the initial leader leads or campaigns, and every ballot in
  the system is the first one or the ballot a node is constructed with;
* BeforeCampaign, BeforeElection: nothing has been proposed before it is elected;
* OneLog: every entry accepted, pending, to be committed or applied anywhere is the
  entry of the initial leader's log at that sequence number;
* OneLogInFlight: so is every entry in a message, and an acknowledgement is of a
  number that has an entry, so that CommitEntry commits no blank one;
* FreshSeqnums: the leader's log ends at `last_seqnum_`, so a proposal overwrites
  nothing.

Agreement follows, since two applied entries equal the same entry of one log. No
quorum is needed for it, so the theorem holds for any F: with one leader, quorums
matter for durability only.

`FirstViewProofs` adds what is about quorums and duplicates. FirstView is inductive
together with StableLeader:

* AcksAreLogged: an acknowledgement, counted or in flight, is of an entry that its
  sender has;
* CommitsAreChosen: what is committed or applied anywhere is in the logs of F+1 nodes.
  With AcksAreLogged this is the step from counting acknowledgements in
  `accepted_count_` to durability, and the cardinality argument is for every F;
* NumberedAreRequests, ClaimsMatchLog: the leader's log has a request at every number
  it has assigned, and the dedup set is exactly what the log holds, each once;
* LeaderIsKnown: nobody takes another node, and no backup itself, for the leader,
  which is what keeps ProcessClientRequest from `std::abort`;
* NoProcessExits.

FirstViewRefines shows each step of the cluster to be a step of `ReplicatedLog` or a
stutter: the longest history grows by the entries of the leader's log, which are
distinct requests, and replicas hold prefixes of it. TLC checks StableLeaderInv and
FirstViewInv in run boot.

### NodeThreads

`NodeThreadsProofs` proves that any number of threads in the execution loop take each
entry once and leave none behind. The three properties are not inductive one by one;
their conjunction with two facts is (ThreadsInv):

* WorkIsTaken: a thread at work has taken an entry that is there;
* ExecutionsAreCounted: the entries up to `last_executed_seq_` were taken once, those
  after it never.

NothingLeftBehind is the argument that a test made outside the mutex is enough: the
entry that becomes executable was recorded either by a thread that has yet to test,
or before the thread that moved `last_executed_seq_` returns to the top of the loop.

The last three theorems need who owns what (SerialThreadsInv): a request is claimed
by one call and proposed once (ClaimsInv), answered only when a thread has finished
its entry (AnswersInv), and an account lock belongs to one call on its way through
ProcessClientRequest or to one unfinished entry (LocksInv). Hence two entries in
execution share no account, and the leader's unguarded loads and stores amount to the
serial execution that the history `serial` records: an account no thread works on has
its serial balance, and for one that is worked on the invariant says what its thread
has still to do: after the check the balance is still enough, and what was loaded is
still the balance. That the balances of the leader are natural numbers is part of it,
and LeaderIsNeverOverdrawn follows. None of this is said of backups, which lock
nothing (section 6). That lock_leak leaves accounts locked does not matter here; it only
makes the set of locks larger than what is owned.

### PaxosClient

ClientInv says that the counter is the size of `inflight_` plus the requests announced
or being counted down, that what is in flight is in the heap and not marked completed,
and that the process lives. It is inductive as long as HandleMoveOn has not been entered
(UntilContinue), and the theorems say it of the time before the first Continue. The
counter is a cardinality, so the proof is by FiniteSetTheorems. Types, and the cluster
of the cached leader, hold with any number of Continues.

### TwoPhaseCommit

Handlers are compositions of operators on a node's record, and so are the proofs: a
lemma for each operator, one for each handler.

TypeOK is not inductive: StartSecondPhase and CommitEntry look up entries without
asking whether they exist, and a record's type would be lost if one did not. TypeInv
adds that a remembered sequence number is that of an entry (Sound), that a PREPARE
marked as sent has such a number, that an acknowledgement is for an entry its
receiver has and an Accept from a node that has the entry (Backed). It holds with
lost leaders, elections and coordinators that give up.

Two loops, the execution of committed entries and the reconciliation of a log, are
recursive functions of the number of rounds. Induction over their argument is not
available to the provers; instead, if some number of rounds led to a bad record there
would be a least one, by the well-foundedness of the naturals, and the round before
it contradicts that.

TransfersAreAtomic is about votes. VotesSettle says there are disjoint sets Y and N of
transfers such that every word about a transfer, as status or second-phase result of
a log entry, in a recorded commit, as a parked vote, in a message, or among the second
phases executed, is a yes-word for a member of Y or a no-word for a member of N. To
carry this through the tables that are indexed by sequence numbers it also says that
a number of a cluster is about one transfer, the one in its leader's log (Titles),
and to keep Y and N disjoint, that the participant's leader has claimed the timestamp
of whatever it voted on (VotesClaimed): HandlePrepare is the only step that casts a
vote, and it refuses a claimed timestamp, so a repeated PREPARE, a HandleMoveOn in
between or a duplicate vote cannot add the opposite one. Atomicity follows: a
transfer committed and undone would be in both sets. TLC found VotesSettle true on
the instance of two_pc before it was proved; it is not checked by a run, since the
search for Y and N in every state takes longer than all other properties together.

NobodyWaitsForever and LocksComeFree speak only of states without messages, so an
inductive form has to say of everything outstanding what will move it on.
ProgressInv, in `ProgressProofs`, says it in these parts:

* Own: only the two leaders of a transfer's clusters deal with it, and what is kept
  for a coordinator is kept by the coordinator;
* Orderly: a leader's log has one entry for each transfer it has claimed, gapless up
  to `last_seqnum_`, and what it has recorded as committed is its entry with the
  status of a first phase. A second phase is proposed only for an executed entry;
* Rounds: for each phase a leader has begun, every node of the cluster is in the
  table of votes, or the Accept to it or its acknowledgement is in flight; and a
  quorum of votes means that the entry is recorded. As peers answer once and the code
  compares with exactly F+1 (1596, 1614), it matters that no vote arrives for a round that has
  not begun, and that is what Shaped says of messages;
* CrossStage: a transfer between clusters is claimed by the coordinator, claimed by
  the participant, executed by the participant, decided by the coordinator, decided
  by the participant. Between each two of these a PREPARE, a vote or a decision is on
  its way, or the vote is parked in `prepare_and_aborted_queue_` until the coordinator
  has executed. At most one vote is, which keeps a second phase from being started
  twice when PREPARE was repeated;
* LocksHeld: every locked account has a transfer that will unlock it;
* CaughtUp: no committed entry waits for the execution loop, between handlers.

When nothing is in flight, Rounds makes every round complete, Orderly and CaughtUp
make every entry executed, and CrossStage makes every transfer decided in both
clusters, so nobody waits and no lock has a holder. Handlers are compositions here
too: View is ProgressInv of a state in the middle of a handler, with the messages it
has yet to send counted as sent, and there is a lemma for each operator about it. The
proof showed that the model let the threads of an ended process act; the guards on
`exited` in Overdue and HandleMoveOn are its result. TLC found ProgressInv true on the
instance of two_pc before it was proved.

WalIsCurrent is about what an abort will restore. UndoInv, in `UndoProofs`, says of
each leader that runs and each account of its cluster:

* Guarded: a transfer that has something to do to the account, one within the cluster
  until it is executed, one between clusters until its second phase is, holds the
  lock. It may have lost it to a disturbance, but then it is within the cluster, or
  the leader knows of another transfer for the account, and with at most two of them
  none is left to take the lock;
* Ordered: of two transfers that change the account the later is claimed only when
  the earlier has nothing left to do. An earlier one within the cluster is the
  exception after a disturbance; it is executed first in the order of the log;
* Current: the account has the value that the undo information holds as the new one;
* WalOwned: there is undo information only for a transfer that is executed, not
  ended and voted for. Named says that a leader's log has the statuses of its cluster.

Current is kept because a balance is written only by the execution of a transfer and
by an abort, and Ordered leaves no other writer between the two phases of a transfer.
Ordered is kept because a claim needs the lock, and Guarded says who has it. Restoring twice
would break it, so Fresh says that the vote that completes a second phase arrives
once, and a decision once: the message that brings it is the only one of its kind and
comes before its effect. That the leader undoes what it voted for, and not what it
refused, is from VotesSettle, and the rest of what the steps need from ProgressInv;
the theorem is an invariant of all three. TLC found UndoInv true on the instance of
two_pc before it was proved, and with the third transfer, where WalIsCurrent fails
without the hypothesis, no violation of UndoInv in the states of five minutes.

### Only model-checked

* Of `PaxosCluster`, beyond the first view: Agreement, ReplyIsDurable, ClaimIsLogged,
  CommitFindsEntry, LeaderLogHasNoGaps and the refinement, on the bounds of failover
  and leader_crash, and with the exceptions of section 4. A theorem would need a
  condition on campaigns that the code does not enforce.
* Of `TwoPhaseCommit`: LeadersMatchReplies, which a third transfer or an overdraft
  breaks. It compares balances with a sum over a set of transfers, so that what it
  says of every set of transfers is an induction over data.
* Liveness, which is out of TLAPS's reach, as ENABLED is: EveryRequestIsAnswered,
  FinishesUnlessContinue and the other properties checked under fairness.
* What recursive definitions compute for every input: MakeShardMap, for up to 12 items
  and 5 clusters.

## 6. Findings

### With a run

1. *A candidate that goes on after promising a higher ballot* (rivals_conflict). Nodes
   2 and 3 campaign for (2,2) and (2,3). Node 2 promises (2,3) with its empty log and
   keeps waiting for promises of its own (542-557); HandlePromise never looks at
   `highest_promised_ballot_` (652). With the promise of node 1 it leads (2,2) and
   commits the entry it inherits from node 1; node 3 leads (2,3) with the promise of
   node 2 and proposes another request at that number, which node 1 acknowledges, its
   log keeping the older entry (906). From a cold start two campaigns are enough,
   when a late NEW-VIEW of the first lowers a promise to the second (1469).
2. *A second phase that comes first* (commit_order). Both phases commit under one
   sequence number and the first Commit to arrive is recorded (1361).
3. *A decision that does not survive a leader* (lost_decision). The new leader of the
   participant undoes an entry whose outcome it has not learnt (1914), and COMMIT is
   handled by the killed node.
4. *A retry that keeps its locks* (lock_leak). The window between the first duplicate
   check and try_lock, and a return without unlock (466).
5. *A barrier that passes early* (continue_barrier). A request whose reply is counted
   down between `inflight_.size()` and `inflight_.clear()` (`paxos_client.cpp` 345, 346)
   is subtracted again, so that the counter is 0 with another request in flight. Before
   the first Continue it cannot happen (BarrierUntilContinue).

### Other disagreements met, without a run of their own

Each was found by TLC on a small instance of these modules and can be found again by
checking the named property; the instances are not kept as runs.

* An overdraft across shards makes money. The coordinator executes its entry without a
  debit and does not say so (1191-1203); the participant checks a copy of the sender's
  account that nobody updates, and credits; the client is told of a success.
  LeadersMatchReplies with the transfers local and out, of which the sender of both can
  pay one.
* Two threads of a backup in one account. `last_executed_seq_` is moved under the mutex
  (1041) and the entry executed outside of it (1047); only the leader locks accounts.
  The thread of the second transfer checks the balance while that of the first has
  loaded it and not stored it yet, so that the backup skips a transfer which the leader
  executes; or two threads pass the check (1191) and each debits (1215) what is left of
  the account after the other, below zero. ReplicasAreSerial with the calls of t2 and t3,
  or of t1 and t2.
* A Continue may hang the driver: a request submitted between the clear and the drain of
  HandleMoveOn (`paxos_client.cpp` 346, 349) stays in `inflight_`, marked completed and
  out of the heap: never sent, never counted down. DriverFinishes, FairSpec, 1 Continue.
* A Continue may end the process: a reply handled between `req.reset()` and the clear
  (342, 346) dereferences the pointer that was reset. ClientSurvives, 1 Continue.
* An acknowledged entry is not stored: HandlePropose keeps an older entry and
  acknowledges the newer one (906). ReplyIsDurable, 3 nodes, 2 campaigns.
* A late NEW-VIEW lowers a promise (1469, 2143). PromiseNeverLowered, 2 campaigns.
* Executing a NO-OP ends the process: the empty account name is converted before the
  test for a NO-OP (1173, 1188). NoProcessExits, CrashedSpec; in the first view no
  process exits (NoExitInFirstView).
* A coordinator gives up after the second timeout and proposes A_COORD (2778), then
  takes up the late vote and proposes C_COORD; acknowledgements of both count in one
  table, and the participant is not told of the abort. Atomicity, 2 timeouts;
  without a second timeout it is a theorem (TransfersAreAtomic).
* The second phase unlocks an account by name, also when another transfer holds it
  (2662), and an abort restores an absolute balance (2607). WalIsCurrent and
  LeadersMatchReplies with the transfers out, back and local; UndoInformationIsCurrent
  says when the first cannot happen.
* After HandleMoveOn an entry with vote A stays in `pending_entries_`; the commit of
  its second phase prefers it (951) and converts its blank account, which ends the
  processes of the participant. Field `exited`, instance of two_pc; NobodyWaitsForever
  asks nothing once a process has ended.
* Two candidates may come to lead one ballot: HandlePromise uses `current_ballot_` at
  the moment of the quorum (671), which an Accept of the rival has replaced. In run
  failover, with one request between them, this breaks nothing.
* SetNewLeader indexes `cluster_leaders_` by the cluster of an account (2140): a node
  of the second or third cluster overwrites what it knows of the first. It matters
  once such a node leads and sends a vote or a decision there, which takes a second
  election; no instance has one.
* PrintReshard changes the map of the nodes and not those of the client and of the
  driver (`paxos_client.cpp` 153, `node_launch.cpp` 334-353): a transfer from a moved
  account is coordinated by the old cluster. LeadersMatchReplies with different
  `shard_map` and `sharding_map`.

## 7. Not modelled, and why

* The threads of the election timer (1761-1816, 1943-1983): a module of the plan.
* Reshard (`node_launch.cpp` 123-210): it indexes a vector past its end, which
  Documentation.md lists, so that its result depends on the memory behind it. That
  its result reaches the nodes and not the client is modelled.
* Elections inside `TwoPhaseCommit`: one step; `PaxosCluster` is about them.
* ResetNode, prompts: they run between sets, when nothing is in flight.
* Time as a quantity, contents of replies; balances in `PaxosCluster`, where they are
  a function of the history.
* The gRPC call objects beyond what they dispatch (their lifetimes), SQLite,
  parsing, forking and printing.
* The generated protobuf and gRPC stubs in `src/grpc`. They are about 19,100 of the
  25,600 lines of implementation; the models cover about half of the hand-written
  rest, the other half being declarations, call objects, printing, parsing and the
  database code.
