---------------------------- MODULE PaxosCluster ----------------------------
(***************************************************************************)
(* One cluster (shard) of PaxosNode processes running Multi-Paxos on       *)
(* intra-shard transfers: src/paxos_node.cpp.  Every RPC handler, the      *)
(* election timer's expiry and the driver's kill and recover requests is   *)
(* one action.  A handler is atomic here; what several of a node's threads *)
(* can do to each other inside a handler is the subject of other modules.  *)
(*                                                                         *)
(* A request stands for a client transaction identified by its timestamp.  *)
(* Its amount is left out: balances are a function of the sequence of      *)
(* applied requests, and every check below is about that sequence.         *)
(***************************************************************************)
EXTENDS Integers, FiniteSets

CONSTANTS
  Node,           \* node ids of the cluster (intra_c_nid_range_)
  F,              \* f_: a quorum is F + 1 nodes
  InitialLeader,  \* the node with id % divisor_ = 1
  Request,        \* client transactions (timestamps)
  Account,        \* accounts of this shard
  From, To,       \* from_account and to_account of a request
  NoOp,           \* the request that fills a gap of the log
  None,           \* no entry, no request, no pending call
  MaxSeq,         \* bound: sequence numbers are 1 .. MaxSeq
  MaxCampaigns,   \* bound: expiries of election timers that start an election
  MaxKills        \* bound: kills by the driver

ASSUME ConstantsAssumption ==
  /\ Node \subseteq Nat \ {0}
  /\ IsFiniteSet(Node)
  /\ F \in Nat
  /\ InitialLeader \in Node
  /\ From \in [Request -> Account]
  /\ To \in [Request -> Account]
  /\ NoOp \notin Request
  /\ None \notin Request /\ None \notin Node /\ None # NoOp
  /\ MaxSeq \in Nat
  /\ MaxCampaigns \in Nat
  /\ MaxKills \in Nat

Seqnum == 1 .. MaxSeq

\* struct Ballot: ordered by counter, then node id.
Ballot == [counter : Nat, node_id : Nat]
Higher(b, c) == \/ b.counter > c.counter
                \/ b.counter = c.counter /\ b.node_id > c.node_id

Command == Request \cup {NoOp}
NoEntry == [ballot |-> [counter |-> 0, node_id |-> 0], req |-> None]
Entry   == [ballot : Ballot, req : Command] \cup {NoEntry}
Log     == [Seqnum -> Entry]
EmptyLog     == [s \in Seqnum |-> NoEntry]
CommitTable  == [Seqnum -> Command \cup {None}]
EmptyCommits == [s \in Seqnum |-> None]

VARIABLES
  process,                  \* "up", "down" (alive_ is false) or "exited"
  role, leader_id, current_ballot, highest_promised_ballot,
  waiting_for_promises, promises_received, received_promise_logs,
  pending_promise_call,     \* the candidate whose Prepare awaits an answer
  in_election,
  timer_running,
  heard_leader,             \* last_leader_msg_received_ was set by a message
  first_txn_received,
  accept_log, last_seqnum, max_seqnum_in_new_view,
  pending_entries, pending_client_calls,
  accepted_count,           \* triples <<seqnum, ballot counter, node>>
  entries_to_commit, last_executed_seq,
  applied,                  \* what ExecuteTransaction applied at each seqnum
  pending_or_completed_ts, last_reply_per_client, balance_locks,
  msgs,                     \* RPCs and responses in flight
  replies,                  \* requests the client has a reply to
  campaigns, kills          \* how much of the two bounds is used

electionVars == <<role, leader_id, current_ballot, highest_promised_ballot,
                  waiting_for_promises, promises_received,
                  received_promise_logs, pending_promise_call, in_election>>
timerVars    == <<timer_running, heard_leader, first_txn_received>>
logVars      == <<accept_log, last_seqnum, max_seqnum_in_new_view>>
proposalVars == <<pending_entries, pending_client_calls, accepted_count>>
executeVars  == <<entries_to_commit, last_executed_seq, applied>>
clientVars   == <<pending_or_completed_ts, last_reply_per_client,
                  balance_locks, replies>>
boundVars    == <<campaigns, kills>>
vars == <<process, electionVars, timerVars, logVars, proposalVars,
          executeVars, clientVars, msgs, boundVars>>

-----------------------------------------------------------------------------
\* The messages of grpc/paxos.proto that stay inside the cluster.

PrepareMsg == [type : {"Prepare"}, from : Node, to : Node, ballot : Ballot]
PromiseMsg == [type : {"Promise"}, from : Node, to : Node, ballot : Ballot,
               log : Log]
NewViewMsg == [type : {"NewView"}, from : Node, to : Node, ballot : Ballot,
               log : Log]
AcceptMsg  == [type : {"Accept"}, from : Node, to : Node, ballot : Ballot,
               seq : Seqnum, req : Command]
AckMsg     == [type : {"Ack"}, from : Node, to : Nat, counter : Nat,
               seq : Seqnum]
CommitMsg  == [type : {"Commit"}, from : Node, to : Node, seq : Seqnum,
               req : Command]
Message    == PrepareMsg \cup PromiseMsg \cup NewViewMsg \cup AcceptMsg
                \cup AckMsg \cup CommitMsg

Peers(n) == Node \ {n}
Up(n) == process[n] = "up"

\* A request of type t delivered to n: gRPC delivers a call at most once, in
\* any order with the other calls, and n handles it if alive_ is set.
Received(m, t, n) == /\ m \in msgs
                     /\ m.type = t
                     /\ m.to = n
                     /\ Up(n)

Init ==
  /\ process = [n \in Node |-> "up"]
  /\ role = [n \in Node |-> "BACKUP"]
  /\ leader_id = [n \in Node |-> -1]
  /\ current_ballot = [n \in Node |-> [counter |-> 0, node_id |-> n]]
  /\ highest_promised_ballot = [n \in Node |-> [counter |-> 0, node_id |-> 0]]
  /\ waiting_for_promises = [n \in Node |-> FALSE]
  /\ promises_received = [n \in Node |-> {}]
  /\ received_promise_logs = [n \in Node |-> [q \in Node |-> EmptyLog]]
  /\ pending_promise_call = [n \in Node |-> None]
  /\ in_election = [n \in Node |-> TRUE]
  /\ timer_running = [n \in Node |-> FALSE]
  /\ heard_leader = [n \in Node |-> FALSE]
  /\ first_txn_received = [n \in Node |-> TRUE]
  /\ accept_log = [n \in Node |-> EmptyLog]
  /\ last_seqnum = [n \in Node |-> 0]
  /\ max_seqnum_in_new_view = [n \in Node |-> 0]
  /\ pending_entries = [n \in Node |-> EmptyLog]
  /\ pending_client_calls = [n \in Node |-> {}]
  /\ accepted_count = [n \in Node |-> {}]
  /\ entries_to_commit = [n \in Node |-> EmptyCommits]
  /\ last_executed_seq = [n \in Node |-> 0]
  /\ applied = [n \in Node |-> EmptyCommits]
  /\ pending_or_completed_ts = [n \in Node |-> {}]
  /\ last_reply_per_client = [n \in Node |-> [a \in Account |-> None]]
  /\ balance_locks = [n \in Node |-> {}]
  /\ msgs = {}
  /\ replies = {}
  /\ campaigns = 0
  /\ kills = 0

-----------------------------------------------------------------------------
\* Pieces of state that several handlers change the same way.

\* Mutant of DropLeadership: the client calls of a former leader are kept.
DropLeadershipKeepingCalls(n) ==
  /\ role' = [role EXCEPT ![n] = "BACKUP"]
  /\ waiting_for_promises' = [waiting_for_promises EXCEPT ![n] = FALSE]
  /\ accepted_count' = [accepted_count EXCEPT ![n] = {}]
  /\ entries_to_commit' = [entries_to_commit EXCEPT ![n] = EmptyCommits]
  /\ UNCHANGED pending_client_calls

\* DemoteToBackup, but for leader_id and pending_entries, which a handler
\* that adopts another leader goes on to set.
DropLeadership(n) ==
  /\ role' = [role EXCEPT ![n] = "BACKUP"]
  /\ waiting_for_promises' = [waiting_for_promises EXCEPT ![n] = FALSE]
  /\ accepted_count' = [accepted_count EXCEPT ![n] = {}]
  /\ entries_to_commit' = [entries_to_commit EXCEPT ![n] = EmptyCommits]
  /\ pending_client_calls' = [pending_client_calls EXCEPT ![n] = {}]

\* Mutant of DemoteToBackup: a former leader still takes itself for the leader.
DemoteKeepingLeaderId(n) ==
  /\ DropLeadership(n)
  /\ UNCHANGED leader_id
  /\ pending_entries' = [pending_entries EXCEPT ![n] = EmptyLog]

DemoteToBackup(n) ==
  /\ DropLeadership(n)
  /\ leader_id' = [leader_id EXCEPT ![n] = -1]
  /\ pending_entries' = [pending_entries EXCEPT ![n] = EmptyLog]

\* Mutant of SetNewLeader: the promise stays where it was.
SetNewLeaderWithoutPromise(n, b) ==
  /\ leader_id' = [leader_id EXCEPT ![n] = b.node_id]
  /\ current_ballot' = [current_ballot EXCEPT ![n] = b]
  /\ UNCHANGED highest_promised_ballot

\* SetNewLeader: the promise is set to the leader's ballot, up or down.
SetNewLeader(n, b) ==
  /\ leader_id' = [leader_id EXCEPT ![n] = b.node_id]
  /\ current_ballot' = [current_ballot EXCEPT ![n] = b]
  /\ highest_promised_ballot' = [highest_promised_ballot EXCEPT ![n] = b]

\* OnElectionComplete: the requests queued meanwhile are free to arrive.
OnElectionComplete(n) == in_election' = [in_election EXCEPT ![n] = FALSE]

\* ResetElectionTimer on a backup, which also starts a stopped timer.
ResetElectionTimer(n) ==
  /\ timer_running' = [timer_running EXCEPT ![n] = TRUE]
  /\ heard_leader' = [heard_leader EXCEPT ![n] = TRUE]

Promise(n, candidate, b) ==
  [type |-> "Promise", from |-> n, to |-> candidate, ballot |-> b,
   log |-> accept_log[n]]

Accounts(r) == {From[r], To[r]}

\* Mutant of ReleaseLocks: the receiver's account stays locked.
ReleaseSenderLocks(held, reqs) == held \ {From[r] : r \in reqs}

\* Both accounts of an executed transfer are unlocked, also on a backup.
ReleaseLocks(held, reqs) == held \ UNION {Accounts(r) : r \in reqs}

\* Mutant of LastExecutable: an "if" in place of the loop.
OneExecutable(n, commits, last) ==
  LET next == last_executed_seq[n] + 1 IN
  last = IF next <= MaxSeq /\ commits[next] \in Request
         THEN next ELSE last_executed_seq[n]

\* The loop runs to the first sequence number that is not committed.
LastExecutable(n, commits, last) ==
  /\ \A s \in (last_executed_seq[n] + 1) .. last : commits[s] \in Request
  /\ last < MaxSeq => commits[last + 1] \notin Request

\* Mutant of Executable: last_executed_seq_ is incremented too early.
ExecutableAfterNext(n, last) == (last_executed_seq[n] + 2) .. last

\* What the loop executes, from last_executed_seq_ + 1 on.
Executable(n, last) == (last_executed_seq[n] + 1) .. last

\* SendClientReply for the entries of "next", in their order: the last one of
\* each client is remembered.
SendClientReply(n, commits, next) ==
  LET For(a) == {s \in next : From[commits[s]] = a}
      LastFor(a) == CHOOSE s \in For(a) : \A t \in For(a) : t <= s
  IN
  /\ replies' = replies \cup {commits[s] : s \in next}
  /\ last_reply_per_client' =
       [last_reply_per_client EXCEPT ![n] =
          [a \in Account |-> IF For(a) = {} THEN last_reply_per_client[n][a]
                             ELSE commits[LastFor(a)]]]

\* SequentiallyExecuteCommittedEntries with entries_to_commit_ = commits: it
\* applies the entries after last_executed_seq_ up to the first gap.  A NO-OP
\* ends the process: ExecuteTransaction converts its empty account name with
\* std::stoi before it looks at the client id, and nothing catches that; the
\* state an ended process leaves behind is nobody's and is not updated.
\* A leader replies to what it applies and, for entries it proposed itself,
\* drops the pending entry and call; a backup drops the pending entry.
SequentiallyExecuteCommittedEntries(n, commits) ==
  \E last \in last_executed_seq[n] .. MaxSeq :
    LET next == Executable(n, last)
        own  == {s \in next : /\ s > max_seqnum_in_new_view[n]
                              /\ s \in pending_client_calls[n]}
        done == IF role[n] = "LEADER" THEN own ELSE next
    IN
    /\ LastExecutable(n, commits, last)
    /\ process' = IF last < MaxSeq /\ commits[last + 1] = NoOp
                  THEN [process EXCEPT ![n] = "exited"]
                  ELSE process
    /\ last_executed_seq' = [last_executed_seq EXCEPT ![n] = last]
    /\ applied' = [applied EXCEPT ![n] =
                     [s \in Seqnum |-> IF s \in next THEN commits[s]
                                       ELSE applied[n][s]]]
    /\ balance_locks' = [balance_locks EXCEPT ![n] =
                           ReleaseLocks(@, {commits[s] : s \in next})]
    /\ pending_entries' = [pending_entries EXCEPT ![n] =
                             [s \in Seqnum |-> IF s \in done THEN NoEntry
                                               ELSE pending_entries[n][s]]]
    /\ IF role[n] = "LEADER"
       THEN /\ pending_client_calls' =
                 [pending_client_calls EXCEPT ![n] = @ \ own]
            /\ SendClientReply(n, commits, next)
       ELSE UNCHANGED <<pending_client_calls, replies, last_reply_per_client>>

-----------------------------------------------------------------------------
\* Client requests.  A client broadcasts an unanswered request to every node
\* again and again and a backup forwards it to the leader it knows or queues
\* it, so a request may reach any node at any time; reaching a backup changes
\* nothing but in the two cases below.

\* Mutant of HandleFirstRequest: every node starts its timer.
HandleFirstRequestAnywhere(n, r) ==
  /\ Up(n)
  /\ first_txn_received[n]
  /\ first_txn_received' = [first_txn_received EXCEPT ![n] = FALSE]
  /\ timer_running' = [timer_running EXCEPT ![n] = TRUE]
  /\ UNCHANGED <<process, electionVars, heard_leader, logVars, proposalVars,
                 executeVars, clientVars, msgs, boundVars>>

\* The first request of the run starts the election timer of the node that is
\* meant to lead first.
HandleFirstRequest(n, r) ==
  /\ Up(n)
  /\ current_ballot[n] = [counter |-> 0, node_id |-> InitialLeader]
  /\ first_txn_received[n]
  /\ first_txn_received' = [first_txn_received EXCEPT ![n] = FALSE]
  /\ timer_running' = [timer_running EXCEPT ![n] = TRUE]
  /\ UNCHANGED <<process, electionVars, heard_leader, logVars, proposalVars,
                 executeVars, clientVars, msgs, boundVars>>

\* ProcessClientRequest on a backup that believes it leads: std::abort().
AbortOnOwnForward(n, r) ==
  /\ Up(n)
  /\ role[n] = "BACKUP"
  /\ ~ in_election[n]
  /\ leader_id[n] = n
  /\ process' = [process EXCEPT ![n] = "exited"]
  /\ UNCHANGED <<electionVars, timerVars, logVars, proposalVars, executeVars,
                 clientVars, msgs, boundVars>>

\* A leader ignores a request that it knows or whose accounts are locked.
\* From[r] # To[r]: with one account for both, the second try_lock would be on
\* a mutex the thread already holds.
Admissible(n, r) ==
  /\ last_reply_per_client[n][From[r]] # r
  /\ r \notin pending_or_completed_ts[n]
  /\ From[r] # To[r]
  /\ Accounts(r) \cap balance_locks[n] = {}

\* ProcessClientRequest on the leader: the request takes the next sequence
\* number, the leader accepts it itself and broadcasts Accept.
ProcessClientRequest(n, r) ==
  /\ Up(n)
  /\ role[n] = "LEADER"
  /\ Admissible(n, r)
  /\ last_seqnum[n] < MaxSeq
  /\ LET seq == last_seqnum[n] + 1
         b   == current_ballot[n]
         e   == [ballot |-> b, req |-> r]
     IN /\ last_seqnum' = [last_seqnum EXCEPT ![n] = seq]
        /\ accept_log' = [accept_log EXCEPT ![n][seq] = e]
        /\ pending_entries' = [pending_entries EXCEPT ![n][seq] = e]
        /\ pending_client_calls' =
             [pending_client_calls EXCEPT ![n] = @ \cup {seq}]
        /\ accepted_count' =
             [accepted_count EXCEPT ![n] = @ \cup {<<seq, b.counter, n>>}]
        /\ msgs' = msgs \cup
             {[type |-> "Accept", from |-> n, to |-> q, ballot |-> b,
               seq |-> seq, req |-> r] : q \in Peers(n)}
  /\ pending_or_completed_ts' =
       [pending_or_completed_ts EXCEPT ![n] = @ \cup {r}]
  /\ balance_locks' = [balance_locks EXCEPT ![n] = @ \cup Accounts(r)]
  /\ UNCHANGED <<process, electionVars, timerVars, max_seqnum_in_new_view,
                 executeVars, last_reply_per_client, replies, boundVars>>

-----------------------------------------------------------------------------
\* Election.

SendPrepare(n, b) ==
  {[type |-> "Prepare", from |-> n, to |-> q, ballot |-> b] : q \in Peers(n)}

\* OnElectionTimeout starts a campaign with a ballot one above the current
\* one.  A promise that waited for this timer is sent first.
Campaign(n) ==
  /\ campaigns < MaxCampaigns
  /\ Up(n)
  /\ role[n] = "BACKUP"
  /\ timer_running[n]
  /\ LET b == [counter |-> current_ballot[n].counter + 1, node_id |-> n]
         waiting == pending_promise_call[n]
     IN /\ current_ballot' = [current_ballot EXCEPT ![n] = b]
        /\ highest_promised_ballot' =
             [highest_promised_ballot EXCEPT ![n] =
                IF Higher(b, @) THEN b ELSE @]
        /\ msgs' = msgs
             \cup SendPrepare(n, b)
             \cup {Promise(n, q, highest_promised_ballot[n])
                     : q \in {waiting} \ {None}}
  /\ waiting_for_promises' = [waiting_for_promises EXCEPT ![n] = TRUE]
  /\ promises_received' = [promises_received EXCEPT ![n] = {n}]
  /\ pending_promise_call' = [pending_promise_call EXCEPT ![n] = None]
  /\ in_election' = [in_election EXCEPT ![n] = TRUE]
  /\ campaigns' = campaigns + 1
  /\ UNCHANGED <<process, role, leader_id, received_promise_logs, timerVars,
                 logVars, proposalVars, executeVars, clientVars, kills>>

\* OnElectionTimeout within prepare_cooldown_ of a Prepare: no campaign, but
\* the promise that waited for this timer is sent.
SkipCampaign(n) ==
  /\ Up(n)
  /\ role[n] = "BACKUP"
  /\ timer_running[n]
  /\ pending_promise_call[n] # None
  /\ msgs' = msgs \cup {Promise(n, pending_promise_call[n],
                                highest_promised_ballot[n])}
  /\ pending_promise_call' = [pending_promise_call EXCEPT ![n] = None]
  /\ UNCHANGED <<process, role, leader_id, current_ballot,
                 highest_promised_ballot, waiting_for_promises,
                 promises_received, received_promise_logs, in_election,
                 timerVars, logVars, proposalVars, executeVars, clientVars,
                 boundVars>>

\* HandlePrepare with a ballot above every promise: a leader steps down; the
\* promise is sent now or, if a leader was heard within prepare_cooldown_,
\* when the election timer expires.
HandlePrepare(n, m) ==
  /\ Received(m, "Prepare", n)
  /\ Higher(m.ballot, highest_promised_ballot[n])
  /\ in_election' = [in_election EXCEPT ![n] = TRUE]
  /\ highest_promised_ballot' =
       [highest_promised_ballot EXCEPT ![n] = m.ballot]
  /\ \/ /\ role[n] = "LEADER"
        /\ DemoteToBackup(n)
        /\ timer_running' = [timer_running EXCEPT ![n] = TRUE]
     \/ /\ role[n] = "BACKUP"
        /\ UNCHANGED <<role, waiting_for_promises, leader_id, proposalVars,
                       entries_to_commit, timer_running>>
  /\ \/ /\ msgs' = (msgs \ {m}) \cup {Promise(n, m.from, m.ballot)}
        /\ pending_promise_call' = [pending_promise_call EXCEPT ![n] = None]
     \/ /\ heard_leader[n]
        /\ msgs' = msgs \ {m}
        /\ pending_promise_call' =
             [pending_promise_call EXCEPT ![n] = m.from]
  /\ UNCHANGED <<process, current_ballot, promises_received,
                 received_promise_logs, heard_leader, first_txn_received,
                 logVars, last_executed_seq, applied, clientVars, boundVars>>

\* HandlePrepare with any other ballot answers with a rejection, which the
\* candidate ignores, and forgets a promise that waits for the timer.
RejectPrepare(n, m) ==
  /\ Received(m, "Prepare", n)
  /\ ~ Higher(m.ballot, highest_promised_ballot[n])
  /\ msgs' = msgs \ {m}
  /\ pending_promise_call' = [pending_promise_call EXCEPT ![n] = None]
  /\ UNCHANGED <<process, role, leader_id, current_ballot,
                 highest_promised_ballot, waiting_for_promises,
                 promises_received, received_promise_logs, in_election,
                 timerVars, logVars, proposalVars, executeVars, clientVars,
                 boundVars>>

Electing(n) == role[n] = "BACKUP" /\ waiting_for_promises[n]

\* HandlePromise below a quorum.  The ballot of the promise is not looked at.
HandlePromise(n, m) ==
  /\ Received(m, "Promise", n)
  /\ Electing(n)
  /\ m.from \notin promises_received[n]
  /\ Cardinality(promises_received[n] \cup {m.from}) < F + 1
  /\ promises_received' = [promises_received EXCEPT ![n] = @ \cup {m.from}]
  /\ received_promise_logs' =
       [received_promise_logs EXCEPT ![n][m.from] = m.log]
  /\ msgs' = msgs \ {m}
  /\ UNCHANGED <<process, role, leader_id, current_ballot,
                 highest_promised_ballot, waiting_for_promises,
                 pending_promise_call, in_election, timerVars, logVars,
                 proposalVars, executeVars, clientVars, boundVars>>

\* Mutant of MergeChoices: the logs of the promises are not merged.
OwnEntryOnly(own, logs, s) == {own[s]}

\* MergeAcceptLogsFromPromises starts from the node's own log and replaces an
\* entry by one of a strictly higher ballot, visiting the promises in the
\* unspecified order of an unordered_map.
MergeChoices(own, logs, s) ==
  LET entries == {own[s]} \cup {logs[q][s] : q \in Node}
      highest == {e \in entries : \A d \in entries :
                                     ~ Higher(d.ballot, e.ballot)}
  IN IF own[s] \in highest THEN {own[s]} ELSE highest

MergeAcceptLogsFromPromises(own, logs) ==
  {log \in [Seqnum -> UNION {MergeChoices(own, logs, s) : s \in Seqnum}] :
     \A s \in Seqnum : log[s] \in MergeChoices(own, logs, s)}

\* Mutant of InheritedClaims: the dedup set is not seeded from the merged log.
NoInheritedClaims(log) == {}

\* The requests of the merged log enter the dedup set.
InheritedClaims(log) == {log[s].req : s \in Seqnum} \cap Request

\* max_seqnum after the merge.
IsLastSeqnum(log, last) ==
  /\ last \in 0 .. MaxSeq
  /\ last > 0 => log[last] # NoEntry
  /\ \A s \in Seqnum : s > last => log[s] = NoEntry

\* Mutants of FillMissingNoOps: it fills nothing, or does not look for the
\* entry first.
FillNothing(log, last, b) == log
FillEverything(log, last, b) ==
  [s \in Seqnum |-> IF s <= last THEN [ballot |-> b, req |-> NoOp] ELSE log[s]]

FillMissingNoOps(log, last, b) ==
  [s \in Seqnum |-> IF s <= last /\ log[s] = NoEntry
                    THEN [ballot |-> b, req |-> NoOp]
                    ELSE log[s]]

SendNewView(n, b, log) ==
  {[type |-> "NewView", from |-> n, to |-> q, ballot |-> b, log |-> log]
     : q \in Peers(n)}

\* HandlePromise reaching a quorum: merge, fill the gaps, BecomeLeader with
\* whatever current_ballot_ now is, accept the whole log, SendNewView and
\* OnElectionComplete.
BecomeLeader(n, m) ==
  /\ Received(m, "Promise", n)
  /\ Electing(n)
  /\ m.from \notin promises_received[n]
  /\ Cardinality(promises_received[n] \cup {m.from}) >= F + 1
  /\ LET b    == current_ballot[n]
         logs == [received_promise_logs[n] EXCEPT ![m.from] = m.log]
     IN \E merged \in MergeAcceptLogsFromPromises(accept_log[n], logs),
           last \in 0 .. MaxSeq :
          LET log == FillMissingNoOps(merged, last, b) IN
          /\ IsLastSeqnum(merged, last)
          /\ accept_log' = [accept_log EXCEPT ![n] = log]
          /\ last_seqnum' = [last_seqnum EXCEPT ![n] = last]
          /\ max_seqnum_in_new_view' =
               [max_seqnum_in_new_view EXCEPT ![n] = last]
          /\ pending_or_completed_ts' =
               [pending_or_completed_ts EXCEPT ![n] =
                  @ \cup InheritedClaims(merged)]
          /\ accepted_count' =
               [accepted_count EXCEPT ![n] =
                  @ \cup {<<s, b.counter, n>> : s \in 1 .. last}]
          /\ msgs' = (msgs \ {m}) \cup SendNewView(n, b, log)
  /\ role' = [role EXCEPT ![n] = "LEADER"]
  /\ leader_id' = [leader_id EXCEPT ![n] = n]
  /\ waiting_for_promises' = [waiting_for_promises EXCEPT ![n] = FALSE]
  /\ promises_received' = [promises_received EXCEPT ![n] = @ \cup {m.from}]
  /\ received_promise_logs' =
       [received_promise_logs EXCEPT ![n] = [q \in Node |-> EmptyLog]]
  /\ OnElectionComplete(n)
  /\ timer_running' = [timer_running EXCEPT ![n] = FALSE]
  /\ UNCHANGED <<process, current_ballot, highest_promised_ballot,
                 pending_promise_call, heard_leader, first_txn_received,
                 pending_entries, pending_client_calls, executeVars,
                 last_reply_per_client, balance_locks, replies, boundVars>>

\* Mutant of NewViewAck: an index counted from the wrong end of the range.
NewViewAckOffByOne(n, m, s) ==
  [type |-> "Ack", from |-> n, to |-> m.ballot.node_id,
   counter |-> m.ballot.counter, seq |-> s + 1]

NewViewAck(n, m, s) == [type |-> "Ack", from |-> n, to |-> m.ballot.node_id,
                        counter |-> m.ballot.counter, seq |-> s]

\* HandleNewView: a backup adopts the ballot whatever it promised, a leader
\* only a ballot above its own.  An entry replaces the node's own if there is
\* none or its ballot's counter is higher; every entry is acknowledged, with
\* the ballot of the view, to that ballot's node.
HandleNewView(n, m) ==
  /\ Received(m, "NewView", n)
  /\ \/ /\ role[n] = "BACKUP"
        /\ waiting_for_promises' = [waiting_for_promises EXCEPT ![n] = FALSE]
        /\ ResetElectionTimer(n)
        /\ UNCHANGED <<role, proposalVars, entries_to_commit>>
     \/ /\ role[n] = "LEADER"
        /\ Higher(m.ballot, current_ballot[n])
        /\ DropLeadership(n)
        /\ pending_entries' = [pending_entries EXCEPT ![n] = EmptyLog]
        /\ timer_running' = [timer_running EXCEPT ![n] = TRUE]
        /\ UNCHANGED heard_leader
  /\ SetNewLeader(n, m.ballot)
  /\ OnElectionComplete(n)
  /\ LET present == {s \in Seqnum : m.log[s] # NoEntry}
         Wins(s) == /\ s \in present
                    /\ \/ accept_log[n][s] = NoEntry
                       \/ m.log[s].ballot.counter
                            > accept_log[n][s].ballot.counter
     IN /\ accept_log' = [accept_log EXCEPT ![n] =
                            [s \in Seqnum |-> IF Wins(s) THEN m.log[s]
                                              ELSE accept_log[n][s]]]
        /\ \E last \in 0 .. MaxSeq :
             /\ IsLastSeqnum(m.log, last)
             /\ max_seqnum_in_new_view' =
                  [max_seqnum_in_new_view EXCEPT ![n] =
                     IF present = {} THEN @ ELSE last]
        /\ msgs' = (msgs \ {m}) \cup
             {NewViewAck(n, m, s) : s \in present}
  /\ UNCHANGED <<process, promises_received, received_promise_logs,
                 pending_promise_call, first_txn_received, last_seqnum,
                 last_executed_seq, applied, clientVars, boundVars>>

\* HeartbeatLoop and HandleHeartbeat: they only keep the timer of a backup
\* from expiring, and start it when it does not run.
HandleHeartbeat(n) ==
  /\ Up(n)
  /\ role[n] = "BACKUP"
  /\ \E q \in Peers(n) : Up(q) /\ role[q] = "LEADER"
  /\ ResetElectionTimer(n)
  /\ UNCHANGED <<process, electionVars, first_txn_received, logVars,
                 proposalVars, executeVars, clientVars, msgs, boundVars>>

-----------------------------------------------------------------------------
\* Replication.

AcceptAck(n, m) == [type |-> "Ack", from |-> n, to |-> m.from,
                    counter |-> m.ballot.counter, seq |-> m.seq]

StepsDown(n, m) == role[n] = "LEADER" /\ Higher(m.ballot, current_ballot[n])

\* HandlePropose: the entry enters accept_log_ only where it has none.
HandlePropose(n, m) ==
  /\ Received(m, "Accept", n)
  /\ ~ StepsDown(n, m)
  /\ ~ Higher(highest_promised_ballot[n], m.ballot)
  /\ IF Higher(m.ballot, highest_promised_ballot[n])
     THEN SetNewLeader(n, m.ballot)
     ELSE UNCHANGED <<leader_id, current_ballot, highest_promised_ballot>>
  /\ LET e == [ballot |-> m.ballot, req |-> m.req]
     IN /\ accept_log' = [accept_log EXCEPT ![n][m.seq] =
                            IF @ = NoEntry THEN e ELSE @]
        /\ pending_entries' = [pending_entries EXCEPT ![n][m.seq] = e]
  /\ IF role[n] = "BACKUP"
     THEN ResetElectionTimer(n)
     ELSE /\ heard_leader' = [heard_leader EXCEPT ![n] = TRUE]
          /\ UNCHANGED timer_running
  /\ msgs' = (msgs \ {m}) \cup {AcceptAck(n, m)}
  /\ UNCHANGED <<process, role, waiting_for_promises, promises_received,
                 received_promise_logs, pending_promise_call, in_election,
                 first_txn_received, last_seqnum, max_seqnum_in_new_view,
                 pending_client_calls, accepted_count, executeVars,
                 clientVars, boundVars>>

\* HandlePropose on a leader that learns of a higher ballot.
StepDownOnPropose(n, m) ==
  /\ Received(m, "Accept", n)
  /\ StepsDown(n, m)
  /\ DropLeadership(n)
  /\ SetNewLeader(n, m.ballot)
  /\ LET e == [ballot |-> m.ballot, req |-> m.req]
     IN /\ accept_log' = [accept_log EXCEPT ![n][m.seq] =
                            IF @ = NoEntry THEN e ELSE @]
        /\ pending_entries' = [pending_entries EXCEPT ![n] =
                                 [EmptyLog EXCEPT ![m.seq] = e]]
  /\ ResetElectionTimer(n)
  /\ msgs' = (msgs \ {m}) \cup {AcceptAck(n, m)}
  /\ UNCHANGED <<process, promises_received, received_promise_logs,
                 pending_promise_call, in_election, first_txn_received,
                 last_seqnum, max_seqnum_in_new_view, last_executed_seq,
                 applied, clientVars, boundVars>>

Acks(count, s, c) == {q \in Node : <<s, c, q>> \in count}

\* Mutant of Commits: a quorum that is one node too large.
CommitsWithFPlus2(n, m, count) ==
  /\ Cardinality(Acks(count, m.seq, m.counter)) = F + 2
  /\ entries_to_commit[n][m.seq] = None \/ m.seq <= max_seqnum_in_new_view[n]

\* HandleAccept commits on the ack that completes a quorum, but not twice
\* unless the entry came with the NEW-VIEW.
Commits(n, m, count) ==
  /\ Cardinality(Acks(count, m.seq, m.counter)) = F + 1
  /\ \/ entries_to_commit[n][m.seq] = None
     \/ m.seq <= max_seqnum_in_new_view[n]

\* HandleAccept short of a quorum, or past it.
HandleAccept(n, m) ==
  /\ Received(m, "Ack", n)
  /\ role[n] = "LEADER"
  /\ LET count == accepted_count[n] \cup {<<m.seq, m.counter, m.from>>}
     IN /\ ~ Commits(n, m, count)
        /\ accepted_count' = [accepted_count EXCEPT ![n] = count]
  /\ msgs' = msgs \ {m}
  /\ UNCHANGED <<process, electionVars, timerVars, logVars, pending_entries,
                 pending_client_calls, executeVars, clientVars, boundVars>>

\* Mutant of EntryToCommit: entries of the NEW-VIEW are not looked up.
PendingEntryOnly(n, s) == pending_entries[n][s]

\* The entry that CommitEntry commits.
EntryToCommit(n, s) == IF pending_entries[n][s] # NoEntry
                       THEN pending_entries[n][s]
                       ELSE accept_log[n][s]

\* Its request.  Where there is no entry, accept_log_[seqnum] makes up a blank
\* one, whose execution ends the process as that of a NO-OP does.
RequestToCommit(n, s) == IF EntryToCommit(n, s) = NoEntry THEN NoOp
                         ELSE EntryToCommit(n, s).req

\* The Commits of a blank entry carry sequence number 0, which nobody executes.
BroadcastCommit(n, s, r) ==
  {[type |-> "Commit", from |-> n, to |-> q, seq |-> s, req |-> r]
     : q \in {p \in Peers(n) : EntryToCommit(n, s) # NoEntry}}

\* HandleAccept with a quorum, CommitEntry, BroadcastCommit and the execution
\* of what became executable.
CommitEntry(n, m) ==
  /\ Received(m, "Ack", n)
  /\ role[n] = "LEADER"
  /\ LET count == accepted_count[n] \cup {<<m.seq, m.counter, m.from>>}
         r == RequestToCommit(n, m.seq)
         commits == [entries_to_commit[n] EXCEPT ![m.seq] =
                       IF @ = None THEN r ELSE @]
     IN /\ Commits(n, m, count)
        /\ accepted_count' = [accepted_count EXCEPT ![n] = count]
        /\ entries_to_commit' = [entries_to_commit EXCEPT ![n] = commits]
        /\ msgs' = (msgs \ {m}) \cup BroadcastCommit(n, m.seq, r)
        /\ IF last_executed_seq[n] + 1 = m.seq
           THEN SequentiallyExecuteCommittedEntries(n, commits)
           ELSE UNCHANGED <<process, last_executed_seq, applied,
                            balance_locks, pending_entries,
                            pending_client_calls, replies,
                            last_reply_per_client>>
  /\ UNCHANGED <<electionVars, timerVars, logVars, pending_or_completed_ts,
                 boundVars>>

\* HandleCommit looks at no ballot; the first Commit of a sequence number
\* counts.
HandleCommit(n, m) ==
  /\ Received(m, "Commit", n)
  /\ IF role[n] = "BACKUP"
     THEN ResetElectionTimer(n)
     ELSE UNCHANGED <<timer_running, heard_leader>>
  /\ LET commits == [entries_to_commit[n] EXCEPT ![m.seq] =
                       IF @ = None THEN m.req ELSE @]
     IN /\ entries_to_commit' = [entries_to_commit EXCEPT ![n] = commits]
        /\ IF last_executed_seq[n] + 1 = m.seq
           THEN SequentiallyExecuteCommittedEntries(n, commits)
           ELSE UNCHANGED <<process, last_executed_seq, applied,
                            balance_locks, pending_entries,
                            pending_client_calls, replies,
                            last_reply_per_client>>
  /\ msgs' = msgs \ {m}
  /\ UNCHANGED <<electionVars, first_txn_received, logVars, accepted_count,
                 pending_or_completed_ts, boundVars>>

-----------------------------------------------------------------------------
\* What a handler returns from without a change.
Ignored(n, m) ==
  \/ m.type = "Promise" /\ (~ Electing(n) \/ m.from \in promises_received[n])
  \/ /\ m.type = "NewView"
     /\ role[n] = "LEADER" /\ ~ Higher(m.ballot, current_ballot[n])
  \/ /\ m.type = "Accept"
     /\ ~ StepsDown(n, m) /\ Higher(highest_promised_ballot[n], m.ballot)
  \/ m.type = "Ack" /\ role[n] # "LEADER"

\* A call whose receiver ignores it, or is down: every handler returns at
\* once when alive_ is false.
Drop(m) ==
  /\ m \in msgs
  /\ m.to \in Node /\ Up(m.to) => Ignored(m.to, m)
  /\ msgs' = msgs \ {m}
  /\ UNCHANGED <<process, electionVars, timerVars, logVars, proposalVars,
                 executeVars, clientVars, boundVars>>

\* kill(): the state stays, a leader is demoted, a backup's timer stops.
Kill(n) ==
  /\ kills < MaxKills
  /\ Up(n)
  /\ process' = [process EXCEPT ![n] = "down"]
  /\ \/ /\ role[n] = "BACKUP"
        /\ timer_running' = [timer_running EXCEPT ![n] = FALSE]
        /\ UNCHANGED <<role, waiting_for_promises, leader_id, proposalVars,
                       entries_to_commit>>
     \/ /\ role[n] = "LEADER"
        /\ DemoteToBackup(n)
        /\ UNCHANGED timer_running
  /\ kills' = kills + 1
  /\ UNCHANGED <<current_ballot, highest_promised_ballot, promises_received,
                 received_promise_logs, pending_promise_call, in_election,
                 heard_leader, first_txn_received, logVars,
                 last_executed_seq, applied, clientVars, msgs, campaigns>>

\* Mutants of Revive: the node comes back with an empty log or database.
ReviveWithoutLog(n) ==
  /\ process[n] = "down"
  /\ process' = [process EXCEPT ![n] = "up"]
  /\ accept_log' = [accept_log EXCEPT ![n] = EmptyLog]
  /\ UNCHANGED <<electionVars, timerVars, last_seqnum, max_seqnum_in_new_view,
                 proposalVars, executeVars, clientVars, msgs, boundVars>>
ReviveEmpty(n) ==
  /\ process[n] = "down"
  /\ process' = [process EXCEPT ![n] = "up"]
  /\ last_executed_seq' = [last_executed_seq EXCEPT ![n] = 0]
  /\ applied' = [applied EXCEPT ![n] = EmptyCommits]
  /\ UNCHANGED <<electionVars, timerVars, logVars, proposalVars,
                 entries_to_commit, clientVars, msgs, boundVars>>

\* revive(): only alive_ changes, no timer starts.
Revive(n) ==
  /\ process[n] = "down"
  /\ process' = [process EXCEPT ![n] = "up"]
  /\ UNCHANGED <<electionVars, timerVars, logVars, proposalVars, executeVars,
                 clientVars, msgs, boundVars>>

\* HandleSetAlive at the start of a transaction set: demotion, then revive().
ReviveForNewSet(n) ==
  /\ process[n] = "down"
  /\ process' = [process EXCEPT ![n] = "up"]
  /\ DemoteToBackup(n)
  /\ UNCHANGED <<current_ballot, highest_promised_ballot, promises_received,
                 received_promise_logs, pending_promise_call, in_election,
                 timerVars, logVars, last_executed_seq, applied, clientVars,
                 msgs, boundVars>>

-----------------------------------------------------------------------------
Client(n)   == \E r \in Request : \/ HandleFirstRequest(n, r)
                                  \/ AbortOnOwnForward(n, r)
                                  \/ ProcessClientRequest(n, r)
Timer(n)    == Campaign(n) \/ SkipCampaign(n)
Election(n) == \E m \in msgs : \/ HandlePrepare(n, m)
                               \/ RejectPrepare(n, m)
                               \/ HandlePromise(n, m)
                               \/ BecomeLeader(n, m)
                               \/ HandleNewView(n, m)
Replication(n) == \E m \in msgs : \/ HandlePropose(n, m)
                                  \/ StepDownOnPropose(n, m)
                                  \/ HandleAccept(n, m)
                                  \/ CommitEntry(n, m)
                                  \/ HandleCommit(n, m)
Driver(n)   == Kill(n) \/ Revive(n) \/ ReviveForNewSet(n)

Next == \/ \E n \in Node : \/ Client(n)
                           \/ Timer(n)
                           \/ Election(n)
                           \/ HandleHeartbeat(n)
                           \/ Replication(n)
                           \/ Driver(n)
        \/ \E m \in msgs : Drop(m)

Spec == Init /\ [][Next]_vars
-----------------------------------------------------------------------------
\* The types of the variables, in the groups of "vars".
ElectionTypeOK ==
  /\ role \in [Node -> {"LEADER", "BACKUP"}]
  /\ leader_id \in [Node -> Nat \cup {-1}]
  /\ current_ballot \in [Node -> Ballot]
  /\ highest_promised_ballot \in [Node -> Ballot]
  /\ waiting_for_promises \in [Node -> BOOLEAN]
  /\ promises_received \in [Node -> SUBSET Node]
  /\ received_promise_logs \in [Node -> [Node -> Log]]
  /\ pending_promise_call \in [Node -> Node \cup {None}]
  /\ in_election \in [Node -> BOOLEAN]

TimerTypeOK ==
  /\ timer_running \in [Node -> BOOLEAN]
  /\ heard_leader \in [Node -> BOOLEAN]
  /\ first_txn_received \in [Node -> BOOLEAN]

LogTypeOK ==
  /\ accept_log \in [Node -> Log]
  /\ last_seqnum \in [Node -> 0 .. MaxSeq]
  /\ max_seqnum_in_new_view \in [Node -> 0 .. MaxSeq]

ProposalTypeOK ==
  /\ pending_entries \in [Node -> Log]
  /\ pending_client_calls \in [Node -> SUBSET Seqnum]
  /\ accepted_count \in [Node -> SUBSET (Seqnum \X Nat \X Node)]

ExecuteTypeOK ==
  /\ entries_to_commit \in [Node -> CommitTable]
  /\ last_executed_seq \in [Node -> 0 .. MaxSeq]
  /\ applied \in [Node -> [Seqnum -> Request \cup {None}]]

ClientTypeOK ==
  /\ pending_or_completed_ts \in [Node -> SUBSET Request]
  /\ last_reply_per_client \in [Node -> [Account -> Request \cup {None}]]
  /\ balance_locks \in [Node -> SUBSET Account]
  /\ replies \in SUBSET Request

BoundTypeOK ==
  /\ campaigns \in 0 .. MaxCampaigns
  /\ kills \in 0 .. MaxKills

\* Every variable has the type its declaration in paxos_node.h gives it.
TypeOK ==
  /\ process \in [Node -> {"up", "down", "exited"}]
  /\ ElectionTypeOK
  /\ TimerTypeOK
  /\ LogTypeOK
  /\ ProposalTypeOK
  /\ ExecuteTypeOK
  /\ ClientTypeOK
  /\ msgs \subseteq Message
  /\ BoundTypeOK

\* Two nodes never apply different transactions at the same sequence number:
\* the replicas of a shard run the same commands in the same order.
Agreement ==
  \A n, q \in Node, s \in Seqnum :
    applied[n][s] # None /\ applied[q][s] # None
      => applied[n][s] = applied[q][s]

\* A transaction the client has a reply to is accepted, at one sequence
\* number, by a quorum: losing any F nodes' memory would not lose it.
ReplyIsDurable ==
  \A r \in replies :
    \E s \in Seqnum :
      Cardinality({n \in Node : accept_log[n][s].req = r}) >= F + 1

\* The acknowledgement that completes a quorum names an entry the leader has:
\* CommitEntry reads accept_log_[seqnum] without looking it up first.
CommitFindsEntry ==
  \A m \in msgs :
    /\ m.type = "Ack" /\ m.to \in Node /\ role[m.to] = "LEADER"
    /\ Commits(m.to, m, accepted_count[m.to]
                          \cup {<<m.seq, m.counter, m.from>>})
    => EntryToCommit(m.to, m.seq) # NoEntry

\* A timestamp in the dedup set of a leader is the timestamp of an entry of its
\* log: otherwise every retry of that request is ignored and nobody runs it.
ClaimIsLogged ==
  \A n \in Node : role[n] = "LEADER" =>
    \A r \in pending_or_completed_ts[n] :
      \E s \in Seqnum : accept_log[n][s].req = r

\* A node never takes part in a ballot above the one it promised.  Counter 0
\* is the ballot a node is constructed with, which nobody campaigns with.
BallotWithinPromise ==
  \A n \in Node : current_ballot[n].counter > 0 =>
                   ~ Higher(current_ballot[n], highest_promised_ballot[n])

\* A leader's log has an entry for every sequence number it has assigned and
\* none beyond, so that a commit is never stuck behind a gap.
LeaderLogHasNoGaps ==
  \A n \in Node : role[n] = "LEADER" =>
    \A s \in Seqnum : accept_log[n][s] # NoEntry <=> s <= last_seqnum[n]

\* A backup holds no client call: whoever stops leading, on whatever path, has
\* released the calls it would never answer.
NoOrphanedCalls ==
  \A n \in Node : role[n] = "BACKUP" => pending_client_calls[n] = {}

\* A replica has applied exactly the sequence numbers up to
\* last_executed_seq_: no gap is skipped and nothing runs ahead, in whatever
\* order entries are committed and whoever leads.
AppliedIsPrefix ==
  \A n \in Node, s \in Seqnum :
    applied[n][s] # None <=> s <= last_executed_seq[n]

KeepsApplied == \A n \in Node, s \in Seqnum :
                  applied[n][s] # None => applied'[n][s] = applied[n][s]

\* A transaction that a replica has applied is never undone, replaced or
\* applied again by what a later leader commits at its sequence number.
ExecutionIsFinal == [][KeepsApplied]_vars

\* No process terminates: filling a gap of the log with a NO-OP does nothing.
NoProcessExits == \A n \in Node : process[n] # "exited"

\* A promise is kept: no step of a node lowers the highest ballot it promised.
PromiseNeverLowered ==
  [][\A n \in Node : ~ Higher(highest_promised_ballot[n],
                              highest_promised_ballot'[n])]_vars

-----------------------------------------------------------------------------
\* The longest applied prefix is the cluster's log.
MostAdvanced == CHOOSE n \in Node :
                  \A q \in Node : last_executed_seq[q] <= last_executed_seq[n]
ClusterLog == [s \in 1 .. last_executed_seq[MostAdvanced]
                 |-> applied[MostAdvanced][s]]

Abstract == INSTANCE ReplicatedLog WITH log <- ClusterLog,
                                        position <- last_executed_seq,
                                        answered <- replies

\* The cluster is a replicated log: each node applies a prefix of one sequence
\* without repetitions, and replies only to what is in it.
RefinesReplicatedLog == Abstract!LogSpec

-----------------------------------------------------------------------------
\* Fairness: gRPC delivers every call and the pollers of a live node handle it,
\* a client repeats an unanswered request, and a running election timer keeps
\* expiring.  Nothing is assumed about kills, recoveries and heartbeats.
Progress == \E n \in Node : \/ Election(n)
                            \/ Replication(n)
                            \/ Client(n)
                            \/ Campaign(n)
FairSpec == Spec /\ WF_vars(Progress)

\* The failures a cluster does not have to survive without a new election:
\* the first leader fails, or more than F nodes are down at a time.
Outage == \/ ~ Up(InitialLeader)
          \/ Cardinality({n \in Node : ~ Up(n)}) > F

\* Unless there is an outage, every transaction the client keeps sending is
\* answered, also when backups fail and transactions share an account.
EveryRequestIsAnswered == <>(Outage \/ replies = Request)

\* A replica that never fails applies every transaction as well.
LiveReplicasCatchUp ==
  \A n \in Node :
    <>(\/ Outage \/ ~ Up(n)
       \/ \A r \in Request : \E s \in Seqnum : applied[n][s] = r)
=============================================================================
