--------------------------- MODULE TwoPhaseCommit ---------------------------
(***************************************************************************)
(* Cross-shard transfers: two-phase commit between clusters, every step of *)
(* which is a Paxos entry inside a cluster (src/paxos_node.cpp, the        *)
(* two_pc_status branches and lines 2374-2824).  The sender's cluster      *)
(* coordinates, the receiver's cluster participates.  Proposal,            *)
(* acknowledgement and commit are the handlers that PaxosCluster models,   *)
(* here with what they do to balances, the write-ahead log and the locks.  *)
(* An election is one step: PaxosCluster is about what happens inside.     *)
(*                                                                         *)
(* The state of a node is one record, so that a handler is a function from *)
(* records to records, composed of the functions the code calls.  While a  *)
(* handler runs, out and told collect what it sends.                       *)
(***************************************************************************)
EXTENDS Integers, FiniteSets

CONSTANTS
  Node,           \* the nodes that are up when the set starts
  Cluster,        \* ids of the clusters (1 .. num_clusters_)
  ClusterOf,      \* [Node -> Cluster]
  FirstLeader,    \* [Cluster -> Node]: cluster_leaders_ at the start
  OwnSlot,        \* [Node -> Cluster]: shard_map_[node_id_], the cluster of the
                  \* account whose number is the id of the node
  F,              \* f_: a quorum is F + 1 nodes of a cluster
  Txn,            \* client transactions (timestamps)
  Account,
  shard_map,      \* [Account -> Cluster]: the map of the nodes
  sharding_map,   \* the map of the client, which no resharding changes
  From, To,       \* [Txn -> Account]
  Amount,         \* [Txn -> Nat]
  OpeningBalance, \* 10 in the code
  None,           \* no transaction, no leader
  MaxSeq,         \* bound: sequence numbers of a cluster are 1 .. MaxSeq
  MaxTimeouts,    \* bound: PREPAREs found overdue by the retry thread
  MaxKills,       \* bound: kills by the driver
  MaxMoveOns      \* bound: MoveOn requests handled

ASSUME ConstantsAssumption ==
  /\ IsFiniteSet(Node)
  /\ ClusterOf \in [Node -> Cluster]
  /\ FirstLeader \in [Cluster -> Node]
  /\ \A c \in Cluster : ClusterOf[FirstLeader[c]] = c
  /\ OwnSlot \in [Node -> Cluster]
  /\ F \in Nat
  /\ shard_map \in [Account -> Cluster]
  /\ sharding_map \in [Account -> Cluster]
  /\ From \in [Txn -> Account]
  /\ To \in [Txn -> Account]
  /\ Amount \in [Txn -> Nat]
  /\ OpeningBalance \in Nat
  /\ None \notin Txn
  /\ MaxSeq \in Nat /\ MaxTimeouts \in Nat /\ MaxKills \in Nat
  /\ MaxMoveOns \in Nat

Seqnum == 1 .. MaxSeq
CoordCluster(t) == shard_map[From[t]]
PartCluster(t)  == shard_map[To[t]]
IntraShard(t)   == CoordCluster(t) = PartCluster(t)
Peers(n)   == {q \in Node \ {n} : ClusterOf[q] = ClusterOf[n]}
Members(c) == {n \in Node : ClusterOf[n] = c}

\* two_pc_status; "" is that of an intra-shard transfer.
SecondPhase == {"C_COORD", "A_COORD", "C", "A_PART_COMMIT"}
Status == {"", "COORD", "P", "A"} \cup SecondPhase

\* AcceptedEntry: counter is that of its ballot, p2 its phase2_result.
Entry   == [txn : Txn, status : Status, counter : Nat,
            p2 : SecondPhase \cup {""}]
NoEntry == [txn |-> None, status |-> "", counter |-> 0, p2 |-> ""]
\* CommitEntry, of which only these two are read.
CommitRecord == [txn : Txn, status : Status]
NoCommit == [txn |-> None, status |-> ""]
WalRecord == [before_value : Int, after_value : Int, written : BOOLEAN]
NoWal     == [before_value |-> 0, after_value |-> 0, written |-> FALSE]

\* Votes and decisions, as TwoPC messages carry them between clusters.
Vote == {"PREPARED", "ABORT", "COMMIT"}
Confirmation == {"COMMITTED", "A_PART_COMMIT"}

\* The RPCs between nodes.
Message ==
       [type : {"PREPARE"}, from : Node, to : Node, txn : Txn, copy : {0, 1}]
  \cup [type : {"Accept"}, from : Node, to : Node, seq : Seqnum, e : Entry]
  \cup [type : {"Ack"}, from : Node, to : Node, seq : Seqnum, counter : Nat,
        status : Status]
  \cup [type : {"Commit"}, from : Node, to : Node, seq : Seqnum,
        c : CommitRecord, blank : BOOLEAN]
  \cup [type : {"TwoPC"}, to : Node, txn : Txn, what : Vote \cup Confirmation]
  \cup [type : {"NewLeader"}, to : Node, leader : Node]

Reply == [txn : Txn, success : BOOLEAN]
Resolution == [node : Node, txn : Txn, p2 : SecondPhase]

\* The members of a PaxosNode, and what a handler has sent so far.
NodeState ==
  [alive : BOOLEAN, exited : BOOLEAN, leads : BOOLEAN, counter : Nat,
   accept_log : [Seqnum -> Entry \cup {NoEntry}],
   last_seqnum : 0 .. MaxSeq,
   max_seqnum_in_new_view : 0 .. MaxSeq,
   pending_client_calls : SUBSET Seqnum,
   blank_votes : SUBSET Seqnum,
   accepted_count : SUBSET (Seqnum \X Nat \X Node),
   accepted_count_two_pc_commit : SUBSET (Seqnum \X Nat \X Node),
   entries_to_commit : [Seqnum -> CommitRecord \cup {NoCommit}],
   last_executed_seq : 0 .. MaxSeq,
   accounts : [Account -> Int],
   wal : [Seqnum -> WalRecord],
   balance_locks : SUBSET Account,
   pending_or_completed_ts : SUBSET Txn,
   digest_to_seqnum : [Txn -> 0 .. MaxSeq],
   prepare_and_aborted_queue : [Txn -> Vote \cup {""}],
   in_flight_prepares : [Txn -> [sent : BOOLEAN, completed : BOOLEAN,
                                 retries : {0, 1}]],
   in_flight_transactions : SUBSET Txn,
   leader_id : Node \cup {None},
   cluster_leaders : [Cluster -> Node],
   out : SUBSET Message, told : SUBSET Reply, resolved : SUBSET Resolution]

VARIABLES
  node,      \* the state of each PaxosNode
  msgs,      \* RPCs and responses in flight
  replies,   \* the replies the client got: [txn, success]
  outcomes,  \* history: [node, txn, p2] of every phase 2 that was executed
  timeouts, kills, move_ons

boundVars == <<timeouts, kills, move_ons>>
vars == <<node, msgs, replies, outcomes, boundVars>>

InitialNode(n) ==
  [alive |-> TRUE,
   exited |-> FALSE,                     \* the process has ended
   leads |-> n = FirstLeader[ClusterOf[n]],               \* role_ = LEADER
   counter |-> 1,                        \* current and promised ballot
   accept_log |-> [s \in Seqnum |-> NoEntry],
   last_seqnum |-> 0,
   max_seqnum_in_new_view |-> 0,
   pending_client_calls |-> {},
   blank_votes |-> {},                   \* votes A in pending_entries_
   accepted_count |-> {},                \* <<seqnum, counter, node>>
   accepted_count_two_pc_commit |-> {},
   entries_to_commit |-> [s \in Seqnum |-> NoCommit],
   last_executed_seq |-> 0,
   accounts |-> [a \in Account |-> OpeningBalance],
   wal |-> [s \in Seqnum |-> NoWal],
   balance_locks |-> {},
   pending_or_completed_ts |-> {},
   digest_to_seqnum |-> [t \in Txn |-> 0],
   prepare_and_aborted_queue |-> [t \in Txn |-> ""],
   in_flight_prepares |-> [t \in Txn |-> [sent |-> FALSE, completed |-> FALSE,
                                           retries |-> 0]],
   in_flight_transactions |-> {},        \* decisions not yet confirmed
   leader_id |-> FirstLeader[ClusterOf[n]],
   cluster_leaders |-> FirstLeader,
   out |-> {}, told |-> {}, resolved |-> {}]

\* Node 1 of every cluster has been elected with counter 1.
Init ==
  /\ node = [n \in Node |-> InitialNode(n)]
  /\ msgs = {}
  /\ replies = {}
  /\ outcomes = {}
  /\ timeouts = 0
  /\ kills = 0
  /\ move_ons = 0

\* Handler n ends in state s, having consumed the messages of "used".
Finish(n, s, used) ==
  /\ node' = [node EXCEPT ![n] =
                [s EXCEPT !.out = {}, !.told = {}, !.resolved = {}]]
  /\ msgs' = (msgs \ used) \cup s.out
  /\ replies' = replies \cup s.told
  /\ outcomes' = outcomes \cup s.resolved

Send(s, ms) == [s EXCEPT !.out = @ \cup ms]

\* One message for every peer of n in its cluster.
Broadcast(s, n, m) == Send(s, {[m EXCEPT !.to = q] : q \in Peers(n)})

\* std::stoi throws on a blank account name and nobody catches.
Exited(s) == [s EXCEPT !.alive = FALSE, !.exited = TRUE]

TwoPCMsg(type, n, t) == [type |-> "TwoPC", to |-> n, txn |-> t, what |-> type]

-----------------------------------------------------------------------------
\* Execution.

\* The account a second phase is about.
ResolvedAccount(t, p2) ==
  IF p2 \in {"C_COORD", "A_COORD"} THEN From[t] ELSE To[t]

\* Mutant of UndoneBy: the coordinator's abort does not restore the balance.
UndoneOnlyByParticipant(w, p2) == p2 = "A_PART_COMMIT" /\ w.written
\* A participant that voted A has no undo information.
UndoneBy(w, p2) == p2 = "A_COORD" \/ (p2 = "A_PART_COMMIT" /\ w.written)

\* Mutant of Unlocked: the second phase forgets the lock.
LockKept(locks, a) == locks
Unlocked(locks, a) == locks \ {a}

\* The second phase of sequence number seq is executed with outcome p2: once
\* at a node, as a rule, but nothing here or in the callers makes sure.  An
\* aborted coordinator entry takes the balance from wal_[seq], which is
\* {0, 0} if there is no such entry.
ExecuteRepeatedTwoPCEntry(s, n, seq, t, p2) ==
  LET w == s.wal[seq]
      a == ResolvedAccount(t, p2)
      done == [s EXCEPT
        !.accept_log[seq].p2 =
            IF s.accept_log[seq] # NoEntry /\ @ = "" THEN p2 ELSE @,
        !.accounts[a] = IF UndoneBy(w, p2) THEN w.before_value ELSE @,
        !.balance_locks = Unlocked(@, a),
        !.wal[seq] = NoWal,
        !.resolved = @ \cup {[node |-> n, txn |-> t, p2 |-> p2]}]
  IN CASE ~ s.leads -> done
       [] s.leads /\ p2 \in {"C_COORD", "A_COORD"} ->
            [done EXCEPT !.told =
                @ \cup {[txn |-> t, success |-> p2 = "C_COORD"]}]
       [] s.leads /\ p2 \in {"C", "A_PART_COMMIT"} ->
            Send(done, {TwoPCMsg(IF p2 = "C" THEN "COMMITTED" ELSE p2,
                                 s.cluster_leaders[CoordCluster(t)], t)})

Transferred(accounts, t) ==
  LET debited == [accounts EXCEPT ![From[t]] = @ - Amount[t]]
  IN [debited EXCEPT ![To[t]] = @ + Amount[t]]

Sufficient(s, t) == s.accounts[From[t]] >= Amount[t]

\* An overdraft changes nothing, whoever executes it, and a coordinator keeps
\* the sender's lock for the second phase.  A participant looks at its own
\* copy of the sender's account, which no transaction of the coordinator
\* changes.
ExecuteTransaction(s, seq, t, status) ==
  LET f == From[t]
      r == To[t]
      old(a) == s.accounts[a]
      unlocked == [s EXCEPT !.balance_locks = @ \ {f, r}]
      logged(a, new) == [s EXCEPT
        !.accounts[a] = new,
        !.wal[seq] = [before_value |-> old(a), after_value |-> new,
                      written |-> TRUE]]
  IN CASE IntraShard(t) /\ Sufficient(s, t) ->
            [unlocked EXCEPT !.accounts = Transferred(@, t)]
       [] IntraShard(t) /\ ~ Sufficient(s, t) -> unlocked
       [] status = "P" /\ Sufficient(s, t) -> logged(r, old(r) + Amount[t])
       [] status = "COORD" /\ Sufficient(s, t) -> logged(f, old(f) - Amount[t])
       [] OTHER -> s

\* Mutants of Outcome: a participant proposes the decision as it came, or takes
\* every decision for a commit.
ParticipantEchoes(n, t, what) ==
  IF PartCluster(t) = ClusterOf[n] THEN what
  ELSE IF what = "ABORT" THEN "A_COORD" ELSE "C_COORD"
ParticipantCommits(n, t, what) ==
  IF PartCluster(t) = ClusterOf[n] THEN "C"
  ELSE IF what = "ABORT" THEN "A_COORD" ELSE "C_COORD"
\* The status of the entry that a vote or a decision makes node n propose.
Outcome(n, t, what) ==
  IF PartCluster(t) = ClusterOf[n]
  THEN IF what = "ABORT" THEN "A_PART_COMMIT" ELSE "C"
  ELSE IF what = "ABORT" THEN "A_COORD" ELSE "C_COORD"

\* StartSecondPhase for the answer or the decision "what": a coordinator
\* passes the decision on, and either proposes the outcome at the sequence
\* number and with the ballot of the first phase.
StartSecondPhase(s, n, t, what) ==
  LET seq == s.digest_to_seqnum[t]
      decided == IF PartCluster(t) = ClusterOf[n] THEN s
                 ELSE Send([s EXCEPT
                        !.in_flight_prepares[t].completed = TRUE,
                        !.in_flight_transactions = @ \cup {t}],
                      {TwoPCMsg(IF what = "ABORT" THEN "ABORT" ELSE "COMMIT",
                                s.cluster_leaders[PartCluster(t)], t)})
      e == [txn |-> t, status |-> Outcome(n, t, what), p2 |-> "",
            counter |-> s.accept_log[seq].counter]
  IN IF seq = 0 THEN decided   \* proposed as entry 0 of ballot 0: refused
     ELSE Broadcast(
            [decided EXCEPT
               !.accept_log[seq] = e,
               !.accepted_count_two_pc_commit = @ \cup {<<seq, e.counter, n>>}],
            n, [type |-> "Accept", from |-> n, to |-> n, seq |-> seq, e |-> e])

\* Mutant of ParkedVote: prepare_and_aborted_queue_ is not looked at.
NoParkedVote(s, t) == ""
\* The vote that came before the coordinator's own entry was executed.
ParkedVote(s, t) == s.prepare_and_aborted_queue[t]

\* What a leader does after executing an entry: it answers the client, votes,
\* or takes up a vote that came before its own entry was executed.  Its entry
\* of pending_entries_ goes with the call of the client, a backup's at once.
AfterExecution(s, n, seq, t, status, success) ==
  LET u == IF /\ seq > s.max_seqnum_in_new_view
              /\ seq \in s.pending_client_calls
           THEN [s EXCEPT !.pending_client_calls = @ \ {seq},
                          !.blank_votes = @ \ {seq}]
           ELSE s
      parked == ParkedVote(s, t)
  IN CASE ~ s.leads -> [s EXCEPT !.blank_votes = @ \ {seq}]
       [] s.leads /\ status \in {"A", "P"} ->
            Send(u, {TwoPCMsg(IF status = "A" THEN "ABORT" ELSE "PREPARED",
                              s.cluster_leaders[CoordCluster(t)], t)})
       [] s.leads /\ status = "COORD" ->
            IF parked = "" THEN u
            ELSE StartSecondPhase(
                   [u EXCEPT !.prepare_and_aborted_queue[t] = ""], n, t, parked)
       [] OTHER -> [u EXCEPT !.told = @ \cup {[txn |-> t, success |-> success]}]

\* One round of the loop, if there is a next entry to execute.
ExecuteNext(s, n) ==
  LET seq == s.last_executed_seq + 1
      c   == s.entries_to_commit[seq]
      ran == ExecuteTransaction([s EXCEPT !.last_executed_seq = seq],
                                seq, c.txn, c.status)
      p2  == s.accept_log[seq].p2
      resolved == IF p2 = "" THEN ran
                  ELSE ExecuteRepeatedTwoPCEntry(ran, n, seq, c.txn, p2)
  IN IF seq \notin Seqnum \/ c = NoCommit THEN s
     ELSE AfterExecution(resolved, n, seq, c.txn, c.status,
                         Sufficient(s, c.txn) /\ c.status # "A")

\* The loop stops at the first gap, after MaxSeq rounds at the latest.
SequentiallyExecuteCommittedEntries(s, n) ==
  LET after[i \in 0 .. MaxSeq] ==
        IF i = 0 THEN s ELSE ExecuteNext(after[i - 1], n)
  IN after[MaxSeq]

\* CommitEntry and HandleCommit record the first Commit of a sequence number;
\* a second phase comes with the number of the first.
RecordCommit(s, seq, c) ==
  [s EXCEPT !.entries_to_commit[seq] = IF @ = NoCommit THEN c ELSE @]

\* An entry that is still in pending_entries_ is preferred to the one in the
\* log.  HandleMoveOn leaves it there for good; a vote A has no copy of the
\* request (m), which the second phase needs.
CommitEntry(s, n, seq, status) ==
  LET c == [txn |-> s.accept_log[seq].txn, status |-> status]
      blank == status \in SecondPhase /\ seq \in s.blank_votes
      u == Broadcast(RecordCommit(s, seq, c), n,
             [type |-> "Commit", from |-> n, to |-> n, seq |-> seq, c |-> c,
              blank |-> blank])
  IN CASE s.last_executed_seq + 1 = seq ->
            SequentiallyExecuteCommittedEntries(u, n)
       [] s.last_executed_seq + 1 # seq /\ blank -> Exited(u)
       [] s.last_executed_seq + 1 # seq /\ status \in SecondPhase /\ ~ blank ->
            ExecuteRepeatedTwoPCEntry(u, n, seq, c.txn, status)
       [] OTHER -> u

-----------------------------------------------------------------------------
\* First phase: requests from clients and PREPAREs from other clusters.

\* The last part of ProcessClientRequest: claim the timestamp, take the next
\* sequence number, accept it and broadcast Accept.
Propose(s, n, t, status) ==
  LET seq == s.last_seqnum + 1
      e   == [txn |-> t, status |-> status, counter |-> s.counter, p2 |-> ""]
  IN Broadcast(
       [s EXCEPT
          !.pending_or_completed_ts = @ \cup {t},
          !.last_seqnum = seq,
          !.pending_client_calls = @ \cup {seq},
          !.blank_votes = IF status = "A" THEN @ \cup {seq} ELSE @,
          !.accepted_count = @ \cup {<<seq, s.counter, n>>},
          !.accept_log[seq] = e,
          !.digest_to_seqnum[t] = seq],
       n, [type |-> "Accept", from |-> n, to |-> n, seq |-> seq, e |-> e])

PrepareMsg(n, q, t, copy) ==
  [type |-> "PREPARE", from |-> n, to |-> q, txn |-> t, copy |-> copy]

Needed(t) == IF IntraShard(t) THEN {From[t], To[t]} ELSE {From[t]}

\* A client sends a request again until it is answered, and backups forward
\* it, so it may reach the leader of the sender's cluster, by the map of the
\* client, at any time.  No node compares that cluster with its own map.  A
\* request that is known or finds an account locked is ignored.
Admissible(n, t) ==
  /\ node[n].alive /\ node[n].leads
  /\ ClusterOf[n] = sharding_map[From[t]]
  /\ \A r \in replies : r.txn # t
  /\ t \notin node[n].pending_or_completed_ts
  /\ Needed(t) \cap node[n].balance_locks = {}
  /\ node[n].last_seqnum < MaxSeq

ProcessClientRequest(n, t) ==
  LET s == node[n]
      locked == [s EXCEPT !.balance_locks = @ \cup Needed(t)]
      prepared == Send([locked EXCEPT !.in_flight_prepares[t].sent = TRUE],
                       {PrepareMsg(n, s.cluster_leaders[PartCluster(t)], t, 0)})
  IN
  /\ Admissible(n, t)
  /\ Finish(n, IF IntraShard(t) THEN Propose(locked, n, t, "")
               ELSE Propose(prepared, n, t, "COORD"), {})
  /\ UNCHANGED boundVars

\* Mutant of ReceiverFree: the participant does not try the receiver's lock.
ReceiverAlwaysFree(s, t) == TRUE
ReceiverFree(s, t) == To[t] \notin s.balance_locks

\* The leader of the participant's cluster votes by proposing its vote.  A
\* PREPARE that was seen before is ignored, not answered.
HandlePrepare(n, m) ==
  LET s == node[n]
      t == m.txn
      u == [s EXCEPT !.cluster_leaders[CoordCluster(t)] = m.from]
  IN
  /\ m \in msgs /\ m.type = "PREPARE" /\ m.to = n
  /\ s.alive /\ s.leads
  /\ t \in s.pending_or_completed_ts \/ s.last_seqnum < MaxSeq
  /\ Finish(n, CASE t \in s.pending_or_completed_ts -> s
                 [] t \notin s.pending_or_completed_ts
                    /\ ~ ReceiverFree(s, t) -> Propose(u, n, t, "A")
                 [] OTHER ->
                    Propose([u EXCEPT !.balance_locks = @ \cup {To[t]}],
                            n, t, "P"),
            {m})
  /\ UNCHANGED boundVars

\* A backup forwards the PREPARE to the leader it knows: leader_id_, not
\* cluster_leaders_.
ForwardPrepare(n, m) ==
  LET s == node[n] IN
  /\ m \in msgs /\ m.type = "PREPARE" /\ m.to = n
  /\ s.alive /\ ~ s.leads /\ s.leader_id # None
  /\ Finish(n, Send(s, {[m EXCEPT !.to = s.leader_id]}), {m})
  /\ UNCHANGED boundVars

-----------------------------------------------------------------------------
\* Paxos inside a cluster.

\* A backup keeps an entry it has, whatever it acknowledges, so that the
\* second phase does not reach the log of a backup in this way; in
\* pending_entries_ it keeps what came last.  Nobody learns of a leader here:
\* an election is one step of all live nodes of a cluster.
HandlePropose(n, m) ==
  LET s == node[n] IN
  /\ m \in msgs /\ m.type = "Accept" /\ m.to = n
  /\ s.alive
  /\ Finish(n,
       IF m.e.counter < s.counter THEN s
       ELSE Send([s EXCEPT
                    !.counter = m.e.counter,
                    !.accept_log[m.seq] = IF @ = NoEntry THEN m.e ELSE @,
                    !.blank_votes = IF m.e.status = "A" THEN @ \cup {m.seq}
                                    ELSE @ \ {m.seq}],
                 {[type |-> "Ack", from |-> n, to |-> m.from, seq |-> m.seq,
                   counter |-> m.e.counter, status |-> m.e.status]}),
       {m})
  /\ UNCHANGED boundVars

\* Each phase has a table of votes; neither tells statuses apart, and both
\* commit when the number of votes is exactly F + 1.
HandleAccept(n, m) ==
  LET s == node[n]
      second == m.status \in SecondPhase
      vote == <<m.seq, m.counter, m.from>>
      u == IF second
           THEN [s EXCEPT !.accepted_count_two_pc_commit = @ \cup {vote}]
           ELSE [s EXCEPT !.accepted_count = @ \cup {vote}]
      votes == IF second THEN u.accepted_count_two_pc_commit
               ELSE u.accepted_count
      quorum == Cardinality({v \in votes : v[1] = m.seq /\ v[2] = m.counter})
                  = F + 1
      commit == /\ quorum
                /\ \/ second
                   \/ s.entries_to_commit[m.seq] = NoCommit
                   \/ m.seq <= s.max_seqnum_in_new_view
  IN
  /\ m \in msgs /\ m.type = "Ack" /\ m.to = n
  /\ s.alive /\ s.leads
  /\ Finish(n, IF commit THEN CommitEntry(u, n, m.seq, m.status) ELSE u, {m})
  /\ UNCHANGED boundVars

HandleCommit(n, m) ==
  LET s == node[n]
      u == RecordCommit(s, m.seq, m.c)
  IN
  /\ m \in msgs /\ m.type = "Commit" /\ m.to = n
  /\ s.alive
  /\ Finish(n, CASE m.blank -> Exited(u)
                 [] ~ m.blank /\ m.c.status \in SecondPhase ->
                      ExecuteRepeatedTwoPCEntry(u, n, m.seq, m.c.txn,
                                                m.c.status)
                 [] /\ m.c.status \notin SecondPhase
                    /\ s.last_executed_seq + 1 = m.seq ->
                      SequentiallyExecuteCommittedEntries(u, n)
                 [] OTHER -> u,
            {m})
  /\ UNCHANGED boundVars
-----------------------------------------------------------------------------
\* Second phase.

\* Votes at the coordinator, the decision at the participant.  Neither alive_
\* nor role_ is looked at, and a vote is taken up though the transaction was
\* decided before.
HandlePreparedAndAborted(n, m) ==
  LET s == node[n]
      t == m.txn
      executed == s.digest_to_seqnum[t] \in 1 .. s.last_executed_seq
  IN
  /\ m \in msgs /\ m.type = "TwoPC" /\ m.to = n
  /\ m.what \in {"PREPARED", "ABORT", "COMMIT"}
  /\ ~ s.exited
  /\ Finish(n, IF ClusterOf[n] = CoordCluster(t) /\ ~ executed
               THEN [s EXCEPT !.prepare_and_aborted_queue[t] = m.what]
               ELSE StartSecondPhase(s, n, t, m.what),
            {m})
  /\ UNCHANGED boundVars

HandleCommittedAndAborted(n, m) ==
  /\ m \in msgs /\ m.type = "TwoPC" /\ m.to = n
  /\ m.what \in {"COMMITTED", "A_PART_COMMIT"}
  /\ ~ node[n].exited
  /\ Finish(n, [node[n] EXCEPT !.in_flight_transactions = @ \ {m.txn}], {m})
  /\ UNCHANGED boundVars

\* TransactionRetryLoop finds that a PREPARE has waited a second for its
\* answer: the first time it sends it again, the second time it gives up.
Overdue(n, t) ==
  /\ timeouts < MaxTimeouts
  /\ timeouts' = timeouts + 1
  /\ ~ node[n].exited
  /\ node[n].in_flight_prepares[t].sent
  /\ ~ node[n].in_flight_prepares[t].completed
  /\ UNCHANGED <<kills, move_ons>>

RetryPrepare(n, t) ==
  LET s == node[n] IN
  /\ Overdue(n, t)
  /\ s.in_flight_prepares[t].retries = 0
  /\ Finish(n, Send([s EXCEPT !.in_flight_prepares[t].retries = 1],
                    {PrepareMsg(n, s.cluster_leaders[PartCluster(t)], t, 1)}),
            {})

\* HandlePreparedTimeout: A_COORD is proposed in the coordinator's cluster,
\* executed first phase or not; the participant is not told.
HandlePreparedTimeout(n, t) ==
  LET s == node[n]
      seq == s.digest_to_seqnum[t]
      e == [s.accept_log[seq] EXCEPT !.status = "A_COORD"]
  IN
  /\ Overdue(n, t)
  /\ s.in_flight_prepares[t].retries = 1
  /\ Finish(n,
       Broadcast(
         [s EXCEPT
            !.in_flight_prepares[t].completed = TRUE,
            !.accept_log[seq] = e,
            !.accepted_count_two_pc_commit = @ \cup {<<seq, e.counter, n>>}],
         n, [type |-> "Accept", from |-> n, to |-> n, seq |-> seq, e |-> e]),
       {})

-----------------------------------------------------------------------------
\* Failures.

NotInFlight(s) ==
  [s EXCEPT
     !.in_flight_prepares = [t \in Txn |-> [@[t] EXCEPT !.sent = FALSE,
                                                        !.completed = FALSE]],
     !.in_flight_transactions = {}]

\* HandleMoveOn, when the user abandons a set: the locks of the intra-shard
\* requests with an open call are released.
HandleMoveOn(n) ==
  LET s == node[n]
      intra == {t \in Txn : /\ IntraShard(t)
                            /\ s.digest_to_seqnum[t] \in s.pending_client_calls}
  IN
  /\ move_ons < MaxMoveOns
  /\ move_ons' = move_ons + 1
  /\ ~ s.exited
  /\ Finish(n, [NotInFlight(s) EXCEPT
                  !.pending_client_calls = {},
                  !.balance_locks = @ \ UNION {{From[t], To[t]} : t \in intra}],
            {})
  /\ UNCHANGED <<timeouts, kills>>

\* The reconciliation of one entry of the write-ahead log, in DemoteToBackup
\* and OnElectionComplete.  They differ in the entries whose outcome is not
\* known: a node that steps down keeps them, one that enters a view undoes
\* them; both release the lock.  Without an entry in accept_log_ (a Commit came
\* and the Accept did not) std::stoi throws on the blank account and the
\* process ends.
ReconcileEntry(s, n, seq, stepsDown) ==
  LET w == s.wal[seq]
      e == s.accept_log[seq]
      a == IF ClusterOf[n] = CoordCluster(e.txn) THEN From[e.txn]
           ELSE To[e.txn]
      dropped  == [s EXCEPT !.wal[seq] = NoWal]
      unlocked == [s EXCEPT !.balance_locks = @ \ {a}]
  IN CASE ~ w.written -> s
       [] w.written /\ e = NoEntry -> Exited(s)
       [] w.written /\ e.p2 \in {"C_COORD", "C"} -> dropped
       [] w.written /\ e.p2 \in {"A_COORD", "A_PART_COMMIT"} ->
            [unlocked EXCEPT
               !.accounts[a] = @ + w.before_value - w.after_value,
               !.wal[seq] = NoWal]
       [] w.written /\ e # NoEntry /\ e.p2 = "" ->
            IF stepsDown THEN unlocked
            ELSE [unlocked EXCEPT !.accounts[a] = w.before_value,
                                  !.wal[seq] = NoWal]

Reconcile(s, n, stepsDown) ==
  LET upTo[i \in 0 .. MaxSeq] ==
        IF i = 0 THEN s ELSE ReconcileEntry(upTo[i - 1], n, i, stepsDown)
  IN upTo[MaxSeq]

\* The driver kills a node once every transaction it has sent is answered; a
\* leader steps down first (DemoteToBackup).
Kill(n) ==
  LET s == node[n]
      u == [NotInFlight(s) EXCEPT
              !.leads = FALSE,
              !.leader_id = None,
              !.accepted_count = {},
              !.entries_to_commit = [seq \in Seqnum |-> NoCommit],
              !.pending_client_calls = {},
              !.blank_votes = {}]
  IN
  /\ kills < MaxKills
  /\ kills' = kills + 1
  /\ \A t \in UNION {node[q].pending_or_completed_ts : q \in Node} :
       \E r \in replies : r.txn = t
  /\ s.alive
  /\ Finish(n, [IF s.leads THEN Reconcile(u, n, TRUE) ELSE s
                  EXCEPT !.alive = FALSE], {})
  /\ UNCHANGED <<timeouts, move_ons>>

\* MergeAcceptLogsFromPromises on the logs of the voters: a decided copy wins,
\* then a higher ballot, and a known outcome is carried over to the winner.
MergedEntry(voters, seq) ==
  LET copies == {node[q].accept_log[seq] : q \in voters} \ {NoEntry}
      Decided(e) == e.p2 # "" \/ e.status \in SecondPhase
      best == IF \E e \in copies : Decided(e)
              THEN {e \in copies : Decided(e)} ELSE copies
      winner == CHOOSE e \in best : \A o \in best : o.counter <= e.counter
      known == {e.p2 : e \in copies} \ {""}
  IN IF copies = {} THEN NoEntry
     ELSE [winner EXCEPT !.p2 = CASE @ # "" -> @
                                  [] @ = "" /\ known # {} ->
                                       CHOOSE p2 \in known : TRUE
                                  [] OTHER -> IF winner.status \in SecondPhase
                                              THEN winner.status ELSE ""]

\* The new leader knows every inherited request but those it has to redo:
\* first phases without an outcome.
InheritedClaims(log) ==
  {log[seq].txn : seq \in {x \in Seqnum : /\ log[x] # NoEntry
                                          /\ \/ log[x].status \notin {"COORD", "P"}
                                             \/ log[x].p2 # ""}}

\* HandlePromise at quorum, on the winner: BecomeLeader, SendNewView and
\* OnElectionComplete.  What it has in pending_entries_ as a backup stays, and
\* CommitEntry prefers it to the merged log.  cluster_leaders_ is left alone.
Elected(n, voters) ==
  LET s == node[n]
      log == [seq \in Seqnum |-> MergedEntry(voters, seq)]
      used == {seq \in Seqnum : log[seq] # NoEntry}
      last == CHOOSE x \in {0} \cup used : \A y \in used : y <= x
  IN Reconcile(
       [s EXCEPT
          !.leads = TRUE,
          !.counter = @ + 1,
          !.leader_id = n,
          !.accept_log = log,
          !.last_seqnum = last,
          !.max_seqnum_in_new_view = last,
          !.accepted_count = @ \cup {<<seq, s.counter + 1, n>> : seq \in used},
          !.pending_or_completed_ts = @ \cup InheritedClaims(log),
          !.digest_to_seqnum = [t \in Txn |->
             IF \E seq \in used : log[seq].txn = t
             THEN CHOOSE seq \in used :
                    /\ log[seq].txn = t
                    /\ \A x \in used : log[x].txn = t => x <= seq
             ELSE @[t]]],
       n, FALSE)

\* SetNewLeader, which also overwrites a slot of cluster_leaders_: the one that
\* the map of the accounts has for the id of the node.
SetNewLeader(s, n, leader, counter) ==
  [s EXCEPT !.leader_id = leader,
            !.cluster_leaders[OwnSlot[n]] = leader,
            !.counter = counter]

\* HandleNewView on a backup: OnElectionComplete comes before the entries of
\* the view, of which only those of a higher ballot are adopted; each is
\* acknowledged with its status.
Follows(q, n, leader) ==
  LET u == Reconcile(SetNewLeader(node[q], q, n, leader.counter), q, FALSE)
      view == leader.accept_log
      listed == {seq \in Seqnum : view[seq] # NoEntry}
  IN [u EXCEPT
        !.accept_log = [seq \in Seqnum |->
           IF /\ seq \in listed
              /\ @[seq] = NoEntry \/ view[seq].counter > @[seq].counter
           THEN view[seq] ELSE @[seq]],
        !.max_seqnum_in_new_view = IF listed = {} THEN @
                                   ELSE leader.last_seqnum,
        !.out = {[type |-> "Ack", from |-> q, to |-> n, seq |-> seq,
                  counter |-> leader.counter, status |-> view[seq].status] :
                    seq \in listed}]

\* The nodes of a cluster whose leader is down elect n, which tells the nodes
\* of the other clusters.  A gap in the merged log is filled with a NO-OP that
\* ends the processes that execute it: see PaxosCluster.
Elect(n) ==
  LET c == ClusterOf[n]
      voters == {q \in Members(c) : node[q].alive}
      leader == Elected(n, voters)
      after == [q \in voters |-> IF q = n THEN leader ELSE Follows(q, n, leader)]
  IN
  /\ n \in voters
  /\ \A q \in voters : ~ node[q].leads
  /\ Cardinality(voters) >= F + 1
  /\ \A seq \in 1 .. leader.last_seqnum : leader.accept_log[seq] # NoEntry
  /\ node' = [q \in Node |-> IF q \in voters THEN [after[q] EXCEPT !.out = {}]
                             ELSE node[q]]
  /\ msgs' = msgs \cup (UNION {after[q].out : q \in voters})
                  \cup {[type |-> "NewLeader", to |-> q, leader |-> n] :
                          q \in Node \ Members(c)}
  /\ UNCHANGED <<replies, outcomes, boundVars>>

\* HandlePropose on the notice of an election in another cluster.
HandleNewLeader(n, m) ==
  /\ m \in msgs /\ m.type = "NewLeader" /\ m.to = n
  /\ node[n].alive
  /\ Finish(n, [node[n] EXCEPT
                  !.cluster_leaders[ClusterOf[m.leader]] = m.leader], {m})
  /\ UNCHANGED boundVars

\* A dead node drops everything but the messages of the second phase, and an
\* acknowledgement is for a leader only.
Drop(m) ==
  /\ m \in msgs
  /\ \/ ~ node[m.to].alive /\ m.type # "TwoPC"
     \/ node[m.to].exited
     \/ m.type = "Ack" /\ ~ node[m.to].leads
  /\ msgs' = msgs \ {m}
  /\ UNCHANGED <<node, replies, outcomes, boundVars>>

-----------------------------------------------------------------------------
Deliver ==
  \E m \in msgs :
     \/ HandlePrepare(m.to, m)
     \/ HandlePropose(m.to, m)
     \/ HandleAccept(m.to, m)
     \/ HandleCommit(m.to, m)
     \/ HandlePreparedAndAborted(m.to, m)
     \/ HandleCommittedAndAborted(m.to, m)

\* What happens while no coordinator gives up and every leader stays up.
TimelyNext ==
  \/ \E n \in Node, t \in Txn : ProcessClientRequest(n, t) \/ RetryPrepare(n, t)
  \/ Deliver
  \/ \E n \in Node : HandleMoveOn(n)

\* What a coordinator that gives up or a leader that is lost adds to it.
Failure ==
  \/ \E n \in Node, t \in Txn : HandlePreparedTimeout(n, t)
  \/ \E n \in Node : Kill(n) \/ Elect(n)
  \/ \E m \in msgs : \/ ForwardPrepare(m.to, m)
                      \/ HandleNewLeader(m.to, m)
                      \/ Drop(m)

Next == TimelyNext \/ Failure

TimelySpec == Init /\ [][TimelyNext]_vars
Spec == Init /\ [][Next]_vars

-----------------------------------------------------------------------------
\* Properties.

\* What handlers build stays well formed: the statuses that StartSecondPhase
\* and ProcessClientRequest put into entries are those the handlers tell
\* apart, no entry without a request is committed, and every message has a
\* node to go to.
TypeOK ==
  /\ node \in [Node -> NodeState]
  /\ msgs \subseteq Message
  /\ replies \subseteq Reply
  /\ outcomes \subseteq Resolution
  /\ timeouts \in 0 .. MaxTimeouts
  /\ kills \in 0 .. MaxKills
  /\ move_ons \in 0 .. MaxMoveOns

Committed(t) == \E o \in outcomes : o.txn = t /\ o.p2 \in {"C_COORD", "C"}
Undone(t) ==
  \E o \in outcomes : o.txn = t /\ o.p2 \in {"A_COORD", "A_PART_COMMIT"}

\* No cross-shard transfer is committed by one node and aborted by another,
\* in the same cluster or in the other one.
Atomicity == \A t \in Txn : ~ (Committed(t) /\ Undone(t))

\* Nothing is in flight and no second phase is outstanding.
AtRest == /\ msgs = {}
          /\ \A n \in Node, t \in Txn :
               ~ (node[n].in_flight_prepares[t].sent
                   /\ ~ node[n].in_flight_prepares[t].completed)

Total(S) ==
  LET sum[T \in SUBSET S] ==
        IF T = {} THEN 0
        ELSE LET t == CHOOSE x \in T : TRUE IN Amount[t] + sum[T \ {t}]
  IN sum[S]
Successful == {r.txn : r \in {x \in replies : x.success}}
ExpectedBalance(a) ==
  OpeningBalance + Total({t \in Successful : To[t] = a})
                 - Total({t \in Successful : From[t] = a})

Shows(n) == \A a \in Account :
              shard_map[a] = ClusterOf[n] =>
                node[n].accounts[a] = ExpectedBalance(a)

Led(c) == \E n \in Members(c) : node[n].alive /\ node[n].leads

\* When the system is at rest the leaders' balances show the transfers that
\* clients were told of, all of them and nothing else: what phase 1 changed
\* was kept or undone by phase 2 on both sides, no money is made or lost, and
\* a decision survives the loss of a leader.
LeadersMatchReplies ==
  AtRest /\ (\A c \in Cluster : Led(c)) =>
    \A n \in Node : node[n].alive /\ node[n].leads => Shows(n)

\* So do those of every live replica.
ReplicasMatchReplies == AtRest => \A n \in Node : node[n].alive => Shows(n)

\* When the system is at rest no leader holds the lock of an account.
LocksComeFree ==
  AtRest => \A n \in Node :
              node[n].alive /\ node[n].leads => node[n].balance_locks = {}

\* When no message is in flight and every process runs, every transfer that
\* was admitted has been answered, no vote is awaited and the coordinator knows
\* that its decisions were carried out: nobody waits for a message that nobody
\* sends, and the retry thread is not needed while the leaders stay up.
NobodyWaitsForever ==
  msgs = {} /\ (\A n \in Node : ~ node[n].exited) =>
    \A n \in Node :
      /\ node[n].in_flight_transactions = {}
      /\ \A t \in node[n].pending_or_completed_ts :
           /\ \E r \in replies : r.txn = t
           /\ node[n].in_flight_prepares[t].sent =>
                node[n].in_flight_prepares[t].completed

\* The undo information of a leader is current until phase 2 uses it: the
\* account still has the balance that phase 1 gave it.
WalIsCurrent ==
  \A n \in Node, seq \in Seqnum :
    node[n].alive /\ node[n].leads /\ node[n].wal[seq].written =>
      LET t == node[n].accept_log[seq].txn
          a == IF ClusterOf[n] = CoordCluster(t) THEN From[t] ELSE To[t]
      IN node[n].accounts[a] = node[n].wal[seq].after_value
=============================================================================
