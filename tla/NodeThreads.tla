---------------------------- MODULE NodeThreads ----------------------------
(***************************************************************************)
(* The threads of a node.  PaxosCluster and TwoPhaseCommit take a handler  *)
(* for one step; here the step is what a thread does between two mutexes   *)
(* of src/paxos_node.cpp.  Eight threads of HandleRpcs run the handlers of *)
(* requests and Commits, four pollers those of acknowledgements, so two    *)
(* copies of a request, or two entries that become executable, are handled *)
(* at once.  The leader stays up and the requests stay within the shard:   *)
(* transfers, and read-only requests, which need no Paxos entry.           *)
(***************************************************************************)
EXTENDS Integers, FiniteSets

CONSTANTS
  Node,            \* the cluster
  Leader,          \* the node that leads it
  F,               \* f_
  Request,         \* timestamps
  ReadOnly,        \* the requests with read_only set
  Call,            \* <<request, copy>>: an RPC, the first one or one of the
                   \* client's retries or a backup's forwards
  Account, From, To, Amount,
  OpeningBalance,
  None,
  MaxSeq           \* bound: sequence numbers are 1 .. MaxSeq

ASSUME ThreadsAssumption ==
  /\ Leader \in Node
  /\ F \in Nat
  /\ ReadOnly \subseteq Request
  /\ None \notin Request
  /\ Call \subseteq Request \X Nat
  /\ None \notin Call
  /\ From \in [Request -> Account]
  /\ To \in [Request -> Account]
  /\ \A r \in Request \ ReadOnly : From[r] # To[r]
  /\ Amount \in [Request -> Nat]
  /\ OpeningBalance \in Nat
  /\ MaxSeq \in Nat

Seqnum == 1 .. MaxSeq
Backup == Node \ {Leader}

\* Where the thread of a client call is in ProcessClientRequest.  A call that
\* is proposed has no thread: it waits in pending_client_calls_.
CallStep == {"received", "checked", "sender_locked", "locked", "claimed",
             "proposed", "finished"}
\* Where a thread that commits a sequence number is: before CommitEntry or
\* HandleCommit takes pending_mutex_, after it, or in the execution loop.
InLoop     == {"loop", "execute", "load_from", "store_from", "load_to",
               "store_to", "reply"}
WorkerStep == {"idle", "commit", "recorded"} \cup InLoop

VARIABLES
  call,                     \* [Call -> CallStep]
  balance_locks,            \* accounts locked at the leader
  pending_or_completed_ts,
  handled_ro_requests,
  last_reply_per_client,    \* [Account -> request or None]
  last_seqnum,
  pending_entries,          \* [Seqnum -> request or None]
  pending_client_calls,     \* [Seqnum -> call or None]
  accepted_count,           \* [Seqnum -> set of nodes]
  commits,                  \* Commits in flight: <<backup, seqnum>>
  entries_to_commit,        \* [Node -> [Seqnum -> request or None]]
  last_executed_seq,        \* [Node -> 0 .. MaxSeq]
  accounts,                 \* [Node -> [Account -> Int]]
  at,                       \* [Node -> [Seqnum -> WorkerStep]]
  running,                  \* [Node -> [Seqnum -> the number executed]]
  loaded,                   \* [Node -> [Seqnum -> a balance in a register]]
  answers,                  \* history: [Request -> replies to the client]
  executions,               \* history: [Node -> [Seqnum -> executions]]
  serial                    \* history: [Node -> balances had every entry up to
                            \* last_executed_seq been executed in its turn]

admissionVars == <<balance_locks, pending_or_completed_ts, handled_ro_requests>>
proposalVars == <<last_seqnum, pending_entries, pending_client_calls>>
executionVars == <<entries_to_commit, last_executed_seq, accounts, at, running,
                   loaded, executions, serial>>
replyVars == <<last_reply_per_client, answers>>
vars == <<call, admissionVars, proposalVars, accepted_count, commits,
          executionVars, replyVars>>

Init ==
  /\ call = [c \in Call |-> "received"]
  /\ balance_locks = {}
  /\ pending_or_completed_ts = {}
  /\ handled_ro_requests = {}
  /\ last_reply_per_client = [a \in Account |-> None]
  /\ last_seqnum = 0
  /\ pending_entries = [s \in Seqnum |-> None]
  /\ pending_client_calls = [s \in Seqnum |-> None]
  /\ accepted_count = [s \in Seqnum |-> {}]
  /\ commits = {}
  /\ entries_to_commit = [n \in Node |-> [s \in Seqnum |-> None]]
  /\ last_executed_seq = [n \in Node |-> 0]
  /\ accounts = [n \in Node |-> [a \in Account |-> OpeningBalance]]
  /\ at = [n \in Node |-> [s \in Seqnum |-> "idle"]]
  /\ running = [n \in Node |-> [s \in Seqnum |-> 0]]
  /\ loaded = [n \in Node |-> [s \in Seqnum |-> 0]]
  /\ answers = [r \in Request |-> 0]
  /\ executions = [n \in Node |-> [s \in Seqnum |-> 0]]
  /\ serial = accounts

-----------------------------------------------------------------------------
\* ProcessClientRequest on the leader, one thread per call.

Goes(c, from, to) == call[c] = from /\ call' = [call EXCEPT ![c] = to]

\* The two duplicate checks, under client_mutex_ and under dedup_mutex_.
CheckDuplicate(c) ==
  LET r == c[1]
      seen == \/ last_reply_per_client[From[r]] = r
              \/ r \in pending_or_completed_ts
  IN
  /\ Goes(c, "received", IF seen THEN "finished" ELSE "checked")
  /\ UNCHANGED <<admissionVars, proposalVars, accepted_count, commits,
                 executionVars, replyVars>>

\* A read is answered from accounts_ as they are, once per timestamp.
ReadHandledBefore(r) == r \in handled_ro_requests
AnswerRead(c) ==
  LET r == c[1] IN
  /\ r \in ReadOnly
  /\ Goes(c, "checked", "finished")
  /\ IF ReadHandledBefore(r)
     THEN UNCHANGED <<handled_ro_requests, replyVars>>
     ELSE /\ handled_ro_requests' = handled_ro_requests \cup {r}
          /\ last_reply_per_client' =
               [last_reply_per_client EXCEPT ![From[r]] = r]
          /\ answers' = [answers EXCEPT ![r] = @ + 1]
  /\ UNCHANGED <<balance_locks, pending_or_completed_ts, proposalVars,
                 accepted_count, commits, executionVars>>

\* Mutant of LockSender: the sender's account is not locked.
LockSenderNot(c) ==
  /\ c[1] \notin ReadOnly
  /\ Goes(c, "checked", "sender_locked")
  /\ UNCHANGED <<admissionVars, proposalVars, accepted_count, commits,
                 executionVars, replyVars>>

LockSender(c) ==
  LET a == From[c[1]] IN
  /\ c[1] \notin ReadOnly
  /\ Goes(c, "checked", IF a \in balance_locks THEN "finished"
                        ELSE "sender_locked")
  /\ balance_locks' = balance_locks \cup {a}
  /\ UNCHANGED <<pending_or_completed_ts, handled_ro_requests, proposalVars,
                 accepted_count, commits, executionVars, replyVars>>

\* Mutant of LockReceiver: the receiver's account is not locked.
LockReceiverNot(c) ==
  /\ Goes(c, "sender_locked", "locked")
  /\ UNCHANGED <<admissionVars, proposalVars, accepted_count, commits,
                 executionVars, replyVars>>

LockReceiver(c) ==
  LET a == To[c[1]] IN
  /\ Goes(c, "sender_locked", IF a \in balance_locks THEN "finished"
                              ELSE "locked")
  /\ balance_locks' = IF a \in balance_locks
                      THEN balance_locks \ {From[c[1]]}
                      ELSE balance_locks \cup {a}
  /\ UNCHANGED <<pending_or_completed_ts, handled_ro_requests, proposalVars,
                 accepted_count, commits, executionVars, replyVars>>

\* Mutant of Claimed: the timestamp is not checked again under pending_mutex_.
NeverClaimed(r) == FALSE
\* The atomic claim.  A call that loses it returns with both accounts locked.
Claimed(r) == r \in pending_or_completed_ts
Claim(c) ==
  /\ Goes(c, "locked", IF Claimed(c[1]) THEN "finished" ELSE "claimed")
  /\ pending_or_completed_ts' = pending_or_completed_ts \cup {c[1]}
  /\ UNCHANGED <<balance_locks, handled_ro_requests, proposalVars,
                 accepted_count, commits, executionVars, replyVars>>

\* Mutant of SelfVote: the leader does not count itself.
NoSelfVote == {}
SelfVote == {Leader}

Propose(c) ==
  LET s == last_seqnum + 1 IN
  /\ last_seqnum < MaxSeq
  /\ Goes(c, "claimed", "proposed")
  /\ last_seqnum' = s
  /\ pending_entries' = [pending_entries EXCEPT ![s] = c[1]]
  /\ pending_client_calls' = [pending_client_calls EXCEPT ![s] = c]
  /\ accepted_count' = [accepted_count EXCEPT ![s] = SelfVote]
  /\ UNCHANGED <<admissionVars, commits, executionVars, replyVars>>

-----------------------------------------------------------------------------
\* Commit and execution: a thread per sequence number at each node.

Moves(n, s, from, to) ==
  at[n][s] = from /\ at' = [at EXCEPT ![n][s] = to]

\* HandleAccept: every backup acknowledges a proposal, on any poller.
HandleAccept(s, b) ==
  /\ pending_entries[s] # None
  /\ b \notin accepted_count[s]
  /\ accepted_count' = [accepted_count EXCEPT ![s] = @ \cup {b}]
  /\ IF /\ Cardinality(accepted_count'[s]) = F + 1
        /\ entries_to_commit[Leader][s] = None
     THEN Moves(Leader, s, "idle", "commit")
     ELSE UNCHANGED at
  /\ UNCHANGED <<call, admissionVars, proposalVars, commits, entries_to_commit,
                 last_executed_seq, accounts, running, loaded, executions, serial,
                 replyVars>>

\* Mutant of BroadcastCommit: the leader sends to its own node as well.
BroadcastCommitToAll(s) == {<<b, s>> : b \in Node}
BroadcastCommit(s) == {<<b, s>> : b \in Backup}

\* CommitEntry up to BroadcastCommit.
CommitEntry(s) ==
  /\ Moves(Leader, s, "commit", "recorded")
  /\ entries_to_commit' = [entries_to_commit EXCEPT ![Leader][s] =
                             IF @ = None THEN pending_entries[s] ELSE @]
  /\ commits' = commits \cup BroadcastCommit(s)
  /\ UNCHANGED <<call, admissionVars, proposalVars, accepted_count,
                 last_executed_seq, accounts, running, loaded, executions, serial,
                 replyVars>>

\* HandleCommit on a backup, to the end of its critical section.
HandleCommit(b, s) ==
  /\ <<b, s>> \in commits
  /\ commits' = commits \ {<<b, s>>}
  /\ Moves(b, s, "idle", "recorded")
  /\ entries_to_commit' = [entries_to_commit EXCEPT ![b][s] =
                             IF @ = None THEN pending_entries[s] ELSE @]
  /\ UNCHANGED <<call, admissionVars, proposalVars, accepted_count,
                 last_executed_seq, accounts, running, loaded, executions, serial,
                 replyVars>>

\* Both look at last_executed_seq_ after they have released pending_mutex_.
EntersLoop(n, s) == last_executed_seq[n] + 1 = s
TestNext(n, s) ==
  /\ Moves(n, s, "recorded", IF EntersLoop(n, s) THEN "loop" ELSE "idle")
  /\ UNCHANGED <<call, admissionVars, proposalVars, accepted_count, commits,
                 entries_to_commit, last_executed_seq, accounts, running,
                 loaded, executions, serial, replyVars>>

\* The top of the loop, under pending_mutex_: last_executed_seq_ is moved
\* before the entry is executed, so another thread may go on with the next.
Executable(n) ==
  /\ last_executed_seq[n] + 1 \in Seqnum
  /\ entries_to_commit[n][last_executed_seq[n] + 1] # None

\* Mutant of Taken: a thread executes the entry it has committed.
OwnEntry(n, s) == s
Taken(n, s) == last_executed_seq[n] + 1

\* Balances after a transfer is executed with nothing else going on.
Applied(balances, r) ==
  IF balances[From[r]] < Amount[r] THEN balances
  ELSE [balances EXCEPT ![From[r]] = @ - Amount[r], ![To[r]] = @ + Amount[r]]

TakeNext(n, s) ==
  /\ Executable(n)
  /\ Moves(n, s, "loop", "execute")
  /\ last_executed_seq' = [last_executed_seq EXCEPT ![n] = @ + 1]
  /\ running' = [running EXCEPT ![n][s] = Taken(n, s)]
  /\ executions' = [executions EXCEPT ![n][Taken(n, s)] = @ + 1]
  /\ serial' = [serial EXCEPT ![n] =
                  Applied(@, entries_to_commit[n][last_executed_seq[n] + 1])]
  /\ UNCHANGED <<call, admissionVars, proposalVars, accepted_count, commits,
                 entries_to_commit, accounts, loaded, replyVars>>

\* Mutant of LeaveLoop: the break is decided before the mutex is taken.
LeaveLoopEarly(n, s) ==
  /\ Moves(n, s, "loop", "idle")
  /\ UNCHANGED <<call, admissionVars, proposalVars, accepted_count, commits,
                 entries_to_commit, last_executed_seq, accounts, running,
                 loaded, executions, serial, replyVars>>

LeaveLoop(n, s) ==
  /\ ~ Executable(n)
  /\ Moves(n, s, "loop", "idle")
  /\ UNCHANGED <<call, admissionVars, proposalVars, accepted_count, commits,
                 entries_to_commit, last_executed_seq, accounts, running,
                 loaded, executions, serial, replyVars>>

\* ExecuteTransaction, outside the mutexes.  The balance is checked, and then
\* read again to be debited; an update of a balance is a load and a store.
\* Backups unlock accounts that they have not locked.
Executing(n, s) == entries_to_commit[n][running[n][s]]
Locks(n, r) == IF n = Leader THEN {From[r], To[r]} ELSE {}

Short(n, r) == accounts[n][From[r]] < Amount[r]

CheckBalance(n, s) ==
  LET r == Executing(n, s) IN
  /\ Moves(n, s, "execute", IF Short(n, r) THEN "reply" ELSE "load_from")
  /\ balance_locks' = IF Short(n, r) THEN balance_locks \ Locks(n, r)
                      ELSE balance_locks
  /\ UNCHANGED <<call, pending_or_completed_ts, handled_ro_requests,
                 proposalVars, accepted_count, commits, entries_to_commit,
                 last_executed_seq, accounts, running, loaded, executions,
                 serial, replyVars>>

Load(n, s, account, from, to) ==
  /\ Moves(n, s, from, to)
  /\ loaded' = [loaded EXCEPT ![n][s] = accounts[n][account]]
  /\ UNCHANGED <<call, admissionVars, proposalVars, accepted_count, commits,
                 entries_to_commit, last_executed_seq, accounts, running,
                 executions, serial, replyVars>>

LoadSender(n, s) == Load(n, s, From[Executing(n, s)], "load_from", "store_from")

StoreSender(n, s) ==
  LET r == Executing(n, s) IN
  /\ Moves(n, s, "store_from", "load_to")
  /\ accounts' = [accounts EXCEPT ![n][From[r]] = loaded[n][s] - Amount[r]]
  /\ UNCHANGED <<call, admissionVars, proposalVars, accepted_count, commits,
                 entries_to_commit, last_executed_seq, running, loaded,
                 executions, serial, replyVars>>

LoadReceiver(n, s) == Load(n, s, To[Executing(n, s)], "load_to", "store_to")

StoreReceiver(n, s) ==
  LET r == Executing(n, s) IN
  /\ Moves(n, s, "store_to", "reply")
  /\ accounts' = [accounts EXCEPT ![n][To[r]] = loaded[n][s] + Amount[r]]
  /\ balance_locks' = balance_locks \ Locks(n, r)
  /\ UNCHANGED <<call, pending_or_completed_ts, handled_ro_requests,
                 proposalVars, accepted_count, commits, entries_to_commit,
                 last_executed_seq, running, loaded, executions, serial, replyVars>>

\* SendClientReply; a backup has no call to answer.
Reply(n, s) ==
  LET r == Executing(n, s)
      x == running[n][s]
  IN
  /\ Moves(n, s, "reply", "loop")
  /\ IF n = Leader
     THEN /\ last_reply_per_client' =
               [last_reply_per_client EXCEPT ![From[r]] = r]
          /\ answers' = [answers EXCEPT ![r] = @ + 1]
          /\ call' = [call EXCEPT ![pending_client_calls[x]] = "finished"]
          /\ pending_client_calls' = [pending_client_calls EXCEPT ![x] = None]
     ELSE UNCHANGED <<call, replyVars, pending_client_calls>>
  /\ UNCHANGED <<admissionVars, last_seqnum, pending_entries, accepted_count,
                 commits, entries_to_commit, last_executed_seq, accounts,
                 running, loaded, executions, serial>>

-----------------------------------------------------------------------------
Admission(c) ==
  \/ CheckDuplicate(c)
  \/ AnswerRead(c)
  \/ LockSender(c)
  \/ LockReceiver(c)
  \/ Claim(c)
  \/ Propose(c)

Execution(n, s) ==
  \/ TestNext(n, s)
  \/ TakeNext(n, s)
  \/ LeaveLoop(n, s)
  \/ CheckBalance(n, s)
  \/ LoadSender(n, s)
  \/ StoreSender(n, s)
  \/ LoadReceiver(n, s)
  \/ StoreReceiver(n, s)
  \/ Reply(n, s)

Next ==
  \/ \E c \in Call : Admission(c)
  \/ \E s \in Seqnum, b \in Backup : HandleAccept(s, b) \/ HandleCommit(b, s)
  \/ \E s \in Seqnum : CommitEntry(s)
  \/ \E n \in Node, s \in Seqnum : Execution(n, s)

Spec == Init /\ [][Next]_vars

\* Threads run until they wait for work, and peers answer.
FairSpec == Spec /\ WF_vars(Next)

-----------------------------------------------------------------------------
\* Properties.

\* The tables of PaxosNode have their types: a Commit is for a backup, and a
\* thread executes a number that was given to an entry.
TypeOK ==
  /\ call \in [Call -> CallStep]
  /\ balance_locks \subseteq Account
  /\ last_seqnum \in 0 .. MaxSeq
  /\ pending_entries \in [Seqnum -> Request \cup {None}]
  /\ entries_to_commit \in [Node -> [Seqnum -> Request \cup {None}]]
  /\ last_executed_seq \in [Node -> 0 .. MaxSeq]
  /\ accounts \in [Node -> [Account -> Int]]
  /\ loaded \in [Node -> [Seqnum -> Int]]
  /\ commits \subseteq Backup \X Seqnum
  /\ at \in [Node -> [Seqnum -> WorkerStep]]
  /\ running \in [Node -> [Seqnum -> 0 .. MaxSeq]]

\* Whichever threads are in the execution loop of a node, none executes an
\* entry that another one has executed or is executing.
ExecutedOnce == \A n \in Node, s \in Seqnum : executions[n][s] <= 1

\* However many copies of a request are handled at once, it gets one reply.
AnsweredOnce == \A r \in Request : answers[r] <= 1

\* No wake-up is lost.  A thread that records an entry tests only then
\* whether to execute it, without the mutex; still an executable entry always
\* has a thread that is bound to reach it: one in the loop, or the one that
\* has recorded that very entry and is about to test.
NothingLeftBehind ==
  \A n \in Node :
    Executable(n) =>
      \E s \in Seqnum : \/ at[n][s] \in InLoop
                        \/ at[n][s] = "recorded" /\ EntersLoop(n, s)

\* A thread in the middle of an entry, which may still touch its accounts.
MidEntry == {"execute", "load_from", "store_from", "load_to", "store_to"}
BetweenExecutions(n) ==
  \A s \in Seqnum : at[n][s] \notin MidEntry

\* Threads of the leader execute different entries at the same time and
\* outside every mutex.  When none of them is in the middle of an entry, the
\* balances are those of an execution in the order of the log: the account
\* locks keep such entries apart.
LeaderIsSerial == BetweenExecutions(Leader) => accounts[Leader] = serial[Leader]

\* The leader never overdraws an account, though between the check of a
\* balance and the debit other threads execute other transfers.
LeaderNeverOverdraws == \A a \in Account : accounts[Leader][a] >= 0

\* Every replica's balances are those of an execution in the order of the log.
ReplicasAreSerial ==
  \A n \in Node : BetweenExecutions(n) => accounts[n] = serial[n]

\* Every client call is finished in the end: rejected, ignored or answered.
EveryCallEnds == <>(\A c \in Call : call[c] = "finished")

\* When every call is finished, no account is locked: a request that comes
\* next can be served.
LocksComeFree == (\A c \in Call : call[c] = "finished") => balance_locks = {}
=============================================================================
