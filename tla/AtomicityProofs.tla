-------------------------- MODULE AtomicityProofs ---------------------------
(***************************************************************************)
(* Atomicity of cross-shard transfers while the leaders stay up.  The      *)
(* leader of the participant's cluster settles a transfer when it proposes *)
(* its vote, once, because the claim on the timestamp outlives it.  Every  *)
(* status, vote, decision and outcome that exists about the transfer       *)
(* afterwards, at any node or on its way to one, agrees with that vote.    *)
(***************************************************************************)
EXTENDS TwoPhaseCommitProofs

\* What says that a transfer is carried out, and what that it is not.
YesWords == {"P", "PREPARED", "COMMIT", "C_COORD", "C", "COMMITTED"}
NoWords  == {"A", "ABORT", "A_COORD", "A_PART_COMMIT"}

\* Y and N are the transfers that were voted for and against.
Agrees(t, word, Y, N) == /\ word \in YesWords => t \in Y
                         /\ word \in NoWords => t \in N

\* The transfer that sequence number seq of cluster c is about.
Titles == [c \in Cluster |-> [seq \in Seqnum |->
                                node[FirstLeader[c]].accept_log[seq].txn]]

\* A message, when the sequence numbers are about the transfers of T.
MessageFits(m, T, Y, N) ==
  /\ m.type = "PREPARE" => /\ m.from = FirstLeader[CoordCluster(m.txn)]
                           /\ m.to = FirstLeader[PartCluster(m.txn)]
  /\ m.type = "Accept" => /\ m.from = FirstLeader[ClusterOf[m.to]]
                          /\ m.to # m.from
                          /\ m.e.txn = T[ClusterOf[m.to]][m.seq]
                          /\ m.e.p2 = ""
                          /\ Agrees(m.e.txn, m.e.status, Y, N)
  /\ m.type = "Ack" => /\ m.to = FirstLeader[ClusterOf[m.to]]
                       /\ T[ClusterOf[m.to]][m.seq] \in Txn
                       /\ Agrees(T[ClusterOf[m.to]][m.seq], m.status, Y, N)
  /\ m.type = "Commit" => /\ m.c.txn = T[ClusterOf[m.to]][m.seq]
                          /\ Agrees(m.c.txn, m.c.status, Y, N)
  /\ m.type = "TwoPC" => /\ m.to = FirstLeader[ClusterOf[m.to]]
                         /\ Agrees(m.txn, m.what, Y, N)

\* The members of node n.  The leader of a cluster is the one that gives the
\* sequence numbers their transfers.
LogFits(log, last, n, T, Y, N) ==
  \A seq \in Seqnum :
    /\ log[seq] # NoEntry => log[seq].txn = T[ClusterOf[n]][seq]
    /\ Agrees(log[seq].txn, log[seq].p2, Y, N)
    /\ Agrees(log[seq].txn, log[seq].status, Y, N)
    /\ n = FirstLeader[ClusterOf[n]] =>
         /\ log[seq].txn = T[ClusterOf[n]][seq]
         /\ log[seq] # NoEntry => seq <= last

CommitsFit(entries, n, T, Y, N) ==
  \A seq \in Seqnum : entries[seq] # NoCommit =>
    /\ entries[seq].txn = T[ClusterOf[n]][seq]
    /\ Agrees(entries[seq].txn, entries[seq].status, Y, N)

ParkedFit(queue, Y, N) == \A t \in Txn : Agrees(t, queue[t], Y, N)

DigestFits(digest, n, T) ==
  \A t \in Txn : digest[t] # 0 => T[ClusterOf[n]][digest[t]] = t

PreparesFit(prepares, n) ==
  \A t \in Txn : prepares[t].sent => n = FirstLeader[CoordCluster(t)]

\* The leader of the participant's cluster has claimed what it voted on.
VotesClaimed(claimed, n, Y, N) ==
  \A t \in Y \cup N : n = FirstLeader[PartCluster(t)] => t \in claimed

MessagesFit(ms, T, Y, N) == \A m \in ms : MessageFits(m, T, Y, N)

OutcomesAgree(os, Y, N) == \A o \in os : Agrees(o.txn, o.p2, Y, N)

Fits(s, n, T, Y, N) ==
  /\ s.leads => n = FirstLeader[ClusterOf[n]]
  /\ s.cluster_leaders = FirstLeader
  /\ LogFits(s.accept_log, s.last_seqnum, n, T, Y, N)
  /\ CommitsFit(s.entries_to_commit, n, T, Y, N)
  /\ ParkedFit(s.prepare_and_aborted_queue, Y, N)
  /\ DigestFits(s.digest_to_seqnum, n, T)
  /\ PreparesFit(s.in_flight_prepares, n)
  /\ VotesClaimed(s.pending_or_completed_ts, n, Y, N)
  /\ MessagesFit(s.out, T, Y, N)
  /\ OutcomesAgree(s.resolved, Y, N)

Settled(Y, N) ==
  /\ Y \cap N = {}
  /\ \A n \in Node : Fits(node[n], n, Titles, Y, N)
  /\ MessagesFit(msgs, Titles, Y, N)
  /\ OutcomesAgree(outcomes, Y, N)

VotesSettle == \E Y, N \in SUBSET Txn : Settled(Y, N)

-----------------------------------------------------------------------------
\* The operators that handlers are composed of.

\* The members that Fits speaks of are the same.
SameFacts(s, u) ==
  /\ u.leads = s.leads
  /\ u.cluster_leaders = s.cluster_leaders
  /\ u.accept_log = s.accept_log
  /\ u.last_seqnum = s.last_seqnum
  /\ u.entries_to_commit = s.entries_to_commit
  /\ u.prepare_and_aborted_queue = s.prepare_and_aborted_queue
  /\ u.digest_to_seqnum = s.digest_to_seqnum
  /\ u.in_flight_prepares = s.in_flight_prepares
  /\ u.pending_or_completed_ts = s.pending_or_completed_ts
  /\ u.out = s.out
  /\ u.resolved = s.resolved

LEMMA SameFits ==
  ASSUME NEW n, NEW T, NEW Y, NEW N, NEW s, NEW u, SameFacts(s, u),
         Fits(s, n, T, Y, N)
  PROVE  Fits(u, n, T, Y, N)
  BY DEF Fits, SameFacts

LEMMA SendFits ==
  ASSUME NEW n, NEW T, NEW Y, NEW N, NEW s \in NodeState, NEW ms,
         Fits(s, n, T, Y, N), MessagesFit(ms, T, Y, N)
  PROVE  Fits(Send(s, ms), n, T, Y, N)
<1> DEFINE u == Send(s, ms)
<1>1. /\ u.leads = s.leads
      /\ u.cluster_leaders = s.cluster_leaders
      /\ u.accept_log = s.accept_log
      /\ u.last_seqnum = s.last_seqnum
      /\ u.entries_to_commit = s.entries_to_commit
      /\ u.prepare_and_aborted_queue = s.prepare_and_aborted_queue
      /\ u.digest_to_seqnum = s.digest_to_seqnum
      /\ u.in_flight_prepares = s.in_flight_prepares
      /\ u.pending_or_completed_ts = s.pending_or_completed_ts
      /\ u.resolved = s.resolved
      /\ u.out = s.out \cup ms
  BY DEF Send, NodeState
<1> HIDE DEF u
<1>2. MessagesFit(u.out, T, Y, N)
  BY <1>1 DEF Fits, MessagesFit
<1>. QED
  BY <1>1, <1>2 DEF Fits, u

LEMMA BroadcastFits ==
  ASSUME NEW n, NEW T, NEW Y, NEW N, NEW s \in NodeState, NEW m,
         Fits(s, n, T, Y, N),
         \A q \in Peers(n) : MessageFits([m EXCEPT !.to = q], T, Y, N)
  PROVE  Fits(Broadcast(s, n, m), n, T, Y, N)
<1> DEFINE ms == {[m EXCEPT !.to = q] : q \in Peers(n)}
<1>1. MessagesFit(ms, T, Y, N)
  BY DEF MessagesFit
<1>2. Broadcast(s, n, m) = Send(s, ms)
  BY DEF Broadcast
<1> HIDE DEF ms
<1>. QED
  BY <1>1, <1>2, SendFits

LEMMA AcceptFits ==
  ASSUME NEW n \in Node, NEW T, NEW Y, NEW N, NEW s \in NodeState,
         Fits(s, n, T, Y, N), n = FirstLeader[ClusterOf[n]], NEW seq, NEW e,
         e.txn = T[ClusterOf[n]][seq], e.p2 = "",
         Agrees(e.txn, e.status, Y, N)
  PROVE  Fits(Broadcast(s, n, [type |-> "Accept", from |-> n, to |-> n,
                               seq |-> seq, e |-> e]), n, T, Y, N)
<1> DEFINE m == [type |-> "Accept", from |-> n, to |-> n, seq |-> seq, e |-> e]
<1>1. ASSUME NEW q \in Peers(n)
      PROVE  MessageFits([m EXCEPT !.to = q], T, Y, N)
  <2> DEFINE x == [m EXCEPT !.to = q]
  <2>1. /\ x.type = "Accept" /\ x.from = n /\ x.to = q /\ x.seq = seq
        /\ x.e = e
    OBVIOUS
  <2>2. q # n /\ ClusterOf[q] = ClusterOf[n]
    BY DEF Peers
  <2> HIDE DEF x
  <2>3. MessageFits(x, T, Y, N)
    BY <2>1, <2>2 DEF MessageFits
  <2>. QED
    BY <2>3 DEF x
<1> HIDE DEF m
<1>2. Fits(Broadcast(s, n, m), n, T, Y, N)
  BY <1>1, BroadcastFits
<1>. QED
  BY <1>2 DEF m

LEMMA CommitFits ==
  ASSUME NEW n \in Node, NEW T, NEW Y, NEW N, NEW s \in NodeState,
         Fits(s, n, T, Y, N), NEW seq, NEW c, NEW blank,
         c.txn = T[ClusterOf[n]][seq], Agrees(c.txn, c.status, Y, N)
  PROVE  Fits(Broadcast(s, n, [type |-> "Commit", from |-> n, to |-> n,
                               seq |-> seq, c |-> c, blank |-> blank]),
              n, T, Y, N)
<1> DEFINE m == [type |-> "Commit", from |-> n, to |-> n, seq |-> seq,
                 c |-> c, blank |-> blank]
<1>1. ASSUME NEW q \in Peers(n)
      PROVE  MessageFits([m EXCEPT !.to = q], T, Y, N)
  <2> DEFINE x == [m EXCEPT !.to = q]
  <2>1. /\ x.type = "Commit" /\ x.to = q /\ x.seq = seq /\ x.c = c
    OBVIOUS
  <2>2. ClusterOf[q] = ClusterOf[n]
    BY DEF Peers
  <2> HIDE DEF x
  <2>3. MessageFits(x, T, Y, N)
    BY <2>1, <2>2 DEF MessageFits
  <2>. QED
    BY <2>3 DEF x
<1> HIDE DEF m
<1>2. Fits(Broadcast(s, n, m), n, T, Y, N)
  BY <1>1, BroadcastFits
<1>. QED
  BY <1>2 DEF m

LEMMA TwoPCFits ==
  ASSUME NEW T, NEW Y, NEW N, NEW c \in Cluster, NEW what, NEW t,
         Agrees(t, what, Y, N)
  PROVE  MessagesFit({TwoPCMsg(what, FirstLeader[c], t)}, T, Y, N)
<1> DEFINE x == TwoPCMsg(what, FirstLeader[c], t)
<1>1. x.type = "TwoPC" /\ x.to = FirstLeader[c] /\ x.txn = t /\ x.what = what
  BY DEF TwoPCMsg
<1>2. ClusterOf[FirstLeader[c]] = c
  BY ConstantsAssumption
<1> HIDE DEF x
<1>3. MessageFits(x, T, Y, N)
  BY <1>1, <1>2 DEF MessageFits
<1>. QED
  BY <1>3 DEF MessagesFit, x

LEMMA RecordCommitFits ==
  ASSUME NEW n \in Node, NEW T, NEW Y, NEW N, NEW s \in NodeState,
         Fits(s, n, T, Y, N), NEW seq \in Seqnum, NEW c,
         c.txn = T[ClusterOf[n]][seq], Agrees(c.txn, c.status, Y, N)
  PROVE  Fits(RecordCommit(s, seq, c), n, T, Y, N)
<1> DEFINE u == RecordCommit(s, seq, c)
           entries == [s.entries_to_commit EXCEPT ![seq] =
                         IF @ = NoCommit THEN c ELSE @]
<1>1. /\ u.leads = s.leads
      /\ u.cluster_leaders = s.cluster_leaders
      /\ u.accept_log = s.accept_log
      /\ u.last_seqnum = s.last_seqnum
      /\ u.prepare_and_aborted_queue = s.prepare_and_aborted_queue
      /\ u.digest_to_seqnum = s.digest_to_seqnum
      /\ u.in_flight_prepares = s.in_flight_prepares
      /\ u.pending_or_completed_ts = s.pending_or_completed_ts
      /\ u.resolved = s.resolved
      /\ u.out = s.out
      /\ u.entries_to_commit = entries
  BY DEF RecordCommit, NodeState
<1>2. s.entries_to_commit \in [Seqnum -> CommitRecord \cup {NoCommit}]
  BY DEF NodeState
<1>3. CommitsFit(entries, n, T, Y, N)
  BY <1>2 DEF Fits, CommitsFit
<1> HIDE DEF u, entries
<1>. QED
  BY <1>1, <1>3 DEF Fits, u

LEMMA ExitedFits ==
  ASSUME NEW n, NEW T, NEW Y, NEW N, NEW s \in NodeState, Fits(s, n, T, Y, N)
  PROVE  Fits(Exited(s), n, T, Y, N)
<1>1. SameFacts(s, Exited(s))
  BY DEF SameFacts, Exited, NodeState
<1>. QED
  BY <1>1, SameFits

LEMMA ResolveFits ==
  ASSUME NEW n \in Node, NEW T, NEW Y, NEW N, NEW s \in NodeState,
         Fits(s, n, T, Y, N), NEW seq \in Seqnum, NEW t \in Txn,
         NEW p2 \in SecondPhase, t = T[ClusterOf[n]][seq],
         Agrees(t, p2, Y, N)
  PROVE  Fits(ExecuteRepeatedTwoPCEntry(s, n, seq, t, p2), n, T, Y, N)
<1> DEFINE w == s.wal[seq]
           a == ResolvedAccount(t, p2)
           log == [s.accept_log EXCEPT ![seq].p2 =
                     IF s.accept_log[seq] # NoEntry /\ @ = "" THEN p2 ELSE @]
           bal == [s.accounts EXCEPT ![a] =
                     IF UndoneBy(w, p2) THEN w.before_value ELSE @]
           locks == Unlocked(s.balance_locks, a)
           wal == [s.wal EXCEPT ![seq] = NoWal]
           r == s.resolved \cup {[node |-> n, txn |-> t, p2 |-> p2]}
           done == [s EXCEPT !.accept_log = log, !.accounts = bal,
                             !.balance_locks = locks, !.wal = wal,
                             !.resolved = r]
           word == IF p2 = "C" THEN "COMMITTED" ELSE p2
           x == TwoPCMsg(word, s.cluster_leaders[CoordCluster(t)], t)
           reply == [txn |-> t, success |-> p2 = "C_COORD"]
           told == [done EXCEPT !.told = @ \cup {reply}]
<1>1. ExecuteRepeatedTwoPCEntry(s, n, seq, t, p2) \in
        {done, told, Send(done, {x})}
  BY ZenonT(60) DEF ExecuteRepeatedTwoPCEntry, NodeState, SecondPhase
<1>2. LogFits(log, s.last_seqnum, n, T, Y, N)
  <2>1. /\ s.accept_log \in [Seqnum -> Entry \cup {NoEntry}]
        /\ LogFits(s.accept_log, s.last_seqnum, n, T, Y, N)
    BY DEF NodeState, Fits
  <2>2. CASE s.accept_log[seq] = NoEntry
    <3>1. log = s.accept_log
      BY <2>1, <2>2 DEF NoEntry
    <3>. QED
      BY <2>1, <3>1
  <2>3. CASE s.accept_log[seq] # NoEntry
    <3>1. /\ log[seq].txn = s.accept_log[seq].txn
          /\ log[seq].status = s.accept_log[seq].status
          /\ log[seq].p2 \in {p2, s.accept_log[seq].p2}
          /\ \A y \in Seqnum \ {seq} : log[y] = s.accept_log[y]
      BY <2>1, <2>3 DEF Entry
    <3>. QED
      BY <2>1, <2>3, <3>1 DEF LogFits
  <2>. QED
    BY <2>2, <2>3
<1>3. OutcomesAgree(r, Y, N)
  BY DEF Fits, OutcomesAgree
<1> HIDE DEF log, bal, locks, wal, r
<1>4. /\ done.leads = s.leads
      /\ done.cluster_leaders = s.cluster_leaders
      /\ done.accept_log = log
      /\ done.last_seqnum = s.last_seqnum
      /\ done.entries_to_commit = s.entries_to_commit
      /\ done.prepare_and_aborted_queue = s.prepare_and_aborted_queue
      /\ done.digest_to_seqnum = s.digest_to_seqnum
      /\ done.in_flight_prepares = s.in_flight_prepares
      /\ done.pending_or_completed_ts = s.pending_or_completed_ts
      /\ done.out = s.out
      /\ done.resolved = r
  BY DEF NodeState
<1>5. SameFacts(done, told)
  BY DEF NodeState, SameFacts
<1> DEFINE u == Send(done, {x})
<1>6. /\ u.leads = s.leads
      /\ u.cluster_leaders = s.cluster_leaders
      /\ u.accept_log = log
      /\ u.last_seqnum = s.last_seqnum
      /\ u.entries_to_commit = s.entries_to_commit
      /\ u.prepare_and_aborted_queue = s.prepare_and_aborted_queue
      /\ u.digest_to_seqnum = s.digest_to_seqnum
      /\ u.in_flight_prepares = s.in_flight_prepares
      /\ u.pending_or_completed_ts = s.pending_or_completed_ts
      /\ u.out = s.out \cup {x}
      /\ u.resolved = r
  BY DEF NodeState, Send
<1> HIDE DEF done, told
<1>7. Fits(done, n, T, Y, N)
  BY <1>2, <1>3, <1>4 DEF Fits
<1>8. Fits(told, n, T, Y, N)
  BY <1>5, <1>7, SameFits
<1>9. MessagesFit({x}, T, Y, N)
  <2>1. CoordCluster(t) \in Cluster /\ s.cluster_leaders = FirstLeader
    BY ConstantsAssumption DEF CoordCluster, Fits
  <2>2. Agrees(t, word, Y, N)
    BY DEF Agrees, YesWords, NoWords, SecondPhase
  <2> HIDE DEF word
  <2>. QED
    BY <2>1, <2>2, TwoPCFits
<1> HIDE DEF x, u
<1>10. MessagesFit(u.out, T, Y, N)
  BY <1>6, <1>9 DEF Fits, MessagesFit
<1>11. Fits(u, n, T, Y, N)
  BY <1>2, <1>3, <1>6, <1>10 DEF Fits
<1>. QED
  BY <1>1, <1>7, <1>8, <1>11 DEF u

LEMMA ExecuteFits ==
  ASSUME NEW n \in Node, NEW T, NEW Y, NEW N, NEW s \in NodeState,
         Fits(s, n, T, Y, N), NEW seq, NEW t, NEW status
  PROVE  Fits(ExecuteTransaction(s, seq, t, status), n, T, Y, N)
<1> DEFINE f == From[t]
           r == To[t]
           unlocked == [s EXCEPT !.balance_locks = @ \ {f, r}]
           logged(a, new) == [s EXCEPT
             !.accounts[a] = new,
             !.wal[seq] = [before_value |-> s.accounts[a],
                           after_value |-> new, written |-> TRUE]]
           paid == [unlocked EXCEPT !.accounts = Transferred(s.accounts, t)]
<1>1. SameFacts(s, s) /\ SameFacts(s, unlocked) /\ SameFacts(s, paid)
  BY DEF SameFacts, NodeState
<1>2. \A a, new : SameFacts(s, logged(a, new))
  BY ZenonT(60) DEF SameFacts, NodeState
<1>3. ExecuteTransaction(s, seq, t, status) \in
        {paid, unlocked, logged(r, s.accounts[r] + Amount[t]),
         logged(f, s.accounts[f] - Amount[t]), s}
  <2>1. [unlocked EXCEPT !.accounts = Transferred(@, t)] = paid
    BY DEF NodeState
  <2>. QED
    BY <2>1 DEF ExecuteTransaction
<1> HIDE DEF paid, unlocked, logged
<1>. QED
  BY <1>1, <1>2, <1>3, SameFits

\* A coordinator or a participant takes up a vote or a decision.
LEMMA StartSecondPhaseFits ==
  ASSUME NEW n \in Node, NEW T, NEW Y, NEW N, NEW s, Sound(s, n),
         Fits(s, n, T, Y, N), n = FirstLeader[ClusterOf[n]],
         NEW t \in Txn, NEW what \in Vote, Agrees(t, what, Y, N)
  PROVE  Fits(StartSecondPhase(s, n, t, what), n, T, Y, N)
<1> DEFINE seq == s.digest_to_seqnum[t]
           prepares == [s.in_flight_prepares EXCEPT ![t].completed = TRUE]
           marked == [s EXCEPT !.in_flight_prepares = prepares,
                               !.in_flight_transactions = @ \cup {t}]
           word == IF what = "ABORT" THEN "ABORT" ELSE "COMMIT"
           x == TwoPCMsg(word, s.cluster_leaders[PartCluster(t)], t)
           decided == IF PartCluster(t) = ClusterOf[n] THEN s
                      ELSE Send(marked, {x})
           e == [txn |-> t, status |-> Outcome(n, t, what), p2 |-> "",
                 counter |-> s.accept_log[seq].counter]
           votes == decided.accepted_count_two_pc_commit
                      \cup {<<seq, e.counter, n>>}
           u == [decided EXCEPT !.accept_log = [s.accept_log EXCEPT ![seq] = e],
                                !.accepted_count_two_pc_commit = votes]
<1>1. s \in NodeState
  BY DEF Sound
<1>2. /\ s.digest_to_seqnum \in [Txn -> 0 .. MaxSeq]
      /\ s.accept_log \in [Seqnum -> Entry \cup {NoEntry}]
      /\ PartCluster(t) \in Cluster
  BY <1>1, ConstantsAssumption DEF NodeState, PartCluster
<1>3. /\ prepares \in [Txn -> [sent : BOOLEAN, completed : BOOLEAN,
                               retries : {0, 1}]]
      /\ PreparesFit(prepares, n)
  <2>1. s.in_flight_prepares \in [Txn -> [sent : BOOLEAN,
                                  completed : BOOLEAN, retries : {0, 1}]]
    BY <1>1 DEF NodeState
  <2>. QED
    BY <2>1 DEF Fits, PreparesFit
<1> HIDE DEF prepares
<1>4. /\ marked \in NodeState
      /\ marked.leads = s.leads
      /\ marked.cluster_leaders = s.cluster_leaders
      /\ marked.accept_log = s.accept_log
      /\ marked.last_seqnum = s.last_seqnum
      /\ marked.entries_to_commit = s.entries_to_commit
      /\ marked.prepare_and_aborted_queue = s.prepare_and_aborted_queue
      /\ marked.digest_to_seqnum = s.digest_to_seqnum
      /\ marked.in_flight_prepares = prepares
      /\ marked.pending_or_completed_ts = s.pending_or_completed_ts
      /\ marked.out = s.out
      /\ marked.resolved = s.resolved
  BY <1>1, <1>3 DEF NodeState
<1> HIDE DEF marked
<1>5. Fits(marked, n, T, Y, N)
  BY <1>3, <1>4 DEF Fits
<1>6. x \in Message /\ MessagesFit({x}, T, Y, N)
  <2>1. s.cluster_leaders = FirstLeader
    BY DEF Fits
  <2>2. Agrees(t, word, Y, N) /\ word \in Vote
    BY DEF Agrees, YesWords, NoWords, Vote
  <2> HIDE DEF word
  <2>3. MessagesFit({x}, T, Y, N)
    BY <1>2, <2>1, <2>2, TwoPCFits
  <2>. QED
    BY <1>2, <2>1, <2>2, <2>3, ConstantsAssumption DEF TwoPCMsg, Message
<1> HIDE DEF x
<1>7. /\ decided \in NodeState /\ decided.accept_log = s.accept_log
      /\ decided.last_seqnum = s.last_seqnum
      /\ Fits(decided, n, T, Y, N)
  <2>1. /\ Send(marked, {x}) \in NodeState
        /\ Send(marked, {x}).accept_log = marked.accept_log
        /\ Send(marked, {x}).last_seqnum = marked.last_seqnum
    BY <1>4, <1>6 DEF Send, NodeState
  <2>2. Fits(Send(marked, {x}), n, T, Y, N)
    BY <1>4, <1>5, <1>6, SendFits
  <2>. QED
    BY <1>1, <1>4, <2>1, <2>2
<1>8. CASE seq = 0
  BY <1>7, <1>8 DEF StartSecondPhase, marked, prepares, x, decided, NodeState
<1>9. CASE seq # 0
  <2>1. seq \in Seqnum
    BY <1>2, <1>9, ConstantsAssumption DEF Seqnum
  <2>2. T[ClusterOf[n]][seq] = t
    BY <1>9 DEF Fits, DigestFits
  <2>3. s.accept_log[seq] # NoEntry
    BY <1>9 DEF Sound
  <2>4. Agrees(t, Outcome(n, t, what), Y, N)
    BY DEF Agrees, Outcome, YesWords, NoWords, Vote
  <2>5. StartSecondPhase(s, n, t, what) =
          Broadcast(u, n, [type |-> "Accept", from |-> n, to |-> n,
                           seq |-> seq, e |-> e])
    BY <1>9
    DEF StartSecondPhase, marked, prepares, x, decided, NodeState, Sound, Send
  <2> HIDE DEF seq, decided
  <2>6. /\ e.txn = T[ClusterOf[n]][seq] /\ e.p2 = ""
        /\ Agrees(e.txn, e.status, Y, N)
    BY <2>2, <2>4
  <2>7. e \in Entry
    <3>1. s.accept_log[seq] \in Entry
      BY <1>2, <2>1, <2>3
    <3>2. s.accept_log[seq].counter \in Nat
      BY <3>1 DEF Entry
    <3>. QED
      BY <3>2 DEF Entry, Outcome, Status, SecondPhase
  <2>8. votes \in SUBSET (Seqnum \X Nat \X Node)
    <3>1. e.counter \in Nat
      BY <2>7 DEF Entry
    <3> HIDE DEF e
    <3>2. decided.accepted_count_two_pc_commit
            \in SUBSET (Seqnum \X Nat \X Node)
      BY <1>7 DEF NodeState
    <3>. QED
      BY <2>1, <3>1, <3>2
  <2> HIDE DEF e, votes
  <2> DEFINE log == [s.accept_log EXCEPT ![seq] = e]
  <2>9. log \in [Seqnum -> Entry \cup {NoEntry}]
    BY <1>2, <2>1, <2>7
  <2>10. LogFits(log, s.last_seqnum, n, T, Y, N)
    <3>1. LogFits(s.accept_log, s.last_seqnum, n, T, Y, N)
      BY DEF Fits
    <3>2. /\ log[seq] = e
          /\ \A y \in Seqnum \ {seq} : log[y] = s.accept_log[y]
      BY <1>2, <2>1
    <3> HIDE DEF log
    <3>3. Agrees(e.txn, "", Y, N)
      BY DEF Agrees, YesWords, NoWords
    <3>. QED
      BY <2>1, <2>3, <2>6, <3>1, <3>2, <3>3 DEF LogFits
  <2>11. u = [decided EXCEPT !.accept_log = log,
                             !.accepted_count_two_pc_commit = votes]
    OBVIOUS
  <2> HIDE DEF log, u
  <2>12. /\ u \in NodeState
         /\ u.leads = decided.leads
         /\ u.cluster_leaders = decided.cluster_leaders
         /\ u.accept_log = log
         /\ u.last_seqnum = decided.last_seqnum
         /\ u.entries_to_commit = decided.entries_to_commit
         /\ u.prepare_and_aborted_queue = decided.prepare_and_aborted_queue
         /\ u.digest_to_seqnum = decided.digest_to_seqnum
         /\ u.in_flight_prepares = decided.in_flight_prepares
         /\ u.pending_or_completed_ts = decided.pending_or_completed_ts
         /\ u.out = decided.out
         /\ u.resolved = decided.resolved
    BY <1>7, <2>8, <2>9, <2>11 DEF NodeState
  <2>13. Fits(u, n, T, Y, N)
    BY <1>7, <2>10, <2>12 DEF Fits
  <2>. QED
    BY <2>5, <2>6, <2>12, <2>13, AcceptFits
<1>. QED
  BY <1>8, <1>9

LEMMA AfterExecutionFits ==
  ASSUME NEW n \in Node, NEW T, NEW Y, NEW N, NEW s, Sound(s, n),
         Fits(s, n, T, Y, N), NEW seq \in Seqnum, NEW t \in Txn, NEW status,
         NEW success, Agrees(t, status, Y, N)
  PROVE  Fits(AfterExecution(s, n, seq, t, status, success), n, T, Y, N)
<1> DEFINE closed == [s EXCEPT !.pending_client_calls = @ \ {seq},
                               !.blank_votes = @ \ {seq}]
           u == IF /\ seq > s.max_seqnum_in_new_view
                   /\ seq \in s.pending_client_calls
                THEN closed ELSE s
           parked == ParkedVote(s, t)
           taken == [u EXCEPT !.prepare_and_aborted_queue[t] = ""]
           word == IF status = "A" THEN "ABORT" ELSE "PREPARED"
           x == TwoPCMsg(word, s.cluster_leaders[CoordCluster(t)], t)
           told == [u EXCEPT !.told =
                      @ \cup {[txn |-> t, success |-> success]}]
           dropped == [s EXCEPT !.blank_votes = @ \ {seq}]
<1>1. s \in NodeState
  BY DEF Sound
<1>2. /\ u \in NodeState /\ SameFacts(s, u) /\ u.cluster_leaders = FirstLeader
      /\ Fits(u, n, T, Y, N) /\ Sound(u, n)
  <2>1. closed \in NodeState /\ SameFacts(s, closed)
    BY <1>1 DEF NodeState, SameFacts
  <2>2. SameFacts(s, s)
    BY DEF SameFacts
  <2> HIDE DEF closed
  <2>3. u \in NodeState /\ SameFacts(s, u)
    BY <1>1, <2>1, <2>2
  <2> HIDE DEF u
  <2>4. Fits(u, n, T, Y, N)
    BY <2>3, SameFits
  <2>5. Kept(s, u)
    BY <2>3 DEF SameFacts, Kept
  <2>6. Sound(u, n)
    BY <2>3, <2>5, SameAnchors DEF SameFacts
  <2>. QED
    BY <2>3, <2>4, <2>6 DEF Fits
<1>3. \/ AfterExecution(s, n, seq, t, status, success) \in {dropped, u, told}
      \/ /\ status \in {"A", "P"}
         /\ AfterExecution(s, n, seq, t, status, success) = Send(u, {x})
      \/ /\ parked # "" /\ s.leads
         /\ AfterExecution(s, n, seq, t, status, success)
              = StartSecondPhase(taken, n, t, parked)
  BY DEF AfterExecution
<1> HIDE DEF u
<1>4. Fits(told, n, T, Y, N)
  <2>1. SameFacts(u, told)
    BY <1>2 DEF NodeState, SameFacts
  <2>. QED
    BY <1>2, <2>1, SameFits
<1>5. ASSUME status \in {"A", "P"} PROVE Fits(Send(u, {x}), n, T, Y, N)
  <2>1. CoordCluster(t) \in Cluster /\ s.cluster_leaders = FirstLeader
    BY ConstantsAssumption DEF CoordCluster, Fits
  <2>2. Agrees(t, word, Y, N)
    BY <1>5 DEF Agrees, YesWords, NoWords
  <2> HIDE DEF word
  <2>3. MessagesFit({x}, T, Y, N)
    BY <2>1, <2>2, TwoPCFits
  <2> HIDE DEF x
  <2>. QED
    BY <1>2, <2>3, SendFits
<1>6. ASSUME parked # "", s.leads
      PROVE  Fits(StartSecondPhase(taken, n, t, parked), n, T, Y, N)
  <2>1. parked \in Vote /\ Agrees(t, parked, Y, N)
    BY <1>1, <1>6 DEF NodeState, ParkedVote, Fits, ParkedFit
  <2>2. n = FirstLeader[ClusterOf[n]]
    BY <1>6 DEF Fits
  <2> DEFINE queue == [u.prepare_and_aborted_queue EXCEPT ![t] = ""]
  <2>3. /\ queue \in [Txn -> Vote \cup {""}]
        /\ ParkedFit(queue, Y, N)
    <3>1. u.prepare_and_aborted_queue \in [Txn -> Vote \cup {""}]
      BY <1>2 DEF NodeState
    <3>2. \A y : Agrees(y, "", Y, N)
      BY DEF Agrees, YesWords, NoWords
    <3>. QED
      BY <1>2, <3>1, <3>2 DEF Fits, ParkedFit
  <2> HIDE DEF queue
  <2>4. taken = [u EXCEPT !.prepare_and_aborted_queue = queue]
    BY <1>2 DEF NodeState, queue
  <2> HIDE DEF taken
  <2>5. /\ taken \in NodeState
        /\ taken.leads = u.leads
        /\ taken.cluster_leaders = u.cluster_leaders
        /\ taken.accept_log = u.accept_log
        /\ taken.last_seqnum = u.last_seqnum
        /\ taken.entries_to_commit = u.entries_to_commit
        /\ taken.prepare_and_aborted_queue = queue
        /\ taken.digest_to_seqnum = u.digest_to_seqnum
        /\ taken.in_flight_prepares = u.in_flight_prepares
        /\ taken.pending_or_completed_ts = u.pending_or_completed_ts
        /\ taken.out = u.out
        /\ taken.resolved = u.resolved
    BY <1>2, <2>3, <2>4 DEF NodeState
  <2>6. Fits(taken, n, T, Y, N)
    BY <1>2, <2>3, <2>5 DEF Fits
  <2>7. Kept(u, taken)
    BY <2>5 DEF Kept
  <2>8. Sound(taken, n)
    BY <1>2, <2>5, <2>7, SameAnchors
  <2> HIDE DEF parked
  <2>. QED
    BY <2>1, <2>2, <2>6, <2>8, StartSecondPhaseFits
<1>7. Fits(dropped, n, T, Y, N)
  <2>1. SameFacts(s, dropped)
    BY <1>1 DEF NodeState, SameFacts
  <2>. QED
    BY <2>1, SameFits
<1> HIDE DEF parked, taken, told, x, dropped
<1>. QED
  BY <1>2, <1>3, <1>4, <1>5, <1>6, <1>7

LEMMA ExecuteNextFits ==
  ASSUME NEW n \in Node, NEW T, NEW Y, NEW N, NEW s, Sound(s, n),
         Fits(s, n, T, Y, N)
  PROVE  Fits(ExecuteNext(s, n), n, T, Y, N)
<1> DEFINE seq == s.last_executed_seq + 1
           c == s.entries_to_commit[seq]
           moved == [s EXCEPT !.last_executed_seq = seq]
           ran == ExecuteTransaction(moved, seq, c.txn, c.status)
           p2 == s.accept_log[seq].p2
           resolved == IF p2 = "" THEN ran
                       ELSE ExecuteRepeatedTwoPCEntry(ran, n, seq, c.txn, p2)
<1>1. s \in NodeState
  BY DEF Sound
<1>2. CASE seq \notin Seqnum \/ c = NoCommit
  BY <1>2 DEF ExecuteNext
<1>3. CASE seq \in Seqnum /\ c # NoCommit
  <2>1. c \in CommitRecord
    BY <1>1, <1>3 DEF NodeState
  <2>2. c.txn \in Txn
    BY <2>1 DEF CommitRecord
  <2>3. c.txn = T[ClusterOf[n]][seq] /\ Agrees(c.txn, c.status, Y, N)
    <3> HIDE DEF seq
    <3>. QED
      BY <1>3 DEF Fits, CommitsFit
  <2>4. p2 = "" \/ (p2 \in SecondPhase /\ Agrees(c.txn, p2, Y, N))
    <3>1. s.accept_log \in [Seqnum -> Entry \cup {NoEntry}]
      BY <1>1 DEF NodeState
    <3> HIDE DEF seq
    <3>2. s.accept_log[seq] \in Entry \/ s.accept_log[seq] = NoEntry
      BY <1>3, <3>1
    <3>3. NoEntry.p2 = "" /\ \A y \in Entry : y.p2 \in SecondPhase \cup {""}
      BY DEF Entry, NoEntry
    <3>4. /\ Agrees(s.accept_log[seq].txn, p2, Y, N)
          /\ s.accept_log[seq] # NoEntry =>
               s.accept_log[seq].txn = T[ClusterOf[n]][seq]
      BY <1>3 DEF Fits, LogFits
    <3>5. CASE s.accept_log[seq] = NoEntry
      BY <3>3, <3>5
    <3>6. CASE s.accept_log[seq] \in Entry
      <4>1. /\ p2 \in SecondPhase \cup {""}
            /\ s.accept_log[seq] # NoEntry
        BY <3>3, <3>6, EntryIsEntry
      <4>2. s.accept_log[seq].txn = c.txn
        BY <2>3, <3>4, <4>1
      <4>. QED
        BY <3>4, <4>1, <4>2
    <3>. QED
      BY <3>2, <3>5, <3>6
  <2>5. Sound(moved, n) /\ moved \in NodeState /\ Fits(moved, n, T, Y, N)
    <3>1. seq \in 0 .. MaxSeq
      BY <1>3, ConstantsAssumption DEF Seqnum
    <3> HIDE DEF seq
    <3>2. moved \in NodeState /\ SameFacts(s, moved)
      BY <1>1, <3>1 DEF NodeState, SameFacts
    <3> HIDE DEF moved
    <3>3. Kept(s, moved)
      BY <3>2 DEF SameFacts, Kept
    <3>. QED
      BY <3>2, <3>3, SameAnchors, SameFits DEF SameFacts
  <2>6. ExecuteNext(s, n) =
          AfterExecution(resolved, n, seq, c.txn, c.status,
                         Sufficient(s, c.txn) /\ c.status # "A")
    BY <1>3 DEF ExecuteNext
  <2> HIDE DEF seq, c, moved, p2
  <2>7. Sound(ran, n) /\ ran \in NodeState /\ Fits(ran, n, T, Y, N)
    BY <1>3, <2>2, <2>5, ExecuteSound, ExecuteFits DEF Sound
  <2> HIDE DEF ran
  <2>8. Sound(resolved, n) /\ Fits(resolved, n, T, Y, N)
    BY <1>3, <2>2, <2>3, <2>4, <2>7, ResolveSound, ResolveFits
  <2> HIDE DEF resolved
  <2>. QED
    BY <1>3, <2>2, <2>3, <2>6, <2>8, AfterExecutionFits
<1>. QED
  BY <1>2, <1>3

LEMMA LoopFits ==
  ASSUME NEW n \in Node, NEW T, NEW Y, NEW N, NEW s, Sound(s, n),
         Fits(s, n, T, Y, N)
  PROVE  Fits(SequentiallyExecuteCommittedEntries(s, n), n, T, Y, N)
<1>1. PICK f : /\ f[0] = s
               /\ f[MaxSeq] = SequentiallyExecuteCommittedEntries(s, n)
               /\ \A i \in 1 .. MaxSeq : f[i] = ExecuteNext(f[i - 1], n)
  BY LoopIsChain
<1> DEFINE Bad == {i \in 0 .. MaxSeq :
                     ~ (Sound(f[i], n) /\ Fits(f[i], n, T, Y, N))}
<1>2. ASSUME NEW k \in Bad, \A i \in Bad : k <= i PROVE FALSE
  <2>1. k \in Nat /\ k \in 0 .. MaxSeq /\ MaxSeq \in Nat
    BY <1>2, ConstantsAssumption
  <2>2. k # 0
    BY <1>1, <1>2
  <2>3. k \in 1 .. MaxSeq /\ k - 1 \in 0 .. MaxSeq /\ ~ (k <= k - 1)
    BY <2>1, <2>2
  <2>4. Sound(f[k - 1], n) /\ Fits(f[k - 1], n, T, Y, N)
    BY <1>2, <2>3
  <2>5. Sound(f[k], n) /\ Fits(f[k], n, T, Y, N)
    BY <1>1, <2>3, <2>4, ExecuteNextSound, ExecuteNextFits
  <2>. QED
    BY <1>2, <2>5
<1>3. Bad = {}
  <2>1. Bad \in SUBSET Nat
    BY ConstantsAssumption
  <2> HIDE DEF Bad
  <2>. QED
    BY <1>2, <2>1, LeastElement
<1>4. MaxSeq \in 0 .. MaxSeq
  BY ConstantsAssumption
<1>. QED
  BY <1>1, <1>3, <1>4

LEMMA CommitEntryFits ==
  ASSUME NEW n \in Node, NEW T, NEW Y, NEW N, NEW s, Sound(s, n),
         Fits(s, n, T, Y, N), NEW seq \in Seqnum,
         s.accept_log[seq] # NoEntry, NEW status \in Status,
         Agrees(T[ClusterOf[n]][seq], status, Y, N)
  PROVE  Fits(CommitEntry(s, n, seq, status), n, T, Y, N)
<1> DEFINE c == [txn |-> s.accept_log[seq].txn, status |-> status]
           blank == status \in SecondPhase /\ seq \in s.blank_votes
           r == RecordCommit(s, seq, c)
           u == Broadcast(r, n,
                  [type |-> "Commit", from |-> n, to |-> n, seq |-> seq,
                   c |-> c, blank |-> blank])
<1>1. c \in CommitRecord /\ c.txn \in Txn
  <2>1. s.accept_log[seq] \in Entry
    BY DEF Sound, NodeState
  <2>. QED
    BY <2>1 DEF Entry, CommitRecord
<1>2. c.txn = T[ClusterOf[n]][seq] /\ Agrees(c.txn, c.status, Y, N)
  BY DEF Fits, LogFits
<1>3. blank \in BOOLEAN
  OBVIOUS
<1>4. \/ CommitEntry(s, n, seq, status) \in
           {u, SequentiallyExecuteCommittedEntries(u, n), Exited(u)}
      \/ /\ status \in SecondPhase
         /\ CommitEntry(s, n, seq, status)
              = ExecuteRepeatedTwoPCEntry(u, n, seq, c.txn, status)
  BY DEF CommitEntry
<1>5. c.status = status
  OBVIOUS
<1> HIDE DEF c, blank
<1>6. Sound(r, n) /\ r \in NodeState /\ Fits(r, n, T, Y, N)
  BY <1>1, <1>2, RecordCommitSound, RecordCommitFits DEF Sound
<1> HIDE DEF r
<1>7. Sound(u, n) /\ u \in NodeState
  BY <1>1, <1>3, <1>6, BroadcastCommitSound DEF Sound
<1>8. Fits(u, n, T, Y, N)
  BY <1>2, <1>6, CommitFits
<1> HIDE DEF u
<1>. QED
  BY <1>1, <1>2, <1>4, <1>5, <1>7, <1>8, LoopFits, ExitedFits, ResolveFits

-----------------------------------------------------------------------------
\* New titles and new votes.

\* What is settled stays settled.
Grown(T, Y, N, T2, Y2, N2) ==
  /\ \A c \in Cluster, seq \in Seqnum : T[c][seq] \in Txn =>
       T2[c][seq] = T[c][seq]
  /\ Y \subseteq Y2
  /\ N \subseteq N2

LEMMA MessagesGrow ==
  ASSUME NEW T, NEW Y, NEW N, NEW T2, NEW Y2, NEW N2,
         Grown(T, Y, N, T2, Y2, N2), NEW ms \in SUBSET Message,
         MessagesFit(ms, T, Y, N)
  PROVE  MessagesFit(ms, T2, Y2, N2)
<1> SUFFICES ASSUME NEW m \in ms PROVE MessageFits(m, T2, Y2, N2)
  BY DEF MessagesFit
<1>1. m \in Message /\ MessageFits(m, T, Y, N)
  BY DEF MessagesFit
<1>2. m.to \in Node
  BY <1>1 DEF Message
<1>3. ClusterOf[m.to] \in Cluster
  BY <1>2, ConstantsAssumption
<1>4. \A t, w : Agrees(t, w, Y, N) => Agrees(t, w, Y2, N2)
  BY DEF Agrees, Grown
<1>5. CASE m.type = "Accept"
  <2>1. m.e.txn \in Txn /\ m.seq \in Seqnum
    BY <1>1, <1>5 DEF Message, Entry
  <2>. QED
    BY <1>1, <1>3, <1>4, <1>5, <2>1 DEF MessageFits, Grown
<1>6. CASE m.type = "Ack"
  <2>1. m.seq \in Seqnum
    BY <1>1, <1>6 DEF Message
  <2>. QED
    BY <1>1, <1>3, <1>4, <1>6, <2>1 DEF MessageFits, Grown
<1>7. CASE m.type = "Commit"
  <2>1. m.c.txn \in Txn /\ m.seq \in Seqnum
    BY <1>1, <1>7 DEF Message, CommitRecord
  <2>. QED
    BY <1>1, <1>3, <1>4, <1>7, <2>1 DEF MessageFits, Grown
<1>8. CASE m.type \notin {"Accept", "Ack", "Commit"}
  BY <1>1, <1>4, <1>8 DEF MessageFits
<1>. QED
  BY <1>5, <1>6, <1>7, <1>8

LEMMA MembersGrow ==
  ASSUME NEW n \in Node, NEW T, NEW Y, NEW N, NEW T2, NEW Y2, NEW N2,
         Grown(T, Y, N, T2, Y2, N2), NEW s \in NodeState,
         Fits(s, n, T, Y, N)
  PROVE  /\ CommitsFit(s.entries_to_commit, n, T2, Y2, N2)
         /\ ParkedFit(s.prepare_and_aborted_queue, Y2, N2)
         /\ DigestFits(s.digest_to_seqnum, n, T2)
         /\ MessagesFit(s.out, T2, Y2, N2)
         /\ OutcomesAgree(s.resolved, Y2, N2)
         /\ \A seq \in Seqnum :
              /\ s.accept_log[seq] # NoEntry =>
                   s.accept_log[seq].txn = T2[ClusterOf[n]][seq]
              /\ Agrees(s.accept_log[seq].txn, s.accept_log[seq].p2, Y2, N2)
              /\ Agrees(s.accept_log[seq].txn, s.accept_log[seq].status, Y2, N2)
<1>1. ClusterOf[n] \in Cluster
  BY ConstantsAssumption
<1>2. \A t, w : Agrees(t, w, Y, N) => Agrees(t, w, Y2, N2)
  BY DEF Agrees, Grown
<1>3. CommitsFit(s.entries_to_commit, n, T2, Y2, N2)
  <2>1. s.entries_to_commit \in [Seqnum -> CommitRecord \cup {NoCommit}]
    BY DEF NodeState
  <2>2. \A seq \in Seqnum : s.entries_to_commit[seq] # NoCommit =>
          s.entries_to_commit[seq].txn \in Txn
    BY <2>1 DEF CommitRecord
  <2>. QED
    BY <1>1, <1>2, <2>2 DEF Fits, CommitsFit, Grown
<1>4. ParkedFit(s.prepare_and_aborted_queue, Y2, N2)
  BY <1>2 DEF Fits, ParkedFit
<1>5. DigestFits(s.digest_to_seqnum, n, T2)
  <2>1. s.digest_to_seqnum \in [Txn -> 0 .. MaxSeq]
    BY DEF NodeState
  <2>2. \A t \in Txn : s.digest_to_seqnum[t] # 0 =>
          s.digest_to_seqnum[t] \in Seqnum
    BY <2>1, ConstantsAssumption DEF Seqnum
  <2>. QED
    BY <1>1, <2>2 DEF Fits, DigestFits, Grown
<1>6. MessagesFit(s.out, T2, Y2, N2)
  <2>1. s.out \in SUBSET Message
    BY DEF NodeState
  <2>. QED
    BY <2>1, MessagesGrow DEF Fits
<1>7. OutcomesAgree(s.resolved, Y2, N2)
  BY <1>2 DEF Fits, OutcomesAgree
<1>8. ASSUME NEW seq \in Seqnum
      PROVE  /\ s.accept_log[seq] # NoEntry =>
                  s.accept_log[seq].txn = T2[ClusterOf[n]][seq]
             /\ Agrees(s.accept_log[seq].txn, s.accept_log[seq].p2, Y2, N2)
             /\ Agrees(s.accept_log[seq].txn, s.accept_log[seq].status, Y2, N2)
  <2>1. s.accept_log \in [Seqnum -> Entry \cup {NoEntry}]
    BY DEF NodeState
  <2>2. s.accept_log[seq] # NoEntry => s.accept_log[seq].txn \in Txn
    BY <2>1 DEF Entry
  <2>. QED
    BY <1>1, <1>2, <2>2 DEF Fits, LogFits, Grown
<1>. QED
  BY <1>3, <1>4, <1>5, <1>6, <1>7, <1>8

Titled(T) == T \in [Cluster -> [Seqnum -> Txn \cup {None}]]

LEMMA EmptyHasNoTitle ==
  ASSUME NEW n \in Node, NEW T, NEW Y, NEW N, NEW s \in NodeState,
         Fits(s, n, T, Y, N), n = FirstLeader[ClusterOf[n]],
         s.last_seqnum < MaxSeq
  PROVE  /\ s.last_seqnum + 1 \in Seqnum
         /\ T[ClusterOf[n]][s.last_seqnum + 1] = None
<1> DEFINE seq == s.last_seqnum + 1
<1>1. seq \in Seqnum /\ ~ (seq <= s.last_seqnum)
  <2>1. s.last_seqnum \in 0 .. MaxSeq
    BY DEF NodeState
  <2>. QED
    BY <2>1, ConstantsAssumption DEF Seqnum
<1> HIDE DEF seq
<1>2. /\ s.accept_log[seq] = NoEntry
      /\ s.accept_log[seq].txn = T[ClusterOf[n]][seq]
  BY <1>1 DEF Fits, LogFits
<1>3. NoEntry.txn = None
  BY DEF NoEntry
<1>4. T[ClusterOf[n]][seq] = None
  BY <1>2, <1>3
<1>. QED
  BY <1>1, <1>4 DEF seq

\* A leader proposes t: the next sequence number is about t from now on, and
\* t may be what the vote is about.
LEMMA ProposeFits ==
  ASSUME NEW n \in Node, NEW T, Titled(T), NEW Y, NEW N,
         NEW s \in NodeState, Fits(s, n, T, Y, N),
         n = FirstLeader[ClusterOf[n]], s.last_seqnum < MaxSeq,
         NEW t \in Txn, NEW status \in Status, NEW Y2, NEW N2, NEW T2,
         T2 = [T EXCEPT ![ClusterOf[n]][s.last_seqnum + 1] = t],
         Y \subseteq Y2, N \subseteq N2, Y2 \cup N2 \subseteq Y \cup N \cup {t},
         Agrees(t, status, Y2, N2)
  PROVE  Fits(Propose(s, n, t, status), n, T2, Y2, N2)
<1> DEFINE seq == s.last_seqnum + 1
           e == [txn |-> t, status |-> status, counter |-> s.counter,
                 p2 |-> ""]
           log == [s.accept_log EXCEPT ![seq] = e]
           digest == [s.digest_to_seqnum EXCEPT ![t] = seq]
           claimed == s.pending_or_completed_ts \cup {t}
           votes == s.accepted_count \cup {<<seq, s.counter, n>>}
           calls == s.pending_client_calls \cup {seq}
           blanks == IF status = "A" THEN s.blank_votes \cup {seq}
                     ELSE s.blank_votes
           u == [s EXCEPT
                   !.pending_or_completed_ts = claimed,
                   !.last_seqnum = seq,
                   !.pending_client_calls = calls,
                   !.blank_votes = blanks,
                   !.accepted_count = votes,
                   !.accept_log = log,
                   !.digest_to_seqnum = digest]
<1>1. /\ seq \in Seqnum /\ T[ClusterOf[n]][seq] = None
      /\ ClusterOf[n] \in Cluster
  BY EmptyHasNoTitle, ConstantsAssumption
<1>2. /\ s.accept_log \in [Seqnum -> Entry \cup {NoEntry}]
      /\ s.digest_to_seqnum \in [Txn -> 0 .. MaxSeq]
      /\ s.counter \in Nat /\ s.last_seqnum \in 0 .. MaxSeq
  BY DEF NodeState
<1>3. Propose(s, n, t, status) =
        Broadcast(u, n, [type |-> "Accept", from |-> n, to |-> n,
                         seq |-> seq, e |-> e])
  BY DEF Propose, NodeState
<1>4. /\ seq \in 0 .. MaxSeq /\ seq \in Int /\ s.last_seqnum <= seq
      /\ s.last_seqnum \in Int
  BY <1>1, <1>2, ConstantsAssumption DEF Seqnum
<1>5. T2[ClusterOf[n]][seq] = t
  BY <1>1 DEF Titled
<1>6. Grown(T, Y, N, T2, Y2, N2)
  <2>1. \A c \in Cluster, x \in Seqnum : T[c][x] \in Txn => T2[c][x] = T[c][x]
    BY <1>1, ConstantsAssumption DEF Titled
  <2>. QED
    BY <2>1 DEF Grown
<1>7. \A x \in Seqnum \ {seq} :
        T2[ClusterOf[n]][x] = T[ClusterOf[n]][x]
  BY <1>1 DEF Titled
<1> HIDE DEF seq
<1>8. e \in Entry /\ e.txn = t /\ e.p2 = "" /\ e.status = status
  BY <1>2 DEF Entry
<1>9. /\ log \in [Seqnum -> Entry \cup {NoEntry}]
      /\ log[seq] = e
      /\ \A x \in Seqnum \ {seq} : log[x] = s.accept_log[x]
      /\ digest \in [Txn -> 0 .. MaxSeq]
      /\ digest[t] = seq
      /\ \A y \in Txn \ {t} : digest[y] = s.digest_to_seqnum[y]
  BY <1>1, <1>2, <1>4, <1>8
<1> HIDE DEF e
<1>10. /\ claimed \in SUBSET Txn
       /\ votes \in SUBSET (Seqnum \X Nat \X Node)
       /\ calls \in SUBSET Seqnum
       /\ blanks \in SUBSET Seqnum
  <2>1. /\ s.pending_or_completed_ts \in SUBSET Txn
        /\ s.accepted_count \in SUBSET (Seqnum \X Nat \X Node)
        /\ s.pending_client_calls \in SUBSET Seqnum
        /\ s.blank_votes \in SUBSET Seqnum
    BY DEF NodeState
  <2>2. <<seq, s.counter, n>> \in Seqnum \X Nat \X Node
    BY <1>1, <1>2
  <2>. QED
    BY <1>1, <2>1, <2>2
<1>11. VotesClaimed(claimed, n, Y2, N2)
  BY DEF Fits, VotesClaimed
<1> HIDE DEF log, digest, claimed, votes, calls, blanks
<1>12. /\ u \in NodeState
       /\ u.leads = s.leads
       /\ u.cluster_leaders = s.cluster_leaders
       /\ u.accept_log = log
       /\ u.last_seqnum = seq
       /\ u.entries_to_commit = s.entries_to_commit
       /\ u.prepare_and_aborted_queue = s.prepare_and_aborted_queue
       /\ u.digest_to_seqnum = digest
       /\ u.in_flight_prepares = s.in_flight_prepares
       /\ u.pending_or_completed_ts = claimed
       /\ u.out = s.out
       /\ u.resolved = s.resolved
  BY <1>4, <1>9, <1>10 DEF NodeState
<1> HIDE DEF u
<1>13. LogFits(log, seq, n, T2, Y2, N2)
  <2> SUFFICES ASSUME NEW x \in Seqnum
               PROVE  /\ log[x] # NoEntry =>
                           log[x].txn = T2[ClusterOf[n]][x]
                      /\ Agrees(log[x].txn, log[x].p2, Y2, N2)
                      /\ Agrees(log[x].txn, log[x].status, Y2, N2)
                      /\ log[x].txn = T2[ClusterOf[n]][x]
                      /\ log[x] # NoEntry => x <= seq
    BY DEF LogFits
  <2>1. CASE x = seq
    <3>1. Agrees(t, "", Y2, N2)
      BY DEF Agrees, YesWords, NoWords
    <3>2. log[x].txn = t /\ log[x].p2 = "" /\ log[x].status = status
      BY <1>8, <1>9, <2>1
    <3>3. x <= seq
      BY <1>4, <2>1
    <3>4. /\ Agrees(log[x].txn, log[x].p2, Y2, N2)
          /\ Agrees(log[x].txn, log[x].status, Y2, N2)
      BY <3>1, <3>2
    <3>5. log[x].txn = T2[ClusterOf[n]][x]
      BY <1>5, <2>1, <3>2
    <3>. QED
      BY <3>3, <3>4, <3>5
  <2>2. CASE x # seq
    <3>1. /\ log[x] = s.accept_log[x]
          /\ T2[ClusterOf[n]][x] = T[ClusterOf[n]][x]
      BY <1>7, <1>9, <2>2
    <3>2. /\ s.accept_log[x].txn = T[ClusterOf[n]][x]
          /\ s.accept_log[x] # NoEntry => x <= s.last_seqnum
      BY DEF Fits, LogFits
    <3>3. /\ Agrees(s.accept_log[x].txn, s.accept_log[x].p2, Y2, N2)
          /\ Agrees(s.accept_log[x].txn, s.accept_log[x].status, Y2, N2)
      BY <1>6, MembersGrow
    <3>4. x \in Int
      BY DEF Seqnum
    <3>. QED
      BY <1>4, <3>1, <3>2, <3>3, <3>4
  <2>. QED
    BY <2>1, <2>2
<1>14. DigestFits(digest, n, T2)
  <2>1. DigestFits(s.digest_to_seqnum, n, T2)
    BY <1>6, MembersGrow
  <2>. QED
    BY <1>5, <1>9, <2>1 DEF DigestFits
<1>15. Fits(u, n, T2, Y2, N2)
  <2>1. /\ CommitsFit(s.entries_to_commit, n, T2, Y2, N2)
        /\ ParkedFit(s.prepare_and_aborted_queue, Y2, N2)
        /\ MessagesFit(s.out, T2, Y2, N2)
        /\ OutcomesAgree(s.resolved, Y2, N2)
    BY <1>6, MembersGrow
  <2>. QED
    BY <1>11, <1>12, <1>13, <1>14, <2>1 DEF Fits
<1>16. /\ e.txn = T2[ClusterOf[n]][seq] /\ e.p2 = ""
       /\ Agrees(e.txn, e.status, Y2, N2)
  BY <1>5, <1>8
<1>17. Fits(Broadcast(u, n, [type |-> "Accept", from |-> n, to |-> n,
                             seq |-> seq, e |-> e]), n, T2, Y2, N2)
  BY <1>12, <1>15, <1>16, AcceptFits
<1>. QED
  BY <1>3, <1>17

-----------------------------------------------------------------------------
\* The end of a handler.

LEMMA TitlesTitled == TypeInv => Titled(Titles)
<1> SUFFICES ASSUME TypeInv PROVE Titled(Titles)
  OBVIOUS
<1>1. ASSUME NEW c \in Cluster, NEW seq \in Seqnum
      PROVE  node[FirstLeader[c]].accept_log[seq].txn \in Txn \cup {None}
  <2>1. FirstLeader[c] \in Node
    BY ConstantsAssumption
  <2>2. node[FirstLeader[c]].accept_log \in [Seqnum -> Entry \cup {NoEntry}]
    BY <2>1, NodeFacts
  <2>3. NoEntry.txn = None /\ \A e \in Entry : e.txn \in Txn
    BY DEF Entry, NoEntry
  <2>4. \/ node[FirstLeader[c]].accept_log[seq] \in Entry
        \/ node[FirstLeader[c]].accept_log[seq] = NoEntry
    BY <2>2
  <2>. QED
    BY <2>3, <2>4
<1>. QED
  BY <1>1 DEF Titles, Titled

\* A handler of node n that gives titles or casts votes as a leader may.
LEMMA FinishGrows ==
  ASSUME TypeInv, NEW n \in Node, NEW s \in NodeState, NEW used,
         Finish(n, s, used),
         NEW Y \in SUBSET Txn, NEW N \in SUBSET Txn, Settled(Y, N),
         NEW T2, Titled(T2), NEW Y2 \in SUBSET Txn, NEW N2 \in SUBSET Txn,
         Grown(Titles, Y, N, T2, Y2, N2), Y2 \cap N2 = {},
         \A c \in Cluster : n # FirstLeader[c] => T2[c] = Titles[c],
         \A t \in (Y2 \cup N2) \ (Y \cup N) : n = FirstLeader[PartCluster(t)],
         Fits(s, n, T2, Y2, N2)
  PROVE  Settled(Y2, N2)'
<1> DEFINE r == [s EXCEPT !.out = {}, !.told = {}, !.resolved = {}]
<1>1. /\ r.leads = s.leads
      /\ r.cluster_leaders = s.cluster_leaders
      /\ r.accept_log = s.accept_log
      /\ r.last_seqnum = s.last_seqnum
      /\ r.entries_to_commit = s.entries_to_commit
      /\ r.prepare_and_aborted_queue = s.prepare_and_aborted_queue
      /\ r.digest_to_seqnum = s.digest_to_seqnum
      /\ r.in_flight_prepares = s.in_flight_prepares
      /\ r.pending_or_completed_ts = s.pending_or_completed_ts
      /\ r.out = {}
      /\ r.resolved = {}
  BY DEF NodeState
<1>2. node \in [Node -> NodeState] /\ node' = [node EXCEPT ![n] = r]
  BY DEF TypeInv, TypeOK, Finish
<1> HIDE DEF r
<1>3. Fits(r, n, T2, Y2, N2)
  <2>1. MessagesFit({}, T2, Y2, N2) /\ OutcomesAgree({}, Y2, N2)
    BY DEF MessagesFit, OutcomesAgree
  <2>. QED
    BY <1>1, <2>1 DEF Fits
<1>4. Titles' = T2
  <2>1. ASSUME NEW c \in Cluster, NEW seq \in Seqnum
        PROVE  node'[FirstLeader[c]].accept_log[seq].txn = T2[c][seq]
    <3>1. FirstLeader[c] \in Node /\ ClusterOf[FirstLeader[c]] = c
      BY ConstantsAssumption
    <3>2. CASE n = FirstLeader[c]
      <4>1. node'[FirstLeader[c]].accept_log = s.accept_log
        BY <1>1, <1>2, <3>2
      <4>2. n = FirstLeader[ClusterOf[n]] /\ ClusterOf[n] = c
        BY <3>1, <3>2
      <4>3. s.accept_log[seq].txn = T2[ClusterOf[n]][seq]
        BY <4>2 DEF Fits, LogFits
      <4>. QED
        BY <4>1, <4>2, <4>3
    <3>3. CASE n # FirstLeader[c]
      <4>1. node'[FirstLeader[c]] = node[FirstLeader[c]]
        BY <1>2, <3>1, <3>3
      <4>2. Titles[c][seq] = node[FirstLeader[c]].accept_log[seq].txn
        BY DEF Titles
      <4>. QED
        BY <3>3, <4>1, <4>2
    <3>. QED
      BY <3>2, <3>3
  <2>2. Titles' = [c \in Cluster |-> [seq \in Seqnum |-> T2[c][seq]]]
    BY <2>1 DEF Titles
  <2>. QED
    BY <2>2 DEF Titled
<1>5. ASSUME NEW q \in Node PROVE Fits(node'[q], q, T2, Y2, N2)
  <2>1. CASE q = n
    BY <1>2, <1>3, <2>1
  <2>2. CASE q # n
    <3>1. node'[q] = node[q] /\ node[q] \in NodeState
      BY <1>2, <2>2
    <3>2. Fits(node[q], q, Titles, Y, N)
      BY DEF Settled
    <3>3. /\ CommitsFit(node[q].entries_to_commit, q, T2, Y2, N2)
          /\ ParkedFit(node[q].prepare_and_aborted_queue, Y2, N2)
          /\ DigestFits(node[q].digest_to_seqnum, q, T2)
          /\ MessagesFit(node[q].out, T2, Y2, N2)
          /\ OutcomesAgree(node[q].resolved, Y2, N2)
          /\ \A seq \in Seqnum :
               /\ node[q].accept_log[seq] # NoEntry =>
                    node[q].accept_log[seq].txn = T2[ClusterOf[q]][seq]
               /\ Agrees(node[q].accept_log[seq].txn,
                         node[q].accept_log[seq].p2, Y2, N2)
               /\ Agrees(node[q].accept_log[seq].txn,
                         node[q].accept_log[seq].status, Y2, N2)
      BY <3>1, <3>2, MembersGrow
    <3>4. LogFits(node[q].accept_log, node[q].last_seqnum, q, T2, Y2, N2)
      <4>1. ClusterOf[q] \in Cluster
        BY ConstantsAssumption
      <4>2. q = FirstLeader[ClusterOf[q]] =>
              T2[ClusterOf[q]] = Titles[ClusterOf[q]]
        BY <2>2, <4>1
      <4>3. LogFits(node[q].accept_log, node[q].last_seqnum, q, Titles, Y, N)
        BY <3>2 DEF Fits
      <4>. QED
        BY <3>3, <4>2, <4>3 DEF LogFits
    <3>5. VotesClaimed(node[q].pending_or_completed_ts, q, Y2, N2)
      BY <2>2, <3>2 DEF Fits, VotesClaimed
    <3>. QED
      BY <3>1, <3>2, <3>3, <3>4, <3>5 DEF Fits
  <2>. QED
    BY <2>1, <2>2
<1>6. MessagesFit(msgs', T2, Y2, N2)
  <2>1. msgs \in SUBSET Message /\ MessagesFit(msgs, Titles, Y, N)
    BY DEF TypeInv, TypeOK, Settled
  <2>2. MessagesFit(msgs, T2, Y2, N2)
    BY <2>1, MessagesGrow
  <2>. QED
    BY <2>2 DEF MessagesFit, Fits, Finish
<1>7. OutcomesAgree(outcomes', Y2, N2)
  BY DEF Settled, Finish, Fits, OutcomesAgree, Agrees, Grown
<1>. QED
  BY <1>4, <1>5, <1>6, <1>7 DEF Settled

\* A handler of any other kind.
LEMMA FinishFits ==
  ASSUME TypeInv, NEW n \in Node, NEW s \in NodeState, NEW used,
         Finish(n, s, used),
         NEW Y \in SUBSET Txn, NEW N \in SUBSET Txn, Settled(Y, N),
         Fits(s, n, Titles, Y, N)
  PROVE  Settled(Y, N)'
<1>1. Titled(Titles)
  BY TitlesTitled
<1>2. Grown(Titles, Y, N, Titles, Y, N) /\ Y \cap N = {}
  BY DEF Grown, Settled
<1>. QED
  BY <1>1, <1>2, FinishGrows

\* An entry of n about t with this status changes the votes on t at most, and
\* only if n leads the participant's cluster.
Casts(n, t, status, Y, N, Y2, N2) ==
  /\ Y \subseteq Y2 /\ N \subseteq N2
  /\ Y2 \cup N2 \subseteq Y \cup N \cup {t}
  /\ Y2 \cap N2 = {}
  /\ Agrees(t, status, Y2, N2)
  /\ t \in (Y2 \cup N2) \ (Y \cup N) => n = FirstLeader[PartCluster(t)]

\* What a leader that proposes t changes.
LEMMA FinishPropose ==
  ASSUME TypeInv, NEW n \in Node, NEW s, NEW used, NEW t \in Txn,
         NEW status \in Status, SoundBut(s, n, t),
         Finish(n, Propose(s, n, t, status), used),
         s.last_seqnum < MaxSeq, n = FirstLeader[ClusterOf[n]],
         NEW Y \in SUBSET Txn, NEW N \in SUBSET Txn, Settled(Y, N),
         Fits(s, n, Titles, Y, N),
         NEW Y2 \in SUBSET Txn, NEW N2 \in SUBSET Txn,
         Casts(n, t, status, Y, N, Y2, N2)
  PROVE  Settled(Y2, N2)'
<1> DEFINE T2 == [Titles EXCEPT ![ClusterOf[n]][s.last_seqnum + 1] = t]
<1>1. s \in NodeState /\ Titled(Titles) /\ ClusterOf[n] \in Cluster
  BY TitlesTitled, ConstantsAssumption DEF SoundBut
<1>2. /\ s.last_seqnum + 1 \in Seqnum
      /\ Titles[ClusterOf[n]][s.last_seqnum + 1] = None
  BY <1>1, EmptyHasNoTitle
<1>3. /\ Titled(T2)
      /\ \A c \in Cluster : n # FirstLeader[c] => T2[c] = Titles[c]
      /\ \A c \in Cluster, x \in Seqnum :
           Titles[c][x] \in Txn => T2[c][x] = Titles[c][x]
  BY <1>1, <1>2, ConstantsAssumption DEF Titled
<1>4. Fits(Propose(s, n, t, status), n, T2, Y2, N2)
  BY <1>1, ProposeFits DEF Casts
<1>5. Propose(s, n, t, status) \in NodeState
  BY ProposeSound DEF Sound
<1> HIDE DEF T2
<1>6. Grown(Titles, Y, N, T2, Y2, N2) /\ Y2 \cap N2 = {}
  BY <1>3 DEF Grown, Casts
<1>7. \A y \in (Y2 \cup N2) \ (Y \cup N) : n = FirstLeader[PartCluster(y)]
  BY DEF Casts
<1>. QED
  BY <1>3, <1>4, <1>5, <1>6, <1>7, FinishGrows

\* The entry is about t but no vote on it.
LEMMA FinishPlainPropose ==
  ASSUME TypeInv, NEW n \in Node, NEW s, NEW used, NEW t \in Txn,
         NEW status \in Status, status \in {"", "COORD"}, SoundBut(s, n, t),
         Finish(n, Propose(s, n, t, status), used),
         s.last_seqnum < MaxSeq, n = FirstLeader[ClusterOf[n]],
         NEW Y \in SUBSET Txn, NEW N \in SUBSET Txn, Settled(Y, N),
         Fits(s, n, Titles, Y, N)
  PROVE  Settled(Y, N)'
<1>1. Agrees(t, status, Y, N)
  BY DEF Agrees, YesWords, NoWords
<1>2. Casts(n, t, status, Y, N, Y, N)
  BY <1>1 DEF Casts, Settled
<1>. QED
  BY <1>2, FinishPropose

-----------------------------------------------------------------------------
\* The actions.

\* A message that is delivered to n, and the state it finds.
LEMMA DeliveredFits ==
  ASSUME TypeInv, NEW n \in Node, NEW m \in msgs, m.to = n,
         NEW Y, NEW N, Settled(Y, N)
  PROVE  /\ m \in Message /\ MessageFits(m, Titles, Y, N)
         /\ node[n] \in NodeState /\ Sound(node[n], n)
         /\ Fits(node[n], n, Titles, Y, N)
         /\ ClusterOf[n] \in Cluster
  BY NodeFacts, ConstantsAssumption
  DEF TypeInv, TypeOK, Settled, MessagesFit

LEMMA ProcessClientRequestSettles ==
  ASSUME TypeInv, sharding_map = shard_map, NEW n \in Node, NEW t \in Txn,
         ProcessClientRequest(n, t),
         NEW Y \in SUBSET Txn, NEW N \in SUBSET Txn, Settled(Y, N)
  PROVE  Settled(Y, N)'
<1> DEFINE s == node[n]
           locked == [s EXCEPT !.balance_locks = @ \cup Needed(t)]
           prepares == [s.in_flight_prepares EXCEPT ![t].sent = TRUE]
           marked == [locked EXCEPT !.in_flight_prepares[t].sent = TRUE]
           x == PrepareMsg(n, s.cluster_leaders[PartCluster(t)], t, 0)
           prepared == Send(marked, {x})
<1>1. /\ s \in NodeState /\ Sound(s, n) /\ s.last_seqnum < MaxSeq
      /\ s.balance_locks \in SUBSET Account
      /\ s.in_flight_prepares \in [Txn -> [sent : BOOLEAN,
                                    completed : BOOLEAN, retries : {0, 1}]]
      /\ Fits(s, n, Titles, Y, N) /\ Y \cap N = {}
      /\ s.leads
  BY NodeFacts DEF ProcessClientRequest, Admissible, NodeState, Settled
<1>2. /\ n = FirstLeader[ClusterOf[n]] /\ n = FirstLeader[CoordCluster(t)]
      /\ s.cluster_leaders = FirstLeader
  BY <1>1 DEF ProcessClientRequest, Admissible, CoordCluster, Fits
<1>3. Needed(t) \in SUBSET Account
  BY ConstantsAssumption DEF Needed
<1>4. /\ Sound(locked, n) /\ locked \in NodeState
      /\ locked.last_seqnum = s.last_seqnum
      /\ locked.in_flight_prepares = s.in_flight_prepares
      /\ SameFacts(s, locked)
  <2>1. Sound(locked, n)
    BY <1>1, <1>3, LockSound
  <2>2. SameFacts(s, locked)
    BY <1>1 DEF NodeState, SameFacts
  <2>. QED
    BY <2>1, <2>2 DEF Sound, SameFacts
<1>5. \/ IntraShard(t) /\ Finish(n, Propose(locked, n, t, ""), {})
      \/ ~ IntraShard(t) /\ Finish(n, Propose(prepared, n, t, "COORD"), {})
  BY DEF ProcessClientRequest
<1>6. x \in Message /\ x.type = "PREPARE" /\ MessagesFit({x}, Titles, Y, N)
  <2>1. PartCluster(t) \in Cluster
    BY ConstantsAssumption DEF PartCluster
  <2>2. /\ x.type = "PREPARE" /\ x.from = n /\ x.txn = t
        /\ x.to = FirstLeader[PartCluster(t)]
    BY <1>2 DEF PrepareMsg
  <2>3. x \in Message
    BY <1>2, <2>1, ConstantsAssumption DEF PrepareMsg, Message
  <2> HIDE DEF x
  <2>4. MessageFits(x, Titles, Y, N)
    BY <1>2, <2>2 DEF MessageFits
  <2>. QED
    BY <2>2, <2>3, <2>4 DEF MessagesFit
<1> HIDE DEF locked, x, s
<1>7. Fits(locked, n, Titles, Y, N)
  BY <1>1, <1>4, SameFits
<1>8. CASE IntraShard(t)
  <2>1. Finish(n, Propose(locked, n, t, ""), {})
    BY <1>5, <1>8
  <2>2. SoundBut(locked, n, t)
    BY <1>4, SoundIsSoundBut
  <2>. QED
    BY <1>1, <1>2, <1>4, <1>7, <2>1, <2>2, FinishPlainPropose DEF Status
<1>9. CASE ~ IntraShard(t)
  <2>1. Finish(n, Propose(prepared, n, t, "COORD"), {})
    BY <1>5, <1>9
  <2>2. /\ prepares \in [Txn -> [sent : BOOLEAN, completed : BOOLEAN,
                                 retries : {0, 1}]]
        /\ \A y \in Txn \ {t} :
             prepares[y].sent = s.in_flight_prepares[y].sent
    BY <1>1
  <2>3. PreparesFit(prepares, n)
    <3>1. PreparesFit(s.in_flight_prepares, n)
      BY <1>1 DEF Fits
    <3> HIDE DEF prepares
    <3>. QED
      BY <1>2, <2>2, <3>1 DEF PreparesFit
  <2>4. marked = [locked EXCEPT !.in_flight_prepares = prepares]
    BY <1>4 DEF NodeState
  <2> HIDE DEF marked, prepares
  <2>5. /\ marked \in NodeState
        /\ marked.leads = locked.leads
        /\ marked.cluster_leaders = locked.cluster_leaders
        /\ marked.accept_log = locked.accept_log
        /\ marked.last_seqnum = locked.last_seqnum
        /\ marked.entries_to_commit = locked.entries_to_commit
        /\ marked.prepare_and_aborted_queue = locked.prepare_and_aborted_queue
        /\ marked.digest_to_seqnum = locked.digest_to_seqnum
        /\ marked.in_flight_prepares = prepares
        /\ marked.pending_or_completed_ts = locked.pending_or_completed_ts
        /\ marked.out = locked.out
        /\ marked.resolved = locked.resolved
    BY <1>4, <2>2, <2>4 DEF NodeState
  <2>6. Fits(marked, n, Titles, Y, N)
    BY <1>7, <2>3, <2>5 DEF Fits
  <2>7. Fits(prepared, n, Titles, Y, N)
    BY <1>6, <2>5, <2>6, SendFits
  <2>8. /\ prepared \in NodeState
        /\ prepared.accept_log = locked.accept_log
        /\ prepared.out = locked.out \cup {x}
        /\ prepared.digest_to_seqnum = locked.digest_to_seqnum
        /\ prepared.in_flight_prepares = prepares
        /\ prepared.last_seqnum = locked.last_seqnum
    BY <1>6, <2>5, ZenonT(60) DEF NodeState, Send
  <2> HIDE DEF prepared
  <2>9. SoundBut(prepared, n, t)
    BY <1>4, <1>6, <2>2, <2>8 DEF Sound, SoundBut
  <2>. QED
    BY <1>1, <1>2, <1>4, <2>1, <2>7, <2>8, <2>9, FinishPlainPropose DEF Status
<1>. QED
  BY <1>8, <1>9

LEMMA HandlePrepareSettles ==
  ASSUME TypeInv, NEW n \in Node, NEW m \in msgs, HandlePrepare(n, m),
         NEW Y \in SUBSET Txn, NEW N \in SUBSET Txn, Settled(Y, N)
  PROVE  VotesSettle'
<1> DEFINE s == node[n]
           t == m.txn
           u == [s EXCEPT !.cluster_leaders[CoordCluster(t)] = m.from]
           v == [u EXCEPT !.balance_locks = @ \cup {To[t]}]
<1>1. m.type = "PREPARE" /\ m.to = n /\ s.leads
  BY DEF HandlePrepare
<1>2. /\ m \in Message /\ MessageFits(m, Titles, Y, N)
      /\ s \in NodeState /\ Sound(s, n)
      /\ Fits(s, n, Titles, Y, N)
      /\ ClusterOf[n] \in Cluster /\ Y \cap N = {}
  BY <1>1, DeliveredFits DEF Settled
<1>3. t \in Txn /\ m.from \in Node
  BY <1>1, <1>2 DEF Message
<1>4. /\ m.from = FirstLeader[CoordCluster(t)]
      /\ n = FirstLeader[PartCluster(t)]
      /\ n = FirstLeader[ClusterOf[n]]
      /\ s.cluster_leaders = FirstLeader
  BY <1>1, <1>2 DEF MessageFits, Fits
<1>5. CoordCluster(t) \in Cluster /\ To[t] \in Account
  BY <1>3, ConstantsAssumption DEF CoordCluster
<1>6. \/ Finish(n, s, {m})
      \/ /\ t \notin s.pending_or_completed_ts /\ s.last_seqnum < MaxSeq
         /\ \/ Finish(n, Propose(u, n, t, "A"), {m})
            \/ Finish(n, Propose(v, n, t, "P"), {m})
  BY DEF HandlePrepare
<1> HIDE DEF t, s
<1>7. u = s
  <2>1. [s.cluster_leaders EXCEPT ![CoordCluster(t)] = m.from]
          = s.cluster_leaders
    BY <1>4, <1>5, ConstantsAssumption
  <2>. QED
    BY <1>2, <2>1 DEF NodeState
<1> HIDE DEF u
<1>8. /\ SameFacts(s, v) /\ v.last_seqnum = s.last_seqnum /\ Sound(v, n)
  <2>1. s.balance_locks \cup {To[t]} \in SUBSET Account
    BY <1>2, <1>5 DEF NodeState
  <2>2. Sound(v, n)
    BY <1>2, <1>7, <2>1, LockSound
  <2>3. SameFacts(s, v)
    BY <1>2, <1>7 DEF SameFacts, NodeState
  <2>. QED
    BY <2>2, <2>3 DEF SameFacts
<1> HIDE DEF v
<1>9. CASE Finish(n, s, {m})
  <2>1. Settled(Y, N)'
    BY <1>2, <1>9, FinishFits
  <2>. QED
    BY <2>1 DEF VotesSettle
<1>10. ASSUME t \notin s.pending_or_completed_ts PROVE t \notin Y \cup N
  BY <1>2, <1>4, <1>10 DEF Fits, VotesClaimed
<1>11. "P" \in Status /\ "A" \in Status
  BY DEF Status
<1>12. ASSUME t \notin s.pending_or_completed_ts, s.last_seqnum < MaxSeq,
              Finish(n, Propose(u, n, t, "A"), {m})
       PROVE  VotesSettle'
  <2>1. SoundBut(u, n, t) /\ Fits(u, n, Titles, Y, N)
    BY <1>2, <1>7, SoundIsSoundBut
  <2>2. Casts(n, t, "A", Y, N, Y, N \cup {t})
    BY <1>2, <1>4, <1>10, <1>12 DEF Casts, Agrees, YesWords, NoWords
  <2>3. Settled(Y, N \cup {t})'
    BY <1>3, <1>4, <1>7, <1>11, <1>12, <2>1, <2>2, FinishPropose
  <2>. QED
    BY <1>3, <2>3 DEF VotesSettle
<1>13. ASSUME t \notin s.pending_or_completed_ts, s.last_seqnum < MaxSeq,
              Finish(n, Propose(v, n, t, "P"), {m})
       PROVE  VotesSettle'
  <2>1. SoundBut(v, n, t) /\ Fits(v, n, Titles, Y, N)
    BY <1>2, <1>8, SoundIsSoundBut, SameFits
  <2>2. Casts(n, t, "P", Y, N, Y \cup {t}, N)
    BY <1>2, <1>4, <1>10, <1>13 DEF Casts, Agrees, YesWords, NoWords
  <2>3. Settled(Y \cup {t}, N)'
    BY <1>3, <1>4, <1>8, <1>11, <1>13, <2>1, <2>2, FinishPropose
  <2>. QED
    BY <1>3, <2>3 DEF VotesSettle
<1>. QED
  BY <1>6, <1>9, <1>12, <1>13

LEMMA HandleProposeSettles ==
  ASSUME TypeInv, NEW n \in Node, NEW m \in msgs, HandlePropose(n, m),
         NEW Y \in SUBSET Txn, NEW N \in SUBSET Txn, Settled(Y, N)
  PROVE  Settled(Y, N)'
<1> DEFINE s == node[n]
           log == [s.accept_log EXCEPT ![m.seq] =
                     IF @ = NoEntry THEN m.e ELSE @]
           blanks == IF m.e.status = "A" THEN s.blank_votes \cup {m.seq}
                     ELSE s.blank_votes \ {m.seq}
           u == [s EXCEPT !.counter = m.e.counter, !.accept_log = log,
                          !.blank_votes = blanks]
           a == [type |-> "Ack", from |-> n, to |-> m.from, seq |-> m.seq,
                 counter |-> m.e.counter, status |-> m.e.status]
<1>1. m.type = "Accept" /\ m.to = n
  BY DEF HandlePropose
<1>2. /\ m \in Message /\ MessageFits(m, Titles, Y, N)
      /\ s \in NodeState /\ Fits(s, n, Titles, Y, N)
      /\ s.accept_log \in [Seqnum -> Entry \cup {NoEntry}]
      /\ ClusterOf[n] \in Cluster
  BY <1>1, DeliveredFits, NodeFacts
<1>3. m.seq \in Seqnum /\ m.e \in Entry /\ m.from \in Node
  BY <1>1, <1>2 DEF Message
<1>4. m.e.counter \in Nat /\ m.e.status \in Status /\ m.e.txn \in Txn
  BY <1>3 DEF Entry
<1>5. /\ m.from = FirstLeader[ClusterOf[n]] /\ n # m.from
      /\ m.e.txn = Titles[ClusterOf[n]][m.seq] /\ m.e.p2 = ""
      /\ Agrees(m.e.txn, m.e.status, Y, N)
  BY <1>1, <1>2 DEF MessageFits
<1>6. ClusterOf[m.from] = ClusterOf[n]
  BY <1>2, <1>5, ConstantsAssumption
<1>7. \/ Finish(n, s, {m})
      \/ Finish(n, Send(u, {a}), {m})
  <2>1. Send([s EXCEPT !.counter = m.e.counter,
                       !.accept_log[m.seq] = IF @ = NoEntry THEN m.e ELSE @,
                       !.blank_votes =
                           IF m.e.status = "A" THEN @ \cup {m.seq}
                           ELSE @ \ {m.seq}],
             {a}) = Send(u, {a})
    BY <1>2 DEF NodeState
  <2>. QED
    BY <2>1 DEF HandlePropose
<1>8. a \in Message /\ MessagesFit({a}, Titles, Y, N)
  <2>1. /\ a.type = "Ack" /\ a.to = m.from /\ a.seq = m.seq
        /\ a.status = m.e.status
    OBVIOUS
  <2>2. a \in Message
    BY <1>3, <1>4 DEF Message
  <2> HIDE DEF a
  <2>3. MessageFits(a, Titles, Y, N)
    BY <1>4, <1>5, <1>6, <2>1 DEF MessageFits
  <2>. QED
    BY <2>2, <2>3 DEF MessagesFit
<1>9. /\ log \in [Seqnum -> Entry \cup {NoEntry}]
      /\ log[m.seq] = m.e \/ log[m.seq] = s.accept_log[m.seq]
      /\ \A x \in Seqnum \ {m.seq} : log[x] = s.accept_log[x]
  BY <1>2, <1>3
<1>15. blanks \in SUBSET Seqnum
  BY <1>2, <1>3 DEF NodeState
<1> HIDE DEF log, a, blanks
<1>10. LogFits(log, s.last_seqnum, n, Titles, Y, N)
  <2>1. LogFits(s.accept_log, s.last_seqnum, n, Titles, Y, N)
    BY <1>2 DEF Fits
  <2>2. Agrees(m.e.txn, m.e.p2, Y, N)
    BY <1>5 DEF Agrees, YesWords, NoWords
  <2>. QED
    BY <1>5, <1>9, <2>1, <2>2, ZenonT(60) DEF LogFits
<1>11. /\ u \in NodeState
       /\ u.leads = s.leads
       /\ u.cluster_leaders = s.cluster_leaders
       /\ u.accept_log = log
       /\ u.last_seqnum = s.last_seqnum
       /\ u.entries_to_commit = s.entries_to_commit
       /\ u.prepare_and_aborted_queue = s.prepare_and_aborted_queue
       /\ u.digest_to_seqnum = s.digest_to_seqnum
       /\ u.in_flight_prepares = s.in_flight_prepares
       /\ u.pending_or_completed_ts = s.pending_or_completed_ts
       /\ u.out = s.out
       /\ u.resolved = s.resolved
  BY <1>2, <1>4, <1>9, <1>15 DEF NodeState
<1> HIDE DEF u, s
<1>12. Fits(u, n, Titles, Y, N)
  BY <1>2, <1>10, <1>11 DEF Fits
<1>13. Fits(Send(u, {a}), n, Titles, Y, N)
  BY <1>8, <1>11, <1>12, SendFits
<1>14. Send(u, {a}) \in NodeState
  BY <1>8, <1>11 DEF Send, NodeState
<1>. QED
  BY <1>2, <1>7, <1>13, <1>14, FinishFits

LEMMA HandleAcceptSettles ==
  ASSUME TypeInv, NEW n \in Node, NEW m \in msgs, HandleAccept(n, m),
         NEW Y \in SUBSET Txn, NEW N \in SUBSET Txn, Settled(Y, N)
  PROVE  Settled(Y, N)'
<1> DEFINE s == node[n]
           vote == <<m.seq, m.counter, m.from>>
           u1 == [s EXCEPT !.accepted_count_two_pc_commit = @ \cup {vote}]
           u2 == [s EXCEPT !.accepted_count = @ \cup {vote}]
<1>1. m.type = "Ack" /\ m.to = n
  BY DEF HandleAccept
<1>2. /\ m \in Message /\ MessageFits(m, Titles, Y, N) /\ Backed(m)
      /\ s \in NodeState /\ Sound(s, n) /\ Fits(s, n, Titles, Y, N)
  BY <1>1, DeliveredFits DEF TypeInv
<1>3. /\ m.seq \in Seqnum /\ m.status \in Status /\ m.counter \in Nat
      /\ m.from \in Node
  BY <1>1, <1>2 DEF Message
<1>4. vote \in Seqnum \X Nat \X Node
  BY <1>3
<1>5. \E u \in {u1, u2} : \/ Finish(n, CommitEntry(u, n, m.seq, m.status), {m})
                          \/ Finish(n, u, {m})
  BY DEF HandleAccept
<1>6. /\ s.accept_log[m.seq] # NoEntry
      /\ Agrees(Titles[ClusterOf[n]][m.seq], m.status, Y, N)
  BY <1>1, <1>2 DEF Backed, MessageFits
<1> HIDE DEF vote
<1> HIDE DEF s
<1>7. ASSUME NEW u \in {u1, u2}
      PROVE  /\ u \in NodeState /\ Sound(u, n)
             /\ Fits(u, n, Titles, Y, N)
             /\ u.accept_log[m.seq] # NoEntry
  <2>1. u1 \in NodeState /\ u2 \in NodeState
    BY <1>2, <1>4, ZenonT(60) DEF NodeState
  <2>2. SameFacts(s, u1) /\ SameFacts(s, u2)
    BY <1>2 DEF NodeState, SameFacts
  <2> HIDE DEF u1, u2
  <2>3. u \in NodeState /\ SameFacts(s, u)
    BY <1>7, <2>1, <2>2
  <2>4. Kept(s, u)
    BY <2>3 DEF SameFacts, Kept
  <2>5. Sound(u, n)
    BY <1>2, <2>3, <2>4, SameAnchors DEF SameFacts
  <2>. QED
    BY <1>2, <1>6, <2>3, <2>5, SameFits DEF SameFacts
<1> HIDE DEF u1, u2
<1>8. PICK u \in {u1, u2} :
          \/ Finish(n, CommitEntry(u, n, m.seq, m.status), {m})
          \/ Finish(n, u, {m})
  BY <1>5
<1>9. /\ CommitEntry(u, n, m.seq, m.status) \in NodeState
      /\ Fits(CommitEntry(u, n, m.seq, m.status), n, Titles, Y, N)
  BY <1>3, <1>6, <1>7, CommitEntrySound, CommitEntryFits DEF Sound
<1>. QED
  BY <1>7, <1>8, <1>9, FinishFits

LEMMA HandleCommitSettles ==
  ASSUME TypeInv, NEW n \in Node, NEW m \in msgs, HandleCommit(n, m),
         NEW Y \in SUBSET Txn, NEW N \in SUBSET Txn, Settled(Y, N)
  PROVE  Settled(Y, N)'
<1> DEFINE s == node[n]
           u == RecordCommit(s, m.seq, m.c)
<1>1. m.type = "Commit" /\ m.to = n
  BY DEF HandleCommit
<1>2. /\ m \in Message /\ MessageFits(m, Titles, Y, N)
      /\ s \in NodeState /\ Sound(s, n) /\ Fits(s, n, Titles, Y, N)
  BY <1>1, DeliveredFits
<1>3. m.seq \in Seqnum /\ m.c \in CommitRecord
  BY <1>1, <1>2 DEF Message
<1>4. m.c.txn \in Txn
  BY <1>3 DEF CommitRecord
<1>5. /\ m.c.txn = Titles[ClusterOf[n]][m.seq]
      /\ Agrees(m.c.txn, m.c.status, Y, N)
  BY <1>1, <1>2 DEF MessageFits
<1>6. \/ \E v \in {u, Exited(u), SequentiallyExecuteCommittedEntries(u, n)} :
           Finish(n, v, {m})
      \/ /\ m.c.status \in SecondPhase
         /\ Finish(n, ExecuteRepeatedTwoPCEntry(u, n, m.seq, m.c.txn,
                                                m.c.status), {m})
  BY DEF HandleCommit
<1>7. Sound(u, n) /\ u \in NodeState /\ Fits(u, n, Titles, Y, N)
  BY <1>2, <1>3, <1>5, RecordCommitSound, RecordCommitFits DEF Sound
<1> HIDE DEF u
<1>8. \A v \in {u, Exited(u), SequentiallyExecuteCommittedEntries(u, n)} :
        v \in NodeState /\ Fits(v, n, Titles, Y, N)
  BY <1>7, LoopSound, ExitedSound, LoopFits, ExitedFits DEF Sound
<1>9. m.c.status \in SecondPhase =>
        LET v == ExecuteRepeatedTwoPCEntry(u, n, m.seq, m.c.txn, m.c.status)
        IN v \in NodeState /\ Fits(v, n, Titles, Y, N)
  BY <1>3, <1>4, <1>5, <1>7, ResolveSound, ResolveFits DEF Sound
<1>. QED
  BY <1>6, <1>8, <1>9, FinishFits

LEMMA HandleVoteSettles ==
  ASSUME TypeInv, NEW n \in Node, NEW m \in msgs,
         HandlePreparedAndAborted(n, m),
         NEW Y \in SUBSET Txn, NEW N \in SUBSET Txn, Settled(Y, N)
  PROVE  Settled(Y, N)'
<1> DEFINE s == node[n]
           t == m.txn
           queue == [s.prepare_and_aborted_queue EXCEPT ![t] = m.what]
           u == [s EXCEPT !.prepare_and_aborted_queue = queue]
<1>1. m.type = "TwoPC" /\ m.to = n /\ m.what \in Vote
  BY DEF HandlePreparedAndAborted, Vote
<1>2. /\ m \in Message /\ MessageFits(m, Titles, Y, N)
      /\ s \in NodeState /\ Sound(s, n) /\ Fits(s, n, Titles, Y, N)
      /\ ClusterOf[n] \in Cluster
      /\ s.prepare_and_aborted_queue \in [Txn -> Vote \cup {""}]
  BY <1>1, DeliveredFits, ZenonT(60) DEF NodeState
<1>3. t \in Txn
  BY <1>1, <1>2 DEF Message
<1>4. n = FirstLeader[ClusterOf[n]] /\ Agrees(t, m.what, Y, N)
  BY <1>1, <1>2 DEF MessageFits
<1>5. Finish(n, u, {m}) \/ Finish(n, StartSecondPhase(s, n, t, m.what), {m})
  <2>1. [s EXCEPT !.prepare_and_aborted_queue[t] = m.what] = u
    BY <1>2 DEF NodeState
  <2>. QED
    BY <2>1 DEF HandlePreparedAndAborted
<1>6. queue \in [Txn -> Vote \cup {""}] /\ ParkedFit(queue, Y, N)
  BY <1>1, <1>2, <1>3, <1>4 DEF Fits, ParkedFit
<1> HIDE DEF queue
<1>7. /\ u \in NodeState
      /\ u.leads = s.leads
      /\ u.cluster_leaders = s.cluster_leaders
      /\ u.accept_log = s.accept_log
      /\ u.last_seqnum = s.last_seqnum
      /\ u.entries_to_commit = s.entries_to_commit
      /\ u.prepare_and_aborted_queue = queue
      /\ u.digest_to_seqnum = s.digest_to_seqnum
      /\ u.in_flight_prepares = s.in_flight_prepares
      /\ u.pending_or_completed_ts = s.pending_or_completed_ts
      /\ u.out = s.out
      /\ u.resolved = s.resolved
  BY <1>2, <1>6 DEF NodeState
<1> HIDE DEF u, s
<1>8. Fits(u, n, Titles, Y, N)
  BY <1>2, <1>6, <1>7 DEF Fits
<1>9. /\ StartSecondPhase(s, n, t, m.what) \in NodeState
      /\ Fits(StartSecondPhase(s, n, t, m.what), n, Titles, Y, N)
  BY <1>1, <1>2, <1>3, <1>4, StartSecondPhaseSound, StartSecondPhaseFits
  DEF Sound
<1>. QED
  BY <1>5, <1>7, <1>8, <1>9, FinishFits

LEMMA HandleConfirmationSettles ==
  ASSUME TypeInv, NEW n \in Node, NEW m \in msgs,
         HandleCommittedAndAborted(n, m),
         NEW Y \in SUBSET Txn, NEW N \in SUBSET Txn, Settled(Y, N)
  PROVE  Settled(Y, N)'
<1> DEFINE s == node[n]
           u == [s EXCEPT !.in_flight_transactions = @ \ {m.txn}]
<1>1. /\ s \in NodeState /\ Finish(n, u, {m}) /\ Fits(s, n, Titles, Y, N)
  BY NodeFacts DEF HandleCommittedAndAborted, Settled
<1>2. u \in NodeState /\ SameFacts(s, u)
  BY <1>1 DEF NodeState, SameFacts
<1> HIDE DEF u, s
<1>. QED
  BY <1>1, <1>2, SameFits, FinishFits

\* Only the record of the PREPAREs changes.
LEMMA OtherPrepares ==
  ASSUME NEW n, NEW T, NEW Y, NEW N, NEW s \in NodeState,
         Fits(s, n, T, Y, N), NEW prepares, PreparesFit(prepares, n)
  PROVE  Fits([s EXCEPT !.in_flight_prepares = prepares], n, T, Y, N)
<1> DEFINE u == [s EXCEPT !.in_flight_prepares = prepares]
<1>1. /\ u.leads = s.leads
      /\ u.cluster_leaders = s.cluster_leaders
      /\ u.accept_log = s.accept_log
      /\ u.last_seqnum = s.last_seqnum
      /\ u.entries_to_commit = s.entries_to_commit
      /\ u.prepare_and_aborted_queue = s.prepare_and_aborted_queue
      /\ u.digest_to_seqnum = s.digest_to_seqnum
      /\ u.in_flight_prepares = prepares
      /\ u.pending_or_completed_ts = s.pending_or_completed_ts
      /\ u.out = s.out
      /\ u.resolved = s.resolved
  BY DEF NodeState
<1> HIDE DEF u
<1>2. Fits(u, n, T, Y, N)
  BY <1>1 DEF Fits
<1>. QED
  BY <1>2 DEF u

LEMMA RetryPrepareSettles ==
  ASSUME TypeInv, NEW n \in Node, NEW t \in Txn, RetryPrepare(n, t),
         NEW Y \in SUBSET Txn, NEW N \in SUBSET Txn, Settled(Y, N)
  PROVE  Settled(Y, N)'
<1> DEFINE s == node[n]
           prepares == [s.in_flight_prepares EXCEPT ![t].retries = 1]
           u == [s EXCEPT !.in_flight_prepares = prepares]
           x == PrepareMsg(n, s.cluster_leaders[PartCluster(t)], t, 1)
<1>1. /\ s \in NodeState /\ PartCluster(t) \in Cluster
      /\ s.in_flight_prepares \in [Txn -> [sent : BOOLEAN,
                                    completed : BOOLEAN, retries : {0, 1}]]
      /\ Fits(s, n, Titles, Y, N) /\ s.in_flight_prepares[t].sent
  BY NodeFacts, ConstantsAssumption
  DEF PartCluster, NodeState, Settled, RetryPrepare, Overdue
<1>2. /\ n = FirstLeader[CoordCluster(t)] /\ s.cluster_leaders = FirstLeader
      /\ PreparesFit(s.in_flight_prepares, n)
  BY <1>1 DEF Fits, PreparesFit
<1>3. Finish(n, Send(u, {x}), {})
  <2>1. [s EXCEPT !.in_flight_prepares[t].retries = 1] = u
    BY <1>1 DEF NodeState
  <2>. QED
    BY <2>1 DEF RetryPrepare
<1>4. /\ prepares \in [Txn -> [sent : BOOLEAN, completed : BOOLEAN,
                               retries : {0, 1}]]
      /\ \A y \in Txn : prepares[y].sent = s.in_flight_prepares[y].sent
  BY <1>1
<1>5. x \in Message /\ MessagesFit({x}, Titles, Y, N)
  <2>1. /\ x.type = "PREPARE" /\ x.from = n /\ x.txn = t
        /\ x.to = FirstLeader[PartCluster(t)]
    BY <1>2 DEF PrepareMsg
  <2>2. x \in Message
    BY <1>1, <1>2, ConstantsAssumption DEF PrepareMsg, Message
  <2> HIDE DEF x
  <2>3. MessageFits(x, Titles, Y, N)
    BY <1>2, <2>1 DEF MessageFits
  <2>. QED
    BY <2>2, <2>3 DEF MessagesFit
<1> HIDE DEF prepares, x
<1>6. PreparesFit(prepares, n)
  BY <1>2, <1>4 DEF PreparesFit
<1>7. u \in NodeState
  BY <1>1, <1>4 DEF NodeState
<1>8. Fits(u, n, Titles, Y, N)
  BY <1>1, <1>6, OtherPrepares
<1> HIDE DEF u
<1>9. Fits(Send(u, {x}), n, Titles, Y, N)
  BY <1>5, <1>7, <1>8, SendFits
<1>10. Send(u, {x}) \in NodeState
  BY <1>5, <1>7 DEF Send, NodeState
<1>. QED
  BY <1>3, <1>9, <1>10, FinishFits

LEMMA HandleMoveOnSettles ==
  ASSUME TypeInv, NEW n \in Node, HandleMoveOn(n),
         NEW Y \in SUBSET Txn, NEW N \in SUBSET Txn, Settled(Y, N)
  PROVE  Settled(Y, N)'
<1> DEFINE s == node[n]
           intra == {t \in Txn :
                       /\ IntraShard(t)
                       /\ s.digest_to_seqnum[t] \in s.pending_client_calls}
           locks == UNION {{From[t], To[t]} : t \in intra}
           prepares == [t \in Txn |-> [s.in_flight_prepares[t] EXCEPT
                                         !.sent = FALSE, !.completed = FALSE]]
           p == [s EXCEPT !.in_flight_prepares = prepares]
           v == NotInFlight(s)
           u == [v EXCEPT !.pending_client_calls = {},
                          !.balance_locks = @ \ locks]
<1>1. /\ Sound(s, n) /\ Finish(n, u, {}) /\ s \in NodeState
      /\ Fits(s, n, Titles, Y, N)
      /\ s.in_flight_prepares \in [Txn -> [sent : BOOLEAN,
                                    completed : BOOLEAN, retries : {0, 1}]]
  BY NodeFacts DEF HandleMoveOn, Settled, NodeState
<1>2. \A y \in Txn : ~ prepares[y].sent
  BY <1>1
<1>3. /\ v = [s EXCEPT !.in_flight_prepares = prepares,
                       !.in_flight_transactions = {}]
  BY <1>1 DEF NotInFlight, NodeState
<1> HIDE DEF prepares, locks
<1>4. Fits(p, n, Titles, Y, N)
  BY <1>1, <1>2, OtherPrepares DEF PreparesFit
<1>5. v \in NodeState
  BY <1>1, NotInFlightSound DEF Sound
<1>6. SameFacts(p, v)
  BY <1>1, <1>3 DEF NodeState, SameFacts
<1> HIDE DEF v, p
<1>7. u \in NodeState /\ SameFacts(v, u)
  BY <1>5 DEF NodeState, SameFacts
<1> HIDE DEF u, s
<1>8. Fits(u, n, Titles, Y, N)
  BY <1>4, <1>6, <1>7, SameFits
<1>. QED
  BY <1>1, <1>7, <1>8, FinishFits

-----------------------------------------------------------------------------
\* The invariant.

LEMMA SettledInit == Init => VotesSettle
<1> SUFFICES ASSUME Init PROVE Settled({}, {})
  BY DEF VotesSettle
<1>1. \A t, w : Agrees(t, w, {}, {}) <=> w \notin YesWords \cup NoWords
  BY DEF Agrees
<1>2. "" \notin YesWords \cup NoWords
  BY DEF YesWords, NoWords
<1>3. \A t : Agrees(t, "", {}, {})
  BY <1>1, <1>2
<1>4. NoEntry.txn = None /\ NoEntry.p2 = "" /\ NoEntry.status = ""
  BY DEF NoEntry
<1>5. \A c \in Cluster, seq \in Seqnum : Titles[c][seq] = None
  <2>1. \A c \in Cluster : node[FirstLeader[c]].accept_log
                             = [seq \in Seqnum |-> NoEntry]
    BY ConstantsAssumption DEF Init, InitialNode
  <2>. QED
    BY <1>4, <2>1 DEF Titles
<1>6. ASSUME NEW n \in Node PROVE Fits(node[n], n, Titles, {}, {})
  <2>1. /\ node[n].leads => n = FirstLeader[ClusterOf[n]]
        /\ node[n].cluster_leaders = FirstLeader
        /\ \A seq \in Seqnum : node[n].accept_log[seq] = NoEntry
        /\ \A seq \in Seqnum : node[n].entries_to_commit[seq] = NoCommit
        /\ \A t \in Txn : node[n].prepare_and_aborted_queue[t] = ""
        /\ \A t \in Txn : node[n].digest_to_seqnum[t] = 0
        /\ \A t \in Txn : ~ node[n].in_flight_prepares[t].sent
        /\ node[n].out = {} /\ node[n].resolved = {}
    BY DEF Init, InitialNode
  <2>2. ClusterOf[n] \in Cluster
    BY ConstantsAssumption
  <2>3. LogFits(node[n].accept_log, node[n].last_seqnum, n, Titles, {}, {})
    BY <1>3, <1>4, <1>5, <2>1, <2>2 DEF LogFits
  <2>4. CommitsFit(node[n].entries_to_commit, n, Titles, {}, {})
    BY <2>1 DEF CommitsFit
  <2>5. /\ ParkedFit(node[n].prepare_and_aborted_queue, {}, {})
        /\ DigestFits(node[n].digest_to_seqnum, n, Titles)
        /\ PreparesFit(node[n].in_flight_prepares, n)
        /\ VotesClaimed(node[n].pending_or_completed_ts, n, {}, {})
    BY <1>3, <2>1 DEF ParkedFit, DigestFits, PreparesFit, VotesClaimed
  <2>6. /\ MessagesFit(node[n].out, Titles, {}, {})
        /\ OutcomesAgree(node[n].resolved, {}, {})
    BY <2>1 DEF MessagesFit, OutcomesAgree
  <2>. QED
    BY <2>1, <2>3, <2>4, <2>5, <2>6 DEF Fits
<1>. QED
  BY <1>6 DEF Settled, Init, MessagesFit, OutcomesAgree

LEMMA SettledStep ==
  ASSUME sharding_map = shard_map, TypeInv, VotesSettle, [TimelyNext]_vars
  PROVE  VotesSettle'
<1>1. PICK Y \in SUBSET Txn, N \in SUBSET Txn : Settled(Y, N)
  BY DEF VotesSettle
<1>2. Settled(Y, N)' => VotesSettle'
  BY DEF VotesSettle
<1>3. CASE UNCHANGED vars
  <2>1. Settled(Y, N)'
    BY <1>1, <1>3 DEF vars, Settled, Titles
  <2>. QED
    BY <1>2, <2>1
<1>4. ASSUME NEW n \in Node, NEW t \in Txn, ProcessClientRequest(n, t)
      PROVE  VotesSettle'
  BY <1>1, <1>2, <1>4, ProcessClientRequestSettles
<1>5. ASSUME NEW n \in Node, NEW t \in Txn, RetryPrepare(n, t)
      PROVE  VotesSettle'
  BY <1>1, <1>2, <1>5, RetryPrepareSettles
<1>6. CASE Deliver
  <2>1. PICK m \in msgs : \/ HandlePrepare(m.to, m)
                          \/ HandlePropose(m.to, m)
                          \/ HandleAccept(m.to, m)
                          \/ HandleCommit(m.to, m)
                          \/ HandlePreparedAndAborted(m.to, m)
                          \/ HandleCommittedAndAborted(m.to, m)
    BY <1>6 DEF Deliver
  <2>2. m.to \in Node
    BY ReceiverIsNode
  <2>3. CASE HandlePrepare(m.to, m)
    BY <1>1, <2>2, <2>3, HandlePrepareSettles
  <2>4. CASE HandlePropose(m.to, m)
    BY <1>1, <1>2, <2>2, <2>4, HandleProposeSettles
  <2>5. CASE HandleAccept(m.to, m)
    BY <1>1, <1>2, <2>2, <2>5, HandleAcceptSettles
  <2>6. CASE HandleCommit(m.to, m)
    BY <1>1, <1>2, <2>2, <2>6, HandleCommitSettles
  <2>7. CASE HandlePreparedAndAborted(m.to, m)
    BY <1>1, <1>2, <2>2, <2>7, HandleVoteSettles
  <2>8. CASE HandleCommittedAndAborted(m.to, m)
    BY <1>1, <1>2, <2>2, <2>8, HandleConfirmationSettles
  <2>. QED
    BY <2>1, <2>3, <2>4, <2>5, <2>6, <2>7, <2>8
<1>7. ASSUME NEW n \in Node, HandleMoveOn(n) PROVE VotesSettle'
  BY <1>1, <1>2, <1>7, HandleMoveOnSettles
<1>. QED
  BY <1>3, <1>4, <1>5, <1>6, <1>7 DEF TimelyNext

LEMMA SettledIsAtomic ==
  ASSUME VotesSettle
  PROVE  Atomicity
<1>1. PICK Y \in SUBSET Txn, N \in SUBSET Txn : Settled(Y, N)
  BY DEF VotesSettle
<1>2. ASSUME NEW t \in Txn PROVE ~ (Committed(t) /\ Undone(t))
  <2>1. Committed(t) => t \in Y
    BY <1>1 DEF Settled, OutcomesAgree, Agrees, Committed, YesWords
  <2>2. Undone(t) => t \in N
    BY <1>1 DEF Settled, OutcomesAgree, Agrees, Undone, NoWords
  <2>. QED
    BY <1>1, <2>1, <2>2 DEF Settled
<1>. QED
  BY <1>2 DEF Atomicity

\* While the leaders stay up and no coordinator gives up, no cross-shard
\* transfer is committed by one node and undone by another, whatever is
\* delayed, reordered, sent twice or abandoned by the user, for any number of
\* clusters, nodes, accounts and transfers.  The map of the client is that of
\* the nodes, as it is until the user reshards.
THEOREM TransfersAreAtomic ==
  ASSUME sharding_map = shard_map
  PROVE  TimelySpec => []Atomicity
<1>1. Init => TypeInv /\ VotesSettle
  BY TypeInvInit, SettledInit
<1>2. TypeInv /\ VotesSettle /\ [TimelyNext]_vars => TypeInv' /\ VotesSettle'
  <2> SUFFICES ASSUME TypeInv, VotesSettle, [TimelyNext]_vars
               PROVE  TypeInv' /\ VotesSettle'
    OBVIOUS
  <2>1. [Next]_vars
    BY DEF Next
  <2>. QED
    BY <2>1, TypeInvStep, SettledStep
<1>3. VotesSettle => Atomicity
  BY SettledIsAtomic
<1>. QED
  BY <1>1, <1>2, <1>3, PTL DEF TimelySpec
=============================================================================
