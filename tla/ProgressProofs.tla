--------------------------- MODULE ProgressProofs ---------------------------
(***************************************************************************)
(* While leaders stay up and no coordinator gives up, nothing gets stuck:  *)
(* whenever no message is in flight every transfer that was admitted is    *)
(* answered, every decision has been confirmed, and no leader holds a      *)
(* lock.  The invariant says of every entry which message, which vote in a *)
(* table or which parked vote will move it on.                             *)
(***************************************************************************)
EXTENDS TwoPhaseCommitProofs

Leads(n) == n = FirstLeader[ClusterOf[n]]
Coord(t) == FirstLeader[CoordCluster(t)]
Part(t)  == FirstLeader[PartCluster(t)]

\* A quorum takes an acknowledgement, and there are enough nodes for one.
Quorums == /\ F >= 1
           /\ \A c \in Cluster : Cardinality(Members(c)) >= F + 1

FirstPhase == {"", "COORD", "P", "A"}

\* The statuses that entries about t have in cluster c.
Suits(t, c, status) ==
  \/ /\ IntraShard(t) /\ c = CoordCluster(t)
     /\ status = ""
  \/ /\ ~ IntraShard(t) /\ c = CoordCluster(t)
     /\ status \in {"COORD", "C_COORD", "A_COORD"}
  \/ /\ ~ IntraShard(t) /\ c = PartCluster(t)
     /\ status \in {"P", "A", "C", "A_PART_COMMIT"}

\* The votes of a table for a sequence number, and whether they are enough.
Votes(count, seq) == {v \in count : v[1] = seq /\ v[2] = 1}
Quorate(count, seq) == Cardinality(Votes(count, seq)) > F

\* How far node n, in state s, is with transfer t: its first phase is executed,
\* its second phase is proposed, its second phase is executed.
Ran(s, t) == s.digest_to_seqnum[t] \in 1 .. s.last_executed_seq
Begun(s, n, t) ==
  /\ s.digest_to_seqnum[t] # 0
  /\ <<s.digest_to_seqnum[t], 1, n>> \in s.accepted_count_two_pc_commit
Ended(s, t) ==
  /\ s.digest_to_seqnum[t] # 0
  /\ Quorate(s.accepted_count_two_pc_commit, s.digest_to_seqnum[t])

\* Nothing changes the views, and only the two leaders deal with a transfer.
Own(s, n) ==
  /\ s.counter = 1 /\ s.max_seqnum_in_new_view = 0
  /\ s.cluster_leaders = FirstLeader
  /\ s.leads <=> Leads(n)
  /\ \A t \in Txn :
       /\ t \in s.pending_or_completed_ts => n \in {Coord(t), Part(t)}
       /\ s.prepare_and_aborted_queue[t] # "" => n = Coord(t) /\ ~ IntraShard(t)
       /\ t \in s.in_flight_transactions => n = Coord(t) /\ ~ IntraShard(t)
       /\ s.in_flight_prepares[t].sent => n = Coord(t) /\ ~ IntraShard(t)

\* The log of a leader has one entry for each transfer it has claimed,
Claimed(s, t) ==
  /\ t \in s.pending_or_completed_ts <=> s.digest_to_seqnum[t] # 0
  /\ s.digest_to_seqnum[t] <= s.last_seqnum
  /\ s.digest_to_seqnum[t] # 0 => s.accept_log[s.digest_to_seqnum[t]].txn = t

\* and the entries are committed with the status of their first phase.
Filed(s, n, seq) ==
  /\ seq <= s.last_seqnum =>
       /\ s.accept_log[seq] \in Entry
       /\ s.accept_log[seq].counter = 1
       /\ s.digest_to_seqnum[s.accept_log[seq].txn] = seq
  /\ seq > s.last_executed_seq => s.accept_log[seq].p2 = ""
  /\ seq <= s.last_executed_seq => s.entries_to_commit[seq] # NoCommit
  /\ s.entries_to_commit[seq] # NoCommit =>
       /\ seq <= s.last_seqnum
       /\ s.entries_to_commit[seq].txn = s.accept_log[seq].txn
       /\ s.entries_to_commit[seq].status \in FirstPhase
       /\ Suits(s.accept_log[seq].txn, ClusterOf[n],
                s.entries_to_commit[seq].status)
  /\ <<seq, 1, n>> \in s.accepted_count_two_pc_commit =>
       seq <= s.last_executed_seq
  /\ seq \in s.blank_votes =>
       seq <= s.last_seqnum /\ Suits(s.accept_log[seq].txn, ClusterOf[n], "A")

Orderly(s, n) == /\ s.last_executed_seq <= s.last_seqnum
                 /\ \A t \in Txn : Claimed(s, t)
                 /\ \A seq \in Seqnum : Filed(s, n, seq)

\* A proposal of leader n on its way to node q, or q's answer on its way back.
Chases(m, n, q, seq, phase) ==
  \/ /\ m.type = "Accept" /\ m.from = n /\ m.to = q /\ m.seq = seq
     /\ m.e.status \in phase
  \/ /\ m.type = "Ack" /\ m.from = q /\ m.to = n /\ m.seq = seq
     /\ m.status \in phase
Chasing(ms, n, q, seq, phase) == \E m \in ms : Chases(m, n, q, seq, phase)

\* Every node of the cluster has voted or is going to.
Polled(count, ms, n, seq, phase) ==
  /\ <<seq, 1, n>> \in count
  /\ \A q \in Peers(n) : \/ <<seq, 1, q>> \in count
                         \/ Chasing(ms, n, q, seq, phase)

\* The votes of a leader's two tables, which are counted as they come in.
Rounds(s, n, ms) ==
  \A seq \in Seqnum :
    /\ seq <= s.last_seqnum =>
         Polled(s.accepted_count, ms, n, seq, FirstPhase)
    /\ seq > s.last_seqnum => Votes(s.accepted_count, seq) = {}
    /\ s.entries_to_commit[seq] = NoCommit => ~ Quorate(s.accepted_count, seq)
    /\ <<seq, 1, n>> \in s.accepted_count_two_pc_commit =>
         Polled(s.accepted_count_two_pc_commit, ms, n, seq, SecondPhase)
    /\ <<seq, 1, n>> \notin s.accepted_count_two_pc_commit =>
         Votes(s.accepted_count_two_pc_commit, seq) = {}

\* Transfer t will unlock account a at leader n.
Holds(s, n, t, a) ==
  /\ s.digest_to_seqnum[t] # 0
  /\ \/ IntraShard(t) /\ a \in {From[t], To[t]} /\ ~ Ran(s, t)
     \/ /\ ~ IntraShard(t) /\ ~ Ended(s, t)
        /\ a = IF n = Coord(t) THEN From[t] ELSE To[t]

LocksHeld(s, n) ==
  s.alive => \A a \in s.balance_locks : \E t \in Txn : Holds(s, n, t, a)

\* A proposal of leader n, in state s, or the answer to it.
InRound(s, n, seq, counter, status) ==
  /\ Leads(n) /\ counter = 1 /\ seq <= s.last_seqnum
  /\ Suits(s.accept_log[seq].txn, ClusterOf[n], status)
  /\ status \in SecondPhase =>
       <<seq, 1, n>> \in s.accepted_count_two_pc_commit

\* Messages between the nodes in the states of nd.
Shaped(m, nd) ==
  /\ m.type = "Accept" =>
       /\ m.to \in Peers(m.from)
       /\ InRound(nd[m.from], m.from, m.seq, m.e.counter, m.e.status)
  /\ m.type = "Ack" => InRound(nd[m.to], m.to, m.seq, m.counter, m.status)
  /\ m.type = "Commit" => ~ Leads(m.to)
  /\ m.type = "PREPARE" => /\ ~ IntraShard(m.txn)
                           /\ m.from = Coord(m.txn) /\ m.to = Part(m.txn)
  /\ m.type = "TwoPC" =>
       /\ ~ IntraShard(m.txn)
       /\ m.what \in Vote => m.to \in {Coord(m.txn), Part(m.txn)}
       /\ m.what \in Confirmation => m.to = Coord(m.txn)

\* What is on its way about transfer t.
PrepareSent(ms, t) == \E m \in ms : m.type = "PREPARE" /\ m.txn = t
Brings(m, n, t, whats) ==
  m.type = "TwoPC" /\ m.to = n /\ m.txn = t /\ m.what \in whats
VoteSent(ms, t) == \E m \in ms : Brings(m, Coord(t), t, Vote)
DecisionSent(ms, t) == \E m \in ms : Brings(m, Part(t), t, Vote)
ConfirmationSent(ms, t) == \E m \in ms : Brings(m, Coord(t), t, Confirmation)
OneVote(ms, t) ==
  \A m1, m2 \in ms :
    Brings(m1, Coord(t), t, Vote) /\ Brings(m2, Coord(t), t, Vote) => m1 = m2

Parked(s, t) == s.prepare_and_aborted_queue[t] # ""
Replied(rep, t) == \E r \in rep : r.txn = t

\* The course of a transfer between clusters whose leaders are in states C and
\* P: claimed by C, claimed by P, executed by P, decided by C, decided by P.
\* Between two of these a message is on its way, or the vote is parked.
CrossStage(t, C, P, ms, rep) ==
  /\ PrepareSent(ms, t) => t \in C.pending_or_completed_ts
  /\ t \in P.pending_or_completed_ts => t \in C.pending_or_completed_ts
  /\ t \in C.pending_or_completed_ts =>
       PrepareSent(ms, t) \/ t \in P.pending_or_completed_ts
  /\ VoteSent(ms, t) \/ Parked(C, t) => Ran(P, t) /\ ~ Begun(C, Coord(t), t)
  /\ ~ (VoteSent(ms, t) /\ Parked(C, t))
  /\ OneVote(ms, t)
  /\ Ran(P, t) => \/ Begun(C, Coord(t), t)
                  \/ VoteSent(ms, t)
                  \/ Parked(C, t)
  /\ Parked(C, t) => ~ Ran(C, t)
  /\ Begun(C, Coord(t), t) =>
       /\ Ran(P, t)
       /\ DecisionSent(ms, t) \/ Begun(P, Part(t), t)
       /\ C.in_flight_prepares[t].sent => C.in_flight_prepares[t].completed
  /\ DecisionSent(ms, t) \/ Begun(P, Part(t), t) => Begun(C, Coord(t), t)
  /\ t \in C.in_flight_transactions => Begun(C, Coord(t), t)
  /\ Ended(C, t) => Replied(rep, t)
  /\ Ended(P, t) /\ t \in C.in_flight_transactions =>
       P.exited \/ ConfirmationSent(ms, t)

Stage(t, nd, ms, rep) ==
  /\ IntraShard(t) => (Ran(nd[Coord(t)], t) => Replied(rep, t))
  /\ ~ IntraShard(t) => CrossStage(t, nd[Coord(t)], nd[Part(t)], ms, rep)

\* nd, ms and rep stand for node, msgs and replies, and while a handler runs
\* for these with what it has done so far.
View(nd, ms, rep) ==
  /\ \A n \in Node : Own(nd[n], n)
  /\ \A n \in Node : Leads(n) => /\ Orderly(nd[n], n)
                                 /\ Rounds(nd[n], n, ms)
                                 /\ LocksHeld(nd[n], n)
  /\ \A m \in ms : Shaped(m, nd)
  /\ \A t \in Txn : Stage(t, nd, ms, rep)

\* No committed entry waits for the execution loop.
CaughtUp(s) == s.last_executed_seq + 1 \in Seqnum =>
                 s.entries_to_commit[s.last_executed_seq + 1] = NoCommit

ProgressInv == /\ View(node, msgs, replies)
               /\ \A n \in Node : Leads(n) => CaughtUp(node[n])

-----------------------------------------------------------------------------
\* Counting votes.

Tables == SUBSET (Seqnum \X Nat \X Node)

LEMMA VotesFinite ==
  ASSUME NEW count \in Tables, NEW seq
  PROVE  /\ IsFiniteSet(Votes(count, seq))
         /\ Cardinality(Votes(count, seq)) \in Nat
<1> DEFINE voter == [v \in Votes(count, seq) |-> v[3]]
<1>1. \A v \in Votes(count, seq) : v[3] \in Node /\ v = <<seq, 1, v[3]>>
  BY DEF Votes, Tables
<1>2. voter \in Injection(Votes(count, seq), Node)
  BY <1>1 DEF Injection, IsInjective
<1>. QED
  BY <1>2, FS_Injection, FS_CardinalityType, ConstantsAssumption

LEMMA VoteAdded ==
  ASSUME NEW count \in Tables, NEW seq \in Seqnum, NEW q \in Node
  PROVE  LET more == count \cup {<<seq, 1, q>>}
         IN /\ more \in Tables
            /\ Votes(more, seq) = Votes(count, seq) \cup {<<seq, 1, q>>}
            /\ \A x \in Seqnum \ {seq} : Votes(more, x) = Votes(count, x)
            /\ Cardinality(Votes(more, seq)) <= Cardinality(Votes(count, seq)) + 1
<1> DEFINE more == count \cup {<<seq, 1, q>>}
<1>1. more \in Tables
  BY DEF Tables
<1>2. Votes(more, seq) = Votes(count, seq) \cup {<<seq, 1, q>>}
  BY DEF Votes
<1>3. \A x \in Seqnum \ {seq} : Votes(more, x) = Votes(count, x)
  BY DEF Votes
<1>4. Cardinality(Votes(more, seq)) <= Cardinality(Votes(count, seq)) + 1
  <2>1. IsFiniteSet(Votes(count, seq)) /\ Cardinality(Votes(count, seq)) \in Nat
    BY VotesFinite
  <2>2. CASE <<seq, 1, q>> \in Votes(count, seq)
    <3>1. Votes(more, seq) = Votes(count, seq)
      BY <1>2, <2>2
    <3>. QED
      BY <2>1, <3>1
  <2>3. CASE <<seq, 1, q>> \notin Votes(count, seq)
    <3>1. Cardinality(Votes(count, seq) \cup {<<seq, 1, q>>})
            = Cardinality(Votes(count, seq)) + 1
      BY <2>1, <2>3, FS_AddElement
    <3>. QED
      <4>1. Cardinality(Votes(more, seq)) = Cardinality(Votes(count, seq)) + 1
        BY <1>2, <3>1, Zenon
      <4>. QED
        BY <2>1, <4>1
  <2>. QED
    BY <2>2, <2>3
<1>. QED
  BY <1>1, <1>2, <1>3, <1>4

\* A vote that does not make the number exactly F + 1 does not make a quorum.
LEMMA NoQuorumYet ==
  ASSUME NEW count \in Tables, NEW seq \in Seqnum, NEW q \in Node,
         ~ Quorate(count, seq),
         Cardinality(Votes(count \cup {<<seq, 1, q>>}, seq)) # F + 1
  PROVE  ~ Quorate(count \cup {<<seq, 1, q>>}, seq)
<1> DEFINE more == count \cup {<<seq, 1, q>>}
<1>1. /\ Cardinality(Votes(more, seq)) <= Cardinality(Votes(count, seq)) + 1
      /\ more \in Tables
  BY VoteAdded
<1>2. /\ Cardinality(Votes(more, seq)) \in Nat
      /\ Cardinality(Votes(count, seq)) \in Nat
  BY <1>1, VotesFinite
<1>3. ~ (Cardinality(Votes(count, seq)) > F) /\ F \in Nat
  BY ConstantsAssumption DEF Quorate
<1>4. Cardinality(Votes(more, seq)) # F + 1
  OBVIOUS
<1> HIDE DEF more
<1>5. ~ (Cardinality(Votes(more, seq)) > F)
  BY <1>1, <1>2, <1>3, <1>4
<1>. QED
  BY <1>5 DEF Quorate, more

LEMMA EmptyIsNoQuorum ==
  ASSUME NEW count, NEW seq, Votes(count, seq) = {}
  PROVE  ~ Quorate(count, seq)
  BY FS_EmptySet, ConstantsAssumption DEF Quorate

\* Nor does the leader's own vote.
LEMMA OwnVoteIsNoQuorum ==
  ASSUME Quorums, NEW count \in Tables, NEW seq \in Seqnum, NEW n \in Node,
         Votes(count, seq) = {}
  PROVE  ~ Quorate(count \cup {<<seq, 1, n>>}, seq)
<1>1. Votes(count \cup {<<seq, 1, n>>}, seq) = {<<seq, 1, n>>}
  BY VoteAdded
<1>2. Cardinality({<<seq, 1, n>>}) = 1
  BY FS_Singleton
<1>3. ~ (Cardinality({<<seq, 1, n>>}) > F)
  BY <1>2, ConstantsAssumption DEF Quorums
<1>. QED
  BY <1>1, <1>3 DEF Quorate

\* When nothing is on its way, everybody has voted.
LEMMA AllHaveVoted ==
  ASSUME Quorums, NEW count \in Tables, NEW n \in Node, NEW seq, NEW phase,
         Polled(count, {}, n, seq, phase)
  PROVE  Quorate(count, seq)
<1> DEFINE members == Members(ClusterOf[n])
           vote == [q \in members |-> <<seq, 1, q>>]
<1>1. \A q \in members : <<seq, 1, q>> \in count
  BY DEF Polled, Members, Peers, Chasing
<1>2. vote \in Injection(members, Votes(count, seq))
  <2>1. \A q \in members : vote[q] \in Votes(count, seq)
    BY <1>1 DEF Votes
  <2>. QED
    BY <2>1 DEF Injection, IsInjective
<1>3. Cardinality(members) <= Cardinality(Votes(count, seq))
  BY <1>2, VotesFinite, FS_Injection
<1>4. ClusterOf[n] \in Cluster /\ Cardinality(members) >= F + 1
  BY ConstantsAssumption DEF Quorums
<1>5. Cardinality(members) \in Nat
  <2>1. members \subseteq Node
    BY DEF Members
  <2>. QED
    BY <2>1, FS_Subset, FS_CardinalityType, ConstantsAssumption
<1>. QED
  BY <1>3, <1>4, <1>5, VotesFinite, ConstantsAssumption DEF Quorate

-----------------------------------------------------------------------------
\* How a step of one node changes the view.

\* The leaders of different clusters are different.
LEMMA LeadersDiffer ==
  /\ \A t \in Txn : /\ Coord(t) \in Node /\ Leads(Coord(t))
                    /\ ClusterOf[Coord(t)] = CoordCluster(t)
                    /\ Part(t) \in Node /\ Leads(Part(t))
                    /\ ClusterOf[Part(t)] = PartCluster(t)
                    /\ Coord(t) = Part(t) <=> IntraShard(t)
  BY ConstantsAssumption
     DEF Coord, Part, Leads, CoordCluster, PartCluster, IntraShard

\* Sequence numbers are integers.
LEMMA Numbers ==
  /\ \A s \in NodeState : /\ s.last_seqnum \in Int /\ s.last_seqnum >= 0
                          /\ s.last_executed_seq \in Int
                          /\ s.last_executed_seq >= 0
  /\ \A s \in NodeState, t \in Txn :
       /\ s.digest_to_seqnum[t] \in Int /\ s.digest_to_seqnum[t] >= 0
       /\ s.digest_to_seqnum[t] # 0 => s.digest_to_seqnum[t] \in Seqnum
  /\ \A seq \in Seqnum : seq \in Int /\ seq >= 1
<1>1. MaxSeq \in Nat
  BY ConstantsAssumption
<1>2. \A s \in NodeState : /\ s.last_seqnum \in 0 .. MaxSeq
                           /\ s.last_executed_seq \in 0 .. MaxSeq
                           /\ s.digest_to_seqnum \in [Txn -> 0 .. MaxSeq]
  BY DEF NodeState
<1>3. \A x \in 0 .. MaxSeq : /\ x \in Int /\ x >= 0
                             /\ x # 0 => x \in Seqnum
  BY <1>1 DEF Seqnum
<1>4. \A seq \in Seqnum : seq \in Int /\ seq >= 1
  BY <1>1 DEF Seqnum
<1>. QED
  BY <1>2, <1>3, <1>4

\* What a leader may do to what messages refer to.
Later(s, u) ==
  /\ s.last_seqnum <= u.last_seqnum
  /\ \A seq \in Seqnum : seq <= s.last_seqnum =>
       u.accept_log[seq].txn = s.accept_log[seq].txn
  /\ s.accepted_count_two_pc_commit \subseteq u.accepted_count_two_pc_commit

LEMMA InRoundLater ==
  ASSUME NEW s \in NodeState, NEW u \in NodeState, NEW n \in Node,
         Later(s, u), NEW seq \in Seqnum, NEW counter, NEW status,
         InRound(s, n, seq, counter, status)
  PROVE  InRound(u, n, seq, counter, status)
<1>1. seq <= u.last_seqnum /\ seq <= s.last_seqnum
  BY Numbers DEF Later, InRound
<1>2. u.accept_log[seq].txn = s.accept_log[seq].txn
  BY <1>1 DEF Later
<1>3. s.accepted_count_two_pc_commit \subseteq u.accepted_count_two_pc_commit
  BY DEF Later
<1>. QED
  BY <1>1, <1>2, <1>3 DEF InRound

LEMMA ShapedLater ==
  ASSUME NEW nd, nd \in [Node -> NodeState], NEW n \in Node, NEW u \in NodeState,
         Leads(n) => Later(nd[n], u), NEW m \in Message, Shaped(m, nd)
  PROVE  Shaped(m, [nd EXCEPT ![n] = u])
<1> DEFINE nd2 == [nd EXCEPT ![n] = u]
<1>1. \A q \in Node : /\ nd[q] \in NodeState /\ nd2[q] \in NodeState
                      /\ q # n => nd2[q] = nd[q]
                      /\ q = n => nd2[q] = u
  OBVIOUS
<1> HIDE DEF nd2
<1>2. ASSUME NEW q \in Node, NEW seq \in Seqnum, NEW counter, NEW status,
             InRound(nd[q], q, seq, counter, status)
      PROVE  InRound(nd2[q], q, seq, counter, status)
  <2>1. CASE q = n
    <3>1. Later(nd[q], nd2[q])
      BY <1>1, <1>2, <2>1 DEF InRound
    <3>. QED
      BY <1>1, <1>2, <3>1, InRoundLater
  <2>2. CASE q # n
    BY <1>1, <1>2, <2>2
  <2>. QED
    BY <2>1, <2>2
<1>3. m.type = "Accept" => m.from \in Node /\ m.seq \in Seqnum
  BY DEF Message
<1>4. m.type = "Ack" => m.to \in Node /\ m.seq \in Seqnum
  BY DEF Message
<1>. QED
  BY <1>2, <1>3, <1>4 DEF Shaped, nd2

\* Nothing is taken out of what leader n's proposals wait for.
StillChasing(ms, ms2, n) ==
  \A q, seq : \A phase \in {FirstPhase, SecondPhase} :
    Chasing(ms, n, q, seq, phase) => Chasing(ms2, n, q, seq, phase)

LEMMA RoundsGoOn ==
  ASSUME NEW s, NEW n, NEW ms, NEW ms2, Rounds(s, n, ms),
         StillChasing(ms, ms2, n)
  PROVE  Rounds(s, n, ms2)
<1>1. \A count, seq : \A phase \in {FirstPhase, SecondPhase} :
        Polled(count, ms, n, seq, phase) => Polled(count, ms2, n, seq, phase)
  BY DEF StillChasing, Polled
<1>. QED
  BY <1>1 DEF Rounds

LEMMA UpdateView ==
  ASSUME NEW nd, nd \in [Node -> NodeState], NEW ms, NEW ms2 \in SUBSET Message,
         NEW rep, NEW rep2, View(nd, ms, rep), NEW n \in Node,
         NEW u \in NodeState, Own(u, n),
         Leads(n) => /\ Orderly(u, n) /\ Rounds(u, n, ms2) /\ LocksHeld(u, n)
                     /\ Later(nd[n], u),
         \A q \in Node \ {n} : Leads(q) => StillChasing(ms, ms2, q),
         \A m \in ms2 \ ms : Shaped(m, [nd EXCEPT ![n] = u]),
         \A t \in Txn : Stage(t, [nd EXCEPT ![n] = u], ms2, rep2)
  PROVE  View([nd EXCEPT ![n] = u], ms2, rep2)
<1> DEFINE nd2 == [nd EXCEPT ![n] = u]
<1>1. \A q \in Node : Own(nd2[q], q)
  BY DEF View
<1>2. ASSUME NEW q \in Node, Leads(q)
      PROVE  Orderly(nd2[q], q) /\ Rounds(nd2[q], q, ms2) /\ LocksHeld(nd2[q], q)
  <2>1. CASE q = n
    BY <1>2, <2>1
  <2>2. CASE q # n
    <3>1. nd2[q] = nd[q]
      BY <2>2
    <3>. QED
      BY <1>2, <2>2, <3>1, RoundsGoOn DEF View
  <2>. QED
    BY <2>1, <2>2
<1>3. ASSUME NEW m \in ms2
      PROVE  Shaped(m, nd2)
  <2>1. CASE m \in ms
    BY <2>1, ShapedLater DEF View
  <2>. QED
    BY <2>1
<1>. QED
  BY <1>1, <1>2, <1>3 DEF View

\* Transfers that a step is not about.
SameMail(ms, ms2, t) ==
  \A m : m.type \in {"PREPARE", "TwoPC"} /\ m.txn = t => (m \in ms <=> m \in ms2)

Undisturbed(s, u, n, t) ==
  /\ t \in u.pending_or_completed_ts <=> t \in s.pending_or_completed_ts
  /\ Ran(u, t) <=> Ran(s, t)
  /\ Begun(u, n, t) <=> Begun(s, n, t)
  /\ Ended(u, t) => Ended(s, t)
  /\ u.prepare_and_aborted_queue[t] = s.prepare_and_aborted_queue[t]
  /\ t \in u.in_flight_transactions => t \in s.in_flight_transactions
  /\ u.in_flight_prepares[t].sent => s.in_flight_prepares[t].sent
  /\ s.in_flight_prepares[t].completed => 
       u.in_flight_prepares[t].completed \/ ~ u.in_flight_prepares[t].sent
  /\ s.exited => u.exited

LEMMA MailFacts ==
  ASSUME NEW ms, NEW ms2, NEW t, SameMail(ms, ms2, t)
  PROVE  /\ PrepareSent(ms2, t) <=> PrepareSent(ms, t)
         /\ VoteSent(ms2, t) <=> VoteSent(ms, t)
         /\ DecisionSent(ms2, t) <=> DecisionSent(ms, t)
         /\ ConfirmationSent(ms2, t) <=> ConfirmationSent(ms, t)
         /\ OneVote(ms2, t) <=> OneVote(ms, t)
<1>1. PrepareSent(ms2, t) <=> PrepareSent(ms, t)
  BY DEF SameMail, PrepareSent
<1>2. \A n, whats : (\E m \in ms2 : Brings(m, n, t, whats))
                      <=> (\E m \in ms : Brings(m, n, t, whats))
  BY DEF SameMail, Brings
<1>3. \A m, n, whats :
        Brings(m, n, t, whats) => (m \in ms <=> m \in ms2)
  BY DEF SameMail, Brings
<1>4. OneVote(ms2, t) => OneVote(ms, t)
  BY <1>3 DEF OneVote
<1>5. OneVote(ms, t) => OneVote(ms2, t)
  BY <1>3 DEF OneVote
<1>. QED
  BY <1>1, <1>2, <1>4, <1>5 DEF VoteSent, DecisionSent, ConfirmationSent

LEMMA SameStage ==
  ASSUME NEW nd, nd \in [Node -> NodeState], NEW ms, NEW ms2, NEW rep, NEW rep2,
         rep \subseteq rep2, NEW n \in Node, NEW u, NEW t \in Txn,
         n \in {Coord(t), Part(t)} => Undisturbed(nd[n], u, n, t),
         SameMail(ms, ms2, t),
         Stage(t, nd, ms, rep)
  PROVE  Stage(t, [nd EXCEPT ![n] = u], ms2, rep2)
<1> DEFINE nd2 == [nd EXCEPT ![n] = u]
<1>1. \A q \in {Coord(t), Part(t)} : Undisturbed(nd[q], nd2[q], q, t)
  BY LeadersDiffer DEF Undisturbed
<1>2. Replied(rep, t) => Replied(rep2, t)
  BY DEF Replied
<1>3. Coord(t) \in Node /\ Part(t) \in Node
  BY LeadersDiffer
<1> DEFINE C == nd[Coord(t)]
           C2 == nd2[Coord(t)]
           P == nd[Part(t)]
           P2 == nd2[Part(t)]
<1>4. Undisturbed(C, C2, Coord(t), t) /\ Undisturbed(P, P2, Part(t), t)
  BY <1>1, <1>3
<1>5. IntraShard(t) => (Ran(C2, t) => Replied(rep2, t))
  BY <1>2, <1>4 DEF Stage, Undisturbed
<1> HIDE DEF C, C2, P, P2
<1>6. CrossStage(t, C, P, ms, rep) => CrossStage(t, C2, P2, ms2, rep2)
  BY <1>2, <1>4, MailFacts DEF CrossStage, Undisturbed, Parked
<1>. QED
  BY <1>5, <1>6 DEF Stage, C, C2, P, P2

-----------------------------------------------------------------------------
\* Steps that leave the log of a leader alone.

SameLog(s, u) ==
  /\ u.alive => s.alive
  /\ u.last_executed_seq = s.last_executed_seq
  /\ u.last_seqnum = s.last_seqnum
  /\ u.pending_or_completed_ts = s.pending_or_completed_ts
  /\ u.digest_to_seqnum = s.digest_to_seqnum
  /\ u.accept_log = s.accept_log
  /\ u.entries_to_commit = s.entries_to_commit
  /\ u.accepted_count = s.accepted_count
  /\ u.accepted_count_two_pc_commit = s.accepted_count_two_pc_commit
  /\ u.blank_votes \subseteq s.blank_votes
  /\ u.balance_locks \subseteq s.balance_locks

LEMMA SameLogView ==
  ASSUME NEW nd, nd \in [Node -> NodeState], NEW ms, NEW ms2 \in SUBSET Message,
         NEW rep, NEW rep2, View(nd, ms, rep), NEW n \in Node,
         NEW u \in NodeState, Own(u, n), Leads(n) => SameLog(nd[n], u),
         \A q \in Node : Leads(q) => StillChasing(ms, ms2, q),
         \A m \in ms2 \ ms : Shaped(m, nd),
         \A t \in Txn : Stage(t, [nd EXCEPT ![n] = u], ms2, rep2)
  PROVE  View([nd EXCEPT ![n] = u], ms2, rep2)
<1> DEFINE s == nd[n]
<1>1. ASSUME Leads(n)
      PROVE  /\ Orderly(u, n) /\ Rounds(u, n, ms2) /\ LocksHeld(u, n)
             /\ Later(s, u)
  <2>1. SameLog(s, u) /\ Orderly(s, n) /\ Rounds(s, n, ms) /\ LocksHeld(s, n)
    BY <1>1 DEF View
  <2>2. s \in NodeState
    OBVIOUS
  <2> HIDE DEF s
  <2>3. Rounds(s, n, ms2)
    BY <1>1, <2>1, RoundsGoOn DEF s
  <2>4. Orderly(u, n)
    <3>1. \A t \in Txn : Claimed(u, t)
      BY <2>1 DEF SameLog, Orderly, Claimed
    <3>2. ASSUME NEW seq \in Seqnum PROVE Filed(u, n, seq)
      <4>1. Filed(s, n, seq)
        BY <2>1 DEF Orderly
      <4>2. seq \in u.blank_votes => seq \in s.blank_votes
        BY <2>1 DEF SameLog
      <4>. QED
        BY <2>1, <4>1, <4>2 DEF SameLog, Filed
    <3>. QED
      BY <2>1, <3>1, <3>2 DEF SameLog, Orderly
  <2>5. Rounds(u, n, ms2)
    BY <2>1, <2>3 DEF SameLog, Rounds
  <2>6. \A t \in Txn : \A a : Holds(s, n, t, a) => Holds(u, n, t, a)
    BY <2>1 DEF SameLog, Holds, Ran, Ended
  <2>7. LocksHeld(u, n)
    BY <2>1, <2>6 DEF SameLog, LocksHeld
  <2>8. Later(s, u)
    BY <2>1, <2>2, Numbers DEF SameLog, Later
  <2>. QED
    BY <2>4, <2>5, <2>7, <2>8 DEF s
<1>2. \A m \in ms2 \ ms : Shaped(m, [nd EXCEPT ![n] = u])
  BY <1>1, ShapedLater
<1> HIDE DEF s
<1>. QED
  BY <1>1, <1>2, UpdateView DEF s

\* A node that does not lead changes the view by its messages only.
LEMMA BackupView ==
  ASSUME NEW nd, nd \in [Node -> NodeState], NEW ms, NEW ms2 \in SUBSET Message,
         NEW rep, View(nd, ms, rep), NEW n \in Node, ~ Leads(n),
         NEW u \in NodeState, Own(u, n),
         \A q \in Node : Leads(q) => StillChasing(ms, ms2, q),
         \A m \in ms2 \ ms : Shaped(m, nd),
         \A t \in Txn : SameMail(ms, ms2, t)
  PROVE  View([nd EXCEPT ![n] = u], ms2, rep)
<1>1. \A t \in Txn : n \notin {Coord(t), Part(t)}
  BY LeadersDiffer
<1>2. \A t \in Txn : Stage(t, nd, ms, rep)
  BY DEF View
<1>3. \A t \in Txn : Stage(t, [nd EXCEPT ![n] = u], ms2, rep)
  BY <1>1, <1>2, SameStage
<1>. QED
  BY <1>3, SameLogView

\* What Own speaks of.
SameOwn(s, u) ==
  /\ u.counter = s.counter
  /\ u.max_seqnum_in_new_view = s.max_seqnum_in_new_view
  /\ u.cluster_leaders = s.cluster_leaders
  /\ u.leads = s.leads
  /\ u.pending_or_completed_ts = s.pending_or_completed_ts
  /\ u.prepare_and_aborted_queue = s.prepare_and_aborted_queue
  /\ u.in_flight_transactions \subseteq s.in_flight_transactions
  /\ \A t \in Txn :
       u.in_flight_prepares[t].sent => s.in_flight_prepares[t].sent

LEMMA SameOwnOwn ==
  ASSUME NEW s, NEW u, NEW n, SameOwn(s, u), Own(s, n)
  PROVE  Own(u, n)
<1>1. \A t \in Txn : t \in u.in_flight_transactions => t \in s.in_flight_transactions
  BY DEF SameOwn
<1>. QED
  BY <1>1 DEF SameOwn, Own

LEMMA SameLogUndisturbed ==
  ASSUME NEW s, NEW u, NEW n, NEW t \in Txn, SameLog(s, u),
         u.prepare_and_aborted_queue[t] = s.prepare_and_aborted_queue[t],
         t \in u.in_flight_transactions => t \in s.in_flight_transactions,
         u.in_flight_prepares[t].sent => s.in_flight_prepares[t].sent,
         s.in_flight_prepares[t].completed =>
           u.in_flight_prepares[t].completed \/ ~ u.in_flight_prepares[t].sent,
         s.exited => u.exited
  PROVE  Undisturbed(s, u, n, t)
  BY DEF SameLog, Undisturbed, Ran, Begun, Ended

\* The end of a handler.
LEMMA FinishView ==
  ASSUME TypeInv, NEW n \in Node, NEW s \in NodeState, NEW used,
         View([node EXCEPT ![n] = s], (msgs \ used) \cup s.out,
              replies \cup s.told),
         Finish(n, s, used)
  PROVE  View(node', msgs', replies')
<1> DEFINE nd == [node EXCEPT ![n] = s]
           ms == (msgs \ used) \cup s.out
           u == [s EXCEPT !.out = {}, !.told = {}, !.resolved = {}]
<1>1. s \in NodeState /\ node \in [Node -> NodeState] /\ msgs \subseteq Message
  BY DEF TypeInv, TypeOK
<1>2. ms \in SUBSET Message
  BY <1>1 DEF NodeState
<1>3. u \in NodeState
  BY <1>1 DEF NodeState
<1>4. /\ SameLog(s, u) /\ SameOwn(s, u)
      /\ u.in_flight_transactions = s.in_flight_transactions
      /\ u.in_flight_prepares = s.in_flight_prepares
      /\ u.exited = s.exited
  BY <1>1 DEF NodeState, SameLog, SameOwn
<1>5. nd \in [Node -> NodeState] /\ nd[n] = s
  BY <1>1
<1>6. node' = [nd EXCEPT ![n] = u] /\ msgs' = ms /\ replies' = replies \cup s.told
  BY <1>1 DEF Finish
<1>7. View(nd, ms, replies \cup s.told)
  OBVIOUS
<1> HIDE DEF nd, ms, u
<1>8. Own(u, n)
  <2>1. Own(s, n)
    BY <1>5, <1>7 DEF View
  <2>. QED
    BY <1>4, <2>1, SameOwnOwn
<1>9. \A t \in Txn : Stage(t, [nd EXCEPT ![n] = u], ms, replies \cup s.told)
  <2>1. \A t \in Txn : Undisturbed(s, u, n, t)
    BY <1>4, SameLogUndisturbed DEF SameOwn
  <2>2. \A t \in Txn : SameMail(ms, ms, t)
    BY DEF SameMail
  <2>3. \A t \in Txn : Stage(t, nd, ms, replies \cup s.told)
    BY <1>7 DEF View
  <2>. QED
    BY <1>5, <2>1, <2>2, <2>3, SameStage
<1>10. \A q \in Node : StillChasing(ms, ms, q)
  BY DEF StillChasing
<1>11. View([nd EXCEPT ![n] = u], ms, replies \cup s.told)
  BY <1>2, <1>3, <1>4, <1>5, <1>7, <1>8, <1>9, <1>10, SameLogView
<1>. QED
  BY <1>6, <1>11

LEMMA FinishProgress ==
  ASSUME TypeInv, ProgressInv, NEW n \in Node, NEW s \in NodeState, NEW used,
         View([node EXCEPT ![n] = s], (msgs \ used) \cup s.out,
              replies \cup s.told),
         Leads(n) => CaughtUp(s),
         Finish(n, s, used)
  PROVE  ProgressInv'
<1> DEFINE u == [s EXCEPT !.out = {}, !.told = {}, !.resolved = {}]
<1>1. node \in [Node -> NodeState] /\ node' = [node EXCEPT ![n] = u]
  BY DEF TypeInv, TypeOK, Finish
<1>2. /\ u.last_executed_seq = s.last_executed_seq
      /\ u.entries_to_commit = s.entries_to_commit
  BY DEF NodeState
<1> HIDE DEF u
<1>3. ASSUME NEW q \in Node, Leads(q) PROVE CaughtUp(node'[q])
  <2>1. CASE q = n
    <3>1. CaughtUp(s) /\ node'[q] = u
      BY <1>1, <1>3, <2>1
    <3>. QED
      BY <1>2, <3>1 DEF CaughtUp
  <2>2. CASE q # n
    BY <1>1, <1>3, <2>2 DEF ProgressInv
  <2>. QED
    BY <2>1, <2>2
<1>4. View(node', msgs', replies')
  BY FinishView
<1>. QED
  BY <1>3, <1>4 DEF ProgressInv

\* Proposals wait for Accepts and Acks only.
LEMMA OtherMail ==
  ASSUME NEW ms, NEW ms2, \A m \in ms \ ms2 : m.type \notin {"Accept", "Ack"}
  PROVE  \A n : StillChasing(ms, ms2, n)
<1>1. \A m, n, q, seq, phase : Chases(m, n, q, seq, phase) /\ m \in ms => m \in ms2
  BY DEF Chases
<1>. QED
  BY <1>1 DEF StillChasing, Chasing

\* A step that is about no transfer.
LEMMA QuietStep ==
  ASSUME TypeInv, ProgressInv, NEW n \in Node, NEW s \in NodeState, NEW used,
         Finish(n, s, used), s.told = {},
         Own(s, n), Leads(n) => SameLog(node[n], s),
         node[n].exited => s.exited,
         \A t \in Txn : SameMail(msgs, (msgs \ used) \cup s.out, t),
         \A t \in Txn : Leads(n) =>
           /\ s.prepare_and_aborted_queue[t] = node[n].prepare_and_aborted_queue[t]
           /\ t \in s.in_flight_transactions => t \in node[n].in_flight_transactions
           /\ s.in_flight_prepares[t].sent => node[n].in_flight_prepares[t].sent
           /\ node[n].in_flight_prepares[t].completed =>
                s.in_flight_prepares[t].completed \/ ~ s.in_flight_prepares[t].sent,
         \A q \in Node : Leads(q) =>
           StillChasing(msgs, (msgs \ used) \cup s.out, q),
         \A m \in s.out : Shaped(m, node)
  PROVE  ProgressInv'
<1> DEFINE ms == (msgs \ used) \cup s.out
<1>1. /\ node \in [Node -> NodeState] /\ msgs \subseteq Message
      /\ s.out \subseteq Message /\ replies \cup s.told = replies
      /\ node[n] \in NodeState
  BY DEF TypeInv, TypeOK, NodeState
<1>2. View(node, msgs, replies) /\ (Leads(n) => CaughtUp(node[n]))
  BY DEF ProgressInv
<1>3. ms \in SUBSET Message /\ \A m \in ms \ msgs : m \in s.out
  BY <1>1
<1>4. \A t \in Txn : SameMail(msgs, ms, t)
  OBVIOUS
<1>5. \A q \in Node : Leads(q) => StillChasing(msgs, ms, q)
  OBVIOUS
<1> HIDE DEF ms
<1>6. ASSUME NEW t \in Txn PROVE Stage(t, [node EXCEPT ![n] = s], ms, replies)
  <2>1. Stage(t, node, msgs, replies)
    BY <1>2 DEF View
  <2>2. n \in {Coord(t), Part(t)} => Leads(n)
    BY LeadersDiffer
  <2>3. Leads(n) => Undisturbed(node[n], s, n, t)
    BY SameLogUndisturbed
  <2>. QED
    BY <1>1, <1>4, <2>1, <2>2, <2>3, SameStage
<1>7. View([node EXCEPT ![n] = s], ms, replies)
  BY <1>1, <1>2, <1>3, <1>5, <1>6, SameLogView
<1>8. Leads(n) => CaughtUp(s)
  BY <1>2 DEF CaughtUp, SameLog
<1>. QED
  BY <1>1, <1>7, <1>8, FinishProgress DEF ms

LEMMA HandleMoveOnProgress ==
  ASSUME TypeInv, ProgressInv, NEW n \in Node, HandleMoveOn(n)
  PROVE  ProgressInv'
<1> DEFINE s == node[n]
           intra == {t \in Txn :
                       /\ IntraShard(t)
                       /\ s.digest_to_seqnum[t] \in s.pending_client_calls}
           locks == UNION {{From[t], To[t]} : t \in intra}
           prepares == [t \in Txn |-> [s.in_flight_prepares[t] EXCEPT
                                         !.sent = FALSE, !.completed = FALSE]]
           u == [s EXCEPT !.in_flight_prepares = prepares,
                          !.in_flight_transactions = {},
                          !.pending_client_calls = {},
                          !.balance_locks = @ \ locks]
<1>1. s \in NodeState /\ s.out = {} /\ s.told = {} /\ Own(s, n)
  BY NodeFacts DEF TypeInv, ProgressInv, View
<1>2. Finish(n, u, {})
  BY <1>1 DEF HandleMoveOn, NotInFlight, NodeState
<1>3. /\ prepares \in [Txn -> [sent : BOOLEAN, completed : BOOLEAN,
                               retries : {0, 1}]]
      /\ \A t \in Txn : ~ prepares[t].sent
  <2>1. s.in_flight_prepares \in [Txn -> [sent : BOOLEAN,
                                   completed : BOOLEAN, retries : {0, 1}]]
    BY <1>1 DEF NodeState
  <2>. QED
    BY <2>1
<1> HIDE DEF prepares, locks
<1>4. u \in NodeState
  BY <1>1, <1>3 DEF NodeState
<1>5. /\ SameLog(s, u) /\ SameOwn(s, u) /\ u.out = {} /\ u.told = {}
      /\ u.in_flight_transactions = {} /\ u.in_flight_prepares = prepares
      /\ u.exited = s.exited
  BY <1>1, <1>3 DEF NodeState, SameLog, SameOwn
<1> HIDE DEF u
<1>6. Own(u, n)
  BY <1>1, <1>5, SameOwnOwn
<1>7. \A t \in Txn : SameMail(msgs, (msgs \ {}) \cup u.out, t)
  BY <1>5 DEF SameMail
<1>8. \A q \in Node : StillChasing(msgs, (msgs \ {}) \cup u.out, q)
  BY <1>5 DEF StillChasing, Chasing
<1>9. \A t \in Txn :
        /\ u.prepare_and_aborted_queue[t] = s.prepare_and_aborted_queue[t]
        /\ t \notin u.in_flight_transactions
        /\ ~ u.in_flight_prepares[t].sent
  BY <1>3, <1>5 DEF SameOwn
<1>. QED
  BY <1>2, <1>4, <1>5, <1>6, <1>7, <1>8, <1>9, QuietStep

\* A PREPARE more, or a confirmation less for a decision that is confirmed.
LEMMA SimilarStage ==
  ASSUME NEW nd, nd \in [Node -> NodeState], NEW ms, NEW ms2, NEW rep,
         NEW n \in Node, NEW u, NEW t \in Txn, n = Coord(t),
         Undisturbed(nd[n], u, n, t),
         Stage(t, nd, ms, rep), ~ IntraShard(t),
         PrepareSent(ms2, t) => t \in nd[n].pending_or_completed_ts,
         PrepareSent(ms, t) => PrepareSent(ms2, t),
         VoteSent(ms2, t) <=> VoteSent(ms, t),
         DecisionSent(ms2, t) <=> DecisionSent(ms, t),
         OneVote(ms, t) => OneVote(ms2, t),
         t \in u.in_flight_transactions /\ ConfirmationSent(ms, t) =>
           ConfirmationSent(ms2, t)
  PROVE  Stage(t, [nd EXCEPT ![n] = u], ms2, rep)
<1> DEFINE nd2 == [nd EXCEPT ![n] = u]
           C == nd[Coord(t)]
           P == nd[Part(t)]
<1>1. nd2[Coord(t)] = u /\ nd2[Part(t)] = P /\ C = nd[n]
  BY LeadersDiffer
<1>2. CrossStage(t, C, P, ms, rep)
  BY DEF Stage
<1> HIDE DEF C, P, nd2
<1>3. CrossStage(t, u, P, ms2, rep)
  BY <1>1, <1>2 DEF CrossStage, Undisturbed, Parked
<1>. QED
  BY <1>1, <1>3 DEF Stage, nd2

LEMMA RetryPrepareProgress ==
  ASSUME TypeInv, ProgressInv, NEW n \in Node, NEW t \in Txn, RetryPrepare(n, t)
  PROVE  ProgressInv'
<1> DEFINE s == node[n]
           prepares == [s.in_flight_prepares EXCEPT ![t].retries = 1]
           x == PrepareMsg(n, s.cluster_leaders[PartCluster(t)], t, 1)
           u == [s EXCEPT !.in_flight_prepares = prepares, !.out = @ \cup {x}]
           ms == (msgs \ {}) \cup u.out
<1>1. /\ s \in NodeState /\ s.out = {} /\ s.told = {} /\ Own(s, n)
      /\ node \in [Node -> NodeState] /\ msgs \subseteq Message
      /\ View(node, msgs, replies) /\ Sound(s, n)
  BY NodeFacts DEF TypeInv, TypeOK, ProgressInv, View
<1>2. n = Coord(t) /\ ~ IntraShard(t) /\ Leads(n)
  <2>1. s.in_flight_prepares[t].sent
    BY DEF RetryPrepare, Overdue
  <2>. QED
    BY <1>1, <2>1, LeadersDiffer DEF Own
<1>3. Finish(n, u, {})
  <2>1. Send([s EXCEPT !.in_flight_prepares[t].retries = 1], {x}) = u
    BY <1>1 DEF NodeState, Send
  <2>. QED
    BY <2>1 DEF RetryPrepare
<1>4. /\ prepares \in [Txn -> [sent : BOOLEAN, completed : BOOLEAN,
                               retries : {0, 1}]]
      /\ \A y \in Txn :
           /\ prepares[y].sent = s.in_flight_prepares[y].sent
           /\ prepares[y].completed = s.in_flight_prepares[y].completed
  <2>1. s.in_flight_prepares \in [Txn -> [sent : BOOLEAN,
                                   completed : BOOLEAN, retries : {0, 1}]]
    BY <1>1 DEF NodeState
  <2>. QED
    BY <2>1
<1>5. /\ x.type = "PREPARE" /\ x.txn = t /\ x.from = Coord(t) /\ x.to = Part(t)
      /\ x \in Message
  <2>1. s.cluster_leaders = FirstLeader
    BY <1>1 DEF Own
  <2>2. PartCluster(t) \in Cluster
    BY ConstantsAssumption DEF PartCluster
  <2>. QED
    BY <1>2, <2>1, <2>2, ConstantsAssumption DEF PrepareMsg, Message, Part
<1> HIDE DEF prepares, x
<1>6. u \in NodeState
  BY <1>1, <1>4, <1>5, ZenonT(60) DEF NodeState
<1>7. /\ SameLog(s, u) /\ SameOwn(s, u) /\ u.out = {x} /\ u.told = {}
      /\ u.in_flight_transactions = s.in_flight_transactions
      /\ u.in_flight_prepares = prepares
      /\ u.exited = s.exited
  BY <1>1, <1>4 DEF NodeState, SameLog, SameOwn
<1> HIDE DEF u, s
<1>8. /\ \A m : m \in ms <=> m \in msgs \/ m = x
      /\ ms \in SUBSET Message
  BY <1>1, <1>5, <1>7
<1> HIDE DEF ms
<1>9. Own(u, n)
  BY <1>1, <1>7, SameOwnOwn
<1>10. \A q \in Node : StillChasing(msgs, ms, q)
  BY <1>8 DEF StillChasing, Chasing
<1>11. ASSUME NEW y \in Txn PROVE Stage(y, [node EXCEPT ![n] = u], ms, replies)
  <2>1. Stage(y, node, msgs, replies) /\ node[n] = s
    BY <1>1 DEF View, s
  <2>2. Undisturbed(s, u, n, y)
    BY <1>4, <1>7, SameLogUndisturbed DEF SameOwn
  <2>3. CASE y # t
    <3>1. SameMail(msgs, ms, y)
      BY <1>5, <1>8, <2>3 DEF SameMail
    <3>. QED
      BY <1>1, <2>1, <2>2, <3>1, SameStage
  <2>4. CASE y = t
    <3>1. \A q, whats : (\E m \in ms : Brings(m, q, t, whats))
                          <=> (\E m \in msgs : Brings(m, q, t, whats))
      BY <1>5, <1>8 DEF Brings
    <3>2. OneVote(msgs, t) => OneVote(ms, t)
      BY <1>5, <1>8 DEF OneVote, Brings
    <3>3. PrepareSent(msgs, t) => PrepareSent(ms, t)
      BY <1>8 DEF PrepareSent
    <3>4. t \in s.pending_or_completed_ts
      <4>1. s.digest_to_seqnum[t] # 0
        BY <1>1 DEF RetryPrepare, Overdue, Sound, s
      <4>2. Orderly(s, n)
        BY <1>1, <1>2 DEF View, s
      <4>. QED
        BY <4>1, <4>2 DEF Orderly, Claimed
    <3>. QED
      BY <1>1, <1>2, <2>1, <2>2, <2>4, <3>1, <3>2, <3>3, <3>4, SimilarStage
         DEF VoteSent, DecisionSent, ConfirmationSent
  <2>. QED
    BY <2>3, <2>4
<1>12. \A m \in ms \ msgs : Shaped(m, node)
  BY <1>2, <1>5, <1>8 DEF Shaped
<1>13. SameLog(node[n], u)
  BY <1>7 DEF s
<1>14. View([node EXCEPT ![n] = u], ms, replies)
  BY <1>1, <1>6, <1>8, <1>9, <1>10, <1>11, <1>12, <1>13, SameLogView
<1>15. CaughtUp(u)
  <2>1. CaughtUp(s)
    BY <1>2 DEF ProgressInv, s
  <2>. QED
    BY <1>7, <2>1 DEF CaughtUp, SameLog
<1>16. replies \cup u.told = replies
  BY <1>7
<1>. QED
  BY <1>3, <1>6, <1>14, <1>15, <1>16, FinishProgress DEF ms

LEMMA HandleConfirmationProgress ==
  ASSUME TypeInv, ProgressInv, NEW n \in Node, NEW m \in msgs,
         HandleCommittedAndAborted(n, m)
  PROVE  ProgressInv'
<1> DEFINE s == node[n]
           t == m.txn
           u == [s EXCEPT !.in_flight_transactions = @ \ {t}]
           ms == (msgs \ {m}) \cup u.out
<1>1. /\ s \in NodeState /\ s.out = {} /\ s.told = {} /\ Own(s, n)
      /\ node \in [Node -> NodeState] /\ msgs \subseteq Message
      /\ View(node, msgs, replies)
  BY NodeFacts DEF TypeInv, TypeOK, ProgressInv, View
<1>2. Finish(n, u, {m}) /\ m.type = "TwoPC" /\ m.to = n /\ m.what \in Confirmation
  BY DEF HandleCommittedAndAborted, Confirmation
<1>3. t \in Txn
  BY <1>1, <1>2 DEF Message
<1>4. n = Coord(t) /\ ~ IntraShard(t) /\ Leads(n)
  <2>1. Shaped(m, node)
    BY <1>1 DEF View
  <2>. QED
    BY <1>2, <1>3, <2>1, LeadersDiffer DEF Shaped
<1> HIDE DEF t
<1>5. u \in NodeState
  BY <1>1 DEF NodeState
<1>6. /\ SameLog(s, u) /\ SameOwn(s, u) /\ u.out = {} /\ u.told = {}
      /\ u.in_flight_transactions = s.in_flight_transactions \ {t}
      /\ u.in_flight_prepares = s.in_flight_prepares
      /\ u.exited = s.exited
  BY <1>1 DEF NodeState, SameLog, SameOwn
<1> HIDE DEF u, s
<1>7. /\ \A x : x \in ms <=> x \in msgs /\ x # m
      /\ ms \in SUBSET Message
  BY <1>1, <1>6
<1> HIDE DEF ms
<1>8. Own(u, n)
  BY <1>1, <1>6, SameOwnOwn
<1>9. \A q \in Node : StillChasing(msgs, ms, q)
  <2>1. \A x \in msgs \ ms : x.type \notin {"Accept", "Ack"}
    BY <1>2, <1>7
  <2>. QED
    BY <2>1, OtherMail
<1>10. ASSUME NEW y \in Txn PROVE Stage(y, [node EXCEPT ![n] = u], ms, replies)
  <2>1. Stage(y, node, msgs, replies) /\ node[n] = s
    BY <1>1 DEF View, s
  <2>2. Undisturbed(s, u, n, y)
    BY <1>6, SameLogUndisturbed DEF SameOwn
  <2>3. CASE y # t
    <3>1. SameMail(msgs, ms, y)
      BY <1>7, <2>3 DEF SameMail, t
    <3>. QED
      BY <1>1, <2>1, <2>2, <3>1, SameStage
  <2>4. CASE y = t
    <3>0. \A q : ~ Brings(m, q, t, Vote)
      BY <1>2 DEF Brings, Vote, Confirmation
    <3>1. \A q : (\E x \in ms : Brings(x, q, t, Vote))
                   <=> (\E x \in msgs : Brings(x, q, t, Vote))
      BY <1>7, <3>0
    <3>2. OneVote(msgs, t) => OneVote(ms, t)
      BY <1>7 DEF OneVote
    <3>3. PrepareSent(msgs, t) <=> PrepareSent(ms, t)
      BY <1>2, <1>7 DEF PrepareSent
    <3>4. PrepareSent(ms, t) => t \in s.pending_or_completed_ts
      BY <1>4, <2>1, <2>4, <3>3 DEF Stage, CrossStage
    <3>5. t \notin u.in_flight_transactions
      BY <1>6
    <3>. QED
      BY <1>1, <1>3, <1>4, <2>1, <2>2, <2>4, <3>1, <3>2, <3>3, <3>4, <3>5,
         SimilarStage
         DEF VoteSent, DecisionSent
  <2>. QED
    BY <2>3, <2>4
<1>11. \A x \in ms \ msgs : Shaped(x, node)
  BY <1>7
<1>12. SameLog(node[n], u)
  BY <1>6 DEF s
<1>13. View([node EXCEPT ![n] = u], ms, replies)
  BY <1>1, <1>5, <1>7, <1>8, <1>9, <1>10, <1>11, <1>12, SameLogView
<1>14. CaughtUp(u)
  <2>1. CaughtUp(s)
    BY <1>4 DEF ProgressInv, s
  <2>. QED
    BY <1>6, <2>1 DEF CaughtUp, SameLog
<1>15. replies \cup u.told = replies
  BY <1>6
<1>. QED
  BY <1>2, <1>5, <1>13, <1>14, <1>15, FinishProgress DEF ms

LEMMA HandleProposeProgress ==
  ASSUME TypeInv, ProgressInv, NEW n \in Node, NEW m \in msgs, HandlePropose(n, m)
  PROVE  ProgressInv'
<1> DEFINE s == node[n]
           log == [s.accept_log EXCEPT ![m.seq] =
                     IF @ = NoEntry THEN m.e ELSE @]
           a == [type |-> "Ack", from |-> n, to |-> m.from, seq |-> m.seq,
                 counter |-> m.e.counter, status |-> m.e.status]
           blanks == IF m.e.status = "A" THEN s.blank_votes \cup {m.seq}
                     ELSE s.blank_votes \ {m.seq}
           u == [s EXCEPT !.counter = m.e.counter, !.accept_log = log,
                          !.blank_votes = blanks, !.out = @ \cup {a}]
<1>1. /\ s \in NodeState /\ s.out = {} /\ s.told = {} /\ Own(s, n)
      /\ node \in [Node -> NodeState] /\ msgs \subseteq Message
      /\ View(node, msgs, replies)
  BY NodeFacts DEF TypeInv, TypeOK, ProgressInv, View
<1>2. m.type = "Accept" /\ m.to = n
  BY DEF HandlePropose
<1>3. /\ m.seq \in Seqnum /\ m.e \in Entry /\ m.from \in Node
      /\ m.e.status \in Status /\ m.e.counter \in Nat
  BY <1>1, <1>2 DEF Message, Entry
<1>4. /\ n \in Peers(m.from)
      /\ InRound(node[m.from], m.from, m.seq, m.e.counter, m.e.status)
  <2>1. Shaped(m, node)
    BY <1>1 DEF View
  <2>. QED
    BY <1>2, <2>1 DEF Shaped
<1>5. Leads(m.from) /\ ~ Leads(n) /\ m.e.counter = 1
  BY <1>4 DEF InRound, Peers, Leads
<1>6. s.counter = 1
  BY <1>1 DEF Own
<1>7. Finish(n, u, {m})
  <2>1. ~ (m.e.counter < s.counter)
    BY <1>5, <1>6
  <2>2. Send([s EXCEPT !.counter = m.e.counter,
                       !.accept_log[m.seq] = IF @ = NoEntry THEN m.e ELSE @,
                       !.blank_votes =
                           IF m.e.status = "A" THEN @ \cup {m.seq}
                           ELSE @ \ {m.seq}],
             {a}) = u
    BY <1>1 DEF NodeState, Send
  <2>. QED
    BY <2>1, <2>2 DEF HandlePropose
<1>8. /\ log \in [Seqnum -> Entry \cup {NoEntry}]
      /\ blanks \in SUBSET Seqnum
  BY <1>1, <1>3 DEF NodeState
<1>9. a \in Message
  BY <1>3 DEF Message
<1>10. \A q, y, seq, phase : Chases(m, q, y, seq, phase) => Chases(a, q, y, seq, phase)
  BY <1>2 DEF Chases
<1>11. Shaped(a, node)
  BY <1>4 DEF Shaped
<1>12. a.type = "Ack"
  OBVIOUS
<1> HIDE DEF log, a, blanks
<1>13. u \in NodeState
  BY <1>1, <1>3, <1>8, <1>9 DEF NodeState
<1>14. SameOwn(s, u) /\ u.out = {a} /\ u.told = {} /\ u.exited = s.exited
  BY <1>1, <1>5, <1>6 DEF NodeState, SameOwn
<1> HIDE DEF u
<1>15. Own(u, n)
  BY <1>1, <1>14, SameOwnOwn
<1>16. \A t \in Txn : SameMail(msgs, (msgs \ {m}) \cup u.out, t)
  BY <1>2, <1>12, <1>14 DEF SameMail
<1>17. \A q \in Node : StillChasing(msgs, (msgs \ {m}) \cup u.out, q)
  <2> DEFINE ms == (msgs \ {m}) \cup u.out
  <2>1. a \in ms /\ \A x \in msgs : x # m => x \in ms
    BY <1>14
  <2> HIDE DEF ms
  <2>2. \A q, y, seq, phase : Chasing(msgs, q, y, seq, phase) =>
          Chasing(ms, q, y, seq, phase)
    BY <1>10, <2>1 DEF Chasing
  <2>3. \A q \in Node : StillChasing(msgs, ms, q)
    BY <2>2 DEF StillChasing
  <2>. QED
    BY <2>3 DEF ms
<1>18. \A x \in u.out : Shaped(x, node)
  BY <1>11, <1>14
<1>. QED
  BY <1>5, <1>7, <1>13, <1>14, <1>15, <1>16, <1>17, <1>18, QuietStep

-----------------------------------------------------------------------------
\* What a backup executes.

Aside(s, u) ==
  /\ SameOwn(s, u)
  /\ u.out = s.out /\ u.told = s.told
  /\ s.exited => u.exited

LEMMA AsideFollows ==
  ASSUME NEW s, NEW u, NEW v, Aside(s, u), Aside(u, v)
  PROVE  Aside(s, v)
  BY DEF Aside, SameOwn

LEMMA ResolveAside ==
  ASSUME NEW s \in NodeState, NEW n, NEW seq, NEW t, NEW p2, ~ s.leads
  PROVE  Aside(s, ExecuteRepeatedTwoPCEntry(s, n, seq, t, p2))
<1> DEFINE u == ExecuteRepeatedTwoPCEntry(s, n, seq, t, p2)
<1>1. /\ u.counter = s.counter
      /\ u.max_seqnum_in_new_view = s.max_seqnum_in_new_view
      /\ u.cluster_leaders = s.cluster_leaders
      /\ u.leads = s.leads
      /\ u.pending_or_completed_ts = s.pending_or_completed_ts
      /\ u.prepare_and_aborted_queue = s.prepare_and_aborted_queue
      /\ u.in_flight_transactions = s.in_flight_transactions
      /\ u.in_flight_prepares = s.in_flight_prepares
      /\ u.out = s.out /\ u.told = s.told /\ u.exited = s.exited
  BY DEF ExecuteRepeatedTwoPCEntry, NodeState
<1> HIDE DEF u
<1>. QED
  BY <1>1 DEF Aside, SameOwn, u

LEMMA ExecuteAside ==
  ASSUME NEW s \in NodeState, NEW seq, NEW t, NEW status
  PROVE  Aside(s, ExecuteTransaction(s, seq, t, status))
<1> DEFINE u == ExecuteTransaction(s, seq, t, status)
<1>1. /\ u.counter = s.counter
      /\ u.max_seqnum_in_new_view = s.max_seqnum_in_new_view
      /\ u.cluster_leaders = s.cluster_leaders
      /\ u.leads = s.leads
      /\ u.pending_or_completed_ts = s.pending_or_completed_ts
      /\ u.prepare_and_aborted_queue = s.prepare_and_aborted_queue
      /\ u.in_flight_transactions = s.in_flight_transactions
      /\ u.in_flight_prepares = s.in_flight_prepares
      /\ u.out = s.out /\ u.told = s.told /\ u.exited = s.exited
  BY DEF ExecuteTransaction, NodeState
<1> HIDE DEF u
<1>. QED
  BY <1>1 DEF Aside, SameOwn, u

LEMMA RecordAside ==
  ASSUME NEW s \in NodeState, NEW seq, NEW c
  PROVE  /\ Aside(s, RecordCommit(s, seq, c)) /\ Aside(s, Exited(s))
         /\ \A x : Aside(s, [s EXCEPT !.last_executed_seq = x])
  BY DEF Aside, SameOwn, RecordCommit, Exited, NodeState

LEMMA ExecuteNextAside ==
  ASSUME NEW n \in Node, NEW s, Sound(s, n), ~ s.leads
  PROVE  Aside(s, ExecuteNext(s, n))
<1> DEFINE seq == s.last_executed_seq + 1
           c == s.entries_to_commit[seq]
           moved == [s EXCEPT !.last_executed_seq = seq]
           ran == ExecuteTransaction(moved, seq, c.txn, c.status)
           p2 == s.accept_log[seq].p2
           resolved == IF p2 = "" THEN ran
                       ELSE ExecuteRepeatedTwoPCEntry(ran, n, seq, c.txn, p2)
<1>1. s \in NodeState
  BY DEF Sound
<1>2. CASE seq \notin Seqnum \/ c = NoCommit
  <2>1. ExecuteNext(s, n) = s
    BY <1>2 DEF ExecuteNext
  <2>. QED
    BY <2>1 DEF Aside, SameOwn
<1>3. CASE seq \in Seqnum /\ c # NoCommit
  <2>1. ExecuteNext(s, n) = AfterExecution(resolved, n, seq, c.txn, c.status,
                                Sufficient(s, c.txn) /\ c.status # "A")
    BY <1>3 DEF ExecuteNext
  <2>2. c \in CommitRecord
    BY <1>1, <1>3 DEF NodeState
  <2>3. c.txn \in Txn
    BY <2>2 DEF CommitRecord
  <2>4. seq \in 0 .. MaxSeq
    BY <1>3, ConstantsAssumption DEF Seqnum
  <2>5. Aside(s, moved) /\ ~ moved.leads
    BY <1>1, RecordAside DEF NodeState
  <2>6. Sound(moved, n)
    <3>1. /\ moved \in NodeState /\ moved.accept_log = s.accept_log
          /\ moved.out = s.out
          /\ moved.digest_to_seqnum = s.digest_to_seqnum
          /\ moved.in_flight_prepares = s.in_flight_prepares
      BY <1>1, <2>4 DEF NodeState
    <3> HIDE DEF moved
    <3>. QED
      BY <3>1, SameAnchors DEF Kept
  <2> HIDE DEF moved, c
  <2>7. Sound(ran, n) /\ Aside(moved, ran) /\ ran \in NodeState
    BY <1>3, <2>3, <2>6, ExecuteSound, ExecuteAside DEF Sound
  <2>8. ~ ran.leads
    BY <2>5, <2>7 DEF Aside, SameOwn
  <2> HIDE DEF ran
  <2>9. Aside(ran, resolved)
    <3>1. Aside(ran, ran)
      BY DEF Aside, SameOwn
    <3>. QED
      BY <2>7, <2>8, <3>1, ResolveAside
  <2>13. resolved \in NodeState
    <3>1. s.accept_log \in [Seqnum -> Entry \cup {NoEntry}]
      BY <1>1 DEF NodeState
    <3> HIDE DEF seq
    <3>2. s.accept_log[seq] \in Entry \/ s.accept_log[seq] = NoEntry
      BY <1>3, <3>1
    <3>3. NoEntry.p2 = "" /\ \A y \in Entry : y.p2 \in SecondPhase \cup {""}
      BY DEF Entry, NoEntry
    <3>4. p2 = "" \/ p2 \in SecondPhase
      BY <3>2, <3>3
    <3> HIDE DEF p2
    <3>. QED
      BY <1>3, <2>3, <2>7, <3>4, ResolveSound DEF Sound
  <2>10. Aside(s, resolved) /\ ~ resolved.leads
    BY <2>5, <2>7, <2>8, <2>9, AsideFollows, ZenonT(60) DEF Aside, SameOwn
  <2> HIDE DEF resolved
  <2> DEFINE dropped == [resolved EXCEPT !.blank_votes = @ \ {seq}]
  <2>11. ExecuteNext(s, n) = dropped
    BY <2>1, <2>10 DEF AfterExecution
  <2>12. Aside(resolved, dropped)
    BY <2>13 DEF Aside, SameOwn, NodeState
  <2>. QED
    BY <2>10, <2>11, <2>12, AsideFollows
<1>. QED
  BY <1>2, <1>3

LEMMA LoopAside ==
  ASSUME NEW n \in Node, NEW s, Sound(s, n), ~ s.leads
  PROVE  Aside(s, SequentiallyExecuteCommittedEntries(s, n))
<1>1. PICK f : /\ f[0] = s
               /\ f[MaxSeq] = SequentiallyExecuteCommittedEntries(s, n)
               /\ \A i \in 1 .. MaxSeq : f[i] = ExecuteNext(f[i - 1], n)
  BY LoopIsChain
<1> DEFINE Good(i) == Sound(f[i], n) /\ Aside(s, f[i])
           Bad == {i \in 0 .. MaxSeq : ~ Good(i)}
<1>2. ASSUME NEW k \in Bad, \A i \in Bad : k <= i PROVE FALSE
  <2>1. k \in Nat /\ k \in 0 .. MaxSeq /\ MaxSeq \in Nat
    BY <1>2, ConstantsAssumption
  <2>2. k # 0
    BY <1>1, <1>2 DEF Aside, SameOwn
  <2>3. k \in 1 .. MaxSeq /\ k - 1 \in 0 .. MaxSeq /\ ~ (k <= k - 1)
    BY <2>1, <2>2
  <2>4. Sound(f[k - 1], n) /\ Aside(s, f[k - 1])
    BY <1>2, <2>3
  <2>5. ~ f[k - 1].leads
    BY <2>4 DEF Aside, SameOwn
  <2>6. Sound(f[k], n) /\ Aside(f[k - 1], f[k])
    BY <1>1, <2>3, <2>4, <2>5, ExecuteNextSound, ExecuteNextAside
  <2>7. Aside(s, f[k])
    BY <2>4, <2>6, AsideFollows
  <2>. QED
    BY <1>2, <2>6, <2>7
<1>3. Bad = {}
  <2>1. Bad \in SUBSET Nat
    BY ConstantsAssumption
  <2> HIDE DEF Bad
  <2>. QED
    BY <1>2, <2>1, LeastElement
<1>4. MaxSeq \in 0 .. MaxSeq
  BY ConstantsAssumption
<1>. QED
  BY <1>1, <1>3, <1>4

\* A commit goes to a backup, which sends nothing when it records it.
LEMMA CommitAside ==
  ASSUME TypeInv, ProgressInv, NEW n \in Node, NEW m \in msgs, HandleCommit(n, m)
  PROVE  /\ ~ Leads(n) /\ m.type = "Commit"
         /\ \E v \in NodeState : Aside(node[n], v) /\ Finish(n, v, {m})
<1> DEFINE s == node[n]
           u == RecordCommit(s, m.seq, m.c)
<1>1. /\ s \in NodeState /\ Own(s, n) /\ msgs \subseteq Message
      /\ View(node, msgs, replies) /\ Sound(s, n)
  BY NodeFacts DEF TypeInv, TypeOK, ProgressInv, View
<1>2. m.type = "Commit" /\ m.to = n
  BY DEF HandleCommit
<1>3. m.seq \in Seqnum /\ m.c \in CommitRecord
  BY <1>1, <1>2 DEF Message
<1>4. m.c.txn \in Txn
  BY <1>3 DEF CommitRecord
<1>5. ~ Leads(n) /\ ~ s.leads
  <2>1. Shaped(m, node)
    BY <1>1 DEF View
  <2>. QED
    BY <1>1, <1>2, <2>1 DEF Shaped, Own
<1>6. \/ \E v \in {u, Exited(u), SequentiallyExecuteCommittedEntries(u, n)} :
           Finish(n, v, {m})
      \/ /\ m.c.status \in SecondPhase
         /\ Finish(n, ExecuteRepeatedTwoPCEntry(u, n, m.seq, m.c.txn,
                                                m.c.status), {m})
  BY DEF HandleCommit
<1>7. Sound(u, n) /\ Aside(s, u) /\ u \in NodeState
  BY <1>1, <1>3, RecordCommitSound, RecordAside DEF Sound
<1>8. ~ u.leads
  BY <1>5, <1>7 DEF Aside, SameOwn
<1> HIDE DEF u, s
<1>9. Aside(s, Exited(u)) /\ Exited(u) \in NodeState
  BY <1>7, AsideFollows, ExitedSound, RecordAside DEF Sound
<1>10. LET v == SequentiallyExecuteCommittedEntries(u, n)
       IN Aside(s, v) /\ v \in NodeState
  BY <1>7, <1>8, AsideFollows, LoopAside, LoopSound DEF Sound
<1>11. m.c.status \in SecondPhase =>
         LET v == ExecuteRepeatedTwoPCEntry(u, n, m.seq, m.c.txn, m.c.status)
         IN Aside(s, v) /\ v \in NodeState
  BY <1>3, <1>4, <1>7, <1>8, AsideFollows, ResolveAside, ResolveSound
     DEF Sound
<1>12. \E v \in NodeState : Aside(s, v) /\ Finish(n, v, {m})
  BY <1>6, <1>7, <1>9, <1>10, <1>11
<1>. QED
  BY <1>2, <1>5, <1>12 DEF s

LEMMA HandleCommitProgress ==
  ASSUME TypeInv, ProgressInv, NEW n \in Node, NEW m \in msgs, HandleCommit(n, m)
  PROVE  ProgressInv'
<1>1. node[n].out = {} /\ node[n].told = {} /\ Own(node[n], n)
  BY NodeFacts DEF TypeInv, ProgressInv, View
<1>2. ~ Leads(n) /\ m.type = "Commit"
  BY CommitAside
<1>3. PICK v \in NodeState : Aside(node[n], v) /\ Finish(n, v, {m})
  BY CommitAside
<1>4. /\ SameOwn(node[n], v) /\ v.out = {} /\ v.told = {}
      /\ node[n].exited => v.exited
  BY <1>1, <1>3 DEF Aside
<1>5. Own(v, n)
  BY <1>1, <1>4, SameOwnOwn
<1>6. \A t \in Txn : SameMail(msgs, (msgs \ {m}) \cup v.out, t)
  BY <1>2, <1>4 DEF SameMail
<1>7. \A q \in Node : StillChasing(msgs, (msgs \ {m}) \cup v.out, q)
  <2>1. \A x \in msgs \ ((msgs \ {m}) \cup v.out) : x.type \notin {"Accept", "Ack"}
    BY <1>2
  <2>. QED
    BY <2>1, OtherMail
<1>8. \A x \in v.out : Shaped(x, node)
  BY <1>4
<1>. QED
  BY <1>2, <1>3, <1>4, <1>5, <1>6, <1>7, <1>8, QuietStep

-----------------------------------------------------------------------------
\* A leader claims transfer t and proposes the next entry for it.

\* The account that t locks at leader n.
Locks(n, t, a) ==
  \/ IntraShard(t) /\ a \in {From[t], To[t]}
  \/ ~ IntraShard(t) /\ a = IF n = Coord(t) THEN From[t] ELSE To[t]

Claims(s, u, n, t, status) ==
  LET seq == s.last_seqnum + 1 IN
  /\ seq \in Seqnum
  /\ u.alive = s.alive /\ u.exited = s.exited /\ u.leads = s.leads
  /\ u.counter = s.counter
  /\ u.max_seqnum_in_new_view = s.max_seqnum_in_new_view
  /\ u.cluster_leaders = s.cluster_leaders
  /\ u.pending_or_completed_ts = s.pending_or_completed_ts \cup {t}
  /\ u.prepare_and_aborted_queue = s.prepare_and_aborted_queue
  /\ u.in_flight_transactions = s.in_flight_transactions
  /\ \A y \in Txn : y # t => u.in_flight_prepares[y] = s.in_flight_prepares[y]
  /\ u.in_flight_prepares[t].sent => n = Coord(t) /\ ~ IntraShard(t)
  /\ u.last_executed_seq = s.last_executed_seq
  /\ u.last_seqnum = seq
  /\ \A x \in Seqnum : x # seq => u.accept_log[x] = s.accept_log[x]
  /\ u.accept_log[seq] = [txn |-> t, status |-> status, counter |-> 1, p2 |-> ""]
  /\ \A y \in Txn : y # t => u.digest_to_seqnum[y] = s.digest_to_seqnum[y]
  /\ u.digest_to_seqnum[t] = seq
  /\ u.entries_to_commit = s.entries_to_commit
  /\ u.accepted_count = s.accepted_count \cup {<<seq, 1, n>>}
  /\ u.accepted_count_two_pc_commit = s.accepted_count_two_pc_commit
  /\ \A x \in u.blank_votes : x \in s.blank_votes \/ (x = seq /\ status = "A")
  /\ \A a \in u.balance_locks : a \in s.balance_locks \/ Locks(n, t, a)

\* The next entry is fresh.
LEMMA FreshNumber ==
  ASSUME NEW n \in Node, NEW s \in NodeState, Orderly(s, n), NEW ms,
         Rounds(s, n, ms), s.last_seqnum + 1 \in Seqnum
  PROVE  LET seq == s.last_seqnum + 1
         IN /\ s.entries_to_commit[seq] = NoCommit
            /\ <<seq, 1, n>> \notin s.accepted_count_two_pc_commit
            /\ Votes(s.accepted_count_two_pc_commit, seq) = {}
            /\ Votes(s.accepted_count, seq) = {}
            /\ ~ (seq <= s.last_seqnum) /\ seq > s.last_seqnum
            /\ seq > s.last_executed_seq /\ ~ (seq <= s.last_executed_seq)
            /\ \A t \in Txn : s.digest_to_seqnum[t] # seq
<1> DEFINE seq == s.last_seqnum + 1
<1>1. s.last_seqnum \in Int /\ s.last_executed_seq \in Int
  BY Numbers
<1>2. /\ s.last_executed_seq <= s.last_seqnum /\ Filed(s, n, seq)
      /\ \A t \in Txn : Claimed(s, t)
  BY DEF Orderly
<1>3. /\ ~ (seq <= s.last_seqnum) /\ seq > s.last_seqnum
      /\ seq > s.last_executed_seq /\ ~ (seq <= s.last_executed_seq)
  BY <1>1, <1>2
<1>4. \A t \in Txn : s.digest_to_seqnum[t] # seq
  <2>1. \A t \in Txn : s.digest_to_seqnum[t] <= s.last_seqnum
    BY <1>2 DEF Claimed
  <2>. QED
    BY <1>1, <2>1, Numbers
<1> HIDE DEF seq
<1>5. /\ s.entries_to_commit[seq] = NoCommit
      /\ <<seq, 1, n>> \notin s.accepted_count_two_pc_commit
  BY <1>2, <1>3 DEF Filed
<1>6. /\ Votes(s.accepted_count_two_pc_commit, seq) = {}
      /\ Votes(s.accepted_count, seq) = {}
  BY <1>3, <1>5 DEF Rounds, seq
<1>. QED
  BY <1>3, <1>4, <1>5, <1>6 DEF seq

LEMMA ClaimsOwn ==
  ASSUME NEW n \in Node, NEW s \in NodeState, Own(s, n), NEW t \in Txn,
         NEW u, NEW status, Claims(s, u, n, t, status), n \in {Coord(t), Part(t)}
  PROVE  Own(u, n)
  BY DEF Claims, Own

LEMMA ClaimsOrderly ==
  ASSUME NEW n \in Node, NEW s \in NodeState, Orderly(s, n), NEW ms,
         Rounds(s, n, ms), NEW t \in Txn, t \notin s.pending_or_completed_ts,
         NEW u, NEW status \in Status, Claims(s, u, n, t, status),
         Suits(t, ClusterOf[n], status)
  PROVE  Orderly(u, n) /\ Later(s, u)
<1> DEFINE seq == s.last_seqnum + 1
<1>1. /\ seq \in Seqnum /\ u.last_seqnum = seq
      /\ u.last_executed_seq = s.last_executed_seq
      /\ u.entries_to_commit = s.entries_to_commit
      /\ u.accepted_count_two_pc_commit = s.accepted_count_two_pc_commit
      /\ u.pending_or_completed_ts = s.pending_or_completed_ts \cup {t}
      /\ u.digest_to_seqnum[t] = seq
      /\ u.accept_log[seq] = [txn |-> t, status |-> status, counter |-> 1,
                              p2 |-> ""]
      /\ \A x \in Seqnum : x # seq => u.accept_log[x] = s.accept_log[x]
      /\ \A y \in Txn : y # t => u.digest_to_seqnum[y] = s.digest_to_seqnum[y]
      /\ \A x \in u.blank_votes : x \in s.blank_votes \/ (x = seq /\ status = "A")
  BY DEF Claims
<1>2. /\ s.entries_to_commit[seq] = NoCommit
      /\ <<seq, 1, n>> \notin s.accepted_count_two_pc_commit
      /\ ~ (seq <= s.last_seqnum) /\ seq > s.last_seqnum
      /\ seq > s.last_executed_seq /\ ~ (seq <= s.last_executed_seq)
      /\ \A y \in Txn : s.digest_to_seqnum[y] # seq
  BY <1>1, FreshNumber
<1>3. seq = s.last_seqnum + 1 /\ s.last_seqnum \in Int /\ s.last_executed_seq \in Int
  BY Numbers
<1>4. /\ \A x \in Seqnum : x <= seq => x = seq \/ x <= s.last_seqnum
      /\ \A x \in Seqnum : x <= s.last_seqnum => x <= seq
  BY <1>3, Numbers
<1>5. /\ s.last_executed_seq <= s.last_seqnum
      /\ \A x \in Seqnum : Filed(s, n, x)
      /\ \A y \in Txn : Claimed(s, y)
  BY DEF Orderly
<1> HIDE DEF seq
<1>0. seq \in Seqnum /\ seq # 0
  <2>1. seq \in Seqnum
    BY <1>1
  <2>. QED
    BY <2>1, Numbers
<1>10. /\ u.last_seqnum = seq /\ u.digest_to_seqnum[t] = seq
       /\ u.last_executed_seq = s.last_executed_seq
       /\ u.entries_to_commit = s.entries_to_commit
       /\ u.accepted_count_two_pc_commit = s.accepted_count_two_pc_commit
  BY <1>1
<1>11. /\ u.accept_log[seq].txn = t /\ u.accept_log[seq].counter = 1
       /\ u.accept_log[seq].p2 = "" /\ u.accept_log[seq] \in Entry
  <2> DEFINE e == [txn |-> t, status |-> status, counter |-> 1, p2 |-> ""]
  <2>1. e.txn = t /\ e.counter = 1 /\ e.p2 = "" /\ e \in Entry
    BY DEF Entry
  <2>2. u.accept_log[seq] = e
    BY <1>1
  <2> HIDE DEF e
  <2>. QED
    BY <2>1, <2>2
<1>6. u.last_executed_seq <= u.last_seqnum /\ s.last_seqnum <= seq /\ seq <= seq
  BY <1>0, <1>3, <1>5, <1>10
<1>7. ASSUME NEW y \in Txn PROVE Claimed(u, y)
  <2>1. CASE y = t
    <3>1. t \in u.pending_or_completed_ts
      BY <1>1
    <3>. QED
      BY <1>0, <1>6, <1>10, <1>11, <2>1, <3>1 DEF Claimed
  <2>2. CASE y # t
    <3>1. Claimed(s, y)
      BY <1>5
    <3>2. s.digest_to_seqnum[y] <= seq
      <4>1. s.digest_to_seqnum[y] <= s.last_seqnum /\ s.digest_to_seqnum[y] \in Int
        BY <3>1, Numbers DEF Claimed
      <4>. QED
        BY <1>3, <4>1
    <3>3. s.digest_to_seqnum[y] # 0 =>
            u.accept_log[s.digest_to_seqnum[y]] = s.accept_log[s.digest_to_seqnum[y]]
      BY <1>1, <1>2, Numbers
    <3>. QED
      BY <1>1, <2>2, <3>1, <3>2, <3>3 DEF Claimed
  <2>. QED
    BY <2>1, <2>2
<1>8. ASSUME NEW x \in Seqnum PROVE Filed(u, n, x)
  <2>1. CASE x = seq
    <3>3. x \in u.blank_votes => status = "A"
      <4>1. x \notin s.blank_votes
        BY <1>2, <1>5, <2>1 DEF Filed
      <4>. QED
        BY <1>1, <2>1, <4>1
    <3>. QED
      BY <1>2, <1>6, <1>10, <1>11, <2>1, <3>3 DEF Filed
  <2>2. CASE x # seq
    <3>1. Filed(s, n, x) /\ u.accept_log[x] = s.accept_log[x]
      BY <1>1, <1>5, <2>2
    <3>2. x <= seq <=> x <= s.last_seqnum
      BY <1>4, <2>2
    <3>3. x \in u.blank_votes => x \in s.blank_votes
      BY <1>1, <2>2
    <3>4. x <= s.last_seqnum =>
            /\ s.accept_log[x] \in Entry
            /\ u.digest_to_seqnum[s.accept_log[x].txn] = x
      <4>1. SUFFICES ASSUME x <= s.last_seqnum
                     PROVE  /\ s.accept_log[x] \in Entry
                            /\ u.digest_to_seqnum[s.accept_log[x].txn] = x
        OBVIOUS
      <4>2. /\ s.accept_log[x] \in Entry
            /\ s.digest_to_seqnum[s.accept_log[x].txn] = x
        BY <3>1, <4>1 DEF Filed
      <4>3. s.accept_log[x].txn \in Txn
        BY <4>2 DEF Entry
      <4>4. s.accept_log[x].txn # t
        <5>1. s.digest_to_seqnum[t] = 0
          BY <1>5 DEF Claimed
        <5>. QED
          BY <4>2, <5>1, Numbers
      <4>. QED
        BY <1>1, <4>2, <4>3, <4>4
    <3>. QED
      BY <1>1, <3>1, <3>2, <3>3, <3>4 DEF Filed
  <2>. QED
    BY <2>1, <2>2
<1>9. Later(s, u)
  <2>1. \A x \in Seqnum : x <= s.last_seqnum => u.accept_log[x].txn = s.accept_log[x].txn
    BY <1>1, <1>2
  <2>. QED
    BY <1>1, <1>6, <2>1 DEF Later
<1>. QED
  BY <1>6, <1>7, <1>8, <1>9 DEF Orderly

LEMMA ClaimsRounds ==
  ASSUME Quorums, NEW n \in Node, NEW s \in NodeState, Orderly(s, n), NEW ms,
         Rounds(s, n, ms), NEW t \in Txn, NEW ms2, StillChasing(ms, ms2, n),
         NEW u, NEW status, Claims(s, u, n, t, status),
         \A q \in Peers(n) :
           Chasing(ms2, n, q, s.last_seqnum + 1, FirstPhase)
  PROVE  Rounds(u, n, ms2)
<1> DEFINE seq == s.last_seqnum + 1
<1>1. /\ seq \in Seqnum /\ u.last_seqnum = seq
      /\ u.entries_to_commit = s.entries_to_commit
      /\ u.accepted_count_two_pc_commit = s.accepted_count_two_pc_commit
      /\ u.accepted_count = s.accepted_count \cup {<<seq, 1, n>>}
  BY DEF Claims
<1>2. /\ Votes(s.accepted_count, seq) = {}
      /\ ~ (seq <= s.last_seqnum) /\ seq > s.last_seqnum
  BY <1>1, FreshNumber
<1>3. seq = s.last_seqnum + 1 /\ s.last_seqnum \in Int
  BY Numbers
<1>4. \A x \in Seqnum : x # seq => /\ x <= seq <=> x <= s.last_seqnum
                                   /\ x > seq <=> x > s.last_seqnum
  BY <1>3, Numbers
<1>5. \A q \in Peers(n) : Chasing(ms2, n, q, seq, FirstPhase)
  OBVIOUS
<1>6. Rounds(s, n, ms2)
  BY RoundsGoOn
<1>7. s.accepted_count \in Tables
  BY DEF NodeState, Tables
<1> HIDE DEF seq
<1>8. /\ \A x \in Seqnum \ {seq} :
           Votes(u.accepted_count, x) = Votes(s.accepted_count, x)
      /\ ~ Quorate(u.accepted_count, seq)
  <2>1. \A x \in Seqnum \ {seq} :
          Votes(s.accepted_count \cup {<<seq, 1, n>>}, x)
            = Votes(s.accepted_count, x)
    BY DEF Votes
  <2>2. ~ Quorate(s.accepted_count \cup {<<seq, 1, n>>}, seq)
    BY <1>1, <1>2, <1>7, OwnVoteIsNoQuorum
  <2>3. u.accepted_count = s.accepted_count \cup {<<seq, 1, n>>}
    BY <1>1
  <2>. QED
    BY <2>1, <2>2, <2>3, Zenon
<1> DEFINE Round(w, x) ==
    /\ x <= w.last_seqnum => Polled(w.accepted_count, ms2, n, x, FirstPhase)
    /\ x > w.last_seqnum => Votes(w.accepted_count, x) = {}
    /\ w.entries_to_commit[x] = NoCommit => ~ Quorate(w.accepted_count, x)
<1>9. ASSUME NEW x \in Seqnum PROVE Round(u, x)
  <2>0. Round(s, x)
    BY <1>6 DEF Rounds
  <2>1. CASE x = seq
    <3>1. Polled(u.accepted_count, ms2, n, seq, FirstPhase)
      BY <1>1, <1>5 DEF Polled
    <3>2. ~ (seq > seq)
      BY <1>1, Numbers
    <3>. QED
      BY <1>1, <1>8, <2>1, <3>1, <3>2
  <2>2. CASE x # seq
    <3>1. Polled(s.accepted_count, ms2, n, x, FirstPhase) =>
            Polled(u.accepted_count, ms2, n, x, FirstPhase)
      BY <1>1 DEF Polled
    <3>2. Quorate(u.accepted_count, x) <=> Quorate(s.accepted_count, x)
      BY <1>8, <2>2 DEF Quorate
    <3>. QED
      BY <1>1, <1>4, <1>8, <2>0, <2>2, <3>1, <3>2
  <2>. QED
    BY <2>1, <2>2
<1>. QED
  BY <1>1, <1>6, <1>9 DEF Rounds

\* The new claim is neither executed nor in its second phase.
LEMMA ClaimsStart ==
  ASSUME NEW n \in Node, NEW s \in NodeState, Orderly(s, n), NEW ms,
         Rounds(s, n, ms), NEW t \in Txn, NEW u, NEW status,
         Claims(s, u, n, t, status)
  PROVE  ~ Ran(u, t) /\ ~ Begun(u, n, t) /\ ~ Ended(u, t)
<1> DEFINE seq == s.last_seqnum + 1
<1>1. /\ seq \in Seqnum /\ u.digest_to_seqnum[t] = seq
      /\ u.last_executed_seq = s.last_executed_seq
      /\ u.accepted_count_two_pc_commit = s.accepted_count_two_pc_commit
  BY DEF Claims
<1>2. /\ ~ (seq <= s.last_executed_seq)
      /\ <<seq, 1, n>> \notin s.accepted_count_two_pc_commit
      /\ Votes(s.accepted_count_two_pc_commit, seq) = {}
  BY <1>1, FreshNumber
<1> HIDE DEF seq
<1>3. ~ Ran(u, t)
  <2>1. seq \notin 1 .. s.last_executed_seq
    BY <1>1, <1>2, Numbers
  <2>. QED
    BY <1>1, <2>1 DEF Ran
<1>4. ~ Ended(u, t)
  BY <1>1, <1>2, EmptyIsNoQuorum DEF Ended
<1>. QED
  BY <1>1, <1>2, <1>3, <1>4 DEF Begun

LEMMA ClaimsLocks ==
  ASSUME NEW n \in Node, NEW s \in NodeState, Orderly(s, n), NEW ms,
         Rounds(s, n, ms), LocksHeld(s, n), NEW t \in Txn, NEW u, NEW status,
         t \notin s.pending_or_completed_ts, Claims(s, u, n, t, status)
  PROVE  LocksHeld(u, n)
<1>1. ~ Ran(u, t) /\ ~ Ended(u, t)
  BY ClaimsStart
<1>2. u.digest_to_seqnum[t] # 0
  <2>1. u.digest_to_seqnum[t] \in Seqnum
    BY DEF Claims
  <2>. QED
    BY <2>1, Numbers
<1>3. \A a : Locks(n, t, a) => Holds(u, n, t, a)
  BY <1>1, <1>2 DEF Locks, Holds
<1>4. ASSUME NEW y \in Txn, NEW a, Holds(s, n, y, a) PROVE Holds(u, n, y, a)
  <2>1. y # t
    <3>1. Claimed(s, t)
      BY DEF Orderly
    <3>. QED
      BY <1>4, <3>1 DEF Claimed, Holds
  <2>2. /\ u.digest_to_seqnum[y] = s.digest_to_seqnum[y]
        /\ u.last_executed_seq = s.last_executed_seq
        /\ u.accepted_count_two_pc_commit = s.accepted_count_two_pc_commit
    BY <2>1 DEF Claims
  <2>. QED
    BY <1>4, <2>2 DEF Holds, Ran, Ended
<1>5. /\ u.alive = s.alive
      /\ \A a \in u.balance_locks : a \in s.balance_locks \/ Locks(n, t, a)
  BY DEF Claims
<1>. QED
  BY <1>3, <1>4, <1>5 DEF LocksHeld

LEMMA ClaimsUndisturbed ==
  ASSUME NEW n \in Node, NEW s, NEW t \in Txn, NEW u, NEW status,
         Claims(s, u, n, t, status), NEW y \in Txn, y # t
  PROVE  Undisturbed(s, u, n, y)
<1>1. /\ u.digest_to_seqnum[y] = s.digest_to_seqnum[y]
      /\ u.last_executed_seq = s.last_executed_seq
      /\ u.accepted_count_two_pc_commit = s.accepted_count_two_pc_commit
      /\ y \in u.pending_or_completed_ts <=> y \in s.pending_or_completed_ts
      /\ u.prepare_and_aborted_queue = s.prepare_and_aborted_queue
      /\ u.in_flight_transactions = s.in_flight_transactions
      /\ u.in_flight_prepares[y] = s.in_flight_prepares[y]
      /\ u.exited = s.exited
  BY DEF Claims
<1>. QED
  BY <1>1 DEF Undisturbed, Ran, Begun, Ended

AcceptsOf(n, seq, e) ==
  {[type |-> "Accept", from |-> n, to |-> q, seq |-> seq, e |-> e] : q \in Peers(n)}

LEMMA AcceptsAre ==
  ASSUME NEW n \in Node, NEW seq \in Seqnum, NEW e \in Entry
  PROVE  /\ \A x \in AcceptsOf(n, seq, e) :
              /\ x \in Message /\ x.type = "Accept" /\ x.from = n
              /\ x.to \in Peers(n) /\ x.seq = seq /\ x.e = e
         /\ \A phase : e.status \in phase =>
              \A q \in Peers(n) : Chasing(AcceptsOf(n, seq, e), n, q, seq, phase)
         /\ \A nd : InRound(nd[n], n, seq, e.counter, e.status) =>
              \A x \in AcceptsOf(n, seq, e) : Shaped(x, nd)
         /\ \A s : Broadcast(s, n, [type |-> "Accept", from |-> n, to |-> n,
                                    seq |-> seq, e |-> e])
                     = Send(s, AcceptsOf(n, seq, e))
<1>1. \A x \in AcceptsOf(n, seq, e) :
        /\ x \in Message /\ x.type = "Accept" /\ x.from = n
        /\ x.to \in Peers(n) /\ x.seq = seq /\ x.e = e
  BY PeersAreNodes DEF AcceptsOf, Message
<1>2. ASSUME NEW phase, e.status \in phase, NEW q \in Peers(n)
      PROVE  Chasing(AcceptsOf(n, seq, e), n, q, seq, phase)
  <2> DEFINE x == [type |-> "Accept", from |-> n, to |-> q, seq |-> seq, e |-> e]
  <2>1. x \in AcceptsOf(n, seq, e)
    BY DEF AcceptsOf
  <2>2. Chases(x, n, q, seq, phase)
    BY <1>2 DEF Chases
  <2> HIDE DEF x
  <2>. QED
    BY <2>1, <2>2 DEF Chasing
<1>3. \A nd : InRound(nd[n], n, seq, e.counter, e.status) =>
        \A x \in AcceptsOf(n, seq, e) : Shaped(x, nd)
  BY <1>1 DEF Shaped
<1>4. {[[type |-> "Accept", from |-> n, to |-> n, seq |-> seq, e |-> e]
          EXCEPT !.to = q] : q \in Peers(n)} = AcceptsOf(n, seq, e)
  BY DEF AcceptsOf
<1>5. \A s : Broadcast(s, n, [type |-> "Accept", from |-> n, to |-> n,
                              seq |-> seq, e |-> e])
               = Send(s, AcceptsOf(n, seq, e))
  BY <1>4 DEF Broadcast
<1>. QED
  BY <1>1, <1>2, <1>3, <1>5

ClaimMail(n, t, ms, ms2, accepts) ==
  /\ ms2 \subseteq Message /\ accepts \subseteq ms2
  /\ \A m \in ms \ ms2 : m.type = "PREPARE" /\ m.txn = t
  /\ \A m \in ms2 \ ms :
       m \in accepts \/ /\ m.type = "PREPARE" /\ m.txn = t /\ ~ IntraShard(t)
                        /\ m.from = Coord(t) /\ m.to = Part(t)
  /\ ~ IntraShard(t) /\ n = Coord(t) => PrepareSent(ms2, t)
  /\ ~ IntraShard(t) /\ n = Part(t) => PrepareSent(ms, t)

LEMMA ClaimStage ==
  ASSUME NEW nd, nd \in [Node -> NodeState], NEW ms, NEW rep,
         View(nd, ms, rep), NEW n \in Node, NEW t \in Txn,
         n \in {Coord(t), Part(t)}, t \notin nd[n].pending_or_completed_ts,
         NEW u \in NodeState, NEW status, Claims(nd[n], u, n, t, status),
         NEW ms2,
         \A q, whats : (\E m \in ms2 : Brings(m, q, t, whats))
                          <=> (\E m \in ms : Brings(m, q, t, whats)),
         OneVote(ms, t) => OneVote(ms2, t),
         ~ IntraShard(t) /\ n = Coord(t) => PrepareSent(ms2, t),
         ~ IntraShard(t) /\ n = Part(t) => PrepareSent(ms, t)
  PROVE  Stage(t, [nd EXCEPT ![n] = u], ms2, rep)
<1> DEFINE nd2 == [nd EXCEPT ![n] = u]
           C == nd[Coord(t)]
           P == nd[Part(t)]
<1>1. Leads(n) /\ Coord(t) \in Node /\ Part(t) \in Node
  BY LeadersDiffer
<1>2. Orderly(nd[n], n) /\ Rounds(nd[n], n, ms)
  BY <1>1 DEF View
<1>3. ~ Ran(u, t) /\ ~ Begun(u, n, t) /\ ~ Ended(u, t)
  BY <1>2, ClaimsStart
<1>4. /\ t \in u.pending_or_completed_ts
      /\ u.prepare_and_aborted_queue = nd[n].prepare_and_aborted_queue
      /\ u.in_flight_transactions = nd[n].in_flight_transactions
  BY DEF Claims
<1>5. CASE IntraShard(t)
  <2>1. nd2[Coord(t)] = u
    BY <1>5, LeadersDiffer
  <2>. QED
    BY <1>3, <1>5, <2>1 DEF Stage
<1>6. CASE ~ IntraShard(t)
  <2>1. Orderly(C, Coord(t)) /\ Orderly(P, Part(t)) /\ Stage(t, nd, ms, rep)
    BY LeadersDiffer DEF View
  <2>2. CrossStage(t, C, P, ms, rep)
    BY <1>6, <2>1 DEF Stage
  <2>3. /\ t \notin C.pending_or_completed_ts => C.digest_to_seqnum[t] = 0
        /\ t \notin P.pending_or_completed_ts => P.digest_to_seqnum[t] = 0
    BY <2>1 DEF Orderly, Claimed
  <2>4. /\ t \notin C.pending_or_completed_ts => ~ Begun(C, Coord(t), t)
        /\ t \notin P.pending_or_completed_ts =>
             ~ Ran(P, t) /\ ~ Begun(P, Part(t), t)
    BY <2>3 DEF Ran, Begun
  <2>5. /\ VoteSent(ms2, t) <=> VoteSent(ms, t)
        /\ DecisionSent(ms2, t) <=> DecisionSent(ms, t)
    BY DEF VoteSent, DecisionSent
  <2>6. CASE n = Coord(t)
    <3>1. nd2[Coord(t)] = u /\ nd2[Part(t)] = P /\ nd[n] = C
      BY <1>6, <2>6, LeadersDiffer
    <3> HIDE DEF nd2, C, P
    <3>2. CrossStage(t, u, P, ms2, rep)
      BY <1>3, <1>4, <1>6, <2>2, <2>4, <2>5, <2>6, <3>1
         DEF CrossStage, Parked
    <3>. QED
      BY <1>6, <3>1, <3>2 DEF Stage, nd2
  <2>7. CASE n = Part(t)
    <3>1. nd2[Coord(t)] = C /\ nd2[Part(t)] = u /\ nd[n] = P
      BY <1>6, <2>7, LeadersDiffer
    <3> HIDE DEF nd2, C, P
    <3>2. CrossStage(t, C, u, ms2, rep)
      BY <1>3, <1>4, <1>6, <2>2, <2>4, <2>5, <2>7, <3>1
         DEF CrossStage, Parked
    <3>. QED
      BY <1>6, <3>1, <3>2 DEF Stage, nd2
  <2>. QED
    BY <2>6, <2>7
<1>. QED
  BY <1>5, <1>6

LEMMA ClaimView ==
  ASSUME Quorums, NEW nd, nd \in [Node -> NodeState], NEW ms, NEW rep,
         View(nd, ms, rep), NEW n \in Node, NEW t \in Txn,
         n \in {Coord(t), Part(t)}, t \notin nd[n].pending_or_completed_ts,
         NEW u \in NodeState, NEW status \in FirstPhase,
         Suits(t, ClusterOf[n], status),
         Claims(nd[n], u, n, t, status), NEW e \in Entry,
         e.status = status, e.counter = 1, NEW ms2,
         ClaimMail(n, t, ms, ms2, AcceptsOf(n, nd[n].last_seqnum + 1, e))
  PROVE  View([nd EXCEPT ![n] = u], ms2, rep)
<1> DEFINE s == nd[n]
           nd2 == [nd EXCEPT ![n] = u]
           seq == s.last_seqnum + 1
           accepts == AcceptsOf(n, seq, e)
<1>1. /\ Leads(n) /\ Own(s, n) /\ Orderly(s, n) /\ Rounds(s, n, ms)
      /\ LocksHeld(s, n) /\ s \in NodeState
  BY LeadersDiffer DEF View
<1>2. /\ seq \in Seqnum /\ seq = u.last_seqnum /\ u.accept_log[seq].txn = t
  <2> DEFINE f == [txn |-> t, status |-> status, counter |-> 1, p2 |-> ""]
  <2>1. u.accept_log[seq] = f /\ f.txn = t
    BY DEF Claims
  <2> HIDE DEF f
  <2>2. seq \in Seqnum /\ seq = u.last_seqnum
    BY DEF Claims
  <2>. QED
    BY <2>1, <2>2
<1>3. /\ ms2 \in SUBSET Message /\ accepts \subseteq ms2
      /\ \A m \in ms \ ms2 : m.type = "PREPARE" /\ m.txn = t
      /\ \A m \in ms2 \ ms :
           m \in accepts \/ /\ m.type = "PREPARE" /\ m.txn = t
                            /\ ~ IntraShard(t)
                            /\ m.from = Coord(t) /\ m.to = Part(t)
      /\ ~ IntraShard(t) /\ n = Coord(t) => PrepareSent(ms2, t)
      /\ ~ IntraShard(t) /\ n = Part(t) => PrepareSent(ms, t)
  BY DEF ClaimMail
<1>4. nd2[n] = u
  OBVIOUS
<1>5. Claims(s, u, n, t, status) /\ t \notin s.pending_or_completed_ts
  OBVIOUS
<1> HIDE DEF s, nd2
<1>6. /\ \A x \in accepts : x.type = "Accept"
      /\ \A q \in Peers(n) : Chasing(accepts, n, q, seq, FirstPhase)
      /\ InRound(nd2[n], n, seq, e.counter, e.status) =>
           \A x \in accepts : Shaped(x, nd2)
  <2>1. seq \in Seqnum
    BY <1>2
  <2> HIDE DEF seq
  <2>2. \A x \in accepts : x.type = "Accept"
    BY <2>1, AcceptsAre
  <2>3. \A q \in Peers(n) : Chasing(accepts, n, q, seq, FirstPhase)
    BY <2>1, AcceptsAre
  <2>4. InRound(nd2[n], n, seq, e.counter, e.status) =>
           \A x \in accepts : Shaped(x, nd2)
    BY <2>1, AcceptsAre
  <2>. QED
    BY <2>2, <2>3, <2>4
<1> HIDE DEF accepts
<1>7. status \in Status /\ status \notin SecondPhase
  BY DEF FirstPhase, Status, SecondPhase
<1>8. Own(u, n)
  BY <1>1, <1>5, ClaimsOwn
<1>9. Orderly(u, n) /\ Later(s, u)
  BY <1>1, <1>5, <1>7, ClaimsOrderly
<1>10. LocksHeld(u, n)
  BY <1>1, <1>5, ClaimsLocks
<1>11. \A q : StillChasing(ms, ms2, q)
  BY <1>3, OtherMail
<1>12. Rounds(u, n, ms2)
  <2>1. \A q \in Peers(n) : Chasing(ms2, n, q, seq, FirstPhase)
    BY <1>3, <1>6 DEF Chasing
  <2>. QED
    BY <1>1, <1>5, <1>11, <2>1, ClaimsRounds
<1>13. \A m \in ms2 \ ms : Shaped(m, nd2)
  <2>1. InRound(u, n, seq, 1, status)
    <3>1. u.last_seqnum \in Int
      BY Numbers
    <3>. QED
      BY <1>1, <1>2, <1>7, <3>1 DEF InRound
  <2>2. \A x \in accepts : Shaped(x, nd2)
    BY <1>4, <1>6, <2>1
  <2>. QED
    BY <1>3, <2>2 DEF Shaped
<1>14. ASSUME NEW y \in Txn PROVE Stage(y, nd2, ms2, rep)
  <2>1. CASE y # t
    <3>1. SameMail(ms, ms2, y)
      BY <1>3, <1>6, <2>1 DEF SameMail
    <3>2. Undisturbed(nd[n], u, n, y)
      BY <2>1, ClaimsUndisturbed
    <3>. QED
      BY <3>1, <3>2, SameStage DEF View, nd2
  <2>2. CASE y = t
    <3>1. \A q, whats : (\E m \in ms2 : Brings(m, q, t, whats))
                          <=> (\E m \in ms : Brings(m, q, t, whats))
      BY <1>3, <1>6 DEF Brings
    <3>2. OneVote(ms, t) => OneVote(ms2, t)
      BY <1>3, <1>6 DEF OneVote, Brings
    <3>. QED
      BY <1>3, <2>2, <3>1, <3>2, ClaimStage DEF nd2
  <2>. QED
    BY <2>1, <2>2
<1>. QED
  BY <1>3, <1>8, <1>9, <1>10, <1>11, <1>12, <1>13, <1>14, UpdateView
     DEF s, nd2

\* The leader's state when it has taken the locks and sent a PREPARE.
Marked(s, locks, prepares, sent) ==
  [s EXCEPT !.balance_locks = locks, !.in_flight_prepares = prepares,
            !.out = sent]

FirstEntry(t, status) ==
  [txn |-> t, status |-> status, counter |-> 1, p2 |-> ""]

\* What it may have done before it proposes.
Ready(s, n, t, locks, prepares, sent) ==
  /\ locks \in SUBSET Account
  /\ prepares \in [Txn -> [sent : BOOLEAN, completed : BOOLEAN,
                           retries : {0, 1}]]
  /\ sent \in SUBSET Message
  /\ \A a \in locks : a \in s.balance_locks \/ Locks(n, t, a)
  /\ \A y \in Txn : y # t => prepares[y] = s.in_flight_prepares[y]
  /\ prepares[t].sent => n = Coord(t) /\ ~ IntraShard(t)

\* The state and the messages of a leader that has claimed transfer t.
Proposed(s, u, n, t, status, sent) ==
  /\ FirstEntry(t, status) \in Entry
  /\ FirstEntry(t, status).status = status
  /\ FirstEntry(t, status).counter = 1
  /\ u \in NodeState
  /\ Claims(s, u, n, t, status)
  /\ u.out = sent \cup AcceptsOf(n, s.last_seqnum + 1, FirstEntry(t, status))
  /\ u.told = s.told
  /\ u.accounts = s.accounts /\ u.wal = s.wal

LEMMA ProposeClaims ==
  ASSUME NEW n \in Node, NEW s \in NodeState, Own(s, n), NEW t \in Txn,
         NEW status \in Status, s.last_seqnum < MaxSeq,
         NEW locks, NEW prepares, NEW sent,
         Ready(s, n, t, locks, prepares, sent)
  PROVE  LET u == Propose(Marked(s, locks, prepares, sent), n, t, status)
         IN Proposed(s, u, n, t, status, sent) /\ u.balance_locks = locks
<1> DEFINE v == Marked(s, locks, prepares, sent)
<1>0. /\ locks \in SUBSET Account
      /\ prepares \in [Txn -> [sent : BOOLEAN, completed : BOOLEAN,
                               retries : {0, 1}]]
      /\ sent \in SUBSET Message
      /\ \A a \in locks : a \in s.balance_locks \/ Locks(n, t, a)
      /\ \A y \in Txn : y # t => prepares[y] = s.in_flight_prepares[y]
      /\ prepares[t].sent => n = Coord(t) /\ ~ IntraShard(t)
  BY DEF Ready
<1>1. /\ v \in NodeState /\ v.balance_locks = locks
      /\ v.in_flight_prepares = prepares /\ v.out = sent /\ v.told = s.told
      /\ v.alive = s.alive /\ v.exited = s.exited /\ v.leads = s.leads
      /\ v.counter = s.counter
      /\ v.max_seqnum_in_new_view = s.max_seqnum_in_new_view
      /\ v.cluster_leaders = s.cluster_leaders
      /\ v.pending_or_completed_ts = s.pending_or_completed_ts
      /\ v.prepare_and_aborted_queue = s.prepare_and_aborted_queue
      /\ v.in_flight_transactions = s.in_flight_transactions
      /\ v.last_executed_seq = s.last_executed_seq
      /\ v.last_seqnum = s.last_seqnum
      /\ v.accept_log = s.accept_log
      /\ v.digest_to_seqnum = s.digest_to_seqnum
      /\ v.entries_to_commit = s.entries_to_commit
      /\ v.accepted_count = s.accepted_count
      /\ v.accepted_count_two_pc_commit = s.accepted_count_two_pc_commit
      /\ v.blank_votes = s.blank_votes
      /\ v.accounts = s.accounts /\ v.wal = s.wal
  BY <1>0 DEF NodeState, Marked
<1> HIDE DEF v
<1>2. v.counter = 1
  BY <1>1 DEF Own
<1> DEFINE seq == v.last_seqnum + 1
           e == [txn |-> t, status |-> status, counter |-> v.counter, p2 |-> ""]
           log == [v.accept_log EXCEPT ![seq] = e]
           digests == [v.digest_to_seqnum EXCEPT ![t] = seq]
           blanks == IF status = "A" THEN v.blank_votes \cup {seq}
                     ELSE v.blank_votes
           votes == v.accepted_count \cup {<<seq, v.counter, n>>}
           accepts == AcceptsOf(n, seq, e)
           w == [v EXCEPT
                    !.pending_or_completed_ts = @ \cup {t},
                    !.last_seqnum = seq,
                    !.pending_client_calls = @ \cup {seq},
                    !.blank_votes = IF status = "A" THEN @ \cup {seq} ELSE @,
                    !.accepted_count = @ \cup {<<seq, v.counter, n>>},
                    !.accept_log[seq] = e,
                    !.digest_to_seqnum[t] = seq]
           u == Send(w, accepts)
<1>3. seq \in Seqnum /\ seq \in 0 .. MaxSeq
  <2>1. v.last_seqnum \in 0 .. MaxSeq /\ MaxSeq \in Nat
    BY <1>1, ConstantsAssumption DEF NodeState
  <2>2. v.last_seqnum < MaxSeq
    BY <1>1
  <2>. QED
    BY <2>1, <2>2 DEF Seqnum
<1>4. e \in Entry /\ e.status = status /\ e.counter = 1
  BY <1>2 DEF Entry
<1>5. /\ v.accept_log \in [Seqnum -> Entry \cup {NoEntry}]
      /\ v.digest_to_seqnum \in [Txn -> 0 .. MaxSeq]
      /\ v.blank_votes \in SUBSET Seqnum
      /\ v.accepted_count \in SUBSET (Seqnum \X Nat \X Node)
  BY <1>1 DEF NodeState
<1>6. /\ log \in [Seqnum -> Entry \cup {NoEntry}]
      /\ digests \in [Txn -> 0 .. MaxSeq]
      /\ blanks \in SUBSET Seqnum
      /\ votes \in SUBSET (Seqnum \X Nat \X Node)
  <2> HIDE DEF seq, e
  <2>1. log \in [Seqnum -> Entry \cup {NoEntry}]
    BY <1>3, <1>4, <1>5
  <2>2. digests \in [Txn -> 0 .. MaxSeq]
    BY <1>3, <1>5
  <2>3. blanks \in SUBSET Seqnum
    BY <1>3, <1>5
  <2>4. votes \in SUBSET (Seqnum \X Nat \X Node)
    BY <1>2, <1>3, <1>5
  <2>. QED
    BY <2>1, <2>2, <2>3, <2>4
<1>7. /\ \A x \in Seqnum : x # seq => log[x] = v.accept_log[x]
      /\ log[seq] = e
      /\ \A y \in Txn : y # t => digests[y] = v.digest_to_seqnum[y]
      /\ digests[t] = seq
      /\ \A x \in blanks : x \in v.blank_votes \/ (x = seq /\ status = "A")
      /\ votes = v.accepted_count \cup {<<seq, 1, n>>}
  BY <1>2, <1>3, <1>5
<1>8. /\ accepts \in SUBSET Message
      /\ \A x : Broadcast(x, n, [type |-> "Accept", from |-> n, to |-> n,
                                 seq |-> seq, e |-> e]) = Send(x, accepts)
  <2> HIDE DEF seq, e
  <2>. QED
    BY <1>3, <1>4, AcceptsAre
<1>9. Propose(v, n, t, status) = u
  <2>1. Propose(v, n, t, status) =
          Broadcast(w, n, [type |-> "Accept", from |-> n, to |-> n,
                           seq |-> seq, e |-> e])
    BY DEF Propose
  <2> HIDE DEF w, accepts
  <2>. QED
    BY <1>8, <2>1
<1> HIDE DEF seq, e, accepts
<1>10. w = [v EXCEPT !.pending_or_completed_ts = @ \cup {t},
                     !.last_seqnum = seq,
                     !.pending_client_calls = @ \cup {seq},
                     !.blank_votes = blanks,
                     !.accepted_count = votes,
                     !.accept_log = log,
                     !.digest_to_seqnum = digests]
  BY <1>1 DEF NodeState
<1> HIDE DEF log, digests, blanks, votes, w
<1>11. w \in NodeState
  BY <1>1, <1>3, <1>6, <1>10, ZenonT(60) DEF NodeState
<1>12. /\ w.alive = v.alive /\ w.exited = v.exited /\ w.leads = v.leads
       /\ w.counter = v.counter
       /\ w.max_seqnum_in_new_view = v.max_seqnum_in_new_view
       /\ w.cluster_leaders = v.cluster_leaders
       /\ w.pending_or_completed_ts = v.pending_or_completed_ts \cup {t}
       /\ w.prepare_and_aborted_queue = v.prepare_and_aborted_queue
       /\ w.in_flight_transactions = v.in_flight_transactions
       /\ w.in_flight_prepares = v.in_flight_prepares
       /\ w.last_executed_seq = v.last_executed_seq
       /\ w.last_seqnum = seq
       /\ w.accept_log = log
       /\ w.digest_to_seqnum = digests
       /\ w.entries_to_commit = v.entries_to_commit
       /\ w.accepted_count = votes
       /\ w.accepted_count_two_pc_commit = v.accepted_count_two_pc_commit
       /\ w.blank_votes = blanks
       /\ w.balance_locks = v.balance_locks
       /\ w.out = v.out /\ w.told = v.told
       /\ w.accounts = v.accounts /\ w.wal = v.wal
  BY <1>1, <1>10 DEF NodeState
<1>13. /\ u \in NodeState
       /\ u.alive = w.alive /\ u.exited = w.exited /\ u.leads = w.leads
       /\ u.counter = w.counter
       /\ u.max_seqnum_in_new_view = w.max_seqnum_in_new_view
       /\ u.cluster_leaders = w.cluster_leaders
       /\ u.pending_or_completed_ts = w.pending_or_completed_ts
       /\ u.prepare_and_aborted_queue = w.prepare_and_aborted_queue
       /\ u.in_flight_transactions = w.in_flight_transactions
       /\ u.in_flight_prepares = w.in_flight_prepares
       /\ u.last_executed_seq = w.last_executed_seq
       /\ u.last_seqnum = w.last_seqnum
       /\ u.accept_log = w.accept_log
       /\ u.digest_to_seqnum = w.digest_to_seqnum
       /\ u.entries_to_commit = w.entries_to_commit
       /\ u.accepted_count = w.accepted_count
       /\ u.accepted_count_two_pc_commit = w.accepted_count_two_pc_commit
       /\ u.blank_votes = w.blank_votes
       /\ u.balance_locks = w.balance_locks
       /\ u.out = w.out \cup accepts /\ u.told = w.told
       /\ u.accounts = w.accounts /\ u.wal = w.wal
  BY <1>8, <1>11 DEF Send, NodeState
<1> HIDE DEF u
<1>14. Claims(s, u, n, t, status)
  <2>1. seq = s.last_seqnum + 1
    BY <1>1 DEF seq
  <2>2. u.accept_log[seq] = e
    BY <1>7, <1>12, <1>13
  <2>3. e = FirstEntry(t, status)
    BY <1>2 DEF e, FirstEntry
  <2>4. \A x \in Seqnum : x # seq => u.accept_log[x] = s.accept_log[x]
    BY <1>1, <1>7, <1>12, <1>13
  <2>5. \A y \in Txn : y # t => /\ u.digest_to_seqnum[y] = s.digest_to_seqnum[y]
                                /\ u.in_flight_prepares[y] = s.in_flight_prepares[y]
    BY <1>0, <1>1, <1>7, <1>12, <1>13
  <2>6. /\ u.digest_to_seqnum[t] = seq
        /\ u.in_flight_prepares[t].sent => n = Coord(t) /\ ~ IntraShard(t)
        /\ \A x \in u.blank_votes : x \in s.blank_votes \/ (x = seq /\ status = "A")
        /\ \A a \in u.balance_locks : a \in s.balance_locks \/ Locks(n, t, a)
    BY <1>0, <1>1, <1>7, <1>12, <1>13
  <2>7. /\ u.pending_or_completed_ts = s.pending_or_completed_ts \cup {t}
        /\ u.accepted_count = s.accepted_count \cup {<<seq, 1, n>>}
    BY <1>1, <1>7, <1>12, <1>13
  <2>8. u.accept_log[seq] = [txn |-> t, status |-> status, counter |-> 1, p2 |-> ""]
    BY <2>2, <2>3 DEF FirstEntry
  <2>. QED
    BY <1>1, <1>3, <1>12, <1>13, <2>1, <2>4, <2>5, <2>6, <2>7, <2>8 DEF Claims
<1>15. /\ seq = s.last_seqnum + 1
       /\ e = FirstEntry(t, status)
  BY <1>1, <1>2 DEF seq, e, FirstEntry
<1>16. u.out = sent \cup AcceptsOf(n, s.last_seqnum + 1, FirstEntry(t, status))
  <2>1. u.out = sent \cup accepts
    BY <1>1, <1>12, <1>13
  <2>. QED
    BY <1>15, <2>1 DEF accepts
<1>17. /\ u.told = s.told /\ u.accounts = s.accounts /\ u.wal = s.wal
       /\ u.balance_locks = locks
  BY <1>1, <1>12, <1>13
<1>. QED
  BY <1>4, <1>9, <1>13, <1>14, <1>15, <1>16, <1>17 DEF v, Proposed

\* A proposal does not change what is executed.
LEMMA ClaimsCaughtUp ==
  ASSUME NEW s, NEW u, NEW n, NEW t, NEW status, Claims(s, u, n, t, status),
         CaughtUp(s)
  PROVE  CaughtUp(u)
<1>1. /\ u.last_executed_seq = s.last_executed_seq
      /\ u.entries_to_commit = s.entries_to_commit
  BY DEF Claims
<1>. QED
  BY <1>1 DEF CaughtUp

\* The leader of the coordinator's cluster has claimed the transfer and locked
\* its accounts, and sent a PREPARE x to the other cluster's if there is one.
Requested(s, u, n, t, status, x) ==
  /\ x.type = "PREPARE" /\ x.txn = t /\ x.from = n /\ x.to = Part(t)
  /\ Proposed(s, u, n, t, status, IF IntraShard(t) THEN {} ELSE {x})
  /\ Suits(t, ClusterOf[n], status)
  /\ Needed(t) \cap s.balance_locks = {}
  /\ u.balance_locks = s.balance_locks \cup Needed(t)

LEMMA RequestClaims ==
  ASSUME sharding_map = shard_map, TypeInv, ProgressInv,
         NEW n \in Node, NEW t \in Txn, ProcessClientRequest(n, t)
  PROVE  LET s == node[n] IN
         /\ n = Coord(t) /\ Leads(n) /\ t \notin s.pending_or_completed_ts
         /\ \E u \in NodeState, status \in {"", "COORD"}, x \in Message :
              Finish(n, u, {}) /\ Requested(s, u, n, t, status, x)
<1> DEFINE s == node[n]
           locks == s.balance_locks \cup Needed(t)
           marked == [s.in_flight_prepares EXCEPT ![t].sent = TRUE]
           prepares == IF IntraShard(t) THEN s.in_flight_prepares ELSE marked
           x == PrepareMsg(n, s.cluster_leaders[PartCluster(t)], t, 0)
           sent == IF IntraShard(t) THEN {} ELSE {x}
           status == IF IntraShard(t) THEN "" ELSE "COORD"
           v == Marked(s, locks, prepares, sent)
           u == Propose(v, n, t, status)
<1>1. /\ s \in NodeState /\ s.out = {} /\ s.told = {} /\ Own(s, n)
      /\ node \in [Node -> NodeState] /\ msgs \subseteq Message
      /\ View(node, msgs, replies)
  BY NodeFacts DEF TypeInv, TypeOK, ProgressInv, View
<1>2. /\ s.leads /\ ClusterOf[n] = CoordCluster(t) /\ s.last_seqnum < MaxSeq
      /\ t \notin s.pending_or_completed_ts
  BY DEF ProcessClientRequest, Admissible, CoordCluster
<1>3. n = Coord(t) /\ Leads(n)
  BY <1>1, <1>2 DEF Own, Leads, Coord
<1>4. s.in_flight_prepares \in [Txn -> [sent : BOOLEAN,
                                 completed : BOOLEAN, retries : {0, 1}]]
  BY <1>1 DEF NodeState
<1>5. marked \in [Txn -> [sent : BOOLEAN, completed : BOOLEAN, retries : {0, 1}]]
      /\ \A y \in Txn : y # t => marked[y] = s.in_flight_prepares[y]
  BY <1>4
<1>6. /\ x.type = "PREPARE" /\ x.txn = t /\ x.from = n /\ x.to = Part(t)
      /\ x \in Message
  <2>1. s.cluster_leaders = FirstLeader
    BY <1>1 DEF Own
  <2>2. PartCluster(t) \in Cluster
    BY ConstantsAssumption DEF PartCluster
  <2>. QED
    BY <2>1, <2>2, ConstantsAssumption DEF PrepareMsg, Message, Part
<1>7. Finish(n, u, {})
  <2>1. CASE IntraShard(t)
    <3>1. [s EXCEPT !.balance_locks = @ \cup Needed(t)] = v
      BY <1>1, <2>1 DEF NodeState, Marked
    <3>. QED
      BY <2>1, <3>1 DEF ProcessClientRequest
  <2>2. CASE ~ IntraShard(t)
    <3>1. Send([[s EXCEPT !.balance_locks = @ \cup Needed(t)]
                  EXCEPT !.in_flight_prepares[t].sent = TRUE], {x}) = v
      BY <1>1, <2>2 DEF NodeState, Send, Marked
    <3>. QED
      BY <2>2, <3>1 DEF ProcessClientRequest
  <2>. QED
    BY <2>1, <2>2
<1>8. /\ prepares \in [Txn -> [sent : BOOLEAN, completed : BOOLEAN,
                               retries : {0, 1}]]
      /\ \A y \in Txn : y # t => prepares[y] = s.in_flight_prepares[y]
      /\ prepares[t].sent => n = Coord(t) /\ ~ IntraShard(t)
  <2> HIDE DEF marked
  <2>1. IntraShard(t) => ~ s.in_flight_prepares[t].sent
    BY <1>1 DEF Own
  <2>. QED
    BY <1>3, <1>4, <1>5, <2>1
<1>9. sent \in SUBSET Message /\ locks \in SUBSET Account
  <2>1. locks \in SUBSET Account
    <3>1. Needed(t) \in SUBSET Account
      BY ConstantsAssumption DEF Needed
    <3>2. s.balance_locks \in SUBSET Account
      BY <1>1 DEF NodeState
    <3>. QED
      BY <3>1, <3>2
  <2>. QED
    BY <1>6, <2>1
<1>10. \A a \in locks : a \in s.balance_locks \/ Locks(n, t, a)
  BY <1>3 DEF Needed, Locks
<1>11. /\ status \in Status /\ status \in FirstPhase
       /\ Suits(t, ClusterOf[n], status)
  BY <1>2 DEF Status, FirstPhase, Suits
<1>12. /\ status \in {"", "COORD"} /\ Needed(t) \cap s.balance_locks = {}
  BY DEF ProcessClientRequest, Admissible
<1> HIDE DEF s, locks, prepares, x, sent, status
<1>13. Proposed(s, u, n, t, status, sent) /\ u.balance_locks = locks
  <2>1. /\ s \in NodeState /\ Own(s, n) /\ status \in Status
        /\ s.last_seqnum < MaxSeq
    BY <1>1, <1>2, <1>11
  <2>2. Ready(s, n, t, locks, prepares, sent)
    BY <1>8, <1>9, <1>10 DEF Ready
  <2> HIDE DEF v
  <2>3. LET w == Propose(Marked(s, locks, prepares, sent), n, t, status)
        IN Proposed(s, w, n, t, status, sent) /\ w.balance_locks = locks
    BY <2>1, <2>2, ProposeClaims
  <2>. QED
    BY <2>3 DEF v
<1> HIDE DEF u
<1>14. u \in NodeState /\ u.balance_locks = s.balance_locks \cup Needed(t)
  BY <1>13 DEF Proposed, locks
<1>15. Requested(s, u, n, t, status, x)
  BY <1>6, <1>11, <1>12, <1>13, <1>14 DEF Requested, sent
<1>. QED
  BY <1>2, <1>3, <1>6, <1>7, <1>12, <1>14, <1>15 DEF s

LEMMA ProcessClientRequestProgress ==
  ASSUME Quorums, sharding_map = shard_map, TypeInv, ProgressInv,
         NEW n \in Node, NEW t \in Txn, ProcessClientRequest(n, t)
  PROVE  ProgressInv'
<1> DEFINE s == node[n]
<1>1. /\ s \in NodeState /\ s.told = {}
      /\ node \in [Node -> NodeState] /\ msgs \subseteq Message
      /\ View(node, msgs, replies)
  BY NodeFacts DEF TypeInv, TypeOK, ProgressInv, View
<1>2. n = Coord(t) /\ Leads(n) /\ t \notin s.pending_or_completed_ts
  BY RequestClaims
<1>3. PICK u \in NodeState, status \in {"", "COORD"}, x \in Message :
        Finish(n, u, {}) /\ Requested(s, u, n, t, status, x)
  BY RequestClaims
<1>4. /\ x.type = "PREPARE" /\ x.txn = t /\ x.from = n /\ x.to = Part(t)
      /\ Suits(t, ClusterOf[n], status)
  BY <1>3 DEF Requested
<1> DEFINE sent == IF IntraShard(t) THEN {} ELSE {x}
           e == FirstEntry(t, status)
           accepts == AcceptsOf(n, s.last_seqnum + 1, e)
           ms == (msgs \ {}) \cup u.out
<1> HIDE DEF s
<1>5. /\ e \in Entry /\ e.status = status /\ e.counter = 1
      /\ Claims(s, u, n, t, status) /\ status \in FirstPhase
      /\ u.out = sent \cup accepts /\ u.told = {}
  BY <1>1, <1>3 DEF Requested, Proposed, FirstPhase
<1> HIDE DEF e
<1>6. accepts \subseteq Message
  <2> DEFINE seq == s.last_seqnum + 1
  <2>1. seq \in Seqnum
    BY <1>5 DEF Claims
  <2> HIDE DEF seq
  <2>2. AcceptsOf(n, seq, e) \subseteq Message
    BY <1>5, <2>1, AcceptsAre
  <2>. QED
    BY <2>2 DEF seq
<1> HIDE DEF accepts
<1>7. \A y : y \in ms <=> y \in msgs \/ y \in accepts \/ (y = x /\ ~ IntraShard(t))
  BY <1>5
<1> HIDE DEF ms, sent
<1>8. ClaimMail(n, t, msgs, ms, accepts)
  <2>1. ms \subseteq Message /\ accepts \subseteq ms
    BY <1>1, <1>6, <1>7
  <2>2. ~ IntraShard(t) => PrepareSent(ms, t)
    BY <1>4, <1>7 DEF PrepareSent
  <2>3. ~ IntraShard(t) => n # Part(t)
    BY <1>2, LeadersDiffer
  <2>. QED
    BY <1>2, <1>4, <1>7, <2>1, <2>2, <2>3 DEF ClaimMail
<1>9. View([node EXCEPT ![n] = u], ms, replies)
  <2>1. n \in {Coord(t), Part(t)}
    BY <1>2
  <2>. QED
    BY <1>1, <1>2, <1>4, <1>5, <1>8, <2>1, ClaimView DEF accepts, s
<1>10. CaughtUp(u)
  BY <1>2, <1>5, ClaimsCaughtUp DEF ProgressInv, s
<1>11. replies \cup u.told = replies
  BY <1>5
<1>. QED
  BY <1>3, <1>9, <1>10, <1>11, FinishProgress DEF ms

-----------------------------------------------------------------------------
\* Votes.

\* The entry that is committed at x is the one in the log.
Recorded(s, n, x) ==
  /\ x <= s.last_seqnum
  /\ s.entries_to_commit[x].txn = s.accept_log[x].txn
  /\ s.entries_to_commit[x].status \in FirstPhase
  /\ Suits(s.accept_log[x].txn, ClusterOf[n], s.entries_to_commit[x].status)

\* The log keeps its entries.
SameEntries(s, u) ==
  /\ u.last_seqnum = s.last_seqnum
  /\ u.pending_or_completed_ts = s.pending_or_completed_ts
  /\ u.digest_to_seqnum = s.digest_to_seqnum
  /\ s.last_executed_seq <= u.last_executed_seq
  /\ s.accepted_count_two_pc_commit \subseteq u.accepted_count_two_pc_commit
  /\ \A x \in Seqnum :
       /\ u.accept_log[x].txn = s.accept_log[x].txn
       /\ u.accept_log[x].counter = s.accept_log[x].counter
       /\ s.accept_log[x] \in Entry => u.accept_log[x] \in Entry
       /\ x > u.last_executed_seq => u.accept_log[x].p2 = s.accept_log[x].p2
       /\ x \in u.blank_votes => x \in s.blank_votes

LEMMA SameEntriesOrderly ==
  ASSUME NEW n \in Node, NEW s \in NodeState, NEW u \in NodeState,
         Orderly(s, n), SameEntries(s, u), u.last_executed_seq <= u.last_seqnum,
         \A x \in Seqnum :
           /\ x <= u.last_executed_seq => u.entries_to_commit[x] # NoCommit
           /\ \/ u.entries_to_commit[x] = s.entries_to_commit[x]
              \/ Recorded(u, n, x)
           /\ <<x, 1, n>> \in u.accepted_count_two_pc_commit =>
                \/ <<x, 1, n>> \in s.accepted_count_two_pc_commit
                \/ x <= u.last_executed_seq
  PROVE  Orderly(u, n) /\ Later(s, u)
<1>1. \A t \in Txn : Claimed(u, t)
  <2>1. ASSUME NEW t \in Txn PROVE Claimed(u, t)
    <3>1. Claimed(s, t)
      BY DEF Orderly
    <3>2. s.digest_to_seqnum[t] # 0 =>
            u.accept_log[s.digest_to_seqnum[t]].txn
              = s.accept_log[s.digest_to_seqnum[t]].txn
      BY Numbers DEF SameEntries
    <3>. QED
      BY <3>1, <3>2 DEF Claimed, SameEntries
  <2>. QED
    BY <2>1
<1>2. ASSUME NEW x \in Seqnum PROVE Filed(u, n, x)
  <2>1. Filed(s, n, x)
    BY DEF Orderly
  <2>2. /\ s.last_executed_seq <= u.last_executed_seq
        /\ u.last_seqnum = s.last_seqnum /\ u.digest_to_seqnum = s.digest_to_seqnum
        /\ u.accept_log[x].txn = s.accept_log[x].txn
        /\ u.accept_log[x].counter = s.accept_log[x].counter
        /\ s.accept_log[x] \in Entry => u.accept_log[x] \in Entry
        /\ x > u.last_executed_seq => u.accept_log[x].p2 = s.accept_log[x].p2
        /\ x \in u.blank_votes => x \in s.blank_votes
    BY DEF SameEntries
  <2>3. /\ x > u.last_executed_seq => x > s.last_executed_seq
        /\ x <= s.last_executed_seq => x <= u.last_executed_seq
    <3>1. /\ x \in Int /\ s.last_executed_seq \in Int
          /\ u.last_executed_seq \in Int
      BY Numbers
    <3>. QED
      BY <2>2, <3>1
  <2>4. /\ x <= u.last_executed_seq => u.entries_to_commit[x] # NoCommit
        /\ \/ u.entries_to_commit[x] = s.entries_to_commit[x]
           \/ Recorded(u, n, x)
        /\ <<x, 1, n>> \in u.accepted_count_two_pc_commit =>
             \/ <<x, 1, n>> \in s.accepted_count_two_pc_commit
             \/ x <= u.last_executed_seq
    OBVIOUS
  <2>5. x <= u.last_seqnum =>
          /\ u.accept_log[x] \in Entry
          /\ u.accept_log[x].counter = 1
          /\ u.digest_to_seqnum[u.accept_log[x].txn] = x
    BY <2>1, <2>2 DEF Filed
  <2>6. x > u.last_executed_seq => u.accept_log[x].p2 = ""
    BY <2>1, <2>2, <2>3 DEF Filed
  <2>7. u.entries_to_commit[x] # NoCommit => Recorded(u, n, x)
    BY <2>1, <2>2, <2>4 DEF Filed, Recorded
  <2>8. <<x, 1, n>> \in u.accepted_count_two_pc_commit => x <= u.last_executed_seq
    BY <2>1, <2>3, <2>4 DEF Filed
  <2>9. x \in u.blank_votes =>
          x <= u.last_seqnum /\ Suits(u.accept_log[x].txn, ClusterOf[n], "A")
    BY <2>1, <2>2 DEF Filed
  <2>. QED
    BY <2>4, <2>5, <2>6, <2>7, <2>8, <2>9 DEF Filed, Recorded
<1>3. Later(s, u)
  BY Numbers DEF SameEntries, Later
<1>. QED
  BY <1>1, <1>2, <1>3 DEF Orderly

\* Only votes of node q for entry seq of leader n are taken out.
Answered(ms, ms2, n, q, seq, phase) ==
  \A m \in ms \ ms2 : /\ m.type = "Ack" /\ m.from = q /\ m.to = n
                      /\ m.seq = seq /\ m.status \in phase

LEMMA OthersChase ==
  ASSUME NEW ms, NEW ms2, NEW n, NEW q, NEW seq, NEW phase,
         Answered(ms, ms2, n, q, seq, phase), NEW n2, n2 # n
  PROVE  StillChasing(ms, ms2, n2)
<1>1. \A m, p, x, ph : Chases(m, n2, p, x, ph) /\ m \in ms => m \in ms2
  BY DEF Chases, Answered
<1>. QED
  BY <1>1 DEF StillChasing, Chasing

Apart(phase, ph) == \A status \in phase : status \notin ph

LEMMA VotePolled ==
  ASSUME NEW ms, NEW ms2, NEW n, NEW q, NEW seq, NEW phase,
         Answered(ms, ms2, n, q, seq, phase), NEW count, NEW count2,
         count \subseteq count2, NEW x, NEW ph,
         \/ ph = phase /\ <<seq, 1, q>> \in count2
         \/ Apart(phase, ph),
         Polled(count, ms, n, x, ph)
  PROVE  Polled(count2, ms2, n, x, ph)
<1>1. <<x, 1, n>> \in count2
  BY DEF Polled
<1>2. ASSUME NEW p \in Peers(n)
      PROVE  <<x, 1, p>> \in count2 \/ Chasing(ms2, n, p, x, ph)
  <2>1. CASE <<x, 1, p>> \in count
    BY <2>1
  <2>2. CASE Chasing(ms, n, p, x, ph)
    <3>1. PICK m \in ms : Chases(m, n, p, x, ph)
      BY <2>2 DEF Chasing
    <3>2. CASE m \in ms2
      BY <3>1, <3>2 DEF Chasing
    <3>3. CASE m \notin ms2
      <4>1. /\ m.type = "Ack" /\ m.from = q /\ m.to = n
            /\ m.seq = seq /\ m.status \in phase
        BY <3>3 DEF Answered
      <4>2. m.from = p /\ m.seq = x /\ m.status \in ph
        BY <3>1, <4>1 DEF Chases
      <4>. QED
        BY <4>1, <4>2 DEF Apart
    <3>. QED
      BY <3>2, <3>3
  <2>. QED
    BY <2>1, <2>2 DEF Polled
<1>. QED
  BY <1>1, <1>2 DEF Polled

\* A leader has counted the vote of q in the first phase of entry seq.
Counted(s, u, n, seq, q) ==
  /\ u.alive = s.alive /\ u.exited = s.exited /\ SameOwn(s, u)
  /\ u.in_flight_transactions = s.in_flight_transactions
  /\ u.in_flight_prepares = s.in_flight_prepares
  /\ u.last_executed_seq = s.last_executed_seq
  /\ u.last_seqnum = s.last_seqnum
  /\ u.digest_to_seqnum = s.digest_to_seqnum
  /\ u.accept_log = s.accept_log
  /\ u.accepted_count_two_pc_commit = s.accepted_count_two_pc_commit
  /\ u.blank_votes = s.blank_votes
  /\ u.balance_locks = s.balance_locks
  /\ u.accepted_count = s.accepted_count \cup {<<seq, 1, q>>}
  /\ \A x \in Seqnum : x # seq => u.entries_to_commit[x] = s.entries_to_commit[x]
  /\ \/ u.entries_to_commit[seq] = s.entries_to_commit[seq]
     \/ s.entries_to_commit[seq] = NoCommit /\ Recorded(u, n, seq)
  /\ u.entries_to_commit[seq] = NoCommit => ~ Quorate(u.accepted_count, seq)

LEMMA CountedView ==
  ASSUME NEW nd, nd \in [Node -> NodeState], NEW ms, NEW ms2 \in SUBSET Message,
         NEW rep, View(nd, ms, rep), NEW n \in Node, Leads(n),
         NEW u \in NodeState, NEW seq \in Seqnum, NEW q \in Node,
         Counted(nd[n], u, n, seq, q), seq <= nd[n].last_seqnum,
         Answered(ms, ms2, n, q, seq, FirstPhase),
         \A m \in ms2 \ ms : m.type = "Commit" /\ ~ Leads(m.to)
  PROVE  View([nd EXCEPT ![n] = u], ms2, rep)
<1> DEFINE s == nd[n]
<1>1. /\ s \in NodeState /\ Own(s, n) /\ Orderly(s, n) /\ Rounds(s, n, ms)
      /\ LocksHeld(s, n)
  BY DEF View
<1>2. /\ u.alive = s.alive /\ u.exited = s.exited /\ SameOwn(s, u)
      /\ u.in_flight_transactions = s.in_flight_transactions
      /\ u.in_flight_prepares = s.in_flight_prepares
      /\ u.last_executed_seq = s.last_executed_seq
      /\ u.last_seqnum = s.last_seqnum
      /\ u.digest_to_seqnum = s.digest_to_seqnum
      /\ u.pending_or_completed_ts = s.pending_or_completed_ts
      /\ u.prepare_and_aborted_queue = s.prepare_and_aborted_queue
      /\ u.accept_log = s.accept_log
      /\ u.accepted_count_two_pc_commit = s.accepted_count_two_pc_commit
      /\ u.blank_votes = s.blank_votes
      /\ u.balance_locks = s.balance_locks
      /\ u.accepted_count = s.accepted_count \cup {<<seq, 1, q>>}
  BY DEF Counted, SameOwn
<1>3. /\ \A x \in Seqnum : x # seq =>
           u.entries_to_commit[x] = s.entries_to_commit[x]
      /\ \/ u.entries_to_commit[seq] = s.entries_to_commit[seq]
         \/ s.entries_to_commit[seq] = NoCommit /\ Recorded(u, n, seq)
      /\ u.entries_to_commit[seq] = NoCommit => ~ Quorate(u.accepted_count, seq)
      /\ seq <= s.last_seqnum
  BY DEF Counted
<1>4. \A y \in Txn : y \in nd[n].pending_or_completed_ts <=> y \in u.pending_or_completed_ts
  BY <1>2
<1>5. \A y \in Txn : Undisturbed(s, u, n, y)
  BY <1>2 DEF Undisturbed, Ran, Begun, Ended
<1>6. \A m \in ms \ ms2 : m.type = "Ack"
  BY DEF Answered
<1> HIDE DEF s
<1>7. Own(u, n)
  BY <1>1, <1>2, SameOwnOwn
<1>8. Orderly(u, n) /\ Later(s, u)
  <2>1. SameEntries(s, u)
    <3>1. s.last_executed_seq <= s.last_executed_seq
      BY <1>1, Numbers
    <3>. QED
      BY <1>2, <3>1 DEF SameEntries
  <2>2. u.last_executed_seq <= u.last_seqnum
    BY <1>1, <1>2 DEF Orderly
  <2>3. ASSUME NEW x \in Seqnum
        PROVE  /\ x <= u.last_executed_seq => u.entries_to_commit[x] # NoCommit
               /\ \/ u.entries_to_commit[x] = s.entries_to_commit[x]
                  \/ Recorded(u, n, x)
               /\ <<x, 1, n>> \in u.accepted_count_two_pc_commit =>
                    \/ <<x, 1, n>> \in s.accepted_count_two_pc_commit
                    \/ x <= u.last_executed_seq
    <3>1. x <= s.last_executed_seq => s.entries_to_commit[x] # NoCommit
      BY <1>1 DEF Orderly, Filed
    <3>. QED
      BY <1>2, <1>3, <3>1
  <2>. QED
    BY <1>1, <2>1, <2>2, <2>3, SameEntriesOrderly
<1>9. Rounds(u, n, ms2)
  <2>1. ASSUME NEW x \in Seqnum
        PROVE  /\ x <= u.last_seqnum =>
                    Polled(u.accepted_count, ms2, n, x, FirstPhase)
               /\ x > u.last_seqnum => Votes(u.accepted_count, x) = {}
               /\ u.entries_to_commit[x] = NoCommit => ~ Quorate(u.accepted_count, x)
               /\ <<x, 1, n>> \in u.accepted_count_two_pc_commit =>
                    Polled(u.accepted_count_two_pc_commit, ms2, n, x, SecondPhase)
               /\ <<x, 1, n>> \notin u.accepted_count_two_pc_commit =>
                    Votes(u.accepted_count_two_pc_commit, x) = {}
    <3>1. /\ x <= s.last_seqnum =>
               Polled(s.accepted_count, ms, n, x, FirstPhase)
          /\ x > s.last_seqnum => Votes(s.accepted_count, x) = {}
          /\ s.entries_to_commit[x] = NoCommit => ~ Quorate(s.accepted_count, x)
          /\ <<x, 1, n>> \in s.accepted_count_two_pc_commit =>
               Polled(s.accepted_count_two_pc_commit, ms, n, x, SecondPhase)
          /\ <<x, 1, n>> \notin s.accepted_count_two_pc_commit =>
               Votes(s.accepted_count_two_pc_commit, x) = {}
      BY <1>1 DEF Rounds
    <3>2. Polled(s.accepted_count, ms, n, x, FirstPhase) =>
            Polled(u.accepted_count, ms2, n, x, FirstPhase)
      <4>1. s.accepted_count \subseteq u.accepted_count
        BY <1>2
      <4>2. <<seq, 1, q>> \in u.accepted_count
        BY <1>2
      <4>. QED
        BY <4>1, <4>2, VotePolled
    <3>3. Polled(s.accepted_count_two_pc_commit, ms, n, x, SecondPhase) =>
            Polled(u.accepted_count_two_pc_commit, ms2, n, x, SecondPhase)
      <4>1. Apart(FirstPhase, SecondPhase)
        BY DEF Apart, FirstPhase, SecondPhase
      <4>2. s.accepted_count_two_pc_commit \subseteq u.accepted_count_two_pc_commit
        BY <1>2
      <4>. QED
        BY <4>1, <4>2, VotePolled
    <3>4. x # seq => Votes(u.accepted_count, x) = Votes(s.accepted_count, x)
      BY <1>2 DEF Votes
    <3>5. x > s.last_seqnum => x # seq
      BY <1>1, <1>3, Numbers
    <3>6. u.entries_to_commit[x] = NoCommit => ~ Quorate(u.accepted_count, x)
      BY <1>3, <3>1, <3>4 DEF Quorate
    <3>. QED
      BY <1>2, <3>1, <3>2, <3>3, <3>4, <3>5, <3>6
  <2>. QED
    BY <2>1 DEF Rounds
<1>10. LocksHeld(u, n)
  <2>1. \A y, a : Holds(s, n, y, a) => Holds(u, n, y, a)
    BY <1>2 DEF Holds, Ran, Ended
  <2>. QED
    BY <1>1, <1>2, <2>1 DEF LocksHeld
<1>11. \A y \in Txn : Stage(y, [nd EXCEPT ![n] = u], ms2, rep)
  <2>1. \A y : SameMail(ms, ms2, y)
    BY <1>6 DEF SameMail
  <2>2. \A y \in Txn : Stage(y, nd, ms, rep)
    BY DEF View
  <2>. QED
    BY <1>5, <2>1, <2>2, SameStage DEF s
<1>12. \A m \in ms2 \ ms : Shaped(m, [nd EXCEPT ![n] = u])
  BY DEF Shaped
<1>13. \A p \in Node \ {n} : StillChasing(ms, ms2, p)
  BY OthersChase
<1>. QED
  BY <1>7, <1>8, <1>9, <1>10, <1>11, <1>12, <1>13, UpdateView DEF s

-----------------------------------------------------------------------------
\* A leader executes the next entry, which is about t.

Runs(s, u, n, t) ==
  LET seq == s.last_executed_seq + 1 IN
  /\ seq \in Seqnum /\ s.entries_to_commit[seq] # NoCommit
  /\ t = s.entries_to_commit[seq].txn
  /\ u.alive = s.alive /\ u.exited = s.exited /\ u.leads = s.leads
  /\ u.counter = s.counter
  /\ u.max_seqnum_in_new_view = s.max_seqnum_in_new_view
  /\ u.cluster_leaders = s.cluster_leaders
  /\ u.pending_or_completed_ts = s.pending_or_completed_ts
  /\ \A y \in Txn \ {t} :
       u.prepare_and_aborted_queue[y] = s.prepare_and_aborted_queue[y]
  /\ u.prepare_and_aborted_queue[t] \in {s.prepare_and_aborted_queue[t], ""}
  /\ u.in_flight_transactions = s.in_flight_transactions
  /\ u.in_flight_prepares = s.in_flight_prepares
  /\ u.last_executed_seq = seq
  /\ u.last_seqnum = s.last_seqnum
  /\ u.digest_to_seqnum = s.digest_to_seqnum
  /\ u.accept_log = s.accept_log
  /\ u.entries_to_commit = s.entries_to_commit
  /\ u.accepted_count = s.accepted_count
  /\ u.accepted_count_two_pc_commit = s.accepted_count_two_pc_commit
  /\ u.blank_votes \subseteq s.blank_votes
  /\ u.balance_locks = IF IntraShard(t)
                       THEN s.balance_locks \ {From[t], To[t]}
                       ELSE s.balance_locks

\* The next entry is the only one of its transfer.
NextIs(s, seq, t) == /\ seq \in Seqnum /\ seq = s.last_executed_seq + 1
                     /\ s.entries_to_commit[seq] # NoCommit
                     /\ t = s.entries_to_commit[seq].txn

NextFits(s, n, seq, t) ==
  /\ t \in Txn /\ s.digest_to_seqnum[t] = seq
  /\ s.entries_to_commit[seq].status \in FirstPhase
  /\ Suits(t, ClusterOf[n], s.entries_to_commit[seq].status)
  /\ seq <= s.last_seqnum /\ s.accept_log[seq].p2 = ""
  /\ \A y \in Txn \ {t} : s.digest_to_seqnum[y] # seq

LEMMA NextEntry ==
  ASSUME NEW n \in Node, NEW s \in NodeState, Orderly(s, n), NEW seq, NEW t,
         NextIs(s, seq, t)
  PROVE  NextFits(s, n, seq, t)
<1>0. /\ seq \in Seqnum /\ s.entries_to_commit[seq] # NoCommit
      /\ t = s.entries_to_commit[seq].txn /\ seq = s.last_executed_seq + 1
  BY DEF NextIs
<1>1. /\ Filed(s, n, seq) /\ \A y \in Txn : Claimed(s, y)
  BY <1>0 DEF Orderly
<1>2. seq > s.last_executed_seq /\ seq # 0
  BY <1>0, Numbers
<1>3. /\ seq <= s.last_seqnum
      /\ s.entries_to_commit[seq].txn = s.accept_log[seq].txn
      /\ s.entries_to_commit[seq].status \in FirstPhase
      /\ Suits(s.accept_log[seq].txn, ClusterOf[n],
               s.entries_to_commit[seq].status)
      /\ s.accept_log[seq].p2 = ""
  BY <1>0, <1>1, <1>2 DEF Filed
<1>4. s.accept_log[seq] \in Entry /\ s.digest_to_seqnum[s.accept_log[seq].txn] = seq
  BY <1>1, <1>3 DEF Filed
<1>5. s.accept_log[seq].txn \in Txn
  BY <1>4 DEF Entry
<1>6. ASSUME NEW y \in Txn, s.digest_to_seqnum[y] = seq
      PROVE  y = s.accept_log[seq].txn
  BY <1>1, <1>2, <1>6 DEF Claimed
<1>. QED
  BY <1>0, <1>3, <1>4, <1>5, <1>6 DEF NextFits

LEMMA RunsKeeps ==
  ASSUME NEW n \in Node, NEW s \in NodeState, NEW u \in NodeState, NEW t,
         Own(s, n), Orderly(s, n), LocksHeld(s, n), NEW ms, Rounds(s, n, ms),
         Runs(s, u, n, t)
  PROVE  /\ Own(u, n) /\ Orderly(u, n) /\ LocksHeld(u, n) /\ Rounds(u, n, ms)
         /\ Later(s, u)
         /\ t \in Txn /\ Ran(u, t) /\ ~ Ran(s, t)
         /\ \A y \in Txn : y # t => Undisturbed(s, u, n, y)
         /\ Begun(u, n, t) <=> Begun(s, n, t)
         /\ Ended(u, t) <=> Ended(s, t)
<1> DEFINE seq == s.last_executed_seq + 1
<1>1. /\ seq \in Seqnum /\ s.entries_to_commit[seq] # NoCommit
      /\ t = s.entries_to_commit[seq].txn
      /\ u.alive = s.alive /\ u.exited = s.exited /\ u.leads = s.leads
      /\ u.counter = s.counter
      /\ u.max_seqnum_in_new_view = s.max_seqnum_in_new_view
      /\ u.cluster_leaders = s.cluster_leaders
      /\ u.pending_or_completed_ts = s.pending_or_completed_ts
      /\ u.in_flight_transactions = s.in_flight_transactions
      /\ u.in_flight_prepares = s.in_flight_prepares
      /\ u.last_executed_seq = seq
      /\ u.last_seqnum = s.last_seqnum
      /\ u.digest_to_seqnum = s.digest_to_seqnum
      /\ u.accept_log = s.accept_log
      /\ u.entries_to_commit = s.entries_to_commit
      /\ u.accepted_count = s.accepted_count
      /\ u.accepted_count_two_pc_commit = s.accepted_count_two_pc_commit
  BY DEF Runs
<1>2. /\ \A y \in Txn \ {t} :
           u.prepare_and_aborted_queue[y] = s.prepare_and_aborted_queue[y]
      /\ u.prepare_and_aborted_queue[t] \in {s.prepare_and_aborted_queue[t], ""}
      /\ \A x \in Seqnum : x \in u.blank_votes => x \in s.blank_votes
      /\ \A a \in u.balance_locks :
           a \in s.balance_locks /\ ~ (IntraShard(t) /\ a \in {From[t], To[t]})
  BY DEF Runs
<1>3. seq = s.last_executed_seq + 1 /\ s.last_executed_seq \in Int /\ seq \in Int
  BY Numbers
<1> HIDE DEF seq
<1>4. /\ t \in Txn /\ s.digest_to_seqnum[t] = seq /\ seq <= s.last_seqnum
      /\ s.accept_log[seq].p2 = ""
      /\ \A y \in Txn \ {t} : s.digest_to_seqnum[y] # seq
  <2>1. NextIs(s, seq, t)
    BY <1>1, <1>3 DEF NextIs
  <2>2. NextFits(s, n, seq, t)
    BY <2>1, NextEntry
  <2>. QED
    BY <2>2 DEF NextFits
<1>5. Own(u, n)
  <2>1. \A y \in Txn : u.prepare_and_aborted_queue[y] # "" =>
                         s.prepare_and_aborted_queue[y] # ""
    BY <1>2
  <2>. QED
    BY <1>1, <2>1 DEF Own
<1>6. \A x \in Int : x <= seq <=> x <= s.last_executed_seq \/ x = seq
  BY <1>3
<1>7. Orderly(u, n) /\ Later(s, u)
  <2>1. SameEntries(s, u)
    <3>1. s.last_executed_seq <= seq
      BY <1>3
    <3>. QED
      BY <1>1, <1>2, <3>1 DEF SameEntries
  <2>2. u.last_executed_seq <= u.last_seqnum
    BY <1>1, <1>4
  <2>3. ASSUME NEW x \in Seqnum
        PROVE  /\ x <= u.last_executed_seq => u.entries_to_commit[x] # NoCommit
               /\ \/ u.entries_to_commit[x] = s.entries_to_commit[x]
                  \/ Recorded(u, n, x)
               /\ <<x, 1, n>> \in u.accepted_count_two_pc_commit =>
                    \/ <<x, 1, n>> \in s.accepted_count_two_pc_commit
                    \/ x <= u.last_executed_seq
    <3>1. x <= s.last_executed_seq => s.entries_to_commit[x] # NoCommit
      BY DEF Orderly, Filed
    <3>2. x <= seq <=> x <= s.last_executed_seq \/ x = seq
      BY <1>6, Numbers
    <3>. QED
      BY <1>1, <3>1, <3>2
  <2>. QED
    BY <2>1, <2>2, <2>3, SameEntriesOrderly
<1>8. Rounds(u, n, ms)
  BY <1>1 DEF Rounds
<1>9. Ran(u, t) /\ ~ Ran(s, t)
  <2>1. seq \in 1 .. seq
    BY <1>1, Numbers
  <2>2. seq \notin 1 .. s.last_executed_seq
    BY <1>3
  <2>. QED
    BY <1>1, <1>4, <2>1, <2>2 DEF Ran
<1>10. ASSUME NEW y \in Txn, y # t PROVE Ran(u, y) <=> Ran(s, y)
  <2> DEFINE d == s.digest_to_seqnum[y]
  <2>1. d # seq /\ d \in Int
    BY <1>4, <1>10, Numbers
  <2> HIDE DEF d
  <2>2. d \in 1 .. seq <=> d \in 1 .. s.last_executed_seq
    BY <1>3, <2>1
  <2>. QED
    BY <1>1, <2>2 DEF Ran, d
<1>11. \A y \in Txn : /\ Begun(u, n, y) <=> Begun(s, n, y)
                      /\ Ended(u, y) <=> Ended(s, y)
  BY <1>1 DEF Begun, Ended
<1>12. \A y \in Txn : y # t => Undisturbed(s, u, n, y)
  BY <1>1, <1>2, <1>10, <1>11 DEF Undisturbed
<1>13. LocksHeld(u, n)
  <2>1. \A y \in Txn : \A a : Holds(s, n, y, a) =>
          \/ Holds(u, n, y, a)
          \/ y = t /\ IntraShard(t) /\ a \in {From[t], To[t]}
    BY <1>1, <1>10, <1>11 DEF Holds
  <2>. QED
    BY <1>1, <1>2, <2>1 DEF LocksHeld
<1>. QED
  BY <1>4, <1>5, <1>7, <1>8, <1>9, <1>11, <1>12, <1>13

-----------------------------------------------------------------------------
\* A leader proposes the second phase of transfer t.

Decides(s, u, n, t) ==
  LET seq == s.digest_to_seqnum[t] IN
  /\ u.alive = s.alive /\ u.exited = s.exited /\ u.leads = s.leads
  /\ u.counter = s.counter
  /\ u.max_seqnum_in_new_view = s.max_seqnum_in_new_view
  /\ u.cluster_leaders = s.cluster_leaders
  /\ u.pending_or_completed_ts = s.pending_or_completed_ts
  /\ u.prepare_and_aborted_queue = s.prepare_and_aborted_queue
  /\ \A y \in Txn \ {t} :
       /\ y \in u.in_flight_transactions <=> y \in s.in_flight_transactions
       /\ u.in_flight_prepares[y] = s.in_flight_prepares[y]
  /\ t \in u.in_flight_transactions => n = Coord(t) /\ ~ IntraShard(t)
  /\ u.in_flight_prepares[t].sent = s.in_flight_prepares[t].sent
  /\ n = Coord(t) => u.in_flight_prepares[t].completed
  /\ u.last_executed_seq = s.last_executed_seq
  /\ u.last_seqnum = s.last_seqnum
  /\ u.digest_to_seqnum = s.digest_to_seqnum
  /\ u.entries_to_commit = s.entries_to_commit
  /\ u.accepted_count = s.accepted_count
  /\ u.blank_votes = s.blank_votes
  /\ u.balance_locks = s.balance_locks
  /\ \A x \in Seqnum : x # seq => u.accept_log[x] = s.accept_log[x]
  /\ u.accept_log[seq] \in Entry /\ u.accept_log[seq].txn = t
  /\ u.accept_log[seq].counter = s.accept_log[seq].counter
  /\ u.accepted_count_two_pc_commit =
       s.accepted_count_two_pc_commit \cup {<<seq, 1, n>>}

\* The entry of a transfer whose first phase is executed is its own.
LEMMA RanEntry ==
  ASSUME NEW n \in Node, NEW s \in NodeState, Orderly(s, n), NEW t \in Txn,
         Ran(s, t)
  PROVE  LET seq == s.digest_to_seqnum[t]
         IN /\ seq \in Seqnum /\ seq # 0 /\ seq <= s.last_executed_seq
            /\ seq <= s.last_seqnum
            /\ s.accept_log[seq] \in Entry /\ s.accept_log[seq].txn = t
            /\ s.accept_log[seq].counter = 1
            /\ s.entries_to_commit[seq] # NoCommit
            /\ \A y \in Txn \ {t} : s.digest_to_seqnum[y] # seq
<1> DEFINE seq == s.digest_to_seqnum[t]
<1>1. seq \in Int /\ s.last_executed_seq \in Int /\ s.last_seqnum \in Int
  BY Numbers
<1>2. seq \in 1 .. s.last_executed_seq
  BY DEF Ran
<1>3. seq # 0 /\ seq <= s.last_executed_seq
  BY <1>1, <1>2
<1>4. seq \in Seqnum
  BY <1>3, Numbers
<1>5. /\ Filed(s, n, seq) /\ \A y \in Txn : Claimed(s, y)
      /\ s.last_executed_seq <= s.last_seqnum
  BY <1>4 DEF Orderly
<1>6. seq <= s.last_seqnum
  BY <1>1, <1>3, <1>5
<1>7. s.accept_log[seq].txn = t
  BY <1>3, <1>5 DEF Claimed
<1>8. \A y \in Txn \ {t} : s.digest_to_seqnum[y] # seq
  BY <1>3, <1>5, <1>7 DEF Claimed
<1> HIDE DEF seq
<1>9. /\ s.accept_log[seq] \in Entry /\ s.accept_log[seq].counter = 1
      /\ s.entries_to_commit[seq] # NoCommit
  BY <1>3, <1>5, <1>6 DEF Filed
<1>. QED
  BY <1>3, <1>4, <1>6, <1>7, <1>8, <1>9 DEF seq

LEMMA DecidesKeeps ==
  ASSUME Quorums, NEW n \in Node, NEW s \in NodeState, NEW u \in NodeState,
         Own(s, n), Orderly(s, n), LocksHeld(s, n), NEW ms, Rounds(s, n, ms),
         NEW t \in Txn, Ran(s, t), Decides(s, u, n, t),
         NEW ms2, StillChasing(ms, ms2, n),
         \A q \in Peers(n) :
           Chasing(ms2, n, q, s.digest_to_seqnum[t], SecondPhase)
  PROVE  /\ Own(u, n) /\ Orderly(u, n) /\ LocksHeld(u, n) /\ Rounds(u, n, ms2)
         /\ Later(s, u)
         /\ Ran(u, t) /\ Begun(u, n, t)
         /\ Ended(u, t) => Ended(s, t)
         /\ \A y \in Txn : y # t => Undisturbed(s, u, n, y)
<1> DEFINE seq == s.digest_to_seqnum[t]
<1>1. /\ u.alive = s.alive /\ u.exited = s.exited /\ u.leads = s.leads
      /\ u.counter = s.counter
      /\ u.max_seqnum_in_new_view = s.max_seqnum_in_new_view
      /\ u.cluster_leaders = s.cluster_leaders
      /\ u.pending_or_completed_ts = s.pending_or_completed_ts
      /\ u.prepare_and_aborted_queue = s.prepare_and_aborted_queue
      /\ \A y \in Txn \ {t} :
           /\ y \in u.in_flight_transactions <=> y \in s.in_flight_transactions
           /\ u.in_flight_prepares[y] = s.in_flight_prepares[y]
      /\ t \in u.in_flight_transactions => n = Coord(t) /\ ~ IntraShard(t)
      /\ u.in_flight_prepares[t].sent = s.in_flight_prepares[t].sent
  BY DEF Decides
<1>2. /\ u.last_executed_seq = s.last_executed_seq
      /\ u.last_seqnum = s.last_seqnum
      /\ u.digest_to_seqnum = s.digest_to_seqnum
      /\ u.entries_to_commit = s.entries_to_commit
      /\ u.accepted_count = s.accepted_count
      /\ u.blank_votes = s.blank_votes
      /\ u.balance_locks = s.balance_locks
      /\ \A x \in Seqnum : x # seq => u.accept_log[x] = s.accept_log[x]
      /\ u.accept_log[seq] \in Entry /\ u.accept_log[seq].txn = t
      /\ u.accept_log[seq].counter = s.accept_log[seq].counter
      /\ u.accepted_count_two_pc_commit =
           s.accepted_count_two_pc_commit \cup {<<seq, 1, n>>}
  BY DEF Decides
<1>3. /\ seq \in Seqnum /\ seq # 0 /\ seq <= s.last_executed_seq
      /\ s.accept_log[seq].txn = t
      /\ \A y \in Txn \ {t} : s.digest_to_seqnum[y] # seq
  BY RanEntry
<1>4. \A q \in Peers(n) : Chasing(ms2, n, q, seq, SecondPhase)
  OBVIOUS
<1>5. u.digest_to_seqnum[t] = seq
  BY <1>2
<1> HIDE DEF seq
<1>6. Own(u, n)
  BY <1>1 DEF Own
<1>7. Orderly(u, n) /\ Later(s, u)
  <2>1. SameEntries(s, u)
    <3>1. s.last_executed_seq <= s.last_executed_seq
      BY Numbers
    <3>2. ASSUME NEW x \in Seqnum
          PROVE  /\ u.accept_log[x].txn = s.accept_log[x].txn
                 /\ u.accept_log[x].counter = s.accept_log[x].counter
                 /\ s.accept_log[x] \in Entry => u.accept_log[x] \in Entry
                 /\ x > u.last_executed_seq =>
                      u.accept_log[x].p2 = s.accept_log[x].p2
      <4>1. seq > u.last_executed_seq => FALSE
        BY <1>2, <1>3, Numbers
      <4>. QED
        BY <1>2, <1>3, <4>1
    <3>3. s.accepted_count_two_pc_commit \subseteq u.accepted_count_two_pc_commit
      BY <1>2
    <3>. QED
      BY <1>1, <1>2, <3>1, <3>2, <3>3 DEF SameEntries
  <2>2. u.last_executed_seq <= u.last_seqnum
    BY <1>2 DEF Orderly
  <2>3. ASSUME NEW x \in Seqnum
        PROVE  /\ x <= u.last_executed_seq => u.entries_to_commit[x] # NoCommit
               /\ \/ u.entries_to_commit[x] = s.entries_to_commit[x]
                  \/ Recorded(u, n, x)
               /\ <<x, 1, n>> \in u.accepted_count_two_pc_commit =>
                    \/ <<x, 1, n>> \in s.accepted_count_two_pc_commit
                    \/ x <= u.last_executed_seq
    <3>1. x <= s.last_executed_seq => s.entries_to_commit[x] # NoCommit
      BY DEF Orderly, Filed
    <3>. QED
      BY <1>2, <1>3, <3>1
  <2>. QED
    BY <2>1, <2>2, <2>3, SameEntriesOrderly
<1>8. Rounds(s, n, ms2)
  BY RoundsGoOn
<1>9. Rounds(u, n, ms2)
  <2>1. ASSUME NEW x \in Seqnum
        PROVE  /\ <<x, 1, n>> \in u.accepted_count_two_pc_commit =>
                    Polled(u.accepted_count_two_pc_commit, ms2, n, x, SecondPhase)
               /\ <<x, 1, n>> \notin u.accepted_count_two_pc_commit =>
                    Votes(u.accepted_count_two_pc_commit, x) = {}
    <3>1. /\ <<x, 1, n>> \in s.accepted_count_two_pc_commit =>
               Polled(s.accepted_count_two_pc_commit, ms2, n, x, SecondPhase)
          /\ <<x, 1, n>> \notin s.accepted_count_two_pc_commit =>
               Votes(s.accepted_count_two_pc_commit, x) = {}
      BY <1>8 DEF Rounds
    <3>2. CASE x = seq
      BY <1>2, <1>4, <3>2 DEF Polled
    <3>3. CASE x # seq
      <4>1. Votes(u.accepted_count_two_pc_commit, x)
              = Votes(s.accepted_count_two_pc_commit, x)
        BY <1>2, <3>3 DEF Votes
      <4>2. Polled(s.accepted_count_two_pc_commit, ms2, n, x, SecondPhase) =>
              Polled(u.accepted_count_two_pc_commit, ms2, n, x, SecondPhase)
        BY <1>2 DEF Polled
      <4>. QED
        BY <1>2, <3>1, <3>3, <4>1, <4>2
    <3>. QED
      BY <3>2, <3>3
  <2>. QED
    BY <1>2, <1>8, <2>1 DEF Rounds
<1>10. Ran(u, t) /\ Begun(u, n, t)
  <2>1. Ran(u, t)
    BY <1>2 DEF Ran
  <2>. QED
    BY <1>2, <1>3, <1>5, <2>1 DEF Begun
<1>11. Ended(u, t) => Ended(s, t)
  <2>1. CASE <<seq, 1, n>> \in s.accepted_count_two_pc_commit
    <3>1. u.accepted_count_two_pc_commit = s.accepted_count_two_pc_commit
      BY <1>2, <2>1
    <3>. QED
      BY <1>2, <3>1 DEF Ended
  <2>2. CASE <<seq, 1, n>> \notin s.accepted_count_two_pc_commit
    <3>1. Votes(s.accepted_count_two_pc_commit, seq) = {}
      BY <1>3, <1>8, <2>2 DEF Rounds
    <3>2. s.accepted_count_two_pc_commit \in Tables
      BY DEF NodeState, Tables
    <3>3. ~ Quorate(s.accepted_count_two_pc_commit \cup {<<seq, 1, n>>}, seq)
      BY <1>3, <3>1, <3>2, OwnVoteIsNoQuorum
    <3>4. ~ Quorate(u.accepted_count_two_pc_commit, seq)
      BY <1>2, <3>3, Zenon
    <3>. QED
      BY <1>5, <3>4 DEF Ended
  <2>. QED
    BY <2>1, <2>2
<1>12. ASSUME NEW y \in Txn, y # t
       PROVE  /\ Begun(u, n, y) <=> Begun(s, n, y)
              /\ Ended(u, y) <=> Ended(s, y)
              /\ Ran(u, y) <=> Ran(s, y)
  <2> DEFINE d == s.digest_to_seqnum[y]
  <2>1. d # seq /\ u.digest_to_seqnum[y] = d
    BY <1>2, <1>3, <1>12
  <2>2. s.digest_to_seqnum[y] = d
    OBVIOUS
  <2> HIDE DEF d
  <2>3. Votes(u.accepted_count_two_pc_commit, d)
              = Votes(s.accepted_count_two_pc_commit, d)
    BY <1>2, <2>1 DEF Votes
  <2>4. <<d, 1, n>> \in u.accepted_count_two_pc_commit <=>
          <<d, 1, n>> \in s.accepted_count_two_pc_commit
    BY <1>2, <2>1
  <2>5. Begun(u, n, y) <=> Begun(s, n, y)
    BY <2>1, <2>2, <2>4 DEF Begun
  <2>6. Ended(u, y) <=> Ended(s, y)
    BY <2>1, <2>2, <2>3 DEF Ended, Quorate
  <2>7. Ran(u, y) <=> Ran(s, y)
    BY <1>2 DEF Ran
  <2>. QED
    BY <2>5, <2>6, <2>7
<1>13. \A y \in Txn : y # t => Undisturbed(s, u, n, y)
  BY <1>1, <1>12 DEF Undisturbed
<1>14. LocksHeld(u, n)
  <2>1. \A y \in Txn : \A a : Holds(s, n, y, a) => Holds(u, n, y, a)
    <3>1. Ran(u, t) <=> Ran(s, t)
      BY <1>10
    <3>. QED
      BY <1>2, <1>11, <1>12, <3>1 DEF Holds
  <2>. QED
    BY <1>1, <1>2, <2>1 DEF LocksHeld
<1>. QED
  BY <1>6, <1>7, <1>9, <1>10, <1>11, <1>13, <1>14

\* The coordinator's decision for the vote "what".
Decision(t, what) ==
  TwoPCMsg(IF what = "ABORT" THEN "ABORT" ELSE "COMMIT", Part(t), t)
SecondEntry(s, n, t, what) ==
  [txn |-> t, status |-> Outcome(n, t, what), p2 |-> "",
   counter |-> s.accept_log[s.digest_to_seqnum[t]].counter]

StartsSecond(s, u, n, t, what) ==
  LET e == SecondEntry(s, n, t, what)
      accepts == AcceptsOf(n, s.digest_to_seqnum[t], e)
  IN /\ u \in NodeState /\ Decides(s, u, n, t)
     /\ e \in Entry /\ e.status \in SecondPhase /\ e.counter = 1
     /\ Suits(t, ClusterOf[n], e.status)
     /\ u.accept_log[s.digest_to_seqnum[t]] = e
     /\ u.accounts = s.accounts /\ u.wal = s.wal
     /\ u.out = IF n = Coord(t) THEN s.out \cup {Decision(t, what)} \cup accepts
                ELSE s.out \cup accepts
     /\ u.told = s.told

LEMMA StartSecondPhaseDecides ==
  ASSUME NEW n \in Node, NEW s, Sound(s, n), Own(s, n), Orderly(s, n),
         NEW t \in Txn, ~ IntraShard(t), n \in {Coord(t), Part(t)}, Ran(s, t),
         NEW what \in Vote
  PROVE  StartsSecond(s, StartSecondPhase(s, n, t, what), n, t, what)
<1> DEFINE seq == s.digest_to_seqnum[t]
           prepares == [s.in_flight_prepares EXCEPT ![t].completed = TRUE]
           marked == [s EXCEPT !.in_flight_prepares = prepares,
                               !.in_flight_transactions = @ \cup {t},
                               !.out = @ \cup {Decision(t, what)}]
           decided == IF n = Part(t) THEN s ELSE marked
           e == SecondEntry(s, n, t, what)
           votes == s.accepted_count_two_pc_commit \cup {<<seq, 1, n>>}
           log == [s.accept_log EXCEPT ![seq] = e]
           accepts == AcceptsOf(n, seq, e)
           w == [decided EXCEPT !.accept_log = log,
                                !.accepted_count_two_pc_commit = votes]
           u == Send(w, accepts)
<1>1. s \in NodeState
  BY DEF Sound
<1>2. /\ seq \in Seqnum /\ seq # 0 /\ s.accept_log[seq].counter = 1
      /\ s.accept_log[seq].txn = t
  BY <1>1, RanEntry
<1>3. /\ PartCluster(t) = ClusterOf[n] <=> n = Part(t)
      /\ n = Part(t) <=> n # Coord(t)
      /\ s.cluster_leaders[PartCluster(t)] = Part(t)
      /\ Part(t) \in Node
  BY LeadersDiffer DEF Own, Leads, Part, IntraShard
<1>4. e \in Entry /\ e.status \in SecondPhase /\ e.counter = 1 /\ e.txn = t
      /\ Suits(t, ClusterOf[n], e.status)
  <2>1. Outcome(n, t, what) \in SecondPhase
    BY DEF Outcome, SecondPhase
  <2>2. Suits(t, ClusterOf[n], Outcome(n, t, what))
    BY <1>3, LeadersDiffer DEF Outcome, Suits
  <2>3. e.status = Outcome(n, t, what) /\ e.counter = 1 /\ e.txn = t
    BY <1>2 DEF SecondEntry
  <2>4. e \in Entry
    <3>1. \A status \in SecondPhase, c \in Nat :
            [txn |-> t, status |-> status, p2 |-> "", counter |-> c] \in Entry
      BY DEF Entry, Status
    <3>2. s.accept_log[seq].counter \in Nat
      BY <1>2
    <3>. QED
      BY <2>1, <3>1, <3>2 DEF SecondEntry
  <2>. QED
    BY <2>1, <2>2, <2>3, <2>4
<1>5. /\ prepares \in [Txn -> [sent : BOOLEAN, completed : BOOLEAN,
                               retries : {0, 1}]]
      /\ \A y \in Txn : prepares[y].sent = s.in_flight_prepares[y].sent
      /\ \A y \in Txn \ {t} : prepares[y] = s.in_flight_prepares[y]
      /\ prepares[t].completed
  <2>1. s.in_flight_prepares \in [Txn -> [sent : BOOLEAN,
                                  completed : BOOLEAN, retries : {0, 1}]]
    BY <1>1 DEF NodeState
  <2>. QED
    BY <2>1
<1>6. Decision(t, what) \in Message
  BY <1>3 DEF Decision, TwoPCMsg, Message, Vote
<1>7. StartSecondPhase(s, n, t, what) =
        Broadcast(w, n, [type |-> "Accept", from |-> n, to |-> n,
                         seq |-> seq, e |-> e])
  <2> DEFINE inner == Send([s EXCEPT
                        !.in_flight_prepares[t].completed = TRUE,
                        !.in_flight_transactions = @ \cup {t}],
                      {TwoPCMsg(IF what = "ABORT" THEN "ABORT" ELSE "COMMIT",
                                s.cluster_leaders[PartCluster(t)], t)})
             dec == IF PartCluster(t) = ClusterOf[n] THEN s ELSE inner
  <2>1. inner = marked
    BY <1>1, <1>3 DEF Send, Decision, NodeState
  <2>2. dec = decided
    BY <1>3, <2>1
  <2>3. e = [txn |-> t, status |-> Outcome(n, t, what), p2 |-> "",
             counter |-> s.accept_log[seq].counter]
    BY DEF SecondEntry
  <2> DEFINE x == [dec EXCEPT
               !.accept_log[seq] = e,
               !.accepted_count_two_pc_commit = @ \cup {<<seq, e.counter, n>>}]
  <2>4. StartSecondPhase(s, n, t, what) =
        Broadcast(x, n, [type |-> "Accept", from |-> n, to |-> n,
                         seq |-> seq, e |-> e])
    BY <1>2, <2>3 DEF StartSecondPhase
  <2>5. /\ decided \in NodeState /\ decided.accept_log = s.accept_log
        /\ decided.accepted_count_two_pc_commit = s.accepted_count_two_pc_commit
    BY <1>1, <1>5, <1>6, ZenonT(60) DEF NodeState
  <2>6. x = w
    <3> HIDE DEF decided, e, seq, dec
    <3>1. x = [decided EXCEPT
               !.accept_log[seq] = e,
               !.accepted_count_two_pc_commit = @ \cup {<<seq, e.counter, n>>}]
      BY <2>2
    <3>2. e.counter = 1
      BY <1>4
    <3>. QED
      BY <2>5, <3>1, <3>2 DEF NodeState
  <2> HIDE DEF x, w
  <2>. QED
    BY <2>4, <2>6
<1>8. /\ accepts \in SUBSET Message
      /\ \A x : Broadcast(x, n, [type |-> "Accept", from |-> n, to |-> n,
                                 seq |-> seq, e |-> e]) = Send(x, accepts)
  <2> HIDE DEF seq, e
  <2>. QED
    BY <1>2, <1>4, AcceptsAre
<1>9. StartSecondPhase(s, n, t, what) = u
  <2> HIDE DEF w, accepts
  <2>. QED
    BY <1>7, <1>8
<1> HIDE DEF prepares, e, accepts
<1>10. /\ decided \in NodeState
       /\ decided.alive = s.alive /\ decided.exited = s.exited
       /\ decided.leads = s.leads
       /\ decided.counter = s.counter
       /\ decided.max_seqnum_in_new_view = s.max_seqnum_in_new_view
       /\ decided.cluster_leaders = s.cluster_leaders
       /\ decided.pending_or_completed_ts = s.pending_or_completed_ts
       /\ decided.prepare_and_aborted_queue = s.prepare_and_aborted_queue
       /\ decided.last_executed_seq = s.last_executed_seq
       /\ decided.last_seqnum = s.last_seqnum
       /\ decided.digest_to_seqnum = s.digest_to_seqnum
       /\ decided.entries_to_commit = s.entries_to_commit
       /\ decided.accepted_count = s.accepted_count
       /\ decided.blank_votes = s.blank_votes
       /\ decided.balance_locks = s.balance_locks
       /\ decided.told = s.told
       /\ decided.accounts = s.accounts /\ decided.wal = s.wal
  BY <1>1, <1>5, <1>6, ZenonT(60) DEF NodeState
<1>11. /\ decided.in_flight_transactions =
            IF n = Part(t) THEN s.in_flight_transactions
            ELSE s.in_flight_transactions \cup {t}
       /\ decided.in_flight_prepares =
            IF n = Part(t) THEN s.in_flight_prepares ELSE prepares
       /\ decided.out =
            IF n = Part(t) THEN s.out ELSE s.out \cup {Decision(t, what)}
  BY <1>1, <1>5, <1>6 DEF NodeState
<1>12. /\ log \in [Seqnum -> Entry \cup {NoEntry}]
       /\ votes \in SUBSET (Seqnum \X Nat \X Node)
       /\ log[seq] = e /\ \A x \in Seqnum : x # seq => log[x] = s.accept_log[x]
  <2> HIDE DEF seq
  <2>1. s.accept_log \in [Seqnum -> Entry \cup {NoEntry}]
    BY <1>1 DEF NodeState
  <2>2. s.accepted_count_two_pc_commit \in SUBSET (Seqnum \X Nat \X Node)
    BY <1>1 DEF NodeState
  <2>. QED
    BY <1>2, <1>4, <2>1, <2>2
<1> HIDE DEF decided, log, votes, seq
<1>13. /\ w \in NodeState
       /\ w.alive = decided.alive /\ w.exited = decided.exited
       /\ w.leads = decided.leads
       /\ w.counter = decided.counter
       /\ w.max_seqnum_in_new_view = decided.max_seqnum_in_new_view
       /\ w.cluster_leaders = decided.cluster_leaders
       /\ w.pending_or_completed_ts = decided.pending_or_completed_ts
       /\ w.prepare_and_aborted_queue = decided.prepare_and_aborted_queue
       /\ w.last_executed_seq = decided.last_executed_seq
       /\ w.last_seqnum = decided.last_seqnum
       /\ w.digest_to_seqnum = decided.digest_to_seqnum
       /\ w.entries_to_commit = decided.entries_to_commit
       /\ w.accepted_count = decided.accepted_count
       /\ w.blank_votes = decided.blank_votes
       /\ w.balance_locks = decided.balance_locks
       /\ w.in_flight_transactions = decided.in_flight_transactions
       /\ w.in_flight_prepares = decided.in_flight_prepares
       /\ w.out = decided.out
       /\ w.told = decided.told
       /\ w.accounts = decided.accounts /\ w.wal = decided.wal
       /\ w.accept_log = log
       /\ w.accepted_count_two_pc_commit = votes
  BY <1>10, <1>12 DEF NodeState
<1> HIDE DEF w
<1>14. /\ u \in NodeState
       /\ u.alive = w.alive /\ u.exited = w.exited
       /\ u.leads = w.leads
       /\ u.counter = w.counter
       /\ u.max_seqnum_in_new_view = w.max_seqnum_in_new_view
       /\ u.cluster_leaders = w.cluster_leaders
       /\ u.pending_or_completed_ts = w.pending_or_completed_ts
       /\ u.prepare_and_aborted_queue = w.prepare_and_aborted_queue
       /\ u.last_executed_seq = w.last_executed_seq
       /\ u.last_seqnum = w.last_seqnum
       /\ u.digest_to_seqnum = w.digest_to_seqnum
       /\ u.entries_to_commit = w.entries_to_commit
       /\ u.accepted_count = w.accepted_count
       /\ u.blank_votes = w.blank_votes
       /\ u.balance_locks = w.balance_locks
       /\ u.in_flight_transactions = w.in_flight_transactions
       /\ u.in_flight_prepares = w.in_flight_prepares
       /\ u.accept_log = w.accept_log
       /\ u.accepted_count_two_pc_commit = w.accepted_count_two_pc_commit
       /\ u.out = w.out \cup accepts
       /\ u.told = w.told
       /\ u.accounts = w.accounts /\ u.wal = w.wal
  BY <1>8, <1>13 DEF NodeState, Send
<1> HIDE DEF u
<1>15. Decides(s, u, n, t)
  <2>1. \A y \in Txn \ {t} :
          /\ y \in u.in_flight_transactions <=> y \in s.in_flight_transactions
          /\ u.in_flight_prepares[y] = s.in_flight_prepares[y]
    BY <1>5, <1>11, <1>13, <1>14
  <2>2. t \in u.in_flight_transactions => n = Coord(t) /\ ~ IntraShard(t)
    BY <1>3, <1>11, <1>13, <1>14 DEF Own
  <2>3. /\ u.in_flight_prepares[t].sent = s.in_flight_prepares[t].sent
        /\ n = Coord(t) => u.in_flight_prepares[t].completed
    BY <1>3, <1>5, <1>11, <1>13, <1>14
  <2>4. /\ \A x \in Seqnum : x # seq => u.accept_log[x] = s.accept_log[x]
        /\ u.accept_log[seq] \in Entry /\ u.accept_log[seq].txn = t
        /\ u.accept_log[seq].counter = s.accept_log[seq].counter
    BY <1>2, <1>4, <1>12, <1>13, <1>14
  <2>. QED
    BY <1>10, <1>13, <1>14, <2>1, <2>2, <2>3, <2>4 DEF Decides, seq, votes
<1>16. u.out = IF n = Coord(t) THEN s.out \cup {Decision(t, what)} \cup accepts
               ELSE s.out \cup accepts
  BY <1>3, <1>11, <1>13, <1>14
<1>17. /\ u.told = s.told /\ u.accounts = s.accounts /\ u.wal = s.wal
       /\ u.accept_log[seq] = e
  BY <1>10, <1>12, <1>13, <1>14
<1>. QED
  BY <1>4, <1>9, <1>14, <1>15, <1>16, <1>17 DEF StartsSecond, e, accepts, seq

-----------------------------------------------------------------------------
\* The stages that a transfer goes through.

\* What a message does not change.
SameKinds(ms, ms2, t) ==
  /\ PrepareSent(ms2, t) <=> PrepareSent(ms, t)
  /\ DecisionSent(ms2, t) <=> DecisionSent(ms, t)
  /\ ConfirmationSent(ms2, t) <=> ConfirmationSent(ms, t)

\* The participant executes its first phase and votes.
LEMMA PartRunsStage ==
  ASSUME NEW t, NEW C, NEW P, NEW P2, NEW ms, NEW ms2, NEW rep,
         CrossStage(t, C, P, ms, rep),
         t \in P2.pending_or_completed_ts <=> t \in P.pending_or_completed_ts,
         ~ Ran(P, t), Ran(P2, t),
         Begun(P2, Part(t), t) <=> Begun(P, Part(t), t),
         Ended(P2, t) => Ended(P, t), P.exited => P2.exited,
         SameKinds(ms, ms2, t), VoteSent(ms2, t),
         ~ VoteSent(ms, t) => OneVote(ms2, t)
  PROVE  CrossStage(t, C, P2, ms2, rep)
  BY DEF CrossStage, SameKinds

\* The coordinator executes its first phase before a vote has come.
LEMMA CoordRunsStage ==
  ASSUME NEW t, NEW C, NEW P, NEW C2, NEW ms, NEW rep,
         CrossStage(t, C, P, ms, rep),
         C2.pending_or_completed_ts = C.pending_or_completed_ts,
         C2.in_flight_transactions = C.in_flight_transactions,
         C2.in_flight_prepares = C.in_flight_prepares,
         ~ Parked(C, t), ~ Parked(C2, t),
         Begun(C2, Coord(t), t) <=> Begun(C, Coord(t), t),
         Ended(C2, t) => Ended(C, t)
  PROVE  CrossStage(t, C2, P, ms, rep)
  BY DEF CrossStage

\* The coordinator takes up the vote, when it comes or after it was parked.
LEMMA CoordDecidesStage ==
  ASSUME NEW t, NEW C, NEW P, NEW C2, NEW ms, NEW ms2, NEW rep,
         CrossStage(t, C, P, ms, rep), VoteSent(ms, t) \/ Parked(C, t),
         C2.pending_or_completed_ts = C.pending_or_completed_ts,
         C2.in_flight_prepares[t].completed,
         ~ Parked(C2, t), Begun(C2, Coord(t), t),
         Ended(C2, t) => Ended(C, t), ~ Ended(P, t),
         PrepareSent(ms2, t) <=> PrepareSent(ms, t),
         DecisionSent(ms2, t), ~ VoteSent(ms2, t), OneVote(ms2, t)
  PROVE  CrossStage(t, C2, P, ms2, rep)
  BY DEF CrossStage

\* The participant takes up the decision.
LEMMA PartDecidesStage ==
  ASSUME NEW t, NEW C, NEW P, NEW P2, NEW ms, NEW ms2, NEW rep,
         CrossStage(t, C, P, ms, rep), DecisionSent(ms, t),
         P2.pending_or_completed_ts = P.pending_or_completed_ts,
         Ran(P2, t) <=> Ran(P, t), Begun(P2, Part(t), t),
         Ended(P2, t) => Ended(P, t), P.exited => P2.exited,
         PrepareSent(ms2, t) <=> PrepareSent(ms, t),
         VoteSent(ms2, t) <=> VoteSent(ms, t),
         ConfirmationSent(ms2, t) <=> ConfirmationSent(ms, t),
         OneVote(ms, t) => OneVote(ms2, t)
  PROVE  CrossStage(t, C, P2, ms2, rep)
  BY DEF CrossStage

\* The vote comes before the coordinator's own entry is executed.
LEMMA ParksStage ==
  ASSUME NEW t, NEW C, NEW P, NEW C2, NEW ms, NEW ms2, NEW rep,
         CrossStage(t, C, P, ms, rep), VoteSent(ms, t), ~ Ran(C, t),
         C2.pending_or_completed_ts = C.pending_or_completed_ts,
         C2.in_flight_transactions = C.in_flight_transactions,
         C2.in_flight_prepares = C.in_flight_prepares,
         Ran(C2, t) <=> Ran(C, t),
         Begun(C2, Coord(t), t) <=> Begun(C, Coord(t), t),
         Ended(C2, t) => Ended(C, t), Parked(C2, t),
         SameKinds(ms, ms2, t), ~ VoteSent(ms2, t), OneVote(ms2, t)
  PROVE  CrossStage(t, C2, P, ms2, rep)
  BY DEF CrossStage, SameKinds

\* A second phase ends, at the coordinator with the reply to the client and at
\* the participant with a confirmation, unless its process ends.
LEMMA CoordEndsStage ==
  ASSUME NEW t, NEW C, NEW P, NEW C2, NEW ms, NEW ms2, NEW rep, NEW rep2,
         CrossStage(t, C, P, ms, rep), Replied(rep2, t) \/ ~ Ended(C2, t),
         C2.pending_or_completed_ts = C.pending_or_completed_ts,
         C2.prepare_and_aborted_queue = C.prepare_and_aborted_queue,
         C2.in_flight_transactions = C.in_flight_transactions,
         C2.in_flight_prepares = C.in_flight_prepares,
         Ran(C2, t) <=> Ran(C, t),
         Begun(C2, Coord(t), t) <=> Begun(C, Coord(t), t),
         SameKinds(ms, ms2, t), VoteSent(ms2, t) <=> VoteSent(ms, t),
         OneVote(ms, t) => OneVote(ms2, t)
  PROVE  CrossStage(t, C2, P, ms2, rep2)
  BY DEF CrossStage, SameKinds, Parked

LEMMA PartEndsStage ==
  ASSUME NEW t, NEW C, NEW P, NEW P2, NEW ms, NEW ms2, NEW rep,
         CrossStage(t, C, P, ms, rep),
         Ended(P2, t) => \/ ConfirmationSent(ms2, t) \/ P2.exited
                         \/ Ended(P, t) /\ (P.exited => P2.exited)
                            /\ (ConfirmationSent(ms, t) => ConfirmationSent(ms2, t)),
         P2.pending_or_completed_ts = P.pending_or_completed_ts,
         Ran(P2, t) <=> Ran(P, t),
         Begun(P2, Part(t), t) <=> Begun(P, Part(t), t),
         PrepareSent(ms2, t) <=> PrepareSent(ms, t),
         DecisionSent(ms2, t) <=> DecisionSent(ms, t),
         VoteSent(ms2, t) <=> VoteSent(ms, t),
         OneVote(ms, t) => OneVote(ms2, t)
  PROVE  CrossStage(t, C, P2, ms2, rep)
  BY DEF CrossStage

\* Which leader an entry is at.
LEMMA SuitsWhere ==
  ASSUME NEW n \in Node, Leads(n), NEW t \in Txn, NEW status,
         Suits(t, ClusterOf[n], status)
  PROVE  /\ n \in {Coord(t), Part(t)}
         /\ status = "" => IntraShard(t) /\ n = Coord(t)
         /\ status = "COORD" => ~ IntraShard(t) /\ n = Coord(t)
         /\ status \in {"P", "A"} => ~ IntraShard(t) /\ n = Part(t)
         /\ status \in {"C_COORD", "A_COORD"} => ~ IntraShard(t) /\ n = Coord(t)
         /\ status \in {"C", "A_PART_COMMIT"} => ~ IntraShard(t) /\ n = Part(t)
  BY DEF Suits, Leads, Coord, Part

\* Without its own vote a leader has no second phase that ended.
LEMMA EndedIsBegun ==
  ASSUME NEW n, NEW s \in NodeState, NEW ms, Rounds(s, n, ms), NEW t \in Txn,
         Ended(s, t)
  PROVE  Begun(s, n, t)
<1> DEFINE seq == s.digest_to_seqnum[t]
<1>1. seq \in Seqnum /\ seq # 0 /\ Quorate(s.accepted_count_two_pc_commit, seq)
  BY Numbers DEF Ended
<1> HIDE DEF seq
<1>2. ~ (Votes(s.accepted_count_two_pc_commit, seq) = {})
  BY <1>1, EmptyIsNoQuorum
<1>. QED
  BY <1>1, <1>2 DEF Rounds, Begun, seq

\* A step of leader n that is about transfer t.
LEMMA LeaderView ==
  ASSUME NEW nd, nd \in [Node -> NodeState], NEW ms, NEW ms2 \in SUBSET Message,
         NEW rep, NEW rep2, rep \subseteq rep2, View(nd, ms, rep),
         NEW n \in Node, NEW t \in Txn, NEW u \in NodeState,
         Own(u, n), Orderly(u, n), Rounds(u, n, ms2), LocksHeld(u, n),
         Later(nd[n], u),
         \A q \in Node \ {n} : StillChasing(ms, ms2, q),
         \A m \in ms2 \ ms : Shaped(m, [nd EXCEPT ![n] = u]),
         \A y \in Txn : y # t =>
           Undisturbed(nd[n], u, n, y) /\ SameMail(ms, ms2, y),
         Stage(t, [nd EXCEPT ![n] = u], ms2, rep2)
  PROVE  View([nd EXCEPT ![n] = u], ms2, rep2)
<1>1. ASSUME NEW y \in Txn PROVE Stage(y, [nd EXCEPT ![n] = u], ms2, rep2)
  <2>1. CASE y = t
    BY <2>1
  <2>2. CASE y # t
    <3>1. Stage(y, nd, ms, rep)
      BY DEF View
    <3>. QED
      BY <2>2, <3>1, SameStage
  <2>. QED
    BY <2>1, <2>2
<1>. QED
  BY <1>1, UpdateView

LEMMA StageAt ==
  ASSUME NEW nd, nd \in [Node -> NodeState], NEW n \in Node, NEW u,
         NEW t \in Txn, NEW ms, NEW rep
  PROVE  /\ /\ ~ IntraShard(t) /\ n = Coord(t)
            /\ CrossStage(t, u, nd[Part(t)], ms, rep)
            => Stage(t, [nd EXCEPT ![n] = u], ms, rep)
         /\ /\ ~ IntraShard(t) /\ n = Part(t)
            /\ CrossStage(t, nd[Coord(t)], u, ms, rep)
            => Stage(t, [nd EXCEPT ![n] = u], ms, rep)
         /\ /\ IntraShard(t) /\ n = Coord(t)
            /\ Ran(u, t) => Replied(rep, t)
            => Stage(t, [nd EXCEPT ![n] = u], ms, rep)
<1> DEFINE nd2 == [nd EXCEPT ![n] = u]
<1>1. /\ n = Coord(t) => nd2[Coord(t)] = u
      /\ n = Part(t) => nd2[Part(t)] = u
      /\ ~ IntraShard(t) /\ n = Coord(t) => nd2[Part(t)] = nd[Part(t)]
      /\ ~ IntraShard(t) /\ n = Part(t) => nd2[Coord(t)] = nd[Coord(t)]
  BY LeadersDiffer
<1> HIDE DEF nd2
<1>. QED
  BY <1>1 DEF Stage, nd2

\* What ExecuteTransaction and the start of AfterExecution make of a state.
Trimmed(s, seq) ==
  IF /\ seq > s.max_seqnum_in_new_view
     /\ seq \in s.pending_client_calls
  THEN [s EXCEPT !.pending_client_calls = @ \ {seq}, !.blank_votes = @ \ {seq}]
  ELSE s

AfterRun(s, seq, t, status) ==
  Trimmed(ExecuteTransaction([s EXCEPT !.last_executed_seq = seq],
                             seq, t, status), seq)

Plain(t, status) == IntraShard(t) => status = ""

\* w is s after the execution of the next entry.
Executed(s, w, n, t) ==
  /\ Sound(w, n) /\ Runs(s, w, n, t) /\ w.out = s.out /\ w.told = s.told
  /\ w.prepare_and_aborted_queue = s.prepare_and_aborted_queue

LEMMA ExecuteRuns ==
  ASSUME NEW n \in Node, NEW s, Sound(s, n), NEW seq, NEW t, NEW status,
         NextIs(s, seq, t), t \in Txn, Plain(t, status)
  PROVE  Executed(s, Trimmed(ExecuteTransaction(
                                [s EXCEPT !.last_executed_seq = seq],
                                seq, t, status), seq), n, t)
<1> DEFINE moved == [s EXCEPT !.last_executed_seq = seq]
           ran == ExecuteTransaction(moved, seq, t, status)
           u == Trimmed(ran, seq)
<1>1. /\ seq \in Seqnum /\ s.entries_to_commit[seq] # NoCommit
      /\ t = s.entries_to_commit[seq].txn /\ seq = s.last_executed_seq + 1
  BY DEF NextIs
<1>2. s \in NodeState
  BY DEF Sound
<1>3. seq \in 0 .. MaxSeq
  BY <1>1, ConstantsAssumption DEF Seqnum
<1>4. /\ moved \in NodeState
      /\ moved.alive = s.alive /\ moved.exited = s.exited /\ moved.leads = s.leads
      /\ moved.counter = s.counter
      /\ moved.max_seqnum_in_new_view = s.max_seqnum_in_new_view
      /\ moved.cluster_leaders = s.cluster_leaders
      /\ moved.pending_or_completed_ts = s.pending_or_completed_ts
      /\ moved.prepare_and_aborted_queue = s.prepare_and_aborted_queue
      /\ moved.in_flight_transactions = s.in_flight_transactions
      /\ moved.in_flight_prepares = s.in_flight_prepares
      /\ moved.last_executed_seq = seq
      /\ moved.last_seqnum = s.last_seqnum
      /\ moved.digest_to_seqnum = s.digest_to_seqnum
      /\ moved.accept_log = s.accept_log
      /\ moved.entries_to_commit = s.entries_to_commit
      /\ moved.accepted_count = s.accepted_count
      /\ moved.accepted_count_two_pc_commit = s.accepted_count_two_pc_commit
      /\ moved.blank_votes = s.blank_votes
      /\ moved.balance_locks = s.balance_locks
      /\ moved.out = s.out /\ moved.told = s.told
  BY <1>2, <1>3 DEF NodeState
<1> HIDE DEF moved
<1>5. Sound(moved, n)
  BY <1>4, SameAnchors DEF Kept
<1>6. Sound(ran, n)
  BY <1>1, <1>5, ExecuteSound
<1>7. /\ ran.alive = moved.alive /\ ran.exited = moved.exited
      /\ ran.leads = moved.leads /\ ran.counter = moved.counter
      /\ ran.max_seqnum_in_new_view = moved.max_seqnum_in_new_view
      /\ ran.cluster_leaders = moved.cluster_leaders
      /\ ran.pending_or_completed_ts = moved.pending_or_completed_ts
      /\ ran.prepare_and_aborted_queue = moved.prepare_and_aborted_queue
      /\ ran.in_flight_transactions = moved.in_flight_transactions
      /\ ran.in_flight_prepares = moved.in_flight_prepares
      /\ ran.last_executed_seq = moved.last_executed_seq
      /\ ran.last_seqnum = moved.last_seqnum
      /\ ran.digest_to_seqnum = moved.digest_to_seqnum
      /\ ran.accept_log = moved.accept_log
      /\ ran.entries_to_commit = moved.entries_to_commit
      /\ ran.accepted_count = moved.accepted_count
      /\ ran.accepted_count_two_pc_commit = moved.accepted_count_two_pc_commit
      /\ ran.blank_votes = moved.blank_votes
      /\ ran.out = moved.out /\ ran.told = moved.told
  BY <1>4 DEF ExecuteTransaction, NodeState
<1>8. ran.balance_locks = IF IntraShard(t)
                          THEN moved.balance_locks \ {From[t], To[t]}
                          ELSE moved.balance_locks
  <2>1. CASE IntraShard(t)
    <3> DEFINE unlocked == [moved EXCEPT !.balance_locks = @ \ {From[t], To[t]}]
               paid == [unlocked EXCEPT !.accounts =
                          Transferred(moved.accounts, t)]
    <3>1. [unlocked EXCEPT !.accounts = Transferred(@, t)] = paid
      BY <1>4 DEF NodeState
    <3>2. ran \in {paid, unlocked}
      BY <2>1, <3>1 DEF ExecuteTransaction, Plain
    <3>3. /\ unlocked \in NodeState
          /\ unlocked.balance_locks = moved.balance_locks \ {From[t], To[t]}
      BY <1>4 DEF NodeState
    <3> HIDE DEF unlocked
    <3>4. paid.balance_locks = unlocked.balance_locks
      BY <3>3 DEF NodeState
    <3> HIDE DEF paid, ran
    <3>5. ran.balance_locks = unlocked.balance_locks
      BY <3>2, <3>4
    <3>. QED
      BY <2>1, <3>3, <3>5
  <2>2. CASE ~ IntraShard(t)
    BY <1>4, <2>2 DEF ExecuteTransaction, NodeState
  <2>. QED
    BY <2>1, <2>2
<1> HIDE DEF ran
<1>9. ran \in NodeState
  BY <1>6 DEF Sound
<1>10. /\ u \in NodeState
       /\ u.alive = ran.alive /\ u.exited = ran.exited /\ u.leads = ran.leads
       /\ u.counter = ran.counter
       /\ u.max_seqnum_in_new_view = ran.max_seqnum_in_new_view
       /\ u.cluster_leaders = ran.cluster_leaders
       /\ u.pending_or_completed_ts = ran.pending_or_completed_ts
       /\ u.prepare_and_aborted_queue = ran.prepare_and_aborted_queue
       /\ u.in_flight_transactions = ran.in_flight_transactions
       /\ u.in_flight_prepares = ran.in_flight_prepares
       /\ u.last_executed_seq = ran.last_executed_seq
       /\ u.last_seqnum = ran.last_seqnum
       /\ u.digest_to_seqnum = ran.digest_to_seqnum
       /\ u.accept_log = ran.accept_log
       /\ u.entries_to_commit = ran.entries_to_commit
       /\ u.accepted_count = ran.accepted_count
       /\ u.accepted_count_two_pc_commit = ran.accepted_count_two_pc_commit
       /\ u.blank_votes \subseteq ran.blank_votes
       /\ u.balance_locks = ran.balance_locks
       /\ u.out = ran.out /\ u.told = ran.told
  BY <1>9, ZenonT(60) DEF Trimmed, NodeState
<1> HIDE DEF u
<1>11. Sound(u, n)
  BY <1>6, <1>10, SameAnchors DEF Kept
<1>12. Runs(s, u, n, t)
  BY <1>1, <1>4, <1>7, <1>8, <1>10, ZenonT(60) DEF Runs
<1>. QED
  BY <1>4, <1>7, <1>10, <1>11, <1>12 DEF u, ran, moved, Executed

LEMMA LaterFollows ==
  ASSUME NEW s \in NodeState, NEW u \in NodeState, NEW v \in NodeState,
         Later(s, u), Later(u, v)
  PROVE  Later(s, v)
<1>1. /\ s.last_seqnum \in Int /\ u.last_seqnum \in Int /\ v.last_seqnum \in Int
      /\ \A x \in Seqnum : x \in Int
  BY Numbers
<1>2. s.last_seqnum <= u.last_seqnum /\ u.last_seqnum <= v.last_seqnum
  BY DEF Later
<1>3. s.last_seqnum <= v.last_seqnum
  BY <1>1, <1>2
<1>4. \A x \in Seqnum : x <= s.last_seqnum => x <= u.last_seqnum
  BY <1>1, <1>2
<1>. QED
  BY <1>3, <1>4 DEF Later

LEMMA UndisturbedFollows ==
  ASSUME NEW s, NEW u, NEW v, NEW n, NEW t, Undisturbed(s, u, n, t),
         Undisturbed(u, v, n, t)
  PROVE  Undisturbed(s, v, n, t)
  BY DEF Undisturbed

\* Leader n, in state v, proposes the second phase of t: all that is known of
\* v is that it came from nd[n] by steps that are about t.
Came(s, v, n, t, ms) ==
  /\ v \in NodeState /\ Sound(v, n)
  /\ Own(v, n) /\ Orderly(v, n) /\ LocksHeld(v, n) /\ Rounds(v, n, ms)
  /\ Later(s, v) /\ Ran(v, t)
  /\ v.pending_or_completed_ts = s.pending_or_completed_ts
  /\ Ended(v, t) => Ended(s, t)
  /\ s.exited => v.exited
  /\ \A y \in Txn : y # t => Undisturbed(s, v, n, y)

\* The votes or decisions about t for node n among what is taken out.
Consumes(ms, ms1, n, t) ==
  /\ ms1 \subseteq ms
  /\ \A m \in ms \ ms1 : Brings(m, n, t, Vote)

SecondAccepts(s, n, t, what) ==
  AcceptsOf(n, s.digest_to_seqnum[t], SecondEntry(s, n, t, what))
\* Proposals of leader n at seq that are on their way to all of its peers.
Proposals(accepts, nd, n, seq) ==
  /\ accepts \subseteq Message
  /\ \A x \in accepts : x.type = "Accept" /\ Shaped(x, nd)
  /\ \A q \in Peers(n) : Chasing(accepts, n, q, seq, SecondPhase)

LEMMA SecondAcceptsShaped ==
  ASSUME NEW n \in Node, Leads(n), NEW v \in NodeState, NEW u, NEW t \in Txn,
         NEW what, Orderly(v, n), Ran(v, t),
         StartsSecond(v, u, n, t, what),
         NEW nd, nd[n] = u
  PROVE  Proposals(SecondAccepts(v, n, t, what), nd, n, v.digest_to_seqnum[t])
<1> DEFINE e == SecondEntry(v, n, t, what)
           seq == v.digest_to_seqnum[t]
           accepts == AcceptsOf(n, seq, e)
<1>1. /\ e \in Entry /\ e.status \in SecondPhase /\ e.counter = 1
      /\ Suits(t, ClusterOf[n], e.status)
      /\ Decides(v, u, n, t) /\ u \in NodeState
  BY DEF StartsSecond
<1>2. seq \in Seqnum /\ seq <= v.last_seqnum
  BY RanEntry
<1>3. /\ u.last_seqnum = v.last_seqnum /\ u.accept_log[seq].txn = t
      /\ <<seq, 1, n>> \in u.accepted_count_two_pc_commit
  BY <1>1 DEF Decides
<1> HIDE DEF e, seq
<1>4. InRound(nd[n], n, seq, e.counter, e.status)
  BY <1>1, <1>2, <1>3 DEF InRound
<1>5. \A x \in accepts : x \in Message /\ x.type = "Accept"
  BY <1>1, <1>2, AcceptsAre
<1>6. \A x \in accepts : Shaped(x, nd)
  BY <1>1, <1>2, <1>4, AcceptsAre
<1>7. \A q \in Peers(n) : Chasing(accepts, n, q, seq, SecondPhase)
  BY <1>1, <1>2, AcceptsAre
<1>. QED
  BY <1>5, <1>6, <1>7 DEF e, seq, SecondAccepts, Proposals

LEMMA CoordDecidesView ==
  ASSUME Quorums, NEW nd, nd \in [Node -> NodeState], NEW ms \in SUBSET Message,
         NEW rep, View(nd, ms, rep), NEW n \in Node, NEW t \in Txn,
         n = Coord(t), ~ IntraShard(t), NEW v, NEW ms1, NEW ms2,
         Came(nd[n], v, n, t, ms), ~ Parked(v, t),
         Consumes(ms, ms1, n, t), ~ VoteSent(ms1, t),
         VoteSent(ms, t) \/ Parked(nd[n], t),
         NEW u, NEW what \in Vote, StartsSecond(v, u, n, t, what),
         v.out \subseteq ms1, ms2 = ms1 \cup u.out
  PROVE  View([nd EXCEPT ![n] = u], ms2, rep)
<1> DEFINE s == nd[n]
           P == nd[Part(t)]
           nd2 == [nd EXCEPT ![n] = u]
           accepts == SecondAccepts(v, n, t, what)
           d == Decision(t, what)
<1>1. /\ v \in NodeState /\ Own(v, n) /\ Orderly(v, n) /\ LocksHeld(v, n)
      /\ Rounds(v, n, ms) /\ Later(s, v) /\ Ran(v, t)
      /\ v.pending_or_completed_ts = s.pending_or_completed_ts
      /\ Ended(v, t) => Ended(s, t)
      /\ \A y \in Txn : y # t => Undisturbed(s, v, n, y)
  BY DEF Came
<1>2. /\ u \in NodeState /\ Decides(v, u, n, t)
      /\ u.out = v.out \cup {d} \cup accepts
  BY DEF StartsSecond, SecondAccepts
<1>3. /\ Leads(n) /\ s \in NodeState /\ Part(t) \in Node /\ Part(t) # n
      /\ Leads(Part(t)) /\ P \in NodeState
  BY LeadersDiffer
<1>4. CrossStage(t, s, P, ms, rep) /\ Rounds(P, Part(t), ms)
  BY <1>3 DEF View, Stage
<1>5. /\ d.type = "TwoPC" /\ d.to = Part(t) /\ d.txn = t /\ d.what \in Vote
      /\ d.what \notin Confirmation /\ d \in Message
  BY <1>3 DEF Decision, TwoPCMsg, Vote, Confirmation, Message
<1>6. nd2[n] = u
  OBVIOUS
<1> HIDE DEF s, P, nd2, d
<1>7. \A q \in Node : StillChasing(ms, ms2, q)
  <2>1. \A m \in ms \ ms2 : m.type \notin {"Accept", "Ack"}
    BY DEF Consumes, Brings
  <2>. QED
    BY <2>1, OtherMail
<1>8. Later(v, u)
  <2>1. /\ \A x \in Seqnum : u.accept_log[x].txn = v.accept_log[x].txn
        /\ u.last_seqnum = v.last_seqnum
        /\ v.accepted_count_two_pc_commit \subseteq u.accepted_count_two_pc_commit
    <3>1. v.accept_log[v.digest_to_seqnum[t]].txn = t
      BY <1>1, RanEntry
    <3>. QED
      BY <1>2, <3>1 DEF Decides
  <2>2. v.last_seqnum \in Int /\ u.last_seqnum = v.last_seqnum
    BY <1>1, <2>1, Numbers
  <2>3. v.last_seqnum <= u.last_seqnum
    BY <2>2
  <2>. QED
    BY <2>1, <2>3 DEF Later
<1>9. /\ \A x \in accepts : x.type = "Accept" /\ Shaped(x, nd2)
      /\ \A q \in Peers(n) :
           Chasing(accepts, n, q, v.digest_to_seqnum[t], SecondPhase)
      /\ accepts \subseteq Message
  <2>1. Proposals(accepts, nd2, n, v.digest_to_seqnum[t])
    BY <1>1, <1>3, <1>6, SecondAcceptsShaped
  <2>. QED
    BY <2>1 DEF Proposals
<1> HIDE DEF accepts
<1>10. \A m : m \in ms2 <=> m \in ms1 \/ m = d \/ m \in accepts
  BY <1>2
<1>11. ms2 \in SUBSET Message
  BY <1>5, <1>9, <1>10 DEF Consumes
<1>12. \A q \in Peers(n) :
         Chasing(ms2, n, q, v.digest_to_seqnum[t], SecondPhase)
  BY <1>9, <1>10 DEF Chasing
<1>13. /\ Own(u, n) /\ Orderly(u, n) /\ LocksHeld(u, n) /\ Rounds(u, n, ms2)
       /\ Begun(u, n, t)
       /\ Ended(u, t) => Ended(v, t)
       /\ \A y \in Txn : y # t => Undisturbed(v, u, n, y)
  BY <1>1, <1>2, <1>7, <1>12, DecidesKeeps
<1>14. Later(s, u)
  BY <1>1, <1>2, <1>3, <1>8, LaterFollows
<1>15. \A y \in Txn : y # t => Undisturbed(s, u, n, y) /\ SameMail(ms, ms2, y)
  <2>1. ASSUME NEW y \in Txn, y # t PROVE SameMail(ms, ms2, y)
    BY <1>5, <1>9, <1>10, <2>1 DEF SameMail, Consumes, Brings
  <2>. QED
    BY <1>1, <1>13, <2>1, UndisturbedFollows
<1>16. \A m \in ms2 \ ms : Shaped(m, nd2)
  <2>1. Shaped(d, nd2)
    BY <1>5 DEF Shaped
  <2>. QED
    BY <1>9, <1>10, <2>1 DEF Consumes
<1>17. Stage(t, nd2, ms2, rep)
  <2>1. ~ Ended(P, t)
    <3>1. ~ Begun(s, n, t)
      BY <1>4 DEF CrossStage, s
    <3>2. ~ Begun(P, Part(t), t)
      BY <1>4, <3>1 DEF CrossStage
    <3>. QED
      BY <1>3, <1>4, <3>2, EndedIsBegun
  <2>2. PrepareSent(ms2, t) <=> PrepareSent(ms, t)
    BY <1>5, <1>9, <1>10 DEF PrepareSent, Consumes, Brings
  <2>3. DecisionSent(ms2, t)
    BY <1>5, <1>10 DEF DecisionSent, Brings
  <2>4. ~ VoteSent(ms2, t) /\ OneVote(ms2, t)
    BY <1>3, <1>5, <1>9, <1>10 DEF VoteSent, OneVote, Brings
  <2>5. /\ u.pending_or_completed_ts = s.pending_or_completed_ts
        /\ u.in_flight_prepares[t].completed /\ ~ Parked(u, t)
    BY <1>1, <1>2 DEF Decides, Parked
  <2>6. VoteSent(ms, t) \/ Parked(s, t)
    BY DEF s
  <2>7. CrossStage(t, u, P, ms2, rep)
    BY <1>1, <1>4, <1>13, <2>1, <2>2, <2>3, <2>4, <2>5, <2>6,
       CoordDecidesStage
  <2>. QED
    BY <2>7, StageAt DEF nd2, P
<1>. QED
  BY <1>2, <1>7, <1>11, <1>13, <1>14, <1>15, <1>16, <1>17, LeaderView
     DEF s, nd2

LEMMA PartDecidesView ==
  ASSUME Quorums, NEW nd, nd \in [Node -> NodeState], NEW ms \in SUBSET Message,
         NEW rep, View(nd, ms, rep), NEW n \in Node, NEW t \in Txn,
         n = Part(t), ~ IntraShard(t), NEW m \in ms, Brings(m, n, t, Vote),
         NEW u, NEW what, StartsSecond(nd[n], u, n, t, what),
         nd[n].out \subseteq ms \ {m}, NEW ms2, ms2 = (ms \ {m}) \cup u.out
  PROVE  View([nd EXCEPT ![n] = u], ms2, rep)
<1> DEFINE s == nd[n]
           C == nd[Coord(t)]
           nd2 == [nd EXCEPT ![n] = u]
           accepts == SecondAccepts(s, n, t, what)
<1>1. /\ Leads(n) /\ s \in NodeState /\ Coord(t) \in Node /\ Coord(t) # n
      /\ Leads(Coord(t)) /\ C \in NodeState
  BY LeadersDiffer
<1>2. /\ Own(s, n) /\ Orderly(s, n) /\ LocksHeld(s, n) /\ Rounds(s, n, ms)
  BY <1>1 DEF View
<1>3. CrossStage(t, C, s, ms, rep)
  BY DEF View, Stage
<1>4. DecisionSent(ms, t)
  BY DEF DecisionSent
<1>5. Ran(s, t)
  BY <1>3, <1>4 DEF CrossStage
<1>6. /\ u \in NodeState /\ Decides(s, u, n, t)
      /\ u.out = s.out \cup accepts
  BY <1>1 DEF StartsSecond, SecondAccepts
<1>7. nd2[n] = u
  OBVIOUS
<1>8. StartsSecond(s, u, n, t, what)
  OBVIOUS
<1> HIDE DEF s, C, nd2
<1>9. Proposals(accepts, nd2, n, s.digest_to_seqnum[t])
  BY <1>1, <1>2, <1>5, <1>7, <1>8, SecondAcceptsShaped
<1> HIDE DEF accepts
<1>10. /\ \A x \in accepts : x.type = "Accept" /\ Shaped(x, nd2)
       /\ accepts \subseteq Message
  BY <1>9 DEF Proposals
<1>11. \A x : x \in ms2 <=> (x \in ms /\ x # m) \/ x \in accepts
  BY <1>6 DEF s
<1>12. ms2 \in SUBSET Message
  BY <1>10, <1>11
<1>13. \A q \in Node : StillChasing(ms, ms2, q)
  <2>1. \A x \in ms \ ms2 : x.type \notin {"Accept", "Ack"}
    BY <1>11 DEF Brings
  <2>. QED
    BY <2>1, OtherMail
<1>14. \A q \in Peers(n) :
         Chasing(ms2, n, q, s.digest_to_seqnum[t], SecondPhase)
  BY <1>9, <1>11 DEF Chasing, Proposals
<1>15. /\ Own(u, n) /\ Orderly(u, n) /\ LocksHeld(u, n) /\ Rounds(u, n, ms2)
       /\ Later(s, u) /\ Ran(u, t) /\ Begun(u, n, t)
       /\ Ended(u, t) => Ended(s, t)
       /\ \A y \in Txn : y # t => Undisturbed(s, u, n, y)
  <2>1. StillChasing(ms, ms2, n)
    BY <1>13
  <2>2. s \in NodeState /\ u \in NodeState /\ Decides(s, u, n, t)
    BY <1>1, <1>6
  <2>. QED
    BY <1>2, <1>5, <1>14, <2>1, <2>2, DecidesKeeps
<1>16. \A y \in Txn : y # t => SameMail(ms, ms2, y)
  BY <1>10, <1>11 DEF SameMail, Brings
<1>17. Stage(t, nd2, ms2, rep)
  <2>1. /\ PrepareSent(ms2, t) <=> PrepareSent(ms, t)
        /\ VoteSent(ms2, t) <=> VoteSent(ms, t)
        /\ ConfirmationSent(ms2, t) <=> ConfirmationSent(ms, t)
        /\ OneVote(ms, t) => OneVote(ms2, t)
    <3>1. \A whats : /\ ~ Brings(m, Coord(t), t, whats)
                     /\ \A x \in accepts : ~ Brings(x, Coord(t), t, whats)
                     /\ m.type # "PREPARE"
      BY <1>1, <1>10 DEF Brings
    <3>2. \A x \in accepts : x.type # "PREPARE"
      BY <1>10
    <3>3. PrepareSent(ms2, t) <=> PrepareSent(ms, t)
      BY <1>11, <3>1, <3>2 DEF PrepareSent
    <3>4. \A whats, x : Brings(x, Coord(t), t, whats) =>
                          (x \in ms2 <=> x \in ms)
      BY <1>11, <3>1
    <3>. QED
      BY <3>3, <3>4 DEF VoteSent, ConfirmationSent, OneVote
  <2>2. /\ u.pending_or_completed_ts = s.pending_or_completed_ts
        /\ s.exited => u.exited
    BY <1>6 DEF Decides
  <2>3. CrossStage(t, C, u, ms2, rep)
    BY <1>3, <1>4, <1>5, <1>15, <2>1, <2>2, PartDecidesStage
  <2>. QED
    BY <2>3, StageAt DEF nd2, C
<1>18. \A x \in ms2 \ ms : Shaped(x, nd2)
  BY <1>10, <1>11
<1>. QED
  BY <1>6, <1>12, <1>13, <1>15, <1>16, <1>17, <1>18, LeaderView DEF s, nd2

-----------------------------------------------------------------------------
\* One round of the execution loop at a leader.

\* What it makes, as x, of the state w in which the entry has been executed:
\* a reply, a vote, nothing, or the second phase of a vote that was parked.
NextMakes(s, n, t, status, w, x) ==
  /\ status = "" =>
       \E r \in Reply : r.txn = t /\ x = [w EXCEPT !.told = @ \cup {r}]
  /\ status \in {"A", "P"} =>
       \E what \in Vote : x = Send(w, {TwoPCMsg(what, Coord(t), t)})
  /\ status = "COORD" /\ ~ Parked(s, t) => x = w
  /\ status = "COORD" /\ Parked(s, t) =>
       x = StartSecondPhase([w EXCEPT !.prepare_and_aborted_queue[t] = ""],
                            n, t, s.prepare_and_aborted_queue[t])

LEMMA ExecuteNextMakes ==
  ASSUME NEW n \in Node, Leads(n), NEW s, Sound(s, n), Own(s, n), Orderly(s, n),
         NEW seq, NEW t, NextIs(s, seq, t)
  PROVE  \E w : /\ w = AfterRun(s, seq, t, s.entries_to_commit[seq].status)
                /\ Executed(s, w, n, t)
                /\ NextMakes(s, n, t, s.entries_to_commit[seq].status, w,
                             ExecuteNext(s, n))
<1> DEFINE c == s.entries_to_commit[seq]
           status == c.status
           moved == [s EXCEPT !.last_executed_seq = seq]
           ran == ExecuteTransaction(moved, seq, t, status)
           w == Trimmed(ran, seq)
           success == Sufficient(s, t) /\ status # "A"
<1>1. /\ seq \in Seqnum /\ c # NoCommit /\ t = c.txn
      /\ seq = s.last_executed_seq + 1
  BY DEF NextIs
<1>2. s \in NodeState
  BY DEF Sound
<1>3. NextFits(s, n, seq, t)
  BY <1>2, NextEntry
<1>4. /\ t \in Txn /\ Suits(t, ClusterOf[n], status)
      /\ s.accept_log[seq].p2 = "" /\ status \in FirstPhase
  BY <1>3 DEF NextFits
<1>5. Plain(t, status)
  BY <1>4 DEF Plain, Suits
<1>6. Executed(s, w, n, t)
  <2> HIDE DEF c
  <2>. QED
    BY <1>4, <1>5, ExecuteRuns
<1>7. ExecuteNext(s, n) = AfterExecution(ran, n, seq, t, status, success)
  BY <1>1, <1>4 DEF ExecuteNext
<1>8. /\ ran.leads /\ ran.cluster_leaders = FirstLeader
      /\ ran.prepare_and_aborted_queue = s.prepare_and_aborted_queue
  <2>1. /\ w.leads = s.leads /\ w.cluster_leaders = s.cluster_leaders
        /\ w.prepare_and_aborted_queue = s.prepare_and_aborted_queue
    BY <1>6 DEF Executed, Runs
  <2>2. /\ moved \in NodeState /\ moved.leads = s.leads
        /\ moved.cluster_leaders = s.cluster_leaders
        /\ moved.prepare_and_aborted_queue = s.prepare_and_aborted_queue
    <3>1. seq \in 0 .. MaxSeq
      BY <1>1, ConstantsAssumption DEF Seqnum
    <3>. QED
      BY <1>2, <3>1 DEF NodeState
  <2> HIDE DEF moved
  <2>3. /\ ran.leads = moved.leads /\ ran.cluster_leaders = moved.cluster_leaders
        /\ ran.prepare_and_aborted_queue = moved.prepare_and_aborted_queue
    BY <2>2 DEF ExecuteTransaction, NodeState
  <2>4. s.leads /\ s.cluster_leaders = FirstLeader
    BY DEF Own
  <2>. QED
    BY <2>2, <2>3, <2>4
<1>9. success \in BOOLEAN
  BY DEF Sufficient
<1> HIDE DEF c, success, ran
<1>10. /\ status = "" => ExecuteNext(s, n) =
            [w EXCEPT !.told = @ \cup {[txn |-> t, success |-> success]}]
       /\ status \in {"A", "P"} => ExecuteNext(s, n) =
            Send(w, {TwoPCMsg(IF status = "A" THEN "ABORT" ELSE "PREPARED",
                              Coord(t), t)})
       /\ status = "COORD" /\ ~ Parked(s, t) => ExecuteNext(s, n) = w
       /\ status = "COORD" /\ Parked(s, t) => ExecuteNext(s, n) =
            StartSecondPhase([w EXCEPT !.prepare_and_aborted_queue[t] = ""],
                             n, t, s.prepare_and_aborted_queue[t])
  <2> DEFINE dest == ran.cluster_leaders[CoordCluster(t)]
             parked == ran.prepare_and_aborted_queue[t]
  <2>1. /\ dest = Coord(t)
        /\ parked = s.prepare_and_aborted_queue[t]
        /\ parked = "" <=> ~ Parked(s, t)
    BY <1>8 DEF Coord, Parked
  <2>2. ExecuteNext(s, n) =
          CASE status \in {"A", "P"} ->
                 Send(w, {TwoPCMsg(IF status = "A" THEN "ABORT" ELSE "PREPARED",
                                   dest, t)})
            [] status = "COORD" ->
                 IF parked = "" THEN w
                 ELSE StartSecondPhase(
                        [w EXCEPT !.prepare_and_aborted_queue[t] = ""],
                        n, t, parked)
            [] OTHER ->
                 [w EXCEPT !.told = @ \cup {[txn |-> t, success |-> success]}]
    <3> HIDE DEF status
    <3>. QED
      BY <1>7, <1>8 DEF AfterExecution, Trimmed, ParkedVote
  <2> HIDE DEF dest, parked, w
  <2>3. status = "" => ExecuteNext(s, n) =
            [w EXCEPT !.told = @ \cup {[txn |-> t, success |-> success]}]
    BY <2>2
  <2>4. status \in {"A", "P"} => ExecuteNext(s, n) =
            Send(w, {TwoPCMsg(IF status = "A" THEN "ABORT" ELSE "PREPARED",
                              Coord(t), t)})
    BY <2>1, <2>2
  <2>5. status = "COORD" => ExecuteNext(s, n) =
                 IF parked = "" THEN w
                 ELSE StartSecondPhase(
                        [w EXCEPT !.prepare_and_aborted_queue[t] = ""],
                        n, t, parked)
    BY <2>2
  <2>. QED
    BY <2>1, <2>3, <2>4, <2>5
<1>11. NextMakes(s, n, t, status, w, ExecuteNext(s, n))
  <2> HIDE DEF w
  <2>1. [txn |-> t, success |-> success] \in Reply
    BY <1>4, <1>9 DEF Reply
  <2>2. (IF status = "A" THEN "ABORT" ELSE "PREPARED") \in Vote
    BY DEF Vote
  <2>. QED
    BY <1>10, <2>1, <2>2 DEF NextMakes
<1>12. w = AfterRun(s, seq, t, status)
  BY DEF AfterRun, ran
<1> HIDE DEF w
<1>. QED
  BY <1>6, <1>11, <1>12 DEF c

\* Execution with what it tells other nodes and the client about t.
RunMail(ms, ms2, t, nd) ==
  /\ ms \subseteq ms2 /\ ms2 \in SUBSET Message
  /\ \A m \in ms2 \ ms : m.type = "TwoPC" /\ m.txn = t /\ Shaped(m, nd)

LEMMA RunsView ==
  ASSUME NEW nd, nd \in [Node -> NodeState], NEW ms \in SUBSET Message,
         NEW rep, View(nd, ms, rep), NEW n \in Node, Leads(n), NEW t,
         NEW u \in NodeState, Runs(nd[n], u, n, t), NEW ms2, NEW rep2,
         RunMail(ms, ms2, t, nd), rep \subseteq rep2,
         Stage(t, [nd EXCEPT ![n] = u], ms2, rep2)
  PROVE  View([nd EXCEPT ![n] = u], ms2, rep2)
<1> DEFINE s == nd[n]
           nd2 == [nd EXCEPT ![n] = u]
<1>1. /\ s \in NodeState /\ Own(s, n) /\ Orderly(s, n) /\ LocksHeld(s, n)
      /\ Rounds(s, n, ms)
  BY DEF View
<1>2. Runs(s, u, n, t)
  OBVIOUS
<1>3. /\ ms \subseteq ms2 /\ ms2 \in SUBSET Message
      /\ \A m \in ms2 \ ms : m.type = "TwoPC" /\ m.txn = t /\ Shaped(m, nd)
  BY DEF RunMail
<1> HIDE DEF s
<1>4. /\ Own(u, n) /\ Orderly(u, n) /\ LocksHeld(u, n) /\ Rounds(u, n, ms)
      /\ Later(s, u) /\ t \in Txn
      /\ \A y \in Txn : y # t => Undisturbed(s, u, n, y)
  BY <1>1, <1>2, RunsKeeps
<1>5. \A q : StillChasing(ms, ms2, q)
  BY <1>3, OtherMail
<1>6. Rounds(u, n, ms2)
  BY <1>4, <1>5, RoundsGoOn
<1>7. \A y \in Txn : y # t => SameMail(ms, ms2, y)
  BY <1>3 DEF SameMail
<1>8. \A m \in ms2 \ ms : Shaped(m, nd2)
  BY <1>3, <1>4, ShapedLater DEF s
<1>. QED
  BY <1>3, <1>4, <1>5, <1>6, <1>7, <1>8, LeaderView DEF s

\* A node sends something and does nothing else.
OnlySays(w, u) ==
  /\ u.alive = w.alive /\ u.exited = w.exited /\ u.leads = w.leads
  /\ u.counter = w.counter
  /\ u.max_seqnum_in_new_view = w.max_seqnum_in_new_view
  /\ u.cluster_leaders = w.cluster_leaders
  /\ u.pending_or_completed_ts = w.pending_or_completed_ts
  /\ u.prepare_and_aborted_queue = w.prepare_and_aborted_queue
  /\ u.in_flight_transactions = w.in_flight_transactions
  /\ u.in_flight_prepares = w.in_flight_prepares
  /\ u.last_executed_seq = w.last_executed_seq
  /\ u.last_seqnum = w.last_seqnum
  /\ u.digest_to_seqnum = w.digest_to_seqnum
  /\ u.accept_log = w.accept_log
  /\ u.entries_to_commit = w.entries_to_commit
  /\ u.accepted_count = w.accepted_count
  /\ u.accepted_count_two_pc_commit = w.accepted_count_two_pc_commit
  /\ u.blank_votes = w.blank_votes
  /\ u.balance_locks = w.balance_locks

LEMMA OnlySaysRuns ==
  ASSUME NEW s, NEW w, NEW u, NEW n, NEW t, Runs(s, w, n, t), OnlySays(w, u)
  PROVE  Runs(s, u, n, t)
  BY DEF Runs, OnlySays

\* Leader n has gone from nd[n], by way of w, to u.
Goes(nd, ms, rep, n, w, u) ==
  /\ View([nd EXCEPT ![n] = u], ms \cup u.out, rep \cup u.told)
  /\ nd[n].out \subseteq u.out /\ nd[n].told \subseteq u.told
  /\ u.last_executed_seq = w.last_executed_seq

LEMMA RunReplyView ==
  ASSUME NEW nd, nd \in [Node -> NodeState], NEW ms \in SUBSET Message,
         NEW rep, View(nd, ms, rep), NEW n \in Node, Leads(n), NEW t \in Txn,
         NEW w, Executed(nd[n], w, n, t), IntraShard(t), n = Coord(t),
         NEW r \in Reply, r.txn = t, NEW u, u = [w EXCEPT !.told = @ \cup {r}],
         nd[n].out \subseteq ms
  PROVE  Goes(nd, ms, rep, n, w, u)
<1> DEFINE s == nd[n]
<1>1. /\ w \in NodeState /\ Runs(s, w, n, t) /\ w.out = s.out /\ w.told = s.told
  BY DEF Executed, Sound
<1>2. /\ u \in NodeState /\ u.out = w.out /\ u.told = w.told \cup {r}
      /\ u.last_executed_seq = w.last_executed_seq
  BY <1>1, ZenonT(60) DEF NodeState
<1>3. Runs(s, u, n, t)
  <2>1. OnlySays(w, u)
    BY <1>1 DEF NodeState, OnlySays
  <2>. QED
    BY <1>1, <2>1, OnlySaysRuns
<1>4. ms \cup u.out = ms
  BY <1>1, <1>2
<1>5. RunMail(ms, ms, t, nd)
  BY DEF RunMail
<1>6. Stage(t, [nd EXCEPT ![n] = u], ms, rep \cup u.told)
  <2>1. Replied(rep \cup u.told, t)
    BY <1>2 DEF Replied
  <2>. QED
    BY <2>1, StageAt
<1>7. View([nd EXCEPT ![n] = u], ms, rep \cup u.told)
  <2> DEFINE rep2 == rep \cup u.told
  <2>1. rep \subseteq rep2 /\ Stage(t, [nd EXCEPT ![n] = u], ms, rep2)
    BY <1>6
  <2> HIDE DEF rep2
  <2>2. View([nd EXCEPT ![n] = u], ms, rep2)
    BY <1>2, <1>3, <1>5, <2>1, RunsView
  <2>. QED
    BY <2>2 DEF rep2
<1>. QED
  BY <1>1, <1>2, <1>4, <1>7 DEF Goes

LEMMA RunVoteView ==
  ASSUME NEW nd, nd \in [Node -> NodeState], NEW ms \in SUBSET Message,
         NEW rep, View(nd, ms, rep), NEW n \in Node, Leads(n), NEW t \in Txn,
         NEW w, Executed(nd[n], w, n, t), ~ IntraShard(t), n = Part(t),
         NEW what \in Vote, NEW u, u = Send(w, {TwoPCMsg(what, Coord(t), t)}),
         nd[n].out \subseteq ms, nd[n].told \subseteq rep
  PROVE  Goes(nd, ms, rep, n, w, u)
<1> DEFINE s == nd[n]
           C == nd[Coord(t)]
           x == TwoPCMsg(what, Coord(t), t)
           ms2 == ms \cup {x}
<1>1. /\ w \in NodeState /\ Runs(s, w, n, t) /\ w.out = s.out /\ w.told = s.told
  BY DEF Executed, Sound
<1>2. /\ Coord(t) \in Node /\ Coord(t) # Part(t) /\ s \in NodeState
  BY LeadersDiffer
<1>3. /\ x.type = "TwoPC" /\ x.to = Coord(t) /\ x.txn = t /\ x.what = what
      /\ x \in Message
  BY <1>2 DEF TwoPCMsg, Message
<1> HIDE DEF x
<1>4. /\ u \in NodeState /\ u.out = w.out \cup {x} /\ u.told = w.told
      /\ u.last_executed_seq = w.last_executed_seq
  BY <1>1, <1>3, ZenonT(60) DEF NodeState, Send, x
<1>5. Runs(s, u, n, t)
  <2>1. OnlySays(w, u)
    BY <1>1 DEF NodeState, OnlySays, Send
  <2>. QED
    BY <1>1, <2>1, OnlySaysRuns
<1>6. /\ Own(s, n) /\ Orderly(s, n) /\ LocksHeld(s, n) /\ Rounds(s, n, ms)
  BY DEF View
<1>7. CrossStage(t, C, s, ms, rep)
  BY DEF View, Stage
<1>8. ms \cup u.out = ms2 /\ rep \cup u.told = rep
  BY <1>1, <1>4
<1> HIDE DEF s, C
<1>9. /\ Ran(u, t) /\ ~ Ran(s, t)
      /\ Begun(u, n, t) <=> Begun(s, n, t)
      /\ Ended(u, t) <=> Ended(s, t)
  BY <1>2, <1>4, <1>5, <1>6, RunsKeeps
<1>10. x.what \notin Confirmation
  BY <1>3 DEF Vote, Confirmation
<1>11. RunMail(ms, ms2, t, nd)
  <2>1. Shaped(x, nd)
    BY <1>3, <1>10 DEF Shaped
  <2>. QED
    BY <1>3, <2>1 DEF RunMail
<1>12. SameKinds(ms, ms2, t)
  BY <1>2, <1>3, <1>10
     DEF SameKinds, PrepareSent, DecisionSent, ConfirmationSent, Brings
<1>13. VoteSent(ms2, t) /\ (~ VoteSent(ms, t) => OneVote(ms2, t))
  BY <1>3 DEF VoteSent, OneVote, Brings
<1> HIDE DEF ms2
<1>14. CrossStage(t, C, u, ms2, rep)
  <2>1. /\ u.pending_or_completed_ts = s.pending_or_completed_ts
        /\ u.exited = s.exited
    BY <1>5 DEF Runs
  <2>. QED
    BY <1>7, <1>9, <1>12, <1>13, <2>1, PartRunsStage
<1>15. Stage(t, [nd EXCEPT ![n] = u], ms2, rep)
  BY <1>14, StageAt DEF C
<1>16. View([nd EXCEPT ![n] = u], ms2, rep)
  BY <1>4, <1>5, <1>11, <1>15, RunsView DEF s
<1>17. s.out \subseteq u.out /\ s.told \subseteq u.told
  BY <1>1, <1>4
<1>. QED
  BY <1>4, <1>8, <1>16, <1>17 DEF s, Goes

LEMMA RunQuietView ==
  ASSUME NEW nd, nd \in [Node -> NodeState], NEW ms \in SUBSET Message,
         NEW rep, View(nd, ms, rep), NEW n \in Node, Leads(n), NEW t \in Txn,
         NEW w, Executed(nd[n], w, n, t), ~ IntraShard(t), n = Coord(t),
         ~ Parked(nd[n], t), nd[n].out \subseteq ms, nd[n].told \subseteq rep
  PROVE  View([nd EXCEPT ![n] = w], ms \cup w.out, rep \cup w.told)
<1> DEFINE s == nd[n]
           P == nd[Part(t)]
<1>1. /\ w \in NodeState /\ Runs(s, w, n, t) /\ w.out = s.out /\ w.told = s.told
      /\ w.prepare_and_aborted_queue = s.prepare_and_aborted_queue
  BY DEF Executed, Sound
<1>2. s \in NodeState
  OBVIOUS
<1>3. /\ Own(s, n) /\ Orderly(s, n) /\ LocksHeld(s, n) /\ Rounds(s, n, ms)
  BY DEF View
<1>4. CrossStage(t, s, P, ms, rep)
  BY DEF View, Stage
<1>5. ms \cup w.out = ms /\ rep \cup w.told = rep
  BY <1>1
<1>6. ~ Parked(s, t) /\ ~ Parked(w, t)
  BY <1>1 DEF Parked
<1> HIDE DEF s, P
<1>7. /\ Begun(w, n, t) <=> Begun(s, n, t)
      /\ Ended(w, t) <=> Ended(s, t)
  BY <1>1, <1>2, <1>3, RunsKeeps
<1>8. RunMail(ms, ms, t, nd)
  BY DEF RunMail
<1>9. CrossStage(t, w, P, ms, rep)
  <2>1. /\ w.pending_or_completed_ts = s.pending_or_completed_ts
        /\ w.in_flight_transactions = s.in_flight_transactions
        /\ w.in_flight_prepares = s.in_flight_prepares
    BY <1>1 DEF Runs
  <2>. QED
    BY <1>4, <1>6, <1>7, <2>1, CoordRunsStage
<1>10. Stage(t, [nd EXCEPT ![n] = w], ms, rep)
  BY <1>9, StageAt DEF P
<1>11. View([nd EXCEPT ![n] = w], ms, rep)
  BY <1>1, <1>8, <1>10, RunsView DEF s
<1>. QED
  BY <1>5, <1>11

\* The state v in which a parked vote is taken up, and the state u after it.
TookUp(s, w, v, u, n, t, ms) ==
  /\ v \in NodeState /\ Runs(s, v, n, t) /\ Came(s, v, n, t, ms) /\ ~ Parked(v, t)
  /\ v.out = w.out /\ v.told = w.told
  /\ v.accounts = w.accounts /\ v.wal = w.wal
  /\ StartsSecond(v, u, n, t, s.prepare_and_aborted_queue[t])

LEMMA RunTakesUp ==
  ASSUME NEW n \in Node, Leads(n), NEW s \in NodeState, NEW ms, NEW t \in Txn,
         Own(s, n), Orderly(s, n), LocksHeld(s, n), Rounds(s, n, ms),
         NEW w, Executed(s, w, n, t), ~ IntraShard(t), n = Coord(t), Parked(s, t)
  PROVE  LET v == [w EXCEPT !.prepare_and_aborted_queue[t] = ""]
             u == StartSecondPhase(v, n, t, s.prepare_and_aborted_queue[t])
         IN TookUp(s, w, v, u, n, t, ms)
<1> DEFINE what == s.prepare_and_aborted_queue[t]
           v == [w EXCEPT !.prepare_and_aborted_queue[t] = ""]
           u == StartSecondPhase(v, n, t, what)
<1>1. /\ w \in NodeState /\ Sound(w, n) /\ Runs(s, w, n, t)
      /\ w.out = s.out /\ w.told = s.told
      /\ w.prepare_and_aborted_queue = s.prepare_and_aborted_queue
  BY DEF Executed, Sound
<1>2. what \in Vote
  BY DEF Parked, NodeState
<1>3. u = StartSecondPhase(v, n, t, what)
  OBVIOUS
<1> HIDE DEF u
<1>4. /\ v \in NodeState /\ v.out = w.out /\ v.told = w.told
      /\ v.accounts = w.accounts /\ v.wal = w.wal
      /\ v.prepare_and_aborted_queue[t] = ""
      /\ \A y \in Txn \ {t} : v.prepare_and_aborted_queue[y]
                                = w.prepare_and_aborted_queue[y]
      /\ v.last_executed_seq = w.last_executed_seq
      /\ v.accept_log = w.accept_log
      /\ v.digest_to_seqnum = w.digest_to_seqnum
      /\ v.in_flight_prepares = w.in_flight_prepares
  BY <1>1 DEF NodeState
<1>5. Runs(s, v, n, t)
  <2>1. /\ v.alive = w.alive /\ v.exited = w.exited /\ v.leads = w.leads
        /\ v.counter = w.counter
        /\ v.max_seqnum_in_new_view = w.max_seqnum_in_new_view
        /\ v.cluster_leaders = w.cluster_leaders
        /\ v.pending_or_completed_ts = w.pending_or_completed_ts
        /\ v.in_flight_transactions = w.in_flight_transactions
        /\ v.last_seqnum = w.last_seqnum
        /\ v.entries_to_commit = w.entries_to_commit
        /\ v.accepted_count = w.accepted_count
        /\ v.accepted_count_two_pc_commit = w.accepted_count_two_pc_commit
        /\ v.blank_votes = w.blank_votes
        /\ v.balance_locks = w.balance_locks
    BY <1>1 DEF NodeState
  <2>. QED
    BY <1>1, <1>4, <2>1 DEF Runs
<1> HIDE DEF what, v, u
<1>6. Sound(v, n)
  BY <1>1, <1>4, SameAnchors DEF Kept
<1>7. /\ Own(v, n) /\ Orderly(v, n) /\ LocksHeld(v, n) /\ Rounds(v, n, ms)
      /\ Later(s, v) /\ Ran(v, t)
      /\ \A y \in Txn : y # t => Undisturbed(s, v, n, y)
      /\ Ended(v, t) <=> Ended(s, t)
  BY <1>4, <1>5, RunsKeeps
<1>8. Came(s, v, n, t, ms)
  <2>1. /\ v.pending_or_completed_ts = s.pending_or_completed_ts
        /\ v.exited = s.exited
    BY <1>5 DEF Runs
  <2>2. s.exited => v.exited
    BY <2>1
  <2>3. v \in NodeState
    BY <1>4
  <2>. QED
    BY <1>6, <1>7, <2>1, <2>2, <2>3, Zenon DEF Came
<1>9. StartsSecond(v, u, n, t, what)
  BY <1>2, <1>3, <1>6, <1>7, StartSecondPhaseDecides
<1>10. ~ Parked(v, t)
  BY <1>4 DEF Parked
<1>. QED
  BY <1>4, <1>5, <1>8, <1>9, <1>10 DEF TookUp, what, u, v

LEMMA RunTakesUpView ==
  ASSUME Quorums, NEW nd, nd \in [Node -> NodeState], NEW ms \in SUBSET Message,
         NEW rep, View(nd, ms, rep), NEW n \in Node, Leads(n), NEW t \in Txn,
         NEW w, Executed(nd[n], w, n, t), ~ IntraShard(t), n = Coord(t),
         Parked(nd[n], t), nd[n].out \subseteq ms, nd[n].told \subseteq rep,
         NEW u,
         u = StartSecondPhase([w EXCEPT !.prepare_and_aborted_queue[t] = ""],
                              n, t, nd[n].prepare_and_aborted_queue[t])
  PROVE  Goes(nd, ms, rep, n, w, u)
<1> DEFINE s == nd[n]
           P == nd[Part(t)]
           what == s.prepare_and_aborted_queue[t]
           v == [w EXCEPT !.prepare_and_aborted_queue[t] = ""]
<1>1. /\ w.out = s.out /\ w.told = s.told
  BY DEF Executed
<1>2. s \in NodeState
  OBVIOUS
<1>3. what \in Vote
  BY <1>2 DEF Parked, NodeState
<1>4. /\ Own(s, n) /\ Orderly(s, n) /\ LocksHeld(s, n) /\ Rounds(s, n, ms)
  BY DEF View
<1>5. CrossStage(t, s, P, ms, rep)
  BY DEF View, Stage
<1>6. ~ VoteSent(ms, t)
  BY <1>5 DEF CrossStage
<1>7. u = StartSecondPhase(v, n, t, what) /\ Parked(s, t) /\ Executed(s, w, n, t)
      /\ v = [w EXCEPT !.prepare_and_aborted_queue[t] = ""]
  OBVIOUS
<1> HIDE DEF s, P, v
<1>8. TookUp(s, w, v, u, n, t, ms)
  BY <1>2, <1>4, <1>7, RunTakesUp DEF what, v
<1>9. /\ v \in NodeState /\ v.out = w.out /\ v.told = w.told
  BY <1>8 DEF TookUp
<1>10. Came(s, v, n, t, ms)
  BY <1>8 DEF TookUp
<1>11. StartsSecond(v, u, n, t, what)
  BY <1>8 DEF TookUp, what
<1>12. ~ Parked(v, t)
  BY <1>8 DEF TookUp
<1>13. v.last_executed_seq = w.last_executed_seq
  BY <1>7, <1>8 DEF TookUp, Runs, Executed
<1> HIDE DEF what
<1>14. Consumes(ms, ms, n, t) /\ ~ Parked(v, t) /\ v.out \subseteq ms
  BY <1>1, <1>9, <1>12 DEF Consumes, s
<1>15. View([nd EXCEPT ![n] = u], ms \cup u.out, rep)
  <2> DEFINE ms2 == ms \cup u.out
  <2>1. ms2 = ms \cup u.out
    OBVIOUS
  <2>2. Came(nd[n], v, n, t, ms)
    BY <1>10 DEF s
  <2> HIDE DEF ms2
  <2>3. View([nd EXCEPT ![n] = u], ms2, rep)
    BY <1>3, <1>6, <1>11, <1>14, <2>1, <2>2, CoordDecidesView
  <2>. QED
    BY <2>3 DEF ms2
<1>16. /\ v.out \subseteq u.out /\ u.told = v.told
       /\ u.last_executed_seq = v.last_executed_seq
  BY <1>11 DEF StartsSecond, Decides
<1>17. rep \cup u.told = rep
  BY <1>1, <1>9, <1>16 DEF s
<1>18. s.out \subseteq u.out /\ s.told \subseteq u.told
  BY <1>1, <1>9, <1>16
<1>. QED
  BY <1>13, <1>15, <1>16, <1>17, <1>18 DEF s, Goes

LEMMA ExecuteNextView ==
  ASSUME Quorums, NEW nd, nd \in [Node -> NodeState], NEW ms \in SUBSET Message,
         NEW rep, View(nd, ms, rep), NEW n \in Node, Leads(n),
         Sound(nd[n], n), nd[n].out \subseteq ms, nd[n].told \subseteq rep,
         ~ CaughtUp(nd[n])
  PROVE  \E w : /\ Goes(nd, ms, rep, n, w, ExecuteNext(nd[n], n))
                /\ w.last_executed_seq = nd[n].last_executed_seq + 1
<1> DEFINE s == nd[n]
           seq == s.last_executed_seq + 1
           t == s.entries_to_commit[seq].txn
           status == s.entries_to_commit[seq].status
           u == ExecuteNext(s, n)
<1>1. s \in NodeState /\ Own(s, n) /\ Orderly(s, n) /\ Sound(s, n)
  BY DEF View
<1>2. NextIs(s, seq, t)
  BY DEF NextIs, CaughtUp
<1> HIDE DEF s, t, seq
<1>3. NextFits(s, n, seq, t)
  BY <1>1, <1>2, NextEntry
<1>4. t \in Txn /\ Suits(t, ClusterOf[n], status) /\ status \in FirstPhase
  BY <1>3 DEF NextFits
<1>5. PICK w : Executed(s, w, n, t) /\ NextMakes(s, n, t, status, w, u)
  BY <1>1, <1>2, ExecuteNextMakes
<1> HIDE DEF status, u
<1>6. /\ status = "" => IntraShard(t) /\ n = Coord(t)
      /\ status = "COORD" => ~ IntraShard(t) /\ n = Coord(t)
      /\ status \in {"P", "A"} => ~ IntraShard(t) /\ n = Part(t)
  BY <1>4, SuitsWhere
<1>7. Executed(nd[n], w, n, t)
  BY <1>5 DEF s
<1>8. Goes(nd, ms, rep, n, w, u)
  <2>1. CASE status = ""
    <3>1. PICK r \in Reply : r.txn = t /\ u = [w EXCEPT !.told = @ \cup {r}]
      BY <1>5, <2>1 DEF NextMakes
    <3>2. IntraShard(t) /\ n = Coord(t)
      BY <1>6, <2>1
    <3>. QED
      BY <1>4, <1>7, <3>1, <3>2, RunReplyView
  <2>2. CASE status \in {"A", "P"}
    <3>1. PICK what \in Vote : u = Send(w, {TwoPCMsg(what, Coord(t), t)})
      BY <1>5, <2>2 DEF NextMakes
    <3>2. ~ IntraShard(t) /\ n = Part(t)
      BY <1>6, <2>2
    <3>. QED
      BY <1>4, <1>7, <3>1, <3>2, RunVoteView
  <2>3. CASE status = "COORD" /\ ~ Parked(s, t)
    <3>1. u = w
      BY <1>5, <2>3 DEF NextMakes
    <3>2. ~ IntraShard(t) /\ n = Coord(t)
      BY <1>6, <2>3
    <3>3. View([nd EXCEPT ![n] = w], ms \cup w.out, rep \cup w.told)
      BY <1>4, <1>7, <2>3, <3>2, RunQuietView DEF s
    <3>4. w.out = nd[n].out /\ w.told = nd[n].told
      BY <1>7 DEF Executed
    <3>. QED
      BY <3>1, <3>3, <3>4 DEF Goes
  <2>4. CASE status = "COORD" /\ Parked(s, t)
    <3>1. u = StartSecondPhase([w EXCEPT !.prepare_and_aborted_queue[t] = ""],
                               n, t, nd[n].prepare_and_aborted_queue[t])
      BY <1>5, <2>4 DEF NextMakes, s
    <3>2. ~ IntraShard(t) /\ n = Coord(t) /\ Parked(nd[n], t)
      BY <1>6, <2>4 DEF s
    <3>. QED
      BY <1>4, <1>7, <3>1, <3>2, RunTakesUpView
  <2>. QED
    BY <1>4, <2>1, <2>2, <2>3, <2>4 DEF FirstPhase
<1>9. w.last_executed_seq = s.last_executed_seq + 1
  BY <1>5 DEF Executed, Runs
<1>. QED
  BY <1>8, <1>9 DEF u, s

\* The state s of leader n in the middle of the loop, ms and rep without what
\* it has said.
Running(nd, ms, rep, n, s) ==
  /\ Sound(s, n)
  /\ View([nd EXCEPT ![n] = s], ms \cup s.out, rep \cup s.told)

LEMMA RunningOn ==
  ASSUME Quorums, NEW nd, nd \in [Node -> NodeState], NEW ms \in SUBSET Message,
         NEW rep, NEW n \in Node, Leads(n), NEW s, Running(nd, ms, rep, n, s),
         ~ CaughtUp(s)
  PROVE  /\ Running(nd, ms, rep, n, ExecuteNext(s, n))
         /\ ExecuteNext(s, n).last_executed_seq = s.last_executed_seq + 1
<1> DEFINE nd1 == [nd EXCEPT ![n] = s]
           ms1 == ms \cup s.out
           rep1 == rep \cup s.told
           u == ExecuteNext(s, n)
<1>1. Sound(s, n) /\ s \in NodeState /\ View(nd1, ms1, rep1)
  BY DEF Running, Sound
<1>2. nd1 \in [Node -> NodeState] /\ nd1[n] = s
  BY <1>1
<1>3. ms1 \in SUBSET Message /\ s.out \subseteq ms1 /\ s.told \subseteq rep1
  BY <1>1 DEF NodeState
<1>4. [nd1 EXCEPT ![n] = u] = [nd EXCEPT ![n] = u]
  OBVIOUS
<1>5. Sound(u, n)
  BY <1>1, ExecuteNextSound
<1> HIDE DEF nd1, ms1, rep1, u
<1>6. /\ View([nd1 EXCEPT ![n] = u], ms1 \cup u.out, rep1 \cup u.told)
      /\ s.out \subseteq u.out /\ s.told \subseteq u.told
      /\ u.last_executed_seq = s.last_executed_seq + 1
  <2>1. PICK w : /\ Goes(nd1, ms1, rep1, n, w, ExecuteNext(nd1[n], n))
                 /\ w.last_executed_seq = nd1[n].last_executed_seq + 1
    BY <1>1, <1>2, <1>3, ExecuteNextView
  <2>. QED
    BY <1>2, <2>1 DEF u, Goes
<1>7. ms1 \cup u.out = ms \cup u.out /\ rep1 \cup u.told = rep \cup u.told
  BY <1>6 DEF ms1, rep1
<1>. QED
  BY <1>4, <1>5, <1>6, <1>7 DEF Running, u

LEMMA LoopView ==
  ASSUME Quorums, NEW nd, nd \in [Node -> NodeState], NEW ms \in SUBSET Message,
         NEW rep, NEW n \in Node, Leads(n), NEW s, Running(nd, ms, rep, n, s)
  PROVE  LET u == SequentiallyExecuteCommittedEntries(s, n)
         IN Running(nd, ms, rep, n, u) /\ CaughtUp(u)
<1>1. PICK f : /\ f[0] = s
               /\ f[MaxSeq] = SequentiallyExecuteCommittedEntries(s, n)
               /\ \A i \in 1 .. MaxSeq : f[i] = ExecuteNext(f[i - 1], n)
  BY LoopIsChain
<1> DEFINE Good(i) == /\ Running(nd, ms, rep, n, f[i])
                      /\ CaughtUp(f[i]) \/ f[i].last_executed_seq >= i
           Bad == {i \in 0 .. MaxSeq : ~ Good(i)}
<1>2. ASSUME NEW k \in Bad, \A i \in Bad : k <= i PROVE FALSE
  <2>1. k \in Nat /\ k \in 0 .. MaxSeq /\ MaxSeq \in Nat /\ ~ Good(k)
    BY <1>2, ConstantsAssumption
  <2>2. k # 0
    <3>1. s \in NodeState
      BY DEF Running, Sound
    <3>2. s.last_executed_seq >= 0
      BY <3>1, Numbers
    <3>. QED
      BY <1>1, <2>1, <3>2
  <2>3. k \in 1 .. MaxSeq /\ k - 1 \in 0 .. MaxSeq /\ ~ (k <= k - 1)
    BY <2>1, <2>2
  <2>4. Good(k - 1)
    BY <1>2, <2>3
  <2>5. f[k] = ExecuteNext(f[k - 1], n)
    BY <1>1, <2>3
  <2> DEFINE a == f[k - 1]
             b == f[k]
  <2>6. Running(nd, ms, rep, n, a) /\ (CaughtUp(a) \/ a.last_executed_seq >= k - 1)
    BY <2>4
  <2>7. b = ExecuteNext(a, n)
    BY <2>5
  <2>8. ~ (Running(nd, ms, rep, n, b) /\ (CaughtUp(b) \/ b.last_executed_seq >= k))
    BY <2>1
  <2>9. a.last_executed_seq \in Int
    BY <2>6, Numbers DEF Running, Sound
  <2> HIDE DEF a, b
  <2>10. CASE CaughtUp(a)
    <3>1. b = a
      BY <2>7, <2>10 DEF CaughtUp, ExecuteNext
    <3>. QED
      BY <2>6, <2>8, <2>10, <3>1
  <2>11. CASE ~ CaughtUp(a)
    <3>1. /\ Running(nd, ms, rep, n, b)
          /\ b.last_executed_seq = a.last_executed_seq + 1
      BY <2>6, <2>7, <2>11, RunningOn
    <3>2. a.last_executed_seq >= k - 1
      BY <2>6, <2>11
    <3>3. b.last_executed_seq >= k
      BY <2>1, <2>9, <3>1, <3>2
    <3>. QED
      BY <2>8, <3>1, <3>3
  <2>. QED
    BY <2>10, <2>11
<1>3. Bad = {}
  <2>1. Bad \in SUBSET Nat
    BY ConstantsAssumption
  <2> HIDE DEF Bad
  <2>. QED
    BY <1>2, <2>1, LeastElement
<1>4. MaxSeq \in 0 .. MaxSeq /\ MaxSeq \in Nat
  BY ConstantsAssumption
<1> DEFINE u == f[MaxSeq]
<1>5. Running(nd, ms, rep, n, u) /\ (CaughtUp(u) \/ u.last_executed_seq >= MaxSeq)
  BY <1>3, <1>4
<1> HIDE DEF u
<1>6. u.last_executed_seq >= MaxSeq => CaughtUp(u)
  <2>1. u.last_executed_seq \in Int
    BY <1>5, Numbers DEF Running, Sound
  <2>2. u.last_executed_seq >= MaxSeq => u.last_executed_seq + 1 \notin Seqnum
    BY <1>4, <2>1 DEF Seqnum
  <2>. QED
    BY <2>2 DEF CaughtUp
<1>. QED
  BY <1>1, <1>5, <1>6 DEF u

-----------------------------------------------------------------------------
\* The participant's leader takes a PREPARE.

LEMMA KnownPrepareProgress ==
  ASSUME TypeInv, ProgressInv, NEW n \in Node, NEW m \in msgs,
         m.type = "PREPARE", m.to = n,
         m.txn \in node[n].pending_or_completed_ts, Finish(n, node[n], {m})
  PROVE  ProgressInv'
<1> DEFINE s == node[n]
           t == m.txn
           ms == (msgs \ {m}) \cup s.out
           C == node[Coord(t)]
<1>1. /\ s \in NodeState /\ s.out = {} /\ s.told = {} /\ Own(s, n)
      /\ node \in [Node -> NodeState] /\ msgs \subseteq Message
      /\ View(node, msgs, replies) /\ t \in Txn
  BY NodeFacts DEF TypeInv, TypeOK, ProgressInv, View, Message
<1>2. ~ IntraShard(t) /\ n = Part(t)
  BY <1>1 DEF View, Shaped
<1>3. \A x : x \in ms <=> x \in msgs /\ x # m
  BY <1>1
<1>4. [node EXCEPT ![n] = s] = node
  BY <1>1
<1>5. CrossStage(t, C, s, msgs, replies)
  BY <1>1, <1>2 DEF View, Stage
<1>6. t \in s.pending_or_completed_ts
  OBVIOUS
<1> HIDE DEF s, C, ms, t
<1>7. CrossStage(t, C, s, ms, replies)
  <2>1. \A x : x.type = "TwoPC" => (x \in ms <=> x \in msgs)
    BY <1>3
  <2>2. /\ VoteSent(ms, t) <=> VoteSent(msgs, t)
        /\ DecisionSent(ms, t) <=> DecisionSent(msgs, t)
        /\ ConfirmationSent(ms, t) <=> ConfirmationSent(msgs, t)
        /\ OneVote(msgs, t) => OneVote(ms, t)
    BY <2>1 DEF VoteSent, DecisionSent, ConfirmationSent, OneVote, Brings
  <2>3. PrepareSent(ms, t) => PrepareSent(msgs, t)
    BY <1>3 DEF PrepareSent
  <2>. QED
    BY <1>5, <1>6, <2>2, <2>3 DEF CrossStage
<1>8. \A y \in Txn : Stage(y, node, ms, replies)
  <2>1. Stage(t, node, ms, replies)
    BY <1>2, <1>7 DEF Stage, C, s
  <2>2. ASSUME NEW y \in Txn, y # t PROVE Stage(y, node, ms, replies)
    <3>1. SameMail(msgs, ms, y)
      BY <1>3, <2>2 DEF SameMail, t
    <3>2. Undisturbed(s, s, n, y)
      BY DEF Undisturbed
    <3>3. Stage(y, node, msgs, replies)
      BY <1>1 DEF View
    <3>4. Stage(y, [node EXCEPT ![n] = s], ms, replies)
      BY <1>1, <3>1, <3>2, <3>3, SameStage DEF s
    <3>. QED
      BY <1>4, <3>4
  <2>. QED
    BY <2>1, <2>2
<1>9. \A q : StillChasing(msgs, ms, q)
  BY <1>3, OtherMail
<1>10. View([node EXCEPT ![n] = s], ms, replies)
  <2>1. SameLog(s, s)
    BY DEF SameLog
  <2>2. ms \in SUBSET Message /\ \A x \in ms \ msgs : Shaped(x, node)
    BY <1>1, <1>3
  <2>3. \A y \in Txn : Stage(y, [node EXCEPT ![n] = s], ms, replies)
    BY <1>4, <1>8
  <2>. QED
    BY <1>1, <1>9, <2>1, <2>2, <2>3, SameLogView DEF s
<1>11. Leads(n) => CaughtUp(s)
  BY DEF ProgressInv, s
<1>12. Finish(n, s, {m}) /\ replies \cup s.told = replies
  BY <1>1 DEF s
<1>. QED
  BY <1>1, <1>10, <1>11, <1>12, FinishProgress DEF ms

\* It has claimed the transfer and locked the account if that was free.
LEMMA NewPrepareClaims ==
  ASSUME TypeInv, ProgressInv, NEW n \in Node, NEW m \in msgs,
         HandlePrepare(n, m), m.txn \notin node[n].pending_or_completed_ts
  PROVE  LET s == node[n]
             t == m.txn
         IN /\ m.type = "PREPARE" /\ t \in Txn /\ ~ IntraShard(t)
            /\ n = Part(t) /\ n # Coord(t) /\ Leads(n)
            /\ \E u \in NodeState, status \in {"P", "A"} :
                 /\ Finish(n, u, {m})
                 /\ Proposed(s, u, n, t, status, {})
                 /\ Suits(t, ClusterOf[n], status)
                 /\ status = "P" =>
                      /\ To[t] \notin s.balance_locks
                      /\ u.balance_locks = s.balance_locks \cup {To[t]}
                 /\ status = "A" => u.balance_locks = s.balance_locks
<1> DEFINE s == node[n]
           t == m.txn
           free == ReceiverFree(s, t)
           locks == IF free THEN s.balance_locks \cup {To[t]}
                    ELSE s.balance_locks
           prepares == s.in_flight_prepares
           status == IF free THEN "P" ELSE "A"
           v == Marked(s, locks, prepares, {})
           u == Propose(v, n, t, status)
<1>1. /\ s \in NodeState /\ s.out = {} /\ s.told = {} /\ Own(s, n)
      /\ node \in [Node -> NodeState] /\ msgs \subseteq Message
      /\ View(node, msgs, replies)
  BY NodeFacts DEF TypeInv, TypeOK, ProgressInv, View
<1>2. /\ m.type = "PREPARE" /\ m.to = n /\ s.leads /\ s.last_seqnum < MaxSeq
      /\ t \notin s.pending_or_completed_ts
  BY DEF HandlePrepare
<1>3. t \in Txn
  BY <1>1, <1>2 DEF Message
<1>4. ~ IntraShard(t) /\ n = Part(t) /\ m.from = Coord(t)
  BY <1>1, <1>2 DEF View, Shaped
<1>5. Leads(n) /\ n # Coord(t) /\ ClusterOf[n] = PartCluster(t)
  BY <1>3, <1>4, LeadersDiffer
<1>6. Finish(n, u, {m})
  <2> DEFINE w == [s EXCEPT !.cluster_leaders[CoordCluster(t)] = m.from]
  <2>1. w = s
    <3>1. s.cluster_leaders = FirstLeader
      BY <1>1 DEF Own
    <3>2. [s.cluster_leaders EXCEPT ![CoordCluster(t)] = m.from]
             = s.cluster_leaders
      BY <1>4, <3>1, ConstantsAssumption DEF Coord
    <3>3. w = [s EXCEPT !.cluster_leaders =
                 [s.cluster_leaders EXCEPT ![CoordCluster(t)] = m.from]]
      BY <1>1 DEF NodeState
    <3>4. [s EXCEPT !.cluster_leaders = s.cluster_leaders] = s
      BY <1>1 DEF NodeState
    <3>. QED
      BY <3>2, <3>3, <3>4
  <2>2. Finish(n, IF free THEN Propose([w EXCEPT !.balance_locks = @ \cup {To[t]}],
                                       n, t, "P")
                  ELSE Propose(w, n, t, "A"), {m})
    <3> HIDE DEF free, w
    <3>. QED
      BY <1>2 DEF HandlePrepare, free, w
  <2> HIDE DEF w
  <2>3. free => v = [w EXCEPT !.balance_locks = @ \cup {To[t]}]
    BY <1>1, <2>1, ZenonT(60) DEF Marked, NodeState
  <2>4. ~ free => v = w
    BY <1>1, <2>1, ZenonT(60) DEF Marked, NodeState
  <2> HIDE DEF free, v
  <2>. QED
    BY <2>2, <2>3, <2>4
<1>7. /\ prepares \in [Txn -> [sent : BOOLEAN, completed : BOOLEAN,
                               retries : {0, 1}]]
      /\ \A y \in Txn : y # t => prepares[y] = s.in_flight_prepares[y]
      /\ ~ prepares[t].sent
  <2>1. ~ s.in_flight_prepares[t].sent
    BY <1>1, <1>3, <1>5 DEF Own
  <2>. QED
    BY <1>1, <2>1 DEF NodeState
<1>8. locks \in SUBSET Account
  <2>1. To[t] \in Account
    BY <1>3, ConstantsAssumption
  <2>2. s.balance_locks \in SUBSET Account
    BY <1>1 DEF NodeState
  <2>. QED
    BY <2>1, <2>2
<1>9. \A a \in locks : a \in s.balance_locks \/ Locks(n, t, a)
  BY <1>4, <1>5 DEF Locks
<1>10. /\ status \in Status /\ status \in FirstPhase
       /\ Suits(t, ClusterOf[n], status)
  BY <1>4, <1>5 DEF Status, FirstPhase, Suits
<1>11. /\ status \in {"P", "A"}
       /\ status = "P" => /\ To[t] \notin s.balance_locks
                          /\ locks = s.balance_locks \cup {To[t]}
       /\ status = "A" => locks = s.balance_locks
  BY DEF ReceiverFree
<1> HIDE DEF locks, prepares, s, status
<1>12. Proposed(s, u, n, t, status, {}) /\ u.balance_locks = locks
  <2>1. /\ s \in NodeState /\ Own(s, n) /\ status \in Status
        /\ s.last_seqnum < MaxSeq
    BY <1>1, <1>2, <1>10
  <2>2. Ready(s, n, t, locks, prepares, {})
    BY <1>7, <1>8, <1>9 DEF Ready
  <2> HIDE DEF v, t
  <2>3. LET w == Propose(Marked(s, locks, prepares, {}), n, t, status)
        IN Proposed(s, w, n, t, status, {}) /\ w.balance_locks = locks
    BY <1>3, <2>1, <2>2, ProposeClaims
  <2>. QED
    BY <2>3 DEF v
<1> HIDE DEF u
<1>13. u \in NodeState
  BY <1>12 DEF Proposed
<1> HIDE DEF t
<1>14. /\ Finish(n, u, {m})
       /\ Proposed(s, u, n, t, status, {})
       /\ Suits(t, ClusterOf[n], status)
       /\ status = "P" => /\ To[t] \notin s.balance_locks
                          /\ u.balance_locks = s.balance_locks \cup {To[t]}
       /\ status = "A" => u.balance_locks = s.balance_locks
  BY <1>6, <1>10, <1>11, <1>12
<1>. QED
  BY <1>2, <1>3, <1>4, <1>5, <1>11, <1>13, <1>14 DEF s, t

LEMMA NewPrepareProgress ==
  ASSUME Quorums, TypeInv, ProgressInv, NEW n \in Node, NEW m \in msgs,
         HandlePrepare(n, m), m.txn \notin node[n].pending_or_completed_ts
  PROVE  ProgressInv'
<1> DEFINE s == node[n]
           t == m.txn
<1>1. /\ s \in NodeState /\ s.told = {}
      /\ node \in [Node -> NodeState] /\ msgs \subseteq Message
      /\ View(node, msgs, replies)
  BY NodeFacts DEF TypeInv, TypeOK, ProgressInv, View
<1>2. /\ m.type = "PREPARE" /\ t \in Txn /\ ~ IntraShard(t)
      /\ n = Part(t) /\ n # Coord(t) /\ Leads(n)
      /\ t \notin s.pending_or_completed_ts
  BY NewPrepareClaims
<1>3. PICK u \in NodeState, status \in {"P", "A"} :
        /\ Finish(n, u, {m})
        /\ Proposed(s, u, n, t, status, {})
        /\ Suits(t, ClusterOf[n], status)
  BY NewPrepareClaims
<1> DEFINE e == FirstEntry(t, status)
           accepts == AcceptsOf(n, s.last_seqnum + 1, e)
           ms == (msgs \ {m}) \cup u.out
<1> HIDE DEF s
<1>4. /\ e \in Entry /\ e.status = status /\ e.counter = 1
      /\ Claims(s, u, n, t, status) /\ status \in FirstPhase
      /\ u.out = accepts /\ u.told = {}
  BY <1>1, <1>3 DEF Proposed, FirstPhase
<1> HIDE DEF e
<1>5. accepts \subseteq Message
  <2> DEFINE seq == s.last_seqnum + 1
  <2>1. seq \in Seqnum
    BY <1>4 DEF Claims
  <2> HIDE DEF seq
  <2>2. AcceptsOf(n, seq, e) \subseteq Message
    BY <1>4, <2>1, AcceptsAre
  <2>. QED
    BY <2>2 DEF seq
<1> HIDE DEF accepts
<1>6. \A y : y \in ms <=> (y \in msgs /\ y # m) \/ y \in accepts
  BY <1>4
<1> HIDE DEF ms
<1>7. ClaimMail(n, t, msgs, ms, accepts)
  <2>1. ms \subseteq Message /\ accepts \subseteq ms
    BY <1>1, <1>5, <1>6
  <2>2. PrepareSent(msgs, t)
    BY <1>2 DEF PrepareSent
  <2>. QED
    BY <1>2, <1>6, <2>1, <2>2 DEF ClaimMail
<1> HIDE DEF t
<1>8. View([node EXCEPT ![n] = u], ms, replies)
  <2>1. n \in {Coord(t), Part(t)}
    BY <1>2
  <2>. QED
    BY <1>1, <1>2, <1>3, <1>4, <1>7, <2>1, ClaimView DEF accepts, s
<1>9. CaughtUp(u)
  BY <1>2, <1>4, ClaimsCaughtUp DEF ProgressInv, s
<1>10. replies \cup u.told = replies
  BY <1>4
<1>. QED
  BY <1>3, <1>8, <1>9, <1>10, FinishProgress DEF ms

LEMMA HandlePrepareProgress ==
  ASSUME Quorums, TypeInv, ProgressInv, NEW n \in Node, NEW m \in msgs,
         HandlePrepare(n, m)
  PROVE  ProgressInv'
<1>1. CASE m.txn \in node[n].pending_or_completed_ts
  <2>1. m.type = "PREPARE" /\ m.to = n /\ Finish(n, node[n], {m})
    BY <1>1 DEF HandlePrepare
  <2>. QED
    BY <1>1, <2>1, KnownPrepareProgress
<1>2. CASE m.txn \notin node[n].pending_or_completed_ts
  BY <1>2, NewPrepareProgress
<1>. QED
  BY <1>1, <1>2

-----------------------------------------------------------------------------
\* Votes at the coordinator's leader, the decision at the participant's.

LEMMA ParkVoteProgress ==
  ASSUME TypeInv, ProgressInv, NEW n \in Node, NEW m \in msgs, NEW t \in Txn,
         Brings(m, n, t, Vote), ~ IntraShard(t), n = Coord(t),
         ~ Ran(node[n], t),
         Finish(n, [node[n] EXCEPT !.prepare_and_aborted_queue[t] = m.what], {m})
  PROVE  ProgressInv'
<1> DEFINE s == node[n]
           u == [s EXCEPT !.prepare_and_aborted_queue[t] = m.what]
           ms == (msgs \ {m}) \cup u.out
           P == node[Part(t)]
<1>1. /\ s \in NodeState /\ s.out = {} /\ s.told = {} /\ Own(s, n)
      /\ node \in [Node -> NodeState] /\ msgs \subseteq Message
      /\ View(node, msgs, replies)
  BY NodeFacts DEF TypeInv, TypeOK, ProgressInv, View
<1>2. /\ m.type = "TwoPC" /\ m.to = n /\ m.txn = t /\ m.what \in Vote
  BY DEF Brings
<1>3. Leads(n) /\ Part(t) # n
  BY LeadersDiffer
<1>4. /\ u \in NodeState /\ SameLog(s, u) /\ u.out = {} /\ u.told = {}
      /\ u.prepare_and_aborted_queue[t] = m.what
      /\ \A y \in Txn : y # t => u.prepare_and_aborted_queue[y]
                                   = s.prepare_and_aborted_queue[y]
      /\ u.counter = s.counter
      /\ u.max_seqnum_in_new_view = s.max_seqnum_in_new_view
      /\ u.cluster_leaders = s.cluster_leaders
      /\ u.leads = s.leads /\ u.exited = s.exited
      /\ u.pending_or_completed_ts = s.pending_or_completed_ts
      /\ u.in_flight_transactions = s.in_flight_transactions
      /\ u.in_flight_prepares = s.in_flight_prepares
  BY <1>1, <1>2, ZenonT(60) DEF NodeState, SameLog
<1>5. CrossStage(t, s, P, msgs, replies)
  BY <1>1 DEF View, Stage
<1>6. \A x : x \in ms <=> x \in msgs /\ x # m
  BY <1>4
<1>7. Finish(n, u, {m}) /\ ~ Ran(s, t)
  OBVIOUS
<1> HIDE DEF s, u, ms, P
<1>8. Own(u, n)
  BY <1>1, <1>4 DEF Own
<1>9. CrossStage(t, u, P, ms, replies)
  <2>1. VoteSent(msgs, t)
    BY DEF VoteSent
  <2>2. m.what \notin Confirmation /\ ~ (m.what = "")
    BY <1>2 DEF Vote, Confirmation
  <2>3. Parked(u, t)
    BY <1>4, <2>2 DEF Parked
  <2>4. SameKinds(msgs, ms, t)
    BY <1>2, <1>3, <1>6, <2>2
       DEF SameKinds, PrepareSent, DecisionSent, ConfirmationSent, Brings
  <2>5. OneVote(msgs, t)
    BY <1>5 DEF CrossStage
  <2>6. ~ VoteSent(ms, t) /\ OneVote(ms, t)
    BY <1>6, <2>5 DEF VoteSent, OneVote
  <2>7. /\ Ran(u, t) <=> Ran(s, t)
        /\ Begun(u, Coord(t), t) <=> Begun(s, Coord(t), t)
        /\ Ended(u, t) <=> Ended(s, t)
    BY <1>4 DEF SameLog, Ran, Begun, Ended
  <2>. QED
    BY <1>4, <1>5, <1>7, <2>1, <2>3, <2>4, <2>6, <2>7, ParksStage
<1>10. ASSUME NEW y \in Txn PROVE Stage(y, [node EXCEPT ![n] = u], ms, replies)
  <2>1. CASE y = t
    BY <1>1, <1>9, <2>1, StageAt DEF P
  <2>2. CASE y # t
    <3>1. SameMail(msgs, ms, y)
      BY <1>2, <1>6, <2>2 DEF SameMail
    <3>2. Undisturbed(s, u, n, y)
      BY <1>4, <2>2, SameLogUndisturbed
    <3>3. Stage(y, node, msgs, replies)
      BY <1>1 DEF View
    <3>. QED
      BY <1>1, <3>1, <3>2, <3>3, SameStage DEF s
  <2>. QED
    BY <2>1, <2>2
<1>11. View([node EXCEPT ![n] = u], ms, replies)
  <2>1. \A q : StillChasing(msgs, ms, q)
    BY <1>2, <1>6, OtherMail
  <2>2. ms \in SUBSET Message /\ \A x \in ms \ msgs : Shaped(x, node)
    BY <1>1, <1>6
  <2>. QED
    BY <1>1, <1>4, <1>8, <1>10, <2>1, <2>2, SameLogView DEF s
<1>12. CaughtUp(u)
  <2>1. CaughtUp(s)
    BY <1>3 DEF ProgressInv, s
  <2>. QED
    BY <1>4, <2>1 DEF CaughtUp, SameLog
<1>13. replies \cup u.told = replies
  BY <1>4
<1>. QED
  BY <1>4, <1>7, <1>11, <1>12, <1>13, FinishProgress DEF ms

LEMMA StartSecondPhaseProgress ==
  ASSUME Quorums, TypeInv, ProgressInv, NEW n \in Node, NEW m \in msgs,
         NEW t \in Txn, Brings(m, n, t, Vote), ~ IntraShard(t),
         n \in {Coord(t), Part(t)}, n = Coord(t) => Ran(node[n], t),
         Finish(n, StartSecondPhase(node[n], n, t, m.what), {m})
  PROVE  ProgressInv'
<1> DEFINE s == node[n]
           u == StartSecondPhase(s, n, t, m.what)
           ms1 == msgs \ {m}
           ms == ms1 \cup u.out
<1>1. /\ s \in NodeState /\ s.out = {} /\ s.told = {} /\ Own(s, n)
      /\ node \in [Node -> NodeState] /\ msgs \in SUBSET Message
      /\ View(node, msgs, replies) /\ Sound(s, n)
  BY NodeFacts DEF TypeInv, TypeOK, ProgressInv, View
<1>2. m.what \in Vote
  BY DEF Brings
<1>3. Leads(n) /\ Coord(t) # Part(t)
  BY LeadersDiffer
<1>4. /\ Orderly(s, n) /\ LocksHeld(s, n) /\ Rounds(s, n, msgs)
  BY <1>1, <1>3 DEF View
<1>5. CrossStage(t, node[Coord(t)], node[Part(t)], msgs, replies)
  BY <1>1 DEF View, Stage
<1>6. Ran(s, t)
  <2>1. CASE n = Coord(t)
    BY <2>1
  <2>2. CASE n = Part(t)
    <3>1. DecisionSent(msgs, t)
      BY <2>2 DEF DecisionSent
    <3>. QED
      BY <1>5, <2>2, <3>1 DEF CrossStage
  <2>. QED
    BY <2>1, <2>2
<1>7. Finish(n, u, {m})
  OBVIOUS
<1> HIDE DEF s
<1>8. StartsSecond(s, u, n, t, m.what)
  BY <1>1, <1>2, <1>4, <1>6, StartSecondPhaseDecides
<1> HIDE DEF u
<1>9. /\ u \in NodeState /\ u.told = {}
      /\ u.last_executed_seq = s.last_executed_seq
      /\ u.entries_to_commit = s.entries_to_commit
  BY <1>1, <1>8 DEF StartsSecond, Decides
<1>10. ms = ms1 \cup u.out /\ ms = (msgs \ {m}) \cup u.out
  OBVIOUS
<1>11. View([node EXCEPT ![n] = u], ms, replies)
  <2>1. CASE n = Coord(t)
    <3>1. VoteSent(msgs, t)
      BY <2>1 DEF VoteSent
    <3>2. OneVote(msgs, t) /\ ~ Parked(s, t)
      BY <1>5, <1>6, <2>1 DEF CrossStage, s
    <3>3. ~ VoteSent(ms1, t)
      BY <2>1, <3>2 DEF VoteSent, OneVote
    <3>4. Consumes(msgs, ms1, n, t)
      BY DEF Consumes
    <3>5. Came(s, s, n, t, msgs)
      <4>1. s.last_seqnum \in Int
        BY <1>1, Numbers
      <4>2. Later(s, s)
        BY <4>1 DEF Later
      <4>3. \A y \in Txn : Undisturbed(s, s, n, y)
        BY DEF Undisturbed
      <4>. QED
        BY <1>1, <1>4, <1>6, <4>2, <4>3 DEF Came
    <3>6. s.out \subseteq ms1 /\ Came(node[n], s, n, t, msgs)
      BY <1>1, <3>5 DEF s
    <3> HIDE DEF ms1, ms
    <3>. QED
      BY <1>1, <1>2, <1>8, <1>10, <2>1, <3>1, <3>2, <3>3, <3>4, <3>6,
         CoordDecidesView
  <2>2. CASE n = Part(t)
    <3>1. StartsSecond(node[n], u, n, t, m.what) /\ node[n].out \subseteq msgs \ {m}
      BY <1>1, <1>8 DEF s
    <3> HIDE DEF ms1, ms
    <3>. QED
      BY <1>1, <1>10, <2>2, <3>1, PartDecidesView
  <2>. QED
    BY <2>1, <2>2
<1>12. CaughtUp(u)
  <2>1. CaughtUp(s)
    BY <1>3 DEF ProgressInv, s
  <2>. QED
    BY <1>9, <2>1 DEF CaughtUp
<1>13. replies \cup u.told = replies
  BY <1>9
<1> HIDE DEF ms1, ms
<1>. QED
  BY <1>7, <1>9, <1>10, <1>11, <1>12, <1>13, FinishProgress

LEMMA HandleVoteProgress ==
  ASSUME Quorums, TypeInv, ProgressInv, NEW n \in Node, NEW m \in msgs,
         HandlePreparedAndAborted(n, m)
  PROVE  ProgressInv'
<1> DEFINE s == node[n]
           t == m.txn
<1>1. /\ m.type = "TwoPC" /\ m.to = n /\ m.what \in Vote
  BY DEF HandlePreparedAndAborted, Vote
<1>2. /\ msgs \subseteq Message /\ View(node, msgs, replies)
  BY DEF TypeInv, TypeOK, ProgressInv
<1>3. t \in Txn
  BY <1>1, <1>2 DEF Message
<1>4. Brings(m, n, t, Vote)
  BY <1>1 DEF Brings
<1>5. ~ IntraShard(t) /\ n \in {Coord(t), Part(t)}
  BY <1>1, <1>2 DEF View, Shaped
<1>6. ClusterOf[n] = CoordCluster(t) <=> n = Coord(t)
  BY <1>3, <1>5, LeadersDiffer DEF IntraShard
<1>7. Finish(n, IF ClusterOf[n] = CoordCluster(t) /\ ~ Ran(s, t)
                THEN [s EXCEPT !.prepare_and_aborted_queue[t] = m.what]
                ELSE StartSecondPhase(s, n, t, m.what), {m})
  BY DEF HandlePreparedAndAborted, Ran
<1>8. CASE n = Coord(t) /\ ~ Ran(s, t)
  <2>1. Finish(n, [node[n] EXCEPT !.prepare_and_aborted_queue[t] = m.what], {m})
    BY <1>6, <1>7, <1>8
  <2> HIDE DEF t
  <2>. QED
    BY <1>3, <1>4, <1>5, <1>8, <2>1, ParkVoteProgress
<1>9. CASE ~ (n = Coord(t) /\ ~ Ran(s, t))
  <2>1. Finish(n, StartSecondPhase(node[n], n, t, m.what), {m})
    BY <1>6, <1>7, <1>9
  <2> HIDE DEF t
  <2>. QED
    BY <1>3, <1>4, <1>5, <1>9, <2>1, StartSecondPhaseProgress
<1>. QED
  BY <1>8, <1>9

-----------------------------------------------------------------------------
\* A leader counts the acknowledgement of an entry.

\* It records the commit c of entry seq and tells its peers.
Notes(w, b, n, seq, c) ==
  /\ Sound(b, n)
  /\ b.alive = w.alive /\ b.exited = w.exited /\ b.leads = w.leads
  /\ b.counter = w.counter
  /\ b.max_seqnum_in_new_view = w.max_seqnum_in_new_view
  /\ b.cluster_leaders = w.cluster_leaders
  /\ b.pending_or_completed_ts = w.pending_or_completed_ts
  /\ b.prepare_and_aborted_queue = w.prepare_and_aborted_queue
  /\ b.in_flight_transactions = w.in_flight_transactions
  /\ b.in_flight_prepares = w.in_flight_prepares
  /\ b.last_executed_seq = w.last_executed_seq
  /\ b.last_seqnum = w.last_seqnum
  /\ b.digest_to_seqnum = w.digest_to_seqnum
  /\ b.accept_log = w.accept_log
  /\ b.accepted_count = w.accepted_count
  /\ b.accepted_count_two_pc_commit = w.accepted_count_two_pc_commit
  /\ b.blank_votes = w.blank_votes
  /\ b.balance_locks = w.balance_locks
  /\ b.told = w.told
  /\ b.accounts = w.accounts /\ b.wal = w.wal
  /\ \A x \in Seqnum : x # seq => b.entries_to_commit[x] = w.entries_to_commit[x]
  /\ w.entries_to_commit[seq] = NoCommit => b.entries_to_commit[seq] = c
  /\ w.entries_to_commit[seq] # NoCommit =>
       b.entries_to_commit[seq] = w.entries_to_commit[seq]
  /\ w.out \subseteq b.out
  /\ \A m \in b.out : m \in w.out \/ (m.type = "Commit" /\ m.to \in Peers(n))

CommitMsg(n, seq, c, blank) ==
  [type |-> "Commit", from |-> n, to |-> n, seq |-> seq, c |-> c,
   blank |-> blank]

LEMMA CommitNoted ==
  ASSUME NEW n \in Node, NEW w, Sound(w, n), NEW seq \in Seqnum,
         NEW c \in CommitRecord, NEW blank \in BOOLEAN
  PROVE  Notes(w, Broadcast(RecordCommit(w, seq, c), n,
                            CommitMsg(n, seq, c, blank)), n, seq, c)
<1> DEFINE r == RecordCommit(w, seq, c)
           ms == {[CommitMsg(n, seq, c, blank) EXCEPT !.to = q] : q \in Peers(n)}
           b == Send(r, ms)
<1>1. w \in NodeState
  BY DEF Sound
<1>2. /\ r \in NodeState /\ r.out = w.out /\ r.told = w.told
      /\ r.alive = w.alive /\ r.exited = w.exited /\ r.leads = w.leads
      /\ r.counter = w.counter
      /\ r.max_seqnum_in_new_view = w.max_seqnum_in_new_view
      /\ r.cluster_leaders = w.cluster_leaders
      /\ r.pending_or_completed_ts = w.pending_or_completed_ts
      /\ r.prepare_and_aborted_queue = w.prepare_and_aborted_queue
      /\ r.in_flight_transactions = w.in_flight_transactions
      /\ r.in_flight_prepares = w.in_flight_prepares
      /\ r.last_executed_seq = w.last_executed_seq
      /\ r.last_seqnum = w.last_seqnum
      /\ r.digest_to_seqnum = w.digest_to_seqnum
      /\ r.accept_log = w.accept_log
      /\ r.accepted_count = w.accepted_count
      /\ r.accepted_count_two_pc_commit = w.accepted_count_two_pc_commit
      /\ r.blank_votes = w.blank_votes
      /\ r.balance_locks = w.balance_locks
      /\ r.accounts = w.accounts /\ r.wal = w.wal
  BY <1>1, ZenonT(60) DEF RecordCommit, NodeState
<1>3. /\ \A x \in Seqnum : x # seq => r.entries_to_commit[x] = w.entries_to_commit[x]
      /\ w.entries_to_commit[seq] = NoCommit => r.entries_to_commit[seq] = c
      /\ w.entries_to_commit[seq] # NoCommit =>
           r.entries_to_commit[seq] = w.entries_to_commit[seq]
  BY <1>1 DEF RecordCommit, NodeState
<1>4. Sound(r, n)
  BY RecordCommitSound
<1>5. \A x \in ms : x \in Message /\ x.type = "Commit" /\ x.to \in Peers(n)
  BY PeersAreNodes DEF Message, CommitMsg
<1> HIDE DEF r, ms
<1>6. ms \in SUBSET Message
  BY <1>5
<1>7. Sound(b, n)
  BY <1>4, <1>5, <1>6, SendSound
<1>8. /\ b.out = r.out \cup ms /\ b.told = r.told
      /\ b.alive = r.alive /\ b.exited = r.exited /\ b.leads = r.leads
      /\ b.counter = r.counter
      /\ b.max_seqnum_in_new_view = r.max_seqnum_in_new_view
      /\ b.cluster_leaders = r.cluster_leaders
      /\ b.pending_or_completed_ts = r.pending_or_completed_ts
      /\ b.prepare_and_aborted_queue = r.prepare_and_aborted_queue
      /\ b.in_flight_transactions = r.in_flight_transactions
      /\ b.in_flight_prepares = r.in_flight_prepares
      /\ b.last_executed_seq = r.last_executed_seq
      /\ b.last_seqnum = r.last_seqnum
      /\ b.digest_to_seqnum = r.digest_to_seqnum
      /\ b.accept_log = r.accept_log
      /\ b.entries_to_commit = r.entries_to_commit
      /\ b.accepted_count = r.accepted_count
      /\ b.accepted_count_two_pc_commit = r.accepted_count_two_pc_commit
      /\ b.blank_votes = r.blank_votes
      /\ b.balance_locks = r.balance_locks
      /\ b.accounts = r.accounts /\ b.wal = r.wal
  BY <1>2 DEF Send, NodeState
<1>9. Broadcast(r, n, CommitMsg(n, seq, c, blank)) = b
  BY DEF Broadcast, ms
<1> HIDE DEF b
<1>10. Notes(w, b, n, seq, c)
  <2>1. /\ w.out \subseteq b.out
        /\ \A m \in b.out : m \in w.out \/ (m.type = "Commit" /\ m.to \in Peers(n))
    BY <1>2, <1>5, <1>8
  <2>. QED
    BY <1>2, <1>3, <1>7, <1>8, <2>1 DEF Notes
<1>. QED
  BY <1>9, <1>10 DEF r

LEMMA PeersFollow ==
  ASSUME NEW n \in Node, Leads(n), NEW q \in Peers(n)
  PROVE  q \in Node /\ ~ Leads(q)
  BY DEF Leads, Peers

\* The vote is in the table of the first phase, and the commit is recorded if
\* that makes a quorum.
LEMMA FirstVoteCounted ==
  ASSUME NEW n \in Node, NEW s \in NodeState, NEW u \in NodeState,
         NEW seq \in Seqnum, NEW q \in Node, Orderly(s, n), NEW ms,
         Rounds(s, n, ms),
         u = [s EXCEPT !.accepted_count = @ \cup {<<seq, 1, q>>}]
  PROVE  /\ \/ s.entries_to_commit[seq] # NoCommit
            \/ Cardinality(Votes(u.accepted_count, seq)) # F + 1
            => Counted(s, u, n, seq, q)
         /\ \A b, c : /\ Notes(u, b, n, seq, c) /\ c.txn = s.accept_log[seq].txn
                      /\ c.status \in FirstPhase /\ c # NoCommit
                      /\ Suits(c.txn, ClusterOf[n], c.status)
                      /\ seq <= s.last_seqnum
                      /\ s.entries_to_commit[seq] = NoCommit
                      => Counted(s, b, n, seq, q)
<1>1. /\ u.alive = s.alive /\ u.exited = s.exited /\ u.leads = s.leads
      /\ u.counter = s.counter
      /\ u.max_seqnum_in_new_view = s.max_seqnum_in_new_view
      /\ u.cluster_leaders = s.cluster_leaders
      /\ u.pending_or_completed_ts = s.pending_or_completed_ts
      /\ u.prepare_and_aborted_queue = s.prepare_and_aborted_queue
      /\ u.in_flight_transactions = s.in_flight_transactions
      /\ u.in_flight_prepares = s.in_flight_prepares
      /\ u.last_executed_seq = s.last_executed_seq
      /\ u.last_seqnum = s.last_seqnum
      /\ u.digest_to_seqnum = s.digest_to_seqnum
      /\ u.accept_log = s.accept_log
      /\ u.entries_to_commit = s.entries_to_commit
      /\ u.accepted_count = s.accepted_count \cup {<<seq, 1, q>>}
      /\ u.accepted_count_two_pc_commit = s.accepted_count_two_pc_commit
      /\ u.blank_votes = s.blank_votes
      /\ u.balance_locks = s.balance_locks
  BY ZenonT(60) DEF NodeState
<1>2. ASSUME \/ s.entries_to_commit[seq] # NoCommit
             \/ Cardinality(Votes(u.accepted_count, seq)) # F + 1
      PROVE  Counted(s, u, n, seq, q)
  <2>1. u.entries_to_commit[seq] = NoCommit => ~ Quorate(u.accepted_count, seq)
    <3>1. ASSUME s.entries_to_commit[seq] = NoCommit
          PROVE  ~ Quorate(u.accepted_count, seq)
      <4>1. ~ Quorate(s.accepted_count, seq)
        BY <3>1 DEF Rounds
      <4>2. s.accepted_count \in Tables
        BY DEF NodeState, Tables
      <4>3. Cardinality(Votes(s.accepted_count \cup {<<seq, 1, q>>}, seq)) # F + 1
        BY <1>1, <1>2, <3>1
      <4>4. ~ Quorate(s.accepted_count \cup {<<seq, 1, q>>}, seq)
        BY <4>1, <4>2, <4>3, NoQuorumYet
      <4>. QED
        BY <1>1, <4>4
    <3>. QED
      BY <1>1, <3>1
  <2>2. SameOwn(s, u)
    BY <1>1 DEF SameOwn
  <2>. QED
    BY <1>1, <2>1, <2>2 DEF Counted
<1>3. ASSUME NEW b, NEW c, Notes(u, b, n, seq, c),
             c.txn = s.accept_log[seq].txn, c.status \in FirstPhase,
             c # NoCommit, Suits(c.txn, ClusterOf[n], c.status),
             seq <= s.last_seqnum, s.entries_to_commit[seq] = NoCommit
      PROVE  Counted(s, b, n, seq, q)
  <2>1. /\ b.alive = u.alive /\ b.exited = u.exited /\ b.leads = u.leads
        /\ b.counter = u.counter
        /\ b.max_seqnum_in_new_view = u.max_seqnum_in_new_view
        /\ b.cluster_leaders = u.cluster_leaders
        /\ b.pending_or_completed_ts = u.pending_or_completed_ts
        /\ b.prepare_and_aborted_queue = u.prepare_and_aborted_queue
        /\ b.in_flight_transactions = u.in_flight_transactions
        /\ b.in_flight_prepares = u.in_flight_prepares
        /\ b.last_executed_seq = u.last_executed_seq
        /\ b.last_seqnum = u.last_seqnum
        /\ b.digest_to_seqnum = u.digest_to_seqnum
        /\ b.accept_log = u.accept_log
        /\ b.accepted_count = u.accepted_count
        /\ b.accepted_count_two_pc_commit = u.accepted_count_two_pc_commit
        /\ b.blank_votes = u.blank_votes
        /\ b.balance_locks = u.balance_locks
        /\ \A x \in Seqnum : x # seq =>
             b.entries_to_commit[x] = u.entries_to_commit[x]
        /\ u.entries_to_commit[seq] = NoCommit => b.entries_to_commit[seq] = c
    BY <1>3 DEF Notes
  <2>2. b.entries_to_commit[seq] = c
    BY <1>1, <1>3, <2>1
  <2>3. Recorded(b, n, seq)
    BY <1>1, <1>3, <2>1, <2>2 DEF Recorded
  <2>4. SameOwn(s, b)
    BY <1>1, <2>1 DEF SameOwn
  <2>5. b.entries_to_commit[seq] # NoCommit
    BY <1>3, <2>2
  <2>6. \A x \in Seqnum : x # seq => b.entries_to_commit[x] = s.entries_to_commit[x]
    BY <1>1, <2>1
  <2>. QED
    BY <1>1, <1>3, <2>1, <2>3, <2>4, <2>5, <2>6 DEF Counted
<1>. QED
  BY <1>2, <1>3

\* The counted vote and what follows from it, for either phase.
LEMMA CommitEntryIs ==
  ASSUME NEW n \in Node, NEW w, NEW seq, NEW status
  PROVE  LET c == [txn |-> w.accept_log[seq].txn, status |-> status]
             blank == status \in SecondPhase /\ seq \in w.blank_votes
             b == Broadcast(RecordCommit(w, seq, c), n,
                            CommitMsg(n, seq, c, blank))
         IN /\ w.last_executed_seq + 1 = seq =>
                 CommitEntry(w, n, seq, status)
                   = SequentiallyExecuteCommittedEntries(b, n)
            /\ w.last_executed_seq + 1 # seq /\ status \notin SecondPhase =>
                 CommitEntry(w, n, seq, status) = b
            /\ w.last_executed_seq + 1 # seq /\ blank =>
                 CommitEntry(w, n, seq, status) = Exited(b)
            /\ /\ w.last_executed_seq + 1 # seq
               /\ status \in SecondPhase /\ ~ blank
               => CommitEntry(w, n, seq, status)
                    = ExecuteRepeatedTwoPCEntry(b, n, seq, c.txn, status)
  BY DEF CommitEntry, CommitMsg

\* What a leader knows of an acknowledgement, and what it does about it: w is
\* its state with the vote.
LEMMA AckFacts ==
  ASSUME TypeInv, ProgressInv, NEW n \in Node, NEW m \in msgs, HandleAccept(n, m)
  PROVE  /\ m \in Message /\ m.type = "Ack" /\ m.to = n /\ m.seq \in Seqnum
         /\ m.from \in Node /\ m.status \in Status
         /\ InRound(node[n], n, m.seq, m.counter, m.status)
         /\ LET s == node[n]
                vote == <<m.seq, 1, m.from>>
                w1 == [s EXCEPT !.accepted_count = @ \cup {vote}]
                w2 == [s EXCEPT !.accepted_count_two_pc_commit = @ \cup {vote}]
            IN /\ m.status \notin SecondPhase =>
                    Finish(n, IF /\ Cardinality(Votes(w1.accepted_count, m.seq))
                                      = F + 1
                                 /\ s.entries_to_commit[m.seq] = NoCommit
                              THEN CommitEntry(w1, n, m.seq, m.status)
                              ELSE w1, {m})
               /\ m.status \in SecondPhase =>
                    Finish(n, IF Cardinality(Votes(w2.accepted_count_two_pc_commit,
                                                   m.seq)) = F + 1
                              THEN CommitEntry(w2, n, m.seq, m.status)
                              ELSE w2, {m})
<1> DEFINE s == node[n]
           vote == <<m.seq, 1, m.from>>
           w1 == [s EXCEPT !.accepted_count = @ \cup {vote}]
           w2 == [s EXCEPT !.accepted_count_two_pc_commit = @ \cup {vote}]
<1>1. m \in Message /\ m.type = "Ack" /\ m.to = n
  BY DEF HandleAccept, TypeInv, TypeOK
<1>2. /\ m.seq \in Seqnum /\ m.from \in Node /\ m.status \in Status
  BY <1>1 DEF Message
<1>3. InRound(s, n, m.seq, m.counter, m.status)
  BY <1>1 DEF ProgressInv, View, Shaped
<1>4. m.counter = 1
  BY <1>3 DEF InRound
<1>5. ~ (m.seq <= s.max_seqnum_in_new_view)
  <2>1. s.max_seqnum_in_new_view = 0
    BY DEF ProgressInv, View, Own
  <2>2. m.seq \in Int /\ m.seq >= 1
    BY <1>2, Numbers
  <2>. QED
    BY <2>1, <2>2
<1>6. m.status \notin SecondPhase =>
        Finish(n, IF /\ Cardinality(Votes(w1.accepted_count, m.seq)) = F + 1
                     /\ s.entries_to_commit[m.seq] = NoCommit
                  THEN CommitEntry(w1, n, m.seq, m.status)
                  ELSE w1, {m})
  <2> HIDE DEF s
  <2>1. ASSUME m.status \notin SecondPhase
        PROVE  Finish(n, IF /\ Cardinality({v \in w1.accepted_count :
                                    v[1] = m.seq /\ v[2] = m.counter}) = F + 1
                            /\ \/ s.entries_to_commit[m.seq] = NoCommit
                               \/ m.seq <= s.max_seqnum_in_new_view
                         THEN CommitEntry(w1, n, m.seq, m.status)
                         ELSE w1, {m})
    BY <1>4, <2>1 DEF HandleAccept, s
  <2>2. {v \in w1.accepted_count : v[1] = m.seq /\ v[2] = m.counter}
          = Votes(w1.accepted_count, m.seq)
    BY <1>4 DEF Votes
  <2> HIDE DEF w1
  <2>. QED
    BY <1>5, <2>1, <2>2
<1>7. m.status \in SecondPhase =>
        Finish(n, IF Cardinality(Votes(w2.accepted_count_two_pc_commit,
                                       m.seq)) = F + 1
                  THEN CommitEntry(w2, n, m.seq, m.status)
                  ELSE w2, {m})
  <2> HIDE DEF s
  <2>1. ASSUME m.status \in SecondPhase
        PROVE  Finish(n, IF Cardinality({v \in w2.accepted_count_two_pc_commit :
                                   v[1] = m.seq /\ v[2] = m.counter}) = F + 1
                         THEN CommitEntry(w2, n, m.seq, m.status)
                         ELSE w2, {m})
    BY <1>4, <2>1 DEF HandleAccept, s
  <2>2. {v \in w2.accepted_count_two_pc_commit : v[1] = m.seq /\ v[2] = m.counter}
          = Votes(w2.accepted_count_two_pc_commit, m.seq)
    BY <1>4 DEF Votes
  <2> HIDE DEF w2
  <2>. QED
    BY <2>1, <2>2
<1>. QED
  BY <1>1, <1>2, <1>3, <1>6, <1>7

\* A leader in state s has noted a vote of the first phase: the books are the
\* same, and it has said nothing but that an entry is committed.
Counts(s, b, n) ==
  /\ b.accounts = s.accounts /\ b.wal = s.wal /\ b.balance_locks = s.balance_locks
  /\ b.last_executed_seq = s.last_executed_seq /\ b.last_seqnum = s.last_seqnum
  /\ b.digest_to_seqnum = s.digest_to_seqnum /\ b.accept_log = s.accept_log
  /\ b.accepted_count_two_pc_commit = s.accepted_count_two_pc_commit
  /\ \A y \in b.out : y.type = "Commit" /\ y.to \in Peers(n)

LEMMA FirstVoteRuns ==
  ASSUME Quorums, TypeInv, ProgressInv, NEW n \in Node, NEW m \in msgs,
         HandleAccept(n, m), m.status \notin SecondPhase
  PROVE  LET s == node[n]
             w == [s EXCEPT !.accepted_count = @ \cup {<<m.seq, 1, m.from>>}]
             c == [txn |-> w.accept_log[m.seq].txn, status |-> m.status]
         IN \E b : /\ b \in {w, Broadcast(RecordCommit(w, m.seq, c), n,
                                         CommitMsg(n, m.seq, c, FALSE))}
                  /\ Running(node, msgs \ {m}, replies, n, b) /\ Counts(s, b, n)
                  /\ \/ Finish(n, b, {m}) /\ CaughtUp(b)
                     \/ Finish(n, SequentiallyExecuteCommittedEntries(b, n), {m})
<1> DEFINE s == node[n]
           seq == m.seq
           q == m.from
           w == [s EXCEPT !.accepted_count = @ \cup {<<seq, 1, q>>}]
           quorum == Cardinality(Votes(w.accepted_count, seq)) = F + 1
           open == s.entries_to_commit[seq] = NoCommit
           c == [txn |-> w.accept_log[seq].txn, status |-> m.status]
           b == Broadcast(RecordCommit(w, seq, c), n, CommitMsg(n, seq, c, FALSE))
           ms1 == msgs \ {m}
<1>1. /\ s \in NodeState /\ s.out = {} /\ s.told = {} /\ Sound(s, n) /\ Own(s, n)
      /\ node \in [Node -> NodeState] /\ msgs \subseteq Message
      /\ View(node, msgs, replies)
  BY NodeFacts DEF TypeInv, TypeOK, ProgressInv, View
<1>2. /\ m \in Message /\ m.type = "Ack" /\ m.to = n /\ seq \in Seqnum
      /\ q \in Node /\ m.status \in Status
      /\ InRound(s, n, seq, m.counter, m.status)
  BY AckFacts
<1>3. /\ Leads(n) /\ seq <= s.last_seqnum
      /\ Suits(s.accept_log[seq].txn, ClusterOf[n], m.status)
  BY <1>2 DEF InRound
<1>4. m.status \in FirstPhase
  BY <1>2 DEF Status, FirstPhase
<1>5. Finish(n, IF quorum /\ open THEN CommitEntry(w, n, seq, m.status)
                ELSE w, {m})
  BY AckFacts
<1>6. /\ Orderly(s, n) /\ Rounds(s, n, msgs) /\ CaughtUp(s)
  BY <1>1, <1>3 DEF View, ProgressInv
<1>7. /\ w \in NodeState /\ w.out = {} /\ w.told = {}
      /\ w.accept_log = s.accept_log
      /\ w.digest_to_seqnum = s.digest_to_seqnum
      /\ w.in_flight_prepares = s.in_flight_prepares
      /\ w.last_executed_seq = s.last_executed_seq
      /\ w.entries_to_commit = s.entries_to_commit
      /\ w.accounts = s.accounts /\ w.wal = s.wal
      /\ w.balance_locks = s.balance_locks /\ w.last_seqnum = s.last_seqnum
      /\ w.accepted_count_two_pc_commit = s.accepted_count_two_pc_commit
  <2> DEFINE votes == s.accepted_count \cup {<<seq, 1, q>>}
  <2>1. votes \in SUBSET (Seqnum \X Nat \X Node)
    <3> HIDE DEF seq, q, s
    <3>1. <<seq, 1, q>> \in Seqnum \X Nat \X Node
      BY <1>2
    <3>2. s.accepted_count \in SUBSET (Seqnum \X Nat \X Node)
      BY <1>1 DEF NodeState
    <3>. QED
      BY <3>1, <3>2
  <2>2. w = [s EXCEPT !.accepted_count = votes]
    BY <1>1 DEF NodeState
  <2> HIDE DEF votes, w
  <2>. QED
    BY <1>1, <2>1, <2>2, ZenonT(60) DEF NodeState
<1>8. /\ \/ s.entries_to_commit[seq] # NoCommit
         \/ Cardinality(Votes(w.accepted_count, seq)) # F + 1
         => Counted(s, w, n, seq, q)
      /\ \A x, y : /\ Notes(w, x, n, seq, y) /\ y.txn = s.accept_log[seq].txn
                   /\ y.status \in FirstPhase /\ y # NoCommit
                   /\ Suits(y.txn, ClusterOf[n], y.status)
                   /\ seq <= s.last_seqnum
                   /\ s.entries_to_commit[seq] = NoCommit
                   => Counted(s, x, n, seq, q)
  <2>1. w = [s EXCEPT !.accepted_count = @ \cup {<<seq, 1, q>>}]
    OBVIOUS
  <2> HIDE DEF w, s, seq, q
  <2>. QED
    BY <1>1, <1>2, <1>6, <1>7, <2>1, FirstVoteCounted
<1>9. \A x \in ms1 : x \in Message
  BY <1>1
<1>10. ms1 \in SUBSET Message
  BY <1>9
<1>11. ASSUME NEW x, x \in NodeState, Counted(s, x, n, seq, q), x.told = {},
              \A y \in x.out : y.type = "Commit" /\ y.to \in Peers(n)
       PROVE  View([node EXCEPT ![n] = x], ms1 \cup x.out, replies \cup x.told)
  <2> DEFINE ms == ms1 \cup x.out
  <2>1. ms \in SUBSET Message
    <3>1. x.out \in SUBSET Message
      BY <1>11 DEF NodeState
    <3>. QED
      BY <1>10, <3>1
  <2>2. Answered(msgs, ms, n, q, seq, FirstPhase)
    BY <1>2, <1>4 DEF Answered
  <2>3. \A y \in ms \ msgs : y.type = "Commit" /\ ~ Leads(y.to)
    BY <1>3, <1>11, PeersFollow
  <2> HIDE DEF ms, s, seq, q
  <2>4. View([node EXCEPT ![n] = x], ms, replies)
    <3>1. Counted(node[n], x, n, seq, q) /\ seq <= node[n].last_seqnum
      BY <1>3, <1>11 DEF s
    <3>. QED
      BY <1>1, <1>2, <1>3, <1>11, <2>1, <2>2, <2>3, <3>1, CountedView
  <2>. QED
    BY <1>11, <2>4 DEF ms
<1> DEFINE Good(x) ==
             /\ Running(node, ms1, replies, n, x) /\ Counts(s, x, n)
             /\ \/ Finish(n, x, {m}) /\ CaughtUp(x)
                \/ Finish(n, SequentiallyExecuteCommittedEntries(x, n), {m})
<1>12. ASSUME ~ (quorum /\ open) PROVE Good(w)
  <2>1. Counted(s, w, n, seq, q) /\ Finish(n, w, {m})
    BY <1>5, <1>8, <1>12
  <2>2. View([node EXCEPT ![n] = w], ms1 \cup w.out, replies \cup w.told)
    BY <1>7, <1>11, <2>1
  <2>3. CaughtUp(w)
    BY <1>6, <1>7 DEF CaughtUp
  <2>4. Sound(w, n)
    <3> HIDE DEF w, s
    <3>. QED
      BY <1>1, <1>7, SameAnchors DEF Kept
  <2> HIDE DEF w, ms1
  <2>5. Counts(s, w, n)
    BY <1>7 DEF Counts
  <2>. QED
    BY <2>1, <2>2, <2>3, <2>4, <2>5 DEF Running
<1>13. ASSUME quorum, open PROVE Good(b)
  <2>1. Finish(n, CommitEntry(w, n, seq, m.status), {m})
    BY <1>5, <1>13
  <2>2. s.accept_log[seq] \in Entry
    BY <1>2, <1>3, <1>6 DEF Orderly, Filed
  <2>3. /\ c \in CommitRecord /\ c.txn = s.accept_log[seq].txn
        /\ c.status = m.status
    BY <1>2, <1>7, <2>2 DEF CommitRecord, Entry
  <2>4. c # NoCommit
    BY <2>3, ConstantsAssumption DEF CommitRecord, NoCommit
  <2>5. Sound(w, n)
    <3> HIDE DEF w, s
    <3>. QED
      BY <1>1, <1>7, SameAnchors DEF Kept
  <2>6. /\ w.last_executed_seq + 1 = seq =>
             CommitEntry(w, n, seq, m.status)
               = SequentiallyExecuteCommittedEntries(b, n)
        /\ w.last_executed_seq + 1 # seq => CommitEntry(w, n, seq, m.status) = b
    <3> HIDE DEF w, seq
    <3>1. (m.status \in SecondPhase /\ seq \in w.blank_votes) = FALSE
      OBVIOUS
    <3>. QED
      BY <3>1, CommitEntryIs, ZenonT(60)
  <2> HIDE DEF w, c
  <2>7. Notes(w, b, n, seq, c)
    BY <1>2, <2>3, <2>5, CommitNoted
  <2> HIDE DEF b
  <2>8. /\ Sound(b, n) /\ b \in NodeState /\ b.told = {}
        /\ b.last_executed_seq = s.last_executed_seq
        /\ \A x \in Seqnum : x # seq =>
             b.entries_to_commit[x] = s.entries_to_commit[x]
        /\ \A y \in b.out : y.type = "Commit" /\ y.to \in Peers(n)
    BY <1>7, <2>7 DEF Notes, Sound
  <2>9. Counted(s, b, n, seq, q)
    BY <1>3, <1>4, <1>8, <1>13, <2>3, <2>4, <2>7
  <2>10. View([node EXCEPT ![n] = b], ms1 \cup b.out, replies \cup b.told)
    BY <1>11, <2>8, <2>9
  <2>11. Running(node, ms1, replies, n, b)
    BY <2>8, <2>10 DEF Running
  <2>12. Counts(s, b, n)
    BY <1>7, <2>7, <2>8 DEF Notes, Counts
  <2>13. w.last_executed_seq + 1 # seq => CaughtUp(b)
    BY <1>6, <1>7, <2>8 DEF CaughtUp
  <2> HIDE DEF ms1
  <2>. QED
    BY <2>1, <2>6, <2>11, <2>12, <2>13
<1>14. \E x \in {w, b} : Good(x)
  <2> HIDE DEF w, b, Good
  <2>. QED
    BY <1>12, <1>13
<1>. QED
  BY <1>14

LEMMA FirstVoteProgress ==
  ASSUME Quorums, TypeInv, ProgressInv, NEW n \in Node, NEW m \in msgs,
         HandleAccept(n, m), m.status \notin SecondPhase
  PROVE  ProgressInv'
<1> DEFINE ms1 == msgs \ {m}
<1>1. PICK b : /\ Running(node, ms1, replies, n, b)
               /\ \/ Finish(n, b, {m}) /\ CaughtUp(b)
                  \/ Finish(n, SequentiallyExecuteCommittedEntries(b, n), {m})
  BY FirstVoteRuns
<1>2. node \in [Node -> NodeState] /\ ms1 \in SUBSET Message /\ Leads(n)
  <2>1. InRound(node[n], n, m.seq, m.counter, m.status)
    BY AckFacts
  <2>. QED
    BY <2>1 DEF TypeInv, TypeOK, InRound
<1>3. ASSUME NEW u, Running(node, ms1, replies, n, u), CaughtUp(u), Finish(n, u, {m})
      PROVE  ProgressInv'
  <2>1. u \in NodeState
    BY <1>3 DEF Running, Sound
  <2>2. View([node EXCEPT ![n] = u], (msgs \ {m}) \cup u.out, replies \cup u.told)
    BY <1>3 DEF Running
  <2>. QED
    BY <1>3, <2>1, <2>2, FinishProgress
<1> HIDE DEF ms1
<1>4. LET u == SequentiallyExecuteCommittedEntries(b, n)
      IN Running(node, ms1, replies, n, u) /\ CaughtUp(u)
  BY <1>1, <1>2, LoopView
<1>. QED
  BY <1>1, <1>3, <1>4

\* Entry seq of leader n, in its second phase, is that of transfer t.
SecondOf(s, n, t, seq) ==
  /\ ~ IntraShard(t) /\ n \in {Coord(t), Part(t)}
  /\ s.digest_to_seqnum[t] = seq /\ Ran(s, t) /\ Begun(s, n, t)
  /\ <<seq, 1, n>> \in s.accepted_count_two_pc_commit
  /\ \A y \in Txn : y # t => s.digest_to_seqnum[y] # seq

\* The leader has counted the vote of q in that phase, and has carried out the
\* outcome if that makes a quorum.
Confirms(s, u, n, t, seq, q) ==
  /\ u.alive => s.alive
  /\ s.exited => u.exited
  /\ SameOwn(s, u)
  /\ u.in_flight_transactions = s.in_flight_transactions
  /\ u.in_flight_prepares = s.in_flight_prepares
  /\ u.last_executed_seq = s.last_executed_seq
  /\ u.last_seqnum = s.last_seqnum
  /\ u.digest_to_seqnum = s.digest_to_seqnum
  /\ u.accepted_count = s.accepted_count
  /\ u.blank_votes = s.blank_votes
  /\ u.entries_to_commit = s.entries_to_commit
  /\ u.accepted_count_two_pc_commit =
       s.accepted_count_two_pc_commit \cup {<<seq, 1, q>>}
  /\ \A x \in Seqnum :
       /\ u.accept_log[x].txn = s.accept_log[x].txn
       /\ u.accept_log[x].counter = s.accept_log[x].counter
       /\ s.accept_log[x] \in Entry => u.accept_log[x] \in Entry
       /\ x # seq => u.accept_log[x].p2 = s.accept_log[x].p2
  /\ u.balance_locks \subseteq s.balance_locks
  /\ u.alive /\ Ended(u, t) =>
       \/ Ended(s, t)
       \/ (IF n = Coord(t) THEN From[t] ELSE To[t]) \notin u.balance_locks

LEMMA ConfirmsKeeps ==
  ASSUME NEW n \in Node, NEW s \in NodeState, NEW u \in NodeState,
         NEW t \in Txn, NEW seq \in Seqnum, NEW q \in Node,
         Own(s, n), Orderly(s, n), LocksHeld(s, n), NEW ms, Rounds(s, n, ms),
         SecondOf(s, n, t, seq), Confirms(s, u, n, t, seq, q),
         NEW ms2, Answered(ms, ms2, n, q, seq, SecondPhase)
  PROVE  /\ Own(u, n) /\ Orderly(u, n) /\ LocksHeld(u, n) /\ Rounds(u, n, ms2)
         /\ Later(s, u) /\ Ran(u, t) /\ Begun(u, n, t)
         /\ \A y \in Txn : y # t => Undisturbed(s, u, n, y)
<1>1. /\ u.alive => s.alive
      /\ s.exited => u.exited
      /\ SameOwn(s, u)
      /\ u.in_flight_transactions = s.in_flight_transactions
      /\ u.in_flight_prepares = s.in_flight_prepares
      /\ u.last_executed_seq = s.last_executed_seq
      /\ u.last_seqnum = s.last_seqnum
      /\ u.digest_to_seqnum = s.digest_to_seqnum
      /\ u.pending_or_completed_ts = s.pending_or_completed_ts
      /\ u.prepare_and_aborted_queue = s.prepare_and_aborted_queue
      /\ u.accepted_count = s.accepted_count
      /\ u.blank_votes = s.blank_votes
      /\ u.entries_to_commit = s.entries_to_commit
      /\ u.accepted_count_two_pc_commit =
           s.accepted_count_two_pc_commit \cup {<<seq, 1, q>>}
      /\ u.balance_locks \subseteq s.balance_locks
  BY DEF Confirms, SameOwn
<1>2. \A x \in Seqnum :
       /\ u.accept_log[x].txn = s.accept_log[x].txn
       /\ u.accept_log[x].counter = s.accept_log[x].counter
       /\ s.accept_log[x] \in Entry => u.accept_log[x] \in Entry
       /\ x # seq => u.accept_log[x].p2 = s.accept_log[x].p2
  BY DEF Confirms
<1>3. /\ ~ IntraShard(t)
      /\ s.digest_to_seqnum[t] = seq /\ Ran(s, t) /\ Begun(s, n, t)
      /\ <<seq, 1, n>> \in s.accepted_count_two_pc_commit
      /\ \A y \in Txn : y # t => s.digest_to_seqnum[y] # seq
  BY DEF SecondOf
<1>4. \A x : x # seq => /\ Votes(u.accepted_count_two_pc_commit, x)
                             = Votes(s.accepted_count_two_pc_commit, x)
                        /\ <<x, 1, n>> \in u.accepted_count_two_pc_commit
                             <=> <<x, 1, n>> \in s.accepted_count_two_pc_commit
  BY <1>1 DEF Votes
<1>5. /\ Ran(u, t) /\ Begun(u, n, t)
      /\ \A y \in Txn : Ran(u, y) <=> Ran(s, y)
  BY <1>1, <1>3 DEF Ran, Begun
<1>6. ASSUME NEW y \in Txn, y # t
      PROVE  (Ended(u, y) <=> Ended(s, y)) /\ (Begun(u, n, y) <=> Begun(s, n, y))
  <2>1. u.digest_to_seqnum[y] = s.digest_to_seqnum[y] /\ s.digest_to_seqnum[y] # seq
    BY <1>1, <1>3, <1>6
  <2>. QED
    BY <1>4, <2>1 DEF Ended, Begun, Quorate
<1>7. \A y \in Txn : y # t => Undisturbed(s, u, n, y)
  BY <1>1, <1>5, <1>6 DEF Undisturbed
<1>8. Own(u, n)
  BY <1>1, SameOwnOwn
<1>9. Orderly(u, n) /\ Later(s, u)
  <2>1. SameEntries(s, u)
    <3>1. s.last_executed_seq <= s.last_executed_seq
      BY Numbers
    <3>2. seq <= s.last_executed_seq
      BY <1>3 DEF Ran
    <3>3. \A x \in Seqnum : x > u.last_executed_seq => x # seq
      BY <1>1, <3>2, Numbers
    <3>. QED
      BY <1>1, <1>2, <3>1, <3>3 DEF SameEntries
  <2>2. u.last_executed_seq <= u.last_seqnum
    BY <1>1 DEF Orderly
  <2>3. ASSUME NEW x \in Seqnum
        PROVE  /\ x <= u.last_executed_seq => u.entries_to_commit[x] # NoCommit
               /\ \/ u.entries_to_commit[x] = s.entries_to_commit[x]
                  \/ Recorded(u, n, x)
               /\ <<x, 1, n>> \in u.accepted_count_two_pc_commit =>
                    \/ <<x, 1, n>> \in s.accepted_count_two_pc_commit
                    \/ x <= u.last_executed_seq
    <3>1. x <= s.last_executed_seq => s.entries_to_commit[x] # NoCommit
      BY DEF Orderly, Filed
    <3>. QED
      BY <1>1, <1>3, <1>4, <3>1
  <2>. QED
    BY <2>1, <2>2, <2>3, SameEntriesOrderly
<1>10. Rounds(u, n, ms2)
  <2>1. ASSUME NEW x \in Seqnum
        PROVE  /\ x <= u.last_seqnum =>
                    Polled(u.accepted_count, ms2, n, x, FirstPhase)
               /\ x > u.last_seqnum => Votes(u.accepted_count, x) = {}
               /\ u.entries_to_commit[x] = NoCommit => ~ Quorate(u.accepted_count, x)
               /\ <<x, 1, n>> \in u.accepted_count_two_pc_commit =>
                    Polled(u.accepted_count_two_pc_commit, ms2, n, x, SecondPhase)
               /\ <<x, 1, n>> \notin u.accepted_count_two_pc_commit =>
                    Votes(u.accepted_count_two_pc_commit, x) = {}
    <3>1. /\ x <= s.last_seqnum =>
               Polled(s.accepted_count, ms, n, x, FirstPhase)
          /\ x > s.last_seqnum => Votes(s.accepted_count, x) = {}
          /\ s.entries_to_commit[x] = NoCommit => ~ Quorate(s.accepted_count, x)
          /\ <<x, 1, n>> \in s.accepted_count_two_pc_commit =>
               Polled(s.accepted_count_two_pc_commit, ms, n, x, SecondPhase)
          /\ <<x, 1, n>> \notin s.accepted_count_two_pc_commit =>
               Votes(s.accepted_count_two_pc_commit, x) = {}
      BY DEF Rounds
    <3>2. Polled(s.accepted_count, ms, n, x, FirstPhase) =>
            Polled(u.accepted_count, ms2, n, x, FirstPhase)
      <4>1. Apart(SecondPhase, FirstPhase)
        BY DEF Apart, FirstPhase, SecondPhase
      <4>2. s.accepted_count \subseteq u.accepted_count
        BY <1>1
      <4>. QED
        BY <4>1, <4>2, VotePolled
    <3>3. Polled(s.accepted_count_two_pc_commit, ms, n, x, SecondPhase) =>
            Polled(u.accepted_count_two_pc_commit, ms2, n, x, SecondPhase)
      <4>1. /\ s.accepted_count_two_pc_commit \subseteq u.accepted_count_two_pc_commit
            /\ <<seq, 1, q>> \in u.accepted_count_two_pc_commit
        BY <1>1
      <4>. QED
        BY <4>1, VotePolled
    <3>4. /\ <<x, 1, n>> \in u.accepted_count_two_pc_commit <=>
               <<x, 1, n>> \in s.accepted_count_two_pc_commit
          /\ <<x, 1, n>> \notin u.accepted_count_two_pc_commit => x # seq
      BY <1>1, <1>3, <1>4
    <3>5. <<x, 1, n>> \notin u.accepted_count_two_pc_commit =>
            Votes(u.accepted_count_two_pc_commit, x) = {}
      BY <1>4, <3>1, <3>4
    <3>. QED
      BY <1>1, <3>1, <3>2, <3>3, <3>4, <3>5
  <2>. QED
    BY <2>1 DEF Rounds
<1>11. LocksHeld(u, n)
  <2>1. ASSUME u.alive, NEW a \in u.balance_locks
        PROVE  \E y \in Txn : Holds(u, n, y, a)
    <3>1. PICK y \in Txn : Holds(s, n, y, a)
      BY <1>1, <2>1 DEF LocksHeld
    <3>2. CASE y # t
      BY <1>1, <1>5, <1>6, <3>1, <3>2 DEF Holds
    <3>3. CASE y = t
      <4>1. /\ s.digest_to_seqnum[t] # 0 /\ ~ Ended(s, t)
            /\ a = IF n = Coord(t) THEN From[t] ELSE To[t]
        BY <1>3, <3>1, <3>3 DEF Holds
      <4>2. ~ Ended(u, t)
        BY <2>1, <4>1 DEF Confirms
      <4>. QED
        BY <1>1, <1>3, <3>3, <4>1, <4>2 DEF Holds
    <3>. QED
      BY <3>2, <3>3
  <2>. QED
    BY <2>1 DEF LocksHeld
<1>. QED
  BY <1>5, <1>7, <1>8, <1>9, <1>10, <1>11

\* What leader n takes in and sends when it counts that vote.
EndMail(ms, ms2, n, t, seq, q) ==
  /\ Answered(ms, ms2, n, q, seq, SecondPhase)
  /\ \A m \in ms2 \ ms : \/ m.type = "Commit" /\ ~ Leads(m.to)
                         \/ n = Part(t) /\ Brings(m, Coord(t), t, Confirmation)
\* What it owes to the client or the coordinator if the phase ended with it.
EndSaid(s, u, ms2, rep2, n, t) ==
  Ended(u, t) => \/ Ended(s, t)
                 \/ n = Coord(t) /\ Replied(rep2, t)
                 \/ n = Part(t) /\ (u.exited \/ ConfirmationSent(ms2, t))

LEMMA ConfirmsView ==
  ASSUME NEW nd, nd \in [Node -> NodeState], NEW ms, NEW ms2 \in SUBSET Message,
         NEW rep, NEW rep2, rep \subseteq rep2, View(nd, ms, rep),
         NEW n \in Node, Leads(n), NEW u \in NodeState, NEW t \in Txn,
         NEW seq \in Seqnum, NEW q \in Node,
         SecondOf(nd[n], n, t, seq), Confirms(nd[n], u, n, t, seq, q),
         EndMail(ms, ms2, n, t, seq, q), EndSaid(nd[n], u, ms2, rep2, n, t)
  PROVE  View([nd EXCEPT ![n] = u], ms2, rep2)
<1> DEFINE s == nd[n]
           nd2 == [nd EXCEPT ![n] = u]
<1>1. /\ s \in NodeState /\ Own(s, n) /\ Orderly(s, n) /\ Rounds(s, n, ms)
      /\ LocksHeld(s, n)
  BY DEF View
<1>2. /\ ~ IntraShard(t) /\ n \in {Coord(t), Part(t)} /\ Coord(t) # Part(t)
      /\ Ran(s, t) /\ Begun(s, n, t)
  BY LeadersDiffer DEF SecondOf
<1>3. /\ \A m \in ms \ ms2 : m.type = "Ack"
      /\ Answered(ms, ms2, n, q, seq, SecondPhase)
      /\ \A m \in ms2 \ ms : \/ m.type = "Commit" /\ ~ Leads(m.to)
                             \/ /\ n = Part(t) /\ m.type = "TwoPC"
                                /\ m.to = Coord(t) /\ m.txn = t
                                /\ m.what \in Confirmation
  BY DEF EndMail, Answered, Brings
<1>4. CrossStage(t, nd[Coord(t)], nd[Part(t)], ms, rep)
  BY <1>2 DEF View, Stage
<1>5. /\ SecondOf(s, n, t, seq) /\ Confirms(s, u, n, t, seq, q)
      /\ EndSaid(s, u, ms2, rep2, n, t)
  OBVIOUS
<1> HIDE DEF s
<1>6. /\ Own(u, n) /\ Orderly(u, n) /\ LocksHeld(u, n) /\ Rounds(u, n, ms2)
      /\ Later(s, u) /\ Ran(u, t) /\ Begun(u, n, t)
      /\ \A y \in Txn : y # t => Undisturbed(s, u, n, y)
  BY <1>1, <1>3, <1>5, ConfirmsKeeps
<1>7. \A p \in Node \ {n} : StillChasing(ms, ms2, p)
  BY <1>3, OthersChase
<1>8. \A y \in Txn : y # t => SameMail(ms, ms2, y)
  BY <1>3 DEF SameMail
<1>9. \A m \in ms2 \ ms : Shaped(m, nd2)
  <2>1. \A what \in Confirmation : what \notin Vote
    BY DEF Confirmation, Vote
  <2>. QED
    BY <1>2, <1>3, <2>1 DEF Shaped
<1>10. /\ u.pending_or_completed_ts = s.pending_or_completed_ts
       /\ u.prepare_and_aborted_queue = s.prepare_and_aborted_queue
       /\ u.in_flight_transactions = s.in_flight_transactions
       /\ u.in_flight_prepares = s.in_flight_prepares
       /\ s.exited => u.exited
  BY <1>5 DEF Confirms, SameOwn
<1>11. /\ PrepareSent(ms2, t) <=> PrepareSent(ms, t)
       /\ VoteSent(ms2, t) <=> VoteSent(ms, t)
       /\ DecisionSent(ms2, t) <=> DecisionSent(ms, t)
       /\ OneVote(ms, t) => OneVote(ms2, t)
       /\ ConfirmationSent(ms, t) => ConfirmationSent(ms2, t)
       /\ n = Coord(t) => (ConfirmationSent(ms2, t) <=> ConfirmationSent(ms, t))
  <2>1. \A what \in Confirmation : what \notin Vote
    BY DEF Confirmation, Vote
  <2>2. \A m, p : Brings(m, p, t, Vote) => (m \in ms2 <=> m \in ms)
    BY <1>3, <2>1 DEF Brings
  <2>3. \A m : Brings(m, Coord(t), t, Confirmation) =>
                 /\ m \in ms => m \in ms2
                 /\ n = Coord(t) => (m \in ms2 <=> m \in ms)
    BY <1>2, <1>3 DEF Brings
  <2>4. PrepareSent(ms2, t) <=> PrepareSent(ms, t)
    BY <1>3 DEF PrepareSent
  <2>5. /\ VoteSent(ms2, t) <=> VoteSent(ms, t)
        /\ DecisionSent(ms2, t) <=> DecisionSent(ms, t)
        /\ OneVote(ms, t) => OneVote(ms2, t)
    BY <2>2 DEF VoteSent, DecisionSent, OneVote
  <2>. QED
    BY <2>3, <2>4, <2>5 DEF ConfirmationSent
<1>12. Stage(t, nd2, ms2, rep2)
  <2>1. CASE n = Coord(t)
    <3>1. CrossStage(t, s, nd[Part(t)], ms, rep)
      BY <1>4, <2>1 DEF s
    <3>2. Replied(rep2, t) \/ ~ Ended(u, t)
      <4>1. Ended(s, t) => Replied(rep, t)
        BY <3>1 DEF CrossStage
      <4>2. Replied(rep, t) => Replied(rep2, t)
        BY DEF Replied
      <4>. QED
        BY <1>2, <1>5, <2>1, <4>1, <4>2 DEF EndSaid
    <3>3. /\ Begun(u, Coord(t), t) <=> Begun(s, Coord(t), t)
          /\ Ran(u, t) <=> Ran(s, t)
      BY <1>2, <1>6, <2>1
    <3>4. SameKinds(ms, ms2, t)
      BY <1>11, <2>1 DEF SameKinds
    <3>5. CrossStage(t, u, nd[Part(t)], ms2, rep2)
      BY <1>10, <1>11, <3>1, <3>2, <3>3, <3>4, CoordEndsStage
    <3>. QED
      BY <1>2, <2>1, <3>5, StageAt
  <2>2. CASE n = Part(t)
    <3>1. CrossStage(t, nd[Coord(t)], s, ms, rep)
      BY <1>4, <2>2 DEF s
    <3>2. Ended(u, t) => \/ ConfirmationSent(ms2, t) \/ u.exited
                         \/ Ended(s, t) /\ (s.exited => u.exited)
                            /\ (ConfirmationSent(ms, t) => ConfirmationSent(ms2, t))
      BY <1>2, <1>5, <1>10, <1>11, <2>2 DEF EndSaid
    <3>3. /\ Begun(u, Part(t), t) <=> Begun(s, Part(t), t)
          /\ Ran(u, t) <=> Ran(s, t)
      BY <1>2, <1>6, <2>2
    <3>4. CrossStage(t, nd[Coord(t)], u, ms2, rep)
      BY <1>10, <1>11, <3>1, <3>2, <3>3, PartEndsStage
    <3>5. CrossStage(t, nd[Coord(t)], u, ms2, rep2)
      <4>1. Replied(rep, t) => Replied(rep2, t)
        BY DEF Replied
      <4>. QED
        BY <3>4, <4>1 DEF CrossStage
    <3>. QED
      BY <1>2, <2>2, <3>5, StageAt
  <2>. QED
    BY <1>2, <2>1, <2>2
<1>. QED
  BY <1>6, <1>7, <1>8, <1>9, <1>12, LeaderView DEF s

\* The outcome p2 of transfer t, entry seq of the log, is carried out.
Resolves(b, u, t, seq, p2) ==
  /\ u.alive = b.alive /\ u.exited = b.exited /\ u.leads = b.leads
  /\ u.counter = b.counter
  /\ u.max_seqnum_in_new_view = b.max_seqnum_in_new_view
  /\ u.cluster_leaders = b.cluster_leaders
  /\ u.pending_or_completed_ts = b.pending_or_completed_ts
  /\ u.prepare_and_aborted_queue = b.prepare_and_aborted_queue
  /\ u.in_flight_transactions = b.in_flight_transactions
  /\ u.in_flight_prepares = b.in_flight_prepares
  /\ u.last_executed_seq = b.last_executed_seq
  /\ u.last_seqnum = b.last_seqnum
  /\ u.digest_to_seqnum = b.digest_to_seqnum
  /\ u.entries_to_commit = b.entries_to_commit
  /\ u.accepted_count = b.accepted_count
  /\ u.accepted_count_two_pc_commit = b.accepted_count_two_pc_commit
  /\ u.blank_votes = b.blank_votes
  /\ u.balance_locks = b.balance_locks \ {ResolvedAccount(t, p2)}
  /\ \A x \in Seqnum :
       /\ u.accept_log[x].txn = b.accept_log[x].txn
       /\ u.accept_log[x].counter = b.accept_log[x].counter
       /\ u.accept_log[x].status = b.accept_log[x].status
       /\ b.accept_log[x] \in Entry => u.accept_log[x] \in Entry
       /\ x # seq => u.accept_log[x].p2 = b.accept_log[x].p2
  /\ u.wal = [b.wal EXCEPT ![seq] = NoWal]
  /\ u.accounts = [b.accounts EXCEPT ![ResolvedAccount(t, p2)] =
                     IF UndoneBy(b.wal[seq], p2) THEN b.wal[seq].before_value
                     ELSE @]
  /\ \E o \in u.resolved : o.txn = t /\ o.p2 = p2

\* Its leader tells the client or the coordinator.
Announces(b, u, t, p2) ==
  /\ b.told \subseteq u.told
  /\ p2 \in {"C_COORD", "A_COORD"} => u.out = b.out /\ Replied(u.told, t)
  /\ p2 \in {"C", "A_PART_COMMIT"} =>
       /\ \A x \in u.out : x \in b.out \/ Brings(x, Coord(t), t, Confirmation)
       /\ ConfirmationSent(u.out, t)
       /\ b.out \subseteq u.out

LEMMA ResolveLeads ==
  ASSUME NEW n \in Node, NEW s, Sound(s, n), s.leads,
         s.cluster_leaders = FirstLeader, NEW seq \in Seqnum,
         s.accept_log[seq] \in Entry, NEW t \in Txn, NEW p2 \in SecondPhase
  PROVE  LET u == ExecuteRepeatedTwoPCEntry(s, n, seq, t, p2)
         IN u \in NodeState /\ Resolves(s, u, t, seq, p2) /\ Announces(s, u, t, p2)
<1> DEFINE w == s.wal[seq]
           a == ResolvedAccount(t, p2)
           log == [s.accept_log EXCEPT ![seq].p2 =
                     IF s.accept_log[seq] # NoEntry /\ @ = "" THEN p2 ELSE @]
           bal == [s.accounts EXCEPT ![a] =
                     IF UndoneBy(w, p2) THEN w.before_value ELSE @]
           locks == Unlocked(s.balance_locks, a)
           wal == [s.wal EXCEPT ![seq] = NoWal]
           r == s.resolved \cup {[node |-> n, txn |-> t, p2 |-> p2]}
           done == [s EXCEPT !.accept_log = log, !.accounts = bal,
                             !.balance_locks = locks, !.wal = wal,
                             !.resolved = r]
           u == ExecuteRepeatedTwoPCEntry(s, n, seq, t, p2)
           reply == [txn |-> t, success |-> p2 = "C_COORD"]
           x == TwoPCMsg(IF p2 = "C" THEN "COMMITTED" ELSE p2,
                         s.cluster_leaders[CoordCluster(t)], t)
<1>1. s \in NodeState
  BY DEF Sound
<1>2. \A y \in Seqnum :
        /\ log[y].txn = s.accept_log[y].txn
        /\ log[y].counter = s.accept_log[y].counter
        /\ log[y].status = s.accept_log[y].status
        /\ s.accept_log[y] \in Entry => log[y] \in Entry
        /\ y # seq => log[y].p2 = s.accept_log[y].p2
  <2>1. s.accept_log \in [Seqnum -> Entry \cup {NoEntry}]
    BY <1>1 DEF NodeState
  <2>2. \A y \in Seqnum : y # seq => log[y] = s.accept_log[y]
    BY <2>1
  <2>3. /\ log[seq] \in Entry
        /\ log[seq].txn = s.accept_log[seq].txn
        /\ log[seq].counter = s.accept_log[seq].counter
        /\ log[seq].status = s.accept_log[seq].status
    BY <2>1 DEF Entry
  <2> HIDE DEF log
  <2>. QED
    BY <2>2, <2>3
<1>3. locks = s.balance_locks \ {ResolvedAccount(t, p2)}
  BY DEF Unlocked
<1>10. \E o \in r : o.txn = t /\ o.p2 = p2
  <2>1. LET o == [node |-> n, txn |-> t, p2 |-> p2] IN o.txn = t /\ o.p2 = p2
    OBVIOUS
  <2>. QED
    BY <2>1
<1>4. u = CASE ~ s.leads -> done
            [] s.leads /\ p2 \in {"C_COORD", "A_COORD"} ->
                 [done EXCEPT !.told = @ \cup {reply}]
            [] s.leads /\ p2 \in {"C", "A_PART_COMMIT"} -> Send(done, {x})
  BY <1>1 DEF ExecuteRepeatedTwoPCEntry, NodeState
<1>5. u \in NodeState
  BY ResolveSound DEF Sound
<1> HIDE DEF log, bal, locks, wal, r, reply, x, u
<1>6. /\ done.alive = s.alive /\ done.exited = s.exited /\ done.leads = s.leads
      /\ done.counter = s.counter
      /\ done.max_seqnum_in_new_view = s.max_seqnum_in_new_view
      /\ done.cluster_leaders = s.cluster_leaders
      /\ done.pending_or_completed_ts = s.pending_or_completed_ts
      /\ done.prepare_and_aborted_queue = s.prepare_and_aborted_queue
      /\ done.in_flight_transactions = s.in_flight_transactions
      /\ done.in_flight_prepares = s.in_flight_prepares
      /\ done.last_executed_seq = s.last_executed_seq
      /\ done.last_seqnum = s.last_seqnum
      /\ done.digest_to_seqnum = s.digest_to_seqnum
      /\ done.entries_to_commit = s.entries_to_commit
      /\ done.accepted_count = s.accepted_count
      /\ done.accepted_count_two_pc_commit = s.accepted_count_two_pc_commit
      /\ done.blank_votes = s.blank_votes
      /\ done.balance_locks = locks
      /\ done.accept_log = log
      /\ done.accounts = bal /\ done.wal = wal /\ done.resolved = r
      /\ done.told = s.told /\ done.out = s.out
  BY <1>1 DEF NodeState
<1>7. Resolves(s, done, t, seq, p2)
  <2> HIDE DEF done
  <2>. QED
    BY <1>2, <1>3, <1>6, <1>10 DEF Resolves, bal, wal, w, a
<1>8. CASE p2 \in {"C_COORD", "A_COORD"}
  <2> DEFINE v == [done EXCEPT !.told = @ \cup {reply}]
  <2>1. u = v
    BY <1>4, <1>8
  <2>2. /\ v.alive = done.alive /\ v.exited = done.exited /\ v.leads = done.leads
        /\ v.counter = done.counter
        /\ v.max_seqnum_in_new_view = done.max_seqnum_in_new_view
        /\ v.cluster_leaders = done.cluster_leaders
        /\ v.pending_or_completed_ts = done.pending_or_completed_ts
        /\ v.prepare_and_aborted_queue = done.prepare_and_aborted_queue
        /\ v.in_flight_transactions = done.in_flight_transactions
        /\ v.in_flight_prepares = done.in_flight_prepares
        /\ v.last_executed_seq = done.last_executed_seq
        /\ v.last_seqnum = done.last_seqnum
        /\ v.digest_to_seqnum = done.digest_to_seqnum
        /\ v.entries_to_commit = done.entries_to_commit
        /\ v.accepted_count = done.accepted_count
        /\ v.accepted_count_two_pc_commit = done.accepted_count_two_pc_commit
        /\ v.blank_votes = done.blank_votes
        /\ v.balance_locks = done.balance_locks
        /\ v.accept_log = done.accept_log
        /\ v.accounts = done.accounts /\ v.wal = done.wal
        /\ v.resolved = done.resolved
        /\ v.told = done.told \cup {reply} /\ v.out = done.out
    BY <1>1 DEF NodeState
  <2> HIDE DEF done, v
  <2>3. Resolves(s, v, t, seq, p2)
    BY <1>7, <2>2 DEF Resolves
  <2>4. reply.txn = t
    BY DEF reply
  <2>5. Announces(s, v, t, p2)
    BY <1>6, <1>8, <2>2, <2>4 DEF Announces, Replied
  <2>. QED
    BY <1>5, <2>1, <2>3, <2>5 DEF u
<1>9. CASE p2 \in {"C", "A_PART_COMMIT"}
  <2> DEFINE v == Send(done, {x})
  <2>1. u = v
    BY <1>4, <1>9
  <2>2. /\ v.alive = done.alive /\ v.exited = done.exited /\ v.leads = done.leads
        /\ v.counter = done.counter
        /\ v.max_seqnum_in_new_view = done.max_seqnum_in_new_view
        /\ v.cluster_leaders = done.cluster_leaders
        /\ v.pending_or_completed_ts = done.pending_or_completed_ts
        /\ v.prepare_and_aborted_queue = done.prepare_and_aborted_queue
        /\ v.in_flight_transactions = done.in_flight_transactions
        /\ v.in_flight_prepares = done.in_flight_prepares
        /\ v.last_executed_seq = done.last_executed_seq
        /\ v.last_seqnum = done.last_seqnum
        /\ v.digest_to_seqnum = done.digest_to_seqnum
        /\ v.entries_to_commit = done.entries_to_commit
        /\ v.accepted_count = done.accepted_count
        /\ v.accepted_count_two_pc_commit = done.accepted_count_two_pc_commit
        /\ v.blank_votes = done.blank_votes
        /\ v.balance_locks = done.balance_locks
        /\ v.accept_log = done.accept_log
        /\ v.accounts = done.accounts /\ v.wal = done.wal
        /\ v.resolved = done.resolved
        /\ v.told = done.told /\ v.out = done.out \cup {x}
    BY <1>1 DEF NodeState, Send
  <2> HIDE DEF done, v
  <2>3. Resolves(s, v, t, seq, p2)
    BY <1>7, <2>2 DEF Resolves
  <2>4. Brings(x, Coord(t), t, Confirmation)
    BY <1>9 DEF x, TwoPCMsg, Brings, Coord, Confirmation
  <2>5. Announces(s, v, t, p2)
    BY <1>6, <1>9, <2>2, <2>4 DEF Announces, ConfirmationSent
  <2>. QED
    BY <1>5, <2>1, <2>3, <2>5 DEF u
<1>. QED
  BY <1>8, <1>9 DEF SecondPhase

\* A counted vote that ends nothing: SecondVoted says what it changes.
SecondVoted(s, w, seq, q) ==
  /\ w \in NodeState /\ w.out = {} /\ w.told = {}
  /\ w.alive = s.alive /\ w.exited = s.exited /\ w.leads = s.leads
  /\ w.counter = s.counter
  /\ w.max_seqnum_in_new_view = s.max_seqnum_in_new_view
  /\ w.cluster_leaders = s.cluster_leaders
  /\ w.pending_or_completed_ts = s.pending_or_completed_ts
  /\ w.prepare_and_aborted_queue = s.prepare_and_aborted_queue
  /\ w.in_flight_transactions = s.in_flight_transactions
  /\ w.in_flight_prepares = s.in_flight_prepares
  /\ w.last_executed_seq = s.last_executed_seq
  /\ w.last_seqnum = s.last_seqnum
  /\ w.digest_to_seqnum = s.digest_to_seqnum
  /\ w.accept_log = s.accept_log
  /\ w.entries_to_commit = s.entries_to_commit
  /\ w.accepted_count = s.accepted_count
  /\ w.accepted_count_two_pc_commit =
       s.accepted_count_two_pc_commit \cup {<<seq, 1, q>>}
  /\ w.blank_votes = s.blank_votes
  /\ w.balance_locks = s.balance_locks
  /\ w.accounts = s.accounts /\ w.wal = s.wal

LEMMA SecondVoteCounted ==
  ASSUME NEW s \in NodeState, s.out = {}, s.told = {}, NEW seq \in Seqnum,
         NEW q \in Node
  PROVE  SecondVoted(s, [s EXCEPT !.accepted_count_two_pc_commit =
                                     @ \cup {<<seq, 1, q>>}], seq, q)
<1> DEFINE votes == s.accepted_count_two_pc_commit \cup {<<seq, 1, q>>}
           w == [s EXCEPT !.accepted_count_two_pc_commit = votes]
<1>1. votes \in SUBSET (Seqnum \X Nat \X Node)
  <2>1. <<seq, 1, q>> \in Seqnum \X Nat \X Node
    OBVIOUS
  <2>2. s.accepted_count_two_pc_commit \in SUBSET (Seqnum \X Nat \X Node)
    BY DEF NodeState
  <2>. QED
    BY <2>1, <2>2
<1>2. [s EXCEPT !.accepted_count_two_pc_commit = @ \cup {<<seq, 1, q>>}] = w
  BY DEF NodeState
<1>3. votes = s.accepted_count_two_pc_commit \cup {<<seq, 1, q>>}
  OBVIOUS
<1> HIDE DEF votes
<1>4. SecondVoted(s, w, seq, q)
  BY <1>1, <1>3 DEF NodeState, SecondVoted
<1>. QED
  BY <1>2, <1>4

\* The vote ends no second phase, or the leader has carried out the outcome or
\* has exited over a vote A without a request.
LEMMA SecondVoteConfirms ==
  ASSUME NEW n \in Node, NEW s \in NodeState, NEW w, NEW seq \in Seqnum,
         NEW q \in Node, NEW t \in Txn, SecondVoted(s, w, seq, q),
         SecondOf(s, n, t, seq), s.entries_to_commit[seq] # NoCommit
  PROVE  /\ /\ Cardinality(Votes(w.accepted_count_two_pc_commit, seq)) # F + 1
            => Confirms(s, w, n, t, seq, q) /\ (Ended(w, t) => Ended(s, t))
         /\ \A b, c : Notes(w, b, n, seq, c) =>
              /\ Confirms(s, Exited(b), n, t, seq, q)
              /\ Exited(b) \in NodeState /\ Exited(b).exited
              /\ Exited(b).out = b.out /\ Exited(b).told = b.told
         /\ \A b, c, u, p2 :
              /\ Notes(w, b, n, seq, c) /\ Resolves(b, u, t, seq, p2)
              /\ ResolvedAccount(t, p2) = IF n = Coord(t) THEN From[t] ELSE To[t]
              => Confirms(s, u, n, t, seq, q)
<1>1. s.digest_to_seqnum[t] = seq /\ seq # 0
  BY DEF SecondOf, Begun
<1>2. ASSUME Cardinality(Votes(w.accepted_count_two_pc_commit, seq)) # F + 1
      PROVE  Confirms(s, w, n, t, seq, q) /\ (Ended(w, t) => Ended(s, t))
  <2>1. Ended(w, t) => Ended(s, t)
    <3>1. s.accepted_count_two_pc_commit \in Tables
      BY DEF NodeState, Tables
    <3>2. ASSUME ~ Quorate(s.accepted_count_two_pc_commit, seq)
          PROVE  ~ Quorate(w.accepted_count_two_pc_commit, seq)
      <4>1. w.accepted_count_two_pc_commit =
              s.accepted_count_two_pc_commit \cup {<<seq, 1, q>>}
        BY DEF SecondVoted
      <4>2. Cardinality(Votes(s.accepted_count_two_pc_commit \cup
                                {<<seq, 1, q>>}, seq)) # F + 1
        BY <1>2, <4>1
      <4>3. ~ Quorate(s.accepted_count_two_pc_commit \cup {<<seq, 1, q>>}, seq)
        BY <3>1, <3>2, <4>2, NoQuorumYet
      <4>. QED
        BY <4>1, <4>3
    <3>3. w.digest_to_seqnum[t] = seq
      BY <1>1 DEF SecondVoted
    <3>. QED
      BY <1>1, <3>2, <3>3 DEF Ended
  <2>2. SameOwn(s, w)
    BY DEF SecondVoted, SameOwn
  <2>. QED
    BY <2>1, <2>2 DEF Confirms, SecondVoted
<1>3. ASSUME NEW b, NEW c, Notes(w, b, n, seq, c)
      PROVE  /\ b \in NodeState
             /\ b.alive = s.alive /\ b.exited = s.exited
             /\ SameOwn(s, b)
             /\ b.in_flight_transactions = s.in_flight_transactions
             /\ b.in_flight_prepares = s.in_flight_prepares
             /\ b.last_executed_seq = s.last_executed_seq
             /\ b.last_seqnum = s.last_seqnum
             /\ b.digest_to_seqnum = s.digest_to_seqnum
             /\ b.accept_log = s.accept_log
             /\ b.accepted_count = s.accepted_count
             /\ b.blank_votes = s.blank_votes
             /\ b.entries_to_commit = s.entries_to_commit
             /\ b.accepted_count_two_pc_commit =
                  s.accepted_count_two_pc_commit \cup {<<seq, 1, q>>}
             /\ b.balance_locks = s.balance_locks
  <2>1. b \in NodeState /\ w \in NodeState
    BY <1>3 DEF Notes, Sound, SecondVoted
  <2>2. b.entries_to_commit = s.entries_to_commit
    <3>1. \A x \in Seqnum : b.entries_to_commit[x] = s.entries_to_commit[x]
      BY <1>3 DEF Notes, SecondVoted
    <3>2. /\ b.entries_to_commit \in [Seqnum -> CommitRecord \cup {NoCommit}]
          /\ s.entries_to_commit \in [Seqnum -> CommitRecord \cup {NoCommit}]
      BY <2>1 DEF NodeState
    <3>. QED
      BY <3>1, <3>2
  <2>3. SameOwn(s, b)
    BY <1>3 DEF Notes, SecondVoted, SameOwn
  <2>. QED
    BY <1>3, <2>1, <2>2, <2>3 DEF Notes, SecondVoted
<1>4. ASSUME NEW b, NEW c, Notes(w, b, n, seq, c)
      PROVE  /\ Confirms(s, Exited(b), n, t, seq, q)
             /\ Exited(b) \in NodeState /\ Exited(b).exited
             /\ Exited(b).out = b.out /\ Exited(b).told = b.told
  <2> DEFINE u == Exited(b)
  <2>1. b \in NodeState
    BY <1>3, <1>4
  <2>2. /\ u \in NodeState /\ ~ u.alive /\ u.exited
        /\ u.out = b.out /\ u.told = b.told
        /\ u.leads = b.leads /\ u.counter = b.counter
        /\ u.max_seqnum_in_new_view = b.max_seqnum_in_new_view
        /\ u.cluster_leaders = b.cluster_leaders
        /\ u.pending_or_completed_ts = b.pending_or_completed_ts
        /\ u.prepare_and_aborted_queue = b.prepare_and_aborted_queue
        /\ u.in_flight_transactions = b.in_flight_transactions
        /\ u.in_flight_prepares = b.in_flight_prepares
        /\ u.last_executed_seq = b.last_executed_seq
        /\ u.last_seqnum = b.last_seqnum
        /\ u.digest_to_seqnum = b.digest_to_seqnum
        /\ u.accept_log = b.accept_log
        /\ u.accepted_count = b.accepted_count
        /\ u.blank_votes = b.blank_votes
        /\ u.entries_to_commit = b.entries_to_commit
        /\ u.accepted_count_two_pc_commit = b.accepted_count_two_pc_commit
        /\ u.balance_locks = b.balance_locks
    BY <2>1 DEF Exited, NodeState
  <2> HIDE DEF u
  <2>3. SameOwn(s, u)
    BY <1>3, <1>4, <2>2 DEF SameOwn
  <2>4. Confirms(s, u, n, t, seq, q)
    BY <1>3, <1>4, <2>2, <2>3 DEF Confirms
  <2>. QED
    BY <2>2, <2>4 DEF u
<1>5. ASSUME NEW b, NEW c, NEW u, NEW p2, Notes(w, b, n, seq, c),
             Resolves(b, u, t, seq, p2),
             ResolvedAccount(t, p2) = IF n = Coord(t) THEN From[t] ELSE To[t]
      PROVE  Confirms(s, u, n, t, seq, q)
  <2> DEFINE a == ResolvedAccount(t, p2)
  <2>1. SameOwn(s, u)
    BY <1>3, <1>5 DEF SameOwn, Resolves
  <2>2. /\ u.balance_locks \subseteq s.balance_locks
        /\ (IF n = Coord(t) THEN From[t] ELSE To[t]) \notin u.balance_locks
    <3>1. u.balance_locks = s.balance_locks \ {a}
      BY <1>3, <1>5 DEF Resolves
    <3>2. a = IF n = Coord(t) THEN From[t] ELSE To[t]
      BY <1>5
    <3> HIDE DEF a
    <3>3. a \notin u.balance_locks /\ u.balance_locks \subseteq s.balance_locks
      BY <3>1
    <3>. QED
      BY <3>2, <3>3
  <2>3. \A x \in Seqnum :
          /\ u.accept_log[x].txn = s.accept_log[x].txn
          /\ u.accept_log[x].counter = s.accept_log[x].counter
          /\ s.accept_log[x] \in Entry => u.accept_log[x] \in Entry
          /\ x # seq => u.accept_log[x].p2 = s.accept_log[x].p2
    BY <1>3, <1>5 DEF Resolves
  <2>4. /\ u.alive = s.alive /\ u.exited = s.exited
        /\ u.in_flight_transactions = s.in_flight_transactions
        /\ u.in_flight_prepares = s.in_flight_prepares
        /\ u.last_executed_seq = s.last_executed_seq
        /\ u.last_seqnum = s.last_seqnum
        /\ u.digest_to_seqnum = s.digest_to_seqnum
        /\ u.accepted_count = s.accepted_count
        /\ u.blank_votes = s.blank_votes
        /\ u.entries_to_commit = s.entries_to_commit
        /\ u.accepted_count_two_pc_commit =
             s.accepted_count_two_pc_commit \cup {<<seq, 1, q>>}
    BY <1>3, <1>5 DEF Resolves
  <2>. QED
    BY <2>1, <2>2, <2>3, <2>4 DEF Confirms
<1>. QED
  BY <1>2, <1>4, <1>5

\* An acknowledgement of a second phase is about an executed transfer.
LEMMA SecondAckIs ==
  ASSUME NEW n \in Node, Leads(n), NEW s \in NodeState, Orderly(s, n),
         NEW seq \in Seqnum, NEW counter, NEW status,
         InRound(s, n, seq, counter, status), status \in SecondPhase
  PROVE  LET t == s.accept_log[seq].txn
         IN /\ t \in Txn /\ SecondOf(s, n, t, seq)
            /\ s.accept_log[seq] \in Entry
            /\ s.entries_to_commit[seq] # NoCommit
            /\ s.last_executed_seq + 1 # seq
            /\ ResolvedAccount(t, status)
                 = IF n = Coord(t) THEN From[t] ELSE To[t]
            /\ status \in {"C_COORD", "A_COORD"} => n = Coord(t)
            /\ status \in {"C", "A_PART_COMMIT"} => n = Part(t)
            /\ seq \in s.blank_votes => n = Part(t)
<1> DEFINE t == s.accept_log[seq].txn
<1>1. /\ seq <= s.last_seqnum
      /\ Suits(t, ClusterOf[n], status)
      /\ <<seq, 1, n>> \in s.accepted_count_two_pc_commit
  BY DEF InRound
<1>2. /\ s.accept_log[seq] \in Entry /\ s.digest_to_seqnum[t] = seq
      /\ seq <= s.last_executed_seq
      /\ s.entries_to_commit[seq] # NoCommit
      /\ seq \in s.blank_votes => Suits(t, ClusterOf[n], "A")
  BY <1>1 DEF Orderly, Filed
<1>3. t \in Txn
  BY <1>2 DEF Entry
<1> HIDE DEF t
<1>4. Ran(s, t) /\ Begun(s, n, t)
  BY <1>1, <1>2, <1>3, Numbers DEF Ran, Begun
<1>5. \A y \in Txn : y # t => s.digest_to_seqnum[y] # seq
  BY <1>2, <1>3, <1>4, RanEntry
<1>6. /\ n \in {Coord(t), Part(t)} /\ ~ IntraShard(t)
      /\ status \in {"C_COORD", "A_COORD"} => n = Coord(t)
      /\ status \in {"C", "A_PART_COMMIT"} => n = Part(t)
      /\ seq \in s.blank_votes => n = Part(t)
  BY <1>1, <1>2, <1>3, SuitsWhere DEF SecondPhase
<1>7. SecondOf(s, n, t, seq)
  BY <1>1, <1>2, <1>4, <1>5, <1>6 DEF SecondOf
<1>8. s.last_executed_seq + 1 # seq
  BY <1>2, Numbers
<1>9. ResolvedAccount(t, status) = IF n = Coord(t) THEN From[t] ELSE To[t]
  BY <1>3, <1>6, LeadersDiffer DEF ResolvedAccount, SecondPhase
<1>. QED
  BY <1>2, <1>3, <1>6, <1>7, <1>8, <1>9 DEF t

LEMMA SecondVoteProgress ==
  ASSUME Quorums, TypeInv, ProgressInv, NEW n \in Node, NEW m \in msgs,
         HandleAccept(n, m), m.status \in SecondPhase
  PROVE  ProgressInv'
<1> DEFINE s == node[n]
           seq == m.seq
           q == m.from
           p2 == m.status
           t == s.accept_log[seq].txn
           w == [s EXCEPT !.accepted_count_two_pc_commit = @ \cup {<<seq, 1, q>>}]
           quorum == Cardinality(Votes(w.accepted_count_two_pc_commit, seq)) = F + 1
           c == [txn |-> w.accept_log[seq].txn, status |-> p2]
           blank == p2 \in SecondPhase /\ seq \in w.blank_votes
           b == Broadcast(RecordCommit(w, seq, c), n, CommitMsg(n, seq, c, blank))
           ms1 == msgs \ {m}
<1>1. /\ s \in NodeState /\ s.out = {} /\ s.told = {} /\ Sound(s, n) /\ Own(s, n)
      /\ node \in [Node -> NodeState] /\ msgs \subseteq Message
      /\ View(node, msgs, replies)
  BY NodeFacts DEF TypeInv, TypeOK, ProgressInv, View
<1>2. /\ m \in Message /\ m.type = "Ack" /\ m.to = n /\ seq \in Seqnum
      /\ q \in Node /\ p2 \in Status /\ p2 \in SecondPhase
      /\ InRound(s, n, seq, m.counter, p2)
  BY AckFacts
<1>3. Leads(n)
  BY <1>2 DEF InRound
<1>4. Finish(n, IF quorum THEN CommitEntry(w, n, seq, p2) ELSE w, {m})
  BY AckFacts
<1>5. /\ Orderly(s, n) /\ Rounds(s, n, msgs) /\ CaughtUp(s)
  BY <1>1, <1>3 DEF View, ProgressInv
<1>6. /\ t \in Txn /\ SecondOf(s, n, t, seq)
      /\ s.accept_log[seq] \in Entry
      /\ s.entries_to_commit[seq] # NoCommit
      /\ s.last_executed_seq + 1 # seq
      /\ ResolvedAccount(t, p2) = IF n = Coord(t) THEN From[t] ELSE To[t]
      /\ p2 \in {"C_COORD", "A_COORD"} => n = Coord(t)
      /\ p2 \in {"C", "A_PART_COMMIT"} => n = Part(t)
      /\ seq \in s.blank_votes => n = Part(t)
  <2> HIDE DEF s, seq, p2
  <2>. QED
    BY <1>1, <1>2, <1>3, <1>5, SecondAckIs
<1>7. SecondVoted(s, w, seq, q)
  <2> HIDE DEF s, seq, q
  <2>. QED
    BY <1>1, <1>2, SecondVoteCounted
<1> HIDE DEF t
<1>8. /\ /\ Cardinality(Votes(w.accepted_count_two_pc_commit, seq)) # F + 1
         => Confirms(s, w, n, t, seq, q) /\ (Ended(w, t) => Ended(s, t))
      /\ \A x, y : Notes(w, x, n, seq, y) =>
           /\ Confirms(s, Exited(x), n, t, seq, q)
           /\ Exited(x) \in NodeState /\ Exited(x).exited
           /\ Exited(x).out = x.out /\ Exited(x).told = x.told
      /\ \A x, y, u, p :
           /\ Notes(w, x, n, seq, y) /\ Resolves(x, u, t, seq, p)
           /\ ResolvedAccount(t, p) = IF n = Coord(t) THEN From[t] ELSE To[t]
           => Confirms(s, u, n, t, seq, q)
  <2> HIDE DEF s, seq, q, w
  <2>. QED
    BY <1>1, <1>2, <1>6, <1>7, SecondVoteConfirms
<1>9. \A x \in ms1 : x \in Message
  BY <1>1
<1>10. /\ w.out = {} /\ w.told = {} /\ w \in NodeState /\ w.accept_log = s.accept_log
       /\ w.last_executed_seq = s.last_executed_seq
       /\ w.blank_votes = s.blank_votes
       /\ w.digest_to_seqnum = s.digest_to_seqnum
       /\ w.in_flight_prepares = s.in_flight_prepares
       /\ w.leads = s.leads /\ w.cluster_leaders = s.cluster_leaders
  BY <1>7 DEF SecondVoted
\* The step, given the state u that the handler leaves.
<1>11. ASSUME NEW u, u \in NodeState, Confirms(s, u, n, t, seq, q),
              Finish(n, u, {m}),
              \A y \in u.out : \/ y.type = "Commit" /\ y.to \in Peers(n)
                               \/ n = Part(t) /\ Brings(y, Coord(t), t, Confirmation),
              Ended(u, t) => \/ Ended(s, t)
                             \/ n = Coord(t) /\ Replied(u.told, t)
                             \/ n = Part(t) /\ (u.exited \/ ConfirmationSent(u.out, t))
       PROVE  ProgressInv'
  <2> DEFINE ms == ms1 \cup u.out
             rep == replies \cup u.told
  <2>1. ms \in SUBSET Message
    <3>1. u.out \in SUBSET Message
      BY <1>11 DEF NodeState
    <3>. QED
      BY <1>9, <3>1
  <2>2. EndMail(msgs, ms, n, t, seq, q)
    <3>1. Answered(msgs, ms, n, q, seq, SecondPhase)
      BY <1>2 DEF Answered
    <3>2. \A y \in ms \ msgs : \/ y.type = "Commit" /\ ~ Leads(y.to)
                               \/ n = Part(t) /\ Brings(y, Coord(t), t, Confirmation)
      <4>1. ASSUME NEW y \in ms, y \notin msgs PROVE y \in u.out
        BY <4>1
      <4>2. \A p \in Peers(n) : ~ Leads(p)
        BY <1>3, PeersFollow
      <4>. QED
        BY <1>11, <4>1, <4>2
    <3>. QED
      BY <3>1, <3>2 DEF EndMail
  <2>3. EndSaid(s, u, ms, rep, n, t)
    <3>1. Replied(u.told, t) => Replied(rep, t)
      BY DEF Replied
    <3>2. ConfirmationSent(u.out, t) => ConfirmationSent(ms, t)
      BY DEF ConfirmationSent
    <3>. QED
      BY <1>11, <3>1, <3>2 DEF EndSaid
  <2>4. replies \subseteq rep
    OBVIOUS
  <2>5. CaughtUp(u)
    <3>1. u.last_executed_seq = s.last_executed_seq
          /\ u.entries_to_commit = s.entries_to_commit
      BY <1>11 DEF Confirms
    <3>. QED
      BY <1>5, <3>1 DEF CaughtUp
  <2>6. /\ SecondOf(node[n], n, t, seq) /\ Confirms(node[n], u, n, t, seq, q)
        /\ EndSaid(node[n], u, ms, rep, n, t)
    BY <1>6, <1>11, <2>3
  <2> HIDE DEF ms, rep, s, seq, q
  <2>7. View([node EXCEPT ![n] = u], ms, rep)
    BY <1>1, <1>2, <1>3, <1>6, <1>11, <2>1, <2>2, <2>4, <2>6, ConfirmsView
  <2>8. View([node EXCEPT ![n] = u], (msgs \ {m}) \cup u.out, replies \cup u.told)
    BY <2>7 DEF ms, rep, ms1
  <2>. QED
    BY <1>11, <2>5, <2>8, FinishProgress
<1>12. CASE ~ quorum
  <2>1. Finish(n, w, {m})
    BY <1>4, <1>12
  <2>2. Confirms(s, w, n, t, seq, q) /\ (Ended(w, t) => Ended(s, t))
    BY <1>8, <1>12
  <2> HIDE DEF w
  <2>. QED
    BY <1>10, <1>11, <2>1, <2>2
<1>13. CASE quorum
  <2>1. Finish(n, CommitEntry(w, n, seq, p2), {m})
    BY <1>4, <1>13
  <2>2. /\ c \in CommitRecord /\ c.txn = t /\ blank \in BOOLEAN
    BY <1>2, <1>6, <1>10 DEF CommitRecord, Entry, t
  <2>3. Sound(w, n)
    <3> HIDE DEF w, s
    <3>. QED
      BY <1>1, <1>10, SameAnchors DEF Kept
  <2>4. Notes(w, b, n, seq, c)
    <3> HIDE DEF w, seq, c, blank
    <3>. QED
      BY <1>2, <2>2, <2>3, CommitNoted
  <2>5. /\ blank => CommitEntry(w, n, seq, p2) = Exited(b)
        /\ ~ blank => CommitEntry(w, n, seq, p2)
                        = ExecuteRepeatedTwoPCEntry(b, n, seq, t, p2)
    <3>1. w.last_executed_seq + 1 # seq
      BY <1>6, <1>10
    <3>2. c.txn = t
      BY <2>2
    <3> HIDE DEF w, seq, p2
    <3>. QED
      BY <1>2, <3>1, <3>2, CommitEntryIs
  <2>6. /\ Sound(b, n) /\ b \in NodeState /\ b.told = {}
        /\ b.leads = s.leads /\ b.cluster_leaders = s.cluster_leaders
        /\ b.accept_log = s.accept_log
        /\ \A y \in b.out : y.type = "Commit" /\ y.to \in Peers(n)
    BY <1>10, <2>4 DEF Notes, Sound
  <2> HIDE DEF b
  <2>7. CASE blank
    <3>1. n = Part(t)
      BY <1>6, <1>10, <2>7
    <3>2. Finish(n, Exited(b), {m})
      BY <2>1, <2>5, <2>7
    <3>3. /\ Confirms(s, Exited(b), n, t, seq, q)
          /\ Exited(b) \in NodeState /\ Exited(b).exited
          /\ Exited(b).out = b.out
      BY <1>8, <2>4
    <3>. QED
      BY <1>11, <2>6, <3>1, <3>2, <3>3
  <2>8. CASE ~ blank
    <3> DEFINE u == ExecuteRepeatedTwoPCEntry(b, n, seq, t, p2)
    <3>1. /\ s.leads /\ s.cluster_leaders = FirstLeader
      BY <1>1, <1>3 DEF Own
    <3>2. u \in NodeState /\ Resolves(b, u, t, seq, p2) /\ Announces(b, u, t, p2)
      <4>1. b.leads /\ b.cluster_leaders = FirstLeader /\ b.accept_log[seq] \in Entry
        BY <1>6, <2>6, <3>1
      <4> HIDE DEF seq, p2, s
      <4>. QED
        BY <1>2, <1>6, <2>6, <4>1, ResolveLeads
    <3>3. Finish(n, u, {m})
      BY <2>1, <2>5, <2>8
    <3> HIDE DEF u
    <3>4. Confirms(s, u, n, t, seq, q)
      BY <1>6, <1>8, <2>4, <3>2
    <3>5. \/ n = Coord(t) /\ u.out = b.out /\ Replied(u.told, t)
          \/ /\ n = Part(t)
             /\ \A x \in u.out : x \in b.out \/ Brings(x, Coord(t), t, Confirmation)
             /\ ConfirmationSent(u.out, t)
      BY <1>2, <1>6, <3>2 DEF Announces, SecondPhase
    <3>6. \A y \in u.out : \/ y.type = "Commit" /\ y.to \in Peers(n)
                           \/ n = Part(t) /\ Brings(y, Coord(t), t, Confirmation)
      BY <2>6, <3>5
    <3>7. \/ n = Coord(t) /\ Replied(u.told, t)
          \/ n = Part(t) /\ ConfirmationSent(u.out, t)
      BY <3>5
    <3>. QED
      BY <1>11, <3>2, <3>3, <3>4, <3>6, <3>7
  <2>. QED
    BY <2>7, <2>8
<1>. QED
  BY <1>12, <1>13

LEMMA HandleAcceptProgress ==
  ASSUME Quorums, TypeInv, ProgressInv, NEW n \in Node, NEW m \in msgs,
         HandleAccept(n, m)
  PROVE  ProgressInv'
  BY FirstVoteProgress, SecondVoteProgress

-----------------------------------------------------------------------------
\* The invariant.

LEMMA ProgressInit ==
  ASSUME Init
  PROVE  ProgressInv
<1>1. /\ node = [n \in Node |-> InitialNode(n)] /\ msgs = {} /\ replies = {}
  BY DEF Init
<1>2. ASSUME NEW n \in Node
      PROVE  /\ node[n].leads = (n = FirstLeader[ClusterOf[n]])
             /\ node[n].exited = FALSE
             /\ node[n].counter = 1 /\ node[n].max_seqnum_in_new_view = 0
             /\ node[n].cluster_leaders = FirstLeader
             /\ node[n].last_seqnum = 0 /\ node[n].last_executed_seq = 0
             /\ node[n].pending_or_completed_ts = {}
             /\ node[n].balance_locks = {}
             /\ node[n].in_flight_transactions = {} /\ node[n].blank_votes = {}
             /\ node[n].accepted_count = {}
             /\ node[n].accepted_count_two_pc_commit = {}
             /\ \A t \in Txn : node[n].prepare_and_aborted_queue[t] = ""
             /\ \A t \in Txn : ~ node[n].in_flight_prepares[t].sent
  BY <1>1 DEF InitialNode
<1>3. ASSUME NEW n \in Node, NEW t \in Txn
      PROVE  node[n].digest_to_seqnum[t] = 0
  BY <1>1 DEF InitialNode
<1>4. ASSUME NEW n \in Node, NEW seq \in Seqnum
       PROVE  /\ node[n].entries_to_commit[seq] = NoCommit
              /\ node[n].accept_log[seq].p2 = ""
  BY <1>1 DEF InitialNode, NoEntry
<1>5. ASSUME NEW n \in Node PROVE Own(node[n], n)
  <2>1. node[n].leads <=> Leads(n)
    BY <1>2 DEF Leads
  <2>. QED
    BY <1>2, <2>1 DEF Own
<1>6. ASSUME NEW n \in Node PROVE Orderly(node[n], n)
  <2> DEFINE s == node[n]
  <2>1. /\ s.last_seqnum = 0 /\ s.last_executed_seq = 0
        /\ s.pending_or_completed_ts = {} /\ s.blank_votes = {}
        /\ s.accepted_count_two_pc_commit = {}
    BY <1>2
  <2>2. /\ \A t \in Txn : s.digest_to_seqnum[t] = 0
        /\ \A seq \in Seqnum : s.entries_to_commit[seq] = NoCommit
    BY <1>3, <1>4
  <2>3. \A seq \in Seqnum : s.accept_log[seq].p2 = ""
    BY <1>4
  <2> HIDE DEF s
  <2>4. ASSUME NEW t \in Txn PROVE Claimed(s, t)
    <3>1. s.digest_to_seqnum[t] = 0 /\ t \notin s.pending_or_completed_ts
      BY <2>1, <2>2
    <3>. QED
      BY <2>1, <3>1 DEF Claimed
  <2>5. ASSUME NEW seq \in Seqnum PROVE Filed(s, n, seq)
    <3>1. ~ (seq <= 0)
      BY Numbers
    <3>. QED
      BY <2>1, <2>2, <2>3, <3>1 DEF Filed
  <2>6. s.last_executed_seq <= s.last_seqnum
    BY <2>1
  <2>7. Orderly(s, n)
    BY <2>4, <2>5, <2>6 DEF Orderly
  <2>. QED
    BY <2>7 DEF s
<1>7. ASSUME NEW n \in Node PROVE Rounds(node[n], n, msgs)
  <2>1. /\ \A seq \in Seqnum : ~ (seq <= 0)
        /\ \A seq : Votes({}, seq) = {}
        /\ \A seq : ~ Quorate({}, seq)
    <3>1. \A seq : Votes({}, seq) = {}
      BY DEF Votes
    <3>. QED
      BY <3>1, Numbers, EmptyIsNoQuorum
  <2>2. node[n].accepted_count = {} /\ node[n].accepted_count_two_pc_commit = {}
        /\ node[n].last_seqnum = 0
    BY <1>2
  <2>. QED
    BY <2>1, <2>2 DEF Rounds
<1>8. ASSUME NEW n \in Node PROVE LocksHeld(node[n], n) /\ CaughtUp(node[n])
  BY <1>2, <1>4 DEF LocksHeld, CaughtUp
<1>9. ASSUME NEW t \in Txn PROVE Stage(t, node, msgs, replies)
  <2>1. Coord(t) \in Node /\ Part(t) \in Node
    BY LeadersDiffer
  <2>2. ASSUME NEW n \in Node
        PROVE  /\ ~ Ran(node[n], t) /\ ~ Ended(node[n], t)
               /\ \A q : ~ Begun(node[n], q, t)
               /\ ~ Parked(node[n], t)
               /\ t \notin node[n].pending_or_completed_ts
               /\ t \notin node[n].in_flight_transactions
    <3>1. /\ node[n].digest_to_seqnum[t] = 0
          /\ node[n].last_executed_seq = 0
          /\ node[n].prepare_and_aborted_queue[t] = ""
          /\ t \notin node[n].pending_or_completed_ts
          /\ t \notin node[n].in_flight_transactions
      BY <1>2, <1>3, ZenonT(60)
    <3>2. ~ Ran(node[n], t)
      <4>1. 0 \notin 1 .. 0
        OBVIOUS
      <4>. QED
        BY <3>1, <4>1 DEF Ran
    <3>. QED
      BY <3>1, <3>2 DEF Ended, Begun, Parked
  <2>3. /\ ~ PrepareSent(msgs, t) /\ ~ VoteSent(msgs, t)
        /\ ~ DecisionSent(msgs, t) /\ OneVote(msgs, t)
    BY <1>1 DEF PrepareSent, VoteSent, DecisionSent, OneVote
  <2>. QED
    BY <2>1, <2>2, <2>3 DEF Stage, CrossStage
<1>10. View(node, msgs, replies)
  BY <1>1, <1>5, <1>6, <1>7, <1>8, <1>9 DEF View
<1>. QED
  BY <1>8, <1>10 DEF ProgressInv

LEMMA ProgressStep ==
  ASSUME sharding_map = shard_map, Quorums, TypeInv, ProgressInv, TypeInv',
         [TimelyNext]_vars
  PROVE  ProgressInv'
<1>1. CASE UNCHANGED vars
  <2>1. node' = node /\ msgs' = msgs /\ replies' = replies
    BY <1>1 DEF vars
  <2>. QED
    BY <2>1 DEF ProgressInv
<1>2. ASSUME NEW n \in Node, NEW t \in Txn, ProcessClientRequest(n, t)
      PROVE  ProgressInv'
  BY <1>2, ProcessClientRequestProgress
<1>3. ASSUME NEW n \in Node, NEW t \in Txn, RetryPrepare(n, t)
      PROVE  ProgressInv'
  BY <1>3, RetryPrepareProgress
<1>4. CASE Deliver
  <2>1. PICK m \in msgs : \/ HandlePrepare(m.to, m)
                          \/ HandlePropose(m.to, m)
                          \/ HandleAccept(m.to, m)
                          \/ HandleCommit(m.to, m)
                          \/ HandlePreparedAndAborted(m.to, m)
                          \/ HandleCommittedAndAborted(m.to, m)
    BY <1>4 DEF Deliver
  <2>2. m.to \in Node
    BY ReceiverIsNode
  <2>3. CASE HandlePrepare(m.to, m)
    BY <2>2, <2>3, HandlePrepareProgress
  <2>4. CASE HandlePropose(m.to, m)
    BY <2>2, <2>4, HandleProposeProgress
  <2>5. CASE HandleAccept(m.to, m)
    BY <2>2, <2>5, HandleAcceptProgress
  <2>6. CASE HandleCommit(m.to, m)
    BY <2>2, <2>6, HandleCommitProgress
  <2>7. CASE HandlePreparedAndAborted(m.to, m)
    BY <2>2, <2>7, HandleVoteProgress
  <2>8. CASE HandleCommittedAndAborted(m.to, m)
    BY <2>2, <2>8, HandleConfirmationProgress
  <2>. QED
    BY <2>1, <2>3, <2>4, <2>5, <2>6, <2>7, <2>8
<1>5. ASSUME NEW n \in Node, HandleMoveOn(n) PROVE ProgressInv'
  BY <1>5, HandleMoveOnProgress
<1>. QED
  BY <1>1, <1>2, <1>3, <1>4, <1>5 DEF TimelyNext

-----------------------------------------------------------------------------
\* When no message is in flight.

\* Every entry of a leader has been executed, and a second phase that was
\* proposed has ended.
LEMMA LeaderAtRest ==
  ASSUME Quorums, NEW n \in Node, NEW s \in NodeState, Orderly(s, n),
         Rounds(s, n, {}), CaughtUp(s), NEW t \in Txn
  PROVE  /\ t \in s.pending_or_completed_ts \/ s.digest_to_seqnum[t] # 0 => Ran(s, t)
         /\ Begun(s, n, t) => Ended(s, t)
<1> DEFINE x == s.last_executed_seq + 1
<1>1. s.accepted_count \in Tables /\ s.accepted_count_two_pc_commit \in Tables
  BY DEF NodeState, Tables
<1>2. \A seq \in Seqnum : seq <= s.last_seqnum =>
        s.entries_to_commit[seq] # NoCommit
  <2> SUFFICES ASSUME NEW seq \in Seqnum, seq <= s.last_seqnum
               PROVE  s.entries_to_commit[seq] # NoCommit
    OBVIOUS
  <2>1. Polled(s.accepted_count, {}, n, seq, FirstPhase)
    BY DEF Rounds
  <2>2. Quorate(s.accepted_count, seq)
    BY <1>1, <2>1, AllHaveVoted
  <2>. QED
    BY <2>2 DEF Rounds
<1>3. s.last_executed_seq = s.last_seqnum
  <2>1. /\ s.last_executed_seq \in 0 .. MaxSeq /\ s.last_seqnum \in 0 .. MaxSeq
        /\ MaxSeq \in Nat
    BY ConstantsAssumption DEF NodeState
  <2>2. s.last_executed_seq <= s.last_seqnum
    BY DEF Orderly
  <2>3. ASSUME s.last_executed_seq < s.last_seqnum PROVE FALSE
    <3>1. x \in Seqnum /\ x <= s.last_seqnum
      BY <2>1, <2>3 DEF Seqnum
    <3>. QED
      BY <1>2, <3>1 DEF CaughtUp
  <2>. QED
    BY <2>1, <2>2, <2>3
<1>4. t \in s.pending_or_completed_ts \/ s.digest_to_seqnum[t] # 0 => Ran(s, t)
  <2>1. /\ t \in s.pending_or_completed_ts => s.digest_to_seqnum[t] # 0
        /\ s.digest_to_seqnum[t] <= s.last_seqnum
    BY DEF Orderly, Claimed
  <2>. QED
    BY <1>3, <2>1, Numbers DEF Ran
<1>5. Begun(s, n, t) => Ended(s, t)
  <2> SUFFICES ASSUME Begun(s, n, t) PROVE Ended(s, t)
    OBVIOUS
  <2> DEFINE seq == s.digest_to_seqnum[t]
  <2>1. seq \in Seqnum /\ seq # 0 /\ <<seq, 1, n>> \in s.accepted_count_two_pc_commit
    BY Numbers DEF Begun
  <2> HIDE DEF seq
  <2>2. Polled(s.accepted_count_two_pc_commit, {}, n, seq, SecondPhase)
    BY <2>1 DEF Rounds
  <2>3. Quorate(s.accepted_count_two_pc_commit, seq)
    BY <1>1, <2>2, AllHaveVoted
  <2>. QED
    BY <2>1, <2>3 DEF Ended, seq
<1>. QED
  BY <1>4, <1>5

\* A transfer that one of its leaders has claimed has come to its end.
LEMMA TransferAtRest ==
  ASSUME Quorums, TypeInv, ProgressInv, msgs = {}, NEW t \in Txn,
         NEW n \in {Coord(t), Part(t)}, t \in node[n].pending_or_completed_ts
  PROVE  /\ Replied(replies, t)
         /\ IntraShard(t) => Ran(node[n], t)
         /\ ~ IntraShard(t) =>
              LET C == node[Coord(t)]
              IN /\ Ended(node[n], t)
                 /\ C.in_flight_prepares[t].sent => C.in_flight_prepares[t].completed
                 /\ t \in C.in_flight_transactions => node[Part(t)].exited
<1> DEFINE C == node[Coord(t)]
           P == node[Part(t)]
<1>1. /\ Coord(t) \in Node /\ Leads(Coord(t)) /\ Part(t) \in Node /\ Leads(Part(t))
      /\ n \in Node /\ Coord(t) = Part(t) <=> IntraShard(t)
  BY LeadersDiffer
<1>2. /\ C \in NodeState /\ Orderly(C, Coord(t)) /\ Rounds(C, Coord(t), {})
      /\ CaughtUp(C)
      /\ P \in NodeState /\ Orderly(P, Part(t)) /\ Rounds(P, Part(t), {})
      /\ CaughtUp(P)
  BY <1>1 DEF TypeInv, TypeOK, ProgressInv, View
<1>3. Stage(t, node, {}, replies)
  BY DEF ProgressInv, View
<1>4. /\ IntraShard(t) => (Ran(C, t) => Replied(replies, t))
      /\ ~ IntraShard(t) => CrossStage(t, C, P, {}, replies)
  BY <1>3 DEF Stage
<1>5. t \in C.pending_or_completed_ts \/ t \in P.pending_or_completed_ts
  OBVIOUS
<1>6. (n = Coord(t) /\ node[n] = C) \/ (n = Part(t) /\ node[n] = P)
  OBVIOUS
<1>7. CASE IntraShard(t)
  <2>1. node[n] = C
    BY <1>1, <1>6, <1>7
  <2> HIDE DEF C, P
  <2>2. Ran(C, t)
    BY <1>1, <1>2, <2>1, LeaderAtRest
  <2>. QED
    BY <1>4, <1>7, <2>1, <2>2
<1>8. CASE ~ IntraShard(t)
  <2> HIDE DEF C, P
  <2>1. CrossStage(t, C, P, {}, replies)
    BY <1>4, <1>8
  <2>2. /\ ~ PrepareSent({}, t) /\ ~ VoteSent({}, t) /\ ~ DecisionSent({}, t)
        /\ ~ ConfirmationSent({}, t)
    BY DEF PrepareSent, VoteSent, DecisionSent, ConfirmationSent
  <2>3. t \in C.pending_or_completed_ts /\ t \in P.pending_or_completed_ts
    BY <1>5, <2>1, <2>2 DEF CrossStage
  <2>4. /\ Ran(C, t) /\ Ran(P, t)
        /\ Begun(C, Coord(t), t) => Ended(C, t)
        /\ Begun(P, Part(t), t) => Ended(P, t)
    BY <1>1, <1>2, <2>3, LeaderAtRest
  <2>5. Begun(C, Coord(t), t)
    BY <2>1, <2>2, <2>4 DEF CrossStage
  <2>6. Begun(P, Part(t), t)
    BY <2>1, <2>2, <2>5 DEF CrossStage
  <2>7. Ended(C, t) /\ Ended(P, t)
    BY <2>4, <2>5, <2>6
  <2>8. /\ Replied(replies, t)
        /\ C.in_flight_prepares[t].sent => C.in_flight_prepares[t].completed
        /\ t \in C.in_flight_transactions => P.exited
    BY <2>1, <2>2, <2>5, <2>7 DEF CrossStage
  <2>. QED
    BY <1>6, <1>8, <2>7, <2>8 DEF C, P
<1>. QED
  BY <1>7, <1>8

LEMMA ProgressMeansNobodyWaits ==
  ASSUME Quorums, TypeInv, ProgressInv
  PROVE  NobodyWaitsForever
<1> SUFFICES ASSUME msgs = {}, \A p \in Node : ~ node[p].exited, NEW n \in Node
             PROVE  /\ node[n].in_flight_transactions = {}
                    /\ \A t \in node[n].pending_or_completed_ts :
                         /\ \E r \in replies : r.txn = t
                         /\ node[n].in_flight_prepares[t].sent =>
                              node[n].in_flight_prepares[t].completed
  BY DEF NobodyWaitsForever
<1>1. /\ node[n] \in NodeState /\ Own(node[n], n)
  BY DEF TypeInv, TypeOK, ProgressInv, View
<1>2. /\ node[n].pending_or_completed_ts \subseteq Txn
      /\ node[n].in_flight_transactions \subseteq Txn
  BY <1>1 DEF NodeState
<1>3. ASSUME NEW t \in Txn, t \in node[n].in_flight_transactions PROVE FALSE
  <2>1. n = Coord(t) /\ ~ IntraShard(t)
    BY <1>1, <1>3 DEF Own
  <2>2. Begun(node[n], n, t)
    BY <1>3, <2>1 DEF ProgressInv, View, Stage, CrossStage
  <2>3. Orderly(node[n], n)
    BY <2>1, LeadersDiffer DEF ProgressInv, View
  <2>4. t \in node[n].pending_or_completed_ts
    BY <2>2, <2>3 DEF Begun, Orderly, Claimed
  <2>5. node[Part(t)].exited
    BY <1>3, <2>1, <2>4, TransferAtRest
  <2>6. Part(t) \in Node
    BY LeadersDiffer
  <2>. QED
    BY <2>5, <2>6
<1>4. ASSUME NEW t \in Txn, t \in node[n].pending_or_completed_ts
      PROVE  /\ \E r \in replies : r.txn = t
             /\ node[n].in_flight_prepares[t].sent =>
                  node[n].in_flight_prepares[t].completed
  <2>1. n \in {Coord(t), Part(t)}
    BY <1>1, <1>4 DEF Own
  <2>2. node[n].in_flight_prepares[t].sent => n = Coord(t) /\ ~ IntraShard(t)
    BY <1>1 DEF Own
  <2>3. Replied(replies, t)
    BY <1>4, <2>1, TransferAtRest
  <2>4. n = Coord(t) /\ ~ IntraShard(t) /\ node[n].in_flight_prepares[t].sent =>
          node[n].in_flight_prepares[t].completed
    BY <1>4, <2>1, TransferAtRest
  <2>. QED
    BY <2>2, <2>3, <2>4 DEF Replied
<1>. QED
  BY <1>2, <1>3, <1>4

LEMMA ProgressMeansLocksComeFree ==
  ASSUME Quorums, TypeInv, ProgressInv
  PROVE  LocksComeFree
<1> SUFFICES ASSUME msgs = {}, NEW n \in Node, node[n].alive, node[n].leads,
                    NEW a \in node[n].balance_locks
             PROVE  FALSE
  BY DEF LocksComeFree, AtRest
<1>1. node[n] \in NodeState /\ Own(node[n], n)
  BY DEF TypeInv, TypeOK, ProgressInv, View
<1>2. Leads(n)
  BY <1>1 DEF Own
<1>3. LocksHeld(node[n], n) /\ Orderly(node[n], n)
  BY <1>2 DEF ProgressInv, View
<1>4. PICK t \in Txn : Holds(node[n], n, t, a)
  BY <1>3 DEF LocksHeld
<1>5. t \in node[n].pending_or_completed_ts
  BY <1>3, <1>4 DEF Holds, Orderly, Claimed
<1>6. n \in {Coord(t), Part(t)}
  BY <1>1, <1>5 DEF Own
<1>7. /\ IntraShard(t) => Ran(node[n], t)
      /\ ~ IntraShard(t) => Ended(node[n], t)
  BY <1>5, <1>6, TransferAtRest
<1>. QED
  BY <1>4, <1>7 DEF Holds

\* The invariant holds in every reachable state while the leaders stay up and
\* no coordinator gives up.
THEOREM ProgressIsInvariant ==
  ASSUME sharding_map = shard_map, Quorums
  PROVE  TimelySpec => [](TypeInv /\ ProgressInv)
<1>1. Init => TypeInv /\ ProgressInv
  BY TypeInvInit, ProgressInit
<1>2. TypeInv /\ ProgressInv /\ [TimelyNext]_vars => TypeInv' /\ ProgressInv'
  <2> SUFFICES ASSUME TypeInv, ProgressInv, [TimelyNext]_vars
               PROVE  TypeInv' /\ ProgressInv'
    OBVIOUS
  <2>1. [Next]_vars
    BY DEF Next
  <2>2. TypeInv'
    BY <2>1, TypeInvStep
  <2>. QED
    BY <2>2, ProgressStep
<1>. QED
  BY <1>1, <1>2, PTL DEF TimelySpec

\* While the leaders stay up and no coordinator gives up, nobody waits for a
\* message that nobody sends: when none is in flight and every process runs,
\* every transfer that ProcessClientRequest admitted has been answered, every
\* PREPARE has its vote and every decision its confirmation.  That holds for
\* any delay and order of the messages, any number of MoveOns and retries, and
\* any number of clusters, nodes and transfers.
THEOREM NobodyIsLeftWaiting ==
  ASSUME sharding_map = shard_map, Quorums
  PROVE  TimelySpec => []NobodyWaitsForever
<1>1. TypeInv /\ ProgressInv => NobodyWaitsForever
  BY ProgressMeansNobodyWaits
<1>. QED
  BY <1>1, ProgressIsInvariant, PTL

\* Under the same conditions no leader that runs holds the lock of an account
\* when nothing is in flight: every lock that ProcessClientRequest or
\* HandlePrepare takes is given back by ExecuteTransaction or by
\* ExecuteRepeatedTwoPCEntry.
THEOREM EveryLockComesFree ==
  ASSUME sharding_map = shard_map, Quorums
  PROVE  TimelySpec => []LocksComeFree
<1>1. TypeInv /\ ProgressInv => LocksComeFree
  BY ProgressMeansLocksComeFree
<1>. QED
  BY <1>1, ProgressIsInvariant, PTL
=============================================================================
