------------------------ MODULE TwoPhaseCommitProofs ------------------------
(***************************************************************************)
(* Types of TwoPhaseCommit, for the whole specification: with retries that *)
(* give up, lost leaders and elections.                                    *)
(***************************************************************************)
EXTENDS TwoPhaseCommit, FiniteSetTheorems, NaturalsInduction,
        WellFoundedInduction, TLAPS

\* The sequence number a node remembers for a transaction is that of an entry
\* it has, a PREPARE in flight has such a number, and while a handler runs it
\* sends Accepts of its own entries only.
Sound(s, n) ==
  /\ s \in NodeState
  /\ \A t \in Txn : s.digest_to_seqnum[t] # 0 =>
       s.accept_log[s.digest_to_seqnum[t]] # NoEntry
  /\ \A t \in Txn : s.in_flight_prepares[t].sent => s.digest_to_seqnum[t] # 0
  /\ \A m \in s.out :
       /\ m.type # "Ack"
       /\ m.type = "Accept" => m.from = n /\ s.accept_log[m.seq] # NoEntry

\* Before Propose has given t a number its PREPARE may be marked as sent.
SoundBut(s, n, t) ==
  /\ s \in NodeState
  /\ \A y \in Txn : s.digest_to_seqnum[y] # 0 =>
       s.accept_log[s.digest_to_seqnum[y]] # NoEntry
  /\ \A y \in Txn \ {t} :
       s.in_flight_prepares[y].sent => s.digest_to_seqnum[y] # 0
  /\ \A m \in s.out :
       /\ m.type # "Ack"
       /\ m.type = "Accept" => m.from = n /\ s.accept_log[m.seq] # NoEntry

\* No entry of the log is lost.
Kept(s, u) ==
  \A seq \in Seqnum : s.accept_log[seq] # NoEntry => u.accept_log[seq] # NoEntry

\* Acknowledgements are for entries that the receiver has, Accepts come from
\* a node that has the entry.
Backed(m) ==
  /\ m.type = "Accept" => node[m.from].accept_log[m.seq] # NoEntry
  /\ m.type = "Ack" => node[m.to].accept_log[m.seq] # NoEntry

TypeInv ==
  /\ TypeOK
  /\ \A n \in Node : Sound(node[n], n) /\ node[n].out = {}
                       /\ node[n].told = {} /\ node[n].resolved = {}
  /\ \A m \in msgs : Backed(m)

-----------------------------------------------------------------------------
\* The operators that handlers are composed of.

\* A record that differs only in fields that Sound does not speak of, and that
\* keeps the entries, is sound.
LEMMA SameAnchors ==
  ASSUME NEW n, NEW s, NEW u, Sound(s, n), u \in NodeState, Kept(s, u),
         u.out = s.out, u.digest_to_seqnum = s.digest_to_seqnum,
         u.in_flight_prepares = s.in_flight_prepares
  PROVE  Sound(u, n)
<1>1. s \in NodeState
  BY DEF Sound
<1>2. \A m \in s.out : m.type = "Accept" => m.seq \in Seqnum
  BY <1>1, ZenonT(60) DEF NodeState, Message
<1>3. \A t \in Txn : s.digest_to_seqnum[t] # 0 => s.digest_to_seqnum[t] \in Seqnum
  <2>1. s.digest_to_seqnum \in [Txn -> 0 .. MaxSeq]
    BY <1>1 DEF NodeState
  <2>. QED
    BY <2>1, ConstantsAssumption DEF Seqnum
<1>. QED
  BY <1>2, <1>3 DEF Sound, Kept

LEMMA InitialNodeSound ==
  ASSUME NEW n \in Node
  PROVE  /\ Sound(InitialNode(n), n)
         /\ InitialNode(n).out = {} /\ InitialNode(n).told = {}
         /\ InitialNode(n).resolved = {}
<1>1. InitialNode(n) \in NodeState
  BY ConstantsAssumption
  DEF InitialNode, NodeState, WalRecord, NoWal, Seqnum
<1>. QED
  BY <1>1, ConstantsAssumption DEF Sound, InitialNode

LEMMA SendSound ==
  ASSUME NEW n \in Node, NEW s, Sound(s, n), NEW ms \in SUBSET Message,
         \A m \in ms : m.type \in {"PREPARE", "Commit", "TwoPC", "NewLeader"}
  PROVE  Sound(Send(s, ms), n) /\ Kept(s, Send(s, ms))
<1>1. Send(s, ms) \in NodeState
  BY DEF Send, Sound, NodeState
<1>. QED
  BY <1>1 DEF Sound, Send, NodeState, Kept

LEMMA PeersAreNodes == \A n \in Node : Peers(n) \subseteq Node \ {n}
  BY DEF Peers

\* Accepts are broadcast by a node that has the entry.
LEMMA BroadcastAcceptSound ==
  ASSUME NEW n \in Node, NEW s, Sound(s, n), NEW seq \in Seqnum,
         s.accept_log[seq] # NoEntry, NEW e \in Entry
  PROVE  LET u == Broadcast(s, n, [type |-> "Accept", from |-> n, to |-> n,
                                   seq |-> seq, e |-> e])
         IN Sound(u, n) /\ Kept(s, u)
<1> DEFINE m == [type |-> "Accept", from |-> n, to |-> n, seq |-> seq,
                 e |-> e]
           ms == {[m EXCEPT !.to = q] : q \in Peers(n)}
<1>1. \A x \in ms : /\ x \in Message /\ x.type = "Accept"
                    /\ x.from = n /\ x.seq = seq
  BY PeersAreNodes DEF Message
<1>2. ms \in SUBSET Message
  BY <1>1
<1> HIDE DEF ms
<1>3. Send(s, ms) \in NodeState
  BY <1>2 DEF Send, Sound, NodeState
<1>4. Sound(Send(s, ms), n) /\ Kept(s, Send(s, ms))
  BY <1>1, <1>3 DEF Sound, Send, NodeState, Kept
<1>. QED
  BY <1>4 DEF ms, Broadcast

LEMMA BroadcastCommitSound ==
  ASSUME NEW n \in Node, NEW s, Sound(s, n), NEW seq \in Seqnum,
         NEW c \in CommitRecord, NEW blank \in BOOLEAN
  PROVE  LET u == Broadcast(s, n, [type |-> "Commit", from |-> n, to |-> n,
                                   seq |-> seq, c |-> c, blank |-> blank])
         IN Sound(u, n) /\ Kept(s, u)
<1> DEFINE m == [type |-> "Commit", from |-> n, to |-> n, seq |-> seq,
                 c |-> c, blank |-> blank]
           ms == {[m EXCEPT !.to = q] : q \in Peers(n)}
<1>1. \A x \in ms : x \in Message /\ x.type = "Commit"
  BY PeersAreNodes DEF Message
<1>2. ms \in SUBSET Message
  BY <1>1
<1> HIDE DEF ms
<1>3. Sound(Send(s, ms), n) /\ Kept(s, Send(s, ms))
  BY <1>1, <1>2, SendSound
<1>. QED
  BY <1>3 DEF ms, Broadcast

LEMMA RecordCommitSound ==
  ASSUME NEW n \in Node, NEW s, Sound(s, n), NEW seq \in Seqnum,
         NEW c \in CommitRecord
  PROVE  Sound(RecordCommit(s, seq, c), n) /\ Kept(s, RecordCommit(s, seq, c))
<1>1. RecordCommit(s, seq, c) \in NodeState
  BY DEF RecordCommit, Sound, NodeState
<1>. QED
  BY <1>1 DEF Sound, RecordCommit, NodeState, Kept

LEMMA ExitedSound ==
  ASSUME NEW n \in Node, NEW s, Sound(s, n)
  PROVE  Sound(Exited(s), n) /\ Kept(s, Exited(s))
<1>1. Exited(s) \in NodeState
  BY DEF Exited, Sound, NodeState
<1>. QED
  BY <1>1 DEF Sound, Exited, NodeState, Kept

LEMMA ResolvedAccountType ==
  \A t \in Txn : \A p2 : ResolvedAccount(t, p2) \in Account
  BY ConstantsAssumption DEF ResolvedAccount

LEMMA StatusTypes ==
  /\ SecondPhase \subseteq Status
  /\ \A e \in Entry : e.txn \in Txn /\ e.status \in Status /\ e.counter \in Nat
                        /\ e.p2 \in SecondPhase \cup {""}
  /\ \A c \in CommitRecord : c.txn \in Txn /\ c.status \in Status
  BY DEF Status, SecondPhase, Entry, CommitRecord

LEMMA EntryIsEntry == NoEntry \notin Entry
  BY ConstantsAssumption DEF Entry, NoEntry

LEMMA ResolveSound ==
  ASSUME NEW n \in Node, NEW s, Sound(s, n), NEW seq \in Seqnum,
         NEW t \in Txn, NEW p2 \in SecondPhase
  PROVE  LET u == ExecuteRepeatedTwoPCEntry(s, n, seq, t, p2)
         IN Sound(u, n) /\ Kept(s, u)
<1> DEFINE w == s.wal[seq]
           a == ResolvedAccount(t, p2)
           log == [s.accept_log EXCEPT ![seq].p2 =
                     IF s.accept_log[seq] # NoEntry /\ @ = "" THEN p2 ELSE @]
           bal == [s.accounts EXCEPT ![a] =
                     IF UndoneBy(w, p2) THEN w.before_value ELSE @]
           locks == Unlocked(s.balance_locks, a)
           wal == [s.wal EXCEPT ![seq] = NoWal]
           r == s.resolved \cup {[node |-> n, txn |-> t, p2 |-> p2]}
           done == [s EXCEPT !.accept_log = log, !.accounts = bal,
                             !.balance_locks = locks, !.wal = wal,
                             !.resolved = r]
<1>1. a \in Account /\ w.before_value \in Int
  BY ResolvedAccountType DEF Sound, NodeState, WalRecord
<1>2. /\ log \in [Seqnum -> Entry \cup {NoEntry}]
      /\ \A x \in Seqnum : s.accept_log[x] # NoEntry => log[x] # NoEntry
  <2>1. s.accept_log \in [Seqnum -> Entry \cup {NoEntry}]
    BY DEF Sound, NodeState
  <2>2. CASE s.accept_log[seq] = NoEntry
    <3>1. log[seq] = NoEntry
      BY <2>1, <2>2 DEF NoEntry
    <3>. QED
      BY <2>1, <2>2, <3>1
  <2>3. CASE s.accept_log[seq] # NoEntry
    <3>1. log[seq] \in Entry
      BY <2>1, <2>3 DEF Entry
    <3>. QED
      BY <2>1, <3>1, EntryIsEntry
  <2>. QED
    BY <2>2, <2>3
<1>3. /\ bal \in [Account -> Int]
      /\ locks \in SUBSET Account
      /\ wal \in [Seqnum -> WalRecord]
      /\ r \in SUBSET Resolution
  <2>1. Unlocked(s.balance_locks, a) \in SUBSET Account
    BY DEF Unlocked, Sound, NodeState
  <2>2. NoWal \in WalRecord
    BY DEF NoWal, WalRecord
  <2>3. [node |-> n, txn |-> t, p2 |-> p2] \in Resolution
    BY DEF Resolution
  <2>. QED
    BY <1>1, <2>1, <2>2, <2>3 DEF Sound, NodeState
<1>4. ExecuteRepeatedTwoPCEntry(s, n, seq, t, p2) =
        CASE ~ s.leads -> done
          [] s.leads /\ p2 \in {"C_COORD", "A_COORD"} ->
               [done EXCEPT !.told =
                   @ \cup {[txn |-> t, success |-> p2 = "C_COORD"]}]
          [] s.leads /\ p2 \in {"C", "A_PART_COMMIT"} ->
               Send(done, {TwoPCMsg(IF p2 = "C" THEN "COMMITTED" ELSE p2,
                                    s.cluster_leaders[CoordCluster(t)], t)})
  BY DEF ExecuteRepeatedTwoPCEntry, Sound, NodeState
<1> HIDE DEF log, bal, locks, wal, r
<1>5. done \in NodeState
  BY <1>2, <1>3 DEF Sound, NodeState
<1>6. Sound(done, n) /\ Kept(s, done)
  <2>1. /\ done.accept_log = log /\ done.out = s.out
        /\ done.digest_to_seqnum = s.digest_to_seqnum
        /\ done.in_flight_prepares = s.in_flight_prepares
    BY DEF Sound, NodeState
  <2> HIDE DEF done
  <2>. QED
    BY <1>2, <1>5, <2>1, SameAnchors DEF Kept
<1> HIDE DEF done
<1>7. \A x \in Reply :
         LET u == [done EXCEPT !.told = @ \cup {x}]
         IN Sound(u, n) /\ Kept(done, u)
  <2> SUFFICES ASSUME NEW x \in Reply
               PROVE  LET u == [done EXCEPT !.told = @ \cup {x}]
                      IN Sound(u, n) /\ Kept(done, u)
    OBVIOUS
  <2>1. [done EXCEPT !.told = @ \cup {x}] \in NodeState
    BY <1>5 DEF NodeState
  <2>. QED
    BY <1>5, <1>6, <2>1 DEF Sound, NodeState, Kept
<1>8. CoordCluster(t) \in Cluster /\ s.cluster_leaders \in [Cluster -> Node]
  BY ConstantsAssumption DEF CoordCluster, Sound, NodeState
<1>9. CASE ~ s.leads
  BY <1>4, <1>6, <1>9
<1>10. CASE s.leads /\ p2 \in {"C_COORD", "A_COORD"}
  <2>1. [txn |-> t, success |-> p2 = "C_COORD"] \in Reply
    BY DEF Reply
  <2>2. ExecuteRepeatedTwoPCEntry(s, n, seq, t, p2) =
          [done EXCEPT !.told =
              @ \cup {[txn |-> t, success |-> p2 = "C_COORD"]}]
    BY <1>4, <1>10
  <2>. QED
    BY <1>6, <1>7, <2>1, <2>2 DEF Kept
<1>11. CASE s.leads /\ p2 \in {"C", "A_PART_COMMIT"}
  <2> DEFINE x == TwoPCMsg(IF p2 = "C" THEN "COMMITTED" ELSE p2,
                           s.cluster_leaders[CoordCluster(t)], t)
  <2>1. x \in Message /\ x.type = "TwoPC"
    BY <1>8, <1>11 DEF TwoPCMsg, Message, Confirmation
  <2>2. ExecuteRepeatedTwoPCEntry(s, n, seq, t, p2) = Send(done, {x})
    BY <1>4, <1>11
  <2> HIDE DEF x
  <2>3. Sound(Send(done, {x}), n) /\ Kept(done, Send(done, {x}))
    BY <1>6, <2>1, SendSound
  <2>. QED
    BY <1>6, <2>2, <2>3 DEF Kept
<1>12. s.leads \in BOOLEAN
  BY DEF Sound, NodeState
<1>. QED
  BY <1>9, <1>10, <1>11, <1>12 DEF SecondPhase

LEMMA ExecuteSound ==
  ASSUME NEW n \in Node, NEW s, Sound(s, n), NEW seq \in Seqnum,
         NEW t \in Txn, NEW status
  PROVE  LET u == ExecuteTransaction(s, seq, t, status)
         IN Sound(u, n) /\ Kept(s, u)
<1> DEFINE f == From[t]
           r == To[t]
           unlocked == [s EXCEPT !.balance_locks = @ \ {f, r}]
           logged(a, new) == [s EXCEPT
             !.accounts[a] = new,
             !.wal[seq] = [before_value |-> s.accounts[a],
                           after_value |-> new, written |-> TRUE]]
           debited == [s.accounts EXCEPT ![f] = @ - Amount[t]]
           paid == [unlocked EXCEPT !.accounts = Transferred(s.accounts, t)]
<1>1. s \in NodeState /\ f \in Account /\ r \in Account /\ Amount[t] \in Int
  BY ConstantsAssumption DEF Sound
<1>2. ASSUME NEW u \in NodeState, u.accept_log = s.accept_log, u.out = s.out,
             u.digest_to_seqnum = s.digest_to_seqnum,
             u.in_flight_prepares = s.in_flight_prepares
      PROVE  Sound(u, n) /\ Kept(s, u)
  <2>1. Kept(s, u)
    BY <1>2 DEF Kept
  <2>. QED
    BY <1>2, <2>1, SameAnchors
<1>3. Sound(unlocked, n) /\ Kept(s, unlocked)
  <2>1. unlocked \in NodeState
    BY <1>1 DEF NodeState
  <2>2. /\ unlocked.accept_log = s.accept_log /\ unlocked.out = s.out
        /\ unlocked.digest_to_seqnum = s.digest_to_seqnum
        /\ unlocked.in_flight_prepares = s.in_flight_prepares
    BY <1>1 DEF NodeState
  <2> HIDE DEF unlocked
  <2>. QED
    BY <1>2, <2>1, <2>2
<1>4. Sound(paid, n) /\ Kept(s, paid)
  <2>1. paid \in NodeState
    <3>1. unlocked \in NodeState
      BY <1>3 DEF Sound
    <3>2. s.accounts \in [Account -> Int]
      BY <1>1 DEF NodeState
    <3>3. debited \in [Account -> Int]
      BY <1>1, <3>2
    <3> HIDE DEF debited
    <3>4. Transferred(s.accounts, t) \in [Account -> Int]
      BY <1>1, <3>3 DEF Transferred, debited
    <3> HIDE DEF unlocked
    <3>. QED
      BY <3>1, <3>4 DEF NodeState
  <2>2. /\ paid.accept_log = s.accept_log /\ paid.out = s.out
        /\ paid.digest_to_seqnum = s.digest_to_seqnum
        /\ paid.in_flight_prepares = s.in_flight_prepares
    BY <1>1 DEF NodeState
  <2> HIDE DEF paid
  <2>. QED
    BY <1>2, <2>1, <2>2
<1>5. ASSUME NEW a \in Account, NEW new \in Int
      PROVE  Sound(logged(a, new), n) /\ Kept(s, logged(a, new))
  <2>1. [before_value |-> s.accounts[a], after_value |-> new,
         written |-> TRUE] \in WalRecord
    BY <1>1, <1>5 DEF WalRecord, NodeState
  <2>2. logged(a, new) \in NodeState
    BY <1>1, <1>5, <2>1 DEF NodeState
  <2>3. /\ logged(a, new).accept_log = s.accept_log
        /\ logged(a, new).out = s.out
        /\ logged(a, new).digest_to_seqnum = s.digest_to_seqnum
        /\ logged(a, new).in_flight_prepares = s.in_flight_prepares
    BY <1>1 DEF NodeState
  <2> HIDE DEF logged
  <2>. QED
    BY <1>2, <2>2, <2>3
<1>6. Sound(s, n) /\ Kept(s, s)
  BY DEF Kept
<1>7. /\ s.accounts[r] + Amount[t] \in Int
      /\ s.accounts[f] - Amount[t] \in Int
  <2>1. s.accounts \in [Account -> Int]
    BY <1>1 DEF NodeState
  <2>. QED
    BY <1>1, <2>1
<1>8. ExecuteTransaction(s, seq, t, status) \in
        {paid, unlocked, logged(r, s.accounts[r] + Amount[t]),
         logged(f, s.accounts[f] - Amount[t]), s}
  <2>1. [unlocked EXCEPT !.accounts = Transferred(@, t)] = paid
    BY <1>1 DEF NodeState
  <2>. QED
    BY <2>1 DEF ExecuteTransaction
<1> HIDE DEF paid, unlocked, logged
<1>. QED
  BY <1>1, <1>3, <1>4, <1>5, <1>6, <1>7, <1>8

LEMMA StartSecondPhaseSound ==
  ASSUME NEW n \in Node, NEW s, Sound(s, n), NEW t \in Txn, NEW what \in Vote
  PROVE  LET u == StartSecondPhase(s, n, t, what)
         IN Sound(u, n) /\ Kept(s, u)
<1> DEFINE seq == s.digest_to_seqnum[t]
           prepares == [s.in_flight_prepares EXCEPT ![t].completed = TRUE]
           marked == [s EXCEPT !.in_flight_prepares = prepares,
                               !.in_flight_transactions = @ \cup {t}]
           x == TwoPCMsg(IF what = "ABORT" THEN "ABORT" ELSE "COMMIT",
                         s.cluster_leaders[PartCluster(t)], t)
           decided == IF PartCluster(t) = ClusterOf[n] THEN s
                      ELSE Send(marked, {x})
           e == [txn |-> t, status |-> Outcome(n, t, what), p2 |-> "",
                 counter |-> s.accept_log[seq].counter]
           u == [decided EXCEPT
                   !.accept_log[seq] = e,
                   !.accepted_count_two_pc_commit =
                       @ \cup {<<seq, e.counter, n>>}]
<1>1. s \in NodeState
  BY DEF Sound
<1>2. /\ s.digest_to_seqnum \in [Txn -> 0 .. MaxSeq]
      /\ s.accept_log \in [Seqnum -> Entry \cup {NoEntry}]
      /\ s.cluster_leaders \in [Cluster -> Node]
      /\ PartCluster(t) \in Cluster
  BY <1>1, ConstantsAssumption, ZenonT(60) DEF NodeState, PartCluster
<1>3. Sound(marked, n) /\ Kept(s, marked)
  <2>0. /\ prepares \in [Txn -> [sent : BOOLEAN, completed : BOOLEAN,
                                 retries : {0, 1}]]
        /\ \A y \in Txn : prepares[y].sent = s.in_flight_prepares[y].sent
    <3>1. s.in_flight_prepares \in [Txn -> [sent : BOOLEAN,
                                    completed : BOOLEAN, retries : {0, 1}]]
      BY <1>1 DEF NodeState
    <3>. QED
      BY <3>1
  <2> HIDE DEF prepares
  <2>1. marked \in NodeState
    BY <1>1, <2>0 DEF NodeState
  <2>2. /\ marked.accept_log = s.accept_log /\ marked.out = s.out
        /\ marked.digest_to_seqnum = s.digest_to_seqnum
        /\ marked.in_flight_prepares = prepares
    BY <1>1 DEF NodeState
  <2> HIDE DEF marked
  <2>. QED
    BY <2>0, <2>1, <2>2 DEF Sound, Kept
<1>4. Sound(decided, n) /\ Kept(s, decided)
      /\ decided.accept_log = s.accept_log
      /\ decided.digest_to_seqnum = s.digest_to_seqnum
  <2>1. x \in Message /\ x.type = "TwoPC"
    BY <1>2 DEF TwoPCMsg, Message, Vote
  <2>2. /\ marked.accept_log = s.accept_log
        /\ marked.digest_to_seqnum = s.digest_to_seqnum
        /\ marked \in NodeState
    BY <1>1, <1>3 DEF NodeState, Sound
  <2> HIDE DEF marked, x
  <2>3. Sound(Send(marked, {x}), n)
    BY <1>3, <2>1, SendSound
  <2>4. /\ Send(marked, {x}).accept_log = s.accept_log
        /\ Send(marked, {x}).digest_to_seqnum = s.digest_to_seqnum
    BY <2>2 DEF Send, NodeState
  <2>. QED
    BY <2>3, <2>4 DEF Kept
<1> HIDE DEF decided
<1>5. CASE seq = 0
  BY <1>4, <1>5 DEF StartSecondPhase, decided
<1>6. CASE seq # 0
  <2>1. seq \in Seqnum
    BY <1>2, <1>6, ConstantsAssumption DEF Seqnum
  <2>2. s.accept_log[seq].counter \in Nat
    <3> HIDE DEF seq
    <3>1. s.accept_log[seq] \in Entry \/ s.accept_log[seq] = NoEntry
      BY <1>2, <2>1
    <3>2. NoEntry.counter = 0 /\ \A y \in Entry : y.counter \in Nat
      BY DEF Entry, NoEntry
    <3>. QED
      BY <3>1, <3>2
  <2>3. e \in Entry
    BY <2>2 DEF Entry, Outcome, Status, SecondPhase
  <2>4. <<seq, e.counter, n>> \in Seqnum \X Nat \X Node
    BY <2>1, <2>2
  <2> HIDE DEF seq
  <2>5. StartSecondPhase(s, n, t, what) =
          Broadcast(u, n, [type |-> "Accept", from |-> n, to |-> n,
                           seq |-> seq, e |-> e])
    BY <1>6 DEF StartSecondPhase, seq, decided
  <2> HIDE DEF e
  <2>6. decided \in NodeState
    BY <1>4 DEF Sound
  <2>7. u \in NodeState
    BY <2>1, <2>3, <2>4, <2>6 DEF NodeState
  <2>8. /\ u.accept_log = [s.accept_log EXCEPT ![seq] = e]
        /\ u.out = decided.out
        /\ u.digest_to_seqnum = decided.digest_to_seqnum
        /\ u.in_flight_prepares = decided.in_flight_prepares
    BY <1>4, <2>6 DEF NodeState
  <2> HIDE DEF u
  <2>9. u.accept_log[seq] # NoEntry /\ Kept(decided, u)
    BY <1>2, <1>4, <2>1, <2>3, <2>8, EntryIsEntry DEF Kept
  <2>10. Sound(u, n)
    BY <1>4, <2>7, <2>8, <2>9, SameAnchors
  <2>. QED
    BY <1>4, <2>1, <2>3, <2>5, <2>9, <2>10, BroadcastAcceptSound DEF Kept
<1>. QED
  BY <1>5, <1>6

LEMMA AfterExecutionSound ==
  ASSUME NEW n \in Node, NEW s, Sound(s, n), NEW seq \in Seqnum,
         NEW t \in Txn, NEW status, NEW success \in BOOLEAN
  PROVE  LET u == AfterExecution(s, n, seq, t, status, success)
         IN Sound(u, n) /\ Kept(s, u)
<1> DEFINE closed == [s EXCEPT !.pending_client_calls = @ \ {seq},
                               !.blank_votes = @ \ {seq}]
           u == IF /\ seq > s.max_seqnum_in_new_view
                   /\ seq \in s.pending_client_calls
                THEN closed ELSE s
           parked == ParkedVote(s, t)
           taken == [u EXCEPT !.prepare_and_aborted_queue[t] = ""]
           x == TwoPCMsg(IF status = "A" THEN "ABORT" ELSE "PREPARED",
                         s.cluster_leaders[CoordCluster(t)], t)
           told == [u EXCEPT !.told =
                      @ \cup {[txn |-> t, success |-> success]}]
           dropped == [s EXCEPT !.blank_votes = @ \ {seq}]
<1>1. s \in NodeState
  BY DEF Sound
<1>2. Sound(u, n) /\ Kept(s, u) /\ u \in NodeState
  <2>1. closed \in NodeState
    BY <1>1 DEF NodeState
  <2>2. /\ closed.accept_log = s.accept_log /\ closed.out = s.out
        /\ closed.digest_to_seqnum = s.digest_to_seqnum
        /\ closed.in_flight_prepares = s.in_flight_prepares
    BY <1>1 DEF NodeState
  <2> HIDE DEF closed
  <2>3. Sound(closed, n) /\ Kept(s, closed)
    BY <2>1, <2>2, SameAnchors DEF Kept
  <2>. QED
    BY <1>1, <2>1, <2>3 DEF Kept
<1> HIDE DEF u
<1>3. Sound(Send(u, {x}), n) /\ Kept(s, Send(u, {x}))
  <2>1. CoordCluster(t) \in Cluster /\ s.cluster_leaders \in [Cluster -> Node]
    BY <1>1, ConstantsAssumption, ZenonT(60) DEF CoordCluster, NodeState
  <2>2. x \in Message /\ x.type = "TwoPC"
    BY <2>1 DEF TwoPCMsg, Message, Vote
  <2> HIDE DEF x
  <2>. QED
    BY <1>2, <2>2, SendSound DEF Kept
<1>4. Sound(told, n) /\ Kept(s, told)
  <2>1. [txn |-> t, success |-> success] \in Reply
    BY DEF Reply
  <2>2. told \in NodeState
    BY <1>2, <2>1 DEF NodeState
  <2>3. /\ told.accept_log = u.accept_log /\ told.out = u.out
        /\ told.digest_to_seqnum = u.digest_to_seqnum
        /\ told.in_flight_prepares = u.in_flight_prepares
    BY <1>2 DEF NodeState
  <2> HIDE DEF told
  <2>. QED
    BY <1>2, <2>2, <2>3, SameAnchors DEF Kept
<1>5. Sound(taken, n) /\ Kept(s, taken)
  <2>1. taken \in NodeState
    BY <1>2 DEF NodeState
  <2>2. /\ taken.accept_log = u.accept_log /\ taken.out = u.out
        /\ taken.digest_to_seqnum = u.digest_to_seqnum
        /\ taken.in_flight_prepares = u.in_flight_prepares
    BY <1>2 DEF NodeState
  <2> HIDE DEF taken
  <2>. QED
    BY <1>2, <2>1, <2>2, SameAnchors DEF Kept
<1>6. parked = "" \/ parked \in Vote
  BY <1>1 DEF ParkedVote, NodeState
<1>7. parked # "" => /\ Sound(StartSecondPhase(taken, n, t, parked), n)
                     /\ Kept(s, StartSecondPhase(taken, n, t, parked))
  <2> HIDE DEF taken, parked
  <2>. QED
    BY <1>5, <1>6, StartSecondPhaseSound DEF Kept
<1>8. AfterExecution(s, n, seq, t, status, success) \in
        {dropped, u, Send(u, {x}), told}
      \/ /\ parked # ""
         /\ AfterExecution(s, n, seq, t, status, success)
              = StartSecondPhase(taken, n, t, parked)
  BY DEF AfterExecution, u
<1>9. Sound(dropped, n) /\ Kept(s, dropped)
  <2>1. dropped \in NodeState
    BY <1>1 DEF NodeState
  <2>2. /\ dropped.accept_log = s.accept_log /\ dropped.out = s.out
        /\ dropped.digest_to_seqnum = s.digest_to_seqnum
        /\ dropped.in_flight_prepares = s.in_flight_prepares
    BY <1>1 DEF NodeState
  <2> HIDE DEF dropped
  <2>. QED
    BY <2>1, <2>2, SameAnchors DEF Kept
<1> HIDE DEF parked, taken, told, x, dropped
<1>. QED
  BY <1>2, <1>3, <1>4, <1>7, <1>8, <1>9

LEMMA ExecuteNextSound ==
  ASSUME NEW n \in Node, NEW s, Sound(s, n)
  PROVE  Sound(ExecuteNext(s, n), n) /\ Kept(s, ExecuteNext(s, n))
<1> DEFINE seq == s.last_executed_seq + 1
           c == s.entries_to_commit[seq]
           moved == [s EXCEPT !.last_executed_seq = seq]
           ran == ExecuteTransaction(moved, seq, c.txn, c.status)
           p2 == s.accept_log[seq].p2
           resolved == IF p2 = "" THEN ran
                       ELSE ExecuteRepeatedTwoPCEntry(ran, n, seq, c.txn, p2)
<1>1. s \in NodeState
  BY DEF Sound
<1>2. CASE seq \notin Seqnum \/ c = NoCommit
  BY <1>2 DEF ExecuteNext, Kept
<1>3. CASE seq \in Seqnum /\ c # NoCommit
  <2>1. c \in CommitRecord
    BY <1>1, <1>3 DEF NodeState
  <2>2. c.txn \in Txn
    BY <2>1 DEF CommitRecord
  <2>3. p2 = "" \/ p2 \in SecondPhase
    <3>1. s.accept_log \in [Seqnum -> Entry \cup {NoEntry}]
      BY <1>1 DEF NodeState
    <3> HIDE DEF seq
    <3>2. s.accept_log[seq] \in Entry \/ s.accept_log[seq] = NoEntry
      BY <1>3, <3>1
    <3>3. NoEntry.p2 = "" /\ \A y \in Entry : y.p2 \in SecondPhase \cup {""}
      BY DEF Entry, NoEntry
    <3>. QED
      BY <3>2, <3>3
  <2>4. Sound(moved, n) /\ Kept(s, moved)
    <3>1. seq \in 0 .. MaxSeq
      BY <1>3, ConstantsAssumption DEF Seqnum
    <3> HIDE DEF seq
    <3>2. moved \in NodeState
      BY <1>1, <3>1 DEF NodeState
    <3>3. /\ moved.accept_log = s.accept_log /\ moved.out = s.out
          /\ moved.digest_to_seqnum = s.digest_to_seqnum
          /\ moved.in_flight_prepares = s.in_flight_prepares
      BY <1>1 DEF NodeState
    <3> HIDE DEF moved
    <3>. QED
      BY <3>2, <3>3, SameAnchors DEF Kept
  <2>5. ExecuteNext(s, n) =
          AfterExecution(resolved, n, seq, c.txn, c.status,
                         Sufficient(s, c.txn) /\ c.status # "A")
    BY <1>3 DEF ExecuteNext
  <2> HIDE DEF seq, c, moved, p2
  <2>6. Sound(ran, n) /\ Kept(s, ran)
    BY <1>3, <2>2, <2>4, ExecuteSound DEF Kept
  <2> HIDE DEF ran
  <2>7. Sound(resolved, n) /\ Kept(s, resolved)
    BY <1>3, <2>2, <2>3, <2>6, ResolveSound DEF Kept
  <2> HIDE DEF resolved
  <2>8. (Sufficient(s, c.txn) /\ c.status # "A") \in BOOLEAN
    OBVIOUS
  <2>. QED
    BY <1>3, <2>2, <2>5, <2>7, <2>8, AfterExecutionSound DEF Kept
<1>. QED
  BY <1>2, <1>3

\* Every nonempty set of naturals has a least element.
LEMMA LeastElement ==
  ASSUME NEW S \in SUBSET Nat, S # {}
  PROVE  \E k \in S : \A i \in S : k <= i
<1> DEFINE Less == OpToRel(<, Nat)
<1>1. IsWellFoundedOn(Less, Nat)
  BY NatLessThanWellFounded
<1>2. \A y, z \in Nat : y < z => <<y, z>> \in Less
  BY DEF OpToRel
<1> HIDE DEF Less
<1>3. PICK k \in S : \A i \in S : ~ (<<i, k>> \in Less)
  BY <1>1, WFMin
<1>4. ASSUME NEW i \in S PROVE k <= i
  <2>1. k \in Nat /\ i \in Nat
    OBVIOUS
  <2>2. ~ (i < k)
    BY <1>2, <1>3, <2>1, Zenon
  <2>. QED
    BY <2>1, <2>2
<1>. QED
  BY <1>4

\* The function that the loop is defined by exists.
LEMMA LoopExists ==
  ASSUME NEW n, NEW s
  PROVE  \E f : f = [i \in 0 .. MaxSeq |->
                       IF i = 0 THEN s ELSE ExecuteNext(f[i - 1], n)]
<1> DEFINE Upto(k, f) == f = [i \in 0 .. k |->
                       IF i = 0 THEN s ELSE ExecuteNext(f[i - 1], n)]
           Bad == {k \in 0 .. MaxSeq : ~ \E f : Upto(k, f)}
<1>1. MaxSeq \in 0 .. MaxSeq /\ MaxSeq \in Nat
  BY ConstantsAssumption
<1>2. ASSUME NEW k \in Bad, \A i \in Bad : k <= i PROVE FALSE
  <2>1. k \in Nat /\ k \in 0 .. MaxSeq
    BY <1>1, <1>2
  <2>2. k # 0
    <3>1. Upto(0, [i \in 0 .. 0 |-> s])
      OBVIOUS
    <3> HIDE DEF Upto
    <3>. QED
      BY <1>2, <3>1
  <2>3. k - 1 \in 0 .. MaxSeq /\ k - 1 \notin Bad
    BY <1>1, <1>2, <2>1, <2>2
  <2>4. PICK f : Upto(k - 1, f)
    <3> HIDE DEF Upto
    <3>. QED
      BY <2>3
  <2> DEFINE g == [i \in 0 .. k |->
                     IF i = 0 THEN s ELSE ExecuteNext(f[i - 1], n)]
  <2>5. \A i \in 0 .. k : i # 0 => i - 1 \in 0 .. k - 1 /\ i - 1 \in 0 .. k
    BY <2>1
  <2>6. \A i \in 0 .. k - 1 : i \in 0 .. k
    BY <2>1
  <2>7. \A i \in 0 .. k - 1 :
          f[i] = IF i = 0 THEN s ELSE ExecuteNext(f[i - 1], n)
    BY <2>4
  <2>8. \A i \in 0 .. k :
          g[i] = IF i = 0 THEN s ELSE ExecuteNext(f[i - 1], n)
    OBVIOUS
  <2>9. \A i \in 0 .. k - 1 : g[i] = f[i]
    <3> HIDE DEF g
    <3>. QED
      BY <2>6, <2>7, <2>8
  <2>10. \A i \in 0 .. k :
           (IF i = 0 THEN s ELSE ExecuteNext(f[i - 1], n))
             = (IF i = 0 THEN s ELSE ExecuteNext(g[i - 1], n))
    <3> HIDE DEF g
    <3>. QED
      BY <2>5, <2>9
  <2>11. Upto(k, g)
    <3> DEFINE h == [i \in 0 .. k |->
                       IF i = 0 THEN s ELSE ExecuteNext(g[i - 1], n)]
    <3>1. g = h
      BY <2>10
    <3>. QED
      BY <3>1
  <2> HIDE DEF Upto, g
  <2>. QED
    BY <1>2, <2>11
<1>3. Bad = {}
  <2>1. Bad \in SUBSET Nat
    BY <1>1
  <2> HIDE DEF Bad
  <2>. QED
    BY <1>2, <2>1, LeastElement
<1>4. PICK f : Upto(MaxSeq, f)
  <2> HIDE DEF Upto
  <2>. QED
    BY <1>1, <1>3
<1>. QED
  BY <1>4

\* What the loop computes: a chain of rounds from s to the result.
LEMMA LoopIsChain ==
  ASSUME NEW n, NEW s
  PROVE  \E f : /\ f[0] = s
                /\ f[MaxSeq] = SequentiallyExecuteCommittedEntries(s, n)
                /\ \A i \in 1 .. MaxSeq : f[i] = ExecuteNext(f[i - 1], n)
<1> DEFINE after == CHOOSE f : f = [i \in 0 .. MaxSeq |->
                       IF i = 0 THEN s ELSE ExecuteNext(f[i - 1], n)]
<1>1. after = [i \in 0 .. MaxSeq |->
                 IF i = 0 THEN s ELSE ExecuteNext(after[i - 1], n)]
  BY LoopExists, ZenonT(60)
<1>2. after[MaxSeq] = SequentiallyExecuteCommittedEntries(s, n)
  BY DEF SequentiallyExecuteCommittedEntries
<1> HIDE DEF after
<1>3. 0 \in 0 .. MaxSeq /\ \A i \in 1 .. MaxSeq : i \in 0 .. MaxSeq /\ i # 0
  BY ConstantsAssumption
<1>4. after[0] = s /\ \A i \in 1 .. MaxSeq : after[i] = ExecuteNext(after[i - 1], n)
  BY <1>1, <1>3
<1>. QED
  BY <1>2, <1>4

LEMMA LoopSound ==
  ASSUME NEW n \in Node, NEW s, Sound(s, n)
  PROVE  LET u == SequentiallyExecuteCommittedEntries(s, n)
         IN Sound(u, n) /\ Kept(s, u)
<1>1. PICK f : /\ f[0] = s
               /\ f[MaxSeq] = SequentiallyExecuteCommittedEntries(s, n)
               /\ \A i \in 1 .. MaxSeq : f[i] = ExecuteNext(f[i - 1], n)
  BY LoopIsChain
<1> DEFINE Bad == {i \in 0 .. MaxSeq : ~ (Sound(f[i], n) /\ Kept(s, f[i]))}
<1>2. ASSUME NEW k \in Bad, \A i \in Bad : k <= i PROVE FALSE
  <2>1. k \in Nat /\ k \in 0 .. MaxSeq /\ MaxSeq \in Nat
    BY <1>2, ConstantsAssumption
  <2>2. k # 0
    BY <1>1, <1>2 DEF Kept
  <2>3. k \in 1 .. MaxSeq /\ k - 1 \in 0 .. MaxSeq /\ ~ (k <= k - 1)
    BY <2>1, <2>2
  <2>4. Sound(f[k - 1], n) /\ Kept(s, f[k - 1])
    BY <1>2, <2>3
  <2>5. Sound(f[k], n) /\ Kept(f[k - 1], f[k])
    BY <1>1, <2>3, <2>4, ExecuteNextSound
  <2>6. Kept(s, f[k])
    BY <2>4, <2>5 DEF Kept
  <2>. QED
    BY <1>2, <2>5, <2>6
<1>3. Bad = {}
  <2>1. Bad \in SUBSET Nat
    BY ConstantsAssumption
  <2> HIDE DEF Bad
  <2>. QED
    BY <1>2, <2>1, LeastElement
<1>4. MaxSeq \in 0 .. MaxSeq
  BY ConstantsAssumption
<1>. QED
  BY <1>1, <1>3, <1>4

LEMMA CommitEntrySound ==
  ASSUME NEW n \in Node, NEW s, Sound(s, n), NEW seq \in Seqnum,
         s.accept_log[seq] # NoEntry, NEW status \in Status
  PROVE  Sound(CommitEntry(s, n, seq, status), n)
         /\ Kept(s, CommitEntry(s, n, seq, status))
<1> DEFINE c == [txn |-> s.accept_log[seq].txn, status |-> status]
           blank == status \in SecondPhase /\ seq \in s.blank_votes
           r == RecordCommit(s, seq, c)
           u == Broadcast(r, n,
                  [type |-> "Commit", from |-> n, to |-> n, seq |-> seq,
                   c |-> c, blank |-> blank])
<1>1. c \in CommitRecord
  <2>1. s.accept_log[seq] \in Entry
    BY DEF Sound, NodeState
  <2>. QED
    BY <2>1 DEF Entry, CommitRecord
<1>2. blank \in BOOLEAN
  OBVIOUS
<1>3. c.txn \in Txn
  BY <1>1 DEF CommitRecord
<1>4. \/ CommitEntry(s, n, seq, status) \in
           {u, SequentiallyExecuteCommittedEntries(u, n), Exited(u)}
      \/ /\ status \in SecondPhase
         /\ CommitEntry(s, n, seq, status)
              = ExecuteRepeatedTwoPCEntry(u, n, seq, c.txn, status)
  BY DEF CommitEntry
<1> HIDE DEF c, blank
<1>5. Sound(r, n) /\ Kept(s, r)
  BY <1>1, RecordCommitSound
<1> HIDE DEF r
<1>6. Sound(u, n) /\ Kept(s, u)
  BY <1>1, <1>2, <1>5, BroadcastCommitSound DEF Kept
<1> HIDE DEF u
<1>. QED
  BY <1>3, <1>4, <1>6, LoopSound, ExitedSound, ResolveSound DEF Kept

LEMMA ProposeSound ==
  ASSUME NEW n \in Node, NEW s, NEW t \in Txn, SoundBut(s, n, t),
         NEW status \in Status, s.last_seqnum < MaxSeq
  PROVE  Sound(Propose(s, n, t, status), n)
         /\ Kept(s, Propose(s, n, t, status))
<1> DEFINE seq == s.last_seqnum + 1
           e == [txn |-> t, status |-> status, counter |-> s.counter,
                 p2 |-> ""]
           u == [s EXCEPT
                   !.pending_or_completed_ts = @ \cup {t},
                   !.last_seqnum = seq,
                   !.pending_client_calls = @ \cup {seq},
                   !.blank_votes = IF status = "A" THEN @ \cup {seq} ELSE @,
                   !.accepted_count = @ \cup {<<seq, s.counter, n>>},
                   !.accept_log[seq] = e,
                   !.digest_to_seqnum[t] = seq]
<1>1. s \in NodeState
  BY DEF SoundBut
<1>2. s.last_seqnum \in 0 .. MaxSeq /\ s.counter \in Nat
      /\ s.accept_log \in [Seqnum -> Entry \cup {NoEntry}]
      /\ s.digest_to_seqnum \in [Txn -> 0 .. MaxSeq]
  BY <1>1 DEF NodeState
<1>3. seq \in Seqnum /\ seq \in 0 .. MaxSeq /\ seq # 0
  BY <1>2, ConstantsAssumption DEF Seqnum
<1>4. e \in Entry
  BY <1>2 DEF Entry
<1>5. Propose(s, n, t, status) =
        Broadcast(u, n, [type |-> "Accept", from |-> n, to |-> n,
                         seq |-> seq, e |-> e])
  BY DEF Propose
<1>6. <<seq, s.counter, n>> \in Seqnum \X Nat \X Node
  BY <1>2, <1>3
<1> HIDE DEF seq, e
<1>7. u \in NodeState
  <2> DEFINE log == [s.accept_log EXCEPT ![seq] = e]
             digests == [s.digest_to_seqnum EXCEPT ![t] = seq]
             blanks == IF status = "A" THEN s.blank_votes \cup {seq}
                       ELSE s.blank_votes
  <2>1. /\ log \in [Seqnum -> Entry \cup {NoEntry}]
        /\ digests \in [Txn -> 0 .. MaxSeq]
    BY <1>2, <1>3, <1>4
  <2>2. blanks \in SUBSET Seqnum
    BY <1>1, <1>3 DEF NodeState
  <2>3. u = [s EXCEPT !.pending_or_completed_ts = @ \cup {t},
                      !.last_seqnum = seq,
                      !.pending_client_calls = @ \cup {seq},
                      !.blank_votes = blanks,
                      !.accepted_count = @ \cup {<<seq, s.counter, n>>},
                      !.accept_log = log,
                      !.digest_to_seqnum = digests]
    BY <1>1 DEF NodeState
  <2> HIDE DEF u, log, digests, blanks
  <2>. QED
    BY <1>1, <1>3, <1>6, <2>1, <2>2, <2>3, ZenonT(60) DEF NodeState
<1>8. /\ u.accept_log = [s.accept_log EXCEPT ![seq] = e]
      /\ u.out = s.out
      /\ u.digest_to_seqnum = [s.digest_to_seqnum EXCEPT ![t] = seq]
      /\ u.in_flight_prepares = s.in_flight_prepares
  BY <1>1 DEF NodeState
<1> HIDE DEF u
<1>9. u.accept_log[seq] # NoEntry /\ Kept(s, u)
  BY <1>2, <1>3, <1>4, <1>8, EntryIsEntry DEF Kept
<1>10. \A x \in s.out : x.type = "Accept" => x.seq \in Seqnum
  BY <1>1 DEF NodeState, Message
<1>11. \A y \in Txn : s.digest_to_seqnum[y] # 0 => s.digest_to_seqnum[y] \in Seqnum
  BY <1>2, ConstantsAssumption DEF Seqnum
<1>12. Sound(u, n)
  <2>1. \A y \in Txn : u.digest_to_seqnum[y] # 0 =>
          u.accept_log[u.digest_to_seqnum[y]] # NoEntry
    BY <1>2, <1>8, <1>9, <1>11 DEF SoundBut, Kept
  <2>2. \A y \in Txn : u.in_flight_prepares[y].sent => u.digest_to_seqnum[y] # 0
    BY <1>2, <1>3, <1>8 DEF SoundBut
  <2>. QED
    BY <1>7, <1>8, <1>9, <1>10, <2>1, <2>2 DEF Sound, SoundBut, Kept
<1>. QED
  BY <1>3, <1>4, <1>5, <1>9, <1>12, BroadcastAcceptSound DEF Kept

-----------------------------------------------------------------------------
\* A handler that ends in a sound state keeps the types.

BoundsTyped ==
  /\ timeouts \in 0 .. MaxTimeouts
  /\ kills \in 0 .. MaxKills
  /\ move_ons \in 0 .. MaxMoveOns

LEMMA FinishTyped ==
  ASSUME TypeInv, NEW n \in Node, NEW u, Sound(u, n), Kept(node[n], u),
         NEW acks \in SUBSET Message, NEW s \in NodeState, NEW used,
         s.accept_log = u.accept_log, s.out = u.out \cup acks,
         s.digest_to_seqnum = u.digest_to_seqnum,
         s.in_flight_prepares = u.in_flight_prepares,
         \A m \in acks : /\ m.type = "Ack"
                         /\ node[m.to].accept_log[m.seq] # NoEntry,
         Finish(n, s, used), BoundsTyped'
  PROVE  TypeInv'
<1> DEFINE r == [s EXCEPT !.out = {}, !.told = {}, !.resolved = {}]
<1>1. /\ r \in NodeState /\ r.out = {} /\ r.told = {} /\ r.resolved = {}
      /\ r.accept_log = u.accept_log
      /\ r.digest_to_seqnum = u.digest_to_seqnum
      /\ r.in_flight_prepares = u.in_flight_prepares
  BY DEF NodeState
<1>2. node \in [Node -> NodeState] /\ node' = [node EXCEPT ![n] = r]
  BY DEF TypeInv, TypeOK, Finish
<1> HIDE DEF r
<1>3. Sound(r, n)
  BY <1>1 DEF Sound
<1>4. /\ s.out \subseteq Message /\ s.told \subseteq Reply
      /\ s.resolved \subseteq Resolution
  BY DEF NodeState
<1>5. TypeOK'
  BY <1>1, <1>2, <1>4 DEF TypeInv, TypeOK, Finish, BoundsTyped
<1>6. \A q \in Node : Kept(node[q], node'[q])
  BY <1>1, <1>2 DEF Kept
<1>7. \A m \in msgs' : Backed(m)'
  <2> SUFFICES ASSUME NEW m \in msgs' PROVE Backed(m)'
    OBVIOUS
  <2>1. m \in Message
    BY <1>5 DEF TypeOK
  <2>2. /\ m.type = "Accept" => m.from \in Node /\ m.seq \in Seqnum
        /\ m.type = "Ack" => m.to \in Node /\ m.seq \in Seqnum
    BY <2>1 DEF Message
  <2>3. CASE m \in msgs
    BY <1>6, <2>2, <2>3 DEF TypeInv, Backed, Kept
  <2>4. CASE m \in acks
    BY <1>6, <2>2, <2>4 DEF Backed, Kept
  <2>5. CASE m \in u.out
    BY <1>1, <1>2, <2>2, <2>5 DEF Backed, Sound
  <2>. QED
    BY <2>3, <2>4, <2>5 DEF Finish
<1>. QED
  BY <1>1, <1>2, <1>3, <1>5, <1>7 DEF TypeInv

LEMMA FinishSound ==
  ASSUME TypeInv, NEW n \in Node, NEW s, Sound(s, n), Kept(node[n], s),
         NEW used, Finish(n, s, used), BoundsTyped'
  PROVE  TypeInv'
<1>1. s \in NodeState /\ s.out = s.out \cup {}
  BY DEF Sound
<1>2. {} \in SUBSET Message
  OBVIOUS
<1>3. \A m \in {} : m.type = "Ack" /\ node[m.to].accept_log[m.seq] # NoEntry
  OBVIOUS
<1>. QED
  BY <1>1, <1>2, <1>3, FinishTyped, Zenon

-----------------------------------------------------------------------------
\* The actions.

LEMMA NodeFacts ==
  ASSUME TypeInv, NEW n \in Node
  PROVE  /\ node[n] \in NodeState /\ Sound(node[n], n)
         /\ Kept(node[n], node[n])
         /\ node[n].cluster_leaders \in [Cluster -> Node]
         /\ node[n].last_seqnum \in 0 .. MaxSeq
         /\ node[n].accept_log \in [Seqnum -> Entry \cup {NoEntry}]
         /\ node[n].counter \in Nat
         /\ BoundsTyped
<1>1. node[n] \in NodeState
  BY DEF TypeInv, TypeOK
<1>. QED
  BY <1>1 DEF TypeInv, TypeOK, NodeState, Kept, BoundsTyped

\* A field that Sound does not speak of may change.
LEMMA LockSound ==
  ASSUME NEW n \in Node, NEW s, Sound(s, n), NEW locks \in SUBSET Account
  PROVE  LET u == [s EXCEPT !.balance_locks = locks]
         IN /\ Sound(u, n) /\ Kept(s, u)
            /\ u.last_seqnum = s.last_seqnum
            /\ u.cluster_leaders = s.cluster_leaders
<1> DEFINE u == [s EXCEPT !.balance_locks = locks]
<1>1. s \in NodeState
  BY DEF Sound
<1>2. /\ u \in NodeState /\ u.accept_log = s.accept_log /\ u.out = s.out
      /\ u.digest_to_seqnum = s.digest_to_seqnum
      /\ u.in_flight_prepares = s.in_flight_prepares
      /\ u.last_seqnum = s.last_seqnum
      /\ u.cluster_leaders = s.cluster_leaders
  BY <1>1 DEF NodeState
<1> HIDE DEF u
<1>3. Sound(u, n) /\ Kept(s, u)
  BY <1>2, SameAnchors DEF Kept
<1>. QED
  BY <1>2, <1>3 DEF u

LEMMA LeaderSound ==
  ASSUME NEW n \in Node, NEW s, Sound(s, n), NEW c \in Cluster,
         NEW q \in Node
  PROVE  LET u == [s EXCEPT !.cluster_leaders[c] = q]
         IN /\ Sound(u, n) /\ Kept(s, u)
            /\ u.last_seqnum = s.last_seqnum
            /\ u.balance_locks = s.balance_locks
<1> DEFINE u == [s EXCEPT !.cluster_leaders[c] = q]
<1>1. s \in NodeState
  BY DEF Sound
<1>2. /\ u \in NodeState /\ u.accept_log = s.accept_log /\ u.out = s.out
      /\ u.digest_to_seqnum = s.digest_to_seqnum
      /\ u.in_flight_prepares = s.in_flight_prepares
      /\ u.last_seqnum = s.last_seqnum
      /\ u.balance_locks = s.balance_locks
  BY <1>1 DEF NodeState
<1> HIDE DEF u
<1>3. Sound(u, n) /\ Kept(s, u)
  BY <1>2, SameAnchors DEF Kept
<1>. QED
  BY <1>2, <1>3 DEF u

LEMMA SoundIsSoundBut ==
  ASSUME NEW n, NEW s, NEW t, Sound(s, n)
  PROVE  SoundBut(s, n, t)
  BY DEF Sound, SoundBut

LEMMA ProcessClientRequestTyped ==
  ASSUME TypeInv, NEW n \in Node, NEW t \in Txn, ProcessClientRequest(n, t)
  PROVE  TypeInv'
<1> DEFINE s == node[n]
           locked == [s EXCEPT !.balance_locks = @ \cup Needed(t)]
           prepares == [s.in_flight_prepares EXCEPT ![t].sent = TRUE]
           marked == [locked EXCEPT !.in_flight_prepares[t].sent = TRUE]
           x == PrepareMsg(n, s.cluster_leaders[PartCluster(t)], t, 0)
           prepared == Send(marked, {x})
<1>1. /\ s \in NodeState /\ Sound(s, n) /\ s.last_seqnum < MaxSeq
      /\ s.balance_locks \in SUBSET Account
      /\ BoundsTyped' /\ Kept(s, s)
      /\ s.in_flight_prepares \in [Txn -> [sent : BOOLEAN,
                                    completed : BOOLEAN, retries : {0, 1}]]
  BY NodeFacts DEF ProcessClientRequest, Admissible, BoundsTyped, boundVars,
    NodeState
<1>2. Needed(t) \in SUBSET Account
  BY ConstantsAssumption DEF Needed
<1>3. /\ Sound(locked, n) /\ Kept(s, locked)
      /\ locked.last_seqnum = s.last_seqnum
  BY <1>1, <1>2, LockSound
<1>4. "" \in Status /\ "COORD" \in Status
  BY DEF Status
<1>5. CASE IntraShard(t)
  <2>1. Finish(n, Propose(locked, n, t, ""), {})
    BY <1>5 DEF ProcessClientRequest
  <2> HIDE DEF locked
  <2>2. Sound(Propose(locked, n, t, ""), n)
        /\ Kept(locked, Propose(locked, n, t, ""))
    BY <1>1, <1>3, <1>4, SoundIsSoundBut, ProposeSound
  <2>3. Kept(s, Propose(locked, n, t, ""))
    BY <1>3, <2>2 DEF Kept
  <2> HIDE DEF s
  <2>. QED
    BY <1>1, <2>1, <2>2, <2>3, FinishSound DEF s
<1>6. CASE ~ IntraShard(t)
  <2>1. Finish(n, Propose(prepared, n, t, "COORD"), {})
    BY <1>6 DEF ProcessClientRequest
  <2>2. x \in Message /\ x.type = "PREPARE"
    <3>1. s.cluster_leaders \in [Cluster -> Node] /\ PartCluster(t) \in Cluster
      BY NodeFacts, ConstantsAssumption DEF PartCluster
    <3>. QED
      BY <3>1 DEF PrepareMsg, Message
  <2>3. /\ prepares \in [Txn -> [sent : BOOLEAN, completed : BOOLEAN,
                                 retries : {0, 1}]]
        /\ \A y \in Txn \ {t} :
             prepares[y].sent = s.in_flight_prepares[y].sent
    BY <1>1
  <2>4. /\ locked \in NodeState
        /\ locked.in_flight_prepares = s.in_flight_prepares
    BY <1>1, <1>3 DEF Sound, NodeState
  <2> HIDE DEF locked, x
  <2>5. marked = [locked EXCEPT !.in_flight_prepares = prepares]
    BY <2>4 DEF NodeState
  <2> HIDE DEF marked, prepares
  <2>6. /\ prepared \in NodeState
        /\ prepared.accept_log = locked.accept_log
        /\ prepared.out = locked.out \cup {x}
        /\ prepared.digest_to_seqnum = locked.digest_to_seqnum
        /\ prepared.in_flight_prepares = prepares
        /\ prepared.last_seqnum = locked.last_seqnum
    BY <2>2, <2>3, <2>4, <2>5 DEF NodeState, Send
  <2> HIDE DEF prepared
  <2>7. SoundBut(prepared, n, t) /\ Kept(s, prepared)
    BY <1>3, <2>2, <2>3, <2>4, <2>6 DEF Sound, SoundBut, Kept
  <2>8. Sound(Propose(prepared, n, t, "COORD"), n)
        /\ Kept(prepared, Propose(prepared, n, t, "COORD"))
    BY <1>1, <1>3, <1>4, <2>6, <2>7, ProposeSound
  <2>9. Kept(s, Propose(prepared, n, t, "COORD"))
    BY <2>7, <2>8 DEF Kept
  <2>. QED
    BY <1>1, <2>1, <2>8, <2>9, FinishSound
<1>. QED
  BY <1>5, <1>6

LEMMA HandlePrepareTyped ==
  ASSUME TypeInv, NEW n \in Node, NEW m \in msgs, HandlePrepare(n, m)
  PROVE  TypeInv'
<1> DEFINE s == node[n]
           t == m.txn
           u == [s EXCEPT !.cluster_leaders[CoordCluster(t)] = m.from]
           v == [u EXCEPT !.balance_locks = @ \cup {To[t]}]
           yes == Propose(v, n, t, "P")
           no == Propose(u, n, t, "A")
<1>1. /\ m \in Message /\ m.type = "PREPARE"
      /\ BoundsTyped' /\ Sound(s, n) /\ s \in NodeState /\ Kept(s, s)
  BY NodeFacts DEF HandlePrepare, BoundsTyped, boundVars, TypeInv, TypeOK
<1>2. t \in Txn /\ m.from \in Node
  BY <1>1 DEF Message
<1>3. CoordCluster(t) \in Cluster /\ To[t] \in Account
  BY <1>2, ConstantsAssumption DEF CoordCluster
<1> HIDE DEF t, s
<1>4. /\ Sound(u, n) /\ Kept(s, u) /\ u.last_seqnum = s.last_seqnum
      /\ u.balance_locks = s.balance_locks
  BY <1>1, <1>2, <1>3, LeaderSound
<1>5. s.balance_locks \in SUBSET Account
  BY <1>1 DEF NodeState
<1>6. "P" \in Status /\ "A" \in Status
  BY DEF Status
<1>7. \/ Finish(n, s, {m})
      \/ /\ Finish(n, no, {m}) \/ Finish(n, yes, {m})
         /\ s.last_seqnum < MaxSeq
  BY DEF HandlePrepare, s, t
<1> HIDE DEF u
<1>8. /\ Sound(v, n) /\ Kept(u, v) /\ v.last_seqnum = u.last_seqnum
  <2>1. u.balance_locks \cup {To[t]} \in SUBSET Account
    BY <1>3, <1>4, <1>5
  <2>. QED
    BY <1>4, <2>1, LockSound
<1> HIDE DEF v
<1>9. ASSUME s.last_seqnum < MaxSeq
      PROVE  Sound(no, n) /\ Kept(s, no) /\ Sound(yes, n) /\ Kept(s, yes)
  <2>1. Sound(no, n) /\ Kept(u, no)
    BY <1>2, <1>4, <1>6, <1>9, SoundIsSoundBut, ProposeSound
  <2>2. Sound(yes, n) /\ Kept(v, yes)
    BY <1>2, <1>4, <1>6, <1>8, <1>9, SoundIsSoundBut, ProposeSound
  <2>. QED
    BY <1>4, <1>8, <2>1, <2>2 DEF Kept
<1> HIDE DEF yes, no
<1>. QED
  BY <1>1, <1>7, <1>9, FinishSound DEF s

LEMMA ForwardPrepareTyped ==
  ASSUME TypeInv, NEW n \in Node, NEW m \in msgs, ForwardPrepare(n, m)
  PROVE  TypeInv'
<1> DEFINE s == node[n]
           x == [m EXCEPT !.to = s.leader_id]
<1>1. /\ m \in Message /\ m.type = "PREPARE" /\ Finish(n, Send(s, {x}), {m})
      /\ BoundsTyped' /\ Sound(s, n) /\ Kept(s, s) /\ s.leader_id # None
  BY NodeFacts DEF ForwardPrepare, BoundsTyped, boundVars, TypeInv, TypeOK
<1>5. s.leader_id \in Node
  BY <1>1 DEF Sound, NodeState
<1>2. x \in Message /\ x.type = "PREPARE"
  BY <1>1, <1>5 DEF Message
<1> HIDE DEF x
<1>3. Sound(Send(s, {x}), n) /\ Kept(s, Send(s, {x}))
  BY <1>1, <1>2, SendSound
<1>. QED
  BY <1>1, <1>3, FinishSound

LEMMA HandleProposeTyped ==
  ASSUME TypeInv, NEW n \in Node, NEW m \in msgs, HandlePropose(n, m)
  PROVE  TypeInv'
<1> DEFINE s == node[n]
           log == [s.accept_log EXCEPT ![m.seq] =
                     IF @ = NoEntry THEN m.e ELSE @]
           blanks == IF m.e.status = "A" THEN s.blank_votes \cup {m.seq}
                     ELSE s.blank_votes \ {m.seq}
           u == [s EXCEPT !.counter = m.e.counter, !.accept_log = log,
                          !.blank_votes = blanks]
           a == [type |-> "Ack", from |-> n, to |-> m.from, seq |-> m.seq,
                 counter |-> m.e.counter, status |-> m.e.status]
<1>1. /\ m \in Message /\ m.type = "Accept" /\ Backed(m)
      /\ BoundsTyped' /\ Sound(s, n) /\ s \in NodeState /\ Kept(s, s)
      /\ s.accept_log \in [Seqnum -> Entry \cup {NoEntry}]
  BY NodeFacts
  DEF HandlePropose, BoundsTyped, boundVars, TypeInv, TypeOK
<1>2. m.seq \in Seqnum /\ m.e \in Entry /\ m.from \in Node
  BY <1>1 DEF Message
<1>3. m.e.counter \in Nat /\ m.e.status \in Status
  BY <1>2 DEF Entry
<1>4. \/ Finish(n, s, {m})
      \/ Finish(n, Send(u, {a}), {m})
  <2>1. Send([s EXCEPT !.counter = m.e.counter,
                       !.accept_log[m.seq] = IF @ = NoEntry THEN m.e ELSE @,
                       !.blank_votes =
                           IF m.e.status = "A" THEN @ \cup {m.seq}
                           ELSE @ \ {m.seq}],
             {a}) = Send(u, {a})
    BY <1>1 DEF NodeState
  <2>. QED
    BY <2>1 DEF HandlePropose
<1>5. /\ log \in [Seqnum -> Entry \cup {NoEntry}]
      /\ \A y \in Seqnum : s.accept_log[y] # NoEntry => log[y] # NoEntry
  BY <1>1, <1>2
<1>6. a \in Message /\ a.type = "Ack" /\ a.to = m.from /\ a.seq = m.seq
  BY <1>2, <1>3 DEF Message
<1>13. blanks \in SUBSET Seqnum
  BY <1>1, <1>2 DEF NodeState
<1> HIDE DEF log, a, blanks
<1>7. /\ u \in NodeState /\ u.accept_log = log /\ u.out = s.out
      /\ u.digest_to_seqnum = s.digest_to_seqnum
      /\ u.in_flight_prepares = s.in_flight_prepares
  BY <1>1, <1>3, <1>5, <1>13 DEF NodeState
<1> HIDE DEF u, s
<1>8. Sound(u, n) /\ Kept(s, u)
  BY <1>1, <1>5, <1>7, SameAnchors DEF Kept
<1>9. /\ Send(u, {a}) \in NodeState
      /\ Send(u, {a}).accept_log = u.accept_log
      /\ Send(u, {a}).out = u.out \cup {a}
      /\ Send(u, {a}).digest_to_seqnum = u.digest_to_seqnum
      /\ Send(u, {a}).in_flight_prepares = u.in_flight_prepares
  BY <1>6, <1>7 DEF Send, NodeState
<1>10. /\ {a} \in SUBSET Message
       /\ \A x \in {a} : /\ x.type = "Ack"
                         /\ node[x.to].accept_log[x.seq] # NoEntry
  BY <1>1, <1>6 DEF Backed
<1>11. CASE Finish(n, s, {m})
  BY <1>1, <1>11, FinishSound DEF s
<1>12. CASE Finish(n, Send(u, {a}), {m})
  BY <1>1, <1>8, <1>9, <1>10, <1>12, FinishTyped DEF s
<1>. QED
  BY <1>4, <1>11, <1>12

LEMMA HandleAcceptTyped ==
  ASSUME TypeInv, NEW n \in Node, NEW m \in msgs, HandleAccept(n, m)
  PROVE  TypeInv'
<1> DEFINE s == node[n]
           vote == <<m.seq, m.counter, m.from>>
           u1 == [s EXCEPT !.accepted_count_two_pc_commit = @ \cup {vote}]
           u2 == [s EXCEPT !.accepted_count = @ \cup {vote}]
<1>1. /\ m \in Message /\ m.type = "Ack" /\ Backed(m) /\ m.to = n
      /\ BoundsTyped' /\ Sound(s, n) /\ s \in NodeState
  BY NodeFacts
  DEF HandleAccept, BoundsTyped, boundVars, TypeInv, TypeOK
<1>2. /\ m.seq \in Seqnum /\ m.status \in Status /\ m.counter \in Nat
      /\ m.from \in Node
  BY <1>1 DEF Message
<1>3. vote \in Seqnum \X Nat \X Node
  BY <1>2
<1>4. \E u \in {u1, u2} : \/ Finish(n, CommitEntry(u, n, m.seq, m.status), {m})
                          \/ Finish(n, u, {m})
  BY DEF HandleAccept
<1>5. s.accept_log[m.seq] # NoEntry
  BY <1>1 DEF Backed
<1> HIDE DEF vote
<1> HIDE DEF s
<1>6. ASSUME NEW u \in {u1, u2}
      PROVE  Sound(u, n) /\ Kept(s, u) /\ u.accept_log = s.accept_log
  <2>1. u1 \in NodeState /\ u2 \in NodeState
    BY <1>1, <1>3, ZenonT(60) DEF NodeState
  <2>2. /\ u.accept_log = s.accept_log /\ u.out = s.out
        /\ u.digest_to_seqnum = s.digest_to_seqnum
        /\ u.in_flight_prepares = s.in_flight_prepares
    BY <1>1, <1>6 DEF NodeState
  <2> HIDE DEF u1, u2
  <2>. QED
    BY <1>1, <1>6, <2>1, <2>2, SameAnchors DEF Kept
<1> HIDE DEF u1, u2
<1>7. PICK u \in {u1, u2} :
          \/ Finish(n, CommitEntry(u, n, m.seq, m.status), {m})
          \/ Finish(n, u, {m})
  BY <1>4
<1>8. Sound(u, n) /\ Kept(s, u) /\ u.accept_log[m.seq] # NoEntry
  BY <1>5, <1>6
<1>9. Sound(CommitEntry(u, n, m.seq, m.status), n)
      /\ Kept(s, CommitEntry(u, n, m.seq, m.status))
  BY <1>2, <1>8, CommitEntrySound DEF Kept
<1>. QED
  BY <1>1, <1>7, <1>8, <1>9, FinishSound DEF s

LEMMA HandleCommitTyped ==
  ASSUME TypeInv, NEW n \in Node, NEW m \in msgs, HandleCommit(n, m)
  PROVE  TypeInv'
<1> DEFINE s == node[n]
           u == RecordCommit(s, m.seq, m.c)
<1>1. /\ m \in Message /\ m.type = "Commit"
      /\ BoundsTyped' /\ Sound(s, n)
  BY NodeFacts
  DEF HandleCommit, BoundsTyped, boundVars, TypeInv, TypeOK
<1>2. m.seq \in Seqnum /\ m.c \in CommitRecord
  BY <1>1 DEF Message
<1>3. m.c.txn \in Txn
  BY <1>2 DEF CommitRecord
<1>4. \/ \E v \in {u, Exited(u), SequentiallyExecuteCommittedEntries(u, n)} :
           Finish(n, v, {m})
      \/ /\ m.c.status \in SecondPhase
         /\ Finish(n, ExecuteRepeatedTwoPCEntry(u, n, m.seq, m.c.txn,
                                                m.c.status), {m})
  BY DEF HandleCommit
<1>5. Sound(u, n) /\ Kept(s, u)
  BY <1>1, <1>2, RecordCommitSound
<1> HIDE DEF u
<1>6. \A v \in {u, Exited(u), SequentiallyExecuteCommittedEntries(u, n)} :
        Sound(v, n) /\ Kept(s, v)
  BY <1>5, LoopSound, ExitedSound DEF Kept
<1>7. m.c.status \in SecondPhase =>
        LET v == ExecuteRepeatedTwoPCEntry(u, n, m.seq, m.c.txn, m.c.status)
        IN Sound(v, n) /\ Kept(s, v)
  BY <1>2, <1>3, <1>5, ResolveSound DEF Kept
<1> HIDE DEF s
<1>. QED
  BY <1>1, <1>4, <1>6, <1>7, FinishSound DEF s

LEMMA HandleVoteTyped ==
  ASSUME TypeInv, NEW n \in Node, NEW m \in msgs,
         HandlePreparedAndAborted(n, m)
  PROVE  TypeInv'
<1> DEFINE s == node[n]
           t == m.txn
           u == [s EXCEPT !.prepare_and_aborted_queue[t] = m.what]
<1>1. /\ m \in Message /\ m.type = "TwoPC" /\ m.what \in Vote
      /\ BoundsTyped' /\ Sound(s, n) /\ s \in NodeState
  BY NodeFacts
  DEF HandlePreparedAndAborted, BoundsTyped, boundVars, TypeInv, TypeOK, Vote
<1>2. t \in Txn
  BY <1>1 DEF Message
<1>3. Finish(n, u, {m}) \/ Finish(n, StartSecondPhase(s, n, t, m.what), {m})
  BY DEF HandlePreparedAndAborted
<1>4. /\ u \in NodeState /\ u.accept_log = s.accept_log /\ u.out = s.out
      /\ u.digest_to_seqnum = s.digest_to_seqnum
      /\ u.in_flight_prepares = s.in_flight_prepares
  BY <1>1, <1>2 DEF NodeState
<1> HIDE DEF u, s
<1>5. Sound(u, n) /\ Kept(s, u)
  BY <1>1, <1>4, SameAnchors DEF Kept
<1>6. Sound(StartSecondPhase(s, n, t, m.what), n)
      /\ Kept(s, StartSecondPhase(s, n, t, m.what))
  BY <1>1, <1>2, StartSecondPhaseSound
<1>. QED
  BY <1>1, <1>3, <1>5, <1>6, FinishSound DEF s

LEMMA HandleConfirmationTyped ==
  ASSUME TypeInv, NEW n \in Node, NEW m \in msgs,
         HandleCommittedAndAborted(n, m)
  PROVE  TypeInv'
<1> DEFINE s == node[n]
           u == [s EXCEPT !.in_flight_transactions = @ \ {m.txn}]
<1>1. /\ BoundsTyped' /\ Sound(s, n) /\ s \in NodeState
      /\ Finish(n, u, {m})
  BY NodeFacts
  DEF HandleCommittedAndAborted, BoundsTyped, boundVars, TypeInv, TypeOK
<1>2. /\ u \in NodeState /\ u.accept_log = s.accept_log /\ u.out = s.out
      /\ u.digest_to_seqnum = s.digest_to_seqnum
      /\ u.in_flight_prepares = s.in_flight_prepares
  BY <1>1 DEF NodeState
<1> HIDE DEF u, s
<1>3. Sound(u, n) /\ Kept(s, u)
  BY <1>1, <1>2, SameAnchors DEF Kept
<1>. QED
  BY <1>1, <1>3, FinishSound DEF s

LEMMA HandleNewLeaderTyped ==
  ASSUME TypeInv, NEW n \in Node, NEW m \in msgs, HandleNewLeader(n, m)
  PROVE  TypeInv'
<1> DEFINE u == [node[n] EXCEPT
                   !.cluster_leaders[ClusterOf[m.leader]] = m.leader]
<1>1. /\ m \in Message /\ m.type = "NewLeader" /\ Sound(node[n], n)
      /\ BoundsTyped' /\ Finish(n, u, {m})
  BY NodeFacts
  DEF HandleNewLeader, BoundsTyped, boundVars, TypeInv, TypeOK
<1>2. m.leader \in Node /\ ClusterOf[m.leader] \in Cluster
  BY <1>1, ConstantsAssumption DEF Message
<1>3. Sound(u, n) /\ Kept(node[n], u)
  BY <1>1, <1>2, LeaderSound
<1>. QED
  BY <1>1, <1>3, FinishSound

LEMMA DropTyped ==
  ASSUME TypeInv, NEW m \in msgs, Drop(m)
  PROVE  TypeInv'
<1>1. TypeOK' /\ node' = node /\ msgs' \subseteq msgs
  BY DEF TypeInv, TypeOK, Drop, boundVars
<1>. QED
  BY <1>1 DEF TypeInv, Backed

LEMMA RetryPrepareTyped ==
  ASSUME TypeInv, NEW n \in Node, NEW t \in Txn, RetryPrepare(n, t)
  PROVE  TypeInv'
<1> DEFINE s == node[n]
           prepares == [s.in_flight_prepares EXCEPT ![t].retries = 1]
           u == [s EXCEPT !.in_flight_prepares = prepares]
           x == PrepareMsg(n, s.cluster_leaders[PartCluster(t)], t, 1)
<1>1. /\ BoundsTyped' /\ Sound(s, n) /\ s \in NodeState
      /\ s.cluster_leaders \in [Cluster -> Node] /\ PartCluster(t) \in Cluster
      /\ s.in_flight_prepares \in [Txn -> [sent : BOOLEAN,
                                    completed : BOOLEAN, retries : {0, 1}]]
  <2>1. BoundsTyped'
    BY NodeFacts, ConstantsAssumption DEF RetryPrepare, Overdue, BoundsTyped
  <2>. QED
    BY <2>1, NodeFacts, ConstantsAssumption DEF PartCluster, NodeState
<1>2. Finish(n, Send(u, {x}), {})
  <2>1. [s EXCEPT !.in_flight_prepares[t].retries = 1] = u
    BY <1>1 DEF NodeState
  <2>. QED
    BY <2>1 DEF RetryPrepare
<1>3. /\ prepares \in [Txn -> [sent : BOOLEAN, completed : BOOLEAN,
                               retries : {0, 1}]]
      /\ \A y \in Txn : prepares[y].sent = s.in_flight_prepares[y].sent
  BY <1>1
<1>4. x \in Message /\ x.type = "PREPARE"
  BY <1>1 DEF PrepareMsg, Message
<1> HIDE DEF prepares, x
<1>5. /\ u \in NodeState /\ u.accept_log = s.accept_log /\ u.out = s.out
      /\ u.digest_to_seqnum = s.digest_to_seqnum
      /\ u.in_flight_prepares = prepares
  BY <1>1, <1>3 DEF NodeState
<1> HIDE DEF u, s
<1>6. Sound(u, n) /\ Kept(s, u)
  BY <1>1, <1>3, <1>5 DEF Sound, Kept
<1>7. Sound(Send(u, {x}), n) /\ Kept(s, Send(u, {x}))
  BY <1>4, <1>6, SendSound DEF Kept
<1>. QED
  BY <1>1, <1>2, <1>7, FinishSound DEF s

LEMMA HandlePreparedTimeoutTyped ==
  ASSUME TypeInv, NEW n \in Node, NEW t \in Txn, HandlePreparedTimeout(n, t)
  PROVE  TypeInv'
<1> DEFINE s == node[n]
           seq == s.digest_to_seqnum[t]
           e == [s.accept_log[seq] EXCEPT !.status = "A_COORD"]
           prepares == [s.in_flight_prepares EXCEPT ![t].completed = TRUE]
           log == [s.accept_log EXCEPT ![seq] = e]
           u == [s EXCEPT
                   !.in_flight_prepares = prepares,
                   !.accept_log = log,
                   !.accepted_count_two_pc_commit =
                       @ \cup {<<seq, e.counter, n>>}]
           m == [type |-> "Accept", from |-> n, to |-> n, seq |-> seq,
                 e |-> e]
<1>1. /\ Sound(s, n) /\ s \in NodeState
      /\ s.accept_log \in [Seqnum -> Entry \cup {NoEntry}]
      /\ s.digest_to_seqnum \in [Txn -> 0 .. MaxSeq]
      /\ s.in_flight_prepares \in [Txn -> [sent : BOOLEAN,
                                    completed : BOOLEAN, retries : {0, 1}]]
  BY NodeFacts DEF NodeState
<1>2. BoundsTyped'
  BY NodeFacts, ConstantsAssumption
  DEF HandlePreparedTimeout, Overdue, BoundsTyped
<1>3. seq \in Seqnum /\ s.accept_log[seq] \in Entry
  <2>1. seq # 0 /\ s.accept_log[seq] # NoEntry
    BY <1>1 DEF HandlePreparedTimeout, Overdue, Sound
  <2>2. seq \in Seqnum
    BY <1>1, <2>1, ConstantsAssumption DEF Seqnum
  <2>. QED
    BY <1>1, <2>1, <2>2
<1>4. e \in Entry /\ e.counter \in Nat
  BY <1>3 DEF Entry, Status, SecondPhase
<1>5. Finish(n, Broadcast(u, n, m), {})
  <2>1. [s EXCEPT
            !.in_flight_prepares[t].completed = TRUE,
            !.accept_log[seq] = e,
            !.accepted_count_two_pc_commit = @ \cup {<<seq, e.counter, n>>}]
          = u
    BY <1>1 DEF NodeState
  <2>. QED
    BY <2>1 DEF HandlePreparedTimeout
<1>6. /\ prepares \in [Txn -> [sent : BOOLEAN, completed : BOOLEAN,
                               retries : {0, 1}]]
      /\ \A y \in Txn : prepares[y].sent = s.in_flight_prepares[y].sent
  BY <1>1
<1> HIDE DEF seq, e, prepares
<1>7. /\ log \in [Seqnum -> Entry \cup {NoEntry}]
      /\ log[seq] # NoEntry
      /\ \A y \in Seqnum : s.accept_log[y] # NoEntry => log[y] # NoEntry
  BY <1>1, <1>3, <1>4, EntryIsEntry
<1>8. <<seq, e.counter, n>> \in Seqnum \X Nat \X Node
  BY <1>3, <1>4
<1> HIDE DEF log
<1>9. /\ u \in NodeState /\ u.accept_log = log /\ u.out = s.out
      /\ u.digest_to_seqnum = s.digest_to_seqnum
      /\ u.in_flight_prepares = prepares
  BY <1>1, <1>6, <1>7, <1>8 DEF NodeState
<1>10. \A y \in Txn : s.digest_to_seqnum[y] # 0 => s.digest_to_seqnum[y] \in Seqnum
  BY <1>1, ConstantsAssumption DEF Seqnum
<1>11. \A x \in s.out : x.type = "Accept" => x.seq \in Seqnum
  BY <1>1 DEF NodeState, Message
<1> HIDE DEF u, s
<1>12. Kept(s, u)
  BY <1>7, <1>9 DEF Kept
<1>13. Sound(u, n)
  BY <1>1, <1>6, <1>7, <1>9, <1>10, <1>11 DEF Sound
<1>14. u.accept_log[seq] # NoEntry
  BY <1>7, <1>9
<1>15. Sound(Broadcast(u, n, m), n) /\ Kept(u, Broadcast(u, n, m))
  BY <1>3, <1>4, <1>13, <1>14, BroadcastAcceptSound
<1>16. Kept(s, Broadcast(u, n, m))
  BY <1>12, <1>15 DEF Kept
<1> HIDE DEF m
<1>. QED
  BY <1>2, <1>5, <1>15, <1>16, FinishSound DEF s

-----------------------------------------------------------------------------
\* Failures.

LEMMA NotInFlightSound ==
  ASSUME NEW n \in Node, NEW s, Sound(s, n)
  PROVE  LET u == NotInFlight(s)
         IN /\ Sound(u, n) /\ u.accept_log = s.accept_log
            /\ u.balance_locks = s.balance_locks
<1> DEFINE prepares == [t \in Txn |-> [s.in_flight_prepares[t] EXCEPT
                                         !.sent = FALSE, !.completed = FALSE]]
           u == [s EXCEPT !.in_flight_prepares = prepares,
                          !.in_flight_transactions = {}]
<1>1. /\ s \in NodeState
      /\ s.in_flight_prepares \in [Txn -> [sent : BOOLEAN,
                                    completed : BOOLEAN, retries : {0, 1}]]
  BY DEF Sound, NodeState
<1>2. /\ prepares \in [Txn -> [sent : BOOLEAN, completed : BOOLEAN,
                               retries : {0, 1}]]
      /\ \A y \in Txn : ~ prepares[y].sent
  BY <1>1
<1>3. u = NotInFlight(s)
  BY <1>1 DEF NotInFlight, NodeState
<1> HIDE DEF prepares
<1>4. /\ u \in NodeState /\ u.accept_log = s.accept_log /\ u.out = s.out
      /\ u.digest_to_seqnum = s.digest_to_seqnum
      /\ u.in_flight_prepares = prepares
      /\ u.balance_locks = s.balance_locks
  BY <1>1, <1>2 DEF NodeState
<1> HIDE DEF u
<1>5. Sound(u, n)
  BY <1>2, <1>4 DEF Sound
<1>. QED
  BY <1>3, <1>4, <1>5

LEMMA HandleMoveOnTyped ==
  ASSUME TypeInv, NEW n \in Node, HandleMoveOn(n)
  PROVE  TypeInv'
<1> DEFINE s == node[n]
           intra == {t \in Txn :
                       /\ IntraShard(t)
                       /\ s.digest_to_seqnum[t] \in s.pending_client_calls}
           locks == UNION {{From[t], To[t]} : t \in intra}
           v == NotInFlight(s)
           u == [v EXCEPT !.pending_client_calls = {},
                          !.balance_locks = @ \ locks]
<1>1. /\ Sound(s, n) /\ Finish(n, u, {})
  BY NodeFacts DEF HandleMoveOn
<1>2. BoundsTyped'
  BY NodeFacts, ConstantsAssumption DEF HandleMoveOn, BoundsTyped
<1> HIDE DEF locks
<1>3. Sound(v, n) /\ v.accept_log = s.accept_log /\ v \in NodeState
  BY <1>1, NotInFlightSound DEF Sound
<1> HIDE DEF v
<1>4. /\ u \in NodeState /\ u.accept_log = v.accept_log /\ u.out = v.out
      /\ u.digest_to_seqnum = v.digest_to_seqnum
      /\ u.in_flight_prepares = v.in_flight_prepares
  BY <1>3 DEF NodeState
<1> HIDE DEF u, s
<1>5. Sound(u, n) /\ Kept(s, u)
  BY <1>3, <1>4, SameAnchors DEF Kept
<1>. QED
  BY <1>1, <1>2, <1>5, FinishSound DEF s

\* What a reconciliation leaves alone.
OnlyReconciled(s, u) ==
  /\ u \in NodeState
  /\ u.accept_log = s.accept_log
  /\ u.digest_to_seqnum = s.digest_to_seqnum
  /\ u.in_flight_prepares = s.in_flight_prepares
  /\ u.out = s.out /\ u.told = s.told /\ u.resolved = s.resolved
  /\ u.counter = s.counter /\ u.last_seqnum = s.last_seqnum

LEMMA ReconcileEntryType ==
  ASSUME NEW n \in Node, NEW s \in NodeState, NEW seq \in Seqnum,
         NEW stepsDown
  PROVE  OnlyReconciled(s, ReconcileEntry(s, n, seq, stepsDown))
<1> DEFINE w == s.wal[seq]
           e == s.accept_log[seq]
           a == IF ClusterOf[n] = CoordCluster(e.txn) THEN From[e.txn]
                ELSE To[e.txn]
           dropped  == [s EXCEPT !.wal[seq] = NoWal]
           unlocked == [s EXCEPT !.balance_locks = @ \ {a}]
           corrected == [unlocked EXCEPT
               !.accounts[a] = @ + w.before_value - w.after_value,
               !.wal[seq] = NoWal]
           undone == [unlocked EXCEPT !.accounts[a] = w.before_value,
                                      !.wal[seq] = NoWal]
<1>1. OnlyReconciled(s, s)
  BY DEF OnlyReconciled
<1>2. OnlyReconciled(s, Exited(s))
  BY DEF OnlyReconciled, Exited, NodeState
<1>3. NoWal \in WalRecord
  BY DEF NoWal, WalRecord
<1>4. OnlyReconciled(s, dropped)
  BY <1>3 DEF OnlyReconciled, NodeState
<1>5. OnlyReconciled(s, unlocked)
  BY DEF OnlyReconciled, NodeState
<1>6. s.accept_log[seq] \in Entry \cup {NoEntry} /\ s.wal[seq] \in WalRecord
      /\ s.accounts \in [Account -> Int]
  BY DEF NodeState
<1>7. w.before_value \in Int /\ w.after_value \in Int /\ w.written \in BOOLEAN
  BY <1>6 DEF WalRecord
<1>8. ASSUME e # NoEntry
      PROVE  OnlyReconciled(s, corrected) /\ OnlyReconciled(s, undone)
  <2>1. e.txn \in Txn
    BY <1>6, <1>8 DEF Entry
  <2>2. a \in Account
    BY <2>1, ConstantsAssumption
  <2>3. unlocked \in NodeState /\ unlocked.accounts = s.accounts
    BY <1>5 DEF OnlyReconciled, NodeState
  <2> HIDE DEF w, a, unlocked
  <2>4. unlocked.accounts[a] + w.before_value - w.after_value \in Int
    BY <1>6, <1>7, <2>2, <2>3
  <2>5. OnlyReconciled(unlocked, corrected)
    BY <1>3, <1>6, <2>2, <2>3, <2>4 DEF OnlyReconciled, NodeState
  <2>6. OnlyReconciled(unlocked, undone)
    BY <1>3, <1>6, <1>7, <2>2, <2>3 DEF OnlyReconciled, NodeState
  <2> HIDE DEF corrected, undone
  <2>. QED
    BY <1>5, <2>5, <2>6 DEF OnlyReconciled, unlocked
<1>9. e # NoEntry => e.p2 \in SecondPhase \cup {""}
  BY <1>6 DEF Entry
<1>10. \/ ReconcileEntry(s, n, seq, stepsDown) \in
            {s, Exited(s), dropped, unlocked}
       \/ /\ e # NoEntry
          /\ ReconcileEntry(s, n, seq, stepsDown) \in {corrected, undone}
  <2>1. CASE ~ w.written
    BY <2>1 DEF ReconcileEntry
  <2>2. CASE w.written /\ e = NoEntry
    <3>1. e.p2 \notin {"C_COORD", "C"} /\ e.p2 \notin {"A_COORD", "A_PART_COMMIT"}
      <4>1. NoEntry.p2 = ""
        BY DEF NoEntry
      <4>. QED
        BY <2>2, <4>1
    <3>. QED
      BY <2>2, <3>1 DEF ReconcileEntry
  <2>3. CASE w.written /\ e # NoEntry
    <3>1. CASE e.p2 \in {"C_COORD", "C"}
      BY <2>3, <3>1 DEF ReconcileEntry
    <3>2. CASE e.p2 \in {"A_COORD", "A_PART_COMMIT"}
      BY <2>3, <3>2 DEF ReconcileEntry
    <3>3. CASE e.p2 = ""
      BY <2>3, <3>3 DEF ReconcileEntry
    <3>. QED
      BY <1>9, <2>3, <3>1, <3>2, <3>3 DEF SecondPhase
  <2>. QED
    BY <2>1, <2>2, <2>3
<1> HIDE DEF dropped, unlocked, corrected, undone, e
<1>. QED
  BY <1>1, <1>2, <1>4, <1>5, <1>8, <1>10

\* The function that a reconciliation is defined by exists.
ReconciledUpTo(f, s, n, stepsDown) ==
  f = [i \in 0 .. MaxSeq |->
         IF i = 0 THEN s ELSE ReconcileEntry(f[i - 1], n, i, stepsDown)]

LEMMA ReconcileExists ==
  ASSUME NEW n, NEW s, NEW stepsDown
  PROVE  \E f : ReconciledUpTo(f, s, n, stepsDown)
<1> DEFINE Upto(k, f) == f = [i \in 0 .. k |->
                       IF i = 0 THEN s
                       ELSE ReconcileEntry(f[i - 1], n, i, stepsDown)]
           Bad == {k \in 0 .. MaxSeq : ~ \E f : Upto(k, f)}
<1>1. MaxSeq \in 0 .. MaxSeq /\ MaxSeq \in Nat
  BY ConstantsAssumption
<1>2. ASSUME NEW k \in Bad, \A i \in Bad : k <= i PROVE FALSE
  <2>1. k \in Nat /\ k \in 0 .. MaxSeq
    BY <1>1, <1>2
  <2>2. k # 0
    <3>1. Upto(0, [i \in 0 .. 0 |-> s])
      OBVIOUS
    <3> HIDE DEF Upto
    <3>. QED
      BY <1>2, <3>1
  <2>3. k - 1 \in 0 .. MaxSeq /\ k - 1 \notin Bad
    BY <1>1, <1>2, <2>1, <2>2
  <2>4. PICK f : Upto(k - 1, f)
    <3> HIDE DEF Upto
    <3>. QED
      BY <2>3
  <2> DEFINE g == [i \in 0 .. k |->
                     IF i = 0 THEN s
                     ELSE ReconcileEntry(f[i - 1], n, i, stepsDown)]
  <2>5. \A i \in 0 .. k : i # 0 => i - 1 \in 0 .. k - 1
    BY <2>1
  <2>6. \A i \in 0 .. k - 1 : i \in 0 .. k
    BY <2>1
  <2>7. \A i \in 0 .. k - 1 :
          f[i] = IF i = 0 THEN s
                 ELSE ReconcileEntry(f[i - 1], n, i, stepsDown)
    BY <2>4
  <2>8. \A i \in 0 .. k :
          g[i] = IF i = 0 THEN s
                 ELSE ReconcileEntry(f[i - 1], n, i, stepsDown)
    OBVIOUS
  <2>9. \A i \in 0 .. k - 1 : g[i] = f[i]
    <3> HIDE DEF g
    <3>. QED
      BY <2>6, <2>7, <2>8
  <2>10. \A i \in 0 .. k :
           (IF i = 0 THEN s ELSE ReconcileEntry(f[i - 1], n, i, stepsDown))
             = (IF i = 0 THEN s
                ELSE ReconcileEntry(g[i - 1], n, i, stepsDown))
    <3> HIDE DEF g
    <3>. QED
      BY <2>5, <2>9
  <2>11. Upto(k, g)
    <3> DEFINE h == [i \in 0 .. k |->
                       IF i = 0 THEN s
                       ELSE ReconcileEntry(g[i - 1], n, i, stepsDown)]
    <3>1. g = h
      BY <2>10
    <3>. QED
      BY <3>1
  <2> HIDE DEF Upto, g
  <2>. QED
    BY <1>2, <2>11
<1>3. Bad = {}
  <2>1. Bad \in SUBSET Nat
    BY <1>1
  <2> HIDE DEF Bad
  <2>. QED
    BY <1>2, <2>1, LeastElement
<1>4. PICK f : Upto(MaxSeq, f)
  <2> HIDE DEF Upto
  <2>. QED
    BY <1>1, <1>3
<1>. QED
  BY <1>4 DEF ReconciledUpTo

LEMMA ReconcileType ==
  ASSUME NEW n \in Node, NEW s \in NodeState, NEW stepsDown
  PROVE  OnlyReconciled(s, Reconcile(s, n, stepsDown))
<1> DEFINE upTo == CHOOSE f : ReconciledUpTo(f, s, n, stepsDown)
<1>0. ReconciledUpTo(upTo, s, n, stepsDown)
  BY ReconcileExists
<1>1. upTo = [i \in 0 .. MaxSeq |->
                IF i = 0 THEN s
                ELSE ReconcileEntry(upTo[i - 1], n, i, stepsDown)]
  BY <1>0 DEF ReconciledUpTo
<1>2. upTo[MaxSeq] = Reconcile(s, n, stepsDown)
  BY DEF Reconcile, ReconciledUpTo
<1> HIDE DEF upTo
<1>3. 0 \in 0 .. MaxSeq /\ \A i \in 1 .. MaxSeq : i \in 0 .. MaxSeq /\ i # 0
  BY ConstantsAssumption
<1>4. /\ upTo[0] = s
      /\ \A i \in 1 .. MaxSeq :
           upTo[i] = ReconcileEntry(upTo[i - 1], n, i, stepsDown)
  BY <1>1, <1>3
<1> DEFINE Bad == {i \in 0 .. MaxSeq : ~ OnlyReconciled(s, upTo[i])}
<1>5. ASSUME NEW k \in Bad, \A i \in Bad : k <= i PROVE FALSE
  <2>1. k \in Nat /\ k \in 0 .. MaxSeq /\ MaxSeq \in Nat
    BY <1>5, ConstantsAssumption
  <2>2. k # 0
    BY <1>4, <1>5 DEF OnlyReconciled
  <2>3. k \in 1 .. MaxSeq /\ k - 1 \in 0 .. MaxSeq /\ ~ (k <= k - 1)
    BY <2>1, <2>2
  <2>4. OnlyReconciled(s, upTo[k - 1])
    BY <1>5, <2>3
  <2>5. OnlyReconciled(upTo[k - 1], upTo[k])
    BY <1>4, <2>3, <2>4, ReconcileEntryType DEF OnlyReconciled, Seqnum
  <2>6. OnlyReconciled(s, upTo[k])
    BY <2>4, <2>5 DEF OnlyReconciled
  <2>. QED
    BY <1>5, <2>6
<1>6. Bad = {}
  <2>1. Bad \in SUBSET Nat
    BY ConstantsAssumption
  <2> HIDE DEF Bad
  <2>. QED
    BY <1>5, <2>1, LeastElement
<1>7. MaxSeq \in 0 .. MaxSeq
  BY ConstantsAssumption
<1>. QED
  BY <1>2, <1>6, <1>7

LEMMA KillTyped ==
  ASSUME TypeInv, NEW n \in Node, Kill(n)
  PROVE  TypeInv'
<1> DEFINE s == node[n]
           v == NotInFlight(s)
           u == [v EXCEPT !.leads = FALSE,
                          !.leader_id = None,
                          !.accepted_count = {},
                          !.entries_to_commit = [seq \in Seqnum |-> NoCommit],
                          !.pending_client_calls = {},
                          !.blank_votes = {}]
           r == IF s.leads THEN Reconcile(u, n, TRUE) ELSE s
           d == [r EXCEPT !.alive = FALSE]
<1>1. Sound(s, n) /\ Finish(n, d, {})
  BY NodeFacts DEF Kill
<1>2. BoundsTyped'
  BY NodeFacts, ConstantsAssumption DEF Kill, BoundsTyped
<1>3. Sound(v, n) /\ v.accept_log = s.accept_log /\ v \in NodeState
  BY <1>1, NotInFlightSound DEF Sound
<1> HIDE DEF v
<1>4. /\ u \in NodeState /\ u.accept_log = v.accept_log /\ u.out = v.out
      /\ u.digest_to_seqnum = v.digest_to_seqnum
      /\ u.in_flight_prepares = v.in_flight_prepares
  BY <1>3 DEF NodeState
<1> HIDE DEF u
<1>5. OnlyReconciled(u, Reconcile(u, n, TRUE))
  BY <1>4, ReconcileType
<1>6. Sound(r, n) /\ Kept(s, r) /\ r \in NodeState
  <2>1. CASE s.leads
    <3>1. r = Reconcile(u, n, TRUE)
      BY <2>1
    <3> HIDE DEF r, s
    <3>. QED
      BY <1>3, <1>4, <1>5, <3>1, SameAnchors DEF OnlyReconciled, Kept
  <2>2. CASE ~ s.leads
    BY <1>1, <2>2 DEF Kept, Sound
  <2>. QED
    BY <2>1, <2>2
<1> HIDE DEF r
<1>7. /\ d \in NodeState /\ d.accept_log = r.accept_log /\ d.out = r.out
      /\ d.digest_to_seqnum = r.digest_to_seqnum
      /\ d.in_flight_prepares = r.in_flight_prepares
  BY <1>6 DEF NodeState
<1> HIDE DEF d, s
<1>8. Sound(d, n) /\ Kept(s, d)
  BY <1>6, <1>7, SameAnchors DEF Kept
<1>. QED
  BY <1>1, <1>2, <1>8, FinishSound DEF s

\* A sequence of naturals is bounded.
LEMMA Bounded ==
  ASSUME NEW k \in Nat, NEW f \in [1 .. k -> Nat]
  PROVE  \E b \in Nat : \A i \in 1 .. k : f[i] <= b
<1> DEFINE Bad == {j \in 0 .. k : ~ \E b \in Nat : \A i \in 1 .. j : f[i] <= b}
<1>1. ASSUME NEW j \in Bad, \A i \in Bad : j <= i PROVE FALSE
  <2>1. j \in 0 .. k /\ j # 0
    BY <1>1
  <2>2. j - 1 \in 0 .. k /\ ~ (j <= j - 1) /\ j \in 1 .. k
    BY <2>1
  <2>3. PICK b \in Nat : \A i \in 1 .. j - 1 : f[i] <= b
    BY <1>1, <2>2
  <2> DEFINE c == IF f[j] <= b THEN b ELSE f[j]
  <2>4. c \in Nat /\ b <= c /\ f[j] <= c
    BY <2>2
  <2> HIDE DEF c
  <2>5. \A i \in 1 .. j : f[i] <= c
    <3> SUFFICES ASSUME NEW i \in 1 .. j PROVE f[i] <= c
      OBVIOUS
    <3>1. i \in 1 .. k /\ f[i] \in Nat
      BY <2>1
    <3>2. CASE i = j
      BY <2>4, <3>2
    <3>3. CASE i \in 1 .. j - 1
      BY <2>3, <2>4, <3>1, <3>3
    <3>. QED
      BY <2>1, <3>2, <3>3
  <2>. QED
    BY <1>1, <2>4, <2>5
<1>2. Bad = {}
  <2>1. Bad \in SUBSET Nat
    OBVIOUS
  <2> HIDE DEF Bad
  <2>. QED
    BY <1>1, <2>1, LeastElement
<1>3. k \notin Bad
  BY <1>2
<1>4. k \in 0 .. k
  OBVIOUS
<1>. QED
  BY <1>3, <1>4

\* A bounded nonempty set of naturals has a greatest element.
LEMMA GreatestElement ==
  ASSUME NEW b \in Nat, NEW S \in SUBSET (0 .. b), S # {}
  PROVE  \E x \in S : \A y \in S : y <= x
<1> DEFINE T == {i \in 0 .. b : \A y \in S : y <= i}
<1>1. T \in SUBSET Nat /\ b \in T
  OBVIOUS
<1>2. PICK i \in T : \A j \in T : i <= j
  <2> HIDE DEF T
  <2>. QED
    BY <1>1, LeastElement
<1>3. CASE i \in S
  BY <1>2, <1>3
<1>4. CASE i \notin S
  <2>1. PICK y \in S : TRUE
    OBVIOUS
  <2>2. i \in 0 .. b /\ y \in 0 .. b /\ y <= i /\ y # i
    BY <1>2, <1>4
  <2>3. i - 1 \in 0 .. b
    BY <2>2
  <2>4. \A z \in S : z <= i - 1
    BY <1>2, <1>4, <2>2
  <2>5. i - 1 \in T /\ ~ (i <= i - 1)
    BY <2>2, <2>3, <2>4
  <2>. QED
    BY <1>2, <2>5
<1>. QED
  BY <1>3, <1>4

\* The copies of an entry have a highest ballot.
LEMMA HighestCopy ==
  ASSUME TypeInv, NEW voters \in SUBSET Node, NEW seq \in Seqnum,
         NEW best \in SUBSET {node[q].accept_log[seq] : q \in voters},
         best # {}
  PROVE  \E e \in best : \A o \in best : o.counter <= e.counter
<1>0. PICK k \in Nat : ExistsSurjection(1 .. k, Node)
  BY FS_NatSurjection, ConstantsAssumption
<1>1. PICK g \in Surjection(1 .. k, Node) : TRUE
  BY <1>0 DEF ExistsSurjection
<1>2. g \in [1 .. k -> Node] /\ \A q \in Node : \E i \in 1 .. k : g[i] = q
  BY <1>1 DEF Surjection
<1> DEFINE f == [i \in 1 .. k |-> node[g[i]].accept_log[seq].counter]
<1>3. \A q \in Node : node[q].accept_log[seq].counter \in Nat
  <2> SUFFICES ASSUME NEW q \in Node
               PROVE  node[q].accept_log[seq].counter \in Nat
    OBVIOUS
  <2>1. node[q].accept_log[seq] \in Entry \cup {NoEntry}
    BY NodeFacts
  <2>2. NoEntry.counter = 0 /\ \A e \in Entry : e.counter \in Nat
    BY DEF Entry, NoEntry
  <2>. QED
    BY <2>1, <2>2
<1>4. f \in [1 .. k -> Nat]
  BY <1>2, <1>3
<1>5. PICK b \in Nat : \A i \in 1 .. k : f[i] <= b
  <2> HIDE DEF f
  <2>. QED
    BY <1>4, Bounded
<1>6. \A q \in Node : node[q].accept_log[seq].counter <= b
  BY <1>2, <1>5
<1> DEFINE S == {e.counter : e \in best}
<1>7. S \in SUBSET (0 .. b) /\ S # {}
  BY <1>3, <1>6
<1>8. PICK x \in S : \A y \in S : y <= x
  <2> HIDE DEF S
  <2>. QED
    BY <1>7, GreatestElement
<1>9. PICK e \in best : e.counter = x
  OBVIOUS
<1>. QED
  BY <1>8, <1>9

LEMMA MergedEntryType ==
  ASSUME TypeInv, NEW voters \in SUBSET Node, NEW seq \in Seqnum
  PROVE  /\ MergedEntry(voters, seq) \in Entry \cup {NoEntry}
         /\ \A q \in voters : node[q].accept_log[seq] # NoEntry =>
                                MergedEntry(voters, seq) # NoEntry
<1> DEFINE copies == {node[q].accept_log[seq] : q \in voters} \ {NoEntry}
           Decided(e) == e.p2 # "" \/ e.status \in SecondPhase
           best == IF \E e \in copies : Decided(e)
                   THEN {e \in copies : Decided(e)} ELSE copies
           winner == CHOOSE e \in best : \A o \in best : o.counter <= e.counter
           known == {e.p2 : e \in copies} \ {""}
           p2 == CASE winner.p2 # "" -> winner.p2
                   [] winner.p2 = "" /\ known # {} ->
                        CHOOSE x \in known : TRUE
                   [] OTHER -> IF winner.status \in SecondPhase
                               THEN winner.status ELSE ""
<1>1. copies \subseteq Entry
  BY NodeFacts
<1>2. CASE copies = {}
  BY <1>2 DEF MergedEntry
<1>3. CASE copies # {}
  <2>1. best \subseteq copies /\ best # {}
    BY <1>3
  <2>2. best \in SUBSET {node[q].accept_log[seq] : q \in voters}
    BY <2>1
  <2>3. MergedEntry(voters, seq) = [winner EXCEPT !.p2 = p2]
    BY <1>3 DEF MergedEntry
  <2> HIDE DEF best
  <2>4. \E e \in best : \A o \in best : o.counter <= e.counter
    BY <2>1, <2>2, HighestCopy, ZenonT(60)
  <2>5. winner \in best
    BY <2>4
  <2>6. winner \in Entry
    BY <1>1, <2>1, <2>5
  <2> HIDE DEF winner
  <2>7. \A x \in known : x \in SecondPhase
    BY <1>1 DEF Entry
  <2>8. known # {} => (CHOOSE x \in known : TRUE) \in SecondPhase
    <3> HIDE DEF known
    <3>. QED
      BY <2>7
  <2>9. winner.p2 \in SecondPhase \cup {""}
    BY <2>6 DEF Entry
  <2> HIDE DEF known
  <2>10. p2 \in SecondPhase \cup {""}
    BY <2>8, <2>9
  <2> HIDE DEF p2
  <2>11. MergedEntry(voters, seq) \in Entry
    BY <2>3, <2>6, <2>10 DEF Entry
  <2>. QED
    BY <2>11, EntryIsEntry
<1>. QED
  BY <1>2, <1>3

LEMMA ElectedSound ==
  ASSUME TypeInv, NEW n \in Node, NEW voters \in SUBSET Node, n \in voters
  PROVE  LET u == Elected(n, voters)
         IN /\ Sound(u, n) /\ Kept(node[n], u)
            /\ u.out = {} /\ u.told = {} /\ u.resolved = {}
<1> DEFINE s == node[n]
           log == [seq \in Seqnum |-> MergedEntry(voters, seq)]
           used == {seq \in Seqnum : log[seq] # NoEntry}
           last == CHOOSE x \in {0} \cup used : \A y \in used : y <= x
           votes == {<<seq, s.counter + 1, n>> : seq \in used}
           Newest(t, x) == /\ log[x].txn = t
                           /\ \A y \in used : log[y].txn = t => y <= x
           digests == [t \in Txn |->
             IF \E seq \in used : log[seq].txn = t
             THEN CHOOSE seq \in used : Newest(t, seq)
             ELSE s.digest_to_seqnum[t]]
           u == [s EXCEPT
                  !.leads = TRUE,
                  !.counter = s.counter + 1,
                  !.leader_id = n,
                  !.accept_log = log,
                  !.last_seqnum = last,
                  !.max_seqnum_in_new_view = last,
                  !.accepted_count = @ \cup votes,
                  !.pending_or_completed_ts = @ \cup InheritedClaims(log),
                  !.digest_to_seqnum = digests]
<1>1. /\ s \in NodeState /\ Sound(s, n) /\ s.counter \in Nat
      /\ s.out = {} /\ s.told = {} /\ s.resolved = {}
      /\ s.digest_to_seqnum \in [Txn -> 0 .. MaxSeq]
  BY NodeFacts DEF TypeInv, NodeState
<1>2. /\ log \in [Seqnum -> Entry \cup {NoEntry}]
      /\ \A seq \in Seqnum : s.accept_log[seq] # NoEntry => log[seq] # NoEntry
  BY MergedEntryType
<1>3. Elected(n, voters) = Reconcile(u, n, FALSE)
  BY DEF Elected
<1> HIDE DEF log
<1>4. used \subseteq Seqnum /\ {0} \cup used \subseteq 0 .. MaxSeq
  BY ConstantsAssumption DEF Seqnum
<1>5. last \in 0 .. MaxSeq
  <2>1. \E x \in {0} \cup used : \A y \in {0} \cup used : y <= x
    <3> HIDE DEF used
    <3>. QED
      BY <1>4, GreatestElement, ConstantsAssumption
  <2>2. last \in {0} \cup used
    <3> HIDE DEF used
    <3>. QED
      BY <2>1
  <2>. QED
    BY <1>4, <2>2
<1>6. votes \subseteq Seqnum \X Nat \X Node
  BY <1>1, <1>4
<1>7. InheritedClaims(log) \subseteq Txn
  <2>1. \A seq \in Seqnum : log[seq] # NoEntry => log[seq].txn \in Txn
    BY <1>2 DEF Entry
  <2>. QED
    BY <2>1 DEF InheritedClaims
<1>8. \A t \in Txn :
        (\E seq \in used : log[seq].txn = t) =>
          (CHOOSE seq \in used : Newest(t, seq)) \in used
  <2> SUFFICES ASSUME NEW t \in Txn, \E seq \in used : log[seq].txn = t
               PROVE  (CHOOSE seq \in used : Newest(t, seq)) \in used
    OBVIOUS
  <2> DEFINE S == {x \in used : log[x].txn = t}
  <2>1. S \in SUBSET (0 .. MaxSeq) /\ S # {}
    BY <1>4
  <2>2. \E x \in S : \A y \in S : y <= x
    <3> HIDE DEF S
    <3>. QED
      BY <2>1, GreatestElement, ConstantsAssumption
  <2>3. \E x \in used : Newest(t, x)
    BY <2>2
  <2> HIDE DEF Newest, used
  <2>. QED
    BY <2>3
<1>9. /\ digests \in [Txn -> 0 .. MaxSeq]
      /\ \A t \in Txn : digests[t] \in used \/ digests[t] = s.digest_to_seqnum[t]
  <2> HIDE DEF used, Newest
  <2>. QED
    BY <1>1, <1>4, <1>8
<1>10. \A t \in Txn : digests[t] # 0 => log[digests[t]] # NoEntry
  <2> SUFFICES ASSUME NEW t \in Txn, digests[t] # 0
               PROVE  log[digests[t]] # NoEntry
    OBVIOUS
  <2> HIDE DEF digests
  <2>1. digests[t] \in Seqnum
    BY <1>9, ConstantsAssumption DEF Seqnum
  <2>2. CASE digests[t] \in used
    BY <2>2
  <2>3. CASE digests[t] = s.digest_to_seqnum[t]
    BY <1>1, <1>2, <2>1, <2>3 DEF Sound
  <2>. QED
    BY <1>9, <2>2, <2>3
<1>11. \A t \in Txn : s.in_flight_prepares[t].sent => digests[t] # 0
  <2> HIDE DEF digests
  <2>1. 0 \notin used
    BY DEF Seqnum
  <2>. QED
    BY <1>1, <1>9, <2>1 DEF Sound
<1> HIDE DEF used, last, votes, digests
<1>13. u \in NodeState
  <2>1. s.counter + 1 \in Nat
    BY <1>1
  <2>. QED
    BY <1>1, <1>2, <1>5, <1>6, <1>7, <1>9, <2>1 DEF NodeState
<1>14. /\ u.accept_log = log /\ u.out = {} /\ u.told = {} /\ u.resolved = {}
       /\ u.digest_to_seqnum = digests
       /\ u.in_flight_prepares = s.in_flight_prepares
  BY <1>1 DEF NodeState
<1> HIDE DEF u, s
<1>15. Sound(u, n) /\ Kept(s, u)
  BY <1>2, <1>10, <1>11, <1>13, <1>14 DEF Sound, Kept
<1>16. OnlyReconciled(u, Elected(n, voters))
  BY <1>3, <1>13, ReconcileType
<1>17. Kept(u, Elected(n, voters)) /\ Kept(s, Elected(n, voters))
  BY <1>15, <1>16 DEF OnlyReconciled, Kept
<1>18. Sound(Elected(n, voters), n)
  BY <1>15, <1>16, <1>17, SameAnchors DEF OnlyReconciled
<1>. QED
  BY <1>14, <1>16, <1>17, <1>18 DEF OnlyReconciled, s

\* Acknowledgements to n of entries of log.
AcksFor(ms, n, log) ==
  \A m \in ms : /\ m \in Message /\ m.type = "Ack" /\ m.to = n
                /\ log[m.seq] # NoEntry

LEMMA FollowsSound ==
  ASSUME TypeInv, NEW q \in Node, NEW n \in Node, NEW leader \in NodeState
  PROVE  LET f == Follows(q, n, leader)
             u == [f EXCEPT !.out = {}]
         IN /\ Sound(u, q) /\ Kept(node[q], u)
            /\ u.out = {} /\ u.told = {} /\ u.resolved = {}
            /\ AcksFor(f.out, n, leader.accept_log)
<1> DEFINE told == SetNewLeader(node[q], q, n, leader.counter)
           r == Reconcile(told, q, FALSE)
           view == leader.accept_log
           listed == {seq \in Seqnum : view[seq] # NoEntry}
           Ack(seq) == [type |-> "Ack", from |-> q, to |-> n, seq |-> seq,
                        counter |-> leader.counter,
                        status |-> view[seq].status]
           acks == {Ack(seq) : seq \in listed}
           log == [seq \in Seqnum |->
                     IF /\ seq \in listed
                        /\ \/ r.accept_log[seq] = NoEntry
                           \/ view[seq].counter > r.accept_log[seq].counter
                     THEN view[seq] ELSE r.accept_log[seq]]
           max == IF listed = {} THEN r.max_seqnum_in_new_view
                  ELSE leader.last_seqnum
           f == [r EXCEPT !.accept_log = log,
                          !.max_seqnum_in_new_view = max,
                          !.out = acks]
           u == [f EXCEPT !.out = {}]
<1>1. node[q] \in NodeState /\ Sound(node[q], q)
      /\ node[q].out = {} /\ node[q].told = {} /\ node[q].resolved = {}
  BY NodeFacts DEF TypeInv
<1>8. /\ told \in NodeState /\ told.accept_log = node[q].accept_log
      /\ told.out = {} /\ told.told = {} /\ told.resolved = {}
      /\ told.digest_to_seqnum = node[q].digest_to_seqnum
      /\ told.in_flight_prepares = node[q].in_flight_prepares
  <2>1. [node[q].cluster_leaders EXCEPT ![OwnSlot[q]] = n] \in [Cluster -> Node]
    BY <1>1, ConstantsAssumption DEF NodeState
  <2>2. leader.counter \in Nat
    BY DEF NodeState
  <2>. QED
    BY <1>1, <2>1, <2>2 DEF NodeState, SetNewLeader
<1>2. OnlyReconciled(told, r)
  <2> HIDE DEF told
  <2>. QED
    BY <1>8, ReconcileType
<1>3. Follows(q, n, leader) = f
  BY DEF Follows
<1> HIDE DEF r, told
<1>4. /\ r \in NodeState /\ r.accept_log \in [Seqnum -> Entry \cup {NoEntry}]
      /\ view \in [Seqnum -> Entry \cup {NoEntry}]
      /\ leader.counter \in Nat /\ leader.last_seqnum \in 0 .. MaxSeq
      /\ r.max_seqnum_in_new_view \in 0 .. MaxSeq
  BY <1>2 DEF OnlyReconciled, NodeState
<1>5. /\ log \in [Seqnum -> Entry \cup {NoEntry}]
      /\ \A seq \in Seqnum : r.accept_log[seq] # NoEntry => log[seq] # NoEntry
  <2> HIDE DEF view
  <2>. QED
    BY <1>4
<1>6. \A m \in acks : /\ m \in Message /\ m.type = "Ack" /\ m.to = n
                      /\ leader.accept_log[m.seq] # NoEntry
  <2> SUFFICES ASSUME NEW seq \in listed
               PROVE  /\ Ack(seq) \in Message /\ Ack(seq).type = "Ack"
                      /\ Ack(seq).to = n
                      /\ leader.accept_log[Ack(seq).seq] # NoEntry
    OBVIOUS
  <2>1. view[seq] \in Entry
    BY <1>4
  <2>2. view[seq].status \in Status
    BY <2>1 DEF Entry
  <2>. QED
    BY <1>4, <2>2 DEF Message
<1>7. max \in 0 .. MaxSeq
  BY <1>4
<1>9. acks \in SUBSET Message
  BY <1>6
<1> HIDE DEF log, max, acks, listed, view
<1>10. f \in NodeState
  BY <1>4, <1>5, <1>7, <1>9 DEF NodeState
<1>11. /\ f.accept_log = log /\ f.out = acks /\ f.told = r.told
       /\ f.resolved = r.resolved
       /\ f.digest_to_seqnum = r.digest_to_seqnum
       /\ f.in_flight_prepares = r.in_flight_prepares
  BY <1>4 DEF NodeState
<1> HIDE DEF f
<1>12. /\ u \in NodeState /\ u.accept_log = log /\ u.out = {}
       /\ u.told = r.told
       /\ u.resolved = r.resolved
       /\ u.digest_to_seqnum = r.digest_to_seqnum
       /\ u.in_flight_prepares = r.in_flight_prepares
  BY <1>10, <1>11 DEF NodeState
<1> HIDE DEF u
<1>13. Kept(node[q], u)
  BY <1>2, <1>5, <1>8, <1>12 DEF OnlyReconciled, Kept
<1>14. Sound(u, q)
  BY <1>1, <1>2, <1>8, <1>12, <1>13, SameAnchors DEF OnlyReconciled
<1>15. u.out = {} /\ u.told = {} /\ u.resolved = {}
  BY <1>2, <1>8, <1>12 DEF OnlyReconciled
<1>. QED
  BY <1>3, <1>6, <1>9, <1>11, <1>13, <1>14, <1>15 DEF u, AcksFor

LEMMA ElectTyped ==
  ASSUME TypeInv, NEW n \in Node, Elect(n)
  PROVE  TypeInv'
<1> DEFINE c == ClusterOf[n]
           voters == {q \in Members(c) : node[q].alive}
           leader == Elected(n, voters)
           after == [q \in voters |-> IF q = n THEN leader
                                      ELSE Follows(q, n, leader)]
           notices == {[type |-> "NewLeader", to |-> q, leader |-> n] :
                         q \in Node \ Members(c)}
           sent == UNION {after[q].out : q \in voters}
<1>1. /\ n \in voters /\ voters \in SUBSET Node
      /\ node' = [q \in Node |-> IF q \in voters
                                 THEN [after[q] EXCEPT !.out = {}]
                                 ELSE node[q]]
      /\ msgs' = msgs \cup sent \cup notices
      /\ UNCHANGED <<replies, outcomes, timeouts, kills, move_ons>>
  BY DEF Elect, Members, boundVars
<1>2. notices \subseteq Message /\ \A m \in notices : m.type = "NewLeader"
  BY DEF Message
<1> HIDE DEF voters, notices
<1>3. /\ Sound(leader, n) /\ Kept(node[n], leader)
      /\ leader.out = {} /\ leader.told = {} /\ leader.resolved = {}
  BY <1>1, ElectedSound
<1> HIDE DEF leader
<1>4. leader \in NodeState
  BY <1>3 DEF Sound
<1>5. after[n] = leader /\ \A q \in voters \ {n} : after[q] = Follows(q, n, leader)
  BY <1>1
<1> HIDE DEF after
<1> DEFINE Quiet(u) == u.out = {} /\ u.told = {} /\ u.resolved = {}
<1>6. /\ Sound([leader EXCEPT !.out = {}], n)
      /\ [leader EXCEPT !.out = {}].accept_log = leader.accept_log
      /\ Quiet([leader EXCEPT !.out = {}])
  <2> DEFINE u == [leader EXCEPT !.out = {}]
  <2>1. /\ u \in NodeState /\ u.accept_log = leader.accept_log /\ u.out = {}
        /\ u.told = leader.told /\ u.resolved = leader.resolved
        /\ u.digest_to_seqnum = leader.digest_to_seqnum
        /\ u.in_flight_prepares = leader.in_flight_prepares
    BY <1>4 DEF NodeState
  <2> HIDE DEF u
  <2>2. Sound(u, n)
    BY <1>3, <2>1 DEF Sound
  <2>. QED
    BY <1>3, <2>1, <2>2 DEF u
<1>7. \A q \in Node : Sound(node'[q], q) /\ Quiet(node'[q])
                        /\ Kept(node[q], node'[q])
  <2> SUFFICES ASSUME NEW q \in Node
               PROVE  Sound(node'[q], q) /\ Quiet(node'[q])
                        /\ Kept(node[q], node'[q])
    OBVIOUS
  <2>1. CASE q = n
    <3>1. node'[q] = [leader EXCEPT !.out = {}]
      BY <1>1, <1>5, <2>1
    <3>. QED
      BY <1>3, <1>6, <2>1, <3>1 DEF Kept
  <2>2. CASE q \in voters \ {n}
    <3>1. node'[q] = [Follows(q, n, leader) EXCEPT !.out = {}]
      BY <1>1, <1>5, <2>2
    <3>. QED
      BY <1>4, <3>1, FollowsSound
  <2>3. CASE q \notin voters
    <3>1. node'[q] = node[q]
      BY <1>1, <2>3
    <3>. QED
      BY <3>1, NodeFacts DEF TypeInv
  <2>. QED
    BY <1>1, <2>1, <2>2, <2>3
<1>8. AcksFor(sent, n, leader.accept_log)
  <2> SUFFICES ASSUME NEW q \in voters 
               PROVE  AcksFor(after[q].out, n, leader.accept_log)
    BY DEF AcksFor
  <2>1. q \in Node
    BY <1>1
  <2>2. CASE q = n
    BY <1>3, <1>5, <2>2 DEF AcksFor
  <2>3. CASE q # n
    <3>1. after[q].out = Follows(q, n, leader).out
      BY <1>5, <2>3
    <3>2. AcksFor(Follows(q, n, leader).out, n, leader.accept_log)
      BY <1>4, <2>1, FollowsSound
    <3>. QED
      BY <3>1, <3>2
  <2>. QED
    BY <2>2, <2>3
<1> HIDE DEF sent
<1>9. TypeOK'
  <2>1. node' \in [Node -> NodeState]
    BY <1>1, <1>7 DEF Sound
  <2>2. msgs' \subseteq Message
    BY <1>1, <1>2, <1>8 DEF TypeInv, TypeOK, AcksFor
  <2>. QED
    BY <1>1, <2>1, <2>2 DEF TypeInv, TypeOK
<1>10. node'[n].accept_log = leader.accept_log
  <2>1. node'[n] = [leader EXCEPT !.out = {}]
    BY <1>1, <1>5
  <2>. QED
    BY <1>6, <2>1
<1>11. ASSUME NEW m \in msgs' PROVE Backed(m)'
  <2>1. m \in Message
    BY <1>9, <1>11 DEF TypeOK
  <2>2. /\ m.type = "Accept" => m.from \in Node /\ m.seq \in Seqnum
        /\ m.type = "Ack" => m.to \in Node /\ m.seq \in Seqnum
    BY <2>1 DEF Message
  <2>3. CASE m \in msgs
    BY <1>7, <2>2, <2>3 DEF TypeInv, Backed, Kept
  <2>4. CASE m \in notices
    BY <1>2, <2>4 DEF Backed
  <2>5. CASE m \in sent
    BY <1>8, <1>10, <2>5 DEF Backed, AcksFor
  <2>. QED
    BY <1>1, <1>11, <2>3, <2>4, <2>5
<1>. QED
  BY <1>7, <1>9, <1>11 DEF TypeInv

-----------------------------------------------------------------------------
\* The invariant.

LEMMA TypeInvInit == Init => TypeInv
<1> SUFFICES ASSUME Init PROVE TypeInv
  OBVIOUS
<1>1. \A n \in Node : /\ node[n] = InitialNode(n) /\ Sound(node[n], n)
                      /\ node[n].out = {} /\ node[n].told = {}
                      /\ node[n].resolved = {}
  BY InitialNodeSound DEF Init
<1>2. node \in [Node -> NodeState]
  BY <1>1 DEF Init, Sound
<1>3. TypeOK
  BY <1>2, ConstantsAssumption DEF Init, TypeOK
<1>. QED
  BY <1>1, <1>3 DEF TypeInv, Init

LEMMA ReceiverIsNode == TypeInv => \A m \in msgs : m.to \in Node
  BY DEF TypeInv, TypeOK, Message

LEMMA TypeInvStep == TypeInv /\ [Next]_vars => TypeInv'
<1> SUFFICES ASSUME TypeInv, [Next]_vars PROVE TypeInv'
  OBVIOUS
<1>1. CASE UNCHANGED vars
  BY <1>1 DEF vars, boundVars, TypeInv, TypeOK, Backed
<1>2. ASSUME NEW n \in Node, NEW t \in Txn, ProcessClientRequest(n, t)
      PROVE  TypeInv'
  BY <1>2, ProcessClientRequestTyped
<1>3. ASSUME NEW n \in Node, NEW t \in Txn, RetryPrepare(n, t)
      PROVE  TypeInv'
  BY <1>3, RetryPrepareTyped
<1>4. CASE Deliver
  <2>1. PICK m \in msgs : \/ HandlePrepare(m.to, m)
                          \/ HandlePropose(m.to, m)
                          \/ HandleAccept(m.to, m)
                          \/ HandleCommit(m.to, m)
                          \/ HandlePreparedAndAborted(m.to, m)
                          \/ HandleCommittedAndAborted(m.to, m)
    BY <1>4 DEF Deliver
  <2>2. m.to \in Node
    BY ReceiverIsNode
  <2>. QED
    BY <2>1, <2>2, HandlePrepareTyped, HandleProposeTyped, HandleAcceptTyped,
       HandleCommitTyped, HandleVoteTyped, HandleConfirmationTyped
<1>5. ASSUME NEW n \in Node, HandleMoveOn(n) PROVE TypeInv'
  BY <1>5, HandleMoveOnTyped
<1>6. ASSUME NEW n \in Node, NEW t \in Txn, HandlePreparedTimeout(n, t)
      PROVE  TypeInv'
  BY <1>6, HandlePreparedTimeoutTyped
<1>7. ASSUME NEW n \in Node, Kill(n) PROVE TypeInv'
  BY <1>7, KillTyped
<1>8. ASSUME NEW n \in Node, Elect(n) PROVE TypeInv'
  BY <1>8, ElectTyped
<1>9. ASSUME NEW m \in msgs, \/ ForwardPrepare(m.to, m)
                             \/ HandleNewLeader(m.to, m)
                             \/ Drop(m)
      PROVE  TypeInv'
  <2>1. m.to \in Node
    BY ReceiverIsNode
  <2>. QED
    BY <1>9, <2>1, ForwardPrepareTyped, HandleNewLeaderTyped, DropTyped
<1>. QED
  BY <1>1, <1>2, <1>3, <1>4, <1>5, <1>6, <1>7, <1>8, <1>9
  DEF Next, TimelyNext, Failure

\* With any number of timeouts, kills, elections and moved-on sets, every
\* status that StartSecondPhase, ProcessClientRequest and the merge of an
\* election put into an entry is one that the handlers tell apart, no entry
\* without a request is ever committed or executed, and every message is for
\* a node of the system.
THEOREM TwoPhaseCommitTypes == Spec => []TypeOK
<1>1. TypeInv => TypeOK
  BY DEF TypeInv
<1>. QED
  BY <1>1, TypeInvInit, TypeInvStep, PTL DEF Spec
=============================================================================
