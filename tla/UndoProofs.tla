----------------------------- MODULE UndoProofs -----------------------------
(***************************************************************************)
(* The undo information of a leader is current until its second phase uses *)
(* it, as long as locks protect accounts.  They do until a participant     *)
(* carries out an abort, which unlocks an account that another transfer    *)
(* may have locked, or HandleMoveOn takes locks away; and beyond that for  *)
(* an account that at most two transfers are from or to, as the order of   *)
(* the log then makes up for it.                                           *)
(***************************************************************************)
EXTENDS AtomicityProofs, ProgressProofs

Touches(t, a) == a \in {From[t], To[t]}

\* At most two transfers are from or to account a.
AtMostTwo(a) ==
  \A t1, t2, t3 \in Txn :
    Touches(t1, a) /\ Touches(t2, a) /\ Touches(t3, a) =>
      t1 = t2 \/ t1 = t3 \/ t2 = t3

\* The lock of account a may have been given up on behalf of a transfer that
\* does not hold it: mo and os are the MoveOns and the outcomes so far.
Disturbed(a, mo, os) ==
  \/ mo > 0
  \/ \E o \in os : o.p2 = "A_PART_COMMIT" /\ To[o.txn] = a

UndoSafe(a, mo, os) == AtMostTwo(a) \/ ~ Disturbed(a, mo, os)

\* A transfer that leader n, in state s, voted against changes no balance.
Refused(s, t) ==
  s.accept_log[s.digest_to_seqnum[t]].status \in {"A", "A_PART_COMMIT"}
Owner(s, n, t, a) == Holds(s, n, t, a) /\ ~ Refused(s, t)
Known(s, t, a) == s.digest_to_seqnum[t] # 0 /\ Touches(t, a)
Writes(s, t, a) == Known(s, t, a) /\ ~ Refused(s, t)

\* A transfer that has to do something to account a has locked it; d says
\* whether a was disturbed.  A transfer between clusters loses the lock only
\* to another that is known to the leader.
Guarded(s, n, a, d) ==
  \A t \in Txn : Owner(s, n, t, a) =>
    \/ a \in s.balance_locks
    \/ d /\ (IntraShard(t) \/ \E y \in Txn \ {t} : Known(s, y, a))

\* Two transfers that change account a do so one after the other, as far as
\* the order of execution does not see to it.
Ordered(s, n, a, d) ==
  \A t1, t2 \in Txn :
    /\ Writes(s, t1, a) /\ Writes(s, t2, a)
    /\ s.digest_to_seqnum[t1] < s.digest_to_seqnum[t2]
    /\ Owner(s, n, t1, a)
    => IntraShard(t1) /\ d

\* The account of transfer t at node n.
LocalAccount(n, t) == IF ClusterOf[n] = CoordCluster(t) THEN From[t] ELSE To[t]

Current(s, n, a) ==
  \A seq \in Seqnum :
    s.wal[seq].written /\ LocalAccount(n, s.accept_log[seq].txn) = a =>
      s.accounts[a] = s.wal[seq].after_value

\* There is undo information between the two phases only.
WalOwned(s, n) ==
  \A seq \in Seqnum : s.wal[seq].written =>
    LET t == s.accept_log[seq].txn
    IN /\ seq <= s.last_executed_seq
       /\ ~ IntraShard(t) /\ ~ Ended(s, t) /\ ~ Refused(s, t)

\* The statuses of a leader's log are those of its cluster.
Named(s, n) ==
  \A seq \in Seqnum : seq <= s.last_seqnum =>
    Suits(s.accept_log[seq].txn, ClusterOf[n], s.accept_log[seq].status)

AccountSafe(s, n, a, d) == /\ Guarded(s, n, a, d)
                           /\ Ordered(s, n, a, d)
                           /\ Current(s, n, a)

Careful(s, n, mo, os) ==
  /\ WalOwned(s, n) /\ Named(s, n)
  /\ \A a \in Account :
       shard_map[a] = ClusterOf[n] /\ UndoSafe(a, mo, os) =>
         AccountSafe(s, n, a, Disturbed(a, mo, os))

\* A vote of a second phase is counted once and a decision is taken up once:
\* the message that brings it is the only one, and comes before its effect.
FreshVotes(s, n, ms) ==
  \A m \in ms, q \in Node, seq \in Seqnum :
    Chases(m, n, q, seq, SecondPhase) =>
      /\ <<seq, 1, q>> \notin s.accepted_count_two_pc_commit
      /\ \A m2 \in ms : Chases(m2, n, q, seq, SecondPhase) => m2 = m

FreshDecision(P, t, ms) ==
  \A m \in ms : Brings(m, Part(t), t, Vote) =>
    /\ ~ Begun(P, Part(t), t)
    /\ \A m2 \in ms : Brings(m2, Part(t), t, Vote) => m2 = m

Fresh(nd, ms) ==
  /\ \A n \in Node : Leads(n) => FreshVotes(nd[n], n, ms)
  /\ \A t \in Txn : ~ IntraShard(t) => FreshDecision(nd[Part(t)], t, ms)

UndoInv ==
  /\ \A n \in Node : Leads(n) /\ node[n].alive =>
       Careful(node[n], n, move_ons, outcomes)
  /\ Fresh(node, msgs)

\* Accounts and transfers.

\* What a leader knows of the transfers in its log.
LEMMA EntryOf ==
  ASSUME NEW n \in Node, NEW s \in NodeState, Orderly(s, n), NEW seq \in Seqnum,
         seq <= s.last_seqnum
  PROVE  LET t == s.accept_log[seq].txn
         IN /\ t \in Txn /\ s.digest_to_seqnum[t] = seq /\ seq # 0
            /\ \A y \in Txn : s.digest_to_seqnum[y] = seq => y = t
<1>1. s.accept_log[seq] \in Entry /\ s.digest_to_seqnum[s.accept_log[seq].txn] = seq
  BY DEF Orderly, Filed
<1>2. s.accept_log[seq].txn \in Txn
  BY <1>1 DEF Entry
<1>3. seq # 0
  BY Numbers
<1>. QED
  BY <1>1, <1>2, <1>3 DEF Orderly, Claimed

\* A transfer that leader n has claimed is in its log.
LEMMA ClaimedEntry ==
  ASSUME NEW n \in Node, NEW s \in NodeState, Own(s, n), Orderly(s, n),
         NEW t \in Txn, s.digest_to_seqnum[t] # 0
  PROVE  LET seq == s.digest_to_seqnum[t]
         IN /\ seq \in Seqnum /\ seq <= s.last_seqnum
            /\ s.accept_log[seq].txn = t
            /\ n \in {Coord(t), Part(t)}
<1>1. /\ s.digest_to_seqnum[t] <= s.last_seqnum
      /\ s.accept_log[s.digest_to_seqnum[t]].txn = t
      /\ t \in s.pending_or_completed_ts
  BY DEF Orderly, Claimed
<1>2. s.digest_to_seqnum[t] \in Seqnum
  BY Numbers
<1>3. n \in {Coord(t), Part(t)}
  BY <1>1 DEF Own
<1>. QED
  BY <1>1, <1>2, <1>3

\* The account of n's cluster that a transfer changes there.
LEMMA LocalAccounts ==
  ASSUME NEW n \in Node, NEW t \in Txn, n \in {Coord(t), Part(t)}
  PROVE  /\ LocalAccount(n, t) \in Account /\ Touches(t, LocalAccount(n, t))
         /\ shard_map[LocalAccount(n, t)] = ClusterOf[n]
         /\ LocalAccount(n, t) = IF n = Coord(t) THEN From[t] ELSE To[t]
         /\ \A a \in Account :
              ~ IntraShard(t) /\ shard_map[a] = ClusterOf[n] /\ Touches(t, a) =>
                a = LocalAccount(n, t)
         /\ IntraShard(t) => \A a \in {From[t], To[t]} :
                               a \in Account /\ shard_map[a] = ClusterOf[n]
<1>1. /\ Coord(t) \in Node /\ ClusterOf[Coord(t)] = CoordCluster(t)
      /\ Part(t) \in Node /\ ClusterOf[Part(t)] = PartCluster(t)
      /\ Coord(t) = Part(t) <=> IntraShard(t)
  BY LeadersDiffer
<1>2. From[t] \in Account /\ To[t] \in Account
  BY ConstantsAssumption
<1>3. CASE n = Coord(t)
  BY <1>1, <1>2, <1>3 DEF LocalAccount, Touches, CoordCluster, PartCluster, IntraShard
<1>4. CASE n = Part(t) /\ n # Coord(t)
  BY <1>1, <1>2, <1>4 DEF LocalAccount, Touches, CoordCluster, PartCluster, IntraShard
<1>. QED
  BY <1>3, <1>4

\* Who holds an account changes it, unless it was refused.
LEMMA OwnerWrites ==
  ASSUME NEW n \in Node, NEW s, NEW t \in Txn, NEW a, Owner(s, n, t, a)
  PROVE  Writes(s, t, a)
  BY DEF Owner, Writes, Known, Holds, Touches

\* The transfer of undo information owns its account.
LEMMA WalOwner ==
  ASSUME NEW n \in Node, NEW s \in NodeState, Own(s, n), Orderly(s, n),
         WalOwned(s, n), NEW seq \in Seqnum, s.wal[seq].written
  PROVE  LET t == s.accept_log[seq].txn
         IN /\ t \in Txn /\ s.digest_to_seqnum[t] = seq
            /\ seq <= s.last_executed_seq /\ seq <= s.last_seqnum
            /\ n \in {Coord(t), Part(t)} /\ ~ IntraShard(t)
            /\ Owner(s, n, t, LocalAccount(n, t))
            /\ Writes(s, t, LocalAccount(n, t))
<1> DEFINE t == s.accept_log[seq].txn
<1>1. /\ seq <= s.last_executed_seq
      /\ ~ IntraShard(t) /\ ~ Ended(s, t) /\ ~ Refused(s, t)
  BY DEF WalOwned
<1>2. seq <= s.last_seqnum
  <2>1. s.last_executed_seq <= s.last_seqnum
    BY DEF Orderly
  <2>. QED
    BY <1>1, <2>1, Numbers
<1>3. t \in Txn /\ s.digest_to_seqnum[t] = seq /\ seq # 0
  BY <1>2, EntryOf
<1> HIDE DEF t
<1>4. n \in {Coord(t), Part(t)}
  BY <1>3, ClaimedEntry
<1>5. LocalAccount(n, t) = IF n = Coord(t) THEN From[t] ELSE To[t]
  BY <1>3, <1>4, LocalAccounts
<1>6. Holds(s, n, t, LocalAccount(n, t))
  BY <1>1, <1>3, <1>5 DEF Holds
<1>7. Owner(s, n, t, LocalAccount(n, t))
  BY <1>1, <1>6 DEF Owner
<1>. QED
  BY <1>1, <1>2, <1>3, <1>4, <1>7, OwnerWrites DEF t

\* Two transfers between clusters do not own an account at the same time.
LEMMA OneOwner ==
  ASSUME NEW n \in Node, NEW s \in NodeState, Own(s, n), Orderly(s, n),
         NEW a, NEW d, Ordered(s, n, a, d), NEW t1 \in Txn, NEW t2 \in Txn,
         Owner(s, n, t1, a), Owner(s, n, t2, a), ~ IntraShard(t1), t1 # t2
  PROVE  IntraShard(t2) /\ d
<1>1. Writes(s, t1, a) /\ Writes(s, t2, a)
  BY OwnerWrites
<1>2. s.digest_to_seqnum[t1] # 0 /\ s.digest_to_seqnum[t2] # 0
  BY <1>1 DEF Writes, Known
<1>3. s.digest_to_seqnum[t1] # s.digest_to_seqnum[t2]
  BY <1>2, ClaimedEntry
<1>4. s.digest_to_seqnum[t1] \in Int /\ s.digest_to_seqnum[t2] \in Int
  BY Numbers
<1>5. ~ (s.digest_to_seqnum[t1] < s.digest_to_seqnum[t2])
  BY <1>1 DEF Ordered
<1>6. s.digest_to_seqnum[t2] < s.digest_to_seqnum[t1]
  BY <1>3, <1>4, <1>5
<1>. QED
  BY <1>1, <1>6 DEF Ordered

\* What has been disturbed stays so.
LEMMA CarefulLater ==
  ASSUME NEW s, NEW n, NEW mo \in Nat, NEW mo2 \in Nat, mo <= mo2,
         NEW os, NEW os2, os \subseteq os2, Careful(s, n, mo, os)
  PROVE  Careful(s, n, mo2, os2)
<1>1. \A a \in Account : Disturbed(a, mo, os) => Disturbed(a, mo2, os2)
  BY DEF Disturbed
<1>2. \A a \in Account : UndoSafe(a, mo2, os2) => UndoSafe(a, mo, os)
  BY <1>1 DEF UndoSafe
<1>3. ASSUME NEW a \in Account, NEW d, NEW d2, d => d2, AccountSafe(s, n, a, d)
      PROVE  AccountSafe(s, n, a, d2)
  BY <1>3 DEF AccountSafe, Guarded, Ordered
<1>. QED
  BY <1>1, <1>2, <1>3 DEF Careful

-----------------------------------------------------------------------------
\* What a step does not change for transfer y.

SameTransfer(s, u, y) ==
  /\ u.digest_to_seqnum[y] = s.digest_to_seqnum[y]
  /\ s.digest_to_seqnum[y] # 0 => /\ Ran(u, y) <=> Ran(s, y)
                                  /\ Ended(u, y) <=> Ended(s, y)
                                  /\ Refused(u, y) <=> Refused(s, y)

LEMMA SameTransferFacts ==
  ASSUME NEW s, NEW u, NEW y, SameTransfer(s, u, y)
  PROVE  \A n, a : /\ Known(u, y, a) <=> Known(s, y, a)
                   /\ Writes(u, y, a) <=> Writes(s, y, a)
                   /\ Owner(u, n, y, a) <=> Owner(s, n, y, a)
<1>1. CASE s.digest_to_seqnum[y] = 0
  BY <1>1 DEF SameTransfer, Known, Writes, Owner, Holds
<1>2. CASE s.digest_to_seqnum[y] # 0
  BY <1>2 DEF SameTransfer, Known, Writes, Owner, Holds
<1>. QED
  BY <1>1, <1>2

\* Steps that change nothing of what Careful speaks of, the locks apart.
SameBooks(s, u) ==
  /\ s.last_executed_seq <= u.last_executed_seq
  /\ \A t \in Txn : SameTransfer(s, u, t)
  /\ \A seq \in Seqnum : u.accept_log[seq].txn = s.accept_log[seq].txn
  /\ u.accounts = s.accounts
  /\ u.wal = s.wal

\* The log is as it was.
SameWords(s, u) ==
  /\ u.last_executed_seq = s.last_executed_seq
  /\ u.last_seqnum = s.last_seqnum
  /\ u.digest_to_seqnum = s.digest_to_seqnum
  /\ u.accept_log = s.accept_log

LEMMA SameWordsFacts ==
  ASSUME NEW s, NEW u, NEW n, SameWords(s, u), Named(s, n),
         s.last_executed_seq \in Int,
         \A t \in Txn : Ended(u, t) <=> Ended(s, t),
         u.accounts = s.accounts, u.wal = s.wal
  PROVE  SameBooks(s, u) /\ Named(u, n)
<1>1. \A t \in Txn : (Ran(u, t) <=> Ran(s, t)) /\ (Refused(u, t) <=> Refused(s, t))
  BY DEF SameWords, Ran, Refused
<1>2. \A t \in Txn : SameTransfer(s, u, t)
  BY <1>1 DEF SameWords, SameTransfer
<1>3. s.last_executed_seq <= u.last_executed_seq
  BY DEF SameWords
<1>4. Named(u, n)
  BY DEF SameWords, Named
<1>. QED
  BY <1>2, <1>3, <1>4 DEF SameBooks, SameWords

LEMMA SameBooksFacts ==
  ASSUME NEW n \in Node, NEW s \in NodeState, NEW u \in NodeState,
         SameBooks(s, u), Own(s, n), Orderly(s, n), WalOwned(s, n)
  PROVE  /\ WalOwned(u, n)
         /\ \A a : Current(s, n, a) => Current(u, n, a)
         /\ \A t \in Txn : \A a :
              /\ Known(u, t, a) <=> Known(s, t, a)
              /\ Writes(u, t, a) <=> Writes(s, t, a)
              /\ Owner(u, n, t, a) <=> Owner(s, n, t, a)
         /\ \A t \in Txn : u.digest_to_seqnum[t] = s.digest_to_seqnum[t]
<1>1. WalOwned(u, n)
  <2> SUFFICES ASSUME NEW seq \in Seqnum, u.wal[seq].written
               PROVE  LET t == u.accept_log[seq].txn
                      IN /\ seq <= u.last_executed_seq
                         /\ ~ IntraShard(t) /\ ~ Ended(u, t) /\ ~ Refused(u, t)
    BY DEF WalOwned
  <2> DEFINE t == s.accept_log[seq].txn
  <2>1. s.wal[seq].written /\ u.accept_log[seq].txn = t
    BY DEF SameBooks
  <2>2. /\ seq <= s.last_executed_seq
        /\ ~ IntraShard(t) /\ ~ Ended(s, t) /\ ~ Refused(s, t)
    BY <2>1 DEF WalOwned
  <2>3. t \in Txn /\ s.digest_to_seqnum[t] = seq
    BY <2>1, WalOwner
  <2>4. seq <= u.last_executed_seq
    BY <2>2, Numbers DEF SameBooks
  <2> HIDE DEF t
  <2>5. ~ Ended(u, t) /\ ~ Refused(u, t)
    BY <2>2, <2>3, Numbers DEF SameBooks, SameTransfer
  <2>. QED
    BY <2>1, <2>2, <2>4, <2>5
<1>2. \A a : Current(s, n, a) => Current(u, n, a)
  BY DEF Current, SameBooks
<1>3. \A t \in Txn : SameTransfer(s, u, t)
  BY DEF SameBooks
<1>4. \A t \in Txn : u.digest_to_seqnum[t] = s.digest_to_seqnum[t]
  BY <1>3 DEF SameTransfer
<1>. QED
  BY <1>1, <1>2, <1>3, <1>4, SameTransferFacts

LEMMA SameCareful ==
  ASSUME NEW n \in Node, NEW s \in NodeState, NEW u \in NodeState,
         SameBooks(s, u), Own(s, n), Orderly(s, n), Named(u, n),
         u.balance_locks = s.balance_locks,
         NEW mo, NEW os, Careful(s, n, mo, os)
  PROVE  Careful(u, n, mo, os)
<1>1. WalOwned(s, n)
  BY DEF Careful
<1>2. /\ WalOwned(u, n)
      /\ \A a : Current(s, n, a) => Current(u, n, a)
      /\ \A t \in Txn : \A a :
           /\ Known(u, t, a) <=> Known(s, t, a)
           /\ Writes(u, t, a) <=> Writes(s, t, a)
           /\ Owner(u, n, t, a) <=> Owner(s, n, t, a)
      /\ \A t \in Txn : u.digest_to_seqnum[t] = s.digest_to_seqnum[t]
  BY <1>1, SameBooksFacts
<1>3. \A a, d : Guarded(s, n, a, d) => Guarded(u, n, a, d)
  BY <1>2 DEF Guarded
<1>4. \A a, d : Ordered(s, n, a, d) => Ordered(u, n, a, d)
  BY <1>2 DEF Ordered
<1>. QED
  BY <1>2, <1>3, <1>4 DEF Careful, AccountSafe

\* HandleMoveOn takes away the locks of transfers within the cluster that the
\* leader knows of.
LEMMA MoveOnCareful ==
  ASSUME NEW n \in Node, NEW s \in NodeState, NEW u \in NodeState,
         SameBooks(s, u), Own(s, n), Orderly(s, n), Named(u, n),
         NEW mo \in Nat, NEW os, NEW intra \in SUBSET Txn,
         \A t \in intra : IntraShard(t) /\ s.digest_to_seqnum[t] # 0,
         u.balance_locks =
           s.balance_locks \ UNION {{From[t], To[t]} : t \in intra},
         Careful(s, n, mo, os)
  PROVE  Careful(u, n, mo + 1, os)
<1>1. Careful(s, n, mo + 1, os)
  BY CarefulLater
<1>2. WalOwned(s, n)
  BY DEF Careful
<1>3. /\ WalOwned(u, n)
      /\ \A a : Current(s, n, a) => Current(u, n, a)
      /\ \A t \in Txn : \A a :
           /\ Known(u, t, a) <=> Known(s, t, a)
           /\ Writes(u, t, a) <=> Writes(s, t, a)
           /\ Owner(u, n, t, a) <=> Owner(s, n, t, a)
      /\ \A t \in Txn : u.digest_to_seqnum[t] = s.digest_to_seqnum[t]
  BY <1>2, SameBooksFacts
<1>5. ASSUME NEW a, Guarded(s, n, a, TRUE)
      PROVE  Guarded(u, n, a, TRUE)
  <2> SUFFICES ASSUME NEW t \in Txn, Owner(u, n, t, a), a \notin u.balance_locks,
                      ~ IntraShard(t)
               PROVE  \E y \in Txn \ {t} : Known(u, y, a)
    BY DEF Guarded
  <2>1. CASE a \in s.balance_locks
    <3>1. PICK y \in intra : a \in {From[y], To[y]}
      BY <2>1
    <3>2. Known(s, y, a) /\ y # t /\ y \in Txn
      BY <3>1 DEF Known, Touches
    <3>. QED
      BY <1>3, <3>2
  <2>2. CASE a \notin s.balance_locks
    BY <1>3, <1>5, <2>2 DEF Guarded
  <2>. QED
    BY <2>1, <2>2
<1>6. ASSUME NEW a, Ordered(s, n, a, TRUE)
      PROVE  Ordered(u, n, a, TRUE)
  BY <1>3, <1>6 DEF Ordered
<1>7. ASSUME NEW a, AccountSafe(s, n, a, TRUE)
      PROVE  AccountSafe(u, n, a, TRUE)
  BY <1>3, <1>5, <1>6, <1>7 DEF AccountSafe
<1>8. ASSUME NEW a \in Account, shard_map[a] = ClusterOf[n],
             UndoSafe(a, mo + 1, os), NEW d, d = Disturbed(a, mo + 1, os)
      PROVE  AccountSafe(u, n, a, d)
  <2>1. AccountSafe(s, n, a, d)
    BY <1>1, <1>8 DEF Careful
  <2>2. d = TRUE
    BY <1>8 DEF Disturbed
  <2>. QED
    BY <1>7, <2>1, <2>2
<1>. QED
  BY <1>3, <1>8 DEF Careful

-----------------------------------------------------------------------------
\* A leader claims a transfer.

\* It locks the accounts of its cluster, which are free, unless it votes A.
Admits(s, u, n, t, status) ==
  /\ u.accounts = s.accounts /\ u.wal = s.wal
  /\ s.balance_locks \subseteq u.balance_locks
  /\ status # "A" => \A a \in Account :
       shard_map[a] = ClusterOf[n] /\ Touches(t, a) =>
         a \in u.balance_locks /\ a \notin s.balance_locks

LEMMA ClaimedEntryIs ==
  ASSUME NEW s, NEW u, NEW n, NEW t, NEW status, Claims(s, u, n, t, status)
  PROVE  /\ u.accept_log[s.last_seqnum + 1].txn = t
         /\ u.accept_log[s.last_seqnum + 1].status = status
<1>1. u.accept_log[s.last_seqnum + 1] = FirstEntry(t, status)
  BY Zenon DEF Claims, FirstEntry
<1>2. FirstEntry(t, status).txn = t /\ FirstEntry(t, status).status = status
  BY DEF FirstEntry
<1>. QED
  BY <1>1, <1>2

LEMMA ClaimSame ==
  ASSUME NEW n \in Node, NEW s \in NodeState, NEW u, Orderly(s, n),
         NEW ms, Rounds(s, n, ms), NEW t \in Txn, NEW status,
         Claims(s, u, n, t, status), NEW y \in Txn, y # t
  PROVE  SameTransfer(s, u, y)
<1>1. u.digest_to_seqnum[y] = s.digest_to_seqnum[y]
  BY DEF Claims
<1>2. /\ Ran(u, y) <=> Ran(s, y)
      /\ Ended(u, y) <=> Ended(s, y)
  BY <1>1 DEF Claims, Ran, Ended
<1>3. ASSUME s.digest_to_seqnum[y] # 0
      PROVE  Refused(u, y) <=> Refused(s, y)
  <2>1. s.last_seqnum + 1 \in Seqnum
    BY DEF Claims
  <2>2. s.digest_to_seqnum[y] # s.last_seqnum + 1
    BY <2>1, FreshNumber
  <2>3. s.digest_to_seqnum[y] \in Seqnum
    BY <1>3, Numbers
  <2>4. u.accept_log[s.digest_to_seqnum[y]] = s.accept_log[s.digest_to_seqnum[y]]
    BY <2>2, <2>3 DEF Claims
  <2>. QED
    BY <1>1, <2>4 DEF Refused
<1>. QED
  BY <1>1, <1>2, <1>3 DEF SameTransfer

LEMMA ClaimAccount ==
  ASSUME NEW n \in Node, NEW s \in NodeState, NEW u, Own(s, n), Orderly(s, n),
         NEW ms, Rounds(s, n, ms), NEW t \in Txn, s.digest_to_seqnum[t] = 0,
         n \in {Coord(t), Part(t)}, NEW status \in FirstPhase,
         Claims(s, u, n, t, status), Admits(s, u, n, t, status),
         NEW a \in Account, shard_map[a] = ClusterOf[n], NEW d \in BOOLEAN,
         AtMostTwo(a) \/ ~ d,
         Guarded(s, n, a, d), Ordered(s, n, a, d)
  PROVE  Guarded(u, n, a, d) /\ Ordered(u, n, a, d)
<1> DEFINE seq == s.last_seqnum + 1
<1>1. /\ seq \in Seqnum /\ u.digest_to_seqnum[t] = seq
      /\ u.accept_log[seq].status = status
  <2>1. seq \in Seqnum /\ u.digest_to_seqnum[t] = seq
    BY DEF Claims
  <2>2. u.accept_log[seq].status = status
    BY ClaimedEntryIs
  <2>. QED
    BY <2>1, <2>2
<1>2. \A y \in Txn : y # t =>
        /\ Known(u, y, a) <=> Known(s, y, a)
        /\ Writes(u, y, a) <=> Writes(s, y, a)
        /\ Owner(u, n, y, a) <=> Owner(s, n, y, a)
        /\ u.digest_to_seqnum[y] = s.digest_to_seqnum[y]
  <2>1. \A y \in Txn : y # t => SameTransfer(s, u, y)
    BY ClaimSame
  <2>. QED
    BY <2>1, SameTransferFacts DEF SameTransfer
<1>3. \A y \in Txn : y # t => u.digest_to_seqnum[y] < seq
  <2>1. \A y \in Txn : s.digest_to_seqnum[y] <= s.last_seqnum
    BY DEF Orderly, Claimed
  <2>. QED
    BY <1>2, <2>1, Numbers
<1>4. Writes(u, t, a) => /\ a \in u.balance_locks /\ a \notin s.balance_locks
                         /\ Touches(t, a)
  <2>1. Refused(u, t) <=> status = "A"
    BY <1>1 DEF Refused, FirstPhase
  <2>. QED
    BY <2>1 DEF Writes, Known, Admits
<1>5. ~ Known(s, t, a) /\ ~ Owner(s, n, t, a)
  BY DEF Known, Owner, Holds
<1>6. Guarded(u, n, a, d)
  <2> SUFFICES ASSUME NEW y \in Txn, Owner(u, n, y, a)
               PROVE  \/ a \in u.balance_locks
                      \/ d /\ (IntraShard(y) \/ \E x \in Txn \ {y} : Known(u, x, a))
    BY DEF Guarded
  <2>1. CASE y = t
    BY <1>4, <2>1, OwnerWrites
  <2>2. CASE y # t
    <3>1. \/ a \in s.balance_locks
          \/ d /\ (IntraShard(y) \/ \E x \in Txn \ {y} : Known(s, x, a))
      BY <1>2, <2>2 DEF Guarded
    <3>2. s.balance_locks \subseteq u.balance_locks
      BY DEF Admits
    <3>. QED
      BY <1>2, <1>5, <3>1, <3>2
  <2>. QED
    BY <2>1, <2>2
<1>7. Ordered(u, n, a, d)
  <2> SUFFICES ASSUME NEW t1 \in Txn, NEW t2 \in Txn, Writes(u, t1, a),
                      Writes(u, t2, a), Owner(u, n, t1, a),
                      u.digest_to_seqnum[t1] < u.digest_to_seqnum[t2]
               PROVE  IntraShard(t1) /\ d
    BY DEF Ordered
  <2>1. t1 # t
    <3> SUFFICES ASSUME t1 = t PROVE FALSE
      OBVIOUS
    <3>1. u.digest_to_seqnum[t2] = seq \/ u.digest_to_seqnum[t2] < seq
      BY <1>1, <1>3
    <3>2. seq \in Int /\ (t2 # t => u.digest_to_seqnum[t2] \in Int)
      BY <1>1, <1>2, Numbers
    <3>. QED
      BY <1>1, <1>3, <3>1, <3>2
  <2>2. CASE t2 # t
    BY <1>2, <2>1, <2>2 DEF Ordered
  <2>3. CASE t2 = t
    <3>1. a \notin s.balance_locks /\ Touches(t, a)
      BY <1>4, <2>3
    <3>2. Owner(s, n, t1, a)
      BY <1>2, <2>1
    <3>3. d /\ (IntraShard(t1) \/ \E y \in Txn \ {t1} : Known(s, y, a))
      BY <3>1, <3>2 DEF Guarded
    <3>4. ASSUME NEW y \in Txn \ {t1}, Known(s, y, a) PROVE FALSE
      <4>1. Touches(t1, a) /\ Touches(y, a)
        BY <3>2, <3>4, OwnerWrites DEF Writes, Known
      <4>2. y # t
        BY <1>5, <3>4
      <4>. QED
        BY <2>1, <3>1, <3>3, <3>4, <4>1, <4>2 DEF AtMostTwo
    <3>. QED
      BY <3>3, <3>4
  <2>. QED
    BY <2>2, <2>3
<1>. QED
  BY <1>6, <1>7

LEMMA ClaimCareful ==
  ASSUME NEW n \in Node, NEW s \in NodeState, NEW u \in NodeState, Own(s, n),
         Orderly(s, n), NEW ms, Rounds(s, n, ms), NEW t \in Txn,
         t \notin s.pending_or_completed_ts,
         n \in {Coord(t), Part(t)}, NEW status \in FirstPhase,
         Suits(t, ClusterOf[n], status),
         Claims(s, u, n, t, status), Admits(s, u, n, t, status),
         NEW mo, NEW os, Careful(s, n, mo, os)
  PROVE  Careful(u, n, mo, os)
<1> DEFINE seq == s.last_seqnum + 1
<1>1. s.digest_to_seqnum[t] = 0
  BY DEF Orderly, Claimed
<1>2. seq \in Seqnum
  BY DEF Claims
<1>3. /\ seq > s.last_seqnum /\ seq > s.last_executed_seq
  BY <1>2, FreshNumber
<1>4. /\ \A x \in Seqnum : x # seq => u.accept_log[x] = s.accept_log[x]
      /\ u.accept_log[seq].txn = t /\ u.accept_log[seq].status = status
      /\ u.last_executed_seq = s.last_executed_seq /\ u.last_seqnum = seq
  <2>1. u.accept_log[seq].txn = t /\ u.accept_log[seq].status = status
    BY ClaimedEntryIs
  <2>. QED
    BY <2>1 DEF Claims
<1>5. u.wal = s.wal /\ u.accounts = s.accounts
  BY DEF Admits
<1>6. \A y \in Txn : y # t => SameTransfer(s, u, y)
  BY ClaimSame
<1>7. \A x \in Seqnum : x <= s.last_seqnum =>
        LET y == s.accept_log[x].txn
        IN /\ x # seq /\ y \in Txn /\ y # t
           /\ Refused(u, y) <=> Refused(s, y)
           /\ Ended(u, y) <=> Ended(s, y)
  <2> SUFFICES ASSUME NEW x \in Seqnum, x <= s.last_seqnum, NEW y,
                      y = s.accept_log[x].txn
               PROVE  /\ x # seq /\ y \in Txn /\ y # t
                      /\ Refused(u, y) <=> Refused(s, y)
                      /\ Ended(u, y) <=> Ended(s, y)
    OBVIOUS
  <2>1. y \in Txn /\ s.digest_to_seqnum[y] = x /\ x # 0
    BY EntryOf
  <2>2. x # seq
    BY <1>3, Numbers
  <2>. QED
    BY <1>1, <1>6, <2>1, <2>2 DEF SameTransfer
<1> HIDE DEF seq
<1>8. WalOwned(u, n)
  <2> SUFFICES ASSUME NEW x \in Seqnum, u.wal[x].written
               PROVE  LET y == u.accept_log[x].txn
                      IN /\ x <= u.last_executed_seq
                         /\ ~ IntraShard(y) /\ ~ Ended(u, y) /\ ~ Refused(u, y)
    BY DEF WalOwned
  <2>1. LET y == s.accept_log[x].txn
        IN /\ x <= s.last_executed_seq
           /\ ~ IntraShard(y) /\ ~ Ended(s, y) /\ ~ Refused(s, y)
    BY <1>5 DEF Careful, WalOwned
  <2>2. x <= s.last_seqnum
    BY <2>1, Numbers DEF Orderly
  <2>. QED
    BY <1>4, <1>7, <2>1, <2>2
<1>9. Named(u, n)
  <2> SUFFICES ASSUME NEW x \in Seqnum, x <= u.last_seqnum
               PROVE  Suits(u.accept_log[x].txn, ClusterOf[n],
                            u.accept_log[x].status)
    BY DEF Named
  <2>1. CASE x = seq
    BY <1>4, <2>1
  <2>2. CASE x # seq
    <3>1. x <= s.last_seqnum
      BY <1>4, <2>2, Numbers DEF seq
    <3>. QED
      BY <1>4, <2>2, <3>1 DEF Careful, Named
  <2>. QED
    BY <2>1, <2>2
<1>10. ASSUME NEW a \in Account, shard_map[a] = ClusterOf[n], UndoSafe(a, mo, os)
       PROVE  AccountSafe(u, n, a, Disturbed(a, mo, os))
  <2> DEFINE d == Disturbed(a, mo, os)
  <2>1. AccountSafe(s, n, a, d)
    BY <1>10 DEF Careful
  <2>2. (AtMostTwo(a) \/ ~ d) /\ d \in BOOLEAN
    BY <1>10 DEF UndoSafe, Disturbed
  <2> HIDE DEF d
  <2>3. Guarded(s, n, a, d) /\ Ordered(s, n, a, d) /\ Current(s, n, a)
    BY <2>1 DEF AccountSafe
  <2>4. Guarded(u, n, a, d) /\ Ordered(u, n, a, d)
    BY <1>1, <1>10, <2>2, <2>3, ClaimAccount
  <2>5. Current(u, n, a)
    <3> SUFFICES ASSUME NEW x \in Seqnum, u.wal[x].written,
                        LocalAccount(n, u.accept_log[x].txn) = a
                 PROVE  u.accounts[a] = u.wal[x].after_value
      BY DEF Current
    <3>1. x <= s.last_executed_seq
      BY <1>5 DEF Careful, WalOwned
    <3>2. x # seq
      BY <1>2, <1>3, <3>1, Numbers
    <3>. QED
      BY <1>4, <1>5, <2>3, <3>2 DEF Current
  <2>. QED
    BY <2>4, <2>5 DEF AccountSafe, d
<1>. QED
  BY <1>8, <1>9, <1>10 DEF Careful

-----------------------------------------------------------------------------
\* A leader executes the next entry.

\* It writes a balance and the undo information for it.
Logs(s, w, seq, a) ==
  \E v \in Int, r \in WalRecord :
    /\ r.written /\ r.after_value = v
    /\ w.accounts = [s.accounts EXCEPT ![a] = v]
    /\ w.wal = [s.wal EXCEPT ![seq] = r]

Effect(s, w, seq, t, status) ==
  \/ /\ IntraShard(t) /\ w.wal = s.wal
     /\ \A a \in Account : ~ Touches(t, a) => w.accounts[a] = s.accounts[a]
  \/ ~ IntraShard(t) /\ w.wal = s.wal /\ w.accounts = s.accounts
  \/ ~ IntraShard(t) /\ status = "P" /\ Logs(s, w, seq, To[t])
  \/ ~ IntraShard(t) /\ status = "COORD" /\ Logs(s, w, seq, From[t])

LEMMA RunEffect ==
  ASSUME NEW n \in Node, NEW s, Sound(s, n), NEW seq \in Seqnum, NEW t \in Txn,
         NEW status, Plain(t, status)
  PROVE  Effect(s, AfterRun(s, seq, t, status), seq, t, status)
<1> DEFINE moved == [s EXCEPT !.last_executed_seq = seq]
           ran == ExecuteTransaction(moved, seq, t, status)
           u == Trimmed(ran, seq)
<1>1. s \in NodeState /\ seq \in 0 .. MaxSeq
  BY ConstantsAssumption DEF Sound, Seqnum
<1>2. /\ moved \in NodeState
      /\ moved.accounts = s.accounts /\ moved.wal = s.wal
  BY <1>1 DEF NodeState
<1>3. /\ moved.out = s.out /\ moved.digest_to_seqnum = s.digest_to_seqnum
      /\ moved.in_flight_prepares = s.in_flight_prepares
      /\ moved.accept_log = s.accept_log
      /\ moved.entries_to_commit = s.entries_to_commit
  BY <1>1 DEF NodeState
<1> HIDE DEF moved
<1>4. Sound(moved, n)
  BY <1>2, <1>3, SameAnchors DEF Kept
<1>5. ran \in NodeState
  BY <1>4, ExecuteSound DEF Sound
<1>6. /\ moved.accounts \in [Account -> Int] /\ moved.wal \in [Seqnum -> WalRecord]
      /\ From[t] \in Account /\ To[t] \in Account
      /\ Amount[t] \in Int
  <2>1. moved.accounts \in [Account -> Int] /\ moved.wal \in [Seqnum -> WalRecord]
    BY <1>2 DEF NodeState
  <2>2. From[t] \in Account /\ To[t] \in Account /\ Amount[t] \in Int
    BY ConstantsAssumption
  <2>. QED
    BY <2>1, <2>2
<1>7. ASSUME IntraShard(t)
      PROVE  Effect(s, ran, seq, t, status)
  <2> DEFINE unlocked == [moved EXCEPT !.balance_locks = @ \ {From[t], To[t]}]
             paid == [unlocked EXCEPT !.accounts = Transferred(moved.accounts, t)]
  <2>1. [unlocked EXCEPT !.accounts = Transferred(@, t)] = paid
    BY <1>2 DEF NodeState
  <2>2. ran \in {paid, unlocked}
    BY <1>7, <2>1 DEF ExecuteTransaction, Plain
  <2>3. /\ unlocked \in NodeState
        /\ unlocked.accounts = moved.accounts /\ unlocked.wal = moved.wal
    BY <1>2 DEF NodeState
  <2> HIDE DEF unlocked
  <2>4. /\ paid.accounts = Transferred(moved.accounts, t)
        /\ paid.wal = unlocked.wal
    BY <2>3 DEF NodeState
  <2>5. \A a \in Account :
          ~ Touches(t, a) => Transferred(moved.accounts, t)[a] = moved.accounts[a]
    BY <1>6 DEF Transferred, Touches
  <2> HIDE DEF paid, ran
  <2>. QED
    BY <1>2, <1>7, <2>2, <2>3, <2>4, <2>5 DEF Effect
<1>8. ASSUME NEW a \in Account, NEW v \in Int,
             ran = [moved EXCEPT
                      !.accounts[a] = v,
                      !.wal[seq] = [before_value |-> moved.accounts[a],
                                    after_value |-> v, written |-> TRUE]]
      PROVE  Logs(s, ran, seq, a)
  <2> DEFINE r == [before_value |-> moved.accounts[a], after_value |-> v,
                   written |-> TRUE]
  <2>1. r \in WalRecord /\ r.written /\ r.after_value = v
    BY <1>6 DEF WalRecord
  <2>2. /\ ran.accounts = [moved.accounts EXCEPT ![a] = v]
        /\ ran.wal = [moved.wal EXCEPT ![seq] = r]
    BY <1>2, <1>8 DEF NodeState
  <2> HIDE DEF r, ran
  <2>. QED
    BY <1>2, <2>1, <2>2 DEF Logs
<1>9. ASSUME ~ IntraShard(t), status = "P", Sufficient(moved, t)
      PROVE  Effect(s, ran, seq, t, status)
  <2>1. ran = [moved EXCEPT
                 !.accounts[To[t]] = moved.accounts[To[t]] + Amount[t],
                 !.wal[seq] = [before_value |-> moved.accounts[To[t]],
                               after_value |-> moved.accounts[To[t]] + Amount[t],
                               written |-> TRUE]]
    BY <1>9 DEF ExecuteTransaction
  <2>2. moved.accounts[To[t]] + Amount[t] \in Int
    BY <1>6
  <2> HIDE DEF ran
  <2>3. Logs(s, ran, seq, To[t])
    BY <1>6, <1>8, <2>1, <2>2
  <2>. QED
    BY <1>9, <2>3 DEF Effect
<1>10. ASSUME ~ IntraShard(t), status = "COORD", Sufficient(moved, t)
       PROVE  Effect(s, ran, seq, t, status)
  <2>1. ran = [moved EXCEPT
                 !.accounts[From[t]] = moved.accounts[From[t]] - Amount[t],
                 !.wal[seq] = [before_value |-> moved.accounts[From[t]],
                               after_value |-> moved.accounts[From[t]] - Amount[t],
                               written |-> TRUE]]
    BY <1>10 DEF ExecuteTransaction
  <2>2. moved.accounts[From[t]] - Amount[t] \in Int
    BY <1>6
  <2> HIDE DEF ran
  <2>3. Logs(s, ran, seq, From[t])
    BY <1>6, <1>8, <2>1, <2>2
  <2>. QED
    BY <1>10, <2>3 DEF Effect
<1>11. ASSUME ~ IntraShard(t),
              ~ (status \in {"P", "COORD"} /\ Sufficient(moved, t))
       PROVE  Effect(s, ran, seq, t, status)
  <2>1. ran = moved
    BY <1>11 DEF ExecuteTransaction
  <2>. QED
    BY <1>2, <1>11, <2>1 DEF Effect
<1>12. Effect(s, ran, seq, t, status)
  BY <1>7, <1>9, <1>10, <1>11
<1> HIDE DEF ran
<1>13. u.accounts = ran.accounts /\ u.wal = ran.wal
  BY <1>5, ZenonT(60) DEF Trimmed, NodeState
<1> HIDE DEF u
<1>14. Effect(s, u, seq, t, status)
  BY <1>12, <1>13 DEF Effect, Logs
<1>. QED
  BY <1>14 DEF u, ran, moved, AfterRun

\* A refusal is the vote of a participant, and the words about a transfer agree
\* with the vote.
LEMMA RefusedIs ==
  ASSUME NEW n \in Node, Leads(n), NEW s \in NodeState, Own(s, n), Orderly(s, n),
         Named(s, n), NEW T, NEW Y, NEW N, Fits(s, n, T, Y, N), Y \cap N = {},
         NEW t \in Txn, s.digest_to_seqnum[t] # 0
  PROVE  /\ Refused(s, t) <=> (~ IntraShard(t) /\ n = Part(t) /\ t \in N)
         /\ LET c == s.entries_to_commit[s.digest_to_seqnum[t]]
            IN c # NoCommit => (c.status = "A" <=> Refused(s, t))
<1> DEFINE seq == s.digest_to_seqnum[t]
           status == s.accept_log[seq].status
           c == s.entries_to_commit[seq]
<1>1. seq \in Seqnum /\ seq <= s.last_seqnum /\ s.accept_log[seq].txn = t
  BY ClaimedEntry
<1>2. Suits(t, ClusterOf[n], status)
  BY <1>1 DEF Named
<1>3. Agrees(t, status, Y, N)
  BY <1>1 DEF Fits, LogFits
<1>4. c # NoCommit =>
        Suits(t, ClusterOf[n], c.status) /\ Agrees(t, c.status, Y, N)
        /\ c.status \in FirstPhase
  <2>1. c # NoCommit => /\ c.txn = t /\ c.status \in FirstPhase
                        /\ Suits(t, ClusterOf[n], c.status)
    BY <1>1 DEF Orderly, Filed
  <2>2. c # NoCommit => Agrees(c.txn, c.status, Y, N)
    BY <1>1 DEF Fits, CommitsFit
  <2>. QED
    BY <2>1, <2>2
<1>5. Refused(s, t) <=> status \in {"A", "A_PART_COMMIT"}
  BY DEF Refused
<1>6. Coord(t) = Part(t) <=> IntraShard(t)
  BY LeadersDiffer
<1> HIDE DEF status, c
<1>7. CASE n = Coord(t)
  <2>1. status \in {"", "COORD", "C_COORD", "A_COORD"}
    BY <1>2, <1>6, <1>7, SuitsWhere DEF Suits
  <2>2. c # NoCommit => c.status # "A"
    BY <1>4, <1>6, <1>7, SuitsWhere
  <2>3. ~ Refused(s, t)
    BY <1>5, <2>1
  <2>. QED
    BY <1>6, <1>7, <2>2, <2>3 DEF c
<1>8. CASE n # Coord(t)
  <2>1. n = Part(t) /\ ~ IntraShard(t)
    BY <1>2, <1>6, <1>8, SuitsWhere
  <2>2. status \in {"P", "A", "C", "A_PART_COMMIT"}
    BY <1>2, <1>8, <2>1, SuitsWhere DEF Suits
  <2>3. status \in {"A", "A_PART_COMMIT"} <=> t \in N
    BY <1>3, <2>2 DEF Agrees, YesWords, NoWords
  <2>4. c # NoCommit => c.status \in {"P", "A"}
    BY <1>4, <1>8, <2>1, SuitsWhere DEF Suits, FirstPhase
  <2>5. c # NoCommit => (c.status = "A" <=> t \in N)
    BY <1>4, <2>4 DEF Agrees, YesWords, NoWords
  <2>. QED
    BY <1>5, <2>1, <2>3, <2>5 DEF c
<1>. QED
  BY <1>7, <1>8

LEMMA RunsAccount ==
  ASSUME NEW n \in Node, Leads(n), NEW s \in NodeState, NEW u \in NodeState,
         Own(s, n), Orderly(s, n), WalOwned(s, n), NEW t \in Txn,
         n \in {Coord(t), Part(t)}, NEW status,
         s.digest_to_seqnum[t] = s.last_executed_seq + 1,
         status \in {"P", "COORD"} => /\ ~ Refused(s, t)
                                      /\ n = IF status = "P" THEN Part(t)
                                                             ELSE Coord(t),
         IntraShard(t) => ~ Refused(s, t) /\ Ran(u, t),
         ~ IntraShard(t) => (Ended(u, t) <=> Ended(s, t)),
         Refused(u, t) <=> Refused(s, t),
         \A y \in Txn : y # t => SameTransfer(s, u, y),
         u.digest_to_seqnum = s.digest_to_seqnum,
         u.accept_log = s.accept_log,
         Effect(s, u, s.digest_to_seqnum[t], t, status),
         u.balance_locks = IF IntraShard(t)
                           THEN s.balance_locks \ {From[t], To[t]}
                           ELSE s.balance_locks,
         NEW a \in Account, shard_map[a] = ClusterOf[n], NEW d,
         AccountSafe(s, n, a, d)
  PROVE  AccountSafe(u, n, a, d)
<1>0. /\ Guarded(s, n, a, d) /\ Ordered(s, n, a, d) /\ Current(s, n, a)
  BY DEF AccountSafe
<1>1. \A y \in Txn : y # t =>
        /\ Known(u, y, a) <=> Known(s, y, a)
        /\ Writes(u, y, a) <=> Writes(s, y, a)
        /\ Owner(u, n, y, a) <=> Owner(s, n, y, a)
  BY SameTransferFacts
<1>2. /\ Known(u, t, a) <=> Known(s, t, a)
      /\ Writes(u, t, a) <=> Writes(s, t, a)
  BY DEF Known, Writes
<1>3. /\ Owner(u, n, t, a) => ~ IntraShard(t) /\ Owner(s, n, t, a)
      /\ IntraShard(t) /\ Touches(t, a) => Owner(s, n, t, a)
  <2>1. s.digest_to_seqnum[t] # 0 /\ ~ Ran(s, t)
    BY Numbers DEF Ran
  <2>2. Owner(u, n, t, a) => ~ IntraShard(t) /\ Owner(s, n, t, a)
    BY DEF Owner, Holds
  <2>3. IntraShard(t) /\ Touches(t, a) => Owner(s, n, t, a)
    BY <2>1 DEF Owner, Holds, Touches
  <2>. QED
    BY <2>2, <2>3
<1>4. Ordered(u, n, a, d)
  BY <1>0, <1>1, <1>2, <1>3 DEF Ordered
<1>10. /\ s.accounts \in [Account -> Int] /\ s.wal \in [Seqnum -> WalRecord]
       /\ s.digest_to_seqnum[t] \in Seqnum
  <2>1. s.accounts \in [Account -> Int] /\ s.wal \in [Seqnum -> WalRecord]
    BY DEF NodeState
  <2>. QED
    BY <2>1, Numbers
\* Whoever owned the account before and wrote undo information has given way.
<1>5. ASSUME NEW seq \in Seqnum, s.wal[seq].written,
             LocalAccount(n, s.accept_log[seq].txn) = a, Writes(s, t, a)
      PROVE  FALSE
  <2> DEFINE y == s.accept_log[seq].txn
  <2>1. /\ y \in Txn /\ s.digest_to_seqnum[y] = seq /\ seq <= s.last_executed_seq
        /\ ~ IntraShard(y) /\ Owner(s, n, y, a) /\ Writes(s, y, a)
    BY <1>5, WalOwner
  <2> HIDE DEF y
  <2>2. s.digest_to_seqnum[y] < s.digest_to_seqnum[t]
    BY <2>1, Numbers
  <2>. QED
    BY <1>0, <1>5, <2>1, <2>2 DEF Ordered
<1>6. CASE IntraShard(t) /\ Touches(t, a)
  <2>1. Owner(s, n, t, a) /\ Writes(s, t, a) /\ Known(s, t, a)
    BY <1>3, <1>6, OwnerWrites DEF Writes
  <2>2. Current(u, n, a)
    BY <1>5, <1>6, <2>1 DEF Current, Effect
  <2>3. Guarded(u, n, a, d)
    <3> SUFFICES ASSUME NEW y \in Txn, Owner(u, n, y, a)
                 PROVE  d /\ (IntraShard(y) \/ \E x \in Txn \ {y} : Known(u, x, a))
      BY DEF Guarded
    <3>1. y # t /\ Owner(s, n, y, a) /\ Writes(s, y, a)
      BY <1>1, <1>3, <1>6, OwnerWrites
    <3>2. /\ s.digest_to_seqnum[y] \in Int /\ s.digest_to_seqnum[t] \in Int
          /\ s.digest_to_seqnum[y] # s.digest_to_seqnum[t]
      BY <2>1, <3>1, ClaimedEntry, Numbers DEF Writes, Known
    <3>3. CASE s.digest_to_seqnum[y] < s.digest_to_seqnum[t]
      BY <1>0, <2>1, <3>1, <3>3 DEF Ordered
    <3>4. CASE s.digest_to_seqnum[t] < s.digest_to_seqnum[y]
      BY <1>0, <1>2, <2>1, <3>1, <3>4 DEF Ordered
    <3>. QED
      BY <3>2, <3>3, <3>4
  <2>. QED
    BY <1>4, <2>2, <2>3 DEF AccountSafe
<1>7. Guarded(u, n, a, d) \/ (IntraShard(t) /\ Touches(t, a))
  <2>1. a \in s.balance_locks => \/ a \in u.balance_locks
                                 \/ IntraShard(t) /\ Touches(t, a)
    BY DEF Touches
  <2>. QED
    BY <1>0, <1>1, <1>2, <1>3, <2>1 DEF Guarded
<1>8. CASE ~ Touches(t, a) \/ (u.wal = s.wal /\ u.accounts = s.accounts)
  <2>1. /\ u.accounts[a] = s.accounts[a]
        /\ \A seq \in Seqnum : u.wal[seq].written /\ LocalAccount(n, s.accept_log[seq].txn) = a =>
             s.wal[seq].written /\ u.wal[seq].after_value = s.wal[seq].after_value
    <3>1. CASE u.wal = s.wal
      <4>1. ~ Touches(t, a) => u.accounts[a] = s.accounts[a]
        BY <1>10 DEF Effect, Logs, Touches
      <4>. QED
        BY <1>8, <3>1, <4>1
    <3>2. CASE u.wal # s.wal
      <4>1. ~ Touches(t, a)
        BY <1>8, <3>2
      <4>2. s.accept_log[s.digest_to_seqnum[t]].txn = t
        BY Numbers, ClaimedEntry
      <4>3. LocalAccount(n, t) # a
        BY <4>1, LocalAccounts
      <4>4. \A seq \in Seqnum :
              seq # s.digest_to_seqnum[t] => u.wal[seq] = s.wal[seq]
        BY <1>10, <3>2 DEF Effect, Logs
      <4>5. u.accounts[a] = s.accounts[a]
        BY <1>10, <3>2, <4>1 DEF Effect, Logs, Touches
      <4>. QED
        BY <4>2, <4>3, <4>4, <4>5
    <3>. QED
      BY <3>1, <3>2
  <2>2. Current(u, n, a)
    BY <1>0, <2>1 DEF Current
  <2>3. CASE ~ (IntraShard(t) /\ Touches(t, a))
    BY <1>4, <1>7, <2>2, <2>3 DEF AccountSafe
  <2>. QED
    BY <1>6, <2>3
<1>9. CASE Touches(t, a) /\ ~ IntraShard(t) /\ ~ (u.wal = s.wal /\ u.accounts = s.accounts)
  <2>1. /\ status \in {"P", "COORD"} /\ ~ Refused(s, t)
        /\ Logs(s, u, s.digest_to_seqnum[t], LocalAccount(n, t))
    BY <1>9, LocalAccounts, LeadersDiffer DEF Effect
  <2>2. a = LocalAccount(n, t)
    BY <1>9, LocalAccounts
  <2>3. Writes(s, t, a)
    BY <1>9, <2>1, Numbers DEF Writes, Known
  <2>4. Current(u, n, a)
    <3>1. PICK v \in Int, r \in WalRecord :
            /\ r.written /\ r.after_value = v
            /\ u.accounts = [s.accounts EXCEPT ![a] = v]
            /\ u.wal = [s.wal EXCEPT ![s.digest_to_seqnum[t]] = r]
      BY <2>1, <2>2 DEF Logs
    <3>2. u.accounts[a] = v
      BY <1>10, <3>1
    <3>3. \A seq \in Seqnum : IF seq = s.digest_to_seqnum[t] THEN u.wal[seq] = r
                              ELSE u.wal[seq] = s.wal[seq]
      BY <1>10, <3>1
    <3>. QED
      BY <1>5, <2>3, <3>1, <3>2, <3>3 DEF Current
  <2>. QED
    BY <1>4, <1>7, <1>9, <2>4 DEF AccountSafe
<1>. QED
  BY <1>6, <1>8, <1>9

LEMMA RunsCareful ==
  ASSUME NEW n \in Node, Leads(n), NEW s \in NodeState, NEW u \in NodeState,
         Own(s, n), Orderly(s, n), NEW ms, Rounds(s, n, ms), LocksHeld(s, n),
         NEW T, NEW Y, NEW N, Fits(s, n, T, Y, N), Y \cap N = {},
         NEW seq, NEW t, NextIs(s, seq, t), Runs(s, u, n, t),
         Effect(s, u, seq, t, s.entries_to_commit[seq].status),
         NEW mo, NEW os, Careful(s, n, mo, os)
  PROVE  Careful(u, n, mo, os)
<1> DEFINE status == s.entries_to_commit[seq].status
<1>1. /\ seq \in Seqnum /\ seq = s.last_executed_seq + 1
      /\ s.entries_to_commit[seq] # NoCommit
  BY DEF NextIs
<1>2. /\ t \in Txn /\ s.digest_to_seqnum[t] = seq /\ status \in FirstPhase
      /\ Suits(t, ClusterOf[n], status) /\ seq <= s.last_seqnum
  <2>1. NextFits(s, n, seq, t)
    BY NextEntry
  <2>. QED
    BY <2>1 DEF NextFits
<1>3. /\ n \in {Coord(t), Part(t)}
      /\ status = "COORD" => n = Coord(t)
      /\ status = "P" => n = Part(t)
  BY <1>2, SuitsWhere
<1>4. /\ u.last_executed_seq = seq /\ u.last_seqnum = s.last_seqnum
      /\ u.digest_to_seqnum = s.digest_to_seqnum
      /\ u.accept_log = s.accept_log
      /\ u.accepted_count_two_pc_commit = s.accepted_count_two_pc_commit
      /\ u.balance_locks = IF IntraShard(t)
                           THEN s.balance_locks \ {From[t], To[t]}
                           ELSE s.balance_locks
  BY <1>1 DEF Runs
<1>5. \A y \in Txn : (Ended(u, y) <=> Ended(s, y)) /\ (Refused(u, y) <=> Refused(s, y))
  BY <1>4 DEF Ended, Refused
<1>6. \A y \in Txn : y # t => SameTransfer(s, u, y)
  <2>1. \A y \in Txn : y # t => Undisturbed(s, u, n, y)
    BY RunsKeeps
  <2>. QED
    BY <1>4, <1>5, <2>1 DEF SameTransfer, Undisturbed
<1>7. Ran(u, t) /\ ~ Ran(s, t)
  BY RunsKeeps
<1>8. /\ WalOwned(s, n) /\ Named(s, n)
  BY DEF Careful
<1>9. seq # 0
  BY <1>1, Numbers
<1>10. status = "A" <=> Refused(s, t)
  BY <1>1, <1>2, <1>8, <1>9, RefusedIs
<1>11. IntraShard(t) => ~ Refused(s, t)
  BY <1>2, <1>8, <1>9, RefusedIs
<1>12. ~ Ended(s, t)
  <2> SUFFICES ASSUME Ended(s, t) PROVE FALSE
    OBVIOUS
  <2>1. <<seq, 1, n>> \in s.accepted_count_two_pc_commit
    BY <1>2, EndedIsBegun DEF Begun
  <2>2. seq <= s.last_executed_seq
    BY <1>1, <2>1 DEF Orderly, Filed
  <2>. QED
    BY <1>1, <2>2, Numbers
<1> HIDE DEF status
<1>13. Effect(s, u, seq, t, status)
  BY DEF status
<1>14. WalOwned(u, n)
  <2> SUFFICES ASSUME NEW x \in Seqnum, u.wal[x].written
               PROVE  LET y == u.accept_log[x].txn
                      IN /\ x <= u.last_executed_seq
                         /\ ~ IntraShard(y) /\ ~ Ended(u, y) /\ ~ Refused(u, y)
    BY DEF WalOwned
  <2>1. CASE s.wal[x].written
    <3>1. s.accept_log[x].txn \in Txn
      BY <1>8, <2>1, WalOwner
    <3>2. x <= s.last_executed_seq
      BY <1>8, <2>1 DEF WalOwned
    <3>3. x <= u.last_executed_seq
      BY <1>1, <1>4, <3>2, Numbers
    <3>. QED
      BY <1>4, <1>5, <1>8, <2>1, <3>1, <3>3 DEF WalOwned
  <2>2. CASE ~ s.wal[x].written
    <3>1. s.wal \in [Seqnum -> WalRecord]
      BY DEF NodeState
    <3>2. x = seq /\ ~ IntraShard(t) /\ status # "A"
      <4>1. u.wal # s.wal
        BY <2>2
      <4>2. /\ ~ IntraShard(t) /\ status \in {"P", "COORD"}
            /\ \E a : Logs(s, u, seq, a)
        BY <1>13, <4>1 DEF Effect
      <4>3. x = seq
        BY <1>1, <2>2, <3>1, <4>2 DEF Logs
      <4>. QED
        BY <4>2, <4>3
    <3>3. s.accept_log[seq].txn = t
      BY <1>2, <1>9, ClaimedEntry
    <3>. QED
      BY <1>1, <1>2, <1>4, <1>5, <1>10, <1>12, <3>2, <3>3, Numbers
  <2>. QED
    BY <2>1, <2>2
<1>15. Named(u, n)
  BY <1>4, <1>8 DEF Named
<1>16. status \in {"P", "COORD"} =>
         /\ ~ Refused(s, t)
         /\ n = IF status = "P" THEN Part(t) ELSE Coord(t)
  BY <1>3, <1>10
<1>17. ASSUME NEW a \in Account, shard_map[a] = ClusterOf[n], NEW d,
              AccountSafe(s, n, a, d)
       PROVE  AccountSafe(u, n, a, d)
  BY <1>1, <1>2, <1>3, <1>4, <1>5, <1>6, <1>7, <1>8, <1>11, <1>13, <1>16, <1>17,
     RunsAccount
<1>. QED
  BY <1>14, <1>15, <1>17 DEF Careful

-----------------------------------------------------------------------------
\* Votes and decisions on their way.

\* What Fresh is about.
SecondMail(m) == \/ m.type = "Accept" /\ m.e.status \in SecondPhase
                 \/ m.type = "Ack" /\ m.status \in SecondPhase
DecisionMail(m) == m.type = "TwoPC" /\ m.what \in Vote /\ m.to = Part(m.txn)

LEMMA PartLeads ==
  ASSUME NEW t \in Txn
  PROVE  Part(t) \in Node /\ Leads(Part(t)) /\ Coord(t) \in Node /\ Leads(Coord(t))
  BY LeadersDiffer DEF Leads, Part, Coord

\* Steps that send nothing of the kind.
LEMMA QuietVotes ==
  ASSUME NEW s, NEW u, NEW n, NEW ms, NEW ms2, FreshVotes(s, n, ms),
         u.accepted_count_two_pc_commit = s.accepted_count_two_pc_commit,
         \A m \in ms2 \ ms : ~ SecondMail(m)
  PROVE  FreshVotes(u, n, ms2)
<1>1. \A m, q, seq : Chases(m, n, q, seq, SecondPhase) => SecondMail(m)
  BY DEF Chases, SecondMail
<1>2. \A m \in ms2 : SecondMail(m) => m \in ms
  OBVIOUS
<1>. QED
  BY <1>1, <1>2 DEF FreshVotes

LEMMA QuietDecision ==
  ASSUME NEW P, NEW P2, NEW t, NEW ms, NEW ms2, FreshDecision(P, t, ms),
         Begun(P2, Part(t), t) => Begun(P, Part(t), t),
         \A m \in ms2 \ ms : ~ (DecisionMail(m) /\ m.txn = t)
  PROVE  FreshDecision(P2, t, ms2)
<1>1. \A m : Brings(m, Part(t), t, Vote) => DecisionMail(m) /\ m.txn = t
  BY DEF Brings, DecisionMail
<1>2. \A m \in ms2 : DecisionMail(m) /\ m.txn = t => m \in ms
  OBVIOUS
<1>. QED
  BY <1>1, <1>2 DEF FreshDecision

LEMMA QuietFresh ==
  ASSUME NEW nd, nd \in [Node -> NodeState], NEW ms, NEW ms2, Fresh(nd, ms),
         NEW n \in Node, NEW u,
         Leads(n) => /\ u.accepted_count_two_pc_commit
                          = nd[n].accepted_count_two_pc_commit
                     /\ \A t \in Txn : Begun(u, n, t) => Begun(nd[n], n, t),
         \A m \in ms2 \ ms : ~ SecondMail(m) /\ ~ DecisionMail(m)
  PROVE  Fresh([nd EXCEPT ![n] = u], ms2)
<1> DEFINE nd2 == [nd EXCEPT ![n] = u]
<1>1. nd2[n] = u /\ \A q \in Node : q # n => nd2[q] = nd[q]
  OBVIOUS
<1> HIDE DEF nd2
<1>2. ASSUME NEW q \in Node, Leads(q)
      PROVE  FreshVotes(nd2[q], q, ms2)
  <2>1. FreshVotes(nd[q], q, ms)
    BY <1>2 DEF Fresh
  <2>2. nd2[q].accepted_count_two_pc_commit = nd[q].accepted_count_two_pc_commit
    BY <1>1, <1>2
  <2>. QED
    BY <2>1, <2>2, QuietVotes
<1>3. ASSUME NEW t \in Txn, ~ IntraShard(t)
      PROVE  FreshDecision(nd2[Part(t)], t, ms2)
  <2>1. FreshDecision(nd[Part(t)], t, ms)
    BY <1>3 DEF Fresh
  <2>2. Begun(nd2[Part(t)], Part(t), t) => Begun(nd[Part(t)], Part(t), t)
    BY <1>1, PartLeads
  <2>. QED
    BY <2>1, <2>2, QuietDecision
<1>. QED
  BY <1>2, <1>3 DEF Fresh, nd2

\* The second phases proposed by the messages that ms2 adds to ms.
Proposing(ms, ms2, accepts) ==
  \A m \in ms2 \ ms : SecondMail(m) => m \in accepts

\* Node n, on its way from nd[n] to v, has not begun the second phase of t.
Undecided(nd, n, v, t) ==
  /\ ~ Begun(v, n, t) /\ ~ Begun(nd[n], n, t)
  /\ v.digest_to_seqnum = nd[n].digest_to_seqnum

\* A leader proposes a second phase that it has not begun: no message about it
\* is on its way.
LEMMA DecidesVotes ==
  ASSUME NEW nd, nd \in [Node -> NodeState], NEW ms, NEW rep, View(nd, ms, rep),
         NEW n \in Node, Leads(n), NEW v \in NodeState, Orderly(v, n),
         FreshVotes(v, n, ms), Rounds(v, n, ms),
         NEW t \in Txn, Ran(v, t), Undecided(nd, n, v, t),
         NEW u, NEW what, StartsSecond(v, u, n, t, what),
         NEW ms2, Proposing(ms, ms2, SecondAccepts(v, n, t, what))
  PROVE  /\ FreshVotes(u, n, ms2)
         /\ \A q \in Node : Leads(q) /\ q # n /\ FreshVotes(nd[q], q, ms) =>
              FreshVotes(nd[q], q, ms2)
<1> DEFINE seq == v.digest_to_seqnum[t]
           accepts == SecondAccepts(v, n, t, what)
<1>1. seq \in Seqnum /\ seq # 0
  BY RanEntry
<1>2. /\ u.accepted_count_two_pc_commit =
           v.accepted_count_two_pc_commit \cup {<<seq, 1, n>>}
      /\ SecondEntry(v, n, t, what) \in Entry
  BY DEF StartsSecond, Decides
<1> DEFINE e == SecondEntry(v, n, t, what)
<1>c. accepts = AcceptsOf(n, seq, e)
  BY DEF SecondAccepts
<1> HIDE DEF e, seq
<1>3. \A m \in accepts : /\ m.type = "Accept" /\ m.from = n /\ m.to \in Peers(n)
                         /\ m.seq = seq /\ m.e = e
  BY <1>c DEF AcceptsOf
<1>4. \A m1, m2 \in accepts : m1.to = m2.to => m1 = m2
  BY <1>c DEF AcceptsOf
<1> HIDE DEF accepts
<1>5. \A m, q, x : Chases(m, n, q, x, SecondPhase) => SecondMail(m)
  BY DEF Chases, SecondMail
<1>6. <<seq, 1, n>> \notin v.accepted_count_two_pc_commit
  BY <1>1 DEF Begun, seq, Undecided
<1>7. \A q : <<seq, 1, q>> \notin v.accepted_count_two_pc_commit
  <2>1. Votes(v.accepted_count_two_pc_commit, seq) = {}
    BY <1>1, <1>6 DEF Rounds
  <2> HIDE DEF seq
  <2>2. \A q : <<seq, 1, q>>[1] = seq /\ <<seq, 1, q>>[2] = 1
    OBVIOUS
  <2>. QED
    BY <2>1, <2>2 DEF Votes
<1>8. ASSUME NEW m \in ms, NEW q \in Node
      PROVE  ~ Chases(m, n, q, seq, SecondPhase)
  <2>1. Shaped(m, nd)
    BY DEF View
  <2>2. <<seq, 1, n>> \notin nd[n].accepted_count_two_pc_commit
    BY <1>1 DEF Begun, seq, Undecided
  <2>. QED
    BY <2>1, <2>2 DEF Shaped, Chases, InRound
<1> HIDE DEF seq
<1>9. \A m \in accepts : \A q, x :
        Chases(m, n, q, x, SecondPhase) => x = seq /\ q = m.to /\ q # n
  BY <1>3 DEF Chases, Peers
<1>10. FreshVotes(u, n, ms2)
  <2> SUFFICES ASSUME NEW m \in ms2, NEW q \in Node, NEW x \in Seqnum,
                      Chases(m, n, q, x, SecondPhase)
               PROVE  /\ <<x, 1, q>> \notin u.accepted_count_two_pc_commit
                      /\ \A m2 \in ms2 : Chases(m2, n, q, x, SecondPhase) => m2 = m
    BY DEF FreshVotes
  <2>1. \A m2 \in ms2 : Chases(m2, n, q, x, SecondPhase) => m2 \in ms \/ m2 \in accepts
    BY <1>5 DEF accepts, Proposing
  <2>2. CASE m \in ms
    <3>1. x # seq
      BY <1>8, <2>2
    <3>2. \A m2 \in accepts : ~ Chases(m2, n, q, x, SecondPhase)
      BY <1>9, <3>1
    <3>3. <<x, 1, q>> \notin v.accepted_count_two_pc_commit
          /\ \A m2 \in ms : Chases(m2, n, q, x, SecondPhase) => m2 = m
      BY <2>2 DEF FreshVotes
    <3>. QED
      BY <1>2, <2>1, <3>1, <3>2, <3>3
  <2>3. CASE m \in accepts
    <3>1. x = seq /\ q = m.to /\ q # n
      BY <1>9, <2>3
    <3>2. \A m2 \in ms : ~ Chases(m2, n, q, x, SecondPhase)
      BY <1>8, <3>1
    <3>3. \A m2 \in accepts : Chases(m2, n, q, x, SecondPhase) => m2 = m
      BY <1>4, <1>9, <2>3, <3>1
    <3>4. <<x, 1, q>> \notin u.accepted_count_two_pc_commit
      BY <1>2, <1>7, <3>1
    <3>. QED
      BY <2>1, <3>2, <3>3, <3>4
  <2>. QED
    BY <2>1, <2>2, <2>3
<1>11. ASSUME NEW q \in Node, q # n, FreshVotes(nd[q], q, ms)
       PROVE  FreshVotes(nd[q], q, ms2)
  <2>1. \A m, p, x : Chases(m, q, p, x, SecondPhase) => SecondMail(m)
    BY DEF Chases, SecondMail
  <2>2. \A m \in accepts : \A p, x : ~ Chases(m, q, p, x, SecondPhase)
    BY <1>3, <1>11 DEF Chases
  <2>3. \A m \in ms2 : \A p, x : Chases(m, q, p, x, SecondPhase) => m \in ms
    BY <2>1, <2>2 DEF accepts, Proposing
  <2>. QED
    BY <1>11, <2>3 DEF FreshVotes
<1>. QED
  BY <1>10, <1>11

\* The messages of ms2 that are not of ms1.
Deciding(ms1, ms2, n, t, what) ==
  \A m \in ms2 : \/ m \in ms1
                 \/ m.type = "Accept"
                 \/ n = Coord(t) /\ m = Decision(t, what)

\* The decision is the only one, and it comes before the participant's second
\* phase.
LEMMA DecidesDecision ==
  ASSUME NEW nd, nd \in [Node -> NodeState], NEW ms, NEW rep, View(nd, ms, rep),
         NEW n \in Node, NEW t \in Txn, ~ IntraShard(t), n \in {Coord(t), Part(t)},
         ~ Begun(nd[n], n, t), NEW ms1, ms1 \subseteq ms,
         n = Part(t) => ~ DecisionSent(ms1, t),
         NEW P, n = Coord(t) => P = nd[Part(t)],
         NEW ms2, NEW what, Deciding(ms1, ms2, n, t, what)
  PROVE  FreshDecision(P, t, ms2)
<1>1. \A m : Brings(m, Part(t), t, Vote) => m.type = "TwoPC"
  BY DEF Brings
<1>2. Coord(t) # Part(t) /\ CrossStage(t, nd[Coord(t)], nd[Part(t)], ms, rep)
  BY LeadersDiffer DEF View, Stage
<1>3. ASSUME n = Part(t) PROVE FreshDecision(P, t, ms2)
  <2>1. \A m \in ms2 : ~ Brings(m, Part(t), t, Vote)
    BY <1>1, <1>2, <1>3 DEF DecisionSent, Deciding
  <2>. QED
    BY <2>1 DEF FreshDecision
<1>4. ASSUME n = Coord(t) PROVE FreshDecision(P, t, ms2)
  <2>1. ~ DecisionSent(ms, t) /\ ~ Begun(P, Part(t), t)
    BY <1>2, <1>4 DEF CrossStage
  <2>2. \A m \in ms2 : Brings(m, Part(t), t, Vote) => m = Decision(t, what)
    BY <1>1, <2>1 DEF DecisionSent, Deciding
  <2>. QED
    BY <2>1, <2>2 DEF FreshDecision
<1>. QED
  BY <1>3, <1>4

LEMMA DecidesBegins ==
  ASSUME NEW n \in Node, NEW v \in NodeState, Orderly(v, n), NEW u,
         NEW t \in Txn, Decides(v, u, n, t), NEW y \in Txn, y # t
  PROVE  Begun(u, n, y) => Begun(v, n, y)
<1>1. v.digest_to_seqnum[t] = v.digest_to_seqnum[y] => v.digest_to_seqnum[y] = 0
  BY DEF Orderly, Claimed
<1>2. /\ u.digest_to_seqnum = v.digest_to_seqnum
      /\ u.accepted_count_two_pc_commit =
           v.accepted_count_two_pc_commit \cup {<<v.digest_to_seqnum[t], 1, n>>}
  BY DEF Decides
<1>. QED
  BY <1>1, <1>2 DEF Begun

LEMMA DecidesFresh ==
  ASSUME NEW nd, nd \in [Node -> NodeState], NEW ms, NEW rep, View(nd, ms, rep),
         Fresh(nd, ms), NEW n \in Node, Leads(n),
         NEW v \in NodeState, Orderly(v, n), Rounds(v, n, ms),
         v.accepted_count_two_pc_commit = nd[n].accepted_count_two_pc_commit,
         v.digest_to_seqnum = nd[n].digest_to_seqnum,
         NEW t \in Txn, ~ IntraShard(t), n \in {Coord(t), Part(t)}, Ran(v, t),
         ~ Begun(nd[n], n, t), NEW u, NEW what, StartsSecond(v, u, n, t, what),
         NEW ms1, ms1 \subseteq ms, v.out \subseteq ms1,
         n = Part(t) => ~ DecisionSent(ms1, t),
         NEW ms2, ms2 = ms1 \cup u.out
  PROVE  Fresh([nd EXCEPT ![n] = u], ms2)
<1> DEFINE nd2 == [nd EXCEPT ![n] = u]
           accepts == SecondAccepts(v, n, t, what)
<1>1. nd2[n] = u /\ \A q \in Node : q # n => nd2[q] = nd[q]
  OBVIOUS
<1>2. \A y \in Txn : Begun(v, n, y) <=> Begun(nd[n], n, y)
  BY DEF Begun
<1>3. Decides(v, u, n, t) /\ SecondEntry(v, n, t, what) \in Entry
  BY DEF StartsSecond
<1>4. \A m \in ms2 : \/ m \in ms1
                     \/ m \in accepts
                     \/ n = Coord(t) /\ m = Decision(t, what)
  BY DEF StartsSecond, SecondAccepts
<1>5. \A m \in accepts : m.type = "Accept"
  BY DEF SecondAccepts, AcceptsOf
<1> HIDE DEF accepts, nd2
<1>6. /\ Decision(t, what).type = "TwoPC" /\ Decision(t, what).txn = t
  BY DEF Decision, TwoPCMsg
<1>7. FreshVotes(v, n, ms)
  <2>1. FreshVotes(nd[n], n, ms)
    BY DEF Fresh
  <2>. QED
    BY <2>1 DEF FreshVotes
<1>8. Proposing(ms, ms2, SecondAccepts(v, n, t, what))
  BY <1>4, <1>6 DEF SecondMail, accepts, Proposing
<1>9. /\ FreshVotes(u, n, ms2)
      /\ \A q \in Node : Leads(q) /\ q # n /\ FreshVotes(nd[q], q, ms) =>
           FreshVotes(nd[q], q, ms2)
  <2>1. Undecided(nd, n, v, t)
    BY <1>2 DEF Undecided
  <2>. QED
    BY <1>7, <1>8, <2>1, DecidesVotes
<1>10. ASSUME NEW q \in Node, Leads(q)
       PROVE  FreshVotes(nd2[q], q, ms2)
  <2>1. FreshVotes(nd[q], q, ms)
    BY <1>10 DEF Fresh
  <2>. QED
    BY <1>1, <1>9, <1>10, <2>1
<1>11. ASSUME NEW y \in Txn, ~ IntraShard(y), y # t
       PROVE  FreshDecision(nd2[Part(y)], y, ms2)
  <2>1. FreshDecision(nd[Part(y)], y, ms)
    BY <1>11 DEF Fresh
  <2>2. Begun(nd2[Part(y)], Part(y), y) => Begun(nd[Part(y)], Part(y), y)
    <3>1. CASE Part(y) = n
      BY <1>1, <1>2, <1>3, <1>11, <3>1, DecidesBegins
    <3>2. CASE Part(y) # n
      BY <1>1, <3>2, PartLeads
    <3>. QED
      BY <3>1, <3>2
  <2>3. \A m \in ms2 \ ms : ~ (DecisionMail(m) /\ m.txn = y)
    BY <1>4, <1>5, <1>6, <1>11 DEF DecisionMail
  <2>. QED
    BY <2>1, <2>2, <2>3, QuietDecision
<1>12. FreshDecision(nd2[Part(t)], t, ms2)
  <2> DEFINE P == nd2[Part(t)]
  <2>1. n = Coord(t) => P = nd[Part(t)]
    BY <1>1, LeadersDiffer
  <2>2. Deciding(ms1, ms2, n, t, what)
    BY <1>4, <1>5 DEF Deciding
  <2> HIDE DEF P
  <2>3. FreshDecision(P, t, ms2)
    BY <2>1, <2>2, DecidesDecision
  <2>. QED
    BY <2>3 DEF P
<1>13. \A y \in Txn : ~ IntraShard(y) => FreshDecision(nd2[Part(y)], y, ms2)
  BY <1>11, <1>12
<1>14. \A q \in Node : Leads(q) => FreshVotes(nd2[q], q, ms2)
  BY <1>10
<1>. QED
  BY <1>13, <1>14 DEF Fresh, nd2

-----------------------------------------------------------------------------
\* A leader that begins a second phase changes nothing of its books.
LEMMA DecidesVotesFew ==
  ASSUME Quorums, NEW n \in Node, NEW v \in NodeState, Orderly(v, n),
         NEW ms, Rounds(v, n, ms), NEW u, NEW t \in Txn, Ran(v, t),
         ~ Begun(v, n, t), Decides(v, u, n, t), NEW y \in Txn
  PROVE  Ended(u, y) <=> Ended(v, y)
<1> DEFINE seq == v.digest_to_seqnum[t]
<1>1. seq \in Seqnum /\ seq # 0
  BY RanEntry
<1>2. /\ u.digest_to_seqnum = v.digest_to_seqnum
      /\ u.accepted_count_two_pc_commit =
           v.accepted_count_two_pc_commit \cup {<<seq, 1, n>>}
  BY DEF Decides
<1>3. Votes(v.accepted_count_two_pc_commit, seq) = {}
  BY <1>1 DEF Rounds, Begun
<1>4. v.digest_to_seqnum[y] = seq => y = t
  BY <1>1 DEF Orderly, Claimed
<1>5. CASE y = t
  <2> HIDE DEF seq
  <2>1. Votes(u.accepted_count_two_pc_commit, seq) = {<<seq, 1, n>>}
    BY <1>2, <1>3 DEF Votes
  <2>2. Cardinality({<<seq, 1, n>>}) = 1 /\ Cardinality({}) = 0
    BY FS_Singleton, FS_EmptySet
  <2>3. F \in Nat /\ F >= 1
    BY ConstantsAssumption DEF Quorums
  <2>4. ~ Quorate(u.accepted_count_two_pc_commit, seq)
    BY <2>1, <2>2, <2>3 DEF Quorate
  <2>5. ~ Quorate(v.accepted_count_two_pc_commit, seq)
    BY <1>3, <2>2, <2>3 DEF Quorate
  <2>. QED
    BY <1>2, <1>5, <2>4, <2>5 DEF Ended, seq
<1>6. CASE y # t
  <2> DEFINE x == v.digest_to_seqnum[y]
  <2>1. x # seq
    BY <1>4, <1>6
  <2> HIDE DEF x, seq
  <2>2. Votes(u.accepted_count_two_pc_commit, x)
          = Votes(v.accepted_count_two_pc_commit, x)
    BY <1>2, <2>1 DEF Votes
  <2>. QED
    BY <1>2, <2>2 DEF Ended, Quorate, x
<1>. QED
  BY <1>5, <1>6

\* Leader n, in state s, has refused the transfers of N.
Speaks(s, n, N) ==
  \A t \in Txn : s.digest_to_seqnum[t] # 0 =>
    (Refused(s, t) <=> (~ IntraShard(t) /\ n = Part(t) /\ t \in N))

LEMMA SpeaksIs ==
  ASSUME NEW n \in Node, Leads(n), NEW s \in NodeState, Own(s, n), Orderly(s, n),
         Named(s, n), NEW T, NEW Y, NEW N, Fits(s, n, T, Y, N), Y \cap N = {}
  PROVE  Speaks(s, n, N)
<1>1. ASSUME NEW t \in Txn, s.digest_to_seqnum[t] # 0
      PROVE  Refused(s, t) <=> (~ IntraShard(t) /\ n = Part(t) /\ t \in N)
  BY <1>1, RefusedIs
<1>. QED
  BY <1>1 DEF Speaks

LEMMA DecidesCareful ==
  ASSUME Quorums, NEW n \in Node, Leads(n), NEW v \in NodeState, Own(v, n),
         Orderly(v, n), NEW ms, Rounds(v, n, ms), NEW T, NEW Y, NEW N,
         Speaks(v, n, N), Y \cap N = {}, NEW t \in Txn, Ran(v, t),
         ~ Begun(v, n, t), NEW u, NEW what, StartsSecond(v, u, n, t, what),
         Own(u, n), Orderly(u, n), Fits(u, n, T, Y, N),
         NEW mo, NEW os, Careful(v, n, mo, os)
  PROVE  Careful(u, n, mo, os)
<1> DEFINE seq == v.digest_to_seqnum[t]
           e == SecondEntry(v, n, t, what)
<1>1. seq \in Seqnum /\ seq # 0 /\ seq <= v.last_seqnum /\ v.accept_log[seq].txn = t
  BY RanEntry, ClaimedEntry
<1>2. /\ u \in NodeState /\ Decides(v, u, n, t)
      /\ Suits(t, ClusterOf[n], e.status) /\ u.accept_log[seq] = e
      /\ u.accounts = v.accounts /\ u.wal = v.wal
  BY DEF StartsSecond
<1>3. /\ u.last_executed_seq = v.last_executed_seq
      /\ u.last_seqnum = v.last_seqnum
      /\ u.digest_to_seqnum = v.digest_to_seqnum
      /\ u.balance_locks = v.balance_locks
      /\ \A x \in Seqnum : x # seq => u.accept_log[x] = v.accept_log[x]
  BY <1>2 DEF Decides
<1>4. e.txn = t
  BY DEF SecondEntry
<1> HIDE DEF e, seq
<1>5. \A x \in Seqnum : u.accept_log[x].txn = v.accept_log[x].txn
  BY <1>1, <1>2, <1>3, <1>4
<1>6. Named(v, n)
  BY DEF Careful
<1>7. Named(u, n)
  <2> SUFFICES ASSUME NEW x \in Seqnum, x <= u.last_seqnum
               PROVE  Suits(u.accept_log[x].txn, ClusterOf[n],
                            u.accept_log[x].status)
    BY DEF Named
  <2>1. CASE x = seq
    BY <1>2, <1>4, <2>1
  <2>2. CASE x # seq
    BY <1>3, <1>6, <2>2 DEF Named
  <2>. QED
    BY <2>1, <2>2
<1>8. \A y \in Txn : Ended(u, y) <=> Ended(v, y)
  BY <1>2, DecidesVotesFew
<1>9. \A y \in Txn : Ran(u, y) <=> Ran(v, y)
  BY <1>3 DEF Ran
<1>10. ASSUME NEW y \in Txn, v.digest_to_seqnum[y] # 0
       PROVE  Refused(u, y) <=> Refused(v, y)
  <2>1. u.digest_to_seqnum[y] # 0
    BY <1>3, <1>10
  <2>2. Refused(v, y) <=> (~ IntraShard(y) /\ n = Part(y) /\ y \in N)
    BY <1>10 DEF Speaks
  <2>3. Refused(u, y) <=> (~ IntraShard(y) /\ n = Part(y) /\ y \in N)
    BY <1>2, <1>7, <2>1, RefusedIs
  <2>. QED
    BY <2>2, <2>3
<1>11. \A y \in Txn : SameTransfer(v, u, y)
  BY <1>3, <1>8, <1>9, <1>10 DEF SameTransfer
<1>12. v.last_executed_seq <= u.last_executed_seq
  BY <1>3, Numbers
<1>13. SameBooks(v, u)
  BY <1>2, <1>5, <1>11, <1>12 DEF SameBooks
<1>. QED
  BY <1>2, <1>3, <1>7, <1>13, SameCareful

-----------------------------------------------------------------------------
\* Votes of a second phase.

\* The second phase of t, at seq, takes node n from s to u.
Closes(s, u, n, t, seq, p2) ==
  LET a == LocalAccount(n, t) IN
  /\ u.last_executed_seq = s.last_executed_seq
  /\ u.last_seqnum = s.last_seqnum
  /\ u.digest_to_seqnum = s.digest_to_seqnum
  /\ \A x \in Seqnum : /\ u.accept_log[x].txn = s.accept_log[x].txn
                       /\ u.accept_log[x].status = s.accept_log[x].status
  /\ u.balance_locks = s.balance_locks \ {a}
  /\ u.wal = [s.wal EXCEPT ![seq] = NoWal]
  /\ u.accounts = [s.accounts EXCEPT ![a] =
                     IF UndoneBy(s.wal[seq], p2) THEN s.wal[seq].before_value
                     ELSE @]
  /\ ~ Ended(s, t) /\ Ended(u, t)
  /\ \A y \in Txn \ {t} : Ended(u, y) <=> Ended(s, y)

\* Who owns an account after that.
LEMMA ClosesOwners ==
  ASSUME NEW n \in Node, NEW s \in NodeState, NEW u, NEW t \in Txn, NEW seq,
         NEW p2, ~ IntraShard(t), Closes(s, u, n, t, seq, p2), NEW y \in Txn,
         NEW a
  PROVE  /\ Known(u, y, a) <=> Known(s, y, a)
         /\ Writes(u, y, a) <=> Writes(s, y, a)
         /\ Owner(u, n, y, a) => y # t /\ Owner(s, n, y, a)
         /\ s.digest_to_seqnum[y] # 0 => (Refused(u, y) <=> Refused(s, y))
         /\ u.digest_to_seqnum[y] = s.digest_to_seqnum[y]
<1>1. /\ u.digest_to_seqnum = s.digest_to_seqnum
      /\ \A x \in Seqnum : u.accept_log[x].status = s.accept_log[x].status
      /\ u.last_executed_seq = s.last_executed_seq
      /\ Ended(u, t)
      /\ y # t => (Ended(u, y) <=> Ended(s, y))
  BY DEF Closes
<1>2. s.digest_to_seqnum[y] # 0 => (Refused(u, y) <=> Refused(s, y))
  <2>1. s.digest_to_seqnum[y] # 0 => s.digest_to_seqnum[y] \in Seqnum
    BY Numbers
  <2>. QED
    BY <1>1, <2>1 DEF Refused
<1>3. Known(u, y, a) <=> Known(s, y, a)
  BY <1>1 DEF Known
<1>4. Writes(u, y, a) <=> Writes(s, y, a)
  BY <1>2, <1>3 DEF Writes, Known
<1>5. Ran(u, y) <=> Ran(s, y)
  BY <1>1 DEF Ran
<1>6. Owner(u, n, y, a) => y # t
  BY <1>1 DEF Owner, Holds
<1>7. y # t /\ Owner(u, n, y, a) => Owner(s, n, y, a)
  BY <1>1, <1>2, <1>5 DEF Owner, Holds
<1>. QED
  BY <1>1, <1>2, <1>3, <1>4, <1>6, <1>7

LEMMA ClosesAccount ==
  ASSUME NEW n \in Node, NEW s \in NodeState, NEW u \in NodeState, Own(s, n),
         Orderly(s, n), NEW t \in Txn, NEW seq \in Seqnum, ~ IntraShard(t),
         n \in {Coord(t), Part(t)}, s.digest_to_seqnum[t] = seq,
         NEW p2, Closes(s, u, n, t, seq, p2), WalOwned(s, n),
         NEW a \in Account, NEW d \in BOOLEAN, AccountSafe(s, n, a, d),
         Refused(s, t) => /\ p2 = "A_PART_COMMIT"
                          /\ a = LocalAccount(n, t) => d
  PROVE  AccountSafe(u, n, a, d)
<1> DEFINE b == LocalAccount(n, t)
<1>1. Guarded(s, n, a, d) /\ Ordered(s, n, a, d) /\ Current(s, n, a)
  BY DEF AccountSafe
<1>2. \A y \in Txn :
        /\ Known(u, y, a) <=> Known(s, y, a)
        /\ Writes(u, y, a) <=> Writes(s, y, a)
        /\ Owner(u, n, y, a) => y # t /\ Owner(s, n, y, a)
        /\ u.digest_to_seqnum[y] = s.digest_to_seqnum[y]
  BY ClosesOwners
<1>3. seq # 0 /\ b \in Account /\ Touches(t, b)
      /\ b = IF n = Coord(t) THEN From[t] ELSE To[t]
  BY LocalAccounts, Numbers
<1>4. Known(s, t, b)
  BY <1>3 DEF Known
<1>5. ~ Refused(s, t) => Owner(s, n, t, b)
  BY <1>3 DEF Owner, Holds, Closes
<1>6. Ordered(u, n, a, d)
  BY <1>1, <1>2 DEF Ordered
<1>7. Guarded(u, n, a, d)
  <2> SUFFICES ASSUME NEW y \in Txn, Owner(u, n, y, a)
               PROVE  \/ a \in u.balance_locks
                      \/ d /\ (IntraShard(y) \/ \E x \in Txn \ {y} : Known(u, x, a))
    BY DEF Guarded
  <2>1. y # t /\ Owner(s, n, y, a)
    BY <1>2
  <2>2. CASE a # b
    <3>1. a \in s.balance_locks => a \in u.balance_locks
      BY <2>2 DEF Closes
    <3>. QED
      BY <1>1, <1>2, <2>1, <3>1 DEF Guarded
  <2>3. CASE a = b /\ ~ Refused(s, t)
    BY <1>1, <1>5, <2>1, <2>3, OneOwner
  <2>4. CASE a = b /\ Refused(s, t)
    BY <1>2, <1>4, <2>1, <2>4
  <2>. QED
    BY <2>2, <2>3, <2>4
<1>8. Current(u, n, a)
  <2> SUFFICES ASSUME NEW x \in Seqnum, u.wal[x].written,
                      LocalAccount(n, u.accept_log[x].txn) = a
               PROVE  u.accounts[a] = u.wal[x].after_value
    BY DEF Current
  <2> DEFINE y == s.accept_log[x].txn
  <2>1. s.wal \in [Seqnum -> WalRecord] /\ s.accounts \in [Account -> Int]
    BY DEF NodeState
  <2>2. x # seq /\ u.wal[x] = s.wal[x] /\ u.accept_log[x].txn = y
    <3>1. u.wal = [s.wal EXCEPT ![seq] = NoWal]
      BY DEF Closes
    <3>2. ~ NoWal.written
      BY DEF NoWal
    <3>3. u.wal[seq] = NoWal /\ (x # seq => u.wal[x] = s.wal[x])
      BY <2>1, <3>1
    <3>4. u.accept_log[x].txn = y
      BY DEF Closes
    <3>. QED
      BY <3>2, <3>3, <3>4
  <2>3. s.wal[x].written /\ LocalAccount(n, y) = a
    BY <2>2
  <2>4. s.accounts[a] = u.wal[x].after_value
    BY <1>1, <2>2, <2>3 DEF Current
  <2>5. /\ y \in Txn /\ s.digest_to_seqnum[y] = x /\ ~ IntraShard(y)
        /\ Owner(s, n, y, LocalAccount(n, y))
    BY <2>3, WalOwner
  <2> HIDE DEF y
  <2>6. y # t /\ Owner(s, n, y, a)
    BY <2>2, <2>3, <2>5
  <2>7. u.accounts = [s.accounts EXCEPT ![b] =
                        IF UndoneBy(s.wal[seq], p2) THEN s.wal[seq].before_value
                        ELSE @]
    BY DEF Closes
  <2>8. CASE a # b
    BY <1>3, <2>1, <2>4, <2>7, <2>8
  <2>9. CASE a = b /\ ~ Refused(s, t)
    BY <1>1, <1>5, <2>5, <2>6, <2>9, OneOwner
  <2>10. CASE a = b /\ Refused(s, t)
    <3>1. ~ s.wal[seq].written
      <4>1. s.accept_log[seq].txn = t
        BY <1>3, ClaimedEntry
      <4>. QED
        BY <2>10, <4>1 DEF WalOwned
    <3>2. ~ UndoneBy(s.wal[seq], p2)
      BY <2>10, <3>1 DEF UndoneBy
    <3>3. u.accounts[a] = s.accounts[a]
      BY <1>3, <2>1, <2>7, <2>10, <3>2
    <3>. QED
      BY <2>4, <3>3
  <2>. QED
    BY <2>8, <2>9, <2>10
<1>. QED
  BY <1>6, <1>7, <1>8 DEF AccountSafe

LEMMA ClosesCareful ==
  ASSUME NEW n \in Node, NEW s \in NodeState, NEW u \in NodeState, Own(s, n),
         Orderly(s, n), NEW t \in Txn, NEW seq \in Seqnum, ~ IntraShard(t),
         n \in {Coord(t), Part(t)}, s.digest_to_seqnum[t] = seq,
         NEW p2, Closes(s, u, n, t, seq, p2),
         NEW mo \in Nat, NEW os, NEW os2, os \subseteq os2,
         Refused(s, t) => n = Part(t) /\ p2 = "A_PART_COMMIT",
         \E o \in os2 : o.txn = t /\ o.p2 = p2, Careful(s, n, mo, os)
  PROVE  Careful(u, n, mo, os2)
<1>1. Careful(s, n, mo, os2)
  BY CarefulLater
<1>2. WalOwned(s, n) /\ Named(s, n)
  BY DEF Careful
<1>3. \A y \in Txn :
        /\ s.digest_to_seqnum[y] # 0 => (Refused(u, y) <=> Refused(s, y))
        /\ u.digest_to_seqnum[y] = s.digest_to_seqnum[y]
  BY ClosesOwners
<1>4. Named(u, n)
  BY <1>2 DEF Named, Closes
<1>5. WalOwned(u, n)
  <2> SUFFICES ASSUME NEW x \in Seqnum, u.wal[x].written
               PROVE  LET y == u.accept_log[x].txn
                      IN /\ x <= u.last_executed_seq
                         /\ ~ IntraShard(y) /\ ~ Ended(u, y) /\ ~ Refused(u, y)
    BY DEF WalOwned
  <2> DEFINE y == s.accept_log[x].txn
  <2>1. s.wal \in [Seqnum -> WalRecord]
    BY DEF NodeState
  <2>2. x # seq /\ u.wal[x] = s.wal[x] /\ u.accept_log[x].txn = y
    <3>1. u.wal = [s.wal EXCEPT ![seq] = NoWal]
      BY DEF Closes
    <3>2. ~ NoWal.written
      BY DEF NoWal
    <3>3. u.wal[seq] = NoWal /\ (x # seq => u.wal[x] = s.wal[x])
      BY <2>1, <3>1
    <3>4. u.accept_log[x].txn = y
      BY DEF Closes
    <3>. QED
      BY <3>2, <3>3, <3>4
  <2>3. s.wal[x].written
    BY <2>2
  <2>4. /\ x <= s.last_executed_seq
        /\ ~ IntraShard(y) /\ ~ Ended(s, y) /\ ~ Refused(s, y)
    BY <2>3, <1>2 DEF WalOwned
  <2>5. y \in Txn /\ s.digest_to_seqnum[y] = x
    BY <1>2, <2>3, WalOwner
  <2> HIDE DEF y
  <2>6. y # t /\ x # 0
    BY <2>2, <2>5, Numbers
  <2>7. ~ Ended(u, y) /\ u.last_executed_seq = s.last_executed_seq
    BY <2>4, <2>5, <2>6 DEF Closes
  <2>8. ~ Refused(u, y)
    BY <1>3, <2>4, <2>5, <2>6
  <2>. QED
    BY <2>2, <2>4, <2>7, <2>8
<1>6. ASSUME NEW a \in Account, shard_map[a] = ClusterOf[n],
             UndoSafe(a, mo, os2), NEW d \in BOOLEAN, d = Disturbed(a, mo, os2)
      PROVE  AccountSafe(u, n, a, d)
  <2>1. AccountSafe(s, n, a, d)
    BY <1>1, <1>6 DEF Careful
  <2>2. Refused(s, t) => /\ p2 = "A_PART_COMMIT"
                         /\ a = LocalAccount(n, t) => d
    <3>1. n = Part(t) => LocalAccount(n, t) = To[t]
      BY LocalAccounts, LeadersDiffer
    <3>. QED
      BY <1>6, <3>1 DEF Disturbed
  <2>. QED
    BY <1>2, <2>1, <2>2, ClosesAccount
<1>7. \A a : Disturbed(a, mo, os2) \in BOOLEAN
  BY DEF Disturbed
<1>. QED
  BY <1>4, <1>5, <1>6, <1>7 DEF Careful

\* A vote and the end of a second phase.
LEMMA VoteEnds ==
  ASSUME NEW n \in Node, NEW s \in NodeState, Orderly(s, n), NEW w,
         NEW seq \in Seqnum, NEW q \in Node, NEW t \in Txn,
         SecondVoted(s, w, seq, q), s.digest_to_seqnum[t] = seq
  PROVE  /\ \A y \in Txn \ {t} : Ended(w, y) <=> Ended(s, y)
         /\ Cardinality(Votes(w.accepted_count_two_pc_commit, seq)) # F + 1 =>
              (Ended(w, t) <=> Ended(s, t))
         /\ /\ Cardinality(Votes(w.accepted_count_two_pc_commit, seq)) = F + 1
            /\ <<seq, 1, q>> \notin s.accepted_count_two_pc_commit
            => ~ Ended(s, t) /\ Ended(w, t)
<1> DEFINE count == s.accepted_count_two_pc_commit
           more == count \cup {<<seq, 1, q>>}
<1>1. /\ w.accepted_count_two_pc_commit = more
      /\ w.digest_to_seqnum = s.digest_to_seqnum
  BY DEF SecondVoted
<1>2. count \in Tables /\ seq # 0 /\ F \in Nat
  <2>1. count \in Tables
    BY DEF NodeState, Tables
  <2>2. seq # 0
    BY Numbers
  <2>. QED
    BY <2>1, <2>2, ConstantsAssumption
<1>3. /\ more \in Tables
      /\ Votes(more, seq) = Votes(count, seq) \cup {<<seq, 1, q>>}
      /\ \A x \in Seqnum \ {seq} : Votes(more, x) = Votes(count, x)
  <2>1. count \in Tables
    BY <1>2
  <2> HIDE DEF count
  <2>2. more \in Tables
    BY <2>1 DEF Tables
  <2>3. Votes(more, seq) = Votes(count, seq) \cup {<<seq, 1, q>>}
    BY DEF Votes
  <2>4. \A x \in Seqnum \ {seq} : Votes(more, x) = Votes(count, x)
    BY DEF Votes
  <2>. QED
    BY <2>2, <2>3, <2>4
<1>4. /\ IsFiniteSet(Votes(count, seq)) /\ Cardinality(Votes(count, seq)) \in Nat
      /\ IsFiniteSet(Votes(more, seq)) /\ Cardinality(Votes(more, seq)) \in Nat
  BY <1>2, <1>3, VotesFinite
<1> HIDE DEF count, more
<1>5. ASSUME NEW y \in Txn \ {t} PROVE Ended(w, y) <=> Ended(s, y)
  <2> DEFINE x == s.digest_to_seqnum[y]
  <2>1. x # seq
    BY <1>2 DEF Orderly, Claimed
  <2>2. x # 0 => x \in Seqnum
    BY Numbers
  <2> HIDE DEF x
  <2>3. x # 0 => Votes(more, x) = Votes(count, x)
    BY <1>3, <2>1, <2>2
  <2>4. Ended(w, y) <=> x # 0 /\ Quorate(more, x)
    BY <1>1 DEF Ended, x
  <2>5. Ended(s, y) <=> x # 0 /\ Quorate(count, x)
    BY DEF Ended, x, count
  <2>. QED
    BY <2>3, <2>4, <2>5 DEF Quorate
<1>6. /\ Ended(w, t) <=> Quorate(more, seq)
      /\ Ended(s, t) <=> Quorate(count, seq)
  BY <1>1, <1>2 DEF Ended, count
<1>7. Quorate(count, seq) => Quorate(more, seq)
  <2>1. Votes(count, seq) \subseteq Votes(more, seq)
    BY <1>3
  <2>2. Cardinality(Votes(count, seq)) <= Cardinality(Votes(more, seq))
    BY <1>4, <2>1, FS_Subset
  <2>. QED
    BY <1>2, <1>4, <2>2 DEF Quorate
<1>8. Cardinality(Votes(more, seq)) # F + 1 =>
        (Quorate(more, seq) => Quorate(count, seq))
  BY <1>2, NoQuorumYet DEF more
<1>9. /\ Cardinality(Votes(more, seq)) = F + 1 /\ <<seq, 1, q>> \notin count
      => ~ Quorate(count, seq) /\ Quorate(more, seq)
  <2> SUFFICES ASSUME Cardinality(Votes(more, seq)) = F + 1,
                      <<seq, 1, q>> \notin count
               PROVE  ~ Quorate(count, seq) /\ Quorate(more, seq)
    OBVIOUS
  <2>1. <<seq, 1, q>> \notin Votes(count, seq)
    BY DEF Votes
  <2>2. Cardinality(Votes(count, seq) \cup {<<seq, 1, q>>})
          = Cardinality(Votes(count, seq)) + 1
    BY <1>4, <2>1, FS_AddElement
  <2>3. Cardinality(Votes(more, seq)) = Cardinality(Votes(count, seq)) + 1
    BY <1>3, <2>2, Zenon
  <2>. QED
    BY <1>2, <1>4, <2>3 DEF Quorate
<1>. QED
  BY <1>1, <1>5, <1>6, <1>7, <1>8, <1>9 DEF count

LEMMA ResolvesCloses ==
  ASSUME NEW n \in Node, NEW s \in NodeState, Orderly(s, n), NEW w,
         NEW seq \in Seqnum, NEW q \in Node, NEW t \in Txn,
         SecondVoted(s, w, seq, q), s.digest_to_seqnum[t] = seq,
         Cardinality(Votes(w.accepted_count_two_pc_commit, seq)) = F + 1,
         <<seq, 1, q>> \notin s.accepted_count_two_pc_commit,
         NEW b, NEW c, Notes(w, b, n, seq, c), NEW u, NEW p2,
         Resolves(b, u, t, seq, p2), ResolvedAccount(t, p2) = LocalAccount(n, t)
  PROVE  Closes(s, u, n, t, seq, p2)
<1>1. /\ \A y \in Txn \ {t} : Ended(w, y) <=> Ended(s, y)
      /\ ~ Ended(s, t) /\ Ended(w, t)
  BY VoteEnds
<1>2. /\ u.last_executed_seq = s.last_executed_seq
      /\ u.last_seqnum = s.last_seqnum
      /\ u.digest_to_seqnum = s.digest_to_seqnum
      /\ u.balance_locks = s.balance_locks \ {LocalAccount(n, t)}
      /\ u.digest_to_seqnum = w.digest_to_seqnum
      /\ u.accepted_count_two_pc_commit = w.accepted_count_two_pc_commit
  BY DEF SecondVoted, Notes, Resolves
<1>3. \A x \in Seqnum : /\ u.accept_log[x].txn = s.accept_log[x].txn
                        /\ u.accept_log[x].status = s.accept_log[x].status
  <2>1. b.accept_log = s.accept_log
    BY DEF SecondVoted, Notes
  <2>. QED
    BY <2>1 DEF Resolves
<1>4. b.wal = s.wal /\ b.accounts = s.accounts
  BY DEF SecondVoted, Notes
<1>5. /\ u.wal = [s.wal EXCEPT ![seq] = NoWal]
      /\ u.accounts = [s.accounts EXCEPT ![LocalAccount(n, t)] =
                     IF UndoneBy(s.wal[seq], p2) THEN s.wal[seq].before_value
                     ELSE @]
  BY <1>4 DEF Resolves
<1>6. \A y \in Txn : Ended(u, y) <=> Ended(w, y)
  BY <1>2 DEF Ended
<1>. QED
  BY <1>1, <1>2, <1>3, <1>5, <1>6 DEF Closes

-----------------------------------------------------------------------------
\* The end of a handler.

SameParts(s, u) ==
  /\ SameWords(s, u)
  /\ u.accepted_count_two_pc_commit = s.accepted_count_two_pc_commit
  /\ u.accounts = s.accounts /\ u.wal = s.wal
  /\ u.balance_locks = s.balance_locks

LEMMA SamePartsCareful ==
  ASSUME NEW n, NEW s, NEW u, SameParts(s, u), NEW mo, NEW os,
         Careful(s, n, mo, os)
  PROVE  Careful(u, n, mo, os)
<1>1. /\ u.last_executed_seq = s.last_executed_seq
      /\ u.last_seqnum = s.last_seqnum
      /\ u.digest_to_seqnum = s.digest_to_seqnum
      /\ u.accept_log = s.accept_log
      /\ u.accepted_count_two_pc_commit = s.accepted_count_two_pc_commit
      /\ u.accounts = s.accounts /\ u.wal = s.wal
      /\ u.balance_locks = s.balance_locks
  BY DEF SameParts, SameWords
<1>2. \A t : /\ Ended(u, t) <=> Ended(s, t)
             /\ Refused(u, t) <=> Refused(s, t)
             /\ Ran(u, t) <=> Ran(s, t)
  BY <1>1 DEF Ended, Refused, Ran
<1>3. \A t, a : /\ Known(u, t, a) <=> Known(s, t, a)
                /\ Writes(u, t, a) <=> Writes(s, t, a)
                /\ Owner(u, n, t, a) <=> Owner(s, n, t, a)
  BY <1>1, <1>2 DEF Known, Writes, Owner, Holds
<1>4. WalOwned(u, n) /\ Named(u, n)
  <2>1. WalOwned(s, n) /\ Named(s, n)
    BY DEF Careful
  <2>2. WalOwned(u, n)
    BY <1>1, <1>2, <2>1 DEF WalOwned
  <2>3. Named(u, n)
    BY <1>1, <2>1 DEF Named
  <2>. QED
    BY <2>2, <2>3
<1>5. \A a, d : Guarded(s, n, a, d) => Guarded(u, n, a, d)
  BY <1>1, <1>3 DEF Guarded
<1>6. \A a, d : Ordered(s, n, a, d) => Ordered(u, n, a, d)
  BY <1>1, <1>3 DEF Ordered
<1>7. \A a : Current(s, n, a) => Current(u, n, a)
  BY <1>1 DEF Current
<1>8. \A a, d : AccountSafe(s, n, a, d) => AccountSafe(u, n, a, d)
  BY <1>5, <1>6, <1>7 DEF AccountSafe
<1>. QED
  BY <1>4, <1>8 DEF Careful

\* A handler that ends in state u keeps the invariant.
LEMMA FinishUndo ==
  ASSUME TypeInv, UndoInv, NEW n \in Node, NEW u \in NodeState, NEW used,
         Finish(n, u, used), move_ons' \in Nat, move_ons <= move_ons',
         Leads(n) /\ u.alive => Careful(u, n, move_ons', outcomes \cup u.resolved),
         Fresh([node EXCEPT ![n] = u], (msgs \ used) \cup u.out)
  PROVE  UndoInv'
<1> DEFINE v == [u EXCEPT !.out = {}, !.told = {}, !.resolved = {}]
<1>1. /\ node' = [node EXCEPT ![n] = v]
      /\ msgs' = (msgs \ used) \cup u.out
      /\ outcomes' = outcomes \cup u.resolved
  BY DEF Finish
<1>2. /\ v.alive = u.alive /\ v.accept_log = u.accept_log
      /\ v.last_executed_seq = u.last_executed_seq
      /\ v.last_seqnum = u.last_seqnum
      /\ v.digest_to_seqnum = u.digest_to_seqnum
      /\ v.accepted_count_two_pc_commit = u.accepted_count_two_pc_commit
      /\ v.accounts = u.accounts /\ v.wal = u.wal
      /\ v.balance_locks = u.balance_locks
  BY ZenonT(60) DEF NodeState
<1>3. node \in [Node -> NodeState] /\ move_ons \in Nat
  BY ConstantsAssumption DEF TypeInv, TypeOK
<1> HIDE DEF v
<1>4. /\ node'[n] = v /\ \A q \in Node : q # n => node'[q] = node[q]
  BY <1>1, <1>3
<1>5. ASSUME NEW q \in Node, Leads(q), node'[q].alive
      PROVE  Careful(node'[q], q, move_ons', outcomes')
  <2>1. CASE q = n
    <3>1. SameParts(u, v)
      BY <1>2 DEF SameParts, SameWords
    <3>2. Careful(u, n, move_ons', outcomes')
      BY <1>1, <1>2, <1>4, <1>5, <2>1
    <3>. QED
      BY <1>4, <2>1, <3>1, <3>2, SamePartsCareful
  <2>2. CASE q # n
    <3>1. node'[q] = node[q] /\ Careful(node[q], q, move_ons, outcomes)
      BY <1>4, <1>5, <2>2 DEF UndoInv
    <3>2. outcomes \subseteq outcomes'
      BY <1>1
    <3>3. Careful(node[q], q, move_ons', outcomes')
      BY <1>3, <3>1, <3>2, CarefulLater
    <3>. QED
      BY <3>1, <3>3
  <2>. QED
    BY <2>1, <2>2
<1>6. Fresh(node', msgs')
  <2> DEFINE nd == [node EXCEPT ![n] = u]
  <2>1. nd[n] = u /\ (\A q \in Node : q # n => nd[q] = node[q]) /\ Fresh(nd, msgs')
    BY <1>1, <1>3
  <2> HIDE DEF nd
  <2>2. \A q \in Node : /\ node'[q].accepted_count_two_pc_commit
                             = nd[q].accepted_count_two_pc_commit
                        /\ node'[q].digest_to_seqnum = nd[q].digest_to_seqnum
    BY <1>2, <1>4, <2>1
  <2>3. \A q \in Node : Leads(q) => FreshVotes(node'[q], q, msgs')
    BY <2>1, <2>2 DEF Fresh, FreshVotes
  <2>4. ASSUME NEW t \in Txn, ~ IntraShard(t)
        PROVE  FreshDecision(node'[Part(t)], t, msgs')
    <3>1. Part(t) \in Node
      BY PartLeads
    <3>2. Begun(node'[Part(t)], Part(t), t) <=> Begun(nd[Part(t)], Part(t), t)
      BY <2>2, <3>1 DEF Begun
    <3>3. FreshDecision(nd[Part(t)], t, msgs')
      BY <2>1, <2>4 DEF Fresh
    <3>. QED
      BY <3>2, <3>3 DEF FreshDecision
  <2>. QED
    BY <2>3, <2>4 DEF Fresh
<1>7. \A q \in Node : Leads(q) /\ node'[q].alive =>
        Careful(node'[q], q, move_ons', outcomes')
  BY <1>5
<1>. QED
  BY <1>6, <1>7 DEF UndoInv

\* The messages that ms2 adds to ms are not about a second phase.
Quiet(ms, ms2) == \A x \in ms2 \ ms : ~ SecondMail(x) /\ ~ DecisionMail(x)

\* Node n counts the vote of q for a second phase that it has begun.
VoteTaken(s, u, n, seq, q) ==
  /\ u.accepted_count_two_pc_commit
       = s.accepted_count_two_pc_commit \cup {<<seq, 1, q>>}
  /\ u.digest_to_seqnum = s.digest_to_seqnum
  /\ <<seq, 1, n>> \in s.accepted_count_two_pc_commit

LEMMA VoteFresh ==
  ASSUME NEW nd, nd \in [Node -> NodeState], NEW ms, Fresh(nd, ms),
         NEW n \in Node, NEW m \in ms, NEW q \in Node, NEW seq \in Seqnum,
         Chases(m, n, q, seq, SecondPhase), NEW u, VoteTaken(nd[n], u, n, seq, q),
         NEW ms2, m \notin ms2, Quiet(ms, ms2)
  PROVE  Fresh([nd EXCEPT ![n] = u], ms2)
<1> USE DEF Quiet, VoteTaken
<1> DEFINE nd2 == [nd EXCEPT ![n] = u]
<1>1. nd2[n] = u /\ \A p \in Node : p # n => nd2[p] = nd[p]
  OBVIOUS
<1> HIDE DEF nd2
<1>2. \A x, p, y, z : Chases(x, p, y, z, SecondPhase) => SecondMail(x)
  BY DEF Chases, SecondMail
<1>3. ASSUME NEW p \in Node, Leads(p)
      PROVE  FreshVotes(nd2[p], p, ms2)
  <2>1. FreshVotes(nd[p], p, ms)
    BY <1>3 DEF Fresh
  <2>2. CASE p # n
    <3>1. nd2[p].accepted_count_two_pc_commit = nd[p].accepted_count_two_pc_commit
      BY <1>1, <1>3, <2>2
    <3>2. \A x \in ms2 \ ms : ~ SecondMail(x)
      OBVIOUS
    <3>. QED
      BY <2>1, <3>1, <3>2, QuietVotes
  <2>3. CASE p = n
    <3> SUFFICES ASSUME NEW x \in ms2, NEW y \in Node, NEW z \in Seqnum,
                        Chases(x, n, y, z, SecondPhase)
                 PROVE  /\ <<z, 1, y>> \notin u.accepted_count_two_pc_commit
                        /\ \A x2 \in ms2 : Chases(x2, n, y, z, SecondPhase) => x2 = x
      BY <1>1, <2>3 DEF FreshVotes
    <3>1. x \in ms /\ \A x2 \in ms2 : Chases(x2, n, y, z, SecondPhase) => x2 \in ms
      BY <1>2
    <3>2. /\ <<z, 1, y>> \notin nd[n].accepted_count_two_pc_commit
          /\ \A x2 \in ms : Chases(x2, n, y, z, SecondPhase) => x2 = x
      BY <2>1, <2>3, <3>1 DEF FreshVotes
    <3>3. <<z, 1, y>> # <<seq, 1, q>>
      <4> SUFFICES ASSUME <<z, 1, y>> = <<seq, 1, q>> PROVE FALSE
        OBVIOUS
      <4>1. z = seq /\ y = q
        OBVIOUS
      <4>2. m = x
        BY <3>2, <4>1
      <4>. QED
        BY <4>2
    <3>. QED
      BY <3>1, <3>2, <3>3
  <2>. QED
    BY <2>2, <2>3
<1>4. \A t \in Txn : Begun(u, n, t) => Begun(nd[n], n, t)
  <2> SUFFICES ASSUME NEW t \in Txn, Begun(u, n, t) PROVE Begun(nd[n], n, t)
    OBVIOUS
  <2> DEFINE x == nd[n].digest_to_seqnum[t]
  <2>1. x # 0 /\ <<x, 1, n>> \in u.accepted_count_two_pc_commit
    BY DEF Begun
  <2> HIDE DEF x
  <2>2. <<x, 1, n>> = <<seq, 1, q>> => <<x, 1, n>> = <<seq, 1, n>>
    OBVIOUS
  <2>3. <<x, 1, n>> \in nd[n].accepted_count_two_pc_commit
    BY <2>1, <2>2
  <2>. QED
    BY <2>1, <2>3 DEF Begun, x
<1>5. ASSUME NEW t \in Txn, ~ IntraShard(t)
      PROVE  FreshDecision(nd2[Part(t)], t, ms2)
  <2>1. FreshDecision(nd[Part(t)], t, ms)
    BY <1>5 DEF Fresh
  <2>2. Begun(nd2[Part(t)], Part(t), t) => Begun(nd[Part(t)], Part(t), t)
    BY <1>1, <1>4, PartLeads
  <2>3. \A x \in ms2 \ ms : ~ (DecisionMail(x) /\ x.txn = t)
    OBVIOUS
  <2>. QED
    BY <2>1, <2>2, <2>3, QuietDecision
<1>. QED
  BY <1>3, <1>5 DEF Fresh, nd2

\* What the messages that end a second phase are not.
LEMMA EndsQuietly ==
  ASSUME NEW n \in Node, Leads(n), NEW t \in Txn, NEW x,
         \/ x.type = "Commit" /\ x.to \in Peers(n)
         \/ Brings(x, Coord(t), t, Confirmation)
  PROVE  ~ SecondMail(x) /\ ~ DecisionMail(x)
<1>1. x.what \in Confirmation => x.what \notin Vote
  BY DEF Confirmation, Vote
<1>. QED
  BY <1>1 DEF SecondMail, DecisionMail, Brings

\* One vote of a second phase, short of the quorum or beyond it.
LEMMA VoteCareful ==
  ASSUME NEW n \in Node, NEW s \in NodeState, NEW w, Own(s, n), Orderly(s, n),
         NEW seq \in Seqnum, NEW q \in Node, NEW t \in Txn,
         SecondVoted(s, w, seq, q), s.digest_to_seqnum[t] = seq,
         Cardinality(Votes(w.accepted_count_two_pc_commit, seq)) # F + 1,
         NEW mo, NEW os, Careful(s, n, mo, os)
  PROVE  Careful(w, n, mo, os)
<1>1. w \in NodeState /\ SameWords(s, w) /\ w.accounts = s.accounts /\ w.wal = s.wal
      /\ w.balance_locks = s.balance_locks
  BY DEF SecondVoted, SameWords
<1>2. \A y \in Txn : Ended(w, y) <=> Ended(s, y)
  <2>1. /\ \A y \in Txn \ {t} : Ended(w, y) <=> Ended(s, y)
        /\ Cardinality(Votes(w.accepted_count_two_pc_commit, seq)) # F + 1 =>
              (Ended(w, t) <=> Ended(s, t))
    BY VoteEnds
  <2>. QED
    BY <2>1
<1>3. Named(s, n) /\ s.last_executed_seq \in Int
  BY Numbers DEF Careful
<1>4. SameBooks(s, w) /\ Named(w, n)
  BY <1>1, <1>2, <1>3, SameWordsFacts
<1>. QED
  BY <1>1, <1>4, SameCareful

\* HandleAccept for a second phase.
LEMMA SecondVoteUndo ==
  ASSUME Quorums, TypeInv, ProgressInv, UndoInv,
         NEW Y \in SUBSET Txn, NEW N \in SUBSET Txn, Settled(Y, N),
         NEW n \in Node, NEW m \in msgs,
         HandleAccept(n, m), m.status \in SecondPhase
  PROVE  UndoInv'
<1> DEFINE s == node[n]
           seq == m.seq
           q == m.from
           p2 == m.status
           t == s.accept_log[seq].txn
           w == [s EXCEPT !.accepted_count_two_pc_commit = @ \cup {<<seq, 1, q>>}]
           quorum == Cardinality(Votes(w.accepted_count_two_pc_commit, seq)) = F + 1
           c == [txn |-> w.accept_log[seq].txn, status |-> p2]
           blank == p2 \in SecondPhase /\ seq \in w.blank_votes
           b == Broadcast(RecordCommit(w, seq, c), n, CommitMsg(n, seq, c, blank))
<1>1. /\ s \in NodeState /\ s.out = {} /\ s.told = {} /\ Sound(s, n) /\ Own(s, n)
      /\ node \in [Node -> NodeState]
      /\ View(node, msgs, replies) /\ move_ons \in Nat
  BY NodeFacts, ConstantsAssumption DEF TypeInv, TypeOK, ProgressInv, View
<1>2. /\ m \in Message /\ m.type = "Ack" /\ m.to = n /\ seq \in Seqnum
      /\ q \in Node /\ p2 \in Status /\ p2 \in SecondPhase
      /\ InRound(s, n, seq, m.counter, p2)
  BY AckFacts
<1>3. Leads(n)
  BY <1>2 DEF InRound
<1>4. Finish(n, IF quorum THEN CommitEntry(w, n, seq, p2) ELSE w, {m})
  BY AckFacts
<1>5. Orderly(s, n)
  BY <1>1, <1>3 DEF View
<1>6. /\ t \in Txn /\ SecondOf(s, n, t, seq)
      /\ s.accept_log[seq] \in Entry
      /\ s.last_executed_seq + 1 # seq
      /\ ResolvedAccount(t, p2) = IF n = Coord(t) THEN From[t] ELSE To[t]
      /\ p2 \in {"C_COORD", "A_COORD"} => n = Coord(t)
      /\ p2 \in {"C", "A_PART_COMMIT"} => n = Part(t)
  <2> HIDE DEF s, seq, p2
  <2>. QED
    BY <1>1, <1>2, <1>3, <1>5, SecondAckIs
<1>7. SecondVoted(s, w, seq, q)
  <2> HIDE DEF s, seq, q
  <2>. QED
    BY <1>1, <1>2, SecondVoteCounted
<1>8. Chases(m, n, q, seq, SecondPhase)
  BY <1>2 DEF Chases
<1>9. <<seq, 1, q>> \notin s.accepted_count_two_pc_commit /\ Fresh(node, msgs)
  <2>1. FreshVotes(s, n, msgs) /\ Fresh(node, msgs)
    BY <1>3 DEF UndoInv, Fresh
  <2> HIDE DEF s, seq, q
  <2>. QED
    BY <1>2, <1>8, <2>1 DEF FreshVotes
<1>10. UNCHANGED move_ons
  BY DEF HandleAccept, boundVars
<1>11. s.alive => Careful(s, n, move_ons, outcomes)
  BY <1>3 DEF UndoInv
<1>12. /\ Agrees(t, p2, Y, N) /\ Fits(s, n, Titles, Y, N) /\ Y \cap N = {}
  <2>1. MessageFits(m, Titles, Y, N) /\ Fits(s, n, Titles, Y, N)
    BY <1>2, DeliveredFits
  <2>2. Agrees(Titles[ClusterOf[n]][seq], p2, Y, N)
    BY <1>2, <2>1 DEF MessageFits
  <2>3. t = Titles[ClusterOf[n]][seq]
    BY <1>2, <1>3, <2>1 DEF Fits, LogFits, Leads
  <2>. QED
    BY <2>1, <2>2, <2>3 DEF Settled
<1>13. /\ ~ IntraShard(t) /\ n \in {Coord(t), Part(t)}
       /\ s.digest_to_seqnum[t] = seq
       /\ <<seq, 1, n>> \in s.accepted_count_two_pc_commit
  BY <1>6 DEF SecondOf
\* The step, given the state u that the handler leaves.
<1>14. ASSUME NEW u, u \in NodeState, Finish(n, u, {m}),
              \A y \in u.out : \/ y.type = "Commit" /\ y.to \in Peers(n)
                               \/ Brings(y, Coord(t), t, Confirmation),
              u.accepted_count_two_pc_commit
                = s.accepted_count_two_pc_commit \cup {<<seq, 1, q>>},
              u.digest_to_seqnum = s.digest_to_seqnum,
              u.alive => Careful(u, n, move_ons, outcomes \cup u.resolved)
       PROVE  UndoInv'
  <2> DEFINE ms == (msgs \ {m}) \cup u.out
  <2> HIDE DEF t
  <2>1. \A x \in u.out : ~ SecondMail(x) /\ ~ DecisionMail(x)
    BY <1>3, <1>6, <1>14, EndsQuietly
  <2>2. m \notin ms
    <3>1. SecondMail(m)
      BY <1>2 DEF SecondMail
    <3>. QED
      BY <2>1, <3>1
  <2>3. Quiet(msgs, ms)
    BY <2>1 DEF Quiet
  <2>4. VoteTaken(node[n], u, n, seq, q)
    BY <1>13, <1>14 DEF VoteTaken
  <2> HIDE DEF ms, s, seq, q
  <2>5. Fresh([node EXCEPT ![n] = u], ms)
    BY <1>1, <1>2, <1>8, <1>9, <2>2, <2>3, <2>4, VoteFresh
  <2>6. /\ move_ons' \in Nat /\ move_ons <= move_ons'
        /\ u.alive => Careful(u, n, move_ons', outcomes \cup u.resolved)
    BY <1>1, <1>10, <1>14
  <2>7. Fresh([node EXCEPT ![n] = u], (msgs \ {m}) \cup u.out)
    BY <2>5 DEF ms
  <2>. QED
    BY <1>14, <2>6, <2>7, FinishUndo
<1>15. /\ w.out = {} /\ w.told = {} /\ w \in NodeState /\ w.accept_log = s.accept_log
       /\ w.last_executed_seq = s.last_executed_seq
       /\ w.blank_votes = s.blank_votes /\ w.alive = s.alive
       /\ w.digest_to_seqnum = s.digest_to_seqnum
       /\ w.in_flight_prepares = s.in_flight_prepares
       /\ w.leads = s.leads /\ w.cluster_leaders = s.cluster_leaders
       /\ w.accepted_count_two_pc_commit =
            s.accepted_count_two_pc_commit \cup {<<seq, 1, q>>}
  BY <1>7 DEF SecondVoted
<1> HIDE DEF t
<1>16. CASE ~ quorum
  <2>1. Finish(n, w, {m})
    BY <1>4, <1>16
  <2>2. s.alive => Careful(w, n, move_ons, outcomes)
    <3> HIDE DEF s, seq, q, w
    <3>. QED
      BY <1>1, <1>2, <1>5, <1>6, <1>7, <1>11, <1>13, <1>16, VoteCareful
  <2>3. w.alive => Careful(w, n, move_ons, outcomes \cup w.resolved)
    <3>1. outcomes \subseteq outcomes \cup w.resolved
      OBVIOUS
    <3> HIDE DEF w, s
    <3>. QED
      BY <1>1, <1>15, <2>2, <3>1, CarefulLater
  <2> HIDE DEF w
  <2>. QED
    BY <1>14, <1>15, <2>1, <2>3
<1>17. CASE quorum
  <2>1. Finish(n, CommitEntry(w, n, seq, p2), {m})
    BY <1>4, <1>17
  <2>2. /\ c \in CommitRecord /\ c.txn = t /\ blank \in BOOLEAN
    BY <1>2, <1>6, <1>15 DEF CommitRecord, Entry, t
  <2>3. Sound(w, n)
    <3> HIDE DEF w, s
    <3>. QED
      BY <1>1, <1>15, SameAnchors DEF Kept
  <2>4. Notes(w, b, n, seq, c)
    <3> HIDE DEF w, seq, c, blank
    <3>. QED
      BY <1>2, <2>2, <2>3, CommitNoted
  <2>5. /\ blank => CommitEntry(w, n, seq, p2) = Exited(b)
        /\ ~ blank => CommitEntry(w, n, seq, p2)
                        = ExecuteRepeatedTwoPCEntry(b, n, seq, t, p2)
    <3>1. w.last_executed_seq + 1 # seq
      BY <1>6, <1>15
    <3>2. c.txn = t
      BY <2>2
    <3> HIDE DEF w, seq, p2
    <3>. QED
      BY <1>2, <3>1, <3>2, CommitEntryIs
  <2>6. /\ Sound(b, n) /\ b \in NodeState
        /\ b.leads = s.leads /\ b.cluster_leaders = s.cluster_leaders
        /\ b.accept_log = s.accept_log /\ b.alive = s.alive
        /\ b.digest_to_seqnum = s.digest_to_seqnum
        /\ b.accepted_count_two_pc_commit =
             s.accepted_count_two_pc_commit \cup {<<seq, 1, q>>}
        /\ \A y \in b.out : y.type = "Commit" /\ y.to \in Peers(n)
    BY <1>15, <2>4 DEF Notes, Sound
  <2> HIDE DEF b
  <2>7. CASE blank
    <3>1. Finish(n, Exited(b), {m})
      BY <2>1, <2>5, <2>7
    <3>2. /\ Exited(b) \in NodeState /\ ~ Exited(b).alive
          /\ Exited(b).out = b.out
          /\ Exited(b).digest_to_seqnum = b.digest_to_seqnum
          /\ Exited(b).accepted_count_two_pc_commit = b.accepted_count_two_pc_commit
      BY <2>6 DEF Exited, NodeState
    <3> DEFINE u == Exited(b)
    <3> HIDE DEF u
    <3>. QED
      BY <1>14, <2>6, <3>1, <3>2 DEF u
  <2>8. CASE ~ blank
    <3> DEFINE u == ExecuteRepeatedTwoPCEntry(b, n, seq, t, p2)
    <3>1. /\ s.leads /\ s.cluster_leaders = FirstLeader
      BY <1>1, <1>3 DEF Own
    <3>2. u \in NodeState /\ Resolves(b, u, t, seq, p2) /\ Announces(b, u, t, p2)
      <4>1. b.leads /\ b.cluster_leaders = FirstLeader /\ b.accept_log[seq] \in Entry
        BY <1>6, <2>6, <3>1
      <4> HIDE DEF seq, p2, s
      <4>. QED
        BY <1>2, <1>6, <2>6, <4>1, ResolveLeads
    <3>3. Finish(n, u, {m})
      BY <2>1, <2>5, <2>8
    <3> HIDE DEF u
    <3>4. /\ u.alive = s.alive /\ u.digest_to_seqnum = s.digest_to_seqnum
          /\ u.accepted_count_two_pc_commit =
               s.accepted_count_two_pc_commit \cup {<<seq, 1, q>>}
          /\ \E o \in u.resolved : o.txn = t /\ o.p2 = p2
      BY <2>6, <3>2 DEF Resolves
    <3>5. \A y \in u.out : \/ y.type = "Commit" /\ y.to \in Peers(n)
                           \/ Brings(y, Coord(t), t, Confirmation)
      BY <1>2, <2>6, <3>2 DEF Announces, SecondPhase
    <3>6. ResolvedAccount(t, p2) = LocalAccount(n, t)
      BY <1>6, <1>13, LocalAccounts
    <3>7. Closes(s, u, n, t, seq, p2)
      <4> HIDE DEF s, seq, p2, q, w, c
      <4>. QED
        BY <1>1, <1>2, <1>5, <1>6, <1>7, <1>9, <1>13, <1>17, <2>4, <3>2, <3>6,
           ResolvesCloses
    <3>8. ASSUME s.alive
          PROVE  Careful(u, n, move_ons, outcomes \cup u.resolved)
      <4>1. Careful(s, n, move_ons, outcomes) /\ Named(s, n)
        BY <1>11, <3>8 DEF Careful
      <4>2. Refused(s, t) => n = Part(t) /\ p2 = "A_PART_COMMIT"
        <5>1. s.digest_to_seqnum[t] # 0
          BY <1>2, <1>13, Numbers
        <5>2. Refused(s, t) => n = Part(t) /\ t \in N
          <6> HIDE DEF s
          <6>. QED
            BY <1>1, <1>3, <1>5, <1>6, <1>12, <4>1, <5>1, RefusedIs
        <5>3. n = Part(t) => n # Coord(t)
          BY <1>6, <1>13, LeadersDiffer
        <5>4. p2 = "C" => t \in Y
          BY <1>12 DEF Agrees, YesWords
        <5>. QED
          BY <1>2, <1>6, <1>12, <5>2, <5>3, <5>4 DEF SecondPhase
      <4>3. \E o \in outcomes \cup u.resolved : o.txn = t /\ o.p2 = p2
        BY <3>4
      <4>4. outcomes \subseteq outcomes \cup u.resolved
        OBVIOUS
      <4> HIDE DEF s, seq, p2
      <4>. QED
        BY <1>1, <1>2, <1>5, <1>6, <1>13, <3>2, <3>7, <4>1, <4>2, <4>3, <4>4,
           ClosesCareful
    <3>. QED
      BY <1>14, <3>2, <3>3, <3>4, <3>5, <3>8
  <2>. QED
    BY <2>7, <2>8
<1>. QED
  BY <1>16, <1>17


-----------------------------------------------------------------------------
\* A vote of the first phase, and the entries that are executed on it.

\* The state s of leader n in the middle of the loop, with what it has said.
Keeping(nd, ms, n, s, mo, os) ==
  /\ Fresh([nd EXCEPT ![n] = s], ms \cup s.out)
  /\ Careful(s, n, mo, os)

\* It goes on to u and says nothing of a second phase.
Tells(w, u) == /\ SameParts(w, u) /\ w.out \subseteq u.out
               /\ \A x \in u.out \ w.out : ~ SecondMail(x) /\ ~ DecisionMail(x)

LEMMA TellsKeeping ==
  ASSUME NEW nd, nd \in [Node -> NodeState], NEW ms, NEW n \in Node,
         NEW s \in NodeState, NEW w, NEW u, NEW t, Executed(s, w, n, t), Tells(w, u),
         NEW mo, NEW os, Keeping(nd, ms, n, s, mo, os), Careful(w, n, mo, os)
  PROVE  Keeping(nd, ms, n, u, mo, os)
<1> DEFINE nd1 == [nd EXCEPT ![n] = s]
<1>1. nd1 \in [Node -> NodeState] /\ nd1[n] = s
  OBVIOUS
<1>2. [nd1 EXCEPT ![n] = u] = [nd EXCEPT ![n] = u]
  OBVIOUS
<1>3. Fresh(nd1, ms \cup s.out)
  BY DEF Keeping
<1>4. /\ w.out = s.out /\ w.digest_to_seqnum = s.digest_to_seqnum
      /\ w.accepted_count_two_pc_commit = s.accepted_count_two_pc_commit
  BY DEF Executed, Runs
<1>5. /\ u.digest_to_seqnum = w.digest_to_seqnum
      /\ u.accepted_count_two_pc_commit = w.accepted_count_two_pc_commit
      /\ w.out \subseteq u.out
      /\ \A x \in u.out \ w.out : ~ SecondMail(x) /\ ~ DecisionMail(x)
  BY DEF Tells, SameParts, SameWords
<1> HIDE DEF nd1
<1>6. \A y \in Txn : Begun(u, n, y) => Begun(nd1[n], n, y)
  BY <1>1, <1>4, <1>5 DEF Begun
<1>7. \A x \in (ms \cup u.out) \ (ms \cup s.out) :
        ~ SecondMail(x) /\ ~ DecisionMail(x)
  BY <1>4, <1>5
<1>8. u.accepted_count_two_pc_commit = nd1[n].accepted_count_two_pc_commit
  BY <1>1, <1>4, <1>5
<1>9. Fresh([nd1 EXCEPT ![n] = u], ms \cup u.out)
  BY <1>1, <1>3, <1>6, <1>7, <1>8, QuietFresh
<1>10. Careful(u, n, mo, os)
  BY SamePartsCareful DEF Tells
<1>. QED
  BY <1>2, <1>9, <1>10 DEF Keeping

LEMMA TakesUpKeeping ==
  ASSUME Quorums, NEW nd, nd \in [Node -> NodeState], NEW ms \in SUBSET Message,
         NEW rep, NEW n \in Node, Leads(n), NEW s, Running(nd, ms, rep, n, s),
         NEW w, NEW t \in Txn, ~ IntraShard(t), n = Coord(t), Parked(s, t),
         Executed(s, w, n, t), NEW v, NEW u, TookUp(s, w, v, u, n, t, ms \cup s.out),
         Running(nd, ms, rep, n, u),
         NEW T, NEW Y, NEW N, Fits(s, n, T, Y, N), Fits(u, n, T, Y, N),
         Y \cap N = {},
         NEW mo, NEW os, Keeping(nd, ms, n, s, mo, os), Careful(w, n, mo, os)
  PROVE  Keeping(nd, ms, n, u, mo, os)
<1> DEFINE nd1 == [nd EXCEPT ![n] = s]
           ms1 == ms \cup s.out
           rep1 == rep \cup s.told
           what == s.prepare_and_aborted_queue[t]
<1>1. s \in NodeState /\ View(nd1, ms1, rep1)
  BY DEF Running, Sound
<1>2. nd1 \in [Node -> NodeState] /\ nd1[n] = s
  BY <1>1
<1>3. /\ Own(s, n) /\ Orderly(s, n) /\ LocksHeld(s, n) /\ Rounds(s, n, ms1)
  BY <1>1, <1>2 DEF View
<1>4. Own(u, n) /\ Orderly(u, n)
  <2> DEFINE nd2 == [nd EXCEPT ![n] = u]
  <2>1. nd2[n] = u /\ View(nd2, ms \cup u.out, rep \cup u.told)
    BY DEF Running
  <2> HIDE DEF nd2
  <2>. QED
    BY <2>1 DEF View
<1>5. ~ Begun(s, n, t)
  <2>1. CrossStage(t, nd1[Coord(t)], nd1[Part(t)], ms1, rep1)
    BY <1>1 DEF View, Stage
  <2> HIDE DEF nd1
  <2>. QED
    BY <1>2, <2>1 DEF CrossStage
<1>6. Named(s, n)
  BY DEF Keeping, Careful
<1>7. Speaks(s, n, N)
  BY <1>1, <1>3, <1>6, SpeaksIs
<1>8. [nd1 EXCEPT ![n] = u] = [nd EXCEPT ![n] = u]
  OBVIOUS
<1>9. Fresh(nd1, ms1)
  BY DEF Keeping
<1> HIDE DEF nd1, rep1
<1>10. TookUp(s, w, v, u, n, t, ms1)
  OBVIOUS
<1> HIDE DEF what, ms1
<1>11. /\ v \in NodeState /\ Runs(s, v, n, t) /\ Came(s, v, n, t, ms1)
       /\ v.out = w.out /\ v.accounts = w.accounts /\ v.wal = w.wal
       /\ StartsSecond(v, u, n, t, what)
  BY <1>10 DEF TookUp, what
<1>12. /\ Own(v, n) /\ Orderly(v, n) /\ Rounds(v, n, ms1) /\ Ran(v, t)
  BY <1>11 DEF Came
<1>13. SameParts(w, v)
  <2>1. Runs(s, w, n, t)
    BY DEF Executed
  <2>. QED
    BY <1>11, <2>1 DEF Runs, SameParts, SameWords
<1>14. Careful(v, n, mo, os)
  BY <1>13, SamePartsCareful
<1>15. /\ v.digest_to_seqnum = s.digest_to_seqnum
       /\ v.accept_log = s.accept_log
       /\ v.accepted_count_two_pc_commit = s.accepted_count_two_pc_commit
  BY <1>11 DEF Runs
<1>16. Speaks(v, n, N)
  BY <1>7, <1>15 DEF Speaks, Refused
<1>17. ~ Begun(v, n, t)
  BY <1>5, <1>15 DEF Begun
<1>18. Careful(u, n, mo, os)
  BY <1>4, <1>11, <1>12, <1>14, <1>16, <1>17, DecidesCareful
<1>19. /\ v.out \subseteq ms1 /\ s.out \subseteq u.out
  <2>1. v.out = s.out
    BY <1>11 DEF Executed
  <2>2. v.out \subseteq u.out
    BY <1>11 DEF StartsSecond
  <2>. QED
    BY <2>1, <2>2 DEF ms1
<1>20. ms \cup u.out = ms1 \cup u.out
  BY <1>19 DEF ms1
<1>21. n # Part(t)
  BY LeadersDiffer
<1>22. Fresh([nd1 EXCEPT ![n] = u], ms1 \cup u.out)
  <2> DEFINE ms2 == ms1 \cup u.out
  <2>1. ms2 = ms1 \cup u.out
    OBVIOUS
  <2>2. /\ v.accepted_count_two_pc_commit = nd1[n].accepted_count_two_pc_commit
        /\ v.digest_to_seqnum = nd1[n].digest_to_seqnum
        /\ ~ Begun(nd1[n], n, t)
    BY <1>2, <1>5, <1>15
  <2> HIDE DEF ms2
  <2>3. Fresh([nd1 EXCEPT ![n] = u], ms2)
    BY <1>1, <1>2, <1>9, <1>11, <1>12, <1>19, <1>21, <2>1, <2>2, DecidesFresh
  <2>. QED
    BY <2>3 DEF ms2
<1>. QED
  BY <1>8, <1>18, <1>20, <1>22 DEF Keeping

\* One round of the loop.
LEMMA KeepingOn ==
  ASSUME Quorums, NEW nd, nd \in [Node -> NodeState], NEW ms \in SUBSET Message,
         NEW rep, NEW n \in Node, Leads(n), NEW s, Running(nd, ms, rep, n, s),
         ~ CaughtUp(s), NEW T, NEW Y, NEW N, Fits(s, n, T, Y, N), Y \cap N = {},
         NEW mo, NEW os, Keeping(nd, ms, n, s, mo, os)
  PROVE  Keeping(nd, ms, n, ExecuteNext(s, n), mo, os)
<1> DEFINE seq == s.last_executed_seq + 1
           t == s.entries_to_commit[seq].txn
           status == s.entries_to_commit[seq].status
           u == ExecuteNext(s, n)
           nd1 == [nd EXCEPT ![n] = s]
           ms1 == ms \cup s.out
<1>1. Sound(s, n) /\ s \in NodeState /\ View(nd1, ms1, rep \cup s.told)
  BY DEF Running, Sound
<1>2. nd1[n] = s
  OBVIOUS
<1> HIDE DEF nd1
<1>3. /\ Own(s, n) /\ Orderly(s, n) /\ LocksHeld(s, n) /\ Rounds(s, n, ms1)
  BY <1>1, <1>2 DEF View
<1>4. NextIs(s, seq, t)
  BY DEF NextIs, CaughtUp
<1> HIDE DEF seq, t
<1>5. NextFits(s, n, seq, t)
  BY <1>1, <1>3, <1>4, NextEntry
<1>6. t \in Txn /\ Suits(t, ClusterOf[n], status) /\ status \in FirstPhase
  BY <1>5 DEF NextFits
<1>7. /\ status = "" => IntraShard(t) /\ n = Coord(t)
      /\ status = "COORD" => ~ IntraShard(t) /\ n = Coord(t)
      /\ status \in {"P", "A"} => ~ IntraShard(t) /\ n = Part(t)
  BY <1>6, SuitsWhere
<1>8. PICK w : /\ w = AfterRun(s, seq, t, status) /\ Executed(s, w, n, t)
               /\ NextMakes(s, n, t, status, w, u)
  BY <1>1, <1>3, <1>4, ExecuteNextMakes
<1>9. Running(nd, ms, rep, n, u) /\ Fits(u, n, T, Y, N)
  BY <1>1, RunningOn, ExecuteNextFits
<1> HIDE DEF u
<1>10. Effect(s, w, seq, t, status)
  <2>1. Plain(t, status) /\ seq \in Seqnum
    BY <1>4, <1>6, <1>7 DEF Plain, NextIs, FirstPhase
  <2> HIDE DEF status
  <2>. QED
    BY <1>1, <1>6, <1>8, <2>1, RunEffect
<1>11. Careful(w, n, mo, os)
  <2>1. w \in NodeState /\ Runs(s, w, n, t)
    BY <1>8 DEF Executed, Sound
  <2>2. Careful(s, n, mo, os)
    BY DEF Keeping
  <2>. QED
    BY <1>1, <1>3, <1>4, <1>10, <2>1, <2>2, RunsCareful
<1> HIDE DEF status, ms1
<1>12. w \in NodeState /\ Executed(s, w, n, t)
  BY <1>8 DEF Executed, Sound
<1>13. ASSUME Tells(w, u) PROVE Keeping(nd, ms, n, u, mo, os)
  BY <1>1, <1>11, <1>12, <1>13, TellsKeeping
<1>14. CASE status = ""
  <2>1. PICK r \in Reply : u = [w EXCEPT !.told = @ \cup {r}]
    BY <1>8, <1>14 DEF NextMakes
  <2>2. Tells(w, u)
    BY <1>12, <2>1 DEF Tells, SameParts, SameWords, NodeState
  <2>. QED
    BY <1>13, <2>2 DEF u
<1>15. CASE status \in {"A", "P"}
  <2>1. PICK what \in Vote : u = Send(w, {TwoPCMsg(what, Coord(t), t)})
    BY <1>8, <1>15 DEF NextMakes
  <2> DEFINE x == TwoPCMsg(what, Coord(t), t)
  <2>2. /\ SameParts(w, u) /\ u.out = w.out \cup {x}
    BY <1>12, <2>1 DEF SameParts, SameWords, NodeState, Send
  <2>3. ~ SecondMail(x) /\ ~ DecisionMail(x)
    BY <1>6, <1>7, <1>15, LeadersDiffer DEF SecondMail, DecisionMail, TwoPCMsg
  <2> HIDE DEF x
  <2>4. Tells(w, u)
    BY <2>2, <2>3 DEF Tells
  <2>. QED
    BY <1>13, <2>4 DEF u
<1>16. CASE status = "COORD" /\ ~ Parked(s, t)
  <2>1. u = w
    BY <1>8, <1>16 DEF NextMakes
  <2>2. Tells(w, u)
    BY <2>1 DEF Tells, SameParts, SameWords
  <2>. QED
    BY <1>13, <2>2 DEF u
<1>17. CASE status = "COORD" /\ Parked(s, t)
  <2> DEFINE v == [w EXCEPT !.prepare_and_aborted_queue[t] = ""]
  <2>1. u = StartSecondPhase(v, n, t, s.prepare_and_aborted_queue[t])
    BY <1>8, <1>17 DEF NextMakes
  <2>2. ~ IntraShard(t) /\ n = Coord(t)
    BY <1>7, <1>17
  <2>3. TookUp(s, w, v, u, n, t, ms1)
    BY <1>1, <1>3, <1>6, <1>12, <1>17, <2>1, <2>2, RunTakesUp
  <2> HIDE DEF v
  <2>4. Keeping(nd, ms, n, u, mo, os)
    BY <1>6, <1>9, <1>11, <1>12, <1>17, <2>2, <2>3, TakesUpKeeping DEF ms1
  <2>. QED
    BY <2>4 DEF u
<1>. QED
  BY <1>6, <1>14, <1>15, <1>16, <1>17 DEF FirstPhase

LEMMA LoopKeeping ==
  ASSUME Quorums, NEW nd, nd \in [Node -> NodeState], NEW ms \in SUBSET Message,
         NEW rep, NEW n \in Node, Leads(n), NEW s, Running(nd, ms, rep, n, s),
         NEW T, NEW Y, NEW N, Fits(s, n, T, Y, N), Y \cap N = {},
         NEW mo, NEW os, Keeping(nd, ms, n, s, mo, os)
  PROVE  Keeping(nd, ms, n, SequentiallyExecuteCommittedEntries(s, n), mo, os)
<1> DEFINE Safe(x) == /\ Running(nd, ms, rep, n, x) /\ Fits(x, n, T, Y, N)
                      /\ Keeping(nd, ms, n, x, mo, os)
<1>1. ASSUME NEW x, Safe(x) PROVE Safe(ExecuteNext(x, n))
  <2>1. CASE CaughtUp(x)
    <3>1. ExecuteNext(x, n) = x
      BY <2>1 DEF CaughtUp, ExecuteNext
    <3>. QED
      BY <1>1, <3>1
  <2>2. CASE ~ CaughtUp(x)
    <3>1. Sound(x, n)
      BY <1>1 DEF Running
    <3>2. Fits(ExecuteNext(x, n), n, T, Y, N)
      BY <1>1, <3>1, ExecuteNextFits
    <3>3. Running(nd, ms, rep, n, ExecuteNext(x, n))
      BY <1>1, <2>2, RunningOn
    <3>4. Keeping(nd, ms, n, ExecuteNext(x, n), mo, os)
      BY <1>1, <2>2, KeepingOn
    <3>. QED
      BY <3>2, <3>3, <3>4
  <2>. QED
    BY <2>1, <2>2
<1>2. Safe(s)
  OBVIOUS
<1>3. PICK f : /\ f[0] = s
               /\ f[MaxSeq] = SequentiallyExecuteCommittedEntries(s, n)
               /\ \A i \in 1 .. MaxSeq : f[i] = ExecuteNext(f[i - 1], n)
  BY LoopIsChain
<1> HIDE DEF Safe
<1> DEFINE Bad == {i \in 0 .. MaxSeq : ~ Safe(f[i])}
<1>4. ASSUME NEW k \in Bad, \A i \in Bad : k <= i PROVE FALSE
  <2>1. k \in Nat /\ k \in 0 .. MaxSeq /\ MaxSeq \in Nat /\ ~ Safe(f[k])
    BY <1>4, ConstantsAssumption
  <2>2. k # 0
    BY <1>2, <1>3, <2>1
  <2>3. k \in 1 .. MaxSeq /\ k - 1 \in 0 .. MaxSeq /\ ~ (k <= k - 1)
    BY <2>1, <2>2
  <2>4. Safe(f[k - 1])
    BY <1>4, <2>3
  <2>5. f[k] = ExecuteNext(f[k - 1], n)
    BY <1>3, <2>3
  <2>. QED
    BY <1>1, <2>1, <2>4, <2>5
<1>5. Bad = {}
  <2>1. Bad \in SUBSET Nat
    BY ConstantsAssumption
  <2> HIDE DEF Bad
  <2>. QED
    BY <1>4, <2>1, LeastElement
<1>6. Safe(f[MaxSeq])
  <2>1. MaxSeq \in 0 .. MaxSeq
    BY ConstantsAssumption
  <2>. QED
    BY <1>5, <2>1
<1>. QED
  BY <1>3, <1>6 DEF Safe

\* HandleAccept for a first phase.
LEMMA FirstVoteUndo ==
  ASSUME Quorums, TypeInv, ProgressInv, UndoInv,
         NEW Y \in SUBSET Txn, NEW N \in SUBSET Txn, Settled(Y, N),
         NEW n \in Node, NEW m \in msgs,
         HandleAccept(n, m), m.status \notin SecondPhase
  PROVE  UndoInv'
<1> DEFINE s == node[n]
           ms1 == msgs \ {m}
           w == [s EXCEPT !.accepted_count = @ \cup {<<m.seq, 1, m.from>>}]
           c == [txn |-> w.accept_log[m.seq].txn, status |-> m.status]
<1>1. PICK b : /\ b \in {w, Broadcast(RecordCommit(w, m.seq, c), n,
                                      CommitMsg(n, m.seq, c, FALSE))}
               /\ Running(node, ms1, replies, n, b) /\ Counts(s, b, n)
               /\ \/ Finish(n, b, {m})
                  \/ Finish(n, SequentiallyExecuteCommittedEntries(b, n), {m})
  BY FirstVoteRuns
<1>2. /\ s \in NodeState /\ node \in [Node -> NodeState] /\ ms1 \in SUBSET Message
      /\ move_ons \in Nat /\ Fresh(node, msgs)
  BY ConstantsAssumption DEF TypeInv, TypeOK, UndoInv
<1>3. /\ m \in Message /\ m.type = "Ack" /\ m.to = n /\ m.seq \in Seqnum
      /\ m.from \in Node /\ Leads(n)
  BY AckFacts DEF InRound
<1>4. UNCHANGED move_ons /\ s.alive
  BY DEF HandleAccept, boundVars
<1>5. Careful(s, n, move_ons, outcomes)
  BY <1>3, <1>4 DEF UndoInv
<1>6. Fits(b, n, Titles, Y, N) /\ Y \cap N = {}
  <2>1. MessageFits(m, Titles, Y, N) /\ Fits(s, n, Titles, Y, N) /\ Y \cap N = {}
    BY <1>3, DeliveredFits DEF Settled
  <2>2. Agrees(Titles[ClusterOf[n]][m.seq], m.status, Y, N)
    BY <1>3, <2>1 DEF MessageFits
  <2>3. s.accept_log[m.seq].txn = Titles[ClusterOf[n]][m.seq]
    BY <1>3, <2>1 DEF Fits, LogFits, Leads
  <2>4. w \in NodeState /\ SameFacts(s, w)
    <3>1. s.accepted_count \in SUBSET (Seqnum \X Nat \X Node)
      BY <1>2 DEF NodeState
    <3>2. <<m.seq, 1, m.from>> \in Seqnum \X Nat \X Node
      BY <1>3
    <3> DEFINE votes == s.accepted_count \cup {<<m.seq, 1, m.from>>}
    <3>3. votes \in SUBSET (Seqnum \X Nat \X Node)
      BY <3>1, <3>2
    <3>4. w = [s EXCEPT !.accepted_count = votes]
      BY <1>2 DEF NodeState
    <3> HIDE DEF votes, w
    <3>. QED
      BY <1>2, <3>3, <3>4, ZenonT(60) DEF NodeState, SameFacts
  <2>5. w.accept_log = s.accept_log
    BY <2>4 DEF SameFacts
  <2>6. /\ c.txn = Titles[ClusterOf[n]][m.seq] /\ Agrees(c.txn, c.status, Y, N)
        /\ c \in CommitRecord
    <3>1. m.seq <= s.last_seqnum /\ m.status \in Status
      BY AckFacts DEF InRound
    <3>2. s.accept_log[m.seq] \in Entry
      BY <1>3, <3>1 DEF ProgressInv, View, Orderly, Filed
    <3>3. c.txn = s.accept_log[m.seq].txn /\ c.status = m.status
      BY <2>5
    <3>4. c \in CommitRecord
      BY <2>5, <3>1, <3>2 DEF CommitRecord, Entry
    <3> HIDE DEF c
    <3>. QED
      BY <2>2, <2>3, <3>3, <3>4
  <2> HIDE DEF w, c
  <2>7. Fits(w, n, Titles, Y, N)
    BY <2>1, <2>4, SameFits
  <2> DEFINE r == RecordCommit(w, m.seq, c)
  <2>8. Fits(r, n, Titles, Y, N)
    BY <1>3, <2>4, <2>6, <2>7, RecordCommitFits
  <2>9. r \in NodeState
    <3>1. Sound(s, n)
      BY NodeFacts DEF TypeInv
    <3>2. Sound(w, n)
      <4> HIDE DEF s
      <4>. QED
        BY <2>4, <3>1, SameAnchors DEF Kept, SameFacts, Sound
    <3>. QED
      BY <1>3, <2>6, <3>2, RecordCommitSound DEF Sound
  <2> HIDE DEF r
  <2>10. Fits(Broadcast(r, n, CommitMsg(n, m.seq, c, FALSE)), n, Titles, Y, N)
    BY <2>6, <2>8, <2>9, CommitFits DEF CommitMsg
  <2>. QED
    BY <1>1, <2>1, <2>7, <2>10 DEF r
<1> HIDE DEF w, c
<1>7. SameParts(s, b)
  BY <1>1 DEF Counts, SameParts, SameWords
<1>8. Careful(b, n, move_ons, outcomes)
  BY <1>5, <1>7, SamePartsCareful
<1>9. Fresh([node EXCEPT ![n] = b], ms1 \cup b.out)
  <2>1. \A y \in Txn : Begun(b, n, y) => Begun(node[n], n, y)
    BY <1>7 DEF SameParts, SameWords, Begun
  <2>2. b.accepted_count_two_pc_commit = node[n].accepted_count_two_pc_commit
    BY <1>7 DEF SameParts
  <2>3. \A x \in b.out : ~ SecondMail(x) /\ ~ DecisionMail(x)
    BY <1>1 DEF Counts, SecondMail, DecisionMail
  <2>4. \A x \in (ms1 \cup b.out) \ msgs : ~ SecondMail(x) /\ ~ DecisionMail(x)
    BY <2>3
  <2>. QED
    BY <1>2, <2>1, <2>2, <2>4, QuietFresh
<1>10. Keeping(node, ms1, n, b, move_ons, outcomes)
  BY <1>8, <1>9 DEF Keeping
<1> HIDE DEF s
<1>11. ASSUME NEW u, u \in NodeState, Finish(n, u, {m}),
              Keeping(node, ms1, n, u, move_ons, outcomes)
       PROVE  UndoInv'
  <2>1. Fresh([node EXCEPT ![n] = u], (msgs \ {m}) \cup u.out)
    BY <1>11 DEF Keeping
  <2>2. Careful(u, n, move_ons', outcomes \cup u.resolved)
    <3>1. outcomes \subseteq outcomes \cup u.resolved
      OBVIOUS
    <3>. QED
      BY <1>2, <1>4, <1>11, <3>1, CarefulLater DEF Keeping
  <2>3. move_ons' \in Nat /\ move_ons <= move_ons'
    BY <1>2, <1>4
  <2>. QED
    BY <1>11, <2>1, <2>2, <2>3, FinishUndo
<1> HIDE DEF ms1
<1>12. CASE Finish(n, b, {m})
  <2>1. b \in NodeState
    BY <1>1 DEF Running, Sound
  <2>. QED
    BY <1>10, <1>11, <1>12, <2>1
<1>13. CASE Finish(n, SequentiallyExecuteCommittedEntries(b, n), {m})
  <2> DEFINE u == SequentiallyExecuteCommittedEntries(b, n)
  <2>1. Running(node, ms1, replies, n, b)
    BY <1>1
  <2>2. Running(node, ms1, replies, n, u)
    BY <1>2, <1>3, <2>1, LoopView
  <2>3. u \in NodeState
    BY <2>2 DEF Running, Sound
  <2>4. Keeping(node, ms1, n, u, move_ons, outcomes)
    BY <1>2, <1>3, <1>6, <1>10, <2>1, LoopKeeping
  <2>. QED
    BY <1>11, <1>13, <2>3, <2>4
<1>. QED
  BY <1>1, <1>12, <1>13

-----------------------------------------------------------------------------
\* A vote or a decision arrives, and the second phase begins.
LEMMA StartSecondPhaseUndo ==
  ASSUME Quorums, TypeInv, ProgressInv, UndoInv,
         NEW Y \in SUBSET Txn, NEW N \in SUBSET Txn, Settled(Y, N),
         NEW n \in Node, NEW m \in msgs, UNCHANGED move_ons,
         NEW t \in Txn, Brings(m, n, t, Vote), ~ IntraShard(t),
         n \in {Coord(t), Part(t)}, n = Coord(t) => Ran(node[n], t),
         Finish(n, StartSecondPhase(node[n], n, t, m.what), {m})
  PROVE  UndoInv'
<1> DEFINE s == node[n]
           u == StartSecondPhase(s, n, t, m.what)
           ms1 == msgs \ {m}
<1>1. /\ s \in NodeState /\ s.out = {} /\ Own(s, n)
      /\ node \in [Node -> NodeState] /\ move_ons \in Nat
      /\ View(node, msgs, replies) /\ Sound(s, n) /\ Fresh(node, msgs)
  BY NodeFacts, ConstantsAssumption DEF TypeInv, TypeOK, ProgressInv, View, UndoInv
<1>2. m.what \in Vote /\ m.to = n /\ m.type = "TwoPC" /\ m.txn = t
  BY DEF Brings
<1>3. Leads(n) /\ Coord(t) # Part(t)
  BY LeadersDiffer
<1>4. /\ Orderly(s, n) /\ LocksHeld(s, n) /\ Rounds(s, n, msgs)
  BY <1>1, <1>3 DEF View
<1>5. CrossStage(t, node[Coord(t)], node[Part(t)], msgs, replies)
  BY <1>1 DEF View, Stage
<1>6. Ran(s, t) /\ ~ Begun(s, n, t) /\ (n = Part(t) => ~ DecisionSent(ms1, t))
  <2>1. CASE n = Coord(t)
    <3>1. VoteSent(msgs, t)
      BY <2>1 DEF VoteSent
    <3>. QED
      BY <1>3, <1>5, <2>1, <3>1 DEF CrossStage
  <2>2. CASE n = Part(t)
    <3>1. DecisionSent(msgs, t)
      BY <2>2 DEF DecisionSent
    <3>2. Ran(s, t)
      BY <1>5, <2>2, <3>1 DEF CrossStage
    <3>3. FreshDecision(s, t, msgs)
      BY <1>1, <2>2 DEF Fresh
    <3>4. ~ Begun(s, n, t) /\ ~ DecisionSent(ms1, t)
      BY <2>2, <3>3 DEF FreshDecision, DecisionSent
    <3>. QED
      BY <3>2, <3>4
  <2>. QED
    BY <2>1, <2>2
<1>7. Finish(n, u, {m})
  OBVIOUS
<1>8. /\ Fits(s, n, Titles, Y, N) /\ Agrees(t, m.what, Y, N) /\ Y \cap N = {}
  BY <1>2, DeliveredFits DEF MessageFits, Settled
<1>9. Fits(u, n, Titles, Y, N)
  <2> HIDE DEF s
  <2>. QED
    BY <1>1, <1>2, <1>3, <1>8, StartSecondPhaseFits DEF Leads
<1> HIDE DEF s
<1>10. StartsSecond(s, u, n, t, m.what)
  BY <1>1, <1>2, <1>4, <1>6, StartSecondPhaseDecides
<1> HIDE DEF u
<1>11. u \in NodeState /\ Decides(s, u, n, t)
  BY <1>10 DEF StartsSecond
<1>12. u.alive = s.alive
  BY <1>11 DEF Decides
<1>13. Own(u, n) /\ Orderly(u, n)
  <2> DEFINE accepts == SecondAccepts(s, n, t, m.what)
             ms2 == msgs \cup accepts
             nd == [node EXCEPT ![n] = u]
             seq == s.digest_to_seqnum[t]
  <2>1. nd[n] = u
    BY <1>1
  <2> HIDE DEF nd
  <2>2. Proposals(accepts, nd, n, seq)
    BY <1>1, <1>3, <1>4, <1>6, <1>10, <2>1, SecondAcceptsShaped
  <2> HIDE DEF accepts
  <2>3. \A q \in Peers(n) : Chasing(ms2, n, q, seq, SecondPhase)
    BY <2>2 DEF Proposals, Chasing
  <2>4. StillChasing(msgs, ms2, n)
    BY DEF StillChasing, Chasing
  <2> HIDE DEF ms2
  <2>. QED
    BY <1>1, <1>4, <1>6, <1>11, <2>3, <2>4, DecidesKeeps
<1>14. s.alive => Careful(u, n, move_ons, outcomes)
  <2>1. ASSUME s.alive PROVE Careful(u, n, move_ons, outcomes)
    <3>1. Careful(s, n, move_ons, outcomes)
      BY <1>3, <2>1 DEF UndoInv, s
    <3>2. Speaks(s, n, N)
      BY <1>1, <1>3, <1>4, <1>8, <3>1, SpeaksIs DEF Careful
    <3>. QED
      BY <1>1, <1>3, <1>4, <1>6, <1>8, <1>9, <1>10, <1>13, <3>1, <3>2,
         DecidesCareful
  <2>. QED
    BY <2>1
<1>15. Fresh([node EXCEPT ![n] = u], ms1 \cup u.out)
  <2> DEFINE ms2 == ms1 \cup u.out
  <2>1. ms2 = ms1 \cup u.out /\ ms1 \subseteq msgs /\ s.out \subseteq ms1
    BY <1>1
  <2>2. /\ s.accepted_count_two_pc_commit = node[n].accepted_count_two_pc_commit
        /\ s.digest_to_seqnum = node[n].digest_to_seqnum
        /\ ~ Begun(node[n], n, t)
    BY <1>6 DEF s
  <2> HIDE DEF ms1, ms2
  <2>3. Fresh([node EXCEPT ![n] = u], ms2)
    BY <1>1, <1>3, <1>4, <1>6, <1>10, <2>1, <2>2, DecidesFresh
  <2>. QED
    BY <2>3 DEF ms2
<1>16. u.alive => Careful(u, n, move_ons', outcomes \cup u.resolved)
  <2>1. outcomes \subseteq outcomes \cup u.resolved
    OBVIOUS
  <2>. QED
    BY <1>1, <1>12, <1>14, <2>1, CarefulLater
<1>17. move_ons' \in Nat /\ move_ons <= move_ons'
  BY <1>1
<1>. QED
  BY <1>7, <1>11, <1>15, <1>16, <1>17, FinishUndo

\* A handler that leaves the books alone and says nothing of a second phase.
LEMMA StillUndo ==
  ASSUME TypeInv, UndoInv, NEW n \in Node, NEW u \in NodeState, NEW used,
         Finish(n, u, used), UNCHANGED move_ons,
         SameParts(node[n], u), u.alive => node[n].alive,
         \A x \in u.out : ~ SecondMail(x) /\ ~ DecisionMail(x)
  PROVE  UndoInv'
<1> DEFINE ms2 == (msgs \ used) \cup u.out
<1>1. node \in [Node -> NodeState] /\ move_ons \in Nat /\ Fresh(node, msgs)
  BY ConstantsAssumption DEF TypeInv, TypeOK, UndoInv
<1>2. ASSUME Leads(n), u.alive
      PROVE  Careful(u, n, move_ons', outcomes \cup u.resolved)
  <2>1. Careful(node[n], n, move_ons, outcomes)
    BY <1>2 DEF UndoInv
  <2>2. Careful(u, n, move_ons, outcomes)
    BY <2>1, SamePartsCareful
  <2>3. outcomes \subseteq outcomes \cup u.resolved
    OBVIOUS
  <2>. QED
    BY <1>1, <2>2, <2>3, CarefulLater
<1>3. Fresh([node EXCEPT ![n] = u], ms2)
  <2>1. /\ u.accepted_count_two_pc_commit = node[n].accepted_count_two_pc_commit
        /\ \A t \in Txn : Begun(u, n, t) => Begun(node[n], n, t)
    BY DEF SameParts, SameWords, Begun
  <2>2. \A x \in ms2 \ msgs : ~ SecondMail(x) /\ ~ DecisionMail(x)
    OBVIOUS
  <2> HIDE DEF ms2
  <2>. QED
    BY <1>1, <2>1, <2>2, QuietFresh
<1>4. move_ons' \in Nat /\ move_ons <= move_ons'
  BY <1>1
<1>. QED
  BY <1>2, <1>3, <1>4, FinishUndo

\* A vote that comes before the coordinator's first phase is executed.
LEMMA ParkVoteUndo ==
  ASSUME TypeInv, UndoInv, NEW n \in Node, NEW m \in msgs, UNCHANGED move_ons,
         NEW t \in Txn, m.what \in Vote,
         Finish(n, [node[n] EXCEPT !.prepare_and_aborted_queue[t] = m.what], {m})
  PROVE  UndoInv'
<1> DEFINE s == node[n]
           u == [s EXCEPT !.prepare_and_aborted_queue[t] = m.what]
<1>1. s \in NodeState /\ s.out = {}
  BY DEF TypeInv, TypeOK
<1>2. u \in NodeState /\ u.out = {} /\ u.alive = s.alive
  BY <1>1 DEF NodeState, Vote
<1>3. SameParts(s, u)
  BY <1>1 DEF SameParts, SameWords, NodeState
<1> HIDE DEF u
<1>. QED
  BY <1>2, <1>3, StillUndo DEF u

LEMMA HandleVoteUndo ==
  ASSUME Quorums, TypeInv, ProgressInv, UndoInv,
         NEW Y \in SUBSET Txn, NEW N \in SUBSET Txn, Settled(Y, N),
         NEW n \in Node, NEW m \in msgs, HandlePreparedAndAborted(n, m)
  PROVE  UndoInv'
<1> DEFINE s == node[n]
           t == m.txn
<1>1. /\ m.type = "TwoPC" /\ m.to = n /\ m.what \in Vote /\ UNCHANGED move_ons
  BY DEF HandlePreparedAndAborted, Vote, boundVars
<1>2. /\ msgs \subseteq Message /\ View(node, msgs, replies)
  BY DEF TypeInv, TypeOK, ProgressInv
<1>3. t \in Txn
  BY <1>1, <1>2 DEF Message
<1>4. Brings(m, n, t, Vote)
  BY <1>1 DEF Brings
<1>5. ~ IntraShard(t) /\ n \in {Coord(t), Part(t)}
  BY <1>1, <1>2 DEF View, Shaped
<1>6. ClusterOf[n] = CoordCluster(t) <=> n = Coord(t)
  BY <1>3, <1>5, LeadersDiffer DEF IntraShard
<1>7. Finish(n, IF ClusterOf[n] = CoordCluster(t) /\ ~ Ran(s, t)
                THEN [s EXCEPT !.prepare_and_aborted_queue[t] = m.what]
                ELSE StartSecondPhase(s, n, t, m.what), {m})
  BY DEF HandlePreparedAndAborted, Ran
<1>8. CASE n = Coord(t) /\ ~ Ran(s, t)
  <2>1. Finish(n, [node[n] EXCEPT !.prepare_and_aborted_queue[t] = m.what], {m})
    BY <1>6, <1>7, <1>8
  <2> HIDE DEF t
  <2>. QED
    BY <1>1, <1>3, <2>1, ParkVoteUndo
<1>9. CASE ~ (n = Coord(t) /\ ~ Ran(s, t))
  <2>1. Finish(n, StartSecondPhase(node[n], n, t, m.what), {m})
    BY <1>6, <1>7, <1>9
  <2> HIDE DEF t
  <2>. QED
    BY <1>1, <1>3, <1>4, <1>5, <1>9, <2>1, StartSecondPhaseUndo
<1>. QED
  BY <1>8, <1>9

-----------------------------------------------------------------------------
\* The steps that touch no books.

LEMMA RetryPrepareUndo ==
  ASSUME TypeInv, UndoInv, NEW n \in Node, NEW t \in Txn, RetryPrepare(n, t)
  PROVE  UndoInv'
<1> DEFINE s == node[n]
           prepares == [s.in_flight_prepares EXCEPT ![t].retries = 1]
           x == PrepareMsg(n, s.cluster_leaders[PartCluster(t)], t, 1)
           u == [s EXCEPT !.in_flight_prepares = prepares, !.out = @ \cup {x}]
<1>1. s \in NodeState /\ s.out = {} /\ UNCHANGED move_ons
  BY DEF TypeInv, TypeOK, RetryPrepare, Overdue
<1>2. Finish(n, u, {})
  <2>1. Send([s EXCEPT !.in_flight_prepares[t].retries = 1], {x}) = u
    BY <1>1 DEF NodeState, Send
  <2>. QED
    BY <2>1 DEF RetryPrepare
<1>3. prepares \in [Txn -> [sent : BOOLEAN, completed : BOOLEAN,
                            retries : {0, 1}]]
  <2>1. s.in_flight_prepares \in [Txn -> [sent : BOOLEAN,
                                   completed : BOOLEAN, retries : {0, 1}]]
    BY <1>1 DEF NodeState
  <2>. QED
    BY <2>1
<1>4. x.type = "PREPARE" /\ x \in Message
  <2>1. PartCluster(t) \in Cluster
    BY ConstantsAssumption DEF PartCluster
  <2>2. s.cluster_leaders[PartCluster(t)] \in Node
    BY <1>1, <2>1 DEF NodeState
  <2>. QED
    BY <2>2 DEF PrepareMsg, Message
<1> HIDE DEF prepares, x
<1>5. u \in NodeState
  BY <1>1, <1>3, <1>4, ZenonT(60) DEF NodeState
<1>6. /\ SameParts(s, u) /\ u.out = {x} /\ u.alive = s.alive
  BY <1>1 DEF NodeState, SameParts, SameWords
<1>7. \A y \in u.out : ~ SecondMail(y) /\ ~ DecisionMail(y)
  BY <1>4, <1>6 DEF SecondMail, DecisionMail
<1> HIDE DEF u
<1>. QED
  BY <1>1, <1>2, <1>5, <1>6, <1>7, StillUndo

LEMMA HandleConfirmationUndo ==
  ASSUME TypeInv, UndoInv, NEW n \in Node, NEW m \in msgs,
         HandleCommittedAndAborted(n, m)
  PROVE  UndoInv'
<1> DEFINE s == node[n]
           u == [s EXCEPT !.in_flight_transactions = @ \ {m.txn}]
<1>1. s \in NodeState /\ s.out = {}
  BY DEF TypeInv, TypeOK
<1>2. Finish(n, u, {m}) /\ UNCHANGED move_ons
  BY DEF HandleCommittedAndAborted, boundVars
<1>3. u \in NodeState
  BY <1>1 DEF NodeState
<1>4. /\ SameParts(s, u) /\ u.out = {} /\ u.alive = s.alive
  BY <1>1 DEF NodeState, SameParts, SameWords
<1> HIDE DEF u
<1>. QED
  BY <1>1, <1>2, <1>3, <1>4, StillUndo

LEMMA KnownPrepareUndo ==
  ASSUME TypeInv, UndoInv, NEW n \in Node, NEW m \in msgs, HandlePrepare(n, m),
         m.txn \in node[n].pending_or_completed_ts
  PROVE  UndoInv'
<1>1. node[n] \in NodeState /\ node[n].out = {}
  BY DEF TypeInv, TypeOK
<1>2. Finish(n, node[n], {m}) /\ UNCHANGED move_ons
  BY DEF HandlePrepare, boundVars
<1>3. SameParts(node[n], node[n])
  BY DEF SameParts, SameWords
<1>. QED
  BY <1>1, <1>2, <1>3, StillUndo

LEMMA HandleMoveOnUndo ==
  ASSUME TypeInv, ProgressInv, UndoInv, NEW n \in Node, HandleMoveOn(n)
  PROVE  UndoInv'
<1> DEFINE s == node[n]
           intra == {t \in Txn :
                       /\ IntraShard(t)
                       /\ s.digest_to_seqnum[t] \in s.pending_client_calls}
           locks == UNION {{From[t], To[t]} : t \in intra}
           prepares == [t \in Txn |-> [s.in_flight_prepares[t] EXCEPT
                                         !.sent = FALSE, !.completed = FALSE]]
           u == [s EXCEPT !.in_flight_prepares = prepares,
                          !.in_flight_transactions = {},
                          !.pending_client_calls = {},
                          !.balance_locks = @ \ locks]
           ms2 == (msgs \ {}) \cup u.out
<1>1. /\ s \in NodeState /\ s.out = {} /\ Own(s, n)
      /\ node \in [Node -> NodeState] /\ View(node, msgs, replies)
      /\ Fresh(node, msgs)
  BY NodeFacts DEF TypeInv, TypeOK, ProgressInv, View, UndoInv
<1>2. /\ Finish(n, u, {})
      /\ move_ons \in Nat /\ move_ons' = move_ons + 1
  <2>1. Finish(n, u, {})
    BY <1>1 DEF HandleMoveOn, NotInFlight, NodeState
  <2>2. move_ons \in Nat /\ move_ons' = move_ons + 1
    BY ConstantsAssumption DEF HandleMoveOn, TypeInv, TypeOK
  <2>. QED
    BY <2>1, <2>2
<1>3. prepares \in [Txn -> [sent : BOOLEAN, completed : BOOLEAN,
                            retries : {0, 1}]]
  <2>1. s.in_flight_prepares \in [Txn -> [sent : BOOLEAN,
                                   completed : BOOLEAN, retries : {0, 1}]]
    BY <1>1 DEF NodeState
  <2>. QED
    BY <2>1
<1>4. \A t \in intra : IntraShard(t) /\ s.digest_to_seqnum[t] # 0
  <2>1. s.pending_client_calls \subseteq Seqnum
    BY <1>1 DEF NodeState
  <2>. QED
    BY <2>1, Numbers
<1>5. intra \in SUBSET Txn
  OBVIOUS
<1> HIDE DEF intra, prepares
<1>6. u \in NodeState
  BY <1>1, <1>3 DEF NodeState
<1>7. /\ SameWords(s, u) /\ u.out = {} /\ u.alive = s.alive
      /\ u.accepted_count_two_pc_commit = s.accepted_count_two_pc_commit
      /\ u.accounts = s.accounts /\ u.wal = s.wal
      /\ u.balance_locks = s.balance_locks \ locks
  BY <1>1 DEF NodeState, SameWords
<1> HIDE DEF u
<1>8. ASSUME Leads(n), u.alive
      PROVE  Careful(u, n, move_ons', outcomes \cup u.resolved)
  <2>1. Careful(s, n, move_ons, outcomes) /\ Orderly(s, n)
    BY <1>1, <1>7, <1>8 DEF UndoInv, View
  <2>2. Named(s, n) /\ s.last_executed_seq \in Int
    BY <1>1, <2>1, Numbers DEF Careful
  <2>3. \A t \in Txn : Ended(u, t) <=> Ended(s, t)
    BY <1>7 DEF Ended, SameWords
  <2> HIDE DEF s
  <2>4. SameBooks(s, u) /\ Named(u, n)
    BY <1>7, <2>2, <2>3, SameWordsFacts
  <2>5. Careful(u, n, move_ons + 1, outcomes)
    BY <1>1, <1>2, <1>4, <1>5, <1>6, <1>7, <2>1, <2>4, MoveOnCareful
  <2>6. /\ outcomes \subseteq outcomes \cup u.resolved
        /\ move_ons + 1 \in Nat /\ move_ons + 1 <= move_ons + 1
    BY <1>2
  <2>. QED
    BY <1>2, <2>5, <2>6, CarefulLater
<1>9. Fresh([node EXCEPT ![n] = u], ms2)
  <2>1. /\ u.accepted_count_two_pc_commit = node[n].accepted_count_two_pc_commit
        /\ \A t \in Txn : Begun(u, n, t) => Begun(node[n], n, t)
    BY <1>7 DEF SameWords, Begun
  <2>2. ms2 \ msgs = {}
    BY <1>7
  <2> HIDE DEF ms2
  <2>. QED
    BY <1>1, <2>1, <2>2, QuietFresh
<1>10. move_ons' \in Nat /\ move_ons <= move_ons'
  BY <1>2
<1>. QED
  BY <1>2, <1>6, <1>8, <1>9, <1>10, FinishUndo

\* A backup learns of an entry.
LEMMA HandleCommitUndo ==
  ASSUME TypeInv, ProgressInv, UndoInv, NEW n \in Node, NEW m \in msgs,
         HandleCommit(n, m)
  PROVE  UndoInv'
<1>1. /\ node[n].out = {} /\ node \in [Node -> NodeState]
      /\ Fresh(node, msgs) /\ move_ons \in Nat
  BY ConstantsAssumption DEF TypeInv, TypeOK, UndoInv
<1>2. ~ Leads(n)
  BY CommitAside
<1>3. PICK v \in NodeState : Aside(node[n], v) /\ Finish(n, v, {m})
  BY CommitAside
<1> DEFINE ms2 == (msgs \ {m}) \cup v.out
<1>4. ms2 \ msgs = {}
  BY <1>1, <1>3 DEF Aside
<1> HIDE DEF ms2
<1>5. Fresh([node EXCEPT ![n] = v], ms2)
  BY <1>1, <1>2, <1>4, QuietFresh
<1>6. move_ons' \in Nat /\ move_ons <= move_ons'
  BY <1>1 DEF HandleCommit, boundVars
<1>. QED
  BY <1>2, <1>3, <1>5, <1>6, FinishUndo DEF ms2

\* A backup answers a proposal: the answer takes its place.
LEMMA HandleProposeUndo ==
  ASSUME TypeInv, ProgressInv, UndoInv, NEW n \in Node, NEW m \in msgs,
         HandlePropose(n, m)
  PROVE  UndoInv'
<1> DEFINE s == node[n]
           log == [s.accept_log EXCEPT ![m.seq] =
                     IF @ = NoEntry THEN m.e ELSE @]
           a == [type |-> "Ack", from |-> n, to |-> m.from, seq |-> m.seq,
                 counter |-> m.e.counter, status |-> m.e.status]
           blanks == IF m.e.status = "A" THEN s.blank_votes \cup {m.seq}
                     ELSE s.blank_votes \ {m.seq}
           u == [s EXCEPT !.counter = m.e.counter, !.accept_log = log,
                          !.blank_votes = blanks, !.out = @ \cup {a}]
           ms2 == (msgs \ {m}) \cup u.out
           nd == [node EXCEPT ![n] = u]
<1>1. /\ s \in NodeState /\ s.out = {} /\ Own(s, n)
      /\ node \in [Node -> NodeState] /\ msgs \subseteq Message
      /\ View(node, msgs, replies) /\ Fresh(node, msgs)
      /\ move_ons \in Nat
  BY NodeFacts, ConstantsAssumption DEF TypeInv, TypeOK, ProgressInv, View, UndoInv
<1>2. m.type = "Accept" /\ m.to = n /\ UNCHANGED move_ons
  BY DEF HandlePropose, boundVars
<1>3. /\ m.seq \in Seqnum /\ m.e \in Entry /\ m.from \in Node
      /\ m.e.status \in Status /\ m.e.counter \in Nat
  BY <1>1, <1>2 DEF Message, Entry
<1>4. /\ n \in Peers(m.from)
      /\ InRound(node[m.from], m.from, m.seq, m.e.counter, m.e.status)
  <2>1. Shaped(m, node)
    BY <1>1 DEF View
  <2>. QED
    BY <1>2, <2>1 DEF Shaped
<1>5. Leads(m.from) /\ ~ Leads(n) /\ m.e.counter = 1
  BY <1>4 DEF InRound, Peers, Leads
<1>6. s.counter = 1
  BY <1>1 DEF Own
<1>7. Finish(n, u, {m})
  <2>1. ~ (m.e.counter < s.counter)
    BY <1>5, <1>6
  <2>2. Send([s EXCEPT !.counter = m.e.counter,
                       !.accept_log[m.seq] = IF @ = NoEntry THEN m.e ELSE @,
                       !.blank_votes =
                           IF m.e.status = "A" THEN @ \cup {m.seq}
                           ELSE @ \ {m.seq}],
             {a}) = u
    BY <1>1 DEF NodeState, Send
  <2>. QED
    BY <2>1, <2>2 DEF HandlePropose
<1>8. /\ log \in [Seqnum -> Entry \cup {NoEntry}]
      /\ blanks \in SUBSET Seqnum
  BY <1>1, <1>3 DEF NodeState
<1>9. a \in Message
  BY <1>3 DEF Message
<1>10. \A q, y, seq, phase : Chases(a, q, y, seq, phase) => Chases(m, q, y, seq, phase)
  BY <1>2 DEF Chases
<1>11. a.type = "Ack"
  OBVIOUS
<1> HIDE DEF log, a, blanks
<1>12. u \in NodeState
  BY <1>1, <1>3, <1>8, <1>9 DEF NodeState
<1>13. u.out = {a}
  BY <1>1 DEF NodeState
<1> HIDE DEF u
<1>14. \A x \in ms2 : (x \in msgs /\ x # m) \/ x = a
  BY <1>13
<1>15. nd[n] = u /\ \A q \in Node : q # n => nd[q] = node[q]
  BY <1>1
<1> HIDE DEF nd, ms2
<1>16. ASSUME NEW q \in Node, Leads(q) PROVE FreshVotes(nd[q], q, ms2)
  <2>1. nd[q] = node[q] /\ FreshVotes(node[q], q, msgs)
    BY <1>1, <1>5, <1>15, <1>16 DEF Fresh
  <2>. QED
    BY <1>10, <1>14, <2>1 DEF FreshVotes
<1>17. ASSUME NEW t \in Txn, ~ IntraShard(t)
       PROVE  FreshDecision(nd[Part(t)], t, ms2)
  <2>1. nd[Part(t)] = node[Part(t)]
    BY <1>5, <1>15, PartLeads
  <2>2. FreshDecision(node[Part(t)], t, msgs)
    BY <1>1, <1>17 DEF Fresh
  <2>3. \A x \in ms2 \ msgs : ~ (DecisionMail(x) /\ x.txn = t)
    BY <1>11, <1>14 DEF DecisionMail
  <2>. QED
    BY <2>1, <2>2, <2>3, QuietDecision
<1>18. Fresh([node EXCEPT ![n] = u], (msgs \ {m}) \cup u.out)
  BY <1>16, <1>17 DEF Fresh, nd, ms2
<1>19. move_ons' \in Nat /\ move_ons <= move_ons'
  BY <1>1, <1>2
<1>. QED
  BY <1>5, <1>7, <1>12, <1>18, <1>19, FinishUndo

-----------------------------------------------------------------------------
\* A leader claims a transfer.

LEMMA ClaimBegins ==
  ASSUME NEW n \in Node, NEW s \in NodeState, Orderly(s, n), NEW ms,
         Rounds(s, n, ms), NEW t \in Txn, NEW u, NEW status,
         Claims(s, u, n, t, status), NEW y \in Txn, Begun(u, n, y)
  PROVE  Begun(s, n, y)
<1>1. /\ s.last_seqnum + 1 \in Seqnum
      /\ u.accepted_count_two_pc_commit = s.accepted_count_two_pc_commit
      /\ y # t => u.digest_to_seqnum[y] = s.digest_to_seqnum[y]
      /\ u.digest_to_seqnum[t] = s.last_seqnum + 1
  BY DEF Claims
<1>2. <<s.last_seqnum + 1, 1, n>> \notin s.accepted_count_two_pc_commit
  BY <1>1, FreshNumber
<1>. QED
  BY <1>1, <1>2 DEF Begun

LEMMA ProposedMail ==
  ASSUME NEW s, NEW u, NEW n, NEW t, NEW status \in FirstPhase, NEW sent,
         Proposed(s, u, n, t, status, sent)
  PROVE  \A x \in u.out : x \in sent \/ (~ SecondMail(x) /\ ~ DecisionMail(x))
<1> DEFINE e == FirstEntry(t, status)
           accepts == AcceptsOf(n, s.last_seqnum + 1, e)
<1>1. u.out = sent \cup accepts /\ e.status = status
  BY DEF Proposed
<1>2. status \notin SecondPhase
  BY DEF FirstPhase, SecondPhase
<1> HIDE DEF e
<1>3. \A x \in accepts : x.type = "Accept" /\ x.e = e
  BY DEF AcceptsOf
<1> HIDE DEF accepts
<1>. QED
  BY <1>1, <1>2, <1>3 DEF SecondMail, DecisionMail

LEMMA ClaimUndo ==
  ASSUME TypeInv, ProgressInv, UndoInv, NEW n \in Node, NEW t \in Txn,
         n \in {Coord(t), Part(t)}, t \notin node[n].pending_or_completed_ts,
         NEW u \in NodeState, NEW status \in FirstPhase, NEW used,
         Suits(t, ClusterOf[n], status), Claims(node[n], u, n, t, status),
         Admits(node[n], u, n, t, status), Finish(n, u, used), UNCHANGED move_ons,
         \A x \in u.out : ~ SecondMail(x) /\ ~ DecisionMail(x)
  PROVE  UndoInv'
<1> DEFINE s == node[n]
           ms2 == (msgs \ used) \cup u.out
<1>1. /\ s \in NodeState /\ Own(s, n) /\ move_ons \in Nat
      /\ node \in [Node -> NodeState] /\ View(node, msgs, replies)
      /\ Fresh(node, msgs) /\ Leads(n)
  BY LeadersDiffer, ConstantsAssumption
     DEF TypeInv, TypeOK, ProgressInv, View, UndoInv
<1>2. Orderly(s, n) /\ Rounds(s, n, msgs)
  BY <1>1 DEF View
<1>3. u.accepted_count_two_pc_commit = s.accepted_count_two_pc_commit
      /\ u.alive = s.alive
  BY DEF Claims
<1>4. ASSUME u.alive PROVE Careful(u, n, move_ons', outcomes \cup u.resolved)
  <2>1. Careful(s, n, move_ons, outcomes)
    BY <1>1, <1>3, <1>4 DEF UndoInv
  <2>2. Careful(u, n, move_ons, outcomes)
    BY <1>1, <1>2, <2>1, ClaimCareful
  <2>3. outcomes \subseteq outcomes \cup u.resolved
    OBVIOUS
  <2>. QED
    BY <1>1, <2>2, <2>3, CarefulLater
<1>5. Fresh([node EXCEPT ![n] = u], ms2)
  <2>1. \A y \in Txn : Begun(u, n, y) => Begun(s, n, y)
    BY <1>1, <1>2, ClaimBegins
  <2>2. \A x \in ms2 \ msgs : ~ SecondMail(x) /\ ~ DecisionMail(x)
    OBVIOUS
  <2> HIDE DEF ms2
  <2>. QED
    BY <1>1, <1>3, <2>1, <2>2, QuietFresh
<1>6. move_ons' \in Nat /\ move_ons <= move_ons'
  BY <1>1
<1>. QED
  BY <1>4, <1>5, <1>6, FinishUndo

LEMMA NewPrepareUndo ==
  ASSUME TypeInv, ProgressInv, UndoInv, NEW n \in Node, NEW m \in msgs,
         HandlePrepare(n, m), m.txn \notin node[n].pending_or_completed_ts
  PROVE  UndoInv'
<1> DEFINE s == node[n]
           t == m.txn
<1>1. /\ t \in Txn /\ ~ IntraShard(t) /\ n = Part(t) /\ n # Coord(t)
      /\ t \notin s.pending_or_completed_ts
  BY NewPrepareClaims
<1>2. PICK u \in NodeState, status \in {"P", "A"} :
        /\ Finish(n, u, {m})
        /\ Proposed(s, u, n, t, status, {})
        /\ Suits(t, ClusterOf[n], status)
        /\ status = "P" => /\ To[t] \notin s.balance_locks
                           /\ u.balance_locks = s.balance_locks \cup {To[t]}
        /\ status = "A" => u.balance_locks = s.balance_locks
  BY NewPrepareClaims
<1>3. status \in FirstPhase /\ UNCHANGED move_ons
  BY DEF FirstPhase, HandlePrepare, boundVars
<1> HIDE DEF s, t
<1>4. /\ Claims(s, u, n, t, status)
      /\ u.accounts = s.accounts /\ u.wal = s.wal
  BY <1>2 DEF Proposed
<1>5. \A a \in Account : shard_map[a] = ClusterOf[n] /\ Touches(t, a) => a = To[t]
  <2>1. n \in {Coord(t), Part(t)}
    BY <1>1
  <2>. QED
    BY <1>1, <2>1, LocalAccounts
<1>6. Admits(s, u, n, t, status)
  BY <1>2, <1>4, <1>5 DEF Admits
<1>7. \A x \in u.out : ~ SecondMail(x) /\ ~ DecisionMail(x)
  BY <1>2, <1>3, ProposedMail
<1>8. n \in {Coord(t), Part(t)}
  BY <1>1
<1>. QED
  BY <1>1, <1>2, <1>3, <1>4, <1>6, <1>7, <1>8, ClaimUndo DEF s

LEMMA ProcessClientRequestUndo ==
  ASSUME sharding_map = shard_map, TypeInv, ProgressInv, UndoInv,
         NEW n \in Node, NEW t \in Txn, ProcessClientRequest(n, t)
  PROVE  UndoInv'
<1> DEFINE s == node[n]
<1>1. n = Coord(t) /\ t \notin s.pending_or_completed_ts
  BY RequestClaims
<1>2. PICK u \in NodeState, status \in {"", "COORD"}, x \in Message :
        Finish(n, u, {}) /\ Requested(s, u, n, t, status, x)
  BY RequestClaims
<1>3. status \in FirstPhase /\ UNCHANGED move_ons
  BY DEF FirstPhase, ProcessClientRequest, boundVars
<1> DEFINE sent == IF IntraShard(t) THEN {} ELSE {x}
<1> HIDE DEF s
<1>4. /\ Claims(s, u, n, t, status) /\ Proposed(s, u, n, t, status, sent)
      /\ u.accounts = s.accounts /\ u.wal = s.wal
      /\ Suits(t, ClusterOf[n], status)
      /\ Needed(t) \cap s.balance_locks = {}
      /\ u.balance_locks = s.balance_locks \cup Needed(t)
  BY <1>2 DEF Requested, Proposed
<1>5. \A y \in sent : ~ SecondMail(y) /\ ~ DecisionMail(y)
  BY <1>2 DEF Requested, SecondMail, DecisionMail
<1> HIDE DEF sent
<1>6. \A y \in u.out : ~ SecondMail(y) /\ ~ DecisionMail(y)
  BY <1>3, <1>4, <1>5, ProposedMail
<1>7. n \in {Coord(t), Part(t)}
  BY <1>1
<1>8. \A a \in Account : shard_map[a] = ClusterOf[n] /\ Touches(t, a) =>
        a \in Needed(t)
  <2>1. CASE IntraShard(t)
    BY <2>1 DEF Needed, Touches
  <2>2. CASE ~ IntraShard(t)
    BY <1>1, <1>7, <2>2, LocalAccounts DEF Needed
  <2>. QED
    BY <2>1, <2>2
<1>9. Admits(s, u, n, t, status)
  BY <1>4, <1>8 DEF Admits
<1>. QED
  BY <1>1, <1>2, <1>3, <1>4, <1>6, <1>7, <1>9, ClaimUndo DEF s

-----------------------------------------------------------------------------
\* The invariant.

LEMMA UndoInit ==
  ASSUME Init
  PROVE  UndoInv
<1>1. /\ node = [n \in Node |-> InitialNode(n)] /\ msgs = {}
  BY DEF Init
<1>2. ASSUME NEW n \in Node
      PROVE  /\ \A t \in Txn : node[n].digest_to_seqnum[t] = 0
             /\ \A seq \in Seqnum : ~ node[n].wal[seq].written
             /\ node[n].last_seqnum = 0
  BY <1>1 DEF InitialNode, NoWal
<1>3. ASSUME NEW n \in Node PROVE Careful(node[n], n, move_ons, outcomes)
  <2> DEFINE s == node[n]
  <2>1. WalOwned(s, n) /\ \A a : Current(s, n, a)
    BY <1>2 DEF WalOwned, Current
  <2>2. Named(s, n)
    <3>1. \A seq \in Seqnum : ~ (seq <= s.last_seqnum)
      BY <1>2, Numbers
    <3>. QED
      BY <3>1 DEF Named
  <2>3. \A t \in Txn : \A a : ~ Writes(s, t, a) /\ ~ Owner(s, n, t, a)
    BY <1>2 DEF Writes, Known, Owner, Holds
  <2>4. \A a, d : AccountSafe(s, n, a, d)
    BY <2>1, <2>3 DEF AccountSafe, Guarded, Ordered
  <2>. QED
    BY <2>1, <2>2, <2>4 DEF Careful
<1>4. Fresh(node, msgs)
  BY <1>1 DEF Fresh, FreshVotes, FreshDecision
<1>. QED
  BY <1>3, <1>4 DEF UndoInv

LEMMA HandlePrepareUndo ==
  ASSUME TypeInv, ProgressInv, UndoInv, NEW n \in Node, NEW m \in msgs,
         HandlePrepare(n, m)
  PROVE  UndoInv'
  BY KnownPrepareUndo, NewPrepareUndo

LEMMA HandleAcceptUndo ==
  ASSUME Quorums, TypeInv, ProgressInv, UndoInv,
         NEW Y \in SUBSET Txn, NEW N \in SUBSET Txn, Settled(Y, N),
         NEW n \in Node, NEW m \in msgs, HandleAccept(n, m)
  PROVE  UndoInv'
  BY FirstVoteUndo, SecondVoteUndo

LEMMA UndoStep ==
  ASSUME sharding_map = shard_map, Quorums, TypeInv, ProgressInv, VotesSettle,
         UndoInv, [TimelyNext]_vars
  PROVE  UndoInv'
<1>1. PICK Y \in SUBSET Txn, N \in SUBSET Txn : Settled(Y, N)
  BY DEF VotesSettle
<1>2. CASE UNCHANGED vars
  <2>1. /\ node' = node /\ msgs' = msgs /\ outcomes' = outcomes
        /\ move_ons' = move_ons
    BY <1>2 DEF vars, boundVars
  <2>. QED
    BY <2>1 DEF UndoInv
<1>3. ASSUME NEW n \in Node, NEW t \in Txn, ProcessClientRequest(n, t)
      PROVE  UndoInv'
  BY <1>3, ProcessClientRequestUndo
<1>4. ASSUME NEW n \in Node, NEW t \in Txn, RetryPrepare(n, t)
      PROVE  UndoInv'
  BY <1>4, RetryPrepareUndo
<1>5. CASE Deliver
  <2>1. PICK m \in msgs : \/ HandlePrepare(m.to, m)
                          \/ HandlePropose(m.to, m)
                          \/ HandleAccept(m.to, m)
                          \/ HandleCommit(m.to, m)
                          \/ HandlePreparedAndAborted(m.to, m)
                          \/ HandleCommittedAndAborted(m.to, m)
    BY <1>5 DEF Deliver
  <2>2. m.to \in Node
    BY ReceiverIsNode
  <2>3. CASE HandlePrepare(m.to, m)
    BY <2>2, <2>3, HandlePrepareUndo
  <2>4. CASE HandlePropose(m.to, m)
    BY <2>2, <2>4, HandleProposeUndo
  <2>5. CASE HandleAccept(m.to, m)
    BY <1>1, <2>2, <2>5, HandleAcceptUndo
  <2>6. CASE HandleCommit(m.to, m)
    BY <2>2, <2>6, HandleCommitUndo
  <2>7. CASE HandlePreparedAndAborted(m.to, m)
    BY <1>1, <2>2, <2>7, HandleVoteUndo
  <2>8. CASE HandleCommittedAndAborted(m.to, m)
    BY <2>2, <2>8, HandleConfirmationUndo
  <2>. QED
    BY <2>1, <2>3, <2>4, <2>5, <2>6, <2>7, <2>8
<1>6. ASSUME NEW n \in Node, HandleMoveOn(n) PROVE UndoInv'
  BY <1>6, HandleMoveOnUndo
<1>. QED
  BY <1>2, <1>3, <1>4, <1>5, <1>6 DEF TimelyNext

LEMMA CarefulMeansCurrent ==
  ASSUME TypeInv, ProgressInv, UndoInv,
         \A a \in Account : UndoSafe(a, move_ons, outcomes)
  PROVE  WalIsCurrent
<1> SUFFICES ASSUME NEW n \in Node, NEW seq \in Seqnum, node[n].alive,
                    node[n].leads, node[n].wal[seq].written
             PROVE  LET t == node[n].accept_log[seq].txn
                    IN node[n].accounts[LocalAccount(n, t)]
                         = node[n].wal[seq].after_value
  BY DEF WalIsCurrent, LocalAccount
<1> DEFINE s == node[n]
           t == s.accept_log[seq].txn
           a == LocalAccount(n, t)
<1>1. s \in NodeState /\ Own(s, n)
  BY DEF TypeInv, TypeOK, ProgressInv, View
<1>2. Leads(n)
  BY <1>1 DEF Own
<1>3. Orderly(s, n) /\ Careful(s, n, move_ons, outcomes)
  BY <1>2 DEF ProgressInv, View, UndoInv
<1>4. t \in Txn /\ n \in {Coord(t), Part(t)}
  BY <1>1, <1>3, WalOwner DEF Careful
<1> HIDE DEF t, s
<1>5. a \in Account /\ shard_map[a] = ClusterOf[n]
  BY <1>4, LocalAccounts
<1>6. Current(s, n, a)
  BY <1>3, <1>5 DEF Careful, AccountSafe
<1>. QED
  BY <1>6 DEF Current, s, t

\* While the leaders stay up and no coordinator gives up, what a leader's
\* write-ahead log holds for a transfer between its two phases is the balance
\* of the account, so that ExecuteRepeatedTwoPCEntry undoes that transfer and
\* nothing else.  This is so until the lock of an account that three or more
\* transfers use may have been given up on behalf of a transfer that does not
\* hold it, by a participant's abort or by HandleMoveOn; for any order of the
\* messages and any number of clusters, nodes and transfers.
THEOREM UndoInformationIsCurrent ==
  ASSUME sharding_map = shard_map, Quorums
  PROVE  TimelySpec =>
           []((\A a \in Account : UndoSafe(a, move_ons, outcomes)) => WalIsCurrent)
<1> DEFINE Inv == TypeInv /\ ProgressInv /\ VotesSettle /\ UndoInv
<1>1. Init => Inv
  BY TypeInvInit, ProgressInit, SettledInit, UndoInit
<1>2. Inv /\ [TimelyNext]_vars => Inv'
  <2> SUFFICES ASSUME TypeInv, ProgressInv, VotesSettle, UndoInv, [TimelyNext]_vars
               PROVE  TypeInv' /\ ProgressInv' /\ VotesSettle' /\ UndoInv'
    OBVIOUS
  <2>1. [Next]_vars
    BY DEF Next
  <2>2. TypeInv'
    BY <2>1, TypeInvStep
  <2>3. ProgressInv'
    BY <2>2, ProgressStep
  <2>4. VotesSettle'
    BY SettledStep
  <2>5. UndoInv'
    BY UndoStep
  <2>. QED
    BY <2>2, <2>3, <2>4, <2>5
<1>3. Inv => ((\A a \in Account : UndoSafe(a, move_ons, outcomes)) => WalIsCurrent)
  BY CarefulMeansCurrent
<1>. QED
  BY <1>1, <1>2, <1>3, PTL DEF TimelySpec
=============================================================================
