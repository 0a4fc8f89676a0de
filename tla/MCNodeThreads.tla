--------------------------- MODULE MCNodeThreads ---------------------------
EXTENDS NodeThreads

\* t1 and t2 take more from account a than there is, rd reads it; t3 has enough
\* only after t2, and has nothing in common with t1.
Transfers == [t1 |-> [from |-> "a", to |-> "b", amount |-> 4],
              t2 |-> [from |-> "a", to |-> "c", amount |-> 8],
              t3 |-> [from |-> "c", to |-> "d", amount |-> 12],
              rd |-> [from |-> "a", to |-> "a", amount |-> 0]]
Accounts  == {"a", "b", "c", "d"}
Senders   == [r \in Request |-> Transfers[r].from]
Receivers == [r \in Request |-> Transfers[r].to]
Amounts   == [r \in Request |-> Transfers[r].amount]

\* A retry of a transfer and of the read arrive while the first is handled.
AllCalls  == {<<"t1", 1>>, <<"t1", 2>>, <<"t2", 1>>, <<"t3", 1>>,
              <<"rd", 1>>, <<"rd", 2>>}
RetryOfT1 == {"t1"} \X {1, 2}

\* Nothing goes from a backup to the leader but acknowledgements, so that the
\* threads of a backup may as well run when those of the leader wait for work.
LeaderAtRest ==
  /\ \A c \in Call : call[c] \in {"proposed", "finished"}
  /\ \A s \in Seqnum :
       /\ at[Leader][s] = "idle"
       /\ pending_entries[s] # None => Backup \subseteq accepted_count[s]
BackupsLast == (\E b \in Backup : at'[b] # at[b]) => LeaderAtRest
=============================================================================
