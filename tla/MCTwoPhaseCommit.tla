-------------------------- MODULE MCTwoPhaseCommit --------------------------
EXTENDS TwoPhaseCommit, Sharding

\* Two clusters of three nodes, of which one node each is down for the set:
\* the two that are left are exactly a quorum.
FourNodes == 1 .. 4
TwoClusters == {1, 2}
Halves == [n \in FourNodes |-> IF n <= 2 THEN 1 ELSE 2]
FirstNodes == [c \in TwoClusters |-> IF c = 1 THEN 1 ELSE 3]

\* One node more in cluster 2, so that it can lose its leader.
FiveNodes == 1 .. 5
TwoAndThree == [n \in FiveNodes |-> IF n <= 2 THEN 1 ELSE 2]

\* With 9000 items all nine ids of nodes are numbers of items of cluster 1.
FirstShard == [n \in Node |-> 1]

\* Items 1 and 2 belong to cluster 1, item 3 to cluster 2.
ThreeItems == 1 .. 3
Shards == MakeShardMap(3, 2)

\* Transfers in both directions, and one within cluster 1 after which the
\* sender of the first is short of money.
Transfers == [out   |-> [from |-> 1, to |-> 3, amount |-> 3],
              back  |-> [from |-> 3, to |-> 1, amount |-> 4],
              local |-> [from |-> 1, to |-> 2, amount |-> 8]]
Senders   == [t \in Txn |-> Transfers[t].from]
Receivers == [t \in Txn |-> Transfers[t].to]
Amounts   == [t \in Txn |-> Transfers[t].amount]

\* For the run of the timely behaviour: a PREPARE is sent again, or the user
\* abandons the set when a node has something to abandon, not both.
OneDisturbance ==
  /\ timeouts' + move_ons' <= 1
  /\ move_ons' # move_ons => node' # node

\* A confirmation is handled at once: that commutes with every other step, as
\* no guard reads in_flight_transactions.
ConfirmAtOnce ==
  LET confirmed == {m \in msgs : /\ m.type = "TwoPC"
                                 /\ m.what \in {"COMMITTED", "A_PART_COMMIT"}}
  IN confirmed # {} => \E m \in confirmed : msgs' = msgs \ {m}

\* For the run about the loss of the participant's leader: no other node is
\* killed, and until then the messages within a cluster arrive one by one, in
\* a fixed order.
OrderlyUntilKill ==
  LET inner == {m \in msgs : m.type # "TwoPC"} IN
  /\ kills' # kills => node[FirstLeader[2]].alive /\ ~ node'[FirstLeader[2]].alive
  /\ kills' = 0 /\ inner # {} => (CHOOSE m \in inner : TRUE) \notin msgs'
=============================================================================
