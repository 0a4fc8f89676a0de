------------------------------ MODULE Sharding ------------------------------
(***************************************************************************)
(* The shard map that the driver computes (src/node_launch.cpp 427-447)    *)
(* and gives to the client and to every node.                              *)
(***************************************************************************)
EXTENDS Integers, FiniteSets

\* Clusters take their items one after the other, the first total_items %
\* num_clusters of them one more than the others.
MakeShardMap(total_items, num_clusters) ==
  LET items_per_cluster == total_items \div num_clusters
      remainder == total_items % num_clusters
      Before(cluster) == (cluster - 1) * items_per_cluster
                         + IF cluster - 1 < remainder THEN cluster - 1
                           ELSE remainder
  IN [item \in 1 .. total_items |->
        CHOOSE cluster \in 1 .. num_clusters :
          Before(cluster) < item /\ item <= Before(cluster + 1)]

\* What a shard map of contiguous ranges is: no cluster outside the given ones,
\* ranges in the order of the clusters, and sizes that differ by one at most.
IsEvenRangePartition(map, total_items, num_clusters) ==
  LET Size(c) == Cardinality({item \in DOMAIN map : map[item] = c}) IN
  /\ map \in [1 .. total_items -> 1 .. num_clusters]
  /\ \A i, j \in 1 .. total_items : i <= j => map[i] <= map[j]
  /\ \A c, d \in 1 .. num_clusters : Size(c) - Size(d) \in {-1, 0, 1}

\* Checked on all small inputs, those included in which the items do not divide
\* evenly or are fewer than the clusters.
ASSUME ShardMapIsEvenRangePartition ==
  \A total_items \in 0 .. 12, num_clusters \in 1 .. 5 :
    IsEvenRangePartition(MakeShardMap(total_items, num_clusters),
                         total_items, num_clusters)
=============================================================================
