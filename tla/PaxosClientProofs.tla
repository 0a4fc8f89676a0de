-------------------------- MODULE PaxosClientProofs --------------------------
(***************************************************************************)
(* Proofs about PaxosClient, for any test file and any number of clusters  *)
(* and elections.  ClientInv is the inductive invariant of the threads     *)
(* that take pending_mutex_.  HandleMoveOn takes none and keeps only the   *)
(* types, so what rests on ClientInv holds until the user types Continue.  *)
(***************************************************************************)
EXTENDS PaxosClient, FiniteSetTheorems, TLAPS

EarlierRows == {Script[i] : i \in 1 .. row - 1}

\* What remaining_transactions counts besides the requests in inflight_.
Counted == (IF announced THEN 1 ELSE 0) + BeingCounted

\* What is announced is the request of the current row.
DriverTyped == TablesTyped /\ (announced => AtRow(Request))

\* The tables hold requests of rows that were read.
TablesInv ==
  /\ inflight \subseteq EarlierRows
  /\ timer_heap \subseteq EarlierRows
  /\ completed \subseteq EarlierRows

\* The count is exact, and what waits for a reply is scheduled.
CountInv ==
  /\ null = {}
  /\ inflight \subseteq timer_heap \ completed
  /\ remaining_transactions = Cardinality(inflight) + Counted

ClientInv ==
  /\ DriverTyped
  /\ TablesInv
  /\ CountInv
  /\ ~ crashed

-----------------------------------------------------------------------------
\* The nodes of a cluster, as BroadcastRequest computes them, are nodes.
LEMMA NodesOfAreNodes ==
  ASSUME NEW c \in Cluster
  PROVE  NodesOf(c) \subseteq Node
<1>1. /\ NumClusters \in Nat /\ NodesPerCluster \in Nat
      /\ c \in Int /\ c >= 1 /\ c <= NumClusters
  BY ClientAssumption DEF Cluster
<1>2. (c - 1) * NodesPerCluster >= 0
  BY <1>1
<1>3. c * NodesPerCluster <= NumClusters * NodesPerCluster
  BY <1>1
<1>4. /\ (c - 1) * NodesPerCluster \in Int
      /\ c * NodesPerCluster \in Int
      /\ NumClusters * NodesPerCluster \in Int
  BY <1>1
<1>. QED
  BY <1>2, <1>3, <1>4 DEF NodesOf, Node

\* The leaders the constructor fills in are nodes of their clusters.
LEMMA InitialLeadersInCluster ==
  \A c \in Cluster : InitialLeaders[c] \in NodesOf(c)
<1> SUFFICES ASSUME NEW c \in Cluster
             PROVE  InitialLeaders[c] \in NodesOf(c)
  OBVIOUS
<1>1. /\ NumClusters \in Nat /\ NodesPerCluster \in Nat \ {0} /\ c \in Int
  BY ClientAssumption DEF Cluster
<1>2. c * NodesPerCluster = (c - 1) * NodesPerCluster + NodesPerCluster
  BY <1>1
<1>3. (c - 1) * NodesPerCluster \in Int
  BY <1>1
<1>. QED
  BY <1>1, <1>2, <1>3 DEF NodesOf, InitialLeaders

LEMMA InitialLeadersType == InitialLeaders \in [Cluster -> Node]
  BY InitialLeadersInCluster, NodesOfAreNodes DEF InitialLeaders

\* What the test file gives: a request is on one row only, and rows that were
\* read stay read.
LEMMA ScriptFacts ==
  ASSUME TablesTyped
  PROVE  /\ Len(Script) \in Nat
         /\ EarlierRows \subseteq Request \cup {NewSet, FailRow}
         /\ AtRow(Request) => /\ Script[row] \in Request
                              /\ Script[row] \notin EarlierRows
         /\ row <= Len(Script) => row + 1 \in 1 .. Len(Script) + 1
<1>1. /\ Script \in Seq(Request \cup {NewSet, FailRow})
      /\ Len(Script) \in Nat
      /\ DOMAIN Script = 1 .. Len(Script)
      /\ \A i \in 1 .. Len(Script) :
           Script[i] \in Request \cup {NewSet, FailRow}
      /\ \A i, j \in DOMAIN Script :
           Script[i] = Script[j] /\ Script[i] \in Request => i = j
  BY ClientAssumption
<1>2. row \in 1 .. Len(Script) + 1
  BY DEF TablesTyped
<1>3. EarlierRows \subseteq Request \cup {NewSet, FailRow}
  BY <1>1, <1>2 DEF EarlierRows
<1>4. ASSUME AtRow(Request)
      PROVE  Script[row] \in Request /\ Script[row] \notin EarlierRows
  <2>1. row \in 1 .. Len(Script) /\ Script[row] \in Request
    BY <1>1, <1>2, <1>4 DEF AtRow
  <2>2. \A i \in 1 .. row - 1 : Script[i] # Script[row]
    BY <1>1, <2>1
  <2>. QED
    BY <2>1, <2>2 DEF EarlierRows
<1>. QED
  BY <1>1, <1>2, <1>3, <1>4

\* Reading one row more only adds that row.
LEMMA RowRead ==
  ASSUME row \in 1 .. Len(Script) + 1, Len(Script) \in Nat, row' = row + 1
  PROVE  EarlierRows' = EarlierRows \cup {Script[row]}
  BY DEF EarlierRows

\* inflight_ is finite, and its size moves by one with one request.
LEMMA InflightSize ==
  ASSUME TablesTyped
  PROVE  /\ IsFiniteSet(inflight)
         /\ Cardinality(inflight) \in Nat
         /\ Cardinality(inflight) = 0 => inflight = {}
         /\ \A r : r \notin inflight =>
              Cardinality(inflight \cup {r}) = Cardinality(inflight) + 1
         /\ \A r : r \in inflight =>
              Cardinality(inflight \ {r}) = Cardinality(inflight) - 1
<1>1. IsFiniteSet(inflight)
  BY ClientAssumption, FS_Subset DEF TablesTyped
<1>. QED
  BY <1>1, FS_CardinalityType, FS_EmptySet, FS_AddElement, FS_RemoveElement

LEMMA CountedType == Counted \in Nat
  BY DEF Counted, BeingCounted

\* The tables start empty.
LEMMA ClientInit == Init => ClientInv
<1> SUFFICES ASSUME Init PROVE ClientInv
  OBVIOUS
<1>1. TablesTyped
  <2>1. Len(Script) \in Nat /\ 1 \in 1 .. Len(Script) + 1
    BY ClientAssumption
  <2>2. announced \in BOOLEAN /\ crashed \in BOOLEAN /\ reply = NoReply
    BY DEF Init
  <2>3. /\ 0 \in 0 .. MaxElections
        /\ 0 \in 0 .. MaxMoveOns
    BY ClientAssumption
  <2>. QED
    BY <2>1, <2>2, <2>3, InitialLeadersType DEF Init, TablesTyped
<1>2. TablesInv
  BY DEF Init, TablesInv
<1>3. Cardinality(inflight) = 0
  BY FS_EmptySet DEF Init
<1>4. CountInv
  BY <1>3 DEF Init, CountInv, Counted, BeingCounted, NoReply
<1>. QED
  BY <1>1, <1>2, <1>4 DEF ClientInv, DriverTyped, Init
\* No interleaving gives a variable a value outside its type: this needs no
\* assumption about HandleMoveOn.
LEMMA TypesStep == DriverTyped /\ [Next]_vars => DriverTyped'
<1> SUFFICES ASSUME DriverTyped, [Next]_vars PROVE DriverTyped'
  OBVIOUS
<1> USE DEF DriverTyped
<1>0. /\ Cardinality(inflight) \in Nat
      /\ remaining_transactions \in Int /\ size_pending \in Nat
      /\ row \in 1 .. Len(Script) + 1 /\ Len(Script) \in Nat
  BY InflightSize, ScriptFacts DEF TablesTyped
<1>1. CASE HandleMoveOn
  <2>1. UNCHANGED <<row, announced, timerVars, reply, clusterVars, replies,
                    elections, moveOns, active, crashed>>
    BY <1>1 DEF HandleMoveOn, MarkCompleted, ReadSize, ClearInflight,
                DrainHeap, SubtractSize, driverVars, tableVars
  <2>2. /\ inflight' \subseteq Request /\ null' \subseteq Request
        /\ timer_heap' \subseteq Request /\ completed' \subseteq Request
    BY <1>1 DEF HandleMoveOn, MarkCompleted, ReadSize, ClearInflight,
                DrainHeap, SubtractSize, tableVars, TablesTyped
  <2>3. remaining_transactions' \in Int /\ size_pending' \in Nat
    BY <1>0, <1>1 DEF HandleMoveOn, MarkCompleted, ReadSize, ClearInflight,
                      DrainHeap, SubtractSize
  <2>4. /\ move_on' \in {"idle", "size", "clear", "drain", "subtract"}
        /\ input_thread' \in {"running", "ended"}
    BY <1>1 DEF HandleMoveOn, MarkCompleted, ReadSize, ClearInflight,
                DrainHeap, SubtractSize, TablesTyped
  <2>. QED
    BY <2>1, <2>2, <2>3, <2>4 DEF TablesTyped, AtRow, timerVars, clusterVars
<1>2. CASE CountRequest
  <2>1. remaining_transactions' \in Int /\ announced' \in BOOLEAN
    BY <1>0, <1>2 DEF CountRequest
  <2>. QED
    BY <1>2, <2>1
    DEF CountRequest, AtRow, TablesTyped, tableVars, timerVars, moveOnVars,
        clusterVars
<1>3. CASE SendRequest
  <2>1. AtRow(Request) /\ row <= Len(Script) /\ Script[row] \in Request
    BY <1>3 DEF SendRequest, AtRow
  <2>2. row + 1 \in 1 .. Len(Script) + 1
    BY <2>1, ScriptFacts
  <2>3. announced' = FALSE
    BY <1>3 DEF SendRequest
  <2>. QED
    BY <1>3, <2>1, <2>2, <2>3
    DEF SendRequest, TablesTyped, timerVars, moveOnVars, clusterVars
<1>4. CASE FailOrRecover \/ StartSet
  <2>1. /\ row <= Len(Script)
        /\ row' = row + 1
        /\ ~ announced
    BY <1>4, ClientAssumption DEF FailOrRecover, StartSet, AtRow
  <2>2. row + 1 \in 1 .. Len(Script) + 1
    BY <2>1, ScriptFacts
  <2>3. announced' = announced
    BY <1>4 DEF FailOrRecover, StartSet
  <2>. QED
    BY <1>4, <2>1, <2>2, <2>3
    DEF FailOrRecover, StartSet, TablesTyped, tableVars, timerVars,
        moveOnVars, clusterVars
<1>5. CASE TimerPass
  <2>1. /\ timer_heap' \subseteq Request /\ due' \subseteq Request
        /\ first_send' \subseteq Request /\ active' \subseteq Request
    BY <1>5 DEF TimerPass, Reschedule, TablesTyped
  <2>. QED
    BY <1>5, <2>1
    DEF TimerPass, AtRow, TablesTyped, driverVars, moveOnVars, clusterVars
<1>6. ASSUME NEW r \in due,
             SkipCompleted(r) \/ SendToLeader(r) \/ BroadcastRequest(r)
      PROVE  DriverTyped'
  <2>1. /\ due' = due \ {r}
        /\ received' \in {received, received \cup {r}}
        /\ UNCHANGED <<driverVars, tableVars, first_send,
                       remaining_transactions, reply, moveOnVars, leader,
                       answered, replies, elections, moveOns>>
    BY <1>6 DEF SkipCompleted, SendToLeader, BroadcastRequest, Delivers,
                clusterVars
  <2>. QED
    BY <2>1 DEF TablesTyped, AtRow, driverVars, tableVars, moveOnVars
<1>7. ASSUME NEW m \in replies, TakeReply(m) PROVE DriverTyped'
  <2>1. /\ m \in [req : Request, node : Node]
        /\ reply' = [stage |-> "cache", was_pending |-> WasPending(m.req),
                     node |-> m.node]
    BY <1>7 DEF TakeReply, TablesTyped
  <2>2. /\ WasPending(m.req) \in BOOLEAN
        /\ (m.req \in null) \in BOOLEAN
    BY DEF WasPending
  <2>3. crashed' \in BOOLEAN
    BY <1>7, <2>2 DEF TakeReply
  <2>4. reply' \in [stage : {"cache", "count"}, was_pending : BOOLEAN,
                    node : Node]
    BY <2>1, <2>2
  <2>. QED
    BY <1>7, <2>3, <2>4
    DEF TakeReply, AtRow, TablesTyped, driverVars, timerVars, moveOnVars,
        clusterVars
<1>8. CASE CacheLeader
  <2>1. /\ reply \in [stage : {"cache", "count"}, was_pending : BOOLEAN,
                      node : Node]
        /\ reply' = [reply EXCEPT !.stage = "count"]
    BY <1>8 DEF CacheLeader, TablesTyped, NoReply
  <2>. QED
    BY <1>8, <2>1
    DEF CacheLeader, AtRow, TablesTyped, driverVars, tableVars, timerVars,
        moveOnVars, clusterVars
<1>9. CASE CountReply
  BY <1>0, <1>9
  DEF CountReply, AtRow, TablesTyped, driverVars, tableVars, timerVars,
      moveOnVars, clusterVars
<1>10. CASE MoveOn
  BY <1>10, ClientAssumption
  DEF MoveOn, AtRow, TablesTyped, driverVars, tableVars, timerVars,
      clusterVars
<1>11. ASSUME NEW r \in received, Answer(r) PROVE DriverTyped'
  <2>1. r \in Request /\ leader[Home[r]] \in Node
    BY <1>11, ClientAssumption DEF TablesTyped
  <2>. QED
    BY <1>11, <2>1
    DEF Answer, AtRow, TablesTyped, driverVars, tableVars, timerVars,
        moveOnVars
<1>12. ASSUME NEW c \in Cluster, Elect(c) PROVE DriverTyped'
  <2>1. leader' \in [Cluster -> Node]
    BY <1>12, NodesOfAreNodes DEF Elect, TablesTyped
  <2>2. elections' \in 0 .. MaxElections /\ received' \subseteq Request
    BY <1>12, ClientAssumption DEF Elect, TablesTyped
  <2>. QED
    BY <1>12, <2>1, <2>2
    DEF Elect, AtRow, TablesTyped, driverVars, tableVars, timerVars,
        moveOnVars
<1>13. CASE UNCHANGED vars
  BY <1>13 DEF AtRow, TablesTyped, vars, driverVars, tableVars, timerVars,
               moveOnVars, clusterVars
<1>. QED
  BY <1>1, <1>2, <1>3, <1>4, <1>5, <1>6, <1>7, <1>8, <1>9, <1>10, <1>11,
     <1>12, <1>13
  DEF Next, Driver, Timer, Server, Clusters

\* Each action of the driver, the timer, the server and the clusters keeps the
\* invariant.
LEMMA DriverStep ==
  ASSUME ClientInv, DriverTyped', Driver
  PROVE  ClientInv'
<1> USE DEF ClientInv, DriverTyped
<1>0. /\ Cardinality(inflight) \in Nat
      /\ remaining_transactions \in Int
      /\ Len(Script) \in Nat
      /\ row \in 1 .. Len(Script) + 1
      /\ remaining_transactions = Cardinality(inflight) + Counted
      /\ inflight \subseteq timer_heap \ completed /\ null = {}
      /\ BeingCounted \in {0, 1}
      /\ announced \in BOOLEAN
  BY InflightSize, ScriptFacts DEF TablesTyped, CountInv, BeingCounted
<1>1. CASE CountRequest
  <2>2. TablesInv'
    BY <1>1 DEF CountRequest, TablesInv, EarlierRows, AtRow, tableVars
  <2>3. Counted' = Counted + 1
    BY <1>0, <1>1 DEF CountRequest, Counted, BeingCounted
  <2>4. CountInv'
    BY <1>0, <1>1, <2>3, CountedType
    DEF CountRequest, CountInv, tableVars, moveOnVars
  <2>. QED
    BY <1>1, <2>2, <2>4 DEF CountRequest, tableVars
<1>2. CASE SendRequest
  <2>1. AtRow(Request) /\ row <= Len(Script) /\ Script[row] \in Request
    BY <1>2 DEF SendRequest, TablesInv, AtRow
  <2>2. /\ Script[row] \notin EarlierRows
        /\ row + 1 \in 1 .. Len(Script) + 1
    BY <2>1, ScriptFacts
  <2>4. EarlierRows' = EarlierRows \cup {Script[row]}
    BY <1>0, <1>2, RowRead DEF SendRequest
  <2>5. TablesInv'
    BY <1>2, <2>4 DEF SendRequest, TablesInv
  <2>6. Cardinality(inflight') = Cardinality(inflight) + 1
    BY <1>2, <2>2, InflightSize DEF SendRequest, TablesInv
  <2>7. Counted' = Counted - 1
    BY <1>0, <1>2 DEF SendRequest, Counted, BeingCounted
  <2>8. inflight' \subseteq timer_heap' \ completed'
    BY <1>0, <1>2, <2>2 DEF SendRequest, TablesInv
  <2>9. CountInv'
    BY <1>0, <1>2, <2>6, <2>7, <2>8, CountedType
    DEF SendRequest, CountInv, moveOnVars
  <2>. QED
    BY <1>2, <2>5, <2>9 DEF SendRequest
<1>3. CASE FailOrRecover \/ StartSet
  <2>1. /\ row <= Len(Script)
        /\ row' = row + 1
        /\ ~ announced
    BY <1>3, ClientAssumption
    DEF FailOrRecover, StartSet, AtRow, TablesInv
  <2>2. row + 1 \in 1 .. Len(Script) + 1
    BY <2>1, ScriptFacts
  <2>4. EarlierRows' = EarlierRows \cup {Script[row]}
    BY <1>0, <2>1, RowRead
  <2>5. TablesInv'
    BY <1>3, <2>1, <2>4 DEF FailOrRecover, StartSet, TablesInv, tableVars
  <2>6. CountInv'
    BY <1>3 DEF FailOrRecover, StartSet, CountInv, Counted, BeingCounted,
                tableVars, moveOnVars
  <2>. QED
    BY <1>3, <2>5, <2>6 DEF FailOrRecover, StartSet, tableVars
<1>. QED
  BY <1>1, <1>2, <1>3 DEF Driver

LEMMA TimerStep ==
  ASSUME ClientInv, DriverTyped', Timer
  PROVE  ClientInv'
<1> USE DEF ClientInv, DriverTyped
<1>1. CASE TimerPass
  <2>1. PICK gone \in SUBSET (timer_heap \cap completed),
             popped \in SUBSET (timer_heap \ completed) :
          /\ timer_heap' = (timer_heap \ (gone \cup popped)) \cup popped
          /\ due' = popped
          /\ first_send' = popped \ active
          /\ active' = active \cup popped
    BY <1>1 DEF TimerPass, Reschedule
  <2>2. /\ timer_heap' \subseteq timer_heap
        /\ timer_heap \ completed \subseteq timer_heap'
    BY <2>1
  <2>4. TablesInv'
    BY <1>1, <2>2 DEF TimerPass, TablesInv, EarlierRows, AtRow, driverVars
  <2>5. CountInv'
    BY <1>1, <2>2
    DEF TimerPass, CountInv, Counted, BeingCounted, driverVars, moveOnVars
  <2>. QED
    BY <1>1, <2>4, <2>5 DEF TimerPass
<1>2. ASSUME NEW r \in due,
             SkipCompleted(r) \/ SendToLeader(r) \/ BroadcastRequest(r)
      PROVE  ClientInv'
  <2>1. /\ due' = due \ {r}
        /\ received' \in {received, received \cup {r}}
        /\ UNCHANGED <<driverVars, tableVars, first_send,
                       remaining_transactions, reply, moveOnVars, leader,
                       answered, replies, elections, moveOns>>
    BY <1>2 DEF SkipCompleted, SendToLeader, BroadcastRequest, Delivers,
                clusterVars
  <2>3. TablesInv'
    BY <2>1 DEF TablesInv, EarlierRows, AtRow, driverVars, tableVars
  <2>4. CountInv'
    BY <2>1
    DEF CountInv, Counted, BeingCounted, driverVars, tableVars, moveOnVars
  <2>. QED
    BY <2>1, <2>3, <2>4 DEF tableVars
<1>. QED
  BY <1>1, <1>2 DEF Timer

LEMMA ServerStep ==
  ASSUME ClientInv, DriverTyped', Server
  PROVE  ClientInv'
<1> USE DEF ClientInv, DriverTyped
<1>0. /\ Cardinality(inflight) \in Nat
      /\ remaining_transactions \in Int
      /\ remaining_transactions = Cardinality(inflight) + Counted
      /\ inflight \subseteq timer_heap \ completed /\ null = {}
      /\ Counted \in Nat
  BY InflightSize, CountedType DEF TablesTyped, CountInv
<1>1. ASSUME NEW m \in replies, TakeReply(m) PROVE ClientInv'
  <2>1. /\ m \in [req : Request, node : Node]
        /\ reply' = [stage |-> "cache", was_pending |-> WasPending(m.req),
                     node |-> m.node]
        /\ reply = NoReply
    BY <1>1 DEF TakeReply, TablesTyped
  <2>2. WasPending(m.req) \in BOOLEAN /\ crashed' = FALSE
    <3>1. crashed' = (m.req \in {})
      BY <1>0, <1>1 DEF TakeReply
    <3>2. (m.req \in {}) = FALSE
      OBVIOUS
    <3>3. (m.req \in inflight) \in BOOLEAN
      OBVIOUS
    <3>. QED
      BY <3>1, <3>2, <3>3, Zenon DEF WasPending
  <2>4. TablesInv'
    BY <1>1 DEF TakeReply, TablesInv, EarlierRows, AtRow, driverVars
  <2>5. Cardinality(inflight') + Counted' = Cardinality(inflight) + Counted
    <3>1. CASE m.req \in inflight
      <4>1. Cardinality(inflight') = Cardinality(inflight) - 1
        BY <1>1, <3>1, InflightSize DEF TakeReply
      <4>2. BeingCounted = 0 /\ BeingCounted' = 1
        BY <2>1, <3>1 DEF BeingCounted, NoReply, WasPending
      <4>3. Counted' = Counted + 1
        BY <1>1, <4>2 DEF TakeReply, Counted, driverVars
      <4>. QED
        BY <1>0, <4>1, <4>3
    <3>2. CASE m.req \notin inflight
      <4>1. inflight' = inflight
        BY <1>1, <3>2 DEF TakeReply
      <4>2. BeingCounted = 0 /\ BeingCounted' = 0
        BY <2>1, <3>2 DEF BeingCounted, NoReply, WasPending
      <4>3. Counted' = Counted
        BY <1>1, <4>2 DEF TakeReply, Counted, driverVars
      <4>. QED
        BY <4>1, <4>3
    <3>. QED
      BY <3>1, <3>2
  <2>6. inflight' \subseteq timer_heap' \ completed'
    BY <1>0, <1>1 DEF TakeReply
  <2>7. CountInv'
    BY <1>0, <1>1, <2>5, <2>6 DEF TakeReply, CountInv, moveOnVars
  <2>. QED
    BY <2>2, <2>4, <2>7
<1>2. CASE CacheLeader
  <2>1. /\ reply \in [stage : {"cache", "count"}, was_pending : BOOLEAN,
                      node : Node]
        /\ reply' = [reply EXCEPT !.stage = "count"]
    BY <1>2 DEF CacheLeader, TablesTyped, NoReply
  <2>3. TablesInv'
    BY <1>2 DEF CacheLeader, TablesInv, EarlierRows, AtRow, driverVars,
                tableVars
  <2>4. BeingCounted' = BeingCounted
    BY <1>2, <2>1 DEF CacheLeader, BeingCounted, NoReply
  <2>5. CountInv'
    BY <1>2, <2>4
    DEF CacheLeader, CountInv, Counted, driverVars, tableVars, moveOnVars
  <2>. QED
    BY <1>2, <2>3, <2>5 DEF CacheLeader, tableVars
<1>3. CASE CountReply
  <2>1. /\ reply \in [stage : {"cache", "count"}, was_pending : BOOLEAN,
                      node : Node]
        /\ reply # NoReply
        /\ reply' = NoReply
    BY <1>3 DEF CountReply, TablesTyped, NoReply
  <2>3. TablesInv'
    BY <1>3 DEF CountReply, TablesInv, EarlierRows, AtRow, driverVars,
                tableVars
  <2>4. /\ BeingCounted = IF reply.was_pending THEN 1 ELSE 0
        /\ BeingCounted' = 0
    BY <2>1 DEF BeingCounted
  <2>5. remaining_transactions' - Counted' = remaining_transactions - Counted
    BY <1>0, <1>3, <2>4 DEF CountReply, Counted, driverVars
  <2>6. Counted' \in Nat
    BY <2>4 DEF Counted
  <2>7. remaining_transactions' \in Int
    BY DEF TablesTyped
  <2>8. CountInv'
    BY <1>0, <1>3, <2>5, <2>6, <2>7
    DEF CountReply, CountInv, tableVars, moveOnVars
  <2>. QED
    BY <1>3, <2>3, <2>8 DEF CountReply, tableVars
<1>. QED
  BY <1>1, <1>2, <1>3 DEF Server

LEMMA ClustersStep ==
  ASSUME ClientInv, DriverTyped', Clusters
  PROVE  ClientInv'
<1> USE DEF ClientInv, DriverTyped
<1>1. /\ UNCHANGED <<driverVars, tableVars, timerVars,
                     remaining_transactions, reply, moveOnVars, moveOns>>
  BY DEF Clusters, Answer, Elect
<1>3. TablesInv'
  BY <1>1 DEF TablesInv, EarlierRows, AtRow, driverVars, tableVars
<1>4. CountInv'
  BY <1>1 DEF CountInv, Counted, BeingCounted, driverVars, tableVars,
              moveOnVars
<1>. QED
  BY <1>1, <1>3, <1>4 DEF tableVars

LEMMA ClientUnchanged ==
  ASSUME ClientInv, DriverTyped', UNCHANGED vars
  PROVE  ClientInv'
<1>2. TablesInv'
  BY DEF ClientInv, TablesInv, EarlierRows, AtRow, vars, driverVars, tableVars
<1>3. CountInv'
  BY DEF ClientInv, CountInv, Counted, BeingCounted, vars, driverVars,
         tableVars, moveOnVars
<1>. QED
  BY <1>2, <1>3 DEF ClientInv, vars, tableVars

-----------------------------------------------------------------------------
\* What the invariant says of the driver.
LEMMA ClientInvImplies ==
  ASSUME ClientInv
  PROVE  RemainingIsExact /\ PendingIsScheduled /\ ClientSurvives
<1>1. /\ remaining_transactions = Cardinality(inflight) + Counted
      /\ inflight \subseteq timer_heap \ completed
  BY DEF ClientInv, CountInv
<1>2. /\ Cardinality(inflight) \in Nat
      /\ BeingCounted \in Nat
      /\ (IF announced THEN 1 ELSE 0) \in Nat
  BY InflightSize DEF ClientInv, DriverTyped, BeingCounted
<1>3. RemainingIsExact
  BY <1>1, <1>2 DEF RemainingIsExact, Counted
<1>. QED
  BY <1>1, <1>3 DEF PendingIsScheduled, ClientSurvives, ClientInv

\* With nobody in HandleMoveOn, as long as the user has not typed Continue.
UntilContinue == moveOns = 0 => move_on = "idle" /\ ClientInv

LEMMA UntilContinueStep ==
  ASSUME DriverTyped, UntilContinue, [Next]_vars
  PROVE  UntilContinue'
<1> SUFFICES ASSUME moveOns' = 0
             PROVE  (move_on = "idle" /\ ClientInv)'
  BY DEF UntilContinue
<1>0. DriverTyped'
  BY TypesStep
<1>1. ~ MoveOn
  BY DEF MoveOn, DriverTyped, TablesTyped
<1>2. moveOns = 0
  BY <1>1
  DEF Next, Driver, Timer, Server, HandleMoveOn, Clusters,
      CountRequest, SendRequest, FailOrRecover, StartSet, TimerPass,
      SkipCompleted, SendToLeader, BroadcastRequest, TakeReply, CacheLeader,
      CountReply, MarkCompleted, ReadSize, ClearInflight, DrainHeap,
      SubtractSize, Answer, Elect, vars
<1>3. move_on = "idle" /\ ClientInv
  BY <1>2 DEF UntilContinue
<1>4. ~ HandleMoveOn
  BY <1>3 DEF HandleMoveOn, MarkCompleted, ReadSize, ClearInflight, DrainHeap,
              SubtractSize
<1>5. ClientInv'
  BY <1>0, <1>1, <1>3, <1>4, DriverStep, TimerStep, ServerStep, ClustersStep,
     ClientUnchanged
  DEF Next
<1>6. move_on' = "idle"
  BY <1>1, <1>3
  DEF Next, Driver, Timer, Server, HandleMoveOn, Clusters,
      CountRequest, SendRequest, FailOrRecover, StartSet, TimerPass,
      SkipCompleted, SendToLeader, BroadcastRequest, TakeReply, CacheLeader,
      CountReply, MarkCompleted, ReadSize, ClearInflight, DrainHeap,
      SubtractSize, Answer, Elect, vars, moveOnVars
<1>. QED
  BY <1>5, <1>6

LEMMA UntilContinueInit == Init => DriverTyped /\ UntilContinue
  BY ClientInit DEF ClientInv, UntilContinue, Init

\* As long as the user has not typed Continue, the count the driver waits on
\* is exact whatever replies are repeated.
THEOREM CountIsExact == Spec => []ExactUntilContinue
<1>1. DriverTyped /\ UntilContinue /\ [Next]_vars =>
        DriverTyped' /\ UntilContinue'
  BY TypesStep, UntilContinueStep
<1>2. UntilContinue => ExactUntilContinue
  BY ClientInvImplies DEF UntilContinue, ExactUntilContinue, BeforeContinue
<1>. QED
  BY <1>1, <1>2, UntilContinueInit, PTL DEF Spec

\* As long as the user has not typed Continue, a request that waits for its
\* reply stays in the heap of the timer thread.
THEOREM PendingStaysScheduled == Spec => []ScheduledUntilContinue
<1>1. DriverTyped /\ UntilContinue /\ [Next]_vars =>
        DriverTyped' /\ UntilContinue'
  BY TypesStep, UntilContinueStep
<1>2. UntilContinue => ScheduledUntilContinue
  BY ClientInvImplies DEF UntilContinue, ScheduledUntilContinue, BeforeContinue
<1>. QED
  BY <1>1, <1>2, UntilContinueInit, PTL DEF Spec

\* As long as the user has not typed Continue, no reply ends the process.
THEOREM RepliesAreSafe == Spec => [](BeforeContinue => ClientSurvives)
<1>1. DriverTyped /\ UntilContinue /\ [Next]_vars =>
        DriverTyped' /\ UntilContinue'
  BY TypesStep, UntilContinueStep
<1>2. UntilContinue => (BeforeContinue => ClientSurvives)
  BY ClientInvImplies DEF UntilContinue, BeforeContinue
<1>. QED
  BY <1>1, <1>2, UntilContinueInit, PTL DEF Spec

\* The driver passes F(nX), R(nX) and the start of a set only when no request
\* is in flight.
LEMMA BarrierStep ==
  ASSUME ClientInv, Next, AtRow({FailRow, NewSet}), row' # row
  PROVE  inflight = {}
<1>1. ~ announced
  BY ClientAssumption DEF ClientInv, DriverTyped, AtRow
<1>2. FailOrRecover \/ StartSet
  BY <1>1, ClientAssumption
  DEF Next, Driver, Timer, Server, MoveOn, HandleMoveOn, Clusters,
      CountRequest, SendRequest, TimerPass, SkipCompleted, SendToLeader,
      BroadcastRequest, TakeReply, CacheLeader, CountReply, MarkCompleted,
      ReadSize, ClearInflight, DrainHeap, SubtractSize, Answer, Elect,
      driverVars
<1>3. remaining_transactions = Cardinality(inflight) + Counted
  BY DEF ClientInv, CountInv
<1>4. Settled
  BY <1>2 DEF FailOrRecover, StartSet
<1>5. Cardinality(inflight) \in Nat /\ Counted \in Nat
  BY InflightSize, CountedType DEF ClientInv, DriverTyped
<1>6. Cardinality(inflight) = 0
  BY <1>3, <1>4, <1>5 DEF Settled
<1>. QED
  BY <1>6, InflightSize DEF ClientInv, DriverTyped

\* As long as the user has not typed Continue, the driver goes past a failure
\* row or to the next set only when no request waits for its reply.
THEOREM BarriersHold == Spec => BarrierUntilContinue
<1>1. DriverTyped /\ UntilContinue /\ [Next]_vars =>
        DriverTyped' /\ UntilContinue'
  BY TypesStep, UntilContinueStep
<1>2. UntilContinue /\ [Next]_vars =>
        [BeforeContinue /\ PassesBarrier => inflight = {}]_vars
  BY BarrierStep DEF UntilContinue, BeforeContinue, PassesBarrier
<1>. QED
  BY <1>1, <1>2, UntilContinueInit, PTL DEF Spec, BarrierUntilContinue

-----------------------------------------------------------------------------
\* leader_per_cluster_: HandleLeaderReply divides a node's id by the number of
\* clusters, BroadcastRequest multiplies by the number of nodes in one.

\* What a division by a positive number gives.
LEMMA Division ==
  ASSUME NEW a \in Nat, NEW b \in Nat \ {0}
  PROVE  /\ a \div b \in Nat
         /\ b * (a \div b) <= a
         /\ a < b * (a \div b) + b
<1>1. b * (a \div b) <= a
  OBVIOUS
<1>2. a < b * (a \div b) + b
  OBVIOUS
<1>3. a \div b \in Nat
  OBVIOUS
<1>. QED
  BY <1>1, <1>2, <1>3

\* Multiplication by a natural number keeps an order.
LEMMA TimesMonotone ==
  ASSUME NEW a \in Nat, NEW b \in Nat, NEW c \in Nat, b <= c
  PROVE  a * b <= a * c
  OBVIOUS

\* The slot of a node exists when a cluster has no more nodes than there are
\* clusters.
LEMMA CacheSlotIsCluster ==
  ASSUME NEW n \in Node, NodesPerCluster <= NumClusters
  PROVE  CacheSlot(n) \in Cluster
<1> DEFINE q == (n - 1) \div NumClusters
<1>1. /\ NumClusters \in Nat \ {0} /\ NodesPerCluster \in Nat \ {0}
      /\ n \in Int /\ n - 1 \in Nat
      /\ n <= NumClusters * NodesPerCluster
  BY ClientAssumption DEF Node
<1>2. q \in Nat /\ NumClusters * q <= n - 1
  BY <1>1, Division
<1>3. NumClusters * NodesPerCluster <= NumClusters * NumClusters
  BY <1>1, TimesMonotone
<1>4. \A x, y, z, m \in Int : x <= m - 1 /\ m <= y /\ y <= z => x < z
  OBVIOUS
<1> HIDE DEF q
<1>5. q < NumClusters
  <2>1. NumClusters * q < NumClusters * NumClusters
    <3>1. /\ NumClusters * q \in Int
          /\ NumClusters * NumClusters \in Int
          /\ NumClusters * NodesPerCluster \in Int
          /\ n \in Int
      BY <1>1, <1>2
    <3>. QED
      BY <1>1, <1>2, <1>3, <1>4, <3>1, Zenon
  <2>2. ~ (NumClusters <= q)
    BY <1>1, <1>2, <2>1, TimesMonotone
  <2>. QED
    BY <1>1, <1>2, <2>2
<1>. QED
  BY <1>1, <1>2, <1>5 DEF CacheSlot, Cluster, q

\* The slot of a node is its own cluster when there are as many clusters as
\* nodes in each.
LEMMA CacheSlotIsItsCluster ==
  ASSUME NEW n \in Node, NodesPerCluster = NumClusters
  PROVE  n \in NodesOf(CacheSlot(n))
<1> DEFINE q == (n - 1) \div NumClusters
<1>1. /\ NumClusters \in Nat \ {0} /\ n \in Int /\ n - 1 \in Nat
  BY ClientAssumption DEF Node
<1>2. /\ q \in Nat
      /\ NumClusters * q <= n - 1
      /\ n - 1 < NumClusters * q + NumClusters
  BY <1>1, Division
<1>3. /\ ((q + 1) - 1) * NumClusters = NumClusters * q
      /\ (q + 1) * NumClusters = NumClusters * q + NumClusters
      /\ NumClusters * q \in Int
  BY <1>1, <1>2
<1>4. n \in ((q + 1) - 1) * NumClusters + 1 .. (q + 1) * NumClusters
  BY <1>1, <1>2, <1>3
<1>. QED
  BY <1>4 DEF CacheSlot, NodesOf

\* A step leaves the cache alone, resets it, or writes the node of the reply
\* at hand into its slot.
LEMMA CacheStep ==
  ASSUME DriverTyped, [Next]_vars
  PROVE  \/ leader_per_cluster' = leader_per_cluster
         \/ leader_per_cluster' = InitialLeaders
         \/ /\ reply.node \in Node
            /\ leader_per_cluster' =
                 [c \in DOMAIN leader_per_cluster \cup {CacheSlot(reply.node)}
                    |-> IF c = CacheSlot(reply.node) THEN reply.node
                        ELSE leader_per_cluster[c]]
<1>1. CASE CacheLeader
  BY <1>1 DEF CacheLeader, DriverTyped, TablesTyped, NoReply
<1>2. CASE ~ CacheLeader
  BY <1>2
  DEF Next, Driver, Timer, Server, MoveOn, HandleMoveOn, Clusters,
      CountRequest, SendRequest, FailOrRecover, StartSet, TimerPass,
      SkipCompleted, SendToLeader, BroadcastRequest, TakeReply,
      CountReply, MarkCompleted, ReadSize, ClearInflight, DrainHeap,
      SubtractSize, Answer, Elect, vars
<1>. QED
  BY <1>1, <1>2

\* Every variable keeps the type it has in paxos_client.h, in every
\* interleaving of the four threads, also inside HandleMoveOn. The slot of a
\* reply is (id - 1) / num_clusters_ + 1: it is one of leader_per_cluster_ only
\* if a cluster has no more nodes than there are clusters.
THEOREM TypeCorrect ==
  ASSUME NodesPerCluster <= NumClusters
  PROVE  Spec => []TypeOK
<1>1. Init => DriverTyped /\ TypeOK
  BY ClientInit, InitialLeadersType DEF ClientInv, DriverTyped, TypeOK, Init
<1>2. DriverTyped /\ TypeOK /\ [Next]_vars => DriverTyped' /\ TypeOK'
  <2> SUFFICES ASSUME DriverTyped, TypeOK, [Next]_vars
               PROVE  DriverTyped' /\ TypeOK'
    OBVIOUS
  <2>1. DriverTyped'
    BY TypesStep
  <2>2. leader_per_cluster' \in [Cluster -> Node]
    BY CacheStep, CacheSlotIsCluster, InitialLeadersType DEF TypeOK
  <2>. QED
    BY <2>1, <2>2 DEF TypeOK, DriverTyped
<1>. QED
  BY <1>1, <1>2, PTL DEF Spec

\* With as many clusters as nodes in each, the case in which Documentation.md
\* calls the division of HandleLeaderReply correct and its 3 clusters of 3
\* nodes, the cached leader of a cluster is always one of its nodes.
THEOREM CachedLeaderInCluster ==
  ASSUME NodesPerCluster = NumClusters
  PROVE  Spec => []CachedLeaderIsInCluster
<1> DEFINE Cached == leader_per_cluster \in [Cluster -> Node]
                       /\ CachedLeaderIsInCluster
<1>0. NodesPerCluster <= NumClusters
  BY ClientAssumption
<1>1. Init => DriverTyped /\ Cached
  BY ClientInit, InitialLeadersType, InitialLeadersInCluster
  DEF ClientInv, CachedLeaderIsInCluster, Init
<1>2. DriverTyped /\ Cached /\ [Next]_vars => DriverTyped' /\ Cached'
  <2> SUFFICES ASSUME DriverTyped, Cached, [Next]_vars
               PROVE  DriverTyped' /\ Cached'
    OBVIOUS
  <2>1. DriverTyped'
    BY TypesStep
  <2>2. CASE leader_per_cluster' = leader_per_cluster
    BY <2>1, <2>2 DEF CachedLeaderIsInCluster
  <2>3. CASE leader_per_cluster' = InitialLeaders
    BY <2>1, <2>3, InitialLeadersType, InitialLeadersInCluster
    DEF CachedLeaderIsInCluster
  <2>4. CASE /\ reply.node \in Node
             /\ leader_per_cluster' =
                  [c \in DOMAIN leader_per_cluster
                           \cup {CacheSlot(reply.node)} |->
                     IF c = CacheSlot(reply.node) THEN reply.node
                     ELSE leader_per_cluster[c]]
    <3>1. /\ CacheSlot(reply.node) \in Cluster
          /\ reply.node \in NodesOf(CacheSlot(reply.node))
      BY <1>0, <2>4, CacheSlotIsCluster, CacheSlotIsItsCluster
    <3>2. Cached'
      BY <2>4, <3>1 DEF CachedLeaderIsInCluster
    <3>. QED
      BY <2>1, <3>2
  <2>. QED
    BY <2>2, <2>3, <2>4, CacheStep
<1>3. Cached => CachedLeaderIsInCluster
  OBVIOUS
<1>. QED
  BY <1>1, <1>2, <1>3, PTL DEF Spec
=============================================================================
