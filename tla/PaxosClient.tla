----------------------------- MODULE PaxosClient -----------------------------
(***************************************************************************)
(* The client of all clusters and the driver that feeds it:                *)
(* src/paxos_client.cpp and the main and input threads of                  *)
(* src/node_launch.cpp.  Four threads share the client's tables: the       *)
(* driver submits the rows of the test file, the timer thread sends and    *)
(* resends, the thread of the client's gRPC server handles replies, and    *)
(* the input thread abandons a set when the user types Continue.           *)
(*                                                                         *)
(* A step is what a thread does under pending_mutex_ or stub_mutex_, or    *)
(* between two of them.  HandleMoveOn takes no mutex, so it is one step    *)
(* per operation on a shared container.  The clusters are external: a      *)
(* request that reaches the leader of its cluster is answered, by each     *)
(* later leader again.                                                     *)
(***************************************************************************)
EXTENDS Integers, FiniteSets, Sequences

CONSTANTS
  Request,          \* transactions (timestamps)
  Home,             \* sharding_map of the sender's account
  NumClusters, NodesPerCluster,
  Script,           \* rows of the test file: requests, NewSet and FailRow
  NewSet, FailRow,  \* first row of a set; a row F(nX) or R(nX)
  MaxElections,     \* bound: changes of a cluster's leader
  MaxMoveOns        \* bound: times the user types Continue

Cluster == 1 .. NumClusters
Node    == 1 .. NumClusters * NodesPerCluster

ASSUME ClientAssumption ==
  /\ NumClusters \in Nat \ {0} /\ NodesPerCluster \in Nat \ {0}
  /\ IsFiniteSet(Request)
  /\ Home \in [Request -> Cluster]
  /\ Script \in Seq(Request \cup {NewSet, FailRow})
  /\ NewSet \notin Request /\ FailRow \notin Request /\ NewSet # FailRow
  /\ \A i, j \in DOMAIN Script :
       Script[i] = Script[j] /\ Script[i] \in Request => i = j
  /\ MaxElections \in Nat /\ MaxMoveOns \in Nat

VARIABLES
  row,                 \* the next row of the test file
  announced,           \* the row's request is counted but not yet submitted
  inflight,            \* keys of inflight_
  null,                \* those whose pointer HandleMoveOn has reset
  crashed,             \* a null pointer was dereferenced
  timer_heap,          \* requests in timer_heap
  active, completed,   \* flags of PendingRequest
  due,                 \* TimerLoop's batch: requests popped but not yet sent
  first_send,          \* those of the batch that are sent for the first time
  leader_per_cluster,
  remaining_transactions,
  reply,               \* the reply HandleLeaderReply is working on
  move_on,             \* where HandleMoveOn is
  size_pending,        \* HandleMoveOn's local
  input_thread,        \* "running" or "ended"
  leader,              \* external: the leader of each cluster
  received,            \* external: requests that a leader will answer
  answered,            \* external: pairs of a request and who answered it
  replies,             \* replies in flight to the client's server
  elections, moveOns   \* how much of the bounds is used

driverVars == <<row, announced>>
tableVars  == <<inflight, null, crashed, timer_heap, active, completed>>
timerVars  == <<due, first_send>>
moveOnVars == <<move_on, size_pending, input_thread>>
clusterVars == <<leader, received, answered>>
vars == <<driverVars, tableVars, timerVars, leader_per_cluster,
          remaining_transactions, reply, moveOnVars, clusterVars, replies,
          elections, moveOns>>

NoReply == [stage |-> "none"]

\* Nodes of a cluster, as BroadcastRequest computes them.
NodesOf(c) == ((c - 1) * NodesPerCluster + 1) .. c * NodesPerCluster

\* The cache the constructor and reset_leaders_per_cluster fill.
InitialLeaders == [c \in Cluster |-> (c - 1) * NodesPerCluster + 1]

\* Mutant of CacheSlot: the division starts at node 0.
CacheSlotFromZero(node) == node \div NumClusters + 1

\* The slot of leader_per_cluster_ that a reply of a node updates.
CacheSlot(node) == (node - 1) \div NumClusters + 1

Init ==
  /\ row = 1
  /\ announced = FALSE
  /\ inflight = {}
  /\ null = {}
  /\ crashed = FALSE
  /\ timer_heap = {}
  /\ active = {}
  /\ completed = {}
  /\ due = {}
  /\ first_send = {}
  /\ leader_per_cluster = InitialLeaders
  /\ remaining_transactions = 0
  /\ reply = NoReply
  /\ move_on = "idle"
  /\ size_pending = 0
  /\ input_thread = "running"
  /\ leader = InitialLeaders
  /\ received = {}
  /\ answered = {}
  /\ replies = {}
  /\ elections = 0
  /\ moveOns = 0

-----------------------------------------------------------------------------
\* The driver's main thread.

AtRow(kinds) == row <= Len(Script) /\ Script[row] \in kinds

\* The request is counted before it is submitted.
CountRequest ==
  /\ AtRow(Request)
  /\ ~ announced
  /\ announced' = TRUE
  /\ remaining_transactions' = remaining_transactions + 1
  /\ UNCHANGED <<row, tableVars, timerVars, leader_per_cluster, reply,
                 moveOnVars, clusterVars, replies, elections, moveOns>>

\* SendRequest only queues: the timer thread sends.
SendRequest ==
  /\ announced
  /\ inflight' = inflight \cup {Script[row]}
  /\ timer_heap' = timer_heap \cup {Script[row]}
  /\ announced' = FALSE
  /\ row' = row + 1
  /\ UNCHANGED <<null, crashed, active, completed, timerVars,
                 leader_per_cluster, remaining_transactions, reply,
                 moveOnVars, clusterVars, replies, elections, moveOns>>

\* Mutant of Settled: the driver waits while there are two or more.
AtMostOneLeft == remaining_transactions <= 1

\* What the driver waits for.
Settled == remaining_transactions <= 0

\* After the last row it waits once more.
Finished == row > Len(Script) /\ Settled

\* F(nX) or R(nX): wait, then kill or revive, which is outside this module.
FailOrRecover ==
  /\ AtRow({FailRow})
  /\ Settled
  /\ row' = row + 1
  /\ UNCHANGED <<announced, tableVars, timerVars, leader_per_cluster,
                 remaining_transactions, reply, moveOnVars, clusterVars,
                 replies, elections, moveOns>>

\* A new set: wait, join the input thread, start it again and forget the
\* leaders.
StartSet ==
  /\ AtRow({NewSet})
  /\ Settled
  /\ move_on = "idle"
  /\ row' = row + 1
  /\ input_thread' = "running"
  /\ leader_per_cluster' = InitialLeaders
  /\ UNCHANGED <<announced, tableVars, timerVars, remaining_transactions,
                 reply, move_on, size_pending, clusterVars, replies,
                 elections, moveOns>>

-----------------------------------------------------------------------------
\* TimerLoop.

\* Mutant of Reschedule: what is sent is not put back.
NoReschedule(kept, popped) == kept

\* Popped requests go back to the heap under the same lock.
Reschedule(kept, popped) == kept \cup popped

\* One pass under pending_mutex_: completed requests that reach the top are
\* discarded, some expired ones are popped and put back with a later expiry.
TimerPass ==
  /\ due = {}
  /\ \E gone \in SUBSET (timer_heap \cap completed),
        popped \in SUBSET (timer_heap \ completed) :
       /\ gone \cup popped # {}
       /\ timer_heap' = Reschedule(timer_heap \ (gone \cup popped), popped)
       /\ due' = popped
       /\ first_send' = popped \ active
       /\ active' = active \cup popped
  /\ UNCHANGED <<driverVars, inflight, null, crashed, completed,
                 leader_per_cluster,
                 remaining_transactions, reply, moveOnVars, clusterVars,
                 replies, elections, moveOns>>

\* A request sent to some nodes reaches the leader or, if a backup gets it,
\* may be forwarded to it.
Delivers(r, nodes) ==
  \/ received' = received \cup {r}
  \/ leader[Home[r]] \notin nodes /\ UNCHANGED received

SkipCompleted(r) ==
  /\ r \in due \cap completed
  /\ due' = due \ {r}
  /\ UNCHANGED <<driverVars, tableVars, first_send, leader_per_cluster,
                 remaining_transactions, reply, moveOnVars, clusterVars,
                 replies, elections, moveOns>>

SendToLeader(r) ==
  /\ r \in (due \ completed) \cap first_send
  /\ due' = due \ {r}
  /\ Delivers(r, {leader_per_cluster[Home[r]]})
  /\ UNCHANGED <<driverVars, tableVars, first_send, leader_per_cluster,
                 remaining_transactions, reply, moveOnVars, leader, answered,
                 replies, elections, moveOns>>

\* Mutant of BroadcastRequest: a retry goes to the cached leader again.
RetryCachedLeader(r) ==
  /\ r \in (due \ completed) \ first_send
  /\ due' = due \ {r}
  /\ Delivers(r, {leader_per_cluster[Home[r]]})
  /\ UNCHANGED <<driverVars, tableVars, first_send, leader_per_cluster,
                 remaining_transactions, reply, moveOnVars, leader, answered,
                 replies, elections, moveOns>>

BroadcastRequest(r) ==
  /\ r \in (due \ completed) \ first_send
  /\ due' = due \ {r}
  /\ Delivers(r, NodesOf(Home[r]))
  /\ UNCHANGED <<driverVars, tableVars, first_send, leader_per_cluster,
                 remaining_transactions, reply, moveOnVars, leader, answered,
                 replies, elections, moveOns>>

-----------------------------------------------------------------------------
\* HandleLeaderReply, on the one thread of the client's server.

\* Mutant of WasPending: a reply counts whether or not it was waited for.
AlwaysPending(r) == TRUE

WasPending(r) == r \in inflight

\* Under pending_mutex_: the request is marked and leaves inflight_.  Its
\* pointer is dereferenced without a look.
TakeReply(m) ==
  /\ reply = NoReply
  /\ m \in replies
  /\ replies' = replies \ {m}
  /\ reply' = [stage |-> "cache", was_pending |-> WasPending(m.req),
               node |-> m.node]
  /\ completed' = completed \cup (inflight \cap {m.req})
  /\ inflight' = inflight \ {m.req}
  /\ crashed' = (m.req \in null)
  /\ UNCHANGED <<driverVars, null, timer_heap, active, timerVars,
                 leader_per_cluster, remaining_transactions, moveOnVars,
                 clusterVars, elections, moveOns>>

CacheLeader ==
  /\ reply.stage = "cache"
  /\ leader_per_cluster' =
       [c \in DOMAIN leader_per_cluster \cup {CacheSlot(reply.node)} |->
          IF c = CacheSlot(reply.node) THEN reply.node
          ELSE leader_per_cluster[c]]
  /\ reply' = [reply EXCEPT !.stage = "count"]
  /\ UNCHANGED <<driverVars, tableVars, timerVars, remaining_transactions,
                 moveOnVars, clusterVars, replies, elections, moveOns>>

CountReply ==
  /\ reply.stage = "count"
  /\ remaining_transactions' =
       IF reply.was_pending THEN remaining_transactions - 1
       ELSE remaining_transactions
  /\ reply' = NoReply
  /\ UNCHANGED <<driverVars, tableVars, timerVars, leader_per_cluster,
                 moveOnVars, clusterVars, replies, elections, moveOns>>

-----------------------------------------------------------------------------
\* InputThread: Continue runs HandleMoveOn and ends the thread.

MoveOn ==
  /\ moveOns < MaxMoveOns
  /\ input_thread = "running"
  /\ move_on = "idle"
  /\ move_on' = "mark"
  /\ moveOns' = moveOns + 1
  /\ UNCHANGED <<driverVars, tableVars, timerVars, leader_per_cluster,
                 remaining_transactions, reply, size_pending, input_thread,
                 clusterVars, replies, elections>>

\* Every request is marked and its pointer reset; the keys stay for now.
MarkCompleted ==
  /\ move_on = "mark"
  /\ completed' = completed \cup inflight
  /\ null' = inflight
  /\ move_on' = "size"
  /\ UNCHANGED <<driverVars, inflight, crashed, timer_heap, active, timerVars,
                 leader_per_cluster, remaining_transactions, reply,
                 size_pending, input_thread, clusterVars, replies, elections,
                 moveOns>>

ReadSize ==
  /\ move_on = "size"
  /\ size_pending' = Cardinality(inflight)
  /\ move_on' = "clear"
  /\ UNCHANGED <<driverVars, tableVars, timerVars, leader_per_cluster,
                 remaining_transactions, reply, input_thread, clusterVars,
                 replies, elections, moveOns>>

\* Mutant of ClearInflight: the keys stay.
ClearPointersOnly ==
  /\ move_on = "clear"
  /\ move_on' = "drain"
  /\ UNCHANGED <<driverVars, tableVars, timerVars, leader_per_cluster,
                 remaining_transactions, reply, size_pending, input_thread,
                 clusterVars, replies, elections, moveOns>>

ClearInflight ==
  /\ move_on = "clear"
  /\ inflight' = {}
  /\ null' = {}
  /\ move_on' = "drain"
  /\ UNCHANGED <<driverVars, crashed, timer_heap, active, completed, timerVars,
                 leader_per_cluster, remaining_transactions, reply,
                 size_pending, input_thread, clusterVars, replies, elections,
                 moveOns>>

DrainHeap ==
  /\ move_on = "drain"
  /\ completed' = completed \cup timer_heap
  /\ timer_heap' = {}
  /\ move_on' = "subtract"
  /\ UNCHANGED <<driverVars, inflight, null, crashed, active, timerVars,
                 leader_per_cluster, remaining_transactions, reply,
                 size_pending, input_thread, clusterVars, replies, elections,
                 moveOns>>

SubtractSize ==
  /\ move_on = "subtract"
  /\ remaining_transactions' = remaining_transactions - size_pending
  /\ move_on' = "idle"
  /\ input_thread' = "ended"
  /\ UNCHANGED <<driverVars, tableVars, timerVars, leader_per_cluster, reply,
                 size_pending, clusterVars, replies, elections, moveOns>>

-----------------------------------------------------------------------------
\* The clusters, external to the client.

\* The leader answers a request it has received, once.
Answer(r) ==
  /\ r \in received
  /\ <<r, leader[Home[r]]>> \notin answered
  /\ answered' = answered \cup {<<r, leader[Home[r]]>>}
  /\ replies' = replies \cup {[req |-> r, node |-> leader[Home[r]]]}
  /\ UNCHANGED <<driverVars, tableVars, timerVars, leader_per_cluster,
                 remaining_transactions, reply, moveOnVars, leader, received,
                 elections, moveOns>>

\* Another node leads: requests that were answered are in its log, others
\* may be lost.
Elect(c) ==
  /\ elections < MaxElections
  /\ \E n \in NodesOf(c) \ {leader[c]} : leader' = [leader EXCEPT ![c] = n]
  /\ \E lost \in SUBSET {r \in received : /\ Home[r] = c
                                          /\ \A p \in answered : p[1] # r} :
       received' = received \ lost
  /\ elections' = elections + 1
  /\ UNCHANGED <<driverVars, tableVars, timerVars, leader_per_cluster,
                 remaining_transactions, reply, moveOnVars, answered,
                 replies, moveOns>>

-----------------------------------------------------------------------------
Driver == CountRequest \/ SendRequest \/ FailOrRecover \/ StartSet
Timer  == \/ TimerPass
          \/ \E r \in due : \/ SkipCompleted(r)
                            \/ SendToLeader(r)
                            \/ BroadcastRequest(r)
Server == (\E m \in replies : TakeReply(m)) \/ CacheLeader \/ CountReply
HandleMoveOn == \/ MarkCompleted
                \/ ReadSize
                \/ ClearInflight
                \/ DrainHeap
                \/ SubtractSize
Clusters == (\E r \in received : Answer(r)) \/ (\E c \in Cluster : Elect(c))

Next == /\ ~ crashed
        /\ Driver \/ Timer \/ Server \/ MoveOn \/ HandleMoveOn \/ Clusters

Spec == Init /\ [][Next]_vars

-----------------------------------------------------------------------------
\* Nothing is shared between a request's expiry and others': a pass pops every
\* request that has expired, and each expires 100 ms after it was sent.  Every
\* thread keeps running and a leader answers.  The user types, and leaders
\* change, at will.
Fairness == /\ WF_vars(Driver)
            /\ \A r \in Request :
                 /\ SF_vars(TimerPass /\ r \in due')
                 /\ WF_vars(\/ SkipCompleted(r)
                            \/ SendToLeader(r)
                            \/ BroadcastRequest(r))
                 /\ WF_vars(Answer(r))
            /\ WF_vars(Server)
            /\ WF_vars(HandleMoveOn)

FairSpec == Spec /\ Fairness

-----------------------------------------------------------------------------
TablesTyped ==
  /\ row \in 1 .. Len(Script) + 1
  /\ announced \in BOOLEAN
  /\ inflight \subseteq Request
  /\ null \subseteq Request
  /\ crashed \in BOOLEAN
  /\ timer_heap \subseteq Request
  /\ active \subseteq Request
  /\ completed \subseteq Request
  /\ due \subseteq Request
  /\ first_send \subseteq Request
  /\ remaining_transactions \in Int
  /\ reply \in {NoReply} \cup [stage : {"cache", "count"},
                               was_pending : BOOLEAN, node : Node]
  /\ move_on \in {"idle", "mark", "size", "clear", "drain", "subtract"}
  /\ size_pending \in Nat
  /\ input_thread \in {"running", "ended"}
  /\ leader \in [Cluster -> Node]
  /\ received \subseteq Request
  /\ answered \subseteq Request \X Node
  /\ replies \subseteq [req : Request, node : Node]
  /\ elections \in 0 .. MaxElections
  /\ moveOns \in 0 .. MaxMoveOns

\* The tables have the types of paxos_client.h.
TypeOK == TablesTyped /\ leader_per_cluster \in [Cluster -> Node]

BeingCounted == IF reply # NoReply /\ reply.was_pending THEN 1 ELSE 0

\* Until the user first types Continue.  HandleMoveOn takes none of the mutexes
\* of the other threads, and what follows is said of the time before it.
BeforeContinue == moveOns = 0

\* remaining_transactions counts the requests that are in flight, one that is
\* about to be submitted and one whose reply is being handled: however often a
\* request is sent and answered, it is counted down once.
RemainingIsExact ==
  remaining_transactions = Cardinality(inflight)
                             + (IF announced THEN 1 ELSE 0) + BeingCounted
ExactUntilContinue == BeforeContinue => RemainingIsExact

\* A request that waits for a reply is scheduled to be sent again, and is not
\* marked as completed.
PendingIsScheduled == inflight \subseteq timer_heap \ completed
ScheduledUntilContinue == BeforeContinue => PendingIsScheduled

\* Handling a reply does not end the process: the pointers in inflight_ are
\* valid, also while a set is being abandoned.
ClientSurvives == ~ crashed

\* The cached leader of a cluster is one of its nodes, so that the first send
\* of a request reaches the right cluster, in either set.
CachedLeaderIsInCluster ==
  \A c \in Cluster : leader_per_cluster[c] \in NodesOf(c)

\* The driver goes past a failure row or to the next set only when no request
\* of the rows before is waiting for its reply.
PassesBarrier == AtRow({FailRow, NewSet}) /\ row' # row
BarrierMeansSettled  == [][PassesBarrier => inflight = {}]_vars
BarrierUntilContinue ==
  [][BeforeContinue /\ PassesBarrier => inflight = {}]_vars

\* The driver gets through the test file and the wait after its last row, also
\* when leaders change and replies are repeated.
DriverFinishes         == <>Finished
FinishesUnlessContinue == <>(Finished \/ ~ BeforeContinue)

\* A request that is scheduled when no set is being abandoned is answered, or
\* dropped by a Continue that comes later, whatever the other threads do
\* meanwhile, unless the process dies.
ScheduledIsSettled ==
  \A r \in Request :
    (move_on = "idle" /\ r \in (inflight \cap timer_heap) \ completed)
      ~> (r \notin inflight \/ crashed)
=============================================================================
