------------------------- MODULE PaxosClusterProofs -------------------------
(***************************************************************************)
(* Theorems about PaxosCluster for every cluster size, quorum, set of      *)
(* requests and bound.                                                     *)
(***************************************************************************)
EXTENDS PaxosCluster, WellFoundedInduction, TLAPS

-----------------------------------------------------------------------------
\* Operators of the model.

\* A nonempty set of sequence numbers has a greatest element, so that the
\* reply recorded for a client after SequentiallyExecuteCommittedEntries is
\* the reply to one of the transactions it executed.
LEMMA GreatestSeqnum ==
  ASSUME NEW max \in Nat, NEW S \in SUBSET (0 .. max), S # {}
  PROVE  \E s \in S : \A t \in S : t <= s
<1> DEFINE T == {max - s : s \in S}
<1>1. T \subseteq Nat /\ T # {}
  <2>1. PICK s \in S : TRUE
    OBVIOUS
  <2>2. max - s \in T
    OBVIOUS
  <2>3. \A t \in S : max - t \in Nat
    OBVIOUS
  <2> QED BY <2>2, <2>3
<1> DEFINE Less == OpToRel(<, Nat)
<1>2. IsWellFoundedOn(Less, Nat)
  BY NatLessThanWellFounded
<1>3. \A y, z \in Nat : y < z => <<y, z>> \in Less
  BY DEF OpToRel
<1>4. \E x \in T : \A y \in T : x <= y
  <2> HIDE DEF T, Less
  <2>1. PICK x \in T : \A y \in T : ~ (<<y, x>> \in Less)
    BY <1>1, <1>2, WFMin
  <2>2. ASSUME NEW y \in T PROVE x <= y
    <3>1. x \in Nat /\ y \in Nat
      BY <1>1
    <3>2. ~ (y < x)
      BY <1>3, <2>1, <3>1, Zenon
    <3> QED BY <3>1, <3>2
  <2> QED BY <2>2
<1>5. PICK s \in S : \A y \in T : max - s <= y
  BY <1>4
<1>6. ASSUME NEW t \in S PROVE t <= s
  <2>1. max - t \in T
    OBVIOUS
  <2>2. max - s <= max - t
    BY <1>5, <2>1, Zenon
  <2> QED BY <2>2
<1> QED BY <1>6

\* Merging logs of entries gives logs of entries.
LEMMA MergeType ==
  ASSUME NEW own \in Log, NEW logs \in [Node -> Log],
         NEW log \in MergeAcceptLogsFromPromises(own, logs)
  PROVE  log \in Log
<1>1. \A s \in Seqnum : MergeChoices(own, logs, s) \subseteq Entry
  BY DEF MergeChoices, Log
<1> QED BY <1>1 DEF MergeAcceptLogsFromPromises, Log

\* FillMissingNoOps makes a log of a log.
LEMMA FillType ==
  ASSUME NEW log \in Log, NEW last \in 0 .. MaxSeq, NEW b \in Ballot
  PROVE  FillMissingNoOps(log, last, b) \in Log
BY DEF FillMissingNoOps, Log, Entry, Command

\* A message in flight has the fields of its type.
LEMMA MessageFields ==
  ASSUME NEW m \in Message
  PROVE  /\ m.type = "Prepare" => m \in PrepareMsg
         /\ m.type = "Promise" => m \in PromiseMsg
         /\ m.type = "NewView" => m \in NewViewMsg
         /\ m.type = "Accept" => m \in AcceptMsg
         /\ m.type = "Ack" => m \in AckMsg
         /\ m.type = "Commit" => m \in CommitMsg
BY DEF Message, PrepareMsg, PromiseMsg, NewViewMsg, AcceptMsg, AckMsg,
       CommitMsg

\* Empty tables are tables.
LEMMA EmptyType == /\ NoEntry \in Entry
                   /\ EmptyLog \in Log
                   /\ EmptyCommits \in CommitTable
BY DEF Log, EmptyLog, Entry, EmptyCommits, CommitTable

\* Demotion keeps the types of everything it touches.
LEMMA DropLeadershipType ==
  ASSUME TypeOK, NEW n \in Node, DropLeadership(n)
  PROVE  /\ role' \in [Node -> {"LEADER", "BACKUP"}]
         /\ waiting_for_promises' \in [Node -> BOOLEAN]
         /\ accepted_count' \in [Node -> SUBSET (Seqnum \X Nat \X Node)]
         /\ entries_to_commit' \in [Node -> CommitTable]
         /\ pending_client_calls' \in [Node -> SUBSET Seqnum]
BY EmptyType DEF TypeOK, ElectionTypeOK, ProposalTypeOK, ExecuteTypeOK,
                 DropLeadership

\* A demotion (DemoteToBackup) leaves the variables it sets in their types.
LEMMA DemoteToBackupType ==
  ASSUME TypeOK, NEW n \in Node, DemoteToBackup(n)
  PROVE  /\ DropLeadership(n)
         /\ leader_id' \in [Node -> Nat \cup {-1}]
         /\ pending_entries' \in [Node -> Log]
BY EmptyType DEF TypeOK, ElectionTypeOK, ProposalTypeOK, DemoteToBackup

\* Adopting a leader (SetNewLeader) leaves ballots and leader ids in their types.
LEMMA SetNewLeaderType ==
  ASSUME TypeOK, NEW n \in Node, NEW b \in Ballot, SetNewLeader(n, b)
  PROVE  /\ leader_id' \in [Node -> Nat \cup {-1}]
         /\ current_ballot' \in [Node -> Ballot]
         /\ highest_promised_ballot' \in [Node -> Ballot]
BY DEF TypeOK, ElectionTypeOK, SetNewLeader, Ballot

-----------------------------------------------------------------------------
\* Type correctness, action by action.

\* The state the constructor leaves has the right types.
LEMMA InitType == Init => TypeOK
BY ConstantsAssumption, EmptyType
   DEF Init, TypeOK, ElectionTypeOK, TimerTypeOK, LogTypeOK, ProposalTypeOK,
       ExecuteTypeOK, ClientTypeOK, BoundTypeOK, Ballot, EmptyCommits

\* Starting the first election timer keeps the types.
LEMMA HandleFirstRequestType ==
  ASSUME TypeOK, NEW n \in Node, NEW r \in Request, HandleFirstRequest(n, r)
  PROVE  TypeOK'
BY DEF TypeOK, HandleFirstRequest, ElectionTypeOK, TimerTypeOK, LogTypeOK,
       ProposalTypeOK, ExecuteTypeOK, ClientTypeOK, BoundTypeOK, electionVars,
       logVars, proposalVars, executeVars, clientVars, boundVars

\* The abort of a backup that believes it leads keeps the types.
LEMMA AbortOnOwnForwardType ==
  ASSUME TypeOK, NEW n \in Node, NEW r \in Request, AbortOnOwnForward(n, r)
  PROVE  TypeOK'
BY DEF TypeOK, AbortOnOwnForward, ElectionTypeOK, TimerTypeOK, LogTypeOK,
       ProposalTypeOK, ExecuteTypeOK, ClientTypeOK, BoundTypeOK, electionVars,
       timerVars, logVars, proposalVars, executeVars, clientVars, boundVars

\* Numbering and proposing a request keeps the types: the sequence number
\* is within the bound and the entry and its Accepts are well formed.
LEMMA ProcessClientRequestType ==
  ASSUME TypeOK, NEW n \in Node, NEW r \in Request, ProcessClientRequest(n, r)
  PROVE  TypeOK'
<1> DEFINE seq == last_seqnum[n] + 1
           b   == current_ballot[n]
           e   == [ballot |-> b, req |-> r]
<1>1. seq \in Seqnum /\ b \in Ballot /\ b.counter \in Nat
      /\ e \in Entry
  BY ConstantsAssumption
     DEF TypeOK, LogTypeOK, ElectionTypeOK, Seqnum, Ballot, Entry, Command,
         ProcessClientRequest
<1>2. /\ last_seqnum' = [last_seqnum EXCEPT ![n] = seq]
      /\ accept_log' = [accept_log EXCEPT ![n][seq] = e]
      /\ max_seqnum_in_new_view' = max_seqnum_in_new_view
      /\ pending_entries' = [pending_entries EXCEPT ![n][seq] = e]
      /\ pending_client_calls' =
           [pending_client_calls EXCEPT ![n] = @ \cup {seq}]
      /\ accepted_count' =
           [accepted_count EXCEPT ![n] = @ \cup {<<seq, b.counter, n>>}]
      /\ msgs' = msgs \cup
           {[type |-> "Accept", from |-> n, to |-> q, ballot |-> b,
             seq |-> seq, req |-> r] : q \in Peers(n)}
  BY DEF ProcessClientRequest
<1> HIDE DEF seq, b, e
<1>3. LogTypeOK'
  <2>1. accept_log' \in [Node -> Log]
    BY <1>1, <1>2 DEF TypeOK, LogTypeOK, Log
  <2>2. last_seqnum' \in [Node -> 0 .. MaxSeq]
    BY <1>1, <1>2, ConstantsAssumption DEF TypeOK, LogTypeOK, Seqnum
  <2> QED BY <1>2, <2>1, <2>2 DEF TypeOK, LogTypeOK
<1>4. ProposalTypeOK'
  BY <1>1, <1>2 DEF TypeOK, ProposalTypeOK, Log
<1>5. msgs' \subseteq Message
  BY <1>1, <1>2 DEF TypeOK, Message, AcceptMsg, Peers, Command
<1>6. ClientTypeOK'
  BY ConstantsAssumption
     DEF TypeOK, ClientTypeOK, Accounts, ProcessClientRequest
<1> QED
  BY <1>3, <1>4, <1>5, <1>6
     DEF TypeOK, ElectionTypeOK, TimerTypeOK, ExecuteTypeOK, BoundTypeOK,
         electionVars, timerVars, executeVars, boundVars, ProcessClientRequest

\* An expiry of the election timer keeps the types: the new ballot and the
\* Prepares and the delayed promise it sends are well formed.
LEMMA CampaignType ==
  ASSUME TypeOK, NEW n \in Node, Campaign(n)
  PROVE  TypeOK'
<1> DEFINE b == [counter |-> current_ballot[n].counter + 1, node_id |-> n]
           waiting == pending_promise_call[n]
<1>1. b \in Ballot
  BY ConstantsAssumption DEF TypeOK, ElectionTypeOK, Ballot
<1>2. ElectionTypeOK'
  BY <1>1, EmptyType DEF Campaign, TypeOK, ElectionTypeOK
<1>3. waiting # None => Promise(n, waiting, highest_promised_ballot[n]) \in Message
  BY DEF Promise, TypeOK, ElectionTypeOK, LogTypeOK, Message, PromiseMsg
<1>4. \A q \in Peers(n) : [type |-> "Prepare", from |-> n, to |-> q,
                           ballot |-> b] \in Message
  BY <1>1 DEF Message, PrepareMsg, Peers
<1>5. msgs' \subseteq Message
  BY <1>3, <1>4 DEF Campaign, SendPrepare, TypeOK
<1>6. BoundTypeOK'
  BY ConstantsAssumption DEF Campaign, TypeOK, BoundTypeOK
<1> QED
  BY <1>2, <1>5, <1>6
     DEF Campaign, TypeOK, TimerTypeOK, LogTypeOK, ProposalTypeOK,
         ExecuteTypeOK, ClientTypeOK, timerVars, logVars, proposalVars,
         executeVars, clientVars

\* Sending a delayed promise keeps the types.
LEMMA SkipCampaignType ==
  ASSUME TypeOK, NEW n \in Node, SkipCampaign(n)
  PROVE  TypeOK'
<1>1. Promise(n, pending_promise_call[n], highest_promised_ballot[n])
        \in Message
  BY DEF SkipCampaign, Promise, TypeOK, ElectionTypeOK, LogTypeOK, Message,
         PromiseMsg
<1> QED
  BY <1>1
     DEF SkipCampaign, TypeOK, ElectionTypeOK, TimerTypeOK, LogTypeOK,
         ProposalTypeOK, ExecuteTypeOK, ClientTypeOK, BoundTypeOK, timerVars,
         logVars, proposalVars, executeVars, clientVars, boundVars

\* Promising, at once or later, keeps the types, with or without a demotion.
LEMMA HandlePrepareType ==
  ASSUME TypeOK, NEW n \in Node, NEW m \in msgs, HandlePrepare(n, m)
  PROVE  TypeOK'
<1> USE DEF HandlePrepare
<1>1. m \in PrepareMsg
  BY MessageFields DEF Received, TypeOK
<1>2. Promise(n, m.from, m.ballot) \in Message
  BY <1>1 DEF Promise, TypeOK, LogTypeOK, Message, PrepareMsg, PromiseMsg
<1>3. msgs' \subseteq Message
  BY <1>2 DEF TypeOK
<1>4. /\ highest_promised_ballot' \in [Node -> Ballot]
      /\ pending_promise_call' \in [Node -> Node \cup {None}]
      /\ in_election' \in [Node -> BOOLEAN]
      /\ timer_running' \in [Node -> BOOLEAN]
  BY <1>1 DEF TypeOK, ElectionTypeOK, TimerTypeOK, PrepareMsg
<1>5. /\ role' \in [Node -> {"LEADER", "BACKUP"}]
      /\ waiting_for_promises' \in [Node -> BOOLEAN]
      /\ leader_id' \in [Node -> Nat \cup {-1}]
      /\ ProposalTypeOK'
      /\ entries_to_commit' \in [Node -> CommitTable]
  <2>1. CASE role[n] = "LEADER"
    BY <2>1, DropLeadershipType, DemoteToBackupType
       DEF TypeOK, ElectionTypeOK, ProposalTypeOK
  <2>2. CASE role[n] = "BACKUP"
    BY <2>2 DEF TypeOK, ElectionTypeOK, ProposalTypeOK, ExecuteTypeOK,
                proposalVars
  <2> QED BY <2>1, <2>2
<1> QED
  BY <1>3, <1>4, <1>5
     DEF TypeOK, ElectionTypeOK, TimerTypeOK, LogTypeOK, ExecuteTypeOK,
         ClientTypeOK, BoundTypeOK, logVars, clientVars, boundVars

\* Rejecting a Prepare keeps the types.
LEMMA RejectPrepareType ==
  ASSUME TypeOK, NEW n \in Node, NEW m \in msgs, RejectPrepare(n, m)
  PROVE  TypeOK'
BY DEF RejectPrepare, TypeOK, ElectionTypeOK, TimerTypeOK, LogTypeOK,
       ProposalTypeOK, ExecuteTypeOK, ClientTypeOK, BoundTypeOK, timerVars,
       logVars, proposalVars, executeVars, clientVars, boundVars

\* Recording a promise below the quorum keeps the types.
LEMMA HandlePromiseType ==
  ASSUME TypeOK, NEW n \in Node, NEW m \in msgs, HandlePromise(n, m)
  PROVE  TypeOK'
<1>1. m \in PromiseMsg
  BY MessageFields DEF HandlePromise, Received, TypeOK
<1>2. ElectionTypeOK'
  BY <1>1 DEF HandlePromise, TypeOK, ElectionTypeOK, PromiseMsg
<1> QED
  BY <1>2
     DEF HandlePromise, TypeOK, TimerTypeOK, LogTypeOK,
         ProposalTypeOK, ExecuteTypeOK, ClientTypeOK, BoundTypeOK, timerVars,
         logVars, proposalVars, executeVars, clientVars, boundVars

\* Losing or ignoring a message keeps the types.
LEMMA DropType ==
  ASSUME TypeOK, NEW m \in msgs, Drop(m)
  PROVE  TypeOK'
BY DEF TypeOK, Drop, ElectionTypeOK, TimerTypeOK, LogTypeOK,
       ProposalTypeOK, ExecuteTypeOK, ClientTypeOK, BoundTypeOK, electionVars,
       timerVars, logVars, proposalVars, executeVars, clientVars, boundVars

\* kill() keeps the types, on a leader and on a backup.
LEMMA KillType ==
  ASSUME TypeOK, NEW n \in Node, Kill(n)
  PROVE  TypeOK'
<1> USE DEF Kill, TypeOK, ElectionTypeOK, TimerTypeOK, LogTypeOK,
            ProposalTypeOK, ExecuteTypeOK, ClientTypeOK, BoundTypeOK, logVars,
            proposalVars, clientVars
<1>1. kills' \in 0 .. MaxKills
  BY ConstantsAssumption
<1>2. CASE role[n] = "BACKUP"
  BY <1>1, <1>2
<1>3. CASE role[n] = "LEADER"
  BY <1>1, <1>3, DropLeadershipType, DemoteToBackupType
<1> QED BY <1>2, <1>3

\* revive() keeps the types.
LEMMA ReviveType ==
  ASSUME TypeOK, NEW n \in Node, Revive(n)
  PROVE  TypeOK'
BY DEF Revive, TypeOK, ElectionTypeOK, TimerTypeOK, LogTypeOK,
       ProposalTypeOK, ExecuteTypeOK, ClientTypeOK, BoundTypeOK, electionVars,
       timerVars, logVars, proposalVars, executeVars, clientVars, boundVars

\* HandleSetAlive at the start of a transaction set keeps the types.
LEMMA ReviveForNewSetType ==
  ASSUME TypeOK, NEW n \in Node, ReviveForNewSet(n)
  PROVE  TypeOK'
BY DropLeadershipType, DemoteToBackupType
   DEF ReviveForNewSet, TypeOK, ElectionTypeOK, TimerTypeOK, LogTypeOK,
       ProposalTypeOK, ExecuteTypeOK, ClientTypeOK, BoundTypeOK, timerVars,
       logVars, clientVars, boundVars

\* A heartbeat keeps the types.
LEMMA HandleHeartbeatType ==
  ASSUME TypeOK, NEW n \in Node, HandleHeartbeat(n)
  PROVE  TypeOK'
BY DEF HandleHeartbeat, ResetElectionTimer, TypeOK, ElectionTypeOK,
       TimerTypeOK, LogTypeOK, ProposalTypeOK, ExecuteTypeOK, ClientTypeOK,
       BoundTypeOK, electionVars, logVars, proposalVars, executeVars,
       clientVars, boundVars

\* Winning an election keeps the types: the merged and filled log is a log,
\* and the NEW-VIEWs that carry it are well formed.
LEMMA BecomeLeaderType ==
  ASSUME TypeOK, NEW n \in Node, NEW m \in msgs, BecomeLeader(n, m)
  PROVE  TypeOK'
<1> DEFINE b    == current_ballot[n]
           logs == [received_promise_logs[n] EXCEPT ![m.from] = m.log]
<1>1. m \in PromiseMsg
  BY MessageFields DEF BecomeLeader, Received, TypeOK
<1>2. b \in Ballot /\ b.counter \in Nat /\ logs \in [Node -> Log]
      /\ accept_log[n] \in Log
  BY <1>1 DEF TypeOK, ElectionTypeOK, LogTypeOK, Ballot, PromiseMsg
<1>3. PICK merged \in MergeAcceptLogsFromPromises(accept_log[n], logs),
           last \in 0 .. MaxSeq :
        LET log == FillMissingNoOps(merged, last, b) IN
        /\ accept_log' = [accept_log EXCEPT ![n] = log]
        /\ last_seqnum' = [last_seqnum EXCEPT ![n] = last]
        /\ max_seqnum_in_new_view' =
             [max_seqnum_in_new_view EXCEPT ![n] = last]
        /\ pending_or_completed_ts' =
             [pending_or_completed_ts EXCEPT ![n] =
                @ \cup InheritedClaims(merged)]
        /\ accepted_count' =
             [accepted_count EXCEPT ![n] =
                @ \cup {<<s, b.counter, n>> : s \in 1 .. last}]
        /\ msgs' = (msgs \ {m}) \cup
             {[type |-> "NewView", from |-> n, to |-> q, ballot |-> b,
               log |-> log] : q \in Peers(n)}
  BY DEF BecomeLeader, SendNewView
<1> DEFINE log == FillMissingNoOps(merged, last, b)
<1> HIDE DEF b, logs
<1>4. log \in Log
  BY <1>2, MergeType, FillType
<1> HIDE DEF log
<1>5. LogTypeOK'
  BY <1>3, <1>4 DEF TypeOK, LogTypeOK, log
<1>6. msgs' \subseteq Message
  BY <1>2, <1>3, <1>4 DEF TypeOK, Message, NewViewMsg, Peers, log
<1>7. ClientTypeOK'
  BY <1>3 DEF BecomeLeader, InheritedClaims, TypeOK, ClientTypeOK
<1>8. ProposalTypeOK'
  <2>1. {<<s, b.counter, n>> : s \in 1 .. last} \subseteq Seqnum \X Nat \X Node
    BY <1>2, ConstantsAssumption DEF Seqnum
  <2>2. accepted_count' \in [Node -> SUBSET (Seqnum \X Nat \X Node)]
    BY <1>3, <2>1 DEF TypeOK, ProposalTypeOK
  <2> QED BY <2>2 DEF BecomeLeader, TypeOK, ProposalTypeOK
<1>9. ElectionTypeOK'
  BY <1>1, EmptyType, ConstantsAssumption
     DEF BecomeLeader, OnElectionComplete, TypeOK, ElectionTypeOK, PromiseMsg
<1> QED
  BY <1>5, <1>6, <1>7, <1>8, <1>9
     DEF BecomeLeader, TypeOK, TimerTypeOK, ExecuteTypeOK, BoundTypeOK,
         executeVars, boundVars

\* Adopting a NEW-VIEW keeps the types, acknowledgements included.
LEMMA HandleNewViewType ==
  ASSUME TypeOK, NEW n \in Node, NEW m \in msgs, HandleNewView(n, m)
  PROVE  TypeOK'
<1>1. m \in NewViewMsg
  BY MessageFields DEF HandleNewView, Received, TypeOK
<1>2. m.ballot \in Ballot /\ m.ballot.counter \in Nat
      /\ m.ballot.node_id \in Nat /\ m.log \in Log
  BY <1>1 DEF NewViewMsg, Ballot
<1>3. /\ role' \in [Node -> {"LEADER", "BACKUP"}]
      /\ waiting_for_promises' \in [Node -> BOOLEAN]
      /\ ProposalTypeOK'
      /\ entries_to_commit' \in [Node -> CommitTable]
      /\ timer_running' \in [Node -> BOOLEAN]
      /\ heard_leader' \in [Node -> BOOLEAN]
  <2>1. CASE role[n] = "LEADER"
    <3>1. /\ DropLeadership(n)
          /\ pending_entries' = [pending_entries EXCEPT ![n] = EmptyLog]
          /\ timer_running' = [timer_running EXCEPT ![n] = TRUE]
          /\ UNCHANGED heard_leader
      BY <2>1 DEF HandleNewView
    <3> QED
      BY <3>1, DropLeadershipType, EmptyType
         DEF TypeOK, ProposalTypeOK, TimerTypeOK
  <2>2. CASE role[n] = "BACKUP"
    <3>1. /\ waiting_for_promises' =
               [waiting_for_promises EXCEPT ![n] = FALSE]
          /\ ResetElectionTimer(n)
          /\ UNCHANGED <<role, proposalVars, entries_to_commit>>
      BY <2>2 DEF HandleNewView
    <3> QED
      BY <3>1 DEF ResetElectionTimer, TypeOK, ElectionTypeOK, TimerTypeOK,
                  ProposalTypeOK, ExecuteTypeOK, proposalVars
  <2> QED BY <2>1, <2>2 DEF HandleNewView
<1>4. /\ leader_id' \in [Node -> Nat \cup {-1}]
      /\ current_ballot' \in [Node -> Ballot]
      /\ highest_promised_ballot' \in [Node -> Ballot]
  BY <1>2, SetNewLeaderType DEF HandleNewView
<1>5. LogTypeOK'
  <2>1. accept_log' \in [Node -> Log]
    BY <1>2 DEF HandleNewView, TypeOK, LogTypeOK, Log
  <2>2. max_seqnum_in_new_view' \in [Node -> 0 .. MaxSeq]
    BY DEF HandleNewView, TypeOK, LogTypeOK
  <2> QED BY <2>1, <2>2 DEF HandleNewView, TypeOK, LogTypeOK
<1>6. \A s \in Seqnum : NewViewAck(n, m, s) \in Message
  BY <1>2 DEF NewViewAck, Message, AckMsg
<1>7. msgs' \subseteq Message
  BY <1>6 DEF HandleNewView, TypeOK
<1> QED
  BY <1>3, <1>4, <1>5, <1>7
     DEF HandleNewView, OnElectionComplete, TypeOK, ElectionTypeOK,
         TimerTypeOK, ExecuteTypeOK, ClientTypeOK, BoundTypeOK, clientVars, boundVars

\* Accepting an entry keeps the types.
LEMMA HandleProposeType ==
  ASSUME TypeOK, NEW n \in Node, NEW m \in msgs, HandlePropose(n, m)
  PROVE  TypeOK'
<1> DEFINE e == [ballot |-> m.ballot, req |-> m.req]
<1>1. m \in AcceptMsg
  BY MessageFields DEF HandlePropose, Received, TypeOK
<1>2. m.ballot \in Ballot /\ m.seq \in Seqnum /\ e \in Entry
      /\ AcceptAck(n, m) \in Message
  BY <1>1, ConstantsAssumption
     DEF AcceptMsg, Entry, AcceptAck, Message, AckMsg, Ballot
<1>3. /\ leader_id' \in [Node -> Nat \cup {-1}]
      /\ current_ballot' \in [Node -> Ballot]
      /\ highest_promised_ballot' \in [Node -> Ballot]
  BY <1>2, SetNewLeaderType DEF HandlePropose, TypeOK, ElectionTypeOK
<1>4. accept_log' \in [Node -> Log] /\ pending_entries' \in [Node -> Log]
  BY <1>2 DEF HandlePropose, TypeOK, LogTypeOK, ProposalTypeOK, Log
<1>5. TimerTypeOK'
  BY DEF HandlePropose, ResetElectionTimer, TypeOK, TimerTypeOK
<1>6. msgs' \subseteq Message
  BY <1>2 DEF HandlePropose, TypeOK
<1> QED
  BY <1>3, <1>4, <1>5, <1>6
     DEF HandlePropose, TypeOK, ElectionTypeOK, LogTypeOK, ProposalTypeOK,
         ExecuteTypeOK, ClientTypeOK, BoundTypeOK, executeVars, clientVars,
         boundVars

\* A leader that steps down on an Accept keeps the types.
LEMMA StepDownOnProposeType ==
  ASSUME TypeOK, NEW n \in Node, NEW m \in msgs, StepDownOnPropose(n, m)
  PROVE  TypeOK'
<1> DEFINE e == [ballot |-> m.ballot, req |-> m.req]
<1>1. m \in AcceptMsg
  BY MessageFields DEF StepDownOnPropose, Received, TypeOK
<1>2. m.ballot \in Ballot /\ m.seq \in Seqnum /\ e \in Entry
      /\ AcceptAck(n, m) \in Message
  BY <1>1, ConstantsAssumption
     DEF AcceptMsg, Entry, AcceptAck, Message, AckMsg, Ballot
<1>3. /\ leader_id' \in [Node -> Nat \cup {-1}]
      /\ current_ballot' \in [Node -> Ballot]
      /\ highest_promised_ballot' \in [Node -> Ballot]
  BY <1>2, SetNewLeaderType DEF StepDownOnPropose
<1>4. accept_log' \in [Node -> Log] /\ pending_entries' \in [Node -> Log]
  BY <1>2, EmptyType
     DEF StepDownOnPropose, TypeOK, LogTypeOK, ProposalTypeOK, Log
<1>5. TimerTypeOK'
  BY DEF StepDownOnPropose, ResetElectionTimer, TypeOK, TimerTypeOK
<1>6. msgs' \subseteq Message
  BY <1>2 DEF StepDownOnPropose, TypeOK
<1> QED
  BY <1>3, <1>4, <1>5, <1>6, DropLeadershipType
     DEF StepDownOnPropose, TypeOK, ElectionTypeOK, LogTypeOK, ProposalTypeOK,
         ExecuteTypeOK, ClientTypeOK, BoundTypeOK, clientVars, boundVars

\* Counting an acknowledgement keeps the types.
LEMMA HandleAcceptType ==
  ASSUME TypeOK, NEW n \in Node, NEW m \in msgs, HandleAccept(n, m)
  PROVE  TypeOK'
<1>1. m \in AckMsg
  BY MessageFields DEF HandleAccept, Received, TypeOK
<1>2. ProposalTypeOK'
  BY <1>1 DEF HandleAccept, TypeOK, ProposalTypeOK, AckMsg
<1> QED
  BY <1>2
     DEF HandleAccept, TypeOK, ElectionTypeOK, TimerTypeOK, LogTypeOK,
         ExecuteTypeOK, ClientTypeOK, BoundTypeOK, electionVars, timerVars,
         logVars, executeVars, clientVars, boundVars

\* The loop over committed entries executes requests only, at sequence
\* numbers of the log.
LEMMA ExecutableEntries ==
  ASSUME TypeOK, NEW n \in Node, NEW commits \in CommitTable,
         NEW last \in last_executed_seq[n] .. MaxSeq,
         LastExecutable(n, commits, last)
  PROVE  /\ last \in 0 .. MaxSeq
         /\ (last_executed_seq[n] + 1) .. last \subseteq Seqnum
         /\ \A s \in (last_executed_seq[n] + 1) .. last : commits[s] \in Request
BY ConstantsAssumption DEF TypeOK, ExecuteTypeOK, LastExecutable, Seqnum

\* The execution loop keeps the types of all it writes: it runs over committed
\* requests only, so what is applied and replied to is a request.
LEMMA SequentiallyExecuteType ==
  ASSUME TypeOK, NEW n \in Node, NEW commits \in CommitTable,
         SequentiallyExecuteCommittedEntries(n, commits)
  PROVE  /\ process' \in [Node -> {"up", "down", "exited"}]
         /\ last_executed_seq' \in [Node -> 0 .. MaxSeq]
         /\ applied' \in [Node -> [Seqnum -> Request \cup {None}]]
         /\ balance_locks' \in [Node -> SUBSET Account]
         /\ pending_entries' \in [Node -> Log]
         /\ pending_client_calls' \in [Node -> SUBSET Seqnum]
         /\ replies' \in SUBSET Request
         /\ last_reply_per_client' \in
              [Node -> [Account -> Request \cup {None}]]
<1>1. PICK last \in last_executed_seq[n] .. MaxSeq :
        SequentiallyExecuteCommittedEntries(n, commits)!(last)
  BY DEF SequentiallyExecuteCommittedEntries
<1> DEFINE next == Executable(n, last)
           own  == {s \in next : /\ s > max_seqnum_in_new_view[n]
                                 /\ s \in pending_client_calls[n]}
           done == IF role[n] = "LEADER" THEN own ELSE next
           For(a) == {s \in next : From[commits[s]] = a}
           LastFor(a) == CHOOSE s \in For(a) : \A t \in For(a) : t <= s
<1>2. /\ last \in 0 .. MaxSeq
      /\ next \subseteq Seqnum
      /\ \A s \in next : commits[s] \in Request
  BY <1>1, ExecutableEntries DEF Executable
<1>3. \A a : For(a) # {} => LastFor(a) \in For(a)
  <2> SUFFICES ASSUME NEW a, For(a) # {}
               PROVE  \E s \in For(a) : \A t \in For(a) : t <= s
    OBVIOUS
  <2>1. For(a) \in SUBSET (0 .. MaxSeq)
    <3> HIDE DEF next
    <3>1. Seqnum \subseteq 0 .. MaxSeq
      BY ConstantsAssumption DEF Seqnum
    <3> QED BY <1>2, <3>1
  <2> HIDE DEF For
  <2> QED BY <2>1, GreatestSeqnum, ConstantsAssumption
<1>4. \A a \in Account : For(a) # {} => commits[LastFor(a)] \in Request
  BY <1>2, <1>3
<1>5. process' \in [Node -> {"up", "down", "exited"}]
  BY <1>1 DEF TypeOK
<1>6. last_executed_seq' \in [Node -> 0 .. MaxSeq]
  BY <1>1, <1>2 DEF TypeOK, ExecuteTypeOK
<1>7. applied' \in [Node -> [Seqnum -> Request \cup {None}]]
  BY <1>1, <1>2 DEF TypeOK, ExecuteTypeOK
<1>8. balance_locks' \in [Node -> SUBSET Account]
  BY <1>1 DEF TypeOK, ClientTypeOK, ReleaseLocks
<1>9. pending_entries' \in [Node -> Log]
  BY <1>1, EmptyType DEF TypeOK, ProposalTypeOK, Log
<1>10. pending_client_calls' \in [Node -> SUBSET Seqnum]
  BY <1>1 DEF TypeOK, ProposalTypeOK
<1>11. replies' \in SUBSET Request
  BY <1>1, <1>2 DEF SendClientReply, TypeOK, ClientTypeOK
<1>12. last_reply_per_client' \in [Node -> [Account -> Request \cup {None}]]
  <2>1. CASE role[n] = "LEADER"
    <3>1. last_reply_per_client' =
            [last_reply_per_client EXCEPT ![n] =
               [a \in Account |->
                  IF For(a) = {} THEN last_reply_per_client[n][a]
                                 ELSE commits[LastFor(a)]]]
      BY <1>1, <2>1 DEF SendClientReply
    <3> HIDE DEF LastFor, For
    <3> QED BY <1>4, <3>1 DEF TypeOK, ClientTypeOK
  <2>2. CASE role[n] # "LEADER"
    BY <1>1, <2>2 DEF TypeOK, ClientTypeOK
  <2> QED BY <2>1, <2>2
<1> QED BY <1>5, <1>6, <1>7, <1>8, <1>9, <1>10, <1>11, <1>12

\* CommitEntry and HandleCommit execute, or leave what execution touches.
LEMMA ExecuteOrNotType ==
  ASSUME TypeOK, NEW n \in Node, NEW commits \in CommitTable,
         entries_to_commit' = [entries_to_commit EXCEPT ![n] = commits],
         \/ SequentiallyExecuteCommittedEntries(n, commits)
         \/ UNCHANGED <<process, last_executed_seq, applied, balance_locks,
                        pending_entries, pending_client_calls, replies,
                        last_reply_per_client>>,
         UNCHANGED pending_or_completed_ts
  PROVE  /\ process' \in [Node -> {"up", "down", "exited"}]
         /\ pending_entries' \in [Node -> Log]
         /\ pending_client_calls' \in [Node -> SUBSET Seqnum]
         /\ ExecuteTypeOK'
         /\ ClientTypeOK'
<1> USE DEF TypeOK, ProposalTypeOK, ExecuteTypeOK, ClientTypeOK
<1>1. entries_to_commit' \in [Node -> CommitTable]
  OBVIOUS
<1>2. CASE SequentiallyExecuteCommittedEntries(n, commits)
  BY <1>1, <1>2, SequentiallyExecuteType
<1>3. CASE UNCHANGED <<process, last_executed_seq, applied, balance_locks,
                       pending_entries, pending_client_calls, replies,
                       last_reply_per_client>>
  BY <1>1, <1>3
<1> QED BY <1>2, <1>3

\* Committing an entry and executing what follows keeps the types.
LEMMA CommitEntryType ==
  ASSUME TypeOK, NEW n \in Node, NEW m \in msgs, CommitEntry(n, m)
  PROVE  TypeOK'
<1> DEFINE count == accepted_count[n] \cup {<<m.seq, m.counter, m.from>>}
           r == RequestToCommit(n, m.seq)
           commits == [entries_to_commit[n] EXCEPT ![m.seq] =
                         IF @ = None THEN r ELSE @]
<1>1. m \in AckMsg
  BY MessageFields DEF CommitEntry, Received, TypeOK
<1>2. m.seq \in Seqnum /\ m.counter \in Nat /\ m.from \in Node
  BY <1>1 DEF AckMsg
<1>3. r \in Command
  BY <1>2 DEF RequestToCommit, EntryToCommit, TypeOK, LogTypeOK,
              ProposalTypeOK, Log, Entry, Command
<1>4. commits \in CommitTable
  BY <1>2, <1>3 DEF TypeOK, ExecuteTypeOK, CommitTable
<1>5. accepted_count' \in [Node -> SUBSET (Seqnum \X Nat \X Node)]
  BY <1>2 DEF CommitEntry, TypeOK, ProposalTypeOK
<1>6. \A q \in Peers(n) : [type |-> "Commit", from |-> n, to |-> q,
                           seq |-> m.seq, req |-> r] \in Message
  BY <1>2, <1>3 DEF Message, CommitMsg, Peers
<1>7. msgs' \subseteq Message
  BY <1>6 DEF CommitEntry, BroadcastCommit, TypeOK
<1>8. /\ process' \in [Node -> {"up", "down", "exited"}]
      /\ pending_entries' \in [Node -> Log]
      /\ pending_client_calls' \in [Node -> SUBSET Seqnum]
      /\ ExecuteTypeOK'
      /\ ClientTypeOK'
  <2>1. /\ entries_to_commit' = [entries_to_commit EXCEPT ![n] = commits]
        /\ \/ SequentiallyExecuteCommittedEntries(n, commits)
           \/ UNCHANGED <<process, last_executed_seq, applied, balance_locks,
                          pending_entries, pending_client_calls, replies,
                          last_reply_per_client>>
        /\ UNCHANGED pending_or_completed_ts
    BY DEF CommitEntry
  <2> HIDE DEF commits
  <2> QED BY <1>4, <2>1, ExecuteOrNotType
<1> QED
  BY <1>5, <1>7, <1>8
     DEF CommitEntry, TypeOK, ElectionTypeOK, TimerTypeOK, LogTypeOK,
         ProposalTypeOK, BoundTypeOK, electionVars, timerVars, logVars,
         boundVars

\* Handling a Commit and executing what follows keeps the types.
LEMMA HandleCommitType ==
  ASSUME TypeOK, NEW n \in Node, NEW m \in msgs, HandleCommit(n, m)
  PROVE  TypeOK'
<1> DEFINE commits == [entries_to_commit[n] EXCEPT ![m.seq] =
                         IF @ = None THEN m.req ELSE @]
<1>1. m \in CommitMsg
  BY MessageFields DEF HandleCommit, Received, TypeOK
<1>2. commits \in CommitTable
  BY <1>1 DEF CommitMsg, TypeOK, ExecuteTypeOK, CommitTable
<1>3. /\ process' \in [Node -> {"up", "down", "exited"}]
      /\ pending_entries' \in [Node -> Log]
      /\ pending_client_calls' \in [Node -> SUBSET Seqnum]
      /\ ExecuteTypeOK'
      /\ ClientTypeOK'
  <2>1. /\ entries_to_commit' = [entries_to_commit EXCEPT ![n] = commits]
        /\ \/ SequentiallyExecuteCommittedEntries(n, commits)
           \/ UNCHANGED <<process, last_executed_seq, applied, balance_locks,
                          pending_entries, pending_client_calls, replies,
                          last_reply_per_client>>
        /\ UNCHANGED pending_or_completed_ts
    BY DEF HandleCommit
  <2> HIDE DEF commits
  <2> QED BY <1>2, <2>1, ExecuteOrNotType
<1>4. TimerTypeOK'
  BY DEF HandleCommit, ResetElectionTimer, TypeOK, TimerTypeOK
<1> QED
  BY <1>3, <1>4
     DEF HandleCommit, TypeOK, ElectionTypeOK, LogTypeOK, ProposalTypeOK,
         BoundTypeOK, electionVars, logVars, boundVars

\* A step that changes nothing keeps the types.
LEMMA StutterType == TypeOK /\ UNCHANGED vars => TypeOK'
BY DEF TypeOK, ElectionTypeOK, TimerTypeOK, LogTypeOK, ProposalTypeOK,
       ExecuteTypeOK, ClientTypeOK, BoundTypeOK, vars, electionVars, timerVars,
       logVars, proposalVars, executeVars, clientVars, boundVars

\* Every step of the system keeps the types.
LEMMA StepType == TypeOK /\ [Next]_vars => TypeOK'
<1> SUFFICES ASSUME TypeOK, [Next]_vars PROVE TypeOK'
  OBVIOUS
<1>1. CASE UNCHANGED vars
  BY <1>1, StutterType
<1>2. ASSUME NEW n \in Node, Client(n) PROVE TypeOK'
  BY <1>2, HandleFirstRequestType, AbortOnOwnForwardType,
     ProcessClientRequestType DEF Client
<1>3. ASSUME NEW n \in Node, Timer(n) PROVE TypeOK'
  BY <1>3, CampaignType, SkipCampaignType DEF Timer
<1>4. ASSUME NEW n \in Node, Election(n) PROVE TypeOK'
  BY <1>4, HandlePrepareType, RejectPrepareType, HandlePromiseType,
     BecomeLeaderType, HandleNewViewType DEF Election
<1>5. ASSUME NEW n \in Node, HandleHeartbeat(n) PROVE TypeOK'
  BY <1>5, HandleHeartbeatType
<1>6. ASSUME NEW n \in Node, Replication(n) PROVE TypeOK'
  BY <1>6, HandleProposeType, StepDownOnProposeType, HandleAcceptType,
     CommitEntryType, HandleCommitType DEF Replication
<1>7. ASSUME NEW n \in Node, Driver(n) PROVE TypeOK'
  BY <1>7, KillType, ReviveType, ReviveForNewSetType DEF Driver
<1>8. ASSUME NEW m \in msgs, Drop(m) PROVE TypeOK'
  BY <1>8, DropType
<1> QED BY <1>1, <1>2, <1>3, <1>4, <1>5, <1>6, <1>7, <1>8 DEF Next

\* Whatever the cluster does, every member of PaxosNode and every message in
\* flight has its type: in particular only requests are ever applied, and an
\* acknowledgement always names a sequence number of the log.
THEOREM TypeCorrect == Spec => []TypeOK
<1>1. Init => TypeOK
  BY InitType
<1>2. TypeOK /\ [Next]_vars => TypeOK'
  BY StepType
<1> QED BY <1>1, <1>2, PTL DEF Spec

-----------------------------------------------------------------------------
\* Execution.  Who leads, and with which ballot, has no part in this argument:
\* only SequentiallyExecuteCommittedEntries applies anything.

\* Every step either leaves what is applied and answered as it is or is one
\* run of the execution loop on one node.
LEMMA OnlyExecutionApplies ==
  ASSUME TypeOK, [Next]_vars
  PROVE  \/ UNCHANGED <<applied, last_executed_seq, replies>>
         \/ \E n \in Node, commits \in CommitTable :
              SequentiallyExecuteCommittedEntries(n, commits)
<1> DEFINE Executes == \E n \in Node, commits \in CommitTable :
                         SequentiallyExecuteCommittedEntries(n, commits)
           Goal == \/ UNCHANGED <<applied, last_executed_seq, replies>>
                   \/ Executes
<1> SUFFICES Goal
  OBVIOUS
<1>1. CASE UNCHANGED vars
  BY <1>1 DEF vars, executeVars, clientVars
<1>2. ASSUME NEW n \in Node, Client(n) PROVE Goal
  BY <1>2 DEF Client, HandleFirstRequest, AbortOnOwnForward,
              ProcessClientRequest, executeVars, clientVars
<1>3. ASSUME NEW n \in Node, Timer(n) PROVE Goal
  BY <1>3 DEF Timer, Campaign, SkipCampaign, executeVars, clientVars
<1>4. ASSUME NEW n \in Node, Election(n) PROVE Goal
  BY <1>4 DEF Election, HandlePrepare, RejectPrepare, HandlePromise,
              BecomeLeader, HandleNewView, executeVars, clientVars
<1>5. ASSUME NEW n \in Node, HandleHeartbeat(n) PROVE Goal
  BY <1>5 DEF HandleHeartbeat, executeVars, clientVars
<1>6. ASSUME NEW n \in Node, NEW m \in msgs,
             \/ HandlePropose(n, m)
             \/ StepDownOnPropose(n, m)
             \/ HandleAccept(n, m)
      PROVE  Goal
  BY <1>6 DEF HandlePropose, StepDownOnPropose, HandleAccept, executeVars,
              clientVars
<1>7. ASSUME NEW n \in Node, NEW m \in msgs, CommitEntry(n, m) PROVE Goal
  <2> DEFINE r == RequestToCommit(n, m.seq)
             commits == [entries_to_commit[n] EXCEPT ![m.seq] =
                           IF @ = None THEN r ELSE @]
  <2>1. m \in AckMsg /\ m.seq \in Seqnum
    BY <1>7, MessageFields DEF CommitEntry, Received, TypeOK, AckMsg
  <2>2. r \in Command
    BY <2>1 DEF RequestToCommit, EntryToCommit, TypeOK, LogTypeOK,
                ProposalTypeOK, Log, Entry, Command
  <2>3. commits \in CommitTable
    BY <2>1, <2>2 DEF TypeOK, ExecuteTypeOK, CommitTable
  <2>4. \/ SequentiallyExecuteCommittedEntries(n, commits)
        \/ UNCHANGED <<applied, last_executed_seq, replies>>
    BY <1>7 DEF CommitEntry
  <2> HIDE DEF commits
  <2> QED BY <2>3, <2>4
<1>8. ASSUME NEW n \in Node, NEW m \in msgs, HandleCommit(n, m) PROVE Goal
  <2> DEFINE commits == [entries_to_commit[n] EXCEPT ![m.seq] =
                           IF @ = None THEN m.req ELSE @]
  <2>1. m \in CommitMsg
    BY <1>8, MessageFields DEF HandleCommit, Received, TypeOK
  <2>2. commits \in CommitTable
    BY <2>1 DEF CommitMsg, TypeOK, ExecuteTypeOK, CommitTable
  <2>3. \/ SequentiallyExecuteCommittedEntries(n, commits)
        \/ UNCHANGED <<applied, last_executed_seq, replies>>
    BY <1>8 DEF HandleCommit
  <2> HIDE DEF commits
  <2> QED BY <2>2, <2>3
<1>9. ASSUME NEW n \in Node, Driver(n) PROVE Goal
  BY <1>9 DEF Driver, Kill, Revive, ReviveForNewSet, executeVars, clientVars
<1>10. ASSUME NEW m \in msgs, Drop(m) PROVE Goal
  BY <1>10 DEF Drop, executeVars, clientVars
<1> HIDE DEF Goal
<1> QED
  BY <1>1, <1>2, <1>3, <1>4, <1>5, <1>6, <1>7, <1>8, <1>9, <1>10
     DEF Next, Replication

\* One execution extends a prefix to a longer one and keeps what it holds.
LEMMA ExecutionExtendsPrefix ==
  ASSUME TypeOK, AppliedIsPrefix, NEW n \in Node, NEW commits \in CommitTable,
         SequentiallyExecuteCommittedEntries(n, commits)
  PROVE  /\ AppliedIsPrefix'
         /\ KeepsApplied
<1>1. PICK last \in last_executed_seq[n] .. MaxSeq :
        /\ LastExecutable(n, commits, last)
        /\ last_executed_seq' = [last_executed_seq EXCEPT ![n] = last]
        /\ applied' = [applied EXCEPT ![n] =
                         [s \in Seqnum |-> IF s \in Executable(n, last)
                                           THEN commits[s]
                                           ELSE applied[n][s]]]
  BY DEF SequentiallyExecuteCommittedEntries
<1>2. /\ last \in 0 .. MaxSeq
      /\ \A s \in Executable(n, last) : commits[s] \in Request
  BY <1>1, ExecutableEntries DEF Executable
<1>3. \A s \in Seqnum : s \in Executable(n, last)
                          <=> last_executed_seq[n] < s /\ s <= last
  BY <1>1 DEF Executable, TypeOK, ExecuteTypeOK, Seqnum
<1>4. AppliedIsPrefix'
  <2> SUFFICES ASSUME NEW q \in Node, NEW s \in Seqnum
               PROVE  applied'[q][s] # None <=> s <= last_executed_seq'[q]
    BY DEF AppliedIsPrefix
  <2>1. CASE q # n
    BY <1>1, <2>1 DEF AppliedIsPrefix, TypeOK, ExecuteTypeOK
  <2>2. CASE q = n
    <3>1. applied'[n][s] = (IF s \in Executable(n, last) THEN commits[s]
                                                         ELSE applied[n][s])
      BY <1>1 DEF TypeOK, ExecuteTypeOK
    <3>2. last_executed_seq'[n] = last
      BY <1>1 DEF TypeOK, ExecuteTypeOK
    <3>3. applied[n][s] # None <=> s <= last_executed_seq[n]
      BY DEF AppliedIsPrefix
    <3>4. s \in Int /\ last \in Int /\ last_executed_seq[n] \in Int
          /\ last_executed_seq[n] <= last
      BY <1>1, <1>2, ConstantsAssumption DEF TypeOK, ExecuteTypeOK, Seqnum
    <3>5. CASE s \in Executable(n, last)
      BY <1>2, <1>3, <2>2, <3>1, <3>2, <3>5, ConstantsAssumption
    <3>6. CASE s \notin Executable(n, last)
      BY <1>3, <2>2, <3>1, <3>2, <3>3, <3>4, <3>6
    <3> QED BY <3>5, <3>6
  <2> QED BY <2>1, <2>2
<1>5. ASSUME NEW q \in Node, NEW s \in Seqnum, applied[q][s] # None
      PROVE  applied'[q][s] = applied[q][s]
  <2>1. s <= last_executed_seq[q]
    BY <1>5 DEF AppliedIsPrefix
  <2>2. q = n => s \notin Executable(n, last)
    BY <1>3, <2>1 DEF TypeOK, ExecuteTypeOK, Seqnum
  <2> QED BY <1>1, <2>2 DEF TypeOK, ExecuteTypeOK
<1> QED BY <1>4, <1>5 DEF KeepsApplied

\* No step leaves a gap in an applied history or applies ahead of it.
LEMMA StepApplied ==
  ASSUME TypeOK, AppliedIsPrefix, [Next]_vars
  PROVE  /\ AppliedIsPrefix'
         /\ KeepsApplied
<1>1. CASE UNCHANGED <<applied, last_executed_seq>>
  BY <1>1 DEF AppliedIsPrefix, KeepsApplied
<1>2. ASSUME NEW n \in Node, NEW commits \in CommitTable,
             SequentiallyExecuteCommittedEntries(n, commits)
      PROVE  /\ AppliedIsPrefix'
             /\ KeepsApplied
  BY <1>2, ExecutionExtendsPrefix
<1> QED BY <1>1, <1>2, OnlyExecutionApplies

\* Nothing is applied at the start.
LEMMA InitApplied == Init => AppliedIsPrefix
BY ConstantsAssumption DEF Init, AppliedIsPrefix, EmptyCommits, Seqnum

\* For every number of elections and failures, and although rival leaders may
\* make two replicas differ, each replica's history has no holes: it has
\* applied exactly the sequence numbers up to last_executed_seq_.
THEOREM HistoriesHaveNoGaps == Spec => []AppliedIsPrefix
<1>1. Init => TypeOK /\ AppliedIsPrefix
  BY InitType, InitApplied
<1>2. TypeOK /\ AppliedIsPrefix /\ [Next]_vars => (TypeOK /\ AppliedIsPrefix)'
  BY StepType, StepApplied
<1> QED BY <1>1, <1>2, PTL DEF Spec

\* Under the same circumstances no replica ever changes its mind about a
\* transaction it has applied.
THEOREM HistoriesAreFinal == Spec => ExecutionIsFinal
<1>1. TypeOK /\ AppliedIsPrefix /\ [Next]_vars =>
        [KeepsApplied]_vars
  BY StepApplied
<1> QED
  BY <1>1, TypeCorrect, HistoriesHaveNoGaps, PTL DEF Spec, ExecutionIsFinal

\* A client is answered for what some replica has applied.
RepliesAreApplied ==
  \A r \in replies : \E n \in Node, s \in Seqnum : applied[n][s] = r

\* A step answers for what it applies, and what was applied stays applied.
LEMMA StepReplies ==
  ASSUME TypeOK, AppliedIsPrefix, RepliesAreApplied, [Next]_vars
  PROVE  RepliesAreApplied'
<1>1. CASE UNCHANGED <<applied, replies>>
  BY <1>1 DEF RepliesAreApplied
<1>2. ASSUME NEW n \in Node, NEW commits \in CommitTable,
             SequentiallyExecuteCommittedEntries(n, commits)
      PROVE  RepliesAreApplied'
  <2>1. PICK last \in last_executed_seq[n] .. MaxSeq :
          SequentiallyExecuteCommittedEntries(n, commits)!(last)
    BY <1>2 DEF SequentiallyExecuteCommittedEntries
  <2> DEFINE next == Executable(n, last)
  <2>2. next \subseteq Seqnum
    BY <2>1, ExecutableEntries DEF Executable
  <2>3. applied' = [applied EXCEPT ![n] =
                      [s \in Seqnum |-> IF s \in next THEN commits[s]
                                        ELSE applied[n][s]]]
    BY <2>1
  <2>4. replies' = replies \/ replies' = replies \cup {commits[s] : s \in next}
    BY <2>1 DEF SendClientReply
  <2> HIDE DEF next
  <2> SUFFICES ASSUME NEW r \in replies'
               PROVE  \E q \in Node, s \in Seqnum : applied'[q][s] = r
    BY DEF RepliesAreApplied
  <2>5. CASE r \in replies
    <3>1. PICK q \in Node, s \in Seqnum : applied[q][s] = r
      BY <2>5 DEF RepliesAreApplied
    <3>2. r # None
      BY <2>5, ConstantsAssumption DEF TypeOK, ClientTypeOK
    <3> QED BY <1>2, <3>1, <3>2, ExecutionExtendsPrefix DEF KeepsApplied
  <2>6. CASE r \notin replies
    <3>1. PICK s \in next : r = commits[s]
      BY <2>4, <2>6
    <3>2. applied'[n][s] = r
      BY <2>2, <2>3, <3>1 DEF TypeOK, ExecuteTypeOK
    <3> QED BY <2>2, <3>1, <3>2
  <2> QED BY <2>5, <2>6
<1> QED BY <1>1, <1>2, OnlyExecutionApplies

\* Whoever leads, a client is never told that a transaction ran which no
\* replica has applied, not even after the replica that answered is killed.
THEOREM AnswersAreApplied == Spec => []RepliesAreApplied
<1>1. Init => RepliesAreApplied
  BY DEF Init, RepliesAreApplied
<1>2. TypeOK /\ AppliedIsPrefix /\ RepliesAreApplied /\ [Next]_vars
        => RepliesAreApplied'
  BY StepReplies
<1> QED BY <1>1, <1>2, TypeCorrect, HistoriesHaveNoGaps, PTL DEF Spec

-----------------------------------------------------------------------------
\* Ballots and client calls, one step per action that touches them.

\* Every step keeps a ballot in use within the promise of its node.
LEMMA StepBallot ==
  ASSUME TypeOK, BallotWithinPromise, [Next]_vars
  PROVE  BallotWithinPromise'
<1> USE DEF TypeOK, ElectionTypeOK, BallotWithinPromise
<1>1. ASSUME NEW n \in Node, NEW b \in Ballot, SetNewLeader(n, b)
      PROVE  BallotWithinPromise'
  BY <1>1 DEF SetNewLeader, Higher, Ballot
<1>2. ASSUME UNCHANGED <<current_ballot, highest_promised_ballot>>
      PROVE  BallotWithinPromise'
  BY <1>2
<1>3. ASSUME NEW n \in Node, Campaign(n) PROVE BallotWithinPromise'
  <2> DEFINE b == [counter |-> current_ballot[n].counter + 1, node_id |-> n]
  <2>1. b \in Ballot
    BY ConstantsAssumption DEF Ballot
  <2>2. /\ current_ballot' = [current_ballot EXCEPT ![n] = b]
        /\ highest_promised_ballot' = [highest_promised_ballot EXCEPT ![n] =
             IF Higher(b, highest_promised_ballot[n])
             THEN b ELSE highest_promised_ballot[n]]
    BY <1>3 DEF Campaign
  <2> HIDE DEF b
  <2> QED BY <2>1, <2>2 DEF Higher, Ballot
<1>4. ASSUME NEW n \in Node, NEW m \in msgs, HandlePrepare(n, m)
      PROVE  BallotWithinPromise'
  <2>1. m.ballot \in Ballot
    BY <1>4, MessageFields DEF HandlePrepare, Received, PrepareMsg
  <2>2. /\ Higher(m.ballot, highest_promised_ballot[n])
        /\ highest_promised_ballot' =
             [highest_promised_ballot EXCEPT ![n] = m.ballot]
        /\ UNCHANGED current_ballot
    BY <1>4 DEF HandlePrepare
  <2> QED BY <2>1, <2>2 DEF Higher, Ballot
<1>5. ASSUME NEW n \in Node, NEW m \in msgs, HandleNewView(n, m)
      PROVE  BallotWithinPromise'
  BY <1>1, <1>5, MessageFields DEF HandleNewView, Received, NewViewMsg
<1>6. ASSUME NEW n \in Node, NEW m \in msgs,
             HandlePropose(n, m) \/ StepDownOnPropose(n, m)
      PROVE  BallotWithinPromise'
  BY <1>1, <1>2, <1>6, MessageFields
     DEF HandlePropose, StepDownOnPropose, Received, AcceptMsg
<1>7. CASE UNCHANGED vars
  BY <1>2, <1>7 DEF vars, electionVars
<1>8. ASSUME NEW n \in Node,
             \/ Client(n) \/ SkipCampaign(n) \/ HandleHeartbeat(n) \/ Driver(n)
      PROVE  BallotWithinPromise'
  BY <1>2, <1>8 DEF Client, HandleFirstRequest, AbortOnOwnForward,
                    ProcessClientRequest, SkipCampaign, HandleHeartbeat,
                    Driver, Kill, Revive, ReviveForNewSet, electionVars
<1>9. ASSUME NEW n \in Node, NEW m \in msgs,
             \/ RejectPrepare(n, m) \/ HandlePromise(n, m)
             \/ BecomeLeader(n, m) \/ HandleAccept(n, m)
             \/ CommitEntry(n, m) \/ HandleCommit(n, m)
      PROVE  BallotWithinPromise'
  BY <1>2, <1>9 DEF RejectPrepare, HandlePromise, BecomeLeader, HandleAccept,
                    CommitEntry, HandleCommit, electionVars
<1>10. ASSUME NEW m \in msgs, Drop(m) PROVE BallotWithinPromise'
  BY <1>2, <1>10 DEF Drop, electionVars
<1> QED
  BY <1>3, <1>4, <1>5, <1>6, <1>7, <1>8, <1>9, <1>10
     DEF Next, Timer, Election, Replication

\* However many campaigns, stale NEW-VIEWs and stale Accepts cross each other,
\* no node takes part in a ballot above the one it has promised.
THEOREM BallotsStayWithinPromises == Spec => []BallotWithinPromise
<1>1. Init => TypeOK /\ BallotWithinPromise
  <2>1. Init => BallotWithinPromise
    BY DEF Init, BallotWithinPromise
  <2> QED BY <2>1, InitType
<1>2. TypeOK /\ BallotWithinPromise /\ [Next]_vars
        => (TypeOK /\ BallotWithinPromise)'
  BY StepType, StepBallot
<1> QED BY <1>1, <1>2, PTL DEF Spec

\* Every path out of leadership releases the client calls.
LEMMA StepCalls ==
  ASSUME TypeOK, NoOrphanedCalls, [Next]_vars
  PROVE  NoOrphanedCalls'
<1> USE DEF TypeOK, ElectionTypeOK, ProposalTypeOK, NoOrphanedCalls
<1>1. ASSUME NEW n \in Node, DropLeadership(n) PROVE NoOrphanedCalls'
  BY <1>1 DEF DropLeadership
<1>2. ASSUME UNCHANGED <<role, pending_client_calls>> PROVE NoOrphanedCalls'
  BY <1>2
<1>3. ASSUME NEW n \in Node, NEW r \in Request, ProcessClientRequest(n, r)
      PROVE  NoOrphanedCalls'
  BY <1>3 DEF ProcessClientRequest, electionVars
<1>4. ASSUME NEW n \in Node, NEW m \in msgs, HandlePrepare(n, m)
      PROVE  NoOrphanedCalls'
  BY <1>1, <1>2, <1>4 DEF HandlePrepare, DemoteToBackup, proposalVars
<1>5. ASSUME NEW n \in Node, NEW m \in msgs, BecomeLeader(n, m)
      PROVE  NoOrphanedCalls'
  BY <1>5 DEF BecomeLeader
<1>6. ASSUME NEW n \in Node, NEW m \in msgs, HandleNewView(n, m)
      PROVE  NoOrphanedCalls'
  BY <1>1, <1>2, <1>6 DEF HandleNewView, proposalVars
<1>7. ASSUME NEW n \in Node, NEW m \in msgs, StepDownOnPropose(n, m)
      PROVE  NoOrphanedCalls'
  BY <1>1, <1>7 DEF StepDownOnPropose
<1>8. ASSUME NEW n \in Node, NEW commits,
             SequentiallyExecuteCommittedEntries(n, commits), UNCHANGED role
      PROVE  NoOrphanedCalls'
  BY <1>8 DEF SequentiallyExecuteCommittedEntries
<1>9. ASSUME NEW n \in Node, NEW m \in msgs,
             CommitEntry(n, m) \/ HandleCommit(n, m)
      PROVE  NoOrphanedCalls'
  BY <1>2, <1>8, <1>9 DEF CommitEntry, HandleCommit, electionVars
<1>10. ASSUME NEW n \in Node, Driver(n) PROVE NoOrphanedCalls'
  BY <1>1, <1>2, <1>10 DEF Driver, Kill, Revive, ReviveForNewSet,
                           DemoteToBackup, electionVars, proposalVars
<1>11. CASE UNCHANGED vars
  BY <1>2, <1>11 DEF vars, electionVars, proposalVars
<1>12. ASSUME NEW n \in Node, NEW r \in Request,
              HandleFirstRequest(n, r) \/ AbortOnOwnForward(n, r)
       PROVE  NoOrphanedCalls'
  BY <1>2, <1>12 DEF HandleFirstRequest, AbortOnOwnForward, electionVars,
                     proposalVars
<1>13. ASSUME NEW n \in Node, Timer(n) \/ HandleHeartbeat(n)
       PROVE  NoOrphanedCalls'
  BY <1>2, <1>13 DEF Timer, Campaign, SkipCampaign, HandleHeartbeat,
                     electionVars, proposalVars
<1>14. ASSUME NEW n \in Node, NEW m \in msgs,
              \/ RejectPrepare(n, m) \/ HandlePromise(n, m)
              \/ HandlePropose(n, m) \/ HandleAccept(n, m)
       PROVE  NoOrphanedCalls'
  BY <1>2, <1>14 DEF RejectPrepare, HandlePromise, HandlePropose,
                     HandleAccept, electionVars, proposalVars
<1>15. ASSUME NEW m \in msgs, Drop(m) PROVE NoOrphanedCalls'
  BY <1>2, <1>15 DEF Drop, electionVars, proposalVars
<1> QED
  BY <1>3, <1>4, <1>5, <1>6, <1>7, <1>9, <1>10, <1>11, <1>12, <1>13, <1>14,
     <1>15
     DEF Next, Client, Election, Replication

\* On every path out of leadership (a Prepare, a NEW-VIEW or an Accept with a
\* higher ballot, a kill) the former leader has let go of its client calls.
THEOREM CallsAreReleased == Spec => []NoOrphanedCalls
<1>1. Init => TypeOK /\ NoOrphanedCalls
  BY InitType DEF Init, NoOrphanedCalls
<1>2. TypeOK /\ NoOrphanedCalls /\ [Next]_vars => (TypeOK /\ NoOrphanedCalls)'
  BY StepType, StepCalls
<1> QED BY <1>1, <1>2, PTL DEF Spec
=============================================================================
