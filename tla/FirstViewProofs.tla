-------------------------- MODULE FirstViewProofs --------------------------
(***************************************************************************)
(* Agreement among the replicas for as long as one election is all that    *)
(* has been started: for every number of nodes, requests, kills and        *)
(* recoveries, and every order of messages.  With a second, concurrent     *)
(* campaign the statement is false of the code (run rivals_conflict).      *)
(*                                                                         *)
(* Only the node that is meant to lead first can start the first election: *)
(* the others' timers start with a leader's message.  It is elected on     *)
(* empty logs, so its own log is the sequence of requests it has numbered, *)
(* and every other table of the cluster holds part of that log.            *)
(*                                                                         *)
(* The second part is what the first leader's view guarantees beyond       *)
(* agreement: a reply is durable, the leader's log has no gap and holds no *)
(* transaction twice, a quorum never names an entry the leader does not    *)
(* have, no process ends, and the cluster implements ReplicatedLog.        *)
(***************************************************************************)
EXTENDS PaxosClusterProofs, FiniteSetTheorems, SequenceTheorems

\* The request the first leader has at a sequence number, or None.
Numbered(s) == accept_log[InitialLeader][s].req
PartOfLog(req, s) == req = None \/ req = Numbered(s)

\* Nobody but the first leader campaigns or leads.
SoleCandidate ==
  \A n \in Node : n # InitialLeader =>
    role[n] = "BACKUP" /\ ~ waiting_for_promises[n]

\* Nothing is sent before the first campaign, and only the first leader's
\* election timer can run.
BeforeCampaign ==
  campaigns = 0 =>
    /\ msgs = {}
    /\ ~ waiting_for_promises[InitialLeader]
    /\ role[InitialLeader] = "BACKUP"
    /\ \A n \in Node : /\ timer_running[n] => n = InitialLeader
                       /\ pending_promise_call[n] = None
                       /\ current_ballot[n] = [counter |-> 0, node_id |-> n]

\* The election is held on empty logs.
BeforeElection ==
  campaigns = 0 \/ waiting_for_promises[InitialLeader] =>
    /\ role[InitialLeader] = "BACKUP"
    /\ \A n \in Node : accept_log[n] = EmptyLog
    /\ \A q \in Node : received_promise_logs[InitialLeader][q] = EmptyLog
    /\ \A m \in msgs : \/ m.type = "Prepare"
                       \/ m.type = "Promise" /\ m.log = EmptyLog

\* Every table holds part of the first leader's log.
OneLog ==
  \A n \in Node, s \in Seqnum : /\ PartOfLog(accept_log[n][s].req, s)
                                /\ PartOfLog(pending_entries[n][s].req, s)
                                /\ PartOfLog(entries_to_commit[n][s], s)
                                /\ PartOfLog(applied[n][s], s)

\* So does every message that carries entries or acknowledges one.
OneLogInFlight ==
  \A m \in msgs :
    /\ m.type = "NewView" => m.log = EmptyLog
    /\ m.type \in {"Accept", "Commit"} => m.req = Numbered(m.seq)
    /\ m.type = "Ack" => Numbered(m.seq) # None

\* The first leader's next sequence number is unused.
FreshSeqnums ==
  \A s \in Seqnum : s > last_seqnum[InitialLeader] =>
    accept_log[InitialLeader][s] = NoEntry

StableLeader == /\ SoleCandidate
                /\ BeforeCampaign
                /\ BeforeElection
                /\ OneLog
                /\ OneLogInFlight
                /\ FreshSeqnums

\* The inductive invariant.
StableLeaderInv == campaigns <= 1 => StableLeader

-----------------------------------------------------------------------------
\* Consequences of the invariant that the steps below use.

\* Whoever leads or collects promises is the first leader.
LEMMA LeaderIsFirst ==
  ASSUME TypeOK, StableLeader, NEW n \in Node,
         role[n] = "LEADER" \/ waiting_for_promises[n]
  PROVE  n = InitialLeader
BY DEF StableLeader, SoleCandidate

\* A leader has been elected.
LEMMA LeaderIsElected ==
  ASSUME StableLeader, role[InitialLeader] = "LEADER"
  PROVE  campaigns # 0 /\ ~ waiting_for_promises[InitialLeader]
BY DEF StableLeader, BeforeElection

\* Messages other than Prepare and Promise are sent after the election.
LEMMA ReplicationIsAfterElection ==
  ASSUME StableLeader, NEW m \in msgs,
         m.type \notin {"Prepare", "Promise"}
  PROVE  campaigns # 0 /\ ~ waiting_for_promises[InitialLeader]
BY DEF StableLeader, BeforeElection

\* A message in flight means that the first campaign has begun.
LEMMA MessageIsAfterCampaign ==
  ASSUME StableLeader, NEW m \in msgs
  PROVE  campaigns # 0
BY DEF StableLeader, BeforeCampaign

\* A step that leaves the tables, or empties some of them, keeps OneLog as
\* long as the first leader's log is the same.
LEMMA OneLogFrame ==
  ASSUME TypeOK, TypeOK', OneLog, UNCHANGED accept_log,
         \A n \in Node, s \in Seqnum :
           /\ \/ pending_entries'[n][s] = pending_entries[n][s]
              \/ pending_entries'[n][s] = NoEntry
           /\ \/ entries_to_commit'[n][s] = entries_to_commit[n][s]
              \/ entries_to_commit'[n][s] = None
           /\ applied'[n][s] = applied[n][s]
  PROVE  OneLog'
BY DEF OneLog, PartOfLog, Numbered, NoEntry

\* What demotion does to the tables.
LEMMA DropLeadershipTables ==
  ASSUME TypeOK, NEW n \in Node, DropLeadership(n)
  PROVE  /\ \A q \in Node, s \in Seqnum :
              \/ entries_to_commit'[q][s] = entries_to_commit[q][s]
              \/ entries_to_commit'[q][s] = None
         /\ \A q \in Node : /\ role'[q] = "LEADER" => role[q] = "LEADER"
                            /\ waiting_for_promises'[q]
                                 => waiting_for_promises[q]
                            /\ q # n => role'[q] = role[q]
         /\ role'[n] = "BACKUP"
         /\ ~ waiting_for_promises'[n]
BY DEF DropLeadership, EmptyCommits, TypeOK, ElectionTypeOK, ExecuteTypeOK

\* Steps that neither number a request, nor hold an election, nor move an
\* entry from one table to another.
LEMMA QuietStep ==
  ASSUME TypeOK, TypeOK', StableLeader,
         UNCHANGED <<accept_log, last_seqnum, campaigns>>,
         \A n \in Node, s \in Seqnum :
           /\ \/ pending_entries'[n][s] = pending_entries[n][s]
              \/ pending_entries'[n][s] = NoEntry
           /\ \/ entries_to_commit'[n][s] = entries_to_commit[n][s]
              \/ entries_to_commit'[n][s] = None
           /\ applied'[n][s] = applied[n][s],
         \A n \in Node : /\ role'[n] = "LEADER" => role[n] = "LEADER"
                         /\ waiting_for_promises'[n] => waiting_for_promises[n],
         campaigns = 0 =>
           /\ msgs' = {}
           /\ UNCHANGED <<current_ballot, pending_promise_call>>
           /\ \A n \in Node : timer_running'[n] => n = InitialLeader,
         campaigns = 0 \/ waiting_for_promises[InitialLeader] =>
           \A q \in Node : received_promise_logs'[InitialLeader][q] = EmptyLog,
         \A m \in msgs' :
           \/ m \in msgs
           \/ m.type = "Prepare"
           \/ m.type = "Promise" /\ \E n \in Node : m.log = accept_log[n]
           \/ /\ m.type = "Ack" /\ Numbered(m.seq) # None
              /\ campaigns # 0
              /\ ~ waiting_for_promises[InitialLeader]
  PROVE  StableLeader'
<1> USE DEF StableLeader
<1>1. SoleCandidate'
  BY DEF SoleCandidate, TypeOK, ElectionTypeOK
<1>2. BeforeCampaign'
  BY ConstantsAssumption DEF BeforeCampaign, TypeOK, ElectionTypeOK
<1>3. BeforeElection'
  BY ConstantsAssumption DEF BeforeElection, TypeOK, ElectionTypeOK
<1>4. OneLog'
  BY OneLogFrame
<1>5. OneLogInFlight'
  BY DEF OneLogInFlight, Numbered
<1>6. FreshSeqnums'
  BY DEF FreshSeqnums
<1> QED BY <1>1, <1>2, <1>3, <1>4, <1>5, <1>6

\* Handling the first request, or aborting on an own forward, keeps the
\* invariant.
LEMMA StableClient ==
  ASSUME TypeOK, TypeOK', StableLeader, NEW n \in Node, NEW r \in Request,
         HandleFirstRequest(n, r) \/ AbortOnOwnForward(n, r)
  PROVE  StableLeader'
<1>1. CASE HandleFirstRequest(n, r)
  <2>1. campaigns = 0 =>
          \A q \in Node : timer_running'[q] => q = InitialLeader
    <3>1. campaigns = 0 => n = InitialLeader
      <4>1. current_ballot[n] = [counter |-> 0, node_id |-> InitialLeader]
        BY <1>1 DEF HandleFirstRequest
      <4>2. campaigns = 0 => current_ballot[n] = [counter |-> 0, node_id |-> n]
        BY DEF StableLeader, BeforeCampaign
      <4> QED BY <4>1, <4>2
    <3> QED
      BY <1>1, <3>1 DEF HandleFirstRequest, StableLeader, BeforeCampaign,
                        TypeOK, TimerTypeOK
  <2> QED
    BY <1>1, <2>1, QuietStep
       DEF HandleFirstRequest, StableLeader, BeforeCampaign, BeforeElection,
           electionVars, logVars, proposalVars, executeVars, boundVars
<1>2. CASE AbortOnOwnForward(n, r)
  BY <1>2, QuietStep
     DEF AbortOnOwnForward, StableLeader, BeforeCampaign, BeforeElection,
         electionVars, timerVars, logVars, proposalVars, executeVars, boundVars
<1> QED BY <1>1, <1>2

\* A delayed promise carries an empty log while the election is on.
LEMMA StableSkipCampaign ==
  ASSUME TypeOK, TypeOK', StableLeader, NEW n \in Node, SkipCampaign(n)
  PROVE  StableLeader'
<1>1. campaigns # 0
  BY DEF SkipCampaign, StableLeader, BeforeCampaign
<1>2. \A m \in msgs' :
        \/ m \in msgs
        \/ m.type = "Promise" /\ m.log = accept_log[n]
  BY DEF SkipCampaign, Promise
<1> QED
  BY <1>1, <1>2, QuietStep
     DEF SkipCampaign, StableLeader, BeforeElection, logVars, proposalVars,
         executeVars, boundVars

\* A heartbeat needs a leader, so it comes after the campaign.
LEMMA StableHeartbeat ==
  ASSUME TypeOK, TypeOK', StableLeader, NEW n \in Node, HandleHeartbeat(n)
  PROVE  StableLeader'
<1>1. campaigns # 0
  BY LeaderIsFirst, LeaderIsElected DEF HandleHeartbeat, Peers
<1> QED
  BY <1>1, QuietStep
     DEF HandleHeartbeat, StableLeader, BeforeElection, electionVars, logVars,
         proposalVars, executeVars, boundVars

\* Losing a message keeps the invariant.
LEMMA StableDrop ==
  ASSUME TypeOK, TypeOK', StableLeader, NEW m \in msgs, Drop(m)
  PROVE  StableLeader'
<1>1. campaigns # 0
  BY MessageIsAfterCampaign
<1> QED
  BY <1>1, QuietStep
     DEF Drop, StableLeader, BeforeElection, electionVars, logVars,
         proposalVars, executeVars, boundVars

\* A promise carries an empty log while the election is on, and the demotion
\* of the first leader only empties tables.
LEMMA StablePrepare ==
  ASSUME TypeOK, TypeOK', StableLeader, NEW n \in Node, NEW m \in msgs,
         HandlePrepare(n, m) \/ RejectPrepare(n, m)
  PROVE  StableLeader'
<1>1. campaigns # 0
  BY MessageIsAfterCampaign
<1>2. CASE RejectPrepare(n, m)
  BY <1>1, <1>2, QuietStep
     DEF RejectPrepare, StableLeader, BeforeElection, logVars, proposalVars,
         executeVars, boundVars
<1>3. CASE HandlePrepare(n, m)
  <2>1. \A x \in msgs' : \/ x \in msgs
                         \/ x.type = "Promise" /\ x.log = accept_log[n]
    BY <1>3 DEF HandlePrepare, Promise
  <2>2. /\ \A q \in Node, s \in Seqnum :
             /\ \/ pending_entries'[q][s] = pending_entries[q][s]
                \/ pending_entries'[q][s] = NoEntry
             /\ \/ entries_to_commit'[q][s] = entries_to_commit[q][s]
                \/ entries_to_commit'[q][s] = None
        /\ \A q \in Node : /\ role'[q] = "LEADER" => role[q] = "LEADER"
                           /\ waiting_for_promises'[q]
                                => waiting_for_promises[q]
    <3>1. CASE DemoteToBackup(n)
      BY <3>1, DropLeadershipTables
         DEF DemoteToBackup, EmptyLog, TypeOK, ProposalTypeOK
    <3>2. CASE UNCHANGED <<role, waiting_for_promises, leader_id, proposalVars,
                           entries_to_commit, timer_running>>
      BY <3>2 DEF proposalVars
    <3> QED BY <1>3, <3>1, <3>2 DEF HandlePrepare
  <2>3. UNCHANGED <<accept_log, last_seqnum, campaigns, applied,
                    received_promise_logs>>
    BY <1>3 DEF HandlePrepare, logVars, boundVars
  <2> QED
    BY <1>1, <2>1, <2>2, <2>3, QuietStep DEF StableLeader, BeforeElection
<1> QED BY <1>2, <1>3

\* Recording a promise keeps the invariant: its log is empty.
LEMMA StablePromise ==
  ASSUME TypeOK, TypeOK', StableLeader, NEW n \in Node, NEW m \in msgs,
         HandlePromise(n, m)
  PROVE  StableLeader'
<1>1. n = InitialLeader /\ campaigns # 0
  BY MessageIsAfterCampaign, LeaderIsFirst DEF HandlePromise, Electing
<1>2. m \in PromiseMsg /\ m.log = EmptyLog
  BY <1>1, MessageFields
     DEF HandlePromise, Received, Electing, StableLeader, BeforeElection, TypeOK
<1>3. \A q \in Node : received_promise_logs'[InitialLeader][q] = EmptyLog
  BY <1>1, <1>2
     DEF HandlePromise, Electing, StableLeader, BeforeElection, PromiseMsg,
         TypeOK, ElectionTypeOK
<1> QED
  BY <1>1, <1>3, QuietStep
     DEF HandlePromise, logVars, proposalVars, executeVars, boundVars

\* Counting an acknowledgement keeps the invariant.
LEMMA StableAccept ==
  ASSUME TypeOK, TypeOK', StableLeader, NEW n \in Node, NEW m \in msgs,
         HandleAccept(n, m)
  PROVE  StableLeader'
<1>1. campaigns # 0
  BY MessageIsAfterCampaign
<1> QED
  BY <1>1, QuietStep
     DEF HandleAccept, StableLeader, BeforeElection, electionVars, logVars,
         executeVars, boundVars

\* Kills and recoveries only empty tables and never touch a log.
LEMMA StableDriver ==
  ASSUME TypeOK, TypeOK', StableLeader, NEW n \in Node, Driver(n)
  PROVE  StableLeader'
<1>1. /\ \A q \in Node, s \in Seqnum :
           /\ \/ pending_entries'[q][s] = pending_entries[q][s]
              \/ pending_entries'[q][s] = NoEntry
           /\ \/ entries_to_commit'[q][s] = entries_to_commit[q][s]
              \/ entries_to_commit'[q][s] = None
      /\ \A q \in Node : /\ role'[q] = "LEADER" => role[q] = "LEADER"
                         /\ waiting_for_promises'[q] => waiting_for_promises[q]
  <2>1. CASE DemoteToBackup(n)
    BY <2>1, DropLeadershipTables
       DEF DemoteToBackup, EmptyLog, TypeOK, ProposalTypeOK
  <2>2. CASE UNCHANGED <<role, waiting_for_promises, pending_entries,
                         entries_to_commit>>
    BY <2>2
  <2> QED
    BY <2>1, <2>2 DEF Driver, Kill, Revive, ReviveForNewSet, electionVars,
                      proposalVars, executeVars
<1>2. UNCHANGED <<accept_log, last_seqnum, campaigns, applied, msgs,
                  received_promise_logs, current_ballot, pending_promise_call>>
  BY DEF Driver, Kill, Revive, ReviveForNewSet, electionVars, logVars,
         executeVars, boundVars
<1>3. \A q \in Node : timer_running'[q] => timer_running[q]
  BY DEF Driver, Kill, Revive, ReviveForNewSet, timerVars, TypeOK, TimerTypeOK
<1> QED
  BY <1>1, <1>2, <1>3, QuietStep
     DEF StableLeader, BeforeCampaign, BeforeElection

\* The request enters the first leader's log at an unused sequence number, so
\* every table and message that held part of the log still does.
LEMMA StableProcessClientRequest ==
  ASSUME TypeOK, TypeOK', StableLeader, NEW n \in Node, NEW r \in Request,
         ProcessClientRequest(n, r)
  PROVE  StableLeader'
<1> DEFINE seq == last_seqnum[n] + 1
           b   == current_ballot[n]
           e   == [ballot |-> b, req |-> r]
<1>1. n = InitialLeader /\ campaigns # 0
      /\ ~ waiting_for_promises[InitialLeader]
  BY LeaderIsFirst, LeaderIsElected DEF ProcessClientRequest
<1>2. /\ last_seqnum' = [last_seqnum EXCEPT ![n] = seq]
      /\ accept_log' = [accept_log EXCEPT ![n][seq] = e]
      /\ pending_entries' = [pending_entries EXCEPT ![n][seq] = e]
      /\ msgs' = msgs \cup
           {[type |-> "Accept", from |-> n, to |-> q, ballot |-> b,
             seq |-> seq, req |-> r] : q \in Peers(n)}
      /\ UNCHANGED <<role, waiting_for_promises, entries_to_commit, applied,
                     campaigns>>
  BY DEF ProcessClientRequest, electionVars, executeVars, boundVars
<1>3. seq \in Seqnum /\ accept_log[n][seq] = NoEntry
  BY <1>1, ConstantsAssumption
     DEF ProcessClientRequest, StableLeader, FreshSeqnums, TypeOK, LogTypeOK,
         Seqnum
<1>4. e.req = r
  OBVIOUS
<1>5. Numbered(seq) = None
  BY <1>1, <1>3 DEF Numbered, NoEntry
<1> HIDE DEF seq, b, e
<1>6. \A s \in Seqnum : Numbered(s)' = IF s = seq THEN r ELSE Numbered(s)
  BY <1>1, <1>2, <1>3, <1>4 DEF Numbered, TypeOK, LogTypeOK, Log
<1>7. SoleCandidate' /\ BeforeCampaign' /\ BeforeElection'
  BY <1>1, <1>2
     DEF StableLeader, SoleCandidate, BeforeCampaign, BeforeElection
<1>8. OneLog'
  <2> SUFFICES ASSUME NEW q \in Node, NEW s \in Seqnum
               PROVE  /\ PartOfLog(accept_log[q][s].req, s)'
                      /\ PartOfLog(pending_entries[q][s].req, s)'
                      /\ PartOfLog(entries_to_commit[q][s], s)'
                      /\ PartOfLog(applied[q][s], s)'
    BY DEF OneLog
  <2>1. /\ PartOfLog(accept_log[q][s].req, s)
        /\ PartOfLog(pending_entries[q][s].req, s)
        /\ PartOfLog(entries_to_commit[q][s], s)
        /\ PartOfLog(applied[q][s], s)
    BY DEF StableLeader, OneLog
  <2>2. /\ accept_log'[q][s] = IF q = n /\ s = seq THEN e ELSE accept_log[q][s]
        /\ pending_entries'[q][s] =
             IF q = n /\ s = seq THEN e ELSE pending_entries[q][s]
    BY <1>2, <1>3 DEF TypeOK, LogTypeOK, ProposalTypeOK, Log
  <2>3. CASE s = seq
    BY <1>2, <1>4, <1>5, <1>6, <2>1, <2>2, <2>3 DEF PartOfLog
  <2>4. CASE s # seq
    BY <1>2, <1>6, <2>1, <2>2, <2>4 DEF PartOfLog
  <2> QED BY <2>3, <2>4
<1>9. OneLogInFlight'
  <2> SUFFICES ASSUME NEW m \in msgs'
               PROVE  /\ m.type = "NewView" => m.log = EmptyLog
                      /\ m.type \in {"Accept", "Commit"} =>
                           m.req = Numbered(m.seq)'
                      /\ m.type = "Ack" => Numbered(m.seq)' # None
    BY DEF OneLogInFlight, Numbered
  <2>1. CASE m \in msgs
    <3>1. /\ m.type = "NewView" => m.log = EmptyLog
          /\ m.type \in {"Accept", "Commit"} => m.req = Numbered(m.seq)
          /\ m.type = "Ack" => Numbered(m.seq) # None
      BY <2>1 DEF StableLeader, OneLogInFlight
    <3>2. m.type \in {"Accept", "Commit"} =>
            m.seq \in Seqnum /\ m.req \in Command
      BY <2>1, MessageFields DEF TypeOK, AcceptMsg, CommitMsg
    <3>3. m.type \in {"Accept", "Commit"} => m.seq # seq
      BY <1>5, <3>1, <3>2, ConstantsAssumption DEF Command
    <3>4. m.type = "Ack" => m.seq \in Seqnum
      BY <2>1, MessageFields DEF TypeOK, AckMsg
    <3>5. m.type = "Ack" => m.seq # seq
      BY <1>5, <3>1
    <3> QED BY <1>6, <3>1, <3>2, <3>3, <3>4, <3>5
  <2>2. CASE m \notin msgs
    <3>1. m.type = "Accept" /\ m.req = r /\ m.seq = seq
      BY <1>2, <2>2
    <3> QED BY <1>3, <1>6, <3>1
  <2> QED BY <2>1, <2>2
<1>10. FreshSeqnums'
  <2>1. \A s \in Seqnum : accept_log'[n][s] = IF s = seq THEN e
                                              ELSE accept_log[n][s]
    BY <1>2, <1>3 DEF TypeOK, LogTypeOK, Log
  <2>2. last_seqnum'[n] = seq /\ last_seqnum[n] < seq
    BY <1>2 DEF TypeOK, LogTypeOK, seq
  <2>3. ASSUME NEW s \in Seqnum, s > seq
        PROVE  s # seq /\ s > last_seqnum[n]
    BY <1>3, <2>2, <2>3, ConstantsAssumption DEF TypeOK, LogTypeOK, Seqnum
  <2> QED
    BY <1>1, <2>1, <2>2, <2>3 DEF StableLeader, FreshSeqnums
<1> QED BY <1>7, <1>8, <1>9, <1>10 DEF StableLeader

\* The one campaign is the first leader's: no other timer runs before it.
LEMMA StableCampaign ==
  ASSUME TypeOK, TypeOK', StableLeader, NEW n \in Node, Campaign(n),
         campaigns' <= 1
  PROVE  StableLeader'
<1>1. campaigns = 0 /\ campaigns' = 1
  BY DEF Campaign, TypeOK, BoundTypeOK
<1>2. n = InitialLeader /\ msgs = {}
  BY <1>1 DEF Campaign, StableLeader, BeforeCampaign
<1>3. /\ UNCHANGED <<role, received_promise_logs, accept_log, last_seqnum,
                     pending_entries, entries_to_commit, applied>>
      /\ waiting_for_promises' = [waiting_for_promises EXCEPT ![n] = TRUE]
  BY DEF Campaign, logVars, proposalVars, executeVars
<1>4. \A m \in msgs' : \/ m.type = "Prepare"
                       \/ m.type = "Promise" /\ m.log = accept_log[n]
  BY <1>2 DEF Campaign, SendPrepare, Promise
<1>5. SoleCandidate' /\ BeforeCampaign'
  BY <1>1, <1>2, <1>3
     DEF StableLeader, SoleCandidate, BeforeCampaign, TypeOK, ElectionTypeOK
<1>6. BeforeElection'
  BY <1>1, <1>3, <1>4 DEF StableLeader, BeforeElection
<1>7. OneLog'
  BY <1>3, OneLogFrame DEF StableLeader
<1>8. OneLogInFlight' /\ FreshSeqnums'
  BY <1>3, <1>4 DEF StableLeader, OneLogInFlight, FreshSeqnums
<1> QED BY <1>5, <1>6, <1>7, <1>8 DEF StableLeader

\* An election on empty logs elects an empty log.
LEMMA MergeEmptyLogs ==
  ASSUME NEW logs \in [Node -> Log], \A q \in Node : logs[q] = EmptyLog,
         NEW merged \in MergeAcceptLogsFromPromises(EmptyLog, logs)
  PROVE  merged = EmptyLog
<1>1. ASSUME NEW s \in Seqnum
      PROVE  MergeChoices(EmptyLog, logs, s) \subseteq {NoEntry}
  <2>1. {EmptyLog[s]} \cup {logs[q][s] : q \in Node} \subseteq {NoEntry}
    BY DEF EmptyLog
  <2> QED BY <2>1 DEF MergeChoices
<1> QED BY <1>1 DEF MergeAcceptLogsFromPromises, EmptyLog

\* Filling an empty log up to sequence number 0 leaves it empty.
LEMMA FillEmptyLog ==
  ASSUME NEW last \in 0 .. MaxSeq, IsLastSeqnum(EmptyLog, last), NEW b
  PROVE  last = 0 /\ FillMissingNoOps(EmptyLog, last, b) = EmptyLog
<1>1. last = 0
  BY ConstantsAssumption DEF IsLastSeqnum, EmptyLog, Seqnum
<1> QED BY <1>1, ConstantsAssumption DEF FillMissingNoOps, EmptyLog, Seqnum

\* The first leader is elected with an empty log and sends it around.
LEMMA StableBecomeLeader ==
  ASSUME TypeOK, TypeOK', StableLeader, NEW n \in Node, NEW m \in msgs,
         BecomeLeader(n, m)
  PROVE  StableLeader'
<1> DEFINE b    == current_ballot[n]
           logs == [received_promise_logs[n] EXCEPT ![m.from] = m.log]
<1>1. n = InitialLeader /\ campaigns # 0 /\ waiting_for_promises[n]
  BY MessageIsAfterCampaign, LeaderIsFirst DEF BecomeLeader, Electing
<1>2. /\ accept_log[n] = EmptyLog
      /\ m.log = EmptyLog
      /\ m.from \in Node
      /\ \A x \in msgs : \/ x.type = "Prepare"
                         \/ x.type = "Promise" /\ x.log = EmptyLog
  BY <1>1, MessageFields
     DEF BecomeLeader, Received, StableLeader, BeforeElection, TypeOK,
         PromiseMsg
<1>3. logs \in [Node -> Log] /\ \A q \in Node : logs[q] = EmptyLog
  BY <1>1, <1>2, EmptyType
     DEF StableLeader, BeforeElection, TypeOK, ElectionTypeOK
<1>4. PICK merged \in MergeAcceptLogsFromPromises(accept_log[n], logs),
           last \in 0 .. MaxSeq :
        LET log == FillMissingNoOps(merged, last, b) IN
        /\ IsLastSeqnum(merged, last)
        /\ accept_log' = [accept_log EXCEPT ![n] = log]
        /\ last_seqnum' = [last_seqnum EXCEPT ![n] = last]
        /\ msgs' = (msgs \ {m}) \cup
             {[type |-> "NewView", from |-> n, to |-> q, ballot |-> b,
               log |-> log] : q \in Peers(n)}
  BY DEF BecomeLeader, SendNewView
<1> HIDE DEF logs, b
<1>5. merged = EmptyLog
  BY <1>2, <1>3, MergeEmptyLogs
<1>6. last = 0 /\ FillMissingNoOps(merged, last, b) = EmptyLog
  BY <1>4, <1>5, FillEmptyLog
<1>7. UNCHANGED accept_log
  BY <1>2, <1>4, <1>6 DEF TypeOK, LogTypeOK
<1>8. \A x \in msgs' : \/ x \in msgs
                       \/ x.type = "NewView" /\ x.log = EmptyLog
  BY <1>4, <1>6
<1>9. /\ UNCHANGED <<campaigns, pending_entries, entries_to_commit, applied>>
      /\ ~ waiting_for_promises'[n]
      /\ \A q \in Node : q # n => /\ role'[q] = role[q]
                                  /\ waiting_for_promises'[q] =
                                       waiting_for_promises[q]
  BY DEF BecomeLeader, boundVars, executeVars, TypeOK, ElectionTypeOK
<1>10. SoleCandidate' /\ BeforeCampaign' /\ BeforeElection'
  BY <1>1, <1>9 DEF StableLeader, SoleCandidate, BeforeCampaign, BeforeElection
<1>11. OneLog'
  BY <1>7, <1>9, OneLogFrame DEF StableLeader
<1>12. OneLogInFlight'
  BY <1>7, <1>8 DEF StableLeader, OneLogInFlight, Numbered
<1>13. FreshSeqnums'
  BY <1>1, <1>2, <1>7 DEF FreshSeqnums, EmptyLog
<1> QED BY <1>10, <1>11, <1>12, <1>13 DEF StableLeader

\* The first leader's NEW-VIEW carries no entry and changes no log.
LEMMA StableNewView ==
  ASSUME TypeOK, TypeOK', StableLeader, NEW n \in Node, NEW m \in msgs,
         HandleNewView(n, m)
  PROVE  StableLeader'
<1>1. m.type = "NewView" /\ m.log = EmptyLog
  BY DEF HandleNewView, Received, StableLeader, OneLogInFlight
<1>2. campaigns # 0 /\ ~ waiting_for_promises[InitialLeader]
  BY <1>1, ReplicationIsAfterElection
<1>3. UNCHANGED accept_log
  BY <1>1 DEF HandleNewView, EmptyLog, TypeOK, LogTypeOK, Log
<1>4. \A x \in msgs' : x \in msgs
  BY <1>1 DEF HandleNewView, EmptyLog
<1>5. UNCHANGED <<last_seqnum, campaigns, applied, received_promise_logs>>
  BY DEF HandleNewView, boundVars
<1>6. /\ \A q \in Node, s \in Seqnum :
           /\ \/ pending_entries'[q][s] = pending_entries[q][s]
              \/ pending_entries'[q][s] = NoEntry
           /\ \/ entries_to_commit'[q][s] = entries_to_commit[q][s]
              \/ entries_to_commit'[q][s] = None
      /\ \A q \in Node : /\ role'[q] = "LEADER" => role[q] = "LEADER"
                         /\ waiting_for_promises'[q] => waiting_for_promises[q]
  <2>1. CASE role[n] = "BACKUP"
    <3>1. /\ waiting_for_promises' =
               [waiting_for_promises EXCEPT ![n] = FALSE]
          /\ UNCHANGED <<role, proposalVars, entries_to_commit>>
      BY <2>1 DEF HandleNewView
    <3> QED BY <3>1 DEF proposalVars, TypeOK, ElectionTypeOK
  <2>2. CASE role[n] = "LEADER"
    <3>1. /\ DropLeadership(n)
          /\ pending_entries' = [pending_entries EXCEPT ![n] = EmptyLog]
      BY <2>2 DEF HandleNewView
    <3> QED
      BY <3>1, DropLeadershipTables DEF EmptyLog, TypeOK, ProposalTypeOK
  <2> QED BY <2>1, <2>2 DEF HandleNewView
<1> QED
  BY <1>2, <1>3, <1>4, <1>5, <1>6, QuietStep DEF StableLeader, BeforeElection

\* Both forms of HandlePropose store an entry of the first leader's log.
LEMMA StablePropose ==
  ASSUME TypeOK, TypeOK', StableLeader, NEW n \in Node, NEW m \in msgs,
         HandlePropose(n, m) \/ StepDownOnPropose(n, m)
  PROVE  StableLeader'
<1> DEFINE e == [ballot |-> m.ballot, req |-> m.req]
<1>1. m \in AcceptMsg /\ m.type = "Accept"
  BY MessageFields DEF HandlePropose, StepDownOnPropose, Received, TypeOK
<1>2. m.seq \in Seqnum /\ m.req \in Command /\ m.req # None
      /\ m.req = Numbered(m.seq) /\ e.req = m.req
  BY <1>1, ConstantsAssumption
     DEF AcceptMsg, StableLeader, OneLogInFlight, Command
<1>3. campaigns # 0 /\ ~ waiting_for_promises[InitialLeader]
  BY <1>1, ReplicationIsAfterElection
<1>4. accept_log' = [accept_log EXCEPT ![n][m.seq] =
                       IF accept_log[n][m.seq] = NoEntry
                       THEN e ELSE accept_log[n][m.seq]]
  BY DEF HandlePropose, StepDownOnPropose
<1>5. \A q \in Node, s \in Seqnum :
        \/ accept_log'[q][s] = accept_log[q][s]
        \/ accept_log'[q][s] = e /\ s = m.seq
  BY <1>2, <1>4 DEF TypeOK, LogTypeOK, Log
<1>6. accept_log'[InitialLeader] = accept_log[InitialLeader]
  <2>1. accept_log[InitialLeader][m.seq] # NoEntry
    BY <1>2 DEF Numbered, NoEntry
  <2>2. accept_log[InitialLeader] \in Log /\ accept_log'[InitialLeader] \in Log
    BY ConstantsAssumption DEF TypeOK, LogTypeOK
  <2>3. \A s \in Seqnum :
          accept_log'[InitialLeader][s] = accept_log[InitialLeader][s]
    BY <1>2, <1>4, <2>1, ConstantsAssumption DEF TypeOK, LogTypeOK, Log
  <2> QED BY <2>2, <2>3 DEF Log
<1>7. \A q \in Node, s \in Seqnum :
        \/ pending_entries'[q][s] = pending_entries[q][s]
        \/ pending_entries'[q][s] = NoEntry
        \/ pending_entries'[q][s] = e /\ s = m.seq
  <2>1. CASE pending_entries' = [pending_entries EXCEPT ![n][m.seq] = e]
    BY <1>2, <2>1 DEF TypeOK, ProposalTypeOK, Log
  <2>2. CASE pending_entries' = [pending_entries EXCEPT ![n] =
                                   [EmptyLog EXCEPT ![m.seq] = e]]
    BY <1>2, <2>2 DEF EmptyLog, TypeOK, ProposalTypeOK, Log
  <2> QED BY <2>1, <2>2 DEF HandlePropose, StepDownOnPropose
<1>8. /\ \A q \in Node, s \in Seqnum :
           \/ entries_to_commit'[q][s] = entries_to_commit[q][s]
           \/ entries_to_commit'[q][s] = None
      /\ \A q \in Node : /\ role'[q] = "LEADER" => role[q] = "LEADER"
                         /\ waiting_for_promises'[q] => waiting_for_promises[q]
  <2>1. CASE HandlePropose(n, m)
    BY <2>1 DEF HandlePropose, executeVars
  <2>2. CASE StepDownOnPropose(n, m)
    BY <2>2, DropLeadershipTables DEF StepDownOnPropose
  <2> QED BY <2>1, <2>2
<1>9. /\ UNCHANGED <<last_seqnum, campaigns, applied>>
      /\ \A x \in msgs' : \/ x \in msgs
                          \/ x.type = "Ack" /\ x.seq = m.seq
  BY DEF HandlePropose, StepDownOnPropose, AcceptAck, executeVars, boundVars
<1> HIDE DEF e
<1>10. \A s : Numbered(s)' = Numbered(s)
  BY <1>6 DEF Numbered
<1>11. SoleCandidate' /\ BeforeCampaign' /\ BeforeElection'
  BY <1>3, <1>8, <1>9, ConstantsAssumption
     DEF StableLeader, SoleCandidate, BeforeCampaign, BeforeElection, TypeOK,
         ElectionTypeOK
<1>12. OneLog'
  <2> SUFFICES ASSUME NEW q \in Node, NEW s \in Seqnum
               PROVE  /\ PartOfLog(accept_log[q][s].req, s)'
                      /\ PartOfLog(pending_entries[q][s].req, s)'
                      /\ PartOfLog(entries_to_commit[q][s], s)'
                      /\ PartOfLog(applied[q][s], s)'
    BY DEF OneLog
  <2>1. /\ PartOfLog(accept_log[q][s].req, s)
        /\ PartOfLog(pending_entries[q][s].req, s)
        /\ PartOfLog(entries_to_commit[q][s], s)
        /\ PartOfLog(applied[q][s], s)
    BY DEF StableLeader, OneLog
  <2>2. NoEntry.req = None
    BY DEF NoEntry
  <2> QED
    BY <1>2, <1>5, <1>7, <1>8, <1>9, <1>10, <2>1, <2>2 DEF PartOfLog
<1>13. OneLogInFlight'
  BY <1>2, <1>9, <1>10 DEF StableLeader, OneLogInFlight
<1>14. FreshSeqnums'
  BY <1>6, <1>9 DEF StableLeader, FreshSeqnums
<1> QED BY <1>11, <1>12, <1>13, <1>14 DEF StableLeader

\* Executing committed entries of the first leader's log applies part of it.
LEMMA StableExecution ==
  ASSUME TypeOK, TypeOK', StableLeader, NEW n \in Node,
         NEW commits \in CommitTable,
         \A s \in Seqnum : PartOfLog(commits[s], s),
         entries_to_commit' = [entries_to_commit EXCEPT ![n] = commits],
         \/ SequentiallyExecuteCommittedEntries(n, commits)
         \/ UNCHANGED <<process, last_executed_seq, applied, balance_locks,
                        pending_entries, pending_client_calls, replies,
                        last_reply_per_client>>,
         UNCHANGED accept_log
  PROVE  OneLog'
<1>1. \A q \in Node, s \in Seqnum :
        /\ applied'[q][s] \in {applied[q][s], commits[s]}
        /\ pending_entries'[q][s] \in {pending_entries[q][s], NoEntry}
  <2>1. CASE SequentiallyExecuteCommittedEntries(n, commits)
    <3>1. PICK last \in last_executed_seq[n] .. MaxSeq :
            SequentiallyExecuteCommittedEntries(n, commits)!(last)
      BY <2>1 DEF SequentiallyExecuteCommittedEntries
    <3>2. \A q \in Node, s \in Seqnum :
            applied'[q][s] \in {applied[q][s], commits[s]}
      BY <3>1 DEF TypeOK, ExecuteTypeOK
    <3>3. \A q \in Node, s \in Seqnum :
            pending_entries'[q][s] \in {pending_entries[q][s], NoEntry}
      BY <3>1 DEF TypeOK, ProposalTypeOK
    <3> QED BY <3>2, <3>3
  <2>2. CASE UNCHANGED <<applied, pending_entries>>
    BY <2>2
  <2> QED BY <2>1, <2>2
<1>2. \A q \in Node, s \in Seqnum :
        entries_to_commit'[q][s] \in {entries_to_commit[q][s], commits[s]}
  BY DEF TypeOK, ExecuteTypeOK
<1>3. NoEntry.req = None
  BY DEF NoEntry
<1> SUFFICES ASSUME NEW q \in Node, NEW s \in Seqnum
             PROVE  /\ PartOfLog(accept_log[q][s].req, s)'
                    /\ PartOfLog(pending_entries[q][s].req, s)'
                    /\ PartOfLog(entries_to_commit[q][s], s)'
                    /\ PartOfLog(applied[q][s], s)'
  BY DEF OneLog
<1>4. /\ PartOfLog(accept_log[q][s].req, s)
      /\ PartOfLog(pending_entries[q][s].req, s)
      /\ PartOfLog(entries_to_commit[q][s], s)
      /\ PartOfLog(applied[q][s], s)
      /\ PartOfLog(commits[s], s)
  BY DEF StableLeader, OneLog
<1> QED BY <1>1, <1>2, <1>3, <1>4 DEF PartOfLog, Numbered

\* The first leader commits what its own log holds at the sequence number.
LEMMA StableCommitEntry ==
  ASSUME TypeOK, TypeOK', StableLeader, NEW n \in Node, NEW m \in msgs,
         CommitEntry(n, m)
  PROVE  StableLeader'
<1> DEFINE r == RequestToCommit(n, m.seq)
           commits == [entries_to_commit[n] EXCEPT ![m.seq] =
                         IF @ = None THEN r ELSE @]
<1>1. m \in AckMsg /\ m.seq \in Seqnum
  BY MessageFields DEF CommitEntry, Received, TypeOK, AckMsg
<1>2. campaigns # 0 /\ ~ waiting_for_promises[InitialLeader]
  BY LeaderIsFirst, LeaderIsElected DEF CommitEntry
<1>3. EntryToCommit(n, m.seq) # NoEntry /\ r \in Command
  <2>1. n = InitialLeader /\ Numbered(m.seq) # None
    BY <1>1, LeaderIsFirst DEF CommitEntry, Received, StableLeader,
                               OneLogInFlight
  <2>2. EntryToCommit(n, m.seq) # NoEntry
    BY <2>1 DEF EntryToCommit, Numbered, NoEntry
  <2> QED
    BY <1>1, <2>2 DEF RequestToCommit, EntryToCommit, TypeOK, LogTypeOK,
                      ProposalTypeOK, Log, Entry
<1>4. r = Numbered(m.seq)
  BY <1>1, <1>3, ConstantsAssumption
     DEF RequestToCommit, EntryToCommit, StableLeader, OneLog, PartOfLog,
         Command
<1>5. commits \in CommitTable
  BY <1>1, <1>3 DEF TypeOK, ExecuteTypeOK, CommitTable
<1>6. \A s \in Seqnum : PartOfLog(commits[s], s)
  BY <1>1, <1>4 DEF StableLeader, OneLog, PartOfLog, TypeOK, ExecuteTypeOK,
                    CommitTable
<1>7. /\ entries_to_commit' = [entries_to_commit EXCEPT ![n] = commits]
      /\ \/ SequentiallyExecuteCommittedEntries(n, commits)
         \/ UNCHANGED <<process, last_executed_seq, applied, balance_locks,
                        pending_entries, pending_client_calls, replies,
                        last_reply_per_client>>
      /\ UNCHANGED <<accept_log, last_seqnum, campaigns, role,
                     waiting_for_promises>>
      /\ \A x \in msgs' : \/ x \in msgs
                          \/ x.type = "Commit" /\ x.seq = m.seq /\ x.req = r
  BY DEF CommitEntry, BroadcastCommit, electionVars, logVars, boundVars
<1> HIDE DEF commits, r
<1>8. OneLog'
  BY <1>5, <1>6, <1>7, StableExecution
<1>9. OneLogInFlight'
  BY <1>4, <1>7 DEF StableLeader, OneLogInFlight, Numbered
<1>10. SoleCandidate' /\ BeforeCampaign' /\ BeforeElection' /\ FreshSeqnums'
  BY <1>2, <1>7 DEF StableLeader, SoleCandidate, BeforeCampaign,
                    BeforeElection, FreshSeqnums
<1> QED BY <1>8, <1>9, <1>10 DEF StableLeader

\* A Commit carries what the first leader's log holds at its sequence number.
LEMMA StableHandleCommit ==
  ASSUME TypeOK, TypeOK', StableLeader, NEW n \in Node, NEW m \in msgs,
         HandleCommit(n, m)
  PROVE  StableLeader'
<1> DEFINE commits == [entries_to_commit[n] EXCEPT ![m.seq] =
                         IF @ = None THEN m.req ELSE @]
<1>1. m \in CommitMsg /\ m.type = "Commit"
  BY MessageFields DEF HandleCommit, Received, TypeOK
<1>2. campaigns # 0 /\ ~ waiting_for_promises[InitialLeader]
  BY <1>1, ReplicationIsAfterElection
<1>3. m.seq \in Seqnum /\ m.req \in Command /\ m.req = Numbered(m.seq)
  BY <1>1 DEF CommitMsg, StableLeader, OneLogInFlight
<1>4. commits \in CommitTable
  BY <1>3 DEF TypeOK, ExecuteTypeOK, CommitTable
<1>5. \A s \in Seqnum : PartOfLog(commits[s], s)
  BY <1>3 DEF StableLeader, OneLog, PartOfLog, TypeOK, ExecuteTypeOK,
              CommitTable
<1>6. /\ entries_to_commit' = [entries_to_commit EXCEPT ![n] = commits]
      /\ \/ SequentiallyExecuteCommittedEntries(n, commits)
         \/ UNCHANGED <<process, last_executed_seq, applied, balance_locks,
                        pending_entries, pending_client_calls, replies,
                        last_reply_per_client>>
      /\ UNCHANGED <<accept_log, last_seqnum, campaigns, role,
                     waiting_for_promises>>
      /\ msgs' \subseteq msgs
  BY DEF HandleCommit, electionVars, logVars, boundVars
<1> HIDE DEF commits
<1>7. OneLog'
  BY <1>4, <1>5, <1>6, StableExecution
<1>8. OneLogInFlight'
  BY <1>6 DEF StableLeader, OneLogInFlight, Numbered
<1>9. SoleCandidate' /\ BeforeCampaign' /\ BeforeElection' /\ FreshSeqnums'
  BY <1>2, <1>6 DEF StableLeader, SoleCandidate, BeforeCampaign,
                    BeforeElection, FreshSeqnums
<1> QED BY <1>7, <1>8, <1>9 DEF StableLeader

-----------------------------------------------------------------------------
\* The invariant holds of the constructed nodes.
LEMMA InitStable == Init => StableLeader
<1> SUFFICES ASSUME Init PROVE StableLeader
  OBVIOUS
<1>1. SoleCandidate /\ BeforeCampaign /\ BeforeElection
  BY ConstantsAssumption
     DEF Init, SoleCandidate, BeforeCampaign, BeforeElection
<1>2. OneLog
  BY ConstantsAssumption
     DEF Init, OneLog, PartOfLog, EmptyLog, EmptyCommits, NoEntry
<1>3. OneLogInFlight /\ FreshSeqnums
  BY ConstantsAssumption DEF Init, OneLogInFlight, FreshSeqnums, EmptyLog
<1> QED BY <1>1, <1>2, <1>3 DEF StableLeader

\* The bound counts campaigns and never goes back.
LEMMA CampaignsGrow ==
  ASSUME TypeOK, [Next]_vars
  PROVE  campaigns' = campaigns \/ \E n \in Node : Campaign(n)
<1>1. ASSUME NEW n \in Node, Client(n) \/ Timer(n) \/ HandleHeartbeat(n)
                             \/ Driver(n)
      PROVE  campaigns' = campaigns \/ Campaign(n)
  BY <1>1 DEF Client, HandleFirstRequest, AbortOnOwnForward,
              ProcessClientRequest, Timer, SkipCampaign, HandleHeartbeat,
              Driver, Kill, Revive, ReviveForNewSet, boundVars
<1>2. ASSUME NEW n \in Node, Election(n) PROVE campaigns' = campaigns
  BY <1>2 DEF Election, HandlePrepare, RejectPrepare, HandlePromise,
              BecomeLeader, HandleNewView, boundVars
<1>3. ASSUME NEW n \in Node, Replication(n) PROVE campaigns' = campaigns
  BY <1>3 DEF Replication, HandlePropose, StepDownOnPropose, HandleAccept,
              CommitEntry, HandleCommit, boundVars
<1>4. ASSUME NEW m \in msgs, Drop(m) PROVE campaigns' = campaigns
  BY <1>4 DEF Drop, boundVars
<1>5. CASE UNCHANGED vars
  BY <1>5 DEF vars, boundVars
<1> QED BY <1>1, <1>2, <1>3, <1>4, <1>5 DEF Next

\* A step that changes nothing keeps the invariant.
LEMMA StutterStable == StableLeader /\ UNCHANGED vars => StableLeader'
BY DEF StableLeader, SoleCandidate, BeforeCampaign, BeforeElection, OneLog,
       OneLogInFlight, FreshSeqnums, PartOfLog, Numbered, vars, electionVars,
       timerVars, logVars, proposalVars, executeVars, boundVars

\* Every step keeps the invariant, by the lemmas on the single actions.
LEMMA StepStable ==
  ASSUME TypeOK, TypeOK', StableLeaderInv, [Next]_vars
  PROVE  StableLeaderInv'
<1> SUFFICES ASSUME campaigns' <= 1 PROVE StableLeader'
  BY DEF StableLeaderInv
<1>1. StableLeader
  <2>1. campaigns' = campaigns \/ campaigns' = campaigns + 1
    BY CampaignsGrow DEF Campaign
  <2>2. campaigns \in Nat
    BY ConstantsAssumption DEF TypeOK, BoundTypeOK
  <2>3. campaigns <= 1
    BY <2>1, <2>2
  <2> QED BY <2>3 DEF StableLeaderInv
<1>2. CASE UNCHANGED vars
  BY <1>1, <1>2, StutterStable
<1>3. ASSUME NEW n \in Node, Client(n) PROVE StableLeader'
  BY <1>1, <1>3, StableClient, StableProcessClientRequest DEF Client
<1>4. ASSUME NEW n \in Node, Timer(n) PROVE StableLeader'
  BY <1>1, <1>4, StableCampaign, StableSkipCampaign DEF Timer
<1>5. ASSUME NEW n \in Node, Election(n) PROVE StableLeader'
  BY <1>1, <1>5, StablePrepare, StablePromise, StableBecomeLeader,
     StableNewView DEF Election
<1>6. ASSUME NEW n \in Node, HandleHeartbeat(n) PROVE StableLeader'
  BY <1>1, <1>6, StableHeartbeat
<1>7. ASSUME NEW n \in Node, Replication(n) PROVE StableLeader'
  BY <1>1, <1>7, StablePropose, StableAccept, StableCommitEntry,
     StableHandleCommit DEF Replication
<1>8. ASSUME NEW n \in Node, Driver(n) PROVE StableLeader'
  BY <1>1, <1>8, StableDriver
<1>9. ASSUME NEW m \in msgs, Drop(m) PROVE StableLeader'
  BY <1>1, <1>9, StableDrop
<1> QED BY <1>2, <1>3, <1>4, <1>5, <1>6, <1>7, <1>8, <1>9 DEF Next

\* Tables that hold part of one log agree.
LEMMA StableAgreement == StableLeader => Agreement
BY DEF StableLeader, OneLog, PartOfLog, Agreement

\* Until a second election starts, no two replicas apply different
\* transactions at a sequence number: for clusters of any size, whatever is
\* killed and recovered, and in whatever order messages arrive.
THEOREM AgreementInFirstView == Spec => [](campaigns <= 1 => Agreement)
<1>1. Init => TypeOK /\ StableLeaderInv
  BY InitType, InitStable DEF StableLeaderInv
<1>2. TypeOK /\ StableLeaderInv /\ [Next]_vars => (TypeOK /\ StableLeaderInv)'
  BY StepType, StepStable
<1>3. StableLeaderInv => (campaigns <= 1 => Agreement)
  BY StableAgreement DEF StableLeaderInv
<1> QED BY <1>1, <1>2, <1>3, PTL DEF Spec

-----------------------------------------------------------------------------
\* Beyond agreement.

\* The first leader has a client's request at every sequence number it has
\* assigned.
NumberedAreRequests ==
  \A s \in Seqnum : s <= last_seqnum[InitialLeader] => Numbered(s) \in Request

\* Its dedup set holds the requests of its log, each of which is there once.
ClaimsMatchLog ==
  /\ \A r \in pending_or_completed_ts[InitialLeader] :
       \E s \in Seqnum : Numbered(s) = r
  /\ \A s \in Seqnum : Numbered(s) # None =>
       Numbered(s) \in pending_or_completed_ts[InitialLeader]
  /\ \A s, t \in Seqnum : Numbered(s) # None /\ Numbered(s) = Numbered(t)
                            => s = t

\* An acknowledgement, in flight or counted, is of an entry in the sender's
\* log.
AcksAreLogged ==
  /\ \A m \in msgs : m.type = "Ack" => accept_log[m.from][m.seq] # NoEntry
  /\ \A n \in Node : \A ack \in accepted_count[n] :
       accept_log[ack[3]][ack[1]] # NoEntry

\* The nodes that have accepted an entry at a sequence number, and whether
\* they are a quorum.
Acceptors(s) == {q \in Node : accept_log[q][s] # NoEntry}
Chosen(s) == Cardinality(Acceptors(s)) >= F + 1

\* What is committed or applied anywhere has been accepted by a quorum.
CommitsAreChosen ==
  /\ \A m \in msgs : m.type = "Commit" => Chosen(m.seq)
  /\ \A n \in Node, s \in Seqnum :
       /\ entries_to_commit[n][s] # None => Chosen(s)
       /\ applied[n][s] # None => Chosen(s)

\* Everybody who knows a leader knows the first one, and a backup never takes
\* itself for the leader.
LeaderIsKnown ==
  /\ \A n \in Node : leader_id[n] \in {-1, InitialLeader}
  /\ leader_id[InitialLeader] = InitialLeader => role[InitialLeader] = "LEADER"
  /\ current_ballot[InitialLeader].node_id = InitialLeader
  /\ \A m \in msgs : m.type \in {"NewView", "Accept"} =>
       m.ballot.node_id = InitialLeader /\ m.to # InitialLeader

FirstView == /\ NumberedAreRequests
             /\ ClaimsMatchLog
             /\ AcksAreLogged
             /\ CommitsAreChosen
             /\ LeaderIsKnown
             /\ NoProcessExits

\* The inductive invariant, with StableLeaderInv.
FirstViewInv == campaigns <= 1 => FirstView

-----------------------------------------------------------------------------
\* Accepted entries are never removed, so a quorum stays a quorum.
LEMMA ChosenGrows ==
  ASSUME NEW s, Chosen(s),
         \A q \in Node : accept_log[q][s] # NoEntry
                           => accept_log'[q][s] # NoEntry
  PROVE  Chosen(s)'
<1>1. Acceptors(s) \subseteq Acceptors(s)' /\ Acceptors(s)' \subseteq Node
  BY DEF Acceptors
<1>2. IsFiniteSet(Acceptors(s)')
  BY <1>1, FS_Subset, ConstantsAssumption
<1>3. Cardinality(Acceptors(s)) <= Cardinality(Acceptors(s)')
  BY <1>1, <1>2, FS_Subset
<1>4. IsFiniteSet(Acceptors(s))
  BY <1>1, <1>2, FS_Subset
<1>5. Cardinality(Acceptors(s)) \in Nat /\ Cardinality(Acceptors(s)') \in Nat
  BY <1>2, <1>4, FS_CardinalityType
<1> QED BY <1>3, <1>5, ConstantsAssumption DEF Chosen

\* Acknowledgements of a quorum, all of logged entries, choose the entry.
LEMMA QuorumChooses ==
  ASSUME TypeOK, NEW count, NEW s \in Seqnum, NEW c,
         \A ack \in count : accept_log[ack[3]][ack[1]] # NoEntry,
         Cardinality(Acks(count, s, c)) = F + 1
  PROVE  Chosen(s)
<1>1. Acks(count, s, c) \subseteq Acceptors(s)
  BY DEF Acks, Acceptors
<1>2. IsFiniteSet(Acceptors(s))
  BY FS_Subset, ConstantsAssumption DEF Acceptors
<1>3. Cardinality(Acks(count, s, c)) <= Cardinality(Acceptors(s))
  BY <1>1, <1>2, FS_Subset
<1> QED BY <1>3 DEF Chosen

\* An entry of any log, table or message is one the first leader has, and the
\* sequence number is one it has assigned.
LEMMA NumberedIsRequest ==
  ASSUME TypeOK, StableLeader, FirstView, NEW s \in Seqnum, Numbered(s) # None
  PROVE  Numbered(s) \in Request /\ s <= last_seqnum[InitialLeader]
<1>1. last_seqnum[InitialLeader] \in Nat /\ s \in Nat
  BY ConstantsAssumption DEF TypeOK, LogTypeOK, Seqnum
<1>2. ~ (s > last_seqnum[InitialLeader])
  BY DEF StableLeader, FreshSeqnums, Numbered, NoEntry
<1> QED BY <1>1, <1>2 DEF FirstView, NumberedAreRequests

\* A log has an entry exactly where its request is not None, and where any
\* replica has one the first leader has the same request.
LEMMA LoggedIsNumbered ==
  ASSUME TypeOK, StableLeader, NEW n \in Node, NEW s \in Seqnum
  PROVE  /\ accept_log[n][s] = NoEntry <=> accept_log[n][s].req = None
         /\ accept_log[n][s] # NoEntry =>
              accept_log[n][s].req = Numbered(s) /\ Numbered(s) # None
<1>1. accept_log[n][s] \in Entry
  BY DEF TypeOK, LogTypeOK, Log
<1>2. accept_log[n][s] = NoEntry <=> accept_log[n][s].req = None
  BY <1>1, ConstantsAssumption DEF Entry, NoEntry, Command
<1> QED BY <1>2 DEF StableLeader, OneLog, PartOfLog

-----------------------------------------------------------------------------
\* Steps that log, claim, commit, apply and answer nothing.
LEMMA QuietView ==
  ASSUME TypeOK, TypeOK', FirstView,
         UNCHANGED <<accept_log, last_seqnum, pending_or_completed_ts, applied>>,
         \A n \in Node :
           /\ process'[n] = "exited" => process[n] = "exited"
           /\ \A ack \in accepted_count'[n] :
                \/ ack \in accepted_count[n]
                \/ accept_log[ack[3]][ack[1]] # NoEntry
           /\ \A s \in Seqnum :
                \/ entries_to_commit'[n][s] = entries_to_commit[n][s]
                \/ entries_to_commit'[n][s] = None
           /\ leader_id'[n] \in {leader_id[n], -1, InitialLeader},
         leader_id'[InitialLeader] = InitialLeader
           => role'[InitialLeader] = "LEADER",
         current_ballot'[InitialLeader].node_id = InitialLeader,
         \A m \in msgs' : \/ m \in msgs
                          \/ m.type \in {"Prepare", "Promise"}
                          \/ /\ m.type = "NewView"
                             /\ m.ballot.node_id = InitialLeader
                             /\ m.to # InitialLeader
  PROVE  FirstView'
<1> USE DEF FirstView
<1>1. NumberedAreRequests' /\ ClaimsMatchLog'
  BY DEF NumberedAreRequests, ClaimsMatchLog, Numbered
<1>2. AcksAreLogged'
  BY DEF AcksAreLogged
<1>3. CommitsAreChosen'
  BY DEF CommitsAreChosen, Chosen, Acceptors
<1>4. LeaderIsKnown'
  BY DEF LeaderIsKnown
<1>5. NoProcessExits'
  BY DEF NoProcessExits
<1> QED BY <1>1, <1>2, <1>3, <1>4, <1>5

\* The first request starts a timer; no backup takes itself for the leader, so
\* none aborts on a request it forwards to itself.
LEMMA ViewClient ==
  ASSUME TypeOK, TypeOK', StableLeader, FirstView, NEW n \in Node,
         NEW r \in Request, HandleFirstRequest(n, r) \/ AbortOnOwnForward(n, r)
  PROVE  FirstView'
<1>1. CASE HandleFirstRequest(n, r)
  BY <1>1, QuietView
     DEF HandleFirstRequest, FirstView, LeaderIsKnown, electionVars, logVars,
         proposalVars, executeVars, clientVars
<1>2. ~ AbortOnOwnForward(n, r)
  BY ConstantsAssumption
     DEF AbortOnOwnForward, FirstView, LeaderIsKnown, TypeOK, ElectionTypeOK
<1> QED BY <1>1, <1>2

\* Campaigns send no entries and keep the candidate's id in its ballot.
LEMMA ViewTimer ==
  ASSUME TypeOK, TypeOK', StableLeader, FirstView, NEW n \in Node, Timer(n)
  PROVE  FirstView'
<1>1. /\ UNCHANGED <<process, role, leader_id, logVars, proposalVars,
                     executeVars, clientVars>>
      /\ \A m \in msgs' : m \in msgs \/ m.type \in {"Prepare", "Promise"}
  BY DEF Timer, Campaign, SkipCampaign, SendPrepare, Promise
<1>2. current_ballot'[InitialLeader].node_id = InitialLeader
  BY ConstantsAssumption
     DEF Timer, Campaign, SkipCampaign, FirstView, LeaderIsKnown, TypeOK,
         ElectionTypeOK
<1> QED
  BY <1>1, <1>2, QuietView
     DEF FirstView, LeaderIsKnown, logVars, proposalVars, executeVars,
         clientVars

\* Demotion forgets tables and the leader, and nothing else.
LEMMA DemotionForgets ==
  ASSUME TypeOK, FirstView, NEW n \in Node, DemoteToBackup(n)
  PROVE  /\ \A q \in Node :
              /\ accepted_count'[q] \subseteq accepted_count[q]
              /\ \A s \in Seqnum :
                   \/ entries_to_commit'[q][s] = entries_to_commit[q][s]
                   \/ entries_to_commit'[q][s] = None
              /\ leader_id'[q] \in {leader_id[q], -1}
         /\ leader_id'[InitialLeader] = InitialLeader
              => role'[InitialLeader] = "LEADER"
<1>1. \A q \in Node : /\ accepted_count'[q] \subseteq accepted_count[q]
                      /\ leader_id'[q] = IF q = n THEN -1 ELSE leader_id[q]
                      /\ q # n => role'[q] = role[q]
  BY DEF DemoteToBackup, DropLeadership, TypeOK, ElectionTypeOK,
         ProposalTypeOK
<1>2. \A q \in Node, s \in Seqnum :
        \/ entries_to_commit'[q][s] = entries_to_commit[q][s]
        \/ entries_to_commit'[q][s] = None
  BY DEF DemoteToBackup, DropLeadership, EmptyCommits, TypeOK, ExecuteTypeOK
<1>3. leader_id'[InitialLeader] = InitialLeader
        => role'[InitialLeader] = "LEADER"
  BY <1>1, ConstantsAssumption DEF FirstView, LeaderIsKnown
<1> QED BY <1>1, <1>2, <1>3

\* A Prepare, whatever its answer, and a Promise short of a quorum.
LEMMA ViewPrepare ==
  ASSUME TypeOK, TypeOK', StableLeader, FirstView, NEW n \in Node,
         NEW m \in msgs,
         HandlePrepare(n, m) \/ RejectPrepare(n, m) \/ HandlePromise(n, m)
  PROVE  FirstView'
<1>1. CASE RejectPrepare(n, m) \/ HandlePromise(n, m)
  BY <1>1, QuietView
     DEF RejectPrepare, HandlePromise, FirstView, LeaderIsKnown, logVars,
         proposalVars, executeVars, clientVars
<1>2. CASE HandlePrepare(n, m)
  <2>1. /\ UNCHANGED <<process, current_ballot, logVars, applied, clientVars>>
        /\ \A x \in msgs' : x \in msgs \/ x.type = "Promise"
    BY <1>2 DEF HandlePrepare, Promise
  <2>2. /\ \A q \in Node :
             /\ accepted_count'[q] \subseteq accepted_count[q]
             /\ \A s \in Seqnum :
                  \/ entries_to_commit'[q][s] = entries_to_commit[q][s]
                  \/ entries_to_commit'[q][s] = None
             /\ leader_id'[q] \in {leader_id[q], -1}
        /\ leader_id'[InitialLeader] = InitialLeader
             => role'[InitialLeader] = "LEADER"
    <3>1. CASE DemoteToBackup(n)
      BY <3>1, DemotionForgets
    <3>2. CASE UNCHANGED <<role, leader_id, proposalVars, entries_to_commit>>
      BY <3>2 DEF proposalVars, FirstView, LeaderIsKnown
    <3> QED BY <1>2, <3>1, <3>2 DEF HandlePrepare
  <2> QED
    BY <2>1, <2>2, QuietView DEF FirstView, LeaderIsKnown, logVars, clientVars
<1> QED BY <1>1, <1>2

\* A heartbeat restarts a timer.
LEMMA ViewHeartbeat ==
  ASSUME TypeOK, TypeOK', FirstView, NEW n \in Node, HandleHeartbeat(n)
  PROVE  FirstView'
BY QuietView
   DEF HandleHeartbeat, FirstView, LeaderIsKnown, electionVars, logVars,
       proposalVars, executeVars, clientVars

\* A lost message acknowledges and commits nothing.
LEMMA ViewDrop ==
  ASSUME TypeOK, TypeOK', FirstView, NEW m \in msgs, Drop(m)
  PROVE  FirstView'
BY QuietView
   DEF Drop, FirstView, LeaderIsKnown, electionVars, logVars, proposalVars,
       executeVars, clientVars

\* Kills and recoveries keep the logs and the database.
LEMMA ViewDriver ==
  ASSUME TypeOK, TypeOK', FirstView, NEW n \in Node, Driver(n)
  PROVE  FirstView'
<1>1. /\ UNCHANGED <<current_ballot, logVars, applied, clientVars, msgs>>
      /\ \A q \in Node : process'[q] = "exited" => process[q] = "exited"
  BY DEF Driver, Kill, Revive, ReviveForNewSet, electionVars, executeVars,
         TypeOK
<1>2. /\ \A q \in Node :
           /\ accepted_count'[q] \subseteq accepted_count[q]
           /\ \A s \in Seqnum :
                \/ entries_to_commit'[q][s] = entries_to_commit[q][s]
                \/ entries_to_commit'[q][s] = None
           /\ leader_id'[q] \in {leader_id[q], -1}
      /\ leader_id'[InitialLeader] = InitialLeader
           => role'[InitialLeader] = "LEADER"
  <2>1. CASE DemoteToBackup(n)
    BY <2>1, DemotionForgets
  <2>2. CASE UNCHANGED <<role, leader_id, proposalVars, entries_to_commit>>
    BY <2>2 DEF proposalVars, FirstView, LeaderIsKnown
  <2> QED BY <2>1, <2>2 DEF Driver, Kill, Revive, ReviveForNewSet,
                            electionVars, executeVars
<1> QED
  BY <1>1, <1>2, QuietView DEF FirstView, LeaderIsKnown, logVars, clientVars

\* Counting an acknowledgement counts a logged entry.
LEMMA ViewAccept ==
  ASSUME TypeOK, TypeOK', FirstView, NEW n \in Node, NEW m \in msgs,
         HandleAccept(n, m)
  PROVE  FirstView'
<1>1. m.type = "Ack" /\ accept_log[m.from][m.seq] # NoEntry
  BY DEF HandleAccept, Received, FirstView, AcksAreLogged
<1>2. \A q \in Node : \A ack \in accepted_count'[q] :
        ack \in accepted_count[q] \/ ack = <<m.seq, m.counter, m.from>>
  BY DEF HandleAccept, TypeOK, ProposalTypeOK
<1>3. \A q \in Node : \A ack \in accepted_count'[q] :
        \/ ack \in accepted_count[q]
        \/ accept_log[ack[3]][ack[1]] # NoEntry
  BY <1>1, <1>2
<1> QED
  BY <1>3, QuietView
     DEF HandleAccept, FirstView, LeaderIsKnown, electionVars, logVars,
         executeVars, clientVars

\* The first leader is elected on empty logs: it inherits neither entries nor
\* claims, and counts no acknowledgements.
LEMMA ViewBecomeLeader ==
  ASSUME TypeOK, TypeOK', StableLeader, FirstView, NEW n \in Node,
         NEW m \in msgs, BecomeLeader(n, m)
  PROVE  FirstView'
<1> DEFINE b    == current_ballot[n]
           logs == [received_promise_logs[n] EXCEPT ![m.from] = m.log]
<1>1. n = InitialLeader /\ waiting_for_promises[n]
  BY LeaderIsFirst DEF BecomeLeader, Electing
<1>2. /\ accept_log[n] = EmptyLog
      /\ m.log = EmptyLog
      /\ m.from \in Node
  BY <1>1, MessageFields
     DEF BecomeLeader, Received, StableLeader, BeforeElection, TypeOK,
         PromiseMsg
<1>3. logs \in [Node -> Log] /\ \A q \in Node : logs[q] = EmptyLog
  BY <1>1, <1>2, EmptyType
     DEF StableLeader, BeforeElection, TypeOK, ElectionTypeOK
<1>4. PICK merged \in MergeAcceptLogsFromPromises(accept_log[n], logs),
           last \in 0 .. MaxSeq :
        LET log == FillMissingNoOps(merged, last, b) IN
        /\ IsLastSeqnum(merged, last)
        /\ accept_log' = [accept_log EXCEPT ![n] = log]
        /\ last_seqnum' = [last_seqnum EXCEPT ![n] = last]
        /\ pending_or_completed_ts' =
             [pending_or_completed_ts EXCEPT ![n] =
                @ \cup InheritedClaims(merged)]
        /\ accepted_count' =
             [accepted_count EXCEPT ![n] =
                @ \cup {<<s, b.counter, n>> : s \in 1 .. last}]
        /\ msgs' = (msgs \ {m}) \cup SendNewView(n, b, log)
  BY DEF BecomeLeader
<1>5. b.node_id = InitialLeader
  BY <1>1 DEF FirstView, LeaderIsKnown
<1> HIDE DEF logs, b
<1>6. merged = EmptyLog
  BY <1>2, <1>3, MergeEmptyLogs
<1>7. last = 0 /\ FillMissingNoOps(merged, last, b) = EmptyLog
  BY <1>4, <1>6, FillEmptyLog
<1>8. UNCHANGED accept_log
  BY <1>2, <1>4, <1>7 DEF TypeOK, LogTypeOK
<1>9. InheritedClaims(merged) = {}
  BY <1>6, ConstantsAssumption DEF InheritedClaims, EmptyLog, NoEntry
<1>10. UNCHANGED <<pending_or_completed_ts, accepted_count>>
  <2>1. UNCHANGED pending_or_completed_ts
    BY <1>4, <1>9 DEF TypeOK, ClientTypeOK
  <2>2. {<<s, b.counter, n>> : s \in 1 .. last} = {}
    BY <1>7
  <2>3. UNCHANGED accepted_count
    BY <1>4, <2>2 DEF TypeOK, ProposalTypeOK
  <2> QED BY <2>1, <2>3
<1>11. \A x \in msgs' : \/ x \in msgs
                        \/ /\ x.type = "NewView"
                           /\ x.ballot.node_id = InitialLeader
                           /\ x.to # InitialLeader
  BY <1>1, <1>4, <1>5 DEF SendNewView, Peers
<1>12. /\ UNCHANGED <<process, current_ballot, executeVars>>
       /\ leader_id' = [leader_id EXCEPT ![n] = n]
       /\ role' = [role EXCEPT ![n] = "LEADER"]
  BY DEF BecomeLeader
<1>13. UNCHANGED last_seqnum
  <2>1. \A s \in Seqnum : Numbered(s) \notin Request
    BY <1>1, <1>2, ConstantsAssumption DEF Numbered, EmptyLog, NoEntry
  <2>2. last_seqnum[n] \in 0 .. MaxSeq
    BY DEF TypeOK, LogTypeOK
  <2>3. last_seqnum[n] = 0
    BY <1>1, <2>1, <2>2, ConstantsAssumption
       DEF FirstView, NumberedAreRequests, Seqnum
  <2> QED BY <1>4, <1>7, <2>3 DEF TypeOK, LogTypeOK
<1> QED
  BY <1>1, <1>8, <1>10, <1>11, <1>12, <1>13, QuietView
     DEF FirstView, LeaderIsKnown, executeVars, TypeOK, ElectionTypeOK

\* The first leader's NEW-VIEW has no entries and goes to backups, which adopt
\* it and acknowledge nothing.
LEMMA ViewNewView ==
  ASSUME TypeOK, TypeOK', StableLeader, FirstView, NEW n \in Node,
         NEW m \in msgs, HandleNewView(n, m)
  PROVE  FirstView'
<1>1. /\ m.type = "NewView" /\ m.to = n /\ m.log = EmptyLog
      /\ m.ballot.node_id = InitialLeader /\ n # InitialLeader
  BY DEF HandleNewView, Received, StableLeader, OneLogInFlight, FirstView,
         LeaderIsKnown
<1>2. UNCHANGED accept_log
  BY <1>1 DEF HandleNewView, EmptyLog, TypeOK, LogTypeOK, Log
<1>3. msgs' \subseteq msgs
  BY <1>1 DEF HandleNewView, EmptyLog
<1>4. UNCHANGED <<role, proposalVars, entries_to_commit>>
  BY <1>1, LeaderIsFirst DEF HandleNewView
<1>5. /\ leader_id' = [leader_id EXCEPT ![n] = InitialLeader]
      /\ current_ballot' = [current_ballot EXCEPT ![n] = m.ballot]
  BY <1>1 DEF HandleNewView, SetNewLeader
<1>6. UNCHANGED <<process, last_seqnum, applied, clientVars>>
  BY DEF HandleNewView
<1> QED
  BY <1>1, <1>2, <1>3, <1>4, <1>5, <1>6, QuietView, ConstantsAssumption
     DEF FirstView, LeaderIsKnown, proposalVars, clientVars, TypeOK,
         ElectionTypeOK

\* An entry that enters a log acknowledges and commits nothing yet.
LEMMA LogsGrow ==
  ASSUME TypeOK, FirstView, UNCHANGED <<entries_to_commit, applied>>,
         \A q \in Node, s \in Seqnum :
           accept_log[q][s] # NoEntry => accept_log'[q][s] # NoEntry,
         \A m \in msgs' :
           /\ m.type = "Ack" => \/ m \in msgs
                                \/ accept_log'[m.from][m.seq] # NoEntry
           /\ m.type = "Commit" => m \in msgs,
         \A q \in Node : \A ack \in accepted_count'[q] :
           \/ ack \in accepted_count[q]
           \/ accept_log'[ack[3]][ack[1]] # NoEntry
  PROVE  AcksAreLogged' /\ CommitsAreChosen'
<1>1. \A m \in msgs :
        /\ m.type = "Ack" => m.from \in Node /\ m.seq \in Seqnum
        /\ m.type = "Commit" => m.seq \in Seqnum
  BY MessageFields DEF TypeOK, AckMsg, CommitMsg
<1>2. \A q \in Node : \A ack \in accepted_count[q] :
        ack[3] \in Node /\ ack[1] \in Seqnum
  BY DEF TypeOK, ProposalTypeOK
<1>3. AcksAreLogged'
  BY <1>1, <1>2 DEF FirstView, AcksAreLogged
<1>4. \A s \in Seqnum : Chosen(s) => Chosen(s)'
  BY ChosenGrows
<1>5. \A m \in msgs' : m.type = "Commit" => Chosen(m.seq)'
  BY <1>1, <1>4 DEF FirstView, CommitsAreChosen
<1>6. \A q \in Node, s \in Seqnum :
        /\ entries_to_commit'[q][s] # None => Chosen(s)'
        /\ applied'[q][s] # None => Chosen(s)'
  BY <1>4 DEF FirstView, CommitsAreChosen
<1>7. CommitsAreChosen'
  BY <1>5, <1>6 DEF CommitsAreChosen, Chosen, Acceptors
<1> QED BY <1>3, <1>7

\* A request that no entry of the first leader's log is about takes the next
\* sequence number.
LEMMA ViewProcessClientRequest ==
  ASSUME TypeOK, TypeOK', StableLeader, FirstView, NEW n \in Node,
         NEW r \in Request, ProcessClientRequest(n, r)
  PROVE  FirstView'
<1> DEFINE seq == last_seqnum[n] + 1
           b   == current_ballot[n]
           e   == [ballot |-> b, req |-> r]
<1>1. n = InitialLeader
  BY LeaderIsFirst DEF ProcessClientRequest
<1>2. /\ last_seqnum' = [last_seqnum EXCEPT ![n] = seq]
      /\ accept_log' = [accept_log EXCEPT ![n][seq] = e]
      /\ accepted_count' =
           [accepted_count EXCEPT ![n] = @ \cup {<<seq, b.counter, n>>}]
      /\ msgs' = msgs \cup
           {[type |-> "Accept", from |-> n, to |-> q, ballot |-> b,
             seq |-> seq, req |-> r] : q \in Peers(n)}
      /\ pending_or_completed_ts' =
           [pending_or_completed_ts EXCEPT ![n] = @ \cup {r}]
      /\ r \notin pending_or_completed_ts[n]
      /\ UNCHANGED <<process, role, leader_id, current_ballot,
                     entries_to_commit, applied>>
  BY DEF ProcessClientRequest, Admissible, electionVars, executeVars
<1>3. seq \in Seqnum /\ last_seqnum[n] \in Nat /\ seq = last_seqnum[n] + 1
  BY ConstantsAssumption DEF ProcessClientRequest, TypeOK, LogTypeOK, Seqnum
<1>4. e.req = r /\ e # NoEntry /\ r # None
  BY ConstantsAssumption DEF NoEntry
<1>5. b.node_id = InitialLeader
  BY <1>1 DEF FirstView, LeaderIsKnown
<1>6. Numbered(seq) = None
  BY <1>1, <1>3 DEF StableLeader, FreshSeqnums, Numbered, NoEntry
<1> HIDE DEF seq, b, e
<1>7. \A q \in Node, s \in Seqnum :
        accept_log'[q][s] = IF q = n /\ s = seq THEN e ELSE accept_log[q][s]
  BY <1>2, <1>3 DEF TypeOK, LogTypeOK, Log
<1>8. \A s \in Seqnum : Numbered(s)' = IF s = seq THEN r ELSE Numbered(s)
  BY <1>1, <1>4, <1>7 DEF Numbered
<1>9. pending_or_completed_ts'[n] = pending_or_completed_ts[n] \cup {r}
  BY <1>2 DEF TypeOK, ClientTypeOK
<1>10. NumberedAreRequests'
  <2> SUFFICES ASSUME NEW s \in Seqnum, s <= seq
               PROVE  Numbered(s)' \in Request
    BY <1>1, <1>2 DEF NumberedAreRequests, TypeOK, LogTypeOK
  <2>1. s # seq => s <= last_seqnum[n]
    BY <1>3 DEF Seqnum
  <2> QED BY <1>1, <1>8, <2>1 DEF FirstView, NumberedAreRequests
<1>11. ClaimsMatchLog'
  <2>1. ASSUME NEW c \in pending_or_completed_ts'[n]
        PROVE  \E s \in Seqnum : Numbered(s)' = c
    <3>1. CASE c = r
      BY <1>3, <1>8, <3>1
    <3>2. CASE c \in pending_or_completed_ts[n]
      <4>1. PICK s \in Seqnum : Numbered(s) = c
        BY <1>1, <3>2 DEF FirstView, ClaimsMatchLog
      <4>2. c # None
        BY <3>2, ConstantsAssumption DEF TypeOK, ClientTypeOK
      <4> QED BY <1>6, <1>8, <4>1, <4>2
    <3> QED BY <1>9, <2>1, <3>1, <3>2
  <2>2. ASSUME NEW s \in Seqnum, Numbered(s)' # None
        PROVE  Numbered(s)' \in pending_or_completed_ts'[n]
    BY <1>1, <1>8, <1>9, <2>2 DEF FirstView, ClaimsMatchLog
  <2>3. \A s \in Seqnum : Numbered(s) # r
    BY <1>1, <1>2, <1>4 DEF FirstView, ClaimsMatchLog
  <2>4. ASSUME NEW s \in Seqnum, NEW t \in Seqnum, Numbered(s)' # None,
               Numbered(s)' = Numbered(t)'
        PROVE  s = t
    BY <1>8, <2>3, <2>4 DEF FirstView, ClaimsMatchLog
  <2> QED BY <1>1, <2>1, <2>2, <2>4 DEF ClaimsMatchLog
<1>12. \A q \in Node, s \in Seqnum :
         accept_log[q][s] # NoEntry => accept_log'[q][s] # NoEntry
  BY <1>4, <1>7
<1>13. AcksAreLogged' /\ CommitsAreChosen'
  <2>1. \A q \in Node : \A ack \in accepted_count'[q] :
          ack \in accepted_count[q] \/ ack = <<seq, b.counter, n>>
    BY <1>2 DEF TypeOK, ProposalTypeOK
  <2>2. \A q \in Node : \A ack \in accepted_count'[q] :
          \/ ack \in accepted_count[q]
          \/ accept_log'[ack[3]][ack[1]] # NoEntry
    BY <1>3, <1>4, <1>7, <2>1
  <2>3. \A m \in msgs' : m \in msgs \/ m.type = "Accept"
    BY <1>2
  <2> QED BY <1>2, <1>12, <2>2, <2>3, LogsGrow
<1>14. LeaderIsKnown'
  BY <1>1, <1>2, <1>5 DEF FirstView, LeaderIsKnown, Peers
<1>15. NoProcessExits'
  BY <1>2 DEF FirstView, NoProcessExits
<1> QED BY <1>10, <1>11, <1>13, <1>14, <1>15 DEF FirstView

\* A backup acknowledges an Accept of the first leader once it has the entry;
\* the first leader itself receives none.
LEMMA ViewPropose ==
  ASSUME TypeOK, TypeOK', StableLeader, FirstView, NEW n \in Node,
         NEW m \in msgs, HandlePropose(n, m) \/ StepDownOnPropose(n, m)
  PROVE  FirstView'
<1> DEFINE e == [ballot |-> m.ballot, req |-> m.req]
<1>1. m \in AcceptMsg /\ m.type = "Accept" /\ m.to = n
  BY MessageFields DEF HandlePropose, StepDownOnPropose, Received, TypeOK
<1>2. /\ m.seq \in Seqnum /\ m.req \in Command /\ e # NoEntry
      /\ m.ballot.node_id = InitialLeader /\ n # InitialLeader
  BY <1>1, ConstantsAssumption
     DEF AcceptMsg, Command, NoEntry, FirstView, LeaderIsKnown
<1>3. ~ StepDownOnPropose(n, m)
  BY <1>2, LeaderIsFirst DEF StepDownOnPropose, StepsDown
<1>4. HandlePropose(n, m)
  BY <1>3
<1>5. /\ accept_log' = [accept_log EXCEPT ![n][m.seq] =
                          IF @ = NoEntry THEN e ELSE @]
      /\ msgs' = (msgs \ {m}) \cup {AcceptAck(n, m)}
      /\ UNCHANGED <<process, role, last_seqnum, accepted_count, executeVars,
                     clientVars>>
  BY <1>4 DEF HandlePropose
<1>6. /\ \A q \in Node : leader_id'[q] \in {leader_id[q], InitialLeader}
      /\ leader_id'[InitialLeader] = leader_id[InitialLeader]
      /\ current_ballot'[InitialLeader] = current_ballot[InitialLeader]
  <2>1. CASE SetNewLeader(n, m.ballot)
    BY <1>2, <2>1, ConstantsAssumption DEF SetNewLeader, TypeOK, ElectionTypeOK
  <2>2. CASE UNCHANGED <<leader_id, current_ballot>>
    BY <2>2
  <2> QED BY <1>4, <2>1, <2>2 DEF HandlePropose
<1> HIDE DEF e
<1>7. \A q \in Node, s \in Seqnum :
        /\ accept_log[q][s] # NoEntry => accept_log'[q][s] = accept_log[q][s]
        /\ q # n => accept_log'[q][s] = accept_log[q][s]
  BY <1>2, <1>5 DEF TypeOK, LogTypeOK, Log
<1>8. accept_log'[n][m.seq] # NoEntry
  BY <1>2, <1>5 DEF TypeOK, LogTypeOK, Log
<1>9. \A s \in Seqnum : Numbered(s)' = Numbered(s)
  BY <1>2, <1>7, ConstantsAssumption DEF Numbered
<1>10. NumberedAreRequests' /\ ClaimsMatchLog'
  <2>1. UNCHANGED <<last_seqnum, pending_or_completed_ts>>
    BY <1>5 DEF clientVars
  <2> QED BY <1>9, <2>1 DEF FirstView, NumberedAreRequests, ClaimsMatchLog
<1>11. AcksAreLogged' /\ CommitsAreChosen'
  <2>1. \A x \in msgs' :
          /\ x.type = "Ack" => \/ x \in msgs
                               \/ accept_log'[x.from][x.seq] # NoEntry
          /\ x.type = "Commit" => x \in msgs
    BY <1>5, <1>8 DEF AcceptAck
  <2> QED BY <1>5, <1>7, <2>1, LogsGrow DEF executeVars
<1>12. LeaderIsKnown'
  BY <1>5, <1>6 DEF FirstView, LeaderIsKnown, AcceptAck
<1>13. NoProcessExits'
  BY <1>5 DEF FirstView, NoProcessExits
<1> QED BY <1>10, <1>11, <1>12, <1>13 DEF FirstView

-----------------------------------------------------------------------------
\* Executing chosen entries of the first leader's log ends no process and
\* applies chosen entries.
LEMMA ViewExecution ==
  ASSUME TypeOK, StableLeader, FirstView, NEW n \in Node,
         NEW commits \in CommitTable,
         \A s \in Seqnum : PartOfLog(commits[s], s),
         \A s \in Seqnum : commits[s] # None => Chosen(s),
         entries_to_commit' = [entries_to_commit EXCEPT ![n] = commits],
         \/ SequentiallyExecuteCommittedEntries(n, commits)
         \/ UNCHANGED <<process, last_executed_seq, applied, balance_locks,
                        pending_entries, pending_client_calls, replies,
                        last_reply_per_client>>,
         UNCHANGED accept_log
  PROVE  /\ \A q \in Node, s \in Seqnum :
              /\ entries_to_commit'[q][s] # None => Chosen(s)'
              /\ applied'[q][s] # None => Chosen(s)'
         /\ NoProcessExits'
<1>1. \A s \in Seqnum : Chosen(s)' = Chosen(s)
  BY DEF Chosen, Acceptors
<1>2. \A q \in Node, s \in Seqnum :
        entries_to_commit'[q][s] # None => Chosen(s)'
  BY <1>1 DEF FirstView, CommitsAreChosen, TypeOK, ExecuteTypeOK
<1>3. CASE UNCHANGED <<process, applied>>
  BY <1>1, <1>2, <1>3 DEF FirstView, CommitsAreChosen, NoProcessExits
<1>4. CASE SequentiallyExecuteCommittedEntries(n, commits)
  <2>1. PICK last \in last_executed_seq[n] .. MaxSeq :
          SequentiallyExecuteCommittedEntries(n, commits)!(last)
    BY <1>4 DEF SequentiallyExecuteCommittedEntries
  <2> DEFINE next == Executable(n, last)
  <2>2. next \subseteq Seqnum /\ last \in 0 .. MaxSeq
    BY <2>1, ExecutableEntries DEF Executable
  <2>3. applied' = [applied EXCEPT ![n] =
                      [s \in Seqnum |-> IF s \in next THEN commits[s]
                                        ELSE applied[n][s]]]
    BY <2>1
  <2>4. process' = process \/ (last < MaxSeq /\ commits[last + 1] = NoOp)
    BY <2>1
  <2> HIDE DEF next
  <2>5. \A q \in Node, s \in Seqnum : applied'[q][s] # None => Chosen(s)'
    BY <1>1, <2>3 DEF FirstView, CommitsAreChosen, TypeOK, ExecuteTypeOK
  <2>6. NoProcessExits'
    <3>1. ASSUME last < MaxSeq PROVE commits[last + 1] # NoOp
      <4>1. last + 1 \in Seqnum
        BY <2>2, <3>1, ConstantsAssumption DEF Seqnum
      <4> DEFINE s == last + 1
      <4>2. PartOfLog(commits[s], s)
        BY <4>1
      <4> HIDE DEF s
      <4>3. commits[s] = None \/ commits[s] \in Request
        BY <4>1, <4>2, NumberedIsRequest DEF PartOfLog, s
      <4> QED BY <4>3, ConstantsAssumption DEF s
    <3> QED BY <2>4, <3>1 DEF FirstView, NoProcessExits
  <2> QED BY <1>2, <2>5, <2>6
<1> QED BY <1>3, <1>4

\* The acknowledgements that make the first leader commit are of a quorum that
\* has the entry.
LEMMA ViewCommitEntry ==
  ASSUME TypeOK, TypeOK', StableLeader, FirstView, NEW n \in Node,
         NEW m \in msgs, CommitEntry(n, m)
  PROVE  FirstView'
<1> DEFINE r == RequestToCommit(n, m.seq)
           commits == [entries_to_commit[n] EXCEPT ![m.seq] =
                         IF @ = None THEN r ELSE @]
           count == accepted_count[n] \cup {<<m.seq, m.counter, m.from>>}
<1>1. /\ m \in AckMsg /\ m.seq \in Seqnum /\ m.type = "Ack"
      /\ accept_log[m.from][m.seq] # NoEntry
  BY MessageFields DEF CommitEntry, Received, TypeOK, AckMsg, FirstView,
                       AcksAreLogged
<1>2. EntryToCommit(n, m.seq) # NoEntry /\ r \in Command
  <2>1. n = InitialLeader /\ Numbered(m.seq) # None
    BY <1>1, LeaderIsFirst DEF CommitEntry, Received, StableLeader,
                               OneLogInFlight
  <2>2. EntryToCommit(n, m.seq) # NoEntry
    BY <2>1 DEF EntryToCommit, Numbered, NoEntry
  <2> QED
    BY <1>1, <2>2 DEF RequestToCommit, EntryToCommit, TypeOK, LogTypeOK,
                      ProposalTypeOK, Log, Entry
<1>3. r = Numbered(m.seq)
  BY <1>1, <1>2, ConstantsAssumption
     DEF RequestToCommit, EntryToCommit, StableLeader, OneLog, PartOfLog,
         Command
<1>4. commits \in CommitTable
  BY <1>1, <1>2 DEF TypeOK, ExecuteTypeOK, CommitTable
<1>5. \A s \in Seqnum : PartOfLog(commits[s], s)
  BY <1>1, <1>3 DEF StableLeader, OneLog, PartOfLog, TypeOK, ExecuteTypeOK,
                    CommitTable
<1>6. /\ entries_to_commit' = [entries_to_commit EXCEPT ![n] = commits]
      /\ \/ SequentiallyExecuteCommittedEntries(n, commits)
         \/ UNCHANGED <<process, last_executed_seq, applied, balance_locks,
                        pending_entries, pending_client_calls, replies,
                        last_reply_per_client>>
      /\ UNCHANGED <<accept_log, last_seqnum, role, leader_id, current_ballot,
                     pending_or_completed_ts>>
      /\ accepted_count' = [accepted_count EXCEPT ![n] = count]
      /\ Cardinality(Acks(count, m.seq, m.counter)) = F + 1
      /\ \A x \in msgs' : \/ x \in msgs
                          \/ x.type = "Commit" /\ x.seq = m.seq
  BY DEF CommitEntry, Commits, BroadcastCommit, electionVars, logVars
<1>7. \A ack \in count : accept_log[ack[3]][ack[1]] # NoEntry
  BY <1>1 DEF FirstView, AcksAreLogged
<1>8. Chosen(m.seq)
  <2> HIDE DEF count
  <2> QED BY <1>1, <1>6, <1>7, QuorumChooses
<1>9. \A s \in Seqnum : commits[s] # None => Chosen(s)
  BY <1>1, <1>8 DEF FirstView, CommitsAreChosen, TypeOK, ExecuteTypeOK,
                    CommitTable
<1> HIDE DEF commits, count, r
<1>10. /\ \A q \in Node, s \in Seqnum :
            /\ entries_to_commit'[q][s] # None => Chosen(s)'
            /\ applied'[q][s] # None => Chosen(s)'
       /\ NoProcessExits'
  BY <1>4, <1>5, <1>6, <1>9, ViewExecution
<1>11. \A s : Chosen(s)' = Chosen(s)
  BY <1>6 DEF Chosen, Acceptors
<1>12. \A x \in msgs' : x.type = "Commit" => Chosen(x.seq)'
  BY <1>6, <1>8, <1>11 DEF FirstView, CommitsAreChosen
<1>13. CommitsAreChosen'
  BY <1>10, <1>12 DEF CommitsAreChosen, Chosen, Acceptors
<1>14. NumberedAreRequests' /\ ClaimsMatchLog'
  BY <1>6 DEF FirstView, NumberedAreRequests, ClaimsMatchLog, Numbered
<1>15. AcksAreLogged'
  BY <1>6, <1>7 DEF FirstView, AcksAreLogged, TypeOK, ProposalTypeOK
<1>16. LeaderIsKnown'
  BY <1>6 DEF FirstView, LeaderIsKnown
<1> QED BY <1>10, <1>13, <1>14, <1>15, <1>16 DEF FirstView

\* A Commit is of an entry that a quorum has.
LEMMA ViewHandleCommit ==
  ASSUME TypeOK, TypeOK', StableLeader, FirstView, NEW n \in Node,
         NEW m \in msgs, HandleCommit(n, m)
  PROVE  FirstView'
<1> DEFINE commits == [entries_to_commit[n] EXCEPT ![m.seq] =
                         IF @ = None THEN m.req ELSE @]
<1>1. m \in CommitMsg /\ m.type = "Commit"
  BY MessageFields DEF HandleCommit, Received, TypeOK
<1>2. /\ m.seq \in Seqnum /\ m.req \in Command /\ m.req = Numbered(m.seq)
      /\ Chosen(m.seq)
  BY <1>1 DEF CommitMsg, StableLeader, OneLogInFlight, FirstView,
              CommitsAreChosen
<1>3. commits \in CommitTable
  BY <1>2 DEF TypeOK, ExecuteTypeOK, CommitTable
<1>4. \A s \in Seqnum : PartOfLog(commits[s], s)
  BY <1>2 DEF StableLeader, OneLog, PartOfLog, TypeOK, ExecuteTypeOK,
              CommitTable
<1>5. \A s \in Seqnum : commits[s] # None => Chosen(s)
  BY <1>2 DEF FirstView, CommitsAreChosen, TypeOK, ExecuteTypeOK, CommitTable
<1>6. /\ entries_to_commit' = [entries_to_commit EXCEPT ![n] = commits]
      /\ \/ SequentiallyExecuteCommittedEntries(n, commits)
         \/ UNCHANGED <<process, last_executed_seq, applied, balance_locks,
                        pending_entries, pending_client_calls, replies,
                        last_reply_per_client>>
      /\ UNCHANGED <<accept_log, last_seqnum, role, leader_id, current_ballot,
                     pending_or_completed_ts, accepted_count>>
      /\ msgs' \subseteq msgs
  BY DEF HandleCommit, electionVars, logVars
<1> HIDE DEF commits
<1>7. /\ \A q \in Node, s \in Seqnum :
           /\ entries_to_commit'[q][s] # None => Chosen(s)'
           /\ applied'[q][s] # None => Chosen(s)'
      /\ NoProcessExits'
  BY <1>3, <1>4, <1>5, <1>6, ViewExecution
<1>8. \A s : Chosen(s)' = Chosen(s)
  BY <1>6 DEF Chosen, Acceptors
<1>9. CommitsAreChosen'
  BY <1>6, <1>7, <1>8 DEF FirstView, CommitsAreChosen
<1>10. NumberedAreRequests' /\ ClaimsMatchLog'
  BY <1>6 DEF FirstView, NumberedAreRequests, ClaimsMatchLog, Numbered
<1>11. AcksAreLogged' /\ LeaderIsKnown'
  BY <1>6 DEF FirstView, AcksAreLogged, LeaderIsKnown
<1> QED BY <1>7, <1>9, <1>10, <1>11 DEF FirstView

-----------------------------------------------------------------------------
\* The invariant holds of the constructed nodes.
LEMMA InitView == Init => FirstView
<1> SUFFICES ASSUME Init PROVE FirstView
  OBVIOUS
<1>1. \A s \in Seqnum : Numbered(s) = None
  BY ConstantsAssumption DEF Init, Numbered, EmptyLog, NoEntry
<1>2. NumberedAreRequests /\ ClaimsMatchLog
  BY <1>1, ConstantsAssumption
     DEF Init, NumberedAreRequests, ClaimsMatchLog, Seqnum
<1>3. AcksAreLogged /\ CommitsAreChosen
  BY DEF Init, AcksAreLogged, CommitsAreChosen, EmptyCommits
<1>4. LeaderIsKnown
  BY ConstantsAssumption DEF Init, LeaderIsKnown
<1>5. NoProcessExits
  BY DEF Init, NoProcessExits
<1> QED BY <1>2, <1>3, <1>4, <1>5 DEF FirstView

\* A step that changes nothing keeps the invariant.
LEMMA StutterView == FirstView /\ UNCHANGED vars => FirstView'
BY DEF FirstView, NumberedAreRequests, ClaimsMatchLog, AcksAreLogged,
       CommitsAreChosen, Chosen, Acceptors, LeaderIsKnown, NoProcessExits,
       Numbered, vars, electionVars, logVars, proposalVars,
       executeVars, clientVars

\* Every step keeps the invariant, by the lemmas on the single actions.
LEMMA StepView ==
  ASSUME TypeOK, TypeOK', StableLeaderInv, FirstViewInv, [Next]_vars
  PROVE  FirstViewInv'
<1> SUFFICES ASSUME campaigns' <= 1 PROVE FirstView'
  BY DEF FirstViewInv
<1>1. StableLeader /\ FirstView
  <2>1. campaigns' = campaigns \/ campaigns' = campaigns + 1
    BY CampaignsGrow DEF Campaign
  <2>2. campaigns \in Nat
    BY ConstantsAssumption DEF TypeOK, BoundTypeOK
  <2>3. campaigns <= 1
    BY <2>1, <2>2
  <2> QED BY <2>3 DEF StableLeaderInv, FirstViewInv
<1>2. CASE UNCHANGED vars
  BY <1>1, <1>2, StutterView
<1>3. ASSUME NEW n \in Node, Client(n) PROVE FirstView'
  BY <1>1, <1>3, ViewClient, ViewProcessClientRequest DEF Client
<1>4. ASSUME NEW n \in Node, Timer(n) PROVE FirstView'
  BY <1>1, <1>4, ViewTimer
<1>5. ASSUME NEW n \in Node, Election(n) PROVE FirstView'
  BY <1>1, <1>5, ViewPrepare, ViewBecomeLeader, ViewNewView DEF Election
<1>6. ASSUME NEW n \in Node, HandleHeartbeat(n) PROVE FirstView'
  BY <1>1, <1>6, ViewHeartbeat
<1>7. ASSUME NEW n \in Node, Replication(n) PROVE FirstView'
  BY <1>1, <1>7, ViewPropose, ViewAccept, ViewCommitEntry, ViewHandleCommit
     DEF Replication
<1>8. ASSUME NEW n \in Node, Driver(n) PROVE FirstView'
  BY <1>1, <1>8, ViewDriver
<1>9. ASSUME NEW m \in msgs, Drop(m) PROVE FirstView'
  BY <1>1, <1>9, ViewDrop
<1> QED BY <1>2, <1>3, <1>4, <1>5, <1>6, <1>7, <1>8, <1>9 DEF Next

\* Until a second election starts, every table and message of the cluster
\* holds part of the log of the one node that leads or campaigns.
THEOREM OneLeaderOneLog == Spec => []StableLeaderInv
<1>1. Init => TypeOK /\ StableLeaderInv
  BY InitType, InitStable DEF StableLeaderInv
<1>2. TypeOK /\ StableLeaderInv /\ [Next]_vars => (TypeOK /\ StableLeaderInv)'
  BY StepType, StepStable
<1> QED BY <1>1, <1>2, PTL DEF Spec

\* Until then what is acknowledged is logged, what is committed has a quorum,
\* what is claimed is in the log exactly once, and no process ends.
THEOREM FirstViewIsSound == Spec => []FirstViewInv
<1>1. Init => FirstViewInv
  BY InitView DEF FirstViewInv
<1>2. TypeOK /\ TypeOK' /\ StableLeaderInv /\ FirstViewInv /\ [Next]_vars
        => FirstViewInv'
  BY StepView
<1> QED
  BY <1>1, <1>2, TypeCorrect, OneLeaderOneLog, PTL DEF Spec

\* An applied transaction is the first leader's and is chosen.
LEMMA AppliedIsChosen ==
  ASSUME TypeOK, StableLeader, FirstView, NEW n \in Node, NEW s \in Seqnum,
         applied[n][s] # None
  PROVE  /\ Numbered(s) = applied[n][s]
         /\ Cardinality({q \in Node : accept_log[q][s].req = applied[n][s]})
              >= F + 1
<1>1. Numbered(s) = applied[n][s] /\ Chosen(s)
  BY DEF StableLeader, OneLog, PartOfLog, FirstView, CommitsAreChosen
<1>2. \A q \in Node : accept_log[q][s].req = applied[n][s]
                        <=> accept_log[q][s] # NoEntry
  BY <1>1, LoggedIsNumbered
<1>3. {q \in Node : accept_log[q][s].req = applied[n][s]} = Acceptors(s)
  BY <1>2 DEF Acceptors
<1> QED BY <1>1, <1>3 DEF Chosen

\* Until a second election starts, a transaction the client has a reply to is
\* in the logs of a quorum, whatever is killed and recovered.
THEOREM RepliesAreDurable == Spec => [](campaigns <= 1 => ReplyIsDurable)
<1>1. TypeOK /\ RepliesAreApplied /\ StableLeaderInv /\ FirstViewInv
        => (campaigns <= 1 => ReplyIsDurable)
  <2> SUFFICES ASSUME TypeOK, RepliesAreApplied, StableLeader, FirstView,
                      NEW r \in replies
               PROVE  \E s \in Seqnum :
                        Cardinality({n \in Node : accept_log[n][s].req = r})
                          >= F + 1
    BY DEF StableLeaderInv, FirstViewInv, ReplyIsDurable
  <2>1. PICK n \in Node, s \in Seqnum : applied[n][s] = r
    BY DEF RepliesAreApplied
  <2>2. r # None
    BY ConstantsAssumption DEF TypeOK, ClientTypeOK
  <2> QED BY <2>1, <2>2, AppliedIsChosen
<1> QED
  BY <1>1, TypeCorrect, AnswersAreApplied, OneLeaderOneLog, FirstViewIsSound,
     PTL

\* Until then the leader's log has an entry for every sequence number it has
\* assigned and none beyond.
THEOREM FirstLogHasNoGaps == Spec => [](campaigns <= 1 => LeaderLogHasNoGaps)
<1>1. TypeOK /\ StableLeaderInv /\ FirstViewInv
        => (campaigns <= 1 => LeaderLogHasNoGaps)
  <2> SUFFICES ASSUME TypeOK, StableLeader, FirstView, NEW n \in Node,
                      role[n] = "LEADER", NEW s \in Seqnum
               PROVE  accept_log[n][s] # NoEntry <=> s <= last_seqnum[n]
    BY DEF StableLeaderInv, FirstViewInv, LeaderLogHasNoGaps
  <2>1. n = InitialLeader
    BY LeaderIsFirst
  <2>2. accept_log[n][s] # NoEntry <=> Numbered(s) # None
    BY <2>1, LoggedIsNumbered DEF Numbered
  <2>3. s <= last_seqnum[n] => Numbered(s) # None
    BY <2>1, ConstantsAssumption DEF FirstView, NumberedAreRequests
  <2> QED BY <2>1, <2>2, <2>3, NumberedIsRequest
<1> QED BY <1>1, TypeCorrect, OneLeaderOneLog, FirstViewIsSound, PTL

\* Until then the acknowledgement that completes a quorum names an entry that
\* the leader has: CommitEntry never reads a missing entry.
THEOREM QuorumsNameEntries == Spec => [](campaigns <= 1 => CommitFindsEntry)
<1>1. TypeOK /\ StableLeaderInv /\ FirstViewInv
        => (campaigns <= 1 => CommitFindsEntry)
  <2> SUFFICES ASSUME TypeOK, StableLeader, FirstView, NEW m \in msgs,
                      m.type = "Ack", m.to \in Node, role[m.to] = "LEADER"
               PROVE  EntryToCommit(m.to, m.seq) # NoEntry
    BY DEF StableLeaderInv, FirstViewInv, CommitFindsEntry
  <2>1. m.to = InitialLeader
    BY LeaderIsFirst
  <2>2. m.from \in Node /\ m.seq \in Seqnum
    BY MessageFields DEF TypeOK, AckMsg
  <2>3. accept_log[m.from][m.seq] # NoEntry
    BY DEF FirstView, AcksAreLogged
  <2>4. accept_log[m.to][m.seq] # NoEntry
    BY <2>1, <2>2, <2>3, LoggedIsNumbered DEF Numbered
  <2> QED BY <2>4 DEF EntryToCommit
<1> QED BY <1>1, TypeCorrect, OneLeaderOneLog, FirstViewIsSound, PTL

\* Until then a timestamp in the leader's dedup set is that of an entry of its
\* log: no request is ignored that nobody will run.
THEOREM ClaimsAreLogged == Spec => [](campaigns <= 1 => ClaimIsLogged)
<1>1. TypeOK /\ StableLeaderInv /\ FirstViewInv
        => (campaigns <= 1 => ClaimIsLogged)
  BY LeaderIsFirst
     DEF StableLeaderInv, FirstViewInv, ClaimIsLogged, FirstView,
         ClaimsMatchLog, Numbered
<1> QED BY <1>1, TypeCorrect, OneLeaderOneLog, FirstViewIsSound, PTL

\* Until then no process ends: neither a NO-OP nor a forward to itself reaches
\* a node.
THEOREM NoExitInFirstView == Spec => [](campaigns <= 1 => NoProcessExits)
<1>1. FirstViewInv => (campaigns <= 1 => NoProcessExits)
  BY DEF FirstViewInv, FirstView
<1> QED BY <1>1, FirstViewIsSound, PTL

-----------------------------------------------------------------------------
\* Refinement of ReplicatedLog.

\* Some node is as far as any other.
LEMMA MostAdvancedExists ==
  ASSUME NEW f \in [Node -> 0 .. MaxSeq]
  PROVE  LET m == CHOOSE n \in Node : \A q \in Node : f[q] <= f[n]
         IN m \in Node /\ \A q \in Node : f[q] <= f[m]
<1> DEFINE S == {f[n] : n \in Node}
<1>1. S \in SUBSET (0 .. MaxSeq) /\ S # {}
  BY ConstantsAssumption
<1>2. \E s \in S : \A t \in S : t <= s
  <2> HIDE DEF S
  <2> QED BY <1>1, GreatestSeqnum, ConstantsAssumption
<1>3. \E n \in Node : \A q \in Node : f[q] <= f[n]
  BY <1>2
<1> QED BY <1>3

\* The length of a sequence given as a function.
LEMMA LengthOfPrefix ==
  ASSUME NEW k \in Nat, NEW S, NEW l \in [1 .. k -> S]
  PROVE  l \in Seq(S) /\ Len(l) = k
<1>1. l \in Seq(S)
  BY SeqDef
<1>2. Len(l) \in Nat /\ DOMAIN l = 1 .. Len(l)
  BY <1>1, LenProperties
<1>3. 1 .. k = 1 .. Len(l)
  BY <1>2
<1> QED BY <1>1, <1>2, <1>3

\* The cluster's log is the first leader's up to where the most advanced
\* replica is.
IsFirstLog ==
  /\ MostAdvanced \in Node
  /\ \A q \in Node : last_executed_seq[q] <= last_executed_seq[MostAdvanced]
  /\ Len(ClusterLog) = last_executed_seq[MostAdvanced]
  /\ DOMAIN ClusterLog = 1 .. last_executed_seq[MostAdvanced]
  /\ \A q \in Node, s \in Seqnum :
       s <= last_executed_seq[q] => /\ s \in DOMAIN ClusterLog
                                    /\ applied[q][s] = Numbered(s)
                                    /\ ClusterLog[s] = Numbered(s)
                                    /\ Numbered(s) # None

LEMMA ClusterLogIsFirstLog ==
  TypeOK /\ StableLeader /\ AppliedIsPrefix => IsFirstLog
<1> SUFFICES ASSUME TypeOK, StableLeader, AppliedIsPrefix PROVE IsFirstLog
  OBVIOUS
<1> DEFINE k == last_executed_seq[MostAdvanced]
<1>1. /\ MostAdvanced \in Node
      /\ \A q \in Node : last_executed_seq[q] <= k
  BY MostAdvancedExists DEF MostAdvanced, TypeOK, ExecuteTypeOK
<1>2. \A q \in Node : last_executed_seq[q] \in 0 .. MaxSeq
  BY DEF TypeOK, ExecuteTypeOK
<1>3. k \in 0 .. MaxSeq /\ 1 .. k \subseteq Seqnum
  BY <1>1, <1>2, ConstantsAssumption DEF Seqnum
<1>4. \A q \in Node, s \in Seqnum : s <= last_executed_seq[q] =>
        applied[q][s] = Numbered(s) /\ Numbered(s) # None
  BY DEF AppliedIsPrefix, StableLeader, OneLog, PartOfLog
<1>5. ClusterLog = [s \in 1 .. k |-> applied[MostAdvanced][s]]
  BY DEF ClusterLog
<1> HIDE DEF k
<1>6. ClusterLog \in [1 .. k -> Request \cup {None}]
  BY <1>1, <1>3, <1>5 DEF TypeOK, ExecuteTypeOK
<1>7. Len(ClusterLog) = k /\ DOMAIN ClusterLog = 1 .. k
  BY <1>3, <1>6, LengthOfPrefix
<1>8. ASSUME NEW q \in Node, NEW s \in Seqnum, s <= last_executed_seq[q]
      PROVE  s \in DOMAIN ClusterLog /\ ClusterLog[s] = Numbered(s)
  <2>1. s \in 1 .. k
    BY <1>1, <1>2, <1>3, <1>8 DEF Seqnum
  <2>2. s <= last_executed_seq[MostAdvanced]
    BY <2>1 DEF k
  <2> QED BY <1>1, <1>4, <1>5, <1>7, <2>1, <2>2
<1> QED BY <1>1, <1>4, <1>7, <1>8 DEF IsFirstLog, k

\* Every step in the first view is a step of the replicated log or changes
\* nothing of it.
LEMMA FirstViewStep ==
  ASSUME TypeOK, TypeOK', AppliedIsPrefix, IsFirstLog, IsFirstLog',
         FirstView', [Next]_vars
  PROVE  [Abstract!LogNext]_(Abstract!logVars)
<1>1. CASE UNCHANGED <<applied, last_executed_seq, replies>>
  BY <1>1 DEF Abstract!logVars, ClusterLog, MostAdvanced
<1>2. ASSUME NEW n \in Node, NEW commits \in CommitTable,
             SequentiallyExecuteCommittedEntries(n, commits)
      PROVE  [Abstract!LogNext]_(Abstract!logVars)
  <2>1. PICK k \in last_executed_seq[n] .. MaxSeq :
          SequentiallyExecuteCommittedEntries(n, commits)!(k)
    BY <1>2 DEF SequentiallyExecuteCommittedEntries
  <2> DEFINE next == Executable(n, k)
  <2>2. /\ next \subseteq Seqnum /\ k \in 0 .. MaxSeq
        /\ next = (last_executed_seq[n] + 1) .. k
    BY <2>1, ExecutableEntries DEF Executable
  <2>3. /\ applied' = [applied EXCEPT ![n] =
                         [s \in Seqnum |-> IF s \in next THEN commits[s]
                                           ELSE applied[n][s]]]
        /\ last_executed_seq' = [last_executed_seq EXCEPT ![n] = k]
        /\ \/ replies' = replies
           \/ replies' = replies \cup {commits[s] : s \in next}
    BY <2>1 DEF SendClientReply
  <2> HIDE DEF next
  <2>4. CASE k = last_executed_seq[n]
    <3>1. next = {}
      BY <2>2, <2>4 DEF TypeOK, ExecuteTypeOK
    <3>2. UNCHANGED <<applied, last_executed_seq, replies>>
      BY <2>3, <2>4, <3>1 DEF TypeOK, ExecuteTypeOK
    <3> QED BY <1>1, <3>2
  <2>5. CASE k # last_executed_seq[n]
    <3> DEFINE M == last_executed_seq[MostAdvanced]
               MNext == last_executed_seq'[MostAdvanced']
    <3>1. /\ k > last_executed_seq[n]
          /\ \A q \in Node : last_executed_seq'[q] =
                               IF q = n THEN k ELSE last_executed_seq[q]
          /\ \A q \in Node : last_executed_seq[q] \in Nat
      <4>1. \A q \in Node : last_executed_seq[q] \in Nat
        BY DEF TypeOK, ExecuteTypeOK
      <4>2. k >= last_executed_seq[n] /\ k \in Nat
        BY <2>1, <2>2, <4>1
      <4>3. k > last_executed_seq[n]
        BY <2>5, <4>1, <4>2
      <4>4. \A q \in Node : last_executed_seq'[q] =
                              IF q = n THEN k ELSE last_executed_seq[q]
        BY <2>3 DEF TypeOK, ExecuteTypeOK
      <4> QED BY <4>1, <4>3, <4>4
    <3>2. Len(ClusterLog') = IF k > Len(ClusterLog) THEN k ELSE Len(ClusterLog)
      <4>1. /\ Len(ClusterLog) = M /\ MostAdvanced \in Node
            /\ \A q \in Node : last_executed_seq[q] <= M
        BY DEF IsFirstLog
      <4>2. /\ Len(ClusterLog') = MNext /\ MostAdvanced' \in Node
            /\ \A q \in Node : last_executed_seq'[q] <= MNext
        BY DEF IsFirstLog
      <4>3. k <= MNext /\ last_executed_seq'[MostAdvanced] <= MNext
        BY <3>1, <4>1, <4>2
      <4>4. M <= last_executed_seq'[MostAdvanced]
        BY <3>1, <4>1
      <4>5. MNext = k \/ MNext <= M
        BY <3>1, <4>1, <4>2
      <4>6. M \in Nat /\ MNext \in Nat /\ k \in Nat
            /\ last_executed_seq'[MostAdvanced] \in Nat
        BY <2>2, <3>1, <4>1, <4>2
      <4> HIDE DEF M, MNext
      <4> QED BY <4>1, <4>2, <4>3, <4>4, <4>5, <4>6
    <3>3. \A i \in DOMAIN ClusterLog : ClusterLog'[i] = ClusterLog[i]
      <4> SUFFICES ASSUME NEW i \in DOMAIN ClusterLog
                   PROVE  ClusterLog'[i] = ClusterLog[i]
        OBVIOUS
      <4>1. MostAdvanced \in Node /\ i \in Seqnum /\ i <= M
        BY ConstantsAssumption DEF IsFirstLog, TypeOK, ExecuteTypeOK, Seqnum
      <4>2. /\ ClusterLog[i] = applied[MostAdvanced][i]
            /\ applied[MostAdvanced][i] # None
        BY <4>1 DEF IsFirstLog
      <4>3. applied'[MostAdvanced][i] = applied[MostAdvanced][i]
        BY <1>2, <4>1, <4>2, ExecutionExtendsPrefix DEF KeepsApplied
      <4>4. i <= last_executed_seq'[MostAdvanced]
        BY <2>2, <3>1, <4>1 DEF Seqnum
      <4>5. ClusterLog'[i] = applied'[MostAdvanced][i]
        BY <4>1, <4>4 DEF IsFirstLog
      <4> QED BY <4>2, <4>3, <4>5
    <3>4. \A i, j \in DOMAIN ClusterLog' :
            ClusterLog'[i] = ClusterLog'[j] => i = j
      <4>1. \A i \in DOMAIN ClusterLog' : i \in Seqnum /\ i <= MNext
        BY ConstantsAssumption DEF IsFirstLog, TypeOK, ExecuteTypeOK, Seqnum
      <4>2. \A i \in DOMAIN ClusterLog' :
              ClusterLog'[i] = Numbered(i)' /\ Numbered(i)' # None
        BY <4>1 DEF IsFirstLog
      <4>3. \A i, j \in Seqnum :
              Numbered(i)' # None /\ Numbered(i)' = Numbered(j)' => i = j
        BY DEF FirstView, ClaimsMatchLog
      <4> QED BY <4>1, <4>2, <4>3
    <3>5. replies' \ replies
            \subseteq {ClusterLog'[i] : i \in (last_executed_seq[n] + 1) .. k}
      <4> SUFFICES ASSUME NEW r \in replies' \ replies
                   PROVE  \E i \in next : r = ClusterLog'[i]
        BY <2>2
      <4>1. PICK i \in next : r = commits[i]
        BY <2>3
      <4>2. applied'[n][i] = commits[i] /\ i \in Seqnum
        BY <2>2, <2>3, <4>1 DEF TypeOK, ExecuteTypeOK
      <4>3. i <= last_executed_seq'[n]
        BY <2>2, <3>1, <4>1
      <4>4. ClusterLog'[i] = applied'[n][i]
        BY <4>2, <4>3 DEF IsFirstLog
      <4> QED BY <4>1, <4>2, <4>4
    <3>6. replies' = replies \cup (replies' \ replies)
      BY <2>3
    <3>7. Abstract!Execute(n, k, ClusterLog', replies' \ replies)
      BY <2>3, <3>1, <3>2, <3>3, <3>4, <3>5, <3>6
         DEF Abstract!Execute, Abstract!Distinct
    <3>8. Abstract!LogNext
      BY <3>1, <3>7 DEF Abstract!LogNext
    <3> QED BY <3>8
  <2> QED BY <2>4, <2>5
<1> QED BY <1>1, <1>2, OnlyExecutionApplies

\* Until a second election starts, the cluster is a replicated log: its
\* replicas apply one growing sequence of transactions, in order and without
\* repetition, and clients are answered only for what is in it.
THEOREM FirstViewRefines ==
  Spec /\ [](campaigns <= 1) => RefinesReplicatedLog
<1>1. Init => Abstract!LogInit
  <2> SUFFICES ASSUME Init PROVE Abstract!LogInit
    OBVIOUS
  <2>1. IsFirstLog
    BY InitType, InitStable, InitApplied, ClusterLogIsFirstLog
  <2>2. Len(ClusterLog) = 0 /\ ClusterLog = <<>>
    BY <2>1 DEF IsFirstLog, Init, ClusterLog
  <2> QED BY <2>2 DEF Init, Abstract!LogInit
<1>2. TypeOK /\ AppliedIsPrefix /\ StableLeaderInv /\ campaigns <= 1
        => IsFirstLog
  BY ClusterLogIsFirstLog DEF StableLeaderInv
<1>3. TypeOK /\ TypeOK' /\ AppliedIsPrefix /\ IsFirstLog /\ IsFirstLog'
        /\ FirstViewInv' /\ (campaigns <= 1)' /\ [Next]_vars
        => [Abstract!LogNext]_(Abstract!logVars)
  <2> SUFFICES ASSUME TypeOK, TypeOK', AppliedIsPrefix, IsFirstLog,
                      IsFirstLog', FirstViewInv', (campaigns <= 1)',
                      [Next]_vars
               PROVE  [Abstract!LogNext]_(Abstract!logVars)
    OBVIOUS
  <2>1. FirstView'
    BY DEF FirstViewInv
  <2> QED BY <2>1, FirstViewStep
<1> QED
  BY <1>1, <1>2, <1>3, TypeCorrect, HistoriesHaveNoGaps, OneLeaderOneLog,
     FirstViewIsSound, PTL DEF Spec, RefinesReplicatedLog, Abstract!LogSpec
=============================================================================
