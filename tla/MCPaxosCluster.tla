--------------------------- MODULE MCPaxosCluster ---------------------------
(***************************************************************************)
(* Instances of PaxosCluster for TLC.  Every request has two accounts of   *)
(* its own unless a configuration chooses the transfers that share one.    *)
(* Besides the cold start of PaxosCluster's Init, runs start from three    *)
(* reachable states, so that the bounds are spent on what follows.         *)
(***************************************************************************)
EXTENDS PaxosCluster, Sequences, TLC

ThreeNodes == 1 .. 3

OwnAccount == Request \X {"from", "to"}
OwnFrom == [r \in Request |-> <<r, "from">>]
OwnTo   == [r \in Request |-> <<r, "to">>]

\* Two transfers through a common account: r1 from a to b, r2 from b to c.
SharedAccount == {"a", "b", "c"}
SharedFrom == [r \in Request |-> IF r = "r1" THEN "a" ELSE "b"]
SharedTo   == [r \in Request |-> IF r = "r1" THEN "b" ELSE "c"]

RequestSymmetry == Permutations(Request)

Backups == Node \ {InitialLeader}
First == [counter |-> 1, node_id |-> InitialLeader]
Rival(n) == [counter |-> 2, node_id |-> n]

\* Node 1 was elected with ballot (1,1) and both backups adopted it.  Then it
\* proposed the requests of "sent", and was killed before a backup handled an
\* Accept if "sent" is not empty; the nodes of "candidates" have just started
\* a campaign against it.
AfterFirstElection(sent, candidates) ==
  LET down == sent # <<>>
      reqs == {sent[s] : s \in DOMAIN sent}
      ItsOwn(n, x, others) == IF n = InitialLeader THEN x ELSE others
  IN
  /\ process = [n \in Node |-> ItsOwn(n, IF down THEN "down" ELSE "up", "up")]
  /\ role = [n \in Node |-> ItsOwn(n, IF down THEN "BACKUP" ELSE "LEADER",
                                   "BACKUP")]
  /\ leader_id = [n \in Node |-> ItsOwn(n, IF down THEN -1 ELSE n,
                                        InitialLeader)]
  /\ current_ballot = [n \in Node |-> IF n \in candidates THEN Rival(n)
                                       ELSE First]
  /\ highest_promised_ballot = current_ballot
  /\ waiting_for_promises = [n \in Node |-> n \in candidates]
  /\ promises_received = [n \in Node |-> ItsOwn(n, {1, 2},
                                                {n} \cap candidates)]
  /\ received_promise_logs = [n \in Node |-> [q \in Node |-> EmptyLog]]
  /\ pending_promise_call = [n \in Node |-> None]
  /\ in_election = [n \in Node |-> n \in candidates]
  /\ timer_running = [n \in Node |-> n # InitialLeader]
  /\ heard_leader = [n \in Node |-> n # InitialLeader]
  /\ first_txn_received = [n \in Node |-> n # InitialLeader]
  /\ accept_log = [n \in Node |-> ItsOwn(n,
       [s \in Seqnum |-> IF s \in DOMAIN sent
                         THEN [ballot |-> First, req |-> sent[s]]
                         ELSE NoEntry], EmptyLog)]
  /\ last_seqnum = [n \in Node |-> ItsOwn(n, Len(sent), 0)]
  /\ max_seqnum_in_new_view = [n \in Node |-> 0]
  /\ pending_entries = [n \in Node |-> EmptyLog]
  /\ pending_client_calls = [n \in Node |-> {}]
  /\ accepted_count = [n \in Node |-> {}]
  /\ entries_to_commit = [n \in Node |-> EmptyCommits]
  /\ last_executed_seq = [n \in Node |-> 0]
  /\ applied = [n \in Node |-> EmptyCommits]
  /\ pending_or_completed_ts = [n \in Node |-> ItsOwn(n, reqs, {})]
  /\ last_reply_per_client = [n \in Node |-> [a \in Account |-> None]]
  /\ balance_locks = [n \in Node |-> ItsOwn(n, UNION {Accounts(r) : r \in reqs},
                                            {})]
  /\ msgs = UNION {{[type |-> "Prepare", from |-> n, to |-> q,
                     ballot |-> Rival(n)] : q \in Peers(n)} : n \in candidates}
            \cup UNION {{[type |-> "Accept", from |-> InitialLeader, to |-> q,
                          ballot |-> First, seq |-> s, req |-> sent[s]]
                            : q \in Backups} : s \in DOMAIN sent}
  /\ replies = {}
  /\ campaigns = 1 + Cardinality(candidates)
  /\ kills = IF down THEN 1 ELSE 0

\* A leader is established and idle.
EstablishedSpec == AfterFirstElection(<<>>, {}) /\ [][Next]_vars
FairEstablishedSpec == EstablishedSpec /\ WF_vars(Progress)

\* The leader crashed between its proposals and their acceptance.
CrashedSpec == AfterFirstElection(<<"r1", "r2">>, {}) /\ [][Next]_vars

\* Both backups campaign at once against an idle leader.
RivalsSpec == AfterFirstElection(<<>>, Backups) /\ [][Next]_vars

\* An established leader and one campaign against it, or two at once.  In the
\* second case the old leader handles the Prepares and nothing of the new view,
\* there is one request, which reaches the candidate of the higher ballot first,
\* promises are not delayed, and that candidate is killed, if it is, when the
\* other has come to lead its ballot too.  Once the campaigns are used up a
\* heartbeat would only restart a timer that leads to none.
EstablishedOrRivalsSpec ==
  /\ AfterFirstElection(<<>>, {}) \/ AfterFirstElection(<<>>, Backups)
  /\ [][Next]_vars

HigherRival == 3
BallotIsShared == /\ role[HigherRival] = "LEADER"
                  /\ \E n \in Node \ {HigherRival} :
                       /\ role[n] = "LEADER"
                       /\ current_ballot[n] = current_ballot[HigherRival]

FocusOnSharedBallot ==
  /\ campaigns' # campaigns => campaigns' = 2
  /\ campaigns >= 2 => (heard_leader' # heard_leader => msgs' # msgs)
  /\ campaigns = 3 =>
       /\ Cardinality(pending_or_completed_ts'[HigherRival]) <= 1
       /\ pending_or_completed_ts'[InitialLeader] = {}
       /\ current_ballot'[InitialLeader] = First
       /\ \A n \in Node : pending_or_completed_ts'[n]
                            \subseteq pending_or_completed_ts'[HigherRival]
       /\ pending_promise_call' = pending_promise_call
       /\ kills' # kills => BallotIsShared /\ process'[HigherRival] = "down"

\* For runs about what the survivors of the first leader make of its log.
FirstLeaderStaysDown == process'[InitialLeader] = "down"
=============================================================================
