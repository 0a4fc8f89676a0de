---------------------------- MODULE ReplicatedLog ----------------------------
(***************************************************************************)
(* What a cluster promises its clients: there is one log of transactions,  *)
(* it only grows and holds no transaction twice, every replica applies it  *)
(* in order from the start, and a client is answered only for what some    *)
(* replica has applied.  Documentation.md, "Multi-Paxos".                  *)
(***************************************************************************)
EXTENDS Integers, Sequences

CONSTANTS Node, Request

VARIABLES
  log,       \* the transactions of the shard in their order
  position,  \* how much of the log each replica has applied
  answered   \* transactions the client has a reply to

logVars == <<log, position, answered>>

Distinct(l) == \A i, j \in DOMAIN l : l[i] = l[j] => i = j

LogInit == /\ log = <<>>
           /\ position = [n \in Node |-> 0]
           /\ answered = {}

\* Replica n applies the transactions up to sequence number k, the first to
\* reach k fixing what the log holds up to there, and may answer for them.
Execute(n, k, l, answers) ==
  /\ k > position[n]
  /\ Len(l) = IF k > Len(log) THEN k ELSE Len(log)
  /\ \A i \in DOMAIN log : l[i] = log[i]
  /\ Distinct(l)
  /\ answers \subseteq {l[i] : i \in (position[n] + 1) .. k}
  /\ log' = l
  /\ position' = [position EXCEPT ![n] = k]
  /\ answered' = answered \cup answers

\* log' is the only log a step can move to, so no set of logs is enumerated.
LogNext ==
  \E n \in Node :
    /\ position'[n] > position[n]
    /\ Execute(n, position'[n], log', answered' \ answered)

LogSpec == LogInit /\ [][LogNext]_logVars
=============================================================================
