------------------------- MODULE NodeThreadsProofs -------------------------
(***************************************************************************)
(* For every cluster, every set of requests and any number of their        *)
(* copies: the types of NodeThreads, that no entry is executed twice and   *)
(* that no executable entry is left without a thread; that a request is    *)
(* answered at most once, and that the leader's threads, which execute     *)
(* entries at the same time and outside every mutex, leave the balances of *)
(* an execution in the order of the log.                                   *)
(***************************************************************************)
EXTENDS NodeThreads, TLAPS

\* The steps in which a thread works on the entry it has taken.
Working == MidEntry \cup {"reply"}

HistoryOK == executions \in [Node -> [Seqnum -> Nat]]

\* A thread at work has taken an entry that is there.
WorkIsTaken ==
  \A n \in Node, s \in Seqnum :
    at[n][s] \in Working =>
      running[n][s] \in Seqnum /\ Executing(n, s) \in Request

\* last_executed_seq_ counts the executions: the entries up to it were taken
\* once, those after it never.
ExecutionsAreCounted ==
  \A n \in Node, s \in Seqnum :
    executions[n][s] = IF s <= last_executed_seq[n] THEN 1 ELSE 0

ThreadsInv == /\ TypeOK
              /\ HistoryOK
              /\ WorkIsTaken
              /\ ExecutionsAreCounted
              /\ NothingLeftBehind

LEMMA InitEstablishesThreadsInv == Init => ThreadsInv
  BY ThreadsAssumption, SMTT(30)
  DEF Init, ThreadsInv, TypeOK, HistoryOK, WorkIsTaken, Working, MidEntry,
      ExecutionsAreCounted, NothingLeftBehind, Executable, Executing, Seqnum,
      CallStep, WorkerStep, InLoop

\* What a thread of ProcessClientRequest does leaves the execution alone.
LEMMA AdmissionStep ==
  ASSUME ThreadsInv, NEW c \in Call, Admission(c) PROVE ThreadsInv'
<1> USE ThreadsAssumption
<1>1. UNCHANGED executionVars
  BY DEF Admission, CheckDuplicate, AnswerRead, LockSender, LockReceiver,
         Claim, Propose
<1>2. UNCHANGED <<HistoryOK, WorkIsTaken, ExecutionsAreCounted,
                  NothingLeftBehind>>
  BY <1>1 DEF executionVars, HistoryOK, WorkIsTaken, ExecutionsAreCounted,
              NothingLeftBehind, Executable, Executing, EntersLoop
<1>3. c[1] \in Request
  OBVIOUS
<1>4. From[c[1]] \in Account /\ To[c[1]] \in Account
  BY <1>3
<1>5. ASSUME NEW x, NEW y \in CallStep, Goes(c, x, y)
      PROVE  call' \in [Call -> CallStep]
  BY <1>5 DEF Goes, ThreadsInv, TypeOK
<1>6. call' \in [Call -> CallStep]
  BY <1>5 DEF Admission, CheckDuplicate, AnswerRead, LockSender,
     LockReceiver, Claim, Propose, CallStep
<1>7. balance_locks' \subseteq Account
  BY <1>4 DEF ThreadsInv, TypeOK, Admission, CheckDuplicate, AnswerRead,
     LockSender, LockReceiver, Claim, Propose, admissionVars
<1>8. /\ last_seqnum' \in 0 .. MaxSeq
      /\ pending_entries' \in [Seqnum -> Request \cup {None}]
  <2>1. CASE Propose(c)
    BY <1>3, <2>1 DEF Propose, ThreadsInv, TypeOK, Seqnum
  <2>2. CASE ~ Propose(c)
    BY <2>2 DEF Admission, CheckDuplicate, AnswerRead, LockSender,
       LockReceiver, Claim, proposalVars, ThreadsInv, TypeOK
  <2> QED BY <2>1, <2>2
<1>9. TypeOK'
  <2>1. UNCHANGED commits
    BY DEF Admission, CheckDuplicate, AnswerRead, LockSender, LockReceiver,
           Claim, Propose
  <2> QED BY <1>1, <1>6, <1>7, <1>8, <2>1 DEF ThreadsInv, TypeOK, executionVars
<1> QED BY <1>2, <1>9 DEF ThreadsInv

\* A thread of execution that moves from one step to another keeps the types,
\* the counts and the work of the other threads when it changes nothing else
\* of the execution.
LEMMA MoveKeepsTypes ==
  ASSUME ThreadsInv, NEW n \in Node, NEW s \in Seqnum, NEW x,
         NEW y \in WorkerStep, Moves(n, s, x, y)
  PROVE  /\ at' \in [Node -> [Seqnum -> WorkerStep]]
         /\ at'[n][s] = y
         /\ \A m \in Node, t \in Seqnum :
              m # n \/ t # s => at'[m][t] = at[m][t]
  BY DEF Moves, ThreadsInv, TypeOK

\* A thread in the loop stays a witness that nothing is left behind as long
\* as it stays in the loop.
LEMMA InLoopSuffices ==
  ASSUME ThreadsInv, NEW n \in Node, NEW s \in Seqnum,
         at' \in [Node -> [Seqnum -> WorkerStep]],
         at'[n][s] \in InLoop,
         \A m \in Node, t \in Seqnum :
           m # n \/ t # s => at'[m][t] = at[m][t],
         \A m \in Node : m # n =>
           /\ last_executed_seq'[m] = last_executed_seq[m]
           /\ entries_to_commit'[m] = entries_to_commit[m]
  PROVE  NothingLeftBehind'
<1> SUFFICES ASSUME NEW m \in Node, Executable(m)'
             PROVE  \E t \in Seqnum :
                       \/ at'[m][t] \in InLoop
                       \/ at'[m][t] = "recorded" /\ EntersLoop(m, t)'
  BY DEF NothingLeftBehind
<1>1. CASE m = n
  BY <1>1
<1>2. CASE m # n
  <2>1. Executable(m)
    BY <1>2 DEF Executable
  <2>2. PICK t \in Seqnum : \/ at[m][t] \in InLoop
                            \/ at[m][t] = "recorded" /\ EntersLoop(m, t)
    BY <2>1 DEF ThreadsInv, NothingLeftBehind
  <2> QED BY <1>2, <2>2 DEF EntersLoop
<1> QED BY <1>1, <1>2

\* HandleAccept at most starts a thread.
LEMMA AcceptStep ==
  ASSUME ThreadsInv, NEW s \in Seqnum, NEW b \in Backup, HandleAccept(s, b)
  PROVE  ThreadsInv'
<1> USE ThreadsAssumption
<1>1. /\ UNCHANGED <<call, balance_locks, last_seqnum, pending_entries,
                     entries_to_commit, last_executed_seq, accounts, running,
                     loaded, executions, commits>>
      /\ at' = at \/ Moves(Leader, s, "idle", "commit")
  BY DEF HandleAccept, admissionVars, proposalVars
<1>2. /\ at' \in [Node -> [Seqnum -> WorkerStep]]
      /\ \A m \in Node, t \in Seqnum :
           at'[m][t] # at[m][t] => at[m][t] = "idle" /\ at'[m][t] = "commit"
  <2>1. CASE at' = at
    BY <2>1 DEF ThreadsInv, TypeOK
  <2>2. CASE Moves(Leader, s, "idle", "commit")
    <3>1. Leader \in Node /\ "commit" \in WorkerStep
      BY DEF WorkerStep
    <3>2. /\ at' \in [Node -> [Seqnum -> WorkerStep]]
          /\ at'[Leader][s] = "commit"
          /\ \A m \in Node, t \in Seqnum :
               m # Leader \/ t # s => at'[m][t] = at[m][t]
      BY <2>2, <3>1, MoveKeepsTypes
    <3>3. at[Leader][s] = "idle"
      BY <2>2 DEF Moves
    <3> QED BY <3>2, <3>3
  <2> QED BY <1>1, <2>1, <2>2
<1>3. TypeOK' /\ HistoryOK' /\ ExecutionsAreCounted'
  BY <1>1, <1>2 DEF ThreadsInv, TypeOK, HistoryOK, ExecutionsAreCounted
<1>4. WorkIsTaken'
  BY <1>1, <1>2 DEF ThreadsInv, WorkIsTaken, Working, MidEntry, Executing
<1>5. NothingLeftBehind'
  BY <1>1, <1>2 DEF ThreadsInv, NothingLeftBehind, Executable, EntersLoop,
                    InLoop
<1> QED BY <1>3, <1>4, <1>5 DEF ThreadsInv

\* CommitEntry and HandleCommit: recording an entry gives it a thread that is
\* about to test for it, and overwrites no entry that is being executed.
LEMMA RecordStep ==
  ASSUME ThreadsInv, NEW n \in Node, NEW s \in Seqnum,
         NEW x \in {"idle", "commit"}, Moves(n, s, x, "recorded"),
         entries_to_commit' = [entries_to_commit EXCEPT ![n][s] =
                                 IF @ = None THEN pending_entries[s] ELSE @],
         UNCHANGED <<call, balance_locks, last_seqnum, pending_entries,
                     last_executed_seq, accounts, running, loaded, executions>>,
         commits' \subseteq Backup \X Seqnum
  PROVE  ThreadsInv'
<1> USE ThreadsAssumption
<1>1. /\ at' \in [Node -> [Seqnum -> WorkerStep]]
      /\ at'[n][s] = "recorded"
      /\ \A m \in Node, t \in Seqnum :
           m # n \/ t # s => at'[m][t] = at[m][t]
  <2>1. "recorded" \in WorkerStep
    BY DEF WorkerStep
  <2> QED BY <2>1, MoveKeepsTypes
<1>2. at[n][s] \in {"idle", "commit"}
  BY DEF Moves
<1>3. /\ entries_to_commit' \in [Node -> [Seqnum -> Request \cup {None}]]
      /\ \A m \in Node, t \in Seqnum :
           /\ m # n \/ t # s =>
                entries_to_commit'[m][t] = entries_to_commit[m][t]
           /\ entries_to_commit[m][t] # None =>
                entries_to_commit'[m][t] = entries_to_commit[m][t]
  BY DEF ThreadsInv, TypeOK
<1>4. TypeOK' /\ HistoryOK' /\ ExecutionsAreCounted'
  BY <1>1, <1>3 DEF ThreadsInv, TypeOK, HistoryOK, ExecutionsAreCounted
<1>5. WorkIsTaken'
  <2> SUFFICES ASSUME NEW m \in Node, NEW t \in Seqnum, at'[m][t] \in Working
               PROVE  /\ running[m][t] \in Seqnum
                      /\ Executing(m, t)' = Executing(m, t)
                      /\ Executing(m, t) \in Request
                      /\ at[m][t] = at'[m][t]
    BY DEF WorkIsTaken, Working, ThreadsInv
  <2>1. at[m][t] = at'[m][t]
    BY <1>1 DEF Working, MidEntry
  <2>2. running[m][t] \in Seqnum /\ Executing(m, t) \in Request
    BY <2>1 DEF ThreadsInv, WorkIsTaken
  <2> QED BY <1>3, <2>1, <2>2 DEF Executing
<1>6. NothingLeftBehind'
  <2> SUFFICES ASSUME NEW m \in Node, Executable(m)'
               PROVE  \E t \in Seqnum :
                         \/ at'[m][t] \in InLoop
                         \/ at'[m][t] = "recorded" /\ EntersLoop(m, t)'
    BY DEF NothingLeftBehind
  <2>1. CASE m = n /\ last_executed_seq[n] + 1 = s
    BY <1>1, <2>1 DEF EntersLoop
  <2>2. CASE ~ (m = n /\ last_executed_seq[n] + 1 = s)
    <3>1. Executable(m)
      BY <1>3, <2>2 DEF Executable
    <3>2. PICK t \in Seqnum : \/ at[m][t] \in InLoop
                              \/ at[m][t] = "recorded" /\ EntersLoop(m, t)
      BY <3>1 DEF ThreadsInv, NothingLeftBehind
    <3>3. at'[m][t] = at[m][t]
      BY <1>1, <1>2, <3>2 DEF InLoop
    <3> QED BY <3>2, <3>3 DEF EntersLoop
  <2> QED BY <2>1, <2>2
<1> QED BY <1>4, <1>5, <1>6 DEF ThreadsInv

\* Going into the loop when the entry is the next, or away when it is not.
LEMMA TestStep ==
  ASSUME ThreadsInv, NEW n \in Node, NEW s \in Seqnum, TestNext(n, s)
  PROVE  ThreadsInv'
<1>1. /\ UNCHANGED <<call, balance_locks, last_seqnum, pending_entries,
                     entries_to_commit, last_executed_seq, accounts, running,
                     loaded, executions, commits>>
      /\ Moves(n, s, "recorded", IF EntersLoop(n, s) THEN "loop" ELSE "idle")
  BY DEF TestNext, admissionVars, proposalVars
<1>2. /\ at' \in [Node -> [Seqnum -> WorkerStep]]
      /\ at[n][s] = "recorded"
      /\ at'[n][s] = IF EntersLoop(n, s) THEN "loop" ELSE "idle"
      /\ \A m \in Node, t \in Seqnum :
           m # n \/ t # s => at'[m][t] = at[m][t]
  BY <1>1 DEF Moves, ThreadsInv, TypeOK, WorkerStep, InLoop
<1>3. TypeOK' /\ HistoryOK' /\ ExecutionsAreCounted'
  BY <1>1, <1>2 DEF ThreadsInv, TypeOK, HistoryOK, ExecutionsAreCounted
<1>4. WorkIsTaken'
  BY <1>1, <1>2 DEF ThreadsInv, WorkIsTaken, Working, MidEntry, Executing
<1>5. NothingLeftBehind'
  BY <1>1, <1>2 DEF ThreadsInv, NothingLeftBehind, Executable, EntersLoop,
                    InLoop
<1> QED BY <1>3, <1>4, <1>5 DEF ThreadsInv

\* Leaving the loop is decided under the mutex, when nothing is executable.
LEMMA LeaveStep ==
  ASSUME ThreadsInv, NEW n \in Node, NEW s \in Seqnum, LeaveLoop(n, s)
  PROVE  ThreadsInv'
<1>1. /\ UNCHANGED <<call, balance_locks, last_seqnum, pending_entries,
                     entries_to_commit, last_executed_seq, accounts, running,
                     loaded, executions, commits>>
      /\ ~ Executable(n)
      /\ Moves(n, s, "loop", "idle")
  BY DEF LeaveLoop, admissionVars, proposalVars
<1>2. /\ at' \in [Node -> [Seqnum -> WorkerStep]]
      /\ at'[n][s] = "idle"
      /\ \A m \in Node, t \in Seqnum :
           m # n \/ t # s => at'[m][t] = at[m][t]
  BY <1>1 DEF Moves, ThreadsInv, TypeOK, WorkerStep, InLoop
<1>3. TypeOK' /\ HistoryOK' /\ ExecutionsAreCounted'
  BY <1>1, <1>2 DEF ThreadsInv, TypeOK, HistoryOK, ExecutionsAreCounted
<1>4. WorkIsTaken'
  BY <1>1, <1>2 DEF ThreadsInv, WorkIsTaken, Working, MidEntry, Executing
<1>5. NothingLeftBehind'
  BY <1>1, <1>2 DEF ThreadsInv, NothingLeftBehind, Executable, EntersLoop
<1> QED BY <1>3, <1>4, <1>5 DEF ThreadsInv

\* Taking an entry moves last_executed_seq_ to it: it was never taken before.
LEMMA TakeStep ==
  ASSUME ThreadsInv, NEW n \in Node, NEW s \in Seqnum, TakeNext(n, s)
  PROVE  ThreadsInv'
<1> DEFINE next == last_executed_seq[n] + 1
<1>1. /\ UNCHANGED <<call, balance_locks, last_seqnum, pending_entries,
                     entries_to_commit, accounts, loaded, commits>>
      /\ next \in Seqnum /\ entries_to_commit[n][next] # None
      /\ Moves(n, s, "loop", "execute")
      /\ last_executed_seq' = [last_executed_seq EXCEPT ![n] = next]
      /\ running' = [running EXCEPT ![n][s] = next]
      /\ executions' = [executions EXCEPT ![n][next] = @ + 1]
  BY DEF TakeNext, Taken, Executable, admissionVars, proposalVars
<1> HIDE DEF next
<1>2. /\ at' \in [Node -> [Seqnum -> WorkerStep]]
      /\ at'[n][s] = "execute"
      /\ \A m \in Node, t \in Seqnum :
           m # n \/ t # s => at'[m][t] = at[m][t]
  <2>1. "execute" \in WorkerStep
    BY DEF WorkerStep, InLoop
  <2> QED BY <1>1, <2>1, MoveKeepsTypes
<1>3. TypeOK'
  <2>1. next \in 0 .. MaxSeq
    BY <1>1, ThreadsAssumption DEF Seqnum
  <2>2. /\ last_executed_seq' \in [Node -> 0 .. MaxSeq]
        /\ running' \in [Node -> [Seqnum -> 0 .. MaxSeq]]
    BY <1>1, <2>1 DEF ThreadsInv, TypeOK
  <2> QED BY <1>1, <1>2, <2>2 DEF ThreadsInv, TypeOK
<1>4. HistoryOK'
  BY <1>1 DEF ThreadsInv, HistoryOK
<1>5. WorkIsTaken'
  <2>1. /\ running'[n][s] = next
        /\ \A m \in Node, t \in Seqnum :
             m # n \/ t # s => running'[m][t] = running[m][t]
    BY <1>1 DEF ThreadsInv, TypeOK
  <2>2. entries_to_commit[n][next] \in Request
    BY <1>1 DEF ThreadsInv, TypeOK
  <2> SUFFICES ASSUME NEW m \in Node, NEW t \in Seqnum
               PROVE  at'[m][t] \in Working =>
                        /\ running'[m][t] \in Seqnum
                        /\ Executing(m, t)' \in Request
    BY DEF WorkIsTaken
  <2>3. CASE m = n /\ t = s
    BY <1>1, <1>2, <2>1, <2>2, <2>3 DEF Executing
  <2>4. CASE m # n \/ t # s
    <3>1. /\ at'[m][t] = at[m][t]
          /\ Executing(m, t)' = Executing(m, t)
          /\ running'[m][t] = running[m][t]
      BY <1>1, <1>2, <2>1, <2>4 DEF Executing
    <3> QED BY <3>1 DEF ThreadsInv, WorkIsTaken
  <2> QED BY <2>3, <2>4
<1>6. ExecutionsAreCounted'
  <2> SUFFICES ASSUME NEW m \in Node, NEW t \in Seqnum
               PROVE  executions'[m][t] =
                        IF t <= last_executed_seq'[m] THEN 1 ELSE 0
    BY DEF ExecutionsAreCounted
  <2>0. /\ last_executed_seq[n] \in Nat /\ next = last_executed_seq[n] + 1
        /\ last_executed_seq'[n] = next
        /\ t \in Nat
        /\ executions[m][t] = IF t <= last_executed_seq[m] THEN 1 ELSE 0
    <3>1. last_executed_seq[n] \in Nat /\ t \in Nat
      BY ThreadsAssumption DEF ThreadsInv, TypeOK, Seqnum
    <3>2. last_executed_seq'[n] = next
      BY <1>1 DEF ThreadsInv, TypeOK
    <3>3. executions[m][t] = IF t <= last_executed_seq[m] THEN 1 ELSE 0
      BY DEF ThreadsInv, ExecutionsAreCounted
    <3> QED BY <3>1, <3>2, <3>3 DEF next
  <2>1. CASE m = n /\ t = next
    <3>1. executions'[n][next] = executions[n][next] + 1
      BY <1>1 DEF ThreadsInv, HistoryOK
    <3> QED BY <2>0, <2>1, <3>1
  <2>2. CASE m = n /\ t # next
    <3>1. executions'[n][t] = executions[n][t]
      BY <1>1, <2>2 DEF ThreadsInv, HistoryOK
    <3> QED BY <2>0, <2>2, <3>1
  <2>3. CASE m # n
    <3>1. executions'[m][t] = executions[m][t]
      BY <1>1, <2>3 DEF ThreadsInv, HistoryOK
    <3>2. last_executed_seq'[m] = last_executed_seq[m]
      BY <1>1, <2>3 DEF ThreadsInv, TypeOK
    <3> QED BY <2>0, <3>1, <3>2
  <2> QED BY <2>1, <2>2, <2>3
<1>7. NothingLeftBehind'
  <2>1. at'[n][s] \in InLoop
    BY <1>2 DEF InLoop
  <2>2. \A m \in Node : m # n => last_executed_seq'[m] = last_executed_seq[m]
    BY <1>1 DEF ThreadsInv, TypeOK
  <2> QED BY <1>1, <1>2, <2>1, <2>2, InLoopSuffices
<1> QED BY <1>3, <1>4, <1>5, <1>6, <1>7 DEF ThreadsInv

\* The steps of ExecuteTransaction and the reply.
LEMMA WorkStep ==
  ASSUME ThreadsInv, NEW n \in Node, NEW s \in Seqnum,
         NEW x \in Working, NEW y \in InLoop, Moves(n, s, x, y),
         UNCHANGED <<last_seqnum, pending_entries, entries_to_commit,
                     last_executed_seq, running, executions>>,
         call' \in [Call -> CallStep],
         balance_locks' \subseteq Account,
         accounts' \in [Node -> [Account -> Int]],
         loaded' \in [Node -> [Seqnum -> Int]],
         UNCHANGED commits
  PROVE  ThreadsInv'
<1>1. /\ at' \in [Node -> [Seqnum -> WorkerStep]]
      /\ at'[n][s] = y
      /\ \A m \in Node, t \in Seqnum :
           m # n \/ t # s => at'[m][t] = at[m][t]
  <2>1. y \in WorkerStep
    BY DEF WorkerStep
  <2> QED BY <2>1, MoveKeepsTypes
<1>2. at[n][s] \in Working
  BY DEF Moves
<1>3. TypeOK' /\ HistoryOK' /\ ExecutionsAreCounted'
  BY <1>1 DEF ThreadsInv, TypeOK, HistoryOK, ExecutionsAreCounted
<1>4. WorkIsTaken'
  <2> SUFFICES ASSUME NEW m \in Node, NEW t \in Seqnum
               PROVE  at'[m][t] \in Working =>
                        /\ running'[m][t] \in Seqnum
                        /\ Executing(m, t)' \in Request
    BY DEF WorkIsTaken
  <2>1. Executing(m, t)' = Executing(m, t) /\ running'[m][t] = running[m][t]
    BY DEF Executing
  <2>2. CASE m = n /\ t = s
    BY <1>1, <1>2, <2>1, <2>2 DEF ThreadsInv, WorkIsTaken
  <2>3. CASE m # n \/ t # s
    <3>1. at'[m][t] = at[m][t]
      BY <1>1, <2>3
    <3> QED BY <2>1, <3>1 DEF ThreadsInv, WorkIsTaken
  <2> QED BY <2>2, <2>3
<1>5. NothingLeftBehind'
  BY <1>1, InLoopSuffices
<1> QED BY <1>3, <1>4, <1>5 DEF ThreadsInv

LEMMA ExecuteStep ==
  ASSUME ThreadsInv, NEW n \in Node, NEW s \in Seqnum,
         \/ CheckBalance(n, s)
         \/ LoadSender(n, s)
         \/ StoreSender(n, s)
         \/ LoadReceiver(n, s)
         \/ StoreReceiver(n, s)
         \/ Reply(n, s)
  PROVE  ThreadsInv'
<1> DEFINE r == Executing(n, s)
<1> USE ThreadsAssumption
<1>1. at[n][s] \in Working
  BY DEF CheckBalance, LoadSender, LoadReceiver, Load, StoreSender,
         StoreReceiver, Reply, Moves, Working, MidEntry
<1>2. /\ r \in Request
      /\ Amount[r] \in Nat /\ From[r] \in Account /\ To[r] \in Account
      /\ loaded[n][s] \in Int
      /\ \A a \in Account : accounts[n][a] \in Int
  BY <1>1 DEF ThreadsInv, WorkIsTaken, TypeOK
<1>3. /\ "execute" \in Working /\ "load_from" \in Working
      /\ "store_from" \in Working /\ "load_to" \in Working
      /\ "store_to" \in Working /\ "reply" \in Working
      /\ Working \subseteq InLoop /\ "loop" \in InLoop
  BY DEF Working, MidEntry, InLoop
<1>4. /\ call \in [Call -> CallStep] /\ balance_locks \subseteq Account
      /\ accounts \in [Node -> [Account -> Int]]
      /\ loaded \in [Node -> [Seqnum -> Int]]
  BY DEF ThreadsInv, TypeOK
<1>5. CASE CheckBalance(n, s)
  <2>1. /\ Moves(n, s, "execute", IF Short(n, r) THEN "reply"
                                  ELSE "load_from")
        /\ balance_locks' \subseteq balance_locks
        /\ UNCHANGED <<call, last_seqnum, pending_entries, accounts, loaded,
                       entries_to_commit, last_executed_seq, running,
                       executions, commits>>
    BY <1>5 DEF CheckBalance, proposalVars
  <2>2. CASE Short(n, r)
    BY <1>3, <1>4, <2>1, <2>2, WorkStep
  <2>3. CASE ~ Short(n, r)
    BY <1>3, <1>4, <2>1, <2>3, WorkStep
  <2> QED BY <2>2, <2>3
<1>6. ASSUME NEW a \in Account, NEW x \in Working, NEW y \in Working,
             Load(n, s, a, x, y)
      PROVE  ThreadsInv'
  <2>1. /\ Moves(n, s, x, y)
        /\ loaded' = [loaded EXCEPT ![n][s] = accounts[n][a]]
        /\ UNCHANGED <<call, balance_locks, last_seqnum, pending_entries,
                       accounts, entries_to_commit, last_executed_seq,
                       running, executions, commits>>
    BY <1>6 DEF Load, admissionVars, proposalVars
  <2>2. loaded' \in [Node -> [Seqnum -> Int]]
    BY <1>2, <1>4, <2>1
  <2> QED BY <1>3, <1>4, <2>1, <2>2, WorkStep
<1>7. CASE LoadSender(n, s) \/ LoadReceiver(n, s)
  BY <1>2, <1>3, <1>6, <1>7 DEF LoadSender, LoadReceiver
<1>8. CASE StoreSender(n, s)
  <2>1. /\ accounts' = [accounts EXCEPT ![n][From[r]] =
                          loaded[n][s] - Amount[r]]
        /\ Moves(n, s, "store_from", "load_to")
        /\ UNCHANGED <<call, balance_locks, last_seqnum, pending_entries,
                       loaded, entries_to_commit, last_executed_seq, running,
                       executions, commits>>
    BY <1>8 DEF StoreSender, admissionVars, proposalVars
  <2>2. accounts' \in [Node -> [Account -> Int]]
    BY <1>2, <1>4, <2>1
  <2> QED BY <1>3, <1>4, <2>1, <2>2, WorkStep
<1>9. CASE StoreReceiver(n, s)
  <2>1. /\ accounts' = [accounts EXCEPT ![n][To[r]] =
                          loaded[n][s] + Amount[r]]
        /\ Moves(n, s, "store_to", "reply")
        /\ balance_locks' \subseteq balance_locks
        /\ UNCHANGED <<call, last_seqnum, pending_entries, loaded,
                       entries_to_commit, last_executed_seq, running,
                       executions, commits>>
    BY <1>9 DEF StoreReceiver, proposalVars
  <2>2. accounts' \in [Node -> [Account -> Int]]
    BY <1>2, <1>4, <2>1
  <2> QED BY <1>3, <1>4, <2>1, <2>2, WorkStep
<1>10. CASE Reply(n, s)
  <2>1. /\ Moves(n, s, "reply", "loop")
        /\ \/ call' = call
           \/ \E c : call' = [call EXCEPT ![c] = "finished"]
        /\ UNCHANGED <<balance_locks, last_seqnum, pending_entries, loaded,
                       accounts, entries_to_commit, last_executed_seq, running,
                       executions, commits>>
    BY <1>10 DEF Reply, admissionVars
  <2>2. call' \in [Call -> CallStep]
    BY <1>4, <2>1 DEF CallStep
  <2> QED BY <1>3, <1>4, <2>1, <2>2, WorkStep
<1> QED BY <1>5, <1>7, <1>8, <1>9, <1>10

LEMMA StepKeepsThreadsInv == ThreadsInv /\ [Next]_vars => ThreadsInv'
<1> SUFFICES ASSUME ThreadsInv, [Next]_vars PROVE ThreadsInv'
  OBVIOUS
<1>1. ASSUME NEW c \in Call, Admission(c) PROVE ThreadsInv'
  BY <1>1, AdmissionStep
<1>2. ASSUME NEW s \in Seqnum, NEW b \in Backup, HandleAccept(s, b)
      PROVE  ThreadsInv'
  BY <1>2, AcceptStep
<1>3. ASSUME NEW s \in Seqnum, NEW b \in Backup, HandleCommit(b, s)
      PROVE  ThreadsInv'
  <2>1. b \in Node
    BY DEF Backup
  <2>2. commits' \subseteq Backup \X Seqnum
    BY <1>3 DEF HandleCommit, ThreadsInv, TypeOK
  <2> QED BY <1>3, <2>1, <2>2, RecordStep DEF HandleCommit, admissionVars,
                                             proposalVars
<1>4. ASSUME NEW s \in Seqnum, CommitEntry(s) PROVE ThreadsInv'
  <2>1. Leader \in Node
    BY ThreadsAssumption
  <2>2. commits' \subseteq Backup \X Seqnum
    BY <1>4 DEF CommitEntry, BroadcastCommit, ThreadsInv, TypeOK
  <2> QED BY <1>4, <2>1, <2>2, RecordStep DEF CommitEntry, admissionVars,
                                             proposalVars
<1>5. ASSUME NEW n \in Node, NEW s \in Seqnum, Execution(n, s)
      PROVE  ThreadsInv'
  BY <1>5, TestStep, TakeStep, LeaveStep, ExecuteStep DEF Execution
<1>6. CASE UNCHANGED vars
  BY <1>6 DEF vars, admissionVars, proposalVars, executionVars, replyVars,
     ThreadsInv, TypeOK, HistoryOK, WorkIsTaken, ExecutionsAreCounted,
     NothingLeftBehind, Executable, Executing, EntersLoop
<1> QED BY <1>1, <1>2, <1>3, <1>4, <1>5, <1>6 DEF Next

\* Whatever the interleaving of a node's threads, the tables of PaxosNode keep
\* their types: Commits go to backups, and a thread works on a number that was
\* given to an entry.  Balances are integers: on a backup, where nothing keeps
\* the check in ExecuteTransaction and the debit together, they may be negative.
THEOREM ThreadsAreTyped == Spec => []TypeOK
<1>1. ThreadsInv => TypeOK
  BY DEF ThreadsInv
<1> QED BY <1>1, InitEstablishesThreadsInv, StepKeepsThreadsInv, PTL DEF Spec

\* No two threads in SequentiallyExecuteCommittedEntries execute one entry.
THEOREM EntriesAreExecutedOnce == Spec => []ExecutedOnce
<1>1. ThreadsInv => ExecutedOnce
  BY DEF ThreadsInv, ExecutionsAreCounted, ExecutedOnce
<1> QED BY <1>1, InitEstablishesThreadsInv, StepKeepsThreadsInv, PTL DEF Spec

\* No wake-up is lost between recording an entry, testing whether it is the
\* next and leaving the loop of SequentiallyExecuteCommittedEntries.
THEOREM NoWakeUpIsLost == Spec => []NothingLeftBehind
<1>1. ThreadsInv => NothingLeftBehind
  BY DEF ThreadsInv
<1> QED BY <1>1, InitEstablishesThreadsInv, StepKeepsThreadsInv, PTL DEF Spec

-----------------------------------------------------------------------------
\* Answers and balances.  Both rest on who has claimed which request and who
\* holds which account lock.

AccountsOf(r) == {From[r], To[r]}

\* Some thread of the leader is at one of these steps with this entry.
WorksOn(x, steps) ==
  \E s \in Seqnum : at[Leader][s] \in steps /\ running[Leader][s] = x

\* Log entries are the requests the leader has proposed, and threads at work
\* have different entries.
ProposalsInv ==
  /\ \A s \in Seqnum : pending_entries[s] # None <=> s <= last_seqnum
  /\ \A n \in Node, s \in Seqnum :
       entries_to_commit[n][s] \in {None, pending_entries[s]}

WorkersInv ==
  /\ \A s \in Seqnum : at[Leader][s] \in Working =>
       /\ running[Leader][s] <= last_executed_seq[Leader]
       /\ \A t \in Seqnum : at[Leader][t] \in Working /\ t # s =>
            running[Leader][t] # running[Leader][s]

\* A request is claimed by one call and proposed once.
ClaimsInv ==
  /\ \A c \in Call :
       call[c] \in {"sender_locked", "locked", "claimed"} =>
         c[1] \notin ReadOnly
  /\ \A c \in Call : call[c] = "claimed" =>
       /\ c[1] \in pending_or_completed_ts
       /\ \A d \in Call : call[d] = "claimed" /\ d[1] = c[1] => d = c
       /\ \A s \in Seqnum : pending_entries[s] # c[1]
  /\ \A s \in Seqnum : pending_entries[s] # None =>
       /\ pending_entries[s] \in pending_or_completed_ts
       /\ pending_entries[s] \notin ReadOnly
       /\ \A t \in Seqnum : pending_entries[t] = pending_entries[s] => t = s

\* Reads are answered as they are handled; a transfer is not before a thread
\* has finished its entry.
Unanswered(x) == x > last_executed_seq[Leader] \/ WorksOn(x, Working)

AnswersInv ==
  /\ answers \in [Request -> {0, 1}]
  /\ \A r \in ReadOnly : answers[r] = 1 <=> r \in handled_ro_requests
  /\ \A r \in Request \ ReadOnly :
       (\A s \in Seqnum : pending_entries[s] # r) => answers[r] = 0
  /\ \A s \in Seqnum : pending_entries[s] # None /\ Unanswered(s) =>
       answers[pending_entries[s]] = 0

\* Who holds which account: a call that is being admitted, then the entry it
\* becomes, until a thread has executed it.
CallHolds(c) == IF call[c] = "sender_locked" THEN {From[c[1]]}
                ELSE IF call[c] \in {"locked", "claimed"} THEN AccountsOf(c[1])
                ELSE {}
Unfinished(x) == x > last_executed_seq[Leader] \/ WorksOn(x, MidEntry)
EntryHolds(x) == IF pending_entries[x] # None /\ Unfinished(x)
                 THEN AccountsOf(pending_entries[x]) ELSE {}

\* What is held is locked, and nobody holds what another holds.
LocksInv ==
  /\ \A c \in Call : CallHolds(c) \subseteq balance_locks
  /\ \A x \in Seqnum : EntryHolds(x) \subseteq balance_locks
  /\ \A c, d \in Call : c # d => CallHolds(c) \cap CallHolds(d) = {}
  /\ \A x, y \in Seqnum : x # y => EntryHolds(x) \cap EntryHolds(y) = {}
  /\ \A c \in Call, x \in Seqnum : CallHolds(c) \cap EntryHolds(x) = {}

\* The leader's balances against those of the serial execution: an account
\* that no thread is working on has its serial balance, and a thread has still
\* to do to its two accounts what its step says.
Pending(s, a, b) ==
  LET r == Executing(Leader, s)
      step == at[Leader][s]
  IN
  /\ step = "execute" =>
       /\ b[From[r]] = IF a[From[r]] < Amount[r] THEN a[From[r]]
                       ELSE a[From[r]] - Amount[r]
       /\ b[To[r]] = IF a[From[r]] < Amount[r] THEN a[To[r]]
                     ELSE a[To[r]] + Amount[r]
  /\ step \in {"load_from", "store_from"} =>
       /\ b[From[r]] = a[From[r]] - Amount[r]
       /\ b[To[r]] = a[To[r]] + Amount[r]
  /\ step \in {"load_to", "store_to"} =>
       /\ b[From[r]] = a[From[r]]
       /\ b[To[r]] = a[To[r]] + Amount[r]
  /\ step = "store_from" => loaded[Leader][s] = a[From[r]]
  /\ step = "store_to" => loaded[Leader][s] = a[To[r]]

SerialInv ==
  /\ serial \in [Node -> [Account -> Nat]]
  /\ accounts[Leader] \in [Account -> Nat]
  /\ \A s \in Seqnum : Pending(s, accounts[Leader], serial[Leader])
  /\ \A a \in Account :
       (\A s \in Seqnum : at[Leader][s] \in MidEntry =>
          a \notin AccountsOf(Executing(Leader, s)))
       => accounts[Leader][a] = serial[Leader][a]

SerialThreadsInv ==
  /\ ThreadsInv
  /\ ProposalsInv
  /\ WorkersInv
  /\ ClaimsInv
  /\ AnswersInv
  /\ LocksInv
  /\ SerialInv

-----------------------------------------------------------------------------
\* What a step may do to each table.

LEMMA ProposeOrKeep ==
  ASSUME [Next]_vars
  PROVE  \/ UNCHANGED <<last_seqnum, pending_entries>>
         \/ \E c \in Call : Propose(c)
<1>1. ASSUME NEW c \in Call, Admission(c), ~ Propose(c)
      PROVE  UNCHANGED <<last_seqnum, pending_entries>>
  BY <1>1 DEF Admission, CheckDuplicate, AnswerRead, LockSender,
              LockReceiver, Claim, proposalVars
<1>2. ASSUME NEW s \in Seqnum, NEW b \in Backup,
             HandleAccept(s, b) \/ HandleCommit(b, s)
      PROVE  UNCHANGED <<last_seqnum, pending_entries>>
  BY <1>2 DEF HandleAccept, HandleCommit, proposalVars
<1>3. ASSUME NEW s \in Seqnum, CommitEntry(s)
      PROVE  UNCHANGED <<last_seqnum, pending_entries>>
  BY <1>3 DEF CommitEntry, proposalVars
<1>4. ASSUME NEW n \in Node, NEW s \in Seqnum, Execution(n, s)
      PROVE  UNCHANGED <<last_seqnum, pending_entries>>
  BY <1>4 DEF Execution, TestNext, TakeNext, LeaveLoop,
              CheckBalance, LoadSender, LoadReceiver, Load, StoreSender,
              StoreReceiver, Reply, proposalVars
<1>5. CASE UNCHANGED vars
  BY <1>5 DEF vars, proposalVars
<1> QED BY <1>1, <1>2, <1>3, <1>4, <1>5 DEF Next

LEMMA RecordOrKeep ==
  ASSUME [Next]_vars
  PROVE  \/ entries_to_commit' = entries_to_commit
         \/ /\ UNCHANGED <<last_seqnum, pending_entries>>
            /\ \E n \in Node, s \in Seqnum :
                 entries_to_commit' =
                   [entries_to_commit EXCEPT ![n][s] =
                      IF @ = None THEN pending_entries[s] ELSE @]
<1>1. CASE \E s \in Seqnum, b \in Backup : HandleCommit(b, s)
  <2>1. PICK s \in Seqnum, b \in Backup : HandleCommit(b, s)
    BY <1>1
  <2>2. b \in Node
    BY DEF Backup
  <2> QED BY <2>1, <2>2 DEF HandleCommit, proposalVars
<1>2. CASE \E s \in Seqnum : CommitEntry(s)
  <2>1. PICK s \in Seqnum : CommitEntry(s)
    BY <1>2
  <2>2. Leader \in Node
    BY ThreadsAssumption
  <2> QED BY <2>1, <2>2 DEF CommitEntry, proposalVars
<1>3. CASE /\ ~ \E s \in Seqnum, b \in Backup : HandleCommit(b, s)
           /\ ~ \E s \in Seqnum : CommitEntry(s)
  BY <1>3
  DEF Next, vars, Admission, CheckDuplicate, AnswerRead, LockSender,
      LockReceiver, Claim, Propose, HandleAccept, Execution, TestNext,
      TakeNext, LeaveLoop, CheckBalance, LoadSender, LoadReceiver, Load,
      StoreSender, StoreReceiver, Reply, executionVars
<1> QED BY <1>1, <1>2, <1>3

\* Propose takes the number after the last.
LEMMA ProposeFacts ==
  ASSUME ThreadsInv, NEW c \in Call, Propose(c)
  PROVE  /\ last_seqnum + 1 \in Seqnum
         /\ last_seqnum' = last_seqnum + 1
         /\ c[1] \in Request /\ c[1] # None
         /\ \A s \in Seqnum : pending_entries'[s] =
              IF s = last_seqnum + 1 THEN c[1] ELSE pending_entries[s]
<1>1. last_seqnum \in 0 .. MaxSeq /\ last_seqnum < MaxSeq
  BY DEF ThreadsInv, TypeOK, Propose
<1>2. last_seqnum + 1 \in Seqnum
  BY <1>1, ThreadsAssumption DEF Seqnum
<1>3. pending_entries' = [pending_entries EXCEPT ![last_seqnum + 1] = c[1]]
  BY DEF Propose
<1>4. c[1] \in Request /\ c[1] # None
  BY ThreadsAssumption
<1> QED BY <1>2, <1>3, <1>4 DEF ThreadsInv, TypeOK, Propose

LEMMA ProposalsStep ==
  ASSUME ThreadsInv, ProposalsInv, [Next]_vars
  PROVE  ProposalsInv'
<1>1. CASE \E c \in Call : Propose(c)
  <2>1. PICK c \in Call : Propose(c)
    BY <1>1
  <2>2. UNCHANGED entries_to_commit
    BY <2>1 DEF Propose, executionVars
  <2>3. last_seqnum \in Nat /\ \A s \in Seqnum : s \in Nat
    BY ThreadsAssumption DEF ThreadsInv, TypeOK, Seqnum
  <2> QED BY <2>1, <2>2, <2>3, ProposeFacts DEF ProposalsInv
<1>2. CASE UNCHANGED <<last_seqnum, pending_entries>>
  <2>1. CASE entries_to_commit' = entries_to_commit
    BY <1>2, <2>1 DEF ProposalsInv
  <2>2. ASSUME NEW n \in Node, NEW s \in Seqnum,
               entries_to_commit' =
                 [entries_to_commit EXCEPT ![n][s] =
                    IF @ = None THEN pending_entries[s] ELSE @]
        PROVE  ProposalsInv'
    BY <1>2, <2>2 DEF ProposalsInv, ThreadsInv, TypeOK
  <2> QED BY <2>1, <2>2, RecordOrKeep
<1> QED BY <1>1, <1>2, ProposeOrKeep

\* TakeNext is the only way to work on an entry, and it takes the next one.
LEMMA TakeFacts ==
  ASSUME ThreadsInv, NEW n \in Node, NEW s \in Seqnum, TakeNext(n, s)
  PROVE  /\ last_executed_seq[n] + 1 \in Seqnum
         /\ entries_to_commit[n][last_executed_seq[n] + 1] \in Request
         /\ at[n][s] = "loop"
         /\ \A m \in Node, t \in Seqnum :
              /\ at'[m][t] = IF m = n /\ t = s THEN "execute" ELSE at[m][t]
              /\ running'[m][t] = IF m = n /\ t = s
                                  THEN last_executed_seq[n] + 1
                                  ELSE running[m][t]
         /\ \A m \in Node : last_executed_seq'[m] =
              IF m = n THEN last_executed_seq[n] + 1 ELSE last_executed_seq[m]
         /\ UNCHANGED <<call, admissionVars, proposalVars, accounts, loaded,
                        entries_to_commit, replyVars>>
<1>1. /\ last_executed_seq[n] + 1 \in Seqnum
      /\ entries_to_commit[n][last_executed_seq[n] + 1] \in Request
  BY DEF TakeNext, Executable, ThreadsInv, TypeOK
<1>2. /\ at' = [at EXCEPT ![n][s] = "execute"]
      /\ at[n][s] = "loop"
      /\ running' = [running EXCEPT ![n][s] = last_executed_seq[n] + 1]
      /\ last_executed_seq' =
           [last_executed_seq EXCEPT ![n] = last_executed_seq[n] + 1]
  BY DEF TakeNext, Taken, Moves
<1>3. UNCHANGED <<call, admissionVars, proposalVars, accounts, loaded,
                  entries_to_commit, replyVars>>
  BY DEF TakeNext
<1> QED BY <1>1, <1>2, <1>3 DEF ThreadsInv, TypeOK

\* A thread changes its own step only.
LEMMA MoveFacts ==
  ASSUME ThreadsInv, NEW n \in Node, NEW s \in Seqnum, NEW x, NEW y,
         Moves(n, s, x, y)
  PROVE  /\ at[n][s] = x
         /\ \A m \in Node, t \in Seqnum :
              at'[m][t] = IF m = n /\ t = s THEN y ELSE at[m][t]
  BY DEF Moves, ThreadsInv, TypeOK

LEMMA WorkFrame ==
  ASSUME ThreadsInv, [Next]_vars
  PROVE  \/ /\ UNCHANGED <<running, last_executed_seq>>
            /\ \A n \in Node, s \in Seqnum :
                 /\ at'[n][s] \in Working => at[n][s] \in Working
                 /\ at'[n][s] \in MidEntry => at[n][s] \in MidEntry
         \/ \E n \in Node, s \in Seqnum : TakeNext(n, s)
<1> USE DEF Working, MidEntry
<1>1. CASE \E c \in Call : Admission(c)
  BY <1>1 DEF Admission, CheckDuplicate, AnswerRead, LockSender,
     LockReceiver, Claim, Propose, executionVars
<1>2. ASSUME NEW s \in Seqnum, NEW b \in Backup, HandleAccept(s, b)
      PROVE  /\ UNCHANGED <<running, last_executed_seq>>
             /\ \A n \in Node, t \in Seqnum :
                  at'[n][t] = at[n][t] \/ at'[n][t] = "commit"
  <2>1. at' = at \/ Moves(Leader, s, "idle", "commit")
    BY <1>2 DEF HandleAccept
  <2>2. Leader \in Node
    BY ThreadsAssumption
  <2> QED BY <1>2, <2>1, <2>2, MoveFacts DEF HandleAccept
<1>3. ASSUME NEW s \in Seqnum, NEW b \in Backup, HandleCommit(b, s)
      PROVE  /\ UNCHANGED <<running, last_executed_seq>>
             /\ \A n \in Node, t \in Seqnum :
                  at'[n][t] = at[n][t] \/ at'[n][t] = "recorded"
  <2>1. b \in Node
    BY DEF Backup
  <2> QED BY <1>3, <2>1, MoveFacts DEF HandleCommit
<1>4. ASSUME NEW s \in Seqnum, CommitEntry(s)
      PROVE  /\ UNCHANGED <<running, last_executed_seq>>
             /\ \A n \in Node, t \in Seqnum :
                  at'[n][t] = at[n][t] \/ at'[n][t] = "recorded"
  <2>1. Leader \in Node
    BY ThreadsAssumption
  <2> QED BY <1>4, <2>1, MoveFacts DEF CommitEntry
<1>5. ASSUME NEW n \in Node, NEW s \in Seqnum, Execution(n, s),
             ~ TakeNext(n, s)
      PROVE  /\ UNCHANGED <<running, last_executed_seq>>
             /\ \A m \in Node, t \in Seqnum :
                  /\ at'[m][t] \in Working => at[m][t] \in Working
                  /\ at'[m][t] \in MidEntry => at[m][t] \in MidEntry
  <2>1. /\ UNCHANGED <<running, last_executed_seq>>
        /\ \/ \E y \in {"loop", "idle"} : \E x : Moves(n, s, x, y)
           \/ Moves(n, s, "execute", "reply")
           \/ Moves(n, s, "execute", "load_from")
           \/ Moves(n, s, "load_from", "store_from")
           \/ Moves(n, s, "store_from", "load_to")
           \/ Moves(n, s, "load_to", "store_to")
           \/ Moves(n, s, "store_to", "reply")
    BY <1>5 DEF Execution, TestNext, LeaveLoop, CheckBalance, LoadSender,
       LoadReceiver, Load, StoreSender, StoreReceiver, Reply
  <2> QED BY <2>1, MoveFacts
<1>6. CASE UNCHANGED vars
  BY <1>6 DEF vars, executionVars
<1> QED BY <1>1, <1>2, <1>3, <1>4, <1>5, <1>6 DEF Next

LEMMA WorkersStep ==
  ASSUME ThreadsInv, WorkersInv, [Next]_vars
  PROVE  WorkersInv'
<1>0. Leader \in Node
  BY ThreadsAssumption
<1>1. CASE /\ UNCHANGED <<running, last_executed_seq>>
           /\ \A n \in Node, s \in Seqnum :
                /\ at'[n][s] \in Working => at[n][s] \in Working
                /\ at'[n][s] \in MidEntry => at[n][s] \in MidEntry
  BY <1>0, <1>1 DEF WorkersInv
<1>2. ASSUME NEW n \in Node, NEW s \in Seqnum, TakeNext(n, s)
      PROVE  WorkersInv'
  <2>1. /\ last_executed_seq[Leader] \in Nat
        /\ \A t \in Seqnum : running[Leader][t] \in Nat
    BY <1>0, ThreadsAssumption DEF ThreadsInv, TypeOK
  <2>2. CASE n = Leader
    BY <1>0, <1>2, <2>1, <2>2, TakeFacts DEF WorkersInv
  <2>3. CASE n # Leader
    BY <1>0, <1>2, <2>3, TakeFacts DEF WorkersInv
  <2> QED BY <2>2, <2>3
<1> QED BY <1>1, <1>2, WorkFrame

\* An entry that was answered or finished stays so.
LEMMA UnansweredBefore ==
  ASSUME ThreadsInv, [Next]_vars, NEW x \in Seqnum
  PROVE  /\ Unanswered(x)' => Unanswered(x)
         /\ Unfinished(x)' => Unfinished(x)
<1>0. Leader \in Node /\ last_executed_seq[Leader] \in Nat /\ x \in Nat
  BY ThreadsAssumption DEF ThreadsInv, TypeOK, Seqnum
<1>1. CASE /\ UNCHANGED <<running, last_executed_seq>>
           /\ \A n \in Node, s \in Seqnum :
                /\ at'[n][s] \in Working => at[n][s] \in Working
                /\ at'[n][s] \in MidEntry => at[n][s] \in MidEntry
  BY <1>0, <1>1 DEF Unanswered, Unfinished, WorksOn
<1>2. ASSUME NEW n \in Node, NEW s \in Seqnum, TakeNext(n, s)
      PROVE  /\ Unanswered(x)' => Unanswered(x)
             /\ Unfinished(x)' => Unfinished(x)
  <2>1. CASE n = Leader
    BY <1>0, <1>2, <2>1, TakeFacts DEF Unanswered, Unfinished, WorksOn
  <2>2. CASE n # Leader
    BY <1>0, <1>2, <2>2, TakeFacts DEF Unanswered, Unfinished, WorksOn
  <2> QED BY <2>1, <2>2
<1> QED BY <1>1, <1>2, WorkFrame

\* A call moves along ProcessClientRequest or is finished by its reply.
LEMMA GoesFacts ==
  ASSUME ThreadsInv, NEW c \in Call, NEW x, NEW y, Goes(c, x, y)
  PROVE  /\ call[c] = x
         /\ \A d \in Call : call'[d] = IF d = c THEN y ELSE call[d]
  BY DEF Goes, ThreadsInv, TypeOK

LEMMA CallFrame ==
  ASSUME ThreadsInv, [Next]_vars, ~ \E c \in Call : Admission(c)
  PROVE  /\ UNCHANGED <<pending_or_completed_ts, handled_ro_requests,
                        pending_entries, last_seqnum>>
         /\ \A c \in Call : call'[c] = call[c] \/ call'[c] = "finished"
<1>1. ~ \E c \in Call : Propose(c)
  BY DEF Admission
<1>2. UNCHANGED <<last_seqnum, pending_entries>>
  BY <1>1, ProposeOrKeep
<1>3. ASSUME NEW n \in Node, NEW s \in Seqnum, Execution(n, s)
      PROVE  /\ UNCHANGED <<pending_or_completed_ts, handled_ro_requests>>
             /\ \A c \in Call : call'[c] = call[c] \/ call'[c] = "finished"
  <2>1. CASE Reply(n, s)
    BY <2>1 DEF Reply, admissionVars, ThreadsInv, TypeOK
  <2>2. CASE ~ Reply(n, s)
    BY <1>3, <2>2 DEF Execution, TestNext, TakeNext, LeaveLoop,
       CheckBalance, LoadSender, LoadReceiver, Load, StoreSender,
       StoreReceiver, admissionVars
  <2> QED BY <2>1, <2>2
<1>4. ASSUME NEW s \in Seqnum, NEW b \in Backup,
             HandleAccept(s, b) \/ HandleCommit(b, s)
      PROVE  UNCHANGED <<call, pending_or_completed_ts, handled_ro_requests>>
  BY <1>4 DEF HandleAccept, HandleCommit, admissionVars
<1>5. ASSUME NEW s \in Seqnum, CommitEntry(s)
      PROVE  UNCHANGED <<call, pending_or_completed_ts, handled_ro_requests>>
  BY <1>5 DEF CommitEntry, admissionVars
<1>6. CASE UNCHANGED vars
  BY <1>2, <1>6 DEF vars, admissionVars
<1> QED BY <1>2, <1>3, <1>4, <1>5, <1>6 DEF Next

\* The claim under dedup_mutex_ lets one call of a request through.
LEMMA ClaimsStep ==
  ASSUME ThreadsInv, ProposalsInv, ClaimsInv, [Next]_vars
  PROVE  ClaimsInv'
<1>1. CASE ~ \E c \in Call : Admission(c)
  BY <1>1, CallFrame DEF ClaimsInv
<1>2. ASSUME NEW c \in Call, CheckDuplicate(c) PROVE ClaimsInv'
  BY <1>2, GoesFacts
  DEF CheckDuplicate, ClaimsInv, admissionVars, proposalVars
<1>3. ASSUME NEW c \in Call, AnswerRead(c) PROVE ClaimsInv'
  BY <1>3, GoesFacts DEF AnswerRead, ClaimsInv, proposalVars
<1>4. ASSUME NEW c \in Call, LockSender(c) PROVE ClaimsInv'
  BY <1>4, GoesFacts DEF LockSender, ClaimsInv, proposalVars
<1>5. ASSUME NEW c \in Call, LockReceiver(c) PROVE ClaimsInv'
  BY <1>5, GoesFacts DEF LockReceiver, ClaimsInv, proposalVars
<1>6. ASSUME NEW c \in Call, Claim(c) PROVE ClaimsInv'
  BY <1>6, GoesFacts, ThreadsAssumption
  DEF Claim, Claimed, ClaimsInv, proposalVars
<1>7. ASSUME NEW c \in Call, Propose(c) PROVE ClaimsInv'
  <2>1. UNCHANGED pending_or_completed_ts
    BY <1>7 DEF Propose, admissionVars
  <2>2. Goes(c, "claimed", "proposed")
    BY <1>7 DEF Propose
  <2> QED BY <1>7, <2>1, <2>2, GoesFacts, ProposeFacts DEF ClaimsInv
<1> QED BY <1>1, <1>2, <1>3, <1>4, <1>5, <1>6, <1>7 DEF Admission

\* A thread at work at the leader has an entry of the log: the request that
\* was proposed under its number.
LEMMA WorkFacts ==
  ASSUME ThreadsInv, ProposalsInv, NEW s \in Seqnum,
         at[Leader][s] \in Working
  PROVE  /\ running[Leader][s] \in Seqnum
         /\ Executing(Leader, s) \in Request
         /\ Executing(Leader, s) # None
         /\ pending_entries[running[Leader][s]] = Executing(Leader, s)
<1>1. Leader \in Node
  BY ThreadsAssumption
<1>2. /\ running[Leader][s] \in Seqnum
      /\ Executing(Leader, s) \in Request
  BY <1>1 DEF ThreadsInv, WorkIsTaken
<1> QED BY <1>1, <1>2, ThreadsAssumption DEF ProposalsInv, Executing

\* answers and handled_ro_requests change in AnswerRead and Reply only.
LEMMA AnswerOrKeep ==
  ASSUME [Next]_vars
  PROVE  \/ UNCHANGED <<answers, handled_ro_requests>>
         \/ \E c \in Call : AnswerRead(c)
         \/ \E s \in Seqnum : Reply(Leader, s)
<1>1. ASSUME NEW c \in Call, Admission(c), ~ AnswerRead(c)
      PROVE  UNCHANGED <<answers, handled_ro_requests>>
  BY <1>1 DEF Admission, CheckDuplicate, LockSender, LockReceiver, Claim,
              Propose, admissionVars, replyVars
<1>2. ASSUME NEW s \in Seqnum, NEW b \in Backup,
             HandleAccept(s, b) \/ HandleCommit(b, s)
      PROVE  UNCHANGED <<answers, handled_ro_requests>>
  BY <1>2 DEF HandleAccept, HandleCommit, admissionVars, replyVars
<1>3. ASSUME NEW s \in Seqnum, CommitEntry(s)
      PROVE  UNCHANGED <<answers, handled_ro_requests>>
  BY <1>3 DEF CommitEntry, admissionVars, replyVars
<1>4. ASSUME NEW n \in Node, NEW s \in Seqnum, Execution(n, s),
             ~ (n = Leader /\ Reply(n, s))
      PROVE  UNCHANGED <<answers, handled_ro_requests>>
  BY <1>4 DEF Execution, TestNext, TakeNext, LeaveLoop, CheckBalance,
              LoadSender, LoadReceiver, Load, StoreSender, StoreReceiver,
              Reply, admissionVars, replyVars
<1>5. CASE UNCHANGED vars
  BY <1>5 DEF vars, admissionVars, replyVars
<1> QED BY <1>1, <1>2, <1>3, <1>4, <1>5 DEF Next

\* A reply is the first one of its request, and the entry is done with it.
LEMMA AnswersStep ==
  ASSUME ThreadsInv, ProposalsInv, WorkersInv, ClaimsInv, AnswersInv,
         [Next]_vars
  PROVE  AnswersInv'
<1>0. \A x \in Seqnum : Unanswered(x)' => Unanswered(x)
  BY UnansweredBefore
<1>1. CASE UNCHANGED <<answers, handled_ro_requests>>
  <2>1. CASE UNCHANGED <<last_seqnum, pending_entries>>
    BY <1>0, <1>1, <2>1 DEF AnswersInv
  <2>2. ASSUME NEW c \in Call, Propose(c) PROVE AnswersInv'
    <3>1. /\ call[c] = "claimed" /\ c[1] \in Request \ ReadOnly
          /\ \A s \in Seqnum : pending_entries[s] # c[1]
      BY <2>2, ProposeFacts DEF Propose, Goes, ClaimsInv
    <3>2. answers[c[1]] = 0
      BY <3>1 DEF AnswersInv
    <3>3. /\ last_seqnum + 1 \in Seqnum
          /\ \A s \in Seqnum : pending_entries'[s] =
               IF s = last_seqnum + 1 THEN c[1] ELSE pending_entries[s]
          /\ pending_entries[last_seqnum + 1] = None
      <4>1. last_seqnum \in Int
        BY DEF ThreadsInv, TypeOK
      <4> QED BY <2>2, <4>1, ProposeFacts DEF ProposalsInv
    <3>4. \A r \in Request : (\A s \in Seqnum : pending_entries'[s] # r) =>
                               (\A s \in Seqnum : pending_entries[s] # r)
      BY <3>3, ThreadsAssumption
    <3> QED BY <1>0, <1>1, <3>2, <3>3, <3>4 DEF AnswersInv
  <2> QED BY <2>1, <2>2, ProposeOrKeep
<1>2. ASSUME NEW c \in Call, AnswerRead(c) PROVE AnswersInv'
  <2>1. /\ c[1] \in ReadOnly /\ c[1] \in Request
        /\ UNCHANGED <<last_seqnum, pending_entries>>
        /\ IF c[1] \in handled_ro_requests
           THEN UNCHANGED <<answers, handled_ro_requests>>
           ELSE /\ handled_ro_requests' = handled_ro_requests \cup {c[1]}
                /\ answers' = [answers EXCEPT ![c[1]] = @ + 1]
    BY <1>2, ThreadsAssumption
    DEF AnswerRead, ReadHandledBefore, proposalVars, replyVars
  <2>2. CASE c[1] \in handled_ro_requests
    BY <1>0, <2>1, <2>2 DEF AnswersInv
  <2>3. CASE c[1] \notin handled_ro_requests
    <3>1. answers[c[1]] = 0
      BY <2>1, <2>3 DEF AnswersInv
    <3>2. \A s \in Seqnum : pending_entries[s] # c[1]
      BY <2>1, ThreadsAssumption DEF ClaimsInv
    <3>3. /\ answers' \in [Request -> {0, 1}]
          /\ \A r \in Request :
               answers'[r] = IF r = c[1] THEN 1 ELSE answers[r]
      BY <2>1, <2>3, <3>1 DEF AnswersInv
    <3>4. \A s \in Seqnum : pending_entries[s] # None =>
                              pending_entries[s] \in Request
      BY DEF ThreadsInv, TypeOK
    <3> QED BY <1>0, <2>1, <2>3, <3>2, <3>3, <3>4, ThreadsAssumption
            DEF AnswersInv
  <2> QED BY <2>2, <2>3
<1>3. ASSUME NEW s \in Seqnum, Reply(Leader, s) PROVE AnswersInv'
  <2> DEFINE r == Executing(Leader, s)
  <2>1. /\ Moves(Leader, s, "reply", "loop")
        /\ UNCHANGED <<handled_ro_requests, pending_entries, running,
                       last_executed_seq>>
        /\ answers' = [answers EXCEPT ![r] = @ + 1]
    BY <1>3 DEF Reply, admissionVars
  <2>2. at[Leader][s] = "reply" /\ at[Leader][s] \in Working
    BY <2>1 DEF Moves, Working
  <2>3. PICK x \in Seqnum : /\ x = running[Leader][s]
                             /\ r \in Request /\ r # None
                             /\ pending_entries[x] = r
    BY <2>2, WorkFacts
  <2>4. r \notin ReadOnly
    BY <2>3 DEF ClaimsInv
  <2>5. answers[r] = 0
    BY <2>2, <2>3 DEF AnswersInv, Unanswered, WorksOn
  <2>6. /\ answers' \in [Request -> {0, 1}]
        /\ \A q \in Request : answers'[q] = IF q = r THEN 1 ELSE answers[q]
    BY <2>1, <2>3, <2>5 DEF AnswersInv
  <2>7. ~ Unanswered(x)'
    <3>1. /\ at'[Leader][s] = "loop"
          /\ \A t \in Seqnum : t # s => at'[Leader][t] = at[Leader][t]
      BY <2>1, ThreadsAssumption, MoveFacts
    <3>2. x <= last_executed_seq[Leader]
      BY <2>2, <2>3 DEF WorkersInv
    <3>3. \A t \in Seqnum : at'[Leader][t] \in Working => running[Leader][t] # x
      BY <2>2, <2>3, <3>1 DEF WorkersInv, Working, MidEntry
    <3>4. last_executed_seq[Leader] \in Int /\ x \in Int
      BY <2>3, ThreadsAssumption DEF ThreadsInv, TypeOK, Seqnum
    <3> QED BY <2>1, <3>2, <3>3, <3>4 DEF Unanswered, WorksOn
  <2>8. \A y \in Seqnum : pending_entries[y] = r => y = x
    BY <2>3 DEF ClaimsInv
  <2>9. \A y \in Seqnum : pending_entries[y] # None =>
                            pending_entries[y] \in Request
    BY DEF ThreadsInv, TypeOK
  <2>10. \A q \in ReadOnly : q \in Request /\ q # r
    BY <2>4, ThreadsAssumption
  <2> HIDE DEF r
  <2>11. \A y \in Seqnum : pending_entries'[y] # None /\ Unanswered(y)' =>
           answers'[pending_entries'[y]] = 0
    BY <1>0, <2>1, <2>6, <2>7, <2>8, <2>9 DEF AnswersInv
  <2> QED BY <2>1, <2>3, <2>6, <2>10, <2>11 DEF AnswersInv
<1> QED BY <1>1, <1>2, <1>3, AnswerOrKeep

-----------------------------------------------------------------------------
\* Account locks.

\* When nobody holds more than before, exclusion is kept.
LEMMA HoldingLess ==
  ASSUME LocksInv,
         \A c \in Call : /\ CallHolds(c)' \subseteq CallHolds(c)
                         /\ CallHolds(c)' \subseteq balance_locks',
         \A x \in Seqnum : /\ EntryHolds(x)' \subseteq EntryHolds(x)
                           /\ EntryHolds(x)' \subseteq balance_locks'
  PROVE  LocksInv'
<1>1. \A c, d \in Call : c # d => (CallHolds(c) \cap CallHolds(d))' = {}
  BY DEF LocksInv
<1>2. \A x, y \in Seqnum : x # y => (EntryHolds(x) \cap EntryHolds(y))' = {}
  BY DEF LocksInv
<1>3. \A c \in Call, x \in Seqnum : (CallHolds(c) \cap EntryHolds(x))' = {}
  BY DEF LocksInv
<1> QED BY <1>1, <1>2, <1>3 DEF LocksInv

\* An entry holds nothing new unless it is being proposed.
LEMMA EntryHoldsLess ==
  ASSUME ThreadsInv, [Next]_vars, UNCHANGED pending_entries, NEW x \in Seqnum
  PROVE  EntryHolds(x)' \subseteq EntryHolds(x)
  BY UnansweredBefore DEF EntryHolds, AccountsOf

\* A call that goes on to a step in which it holds as much or less.
LEMMA CallHoldsLess ==
  ASSUME ThreadsInv, NEW c \in Call, NEW x, NEW y, Goes(c, x, y),
         \/ y \notin {"sender_locked", "locked", "claimed"}
         \/ x = "locked" /\ y = "claimed"
  PROVE  \A d \in Call : CallHolds(d)' \subseteq CallHolds(d)
  BY GoesFacts DEF CallHolds

\* The one who changes the locks of an execution is a thread that is done with
\* its entry: it releases what that entry holds.
LEMMA ReleaseOrKeep ==
  ASSUME [Next]_vars, ~ \E c \in Call : Admission(c)
  PROVE  \/ UNCHANGED balance_locks
         \/ \E s \in Seqnum :
              /\ \/ Moves(Leader, s, "execute", "reply")
                 \/ Moves(Leader, s, "store_to", "reply")
              /\ balance_locks' =
                   balance_locks \ AccountsOf(Executing(Leader, s))
              /\ UNCHANGED <<running, last_executed_seq>>
<1>1. ASSUME NEW s \in Seqnum, NEW b \in Backup,
             HandleAccept(s, b) \/ HandleCommit(b, s)
      PROVE  UNCHANGED balance_locks
  BY <1>1 DEF HandleAccept, HandleCommit, admissionVars
<1>2. ASSUME NEW s \in Seqnum, CommitEntry(s)
      PROVE  UNCHANGED balance_locks
  BY <1>2 DEF CommitEntry, admissionVars
<1>3. ASSUME NEW n \in Node, NEW s \in Seqnum, CheckBalance(n, s)
      PROVE  \/ UNCHANGED balance_locks
             \/ /\ n = Leader
                /\ Moves(Leader, s, "execute", "reply")
                /\ balance_locks' =
                     balance_locks \ AccountsOf(Executing(Leader, s))
                /\ UNCHANGED <<running, last_executed_seq>>
  <2>1. CASE n = Leader /\ Short(n, Executing(n, s))
    BY <1>3, <2>1 DEF CheckBalance, Locks, AccountsOf
  <2>2. CASE n # Leader \/ ~ Short(n, Executing(n, s))
    BY <1>3, <2>2 DEF CheckBalance, Locks
  <2> QED BY <2>1, <2>2
<1>4. ASSUME NEW n \in Node, NEW s \in Seqnum, StoreReceiver(n, s)
      PROVE  \/ UNCHANGED balance_locks
             \/ /\ n = Leader
                /\ Moves(Leader, s, "store_to", "reply")
                /\ balance_locks' =
                     balance_locks \ AccountsOf(Executing(Leader, s))
                /\ UNCHANGED <<running, last_executed_seq>>
  <2>1. CASE n = Leader
    BY <1>4, <2>1 DEF StoreReceiver, Locks, AccountsOf
  <2>2. CASE n # Leader
    BY <1>4, <2>2 DEF StoreReceiver, Locks
  <2> QED BY <2>1, <2>2
<1>5. ASSUME NEW n \in Node, NEW s \in Seqnum, Execution(n, s),
             ~ CheckBalance(n, s), ~ StoreReceiver(n, s)
      PROVE  UNCHANGED balance_locks
  BY <1>5 DEF Execution, TestNext, TakeNext, LeaveLoop, LoadSender,
              LoadReceiver, Load, StoreSender, Reply, admissionVars
<1>6. CASE UNCHANGED vars
  BY <1>6 DEF vars, admissionVars
<1> QED BY <1>1, <1>2, <1>3, <1>4, <1>5, <1>6 DEF Next

\* An account is taken only when nobody holds it, and given back by the call
\* that holds it.
LEMMA LockingStep ==
  ASSUME ThreadsInv, ClaimsInv, LocksInv, [Next]_vars,
         NEW c \in Call, LockSender(c) \/ LockReceiver(c)
  PROVE  LocksInv'
<1>0. /\ UNCHANGED pending_entries
      /\ \A x \in Seqnum : EntryHolds(x)' \subseteq EntryHolds(x)
  <2>1. UNCHANGED pending_entries
    BY DEF LockSender, LockReceiver, proposalVars
  <2> QED BY <2>1, EntryHoldsLess
<1>1. CASE LockSender(c)
  <2> DEFINE a == From[c[1]]
  <2>1. CASE a \in balance_locks
    <3>1. Goes(c, "checked", "finished") /\ balance_locks' = balance_locks
      BY <1>1, <2>1 DEF LockSender
    <3>2. \A d \in Call : CallHolds(d)' \subseteq CallHolds(d)
      BY <3>1, CallHoldsLess
    <3> QED BY <1>0, <3>1, <3>2, HoldingLess DEF LocksInv
  <2>2. CASE a \notin balance_locks
    <3>1. /\ Goes(c, "checked", "sender_locked")
          /\ balance_locks' = balance_locks \cup {a}
      BY <1>1, <2>2 DEF LockSender
    <3>2. /\ CallHolds(c)' = {a}
          /\ \A d \in Call : d # c => CallHolds(d)' = CallHolds(d)
      BY <3>1, GoesFacts DEF CallHolds
    <3> HIDE DEF a
    <3>3. /\ \A d \in Call : a \notin CallHolds(d)
          /\ \A x \in Seqnum : a \notin EntryHolds(x)'
      BY <1>0, <2>2 DEF LocksInv
    <3>4. \A d, e \in Call : d # e => (CallHolds(d) \cap CallHolds(e))' = {}
      BY <3>2, <3>3 DEF LocksInv
    <3>5. \A x, y \in Seqnum : x # y =>
            (EntryHolds(x) \cap EntryHolds(y))' = {}
      BY <1>0 DEF LocksInv
    <3>6. \A d \in Call, x \in Seqnum :
            (CallHolds(d) \cap EntryHolds(x))' = {}
      BY <1>0, <3>2, <3>3 DEF LocksInv
    <3>7. /\ \A d \in Call : CallHolds(d)' \subseteq balance_locks'
          /\ \A x \in Seqnum : EntryHolds(x)' \subseteq balance_locks'
      BY <1>0, <3>1, <3>2 DEF LocksInv
    <3> QED BY <3>4, <3>5, <3>6, <3>7 DEF LocksInv
  <2> QED BY <2>1, <2>2
<1>2. CASE LockReceiver(c)
  <2> DEFINE a == To[c[1]]
             f == From[c[1]]
  <2>0. CallHolds(c) = {f}
    BY <1>2 DEF LockReceiver, Goes, CallHolds
  <2>1. CASE a \in balance_locks
    <3>1. Goes(c, "sender_locked", "finished")
          /\ balance_locks' = balance_locks \ {f}
      BY <1>2, <2>1 DEF LockReceiver
    <3>2. /\ CallHolds(c)' = {}
          /\ \A d \in Call : d # c => CallHolds(d)' = CallHolds(d)
      BY <3>1, GoesFacts DEF CallHolds
    <3> HIDE DEF f
    <3>3. /\ \A d \in Call : d # c => f \notin CallHolds(d)
          /\ \A x \in Seqnum : f \notin EntryHolds(x)
      BY <2>0 DEF LocksInv
    <3>4. /\ \A d \in Call : /\ CallHolds(d)' \subseteq CallHolds(d)
                             /\ CallHolds(d)' \subseteq balance_locks'
          /\ \A x \in Seqnum : EntryHolds(x)' \subseteq balance_locks'
      BY <1>0, <3>1, <3>2, <3>3 DEF LocksInv
    <3> QED BY <1>0, <3>4, HoldingLess
  <2>2. CASE a \notin balance_locks
    <3>1. /\ Goes(c, "sender_locked", "locked")
          /\ balance_locks' = balance_locks \cup {a}
      BY <1>2, <2>2 DEF LockReceiver
    <3>2. /\ CallHolds(c)' = CallHolds(c) \cup {a}
          /\ \A d \in Call : d # c => CallHolds(d)' = CallHolds(d)
      BY <2>0, <3>1, GoesFacts DEF CallHolds, AccountsOf
    <3> HIDE DEF a
    <3>3. /\ \A d \in Call : a \notin CallHolds(d)
          /\ \A x \in Seqnum : a \notin EntryHolds(x)
      BY <2>2 DEF LocksInv
    <3>4. \A d, e \in Call : d # e => (CallHolds(d) \cap CallHolds(e))' = {}
      BY <3>2, <3>3 DEF LocksInv
    <3>5. \A x, y \in Seqnum : x # y =>
            (EntryHolds(x) \cap EntryHolds(y))' = {}
      BY <1>0 DEF LocksInv
    <3>6. \A d \in Call, x \in Seqnum :
            (CallHolds(d) \cap EntryHolds(x))' = {}
      BY <1>0, <3>2, <3>3 DEF LocksInv
    <3>7. /\ \A d \in Call : CallHolds(d)' \subseteq balance_locks'
          /\ \A x \in Seqnum : EntryHolds(x)' \subseteq balance_locks'
      BY <1>0, <3>1, <3>2 DEF LocksInv
    <3> QED BY <3>4, <3>5, <3>6, <3>7 DEF LocksInv
  <2> QED BY <2>1, <2>2
<1> QED BY <1>1, <1>2

\* Propose hands the two accounts over from the call to its entry.
LEMMA ProposeKeepsLocks ==
  ASSUME ThreadsInv, ProposalsInv, LocksInv, [Next]_vars,
         NEW c \in Call, Propose(c)
  PROVE  LocksInv'
<1> DEFINE A == AccountsOf(c[1])
<1>1. PICK s \in Seqnum :
        /\ s = last_seqnum + 1
        /\ pending_entries[s] = None
        /\ pending_entries'[s] = c[1] /\ c[1] # None
        /\ \A x \in Seqnum : x # s => pending_entries'[x] = pending_entries[x]
  <2>1. last_seqnum \in Int
    BY DEF ThreadsInv, TypeOK
  <2> QED BY <2>1, ProposeFacts DEF ProposalsInv
<1>2. Goes(c, "claimed", "proposed") /\ UNCHANGED balance_locks
  BY DEF Propose, admissionVars
<1>3. /\ CallHolds(c) = A
      /\ CallHolds(c)' = {}
      /\ \A d \in Call : d # c => CallHolds(d)' = CallHolds(d)
  BY <1>2, GoesFacts DEF CallHolds
<1>4. /\ EntryHolds(s)' \subseteq A
      /\ \A x \in Seqnum : x # s => EntryHolds(x)' \subseteq EntryHolds(x)
  BY <1>1, UnansweredBefore DEF EntryHolds, AccountsOf
<1> HIDE DEF A
<1>5. /\ \A d \in Call : d # c => CallHolds(d) \cap A = {}
      /\ \A x \in Seqnum : EntryHolds(x) \cap A = {}
      /\ A \subseteq balance_locks
  BY <1>3 DEF LocksInv
<1>6. \A d, e \in Call : d # e => (CallHolds(d) \cap CallHolds(e))' = {}
  BY <1>3 DEF LocksInv
<1>7. \A x, y \in Seqnum : x # y => (EntryHolds(x) \cap EntryHolds(y))' = {}
  BY <1>4, <1>5 DEF LocksInv
<1>8. \A d \in Call, x \in Seqnum : (CallHolds(d) \cap EntryHolds(x))' = {}
  BY <1>3, <1>4, <1>5 DEF LocksInv
<1>9. /\ \A d \in Call : CallHolds(d)' \subseteq balance_locks'
      /\ \A x \in Seqnum : EntryHolds(x)' \subseteq balance_locks'
  BY <1>2, <1>3, <1>4, <1>5 DEF LocksInv
<1> QED BY <1>6, <1>7, <1>8, <1>9 DEF LocksInv

\* A thread in the middle of an entry holds the entry's accounts.
LEMMA MidEntryHolds ==
  ASSUME ThreadsInv, ProposalsInv, NEW s \in Seqnum,
         at[Leader][s] \in MidEntry
  PROVE  /\ running[Leader][s] \in Seqnum
         /\ EntryHolds(running[Leader][s]) =
              AccountsOf(Executing(Leader, s))
<1>1. at[Leader][s] \in Working
  BY DEF MidEntry, Working
<1> QED BY <1>1, WorkFacts DEF EntryHolds, Unfinished, WorksOn

\* A thread that is done with its entry releases what the entry held.
LEMMA ReleaseKeepsLocks ==
  ASSUME ThreadsInv, ProposalsInv, WorkersInv, LocksInv, [Next]_vars,
         ~ \E c \in Call : Admission(c),
         NEW s \in Seqnum,
         \/ Moves(Leader, s, "execute", "reply")
         \/ Moves(Leader, s, "store_to", "reply"),
         balance_locks' = balance_locks \ AccountsOf(Executing(Leader, s)),
         UNCHANGED <<running, last_executed_seq>>
  PROVE  LocksInv'
<1> DEFINE A == AccountsOf(Executing(Leader, s))
<1>1. at[Leader][s] \in MidEntry /\ at[Leader][s] \in Working
  BY DEF Moves, MidEntry, Working
<1>2. PICK x \in Seqnum : x = running[Leader][s] /\ EntryHolds(x) = A
  BY <1>1, MidEntryHolds
<1>3. EntryHolds(x)' = {}
  <2>1. /\ at'[Leader][s] = "reply"
        /\ \A t \in Seqnum : t # s => at'[Leader][t] = at[Leader][t]
    BY ThreadsAssumption, MoveFacts
  <2>2. x <= last_executed_seq[Leader]
    BY <1>1, <1>2 DEF WorkersInv
  <2>3. \A t \in Seqnum : at'[Leader][t] \in MidEntry => running[Leader][t] # x
    BY <1>1, <1>2, <2>1 DEF WorkersInv, MidEntry, Working
  <2>4. last_executed_seq[Leader] \in Int /\ x \in Int
    BY ThreadsAssumption DEF ThreadsInv, TypeOK, Seqnum
  <2>5. ~ Unfinished(x)'
    BY <2>2, <2>3, <2>4 DEF Unfinished, WorksOn
  <2> QED BY <2>5 DEF EntryHolds
<1>4. UNCHANGED pending_entries /\ \A c \in Call : CallHolds(c)' \subseteq CallHolds(c)
  BY CallFrame DEF CallHolds
<1>5. \A y \in Seqnum : EntryHolds(y)' \subseteq EntryHolds(y)
  BY <1>4, EntryHoldsLess
<1> HIDE DEF A
<1>6. /\ \A c \in Call : CallHolds(c) \cap A = {}
      /\ \A y \in Seqnum : y # x => EntryHolds(y) \cap A = {}
  BY <1>2 DEF LocksInv
<1>7. balance_locks' = balance_locks \ A
  BY DEF A
<1>8. /\ \A c \in Call : CallHolds(c)' \subseteq balance_locks'
      /\ \A y \in Seqnum : EntryHolds(y)' \subseteq balance_locks'
  BY <1>3, <1>4, <1>5, <1>6, <1>7 DEF LocksInv
<1> QED BY <1>4, <1>5, <1>8, HoldingLess

LEMMA LocksStep ==
  ASSUME ThreadsInv, ProposalsInv, WorkersInv, ClaimsInv, LocksInv,
         [Next]_vars
  PROVE  LocksInv'
<1>1. ASSUME NEW c \in Call, LockSender(c) \/ LockReceiver(c) PROVE LocksInv'
  BY <1>1, LockingStep
<1>2. ASSUME NEW c \in Call, Propose(c) PROVE LocksInv'
  BY <1>2, ProposeKeepsLocks
<1>3. ASSUME NEW c \in Call, CheckDuplicate(c) \/ AnswerRead(c) \/ Claim(c)
      PROVE  LocksInv'
  <2>1. UNCHANGED balance_locks /\ UNCHANGED pending_entries
    BY <1>3 DEF CheckDuplicate, AnswerRead, Claim, admissionVars, proposalVars
  <2>2. \A d \in Call : CallHolds(d)' \subseteq CallHolds(d)
    BY <1>3, CallHoldsLess DEF CheckDuplicate, AnswerRead, Claim
  <2>3. \A x \in Seqnum : EntryHolds(x)' \subseteq EntryHolds(x)
    BY <2>1, EntryHoldsLess
  <2> QED BY <2>1, <2>2, <2>3, HoldingLess DEF LocksInv
<1>4. CASE ~ \E c \in Call : Admission(c)
  <2>1. CASE UNCHANGED balance_locks
    <3>1. /\ UNCHANGED pending_entries
          /\ \A c \in Call : CallHolds(c)' \subseteq CallHolds(c)
      BY <1>4, CallFrame DEF CallHolds
    <3>2. \A x \in Seqnum : EntryHolds(x)' \subseteq EntryHolds(x)
      BY <3>1, EntryHoldsLess
    <3> QED BY <2>1, <3>1, <3>2, HoldingLess DEF LocksInv
  <2>2. CASE ~ UNCHANGED balance_locks
    BY <1>4, <2>2, ReleaseOrKeep, ReleaseKeepsLocks
  <2> QED BY <2>1, <2>2
<1> QED BY <1>1, <1>2, <1>3, <1>4 DEF Admission

-----------------------------------------------------------------------------
\* Balances.

\* What executing one transfer does to each account.
LEMMA AppliedFacts ==
  ASSUME NEW b \in [Account -> Nat], NEW r \in Request, From[r] # To[r]
  PROVE  /\ Applied(b, r) \in [Account -> Nat]
         /\ Applied(b, r)[From[r]] = IF b[From[r]] < Amount[r] THEN b[From[r]]
                                     ELSE b[From[r]] - Amount[r]
         /\ Applied(b, r)[To[r]] = IF b[From[r]] < Amount[r] THEN b[To[r]]
                                   ELSE b[To[r]] + Amount[r]
         /\ \A a \in Account \ AccountsOf(r) : Applied(b, r)[a] = b[a]
<1>1. From[r] \in Account /\ To[r] \in Account /\ Amount[r] \in Nat
  BY ThreadsAssumption
<1>2. CASE b[From[r]] < Amount[r]
  BY <1>2 DEF Applied
<1>3. CASE ~ (b[From[r]] < Amount[r])
  <2>1. Applied(b, r) = [b EXCEPT ![From[r]] = @ - Amount[r],
                                  ![To[r]] = @ + Amount[r]]
    BY <1>3 DEF Applied
  <2> QED BY <1>1, <1>3, <2>1 DEF AccountsOf
<1> QED BY <1>2, <1>3

\* An entry is not replaced while a thread works on it.
LEMMA ExecutingKept ==
  ASSUME ThreadsInv, [Next]_vars, NEW t \in Seqnum,
         at[Leader][t] \in Working
  PROVE  Executing(Leader, t)' = Executing(Leader, t)
<1>1. Leader \in Node
  BY ThreadsAssumption
<1>2. running'[Leader][t] = running[Leader][t]
  BY <1>1, WorkFrame, TakeFacts DEF Working, MidEntry
<1>3. /\ running[Leader][t] \in Seqnum
      /\ entries_to_commit[Leader][running[Leader][t]] # None
  BY <1>1, ThreadsAssumption DEF ThreadsInv, WorkIsTaken, Executing
<1>4. \A x \in Seqnum : entries_to_commit[Leader][x] # None =>
        entries_to_commit'[Leader][x] = entries_to_commit[Leader][x]
  <2>1. ASSUME NEW n \in Node, NEW u \in Seqnum,
               entries_to_commit' =
                 [entries_to_commit EXCEPT ![n][u] =
                    IF @ = None THEN pending_entries[u] ELSE @],
               NEW x \in Seqnum, entries_to_commit[Leader][x] # None
        PROVE  entries_to_commit'[Leader][x] = entries_to_commit[Leader][x]
    BY <1>1, <2>1 DEF ThreadsInv, TypeOK
  <2> QED BY <2>1, RecordOrKeep
<1> QED BY <1>2, <1>3, <1>4 DEF Executing

\* Threads in the middle of different entries have no account in common, and
\* none with the entry that is taken next.
LEMMA MidApart ==
  ASSUME ThreadsInv, ProposalsInv, WorkersInv, LocksInv,
         NEW s \in Seqnum, NEW t \in Seqnum, s # t,
         at[Leader][s] \in MidEntry, at[Leader][t] \in MidEntry
  PROVE  AccountsOf(Executing(Leader, s)) \cap AccountsOf(Executing(Leader, t))
           = {}
<1>1. running[Leader][s] # running[Leader][t]
  BY DEF WorkersInv, MidEntry, Working
<1> QED BY <1>1, MidEntryHolds DEF LocksInv

LEMMA NextApart ==
  ASSUME ThreadsInv, ProposalsInv, WorkersInv, LocksInv,
         NEW x \in Seqnum, x > last_executed_seq[Leader],
         entries_to_commit[Leader][x] # None,
         NEW t \in Seqnum, at[Leader][t] \in MidEntry
  PROVE  AccountsOf(entries_to_commit[Leader][x])
           \cap AccountsOf(Executing(Leader, t)) = {}
<1>1. Leader \in Node
  BY ThreadsAssumption
<1>2. running[Leader][t] <= last_executed_seq[Leader]
  BY DEF WorkersInv, MidEntry, Working
<1>3. running[Leader][t] # x
  BY <1>1, <1>2 DEF ThreadsInv, TypeOK, Seqnum
<1>4. EntryHolds(x) = AccountsOf(entries_to_commit[Leader][x])
  BY <1>1 DEF ProposalsInv, EntryHolds, Unfinished
<1> QED BY <1>3, <1>4, MidEntryHolds DEF LocksInv

\* Steps that touch neither the leader's balances nor a thread of the leader
\* in the middle of an entry.
LEMMA SerialKept ==
  ASSUME ThreadsInv, SerialInv, [Next]_vars,
         serial' \in [Node -> [Account -> Nat]],
         accounts'[Leader] = accounts[Leader],
         serial'[Leader] = serial[Leader],
         loaded'[Leader] = loaded[Leader],
         \A t \in Seqnum :
           at[Leader][t] \in MidEntry \/ at'[Leader][t] \in MidEntry =>
             at'[Leader][t] = at[Leader][t]
  PROVE  SerialInv'
<1>1. \A t \in Seqnum : at[Leader][t] \in MidEntry =>
        Executing(Leader, t)' = Executing(Leader, t)
  BY ExecutingKept DEF MidEntry, Working
<1>2. ASSUME NEW t \in Seqnum
      PROVE  Pending(t, accounts[Leader], serial[Leader])'
  <2>1. CASE at'[Leader][t] \in MidEntry
    <3>1. /\ at'[Leader][t] = at[Leader][t]
          /\ Executing(Leader, t)' = Executing(Leader, t)
      BY <1>1, <2>1
    <3>2. Pending(t, accounts[Leader], serial[Leader])
      BY DEF SerialInv
    <3> QED BY <3>1, <3>2 DEF Pending
  <2>2. CASE at'[Leader][t] \notin MidEntry
    BY <2>2 DEF Pending, MidEntry
  <2> QED BY <2>1, <2>2
<1>3. ASSUME NEW a \in Account,
             \A t \in Seqnum : at'[Leader][t] \in MidEntry =>
               a \notin AccountsOf(Executing(Leader, t)')
      PROVE  accounts'[Leader][a] = serial'[Leader][a]
  <2>1. \A t \in Seqnum : at[Leader][t] \in MidEntry =>
          a \notin AccountsOf(Executing(Leader, t))
    BY <1>1, <1>3
  <2> QED BY <2>1 DEF SerialInv
<1>4. \A a \in Account :
        (\A t \in Seqnum : at'[Leader][t] \in MidEntry =>
           a \notin AccountsOf(Executing(Leader, t))')
        => accounts'[Leader][a] = serial'[Leader][a]
  BY <1>3 DEF AccountsOf
<1> QED BY <1>2, <1>4 DEF SerialInv

\* A step of a thread in the middle of an entry that changes at most the
\* entry's accounts and leaves them as its next step expects, or done.
LEMMA MidStep ==
  ASSUME ThreadsInv, ProposalsInv, WorkersInv, LocksInv, SerialInv,
         [Next]_vars, NEW s \in Seqnum, at[Leader][s] \in MidEntry,
         UNCHANGED serial,
         \A t \in Seqnum : t # s => /\ at'[Leader][t] = at[Leader][t]
                                    /\ loaded'[Leader][t] = loaded[Leader][t],
         accounts'[Leader] \in [Account -> Nat],
         \A a \in Account \ AccountsOf(Executing(Leader, s)) :
           accounts'[Leader][a] = accounts[Leader][a],
         Pending(s, accounts[Leader], serial[Leader])',
         at'[Leader][s] \notin MidEntry =>
           \A a \in AccountsOf(Executing(Leader, s)) :
             accounts'[Leader][a] = serial[Leader][a]
  PROVE  SerialInv'
<1>1. \A t \in Seqnum : at[Leader][t] \in MidEntry =>
        /\ Executing(Leader, t)' = Executing(Leader, t)
        /\ Executing(Leader, t) \in Request
        /\ AccountsOf(Executing(Leader, t)) \subseteq Account
  BY ExecutingKept, WorkFacts, ThreadsAssumption
  DEF MidEntry, Working, AccountsOf
<1>2. ASSUME NEW t \in Seqnum
      PROVE  Pending(t, accounts[Leader], serial[Leader])'
  <2>1. CASE t = s
    BY <2>1
  <2>2. CASE t # s /\ at'[Leader][t] \in MidEntry
    <3> DEFINE r == Executing(Leader, t)
    <3>1. /\ at'[Leader][t] = at[Leader][t]
          /\ loaded'[Leader][t] = loaded[Leader][t]
          /\ Executing(Leader, t)' = r
      BY <1>1, <2>2
    <3>2. AccountsOf(Executing(Leader, s)) \cap AccountsOf(r) = {}
      BY <2>2, MidApart
    <3>3. From[r] \in Account /\ To[r] \in Account
      BY <1>1, <2>2 DEF AccountsOf
    <3>4. /\ accounts'[Leader][From[r]] = accounts[Leader][From[r]]
          /\ accounts'[Leader][To[r]] = accounts[Leader][To[r]]
      BY <3>2, <3>3 DEF AccountsOf
    <3>5. Pending(t, accounts[Leader], serial[Leader])
      BY DEF SerialInv
    <3> QED BY <3>1, <3>4, <3>5 DEF Pending
  <2>3. CASE at'[Leader][t] \notin MidEntry
    BY <2>3 DEF Pending, MidEntry
  <2> QED BY <2>1, <2>2, <2>3
<1>3. ASSUME NEW a \in Account,
             \A t \in Seqnum : at'[Leader][t] \in MidEntry =>
               a \notin AccountsOf(Executing(Leader, t))
      PROVE  accounts'[Leader][a] = serial[Leader][a]
  <2>1. CASE a \in AccountsOf(Executing(Leader, s))
    BY <1>3, <2>1
  <2>2. CASE a \notin AccountsOf(Executing(Leader, s))
    <3>1. \A t \in Seqnum : at[Leader][t] \in MidEntry =>
            a \notin AccountsOf(Executing(Leader, t))
      BY <1>3, <2>2
    <3>2. accounts[Leader][a] = serial[Leader][a]
      BY <3>1 DEF SerialInv
    <3> QED BY <2>2, <3>2
  <2> QED BY <2>1, <2>2
<1>4. ASSUME NEW a \in Account,
             \A t \in Seqnum : at'[Leader][t] \in MidEntry =>
               a \notin AccountsOf(Executing(Leader, t))'
      PROVE  accounts'[Leader][a] = serial'[Leader][a]
  <2>1. \A t \in Seqnum : at'[Leader][t] \in MidEntry =>
          a \notin AccountsOf(Executing(Leader, t))
    <3>1. \A t \in Seqnum : at'[Leader][t] \in MidEntry =>
            at[Leader][t] \in MidEntry
      OBVIOUS
    <3> QED BY <1>1, <1>4, <3>1 DEF AccountsOf
  <2> QED BY <1>3, <2>1
<1>5. serial' \in [Node -> [Account -> Nat]]
  BY DEF SerialInv
<1> QED BY <1>2, <1>4, <1>5 DEF SerialInv

\* A step of ExecuteTransaction by a thread of the leader.
TouchesAccounts(s) ==
  \/ CheckBalance(Leader, s)
  \/ LoadSender(Leader, s)
  \/ StoreSender(Leader, s)
  \/ LoadReceiver(Leader, s)
  \/ StoreReceiver(Leader, s)

\* What the steps of ExecuteTransaction have in common.
LEMMA TouchFacts ==
  ASSUME ThreadsInv, ProposalsInv, ClaimsInv, SerialInv, [Next]_vars,
         NEW s \in Seqnum, TouchesAccounts(s)
  PROVE  /\ Leader \in Node
         /\ at[Leader][s] \in MidEntry
         /\ Executing(Leader, s)' = Executing(Leader, s)
         /\ LET r == Executing(Leader, s) IN
              /\ From[r] # To[r] /\ From[r] \in Account /\ To[r] \in Account
              /\ Amount[r] \in Nat
         /\ accounts[Leader] \in [Account -> Nat]
         /\ serial[Leader] \in [Account -> Nat]
         /\ Pending(s, accounts[Leader], serial[Leader])
<1> DEFINE r == Executing(Leader, s)
<1>0. Leader \in Node
  BY ThreadsAssumption
<1>1. at[Leader][s] \in MidEntry /\ at[Leader][s] \in Working
  BY DEF TouchesAccounts, CheckBalance, LoadSender, LoadReceiver, Load,
         StoreSender, StoreReceiver, Moves, MidEntry, Working
<1>2. /\ r \in Request
      /\ r # None
      /\ running[Leader][s] \in Seqnum
      /\ pending_entries[running[Leader][s]] = r
      /\ r' = r
  BY <1>1, WorkFacts, ExecutingKept
<1>3. r \notin ReadOnly
  BY <1>2 DEF ClaimsInv
<1>4. /\ From[r] # To[r]
      /\ From[r] \in Account /\ To[r] \in Account /\ Amount[r] \in Nat
  BY <1>2, <1>3, ThreadsAssumption
<1> QED BY <1>0, <1>1, <1>2, <1>4 DEF SerialInv

LEMMA CheckSerial ==
  ASSUME ThreadsInv, ProposalsInv, WorkersInv, ClaimsInv, LocksInv, SerialInv,
         [Next]_vars, NEW s \in Seqnum, CheckBalance(Leader, s)
  PROVE  SerialInv'
<1> DEFINE r == Executing(Leader, s)
           A == accounts[Leader]
           B == serial[Leader]
<1>1. /\ Leader \in Node /\ at[Leader][s] \in MidEntry /\ r' = r
      /\ From[r] \in Account /\ To[r] \in Account /\ Amount[r] \in Nat
      /\ A \in [Account -> Nat] /\ B \in [Account -> Nat]
      /\ Pending(s, A, B)
  BY TouchFacts DEF TouchesAccounts
<1>2. /\ Moves(Leader, s, "execute", IF Short(Leader, r) THEN "reply"
                                     ELSE "load_from")
      /\ UNCHANGED <<accounts, serial, loaded>>
  BY DEF CheckBalance
<1>3. /\ at[Leader][s] = "execute"
      /\ at'[Leader][s] = IF Short(Leader, r) THEN "reply" ELSE "load_from"
      /\ \A t \in Seqnum : t # s => at'[Leader][t] = at[Leader][t]
  BY <1>1, <1>2, MoveFacts
<1>4. CASE Short(Leader, r)
  <2>1. A[From[r]] < Amount[r]
    BY <1>4 DEF Short
  <2>2. \A a \in AccountsOf(r) : A[a] = B[a]
    BY <1>1, <1>3, <2>1 DEF Pending, AccountsOf
  <2>3. Pending(s, A, B)'
    BY <1>3, <1>4 DEF Pending
  <2> QED BY <1>1, <1>2, <1>3, <2>2, <2>3, MidStep
<1>5. CASE ~ Short(Leader, r)
  <2>1. ~ (A[From[r]] < Amount[r])
    BY <1>5 DEF Short
  <2>2. /\ B[From[r]] = A[From[r]] - Amount[r]
        /\ B[To[r]] = A[To[r]] + Amount[r]
    BY <1>1, <1>3, <2>1 DEF Pending
  <2>3. at'[Leader][s] = "load_from"
    BY <1>3, <1>5
  <2>4. Pending(s, A, B)'
    BY <1>1, <1>2, <2>2, <2>3 DEF Pending
  <2>5. at'[Leader][s] \in MidEntry
    BY <2>3 DEF MidEntry
  <2> QED BY <1>1, <1>2, <1>3, <2>4, <2>5, MidStep
<1> QED BY <1>4, <1>5

LEMMA LoadSerial ==
  ASSUME ThreadsInv, ProposalsInv, WorkersInv, ClaimsInv, LocksInv, SerialInv,
         [Next]_vars, NEW s \in Seqnum,
         LoadSender(Leader, s) \/ LoadReceiver(Leader, s)
  PROVE  SerialInv'
<1> DEFINE r == Executing(Leader, s)
           A == accounts[Leader]
           B == serial[Leader]
<1>1. /\ Leader \in Node /\ at[Leader][s] \in MidEntry /\ r' = r
      /\ From[r] \in Account /\ To[r] \in Account
      /\ A \in [Account -> Nat] /\ B \in [Account -> Nat]
      /\ Pending(s, A, B)
  BY TouchFacts DEF TouchesAccounts
<1>2. PICK a \in Account, x \in {"load_from", "load_to"},
           y \in {"store_from", "store_to"} :
        /\ Load(Leader, s, a, x, y)
        /\ \/ a = From[r] /\ x = "load_from" /\ y = "store_from"
           \/ a = To[r] /\ x = "load_to" /\ y = "store_to"
  BY <1>1 DEF LoadSender, LoadReceiver
<1>3. /\ Moves(Leader, s, x, y)
      /\ loaded' = [loaded EXCEPT ![Leader][s] = A[a]]
      /\ UNCHANGED <<accounts, serial>>
  BY <1>2 DEF Load
<1>4. /\ at[Leader][s] = x /\ at'[Leader][s] = y
      /\ \A t \in Seqnum : t # s => at'[Leader][t] = at[Leader][t]
  BY <1>1, <1>3, MoveFacts
<1>5. /\ loaded'[Leader][s] = A[a]
      /\ \A t \in Seqnum : t # s => loaded'[Leader][t] = loaded[Leader][t]
  BY <1>1, <1>3 DEF ThreadsInv, TypeOK
<1>6. Pending(s, A, B)'
  BY <1>1, <1>2, <1>3, <1>4, <1>5 DEF Pending
<1>7. at'[Leader][s] \in MidEntry
  BY <1>2, <1>4 DEF MidEntry
<1> QED BY <1>1, <1>3, <1>4, <1>5, <1>6, <1>7, MidStep

\* A store writes the serial balance of its account: the debit was checked.
LEMMA StoreSerial ==
  ASSUME ThreadsInv, ProposalsInv, WorkersInv, ClaimsInv, LocksInv, SerialInv,
         [Next]_vars, NEW s \in Seqnum,
         StoreSender(Leader, s) \/ StoreReceiver(Leader, s)
  PROVE  SerialInv'
<1> DEFINE r == Executing(Leader, s)
           A == accounts[Leader]
           B == serial[Leader]
<1>1. /\ Leader \in Node /\ at[Leader][s] \in MidEntry /\ r' = r
      /\ From[r] \in Account /\ To[r] \in Account /\ From[r] # To[r]
      /\ Amount[r] \in Nat
      /\ A \in [Account -> Nat] /\ B \in [Account -> Nat]
      /\ Pending(s, A, B)
  BY TouchFacts DEF TouchesAccounts
<1>2. accounts \in [Node -> [Account -> Int]]
  BY DEF ThreadsInv, TypeOK
<1>3. CASE StoreSender(Leader, s)
  <2>1. /\ Moves(Leader, s, "store_from", "load_to")
        /\ accounts' = [accounts EXCEPT ![Leader][From[r]] =
                          loaded[Leader][s] - Amount[r]]
        /\ UNCHANGED <<loaded, serial>>
    BY <1>3 DEF StoreSender
  <2>2. /\ at[Leader][s] = "store_from"
        /\ at'[Leader][s] = "load_to"
        /\ \A t \in Seqnum : t # s => at'[Leader][t] = at[Leader][t]
    BY <1>1, <2>1, MoveFacts
  <2>3. /\ loaded[Leader][s] = A[From[r]]
        /\ B[From[r]] = A[From[r]] - Amount[r]
        /\ B[To[r]] = A[To[r]] + Amount[r]
    BY <1>1, <2>2 DEF Pending
  <2>4. accounts'[Leader] = [A EXCEPT ![From[r]] = B[From[r]]]
    BY <1>1, <1>2, <2>1, <2>3
  <2>5. accounts'[Leader] \in [Account -> Nat]
    BY <1>1, <2>4
  <2>6. /\ accounts'[Leader][From[r]] = B[From[r]]
        /\ \A a \in Account : a # From[r] => accounts'[Leader][a] = A[a]
    BY <1>1, <2>4
  <2>7. Pending(s, A, B)'
    BY <1>1, <2>1, <2>2, <2>3, <2>6 DEF Pending
  <2>8. at'[Leader][s] \in MidEntry
    BY <2>2 DEF MidEntry
  <2>9. \A a \in Account \ AccountsOf(r) : accounts'[Leader][a] = A[a]
    BY <2>6 DEF AccountsOf
  <2> QED BY <1>1, <2>1, <2>2, <2>5, <2>7, <2>8, <2>9, MidStep
<1>4. CASE StoreReceiver(Leader, s)
  <2>1. /\ Moves(Leader, s, "store_to", "reply")
        /\ accounts' = [accounts EXCEPT ![Leader][To[r]] =
                          loaded[Leader][s] + Amount[r]]
        /\ UNCHANGED <<loaded, serial>>
    BY <1>4 DEF StoreReceiver
  <2>2. /\ at[Leader][s] = "store_to"
        /\ at'[Leader][s] = "reply"
        /\ \A t \in Seqnum : t # s => at'[Leader][t] = at[Leader][t]
    BY <1>1, <2>1, MoveFacts
  <2>3. /\ loaded[Leader][s] = A[To[r]]
        /\ B[From[r]] = A[From[r]]
        /\ B[To[r]] = A[To[r]] + Amount[r]
    BY <1>1, <2>2 DEF Pending
  <2>4. accounts'[Leader] = [A EXCEPT ![To[r]] = B[To[r]]]
    BY <1>1, <1>2, <2>1, <2>3
  <2>5. accounts'[Leader] \in [Account -> Nat]
    BY <1>1, <2>4
  <2>6. /\ accounts'[Leader][To[r]] = B[To[r]]
        /\ \A a \in Account : a # To[r] => accounts'[Leader][a] = A[a]
    BY <1>1, <2>4
  <2>7. \A a \in AccountsOf(r) : accounts'[Leader][a] = B[a]
    BY <1>1, <2>3, <2>6 DEF AccountsOf
  <2>8. Pending(s, A, B)'
    BY <2>2 DEF Pending
  <2>9. \A a \in Account \ AccountsOf(r) : accounts'[Leader][a] = A[a]
    BY <2>6 DEF AccountsOf
  <2> QED BY <1>1, <2>1, <2>2, <2>5, <2>7, <2>8, <2>9, MidStep
<1> QED BY <1>3, <1>4

\* Taking an entry applies it to the serial balances, while its accounts still
\* have the balances from before.
LEMMA SerialType ==
  ASSUME ThreadsInv, ProposalsInv, ClaimsInv, SerialInv,
         NEW n \in Node, NEW s \in Seqnum, TakeNext(n, s)
  PROVE  /\ serial' \in [Node -> [Account -> Nat]]
         /\ \A m \in Node : m # n => serial'[m] = serial[m]
         /\ LET r == entries_to_commit[n][last_executed_seq[n] + 1] IN
              /\ serial'[n] = Applied(serial[n], r)
              /\ r \in Request /\ From[r] # To[r]
<1> DEFINE r == entries_to_commit[n][last_executed_seq[n] + 1]
<1>1. /\ r \in Request /\ last_executed_seq[n] + 1 \in Seqnum
  BY TakeFacts
<1>2. r # None /\ r = pending_entries[last_executed_seq[n] + 1]
  BY <1>1, ThreadsAssumption DEF ProposalsInv
<1>3. r \notin ReadOnly
  BY <1>1, <1>2 DEF ClaimsInv
<1>4. From[r] # To[r]
  BY <1>1, <1>3, ThreadsAssumption
<1>5. serial[n] \in [Account -> Nat]
  BY DEF SerialInv
<1>6. Applied(serial[n], r) \in [Account -> Nat]
  BY <1>1, <1>4, <1>5, AppliedFacts
<1>7. serial' = [serial EXCEPT ![n] = Applied(serial[n], r)]
  BY DEF TakeNext
<1> QED BY <1>1, <1>4, <1>6, <1>7 DEF SerialInv

LEMMA TakeSerial ==
  ASSUME ThreadsInv, ProposalsInv, WorkersInv, ClaimsInv, LocksInv, SerialInv,
         [Next]_vars, NEW s \in Seqnum, TakeNext(Leader, s)
  PROVE  SerialInv'
<1> DEFINE x == last_executed_seq[Leader] + 1
           r == entries_to_commit[Leader][x]
           A == accounts[Leader]
           B == serial[Leader]
<1>0. Leader \in Node
  BY ThreadsAssumption
<1>1. /\ x \in Seqnum /\ r \in Request /\ r # None
      /\ x > last_executed_seq[Leader]
  BY <1>0, TakeFacts, ThreadsAssumption DEF ThreadsInv, TypeOK
<1>2. /\ at[Leader][s] = "loop" /\ at'[Leader][s] = "execute"
      /\ running'[Leader][s] = x
      /\ \A t \in Seqnum : t # s => at'[Leader][t] = at[Leader][t]
      /\ UNCHANGED <<accounts, loaded, entries_to_commit>>
  BY <1>0, TakeFacts
<1>3. Executing(Leader, s)' = r
  BY <1>2 DEF Executing
<1>4. /\ serial' \in [Node -> [Account -> Nat]]
      /\ serial'[Leader] = Applied(B, r)
      /\ From[r] # To[r]
  BY <1>0, SerialType
<1>5. A \in [Account -> Nat] /\ B \in [Account -> Nat]
  BY <1>0 DEF ThreadsInv, TypeOK, SerialInv
<1>6. From[r] \in Account /\ To[r] \in Account
  BY <1>1, ThreadsAssumption
<1>7. \A t \in Seqnum : at[Leader][t] \in MidEntry =>
        /\ AccountsOf(r) \cap AccountsOf(Executing(Leader, t)) = {}
        /\ Executing(Leader, t)' = Executing(Leader, t)
        /\ From[Executing(Leader, t)] \in Account
        /\ To[Executing(Leader, t)] \in Account
  <2>1. \A t \in Seqnum : at[Leader][t] \in MidEntry =>
          at[Leader][t] \in Working
    BY DEF MidEntry, Working
  <2> QED BY <1>1, <2>1, NextApart, ExecutingKept, WorkFacts,
             ThreadsAssumption
<1>8. A[From[r]] = B[From[r]] /\ A[To[r]] = B[To[r]]
  BY <1>6, <1>7 DEF SerialInv, AccountsOf
<1>9. /\ serial'[Leader][From[r]] = IF A[From[r]] < Amount[r] THEN A[From[r]]
                                    ELSE A[From[r]] - Amount[r]
      /\ serial'[Leader][To[r]] = IF A[From[r]] < Amount[r] THEN A[To[r]]
                                  ELSE A[To[r]] + Amount[r]
      /\ \A a \in Account \ AccountsOf(r) : serial'[Leader][a] = B[a]
  BY <1>1, <1>4, <1>5, <1>8, AppliedFacts, SMTT(60)
<1> HIDE DEF r, x
<1>10. ASSUME NEW t \in Seqnum
       PROVE  Pending(t, accounts[Leader], serial[Leader])'
  <2>1. CASE t = s
    BY <1>2, <1>3, <1>9, <2>1 DEF Pending
  <2>2. CASE t # s /\ at'[Leader][t] \in MidEntry
    <3> DEFINE q == Executing(Leader, t)
    <3>1. /\ at'[Leader][t] = at[Leader][t] /\ at[Leader][t] \in MidEntry
          /\ loaded'[Leader][t] = loaded[Leader][t]
          /\ accounts'[Leader] = A
          /\ Executing(Leader, t)' = q
      BY <1>2, <1>7, <2>2
    <3>2. /\ serial'[Leader][From[q]] = B[From[q]]
          /\ serial'[Leader][To[q]] = B[To[q]]
      BY <1>7, <1>9, <3>1 DEF AccountsOf
    <3>3. Pending(t, A, B)
      BY DEF SerialInv
    <3> QED BY <3>1, <3>2, <3>3 DEF Pending
  <2>3. CASE at'[Leader][t] \notin MidEntry
    BY <2>3 DEF Pending, MidEntry
  <2> QED BY <2>1, <2>2, <2>3
<1>11. ASSUME NEW a \in Account,
              \A t \in Seqnum : at'[Leader][t] \in MidEntry =>
                a \notin AccountsOf(Executing(Leader, t))'
       PROVE  accounts'[Leader][a] = serial'[Leader][a]
  <2>1. a \notin AccountsOf(r)
    BY <1>2, <1>3, <1>11 DEF AccountsOf, MidEntry
  <2>2. \A t \in Seqnum : at[Leader][t] \in MidEntry =>
          a \notin AccountsOf(Executing(Leader, t))
    BY <1>2, <1>7, <1>11 DEF AccountsOf, MidEntry
  <2>3. A[a] = B[a]
    BY <2>2 DEF SerialInv
  <2> QED BY <1>2, <1>9, <2>1, <2>3
<1>12. accounts'[Leader] \in [Account -> Nat]
  BY <1>2, <1>5
<1> QED BY <1>4, <1>10, <1>11, <1>12 DEF SerialInv

\* The other steps: none of the leader's threads is in the middle of an entry
\* and steps.
LEMMA SerialFrame ==
  ASSUME ThreadsInv, [Next]_vars,
         ~ \E n \in Node, s \in Seqnum : TakeNext(n, s),
         ~ \E s \in Seqnum : TouchesAccounts(s)
  PROVE  /\ UNCHANGED serial
         /\ accounts'[Leader] = accounts[Leader]
         /\ loaded'[Leader] = loaded[Leader]
         /\ \A t \in Seqnum :
              at[Leader][t] \in MidEntry \/ at'[Leader][t] \in MidEntry =>
                at'[Leader][t] = at[Leader][t]
<1> DEFINE Goal == /\ UNCHANGED serial
                   /\ accounts'[Leader] = accounts[Leader]
                   /\ loaded'[Leader] = loaded[Leader]
                   /\ \A t \in Seqnum :
                        \/ at'[Leader][t] = at[Leader][t]
                        \/ /\ at[Leader][t] \notin MidEntry
                           /\ at'[Leader][t] \notin MidEntry
<1>0. Leader \in Node
  BY ThreadsAssumption
<1>1. ASSUME NEW c \in Call, Admission(c) PROVE Goal
  BY <1>1 DEF Admission, CheckDuplicate, AnswerRead, LockSender,
     LockReceiver, Claim, Propose, executionVars
<1>2. ASSUME NEW s \in Seqnum, NEW b \in Backup, HandleAccept(s, b)
      PROVE  Goal
  <2>1. /\ UNCHANGED <<serial, accounts, loaded>>
        /\ at' = at \/ Moves(Leader, s, "idle", "commit")
    BY <1>2 DEF HandleAccept
  <2> QED BY <1>0, <2>1, MoveFacts DEF MidEntry
<1>3. ASSUME NEW s \in Seqnum, NEW b \in Backup, HandleCommit(b, s)
      PROVE  Goal
  <2>1. b \in Node /\ b # Leader
    BY DEF Backup
  <2>2. UNCHANGED <<serial, accounts, loaded>>
    BY <1>3 DEF HandleCommit
  <2>3. Moves(b, s, "idle", "recorded")
    BY <1>3 DEF HandleCommit
  <2> QED BY <1>0, <2>1, <2>2, <2>3, MoveFacts
<1>4. ASSUME NEW s \in Seqnum, CommitEntry(s) PROVE Goal
  <2>1. /\ UNCHANGED <<serial, accounts, loaded>>
        /\ Moves(Leader, s, "commit", "recorded")
    BY <1>4 DEF CommitEntry
  <2> QED BY <1>0, <2>1, MoveFacts DEF MidEntry
<1>5. ASSUME NEW n \in Node, NEW s \in Seqnum, Execution(n, s), n = Leader
      PROVE  Goal
  <2>1. /\ UNCHANGED <<serial, accounts, loaded>>
        /\ \/ Moves(n, s, "recorded", "loop")
           \/ Moves(n, s, "recorded", "idle")
           \/ Moves(n, s, "loop", "idle")
           \/ Moves(n, s, "reply", "loop")
    BY <1>5 DEF Execution, TouchesAccounts, TestNext, LeaveLoop, Reply
  <2> QED BY <1>0, <1>5, <2>1, MoveFacts DEF MidEntry
<1>6. ASSUME NEW n \in Node, NEW s \in Seqnum, Execution(n, s), n # Leader
      PROVE  Goal
  <2>1. UNCHANGED serial
    BY <1>6 DEF Execution, TestNext, LeaveLoop, Reply, CheckBalance,
       LoadSender, LoadReceiver, Load, StoreSender, StoreReceiver
  <2>2. accounts'[Leader] = accounts[Leader]
    BY <1>0, <1>6 DEF Execution, TestNext, LeaveLoop, Reply, CheckBalance,
       LoadSender, LoadReceiver, Load, StoreSender, StoreReceiver,
       ThreadsInv, TypeOK
  <2>3. loaded'[Leader] = loaded[Leader]
    BY <1>0, <1>6 DEF Execution, TestNext, LeaveLoop, Reply, CheckBalance,
       LoadSender, LoadReceiver, Load, StoreSender, StoreReceiver,
       ThreadsInv, TypeOK
  <2>4. \E a, b : Moves(n, s, a, b)
    BY <1>6 DEF Execution, TestNext, LeaveLoop, Reply, CheckBalance,
       LoadSender, LoadReceiver, Load, StoreSender, StoreReceiver
  <2>5. \A t \in Seqnum : at'[Leader][t] = at[Leader][t]
    BY <1>0, <1>6, <2>4, MoveFacts
  <2> QED BY <2>1, <2>2, <2>3, <2>5
<1>7. CASE UNCHANGED vars
  BY <1>7 DEF vars, executionVars
<1>8. Goal
  BY <1>1, <1>2, <1>3, <1>4, <1>5, <1>6, <1>7 DEF Next
<1> QED BY <1>8

LEMMA SerialStep ==
  ASSUME ThreadsInv, ProposalsInv, WorkersInv, ClaimsInv, LocksInv, SerialInv,
         [Next]_vars
  PROVE  SerialInv'
<1>0. Leader \in Node
  BY ThreadsAssumption
<1>1. CASE \E s \in Seqnum : TouchesAccounts(s)
  BY <1>1, CheckSerial, LoadSerial, StoreSerial DEF TouchesAccounts
<1>2. CASE \E s \in Seqnum : TakeNext(Leader, s)
  BY <1>2, TakeSerial
<1>3. ASSUME NEW n \in Node, NEW s \in Seqnum, TakeNext(n, s), n # Leader
      PROVE  SerialInv'
  <2>1. /\ serial' \in [Node -> [Account -> Nat]]
        /\ serial'[Leader] = serial[Leader]
    BY <1>0, <1>3, SerialType
  <2>2. /\ UNCHANGED <<accounts, loaded>>
        /\ \A t \in Seqnum : at'[Leader][t] = at[Leader][t]
    BY <1>0, <1>3, TakeFacts
  <2> QED BY <2>1, <2>2, SerialKept
<1>4. CASE /\ ~ \E n \in Node, s \in Seqnum : TakeNext(n, s)
           /\ ~ \E s \in Seqnum : TouchesAccounts(s)
  <2>1. /\ UNCHANGED serial
        /\ accounts'[Leader] = accounts[Leader]
        /\ loaded'[Leader] = loaded[Leader]
        /\ \A t \in Seqnum :
             at[Leader][t] \in MidEntry \/ at'[Leader][t] \in MidEntry =>
               at'[Leader][t] = at[Leader][t]
    BY <1>4, SerialFrame
  <2>2. serial' \in [Node -> [Account -> Nat]]
    BY <2>1 DEF SerialInv
  <2> QED BY <2>1, <2>2, SerialKept
<1> QED BY <1>1, <1>2, <1>3, <1>4

-----------------------------------------------------------------------------
LEMMA InitEstablishesSerial == Init => SerialThreadsInv
<1> SUFFICES ASSUME Init PROVE SerialThreadsInv
  OBVIOUS
<1>0. Leader \in Node /\ \A s \in Seqnum : s \in Nat /\ s > 0
  BY ThreadsAssumption DEF Seqnum
<1>1. ThreadsInv
  BY InitEstablishesThreadsInv
<1>2. ProposalsInv /\ WorkersInv
  BY <1>0, ThreadsAssumption DEF Init, ProposalsInv, WorkersInv, Working, MidEntry
<1>3. ClaimsInv
  BY DEF Init, ClaimsInv
<1>4. AnswersInv
  BY ThreadsAssumption DEF Init, AnswersInv
<1>5. LocksInv
  BY DEF Init, LocksInv, CallHolds, EntryHolds
<1>6. SerialInv
  BY <1>0, ThreadsAssumption DEF Init, SerialInv, Pending, MidEntry
<1> QED BY <1>1, <1>2, <1>3, <1>4, <1>5, <1>6 DEF SerialThreadsInv

LEMMA StepKeepsSerial == SerialThreadsInv /\ [Next]_vars => SerialThreadsInv'
  BY StepKeepsThreadsInv, ProposalsStep, WorkersStep, ClaimsStep, AnswersStep,
     LocksStep, SerialStep
  DEF SerialThreadsInv

\* However many copies of a request the threads of ProcessClientRequest handle
\* at once, SendClientReply answers it at most once.
THEOREM RequestsAreAnsweredOnce == Spec => []AnsweredOnce
<1>1. SerialThreadsInv => AnsweredOnce
  BY DEF SerialThreadsInv, AnswersInv, AnsweredOnce
<1> QED BY <1>1, InitEstablishesSerial, StepKeepsSerial, PTL DEF Spec

\* Whenever no thread of the leader is in the middle of ExecuteTransaction,
\* its balances are those of executing the log one entry after the other.
THEOREM LeaderExecutesSerially == Spec => []LeaderIsSerial
<1>1. SerialThreadsInv => LeaderIsSerial
  <2> SUFFICES ASSUME SerialThreadsInv, BetweenExecutions(Leader)
               PROVE  accounts[Leader] = serial[Leader]
    BY DEF LeaderIsSerial
  <2>1. /\ accounts[Leader] \in [Account -> Nat]
        /\ serial[Leader] \in [Account -> Nat]
    BY ThreadsAssumption DEF SerialThreadsInv, SerialInv
  <2>2. \A a \in Account : accounts[Leader][a] = serial[Leader][a]
    BY DEF SerialThreadsInv, SerialInv, BetweenExecutions, MidEntry
  <2> QED BY <2>1, <2>2
<1> QED BY <1>1, InitEstablishesSerial, StepKeepsSerial, PTL DEF Spec

\* Between the check of a balance and the debit no other thread of the leader
\* takes money from the account: the leader overdraws none.
THEOREM LeaderIsNeverOverdrawn == Spec => []LeaderNeverOverdraws
<1>1. SerialThreadsInv => LeaderNeverOverdraws
  BY DEF SerialThreadsInv, SerialInv, LeaderNeverOverdraws
<1> QED BY <1>1, InitEstablishesSerial, StepKeepsSerial, PTL DEF Spec
=============================================================================
