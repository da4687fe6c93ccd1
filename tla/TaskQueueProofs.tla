---------------------------- MODULE TaskQueueProofs ----------------------------
(***************************************************************************)
(* TaskQueue for every set of tasks, agents and runners and every          *)
(* max_attempts.                                                           *)
(*                                                                         *)
(* The reports of the runners do not name the attempt they are about, so   *)
(* nothing in a step says whether a report is out of date.  IInv recovers  *)
(* it from the history: as long as no claim of a task was reaped, whoever  *)
(* still works on it or has a report for it on the way holds the latest    *)
(* attempt of a row that is still claimed.                                 *)
(***************************************************************************)
EXTENDS TaskQueue, TLAPS

Busy(w, t) == worker[w].pc # "polling" /\ worker[w].task = t

\* Attempts are numbered by the claims, and only a claimed attempt is begun.
Numbering ==
  /\ \A t \in Tasks : started[t] \subseteq 1..attempts[t]
  /\ \A t \in Tasks : status[t] = "absent" => attempts[t] = 0
  /\ \A w \in Workers, t \in Tasks :
       Busy(w, t) => status[t] # "absent" /\ worker[w].claim <= attempts[t]
  /\ \A r \in requests :
       status[r.task] # "absent" /\ r.claim <= attempts[r.task]

\* An attempt is either at work in one runner or reported by one request.
OneOwner ==
  /\ \A v, w \in Workers, t \in Tasks :
       Runs(v, t) /\ Runs(w, t) /\ v # w => worker[v].claim # worker[w].claim
  /\ \A w \in Workers, r \in requests :
       Runs(w, r.task) => worker[w].claim # r.claim
  /\ \A q, r \in requests : q.task = r.task /\ q # r => q.claim # r.claim

\* Without a reaped claim nobody is out of date.
UpToDate ==
  /\ \A w \in Workers, t \in Tasks :
       ~reaped[t] /\ Runs(w, t) =>
         status[t] = "claimed" /\ worker[w].claim = attempts[t]
  /\ \A r \in requests :
       ~reaped[r.task] /\ r.phase = "sent" =>
         status[r.task] = "claimed" /\ r.claim = attempts[r.task]

IInv == TypeOK /\ RetryBudget /\ Numbering /\ OneOwner /\ UpToDate

-------------------------------------------------------------------------------
(* Every variable keeps its type: in particular no claim number and no attempt *)
(* counter ever passes max_attempts, which needs RetryBudget for ClaimTask.    *)
LEMMA TypeStep == TypeOK /\ RetryBudget /\ [Next]_vars => TypeOK'
<1> SUFFICES ASSUME TypeOK, RetryBudget, [Next]_vars PROVE TypeOK'
  OBVIOUS
<1> USE QueueAssumption DEF TypeOK, TaskStatus, InvocationStatus, rowVars, historyVars
<1>1. ASSUME NEW t \in Tasks, EnqueueTask(t) PROVE TypeOK'
  BY <1>1 DEF EnqueueTask
<1>2. ASSUME NEW w \in Workers, NEW t \in Tasks, Poll(w, t) PROVE TypeOK'
  <2> DEFINE turn == [pc |-> "running", task |-> t, claim |-> attempts[t] + 1]
  <2>1. attempts[t] \in 0..MaxAttempts /\ attempts[t] < MaxAttempts
    BY <1>2 DEF Poll, NextFor, Claimable, RetryBudget
  <2>2. attempts[t] + 1 \in 1..MaxAttempts
    BY <2>1
  <2>3. turn \in WorkerState
    BY <2>2 DEF WorkerState
  <2>4. worker' \in [Workers -> WorkerState]
    BY <1>2, <2>3 DEF Poll
  <2>5. /\ status' \in [Tasks -> TaskStatus]
        /\ attempts' \in [Tasks -> 0..MaxAttempts]
        /\ stale' \in [Tasks -> BOOLEAN]
    BY <1>2, <2>2 DEF Poll, ClaimTask
  <2>6. started' \in [Tasks -> SUBSET (1..MaxAttempts)]
    BY <1>2, <2>2 DEF Poll
  <2> QED
    BY <1>2, <2>4, <2>5, <2>6 DEF Poll, ClaimTask
<1>3. ASSUME NEW w \in Workers, NEW t \in Tasks, PollLost(w, t) PROVE TypeOK'
  <2>1. attempts[t] + 1 \in 0..MaxAttempts
    BY <1>3 DEF PollLost, NextFor, Claimable, RetryBudget
  <2> QED
    BY <1>3, <2>1 DEF PollLost, ClaimTask
<1>4. ASSUME NEW w \in Workers, NEW op \in {"ack", "nack"}, FinishTurn(w, op)
      PROVE  TypeOK'
  <2>1. /\ worker[w] \in [pc: {"running", "reporting"}, task: Tasks, claim: 1..MaxAttempts]
        /\ worker'[w] \in WorkerState
    BY <1>4 DEF FinishTurn, WorkerState, Idle
  <2>2. worker' \in [Workers -> WorkerState]
    BY <1>4, <2>1 DEF FinishTurn
  <2>3. requests' \subseteq Request
    BY <1>4, <2>1 DEF FinishTurn, Request
  <2> QED
    BY <1>4, <2>2, <2>3 DEF FinishTurn
<1>5. ASSUME NEW w \in Workers, AbandonReport(w) \/ Crash(w) PROVE TypeOK'
  BY <1>5 DEF AbandonReport, Crash, WorkerState
<1>6. ASSUME NEW r \in requests, HandleReport(r) PROVE TypeOK'
  <2>1. r \in Request /\ [r EXCEPT !.phase = "applied"] \in Request
    BY DEF Request
  <2>2. requests' \subseteq Request
    BY <1>6, <2>1 DEF HandleReport
  <2>3. r.task \in Tasks
    BY <2>1 DEF Request
  <2> QED
    BY <1>6, <2>2, <2>3 DEF HandleReport, AckTask, NakTask
<1>7. ASSUME NEW r \in requests, CompleteInvocation(r) PROVE TypeOK'
  BY <1>7 DEF CompleteInvocation, Request, Outcome, WorkerState
<1>8. ASSUME NEW r \in requests, LoseRequest(r) PROVE TypeOK'
  BY <1>8 DEF LoseRequest, Request
<1>9. ASSUME NEW t \in Tasks, ClaimAges(t) \/ RetryDelayPasses(t) PROVE TypeOK'
  BY <1>9 DEF ClaimAges, RetryDelayPasses
<1>10. CASE ReapStaleClaims
  BY <1>10 DEF ReapStaleClaims
<1>11. CASE UNCHANGED vars
  BY <1>11 DEF vars
<1> QED
  BY <1>1, <1>2, <1>3, <1>4, <1>5, <1>6, <1>7, <1>8, <1>9, <1>10, <1>11 DEF Next

-------------------------------------------------------------------------------
(* Facts about TypeOK that the steps below share                               *)

LEMMA WorkerType ==
  ASSUME TypeOK, NEW w \in Workers
  PROVE  /\ worker[w] \in WorkerState
         /\ worker[w].pc = "polling" => worker[w] = Idle
         /\ worker[w].pc # "polling" =>
              worker[w].task \in Tasks /\ worker[w].claim \in 1..MaxAttempts
  BY DEF TypeOK, WorkerState, Idle

LEMMA RequestType ==
  ASSUME TypeOK, NEW r \in requests
  PROVE  r \in Request /\ r.task \in Tasks /\ r.claim \in 1..MaxAttempts
  BY DEF TypeOK, Request

(* The retry budget survives every step: only a claim raises attempts, and a   *)
(* row that a nack or the reaper sends back to "pending" was tested against    *)
(* max_attempts in the same statement.                                         *)
LEMMA BudgetStep == TypeOK /\ RetryBudget /\ Numbering /\ [Next]_vars => RetryBudget'
<1> SUFFICES ASSUME TypeOK, RetryBudget, Numbering, [Next]_vars,
                    NEW t \in Tasks
             PROVE  (/\ attempts[t] <= MaxAttempts
                     /\ status[t] = "pending" => attempts[t] < MaxAttempts
                     /\ status[t] = "failed"  => attempts[t] = MaxAttempts)'
  BY DEF RetryBudget
<1> USE QueueAssumption DEF TypeOK, RetryBudget, rowVars, historyVars
<1>1. CASE \E u \in Tasks : EnqueueTask(u)
  BY <1>1 DEF EnqueueTask, Numbering
<1>2. CASE \E w \in Workers, u \in Tasks : Poll(w, u) \/ PollLost(w, u)
  BY <1>2 DEF Poll, PollLost, NextFor, Claimable, ClaimTask
<1>3. CASE \E r \in requests : HandleReport(r)
  BY <1>3, RequestType DEF HandleReport, AckTask, NakTask, Exhausted
<1>4. CASE ReapStaleClaims
  BY <1>4 DEF ReapStaleClaims, StaleClaims, Exhausted
<1>5. CASE \/ \E w \in Workers, op \in {"ack", "nack"} : FinishTurn(w, op)
           \/ \E w \in Workers : AbandonReport(w) \/ Crash(w)
           \/ \E r \in requests : CompleteInvocation(r) \/ LoseRequest(r)
           \/ \E u \in Tasks : ClaimAges(u) \/ RetryDelayPasses(u)
           \/ UNCHANGED vars
  BY <1>5 DEF FinishTurn, AbandonReport, Crash, CompleteInvocation, LoseRequest,
              ClaimAges, RetryDelayPasses, vars
<1> QED
  BY <1>1, <1>2, <1>3, <1>4, <1>5 DEF Next

(* Attempt numbers never run ahead of the row's counter.                       *)
LEMMA NumberingStep == TypeOK /\ RetryBudget /\ Numbering /\ [Next]_vars => Numbering'
<1> SUFFICES ASSUME TypeOK, RetryBudget, Numbering, [Next]_vars PROVE Numbering'
  OBVIOUS
<1> USE QueueAssumption DEF TypeOK, rowVars, historyVars, Busy
<1>1. CASE \E t \in Tasks : EnqueueTask(t)
  BY <1>1, RequestType DEF EnqueueTask, Numbering
<1>2. ASSUME NEW w \in Workers, NEW t \in Tasks, Poll(w, t) PROVE Numbering'
  <2>1. /\ status[t] = "pending" /\ attempts[t] \in Nat
        /\ attempts' = [attempts EXCEPT ![t] = @ + 1]
        /\ status' = [status EXCEPT ![t] = "claimed"]
        /\ worker' = [worker EXCEPT ![w] =
                        [pc |-> "running", task |-> t, claim |-> attempts[t] + 1]]
        /\ started' = [started EXCEPT ![t] = @ \union {attempts[t] + 1}]
        /\ requests' = requests
    BY <1>2 DEF Poll, NextFor, Claimable, ClaimTask
  <2>2. \A u \in Tasks : started'[u] \subseteq 1..attempts'[u]
    BY <2>1 DEF Numbering
  <2>3. \A u \in Tasks : status'[u] = "absent" => attempts'[u] = 0
    BY <2>1 DEF Numbering
  <2>4. \A v \in Workers, u \in Tasks :
          Busy(v, u)' => status'[u] # "absent" /\ worker'[v].claim <= attempts'[u]
    BY <2>1, WorkerType DEF Numbering
  <2>5. \A r \in requests' :
          status'[r.task] # "absent" /\ r.claim <= attempts'[r.task]
    BY <2>1, RequestType DEF Numbering
  <2> QED
    BY <2>2, <2>3, <2>4, <2>5 DEF Numbering
<1>3. CASE \E w \in Workers, t \in Tasks : PollLost(w, t)
  BY <1>3, RequestType, WorkerType DEF PollLost, NextFor, Claimable, ClaimTask, Numbering
<1>4. ASSUME NEW w \in Workers, NEW op \in {"ack", "nack"}, FinishTurn(w, op)
      PROVE  Numbering'
  <2>1. /\ worker[w].task \in Tasks /\ Busy(w, worker[w].task)
    BY <1>4, WorkerType DEF FinishTurn
  <2>2. \A v \in Workers : worker'[v].task = worker[v].task
                          /\ worker'[v].claim = worker[v].claim
                          /\ (worker'[v].pc = "polling" <=> worker[v].pc = "polling")
    BY <1>4, WorkerType DEF FinishTurn, WorkerState, Idle
  <2> QED
    BY <1>4, <2>1, <2>2 DEF FinishTurn, Numbering
<1>5. CASE \E w \in Workers : AbandonReport(w) \/ Crash(w)
  BY <1>5, RequestType DEF AbandonReport, Crash, Numbering, Idle
<1>6. ASSUME NEW r \in requests, HandleReport(r) PROVE Numbering'
  <2>1. /\ [r EXCEPT !.phase = "applied"].task = r.task
        /\ [r EXCEPT !.phase = "applied"].claim = r.claim
    BY RequestType DEF Request
  <2>2. /\ attempts' = attempts /\ worker' = worker /\ started' = started
        /\ \A t \in Tasks : t # r.task => status'[t] = status[t]
        /\ status'[r.task] # "absent"
    BY <1>6, RequestType DEF HandleReport, AckTask, NakTask
  <2>3. status[r.task] # "absent"
    BY DEF Numbering
  <2> QED
    BY <1>6, <2>1, <2>2, <2>3, RequestType DEF HandleReport, Numbering
<1>7. CASE \E r \in requests : CompleteInvocation(r)
  BY <1>7, RequestType, WorkerType DEF CompleteInvocation, Numbering, Idle
<1>8. CASE \E r \in requests : LoseRequest(r)
  BY <1>8 DEF LoseRequest, Numbering
<1>9. CASE ReapStaleClaims
  BY <1>9, RequestType DEF ReapStaleClaims, StaleClaims, Numbering
<1>10. CASE (\E t \in Tasks : ClaimAges(t) \/ RetryDelayPasses(t)) \/ UNCHANGED vars
  BY <1>10 DEF ClaimAges, RetryDelayPasses, vars, Numbering
<1> QED
  BY <1>1, <1>2, <1>3, <1>4, <1>5, <1>6, <1>7, <1>8, <1>9, <1>10 DEF Next

(* A claim creates a number nobody owns; a turn that ends hands its number from *)
(* the runner to the request; nothing else creates an owner.                    *)
LEMMA OwnerStep == TypeOK /\ RetryBudget /\ Numbering /\ OneOwner /\ [Next]_vars => OneOwner'
<1> SUFFICES ASSUME TypeOK, RetryBudget, Numbering, OneOwner, [Next]_vars
             PROVE  OneOwner'
  OBVIOUS
<1> USE DEF Runs
<1>1. ASSUME NEW w \in Workers, NEW t \in Tasks, Poll(w, t) PROVE OneOwner'
  <2>1. /\ attempts[t] \in Nat /\ w \in DOMAIN worker
        /\ worker' = [worker EXCEPT ![w] =
                        [pc |-> "running", task |-> t, claim |-> attempts[t] + 1]]
        /\ requests' = requests
    BY <1>1, QueueAssumption DEF Poll, ClaimTask, TypeOK
  <2>2. \A v \in Workers : Runs(v, t) => worker[v].claim <= attempts[t]
    BY DEF Numbering, Busy
  <2>3. \A r \in requests : r.task = t => r.claim <= attempts[t]
    BY DEF Numbering
  <2>4. \A v \in Workers : worker[v].pc = "running" => worker[v].claim \in Nat
    BY WorkerType, QueueAssumption
  <2>5. \A r \in requests : r.claim \in Nat
    BY RequestType, QueueAssumption
  <2> QED
    BY <2>1, <2>2, <2>3, <2>4, <2>5 DEF OneOwner
<1>2. ASSUME NEW w \in Workers, NEW op \in {"ack", "nack"}, FinishTurn(w, op)
      PROVE  OneOwner'
  <2> DEFINE report == [op |-> op, task |-> worker[w].task, claim |-> worker[w].claim,
                        from |-> w, phase |-> "sent"]
  <2>1. /\ worker[w].task \in Tasks /\ Runs(w, worker[w].task)
        /\ requests' = requests \union {report}
        /\ report.task = worker[w].task /\ report.claim = worker[w].claim
    BY <1>2, WorkerType DEF FinishTurn
  <2>2. \A v \in Workers : /\ worker'[v].task = worker[v].task
                           /\ worker'[v].claim = worker[v].claim
                           /\ worker'[v].pc = "running" =>
                                v # w /\ worker[v].pc = "running"
    BY <1>2, WorkerType DEF FinishTurn, WorkerState, Idle, TypeOK
  <2>3. \A q \in requests : q.task = report.task => q.claim # report.claim
    BY <2>1 DEF OneOwner
  <2>4. \A v \in Workers : v # w /\ Runs(v, report.task) => worker[v].claim # report.claim
    BY <2>1 DEF OneOwner
  <2>5. \A u, v \in Workers, t \in Tasks :
          Runs(u, t)' /\ Runs(v, t)' /\ u # v => worker'[u].claim # worker'[v].claim
    BY <2>2 DEF OneOwner
  <2>6. \A v \in Workers, r \in requests' :
          Runs(v, r.task)' => worker'[v].claim # r.claim
    BY <2>1, <2>2, <2>4 DEF OneOwner
  <2>7. \A q, r \in requests' : q.task = r.task /\ q # r => q.claim # r.claim
    BY <2>1, <2>3 DEF OneOwner
  <2> QED
    BY <2>5, <2>6, <2>7 DEF OneOwner
<1>3. CASE \E w \in Workers : AbandonReport(w) \/ Crash(w)
  BY <1>3 DEF AbandonReport, Crash, OneOwner, Idle, TypeOK
<1>4. ASSUME NEW r \in requests, HandleReport(r) PROVE OneOwner'
  <2> DEFINE done == [r EXCEPT !.phase = "applied"]
  <2>1. done.task = r.task /\ done.claim = r.claim
    BY RequestType DEF Request
  <2>2. worker' = worker /\ requests' = (requests \ {r}) \union {done}
    BY <1>4 DEF HandleReport
  <2> HIDE DEF done
  <2> QED
    BY <2>1, <2>2 DEF OneOwner
<1>5. CASE \E r \in requests : CompleteInvocation(r)
  BY <1>5 DEF CompleteInvocation, OneOwner, Idle, TypeOK
<1>6. CASE \E r \in requests : LoseRequest(r)
  BY <1>6 DEF LoseRequest, OneOwner
<1>7. CASE UNCHANGED <<worker, requests>>
  BY <1>7 DEF OneOwner
<1> QED
  BY <1>1, <1>2, <1>3, <1>4, <1>5, <1>6, <1>7
  DEF Next, vars, EnqueueTask, PollLost, ClaimTask, ClaimAges, RetryDelayPasses,
      ReapStaleClaims, rowVars, historyVars

(* Until the reaper resets a claim of t, a runner or a report of t is at the    *)
(* row's latest attempt and the row is claimed: a claim needs a pending row,    *)
(* which then has no runner and no unhandled report left.                       *)
LEMMA UpToDateStep == IInv /\ [Next]_vars => UpToDate'
<1> SUFFICES ASSUME IInv, [Next]_vars PROVE UpToDate'
  OBVIOUS
<1> USE DEF Runs
<1>0. TypeOK /\ Numbering /\ OneOwner /\ UpToDate
  BY DEF IInv
<1>1. ASSUME NEW t \in Tasks, EnqueueTask(t) PROVE UpToDate'
  BY <1>0, <1>1, RequestType DEF EnqueueTask, UpToDate, TypeOK, historyVars
<1>2. ASSUME NEW w \in Workers, NEW t \in Tasks, Poll(w, t) \/ PollLost(w, t)
      PROVE  UpToDate'
  <2>1. /\ status[t] = "pending"
        /\ status' = [status EXCEPT ![t] = "claimed"]
        /\ attempts' = [attempts EXCEPT ![t] = @ + 1]
        /\ requests' = requests /\ reaped' = reaped
        /\ \/ worker' = [worker EXCEPT ![w] =
                        [pc |-> "running", task |-> t, claim |-> attempts[t] + 1]]
           \/ worker' = worker
    BY <1>2 DEF Poll, PollLost, NextFor, Claimable, ClaimTask, historyVars
  <2>2. ~reaped[t] => \A v \in Workers : ~Runs(v, t)
    BY <1>0, <2>1 DEF UpToDate
  <2>3. ~reaped[t] => \A r \in requests : r.task = t => r.phase # "sent"
    BY <1>0, <2>1 DEF UpToDate
  <2> QED
    BY <1>0, <2>1, <2>2, <2>3, RequestType DEF UpToDate, TypeOK
<1>3. ASSUME NEW w \in Workers, NEW op \in {"ack", "nack"}, FinishTurn(w, op)
      PROVE  UpToDate'
  <2>1. /\ worker[w].task \in Tasks /\ Runs(w, worker[w].task)
        /\ requests' = requests \union
             {[op |-> op, task |-> worker[w].task, claim |-> worker[w].claim,
               from |-> w, phase |-> "sent"]}
        /\ status' = status /\ attempts' = attempts /\ reaped' = reaped
    BY <1>0, <1>3, WorkerType DEF FinishTurn, rowVars, historyVars
  <2>2. \A v \in Workers : /\ worker'[v].task = worker[v].task
                           /\ worker'[v].claim = worker[v].claim
                           /\ worker'[v].pc = "running" => worker[v].pc = "running"
    BY <1>0, <1>3, WorkerType DEF FinishTurn, WorkerState, Idle, TypeOK
  <2> QED
    BY <1>0, <2>1, <2>2 DEF UpToDate
<1>4. CASE \E w \in Workers : AbandonReport(w) \/ Crash(w)
  BY <1>0, <1>4 DEF AbandonReport, Crash, UpToDate, Idle, TypeOK, rowVars, historyVars
<1>5. ASSUME NEW r \in requests, HandleReport(r) PROVE UpToDate'
  <2> DEFINE done == [r EXCEPT !.phase = "applied"]
  <2>1. done.phase # "sent" /\ r.task \in Tasks
    BY <1>0, RequestType DEF Request
  <2>2. /\ worker' = worker /\ requests' = (requests \ {r}) \union {done}
        /\ attempts' = attempts /\ reaped' = reaped /\ r.phase = "sent"
        /\ \A t \in Tasks : t # r.task => status'[t] = status[t]
    BY <1>0, <1>5, <2>1 DEF HandleReport, AckTask, NakTask, historyVars, TypeOK
  <2> HIDE DEF done
  <2>3. ~reaped[r.task] =>
          /\ \A w \in Workers : ~Runs(w, r.task)
          /\ \A q \in requests : q.task = r.task /\ q.phase = "sent" => q = r
    BY <1>0, <2>1, <2>2 DEF UpToDate, OneOwner
  <2> QED
    BY <1>0, <2>1, <2>2, <2>3, RequestType DEF UpToDate
<1>6. CASE \E r \in requests : CompleteInvocation(r)
  BY <1>0, <1>6 DEF CompleteInvocation, UpToDate, Idle, TypeOK, rowVars, historyVars
<1>7. CASE \E r \in requests : LoseRequest(r)
  BY <1>0, <1>7 DEF LoseRequest, UpToDate, rowVars
<1>8. CASE ReapStaleClaims
  BY <1>0, <1>8, RequestType DEF ReapStaleClaims, UpToDate
<1>9. CASE UNCHANGED <<status, attempts, worker, requests, reaped>>
  BY <1>9 DEF UpToDate, IInv
<1> QED
  BY <1>1, <1>2, <1>3, <1>4, <1>5, <1>6, <1>7, <1>8, <1>9
  DEF Next, vars, ClaimAges, RetryDelayPasses, rowVars, historyVars

-------------------------------------------------------------------------------
(* IInv is inductive.                                                           *)
LEMMA Inductive == Spec => []IInv
<1>1. Init => IInv
  <2> SUFFICES ASSUME Init PROVE IInv
    OBVIOUS
  <2> USE QueueAssumption DEF Init, Idle
  <2>1. TypeOK
    BY DEF TypeOK, TaskStatus, InvocationStatus, WorkerState
  <2>2. RetryBudget /\ Numbering /\ OneOwner /\ UpToDate
    BY DEF RetryBudget, Numbering, OneOwner, UpToDate, Busy, Runs
  <2> QED
    BY <2>1, <2>2 DEF IInv
<1>2. IInv /\ [Next]_vars => IInv'
  BY TypeStep, BudgetStep, NumberingStep, OwnerStep, UpToDateStep DEF IInv
<1> QED
  BY <1>1, <1>2, PTL DEF Spec

(* Type correctness; attempts and claim numbers stay within max_attempts.       *)
THEOREM TypeCorrect == Spec => []TypeOK
<1>1. IInv => TypeOK
  BY DEF IInv
<1> QED
  BY <1>1, Inductive, PTL

(* ClaimTask, NakTask and ReapStaleClaims keep the retry budget exactly.        *)
THEOREM BudgetKept == Spec => []RetryBudget
<1>1. IInv => RetryBudget
  BY DEF IInv
<1> QED
  BY <1>1, Inductive, PTL

(* Two runners on one task need a reaped claim, and never share an attempt.     *)
THEOREM ExclusiveWork == Spec => []Exclusive
<1>1. IInv => Exclusive
  <2> SUFFICES ASSUME IInv, NEW v \in Workers, NEW w \in Workers, NEW t \in Tasks,
                      Runs(v, t), Runs(w, t), v # w
               PROVE  worker[v].claim # worker[w].claim /\ reaped[t]
    BY DEF Exclusive
  <2>1. worker[v].claim # worker[w].claim
    BY DEF IInv, OneOwner
  <2>2. ~reaped[t] => worker[v].claim = attempts[t] /\ worker[w].claim = attempts[t]
    BY DEF IInv, UpToDate
  <2> QED
    BY <2>1, <2>2 DEF IInv, TypeOK
<1> QED
  BY <1>1, Inductive, PTL

(* A completed row is reopened by NakTask only after a reaped claim; a failed   *)
(* one has no attempt left, so that NakTask fails it again.                     *)
THEOREM LateReportsAreBounded == Spec => LateReportsBounded
<1>1. IInv /\ [Next]_vars =>
        \A t \in Tasks :
          /\ status[t] = "completed" /\ status'[t] # "completed" => reaped[t]
          /\ status[t] = "failed" => status'[t] \in Terminal
  <2> SUFFICES ASSUME IInv, [Next]_vars, NEW t \in Tasks
               PROVE  /\ status[t] = "completed" /\ status'[t] # "completed" => reaped[t]
                      /\ status[t] = "failed" => status'[t] \in Terminal
    OBVIOUS
  <2> USE DEF Terminal
  <2>0. TypeOK /\ UpToDate /\ (status[t] = "failed" => Exhausted(t))
    BY QueueAssumption DEF IInv, RetryBudget, Exhausted, TypeOK
  <2>1. CASE \E r \in requests : HandleReport(r)
    BY <2>0, <2>1, RequestType DEF HandleReport, AckTask, NakTask, UpToDate, TypeOK
  <2>2. CASE \E u \in Tasks : EnqueueTask(u)
    BY <2>0, <2>2 DEF EnqueueTask, TypeOK
  <2>3. CASE \E w \in Workers, u \in Tasks : Poll(w, u) \/ PollLost(w, u)
    BY <2>0, <2>3 DEF Poll, PollLost, NextFor, Claimable, ClaimTask, TypeOK
  <2>4. CASE ReapStaleClaims
    BY <2>0, <2>4 DEF ReapStaleClaims, StaleClaims, TypeOK
  <2>5. CASE UNCHANGED status
    BY <2>5
  <2> QED
    BY <2>1, <2>2, <2>3, <2>4, <2>5
    DEF Next, vars, FinishTurn, AbandonReport, Crash, CompleteInvocation, LoseRequest,
        ClaimAges, RetryDelayPasses, rowVars, historyVars
<1> QED
  BY <1>1, Inductive, PTL DEF Spec, LateReportsBounded

(* No attempt is begun twice: a claim's number is new to started.               *)
THEOREM AttemptsRunOnce == Spec => AttemptRunsOnce
<1>1. IInv /\ [Next]_vars =>
        \A w \in Workers :
          worker[w].pc # "running" /\ worker'[w].pc = "running" =>
            worker'[w].claim \notin started[worker'[w].task]
  <2> SUFFICES ASSUME IInv, [Next]_vars, NEW w \in Workers,
                      worker[w].pc # "running", worker'[w].pc = "running"
               PROVE  worker'[w].claim \notin started[worker'[w].task]
    OBVIOUS
  <2>0. TypeOK /\ Numbering
    BY DEF IInv
  <2>1. ASSUME NEW v \in Workers, NEW t \in Tasks, Poll(v, t)
        PROVE  worker'[w].claim \notin started[worker'[w].task]
    <3>1. worker'[w] = [pc |-> "running", task |-> t, claim |-> attempts[t] + 1]
      BY <2>0, <2>1 DEF Poll, TypeOK
    <3>2. started[t] \subseteq 1..attempts[t] /\ attempts[t] \in Nat
      BY <2>0, QueueAssumption DEF Numbering, TypeOK
    <3> QED
      BY <3>1, <3>2
  <2>2. CASE \E v \in Workers, op \in {"ack", "nack"} : FinishTurn(v, op)
    BY <2>0, <2>2, WorkerType DEF FinishTurn, TypeOK, WorkerState, Idle
  <2>3. CASE \E v \in Workers : AbandonReport(v) \/ Crash(v)
    BY <2>0, <2>3 DEF AbandonReport, Crash, TypeOK, Idle
  <2>4. CASE \E r \in requests : CompleteInvocation(r)
    BY <2>0, <2>4 DEF CompleteInvocation, TypeOK, Idle
  <2>5. CASE UNCHANGED worker
    BY <2>5
  <2> QED
    BY <2>1, <2>2, <2>3, <2>4, <2>5
    DEF Next, vars, EnqueueTask, PollLost, HandleReport, LoseRequest, ClaimAges,
        RetryDelayPasses, ReapStaleClaims, historyVars, rowVars
<1> QED
  BY <1>1, Inductive, PTL DEF Spec, AttemptRunsOnce

-------------------------------------------------------------------------------
(* The two statements of a report.  Between them the row already shows the     *)
(* outcome and cannot be claimed: it is settled, or waits for a delay that is  *)
(* longer than the handler.                                                    *)
Underway ==
  \A r \in requests : ~reaped[r.task] /\ ~torn[r.task] /\ r.phase = "applied" =>
    /\ r.claim = attempts[r.task]
    /\ r.op = "ack"  => status[r.task] = "completed"
    /\ r.op = "nack" => \/ status[r.task] = "failed"
                        \/ status[r.task] = "pending" /\ ~due[r.task]

(* Then one report at most is on its way for the task: two unhandled ones      *)
(* would be about one attempt, an unhandled one needs a claimed row.           *)
LEMMA OneReport ==
  ASSUME IInv, Underway, NEW q \in requests, NEW r \in requests, q.task = r.task,
         ~reaped[r.task], ~torn[r.task]
  PROVE  q = r
<1>1. q \in Request /\ r \in Request
  BY RequestType DEF IInv
<1>2. q.op \in {"ack", "nack"} /\ r.op \in {"ack", "nack"}
  BY <1>1 DEF Request
<1>3. q.phase \in {"sent", "applied"} /\ r.phase \in {"sent", "applied"}
  BY <1>1 DEF Request
<1>4. q.claim = attempts[r.task] /\ r.claim = attempts[r.task]
  BY <1>3 DEF IInv, UpToDate, Underway
<1> QED
  BY <1>4 DEF IInv, OneOwner

(* No statement disturbs a report between its two statements, short of those   *)
(* that set torn or reaped.                                                    *)
LEMMA UnderwayStep == IInv /\ Underway /\ [Next]_vars => Underway'
<1> SUFFICES ASSUME IInv, Underway, [Next]_vars PROVE Underway'
  OBVIOUS
<1>0. TypeOK /\ Numbering /\ UpToDate
  BY DEF IInv
<1>1. ASSUME NEW t \in Tasks, EnqueueTask(t) PROVE Underway'
  BY <1>0, <1>1, RequestType DEF EnqueueTask, Underway, Numbering, TypeOK, historyVars
<1>2. ASSUME NEW w \in Workers, NEW t \in Tasks, Poll(w, t) \/ PollLost(w, t)
      PROVE  Underway'
  <2>1. /\ status[t] = "pending" /\ due[t]
        /\ status' = [status EXCEPT ![t] = "claimed"]
        /\ attempts' = [attempts EXCEPT ![t] = @ + 1]
        /\ UNCHANGED <<due, requests, reaped, torn>>
    BY <1>2 DEF Poll, PollLost, NextFor, Claimable, ClaimTask, historyVars
  <2>2. \A r \in requests : r.task = t /\ ~reaped[t] /\ ~torn[t] => r.phase # "applied"
    BY <2>1, <1>0, RequestType DEF Underway, Request
  <2> QED
    BY <1>0, <2>1, <2>2, RequestType DEF Underway, TypeOK
<1>3. CASE \E w \in Workers, op \in {"ack", "nack"} : FinishTurn(w, op)
  BY <1>0, <1>3 DEF FinishTurn, Underway, rowVars, historyVars
<1>4. ASSUME NEW r \in requests, HandleReport(r) PROVE Underway'
  <2> DEFINE done == [r EXCEPT !.phase = "applied"]
  <2>1. /\ r \in Request /\ r.task \in Tasks
        /\ done.task = r.task /\ done.op = r.op /\ done.claim = r.claim
    BY <1>0, RequestType DEF Request
  <2>2. /\ requests' = (requests \ {r}) \union {done} /\ r.phase = "sent"
        /\ UNCHANGED <<attempts, reaped, torn>>
        /\ \A t \in Tasks : t # r.task => status'[t] = status[t] /\ due'[t] = due[t]
        /\ r.op = "ack"  => status'[r.task] = "completed"
        /\ r.op = "nack" => status'[r.task] \in {"failed", "pending"} /\ ~due'[r.task]
    BY <1>0, <1>4, <2>1 DEF HandleReport, AckTask, NakTask, historyVars, TypeOK
  <2>3. ~reaped[r.task] => r.claim = attempts[r.task]
    BY <1>0, <2>2 DEF UpToDate
  <2> HIDE DEF done
  <2>4. ASSUME NEW q \in requests, q # r, ~reaped[q.task], ~torn[q.task],
               q.phase = "applied"
        PROVE  q.task # r.task
    BY <2>4, OneReport
  <2> QED
    BY <1>0, <2>1, <2>2, <2>3, <2>4, RequestType DEF Underway
<1>5. CASE \E r \in requests : CompleteInvocation(r)
  BY <1>5 DEF CompleteInvocation, Underway, rowVars, historyVars
<1>6. CASE \E r \in requests : LoseRequest(r)
  BY <1>0, <1>6, RequestType DEF LoseRequest, Underway, rowVars, TypeOK
<1>7. ASSUME NEW t \in Tasks, RetryDelayPasses(t) PROVE Underway'
  BY <1>0, <1>7, RequestType DEF RetryDelayPasses, Underway, TypeOK
<1>8. CASE ReapStaleClaims
  BY <1>0, <1>8, RequestType DEF ReapStaleClaims, StaleClaims, Underway, TypeOK, Request
<1>9. CASE UNCHANGED <<status, attempts, due, requests, reaped, torn>>
  BY <1>9 DEF Underway
<1> QED
  BY <1>1, <1>2, <1>3, <1>4, <1>5, <1>6, <1>7, <1>8, <1>9
  DEF Next, vars, AbandonReport, Crash, ClaimAges, rowVars, historyVars

(* The second statement writes what the first one did, and nothing moves a row *)
(* that no report is about except an insert and a claim.                       *)
LEMMA AgreesStep == IInv /\ Underway /\ InvocationAgrees /\ [Next]_vars => InvocationAgrees'
<1> DEFINE Agrees(t) ==
      /\ status[t] = "completed" => invocation[t] = "success"
      /\ status[t] = "failed"    => invocation[t] = "failure"
      /\ status[t] = "pending"   =>
           invocation[t] = IF attempts[t] = 0 THEN "running" ELSE "failure"
<1> SUFFICES ASSUME IInv, Underway, InvocationAgrees, [Next]_vars, NEW t \in Tasks,
                    ~reaped'[t], ~torn'[t], t \in Recorded,
                    \A r \in requests' : r.task # t
             PROVE  Agrees(t)'
  BY DEF InvocationAgrees
<1>0. TypeOK /\ Numbering /\ UpToDate
  BY DEF IInv
<1>1. ~reaped[t] /\ ~torn[t]
  BY <1>0 DEF Next, vars, EnqueueTask, Poll, PollLost, ClaimTask, FinishTurn,
    AbandonReport, Crash, HandleReport, CompleteInvocation, LoseRequest, ClaimAges,
    RetryDelayPasses, ReapStaleClaims, TypeOK, historyVars
<1>2. (\A r \in requests : r.task # t) => Agrees(t)
  BY <1>1 DEF InvocationAgrees
<1>3. CASE \E u \in Tasks : EnqueueTask(u)
  BY <1>0, <1>2, <1>3 DEF EnqueueTask, Numbering, TypeOK
<1>4. ASSUME NEW w \in Workers, NEW u \in Tasks, Poll(w, u) \/ PollLost(w, u)
      PROVE  Agrees(t)'
  <2>1. /\ status' = [status EXCEPT ![u] = "claimed"]
        /\ attempts' = [attempts EXCEPT ![u] = @ + 1]
        /\ UNCHANGED <<invocation, requests>>
    BY <1>4 DEF Poll, PollLost, ClaimTask
  <2> QED
    BY <1>0, <1>2, <2>1 DEF TypeOK
<1>5. ASSUME NEW w \in Workers, NEW op \in {"ack", "nack"}, FinishTurn(w, op)
      PROVE  Agrees(t)'
  BY <1>2, <1>5 DEF FinishTurn, rowVars
<1>6. ASSUME NEW r \in requests, HandleReport(r) PROVE Agrees(t)'
  <2>1. r.task \in Tasks /\ [r EXCEPT !.phase = "applied"].task = r.task
    BY <1>0, RequestType DEF Request
  <2>2. r.task # t
    BY <1>6, <2>1 DEF HandleReport
  <2> QED
    BY <1>0, <1>2, <1>6, <2>1, <2>2 DEF HandleReport, AckTask, NakTask, TypeOK
<1>7. ASSUME NEW r \in requests, CompleteInvocation(r) PROVE Agrees(t)'
  <2>1. /\ requests' = requests \ {r} /\ r.phase = "applied" /\ UNCHANGED rowVars
        /\ r \in Request /\ r.task \in Tasks /\ r.claim # 0
        /\ r.task # t => invocation'[t] = invocation[t]
        /\ r.task = t => invocation'[t] = Outcome(r.op)
    BY <1>0, <1>7, RequestType DEF CompleteInvocation, TypeOK
  <2>2. CASE r.task = t
    BY <1>1, <2>1, <2>2 DEF Underway, Outcome, Request, rowVars
  <2>3. CASE r.task # t
    BY <1>2, <2>1, <2>3 DEF rowVars
  <2> QED
    BY <2>2, <2>3
<1>8. ASSUME NEW r \in requests, LoseRequest(r) PROVE Agrees(t)'
  <2>1. /\ requests' = requests \ {r} /\ UNCHANGED <<rowVars, invocation>>
        /\ r.task \in Tasks /\ r \in Request
        /\ r.task = t => r.phase # "applied"
    BY <1>0, <1>8, RequestType DEF LoseRequest, TypeOK
  <2>2. CASE r.task = t
    <3>1. status[t] = "claimed"
      BY <1>0, <1>1, <2>1, <2>2 DEF UpToDate, Request
    <3> QED
      BY <2>1, <3>1 DEF rowVars
  <2>3. CASE r.task # t
    BY <1>2, <2>1, <2>3 DEF rowVars
  <2> QED
    BY <2>2, <2>3
<1>9. CASE ReapStaleClaims
  BY <1>0, <1>1, <1>2, <1>9 DEF ReapStaleClaims, StaleClaims, TypeOK
<1>10. CASE UNCHANGED <<status, attempts, invocation, requests>>
  BY <1>2, <1>10
<1> QED
  BY <1>3, <1>4, <1>5, <1>6, <1>7, <1>8, <1>9, <1>10
  DEF Next, vars, AbandonReport, Crash, ClaimAges, RetryDelayPasses, rowVars

(* agent_tasks and the invocation history show the same outcome whenever no    *)
(* report is under way, as long as no claim of the task was reaped and no      *)
(* handler was cut between NakTask or AckTask and invocations.Complete.        *)
THEOREM HistoryAgrees == Spec => []InvocationAgrees
<1>1. Init => Underway /\ InvocationAgrees
  BY DEF Init, Underway, InvocationAgrees
<1>2. IInv /\ Underway /\ InvocationAgrees /\ [Next]_vars => (Underway /\ InvocationAgrees)'
  BY UnderwayStep, AgreesStep
<1> QED
  BY <1>1, <1>2, Inductive, PTL DEF Spec

-------------------------------------------------------------------------------
(* The step simulation behind RefinesLease, one action of the leased queue for  *)
(* each statement that touches a row.                                           *)
LEMMA LeaseStep == IInv /\ IInv' /\ [Next]_vars => [Lease!Next]_(Lease!vars)
<1> SUFFICES ASSUME IInv, IInv', [Next]_vars PROVE [Lease!Next]_(Lease!vars)
  OBVIOUS
<1> USE QueueAssumption
<1>0. TypeOK /\ TypeOK' /\ RetryBudget /\ UpToDate
  BY DEF IInv
<1>1. ASSUME NEW t \in Tasks, EnqueueTask(t) PROVE Lease!Accept(t)
  <2>1. /\ status[t] = "absent" /\ status' = [status EXCEPT ![t] = "pending"]
        /\ attempts' = attempts /\ reaped' = reaped
    BY <1>1 DEF EnqueueTask, historyVars
  <2>2. Phase[t] = "none" /\ Phase' = [Phase EXCEPT ![t] = "waiting"]
    BY <1>0, <2>1 DEF Phase, PhaseOf, TypeOK
  <2> QED
    BY <2>1, <2>2 DEF Lease!Accept, Lease!Move
<1>2. ASSUME NEW w \in Workers, NEW t \in Tasks, Poll(w, t) \/ PollLost(w, t)
      PROVE  Lease!Lease(t)
  <2>1. /\ status[t] = "pending" /\ attempts[t] < MaxAttempts
        /\ status' = [status EXCEPT ![t] = "claimed"]
        /\ attempts' = [attempts EXCEPT ![t] = @ + 1]
        /\ reaped' = reaped
    BY <1>0, <1>2 DEF Poll, PollLost, NextFor, Claimable, ClaimTask, RetryBudget, historyVars
  <2>2. Phase' = [Phase EXCEPT ![t] = "leased"]
    BY <1>0, <2>1 DEF Phase, PhaseOf, TypeOK
  <2>3. Phase[t] = "waiting"
    BY <2>1 DEF Phase, PhaseOf
  <2> QED
    BY <1>0, <2>1, <2>2, <2>3 DEF Lease!Lease, Lease!Move, Lease!Spent, TypeOK
<1>3. ASSUME NEW r \in requests, HandleReport(r)
      PROVE  Lease!Return(r.task) \/ Lease!Finish(r.task)
  <2> DEFINE t == r.task
  <2>1. /\ t \in Tasks /\ attempts' = attempts /\ reaped' = reaped
        /\ \/ status' = [status EXCEPT ![t] = "completed"]
           \/ status' = [status EXCEPT ![t] = "failed"]
           \/ status' = [status EXCEPT ![t] = "pending"] /\ ~Exhausted(t)
    BY <1>0, <1>3, RequestType DEF HandleReport, AckTask, NakTask, historyVars
  <2>2. status[t] = "claimed" \/ (status[t] # "absent" /\ reaped[t])
    BY <1>0, <1>3, <2>1 DEF HandleReport, UpToDate, IInv, Numbering, TypeOK
  <2> HIDE DEF t
  <2>3. Lease!Answerable(t)
    BY <1>0, <2>1, <2>2 DEF Lease!Answerable, Phase, PhaseOf, TypeOK, TaskStatus
  <2>4. CASE status' = [status EXCEPT ![t] = "pending"] /\ ~Exhausted(t)
    <3>1. Phase' = [Phase EXCEPT ![t] = "waiting"]
      BY <1>0, <2>1, <2>4 DEF Phase, PhaseOf, TypeOK
    <3> QED
      BY <2>1, <2>3, <2>4, <3>1 DEF Lease!Return, Lease!Move, Lease!Spent, Exhausted, t
  <2>5. CASE \/ status' = [status EXCEPT ![t] = "completed"]
             \/ status' = [status EXCEPT ![t] = "failed"]
    <3>1. Phase' = [Phase EXCEPT ![t] = "done"]
      BY <1>0, <2>1, <2>5 DEF Phase, PhaseOf, TypeOK
    <3> QED
      BY <2>1, <2>3, <3>1 DEF Lease!Finish, Lease!Move, t
  <2> QED
    BY <2>1, <2>4, <2>5
<1>4. ASSUME ReapStaleClaims PROVE Lease!Expire(StaleClaims)
  <2>1. \A t \in Tasks : t \in StaleClaims => Phase[t] = "leased"
    BY DEF StaleClaims, Phase, PhaseOf
  <2>2. Phase' = [t \in Tasks |-> IF t \in StaleClaims
                   THEN IF attempts[t] >= MaxAttempts THEN "done" ELSE "waiting"
                   ELSE Phase[t]]
    BY <1>0, <1>4 DEF ReapStaleClaims, Phase, PhaseOf, TypeOK, Exhausted
  <2>3. attempts' = attempts
        /\ reaped' = [t \in Tasks |-> reaped[t] \/ t \in StaleClaims]
        /\ StaleClaims \subseteq Tasks
    BY <1>4 DEF ReapStaleClaims, StaleClaims
  <2> QED
    BY <2>1, <2>2, <2>3 DEF Lease!Expire, Lease!Spent
<1>5. CASE UNCHANGED <<status, attempts, reaped>>
  <2>1. Phase' = Phase
    BY <1>5 DEF Phase
  <2> QED
    BY <1>5, <2>1 DEF Lease!vars
<1>6. \A r \in requests : r.task \in Tasks
  BY <1>0, RequestType
<1>7. StaleClaims \in SUBSET Tasks
  BY DEF StaleClaims
<1> QED
  BY <1>1, <1>2, <1>3, <1>4, <1>5, <1>6, <1>7
  DEF Next, vars, FinishTurn, AbandonReport, Crash, CompleteInvocation, LoseRequest,
      ClaimAges, RetryDelayPasses, rowVars, historyVars, Lease!Next

(* The table with its runners, reports and reaper implements the leased queue.  *)
THEOREM LeaseRefinement == Spec => RefinesLease
<1>1. Init => Lease!Init
  BY DEF Init, Lease!Init, Phase, PhaseOf
<1>2. IInv /\ IInv' /\ [Next]_vars => [Lease!Next]_(Lease!vars)
  BY LeaseStep
<1> QED
  BY <1>1, <1>2, Inductive, PTL DEF Spec, RefinesLease, Lease!Spec
===============================================================================
