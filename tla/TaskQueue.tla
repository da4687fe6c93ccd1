------------------------------- MODULE TaskQueue -------------------------------
(***************************************************************************)
(* The life of the rows of agent_tasks: services/hub/internal/eventqueue/  *)
(* store.go with the hub's next-task, ack and nack handlers, the stale     *)
(* claim reaper of cmd/hub/main.go, and the runners that poll the hub      *)
(* (pi/pi-extensions/ainsel-runner/index.ts) reduced to what they do to    *)
(* the queue.                                                              *)
(*                                                                         *)
(* Every SQL statement of the store commits by itself, so a statement is   *)
(* one step and a handler that runs two of them takes two.  A runner's     *)
(* report is a message: it may be handled late, handled after the runner   *)
(* has moved on or died, or lost before or between the handler's two       *)
(* statements (a cut connection, a hub restart).                           *)
(*                                                                         *)
(* Time is abstract: a claim's age is the flag stale ("older than          *)
(* TASK_CLAIM_TIMEOUT_SECONDS"), a retry_after is the flag due ("not in    *)
(* the future").                                                           *)
(***************************************************************************)
EXTENDS Naturals, FiniteSets

CONSTANTS
  Tasks,          \* the (event_id, agent_name) pairs a row may be inserted for
  Recorded,       \* the pairs an invocation is recorded for (not chat messages)
  Agents,         \* the agents
  Workers,        \* the runner pods
  NoTask,         \* "the runner has no task"
  AgentOf,        \* AgentOf[t]: the agent of the pair t
  Serves,         \* Serves[w]: the AGENT_NAME of the pod w
  MaxAttempts     \* agent_tasks.max_attempts

ASSUME QueueAssumption ==
  /\ MaxAttempts \in Nat \ {0}
  /\ Recorded \subseteq Tasks
  /\ AgentOf \in [Tasks -> Agents]
  /\ Serves \in [Workers -> Agents]
  /\ NoTask \notin Tasks

VARIABLES
  status,      \* agent_tasks.status, "absent" when there is no row
  attempts,    \* agent_tasks.attempts
  due,         \* retry_after IS NULL OR retry_after <= now()
  stale,       \* claimed_at < now() - TASK_CLAIM_TIMEOUT_SECONDS
  ahead,       \* the rows with an earlier created_at
  invocation,  \* status of the invocation recorded for the task
  worker,      \* what each runner pod is doing
  requests     \* the ack and nack requests between runners and the hub

\* History, read by properties only.
VARIABLES
  started,     \* started[t]: the attempts of t whose turn a runner has begun
  reaped,      \* reaped[t]: a claim of t was reset by the reaper
  torn         \* torn[t]: a handler for t was cut between its statements, or
               \* took longer between them than the retry delay it had written

rowVars     == <<status, attempts, due, stale, ahead>>
historyVars == <<started, reaped, torn>>
vars == <<rowVars, invocation, worker, requests, historyVars>>

TaskStatus       == {"absent", "pending", "claimed", "completed", "failed"}
InvocationStatus == {"none", "running", "success", "failure"}
Idle == [pc |-> "polling", task |-> NoTask, claim |-> 0]

WorkerState == [pc: {"running", "reporting"}, task: Tasks, claim: 1..MaxAttempts]
                 \union {Idle}
Request == [op: {"ack", "nack"}, task: Tasks, claim: 1..MaxAttempts,
            from: Workers, phase: {"sent", "applied"}]

TypeOK ==
  /\ status \in [Tasks -> TaskStatus]
  /\ attempts \in [Tasks -> 0..MaxAttempts]
  /\ due \in [Tasks -> BOOLEAN]
  /\ stale \in [Tasks -> BOOLEAN]
  /\ ahead \in [Tasks -> SUBSET Tasks]
  /\ invocation \in [Tasks -> InvocationStatus]
  /\ worker \in [Workers -> WorkerState]
  /\ requests \subseteq Request
  /\ started \in [Tasks -> SUBSET (1..MaxAttempts)]
  /\ reaped \in [Tasks -> BOOLEAN]
  /\ torn \in [Tasks -> BOOLEAN]

Init ==
  /\ status = [t \in Tasks |-> "absent"]
  /\ attempts = [t \in Tasks |-> 0]
  /\ due = [t \in Tasks |-> TRUE]
  /\ stale = [t \in Tasks |-> FALSE]
  /\ ahead = [t \in Tasks |-> {}]
  /\ invocation = [t \in Tasks |-> "none"]
  /\ worker = [w \in Workers |-> Idle]
  /\ requests = {}
  /\ started = [t \in Tasks |-> {}]
  /\ reaped = [t \in Tasks |-> FALSE]
  /\ torn = [t \in Tasks |-> FALSE]

-------------------------------------------------------------------------------
(* Filling the queue and claiming from it                                      *)

\* The router and the cron emitter record an invocation before they insert the
\* row; a second insert of the pair hits ON CONFLICT DO NOTHING and changes
\* nothing.
EnqueueTask(t) ==
  /\ status[t] = "absent"
  /\ status' = [status EXCEPT ![t] = "pending"]
  /\ ahead' = [ahead EXCEPT ![t] = {u \in Tasks : status[u] # "absent"}]
  /\ invocation' = [invocation EXCEPT ![t] = IF t \in Recorded THEN "running" ELSE "none"]
  /\ UNCHANGED <<attempts, due, stale, worker, requests, historyVars>>

\* Mutant: the sub-select also takes rows that are already claimed.
ClaimableAlsoClaimed(t, a) ==
  AgentOf[t] = a /\ status[t] \in {"pending", "claimed"} /\ due[t]

Claimable(t, a) == AgentOf[t] = a /\ status[t] = "pending" /\ due[t]

\* The row the claim's sub-select picks for agent a.
NextFor(a, t) ==
  /\ Claimable(t, a)
  /\ \A u \in ahead[t] : ~Claimable(u, a)

\* Mutant: off by one in the comparison with max_attempts.
ExhaustedLate(t) == attempts[t] > MaxAttempts

Exhausted(t) == attempts[t] >= MaxAttempts

\* Mutant: the claim does not count the attempt.
ClaimTaskUncounted(t) ==
  /\ status' = [status EXCEPT ![t] = "claimed"]
  /\ stale' = [stale EXCEPT ![t] = FALSE]
  /\ UNCHANGED <<attempts, due, ahead, invocation, requests>>

ClaimTask(t) ==
  /\ status' = [status EXCEPT ![t] = "claimed"]
  /\ attempts' = [attempts EXCEPT ![t] = @ + 1]
  /\ stale' = [stale EXCEPT ![t] = FALSE]
  /\ UNCHANGED <<due, ahead, invocation, requests>>

\* A poll is answered with a task and the runner begins the turn for it.
Poll(w, t) ==
  /\ worker[w].pc = "polling"
  /\ NextFor(Serves[w], t)
  /\ ClaimTask(t)
  /\ worker' = [worker EXCEPT ![w] =
                  [pc |-> "running", task |-> t, claim |-> attempts[t] + 1]]
  /\ started' = [started EXCEPT ![t] = @ \union {attempts[t] + 1}]
  /\ UNCHANGED <<reaped, torn>>

\* The claim commits but its answer never reaches the runner.
PollLost(w, t) ==
  /\ worker[w].pc = "polling"
  /\ NextFor(Serves[w], t)
  /\ ClaimTask(t)
  /\ UNCHANGED <<worker, historyVars>>

-------------------------------------------------------------------------------
(* The runner's side of a report                                               *)

\* The turn is over: processTask sends an ack when it succeeded, else a nack.
FinishTurn(w, op) ==
  /\ worker[w].pc = "running"
  /\ worker' = [worker EXCEPT ![w].pc = "reporting"]
  /\ requests' = requests \union
       {[op |-> op, task |-> worker[w].task, claim |-> worker[w].claim,
         from |-> w, phase |-> "sent"]}
  /\ UNCHANGED <<rowVars, invocation, historyVars>>

\* fetch fails: the runner logs it and polls again; the hub may yet handle it.
AbandonReport(w) ==
  /\ worker[w].pc = "reporting"
  /\ worker' = [worker EXCEPT ![w] = Idle]
  /\ UNCHANGED <<rowVars, invocation, requests, historyVars>>

\* The pod dies; its replacement starts polling.
Crash(w) ==
  /\ worker[w].pc \in {"running", "reporting"}
  /\ worker' = [worker EXCEPT ![w] = Idle]
  /\ UNCHANGED <<rowVars, invocation, requests, historyVars>>

-------------------------------------------------------------------------------
(* The hub's side of a report: GetTask only checks the row's agent and reads   *)
(* the immutable invocation_id; AckTask or NakTask is the first step that      *)
(* writes, invocations.Complete the second.  Neither looks at the row's status *)
(* or at the attempt the report is about.                                      *)

AckTask(t) ==
  /\ status' = [status EXCEPT ![t] = "completed"]
  /\ UNCHANGED <<attempts, due, stale, ahead>>

\* Mutant: a nack always returns the row to pending.
NakTaskUnlimited(t) ==
  /\ status' = [status EXCEPT ![t] = "pending"]
  /\ due' = [due EXCEPT ![t] = FALSE]
  /\ UNCHANGED <<attempts, stale, ahead>>

NakTask(t) ==
  /\ status' = [status EXCEPT ![t] = IF Exhausted(t) THEN "failed" ELSE "pending"]
  /\ due' = [due EXCEPT ![t] = FALSE]
  /\ UNCHANGED <<attempts, stale, ahead>>

HandleReport(r) ==
  /\ r.phase = "sent"
  /\ \/ r.op = "ack"  /\ AckTask(r.task)
     \/ r.op = "nack" /\ NakTask(r.task)
  /\ requests' = (requests \ {r}) \union {[r EXCEPT !.phase = "applied"]}
  /\ UNCHANGED <<invocation, worker, historyVars>>

Outcome(op) == IF op = "ack" THEN "success" ELSE "failure"

\* Mutant: a terminal invocation is not overwritten, the first outcome stays.
CompleteInvocationOnce(r) ==
  /\ r.phase = "applied"
  /\ invocation' = IF r.task \in Recorded /\ invocation[r.task] = "running"
                     THEN [invocation EXCEPT ![r.task] = Outcome(r.op)]
                     ELSE invocation
  /\ requests' = requests \ {r}
  /\ worker' = [worker EXCEPT ![r.from] =
       IF @.pc = "reporting" /\ @.task = r.task /\ @.claim = r.claim THEN Idle ELSE @]
  /\ UNCHANGED <<rowVars, historyVars>>

\* invocations.Complete overwrites whatever is there; the answer then releases
\* the runner if it is still waiting for it.
CompleteInvocation(r) ==
  /\ r.phase = "applied"
  /\ invocation' = IF r.task \in Recorded
                     THEN [invocation EXCEPT ![r.task] = Outcome(r.op)]
                     ELSE invocation
  /\ requests' = requests \ {r}
  /\ worker' = [worker EXCEPT ![r.from] =
       IF @.pc = "reporting" /\ @.task = r.task /\ @.claim = r.claim THEN Idle ELSE @]
  /\ UNCHANGED <<rowVars, historyVars>>

\* The request is lost on its way, or its handler dies where it stands.
LoseRequest(r) ==
  /\ requests' = requests \ {r}
  /\ torn' = [torn EXCEPT ![r.task] = @ \/ r.phase = "applied"]
  /\ UNCHANGED <<rowVars, invocation, worker, started, reaped>>

-------------------------------------------------------------------------------
(* Time, and the reaper's single UPDATE over every stale claim                 *)

ClaimAges(t) ==
  /\ status[t] = "claimed" /\ ~stale[t]
  /\ stale' = [stale EXCEPT ![t] = TRUE]
  /\ UNCHANGED <<status, attempts, due, ahead, invocation, worker, requests, historyVars>>

\* A handler's statements are bounded by queryTimeout (5s) and the delay it
\* writes is 60s by default, 0 at the least: torn keeps track of the difference.
RetryDelayPasses(t) ==
  /\ ~due[t]
  /\ due' = [due EXCEPT ![t] = TRUE]
  /\ torn' = [torn EXCEPT ![t] =
       @ \/ \E r \in requests : r.task = t /\ r.phase = "applied"]
  /\ UNCHANGED <<status, attempts, stale, ahead, invocation, worker, requests, started, reaped>>

\* Mutants: the UPDATE forgets status = 'claimed'; the reaper skips the rows it
\* would have to fail.
StaleRows == {t \in Tasks : status[t] # "absent" /\ stale[t]}
StaleRetriable == {t \in Tasks : status[t] = "claimed" /\ stale[t] /\ ~Exhausted(t)}

StaleClaims == {t \in Tasks : status[t] = "claimed" /\ stale[t]}

ReapStaleClaims ==
  /\ StaleClaims # {}
  /\ status' = [t \in Tasks |->
       IF t \in StaleClaims THEN IF Exhausted(t) THEN "failed" ELSE "pending"
                            ELSE status[t]]
  /\ due' = [t \in Tasks |-> due[t] /\ t \notin StaleClaims]
  /\ reaped' = [t \in Tasks |-> reaped[t] \/ t \in StaleClaims]
  /\ UNCHANGED <<attempts, stale, ahead, invocation, worker, requests, started, torn>>

-------------------------------------------------------------------------------
Next ==
  \/ \E t \in Tasks : EnqueueTask(t)
  \/ \E w \in Workers, t \in Tasks : Poll(w, t)
  \/ \E w \in Workers, t \in Tasks : PollLost(w, t)
  \/ \E w \in Workers, op \in {"ack", "nack"} : FinishTurn(w, op)
  \/ \E w \in Workers : AbandonReport(w)
  \/ \E w \in Workers : Crash(w)
  \/ \E r \in requests : HandleReport(r)
  \/ \E r \in requests : CompleteInvocation(r)
  \/ \E r \in requests : LoseRequest(r)
  \/ \E t \in Tasks : ClaimAges(t)
  \/ \E t \in Tasks : RetryDelayPasses(t)
  \/ ReapStaleClaims

Spec == Init /\ [][Next]_vars

(* Fairness.  The poll loop, the turn timeout (TURN_TIMEOUT_MS), fetch's own    *)
(* timeouts, the hub's handlers, the reaper's ticker and the clock all go on    *)
(* by themselves.  Nothing obliges a runner to crash, a message to be lost or   *)
(* the router to enqueue anything.                                              *)
Fairness ==
  /\ \A w \in Workers :
       /\ WF_vars(\E t \in Tasks : Poll(w, t))
       /\ WF_vars(\E op \in {"ack", "nack"} : FinishTurn(w, op))
       /\ WF_vars(AbandonReport(w))
  /\ WF_vars(\E r \in requests : HandleReport(r))
  /\ WF_vars(\E r \in requests : CompleteInvocation(r))
  /\ \A t \in Tasks : WF_vars(ClaimAges(t)) /\ WF_vars(RetryDelayPasses(t))
  /\ WF_vars(ReapStaleClaims)

FairSpec == Spec /\ Fairness

-------------------------------------------------------------------------------
(* Safety                                                                      *)

Terminal == {"completed", "failed"}

Runs(w, t) == worker[w].pc = "running" /\ worker[w].task = t

(* Two runners never work on the same attempt of a task, and as long as the    *)
(* reaper has not given a claim away they never work on the same task: the     *)
(* atomic claim of ClaimTask is the only mutual exclusion there is.            *)
Exclusive ==
  \A v, w \in Workers, t \in Tasks :
    Runs(v, t) /\ Runs(w, t) /\ v # w =>
      worker[v].claim # worker[w].claim /\ reaped[t]

(* A task is given up ("failed") only after max_attempts claims, and a row     *)
(* waiting to be claimed always has an attempt left: late nacks, the reaper    *)
(* and lost answers together never overdraw or underdraw the retry budget.     *)
RetryBudget ==
  \A t \in Tasks :
    /\ attempts[t] <= MaxAttempts
    /\ status[t] = "pending" => attempts[t] < MaxAttempts
    /\ status[t] = "failed"  => attempts[t] = MaxAttempts

(* A task whose claim was never reaped, none of whose reports is on its way    *)
(* and none of whose handlers was cut or overtaken half way shows the same     *)
(* outcome in agent_tasks and in the invocation history, although two          *)
(* statements write them.                                                      *)
InvocationAgrees ==
  \A t \in Tasks :
    (/\ ~reaped[t] /\ ~torn[t] /\ t \in Recorded
     /\ \A r \in requests : r.task # t) =>
      /\ status[t] = "completed" => invocation[t] = "success"
      /\ status[t] = "failed"    => invocation[t] = "failure"
      /\ status[t] = "pending"   =>
           invocation[t] = IF attempts[t] = 0 THEN "running" ELSE "failure"

-------------------------------------------------------------------------------
(* Steps                                                                       *)

(* No attempt of a task is begun twice; with RetryBudget, an event makes an    *)
(* agent run at most max_attempts times whatever is lost, late or reaped.      *)
AttemptRunsOnce ==
  [][\A w \in Workers :
       worker[w].pc # "running" /\ worker'[w].pc = "running" =>
         worker'[w].claim \notin started[worker'[w].task]]_vars

(* Late reports, which name no attempt, disturb settled rows only this far: a  *)
(* completed task is handed out again only when the reaper once took a claim   *)
(* of it from a runner still at work, and a failed one is never run again: all *)
(* that moves it is a late ack, which says that its last attempt succeeded.    *)
LateReportsBounded ==
  [][\A t \in Tasks :
       /\ status[t] = "completed" /\ status'[t] # "completed" => reaped[t]
       /\ status[t] = "failed" => status'[t] \in Terminal]_vars

(* Every row ends completed or failed and stays that way, although reports may *)
(* reopen rows: each reopening costs an attempt and attempts run out.          *)
SettlesForGood == \A t \in Tasks : status[t] # "absent" ~> [](status[t] \in Terminal)

-------------------------------------------------------------------------------
(* The abstract queue                                                          *)

PhaseOf(s) ==
  IF s = "absent" THEN "none" ELSE
  IF s = "pending" THEN "waiting" ELSE
  IF s = "claimed" THEN "leased" ELSE "done"

Phase == [t \in Tasks |-> PhaseOf(status[t])]

Lease == INSTANCE LeasedQueue WITH phase <- Phase, used <- attempts, expired <- reaped

(* The table, the runners and the reports between them implement the leased    *)
(* queue: a report without an attempt number is accepted out of turn only for  *)
(* a task one of whose claims was reaped.                                      *)
RefinesLease == Lease!Spec

-------------------------------------------------------------------------------
(* What the comments say and the code does not do                              *)

(* Prune (invocations/pgstore.go): "every normal path eventually calls         *)
(* Complete" on the running invocations.                                       *)
InvocationsComplete ==
  \A t \in Recorded : status[t] # "absent" ~> invocation[t] # "running"
===============================================================================
