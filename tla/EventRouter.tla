------------------------------- MODULE EventRouter -------------------------------
(***************************************************************************)
(* The router of services/hub/internal/router/router.go, the transfer it   *)
(* shares with the bridges (internal/channels/transfer.go) and what the    *)
(* two write: events, agent_tasks and invocations.                         *)
(*                                                                         *)
(* One event is handled by a sequence of statements that each commit by    *)
(* themselves, MarkRouted last.  Each may fail; the hub may die between    *)
(* two of them; two hubs may route at once (a rolling update, replicas),   *)
(* for FetchUnrouted locks nothing.  What the trigger index matches and    *)
(* what the bridges reach is read once per pass and may change between     *)
(* passes, so it is any set of agents: both are deduplicated by agent.     *)
(***************************************************************************)
EXTENDS Naturals, Sequences, SequencesExt, FiniteSets

CONSTANTS
  Events,
  Agents,
  Routers,     \* the hubs that route
  NoEvent,
  NoAgent,
  MaxFaults,   \* bound: statements that fail
  MaxCrashes   \* bound: hubs that die

ASSUME RouterAssumption ==
  /\ NoEvent \notin Events /\ NoAgent \notin Agents
  /\ MaxFaults \in Nat /\ MaxCrashes \in Nat

VARIABLES
  event,     \* events: "absent", or routed_at IS [NOT] NULL
  inv,       \* inv[e][a]: the invocations recorded for the pair, oldest first
  task,      \* task[e][a]: which of them the row names, 0 when there is no row
  reported,  \* reported[e][a]: the runner has reported the task's success
  router,    \* what each router is doing
  faults, crashes

\* History, read by properties only.
VARIABLES
  passes,    \* passes[e]: how often e was taken up, 2 standing for more than once
  failed,    \* failed[e]: how many statements failed while e was handled
  wanted,    \* wanted[e]: the agents matched or reached by the pass that ended
  deaf       \* deaf[e]: agents whose row was inserted and whose NOTIFY failed

history == <<passes, failed, wanted, deaf>>
vars == <<event, inv, task, reported, router, faults, crashes, history>>

\* "missing": Record's INSERT failed, its id is used all the same.
Status == {"missing", "running", "success", "failure"}

Resting == [pc |-> "idle", via |-> "triggers", batch |-> {}, event |-> NoEvent,
            todo |-> {}, agent |-> NoAgent, id |-> 0, delivered |-> {},
            matched |-> {}]

RouterState ==
  [pc: {"idle", "next", "match", "insert", "notify", "failed"},
   via: {"triggers", "bridges"}, batch: SUBSET Events, event: Events \union {NoEvent},
   todo: SUBSET Agents, agent: Agents \union {NoAgent}, id: Nat,
   delivered: SUBSET Agents, matched: SUBSET Agents]

TypeOK ==
  /\ event \in [Events -> {"absent", "unrouted", "routed"}]
  /\ \A e \in Events, a \in Agents :
       /\ inv[e][a] \in Seq(Status)
       /\ task[e][a] \in 0..Len(inv[e][a])
       /\ reported[e][a] => task[e][a] # 0
  /\ router \in [Routers -> RouterState]
  /\ \A r \in Routers : LET me == router[r] IN
       me.pc \in {"insert", "notify", "failed"} =>
         me.id \in 1..Len(inv[me.event][me.agent])
  /\ faults \in 0..MaxFaults /\ crashes \in 0..MaxCrashes

PerEvent(v) == [e \in Events |-> v]

Init ==
  /\ event = PerEvent("absent")
  /\ inv = PerEvent([a \in Agents |-> <<>>])
  /\ task = PerEvent([a \in Agents |-> 0])
  /\ reported = PerEvent([a \in Agents |-> FALSE])
  /\ router = [r \in Routers |-> Resting]
  /\ faults = 0 /\ crashes = 0
  /\ passes = PerEvent(0) /\ failed = PerEvent(0)
  /\ wanted = PerEvent({}) /\ deaf = PerEvent({})

-------------------------------------------------------------------------------
Fault(e) ==
  /\ faults < MaxFaults
  /\ faults' = faults + 1
  /\ failed' = [failed EXCEPT ![e] = @ + 1]

NoFault == UNCHANGED <<faults, failed>>

\* The ingest endpoint, cron or chat inserts an event to be routed; a repeated
\* id hits ON CONFLICT DO NOTHING.
InsertEvent(e) ==
  /\ event[e] = "absent"
  /\ event' = [event EXCEPT ![e] = "unrouted"]
  /\ UNCHANGED <<inv, task, reported, router, faults, crashes, history>>

FetchUnrouted(r) ==
  LET unrouted == {e \in Events : event[e] = "unrouted"} IN
  /\ router[r].pc = "idle"
  /\ unrouted # {}
  /\ router' = [router EXCEPT ![r] = [Resting EXCEPT !.pc = "next", !.batch = unrouted]]
  /\ UNCHANGED <<event, inv, task, reported, faults, crashes, history>>

\* handleEvent: the triggers that match, one per agent.
TakeEvent(r, e, matches) ==
  /\ router[r].pc = "next" /\ e \in router[r].batch
  /\ router' = [router EXCEPT ![r] =
       [Resting EXCEPT !.pc = "match", !.batch = router[r].batch \ {e}, !.event = e,
                       !.todo = matches, !.matched = matches]]
  /\ passes' = [passes EXCEPT ![e] = IF @ = 0 THEN 1 ELSE 2]
  /\ UNCHANGED <<event, inv, task, reported, faults, crashes, failed, wanted, deaf>>

\* Mutant: the task is enqueued before its invocation is recorded.
RecordLater(r, a) ==
  LET me == router[r] e == me.event IN
  /\ me.pc = "match" /\ a \in me.todo
  /\ NoFault
  /\ router' = [router EXCEPT ![r].pc = "insert", ![r].agent = a,
                              ![r].todo = @ \ {a}, ![r].id = Len(inv[e][a]) + 1]
  /\ UNCHANGED <<event, inv, task, reported, crashes, passes, wanted, deaf>>

\* The invocation is recorded before the task is inserted.
Record(r, a) ==
  LET me == router[r] e == me.event IN
  /\ me.pc = "match" /\ a \in me.todo
  /\ \/ NoFault  /\ inv' = [inv EXCEPT ![e][a] = Append(@, "running")]
     \/ Fault(e) /\ inv' = [inv EXCEPT ![e][a] = Append(@, "missing")]
  /\ router' = [router EXCEPT ![r].pc = "insert", ![r].agent = a,
                              ![r].todo = @ \ {a}, ![r].id = Len(inv[e][a]) + 1]
  /\ UNCHANGED <<event, task, reported, crashes, passes, wanted, deaf>>

InsertTask(e, a, id) ==
  task' = [task EXCEPT ![e][a] = IF @ = 0 THEN id ELSE @]

EnqueueTask(r) ==
  LET me == router[r] e == me.event a == me.agent IN
  /\ me.pc = "insert"
  /\ \/ NoFault  /\ InsertTask(e, a, me.id) /\ router' = [router EXCEPT ![r].pc = "notify"]
     \/ Fault(e) /\ UNCHANGED task          /\ router' = [router EXCEPT ![r].pc = "failed"]
  /\ UNCHANGED <<event, inv, reported, crashes, passes, wanted, deaf>>

\* EnqueueTask's NOTIFY; its error is EnqueueTask's error, the row stays.
Notify(r) ==
  LET me == router[r] e == me.event a == me.agent IN
  /\ me.pc = "notify"
  /\ \/ /\ NoFault
        /\ router' = [router EXCEPT ![r].pc = "match", ![r].agent = NoAgent,
             ![r].delivered = IF me.via = "triggers" THEN @ \union {a} ELSE @]
        /\ UNCHANGED deaf
     \/ /\ Fault(e)
        /\ router' = [router EXCEPT ![r].pc = "failed"]
        /\ deaf' = [deaf EXCEPT ![e] = @ \union {a}]
  /\ UNCHANGED <<event, inv, task, reported, crashes, passes, wanted>>

\* Mutants: every invocation of the pair is completed; none is.
CompleteAllOfPair(e, a, id) ==
  inv' = [inv EXCEPT ![e][a] = [k \in DOMAIN @ |->
            IF @[k] = "missing" THEN "missing" ELSE "failure"]]
CompleteNothing(e, a, id) == inv' = inv

Complete(e, a, id) ==
  inv' = [inv EXCEPT ![e][a][id] = IF @ = "missing" THEN @ ELSE "failure"]

\* A failed enqueue fails its invocation.
FailInvocation(r) ==
  LET me == router[r] e == me.event a == me.agent IN
  /\ me.pc = "failed"
  /\ \/ NoFault  /\ Complete(e, a, me.id)
     \/ Fault(e) /\ UNCHANGED inv
  /\ router' = [router EXCEPT ![r].pc = "match", ![r].agent = NoAgent]
  /\ UNCHANGED <<event, task, reported, crashes, passes, wanted, deaf>>

\* Mutant: the bridges also fill the inboxes the triggers have filled.
ReachedAll(r, reached) == reached

Undelivered(r, reached) == reached \ router[r].delivered

\* The triggers are done: walk the channel graph from the birth channel.
WalkBridges(r, reached) ==
  LET me == router[r] e == me.event IN
  /\ me.pc = "match" /\ me.todo = {} /\ me.via = "triggers"
  /\ \/ /\ NoFault
        /\ router' = [router EXCEPT ![r].via = "bridges",
                        ![r].todo = Undelivered(r, reached),
                        ![r].matched = @ \union Undelivered(r, reached)]
     \/ /\ Fault(e)
        /\ router' = [router EXCEPT ![r].via = "bridges"]
  /\ UNCHANGED <<event, inv, task, reported, crashes, passes, wanted, deaf>>

\* Mutant: the early return for an event nobody wants forgets MarkRouted.
MarkRoutedIfMatched(r) ==
  LET me == router[r] e == me.event IN
  /\ me.pc = "match" /\ me.todo = {} /\ me.via = "bridges"
  /\ NoFault
  /\ event' = IF me.matched = {} THEN event ELSE [event EXCEPT ![e] = "routed"]
  /\ wanted' = [wanted EXCEPT ![e] = me.matched]
  /\ router' = [router EXCEPT ![r] =
       IF me.batch = {} THEN Resting ELSE [Resting EXCEPT !.pc = "next", !.batch = me.batch]]
  /\ UNCHANGED <<inv, task, reported, crashes, passes, deaf>>

\* The event is marked whatever failed; an error of MarkRouted is ignored.
MarkRouted(r) ==
  LET me == router[r] e == me.event IN
  /\ me.pc = "match" /\ me.todo = {} /\ me.via = "bridges"
  /\ \/ NoFault  /\ event' = [event EXCEPT ![e] = "routed"]
                 /\ wanted' = [wanted EXCEPT ![e] = me.matched]
     \/ Fault(e) /\ UNCHANGED <<event, wanted>>
  /\ router' = [router EXCEPT ![r] =
       IF me.batch = {} THEN Resting ELSE [Resting EXCEPT !.pc = "next", !.batch = me.batch]]
  /\ UNCHANGED <<inv, task, reported, crashes, passes, deaf>>

\* The hub dies; the one that takes its place polls from the start.
Crash(r) ==
  /\ crashes < MaxCrashes
  /\ router[r].pc # "idle"
  /\ crashes' = crashes + 1
  /\ router' = [router EXCEPT ![r] = Resting]
  /\ UNCHANGED <<event, inv, task, reported, faults, history>>

\* A runner has claimed the row, done its turn and acked it (see TaskQueue).
RunnerReports(e, a) ==
  LET id == task[e][a] IN
  /\ id # 0 /\ ~reported[e][a]
  /\ reported' = [reported EXCEPT ![e][a] = TRUE]
  /\ inv' = [inv EXCEPT ![e][a][id] = IF @ = "missing" THEN @ ELSE "success"]
  /\ UNCHANGED <<event, task, router, faults, crashes, history>>

Route(r) ==
  \/ FetchUnrouted(r)
  \/ \E e \in Events, matches \in SUBSET Agents : TakeEvent(r, e, matches)
  \/ \E a \in Agents : Record(r, a)
  \/ EnqueueTask(r)
  \/ Notify(r)
  \/ FailInvocation(r)
  \/ \E reached \in SUBSET Agents : WalkBridges(r, reached)
  \/ MarkRouted(r)

Next ==
  \/ \E e \in Events : InsertEvent(e)
  \/ \E r \in Routers : Route(r)
  \/ \E r \in Routers : Crash(r)
  \/ \E e \in Events, a \in Agents : RunnerReports(e, a)

Spec == Init /\ [][Next]_vars

(* Fairness: the poll ticker and the statements behind it go on; nothing       *)
(* obliges an event to arrive, a hub to die or a runner to report.             *)
FairSpec == Spec /\ \A r \in Routers : WF_vars(Route(r))

-------------------------------------------------------------------------------
(* When an event is marked routed, nobody it was for has been forgotten: each  *)
(* has a row, or, if one statement failed on the way, an invocation that says  *)
(* so.  (handleEvent: "Failed tasks are already recorded on their invocations" *)
(* — that takes a second statement, and two failures are silent.)              *)
NobodyForgotten ==
  \A e \in Events : event[e] = "routed" /\ failed[e] <= 1 =>
    \A a \in wanted[e] : task[e][a] # 0 \/ Contains(inv[e][a], "failure")

(* An event taken up once, with no statement failing, leaves one invocation    *)
(* per agent and a row that names it, whichever of a trigger and a bridge path *)
(* led to the inbox: an invocation that no row names, and that stays running   *)
(* for ever, takes a crash, a second router or a failed statement.             *)
NoStrayInvocation ==
  \A e \in Events, a \in Agents :
    event[e] = "routed" /\ passes[e] = 1 /\ failed[e] = 0 =>
      Len(inv[e][a]) <= 1 /\ task[e][a] = Len(inv[e][a])

(* A success that the runner has reported stays: a later pass over the event,  *)
(* its failures included, touches only the invocation of its own making.  The  *)
(* one exception is an insert whose NOTIFY failed, which the router takes for  *)
(* a failed insert and overwrites the outcome of the run.                      *)
SuccessStands ==
  \A e \in Events, a \in Agents :
    reported[e][a] /\ a \notin deaf[e] => inv[e][a][task[e][a]] # "failure"

(* Both, whatever passes an event went through.                                *)
PassesSound == TypeOK /\ SuccessStands /\ NobodyForgotten

(* Every event is routed, whatever fails in between and however often the hub  *)
(* dies, and is never taken up again afterwards.                               *)
EventuallyRouted ==
  \A e \in Events : event[e] = "unrouted" ~> [](event[e] = "routed")
===============================================================================
