------------------------------ MODULE QueueScaling ------------------------------
(***************************************************************************)
(* Scaling one agent with its queue: the hub's publisher (services/hub/    *)
(* internal/queuesignal/queuesignal.go) measures the queue and writes it   *)
(* to the Agent's status, the agent operator (operators/agent/internal/    *)
(* controller/scaling.go) decides a replica count from its cached copy of  *)
(* it, the Deployment starts and stops pods.  Every link works on what the *)
(* one before it said some time ago.                                       *)
(*                                                                         *)
(* The Agent exists and has opted in (minReplicas set, replicas not zero). *)
(* Time passes in minutes: the sweep comes once a minute while the hub is  *)
(* up; a publish round, and the watch that brings its patch to the         *)
(* operator, end within the minute.  A reconcile may take any time.  Ages  *)
(* stop counting one past the largest value anything compares them with.   *)
(***************************************************************************)
EXTENDS Integers, FiniteSets

CONSTANTS
  Pods,          \* the pods a Deployment may have
  MinReplicas,   \* spec.scaling.minReplicas
  MaxReplicas,   \* spec.scaling.replicas
  TTL, Window,   \* queueSignalTTL and scaleDownWindow, in minutes
  MaxTasks,      \* bound: rows pending or claimed at a time
  MaxFaults      \* bound: statements and patches that fail, hubs that die

ASSUME ScalingAssumption ==
  /\ MinReplicas \in Nat /\ MaxReplicas \in Nat \ {0} /\ MinReplicas <= MaxReplicas
  /\ TTL \in Nat /\ Window \in Nat /\ MaxTasks \in Nat /\ MaxFaults \in Nat
  /\ IsFiniteSet(Pods)

VARIABLES
  pending,    \* agent_tasks rows that wait
  active,     \* agent_tasks rows that are claimed
  pod,        \* pod[p]: "gone", "idle" or "busy" with a claimed row
  untold,     \* a change of the queue has committed, its observe has not run
  dirty,      \* the publisher's mark for the agent
  last,       \* the signal it wrote last, if it knows one
  pub,        \* where its loop stands
  swept,      \* this minute's sweep has come
  up,         \* the hub runs
  status,     \* the four queue fields of the Agent's status
  cached,     \* the operator's copy of them
  desired,    \* the Deployment's spec.replicas
  faults

\* History, read by properties only.
VARIABLES
  missed,     \* a change was never observed, and no sweep has come since
  doubtful,     \* a patch may have been applied unanswered, and none was answered since
  fullFor     \* minutes since the queue was last empty

queue    == <<pending, active, pod>>
loop     == <<dirty, last, pub>>
hub      == <<loop, swept, up>>
operator == <<cached, desired>>
history  == <<missed, doubtful, fullFor>>
vars == <<queue, untold, hub, status, operator, faults, history>>

With(state) == {p \in Pods : pod[p] = state}
Alive == With("idle") \union With("busy")
\* Claimed rows whose pod is gone: the reaper's.
Orphans == active - Cardinality(With("busy"))

\* Mutant: only the rows in flight are work.
WorkInFlight(counts) == counts.active
Work(counts)  == counts.pending + counts.active
Empty(counts) == counts.pending = 0 /\ counts.active = 0
SameCounts(a, b) == a.pending = b.pending /\ a.active = b.active
Depth  == [pending |-> pending, active |-> active]

Published == [known : BOOLEAN, pending : 0..MaxTasks, active : 0..MaxTasks]
Signal == [pending : 0..MaxTasks, active : 0..MaxTasks, age : 0..(TTL + 1), quiet : 0..Window]
PublisherState ==
  [pc : {"idle", "count", "patch"}, force : BOOLEAN,
   pending : 0..MaxTasks, active : 0..MaxTasks, stamp : BOOLEAN]

Unknown == [known |-> FALSE, pending |-> 0, active |-> 0]
Asleep  == [pc |-> "idle", force |-> FALSE, pending |-> 0, active |-> 0, stamp |-> FALSE]
\* Never measured and never given work.  Quiet for the whole window and never
\* given work lead to the same count (quietFor), so one value stands for both.
Unmeasured == [pending |-> 0, active |-> 0, age |-> TTL + 1, quiet |-> Window]

UpTo(age, bound) == IF age >= bound THEN bound ELSE age + 1

Init ==
  /\ pending = 0 /\ active = 0
  /\ pod = [p \in Pods |-> "gone"]
  /\ untold = FALSE
  /\ dirty = FALSE /\ last = Unknown
  /\ pub = Asleep /\ swept = FALSE /\ up = TRUE
  /\ status = Unmeasured /\ cached = Unmeasured
  /\ desired = 0
  /\ faults = 0
  /\ missed = FALSE /\ doubtful = FALSE /\ fullFor = 0

CanFail == faults < MaxFaults /\ faults' = faults + 1

(***************************************************************************)
(* The queue.  Rows change through the hub only; each change commits first *)
(* and is observed afterwards.  How one row moves is TaskQueue.            *)
(***************************************************************************)
Changed == /\ untold' = TRUE
           /\ fullFor' = IF pending' + active' = 0 THEN 0 ELSE fullFor
           /\ UNCHANGED <<hub, status, operator, missed, doubtful>>

Enqueue ==
  /\ up /\ pending + active < MaxTasks
  /\ pending' = pending + 1
  /\ UNCHANGED <<active, pod, faults>>
  /\ Changed

Claim(p) ==
  /\ up /\ pod[p] = "idle" /\ pending > 0
  /\ pending' = pending - 1 /\ active' = active + 1
  /\ pod' = [pod EXCEPT ![p] = "busy"]
  /\ UNCHANGED faults
  /\ Changed

\* An ack, or a nack that fails the row, ends it; another nack returns it.
Release(p, returned) ==
  /\ up /\ pod[p] = "busy"
  /\ active' = active - 1
  /\ pending' = IF returned THEN pending + 1 ELSE pending
  /\ pod' = [pod EXCEPT ![p] = "idle"]

Report(p) ==
  /\ \E returned \in BOOLEAN : Release(p, returned)
  /\ UNCHANGED faults
  /\ Changed

\* The nack has committed, observeAgentOfTask cannot find out whose row it was.
NackUnobserved(p) ==
  /\ \E returned \in BOOLEAN : Release(p, returned)
  /\ CanFail
  /\ missed' = TRUE
  /\ fullFor' = IF pending' + active' = 0 THEN 0 ELSE fullFor
  /\ UNCHANGED <<untold, hub, status, operator, doubtful>>

Reap ==
  /\ up /\ Orphans > 0
  /\ active' = active - 1
  /\ pending' \in {pending, pending + 1}
  /\ UNCHANGED <<pod, faults>>
  /\ Changed

Observe ==
  /\ up /\ untold
  /\ untold' = FALSE /\ dirty' = TRUE
  /\ UNCHANGED <<queue, last, pub, swept, up, status, operator, faults, history>>

(***************************************************************************)
(* The publisher: one goroutine, one agent.                                *)
(***************************************************************************)
StartRound(marked, force) ==
  /\ pub' = IF marked THEN [Asleep EXCEPT !.pc = "count", !.force = force] ELSE Asleep
  /\ dirty' = FALSE

\* Mutant: the sweep marks the agents with rows.
MarkedIfBusy(listed) == ~ Empty(Depth)

\* markAll and the forced round: it finds the agent in AllQueueCounts if its
\* queue is not empty, in what it has published, and in the Agent list, which
\* may fail alone.
Marked(listed) == ~ Empty(Depth) \/ last.known \/ listed

Sweep ==
  /\ up /\ pub.pc = "idle" /\ ~ swept
  /\ swept' = TRUE
  /\ \/ /\ StartRound(dirty \/ Marked(TRUE), TRUE)
        /\ missed' = FALSE
        /\ UNCHANGED faults
     \/ /\ StartRound(dirty \/ Marked(FALSE), TRUE)
        /\ missed' = (missed /\ ~ Marked(FALSE))
        /\ CanFail
     \/ /\ StartRound(dirty, TRUE)
        /\ CanFail
        /\ UNCHANGED missed
  /\ UNCHANGED <<queue, untold, last, up, status, operator, doubtful, fullFor>>

\* The ticker's round.
Round ==
  /\ up /\ pub.pc = "idle" /\ dirty
  /\ StartRound(TRUE, FALSE)
  /\ UNCHANGED <<queue, untold, last, swept, up, status, operator, faults, history>>

Stamps == pending > 0 /\ (~ last.known \/ pending > last.pending)
Edge   == ~ last.known \/ Empty(last) # Empty(Depth) \/ last.active # active

\* Mutant: what is debounced is not marked again.
CountForgetting ==
  /\ up /\ pub.pc = "count"
  /\ \/ /\ ~ pub.force /\ ~ Edge
        /\ pub' = Asleep
        /\ UNCHANGED <<dirty, faults>>
     \/ /\ Edge \/ pub.force \/ ~ SameCounts(last, Depth)
        /\ pub' = [pc |-> "patch", force |-> FALSE, pending |-> pending,
                   active |-> active, stamp |-> Stamps]
        /\ UNCHANGED <<dirty, faults>>
     \/ /\ CanFail
        /\ pub' = Asleep /\ dirty' = TRUE
  /\ UNCHANGED <<queue, untold, last, swept, up, status, operator, history>>

\* publishOne up to its unlock.  Whether nextPub has passed is left open: what is
\* debounced waits for a later round.
Count ==
  /\ up /\ pub.pc = "count"
  /\ \/ /\ SameCounts(last, Depth) /\ ~ pub.force /\ ~ Edge
        /\ pub' = Asleep
        /\ UNCHANGED <<dirty, faults>>
     \/ /\ ~ SameCounts(last, Depth) /\ ~ pub.force /\ ~ Edge
        /\ pub' = Asleep /\ dirty' = TRUE
        /\ UNCHANGED faults
     \/ /\ Edge \/ pub.force \/ ~ SameCounts(last, Depth)
        /\ pub' = [pc |-> "patch", force |-> FALSE, pending |-> pending,
                   active |-> active, stamp |-> Stamps]
        /\ UNCHANGED <<dirty, faults>>
     \/ /\ CanFail
        /\ pub' = Asleep /\ dirty' = TRUE
  /\ UNCHANGED <<queue, untold, last, swept, up, status, operator, history>>

\* K8sPatcher.Patch: the idle clock is in the patch only when it is stamped.
Written == [pending |-> pub.pending, active |-> pub.active, age |-> 0,
            quiet |-> IF pub.stamp THEN 0 ELSE status.quiet]

\* Mutant: the mark is cleared when the write is done.
PatchClearing ==
  /\ up /\ pub.pc = "patch"
  /\ pub' = Asleep /\ dirty' = FALSE
  /\ status' = Written
  /\ last' = [known |-> TRUE, pending |-> pub.pending, active |-> pub.active]
  /\ doubtful' = FALSE
  /\ UNCHANGED <<queue, untold, swept, up, operator, faults, missed, fullFor>>

Patch ==
  /\ up /\ pub.pc = "patch"
  /\ pub' = Asleep
  /\ status' = Written
  /\ last' = [known |-> TRUE, pending |-> pub.pending, active |-> pub.active]
  /\ doubtful' = FALSE
  /\ UNCHANGED <<queue, untold, dirty, swept, up, operator, faults, missed, fullFor>>

\* The patch fails, or it was applied and its answer is lost.
PatchFails ==
  /\ up /\ pub.pc = "patch"
  /\ CanFail
  /\ pub' = Asleep /\ dirty' = TRUE
  /\ \/ UNCHANGED <<status, doubtful>>
     \/ status' = Written /\ doubtful' = TRUE
  /\ UNCHANGED <<queue, untold, last, swept, up, operator, missed, fullFor>>

\* What the publisher knows and what it was not told yet die with the hub.
HubDies ==
  /\ up /\ CanFail
  /\ up' = FALSE
  /\ untold' = FALSE /\ dirty' = FALSE /\ last' = Unknown
  /\ pub' = Asleep
  /\ missed' = FALSE
  /\ UNCHANGED <<queue, swept, status, operator, doubtful, fullFor>>

\* Run begins with a sweep.
HubStarts ==
  /\ ~ up
  /\ up' = TRUE /\ swept' = FALSE
  /\ UNCHANGED <<queue, untold, loop, status, operator, faults, history>>

(***************************************************************************)
(* The operator and the Deployment.                                        *)
(***************************************************************************)
Least(a, b) == IF a < b THEN a ELSE b
\* Mutant: no ceiling.
ClampFloor(n) == IF n < MinReplicas THEN MinReplicas ELSE n

Clamp(n) == IF n < MinReplicas THEN MinReplicas ELSE Least(n, MaxReplicas)

\* Mutant: a measurement is believed whatever its age.
ResolveTrusting(signal, current) ==
  IF ~ Empty(signal) THEN Clamp(Work(signal))
  ELSE IF signal.quiet >= Window THEN MinReplicas
  ELSE Least(current, IF MinReplicas > 1 THEN MinReplicas ELSE 1)

\* resolveReplicas for an agent that has opted in.
Resolve(signal, current) ==
  IF signal.age > TTL THEN Clamp(current)
  ELSE IF ~ Empty(signal) THEN Clamp(Work(signal))
  ELSE IF signal.quiet >= Window THEN MinReplicas
  ELSE Least(current, IF MinReplicas > 1 THEN MinReplicas ELSE 1)

Watch ==
  /\ cached # status
  /\ cached' = status
  /\ UNCHANGED <<queue, untold, hub, status, desired, faults, history>>

Reconcile ==
  /\ desired' = Resolve(cached, desired)
  /\ UNCHANGED <<queue, untold, hub, status, cached, faults, history>>

StartPod(p) ==
  /\ pod[p] = "gone" /\ Cardinality(Alive) < desired
  /\ pod' = [pod EXCEPT ![p] = "idle"]
  /\ UNCHANGED <<pending, active, untold, hub, status, operator, faults, history>>

\* The Deployment does not know which of its pods hold a task.  The step is the
\* end of the grace period; a report in time comes before it.
StopPod(p) ==
  /\ pod[p] # "gone" /\ Cardinality(Alive) > desired
  /\ pod' = [pod EXCEPT ![p] = "gone"]
  /\ UNCHANGED <<pending, active, untold, hub, status, operator, faults, history>>

Aged(signal) == [signal EXCEPT !.age = UpTo(@, TTL + 1), !.quiet = UpTo(@, Window)]

Tick ==
  /\ (up => swept) /\ pub.pc = "idle" /\ cached = status
  /\ swept' = FALSE
  /\ status' = Aged(status) /\ cached' = Aged(cached)
  /\ fullFor' = IF Empty(Depth) THEN 0 ELSE UpTo(fullFor, TTL + 1)
  /\ UNCHANGED <<queue, untold, loop, up, desired, faults, missed, doubtful>>

OfPod(p) == Claim(p) \/ Report(p) \/ NackUnobserved(p) \/ StartPod(p) \/ StopPod(p)

Next ==
  \/ Enqueue \/ Reap \/ Observe
  \/ Sweep \/ Round \/ Count \/ Patch \/ PatchFails
  \/ HubDies \/ HubStarts
  \/ Watch \/ Reconcile \/ Tick
  \/ \E p \in Pods : OfPod(p)

Spec == Init /\ [][Next]_vars

\* The publisher's goroutine, the operator's watch and queue, the Deployment and
\* the clock go on; no work need ever be handed in, claimed or reported.  A round
\* that finds the agent debounced again and again keeps neither the sweep's ticker,
\* which the select of Run takes at random among the ready, nor the time from
\* coming: the two, which take turns, are fair strongly.
Publish == Round \/ Count \/ Patch
Minute  == Sweep \/ Tick
AnyPodStarts == \E p \in Pods : StartPod(p)

Fairness ==
  /\ WF_vars(Observe) /\ SF_vars(Minute) /\ WF_vars(Publish) /\ WF_vars(HubStarts)
  /\ WF_vars(Watch) /\ WF_vars(Reconcile) /\ WF_vars(AnyPodStarts)

FairSpec == Spec /\ Fairness

(***************************************************************************)
(* Properties.                                                             *)
(***************************************************************************)
\* Type correctness; the operator never asks for more pods than the ceiling.
TypeOK ==
  /\ pending \in 0..MaxTasks /\ active \in 0..MaxTasks
  /\ pod \in [Pods -> {"gone", "idle", "busy"}]
  /\ untold \in BOOLEAN /\ dirty \in BOOLEAN
  /\ last \in Published /\ pub \in PublisherState
  /\ swept \in BOOLEAN /\ up \in BOOLEAN
  /\ status \in Signal /\ cached \in Signal
  /\ desired \in 0..MaxReplicas
  /\ faults \in 0..MaxFaults
  /\ missed \in BOOLEAN /\ doubtful \in BOOLEAN /\ fullFor \in 0..(TTL + 1)

Covered == dirty \/ untold \/ missed
CaughtUp == up /\ last.known /\ pub.pc = "idle" /\ ~ Covered

\* A publisher with nothing left to do last wrote what the queue holds, whatever
\* changed while it measured, was debounced or failed to write (publishRound:
\* "still debounced; not forgotten"), and so the Agent's status says it, unless a
\* patch that was applied got no answer: the publisher then believes in counts it
\* has overwritten, and when the queue comes back to them sees nothing to write
\* until the next sweep.
NothingForgotten ==
  CaughtUp => /\ SameCounts(last, Depth)
              /\ SameCounts(status, Depth) \/ doubtful

\* An agent is scaled to zero only if its queue was empty at some moment of the
\* last TTL, however old the operator's copy and however long the hub is gone
\* (resolveReplicas: "Never scale to zero on an unproven claim of emptiness").
ParksOnlyEmpty == [][desired > 0 /\ desired' = 0 => fullFor <= TTL]_vars

\* A waiting task gets a pod, or is taken back from the queue, although the
\* observation may be lost and the hub may die in between.
WorkWakes == []<>(pending = 0 \/ Alive # {})

\* An agent that stays without work comes down to its floor: the sweep goes on
\* measuring it after its queue has drained and after the hub has restarted
\* (markAll: "the idle one, would never scale to zero").
IdleParks == <>[]Empty(Depth) => <>[](desired = MinReplicas)
===============================================================================
