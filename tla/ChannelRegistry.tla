---------------------------- MODULE ChannelRegistry ----------------------------
(***************************************************************************)
(* The registry of provisioned channels: one per connector and per agent,  *)
(* the events born in them and the traffic read back from them.  services/ *)
(* hub/internal/channels/reconcile.go and service.go, the ingest handler   *)
(* and the channel views of eventqueue/store.go.                           *)
(*                                                                         *)
(* A stream is named by the resource it follows: a connector or an agent.  *)
(* A pass of Sync is one step per list, per upsert and per statement;      *)
(* publishers, users of the API server and the router step in between.  A  *)
(* failing step ends the pass and the next tick starts over.  Of a row     *)
(* only "it exists" and orphaned are kept: its name and description follow *)
(* the resource and nothing reads them back.  Time is kept by what is told *)
(* apart: the events received, and the tasks made, since the window of the *)
(* figures began.                                                          *)
(***************************************************************************)
EXTENDS Naturals, FiniteSets, FiniteSetsExt, Functions

CONSTANTS
  Labels, Inboxes,     \* connector names and agent names
  Events, StreamOf,    \* StreamOf[e]: the connector e came from, or the agent it was addressed to
  Bundle,              \* the streams that reach a grouping channel
  MaxChurn,            \* bound: resources made or removed, posts, failing tasks, windows moved
  MaxRegistryFaults    \* bound: failing calls

Streams == Labels \cup Inboxes
Direct(e) == StreamOf[e] \in Inboxes   \* a cron tick or a chat message: DirectSourceLabels

ASSUME RegistryAssumption ==
  /\ Labels \cap Inboxes = {} /\ StreamOf \in [Events -> Streams] /\ Bundle \subseteq Streams
  /\ {MaxChurn, MaxRegistryFaults} \subseteq Nat
  /\ IsFiniteSet(Events) /\ IsFiniteSet(Bundle)

VARIABLES
  alive,      \* the resources the API server has
  row,        \* row[s]: "none", "listed" or "orphaned"
  stored,     \* rows of events
  birth,      \* birth[e]: events.channel_id, as a set of at most one stream
  post,       \* post[e]: what e's publisher is doing
  task,       \* task[e][a]: "none", "open" or "failed"
  sync,       \* the pass in flight
  recent,     \* events received in the window
  recentTask, \* tasks made in the window
  churn, registryFaults

registryVars == <<alive, row, stored, birth, post, task, sync, recent, recentTask, churn, registryFaults>>
traffic == <<stored, birth, post, task, recent, recentTask>>

NoSync == [pc |-> "agents", inboxes |-> {}, labels |-> {}, todo |-> {}]

RegistryInit ==
  /\ alive \in SUBSET Streams
  /\ row = [s \in Streams |-> "none"]
  /\ stored \in SUBSET Events
  /\ birth = [e \in Events |-> {}]
  /\ post = [e \in Events |-> IF e \in stored THEN "done" ELSE "new"]
  /\ task \in [Events -> [Inboxes -> {"none", "open"}]]
  /\ \A e \in Events, a \in Inboxes :
       task[e][a] = "open" => e \in stored /\ (Direct(e) => a = StreamOf[e])
  /\ sync = NoSync
  /\ recent = {} /\ recentTask = {}
  /\ churn = 0 /\ registryFaults = 0

Spend == churn < MaxChurn /\ churn' = churn + 1
RegistryFault == registryFaults < MaxRegistryFaults /\ registryFaults' = registryFaults + 1

-------------------------------------------------------------------------------
(***************************************************************************)
(* The API server, and the publishers of events.                           *)
(***************************************************************************)
AddResource(s) ==
  /\ s \notin alive /\ Spend
  /\ alive' = alive \cup {s}
  /\ UNCHANGED <<row, traffic, sync, registryFaults>>

RemoveResource(s) ==
  /\ s \in alive /\ Spend
  /\ alive' = alive \ {s}
  /\ UNCHANGED <<row, traffic, sync, registryFaults>>

\* Mutant: an upsert leaves the flag of a row that exists.
EnsureKeeping(s) == [row EXCEPT ![s] = IF @ = "none" THEN "listed" ELSE @]

\* The upsert: a row that exists is not an orphan any longer.
Ensure(s) == [row EXCEPT ![s] = "listed"]

\* ConnectorChannelFor and InboxChannelFor: without a channel the event goes on unstamped.
ResolveBirth(e) ==
  /\ post[e] = "new" /\ Spend
  /\ \/ row' = Ensure(StreamOf[e]) /\ post' = [post EXCEPT ![e] = "born"] /\ UNCHANGED registryFaults
     \/ RegistryFault /\ post' = [post EXCEPT ![e] = "unborn"] /\ UNCHANGED row
  /\ UNCHANGED <<alive, stored, birth, task, sync, recent, recentTask>>

\* The row of an event posted before stands.
InsertEvent(e) ==
  /\ post[e] \in {"born", "unborn"}
  /\ post' = [post EXCEPT ![e] = "done"]
  /\ IF e \in stored
     THEN UNCHANGED <<stored, birth, recent>>
     ELSE /\ stored' = stored \cup {e} /\ recent' = recent \cup {e}
          /\ birth' = [birth EXCEPT ![e] = IF post[e] = "born" THEN {StreamOf[e]} ELSE {}]
  /\ UNCHANGED <<alive, row, task, sync, recentTask, churn, registryFaults>>

\* The webhook receiver posts again when the first answer did not reach it.
PostAgain(e) ==
  /\ post[e] \in {"born", "unborn", "done"} /\ ~Direct(e) /\ RegistryFault
  /\ post' = [post EXCEPT ![e] = "new"]
  /\ UNCHANGED <<alive, row, stored, birth, task, sync, recent, recentTask, churn>>

\* A task is made: by the router, or for a direct event by its publisher; once its
\* own inbox has it and its channel is known, the bridges carry it on to others.
Carried(e) == birth[e] # {} /\ task[e][StreamOf[e]] # "none"
MakeTask(e, a) ==
  /\ e \in stored /\ task[e][a] = "none" /\ (Direct(e) /\ a # StreamOf[e] => Carried(e))
  /\ Spend
  /\ task' = [task EXCEPT ![e][a] = "open"]
  /\ recentTask' = recentTask \cup {<<e, a>>}
  /\ UNCHANGED <<alive, row, stored, birth, post, sync, recent, registryFaults>>

FailTask(e, a) ==
  /\ task[e][a] = "open" /\ Spend
  /\ task' = [task EXCEPT ![e][a] = "failed"]
  /\ UNCHANGED <<alive, row, stored, birth, post, sync, recent, recentTask, registryFaults>>

\* Time passes: what there is gets older than the window.
WindowMoves ==
  /\ recent \cup recentTask # {} /\ Spend
  /\ recent' = {} /\ recentTask' = {}
  /\ UNCHANGED <<alive, row, stored, birth, post, task, sync, registryFaults>>

-------------------------------------------------------------------------------
(***************************************************************************)
(* A pass: Reconciler.Sync.                                                *)
(***************************************************************************)
SyncAt(pc) == sync' = [sync EXCEPT !.pc = pc]
Unheard == <<alive, traffic, churn, registryFaults>>

ListAgents ==
  /\ sync.pc = "agents"
  /\ sync' = [sync EXCEPT !.pc = "connectors", !.inboxes = alive \cap Inboxes]
  /\ UNCHANGED <<row, Unheard>>

ListConnectors ==
  /\ sync.pc = "connectors"
  /\ sync' = [sync EXCEPT !.pc = "provision", !.labels = alive \cap Labels,
                          !.todo = sync.inboxes \cup (alive \cap Labels)]
  /\ UNCHANGED <<row, Unheard>>

\* One upsert of one of the three loops.
Provision(s) ==
  /\ s \in sync.todo
  /\ row' = Ensure(s)
  /\ sync' = [sync EXCEPT !.todo = @ \ {s}]
  /\ UNCHANGED Unheard

Unstamped == {e \in stored : birth[e] = {}}

UnstampedLabels == {StreamOf[e] : e \in {e \in Unstamped : ~Direct(e)}}

ReadLabels ==
  /\ sync.pc = "provision" /\ sync.todo = {}
  /\ sync' = [sync EXCEPT !.pc = "history", !.todo = UnstampedLabels]
  /\ UNCHANGED <<row, Unheard>>

UnstampedInboxes == {a \in Inboxes : \E e \in Unstamped : Direct(e) /\ task[e][a] # "none"}

ReadInboxes ==
  /\ sync.pc = "history" /\ sync.todo = {}
  /\ sync' = [sync EXCEPT !.pc = "inboxes", !.todo = UnstampedInboxes]
  /\ UNCHANGED <<row, Unheard>>

\* MarkOrphans: one UPDATE per kind, against the refs listed at the start.
Orphaned(kind, refs) ==
  [s \in Streams |-> IF s \in kind \ refs /\ row[s] = "listed" THEN "orphaned" ELSE row[s]]

MarkConnectors ==
  /\ sync.pc = "inboxes" /\ sync.todo = {}
  /\ row' = Orphaned(Labels, sync.labels)
  /\ SyncAt("orphans")
  /\ UNCHANGED Unheard

MarkAgents ==
  /\ sync.pc = "orphans"
  /\ row' = Orphaned(Inboxes, sync.inboxes)
  /\ SyncAt("rows")
  /\ UNCHANGED Unheard

ListRows ==
  /\ sync.pc = "rows"
  /\ sync' = [sync EXCEPT !.pc = "stamp", !.labels = {s \in Labels : row[s] # "none"},
                          !.inboxes = {s \in Inboxes : row[s] # "none"}]
  /\ UNCHANGED <<row, Unheard>>

\* Each event without a birth channel whose stream is in S gets it.
Stamped(S, pick) == [e \in Events |-> IF e \in Unstamped /\ pick[e] \cap S # {}
                                      THEN pick[e] \cap S ELSE birth[e]]

\* Mutant: any delivery of an unstamped event names its inbox.
ByAnyTask == [e \in Events |-> {a \in Inboxes : task[e][a] # "none"}]

\* An event carries the label of its connector; a direct one is known by its delivery.
ByLabel == [e \in Events |-> {StreamOf[e]} \cap Labels]
ByTask  == [e \in Events |-> {a \in Inboxes : Direct(e) /\ task[e][a] # "none"}]

StampConnectors ==
  /\ sync.pc = "stamp"
  /\ birth' = Stamped(sync.labels, ByLabel)
  /\ SyncAt("stamp inboxes")
  /\ UNCHANGED <<alive, row, stored, post, task, recent, recentTask, churn, registryFaults>>

StampInboxes ==
  /\ sync.pc = "stamp inboxes"
  /\ birth' = Stamped(sync.inboxes, ByTask)
  /\ sync' = NoSync
  /\ UNCHANGED <<alive, row, stored, post, task, recent, recentTask, churn, registryFaults>>

\* syncChannels logs the error; the ticker starts over.
SyncFails ==
  /\ RegistryFault
  /\ sync' = NoSync
  /\ UNCHANGED <<alive, row, traffic, churn>>

SyncStep ==
  \/ ListAgents \/ ListConnectors \/ ReadLabels \/ ReadInboxes
  \/ MarkConnectors \/ MarkAgents \/ ListRows \/ StampConnectors \/ StampInboxes
  \/ \E s \in Streams : Provision(s)

RegistryNext ==
  \/ \E s \in Streams : AddResource(s) \/ RemoveResource(s)
  \/ \E e \in Events : ResolveBirth(e) \/ InsertEvent(e) \/ PostAgain(e)
  \/ \E e \in Events, a \in Inboxes : MakeTask(e, a) \/ FailTask(e, a)
  \/ WindowMoves \/ SyncStep \/ SyncFails

\* runChannelSyncLoop ticks for as long as the hub runs.
RegistrySpec == RegistryInit /\ [][RegistryNext]_registryVars /\ WF_registryVars(SyncStep)

-------------------------------------------------------------------------------
(***************************************************************************)
(* The figures of a channel and its timeline: countsFor, Events.           *)
(***************************************************************************)
Delivered(e, a) == task[e][a] # "none"
Has(e, status)  == \E a \in Inboxes : task[e][a] = status

\* BirthStats: births in the window, those nobody got, those that failed.
Births(s)    == {e \in stored \cap recent : birth[e] = {s}}
Unmatched(s) == {e \in Births(s) : \A a \in Inboxes : ~Delivered(e, a)}
Failed(s)    == {e \in Births(s) : Has(e, "failed")}

\* DeliveryStats: the tasks made in the window, by their events.
Deliveries(a) == {e \in stored : <<e, a>> \in recentTask}

\* Mutant: an inbox is counted by the events that were born in it.
EventsCountBorn(s) == Cardinality(Births(s))

EventsCount(s) == Cardinality(IF s \in Inboxes THEN Deliveries(s) ELSE Births(s))

\* A grouping channel sums what was born in the streams that reach it.
BundleCount == SumFunctionOnSet([s \in Bundle |-> Cardinality(Births(s))], Bundle)

\* timelineFilter and the conditions of EventFilter, with Since and Status.
Timeline(s) == {e \in stored \cap recent :
                  IF s \in Inboxes THEN Delivered(e, s) ELSE birth[e] = {s}}
BundleTimeline == {e \in stored \cap recent : birth[e] # {} /\ birth[e] \subseteq Bundle}
WithStatus(E, status) ==
  {e \in E : CASE status = "unmatched" -> \A a \in Inboxes : ~Delivered(e, a)
               [] status = "error"     -> Has(e, "failed")
               [] OTHER -> Has(e, "open") /\ ~Has(e, "failed")}

-------------------------------------------------------------------------------
(***************************************************************************)
(* Properties.                                                             *)
(***************************************************************************)

\* An event is never read back from a stream it did not come from: its birth channel is empty or its
\* own stream's, whose row exists, whoever stamped it - the ingest, the publisher, or a later pass
\* that goes by the label or by the delivery.
BirthIsOwn ==
  \A e \in Events : birth[e] # {} =>
    e \in stored /\ birth[e] = {StreamOf[e]} /\ row[StreamOf[e]] # "none"

\* The figures a channel is listed with and the timeline it is opened with agree, for a connector's
\* and a grouping channel exactly, with the split into unmatched and failed.  An inbox's do not, though
\* service.go:264-265 and handlers_channels.go:163-165 say that numbers and events cannot disagree: its
\* figure goes by when the task was made, its timeline by when the event was received.  They differ by
\* exactly the events received before the window and delivered within it, and by no other.
CountsMatchTimeline ==
  /\ \A s \in Labels :
       /\ EventsCount(s) = Cardinality(Timeline(s))
       /\ Unmatched(s) = WithStatus(Timeline(s), "unmatched")
       /\ Failed(s) = WithStatus(Timeline(s), "error")
  /\ BundleCount = Cardinality(BundleTimeline)
  /\ \A s \in Inboxes :
       EventsCount(s) = Cardinality(Timeline(s))
                        + Cardinality({e \in stored \ recent : <<e, s>> \in recentTask})

\* Once nothing changes any more, the registry follows the resources and history has its streams: a
\* live resource has a channel that is not flagged, a channel without its resource is flagged, and
\* every event whose stream can be told has it - whatever was made, removed or posted between a
\* pass's lists and the flags it sets by them, and whichever passes failed.
Followed ==
  /\ \A s \in Streams : IF s \in alive THEN row[s] = "listed" ELSE row[s] # "listed"
  /\ \A e \in stored : (Direct(e) => Delivered(e, StreamOf[e])) => birth[e] = {StreamOf[e]}
RegistryFollows == <>[]Followed

RegistryTypeOK ==
  /\ alive \subseteq Streams /\ stored \subseteq Events /\ recent \subseteq stored
  /\ row \in [Streams -> {"none", "listed", "orphaned"}]
  /\ birth \in [Events -> SUBSET Streams]
  /\ post \in [Events -> {"new", "born", "unborn", "done"}]
  /\ task \in [Events -> [Inboxes -> {"none", "open", "failed"}]]
  /\ recentTask \subseteq stored \X Inboxes
===============================================================================
