# A formal model of ainsel

TLA+ modules, TLC configurations and TLAPS proofs for ainsel, the
Kubernetes-native agent orchestrator in this repository. The models are
translated from the source; `PROJECT.json` maps every definition to the lines
it stands for.

## 1. The system

An event enters through a connector, is stored by the hub, matched and
transferred to agents, and worked on by an agent's runner pod.

| Component | State it keeps | Operations | Talks to |
|---|---|---|---|
| webhook-receiver (`services/webhook-receiver`) | none | verify signature, publish one event with a fresh id | hub ingest endpoint (one POST, no retry) |
| event queue (`services/hub/internal/eventqueue`) | tables `events`, `agent_tasks` | insert event, fetch unrouted, mark routed, enqueue, claim, ack, nack, reap, notify, wait | Postgres; observer callback to the queue-signal publisher |
| router (`services/hub/internal/router`, `trigger`) | the trigger index (memory) | poll, match, deduplicate by agent, enqueue, transfer, mark routed | event queue, invocation store, channels |
| trigger sync (`cmd/hub/sync.go`, `internal/triggers`) | rows of `triggers`, `cron_triggers` | every 30 s: replace the index and the emitter's entries | trigger index, cron emitter |
| invocation store (`internal/invocations`) | table `invocations` | record, complete, prune | router, cron emitter, ack/nack handlers |
| channels (`internal/channels`) | tables `channels`, `channel_bridges` | ensure, create, update, delete, bridge, walk, transfer, reconcile | event queue, Agent and connector registries |
| cron emitter (`internal/cron`) | entries with `lastFired` (memory) | upsert, delete, tick, fire | event queue, invocation store, channels |
| chat (`internal/api/handlers_chat.go`, `internal/chat`) | sessions and messages | add message: store, emit event, enqueue | event queue, channels |
| queue signal (`internal/queuesignal`) | dirty set, last published state | observe, publish, sweep | event queue counts, Agent status |
| agent operator (`operators/agent`) | Agent status, Deployments | resolve replicas, reconcile | Agent status written by the hub |
| event-gateway operator (`operators/event-gateway`) | WebhookConnector status, Deployments | reconcile | Kubernetes |
| runner (`pi/pi-extensions/ainsel-runner`) | TurnTracker (memory) | poll, run a turn, time out, report | hub next-task, ack, nack |
| activity feed (`handlers_events.go`, `handlers_ws.go`) | none of its own | broadcast an entry, put a page together | event queue, router |
| trigger requests (`handlers_triggers.go`, `handlers_cron_triggers.go`) | rows of `triggers`, `cron_triggers` | create, update, delete, look references up | trigger sync, access control |
| personas (`internal/personas`) | tables of personas and versions, a ConfigMap each | CRUD, roll back, fork for an agent, render | Kubernetes, agents API |
| skills (`internal/skills`) | table of skills, one ConfigMap for all | CRUD, ensure, converge | Kubernetes, AgentImages |
| access control (`internal/authz`, users and groups handlers) | users, groups, members, the group of every resource; a cache of roles, a tracker of identities | CRUD, grant, revoke, backfill, expire | every handler |
| agents and images API (`handlers_agents.go`, `handlers_agent_images*.go`) | Agent and AgentImage objects, key Secrets | CRUD with checks against each other, refresh tools | Kubernetes, personas |
| MCP servers registry (`internal/mcpservers`) | table `mcp_servers` | CRUD, copy into an image or agent | agents and images API |
| connectors API (`handlers_connectors.go`) | WebhookConnectors and their Secrets | create, rotate, delete | Kubernetes, event-gateway operator |
| history (`internal/invocations`, `internal/tasklogs`) | tables `invocations`, `task_conversations` | record, post, list, count tokens, prune hourly | router, runners |
| figures (`handlers_observability.go`, `internal/telemetry`) | a cache of answers | summarise, chart | the tables above or Prometheus |
| sign-in (`internal/localauth`, `internal/usertokens`, `shared/auth`) | tokens | sign, verify, revoke | every request |
| MCP services, frontend, docs site, chart | none that matters here | forward calls, render | hub API |

What is hard: every SQL statement commits by itself, so each handler that runs
two can be cut or interleaved between them; the hub, its pods and its runners
restart at any time; reports and polls are plain HTTP requests that get lost or
arrive late and carry no attempt number; three loops (router, cron, reaper) and
the handlers work on the same rows; a pool of ten connections is shared by
everything, the blocking long-polls included; the rows of one request are spread
over Postgres and the Kubernetes API, which share no transaction; and operators
decide on caches that lag. `PROJECT.json`, `hazards`, has each such place with
its line and the properties that look at it.

What makes the parts correct:

- **event queue**: two runners never hold one attempt, the retry budget is
  neither overdrawn nor stranded, rows settle for good, a settled row moves only
  after a reaped claim, its invocation tells the same story, connections are
  given back, a poll always returns.
- **router, bridges, triggers**: whoever an event is for gets a row or an
  invocation that says why not, one each; every event is marked in the end; the
  order in which maps are walked does not show.
- **channels**: no loops, no bridge without its ends, deletes take no bridge;
  rows of groups stand on what exists; provisioned channels and their figures
  agree with the registries; a page shows no channel its viewer may not see.
- **cron**: each slot runs once, also when its fire is retried or its entry
  replaced, and none is passed over.
- **queue signal and operators**: no change of the queue is forgotten; no agent
  is parked on an unproven claim of emptiness; idle agents come down; every edit
  of what an agent or connector depends on reaches its pods.
- **runner**: a task is acked only for what its own run did, its transcript is
  its own and shows no secret, and every task is reported.
- **chat and feed**: what somebody is told of a message or an event is what
  became of it. **Skills and personas**: ConfigMaps come to hold what the tables
  say. **Agents, images, MCP servers**: no edit is lost, references stand.
  **Access control**: a removed grant is not honoured beyond the cache's TTL, an
  administrator remains. **History and figures**: a listing is whole, a chart
  agrees with its summary.

## 2. Modules

| Module | Role | Checked in |
|---|---|---|
| `TaskQueue` | the rows of `agent_tasks`, runners, reports, reaper | `MCTaskQueue` |
| `LeasedQueue` | what the queue promises: bounded leases, finality unless a lease expired; instantiated by `TaskQueue` | |
| `LongPoll` | `WaitForTask`, LISTEN/NOTIFY and the connection pool | `MCRunner` |
| `TurnTracker` | one runner pod through its tasks | `MCRunner` |
| `TurnContext` | extends it by the prompt, the session and the process environment | `MCRunner` |
| `TranscriptText` | secrets masked and texts cut before a message is posted | `MCRunner` |
| `EventRouter` | routing of events, by triggers and by bridges | `MCRouting` |
| `TriggerMatching` | the index, the filters and the type of an event | `MCRouting` |
| `ActivityFeed` | the broadcast entry and the pages read back | `MCRouting` |
| `ChatDelivery` | a chat message through its statements | `MCRouting` |
| `ChannelGraph` | channels and bridges under concurrent requests; the walks over them | `MCChannels` |
| `ChannelRegistry` | the reconciler, the channel an event is born in, the figures | `MCChannels` |
| `ChannelDesk` | requests on channels and the rows that give these to groups | `MCChannels` |
| `ChannelPages` | pages of channels and edges | `MCChannels` |
| `CronEmitter` | the cron emitter and the sync that replaces its entries | `MCLoops` |
| `TriggerDesk` | trigger requests and the sync into memory | `MCLoops` |
| `SkillsDelivery` | skills and the one ConfigMap that carries them | `MCLoops` |
| `QueueScaling` | publisher, operator and Deployment around one agent's queue | `MCOperator` |
| `AgentRollout` | the agent operator's pass from an Agent to its Deployment | `MCOperator` |
| `ConnectorRollout` | connector requests and the event-gateway operator | `MCOperator` |
| `AgentDesk` | requests on agents and images | `MCHub` |
| `McpServers` | the registry of MCP servers and the copies made of it | `MCHub` |
| `Personas` | rows, versions, ConfigMaps, forks | `MCHub` |
| `Access` | users, groups, members, resources, the two caches | `MCHub` |
| `RunHistory` | invocations, transcripts, sweep, readers | `MCHub` |
| `Figures` | summaries, charts, the backend and the cache | `MCHub` |
| `*Proofs` | theorems about the module of the name; `ChannelProofs` about `ChannelGraph`, `ChannelRegistry`, `ChannelDesk` and `ChannelPages`, `CronEmitterProofs` about `TriggerDesk` and `SkillsDelivery` as well, `EventRouterProofs` about `ActivityFeed`, `ChatDelivery` and `TriggerMatching` as well, `HubProofs` about `AgentDesk`, `McpServers`, `Access`, `Personas`, `RunHistory`, `Figures` and `MCHub`, `OperatorProofs` about `QueueScaling`, `AgentRollout` and `ConnectorRollout`, `RunnerProofs` about `TurnTracker`, `TurnContext` and `LongPoll` | |
| `Counting` | lemmas about numbers, sums and recursive functions that several of them need | |

The modules meet at narrow interfaces instead of being composed into one state
space. A `TaskQueue` row is inserted by an `EventRouter`, `CronEmitter` or
`ChatDelivery` statement; `EventRouter.RunnerReports` is a whole `TaskQueue` life
of a row that ends well; `TaskQueue.Poll` is a `LongPoll` that returns a row; the
time between `TaskQueue.Poll` and `FinishTurn` is one turn of `TurnTracker`,
whose `Report` is the request `FinishTurn` sends; `QueueScaling` sees of the queue
only its two counts and gives `AgentRollout` the number of pods it leaves out; of
`EventRouter`'s set of matching agents `TriggerMatching` is the detail and of its
bridge walk `ChannelGraph.Walk`; `CronEmitter`'s edits are `TriggerDesk`'s rows.

An MC module that holds several components runs each by itself: its variable
`part` is chosen in the initial state and says whose actions are taken, the
others' variables stay. (`scope`, `about` and `asks` choose within a part which
requests or bounds a behaviour has.) So a property about two components would
show nothing there, and none is stated; what one component assumes of another is
said in its module's header.

### TaskQueue, LeasedQueue

The variables `status`, `attempts`, `due`, `stale` and `ahead` are columns of a
row: `retry_after` reduced to "passed", `claimed_at` to "older than the claim
time-out", `created_at` to the rows that come before. `worker` is what each
runner pod does; `requests` holds the ack and nack calls between a runner and
the hub, in the phase `sent` and, after the first of the handler's two
statements, `applied`. `HandleReport` is `AckTask` or `NakTask`,
`CompleteInvocation` is `invocations.Complete`; `LoseRequest` loses a call
before or between them. `AbandonReport` is a runner that gives up on a request
the hub may still handle, `PollLost` a claim whose answer does not arrive,
`Crash` a pod that dies. A report carries no attempt number in the code, and
none in the model: `claim` in a request is only used to release the runner that
waits for its answer, and by the properties.

`LeasedQueue` has a phase, a use count and an "expired" flag per item. Its one
idea is `Answerable`: an item moves on a report only while leased, or if one of
its leases has expired. `TaskQueue` implements it with `phase <- Phase`,
`used <- attempts`, `expired <- reaped`.

### LongPoll

`pc[p]` is the place of a poll in `WaitForTask`, `mailbox[p]` what Postgres has
put on its LISTEN connection, `held` the connections taken from the pool and
kept. Every other statement takes a connection and gives it back in the same
step, so it only needs one to be free (`ConnFree`). `InsertTask` and
`NotifyAgent` are the two statements of `EnqueueTask`. `Return` stands for the
deferred UNLISTEN and Release, on each of the seven ways out. The payload of a
NOTIFY is an agent's name, so polls hear of rows that are not theirs.

### EventRouter

`router[r]` is the goroutine of one hub: the fetched batch, the event at hand,
the agents still to be enqueued for and whether they come from triggers or from
bridges. `Record`, `EnqueueTask`, `Notify`, `FailInvocation`, `WalkBridges` and
`MarkRouted` are the statements of `handleEvent` and of the transfer, each with
a failing alternative. `inv[e][a]` is the sequence of invocations recorded for a
pair and `task[e][a]` the one the row names: a second insert of the pair hits
ON CONFLICT DO NOTHING and leaves the earlier id in place. What matches and
what is reached is any set of agents, chosen anew in each pass.

### ChannelGraph

Clients run `CreateBridge` (read both ends, test for a path back, insert) and
`Delete` (lock the row, count, delete) step by step; foreign keys and the row
lock are guards of `InsertBridge` and `LockChannel`. `Reaches` is reachability
by closed sets, so that it can be reasoned about without recursion; `Walk` and
`ReachingInto` are the bounded walk and the backward walk of the code, checked
against it and against each other (`WalkAgrees`): an event is delivered through a
grouping channel that counts it exactly where the bound on the walk lets it get.

### CronEmitter

A schedule is its slots, one per unit of time. The emitter collects due entries
(`Tick`), then fires each in six statements (`BeginFire` ... `Advance`), while
the sync goes through a listing it took earlier (`ListRows`, `Upsert`,
`Delete`). `runs` has one record per fire; its invocation is `missing` when the
INSERT failed, and `mute` says that the UPDATE to `failure` did: both are only
logged. `Restart` forgets the entries.

### QueueScaling

The queue is two counts and what each pod does. `untold` is a change that has
committed and whose observer has not run. `Sweep`, `Round`, `Count`, `Patch` and
`PatchFails` are the publisher's loop, `Watch` the operator's cache, `Reconcile`
with `Resolve` the decision, `StartPod` and `StopPod` the Deployment, which does
not know which pods hold a task. One `Tick` is a minute. `last` is what the
publisher believes the status to be; `doubtful` says that a patch may have been
applied whose answer was lost, and none was answered since.

### TurnTracker

The fields of the tracker are variables of the same names; `turnDone` is
`beginTurn`'s promise, `pc` the await `processTask` stands at. `BeginTurn`,
`Sent`, `SendFails`, `EndOfTurn`, `TimeOut`, `GiveUp`, `Drained`, `Post` and
`Report` are the pieces of `processTask` between its awaits, `MessageEnd`,
`TurnEnd` and `AgentSettled` the handlers of pi's events. pi itself is external
and assumed to do only what the module's header says. `turn[g]` is history: what
the run started for the g-th task did, and what the hub was told of it.

### TurnContext, TranscriptText

`TurnContext` takes `TurnTracker`'s steps and adds to each what it does to the
session, which pi keeps across tasks, and to the environment variables of the
process, which are set per task and read while messages arrive. `Shown` is the
extension's `context` hook with its search for the start of the task
(`StartIndex`), `ShowsOnly` what it should come to. A tool may be called
at any time of a run; `mixed` and `miscounted` record one that was shown another
task's message or counted under another task's labels.
`TranscriptText` writes a message piece by piece and states of every message what
`Payload` makes of it; `Quote` and `Escape` are the two characters JSON changes.

### TriggerMatching, ActivityFeed, ChatDelivery

`TriggerMatching` types a sheet of triggers in any order, walks it in any order
and compares. `ActivityFeed` has the entry built in `handleEvent` and a page's
three reads with runners and the pruner between. `ChatDelivery` has one action
per statement of `addChatMessage`; `failed` ones are answered or passed over as
the code does.

### ChannelRegistry, ChannelDesk, ChannelPages

`ChannelRegistry` steps through `Sync` (two lists, upserts, orphan flags) beside
ingest and routing. `ChannelDesk` has the handlers' calls to the store and to
`resource_groups`. `ChannelPages` has one set of facts, a page reads some at each
of its statements.

### TriggerDesk, SkillsDelivery

A request's `SELECT ... FOR UPDATE` runs outside a transaction, so in
`TriggerDesk` the read and the write are two actions. `SkillsDelivery` has the
requests' `Ensure` and the loop's `Converge` over one object with a resource
version. A body has a size, which an edit may change, and `Takes` says which
sizes together the apiserver accepts. In a pass `skipped` are the skills that a
failing Get took out of it, `undelivered` those it reports.

### AgentRollout, ConnectorRollout

`seen` is the informer's copy of each kind, `waiting` the work queue, and a
`pass` goes through the writes of `Reconcile` one by one. Which changes of an
object reach the work queue is `Concerns`. The Agent is ready when its Deployment
is up, its persona is rendered and every MCP server that takes its token from a
variable finds it defined (`MissingEnv`). `ConnectorRollout` has the three
handlers, whose calls may fail, be cut, or succeed without an answer, and the
operator's pass.

### AgentDesk, McpServers, Personas, Access

Requests over objects with optimistic concurrency: a clerk (helper, session)
reads, checks, writes a Secret or a row, then writes its object, refused if the
object was written since. `said`, `moved`, `raced` and `crossed` are history: what was
asked and answered with success, which rows were written since a copy was read,
whose check a concurrent request has overtaken. In `Access` a role is a rank, an
entry of a cache carries the ticks it has left; a caller `brings` a name, only an
e-mail address, or neither, as a personal access token does whose owner's name
was cleared. In `Personas`, `cleaned` says whether the cleanup after a re-pointed
or deleted agent worked: the request succeeds either way.

### RunHistory, Figures

`RunHistory` counts hours; its readers take a step per statement. `Figures` has
rows that commit after they were stamped, a database that rounds instants down,
and a cache.

## 3. Runs

| Run | What it asks | Bounds |
|---|---|---|
| `queue_safety` | Who works on a row, how often it is run, how far late reports move a settled row, whether the invocation tells the same story, that rows settle for good, that all of it implements `LeasedQueue` | 1 row, 2 pods, 3 attempts |
| `runner` | Connections are conserved and a notified poll does not sleep (`PollsSound`), polls return, rows are claimed; acks, transcripts, session and labels are a task's own (`AckIsEarned`, `TurnsAreOwn`), one run at a time, every task is reported; no transcript shows a secret or exceeds its caps (`PayloadsHold`) | 2 polls of one agent, a row of theirs and a foreign one, pool of 3; 3 turns of one message or 2 of two; messages of 2 blocks and 8 characters |
| `routing` | No stray invocation; a reported success stands and nobody is forgotten (`PassesSound`); every event is routed; feed, pages and chat tell what became of an event (`TellingSound`); the order of maps does not show (`MatchingSound`) | of 2 events, 2 agents, 2 hubs two of one kind and one of the others, 2 failures, 1 crash; 1 page, 2 failures; 2 messages, 2 changes, 2 failures; 3 triggers |
| `channels` | Loops take an overlap, deletes drop no bridge, bridges stand, an event is born in its own channel (`BirthIsOwn`), walks and figures agree with what they stand for (`ViewsAgree`), the reconciler catches up; pages are what the viewer may see (`PagesTold`); rows of groups stand (`OwnersHold`) | 1 connector, 1 inbox, 2 custom channels, 2 requests; 3 changes of the registries, 1 failure; 4 requests at the desk; 2 changes under a page; walks of 2 bridges; a third inbox that gets what is carried on |
| `loops` | A slot runs once, none is passed over, invocations tell the truth (`SlotsSound`), slots are run; validity flags are earned and a pass over the skills is exact (`RowsCarried`), index and ConfigMap follow the rows | 1 cron trigger, 2 slots, 2 edits, 2 failures, 1 restart; 2 requests; 2 skills with bodies of 1 or 2 units in an object of 2, 3 edits, 1 failure |
| `operator` | The publisher forgets nothing, parking is proven, work gets a pod, idle agents come down; an idle operator has nothing outdated and a connector its key (`ObjectsHold`), edits land | 1 pod, TTL and window of 1, and 2 rows without failures or 1 row with 1 failure; 2 edits or failures, 1 server in the agent and 1 in its image; 2 keys, 2 upsets |
| `hub_pages` | No edit of an agent is lost, its references stand, copies of MCP servers are their rows (`EditsHold`); personas are rendered and reclaimed, listings whole, summaries count what was there (`RecordsSound`); charts agree with the rows (`ChartsAgree`); an administrator remains, grants end with the caches (`AccessHolds`) | 2 requests at once everywhere; 4 orders; 4 server requests; 3 edits; 3 access requests; 2 runs; 2 rows, 10 instants |
| `invocation_stays_running`, `polls_exhaust_pool`, `channels_cycle`, `digest_failure_restarts`, `transcript_outlives` | violations, see section 6 | |

Why the bounds are enough:

- Three attempts are the least with which a claim can be reaped, run again,
  completed, reopened by the late nack of the first and run a last time. Two
  rows reaped by one UPDATE are not in a run; the theorem `LeaseRefinement`
  covers any number of rows. A second pod is what makes a reaped claim and its
  successor overlap; a third adds no new kind of lateness, for the rows treat
  every late report alike.
- A pool larger than the polls by one is the smallest in which polls can go on;
  a larger pool only weakens the guard `ConnFree`. A foreign row is there so
  that polls are woken for nothing.
- One failing statement is enough for each property that says "unless a
  statement failed", two for the retry of a retry.
- Four channels have paths of three bridges; `MaxWalkDepth` is 2 there (8 in the
  code), so that the bound does cut walks off.
- Of two rows the second changes the counts while the first keeps both above
  zero: that is no edge, and the publisher is debounced. So that the run ends in
  time, the operator of that part is never behind and nothing fails; with one row
  it lags and one call of any kind fails.
- Of two skills in an object of two units, both fit with small bodies, and one
  that grows has no place beside the other, or alone by an edit of the other.
- A TTL of one minute is the shortest that exceeds the time between two sweeps'
  measurements in the model.
- With three turns a run that outlives its own turn and the next one's start
  meets a third; with two messages a flush can fall between two. A secret of
  three characters around one that JSON escapes can be cut at each place by the
  caps chosen.
- A second request is what a check-then-act needs to fail; the properties that
  admit an overlap name exactly that overlap, and the theorems (section 5) say
  that more requests, names and objects add nothing.
- A window of four grains with a grain of two is the least in which an instant,
  its rounding, a point of the chart and the end of the window all differ.

Deadlock is not checked where the system may come to rest: every module bounds
what comes in from outside (rows, edits, failures, turns), so that a run ends.

Every property has a mutant of a mapped definition that violates it
(`PROJECT.json`, `mutants`); the mutated operators stand above the definitions
they would replace, marked as such.

## 4. Fairness

- `TaskQueue`: the poll loop never stops, the turn time-out and the request
  time-outs end every wait of a runner, the hub's handlers run to their end or
  are lost, the reaper has a ticker. Nobody is obliged to enqueue, to crash or to
  lose a message.
- `LongPoll`: strong fairness for the steps of a poll, since pgxpool hands
  connections out in the order they were asked for, so that one which is free
  again and again is got. `polls_exhaust_pool` fails under the same fairness.
- `TurnTracker`: timers, requests and code. pi owes nothing but the return of
  `sendUserMessage`. `ackTask` and `nackTask` set no time-out of their own; that
  they end is left to fetch.
- `EventRouter`, `CronEmitter`, `ChannelRegistry`, `TriggerDesk`,
  `SkillsDelivery`: the tickers and the statements after them, and that a request
  once begun goes on. Failures and crashes are bounded, as "eventually" cannot be
  had otherwise.
- `QueueScaling`: the publisher's goroutine, the operator's watch and requeue,
  the Deployment and the clock. That a round and the watch of its patch end
  within the minute is an assumption of the module (`Tick`). The sweep and the
  clock are fair strongly (`Minute`): a publisher that is debounced goes round
  with every tick, which interrupts both again and again, but `select` takes at
  random among the channels that are ready, and time passes.
- `AgentRollout`, `ConnectorRollout`: watches deliver, a queued pass runs and is
  repeated after an error, the Deployment controller rolls out. That is
  controller-runtime's promise; nobody owes an edit.
- The other components have safety properties only.

## 5. Proofs

All theorems hold for every value of the constants that satisfies the module's
ASSUME, of which none says more than that sets are finite, sentinels are not
members, bounds are naturals, inputs have their types, the apiserver takes an
empty ConfigMap and with one each that is no larger in any body, there is a
persona, a resource and an event, and the database's microsecond divides the
chart's stride.

- **`TaskQueueProofs`**. The inductive invariant is `TypeOK`, `RetryBudget`,
  `Numbering` (attempts are numbered by the claims: whoever works or reports on
  a row holds a number no larger than its attempts), `OneOwner` (an attempt is
  at work in one runner or reported by one request) and `UpToDate` (as long as
  no claim of a task was reaped, whoever runs it or has sent a report of it
  holds the latest number of a claimed row). `RetryBudget` is not inductive by
  itself: a late nack must find attempts left. `ExclusiveWork` and
  `LateReportsAreBounded` follow from `OneOwner` and `UpToDate`, `AttemptsRunOnce`
  from `Numbering`; `LeaseRefinement` maps each action to one of `LeasedQueue`
  or to a stutter, late reports to the second case of `Answerable`.
  `HistoryAgrees` needs `Underway` (a row is claimed by somebody who works on it,
  or by a report of it that is under way, as long as nothing was reaped) and
  `OneReport` (then there is one report): the handler's second statement writes
  the outcome its first one has written.
- **`EventRouterProofs`**. The invariant says, of each pair of event and agent,
  that rows name invocations that were recorded (`OwnedAt`), that each is named
  once (`Distinct`), what the invocation of a row says of it (`ServedAt`), and of
  each router, that the invocation it has recorded last is its own, as `Record`
  appends, and what the agents already passed have got. With it
  `RoutingIsSound`, and `RoutingLeavesNoStray` by `OnePass`: while one pass was
  undisturbed there is one invocation for an agent.
  `TellingIsSound` is about two more parts of what an event goes through. Of the
  feed, `EntryAt` says that an agent the pass meant is listed, still to be done,
  or missed by a bridge, and that a listed one has its row unless its trigger's
  enqueue failed; `PageHolds` that an event which has not changed since the page
  was asked for is selected as it was then, so that the rows, one per event
  (`RowsCounted`), answer the filter. Of a chat message, `NoteAt` says what there
  is of it - event, tasks, invocation - wherever its request stands.
  `WalkShowsNowhere`: what `Match` has met is one match of each trigger that fits
  (`MatchingInv`). Matches of different triggers can be put in order in one way
  (`SortsByTrigger`), and of a sorted sequence the loop keeps, of each agent, the
  match no earlier one has the agent of (`LoopKeeps`, by the least turn after
  which it did not).
- **`CronEmitterProofs`**. `SlotsAreSound`: the slots still to be fired lie
  after all that ran for the entry, and the entry at hand is either the one the
  tick collected or a younger one, whose slots lie after its birth. That makes a
  replaced entry harmless: the old one advances only its own `lastFired`. Of the
  invocations, the run at hand is running or has no row, and every earlier one
  tells what it was told (`Told`).
  `RowsAreCarried` has an invariant of each of the two other parts. `DeskInv`
  says what a request on a trigger relies on (`Relies`): it has company, which is
  on record, or it finds the row as it read or wrote it, so that the references
  it has found are those the flags will stand beside; requests on one trigger
  know of each other (`Apart`). `SkillInv` says where an undisturbed pass stands
  (`LoopAt`): `Kept` is what it is to carry, `Filled` what it has carried, and a
  skill that was left out for the size is still too large at the end unless a
  later body of the pass shrank, as the object only grows otherwise and the
  apiserver takes no larger one in place of one it refused; a copy whose writer
  may still succeed is the object (`CopiesFresh`).
- **`HubProofs`**. `CopiesAreHeld`: the copy a request has read is the row unless
  the row was written since (`ReadHolds`); a deletion that has asked the images
  has marked every one that named the server after it was asked (`AskedHolds`).
  `AgentsAreHeld`: nobody else is at an agent that is being created
  (`HiringAt`); the copy of a request that was not overtaken is the object
  (`FreshAt`), so that what it writes back of the fields it does not name is what
  others asked for; and what a request has checked still holds unless the other
  kind of request wrote since (`CheckedAt`), the key Secret being there before
  the object refers to it.
  The hub's theorems speak of `HubSpec`, whose behaviours are of one part at a
  time: a step of it is a step of each part or leaves it alone (`HubParts`).
  `EditsAreHeld` puts the two results above together.
  `RightsHold`: whoever holds a rank held it no tick ago (`RanksKnown`), and an
  entry of the cache is younger than what it has lived and its load took
  (`EntriesKnown`), which bounds how long ago a rank a check passed with was
  held. A user without a name whom the tracker holds back is one whose last request
  brought no name, or whose upsert failed (`SyncRepopulates`, inductive as it
  is). An administrator remains because a removal that is past its count, alone
  so far, has counted another one (`Relied`); of the backfill, `FillHolds` says
  that what it has listed is placed, excused or still to be looked at.
  `RecordsAreSound` has three parts. A request on a persona that was alone so far
  finds what it left, wherever it stands (`Lonely`), and knows which personas are
  owned if at most one was when it began (`Tidy`), of which a cleanup
  that works leaves none; while it is alone the others
  rest (`Apart`), a transaction in progress holds its row (`Locked`), and an
  outcome is looked at when all rest (`LastStands`). A run whose retention has not
  run out has the record it began with (`RecordsKept`), the runs a listing owes
  are in the queue, and no run has two rows so far (`ListingHolds`); a token count
  is at any time the sum over the runs counted so far, and every retained run it
  has read a message of is counted or due (`TallyHolds`, `SumHolds`). An answer on
  its way to a panel counts the rows that were there when it was asked for, but
  for errors past their retention (`StillThere`, `Counts`), rows are otherwise
  only added (`RowsStay`), and what is cached counts them as of when it was
  stored (`ShelfHolds`).
  `ChartsAreWhole` is arithmetic rather than induction over steps: a row is in
  the bucket its instant is truncated to, a bucket nearest to the slice its rows
  lie in (`NearestSlice`), the slices divide the window (`WindowSliced`), and so
  the sum of the bars counts each row once (`BarsCount`, by `SumOfCounts`).
- **`ChannelProofs`**. `Reaches` is defined by closed sets: to show that a
  new bridge closes no loop, the lemma `NoLoopClosed` exhibits, for an alleged
  loop, a set closed under the new bridges that separates its ends. `Checked`
  says that the answer of the cycle test is still true at the insert while
  nobody has overlapped, as bridges can only have gone; with it `LoopFree` is
  inductive, and `LoopsTakeOverlap` follows. `Counted` (a delete about to
  happen has no bridge at its channel) and `Asked` (a create has looked at its
  endpoints) give `BridgesAreKept`.
  `BirthsAreOwn` needs `BirthsDue` (a stream about to be stamped has its row) and
  `DirectsAreOwn` (a direct event without a channel is delivered to its own
  stream only, as no bridge carries it on before it has one; that lets a later
  pass go by the delivery).
  `OwnersAreHeld` needs `Warranted` (what a request has read is true while it
  relies on it: its channel has been made before it writes a row and has gone
  when it removes one, a channel it found without bridges has none or one that
  came since) and `RowsTended` (a row without its thing is one that a request is
  about to remove). Its proof turned up an overlap two requests cannot show: a
  creation that has still to write its channel's first row. `MovesUnreached`
  names it.
  `PagesAreTold` says of each part of a page (`IdsTrue`, `EdgesTrue`, `RowsTrue`,
  `ShownTrue`) that from the statement that reads it on it holds what stood ever
  since the page was asked for and nothing that has not been; of the channel of
  the path it needs that a channel of an entity keeps its row (`OneStays`). The
  degrees follow by the cardinalities of the three sets, which is why the facts
  are assumed to be finitely many.
  `ViewsAreTrue`: a round of `Walk` holds the paths of as many bridges that enter
  no channel twice (`PathsFollow`). A path leaves no closed set (`PathsStay`), so
  what a walk finds is reached. Whatever a way comes to, with loops or without,
  a path of no more bridges comes to (`WalksFind`): where the way leads to a
  channel the path has been to, the path's own beginning leads there
  (`PathLeadsOn`). Of the figures,
  `WindowHolds` says that the tasks of the window are those of its events and of
  older ones, and a bundle's sum counts each event once, as it is born in one
  stream (`BundleCounted`, from `BirthIsOwn`).
- **`OperatorProofs`**. `Marks` strengthens `NothingForgotten` by what is
  true while a patch is under way and while the hub is down; `FreshEmpty` says
  that a status or a cached copy which is empty and younger than the TTL is a
  witness that the queue was empty that long ago. `ParkingIsProven` is then a
  property of `Resolve`. The counts need two facts about cardinalities (`Fits`,
  `Held`).
  `ObjectsAreHeld` is about the operators side by side. Of an agent, `DoneSoFar`
  says how far its pass has come: unless the agent is in the work queue, the pass
  reads what the caches have, and what it has written is what the caches ask
  for; a kind whose cache lags is one whose event is still to come, and the case
  of that event is the one that shows that an event `Concerns` denies changes
  nothing. Of a connector, `KeeperFits` says what each request relies on: a
  create that has still to make the row has made the secret and is alone, one
  that gives up knows of no connector, a rotation has a secret to write.
- **`RunnerProofs`**. `Alone` says that until a drain gives up pi works on
  the current turn or rests, and that a turn which has settled or is resolved
  has seen its run end; `OneRunAtATime` follows. `AcksAreEarned` holds after a
  drain has given up as well: `Truth` says that, in a turn that began with no run
  under way, what the tracker has recorded is what the turn's own run did, and
  `Order` that a run which has ended says nothing more, so that an ack stays
  true when the next turns come.
  `TranscriptsAreOwn` needs `Told` (the captured messages are the run's, one by
  one; those below the flush mark are posted or queued, in order), `Heard`
  (what a run said is captured as long as its turn is the active one) and
  `Quiet` (nothing is queued while the runner polls). `ContextsAreOwn` adds
  `Session` over `TurnContext`: until a drain gives up, pi's session ends in the
  messages of the run under way, the first of which and no other is an event, so
  that the search for the last event finds the start of the task.
  `PollsAreSound`: `HeardWaiting` says that only polls that listen have been told
  of a row and only of rows there are, so that a NOTIFY sent while a poll listens
  is in its mailbox or was taken by it for the claim it is about to make.
  Holders of connections are counted by `Cardinality` of the polls that hold
  one, which every way out must lower exactly once.
- **`Counting`**. A function that a definition builds by recursion, a sum or a
  loop, is shown to be what a closed form says by its least counterexample: the
  naturals are well founded (`LeastNatural`), so if the claim failed for some
  number it would fail for a first one, and what holds before it gives it there.
  By that a sum over a set is the sum of its parts (`SumIs`), and the sum of how
  often each key is shown is the number of what shows one (`SumOfCounts`).
Each of these invariants was checked by TLC on an instance before it was proved;
what the runs check is the statement, the invariant behind it is in the proof
module.

Only model-checked, and why:

- every liveness property and the fairness in it (`SettlesForGood`,
  `PollReturns`, `TaskDelivered`, `TurnsEnd`, `EventuallyRouted`,
  `RegistryCatchesUp`, `SlotIsRun`, `LoopsFollow`, `AgentsScale`, `EditsLand`):
  the prover does no liveness under fairness and no ENABLED;
- `PayloadsHold`: what it says of a text is true of the instance's letters (a
  secret repeats none, and no other text has one of them), so there is no
  statement for every environment to prove; and its operators fold over texts
  with operators as arguments, which the prover does not expand. A theorem with
  such an argument, as the library has them for induction, cannot be cited
  either; where a proof needs induction over data it goes by the least
  counterexample (`Counting`).

## 6. Where the code and its comments differ

Shown by a run:

- `invocation_stays_running`: a row that the reaper fails leaves its invocation
  `running`; the comment in `pgstore.go` says every normal path completes it.
- `polls_exhaust_pool`: as many listening polls as the pool has connections wait
  for each other, and nothing else of the hub gets a connection.
- `channels_cycle`: two requests for opposite bridges both pass the cycle test.
- `digest_failure_restarts`: one failed answer of the registry takes the digest
  annotation off the pod template and the next one puts it back, two restarts
  for an image that is the same.
- `transcript_outlives`: records are pruned by the time their task was enqueued,
  transcripts by the time a message was posted; the comment says both expire
  together.

Met while modelling, part of the models and not the subject of a run:

Tasks and the runner

- A late ack completes a row that has already failed (`AckTask` has no condition
  on the status, its comment says otherwise); `LateReportsBounded` allows it.
- A NOTIFY sent between a poll's first claim and its LISTEN is not heard; the
  claim after the deadline finds the row.
- The runner's generation counter is compared only with zero by `endTurn` and
  `recordAssistantEnd`: after the drain's backstop has expired, events of the
  abandoned run count for the next task (`captureMessage` admits the window).
  `AckIsEarned` and `TranscriptIsOwn` speak of turns that began with no run
  under way. The branch for a generation mismatch in `processTask` cannot be
  reached.
- An error that pi retried with success still fails the turn: `errorMessage` is
  never cleared within it. A message that could not be sent leaves
  `activeGeneration` set until the next turn.
- Redaction assumes that no secret contains another one, and the cap on a message
  can cut the text in the middle of its JSON.

Events and triggers

- An enqueue whose NOTIFY fails reports an error although the row is there: the
  router fails the invocation and leaves the agent out of `delivered`, the
  emitter fires the slot again under a new event id. `SuccessStands`,
  `SlotRunsOnce` and `InvocationTells` exclude exactly that case by `deaf`.
- The emitter writes invocations with statements of their own, whose failures are
  logged: a fire may have no invocation, though its task carries the id of one,
  and a failed fire one that runs for ever (`Told`).
- A failing walk of the bridges is logged and the event is marked all the same.
- A cron event is inserted unrouted and marked in a second statement; the router
  may take it in between and transfer it itself (`RouterTakes`).
- A trigger that was switched off for a while fires the slots it missed, one per
  tick, when it is switched on again.
- Triggers are read FOR UPDATE outside a transaction, so of two updates one can
  be lost; an UPDATE of a row deleted meanwhile answers 200.
- Two "-Event" headers that disagree give an event either type, in the order of a
  map. `neq` on a list is always false, `neq` and `not-contains` on an absent
  field are false as well.
- "The filter and the rendered rows can never disagree" (`activity/store.go`)
  fails between the reads of one page; `PageAgrees` says what is left.
- A chat message is stored before its event: an error in between answers 500 or
  502 with the message there.

Channels

- "a timeline and its counts cannot disagree" (`channels/service.go:264-265`), "a
  channel's numbers and its events cannot disagree" (`handlers_channels.go:163-165`):
  an inbox's do. Its figure counts tasks made within the window, its timeline
  events received within it; the events that came before the window and were
  delivered within it are counted and not shown. `CountsMatchTimeline` says that
  these are all.
- The walk that delivers stops after `maxWalkDepth` bridges, the walk that counts
  does not: an event is counted, and shown, in a grouping channel it never got to.
- Orphan flags are set against a list read when the pass began; an event of a
  removed connector takes its channel's flag away until the next pass.
- Deleting a channel gives each channel that fed it to the caller's group once no
  other bridge leads there, by check-then-act; an adoption after a concurrent
  detach leaves the row of a bridge that has gone.
- `getChannel` returns a channel's edges without asking whether their other ends
  may be seen; `handleChannelSubscriptions` says "An edge reveals both of its
  endpoints" and asks.

Skills

- `Service.Converge` takes any error of `Get` for a missing row
  (`skills/service.go:459-465`): it drops the skill from what is to be kept, so
  that the pass prunes its key, and does not report it; the loop sleeps ten
  minutes. `skills_delivery.go:31-35` says "a failed read surfaces as an error and
  aborts the pass before it prunes", `reconciler.go:135-139` that "the remainder is
  reported, and the next pass retries".
- An edit that makes a body too large for the object leaves the old body in it,
  which pods go on mounting, until there is room (`Delivered`).

Operators

- The idle clock is stamped when waiting work grows, so a task that is claimed
  before the next round leaves it alone; an agent may be parked sooner than the
  window after its last task, but not with a queue that has not been empty.
- A patch that was applied and whose answer was lost leaves the publisher with
  an older memory; equal counts then hide the difference until the sweep
  (`NothingForgotten` says so by `doubtful`).
- The Deployment picks which pod to stop, busy ones included. During the idle
  grace the count may stay below a floor that was raised meanwhile.
- Temperature, vision and a custom URL are only in a file that no hash covers: a
  running pod keeps the old ones. The administrator's guide says that pods do not
  restart on a change of a ConfigMap, the persona and skill hashes restart them.
- A connector whose creation was carried out but not answered keeps no secret:
  the handler deletes the one it wrote.

Agents, personas, access, records

- Key Secrets are written before the agent: an update that is refused leaves the
  new key in place. The refresh of MCP tools drops those of a server that did not
  answer; when it does they return as new and disabled.
- Deleting an MCP server asks the images only, agents keep their copies; an edit
  of a server reaches no copy, which is meant.
- Nothing makes a persona's owner unique, so two first edits fork it twice; two
  updates that overlap can leave the older text in the ConfigMap.
- No handler invalidates the group cache: a removed member keeps access until the
  entry is 30 seconds old (`wire.go:53`).
- `shouldPersist` notes the time before the middleware looks whether there is an
  e-mail address or a name to write (`identity_persist.go:75`). A personal access
  token brings the name of its owner's row: when that was cleared, his next
  request writes nothing and keeps every other from being written for five
  minutes, although "the next request always persists" (`identity_persist.go:72-74`).
  A token with an e-mail address only leaves the cleared name cleared.
  `SyncRepopulates` says who is held back.
- `cleanupOwnedPersona` logs its failures and the request answers success: a
  persona nobody can see or reach may be left over (`OwnedReclaimed`). A POST that
  names an owner makes one more.
- A group whose first member could not be written stays without an owner.
- The listing of runs adds those of the queue after the filter has been applied.
  A task that waits longer than 48 hours loses its record while it is still to
  run; figures for seven days show what those 48 hours have.

## 7. Not modelled

Sign-in and tokens (the verification of one credential per request), the MCP
services and clients (stateless adapters), the frontend, the charts, images and
documentation. Of what is modelled in part, left out are: arithmetic of cron
expressions and regular expressions (libraries), the texts the operators render
into containers, services and role bindings, log search and Prometheus itself,
migrations, and the wording of prompts and answers. `PROJECT.json`,
`components`, has a line for each.

## 8. Plan

All modules of the plan are there, and every safety property of the runs but
`PayloadsHold` (section 5) is a theorem. When the code
changes, the definition to look at is the one `map` names for the lines, the run
of its module comes first, the proofs second.
