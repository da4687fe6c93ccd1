-------------------------------- MODULE LongPoll --------------------------------
(***************************************************************************)
(* The blocking long-poll behind next-task: WaitForTask and NotifyAgent of *)
(* services/hub/internal/eventqueue/store.go, and the connection pool of   *)
(* internal/db/db.go they share with every other statement of the hub.     *)
(*                                                                         *)
(* A statement takes a connection, runs and gives it back in one step: it  *)
(* needs a free one.  A poll that finds nothing takes a connection for     *)
(* LISTEN and keeps it until it returns, while its own later claims go     *)
(* through the pool like everybody else's.                                 *)
(***************************************************************************)
EXTENDS Naturals, FiniteSets

CONSTANTS
  Tasks,     \* rows of agent_tasks
  Agents,    \* agent names, the payloads of pg_notify
  Polls,     \* the runner pods, each with at most one poll under way
  AgentOf,   \* AgentOf[t]: the agent of the row
  For,       \* For[p]: the agent that poll p asks for
  PoolSize   \* MaxConns of the pool

ASSUME PollAssumption ==
  /\ IsFiniteSet(Polls)
  /\ PoolSize \in Nat \ {0}
  /\ AgentOf \in [Tasks -> Agents]
  /\ For \in [Polls -> Agents]

VARIABLES
  row,       \* what ClaimTask can see of each row
  unsent,    \* rows whose insert or reap has committed and whose NOTIFY has not
  stage,     \* where each poll stands in WaitForTask
  mailbox,   \* mailbox[p]: payloads received on p's connection and not read
  late,      \* late[p]: p's deadline has passed
  held,      \* connections taken from the pool and not released
  told       \* history: told[t], the polls listening when t's NOTIFY was sent

longPollVars == <<row, unsent, stage, mailbox, late, held, told>>
pollVars == <<stage, mailbox, late, held>>

RowState == {"absent", "claimable", "delayed", "claimed"}
PollState == {"idle", "claim", "acquire", "listen", "loop", "wait", "wake", "last"}

\* The states between pool.Acquire and the deferred conn.Release.
HasConn(p) == stage[p] \in {"listen", "loop", "wait", "wake", "last"}
\* LISTEN is in force: from its Exec to the deferred UNLISTEN.
Listening(p) == stage[p] \in {"loop", "wait", "wake", "last"}

PollTypeOK ==
  /\ row \in [Tasks -> RowState]
  /\ unsent \subseteq Tasks
  /\ stage \in [Polls -> PollState]
  /\ mailbox \in [Polls -> SUBSET Agents]
  /\ late \in [Polls -> BOOLEAN]
  /\ held \in 0..PoolSize
  /\ told \in [Tasks -> SUBSET Polls]

PollInit ==
  /\ row = [t \in Tasks |-> "absent"]
  /\ unsent = {}
  /\ stage = [p \in Polls |-> "idle"]
  /\ mailbox = [p \in Polls |-> {}]
  /\ late = [p \in Polls |-> FALSE]
  /\ held = 0
  /\ told = [t \in Tasks |-> {}]

ConnFree == held < PoolSize

-------------------------------------------------------------------------------
(* The rows' side                                                              *)

\* EnqueueTask is two statements on the pool: the insert, then the NOTIFY.
InsertTask(t) ==
  /\ ConnFree
  /\ row[t] = "absent"
  /\ row' = [row EXCEPT ![t] = "claimable"]
  /\ unsent' = unsent \union {t}
  /\ UNCHANGED <<pollVars, told>>

NotifyAgent(t) ==
  /\ ConnFree
  /\ t \in unsent
  /\ unsent' = unsent \ {t}
  /\ mailbox' = [p \in Polls |->
       IF Listening(p) THEN mailbox[p] \union {AgentOf[t]} ELSE mailbox[p]]
  /\ told' = [told EXCEPT ![t] = {p \in Polls : Listening(p)}]
  /\ UNCHANGED <<row, stage, late, held>>

\* The NOTIFY fails, or the hub dies before it.
NotifyLost(t) ==
  /\ t \in unsent
  /\ unsent' = unsent \ {t}
  /\ UNCHANGED <<row, pollVars, told>>

\* A nack or the reaper returns the row with retry_after in the future; only
\* the reaper sends a NOTIFY, and sends it now, not when the row is due.
ReturnRow(t, notify) ==
  /\ ConnFree
  /\ row[t] = "claimed"
  /\ row' = [row EXCEPT ![t] = "delayed"]
  /\ unsent' = IF notify THEN unsent \union {t} ELSE unsent
  /\ UNCHANGED <<pollVars, told>>

RetryDelayPasses(t) ==
  /\ row[t] = "delayed"
  /\ row' = [row EXCEPT ![t] = "claimable"]
  /\ told' = [told EXCEPT ![t] = {}]
  /\ UNCHANGED <<unsent, pollVars>>

-------------------------------------------------------------------------------
(* WaitForTask                                                                 *)

\* Mutant: a poll claims only rows that a NOTIFY announced.
ClaimableIfTold(p) ==
  {t \in Tasks : row[t] = "claimable" /\ AgentOf[t] = For[p] /\ told[t] # {}}

Claimable(p) == {t \in Tasks : row[t] = "claimable" /\ AgentOf[t] = For[p]}

Claim(t) ==
  /\ row' = [row EXCEPT ![t] = "claimed"]
  /\ UNCHANGED unsent

\* Mutants: the listening connection is not given back on return; a connection
\* is given back by a poll that never took one.
ReturnLeaking(p) ==
  /\ stage' = [stage EXCEPT ![p] = "idle"]
  /\ mailbox' = [mailbox EXCEPT ![p] = {}]
  /\ late' = [late EXCEPT ![p] = FALSE]
  /\ held' = held
  /\ told' = [t \in Tasks |-> told[t] \ {p}]

ReturnReleasing(p) ==
  /\ stage' = [stage EXCEPT ![p] = "idle"]
  /\ mailbox' = [mailbox EXCEPT ![p] = {}]
  /\ late' = [late EXCEPT ![p] = FALSE]
  /\ held' = held - 1
  /\ told' = [t \in Tasks |-> told[t] \ {p}]

\* The poll is answered; the deferred UNLISTEN and Release run.
Return(p) ==
  /\ stage' = [stage EXCEPT ![p] = "idle"]
  /\ mailbox' = [mailbox EXCEPT ![p] = {}]
  /\ late' = [late EXCEPT ![p] = FALSE]
  /\ held' = IF HasConn(p) THEN held - 1 ELSE held
  /\ told' = [t \in Tasks |-> told[t] \ {p}]

Goto(p, label) ==
  /\ stage' = [stage EXCEPT ![p] = label]
  /\ UNCHANGED <<mailbox, late, held, told>>

BeginPoll(p) ==
  /\ stage[p] = "idle"
  /\ Goto(p, "claim")
  /\ UNCHANGED <<row, unsent>>

\* The claims before LISTEN, after a NOTIFY and after the deadline.
ClaimOr(p, label, next) ==
  /\ stage[p] = label
  /\ ConnFree
  /\ \/ \E t \in Claimable(p) : Claim(t) /\ Return(p)
     \/ Claimable(p) = {} /\ next /\ UNCHANGED <<row, unsent>>

FirstClaim(p) == ClaimOr(p, "claim", Goto(p, "acquire"))
WakeClaim(p)  == ClaimOr(p, "wake", Goto(p, "loop"))
LastClaim(p)  == ClaimOr(p, "last", Return(p))

Acquire(p) ==
  /\ stage[p] = "acquire"
  /\ ConnFree
  /\ held' = held + 1
  /\ stage' = [stage EXCEPT ![p] = "listen"]
  /\ UNCHANGED <<row, unsent, mailbox, late, told>>

Listen(p) ==
  /\ stage[p] = "listen"
  /\ Goto(p, "loop")
  /\ UNCHANGED <<row, unsent>>

\* The head of the loop: remaining <= 0 ends the poll without another claim.
LoopHead(p) ==
  /\ stage[p] = "loop"
  /\ \/ late[p] /\ Return(p)
     \/ ~late[p] /\ Goto(p, "wait")
  /\ UNCHANGED <<row, unsent>>

\* The deadline is set once, after LISTEN.
DeadlinePasses(p) ==
  /\ Listening(p) /\ ~late[p]
  /\ late' = [late EXCEPT ![p] = TRUE]
  /\ UNCHANGED <<row, unsent, stage, mailbox, held, told>>

\* Mutant: every payload wakes the poll out of its wait, also another agent's,
\* and the ones that are queued behind it are dropped.
NotifiedDropping(p, a) ==
  /\ stage[p] = "wait" /\ a \in mailbox[p]
  /\ mailbox' = [mailbox EXCEPT ![p] = {}]
  /\ stage' = [stage EXCEPT ![p] = IF a = For[p] THEN "wake" ELSE "loop"]
  /\ UNCHANGED <<row, unsent, late, held, told>>

Notified(p, a) ==
  /\ stage[p] = "wait" /\ a \in mailbox[p]
  /\ mailbox' = [mailbox EXCEPT ![p] = @ \ {a}]
  /\ stage' = [stage EXCEPT ![p] = IF a = For[p] THEN "wake" ELSE "loop"]
  /\ UNCHANGED <<row, unsent, late, held, told>>

\* WaitForNotification's context ends.
TimedOut(p) ==
  /\ stage[p] = "wait" /\ late[p]
  /\ Goto(p, "last")
  /\ UNCHANGED <<row, unsent>>

\* A statement fails, or the runner goes away and its request's context ends:
\* every wait of the poll, for a connection too, gives up.
PollFails(p) ==
  /\ stage[p] # "idle"
  /\ Return(p)
  /\ UNCHANGED <<row, unsent>>

-------------------------------------------------------------------------------
Advance(p) ==
  \/ FirstClaim(p) \/ Acquire(p) \/ Listen(p) \/ LoopHead(p)
  \/ (\E a \in Agents : Notified(p, a))
  \/ TimedOut(p) \/ WakeClaim(p) \/ LastClaim(p)

PollNext ==
  \/ \E t \in Tasks : InsertTask(t)
  \/ \E t \in Tasks : NotifyAgent(t)
  \/ \E t \in Tasks : NotifyLost(t)
  \/ \E t \in Tasks, notify \in BOOLEAN : ReturnRow(t, notify)
  \/ \E t \in Tasks : RetryDelayPasses(t)
  \/ \E p \in Polls : BeginPoll(p)
  \/ \E p \in Polls : Advance(p)
  \/ \E p \in Polls : DeadlinePasses(p)
  \/ \E p \in Polls : PollFails(p)

PollSpec == PollInit /\ [][PollNext]_longPollVars

(* A runner polls again and again (runPollLoop) and a poll goes on by itself;  *)
(* the pool hands out connections in the order they were asked for,            *)
(* so a statement that finds one free again and again gets one: strong         *)
(* fairness.  No row need be inserted or returned, no poll need fail.          *)
PollFairness ==
  \A p \in Polls :
    /\ WF_longPollVars(BeginPoll(p))
    /\ WF_longPollVars(DeadlinePasses(p))
    /\ SF_longPollVars(Advance(p))

PollFairSpec == PollSpec /\ PollFairness

-------------------------------------------------------------------------------
(* A connection is out of the pool exactly while one poll is between its       *)
(* Acquire and its Release, whichever of the seven ways out it takes.          *)
ConnsConserved == held = Cardinality({p \in Polls : HasConn(p)})

(* A poll that was told of a row does not sleep while the row can be claimed:  *)
(* the notification is still unread, or the poll is on its way to the claim.   *)
(* Reading a foreign agent's payload, a spurious wake-up, or a row that is     *)
(* returned meanwhile must not swallow it.                                     *)
ToldPollWakes ==
  \A p \in Polls, t \in Tasks :
    stage[p] \in {"loop", "wait"} /\ p \in told[t] /\ t \in Claimable(p) =>
      For[p] \in mailbox[p]

(* Both, of every poll there is.                                               *)
PollsSound == PollTypeOK /\ ConnsConserved /\ ToldPollWakes

(* Every poll comes back, with a task or without one, as long as the pool has  *)
(* a connection more than there are polls.                                     *)
PollReturns == \A p \in Polls : stage[p] # "idle" ~> stage[p] = "idle"

(* A claimable row whose agent is polled for is claimed in the end, although   *)
(* NOTIFYs get lost and the retry of a nacked row is announced by none: the    *)
(* deadline of the polls bounds how late a row is found.                       *)
TaskDelivered ==
  \A t \in Tasks : (\E p \in Polls : For[p] = AgentOf[t]) =>
    (row[t] = "claimable" ~> row[t] = "claimed")
===============================================================================
