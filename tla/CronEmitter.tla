------------------------------- MODULE CronEmitter -------------------------------
(***************************************************************************)
(* Scheduled prompts: services/hub/internal/cron/emitter.go with the loop  *)
(* that keeps its entries in step with the database (cmd/hub/sync.go).     *)
(*                                                                         *)
(* A schedule is reduced to its slots, one per unit of time, so that       *)
(* schedule.Next(s) is s + 1.  The emitter collects pointers to the due    *)
(* entries under its lock and publishes them without it; meanwhile the     *)
(* sync replaces entries.  Publishing is a sequence of statements that     *)
(* each may fail, and the hub may die between two of them.                 *)
(***************************************************************************)
EXTENDS Naturals, Sequences, FiniteSets

CONSTANTS
  Triggers,    \* cron trigger ids
  NoTrigger,
  MaxTime,     \* bound: the slots
  MaxEdits,    \* bound: changes users make to the rows
  MaxFaults,   \* bound: statements that fail
  MaxCrashes   \* bound: hub restarts

ASSUME CronAssumption ==
  /\ NoTrigger \notin Triggers
  /\ {MaxTime, MaxEdits, MaxFaults, MaxCrashes} \subseteq Nat

VARIABLES
  row,      \* row[t]: the trigger in the database: "on", "off" or "gone"
  entry,    \* entry[t]: the emitter's entry
  listed,   \* the rows the sync has listed and not yet applied
  emitter,  \* where the emitter's goroutine stands
  runs,     \* one record per fire: its event, task and invocation
  clock,
  edits, faults, crashes

\* History, read by properties only.
VARIABLE
  born      \* born[t]: lastFired the entry started with

bounds  == <<edits, faults, crashes>>
vars == <<row, entry, listed, emitter, runs, clock, bounds, born>>

NoEntry == [known |-> FALSE, enabled |-> FALSE, last |-> 0]
Waiting == [pc |-> "waiting", due |-> {}, trigger |-> NoTrigger, slot |-> 0]

Time == 0..MaxTime
Run == [trigger: Triggers, slot: 1..MaxTime,
        event: {"none", "unrouted", "routed"}, task: BOOLEAN,
        invocation: {"missing", "running", "failure"},
        deaf: BOOLEAN, mute: BOOLEAN, cut: BOOLEAN]  \* history: how it went wrong

TypeOK ==
  /\ row \in [Triggers -> {"on", "off", "gone"}]
  /\ entry \in [Triggers -> [known: BOOLEAN, enabled: BOOLEAN, last: Time]]
  /\ \A t \in Triggers : entry[t].known \/ entry[t] = NoEntry
  /\ DOMAIN listed \subseteq Triggers
  /\ \A t \in DOMAIN listed : listed[t] \in {"on", "off", "gone"}
  /\ emitter \in [pc: {"waiting", "due", "insert", "mark", "enqueue", "notify",
                       "transfer", "advance", "failed"},
                  due: SUBSET (Triggers \X Time),
                  trigger: Triggers \union {NoTrigger}, slot: Time]
  /\ runs \in Seq(Run)
  /\ clock \in Time
  /\ edits \in 0..MaxEdits /\ faults \in 0..MaxFaults /\ crashes \in 0..MaxCrashes
  /\ born \in [Triggers -> Time]

Nothing == [t \in {} |-> "gone"]

Init ==
  /\ row = [t \in Triggers |-> "on"]
  /\ entry = [t \in Triggers |-> NoEntry]
  /\ listed = Nothing
  /\ emitter = Waiting
  /\ runs = <<>>
  /\ clock = 0
  /\ edits = 0 /\ faults = 0 /\ crashes = 0
  /\ born = [t \in Triggers |-> 0]

-------------------------------------------------------------------------------
(* The rows and the sync                                                       *)

TimePasses ==
  /\ clock < MaxTime
  /\ clock' = clock + 1
  /\ UNCHANGED <<row, entry, listed, emitter, runs, bounds, born>>

\* A user toggles or deletes the trigger.
EditRow(t, to) ==
  /\ edits < MaxEdits
  /\ row[t] # "gone" /\ to # row[t]
  /\ edits' = edits + 1
  /\ row' = [row EXCEPT ![t] = to]
  /\ UNCHANGED <<entry, listed, emitter, runs, clock, faults, crashes, born>>

\* ListCronTriggers; a failed listing changes nothing and is not a step.
ListRows ==
  /\ DOMAIN listed = {}
  /\ listed' = row
  /\ UNCHANGED <<row, entry, emitter, runs, clock, bounds, born>>

Applied(t) == listed' = [u \in DOMAIN listed \ {t} |-> listed[u]]

\* Mutant: a replaced entry starts afresh.
LastFiredNow(t) == clock
LastFired(t) == IF entry[t].known THEN entry[t].last ELSE clock

Upsert(t) ==
  /\ t \in DOMAIN listed /\ listed[t] # "gone"
  /\ entry' = [entry EXCEPT ![t] =
       [known |-> TRUE, enabled |-> listed[t] = "on", last |-> LastFired(t)]]
  /\ born' = [born EXCEPT ![t] = IF entry[t].known THEN @ ELSE clock]
  /\ Applied(t)
  /\ UNCHANGED <<row, emitter, runs, clock, bounds>>

Delete(t) ==
  /\ t \in DOMAIN listed /\ listed[t] = "gone"
  /\ entry' = [entry EXCEPT ![t] = NoEntry]
  /\ Applied(t)
  /\ UNCHANGED <<row, emitter, runs, clock, bounds, born>>

-------------------------------------------------------------------------------
(* The emitter                                                                 *)

Due == {<<t, entry[t].last>> : t \in
          {t \in Triggers : entry[t].enabled /\ entry[t].last + 1 <= clock}}

\* tick: collect the due entries under the lock.
Tick ==
  /\ emitter.pc = "waiting"
  /\ Due # {}
  /\ emitter' = [emitter EXCEPT !.pc = "due", !.due = Due]
  /\ UNCHANGED <<row, entry, listed, runs, clock, bounds, born>>

NextDue(rest) ==
  emitter' = [Waiting EXCEPT !.pc = IF rest = {} THEN "waiting" ELSE "due", !.due = rest]

StatementFails == faults < MaxFaults /\ faults' = faults + 1

NewRun(t, slot, invocation) ==
  [trigger |-> t, slot |-> slot, event |-> "none", task |-> FALSE, invocation |-> invocation,
   deaf |-> FALSE, mute |-> FALSE, cut |-> FALSE]

\* fireEntry: a new event id, and the invocation is recorded; when its INSERT
\* fails that is logged, and its id is used all the same.
BeginFire(t, last) ==
  /\ emitter.pc = "due" /\ <<t, last>> \in emitter.due
  /\ emitter' = [pc |-> "insert", due |-> emitter.due \ {<<t, last>>},
                 trigger |-> t, slot |-> last + 1]
  /\ \/ runs' = Append(runs, NewRun(t, last + 1, "running")) /\ UNCHANGED faults
     \/ runs' = Append(runs, NewRun(t, last + 1, "missing")) /\ StatementFails
  /\ UNCHANGED <<row, entry, listed, clock, edits, crashes, born>>

\* One statement of publish: it succeeds and the next is due, or it fails.
Statement(pc, next, effect) ==
  /\ emitter.pc = pc
  /\ \/ /\ runs' = [runs EXCEPT ![Len(runs)] = effect]
        /\ emitter' = [emitter EXCEPT !.pc = next]
        /\ UNCHANGED faults
     \/ /\ StatementFails
        /\ emitter' = [emitter EXCEPT !.pc = "failed"]
        /\ runs' = [runs EXCEPT ![Len(runs)].deaf = @ \/ pc = "notify"]
  /\ UNCHANGED <<row, entry, listed, clock, edits, crashes, born>>

current == runs[Len(runs)]

InsertEvent == Statement("insert", "mark", [current EXCEPT !.event = "unrouted"])
MarkRouted  == Statement("mark", "enqueue", [current EXCEPT !.event = "routed"])
EnqueueTask == Statement("enqueue", "notify", [current EXCEPT !.task = TRUE])
NotifyAgent == Statement("notify", "transfer", current)

\* A failed transfer is only logged; what it moves is EventRouter's WalkBridges.
TransferFromInbox ==
  /\ emitter.pc = "transfer"
  /\ emitter' = [emitter EXCEPT !.pc = "advance"]
  /\ UNCHANGED <<row, entry, listed, runs, clock, bounds, born>>

\* Mutant: lastFired is set on the entry that was collected, which the sync may
\* have replaced since.
AdvanceCollected ==
  LET t == emitter.trigger IN
  /\ emitter.pc = "advance"
  /\ entry' = IF entry[t].known /\ DOMAIN listed = {}
                THEN [entry EXCEPT ![t].last = emitter.slot] ELSE entry
  /\ NextDue(emitter.due)
  /\ UNCHANGED <<row, listed, runs, clock, bounds, born>>

\* Mutant: the lookup's second result is ignored.
AdvanceBlindly ==
  /\ emitter.pc = "advance"
  /\ entry' = [entry EXCEPT ![emitter.trigger].last = emitter.slot]
  /\ NextDue(emitter.due)
  /\ UNCHANGED <<row, listed, runs, clock, bounds, born>>

\* lastFired is set on the entry the map holds by now.
Advance ==
  LET t == emitter.trigger IN
  /\ emitter.pc = "advance"
  /\ entry' = IF entry[t].known THEN [entry EXCEPT ![t].last = emitter.slot] ELSE entry
  /\ NextDue(emitter.due)
  /\ UNCHANGED <<row, listed, runs, clock, bounds, born>>

\* Mutant: a failed fire counts as fired.
GiveUpSlot ==
  LET t == emitter.trigger IN
  /\ emitter.pc = "failed"
  /\ runs' = [runs EXCEPT ![Len(runs)].invocation = "failure"]
  /\ entry' = IF entry[t].known THEN [entry EXCEPT ![t].last = emitter.slot] ELSE entry
  /\ NextDue(emitter.due)
  /\ UNCHANGED <<row, listed, clock, bounds, born>>

\* Mutant: the invocation of a failed fire is left alone.
FailSilently ==
  /\ emitter.pc = "failed"
  /\ NextDue(emitter.due)
  /\ UNCHANGED <<row, entry, listed, runs, clock, bounds, born>>

\* The invocation fails, where it has a row and the UPDATE does not fail too, and
\* lastFired stays: the next tick fires the slot again.
FailFire ==
  /\ emitter.pc = "failed"
  /\ \/ /\ runs' = [runs EXCEPT ![Len(runs)].invocation = IF @ = "missing" THEN @ ELSE "failure"]
        /\ UNCHANGED faults
     \/ /\ runs' = [runs EXCEPT ![Len(runs)].mute = TRUE]
        /\ StatementFails
  /\ NextDue(emitter.due)
  /\ UNCHANGED <<row, entry, listed, clock, edits, crashes, born>>

\* The router finds an event between InsertEvent and MarkRouted, or one whose
\* MarkRouted failed, and transfers it out of the inbox it was born in.
RouterTakes(i) ==
  /\ runs[i].event = "unrouted"
  /\ runs' = [runs EXCEPT ![i].event = "routed"]
  /\ UNCHANGED <<row, entry, listed, emitter, clock, bounds, born>>

\* The entries are only in memory: after a restart lastFired is the time of the
\* first sync.
Restart ==
  /\ crashes < MaxCrashes
  /\ crashes' = crashes + 1
  /\ entry' = [t \in Triggers |-> NoEntry]
  /\ listed' = Nothing
  /\ emitter' = Waiting
  /\ runs' = IF emitter.pc \in {"waiting", "due", "advance"} THEN runs
                ELSE [runs EXCEPT ![Len(runs)].cut = TRUE]
  /\ UNCHANGED <<row, clock, edits, faults, born>>

-------------------------------------------------------------------------------
Emit ==
  \/ Tick
  \/ \E t \in Triggers, last \in Time : BeginFire(t, last)
  \/ InsertEvent \/ MarkRouted \/ EnqueueTask \/ NotifyAgent
  \/ TransferFromInbox \/ Advance \/ FailFire

Sync == ListRows \/ \E t \in Triggers : Upsert(t) \/ Delete(t)

Next ==
  \/ TimePasses
  \/ \E t \in Triggers, to \in {"on", "off", "gone"} : EditRow(t, to)
  \/ Sync
  \/ Emit
  \/ \E i \in DOMAIN runs : RouterTakes(i)
  \/ Restart

Spec == Init /\ [][Next]_vars

(* Fairness: both tickers and the statements between them.  Nobody need edit a *)
(* row, and the hub need not fail.                                             *)
FairSpec == Spec /\ WF_vars(Emit) /\ WF_vars(Sync)

-------------------------------------------------------------------------------
Fired(t, s) == {i \in DOMAIN runs : runs[i].trigger = t /\ runs[i].slot = s /\ runs[i].task}

(* A slot gives the agent one task, however often its fire is retried and      *)
(* whatever the sync does to the entry meanwhile; a second one takes an insert *)
(* whose NOTIFY failed, which the emitter takes for a failed insert.           *)
SlotRunsOnce ==
  \A t \in Triggers, s \in 1..MaxTime :
    Cardinality({i \in Fired(t, s) : ~runs[i].deaf}) <= 1

(* No slot is passed over: all that came since the entry was created and up to *)
(* lastFired have run, also when fires failed, users toggled the trigger or    *)
(* the sync replaced the entry between a fire and its bookkeeping.             *)
NoSlotSkipped ==
  \A t \in Triggers : entry[t].known =>
    \A s \in born[t] + 1 .. entry[t].last : Fired(t, s) # {}

\* What the row of a fire says once that is over, if its INSERT went through.
Told(run) ==
  run.invocation # "missing" =>
    (run.invocation = "failure" <=> (~run.task \/ run.deaf) /\ ~run.cut /\ ~run.mute)

(* A fire that is over tells the truth about itself: where its invocation has  *)
(* a row, that row failed exactly when the emitter took the fire for failed,   *)
(* which with a task takes a failed NOTIFY, and could still write so: neither  *)
(* has the hub died in the middle nor has the UPDATE failed as well.           *)
InvocationTells ==
  \A i \in DOMAIN runs :
    i # Len(runs) \/ emitter.pc \in {"waiting", "due"} => Told(runs[i])

(* All three, of every slot and fire.                                          *)
SlotsSound == TypeOK /\ SlotRunsOnce /\ NoSlotSkipped /\ InvocationTells

(* A slot whose time has come does not stay without its run: unless the        *)
(* trigger is toggled or deleted, or the hub restarts, it has one in the end.  *)
SlotIsRun ==
  \A t \in Triggers, s \in 1..MaxTime :
    []<>(entry[t].enabled /\ clock >= s /\ born[t] < s => Fired(t, s) # {})
===============================================================================
