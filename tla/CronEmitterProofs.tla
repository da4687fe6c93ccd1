---------------------------- MODULE CronEmitterProofs ----------------------------
(***************************************************************************)
(* What the hub's loops carry, for every set of triggers and skills and    *)
(* any number of slots, requests, failures and restarts: CronEmitter       *)
(* first, then TriggerDesk and SkillsDelivery.                             *)
(*                                                                         *)
(* The emitter works on what it collected, while the sync may have         *)
(* replaced the entry since.  The argument is about the slots it has still *)
(* to settle: each lies past all that its trigger has run, and the entry   *)
(* is either the one it was collected from or younger than the slot.       *)
(***************************************************************************)
EXTENDS MCLoops, FiniteSetTheorems, TLAPS

Busy == emitter.pc \notin {"waiting", "due"}
InWork(i) == Busy /\ i = Len(runs)

\* The run has given the agent a task that nobody takes for a failed one.
Counts(i) == runs[i].task /\ ~runs[i].deaf

Pending(t, l) ==
  <<t, l>> \in emitter.due \/ (Busy /\ emitter.trigger = t /\ emitter.slot = l + 1)

\* Where the emitter stands tells how far its run has come.
Working == Busy =>
  /\ Len(runs) # 0 /\ emitter.trigger \in Triggers /\ emitter.slot # 0
  /\ current.trigger = emitter.trigger /\ current.slot = emitter.slot
  /\ ~current.cut /\ ~current.mute /\ current.invocation # "failure"
  /\ emitter.pc \in {"insert", "mark", "enqueue"} => ~current.task /\ ~current.deaf
  /\ emitter.pc \in {"notify", "transfer", "advance"} => current.task /\ ~current.deaf
  /\ emitter.pc = "failed" => (current.task <=> current.deaf)
  /\ \A l \in Time : <<emitter.trigger, l>> \notin emitter.due

PendingAt(t, l) == Pending(t, l) =>
  /\ l + 1 <= clock
  /\ entry[t].known => entry[t].last = l \/ born[t] > l
  /\ \A i \in DOMAIN runs :
       runs[i].trigger = t /\ Counts(i) /\ ~InWork(i) => runs[i].slot <= l
  /\ \A k \in Time : Pending(t, k) => k = l

Waits == \A t \in Triggers, l \in Time : PendingAt(t, l)

\* What has run lies behind: in the past, and up to lastFired.
Behind == \A i \in DOMAIN runs :
  /\ runs[i].slot <= clock
  /\ Counts(i) /\ ~InWork(i) /\ entry[runs[i].trigger].known =>
       runs[i].slot <= entry[runs[i].trigger].last

RunsOnce == \A i, j \in DOMAIN runs :
  Counts(i) /\ Counts(j) /\ runs[i].trigger = runs[j].trigger /\ runs[i].slot = runs[j].slot
    => i = j

CronInv ==
  TypeOK /\ Working /\ Waits /\ Behind /\ RunsOnce /\ NoSlotSkipped /\ InvocationTells

-------------------------------------------------------------------------------
(* Types                                                                       *)

LEMMA Facts ==
  ASSUME TypeOK
  PROVE  /\ \A t \in Triggers : entry[t].last \in Nat /\ entry[t].last <= MaxTime
         /\ \A t \in Triggers : entry[t].enabled => entry[t].known
         /\ \A t \in Triggers : born[t] \in Nat
         /\ clock \in Nat /\ clock <= MaxTime /\ MaxTime \in Nat
         /\ Len(runs) \in Nat /\ DOMAIN runs = 1..Len(runs)
         /\ \A i \in DOMAIN runs :
              runs[i] \in Run /\ runs[i].slot \in Nat /\ runs[i].trigger \in Triggers
         /\ emitter.slot \in Nat /\ emitter.due \subseteq Triggers \X Time
<1>1. MaxTime \in Nat
  BY CronAssumption
<1>2. \A t \in Triggers : entry[t].last \in 0..MaxTime /\ born[t] \in 0..MaxTime
  BY DEF TypeOK, Time
<1>3. \A t \in Triggers : entry[t].enabled => entry[t].known
  BY DEF TypeOK, NoEntry
<1>4. clock \in 0..MaxTime /\ emitter.slot \in 0..MaxTime /\ emitter.due \subseteq Triggers \X Time
  BY DEF TypeOK, Time
<1>5. Len(runs) \in Nat /\ DOMAIN runs = 1..Len(runs) /\ \A i \in DOMAIN runs : runs[i] \in Run
  BY DEF TypeOK
<1>6. \A i \in DOMAIN runs : runs[i].slot \in Nat /\ runs[i].trigger \in Triggers
  BY <1>1, <1>5 DEF Run
<1> QED
  BY <1>1, <1>2, <1>3, <1>4, <1>5, <1>6

LEMMA RunUpdated ==
  ASSUME TypeOK, NEW i \in DOMAIN runs, NEW x \in Run, runs' = [runs EXCEPT ![i] = x]
  PROVE  /\ runs' \in Seq(Run) /\ Len(runs') = Len(runs) /\ DOMAIN runs' = DOMAIN runs
         /\ runs'[i] = x /\ \A j \in DOMAIN runs : j # i => runs'[j] = runs[j]
  BY DEF TypeOK

\* What statements write to the record of a fire.
LEMMA RunChanged ==
  ASSUME NEW x \in Run, NEW b \in BOOLEAN
  PROVE  /\ [x EXCEPT !.event = "unrouted"] \in Run /\ [x EXCEPT !.event = "routed"] \in Run
         /\ [x EXCEPT !.task = TRUE] \in Run /\ [x EXCEPT !.deaf = b] \in Run
         /\ [x EXCEPT !.invocation = "failure"] \in Run /\ [x EXCEPT !.cut = TRUE] \in Run
         /\ [x EXCEPT !.mute = TRUE] \in Run
  BY DEF Run

LEMMA FaultsCounted ==
  ASSUME TypeOK, StatementFails
  PROVE  faults' \in 0..MaxFaults
<1>1. faults \in 0..MaxFaults /\ MaxFaults \in Nat /\ faults < MaxFaults /\ faults' = faults + 1
  BY CronAssumption DEF TypeOK, StatementFails
<1> QED
  BY ONLY <1>1

LEMMA SlotBefore ==
  ASSUME TypeOK, emitter.slot # 0
  PROVE  \E l \in Time : emitter.slot = l + 1
<1>1. emitter.slot \in 0..MaxTime /\ MaxTime \in Nat
  BY CronAssumption DEF TypeOK, Time
<1>2. emitter.slot - 1 \in 0..MaxTime /\ emitter.slot = (emitter.slot - 1) + 1
  BY <1>1
<1> QED
  BY <1>2 DEF Time

\* The emitter's state after the fire of an entry, and between two.
LEMMA NextDueState ==
  ASSUME TypeOK, NEW rest, rest \subseteq emitter.due, NextDue(rest)
  PROVE  /\ emitter' \in [pc: {"waiting", "due"}, due: SUBSET (Triggers \X Time),
                          trigger: Triggers \union {NoTrigger}, slot: Time]
         /\ emitter'.due = rest /\ ~Busy'
<1>1. rest \in SUBSET (Triggers \X Time)
  BY Facts
<1>2. 0 \in Time
  BY CronAssumption DEF Time
<1> QED
  BY <1>1, <1>2 DEF NextDue, Waiting, Busy

-------------------------------------------------------------------------------
(* The run at work moves on: its statement, if it wrote at all, wrote to that  *)
(* run and to nothing else.                                                    *)
LEMMA WorkGoesOn ==
  ASSUME CronInv, Busy, Busy', NEW n \in DOMAIN runs, n = Len(runs), n = Len(runs'),
         DOMAIN runs' = DOMAIN runs,
         \A i \in DOMAIN runs : i # n => runs'[i] = runs[i],
         runs'[n].trigger = runs[n].trigger, runs'[n].slot = runs[n].slot,
         runs[n].task => runs'[n].task,
         emitter'.due = emitter.due, emitter'.trigger = emitter.trigger,
         emitter'.slot = emitter.slot,
         UNCHANGED <<entry, clock, born>>
  PROVE  Waits' /\ Behind' /\ RunsOnce' /\ NoSlotSkipped' /\ InvocationTells'
<1>0. TypeOK /\ Working /\ Waits /\ Behind /\ RunsOnce /\ NoSlotSkipped /\ InvocationTells
  BY DEF CronInv
<1>1. runs[n].trigger = emitter.trigger /\ runs[n].slot = emitter.slot
      /\ emitter.trigger \in Triggers /\ emitter.slot # 0
  BY <1>0 DEF Working, current
<1>2. DOMAIN runs' = DOMAIN runs /\ \A j \in DOMAIN runs : j # n => runs'[j] = runs[j]
  OBVIOUS
<1>3. \A i \in DOMAIN runs : i # n => ~InWork(i) /\ (Counts(i)' => Counts(i))
  BY DEF InWork, Counts
<1>4. InWork(n)'
  BY DEF InWork
<1>5. \A i \in DOMAIN runs : /\ runs'[i].trigger = runs[i].trigger
                            /\ runs'[i].slot = runs[i].slot
                            /\ runs[i].task => runs'[i].task
  OBVIOUS
<1>6. \A t, l : Pending(t, l)' <=> Pending(t, l)
  BY DEF Pending
<1>7. Waits'
  <2> SUFFICES ASSUME NEW t \in Triggers, NEW l \in Time PROVE PendingAt(t, l)'
    BY DEF Waits
  <2> SUFFICES ASSUME Pending(t, l)' PROVE PendingAt(t, l)'
    BY DEF PendingAt
  <2>1. PendingAt(t, l) /\ Pending(t, l)
    BY <1>0, <1>6 DEF Waits
  <2>2. ASSUME NEW i \in DOMAIN runs, runs'[i].trigger = t, Counts(i)', ~InWork(i)'
        PROVE  runs'[i].slot <= l
    BY <1>3, <1>4, <1>5, <2>1, <2>2 DEF PendingAt
  <2>3. \A k \in Time : Pending(t, k)' => k = l
    BY <1>6, <2>1 DEF PendingAt
  <2> QED
    BY <1>2, <2>1, <2>2, <2>3 DEF PendingAt
<1>8. Behind'
  <2> SUFFICES ASSUME NEW i \in DOMAIN runs
               PROVE  /\ runs'[i].slot <= clock
                      /\ Counts(i)' /\ ~InWork(i)' /\ entry[runs'[i].trigger].known =>
                           runs'[i].slot <= entry[runs'[i].trigger].last
    BY <1>2 DEF Behind
  <2> QED
    BY <1>0, <1>3, <1>4, <1>5 DEF Behind
<1>9. RunsOnce'
  <2>1. ASSUME NEW j \in DOMAIN runs, j # n, Counts(j), runs[j].trigger = runs[n].trigger,
               runs[j].slot = runs[n].slot
        PROVE  FALSE
    <3>1. PICK l \in Time : emitter.slot = l + 1
      BY <1>0, <1>1, SlotBefore
    <3>2. Pending(emitter.trigger, l)
      BY <3>1 DEF Pending
    <3>3. PendingAt(emitter.trigger, l)
      BY <1>0, <1>1 DEF Waits
    <3>4. runs[j].slot <= l
      BY <1>1, <1>3, <2>1, <3>2, <3>3 DEF PendingAt
    <3>5. l \in Nat /\ runs[j].slot = l + 1
      BY <1>1, <2>1, <3>1, CronAssumption DEF Time
    <3> QED
      BY ONLY <3>4, <3>5
  <2>2. ASSUME NEW i \in DOMAIN runs, NEW j \in DOMAIN runs, Counts(i)', Counts(j)',
               runs[i].trigger = runs[j].trigger, runs[i].slot = runs[j].slot
        PROVE  i = j
    <3>1. CASE i = n \/ j = n
      <4>1. i # n => Counts(i)
        BY <1>3, <2>2
      <4>2. j # n => Counts(j)
        BY <1>3, <2>2
      <4> QED
        BY <2>1, <2>2, <3>1, <4>1, <4>2
    <3>2. CASE i # n /\ j # n
      <4>1. Counts(i) /\ Counts(j)
        BY <1>3, <2>2, <3>2
      <4> QED
        BY <1>0, <2>2, <4>1 DEF RunsOnce
    <3> QED
      BY <3>1, <3>2
  <2> SUFFICES ASSUME NEW i \in DOMAIN runs, NEW j \in DOMAIN runs, Counts(i)', Counts(j)',
                      runs'[i].trigger = runs'[j].trigger, runs'[i].slot = runs'[j].slot
               PROVE  i = j
    BY <1>2 DEF RunsOnce
  <2> QED
    BY <1>5, <2>2
<1>10. NoSlotSkipped'
  <2> SUFFICES ASSUME NEW t \in Triggers, entry[t].known,
                      NEW s \in born[t] + 1 .. entry[t].last
               PROVE  Fired(t, s)' # {}
    BY DEF NoSlotSkipped
  <2>1. PICK i \in Fired(t, s) : TRUE
    BY <1>0 DEF NoSlotSkipped
  <2>2. i \in DOMAIN runs /\ runs[i].trigger = t /\ runs[i].slot = s /\ runs[i].task
    BY <2>1 DEF Fired
  <2>3. i \in DOMAIN runs' /\ runs'[i].trigger = t /\ runs'[i].slot = s /\ runs'[i].task
    BY <1>2, <1>5, <2>2
  <2> QED
    BY <2>3 DEF Fired
<1>11. InvocationTells'
  <2>1. emitter'.pc \notin {"waiting", "due"} /\ \A i \in DOMAIN runs : i # n => runs'[i] = runs[i]
    BY <1>2 DEF Busy
  <2> QED
    BY <1>0, <2>1 DEF InvocationTells
<1> QED
  BY <1>7, <1>8, <1>9, <1>10, <1>11

\* The same without the records: what a statement has to show.
LEMMA StatementKeeps ==
  ASSUME CronInv, NEW n \in DOMAIN runs, n = Len(runs), Busy, NEW x \in Run,
         runs' = [runs EXCEPT ![n] = x], NEW to, emitter' = [emitter EXCEPT !.pc = to],
         to \in {"insert", "mark", "enqueue", "notify", "transfer", "advance", "failed"},
         x.trigger = runs[n].trigger, x.slot = runs[n].slot, runs[n].task => x.task,
         ~x.cut, ~x.mute, x.invocation # "failure",
         to \in {"insert", "mark", "enqueue"} => ~x.task /\ ~x.deaf,
         to \in {"notify", "transfer", "advance"} => x.task /\ ~x.deaf,
         to = "failed" => (x.task <=> x.deaf),
         faults' \in 0..MaxFaults,
         UNCHANGED <<row, entry, listed, clock, edits, crashes, born>>
  PROVE  CronInv'
<1>0. TypeOK /\ Working
  BY DEF CronInv
<1>1. /\ runs' \in Seq(Run) /\ Len(runs') = Len(runs) /\ DOMAIN runs' = DOMAIN runs
      /\ runs'[n] = x /\ \A j \in DOMAIN runs : j # n => runs'[j] = runs[j]
  BY <1>0, RunUpdated
<1>2. /\ emitter'.due = emitter.due /\ emitter'.trigger = emitter.trigger
      /\ emitter'.slot = emitter.slot /\ emitter'.pc = to
  BY <1>0 DEF TypeOK
<1>3. Busy'
  BY <1>2 DEF Busy
<1>4. TypeOK'
  <2>1. emitter' \in [pc: {"waiting", "due", "insert", "mark", "enqueue", "notify",
                          "transfer", "advance", "failed"},
                     due: SUBSET (Triggers \X Time),
                     trigger: Triggers \union {NoTrigger}, slot: Time]
    BY <1>0 DEF TypeOK
  <2> QED
    BY <1>0, <1>1, <2>1 DEF TypeOK
<1>5. Working'
  <2>1. runs[n].trigger = emitter.trigger /\ runs[n].slot = emitter.slot
        /\ emitter.trigger \in Triggers /\ emitter.slot # 0 /\ Len(runs) # 0
        /\ \A l \in Time : <<emitter.trigger, l>> \notin emitter.due
    BY <1>0 DEF Working, current
  <2>2. current' = x
    BY <1>1 DEF current
  <2> QED
    BY <1>1, <1>2, <2>1, <2>2 DEF Working
<1>6. Waits' /\ Behind' /\ RunsOnce' /\ NoSlotSkipped' /\ InvocationTells'
  <2>1. /\ n = Len(runs') /\ runs'[n].trigger = runs[n].trigger
        /\ runs'[n].slot = runs[n].slot /\ (runs[n].task => runs'[n].task)
    BY <1>1
  <2> QED
    BY <1>1, <1>2, <1>3, <2>1, WorkGoesOn
<1> QED
  BY <1>4, <1>5, <1>6 DEF CronInv

\* One statement of publish, of which the effect is given.
LEMMA PublishKeeps ==
  ASSUME CronInv, NEW pc, NEW next, NEW effect \in Run, Statement(pc, next, effect),
         pc \in {"insert", "mark", "enqueue", "notify"},
         next \in {"mark", "enqueue", "notify", "transfer"},
         effect.trigger = current.trigger, effect.slot = current.slot,
         effect.deaf = current.deaf, effect.cut = current.cut, effect.mute = current.mute,
         effect.invocation = current.invocation, current.task => effect.task,
         next \in {"notify", "transfer"} => effect.task,
         next \in {"mark", "enqueue"} => effect.task = current.task,
         pc = "notify" => next = "transfer", pc = "enqueue" => next = "notify",
         pc \in {"insert", "mark"} => next \in {"mark", "enqueue"}
  PROVE  CronInv'
<1>0. TypeOK /\ Working
  BY DEF CronInv
<1>1. emitter.pc = pc /\ Busy
  BY DEF Statement, Busy
<1>2. PICK n \in DOMAIN runs : n = Len(runs)
  BY <1>0, <1>1, Facts DEF Working
<1>3. /\ runs[n] \in Run /\ current = runs[n]
      /\ ~runs[n].cut /\ ~runs[n].mute /\ runs[n].invocation # "failure"
      /\ ~runs[n].deaf /\ (pc = "notify" => runs[n].task) /\ (pc # "notify" => ~runs[n].task)
  BY <1>0, <1>1, <1>2, Facts DEF Working, current
<1>4. UNCHANGED <<row, entry, listed, clock, edits, crashes, born>>
  BY DEF Statement
<1>5. CASE runs' = [runs EXCEPT ![n] = effect] /\ emitter' = [emitter EXCEPT !.pc = next]
           /\ UNCHANGED faults
  <2>1. faults' \in 0..MaxFaults
    BY <1>0, <1>5 DEF TypeOK
  <2>2. /\ effect.trigger = runs[n].trigger /\ effect.slot = runs[n].slot
        /\ (runs[n].task => effect.task) /\ ~effect.cut /\ ~effect.mute
        /\ effect.invocation # "failure"
        /\ ~effect.deaf
    BY <1>3
  <2>3. next \in {"mark", "enqueue"} => ~effect.task
    BY <1>3
  <2> QED
    BY <1>1, <1>2, <1>4, <1>5, <2>1, <2>2, <2>3, StatementKeeps
<1>6. CASE /\ StatementFails
           /\ emitter' = [emitter EXCEPT !.pc = "failed"]
           /\ runs' = [runs EXCEPT ![n].deaf = @ \/ pc = "notify"]
  <2> DEFINE b == runs[n].deaf \/ pc = "notify"
             x == [runs[n] EXCEPT !.deaf = b]
  <2>1. x \in Run
    BY <1>3, RunChanged
  <2>2. runs' = [runs EXCEPT ![n] = x]
    BY <1>6
  <2>3. /\ x.trigger = runs[n].trigger /\ x.slot = runs[n].slot /\ x.task = runs[n].task
        /\ x.cut = runs[n].cut /\ x.mute = runs[n].mute
        /\ x.invocation = runs[n].invocation /\ x.deaf = b
    BY <1>3 DEF Run
  <2>4. b <=> pc = "notify"
    BY <1>3
  <2> HIDE DEF b, x
  <2>5. x.task <=> x.deaf
    BY <1>3, <2>3, <2>4
  <2>6. faults' \in 0..MaxFaults
    BY <1>0, <1>6, FaultsCounted
  <2>7. ~x.cut /\ ~x.mute /\ x.invocation # "failure" /\ (runs[n].task => x.task)
    BY <1>3, <2>3
  <2> QED
    BY <1>1, <1>2, <1>4, <1>6, <2>1, <2>2, <2>3, <2>5, <2>6, <2>7, StatementKeeps
<1> QED
  BY <1>2, <1>5, <1>6 DEF Statement

LEMMA EmissionKeeps ==
  ASSUME CronInv, InsertEvent \/ MarkRouted \/ EnqueueTask \/ NotifyAgent \/ TransferFromInbox
  PROVE  CronInv'
<1>0. TypeOK /\ Working
  BY DEF CronInv
<1>1. Busy
  BY DEF InsertEvent, MarkRouted, EnqueueTask, NotifyAgent, TransferFromInbox, Statement, Busy
<1>2. PICK n \in DOMAIN runs : n = Len(runs)
  BY <1>0, <1>1, Facts DEF Working
<1>3. current \in Run /\ current = runs[n]
  BY <1>0, <1>2, Facts DEF current
<1>4. CASE InsertEvent
  <2> DEFINE x == [current EXCEPT !.event = "unrouted"]
  <2>1. x \in Run /\ Statement("insert", "mark", x)
    BY <1>3, <1>4, RunChanged DEF InsertEvent
  <2>2. /\ x.trigger = current.trigger /\ x.slot = current.slot /\ x.deaf = current.deaf
        /\ x.cut = current.cut /\ x.invocation = current.invocation /\ x.task = current.task
        /\ x.mute = current.mute
    BY <1>3 DEF Run
  <2> HIDE DEF x
  <2> QED
    BY <2>1, <2>2, PublishKeeps
<1>5. CASE MarkRouted
  <2> DEFINE x == [current EXCEPT !.event = "routed"]
  <2>1. x \in Run /\ Statement("mark", "enqueue", x)
    BY <1>3, <1>5, RunChanged DEF MarkRouted
  <2>2. /\ x.trigger = current.trigger /\ x.slot = current.slot /\ x.deaf = current.deaf
        /\ x.cut = current.cut /\ x.invocation = current.invocation /\ x.task = current.task
        /\ x.mute = current.mute
    BY <1>3 DEF Run
  <2> HIDE DEF x
  <2> QED
    BY <2>1, <2>2, PublishKeeps
<1>6. CASE EnqueueTask
  <2> DEFINE x == [current EXCEPT !.task = TRUE]
  <2>1. x \in Run /\ Statement("enqueue", "notify", x)
    BY <1>3, <1>6, RunChanged DEF EnqueueTask
  <2>2. /\ x.trigger = current.trigger /\ x.slot = current.slot /\ x.deaf = current.deaf
        /\ x.cut = current.cut /\ x.invocation = current.invocation /\ x.task /\ x.mute = current.mute
    BY <1>3 DEF Run
  <2> HIDE DEF x
  <2> QED
    BY <2>1, <2>2, PublishKeeps
<1>7. CASE NotifyAgent
  <2>1. emitter.pc = "notify" /\ Statement("notify", "transfer", current)
    BY <1>7 DEF NotifyAgent, Statement
  <2>2. current.task
    BY <1>0, <1>1, <2>1 DEF Working
  <2> QED
    BY <1>3, <2>1, <2>2, PublishKeeps
<1>8. CASE TransferFromInbox
  <2>1. /\ emitter.pc = "transfer" /\ emitter' = [emitter EXCEPT !.pc = "advance"]
        /\ UNCHANGED <<row, entry, listed, runs, clock, edits, faults, crashes, born>>
    BY <1>8 DEF TransferFromInbox, bounds
  <2>2. /\ runs[n].task /\ ~runs[n].deaf /\ ~runs[n].cut /\ ~runs[n].mute
        /\ runs[n].invocation # "failure"
    BY <1>0, <1>1, <1>3, <2>1 DEF Working
  <2>3. runs' = [runs EXCEPT ![n] = runs[n]]
    BY <1>0, <2>1 DEF TypeOK
  <2>4. faults' \in 0..MaxFaults
    BY <1>0, <2>1 DEF TypeOK
  <2> QED
    BY <1>1, <1>2, <1>3, <2>1, <2>2, <2>3, <2>4, StatementKeeps
<1> QED
  BY <1>4, <1>5, <1>6, <1>7, <1>8

-------------------------------------------------------------------------------
(* The end of a fire.                                                          *)

\* What is still to be fired was to be fired before, and is of other triggers.
LEMMA RestPending ==
  ASSUME CronInv, Busy, NextDue(emitter.due), NEW t \in Triggers, NEW l \in Time, Pending(t, l)'
  PROVE  /\ PendingAt(t, l) /\ Pending(t, l) /\ t # emitter.trigger
         /\ \A k : Pending(t, k)' => Pending(t, k)
<1>1. emitter'.due = emitter.due /\ ~Busy'
  BY NextDueState DEF CronInv
<1>2. <<t, l>> \in emitter.due
  BY <1>1 DEF Pending
<1>3. t # emitter.trigger
  BY <1>2 DEF CronInv, Working
<1>4. \A k : Pending(t, k)' => Pending(t, k)
  BY <1>1 DEF Pending
<1> QED
  BY <1>2, <1>3, <1>4 DEF CronInv, Waits, Pending

LEMMA AdvanceKeeps ==
  ASSUME CronInv, Advance
  PROVE  CronInv'
<1>0. TypeOK /\ Working /\ Waits /\ Behind /\ RunsOnce /\ NoSlotSkipped /\ InvocationTells
  BY DEF CronInv
<1>1. Busy /\ emitter.pc = "advance" /\ NextDue(emitter.due)
      /\ UNCHANGED <<row, listed, runs, clock, edits, faults, crashes, born>>
  BY DEF Advance, Busy, bounds
<1>2. PICK n \in DOMAIN runs : n = Len(runs)
  BY <1>0, <1>1, Facts DEF Working
<1>3. PICK t \in Triggers, slot \in Nat : t = emitter.trigger /\ slot = emitter.slot
  BY <1>0, <1>1, Facts DEF Working
<1>4. /\ runs[n].trigger = t /\ runs[n].slot = slot /\ runs[n].task /\ ~runs[n].deaf
      /\ runs[n].invocation # "failure"
  BY <1>0, <1>1, <1>2, <1>3 DEF Working, current
<1>5. PICK l \in Time : slot = l + 1 /\ l \in Nat
  <2>1. emitter.slot # 0
    BY <1>0, <1>1 DEF Working
  <2>2. Time \subseteq Nat
    BY DEF Time
  <2> QED
    BY <1>0, <1>3, <2>1, <2>2, SlotBefore
<1>6. PendingAt(t, l) /\ Pending(t, l)
  BY <1>0, <1>1, <1>3, <1>5 DEF Waits, Pending
<1>7. entry' = IF entry[t].known THEN [entry EXCEPT ![t].last = slot] ELSE entry
  BY <1>3 DEF Advance
<1>8. slot \in Time
  BY <1>0, <1>3 DEF TypeOK
<1>9. /\ entry' \in [Triggers -> [known: BOOLEAN, enabled: BOOLEAN, last: Time]]
      /\ \A u \in Triggers : u # t => entry'[u] = entry[u]
      /\ entry'[t].known => entry[t].known /\ entry'[t].last = slot
      /\ ~entry[t].known => entry'[t] = entry[t]
      /\ entry[t].known => entry'[t].known
  <2>1. entry \in [Triggers -> [known: BOOLEAN, enabled: BOOLEAN, last: Time]]
    BY <1>0 DEF TypeOK
  <2>2. CASE entry[t].known
    BY ONLY <1>7, <1>8, <2>1, <2>2, t \in Triggers
  <2>3. CASE ~entry[t].known
    BY ONLY <1>7, <2>1, <2>3, t \in Triggers
  <2> QED
    BY <2>2, <2>3
<1>10. TypeOK'
  <2>1. emitter' \in [pc: {"waiting", "due", "insert", "mark", "enqueue", "notify",
                          "transfer", "advance", "failed"},
                     due: SUBSET (Triggers \X Time),
                     trigger: Triggers \union {NoTrigger}, slot: Time]
    BY <1>0, <1>1, NextDueState
  <2>2. \A u \in Triggers : entry'[u].known \/ entry'[u] = NoEntry
    BY <1>0, <1>9 DEF TypeOK
  <2> QED
    BY <1>0, <1>1, <1>9, <2>1, <2>2 DEF TypeOK
<1>11. ~Busy' /\ Working'
  BY <1>0, <1>1, NextDueState DEF Working
<1>12. Waits'
  <2> SUFFICES ASSUME NEW u \in Triggers, NEW m \in Time, Pending(u, m)' PROVE PendingAt(u, m)'
    BY DEF Waits, PendingAt
  <2>1. PendingAt(u, m) /\ Pending(u, m) /\ u # t /\ \A k : Pending(u, k)' => Pending(u, k)
    BY <1>1, <1>3, RestPending
  <2>2. entry'[u] = entry[u]
    BY <1>9, <2>1
  <2>3. ASSUME NEW i \in DOMAIN runs, runs[i].trigger = u, Counts(i)' PROVE runs[i].slot <= m
    <3>1. i # n /\ Counts(i)
      BY <1>1, <1>4, <2>1, <2>3 DEF Counts
    <3>2. ~InWork(i)
      BY <1>2, <3>1 DEF InWork
    <3> QED
      BY <2>1, <2>3, <3>1, <3>2 DEF PendingAt
  <2>4. m + 1 <= clock /\ (entry[u].known => entry[u].last = m \/ born[u] > m)
        /\ \A k \in Time : Pending(u, k)' => k = m
    BY <2>1 DEF PendingAt
  <2> QED
    BY <1>1, <2>2, <2>3, <2>4 DEF PendingAt
<1>13. Behind'
  <2> SUFFICES ASSUME NEW i \in DOMAIN runs
               PROVE  /\ runs[i].slot <= clock
                      /\ Counts(i)' /\ entry'[runs[i].trigger].known =>
                           runs[i].slot <= entry'[runs[i].trigger].last
    BY <1>1 DEF Behind
  <2>1. runs[i].slot <= clock
    BY <1>0 DEF Behind
  <2>2. ASSUME Counts(i)', entry'[runs[i].trigger].known
        PROVE  runs[i].slot <= entry'[runs[i].trigger].last
    <3>1. Counts(i)
      BY <1>1, <2>2 DEF Counts
    <3>2. CASE i = n
      BY <1>4, <1>9, <2>2, <3>2
    <3>3. CASE i # n /\ runs[i].trigger = t
      <4>1. ~InWork(i)
        BY <1>2, <3>3 DEF InWork
      <4>2. runs[i].slot <= l /\ runs[i].slot \in Nat
        BY <1>0, <1>6, <3>1, <3>3, <4>1, Facts DEF PendingAt
      <4>3. runs[i].slot <= slot
        BY ONLY <1>5, <4>2
      <4> QED
        BY <1>9, <2>2, <3>3, <4>3
    <3>4. CASE i # n /\ runs[i].trigger # t
      <4>1. ~InWork(i) /\ runs[i].trigger \in Triggers
        BY <1>0, <1>2, <3>4, Facts DEF InWork
      <4>2. entry'[runs[i].trigger] = entry[runs[i].trigger]
        BY <1>9, <3>4, <4>1
      <4> QED
        BY <1>0, <2>2, <3>1, <4>1, <4>2 DEF Behind
    <3> QED
      BY <3>2, <3>3, <3>4
  <2> QED
    BY <2>1, <2>2
<1>14. RunsOnce'
  BY <1>0, <1>1 DEF RunsOnce, Counts
<1>15. NoSlotSkipped'
  <2> SUFFICES ASSUME NEW u \in Triggers, entry'[u].known,
                      NEW s \in born[u] + 1 .. entry'[u].last
               PROVE  Fired(u, s)' # {}
    BY <1>1 DEF NoSlotSkipped
  <2>0. Fired(u, s)' = Fired(u, s)
    BY <1>1 DEF Fired
  <2>1. CASE u # t
    BY <1>0, <1>9, <2>0, <2>1 DEF NoSlotSkipped
  <2>2. CASE u = t /\ s = slot
    <3>1. n \in Fired(u, s)
      BY <1>4, <2>2 DEF Fired
    <3> QED
      BY <2>0, <3>1
  <2>3. CASE u = t /\ s # slot
    <3>1. /\ born[t] \in Nat /\ entry[t].known /\ entry'[t].last = slot
          /\ entry[t].last = l \/ born[t] > l
      BY <1>0, <1>6, <1>9, <2>3, Facts DEF PendingAt
    <3>2. s \in born[t] + 1 .. slot
      BY <2>3, <3>1
    <3>3. born[t] < slot
      BY ONLY <1>5, <3>1, <3>2, <2>3
    <3>4. entry[t].last = l
      BY <1>5, <3>1, <3>3
    <3>5. s \in born[t] + 1 .. l
      BY <1>5, <2>3, <3>1, <3>2
    <3> QED
      BY <1>0, <2>0, <2>3, <3>1, <3>4, <3>5 DEF NoSlotSkipped
  <2> QED
    BY <2>1, <2>2, <2>3
<1>16. InvocationTells'
  <2> SUFFICES ASSUME NEW i \in DOMAIN runs PROVE Told(runs[i])
    BY <1>1 DEF InvocationTells
  <2>1. CASE i = n
    BY <1>4, <2>1 DEF Told
  <2>2. CASE i # n
    BY <1>0, <1>2, <2>2 DEF InvocationTells
  <2> QED
    BY <2>1, <2>2
<1> QED
  BY <1>10, <1>11, <1>12, <1>13, <1>14, <1>15, <1>16 DEF CronInv

LEMMA FailFireKeeps ==
  ASSUME CronInv, FailFire
  PROVE  CronInv'
<1>0. TypeOK /\ Working /\ Waits /\ Behind /\ RunsOnce /\ NoSlotSkipped /\ InvocationTells
  BY DEF CronInv
<1>1. Busy /\ emitter.pc = "failed" /\ NextDue(emitter.due)
      /\ UNCHANGED <<row, entry, listed, clock, edits, crashes, born>>
  BY DEF FailFire, Busy
<1>2. PICK n \in DOMAIN runs : n = Len(runs)
  BY <1>0, <1>1, Facts DEF Working
<1>3. /\ runs[n] \in Run /\ (runs[n].task <=> runs[n].deaf)
      /\ ~runs[n].cut /\ ~runs[n].mute /\ runs[n].invocation # "failure"
  BY <1>0, <1>1, <1>2, Facts DEF Working, current
<1>4. PICK x \in Run :
        /\ runs' = [runs EXCEPT ![n] = x] /\ faults' \in 0..MaxFaults
        /\ x.trigger = runs[n].trigger /\ x.slot = runs[n].slot
        /\ x.task = runs[n].task /\ x.deaf = runs[n].deaf /\ Told(x)
  <2>1. CASE runs[n].invocation = "missing" /\ runs' = [runs EXCEPT ![n] = runs[n]] /\ UNCHANGED faults
    <3>1. faults' \in 0..MaxFaults /\ Told(runs[n])
      BY <1>0, <2>1 DEF Told, TypeOK
    <3> QED
      BY <1>3, <2>1, <3>1
  <2>2. CASE runs' = [runs EXCEPT ![n].invocation = "failure"] /\ UNCHANGED faults
    <3> DEFINE x == [runs[n] EXCEPT !.invocation = "failure"]
    <3>1. x \in Run
      BY <1>3, RunChanged
    <3>2. /\ x.trigger = runs[n].trigger /\ x.slot = runs[n].slot
          /\ x.task = runs[n].task /\ x.deaf = runs[n].deaf
          /\ x.invocation = "failure" /\ x.cut = runs[n].cut /\ x.mute = runs[n].mute
      BY <1>3 DEF Run
    <3>3. runs' = [runs EXCEPT ![n] = x]
      BY <2>2
    <3> HIDE DEF x
    <3>4. Told(x)
      BY <1>3, <3>2 DEF Told
    <3>5. faults' \in 0..MaxFaults
      BY <1>0, <2>2 DEF TypeOK
    <3> QED
      BY <3>1, <3>2, <3>3, <3>4, <3>5
  <2>3. CASE runs' = [runs EXCEPT ![n].mute = TRUE] /\ StatementFails
    <3> DEFINE x == [runs[n] EXCEPT !.mute = TRUE]
    <3>1. x \in Run
      BY <1>3, RunChanged
    <3>2. /\ x.trigger = runs[n].trigger /\ x.slot = runs[n].slot
          /\ x.task = runs[n].task /\ x.deaf = runs[n].deaf
          /\ x.invocation = runs[n].invocation /\ x.mute
      BY <1>3 DEF Run
    <3>3. runs' = [runs EXCEPT ![n] = x]
      BY <2>3
    <3> HIDE DEF x
    <3>4. Told(x)
      BY <1>3, <3>2 DEF Told
    <3>5. faults' \in 0..MaxFaults
      BY <1>0, <2>3, FaultsCounted
    <3> QED
      BY <3>1, <3>2, <3>3, <3>4, <3>5
  <2>4. \/ runs' = [runs EXCEPT ![n].invocation = IF @ = "missing" THEN @ ELSE "failure"] /\ UNCHANGED faults
        \/ runs' = [runs EXCEPT ![n].mute = TRUE] /\ StatementFails
    BY <1>2 DEF FailFire
  <2>5. CASE runs' = [runs EXCEPT ![n].invocation = IF @ = "missing" THEN @ ELSE "failure"] /\ UNCHANGED faults
    <3>1. CASE runs[n].invocation = "missing"
      <4>1. [runs[n] EXCEPT !.invocation = "missing"] = runs[n]
        BY <1>3, <3>1 DEF Run
      <4>2. runs' = [runs EXCEPT ![n] = [runs[n] EXCEPT !.invocation = "missing"]]
        BY <2>5, <3>1
      <4> QED
        BY <2>1, <2>5, <3>1, <4>1, <4>2
    <3>2. CASE runs[n].invocation # "missing"
      <4>1. runs' = [runs EXCEPT ![n].invocation = "failure"]
        BY <2>5, <3>2
      <4> QED
        BY <2>2, <2>5, <4>1
    <3> QED
      BY <3>1, <3>2
  <2> QED
    BY <2>3, <2>4, <2>5
<1>6. /\ runs' \in Seq(Run) /\ Len(runs') = Len(runs) /\ DOMAIN runs' = DOMAIN runs
      /\ runs'[n] = x /\ \A j \in DOMAIN runs : j # n => runs'[j] = runs[j]
  BY <1>0, <1>4, RunUpdated
<1>7. \A i \in DOMAIN runs : /\ runs'[i].trigger = runs[i].trigger
                            /\ runs'[i].slot = runs[i].slot
                            /\ runs'[i].task = runs[i].task /\ runs'[i].deaf = runs[i].deaf
  BY <1>4, <1>6
<1>8. \A i \in DOMAIN runs : Counts(i)' => Counts(i) /\ ~InWork(i)
  BY <1>2, <1>3, <1>7 DEF Counts, InWork
<1>9. ~Busy' /\ Working'
  BY <1>0, <1>1, NextDueState DEF Working
<1>10. TypeOK'
  <2>1. emitter' \in [pc: {"waiting", "due", "insert", "mark", "enqueue", "notify",
                          "transfer", "advance", "failed"},
                     due: SUBSET (Triggers \X Time),
                     trigger: Triggers \union {NoTrigger}, slot: Time]
    BY <1>0, <1>1, NextDueState
  <2> QED
    BY <1>0, <1>1, <1>4, <1>6, <2>1 DEF TypeOK
<1>11. Waits'
  <2> SUFFICES ASSUME NEW u \in Triggers, NEW m \in Time, Pending(u, m)' PROVE PendingAt(u, m)'
    BY DEF Waits, PendingAt
  <2>1. PendingAt(u, m) /\ Pending(u, m) /\ \A k : Pending(u, k)' => Pending(u, k)
    BY <1>1, RestPending
  <2>2. ASSUME NEW i \in DOMAIN runs, runs'[i].trigger = u, Counts(i)' PROVE runs'[i].slot <= m
    <3>1. runs[i].trigger = u /\ Counts(i) /\ ~InWork(i) /\ runs'[i].slot = runs[i].slot
      BY <1>7, <1>8, <2>2
    <3> QED
      BY <2>1, <3>1 DEF PendingAt
  <2>3. m + 1 <= clock /\ (entry[u].known => entry[u].last = m \/ born[u] > m)
        /\ \A k \in Time : Pending(u, k)' => k = m
    BY <2>1 DEF PendingAt
  <2> QED
    BY <1>1, <1>6, <2>2, <2>3 DEF PendingAt
<1>12. Behind'
  <2> SUFFICES ASSUME NEW i \in DOMAIN runs
               PROVE  /\ runs'[i].slot <= clock
                      /\ Counts(i)' /\ entry[runs'[i].trigger].known =>
                           runs'[i].slot <= entry[runs'[i].trigger].last
    BY <1>1, <1>6 DEF Behind
  <2> QED
    BY <1>0, <1>7, <1>8 DEF Behind
<1>13. RunsOnce'
  <2> SUFFICES ASSUME NEW i \in DOMAIN runs, NEW j \in DOMAIN runs, Counts(i)', Counts(j)',
                      runs'[i].trigger = runs'[j].trigger, runs'[i].slot = runs'[j].slot
               PROVE  i = j
    BY <1>6 DEF RunsOnce
  <2>1. Counts(i) /\ Counts(j) /\ runs[i].trigger = runs[j].trigger /\ runs[i].slot = runs[j].slot
    BY <1>7, <1>8
  <2> QED
    BY <1>0, <2>1 DEF RunsOnce
<1>14. NoSlotSkipped'
  <2> SUFFICES ASSUME NEW u \in Triggers, entry[u].known,
                      NEW s \in born[u] + 1 .. entry[u].last
               PROVE  Fired(u, s)' # {}
    BY <1>1 DEF NoSlotSkipped
  <2>1. PICK i \in Fired(u, s) : TRUE
    BY <1>0 DEF NoSlotSkipped
  <2>2. i \in DOMAIN runs /\ runs[i].trigger = u /\ runs[i].slot = s /\ runs[i].task
    BY <2>1 DEF Fired
  <2>3. i \in DOMAIN runs' /\ runs'[i].trigger = u /\ runs'[i].slot = s /\ runs'[i].task
    BY <1>6, <1>7, <2>2
  <2> QED
    BY <2>3 DEF Fired
<1>15. InvocationTells'
  <2> SUFFICES ASSUME NEW i \in DOMAIN runs PROVE Told(runs'[i])
    BY <1>6 DEF InvocationTells
  <2>1. CASE i = n
    BY <1>4, <1>6, <2>1
  <2>2. CASE i # n
    BY <1>0, <1>2, <1>6, <2>2 DEF InvocationTells
  <2> QED
    BY <2>1, <2>2
<1> QED
  BY <1>9, <1>10, <1>11, <1>12, <1>13, <1>14, <1>15 DEF CronInv

-------------------------------------------------------------------------------
(* The emitter collects what is due, and begins with one of it.                *)

LEMMA TickKeeps ==
  ASSUME CronInv, Tick
  PROVE  CronInv'
<1>0. TypeOK /\ Working /\ Waits /\ Behind /\ RunsOnce /\ NoSlotSkipped /\ InvocationTells
  BY DEF CronInv
<1>1. /\ emitter.pc = "waiting" /\ emitter' = [emitter EXCEPT !.pc = "due", !.due = Due]
      /\ UNCHANGED <<row, entry, listed, runs, clock, edits, faults, crashes, born>>
  BY DEF Tick, bounds
<1>2. Due \in SUBSET (Triggers \X Time)
  BY <1>0 DEF Due, TypeOK
<1>3. TypeOK'
  <2>1. emitter' \in [pc: {"waiting", "due", "insert", "mark", "enqueue", "notify",
                          "transfer", "advance", "failed"},
                     due: SUBSET (Triggers \X Time),
                     trigger: Triggers \union {NoTrigger}, slot: Time]
    BY <1>0, <1>1, <1>2 DEF TypeOK
  <2> QED
    BY <1>0, <1>1, <2>1 DEF TypeOK
<1>4. emitter'.due = Due /\ emitter'.pc = "due" /\ ~Busy /\ ~Busy'
  BY <1>0, <1>1 DEF TypeOK, Busy
<1>5. Waits'
  <2> SUFFICES ASSUME NEW u \in Triggers, NEW m \in Time, Pending(u, m)' PROVE PendingAt(u, m)'
    BY DEF Waits, PendingAt
  <2>1. \A k : Pending(u, k)' => <<u, k>> \in Due
    BY <1>4 DEF Pending
  <2>2. \A k : <<u, k>> \in Due => k = entry[u].last /\ entry[u].enabled /\ entry[u].last + 1 <= clock
    BY DEF Due
  <2>3. m = entry[u].last /\ entry[u].known /\ m + 1 <= clock
    BY <1>0, <2>1, <2>2, Facts
  <2>4. ASSUME NEW i \in DOMAIN runs, runs[i].trigger = u, Counts(i)' PROVE runs[i].slot <= m
    <3>1. Counts(i) /\ ~InWork(i)
      BY <1>1, <1>4, <2>4 DEF Counts, InWork
    <3> QED
      BY <1>0, <2>3, <2>4, <3>1 DEF Behind
  <2> QED
    BY <1>1, <2>1, <2>2, <2>3, <2>4 DEF PendingAt
<1>6. Working'
  BY <1>4 DEF Working
<1>7. Behind'
  BY <1>0, <1>1, <1>4 DEF Behind, Counts, InWork
<1>8. RunsOnce' /\ NoSlotSkipped'
  BY <1>0, <1>1 DEF RunsOnce, NoSlotSkipped, Counts, Fired
<1>9. InvocationTells'
  BY <1>0, <1>1, <1>4 DEF InvocationTells
<1> QED
  BY <1>3, <1>5, <1>6, <1>7, <1>8, <1>9 DEF CronInv

LEMMA BeginFireKeeps ==
  ASSUME CronInv, NEW t \in Triggers, NEW l \in Time, BeginFire(t, l)
  PROVE  CronInv'
<1>0. TypeOK /\ Working /\ Waits /\ Behind /\ RunsOnce /\ NoSlotSkipped /\ InvocationTells
  BY DEF CronInv
<1>1. PICK how \in {"missing", "running"} :
      /\ emitter.pc = "due" /\ <<t, l>> \in emitter.due
      /\ emitter' = [pc |-> "insert", due |-> emitter.due \ {<<t, l>>},
                     trigger |-> t, slot |-> l + 1]
      /\ runs' = Append(runs, NewRun(t, l + 1, how)) /\ faults' \in 0..MaxFaults
      /\ UNCHANGED <<row, entry, listed, clock, edits, crashes, born>>
  <2>1. StatementFails \/ UNCHANGED faults => faults' \in 0..MaxFaults
    BY <1>0, FaultsCounted DEF TypeOK
  <2> QED
    BY <2>1 DEF BeginFire
<1> DEFINE x == NewRun(t, l + 1, how)
<1>2. PendingAt(t, l) /\ Pending(t, l) /\ ~Busy
  BY <1>0, <1>1 DEF Waits, Pending, Busy
<1>3. l \in Nat /\ l + 1 <= clock /\ l + 1 \in 1..MaxTime /\ l + 1 \in Time
  <2>1. l + 1 <= clock /\ clock \in Nat /\ clock <= MaxTime /\ MaxTime \in Nat
    BY <1>0, <1>2, Facts DEF PendingAt
  <2> QED
    BY <2>1 DEF Time
<1>4. x \in Run
  BY <1>3 DEF NewRun, Run
<1>5. /\ x.trigger = t /\ x.slot = l + 1 /\ ~x.task /\ ~x.deaf /\ ~x.cut /\ ~x.mute
      /\ x.invocation # "failure" /\ runs' = Append(runs, x)
  BY <1>1 DEF NewRun
<1> HIDE DEF x
<1>6. PICK n \in Nat : n = Len(runs) + 1
  BY <1>0, Facts
<1>7. /\ runs' \in Seq(Run) /\ Len(runs') = n /\ DOMAIN runs' = DOMAIN runs \union {n}
      /\ runs'[n] = x /\ n \notin DOMAIN runs /\ \A i \in DOMAIN runs : runs'[i] = runs[i]
  BY <1>0, <1>4, <1>5, <1>6 DEF TypeOK
<1>8. /\ emitter'.pc = "insert" /\ emitter'.trigger = t /\ emitter'.slot = l + 1
      /\ emitter'.due = emitter.due \ {<<t, l>>}
  BY <1>1
<1>9. Busy' /\ n # 0
  BY <1>6, <1>8, Facts, <1>0 DEF Busy
<1>10. TypeOK'
  <2>1. emitter' \in [pc: {"waiting", "due", "insert", "mark", "enqueue", "notify",
                          "transfer", "advance", "failed"},
                     due: SUBSET (Triggers \X Time),
                     trigger: Triggers \union {NoTrigger}, slot: Time]
    BY <1>0, <1>1, <1>3 DEF TypeOK
  <2> QED
    BY <1>0, <1>1, <1>7, <2>1 DEF TypeOK
<1>11. \A u \in Triggers, k \in Time : Pending(u, k)' => Pending(u, k)
  <2> SUFFICES ASSUME NEW u \in Triggers, NEW k \in Time, Pending(u, k)',
                      <<u, k>> \notin emitter.due
               PROVE  FALSE
    BY DEF Pending
  <2>1. u = t /\ l + 1 = k + 1
    BY <1>8 DEF Pending
  <2>2. k \in Nat
    BY DEF Time
  <2>3. l = k
    BY <1>3, <2>1, <2>2
  <2> QED
    BY <1>1, <2>1, <2>3
<1>12. \A i \in DOMAIN runs : Counts(i)' => Counts(i) /\ ~InWork(i)
  BY <1>2, <1>7 DEF Counts, InWork
<1>13. ~Counts(n)' /\ InWork(n)'
  BY <1>5, <1>7, <1>9 DEF Counts, InWork
<1>14. Waits'
  <2> SUFFICES ASSUME NEW u \in Triggers, NEW m \in Time, Pending(u, m)' PROVE PendingAt(u, m)'
    BY DEF Waits, PendingAt
  <2>1. PendingAt(u, m) /\ Pending(u, m) /\ \A k \in Time : Pending(u, k)' => Pending(u, k)
    BY <1>0, <1>11 DEF Waits
  <2>2. ASSUME NEW i \in DOMAIN runs', runs'[i].trigger = u, Counts(i)' PROVE runs'[i].slot <= m
    <3>1. i \in DOMAIN runs
      BY <1>7, <1>13, <2>2
    <3>2. runs[i].trigger = u /\ Counts(i) /\ ~InWork(i) /\ runs'[i].slot = runs[i].slot
      BY <1>7, <1>12, <2>2, <3>1
    <3> QED
      BY <2>1, <3>1, <3>2 DEF PendingAt
  <2>3. m + 1 <= clock /\ (entry[u].known => entry[u].last = m \/ born[u] > m)
        /\ \A k \in Time : Pending(u, k)' => k = m
    BY <2>1 DEF PendingAt
  <2> QED
    BY <1>1, <2>2, <2>3 DEF PendingAt
<1>15. Working'
  <2>1. current' = x
    BY <1>7 DEF current
  <2>2. \A k \in Time : <<t, k>> \notin emitter'.due
    <3> SUFFICES ASSUME NEW k \in Time, <<t, k>> \in emitter.due PROVE k = l
      BY <1>8
    <3> QED
      BY <1>2 DEF PendingAt, Pending
  <2> QED
    BY <1>3, <1>5, <1>7, <1>8, <1>9, <2>1, <2>2 DEF Working
<1>16. Behind'
  <2> SUFFICES ASSUME NEW i \in DOMAIN runs'
               PROVE  /\ runs'[i].slot <= clock
                      /\ Counts(i)' /\ ~InWork(i)' /\ entry[runs'[i].trigger].known =>
                           runs'[i].slot <= entry[runs'[i].trigger].last
    BY <1>1 DEF Behind
  <2>1. CASE i = n
    BY <1>3, <1>5, <1>7, <1>13, <2>1
  <2>2. CASE i \in DOMAIN runs
    <3>1. runs'[i] = runs[i] /\ runs[i].slot <= clock
      BY <1>0, <1>7, <2>2 DEF Behind
    <3>2. Counts(i)' => Counts(i) /\ ~InWork(i)
      BY <1>12, <2>2
    <3> QED
      BY <1>0, <2>2, <3>1, <3>2 DEF Behind
  <2> QED
    BY <1>7, <2>1, <2>2
<1>17. RunsOnce'
  <2> SUFFICES ASSUME NEW i \in DOMAIN runs', NEW j \in DOMAIN runs', Counts(i)', Counts(j)',
                      runs'[i].trigger = runs'[j].trigger, runs'[i].slot = runs'[j].slot
               PROVE  i = j
    BY DEF RunsOnce
  <2>1. i \in DOMAIN runs /\ j \in DOMAIN runs
    BY <1>7, <1>13
  <2>2. Counts(i) /\ Counts(j) /\ runs[i].trigger = runs[j].trigger /\ runs[i].slot = runs[j].slot
    BY <1>7, <1>12, <2>1
  <2> QED
    BY <1>0, <2>1, <2>2 DEF RunsOnce
<1>18. NoSlotSkipped'
  <2> SUFFICES ASSUME NEW u \in Triggers, entry[u].known,
                      NEW s \in born[u] + 1 .. entry[u].last
               PROVE  Fired(u, s)' # {}
    BY <1>1 DEF NoSlotSkipped
  <2>1. PICK i \in Fired(u, s) : TRUE
    BY <1>0 DEF NoSlotSkipped
  <2>2. i \in DOMAIN runs /\ runs[i].trigger = u /\ runs[i].slot = s /\ runs[i].task
    BY <2>1 DEF Fired
  <2>3. i \in DOMAIN runs' /\ runs'[i].trigger = u /\ runs'[i].slot = s /\ runs'[i].task
    BY <1>7, <2>2
  <2> QED
    BY <2>3 DEF Fired
<1>19. InvocationTells'
  <2> SUFFICES ASSUME NEW i \in DOMAIN runs', i # Len(runs') \/ emitter'.pc \in {"waiting", "due"}
               PROVE  Told(runs'[i])
    BY DEF InvocationTells
  <2>1. i \in DOMAIN runs /\ runs'[i] = runs[i]
    BY <1>7, <1>8
  <2> QED
    BY <1>0, <1>1, <2>1 DEF InvocationTells
<1> QED
  BY <1>10, <1>14, <1>15, <1>16, <1>17, <1>18, <1>19 DEF CronInv

-------------------------------------------------------------------------------
(* The router, a restart, the rows and the sync.                               *)

LEMMA RouterTakesKeeps ==
  ASSUME CronInv, NEW i \in DOMAIN runs, RouterTakes(i)
  PROVE  CronInv'
<1>0. TypeOK /\ Working /\ Waits /\ Behind /\ RunsOnce /\ NoSlotSkipped /\ InvocationTells
  BY DEF CronInv
<1>1. UNCHANGED <<row, entry, listed, emitter, clock, edits, faults, crashes, born>>
  BY DEF RouterTakes, bounds
<1> DEFINE x == [runs[i] EXCEPT !.event = "routed"]
<1>2. /\ x \in Run /\ x.trigger = runs[i].trigger /\ x.slot = runs[i].slot
      /\ x.task = runs[i].task /\ x.deaf = runs[i].deaf /\ x.cut = runs[i].cut
      /\ x.invocation = runs[i].invocation /\ x.mute = runs[i].mute
  <2>1. runs[i] \in Run
    BY <1>0, Facts
  <2>2. x \in Run
    BY <2>1, RunChanged
  <2> QED
    BY <2>1, <2>2 DEF Run
<1>3. runs' = [runs EXCEPT ![i] = x]
  BY DEF RouterTakes
<1> HIDE DEF x
<1>4. /\ runs' \in Seq(Run) /\ Len(runs') = Len(runs) /\ DOMAIN runs' = DOMAIN runs
      /\ runs'[i] = x /\ \A j \in DOMAIN runs : j # i => runs'[j] = runs[j]
  BY <1>0, <1>2, <1>3, RunUpdated
<1>5. \A j \in DOMAIN runs :
        /\ runs'[j].trigger = runs[j].trigger /\ runs'[j].slot = runs[j].slot
        /\ runs'[j].task = runs[j].task /\ runs'[j].deaf = runs[j].deaf
        /\ runs'[j].cut = runs[j].cut /\ runs'[j].invocation = runs[j].invocation
        /\ runs'[j].mute = runs[j].mute
  BY <1>2, <1>4
<1>6. TypeOK'
  BY <1>0, <1>1, <1>4 DEF TypeOK
<1>7. Busy' <=> Busy
  BY <1>1 DEF Busy
<1>8. \A j \in DOMAIN runs : (Counts(j)' => Counts(j)) /\ (~InWork(j)' => ~InWork(j))
  BY <1>1, <1>4, <1>5 DEF Counts, InWork, Busy
<1>9. \A u, k : Pending(u, k)' => Pending(u, k)
  BY <1>1 DEF Pending, Busy
<1>10. Waits'
  <2> SUFFICES ASSUME NEW u \in Triggers, NEW m \in Time, Pending(u, m)' PROVE PendingAt(u, m)'
    BY DEF Waits, PendingAt
  <2>1. PendingAt(u, m) /\ Pending(u, m)
    BY <1>0, <1>9 DEF Waits
  <2>2. ASSUME NEW j \in DOMAIN runs, runs'[j].trigger = u, Counts(j)', ~InWork(j)'
        PROVE  runs'[j].slot <= m
    <3>1. runs[j].trigger = u /\ Counts(j) /\ ~InWork(j) /\ runs'[j].slot = runs[j].slot
      BY <1>5, <1>8, <2>2
    <3> QED
      BY <2>1, <3>1 DEF PendingAt
  <2>3. m + 1 <= clock /\ (entry[u].known => entry[u].last = m \/ born[u] > m)
        /\ \A k \in Time : Pending(u, k)' => k = m
    BY <1>9, <2>1 DEF PendingAt
  <2> QED
    BY <1>1, <1>4, <2>2, <2>3 DEF PendingAt
<1>11. Working'
  <2> SUFFICES ASSUME Busy PROVE Working'
    BY <1>7 DEF Working
  <2>1. Len(runs) \in DOMAIN runs
    BY <1>0, Facts DEF Working
  <2>2. /\ current'.trigger = current.trigger /\ current'.slot = current.slot
        /\ current'.cut = current.cut /\ current'.invocation = current.invocation
        /\ current'.mute = current.mute
        /\ current'.task = current.task /\ current'.deaf = current.deaf
    BY <1>4, <1>5, <2>1 DEF current
  <2> QED
    BY <1>0, <1>1, <1>4, <2>2 DEF Working
<1>12. Behind'
  <2> SUFFICES ASSUME NEW j \in DOMAIN runs
               PROVE  /\ runs'[j].slot <= clock
                      /\ Counts(j)' /\ ~InWork(j)' /\ entry[runs'[j].trigger].known =>
                           runs'[j].slot <= entry[runs'[j].trigger].last
    BY <1>1, <1>4 DEF Behind
  <2> QED
    BY <1>0, <1>5, <1>8 DEF Behind
<1>13. RunsOnce'
  <2> SUFFICES ASSUME NEW j \in DOMAIN runs, NEW k \in DOMAIN runs, Counts(j)', Counts(k)',
                      runs'[j].trigger = runs'[k].trigger, runs'[j].slot = runs'[k].slot
               PROVE  j = k
    BY <1>4 DEF RunsOnce
  <2>1. Counts(j) /\ Counts(k) /\ runs[j].trigger = runs[k].trigger /\ runs[j].slot = runs[k].slot
    BY <1>5, <1>8
  <2> QED
    BY <1>0, <2>1 DEF RunsOnce
<1>14. NoSlotSkipped'
  <2> SUFFICES ASSUME NEW u \in Triggers, entry[u].known,
                      NEW s \in born[u] + 1 .. entry[u].last
               PROVE  Fired(u, s)' # {}
    BY <1>1 DEF NoSlotSkipped
  <2>1. PICK j \in Fired(u, s) : TRUE
    BY <1>0 DEF NoSlotSkipped
  <2>2. j \in DOMAIN runs /\ runs[j].trigger = u /\ runs[j].slot = s /\ runs[j].task
    BY <2>1 DEF Fired
  <2>3. j \in DOMAIN runs' /\ runs'[j].trigger = u /\ runs'[j].slot = s /\ runs'[j].task
    BY <1>4, <1>5, <2>2
  <2> QED
    BY <2>3 DEF Fired
<1>15. InvocationTells'
  <2> SUFFICES ASSUME NEW j \in DOMAIN runs, j # Len(runs) \/ emitter.pc \in {"waiting", "due"}
               PROVE  Told(runs'[j])
    BY <1>1, <1>4 DEF InvocationTells
  <2>1. Told(runs[j])
    BY <1>0 DEF InvocationTells
  <2> QED
    BY <1>5, <2>1 DEF Told
<1> QED
  BY <1>6, <1>10, <1>11, <1>12, <1>13, <1>14, <1>15 DEF CronInv

LEMMA RestartKeeps ==
  ASSUME CronInv, Restart
  PROVE  CronInv'
<1>0. TypeOK /\ Working /\ Waits /\ Behind /\ RunsOnce /\ NoSlotSkipped /\ InvocationTells
  BY DEF CronInv
<1>1. /\ entry' = [t \in Triggers |-> NoEntry] /\ listed' = Nothing /\ emitter' = Waiting
      /\ crashes < MaxCrashes /\ crashes' = crashes + 1
      /\ UNCHANGED <<row, clock, edits, faults, born>>
  BY DEF Restart
<1>2. crashes' \in 0..MaxCrashes
  <2>1. crashes \in 0..MaxCrashes /\ MaxCrashes \in Nat /\ crashes < MaxCrashes
        /\ crashes' = crashes + 1
    BY <1>0, <1>1, CronAssumption DEF TypeOK
  <2> QED
    BY ONLY <2>1
<1>3. \/ emitter.pc \in {"waiting", "due", "advance"} /\ runs' = runs
      \/ Busy /\ runs' = [runs EXCEPT ![Len(runs)].cut = TRUE]
  BY DEF Restart, Busy
<1>4. /\ runs' \in Seq(Run) /\ Len(runs') = Len(runs) /\ DOMAIN runs' = DOMAIN runs
      /\ \A i \in DOMAIN runs :
           /\ runs'[i].trigger = runs[i].trigger /\ runs'[i].slot = runs[i].slot
           /\ runs'[i].task = runs[i].task /\ runs'[i].deaf = runs[i].deaf
           /\ Told(runs'[i])
  <2>1. CASE emitter.pc \in {"waiting", "due", "advance"} /\ runs' = runs
    <3>1. ASSUME NEW i \in DOMAIN runs, i = Len(runs), emitter.pc = "advance" PROVE Told(runs[i])
      <4>1. runs[i].task /\ ~runs[i].deaf /\ runs[i].invocation # "failure"
        BY <1>0, <3>1 DEF Working, Busy, current
      <4> QED
        BY <4>1 DEF Told
    <3>2. \A i \in DOMAIN runs : Told(runs[i])
      BY <1>0, <2>1, <3>1 DEF InvocationTells
    <3> QED
      BY <1>0, <2>1, <3>2 DEF TypeOK
  <2>2. CASE Busy /\ runs' = [runs EXCEPT ![Len(runs)].cut = TRUE]
    <3>1. PICK n \in DOMAIN runs : n = Len(runs)
      BY <1>0, <2>2, Facts DEF Working
    <3> DEFINE x == [runs[n] EXCEPT !.cut = TRUE]
    <3>2. /\ x \in Run /\ x.trigger = runs[n].trigger /\ x.slot = runs[n].slot
          /\ x.task = runs[n].task /\ x.deaf = runs[n].deaf /\ x.cut = TRUE
          /\ x.invocation = runs[n].invocation /\ runs[n].invocation # "failure"
      <4>1. runs[n] \in Run /\ runs[n].invocation # "failure"
        BY <1>0, <2>2, <3>1, Facts DEF Working, current
      <4>2. x \in Run
        BY <4>1, RunChanged
      <4> QED
        BY <4>1, <4>2 DEF Run
    <3>3. runs' = [runs EXCEPT ![n] = x]
      BY <2>2, <3>1
    <3> HIDE DEF x
    <3>4. /\ runs' \in Seq(Run) /\ Len(runs') = Len(runs) /\ DOMAIN runs' = DOMAIN runs
          /\ runs'[n] = x /\ \A j \in DOMAIN runs : j # n => runs'[j] = runs[j]
      BY <1>0, <3>2, <3>3, RunUpdated
    <3>5. ASSUME NEW i \in DOMAIN runs
          PROVE  /\ runs'[i].trigger = runs[i].trigger /\ runs'[i].slot = runs[i].slot
                 /\ runs'[i].task = runs[i].task /\ runs'[i].deaf = runs[i].deaf
                 /\ Told(runs'[i])
      <4>1. CASE i = n
        BY <3>2, <3>4, <4>1 DEF Told
      <4>2. CASE i # n
        BY <1>0, <3>1, <3>4, <4>2 DEF InvocationTells
      <4> QED
        BY <4>1, <4>2
    <3> QED
      BY <3>4, <3>5
  <2> QED
    BY <1>3, <2>1, <2>2
<1>5. /\ Waiting.pc = "waiting" /\ Waiting.due = {}
      /\ Waiting \in [pc: {"waiting", "due", "insert", "mark", "enqueue", "notify",
                           "transfer", "advance", "failed"},
                      due: SUBSET (Triggers \X Time),
                      trigger: Triggers \union {NoTrigger}, slot: Time]
  BY CronAssumption DEF Waiting, Time
<1>6. NoEntry \in [known: BOOLEAN, enabled: BOOLEAN, last: Time] /\ ~NoEntry.known
  BY CronAssumption DEF NoEntry, Time
<1>7. DOMAIN Nothing = {}
  BY DEF Nothing
<1>8. TypeOK'
  BY <1>0, <1>1, <1>2, <1>4, <1>5, <1>6, <1>7 DEF TypeOK
<1>9. ~Busy' /\ \A u, k : ~Pending(u, k)'
  BY <1>1, <1>5 DEF Pending, Busy
<1>10. Waits' /\ Working'
  BY <1>9 DEF Waits, PendingAt, Working
<1>11. \A t \in Triggers : ~entry'[t].known
  BY <1>1, <1>6
<1>12. NoSlotSkipped'
  BY <1>11 DEF NoSlotSkipped
<1>13. Behind'
  <2> SUFFICES ASSUME NEW i \in DOMAIN runs
               PROVE  runs'[i].slot <= clock /\ ~entry'[runs'[i].trigger].known
    BY <1>1, <1>4 DEF Behind
  <2> QED
    BY <1>0, <1>4, <1>11, Facts DEF Behind
<1>14. RunsOnce'
  <2> SUFFICES ASSUME NEW j \in DOMAIN runs, NEW k \in DOMAIN runs, Counts(j)', Counts(k)',
                      runs'[j].trigger = runs'[k].trigger, runs'[j].slot = runs'[k].slot
               PROVE  j = k
    BY <1>4 DEF RunsOnce
  <2>1. Counts(j) /\ Counts(k) /\ runs[j].trigger = runs[k].trigger /\ runs[j].slot = runs[k].slot
    BY <1>4 DEF Counts
  <2> QED
    BY <1>0, <2>1 DEF RunsOnce
<1>15. InvocationTells'
  BY <1>4 DEF InvocationTells
<1> QED
  BY <1>8, <1>10, <1>12, <1>13, <1>14, <1>15 DEF CronInv

\* The clock goes on, and an entry that is there by then is the old one or one
\* that begins now.
LEMMA WorldKeeps ==
  ASSUME CronInv, TypeOK', clock' \in Nat, clock <= clock', UNCHANGED <<emitter, runs>>,
         \A t \in Triggers : entry'[t].known =>
           \/ entry[t].known /\ entry'[t].last = entry[t].last /\ born'[t] = born[t]
           \/ entry'[t].last = clock /\ born'[t] = clock
  PROVE  CronInv'
<1>0. TypeOK /\ Working /\ Waits /\ Behind /\ RunsOnce /\ NoSlotSkipped /\ InvocationTells
  BY DEF CronInv
<1>1. clock \in Nat /\ \A i \in DOMAIN runs : runs[i].slot \in Nat /\ runs[i].trigger \in Triggers
  BY <1>0, Facts
<1>2. \A i \in DOMAIN runs : (Counts(i)' => Counts(i)) /\ (~InWork(i)' => ~InWork(i))
  BY DEF Counts, InWork, Busy
<1>3. \A u, k : Pending(u, k)' => Pending(u, k)
  BY DEF Pending, Busy
<1>4. Working'
  BY <1>0 DEF Working, Busy, current
<1>5. RunsOnce' /\ InvocationTells'
  BY <1>0 DEF RunsOnce, InvocationTells, Counts
<1>6. Waits'
  <2> SUFFICES ASSUME NEW u \in Triggers, NEW m \in Time, Pending(u, m)' PROVE PendingAt(u, m)'
    BY DEF Waits, PendingAt
  <2>1. PendingAt(u, m) /\ Pending(u, m)
    BY <1>0, <1>3 DEF Waits
  <2>2. ASSUME NEW i \in DOMAIN runs, runs[i].trigger = u, Counts(i)', ~InWork(i)'
        PROVE  runs[i].slot <= m
    BY <1>2, <2>1, <2>2 DEF PendingAt
  <2>3. m \in Nat /\ m + 1 <= clock /\ (entry[u].known => entry[u].last = m \/ born[u] > m)
    BY <2>1 DEF PendingAt, Time
  <2>4. m + 1 <= clock' /\ clock > m
    BY <1>1, <2>3
  <2>5. entry'[u].known => entry'[u].last = m \/ born'[u] > m
    BY <2>3, <2>4
  <2>6. \A k \in Time : Pending(u, k)' => k = m
    BY <1>3, <2>1 DEF PendingAt
  <2> QED
    BY <2>2, <2>4, <2>5, <2>6 DEF PendingAt
<1>7. Behind'
  <2> SUFFICES ASSUME NEW i \in DOMAIN runs
               PROVE  /\ runs[i].slot <= clock'
                      /\ Counts(i)' /\ ~InWork(i)' /\ entry'[runs[i].trigger].known =>
                           runs[i].slot <= entry'[runs[i].trigger].last
    BY DEF Behind
  <2>1. runs[i].slot <= clock /\ runs[i].slot <= clock'
    <3>1. runs[i].slot <= clock
      BY <1>0 DEF Behind
    <3> QED
      BY <1>1, <3>1
  <2>2. ASSUME Counts(i)', ~InWork(i)', entry'[runs[i].trigger].known
        PROVE  runs[i].slot <= entry'[runs[i].trigger].last
    <3>1. PICK t \in Triggers : t = runs[i].trigger
      BY <1>1
    <3>2. CASE entry'[t].last = clock
      BY <2>1, <3>1, <3>2
    <3>3. CASE entry[t].known /\ entry'[t].last = entry[t].last
      BY <1>0, <1>2, <2>2, <3>1, <3>3 DEF Behind
    <3> QED
      BY <2>2, <3>1, <3>2, <3>3
  <2> QED
    BY <2>1, <2>2
<1>8. NoSlotSkipped'
  <2> SUFFICES ASSUME NEW u \in Triggers, entry'[u].known,
                      NEW s \in born'[u] + 1 .. entry'[u].last
               PROVE  Fired(u, s)' # {}
    BY DEF NoSlotSkipped
  <2>1. Fired(u, s)' = Fired(u, s)
    BY DEF Fired
  <2>2. CASE entry'[u].last = clock /\ born'[u] = clock
    <3>1. s \in clock + 1 .. clock
      BY <2>2
    <3> QED
      BY <1>1, <3>1
  <2>3. CASE entry[u].known /\ entry'[u].last = entry[u].last /\ born'[u] = born[u]
    BY <1>0, <2>1, <2>3 DEF NoSlotSkipped
  <2> QED
    BY <2>2, <2>3
<1> QED
  BY <1>4, <1>5, <1>6, <1>7, <1>8 DEF CronInv

LEMMA SyncKeeps ==
  ASSUME CronInv, NEW t \in Triggers, Upsert(t) \/ Delete(t)
  PROVE  CronInv'
<1>0. TypeOK
  BY DEF CronInv
<1>1. /\ t \in DOMAIN listed /\ Applied(t)
      /\ UNCHANGED <<row, emitter, runs, clock, edits, faults, crashes>>
  BY DEF Upsert, Delete, bounds
<1>2. clock \in Time /\ clock \in Nat
  BY <1>0, Facts DEF TypeOK
<1>3. /\ DOMAIN listed' \subseteq Triggers
      /\ \A u \in DOMAIN listed' : listed'[u] \in {"on", "off", "gone"}
  BY <1>0, <1>1 DEF TypeOK, Applied
<1>4. CASE Upsert(t)
  <2> DEFINE e == [known |-> TRUE, enabled |-> listed[t] = "on", last |-> LastFired(t)]
             b == IF entry[t].known THEN born[t] ELSE clock
  <2>1. entry' = [entry EXCEPT ![t] = e] /\ born' = [born EXCEPT ![t] = b]
    BY <1>4 DEF Upsert
  <2>2. /\ LastFired(t) \in Time /\ b \in Time
        /\ \/ entry[t].known /\ LastFired(t) = entry[t].last /\ b = born[t]
           \/ LastFired(t) = clock /\ b = clock
    BY <1>0, <1>2 DEF TypeOK, LastFired
  <2>3. /\ e \in [known: BOOLEAN, enabled: BOOLEAN, last: Time]
        /\ e.known /\ e.last = LastFired(t)
    BY <2>2
  <2> HIDE DEF e, b
  <2>4. /\ entry' \in [Triggers -> [known: BOOLEAN, enabled: BOOLEAN, last: Time]]
        /\ born' \in [Triggers -> Time]
        /\ entry'[t] = e /\ born'[t] = b
        /\ \A u \in Triggers : u # t => entry'[u] = entry[u] /\ born'[u] = born[u]
    BY <1>0, <2>1, <2>2, <2>3 DEF TypeOK
  <2>5. \A u \in Triggers : entry'[u].known \/ entry'[u] = NoEntry
    BY <1>0, <2>3, <2>4 DEF TypeOK
  <2>6. TypeOK'
    BY <1>0, <1>1, <1>3, <2>4, <2>5 DEF TypeOK
  <2>7. ASSUME NEW u \in Triggers, entry'[u].known
        PROVE  \/ entry[u].known /\ entry'[u].last = entry[u].last /\ born'[u] = born[u]
               \/ entry'[u].last = clock /\ born'[u] = clock
    BY <2>2, <2>3, <2>4, <2>7
  <2> QED
    BY <1>1, <1>2, <2>6, <2>7, WorldKeeps
<1>5. CASE Delete(t)
  <2>1. entry' = [entry EXCEPT ![t] = NoEntry] /\ born' = born
    BY <1>5 DEF Delete
  <2>2. NoEntry \in [known: BOOLEAN, enabled: BOOLEAN, last: Time] /\ ~NoEntry.known
    BY CronAssumption DEF NoEntry, Time
  <2>3. /\ entry' \in [Triggers -> [known: BOOLEAN, enabled: BOOLEAN, last: Time]]
        /\ entry'[t] = NoEntry
        /\ \A u \in Triggers : u # t => entry'[u] = entry[u]
    BY <1>0, <2>1, <2>2 DEF TypeOK
  <2>4. \A u \in Triggers : entry'[u].known \/ entry'[u] = NoEntry
    BY <1>0, <2>3 DEF TypeOK
  <2>5. TypeOK'
    BY <1>0, <1>1, <1>3, <2>1, <2>3, <2>4 DEF TypeOK
  <2>6. ASSUME NEW u \in Triggers, entry'[u].known
        PROVE  entry[u].known /\ entry'[u].last = entry[u].last /\ born'[u] = born[u]
    BY <2>1, <2>2, <2>3, <2>6
  <2> QED
    BY <1>1, <1>2, <2>5, <2>6, WorldKeeps
<1> QED
  BY <1>4, <1>5

LEMMA RowsKeep ==
  ASSUME CronInv,
         TimePasses \/ ListRows
           \/ (\E t \in Triggers, to \in {"on", "off", "gone"} : EditRow(t, to))
  PROVE  CronInv'
<1>0. TypeOK
  BY DEF CronInv
<1>1. UNCHANGED <<entry, emitter, runs, faults, crashes, born>>
  BY DEF TimePasses, ListRows, EditRow, bounds
<1>2. clock \in Nat /\ clock <= MaxTime /\ MaxTime \in Nat
  BY <1>0, Facts
<1>3. clock' \in Time /\ clock' \in Nat /\ clock <= clock'
  <2>1. clock' = clock \/ (clock < MaxTime /\ clock' = clock + 1)
    BY DEF TimePasses, ListRows, EditRow
  <2> QED
    BY <1>2, <2>1 DEF Time
<1>4. TypeOK'
  <2>1. CASE TimePasses
    BY <1>0, <1>1, <1>3, <2>1 DEF TypeOK, TimePasses, bounds
  <2>2. CASE ListRows
    BY <1>0, <1>1, <1>3, <2>2 DEF TypeOK, ListRows, bounds
  <2>3. CASE \E t \in Triggers, to \in {"on", "off", "gone"} : EditRow(t, to)
    <3>1. PICK t \in Triggers, to \in {"on", "off", "gone"} : EditRow(t, to)
      BY <2>3
    <3>2. edits' \in 0..MaxEdits
      <4>1. edits \in 0..MaxEdits /\ MaxEdits \in Nat /\ edits < MaxEdits /\ edits' = edits + 1
        BY <1>0, <3>1, CronAssumption DEF TypeOK, EditRow
      <4> QED
        BY ONLY <4>1
    <3> QED
      BY <1>0, <1>1, <1>3, <3>1, <3>2 DEF TypeOK, EditRow
  <2> QED
    BY <2>1, <2>2, <2>3
<1> QED
  BY <1>1, <1>3, <1>4, WorldKeeps

-------------------------------------------------------------------------------
(* The invariant, and what it says of the slots.                               *)

LEMMA CronInit == Init => CronInv
<1> SUFFICES ASSUME Init PROVE CronInv
  OBVIOUS
<1>1. /\ runs = <<>> /\ emitter = Waiting /\ clock = 0 /\ listed = Nothing
      /\ entry = [t \in Triggers |-> NoEntry] /\ born = [t \in Triggers |-> 0]
      /\ row = [t \in Triggers |-> "on"] /\ edits = 0 /\ faults = 0 /\ crashes = 0
  BY DEF Init
<1>2. 0 \in Time /\ {MaxTime, MaxEdits, MaxFaults, MaxCrashes} \subseteq Nat
  BY CronAssumption DEF Time
<1>3. NoEntry \in [known: BOOLEAN, enabled: BOOLEAN, last: Time] /\ ~NoEntry.known
  BY <1>2 DEF NoEntry
<1>4. /\ Waiting.pc = "waiting" /\ Waiting.due = {}
      /\ Waiting \in [pc: {"waiting", "due", "insert", "mark", "enqueue", "notify",
                           "transfer", "advance", "failed"},
                      due: SUBSET (Triggers \X Time),
                      trigger: Triggers \union {NoTrigger}, slot: Time]
  BY <1>2 DEF Waiting
<1>5. TypeOK
  BY <1>1, <1>2, <1>3, <1>4 DEF TypeOK, Nothing
<1>6. ~Busy /\ \A t, l : ~Pending(t, l)
  BY <1>1, <1>4 DEF Busy, Pending
<1>7. Working /\ Waits
  BY <1>6 DEF Working, Waits, PendingAt
<1>8. DOMAIN runs = {}
  BY <1>1
<1>9. Behind /\ RunsOnce /\ InvocationTells
  BY <1>8 DEF Behind, RunsOnce, InvocationTells
<1>10. NoSlotSkipped
  BY <1>1, <1>3 DEF NoSlotSkipped
<1> QED
  BY <1>5, <1>7, <1>9, <1>10 DEF CronInv

LEMMA CronStutters ==
  ASSUME CronInv, UNCHANGED vars
  PROVE  CronInv'
<1>1. UNCHANGED <<row, entry, listed, emitter, runs, clock, edits, faults, crashes, born>>
  BY DEF vars, bounds
<1>2. TypeOK' /\ clock \in Nat
  BY <1>1, Facts DEF CronInv, TypeOK
<1>3. clock <= clock'
  BY <1>1, <1>2
<1> QED
  BY <1>1, <1>2, <1>3, WorldKeeps

LEMMA CronStep ==
  ASSUME CronInv, [Next]_vars
  PROVE  CronInv'
<1>1. CASE TimePasses \/ ListRows
             \/ (\E t \in Triggers, to \in {"on", "off", "gone"} : EditRow(t, to))
  BY <1>1, RowsKeep
<1>2. CASE \E t \in Triggers : Upsert(t) \/ Delete(t)
  BY <1>2, SyncKeeps
<1>3. CASE Emit
  <2>1. CASE Tick
    BY <2>1, TickKeeps
  <2>2. CASE \E t \in Triggers, last \in Time : BeginFire(t, last)
    BY <2>2, BeginFireKeeps
  <2>3. CASE InsertEvent \/ MarkRouted \/ EnqueueTask \/ NotifyAgent \/ TransferFromInbox
    BY <2>3, EmissionKeeps
  <2>4. CASE Advance
    BY <2>4, AdvanceKeeps
  <2>5. CASE FailFire
    BY <2>5, FailFireKeeps
  <2> QED
    BY <1>3, <2>1, <2>2, <2>3, <2>4, <2>5 DEF Emit
<1>4. CASE \E i \in DOMAIN runs : RouterTakes(i)
  BY <1>4, RouterTakesKeeps
<1>5. CASE Restart
  BY <1>5, RestartKeeps
<1>6. CASE UNCHANGED vars
  BY <1>6, CronStutters
<1> QED
  BY <1>1, <1>2, <1>3, <1>4, <1>5, <1>6 DEF Next, Sync

\* No two runs of a slot count: the set of those that do has one member or none.
LEMMA OnceEach ==
  ASSUME CronInv
  PROVE  SlotRunsOnce
<1> SUFFICES ASSUME NEW t \in Triggers, NEW s \in 1..MaxTime
             PROVE  Cardinality({i \in Fired(t, s) : ~runs[i].deaf}) <= 1
  BY DEF SlotRunsOnce
<1> DEFINE S == {i \in Fired(t, s) : ~runs[i].deaf}
<1>1. ASSUME NEW i \in S, NEW j \in S PROVE i = j
  <2>1. /\ i \in DOMAIN runs /\ Counts(i) /\ runs[i].trigger = t /\ runs[i].slot = s
        /\ j \in DOMAIN runs /\ Counts(j) /\ runs[j].trigger = t /\ runs[j].slot = s
    BY DEF Fired, Counts
  <2> QED
    BY <2>1 DEF CronInv, RunsOnce
<1> HIDE DEF S
<1>2. CASE S = {}
  <2>1. Cardinality(S) = 0
    BY <1>2, FS_EmptySet
  <2> QED
    BY <2>1 DEF S
<1>3. CASE S # {}
  <2>1. PICK i : i \in S
    BY <1>3
  <2>2. S = {i}
    BY <1>1, <2>1
  <2>3. Cardinality(S) = 1
    BY <2>2, FS_Singleton
  <2> QED
    BY <2>3 DEF S
<1> QED
  BY <1>2, <1>3

(* Whatever the sync does to the entries while the emitter works on what it    *)
(* collected, and whichever statements fail: a slot gives one task, none is    *)
(* passed over, and the invocations of the fires tell what became of them      *)
(* (Emitter.tick, fireEntry and publish against Upsert and Delete).            *)
THEOREM SlotsAreSound == Spec => []SlotsSound
<1>1. Init => CronInv
  BY CronInit
<1>2. CronInv /\ [Next]_vars => CronInv'
  BY CronStep
<1>3. CronInv => SlotsSound
  BY OnceEach DEF CronInv, SlotsSound
<1> QED
  BY <1>1, <1>2, <1>3, PTL DEF Spec

-------------------------------------------------------------------------------
(***************************************************************************)
(* The flags of the triggers.                                              *)
(***************************************************************************)
UpdateFits(p) ==
  /\ DOMAIN p = {"pc", "trigger", "kind", "alone", "row", "named", "found", "left"}
  /\ p.pc \in {"write", "look", "flags"} /\ p.kind = "update"
  /\ p.row \in Sheets(p.trigger)
  /\ p.named \subseteq Fields(p.trigger) /\ p.found \subseteq Fields(p.trigger) /\ p.left \subseteq Fields(p.trigger)

CreateFits(p) ==
  /\ DOMAIN p = {"pc", "trigger", "kind", "alone", "row", "found", "left"}
  /\ p.pc \in {"look", "insert", "group"} /\ p.kind = "create"
  /\ p.row \in Sheets(p.trigger)
  /\ p.found \subseteq Fields(p.trigger) /\ p.left \subseteq Fields(p.trigger)

DeleteFits(p) == DOMAIN p = {"pc", "trigger", "alone"} /\ p.pc = "ungroup"

\* The request p of some trigger.
Fits(p) ==
  /\ p.trigger \in TriggerIds /\ p.alone \in BOOLEAN
  /\ UpdateFits(p) \/ CreateFits(p) \/ DeleteFits(p)

\* What p relies on: a request that has company is on record, and one that has none finds the row as
\* it has read or written it.
Relies(p) ==
  /\ p.alone \/ p.trigger \in crossed
  /\ UpdateFits(p) /\ p.alone =>
       /\ sheet[p.trigger].there
       /\ p.pc = "write" => \A f \in Fields(p.trigger) :
            /\ p.row.ok[f] => sheet[p.trigger].ok[f] /\ f \notin p.named
            /\ f \notin p.named => p.row.ref[f] = sheet[p.trigger].ref[f]
       /\ p.pc = "write" => p.found = {}
       /\ p.pc # "write" => /\ \A f \in Fields(p.trigger) : p.row.ref[f] = sheet[p.trigger].ref[f]
                            /\ p.found \subseteq proved[p.trigger]

TypistAt(p) == p = Away \/ (p.pc # "away" /\ Fits(p) /\ Relies(p))

\* Two requests on one trigger know it.
Apart ==
  \A c, d \in Typists :
    c # d /\ typist[c].pc # "away" /\ typist[d].pc # "away" /\ typist[c].trigger = typist[d].trigger =>
      ~ typist[c].alone /\ ~ typist[d].alone

SheetsFit ==
  /\ DOMAIN sheet = TriggerIds /\ DOMAIN index = TriggerIds /\ DOMAIN proved = TriggerIds
  /\ \A t \in TriggerIds : /\ sheet[t] \in Sheets(t) \union {NoSheet(t)}
                           /\ index[t] \in Sheets(t) \union {NoSheet(t)}
                           /\ proved[t] \subseteq Fields(t)

ListFits ==
  \/ syncPass = Resting
  \/ /\ DOMAIN syncPass = {"pc", "rows", "kinds", "left"} /\ syncPass.pc = "apply"
     /\ syncPass.left \subseteq DOMAIN syncPass.rows
     /\ \A t \in DOMAIN syncPass.rows : t \in TriggerIds /\ syncPass.rows[t] \in Sheets(t)

CountsFit ==
  /\ alive \subseteq Targets /\ grouped \subseteq TriggerIds /\ crossed \subseteq TriggerIds
  /\ asked \in 0..MaxTriggerAsks /\ upsetsT \in 0..MaxTriggerUpsets

DeskInv ==
  /\ SheetsFit /\ ListFits /\ CountsFit /\ Apart /\ ValidityIsEarned
  /\ DOMAIN typist = Typists /\ \A c \in Typists : TypistAt(typist[c])

LEMMA ShapeOfSheets ==
  \A t : /\ \A s \in Sheets(t) : /\ s.there = TRUE /\ s.ref \in [Fields(t) -> Targets]
                                 /\ s.ok \in [Fields(t) -> BOOLEAN] /\ s.rest \in Contents
         /\ NoSheet(t).there = FALSE /\ NoSheet(t).ok = [f \in Fields(t) |-> FALSE]
BY DEF Sheets, NoSheet

LEMMA DeskInvTells == DeskInv => TriggerDeskTypeOK /\ ValidityIsEarned
<1>. SUFFICES ASSUME DeskInv PROVE TriggerDeskTypeOK /\ ValidityIsEarned
  OBVIOUS
<1>1. \A c \in Typists : typist[c].pc \in {"away", "write", "look", "insert", "group", "flags", "ungroup"}
  BY DEF DeskInv, TypistAt, Fits, UpdateFits, CreateFits, DeleteFits, Away
<1>2. syncPass.pc \in {"resting", "apply", "prune"}
  BY DEF DeskInv, ListFits, Resting
<1>. QED BY <1>1, <1>2 DEF DeskInv, SheetsFit, CountsFit, TriggerDeskTypeOK

LEMMA DeskStart == TriggerDeskInit => DeskInv
<1>. SUFFICES ASSUME TriggerDeskInit PROVE DeskInv
  OBVIOUS
<1>1. PICK held \in [TriggerIds -> Targets \union {Keep}] :
        sheet = [t \in TriggerIds |-> IF held[t] \in alive THEN Referring(t, held[t]) ELSE NoSheet(t)]
  BY DEF TriggerDeskInit
<1>2. \A t \in TriggerIds, x \in alive : Referring(t, x) \in Sheets(t)
  BY TriggerDeskAssumption DEF TriggerDeskInit, Referring, Sheets
<1>3. \A t \in TriggerIds : sheet[t] \in Sheets(t) \union {NoSheet(t)}
  BY <1>1, <1>2
<1>4. SheetsFit
  BY <1>1, <1>3 DEF SheetsFit, TriggerDeskInit
<1>5. ValidityIsEarned
  <2>1. \A t \in TriggerIds : ~ sheet[t].there => \A f \in Fields(t) : ~ sheet[t].ok[f]
    <3>1. ASSUME NEW t \in TriggerIds, ~ sheet[t].there, NEW f \in Fields(t) PROVE ~ sheet[t].ok[f]
      <4>1. sheet[t] = NoSheet(t)
        BY <1>3, <3>1, ShapeOfSheets
      <4>2. NoSheet(t).ok = [g \in Fields(t) |-> FALSE]
        BY ShapeOfSheets
      <4>. QED BY <3>1, <4>1, <4>2
    <3>. QED BY <3>1
  <2>2. \A t \in TriggerIds : proved[t] = IF sheet[t].there THEN Fields(t) ELSE {}
    BY DEF TriggerDeskInit
  <2>. QED BY <2>1, <2>2 DEF ValidityIsEarned
<1>6. ListFits /\ CountsFit
  BY TriggerDeskAssumption DEF TriggerDeskInit, ListFits, CountsFit
<1>7. DOMAIN typist = Typists /\ \A c \in Typists : typist[c] = Away /\ typist[c].pc = "away"
  BY DEF TriggerDeskInit, Away
<1>. QED BY <1>4, <1>5, <1>6, <1>7 DEF DeskInv, Apart, TypistAt

\* Whoever of two on one trigger is asked knows of the other.
LEMMA CompanyKnown ==
  ASSUME DeskInv, NEW c \in Typists, NEW d \in Typists, c # d, typist[c] # Away, typist[d] # Away,
         typist[c].trigger = typist[d].trigger
  PROVE  ~ typist[c].alone /\ ~ typist[d].alone /\ typist[c].trigger \in crossed
<1>1. typist[c].pc # "away" /\ typist[d].pc # "away" /\ Relies(typist[c])
  BY DEF DeskInv, TypistAt
<1>2. ~ typist[c].alone /\ ~ typist[d].alone
  BY <1>1 DEF DeskInv, Apart
<1>. QED BY <1>1, <1>2 DEF Relies

\* A step of the request c that changes the row of its own trigger only.
LEMMA StepKeeps ==
  ASSUME DeskInv, NEW c \in Typists, NEW q, typist[c] # Away,
         typist' = [typist EXCEPT ![c] = q], TypistAt(q)',
         q = Away \/ (q.pc # "away" /\ q.trigger = typist[c].trigger /\ q.alone = typist[c].alone),
         \A u \in TriggerIds \ {typist[c].trigger} : sheet'[u] = sheet[u] /\ proved'[u] = proved[u],
         crossed' = crossed \/ (typist[c].alone /\ crossed' = crossed \ {typist[c].trigger}),
         SheetsFit', ListFits', CountsFit', ValidityIsEarned'
  PROVE  DeskInv'
<1>1. DOMAIN typist = Typists /\ DOMAIN typist' = Typists
  BY DEF DeskInv
<1>2. typist'[c] = q /\ \A d \in Typists \ {c} : typist'[d] = typist[d]
  BY <1>1
<1>3. ASSUME NEW d \in Typists, d # c PROVE TypistAt(typist[d])'
  <2>1. TypistAt(typist[d]) /\ typist'[d] = typist[d]
    BY <1>2, <1>3 DEF DeskInv
  <2>2. CASE typist[d] = Away
    BY <2>1, <2>2 DEF TypistAt
  <2>3. CASE typist[d] # Away /\ typist[d].trigger # typist[c].trigger
    <3>1. /\ typist[d].pc # "away" /\ Fits(typist[d]) /\ Relies(typist[d]) /\ typist[d].trigger \in TriggerIds
      BY <2>1, <2>3 DEF TypistAt, Fits
    <3>2. /\ sheet'[typist[d].trigger] = sheet[typist[d].trigger]
          /\ proved'[typist[d].trigger] = proved[typist[d].trigger]
          /\ typist[d].trigger \in crossed' <=> typist[d].trigger \in crossed
      BY <2>3, <3>1
    <3>3. Relies(typist[d])'
      <4>1. Relies(typist[d]) /\ typist'[d] = typist[d]
        BY <2>1, <3>1
      <4>. QED BY ONLY <3>2, <4>1 DEF Relies, UpdateFits
    <3>. QED BY <2>1, <3>1, <3>3 DEF TypistAt, Fits, UpdateFits, CreateFits, DeleteFits
  <2>4. CASE typist[d] # Away /\ typist[d].trigger = typist[c].trigger
    <3>1. ~ typist[c].alone /\ ~ typist[d].alone /\ typist[d].trigger \in crossed
      BY <1>3, <2>4, CompanyKnown
    <3>2. typist[d].pc # "away" /\ Fits(typist[d])
      BY <2>1, <2>4 DEF TypistAt
    <3>3. Relies(typist[d])'
      BY <2>1, <3>1 DEF Relies
    <3>. QED BY <2>1, <3>2, <3>3 DEF TypistAt, Fits, UpdateFits, CreateFits, DeleteFits
  <2>. QED BY <2>2, <2>3, <2>4
<1>4. TypistAt(typist[c])'
  BY ONLY TypistAt(q)', <1>2 DEF TypistAt, Fits, Relies, UpdateFits, CreateFits, DeleteFits
<1>5. Apart'
  <2>1. ASSUME NEW d \in Typists, d # c, typist'[c].pc # "away", typist'[d].pc # "away",
               typist'[c].trigger = typist'[d].trigger
        PROVE  ~ typist'[c].alone /\ ~ typist'[d].alone
    <3>1. typist[c].trigger = typist[d].trigger /\ typist[d] # Away /\ typist'[c].alone = typist[c].alone
      BY <1>2, <2>1 DEF Away
    <3>. QED BY <1>2, <2>1, <3>1, CompanyKnown
  <2>2. ASSUME NEW d \in Typists, NEW b \in Typists, d # c, b # c, d # b,
               typist'[b].pc # "away", typist'[d].pc # "away", typist'[b].trigger = typist'[d].trigger
        PROVE  ~ typist'[b].alone /\ ~ typist'[d].alone
    BY <1>2, <2>2 DEF DeskInv, Apart
  <2>. QED BY <2>1, <2>2 DEF Apart
<1>. QED BY <1>1, <1>3, <1>4, <1>5 DEF DeskInv

\* The parts the statements need again and again.
LEMMA DeskParts ==
  ASSUME DeskInv
  PROVE  /\ SheetsFit /\ ListFits /\ CountsFit /\ ValidityIsEarned
         /\ DOMAIN sheet = TriggerIds /\ DOMAIN index = TriggerIds /\ DOMAIN proved = TriggerIds
         /\ DOMAIN typist = Typists /\ \A c \in Typists : TypistAt(typist[c])
BY DEF DeskInv, SheetsFit

LEMMA FieldsKnown == \A t \in TriggerIds : \A f \in Fields(t) : f \in {"agent", "connector", "schedule"}
BY DEF Fields

\* A request that enters: whoever is at its trigger is not alone any longer.
LEMMA EnterKeeps ==
  ASSUME DeskInv, NEW c \in Typists, NEW t \in TriggerIds, NEW q, Enter(c, t, q),
         TypistAt(q)', q.pc # "away", q.trigger = t, q.alone = (Others(c, t) = {}),
         \A u \in TriggerIds \ {t} : sheet'[u] = sheet[u] /\ proved'[u] = proved[u],
         SheetsFit', ListFits', CountsFit', ValidityIsEarned'
  PROVE  DeskInv'
<1>0. /\ typist[c] = Away
      /\ typist' = [d \in Typists |-> IF d = c THEN q ELSE
                      IF d \in Others(c, t) THEN [typist[d] EXCEPT !.alone = FALSE] ELSE typist[d]]
      /\ crossed' = IF Others(c, t) = {} THEN crossed ELSE crossed \union {t}
  BY DEF Enter
<1>1. /\ DOMAIN typist' = Typists /\ typist'[c] = q
      /\ \A d \in Typists \ {c} : d \notin Others(c, t) => typist'[d] = typist[d]
      /\ \A d \in Others(c, t) : typist'[d] = [typist[d] EXCEPT !.alone = FALSE]
  BY <1>0 DEF Others
<1>2. ASSUME NEW d \in Typists, d # c, typist[d].pc # "away"
      PROVE  /\ Fits(typist[d]) /\ Relies(typist[d])
             /\ d \in Others(c, t) <=> typist[d].trigger = t
  BY <1>2, DeskParts DEF TypistAt, Others, Away
<1>3. ASSUME NEW d \in Others(c, t)
      PROVE  /\ Fits(typist'[d])
             /\ typist'[d].alone = FALSE /\ typist'[d].trigger = t /\ typist'[d].pc = typist[d].pc
             /\ typist[d].pc # "away"
  <2>1. d \in Typists /\ d # c /\ typist[d].pc # "away" /\ typist[d].trigger = t /\ Fits(typist[d])
    BY <1>2 DEF Others
  <2>2. typist'[d] = [typist[d] EXCEPT !.alone = FALSE]
    BY <1>1
  <2>3. PICK r : r = [typist[d] EXCEPT !.alone = FALSE]
    OBVIOUS
  <2>4. /\ DOMAIN r = DOMAIN typist[d] /\ r.alone = FALSE
        /\ \A field \in DOMAIN typist[d] \ {"alone"} : r[field] = typist[d][field]
    BY <2>1, <2>3 DEF Fits, UpdateFits, CreateFits, DeleteFits
  <2>5. Fits(r) /\ r.trigger = t /\ r.pc = typist[d].pc
    <3>1. CASE UpdateFits(typist[d])
      <4>1. /\ r.pc = typist[d].pc /\ r.trigger = typist[d].trigger /\ r.kind = typist[d].kind
            /\ r.row = typist[d].row /\ r.named = typist[d].named /\ r.found = typist[d].found
            /\ r.left = typist[d].left
        BY <2>4, <3>1 DEF UpdateFits
      <4>. QED BY <2>1, <2>4, <3>1, <4>1 DEF Fits, UpdateFits
    <3>2. CASE CreateFits(typist[d])
      <4>1. /\ r.pc = typist[d].pc /\ r.trigger = typist[d].trigger /\ r.kind = typist[d].kind
            /\ r.row = typist[d].row /\ r.found = typist[d].found /\ r.left = typist[d].left
        BY <2>4, <3>2 DEF CreateFits
      <4>. QED BY <2>1, <2>4, <3>2, <4>1 DEF Fits, CreateFits
    <3>3. CASE DeleteFits(typist[d])
      <4>1. r.pc = typist[d].pc /\ r.trigger = typist[d].trigger
        BY <2>4, <3>3 DEF DeleteFits
      <4>. QED BY <2>1, <2>4, <3>3, <4>1 DEF Fits, DeleteFits
    <3>. QED BY <2>1, <3>1, <3>2, <3>3 DEF Fits
  <2>. QED BY <2>1, <2>2, <2>3, <2>4, <2>5
<1>4. ASSUME NEW d \in Typists PROVE TypistAt(typist[d])'
  <2>1. CASE d = c
    BY <1>1, <2>1 DEF TypistAt, Fits, Relies, UpdateFits, CreateFits, DeleteFits
  <2>2. CASE d \in Others(c, t)
    <3>1. /\ Fits(typist'[d]) /\ typist'[d].alone = FALSE /\ typist'[d].trigger = t /\ typist'[d].pc # "away"
      BY <1>3, <2>2
    <3>2. t \in crossed'
      BY <1>0, <2>2
    <3>3. Relies(typist[d])'
      BY <3>1, <3>2 DEF Relies
    <3>. QED BY <3>1, <3>3 DEF TypistAt, Fits, UpdateFits, CreateFits, DeleteFits
  <2>3. CASE d # c /\ typist[d].pc # "away" /\ d \notin Others(c, t)
    <3>1. /\ Fits(typist[d]) /\ Relies(typist[d]) /\ typist[d].trigger \in TriggerIds \ {t}
      BY <1>2, <2>3 DEF Fits
    <3>2. typist'[d] = typist[d]
      BY <1>1, <2>3
    <3>3. /\ sheet'[typist[d].trigger] = sheet[typist[d].trigger]
          /\ proved'[typist[d].trigger] = proved[typist[d].trigger]
          /\ crossed \subseteq crossed'
      BY <1>0, <3>1
    <3>4. Relies(typist[d])'
      BY <3>1, <3>2, <3>3 DEF Relies, UpdateFits
    <3>. QED BY <2>3, <3>1, <3>2, <3>4 DEF TypistAt, Fits, UpdateFits, CreateFits, DeleteFits
  <2>4. CASE d # c /\ typist[d].pc = "away"
    <3>1. typist[d] = Away /\ typist'[d] = typist[d]
      BY <1>1, <2>4, DeskParts DEF TypistAt, Others
    <3>. QED BY <3>1 DEF TypistAt
  <2>. QED BY <2>1, <2>2, <2>3, <2>4
<1>5. Apart'
  <2>1. ASSUME NEW d \in Typists, d # c, typist'[d].pc # "away", typist'[d].trigger = t
        PROVE  ~ typist'[c].alone /\ ~ typist'[d].alone
    <3>1. d \in Others(c, t)
      BY <1>1, <1>2, <2>1 DEF Others
    <3>. QED BY <1>1, <1>3, <3>1
  <2>2. ASSUME NEW d \in Typists, NEW b \in Typists, d # c, b # c, d # b,
               typist'[b].pc # "away", typist'[d].pc # "away", typist'[b].trigger = typist'[d].trigger
        PROVE  ~ typist'[b].alone /\ ~ typist'[d].alone
    <3>1. CASE b \in Others(c, t)
      <4>1. d \in Others(c, t)
        BY <1>1, <1>2, <1>3, <2>2, <3>1 DEF Others
      <4>. QED BY <1>3, <3>1, <4>1
    <3>2. CASE d \in Others(c, t)
      <4>1. b \in Others(c, t)
        BY <1>1, <1>2, <1>3, <2>2, <3>2 DEF Others
      <4>. QED BY <1>3, <3>2, <4>1
    <3>3. CASE b \notin Others(c, t) /\ d \notin Others(c, t)
      BY <1>1, <2>2, <3>3 DEF DeskInv, Apart
    <3>. QED BY <3>1, <3>2, <3>3
  <2>3. ASSUME NEW b \in Typists, NEW d \in Typists, b # d, typist'[b].pc # "away", typist'[d].pc # "away",
               typist'[b].trigger = typist'[d].trigger
        PROVE  ~ typist'[b].alone /\ ~ typist'[d].alone
    <3>1. CASE b = c
      BY <1>1, <2>1, <2>3, <3>1
    <3>2. CASE d = c
      BY <1>1, <2>1, <2>3, <3>2
    <3>3. CASE b # c /\ d # c
      BY <2>2, <2>3, <3>3
    <3>. QED BY <3>1, <3>2, <3>3
  <2>. QED BY <2>3 DEF Apart
<1>. QED BY <1>1, <1>4, <1>5 DEF DeskInv

\* The merged row is a row, and keeps the flags of what it does not name only.
LEMMA MergedFits ==
  ASSUME NEW t \in TriggerIds, NEW old \in Sheets(t), NEW want \in [Fields(t) -> Targets \union {Keep}],
         NEW rest \in Contents \union {Keep}
  PROVE  /\ Merged(old, want, rest) \in Sheets(t) /\ Named(want) \subseteq Fields(t)
         /\ \A f \in Fields(t) :
              /\ Merged(old, want, rest).ok[f] => old.ok[f] /\ f \notin Named(want)
              /\ f \notin Named(want) => Merged(old, want, rest).ref[f] = old.ref[f]
<1>1. PICK ref, ok, body :
        /\ ref = [f \in Fields(t) |-> IF f \in Named(want) THEN want[f] ELSE old.ref[f]]
        /\ ok = [f \in Fields(t) |-> old.ok[f] /\ f \notin Named(want)]
        /\ body = IF rest = Keep THEN old.rest ELSE rest
  OBVIOUS
<1>2. /\ old.ref \in [Fields(t) -> Targets] /\ old.ok \in [Fields(t) -> BOOLEAN] /\ old.rest \in Contents
      /\ Named(want) \subseteq Fields(t) /\ \A f \in Named(want) : want[f] \in Targets
  BY ShapeOfSheets DEF Named
<1>3. ref \in [Fields(t) -> Targets] /\ ok \in [Fields(t) -> BOOLEAN] /\ body \in Contents
  BY <1>1, <1>2
<1>4. Merged(old, want, rest) = [old EXCEPT !.ref = ref, !.ok = ok, !.rest = body]
  BY <1>1 DEF Merged
<1>5. PICK new : new = [old EXCEPT !.ref = ref, !.ok = ok, !.rest = body]
  OBVIOUS
<1>6. new \in Sheets(t) /\ new.ref = ref /\ new.ok = ok
  BY <1>3, <1>5 DEF Sheets
<1>7. Merged(old, want, rest) = new
  BY <1>4, <1>5
<1>8. \A f \in Fields(t) : /\ new.ok[f] => old.ok[f] /\ f \notin Named(want)
                           /\ f \notin Named(want) => new.ref[f] = old.ref[f]
  BY ONLY <1>1, <1>6
<1>. QED BY <1>2, <1>6, <1>7, <1>8

\* Nothing but the requests and what is on record of them.
LEMMA RowsStand ==
  ASSUME DeskInv, UNCHANGED <<sheet, index, proved, syncPass, alive, grouped>>,
         crossed \subseteq crossed', crossed' \subseteq TriggerIds,
         asked' \in 0..MaxTriggerAsks, upsetsT' \in 0..MaxTriggerUpsets
  PROVE  SheetsFit' /\ ListFits' /\ CountsFit' /\ ValidityIsEarned'
<1>1. SheetsFit' /\ ListFits' /\ CountsFit'
  BY DeskParts DEF SheetsFit, ListFits, CountsFit
<1>2. ValidityIsEarned'
  BY DeskParts DEF ValidityIsEarned
<1>. QED BY <1>1, <1>2

LEMMA BoundsKept ==
  ASSUME CountsFit
  PROVE  /\ asked < MaxTriggerAsks => asked + 1 \in 0..MaxTriggerAsks
         /\ Upset => upsetsT' \in 0..MaxTriggerUpsets
BY TriggerDeskAssumption DEF CountsFit, Upset

LEMMA CreateHolds ==
  ASSUME DeskInv, NEW c \in Typists, NEW t \in TriggerIds, NEW refs \in [Fields(t) -> Targets],
         NEW rest \in Contents, AskCreate(c, t, refs, rest)
  PROVE  DeskInv'
<1>1. PICK page, q :
        /\ page = [there |-> TRUE, ref |-> refs, rest |-> rest, ok |-> [f \in Fields(t) |-> FALSE]]
        /\ q = [pc |-> "look", trigger |-> t, kind |-> "create", alone |-> TRUE,
                row |-> page, found |-> {}, left |-> Fields(t)]
  OBVIOUS
<1>2. /\ Enter(c, t, q) /\ Others(c, t) = {}
      /\ UNCHANGED <<sheet, index, proved, syncPass, alive, grouped, upsetsT>>
  BY <1>1 DEF AskCreate
<1>3. page \in Sheets(t)
  BY <1>1 DEF Sheets
<1>4. CreateFits(q) /\ Fits(q) /\ q.alone /\ q.trigger = t /\ q.pc = "look" /\ ~ UpdateFits(q)
  BY <1>1, <1>3 DEF CreateFits, Fits, UpdateFits
<1>5. Relies(q)'
  BY <1>4 DEF Relies, UpdateFits
<1>6. TypistAt(q)'
  BY <1>4, <1>5 DEF TypistAt, Fits, UpdateFits, CreateFits, DeleteFits
<1>7. SheetsFit' /\ ListFits' /\ CountsFit' /\ ValidityIsEarned'
  BY <1>2, DeskParts, BoundsKept, RowsStand DEF Enter, CountsFit
<1>8. q.pc # "away" /\ q.alone = (Others(c, t) = {})
  BY <1>1, <1>2
<1>. QED BY <1>2, <1>4, <1>6, <1>7, <1>8, EnterKeeps

LEMMA UpdateHolds ==
  ASSUME DeskInv, NEW c \in Typists, NEW t \in TriggerIds, NEW want \in [Fields(t) -> Targets \union {Keep}],
         NEW rest \in Contents \union {Keep}, AskUpdate(c, t, want, rest)
  PROVE  DeskInv'
<1>1. PICK page, q :
        /\ page = Merged(sheet[t], want, rest)
        /\ q = [pc |-> "write", trigger |-> t, kind |-> "update", alone |-> Others(c, t) = {},
                row |-> page, named |-> Named(want), found |-> {}, left |-> Fields(t)]
  OBVIOUS
<1>2. /\ Enter(c, t, q) /\ sheet[t].there
      /\ UNCHANGED <<sheet, index, proved, syncPass, alive, grouped, upsetsT>>
  BY <1>1 DEF AskUpdate
<1>3. sheet[t] \in Sheets(t)
  BY <1>2, DeskParts, ShapeOfSheets DEF SheetsFit
<1>4. /\ page \in Sheets(t) /\ Named(want) \subseteq Fields(t)
      /\ \A f \in Fields(t) : /\ page.ok[f] => sheet[t].ok[f] /\ f \notin Named(want)
                              /\ f \notin Named(want) => page.ref[f] = sheet[t].ref[f]
  BY <1>1, <1>3, MergedFits
<1>5. /\ DOMAIN q = {"pc", "trigger", "kind", "alone", "row", "named", "found", "left"}
      /\ q.pc = "write" /\ q.trigger = t /\ q.kind = "update" /\ q.alone = (Others(c, t) = {})
      /\ q.row = page /\ q.named = Named(want) /\ q.found = {} /\ q.left = Fields(t)
  BY <1>1
<1>6. Fits(q)
  BY <1>4, <1>5 DEF Fits, UpdateFits
<1>7. q.alone \/ t \in crossed'
  BY <1>2, <1>5 DEF Enter
<1>8. Relies(q)'
  BY <1>2, <1>4, <1>5, <1>7 DEF Relies
<1>9. TypistAt(q)'
  BY <1>5, <1>6, <1>8 DEF TypistAt, Fits, UpdateFits, CreateFits, DeleteFits
<1>10. SheetsFit' /\ ListFits' /\ CountsFit' /\ ValidityIsEarned'
  BY <1>2, DeskParts, BoundsKept, RowsStand DEF Enter, CountsFit
<1>11. q.pc # "away"
  BY <1>5
<1>. QED BY <1>2, <1>5, <1>9, <1>10, <1>11, EnterKeeps

LEMMA DeleteHolds ==
  ASSUME DeskInv, NEW c \in Typists, NEW t \in TriggerIds, DeleteSheet(c, t)
  PROVE  DeskInv'
<1>1. PICK q : q = [pc |-> "ungroup", trigger |-> t, alone |-> Others(c, t) = {}]
  OBVIOUS
<1>2. /\ Enter(c, t, q) /\ sheet' = [sheet EXCEPT ![t] = NoSheet(t)] /\ proved' = [proved EXCEPT ![t] = {}]
      /\ UNCHANGED <<index, syncPass, alive, grouped, upsetsT>>
  BY <1>1 DEF DeleteSheet
<1>3. /\ DOMAIN sheet' = TriggerIds /\ DOMAIN proved' = TriggerIds
      /\ sheet'[t] = NoSheet(t) /\ proved'[t] = {}
      /\ \A u \in TriggerIds \ {t} : sheet'[u] = sheet[u] /\ proved'[u] = proved[u]
  BY <1>2, DeskParts
<1>4. /\ DOMAIN q = {"pc", "trigger", "alone"}
      /\ q.pc = "ungroup" /\ q.trigger = t /\ q.alone = (Others(c, t) = {})
  BY <1>1
<1>5. Fits(q) /\ ~ UpdateFits(q)
  BY <1>4 DEF Fits, DeleteFits, UpdateFits
<1>6. q.alone \/ t \in crossed'
  BY <1>2, <1>4 DEF Enter
<1>7. Relies(q)'
  BY <1>4, <1>5, <1>6 DEF Relies, UpdateFits
<1>8. TypistAt(q)'
  BY <1>4, <1>5, <1>7 DEF TypistAt, Fits, UpdateFits, CreateFits, DeleteFits
<1>9. SheetsFit'
  BY <1>2, <1>3, DeskParts DEF SheetsFit
<1>10. ListFits' /\ CountsFit'
  BY <1>2, DeskParts, BoundsKept DEF ListFits, CountsFit, Enter
<1>11. ValidityIsEarned'
  <2>1. \A f \in Fields(t) : ~ sheet'[t].ok[f]
    <3>1. NoSheet(t).ok = [f \in Fields(t) |-> FALSE]
      BY ShapeOfSheets
    <3>. QED BY ONLY <1>3, <3>1
  <2>2. crossed \subseteq crossed'
    BY <1>2 DEF Enter
  <2>. QED BY <1>3, <2>1, <2>2, DeskParts DEF ValidityIsEarned
<1>12. q.pc # "away"
  BY <1>4
<1>. QED BY <1>2, <1>3, <1>4, <1>8, <1>9, <1>10, <1>11, <1>12, EnterKeeps

\* Whoever stands somewhere is a request that fits.
LEMMA RequestAt ==
  ASSUME DeskInv, NEW c \in Typists, typist[c].pc # "away"
  PROVE  /\ typist[c] # Away /\ Fits(typist[c]) /\ Relies(typist[c]) /\ typist[c].trigger \in TriggerIds
         /\ typist[c].pc \in {"write", "flags"} => UpdateFits(typist[c])
         /\ typist[c].pc = "insert" => CreateFits(typist[c])
         /\ typist[c].pc = "look" => UpdateFits(typist[c]) \/ CreateFits(typist[c])
<1>1. typist[c] # Away /\ Fits(typist[c]) /\ Relies(typist[c])
  BY DeskParts DEF TypistAt, Away
<1>. QED BY <1>1 DEF Fits, UpdateFits, CreateFits, DeleteFits

LEMMA WriteHolds ==
  ASSUME DeskInv, NEW c \in Typists, WriteSheet(c)
  PROVE  DeskInv'
<1>1. PICK p, t, q : p = typist[c] /\ t = p.trigger /\ q = [p EXCEPT !.pc = "look"]
  OBVIOUS
<1>2. /\ p.pc = "write" /\ typist' = [typist EXCEPT ![c] = q]
      /\ IF sheet[t].there
         THEN /\ sheet' = [sheet EXCEPT ![t] = p.row]
              /\ proved' = [proved EXCEPT ![t] =
                   {f \in proved[t] \ p.named : p.row.ref[f] = sheet[t].ref[f]}]
         ELSE UNCHANGED <<sheet, proved>>
      /\ UNCHANGED <<alive, grouped, index, syncPass, deskBounds, crossed>>
  BY <1>1 DEF WriteSheet, Proceed
<1>3. /\ p # Away /\ Fits(p) /\ Relies(p) /\ t \in TriggerIds /\ UpdateFits(p)
  BY <1>1, <1>2, RequestAt
<1>4. /\ DOMAIN q = DOMAIN p /\ q.pc = "look" /\ q.trigger = t /\ q.kind = p.kind /\ q.alone = p.alone
      /\ q.row = p.row /\ q.named = p.named /\ q.found = p.found /\ q.left = p.left
  BY <1>1, <1>3 DEF UpdateFits
<1>5. UpdateFits(q) /\ Fits(q)
  BY <1>1, <1>3, <1>4 DEF Fits, UpdateFits
<1>6. /\ \A u \in TriggerIds \ {t} : sheet'[u] = sheet[u] /\ proved'[u] = proved[u]
      /\ DOMAIN sheet' = TriggerIds /\ DOMAIN proved' = TriggerIds
      /\ sheet[t].there => sheet'[t] = p.row /\ proved'[t] = {f \in proved[t] \ p.named : p.row.ref[f] = sheet[t].ref[f]}
  BY <1>2, <1>3, DeskParts
<1>7. p.alone => /\ sheet[t].there /\ p.found = {}
                 /\ \A f \in Fields(t) : /\ p.row.ok[f] => sheet[t].ok[f] /\ f \notin p.named
                                         /\ f \notin p.named => p.row.ref[f] = sheet[t].ref[f]
  BY <1>1, <1>2, <1>3 DEF Relies
<1>8. p.row \in Sheets(t)
  BY <1>1, <1>3 DEF UpdateFits
<1>9. Relies(q)'
  <2>1. p.alone \/ t \in crossed'
    BY <1>1, <1>2, <1>3 DEF Relies
  <2>2. p.alone => sheet'[t] = p.row /\ p.row.there = TRUE
    BY <1>6, <1>7, <1>8, ShapeOfSheets
  <2>. QED BY <1>4, <1>5, <1>7, <2>1, <2>2 DEF Relies
<1>10. TypistAt(q)'
  BY <1>4, <1>5, <1>9 DEF TypistAt, Fits, UpdateFits, CreateFits, DeleteFits
<1>11. SheetsFit'
  <2>1. sheet'[t] \in Sheets(t) \union {NoSheet(t)} /\ proved'[t] \subseteq Fields(t)
    BY <1>2, <1>3, <1>6, <1>8, DeskParts DEF SheetsFit
  <2>. QED BY <1>2, <1>6, <2>1, DeskParts DEF SheetsFit
<1>12. ListFits' /\ CountsFit'
  BY <1>2, DeskParts DEF ListFits, CountsFit, deskBounds
<1>13. ValidityIsEarned'
  <2>1. ASSUME NEW f \in Fields(t), t \notin crossed, sheet'[t].ok[f] PROVE f \in proved'[t]
    <3>1. p.alone
      BY <1>1, <1>3, <2>1 DEF Relies
    <3>2. sheet'[t] = p.row /\ sheet[t].ok[f] /\ f \notin p.named /\ p.row.ref[f] = sheet[t].ref[f]
      BY <1>6, <1>7, <2>1, <3>1
    <3>3. f \in proved[t]
      BY <1>3, <2>1, <3>2, DeskParts DEF ValidityIsEarned
    <3>. QED BY <1>6, <1>7, <3>1, <3>2, <3>3
  <2>. QED BY <1>2, <1>6, <2>1, DeskParts DEF ValidityIsEarned
<1>14. typist[c] # Away /\ typist[c].trigger = t /\ q.pc # "away" /\ q.alone = typist[c].alone /\ crossed' = crossed
  BY <1>1, <1>2, <1>3, <1>4
<1>. QED BY <1>2, <1>4, <1>6, <1>10, <1>11, <1>12, <1>13, <1>14, StepKeeps

LEMMA LookHolds ==
  ASSUME DeskInv, NEW c \in Typists, NEW f, Look(c, f)
  PROVE  DeskInv'
<1>1. PICK p, t, found, to :
        /\ p = typist[c] /\ t = p.trigger
        /\ found = (IF Exists(f, p.row.ref[f]) THEN p.found \union {f} ELSE p.found)
        /\ to = (IF p.left # {f} THEN "look" ELSE IF p.kind = "create" THEN "insert" ELSE "flags")
  OBVIOUS
<1>2. PICK q : q = [p EXCEPT !.found = found, !.left = p.left \ {f}, !.pc = to]
  OBVIOUS
<1>3. /\ p.pc = "look" /\ f \in p.left /\ typist' = [typist EXCEPT ![c] = q]
      /\ proved' = IF p.kind = "update" /\ f \in found /\ sheet[t].ref[f] = p.row.ref[f]
                   THEN [proved EXCEPT ![t] = proved[t] \union {f}] ELSE proved
      /\ UNCHANGED <<sheet, alive, grouped, index, syncPass, deskBounds, crossed>>
  BY <1>1, <1>2 DEF Look, Proceed
<1>4. p # Away /\ Fits(p) /\ Relies(p) /\ t \in TriggerIds /\ (UpdateFits(p) \/ CreateFits(p))
  BY <1>1, <1>3, RequestAt
<1>5. f \in Fields(t) /\ found \subseteq Fields(t) /\ found \subseteq p.found \union {f}
  BY <1>1, <1>3, <1>4 DEF UpdateFits, CreateFits
<1>6. /\ DOMAIN q = DOMAIN p /\ q.pc = to /\ q.trigger = t /\ q.kind = p.kind /\ q.alone = p.alone
      /\ q.row = p.row /\ q.found = found /\ q.left = p.left \ {f}
      /\ UpdateFits(p) => q.named = p.named
  BY <1>1, <1>2, <1>4 DEF UpdateFits, CreateFits
<1>7. /\ UpdateFits(p) => UpdateFits(q) /\ q.pc # "write"
      /\ CreateFits(p) => CreateFits(q) /\ ~ UpdateFits(q)
  BY <1>1, <1>4, <1>5, <1>6 DEF UpdateFits, CreateFits
<1>8. Fits(q) /\ q.pc # "away"
  BY <1>1, <1>4, <1>6, <1>7 DEF Fits
<1>9. /\ \A u \in TriggerIds \ {t} : sheet'[u] = sheet[u] /\ proved'[u] = proved[u]
      /\ DOMAIN proved' = TriggerIds
      /\ proved[t] \subseteq proved'[t] /\ proved'[t] \subseteq proved[t] \union {f}
      /\ p.kind = "update" /\ f \in found /\ sheet[t].ref[f] = p.row.ref[f] => f \in proved'[t]
  BY <1>3, <1>4, DeskParts
<1>10. Relies(q)'
  <2>1. CASE CreateFits(p)
    BY <1>1, <1>3, <1>4, <1>6, <1>7, <2>1 DEF Relies, UpdateFits
  <2>2. CASE UpdateFits(p)
    <3>1. /\ p.alone => /\ sheet[t].there /\ \A g \in Fields(t) : p.row.ref[g] = sheet[t].ref[g]
                        /\ p.found \subseteq proved[t]
          /\ p.alone \/ t \in crossed
      BY <1>1, <1>3, <1>4, <2>2 DEF Relies
    <3>2. p.alone => found \subseteq proved'[t]
      BY <1>5, <1>9, <2>2, <3>1 DEF UpdateFits
    <3>. QED BY <1>3, <1>6, <1>7, <2>2, <3>1, <3>2 DEF Relies
  <2>. QED BY <1>4, <2>1, <2>2
<1>11. TypistAt(q)'
  BY <1>8, <1>10 DEF TypistAt, Fits, UpdateFits, CreateFits, DeleteFits
<1>12. SheetsFit' /\ ListFits' /\ CountsFit'
  <2>1. proved'[t] \subseteq Fields(t)
    BY <1>4, <1>5, <1>9, DeskParts DEF SheetsFit
  <2>. QED BY <1>3, <1>9, <2>1, DeskParts DEF SheetsFit, ListFits, CountsFit, deskBounds
<1>13. ValidityIsEarned'
  BY <1>3, <1>9, DeskParts DEF ValidityIsEarned
<1>14. typist[c] # Away /\ typist[c].trigger = t /\ q.alone = typist[c].alone /\ crossed' = crossed
  BY <1>1, <1>3, <1>4, <1>6
<1>. QED BY <1>3, <1>6, <1>8, <1>9, <1>11, <1>12, <1>13, <1>14, StepKeeps

LEMMA InsertHolds ==
  ASSUME DeskInv, NEW c \in Typists, InsertSheet(c)
  PROVE  DeskInv'
<1>1. PICK p, t, q, page :
        p = typist[c] /\ t = p.trigger /\ q = [p EXCEPT !.pc = "group"] /\ page = Flagged(p)
  OBVIOUS
<1>2. /\ p.pc = "insert" /\ typist' = [typist EXCEPT ![c] = q]
      /\ sheet' = [sheet EXCEPT ![t] = page] /\ proved' = [proved EXCEPT ![t] = p.found]
      /\ UNCHANGED <<alive, grouped, index, syncPass, deskBounds, crossed>>
  BY <1>1 DEF InsertSheet, Proceed
<1>3. p # Away /\ Fits(p) /\ Relies(p) /\ t \in TriggerIds /\ CreateFits(p)
  BY <1>1, <1>2, RequestAt
<1>4. p.row \in Sheets(t) /\ p.found \subseteq Fields(t)
  BY <1>1, <1>3 DEF CreateFits
<1>5. page \in Sheets(t) /\ page.ok = [f \in Fields(t) |-> f \in p.found]
  <2>1. DOMAIN p.row.ok = Fields(t)
    BY <1>4, ShapeOfSheets
  <2>2. PICK ok : ok = [f \in Fields(t) |-> f \in p.found]
    OBVIOUS
  <2>3. page = [p.row EXCEPT !.ok = ok]
    BY <1>1, <2>1, <2>2 DEF Flagged
  <2>4. ok \in [Fields(t) -> BOOLEAN]
    BY <2>2
  <2>5. [p.row EXCEPT !.ok = ok] \in Sheets(t) /\ [p.row EXCEPT !.ok = ok].ok = ok
    BY <1>4, <2>4 DEF Sheets
  <2>. QED BY <2>2, <2>3, <2>5
<1>6. /\ DOMAIN q = DOMAIN p /\ q.pc = "group" /\ q.trigger = t /\ q.kind = p.kind /\ q.alone = p.alone
      /\ q.row = p.row /\ q.found = p.found /\ q.left = p.left
  BY <1>1, <1>3 DEF CreateFits
<1>7. CreateFits(q) /\ ~ UpdateFits(q) /\ Fits(q)
  BY <1>1, <1>3, <1>6 DEF CreateFits, UpdateFits, Fits
<1>8. Relies(q)'
  BY <1>1, <1>2, <1>3, <1>6, <1>7 DEF Relies, UpdateFits
<1>9. TypistAt(q)'
  BY <1>6, <1>7, <1>8 DEF TypistAt, Fits, UpdateFits, CreateFits, DeleteFits
<1>10. /\ \A u \in TriggerIds \ {t} : sheet'[u] = sheet[u] /\ proved'[u] = proved[u]
       /\ DOMAIN sheet' = TriggerIds /\ DOMAIN proved' = TriggerIds
       /\ sheet'[t] = page /\ proved'[t] = p.found
  BY <1>2, <1>3, DeskParts
<1>11. SheetsFit' /\ ListFits' /\ CountsFit'
  BY <1>2, <1>4, <1>5, <1>10, DeskParts DEF SheetsFit, ListFits, CountsFit, deskBounds
<1>12. ValidityIsEarned'
  <2>1. \A f \in Fields(t) : sheet'[t].ok[f] => f \in proved'[t]
    BY ONLY <1>5, <1>10
  <2>. QED BY <1>2, <1>10, <2>1, DeskParts DEF ValidityIsEarned
<1>13. typist[c] # Away /\ typist[c].trigger = t /\ q.pc # "away" /\ q.alone = typist[c].alone /\ crossed' = crossed
  BY <1>1, <1>2, <1>3, <1>6
<1>. QED BY <1>2, <1>6, <1>9, <1>10, <1>11, <1>12, <1>13, StepKeeps

LEMMA GroupHolds ==
  ASSUME DeskInv, NEW c \in Typists, SetGroup(c)
  PROVE  DeskInv'
<1>1. /\ typist[c].pc \in {"group", "ungroup"} /\ typist' = [typist EXCEPT ![c] = Away]
      /\ UNCHANGED <<sheet, alive, index, syncPass, asked, proved, crossed>>
      /\ grouped' \subseteq grouped \union {typist[c].trigger}
      /\ upsetsT' = upsetsT \/ Upset
  BY DEF SetGroup, Leave, Proceed
<1>2. typist[c] # Away /\ typist[c].trigger \in TriggerIds
  BY <1>1, RequestAt
<1>3. TypistAt(Away)'
  BY DEF TypistAt, Away
<1>4. SheetsFit' /\ ListFits' /\ ValidityIsEarned'
  BY <1>1, DeskParts DEF SheetsFit, ListFits, ValidityIsEarned
<1>5. CountsFit'
  BY <1>1, <1>2, DeskParts, BoundsKept DEF CountsFit
<1>. QED BY <1>1, <1>2, <1>3, <1>4, <1>5, StepKeeps

LEMMA ValidityHolds ==
  ASSUME DeskInv, NEW c \in Typists, SetValidity(c)
  PROVE  DeskInv'
<1>1. PICK p, t, flags :
        p = typist[c] /\ t = p.trigger /\ flags = [f \in Fields(t) |-> f \in p.found]
  OBVIOUS
<1>2. /\ p.pc = "flags" /\ typist' = [typist EXCEPT ![c] = Away]
      /\ UNCHANGED <<alive, grouped, index, syncPass, asked, proved>>
  BY <1>1 DEF SetValidity, Leave, Proceed
<1>3. p # Away /\ Relies(p) /\ t \in TriggerIds /\ UpdateFits(p)
  BY <1>1, <1>2, RequestAt
<1>4. TypistAt(Away)'
  BY DEF TypistAt, Away
<1>5. CASE Upset /\ UNCHANGED <<sheet, crossed>>
  <2>1. SheetsFit' /\ ListFits' /\ ValidityIsEarned'
    BY <1>2, <1>5, DeskParts DEF SheetsFit, ListFits, ValidityIsEarned
  <2>2. CountsFit'
    BY <1>2, <1>5, DeskParts, BoundsKept DEF CountsFit
  <2>. QED BY <1>1, <1>2, <1>3, <1>4, <1>5, <2>1, <2>2, StepKeeps
<1>6. CASE /\ sheet' = IF sheet[t].there THEN [sheet EXCEPT ![t].ok = flags] ELSE sheet
           /\ crossed' = IF p.alone THEN crossed \ {t} ELSE crossed
           /\ UNCHANGED upsetsT
  <2>1. PICK page : page = [sheet[t] EXCEPT !.ok = flags]
    OBVIOUS
  <2>2. /\ \A u \in TriggerIds \ {t} : sheet'[u] = sheet[u]
        /\ DOMAIN sheet' = TriggerIds
        /\ sheet[t].there => sheet'[t] = page
        /\ ~ sheet[t].there => sheet'[t] = sheet[t]
    BY <1>3, <1>6, <2>1, DeskParts
  <2>3. sheet[t].there => page \in Sheets(t) /\ page.ok = flags
    <3>1. flags \in [Fields(t) -> BOOLEAN]
      BY <1>1
    <3>2. sheet[t].there => sheet[t] \in Sheets(t)
      BY <1>3, DeskParts, ShapeOfSheets DEF SheetsFit
    <3>. QED BY ONLY <2>1, <3>1, <3>2 DEF Sheets
  <2>4. SheetsFit'
    BY <1>2, <1>3, <2>2, <2>3, DeskParts DEF SheetsFit
  <2>5. ListFits' /\ CountsFit'
    BY <1>2, <1>6, DeskParts DEF ListFits, CountsFit
  <2>6. ValidityIsEarned'
    <3>1. ASSUME NEW f \in Fields(t), t \notin crossed', sheet'[t].ok[f] PROVE f \in proved'[t]
      <4>1. p.alone
        BY <1>1, <1>3, <1>6, <3>1 DEF Relies
      <4>2. sheet[t].there /\ p.found \subseteq proved[t]
        BY <1>1, <1>2, <1>3, <4>1 DEF Relies
      <4>3. sheet'[t].ok = flags
        BY <2>2, <2>3, <4>2
      <4>4. flags[f] = (f \in p.found)
        BY <1>1
      <4>. QED BY <1>2, <3>1, <4>2, <4>3, <4>4
    <3>. QED BY <1>2, <1>6, <2>2, <3>1, DeskParts DEF ValidityIsEarned
  <2>7. \A u \in TriggerIds \ {typist[c].trigger} : sheet'[u] = sheet[u] /\ proved'[u] = proved[u]
    BY <1>1, <1>2, <2>2
  <2>8. crossed' = crossed \/ (typist[c].alone /\ crossed' = crossed \ {typist[c].trigger})
    BY <1>1, <1>6
  <2>. QED BY <1>1, <1>2, <1>3, <1>4, <2>4, <2>5, <2>6, <2>7, <2>8, StepKeeps
<1>. QED BY <1>1, <1>5, <1>6 DEF SetValidity

\* What leaves the requests and the rows alone.
LEMMA AsideKeeps ==
  ASSUME DeskInv, UNCHANGED <<typist, sheet, proved, crossed>>, SheetsFit', ListFits', CountsFit'
  PROVE  DeskInv'
<1>1. Apart' /\ ValidityIsEarned'
  BY DEF DeskInv, Apart, ValidityIsEarned
<1>2. ASSUME NEW c \in Typists PROVE TypistAt(typist[c])'
  BY DeskParts DEF TypistAt, Fits, Relies, UpdateFits, CreateFits, DeleteFits
<1>. QED BY <1>1, <1>2 DEF DeskInv

LEMMA SyncHolds ==
  ASSUME DeskInv, SyncTriggers
  PROVE  DeskInv'
<1>1. CASE SyncLists
  <2>1. PICK kinds \in {{}, Hooks, Jobs, TriggerIds} :
          /\ IF kinds = TriggerIds THEN UNCHANGED upsetsT ELSE Upset
          /\ LET seen == {t \in kinds : sheet[t].there} IN
             syncPass' = [pc |-> "apply", rows |-> [t \in seen |-> sheet[t]], kinds |-> kinds, left |-> seen]
    BY <1>1 DEF SyncLists
  <2>2. PICK seen, rows : seen = {t \in kinds : sheet[t].there} /\ rows = [t \in seen |-> sheet[t]]
    OBVIOUS
  <2>3. syncPass' = [pc |-> "apply", rows |-> rows, kinds |-> kinds, left |-> seen]
    BY <2>1, <2>2
  <2>4. \A t \in seen : t \in TriggerIds /\ rows[t] \in Sheets(t)
    <3>1. kinds \subseteq TriggerIds
      BY <2>1 DEF TriggerIds
    <3>. QED BY <2>2, <3>1, DeskParts, ShapeOfSheets DEF SheetsFit
  <2>5. ListFits'
    BY <2>2, <2>3, <2>4 DEF ListFits
  <2>6. SheetsFit' /\ CountsFit'
    BY <1>1, <2>1, DeskParts, BoundsKept DEF SyncLists, SheetsFit, CountsFit
  <2>. QED BY <1>1, <2>5, <2>6, AsideKeeps DEF SyncLists
<1>2. CASE \E t \in TriggerIds : SyncApplies(t)
  <2>1. PICK t \in TriggerIds : SyncApplies(t)
    BY <1>2
  <2>2. /\ syncPass.pc = "apply" /\ t \in syncPass.left
        /\ index' = [index EXCEPT ![t] = syncPass.rows[t]]
        /\ syncPass' = [syncPass EXCEPT !.left = syncPass.left \ {t}]
    BY <2>1 DEF SyncApplies
  <2>3. /\ DOMAIN syncPass = {"pc", "rows", "kinds", "left"} /\ syncPass.left \subseteq DOMAIN syncPass.rows
        /\ \A u \in DOMAIN syncPass.rows : u \in TriggerIds /\ syncPass.rows[u] \in Sheets(u)
    BY <2>2, DeskParts DEF ListFits, Resting
  <2>4. /\ DOMAIN syncPass' = {"pc", "rows", "kinds", "left"} /\ syncPass'.pc = "apply"
        /\ syncPass'.rows = syncPass.rows /\ syncPass'.left \subseteq syncPass.left
    BY <2>2, <2>3
  <2>5. ListFits'
    BY <2>3, <2>4 DEF ListFits
  <2>6. SheetsFit' /\ CountsFit'
    BY <2>1, <2>2, <2>3, DeskParts DEF SyncApplies, SheetsFit, CountsFit, deskBounds
  <2>. QED BY <2>1, <2>5, <2>6, AsideKeeps DEF SyncApplies
<1>3. CASE SyncPrunes
  <2>1. PICK gone : index' = [t \in TriggerIds |-> IF t \in gone THEN NoSheet(t) ELSE index[t]]
    BY <1>3 DEF SyncPrunes
  <2>2. SheetsFit' /\ CountsFit' /\ ListFits'
    BY <1>3, <2>1, DeskParts DEF SyncPrunes, SheetsFit, CountsFit, ListFits, deskBounds
  <2>. QED BY <1>3, <2>2, AsideKeeps DEF SyncPrunes
<1>. QED BY <1>1, <1>2, <1>3 DEF SyncTriggers

LEMMA OthersHold ==
  ASSUME DeskInv, (\E x \in Targets : TargetComesOrGoes(x)) \/ HubRestarts
  PROVE  DeskInv'
<1>1. ASSUME NEW x \in Targets, TargetComesOrGoes(x) PROVE DeskInv'
  <2>1. SheetsFit' /\ ListFits' /\ CountsFit'
    BY <1>1, DeskParts, BoundsKept DEF TargetComesOrGoes, SheetsFit, ListFits, CountsFit
  <2>. QED BY <1>1, <2>1, AsideKeeps DEF TargetComesOrGoes
<1>2. CASE HubRestarts
  <2>1. DOMAIN typist' = Typists /\ \A c \in Typists : typist'[c] = Away /\ typist'[c].pc = "away"
    BY <1>2 DEF HubRestarts, Away
  <2>2. Apart' /\ \A c \in Typists : TypistAt(typist[c])'
    BY <2>1 DEF Apart, TypistAt
  <2>3. SheetsFit' /\ ListFits' /\ CountsFit' /\ ValidityIsEarned'
    BY <1>2, DeskParts, BoundsKept DEF HubRestarts, SheetsFit, ListFits, CountsFit, ValidityIsEarned
  <2>. QED BY <2>1, <2>2, <2>3 DEF DeskInv
<1>. QED BY <1>1, <1>2

LEMMA DeskNextHolds ==
  ASSUME DeskInv, TriggerDeskNext \/ UNCHANGED triggerVars
  PROVE  DeskInv'
<1>1. ASSUME NEW c \in Typists, Steps(c) PROVE DeskInv'
  BY <1>1, WriteHolds, LookHolds, InsertHolds, GroupHolds, ValidityHolds DEF Steps
<1>2. ASSUME NEW c \in Typists, NEW t \in TriggerIds, Asks(c, t) PROVE DeskInv'
  BY <1>2, CreateHolds, UpdateHolds, DeleteHolds DEF Asks
<1>3. CASE UNCHANGED triggerVars
  <2>1. SheetsFit' /\ ListFits' /\ CountsFit'
    BY <1>3, DeskParts DEF triggerVars, deskBounds, SheetsFit, ListFits, CountsFit
  <2>. QED BY <1>3, <2>1, AsideKeeps DEF triggerVars
<1>. QED BY <1>1, <1>2, <1>3, SyncHolds, OthersHold DEF TriggerDeskNext

-------------------------------------------------------------------------------
(***************************************************************************)
(* The pass of the skills.                                                 *)
(***************************************************************************)
Places == {"idle", "group", "storeRow", "images", "agents", "enable", "deleteRow", "getToDelete",
           "putDeleted", "ungroup", "get", "create", "put", "rows", "contents", "prune", "write", "end"}
Requests == [pc: Places, skill: SUBSET Skills, image: SUBSET Images, content: Content,
             view: [Skills -> Content]]
Passes == [enabled: SUBSET Skills, todo: SUBSET Skills, keep: [Skills -> Content],
           undelivered: SUBSET Skills, skipped: SUBSET Skills, excused: SUBSET Skills]

SkillRowsFit ==
  /\ skillRow \in [Skills -> Content] /\ skillGrouped \subseteq Skills
  /\ enabled \in [Images -> SUBSET Skills] /\ items \in [Agents -> SUBSET Skills]
  /\ skillEdits \in 0..MaxSkillEdits /\ skillFaults \in 0..MaxSkillFaults

MapFits ==
  /\ cm \in [exists: BOOLEAN, data: [Skills -> Content]]
  /\ ~ cm.exists => cm.data = NoData

\* Whoever works on one skill knows which.
OfOneSkill(p, r) ==
  (p # Loop /\ r.pc # "idle") \/ (p = Loop /\ r.pc \in {"get", "create", "put"})
    => \E s \in Skills : r.skill = {s}

ProcsFit == proc \in [Procs -> Requests] /\ \A p \in Procs : OfOneSkill(p, proc[p])

\* A copy that is still the last version says what the object says.
CopiesFresh ==
  \A p \in unchanged : /\ p \in Procs /\ proc[p].view = cm.data
                       /\ proc[p].pc \in {"put", "putDeleted", "prune"}

\* What the pass is to carry, but for rest, which has not been read yet.
Wanted       == Target \ pass.skipped
KeptBut(rest) ==
  pass.keep = [s \in Skills |-> IF s \in Wanted \ rest THEN skillRow[s] ELSE NoBody]
Kept         == KeptBut({})

\* All that is wanted has been carried or found not to go in, but for rest.
Filled(rest) ==
  /\ rest \subseteq Wanted /\ KeysOf(cm.data) \subseteq Wanted
  /\ \A s \in rest : ~ Right(s)
  /\ pass.undelivered = {s \in Wanted \ rest : ~ Right(s)}
  /\ \A s \in pass.undelivered \ pass.excused : TooLarge(s)

Collecting == pass.keep = NoData /\ pass.undelivered = {} /\ pass.skipped = {}

\* Where an undisturbed pass stands tells what it has come to.
LoopAt(r) ==
  \/ r.pc \in {"idle", "end"} /\ Filled({})
  \/ r.pc = "agents" /\ pass.enabled = UsedByImages /\ Collecting
  \/ r.pc = "rows" /\ pass.enabled = UsedByImages \union UsedByAgents /\ Collecting
  \/ /\ r.pc = "contents" /\ pass.todo \subseteq Wanted /\ pass.undelivered = {}
     /\ KeptBut(pass.todo)
  \/ r.pc = "prune" /\ Kept /\ pass.undelivered = {} /\ cm.exists /\ Loop \in unchanged
  \/ r.pc = "write" /\ cm.exists /\ Kept /\ Filled(pass.todo)
  \/ /\ r.pc \in {"get", "put"} /\ cm.exists /\ Kept
     /\ \E s \in Wanted : /\ r.skill = {s} /\ r.content = skillRow[s] /\ s \notin pass.todo
                          /\ Filled(pass.todo \union {s})
     /\ r.pc = "put" => Loop \in unchanged

CalmTells == calm => (\A c \in Callers : proc[c].pc = "idle") /\ LoopAt(proc[Loop])

SkillInv ==
  /\ SkillRowsFit /\ MapFits /\ ProcsFit /\ pass \in Passes /\ CopiesFresh
  /\ calm \in BOOLEAN /\ CalmTells

LEMMA SkillInvTells == SkillInv => SkillsTypeOK /\ PassIsExact
<1>. SUFFICES ASSUME SkillInv PROVE SkillsTypeOK /\ PassIsExact
  OBVIOUS
<1>1. \A p \in Procs : proc[p].view \in [Skills -> Content]
  BY DEF SkillInv, ProcsFit, Requests
<1>2. /\ pass.keep \in [Skills -> Content] /\ pass.undelivered \subseteq Skills
      /\ pass.skipped \subseteq Skills
  BY DEF SkillInv, Passes
<1>3. unchanged \subseteq Procs
  BY DEF SkillInv, CopiesFresh
<1>4. SkillsTypeOK
  BY <1>1, <1>2, <1>3 DEF SkillInv, SkillRowsFit, MapFits, SkillsTypeOK
<1>5. PassIsExact
  <2>1. proc[Loop].pc = "idle" /\ calm => Filled({})
    BY DEF SkillInv, CalmTells, LoopAt
  <2>. QED BY <2>1 DEF Filled, Wanted, PassIsExact
<1>. QED BY <1>4, <1>5

LEMMA ContentKnown ==
  /\ NoBody \in Content /\ (\A z \in Sizes : [version |-> 1, size |-> z] \in Content)
  /\ NoData \in [Skills -> Content] /\ KeysOf(NoData) = {}
  /\ \A data \in [Skills -> Content] : KeysOf(data) \subseteq Skills
<1>1. NoBody \in Content /\ \A z \in Sizes : [version |-> 1, size |-> z] \in Content
  BY SkillsAssumption DEF Content
<1>2. NoData \in [Skills -> Content]
  BY <1>1 DEF NoData
<1>3. KeysOf(NoData) = {} /\ \A data : KeysOf(data) \subseteq Skills
  BY DEF KeysOf, NoData
<1>. QED BY <1>1, <1>2, <1>3

LEMMA IdleFits ==
  /\ Idle \in Requests /\ Idle.pc = "idle" /\ \A p : OfOneSkill(p, Idle)
  /\ NoPass \in Passes
<1>1. Idle \in Requests /\ Idle.pc = "idle"
  <2>1. PICK none : none = NoData
    OBVIOUS
  <2>2. none \in [Skills -> Content] /\ NoBody \in Content
    BY <2>1, ContentKnown
  <2>3. Idle = [pc |-> "idle", skill |-> {}, image |-> {}, content |-> NoBody, view |-> none]
    BY <2>1 DEF Idle
  <2>. QED BY ONLY <2>2, <2>3 DEF Requests, Places
<1>2. \A p : OfOneSkill(p, Idle)
  BY <1>1 DEF OfOneSkill
<1>3. NoPass \in Passes
  BY ContentKnown DEF NoPass, Passes
<1>. QED BY <1>1, <1>2, <1>3

LEMMA SkillStart == SkillsInit => SkillInv
<1>. SUFFICES ASSUME SkillsInit PROVE SkillInv
  OBVIOUS
<1>1. SkillRowsFit
  <2>1. skillRow \in [Skills -> Content]
    BY ContentKnown DEF SkillsInit
  <2>2. skillGrouped \subseteq Skills
    BY DEF SkillsInit, KeysOf
  <2>3. skillEdits \in 0..MaxSkillEdits /\ skillFaults \in 0..MaxSkillFaults
    BY SkillsAssumption DEF SkillsInit
  <2>. QED BY <2>1, <2>2, <2>3 DEF SkillsInit, SkillRowsFit
<1>2. MapFits
  <2>1. cm = [exists |-> FALSE, data |-> NoData]
    BY DEF SkillsInit
  <2>. QED BY <2>1, ContentKnown DEF MapFits
<1>3. ProcsFit
  BY IdleFits DEF SkillsInit, ProcsFit
<1>. QED BY <1>1, <1>2, <1>3, IdleFits DEF SkillsInit, SkillInv, CopiesFresh, CalmTells

LEMMA SkillParts ==
  ASSUME SkillInv
  PROVE  /\ SkillRowsFit /\ MapFits /\ ProcsFit /\ CopiesFresh /\ pass \in Passes
         /\ proc \in [Procs -> Requests] /\ cm.data \in [Skills -> Content]
         /\ \A p \in Procs : proc[p] \in Requests /\ OfOneSkill(p, proc[p])
         /\ Loop \in Procs /\ Loop \notin Callers /\ Callers \subseteq Procs
BY SkillsAssumption DEF SkillInv, MapFits, ProcsFit, Procs, Loop

\* A caller's step: it disturbs the pass.
LEMMA CallerKeeps ==
  ASSUME SkillInv, NEW c \in Callers, NEW r \in Requests, proc' = [proc EXCEPT ![c] = r],
         OfOneSkill(c, r), SkillRowsFit', MapFits', UNCHANGED pass, calm' = FALSE,
         \A p \in unchanged' :
           IF p = c THEN r.view = cm'.data /\ r.pc \in {"put", "putDeleted"}
           ELSE p \in unchanged /\ cm' = cm
  PROVE  SkillInv'
<1>1. c \in Procs /\ proc'[c] = r /\ \A p \in Procs \ {c} : proc'[p] = proc[p]
  BY SkillParts
<1>2. proc' \in [Procs -> Requests]
  BY SkillParts
<1>3. ProcsFit'
  <2>1. ASSUME NEW p \in Procs PROVE OfOneSkill(p, proc'[p])
    BY <1>1, SkillParts
  <2>. QED BY <1>2, <2>1 DEF ProcsFit, OfOneSkill
<1>4. CopiesFresh'
  <2>1. ASSUME NEW p \in unchanged'
        PROVE  p \in Procs /\ proc'[p].view = cm'.data /\ proc'[p].pc \in {"put", "putDeleted", "prune"}
    <3>1. CASE p = c
      BY <1>1, <3>1
    <3>2. CASE p # c
      BY <1>1, <3>2, SkillParts DEF CopiesFresh
    <3>. QED BY <3>1, <3>2
  <2>. QED BY <2>1 DEF CopiesFresh
<1>5. pass' \in Passes
  BY SkillParts
<1>. QED BY <1>3, <1>4, <1>5 DEF SkillInv, CalmTells

\* A step of the loop.
LEMMA LoopKeeps ==
  ASSUME SkillInv, NEW r \in Requests, proc' = [proc EXCEPT ![Loop] = r], OfOneSkill(Loop, r),
         SkillRowsFit', MapFits', pass' \in Passes, calm' \in BOOLEAN,
         \A p \in unchanged' :
           IF p = Loop THEN r.view = cm'.data /\ r.pc \in {"put", "prune"}
           ELSE p \in unchanged /\ cm' = cm,
         calm' => (\A c \in Callers : proc[c].pc = "idle") /\ LoopAt(r)'
  PROVE  SkillInv'
<1>1. proc'[Loop] = r /\ \A p \in Procs \ {Loop} : proc'[p] = proc[p]
  BY SkillParts
<1>2. proc' \in [Procs -> Requests]
  BY SkillParts
<1>3. ProcsFit'
  <2>1. ASSUME NEW p \in Procs PROVE OfOneSkill(p, proc'[p])
    BY <1>1, SkillParts
  <2>. QED BY <1>2, <2>1 DEF ProcsFit, OfOneSkill
<1>4. CopiesFresh'
  <2>1. ASSUME NEW p \in unchanged'
        PROVE  p \in Procs /\ proc'[p].view = cm'.data /\ proc'[p].pc \in {"put", "putDeleted", "prune"}
    <3>1. CASE p = Loop
      BY <1>1, <3>1, SkillParts
    <3>2. CASE p # Loop
      BY <1>1, <3>2, SkillParts DEF CopiesFresh
    <3>. QED BY <3>1, <3>2
  <2>. QED BY <2>1 DEF CopiesFresh
<1>5. \A c \in Callers : proc'[c] = proc[c]
  BY <1>1, SkillParts
<1>6. LoopAt(r)' <=> LoopAt(proc[Loop])'
  BY <1>1 DEF LoopAt
<1>7. CalmTells'
  BY <1>5, <1>6 DEF CalmTells
<1>. QED BY <1>3, <1>4, <1>7 DEF SkillInv

LEMMA MoveFits ==
  ASSUME NEW r \in Requests, NEW to \in Places
  PROVE  /\ [r EXCEPT !.pc = to] \in Requests /\ [r EXCEPT !.pc = to].pc = to
         /\ [r EXCEPT !.pc = to].skill = r.skill /\ [r EXCEPT !.pc = to].view = r.view
         /\ [r EXCEPT !.pc = to].content = r.content
BY DEF Requests

\* A caller goes on, or ends, without a copy of the object in hand.
LEMMA CallerGoes ==
  ASSUME SkillInv, NEW c \in Callers, proc[c].pc \notin {"idle", "put", "putDeleted", "prune"},
         Finish(c) \/ (\E to \in Places : Goto(c, to)),
         SkillRowsFit', UNCHANGED <<cm, unchanged, pass>>, calm' = FALSE
  PROVE  SkillInv'
<1>1. c \notin unchanged /\ proc[c] \in Requests /\ \E s \in Skills : proc[c].skill = {s}
  BY SkillParts DEF CopiesFresh, OfOneSkill
<1>2. MapFits'
  BY SkillParts DEF MapFits
<1>3. CASE Finish(c)
  <2>1. OfOneSkill(c, Idle) /\ Idle \in Requests
    BY IdleFits
  <2>. QED BY <1>1, <1>2, <1>3, <2>1, CallerKeeps DEF Finish
<1>4. ASSUME NEW to \in Places, Goto(c, to) PROVE SkillInv'
  <2>1. PICK r : r = [proc[c] EXCEPT !.pc = to]
    OBVIOUS
  <2>2. r \in Requests /\ r.skill = proc[c].skill
    BY <1>1, <2>1, MoveFits
  <2>3. OfOneSkill(c, r)
    BY <1>1, <2>2 DEF OfOneSkill
  <2>4. proc' = [proc EXCEPT ![c] = r]
    BY <1>4, <2>1 DEF Goto
  <2>. QED BY <1>1, <1>2, <2>2, <2>3, <2>4, CallerKeeps
<1>. QED BY <1>3, <1>4

\* A request begins.
LEMMA CallerBegins ==
  ASSUME SkillInv, NEW c \in Callers, NEW s \in Skills, proc[c].pc = "idle",
         NEW r \in Requests, r.skill = {s}, proc' = [proc EXCEPT ![c] = r],
         SkillRowsFit', UNCHANGED <<cm, unchanged, pass>>, calm' = FALSE
  PROVE  SkillInv'
<1>1. OfOneSkill(c, r)
  BY DEF OfOneSkill
<1>2. c \notin unchanged
  BY SkillParts DEF CopiesFresh
<1>3. MapFits'
  BY SkillParts DEF MapFits
<1>. QED BY <1>1, <1>2, <1>3, CallerKeeps

LEMMA EditFits ==
  ASSUME SkillRowsFit
  PROVE  /\ Edit => /\ skillEdits' \in 0..MaxSkillEdits /\ calm' = FALSE
                     /\ \A size \in Sizes : Body(size) \in Content
         /\ SkillFault => skillFaults' \in 0..MaxSkillFaults
<1>1. Edit => skillEdits' \in 0..MaxSkillEdits /\ skillEdits + 2 \in 1..(MaxSkillEdits + 1)
  BY SkillsAssumption DEF SkillRowsFit, Edit
<1>2. \A n \in 1..(MaxSkillEdits + 1), z \in Sizes : [version |-> n, size |-> z] \in Content
  BY DEF Content
<1>3. SkillFault => skillFaults' \in 0..MaxSkillFaults
  BY SkillsAssumption DEF SkillRowsFit, SkillFault
<1>. QED BY <1>1, <1>2, <1>3 DEF Edit, Body

LEMMA BeginHolds ==
  ASSUME SkillInv, NEW c \in Callers, NEW s \in Skills, NEW to \in Places,
         NEW body \in Content, Begin(c, to, s, body),
         SkillRowsFit', UNCHANGED <<cm, unchanged, pass>>
  PROVE  SkillInv'
<1>1. proc[c].pc = "idle" /\ calm' = FALSE
  BY EditFits, SkillParts DEF Begin
<1>2. PICK r : r = [Idle EXCEPT !.pc = to, !.skill = {s}, !.content = body]
  OBVIOUS
<1>3. r \in Requests /\ r.skill = {s}
  BY <1>1, <1>2, IdleFits DEF Requests
<1>4. proc' = [proc EXCEPT ![c] = r]
  BY <1>2 DEF Begin
<1>. QED BY <1>1, <1>3, <1>4, CallerBegins

\* The skill a request is about.
LEMMA SkillKnown ==
  ASSUME NEW p, NEW s \in Skills, proc[p].skill = {s}
  PROVE  SkillOf(p) = s
<1>1. \A x \in Skills : proc[p].skill = {x} <=> x = s
  OBVIOUS
<1>. QED BY <1>1 DEF SkillOf

\* The requests as they are made.
LEMMA RequestHolds ==
  ASSUME SkillInv, NEW c \in Callers, Request(c)
  PROVE  SkillInv'
<1>1. PICK s \in Skills :
        \/ \E size \in Sizes : CreateSkill(c, s, size) \/ UpdateSkill(c, s, size)
        \/ DeleteSkill(c, s)
        \/ \E i \in Images : AssignSkill(c, s, i) \/ UnassignSkill(c, s, i)
  BY DEF Request
<1>2. ASSUME NEW size \in Sizes, CreateSkill(c, s, size) PROVE SkillInv'
  <2>1. Begin(c, "group", s, NoBody) /\ UNCHANGED <<cm, unchanged, pass>> /\ Edit
    BY <1>2 DEF CreateSkill, Begin
  <2>2. SkillRowsFit'
    <3>1. PICK body \in Content : body = Body(size)
      BY <2>1, EditFits, SkillParts
    <3>2. skillRow' = [skillRow EXCEPT ![s] = body]
      BY <1>2, <3>1 DEF CreateSkill, InsertRow
    <3>3. skillRow' \in [Skills -> Content]
      BY <3>2, SkillParts DEF SkillRowsFit
    <3>. QED BY <1>2, <2>1, <3>3, EditFits, SkillParts DEF CreateSkill, SkillRowsFit
  <2>. QED BY <2>1, <2>2, ContentKnown, BeginHolds DEF Places
<1>3. ASSUME NEW size \in Sizes, UpdateSkill(c, s, size) PROVE SkillInv'
  <2>1. Begin(c, "storeRow", s, Body(size)) /\ UNCHANGED <<cm, unchanged, pass>> /\ Edit
    BY <1>3 DEF UpdateSkill, Begin
  <2>2. Body(size) \in Content
    BY <2>1, EditFits, SkillParts
  <2>3. SkillRowsFit'
    BY <1>3, <2>1, EditFits, SkillParts DEF UpdateSkill, SkillRowsFit, objects
  <2>. QED BY <2>1, <2>2, <2>3, BeginHolds DEF Places
<1>4. CASE DeleteSkill(c, s)
  <2>1. Begin(c, "deleteRow", s, NoBody) /\ UNCHANGED <<cm, unchanged, pass>> /\ Edit
    BY <1>4 DEF DeleteSkill, Begin
  <2>2. SkillRowsFit'
    BY <1>4, <2>1, EditFits, SkillParts DEF DeleteSkill, SkillRowsFit, objects
  <2>. QED BY <2>1, <2>2, ContentKnown, BeginHolds DEF Places
<1>5. ASSUME NEW i \in Images, AssignSkill(c, s, i) PROVE SkillInv'
  <2>1. /\ proc[c].pc = "idle" /\ Edit /\ UNCHANGED <<cm, unchanged, pass>>
        /\ proc' = [proc EXCEPT ![c] =
             [Idle EXCEPT !.pc = "enable", !.skill = {s}, !.image = {i}, !.content = skillRow[s]]]
    BY <1>5 DEF AssignSkill
  <2>2. SkillRowsFit'
    BY <1>5, EditFits, SkillParts DEF AssignSkill, SkillRowsFit, objects
  <2>3. skillRow[s] \in Content /\ calm' = FALSE
    BY <2>1, EditFits, SkillParts DEF SkillRowsFit
  <2>4. PICK r : r = [Idle EXCEPT !.pc = "enable", !.skill = {s}, !.image = {i}, !.content = skillRow[s]]
    OBVIOUS
  <2>5. r \in Requests /\ r.skill = {s}
    BY <2>3, <2>4, IdleFits DEF Requests, Places
  <2>. QED BY <2>1, <2>2, <2>3, <2>4, <2>5, CallerBegins
<1>6. ASSUME NEW i \in Images, UnassignSkill(c, s, i) PROVE SkillInv'
  <2>1. /\ Edit /\ enabled' = WithoutSkills({i}, {s})
        /\ UNCHANGED <<skillRow, skillGrouped, items, cm, unchanged, proc, pass, skillFaults>>
    BY <1>6 DEF UnassignSkill
  <2>2. SkillRowsFit'
    BY <2>1, EditFits, SkillParts DEF WithoutSkills, SkillRowsFit
  <2>. QED BY <2>1, <2>2, EditFits DEF SkillInv, MapFits, ProcsFit, OfOneSkill, CopiesFresh, CalmTells
<1>. QED BY <1>1, <1>2, <1>3, <1>4, <1>5, <1>6

\* A caller's steps up to the object.
LEMMA ServeRowsHolds ==
  ASSUME SkillInv, NEW c \in Callers,
         GroupSkill(c) \/ StoreRow(c) \/ ListImages(c) \/ ListAgents(c) \/ EnableSkill(c)
           \/ DeleteRow(c) \/ UngroupSkill(c)
  PROVE  SkillInv'
<1>0. ASSUME proc[c].pc # "idle"
      PROVE  /\ \E s \in Skills : proc[c].skill = {s}
             /\ SkillOf(c) \in Skills /\ proc[c].skill \subseteq Skills /\ proc[c].content \in Content
  <2>1. PICK s \in Skills : proc[c].skill = {s}
    BY <1>0, SkillParts DEF OfOneSkill
  <2>2. SkillOf(c) = s
    BY <2>1, SkillKnown
  <2>3. proc[c].content \in Content
    BY SkillParts DEF Requests
  <2>. QED BY <2>1, <2>2, <2>3
<1>1. CASE GroupSkill(c)
  <2>1. SkillRowsFit'
    BY <1>0, <1>1, EditFits, SkillParts DEF GroupSkill, Own, AllWell, SkillRowsFit
  <2>. QED BY <1>1, <2>1, CallerGoes DEF GroupSkill, Own
<1>2. CASE StoreRow(c)
  <2>1. SkillRowsFit'
    <3>1. proc[c].content \in Content /\ skillRow \in [Skills -> Content]
      BY <1>0, <1>2, SkillParts DEF StoreRow, SkillRowsFit
    <3>2. skillRow' \in [Skills -> Content]
      BY <1>2, <3>1, ContentKnown DEF StoreRow
    <3>. QED BY <1>2, <3>2, SkillParts DEF StoreRow, Own, SkillRowsFit
  <2>2. Goto(c, "images") /\ "images" \in Places
    BY <1>2 DEF StoreRow, Places
  <2>. QED BY <1>2, <2>1, <2>2, CallerGoes DEF StoreRow, Own
<1>3. CASE ListImages(c)
  <2>1. SkillRowsFit'
    BY <1>3, EditFits, SkillParts DEF ListImages, Own, AllWell, SkillRowsFit, objects
  <2>2. \E to \in Places : Goto(c, to)
    <3>1. Goto(c, "get") \/ Goto(c, "agents")
      BY <1>3 DEF ListImages
    <3>. QED BY <3>1 DEF Places
  <2>. QED BY <1>3, <2>1, <2>2, CallerGoes DEF ListImages, Own
<1>4. CASE ListAgents(c)
  <2>1. SkillRowsFit'
    BY <1>4, EditFits, SkillParts DEF ListAgents, Own, AllWell, SkillRowsFit, objects
  <2>2. Finish(c) \/ (\E to \in Places : Goto(c, to))
    <3>1. Goto(c, "get") \/ Finish(c)
      BY <1>4 DEF ListAgents
    <3>. QED BY <3>1 DEF Places
  <2>. QED BY <1>4, <2>1, <2>2, CallerGoes DEF ListAgents, Own
<1>5. CASE EnableSkill(c)
  <2>1. SkillRowsFit'
    <3>1. proc[c].skill \subseteq Skills
      BY <1>0, <1>5 DEF EnableSkill
    <3>2. enabled' \in [Images -> SUBSET Skills]
      BY <1>5, <3>1, SkillParts DEF EnableSkill, WithSkills, SkillRowsFit
    <3>. QED BY <1>5, <3>2, EditFits, SkillParts DEF EnableSkill, Own, AllWell, SkillRowsFit
  <2>2. Finish(c) \/ (\E to \in Places : Goto(c, to))
    <3>1. Goto(c, "get") \/ Finish(c)
      BY <1>5 DEF EnableSkill
    <3>. QED BY <3>1 DEF Places
  <2>. QED BY <1>5, <2>1, <2>2, CallerGoes DEF EnableSkill, Own
<1>6. CASE DeleteRow(c)
  <2>1. SkillRowsFit'
    <3>1. skillRow' \in [Skills -> Content]
      BY <1>6, ContentKnown, SkillParts DEF DeleteRow, SkillRowsFit
    <3>. QED BY <1>6, <3>1, SkillParts DEF DeleteRow, Own, SkillRowsFit
  <2>2. Finish(c) \/ (\E to \in Places : Goto(c, to))
    <3>1. Goto(c, "getToDelete") \/ Finish(c)
      BY <1>6 DEF DeleteRow
    <3>. QED BY <3>1 DEF Places
  <2>. QED BY <1>6, <2>1, <2>2, CallerGoes DEF DeleteRow, Own
<1>7. CASE UngroupSkill(c)
  <2>1. SkillRowsFit'
    BY <1>7, EditFits, SkillParts DEF UngroupSkill, Own, AllWell, SkillRowsFit
  <2>. QED BY <1>7, <2>1, CallerGoes DEF UngroupSkill, Own
<1>. QED BY <1>1, <1>2, <1>3, <1>4, <1>5, <1>6, <1>7

LEMMA WrittenFits ==
  ASSUME SkillInv, NEW data \in [Skills -> Content], WriteMap(data)
  PROVE  MapFits' /\ unchanged' = {} /\ cm'.data = data /\ cm'.exists = TRUE
<1>1. cm' = [exists |-> TRUE, data |-> data] /\ unchanged' = {}
  BY DEF WriteMap
<1>2. cm'.data = data /\ cm'.exists = TRUE /\ cm' \in [exists: BOOLEAN, data: [Skills -> Content]]
  BY <1>1
<1>. QED BY <1>1, <1>2 DEF MapFits

\* Reconciler.Delete.
LEMMA DeleteKeyHolds ==
  ASSUME SkillInv, NEW c \in Callers, GetToDelete(c) \/ PutDeleted(c)
  PROVE  SkillInv'
<1>0. /\ proc[c].pc # "idle" /\ proc[c] \in Requests /\ \E s \in Skills : proc[c].skill = {s}
      /\ c \in Procs
  BY SkillParts DEF GetToDelete, PutDeleted, OfOneSkill
<1>s. PICK s \in Skills : proc[c].skill = {s} /\ SkillOf(c) = s
  BY <1>0, SkillKnown
<1>1. CASE GetToDelete(c)
  <2>1. SkillRowsFit' /\ calm' = FALSE /\ UNCHANGED <<cm, pass>>
    BY <1>1, SkillParts DEF GetToDelete, Own, SkillRowsFit, objects
  <2>2. CASE Goto(c, "ungroup") /\ UNCHANGED unchanged
    <3>1. "ungroup" \in Places
      BY DEF Places
    <3>. QED BY <1>1, <2>1, <2>2, <3>1, CallerGoes DEF GetToDelete
  <2>3. CASE /\ proc' = [proc EXCEPT ![c].pc = "putDeleted", ![c].view = cm.data]
             /\ unchanged' = unchanged \union {c}
    <3>1. PICK r : r = [proc[c] EXCEPT !.pc = "putDeleted", !.view = cm.data]
      OBVIOUS
    <3>2. r \in Requests /\ r.skill = {s} /\ r.pc = "putDeleted" /\ r.view = cm.data
      BY <1>0, <1>s, <3>1, SkillParts DEF Requests, Places
    <3>3. proc' = [proc EXCEPT ![c] = r]
      BY <1>0, <2>3, <3>1, SkillParts
    <3>4. OfOneSkill(c, r)
      BY <3>2 DEF OfOneSkill
    <3>5. MapFits'
      BY <2>1, SkillParts DEF MapFits
    <3>. QED BY <2>1, <2>3, <3>2, <3>3, <3>4, <3>5, CallerKeeps
  <2>. QED BY <1>1, <2>2, <2>3 DEF GetToDelete
<1>2. CASE PutDeleted(c)
  <2>1. proc[c].pc = "putDeleted" /\ calm' = FALSE /\ UNCHANGED pass
    BY <1>2 DEF PutDeleted, Own
  <2>2. SkillRowsFit'
    BY <1>2, EditFits, SkillParts DEF PutDeleted, Own, AllWell, SkillRowsFit, objects
  <2>3. CASE c \in unchanged /\ WriteMap([proc[c].view EXCEPT ![s] = NoBody]) /\ Goto(c, "ungroup")
    <3>1. PICK data : data = [cm.data EXCEPT ![s] = NoBody]
      OBVIOUS
    <3>2. WriteMap(data) /\ data \in [Skills -> Content]
      BY <2>3, <3>1, ContentKnown, SkillParts DEF CopiesFresh
    <3>3. MapFits' /\ unchanged' = {}
      BY <3>2, WrittenFits
    <3>4. PICK r : r = [proc[c] EXCEPT !.pc = "ungroup"]
      OBVIOUS
    <3>5. r \in Requests /\ r.skill = {s}
      BY <1>0, <1>s, <3>4, MoveFits DEF Places
    <3>6. OfOneSkill(c, r) /\ proc' = [proc EXCEPT ![c] = r]
      BY <2>3, <3>4, <3>5 DEF OfOneSkill, Goto
    <3>. QED BY <2>1, <2>2, <3>3, <3>5, <3>6, CallerKeeps
  <2>4. CASE Finish(c) /\ unchanged' = unchanged \ {c} /\ UNCHANGED cm
    <3>1. MapFits'
      BY <2>4, SkillParts DEF MapFits
    <3>2. OfOneSkill(c, Idle) /\ Idle \in Requests
      BY IdleFits
    <3>. QED BY <2>1, <2>2, <2>4, <3>1, <3>2, CallerKeeps DEF Finish
  <2>. QED BY <1>2, <1>s, <2>3, <2>4 DEF PutDeleted
<1>. QED BY <1>1, <1>2

\* Reconciler.Ensure for a request.
LEMMA CallerGetHolds ==
  ASSUME SkillInv, NEW c \in Callers, EnsureGet(c)
  PROVE  SkillInv'
<1>0. /\ proc[c].pc \in {"get", "create"} /\ proc[c] \in Requests /\ c \in Procs /\ c # Loop
      /\ \E s \in Skills : proc[c].skill = {s}
  BY SkillParts DEF EnsureGet, OfOneSkill
<1>s. PICK s \in Skills : proc[c].skill = {s} /\ SkillOf(c) = s
  BY <1>0, SkillKnown
<1>1. SkillRowsFit' /\ calm' = FALSE
  BY <1>0, SkillParts DEF EnsureGet, By, Own, SkillRowsFit, objects
<1>2. CASE Goto(c, "create") /\ UNCHANGED <<cm, unchanged, pass>>
  BY <1>0, <1>1, <1>2, CallerGoes DEF Places
<1>4. CASE /\ proc' = [proc EXCEPT ![c].pc = "put", ![c].view = cm.data]
           /\ unchanged' = unchanged \union {c} /\ UNCHANGED <<cm, pass>>
  <2>1. PICK r : r = [proc[c] EXCEPT !.pc = "put", !.view = cm.data]
    OBVIOUS
  <2>2. r \in Requests /\ r.skill = {s} /\ r.pc = "put" /\ r.view = cm.data
    BY <1>0, <1>s, <2>1, SkillParts DEF Requests, Places
  <2>3. proc' = [proc EXCEPT ![c] = r] /\ OfOneSkill(c, r)
    BY <1>0, <1>4, <2>1, <2>2, SkillParts DEF OfOneSkill
  <2>4. MapFits'
    BY <1>4, SkillParts DEF MapFits
  <2>. QED BY <1>1, <1>4, <2>2, <2>3, <2>4, CallerKeeps
<1>. QED BY <1>2, <1>4 DEF EnsureGet

LEMMA CallerPutHolds ==
  ASSUME SkillInv, NEW c \in Callers, EnsureCreate(c) \/ EnsurePut(c)
  PROVE  SkillInv'
<1>0. /\ proc[c].pc \in {"create", "put"} /\ proc[c] \in Requests /\ c \in Procs /\ c # Loop
      /\ \E s \in Skills : proc[c].skill = {s}
  BY SkillParts DEF EnsureCreate, EnsurePut, OfOneSkill
<1>s. PICK s \in Skills : proc[c].skill = {s} /\ SkillOf(c) = s
  BY <1>0, SkillKnown
<1>1. PICK q \in Requests : q = proc[c]
  BY <1>0
<1>2. /\ [NoData EXCEPT ![s] = q.content] \in [Skills -> Content]
      /\ [q.view EXCEPT ![s] = q.content] \in [Skills -> Content]
  BY ContentKnown DEF Requests
<1>3. /\ UNCHANGED objects /\ By(c)
      /\ AllWell \/ SkillFault
      /\ \/ /\ \E data \in [Skills -> Content] : WriteMap(data)
            /\ Rendered(c)
         \/ /\ unchanged' \in {unchanged, unchanged \ {c}} /\ UNCHANGED cm
            /\ \E excuse : NotRendered(c, excuse)
  <2>1. CASE EnsureCreate(c)
    BY <1>s, <1>1, <1>2, <2>1 DEF EnsureCreate
  <2>2. CASE EnsurePut(c)
    BY <1>s, <1>1, <1>2, <2>2 DEF EnsurePut
  <2>. QED BY <2>1, <2>2
<1>4. SkillRowsFit'
  BY <1>0, <1>3, EditFits, SkillParts DEF By, Own, AllWell, SkillRowsFit, objects
<1>5. Finish(c) /\ UNCHANGED pass /\ calm' = FALSE
  BY <1>0, <1>3 DEF Rendered, NotRendered, By, Own
<1>6. MapFits' /\ (unchanged' = {} \/ (unchanged' \subseteq unchanged /\ c \notin unchanged' /\ cm' = cm))
  <2>1. CASE \E data \in [Skills -> Content] : WriteMap(data)
    BY <2>1, WrittenFits
  <2>2. CASE unchanged' \in {unchanged, unchanged \ {c}} /\ UNCHANGED cm
    <3>1. proc[c].pc = "create" => c \notin unchanged
      BY SkillParts DEF CopiesFresh
    <3>2. proc[c].pc = "put" => unchanged' = {} \/ unchanged' = unchanged \ {c}
      BY <1>0, <2>2 DEF EnsureCreate, EnsurePut, WriteMap
    <3>. QED BY <1>0, <2>2, <3>1, <3>2, SkillParts DEF MapFits
  <2>. QED BY <1>3, <2>1, <2>2
<1>7. OfOneSkill(c, Idle) /\ Idle \in Requests
  BY IdleFits
<1>. QED BY <1>4, <1>5, <1>6, <1>7, CallerKeeps DEF Finish

\* What others do to the custom resources; a failing call; a crash.
LEMMA OthersDisturb ==
  ASSUME SkillInv,
         \/ \E s \in Skills, i \in Images : EditImage(i, s)
         \/ \E s \in Skills, a \in Agents : EditAgent(a, s)
         \/ PassFails \/ SkillsCrash
  PROVE  SkillInv'
<1>1. ASSUME NEW s \in Skills, NEW i \in Images, EditImage(i, s) PROVE SkillInv'
  <2>1. enabled' \in [Images -> SUBSET Skills]
    BY <1>1, SkillParts DEF EditImage, SkillRowsFit
  <2>2. SkillRowsFit' /\ calm' = FALSE
    BY <1>1, <2>1, EditFits, SkillParts DEF EditImage, SkillRowsFit
  <2>. QED BY <1>1, <2>2 DEF EditImage, SkillInv, MapFits, ProcsFit, OfOneSkill, CopiesFresh, CalmTells
<1>2. ASSUME NEW s \in Skills, NEW a \in Agents, EditAgent(a, s) PROVE SkillInv'
  <2>1. items' \in [Agents -> SUBSET Skills]
    BY <1>2, SkillParts DEF EditAgent, SkillRowsFit
  <2>2. SkillRowsFit' /\ calm' = FALSE
    BY <1>2, <2>1, EditFits, SkillParts DEF EditAgent, SkillRowsFit
  <2>. QED BY <1>2, <2>2 DEF EditAgent, SkillInv, MapFits, ProcsFit, OfOneSkill, CopiesFresh, CalmTells
<1>3. CASE PassFails
  <2>1. SkillRowsFit' /\ MapFits' /\ calm' = FALSE
    BY <1>3, EditFits, SkillParts DEF PassFails, SkillRowsFit, MapFits, objects
  <2>2. OfOneSkill(Loop, Idle) /\ Idle \in Requests /\ NoPass \in Passes
    BY IdleFits
  <2>. QED BY <1>3, <2>1, <2>2, LoopKeeps DEF PassFails
<1>4. CASE SkillsCrash
  <2>1. SkillRowsFit' /\ MapFits' /\ calm' = FALSE
    BY <1>4, EditFits, SkillParts DEF SkillsCrash, SkillRowsFit, MapFits, objects
  <2>2. proc' = [p \in Procs |-> Idle] /\ unchanged' = {} /\ pass' = NoPass
    BY <1>4 DEF SkillsCrash
  <2>3. ProcsFit'
    BY <2>2, IdleFits DEF ProcsFit, OfOneSkill
  <2>. QED BY <2>1, <2>2, <2>3, IdleFits DEF SkillInv, CopiesFresh, CalmTells
<1>. QED BY <1>1, <1>2, <1>3, <1>4

LEMMA CallerHolds ==
  ASSUME SkillInv, NEW c \in Callers, Request(c) \/ Serve(c)
  PROVE  SkillInv'
BY RequestHolds, ServeRowsHolds, DeleteKeyHolds, CallerGetHolds, CallerPutHolds DEF Serve

LEMMA ObjectsKept ==
  ASSUME SkillInv, UNCHANGED objects, UNCHANGED counters
  PROVE  /\ SkillRowsFit' /\ Target' = Target /\ Rows' = Rows /\ skillRow' = skillRow
         /\ UsedByImages' = UsedByImages /\ UsedByAgents' = UsedByAgents
BY SkillParts DEF objects, counters, SkillRowsFit, Target, Rows, UsedByImages, UsedByAgents

LEMMA TargetKnown ==
  ASSUME SkillInv
  PROVE  /\ Target \subseteq Skills /\ UsedByImages \subseteq Skills /\ UsedByAgents \subseteq Skills
         /\ \A s \in Target : skillRow[s] # NoBody
         /\ \A s \in Skills : skillRow[s] \in Content
<1>1. UsedByImages \subseteq Skills /\ UsedByAgents \subseteq Skills
  BY SkillParts DEF SkillRowsFit, UsedByImages, UsedByAgents
<1>. QED BY <1>1, SkillParts DEF SkillRowsFit, Target, Rows, KeysOf

LEMMA PassFields ==
  /\ NoPass.enabled = {} /\ NoPass.todo = {} /\ NoPass.keep = NoData
  /\ NoPass.undelivered = {} /\ NoPass.skipped = {}
  /\ \A p \in Passes : /\ p.enabled \subseteq Skills /\ p.todo \subseteq Skills
                       /\ p.keep \in [Skills -> Content] /\ p.undelivered \subseteq Skills
                       /\ p.skipped \subseteq Skills
BY DEF NoPass, Passes

\* The loop goes on without a copy of the object in hand.
LEMMA LoopGoes ==
  ASSUME SkillInv, NEW to \in Places, to \notin {"get", "create", "put"}, Goto(Loop, to),
         proc[Loop].pc \notin {"put", "putDeleted", "prune"},
         UNCHANGED <<objects, counters, cm, unchanged>>, pass' \in Passes, calm' \in BOOLEAN,
         calm' => (\A c \in Callers : proc[c].pc = "idle") /\ \A r : r.pc = to => LoopAt(r)'
  PROVE  SkillInv'
<1>1. PICK r : r = [proc[Loop] EXCEPT !.pc = to]
  OBVIOUS
<1>2. r \in Requests /\ r.pc = to
  BY <1>1, MoveFits, SkillParts
<1>3. proc' = [proc EXCEPT ![Loop] = r] /\ OfOneSkill(Loop, r)
  BY <1>1, <1>2 DEF Goto, OfOneSkill
<1>4. Loop \notin unchanged
  BY SkillParts DEF CopiesFresh
<1>5. SkillRowsFit' /\ MapFits'
  BY ObjectsKept, SkillParts DEF MapFits
<1>. QED BY <1>2, <1>3, <1>4, <1>5, LoopKeeps

LEMMA ImagesCollected ==
  ASSUME SkillInv, PassImages
  PROVE  SkillInv'
<1>1. /\ pass' = [NoPass EXCEPT !.enabled = UsedByImages] /\ Goto(Loop, "agents") /\ proc[Loop].pc = "idle"
      /\ calm' = (\A c \in Callers : proc[c].pc = "idle")
      /\ UNCHANGED <<objects, counters, cm, unchanged>>
  BY DEF PassImages
<1>2. /\ pass' \in Passes /\ pass'.enabled = UsedByImages /\ pass'.keep = NoData
      /\ pass'.undelivered = {} /\ pass'.skipped = {}
  BY <1>1, TargetKnown, IdleFits, PassFields DEF Passes
<1>3. \A r : r.pc = "agents" => LoopAt(r)'
  BY <1>1, <1>2, ObjectsKept DEF LoopAt, Collecting, NoData
<1>. QED BY <1>1, <1>2, <1>3, LoopGoes DEF Places

LEMMA AgentsCollected ==
  ASSUME SkillInv, PassAgents
  PROVE  SkillInv'
<1>1. /\ pass' = [pass EXCEPT !.enabled = pass.enabled \union UsedByAgents]
      /\ Goto(Loop, "rows") /\ proc[Loop].pc = "agents"
      /\ UNCHANGED <<objects, counters, cm, unchanged>> /\ calm' = calm
  BY DEF PassAgents
<1>2. /\ pass' \in Passes /\ pass'.enabled = pass.enabled \union UsedByAgents
      /\ pass'.keep = pass.keep /\ pass'.undelivered = pass.undelivered
      /\ pass'.skipped = pass.skipped
  BY <1>1, TargetKnown, SkillParts DEF Passes
<1>3. calm => /\ \A c \in Callers : proc[c].pc = "idle"
              /\ pass.enabled = UsedByImages /\ Collecting
  BY <1>1 DEF SkillInv, CalmTells, LoopAt
<1>4. calm => \A r : r.pc = "rows" => LoopAt(r)'
  BY <1>1, <1>2, <1>3, ObjectsKept DEF LoopAt, Collecting, NoData
<1>. QED BY <1>1, <1>2, <1>3, <1>4, LoopGoes DEF Places, SkillInv

LEMMA RowsCollected ==
  ASSUME SkillInv, PassRows
  PROVE  SkillInv'
<1>1. /\ pass' = [pass EXCEPT !.enabled = {}, !.todo = pass.enabled \intersect Rows]
      /\ Goto(Loop, "contents") /\ proc[Loop].pc = "rows"
      /\ UNCHANGED <<objects, counters, cm, unchanged>> /\ calm' = calm
  BY DEF PassRows
<1>2. /\ pass' \in Passes /\ pass'.todo = pass.enabled \intersect Rows
      /\ pass'.keep = pass.keep /\ pass'.undelivered = pass.undelivered
      /\ pass'.skipped = pass.skipped
  <2>1. pass.enabled \intersect Rows \subseteq Skills
    BY SkillParts, PassFields
  <2>. QED BY <1>1, <2>1, SkillParts DEF Passes
<1>3. calm => /\ \A c \in Callers : proc[c].pc = "idle"
              /\ pass'.todo = Target /\ Collecting
  BY <1>1, <1>2 DEF SkillInv, CalmTells, LoopAt, Target
<1>4. calm => Wanted' = Target
  BY <1>1, <1>2, <1>3, ObjectsKept DEF Wanted, Collecting
<1>5. calm => KeptBut(pass.todo)'
  BY <1>2, <1>3, <1>4 DEF KeptBut, Collecting, NoData
<1>6. calm => \A r : r.pc = "contents" => LoopAt(r)'
  BY <1>1, <1>2, <1>3, <1>4, <1>5 DEF LoopAt, Collecting
<1>. QED BY <1>1, <1>2, <1>3, <1>6, LoopGoes DEF Places, SkillInv

LEMMA ContentCollected ==
  ASSUME SkillInv, NEW s \in Skills, PassContent(s)
  PROVE  SkillInv'
<1>1. /\ proc[Loop].pc = "contents" /\ s \in pass.todo
      /\ UNCHANGED <<objects, cm, unchanged, proc, skillEdits, calm>>
      /\ AllWell \/ SkillFault
  BY DEF PassContent
<1>2. SkillRowsFit'
  BY <1>1, EditFits, SkillParts DEF objects, AllWell, SkillRowsFit
<1>3. MapFits' /\ ProcsFit' /\ CopiesFresh'
  BY <1>1, SkillParts DEF MapFits, ProcsFit, OfOneSkill, CopiesFresh
<1>4. /\ Target' = Target /\ skillRow' = skillRow
  BY <1>1 DEF objects, Target, Rows, UsedByImages, UsedByAgents
<1>5. calm => /\ \A c \in Callers : proc[c].pc = "idle"
              /\ pass.todo \subseteq Wanted /\ pass.undelivered = {} /\ KeptBut(pass.todo)
  BY <1>1 DEF SkillInv, CalmTells, LoopAt
<1>6. CASE pass' = [pass EXCEPT !.todo = pass.todo \ {s}, !.keep[s] = skillRow[s]]
  <2>1. PICK keep : keep = [pass.keep EXCEPT ![s] = skillRow[s]]
    OBVIOUS
  <2>2. keep \in [Skills -> Content]
    BY <2>1, TargetKnown, SkillParts, PassFields
  <2>3. pass' = [pass EXCEPT !.todo = pass.todo \ {s}, !.keep = keep]
    BY <1>6, <2>1
  <2>4. /\ pass' \in Passes /\ pass'.todo = pass.todo \ {s} /\ pass'.keep = keep
        /\ pass'.undelivered = pass.undelivered /\ pass'.skipped = pass.skipped
    BY <2>2, <2>3, SkillParts DEF Passes
  <2>5. ASSUME calm PROVE LoopAt(proc[Loop])'
    <3>1. Wanted' = Wanted
      BY <1>4, <2>4 DEF Wanted
    <3>2. keep = [u \in Skills |-> IF u \in Wanted \ (pass.todo \ {s}) THEN skillRow[u] ELSE NoBody]
      BY <1>1, <1>5, <2>1, <2>5 DEF KeptBut
    <3>3. KeptBut(pass.todo)'
      BY <1>4, <2>4, <3>1, <3>2 DEF KeptBut
    <3>. QED BY <1>1, <1>5, <2>4, <2>5, <3>1, <3>3 DEF LoopAt
  <2>. QED BY <1>1, <1>2, <1>3, <1>5, <2>4, <2>5 DEF SkillInv, CalmTells
<1>7. CASE pass' = [pass EXCEPT !.todo = pass.todo \ {s}, !.skipped = pass.skipped \union {s}]
  <2>1. /\ pass' \in Passes /\ pass'.todo = pass.todo \ {s} /\ pass'.keep = pass.keep
        /\ pass'.undelivered = pass.undelivered /\ pass'.skipped = pass.skipped \union {s}
    BY <1>7, SkillParts DEF Passes
  <2>2. ASSUME calm PROVE LoopAt(proc[Loop])'
    <3>1. Wanted' = Wanted \ {s}
      BY <1>4, <2>1 DEF Wanted
    <3>2. Wanted' \ pass'.todo = Wanted \ pass.todo
      BY <1>1, <1>5, <2>1, <2>2, <3>1
    <3>3. KeptBut(pass.todo)'
      BY <1>4, <1>5, <2>1, <2>2, <3>2 DEF KeptBut
    <3>4. pass'.todo \subseteq Wanted'
      BY <1>5, <2>1, <2>2, <3>1
    <3>. QED BY <1>1, <1>5, <2>1, <2>2, <3>3, <3>4 DEF LoopAt
  <2>. QED BY <1>1, <1>2, <1>3, <1>5, <2>1, <2>2 DEF SkillInv, CalmTells
<1>. QED BY <1>6, <1>7 DEF PassContent

\* All is collected: what is kept is what is wanted.
LEMMA KeptTells ==
  ASSUME SkillInv, Kept
  PROVE  KeysOf(pass.keep) = Wanted /\ \A s \in Wanted : pass.keep[s] = skillRow[s]
<1>1. \A s \in Skills : pass.keep[s] = IF s \in Wanted THEN skillRow[s] ELSE NoBody
  BY DEF Kept, KeptBut
<1>2. Wanted \subseteq Skills /\ \A s \in Wanted : skillRow[s] # NoBody
  BY TargetKnown DEF Wanted
<1>. QED BY <1>1, <1>2 DEF KeysOf

\* What stands as it was tells the same.
LEMMA FilledKept ==
  ASSUME UNCHANGED objects, NEW before, NEW rest,
         cm'.data = cm.data, pass'.undelivered = pass.undelivered,
         pass'.excused = pass.excused, pass'.skipped = pass.skipped,
         Filled(before), before = rest
  PROVE  Filled(rest)'
<1>1. Wanted' = Wanted /\ skillRow' = skillRow
  BY DEF objects, Wanted, Target, Rows, UsedByImages, UsedByAgents, KeysOf
<1>2. \A s : Right(s)' <=> Right(s)
  BY <1>1 DEF Right
<1>3. \A s : TooLarge(s)' <=> TooLarge(s)
  BY <1>1 DEF TooLarge, Accepted
<1>. QED BY <1>1, <1>2, <1>3 DEF Filled, KeysOf

LEMMA MapHolds ==
  ASSUME SkillInv, PassMap
  PROVE  SkillInv'
<1>1. /\ proc[Loop].pc = "contents" /\ pass.todo = {}
      /\ UNCHANGED <<objects, pass, counters, calm>>
  BY DEF PassMap
<1>2. calm => /\ \A c \in Callers : proc[c].pc = "idle"
              /\ Kept /\ pass.undelivered = {} /\ KeysOf(pass.keep) = Wanted
  <2>1. calm => Kept /\ pass.undelivered = {} /\ \A c \in Callers : proc[c].pc = "idle"
    BY <1>1 DEF SkillInv, CalmTells, LoopAt, Kept
  <2>. QED BY <2>1, KeptTells
<1>3. CASE ~ cm.exists /\ KeysOf(pass.keep) = {} /\ Goto(Loop, "end") /\ UNCHANGED <<cm, unchanged>>
  <2>1. ASSUME calm, NEW r, r.pc = "end" PROVE LoopAt(r)'
    <3>1. Wanted = {} /\ KeysOf(cm.data) = {}
      BY <1>2, <1>3, <2>1, ContentKnown, SkillParts DEF MapFits
    <3>2. Filled({})
      BY <1>2, <2>1, <3>1 DEF Filled
    <3>3. Filled({})'
      BY <1>1, <1>3, <3>2, FilledKept
    <3>. QED BY <2>1, <3>3 DEF LoopAt
  <2>2. pass' \in Passes /\ calm' = calm
    BY <1>1, SkillParts
  <2>. QED BY <1>1, <1>2, <1>3, <2>1, <2>2, LoopGoes DEF Places, SkillInv
<1>4. CASE ~ cm.exists /\ KeysOf(pass.keep) # {} /\ WriteMap(NoData) /\ UNCHANGED proc
  <2>1. MapFits' /\ unchanged' = {}
    BY <1>4, ContentKnown, WrittenFits
  <2>2. SkillRowsFit' /\ ProcsFit' /\ CopiesFresh'
    BY <1>1, <1>4, <2>1, ObjectsKept, SkillParts DEF ProcsFit, OfOneSkill, CopiesFresh
  <2>3. calm => LoopAt(proc[Loop])'
    <3>1. ASSUME calm PROVE pass.todo \subseteq Wanted /\ pass.undelivered = {} /\ KeptBut(pass.todo)
      BY <1>1, <3>1 DEF SkillInv, CalmTells, LoopAt
    <3>2. Wanted' = Wanted
      BY <1>1, ObjectsKept DEF Wanted
    <3>. QED BY <1>1, <1>4, <3>1, <3>2, ObjectsKept DEF LoopAt, KeptBut
  <2>. QED BY <1>1, <1>2, <1>4, <2>1, <2>2, <2>3 DEF SkillInv, CalmTells
<1>5. CASE /\ cm.exists /\ proc' = [proc EXCEPT ![Loop].pc = "prune", ![Loop].view = cm.data]
           /\ unchanged' = unchanged \union {Loop} /\ UNCHANGED cm
  <2>1. PICK r : r = [proc[Loop] EXCEPT !.pc = "prune", !.view = cm.data]
    OBVIOUS
  <2>2. r \in Requests /\ r.pc = "prune" /\ r.view = cm.data
    BY <2>1, SkillParts DEF Requests, Places
  <2>3. proc' = [proc EXCEPT ![Loop] = r] /\ OfOneSkill(Loop, r)
    BY <1>5, <2>1, <2>2, SkillParts DEF OfOneSkill
  <2>4. SkillRowsFit' /\ MapFits' /\ pass' \in Passes
    BY <1>1, <1>5, ObjectsKept, SkillParts DEF MapFits
  <2>5. calm => LoopAt(r)'
    <3>1. calm => Kept'
      BY <1>1, <1>2, ObjectsKept DEF Kept, KeptBut, Wanted
    <3>. QED BY <1>1, <1>2, <1>5, <2>2, <3>1 DEF LoopAt
  <2>. QED BY <1>1, <1>2, <1>5, <2>2, <2>3, <2>4, <2>5, LoopKeeps DEF SkillInv
<1>. QED BY <1>3, <1>4, <1>5 DEF PassMap

\* The loop is to write the next skill.
LEMMA WritingFits ==
  ASSUME NEW r, r = [Idle EXCEPT !.pc = "write"]
  PROVE  r \in Requests /\ r.pc = "write" /\ OfOneSkill(Loop, r)
BY IdleFits DEF Requests, Places, OfOneSkill

LEMMA PruneHolds ==
  ASSUME SkillInv, PassPrune
  PROVE  SkillInv'
<1>0. PICK view, pruned, r :
        /\ view = proc[Loop].view /\ r = [Idle EXCEPT !.pc = "write"]
        /\ pruned = [s \in Skills |-> IF pass.keep[s] = NoBody THEN NoBody ELSE view[s]]
  OBVIOUS
<1>1. /\ proc[Loop].pc = "prune" /\ UNCHANGED <<objects, counters, calm>>
      /\ \/ /\ pruned = view /\ UNCHANGED cm /\ unchanged' = unchanged \ {Loop}
            /\ pass' = [pass EXCEPT !.todo = Wrong(view)] /\ proc' = [proc EXCEPT ![Loop] = r]
         \/ /\ pruned # view /\ Loop \in unchanged /\ WriteMap(pruned)
            /\ pass' = [pass EXCEPT !.todo = Wrong(view)] /\ proc' = [proc EXCEPT ![Loop] = r]
         \/ /\ pruned # view /\ Loop \notin unchanged
            /\ UNCHANGED <<cm, unchanged>> /\ pass' = NoPass
            /\ proc' = [proc EXCEPT ![Loop] = Idle]
  BY <1>0 DEF PassPrune, Writing
<1>2. SkillRowsFit' /\ view \in [Skills -> Content] /\ pruned \in [Skills -> Content]
  BY <1>0, <1>1, ObjectsKept, ContentKnown, SkillParts DEF Requests
<1>3. calm => /\ \A c \in Callers : proc[c].pc = "idle"
              /\ Kept /\ pass.undelivered = {} /\ cm.exists /\ Loop \in unchanged
              /\ view = cm.data
  BY <1>0, <1>1, SkillParts DEF SkillInv, CalmTells, LoopAt, CopiesFresh
<1>4. CASE /\ pass' = [pass EXCEPT !.todo = Wrong(view)] /\ proc' = [proc EXCEPT ![Loop] = r]
           /\ MapFits' /\ (unchanged' = {} \/ (unchanged' = unchanged \ {Loop} /\ cm' = cm))
           /\ Loop \in unchanged => cm'.data = pruned
           /\ cm.exists => cm'.exists
  <2>1. r \in Requests /\ r.pc = "write" /\ OfOneSkill(Loop, r)
    BY <1>0, WritingFits
  <2>2. /\ pass' \in Passes /\ pass'.todo = Wrong(view) /\ pass'.keep = pass.keep
        /\ pass'.undelivered = pass.undelivered /\ pass'.skipped = pass.skipped
    <3>1. Wrong(view) \subseteq Skills
      BY DEF Wrong, KeysOf
    <3>. QED BY <1>4, <3>1, SkillParts DEF Passes
  <2>3. ASSUME calm PROVE LoopAt(r)'
    <3>1. Wanted' = Wanted /\ skillRow' = skillRow
      BY <1>1, <2>2, ObjectsKept DEF Wanted
    <3>2. Kept'
      BY <1>3, <2>2, <2>3, <3>1 DEF Kept, KeptBut
    <3>3. KeysOf(pass.keep) = Wanted /\ \A s \in Wanted : pass.keep[s] = skillRow[s]
      BY <1>3, <2>3, KeptTells
    <3>4. \A s \in Skills : cm'.data[s] = IF s \in Wanted THEN view[s] ELSE NoBody
      <4>1. \A s \in Skills : pass.keep[s] = NoBody <=> s \notin Wanted
        BY <3>3 DEF KeysOf
      <4>. QED BY <1>0, <1>3, <1>4, <2>3, <4>1
    <3>5. Wrong(view) = {s \in Wanted : view[s] # skillRow[s]}
      BY <3>3 DEF Wrong
    <3>6. Wanted \subseteq Skills
      BY TargetKnown DEF Wanted
    <3>7. \A s \in Wanted : Right(s)' <=> s \notin Wrong(view)
      BY <3>1, <3>4, <3>5, <3>6 DEF Right
    <3>8. KeysOf(cm.data)' \subseteq Wanted
      BY <3>4 DEF KeysOf
    <3>9. Filled(pass.todo)'
      BY <1>3, <2>2, <2>3, <3>1, <3>5, <3>7, <3>8 DEF Filled
    <3>. QED BY <1>3, <1>4, <2>1, <2>3, <3>2, <3>9 DEF LoopAt
  <2>. QED BY <1>1, <1>2, <1>3, <1>4, <2>1, <2>2, <2>3, LoopKeeps DEF SkillInv
<1>5. CASE /\ pruned = view /\ UNCHANGED cm /\ unchanged' = unchanged \ {Loop}
           /\ pass' = [pass EXCEPT !.todo = Wrong(view)] /\ proc' = [proc EXCEPT ![Loop] = r]
  <2>1. MapFits' /\ (Loop \in unchanged => cm'.data = pruned)
    BY <1>0, <1>5, SkillParts DEF MapFits, CopiesFresh
  <2>. QED BY <1>4, <1>5, <2>1
<1>6. CASE /\ pruned # view /\ Loop \in unchanged /\ WriteMap(pruned)
           /\ pass' = [pass EXCEPT !.todo = Wrong(view)] /\ proc' = [proc EXCEPT ![Loop] = r]
  <2>1. MapFits' /\ unchanged' = {} /\ cm'.data = pruned /\ cm'.exists = TRUE
    BY <1>2, <1>6, WrittenFits
  <2>2. /\ MapFits' /\ (unchanged' = {} \/ (unchanged' = unchanged \ {Loop} /\ cm' = cm))
        /\ Loop \in unchanged => cm'.data = pruned
        /\ cm.exists => cm'.exists
    BY <2>1
  <2>. QED BY <1>4, <1>6, <2>2
<1>7. CASE /\ pruned # view /\ Loop \notin unchanged
           /\ UNCHANGED <<cm, unchanged>> /\ pass' = NoPass
           /\ proc' = [proc EXCEPT ![Loop] = Idle]
  <2>1. ~ calm
    BY <1>3, <1>7
  <2>2. MapFits' /\ calm' = calm
    BY <1>1, <1>7, SkillParts DEF MapFits
  <2>. QED BY <1>2, <1>7, <2>1, <2>2, IdleFits, LoopKeeps DEF SkillInv
<1>. QED BY <1>1, <1>5, <1>6, <1>7

LEMMA WriteBegins ==
  ASSUME SkillInv, NEW s \in Skills, PassWrite(s)
  PROVE  SkillInv'
<1>1. PICK r : r = [Idle EXCEPT !.pc = "get", !.skill = {s}, !.content = pass.keep[s]]
  OBVIOUS
<1>2. /\ proc[Loop].pc = "write" /\ s \in pass.todo
      /\ pass' = [pass EXCEPT !.todo = pass.todo \ {s}] /\ proc' = [proc EXCEPT ![Loop] = r]
      /\ UNCHANGED <<objects, cm, unchanged, counters, calm>>
  BY <1>1 DEF PassWrite
<1>3. pass.keep[s] \in Content
  BY SkillParts, PassFields
<1>4. r \in Requests /\ r.pc = "get" /\ r.skill = {s} /\ r.content = pass.keep[s]
  BY <1>1, <1>3, IdleFits DEF Requests, Places
<1>5. OfOneSkill(Loop, r) /\ Loop \notin unchanged
  BY <1>2, <1>4, SkillParts DEF OfOneSkill, CopiesFresh
<1>6. SkillRowsFit' /\ MapFits'
  BY <1>2, ObjectsKept, SkillParts DEF MapFits
<1>7. /\ pass' \in Passes /\ pass'.todo = pass.todo \ {s}
      /\ pass'.keep = pass.keep /\ pass'.undelivered = pass.undelivered
      /\ pass'.skipped = pass.skipped /\ pass'.excused = pass.excused
  BY <1>2, SkillParts DEF Passes
<1>8. ASSUME calm PROVE (\A c \in Callers : proc[c].pc = "idle") /\ LoopAt(r)'
  <2>1. cm.exists /\ Kept /\ Filled(pass.todo) /\ \A c \in Callers : proc[c].pc = "idle"
    BY <1>2, <1>8 DEF SkillInv, CalmTells, LoopAt
  <2>2. s \in Wanted /\ r.content = skillRow[s]
    BY <1>2, <1>4, <2>1, KeptTells DEF Filled
  <2>3. Wanted' = Wanted /\ skillRow' = skillRow
    BY <1>2, <1>7, ObjectsKept DEF Wanted
  <2>4. Kept'
    BY <1>7, <2>1, <2>3 DEF Kept, KeptBut
  <2>5. (pass'.todo \union {s}) = pass.todo
    BY <1>2, <1>7
  <2>6. Filled(pass.todo \union {s})'
    BY <1>2, <1>7, <2>1, <2>5, FilledKept
  <2>7. s \in Wanted' /\ r.content = skillRow'[s] /\ s \notin pass'.todo
    BY <1>7, <2>2, <2>3
  <2>. QED BY <1>2, <1>4, <2>1, <2>4, <2>6, <2>7 DEF LoopAt
<1>. QED BY <1>2, <1>4, <1>5, <1>6, <1>7, <1>8, LoopKeeps DEF SkillInv

LEMMA EndHolds ==
  ASSUME SkillInv, PassEnd
  PROVE  SkillInv'
<1>1. /\ proc[Loop].pc = "end" \/ (proc[Loop].pc = "write" /\ pass.todo = {})
      /\ proc' = [proc EXCEPT ![Loop] = Idle]
      /\ pass' = [pass EXCEPT !.keep = NoData]
      /\ UNCHANGED <<objects, cm, unchanged, counters, calm>>
  BY DEF PassEnd
<1>2. /\ pass' \in Passes /\ pass'.undelivered = pass.undelivered
      /\ pass'.skipped = pass.skipped /\ pass'.excused = pass.excused
  BY <1>1, ContentKnown, SkillParts DEF Passes
<1>3. SkillRowsFit' /\ MapFits' /\ Loop \notin unchanged
  BY <1>1, ObjectsKept, SkillParts DEF MapFits, CopiesFresh
<1>4. ASSUME calm PROVE (\A c \in Callers : proc[c].pc = "idle") /\ LoopAt(Idle)'
  <2>1. Filled({}) /\ \A c \in Callers : proc[c].pc = "idle"
    BY <1>1, <1>4 DEF SkillInv, CalmTells, LoopAt
  <2>2. Filled({})'
    BY <1>1, <1>2, <2>1, FilledKept
  <2>. QED BY <2>1, <2>2, IdleFits DEF LoopAt
<1>. QED BY <1>1, <1>2, <1>3, <1>4, IdleFits, LoopKeeps DEF SkillInv

LEMMA LoopGetHolds ==
  ASSUME SkillInv, EnsureGet(Loop)
  PROVE  SkillInv'
<1>0. /\ proc[Loop].pc \in {"get", "create"} /\ proc[Loop] \in Requests
      /\ UNCHANGED <<objects, counters, calm>>
      /\ \E s \in Skills : proc[Loop].skill = {s}
  BY SkillParts DEF EnsureGet, By, OfOneSkill, counters
<1>s. PICK s \in Skills : proc[Loop].skill = {s}
  BY <1>0
<1>1. SkillRowsFit' /\ Loop \notin unchanged
  BY <1>0, ObjectsKept, SkillParts DEF CopiesFresh
<1>2. calm => /\ \A c \in Callers : proc[c].pc = "idle"
              /\ Kept /\ s \in Wanted /\ s \notin pass.todo
              /\ proc[Loop].content = skillRow[s]
              /\ Filled(pass.todo \union {s}) /\ cm.exists
  BY <1>0, <1>s DEF SkillInv, CalmTells, LoopAt
<1>3. CASE ~ cm.exists /\ Goto(Loop, "create") /\ UNCHANGED <<cm, unchanged, pass>>
  <2>1. PICK r : r = [proc[Loop] EXCEPT !.pc = "create"]
    OBVIOUS
  <2>2. r \in Requests /\ r.skill = {s}
    BY <1>0, <1>s, <2>1, MoveFits DEF Places
  <2>3. proc' = [proc EXCEPT ![Loop] = r] /\ OfOneSkill(Loop, r)
    BY <1>3, <2>1, <2>2 DEF Goto, OfOneSkill
  <2>4. ~ calm /\ MapFits' /\ pass' \in Passes
    BY <1>2, <1>3, SkillParts DEF MapFits
  <2>. QED BY <1>0, <1>1, <1>3, <2>2, <2>3, <2>4, LoopKeeps DEF SkillInv
<1>4. CASE /\ proc' = [proc EXCEPT ![Loop].pc = "put", ![Loop].view = cm.data]
           /\ unchanged' = unchanged \union {Loop} /\ UNCHANGED <<cm, pass>>
  <2>1. PICK r : r = [proc[Loop] EXCEPT !.pc = "put", !.view = cm.data]
    OBVIOUS
  <2>2. /\ r \in Requests /\ r.skill = {s} /\ r.pc = "put" /\ r.view = cm.data
        /\ r.content = proc[Loop].content
    BY <1>0, <1>s, <2>1, SkillParts DEF Requests, Places
  <2>3. proc' = [proc EXCEPT ![Loop] = r] /\ OfOneSkill(Loop, r)
    BY <1>0, <1>4, <2>1, <2>2, SkillParts DEF OfOneSkill
  <2>4. MapFits' /\ pass' \in Passes
    BY <1>4, SkillParts DEF MapFits
  <2>5. ASSUME calm PROVE LoopAt(r)'
    <3>1. Wanted' = Wanted /\ skillRow' = skillRow
      BY <1>0, <1>4, ObjectsKept DEF Wanted
    <3>2. Kept'
      BY <1>2, <1>4, <2>5, <3>1 DEF Kept, KeptBut
    <3>3. Filled(pass.todo \union {s})'
      BY <1>0, <1>2, <1>4, <2>5, FilledKept
    <3>4. s \in Wanted' /\ r.content = skillRow'[s] /\ s \notin pass'.todo /\ Loop \in unchanged'
      BY <1>2, <1>4, <2>2, <2>5, <3>1
    <3>5. cm'.exists
      BY <1>2, <1>4, <2>5
    <3>. QED BY <2>2, <3>2, <3>3, <3>4, <3>5 DEF LoopAt
  <2>. QED BY <1>0, <1>1, <1>2, <1>4, <2>2, <2>3, <2>4, <2>5, LoopKeeps DEF SkillInv
<1>. QED BY <1>3, <1>4 DEF EnsureGet

\* Of two objects the one with the larger bodies is the one that is refused.
LEMMA LargerIsRefused ==
  ASSUME NEW less \in [Skills -> Content], NEW more \in [Skills -> Content],
         ~ Accepted(less), \A s \in Skills : less[s].size <= more[s].size
  PROVE  ~ Accepted(more)
<1>1. PICK d, e : d = [s \in Skills |-> less[s].size] /\ e = [s \in Skills |-> more[s].size]
  OBVIOUS
<1>2. \A b \in Content : b.size \in {0} \union Sizes
  BY DEF Content, NoBody
<1>3. d \in [Skills -> {0} \union Sizes] /\ e \in [Skills -> {0} \union Sizes]
  BY <1>1, <1>2
<1>4. \A s \in Skills : d[s] <= e[s]
  BY <1>1
<1>5. Takes(e) => Takes(d)
  BY <1>3, <1>4, TakesAssumption
<1>. QED BY <1>1, <1>5 DEF Accepted

\* The apiserver takes what the loop writes for s.
LEMMA WrittenTells ==
  ASSUME SkillInv, NEW s \in Wanted, s \notin pass.todo, Filled(pass.todo \union {s}),
         NEW data \in [Skills -> Content], data = [cm.data EXCEPT ![s] = skillRow[s]],
         UNCHANGED objects, cm'.data = data, pass'.todo = pass.todo,
         pass'.skipped = pass.skipped, pass'.undelivered = pass.undelivered,
         IF skillRow[s].size < cm.data[s].size
         THEN pass'.excused = pass.excused \union pass.undelivered
         ELSE pass'.excused = pass.excused
  PROVE  Filled(pass.todo)'
<1>1. Wanted' = Wanted /\ skillRow' = skillRow
  BY DEF objects, Wanted, Target, Rows, UsedByImages, UsedByAgents, KeysOf
<1>2. Wanted \subseteq Skills /\ s \in Skills
  BY TargetKnown DEF Wanted
<1>3. data[s] = skillRow[s] /\ \A u \in Skills \ {s} : data[u] = cm.data[u]
  BY <1>2, SkillParts
<1>4. Right(s)' /\ \A u \in Skills \ {s} : Right(u)' <=> Right(u)
  BY <1>1, <1>3 DEF Right
<1>5. pass.todo \subseteq Wanted /\ \A u \in pass.todo : ~ Right(u)'
  BY <1>2, <1>4 DEF Filled
<1>6. KeysOf(cm.data)' \subseteq Wanted
  <2>1. KeysOf(cm.data) \subseteq Wanted
    BY DEF Filled
  <2>. QED BY <1>3, <2>1 DEF KeysOf
<1>7. pass'.undelivered = {u \in Wanted \ pass.todo : ~ Right(u)'}
  <2>1. pass.undelivered = {u \in Wanted \ (pass.todo \union {s}) : ~ Right(u)}
    BY DEF Filled
  <2>. QED BY <1>2, <1>4, <2>1
<1>8. ASSUME NEW u \in pass'.undelivered \ pass'.excused PROVE TooLarge(u)'
  <2>1. u \in pass.undelivered \ pass.excused /\ ~ (skillRow[s].size < cm.data[s].size)
    BY <1>8
  <2>2. TooLarge(u) /\ u \in Skills /\ u # s
    BY <1>2, <2>1 DEF Filled
  <2>3. PICK less, more : /\ less = [cm.data EXCEPT ![u] = skillRow[u]]
                          /\ more = [data EXCEPT ![u] = skillRow[u]]
    OBVIOUS
  <2>4. less \in [Skills -> Content] /\ more \in [Skills -> Content]
    BY <2>2, <2>3, TargetKnown, SkillParts
  <2>5. \A b \in Content : b.size \in Nat
    <3>1. NoBody.size \in Nat /\ Sizes \subseteq Nat
      BY SkillsAssumption DEF NoBody
    <3>2. \A b \in [version: 1..(MaxSkillEdits + 1), size: Sizes] : b.size \in Nat
      BY ONLY <3>1
    <3>. QED BY ONLY <3>1, <3>2 DEF Content
  <2>6. cm.data[s].size <= skillRow[s].size
    BY <1>2, <2>1, <2>5, TargetKnown, SkillParts
  <2>7. ASSUME NEW x \in Skills PROVE less[x].size <= more[x].size
    <3>1. less[x].size \in Nat
      BY <2>4, <2>5
    <3>2. x # s => less[x] = more[x]
      BY <1>3, <2>2, <2>3, SkillParts
    <3>3. x = s => less[x] = cm.data[s] /\ more[x] = skillRow[s]
      BY <1>2, <1>3, <2>2, <2>3, SkillParts
    <3>. QED BY <2>6, <3>1, <3>2, <3>3
  <2>8. ~ Accepted(less)
    BY <2>2, <2>3 DEF TooLarge
  <2>9. ~ Accepted(more)
    BY <2>4, <2>7, <2>8, LargerIsRefused
  <2>. QED BY <1>1, <2>3, <2>9 DEF TooLarge, Accepted
<1>. QED BY <1>1, <1>5, <1>6, <1>7, <1>8 DEF Filled

\* It does not, or something else comes between.
LEMMA LeftTells ==
  ASSUME SkillInv, NEW s \in Wanted, s \notin pass.todo, Filled(pass.todo \union {s}),
         NEW excuse, UNCHANGED objects, cm' = cm, pass'.todo = pass.todo,
         pass'.skipped = pass.skipped, pass'.undelivered = pass.undelivered \union {s},
         pass'.excused = pass.excused \union excuse, s \in excuse \/ TooLarge(s)
  PROVE  Filled(pass.todo)'
<1>1. Wanted' = Wanted /\ skillRow' = skillRow
  BY DEF objects, Wanted, Target, Rows, UsedByImages, UsedByAgents, KeysOf
<1>2. \A u : Right(u)' <=> Right(u)
  BY <1>1 DEF Right
<1>3. \A u : TooLarge(u)' <=> TooLarge(u)
  BY <1>1 DEF TooLarge, Accepted
<1>. QED BY <1>1, <1>2, <1>3 DEF Filled, KeysOf

LEMMA LoopPutHolds ==
  ASSUME SkillInv, EnsureCreate(Loop) \/ EnsurePut(Loop)
  PROVE  SkillInv'
<1>0. /\ proc[Loop].pc \in {"create", "put"} /\ proc[Loop] \in Requests
      /\ UNCHANGED <<objects, skillEdits, calm>>
      /\ \E s \in Skills : proc[Loop].skill = {s}
  BY SkillParts DEF EnsureCreate, EnsurePut, By, OfOneSkill
<1>s. PICK s \in Skills : proc[Loop].skill = {s} /\ SkillOf(Loop) = s
  BY <1>0, SkillKnown
<1>q. PICK q \in Requests : q = proc[Loop]
  BY <1>0
<1>1. PICK made, data, r :
        /\ q = proc[Loop] /\ r = [Idle EXCEPT !.pc = "write"]
        /\ made = [NoData EXCEPT ![s] = q.content]
        /\ data = [q.view EXCEPT ![s] = q.content]
  BY <1>q
<1>2. /\ made \in [Skills -> Content] /\ data \in [Skills -> Content]
      /\ r \in Requests /\ r.pc = "write" /\ OfOneSkill(Loop, r)
  <2>1. q.view \in [Skills -> Content] /\ q.content \in Content
    BY DEF Requests
  <2>. QED BY <1>1, <2>1, ContentKnown, WritingFits
<1>3. proc' = [proc EXCEPT ![Loop] = r] /\ (AllWell \/ SkillFault)
  BY <1>1 DEF EnsureCreate, EnsurePut, Rendered, NotRendered, Writing
<1>4. SkillRowsFit'
  BY <1>0, <1>3, EditFits, SkillParts DEF AllWell, SkillRowsFit, objects
<1>5. pass' \in Passes
  <2>1. \/ pass' = pass
        \/ pass' = [pass EXCEPT !.excused = pass.excused \union pass.undelivered]
        \/ \E excuse \in SUBSET {s} : pass' = [pass EXCEPT !.undelivered = pass.undelivered \union {s},
                                                           !.excused = pass.excused \union excuse]
    BY <1>s DEF EnsureCreate, EnsurePut, Rendered, NotRendered
  <2>2. PICK w \in Passes : w = pass
    BY SkillParts
  <2>3. CASE pass' = [pass EXCEPT !.excused = pass.excused \union pass.undelivered]
    <3>1. pass' = [w EXCEPT !.excused = w.excused \union w.undelivered]
      BY ONLY <2>2, <2>3
    <3>. QED BY ONLY <3>1, w \in Passes DEF Passes
  <2>4. ASSUME NEW excuse \in SUBSET {s},
               pass' = [pass EXCEPT !.undelivered = pass.undelivered \union {s},
                                    !.excused = pass.excused \union excuse]
        PROVE  pass' \in Passes
    <3>1. pass' = [w EXCEPT !.undelivered = w.undelivered \union {s}, !.excused = w.excused \union excuse]
      BY ONLY <2>2, <2>4
    <3>. QED BY ONLY <3>1, w \in Passes, s \in Skills, excuse \in SUBSET {s} DEF Passes
  <2>. QED BY <2>1, <2>2, <2>3, <2>4
<1>6. MapFits' /\ (unchanged' = {} \/ (unchanged' \subseteq unchanged /\ Loop \notin unchanged' /\ cm' = cm))
  <2>1. CASE WriteMap(made) \/ WriteMap(data)
    BY <1>2, <2>1, WrittenFits
  <2>2. CASE UNCHANGED cm /\ unchanged' = unchanged \ {Loop}
    BY <2>2, SkillParts DEF MapFits
  <2>3. CASE UNCHANGED <<cm, unchanged>> /\ proc[Loop].pc = "create"
    BY <2>3, SkillParts DEF MapFits, CopiesFresh
  <2>. QED BY <1>s, <1>1, <2>1, <2>2, <2>3 DEF EnsureCreate, EnsurePut
<1>7. ASSUME calm PROVE (\A c \in Callers : proc[c].pc = "idle") /\ LoopAt(r)'
  <2>1. /\ \A c \in Callers : proc[c].pc = "idle"
        /\ q.pc = "put" /\ cm.exists /\ Kept /\ s \in Wanted /\ s \notin pass.todo
        /\ q.content = skillRow[s]
        /\ Filled(pass.todo \union {s}) /\ Loop \in unchanged
    BY <1>0, <1>s, <1>1, <1>7 DEF SkillInv, CalmTells, LoopAt
  <2>2. data = [cm.data EXCEPT ![s] = skillRow[s]]
    BY <1>1, <2>1, SkillParts DEF CopiesFresh
  <2>3. EnsurePut(Loop)
    BY <1>1, <2>1 DEF EnsureCreate
  <2>4. CASE /\ WriteMap(data)
             /\ pass' = IF q.content.size < cm.data[s].size
                        THEN [pass EXCEPT !.excused = pass.excused \union pass.undelivered] ELSE pass
    <3>1. /\ pass'.todo = pass.todo /\ pass'.keep = pass.keep
          /\ pass'.skipped = pass.skipped /\ pass'.undelivered = pass.undelivered
          /\ IF skillRow[s].size < cm.data[s].size
             THEN pass'.excused = pass.excused \union pass.undelivered
             ELSE pass'.excused = pass.excused
      BY <2>1, <2>4, SkillParts DEF Passes
    <3>2. cm'.data = data /\ cm'.exists = TRUE
      BY <1>2, <2>4, WrittenFits
    <3>3. Filled(pass.todo)'
      BY <1>0, <1>2, <2>1, <2>2, <3>1, <3>2, WrittenTells
    <3>4. Kept'
      BY <1>0, <2>1, <3>1 DEF Kept, KeptBut, objects, Wanted, Target, Rows, UsedByImages, UsedByAgents, KeysOf
    <3>. QED BY <1>2, <2>1, <3>2, <3>3, <3>4 DEF LoopAt
  <2>5. ASSUME NEW excuse, UNCHANGED cm, s \in excuse \/ ~ Accepted(data),
               pass' = [pass EXCEPT !.undelivered = pass.undelivered \union {s},
                                    !.excused = pass.excused \union excuse]
        PROVE  LoopAt(r)'
    <3>1. /\ pass'.todo = pass.todo /\ pass'.keep = pass.keep /\ pass'.skipped = pass.skipped
          /\ pass'.undelivered = pass.undelivered \union {s}
          /\ pass'.excused = pass.excused \union excuse
      BY <2>5, SkillParts DEF Passes
    <3>2. s \in excuse \/ TooLarge(s)
      BY <2>2, <2>5 DEF TooLarge
    <3>3. Filled(pass.todo)'
      BY <1>0, <2>1, <2>5, <3>1, <3>2, LeftTells
    <3>4. Kept'
      BY <1>0, <2>1, <3>1 DEF Kept, KeptBut, objects, Wanted, Target, Rows, UsedByImages, UsedByAgents, KeysOf
    <3>. QED BY <1>2, <2>1, <2>5, <3>3, <3>4 DEF LoopAt
  <2>6. \/ /\ WriteMap(data)
           /\ pass' = IF q.content.size < cm.data[s].size
                      THEN [pass EXCEPT !.excused = pass.excused \union pass.undelivered] ELSE pass
        \/ \E excuse : /\ UNCHANGED cm /\ (s \in excuse \/ ~ Accepted(data))
                       /\ pass' = [pass EXCEPT !.undelivered = pass.undelivered \union {s},
                                               !.excused = pass.excused \union excuse]
    <3>1. CASE WriteMap(data) /\ Rendered(Loop)
      BY <1>s, <1>1, <3>1 DEF Rendered
    <3>2. CASE UNCHANGED cm /\ ~ Accepted(data) /\ NotRendered(Loop, {})
      BY <1>s, <1>1, <3>2 DEF NotRendered
    <3>3. CASE UNCHANGED cm /\ NotRendered(Loop, {s})
      BY <1>s, <1>1, <3>3 DEF NotRendered
    <3>. QED BY <1>s, <1>1, <2>3, <3>1, <3>2, <3>3 DEF EnsurePut
  <2>. QED BY <2>1, <2>4, <2>5, <2>6
<1>. QED BY <1>0, <1>2, <1>3, <1>4, <1>5, <1>6, <1>7, LoopKeeps DEF SkillInv

LEMMA SkillsNextHolds ==
  ASSUME SkillInv, SkillsNext \/ UNCHANGED skillVars
  PROVE  SkillInv'
<1>1. CASE UNCHANGED skillVars
  <2>1. UNCHANGED <<objects, counters, cm, unchanged, proc, pass, calm>>
    BY <1>1 DEF skillVars, objects, counters
  <2>2. SkillRowsFit' /\ MapFits' /\ ProcsFit' /\ CopiesFresh' /\ pass' \in Passes /\ calm' \in BOOLEAN
    BY <2>1, ObjectsKept, SkillParts DEF MapFits, ProcsFit, OfOneSkill, CopiesFresh, SkillInv
  <2>3. ASSUME calm PROVE LoopAt(proc[Loop])'
    <3>1. LoopAt(proc[Loop])
      BY <2>3 DEF SkillInv, CalmTells
    <3>2. Wanted' = Wanted /\ skillRow' = skillRow /\ pass' = pass /\ cm' = cm
          /\ unchanged' = unchanged /\ proc' = proc
      BY <2>1, ObjectsKept DEF Wanted
    <3>3. \A rest : KeptBut(rest) => KeptBut(rest)'
      BY <3>2 DEF KeptBut
    <3>4. ASSUME NEW rest, Filled(rest) PROVE Filled(rest)'
      BY <2>1, <3>4, FilledKept
    <3>5. UsedByImages' = UsedByImages /\ UsedByAgents' = UsedByAgents
      BY <2>1, ObjectsKept
    <3>6. CASE proc[Loop].pc \in {"idle", "end", "agents", "rows"}
      BY <3>1, <3>2, <3>4, <3>5, <3>6 DEF LoopAt, Collecting, NoData
    <3>7. CASE proc[Loop].pc \in {"contents", "prune", "write"}
      BY <3>1, <3>2, <3>3, <3>4, <3>7 DEF LoopAt, Kept
    <3>8. CASE proc[Loop].pc \in {"get", "put"}
      <4>1. PICK s \in Wanted : /\ proc[Loop].skill = {s} /\ proc[Loop].content = skillRow[s]
                               /\ s \notin pass.todo /\ Filled(pass.todo \union {s})
        BY <3>1, <3>8 DEF LoopAt
      <4>2. Filled(pass.todo \union {s})'
        BY <2>1, <4>1, FilledKept
      <4>3. cm.exists /\ KeptBut({}) /\ (proc[Loop].pc = "put" => Loop \in unchanged)
        BY <3>1, <3>8 DEF LoopAt, Kept
      <4>. QED BY <3>2, <3>3, <3>8, <4>1, <4>2, <4>3 DEF LoopAt, Kept
    <3>. QED BY <3>1, <3>6, <3>7, <3>8 DEF LoopAt
  <2>. QED BY <2>1, <2>2, <2>3 DEF SkillInv, CalmTells
<1>2. CASE Deliver
  BY <1>2, ImagesCollected, AgentsCollected, RowsCollected, ContentCollected, MapHolds, PruneHolds,
     WriteBegins, EndHolds, LoopGetHolds, LoopPutHolds DEF Deliver
<1>. QED BY <1>1, <1>2, CallerHolds, OthersDisturb DEF SkillsNext

-------------------------------------------------------------------------------
(* What the loops carry                                                        *)

\* The requests of the instance are those of the desk, of the one trigger it asks about.
LEMMA DeskStepTaken ==
  ASSUME asks.of \in TriggerIds, DeskStep
  PROVE  TriggerDeskNext
BY LoopsAssumption DEF DeskStep, AskedBy, TriggerDeskNext

(* A validity flag of a trigger is a lookup's that found the reference the row *)
(* names, unless requests on that trigger crossed (UpdateTrigger clears what   *)
(* it changes, SetTriggerValidity writes what was found); and a pass over the  *)
(* skills that nobody else disturbed leaves the ConfigMap exactly right but    *)
(* for what it reports as undelivered, be it for a body that has outgrown the  *)
(* object or for a failing write, and for what a failing Get took out of it    *)
(* (Service.Converge, Reconciler.Converge and Ensure).                         *)
THEOREM RowsAreCarried == LoopsSpec => []RowsCarried
<1> DEFINE Inv == asks.of \in TriggerIds /\ DeskInv /\ SkillInv
<1>1. LoopsInit => Inv
  BY DeskStart, SkillStart DEF LoopsInit
<1>2. Inv /\ [LoopsNext]_loopsVars => Inv'
  <2> SUFFICES ASSUME Inv, [LoopsNext]_loopsVars PROVE Inv'
    OBVIOUS
  <2>1. CASE UNCHANGED loopsVars
    BY <2>1, DeskNextHolds, SkillsNextHolds DEF loopsVars
  <2>2. CASE LoopsNext
    <3>1. asks' = asks
      BY <2>2 DEF LoopsNext
    <3>2. (TriggerDeskNext \/ UNCHANGED triggerVars) /\ (SkillsNext \/ UNCHANGED skillVars)
      BY <2>2, DeskStepTaken DEF LoopsNext, Cron, Desk, Delivery
    <3> QED
      BY <3>1, <3>2, DeskNextHolds, SkillsNextHolds
  <2> QED
    BY <2>1, <2>2
<1>3. Inv => RowsCarried
  BY DeskInvTells, SkillInvTells DEF RowsCarried
<1> QED
  BY <1>1, <1>2, <1>3, PTL DEF LoopsSpec
===============================================================================
