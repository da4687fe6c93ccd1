--------------------------------- MODULE MCLoops ---------------------------------
(***************************************************************************)
(* The TLC instance of what the hub's loops carry from rows to where they  *)
(* are used.  CronEmitter: one trigger over two slots, through edits, a    *)
(* failing statement and a restart.  TriggerDesk: one trigger of either    *)
(* kind, asked about by two requests at once, or by one while the sync     *)
(* runs.  SkillsDelivery: two skills, of which one fits the ConfigMap, and *)
(* a request beside the loop.  Every behaviour is of one of them, its      *)
(* part.                                                                   *)
(***************************************************************************)
EXTENDS CronEmitter, TriggerDesk, SkillsDelivery
LOCAL INSTANCE Functions

CONSTANTS trigger1, hook1, job1, target1, target2, content1, typist1, typist2,
          skill1, skill2, image1, agent1, caller1

ASSUME LoopsAssumption == typist1 \in Typists

\* An object of up to two units, of which a body has one or two.
TwoUnits(sizes) == SumFunction(sizes) <= 2

VARIABLES part,
          asks   \* TriggerDesk: whether the requests or the memory are in question, of which trigger

loopsVars == <<part, asks, vars, triggerVars, skillVars>>

Cron(A)     == part = "cron" /\ A
Desk(A)     == part = "triggers" /\ A
Delivery(A) == part = "skills" /\ A

AskedBy(q) == Steps(q) \/ Asks(q, asks.of)
DeskStep ==
  \/ asks.on = "memory" /\ (AskedBy(typist1) \/ SyncTriggers)
  \/ asks.on = "requests" /\ \E q \in Typists : AskedBy(q)
  \/ \E target \in Targets : TargetComesOrGoes(target)
  \/ HubRestarts

LoopsInit ==
  /\ part \in {"cron", "triggers", "skills"}
  /\ asks \in [on : {"requests", "memory"}, of : TriggerIds]
  /\ Init /\ TriggerDeskInit /\ SkillsInit
  /\ \A t \in TriggerIds \ {asks.of} : ~sheet[t].there
  /\ part # "triggers" => alive = {} /\ asks = [on |-> "memory", of |-> hook1]
  /\ part # "skills" => skillRow = NoData
  /\ \A s \in Skills : skillRow[s].size <= 1  \* bodies start small

LoopsNext ==
  /\ UNCHANGED <<part, asks>>
  /\ \/ Cron(Next)            /\ UNCHANGED <<triggerVars, skillVars>>
     \/ Desk(DeskStep)        /\ UNCHANGED <<vars, skillVars>>
     \/ Delivery(SkillsNext)  /\ UNCHANGED <<vars, triggerVars>>

LoopsSpec ==
  /\ LoopsInit /\ [][LoopsNext]_loopsVars
  /\ WF_vars(Cron(Emit)) /\ WF_vars(Cron(Sync))
  /\ WF_triggerVars(Desk(SyncTriggers)) /\ \A q \in Typists : WF_triggerVars(Desk(Steps(q)))
  /\ WF_skillVars(Delivery(Deliver)) /\ \A q \in Callers : WF_skillVars(Delivery(Serve(q)))

-------------------------------------------------------------------------------
(* TriggerDesk's ValidityIsEarned, SkillsDelivery's PassIsExact.               *)
RowsCarried ==
  /\ part = "triggers" => TriggerDeskTypeOK /\ ValidityIsEarned
  /\ part = "skills" => SkillsTypeOK /\ PassIsExact

(* TriggerDesk's IndexFollows where nobody else asks, SkillsDelivery's         *)
(* SkillsDelivered: memory and ConfigMap come to be what the rows say.         *)
LoopsFollow ==
  <>[](/\ part = "triggers" /\ asks.on = "memory" => index = sheet
       /\ part = "skills" => Delivered)
===============================================================================
