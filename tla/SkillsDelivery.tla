----------------------------- MODULE SkillsDelivery -----------------------------
(***************************************************************************)
(* The skill registry and the one ConfigMap that carries the enabled       *)
(* skills to the pods: services/hub/internal/skills, the handlers of       *)
(* internal/api/handlers_skills.go and the loop of                         *)
(* cmd/hub/skills_delivery.go.                                             *)
(*                                                                         *)
(* The object is read, changed and written back with optimistic            *)
(* concurrency by requests and by the loop alike; the rows, the AgentImage *)
(* and Agent objects it is derived from are read by separate calls, and    *)
(* the apiserver refuses it beyond a size, which a new skill, an edit that *)
(* makes a body longer or the two together may reach.                      *)
(***************************************************************************)
EXTENDS Naturals, FiniteSets

CONSTANTS
  Skills, Images, Agents,
  Callers,        \* requests that may be in flight at once
  Sizes,          \* of bodies
  Takes(_),       \* whether the apiserver takes an object with bodies of these sizes
  MaxSkillEdits,  \* bound: requests and edits of the custom resources
  MaxSkillFaults  \* bound: failing calls and crashes of the hub

ASSUME SkillsAssumption ==
  /\ IsFiniteSet(Skills) /\ "loop" \notin Callers
  /\ Sizes \subseteq Nat \ {0} /\ MaxSkillEdits \in Nat /\ MaxSkillFaults \in Nat

\* It takes an empty object, and with one all that are no larger in any body.
ASSUME TakesAssumption ==
  LET objectSizes == [Skills -> {0} \union Sizes] IN
  /\ Takes([s \in Skills |-> 0]) /\ \A d \in objectSizes : Takes(d) \in BOOLEAN
  /\ \A d, e \in objectSizes : Takes(e) /\ (\A s \in Skills : d[s] <= e[s]) => Takes(d)

VARIABLES
  skillRow,     \* skillRow[s]: the body stored for s, NoBody when there is no row
  skillGrouped, \* the skills with a row in resource_groups
  enabled,      \* enabled[i]: spec.enabledSkills of an AgentImage
  items,        \* items[a]: spec.skills.items of an Agent, {} when it inherits
  cm,           \* the ConfigMap
  unchanged,    \* who holds a copy of the object that is still its last version
  proc,         \* the requests, and the delivery loop
  pass,         \* what the loop has collected in this pass
  skillEdits, skillFaults
VARIABLE calm  \* history: nobody else has done anything since the pass began

objects   == <<skillRow, skillGrouped, enabled, items>>
counters  == <<skillEdits, skillFaults>>
skillVars == <<objects, cm, unchanged, proc, pass, counters, calm>>

Loop    == "loop"
Procs   == Callers \union {Loop}
NoBody  == [version |-> 0, size |-> 0]
Content == {NoBody} \union [version: 1..(MaxSkillEdits + 1), size: Sizes]
NoData  == [s \in Skills |-> NoBody]
KeysOf(data) == {s \in Skills : data[s] # NoBody}
Accepted(data) == Takes([s \in Skills |-> data[s].size])

Idle == [pc |-> "idle", skill |-> {}, image |-> {}, content |-> NoBody, view |-> NoData]

\* skipped and excused are history: skills that a failing Get took out of the pass,
\* and undelivered ones that another reason than the size kept out, or that had no
\* room before a later write of the pass made some.
NoPass == [enabled |-> {}, todo |-> {}, keep |-> NoData, undelivered |-> {},
           skipped |-> {}, excused |-> {}]

SkillsTypeOK ==
  /\ skillRow \in [Skills -> Content] /\ skillGrouped \subseteq Skills
  /\ enabled \in [Images -> SUBSET Skills] /\ items \in [Agents -> SUBSET Skills]
  /\ cm \in [exists: BOOLEAN, data: [Skills -> Content]]
  /\ unchanged \subseteq Procs
  /\ \A p \in Procs : proc[p].view \in [Skills -> Content]
  /\ pass.keep \in [Skills -> Content]
  /\ pass.undelivered \subseteq Skills /\ pass.skipped \subseteq Skills
  /\ skillEdits \in 0..MaxSkillEdits /\ skillFaults \in 0..MaxSkillFaults /\ calm \in BOOLEAN

SkillsInit ==
  /\ skillRow \in {NoData} \union {[s \in Skills |-> [version |-> 1, size |-> z]] : z \in Sizes}
  /\ skillGrouped = KeysOf(skillRow)
  /\ enabled = [i \in Images |-> {}] /\ items = [a \in Agents |-> {}]
  /\ cm = [exists |-> FALSE, data |-> NoData] /\ unchanged = {}
  /\ proc = [p \in Procs |-> Idle] /\ pass = NoPass
  /\ skillEdits = 0 /\ skillFaults = 0
  /\ calm = FALSE

-------------------------------------------------------------------------------
SkillFault == skillFaults < MaxSkillFaults /\ skillFaults' = skillFaults + 1
AllWell    == UNCHANGED skillFaults

Edit == skillEdits < MaxSkillEdits /\ skillEdits' = skillEdits + 1 /\ calm' = FALSE

Body(size) == [version |-> skillEdits + 2, size |-> size]

Begin(c, pc, s, body) ==
  /\ proc[c].pc = "idle" /\ Edit
  /\ proc' = [proc EXCEPT ![c] = [Idle EXCEPT !.pc = pc, !.skill = {s}, !.content = body]]
Goto(c, pc)  == proc' = [proc EXCEPT ![c].pc = pc]
Finish(c)    == proc' = [proc EXCEPT ![c] = Idle]
SkillOf(p)   == CHOOSE s \in Skills : proc[p].skill = {s}

Own(c) == calm' = FALSE /\ UNCHANGED skillEdits

\* Store.List; Store.Create and what the listers say of the custom resources.
Rows                  == KeysOf(skillRow)
InsertRow(s, body)    == s \notin Rows /\ skillRow' = [skillRow EXCEPT ![s] = body]
Referrers(s)          == {i \in Images : s \in enabled[i]}
UsedByImages          == UNION {enabled[i] : i \in Images}
UsedByAgents          == UNION {items[a] : a \in Agents}

\* Writes the object, which makes every other copy of it stale.
WriteMap(data) ==
  /\ cm' = [exists |-> TRUE, data |-> data]
  /\ unchanged' = {}

(***************************************************************************)
(* Requests.  Those refused by validation or access control change nothing *)
(* and are left out.                                                       *)
(***************************************************************************)
\* POST /skills: the insert, which fails on a taken id; nothing is rendered.
CreateSkill(c, s, size) ==
  /\ Begin(c, "group", s, NoBody)
  /\ InsertRow(s, Body(size))
  /\ UNCHANGED <<skillGrouped, enabled, items, cm, unchanged, pass, skillFaults>>

\* SetResourceGroup; its error is logged.
GroupSkill(c) ==
  /\ proc[c].pc = "group"
  /\ \/ AllWell    /\ skillGrouped' = skillGrouped \union proc[c].skill
     \/ SkillFault /\ UNCHANGED skillGrouped
  /\ Finish(c) /\ Own(c)
  /\ UNCHANGED <<skillRow, enabled, items, cm, unchanged, pass>>

\* PUT /skills/:id: Store.Update reads the row, without a transaction ...
UpdateSkill(c, s, size) ==
  /\ s \in Rows
  /\ Begin(c, "storeRow", s, Body(size))
  /\ UNCHANGED <<objects, cm, unchanged, pass, skillFaults>>

\* ... and writes it; no row of that id is no error.
StoreRow(c) ==
  LET s == SkillOf(c) IN
  /\ proc[c].pc = "storeRow"
  /\ skillRow' = [skillRow EXCEPT ![s] = IF @ = NoBody THEN @ ELSE proc[c].content]
  /\ Goto(c, "images")
  /\ Own(c)
  /\ UNCHANGED <<skillGrouped, enabled, items, cm, unchanged, pass, skillFaults>>

\* deliverIfEnabled: EnabledSkillIDs lists the images ...
ListImages(c) ==
  LET s == SkillOf(c) IN
  /\ proc[c].pc = "images"
  /\ \/ AllWell    /\ Goto(c, IF s \in UsedByImages THEN "get" ELSE "agents")
     \/ SkillFault /\ Goto(c, "get")
  /\ Own(c)
  /\ UNCHANGED <<objects, cm, unchanged, pass>>

\* ... and the agents; when a listing fails the skill is rendered all the same.
ListAgents(c) ==
  LET s == SkillOf(c) IN
  /\ proc[c].pc = "agents"
  /\ \/ AllWell /\ IF s \in UsedByAgents THEN Goto(c, "get") ELSE Finish(c)
     \/ SkillFault /\ Goto(c, "get")
  /\ Own(c)
  /\ UNCHANGED <<objects, cm, unchanged, pass>>

\* PUT /skills/:id/assignments/:image: the row must exist ...
AssignSkill(c, s, i) ==
  /\ s \in Rows
  /\ proc[c].pc = "idle" /\ Edit
  /\ proc' = [proc EXCEPT ![c] =
       [Idle EXCEPT !.pc = "enable", !.skill = {s}, !.image = {i}, !.content = skillRow[s]]]
  /\ UNCHANGED <<objects, cm, unchanged, pass, skillFaults>>

\* mutateEnabledSkills, retried on a conflict.
WithSkills(images, skills) ==
  [i \in Images |-> IF i \in images THEN enabled[i] \union skills ELSE enabled[i]]
WithoutSkills(images, skills) ==
  [i \in Images |-> IF i \in images THEN enabled[i] \ skills ELSE enabled[i]]

\* ... the image is changed and the skill rendered.
EnableSkill(c) ==
  /\ proc[c].pc = "enable"
  /\ \/ /\ AllWell
        /\ enabled' = WithSkills(proc[c].image, proc[c].skill)
        /\ Goto(c, "get")
     \/ /\ SkillFault /\ UNCHANGED enabled /\ Finish(c)
  /\ Own(c)
  /\ UNCHANGED <<skillRow, skillGrouped, items, cm, unchanged, pass>>

\* DELETE on an assignment: nothing is rendered, the next pass prunes.
UnassignSkill(c, s, i) ==
  /\ s \in Rows /\ proc[c].pc = "idle"
  /\ Edit
  /\ enabled' = WithoutSkills({i}, {s})
  /\ UNCHANGED <<skillRow, skillGrouped, items, cm, unchanged, proc, pass, skillFaults>>

\* DELETE /skills/:id: refused while an AgentImage refers to it ...
DeleteSkill(c, s) ==
  /\ Referrers(s) = {}
  /\ Begin(c, "deleteRow", s, NoBody)
  /\ UNCHANGED <<objects, cm, unchanged, pass, skillFaults>>

\* ... the row goes first, an absent row ends the request ...
DeleteRow(c) ==
  LET s == SkillOf(c) IN
  /\ proc[c].pc = "deleteRow"
  /\ skillRow' = [skillRow EXCEPT ![s] = NoBody]
  /\ IF s \in Rows THEN Goto(c, "getToDelete") ELSE Finish(c)
  /\ Own(c)
  /\ UNCHANGED <<skillGrouped, enabled, items, cm, unchanged, pass, skillFaults>>

\* ... then its key: Reconciler.Delete reads the object ...
GetToDelete(c) ==
  LET s == SkillOf(c) IN
  /\ proc[c].pc = "getToDelete"
  /\ IF cm.data[s] = NoBody
     THEN Goto(c, "ungroup") /\ UNCHANGED unchanged
     ELSE /\ proc' = [proc EXCEPT ![c].pc = "putDeleted", ![c].view = cm.data]
          /\ unchanged' = unchanged \union {c}
  /\ Own(c)
  /\ UNCHANGED <<objects, cm, pass, skillFaults>>

\* ... and writes it; a conflict fails the request and leaves the group's row.
PutDeleted(c) ==
  LET s == SkillOf(c) IN
  /\ proc[c].pc = "putDeleted"
  /\ \/ /\ c \in unchanged /\ AllWell
        /\ WriteMap([proc[c].view EXCEPT ![s] = NoBody]) /\ Goto(c, "ungroup")
     \/ /\ IF c \in unchanged THEN SkillFault ELSE AllWell
        /\ Finish(c) /\ unchanged' = unchanged \ {c} /\ UNCHANGED cm
  /\ Own(c)
  /\ UNCHANGED <<objects, pass>>

UngroupSkill(c) ==
  /\ proc[c].pc = "ungroup"
  /\ \/ AllWell    /\ skillGrouped' = skillGrouped \ proc[c].skill
     \/ SkillFault /\ UNCHANGED skillGrouped
  /\ Finish(c) /\ Own(c)
  /\ UNCHANGED <<skillRow, enabled, items, cm, unchanged, pass>>

\* The custom resources are edited by other handlers and by kubectl.
EditImage(i, s) ==
  /\ Edit
  /\ enabled' = [enabled EXCEPT ![i] = IF s \in @ THEN @ \ {s} ELSE @ \union {s}]
  /\ UNCHANGED <<skillRow, skillGrouped, items, cm, unchanged, proc, pass, skillFaults>>

EditAgent(a, s) ==
  /\ Edit
  /\ items' = [items EXCEPT ![a] = IF s \in @ THEN @ \ {s} ELSE @ \union {s}]
  /\ UNCHANGED <<skillRow, skillGrouped, enabled, cm, unchanged, proc, pass, skillFaults>>

(***************************************************************************)
(* Reconciler.Ensure, by a request (best effort) and by the loop.          *)
(***************************************************************************)
By(p) == IF p = Loop THEN UNCHANGED <<skillEdits, calm>> ELSE Own(p)

Writing == proc' = [proc EXCEPT ![Loop] = [Idle EXCEPT !.pc = "write"]]

\* In the pass, what came to be undelivered before has its excuse when a body shrinks.
Rendered(p) ==
  LET s == SkillOf(p) IN
  IF p = Loop
  THEN /\ Writing
       /\ pass' = IF proc[p].content.size < cm.data[s].size
                  THEN [pass EXCEPT !.excused = @ \union pass.undelivered] ELSE pass
  ELSE Finish(p) /\ UNCHANGED pass

NotRendered(p, excuse) ==
  IF p = Loop
  THEN /\ Writing
       /\ pass' = [pass EXCEPT !.undelivered = @ \union proc[p].skill,
                               !.excused = @ \union excuse]
  ELSE Finish(p) /\ UNCHANGED pass

\* Get; when there is no object, Create, unless another has created it meanwhile.
EnsureGet(p) ==
  /\ proc[p].pc \in {"get", "create"}
  /\ \/ /\ proc[p].pc = "get" /\ ~ cm.exists
        /\ Goto(p, "create") /\ UNCHANGED <<cm, unchanged, pass>>
     \/ /\ cm.exists
        /\ proc' = [proc EXCEPT ![p].pc = "put", ![p].view = cm.data]
        /\ unchanged' = unchanged \union {p}
        /\ UNCHANGED <<cm, pass>>
  /\ By(p)
  /\ UNCHANGED <<objects, skillFaults>>

EnsureCreate(p) ==
  LET data == [NoData EXCEPT ![SkillOf(p)] = proc[p].content] IN
  /\ proc[p].pc = "create" /\ ~ cm.exists
  /\ \/ Accepted(data) /\ AllWell /\ WriteMap(data) /\ Rendered(p)
     \/ ~ Accepted(data) /\ AllWell /\ NotRendered(p, {}) /\ UNCHANGED <<cm, unchanged>>
     \/ SkillFault /\ NotRendered(p, proc[p].skill) /\ UNCHANGED <<cm, unchanged>>
  /\ By(p)
  /\ UNCHANGED objects

\* Update: refused on a conflict, or when the object would grow too large: the body
\* it carried before stays.
EnsurePut(p) ==
  LET data == [proc[p].view EXCEPT ![SkillOf(p)] = proc[p].content] IN
  /\ proc[p].pc = "put"
  /\ \/ p \in unchanged /\ Accepted(data) /\ AllWell /\ WriteMap(data) /\ Rendered(p)
     \/ /\ \/ p \in unchanged /\ ~ Accepted(data) /\ AllWell /\ NotRendered(p, {})
           \/ p \notin unchanged /\ AllWell /\ NotRendered(p, proc[p].skill)
           \/ SkillFault /\ NotRendered(p, proc[p].skill)
        /\ unchanged' = unchanged \ {p} /\ UNCHANGED cm
  /\ By(p)
  /\ UNCHANGED objects

(***************************************************************************)
(* The delivery loop: Service.Converge.                                    *)
(***************************************************************************)
\* A call of the pass fails: the pass ends, to be retried.
PassFails ==
  /\ proc[Loop].pc \in {"agents", "rows", "prune"} \/ (proc[Loop].pc = "contents" /\ pass.todo = {})
  /\ SkillFault
  /\ proc' = [proc EXCEPT ![Loop] = Idle] /\ pass' = NoPass
  /\ unchanged' = unchanged \ {Loop} /\ calm' = FALSE
  /\ UNCHANGED <<objects, cm, skillEdits>>

\* EnabledSkillIDs: the images, then the agents.
PassImages ==
  /\ proc[Loop].pc = "idle"
  /\ pass' = [NoPass EXCEPT !.enabled = UsedByImages]
  /\ Goto(Loop, "agents")
  /\ calm' = \A c \in Callers : proc[c].pc = "idle"
  /\ UNCHANGED <<objects, cm, unchanged, counters>>

\* Mutant: what only an Agent selects is not counted.
PassImagesOnly ==
  /\ proc[Loop].pc = "agents"
  /\ Goto(Loop, "rows")
  /\ UNCHANGED <<objects, cm, unchanged, pass, counters, calm>>

PassAgents ==
  /\ proc[Loop].pc = "agents"
  /\ pass' = [pass EXCEPT !.enabled = @ \union UsedByAgents]
  /\ Goto(Loop, "rows")
  /\ UNCHANGED <<objects, cm, unchanged, counters, calm>>

\* List ...
PassRows ==
  /\ proc[Loop].pc = "rows"
  /\ pass' = [pass EXCEPT !.enabled = {}, !.todo = pass.enabled \intersect Rows]
  /\ Goto(Loop, "contents")
  /\ UNCHANGED <<objects, cm, unchanged, counters, calm>>

\* ... then Get for each enabled skill.  One that has gone is skipped, and so is one
\* whose Get fails: it is not kept, and not reported as undelivered.
PassContent(s) ==
  /\ proc[Loop].pc = "contents" /\ s \in pass.todo
  /\ \/ AllWell    /\ pass' = [pass EXCEPT !.todo = @ \ {s}, !.keep[s] = skillRow[s]]
     \/ SkillFault /\ pass' = [pass EXCEPT !.todo = @ \ {s}, !.skipped = @ \union {s}]
  /\ UNCHANGED <<objects, cm, unchanged, proc, skillEdits, calm>>

\* Reconciler.Converge: Get, after a Create when there is none and one is needed.
PassMap ==
  /\ proc[Loop].pc = "contents" /\ pass.todo = {}
  /\ \/ /\ ~ cm.exists /\ KeysOf(pass.keep) = {}
        /\ Goto(Loop, "end") /\ UNCHANGED <<cm, unchanged>>
     \/ /\ ~ cm.exists /\ KeysOf(pass.keep) # {}
        /\ WriteMap(NoData) /\ UNCHANGED proc
     \/ /\ cm.exists
        /\ proc' = [proc EXCEPT ![Loop].pc = "prune", ![Loop].view = cm.data]
        /\ unchanged' = unchanged \union {Loop} /\ UNCHANGED cm
  /\ UNCHANGED <<objects, pass, counters, calm>>

Wrong(view) == {s \in KeysOf(pass.keep) : view[s] # pass.keep[s]}

\* Mutant: what is not wanted is left for the end.
PassPruneNothing ==
  LET view == proc[Loop].view IN
  /\ proc[Loop].pc = "prune"
  /\ UNCHANGED cm
  /\ unchanged' = unchanged \ {Loop}
  /\ pass' = [pass EXCEPT !.todo = Wrong(view)]
  /\ Writing
  /\ UNCHANGED <<objects, counters, calm>>

\* Everything not kept is dropped before anything is written; a conflict ends the
\* pass.  What is already right is not written again.
PassPrune ==
  LET view   == proc[Loop].view
      pruned == [s \in Skills |-> IF pass.keep[s] = NoBody THEN NoBody ELSE view[s]]
  IN
  /\ proc[Loop].pc = "prune"
  /\ \/ /\ pruned = view
        /\ UNCHANGED cm /\ unchanged' = unchanged \ {Loop}
        /\ pass' = [pass EXCEPT !.todo = Wrong(view)] /\ Writing
     \/ /\ pruned # view /\ Loop \in unchanged
        /\ WriteMap(pruned)
        /\ pass' = [pass EXCEPT !.todo = Wrong(view)] /\ Writing
     \/ /\ pruned # view /\ Loop \notin unchanged
        /\ UNCHANGED <<cm, unchanged>> /\ pass' = NoPass
        /\ proc' = [proc EXCEPT ![Loop] = Idle]
  /\ UNCHANGED <<objects, counters, calm>>

PassWrite(s) ==
  /\ proc[Loop].pc = "write" /\ s \in pass.todo
  /\ pass' = [pass EXCEPT !.todo = @ \ {s}]
  /\ proc' = [proc EXCEPT ![Loop] =
       [Idle EXCEPT !.pc = "get", !.skill = {s}, !.content = pass.keep[s]]]
  /\ UNCHANGED <<objects, cm, unchanged, counters, calm>>

PassEnd ==
  /\ proc[Loop].pc = "end" \/ (proc[Loop].pc = "write" /\ pass.todo = {})
  /\ proc' = [proc EXCEPT ![Loop] = Idle]
  /\ pass' = [pass EXCEPT !.keep = NoData]
  /\ UNCHANGED <<objects, cm, unchanged, counters, calm>>

\* The hub dies: its requests and its pass end where they stand.
SkillsCrash ==
  /\ \E p \in Procs : proc[p].pc # "idle"
  /\ SkillFault
  /\ proc' = [p \in Procs |-> Idle] /\ pass' = NoPass
  /\ unchanged' = {} /\ calm' = FALSE
  /\ UNCHANGED <<objects, cm, skillEdits>>

-------------------------------------------------------------------------------
Serve(c) ==
  \/ GroupSkill(c) \/ StoreRow(c) \/ ListImages(c) \/ ListAgents(c) \/ EnableSkill(c)
  \/ DeleteRow(c) \/ GetToDelete(c) \/ PutDeleted(c) \/ UngroupSkill(c)
  \/ EnsureGet(c) \/ EnsureCreate(c) \/ EnsurePut(c)

Request(c) ==
  \E s \in Skills :
    \/ \E size \in Sizes : CreateSkill(c, s, size) \/ UpdateSkill(c, s, size)
    \/ DeleteSkill(c, s)
    \/ \E i \in Images : AssignSkill(c, s, i) \/ UnassignSkill(c, s, i)

Deliver ==
  \/ PassImages \/ PassAgents \/ PassRows \/ PassMap \/ PassPrune \/ PassEnd
  \/ \E s \in Skills : PassContent(s) \/ PassWrite(s)
  \/ EnsureGet(Loop) \/ EnsureCreate(Loop) \/ EnsurePut(Loop)

SkillsNext ==
  \/ \E c \in Callers : Request(c) \/ Serve(c)
  \/ \E s \in Skills, i \in Images : EditImage(i, s)
  \/ \E s \in Skills, a \in Agents : EditAgent(a, s)
  \/ Deliver \/ PassFails \/ SkillsCrash

\* A request goes on once begun, and the loop never ends.
SkillsFairness == WF_skillVars(Deliver) /\ \A c \in Callers : WF_skillVars(Serve(c))

SkillsSpec == SkillsInit /\ [][SkillsNext]_skillVars /\ SkillsFairness

-------------------------------------------------------------------------------
Target   == Rows \intersect (UsedByImages \union UsedByAgents)
Right(s) == cm.data[s] = skillRow[s]
TooLarge(s) == ~ Accepted([cm.data EXCEPT ![s] = skillRow[s]])

\* The object holds what the pods are to mount and nothing else, with the stored
\* bodies, but for those that would make it too large.
Delivered ==
  /\ KeysOf(cm.data) \subseteq Target
  /\ \A s \in Target : Right(s) \/ TooLarge(s)

(* A pass in which nobody else does anything leaves the object exactly right,  *)
(* whatever it was filled with before (Converge: "can recover in a single      *)
(* pass"), so a skill that an overtaken pass has pruned or written back with   *)
(* an old body is right again one pass later; but for what it reports as       *)
(* undelivered, which the size keeps out or has kept out until a later body    *)
(* shrank, and but for what a failing Get took out of it, which is pruned.     *)
PassIsExact ==
  proc[Loop].pc = "idle" /\ calm =>
    /\ KeysOf(cm.data) \subseteq Target \ pass.skipped
    /\ pass.undelivered = {s \in Target \ pass.skipped : ~ Right(s)}
    /\ \A s \in pass.undelivered \ pass.excused : TooLarge(s)

(* However requests, edits and passes overlap and whichever call fails, once   *)
(* the changes stop the object comes to hold what the registry and the custom  *)
(* resources say, as far as the apiserver takes it, and stays so.              *)
SkillsDelivered == <>[]Delivered
===============================================================================
