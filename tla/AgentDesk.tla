------------------------------- MODULE AgentDesk -------------------------------
(***************************************************************************)
(* The API's requests on agents and agent images (services/hub/internal/   *)
(* api/handlers_agents.go, handlers_agent_images.go, ..._mutations.go,     *)
(* ..._refresh.go).  Both are Kubernetes objects: a request reads, checks  *)
(* against other objects, writes a Secret, and writes its object with the  *)
(* version it has read.  Nothing holds the objects together meanwhile.     *)
(*                                                                         *)
(* The rows of groups are Access's, an agent's own persona is Personas';   *)
(* validated fields that refer to nothing are one field, "name".           *)
(***************************************************************************)
EXTENDS Naturals, FiniteSets

CONSTANTS
  Staff,       \* ids of agents
  Bases,       \* ids of agent images
  Tools,       \* tools an image may declare
  McpTools,    \* those of them an MCP server lists
  Orders,      \* what a request on an agent names: names, name, base, tools, env
  Toolsets,    \* what a request on an image may declare
  Clerks,      \* requests under way at a time
  MaxOrders,   \* bound: requests
  MaxDeskLosses \* bound: calls that fail

VARIABLES
  agentRow,    \* the Agents
  base,        \* the AgentImages: there, tools
  keySecret,   \* the agents with a Secret for their API key
  clerk,       \* clerk[c]: the request of c
  unread,      \* requests whose copy is not the newest any more
  orders, deskLosses

\* History, read by properties only.
VARIABLES
  said,        \* what the last request that named a field wrote there
  crossed      \* agents and images whose requests overlapped between check and write

agentDeskVars == <<agentRow, base, keySecret, clerk, unread, orders, deskLosses, said, crossed>>

Fields == {"name", "base", "tools", "env"}
NoAgent == [there |-> FALSE, name |-> 0, base |-> "", tools |-> {}, env |-> 0, keyed |-> FALSE]
NoBase == [there |-> FALSE, tools |-> {}]
NotYet == [there |-> FALSE, tools |-> Tools]
NoOrder == [names |-> {}, name |-> 0, base |-> "", tools |-> {}, env |-> 0]
NoErrand == [op |-> "none", pc |-> "", of |-> "", row |-> NoAgent, order |-> NoOrder, tools |-> {}]
OfAgents == {"hire", "edit"}
OfBases == {"declare", "drop", "refresh"}

ASSUME AgentDeskAssumption ==
  /\ Staff \intersect Clerks = {}
  /\ McpTools \subseteq Tools /\ Toolsets \subseteq SUBSET Tools
  /\ Orders \subseteq [names: SUBSET (Fields \union {"key"}), name: Nat,
                      base: Bases \union {""}, tools: SUBSET Tools, env: Nat]
  /\ \A order \in Orders : "base" \in order.names => order.base \in Bases

AgentDeskInit ==
  /\ agentRow = [a \in Staff |-> NoAgent]
  /\ base = [i \in Bases |-> NotYet]
  /\ keySecret = {}
  /\ clerk = [c \in Clerks |-> NoErrand] /\ unread = {}
  /\ orders = 0 /\ deskLosses = 0
  /\ said = [a \in Staff |-> NoAgent] /\ crossed = {}

Loses == deskLosses < MaxDeskLosses /\ deskLosses' = deskLosses + 1
Answered(c) == clerk' = [clerk EXCEPT ![c] = NoErrand] /\ unread' = unread \ {c}
MovesTo(c, pc) == clerk' = [clerk EXCEPT ![c].pc = pc] /\ UNCHANGED unread
Takes(c, errand) ==
  /\ clerk[c] = NoErrand
  /\ orders < MaxOrders /\ orders' = orders + 1
  /\ clerk' = [clerk EXCEPT ![c] = errand]
  /\ crossed' = crossed \ {c}
  /\ UNCHANGED unread

\* Whoever has read the object before this write will be refused.
Overtakes(c, id) ==
  unread' = (unread \union {d \in Clerks : clerk[d].op # "none" /\ clerk[d].of = id}) \ {c}

\* Requests of the other kind that have made their check and not yet written.
Between(ops) == {c \in Clerks : clerk[c].op \in ops /\ clerk[c].pc \in {"key", "write"}}
deskObjects == <<agentRow, base, keySecret>>

(***************************************************************************)
(* Agents.                                                                 *)
(***************************************************************************)
\* The fields the request names replace those of the copy; a secret variable with
\* an empty value keeps the value it has (agentEnvFromRequest).
Merged(row, order) ==
  LET named(f) == f \in order.names IN
  [there |-> TRUE,
   name  |-> IF named("name") THEN order.name ELSE row.name,
   base  |-> IF named("base") THEN order.base ELSE row.base,
   tools |-> IF named("tools") THEN order.tools ELSE row.tools,
   env   |-> IF named("env") /\ order.env # 0 THEN order.env ELSE row.env,
   keyed |-> row.keyed \/ named("key")]

\* createAgent and updateAgent up to their first read.  Ids are not used twice.
Take(c, a, order) ==
  \/ /\ ~ agentRow[a].there /\ said[a] = NoAgent
     /\ \A d \in Clerks : clerk[d].of # a
     /\ Fields \subseteq order.names
     /\ Takes(c, [NoErrand EXCEPT !.op = "hire", !.pc = "check", !.of = a, !.order = order])
     /\ UNCHANGED <<deskObjects, deskLosses, said>>
  \/ /\ agentRow[a].there
     /\ Takes(c, [NoErrand EXCEPT !.op = "edit", !.pc = "check", !.of = a, !.order = order,
                              !.row = agentRow[a]])
     /\ UNCHANGED <<deskObjects, deskLosses, said>>

Checks(order) == order.names \intersect {"base", "tools"} # {}

\* Mutant: the image may be any.
AcceptsAny(row) == TRUE

\* validateAgentImageRef.
Accepts(row) == base[row.base].there /\ row.tools \subseteq base[row.base].tools

Check(c) ==
  /\ clerk[c].op \in OfAgents /\ clerk[c].pc = "check"
  /\ LET order == clerk[c].order IN
     IF Checks(order) /\ ~ Accepts(Merged(clerk[c].row, order))
     THEN Answered(c)
     ELSE MovesTo(c, IF "key" \in order.names THEN "key" ELSE "write")
  /\ UNCHANGED <<deskObjects, orders, deskLosses, said, crossed>>

\* The key's Secret is written whatever becomes of the rest; it stays when the
\* agent is refused or deleted.
Locks(c) == keySecret' = keySecret \union {clerk[c].of} /\ MovesTo(c, "write") /\ UNCHANGED deskLosses
KeyFails(c) == Loses /\ Answered(c) /\ UNCHANGED keySecret

\* createAgent: a Secret of that name must not exist.
CreateKey(c) ==
  /\ clerk[c].op = "hire" /\ clerk[c].pc = "key"
  /\ (clerk[c].of \notin keySecret /\ Locks(c)) \/ KeyFails(c)
  /\ UNCHANGED <<agentRow, base, orders, said, crossed>>

\* updateAgent: created or replaced.
PutKey(c) ==
  /\ clerk[c].op = "edit" /\ clerk[c].pc = "key"
  /\ Locks(c) \/ KeyFails(c)
  /\ UNCHANGED <<agentRow, base, orders, said, crossed>>

\* Mutant: the write carries no version.
RefusedNever(c) == clerk[c].op = "edit" /\ ~ agentRow[clerk[c].of].there

\* The object has changed or gone since it was read.
Refused(c) ==
  clerk[c].op = "edit" /\ (c \in unread \/ ~ agentRow[clerk[c].of].there)

\* The value an entry that is to be kept had when it was read is the last one said.
Heard(a, order) ==
  [f \in DOMAIN NoAgent |->
     IF f \in order.names /\ (f # "env" \/ order.env # 0) THEN order[f] ELSE said[a][f]]

WriteAgent(c) ==
  /\ clerk[c].op \in OfAgents /\ clerk[c].pc = "write"
  /\ LET a == clerk[c].of
         order == clerk[c].order IN
     \/ /\ Refused(c)
        /\ Answered(c)
        /\ UNCHANGED <<agentRow, deskLosses, said, crossed>>
     \/ /\ ~ Refused(c)
        /\ agentRow' = [agentRow EXCEPT ![a] = Merged(clerk[c].row, order)]
        /\ said' = [said EXCEPT ![a] = Heard(a, order)]
        /\ crossed' = IF Between(OfBases) # {} \/ c \in crossed
                      THEN (crossed \union {a}) \ {c}
                      ELSE IF Checks(order) THEN crossed \ {a} ELSE crossed
        /\ clerk' = [clerk EXCEPT ![c] = NoErrand]
        /\ Overtakes(c, a)
        /\ UNCHANGED deskLosses
     \/ /\ Loses
        /\ Answered(c)
        /\ UNCHANGED <<agentRow, said, crossed>>
  /\ UNCHANGED <<base, keySecret, orders>>

Dismiss(a) ==
  /\ agentRow[a].there
  /\ orders < MaxOrders /\ orders' = orders + 1
  /\ agentRow' = [agentRow EXCEPT ![a] = NoAgent]
  /\ UNCHANGED <<base, keySecret, clerk, unread, deskLosses, said, crossed>>

(***************************************************************************)
(* Agent images.                                                           *)
(***************************************************************************)
CreateBase(i) ==
  /\ base[i] = NotYet
  /\ base' = [base EXCEPT ![i] = [there |-> TRUE, tools |-> Tools]]
  /\ UNCHANGED <<agentRow, keySecret, clerk, unread, orders, deskLosses, said, crossed>>

TakeBase(c, i) ==
  /\ base[i].there
  /\ \/ \E tools \in Toolsets :
          Takes(c, [NoErrand EXCEPT !.op = "declare", !.pc = "check", !.of = i, !.tools = tools])
     \/ Takes(c, [NoErrand EXCEPT !.op = "drop", !.pc = "check", !.of = i])
     \/ Takes(c, [NoErrand EXCEPT !.op = "refresh", !.pc = "write", !.of = i,
                              !.tools = base[i].tools])
  /\ UNCHANGED <<deskObjects, deskLosses, said>>

\* Mutant: nobody is asked.
ReferrersNone(i, op, tools) == {}

\* agentsReferencingImage; agentsReferencingTools, asked about the tools that go: one
\* that stays is no reason, and neither is one a refresh has dropped before.  (The copy
\* that was read is the image as it is, or the write will be refused.)
ReferrersOf(i, op, tools) ==
  {a \in Staff : /\ agentRow[a].there /\ agentRow[a].base = i
                 /\ op = "drop" \/ agentRow[a].tools \intersect (base[i].tools \ tools) # {}}

CheckUsers(c) ==
  /\ clerk[c].op \in {"declare", "drop"} /\ clerk[c].pc = "check"
  /\ IF ReferrersOf(clerk[c].of, clerk[c].op, clerk[c].tools) = {}
     THEN MovesTo(c, "write") ELSE Answered(c)
  /\ UNCHANGED <<deskObjects, orders, deskLosses, said, crossed>>

\* refresh-mcp: tools a server does not list, also because it does not answer, go;
\* no agent is asked (mergeMCPTools).
Refreshed(tools, offered) == (tools \ McpTools) \union offered

\* A deletion carries no version; the other two are refused if overtaken.
WriteBase(c) ==
  /\ clerk[c].op \in OfBases /\ clerk[c].pc = "write"
  /\ LET i == clerk[c].of
         now(new) == /\ base' = [base EXCEPT ![i] = new]
                     /\ crossed' = crossed \union Between(OfAgents)
                     /\ clerk' = [clerk EXCEPT ![c] = NoErrand]
                     /\ Overtakes(c, i) IN
     \/ /\ clerk[c].op = "drop" /\ now(NoBase)
     \/ /\ clerk[c].op = "declare" /\ c \notin unread
        /\ now([there |-> TRUE, tools |-> clerk[c].tools])
     \/ /\ clerk[c].op = "refresh" /\ c \notin unread
        /\ \E offered \in SUBSET McpTools :
             now([there |-> TRUE, tools |-> Refreshed(clerk[c].tools, offered)])
     \/ /\ clerk[c].op # "drop" /\ c \in unread
        /\ Answered(c)
        /\ UNCHANGED <<base, crossed>>
  /\ UNCHANGED <<agentRow, keySecret, orders, deskLosses, said>>

AgentDeskNext ==
  \/ \E c \in Clerks :
       \/ \E a \in Staff, order \in Orders : Take(c, a, order)
       \/ Check(c) \/ CreateKey(c) \/ PutKey(c) \/ WriteAgent(c)
       \/ \E i \in Bases : TakeBase(c, i)
       \/ CheckUsers(c) \/ WriteBase(c)
  \/ \E a \in Staff : Dismiss(a)
  \/ \E i \in Bases : CreateBase(i)

AgentDeskSpec == AgentDeskInit /\ [][AgentDeskNext]_agentDeskVars

(***************************************************************************)
(* Properties.                                                             *)
(***************************************************************************)
\* What a request has named and got a success for stands until another one names
\* it, whoever edits other fields of the agent at the same time; a secret that is
\* to be kept keeps the value of the last request that gave one.
EditsStand ==
  \A a \in Staff : agentRow[a].there => \A f \in Fields : agentRow[a][f] = said[a][f]

\* An agent that refers to a key has one, at whichever call its request failed;
\* it has the image and the tools it names, unless its request and one on the
\* image overlapped or the tool is one a refresh has dropped.
ReferencesHold ==
  \A a \in Staff : agentRow[a].there =>
     /\ agentRow[a].keyed => a \in keySecret
     /\ a \notin crossed =>
          LET its == base[agentRow[a].base] IN
          its.there /\ agentRow[a].tools \subseteq its.tools \union McpTools

\* Both: what is said of agents stays true under requests on them and on their images.
AgentsHold == EditsStand /\ ReferencesHold
===============================================================================
