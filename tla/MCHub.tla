---------------------------------- MODULE MCHub ----------------------------------
(***************************************************************************)
(* The TLC instance of what requests to the hub's pages do and are told.   *)
(* AgentDesk: an agent over two images, edited by two requests at once.    *)
(* Personas: the template and two more, two requests.  Access: two users,  *)
(* one of them an administrator, two groups and a resource, by what is     *)
(* asked.  RunHistory: two runs of one event, listed or their tokens       *)
(* counted while the sweep goes.  Figures: the summaries and a chart over  *)
(* five slices of time.  McpServers: two servers, an image and an agent.   *)
(* Every behaviour is of one of them, its part.                            *)
(***************************************************************************)
EXTENDS AgentDesk, McpServers, Personas, Access, RunHistory, Figures

CONSTANTS a1, c1, c2, p0, p1, p2, ann, bob, legacy, crew, res1, s1, s2, r1, r2, e1, e2, v1, v2

Order(names, name, image, tools, env) ==
  [names |-> names, name |-> name, base |-> image, tools |-> tools, env |-> env]
MCOrders ==
  {Order(Fields, 1, "i1", {"n1", "m1"}, 1), Order(Fields \union {"key"}, 1, "i1", {"m1"}, 1),
   Order({"name", "env"}, 2, "i1", {}, 0), Order({"tools"}, 0, "i1", {"n1"}, 0),
   Order({"base", "env", "key"}, 0, "i2", {}, 2)}

\* The rows of a figure are of this event.
ASSUME HubAssumption == e1 \in EventIds

OneEvent == [run \in Runs |-> e1]

-------------------------------------------------------------------------------
VARIABLES part,
          about  \* which of its requests a behaviour of Access, RunHistory or Figures makes

hubVars ==
  <<part, about, agentDeskVars, mcpVars, personaVars, accessVars, historyVars, figuresVars>>

Subjects ==
  [agents |-> {"any"}, servers |-> {"any"}, personas |-> {"any"}, access |-> {"roles", "people", "places"},
   history |-> {"runs", "tokens"}, figures |-> {"rows", "window", "ever", "triggers_matched"}]
Shown == {"window", "ever", "triggers_matched"}

-------------------------------------------------------------------------------
(* Access: who may do what; users; resources.                                  *)
OpsOf ==
  [roles  |-> {"none", "write", "grant", "revoke", "ungroup"},
   people |-> {"none", "me", "use"} \union AdminOnly,
   places |-> {"none", "make", "drop", "ungroup", "group"}]
Asked(s) ==
  LET q == session[s] IN
  /\ q.op \in OpsOf[about]
  /\ about = "roles" /\ q.op # "none" =>
       /\ (q.op \in {"grant", "revoke", "ungroup"}) = (q.who \in Admins)
       /\ q.op \in {"grant", "revoke"} => q.user # q.who /\ q.group # Legacy /\ q.rank # 2

AccessInitAbout ==
  CASE about = "roles" ->
         \A x \in Standing : /\ place[x] \subseteq Groups \ {Legacy}
                            /\ place[x] = {} <=> \A y \in Groups \ {Legacy} : ~ Here(y)
    [] OTHER -> groups = [x \in Groups |-> IF x = Legacy THEN "here" ELSE "new"]

\* Of two free sessions, which are alike, the first is called.  Where users are not what
\* is asked about, every caller brings his name.
AccessStep ==
  /\ AccessNext
  /\ At(s1, "idle") /\ At(s2, "idle") => At(s2, "idle")'
  /\ \A s \in Sessions : Asked(s)'
  /\ about = "people" \/ (skipped' = {} /\ \A s \in Sessions : session'[s].brings = "name")
  /\ CASE about = "roles"  -> requests' <= 3 /\ accessFaults' = 0 /\ fill' = NoFill
       [] about = "people" -> requests' <= 2 /\ fill' = NoFill
       [] OTHER            -> requests' <= 2 /\ ~ AccessTick

-------------------------------------------------------------------------------
\* The second run begins after the first, the second viewer asks while the first is busy:
\* the two are alike.
HistoryStep ==
  \/ \E run \in Runs :
       \/ (run = r1 \/ tasks[r1] # "unborn") /\ RecordRun(run)
       \/ EnqueueRun(run) \/ ClaimRun(run)
       \/ about = "runs" /\ (ReportRun(run) \/ CloseRun(run))
       \/ about = "tokens" /\ PostMessage(run)
  \/ HourPasses \/ Sweep
  \/ about = "runs" /\ ListRuns
  \/ about = "tokens" /\ TallyTokens

\* Rows are stamped at the ends of the window.
FiguresStep ==
  \/ about = "rows" /\ Write
  \/ about \in Shown /\
       \/ \E kind \in IF about = "triggers_matched" THEN {"task"} ELSE {"task", "error"} :
            instant \in {0, Window} /\ StampRow(kind, e1)
       \/ (\E stamped \in writing : CommitRow(stamped)) \/ PruneLogs
  \/ \E viewer \in Viewers :
       \/ /\ about \in Shown /\ instant >= Window
          /\ viewer = v1 \/ viewers[v1].step \in {"asked", "read"}
          /\ Ask(viewer, about)
       \/ Read(viewer) \/ ReadFails(viewer) \/ Store(viewer)
  \/ TimePasses

\* One wiring for each answer Backend gives, and the fallback.
Plain == [pin |-> "postgres", prom |-> FALSE, ready |-> TRUE]
Wirings == {Plain, [pin |-> "prometheus", prom |-> TRUE, ready |-> TRUE],
            [pin |-> "prometheus", prom |-> FALSE, ready |-> TRUE],
            [pin |-> "postgres", prom |-> TRUE, ready |-> FALSE]}
OneOwner == [x \in Users |-> [y \in Groups |-> IF y # Legacy /\ x \in Admins THEN 3 ELSE 0]]

HubInit ==
  /\ part \in DOMAIN Subjects /\ about \in Subjects[part]
  /\ AgentDeskInit /\ McpInit /\ PersonasInit /\ AccessInit /\ HistoryInit /\ FiguresInit
  /\ part = "access" => AccessInitAbout
  /\ part # "access" => /\ groups = [x \in Groups |-> "here"] /\ member = OneOwner
                        /\ \A x \in Resources : place[x] = {}
  /\ wiring \in IF about = "window" THEN Wirings ELSE {Plain}

HubNext ==
  /\ UNCHANGED <<part, about>>
  /\ \/ /\ part = "agents" /\ AgentDeskNext
        /\ UNCHANGED <<mcpVars, personaVars, accessVars, historyVars, figuresVars>>
     \/ /\ part = "servers" /\ McpNext
        /\ UNCHANGED <<agentDeskVars, personaVars, accessVars, historyVars, figuresVars>>
     \/ /\ part = "personas" /\ PersonasNext
        /\ UNCHANGED <<agentDeskVars, mcpVars, accessVars, historyVars, figuresVars>>
     \/ /\ part = "access" /\ AccessStep
        /\ UNCHANGED <<agentDeskVars, mcpVars, personaVars, historyVars, figuresVars>>
     \/ /\ part = "history" /\ HistoryStep
        /\ UNCHANGED <<agentDeskVars, mcpVars, personaVars, accessVars, figuresVars>>
     \/ /\ part = "figures" /\ FiguresStep
        /\ UNCHANGED <<agentDeskVars, mcpVars, personaVars, accessVars, historyVars>>

HubSpec == HubInit /\ [][HubNext]_hubVars

-------------------------------------------------------------------------------
(* Access's AdminRemains, SyncRepopulates and BackfillHeals, and AccessExpires *)
(* of every step.                                                              *)
AccessHolds ==
  /\ [](part = "access" => AccessTypeOK /\ AdminRemains /\ SyncRepopulates /\ BackfillHeals)
  /\ AccessExpires

(* Requests that cross lose no edit, break no reference and leave no copy that  *)
(* is not the row: AgentDesk's AgentsHold, McpServers' CopiesHold.              *)
EditsHold == (part = "agents" => AgentsHold) /\ (part = "servers" => CopiesHold)

(* What the hub keeps for others to read is what it should be: Personas'        *)
(* PersonaRendered and OwnedReclaimed, RunHistory's ListingIsWhole and          *)
(* TokensTold, Figures' FiguresHold.                                            *)
RecordsSound ==
  /\ part = "personas" => PersonasTypeOK /\ PersonaRendered /\ OwnedReclaimed
  /\ part = "history" => HistoryTypeOK /\ ListingIsWhole /\ TokensTold
  /\ part = "figures" => FiguresTypeOK /\ FiguresHold

(* No bar of a chart loses, moves or doubles a row: Figures' ChartAgrees.       *)
ChartsAgree == part = "figures" => ChartAgrees
===============================================================================
