------------------------------- MODULE McpServers -------------------------------
(***************************************************************************)
(* The registry of MCP servers and the copies made of it (services/hub/    *)
(* internal/mcpservers, api/handlers_mcp_servers.go).  An image or an      *)
(* agent names servers; the request that writes it copies name, URL and    *)
(* token variable out of the registry, a statement per name, into the      *)
(* Kubernetes object ("registry edits never rewrite running agents").  The *)
(* registry's own requests are several statements as well.                 *)
(*                                                                         *)
(* A row is its URL: the other fields go where it goes.  No row is managed *)
(* by helm, as nothing calls Upsert.  The object's other fields are        *)
(* AgentDesk's, whose group a server belongs to is in Access.              *)
(***************************************************************************)
EXTENDS Naturals, FiniteSets

CONSTANTS
  Servers,            \* names of servers
  Urls,               \* what a row may hold
  Profiles,           \* agent images
  Adopters,           \* agents with a selection of their own
  Helpers,            \* requests under way at a time
  MaxServerRequests   \* bound: requests

Holders == Profiles \union Adopters
None == 0

ASSUME McpAssumption ==
  /\ None \notin Urls /\ Profiles \intersect Adopters = {}
  /\ MaxServerRequests \in Nat

VARIABLES
  url,        \* url[s]: the row of s, None without one
  copies,     \* copies[h][s]: what h holds of s
  helper,     \* helper[c]: the request of c
  served      \* requests so far

\* History, read by properties only.
VARIABLES
  moved,      \* moved[h]: the names whose rows were written since h's selection was taken up
  raced     \* raced[h]: those whose deletion had asked the images before h was written

mcpVars == <<url, copies, helper, served, moved, raced>>

Nothing == [s \in Servers |-> None]
NoHelp == [op |-> "none", step |-> "", of |-> "", url |-> None, todo |-> {}, got |-> Nothing,
           stale |-> FALSE, moved |-> {}]

McpInit ==
  /\ url = Nothing /\ copies = [h \in Holders |-> Nothing]
  /\ helper = [c \in Helpers |-> NoHelp] /\ served = 0
  /\ moved = [h \in Holders |-> {}] /\ raced = [h \in Holders |-> {}]

TakesUp(c, help) ==
  /\ helper[c].op = "none" /\ served < MaxServerRequests /\ served' = served + 1
  /\ helper' = [helper EXCEPT ![c] = help]
  /\ UNCHANGED <<url, copies, moved, raced>>
GoesTo(c, help) ==
  /\ helper' = [helper EXCEPT ![c] = help]
  /\ UNCHANGED <<url, copies, served, moved, raced>>

\* The row of s is written; everyone with a copy, or about to have one, is behind.
Writes(c, s, new) ==
  /\ url' = [url EXCEPT ![s] = new]
  /\ moved' = [h \in Holders |-> moved[h] \union {s}]
  /\ helper' = [d \in Helpers |->
       IF d = c THEN NoHelp
       ELSE IF helper[d].op = "select" THEN [helper[d] EXCEPT !.moved = @ \union {s}] ELSE helper[d]]
  /\ UNCHANGED <<copies, raced>>

-------------------------------------------------------------------------------
(* The registry.                                                               *)

\* The insert is refused by the key where there is a row: 409.
Register(c, s, new) ==
  /\ helper[c].op = "none" /\ served < MaxServerRequests /\ served' = served + 1
  /\ IF url[s] = None THEN Writes(c, s, new) ELSE UNCHANGED <<url, copies, helper, moved, raced>>

\* PUT reads the row and writes all of it; a row that has gone meanwhile stays gone.
TakePut(c, s, new) ==
  /\ url[s] # None
  /\ TakesUp(c, [NoHelp EXCEPT !.op = "put", !.step = "write", !.of = s, !.url = new])
WritePut(c) ==
  /\ helper[c].op = "put"
  /\ UNCHANGED served
  /\ IF url[helper[c].of] # None THEN Writes(c, helper[c].of, helper[c].url)
     ELSE GoesTo(c, NoHelp)

TakeDrop(c, s) ==
  TakesUp(c, [NoHelp EXCEPT !.op = "drop", !.step = "images", !.of = s])

\* Mutant: nobody is asked.
NamedByNone(s) == {}

\* agentImagesReferencingMCPServer: images are asked, agents are not.
NamedBy(s) == {h \in Profiles : copies[h][s] # None}

AskImages(c) ==
  /\ helper[c].step = "images"
  /\ GoesTo(c, IF NamedBy(helper[c].of) # {} THEN NoHelp ELSE [helper[c] EXCEPT !.step = "row"])

\* Service.Delete looks the row up, then deletes it: 404 unless both find it.
AskRow(c) ==
  /\ helper[c].step = "row"
  /\ GoesTo(c, IF url[helper[c].of] = None THEN NoHelp ELSE [helper[c] EXCEPT !.step = "drop"])
DropRow(c) ==
  /\ helper[c].step = "drop"
  /\ UNCHANGED served
  /\ IF url[helper[c].of] # None THEN Writes(c, helper[c].of, None) ELSE GoesTo(c, NoHelp)

-------------------------------------------------------------------------------
(* The copies.                                                                 *)

TakeSelect(c, h, names) ==
  TakesUp(c, [NoHelp EXCEPT !.op = "select", !.step = "names", !.of = h, !.todo = names])

\* resolveMCPRequest: a name without a row is a 400, and nothing is written.
ReadName(c, s) ==
  /\ helper[c].step = "names" /\ s \in helper[c].todo
  /\ GoesTo(c, IF url[s] = None THEN NoHelp
               ELSE [helper[c] EXCEPT !.todo = @ \ {s}, !.got[s] = url[s]])

\* The selection replaces the one before, unless the object has changed since it was read.
WriteSelection(c) ==
  /\ helper[c].step = "names" /\ helper[c].todo = {}
  /\ UNCHANGED <<url, served>>
  /\ LET h == helper[c].of IN
     IF helper[c].stale
     THEN /\ helper' = [helper EXCEPT ![c] = NoHelp]
          /\ UNCHANGED <<copies, moved, raced>>
     ELSE /\ copies' = [copies EXCEPT ![h] = helper[c].got]
          /\ moved' = [moved EXCEPT ![h] = helper[c].moved]
          /\ raced' = [raced EXCEPT ![h] = helper[c].moved \union
               {helper[d].of : d \in {d \in Helpers : helper[d].step \in {"row", "drop"}}}]
          /\ helper' = [d \in Helpers |->
               IF d = c THEN NoHelp
               ELSE IF helper[d].op = "select" /\ helper[d].of = h
                    THEN [helper[d] EXCEPT !.stale = TRUE] ELSE helper[d]]

\* A call that fails ends its request at that: 500.
HelpFails(c) == helper[c].op # "none" /\ GoesTo(c, NoHelp)

McpNext ==
  \E c \in Helpers :
    \/ \E s \in Servers :
         \/ \E new \in Urls : Register(c, s, new) \/ TakePut(c, s, new)
         \/ TakeDrop(c, s) \/ ReadName(c, s)
    \/ \E h \in Holders : \E names \in SUBSET Servers : TakeSelect(c, h, names)
    \/ WritePut(c) \/ AskImages(c) \/ AskRow(c) \/ DropRow(c) \/ WriteSelection(c) \/ HelpFails(c)

McpSpec == McpInit /\ [][McpNext]_mcpVars

-------------------------------------------------------------------------------
(* Properties.                                                                 *)

\* A copy is the row it was made of until that row is written, whatever was read
\* before or after it in the same request; and no image names a server that is
\* gone, unless the deletion had asked the images while the image was being written.
CopiesHold ==
  \A h \in Holders, s \in Servers : copies[h][s] # None =>
    /\ s \notin moved[h] => copies[h][s] = url[s]
    /\ h \in Profiles /\ s \notin raced[h] => url[s] # None
===============================================================================
