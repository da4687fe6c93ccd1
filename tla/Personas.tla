-------------------------------- MODULE Personas --------------------------------
(***************************************************************************)
(* Personas: rows with their versions, one ConfigMap per persona, and the  *)
(* copy an agent owns once it is edited on the agent's page.               *)
(* services/hub/internal/personas, internal/api/handlers_personas.go and   *)
(* handlers_agent_persona.go, with the two agent handlers that re-point or *)
(* delete an agent and reclaim the persona it owned.                       *)
(*                                                                         *)
(* A write of a row is a transaction under its row lock.  The ConfigMap is *)
(* written afterwards with optimistic concurrency and, unlike the skills', *)
(* by nobody else: what a failed or overtaken write leaves there stays     *)
(* until the next request.  Names and descriptions are left out.           *)
(***************************************************************************)
EXTENDS Naturals, Sequences, FiniteSets

CONSTANTS
  PersonaIds, Template,  \* Template is there from the start, and the agent's persona
  Texts,
  Clients,               \* requests that may be in flight at once
  MaxPersonaEdits,       \* bound: requests
  MaxPersonaFaults       \* bound: failing calls and crashes of the hub

ASSUME PersonasAssumption ==
  /\ IsFiniteSet(PersonaIds) /\ Template \in PersonaIds /\ Texts # {}
  /\ MaxPersonaEdits \in Nat /\ MaxPersonaFaults \in Nat

VARIABLES
  persona,     \* the rows: persona[p].texts[n] is the text of version n
  rendered,    \* rendered[p]: the version in p's ConfigMap, 0 when there is none
  listed,      \* the personas with a row in resource_groups
  holder,      \* holder[p]: the requests, at most one, whose transaction locks p
  agent,       \* the Agent resource
  latest,      \* <<c, object>>: c's copy of the object is still its last version
  request,
  personaEdits, personaFaults
VARIABLE outcome  \* history: the last request, if it ran alone and succeeded

personaVars == <<persona, rendered, listed, holder, agent, latest, request,
                 personaEdits, personaFaults, outcome>>

Agent    == "agent"
Unused   == [status |-> "unused", owned |-> FALSE, texts |-> <<>>]
Deleted  == [Unused EXCEPT !.status = "deleted"]
There(p) == persona[p].status = "live"
Version(p) == Len(persona[p].texts)
Owned    == {p \in PersonaIds : There(p) /\ persona[p].owned}

NoRequest == [pc |-> "idle", kind |-> "none", p |-> Template, text |-> {}, seen |-> 0,
              made |-> FALSE, alone |-> FALSE, tidy |-> FALSE]

PersonasTypeOK ==
  /\ \A p \in PersonaIds :
       /\ There(p) <=> persona[p].texts # <<>>
       /\ persona[p].status \in {"unused", "live", "deleted"}
       /\ persona[p].texts \in Seq(Texts)
       /\ Cardinality(holder[p]) <= 1
       /\ There(p) => rendered[p] <= Version(p)
  /\ listed \subseteq PersonaIds
  /\ agent.ref \in PersonaIds
  /\ personaEdits \in 0..MaxPersonaEdits /\ personaFaults \in 0..MaxPersonaFaults

PersonasInit ==
  /\ persona = [p \in PersonaIds |->
       IF p = Template
       THEN [status |-> "live", owned |-> FALSE, texts |-> <<CHOOSE text \in Texts : TRUE>>]
       ELSE Unused]
  /\ rendered = [p \in PersonaIds |-> IF p = Template THEN 1 ELSE 0]
  /\ listed = {Template}
  /\ holder = [p \in PersonaIds |-> {}]
  /\ agent = [there |-> TRUE, ref |-> Template]
  /\ latest = {}
  /\ request = [c \in Clients |-> NoRequest]
  /\ personaEdits = 0 /\ personaFaults = 0
  /\ outcome = {}

-------------------------------------------------------------------------------
Fails  == personaFaults < MaxPersonaFaults /\ personaFaults' = personaFaults + 1
Works  == UNCHANGED personaFaults

AllIdleBut(c) == \A d \in Clients \ {c} : request[d].pc = "idle"

\* A request begins; from then on no other runs alone.
Starts(c, first) ==
  /\ request[c].pc = "idle" /\ personaEdits < MaxPersonaEdits
  /\ personaEdits' = personaEdits + 1
  /\ request' = [d \in Clients |->
       IF d = c THEN [first EXCEPT !.alone = AllIdleBut(c), !.tidy = Cardinality(Owned) <= 1]
       ELSE [request[d] EXCEPT !.alone = FALSE]]
  /\ outcome' = {}

Step(c, changed) ==
  /\ request' = [request EXCEPT ![c] = changed]
  /\ UNCHANGED <<personaEdits, outcome>>
To(c, pc) == Step(c, [request[c] EXCEPT !.pc = pc])

\* The request is answered, with success or with an error; with success also when
\* nothing but the cleanup of an owned persona failed, which is only logged.
Replies(c, ok, cleaned) ==
  /\ request' = [request EXCEPT ![c] = NoRequest]
  /\ outcome' = IF ok /\ request[c].alone
                THEN {[kind |-> request[c].kind, p |-> request[c].p, tidy |-> request[c].tidy,
                       cleaned |-> cleaned]}
                ELSE {}
  /\ UNCHANGED personaEdits
Ends(c, ok)     == Replies(c, ok, TRUE)
CleansUp(c)     == request[c].kind \in {"repoint", "deleteAgent"}
DeleteFailed(c) == Replies(c, CleansUp(c), FALSE)

Drop(c)     == {pair \in latest : pair[1] # c}
Stale(obj)  == {pair \in latest : pair[2] # obj}
Free(p)     == holder[p] = {}
Unlock(c)   == [p \in PersonaIds |-> holder[p] \ {c}]

(***************************************************************************)
(* The store.                                                              *)
(***************************************************************************)
InsertPersona(p, owned, text) ==
  /\ persona[p] = Unused   \* ids are never used again
  /\ p = CHOOSE q \in PersonaIds : persona[q] = Unused
  /\ persona' = [persona EXCEPT ![p] = [status |-> "live", owned |-> owned, texts |-> <<text>>]]

\* Update: a new version only if the text differs.
AppendIfNew(p, text) ==
  LET texts == persona[p].texts IN
  persona' = [persona EXCEPT ![p].texts =
    IF text = texts[Len(texts)] THEN @ ELSE Append(@, text)]

\* Rollback: a copy of an old version, equal or not.
AppendCopy(p, text) == persona' = [persona EXCEPT ![p].texts = Append(@, text)]

\* DELETE waits for the row lock; the versions go with the row.
DeletePersonaRow(p) == Free(p) /\ persona' = [persona EXCEPT ![p] = IF There(p) THEN Deleted ELSE @]

(***************************************************************************)
(* Library requests.                                                       *)
(***************************************************************************)
\* POST /personas: the transaction of Store.Create.  The body may name an owner.
CreatePersona(c, p, owned, text) ==
  /\ InsertPersona(p, owned, text)
  /\ Starts(c, [NoRequest EXCEPT !.pc = "get", !.kind = "create", !.p = p, !.seen = 1,
                                 !.made = TRUE])
  /\ UNCHANGED <<rendered, listed, holder, agent, latest, personaFaults>>

\* PUT /personas/:id reads the row FOR UPDATE, or waits behind who holds it.
UpdatePersona(c, p, text) ==
  /\ There(p)
  /\ Starts(c, [NoRequest EXCEPT !.pc = "lock", !.kind = "update", !.p = p,
                                 !.text = {text}, !.seen = Version(p)])
  /\ UNCHANGED <<persona, rendered, listed, holder, agent, latest, personaFaults>>

\* POST /personas/:id/rollback reads the old text before it locks.
RollbackPersona(c, p, n) ==
  /\ There(p) /\ n \in 1..Version(p)
  /\ Starts(c, [NoRequest EXCEPT !.pc = "lock", !.kind = "rollback", !.p = p,
                                 !.text = {persona[p].texts[n]}, !.seen = Version(p)])
  /\ UNCHANGED <<persona, rendered, listed, holder, agent, latest, personaFaults>>

\* SELECT ... JOIN ... FOR UPDATE.  The statement joined the row with the version
\* that was current when it began; if that has moved on while it waited, the row
\* no longer joins, and the request answers that there is no such persona.
LockRow(c) ==
  LET p == request[c].p IN
  /\ request[c].pc = "lock" /\ Free(p)
  /\ \/ /\ There(p) /\ Version(p) = request[c].seen
        /\ holder' = [holder EXCEPT ![p] = {c}]
        /\ To(c, "commit") /\ UNCHANGED latest
     \/ /\ ~ There(p) \/ Version(p) # request[c].seen
        /\ Ends(c, FALSE) /\ latest' = Drop(c) /\ UNCHANGED holder
  /\ UNCHANGED <<persona, rendered, listed, agent, personaFaults>>

\* Mutant: an update that changes nothing renders nothing.
CommitRenderingNew(c) ==
  LET p == request[c].p IN
  /\ request[c].pc = "commit" /\ Works
  /\ \E text \in request[c].text :
       IF request[c].kind = "update" /\ text = persona[p].texts[Version(p)]
       THEN Ends(c, TRUE) /\ UNCHANGED persona
       ELSE /\ AppendCopy(p, text)
            /\ Step(c, [request[c] EXCEPT !.pc = "get", !.seen = Version(p) + 1])
  /\ holder' = Unlock(c)
  /\ UNCHANGED <<rendered, listed, agent, latest>>

Commit(c) ==
  LET p == request[c].p IN
  /\ request[c].pc = "commit"
  /\ \E text \in request[c].text :
       \/ /\ Works
          /\ IF request[c].kind = "rollback" THEN AppendCopy(p, text) ELSE AppendIfNew(p, text)
          /\ Step(c, [request[c] EXCEPT
               !.pc = IF request[c].kind = "rollback" THEN "reread" ELSE "get",
               !.seen = Len(persona'[p].texts)])
          /\ UNCHANGED latest
       \/ Fails /\ Ends(c, FALSE) /\ latest' = Drop(c) /\ UNCHANGED persona
  /\ holder' = Unlock(c)
  /\ UNCHANGED <<rendered, listed, agent>>

\* Rollback's Get, outside its transaction.
Reread(c) ==
  LET p == request[c].p IN
  /\ request[c].pc = "reread"
  /\ \/ There(p)   /\ Works /\ Step(c, [request[c] EXCEPT !.pc = "get", !.seen = Version(p)])
     \/ ~ There(p) /\ Works /\ Ends(c, FALSE)
     \/ Fails /\ Ends(c, FALSE)
  /\ UNCHANGED <<persona, rendered, listed, holder, agent, latest>>

\* DELETE /personas/:id is refused while an Agent refers to it ...
DeletePersona(c, p) ==
  /\ ~ (agent.there /\ agent.ref = p)
  /\ There(p)
  /\ Starts(c, [NoRequest EXCEPT !.pc = "deleteRow", !.kind = "delete", !.p = p])
  /\ UNCHANGED <<persona, rendered, listed, holder, agent, latest, personaFaults>>

\* ... the row first, an absent one ends the request ...
RemoveRow(c) ==
  LET p == request[c].p IN
  /\ request[c].pc = "deleteRow" /\ Free(p)
  /\ \/ /\ Works /\ DeletePersonaRow(p)
        /\ IF There(p) THEN To(c, "deleteMap")
           ELSE Ends(c, CleansUp(c))
     \/ Fails /\ DeleteFailed(c) /\ UNCHANGED persona
  /\ UNCHANGED <<rendered, listed, holder, agent, latest>>

\* ... then its ConfigMap ...
DeleteMap(c) ==
  LET p == request[c].p IN
  /\ request[c].pc = "deleteMap"
  /\ \/ /\ Works /\ rendered' = [rendered EXCEPT ![p] = 0] /\ latest' = Stale(p)
        /\ IF request[c].kind = "delete" THEN To(c, "unlist") ELSE Ends(c, TRUE)
     \/ Fails /\ DeleteFailed(c) /\ UNCHANGED <<rendered, latest>>
  /\ UNCHANGED <<persona, listed, holder, agent>>

\* ... then its row in resource_groups, whose errors are only logged.
Unlist(c) ==
  /\ request[c].pc = "unlist"
  /\ \/ Works /\ listed' = listed \ {request[c].p}
     \/ Fails /\ UNCHANGED listed
  /\ Ends(c, TRUE)
  /\ UNCHANGED <<persona, rendered, holder, agent, latest>>

List(c) ==
  /\ request[c].pc = "list"
  /\ \/ Works /\ listed' = listed \union {request[c].p}
     \/ Fails /\ UNCHANGED listed
  /\ Ends(c, TRUE)
  /\ UNCHANGED <<persona, rendered, holder, agent, latest>>

(***************************************************************************)
(* Reconciler.Ensure.                                                      *)
(***************************************************************************)
Ensured(c) ==
  CASE request[c].kind = "create"              -> To(c, "list")
    [] request[c].kind = "put"                 -> To(c, "link")
    [] request[c].kind \in {"update", "rollback"} -> Ends(c, TRUE)

\* A persona that was only just created is taken back.
NotEnsured(c) == IF request[c].made THEN To(c, "undo") ELSE Ends(c, FALSE)

GetMap(c) ==
  LET p == request[c].p IN
  /\ request[c].pc = "get"
  /\ \/ /\ Works /\ rendered[p] = 0 /\ To(c, "createMap") /\ UNCHANGED latest
     \/ /\ Works /\ rendered[p] # 0 /\ To(c, "putMap") /\ latest' = latest \union {<<c, p>>}
     \/ /\ Fails /\ NotEnsured(c) /\ UNCHANGED latest
  /\ UNCHANGED <<persona, rendered, listed, holder, agent>>

CreateMap(c) ==
  LET p == request[c].p IN
  /\ request[c].pc = "createMap"
  /\ \/ /\ rendered[p] = 0 /\ Works
        /\ rendered' = [rendered EXCEPT ![p] = request[c].seen]
        /\ Ensured(c)
     \/ /\ IF rendered[p] # 0 THEN Works ELSE Fails
        /\ NotEnsured(c) /\ UNCHANGED rendered
  /\ UNCHANGED <<persona, listed, holder, agent, latest>>

PutMap(c) ==
  LET p == request[c].p mine == <<c, p>> IN
  /\ request[c].pc = "putMap"
  /\ \/ /\ mine \in latest /\ Works
        /\ rendered' = [rendered EXCEPT ![p] = request[c].seen] /\ latest' = Stale(p)
        /\ Ensured(c)
     \/ /\ IF mine \notin latest THEN Works ELSE Fails
        /\ latest' = latest \ {mine} /\ UNCHANGED rendered
        /\ NotEnsured(c)
  /\ UNCHANGED <<persona, listed, holder, agent>>

\* Service.Create takes the row back; an error of that is ignored.
Undo(c) ==
  /\ request[c].pc = "undo" /\ Free(request[c].p)
  /\ \/ Works /\ DeletePersonaRow(request[c].p)
     \/ Fails /\ UNCHANGED persona
  /\ Ends(c, FALSE) /\ latest' = Drop(c)
  /\ UNCHANGED <<rendered, listed, holder, agent>>

(***************************************************************************)
(* The persona of an agent.                                                *)
(***************************************************************************)
\* PUT /agents/:id/persona reads the agent ...
PutAgentPersona(c, text) ==
  /\ agent.there
  /\ Starts(c, [NoRequest EXCEPT !.pc = "owned", !.kind = "put", !.text = {text}])
  /\ latest' = latest \union {<<c, Agent>>}
  /\ UNCHANGED <<persona, rendered, listed, holder, agent, personaFaults>>

\* Mutant: every edit forks.
EnsureOwnedAnew(c, p) ==
  /\ request[c].pc = "owned" /\ Works
  /\ \E text \in request[c].text : InsertPersona(p, TRUE, text)
  /\ Step(c, [request[c] EXCEPT !.pc = "get", !.p = p, !.seen = 1, !.made = TRUE])
  /\ UNCHANGED <<rendered, listed, holder, agent, latest>>

\* ... EnsureOwned updates the persona it owns (nothing makes that unique, and
\* GetByOwner takes any), or creates one.
EnsureOwned(c, p) ==
  /\ request[c].pc = "owned" /\ Works
  /\ \/ /\ p \in Owned
        /\ Step(c, [request[c] EXCEPT !.pc = "lock", !.p = p, !.seen = Version(p)])
        /\ UNCHANGED persona
     \/ /\ Owned = {}
        /\ \E text \in request[c].text : InsertPersona(p, TRUE, text)
        /\ Step(c, [request[c] EXCEPT !.pc = "get", !.p = p, !.seen = 1, !.made = TRUE])
  /\ UNCHANGED <<rendered, listed, holder, agent, latest>>

\* ... and the agent is re-pointed at it, unless it has changed meanwhile.
LinkAgent(c) ==
  LET p == request[c].p mine == <<c, Agent>> IN
  /\ request[c].pc = "link"
  /\ \/ agent.ref = p /\ mine \in latest /\ Works /\ Ends(c, TRUE) /\ latest' = Drop(c) /\ UNCHANGED agent
     \/ /\ agent.ref # p /\ mine \in latest /\ Works
        /\ agent' = [agent EXCEPT !.ref = p] /\ latest' = Stale(Agent) \ {mine}
        /\ Ends(c, TRUE)
     \/ /\ IF mine \in latest THEN agent.ref # p /\ Fails ELSE Works
        /\ Ends(c, FALSE) /\ latest' = Drop(c) /\ UNCHANGED agent
  /\ UNCHANGED <<persona, rendered, listed, holder>>

\* PUT /agents/:id with a persona, which may be gone: updateAgent reads the agent ...
RePointAgent(c, p) ==
  /\ agent.there /\ persona[p].status # "unused"
  /\ Starts(c, [NoRequest EXCEPT !.pc = "putAgent", !.kind = "repoint", !.p = p])
  /\ latest' = latest \union {<<c, Agent>>}
  /\ UNCHANGED <<persona, rendered, listed, holder, agent, personaFaults>>

\* ... and writes it.
PutAgent(c) ==
  LET mine == <<c, Agent>> IN
  /\ request[c].pc = "putAgent"
  /\ \/ /\ mine \in latest /\ Works
        /\ agent' = [agent EXCEPT !.ref = request[c].p] /\ latest' = Stale(Agent)
        /\ To(c, "cleanup")
     \/ /\ IF mine \in latest THEN Fails ELSE Works
        /\ Ends(c, FALSE) /\ latest' = Drop(c) /\ UNCHANGED agent
  /\ UNCHANGED <<persona, rendered, listed, holder>>

\* DELETE /agents/:id.
DeleteAgent(c) ==
  /\ agent.there
  /\ agent' = [agent EXCEPT !.there = FALSE] /\ latest' = Stale(Agent)
  /\ Starts(c, [NoRequest EXCEPT !.pc = "cleanup", !.kind = "deleteAgent"])
  /\ UNCHANGED <<persona, rendered, listed, holder, personaFaults>>

\* cleanupOwnedPersona: one owned persona, unless it is the one to keep.
Cleanup(c) ==
  LET spared == IF request[c].kind = "repoint" THEN {request[c].p} ELSE {} IN
  /\ request[c].pc = "cleanup"
  /\ \/ /\ Works
        /\ \E p \in Owned :
             IF p \in spared THEN Ends(c, TRUE)
             ELSE Step(c, [request[c] EXCEPT !.pc = "deleteRow", !.p = p])
     \/ Works /\ Owned = {} /\ Ends(c, TRUE)
     \/ Fails /\ DeleteFailed(c)
  /\ UNCHANGED <<persona, rendered, listed, holder, agent, latest>>

\* The hub dies: transactions are rolled back, requests end where they stand.
PersonasCrash ==
  /\ \E c \in Clients : request[c].pc # "idle"
  /\ Fails
  /\ request' = [c \in Clients |-> NoRequest] /\ outcome' = {}
  /\ holder' = [p \in PersonaIds |-> {}] /\ latest' = {}
  /\ UNCHANGED <<persona, rendered, listed, agent, personaEdits>>

-------------------------------------------------------------------------------
PersonaRequest(c) ==
  \/ \E p \in PersonaIds, text \in Texts :
       UpdatePersona(c, p, text) \/ (\E owned \in BOOLEAN : CreatePersona(c, p, owned, text))
  \/ \E p \in PersonaIds, n \in 1..(MaxPersonaEdits + 1) : RollbackPersona(c, p, n)
  \/ \E p \in PersonaIds : DeletePersona(c, p) \/ RePointAgent(c, p)
  \/ \E text \in Texts : PutAgentPersona(c, text)
  \/ DeleteAgent(c)

PersonaStep(c) ==
  \/ LockRow(c) \/ Commit(c) \/ Reread(c) \/ RemoveRow(c) \/ DeleteMap(c) \/ Unlist(c)
  \/ List(c) \/ GetMap(c) \/ CreateMap(c) \/ PutMap(c) \/ Undo(c)
  \/ (\E p \in PersonaIds : EnsureOwned(c, p)) \/ LinkAgent(c) \/ PutAgent(c) \/ Cleanup(c)

PersonasNext ==
  \/ \E c \in Clients : PersonaRequest(c) \/ PersonaStep(c)
  \/ PersonasCrash

PersonasSpec == PersonasInit /\ [][PersonasNext]_personaVars

-------------------------------------------------------------------------------
Exact(p) == rendered[p] = IF There(p) THEN Version(p) ELSE 0

(* A request that ran alone and succeeded leaves its persona's ConfigMap with  *)
(* the current version, whatever failed or overtaken requests had left there   *)
(* before (Service.Update: re-rendering unconditionally "heals"), and a        *)
(* deleted persona without one.  Nobody repairs it otherwise: two overlapping  *)
(* updates may leave the older text for good.                                  *)
PersonaRendered ==
  \A last \in outcome :
    last.kind \in {"create", "update", "rollback", "delete", "put"} => Exact(last.p)

(* A first edit forks and later edits reuse: after an edit that ran alone the  *)
(* agent refers to a persona of its own, also one that a failed cleanup had    *)
(* left over; and after it was re-pointed or deleted no persona it owned is    *)
(* left, although the library does not show it, unless a call of the cleanup   *)
(* failed -- and unless the agent had two to begin with: two first edits that  *)
(* overlapped and forked twice, or a POST that named it.                        *)
OwnedReclaimed ==
  \A last \in outcome : last.tidy =>
    /\ last.kind = "put" => agent.there /\ Owned = {agent.ref}
    /\ last.kind = "repoint" /\ last.cleaned => Owned \subseteq {agent.ref}
    /\ last.kind = "deleteAgent" /\ last.cleaned => Owned = {}
===============================================================================
