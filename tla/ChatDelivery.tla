------------------------------ MODULE ChatDelivery ------------------------------
(***************************************************************************)
(* A chat message on its way to the agent: services/hub/internal/api/      *)
(* handlers_chat.go over chat/store.go, the event queue and the transfer   *)
(* along the bridges out of the agent's inbox.                             *)
(*                                                                         *)
(* addChatMessage is a chain of statements, each committed by itself; some *)
(* failures are answered, some are logged and passed over.  Each statement *)
(* is a step; sessions are deleted, agents renamed and the router polls in *)
(* between, and the hub may die.  A session names its agent by the name of *)
(* its resource or, in old sessions, by its display name.  Contents and    *)
(* session names are left out, and so is the broadcast to the browsers,    *)
(* which nothing waits for.                                                *)
(***************************************************************************)
EXTENDS Naturals, FiniteSets

CONSTANTS
  Crew, Titles,        \* agents, and the display names they may carry
  Talks,               \* sessions, by id
  Notes, IsUser,       \* messages; IsUser[m]: its role is user, not assistant or status
  Reach,               \* Reach[a]: the inboxes bridges lead to out of a's
  MaxTalkChanges,      \* bound: sessions deleted, agents renamed
  MaxTalkFaults        \* bound: failing statements and crashes

Called == Crew \cup Titles   \* what a session or a task may name

ASSUME ChatAssumption ==
  /\ Crew \cap Titles = {} /\ IsUser \in [Notes -> BOOLEAN]
  /\ Reach \in [Crew -> SUBSET Crew] /\ \A a \in Crew : a \notin Reach[a]
  /\ {MaxTalkChanges, MaxTalkFaults} \subseteq Nat

VARIABLES
  title,     \* title[a]: a's display name
  talk,      \* talk[s]: the session's agent_name, as a set of at most one; {} when there is none
  over,      \* sessions deleted
  kept,      \* rows of chat_messages, as <<message, session>>
  chatEvent, \* chatEvent[m]: "none", "unrouted" or "routed"
  inbox,     \* inbox[m]: events.channel_id, as the set of the agent whose inbox it is
  tasks,     \* tasks[m]: the names there is a row of agent_tasks for
  note,      \* note[m]: the request that posts m
  talkChanges, talkFaults
VARIABLES    \* history
  unheard,   \* requests that went on without the session they had stored a message in
  undecided, \* requests that took the session's own word for the agent's name
  unnotified \* messages whose task was stored and whose NOTIFY failed

chatHistory == <<unheard, undecided, unnotified>>
chatVars == <<title, talk, over, kept, chatEvent, inbox, tasks, note, talkChanges, talkFaults, chatHistory>>
rest == <<title, talk, over>>

NoNote == [pc |-> "new", talk |-> {}, agent |-> {}, born |-> {}, answer |-> "none"]
PCs == {"new", "add", "bump", "owner", "resolve", "birth", "insert", "mark", "enqueue", "notify",
        "transfer", "done"}

ChatTypeOK ==
  /\ title \in [Crew -> Titles] /\ talk \in [Talks -> SUBSET Called]
  /\ over \subseteq Talks /\ kept \subseteq Notes \X Talks
  /\ \A k \in kept : k[2] \notin over
  /\ chatEvent \in [Notes -> {"none", "unrouted", "routed"}]
  /\ inbox \in [Notes -> SUBSET Called] /\ tasks \in [Notes -> SUBSET Called]
  /\ note \in [Notes -> [pc : PCs, talk : SUBSET Talks, agent : SUBSET Called, born : SUBSET Called,
                         answer : {"none", "created", "failed", "lost"}]]

ChatInit ==
  /\ title \in [Crew -> Titles]
  /\ talk = [s \in Talks |-> {}] /\ over = {} /\ kept = {}
  /\ chatEvent = [m \in Notes |-> "none"]
  /\ inbox = [m \in Notes |-> {}] /\ tasks = [m \in Notes |-> {}]
  /\ note = [m \in Notes |-> NoNote]
  /\ talkChanges = 0 /\ talkFaults = 0
  /\ unheard = {} /\ undecided = {} /\ unnotified = {}

Flaw == talkFaults < MaxTalkFaults /\ talkFaults' = talkFaults + 1
Change == talkChanges < MaxTalkChanges /\ talkChanges' = talkChanges + 1
Stage(m, pc) == note[m].pc = pc
Onward(m, pc) == note' = [note EXCEPT ![m].pc = pc]
Says(m, answer) == note' = [note EXCEPT ![m].pc = "done", ![m].answer = answer]
TalkOf(m) == CHOOSE s \in Talks : s \in note[m].talk
Open(s) == talk[s] # {}

-------------------------------------------------------------------------------
(* Sessions and agents.                                                      *)

\* createChatSession: the name is stored as the browser gave it.
CreateSession(s, name) ==
  /\ talk[s] = {} /\ s \notin over
  /\ talk' = [talk EXCEPT ![s] = {name}]
  /\ UNCHANGED <<title, over, kept, chatEvent, inbox, tasks, note, talkChanges, talkFaults, chatHistory>>

\* deleteChatSession: its messages go with it, its events and tasks stay.
DeleteSession(s) ==
  /\ Open(s) /\ Change
  /\ talk' = [talk EXCEPT ![s] = {}] /\ over' = over \cup {s}
  /\ kept' = {k \in kept : k[2] # s}
  /\ UNCHANGED <<title, chatEvent, inbox, tasks, note, talkFaults, chatHistory>>

RenameAgent(a, t) ==
  /\ t # title[a] /\ Change
  /\ title' = [title EXCEPT ![a] = t]
  /\ UNCHANGED <<talk, over, kept, chatEvent, inbox, tasks, note, talkFaults, chatHistory>>

-------------------------------------------------------------------------------
(* addChatMessage.                                                           *)

\* requireChatSessionAccess finds the session; the sidecar's requests are not asked for it.
Post(m, s) ==
  /\ Stage(m, "new") /\ (Open(s) \/ s \in over)
  /\ note' = [note EXCEPT ![m].pc = "add", ![m].talk = {s}]
  /\ UNCHANGED <<rest, kept, chatEvent, inbox, tasks, talkChanges, talkFaults, chatHistory>>

\* The message's foreign key refuses a session that is gone.
AddMessage(m) ==
  /\ Stage(m, "add")
  /\ IF Open(TalkOf(m))
     THEN kept' = kept \cup {<<m, TalkOf(m)>>} /\ Onward(m, "bump")
     ELSE Says(m, "failed") /\ UNCHANGED kept
  /\ UNCHANGED <<rest, chatEvent, inbox, tasks, talkChanges, talkFaults, chatHistory>>

\* updated_at: its failure is the request's, with the message stored.
BumpSession(m) ==
  /\ Stage(m, "bump")
  /\ \/ Onward(m, "owner") /\ UNCHANGED talkFaults
     \/ Flaw /\ Says(m, "failed")
  /\ UNCHANGED <<rest, kept, chatEvent, inbox, tasks, talkChanges, chatHistory>>

\* Mutant: the sidecar's answers go to the agent as well.
AnyRoleGoesOn(m) == "resolve"

\* Only a user's message becomes an event.
GoesOn(m) == IF IsUser[m] THEN "resolve" ELSE "done"

\* GetSession: without the session the request is answered as if all were well.
ReadOwner(m) ==
  /\ Stage(m, "owner")
  /\ \/ /\ Open(TalkOf(m))
        /\ IF GoesOn(m) = "done" THEN Says(m, "created")
           ELSE note' = [note EXCEPT ![m].pc = GoesOn(m), ![m].agent = talk[TalkOf(m)]]
        /\ UNCHANGED <<talkFaults, unheard>>
     \/ /\ IF Open(TalkOf(m)) THEN Flaw ELSE UNCHANGED talkFaults
        /\ Says(m, "created") /\ unheard' = unheard \cup {m}
  /\ UNCHANGED <<rest, kept, chatEvent, inbox, tasks, talkChanges, undecided, unnotified>>

\* resolveAgentNameForRouting: any agent with that display name; else the stored name is used.
ResolveAgent(m) ==
  /\ Stage(m, "resolve")
  /\ LET named == {a \in Crew : title[a] \in note[m].agent} IN
     \/ /\ note[m].agent \subseteq Crew
        /\ Onward(m, "birth") /\ UNCHANGED <<talkFaults, undecided>>
     \/ \E a \in named :
          /\ note' = [note EXCEPT ![m].pc = "birth", ![m].agent = {a}]
          /\ UNCHANGED <<talkFaults, undecided>>
     \/ /\ note[m].agent \subseteq Titles
        /\ IF named = {} THEN UNCHANGED talkFaults ELSE Flaw
        /\ Onward(m, "birth") /\ undecided' = undecided \cup {m}
  /\ UNCHANGED <<rest, kept, chatEvent, inbox, tasks, talkChanges, unheard, unnotified>>

\* InboxChannelFor; a failure is logged.
ResolveInbox(m) ==
  /\ Stage(m, "birth")
  /\ \/ note' = [note EXCEPT ![m].pc = "insert", ![m].born = note[m].agent] /\ UNCHANGED talkFaults
     \/ Flaw /\ Onward(m, "insert")
  /\ UNCHANGED <<rest, kept, chatEvent, inbox, tasks, talkChanges, chatHistory>>

StoreEvent(m) ==
  /\ Stage(m, "insert")
  /\ \/ /\ chatEvent' = [chatEvent EXCEPT ![m] = "unrouted"]
        /\ inbox' = [inbox EXCEPT ![m] = note[m].born]
        /\ Onward(m, "mark") /\ UNCHANGED talkFaults
     \/ Flaw /\ Says(m, "failed") /\ UNCHANGED <<chatEvent, inbox>>
  /\ UNCHANGED <<rest, kept, tasks, talkChanges, chatHistory>>

\* MarkRouted, its error ignored.
MarkChat(m) ==
  /\ Stage(m, "mark")
  /\ \/ chatEvent' = [chatEvent EXCEPT ![m] = "routed"] /\ UNCHANGED talkFaults
     \/ Flaw /\ UNCHANGED chatEvent
  /\ Onward(m, "enqueue")
  /\ UNCHANGED <<rest, kept, inbox, tasks, talkChanges, chatHistory>>

\* Mutant: a failing insert is passed over as the failures before it are.
RefuseQuietly(m) == Says(m, "created")

Refuse(m) == Says(m, "failed")

\* EnqueueTask: the row, then the NOTIFY; the error of either is the request's.
EnqueueChat(m) ==
  /\ Stage(m, "enqueue")
  /\ \/ tasks' = [tasks EXCEPT ![m] = @ \cup note[m].agent] /\ Onward(m, "notify") /\ UNCHANGED talkFaults
     \/ Flaw /\ Refuse(m) /\ UNCHANGED tasks
  /\ UNCHANGED <<rest, kept, chatEvent, inbox, talkChanges, chatHistory>>

NotifyChat(m) ==
  /\ Stage(m, "notify")
  /\ \/ Onward(m, "transfer") /\ UNCHANGED <<talkFaults, unnotified>>
     \/ Flaw /\ Refuse(m) /\ unnotified' = unnotified \cup {m}
  /\ UNCHANGED <<rest, kept, chatEvent, inbox, tasks, talkChanges, unheard, undecided>>

Reached(born) == UNION {Reach[a] : a \in born \cap Crew}

\* transferChatMessage: along the bridges out of the inbox; each delivery may fail, unanswered.
TransferChat(m, missed) ==
  /\ Stage(m, "transfer")
  /\ missed \subseteq Reached(note[m].born)
  /\ IF missed = {} THEN UNCHANGED talkFaults ELSE Flaw
  /\ tasks' = [tasks EXCEPT ![m] = @ \cup (Reached(note[m].born) \ missed)]
  /\ Says(m, "created")
  /\ UNCHANGED <<rest, kept, chatEvent, inbox, talkChanges, chatHistory>>

\* The router finds the event before MarkRouted, or after its failure.
RouterFinds(m) ==
  /\ chatEvent[m] = "unrouted"
  /\ tasks' = [tasks EXCEPT ![m] = @ \cup Reached(inbox[m])]
  /\ chatEvent' = [chatEvent EXCEPT ![m] = "routed"]
  /\ UNCHANGED <<rest, kept, inbox, note, talkChanges, talkFaults, chatHistory>>

\* The hub dies: no request in flight is answered.
HubDies ==
  /\ \E m \in Notes : note[m].pc \notin {"new", "done"}
  /\ Flaw
  /\ note' = [m \in Notes |-> IF note[m].pc \in {"new", "done"} THEN note[m]
                              ELSE [note[m] EXCEPT !.pc = "done", !.answer = "lost"]]
  /\ UNCHANGED <<rest, kept, chatEvent, inbox, tasks, talkChanges, chatHistory>>

ChatNext ==
  \/ \E s \in Talks : DeleteSession(s) \/ \E name \in Called : CreateSession(s, name)
  \/ \E a \in Crew, t \in Titles : RenameAgent(a, t)
  \/ \E m \in Notes :
       \/ \E s \in Talks : Post(m, s)
       \/ AddMessage(m) \/ BumpSession(m) \/ ReadOwner(m) \/ ResolveAgent(m) \/ ResolveInbox(m)
       \/ StoreEvent(m) \/ MarkChat(m) \/ EnqueueChat(m) \/ NotifyChat(m)
       \/ (\E missed \in SUBSET Crew : TransferChat(m, missed)) \/ RouterFinds(m)
  \/ HubDies

ChatSpec == ChatInit /\ [][ChatNext]_chatVars

-------------------------------------------------------------------------------
\* What the sender is told is what became of the message.  Answered 201, it is queued for the agent
\* its session was found to name, unless the session could not be read back; answered with an error,
\* the agent has no task of it, unless only the NOTIFY failed.  What an agent answers never comes back
\* to an agent, and a message queued for a name that is not an agent's was one whose agent could
\* not be looked up.
ChatTold ==
  \A m \in Notes :
    /\ note[m].answer = "created" /\ IsUser[m] /\ m \notin unheard =>
         note[m].agent # {} /\ note[m].agent \subseteq tasks[m]
    /\ note[m].answer = "failed" /\ m \notin unnotified => tasks[m] \cap note[m].agent = {}
    /\ ~IsUser[m] => tasks[m] = {} /\ chatEvent[m] = "none"
    /\ tasks[m] \subseteq Crew \/ m \in undecided
===============================================================================
