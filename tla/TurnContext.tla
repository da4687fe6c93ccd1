------------------------------ MODULE TurnContext ------------------------------
(***************************************************************************)
(* What a turn of the runner is about: the message a task becomes, what pi *)
(* shows its model of a session that outlives every task, and the labels   *)
(* the tokens of an answer are counted under.  TurnTracker with the rest   *)
(* of pi/pi-extensions/ainsel-runner/index.ts around it: each step is one  *)
(* of TurnTracker's, with what it does to the session and the environment. *)
(*                                                                         *)
(* Neither the session nor the environment is per task: pi appends to one  *)
(* history for as long as the pod lives, and AINSEL_EVENT_* are variables  *)
(* of the process, written when a task is taken and read when a message    *)
(* arrives.  A task is what the hub hands out: its headers' type, and of   *)
(* the payload the fields that are read ("" or 0 where there is none).     *)
(***************************************************************************)
EXTENDS TurnTracker, FiniteSets

CONSTANTS
  Work    \* the task of each turn, retries counted

Fields == {"headerType", "dataType", "action", "owner", "repo", "kind", "number", "session"}
ASSUME WorkAssumption == DOMAIN Work = Turns /\ \A g \in Turns : Fields \subseteq DOMAIN Work[g]

VARIABLES
  env,        \* AINSEL_EVENT_ORG, _REPO, _TYPE and _TRACKING_ID
  history     \* pi's session: [of, event], event marking the text that begins "<event>"

\* History, read by properties only.
VARIABLES
  mixed,      \* an answer was given to something else than its task, and all of it
  miscounted  \* tokens were counted for another event than the one answered

context == <<env, history, mixed, miscounted>>
contextVars == <<vars, context>>

-------------------------------------------------------------------------------
(* A task's event                                                              *)

\* extractEventContext is given headers and data only; a header's type goes before
\* the payload's, and a chat message before a cron trigger.
EventType(task) == IF task.headerType # "" THEN task.headerType ELSE task.dataType

Present(text) == text # ""

Type(task) ==
  IF EventType(task) = "chat.message" THEN <<"chat.message">>
  ELSE IF task.headerType = "cron" THEN <<"cron">>
  ELSE SelectSeq(<<task.headerType, task.action>>, Present)

OfRepository(task) == Type(task) \notin {<<"chat.message">>, <<"cron">>}

RepoFullName(task) ==
  IF OfRepository(task) /\ Present(task.repo) THEN SelectSeq(<<task.owner, task.repo>>, Present)
  ELSE <<>>

TrackingID(task) ==
  IF Type(task) = <<"chat.message">> THEN <<task.session>>
  ELSE IF RepoFullName(task) = <<>> \/ task.number = 0 THEN RepoFullName(task)
  ELSE RepoFullName(task) \o <<task.kind, task.number>>

EventContext(task) ==
  [type     |-> Type(task),
   org      |-> IF OfRepository(task) THEN task.owner ELSE "",
   repo     |-> RepoFullName(task),
   tracking |-> TrackingID(task)]

NoEvent == [type |-> <<>>, org |-> "", repo |-> <<>>, tracking |-> <<>>]

\* Mutant: what a chat message has no value for is left as it is.
SetAinselEventEnvPartly(task) ==
  env' = IF OfRepository(task) THEN EventContext(task)
         ELSE [EventContext(task) EXCEPT !.org = env.org, !.repo = env.repo]

SetAinselEventEnv(task) == env' = EventContext(task)

\* buildUserMessage: whatever the event, the text begins with "<event>".
UserMessage(g) == [of |-> g, event |-> TRUE]

Leads(message) == message.event

\* Mutant: the first event of the session, not the last.
StartIndexFirst(messages) ==
  LET events == {i \in DOMAIN messages : Leads(messages[i])}
  IN IF events = {} THEN 1 ELSE CHOOSE i \in events : \A j \in events : i <= j

StartIndex(messages) ==
  LET events == {i \in DOMAIN messages : Leads(messages[i])}
  IN IF events = {} THEN 1 ELSE CHOOSE i \in events : \A j \in events : j <= i

\* The handler of pi's "context" event: what the model is shown.
Shown(messages) == SubSeq(messages, StartIndex(messages), Len(messages))

\* The model is shown the event of turn g and what that turn's run said since.
ShowsOnly(g, messages) ==
  \E n \in DOMAIN history :
    /\ messages = SubSeq(history, n, Len(history))
    /\ {i \in DOMAIN history : history[i].of = g} = n..Len(history)
    /\ Leads(history[n])

-------------------------------------------------------------------------------
(* The turn's steps                                                            *)

ContextInit ==
  /\ Init
  /\ env = NoEvent
  /\ history = <<>> /\ mixed = FALSE /\ miscounted = FALSE

\* runPollLoop has a task: no answer, an error and an answer that is no JSON only
\* make it poll again.  The environment is set before the turn begins.
TakeTask ==
  /\ BeginTurn
  /\ SetAinselEventEnv(Work[generation + 1])
  /\ UNCHANGED <<history, mixed, miscounted>>

\* pi takes the message into its session with the run it starts for it ...
RunStarts ==
  /\ StartRun
  /\ history' = Append(history, UserMessage(generation))
  /\ UNCHANGED <<env, mixed, miscounted>>

\* ... or with the one that is under way.
MessageSent ==
  /\ Sent
  /\ \/ UNCHANGED history
     \/ /\ run.of \notin {0, generation}
        /\ history' = Append(history, UserMessage(generation))
  /\ UNCHANGED <<env, mixed, miscounted>>

\* A message of a run.  The first that is not an answer is the task's own, which is
\* in the session already; an answer was given to what the session held before it
\* and is counted under the environment it arrives in, turn or no turn.
MessageArrives(assistant, failed, used) ==
  /\ MessageEnd(assistant, failed)
  /\ history' = IF run.said = 0 /\ ~ assistant THEN history
                ELSE Append(history, [of |-> run.of, event |-> FALSE])
  /\ mixed' = (mixed \/ (assistant /\ ~ ShowsOnly(run.of, Shown(history))))
  /\ miscounted' = (miscounted \/ (assistant /\ used /\ env # EventContext(Work[run.of])))
  /\ UNCHANGED env

TurnOnly ==
  /\ SendFails \/ EndOfTurn \/ TimeOut \/ GiveUp \/ Drained \/ Post \/ Report
     \/ TurnEnd \/ AgentSettled
  /\ UNCHANGED context

ContextNext ==
  \/ TakeTask \/ RunStarts \/ MessageSent \/ TurnOnly
  \/ \E assistant, failed, used \in BOOLEAN : MessageArrives(assistant, failed, used)

ContextSpec == ContextInit /\ [][ContextNext]_contextVars

\* TurnTracker's fairness, of the same steps.
ContextFairness ==
  /\ WF_contextVars(MessageSent)
  /\ WF_contextVars(TimeOut /\ UNCHANGED context) /\ WF_contextVars(GiveUp /\ UNCHANGED context)
  /\ WF_contextVars(EndOfTurn /\ UNCHANGED context) /\ WF_contextVars(Drained /\ UNCHANGED context)
  /\ WF_contextVars(Post /\ UNCHANGED context) /\ WF_contextVars(Report /\ UNCHANGED context)

ContextFairSpec == ContextSpec /\ ContextFairness

-------------------------------------------------------------------------------
ContextTypeOK ==
  /\ TypeOK
  /\ \A i \in DOMAIN history : history[i] \in [of : Turns, event : BOOLEAN]
  /\ mixed \in BOOLEAN /\ miscounted \in BOOLEAN
  /\ env \in {EventContext(Work[g]) : g \in Turns} \union {NoEvent}

(* The model answers a task from that task's event and its own messages since, *)
(* all of them and nothing of the tasks before, in a session that no one ever  *)
(* clears ("Strip accumulated conversation history between events"); the       *)
(* tokens of an answer, those of an abandoned turn's tail included, are        *)
(* counted for the event that was paid for.  Both may mix only after a drain   *)
(* gave up.                                                                    *)
ContextIsOwn ==
  gaveUp \/ (~ mixed /\ ~ miscounted)

\* What a turn leaves behind and what it is given are its own task's.
TurnsAreOwn == ContextTypeOK /\ TranscriptIsOwn /\ ContextIsOwn
===============================================================================
