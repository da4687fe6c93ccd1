-------------------------------- MODULE MCRunner --------------------------------
(***************************************************************************)
(* The TLC instance of what a runner meets: LongPoll, two pods of one      *)
(* agent on a pool with a connection to spare, which also hear another     *)
(* agent's notifications; TurnTracker over three turns of one message, so  *)
(* that a run can outlive the next turn and meet the one after it, or over *)
(* two turns of two; TurnContext, where two tasks unlike follow one        *)
(* another and no drain gives up (after one its property claims nothing);  *)
(* and TranscriptText.  Every behaviour is of one of them, its part.       *)
(***************************************************************************)
EXTENDS LongPoll, TurnContext, TranscriptText, TLC

CONSTANTS a1, a2, p1, p2, t1, t2

TwoAgents == {a1, a2}
TwoPolls  == {p1, p2}
TwoTasks  == {t1, t2}
OneTask   == {t1}

SamePolls == [p \in Polls |-> a1]
MCAgentOf == [t \in Tasks |-> IF t = t2 THEN a2 ELSE a1]

Bare == [headerType |-> "cron", dataType |-> "", action |-> "", owner |-> "", repo |-> "",
         kind |-> "", number |-> 0, session |-> ""]

\* A repository's event, and two that have no repository.
ThreeTasks ==
  <<[Bare EXCEPT !.headerType = "issues", !.action = "opened", !.owner = "o", !.repo = "r",
                 !.kind = "issues", !.number = 1],
    [Bare EXCEPT !.headerType = "chat.message", !.session = "s"],
    Bare>>

\* A secret with a letter JSON escapes; a listed variable; one that is too short.
MCEnvironment ==
  {[key |-> "TOKEN", value |-> <<"s", Quote, "t">>], [key |-> "AGENT_NAME", value |-> <<"a", "b">>],
   [key |-> "SHORT", value |-> <<"x">>]}
MCPieces == {v.value : v \in MCEnvironment}

VARIABLE part

runnerVars == <<part, longPollVars, contextVars, textVars>>

OfPolls(A) == part = "polls" /\ A /\ UNCHANGED <<part, contextVars, textVars>>
OfTurns(A) ==
  /\ part \in {"turns", "messages"} /\ A
  /\ IF part = "turns" THEN run'.said <= 1 ELSE generation' <= 2
  /\ UNCHANGED <<part, context, longPollVars, textVars>>
OfContext(A) ==
  /\ part = "context" /\ A
  /\ ~ gaveUp' /\ generation' <= 2
  /\ UNCHANGED <<part, longPollVars, textVars>>
OfText(A) == part = "text" /\ A /\ UNCHANGED <<part, longPollVars, contextVars>>

RunnerInit ==
  /\ part \in {"polls", "turns", "messages", "context", "text"}
  /\ PollInit /\ ContextInit /\ TextInit
  /\ part # "text" => message.role = "user" /\ message.form = "string" /\ cap = 1

RunnerNext == OfPolls(PollNext) \/ OfTurns(Next) \/ OfContext(ContextNext) \/ OfText(TextNext)

RunnerSpec ==
  /\ RunnerInit /\ [][RunnerNext]_runnerVars
  /\ \A p \in Polls :
       /\ WF_runnerVars(OfPolls(BeginPoll(p)))
       /\ WF_runnerVars(OfPolls(DeadlinePasses(p)))
       /\ SF_runnerVars(OfPolls(Advance(p)))
  /\ WF_runnerVars(OfTurns(Sent)) /\ WF_runnerVars(OfTurns(TimeOut))
  /\ WF_runnerVars(OfTurns(GiveUp)) /\ WF_runnerVars(OfTurns(EndOfTurn))
  /\ WF_runnerVars(OfTurns(Drained)) /\ WF_runnerVars(OfTurns(Post))
  /\ WF_runnerVars(OfTurns(Report))

-------------------------------------------------------------------------------
(* Where TurnTracker is fair, every task is reported.                          *)
TurnsEnd == part \in {"turns", "messages"} => EveryTaskReported
===============================================================================
