------------------------------ MODULE TurnTracker ------------------------------
(***************************************************************************)
(* One runner pod working through its tasks: processTask and the           *)
(* TurnTracker of pi/pi-extensions/ainsel-runner/index.ts, with the events *)
(* of pi that drive it.  A task becomes a message to pi, pi's run answers  *)
(* with events, and nothing in an event says which task it belongs to: the *)
(* tracker has to know from when it arrives.                               *)
(*                                                                         *)
(* JavaScript runs one callback at a time: a step is a callback, or what   *)
(* processTask does between two awaits.  Fetching a task and what the hub  *)
(* makes of the report are TaskQueue's.                                    *)
(*                                                                         *)
(* pi is external.  It has at most one run; a run fires message_end and    *)
(* turn_end events in any order and agent_settled as its last; isIdle      *)
(* means that there is no run.  sendUserMessage starts a run if there is   *)
(* none; it may also be refused, or start nothing.  Sent into a run under  *)
(* way it is refused or joins it.                                          *)
(***************************************************************************)
EXTENDS Naturals, Sequences

CONSTANTS
  MaxTurns,      \* bound: tasks, retries counted
  MaxMessages    \* bound: messages of a run

ASSUME TurnAssumption == MaxTurns \in Nat /\ MaxMessages \in Nat

VARIABLES
  pc,                          \* where processTask stands
  generation, activeGeneration, errorMessage, assistantMessageCompleted,
  capturedMessages, settled,   \* the TurnTracker's fields
  turnDone,                    \* the promise of beginTurn is resolved
  postCtx,                     \* the context's postedCount and whether it is installed
  postChain,                   \* messages queued and not posted
  succeeded,                   \* processTask's verdict on the turn
  run                          \* pi's run: the turn that started it, its messages

\* History, read by properties only.
VARIABLES
  turn,       \* turn[g]: what became of the g-th turn
  gaveUp      \* a drain ended by TURN_SETTLE_TIMEOUT_MS

tracker == <<generation, activeGeneration, errorMessage, assistantMessageCompleted,
             capturedMessages, settled, turnDone>>
posting == <<postCtx, postChain>>
vars == <<pc, tracker, posting, succeeded, run, turn, gaveUp>>

Turns == 1..MaxTurns
NoRun == [of |-> 0, said |-> 0]
Message == Turns \X (1..MaxMessages)
Captured == [gen : Turns, message : Message]

\* clean: it began with no run under way.  answered, erred, said, ended: what the
\* run it started did.  posted, report: what was sent to the hub.
Turn == [clean : BOOLEAN, answered : BOOLEAN, erred : BOOLEAN, said : 0..MaxMessages,
         ended : BOOLEAN, posted : Seq(Message), report : {"none", "ack", "nack"}]
Untaken == [clean |-> TRUE, answered |-> FALSE, erred |-> FALSE, said |-> 0,
            ended |-> FALSE, posted |-> <<>>, report |-> "none"]

TypeOK ==
  /\ pc \in {"polling", "sending", "turn", "draining", "drained", "posting"}
  /\ generation \in 0..MaxTurns
  /\ activeGeneration \in {0, generation}
  /\ errorMessage \in BOOLEAN /\ assistantMessageCompleted \in BOOLEAN
  /\ capturedMessages \in Seq(Captured)
  /\ settled \in BOOLEAN /\ turnDone \in BOOLEAN
  /\ postCtx \in [set : BOOLEAN, postedCount : 0..Len(capturedMessages)]
  /\ postChain \in Seq(Message)
  /\ succeeded \in BOOLEAN
  /\ run \in [of : Turns, said : 0..MaxMessages] \union {NoRun}
  /\ turn \in [Turns -> Turn]
  /\ gaveUp \in BOOLEAN

Init ==
  /\ pc = "polling"
  /\ generation = 0 /\ activeGeneration = 0
  /\ errorMessage = FALSE /\ assistantMessageCompleted = FALSE
  /\ capturedMessages = <<>> /\ settled = TRUE
  /\ turnDone = FALSE
  /\ postCtx = [set |-> FALSE, postedCount |-> 0] /\ postChain = <<>>
  /\ succeeded = FALSE
  /\ run = NoRun
  /\ turn = [g \in Turns |-> Untaken]
  /\ gaveUp = FALSE

-------------------------------------------------------------------------------
(* The turn                                                                    *)

\* Mutant: activeGeneration is taken before the generation is bumped.
NextGenerationLate == generation' = generation + 1 /\ activeGeneration' = generation

NextGeneration == generation' = generation + 1 /\ activeGeneration' = generation'

\* beginTurn: nothing of the turn before is left.
FreshTracker ==
  /\ NextGeneration
  /\ errorMessage' = FALSE /\ assistantMessageCompleted' = FALSE
  /\ capturedMessages' = <<>> /\ settled' = FALSE /\ turnDone' = FALSE

\* A task has been fetched: beginTurn, and the post context is installed.
BeginTurn ==
  /\ pc = "polling" /\ generation < MaxTurns
  /\ FreshTracker
  /\ postCtx' = [set |-> TRUE, postedCount |-> 0] /\ postChain' = <<>>
  /\ turn' = [turn EXCEPT ![generation + 1].clean = (run = NoRun)]
  /\ pc' = "sending"
  /\ UNCHANGED <<succeeded, run, gaveUp>>

\* sendUserMessage starts a run ...
StartRun ==
  /\ pc = "sending" /\ run = NoRun /\ ~ turn[generation].ended
  /\ run' = [of |-> generation, said |-> 0]
  /\ UNCHANGED <<pc, tracker, posting, succeeded, turn, gaveUp>>

\* ... and returns, having started one or not.
Sent ==
  /\ pc = "sending"
  /\ pc' = "turn"
  /\ UNCHANGED <<tracker, posting, succeeded, run, turn, gaveUp>>

Fresh == SubSeq(capturedMessages, postCtx.postedCount + 1, Len(capturedMessages))

\* Mutant: what was flushed before is queued again.
QueueFlushAll(set) ==
  /\ postCtx' = [set |-> set, postedCount |-> Len(capturedMessages)]
  /\ postChain' = postChain \o [i \in DOMAIN capturedMessages |-> capturedMessages[i].message]

\* queueConversationFlush; all that is captured is of the turn's generation.
QueueFlush(set) ==
  /\ postCtx' = [set |-> set, postedCount |-> Len(capturedMessages)]
  /\ postChain' = postChain \o [i \in DOMAIN Fresh |-> Fresh[i].message]

\* The part of processTask between the end of the turn and the wait for the posts.
Close(verdict) ==
  /\ succeeded' = verdict
  /\ QueueFlush(FALSE)
  /\ pc' = "posting"
  /\ UNCHANGED <<tracker, run, turn, gaveUp>>

\* Mutant: a settled run is a success.
VerdictSettled == TRUE

Verdict ==
  /\ activeGeneration \in {0, generation}
  /\ ~ errorMessage
  /\ assistantMessageCompleted

EndOfTurn == pc = "turn" /\ turnDone /\ Close(Verdict)

\* sendUserMessage throws; it has started no run then.
SendFails ==
  /\ pc = "sending" /\ run.of # generation /\ ~ turn[generation].ended
  /\ Close(FALSE)

Drained == pc = "drained" /\ Close(FALSE)

\* Mutant: the loop goes on without waiting for the aborted run.
AfterAbortAtOnce == "drained"

\* waitForSettle returns at once when there is nothing to wait for.
AfterAbort == IF settled \/ run = NoRun THEN "drained" ELSE "draining"

\* TURN_TIMEOUT_MS: the turn is abandoned and the run aborted.
TimeOut ==
  /\ pc = "turn" /\ ~ turnDone
  /\ activeGeneration' = 0
  /\ pc' = AfterAbort
  /\ UNCHANGED <<generation, errorMessage, assistantMessageCompleted, capturedMessages, settled,
                 turnDone, posting, succeeded, run, turn, gaveUp>>

\* Mutant: the drain waits as long as it takes.
NeverGivesUp == FALSE

BackstopPassed == TRUE

\* TURN_SETTLE_TIMEOUT_MS: the aborted run does not end.
GiveUp ==
  /\ pc = "draining" /\ BackstopPassed
  /\ pc' = "drained"
  /\ gaveUp' = TRUE
  /\ UNCHANGED <<tracker, posting, succeeded, run, turn>>

\* Each payload has a request of its own, one after another, and only one,
\* whether it arrives or not.
Post ==
  /\ postChain # <<>>
  /\ turn' = [turn EXCEPT ![generation].posted = Append(@, Head(postChain))]
  /\ postChain' = Tail(postChain)
  /\ UNCHANGED <<pc, tracker, postCtx, succeeded, run, gaveUp>>

\* The chain has been waited for: ack or nack, once, and on to the next task.
Report ==
  /\ pc = "posting" /\ postChain = <<>>
  /\ turn' = [turn EXCEPT ![generation].report = IF succeeded THEN "ack" ELSE "nack"]
  /\ pc' = "polling"
  /\ UNCHANGED <<tracker, posting, succeeded, run, gaveUp>>

-------------------------------------------------------------------------------
(* The events of pi                                                            *)

\* captureMessage: the tag is the turn that is active, whoever's message it is.
CaptureMessage(message) ==
  capturedMessages' = IF activeGeneration # 0
    THEN Append(capturedMessages, [gen |-> activeGeneration, message |-> message])
    ELSE capturedMessages

\* recordAssistantEnd.
RecordAssistantEnd(assistant, failed) ==
  LET recorded == activeGeneration # 0 /\ assistant
  IN /\ assistantMessageCompleted' = (assistantMessageCompleted \/ recorded)
     /\ errorMessage' = (errorMessage \/ (recorded /\ failed))

MessageEnd(assistant, failed) ==
  /\ run # NoRun /\ run.said < MaxMessages
  /\ run' = [run EXCEPT !.said = @ + 1]
  /\ CaptureMessage(<<run.of, run.said + 1>>)
  /\ RecordAssistantEnd(assistant, failed)
  /\ turn' = [turn EXCEPT ![run.of].said = run.said + 1,
                          ![run.of].answered = @ \/ assistant,
                          ![run.of].erred = @ \/ (assistant /\ failed)]
  /\ UNCHANGED <<pc, generation, activeGeneration, settled, turnDone, posting, succeeded, gaveUp>>

\* flushTurnMessages.
TurnEnd ==
  /\ run # NoRun
  /\ postCtx.set /\ activeGeneration = generation
  /\ QueueFlush(TRUE)
  /\ UNCHANGED <<pc, tracker, succeeded, run, turn, gaveUp>>

\* endTurn: of a turn that is active, and only once.
EndTurn ==
  /\ turnDone' = (turnDone \/ activeGeneration # 0)
  /\ activeGeneration' = 0

\* markSettled, and waitForSettle's promise with it.
MarkSettled ==
  /\ settled' = TRUE
  /\ pc' = IF pc = "draining" THEN "drained" ELSE pc

AgentSettled ==
  /\ run # NoRun
  /\ run' = NoRun
  /\ EndTurn
  /\ MarkSettled
  /\ turn' = [turn EXCEPT ![run.of].ended = TRUE]
  /\ UNCHANGED <<generation, errorMessage, assistantMessageCompleted, capturedMessages,
                 posting, succeeded, gaveUp>>

-------------------------------------------------------------------------------
Next ==
  \/ BeginTurn \/ StartRun \/ Sent \/ SendFails
  \/ EndOfTurn \/ TimeOut \/ GiveUp \/ Drained
  \/ Post \/ Report
  \/ \E assistant, failed \in BOOLEAN : MessageEnd(assistant, failed)
  \/ TurnEnd \/ AgentSettled

Spec == Init /\ [][Next]_vars

(* Fairness: the timers, the requests and what processTask does after them.    *)
(* A message post is cut off after POST_TIMEOUT_MS; that ackTask and nackTask, *)
(* which set no limit, end as well is left to fetch.  pi owes nothing but the  *)
(* return of sendUserMessage: a run may stall or go on, aborted or not.        *)
Fairness ==
  /\ WF_vars(Sent) /\ WF_vars(TimeOut) /\ WF_vars(GiveUp)
  /\ WF_vars(EndOfTurn) /\ WF_vars(Drained) /\ WF_vars(Post) /\ WF_vars(Report)

FairSpec == Spec /\ Fairness

-------------------------------------------------------------------------------
(* A task is acked only for what its own run did: it ended, it answered, and   *)
(* no answer was an error.  Late events of an abandoned turn, a time-out that  *)
(* races the end and retries change nothing about it; only a turn that began   *)
(* while an older run was still under way may take that one's events for its   *)
(* own ("prevents stale events from a previous run from resolving the current  *)
(* run's promise or setting its state").                                       *)
AckIsEarned ==
  \A g \in Turns : turn[g].clean /\ turn[g].report = "ack" =>
    turn[g].ended /\ turn[g].answered /\ ~ turn[g].erred

(* What is posted in a task's name are its own run's messages, in their order, *)
(* none twice and none left out; when it is acked they are all there, although *)
(* flushes come with every turn_end and once more at the end.                  *)
TranscriptIsOwn ==
  \A g \in Turns : turn[g].clean =>
    /\ \A i \in DOMAIN turn[g].posted : turn[g].posted[i] = <<g, i>>
    /\ turn[g].report = "ack" => Len(turn[g].posted) = turn[g].said

(* pi works on the runner's current task and on nothing else, and on nothing   *)
(* while the runner reports or polls, until a drain gives up: what processTask *)
(* leaves behind by a time-out has ended before the next message is sent.      *)
OneAtATime ==
  gaveUp \/ run = NoRun \/ (run.of = generation /\ pc \in {"sending", "turn", "draining"})

(* The poll loop gets through every task whatever pi does with it              *)
(* (waitForSettle: "so the poll loop can never hang forever").                 *)
EveryTaskReported == pc # "polling" ~> pc = "polling"
===============================================================================
