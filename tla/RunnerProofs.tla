------------------------------ MODULE RunnerProofs ------------------------------
(***************************************************************************)
(* What a runner meets: TurnTracker and TurnContext for any number of      *)
(* tasks and messages, and, at the end, LongPoll for any rows, agents,     *)
(* polls and size of the pool.                                             *)
(*                                                                         *)
(* No event names its task, so the proofs rest on what the tracker can     *)
(* conclude from where it stands: a turn that has settled or is resolved   *)
(* has seen its run end (Alone), and while a turn that began with no run   *)
(* under way is active, what the tracker has recorded is what the turn's   *)
(* own run did (Truth).                                                    *)
(* A transcript is made of the captured messages, of which those below the *)
(* flush mark are posted or queued (Told); pi's session ends in the        *)
(* messages of the run under way (Session).                                *)
(***************************************************************************)
EXTENDS TurnContext, LongPoll, FiniteSetTheorems, SequenceTheorems, TLAPS

\* There is a turn wherever there is something of one.
Begun == pc # "polling" \/ postChain # <<>> \/ postCtx.set => generation # 0

(***************************************************************************)
(* Types.                                                                  *)
(***************************************************************************)

\* queueConversationFlush moves its mark to the end of what is captured and
\* queues messages.
LEMMA FlushType ==
  ASSUME TypeOK, NEW set \in BOOLEAN, QueueFlush(set)
  PROVE  /\ postCtx' \in [set : BOOLEAN, postedCount : 0..Len(capturedMessages)]
         /\ postChain' \in Seq(Message)
<1>. DEFINE n == Len(capturedMessages)
<1>1. n \in Nat /\ capturedMessages \in Seq(Captured) /\ postCtx.postedCount \in 0..n
  BY DEF TypeOK
<1>2. postCtx' \in [set : BOOLEAN, postedCount : 0..n]
  BY <1>1 DEF QueueFlush
<1>3. Fresh \in Seq(Captured)
  <2>1. \A i \in (postCtx.postedCount + 1)..n : capturedMessages[i] \in Captured
    BY <1>1, ElementOfSeq
  <2>. QED BY <1>1, <2>1, SubSeqProperties DEF Fresh
<1>. DEFINE messages == [i \in DOMAIN Fresh |-> Fresh[i].message]
<1>4. messages \in Seq(Message)
  <2>1. Len(Fresh) \in Nat /\ DOMAIN Fresh = 1..Len(Fresh)
    BY <1>3
  <2>2. \A i \in 1..Len(Fresh) : Fresh[i].message \in Message
    <3>1. \A i \in 1..Len(Fresh) : Fresh[i] \in Captured
      BY <1>3, ElementOfSeq, Zenon
    <3>. HIDE DEF n, messages
    <3>. QED BY <3>1 DEF Captured
  <2>3. messages \in [1..Len(Fresh) -> Message]
    BY <2>1, <2>2
  <2>. QED BY <2>1, <2>3, SeqDef
<1>5. postChain \in Seq(Message) /\ postChain' = postChain \o messages
  BY Zenon DEF QueueFlush, TypeOK
<1>6. postChain' \in Seq(Message)
  BY <1>4, <1>5, ConcatProperties
<1>. QED BY <1>2, <1>6

\* The history of one turn is updated field by field.
LEMMA TurnFields ==
  ASSUME NEW t \in Turn, NEW b \in BOOLEAN
  PROVE  /\ [t EXCEPT !.clean = b] \in Turn
         /\ [t EXCEPT !.ended = b] \in Turn
         /\ \A said \in 0..MaxMessages, c \in BOOLEAN :
              [t EXCEPT !.said = said, !.answered = b, !.erred = c] \in Turn
         /\ \A posted \in Seq(Message) : [t EXCEPT !.posted = posted] \in Turn
         /\ \A report \in {"none", "ack", "nack"} : [t EXCEPT !.report = report] \in Turn
BY DEF Turn

LEMMA InitTypes == Init => TypeOK /\ Begun
<1>. SUFFICES ASSUME Init PROVE TypeOK /\ Begun
  OBVIOUS
<1>1. \A S : <<>> \in Seq(S) /\ Len(<<>>) = 0
  BY EmptySeq
<1>2. Untaken \in Turn
  BY <1>1, TurnAssumption DEF Untaken, Turn
<1>3. turn \in [Turns -> Turn]
  BY <1>2 DEF Init
<1>4. capturedMessages \in Seq(Captured) /\ postChain \in Seq(Message) /\ Len(capturedMessages) = 0
  BY <1>1 DEF Init
<1>5. postCtx \in [set : BOOLEAN, postedCount : 0..Len(capturedMessages)]
  BY <1>4 DEF Init
<1>6. /\ generation \in 0..MaxTurns /\ activeGeneration \in {0, generation}
      /\ run \in [of : Turns, said : 0..MaxMessages] \union {NoRun}
      /\ pc = "polling" /\ Begun
  BY TurnAssumption DEF Init, Begun
<1>7. /\ errorMessage \in BOOLEAN /\ assistantMessageCompleted \in BOOLEAN
      /\ settled \in BOOLEAN /\ turnDone \in BOOLEAN /\ succeeded \in BOOLEAN /\ gaveUp \in BOOLEAN
  BY Zenon DEF Init
<1>. QED BY <1>3, <1>4, <1>5, <1>6, <1>7 DEF TypeOK

LEMMA CloseType ==
  ASSUME TypeOK, Begun, pc # "polling", NEW verdict \in BOOLEAN, Close(verdict)
  PROVE  TypeOK' /\ Begun'
<1>1. /\ postCtx' \in [set : BOOLEAN, postedCount : 0..Len(capturedMessages)]
      /\ postChain' \in Seq(Message)
  BY FlushType DEF Close
<1>2. /\ pc' = "posting" /\ succeeded' = verdict
      /\ UNCHANGED <<generation, activeGeneration, errorMessage, assistantMessageCompleted,
                     capturedMessages, settled, turnDone, run, turn, gaveUp>>
  BY DEF Close, tracker
<1>3. Begun'
  BY <1>2 DEF Begun
<1>. QED BY <1>1, <1>2, <1>3 DEF TypeOK

\* Every variable keeps its type, and the counters of a turn their bounds.
LEMMA TypeStep == TypeOK /\ Begun /\ [Next]_vars => TypeOK' /\ Begun'
<1>. SUFFICES ASSUME TypeOK, Begun, [Next]_vars PROVE TypeOK' /\ Begun'
  OBVIOUS
<1>. USE TurnAssumption DEF tracker, posting, Turns
<1>0. \A S : <<>> \in Seq(S) /\ Len(<<>>) = 0
  BY EmptySeq
<1>1. ASSUME BeginTurn PROVE TypeOK' /\ Begun'
  <2>1. generation + 1 \in Turns /\ generation' = generation + 1 /\ activeGeneration' = generation'
    BY <1>1 DEF BeginTurn, FreshTracker, NextGeneration, TypeOK
  <2>2. turn' \in [Turns -> Turn]
    <3>1. (run = NoRun) \in BOOLEAN
      OBVIOUS
    <3>2. turn' = [turn EXCEPT ![generation + 1].clean = (run = NoRun)]
      BY <1>1 DEF BeginTurn, FreshTracker
    <3>3. [turn[generation + 1] EXCEPT !.clean = (run = NoRun)] \in Turn
      BY <2>1, <3>1, TurnFields DEF TypeOK
    <3>. QED BY <2>1, <3>2, <3>3 DEF TypeOK
  <2>3. capturedMessages' = <<>> /\ postCtx' = [set |-> TRUE, postedCount |-> 0] /\ postChain' = <<>>
    BY <1>1 DEF BeginTurn, FreshTracker
  <2>4. postCtx' \in [set : BOOLEAN, postedCount : 0..Len(capturedMessages')]
    BY <2>3, <1>0
  <2>5. capturedMessages' \in Seq(Captured) /\ postChain' \in Seq(Message)
    BY <2>3, <1>0
  <2>6. Begun'
    BY <2>1 DEF Begun, TypeOK
  <2>7. generation' \in 0..MaxTurns /\ activeGeneration' \in {0, generation'}
    BY <2>1
  <2>. QED BY <1>1, <2>2, <2>4, <2>5, <2>6, <2>7 DEF BeginTurn, FreshTracker, TypeOK
<1>2. ASSUME StartRun PROVE TypeOK' /\ Begun'
  <2>1. generation \in Turns
    BY <1>2 DEF StartRun, Begun, TypeOK
  <2>2. run' \in [of : Turns, said : 0..MaxMessages]
    BY <1>2, <2>1 DEF StartRun
  <2>. QED BY <1>2, <2>2 DEF StartRun, TypeOK, Begun
<1>3. ASSUME Sent PROVE TypeOK' /\ Begun'
  BY <1>3 DEF Sent, TypeOK, Begun
<1>4. ASSUME SendFails PROVE TypeOK' /\ Begun'
  BY <1>4, CloseType DEF SendFails
<1>5. ASSUME EndOfTurn PROVE TypeOK' /\ Begun'
  BY <1>5, CloseType DEF EndOfTurn, Verdict
<1>6. ASSUME TimeOut PROVE TypeOK' /\ Begun'
  BY <1>6 DEF TimeOut, AfterAbort, TypeOK, Begun
<1>7. ASSUME GiveUp PROVE TypeOK' /\ Begun'
  BY <1>7 DEF GiveUp, TypeOK, Begun
<1>8. ASSUME Drained PROVE TypeOK' /\ Begun'
  BY <1>8, CloseType DEF Drained
<1>9. ASSUME Post PROVE TypeOK' /\ Begun'
  <2>1. generation \in Turns
    BY <1>9 DEF Post, Begun, TypeOK
  <2>2. Head(postChain) \in Message /\ Tail(postChain) \in Seq(Message)
    BY <1>9, HeadTailProperties DEF Post, TypeOK
  <2>3. turn[generation].posted \in Seq(Message)
    BY <2>1 DEF TypeOK, Turn
  <2>4. Append(turn[generation].posted, Head(postChain)) \in Seq(Message)
    BY <2>2, <2>3, AppendProperties
  <2>5. [turn[generation] EXCEPT !.posted = Append(@, Head(postChain))] \in Turn
    BY <2>1, <2>4, TurnFields DEF TypeOK
  <2>6. turn' \in [Turns -> Turn]
    BY <1>9, <2>1, <2>5 DEF Post, TypeOK
  <2>. QED BY <1>9, <2>1, <2>2, <2>6 DEF Post, TypeOK, Begun
<1>10. ASSUME Report PROVE TypeOK' /\ Begun'
  <2>1. generation \in Turns
    BY <1>10 DEF Report, Begun, TypeOK
  <2>2. turn' \in [Turns -> Turn]
    <3>1. PICK report \in {"ack", "nack"} : turn' = [turn EXCEPT ![generation].report = report]
      BY <1>10, Zenon DEF Report
    <3>2. [turn[generation] EXCEPT !.report = report] \in Turn
      BY <2>1, TurnFields DEF TypeOK
    <3>. QED BY <2>1, <3>1, <3>2 DEF TypeOK
  <2>. QED BY <1>10, <2>1, <2>2 DEF Report, TypeOK, Begun
<1>11. ASSUME NEW assistant \in BOOLEAN, NEW failed \in BOOLEAN, MessageEnd(assistant, failed)
       PROVE  TypeOK' /\ Begun'
  <2>. DEFINE message == <<run.of, run.said + 1>>
  <2>1. run \in [of : Turns, said : 0..MaxMessages] /\ run.said + 1 \in 1..MaxMessages
    BY <1>11 DEF MessageEnd, CaptureMessage, RecordAssistantEnd, TypeOK
  <2>2. message \in Message
    BY <2>1 DEF Message
  <2>3. run' \in [of : Turns, said : 0..MaxMessages]
    BY <1>11, <2>1 DEF MessageEnd, CaptureMessage, RecordAssistantEnd
  <2>4. /\ capturedMessages' \in Seq(Captured)
        /\ Len(capturedMessages) \in Nat /\ Len(capturedMessages') \in Nat
        /\ Len(capturedMessages) <= Len(capturedMessages')
    <3>1. CASE activeGeneration = 0
      BY <1>11, <3>1 DEF MessageEnd, CaptureMessage, RecordAssistantEnd, TypeOK
    <3>2. CASE activeGeneration # 0
      <4>1. [gen |-> activeGeneration, message |-> message] \in Captured
        BY <3>2, <2>2 DEF Captured, TypeOK
      <4>2. capturedMessages' = Append(capturedMessages, [gen |-> activeGeneration, message |-> message])
        BY <1>11, <3>2 DEF MessageEnd, CaptureMessage, RecordAssistantEnd
      <4>. QED BY <4>1, <4>2, AppendProperties DEF TypeOK
    <3>. QED BY <3>1, <3>2
  <2>5. postCtx' \in [set : BOOLEAN, postedCount : 0..Len(capturedMessages')]
    BY <1>11, <2>4 DEF MessageEnd, CaptureMessage, RecordAssistantEnd, TypeOK
  <2>6. errorMessage' \in BOOLEAN /\ assistantMessageCompleted' \in BOOLEAN
    BY <1>11, Zenon DEF MessageEnd, CaptureMessage, RecordAssistantEnd
  <2>7. turn' \in [Turns -> Turn]
    <3>1. run.of \in Turns /\ run.said + 1 \in 0..MaxMessages
      BY <2>1
    <3>2. turn' = [turn EXCEPT ![run.of].said = run.said + 1,
                               ![run.of].answered = @ \/ assistant,
                               ![run.of].erred = @ \/ (assistant /\ failed)]
      BY <1>11 DEF MessageEnd, CaptureMessage, RecordAssistantEnd
    <3>3. turn[run.of] \in Turn
      BY <3>1 DEF TypeOK
    <3>4. [turn[run.of] EXCEPT !.said = run.said + 1, !.answered = @ \/ assistant,
                               !.erred = @ \/ (assistant /\ failed)] \in Turn
      BY <3>1, <3>3, TurnFields
    <3>. QED BY <3>1, <3>2, <3>4 DEF TypeOK
  <2>. QED BY <1>11, <2>3, <2>4, <2>5, <2>6, <2>7 DEF MessageEnd, CaptureMessage, RecordAssistantEnd, TypeOK, Begun
<1>12. ASSUME TurnEnd PROVE TypeOK' /\ Begun'
  <2>1. /\ postCtx' \in [set : BOOLEAN, postedCount : 0..Len(capturedMessages)]
        /\ postChain' \in Seq(Message)
    BY <1>12, FlushType DEF TurnEnd
  <2>2. generation # 0
    BY <1>12 DEF TurnEnd, Begun
  <2>. QED BY <1>12, <2>1, <2>2 DEF TurnEnd, TypeOK, Begun
<1>13. ASSUME AgentSettled PROVE TypeOK' /\ Begun'
  <2>1. run.of \in Turns
    BY <1>13 DEF AgentSettled, EndTurn, MarkSettled, TypeOK
  <2>2. turn' \in [Turns -> Turn]
    <3>1. [turn[run.of] EXCEPT !.ended = TRUE] \in Turn
      BY <2>1, TurnFields DEF TypeOK
    <3>. QED BY <1>13, <2>1, <3>1 DEF AgentSettled, EndTurn, MarkSettled, TypeOK
  <2>3. turnDone' \in BOOLEAN
    BY <1>13, Zenon DEF AgentSettled, EndTurn, MarkSettled
  <2>. QED BY <1>13, <2>2, <2>3 DEF AgentSettled, EndTurn, MarkSettled, TypeOK, Begun
<1>14. ASSUME UNCHANGED vars PROVE TypeOK' /\ Begun'
  BY <1>14 DEF vars, TypeOK, Begun
<1>. QED
  BY <1>1, <1>2, <1>3, <1>4, <1>5, <1>6, <1>7, <1>8, <1>9, <1>10, <1>11, <1>12, <1>13, <1>14
  DEF Next

(* Type correctness: generations, message counts and the flush mark stay       *)
(* within their bounds (TurnTracker, TaskPostContext).                         *)
THEOREM TypeCorrect == Spec => []TypeOK
<1>1. Init => TypeOK /\ Begun
  BY InitTypes
<1>2. (TypeOK /\ Begun) /\ [Next]_vars => (TypeOK /\ Begun)'
  BY TypeStep
<1>. QED BY <1>1, <1>2, PTL DEF Spec

(***************************************************************************)
(* One run at a time.                                                      *)
(***************************************************************************)

\* Until a drain gives up, pi works on the current turn or rests, and a turn that
\* has settled or is resolved has seen its run end.
Alone ==
  gaveUp \/
    /\ run = NoRun \/ (run.of = generation /\ pc \in {"sending", "turn", "draining"})
    /\ pc \in {"sending", "turn"} /\ (settled \/ turnDone) => run = NoRun /\ turn[generation].ended

LEMMA AloneStep == TypeOK /\ Begun /\ Alone /\ [Next]_vars => Alone'
<1>. SUFFICES ASSUME TypeOK, Begun, Alone, [Next]_vars PROVE Alone'
  OBVIOUS
<1>. USE DEF tracker, posting
<1>1. ASSUME BeginTurn PROVE Alone'
  BY <1>1 DEF BeginTurn, FreshTracker, Alone
<1>2. ASSUME StartRun PROVE Alone'
  BY <1>2 DEF StartRun, Alone
<1>3. ASSUME Sent PROVE Alone'
  BY <1>3 DEF Sent, Alone
<1>4. ASSUME SendFails PROVE Alone'
  BY <1>4 DEF SendFails, Close, Alone
<1>5. ASSUME EndOfTurn PROVE Alone'
  BY <1>5 DEF EndOfTurn, Close, Alone
<1>6. ASSUME TimeOut PROVE Alone'
  BY <1>6 DEF TimeOut, AfterAbort, Alone
<1>7. ASSUME GiveUp PROVE Alone'
  BY <1>7 DEF GiveUp, Alone
<1>8. ASSUME Drained PROVE Alone'
  BY <1>8 DEF Drained, Close, Alone
<1>9. ASSUME Post PROVE Alone'
  <2>1. generation \in Turns
    BY <1>9 DEF Post, Begun, TypeOK, Turns
  <2>2. turn[generation] \in Turn
    BY <2>1 DEF TypeOK
  <2>3. turn'[generation].ended = turn[generation].ended
    BY <1>9, <2>1, <2>2 DEF Post, TypeOK, Turn
  <2>. QED BY <1>9, <2>3 DEF Post, Alone
<1>10. ASSUME Report PROVE Alone'
  BY <1>10 DEF Report, Alone
<1>11. ASSUME NEW assistant \in BOOLEAN, NEW failed \in BOOLEAN, MessageEnd(assistant, failed)
       PROVE  Alone'
  BY <1>11 DEF MessageEnd, CaptureMessage, RecordAssistantEnd, Alone, TypeOK
<1>12. ASSUME TurnEnd PROVE Alone'
  BY <1>12 DEF TurnEnd, Alone
<1>13. ASSUME AgentSettled PROVE Alone'
  <2>1. run.of \in Turns /\ turn[run.of] \in Turn
    BY <1>13 DEF AgentSettled, EndTurn, MarkSettled, TypeOK
  <2>2. turn'[run.of].ended
    BY <1>13, <2>1 DEF AgentSettled, EndTurn, MarkSettled, TypeOK, Turn
  <2>. QED BY <1>13, <2>2 DEF AgentSettled, EndTurn, MarkSettled, Alone
<1>14. ASSUME UNCHANGED vars PROVE Alone'
  BY <1>14 DEF vars, Alone
<1>. QED
  BY <1>1, <1>2, <1>3, <1>4, <1>5, <1>6, <1>7, <1>8, <1>9, <1>10, <1>11, <1>12, <1>13, <1>14
  DEF Next

(* Until a drain gives up, pi works on the runner's current task and on        *)
(* nothing while the runner reports or polls, for any number of tasks: the     *)
(* drain of processTask is enough to keep an abandoned run away from the next  *)
(* message, whichever of a time-out and the end of the run comes first.        *)
THEOREM OneRunAtATime == Spec => []OneAtATime
<1>1. Init => TypeOK /\ Begun /\ Alone
  <2>1. Init => Alone
    BY DEF Init, Alone
  <2>. QED BY <2>1, InitTypes
<1>2. (TypeOK /\ Begun /\ Alone) /\ [Next]_vars => (TypeOK /\ Begun /\ Alone)'
  BY TypeStep, AloneStep
<1>3. TypeOK /\ Begun /\ Alone => OneAtATime
  BY DEF Alone, OneAtATime
<1>. QED BY <1>1, <1>2, <1>3, PTL DEF Spec

(***************************************************************************)
(* Acks are earned.                                                        *)
(***************************************************************************)

Earned(g) == turn[g].ended /\ turn[g].answered /\ ~ turn[g].erred

\* Turns to come are blank; pi's run is of no later turn and has not ended.
Order ==
  /\ \A g \in Turns : g > generation =>
       ~ turn[g].answered /\ ~ turn[g].erred /\ turn[g].report = "none"
  /\ run # NoRun => run.of <= generation /\ ~ turn[run.of].ended

\* The turn at hand began with no run under way: pi works on it or rests, and what
\* the tracker has recorded is what its run did.
Truth ==
  pc # "polling" /\ turn[generation].clean =>
    /\ run = NoRun \/ run.of = generation
    /\ activeGeneration # 0 \/ turnDone =>
         /\ errorMessage <=> turn[generation].erred
         /\ assistantMessageCompleted <=> turn[generation].answered
    /\ turnDone => turn[generation].ended
    /\ pc = "posting" /\ succeeded => Earned(generation)

AckInv == TypeOK /\ Begun /\ Order /\ Truth /\ AckIsEarned

\* A step that changes neither the history nor the generation.
LEMMA SameHistory ==
  ASSUME AckInv, UNCHANGED <<turn, generation>>
  PROVE  /\ run' \in {run, NoRun} => Order'
         /\ AckIsEarned'
BY DEF AckInv, Order, AckIsEarned

LEMMA AckStep == AckInv /\ [Next]_vars => Order' /\ Truth' /\ AckIsEarned'
<1>. SUFFICES ASSUME AckInv, [Next]_vars PROVE Order' /\ Truth' /\ AckIsEarned'
  OBVIOUS
<1>. USE DEF tracker, posting
<1>0. TypeOK /\ Begun /\ Order /\ Truth /\ AckIsEarned
  BY DEF AckInv
<1>a. \A g \in Turns : turn[g] \in Turn
  BY <1>0 DEF TypeOK
<1>b. pc # "polling" => generation \in Turns
  BY <1>0 DEF TypeOK, Begun, Turns
<1>c. generation \in Nat /\ Turns \subseteq Nat
  BY <1>0, TurnAssumption DEF TypeOK, Turns
<1>1. ASSUME BeginTurn PROVE Order' /\ Truth' /\ AckIsEarned'
  <2>1. generation + 1 \in Turns /\ generation' = generation + 1
    BY <1>1, <1>0, TurnAssumption DEF BeginTurn, FreshTracker, NextGeneration, TypeOK, Turns
  <2>2. /\ \A g \in Turns : /\ turn'[g].answered = turn[g].answered
                            /\ turn'[g].erred = turn[g].erred
                            /\ turn'[g].ended = turn[g].ended
                            /\ turn'[g].report = turn[g].report
        /\ \A g \in Turns \ {generation + 1} : turn'[g] = turn[g]
        /\ turn'[generation + 1].clean <=> run = NoRun
    <3>1. turn' = [turn EXCEPT ![generation + 1].clean = (run = NoRun)]
      BY <1>1 DEF BeginTurn, FreshTracker
    <3>. QED BY <3>1, <2>1, <1>a, <1>0 DEF TypeOK, Turn
  <2>3. run' = run /\ ~ errorMessage' /\ ~ assistantMessageCompleted' /\ ~ turnDone' /\ pc' = "sending"
    BY <1>1 DEF BeginTurn, FreshTracker
  <2>4. Order'
    <3>1. run # NoRun => run.of \in Turns
      BY <1>0 DEF TypeOK
    <3>2. run' # NoRun => run'.of <= generation' /\ ~ turn'[run'.of].ended
      <4>1. SUFFICES ASSUME run # NoRun PROVE run.of <= generation + 1 /\ ~ turn'[run.of].ended
        BY <2>1, <2>3
      <4>2. run.of \in Nat /\ run.of <= generation /\ ~ turn[run.of].ended
        BY <4>1, <3>1, <1>0, <1>c DEF Order
      <4>3. turn'[run.of].ended = turn[run.of].ended
        BY <4>1, <3>1, <2>2
      <4>. QED BY <4>2, <4>3, <1>c
    <3>3. \A g \in Turns : g > generation' => g > generation /\ g # generation + 1
      BY <2>1, <1>c
    <3>4. \A g \in Turns : g > generation' =>
            ~ turn'[g].answered /\ ~ turn'[g].erred /\ turn'[g].report = "none"
      BY <2>2, <3>3, <1>0 DEF Order
    <3>. QED BY <3>2, <3>4 DEF Order
  <2>5. Truth'
    <3>1. ~ turn[generation + 1].answered /\ ~ turn[generation + 1].erred
      BY <2>1, <1>0, <1>c DEF Order
    <3>2. turn'[generation'].clean => run' = NoRun
      BY <2>1, <2>2, <2>3
    <3>3. ~ turn'[generation'].answered /\ ~ turn'[generation'].erred
      BY <2>1, <2>2, <3>1
    <3>. QED BY <2>3, <3>2, <3>3 DEF Truth
  <2>6. AckIsEarned'
    <3>1. turn[generation + 1].report = "none"
      BY <2>1, <1>0, <1>c DEF Order
    <3>2. \A g \in Turns : turn'[g].clean /\ turn'[g].report = "ack" => turn[g].clean /\ turn[g].report = "ack"
      BY <2>1, <2>2, <3>1
    <3>. QED BY <2>2, <3>2, <1>0 DEF AckIsEarned
  <2>. QED BY <2>4, <2>5, <2>6
<1>2. ASSUME StartRun PROVE Order' /\ Truth' /\ AckIsEarned'
  <2>1. run' = [of |-> generation, said |-> 0] /\ generation \in Turns /\ ~ turn[generation].ended
        /\ UNCHANGED <<pc, tracker, succeeded, turn>>
    BY <1>2, <1>b DEF StartRun
  <2>2. Order'
    BY <2>1, <1>0, <1>c DEF Order
  <2>3. Truth'
    BY <2>1, <1>0 DEF Truth, Earned
  <2>. QED BY <2>1, <2>2, <2>3, SameHistory, <1>0 DEF AckInv
<1>3. ASSUME Sent PROVE Order' /\ Truth' /\ AckIsEarned'
  BY <1>3, <1>0, SameHistory DEF Sent, Truth, Earned
<1>4. ASSUME SendFails \/ Drained PROVE Order' /\ Truth' /\ AckIsEarned'
  <2>1. ~ succeeded' /\ pc' = "posting" /\ pc # "polling" /\ UNCHANGED <<tracker, run, turn>>
    BY <1>4 DEF SendFails, Drained, Close
  <2>2. Truth'
    BY <2>1, <1>0 DEF Truth
  <2>. QED BY <2>1, <2>2, SameHistory
<1>5. ASSUME EndOfTurn PROVE Order' /\ Truth' /\ AckIsEarned'
  BY <1>5, <1>0, SameHistory DEF EndOfTurn, Verdict, Close, Truth, Earned
<1>6. ASSUME TimeOut PROVE Order' /\ Truth' /\ AckIsEarned'
  BY <1>6, <1>0, SameHistory DEF TimeOut, AfterAbort, Truth, Earned
<1>7. ASSUME GiveUp PROVE Order' /\ Truth' /\ AckIsEarned'
  BY <1>7, <1>0, SameHistory DEF GiveUp, Truth, Earned
<1>8. ASSUME Post PROVE Order' /\ Truth' /\ AckIsEarned'
  <2>1. generation \in Turns
    BY <1>8, <1>0 DEF Post, Begun, TypeOK, Turns
  <2>2. \A g \in Turns : /\ turn'[g].clean = turn[g].clean
                         /\ turn'[g].answered = turn[g].answered
                         /\ turn'[g].erred = turn[g].erred
                         /\ turn'[g].ended = turn[g].ended
                         /\ turn'[g].report = turn[g].report
    BY <1>8, <2>1, <1>a, <1>0 DEF Post, TypeOK, Turn
  <2>3. UNCHANGED <<pc, tracker, succeeded, run>>
    BY <1>8 DEF Post
  <2>4. Order'
    <3>1. run # NoRun => run.of \in Turns
      BY <1>0 DEF TypeOK
    <3>. QED BY <2>2, <2>3, <3>1, <1>0 DEF Order
  <2>5. Truth'
    BY <2>1, <2>2, <2>3, <1>0 DEF Truth, Earned
  <2>6. AckIsEarned'
    BY <2>2, <1>0 DEF AckIsEarned
  <2>. QED BY <2>4, <2>5, <2>6
<1>9. ASSUME Report PROVE Order' /\ Truth' /\ AckIsEarned'
  <2>1. generation \in Turns /\ pc = "posting" /\ pc' = "polling" /\ UNCHANGED <<run, generation>>
    BY <1>9, <1>b DEF Report
  <2>2. /\ \A g \in Turns : /\ turn'[g].clean = turn[g].clean
                            /\ turn'[g].answered = turn[g].answered
                            /\ turn'[g].erred = turn[g].erred
                            /\ turn'[g].ended = turn[g].ended
        /\ \A g \in Turns \ {generation} : turn'[g].report = turn[g].report
        /\ turn'[generation].report = "ack" => succeeded
    BY <1>9, <2>1, <1>a, <1>0 DEF Report, TypeOK, Turn
  <2>3. Order'
    <3>1. run # NoRun => run.of \in Turns
      BY <1>0 DEF TypeOK
    <3>2. run' # NoRun => run'.of <= generation' /\ ~ turn'[run'.of].ended
      BY <2>1, <2>2, <3>1, <1>0 DEF Order
    <3>3. \A g \in Turns : g > generation' => g > generation /\ g # generation
      BY <2>1, <1>c
    <3>4. \A g \in Turns : g > generation' =>
            ~ turn'[g].answered /\ ~ turn'[g].erred /\ turn'[g].report = "none"
      BY <2>2, <3>3, <1>0 DEF Order
    <3>. QED BY <3>2, <3>4 DEF Order
  <2>4. Truth'
    BY <2>1 DEF Truth
  <2>5. AckIsEarned'
    <3>1. turn[generation].clean /\ succeeded => Earned(generation)
      BY <2>1, <1>0 DEF Truth
    <3>. QED BY <2>1, <2>2, <3>1, <1>0 DEF AckIsEarned, Earned
  <2>. QED BY <2>3, <2>4, <2>5
<1>10. ASSUME NEW assistant \in BOOLEAN, NEW failed \in BOOLEAN, MessageEnd(assistant, failed)
       PROVE  Order' /\ Truth' /\ AckIsEarned'
  <2>. DEFINE h == run.of
  <2>1. /\ h \in Turns /\ h <= generation /\ ~ turn[h].ended
        /\ run # NoRun /\ run' # NoRun /\ run'.of = h
    BY <1>10, <1>0, TurnAssumption DEF MessageEnd, CaptureMessage, RecordAssistantEnd, TypeOK, Order, Turns, NoRun
  <2>2. /\ \A g \in Turns : /\ turn'[g].clean = turn[g].clean
                            /\ turn'[g].ended = turn[g].ended
                            /\ turn'[g].report = turn[g].report
        /\ \A g \in Turns \ {h} : turn'[g] = turn[g]
        /\ turn'[h].answered <=> turn[h].answered \/ assistant
        /\ turn'[h].erred <=> turn[h].erred \/ (assistant /\ failed)
    <3>1. turn' = [turn EXCEPT ![h].said = run.said + 1,
                               ![h].answered = @ \/ assistant,
                               ![h].erred = @ \/ (assistant /\ failed)]
      BY <1>10 DEF MessageEnd, CaptureMessage, RecordAssistantEnd
    <3>. HIDE DEF h
    <3>2. turn[h] \in Turn
      BY <2>1, <1>a
    <3>. QED BY <3>1, <3>2, <2>1, <1>0 DEF TypeOK, Turn
  <2>. HIDE DEF h
  <2>3. UNCHANGED <<pc, generation, activeGeneration, turnDone, succeeded>>
    BY <1>10 DEF MessageEnd, CaptureMessage, RecordAssistantEnd
  <2>4. /\ assistantMessageCompleted' <=> assistantMessageCompleted \/ (activeGeneration # 0 /\ assistant)
        /\ errorMessage' <=> errorMessage \/ (activeGeneration # 0 /\ assistant /\ failed)
    BY <1>10, Zenon DEF MessageEnd, CaptureMessage, RecordAssistantEnd
  <2>5. Order'
    BY <2>1, <2>2, <2>3, <1>0, <1>c DEF Order
  <2>6. Truth'
    <3>1. SUFFICES ASSUME pc # "polling", turn[generation].clean
                   PROVE  Truth'
      BY <2>2, <2>3, <1>b DEF Truth
    <3>2. h = generation
      BY <3>1, <2>1, <1>0 DEF Truth, h
    <3>3. ~ turnDone /\ ~ (pc = "posting" /\ succeeded)
      BY <3>1, <3>2, <2>1, <1>0 DEF Truth, Earned
    <3>4. activeGeneration # 0 =>
            /\ errorMessage' <=> turn'[generation].erred
            /\ assistantMessageCompleted' <=> turn'[generation].answered
      BY <3>1, <3>2, <2>2, <2>4, <1>0 DEF Truth
    <3>. QED BY <3>2, <3>3, <3>4, <2>1, <2>3 DEF Truth
  <2>7. AckIsEarned'
    BY <2>1, <2>2, <1>0 DEF AckIsEarned
  <2>. QED BY <2>5, <2>6, <2>7
<1>11. ASSUME TurnEnd PROVE Order' /\ Truth' /\ AckIsEarned'
  BY <1>11, <1>0, SameHistory DEF TurnEnd, Truth, Earned
<1>12. ASSUME AgentSettled PROVE Order' /\ Truth' /\ AckIsEarned'
  <2>. DEFINE h == run.of
  <2>1. h \in Turns /\ run # NoRun /\ run' = NoRun
    BY <1>12, <1>0 DEF AgentSettled, EndTurn, MarkSettled, TypeOK
  <2>2. /\ \A g \in Turns : /\ turn'[g].clean = turn[g].clean
                            /\ turn'[g].answered = turn[g].answered
                            /\ turn'[g].erred = turn[g].erred
                            /\ turn'[g].report = turn[g].report
        /\ \A g \in Turns \ {h} : turn'[g].ended = turn[g].ended
        /\ turn'[h].ended
    <3>1. turn' = [turn EXCEPT ![h].ended = TRUE]
      BY <1>12 DEF AgentSettled, EndTurn, MarkSettled
    <3>. HIDE DEF h
    <3>. QED BY <3>1, <2>1, <1>a, <1>0 DEF TypeOK, Turn
  <2>3. /\ UNCHANGED <<generation, errorMessage, assistantMessageCompleted, succeeded>>
        /\ activeGeneration' = 0
        /\ pc' = "polling" <=> pc = "polling"
        /\ pc' = "posting" <=> pc = "posting"
    BY <1>12 DEF AgentSettled, EndTurn, MarkSettled
  <2>4. turnDone' <=> turnDone \/ activeGeneration # 0
    BY <1>12, Zenon DEF AgentSettled, EndTurn, MarkSettled
  <2>5. Order'
    BY <2>1, <2>2, <2>3, <1>0 DEF Order
  <2>6. Truth'
    <3>1. SUFFICES ASSUME pc # "polling", turn[generation].clean
                   PROVE  Truth'
      BY <2>2, <2>3, <1>b DEF Truth
    <3>2. h = generation
      BY <3>1, <2>1, <1>0 DEF Truth
    <3>. HIDE DEF h
    <3>. QED BY <3>1, <3>2, <2>1, <2>2, <2>3, <2>4, <1>0 DEF Truth, Earned
  <2>7. AckIsEarned'
    <3>1. \A g \in Turns : turn[g].ended => turn'[g].ended
      BY <2>2
    <3>. QED BY <3>1, <2>2, <1>0 DEF AckIsEarned
  <2>. QED BY <2>5, <2>6, <2>7
<1>13. ASSUME UNCHANGED vars PROVE Order' /\ Truth' /\ AckIsEarned'
  BY <1>13, <1>0, SameHistory DEF vars, Truth, Earned
<1>. QED
  BY <1>1, <1>2, <1>3, <1>4, <1>5, <1>6, <1>7, <1>8, <1>9, <1>10, <1>11, <1>12, <1>13
  DEF Next

(* For any number of tasks, a task that began with no run under way is acked   *)
(* only if its own run ended, answered and answered no error: late events,     *)
(* time-outs that race the end and refused messages do not get a task acked    *)
(* (processTask's verdict on what the tracker has recorded).                   *)
THEOREM AcksAreEarned == Spec => []AckIsEarned
<1>1. Init => AckInv
  <2>1. Init => Order /\ Truth /\ AckIsEarned
    BY DEF Init, Order, Truth, AckIsEarned, Untaken
  <2>. QED BY <2>1, InitTypes DEF AckInv
<1>2. AckInv /\ [Next]_vars => AckInv'
  BY TypeStep, AckStep DEF AckInv
<1>3. AckInv => AckIsEarned
  BY DEF AckInv
<1>. QED BY <1>1, <1>2, <1>3, PTL DEF Spec

(***************************************************************************)
(* Transcripts are a task's own.                                           *)
(***************************************************************************)

\* Between two tasks nothing is left to post, and the turn at hand is unreported.
Quiet ==
  /\ pc = "polling" => postChain = <<>>
  /\ pc \in {"posting", "polling"} => ~ postCtx.set
  /\ pc # "polling" => turn[generation].report = "none"

\* A turn to come is as it began; what pi's run has said is known, and nothing was
\* said in a turn whose run has not begun.
Heard ==
  /\ \A g \in Turns : g > generation => turn[g] = Untaken
  /\ run # NoRun => run.said = turn[run.of].said
  /\ \A g \in Turns : turn[g].said = 0 \/ turn[g].ended \/ run.of = g

\* The turn at hand began with no run under way: its messages are captured one by
\* one, those below the flush mark are posted or queued, in their order.
Told ==
  LET posted == turn[generation].posted
  IN pc # "polling" /\ turn[generation].clean =>
       /\ \A i \in 1..Len(capturedMessages) : capturedMessages[i].message = <<generation, i>>
       /\ activeGeneration # 0 \/ turnDone => Len(capturedMessages) = turn[generation].said
       /\ Len(posted) + Len(postChain) = postCtx.postedCount
       /\ \A i \in 1..Len(posted) : posted[i] = <<generation, i>>
       /\ \A i \in 1..Len(postChain) : postChain[i] = <<generation, Len(posted) + i>>
       /\ pc = "posting" /\ succeeded => postCtx.postedCount = turn[generation].said

TranscriptInv == AckInv /\ Quiet /\ Heard /\ Told /\ TranscriptIsOwn

\* What a flush queues follows what was queued before it.
LEMMA FlushTold ==
  ASSUME TypeOK, Told, pc # "polling", generation \in Turns, turn[generation].clean,
         NEW set \in BOOLEAN, QueueFlush(set)
  PROVE  /\ postCtx' = [set |-> set, postedCount |-> Len(capturedMessages)]
         /\ Len(turn[generation].posted) + Len(postChain') = Len(capturedMessages)
         /\ \A i \in 1..Len(postChain') :
              postChain'[i] = <<generation, Len(turn[generation].posted) + i>>
<1>1. /\ capturedMessages \in Seq(Captured) /\ Len(capturedMessages) \in Nat
      /\ postCtx.postedCount \in 0..Len(capturedMessages)
      /\ postChain \in Seq(Message) /\ Len(postChain) \in Nat
  BY DEF TypeOK
<1>2. Len(turn[generation].posted) \in Nat
  <2>1. turn[generation] \in Turn
    BY DEF TypeOK
  <2>. QED BY <2>1 DEF Turn
<1>3. /\ \A i \in 1..Len(capturedMessages) : capturedMessages[i].message = <<generation, i>>
      /\ Len(turn[generation].posted) + Len(postChain) = postCtx.postedCount
      /\ \A i \in 1..Len(postChain) : postChain[i] = <<generation, Len(turn[generation].posted) + i>>
  BY DEF Told
<1>4. PICK n, c, k, q, all, chain, rest, messages, new :
        /\ n = Len(capturedMessages) /\ c = postCtx.postedCount
        /\ k = Len(turn[generation].posted) /\ q = Len(postChain)
        /\ all = capturedMessages /\ chain = postChain /\ rest = Fresh
        /\ messages = [i \in DOMAIN Fresh |-> Fresh[i].message]
        /\ new = postChain'
  OBVIOUS
<1>5. messages = [i \in DOMAIN rest |-> rest[i].message]
  BY <1>4
<1>a. rest = SubSeq(all, c + 1, n)
  BY <1>4 DEF Fresh
<1>b. new = chain \o messages
  BY <1>4 DEF QueueFlush
<1>6. /\ n \in Nat /\ c \in 0..n /\ k \in Nat /\ q \in Nat /\ k + q = c
      /\ all \in Seq(Captured) /\ Len(all) = n
      /\ chain \in Seq(Message) /\ Len(chain) = q
  BY <1>1, <1>2, <1>3, <1>4
<1>7. /\ \A i \in 1..n : all[i].message = <<generation, i>>
      /\ \A i \in 1..q : chain[i] = <<generation, k + i>>
  BY <1>3, <1>4
<1>8. k + Len(new) = n /\ \A i \in 1..Len(new) : new[i] = <<generation, k + i>>
  <2>1. /\ rest \in Seq(Captured) /\ Len(rest) = n - c
        /\ \A i \in 1..(n - c) : rest[i] = all[c + i]
    <3>1. \A i \in (c + 1)..n : all[i] \in Captured
      BY <1>6, ElementOfSeq
    <3>2. /\ rest \in Seq(Captured)
          /\ Len(rest) = IF c + 1 <= n THEN n - (c + 1) + 1 ELSE 0
          /\ \A i \in 1..(n - (c + 1) + 1) : rest[i] = all[(c + 1) + i - 1]
      <4>1. c + 1 \in Int /\ n \in Int
        BY <1>6
      <4>. QED BY ONLY <3>1, <4>1, SubSeqProperties, <1>a
    <3>3. n - (c + 1) + 1 = n - c /\ \A i \in Int : (c + 1) + i - 1 = c + i
      BY <1>6
    <3>4. Len(rest) = n - c
      BY ONLY <3>2, <1>6
    <3>5. \A i \in 1..(n - c) : rest[i] = all[c + i]
      BY ONLY <1>6, <3>2, <3>3
    <3>. QED BY ONLY <3>2, <3>4, <3>5
  <2>2. \A i \in 1..(n - c) : messages[i] = <<generation, c + i>>
    <3>1. SUFFICES ASSUME NEW i \in 1..(n - c) PROVE messages[i] = <<generation, c + i>>
      OBVIOUS
    <3>2. c + i \in 1..n /\ i \in DOMAIN rest
      BY <1>6, <2>1
    <3>3. messages[i] = all[c + i].message
      BY <1>5, <2>1, <3>2
    <3>. QED BY <1>7, <3>2, <3>3
  <2>3. messages \in Seq(Message) /\ Len(messages) = n - c
    <3>1. DOMAIN rest = 1..(n - c) /\ n - c \in Nat
      BY <1>6, <2>1
    <3>2. \A i \in 1..(n - c) : messages[i] \in Message
      <4>1. SUFFICES ASSUME NEW i \in 1..(n - c) PROVE messages[i] \in Message
        OBVIOUS
      <4>2. rest[i] \in Captured
        BY <2>1, ElementOfSeq
      <4>. QED BY <1>5, <3>1, <4>2 DEF Captured
    <3>3. messages \in [1..(n - c) -> Message]
      BY <1>5, <3>1, <3>2
    <3>4. messages \in Seq(Message)
      BY ONLY <3>1, <3>3, SeqDef
    <3>5. Len(messages) = n - c
      <4>1. DOMAIN messages = 1..(n - c)
        BY ONLY <3>3
      <4>2. DOMAIN messages = 1..Len(messages) /\ Len(messages) \in Nat
        BY ONLY <3>4, LenProperties
      <4>. QED BY ONLY <3>1, <4>1, <4>2
    <3>. QED BY <3>4, <3>5
  <2>4. /\ Len(new) = q + (n - c)
        /\ \A i \in 1..(q + (n - c)) : new[i] = IF i <= q THEN chain[i] ELSE messages[i - q]
    <3>1. /\ Len(new) = Len(chain) + Len(messages)
          /\ \A i \in 1..(Len(chain) + Len(messages)) :
               new[i] = IF i <= Len(chain) THEN chain[i] ELSE messages[i - Len(chain)]
      <4>1. chain \in Seq(Message) /\ messages \in Seq(Message)
        BY <1>6, <2>3
      <4>. QED BY ONLY <1>b, <4>1, ConcatProperties
    <3>. QED BY ONLY <1>6, <2>3, <3>1
  <2>5. \A i \in 1..Len(new) : new[i] = <<generation, k + i>>
    <3>1. SUFFICES ASSUME NEW i \in 1..(q + (n - c)) PROVE new[i] = <<generation, k + i>>
      BY <2>4
    <3>2. CASE i <= q
      <4>1. i \in 1..q
        BY <1>6, <3>1, <3>2
      <4>. QED BY ONLY <1>6, <1>7, <3>1, <3>2, <4>1, <2>4
    <3>3. CASE i > q
      <4>1. i - q \in 1..(n - c) /\ c + (i - q) = k + i
        BY ONLY <3>1, <3>3, <1>6
      <4>2. new[i] = messages[i - q]
        BY ONLY <3>1, <3>3, <1>6, <2>4
      <4>. QED BY ONLY <4>1, <4>2, <2>2
    <3>4. i \in Int /\ q \in Int
      BY <1>6
    <3>. QED BY ONLY <3>2, <3>3, <3>4
  <2>6. k + Len(new) = n
    BY ONLY <1>6, <2>4
  <2>. QED BY <2>5, <2>6
<1>9. postCtx' = [set |-> set, postedCount |-> Len(capturedMessages)]
  BY DEF QueueFlush
<1>. QED BY <1>4, <1>8, <1>9

LEMMA TranscriptStep ==
  TranscriptInv /\ [Next]_vars => Quiet' /\ Heard' /\ Told' /\ TranscriptIsOwn'
<1>. SUFFICES ASSUME TranscriptInv, [Next]_vars
              PROVE  Quiet' /\ Heard' /\ Told' /\ TranscriptIsOwn'
  OBVIOUS
<1>. USE DEF tracker, posting
<1>0. /\ TypeOK /\ Begun /\ Order /\ Truth /\ AckIsEarned
      /\ Quiet /\ Heard /\ Told /\ TranscriptIsOwn
  BY DEF TranscriptInv, AckInv
<1>a. \A g \in Turns : /\ turn[g] \in Turn
                       /\ turn[g].posted \in Seq(Message) /\ Len(turn[g].posted) \in Nat
  BY <1>0 DEF TypeOK, Turn
<1>b. pc # "polling" => generation \in Turns
  BY <1>0 DEF TypeOK, Begun, Turns
<1>c. generation \in Nat /\ Turns \subseteq Nat /\ 0 \notin Turns
  BY <1>0, TurnAssumption DEF TypeOK, Turns
<1>d. run # NoRun => run.of \in Turns /\ run.of <= generation /\ ~ turn[run.of].ended
  BY <1>0 DEF TypeOK, Order
<1>1. ASSUME BeginTurn PROVE Quiet' /\ Heard' /\ Told' /\ TranscriptIsOwn'
  <2>1. generation + 1 \in Turns /\ generation' = generation + 1
    BY <1>1, <1>0, TurnAssumption DEF BeginTurn, FreshTracker, NextGeneration, TypeOK, Turns
  <2>2. PICK B \in BOOLEAN : turn' = [turn EXCEPT ![generation + 1].clean = B]
    BY <1>1, Zenon DEF BeginTurn, FreshTracker
  <2>3. turn[generation + 1] = Untaken
    BY <2>1, <1>0, <1>c DEF Heard
  <2>4. /\ \A g \in Turns \ {generation + 1} : turn'[g] = turn[g]
        /\ turn'[generation + 1].said = 0 /\ turn'[generation + 1].posted = <<>>
        /\ turn'[generation + 1].report = "none"
    BY <2>1, <2>2, <2>3, <1>0, <1>a DEF TypeOK, Untaken
  <2>5. /\ run' = run /\ pc' = "sending" /\ capturedMessages' = <<>> /\ postChain' = <<>>
        /\ postCtx' = [set |-> TRUE, postedCount |-> 0]
    BY <1>1 DEF BeginTurn, FreshTracker
  <2>6. Quiet'
    BY <2>1, <2>4, <2>5 DEF Quiet
  <2>7. Heard'
    <3>1. \A g \in Turns : g > generation' => turn'[g] = Untaken
      <4>1. \A g \in Turns : g > generation' => g > generation /\ g # generation + 1
        BY <2>1, <1>c
      <4>. QED BY <4>1, <2>4, <1>0 DEF Heard
    <3>2. run' # NoRun => run'.said = turn'[run'.of].said
      <4>1. SUFFICES ASSUME run # NoRun PROVE run.said = turn'[run.of].said
        BY <2>5
      <4>2. run.of \in Turns \ {generation + 1}
        BY <4>1, <1>c, <1>d
      <4>. QED BY <4>1, <4>2, <2>4, <1>0 DEF Heard
    <3>3. \A g \in Turns : turn'[g].said = 0 \/ turn'[g].ended \/ run'.of = g
      BY <2>4, <2>5, <1>0 DEF Heard
    <3>. QED BY <3>1, <3>2, <3>3 DEF Heard
  <2>8. Told'
    <3>1. Len(<<>>) = 0
      OBVIOUS
    <3>. QED BY <2>1, <2>4, <2>5, <3>1 DEF Told
  <2>9. TranscriptIsOwn'
    <3>1. DOMAIN <<>> = {}
      OBVIOUS
    <3>. QED BY <2>1, <2>4, <3>1, <1>0 DEF TranscriptIsOwn
  <2>. QED BY <2>6, <2>7, <2>8, <2>9
<1>2. ASSUME StartRun PROVE Quiet' /\ Heard' /\ Told' /\ TranscriptIsOwn'
  <2>1. /\ run' = [of |-> generation, said |-> 0] /\ run = NoRun
        /\ generation \in Turns /\ ~ turn[generation].ended
        /\ UNCHANGED <<pc, tracker, posting, succeeded, turn>>
    BY <1>2, <1>b DEF StartRun
  <2>2. \A g \in Turns : turn[g].said = 0 \/ turn[g].ended
    BY <2>1, <1>0, <1>c DEF Heard, NoRun
  <2>3. Heard'
    BY <2>1, <2>2, <1>0 DEF Heard
  <2>. QED BY <2>1, <2>3, <1>0 DEF Quiet, Told, TranscriptIsOwn
<1>3. ASSUME Sent PROVE Quiet' /\ Heard' /\ Told' /\ TranscriptIsOwn'
  BY <1>3, <1>0 DEF Sent, Quiet, Heard, Told, TranscriptIsOwn
<1>4. ASSUME NEW verdict \in BOOLEAN, Close(verdict), pc # "polling",
             verdict /\ turn[generation].clean => Len(capturedMessages) = turn[generation].said
      PROVE  Quiet' /\ Heard' /\ Told' /\ TranscriptIsOwn'
  <2>1. /\ succeeded' = verdict /\ pc' = "posting" /\ QueueFlush(FALSE)
        /\ UNCHANGED <<tracker, run, turn>>
    BY <1>4 DEF Close
  <2>2. postCtx' = [set |-> FALSE, postedCount |-> Len(capturedMessages)]
    BY <2>1 DEF QueueFlush
  <2>3. Quiet'
    BY <1>4, <2>1, <2>2, <1>0 DEF Quiet
  <2>4. Told'
    <3>1. CASE ~ turn[generation].clean
      BY <3>1, <2>1 DEF Told
    <3>2. CASE turn[generation].clean
      <4>1. /\ Len(turn[generation].posted) + Len(postChain') = Len(capturedMessages)
            /\ \A i \in 1..Len(postChain') :
                 postChain'[i] = <<generation, Len(turn[generation].posted) + i>>
        BY <3>2, <1>4, <1>0, <1>b, <2>1, FlushTold
      <4>2. /\ \A i \in 1..Len(capturedMessages) : capturedMessages[i].message = <<generation, i>>
            /\ activeGeneration # 0 \/ turnDone => Len(capturedMessages) = turn[generation].said
            /\ \A i \in 1..Len(turn[generation].posted) : turn[generation].posted[i] = <<generation, i>>
        BY <3>2, <1>4, <1>0 DEF Told
      <4>. QED BY <3>2, <4>1, <4>2, <2>1, <2>2, <1>4 DEF Told
    <3>. QED BY <3>1, <3>2
  <2>. QED BY <2>1, <2>3, <2>4, <1>0 DEF Heard, TranscriptIsOwn
<1>5. ASSUME SendFails \/ Drained PROVE Quiet' /\ Heard' /\ Told' /\ TranscriptIsOwn'
  BY <1>4, <1>5 DEF SendFails, Drained
<1>6. ASSUME EndOfTurn PROVE Quiet' /\ Heard' /\ Told' /\ TranscriptIsOwn'
  <2>1. pc = "turn" /\ turnDone /\ Close(Verdict) /\ Verdict \in BOOLEAN
    BY <1>6 DEF EndOfTurn, Verdict
  <2>2. turn[generation].clean => Len(capturedMessages) = turn[generation].said
    BY <2>1, <1>0 DEF Told
  <2>. QED BY <2>1, <2>2, <1>4
<1>7. ASSUME TimeOut PROVE Quiet' /\ Heard' /\ Told' /\ TranscriptIsOwn'
  <2>1. /\ pc = "turn" /\ ~ turnDone /\ activeGeneration' = 0 /\ pc' \in {"drained", "draining"}
        /\ UNCHANGED <<generation, capturedMessages, turnDone, posting, succeeded, run, turn>>
    BY <1>7 DEF TimeOut, AfterAbort
  <2>. QED BY <2>1, <1>0 DEF Quiet, Heard, Told, TranscriptIsOwn
<1>8. ASSUME GiveUp PROVE Quiet' /\ Heard' /\ Told' /\ TranscriptIsOwn'
  BY <1>8, <1>0 DEF GiveUp, Quiet, Heard, Told, TranscriptIsOwn
<1>9. ASSUME Post PROVE Quiet' /\ Heard' /\ Told' /\ TranscriptIsOwn'
  <2>1. /\ postChain # <<>> /\ pc # "polling" /\ generation \in Turns
        /\ postChain' = Tail(postChain)
        /\ UNCHANGED <<pc, tracker, postCtx, succeeded, run>>
    BY <1>9, <1>0, <1>b DEF Post, Quiet
  <2>2. PICK old, new : /\ old = turn[generation].posted /\ new = Append(old, Head(postChain))
                        /\ turn' = [turn EXCEPT ![generation].posted = new]
    BY <1>9, Zenon DEF Post
  <2>3. /\ \A g \in Turns \ {generation} : turn'[g] = turn[g]
        /\ turn'[generation].clean = turn[generation].clean
        /\ turn'[generation].said = turn[generation].said
        /\ turn'[generation].ended = turn[generation].ended
        /\ turn'[generation].report = turn[generation].report
        /\ turn'[generation].posted = new
    BY <2>1, <2>2, <1>a, <1>0 DEF TypeOK, Turn
  <2>4. /\ old \in Seq(Message) /\ Len(old) \in Nat /\ Head(postChain) \in Message
        /\ postChain \in Seq(Message) /\ Len(postChain) \in Nat /\ Len(postChain) >= 1
        /\ Len(postChain') = Len(postChain) - 1
        /\ \A i \in 1..Len(postChain') : postChain'[i] = postChain[i + 1]
    <3>1. old \in Seq(Message) /\ Len(old) \in Nat
      BY <2>1, <2>2, <1>a
    <3>2. postChain \in Seq(Message) /\ Len(postChain) \in Nat /\ Len(postChain) >= 1
      BY <2>1, <1>0 DEF TypeOK
    <3>. QED BY <2>1, <3>1, <3>2, HeadTailProperties
  <2>5. /\ Len(new) = Len(old) + 1
        /\ \A i \in 1..Len(old) : new[i] = old[i]
        /\ new[Len(old) + 1] = Head(postChain) /\ new \in Seq(Message)
    BY <2>2, <2>4, AppendProperties
  <2>6. turn[generation].clean =>
          /\ \A i \in 1..Len(new) : new[i] = <<generation, i>>
          /\ \A i \in 1..Len(postChain') : postChain'[i] = <<generation, Len(new) + i>>
          /\ Len(new) + Len(postChain') = postCtx.postedCount
    <3>1. SUFFICES ASSUME turn[generation].clean
                   PROVE  /\ \A i \in 1..Len(new) : new[i] = <<generation, i>>
                          /\ \A i \in 1..Len(postChain') : postChain'[i] = <<generation, Len(new) + i>>
                          /\ Len(new) + Len(postChain') = postCtx.postedCount
      OBVIOUS
    <3>2. /\ Len(old) + Len(postChain) = postCtx.postedCount
          /\ \A i \in 1..Len(old) : old[i] = <<generation, i>>
          /\ \A i \in 1..Len(postChain) : postChain[i] = <<generation, Len(old) + i>>
      BY <3>1, <2>1, <2>2, <1>0 DEF Told
    <3>3. Head(postChain) = <<generation, Len(old) + 1>>
      <4>1. Head(postChain) = postChain[1] /\ 1 \in 1..Len(postChain)
        BY ONLY <2>4
      <4>. QED BY ONLY <4>1, <3>2
    <3>4. \A i \in 1..Len(new) : new[i] = <<generation, i>>
      <4>1. SUFFICES ASSUME NEW i \in 1..Len(new) PROVE new[i] = <<generation, i>>
        OBVIOUS
      <4>2. i \in 1..Len(old) \/ i = Len(old) + 1
        BY <2>4, <2>5
      <4>3. CASE i \in 1..Len(old)
        BY ONLY <4>3, <2>5, <3>2
      <4>4. CASE i = Len(old) + 1
        BY ONLY <4>4, <2>5, <3>3
      <4>. QED BY ONLY <4>2, <4>3, <4>4
    <3>5. \A i \in 1..Len(postChain') : postChain'[i] = <<generation, Len(new) + i>>
      <4>1. SUFFICES ASSUME NEW i \in 1..Len(postChain') PROVE postChain'[i] = <<generation, Len(new) + i>>
        OBVIOUS
      <4>2. i + 1 \in 1..Len(postChain) /\ Len(old) + (i + 1) = Len(new) + i
        BY <2>4, <2>5
      <4>. QED BY <4>2, <2>4, <3>2
    <3>6. Len(new) + Len(postChain') = postCtx.postedCount
      BY ONLY <2>4, <2>5, <3>2
    <3>. QED BY <3>4, <3>5, <3>6
  <2>7. Quiet'
    BY <2>1, <2>3, <1>0 DEF Quiet
  <2>8. Heard'
    <3>1. \A g \in Turns : turn'[g].said = turn[g].said /\ turn'[g].ended = turn[g].ended
      BY <2>3
    <3>2. \A g \in Turns : g > generation => g # generation
      BY <1>c
    <3>. QED BY <2>1, <2>3, <3>1, <3>2, <1>d, <1>0 DEF Heard
  <2>9. Told'
    <3>1. turn[generation].clean =>
            /\ \A i \in 1..Len(capturedMessages) : capturedMessages[i].message = <<generation, i>>
            /\ activeGeneration # 0 \/ turnDone => Len(capturedMessages) = turn[generation].said
            /\ pc = "posting" /\ succeeded => postCtx.postedCount = turn[generation].said
      BY <2>1, <1>0 DEF Told
    <3>. QED BY <2>1, <2>3, <2>6, <3>1 DEF Told
  <2>10. TranscriptIsOwn'
    <3>1. turn[generation].report = "none"
      BY <2>1, <1>0 DEF Quiet
    <3>2. DOMAIN new = 1..Len(new)
      BY <2>5
    <3>. QED BY <2>1, <2>3, <2>6, <3>1, <3>2, <1>0 DEF TranscriptIsOwn
  <2>. QED BY <2>7, <2>8, <2>9, <2>10
<1>10. ASSUME Report PROVE Quiet' /\ Heard' /\ Told' /\ TranscriptIsOwn'
  <2>1. /\ pc = "posting" /\ pc' = "polling" /\ postChain = <<>> /\ generation \in Turns
        /\ UNCHANGED <<tracker, posting, succeeded, run>>
    BY <1>10, <1>b DEF Report
  <2>2. PICK verdict \in {"ack", "nack"} :
          /\ turn' = [turn EXCEPT ![generation].report = verdict]
          /\ verdict = "ack" => succeeded
    BY <1>10, Zenon DEF Report
  <2>3. /\ \A g \in Turns \ {generation} : turn'[g] = turn[g]
        /\ turn'[generation].clean = turn[generation].clean
        /\ turn'[generation].said = turn[generation].said
        /\ turn'[generation].ended = turn[generation].ended
        /\ turn'[generation].posted = turn[generation].posted
        /\ turn'[generation].report = verdict
    BY <2>1, <2>2, <1>a, <1>0 DEF TypeOK, Turn
  <2>4. Quiet'
    BY <2>1, <1>0 DEF Quiet
  <2>5. Heard'
    <3>1. \A g \in Turns : turn'[g].said = turn[g].said /\ turn'[g].ended = turn[g].ended
      BY <2>3
    <3>2. \A g \in Turns : g > generation => g # generation
      BY <1>c
    <3>. QED BY <2>1, <2>3, <3>1, <3>2, <1>d, <1>0 DEF Heard
  <2>6. Told'
    BY <2>1 DEF Told
  <2>7. TranscriptIsOwn'
    <3>1. SUFFICES ASSUME turn[generation].clean
                   PROVE  LET posted == turn[generation].posted
                          IN /\ \A i \in DOMAIN posted : posted[i] = <<generation, i>>
                             /\ verdict = "ack" => Len(posted) = turn[generation].said
      BY <2>1, <2>3, <1>0 DEF TranscriptIsOwn
    <3>2. /\ \A i \in 1..Len(turn[generation].posted) : turn[generation].posted[i] = <<generation, i>>
          /\ Len(turn[generation].posted) + Len(postChain) = postCtx.postedCount
          /\ succeeded => postCtx.postedCount = turn[generation].said
      BY <3>1, <2>1, <1>0 DEF Told
    <3>3. Len(postChain) = 0 /\ Len(turn[generation].posted) \in Nat
          /\ DOMAIN turn[generation].posted = 1..Len(turn[generation].posted)
      BY <2>1, <1>a
    <3>4. PICK posted : posted = turn[generation].posted
      OBVIOUS
    <3>. QED BY ONLY <3>2, <3>3, <3>4, <2>1, <2>2
  <2>. QED BY <2>4, <2>5, <2>6, <2>7
<1>11. ASSUME NEW assistant \in BOOLEAN, NEW failed \in BOOLEAN, MessageEnd(assistant, failed)
       PROVE  Quiet' /\ Heard' /\ Told' /\ TranscriptIsOwn'
  <2>1. PICK h, n : h = run.of /\ n = run.said + 1
    OBVIOUS
  <2>2. /\ h \in Turns /\ h <= generation /\ ~ turn[h].ended /\ run # NoRun
        /\ run.said = turn[h].said /\ run.said \in Nat /\ h # 0
    <3>1. run # NoRun
      BY <1>11 DEF MessageEnd
    <3>. QED BY <3>1, <2>1, <1>0, <1>c, <1>d, TurnAssumption DEF TypeOK, Heard
  <2>3. run'.of = h /\ run'.said = n /\ run' # NoRun
    <3>1. run' = [run EXCEPT !.said = @ + 1]
      BY <1>11 DEF MessageEnd
    <3>2. run \in [of : Turns, said : 0..MaxMessages]
      BY <2>2, <1>0 DEF TypeOK
    <3>. QED BY <3>1, <3>2, <2>1, <2>2 DEF NoRun
  <2>4. turn' = [turn EXCEPT ![h].said = n, ![h].answered = @ \/ assistant,
                             ![h].erred = @ \/ (assistant /\ failed)]
    BY <1>11, <2>1, Zenon DEF MessageEnd
  <2>5. /\ \A g \in Turns \ {h} : turn'[g] = turn[g]
        /\ turn'[h].clean = turn[h].clean /\ turn'[h].ended = turn[h].ended
        /\ turn'[h].posted = turn[h].posted /\ turn'[h].report = turn[h].report
        /\ turn'[h].said = n
    <3>1. turn[h] \in Turn
      BY <2>2, <1>a
    <3>. QED BY <2>2, <2>4, <3>1, <1>0 DEF TypeOK, Turn
  <2>6. UNCHANGED <<pc, generation, activeGeneration, settled, turnDone, posting, succeeded, gaveUp>>
    BY <1>11 DEF MessageEnd
  <2>7. Quiet'
    <3>1. pc # "polling" => turn'[generation].report = turn[generation].report
      BY <2>5, <1>b
    <3>. QED BY <2>6, <3>1, <1>0 DEF Quiet
  <2>8. Heard'
    <3>1. \A g \in Turns : g > generation => turn'[g] = Untaken
      <4>1. \A g \in Turns : g > generation => g # h
        BY <2>2, <1>c
      <4>. QED BY <4>1, <2>5, <1>0 DEF Heard
    <3>2. run'.said = turn'[run'.of].said
      BY <2>3, <2>5
    <3>3. \A g \in Turns : turn'[g].said = 0 \/ turn'[g].ended \/ run'.of = g
      BY <2>1, <2>3, <2>5, <1>0 DEF Heard
    <3>. QED BY <2>6, <3>1, <3>2, <3>3 DEF Heard
  <2>9. Told'
    <3>1. SUFFICES ASSUME pc # "polling", turn[generation].clean PROVE Told'
      BY <2>5, <2>6, <1>b DEF Told
    <3>2. h = generation
      BY <3>1, <2>1, <2>2, <1>0 DEF Truth
    <3>3. ~ turnDone /\ ~ (pc = "posting" /\ succeeded)
      BY <3>1, <3>2, <2>2, <1>0 DEF Truth, Earned
    <3>4. /\ \A i \in 1..Len(capturedMessages) : capturedMessages[i].message = <<generation, i>>
          /\ activeGeneration # 0 => Len(capturedMessages) = turn[generation].said
          /\ Len(turn[generation].posted) + Len(postChain) = postCtx.postedCount
          /\ \A i \in 1..Len(turn[generation].posted) : turn[generation].posted[i] = <<generation, i>>
          /\ \A i \in 1..Len(postChain) :
               postChain[i] = <<generation, Len(turn[generation].posted) + i>>
      BY <3>1, <1>0 DEF Told
    <3>5. /\ \A i \in 1..Len(capturedMessages') : capturedMessages'[i].message = <<generation, i>>
          /\ activeGeneration # 0 => Len(capturedMessages') = n
      <4>1. CASE activeGeneration = 0
        <5>1. capturedMessages' = capturedMessages
          BY <4>1, <1>11 DEF MessageEnd, CaptureMessage
        <5>. QED BY <4>1, <5>1, <3>4
      <4>2. CASE activeGeneration # 0
        <5>1. PICK c : c = [gen |-> activeGeneration, message |-> <<h, n>>]
          OBVIOUS
        <5>2. capturedMessages' = Append(capturedMessages, c)
          BY <4>2, <5>1, <2>1, <1>11 DEF MessageEnd, CaptureMessage
        <5>3. c \in Captured /\ c.message = <<h, n>>
          <6>1. n \in 1..MaxMessages
            BY <1>11, <2>1, <2>2, TurnAssumption DEF MessageEnd
          <6>2. activeGeneration \in Turns
            BY <4>2, <3>1, <1>0, <1>b DEF TypeOK
          <6>. QED BY <5>1, <6>1, <6>2, <2>2 DEF Captured, Message
        <5>4. capturedMessages \in Seq(Captured) /\ Len(capturedMessages) \in Nat
          BY <1>0 DEF TypeOK
        <5>5. /\ Len(capturedMessages') = Len(capturedMessages) + 1
              /\ \A i \in 1..Len(capturedMessages) : capturedMessages'[i] = capturedMessages[i]
              /\ capturedMessages'[Len(capturedMessages) + 1] = c
          BY <5>2, <5>3, <5>4, AppendProperties
        <5>6. Len(capturedMessages) + 1 = n
          BY <4>2, <3>2, <3>4, <2>1, <2>2
        <5>. QED BY ONLY <3>2, <3>4, <5>3, <5>4, <5>5, <5>6
      <4>. QED BY <4>1, <4>2
    <3>6. turn'[generation].said = n /\ turn'[generation].posted = turn[generation].posted
      BY <3>2, <2>5
    <3>. QED BY <3>3, <3>4, <3>5, <3>6, <2>6 DEF Told
  <2>10. TranscriptIsOwn'
    <3>1. \A g \in Turns : turn'[g].clean = turn[g].clean /\ turn'[g].posted = turn[g].posted
                           /\ turn'[g].report = turn[g].report
      BY <2>5
    <3>2. ~ (turn[h].clean /\ turn[h].report = "ack")
      BY <2>2, <1>0 DEF AckIsEarned
    <3>. QED BY <3>1, <3>2, <2>5, <1>0 DEF TranscriptIsOwn
  <2>. QED BY <2>7, <2>8, <2>9, <2>10
<1>12. ASSUME TurnEnd PROVE Quiet' /\ Heard' /\ Told' /\ TranscriptIsOwn'
  <2>1. /\ postCtx.set /\ QueueFlush(TRUE) /\ UNCHANGED <<pc, tracker, succeeded, run, turn>>
    BY <1>12 DEF TurnEnd
  <2>2. pc \notin {"posting", "polling"} /\ generation \in Turns
    BY <2>1, <1>0, <1>b DEF Quiet
  <2>3. Quiet'
    BY <2>1, <2>2, <1>0 DEF Quiet
  <2>4. Told'
    <3>1. CASE ~ turn[generation].clean
      BY <3>1, <2>1 DEF Told
    <3>2. CASE turn[generation].clean
      <4>1. /\ Len(turn[generation].posted) + Len(postChain') = Len(capturedMessages)
            /\ \A i \in 1..Len(postChain') :
                 postChain'[i] = <<generation, Len(turn[generation].posted) + i>>
            /\ postCtx' = [set |-> TRUE, postedCount |-> Len(capturedMessages)]
        BY <3>2, <1>0, <2>1, <2>2, FlushTold
      <4>2. /\ \A i \in 1..Len(capturedMessages) : capturedMessages[i].message = <<generation, i>>
            /\ activeGeneration # 0 \/ turnDone => Len(capturedMessages) = turn[generation].said
            /\ \A i \in 1..Len(turn[generation].posted) : turn[generation].posted[i] = <<generation, i>>
        BY <3>2, <2>2, <1>0 DEF Told
      <4>. QED BY <3>2, <4>1, <4>2, <2>1, <2>2 DEF Told
    <3>. QED BY <3>1, <3>2
  <2>. QED BY <2>1, <2>3, <2>4, <1>0 DEF Heard, TranscriptIsOwn
<1>13. ASSUME AgentSettled PROVE Quiet' /\ Heard' /\ Told' /\ TranscriptIsOwn'
  <2>1. PICK h : h = run.of
    OBVIOUS
  <2>2. h \in Turns /\ h <= generation /\ run # NoRun /\ run' = NoRun
    BY <1>13, <2>1, <1>d DEF AgentSettled
  <2>3. /\ \A g \in Turns \ {h} : turn'[g] = turn[g]
        /\ turn'[h].clean = turn[h].clean /\ turn'[h].said = turn[h].said
        /\ turn'[h].posted = turn[h].posted /\ turn'[h].report = turn[h].report
        /\ turn'[h].ended
    <3>1. turn' = [turn EXCEPT ![h].ended = TRUE]
      BY <1>13, <2>1 DEF AgentSettled
    <3>. QED BY <3>1, <2>2, <1>a, <1>0 DEF TypeOK, Turn
  <2>4. /\ UNCHANGED <<generation, capturedMessages, posting, succeeded>>
        /\ activeGeneration' = 0
        /\ pc' = pc \/ (pc = "draining" /\ pc' = "drained")
    BY <1>13 DEF AgentSettled, EndTurn, MarkSettled
  <2>5. turnDone' <=> turnDone \/ activeGeneration # 0
    BY <1>13, Zenon DEF AgentSettled, EndTurn, MarkSettled
  <2>6. \A g \in Turns : /\ turn'[g].clean = turn[g].clean /\ turn'[g].said = turn[g].said
                         /\ turn'[g].posted = turn[g].posted /\ turn'[g].report = turn[g].report
                         /\ turn[g].ended => turn'[g].ended
    BY <2>3
  <2>7. Quiet'
    BY <2>4, <2>6, <1>0, <1>b DEF Quiet
  <2>8. Heard'
    <3>1. \A g \in Turns : g > generation => turn'[g] = Untaken
      <4>1. \A g \in Turns : g > generation => g # h
        BY <2>2, <1>c
      <4>. QED BY <4>1, <2>3, <1>0 DEF Heard
    <3>2. \A g \in Turns : turn'[g].said = 0 \/ turn'[g].ended
      BY <2>1, <2>3, <2>6, <1>0 DEF Heard
    <3>. QED BY <2>2, <2>4, <3>1, <3>2 DEF Heard
  <2>9. Told'
    <3>1. SUFFICES ASSUME pc # "polling", turn[generation].clean PROVE Told'
      BY <2>4, <2>6, <1>b DEF Told
    <3>. QED BY <3>1, <2>4, <2>5, <2>6, <1>0, <1>b DEF Told
  <2>10. TranscriptIsOwn'
    BY <2>6, <1>0 DEF TranscriptIsOwn
  <2>. QED BY <2>7, <2>8, <2>9, <2>10
<1>14. ASSUME UNCHANGED vars PROVE Quiet' /\ Heard' /\ Told' /\ TranscriptIsOwn'
  BY <1>14, <1>0 DEF vars, Quiet, Heard, Told, TranscriptIsOwn
<1>. QED
  BY <1>1, <1>2, <1>3, <1>5, <1>6, <1>7, <1>8, <1>9, <1>10, <1>11, <1>12, <1>13, <1>14
  DEF Next

LEMMA TranscriptInit == Init => TranscriptInv
<1>. SUFFICES ASSUME Init PROVE TranscriptInv
  OBVIOUS
<1>1. AckInv
  BY InitTypes DEF AckInv, Init, Order, Truth, AckIsEarned, Untaken
<1>2. DOMAIN <<>> = {}
  OBVIOUS
<1>3. Quiet /\ Heard /\ Told /\ TranscriptIsOwn
  BY <1>2 DEF Init, Quiet, Heard, Told, TranscriptIsOwn, Untaken
<1>. QED BY <1>1, <1>3 DEF TranscriptInv

(* For any number of tasks and messages: what is posted in the name of a task  *)
(* that began with no run under way are its own run's messages, in order and   *)
(* once, and all of them when it is acked (queueConversationFlush with its     *)
(* mark, at every turn_end and at the end of processTask).                     *)
THEOREM TranscriptsAreOwn == Spec => []TranscriptIsOwn
<1>1. Init => TranscriptInv
  BY TranscriptInit
<1>2. TranscriptInv /\ [Next]_vars => TranscriptInv'
  BY TypeStep, AckStep, TranscriptStep DEF TranscriptInv, AckInv
<1>3. TranscriptInv => TranscriptIsOwn
  BY DEF TranscriptInv
<1>. QED BY <1>1, <1>2, <1>3, PTL DEF Spec

(***************************************************************************)
(* A session answers a task from that task alone.                          *)
(***************************************************************************)

HistoryType ==
  /\ history \in Seq([of : Turns, event : BOOLEAN])
  /\ mixed \in BOOLEAN /\ miscounted \in BOOLEAN
  /\ env \in {EventContext(Work[g]) : g \in Turns} \union {NoEvent}

\* The session's messages of turn g are those from n on, of which the first, and no
\* other, is an event.
TailFrom(g, n) ==
  /\ n \in 1..Len(history) /\ history[n].event
  /\ \A i \in 1..Len(history) : history[i].of = g <=> i >= n
  /\ \A i \in 1..Len(history) : i > n => ~ history[i].event

\* Until a drain gives up, the session ends in the messages of the run under way,
\* or has none of the turn at hand, and the environment is that of the turn at hand.
Session ==
  gaveUp \/
    /\ generation # 0 => env = EventContext(Work[generation])
    /\ run = NoRun /\ generation # 0 /\ ~ turn[generation].ended =>
         \A i \in 1..Len(history) : history[i].of # generation
    /\ run # NoRun => \E n \in 1..Len(history) : TailFrom(run.of, n)

ContextInv ==
  /\ AckInv /\ Alone /\ HistoryType /\ ContextIsOwn /\ Session
  /\ \A i \in 1..Len(history) : history[i].of <= generation

\* A step of the session is one of the turn, or none.
LEMMA ContextIsTurn == [ContextNext]_contextVars => [Next]_vars
BY DEF ContextNext, contextVars, TakeTask, RunStarts, MessageSent, TurnOnly, MessageArrives, Next

\* The context handler finds the last event, which is where the run's messages begin.
LEMMA RunIsShown ==
  ASSUME history \in Seq([of : Turns, event : BOOLEAN]), NEW g, NEW n, TailFrom(g, n)
  PROVE  ShowsOnly(g, Shown(history))
<1>1. Len(history) \in Nat /\ DOMAIN history = 1..Len(history)
  OBVIOUS
<1>2. PICK events : events = {i \in DOMAIN history : Leads(history[i])}
  OBVIOUS
<1>3. n \in events /\ \A j \in events : j <= n
  BY <1>1, <1>2 DEF TailFrom, Leads
<1>4. events # {} /\ events \subseteq Nat
  BY <1>1, <1>2, <1>3
<1>5. StartIndex(history) = CHOOSE i \in events : \A j \in events : j <= i
  BY <1>2, <1>4, Zenon DEF StartIndex
<1>6. StartIndex(history) = n
  <2>1. \A i \in events : (\A j \in events : j <= i) => i = n
    BY <1>3, <1>4
  <2>. QED BY ONLY <1>3, <1>5, <2>1
<1>7. {i \in DOMAIN history : history[i].of = g} = n..Len(history)
  BY <1>1 DEF TailFrom
<1>8. n \in DOMAIN history /\ Leads(history[n])
  BY <1>1 DEF TailFrom, Leads
<1>9. Shown(history) = SubSeq(history, n, Len(history))
  BY <1>6 DEF Shown
<1>. QED BY <1>7, <1>8, <1>9, Zenon DEF ShowsOnly

\* What TurnOnly may do to what a session depends on.
LEMMA TurnOnlyKeeps ==
  ASSUME AckInv, TurnOnly
  PROVE  /\ UNCHANGED <<generation, env, history, mixed, miscounted>>
         /\ gaveUp => gaveUp'
         /\ generation \in Turns => \/ turn'[generation].ended = turn[generation].ended
                                    \/ run.of = generation /\ run' = NoRun
         /\ run' = run \/ (run' = NoRun /\ turn'[run.of].ended)
<1>. USE DEF tracker, posting, context
<1>0. TypeOK /\ Begun /\ \A g \in Turns : turn[g] \in Turn
  BY DEF AckInv, TypeOK
<1>1. UNCHANGED <<env, history, mixed, miscounted>>
  BY DEF TurnOnly
<1>2. CASE SendFails \/ EndOfTurn \/ TimeOut \/ GiveUp \/ Drained \/ TurnEnd
  <2>1. UNCHANGED <<generation, run, turn>>
    BY <1>2 DEF SendFails, EndOfTurn, TimeOut, GiveUp, Drained, TurnEnd, Close
  <2>2. gaveUp => gaveUp'
    BY <1>2 DEF SendFails, EndOfTurn, TimeOut, GiveUp, Drained, TurnEnd, Close
  <2>. QED BY <1>1, <2>1, <2>2
<1>3. CASE Post
  <2>1. UNCHANGED <<generation, run, gaveUp>>
    BY <1>3 DEF Post
  <2>2. PICK new : turn' = [turn EXCEPT ![generation].posted = new]
    BY <1>3, Zenon DEF Post
  <2>3. generation \in Turns => turn'[generation].ended = turn[generation].ended
    BY <2>2, <1>0 DEF TypeOK, Turn
  <2>. QED BY <1>1, <2>1, <2>3
<1>4. CASE Report
  <2>1. UNCHANGED <<generation, run, gaveUp>>
    BY <1>4 DEF Report
  <2>2. PICK verdict : turn' = [turn EXCEPT ![generation].report = verdict]
    BY <1>4, Zenon DEF Report
  <2>3. generation \in Turns => turn'[generation].ended = turn[generation].ended
    BY <2>2, <1>0 DEF TypeOK, Turn
  <2>. QED BY <1>1, <2>1, <2>3
<1>5. CASE AgentSettled
  <2>1. UNCHANGED <<generation, gaveUp>> /\ run' = NoRun /\ run.of \in Turns
    BY <1>5, <1>0 DEF AgentSettled, EndTurn, MarkSettled, TypeOK
  <2>2. PICK h : h = run.of
    OBVIOUS
  <2>3. turn' = [turn EXCEPT ![h].ended = TRUE]
    BY <1>5, <2>2 DEF AgentSettled
  <2>4. turn'[h].ended /\ \A g \in Turns \ {h} : turn'[g].ended = turn[g].ended
    <3>1. turn \in [Turns -> Turn] /\ h \in Turns
      BY <2>1, <2>2, <1>0 DEF TypeOK
    <3>2. "ended" \in DOMAIN turn[h]
      BY ONLY <3>1 DEF Turn
    <3>. QED BY ONLY <2>3, <3>1, <3>2
  <2>. QED BY <1>1, <2>1, <2>2, <2>4
<1>. QED BY <1>2, <1>3, <1>4, <1>5 DEF TurnOnly

LEMMA ContextStep == ContextInv /\ [ContextNext]_contextVars => ContextInv'
<1>. SUFFICES ASSUME ContextInv, [ContextNext]_contextVars PROVE ContextInv'
  OBVIOUS
<1>. USE DEF tracker, posting, context
<1>0. /\ AckInv /\ Alone /\ HistoryType /\ ContextIsOwn /\ Session
      /\ \A i \in 1..Len(history) : history[i].of <= generation
  BY DEF ContextInv
<1>a. TypeOK /\ Begun /\ Order /\ generation \in Nat /\ Turns \subseteq Nat /\ 0 \notin Turns
  BY <1>0, TurnAssumption DEF AckInv, TypeOK, Turns
<1>b. /\ history \in Seq([of : Turns, event : BOOLEAN]) /\ Len(history) \in Nat
      /\ \A i \in 1..Len(history) : history[i].of \in Turns
  <2>1. history \in Seq([of : Turns, event : BOOLEAN])
    BY <1>0 DEF HistoryType
  <2>2. \A i \in 1..Len(history) : history[i] \in [of : Turns, event : BOOLEAN]
    BY <2>1, ElementOfSeq
  <2>. QED BY <2>1, <2>2
<1>c. AckInv' /\ Alone'
  <2>1. [Next]_vars
    BY ContextIsTurn
  <2>. QED BY <2>1, <1>0, TypeStep, AckStep, AloneStep DEF AckInv
\* One message more in the session.
<1>d. ASSUME NEW m \in [of : Turns, event : BOOLEAN], m.of <= generation,
             history' = Append(history, m), generation' = generation
      PROVE  /\ history' \in Seq([of : Turns, event : BOOLEAN]) /\ Len(history') = Len(history) + 1
             /\ \A i \in 1..Len(history) : history'[i] = history[i]
             /\ history'[Len(history) + 1] = m
             /\ \A i \in 1..Len(history') : history'[i].of <= generation'
  <2>1. /\ history' \in Seq([of : Turns, event : BOOLEAN]) /\ Len(history') = Len(history) + 1
        /\ \A i \in 1..Len(history) : history'[i] = history[i]
        /\ history'[Len(history) + 1] = m
    BY <1>d, <1>b, AppendProperties
  <2>2. SUFFICES ASSUME NEW i \in 1..Len(history') PROVE history'[i].of <= generation
    BY <2>1, <1>d
  <2>3. i \in 1..Len(history) \/ i = Len(history) + 1
    BY <2>1, <1>b
  <2>4. CASE i \in 1..Len(history)
    BY <2>4, <2>1, <1>0
  <2>5. CASE i = Len(history) + 1
    BY <2>5, <2>1, <1>d
  <2>. QED BY <2>3, <2>4, <2>5
<1>1. ASSUME TakeTask PROVE ContextInv'
  <2>1. generation' = generation + 1 /\ generation + 1 \in Turns /\ pc = "polling" /\ run' = run
        /\ gaveUp' = gaveUp /\ UNCHANGED <<history, mixed, miscounted>>
    BY <1>1, <1>a, TurnAssumption DEF TakeTask, BeginTurn, FreshTracker, NextGeneration, Turns
  <2>0. PICK next : next = generation + 1
    OBVIOUS
  <2>6. env' = EventContext(Work[next])
    BY <1>1, <2>0 DEF TakeTask, SetAinselEventEnv
  <2>7. env' \in {EventContext(Work[g]) : g \in Turns} \union {NoEvent}
    BY <2>0, <2>1, <2>6
  <2>2. HistoryType'
    <3>1. history' \in Seq([of : Turns, event : BOOLEAN]) /\ mixed' \in BOOLEAN
          /\ miscounted' \in BOOLEAN
      BY <2>1, <1>0 DEF HistoryType
    <3>. QED BY <3>1, <2>7, Zenon DEF HistoryType
  <2>3. \A i \in 1..Len(history') : history'[i].of <= generation'
    <3>1. SUFFICES ASSUME NEW i \in 1..Len(history) PROVE history[i].of <= generation + 1
      BY <2>1
    <3>2. history[i].of <= generation /\ history[i].of \in Nat
      BY <1>0, <1>a, <1>b
    <3>. QED BY ONLY <3>2, <1>a
  <2>4. ContextIsOwn'
    BY <2>1, <1>0 DEF ContextIsOwn
  <2>5. Session'
    <3>1. SUFFICES ASSUME ~ gaveUp PROVE Session'
      BY <2>1 DEF Session
    <3>2. run = NoRun
      BY <3>1, <2>1, <1>0 DEF Alone
    <3>3. \A i \in 1..Len(history) : history[i].of # generation + 1
      BY <1>0, <1>a, <1>b
    <3>. QED BY <3>2, <3>3, <2>0, <2>1, <2>6 DEF Session
  <2>. QED BY <1>c, <2>2, <2>3, <2>4, <2>5 DEF ContextInv
<1>2. ASSUME RunStarts PROVE ContextInv'
  <2>1. /\ generation \in Turns /\ run = NoRun /\ ~ turn[generation].ended
        /\ run' = [of |-> generation, said |-> 0]
        /\ history' = Append(history, [of |-> generation, event |-> TRUE])
        /\ UNCHANGED <<generation, turn, gaveUp, env, mixed, miscounted>>
    <3>1. pc = "sending"
      BY <1>2 DEF RunStarts, StartRun
    <3>2. generation \in Turns
      BY <3>1, <1>a DEF Begun, TypeOK, Turns
    <3>3. run = NoRun /\ ~ turn[generation].ended /\ run' = [of |-> generation, said |-> 0]
          /\ UNCHANGED <<generation, turn, gaveUp>>
      BY <1>2 DEF RunStarts, StartRun
    <3>4. /\ history' = Append(history, [of |-> generation, event |-> TRUE])
          /\ UNCHANGED <<env, mixed, miscounted>>
      BY <1>2 DEF RunStarts, UserMessage
    <3>. QED BY <3>2, <3>3, <3>4
  <2>2. /\ history' \in Seq([of : Turns, event : BOOLEAN]) /\ Len(history') = Len(history) + 1
        /\ \A i \in 1..Len(history) : history'[i] = history[i]
        /\ history'[Len(history) + 1].of = generation /\ history'[Len(history) + 1].event = TRUE
        /\ \A i \in 1..Len(history') : history'[i].of <= generation'
    <3>1. PICK m : m = [of |-> generation, event |-> TRUE]
      OBVIOUS
    <3>2. /\ m \in [of : Turns, event : BOOLEAN] /\ m.of = generation /\ m.event = TRUE
          /\ m.of <= generation
      BY <3>1, <2>1, <1>a
    <3>3. history' = Append(history, m) /\ generation' = generation
      BY <3>1, <2>1
    <3>. QED BY <3>2, <3>3, <1>d
  <2>3. HistoryType' /\ ContextIsOwn'
    BY <2>1, <2>2, <1>0 DEF HistoryType, ContextIsOwn
  <2>4. Session'
    <3>1. SUFFICES ASSUME ~ gaveUp PROVE Session'
      BY <2>1 DEF Session
    <3>2. \A i \in 1..Len(history) : history[i].of # generation
      BY <3>1, <2>1, <1>0, <1>a DEF Session
    <3>3. run' # NoRun /\ run'.of = generation
      BY <2>1, <1>a DEF NoRun
    <3>4. PICK n : n = Len(history) + 1
      OBVIOUS
    <3>5. TailFrom(generation, n)'
      <4>1. n \in 1..Len(history') /\ history'[n].event
        BY <2>2, <3>4, <1>b
      <4>2. \A i \in 1..Len(history') : i \in 1..Len(history) \/ i = n
        BY <2>2, <3>4, <1>b
      <4>3. \A i \in 1..Len(history') : history'[i].of = generation <=> i >= n
        BY <2>2, <3>2, <3>4, <4>2, <1>b
      <4>4. \A i \in 1..Len(history') : i > n => ~ history'[i].event
        BY <2>2, <3>4, <1>b
      <4>. QED BY <4>1, <4>3, <4>4, <2>1 DEF TailFrom
    <3>6. n \in 1..Len(history')
      BY <2>2, <3>4, <1>b
    <3>7. generation # 0 => env = EventContext(Work[generation])
      BY <3>1, <1>0 DEF Session
    <3>. QED BY <3>3, <3>5, <3>6, <3>7, <2>1 DEF Session
  <2>. QED BY <1>c, <2>2, <2>3, <2>4 DEF ContextInv
<1>3. ASSUME MessageSent PROVE ContextInv'
  <2>1. /\ pc = "sending" /\ UNCHANGED <<generation, run, turn, gaveUp, env, mixed, miscounted>>
        /\ \/ history' = history
           \/ /\ run.of \notin {0, generation}
              /\ history' = Append(history, [of |-> generation, event |-> TRUE])
    BY <1>3 DEF MessageSent, Sent, UserMessage
  <2>2. generation \in Turns
    BY <2>1, <1>a DEF Begun, TypeOK, Turns
  <2>3. ContextIsOwn'
    BY <2>1, <1>0 DEF ContextIsOwn
  <2>4. CASE history' = history
    BY <2>1, <2>3, <2>4, <1>0, <1>c DEF ContextInv, HistoryType, Session, TailFrom
  <2>5. CASE history' # history
    <3>1. run.of \notin {0, generation}
      BY <2>1, <2>5
    <3>2. gaveUp'
      BY <3>1, <2>1, <1>0 DEF Alone, NoRun
    <3>0. PICK m : m = [of |-> generation, event |-> TRUE]
      OBVIOUS
    <3>5. m \in [of : Turns, event : BOOLEAN] /\ m.of <= generation
      BY <3>0, <2>2, <1>a
    <3>6. history' = Append(history, m) /\ generation' = generation
      BY <3>0, <2>1, <2>5
    <3>3. /\ history' \in Seq([of : Turns, event : BOOLEAN])
          /\ \A i \in 1..Len(history') : history'[i].of <= generation'
      BY <3>5, <3>6, <1>d
    <3>4. HistoryType' /\ Session'
      BY <3>2, <3>3, <2>1, <1>0 DEF HistoryType, Session
    <3>. QED BY <3>3, <3>4, <2>3, <1>c DEF ContextInv
  <2>. QED BY <2>4, <2>5
<1>4. ASSUME TurnOnly PROVE ContextInv'
  <2>1. /\ UNCHANGED <<generation, env, history, mixed, miscounted>>
        /\ gaveUp => gaveUp'
        /\ generation \in Turns => \/ turn'[generation].ended = turn[generation].ended
                                   \/ run.of = generation /\ run' = NoRun
        /\ run' = run \/ (run' = NoRun /\ turn'[run.of].ended)
    BY <1>4, <1>0, TurnOnlyKeeps
  <2>2. HistoryType' /\ ContextIsOwn'
    BY <2>1, <1>0 DEF HistoryType, ContextIsOwn
  <2>3. Session'
    <3>1. SUFFICES ASSUME ~ gaveUp PROVE Session'
      BY <2>1 DEF Session
    <3>2. CASE run' = run
      <4>1. CASE run = NoRun
        <5>1. generation # 0 /\ ~ turn'[generation].ended => ~ turn[generation].ended
          BY <2>1, <3>2, <4>1, <1>a DEF TypeOK, Turns, NoRun
        <5>. QED BY <5>1, <3>1, <3>2, <4>1, <2>1, <1>0 DEF Session
      <4>2. CASE run # NoRun
        BY <3>1, <3>2, <4>2, <2>1, <1>0 DEF Session, TailFrom
      <4>. QED BY <4>1, <4>2
    <3>3. CASE run' # run
      <4>1. run # NoRun /\ run' = NoRun /\ turn'[run.of].ended
        BY <3>3, <2>1
      <4>2. run.of = generation
        BY <3>1, <4>1, <1>0 DEF Alone
      <4>. QED BY <3>1, <4>1, <4>2, <2>1, <1>0 DEF Session
    <3>. QED BY <3>2, <3>3
  <2>. QED BY <2>1, <2>2, <2>3, <1>0, <1>c DEF ContextInv
<1>5. ASSUME NEW assistant \in BOOLEAN, NEW failed \in BOOLEAN, NEW used \in BOOLEAN,
             MessageArrives(assistant, failed, used)
      PROVE  ContextInv'
  <2>1. PICK h : h = run.of
    OBVIOUS
  <2>2. /\ run # NoRun /\ h \in Turns /\ h <= generation
        /\ UNCHANGED <<generation, gaveUp, env>>
        /\ run' = [run EXCEPT !.said = @ + 1]
        /\ \/ history' = history
           \/ history' = Append(history, [of |-> h, event |-> FALSE])
    BY <1>5, <2>1, <1>a DEF MessageArrives, MessageEnd, Order, TypeOK
  <2>3. run' # NoRun /\ run'.of = h
    <3>1. run \in [of : Turns, said : 0..MaxMessages]
      BY <2>2, <1>a DEF TypeOK
    <3>. QED BY <2>1, <2>2, <3>1, <1>a DEF NoRun
  <2>4. ~ gaveUp => /\ h = generation /\ env = EventContext(Work[h])
                    /\ ~ mixed /\ ~ miscounted /\ ShowsOnly(h, Shown(history))
    <3>1. SUFFICES ASSUME ~ gaveUp
                   PROVE  /\ h = generation /\ env = EventContext(Work[h])
                          /\ ~ mixed /\ ~ miscounted /\ ShowsOnly(h, Shown(history))
      OBVIOUS
    <3>2. h = generation /\ generation # 0
      BY <3>1, <2>1, <2>2, <1>0, <1>a DEF Alone
    <3>3. env = EventContext(Work[h]) /\ ~ mixed /\ ~ miscounted
      BY <3>1, <3>2, <1>0 DEF Session, ContextIsOwn
    <3>4. PICK n \in 1..Len(history) : TailFrom(h, n)
      BY <3>1, <2>1, <2>2, <1>0 DEF Session
    <3>5. ShowsOnly(h, Shown(history))
      BY <3>4, <1>b, RunIsShown
    <3>. QED BY <3>2, <3>3, <3>5
  <2>5. ContextIsOwn'
    <3>1. /\ mixed' = (mixed \/ (assistant /\ ~ ShowsOnly(h, Shown(history))))
          /\ miscounted' = (miscounted \/ (assistant /\ used /\ env # EventContext(Work[h])))
      BY <1>5, <2>1, Zenon DEF MessageArrives
    <3>. QED BY <3>1, <2>2, <2>4, Zenon DEF ContextIsOwn
  <2>6. mixed' \in BOOLEAN /\ miscounted' \in BOOLEAN
    BY <1>5, Zenon DEF MessageArrives
  <2>7. CASE history' = history
    <3>1. HistoryType'
      BY <2>2, <2>6, <2>7, <1>0 DEF HistoryType
    <3>2. Session'
      BY <2>1, <2>2, <2>3, <2>7, <1>0 DEF Session, TailFrom
    <3>. QED BY <3>1, <3>2, <2>2, <2>5, <2>7, <1>0, <1>c DEF ContextInv
  <2>8. CASE history' = Append(history, [of |-> h, event |-> FALSE])
    <3>1. /\ history' \in Seq([of : Turns, event : BOOLEAN]) /\ Len(history') = Len(history) + 1
          /\ \A i \in 1..Len(history) : history'[i] = history[i]
          /\ history'[Len(history) + 1].of = h /\ history'[Len(history) + 1].event = FALSE
          /\ \A i \in 1..Len(history') : history'[i].of <= generation'
      <4>1. PICK m : m = [of |-> h, event |-> FALSE]
        OBVIOUS
      <4>2. /\ m \in [of : Turns, event : BOOLEAN] /\ m.of = h /\ m.event = FALSE
            /\ m.of <= generation
        BY <4>1, <2>2
      <4>3. history' = Append(history, m) /\ generation' = generation
        BY <4>1, <2>2, <2>8
      <4>. QED BY <4>2, <4>3, <1>d
    <3>2. HistoryType'
      BY <2>2, <2>6, <3>1, <1>0 DEF HistoryType
    <3>3. Session'
      <4>1. SUFFICES ASSUME ~ gaveUp PROVE Session'
        BY <2>2 DEF Session
      <4>2. PICK n \in 1..Len(history) : TailFrom(h, n)
        BY <4>1, <2>1, <2>2, <1>0 DEF Session
      <4>3. \A i \in 1..Len(history') : i \in 1..Len(history) \/ i = Len(history) + 1
        <5>1. PICK k \in Nat : k = Len(history)
          BY <1>b
        <5>2. Len(history') = k + 1
          BY <3>1, <5>1
        <5>3. \A i \in 1..(k + 1) : i \in 1..k \/ i = k + 1
          OBVIOUS
        <5>. QED BY ONLY <5>1, <5>2, <5>3
      <4>4. n \in 1..Len(history') /\ history'[n].event
        BY <3>1, <4>2, <1>b DEF TailFrom
      <4>5. \A i \in 1..Len(history') : history'[i].of = h <=> i >= n
        BY <3>1, <4>2, <4>3, <1>b DEF TailFrom
      <4>6. \A i \in 1..Len(history') : i > n => ~ history'[i].event
        BY <3>1, <4>2, <4>3, <1>b DEF TailFrom
      <4>7. TailFrom(h, n)'
        BY <4>4, <4>5, <4>6 DEF TailFrom
      <4>8. generation # 0 => env = EventContext(Work[generation])
        BY <4>1, <1>0 DEF Session
      <4>. QED BY <4>4, <4>7, <4>8, <2>2, <2>3 DEF Session
    <3>. QED BY <3>1, <3>2, <3>3, <2>5, <1>c DEF ContextInv
  <2>. QED BY <2>2, <2>7, <2>8
<1>6. ASSUME UNCHANGED contextVars PROVE ContextInv'
  BY <1>6, <1>0, <1>c DEF contextVars, vars, ContextInv, HistoryType, ContextIsOwn, Session, TailFrom
<1>. QED BY <1>1, <1>2, <1>3, <1>4, <1>5, <1>6 DEF ContextNext

(* For any number of tasks and messages: the model is shown the event of the   *)
(* task it answers and that run's messages, all of them and no others, and     *)
(* tokens are counted under that event, until a drain gives up ("Strip         *)
(* accumulated conversation history between events", setAinselEventEnv); the   *)
(* transcripts are a task's own.                                               *)
THEOREM ContextsAreOwn == ContextSpec => []TurnsAreOwn
<1>1. ContextInit => TranscriptInv /\ ContextInv
  <2>1. SUFFICES ASSUME ContextInit PROVE TranscriptInv /\ ContextInv
    OBVIOUS
  <2>2. TranscriptInv /\ AckInv
    BY <2>1, TranscriptInit DEF ContextInit, TranscriptInv
  <2>3. history \in Seq([of : Turns, event : BOOLEAN]) /\ Len(history) = 0
    BY <2>1, EmptySeq DEF ContextInit
  <2>4. Alone /\ HistoryType /\ ContextIsOwn
    BY <2>1, <2>3 DEF ContextInit, Init, Alone, HistoryType, ContextIsOwn
  <2>5. Session
    BY <2>1 DEF ContextInit, Init, Session
  <2>. QED BY <2>2, <2>3, <2>4, <2>5 DEF ContextInv
<1>2. (TranscriptInv /\ ContextInv) /\ [ContextNext]_contextVars => (TranscriptInv /\ ContextInv)'
  <2>1. ASSUME TranscriptInv, ContextInv, [ContextNext]_contextVars PROVE TranscriptInv'
    <3>1. [Next]_vars
      BY <2>1, ContextIsTurn
    <3>2. TypeOK' /\ Begun'
      BY <2>1, <3>1, TypeStep DEF TranscriptInv, AckInv
    <3>3. Order' /\ Truth' /\ AckIsEarned'
      BY <2>1, <3>1, AckStep DEF TranscriptInv
    <3>4. Quiet' /\ Heard' /\ Told' /\ TranscriptIsOwn'
      BY <2>1, <3>1, TranscriptStep
    <3>. QED BY <3>2, <3>3, <3>4 DEF TranscriptInv, AckInv
  <2>. QED BY <2>1, ContextStep
<1>3. TranscriptInv /\ ContextInv => TurnsAreOwn
  <2>1. ASSUME HistoryType PROVE \A i \in DOMAIN history : history[i] \in [of : Turns, event : BOOLEAN]
    <3>1. history \in Seq([of : Turns, event : BOOLEAN])
      BY <2>1 DEF HistoryType
    <3>2. \A i \in 1..Len(history) : history[i] \in [of : Turns, event : BOOLEAN]
      BY <3>1, ElementOfSeq
    <3>. QED BY <3>1, <3>2
  <2>. QED BY <2>1 DEF TranscriptInv, ContextInv, AckInv, HistoryType, TurnsAreOwn, ContextTypeOK
<1>. QED BY <1>1, <1>2, <1>3, PTL DEF ContextSpec

(***************************************************************************)
(* LongPoll.                                                               *)
(*                                                                         *)
(* PollsSound is not inductive: that a poll which was told of a row has    *)
(* its payload unread needs that only listening polls are ever told        *)
(* (a NOTIFY reaches nobody else, and a poll that returns is forgotten),   *)
(* and that a row is announced only after it was inserted.                 *)
(***************************************************************************)

\* Only polls that listen have been told of a row, and only of rows there are.
HeardWaiting ==
  /\ \A t \in Tasks : \A p \in told[t] : Listening(p)
  /\ \A t \in Tasks : row[t] = "absent" => t \notin unsent /\ told[t] = {}

PollInv == PollsSound /\ HeardWaiting

Holders == {p \in Polls : HasConn(p)}

-------------------------------------------------------------------------------
(* The polls that hold a connection are finitely many; when one returns there  *)
(* is one less, when one acquires there is one more.                           *)
LEMMA HoldersCounted ==
  /\ IsFiniteSet(Holders) /\ Cardinality(Holders) \in Nat
  /\ \A p \in Polls : HasConn(p) =>
       Cardinality(Holders \ {p}) = Cardinality(Holders) - 1 /\ Cardinality(Holders) >= 1
  /\ \A p \in Polls : ~HasConn(p) =>
       Cardinality(Holders \union {p}) = Cardinality(Holders) + 1
<1>1. IsFiniteSet(Holders)
  BY PollAssumption, FS_Subset DEF Holders
<1>2. Cardinality(Holders) \in Nat
  BY <1>1, FS_CardinalityType
<1>3. ASSUME NEW p \in Polls, HasConn(p)
      PROVE  Cardinality(Holders \ {p}) = Cardinality(Holders) - 1 /\ Cardinality(Holders) >= 1
  <2>1. p \in Holders
    BY <1>3 DEF Holders
  <2>2. Cardinality(Holders \ {p}) = Cardinality(Holders) - 1
    BY <1>1, <2>1, FS_RemoveElement
  <2>3. Cardinality(Holders \ {p}) \in Nat
    BY <1>1, FS_RemoveElement, FS_CardinalityType
  <2> QED
    BY <1>2, <2>2, <2>3
<1>4. ASSUME NEW p \in Polls, ~HasConn(p)
      PROVE  Cardinality(Holders \union {p}) = Cardinality(Holders) + 1
  <2>1. p \notin Holders
    BY <1>4 DEF Holders
  <2> QED
    BY <1>1, <2>1, FS_AddElement
<1> QED
  BY <1>1, <1>2, <1>3, <1>4

(* Goto, between two stages that both hold a connection or both hold none,     *)
(* leaves the holders alone.                                                   *)
LEMMA SameHolders ==
  ASSUME PollTypeOK, NEW p \in Polls, NEW label \in PollState,
         stage' = [stage EXCEPT ![p] = label],
         stage[p] \in {"listen", "loop", "wait", "wake", "last"} <=>
           label \in {"listen", "loop", "wait", "wake", "last"}
  PROVE  Holders' = Holders
  BY DEF PollTypeOK, Holders, HasConn

(* Return gives back what the poll holds, whichever way it ends.               *)
LEMMA ReturnKeeps ==
  ASSUME PollTypeOK, ConnsConserved, NEW p \in Polls, Return(p)
  PROVE  /\ ConnsConserved' /\ held' \in 0..PoolSize
         /\ stage' \in [Polls -> PollState] /\ mailbox' \in [Polls -> SUBSET Agents]
         /\ late' \in [Polls -> BOOLEAN] /\ told' \in [Tasks -> SUBSET Polls]
<1>1. held = Cardinality(Holders)
  BY DEF ConnsConserved, Holders
<1>2. Holders' = Holders \ {p}
  BY DEF Return, PollTypeOK, Holders, HasConn
<1>3. /\ stage' \in [Polls -> PollState] /\ mailbox' \in [Polls -> SUBSET Agents]
      /\ late' \in [Polls -> BOOLEAN] /\ told' \in [Tasks -> SUBSET Polls]
  BY DEF Return, PollTypeOK, PollState
<1>4. CASE HasConn(p)
  <2>1. held' = held - 1 /\ held >= 1 /\ Cardinality(Holders') = held - 1
    BY <1>1, <1>2, <1>4, HoldersCounted DEF Return
  <2>2. held' = Cardinality(Holders') /\ held' \in 0..PoolSize
    BY <2>1, PollAssumption DEF PollTypeOK
  <2> QED
    BY <1>3, <2>2 DEF ConnsConserved, Holders
<1>5. CASE ~HasConn(p)
  <2>1. held' = held /\ Holders' = Holders
    BY <1>2, <1>5 DEF Return, Holders
  <2>2. held' = Cardinality(Holders') /\ held' \in 0..PoolSize
    BY <1>1, <2>1 DEF PollTypeOK
  <2> QED
    BY <1>3, <2>2 DEF ConnsConserved, Holders
<1> QED
  BY <1>4, <1>5

(* A poll that returns takes its name off every row; what it claims on the way *)
(* out only makes fewer rows claimable for the others.                         *)
LEMMA ReturnHears ==
  ASSUME PollInv, NEW p \in Polls, Return(p), UNCHANGED unsent,
         \/ UNCHANGED row
         \/ \E t \in Claimable(p) : row' = [row EXCEPT ![t] = "claimed"]
  PROVE  PollInv'
<1>1. PollTypeOK /\ ConnsConserved /\ ToldPollWakes /\ HeardWaiting
  BY DEF PollInv, PollsSound
<1>2. row' \in [Tasks -> RowState]
  BY <1>1 DEF PollTypeOK, Claimable, RowState
<1>3. PollTypeOK' /\ ConnsConserved'
  BY <1>1, <1>2, ReturnKeeps DEF PollTypeOK
<1>4. \A t \in Tasks : row'[t] = row[t] \/ (row[t] = "claimable" /\ row'[t] = "claimed")
  BY <1>1 DEF PollTypeOK, Claimable
<1>5. /\ \A q \in Polls : q # p => stage'[q] = stage[q] /\ mailbox'[q] = mailbox[q]
      /\ stage'[p] = "idle" /\ \A t \in Tasks : told'[t] = told[t] \ {p}
  BY <1>1 DEF Return, PollTypeOK
<1>6. ToldPollWakes'
  BY <1>1, <1>4, <1>5 DEF ToldPollWakes, Claimable
<1>7. HeardWaiting'
  <2>1. unsent' = unsent
    OBVIOUS
  <2> QED
    BY <1>1, <1>4, <1>5, <2>1 DEF HeardWaiting, Listening, PollTypeOK
<1> QED
  BY <1>3, <1>6, <1>7 DEF PollInv, PollsSound

(* A step from one stage to another that listens no less, to the wait or the   *)
(* loop only from where the payload is unread or no row can be claimed.        *)
LEMMA GotoKeeps ==
  ASSUME PollInv, NEW p \in Polls, NEW label \in PollState, Goto(p, label),
         UNCHANGED <<row, unsent>>,
         HasConn(p) <=> label \in {"listen", "loop", "wait", "wake", "last"},
         Listening(p) => label \in {"loop", "wait", "wake", "last"},
         label \in {"loop", "wait"} =>
           stage[p] \in {"listen", "loop", "wait"} \/ Claimable(p) = {}
  PROVE  PollInv'
<1>1. PollTypeOK /\ ConnsConserved /\ ToldPollWakes /\ HeardWaiting
  BY DEF PollInv, PollsSound
<1>2. PollTypeOK'
  BY <1>1 DEF Goto, PollTypeOK
<1>3. ConnsConserved'
  BY <1>1, SameHolders DEF Goto, ConnsConserved, Holders, HasConn
<1>4. /\ \A q \in Polls : q # p => stage'[q] = stage[q]
      /\ stage'[p] = label /\ told' = told /\ mailbox' = mailbox
  BY <1>1 DEF Goto, PollTypeOK
<1>5. \A t \in Tasks : p \in told[t] => stage[p] \in {"loop", "wait", "wake", "last"}
  BY <1>1 DEF HeardWaiting, Listening
<1>6. ToldPollWakes'
  <2> SUFFICES ASSUME NEW q \in Polls, NEW t \in Tasks, stage'[q] \in {"loop", "wait"},
                      q \in told[t], t \in Claimable(q)
               PROVE  For[q] \in mailbox[q]
    BY <1>4 DEF ToldPollWakes, Claimable
  <2>1. stage[q] \in {"loop", "wait"}
    BY <1>4, <1>5
  <2> QED
    BY <1>1, <2>1 DEF ToldPollWakes
<1>7. HeardWaiting'
  BY <1>1, <1>4, <1>5 DEF HeardWaiting, Listening, PollTypeOK
<1> QED
  BY <1>2, <1>3, <1>6, <1>7 DEF PollInv, PollsSound

-------------------------------------------------------------------------------
(* Every step keeps PollInv.                                                   *)
LEMMA PollStep == PollInv /\ [PollNext]_longPollVars => PollInv'
<1> SUFFICES ASSUME PollInv, [PollNext]_longPollVars PROVE PollInv'
  OBVIOUS
<1>0. PollTypeOK /\ ConnsConserved /\ ToldPollWakes /\ HeardWaiting
  BY DEF PollInv, PollsSound
<1> USE PollAssumption DEF pollVars
<1>1. ASSUME NEW t \in Tasks,
             \/ InsertTask(t) \/ NotifyLost(t) \/ RetryDelayPasses(t)
             \/ \E notify \in BOOLEAN : ReturnRow(t, notify)
      PROVE  PollInv'
  <2>1. /\ UNCHANGED pollVars
        /\ \A u \in Tasks : told'[u] \in {told[u], {}}
        /\ \A u \in Tasks : row'[u] # "absent" \/ (row[u] = "absent" /\ told'[u] = told[u])
        /\ \A u \in unsent' : row'[u] # "absent"
        /\ \A u \in Tasks : row'[u] = "claimable" /\ row[u] # "claimable" => told'[u] = {}
    BY <1>0, <1>1
    DEF InsertTask, NotifyLost, ReturnRow, RetryDelayPasses, PollTypeOK, HeardWaiting
  <2>2. PollTypeOK'
    BY <1>0, <1>1
    DEF InsertTask, NotifyLost, ReturnRow, RetryDelayPasses, PollTypeOK, RowState
  <2>3. ConnsConserved'
    BY <1>0, <2>1 DEF ConnsConserved, HasConn
  <2>4. ToldPollWakes'
    BY <1>0, <2>1 DEF ToldPollWakes, Claimable
  <2>5. HeardWaiting'
    BY <1>0, <2>1 DEF HeardWaiting, Listening
  <2> QED
    BY <2>2, <2>3, <2>4, <2>5 DEF PollInv, PollsSound
<1>2. ASSUME NEW t \in Tasks, NotifyAgent(t) PROVE PollInv'
  <2>1. /\ row' = row /\ stage' = stage /\ held' = held /\ unsent' = unsent \ {t}
        /\ row[t] # "absent"
        /\ \A u \in Tasks : u # t => told'[u] = told[u]
        /\ told'[t] = {p \in Polls : Listening(p)}
        /\ \A p \in Polls : mailbox[p] \subseteq mailbox'[p]
        /\ \A p \in Polls : Listening(p) => AgentOf[t] \in mailbox'[p]
    BY <1>0, <1>2 DEF NotifyAgent, PollTypeOK, HeardWaiting
  <2>2. PollTypeOK'
    BY <1>0, <1>2 DEF NotifyAgent, PollTypeOK
  <2>3. ConnsConserved'
    BY <1>0, <2>1 DEF ConnsConserved, HasConn
  <2>4. ToldPollWakes'
    BY <1>0, <2>1 DEF ToldPollWakes, Claimable, Listening
  <2>5. HeardWaiting'
    BY <1>0, <2>1 DEF HeardWaiting, Listening
  <2> QED
    BY <2>2, <2>3, <2>4, <2>5 DEF PollInv, PollsSound
<1>3. ASSUME NEW p \in Polls, BeginPoll(p) PROVE PollInv'
  BY <1>3, GotoKeeps DEF BeginPoll, PollState, HasConn, Listening
<1>4. ASSUME NEW p \in Polls, NEW label \in {"claim", "wake", "last"},
             stage[p] = label,
             \E t \in Claimable(p) : Claim(t) /\ Return(p)
      PROVE  PollInv'
  BY <1>4, ReturnHears DEF Claim
<1>5. ASSUME NEW p \in Polls, FirstClaim(p) PROVE PollInv'
  BY <1>4, <1>5, GotoKeeps DEF FirstClaim, ClaimOr, PollState, HasConn, Listening
<1>6. ASSUME NEW p \in Polls, WakeClaim(p) PROVE PollInv'
  BY <1>4, <1>6, GotoKeeps DEF WakeClaim, ClaimOr, PollState, HasConn, Listening
<1>7. ASSUME NEW p \in Polls, LastClaim(p) PROVE PollInv'
  BY <1>4, <1>7, ReturnHears DEF LastClaim, ClaimOr
<1>8. ASSUME NEW p \in Polls, Acquire(p) PROVE PollInv'
  <2>1. /\ ~HasConn(p) /\ held < PoolSize /\ held' = held + 1
        /\ stage' = [stage EXCEPT ![p] = "listen"]
        /\ UNCHANGED <<row, unsent, mailbox, late, told>>
    BY <1>8 DEF Acquire, ConnFree, HasConn
  <2>2. Holders' = Holders \union {p}
    BY <1>0, <2>1 DEF Holders, HasConn, PollTypeOK
  <2>3. held' = Cardinality(Holders') /\ held' \in 0..PoolSize
    BY <1>0, <2>1, <2>2, HoldersCounted DEF ConnsConserved, Holders, PollTypeOK
  <2>4. PollTypeOK' /\ ConnsConserved'
    BY <1>0, <2>1, <2>3 DEF PollTypeOK, PollState, ConnsConserved, Holders
  <2>5. ToldPollWakes' /\ HeardWaiting'
    BY <1>0, <2>1 DEF ToldPollWakes, Claimable, HeardWaiting, Listening, HasConn, PollTypeOK
  <2> QED
    BY <2>4, <2>5 DEF PollInv, PollsSound
<1>9. ASSUME NEW p \in Polls, Listen(p) PROVE PollInv'
  BY <1>9, GotoKeeps DEF Listen, PollState, HasConn, Listening
<1>10. ASSUME NEW p \in Polls, LoopHead(p) PROVE PollInv'
  BY <1>10, GotoKeeps, ReturnHears DEF LoopHead, PollState, HasConn, Listening
<1>11. ASSUME NEW p \in Polls, DeadlinePasses(p) PROVE PollInv'
  BY <1>0, <1>11 DEF DeadlinePasses, PollInv, PollsSound, PollTypeOK, ConnsConserved,
    HasConn, ToldPollWakes, Claimable, HeardWaiting, Listening
<1>12. ASSUME NEW p \in Polls, NEW a \in Agents, Notified(p, a) PROVE PollInv'
  <2>1. /\ stage[p] = "wait" /\ stage'[p] \in {"wake", "loop"}
        /\ stage'[p] = "loop" => a # For[p]
        /\ mailbox'[p] = mailbox[p] \ {a}
        /\ \A q \in Polls : q # p => stage'[q] = stage[q] /\ mailbox'[q] = mailbox[q]
        /\ UNCHANGED <<row, unsent, late, held, told>>
    BY <1>0, <1>12 DEF Notified, PollTypeOK
  <2>2. PollTypeOK'
    BY <1>0, <1>12 DEF Notified, PollTypeOK, PollState
  <2>3. Holders' = Holders
    BY <1>0, <2>1 DEF Holders, HasConn
  <2>4. ConnsConserved'
    BY <1>0, <2>1, <2>3 DEF ConnsConserved, Holders
  <2>5. ToldPollWakes'
    BY <1>0, <2>1 DEF ToldPollWakes, Claimable
  <2>6. HeardWaiting'
    BY <1>0, <2>1 DEF HeardWaiting, Listening, PollTypeOK
  <2> QED
    BY <2>2, <2>4, <2>5, <2>6 DEF PollInv, PollsSound
<1>13. ASSUME NEW p \in Polls, TimedOut(p) PROVE PollInv'
  BY <1>13, GotoKeeps DEF TimedOut, PollState, HasConn, Listening
<1>14. ASSUME NEW p \in Polls, PollFails(p) PROVE PollInv'
  BY <1>14, ReturnHears DEF PollFails
<1>15. CASE UNCHANGED longPollVars
  BY <1>0, <1>15 DEF longPollVars, PollInv, PollsSound, PollTypeOK, ConnsConserved,
    HasConn, ToldPollWakes, Claimable, HeardWaiting, Listening
<1> QED
  BY <1>1, <1>2, <1>3, <1>5, <1>6, <1>7, <1>8, <1>9, <1>10, <1>11, <1>12, <1>13,
     <1>14, <1>15
  DEF PollNext, Advance

(* The pool's connections are conserved and no poll sleeps through a row it    *)
(* was told of, for any number of polls, rows and connections.                 *)
THEOREM PollsAreSound == PollSpec => []PollsSound
<1>1. PollInit => PollInv
  <2> SUFFICES ASSUME PollInit PROVE PollInv
    OBVIOUS
  <2>1. {p \in Polls : HasConn(p)} = {}
    BY DEF PollInit, HasConn
  <2>2. ConnsConserved
    BY <2>1, FS_EmptySet DEF PollInit, ConnsConserved
  <2> QED
    BY <2>2, PollAssumption DEF PollInit, PollInv, PollsSound, PollTypeOK, RowState,
      PollState, ToldPollWakes, Claimable, HeardWaiting
<1>2. PollInv => PollsSound
  BY DEF PollInv
<1> QED
  BY <1>1, <1>2, PollStep, PTL DEF PollSpec
=================================================================================
