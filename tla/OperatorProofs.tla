------------------------------ MODULE OperatorProofs ------------------------------
(***************************************************************************)
(* The safety properties of the operators, for every value of the          *)
(* constants.                                                              *)
(*                                                                         *)
(* QueueScaling: NothingForgotten needs what a measurement under way is    *)
(* worth (Marks): either it still says what the queue holds, or the agent  *)
(* has been marked since, or somebody is about to mark it; and that the    *)
(* status has what the publisher believes in (Agreed).  ParksOnlyEmpty     *)
(* needs what each copy of an empty measurement proves (FreshEmpty): the   *)
(* queue was empty no longer ago than the copy is old.                     *)
(*                                                                         *)
(* AgentRollout: IdleMeansCurrent needs how far the pass has come          *)
(* (DoneSoFar), for the agent's objects as the caches have them.           *)
(*                                                                         *)
(* ConnectorRollout: KeyHeld needs what each request under way relies on   *)
(* (KeeperFits).                                                           *)
(***************************************************************************)
EXTENDS MCOperator, FiniteSetTheorems, TLAPS

Fits == pending + active <= MaxTasks
Held == Cardinality(With("busy")) <= active

Measured == up /\ pub.pc = "patch" /\ ~ Covered => SameCounts(pub, Depth)
Down     == ~ up => ~ last.known /\ pub.pc = "idle"

Says(signal) == Empty(signal) /\ signal.age <= TTL => fullFor <= signal.age
FreshEmpty ==
  /\ Empty(Depth) => fullFor = 0
  /\ Says(status) /\ Says(cached)
  /\ pub.pc = "patch" /\ Empty(pub) => fullFor = 0

Reported == CaughtUp => SameCounts(last, Depth)
Marks == Reported /\ Measured /\ Down

\* Unless an answer was lost, the status has the counts the publisher believes in.
Agreed == last.known /\ ~ doubtful => SameCounts(status, last)

IInv == TypeOK /\ Fits /\ Held /\ Marks /\ Agreed /\ FreshEmpty

(***************************************************************************)
(* The arithmetic of the scaler.                                           *)
(***************************************************************************)

\* A clamped count lies between the floor and the ceiling, and is not zero
\* unless the number was (clampInt32).
LEMMA ClampBounds ==
  ASSUME NEW n \in Nat
  PROVE  Clamp(n) \in 0..MaxReplicas /\ (n > 0 => Clamp(n) > 0)
BY ScalingAssumption DEF Clamp, Least

\* The decision is within the ceiling; it takes the last pod away only on a fresh
\* measurement of an empty queue (resolveReplicas).
LEMMA ResolveBounds ==
  ASSUME NEW s, s.pending \in Nat, s.active \in Nat, s.age \in Nat, s.quiet \in Nat,
         NEW current \in 0..MaxReplicas
  PROVE  /\ Resolve(s, current) \in 0..MaxReplicas
         /\ current > 0 /\ Resolve(s, current) = 0 => Empty(s) /\ s.age <= TTL
<1>1. CASE s.age > TTL
  BY <1>1, ClampBounds, ScalingAssumption DEF Resolve
<1>2. CASE s.age <= TTL /\ ~ Empty(s)
  <2>1. Work(s) \in Nat /\ Work(s) > 0
    BY <1>2 DEF Work, Empty
  <2>2. Resolve(s, current) = Clamp(Work(s))
    BY <1>2, ScalingAssumption DEF Resolve
  <2>. QED BY <2>1, <2>2, ClampBounds
<1>3. CASE s.age <= TTL /\ Empty(s)
  <2>1. Resolve(s, current) \in {MinReplicas, Least(current, IF MinReplicas > 1 THEN MinReplicas ELSE 1)}
    BY <1>3, ScalingAssumption DEF Resolve
  <2>. QED BY <1>3, <2>1, ScalingAssumption DEF Least
<1>. QED BY <1>1, <1>2, <1>3, ScalingAssumption

(***************************************************************************)
(* The pods that hold a row.                                               *)
(***************************************************************************)
LEMMA BusyFinite == IsFiniteSet(With("busy")) /\ Cardinality(With("busy")) \in Nat
BY ScalingAssumption, FS_Subset, FS_CardinalityType DEF With

\* A step that makes no other pod busy keeps the claims it holds covered.
LEMMA BusyShrinks ==
  ASSUME TypeOK, With("busy")' \subseteq With("busy")
  PROVE  Cardinality(With("busy"))' <= Cardinality(With("busy")) /\ Cardinality(With("busy"))' \in Nat
BY BusyFinite, FS_Subset, FS_CardinalityType

LEMMA BusyGrows ==
  ASSUME TypeOK, NEW p \in Pods, pod[p] # "busy", pod' = [pod EXCEPT ![p] = "busy"]
  PROVE  Cardinality(With("busy"))' = Cardinality(With("busy")) + 1
<1>1. With("busy")' = With("busy") \union {p}
  BY DEF With, TypeOK
<1>2. p \notin With("busy")
  BY DEF With
<1>. QED BY <1>1, <1>2, BusyFinite, FS_AddElement

LEMMA BusyEnds ==
  ASSUME TypeOK, NEW p \in Pods, pod[p] = "busy", pod' = [pod EXCEPT ![p] = "idle"]
  PROVE  Cardinality(With("busy"))' = Cardinality(With("busy")) - 1 /\ Cardinality(With("busy")) > 0
<1>1. With("busy")' = With("busy") \ {p}
  BY DEF With, TypeOK
<1>2. p \in With("busy")
  BY DEF With
<1>3. Cardinality(With("busy")) # 0
  BY <1>2, BusyFinite, FS_EmptySet
<1>. QED BY <1>1, <1>2, <1>3, BusyFinite, FS_RemoveElement

(***************************************************************************)
(* Type correctness.                                                       *)
(***************************************************************************)
LEMMA Bounded ==
  ASSUME NEW age \in Nat, NEW bound \in Nat, age <= bound
  PROVE  UpTo(age, bound) \in 0..bound /\ UpTo(age, bound) <= age + 1
BY DEF UpTo

\* The values the publisher, the status and the memory start from, and move to.
LEMMA States ==
  /\ Unknown \in Published /\ Unmeasured \in Signal
  /\ Asleep \in PublisherState
  /\ \A force \in BOOLEAN : [Asleep EXCEPT !.pc = "count", !.force = force] \in PublisherState
<1>1. Unknown \in Published
  BY ScalingAssumption DEF Unknown, Published
<1>2. Unmeasured \in Signal
  BY ScalingAssumption DEF Unmeasured, Signal
<1>3. Asleep \in PublisherState
  BY ScalingAssumption DEF Asleep, PublisherState
<1>4. ASSUME NEW force \in BOOLEAN
      PROVE  [Asleep EXCEPT !.pc = "count", !.force = force] \in PublisherState
  BY <1>3 DEF PublisherState
<1>. QED BY <1>1, <1>2, <1>3, <1>4

\* However a round begins, the mark is taken.
LEMMA RoundStarts ==
  ASSUME NEW marked, NEW force \in BOOLEAN, StartRound(marked, force)
  PROVE  pub' \in PublisherState /\ dirty' = FALSE
BY States DEF StartRound

LEMMA FaultsBounded ==
  ASSUME TypeOK, CanFail \/ UNCHANGED faults
  PROVE  faults' \in 0..MaxFaults
BY ScalingAssumption DEF CanFail, TypeOK

LEMMA TypeInit == Init => TypeOK
<1>1. Init => (untold \in BOOLEAN /\ dirty \in BOOLEAN /\ swept \in BOOLEAN /\ up \in BOOLEAN /\ missed \in BOOLEAN
              /\ doubtful \in BOOLEAN)
  BY Zenon DEF Init
<1>2. Init => pub \in PublisherState /\ last \in Published /\ status \in Signal /\ cached \in Signal
  BY States DEF Init
<1>. QED BY <1>1, <1>2, ScalingAssumption DEF Init, TypeOK

\* What a round writes is a measurement.
LEMMA WrittenType ==
  ASSUME TypeOK
  PROVE  Written \in Signal
BY ScalingAssumption DEF TypeOK, Written, Signal, PublisherState

LEMMA AgedType ==
  ASSUME NEW s \in Signal
  PROVE  /\ Aged(s) \in Signal
         /\ Aged(s).pending = s.pending /\ Aged(s).active = s.active
         /\ Aged(s).age = UpTo(s.age, TTL + 1)
<1>1. /\ UpTo(s.age, TTL + 1) \in 0..(TTL + 1)
      /\ UpTo(s.quiet, Window) \in 0..Window
  BY Bounded, ScalingAssumption DEF Signal
<1>. QED BY <1>1 DEF Aged, Signal

LEMMA TypeStep ==
  ASSUME IInv, [Next]_vars
  PROVE  TypeOK'
<1>. USE ScalingAssumption DEF IInv
<1>. USE DEF queue, loop, hub, operator, history
<1>1. ASSUME Enqueue PROVE TypeOK'
  BY <1>1 DEF Enqueue, Changed, TypeOK
<1>2. ASSUME NEW p \in Pods, Claim(p) PROVE TypeOK'
  BY <1>2 DEF Claim, Changed, TypeOK, Fits
<1>3. ASSUME NEW p \in Pods, Report(p) \/ NackUnobserved(p) PROVE TypeOK'
  <2>1. pod' = [pod EXCEPT ![p] = "idle"] /\ pod[p] = "busy"
    BY <1>3 DEF Report, NackUnobserved, Release
  <2>2. active > 0
    <3>1. Cardinality(With("busy")) > 0
      BY <2>1, BusyEnds
    <3>. QED BY <3>1, BusyFinite DEF Held, TypeOK
  <2>3. pending' \in 0..MaxTasks /\ active' \in 0..MaxTasks
    BY <1>3, <2>2 DEF Report, NackUnobserved, Release, TypeOK, Fits
  <2>4. UNCHANGED <<dirty, last, pub, swept, up, status, cached, desired>>
    BY <1>3 DEF Report, NackUnobserved, Changed
  <2>5. fullFor' \in 0..(TTL + 1) /\ faults' \in 0..MaxFaults
    BY <1>3 DEF Report, NackUnobserved, Changed, CanFail, TypeOK
  <2>6. untold' \in BOOLEAN /\ missed' \in BOOLEAN /\ doubtful' \in BOOLEAN
    BY <1>3, Zenon DEF Report, NackUnobserved, Changed, TypeOK
  <2>7. pod' \in [Pods -> {"gone", "idle", "busy"}]
    BY <2>1 DEF TypeOK
  <2>. QED BY <2>3, <2>4, <2>5, <2>6, <2>7 DEF TypeOK
<1>4. ASSUME Reap PROVE TypeOK'
  <2>1. active > 0
    BY <1>4, BusyFinite DEF Reap, Orphans, TypeOK
  <2>2. pending' \in 0..MaxTasks /\ active' \in 0..MaxTasks
    BY <1>4, <2>1 DEF Reap, TypeOK, Fits
  <2>3. untold' = TRUE
        /\ UNCHANGED <<pod, dirty, last, pub, swept, up, status, cached, desired, missed, doubtful, faults>>
    BY <1>4 DEF Reap, Changed
  <2>4. fullFor' \in {0, fullFor}
    BY <1>4, Zenon DEF Reap, Changed
  <2>. QED BY <2>2, <2>3, <2>4 DEF TypeOK
<1>5. ASSUME Observe PROVE TypeOK'
  BY <1>5 DEF Observe, TypeOK
<1>6. ASSUME Sweep PROVE TypeOK'
  <2>1. \E marked : StartRound(marked, TRUE)
    BY <1>6, Zenon DEF Sweep
  <2>2. pub' \in PublisherState /\ dirty' = FALSE
    BY <2>1, RoundStarts
  <2>3. missed' \in BOOLEAN
    BY <1>6, Zenon DEF Sweep, TypeOK
  <2>4. faults' \in 0..MaxFaults
    <3>1. CanFail \/ UNCHANGED faults
      BY <1>6, Zenon DEF Sweep
    <3>. QED BY <3>1, FaultsBounded
  <2>5. swept' = TRUE /\ UNCHANGED <<pending, active, pod, untold, last, up, status, cached, desired, doubtful, fullFor>>
    BY <1>6 DEF Sweep
  <2>. QED BY <2>2, <2>3, <2>4, <2>5 DEF TypeOK
<1>7. ASSUME Round PROVE TypeOK'
  BY <1>7, States DEF Round, StartRound, TypeOK
<1>8. ASSUME Count PROVE TypeOK'
  <2>1. [pc |-> "patch", force |-> FALSE, pending |-> pending, active |-> active, stamp |-> Stamps]
          \in PublisherState
    <3>1. Stamps \in BOOLEAN
      BY DEF Stamps
    <3>. QED BY <3>1 DEF TypeOK, PublisherState
  <2>2. pub' \in PublisherState
    BY <1>8, <2>1, States DEF Count
  <2>3. dirty' \in BOOLEAN
    BY <1>8, Zenon DEF Count, TypeOK
  <2>4. faults' \in 0..MaxFaults
    BY <1>8 DEF Count, CanFail, TypeOK
  <2>5. UNCHANGED <<pending, active, pod, untold, last, swept, up, status, cached, desired, missed,
                    doubtful, fullFor>>
    BY <1>8 DEF Count
  <2>. QED BY <2>2, <2>3, <2>4, <2>5 DEF TypeOK
<1>9. ASSUME Patch PROVE TypeOK'
  <2>1. last' \in Published
    BY <1>9 DEF Patch, TypeOK, PublisherState, Published
  <2>. QED BY <1>9, <2>1, WrittenType, States DEF Patch, TypeOK
<1>10. ASSUME PatchFails PROVE TypeOK'
  <2>1. faults' \in 0..MaxFaults
    BY <1>10, FaultsBounded DEF PatchFails
  <2>. QED BY <1>10, <2>1, WrittenType, States DEF PatchFails, TypeOK
<1>11. ASSUME HubDies PROVE TypeOK'
  <2>1. faults' \in 0..MaxFaults
    BY <1>11, FaultsBounded DEF HubDies
  <2>. QED BY <1>11, <2>1, States DEF HubDies, TypeOK
<1>12. ASSUME HubStarts PROVE TypeOK'
  BY <1>12 DEF HubStarts, TypeOK
<1>13. ASSUME Watch PROVE TypeOK'
  BY <1>13 DEF Watch, TypeOK
<1>14. ASSUME Reconcile PROVE TypeOK'
  <2>1. Resolve(cached, desired) \in 0..MaxReplicas
    BY ResolveBounds DEF TypeOK, Signal
  <2>. QED BY <1>14, <2>1 DEF Reconcile, TypeOK
<1>15. ASSUME NEW p \in Pods, StartPod(p) \/ StopPod(p) PROVE TypeOK'
  BY <1>15 DEF StartPod, StopPod, TypeOK
<1>16. ASSUME Tick PROVE TypeOK'
  <2>1. Aged(status) \in Signal /\ Aged(cached) \in Signal
    BY AgedType DEF TypeOK
  <2>2. fullFor' \in 0..(TTL + 1)
    BY <1>16, Bounded DEF Tick, TypeOK
  <2>. QED BY <1>16, <2>1, <2>2 DEF Tick, TypeOK
<1>17. ASSUME UNCHANGED vars PROVE TypeOK'
  BY <1>17 DEF vars, TypeOK
<1>. QED
  BY <1>1, <1>2, <1>3, <1>4, <1>5, <1>6, <1>7, <1>8, <1>9, <1>10, <1>11, <1>12, <1>13, <1>14, <1>15,
     <1>16, <1>17 DEF Next, OfPod

(***************************************************************************)
(* Rows fit their bound and no more pods hold a row than rows are held.    *)
(***************************************************************************)
LEMMA RoomStep ==
  ASSUME IInv, [Next]_vars
  PROVE  Fits' /\ Held'
<1>. USE DEF IInv
<1>1. ASSUME UNCHANGED queue PROVE Fits' /\ Held'
  BY <1>1 DEF queue, Fits, Held, With
<1>2. ASSUME Enqueue PROVE Fits' /\ Held'
  <2>1. With("busy")' = With("busy")
    BY <1>2 DEF Enqueue, With
  <2>2. pending' = pending + 1 /\ active' = active /\ pending + active < MaxTasks
    BY <1>2 DEF Enqueue
  <2>. QED BY <2>1, <2>2, ScalingAssumption DEF Fits, Held, TypeOK
<1>4. ASSUME NEW p \in Pods, Claim(p) PROVE Fits' /\ Held'
  <2>1. Cardinality(With("busy"))' = Cardinality(With("busy")) + 1
    BY <1>4, BusyGrows DEF Claim
  <2>. QED BY <1>4, <2>1, BusyFinite DEF Claim, Fits, Held, TypeOK
<1>5. ASSUME NEW p \in Pods, Report(p) \/ NackUnobserved(p) PROVE Fits' /\ Held'
  <2>1. /\ pod[p] = "busy" /\ pod' = [pod EXCEPT ![p] = "idle"]
        /\ active' = active - 1 /\ pending' \in {pending, pending + 1}
    BY <1>5 DEF Report, NackUnobserved, Release
  <2>2. Cardinality(With("busy"))' = Cardinality(With("busy")) - 1
    BY <2>1, BusyEnds
  <2>3. Held'
    <3>1. Cardinality(With("busy")) <= active /\ active \in Nat /\ Cardinality(With("busy")) \in Nat
      BY BusyFinite DEF Held, TypeOK
    <3>2. Cardinality(With("busy"))' <= active'
      BY <2>1, <2>2, <3>1
    <3>. QED BY <3>2 DEF Held
  <2>4. Fits'
    <3>1. pending \in Nat /\ active \in Nat /\ MaxTasks \in Nat /\ pending + active <= MaxTasks
      BY ScalingAssumption DEF Fits, TypeOK
    <3>2. active' = active - 1 /\ (pending' = pending \/ pending' = pending + 1)
      BY <2>1
    <3>3. pending' + active' <= MaxTasks
      BY <3>1, <3>2
    <3>. QED BY <3>3 DEF Fits
  <2>. QED BY <2>3, <2>4
<1>6. ASSUME Reap PROVE Fits' /\ Held'
  <2>1. With("busy")' = With("busy")
    BY <1>6 DEF Reap, With
  <2>2. active - Cardinality(With("busy")) > 0 /\ active' = active - 1
        /\ pending' \in {pending, pending + 1}
    BY <1>6 DEF Reap, Orphans
  <2>3. Held'
    <3>1. active \in Nat /\ Cardinality(With("busy")) \in Nat
      BY BusyFinite DEF TypeOK
    <3>2. Cardinality(With("busy"))' <= active'
      BY <2>1, <2>2, <3>1
    <3>. QED BY <3>2 DEF Held
  <2>4. Fits'
    <3>1. pending \in Nat /\ active \in Nat /\ MaxTasks \in Nat /\ pending + active <= MaxTasks
      BY ScalingAssumption DEF Fits, TypeOK
    <3>2. active' = active - 1 /\ (pending' = pending \/ pending' = pending + 1)
      BY <2>2
    <3>3. pending' + active' <= MaxTasks
      BY <3>1, <3>2
    <3>. QED BY <3>3 DEF Fits
  <2>. QED BY <2>3, <2>4
<1>7. ASSUME NEW p \in Pods, StartPod(p) \/ StopPod(p) PROVE Fits' /\ Held'
  <2>1. With("busy")' \subseteq With("busy")
    BY <1>7 DEF StartPod, StopPod, With, TypeOK
  <2>2. UNCHANGED <<pending, active>>
    BY <1>7 DEF StartPod, StopPod
  <2>3. Cardinality(With("busy"))' <= Cardinality(With("busy")) /\ Cardinality(With("busy"))' \in Nat
    BY <2>1, BusyShrinks
  <2>. QED BY <2>2, <2>3, BusyFinite DEF Fits, Held, TypeOK
<1>8. ASSUME \/ Observe \/ Sweep \/ Round \/ Count \/ Patch \/ PatchFails \/ HubDies
             \/ HubStarts \/ Watch \/ Reconcile \/ Tick \/ UNCHANGED vars
      PROVE  UNCHANGED queue
  BY <1>8 DEF Observe, Sweep, Round, Count, Patch, PatchFails, HubDies, HubStarts, Watch,
              Reconcile, Tick, vars
<1>. QED
  BY <1>1, <1>2, <1>4, <1>5, <1>6, <1>7, <1>8 DEF Next, OfPod

(***************************************************************************)
(* What the publisher still owes.                                          *)
(***************************************************************************)
LEMMA MarksStep ==
  ASSUME IInv, [Next]_vars
  PROVE  Marks'
<1>. USE DEF IInv, Marks, queue, loop, hub, operator, history
<1>1. ASSUME Covered', UNCHANGED <<up, last, pub>> PROVE Marks'
  BY <1>1 DEF Reported, Measured, Down, CaughtUp
<1>2. ASSUME pub'.pc = "count", up' PROVE Marks'
  BY <1>2 DEF Reported, Measured, Down, CaughtUp
<1>3. ASSUME UNCHANGED <<up, dirty, last, pub, untold, missed, pending, active>> PROVE Marks'
  BY <1>3 DEF Reported, Measured, Down, CaughtUp, Covered, Depth, SameCounts
<1>4. ASSUME pub' = Asleep, up', Covered' \/ ~ last'.known \/ SameCounts(last, Depth)' PROVE Marks'
  BY <1>4 DEF Reported, Measured, Down, CaughtUp, Asleep
<1>5. ASSUME \/ Enqueue \/ Reap \/ Observe
             \/ \E p \in Pods : Claim(p) \/ Report(p) \/ NackUnobserved(p)
      PROVE  Marks'
  <2>1. Covered'
    BY <1>5, Zenon DEF Enqueue, Reap, Observe, Claim, Report, NackUnobserved, Changed, Covered
  <2>2. UNCHANGED <<up, last, pub>>
    BY <1>5 DEF Enqueue, Reap, Observe, Claim, Report, NackUnobserved, Changed
  <2>. QED BY <1>1, <2>1, <2>2
<1>6. ASSUME Sweep PROVE Marks'
  <2>1. up' /\ UNCHANGED <<pending, active, untold, last>> /\ up /\ pub.pc = "idle"
    BY <1>6 DEF Sweep
  <2>2. ASSUME NEW marked, marked, StartRound(marked, TRUE) PROVE Marks'
    BY <1>2, <2>1, <2>2 DEF StartRound, Asleep
  <2>3. ASSUME NEW marked, ~ marked, StartRound(marked, TRUE) PROVE pub' = Asleep
    BY <2>3 DEF StartRound
  <2>4. CASE StartRound(dirty \/ Marked(TRUE), TRUE)
    BY <2>2, <2>4 DEF Marked
  <2>5. CASE StartRound(dirty \/ Marked(FALSE), TRUE)
    <3>1. CASE dirty \/ Marked(FALSE)
      BY <2>2, <2>5, <3>1
    <3>2. CASE ~ (dirty \/ Marked(FALSE))
      <4>1. ~ last'.known
        BY <2>1, <3>2 DEF Marked
      <4>. QED BY <1>4, <2>1, <2>3, <2>5, <3>2, <4>1
    <3>. QED BY <3>1, <3>2
  <2>6. CASE StartRound(dirty, TRUE) /\ UNCHANGED missed
    <3>1. CASE dirty
      BY <2>2, <2>6, <3>1
    <3>2. CASE ~ dirty
      <4>1. ~ dirty' /\ pub' = Asleep
        BY <2>3, <2>6, <3>2 DEF StartRound
      <4>2. Covered' \/ ~ last'.known \/ SameCounts(last, Depth)'
        <5>. SUFFICES ASSUME ~ untold, ~ missed, last.known
                      PROVE  SameCounts(last, Depth)'
          BY <2>1, <2>6, Zenon DEF Covered
        <5>1. CaughtUp
          BY <2>1, <3>2 DEF CaughtUp, Covered
        <5>. QED BY <2>1, <5>1 DEF Reported, SameCounts, Depth
      <4>. QED BY <1>4, <2>1, <4>1, <4>2
    <3>. QED BY <3>1, <3>2
  <2>. QED BY <1>6, <2>4, <2>5, <2>6 DEF Sweep
<1>7. ASSUME Round PROVE Marks'
  BY <1>2, <1>7 DEF Round, StartRound, Asleep
<1>8. ASSUME Count PROVE Marks'
  <2>1. up' /\ UNCHANGED <<pending, active, untold, last, missed>>
    BY <1>8 DEF Count
  <2>2. CASE SameCounts(last, Depth) /\ pub' = Asleep
    BY <1>4, <2>1, <2>2 DEF SameCounts, Depth
  <2>3. CASE pub' = Asleep /\ dirty'
    BY <1>4, <2>1, <2>3 DEF Covered
  <2>4. CASE pub' = [pc |-> "patch", force |-> FALSE, pending |-> pending,
                     active |-> active, stamp |-> Stamps]
    BY <2>1, <2>4 DEF Reported, Measured, Down, CaughtUp, SameCounts, Depth
  <2>. QED BY <1>8, <2>2, <2>3, <2>4 DEF Count
<1>9. ASSUME Patch PROVE Marks'
  <2>1. Covered' \/ SameCounts(last, Depth)'
    BY <1>9 DEF Patch, Measured, Covered, SameCounts, Depth
  <2>. QED BY <1>4, <1>9, <2>1 DEF Patch
<1>10. ASSUME PatchFails PROVE Marks'
  BY <1>4, <1>10 DEF PatchFails, Covered
<1>11. ASSUME HubDies PROVE Marks'
  BY <1>11 DEF HubDies, Asleep, Unknown, Reported, Measured, Down, CaughtUp
<1>12. ASSUME HubStarts PROVE Marks'
  BY <1>12 DEF HubStarts, Reported, Measured, Down, CaughtUp
<1>13. ASSUME \/ Watch \/ Reconcile \/ Tick \/ UNCHANGED vars
              \/ \E p \in Pods : StartPod(p) \/ StopPod(p)
       PROVE  Marks'
  <2>1. UNCHANGED <<up, dirty, last, pub, untold, missed, pending, active>>
    BY <1>13 DEF Watch, Reconcile, Tick, StartPod, StopPod, vars
  <2>. QED BY <1>3, <2>1
<1>. QED
  BY <1>5, <1>6, <1>7, <1>8, <1>9, <1>10, <1>11, <1>12, <1>13 DEF Next, OfPod

(***************************************************************************)
(* What the publisher believes to have written.                            *)
(***************************************************************************)
LEMMA AgreedStep ==
  ASSUME IInv, [Next]_vars
  PROVE  Agreed'
<1>. USE DEF IInv, queue, loop, hub, operator, history
<1>1. ASSUME UNCHANGED <<last, status, doubtful>> PROVE Agreed'
  BY <1>1 DEF Agreed, SameCounts
<1>2. CASE Patch
  BY <1>2 DEF Patch, Written, Agreed, SameCounts
<1>3. CASE PatchFails
  BY <1>3 DEF PatchFails, Agreed, SameCounts
<1>4. CASE HubDies
  BY <1>4 DEF HubDies, Unknown, Agreed
<1>5. CASE Tick
  <2>1. status' = Aged(status) /\ last' = last /\ doubtful' = doubtful /\ status \in Signal
    BY <1>5 DEF Tick, TypeOK
  <2>. QED BY <2>1, AgedType DEF Agreed, SameCounts
<1>6. ASSUME \/ Enqueue \/ Reap \/ Observe \/ Sweep \/ Round \/ Count \/ HubStarts \/ Watch
             \/ Reconcile \/ UNCHANGED vars \/ \E p \in Pods : OfPod(p)
      PROVE  UNCHANGED <<last, status, doubtful>>
  BY <1>6 DEF Enqueue, Reap, Observe, Sweep, Round, Count, HubStarts, Watch, Reconcile, vars, OfPod,
              Claim, Report, NackUnobserved, StartPod, StopPod, Changed
<1>. QED BY <1>1, <1>2, <1>3, <1>4, <1>5, <1>6 DEF Next

(***************************************************************************)
(* What an empty measurement proves.                                       *)
(***************************************************************************)
LEMMA FreshStep ==
  ASSUME IInv, [Next]_vars
  PROVE  FreshEmpty'
<1>. USE ScalingAssumption DEF IInv, queue, loop, hub, operator, history
<1>1. ASSUME fullFor' \in {0, fullFor}, Empty(Depth)' => fullFor' = 0,
             UNCHANGED <<status, cached>>, pub' = pub \/ pub'.pc # "patch"
      PROVE  FreshEmpty'
  BY <1>1 DEF FreshEmpty, Says, Empty, TypeOK, Signal
<1>2. ASSUME \/ Enqueue \/ Reap \/ \E p \in Pods : Claim(p) \/ Report(p) \/ NackUnobserved(p)
      PROVE  FreshEmpty'
  <2>1. fullFor' = IF pending' + active' = 0 THEN 0 ELSE fullFor
    BY <1>2, Zenon DEF Enqueue, Reap, Claim, Report, NackUnobserved, Changed
  <2>2. UNCHANGED <<status, cached, pub>>
    BY <1>2 DEF Enqueue, Reap, Claim, Report, NackUnobserved, Changed
  <2>3. Empty(Depth)' => fullFor' = 0
    BY <2>1 DEF Empty, Depth
  <2>. QED BY <1>1, <2>1, <2>2, <2>3
<1>3. ASSUME \/ Observe \/ Sweep \/ Round \/ HubDies \/ HubStarts \/ UNCHANGED vars
             \/ \E p \in Pods : StartPod(p) \/ StopPod(p)
      PROVE  FreshEmpty'
  <2>1. UNCHANGED <<pending, active, fullFor, status, cached>>
    BY <1>3 DEF Observe, Sweep, Round, HubDies, HubStarts, StartPod, StopPod, vars
  <2>2. ASSUME NEW marked, NEW force, StartRound(marked, force)
        PROVE  pub'.pc # "patch"
    BY <2>2 DEF StartRound, Asleep
  <2>3. pub' = pub \/ pub'.pc # "patch"
    <3>1. CASE Sweep \/ Round
      BY <2>2, <3>1, Zenon DEF Sweep, Round
    <3>2. CASE HubDies
      BY <3>2 DEF HubDies, Asleep
    <3>3. CASE ~ (Sweep \/ Round \/ HubDies)
      BY <1>3, <3>3 DEF Observe, HubStarts, StartPod, StopPod, vars
    <3>. QED BY <3>1, <3>2, <3>3
  <2>. QED BY <1>1, <2>1, <2>3 DEF FreshEmpty, Empty, Depth
<1>4. ASSUME Count PROVE FreshEmpty'
  <2>1. pub'.pc = "patch" => pub'.pending = pending /\ pub'.active = active
    BY <1>4 DEF Count, Asleep
  <2>2. UNCHANGED <<pending, active, fullFor, status, cached>>
    BY <1>4 DEF Count
  <2>. QED BY <2>1, <2>2 DEF FreshEmpty, Says, Empty, Depth
<1>5. ASSUME Patch \/ PatchFails PROVE FreshEmpty'
  <2>1. Empty(Written) => fullFor = 0
    BY <1>5 DEF Patch, PatchFails, Written, Empty, FreshEmpty
  <2>2. Says(Written)
    BY <2>1 DEF Says, Written
  <2>3. status' \in {status, Written} /\ pub' = Asleep /\ UNCHANGED <<pending, active, fullFor, cached>>
    BY <1>5 DEF Patch, PatchFails
  <2>. QED BY <2>2, <2>3 DEF FreshEmpty, Says, Empty, Depth, Asleep
<1>6. ASSUME Watch PROVE FreshEmpty'
  BY <1>6 DEF Watch, FreshEmpty, Says, Empty, Depth
<1>7. ASSUME Reconcile PROVE FreshEmpty'
  BY <1>7 DEF Reconcile, FreshEmpty, Says, Empty, Depth
<1>8. ASSUME Tick PROVE FreshEmpty'
  <2>1. ASSUME NEW s \in Signal, Says(s), Empty(Aged(s)), Aged(s).age <= TTL
        PROVE  fullFor' <= Aged(s).age
    <3>1. Empty(s) /\ s.age <= TTL /\ Aged(s).age = s.age + 1
      BY <2>1, AgedType DEF Empty, UpTo, Signal
    <3>2. fullFor' <= fullFor + 1
      BY <1>8, Bounded DEF Tick, TypeOK
    <3>. QED BY <2>1, <3>1, <3>2, <1>8 DEF Says, Tick, TypeOK, Signal, UpTo
  <2>2. status' = Aged(status) /\ cached' = Aged(cached) /\ pub'.pc = "idle"
    BY <1>8 DEF Tick
  <2>3. Empty(Depth)' => fullFor' = 0
    BY <1>8 DEF Tick, Empty, Depth
  <2>. QED BY <2>1, <2>2, <2>3 DEF FreshEmpty, Says, TypeOK
<1>. QED
  BY <1>2, <1>3, <1>4, <1>5, <1>6, <1>7, <1>8 DEF Next, OfPod

(***************************************************************************)
(* Theorems.                                                               *)
(***************************************************************************)
LEMMA Invariance == Spec => []IInv
<1>1. Init => IInv
  <2>1. Init => TypeOK
    BY TypeInit
  <2>2. Init => Fits /\ FreshEmpty
    BY ScalingAssumption DEF Init, Fits, FreshEmpty, Says, Empty, Depth, Unmeasured, Asleep
  <2>3. Init => Held
    <3>1. Init => With("busy") = {}
      BY DEF Init, With
    <3>. QED BY <3>1, FS_EmptySet DEF Init, Held
  <2>4. Init => Marks
    BY DEF Init, Marks, Reported, Measured, Down, CaughtUp, Unknown, Asleep
  <2>5. Init => Agreed
    BY DEF Init, Agreed, Unknown
  <2>. QED BY <2>1, <2>2, <2>3, <2>4, <2>5 DEF IInv
<1>2. IInv /\ [Next]_vars => IInv'
  BY TypeStep, RoomStep, MarksStep, AgreedStep, FreshStep DEF IInv
<1>. QED BY <1>1, <1>2, PTL DEF Spec

\* Type correctness, the replica count's ceiling included.
THEOREM TypeCorrect == Spec => []TypeOK
<1>1. IInv => TypeOK
  BY DEF IInv
<1>. QED BY <1>1, Invariance, PTL

\* A publisher that has nothing left to do last wrote what the queue holds, for
\* any interleaving of changes with its rounds, and the Agent's status says so
\* unless the answer of a patch was lost (publishRound, publishOne).
THEOREM NothingIsForgotten == Spec => []NothingForgotten
<1>1. IInv => NothingForgotten
  <2>. SUFFICES ASSUME IInv, CaughtUp
                PROVE  SameCounts(last, Depth) /\ (SameCounts(status, Depth) \/ doubtful)
    BY DEF NothingForgotten
  <2>1. SameCounts(last, Depth)
    BY DEF IInv, Marks, Reported
  <2>2. SameCounts(status, last) \/ doubtful
    BY DEF IInv, Agreed, CaughtUp
  <2>. QED BY <2>1, <2>2 DEF SameCounts
<1>. QED BY <1>1, Invariance, PTL

\* The last pod goes only if the queue was empty within the TTL, however late the
\* operator acts and whatever the hub lost (resolveReplicas).
THEOREM ParkingIsProven == Spec => ParksOnlyEmpty
<1>1. ASSUME IInv, [Next]_vars, desired > 0, desired' = 0
      PROVE  fullFor <= TTL
  <2>. USE ScalingAssumption DEF IInv
  <2>1. Reconcile
    <3>1. ASSUME \/ Enqueue \/ Reap \/ Observe
                 \/ \E p \in Pods : OfPod(p)
          PROVE  UNCHANGED desired
      BY <3>1 DEF OfPod, Enqueue, Reap, Observe, Claim, Report, NackUnobserved, StartPod, StopPod,
                  Changed, operator
    <3>2. ASSUME \/ Sweep \/ Round \/ Count \/ Patch \/ PatchFails \/ HubDies \/ HubStarts
                 \/ Watch \/ Tick \/ UNCHANGED vars
          PROVE  UNCHANGED desired
      BY <3>2 DEF Sweep, Round, Count, Patch, PatchFails, HubDies, HubStarts, Watch, Tick, vars, operator
    <3>3. desired' # desired
      BY <1>1
    <3>. QED BY <1>1, <3>1, <3>2, <3>3 DEF Next
  <2>2. Resolve(cached, desired) = 0
    BY <1>1, <2>1 DEF Reconcile
  <2>3. Empty(cached) /\ cached.age <= TTL
    BY <1>1, <2>2, ResolveBounds DEF TypeOK, Signal
  <2>. QED BY <1>1, <2>3 DEF FreshEmpty, Says, TypeOK, Signal
<1>2. IInv /\ [Next]_vars => [desired > 0 /\ desired' = 0 => fullFor <= TTL]_vars
  BY <1>1
<1>. QED BY <1>2, Invariance, PTL DEF Spec, ParksOnlyEmpty

(***************************************************************************)
(* What is left to do of an agent.                                         *)
(***************************************************************************)
RolloutShape ==
  /\ DOMAIN api = Kinds /\ DOMAIN seen = Kinds /\ lag \subseteq Kinds
  /\ DOMAIN api.agent = {"spec", "gen", "seenGen", "ready"} /\ DOMAIN api.deploy = {"template", "up"}
  /\ DOMAIN pass = {"pc", "agent", "profile"}
  /\ pass.pc \in {"idle", "unready", "models", "env", "deploy", "status"}
  /\ pass.pc = "idle" => pass = AtRest
  /\ pass.pc = "unready" => pass.profile = NoProfile

\* A cache has the newest object, or an event under way brings it.
Cached == \A kind \in Kinds \ lag : seen[kind] = api[kind]

SpecSeen == seen.agent.spec
ProfileSeen == seen.profile[SpecSeen.profile]

\* The template without what restarts nothing.
TemplateOwed(spec, profile, objects) ==
  Template(spec, profile,
           [key |-> IF spec.key THEN objects.key ELSE 0, env |-> objects.env,
            persona |-> objects.persona[spec.persona],
            skills |-> SkillsHash(spec, profile, objects), digest |-> 0])

\* The pass, or the last one, has come that far.
Past(stages) == pass.pc \in stages \/ (pass.pc = "idle" /\ ProfileSeen # NoProfile)

\* Unless the agent is in the work queue, the pass under way reads what the caches have, and what
\* it has written, or the last one has, is what the caches ask for.
DoneSoFar ==
  /\ pass.pc # "idle" => pass.agent = seen.agent /\ pass.profile = ProfileSeen
  /\ Past({"env", "deploy", "status"}) => api.models = ModelsFile(SpecSeen)
  /\ Past({"deploy", "status"}) => "env" \in lag \/ api.env = EnvSecret(SpecSeen, ProfileSeen)
  /\ Past({"status"}) =>
       Digestless(api.deploy.template, SpecSeen) = TemplateOwed(SpecSeen, ProfileSeen, seen)
  /\ Past({}) => "agent" \in lag \/ api.agent.seenGen = api.agent.gen

RolloutInv == RolloutShape /\ Cached /\ (waiting \/ DoneSoFar)

\* The mask of a template is the template of the masked hashes.
LEMMA MaskedTemplate ==
  ASSUME NEW spec, NEW profile, NEW objects, NEW digest
  PROVE  Digestless(Template(spec, profile, Hashes(spec, profile, objects, digest)), spec)
           = TemplateOwed(spec, profile, objects)
<1>1. ASSUME NEW url, NEW model, NEW mounts, NEW key, NEW env, NEW servers, NEW tokens,
             NEW sidecar, NEW k, NEW e, NEW p, NEW s, NEW d
      PROVE  Digestless([url |-> url, model |-> model, mounts |-> mounts, key |-> key, env |-> env,
                         servers |-> servers, tokens |-> tokens, sidecar |-> sidecar,
                         hash |-> [key |-> k, env |-> e, persona |-> p, skills |-> s, digest |-> d]], spec)
               = [url |-> url, model |-> model, mounts |-> mounts, key |-> key, env |-> env,
                  servers |-> servers, tokens |-> tokens, sidecar |-> sidecar,
                  hash |-> [key |-> IF spec.key THEN k ELSE 0, env |-> e, persona |-> p, skills |-> s,
                            digest |-> 0]]
  <2>1. PICK h, x : h = [key |-> k, env |-> e, persona |-> p, skills |-> s, digest |-> d]
                    /\ x = IF spec.key THEN k ELSE 0
    OBVIOUS
  <2>2. PICK t : t = [url |-> url, model |-> model, mounts |-> mounts, key |-> key, env |-> env,
                      servers |-> servers, tokens |-> tokens, sidecar |-> sidecar, hash |-> h]
    OBVIOUS
  <2>3. PICK h1 : h1 = [key |-> k, env |-> e, persona |-> p, skills |-> s, digest |-> 0]
    OBVIOUS
  <2>4. PICK t1 : t1 = [url |-> url, model |-> model, mounts |-> mounts, key |-> key, env |-> env,
                        servers |-> servers, tokens |-> tokens, sidecar |-> sidecar, hash |-> h1]
    OBVIOUS
  <2>5. PICK h2 : h2 = [key |-> x, env |-> e, persona |-> p, skills |-> s, digest |-> 0]
    OBVIOUS
  <2>6. t.hash = h /\ t.hash.key = k /\ t1.hash = h1
    BY ONLY <2>1, <2>2, <2>4
  <2>7. [h EXCEPT !.digest = 0] = h1
    BY ONLY <2>1, <2>3
  <2>8. [h1 EXCEPT !.key = x] = h2
    BY ONLY <2>3, <2>5
  <2>9. [t EXCEPT !.hash = h1] = t1
    BY ONLY <2>2, <2>4
  <2>10. [t1 EXCEPT !.hash = h2] = [url |-> url, model |-> model, mounts |-> mounts, key |-> key,
                                    env |-> env, servers |-> servers, tokens |-> tokens,
                                    sidecar |-> sidecar, hash |-> h2]
    BY ONLY <2>4
  <2>11. Digestless(t, spec) = [[t EXCEPT !.hash = [t.hash EXCEPT !.digest = 0]] EXCEPT
                                !.hash = [[t EXCEPT !.hash = [t.hash EXCEPT !.digest = 0]].hash EXCEPT
                                          !.key = x]]
    <3>1. x = IF spec.key THEN t.hash.key ELSE 0
      BY ONLY <2>1, <2>6
    <3>. QED BY <3>1, Zenon DEF Digestless
  <2>12. Digestless(t, spec) = [t1 EXCEPT !.hash = h2]
    BY ONLY <2>6, <2>7, <2>8, <2>9, <2>11
  <2>. QED BY ONLY <2>1, <2>2, <2>5, <2>10, <2>12
<1>. QED BY <1>1 DEF Template, TemplateOwed, Hashes

LEMMA RolloutStart == RolloutInit => RolloutInv
<1>. SUFFICES ASSUME RolloutInit PROVE RolloutInv
  OBVIOUS
<1>1. waiting /\ seen = api /\ lag = {} /\ pass = AtRest
  BY DEF RolloutInit
<1>2. /\ DOMAIN api = Kinds /\ api.agent = NewAgent
      /\ api.deploy = [template |-> NoTemplate, up |-> FALSE]
  BY DEF RolloutInit, Kinds
<1>3. RolloutShape
  BY <1>1, <1>2 DEF RolloutShape, AtRest, NewAgent
<1>. QED BY <1>1, <1>3 DEF RolloutInv, Cached

\* An input that changes.
LEMMA InputHolds ==
  ASSUME RolloutInv, NEW kind \in {"agent", "profile", "key", "persona", "skills"}, NEW object,
         api' = [api EXCEPT ![kind] = object], lag' = lag \union {kind},
         kind = "agent" => DOMAIN object = {"spec", "gen", "seenGen", "ready"},
         UNCHANGED <<seen, waiting, pass>>
  PROVE  RolloutInv'
<1>. USE DEF Kinds
<1>0. RolloutShape /\ Cached
  BY DEF RolloutInv
<1>1. /\ DOMAIN api' = Kinds /\ api'[kind] = object
      /\ \A other \in Kinds \ {kind} : api'[other] = api[other]
  BY <1>0 DEF RolloutShape
<1>2. RolloutShape'
  BY <1>0, <1>1 DEF RolloutShape
<1>3. Cached'
  BY <1>0, <1>1 DEF Cached
<1>4. ASSUME DoneSoFar PROVE DoneSoFar'
  <2>1. SpecSeen' = SpecSeen /\ ProfileSeen' = ProfileSeen
    BY DEF SpecSeen, ProfileSeen
  <2>2. \A stages : Past(stages)' = Past(stages)
    BY <2>1 DEF Past
  <2>3. api'.models = api.models /\ api'.env = api.env /\ api'.deploy = api.deploy
    BY <1>1
  <2>4. "agent" \in lag' \/ api'.agent = api.agent
    BY <1>1
  <2>. QED BY <1>4, <2>1, <2>2, <2>3, <2>4 DEF DoneSoFar
<1>. QED BY <1>2, <1>3, <1>4 DEF RolloutInv

\* An event nobody maps to the agent changes nothing that is asked for.
LEMMA DeliverHolds ==
  ASSUME RolloutInv, NEW kind \in Kinds, Deliver(kind)
  PROVE  RolloutInv'
<1>. USE DEF Kinds
<1>0. RolloutShape /\ Cached
  BY DEF RolloutInv
<1>1. /\ seen' = [seen EXCEPT ![kind] = api[kind]] /\ lag' = lag \ {kind} /\ api' = api /\ pass' = pass
      /\ waiting' = (waiting \/ Concerns(kind))
  BY DEF Deliver
<1>2. /\ DOMAIN seen' = Kinds /\ seen'[kind] = api[kind]
      /\ \A other \in Kinds \ {kind} : seen'[other] = seen[other]
  BY <1>0, <1>1 DEF RolloutShape
<1>3. RolloutShape'
  BY <1>0, <1>1, <1>2 DEF RolloutShape
<1>4. Cached'
  BY <1>0, <1>1, <1>2 DEF Cached
<1>5. ASSUME DoneSoFar, ~ Concerns(kind) PROVE DoneSoFar'
  <2>1. \/ kind = "profile" /\ api.profile[SpecSeen.profile] = seen.profile[SpecSeen.profile]
        \/ kind = "key" /\ ~ SpecSeen.key
        \/ kind = "persona" /\ api.persona[SpecSeen.persona] = seen.persona[SpecSeen.persona]
        \/ kind = "skills" /\ SpecSeen.own = "inherits" /\ ~ ProfileSeen.skills
    BY <1>5 DEF Concerns, SpecSeen, ProfileSeen
  <2>2. SpecSeen' = SpecSeen /\ seen'.agent = seen.agent /\ seen'.env = seen.env
    BY <1>2, <2>1 DEF SpecSeen
  <2>3. ProfileSeen' = ProfileSeen
    <3>1. CASE kind = "profile"
      BY <1>2, <2>1, <2>2, <3>1 DEF ProfileSeen
    <3>2. CASE kind # "profile"
      BY <1>2, <2>2, <3>2 DEF ProfileSeen
    <3>. QED BY <3>1, <3>2
  <2>4. \A stages : Past(stages)' = Past(stages)
    BY <1>1, <2>3 DEF Past
  <2>5. ("env" \in lag' <=> "env" \in lag) /\ ("agent" \in lag' <=> "agent" \in lag)
    BY <1>1, <2>1
  <2>6. seen'.persona[SpecSeen.persona] = seen.persona[SpecSeen.persona]
    BY <1>2, <2>1
  <2>7. SpecSeen.key => seen'.key = seen.key
    BY <1>2, <2>1
  <2>8. SkillsHash(SpecSeen, ProfileSeen, seen') = SkillsHash(SpecSeen, ProfileSeen, seen)
    <3>1. CASE kind = "skills"
      BY <2>1, <3>1 DEF SkillsHash, HasSkills
    <3>2. CASE kind # "skills"
      BY <1>2, <3>2 DEF SkillsHash
    <3>. QED BY <3>1, <3>2
  <2>9. TemplateOwed(SpecSeen, ProfileSeen, seen') = TemplateOwed(SpecSeen, ProfileSeen, seen)
    BY <2>2, <2>6, <2>7, <2>8 DEF TemplateOwed
  <2>. QED BY <1>1, <1>5, <2>2, <2>3, <2>4, <2>5, <2>9 DEF DoneSoFar
<1>. QED BY <1>1, <1>3, <1>4, <1>5 DEF RolloutInv

\* A pass that begins, is queued again or was refused.
LEMMA QueuedHolds ==
  ASSUME RolloutInv, pass' = AtRest, waiting', UNCHANGED <<api, seen, lag>>
  PROVE  RolloutInv'
<1>1. RolloutShape'
  BY DEF RolloutInv, RolloutShape, AtRest
<1>2. Cached'
  BY DEF RolloutInv, Cached
<1>. QED BY <1>1, <1>2 DEF RolloutInv

LEMMA StartHolds ==
  ASSUME RolloutInv, StartPass
  PROVE  RolloutInv'
<1>1. UNCHANGED <<api, seen, lag>>
  BY DEF StartPass, Outside
<1>2. pass' = [pc |-> IF ProfileSeen = NoProfile THEN "unready" ELSE "models",
               agent |-> seen.agent, profile |-> ProfileSeen]
  BY DEF StartPass, ProfileSeen, SpecSeen
<1>3. /\ DOMAIN pass' = {"pc", "agent", "profile"} /\ pass'.pc \in {"unready", "models"}
      /\ pass'.agent = seen.agent /\ pass'.profile = ProfileSeen
      /\ pass'.pc = "unready" => ProfileSeen = NoProfile
  BY ONLY <1>2
<1>4. RolloutShape'
  BY <1>1, <1>3 DEF RolloutInv, RolloutShape
<1>5. Cached'
  BY <1>1 DEF RolloutInv, Cached
<1>6. DoneSoFar'
  BY <1>1, <1>3 DEF DoneSoFar, Past, ProfileSeen, SpecSeen
<1>. QED BY <1>4, <1>5, <1>6 DEF RolloutInv

\* What a pass that goes on has to have written.
LEMMA GoesOnHolds ==
  ASSUME RolloutInv, NEW next \in {"env", "deploy", "status"}, pass.pc \in {"models", "env", "deploy"},
         pass' = [pass EXCEPT !.pc = next],
         UNCHANGED <<seen, waiting>>,
         DOMAIN api' = Kinds, lag' \subseteq Kinds, lag \subseteq lag', Cached',
         api'.agent = api.agent, DOMAIN api'.deploy = {"template", "up"},
         ~ waiting /\ pass.agent = seen.agent /\ pass.profile = ProfileSeen =>
           /\ api'.models = ModelsFile(SpecSeen)
           /\ next # "env" => "env" \in lag' \/ api'.env = EnvSecret(SpecSeen, ProfileSeen)
           /\ next = "status" =>
                Digestless(api'.deploy.template, SpecSeen) = TemplateOwed(SpecSeen, ProfileSeen, seen)
  PROVE  RolloutInv'
<1>0. RolloutShape
  BY DEF RolloutInv
<1>1. /\ pass'.pc = next /\ pass'.agent = pass.agent /\ pass'.profile = pass.profile
      /\ DOMAIN pass' = {"pc", "agent", "profile"}
  BY <1>0 DEF RolloutShape
<1>2. RolloutShape'
  BY <1>0, <1>1 DEF RolloutShape
<1>3. ASSUME ~ waiting PROVE DoneSoFar'
  <2>1. pass.agent = seen.agent /\ pass.profile = ProfileSeen
    BY <1>3 DEF RolloutInv, DoneSoFar
  <2>2. SpecSeen' = SpecSeen /\ ProfileSeen' = ProfileSeen /\ seen' = seen
    BY DEF SpecSeen, ProfileSeen
  <2>. QED BY <1>1, <1>3, <2>1, <2>2 DEF DoneSoFar, Past
<1>. QED BY <1>2, <1>3 DEF RolloutInv

\* What a write leaves, which is not refused.
LEMMA PutsHold ==
  ASSUME RolloutInv, NEW kind \in {"models", "env", "deploy"}, NEW object, NEW next, kind \notin lag,
         Puts(kind, object, next), kind = "deploy" => DOMAIN object = {"template", "up"}
  PROVE  /\ pass' = [pass EXCEPT !.pc = next] /\ waiting' = waiting
         /\ DOMAIN api' = Kinds /\ api'[kind] = object
         /\ \A other \in Kinds \ {kind} : api'[other] = api[other]
         /\ lag' \subseteq Kinds /\ lag \subseteq lag' /\ DOMAIN api'.deploy = {"template", "up"}
         /\ seen' = seen => Cached'
<1>. USE DEF Kinds
<1>0. RolloutShape /\ Cached
  BY DEF RolloutInv
<1>1. /\ pass' = [pass EXCEPT !.pc = next] /\ waiting' = waiting
      /\ api' = [api EXCEPT ![kind] = object]
      /\ lag' = IF api[kind] = object THEN lag ELSE lag \union {kind}
  BY DEF Puts
<1>2. /\ DOMAIN api' = Kinds /\ api'[kind] = object
      /\ \A other \in Kinds \ {kind} : api'[other] = api[other]
  BY <1>0, <1>1 DEF RolloutShape
<1>3. lag' \subseteq Kinds /\ lag \subseteq lag' /\ DOMAIN api'.deploy = {"template", "up"}
  BY <1>0, <1>1, <1>2 DEF RolloutShape
<1>4. ASSUME seen' = seen PROVE Cached'
  BY <1>0, <1>1, <1>2, <1>4 DEF Cached
<1>. QED BY <1>1, <1>2, <1>3, <1>4

LEMMA ModelsHold ==
  ASSUME RolloutInv, PutModels
  PROVE  RolloutInv'
<1>. USE DEF Kinds
<1>1. pass.pc = "models" /\ seen' = seen /\ Puts("models", ModelsFile(pass.agent.spec), "env")
  BY DEF PutModels, Outside
<1>2. CASE "models" \in lag
  <2>1. pass' = AtRest /\ waiting' = TRUE /\ UNCHANGED <<api, lag>>
    BY <1>1, <1>2 DEF Puts
  <2>. QED BY <1>1, <2>1, QueuedHolds
<1>3. CASE "models" \notin lag
  <2>1. /\ pass' = [pass EXCEPT !.pc = "env"] /\ waiting' = waiting
        /\ DOMAIN api' = Kinds /\ api'.models = ModelsFile(pass.agent.spec)
        /\ api'.agent = api.agent
        /\ lag' \subseteq Kinds /\ lag \subseteq lag' /\ DOMAIN api'.deploy = {"template", "up"} /\ Cached'
    BY <1>1, <1>3, PutsHold
  <2>2. pass.agent = seen.agent => api'.models = ModelsFile(SpecSeen)
    BY <2>1 DEF SpecSeen
  <2>. QED BY <1>1, <2>1, <2>2, GoesOnHolds
<1>. QED BY <1>2, <1>3

LEMMA EnvHolds ==
  ASSUME RolloutInv, PutEnv
  PROVE  RolloutInv'
<1>. USE DEF Kinds
<1>0. RolloutShape /\ Cached
  BY DEF RolloutInv
<1>1. pass.pc = "env" /\ seen' = seen
  BY DEF PutEnv, Outside
<1>2. PICK secret : secret = EnvSecret(pass.agent.spec, pass.profile)
  OBVIOUS
<1>3. ~ waiting => api.models = ModelsFile(SpecSeen)
  BY <1>1 DEF RolloutInv, DoneSoFar, Past
<1>4. pass.agent = seen.agent /\ pass.profile = ProfileSeen => secret = EnvSecret(SpecSeen, ProfileSeen)
  BY <1>2 DEF SpecSeen
<1>5. CASE secret = NoEnv /\ (seen.env = NoEnv \/ api.env = NoEnv)
  <2>1. pass' = [pass EXCEPT !.pc = "deploy"] /\ UNCHANGED <<api, lag, waiting>>
    BY <1>2, <1>5 DEF PutEnv
  <2>2. "env" \in lag \/ api.env = secret
    BY <1>0, <1>5 DEF Cached
  <2>3. DOMAIN api' = Kinds /\ lag' \subseteq Kinds /\ DOMAIN api'.deploy = {"template", "up"}
    BY <1>0, <2>1 DEF RolloutShape
  <2>4. Cached'
    BY <1>0, <1>1, <2>1 DEF Cached
  <2>. QED BY <1>1, <1>3, <1>4, <2>1, <2>2, <2>3, <2>4, GoesOnHolds
<1>6. CASE secret = NoEnv /\ ~ (seen.env = NoEnv \/ api.env = NoEnv)
  <2>1. /\ pass' = [pass EXCEPT !.pc = "deploy"] /\ waiting' = waiting /\ lag' = lag \union {"env"}
        /\ api' = [api EXCEPT !["env"] = NoEnv]
    BY <1>2, <1>6 DEF PutEnv, Stores
  <2>2. /\ DOMAIN api' = Kinds
        /\ \A other \in Kinds \ {"env"} : api'[other] = api[other]
    BY <1>0, <2>1 DEF RolloutShape
  <2>3. lag' \subseteq Kinds /\ DOMAIN api'.deploy = {"template", "up"} /\ api'.agent = api.agent
        /\ api'.models = api.models
    BY <1>0, <2>1, <2>2 DEF RolloutShape
  <2>4. Cached'
    BY <1>0, <1>1, <2>1, <2>2 DEF Cached
  <2>. QED BY <1>1, <1>3, <2>1, <2>2, <2>3, <2>4, GoesOnHolds
<1>7. CASE secret # NoEnv /\ "env" \in lag
  <2>1. pass' = AtRest /\ waiting' = TRUE /\ UNCHANGED <<api, lag>>
    BY <1>2, <1>7 DEF PutEnv, Puts
  <2>. QED BY <1>1, <2>1, QueuedHolds
<1>8. CASE secret # NoEnv /\ "env" \notin lag
  <2>1. Puts("env", secret, "deploy")
    BY <1>2, <1>8 DEF PutEnv
  <2>2. /\ pass' = [pass EXCEPT !.pc = "deploy"] /\ waiting' = waiting
        /\ DOMAIN api' = Kinds /\ api'.env = secret
        /\ api'.agent = api.agent /\ api'.models = api.models
        /\ lag' \subseteq Kinds /\ lag \subseteq lag' /\ DOMAIN api'.deploy = {"template", "up"} /\ Cached'
    BY <1>1, <1>8, <2>1, PutsHold
  <2>. QED BY <1>1, <1>3, <1>4, <2>2, GoesOnHolds
<1>. QED BY <1>5, <1>6, <1>7, <1>8

LEMMA DeploymentHolds ==
  ASSUME RolloutInv, PutDeployment
  PROVE  RolloutInv'
<1>. USE DEF Kinds
<1>0. RolloutShape /\ Cached
  BY DEF RolloutInv
<1>1. pass.pc = "deploy" /\ seen' = seen
  BY DEF PutDeployment, Outside
<1>2. PICK digest, template :
        /\ template = Template(pass.agent.spec, pass.profile, Hashes(pass.agent.spec, pass.profile, seen, digest))
        /\ Puts("deploy", [api.deploy EXCEPT !.template = template], "status")
  BY DEF PutDeployment
<1>3. PICK object : object = [api.deploy EXCEPT !.template = template]
  OBVIOUS
<1>4. DOMAIN object = {"template", "up"} /\ object.template = template
  BY <1>0, <1>3 DEF RolloutShape
<1>5. CASE "deploy" \in lag
  <2>1. pass' = AtRest /\ waiting' = TRUE /\ UNCHANGED <<api, lag>>
    BY <1>2, <1>5 DEF Puts
  <2>. QED BY <1>1, <2>1, QueuedHolds
<1>6. CASE "deploy" \notin lag
  <2>1. /\ pass' = [pass EXCEPT !.pc = "status"] /\ waiting' = waiting
        /\ DOMAIN api' = Kinds /\ api'.deploy = object
        /\ api'.agent = api.agent /\ api'.models = api.models /\ api'.env = api.env
        /\ lag' \subseteq Kinds /\ lag \subseteq lag' /\ DOMAIN api'.deploy = {"template", "up"} /\ Cached'
    BY <1>1, <1>2, <1>3, <1>4, <1>6, PutsHold
  <2>2. ~ waiting => /\ api.models = ModelsFile(SpecSeen)
                     /\ "env" \in lag \/ api.env = EnvSecret(SpecSeen, ProfileSeen)
    BY <1>1 DEF RolloutInv, DoneSoFar, Past
  <2>3. pass.agent = seen.agent /\ pass.profile = ProfileSeen =>
          Digestless(api'.deploy.template, SpecSeen) = TemplateOwed(SpecSeen, ProfileSeen, seen)
    BY <1>2, <1>4, <2>1, MaskedTemplate DEF SpecSeen
  <2>. QED BY <1>1, <2>1, <2>2, <2>3, GoesOnHolds
<1>. QED BY <1>5, <1>6

\* A status that goes out.
LEMMA PatchesHold ==
  ASSUME RolloutInv, NEW gen, NEW ready, Patches(gen, ready), seen' = seen,
         pass.pc \in {"unready", "status"}, pass.pc = "status" => gen = pass.agent.gen
  PROVE  RolloutInv'
<1>. USE DEF Kinds
<1>0. RolloutShape /\ Cached
  BY DEF RolloutInv
<1>1. PICK agent : agent = [api.agent EXCEPT !.seenGen = gen, !.ready = ready]
  OBVIOUS
<1>2. /\ pass' = AtRest /\ waiting' = waiting /\ api' = [api EXCEPT !["agent"] = agent]
      /\ lag' = IF agent = api.agent THEN lag ELSE lag \union {"agent"}
  BY <1>1 DEF Patches
<1>3. /\ DOMAIN agent = {"spec", "gen", "seenGen", "ready"}
      /\ agent.gen = api.agent.gen /\ agent.seenGen = gen
  BY <1>0, <1>1 DEF RolloutShape
<1>4. /\ DOMAIN api' = Kinds /\ api'.agent = agent
      /\ \A other \in Kinds \ {"agent"} : api'[other] = api[other]
  BY <1>0, <1>2 DEF RolloutShape
<1>5. api'.deploy = api.deploy /\ api'.models = api.models /\ api'.env = api.env
  BY <1>4
<1>6. RolloutShape'
  <2>1. pass' = AtRest /\ DOMAIN pass' = {"pc", "agent", "profile"} /\ pass'.pc = "idle"
    BY <1>2 DEF AtRest
  <2>. QED BY <1>0, <1>2, <1>3, <1>4, <1>5, <2>1 DEF RolloutShape
<1>7. Cached'
  BY <1>0, <1>2, <1>4 DEF Cached
<1>8. ASSUME DoneSoFar PROVE DoneSoFar'
  <2>1. SpecSeen' = SpecSeen /\ ProfileSeen' = ProfileSeen /\ pass'.pc = "idle"
    BY <1>2 DEF SpecSeen, ProfileSeen, AtRest
  <2>2. pass.agent = seen.agent /\ pass.profile = ProfileSeen
    BY <1>8 DEF DoneSoFar
  <2>3. CASE pass.pc = "unready"
    <3>1. ProfileSeen = NoProfile
      BY <1>0, <2>2, <2>3 DEF RolloutShape
    <3>. QED BY <2>1, <3>1 DEF DoneSoFar, Past
  <2>4. CASE pass.pc = "status"
    <3>1. /\ api.models = ModelsFile(SpecSeen)
          /\ "env" \in lag \/ api.env = EnvSecret(SpecSeen, ProfileSeen)
          /\ Digestless(api.deploy.template, SpecSeen) = TemplateOwed(SpecSeen, ProfileSeen, seen)
      BY <1>8, <2>4 DEF DoneSoFar, Past
    <3>2. "agent" \in lag' \/ api'.agent.seenGen = api'.agent.gen
      BY <1>0, <1>2, <1>3, <1>4, <2>2, <2>4 DEF Cached
    <3>3. lag \subseteq lag'
      BY <1>2
    <3>. QED BY <1>5, <2>1, <3>1, <3>2, <3>3 DEF DoneSoFar
  <2>. QED BY <2>3, <2>4
<1>. QED BY <1>2, <1>6, <1>7, <1>8 DEF RolloutInv

\* A pod comes up or dies.
LEMMA ReadinessHolds ==
  ASSUME RolloutInv, NEW ready, Readiness(ready)
  PROVE  RolloutInv'
<1>. USE DEF Kinds
<1>0. RolloutShape /\ Cached
  BY DEF RolloutInv
<1>1. PICK deploy : deploy = [api.deploy EXCEPT !.up = ready]
  OBVIOUS
<1>2. /\ api' = [api EXCEPT !["deploy"] = deploy] /\ UNCHANGED <<seen, waiting, pass>>
      /\ lag' = IF api' = api THEN lag ELSE lag \union {"deploy"}
  BY <1>1 DEF Readiness
<1>3. DOMAIN deploy = {"template", "up"} /\ deploy.template = api.deploy.template
  BY <1>0, <1>1 DEF RolloutShape
<1>4. /\ DOMAIN api' = Kinds /\ api'.deploy = deploy
      /\ \A other \in Kinds \ {"deploy"} : api'[other] = api[other]
  BY <1>0, <1>2 DEF RolloutShape
<1>5. api'.agent = api.agent /\ api'.models = api.models /\ api'.env = api.env
  BY <1>4
<1>6. RolloutShape'
  BY <1>0, <1>2, <1>3, <1>4, <1>5 DEF RolloutShape
<1>7. Cached'
  BY <1>0, <1>2, <1>4 DEF Cached
<1>8. ASSUME DoneSoFar PROVE DoneSoFar'
  <2>1. SpecSeen' = SpecSeen /\ ProfileSeen' = ProfileSeen
    BY <1>2 DEF SpecSeen, ProfileSeen
  <2>2. \A stages : Past(stages)' = Past(stages)
    BY <1>2, <2>1 DEF Past
  <2>3. lag \subseteq lag' /\ api'.deploy.template = api.deploy.template
    BY <1>2, <1>3, <1>4
  <2>. QED BY <1>2, <1>5, <1>8, <2>1, <2>2, <2>3 DEF DoneSoFar
<1>. QED BY <1>2, <1>6, <1>7, <1>8 DEF RolloutInv

LEMMA UntouchedHolds ==
  ASSUME RolloutInv, UNCHANGED <<api, seen, lag, waiting, pass>>
  PROVE  RolloutInv'
BY DEF RolloutInv, RolloutShape, Cached, DoneSoFar, Past, SpecSeen, ProfileSeen, TemplateOwed, Template,
       SkillsHash, Digestless, EnvSecret, ModelsFile

LEMMA InputsHold ==
  ASSUME RolloutInv,
         \/ \E spec \in Specs : EditAgent(spec)
         \/ \E p \in Profiles : EditProfile(p)
         \/ \E n \in PersonaNames : RenderPersona(n)
         \/ RotateKey \/ RenderSkills
  PROVE  RolloutInv'
<1>1. UNCHANGED <<seen, waiting, pass>>
  BY DEF EditAgent, EditProfile, RenderPersona, RotateKey, RenderSkills, Input
<1>2. ASSUME NEW spec \in Specs, EditAgent(spec) PROVE RolloutInv'
  <2>1. PICK agent : agent = [api.agent EXCEPT !.spec = spec, !.gen = Fresh]
    OBVIOUS
  <2>2. Stores("agent", agent)
    BY <1>2, <2>1 DEF EditAgent
  <2>3. DOMAIN agent = {"spec", "gen", "seenGen", "ready"}
    BY <2>1 DEF RolloutInv, RolloutShape
  <2>. QED BY <1>1, <2>2, <2>3, InputHolds DEF Stores
<1>3. ASSUME NEW p \in Profiles, EditProfile(p) PROVE RolloutInv'
  <2>1. PICK profiles : Stores("profile", profiles)
    BY <1>3 DEF EditProfile
  <2>. QED BY <1>1, <2>1, InputHolds DEF Stores
<1>4. ASSUME NEW n \in PersonaNames, RenderPersona(n) PROVE RolloutInv'
  <2>1. PICK personas : Stores("persona", personas)
    BY <1>4 DEF RenderPersona
  <2>. QED BY <1>1, <2>1, InputHolds DEF Stores
<1>5. CASE RotateKey
  <2>1. PICK key : Stores("key", key)
    BY <1>5 DEF RotateKey
  <2>. QED BY <1>1, <2>1, InputHolds DEF Stores
<1>6. CASE RenderSkills
  <2>1. PICK skills : Stores("skills", skills)
    BY <1>6 DEF RenderSkills
  <2>. QED BY <1>1, <2>1, InputHolds DEF Stores
<1>. QED BY <1>2, <1>3, <1>4, <1>5, <1>6

LEMMA RolloutStep ==
  ASSUME RolloutInv, [RolloutNext]_rolloutVars
  PROVE  RolloutInv'
<1>1. ASSUME NEW kind \in Kinds, Deliver(kind) PROVE RolloutInv'
  BY <1>1, DeliverHolds
<1>2. CASE PushImage \/ UNCHANGED rolloutVars
  BY <1>2, UntouchedHolds DEF PushImage, Input, rolloutVars
<1>3. CASE PutStatus
  <2>1. PICK ready : pass.pc = "status" /\ seen' = seen /\ Patches(pass.agent.gen, ready)
    BY <1>3 DEF PutStatus, Outside
  <2>. QED BY <2>1, PatchesHold
<1>4. CASE PutUnready
  <2>1. pass.pc = "unready" /\ seen' = seen /\ Patches(pass.agent.seenGen, FALSE)
    BY <1>4 DEF PutUnready, Outside
  <2>. QED BY <2>1, PatchesHold
<1>5. CASE PassFails
  BY <1>5, QueuedHolds DEF PassFails, Outside
<1>6. CASE Requeue
  <2>1. pass = AtRest
    BY <1>6 DEF Requeue, RolloutInv, RolloutShape
  <2>. QED BY <1>6, <2>1, QueuedHolds DEF Requeue, Outside
<1>7. CASE RollOut \/ PodDies
  <2>1. PICK ready : Readiness(ready)
    BY <1>7 DEF RollOut, PodDies
  <2>. QED BY <2>1, ReadinessHolds
<1>8. CASE StartPass \/ PutModels \/ PutEnv \/ PutDeployment
  BY <1>8, StartHolds, ModelsHold, EnvHolds, DeploymentHolds
<1>. QED BY <1>1, <1>2, <1>3, <1>4, <1>5, <1>6, <1>7, <1>8, InputsHold DEF RolloutNext

\* Caches that lag behind nothing are the objects themselves.
LEMMA IdleMeans ==
  ASSUME RolloutInv
  PROVE  IdleMeansCurrent
<1>. SUFFICES ASSUME ~ waiting, pass = AtRest, lag = {}, Wanted # NoProfile
              PROVE  /\ api.models = ModelsFile(api.agent.spec)
                     /\ api.env = EnvSecret(api.agent.spec, Wanted)
                     /\ Digestless(api.deploy.template, api.agent.spec) = Owed(api.agent.spec)
                     /\ api.agent.seenGen = api.agent.gen
  BY DEF IdleMeansCurrent
<1>1. \A kind \in Kinds : seen[kind] = api[kind]
  BY DEF RolloutInv, Cached
<1>2. /\ seen.agent = api.agent /\ seen.profile = api.profile /\ seen.key = api.key
      /\ seen.persona = api.persona /\ seen.skills = api.skills /\ seen.env = api.env
  BY <1>1 DEF Kinds
<1>3. SpecSeen = api.agent.spec /\ ProfileSeen = Wanted
  BY <1>2 DEF SpecSeen, ProfileSeen, Wanted
<1>4. pass.pc = "idle" /\ DoneSoFar
  BY DEF RolloutInv, AtRest
<1>5. \A stages : Past(stages)
  BY <1>3, <1>4 DEF Past
<1>6. TemplateOwed(SpecSeen, ProfileSeen, seen) = Owed(api.agent.spec)
  <2>1. TemplateOwed(SpecSeen, ProfileSeen, seen) = TemplateOwed(api.agent.spec, Wanted, api)
    BY <1>2, <1>3 DEF TemplateOwed, SkillsHash
  <2>2. Owed(api.agent.spec) = TemplateOwed(api.agent.spec, Wanted, api)
    BY MaskedTemplate DEF Owed
  <2>. QED BY <2>1, <2>2
<1>. QED BY <1>3, <1>4, <1>5, <1>6 DEF DoneSoFar

\* With an empty work queue, no pass under way and every event delivered, models.json, the env Secret
\* and the Deployment are what the Agent and all it refers to ask for: setupWatches maps every change
\* that matters, and a pass of Reconcile that was refused, failed or read an old cache is not the last.
THEOREM IdleIsCurrent == RolloutSpec => []IdleMeansCurrent
<1>1. RolloutInit => RolloutInv
  BY RolloutStart
<1>2. RolloutInv /\ [RolloutNext]_rolloutVars => RolloutInv'
  BY RolloutStep
<1>3. RolloutInv => IdleMeansCurrent
  BY IdleMeans
<1>. QED BY <1>1, <1>2, <1>3, PTL DEF RolloutSpec

(***************************************************************************)
(* The Secret of a connector.                                              *)
(***************************************************************************)
KeeperTyped ==
  /\ hmacs \in Nat /\ DOMAIN gate = GateKinds /\ gate.hmac \in Nat
  /\ keeper \in [Keepers -> [op : {"none", "create", "rotate", "delete"},
                             pc : {"none", "row", "undo", "write", "secret"}, copy : Nat \X Nat]]

\* What a request relies on: a create that has still to make the row has made the secret and is
\* alone, one that gives up has made no connector that it knows of, a rotation has a secret to
\* write, a deletion has no connector left.
KeeperFits(k) ==
  /\ keeper[k].op # "none" => created
  /\ At(k, "create", "row") => /\ ~ gate.conn.there /\ gate.hmac # 0
                               /\ \A q \in Keepers \ {k} : keeper[q].op = "none"
  /\ At(k, "create", "undo") => ~ gate.conn.there \/ unsure
  /\ keeper[k].op = "rotate" => keeper[k].copy[2] # 0
  /\ At(k, "delete", "secret") => ~ gate.conn.there

KeyInv ==
  /\ KeeperTyped /\ KeyHeld
  /\ gate.conn.there => created
  /\ \A k \in Keepers : KeeperFits(k)

LEMMA KeyStart == GatewayInit => KeyInv
<1>. SUFFICES ASSUME GatewayInit PROVE KeyInv
  OBVIOUS
<1>1. keeper = [k \in Keepers |-> [op |-> "none", pc |-> "none", copy |-> <<0, 0>>]] /\ hmacs = 0
  BY DEF GatewayInit, Free
<1>2. DOMAIN gate = GateKinds /\ ~ gate.conn.there /\ gate.hmac = 0
  BY DEF GatewayInit, GateKinds, NoConnector
<1>3. KeeperTyped
  BY <1>1, <1>2 DEF KeeperTyped
<1>. QED BY <1>1, <1>2, <1>3 DEF KeyInv, KeyHeld, KeeperFits, At

\* An object that is stored, and the others.
LEMMA SetStores ==
  ASSUME KeyInv, NEW kind \in GateKinds, NEW object, Set(kind, object)
  PROVE  /\ DOMAIN gate' = GateKinds /\ gate'[kind] = object
         /\ \A other \in GateKinds \ {kind} : gate'[other] = gate[other]
BY DEF Set, KeyInv, KeeperTyped

\* A step that leaves the requests alone, and the secret and whether there is a connector.
LEMMA KeyKept ==
  ASSUME KeyInv, UNCHANGED <<keeper, created, hmacs, unsure>>, DOMAIN gate' = GateKinds,
         gate'.conn.there = gate.conn.there, gate'.hmac = gate.hmac
  PROVE  KeyInv'
BY DEF KeyInv, KeeperTyped, KeyHeld, KeeperFits, At

\* A request that begins, goes on or ends.
KeeperGoes(k, op, pc, copy) ==
  /\ keeper' = [keeper EXCEPT ![k] = [op |-> op, pc |-> pc, copy |-> copy]]
  /\ hmacs' \in Nat /\ DOMAIN gate' = GateKinds /\ gate'.hmac \in Nat
  /\ KeyHeld'
  /\ gate'.conn.there \/ created \/ op # "none" => created'
  /\ unsure => unsure'
  /\ gate'.conn.there => gate.conn.there \/ At(k, "create", "row")
  /\ gate'.hmac # 0 \/ \A q \in Keepers \ {k} : ~ At(q, "create", "row")
  /\ op = "create" /\ pc = "row" => /\ ~ gate'.conn.there /\ gate'.hmac # 0
                                     /\ \A q \in Keepers \ {k} : keeper[q].op = "none"
  /\ op # "none" => \A q \in Keepers \ {k} : ~ At(q, "create", "row")
  /\ op = "create" /\ pc = "undo" => ~ gate'.conn.there \/ unsure'
  /\ op = "rotate" => copy[2] # 0
  /\ op = "delete" /\ pc = "secret" => ~ gate'.conn.there

LEMMA KeeperMoves ==
  ASSUME KeyInv, NEW k \in Keepers, NEW op \in {"none", "create", "rotate", "delete"},
         NEW pc \in {"none", "row", "undo", "write", "secret"}, NEW copy \in Nat \X Nat,
         KeeperGoes(k, op, pc, copy)
  PROVE  KeyInv'
<1>. USE DEF KeeperGoes
<1>1. KeeperTyped'
  BY DEF KeyInv, KeeperTyped
<1>2. /\ keeper'[k].op = op /\ keeper'[k].pc = pc /\ keeper'[k].copy = copy
      /\ \A q \in Keepers \ {k} : keeper'[q] = keeper[q]
  BY DEF KeyInv, KeeperTyped
<1>3. KeeperFits(k)'
  BY <1>2 DEF KeeperFits, At
<1>4. ASSUME NEW q \in Keepers \ {k} PROVE KeeperFits(q)'
  <2>1. KeeperFits(q) /\ KeeperFits(k)
    BY DEF KeyInv
  <2>2. (keeper[q].op # "none" => created)'
    BY <1>2, <2>1 DEF KeeperFits
  <2>3. At(q, "create", "row") =>
          /\ ~ gate'.conn.there /\ gate'.hmac # 0 /\ op = "none"
          /\ \A r \in Keepers \ {q} : keeper'[r].op = "none"
    BY <1>2, <1>4, <2>1 DEF KeeperFits, At
  <2>4. At(q, "create", "undo") => ~ gate'.conn.there \/ unsure'
    BY <1>4, <2>1 DEF KeeperFits, At
  <2>5. keeper'[q].op = "rotate" => keeper'[q].copy[2] # 0
    BY <1>2, <2>1 DEF KeeperFits
  <2>6. At(q, "delete", "secret") => ~ gate'.conn.there
    BY <1>4, <2>1, <2>1 DEF KeeperFits, At
  <2>. QED BY <1>2, <2>2, <2>3, <2>4, <2>5, <2>6 DEF KeeperFits, At
<1>. QED BY <1>1, <1>3, <1>4 DEF KeyInv

\* The requests.
LEMMA CreateHolds ==
  ASSUME KeyInv, NEW k \in Keepers, CreateSecret(k) \/ CreateRow(k) \/ UndoSecret(k)
  PROVE  KeyInv'
<1>. USE DEF GateKinds
<1>0. KeeperTyped /\ KeeperFits(k) /\ (gate.conn.there => created) /\ KeyHeld
  BY DEF KeyInv
<1>1. CASE CreateSecret(k)
  <2>1. Set("hmac", hmacs + 1) /\ ~ created /\ created' /\ hmacs' = hmacs + 1 /\ unsure' = unsure
    BY <1>1 DEF CreateSecret, NewHmac
  <2>2. keeper' = [keeper EXCEPT ![k] = [op |-> "create", pc |-> "row", copy |-> <<0, 0>>]]
    BY <1>1 DEF CreateSecret, Begins
  <2>3. /\ DOMAIN gate' = GateKinds /\ gate'.hmac = hmacs + 1 /\ gate'.conn = gate.conn
    BY <2>1, SetStores
  <2>4. ~ gate.conn.there /\ \A q \in Keepers : keeper[q].op = "none"
    BY <2>1 DEF KeyInv, KeeperFits
  <2>5. hmacs + 1 # 0 /\ hmacs' \in Nat
    BY <1>0, <2>1 DEF KeeperTyped
  <2>6. KeyHeld'
    BY <2>3, <2>4 DEF KeyHeld
  <2>7. \A q \in Keepers : ~ At(q, "create", "row")
    BY <2>4 DEF At
  <2>8. KeeperGoes(k, "create", "row", <<0, 0>>)
    BY <2>1, <2>2, <2>3, <2>4, <2>5, <2>6, <2>7 DEF KeeperGoes
  <2>. QED BY <2>8, KeeperMoves
<1>2. CASE CreateRow(k)
  <2>1. /\ created' = created /\ hmacs' = hmacs /\ ~ gate.conn.there /\ gate.hmac # 0 /\ created
        /\ \A q \in Keepers \ {k} : keeper[q].op = "none"
    BY <1>0, <1>2 DEF CreateRow, KeeperFits, At
  <2>2. \A q \in Keepers \ {k} : ~ At(q, "create", "row")
    BY <2>1 DEF At
  <2>3. CASE Set("conn", Fetched) /\ Ends(k) /\ unsure' = unsure
    <3>1. DOMAIN gate' = GateKinds /\ gate'.hmac = gate.hmac
      BY <2>3, SetStores
    <3>2. keeper' = [keeper EXCEPT ![k] = [op |-> "none", pc |-> "none", copy |-> <<0, 0>>]]
      BY <2>3 DEF Ends, Free
    <3>3. KeyHeld' /\ hmacs' \in Nat
      BY <1>0, <2>1, <3>1 DEF KeyHeld, KeeperTyped
    <3>4. KeeperGoes(k, "none", "none", <<0, 0>>)
      BY <1>0, <1>2, <2>1, <2>2, <2>3, <3>1, <3>2, <3>3 DEF CreateRow, KeeperGoes, KeeperTyped
    <3>. QED BY <3>4, KeeperMoves
  <2>4. CASE /\ Goes(k, "undo")
             /\ \/ UNCHANGED <<gate, gateLag, unsure>>
                \/ Set("conn", Fetched) /\ unsure' = TRUE
    <3>1. DOMAIN gate' = GateKinds /\ gate'.hmac = gate.hmac
      <4>1. CASE UNCHANGED gate
        BY <1>0, <4>1 DEF KeeperTyped
      <4>2. CASE Set("conn", Fetched)
        BY <4>2, SetStores
      <4>. QED BY <2>4, <4>1, <4>2
    <3>2. ~ gate'.conn.there \/ unsure'
      BY <2>1, <2>4
    <3>3. PICK copy \in Nat \X Nat :
            keeper' = [keeper EXCEPT ![k] = [op |-> "create", pc |-> "undo", copy |-> copy]]
      <4>1. keeper[k].op = "create" /\ keeper[k].copy \in Nat \X Nat
        BY <1>0, <1>2 DEF CreateRow, At, KeeperTyped
      <4>2. keeper' = [keeper EXCEPT ![k] = [op |-> "create", pc |-> "undo", copy |-> keeper[k].copy]]
        <5>1. PICK old : old = keeper[k] /\ old \in [op : {"none", "create", "rotate", "delete"},
                 pc : {"none", "row", "undo", "write", "secret"}, copy : Nat \X Nat] /\ old.op = "create"
          BY <1>0, <4>1 DEF KeeperTyped
        <5>2. [old EXCEPT !.pc = "undo"] = [op |-> "create", pc |-> "undo", copy |-> old.copy]
          BY ONLY <5>1
        <5>3. keeper' = [keeper EXCEPT ![k] = [keeper[k] EXCEPT !.pc = "undo"]]
          BY <2>4, Zenon DEF Goes
        <5>. QED BY ONLY <5>1, <5>2, <5>3, Zenon
      <4>. QED BY ONLY <4>1, <4>2, Zenon
    <3>4. KeyHeld' /\ hmacs' \in Nat /\ (unsure => unsure')
      BY <1>0, <2>1, <2>4, <3>1 DEF KeyHeld, KeeperTyped
    <3>5. KeeperGoes(k, "create", "undo", copy)
      BY <1>0, <1>2, <2>1, <2>2, <3>1, <3>2, <3>3, <3>4 DEF CreateRow, KeeperGoes, KeeperTyped
    <3>. QED BY <3>3, <3>5, KeeperMoves
  <2>. QED BY <1>2, <2>3, <2>4 DEF CreateRow
<1>3. CASE UndoSecret(k)
  <2>1. /\ created' = created /\ hmacs' = hmacs /\ unsure' = unsure /\ created
        /\ ~ gate.conn.there \/ unsure
    BY <1>0, <1>3 DEF UndoSecret, KeeperFits, At
  <2>2. \A q \in Keepers \ {k} : ~ At(q, "create", "row")
    BY <1>3 DEF UndoSecret, KeyInv, KeeperFits, At
  <2>3. DOMAIN gate' = GateKinds /\ gate'.conn = gate.conn /\ gate'.hmac \in Nat
    <3>1. CASE UNCHANGED gate
      BY <1>0, <3>1 DEF KeeperTyped
    <3>2. CASE Set("hmac", 0)
      BY <3>2, SetStores
    <3>. QED BY <1>3, <3>1, <3>2 DEF UndoSecret
  <2>4. keeper' = [keeper EXCEPT ![k] = [op |-> "none", pc |-> "none", copy |-> <<0, 0>>]]
    BY <1>3 DEF UndoSecret, Ends, Free
  <2>5. KeyHeld' /\ hmacs' \in Nat
    BY <1>0, <2>1, <2>3 DEF KeyHeld, KeeperTyped
  <2>6. KeeperGoes(k, "none", "none", <<0, 0>>)
    BY <2>1, <2>2, <2>3, <2>4, <2>5 DEF KeeperGoes
  <2>. QED BY <2>6, KeeperMoves
<1>. QED BY <1>1, <1>2, <1>3

LEMMA RotateHolds ==
  ASSUME KeyInv, NEW k \in Keepers, ReadSecret(k) \/ WriteSecret(k)
  PROVE  KeyInv'
<1>. USE DEF GateKinds
<1>0. KeeperTyped /\ KeeperFits(k) /\ (gate.conn.there => created) /\ KeyHeld
  BY DEF KeyInv
<1>1. CASE ReadSecret(k)
  <2>1. /\ gate' = gate /\ created' = created /\ unsure' = unsure /\ gate.conn.there
        /\ hmacs' = hmacs + 1 /\ gate.hmac # 0
    BY <1>1 DEF ReadSecret, NewHmac
  <2>2. PICK copy \in Nat \X Nat : copy = <<gate.hmac, hmacs + 1>>
    <3>1. <<gate.hmac, hmacs + 1>> \in Nat \X Nat
      BY <1>0 DEF KeeperTyped
    <3>. QED BY ONLY <3>1, Zenon
  <2>3. keeper' = [keeper EXCEPT ![k] = [op |-> "rotate", pc |-> "write", copy |-> copy]]
    BY <1>1, <2>2 DEF ReadSecret, Begins
  <2>4. \A q \in Keepers : ~ At(q, "create", "row")
    BY <2>1 DEF KeyInv, KeeperFits
  <2>5. hmacs + 1 # 0 /\ hmacs' \in Nat /\ copy[2] = hmacs + 1
    BY <1>0, <2>1, <2>2 DEF KeeperTyped
  <2>6. KeyHeld'
    BY <1>0, <2>1 DEF KeyHeld
  <2>7. KeeperGoes(k, "rotate", "write", copy)
    BY <1>0, <2>1, <2>3, <2>4, <2>5, <2>6 DEF KeeperGoes, KeeperTyped
  <2>. QED BY <2>7, KeeperMoves
<1>2. CASE WriteSecret(k)
  <2>1. /\ created' = created /\ unsure' = unsure /\ hmacs' = hmacs /\ created
        /\ keeper[k].op = "rotate" /\ keeper[k].copy[2] # 0 /\ keeper[k].copy[2] \in Nat
    BY <1>0, <1>2 DEF WriteSecret, At, KeeperFits, KeeperTyped
  <2>2. keeper' = [keeper EXCEPT ![k] = [op |-> "none", pc |-> "none", copy |-> <<0, 0>>]]
    BY <1>2 DEF WriteSecret, Ends, Free
  <2>3. /\ DOMAIN gate' = GateKinds /\ gate'.conn = gate.conn
        /\ gate'.hmac \in {gate.hmac, keeper[k].copy[2]}
    <3>1. CASE UNCHANGED gate
      BY <1>0, <3>1 DEF KeeperTyped
    <3>2. CASE Set("hmac", keeper[k].copy[2])
      BY <3>2, SetStores
    <3>. QED BY <1>2, <3>1, <3>2 DEF WriteSecret
  <2>4. \A q \in Keepers \ {k} : At(q, "create", "row") => gate.hmac # 0
    BY DEF KeyInv, KeeperFits
  <2>5. KeyHeld' /\ gate'.hmac \in Nat /\ hmacs' \in Nat
    BY <1>0, <2>1, <2>3 DEF KeyHeld, KeeperTyped
  <2>6. KeeperGoes(k, "none", "none", <<0, 0>>)
    BY <1>0, <2>1, <2>2, <2>3, <2>4, <2>5 DEF KeeperGoes
  <2>. QED BY <2>6, KeeperMoves
<1>. QED BY <1>1, <1>2

LEMMA DeleteHolds ==
  ASSUME KeyInv, NEW k \in Keepers, Toggle(k) \/ DeleteRow(k) \/ DeleteSecret(k)
  PROVE  KeyInv'
<1>. USE DEF GateKinds
<1>0. KeeperTyped /\ KeeperFits(k) /\ (gate.conn.there => created) /\ KeyHeld
  BY DEF KeyInv
<1>1. CASE Toggle(k)
  <2>1. PICK object, disabled : Set("conn", object) /\ object = [gate.conn EXCEPT !.disabled = disabled]
    BY <1>1 DEF Toggle
  <2>2. DOMAIN gate' = GateKinds /\ gate'.conn = object /\ gate'.hmac = gate.hmac
    BY <2>1, SetStores
  <2>2a. gate'.conn.there = gate.conn.there
    BY ONLY <2>1, <2>2
  <2>3. UNCHANGED <<keeper, created, hmacs, unsure>>
    BY <1>1 DEF Toggle
  <2>. QED BY <2>2, <2>2a, <2>3, KeyKept
<1>2. CASE DeleteRow(k)
  <2>1. /\ created' = created /\ unsure' = unsure /\ hmacs' = hmacs /\ gate.conn.there
        /\ keeper' = [keeper EXCEPT ![k] = [op |-> "delete", pc |-> "secret", copy |-> <<0, 0>>]]
        /\ gate' = [gate EXCEPT !.conn = NoConnector, !.receiver = NoReceiver]
    BY <1>2 DEF DeleteRow, Begins
  <2>2. DOMAIN gate' = GateKinds /\ gate'.hmac = gate.hmac /\ gate'.conn = NoConnector
    BY <1>0, <2>1 DEF KeeperTyped
  <2>3. ~ gate'.conn.there
    BY <2>2 DEF NoConnector
  <2>4. \A q \in Keepers : ~ At(q, "create", "row")
    BY <2>1 DEF KeyInv, KeeperFits
  <2>5. KeyHeld' /\ gate'.hmac \in Nat /\ hmacs' \in Nat
    BY <1>0, <2>1, <2>2, <2>3 DEF KeyHeld, KeeperTyped
  <2>6. KeeperGoes(k, "delete", "secret", <<0, 0>>)
    BY <1>0, <2>1, <2>2, <2>3, <2>4, <2>5 DEF KeeperGoes
  <2>. QED BY <2>6, KeeperMoves
<1>3. CASE DeleteSecret(k)
  <2>1. /\ created' = created /\ unsure' = unsure /\ hmacs' = hmacs /\ created
        /\ ~ gate.conn.there
        /\ keeper' = [keeper EXCEPT ![k] = [op |-> "none", pc |-> "none", copy |-> <<0, 0>>]]
    BY <1>0, <1>3 DEF DeleteSecret, Ends, Free, KeeperFits, At
  <2>2. \A q \in Keepers \ {k} : ~ At(q, "create", "row")
    BY <1>3 DEF DeleteSecret, KeyInv, KeeperFits, At
  <2>3. DOMAIN gate' = GateKinds /\ gate'.conn = gate.conn /\ gate'.hmac \in Nat
    <3>1. CASE UNCHANGED gate
      BY <1>0, <3>1 DEF KeeperTyped
    <3>2. CASE Set("hmac", 0)
      BY <3>2, SetStores
    <3>. QED BY <1>3, <3>1, <3>2 DEF DeleteSecret
  <2>4. KeyHeld' /\ hmacs' \in Nat
    BY <1>0, <2>1, <2>3 DEF KeyHeld, KeeperTyped
  <2>5. KeeperGoes(k, "none", "none", <<0, 0>>)
    BY <2>1, <2>2, <2>3, <2>4 DEF KeeperGoes
  <2>. QED BY <2>5, KeeperMoves
<1>. QED BY <1>1, <1>2, <1>3

\* The operator writes the connector it has read, or not.
LEMMA OperatorHolds ==
  ASSUME KeyInv, GateDeploy \/ GateReport
  PROVE  KeyInv'
<1>. USE DEF GateKinds
<1>1. UNCHANGED <<keeper, created, hmacs, unsure>>
  BY DEF GateDeploy, GateReport, requests
<1>2. CASE UNCHANGED gate
  <2>1. DOMAIN gate' = GateKinds
    BY <1>2 DEF KeyInv, KeeperTyped
  <2>. QED BY <1>1, <1>2, <2>1, KeyKept
<1>3. CASE GateDeploy /\ gate' # gate
  <2>1. PICK object : Set("receiver", object)
    BY <1>3 DEF GateDeploy, Retry
  <2>2. DOMAIN gate' = GateKinds /\ gate'.conn = gate.conn /\ gate'.hmac = gate.hmac
    BY <2>1, SetStores
  <2>. QED BY <1>1, <2>2, KeyKept
<1>4. CASE GateReport /\ gate' # gate
  <2>1. PICK ready, since : Set("conn", [gate.conn EXCEPT !.ready = ready, !.since = since])
    BY <1>4 DEF GateReport, Retry
  <2>2. /\ DOMAIN gate' = GateKinds /\ gate'.hmac = gate.hmac
        /\ gate'.conn = [gate.conn EXCEPT !.ready = ready, !.since = since]
    BY <2>1, SetStores
  <2>3. gate'.conn.there = gate.conn.there
    BY <2>2
  <2>. QED BY <1>1, <2>2, <2>3, KeyKept
<1>. QED BY <1>2, <1>3, <1>4

LEMMA KeyStep == KeyInv /\ [GatewayNext]_gatewayVars => KeyInv'
<1>. SUFFICES ASSUME KeyInv, [GatewayNext]_gatewayVars PROVE KeyInv'
  OBVIOUS
<1>1. DOMAIN gate = GateKinds
  BY DEF KeyInv, KeeperTyped
<1>2. ASSUME UNCHANGED <<gate, keeper, created, hmacs, unsure>> PROVE KeyInv'
  BY <1>1, <1>2, KeyKept
<1>3. CASE UNCHANGED gatewayVars
  BY <1>2, <1>3 DEF gatewayVars
<1>4. ASSUME NEW k \in Keepers, OfKeeper(k) PROVE KeyInv'
  BY <1>4, CreateHolds, RotateHolds, DeleteHolds DEF OfKeeper
<1>5. CASE HubStops
  <2>1. /\ gate' = gate /\ created' = created /\ hmacs' = hmacs /\ unsure' = unsure
        /\ keeper' = [k \in Keepers |-> [op |-> "none", pc |-> "none", copy |-> <<0, 0>>]]
    BY <1>5 DEF HubStops, Free
  <2>2. KeeperTyped'
    BY <2>1 DEF KeyInv, KeeperTyped
  <2>3. \A k \in Keepers : KeeperFits(k)'
    BY <2>1 DEF KeeperFits, At
  <2>. QED BY <2>1, <2>2, <2>3 DEF KeyInv, KeyHeld
<1>6. CASE (\E kind \in GateKinds : GateEvent(kind)) \/ GateStart \/ GateFails
  BY <1>2, <1>6 DEF GateEvent, GateStart, GateFails, Retry, requests
<1>7. CASE GateDeploy \/ GateReport
  BY <1>7, OperatorHolds
<1>8. CASE ReceiverStarts \/ ReceiverStops
  BY <1>2, <1>8 DEF ReceiverStarts, ReceiverStops, requests
<1>. QED BY <1>3, <1>4, <1>5, <1>6, <1>7, <1>8 DEF GatewayNext

\* Whatever call of a connector's making or removing fails and wherever the hub stops, no
\* connector is left without the secret its senders sign with, but after a create that was
\* taken for one that failed.
THEOREM KeysAreHeld == GatewaySpec => []KeyHeld
<1>1. KeyInv => KeyHeld
  BY DEF KeyInv
<1>. QED BY <1>1, KeyStart, KeyStep, PTL DEF GatewaySpec

(***************************************************************************)
(* The operators side by side.                                             *)
(***************************************************************************)
OperatorInv ==
  /\ part = "rollout" => RolloutInv
  /\ part = "gateway" => KeyInv

LEMMA OperatorStep == OperatorInv /\ [OperatorNext]_operatorVars => OperatorInv'
<1>. SUFFICES ASSUME OperatorInv, [OperatorNext]_operatorVars PROVE OperatorInv'
  OBVIOUS
<1>1. part' = part
  BY DEF OperatorNext, OfScaling, OfRollout, OfGateway, operatorVars
<1>2. ASSUME part = "rollout" PROVE RolloutInv'
  <2>1. [RolloutNext]_rolloutVars
    BY <1>2 DEF OperatorNext, OfScaling, OfRollout, OfGateway, operatorVars
  <2>. QED BY <1>2, <2>1, RolloutStep DEF OperatorInv
<1>3. ASSUME part = "gateway" PROVE KeyInv'
  <2>1. [GatewayNext]_gatewayVars
    BY <1>3 DEF OperatorNext, OfScaling, OfRollout, OfGateway, operatorVars
  <2>. QED BY <1>3, <2>1, KeyStep DEF OperatorInv
<1>. QED BY <1>1, <1>2, <1>3 DEF OperatorInv

\* Whichever of its controllers runs, an idle operator has left nothing outdated (Reconcile,
\* setupWatches) and no connector is without the secret its senders sign with (CreateConnector,
\* RotateHMAC, DeleteConnector).
THEOREM ObjectsAreHeld == OperatorSpec => []ObjectsHold
<1>1. OperatorInit => OperatorInv
  BY RolloutStart, KeyStart DEF OperatorInit, OperatorInv
<1>2. OperatorInv => ObjectsHold
  BY IdleMeans DEF OperatorInv, ObjectsHold, KeyInv
<1>. QED BY <1>1, <1>2, OperatorStep, PTL DEF OperatorSpec
===============================================================================
