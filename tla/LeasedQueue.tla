------------------------------ MODULE LeasedQueue ------------------------------
(***************************************************************************)
(* What the task queue promises, without rows, runners or requests: an     *)
(* item is leased at most MaxAttempts times, a lease ends by being         *)
(* returned, finished or expired, and a finished item is final unless one  *)
(* of its leases has expired, because only then can somebody still be at   *)
(* work on it whom the queue no longer knows.                              *)
(***************************************************************************)
EXTENDS Naturals

CONSTANTS Tasks, MaxAttempts

VARIABLES
  phase,    \* "none", "waiting", "leased" or "done"
  used,     \* leases handed out
  expired   \* has a lease of the item expired?

vars == <<phase, used, expired>>

Init ==
  /\ phase = [t \in Tasks |-> "none"]
  /\ used = [t \in Tasks |-> 0]
  /\ expired = [t \in Tasks |-> FALSE]

Spent(t) == used[t] >= MaxAttempts

Move(t, p) == phase' = [phase EXCEPT ![t] = p]

Accept(t) ==
  /\ phase[t] = "none"
  /\ Move(t, "waiting")
  /\ UNCHANGED <<used, expired>>

Lease(t) ==
  /\ phase[t] = "waiting" /\ ~Spent(t)
  /\ Move(t, "leased")
  /\ used' = [used EXCEPT ![t] = @ + 1]
  /\ UNCHANGED expired

\* A report ends the item's lease, or is late: then some lease has expired.
Answerable(t) == phase[t] = "leased" \/ (phase[t] # "none" /\ expired[t])

Return(t) ==
  /\ Answerable(t) /\ ~Spent(t)
  /\ Move(t, "waiting")
  /\ UNCHANGED <<used, expired>>

Finish(t) ==
  /\ Answerable(t)
  /\ Move(t, "done")
  /\ UNCHANGED <<used, expired>>

Expire(S) ==
  /\ \A t \in S : phase[t] = "leased"
  /\ phase' = [t \in Tasks |->
       IF t \in S THEN IF Spent(t) THEN "done" ELSE "waiting" ELSE phase[t]]
  /\ expired' = [t \in Tasks |-> expired[t] \/ t \in S]
  /\ UNCHANGED used

Next ==
  \/ \E t \in Tasks : Accept(t) \/ Lease(t) \/ Return(t) \/ Finish(t)
  \/ \E S \in SUBSET Tasks : Expire(S)

Spec == Init /\ [][Next]_vars
===============================================================================
