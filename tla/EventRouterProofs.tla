---------------------------- MODULE EventRouterProofs ----------------------------
(***************************************************************************)
(* What an event goes through: EventRouter for every set of events, agents *)
(* and routers and any number of failures and crashes; and, below, what is *)
(* told of it by ActivityFeed and ChatDelivery.                            *)
(*                                                                         *)
(* Several routers may handle one event at once, so nothing about a pair   *)
(* of event and agent follows from where one router stands.  What every    *)
(* argument below rests on is that the invocation a router records is its  *)
(* own: Record appends, so no other router and no row names it yet.        *)
(***************************************************************************)
EXTENDS MCRouting, Counting, FiniteSetTheorems, TLAPS

InFlight(r) == router[r].pc \in {"insert", "notify", "failed"}

\* What TypeOK leaves to the reader: domains, and where a router has an event
\* and an agent.
Shape ==
  /\ event \in [Events -> {"absent", "unrouted", "routed"}]
  /\ inv \in [Events -> [Agents -> Seq(Status)]]
  /\ task \in [Events -> [Agents -> Nat]]
  /\ reported \in [Events -> [Agents -> BOOLEAN]]
  /\ router \in [Routers -> RouterState]
  /\ passes \in [Events -> 0..2] /\ failed \in [Events -> Nat]
  /\ wanted \in [Events -> SUBSET Agents] /\ deaf \in [Events -> SUBSET Agents]
  /\ faults \in 0..MaxFaults /\ crashes \in 0..MaxCrashes

Placed ==
  \A r \in Routers :
    /\ router[r].event \in Events <=> router[r].pc \notin {"idle", "next"}
    /\ router[r].agent \in Agents <=> InFlight(r)

\* Every number that is used has been given out.
NumberedAt(r) == InFlight(r) =>
  router[r].id \in 1..Len(inv[router[r].event][router[r].agent])

Numbered ==
  /\ \A e \in Events, a \in Agents :
       task[e][a] <= Len(inv[e][a]) /\ (reported[e][a] => task[e][a] # 0)
  /\ \A r \in Routers : NumberedAt(r)

\* Two routers at work for one pair never hold the same invocation, and a row
\* names the one of a router only after its insert.
Distinct ==
  \A r, s \in Routers :
    r # s /\ InFlight(r) /\ InFlight(s) /\ router[r].event = router[s].event
      /\ router[r].agent = router[s].agent => router[r].id # router[s].id

OwnedAt(r) == LET me == router[r] IN
  /\ me.pc = "insert" => task[me.event][me.agent] # me.id
  /\ me.pc = "failed" => task[me.event][me.agent] # me.id \/ me.agent \in deaf[me.event]

Owned == Distinct /\ \A r \in Routers : OwnedAt(r)

\* The agent has its row, an invocation that failed, or two failed statements.
Done(e, a) == task[e][a] # 0 \/ Contains(inv[e][a], "failure") \/ failed[e] >= 2

\* A pass leaves every agent it has dealt with done; what it is dealing with is
\* one failed statement away from being forgotten at most.
ServedAt(r) == LET me == router[r] e == me.event a == me.agent IN
  e \in Events =>
    /\ \A b \in me.matched \ me.todo : b = a \/ Done(e, b)
    /\ me.pc = "insert" =>
         inv[e][a][me.id] = "running" \/ (inv[e][a][me.id] = "missing" /\ failed[e] >= 1)
    /\ me.pc = "notify" => task[e][a] # 0
    /\ me.pc = "failed" => Done(e, a) \/ (inv[e][a][me.id] = "running" /\ failed[e] >= 1)

Served ==
  /\ \A r \in Routers : ServedAt(r)
  /\ \A e \in Events : event[e] = "routed" => \A a \in wanted[e] : Done(e, a)

\* One undisturbed pass: where the router stands tells what each pair holds.
Clean(r) == LET me == router[r] e == me.event IN
  /\ me.pc # "failed" /\ event[e] # "routed"
  /\ \A a \in Agents :
       /\ Len(inv[e][a]) <= 1
       /\ a # me.agent => task[e][a] = Len(inv[e][a])
       /\ a = me.agent => Len(inv[e][a]) = 1 /\ a \notin me.todo
       /\ a = me.agent => task[e][a] = IF me.pc = "insert" THEN 0 ELSE 1
       /\ a \in me.todo => Len(inv[e][a]) = 0
       /\ me.via = "triggers" /\ a # me.agent /\ Len(inv[e][a]) = 1 => a \in me.delivered

OnePassAt(e) ==
  /\ passes[e] = 0 =>
       /\ event[e] # "routed"
       /\ \A r \in Routers : router[r].event # e
       /\ \A a \in Agents : Len(inv[e][a]) = 0
  /\ passes[e] = 1 =>
       \A r, s \in Routers : router[r].event = e /\ router[s].event = e => r = s
  /\ passes[e] = 1 /\ failed[e] = 0 =>
       /\ \A r \in Routers : router[r].event = e => Clean(r)
       /\ event[e] = "routed" =>
            \A a \in Agents : Len(inv[e][a]) <= 1 /\ task[e][a] = Len(inv[e][a])

OnePass == \A e \in Events : OnePassAt(e)

RInv == Shape /\ Placed /\ Numbered /\ Owned /\ SuccessStands /\ Served /\ OnePass

-------------------------------------------------------------------------------
(* Functions of a pair, a router that moves, and the counting of faults        *)

LEMMA PairUpdated ==
  ASSUME NEW S, NEW T, NEW D, NEW f \in [S -> [T -> D]], NEW e \in S, NEW a \in T,
         NEW v \in D
  PROVE  /\ [f EXCEPT ![e][a] = v] \in [S -> [T -> D]]
         /\ [f EXCEPT ![e][a] = v][e][a] = v
         /\ \A g \in S, b \in T : g # e \/ b # a => [f EXCEPT ![e][a] = v][g][b] = f[g][b]
  OBVIOUS

\* Everybody but r stays where it is.
Moves(r, you) ==
  /\ router' \in [Routers -> RouterState] /\ router'[r] = you
  /\ \A s \in Routers : s # r => router'[s] = router[s]

LEMMA RouterMoves ==
  ASSUME router \in [Routers -> RouterState], NEW r \in Routers, NEW you \in RouterState,
         router' = [router EXCEPT ![r] = you]
  PROVE  Moves(r, you)
  BY DEF Moves

LEMMA StateInserting ==
  ASSUME NEW me \in RouterState, NEW a \in Agents, NEW n \in Nat
  PROVE  [me EXCEPT !.pc = "insert", !.agent = a, !.todo = @ \ {a}, !.id = n] \in RouterState
  BY DEF RouterState

LEMMA StateUpdated ==
  ASSUME NEW me \in RouterState
  PROVE  /\ [me EXCEPT !.pc = "notify"] \in RouterState
         /\ [me EXCEPT !.pc = "failed"] \in RouterState
         /\ [me EXCEPT !.pc = "match", !.agent = NoAgent] \in RouterState
         /\ [me EXCEPT !.via = "bridges"] \in RouterState
  BY DEF RouterState

LEMMA StateSpread ==
  ASSUME NEW me \in RouterState, NEW S \in SUBSET Agents
  PROVE  /\ [me EXCEPT !.pc = "match", !.agent = NoAgent, !.delivered = S] \in RouterState
         /\ [me EXCEPT !.via = "bridges", !.todo = S, !.matched = @ \union S] \in RouterState
  BY DEF RouterState

LEMMA FaultCounted ==
  ASSUME Shape, NEW e \in Events, Fault(e) \/ NoFault
  PROVE  /\ failed' \in [Events -> Nat] /\ faults' \in 0..MaxFaults
         /\ \A f \in Events : failed'[f] >= failed[f]
         /\ \A f \in Events : f # e \/ NoFault => failed'[f] = failed[f]
         /\ Fault(e) => failed'[e] = failed[e] + 1 /\ failed'[e] # 0
<1>1. failed \in [Events -> Nat] /\ faults \in 0..MaxFaults
  BY DEF Shape
<1> QED
  BY <1>1, RouterAssumption DEF Fault, NoFault

-------------------------------------------------------------------------------
(* What each statement of a router does, field by field.                       *)

LEMMA RecordEffect ==
  ASSUME Shape, NEW r \in Routers, NEW a \in Agents, Record(r, a),
         NEW e \in Events, e = router[r].event, NEW n \in Nat, n = Len(inv[e][a]) + 1
  PROVE  /\ router[r].pc = "match" /\ a \in router[r].todo
         /\ router[r] \in RouterState /\ router' \in [Routers -> RouterState]
         /\ \A s \in Routers : s # r => router'[s] = router[s]
         /\ router'[r].pc = "insert" /\ router'[r].event = e /\ router'[r].agent = a
         /\ router'[r].id = n /\ router'[r].todo = router[r].todo \ {a}
         /\ router'[r].via = router[r].via /\ router'[r].delivered = router[r].delivered
         /\ router'[r].matched = router[r].matched
         /\ inv' \in [Events -> [Agents -> Seq(Status)]]
         /\ \A f \in Events, b \in Agents : f # e \/ b # a => inv'[f][b] = inv[f][b]
         /\ Len(inv'[e][a]) = n
         /\ \A i \in 1..Len(inv[e][a]) : inv'[e][a][i] = inv[e][a][i]
         /\ inv'[e][a][n] \in {"running", "missing"}
         /\ inv'[e][a][n] = "missing" => failed'[e] = failed[e] + 1
         /\ failed' \in [Events -> Nat] /\ faults' \in 0..MaxFaults
         /\ \A f \in Events : failed'[f] >= failed[f]
<1>1. /\ router[r] \in RouterState /\ router \in [Routers -> RouterState]
      /\ inv \in [Events -> [Agents -> Seq(Status)]]
      /\ inv[e][a] \in Seq(Status) /\ Len(inv[e][a]) \in Nat
  BY DEF Shape
<1>2. router[r].pc = "match" /\ a \in router[r].todo
  BY DEF Record
<1>3. PICK x \in {"running", "missing"} :
        /\ inv' = [inv EXCEPT ![e][a] = Append(inv[e][a], x)]
        /\ (x = "running" /\ NoFault) \/ (x = "missing" /\ Fault(e))
  BY DEF Record
<1>4. PICK longer \in Seq(Status) : longer = Append(inv[e][a], x)
  <2>1. x \in Status
    BY DEF Status
  <2>2. Append(inv[e][a], x) \in Seq(Status)
    BY <1>1, <2>1
  <2> QED
    BY <2>2
<1>5. /\ Len(longer) = n /\ longer[n] = x
      /\ \A i \in 1..Len(inv[e][a]) : longer[i] = inv[e][a][i]
  BY <1>1, <1>4
<1>6. /\ inv' \in [Events -> [Agents -> Seq(Status)]] /\ inv'[e][a] = longer
      /\ \A f \in Events, b \in Agents : f # e \/ b # a => inv'[f][b] = inv[f][b]
  <2>1. inv' = [inv EXCEPT ![e][a] = longer]
    BY <1>3, <1>4
  <2> QED
    BY ONLY <1>1, <2>1, PairUpdated, e \in Events, a \in Agents, longer \in Seq(Status)
<1> DEFINE you == [router[r] EXCEPT !.pc = "insert", !.agent = a, !.todo = @ \ {a}, !.id = n]
<1>7. router' = [router EXCEPT ![r] = you]
  BY DEF Record
<1>8. you \in RouterState
  BY <1>1, StateInserting
<1> HIDE DEF you
<1>9. Moves(r, you)
  BY <1>1, <1>7, <1>8, RouterMoves
<1>10. /\ failed' \in [Events -> Nat] /\ faults' \in 0..MaxFaults
       /\ \A f \in Events : failed'[f] >= failed[f]
       /\ x = "missing" => failed'[e] = failed[e] + 1
  BY <1>3, FaultCounted
<1>11. /\ router[r] \in RouterState /\ router' \in [Routers -> RouterState]
       /\ \A s \in Routers : s # r => router'[s] = router[s]
       /\ router'[r].pc = "insert" /\ router'[r].event = e /\ router'[r].agent = a
       /\ router'[r].id = n /\ router'[r].todo = router[r].todo \ {a}
       /\ router'[r].via = router[r].via /\ router'[r].delivered = router[r].delivered
       /\ router'[r].matched = router[r].matched
  BY <1>1, <1>9 DEF Moves, you, RouterState
<1> QED
  BY <1>2, <1>5, <1>6, <1>10, <1>11

-------------------------------------------------------------------------------
(* What a step leaves true of the routers and the events it is not about       *)

\* No step takes back an invocation, a row, a failure or what is done.
Grows ==
  /\ \A f \in Events, b \in Agents :
       /\ Len(inv'[f][b]) >= Len(inv[f][b])
       /\ task'[f][b] = task[f][b] \/ (task[f][b] = 0 /\ task'[f][b] # 0)
       /\ Done(f, b) => Done(f, b)'
  /\ \A f \in Events : failed'[f] >= failed[f] /\ deaf[f] \subseteq deaf'[f]

LEMMA ContainsStays ==
  ASSUME NEW p, NEW q, Len(p) \in Nat, Len(q) \in Nat, Len(q) >= Len(p),
         \A i \in 1..Len(p) : p[i] = "failure" => q[i] = "failure",
         Contains(p, "failure")
  PROVE  Contains(q, "failure")
<1>1. PICK i \in 1..Len(p) : p[i] = "failure"
  BY DEF Contains
<1>2. i \in 1..Len(q)
  OBVIOUS
<1> QED
  BY <1>1, <1>2 DEF Contains

LEMMA Lengths ==
  ASSUME Shape
  PROVE  \A f \in Events, b \in Agents :
           inv[f][b] \in Seq(Status) /\ Len(inv[f][b]) \in Nat /\ task[f][b] \in Nat
  BY DEF Shape

\* The step neither names the router's invocation in the row nor changes it,
\* unless it no longer matters.
Undisturbed(s) == InFlight(s) =>
  LET e == router[s].event a == router[s].agent id == router[s].id IN
  /\ task'[e][a] # task[e][a] => task'[e][a] # id
  /\ \/ inv'[e][a][id] = inv[e][a][id]
     \/ router[s].pc # "insert" /\ Done(e, a)

(* A router whose invocation nobody else touches keeps its part of the         *)
(* invariant while another one moves.                                          *)
LEMMA OthersStay ==
  ASSUME Shape, Shape', Placed, Grows, NEW s \in Routers, router'[s] = router[s],
         NumberedAt(s), OwnedAt(s), ServedAt(s), Undisturbed(s)
  PROVE  NumberedAt(s)' /\ OwnedAt(s)' /\ ServedAt(s)'
<1> DEFINE e == router[s].event  a == router[s].agent  id == router[s].id
<1>1. router[s] \in RouterState /\ (InFlight(s) => e \in Events /\ a \in Agents)
  BY DEF Placed, InFlight, Shape
<1>2. InFlight(s)' <=> InFlight(s)
  BY DEF InFlight
<1>3. NumberedAt(s)'
  <2> SUFFICES ASSUME InFlight(s) PROVE id \in 1..Len(inv'[e][a])
    BY <1>2 DEF NumberedAt
  <2>1. Len(inv'[e][a]) \in Nat /\ Len(inv[e][a]) \in Nat /\ Len(inv'[e][a]) >= Len(inv[e][a])
    <3>1. Len(inv[e][a]) \in Nat
      BY <1>1, Lengths
    <3>2. inv'[e][a] \in Seq(Status)
      BY <1>1 DEF Shape
    <3>3. Len(inv'[e][a]) >= Len(inv[e][a])
      BY <1>1 DEF Grows
    <3> QED
      BY ONLY <3>1, <3>2, <3>3
  <2>2. id \in 1..Len(inv[e][a])
    BY DEF NumberedAt
  <2> HIDE DEF e, a, id
  <2> QED
    BY <2>1, <2>2
<1>4. OwnedAt(s)'
  <2> SUFFICES ASSUME InFlight(s) PROVE OwnedAt(s)'
    BY DEF OwnedAt, InFlight
  <2>1. deaf[e] \subseteq deaf'[e] /\ (task'[e][a] # task[e][a] => task'[e][a] # id)
    BY <1>1 DEF Grows, Undisturbed
  <2> QED
    BY <2>1 DEF OwnedAt
<1>5. ServedAt(s)'
  <2> SUFFICES ASSUME e \in Events PROVE ServedAt(s)'
    BY DEF ServedAt
  <2>1. \A b \in router[s].matched \ router[s].todo : b = a \/ Done(e, b)'
    BY <1>1 DEF ServedAt, Grows, RouterState
  <2>2. failed[e] \in Nat /\ failed'[e] \in Nat /\ failed'[e] >= failed[e]
    BY DEF Shape, Grows
  <2>3. InFlight(s) => (Done(e, a) => Done(e, a)')
    BY <1>1 DEF Grows
  <2>4. router[s].pc = "notify" => task'[e][a] # 0
    BY <1>1 DEF ServedAt, Grows, InFlight
  <2>5. router[s].pc = "insert" =>
          inv'[e][a][id] = "running" \/ (inv'[e][a][id] = "missing" /\ failed'[e] >= 1)
    <3> SUFFICES ASSUME router[s].pc = "insert"
                 PROVE  inv'[e][a][id] = "running" \/ (inv'[e][a][id] = "missing" /\ failed'[e] >= 1)
      OBVIOUS
    <3>1. inv[e][a][id] = "running" \/ (inv[e][a][id] = "missing" /\ failed[e] >= 1)
      BY DEF ServedAt
    <3>2. inv'[e][a][id] = inv[e][a][id]
      BY DEF InFlight, Undisturbed
    <3> QED
      BY ONLY <2>2, <3>1, <3>2
  <2>6. router[s].pc = "failed" =>
          Done(e, a)' \/ (inv'[e][a][id] = "running" /\ failed'[e] >= 1)
    <3> SUFFICES ASSUME router[s].pc = "failed"
                 PROVE  Done(e, a)' \/ (inv'[e][a][id] = "running" /\ failed'[e] >= 1)
      OBVIOUS
    <3>1. Done(e, a) \/ (inv[e][a][id] = "running" /\ failed[e] >= 1)
      BY DEF ServedAt
    <3>2. inv'[e][a][id] = inv[e][a][id] \/ Done(e, a)
      BY DEF InFlight, Undisturbed
    <3>3. Done(e, a) => Done(e, a)'
      BY <2>3 DEF InFlight
    <3> QED
      BY <2>2, <3>1, <3>2, <3>3
  <2> QED
    BY <2>1, <2>4, <2>5, <2>6 DEF ServedAt
<1> QED
  BY <1>3, <1>4, <1>5

(* The routers in flight stay distinct when none enters the flight.            *)
LEMMA DistinctStays ==
  ASSUME Distinct,
         \A s \in Routers : InFlight(s)' =>
           /\ InFlight(s)
           /\ router'[s].event = router[s].event /\ router'[s].agent = router[s].agent
           /\ router'[s].id = router[s].id
  PROVE  Distinct'
  BY DEF Distinct

(* An event keeps its part of the invariant when no more than the outcome of   *)
(* its invocations changes and routers leave it.                               *)
LEMMA OnePassElsewhere ==
  ASSUME NEW f \in Events, OnePassAt(f),
         passes'[f] = passes[f], failed'[f] = failed[f], event'[f] = event[f],
         \A b \in Agents : Len(inv'[f][b]) = Len(inv[f][b]) /\ task'[f][b] = task[f][b],
         \A s \in Routers : router'[s].event = f => router'[s] = router[s]
  PROVE  OnePassAt(f)'
<1>1. \A s \in Routers : router'[s].event = f => router[s].event = f /\ router'[s] = router[s]
  OBVIOUS
<1>2. \A s \in Routers : router[s].event = f /\ router'[s] = router[s] /\ Clean(s) => Clean(s)'
  BY DEF Clean
<1> QED
  BY <1>1, <1>2 DEF OnePassAt

(* A failed statement ends what an undisturbed pass promises.                  *)
LEMMA OnePassFaulted ==
  ASSUME NEW f \in Events, OnePassAt(f), NEW r \in Routers, router[r].event = f,
         passes'[f] = passes[f], failed'[f] # 0,
         \A s \in Routers : router'[s].event = f => router[s].event = f
  PROVE  OnePassAt(f)'
  BY DEF OnePassAt

\* A router that does not begin with another pair keeps its own part.
Carries(s) ==
  /\ OwnedAt(s)' /\ ServedAt(s)'
  /\ InFlight(s)' =>
       /\ InFlight(s)
       /\ router'[s].event = router[s].event /\ router'[s].agent = router[s].agent
       /\ router'[s].id = router[s].id

(* What is left to show of a step in which no router takes up another agent.   *)
LEMMA StepKeeps ==
  ASSUME RInv, Shape', Placed', Grows, SuccessStands', OnePass',
         \A s \in Routers : (router'[s] = router[s] /\ Undisturbed(s)) \/ Carries(s),
         \A f \in Events, b \in Agents :
           task'[f][b] <= Len(inv'[f][b]) /\ (reported'[f][b] => task'[f][b] # 0),
         \A f \in Events : event'[f] = "routed" => \A b \in wanted'[f] : Done(f, b)'
  PROVE  RInv'
<1>0. Shape /\ Placed /\ Numbered /\ Owned /\ Served
  BY DEF RInv
<1>1. ASSUME NEW s \in Routers PROVE NumberedAt(s)' /\ OwnedAt(s)' /\ ServedAt(s)'
  <2>1. CASE router'[s] = router[s] /\ Undisturbed(s)
    BY <1>0, <2>1, OthersStay DEF Numbered, Owned, Served
  <2>2. CASE Carries(s)
    <3> SUFFICES ASSUME InFlight(s)'
                 PROVE  router'[s].id \in 1..Len(inv'[router'[s].event][router'[s].agent])
      BY <2>2 DEF Carries, NumberedAt
    <3>1. PICK e \in Events, a \in Agents : e = router[s].event /\ a = router[s].agent
      BY <1>0, <2>2 DEF Carries, Placed, InFlight
    <3>2. router[s].id \in 1..Len(inv[e][a])
      BY <1>0, <2>2, <3>1 DEF Carries, Numbered, NumberedAt
    <3>3. Len(inv[e][a]) \in Nat /\ Len(inv'[e][a]) \in Nat /\ Len(inv'[e][a]) >= Len(inv[e][a])
      BY <1>0, Lengths DEF Grows, Shape
    <3>4. router[s].id \in 1..Len(inv'[e][a])
      BY ONLY <3>2, <3>3
    <3> QED
      BY <2>2, <3>1, <3>4 DEF Carries
  <2> QED
    BY <2>1, <2>2
<1>2. Distinct'
  <2>1. \A s \in Routers : InFlight(s)' =>
          /\ InFlight(s)
          /\ router'[s].event = router[s].event /\ router'[s].agent = router[s].agent
          /\ router'[s].id = router[s].id
    BY DEF Carries, InFlight
  <2> QED
    BY <1>0, <2>1, DistinctStays DEF Owned
<1> QED
  BY <1>1, <1>2 DEF RInv, Numbered, Owned, Served

(* A step that writes neither an invocation nor a row.                         *)
LEMMA QuietStep ==
  ASSUME RInv, Shape', Placed', UNCHANGED <<inv, task, reported>>, OnePass',
         \A f \in Events : failed'[f] >= failed[f] /\ deaf[f] \subseteq deaf'[f],
         \A s \in Routers : router'[s] = router[s] \/ Carries(s),
         \A f \in Events : event'[f] = "routed" =>
            (event[f] = "routed" /\ wanted'[f] = wanted[f]) \/ \A b \in wanted'[f] : Done(f, b)
  PROVE  RInv'
<1>0. Shape /\ Numbered /\ SuccessStands /\ Served
  BY DEF RInv
<1>1. \A f \in Events : failed[f] \in Nat /\ failed'[f] \in Nat
  BY <1>0 DEF Shape
<1>2. \A f \in Events, b \in Agents : Done(f, b) => Done(f, b)'
  BY <1>1 DEF Done
<1>3. Grows
  BY <1>0, <1>2, Lengths DEF Grows
<1>4. \A s \in Routers : (router'[s] = router[s] /\ Undisturbed(s)) \/ Carries(s)
  BY DEF Undisturbed
<1>5. SuccessStands'
  BY <1>0 DEF SuccessStands
<1>6. \A f \in Events : event'[f] = "routed" => \A b \in wanted'[f] : Done(f, b)'
  BY <1>0, <1>2 DEF Served, Shape
<1> QED
  BY <1>0, <1>3, <1>4, <1>5, <1>6, StepKeeps DEF Numbered

-------------------------------------------------------------------------------
(* Each statement keeps the invariant.                                         *)

LEMMA RecordKeeps ==
  ASSUME RInv, NEW r \in Routers, NEW a \in Agents, Record(r, a),
         NEW e \in Events, e = router[r].event, NEW n \in Nat, n = Len(inv[e][a]) + 1
  PROVE  RInv'
<1>0. Shape /\ Placed /\ Numbered /\ Owned /\ SuccessStands /\ Served /\ OnePass
  BY DEF RInv
<1>1. /\ router[r].pc = "match" /\ a \in router[r].todo
      /\ inv' \in [Events -> [Agents -> Seq(Status)]]
      /\ \A f \in Events, b \in Agents : f # e \/ b # a => inv'[f][b] = inv[f][b]
      /\ Len(inv'[e][a]) = n
      /\ \A i \in 1..Len(inv[e][a]) : inv'[e][a][i] = inv[e][a][i]
      /\ inv'[e][a][n] \in {"running", "missing"}
      /\ inv'[e][a][n] = "missing" => failed'[e] = failed[e] + 1
      /\ failed' \in [Events -> Nat] /\ faults' \in 0..MaxFaults
      /\ \A f \in Events : failed'[f] >= failed[f]
  BY <1>0, RecordEffect
<1>2. UNCHANGED <<event, task, reported, crashes, passes, wanted, deaf>>
  BY DEF Record
<1>3. /\ router[r] \in RouterState /\ router' \in [Routers -> RouterState]
      /\ \A s \in Routers : s # r => router'[s] = router[s]
  BY <1>0, RecordEffect
<1>4. /\ router'[r].pc = "insert" /\ router'[r].event = e /\ router'[r].agent = a
      /\ router'[r].id = n /\ router'[r].todo = router[r].todo \ {a}
      /\ router'[r].via = router[r].via /\ router'[r].delivered = router[r].delivered
      /\ router'[r].matched = router[r].matched
  BY <1>0, RecordEffect
<1>5. Shape'
  BY <1>0, <1>1, <1>2, <1>3 DEF Shape
<1>6. Placed'
  BY <1>0, <1>1, <1>3, <1>4 DEF Placed, InFlight
<1>7. /\ Len(inv[e][a]) \in Nat /\ n = Len(inv[e][a]) + 1
      /\ task[e][a] \in Nat /\ task[e][a] <= Len(inv[e][a])
      /\ failed[e] \in Nat /\ router[r].agent \notin Agents
  BY <1>0, <1>1, Lengths DEF Numbered, Shape, Placed, InFlight
<1>8. \A f \in Events, b \in Agents : Done(f, b) => Done(f, b)'
  <2>0. n >= Len(inv[e][a])
    BY ONLY <1>7
  <2>1. Len(inv'[e][a]) >= Len(inv[e][a])
    BY <1>1, <2>0
  <2>6. Len(inv'[e][a]) \in Nat
    BY <1>1
  <2>2. \A i \in 1..Len(inv[e][a]) : inv[e][a][i] = "failure" => inv'[e][a][i] = "failure"
    BY <1>1
  <2>3. Contains(inv[e][a], "failure") => Contains(inv'[e][a], "failure")
    BY <1>7, <2>1, <2>6, <2>2, ContainsStays
  <2>4. ASSUME NEW f \in Events, NEW b \in Agents
        PROVE  Contains(inv[f][b], "failure") => Contains(inv'[f][b], "failure")
    <3>1. (f = e /\ b = a) \/ inv'[f][b] = inv[f][b]
      BY <1>1
    <3> QED
      BY <2>3, <3>1
  <2>5. \A f \in Events : failed[f] \in Nat /\ failed'[f] \in Nat /\ failed'[f] >= failed[f]
    BY <1>0, <1>1 DEF Shape
  <2> QED
    BY <1>2, <2>4, <2>5 DEF Done
<1>9. Grows
  <2>1. \A f \in Events, b \in Agents : Len(inv'[f][b]) >= Len(inv[f][b])
    <3> SUFFICES ASSUME NEW f \in Events, NEW b \in Agents PROVE Len(inv'[f][b]) >= Len(inv[f][b])
      OBVIOUS
    <3>1. Len(inv[f][b]) \in Nat
      BY <1>0, Lengths
    <3>2. CASE f = e /\ b = a
      BY ONLY <1>1, <1>7, <3>2
    <3>3. CASE f # e \/ b # a
      <4>1. inv'[f][b] = inv[f][b]
        BY <1>1, <3>3
      <4> QED
        BY ONLY <3>1, <4>1
    <3> QED
      BY <3>2, <3>3
  <2> QED
    BY <1>1, <1>2, <1>8, <2>1 DEF Grows
<1>10. ASSUME NEW s \in Routers, s # r
       PROVE  NumberedAt(s)' /\ OwnedAt(s)' /\ ServedAt(s)'
  <2>1. InFlight(s) => router[s].event \in Events /\ router[s].agent \in Agents
    BY <1>0 DEF Placed, InFlight
  <2>2. InFlight(s) => router[s].id \in 1..Len(inv[router[s].event][router[s].agent])
    BY <1>0 DEF Numbered, NumberedAt
  <2>3. InFlight(s) => inv'[router[s].event][router[s].agent][router[s].id]
                         = inv[router[s].event][router[s].agent][router[s].id]
    BY <1>1, <2>1, <2>2
  <2> QED
    BY <1>0, <1>2, <1>3, <1>5, <1>9, <1>10, <2>3, OthersStay DEF Numbered, Owned, Served, Undisturbed
<1>11. NumberedAt(r)' /\ OwnedAt(r)'
  <2>1. n \in 1..Len(inv'[e][a]) /\ task'[e][a] = task[e][a] /\ task[e][a] < n
    BY ONLY <1>1, <1>2, <1>7, n \in Nat
  <2>2. NumberedAt(r)'
    BY <1>4, <2>1 DEF NumberedAt
  <2>3. OwnedAt(r)'
    BY <1>4, <2>1 DEF OwnedAt
  <2> QED
    BY <2>2, <2>3
<1>12. ServedAt(r)'
  <2>1. \A b \in router[r].matched \ router[r].todo : Done(e, b)'
    <3>1. \A b \in router[r].matched : b \in Agents /\ b # router[r].agent
      BY <1>3, <1>7 DEF RouterState
    <3>2. router[r].event \in Events /\ e = router[r].event
      BY <1>1
    <3>3. \A b \in router[r].matched \ router[r].todo : Done(e, b)
      BY <1>0, <3>1, <3>2 DEF Served, ServedAt
    <3> QED
      BY <1>1, <1>8, <3>1, <3>3
  <2>2. inv'[e][a][n] = "running" \/ (inv'[e][a][n] = "missing" /\ failed'[e] >= 1)
    BY ONLY <1>1, <1>7
  <2> QED
    BY <1>4, <2>1, <2>2 DEF ServedAt
<1>13. Numbered'
  <2>1. \A f \in Events, b \in Agents :
          task[f][b] <= Len(inv'[f][b]) /\ (reported[f][b] => task[f][b] # 0)
    <3> SUFFICES ASSUME NEW f \in Events, NEW b \in Agents
                 PROVE  task[f][b] <= Len(inv'[f][b]) /\ (reported[f][b] => task[f][b] # 0)
      OBVIOUS
    <3>1. /\ task[f][b] \in Nat /\ Len(inv[f][b]) \in Nat /\ Len(inv'[f][b]) \in Nat
          /\ Len(inv'[f][b]) >= Len(inv[f][b])
      BY <1>0, <1>5, <1>9, Lengths DEF Grows, Shape
    <3> QED
      BY <1>0, <3>1 DEF Numbered
  <2> QED
    BY <1>2, <1>10, <1>11, <2>1 DEF Numbered
<1>14. Distinct'
  <2>1. ASSUME NEW s \in Routers, s # r, InFlight(s), router[s].event = e, router[s].agent = a
        PROVE  router[s].id # n
    <3>1. router[s].id \in 1..Len(inv[e][a])
      BY <1>0, <2>1 DEF Numbered, NumberedAt
    <3> QED
      BY <1>7, <3>1
  <2>2. \A s \in Routers : s # r => (InFlight(s)' <=> InFlight(s))
    BY <1>3 DEF InFlight
  <2> QED
    BY <1>0, <1>3, <1>4, <2>1, <2>2 DEF Owned, Distinct
<1>15. Owned'
  BY <1>10, <1>11, <1>14 DEF Owned
<1>16. SuccessStands'
  <2> SUFFICES ASSUME NEW f \in Events, NEW b \in Agents, reported[f][b], b \notin deaf[f]
               PROVE  inv'[f][b][task[f][b]] # "failure"
    BY <1>2 DEF SuccessStands
  <2>1. task[f][b] \in 1..Len(inv[f][b]) /\ inv[f][b][task[f][b]] # "failure"
    BY <1>0, Lengths DEF Numbered, SuccessStands
  <2> QED
    BY <1>1, <2>1
<1>17. Served'
  BY <1>0, <1>2, <1>8, <1>10, <1>12 DEF Served, Shape
<1>18. ASSUME NEW f \in Events PROVE OnePassAt(f)'
  <2>1. CASE f # e
    <3>1. inv'[f] = inv[f] /\ failed'[f] = failed[f]
      BY <1>0, <1>1, <2>1 DEF Shape, Record, Fault, NoFault
    <3> QED
      BY <1>0, <1>2, <1>3, <1>4, <2>1, <3>1, OnePassElsewhere DEF OnePass
  <2>2. CASE f = e
    <3>1. router[r].event = e /\ passes[e] # 0
      BY <1>0, <1>1 DEF OnePass, OnePassAt
    <3>2. \A s \in Routers : router'[s].event = e <=> router[s].event = e
      BY <1>3, <1>4, <3>1
    <3>3. passes[e] = 1 /\ failed'[e] = 0 => Clean(r) /\ Clean(r)'
      <4> SUFFICES ASSUME passes[e] = 1, failed'[e] = 0 PROVE Clean(r) /\ Clean(r)'
        OBVIOUS
      <4>1. Clean(r)
        <5>1. failed[e] = 0
          BY ONLY <1>1, <1>7, failed'[e] = 0, e \in Events
        <5> QED
          BY <1>0, <3>1, <5>1 DEF OnePass, OnePassAt
      <4>2. /\ a \in router[r].todo /\ Len(inv[e][a]) = 0 /\ task[e][a] = 0
            /\ Len(inv'[e][a]) = 1
        <5>1. a \in router[r].todo /\ a # router[r].agent
          BY <1>1, <1>7
        <5>2. Len(inv[e][a]) = 0 /\ task[e][a] = Len(inv[e][a])
          BY <3>1, <4>1, <5>1 DEF Clean
        <5> QED
          BY <1>1, <1>7, <5>1, <5>2
      <4>3. ASSUME NEW b \in Agents
            PROVE  /\ Len(inv'[e][b]) <= 1
                   /\ b # a => task[e][b] = Len(inv'[e][b])
                   /\ b = a => Len(inv'[e][b]) = 1 /\ task[e][b] = 0
                   /\ b \in router[r].todo \ {a} => Len(inv'[e][b]) = 0
                   /\ router[r].via = "triggers" /\ b # a /\ Len(inv'[e][b]) = 1 =>
                        b \in router[r].delivered
        <5>1. CASE b = a
          <6>1. Len(inv'[e][b]) = 1 /\ task[e][b] = 0 /\ b \notin router[r].todo \ {a}
            BY <4>2, <5>1
          <6> QED
            BY <5>1, <6>1
        <5>2. CASE b # a
          <6>1. inv'[e][b] = inv[e][b] /\ b # router[r].agent
            BY <1>1, <1>7, <5>2
          <6> QED
            BY <3>1, <4>1, <5>2, <6>1 DEF Clean
        <5> QED
          BY <5>1, <5>2
      <4>4. event[e] # "routed"
        BY <3>1, <4>1 DEF Clean
      <4>5. /\ router'[r].pc = "insert" /\ router'[r].event = e /\ router'[r].agent = a
            /\ router'[r].todo = router[r].todo \ {a} /\ router'[r].via = router[r].via
            /\ router'[r].delivered = router[r].delivered /\ event'[e] # "routed" /\ task' = task
        BY <1>2, <1>4, <4>4
      <4>6. Clean(r)'
        BY ONLY <4>3, <4>5 DEF Clean
      <4> QED
        BY <4>1, <4>6
    <3>4. passes[e] = 1 => \A s \in Routers : router[s].event = e => s = r
      BY <1>0, <1>1, <3>1 DEF OnePass, OnePassAt
    <3> QED
      <4>1. passes'[e] = 1 => \A q, s \in Routers : router'[q].event = e /\ router'[s].event = e => q = s
        BY <1>2, <3>2, <3>4
      <4>2. passes'[e] = 1 /\ failed'[e] = 0 => event'[e] # "routed"
        BY <1>2, <3>1, <3>3 DEF Clean
      <4>3. ASSUME passes'[e] = 1, failed'[e] = 0, NEW s \in Routers, router'[s].event = e PROVE Clean(s)'
        <5>1. s = r /\ Clean(r)'
          BY <1>2, <3>2, <3>3, <3>4, <4>3
        <5> QED
          BY ONLY <5>1 DEF Clean
      <4> QED
        BY <1>2, <2>2, <3>1, <4>1, <4>2, <4>3 DEF OnePassAt
  <2> QED
    BY <2>1, <2>2
<1> QED
  BY <1>5, <1>6, <1>13, <1>15, <1>16, <1>17, <1>18 DEF RInv, OnePass
LEMMA QuietDone ==
  ASSUME Shape, Shape', UNCHANGED <<inv, task>>, \A f \in Events : failed'[f] >= failed[f]
  PROVE  \A f \in Events, b \in Agents : Done(f, b) => Done(f, b)'
<1>1. \A f \in Events : failed[f] \in Nat /\ failed'[f] \in Nat
  BY DEF Shape
<1> QED
  BY <1>1 DEF Done

(* The row is inserted unless it is there.                                     *)
LEMMA RowInsertedKeeps ==
  ASSUME RInv, NEW r \in Routers, NEW e \in Events, NEW a \in Agents,
         NEW id \in Nat, id = router[r].id,
         e = router[r].event, a = router[r].agent, router[r].pc = "insert",
         NoFault, InsertTask(e, a, id), router' = [router EXCEPT ![r].pc = "notify"],
         UNCHANGED <<event, inv, reported, crashes, passes, wanted, deaf>>
  PROVE  RInv'
<1>0. Shape /\ Placed /\ Numbered /\ Owned /\ SuccessStands /\ Served /\ OnePass
  BY DEF RInv
<1>1. router[r] \in RouterState /\ router \in [Routers -> RouterState]
  BY <1>0 DEF Shape
<1> DEFINE you == [router[r] EXCEPT !.pc = "notify"]
<1>2. Moves(r, you)
  BY <1>1, StateUpdated, RouterMoves
<1>3. /\ router'[r].pc = "notify" /\ router'[r].event = e /\ router'[r].agent = a
      /\ router'[r].id = id /\ router'[r].todo = router[r].todo
      /\ router'[r].via = router[r].via /\ router'[r].delivered = router[r].delivered
      /\ router'[r].matched = router[r].matched
      /\ router' \in [Routers -> RouterState]
      /\ \A s \in Routers : s # r => router'[s] = router[s]
  BY <1>1, <1>2 DEF Moves, you, RouterState
<1> HIDE DEF you
<1>4. id \in 1..Len(inv[e][a]) /\ Len(inv[e][a]) \in Nat /\ task[e][a] \in Nat
  BY <1>0, Lengths DEF Numbered, NumberedAt, InFlight
<1> DEFINE v == IF task[e][a] = 0 THEN id ELSE task[e][a]
<1>5. v \in Nat /\ v # 0 /\ v <= Len(inv[e][a])
  BY <1>0, <1>4 DEF Numbered
<1>6. task' = [task EXCEPT ![e][a] = v] /\ task \in [Events -> [Agents -> Nat]]
  BY <1>0 DEF InsertTask, Shape
<1>7. task[e][a] # 0 => v = task[e][a]
  OBVIOUS
<1>8. v = task[e][a] \/ v = id
  OBVIOUS
<1>8a. task[e][a] = 0 => v = id
  OBVIOUS
<1> HIDE DEF v
<1>9. /\ task' \in [Events -> [Agents -> Nat]] /\ task'[e][a] = v
      /\ \A g \in Events, b \in Agents : g # e \/ b # a => task'[g][b] = task[g][b]
  BY <1>5, <1>6, PairUpdated
<1>10. failed' = failed /\ faults' = faults
  BY DEF NoFault
<1>11. Shape'
  BY <1>0, <1>3, <1>9, <1>10 DEF Shape
<1>12. Placed'
  BY <1>0, <1>3 DEF Placed, InFlight
<1>13. \A f \in Events, b \in Agents :
         task'[f][b] = task[f][b] \/ (task[f][b] = 0 /\ task'[f][b] # 0)
  BY <1>5, <1>7, <1>9
<1>14. \A f \in Events, b \in Agents : Done(f, b) => Done(f, b)'
  BY <1>10, <1>13 DEF Done
<1>15. Grows
  <2>1. \A f \in Events : failed[f] \in Nat
    BY <1>0 DEF Shape
  <2>2. \A f \in Events : failed'[f] >= failed[f]
    BY <1>10, <2>1
  <2>3. \A f \in Events, b \in Agents : Len(inv'[f][b]) >= Len(inv[f][b])
    BY <1>0, Lengths
  <2> QED
    BY <1>13, <1>14, <2>2, <2>3 DEF Grows
<1>16. SuccessStands'
  BY <1>0, <1>13 DEF SuccessStands, Numbered
<1>17. \A f \in Events, b \in Agents :
         task'[f][b] <= Len(inv'[f][b]) /\ (reported'[f][b] => task'[f][b] # 0)
  <2> SUFFICES ASSUME NEW f \in Events, NEW b \in Agents
               PROVE  task'[f][b] <= Len(inv[f][b]) /\ (reported[f][b] => task'[f][b] # 0)
    OBVIOUS
  <2>1. task[f][b] <= Len(inv[f][b]) /\ (reported[f][b] => task[f][b] # 0)
    BY <1>0 DEF Numbered
  <2>2. (f = e /\ b = a) \/ task'[f][b] = task[f][b]
    BY <1>9
  <2> QED
    BY <1>5, <1>9, <2>1, <2>2
<1>18. ASSUME NEW s \in Routers, s # r PROVE router'[s] = router[s] /\ Undisturbed(s)
  <2>1. ASSUME InFlight(s), router[s].event = e, router[s].agent = a
        PROVE  router[s].id # id
    BY <1>0, <1>18, <2>1 DEF Owned, Distinct, InFlight
  <2>2. InFlight(s) => router[s].event \in Events /\ router[s].agent \in Agents
    BY <1>0 DEF Placed, InFlight
  <2>3. InFlight(s) /\ ~(router[s].event = e /\ router[s].agent = a) =>
          task'[router[s].event][router[s].agent] = task[router[s].event][router[s].agent]
    BY <1>9, <2>2
  <2>4. task'[e][a] # task[e][a] => task'[e][a] = id
    BY <1>8, <1>9
  <2>5. Undisturbed(s)
    BY <2>1, <2>3, <2>4 DEF Undisturbed
  <2> QED
    BY <1>3, <1>18, <2>5
<1>19. Carries(r)
  <2>1. \A b \in router[r].matched \ router[r].todo : b = a \/ Done(e, b)'
    BY <1>0, <1>1, <1>14 DEF Served, ServedAt, RouterState
  <2>2. ServedAt(r)'
    BY <1>3, <1>5, <1>9, <2>1 DEF ServedAt
  <2> QED
    BY <1>3, <2>2 DEF Carries, OwnedAt, InFlight
<1>20. ASSUME NEW f \in Events PROVE OnePassAt(f)'
  <2>1. CASE f # e
    BY <1>0, <1>3, <1>9, <1>10, <2>1, OnePassElsewhere DEF OnePass
  <2>2. CASE f = e
    <3>1. Clean(r) => Clean(r)'
      <4> SUFFICES ASSUME Clean(r) PROVE Clean(r)'
        OBVIOUS
      <4>1. Len(inv[e][a]) = 1 /\ task[e][a] = 0
        BY DEF Clean
      <4>2. id = 1
        BY <1>4, <4>1
      <4>3. task'[e][a] = 1
        BY <1>8a, <1>9, <4>1, <4>2
      <4> QED
        BY <1>3, <1>9, <4>3 DEF Clean
    <3>2. \A s \in Routers : router'[s].event = e <=> router[s].event = e
      BY <1>3
    <3>3. passes[e] # 0
      BY <1>0 DEF OnePass, OnePassAt
    <3>4. passes[e] = 1 => \A s \in Routers : router[s].event = e => s = r
      BY <1>0 DEF OnePass, OnePassAt
    <3>5. passes[e] = 1 /\ failed[e] = 0 => Clean(r)
      BY <1>0 DEF OnePass, OnePassAt
    <3>6. Clean(r) => event[e] # "routed"
      BY DEF Clean
    <3> QED
      BY <1>10, <2>2, <3>1, <3>2, <3>3, <3>4, <3>5, <3>6 DEF OnePassAt
  <2> QED
    BY <2>1, <2>2
<1>21. \A f \in Events : event'[f] = "routed" => \A b \in wanted'[f] : Done(f, b)'
  BY <1>0, <1>14 DEF Served, Shape
<1> QED
  BY <1>11, <1>12, <1>15, <1>16, <1>17, <1>18, <1>19, <1>20, <1>21, StepKeeps DEF OnePass

(* A failed statement: the router stays with its event, or leaves it.          *)
PlacedState(you) ==
  /\ you.event \in Events <=> you.pc \notin {"idle", "next"}
  /\ you.agent \in Agents <=> you.pc \in {"insert", "notify", "failed"}

LEMMA FaultedKeeps ==
  ASSUME RInv, NEW r \in Routers, NEW e \in Events, e = router[r].event, Fault(e),
         NEW you \in RouterState, router' = [router EXCEPT ![r] = you], PlacedState(you),
         you.event \in {e, NoEvent}, Carries(r),
         UNCHANGED <<event, inv, task, reported, crashes, passes, wanted>>,
         deaf' \in [Events -> SUBSET Agents], \A f \in Events : deaf[f] \subseteq deaf'[f]
  PROVE  RInv'
<1>0. Shape /\ Placed /\ OnePass
  BY DEF RInv
<1>1. Moves(r, you)
  BY <1>0, RouterMoves DEF Shape
<1>2. /\ failed' \in [Events -> Nat] /\ faults' \in 0..MaxFaults
      /\ \A f \in Events : failed'[f] >= failed[f]
      /\ \A f \in Events : f # e => failed'[f] = failed[f]
      /\ failed'[e] # 0
  BY <1>0, FaultCounted
<1>3. Shape'
  BY <1>0, <1>1, <1>2 DEF Shape, Moves
<1>4. Placed'
  BY <1>0, <1>1 DEF Placed, Moves, PlacedState, InFlight
<1>5. ASSUME NEW f \in Events PROVE OnePassAt(f)'
  <2>1. NoEvent \notin Events
    BY RouterAssumption
  <2>2. CASE f # e
    BY <1>0, <1>1, <1>2, <2>1, <2>2, OnePassElsewhere DEF OnePass, Moves
  <2>3. CASE f = e
    <3>1. \A s \in Routers : router'[s].event = e => router[s].event = e
      BY <1>1 DEF Moves
    <3> QED
      BY <1>0, <1>2, <2>3, <3>1, OnePassFaulted DEF OnePass
  <2> QED
    BY <2>2, <2>3
<1>6. \A s \in Routers : router'[s] = router[s] \/ Carries(s)
  BY <1>1 DEF Moves
<1>7. \A f \in Events : event'[f] = "routed" => event[f] = "routed" /\ wanted'[f] = wanted[f]
  OBVIOUS
<1> QED
  BY <1>2, <1>3, <1>4, <1>5, <1>6, <1>7, QuietStep DEF OnePass

LEMMA EnqueueKeeps ==
  ASSUME RInv, NEW r \in Routers, EnqueueTask(r)
  PROVE  RInv'
<1>0. Shape /\ Placed /\ Owned /\ Served
  BY DEF RInv
<1>1. router[r].pc = "insert" /\ router[r] \in RouterState
  BY <1>0 DEF EnqueueTask, Shape
<1>2. PICK e \in Events, a \in Agents, id \in Nat :
        e = router[r].event /\ a = router[r].agent /\ id = router[r].id
  BY <1>0, <1>1 DEF Placed, InFlight, RouterState
<1>3. CASE NoFault /\ InsertTask(e, a, id) /\ router' = [router EXCEPT ![r].pc = "notify"]
  <2>1. UNCHANGED <<event, inv, reported, crashes, passes, wanted, deaf>>
    BY DEF EnqueueTask
  <2> QED
    BY <1>1, <1>2, <1>3, <2>1, RowInsertedKeeps
<1>4. CASE Fault(e) /\ UNCHANGED task /\ router' = [router EXCEPT ![r].pc = "failed"]
  <2>1. UNCHANGED <<event, inv, reported, crashes, passes, wanted, deaf>>
    BY DEF EnqueueTask
  <2> DEFINE you == [router[r] EXCEPT !.pc = "failed"]
  <2>2. you \in RouterState /\ router' = [router EXCEPT ![r] = you]
    BY <1>1, <1>4, StateUpdated
  <2>3. /\ you.pc = "failed" /\ you.event = e /\ you.agent = a /\ you.id = id
        /\ you.todo = router[r].todo /\ you.matched = router[r].matched
    BY <1>1, <1>2 DEF RouterState
  <2> HIDE DEF you
  <2>4. Moves(r, you)
    BY <1>0, <2>2, RouterMoves DEF Shape
  <2>5. failed[e] \in Nat /\ failed'[e] = failed[e] + 1 /\ failed'[e] >= 1
    BY <1>0, <1>4, FaultCounted DEF Shape
  <2>6. \A b \in Agents : Done(e, b) => Done(e, b)'
    BY <1>4, <2>1, <2>5 DEF Done
  <2>7. inv[e][a][id] = "running" \/ (inv[e][a][id] = "missing" /\ failed[e] >= 1)
    BY <1>0, <1>1, <1>2 DEF Served, ServedAt
  <2>8. Done(e, a)' \/ (inv'[e][a][id] = "running" /\ failed'[e] >= 1)
    BY <2>1, <2>5, <2>7 DEF Done
  <2>9. \A b \in router[r].matched \ router[r].todo : b = a \/ Done(e, b)'
    BY <1>0, <1>1, <1>2, <2>6 DEF Served, ServedAt, RouterState
  <2>10. ServedAt(r)'
    BY <2>3, <2>4, <2>8, <2>9 DEF ServedAt, Moves
  <2>11. OwnedAt(r)'
    BY <1>0, <1>1, <1>2, <1>4, <2>3, <2>4 DEF Owned, OwnedAt, Moves
  <2>12. Carries(r)
    BY <1>1, <1>2, <2>3, <2>4, <2>10, <2>11 DEF Carries, Moves, InFlight
  <2>13. PlacedState(you)
    BY <2>3 DEF PlacedState
  <2>14. deaf' \in [Events -> SUBSET Agents] /\ \A f \in Events : deaf[f] \subseteq deaf'[f]
    BY <1>0, <2>1 DEF Shape
  <2> QED
    BY <1>2, <1>4, <2>1, <2>2, <2>3, <2>12, <2>13, <2>14, FaultedKeeps
<1> QED
  BY <1>2, <1>3, <1>4 DEF EnqueueTask

(* A statement that succeeds and writes neither an invocation nor a row.       *)
LEMMA StillKeeps ==
  ASSUME RInv, NEW r \in Routers, NEW e \in Events, e = router[r].event, NoFault,
         NEW you \in RouterState, router' = [router EXCEPT ![r] = you], PlacedState(you),
         you.event \in {e, NoEvent}, Carries(r),
         UNCHANGED <<inv, task, reported, crashes, passes, deaf>>,
         event' \in [Events -> {"absent", "unrouted", "routed"}],
         wanted' \in [Events -> SUBSET Agents],
         \A f \in Events : f # e => event'[f] = event[f] /\ wanted'[f] = wanted[f],
         event'[e] = "routed" =>
           (event[e] = "routed" /\ wanted'[e] = wanted[e]) \/ \A b \in wanted'[e] : Done(e, b),
         OnePassAt(e)'
  PROVE  RInv'
<1>0. Shape /\ Placed /\ OnePass
  BY DEF RInv
<1>1. Moves(r, you)
  BY <1>0, RouterMoves DEF Shape
<1>2. failed' = failed /\ faults' = faults /\ \A f \in Events : failed'[f] >= failed[f]
  BY <1>0 DEF NoFault, Shape
<1>3. Shape'
  BY <1>0, <1>1, <1>2 DEF Shape, Moves
<1>4. Placed'
  BY <1>0, <1>1 DEF Placed, Moves, PlacedState, InFlight
<1>5. ASSUME NEW f \in Events, f # e PROVE OnePassAt(f)'
  <2>1. NoEvent \notin Events
    BY RouterAssumption
  <2> QED
    BY <1>0, <1>1, <1>2, <1>5, <2>1, OnePassElsewhere DEF OnePass, Moves
<1>6. \A s \in Routers : router'[s] = router[s] \/ Carries(s)
  BY <1>1 DEF Moves
<1>7. \A f \in Events : event'[f] = "routed" =>
        (event[f] = "routed" /\ wanted'[f] = wanted[f]) \/ \A b \in wanted'[f] : Done(f, b)
  OBVIOUS
<1>8. \A f \in Events : deaf[f] \subseteq deaf'[f]
  OBVIOUS
<1>9. OnePass'
  BY <1>5 DEF OnePass
<1> QED
  BY <1>2, <1>3, <1>4, <1>6, <1>7, <1>8, <1>9, QuietStep

\* What an undisturbed pass needs of the router that makes it.
LEMMA OnePassHere ==
  ASSUME NEW e \in Events, OnePassAt(e), NEW r \in Routers, router[r].event = e,
         passes'[e] = passes[e], failed'[e] = failed[e],
         \A s \in Routers : router'[s].event = e => router[s].event = e,
         passes[e] = 1 /\ Clean(r) /\ router'[r].event = e => Clean(r)',
         passes[e] = 1 /\ Clean(r) /\ event'[e] = "routed" =>
           \A a \in Agents : Len(inv'[e][a]) <= 1 /\ task'[e][a] = Len(inv'[e][a])
  PROVE  OnePassAt(e)'
<1>1. passes[e] # 0
  BY DEF OnePassAt
<1>2. passes[e] = 1 => \A s \in Routers : router[s].event = e => s = r
  BY DEF OnePassAt
<1>3. passes[e] = 1 /\ failed[e] = 0 => Clean(r)
  BY DEF OnePassAt
<1> QED
  BY <1>1, <1>2, <1>3 DEF OnePassAt

LEMMA NotifyKeeps ==
  ASSUME RInv, NEW r \in Routers, Notify(r)
  PROVE  RInv'
<1>0. Shape /\ Placed /\ Owned /\ Served /\ OnePass
  BY DEF RInv
<1>1. router[r].pc = "notify" /\ router[r] \in RouterState
  BY <1>0 DEF Notify, Shape
<1>2. PICK e \in Events, a \in Agents : e = router[r].event /\ a = router[r].agent
  BY <1>0, <1>1 DEF Placed, InFlight
<1>3. UNCHANGED <<event, inv, task, reported, crashes, passes, wanted>>
  BY DEF Notify
<1>4. task[e][a] # 0
  BY <1>0, <1>1, <1>2 DEF Served, ServedAt
<1>5. \A b \in router[r].matched \ router[r].todo : b \in Agents /\ Done(e, b)
  BY <1>0, <1>1, <1>2, <1>4 DEF Served, ServedAt, RouterState, Done
<1>6. ASSUME Fault(e) \/ NoFault
      PROVE  \A b \in router[r].matched \ router[r].todo : Done(e, b)'
  <2>1. failed[e] \in Nat /\ failed'[e] \in Nat /\ failed'[e] >= failed[e]
    BY <1>0, <1>6, FaultCounted DEF Shape
  <2>2. \A b \in Agents : Done(e, b) => Done(e, b)'
    BY <1>3, <2>1 DEF Done
  <2> QED
    BY <1>5, <2>2
<1> DEFINE D == IF router[r].via = "triggers" THEN router[r].delivered \union {a}
                ELSE router[r].delivered
           back == [router[r] EXCEPT !.pc = "match", !.agent = NoAgent, !.delivered = D]
           off == [router[r] EXCEPT !.pc = "failed"]
<1>7. CASE NoFault /\ router' = [router EXCEPT ![r] = back] /\ UNCHANGED deaf
  <2>1. D \in SUBSET Agents
    BY <1>1 DEF RouterState
  <2>2. back \in RouterState
    <3> HIDE DEF D
    <3> QED
      BY <1>1, <2>1, StateSpread
  <2>3. /\ back.pc = "match" /\ back.event = e /\ back.agent = NoAgent /\ back.delivered = D
        /\ back.todo = router[r].todo /\ back.matched = router[r].matched
        /\ back.via = router[r].via
    BY <1>1, <1>2 DEF RouterState
  <2>4. router[r].delivered \subseteq D /\ (router[r].via = "triggers" => a \in D)
    OBVIOUS
  <2> HIDE DEF back, D
  <2>5. Moves(r, back)
    BY <1>0, <1>7, <2>2, RouterMoves DEF Shape
  <2>6. NoAgent \notin Agents
    BY RouterAssumption
  <2>7. ServedAt(r)'
    BY <1>6, <1>7, <2>3, <2>5 DEF ServedAt, Moves
  <2>8. Carries(r)
    BY <2>3, <2>5, <2>7 DEF Carries, OwnedAt, InFlight, Moves
  <2>9. PlacedState(back)
    BY <2>3, <2>6 DEF PlacedState
  <2>10. Clean(r) => Clean(r)'
    <3> SUFFICES ASSUME Clean(r) PROVE Clean(r)'
      OBVIOUS
    <3>1. Len(inv[e][a]) <= 1 /\ task[e][a] = Len(inv[e][a]) /\ a \notin router[r].todo
      BY <1>1, <1>2 DEF Clean
    <3>2. event'[e] # "routed" /\ inv' = inv /\ task' = task
      BY <1>2, <1>3 DEF Clean
    <3>3. /\ router'[r].pc = "match" /\ router'[r].event = e /\ router'[r].agent = NoAgent
          /\ router'[r].todo = router[r].todo /\ router'[r].delivered = D
          /\ router'[r].via = router[r].via
      BY <2>3, <2>5 DEF Moves
    <3>4. ASSUME NEW b \in Agents
          PROVE  /\ Len(inv[e][b]) <= 1 /\ task[e][b] = Len(inv[e][b])
                 /\ b \in router[r].todo => Len(inv[e][b]) = 0
                 /\ router[r].via = "triggers" /\ Len(inv[e][b]) = 1 => b \in D
      <4>1. CASE b = a
        BY <2>4, <3>1, <4>1
      <4>2. CASE b # a
        BY <1>2, <2>4, <4>2 DEF Clean
      <4> QED
        BY <4>1, <4>2
    <3> QED
      BY <2>6, <3>2, <3>3, <3>4 DEF Clean
  <2>11. OnePassAt(e)'
    <3>1. failed'[e] = failed[e] /\ event'[e] = event[e] /\ passes'[e] = passes[e]
      BY <1>3, <1>7 DEF NoFault
    <3>2. \A s \in Routers : router'[s].event = e => router[s].event = e
      BY <1>2, <2>5 DEF Moves
    <3>3. Clean(r) => event[e] # "routed"
      BY <1>2 DEF Clean
    <3> QED
      BY <1>0, <1>2, <2>10, <3>1, <3>2, <3>3, OnePassHere DEF OnePass
  <2>12. event' \in [Events -> {"absent", "unrouted", "routed"}]
         /\ wanted' \in [Events -> SUBSET Agents]
    BY <1>0, <1>3 DEF Shape
  <2> QED
    BY <1>2, <1>3, <1>7, <2>2, <2>3, <2>8, <2>9, <2>11, <2>12, StillKeeps
<1>8. CASE Fault(e) /\ router' = [router EXCEPT ![r] = off]
           /\ deaf' = [deaf EXCEPT ![e] = @ \union {a}]
  <2>1. off \in RouterState
    BY <1>1, StateUpdated
  <2>2. /\ off.pc = "failed" /\ off.event = e /\ off.agent = a /\ off.id = router[r].id
        /\ off.todo = router[r].todo /\ off.matched = router[r].matched
    BY <1>1, <1>2 DEF RouterState
  <2> HIDE DEF off
  <2>3. Moves(r, off)
    BY <1>0, <1>8, <2>1, RouterMoves DEF Shape
  <2>4. /\ deaf' \in [Events -> SUBSET Agents] /\ a \in deaf'[e]
        /\ \A f \in Events : deaf[f] \subseteq deaf'[f]
    BY <1>0, <1>8 DEF Shape
  <2>5. Done(e, a)'
    BY <1>3, <1>4 DEF Done
  <2>6. ServedAt(r)'
    BY <1>6, <1>8, <2>2, <2>3, <2>5 DEF ServedAt, Moves
  <2>7. OwnedAt(r)'
    BY <2>2, <2>3, <2>4 DEF OwnedAt, Moves
  <2>8. Carries(r)
    BY <1>1, <1>2, <2>2, <2>3, <2>6, <2>7 DEF Carries, InFlight, Moves
  <2>9. PlacedState(off)
    BY <2>2 DEF PlacedState
  <2> QED
    BY <1>2, <1>3, <1>8, <2>1, <2>2, <2>4, <2>8, <2>9, FaultedKeeps
<1> QED
  BY <1>2, <1>7, <1>8 DEF Notify

(* The invocation of a router that gives up is failed: no row names it, or the *)
(* router's NOTIFY failed.                                                     *)
LEMMA InvocationFailedKeeps ==
  ASSUME RInv, NEW r \in Routers, NEW e \in Events, NEW a \in Agents,
         NEW id \in Nat, id = router[r].id, e = router[r].event, a = router[r].agent,
         router[r].pc = "failed", NoFault, Complete(e, a, id),
         NEW you \in RouterState, router' = [router EXCEPT ![r] = you],
         you.pc = "match", you.event = e, you.agent = NoAgent, you.todo = router[r].todo,
         you.matched = router[r].matched,
         UNCHANGED <<event, task, reported, crashes, passes, wanted, deaf>>
  PROVE  RInv'
<1>0. Shape /\ Placed /\ Numbered /\ Owned /\ SuccessStands /\ Served /\ OnePass
  BY DEF RInv
<1>1. Moves(r, you) /\ NoAgent \notin Agents
  BY <1>0, RouterMoves, RouterAssumption DEF Shape
<1>2. id \in 1..Len(inv[e][a]) /\ inv[e][a] \in Seq(Status) /\ Len(inv[e][a]) \in Nat
  BY <1>0, Lengths DEF Numbered, NumberedAt, InFlight
<1> DEFINE v == IF inv[e][a][id] = "missing" THEN "missing" ELSE "failure"
           longer == [inv[e][a] EXCEPT ![id] = v]
<1>3. v \in Status /\ inv' = [inv EXCEPT ![e][a] = longer]
  BY <1>0 DEF Complete, Status, Shape
<1>4. inv[e][a][id] \in {"running", "failure"} => v = "failure"
  OBVIOUS
<1> HIDE DEF v
<1>5. /\ longer \in Seq(Status) /\ Len(longer) = Len(inv[e][a]) /\ longer[id] = v
      /\ \A i \in 1..Len(inv[e][a]) : i # id => longer[i] = inv[e][a][i]
  <2>1. PICK runs \in Seq(Status) : runs = inv[e][a]
    BY <1>2
  <2>2. id \in 1..Len(runs) /\ Len(runs) \in Nat /\ v \in Status /\ longer = [runs EXCEPT ![id] = v]
    BY <1>2, <1>3, <2>1
  <2> HIDE DEF longer
  <2>3. longer \in Seq(Status) /\ Len(longer) = Len(runs)
    BY ONLY <2>2, runs \in Seq(Status)
  <2>4. longer[id] = v /\ \A i \in 1..Len(runs) : i # id => longer[i] = runs[i]
    BY ONLY <2>2, runs \in Seq(Status)
  <2> QED
    BY ONLY <2>1, <2>3, <2>4
<1> HIDE DEF longer
<1>6. /\ inv' \in [Events -> [Agents -> Seq(Status)]] /\ inv'[e][a] = longer
      /\ \A f \in Events, b \in Agents : f # e \/ b # a => inv'[f][b] = inv[f][b]
  BY <1>0, <1>3, <1>5, PairUpdated DEF Shape
<1>7. failed' = failed /\ faults' = faults
  BY DEF NoFault
<1>8. Shape'
  BY <1>0, <1>1, <1>6, <1>7 DEF Shape, Moves
<1>9. Placed'
  BY <1>0, <1>1 DEF Placed, Moves, InFlight
<1>10. \A f \in Events, b \in Agents : Len(inv'[f][b]) = Len(inv[f][b]) /\ Len(inv[f][b]) \in Nat
  BY <1>0, <1>5, <1>6, Lengths
<1>11. ASSUME NEW f \in Events, NEW b \in Agents, Contains(inv[f][b], "failure")
       PROVE  Contains(inv'[f][b], "failure")
  <2>1. \A i \in 1..Len(inv[f][b]) : inv[f][b][i] = "failure" => inv'[f][b][i] = "failure"
    <3>1. CASE f = e /\ b = a
      BY <1>4, <1>5, <1>6, <3>1
    <3>2. CASE f # e \/ b # a
      BY ONLY <1>6, <3>2, f \in Events, b \in Agents
    <3> QED
      BY <3>1, <3>2
  <2>2. Len(inv'[f][b]) \in Nat /\ Len(inv[f][b]) \in Nat /\ Len(inv'[f][b]) >= Len(inv[f][b])
    BY <1>10
  <2> QED
    BY <1>11, <2>1, <2>2, ContainsStays
<1>12. \A f \in Events, b \in Agents : Done(f, b) => Done(f, b)'
  BY <1>7, <1>11 DEF Done
<1>13. Grows
  <2>1. \A f \in Events : failed'[f] >= failed[f]
    BY <1>0, <1>7 DEF Shape
  <2>2. \A f \in Events, b \in Agents : Len(inv'[f][b]) >= Len(inv[f][b])
    BY <1>10
  <2> QED
    BY <1>12, <2>1, <2>2 DEF Grows
<1>14. SuccessStands'
  <2> SUFFICES ASSUME NEW f \in Events, NEW b \in Agents, reported[f][b], b \notin deaf[f]
               PROVE  inv'[f][b][task[f][b]] # "failure"
    BY DEF SuccessStands
  <2>1. task[f][b] \in 1..Len(inv[f][b]) /\ inv[f][b][task[f][b]] # "failure"
    BY <1>0, Lengths DEF Numbered, SuccessStands
  <2>2. f = e /\ b = a => task[f][b] # id
    BY <1>0 DEF Owned, OwnedAt
  <2>3. CASE f = e /\ b = a
    <3>1. longer[task[f][b]] = inv[f][b][task[f][b]]
      BY ONLY <1>5, <2>1, <2>2, <2>3
    <3> QED
      BY <1>6, <2>1, <2>3, <3>1
  <2>4. CASE f # e \/ b # a
    BY ONLY <1>6, <2>1, <2>4, f \in Events, b \in Agents
  <2> QED
    BY <2>3, <2>4
<1>15. ASSUME NEW s \in Routers, s # r PROVE router'[s] = router[s] /\ Undisturbed(s)
  <2>1. InFlight(s) => router[s].event \in Events /\ router[s].agent \in Agents
    BY <1>0 DEF Placed, InFlight
  <2>2. InFlight(s) => router[s].id \in 1..Len(inv[router[s].event][router[s].agent])
    BY <1>0 DEF Numbered, NumberedAt
  <2>3. InFlight(s) /\ router[s].event = e /\ router[s].agent = a => router[s].id # id
    BY <1>0, <1>15 DEF Owned, Distinct, InFlight
  <2>4. InFlight(s) => inv'[router[s].event][router[s].agent][router[s].id]
                         = inv[router[s].event][router[s].agent][router[s].id]
    BY <1>5, <1>6, <2>1, <2>2, <2>3
  <2> QED
    BY <1>1, <1>15, <2>4 DEF Undisturbed, Moves
<1>16. Done(e, a)'
  <2>1. Done(e, a) \/ inv[e][a][id] = "running"
    BY <1>0 DEF Served, ServedAt
  <2>2. CASE Done(e, a)
    BY <1>12, <2>2
  <2>3. CASE inv[e][a][id] = "running"
    <3>1. inv'[e][a][id] = "failure" /\ id \in 1..Len(inv'[e][a])
      BY <1>2, <1>4, <1>5, <1>6, <2>3
    <3> QED
      BY <3>1 DEF Done, Contains
  <2> QED
    BY <2>1, <2>2, <2>3
<1>17. Carries(r)
  <2>1. \A b \in router[r].matched \ router[r].todo : b \in Agents /\ (b = a \/ Done(e, b))
    <3>1. router[r].matched \subseteq Agents
      BY <1>0 DEF RouterState, Shape
    <3> QED
      BY <1>0, <3>1 DEF Served, ServedAt
  <2>2. \A b \in router[r].matched \ router[r].todo : Done(e, b)'
    BY <1>12, <1>16, <2>1
  <2> QED
    BY <1>1, <2>2 DEF Carries, ServedAt, OwnedAt, InFlight, Moves
<1>18. ASSUME NEW f \in Events PROVE OnePassAt(f)'
  <2>1. CASE f # e
    BY <1>0, <1>1, <1>7, <1>10, <2>1, OnePassElsewhere DEF OnePass, Moves
  <2>2. CASE f = e
    <3>1. ~Clean(r)
      BY DEF Clean
    <3>2. \A s \in Routers : router'[s].event = e => router[s].event = e
      BY <1>1 DEF Moves
    <3> QED
      BY <1>0, <1>7, <2>2, <3>1, <3>2, OnePassHere DEF OnePass
  <2> QED
    BY <2>1, <2>2
<1>19. \A f \in Events, b \in Agents :
         task'[f][b] <= Len(inv'[f][b]) /\ (reported'[f][b] => task'[f][b] # 0)
  BY <1>0, <1>10 DEF Numbered
<1>20. \A f \in Events : event'[f] = "routed" => \A b \in wanted'[f] : Done(f, b)'
  BY <1>0, <1>12 DEF Served, Shape
<1> QED
  BY <1>8, <1>9, <1>13, <1>14, <1>15, <1>17, <1>18, <1>19, <1>20, StepKeeps DEF OnePass

LEMMA FailInvocationKeeps ==
  ASSUME RInv, NEW r \in Routers, FailInvocation(r)
  PROVE  RInv'
<1>0. Shape /\ Placed /\ Served
  BY DEF RInv
<1>1. router[r].pc = "failed" /\ router[r] \in RouterState
  BY <1>0 DEF FailInvocation, Shape
<1>2. PICK e \in Events, a \in Agents, id \in Nat :
        e = router[r].event /\ a = router[r].agent /\ id = router[r].id
  BY <1>0, <1>1 DEF Placed, InFlight, RouterState
<1>3. UNCHANGED <<event, task, reported, crashes, passes, wanted, deaf>>
  BY DEF FailInvocation
<1> DEFINE you == [router[r] EXCEPT !.pc = "match", !.agent = NoAgent]
<1>4. you \in RouterState /\ router' = [router EXCEPT ![r] = you]
  BY <1>1, StateUpdated DEF FailInvocation
<1>5. /\ you.pc = "match" /\ you.event = e /\ you.agent = NoAgent
      /\ you.todo = router[r].todo /\ you.matched = router[r].matched
  BY <1>1, <1>2 DEF RouterState
<1> HIDE DEF you
<1>6. CASE NoFault /\ Complete(e, a, id)
  BY <1>1, <1>2, <1>3, <1>4, <1>5, <1>6, InvocationFailedKeeps
<1>7. CASE Fault(e) /\ UNCHANGED inv
  <2>1. Moves(r, you) /\ NoAgent \notin Agents
    BY <1>0, <1>4, RouterMoves, RouterAssumption DEF Shape
  <2>2. failed[e] \in Nat /\ failed'[e] = failed[e] + 1
    BY <1>0, <1>7, FaultCounted DEF Shape
  <2>3. \A b \in Agents : Done(e, b) => Done(e, b)'
    BY <1>3, <1>7, <2>2 DEF Done
  <2>4. Done(e, a) \/ failed[e] >= 1
    BY <1>0, <1>1, <1>2 DEF Served, ServedAt
  <2>5. Done(e, a)'
    BY <2>2, <2>3, <2>4 DEF Done
  <2>6. \A b \in router[r].matched \ router[r].todo : b \in Agents /\ (b = a \/ Done(e, b))
    BY <1>0, <1>1, <1>2 DEF Served, ServedAt, RouterState
  <2>7. \A b \in router[r].matched \ router[r].todo : Done(e, b)'
    BY <2>3, <2>5, <2>6
  <2>8. Carries(r)
    BY <1>5, <2>1, <2>7 DEF Carries, ServedAt, OwnedAt, InFlight, Moves
  <2>9. PlacedState(you)
    BY <1>5, <2>1 DEF PlacedState
  <2>10. deaf' \in [Events -> SUBSET Agents] /\ \A f \in Events : deaf[f] \subseteq deaf'[f]
    BY <1>0, <1>3 DEF Shape
  <2> QED
    BY <1>2, <1>3, <1>4, <1>5, <1>7, <2>8, <2>9, <2>10, FaultedKeeps
<1> QED
  BY <1>2, <1>6, <1>7 DEF FailInvocation

\* A router that has no agent in hand, and no more to do, has served them all.
LEMMA AllServed ==
  ASSUME Shape, Placed, Served, NEW r \in Routers, NEW e \in Events, e = router[r].event,
         router[r].pc = "match", router[r].todo = {}
  PROVE  \A b \in router[r].matched : Done(e, b)
<1>1. router[r].agent \notin Agents /\ router[r].matched \subseteq Agents
  BY DEF Placed, InFlight, Shape, RouterState
<1> QED
  BY <1>1 DEF Served, ServedAt

LEMMA WalkBridgesKeeps ==
  ASSUME RInv, NEW r \in Routers, NEW reached \in SUBSET Agents, WalkBridges(r, reached)
  PROVE  RInv'
<1>0. Shape /\ Placed /\ Served /\ OnePass
  BY DEF RInv
<1>1. /\ router[r].pc = "match" /\ router[r].todo = {} /\ router[r].via = "triggers"
      /\ router[r] \in RouterState
  BY <1>0 DEF WalkBridges, Shape
<1>2. PICK e \in Events : e = router[r].event
  BY <1>0, <1>1 DEF Placed
<1>3. UNCHANGED <<event, inv, task, reported, crashes, passes, wanted, deaf>>
  BY DEF WalkBridges
<1>4. router[r].agent \notin Agents
  BY <1>0, <1>1 DEF Placed, InFlight
<1>5. \A b \in router[r].matched : Done(e, b)
  BY <1>0, <1>1, <1>2, AllServed
<1>6. ASSUME Fault(e) \/ NoFault PROVE \A b \in router[r].matched : Done(e, b)'
  <2>1. failed[e] \in Nat /\ failed'[e] \in Nat /\ failed'[e] >= failed[e]
    BY <1>0, <1>6, FaultCounted DEF Shape
  <2>2. \A b \in Agents : Done(e, b) => Done(e, b)'
    BY <1>3, <2>1 DEF Done
  <2> QED
    BY <1>1, <1>5, <2>2 DEF RouterState
<1> DEFINE U == reached \ router[r].delivered
           on == [router[r] EXCEPT !.via = "bridges", !.todo = U, !.matched = @ \union U]
           off == [router[r] EXCEPT !.via = "bridges"]
<1>7. deaf' \in [Events -> SUBSET Agents] /\ \A f \in Events : deaf[f] \subseteq deaf'[f]
  BY <1>0, <1>3 DEF Shape
<1>8. CASE NoFault /\ router' = [router EXCEPT ![r] = on]
  <2>1. U \in SUBSET Agents /\ \A b \in U : b \notin router[r].delivered
    OBVIOUS
  <2> HIDE DEF U
  <2>2. on \in RouterState
    BY <1>1, <2>1, StateSpread
  <2>3. /\ on.pc = "match" /\ on.event = e /\ on.agent = router[r].agent /\ on.todo = U
        /\ on.matched = router[r].matched \union U /\ on.via = "bridges"
    BY <1>1, <1>2 DEF RouterState
  <2> HIDE DEF on
  <2>4. Moves(r, on)
    BY <1>0, <1>8, <2>2, RouterMoves DEF Shape
  <2>5. ServedAt(r)'
    BY <1>6, <1>8, <2>3, <2>4 DEF ServedAt, Moves
  <2>6. Carries(r)
    BY <2>3, <2>4, <2>5 DEF Carries, OwnedAt, InFlight, Moves
  <2>7. PlacedState(on)
    BY <1>4, <2>3 DEF PlacedState
  <2>8. Clean(r) => Clean(r)'
    <3> SUFFICES ASSUME Clean(r) PROVE Clean(r)'
      OBVIOUS
    <3>1. event'[e] # "routed" /\ inv' = inv /\ task' = task
      BY <1>2, <1>3 DEF Clean
    <3>2. /\ router'[r].pc = "match" /\ router'[r].event = e /\ router'[r].todo = U
          /\ router'[r].agent = router[r].agent /\ router'[r].via = "bridges"
      BY <2>3, <2>4 DEF Moves
    <3>3. ASSUME NEW b \in Agents
          PROVE  /\ Len(inv[e][b]) <= 1 /\ task[e][b] = Len(inv[e][b])
                 /\ b \in U => Len(inv[e][b]) = 0
      <4>0. b # router[r].agent /\ router[r].via = "triggers"
        BY <1>1, <1>4
      <4>1. /\ Len(inv[e][b]) <= 1 /\ task[e][b] = Len(inv[e][b])
            /\ Len(inv[e][b]) = 1 => b \in router[r].delivered
        BY <1>2, <4>0 DEF Clean
      <4>2. PICK n \in Nat : n = Len(inv[e][b])
        BY <1>0, Lengths
      <4>3. n <= 1
        BY <4>1, <4>2
      <4>4. n = 0 \/ n = 1
        BY ONLY <4>3, n \in Nat
      <4> QED
        BY <2>1, <4>1, <4>2, <4>4
    <3> QED
      BY <1>4, <3>1, <3>2, <3>3 DEF Clean
  <2>9. OnePassAt(e)'
    <3>1. failed'[e] = failed[e] /\ event'[e] = event[e] /\ passes'[e] = passes[e]
      BY <1>3, <1>8 DEF NoFault
    <3>2. \A s \in Routers : router'[s].event = e => router[s].event = e
      BY <1>2, <2>4 DEF Moves
    <3>3. Clean(r) => event[e] # "routed"
      BY <1>2 DEF Clean
    <3> QED
      BY <1>0, <1>2, <2>8, <3>1, <3>2, <3>3, OnePassHere DEF OnePass
  <2>10. event' \in [Events -> {"absent", "unrouted", "routed"}]
         /\ wanted' \in [Events -> SUBSET Agents]
    BY <1>0, <1>3 DEF Shape
  <2> QED
    BY <1>2, <1>3, <1>8, <2>2, <2>3, <2>6, <2>7, <2>9, <2>10, StillKeeps
<1>9. CASE Fault(e) /\ router' = [router EXCEPT ![r] = off]
  <2>1. off \in RouterState
    BY <1>1, StateUpdated
  <2>2. /\ off.pc = "match" /\ off.event = e /\ off.agent = router[r].agent
        /\ off.todo = {} /\ off.matched = router[r].matched
    BY <1>1, <1>2 DEF RouterState
  <2> HIDE DEF off
  <2>3. Moves(r, off)
    BY <1>0, <1>9, <2>1, RouterMoves DEF Shape
  <2>4. ServedAt(r)'
    BY <1>6, <1>9, <2>2, <2>3 DEF ServedAt, Moves
  <2>5. Carries(r)
    BY <2>2, <2>3, <2>4 DEF Carries, OwnedAt, InFlight, Moves
  <2>6. PlacedState(off)
    BY <1>4, <2>2 DEF PlacedState
  <2> QED
    BY <1>2, <1>3, <1>7, <1>9, <2>1, <2>2, <2>5, <2>6, FaultedKeeps
<1> QED
  <2>1. (NoFault /\ router' = [router EXCEPT ![r] = on])
          \/ (Fault(e) /\ router' = [router EXCEPT ![r] = off])
    BY <1>2 DEF WalkBridges, Undelivered
  <2> QED
    BY <1>8, <1>9, <2>1

LEMMA RestingPlaced ==
  ASSUME NEW batch \in SUBSET Events
  PROVE  /\ Resting \in RouterState
         /\ [Resting EXCEPT !.pc = "next", !.batch = batch] \in RouterState
         /\ Resting.pc = "idle" /\ Resting.event = NoEvent /\ Resting.agent = NoAgent
         /\ [Resting EXCEPT !.pc = "next", !.batch = batch].pc = "next"
         /\ [Resting EXCEPT !.pc = "next", !.batch = batch].event = NoEvent
         /\ [Resting EXCEPT !.pc = "next", !.batch = batch].agent = NoAgent
  BY DEF Resting, RouterState

(* A router that is with no event, or has yet to begin with one.               *)
LEMMA AwayCarries ==
  ASSUME NEW r \in Routers, NEW you, Moves(r, you), you.pc \in {"idle", "next", "match"},
         you.event \notin Events \/ you.matched \subseteq you.todo
  PROVE  Carries(r)
  BY DEF Carries, OwnedAt, ServedAt, InFlight, Moves

LEMMA MarkRoutedKeeps ==
  ASSUME RInv, NEW r \in Routers, MarkRouted(r)
  PROVE  RInv'
<1>0. Shape /\ Placed /\ Served /\ OnePass
  BY DEF RInv
<1>1. router[r].pc = "match" /\ router[r].todo = {} /\ router[r] \in RouterState
  BY <1>0 DEF MarkRouted, Shape
<1>2. PICK e \in Events : e = router[r].event
  BY <1>0, <1>1 DEF Placed
<1>3. UNCHANGED <<inv, task, reported, crashes, passes, deaf>>
  BY DEF MarkRouted
<1>4. router[r].agent \notin Agents
  BY <1>0, <1>1 DEF Placed, InFlight
<1>5. \A b \in router[r].matched : Done(e, b)
  BY <1>0, <1>1, <1>2, AllServed
<1>6. PICK you \in RouterState :
        /\ router' = [router EXCEPT ![r] = you]
        /\ you.pc \in {"idle", "next"} /\ you.event = NoEvent /\ you.agent = NoAgent
  <2>1. router[r].batch \in SUBSET Events
    BY <1>1 DEF RouterState
  <2>2. router' = [router EXCEPT ![r] = Resting]
          \/ router' = [router EXCEPT ![r] =
                [Resting EXCEPT !.pc = "next", !.batch = router[r].batch]]
    BY DEF MarkRouted
  <2> QED
    BY <2>1, <2>2, RestingPlaced
<1>7. Moves(r, you) /\ NoAgent \notin Agents /\ NoEvent \notin Events
  BY <1>0, <1>6, RouterMoves, RouterAssumption DEF Shape
<1>8. Carries(r)
  BY <1>6, <1>7, AwayCarries
<1>9. PlacedState(you)
  BY <1>6, <1>7 DEF PlacedState
<1>10. CASE NoFault /\ event' = [event EXCEPT ![e] = "routed"]
              /\ wanted' = [wanted EXCEPT ![e] = router[r].matched]
  <2>1. /\ event' \in [Events -> {"absent", "unrouted", "routed"}]
        /\ wanted' \in [Events -> SUBSET Agents] /\ wanted'[e] = router[r].matched
        /\ \A f \in Events : f # e => event'[f] = event[f] /\ wanted'[f] = wanted[f]
    BY <1>0, <1>1, <1>10 DEF Shape, RouterState
  <2>2. OnePassAt(e)'
    <3>1. failed'[e] = failed[e] /\ passes'[e] = passes[e] /\ inv' = inv /\ task' = task
      BY <1>3, <1>10 DEF NoFault
    <3>2. \A s \in Routers : router'[s].event = e => router[s].event = e
      BY <1>2, <1>6, <1>7 DEF Moves
    <3>3. router'[r].event # e
      BY <1>6, <1>7 DEF Moves
    <3>4. Clean(r) => \A a \in Agents : Len(inv[e][a]) <= 1 /\ task[e][a] = Len(inv[e][a])
      <4> SUFFICES ASSUME Clean(r), NEW a \in Agents
                   PROVE  Len(inv[e][a]) <= 1 /\ task[e][a] = Len(inv[e][a])
        OBVIOUS
      <4>1. a # router[r].agent
        BY <1>4
      <4> QED
        BY <1>2, <4>1 DEF Clean
    <3> QED
      BY <1>0, <1>2, <3>1, <3>2, <3>3, <3>4, OnePassHere DEF OnePass
  <2> QED
    BY <1>2, <1>3, <1>5, <1>6, <1>8, <1>9, <1>10, <2>1, <2>2, StillKeeps
<1>11. CASE Fault(e) /\ UNCHANGED <<event, wanted>>
  <2>1. deaf' \in [Events -> SUBSET Agents] /\ \A f \in Events : deaf[f] \subseteq deaf'[f]
    BY <1>0, <1>3 DEF Shape
  <2> QED
    BY <1>2, <1>3, <1>6, <1>8, <1>9, <1>11, <2>1, FaultedKeeps
<1> QED
  BY <1>2, <1>10, <1>11 DEF MarkRouted

(* A router comes to an event: a first pass finds nothing of it.               *)
LEMMA TakeEventKeeps ==
  ASSUME RInv, NEW r \in Routers, NEW e \in Events, NEW matches \in SUBSET Agents,
         TakeEvent(r, e, matches)
  PROVE  RInv'
<1>0. Shape /\ Placed /\ Numbered /\ OnePass
  BY DEF RInv
<1>1. router[r].pc = "next" /\ router[r] \in RouterState
  BY <1>0 DEF TakeEvent, Shape
<1>2. UNCHANGED <<event, inv, task, reported, faults, crashes, failed, wanted, deaf>>
  BY DEF TakeEvent
<1> DEFINE you == [Resting EXCEPT !.pc = "match", !.batch = router[r].batch \ {e}, !.event = e,
                                  !.todo = matches, !.matched = matches]
<1>3. you \in RouterState /\ router' = [router EXCEPT ![r] = you]
  BY <1>1 DEF TakeEvent, RouterState, Resting
<1>4. /\ you.pc = "match" /\ you.event = e /\ you.agent = NoAgent
      /\ you.todo = matches /\ you.matched = matches
  BY DEF Resting
<1> HIDE DEF you
<1>5. Moves(r, you) /\ NoAgent \notin Agents /\ NoEvent \notin Events
  BY <1>0, <1>3, RouterMoves, RouterAssumption DEF Shape
<1>6. /\ passes' \in [Events -> 0..2] /\ passes'[e] = IF passes[e] = 0 THEN 1 ELSE 2
      /\ \A f \in Events : f # e => passes'[f] = passes[f]
  BY <1>0 DEF TakeEvent, Shape
<1>7. Shape'
  BY <1>0, <1>2, <1>5, <1>6 DEF Shape, Moves
<1>8. Placed'
  BY <1>0, <1>4, <1>5 DEF Placed, Moves, InFlight
<1>9. Carries(r)
  BY <1>4, <1>5, AwayCarries
<1>10. ASSUME NEW f \in Events PROVE OnePassAt(f)'
  <2>1. CASE f # e
    BY <1>0, <1>2, <1>4, <1>5, <1>6, <2>1, OnePassElsewhere DEF OnePass, Moves
  <2>2. CASE f = e /\ passes[e] # 0
    BY <1>6, <2>2 DEF OnePassAt
  <2>3. CASE f = e /\ passes[e] = 0
    <3>1. /\ event[e] # "routed" /\ \A s \in Routers : router[s].event # e
          /\ \A a \in Agents : Len(inv[e][a]) = 0 /\ task[e][a] = 0
      <4>1. \A a \in Agents : Len(inv[e][a]) = 0
        BY <1>0, <2>3 DEF OnePass, OnePassAt
      <4>2. \A a \in Agents : task[e][a] = 0
        BY <1>0, <4>1, Lengths DEF Numbered
      <4> QED
        BY <1>0, <2>3, <4>1, <4>2 DEF OnePass, OnePassAt
    <3>2. passes'[e] = 1
      BY <1>6, <2>3
    <3>3. \A s \in Routers : router'[s].event = e => s = r
      BY <1>5, <3>1 DEF Moves
    <3>4. Clean(r)'
      <4>1. /\ router'[r].pc = "match" /\ router'[r].event = e /\ router'[r].agent = NoAgent
        BY <1>4, <1>5 DEF Moves
      <4>2. \A a \in Agents : Len(inv[e][a]) <= 1 /\ Len(inv[e][a]) # 1
        BY <3>1
      <4> QED
        BY <1>2, <1>5, <3>1, <4>1, <4>2 DEF Clean
    <3> QED
      BY <1>2, <2>3, <3>1, <3>2, <3>3, <3>4 DEF OnePassAt
  <2> QED
    BY <2>1, <2>2, <2>3
<1>11. \A s \in Routers : router'[s] = router[s] \/ Carries(s)
  BY <1>5, <1>9 DEF Moves
<1>12. \A f \in Events : failed'[f] >= failed[f] /\ deaf[f] \subseteq deaf'[f]
  BY <1>0, <1>2 DEF Shape
<1>13. \A f \in Events : event'[f] = "routed" => event[f] = "routed" /\ wanted'[f] = wanted[f]
  BY <1>2
<1> QED
  BY <1>2, <1>7, <1>8, <1>10, <1>11, <1>12, <1>13, QuietStep DEF OnePass

\* A router that leaves its event, whatever it was doing, leaves the rest true.
LEMMA LeavingKeeps ==
  ASSUME RInv, NEW r \in Routers, NEW you \in RouterState,
         router' = [router EXCEPT ![r] = you],
         you.pc \in {"idle", "next"}, you.event = NoEvent, you.agent = NoAgent,
         crashes' \in 0..MaxCrashes, UNCHANGED <<event, inv, task, reported, faults, history>>
  PROVE  RInv'
<1>0. Shape /\ Placed /\ OnePass
  BY DEF RInv
<1>1. Moves(r, you) /\ NoAgent \notin Agents /\ NoEvent \notin Events
  BY <1>0, RouterMoves, RouterAssumption DEF Shape
<1>2. Shape'
  BY <1>0, <1>1 DEF Shape, Moves, history
<1>3. Placed'
  BY <1>0, <1>1 DEF Placed, Moves, InFlight
<1>4. \A s \in Routers : router'[s] = router[s] \/ Carries(s)
  <2>1. Carries(r)
    BY <1>1, AwayCarries
  <2> QED
    BY <1>1, <2>1 DEF Moves
<1>5. ASSUME NEW f \in Events PROVE OnePassAt(f)'
  BY <1>0, <1>1, OnePassElsewhere DEF OnePass, Moves, history
<1>6. \A f \in Events : failed'[f] >= failed[f] /\ deaf[f] \subseteq deaf'[f]
  BY <1>0 DEF Shape, history
<1>7. \A f \in Events : event'[f] = "routed" => event[f] = "routed" /\ wanted'[f] = wanted[f]
  BY DEF history
<1> QED
  BY <1>2, <1>3, <1>4, <1>5, <1>6, <1>7, QuietStep DEF OnePass

LEMMA FetchKeeps ==
  ASSUME RInv, NEW r \in Routers, FetchUnrouted(r)
  PROVE  RInv'
<1>1. {e \in Events : event[e] = "unrouted"} \in SUBSET Events
  OBVIOUS
<1>2. crashes \in 0..MaxCrashes
  BY DEF RInv, Shape
<1>3. PICK you \in RouterState : /\ router' = [router EXCEPT ![r] = you]
                               /\ you.pc = "next" /\ you.event = NoEvent /\ you.agent = NoAgent
  BY <1>1, RestingPlaced DEF FetchUnrouted
<1>4. UNCHANGED <<event, inv, task, reported, faults, crashes, history>>
  BY DEF FetchUnrouted
<1> QED
  BY <1>2, <1>3, <1>4, LeavingKeeps

LEMMA CrashKeeps ==
  ASSUME RInv, NEW r \in Routers, Crash(r)
  PROVE  RInv'
<1>1. crashes' \in 0..MaxCrashes
  <2>1. crashes \in 0..MaxCrashes /\ crashes < MaxCrashes /\ crashes' = crashes + 1
    BY DEF RInv, Shape, Crash
  <2> QED
    BY <2>1, RouterAssumption
<1>2. Resting \in RouterState /\ Resting.pc = "idle" /\ Resting.event = NoEvent
      /\ Resting.agent = NoAgent
  BY RestingPlaced
<1>3. router' = [router EXCEPT ![r] = Resting]
      /\ UNCHANGED <<event, inv, task, reported, faults, history>>
  BY DEF Crash
<1> QED
  BY <1>1, <1>2, <1>3, LeavingKeeps

LEMMA InsertKeeps ==
  ASSUME RInv, NEW e \in Events, InsertEvent(e)
  PROVE  RInv'
<1>0. Shape /\ Placed /\ OnePass
  BY DEF RInv
<1>1. /\ event[e] = "absent" /\ event' = [event EXCEPT ![e] = "unrouted"]
      /\ UNCHANGED <<inv, task, reported, router, faults, crashes, history>>
  BY DEF InsertEvent
<1>2. event \in [Events -> {"absent", "unrouted", "routed"}]
  BY <1>0 DEF Shape
<1>3. /\ event' \in [Events -> {"absent", "unrouted", "routed"}] /\ event'[e] = "unrouted"
      /\ \A f \in Events : f # e => event'[f] = event[f]
  BY <1>1, <1>2
<1>4. Shape' /\ Placed'
  BY <1>0, <1>1, <1>3 DEF Shape, Placed, InFlight, history
<1>5. ASSUME NEW f \in Events PROVE OnePassAt(f)'
  <2>1. CASE f # e
    BY <1>0, <1>1, <1>3, <2>1, OnePassElsewhere DEF OnePass, history
  <2>2. CASE f = e
    <3>1. \A s \in Routers : router[s].event = e /\ Clean(s) => Clean(s)'
      BY <1>1, <1>3 DEF Clean
    <3> QED
      BY <1>0, <1>1, <1>3, <2>2, <3>1 DEF OnePass, OnePassAt, history
  <2> QED
    BY <2>1, <2>2
<1>6. \A f \in Events : failed'[f] >= failed[f] /\ deaf[f] \subseteq deaf'[f]
  BY <1>0, <1>1 DEF Shape, history
<1>7. \A f \in Events : event'[f] = "routed" => event[f] = "routed" /\ wanted'[f] = wanted[f]
  BY <1>1, <1>3 DEF history
<1> QED
  BY <1>1, <1>4, <1>5, <1>6, <1>7, QuietStep DEF OnePass

(* The runner reports on the invocation of the row: a router that still holds  *)
(* it has its insert behind it.                                                *)
LEMMA ReportKeeps ==
  ASSUME RInv, NEW e \in Events, NEW a \in Agents, RunnerReports(e, a)
  PROVE  RInv'
<1>0. Shape /\ Placed /\ Numbered /\ Owned /\ SuccessStands /\ Served /\ OnePass
  BY DEF RInv
<1>1. UNCHANGED <<event, task, router, faults, crashes, passes, failed, wanted, deaf>>
  BY DEF RunnerReports, history
<1>2. PICK id \in Nat : id = task[e][a]
  BY <1>0, Lengths
<1>3. id # 0 /\ id \in 1..Len(inv[e][a]) /\ inv[e][a] \in Seq(Status) /\ Len(inv[e][a]) \in Nat
  BY <1>0, <1>2, Lengths DEF Numbered, RunnerReports
<1> DEFINE v == IF inv[e][a][id] = "missing" THEN "missing" ELSE "success"
           longer == [inv[e][a] EXCEPT ![id] = v]
<1>4. /\ v \in Status /\ v # "failure" /\ inv' = [inv EXCEPT ![e][a] = longer]
      /\ reported' = [reported EXCEPT ![e][a] = TRUE]
  BY <1>0, <1>2 DEF RunnerReports, Status, Shape
<1> HIDE DEF v
<1>5. /\ longer \in Seq(Status) /\ Len(longer) = Len(inv[e][a]) /\ longer[id] = v
      /\ \A i \in 1..Len(inv[e][a]) : i # id => longer[i] = inv[e][a][i]
  BY <1>3, <1>4
<1> HIDE DEF longer
<1>6. /\ inv' \in [Events -> [Agents -> Seq(Status)]] /\ inv'[e][a] = longer
      /\ \A f \in Events, b \in Agents : f # e \/ b # a => inv'[f][b] = inv[f][b]
  BY <1>0, <1>4, <1>5, PairUpdated DEF Shape
<1>7. /\ reported' \in [Events -> [Agents -> BOOLEAN]]
      /\ \A f \in Events, b \in Agents : f # e \/ b # a => reported'[f][b] = reported[f][b]
  <2>1. PICK D, yes : D = BOOLEAN /\ yes = TRUE
    OBVIOUS
  <2>2. /\ reported \in [Events -> [Agents -> D]] /\ yes \in D
        /\ reported' = [reported EXCEPT ![e][a] = yes]
    BY <1>0, <1>4, <2>1 DEF Shape
  <2>3. /\ reported' \in [Events -> [Agents -> D]]
        /\ \A f \in Events, b \in Agents : f # e \/ b # a => reported'[f][b] = reported[f][b]
    BY ONLY <2>2, e \in Events, a \in Agents, PairUpdated
  <2> QED
    BY <2>1, <2>3
<1>8. Shape' /\ Placed'
  BY <1>0, <1>1, <1>6, <1>7 DEF Shape, Placed, InFlight
<1>9. \A f \in Events, b \in Agents : Len(inv'[f][b]) = Len(inv[f][b]) /\ Len(inv[f][b]) \in Nat
  BY <1>0, <1>5, <1>6, Lengths
<1>10. ASSUME NEW f \in Events, NEW b \in Agents, Done(f, b) PROVE Done(f, b)'
  <2>1. CASE f = e /\ b = a
    BY <1>1, <1>2, <1>3, <2>1 DEF Done
  <2>2. CASE f # e \/ b # a
    <3>1. inv'[f][b] = inv[f][b] /\ task'[f][b] = task[f][b] /\ failed'[f] = failed[f]
      BY <1>1, <1>6, <2>2
    <3> QED
      BY <1>10, <3>1 DEF Done
  <2> QED
    BY <2>1, <2>2
<1>11. Grows
  <2>1. \A f \in Events : failed'[f] >= failed[f]
    BY <1>0, <1>1 DEF Shape
  <2>2. \A f \in Events, b \in Agents : Len(inv'[f][b]) >= Len(inv[f][b])
    BY <1>9
  <2> QED
    BY <1>1, <1>10, <2>1, <2>2 DEF Grows
<1>12. SuccessStands'
  <2> SUFFICES ASSUME NEW f \in Events, NEW b \in Agents, reported'[f][b], b \notin deaf[f]
               PROVE  inv'[f][b][task[f][b]] # "failure"
    BY <1>1 DEF SuccessStands
  <2>1. CASE f = e /\ b = a
    BY <1>2, <1>4, <1>5, <1>6, <2>1
  <2>2. CASE f # e \/ b # a
    <3>1. reported[f][b] /\ inv'[f][b] = inv[f][b]
      BY <1>6, <1>7, <2>2
    <3> QED
      BY <1>0, <3>1 DEF SuccessStands
  <2> QED
    BY <2>1, <2>2
<1>13. ASSUME NEW s \in Routers PROVE Undisturbed(s)
  <2> SUFFICES ASSUME InFlight(s) PROVE Undisturbed(s)
    BY DEF Undisturbed
  <2>1. router[s].event \in Events /\ router[s].agent \in Agents
    BY <1>0 DEF Placed, InFlight
  <2>2. router[s].id \in 1..Len(inv[router[s].event][router[s].agent])
    BY <1>0 DEF Numbered, NumberedAt
  <2>3. CASE router[s].event = e /\ router[s].agent = a /\ router[s].id = id
    <3>1. router[s].pc # "insert"
      BY <1>0, <1>2, <2>3 DEF Owned, OwnedAt
    <3>2. Done(e, a)
      BY <1>2, <1>3 DEF Done
    <3> QED
      BY <1>1, <2>3, <3>1, <3>2 DEF Undisturbed
  <2>4. CASE ~(router[s].event = e /\ router[s].agent = a /\ router[s].id = id)
    <3>1. inv'[router[s].event][router[s].agent][router[s].id]
            = inv[router[s].event][router[s].agent][router[s].id]
      BY <1>5, <1>6, <2>1, <2>2, <2>4
    <3> QED
      BY <1>1, <3>1 DEF Undisturbed
  <2> QED
    BY <2>3, <2>4
<1>14. ASSUME NEW f \in Events PROVE OnePassAt(f)'
  BY <1>0, <1>1, <1>9, OnePassElsewhere DEF OnePass
<1>15. ASSUME NEW f \in Events, NEW b \in Agents
       PROVE  task'[f][b] <= Len(inv'[f][b]) /\ (reported'[f][b] => task'[f][b] # 0)
  <2>1. task[f][b] <= Len(inv[f][b]) /\ (reported[f][b] => task[f][b] # 0)
    BY <1>0 DEF Numbered
  <2>2. (f = e /\ b = a) \/ reported'[f][b] = reported[f][b]
    BY <1>7
  <2> QED
    BY <1>1, <1>2, <1>3, <1>9, <2>1, <2>2
<1>16. \A f \in Events : event'[f] = "routed" => \A b \in wanted'[f] : Done(f, b)'
  BY <1>0, <1>1, <1>10 DEF Served, Shape
<1> QED
  BY <1>1, <1>8, <1>11, <1>12, <1>13, <1>14, <1>15, <1>16, StepKeeps DEF OnePass

-------------------------------------------------------------------------------
(* The invariant is inductive.                                                 *)

LEMMA RouterInit == Init => RInv
<1> SUFFICES ASSUME Init PROVE RInv
  OBVIOUS
<1>1. /\ event = [e \in Events |-> "absent"]
      /\ inv = [e \in Events |-> [a \in Agents |-> <<>>]]
      /\ task = [e \in Events |-> [a \in Agents |-> 0]]
      /\ reported = [e \in Events |-> [a \in Agents |-> FALSE]]
      /\ router = [r \in Routers |-> Resting]
      /\ faults = 0 /\ crashes = 0
      /\ passes = [e \in Events |-> 0] /\ failed = [e \in Events |-> 0]
      /\ wanted = [e \in Events |-> {}] /\ deaf = [e \in Events |-> {}]
  BY DEF Init, PerEvent
<1>2. Resting \in RouterState /\ Resting.pc = "idle" /\ Resting.event = NoEvent
      /\ Resting.agent = NoAgent /\ NoAgent \notin Agents /\ NoEvent \notin Events
  BY RestingPlaced, RouterAssumption
<1>3. <<>> \in Seq(Status) /\ Len(<<>>) = 0
  OBVIOUS
<1>4. Shape
  BY <1>1, <1>2, <1>3, RouterAssumption DEF Shape
<1>5. Placed /\ (\A r \in Routers : ~InFlight(r))
  BY <1>1, <1>2 DEF Placed, InFlight
<1>6. \A e \in Events, a \in Agents : inv[e][a] = <<>> /\ task[e][a] = 0 /\ reported[e][a] = FALSE
  BY <1>1
<1>7. Numbered
  BY <1>3, <1>5, <1>6 DEF Numbered, NumberedAt
<1>8. Owned
  BY <1>1, <1>2, <1>5 DEF Owned, Distinct, OwnedAt
<1>9. SuccessStands
  BY <1>6 DEF SuccessStands
<1>10. Served
  BY <1>1, <1>2 DEF Served, ServedAt
<1>11. OnePass
  BY <1>1, <1>2, <1>3, <1>6 DEF OnePass, OnePassAt
<1> QED
  BY <1>4, <1>5, <1>7, <1>8, <1>9, <1>10, <1>11 DEF RInv

LEMMA RouterStep == RInv /\ [Next]_vars => RInv'
<1> SUFFICES ASSUME RInv, [Next]_vars PROVE RInv'
  OBVIOUS
<1>1. ASSUME NEW e \in Events, InsertEvent(e) PROVE RInv'
  BY <1>1, InsertKeeps
<1>2. ASSUME NEW r \in Routers, Route(r) PROVE RInv'
  <2>1. CASE FetchUnrouted(r)
    BY <2>1, FetchKeeps
  <2>2. ASSUME NEW e \in Events, NEW matches \in SUBSET Agents, TakeEvent(r, e, matches)
        PROVE  RInv'
    BY <2>2, TakeEventKeeps
  <2>3. ASSUME NEW a \in Agents, Record(r, a) PROVE RInv'
    <3>1. PICK e \in Events : e = router[r].event
      BY <2>3 DEF RInv, Placed, Record
    <3>2. PICK n \in Nat : n = Len(inv[e][a]) + 1
      BY Lengths DEF RInv
    <3> QED
      BY <2>3, <3>1, <3>2, RecordKeeps
  <2>4. CASE EnqueueTask(r)
    BY <2>4, EnqueueKeeps
  <2>5. CASE Notify(r)
    BY <2>5, NotifyKeeps
  <2>6. CASE FailInvocation(r)
    BY <2>6, FailInvocationKeeps
  <2>7. ASSUME NEW reached \in SUBSET Agents, WalkBridges(r, reached) PROVE RInv'
    BY <2>7, WalkBridgesKeeps
  <2>8. CASE MarkRouted(r)
    BY <2>8, MarkRoutedKeeps
  <2> QED
    BY <1>2, <2>1, <2>2, <2>3, <2>4, <2>5, <2>6, <2>7, <2>8 DEF Route
<1>3. ASSUME NEW r \in Routers, Crash(r) PROVE RInv'
  BY <1>3, CrashKeeps
<1>4. ASSUME NEW e \in Events, NEW a \in Agents, RunnerReports(e, a) PROVE RInv'
  BY <1>4, ReportKeeps
<1>5. CASE UNCHANGED vars
  <2>1. UNCHANGED <<event, inv, task, reported, router, faults, crashes,
                    passes, failed, wanted, deaf>>
    BY <1>5 DEF vars, history
  <2>2. Shape' /\ Placed'
    BY <2>1 DEF RInv, Shape, Placed, InFlight
  <2>3. Numbered' /\ Owned'
    BY <2>1 DEF RInv, Numbered, NumberedAt, Owned, Distinct, OwnedAt, InFlight
  <2>4. SuccessStands' /\ Served'
    BY <2>1 DEF RInv, SuccessStands, Served, ServedAt, Done
  <2>5. OnePass'
    BY <2>1 DEF RInv, OnePass, OnePassAt, Clean
  <2> QED
    BY <2>2, <2>3, <2>4, <2>5 DEF RInv
<1> QED
  BY <1>1, <1>2, <1>3, <1>4, <1>5 DEF Next

(* What the invariant of the proof tells of the events that have been routed.  *)
LEMMA RouterSound == RInv => PassesSound /\ NoStrayInvocation
<1> SUFFICES ASSUME RInv PROVE PassesSound /\ NoStrayInvocation
  OBVIOUS
<1>0. Shape /\ Placed /\ Numbered /\ SuccessStands /\ Served /\ OnePass
  BY DEF RInv
<1>1. TypeOK
  <2>1. \A e \in Events, a \in Agents :
          /\ inv[e][a] \in Seq(Status) /\ task[e][a] \in 0..Len(inv[e][a])
          /\ reported[e][a] => task[e][a] # 0
    BY <1>0, Lengths DEF Numbered
  <2>2. \A r \in Routers : router[r].pc \in {"insert", "notify", "failed"} =>
          router[r].id \in 1..Len(inv[router[r].event][router[r].agent])
    BY <1>0 DEF Numbered, NumberedAt, InFlight
  <2> QED
    BY <1>0, <2>1, <2>2 DEF TypeOK, Shape
<1>2. NobodyForgotten
  <2> SUFFICES ASSUME NEW e \in Events, event[e] = "routed", failed[e] <= 1,
                      NEW a \in wanted[e]
               PROVE  task[e][a] # 0 \/ Contains(inv[e][a], "failure")
    BY DEF NobodyForgotten
  <2>1. Done(e, a) /\ failed[e] \in Nat
    BY <1>0 DEF Served, Shape
  <2>2. ~(failed[e] >= 2)
    BY <2>1
  <2> QED
    BY <2>1, <2>2 DEF Done
<1>3. NoStrayInvocation
  BY <1>0 DEF OnePass, OnePassAt, NoStrayInvocation
<1> QED
  BY <1>0, <1>1, <1>2, <1>3 DEF PassesSound

(* Routing from router.go, transfer.go and the two stores they write: with any *)
(* number of hubs, crashes, failed statements and repeated passes, a success   *)
(* the runner has reported is not overwritten by a router (but for an insert   *)
(* whose NOTIFY failed), and nobody an event was for is forgotten when it is   *)
(* marked routed, unless two statements failed.                                *)
THEOREM RoutingIsSound == Spec => []PassesSound
<1>1. RInv => PassesSound
  BY RouterSound
<1> QED
  BY RouterInit, RouterStep, <1>1, PTL DEF Spec

(* One undisturbed pass over an event records one invocation per agent, each   *)
(* named by the agent's row: what the triggers delivered the bridges leave     *)
(* out, for any routers and any agents.                                        *)
THEOREM RoutingLeavesNoStray == Spec => []NoStrayInvocation
<1>1. RInv => NoStrayInvocation
  BY RouterSound
<1> QED
  BY RouterInit, RouterStep, <1>1, PTL DEF Spec

-------------------------------------------------------------------------------
(***************************************************************************)
(* The activity feed.                                                      *)
(***************************************************************************)
JobStates == {"none", "pending", "completed", "failed"}
RunStates == {"none", "running", "success", "failure", "pruned"}
PassStates == {"absent", "unrouted", "triggers", "bridges", "routed"}

FeedTyped ==
  /\ job \in [Entries -> [Takers -> JobStates]] /\ run \in [Entries -> [Takers -> RunStates]]
  /\ pass \in [Entries -> [pc : PassStates, triggers : SUBSET Takers, todo : SUBSET Takers, ok : BOOLEAN]]
  /\ shown \in [Entries -> [status : {"none", "unmatched", "matched", "error"}, matches : SUBSET Takers]]
  /\ meant \in [Entries -> SUBSET Takers]
  /\ missed \in [Entries -> [triggers : SUBSET Takers, bridges : SUBSET Takers]]

TellsOf(e) == shown[e].status # "none" =>
  /\ meant[e] \ shown[e].matches \subseteq missed[e].bridges
  /\ shown[e].status = "matched" => missed[e].triggers = {} /\ shown[e].matches \subseteq Jobs(e)
  /\ missed[e].triggers # {} => shown[e].status = "error"
  /\ \A a \in missed[e].bridges : job[e][a] = "none" => run[e][a] \in {"failure", "pruned"}

\* What the pass over an event keeps: an agent it meant is listed, still to be done, or its delivery by
\* a bridge failed; an agent that is listed has its row unless its trigger's enqueue failed.
EntryAt(e) ==
  /\ pass[e].pc \in {"absent", "unrouted"} => missed[e].triggers = {} /\ missed[e].bridges = {}
  /\ pass[e].pc = "triggers" => missed[e].bridges = {} /\ meant[e] = pass[e].triggers \union pass[e].todo
  /\ pass[e].pc \in {"triggers", "bridges"} =>
       /\ pass[e].ok => missed[e].triggers = {}
       /\ missed[e].triggers \subseteq pass[e].triggers
       /\ \A a \in pass[e].triggers \ missed[e].triggers : job[e][a] # "none"
       /\ meant[e] \subseteq pass[e].triggers \union pass[e].todo \union missed[e].bridges
       /\ missed[e].bridges \cap pass[e].todo = {}
  /\ \A a \in missed[e].bridges : job[e][a] = "none" => run[e][a] \in {"failure", "pruned"}
  /\ pass[e].pc = "routed" <=> shown[e].status # "none"
  /\ TellsOf(e)

PageShape ==
  /\ DOMAIN page = {"pc", "status", "outcome", "scope", "found", "total", "rows"}
  /\ page.pc \in {"free", "count", "tasks", "ready"} /\ page.found \subseteq Entries
  /\ page.status \in {"any", "unmatched", "matched", "error"}
  /\ page.outcome \in {"any", "running", "success", "failure"}

\* Until an event changes, the filter selects it as when the page was asked for.
PageHolds ==
  /\ PageShape
  /\ page.pc \in {"count", "tasks"} =>
       \A e \in Entries \ shifted : e \in page.found <=> e \in Selected(page)
  /\ page.pc = "tasks" /\ shifted = {} => page.total = Cardinality(page.found)
  /\ PageAgrees

FeedInv == FeedTyped /\ PageHolds /\ \A e \in Entries : EntryAt(e)

LEMMA FeedStart == FeedInit => FeedInv
<1>. SUFFICES ASSUME FeedInit PROVE FeedInv
  OBVIOUS
<1>1. FeedTyped
  BY DEF FeedInit, FeedTyped, JobStates, RunStates, PassStates, Unshown
<1>2. page = NoPage /\ page.pc = "free"
  BY DEF FeedInit, NoPage
<1>3. PageHolds
  BY <1>2 DEF PageHolds, PageShape, PageAgrees, NoPage
<1>4. ASSUME NEW e \in Entries PROVE EntryAt(e)
  BY DEF FeedInit, EntryAt, TellsOf, Unshown
<1>. QED BY <1>1, <1>3, <1>4 DEF FeedInv

\* A page under way, beside a change of events that are noted.
LEMMA PageKept ==
  ASSUME FeedInv, page' = page, shifted \subseteq shifted',
         \A q \in Entries \ shifted' :
           /\ job'[q] = job[q] /\ run'[q] = run[q]
           /\ pass'[q].pc = "absent" <=> pass[q].pc = "absent"
  PROVE  PageHolds'
<1>1. PageHolds
  BY DEF FeedInv
<1>2. PageShape'
  BY <1>1 DEF PageHolds, PageShape
<1>3. ASSUME NEW q \in Entries \ shifted' PROVE (q \in Selected(page))' <=> q \in Selected(page)
  <2>1. Jobs(q)' = Jobs(q)
    BY <1>3 DEF Jobs
  <2>2. \A status : HasStatus(q, status)' <=> HasStatus(q, status)
    BY <2>1 DEF HasStatus
  <2>3. \A outcome : HasOutcome(q, outcome)' <=> HasOutcome(q, outcome)
    BY <2>1 DEF HasOutcome
  <2>4. \A sc : InScope(q, sc)' <=> InScope(q, sc)
    BY <2>1 DEF InScope
  <2>. QED BY <2>2, <2>3, <2>4 DEF Selected
<1>4. PageAgrees'
  BY <1>1 DEF PageHolds, PageAgrees
<1>. QED BY <1>1, <1>2, <1>3, <1>4 DEF PageHolds

\* The other events.
Besides(e) ==
  \A q \in Entries \ {e} :
    /\ job'[q] = job[q] /\ run'[q] = run[q] /\ pass'[q] = pass[q] /\ shown'[q] = shown[q]
    /\ meant'[q] = meant[q] /\ missed'[q] = missed[q]

LEMMA BesidesHold ==
  ASSUME FeedInv, NEW e \in Entries, FeedTyped', PageHolds', Besides(e), EntryAt(e)'
  PROVE  FeedInv'
<1>1. ASSUME NEW q \in Entries, q # e PROVE EntryAt(q)'
  <2>1. EntryAt(q)
    BY DEF FeedInv
  <2>2. /\ job'[q] = job[q] /\ run'[q] = run[q] /\ pass'[q] = pass[q] /\ shown'[q] = shown[q]
        /\ meant'[q] = meant[q] /\ missed'[q] = missed[q]
    BY <1>1 DEF Besides
  <2>3. Jobs(q)' = Jobs(q)
    BY <2>2 DEF Jobs
  <2>. QED BY <2>1, <2>2, <2>3 DEF EntryAt, TellsOf
<1>. QED BY <1>1 DEF FeedInv

LEMMA EnqueuedMakes ==
  ASSUME FeedTyped, NEW e \in Entries, NEW a \in Takers, NEW r \in BOOLEAN, NEW ok \in BOOLEAN,
         Enqueued(e, a, r, ok)
  PROVE  /\ job' \in [Entries -> [Takers -> JobStates]] /\ run' \in [Entries -> [Takers -> RunStates]]
         /\ \A q \in Entries \ {e} : job'[q] = job[q] /\ run'[q] = run[q]
         /\ \A b \in Takers \ {a} : job'[e][b] = job[e][b] /\ run'[e][b] = run[e][b]
         /\ job'[e][a] = IF r THEN "pending" ELSE job[e][a]
         /\ run'[e][a] = IF ok THEN "running" ELSE "failure"
         /\ shifted' = shifted \union {e}
<1>1. /\ job' = IF r THEN [job EXCEPT ![e][a] = "pending"] ELSE job
      /\ run' = [run EXCEPT ![e][a] = IF ok THEN "running" ELSE "failure"]
      /\ shifted' = shifted \union {e}
  BY DEF Enqueued, Shift
<1>. QED BY <1>1 DEF FeedTyped, JobStates, RunStates

\* The records a pass leaves behind it.
LEMMA FeedParts ==
  ASSUME FeedInv, NEW e \in Entries
  PROVE  /\ FeedTyped /\ EntryAt(e)
         /\ pass[e].triggers \subseteq Takers /\ pass[e].todo \subseteq Takers /\ pass[e].ok \in BOOLEAN
         /\ pass[e].pc \in PassStates /\ meant[e] \subseteq Takers
         /\ missed[e].triggers \subseteq Takers /\ missed[e].bridges \subseteq Takers
BY DEF FeedInv, FeedTyped

LEMMA ArriveHolds ==
  ASSUME FeedInv, NEW e \in Entries, Arrive(e) \/ \E matches \in SUBSET Takers : MatchEvent(e, matches)
  PROVE  FeedInv'
<1>0. FeedTyped /\ EntryAt(e)
  BY FeedParts
<1>1. CASE Arrive(e)
  <2>1. /\ pass[e].pc = "absent" /\ pass' = [pass EXCEPT ![e].pc = "unrouted"]
        /\ shifted' = shifted \union {e}
        /\ UNCHANGED <<job, run, shown, page, meant, missed>>
    BY <1>1 DEF Arrive, Shift
  <2>2. /\ pass' \in [Entries -> [pc : PassStates, triggers : SUBSET Takers, todo : SUBSET Takers, ok : BOOLEAN]]
        /\ pass'[e].pc = "unrouted" /\ \A q \in Entries \ {e} : pass'[q] = pass[q]
    <3>1. pass \in [Entries -> [pc : PassStates, triggers : SUBSET Takers, todo : SUBSET Takers, ok : BOOLEAN]]
          /\ "unrouted" \in PassStates
      BY <1>0 DEF FeedTyped, PassStates
    <3>. QED BY ONLY <2>1, <3>1, e \in Entries
  <2>3. FeedTyped'
    BY <1>0, <2>1, <2>2 DEF FeedTyped
  <2>4. Besides(e)
    BY <2>1, <2>2 DEF Besides
  <2>5. PageHolds'
    BY <2>1, <2>2, PageKept
  <2>6. EntryAt(e)'
    BY <1>0, <2>1, <2>2 DEF EntryAt, TellsOf, Jobs
  <2>. QED BY <2>3, <2>4, <2>5, <2>6, BesidesHold
<1>2. ASSUME NEW matches \in SUBSET Takers, MatchEvent(e, matches) PROVE FeedInv'
  <2>1. /\ pass[e].pc = "unrouted"
        /\ pass' = [pass EXCEPT ![e] = [pc |-> "triggers", triggers |-> {}, todo |-> matches, ok |-> TRUE]]
        /\ meant' = [meant EXCEPT ![e] = matches]
        /\ UNCHANGED <<job, run, shown, page, missed, shifted>>
    BY <1>2 DEF MatchEvent
  <2>2. /\ pass' \in [Entries -> [pc : PassStates, triggers : SUBSET Takers, todo : SUBSET Takers, ok : BOOLEAN]]
        /\ pass'[e].pc = "triggers" /\ pass'[e].triggers = {} /\ pass'[e].todo = matches /\ pass'[e].ok
        /\ \A q \in Entries \ {e} : pass'[q] = pass[q]
    BY <1>0, <2>1 DEF FeedTyped, PassStates
  <2>3. /\ meant' \in [Entries -> SUBSET Takers] /\ meant'[e] = matches
        /\ \A q \in Entries \ {e} : meant'[q] = meant[q]
    BY <1>0, <2>1 DEF FeedTyped
  <2>4. FeedTyped'
    BY <1>0, <2>1, <2>2, <2>3 DEF FeedTyped
  <2>5. Besides(e)
    BY <2>1, <2>2, <2>3 DEF Besides
  <2>6. PageHolds'
    BY <2>1, <2>2, PageKept
  <2>7. EntryAt(e)'
    BY <1>0, <2>1, <2>2, <2>3 DEF EntryAt, TellsOf
  <2>. QED BY <2>4, <2>5, <2>6, <2>7, BesidesHold
<1>. QED BY <1>1, <1>2

LEMMA TriggerHolds ==
  ASSUME FeedInv, NEW e \in Entries, NEW a \in Takers, ByTrigger(e, a)
  PROVE  FeedInv'
<1>0. /\ FeedTyped /\ EntryAt(e) /\ pass[e].triggers \subseteq Takers /\ pass[e].todo \subseteq Takers
      /\ missed[e].triggers \subseteq Takers /\ missed[e].bridges \subseteq Takers /\ meant[e] \subseteq Takers
  BY FeedParts
<1>1. /\ pass[e].pc = "triggers" /\ a \in pass[e].todo /\ UNCHANGED <<shown, page, meant>>
      /\ missed[e].bridges = {} /\ meant[e] = pass[e].triggers \union pass[e].todo
      /\ shown[e].status = "none"
  BY <1>0 DEF ByTrigger, EntryAt
<1>2. PICK r \in BOOLEAN, ok \in BOOLEAN :
        /\ Enqueued(e, a, r, ok) /\ (ok => r)
        /\ IF ok THEN /\ pass' = [pass EXCEPT ![e].todo = pass[e].todo \ {a},
                                             ![e].triggers = pass[e].triggers \cup {a}]
                     /\ missed' = missed
           ELSE /\ pass' = [pass EXCEPT ![e].todo = pass[e].todo \ {a}, ![e].ok = FALSE,
                                        ![e].triggers = pass[e].triggers \cup {a}]
                /\ missed' = [missed EXCEPT ![e].triggers = missed[e].triggers \cup {a}]
  BY DEF ByTrigger, Lists
<1>3. /\ job' \in [Entries -> [Takers -> JobStates]] /\ run' \in [Entries -> [Takers -> RunStates]]
      /\ \A q \in Entries \ {e} : job'[q] = job[q] /\ run'[q] = run[q]
      /\ \A b \in Takers \ {a} : job'[e][b] = job[e][b] /\ run'[e][b] = run[e][b]
      /\ job'[e][a] = IF r THEN "pending" ELSE job[e][a]
      /\ shifted' = shifted \union {e}
  BY <1>0, <1>2, EnqueuedMakes
<1>4. /\ pass' \in [Entries -> [pc : PassStates, triggers : SUBSET Takers, todo : SUBSET Takers, ok : BOOLEAN]]
      /\ pass'[e].pc = "triggers" /\ pass'[e].triggers = pass[e].triggers \cup {a}
      /\ pass'[e].todo = pass[e].todo \ {a} /\ pass'[e].ok = (pass[e].ok /\ ok)
      /\ \A q \in Entries \ {e} : pass'[q] = pass[q]
  <2>0. /\ pass \in [Entries -> [pc : PassStates, triggers : SUBSET Takers, todo : SUBSET Takers, ok : BOOLEAN]]
        /\ pass[e].pc = "triggers" /\ pass[e].ok \in BOOLEAN /\ pass[e].triggers \in SUBSET Takers
        /\ pass[e].triggers \cup {a} \in SUBSET Takers /\ pass[e].todo \ {a} \in SUBSET Takers
    BY <1>0, <1>1, FeedParts DEF FeedTyped
  <2>1. CASE ok
    <3>1. pass' = [pass EXCEPT ![e].todo = pass[e].todo \ {a}, ![e].triggers = pass[e].triggers \cup {a}]
      BY <1>2, <2>1
    <3>. QED BY ONLY <2>0, <2>1, <3>1, e \in Entries
  <2>2. CASE ~ok
    <3>1. pass' = [pass EXCEPT ![e].todo = pass[e].todo \ {a}, ![e].ok = FALSE,
                              ![e].triggers = pass[e].triggers \cup {a}]
      BY <1>2, <2>2
    <3>. QED BY ONLY <2>0, <2>2, <3>1, e \in Entries
  <2>. QED BY <2>1, <2>2
<1>5. /\ missed' \in [Entries -> [triggers : SUBSET Takers, bridges : SUBSET Takers]]
      /\ missed'[e].triggers = missed[e].triggers \cup (IF ok THEN {} ELSE {a})
      /\ missed'[e].bridges = missed[e].bridges
      /\ \A q \in Entries \ {e} : missed'[q] = missed[q]
  <2>1. CASE ok
    BY <1>0, <1>2, <2>1 DEF FeedTyped
  <2>2. CASE ~ok
    <3>1. missed' = [missed EXCEPT ![e].triggers = missed[e].triggers \cup {a}]
      BY <1>2, <2>2
    <3>2. missed[e].triggers \cup {a} \in SUBSET Takers
      BY <1>0
    <3>3. missed \in [Entries -> [triggers : SUBSET Takers, bridges : SUBSET Takers]]
      BY <1>0 DEF FeedTyped
    <3>. QED BY ONLY <2>2, <3>1, <3>2, <3>3, e \in Entries
  <2>. QED BY <2>1, <2>2
<1>6. FeedTyped'
  BY <1>0, <1>1, <1>3, <1>4, <1>5 DEF FeedTyped
<1>7. Besides(e)
  BY <1>1, <1>3, <1>4, <1>5 DEF Besides
<1>8. PageHolds'
  BY <1>1, <1>3, <1>4, PageKept
<1>9. EntryAt(e)'
  <2>1. /\ pass[e].ok => missed[e].triggers = {}
        /\ missed[e].triggers \subseteq pass[e].triggers
        /\ \A b \in pass[e].triggers \ missed[e].triggers : job[e][b] # "none"
    BY <1>0, <1>1 DEF EntryAt
  <2>2. \A b \in Takers : job[e][b] # "none" => job'[e][b] # "none"
    BY <1>3
  <2>3. \A b \in pass'[e].triggers \ missed'[e].triggers : job'[e][b] # "none"
    <3>1. ASSUME NEW b \in pass'[e].triggers \ missed'[e].triggers PROVE job'[e][b] # "none"
      <4>1. CASE b = a
        BY <1>2, <1>3, <1>5, <3>1, <4>1
      <4>2. CASE b # a
        BY <1>0, <1>4, <1>5, <2>1, <2>2, <3>1, <4>2
      <4>. QED BY <4>1, <4>2
    <3>. QED BY <3>1
  <2>4. /\ pass'[e].ok => missed'[e].triggers = {}
        /\ missed'[e].triggers \subseteq pass'[e].triggers
    BY <1>4, <1>5, <2>1
  <2>5. meant'[e] = pass'[e].triggers \union pass'[e].todo /\ missed'[e].bridges = {}
    BY <1>1, <1>4, <1>5
  <2>6. shown'[e].status = "none" /\ pass'[e].pc = "triggers"
    BY <1>1, <1>4
  <2>. QED BY <2>3, <2>4, <2>5, <2>6 DEF EntryAt, TellsOf
<1>. QED BY <1>6, <1>7, <1>8, <1>9, BesidesHold

LEMMA WalkHolds ==
  ASSUME FeedInv, NEW e \in Entries, NEW reached \in SUBSET Takers, WalkFor(e, reached)
  PROVE  FeedInv'
<1>0. /\ FeedTyped /\ EntryAt(e) /\ pass[e].triggers \subseteq Takers
      /\ missed[e].triggers \subseteq Takers /\ missed[e].bridges \subseteq Takers /\ meant[e] \subseteq Takers
  BY FeedParts
<1>1. /\ pass[e].pc = "triggers" /\ pass[e].todo = {} /\ UNCHANGED <<job, run, shown, page, missed, shifted>>
      /\ missed[e].bridges = {} /\ meant[e] = pass[e].triggers
      /\ shown[e].status = "none"
      /\ pass[e].ok => missed[e].triggers = {}
      /\ missed[e].triggers \subseteq pass[e].triggers
      /\ \A b \in pass[e].triggers \ missed[e].triggers : job[e][b] # "none"
  BY <1>0 DEF WalkFor, EntryAt
<1>2. CASE /\ pass' = [pass EXCEPT ![e].pc = "bridges", ![e].todo = reached \ (meant[e] \ missed[e].triggers)]
           /\ meant' = [meant EXCEPT ![e] = meant[e] \cup reached]
  <2>1. /\ pass' \in [Entries -> [pc : PassStates, triggers : SUBSET Takers, todo : SUBSET Takers, ok : BOOLEAN]]
        /\ pass'[e].pc = "bridges" /\ pass'[e].triggers = pass[e].triggers /\ pass'[e].ok = pass[e].ok
        /\ pass'[e].todo = reached \ (meant[e] \ missed[e].triggers)
        /\ \A q \in Entries \ {e} : pass'[q] = pass[q]
    <3>1. PICK todo \in SUBSET Takers : todo = reached \ (meant[e] \ missed[e].triggers)
      OBVIOUS
    <3>2. /\ pass \in [Entries -> [pc : PassStates, triggers : SUBSET Takers, todo : SUBSET Takers, ok : BOOLEAN]]
          /\ pass' = [pass EXCEPT ![e].pc = "bridges", ![e].todo = todo]
      BY <1>0, <1>2, <3>1 DEF FeedTyped
    <3>. QED BY ONLY <3>1, <3>2, e \in Entries DEF PassStates
  <2>2. /\ meant' \in [Entries -> SUBSET Takers] /\ meant'[e] = meant[e] \cup reached
        /\ \A q \in Entries \ {e} : meant'[q] = meant[q]
    BY <1>0, <1>2 DEF FeedTyped
  <2>3. FeedTyped' /\ Besides(e)
    BY <1>0, <1>1, <2>1, <2>2 DEF FeedTyped, Besides
  <2>4. PageHolds'
    BY <1>1, <2>1, PageKept
  <2>5. meant'[e] \subseteq pass'[e].triggers \union pass'[e].todo
    BY <1>1, <2>1, <2>2
  <2>6. EntryAt(e)'
    BY <1>1, <2>1, <2>2, <2>5 DEF EntryAt, TellsOf
  <2>. QED BY <2>3, <2>4, <2>6, BesidesHold
<1>3. CASE pass' = [pass EXCEPT ![e].pc = "bridges", ![e].ok = FALSE] /\ meant' = meant
  <2>1. /\ pass' \in [Entries -> [pc : PassStates, triggers : SUBSET Takers, todo : SUBSET Takers, ok : BOOLEAN]]
        /\ pass'[e].pc = "bridges" /\ pass'[e].triggers = pass[e].triggers /\ pass'[e].ok = FALSE
        /\ pass'[e].todo = pass[e].todo
        /\ \A q \in Entries \ {e} : pass'[q] = pass[q]
    <3>1. pass \in [Entries -> [pc : PassStates, triggers : SUBSET Takers, todo : SUBSET Takers, ok : BOOLEAN]]
      BY <1>0 DEF FeedTyped
    <3>. QED BY ONLY <1>3, <3>1, e \in Entries DEF PassStates
  <2>3. FeedTyped' /\ Besides(e)
    BY <1>0, <1>1, <1>3, <2>1 DEF FeedTyped, Besides
  <2>4. PageHolds'
    BY <1>1, <2>1, PageKept
  <2>6. EntryAt(e)'
    BY <1>1, <1>3, <2>1 DEF EntryAt, TellsOf
  <2>. QED BY <2>3, <2>4, <2>6, BesidesHold
<1>. QED BY <1>2, <1>3 DEF WalkFor

LEMMA BridgeHolds ==
  ASSUME FeedInv, NEW e \in Entries, NEW a \in Takers, ByBridge(e, a)
  PROVE  FeedInv'
<1>0. /\ FeedTyped /\ EntryAt(e) /\ pass[e].triggers \subseteq Takers /\ pass[e].todo \subseteq Takers
      /\ missed[e].triggers \subseteq Takers /\ missed[e].bridges \subseteq Takers /\ meant[e] \subseteq Takers
  BY FeedParts
<1>1. /\ pass[e].pc = "bridges" /\ a \in pass[e].todo /\ UNCHANGED <<shown, page, meant>>
      /\ shown[e].status = "none"
      /\ pass[e].ok => missed[e].triggers = {}
      /\ missed[e].triggers \subseteq pass[e].triggers
      /\ \A b \in pass[e].triggers \ missed[e].triggers : job[e][b] # "none"
      /\ meant[e] \subseteq pass[e].triggers \union pass[e].todo \union missed[e].bridges
      /\ missed[e].bridges \cap pass[e].todo = {}
      /\ \A b \in missed[e].bridges : job[e][b] = "none" => run[e][b] \in {"failure", "pruned"}
  BY <1>0 DEF ByBridge, EntryAt
<1>2. PICK ok \in BOOLEAN :
        /\ IF job[e][a] = "none" THEN \E r \in BOOLEAN : Enqueued(e, a, r, ok) /\ (ok => r)
           ELSE UNCHANGED <<job, run, shifted>>
        /\ IF ok THEN /\ pass' = [pass EXCEPT ![e].todo = pass[e].todo \ {a},
                                             ![e].triggers = pass[e].triggers \cup {a}]
                     /\ missed' = missed
           ELSE /\ pass' = [pass EXCEPT ![e].todo = pass[e].todo \ {a}]
                /\ missed' = [missed EXCEPT ![e].bridges = missed[e].bridges \cup {a}]
  <2>1. CASE /\ IF job[e][a] = "none" THEN Enqueued(e, a, TRUE, TRUE) ELSE UNCHANGED <<job, run, shifted>>
             /\ pass' = [pass EXCEPT ![e].todo = pass[e].todo \ {a}, ![e].triggers = pass[e].triggers \cup {a}]
             /\ missed' = missed
    BY <2>1
  <2>2. CASE /\ IF job[e][a] = "none" THEN \E r \in BOOLEAN : Enqueued(e, a, r, FALSE)
                ELSE UNCHANGED <<job, run, shifted>>
             /\ pass' = [pass EXCEPT ![e].todo = pass[e].todo \ {a}]
             /\ missed' = [missed EXCEPT ![e].bridges = missed[e].bridges \cup {a}]
    BY <2>2
  <2>. QED BY <2>1, <2>2 DEF ByBridge
<1>3. /\ job' \in [Entries -> [Takers -> JobStates]] /\ run' \in [Entries -> [Takers -> RunStates]]
      /\ \A q \in Entries \ {e} : job'[q] = job[q] /\ run'[q] = run[q]
      /\ \A b \in Takers \ {a} : job'[e][b] = job[e][b] /\ run'[e][b] = run[e][b]
      /\ (job[e][a] # "none" \/ ok) => job'[e][a] # "none"
      /\ job'[e][a] = "none" => run'[e][a] = "failure"
      /\ shifted \subseteq shifted' /\ (e \in shifted' \/ (job' = job /\ run' = run))
  <2>1. CASE job[e][a] = "none"
    <3>1. PICK r \in BOOLEAN : Enqueued(e, a, r, ok) /\ (ok => r)
      BY <1>2, <2>1
    <3>2. /\ job' \in [Entries -> [Takers -> JobStates]] /\ run' \in [Entries -> [Takers -> RunStates]]
          /\ \A q \in Entries \ {e} : job'[q] = job[q] /\ run'[q] = run[q]
          /\ \A b \in Takers \ {a} : job'[e][b] = job[e][b] /\ run'[e][b] = run[e][b]
          /\ job'[e][a] = IF r THEN "pending" ELSE job[e][a]
          /\ run'[e][a] = IF ok THEN "running" ELSE "failure"
          /\ shifted' = shifted \union {e}
      BY <1>0, <3>1, EnqueuedMakes
    <3>. QED BY <2>1, <3>1, <3>2
  <2>2. CASE job[e][a] # "none"
    BY <1>0, <1>2, <2>2 DEF FeedTyped
  <2>. QED BY <2>1, <2>2
<1>4. /\ pass' \in [Entries -> [pc : PassStates, triggers : SUBSET Takers, todo : SUBSET Takers, ok : BOOLEAN]]
      /\ pass'[e].pc = "bridges"
      /\ pass'[e].triggers = pass[e].triggers \cup (IF ok THEN {a} ELSE {})
      /\ pass'[e].todo = pass[e].todo \ {a} /\ pass'[e].ok = pass[e].ok
      /\ \A q \in Entries \ {e} : pass'[q] = pass[q]
  <2>0. /\ pass \in [Entries -> [pc : PassStates, triggers : SUBSET Takers, todo : SUBSET Takers, ok : BOOLEAN]]
        /\ pass[e].pc = "bridges" /\ pass[e].ok \in BOOLEAN /\ pass[e].triggers \in SUBSET Takers
        /\ pass[e].triggers \cup {a} \in SUBSET Takers /\ pass[e].todo \ {a} \in SUBSET Takers
    BY <1>0, <1>1, FeedParts DEF FeedTyped
  <2>1. CASE ok
    <3>1. pass' = [pass EXCEPT ![e].todo = pass[e].todo \ {a}, ![e].triggers = pass[e].triggers \cup {a}]
      BY <1>2, <2>1
    <3>. QED BY ONLY <2>0, <2>1, <3>1, e \in Entries
  <2>2. CASE ~ok
    <3>1. pass' = [pass EXCEPT ![e].todo = pass[e].todo \ {a}]
      BY <1>2, <2>2
    <3>. QED BY ONLY <2>0, <2>2, <3>1, e \in Entries
  <2>. QED BY <2>1, <2>2
<1>5. /\ missed' \in [Entries -> [triggers : SUBSET Takers, bridges : SUBSET Takers]]
      /\ missed'[e].bridges = missed[e].bridges \cup (IF ok THEN {} ELSE {a})
      /\ missed'[e].triggers = missed[e].triggers
      /\ \A q \in Entries \ {e} : missed'[q] = missed[q]
  <2>1. CASE ok
    BY <1>0, <1>2, <2>1 DEF FeedTyped
  <2>2. CASE ~ok
    <3>1. missed' = [missed EXCEPT ![e].bridges = missed[e].bridges \cup {a}]
      BY <1>2, <2>2
    <3>2. missed[e].bridges \cup {a} \in SUBSET Takers
      BY <1>0
    <3>. QED BY <1>0, <2>2, <3>1, <3>2 DEF FeedTyped
  <2>. QED BY <2>1, <2>2
<1>6. FeedTyped'
  BY <1>0, <1>1, <1>3, <1>4, <1>5 DEF FeedTyped
<1>7. Besides(e)
  BY <1>1, <1>3, <1>4, <1>5 DEF Besides
<1>8. PageHolds'
  BY <1>1, <1>3, <1>4, PageKept
<1>9. EntryAt(e)'
  <2>1. \A b \in pass'[e].triggers \ missed'[e].triggers : job'[e][b] # "none"
    <3>1. ASSUME NEW b \in pass'[e].triggers \ missed'[e].triggers PROVE job'[e][b] # "none"
      <4>1. CASE b = a
        BY <1>1, <1>3, <1>4, <1>5, <3>1, <4>1
      <4>2. CASE b # a
        <5>1. b \in pass[e].triggers \ missed[e].triggers
          BY <1>4, <1>5, <3>1, <4>2
        <5>2. b \in Takers
          BY <1>0, <5>1
        <5>. QED BY <1>1, <1>3, <4>2, <5>1, <5>2
      <4>. QED BY <4>1, <4>2
    <3>. QED BY <3>1
  <2>2. \A b \in missed'[e].bridges : job'[e][b] = "none" => run'[e][b] \in {"failure", "pruned"}
    <3>1. ASSUME NEW b \in missed'[e].bridges, job'[e][b] = "none" PROVE run'[e][b] \in {"failure", "pruned"}
      <4>1. CASE b = a
        BY <1>3, <3>1, <4>1
      <4>2. CASE b # a
        BY <1>0, <1>1, <1>3, <1>5, <3>1, <4>2
      <4>. QED BY <4>1, <4>2
    <3>. QED BY <3>1
  <2>3. /\ pass'[e].ok => missed'[e].triggers = {}
        /\ missed'[e].triggers \subseteq pass'[e].triggers
        /\ meant'[e] \subseteq pass'[e].triggers \union pass'[e].todo \union missed'[e].bridges
        /\ missed'[e].bridges \cap pass'[e].todo = {}
    BY <1>1, <1>4, <1>5
  <2>4. shown'[e].status = "none" /\ pass'[e].pc = "bridges"
    BY <1>1, <1>4
  <2>. QED BY <2>1, <2>2, <2>3, <2>4 DEF EntryAt, TellsOf
<1>. QED BY <1>6, <1>7, <1>8, <1>9, BesidesHold

LEMMA BroadcastHolds ==
  ASSUME FeedInv, NEW e \in Entries, Broadcast(e)
  PROVE  FeedInv'
<1>0. /\ FeedTyped /\ EntryAt(e) /\ pass[e].triggers \subseteq Takers
      /\ missed[e].triggers \subseteq Takers /\ missed[e].bridges \subseteq Takers
  BY FeedParts
<1>1. /\ pass[e].pc = "bridges" /\ pass[e].todo = {} /\ UNCHANGED <<job, run, page, meant, missed, shifted>>
      /\ pass' = [pass EXCEPT ![e].pc = "routed"]
      /\ pass[e].ok => missed[e].triggers = {}
      /\ missed[e].triggers \subseteq pass[e].triggers
      /\ \A b \in pass[e].triggers \ missed[e].triggers : job[e][b] # "none"
      /\ meant[e] \subseteq pass[e].triggers \union missed[e].bridges
      /\ \A b \in missed[e].bridges : job[e][b] = "none" => run[e][b] \in {"failure", "pruned"}
  BY <1>0 DEF Broadcast, EntryAt
<1>2. PICK status \in {"unmatched", "matched", "error"} :
        /\ status = IF pass[e].triggers = {} THEN "unmatched" ELSE IF pass[e].ok THEN "matched" ELSE "error"
        /\ shown' = [shown EXCEPT ![e] = [status |-> status, matches |-> pass[e].triggers]]
  BY DEF Broadcast
<1>3. /\ pass' \in [Entries -> [pc : PassStates, triggers : SUBSET Takers, todo : SUBSET Takers, ok : BOOLEAN]]
      /\ pass'[e].pc = "routed" /\ \A q \in Entries \ {e} : pass'[q] = pass[q]
  <2>1. pass \in [Entries -> [pc : PassStates, triggers : SUBSET Takers, todo : SUBSET Takers, ok : BOOLEAN]] /\ "routed" \in PassStates
    BY <1>0 DEF FeedTyped, PassStates
  <2>. QED BY ONLY <1>1, <2>1, e \in Entries
<1>4. /\ shown' \in [Entries -> [status : {"none", "unmatched", "matched", "error"}, matches : SUBSET Takers]]
      /\ shown'[e].status = status /\ shown'[e].matches = pass[e].triggers
      /\ \A q \in Entries \ {e} : shown'[q] = shown[q]
  BY <1>0, <1>2 DEF FeedTyped
<1>5. FeedTyped' /\ Besides(e)
  BY <1>0, <1>1, <1>3, <1>4 DEF FeedTyped, Besides
<1>6. PageHolds'
  BY <1>1, <1>3, PageKept
<1>7. /\ status = "matched" => missed[e].triggers = {} /\ pass[e].triggers \subseteq Jobs(e)
      /\ missed[e].triggers # {} => status = "error"
  BY <1>0, <1>1, <1>2 DEF Jobs
<1>8. Jobs(e)' = Jobs(e)
  BY <1>1 DEF Jobs
<1>9. EntryAt(e)'
  BY <1>1, <1>2, <1>3, <1>4, <1>7, <1>8 DEF EntryAt, TellsOf
<1>. QED BY <1>5, <1>6, <1>9, BesidesHold

\* A row that is there stays, and an invocation that failed is told or pruned.
RunMoves(e) ==
  /\ job' \in [Entries -> [Takers -> JobStates]]
  /\ run' \in [Entries -> [Takers -> RunStates]]
  /\ \A q \in Entries \ {e} : job'[q] = job[q] /\ run'[q] = run[q]
  /\ \A b \in Takers : (job'[e][b] = "none") <=> (job[e][b] = "none")
  /\ \A b \in Takers : (job[e][b] = "none" /\ run[e][b] \in {"failure", "pruned"}) =>
                          run'[e][b] \in {"failure", "pruned"}

LEMMA PruneMoves ==
  ASSUME FeedTyped, NEW e \in Entries, NEW a \in Takers, PruneRun(e, a)
  PROVE  RunMoves(e)
<1>1. UNCHANGED job /\ run' = [run EXCEPT ![e][a] = "pruned"]
  BY DEF PruneRun
<1>2. /\ run \in [Entries -> [Takers -> RunStates]] /\ job \in [Entries -> [Takers -> JobStates]]
      /\ "pruned" \in RunStates
  BY DEF FeedTyped, RunStates
<1>3. run' \in [Entries -> [Takers -> RunStates]] /\ \A q \in Entries \ {e} : run'[q] = run[q]
  BY ONLY <1>1, <1>2, e \in Entries, a \in Takers
<1>4. \A b \in Takers : run'[e][b] = IF b = a THEN "pruned" ELSE run[e][b]
  BY ONLY <1>1, <1>2, e \in Entries, a \in Takers
<1>5. \A b \in Takers : (job[e][b] = "none" /\ run[e][b] \in {"failure", "pruned"}) =>
                           run'[e][b] \in {"failure", "pruned"}
  BY <1>4
<1>. QED BY <1>1, <1>2, <1>3, <1>5 DEF RunMoves

LEMMA ReportMoves ==
  ASSUME FeedTyped, NEW e \in Entries, NEW a \in Takers, NEW ok \in BOOLEAN, Reports(e, a, ok)
  PROVE  RunMoves(e)
<1>1. PICK done, told : /\ done = IF ok THEN "completed" ELSE "failed"
                        /\ told = IF run[e][a] \in {"none", "pruned"} THEN run[e][a]
                                  ELSE IF ok THEN "success" ELSE "failure"
  OBVIOUS
<1>2. /\ job[e][a] = "pending"
      /\ job' = [job EXCEPT ![e][a] = done] /\ run' = [run EXCEPT ![e][a] = told]
  BY <1>1 DEF Reports
<1>3. done \in {"completed", "failed"} /\ told \in RunStates
  BY <1>1 DEF FeedTyped, RunStates
<1>4. /\ run \in [Entries -> [Takers -> RunStates]] /\ job \in [Entries -> [Takers -> JobStates]]
      /\ done \in JobStates /\ done # "none"
  BY <1>3 DEF FeedTyped, JobStates
<1>5. /\ run' \in [Entries -> [Takers -> RunStates]] /\ \A q \in Entries \ {e} : run'[q] = run[q]
  BY ONLY <1>2, <1>3, <1>4, e \in Entries, a \in Takers
<1>6. job' \in [Entries -> [Takers -> JobStates]] /\ \A q \in Entries \ {e} : job'[q] = job[q]
  BY ONLY <1>2, <1>4, e \in Entries, a \in Takers
<1>7. \A b \in Takers : run'[e][b] = IF b = a THEN told ELSE run[e][b]
  BY ONLY <1>2, <1>4, e \in Entries, a \in Takers
<1>8. \A b \in Takers : job'[e][b] = IF b = a THEN done ELSE job[e][b]
  BY ONLY <1>2, <1>4, e \in Entries, a \in Takers
<1>9. \A b \in Takers : (job'[e][b] = "none") <=> (job[e][b] = "none")
  BY ONLY <1>2, <1>4, <1>8
<1>10. \A b \in Takers : (job[e][b] = "none" /\ run[e][b] \in {"failure", "pruned"}) =>
                            run'[e][b] \in {"failure", "pruned"}
  BY ONLY <1>2, <1>7, a \in Takers
<1>. QED BY <1>5, <1>6, <1>9, <1>10 DEF RunMoves

LEMMA RunHolds ==
  ASSUME FeedInv, NEW e \in Entries, RunMoves(e), shifted' = shifted \union {e},
         UNCHANGED <<pass, shown, page, meant, missed>>
  PROVE  FeedInv'
<1>0. FeedTyped /\ EntryAt(e) /\ missed[e].bridges \subseteq Takers /\ pass[e].triggers \subseteq Takers
  BY FeedParts
<1>2. FeedTyped'
  BY <1>0 DEF FeedTyped, RunMoves
<1>3. Besides(e)
  BY DEF Besides, RunMoves
<1>4. PageHolds'
  BY PageKept DEF RunMoves
<1>5. Jobs(e)' = Jobs(e)
  BY DEF Jobs, RunMoves
<1>6. EntryAt(e)'
  <2>1. \A b \in Takers : /\ (job'[e][b] = "none") <=> (job[e][b] = "none")
                          /\ (job[e][b] = "none" /\ run[e][b] \in {"failure", "pruned"}) =>
                               run'[e][b] \in {"failure", "pruned"}
    BY DEF RunMoves
  <2>2. \A b \in missed[e].bridges : job[e][b] = "none" => run[e][b] \in {"failure", "pruned"}
    BY <1>0 DEF EntryAt
  <2>3. \A b \in missed[e].bridges : job'[e][b] = "none" => run'[e][b] \in {"failure", "pruned"}
    BY <1>0, <2>1, <2>2
  <2>4. ASSUME pass[e].pc \in {"triggers", "bridges"}
        PROVE  \A b \in pass[e].triggers \ missed[e].triggers : job'[e][b] # "none"
    BY <1>0, <2>1, <2>4 DEF EntryAt
  <2>5. TellsOf(e)'
    BY <1>0, <1>5, <2>3 DEF EntryAt, TellsOf
  <2>. QED BY <1>0, <2>3, <2>4, <2>5 DEF EntryAt
<1>. QED BY <1>2, <1>3, <1>4, <1>6, BesidesHold

-------------------------------------------------------------------------------
(* The page.                                                                 *)

LEMMA PageMoves ==
  ASSUME FeedInv, PageHolds', UNCHANGED <<job, run, pass, shown, meant, missed>>
  PROVE  FeedInv'
<1>1. FeedTyped'
  BY DEF FeedInv, FeedTyped
<1>2. ASSUME NEW e \in Entries PROVE EntryAt(e)'
  <2>1. EntryAt(e) /\ Jobs(e)' = Jobs(e)
    BY DEF FeedInv, Jobs
  <2>. QED BY <2>1 DEF EntryAt, TellsOf
<1>. QED BY <1>1, <1>2 DEF FeedInv

LEMMA QueryHolds ==
  ASSUME FeedInv, NEW ask \in Asks, QueryPage(ask)
  PROVE  FeedInv'
<1>0. PICK p : /\ p = [NoPage EXCEPT !.pc = "count", !.status = ask.status, !.outcome = ask.outcome,
                                      !.scope = ask.scope]
               /\ page' = [p EXCEPT !.found = Selected(p)]
  BY Zenon DEF QueryPage
<1>1. /\ p = [pc |-> "count", status |-> ask.status, outcome |-> ask.outcome, scope |-> ask.scope,
              found |-> {}, total |-> 0, rows |-> {}]
      /\ page' = [p EXCEPT !.found = Selected(p)]
  BY ONLY <1>0 DEF NoPage
<1>2. /\ UNCHANGED <<job, run, pass, shown, meant, missed>>
      /\ ask.status \in {"any", "unmatched", "matched", "error"}
      /\ ask.outcome \in {"any", "running", "success", "failure"}
  BY FeedAssumption DEF QueryPage
<1>3. page' = [pc |-> "count", status |-> ask.status, outcome |-> ask.outcome, scope |-> ask.scope,
               found |-> Selected(p), total |-> 0, rows |-> {}]
  BY <1>1
<1>4. Selected(p) \subseteq Entries
  BY DEF Selected
<1>5. PageShape'
  BY <1>2, <1>3, <1>4 DEF PageShape
<1>6. \A e \in Entries : (e \in page'.found) <=> e \in Selected(page)'
  <2>1. p.status = page'.status /\ p.outcome = page'.outcome /\ p.scope = page'.scope
    BY <1>1, <1>3
  <2>2. ASSUME NEW e \in Entries PROVE (e \in Selected(p)) <=> e \in Selected(page)'
    <3>1. Jobs(e)' = Jobs(e)
      BY <1>2 DEF Jobs
    <3>2. \A status : HasStatus(e, status)' <=> HasStatus(e, status)
      BY <1>2, <3>1 DEF HasStatus
    <3>3. \A outcome : HasOutcome(e, outcome)' <=> HasOutcome(e, outcome)
      BY <1>2, <3>1 DEF HasOutcome
    <3>4. \A sc : InScope(e, sc)' <=> InScope(e, sc)
      BY <1>2, <3>1 DEF InScope
    <3>. QED BY <1>2, <2>1, <3>2, <3>3, <3>4 DEF Selected
  <2>. QED BY <1>3, <2>2
<1>7. PageAgrees'
  BY <1>3 DEF PageAgrees
<1>8. page'.pc = "count"
  BY <1>3
<1>9. PageHolds'
  BY <1>5, <1>6, <1>7, <1>8 DEF PageHolds
<1>. QED BY <1>2, <1>9, PageMoves

LEMMA SelectedFinite == \A S : S \subseteq Entries => IsFiniteSet(S) /\ Cardinality(S) \in Nat
BY FeedAssumption, FS_Subset, FS_CardinalityType

LEMMA CountHolds ==
  ASSUME FeedInv, CountPage
  PROVE  FeedInv'
<1>1. /\ page.pc = "count" /\ page' = [page EXCEPT !.pc = "tasks", !.total = Cardinality(Selected(page))]
      /\ UNCHANGED <<job, run, pass, shown, meant, missed, shifted>>
  BY DEF CountPage
<1>2. PageHolds /\ PageShape
  BY DEF FeedInv, PageHolds
<1>3. /\ page'.pc = "tasks" /\ page'.total = Cardinality(Selected(page)) /\ DOMAIN page' = DOMAIN page
      /\ page'.status = page.status /\ page'.outcome = page.outcome /\ page'.scope = page.scope
      /\ page'.found = page.found
  BY <1>1, <1>2 DEF PageShape
<1>4. ASSUME NEW e \in Entries PROVE (e \in Selected(page)) <=> e \in Selected(page)'
  <2>1. Jobs(e)' = Jobs(e)
    BY <1>1 DEF Jobs
  <2>2. \A status : HasStatus(e, status)' <=> HasStatus(e, status)
    BY <1>1, <2>1 DEF HasStatus
  <2>3. \A outcome : HasOutcome(e, outcome)' <=> HasOutcome(e, outcome)
    BY <1>1, <2>1 DEF HasOutcome
  <2>4. \A sc : InScope(e, sc)' <=> InScope(e, sc)
    BY <1>1, <2>1 DEF InScope
  <2>. QED BY <1>1, <1>3, <2>2, <2>3, <2>4 DEF Selected
<1>5. PageShape'
  BY <1>2, <1>3 DEF PageShape
<1>6. \A e \in Entries \ shifted' : e \in page'.found <=> e \in Selected(page)'
  BY <1>1, <1>2, <1>3, <1>4 DEF PageHolds
<1>7. ASSUME shifted' = {} PROVE page'.total = Cardinality(page'.found)
  <2>1. \A e \in Entries : e \in page.found <=> e \in Selected(page)
    BY <1>1, <1>2, <1>7 DEF PageHolds
  <2>2. page.found = Selected(page)
    BY <1>2, <2>1 DEF PageShape, Selected
  <2>. QED BY <1>3, <2>2
<1>8. PageAgrees'
  BY <1>3 DEF PageAgrees
<1>9. PageHolds'
  BY <1>3, <1>5, <1>6, <1>7, <1>8 DEF PageHolds
<1>. QED BY <1>1, <1>9, PageMoves

\* A row of the page.
RowOf(e) == [entry |-> e, status |-> DerivedStatus(e),
             runs |-> {run[e][a] : a \in Jobs(e)} \ {"none", "pruned"}]

\* As many rows as events.
LEMMA RowsCounted ==
  ASSUME NEW S \in SUBSET Entries
  PROVE  Cardinality({RowOf(e) : e \in S}) = Cardinality(S)
<1> DEFINE R == {RowOf(e) : e \in S}
<1> DEFINE f == [e \in S |-> RowOf(e)]
<1>1. \A e \in S : RowOf(e).entry = e
  BY DEF RowOf
<1>2. f \in Bijection(S, R)
  <2>1. f \in [S -> R]
    OBVIOUS
  <2>2. \A x, y \in S : f[x] = f[y] => x = y
    BY <1>1
  <2>3. \A r \in R : \E x \in S : f[x] = r
    OBVIOUS
  <2>. QED BY ONLY <2>1, <2>2, <2>3 DEF Bijection, Injection, Surjection, IsInjective
<1>3. ExistsBijection(S, R)
  BY ONLY <1>2 DEF ExistsBijection
<1>4. IsFiniteSet(S)
  BY SelectedFinite
<1>. QED BY ONLY <1>3, <1>4, FS_Bijection

\* What the filter asks for is what a row of an event shows.
LEMMA RowAnswers ==
  ASSUME FeedTyped, PageShape, NEW e \in Entries, e \in Selected(page)
  PROVE  /\ page.status \in {"any", DerivedStatus(e)}
         /\ page.outcome = "any" \/ page.outcome \in RowOf(e).runs
<1>1. HasStatus(e, page.status) /\ HasOutcome(e, page.outcome)
  BY DEF Selected
<1>2. Jobs(e) \subseteq Takers /\ \A a \in Takers : job[e][a] = "failed" => a \in Jobs(e)
  BY DEF Jobs
<1>3. page.status \in {"any", DerivedStatus(e)}
  BY <1>1, <1>2 DEF PageShape, HasStatus, DerivedStatus
<1>4. page.outcome = "any" \/ page.outcome \in RowOf(e).runs
  BY <1>1 DEF PageShape, HasOutcome, RowOf
<1>. QED BY <1>3, <1>4

LEMMA ReadHolds ==
  ASSUME FeedInv, ReadTasks
  PROVE  FeedInv'
<1>1. /\ page.pc = "tasks" /\ page' = [page EXCEPT !.pc = "ready", !.rows = {RowOf(e) : e \in page.found}]
      /\ UNCHANGED <<job, run, pass, shown, meant, missed, shifted>>
  BY DEF ReadTasks, RowOf
<1>2. PageHolds /\ PageShape /\ FeedTyped
  BY DEF FeedInv, PageHolds
<1>3. /\ page'.pc = "ready" /\ page'.total = page.total /\ DOMAIN page' = DOMAIN page
      /\ page'.status = page.status /\ page'.outcome = page.outcome
      /\ page'.found = page.found /\ page'.rows = {RowOf(e) : e \in page.found}
  BY <1>1, <1>2 DEF PageShape
<1>4. ASSUME NEW r \in page'.rows, r.entry \notin shifted
      PROVE  page.status \in {"any", r.status} /\ (page.outcome = "any" \/ page.outcome \in r.runs)
  <2>1. PICK e \in page.found : r = RowOf(e)
    BY <1>3, <1>4
  <2>2. r.entry = e /\ r.status = DerivedStatus(e) /\ e \in Entries
    BY <1>2, <2>1 DEF RowOf, PageShape
  <2>3. e \in Selected(page)
    BY <1>1, <1>2, <1>4, <2>2 DEF PageHolds
  <2>4. /\ page.status \in {"any", DerivedStatus(e)}
        /\ page.outcome = "any" \/ page.outcome \in RowOf(e).runs
    BY <1>2, <2>2, <2>3, RowAnswers
  <2>. QED BY ONLY <2>1, <2>2, <2>4
<1>5. shifted = {} => page.total = Cardinality(page'.rows)
  <2>1. Cardinality(page'.rows) = Cardinality(page.found)
    BY <1>2, <1>3, RowsCounted DEF PageShape
  <2>. QED BY <1>1, <1>2, <2>1 DEF PageHolds
<1>6. PageAgrees'
  BY <1>1, <1>3, <1>4, <1>5 DEF PageAgrees
<1>7. PageHolds'
  BY <1>2, <1>3, <1>6 DEF PageHolds, PageShape
<1>. QED BY <1>1, <1>7, PageMoves

LEMMA SendHolds ==
  ASSUME FeedInv, SendPage
  PROVE  FeedInv'
<1>1. page' = NoPage /\ UNCHANGED <<job, run, pass, shown, meant, missed, shifted>>
  BY DEF SendPage
<1>2. page'.pc = "free" /\ PageHolds'
  BY <1>1 DEF PageHolds, PageShape, PageAgrees, NoPage
<1>. QED BY <1>1, <1>2, PageMoves

LEMMA FeedStep == FeedInv /\ [FeedNext]_feedVars => FeedInv'
<1>. SUFFICES ASSUME FeedInv, [FeedNext]_feedVars PROVE FeedInv'
  OBVIOUS
<1>0. FeedTyped
  BY DEF FeedInv
<1>1. ASSUME NEW e \in Entries, NEW S \in SUBSET Takers, MatchEvent(e, S) \/ WalkFor(e, S) PROVE FeedInv'
  BY <1>1, ArriveHolds, WalkHolds
<1>2. ASSUME NEW e \in Entries, NEW a \in Takers, ByTrigger(e, a) \/ ByBridge(e, a) PROVE FeedInv'
  BY <1>2, TriggerHolds, BridgeHolds
<1>3. ASSUME NEW e \in Entries, NEW a \in Takers, PruneRun(e, a) PROVE FeedInv'
  <2>1. RunMoves(e)
    BY <1>0, <1>3, PruneMoves
  <2>2. UNCHANGED <<pass, shown, page, meant, missed>> /\ shifted' = shifted \union {e}
    BY <1>3 DEF PruneRun, Shift
  <2>. QED BY <2>1, <2>2, RunHolds
<1>4. ASSUME NEW e \in Entries, NEW a \in Takers, NEW ok \in BOOLEAN, Reports(e, a, ok) PROVE FeedInv'
  <2>1. RunMoves(e)
    BY <1>0, <1>4, ReportMoves
  <2>2. UNCHANGED <<pass, shown, page, meant, missed>> /\ shifted' = shifted \union {e}
    BY <1>4 DEF Reports, Shift
  <2>. QED BY <2>1, <2>2, RunHolds
<1>5. ASSUME NEW e \in Entries, Arrive(e) \/ Broadcast(e) PROVE FeedInv'
  BY <1>5, ArriveHolds, BroadcastHolds
<1>6. CASE UNCHANGED feedVars
  <2>1. UNCHANGED <<job, run, pass, shown, page, meant, missed, shifted>>
    BY <1>6 DEF feedVars
  <2>2. PageHolds'
    BY <2>1, PageKept
  <2>. QED BY <2>1, <2>2, PageMoves
<1>7. ASSUME NEW ask \in Asks, QueryPage(ask) PROVE FeedInv'
  BY <1>7, QueryHolds
<1>. QED BY <1>1, <1>2, <1>3, <1>4, <1>5, <1>6, <1>7, CountHolds, ReadHolds, SendHolds DEF FeedNext

LEMMA FeedMeans == FeedInv => FeedTells /\ PageAgrees
BY DEF FeedInv, PageHolds, EntryAt, TellsOf, FeedTells

-------------------------------------------------------------------------------
(***************************************************************************)
(* A chat message.                                                         *)
(***************************************************************************)
NoteRecords == [pc : PCs, talk : SUBSET Talks, agent : SUBSET Called, born : SUBSET Called,
                answer : {"none", "created", "failed", "lost"}]

\* A session names one agent, and none once it is deleted.
TalksHold == \A s \in Talks : talk[s] # {} => s \notin over /\ \E name \in Called : talk[s] = {name}

Found    == {"resolve", "birth", "insert", "mark", "enqueue", "notify", "transfer"}
Unstored == {"new", "add", "bump", "owner", "resolve", "birth", "insert"}

\* Where a request stands and what there is of its message: only a user's goes beyond the session,
\* it names one agent, whose inbox is all the event is born in, and the agent's task is made last.
NoteAt(m) ==
  /\ note[m].pc # "done" => note[m].answer = "none"
  /\ note[m].pc # "new" => \E s \in Talks : note[m].talk = {s}
  /\ note[m].pc \in {"new", "add", "bump", "owner"} => note[m].agent = {} /\ note[m].born = {}
  /\ note[m].pc \in Found => IsUser[m] /\ note[m].agent # {}
  /\ note[m].pc \in Unstored => tasks[m] = {} /\ chatEvent[m] = "none" /\ inbox[m] = {}
  /\ note[m].agent = {} \/ \E name \in Called : note[m].agent = {name}
  /\ note[m].pc = "resolve" => note[m].born = {}
  /\ note[m].born \subseteq note[m].agent /\ inbox[m] \subseteq note[m].agent
  /\ note[m].pc \in Found \ {"resolve"} => note[m].agent \subseteq Crew \/ m \in undecided
  /\ note[m].pc \in {"notify", "transfer"} => note[m].agent \subseteq tasks[m]
  /\ note[m].pc \notin {"notify", "transfer", "done"} => tasks[m] \cap note[m].agent = {}

ToldOf(m) ==
  /\ note[m].answer = "created" /\ IsUser[m] /\ m \notin unheard =>
       note[m].agent # {} /\ note[m].agent \subseteq tasks[m]
  /\ note[m].answer = "failed" /\ m \notin unnotified => tasks[m] \cap note[m].agent = {}
  /\ ~ IsUser[m] => tasks[m] = {} /\ chatEvent[m] = "none"
  /\ tasks[m] \subseteq Crew \/ m \in undecided

ChatInv == ChatTypeOK /\ TalksHold /\ \A m \in Notes : NoteAt(m) /\ ToldOf(m)

LEMMA ChatStart == ChatInit => ChatInv
<1>. SUFFICES ASSUME ChatInit PROVE ChatInv
  OBVIOUS
<1>1. ChatTypeOK
  BY DEF ChatInit, ChatTypeOK, NoNote, PCs
<1>2. TalksHold
  BY DEF ChatInit, TalksHold
<1>3. ASSUME NEW m \in Notes PROVE NoteAt(m) /\ ToldOf(m)
  BY DEF ChatInit, NoNote, NoteAt, ToldOf, Found, Unstored
<1>. QED BY <1>1, <1>2, <1>3 DEF ChatInv

\* The bridges out of the agents' own inboxes lead to others.
LEMMA ReachedOthers ==
  ASSUME NEW born, NEW agent, born \subseteq agent, agent = {} \/ \E name \in Called : agent = {name}
  PROVE  Reached(born) \subseteq Crew /\ Reached(born) \cap agent = {}
BY ChatAssumption DEF Reached

\* Of the others nothing changes.
Alone(m) ==
  /\ \A q \in Notes \ {m} :
       /\ note'[q] = note[q] /\ tasks'[q] = tasks[q] /\ chatEvent'[q] = chatEvent[q] /\ inbox'[q] = inbox[q]
       /\ q \in unheard' <=> q \in unheard
       /\ q \in undecided' <=> q \in undecided
       /\ q \in unnotified' <=> q \in unnotified

LEMMA AloneHolds ==
  ASSUME ChatInv, NEW m \in Notes, Alone(m), UNCHANGED <<title, talk, over>>,
         note' \in [Notes -> NoteRecords], chatEvent' \in [Notes -> {"none", "unrouted", "routed"}],
         inbox' \in [Notes -> SUBSET Called], tasks' \in [Notes -> SUBSET Called],
         kept' \subseteq Notes \X Talks, \A row \in kept' : row[2] \notin over,
         NoteAt(m)', ToldOf(m)'
  PROVE  ChatInv'
<1>1. ChatTypeOK'
  BY DEF ChatInv, ChatTypeOK, NoteRecords
<1>2. TalksHold'
  BY DEF ChatInv, TalksHold
<1>3. ASSUME NEW q \in Notes, q # m PROVE NoteAt(q)' /\ ToldOf(q)'
  <2>1. NoteAt(q) /\ ToldOf(q)
    BY DEF ChatInv
  <2>2. /\ note'[q] = note[q] /\ tasks'[q] = tasks[q] /\ chatEvent'[q] = chatEvent[q] /\ inbox'[q] = inbox[q]
        /\ q \in unheard' <=> q \in unheard
        /\ q \in undecided' <=> q \in undecided
        /\ q \in unnotified' <=> q \in unnotified
    BY <1>3 DEF Alone
  <2>3. NoteAt(q)'
    BY <2>1, <2>2 DEF NoteAt
  <2>4. ToldOf(q)'
    BY <2>1, <2>2 DEF ToldOf
  <2>. QED BY <2>3, <2>4
<1>. QED BY <1>1, <1>2, <1>3 DEF ChatInv

\* What a request goes on with, and what is left of it when it ends.
LEMMA NoteChanges ==
  ASSUME ChatInv, NEW m \in Notes
  PROVE  /\ note \in [Notes -> NoteRecords]
         /\ \A pc \in PCs : Onward(m, pc) =>
              /\ note' \in [Notes -> NoteRecords] /\ \A q \in Notes \ {m} : note'[q] = note[q]
              /\ note'[m].pc = pc /\ note'[m].talk = note[m].talk /\ note'[m].agent = note[m].agent
              /\ note'[m].born = note[m].born /\ note'[m].answer = note[m].answer
         /\ \A answer \in {"created", "failed", "lost"} : Says(m, answer) =>
              /\ note' \in [Notes -> NoteRecords] /\ \A q \in Notes \ {m} : note'[q] = note[q]
              /\ note'[m].pc = "done" /\ note'[m].talk = note[m].talk /\ note'[m].agent = note[m].agent
              /\ note'[m].born = note[m].born /\ note'[m].answer = answer
<1>1. note \in [Notes -> NoteRecords]
  BY DEF ChatInv, ChatTypeOK, NoteRecords
<1>2. ASSUME NEW pc \in PCs, Onward(m, pc)
      PROVE  /\ note' \in [Notes -> NoteRecords] /\ \A q \in Notes \ {m} : note'[q] = note[q]
             /\ note'[m].pc = pc /\ note'[m].talk = note[m].talk /\ note'[m].agent = note[m].agent
             /\ note'[m].born = note[m].born /\ note'[m].answer = note[m].answer
  BY <1>1, <1>2 DEF Onward, NoteRecords
<1>3. ASSUME NEW answer \in {"created", "failed", "lost"}, Says(m, answer)
      PROVE  /\ note' \in [Notes -> NoteRecords] /\ \A q \in Notes \ {m} : note'[q] = note[q]
             /\ note'[m].pc = "done" /\ note'[m].talk = note[m].talk /\ note'[m].agent = note[m].agent
             /\ note'[m].born = note[m].born /\ note'[m].answer = answer
  BY <1>1, <1>3 DEF Says, NoteRecords, PCs
<1>. QED BY <1>1, <1>2, <1>3

\* The tables a request leaves alone.
LEMMA TablesTyped ==
  ASSUME ChatInv
  PROVE  /\ chatEvent \in [Notes -> {"none", "unrouted", "routed"}] /\ inbox \in [Notes -> SUBSET Called]
         /\ tasks \in [Notes -> SUBSET Called] /\ kept \subseteq Notes \X Talks
         /\ \A row \in kept : row[2] \notin over
BY DEF ChatInv, ChatTypeOK

\* A request goes on or is answered before the event is stored.
LEMMA EarlyHolds ==
  ASSUME ChatInv, NEW m \in Notes, NEW pc \in PCs, NEW answer \in {"none", "created", "failed", "lost"},
         note' \in [Notes -> NoteRecords], \A q \in Notes \ {m} : note'[q] = note[q],
         note[m].pc \in Unstored, note'[m].pc = pc, note'[m].answer = answer,
         note'[m].born \subseteq note'[m].agent,
         note'[m].agent = {} \/ \E name \in Called : note'[m].agent = {name},
         \E s \in Talks : note'[m].talk = {s},
         pc \in Unstored \union {"done"}, pc # "done" => answer = "none",
         pc \in {"new", "add", "bump", "owner"} => note'[m].agent = {},
         pc = "resolve" => note'[m].born = {},
         pc \in Found => IsUser[m] /\ note'[m].agent # {},
         answer = "created" => ~ IsUser[m] \/ m \in unheard',
         pc \in Found \ {"resolve"} => note'[m].agent \subseteq Crew \/ m \in undecided',
         unheard \subseteq unheard', unheard' \subseteq unheard \union {m},
         undecided \subseteq undecided', undecided' \subseteq undecided \union {m},
         kept' \subseteq Notes \X Talks, \A row \in kept' : row[2] \notin over,
         UNCHANGED <<title, talk, over, chatEvent, inbox, tasks, unnotified>>
  PROVE  ChatInv'
<1>1. NoteAt(m) /\ ToldOf(m)
  BY DEF ChatInv
<1>2. tasks[m] = {} /\ chatEvent[m] = "none" /\ inbox[m] = {}
  BY <1>1 DEF NoteAt
<1>3. NoteAt(m)'
  BY <1>2 DEF NoteAt, Found, Unstored
<1>4. ToldOf(m)'
  BY <1>2 DEF ToldOf
<1>5. Alone(m)
  BY DEF Alone
<1>. QED BY <1>3, <1>4, <1>5, AloneHolds, TablesTyped

LEMMA SessionStepsHold ==
  ASSUME ChatInv, NEW m \in Notes,
         (\E s \in Talks : Post(m, s)) \/ AddMessage(m) \/ BumpSession(m) \/ ReadOwner(m)
  PROVE  ChatInv'
<1>. USE DEF Stage
<1>0. /\ NoteAt(m) /\ note \in [Notes -> NoteRecords] /\ kept \subseteq Notes \X Talks
      /\ \A row \in kept : row[2] \notin over
  BY NoteChanges, TablesTyped DEF ChatInv
<1>1. ASSUME NEW s \in Talks, Post(m, s) PROVE ChatInv'
  <2>1. /\ note' = [note EXCEPT ![m].pc = "add", ![m].talk = {s}] /\ note[m].pc = "new"
        /\ UNCHANGED <<title, talk, over, kept, chatEvent, inbox, tasks, unheard, undecided, unnotified>>
    BY <1>1 DEF Post, rest, chatHistory
  <2>2. /\ note' \in [Notes -> NoteRecords] /\ \A q \in Notes \ {m} : note'[q] = note[q]
        /\ note'[m].pc = "add" /\ note'[m].talk = {s} /\ note'[m].agent = note[m].agent
        /\ note'[m].born = note[m].born /\ note'[m].answer = note[m].answer
    <3>1. {s} \in SUBSET Talks
      OBVIOUS
    <3>2. note' = [note EXCEPT ![m].pc = "add", ![m].talk = {s}]
      BY <2>1
    <3>. QED BY ONLY <1>0, <3>1, <3>2, m \in Notes DEF NoteRecords, PCs
  <2>3. note[m].agent = {} /\ note[m].born = {} /\ note[m].answer = "none"
    BY <1>0, <2>1 DEF NoteAt
  <2>. QED BY <1>0, <2>1, <2>2, <2>3, EarlyHolds DEF Unstored, Found, PCs
<1>2. ASSUME note[m].pc # "new" PROVE TalkOf(m) \in Talks /\ \E s \in Talks : note[m].talk = {s}
  <2>1. PICK s \in Talks : note[m].talk = {s}
    BY <1>0, <1>2 DEF NoteAt
  <2>. QED BY <2>1 DEF TalkOf
<1>3. CASE AddMessage(m)
  <2>1. /\ note[m].pc = "add" /\ TalkOf(m) \in Talks
        /\ UNCHANGED <<title, talk, over, chatEvent, inbox, tasks, unheard, undecided, unnotified>>
    BY <1>2, <1>3 DEF AddMessage, rest, chatHistory
  <2>2. note[m].agent = {} /\ note[m].born = {} /\ note[m].answer = "none"
    BY <1>0, <2>1 DEF NoteAt
  <2>3. CASE Open(TalkOf(m))
    <3>1. kept' = kept \cup {<<m, TalkOf(m)>>} /\ Onward(m, "bump")
      BY <1>3, <2>3 DEF AddMessage
    <3>2. TalkOf(m) \notin over
      BY <2>1, <2>3 DEF ChatInv, TalksHold, Open
    <3>3. /\ note' \in [Notes -> NoteRecords] /\ \A q \in Notes \ {m} : note'[q] = note[q]
          /\ note'[m].pc = "bump" /\ note'[m].talk = note[m].talk /\ note'[m].agent = note[m].agent
          /\ note'[m].born = note[m].born /\ note'[m].answer = note[m].answer
      BY <3>1, NoteChanges DEF PCs
    <3>4. kept' \subseteq Notes \X Talks /\ \A row \in kept' : row[2] \notin over
      BY <1>0, <2>1, <3>1, <3>2
    <3>. QED BY <1>2, <2>1, <2>2, <3>3, <3>4, EarlyHolds DEF Unstored, Found, PCs
  <2>4. CASE ~ Open(TalkOf(m))
    <3>1. kept' = kept /\ Says(m, "failed")
      BY <1>3, <2>4 DEF AddMessage
    <3>2. /\ note' \in [Notes -> NoteRecords] /\ \A q \in Notes \ {m} : note'[q] = note[q]
          /\ note'[m].pc = "done" /\ note'[m].talk = note[m].talk /\ note'[m].agent = note[m].agent
          /\ note'[m].born = note[m].born /\ note'[m].answer = "failed"
      BY <3>1, NoteChanges
    <3>. QED BY <1>0, <1>2, <2>1, <2>2, <3>1, <3>2, EarlyHolds DEF Unstored, Found, PCs
  <2>. QED BY <2>3, <2>4
<1>4. CASE BumpSession(m)
  <2>1. /\ note[m].pc = "bump"
        /\ UNCHANGED <<title, talk, over, kept, chatEvent, inbox, tasks, unheard, undecided, unnotified>>
        /\ Onward(m, "owner") \/ Says(m, "failed")
    BY <1>4 DEF BumpSession, rest, chatHistory
  <2>2. note[m].agent = {} /\ note[m].born = {} /\ note[m].answer = "none"
    BY <1>0, <2>1 DEF NoteAt
  <2>3. /\ note' \in [Notes -> NoteRecords] /\ \A q \in Notes \ {m} : note'[q] = note[q]
        /\ note'[m].talk = note[m].talk /\ note'[m].agent = note[m].agent
        /\ note'[m].born = note[m].born
        /\ \/ note'[m].pc = "owner" /\ note'[m].answer = "none"
           \/ note'[m].pc = "done" /\ note'[m].answer = "failed"
    BY <2>1, <2>2, NoteChanges DEF PCs
  <2>4. /\ note'[m].pc \in {"owner", "done"} /\ note'[m].answer \in {"none", "failed"}
        /\ note'[m].pc # "done" => note'[m].answer = "none"
    BY <2>3
  <2>. QED BY <1>0, <1>2, <2>1, <2>2, <2>3, <2>4, EarlyHolds DEF Unstored, Found, PCs
<1>5. CASE ReadOwner(m)
  <2>1. /\ note[m].pc = "owner" /\ TalkOf(m) \in Talks
        /\ UNCHANGED <<title, talk, over, kept, chatEvent, inbox, tasks, undecided, unnotified>>
    BY <1>2, <1>5 DEF ReadOwner, rest
  <2>2. note[m].agent = {} /\ note[m].born = {} /\ note[m].answer = "none"
    BY <1>0, <2>1 DEF NoteAt
  <2>3. CASE Open(TalkOf(m)) /\ ~ IsUser[m] /\ Says(m, "created") /\ unheard' = unheard
    <3>1. /\ note' \in [Notes -> NoteRecords] /\ \A q \in Notes \ {m} : note'[q] = note[q]
          /\ note'[m].pc = "done" /\ note'[m].talk = note[m].talk /\ note'[m].agent = note[m].agent
          /\ note'[m].born = note[m].born /\ note'[m].answer = "created"
      BY <2>3, NoteChanges
    <3>. QED BY <1>0, <1>2, <2>1, <2>2, <2>3, <3>1, EarlyHolds DEF Unstored, Found, PCs
  <2>4. CASE /\ Open(TalkOf(m)) /\ IsUser[m] /\ unheard' = unheard
             /\ note' = [note EXCEPT ![m].pc = "resolve", ![m].agent = talk[TalkOf(m)]]
    <3>1. PICK name \in Called : talk[TalkOf(m)] = {name}
      BY <2>1, <2>4 DEF ChatInv, TalksHold, Open
    <3>2. /\ note' \in [Notes -> NoteRecords] /\ \A q \in Notes \ {m} : note'[q] = note[q]
          /\ note'[m].pc = "resolve" /\ note'[m].talk = note[m].talk /\ note'[m].agent = {name}
          /\ note'[m].born = note[m].born /\ note'[m].answer = note[m].answer
      <4>1. {name} \in SUBSET Called /\ note' = [note EXCEPT ![m].pc = "resolve", ![m].agent = {name}]
        BY <2>4, <3>1
      <4>. QED BY ONLY <1>0, <4>1, m \in Notes DEF NoteRecords, PCs
    <3>3. /\ "resolve" \in PCs /\ note[m].pc \in Unstored /\ note'[m].answer = "none" /\ note'[m].born = {}
          /\ note'[m].agent # {} /\ \E s \in Talks : note'[m].talk = {s}
      BY <1>2, <2>1, <2>2, <3>2 DEF Unstored, PCs
    <3>4. /\ unheard' = unheard /\ undecided' = undecided /\ kept' = kept /\ IsUser[m]
          /\ UNCHANGED <<title, talk, over, chatEvent, inbox, tasks, unnotified>>
      BY <2>1, <2>4
    <3>. QED BY ONLY ChatInv, m \in Notes, name \in Called, <1>0, <3>2, <3>3, <3>4, EarlyHolds DEF Unstored, Found
  <2>5. CASE Says(m, "created") /\ unheard' = unheard \cup {m}
    <3>1. /\ note' \in [Notes -> NoteRecords] /\ \A q \in Notes \ {m} : note'[q] = note[q]
          /\ note'[m].pc = "done" /\ note'[m].talk = note[m].talk /\ note'[m].agent = note[m].agent
          /\ note'[m].born = note[m].born /\ note'[m].answer = "created"
      BY <2>5, NoteChanges
    <3>. QED BY <1>0, <1>2, <2>1, <2>2, <2>5, <3>1, EarlyHolds DEF Unstored, Found, PCs
  <2>. QED BY <1>5, <2>3, <2>4, <2>5 DEF ReadOwner, GoesOn
<1>. QED BY <1>1, <1>3, <1>4, <1>5

LEMMA ResolveStepsHold ==
  ASSUME ChatInv, NEW m \in Notes, ResolveAgent(m) \/ ResolveInbox(m)
  PROVE  ChatInv'
<1>. USE DEF Stage
<1>0. /\ NoteAt(m) /\ note \in [Notes -> NoteRecords] /\ kept \subseteq Notes \X Talks
      /\ \A row \in kept : row[2] \notin over
  BY NoteChanges, TablesTyped DEF ChatInv
<1>1. CASE ResolveAgent(m)
  <2>1. /\ note[m].pc = "resolve"
        /\ UNCHANGED <<title, talk, over, kept, chatEvent, inbox, tasks, unheard, unnotified>>
    BY <1>1 DEF ResolveAgent, rest
  <2>2. /\ note[m].agent # {} /\ note[m].born = {} /\ note[m].answer = "none" /\ IsUser[m]
        /\ \E name \in Called : note[m].agent = {name}
        /\ \E s \in Talks : note[m].talk = {s}
    BY <1>0, <2>1 DEF NoteAt, Found
  <2>3. CASE Onward(m, "birth") /\ undecided \subseteq undecided' /\ undecided' \subseteq undecided \union {m}
             /\ (note[m].agent \subseteq Crew \/ m \in undecided')
    <3>1. /\ note' \in [Notes -> NoteRecords] /\ \A q \in Notes \ {m} : note'[q] = note[q]
          /\ note'[m].pc = "birth" /\ note'[m].talk = note[m].talk /\ note'[m].agent = note[m].agent
          /\ note'[m].born = note[m].born /\ note'[m].answer = note[m].answer
      BY <2>3, NoteChanges DEF PCs
    <3>. QED BY <1>0, <2>1, <2>2, <2>3, <3>1, EarlyHolds DEF Unstored, Found, PCs
  <2>4. ASSUME NEW a \in Crew, note' = [note EXCEPT ![m].pc = "birth", ![m].agent = {a}], undecided' = undecided
        PROVE  ChatInv'
    <3>1. /\ note' \in [Notes -> NoteRecords] /\ \A q \in Notes \ {m} : note'[q] = note[q]
          /\ note'[m].pc = "birth" /\ note'[m].talk = note[m].talk /\ note'[m].agent = {a}
          /\ note'[m].born = note[m].born /\ note'[m].answer = note[m].answer
      BY <1>0, <2>4 DEF NoteRecords, PCs, Called
    <3>2. a \in Called
      BY DEF Called
    <3>3. /\ "birth" \in PCs /\ note[m].pc \in Unstored /\ "birth" \in Unstored /\ note'[m].answer = "none"
          /\ note'[m].born \subseteq note'[m].agent /\ note'[m].agent \subseteq Crew /\ note'[m].agent # {}
          /\ (\E name \in Called : note'[m].agent = {name}) /\ (\E s \in Talks : note'[m].talk = {s})
      BY <2>1, <2>2, <2>4, <3>1, <3>2 DEF Unstored, PCs
    <3>4. /\ unheard' = unheard /\ undecided' = undecided /\ kept' = kept /\ IsUser[m]
          /\ UNCHANGED <<title, talk, over, chatEvent, inbox, tasks, unnotified>>
      BY <2>1, <2>2, <2>4
    <3>. QED BY ONLY ChatInv, m \in Notes, <1>0, <3>1, <3>3, <3>4, EarlyHolds DEF Unstored, Found
  <2>. QED BY <1>1, <2>3, <2>4 DEF ResolveAgent
<1>2. CASE ResolveInbox(m)
  <2>1. /\ note[m].pc = "birth"
        /\ UNCHANGED <<title, talk, over, kept, chatEvent, inbox, tasks, unheard, undecided, unnotified>>
        /\ note' = [note EXCEPT ![m].pc = "insert", ![m].born = note[m].agent] \/ Onward(m, "insert")
    BY <1>2 DEF ResolveInbox, rest, chatHistory
  <2>2. /\ note[m].agent # {} /\ note[m].born \subseteq note[m].agent /\ note[m].answer = "none" /\ IsUser[m]
        /\ \E name \in Called : note[m].agent = {name}
        /\ \E s \in Talks : note[m].talk = {s}
        /\ note[m].agent \subseteq Crew \/ m \in undecided
    BY <1>0, <2>1 DEF NoteAt, Found
  <2>3. /\ note' \in [Notes -> NoteRecords] /\ \A q \in Notes \ {m} : note'[q] = note[q]
        /\ note'[m].pc = "insert" /\ note'[m].talk = note[m].talk /\ note'[m].agent = note[m].agent
        /\ note'[m].born \subseteq note[m].agent /\ note'[m].answer = note[m].answer
    <3>1. CASE note' = [note EXCEPT ![m].pc = "insert", ![m].born = note[m].agent]
      BY <1>0, <3>1 DEF NoteRecords, PCs
    <3>2. CASE Onward(m, "insert")
      BY <2>2, <3>2, NoteChanges DEF PCs
    <3>. QED BY <2>1, <3>1, <3>2
  <2>. QED BY <1>0, <2>1, <2>2, <2>3, EarlyHolds DEF Unstored, Found, PCs
<1>. QED BY <1>1, <1>2

\* A request that goes on or is answered once its agent is known.
LEMMA LaterHolds ==
  ASSUME ChatInv, NEW m \in Notes, NEW pc \in {"mark", "enqueue", "notify", "transfer", "done"},
         NEW answer \in {"none", "created", "failed"},
         note[m].pc \in Found \ {"resolve"}, Alone(m),
         note' \in [Notes -> NoteRecords], note'[m].pc = pc, note'[m].answer = answer,
         note'[m].talk = note[m].talk, note'[m].agent = note[m].agent, note'[m].born = note[m].born,
         chatEvent' \in [Notes -> {"none", "unrouted", "routed"}],
         inbox' \in [Notes -> SUBSET Called], inbox'[m] \subseteq note[m].agent,
         tasks' \in [Notes -> SUBSET Called],
         pc # "done" => answer = "none",
         pc \in {"mark", "enqueue"} => tasks'[m] \cap note[m].agent = {},
         pc \in {"notify", "transfer"} \/ answer = "created" => note[m].agent \subseteq tasks'[m],
         answer = "failed" => tasks'[m] \cap note[m].agent = {} \/ m \in unnotified',
         \A a \in tasks'[m] : a \in Crew \/ a \in note[m].agent \/ a \in tasks[m],
         UNCHANGED <<title, talk, over, kept, undecided>>
  PROVE  ChatInv'
<1>1. NoteAt(m) /\ ToldOf(m)
  BY DEF ChatInv
<1>2. /\ IsUser[m] /\ note[m].agent # {} /\ \E s \in Talks : note[m].talk = {s}
      /\ \E name \in Called : note[m].agent = {name}
      /\ note[m].born \subseteq note[m].agent
      /\ note[m].agent \subseteq Crew \/ m \in undecided
  BY <1>1 DEF NoteAt, Found
<1>3. NoteAt(m)'
  BY <1>2 DEF NoteAt, Found, Unstored
<1>4. tasks'[m] \subseteq Crew \/ m \in undecided'
  BY <1>1, <1>2 DEF ToldOf
<1>5. ToldOf(m)'
  BY <1>2, <1>4 DEF ToldOf
<1>. QED BY <1>3, <1>5, AloneHolds, TablesTyped

LEMMA StoreStepsHold ==
  ASSUME ChatInv, NEW m \in Notes, StoreEvent(m) \/ MarkChat(m)
  PROVE  ChatInv'
<1>. USE DEF Stage
<1>0. /\ NoteAt(m) /\ note \in [Notes -> NoteRecords] /\ chatEvent \in [Notes -> {"none", "unrouted", "routed"}]
      /\ inbox \in [Notes -> SUBSET Called] /\ tasks \in [Notes -> SUBSET Called]
  BY NoteChanges, TablesTyped DEF ChatInv
<1>1. CASE StoreEvent(m)
  <2>1. /\ note[m].pc = "insert"
        /\ UNCHANGED <<title, talk, over, kept, tasks, unheard, undecided, unnotified>>
    BY <1>1 DEF StoreEvent, rest, chatHistory
  <2>2. /\ tasks[m] = {} /\ inbox[m] = {} /\ note[m].born \subseteq note[m].agent /\ note[m].answer = "none"
        /\ note[m].born \subseteq Called
    BY <1>0, <2>1 DEF NoteAt, Unstored, NoteRecords
  <2>3. CASE /\ chatEvent' = [chatEvent EXCEPT ![m] = "unrouted"]
             /\ inbox' = [inbox EXCEPT ![m] = note[m].born] /\ Onward(m, "mark")
    <3>1. /\ note' \in [Notes -> NoteRecords] /\ \A q \in Notes \ {m} : note'[q] = note[q]
          /\ note'[m].pc = "mark" /\ note'[m].talk = note[m].talk /\ note'[m].agent = note[m].agent
          /\ note'[m].born = note[m].born /\ note'[m].answer = note[m].answer
      BY <2>3, NoteChanges DEF PCs
    <3>2. /\ chatEvent' \in [Notes -> {"none", "unrouted", "routed"}] /\ inbox' \in [Notes -> SUBSET Called]
          /\ inbox'[m] = note[m].born
          /\ \A q \in Notes \ {m} : chatEvent'[q] = chatEvent[q] /\ inbox'[q] = inbox[q]
      BY <1>0, <2>2, <2>3
    <3>3. Alone(m)
      BY <2>1, <3>1, <3>2 DEF Alone
    <3>. QED BY <1>0, <2>1, <2>2, <3>1, <3>2, <3>3, LaterHolds DEF Found
  <2>4. CASE Says(m, "failed") /\ UNCHANGED <<chatEvent, inbox>>
    <3>1. /\ note' \in [Notes -> NoteRecords] /\ \A q \in Notes \ {m} : note'[q] = note[q]
          /\ note'[m].pc = "done" /\ note'[m].talk = note[m].talk /\ note'[m].agent = note[m].agent
          /\ note'[m].born = note[m].born /\ note'[m].answer = "failed"
      BY <2>4, NoteChanges
    <3>2. Alone(m)
      BY <2>1, <2>4, <3>1 DEF Alone
    <3>. QED BY <1>0, <2>1, <2>2, <2>4, <3>1, <3>2, LaterHolds DEF Found
  <2>. QED BY <1>1, <2>3, <2>4 DEF StoreEvent
<1>2. CASE MarkChat(m)
  <2>1. /\ note[m].pc = "mark" /\ Onward(m, "enqueue")
        /\ UNCHANGED <<title, talk, over, kept, inbox, tasks, unheard, undecided, unnotified>>
        /\ chatEvent' = [chatEvent EXCEPT ![m] = "routed"] \/ chatEvent' = chatEvent
    BY <1>2 DEF MarkChat, rest, chatHistory
  <2>2. tasks[m] \cap note[m].agent = {} /\ inbox[m] \subseteq note[m].agent /\ note[m].answer = "none"
    BY <1>0, <2>1 DEF NoteAt
  <2>3. /\ note' \in [Notes -> NoteRecords] /\ \A q \in Notes \ {m} : note'[q] = note[q]
        /\ note'[m].pc = "enqueue" /\ note'[m].talk = note[m].talk /\ note'[m].agent = note[m].agent
        /\ note'[m].born = note[m].born /\ note'[m].answer = note[m].answer
    BY <2>1, NoteChanges DEF PCs
  <2>4. /\ chatEvent' \in [Notes -> {"none", "unrouted", "routed"}]
        /\ \A q \in Notes \ {m} : chatEvent'[q] = chatEvent[q]
    BY <1>0, <2>1
  <2>5. Alone(m)
    BY <2>1, <2>3, <2>4 DEF Alone
  <2>. QED BY <1>0, <2>1, <2>2, <2>3, <2>4, <2>5, LaterHolds DEF Found
<1>. QED BY <1>1, <1>2

LEMMA TaskStepsHold ==
  ASSUME ChatInv, NEW m \in Notes,
         EnqueueChat(m) \/ NotifyChat(m) \/ \E unreached \in SUBSET Crew : TransferChat(m, unreached)
  PROVE  ChatInv'
<1>. USE DEF Stage
<1>0. /\ NoteAt(m) /\ note \in [Notes -> NoteRecords] /\ chatEvent \in [Notes -> {"none", "unrouted", "routed"}]
      /\ inbox \in [Notes -> SUBSET Called] /\ tasks \in [Notes -> SUBSET Called]
      /\ note[m].agent \subseteq Called
  BY NoteChanges, TablesTyped DEF ChatInv, NoteRecords
<1>1. inbox[m] \subseteq note[m].agent
  BY <1>0 DEF NoteAt
<1>2. CASE EnqueueChat(m)
  <2>1. /\ note[m].pc = "enqueue"
        /\ UNCHANGED <<title, talk, over, kept, chatEvent, inbox, unheard, undecided, unnotified>>
    BY <1>2 DEF EnqueueChat, rest, chatHistory
  <2>2. tasks[m] \cap note[m].agent = {} /\ note[m].answer = "none"
    BY <1>0, <2>1 DEF NoteAt
  <2>3. CASE tasks' = [tasks EXCEPT ![m] = tasks[m] \cup note[m].agent] /\ Onward(m, "notify")
    <3>1. /\ note' \in [Notes -> NoteRecords] /\ \A q \in Notes \ {m} : note'[q] = note[q]
          /\ note'[m].pc = "notify" /\ note'[m].talk = note[m].talk /\ note'[m].agent = note[m].agent
          /\ note'[m].born = note[m].born /\ note'[m].answer = note[m].answer
      BY <2>3, NoteChanges DEF PCs
    <3>2. /\ tasks' \in [Notes -> SUBSET Called] /\ tasks'[m] = tasks[m] \cup note[m].agent
          /\ \A q \in Notes \ {m} : tasks'[q] = tasks[q]
      BY <1>0, <2>3
    <3>3. Alone(m)
      BY <2>1, <3>1, <3>2 DEF Alone
    <3>. QED BY <1>0, <1>1, <2>1, <2>2, <3>1, <3>2, <3>3, LaterHolds DEF Found
  <2>4. CASE Says(m, "failed") /\ UNCHANGED tasks
    <3>1. /\ note' \in [Notes -> NoteRecords] /\ \A q \in Notes \ {m} : note'[q] = note[q]
          /\ note'[m].pc = "done" /\ note'[m].talk = note[m].talk /\ note'[m].agent = note[m].agent
          /\ note'[m].born = note[m].born /\ note'[m].answer = "failed"
      BY <2>4, NoteChanges
    <3>2. Alone(m)
      BY <2>1, <2>4, <3>1 DEF Alone
    <3>. QED BY <1>0, <1>1, <2>1, <2>2, <2>4, <3>1, <3>2, LaterHolds DEF Found
  <2>. QED BY <1>2, <2>3, <2>4 DEF EnqueueChat, Refuse
<1>3. CASE NotifyChat(m)
  <2>1. /\ note[m].pc = "notify"
        /\ UNCHANGED <<title, talk, over, kept, chatEvent, inbox, tasks, unheard, undecided>>
    BY <1>3 DEF NotifyChat, rest
  <2>2. note[m].agent \subseteq tasks[m] /\ note[m].answer = "none"
    BY <1>0, <2>1 DEF NoteAt
  <2>3. CASE Onward(m, "transfer") /\ unnotified' = unnotified
    <3>1. /\ note' \in [Notes -> NoteRecords] /\ \A q \in Notes \ {m} : note'[q] = note[q]
          /\ note'[m].pc = "transfer" /\ note'[m].talk = note[m].talk /\ note'[m].agent = note[m].agent
          /\ note'[m].born = note[m].born /\ note'[m].answer = note[m].answer
      BY <2>3, NoteChanges DEF PCs
    <3>2. Alone(m)
      BY <2>1, <2>3, <3>1 DEF Alone
    <3>. QED BY <1>0, <1>1, <2>1, <2>2, <3>1, <3>2, LaterHolds DEF Found
  <2>4. CASE Says(m, "failed") /\ unnotified' = unnotified \cup {m}
    <3>1. /\ note' \in [Notes -> NoteRecords] /\ \A q \in Notes \ {m} : note'[q] = note[q]
          /\ note'[m].pc = "done" /\ note'[m].talk = note[m].talk /\ note'[m].agent = note[m].agent
          /\ note'[m].born = note[m].born /\ note'[m].answer = "failed"
      BY <2>4, NoteChanges
    <3>2. Alone(m)
      BY <2>1, <2>4, <3>1 DEF Alone
    <3>. QED BY <1>0, <1>1, <2>1, <2>4, <3>1, <3>2, LaterHolds DEF Found
  <2>. QED BY <1>3, <2>3, <2>4 DEF NotifyChat, Refuse
<1>4. ASSUME NEW unreached \in SUBSET Crew, TransferChat(m, unreached) PROVE ChatInv'
  <2>1. /\ note[m].pc = "transfer" /\ Says(m, "created")
        /\ UNCHANGED <<title, talk, over, kept, chatEvent, inbox, unheard, undecided, unnotified>>
        /\ tasks' = [tasks EXCEPT ![m] = tasks[m] \cup (Reached(note[m].born) \ unreached)]
    BY <1>4 DEF TransferChat, rest, chatHistory
  <2>2. /\ note[m].agent \subseteq tasks[m] /\ note[m].born \subseteq note[m].agent
        /\ note[m].agent = {} \/ \E name \in Called : note[m].agent = {name}
    BY <1>0, <2>1 DEF NoteAt
  <2>3. Reached(note[m].born) \subseteq Crew
    BY <2>2, ReachedOthers
  <2>4. /\ tasks' \in [Notes -> SUBSET Called] /\ tasks'[m] = tasks[m] \cup (Reached(note[m].born) \ unreached)
        /\ \A q \in Notes \ {m} : tasks'[q] = tasks[q]
    BY <1>0, <2>1, <2>3 DEF Called
  <2>5. /\ note' \in [Notes -> NoteRecords] /\ \A q \in Notes \ {m} : note'[q] = note[q]
        /\ note'[m].pc = "done" /\ note'[m].talk = note[m].talk /\ note'[m].agent = note[m].agent
        /\ note'[m].born = note[m].born /\ note'[m].answer = "created"
    BY <2>1, NoteChanges
  <2>6. Alone(m)
    BY <2>1, <2>4, <2>5 DEF Alone
  <2>. QED BY <1>0, <1>1, <2>1, <2>2, <2>3, <2>4, <2>5, <2>6, LaterHolds DEF Found
<1>. QED BY <1>2, <1>3, <1>4

LEMMA RouterHolds ==
  ASSUME ChatInv, NEW m \in Notes, RouterFinds(m)
  PROVE  ChatInv'
<1>1. /\ NoteAt(m) /\ ToldOf(m) /\ note \in [Notes -> NoteRecords]
      /\ chatEvent \in [Notes -> {"none", "unrouted", "routed"}]
      /\ inbox \in [Notes -> SUBSET Called] /\ tasks \in [Notes -> SUBSET Called]
      /\ kept \subseteq Notes \X Talks /\ \A row \in kept : row[2] \notin over
  BY NoteChanges, TablesTyped DEF ChatInv
<1>2. /\ chatEvent[m] = "unrouted" /\ tasks' = [tasks EXCEPT ![m] = tasks[m] \cup Reached(inbox[m])]
      /\ chatEvent' = [chatEvent EXCEPT ![m] = "routed"]
      /\ UNCHANGED <<title, talk, over, kept, inbox, note, unheard, undecided, unnotified>>
  BY DEF RouterFinds, rest, chatHistory
<1>3. /\ inbox[m] \subseteq note[m].agent
      /\ note[m].agent = {} \/ \E name \in Called : note[m].agent = {name}
      /\ note[m].pc \notin Unstored /\ IsUser[m]
  BY <1>1, <1>2 DEF NoteAt, ToldOf
<1>4. Reached(inbox[m]) \subseteq Crew /\ Reached(inbox[m]) \cap note[m].agent = {}
  BY <1>3, ReachedOthers
<1>5. /\ tasks' \in [Notes -> SUBSET Called] /\ tasks'[m] = tasks[m] \cup Reached(inbox[m])
      /\ \A q \in Notes \ {m} : tasks'[q] = tasks[q]
  BY <1>1, <1>2, <1>4 DEF Called
<1>6. /\ chatEvent' \in [Notes -> {"none", "unrouted", "routed"}]
      /\ \A q \in Notes \ {m} : chatEvent'[q] = chatEvent[q]
  BY <1>1, <1>2
<1>7. Alone(m)
  BY <1>2, <1>5, <1>6 DEF Alone
<1>8. NoteAt(m)'
  BY <1>1, <1>2, <1>3, <1>4, <1>5 DEF NoteAt
<1>9. ToldOf(m)'
  BY <1>1, <1>2, <1>3, <1>4, <1>5 DEF ToldOf
<1>. QED BY <1>1, <1>2, <1>5, <1>6, <1>7, <1>8, <1>9, AloneHolds

\* A request that was cut short is told nothing.
LEMMA DiesHolds ==
  ASSUME ChatInv, HubDies
  PROVE  ChatInv'
<1>1. /\ note' = [m \in Notes |-> IF note[m].pc \in {"new", "done"} THEN note[m]
                                  ELSE [note[m] EXCEPT !.pc = "done", !.answer = "lost"]]
      /\ UNCHANGED <<title, talk, over, kept, chatEvent, inbox, tasks, unheard, undecided, unnotified>>
  BY DEF HubDies, rest, chatHistory
<1>2. note \in [Notes -> NoteRecords]
  BY NoteChanges DEF ChatInv, ChatTypeOK, NoteRecords
<1>3. \A m \in Notes : \/ note'[m] = note[m]
                        \/ /\ note[m].pc # "new" /\ note'[m] \in NoteRecords
                           /\ note'[m].pc = "done" /\ note'[m].answer = "lost"
                           /\ note'[m].talk = note[m].talk /\ note'[m].agent = note[m].agent
                           /\ note'[m].born = note[m].born
  BY <1>1, <1>2 DEF NoteRecords, PCs
<1>4. note' \in [Notes -> NoteRecords]
  <2>1. \A m \in Notes : note'[m] \in NoteRecords
    BY <1>2, <1>3
  <2>. QED BY ONLY <1>1, <2>1
<1>5. ChatTypeOK' /\ TalksHold'
  BY <1>1, <1>4 DEF ChatInv, ChatTypeOK, TalksHold, NoteRecords
<1>6. ASSUME NEW m \in Notes PROVE NoteAt(m)' /\ ToldOf(m)'
  <2>1. NoteAt(m) /\ ToldOf(m)
    BY DEF ChatInv
  <2>2. CASE note'[m] = note[m]
    BY <1>1, <2>1, <2>2 DEF NoteAt, ToldOf
  <2>3. CASE note'[m] # note[m]
    <3>1. /\ note[m].pc # "new" /\ note'[m].pc = "done" /\ note'[m].answer = "lost"
          /\ note'[m].talk = note[m].talk /\ note'[m].agent = note[m].agent
          /\ note'[m].born = note[m].born
      BY <1>3, <2>3
    <3>2. NoteAt(m)'
      BY <1>1, <2>1, <3>1 DEF NoteAt, Found, Unstored
    <3>3. ToldOf(m)'
      BY <1>1, <2>1, <3>1 DEF ToldOf
    <3>. QED BY <3>2, <3>3
  <2>. QED BY <2>2, <2>3
<1>. QED BY <1>5, <1>6 DEF ChatInv

LEMMA TalksChange ==
  ASSUME ChatInv, ChatTypeOK', TalksHold',
         UNCHANGED <<chatEvent, inbox, tasks, note, unheard, undecided, unnotified>>
  PROVE  ChatInv'
<1>1. ASSUME NEW m \in Notes PROVE NoteAt(m)' /\ ToldOf(m)'
  <2>1. NoteAt(m) /\ ToldOf(m)
    BY DEF ChatInv
  <2>. QED BY <2>1 DEF NoteAt, ToldOf
<1>. QED BY <1>1 DEF ChatInv

LEMMA ChatStep ==
  ASSUME ChatInv, [ChatNext]_chatVars
  PROVE  ChatInv'
<1>0. ChatTypeOK /\ TalksHold
  BY DEF ChatInv
<1>1. ASSUME NEW s \in Talks, NEW name \in Called, CreateSession(s, name) PROVE ChatInv'
  <2>1. /\ talk' = [talk EXCEPT ![s] = {name}] /\ s \notin over
        /\ UNCHANGED <<title, over, kept, chatEvent, inbox, tasks, note, unheard, undecided, unnotified>>
    BY <1>1 DEF CreateSession, chatHistory
  <2>. QED BY <1>0, <2>1, TalksChange DEF ChatTypeOK, TalksHold
<1>2. ASSUME NEW s \in Talks, DeleteSession(s) PROVE ChatInv'
  <2>1. /\ talk' = [talk EXCEPT ![s] = {}] /\ over' = over \cup {s}
        /\ kept' = {row \in kept : row[2] # s}
        /\ UNCHANGED <<title, chatEvent, inbox, tasks, note, unheard, undecided, unnotified>>
    BY <1>2 DEF DeleteSession, chatHistory
  <2>. QED BY <1>0, <2>1, TalksChange DEF ChatTypeOK, TalksHold
<1>3. ASSUME NEW a \in Crew, NEW t \in Titles, RenameAgent(a, t) PROVE ChatInv'
  <2>1. /\ title' = [title EXCEPT ![a] = t]
        /\ UNCHANGED <<talk, over, kept, chatEvent, inbox, tasks, note, unheard, undecided, unnotified>>
    BY <1>3 DEF RenameAgent, chatHistory
  <2>. QED BY <1>0, <2>1, TalksChange DEF ChatTypeOK, TalksHold
<1>4. CASE UNCHANGED chatVars
  <2>1. UNCHANGED <<title, talk, over, kept, chatEvent, inbox, tasks, note, unheard, undecided, unnotified>>
    BY <1>4 DEF chatVars, chatHistory
  <2>. QED BY <1>0, <2>1, TalksChange DEF ChatTypeOK, TalksHold
<1>. QED BY <1>1, <1>2, <1>3, <1>4, SessionStepsHold, ResolveStepsHold, StoreStepsHold, TaskStepsHold,
            RouterHolds, DiesHolds DEF ChatNext

LEMMA ToldMeans == ChatInv => ChatTypeOK /\ ChatTold
BY DEF ChatInv, ChatTold, ToldOf

-------------------------------------------------------------------------------
(* What a run of the system tells: the feed and the messages change in steps of *)
(* their own, whichever part a behaviour is of.                              *)

LEMMA TellingStart == RoutingInit => FeedInv /\ ChatInv
BY FeedStart, ChatStart DEF RoutingInit

LEMMA TellingStep ==
  ASSUME FeedInv, ChatInv, [RoutingNext]_routingVars
  PROVE  FeedInv' /\ ChatInv'
<1>1. CASE UNCHANGED <<feedVars, chatVars>>
  BY <1>1, FeedStep, ChatStep
<1>2. CASE OfFeed(FeedNext)
  BY <1>2, FeedStep, ChatStep DEF OfFeed
<1>3. CASE OfChat(ChatNext)
  BY <1>3, FeedStep, ChatStep DEF OfChat
<1>4. CASE OfMatching(MatchingNext)
  BY <1>1, <1>4 DEF OfMatching
<1>5. ASSUME NEW e \in Events, OfRouter(InsertEvent(e)) PROVE UNCHANGED <<feedVars, chatVars>>
  BY <1>5 DEF OfRouter
<1>6. ASSUME NEW r \in Routers, OfRouter(Route(r)) \/ OfRouter(Crash(r)) PROVE UNCHANGED <<feedVars, chatVars>>
  BY <1>6 DEF OfRouter
<1>7. ASSUME NEW e \in Events, NEW a \in Agents, OfRouter(RunnerReports(e, a))
      PROVE  UNCHANGED <<feedVars, chatVars>>
  BY <1>7 DEF OfRouter
<1>8. CASE UNCHANGED routingVars
  BY <1>1, <1>8 DEF routingVars
<1>. QED BY <1>1, <1>2, <1>3, <1>4, <1>5, <1>6, <1>7, <1>8 DEF RoutingNext

\* What somebody is told of an event or a message is what became of it: the entry that is broadcast
\* and the pages read back, with tasks, invocations and the pruner changing beside them; and what the
\* sender of a message is told, whichever statement of addChatMessage failed.
THEOREM TellingIsSound == RoutingSpec => []TellingSound
<1>1. FeedInv /\ ChatInv => TellingSound
  BY FeedMeans, ToldMeans DEF TellingSound
<1>. QED BY <1>1, TellingStart, TellingStep, PTL DEF RoutingSpec

(***************************************************************************)
(* TriggerMatching.                                                        *)
(***************************************************************************)

\* What a filter says in one sentence is what the branches of matchFilter come to.
LEMMA FilterInWords ==
  ASSUME NEW f, NEW value
  PROVE  InWords(f, value) <=> Match(f, value)
<1>1. CASE f.op = "in"
  BY <1>1 DEF InWords, Meant, Texts, Match, MatchNull, MatchArray, MatchScalar
<1>2. CASE f.op = "contains"
  BY <1>2 DEF InWords, Meant, Texts, Match, MatchNull, MatchArray, MatchScalar
<1>3. CASE f.op = "not-in"
  BY <1>3 DEF InWords, Meant, Texts, Match, MatchNull, MatchArray, MatchScalar
<1>4. CASE f.op = "not-contains"
  BY <1>4 DEF InWords, Meant, Texts, Match, MatchNull, MatchArray, MatchScalar
<1>5. CASE f.op \notin {"in", "contains", "not-in", "not-contains"}
  BY <1>5 DEF InWords
<1> QED
  BY <1>1, <1>2, <1>3, <1>4, <1>5

LEMMA WantedFit == Wanted = {t \in Ids : Fits(t)}
<1>1. \A f, value : InWords(f, value) <=> Match(f, value)
  BY FilterInWords
<1> QED
  BY <1>1, Zenon DEF Wanted, Fits, IsValid, MatchFilters

\* Matches of different triggers can be put in order.
Ordered(s, S) ==
  /\ s \in Seq(S) /\ ToSet(s) = S
  /\ \A i, j \in 1..Len(s) : i < j => s[i].trigger < s[j].trigger

LEMMA OrderedBefore ==
  ASSUME NEW S, NEW s, Ordered(s, S), NEW m, m.trigger \in Nat,
         \A r \in S : r.trigger \in Nat /\ r.trigger < m.trigger
  PROVE  Ordered(Append(s, m), S \union {m})
<1> DEFINE n == Len(s)
           d == Append(s, m)
<1>1. s \in Seq(S) /\ n \in Nat /\ DOMAIN s = 1..n /\ (\A i \in 1..n : s[i] \in S)
  BY DEF Ordered
<1>2. d \in Seq(S \union {m})
  <2>1. s \in Seq(S \union {m})
    BY <1>1
  <2> QED
    BY <2>1
<1>3. Len(d) = n + 1 /\ DOMAIN d = 1..(n + 1) /\ d[n + 1] = m /\ \A i \in 1..n : d[i] = s[i]
  BY <1>1
<1>4. ToSet(d) = S \union {m}
  <2>1. ToSet(s) = S
    BY DEF Ordered
  <2>2. 1..(n + 1) = 1..n \union {n + 1}
    BY <1>1
  <2> HIDE DEF d
  <2> QED
    BY <1>1, <1>3, <2>1, <2>2 DEF ToSet
<1>5. ASSUME NEW i \in 1..Len(d), NEW j \in 1..Len(d), i < j PROVE d[i].trigger < d[j].trigger
  <2> HIDE DEF d
  <2>1. i \in 1..n
    BY <1>1, <1>3, <1>5
  <2>2. CASE j \in 1..n
    BY <1>3, <1>5, <2>1, <2>2 DEF Ordered
  <2>3. CASE j = n + 1
    BY <1>1, <1>3, <2>1, <2>3
  <2> QED
    BY <1>1, <1>3, <2>2, <2>3
<1> QED
  BY <1>2, <1>4, <1>5 DEF Ordered

LEMMA Sortable ==
  ASSUME NEW N \in Nat, NEW R, \A r \in R : r.trigger \in 1..N,
         \A r, q \in R : r.trigger = q.trigger => r = q
  PROVE  \E s : Ordered(s, R)
<1> DEFINE Upto(n) == {r \in R : r.trigger <= n}
           Sorts(n) == \E s : Ordered(s, Upto(n))
           Bad == {n \in 0..N : ~ Sorts(n)}
<1>1. Upto(N) = R /\ Upto(0) = {}
  OBVIOUS
<1>2. Sorts(0)
  <2>1. Ordered(<<>>, {})
    BY DEF Ordered, ToSet
  <2> QED
    BY <1>1, <2>1
<1>3. SUFFICES Sorts(N)
  BY <1>1
<1> HIDE DEF Sorts
<1>4. SUFFICES ASSUME Bad # {} PROVE FALSE
  OBVIOUS
<1>5. PICK n \in Bad : \A g \in Bad : n <= g
  <2>1. Bad \subseteq Nat
    OBVIOUS
  <2> HIDE DEF Bad
  <2> QED
    BY <1>4, <2>1, LeastNatural
<1>6. n \in 1..N /\ Sorts(n - 1) /\ ~ Sorts(n)
  BY <1>2, <1>5
<1> PICK s : Ordered(s, Upto(n - 1))
  BY <1>6 DEF Sorts
<1>7. CASE \E r \in R : r.trigger = n
  <2> PICK m \in R : m.trigger = n
    BY <1>7
  <2>1. Upto(n) = Upto(n - 1) \union {m}
    BY <1>6
  <2>2. \A r \in Upto(n - 1) : r.trigger \in Nat /\ r.trigger < m.trigger
    BY <1>6
  <2>3. m.trigger \in Nat
    BY <1>6
  <2> HIDE DEF Upto
  <2>4. Ordered(Append(s, m), Upto(n - 1) \union {m})
    BY <2>2, <2>3, OrderedBefore
  <2> QED
    BY <1>6, <2>1, <2>4 DEF Sorts
<1>8. CASE ~ \E r \in R : r.trigger = n
  <2>1. Upto(n) = Upto(n - 1)
    BY <1>6, <1>8
  <2> QED
    BY <1>6, <2>1 DEF Sorts
<1> QED
  BY <1>7, <1>8

\* One match of each trigger: they are as many in any order.
Single(matches) ==
  /\ matches \in Seq(ToSet(matches))
  /\ \A i, j \in DOMAIN matches : matches[i].trigger = matches[j].trigger => i = j

LEMMA SameLength ==
  ASSUME NEW s, NEW d, NEW n \in Nat, NEW g \in Nat, DOMAIN s = 1..n, DOMAIN d = 1..g, ToSet(s) = ToSet(d),
         \A i, j \in 1..n : s[i] = s[j] => i = j,
         \A i, j \in 1..g : d[i] = d[j] => i = j
  PROVE  n = g
<1> DEFINE S == ToSet(s)
<1>1. ASSUME NEW e, NEW m \in Nat, DOMAIN e = 1..m, ToSet(e) = S, \A i, j \in 1..m : e[i] = e[j] => i = j
      PROVE  Cardinality(S) = m
  <2> DEFINE f == [i \in 1..m |-> e[i]]
  <2>1. f \in Bijection(1..m, S)
    BY <1>1 DEF ToSet, Bijection, Injection, Surjection, IsInjective
  <2>2. ExistsBijection(1..m, S)
    BY <2>1 DEF ExistsBijection
  <2>3. IsFiniteSet(1..m) /\ Cardinality(1..m) = m
    BY FS_Interval
  <2> HIDE DEF S
  <2> QED
    BY ONLY <2>2, <2>3, FS_Bijection
<1> QED
  BY <1>1

LEMMA SortsByTrigger ==
  ASSUME NEW N \in Nat, NEW matches, Single(matches), \A m \in ToSet(matches) : m.trigger \in 1..N
  PROVE  Ordered(InIdOrder(matches), ToSet(matches))
<1> DEFINE M == ToSet(matches)
           n == Len(matches)
           Good(s) == s \in [DOMAIN matches -> M] /\ ToSet(s) = M
                      /\ \A i, j \in DOMAIN matches : i < j => s[i].trigger < s[j].trigger
<1>1. matches \in Seq(M) /\ n \in Nat /\ DOMAIN matches = 1..n
  BY DEF Single
<1>2. \A r, q \in M : r.trigger = q.trigger => r = q
  BY DEF Single, ToSet
<1>3. PICK s : Ordered(s, M)
  BY <1>2, Sortable
<1>4. Len(s) \in Nat /\ DOMAIN s = 1..Len(s) /\ s = [i \in 1..Len(s) |-> s[i]] /\ (\A i \in 1..Len(s) : s[i] \in M)
      /\ ToSet(s) = M /\ \A i, j \in 1..Len(s) : i < j => s[i].trigger < s[j].trigger
  BY <1>3 DEF Ordered
<1>5. \A i, j \in 1..Len(s) : s[i] = s[j] => i = j
  <2> SUFFICES ASSUME NEW i \in 1..Len(s), NEW j \in 1..Len(s), s[i] = s[j], i < j \/ j < i PROVE FALSE
    BY <1>4
  <2>1. s[i].trigger \in Nat
    BY <1>4
  <2> QED
    BY <1>4, <2>1
<1>6. Len(s) = n
  <2>1. \A i, j \in 1..n : matches[i] = matches[j] => i = j
    BY <1>1 DEF Single
  <2> HIDE DEF n
  <2> QED
    BY ONLY <1>1, <1>4, <1>5, <2>1, SameLength
<1>7. Good(s)
  BY <1>1, <1>4, <1>6
<1>8. Good(InIdOrder(matches))
  BY <1>7 DEF InIdOrder
<1> QED
  BY <1>1, <1>8 DEF Ordered

\* The loop of DeduplicateByAgent after its first n turns.
Seen(s, i) == \E j \in 1..(i - 1) : s[j].agent = s[i].agent
Loop(g, s, n) ==
  g = [i \in 0..n |-> IF i = 0 THEN <<>>
                      ELSE IF Seen(s, i) THEN g[i - 1] ELSE Append(g[i - 1], s[i])]

LEMMA LoopRuns ==
  ASSUME NEW s, NEW n \in Nat
  PROVE  \E g : Loop(g, s, n)
<1> DEFINE Runs(m) == \E g : Loop(g, s, m)
           Bad == {m \in 0..n : ~ Runs(m)}
<1>1. Runs(0)
  <2> DEFINE g == [i \in 0..0 |-> <<>>]
  <2>1. Loop(g, s, 0)
    BY DEF Loop
  <2> QED
    BY <2>1
<1>2. SUFFICES Runs(n)
  OBVIOUS
<1> HIDE DEF Runs
<1>3. SUFFICES ASSUME Bad # {} PROVE FALSE
  OBVIOUS
<1>4. PICK m \in Bad : \A o \in Bad : m <= o
  <2>1. Bad \subseteq Nat
    OBVIOUS
  <2> HIDE DEF Bad
  <2> QED
    BY <1>3, <2>1, LeastNatural
<1>5. m \in 1..n /\ Runs(m - 1) /\ ~ Runs(m)
  BY <1>1, <1>4
<1> PICK g : Loop(g, s, m - 1)
  BY <1>5 DEF Runs
<1> DEFINE more == [i \in 0..m |-> IF i = m THEN (IF Seen(s, m) THEN g[m - 1] ELSE Append(g[m - 1], s[m]))
                                   ELSE g[i]]
<1>6. Loop(more, s, m)
  <2>1. g = [i \in 0..(m - 1) |-> IF i = 0 THEN <<>>
                                  ELSE IF Seen(s, i) THEN g[i - 1] ELSE Append(g[i - 1], s[i])]
    BY DEF Loop
  <2>2. ASSUME NEW i \in 0..m
        PROVE  more[i] = IF i = 0 THEN <<>>
                         ELSE IF Seen(s, i) THEN more[i - 1] ELSE Append(more[i - 1], s[i])
    <3>0. /\ more[m] = IF Seen(s, m) THEN g[m - 1] ELSE Append(g[m - 1], s[m])
          /\ \A j \in 0..(m - 1) : more[j] = g[j]
      BY <1>5
    <3> HIDE DEF more
    <3>1. CASE i = m
      BY <1>5, <3>0, <3>1
    <3>2. CASE i < m
      <4>1. i \in 0..(m - 1) /\ (i # 0 => i - 1 \in 0..(m - 1))
        BY <1>5, <3>2
      <4>2. g[i] = IF i = 0 THEN <<>> ELSE IF Seen(s, i) THEN g[i - 1] ELSE Append(g[i - 1], s[i])
        BY <2>1, <4>1
      <4> QED
        BY <3>0, <4>1, <4>2
    <3> QED
      BY <1>5, <3>1, <3>2
  <2>3. more = [i \in 0..m |-> more[i]]
    OBVIOUS
  <2> HIDE DEF more
  <2> QED
    BY <2>2, <2>3 DEF Loop
<1> QED
  BY <1>5, <1>6 DEF Runs

\* Of each agent, what has not been seen before it.
Firsts(s, n) == {s[i] : i \in {i \in 1..n : ~ Seen(s, i)}}
AgentsOf(s, n) == {s[i].agent : i \in 1..n}

LEMMA LoopKeeps ==
  ASSUME NEW s, NEW n \in Nat, NEW g, Loop(g, s, n), NEW S, \A i \in 1..n : s[i] \in S
  PROVE  /\ g[n] \in Seq(S) /\ ToSet(g[n]) = Firsts(s, n)
         /\ IsFiniteSet(AgentsOf(s, n)) /\ Len(g[n]) = Cardinality(AgentsOf(s, n))
<1> DEFINE Kept(m) == /\ g[m] \in Seq(S) /\ ToSet(g[m]) = Firsts(s, m)
                      /\ IsFiniteSet(AgentsOf(s, m)) /\ Len(g[m]) = Cardinality(AgentsOf(s, m))
           Bad == {m \in 0..n : ~ Kept(m)}
<1>1. \A m \in 0..n : g[m] = IF m = 0 THEN <<>>
                              ELSE IF Seen(s, m) THEN g[m - 1] ELSE Append(g[m - 1], s[m])
  BY DEF Loop
<1>2. Kept(0)
  <2>1. g[0] = <<>>
    BY <1>1
  <2>2. Firsts(s, 0) = {} /\ AgentsOf(s, 0) = {}
    BY DEF Firsts, AgentsOf
  <2>3. <<>> \in Seq(S) /\ ToSet(<<>>) = {} /\ Len(<<>>) = 0
    BY DEF ToSet
  <2>4. IsFiniteSet({}) /\ Cardinality({}) = 0
    BY FS_EmptySet
  <2> QED
    BY ONLY <2>1, <2>2, <2>3, <2>4
<1>3. SUFFICES Kept(n)
  OBVIOUS
<1> HIDE DEF Kept
<1>4. SUFFICES ASSUME Bad # {} PROVE FALSE
  OBVIOUS
<1>5. PICK m \in Bad : \A o \in Bad : m <= o
  <2>1. Bad \subseteq Nat
    OBVIOUS
  <2> HIDE DEF Bad
  <2> QED
    BY <1>4, <2>1, LeastNatural
<1>6. m \in 1..n /\ Kept(m - 1) /\ ~ Kept(m)
  BY <1>2, <1>5
<1>7. 1..m = 1..(m - 1) \union {m} /\ m \notin 1..(m - 1) /\ s[m] \in S
  BY <1>6
<1>8. AgentsOf(s, m) = AgentsOf(s, m - 1) \union {s[m].agent}
  BY <1>7 DEF AgentsOf
<1>9. Seen(s, m) <=> s[m].agent \in AgentsOf(s, m - 1)
  BY DEF Seen, AgentsOf
<1>10. Firsts(s, m) = Firsts(s, m - 1) \union IF Seen(s, m) THEN {} ELSE {s[m]}
  BY <1>7 DEF Firsts
<1>11. /\ g[m - 1] \in Seq(S) /\ ToSet(g[m - 1]) = Firsts(s, m - 1)
       /\ IsFiniteSet(AgentsOf(s, m - 1)) /\ Len(g[m - 1]) = Cardinality(AgentsOf(s, m - 1))
  BY <1>6 DEF Kept
<1>12. g[m] = IF Seen(s, m) THEN g[m - 1] ELSE Append(g[m - 1], s[m])
  BY <1>1, <1>6
<1>13. CASE Seen(s, m)
  <2>1. AgentsOf(s, m) = AgentsOf(s, m - 1) /\ Firsts(s, m) = Firsts(s, m - 1) /\ g[m] = g[m - 1]
    BY <1>8, <1>9, <1>10, <1>12, <1>13
  <2> QED
    BY <1>6, <1>11, <2>1 DEF Kept
<1>14. CASE ~ Seen(s, m)
  <2> PICK d : d = g[m - 1]
    OBVIOUS
  <2>1. g[m] = Append(d, s[m]) /\ d \in Seq(S)
    BY <1>11, <1>12, <1>14
  <2>2. g[m] \in Seq(S) /\ Len(g[m]) = Len(d) + 1
    BY <1>7, <2>1
  <2>3. ToSet(g[m]) = ToSet(d) \union {s[m]}
    BY <2>1 DEF ToSet
  <2>4. ToSet(g[m]) = Firsts(s, m)
    BY <1>10, <1>11, <1>14, <2>3
  <2>5. IsFiniteSet(AgentsOf(s, m)) /\ Cardinality(AgentsOf(s, m)) = Cardinality(AgentsOf(s, m - 1)) + 1
    <3> PICK A, x : A = AgentsOf(s, m - 1) /\ x = s[m].agent
      OBVIOUS
    <3>1. IsFiniteSet(A) /\ x \notin A /\ AgentsOf(s, m) = A \union {x}
      BY <1>8, <1>9, <1>11, <1>14
    <3>2. IsFiniteSet(A \union {x}) /\ Cardinality(A \union {x}) = Cardinality(A) + 1
      BY ONLY <3>1, FS_AddElement
    <3> QED
      BY <3>1, <3>2
  <2> QED
    BY <1>6, <1>11, <2>2, <2>4, <2>5 DEF Kept
<1> QED
  BY <1>13, <1>14

LEMMA FirstsKept ==
  ASSUME NEW s, NEW S, s \in Seq(S)
  PROVE  /\ ToSet(FirstOfEach(s)) = Firsts(s, Len(s))
         /\ Len(FirstOfEach(s)) = Cardinality(AgentsOf(s, Len(s)))
<1> DEFINE n == Len(s)
           g == CHOOSE g : Loop(g, s, n)
<1>1. n \in Nat /\ \A i \in 1..n : s[i] \in S
  OBVIOUS
<1>2. Loop(g, s, n)
  BY <1>1, LoopRuns
<1>3. FirstOfEach(s) = g[n]
  BY DEF FirstOfEach, Loop, Seen
<1> HIDE DEF g, n
<1>4. /\ ToSet(g[n]) = Firsts(s, n) /\ Len(g[n]) = Cardinality(AgentsOf(s, n))
  BY ONLY <1>1, <1>2, LoopKeeps
<1> QED
  BY <1>3, <1>4 DEF n

\* What has been met so far, in whatever order; the event and the sheet stand.
MatchOf(t) == [trigger |-> t, agent |-> sheet[t].agentRef]
MatchesOf(T) == {MatchOf(t) : t \in T}

MatchingInv ==
  /\ typed \in CanonicalEventTypes(delivery.headers)
  /\ unseen \subseteq Ids /\ returned \in BOOLEAN
  /\ Single(results)
  /\ ToSet(results) = MatchesOf({t \in Ids \ unseen : Fits(t)})
  /\ returned => unseen = {} /\ routed = DeduplicateByAgent(results)

LEMMA MatchingTyped == MatchingInv => MatchingTypeOK
<1> SUFFICES ASSUME MatchingInv, NEW i \in DOMAIN results PROVE results[i].trigger \in Ids \ unseen
  BY DEF MatchingInv, MatchingTypeOK
<1>1. results[i] \in MatchesOf({t \in Ids \ unseen : Fits(t)})
  BY DEF MatchingInv, ToSet
<1> QED
  BY <1>1 DEF MatchesOf, MatchOf

LEMMA DeduplicatesInOrder ==
  ASSUME NEW W, W \subseteq Ids, Single(results), ToSet(results) = MatchesOf(W)
  PROVE  /\ ToSet(DeduplicateByAgent(results)) =
              MatchesOf({t \in W : \A u \in W : sheet[u].agentRef = sheet[t].agentRef => t <= u})
         /\ Len(DeduplicateByAgent(results)) = Cardinality({sheet[t].agentRef : t \in W})
<1> PICK s, S : s = InIdOrder(results) /\ S = MatchesOf(W)
  OBVIOUS
<1>1. TriggerCount \in Nat /\ \A t \in W : t \in 1..TriggerCount /\ t \in Nat
  BY MatchingAssumption DEF Ids
<1>2. \A t : MatchOf(t).trigger = t /\ MatchOf(t).agent = sheet[t].agentRef
  BY DEF MatchOf
<1>3. Ordered(s, S)
  <2>1. \A m \in ToSet(results) : m.trigger \in 1..TriggerCount
    BY <1>1, <1>2 DEF MatchesOf
  <2>2. Ordered(InIdOrder(results), ToSet(results))
    BY ONLY <1>1, <2>1, Single(results), SortsByTrigger
  <2> QED
    BY <2>2
<1> PICK n : n = Len(s)
  OBVIOUS
<1>4. n \in Nat /\ s \in Seq(S) /\ DOMAIN s = 1..n /\ (\A i, j \in 1..n : i < j => s[i].trigger < s[j].trigger)
  BY <1>3 DEF Ordered
<1>5. \A i \in 1..n : s[i] \in S
  BY <1>4
<1>6. \A m \in S : \E i \in 1..n : m = s[i]
  BY <1>3, <1>4 DEF Ordered, ToSet
<1>7. /\ ToSet(DeduplicateByAgent(results)) = Firsts(s, n)
      /\ Len(DeduplicateByAgent(results)) = Cardinality(AgentsOf(s, n))
  BY <1>4, FirstsKept DEF DeduplicateByAgent
<1>8. AgentsOf(s, n) = {sheet[t].agentRef : t \in W}
  <2>1. \A i \in 1..n : \E t \in W : s[i].agent = sheet[t].agentRef
    BY <1>2, <1>5 DEF MatchesOf
  <2>2. \A t \in W : \E i \in 1..n : s[i].agent = sheet[t].agentRef
    BY <1>2, <1>6 DEF MatchesOf
  <2> QED
    BY <2>1, <2>2 DEF AgentsOf
<1> DEFINE First(t) == \A u \in W : sheet[u].agentRef = sheet[t].agentRef => t <= u
<1>9. ASSUME NEW i \in 1..n, ~ Seen(s, i)
      PROVE  s[i] \in MatchesOf({t \in W : First(t)})
  <2> PICK t \in W : s[i] = MatchOf(t)
    BY <1>5 DEF MatchesOf
  <2>1. ASSUME NEW u \in W, sheet[u].agentRef = sheet[t].agentRef PROVE t <= u
    <3> PICK j \in 1..n : MatchOf(u) = s[j]
      BY <1>6 DEF MatchesOf
    <3>1. s[j].agent = s[i].agent /\ s[j].trigger = u /\ s[i].trigger = t
      BY <1>2, <2>1
    <3>2. ~ j < i
      BY <1>4, <1>9, <3>1 DEF Seen
    <3> QED
      BY <1>1, <1>4, <3>1, <3>2
  <2> QED
    BY <2>1 DEF MatchesOf
<1>10. ASSUME NEW t \in W, First(t)
       PROVE  \E i \in 1..n : ~ Seen(s, i) /\ s[i] = MatchOf(t)
  <2> PICK i \in 1..n : MatchOf(t) = s[i]
    BY <1>6 DEF MatchesOf
  <2>1. ASSUME NEW j \in 1..(i - 1), s[j].agent = s[i].agent PROVE FALSE
    <3>1. j \in 1..n /\ j < i
      BY <1>4
    <3> PICK u \in W : s[j] = MatchOf(u)
      BY <1>5, <3>1 DEF MatchesOf
    <3>2. sheet[u].agentRef = sheet[t].agentRef /\ s[j].trigger = u /\ s[i].trigger = t
      BY <1>2, <2>1
    <3>3. u < t /\ t <= u
      BY <1>4, <1>10, <3>1, <3>2
    <3> QED
      BY <1>1, <3>3
  <2> QED
    BY <2>1 DEF Seen
<1>11. Firsts(s, n) = MatchesOf({t \in W : First(t)})
  <2> HIDE DEF First
  <2>1. Firsts(s, n) \subseteq MatchesOf({t \in W : First(t)})
    BY <1>9 DEF Firsts
  <2>2. MatchesOf({t \in W : First(t)}) \subseteq Firsts(s, n)
    BY <1>10 DEF Firsts, MatchesOf
  <2> QED
    BY <2>1, <2>2
<1> QED
  BY <1>7, <1>8, <1>11

LEMMA MatchingTold == MatchingInv => OrderShowsNowhere
<1> SUFFICES ASSUME MatchingInv, returned
             PROVE  /\ ToSet(routed) = {[trigger |-> t, agent |-> sheet[t].agentRef] :
                          t \in {t \in Wanted : \A u \in Wanted :
                                   sheet[u].agentRef = sheet[t].agentRef => t <= u}}
                    /\ Len(routed) = Cardinality({sheet[t].agentRef : t \in Wanted})
  BY DEF OrderShowsNowhere
<1>1. Wanted \subseteq Ids /\ Single(results) /\ ToSet(results) = MatchesOf(Wanted)
      /\ routed = DeduplicateByAgent(results)
  BY WantedFit DEF MatchingInv
<1>2. /\ ToSet(DeduplicateByAgent(results)) =
           MatchesOf({t \in Wanted : \A u \in Wanted : sheet[u].agentRef = sheet[t].agentRef => t <= u})
      /\ Len(DeduplicateByAgent(results)) = Cardinality({sheet[t].agentRef : t \in Wanted})
  BY <1>1, DeduplicatesInOrder
<1> QED
  BY <1>1, <1>2 DEF MatchesOf, MatchOf

LEMMA MatchingStart == MatchingInit => MatchingInv
<1> SUFFICES ASSUME MatchingInit PROVE MatchingInv
  OBVIOUS
<1>1. results = <<>> /\ unseen = Ids /\ returned = FALSE /\ typed \in CanonicalEventTypes(delivery.headers)
  BY DEF MatchingInit
<1>2. ToSet(<<>>) = {}
  BY DEF ToSet
<1>3. Single(<<>>)
  BY DEF Single
<1>4. MatchesOf({t \in Ids \ unseen : Fits(t)}) = {}
  BY <1>1 DEF MatchesOf
<1> QED
  BY <1>1, <1>2, <1>3, <1>4 DEF MatchingInv

LEMMA MatchingStep ==
  ASSUME MatchingInv, [MatchingNext]_matchingVars
  PROVE  MatchingInv'
<1>0. ASSUME UNCHANGED <<delivery, sheet, typed, unseen, results>>
      PROVE  /\ (typed \in CanonicalEventTypes(delivery.headers))' /\ (unseen \subseteq Ids)'
             /\ Single(results)' /\ (ToSet(results) = MatchesOf({t \in Ids \ unseen : Fits(t)}))'
  <2>1. \A u : (Fits(u) <=> Fits(u)') /\ MatchOf(u)' = MatchOf(u)
    BY <1>0 DEF Fits, IsValid, FilterPayload, MatchOf
  <2>2. (MatchesOf({t \in Ids \ unseen : Fits(t)}))' = MatchesOf({t \in Ids \ unseen : Fits(t)})
    BY <1>0, <2>1 DEF MatchesOf
  <2>3. ToSet(results) = MatchesOf({t \in Ids \ unseen : Fits(t)}) /\ Single(results)
        /\ typed \in CanonicalEventTypes(delivery.headers) /\ unseen \subseteq Ids
    BY DEF MatchingInv
  <2>4. Single(results)' <=> Single(results)
    BY <1>0 DEF Single
  <2> QED
    BY <1>0, <2>2, <2>3, <2>4 DEF CanonicalEventTypes
<1>1. CASE UNCHANGED matchingVars
  <2>1. UNCHANGED <<delivery, sheet, typed, unseen, results, routed, returned>>
    BY <1>1 DEF matchingVars
  <2>2. (returned \in BOOLEAN)' /\ (returned => unseen = {} /\ routed = DeduplicateByAgent(results))'
    BY <2>1 DEF MatchingInv
  <2> QED
    BY <1>0, <2>1, <2>2 DEF MatchingInv
<1>2. CASE Deduplicate
  <2>1. /\ UNCHANGED <<delivery, sheet, typed, unseen, results>>
        /\ unseen = {} /\ routed' = DeduplicateByAgent(results) /\ returned' = TRUE
    BY <1>2 DEF Deduplicate
  <2>2. (returned \in BOOLEAN)' /\ (returned => unseen = {} /\ routed = DeduplicateByAgent(results))'
    BY <2>1
  <2> QED
    BY <1>0, <2>1, <2>2 DEF MatchingInv
<1>3. ASSUME NEW t \in Ids, Meet(t) PROVE MatchingInv'
  <2>1. /\ t \in unseen /\ unseen' = unseen \ {t}
        /\ results' = IF Fits(t) THEN Append(results, MatchOf(t)) ELSE results
        /\ UNCHANGED <<delivery, sheet, typed, routed, returned>>
    BY <1>3 DEF Meet, MatchOf
  <2>2. \A u : (Fits(u) <=> Fits(u)') /\ MatchOf(u)' = MatchOf(u)
    BY <2>1 DEF Fits, IsValid, FilterPayload, MatchOf
  <2>3. ~ returned
    BY <2>1 DEF MatchingInv
  <2> PICK T : T = {u \in Ids \ unseen : Fits(u)}
    OBVIOUS
  <2>4. ToSet(results) = MatchesOf(T) /\ Single(results) /\ t \notin T
    BY <2>1 DEF MatchingInv
  <2>5. {u \in Ids \ unseen' : Fits(u)'} = IF Fits(t) THEN T \union {t} ELSE T
    BY <2>1, <2>2
  <2>6. \A U : MatchesOf(U)' = MatchesOf(U)
    BY <2>2 DEF MatchesOf
  <2>7. Single(results') /\ ToSet(results') = MatchesOf(IF Fits(t) THEN T \union {t} ELSE T)
    <3>1. CASE Fits(t)
      <4> PICK r, m, n : r = results /\ m = MatchOf(t) /\ n = Len(r)
        OBVIOUS
      <4>1. r \in Seq(ToSet(r)) /\ n \in Nat /\ DOMAIN r = 1..n
        BY <2>4 DEF Single
      <4>2. results' = Append(r, m) /\ DOMAIN results' = 1..(n + 1) /\ results'[n + 1] = m
            /\ \A i \in 1..n : results'[i] = r[i]
        BY <2>1, <3>1, <4>1
      <4>3. ToSet(results') = ToSet(r) \union {m}
        BY <4>1, <4>2 DEF ToSet
      <4>4. results' \in Seq(ToSet(results'))
        BY <4>1, <4>2, <4>3
      <4>5. \A i \in 1..n : r[i].trigger # m.trigger
        <5>1. \A i \in 1..n : r[i] \in MatchesOf(T)
          BY <2>4, <4>1 DEF ToSet
        <5> QED
          BY <2>4, <5>1 DEF MatchesOf, MatchOf
      <4>6. \A i, j \in 1..n : r[i].trigger = r[j].trigger => i = j
        BY <2>4, <4>1 DEF Single
      <4>7. \A i, j \in 1..(n + 1) : results'[i].trigger = results'[j].trigger => i = j
        BY <4>1, <4>2, <4>5, <4>6
      <4>8. MatchesOf(T \union {t}) = MatchesOf(T) \union {m}
        BY DEF MatchesOf
      <4>9. Single(results')
        BY ONLY <4>2, <4>4, <4>7 DEF Single
      <4> QED
        BY <2>4, <3>1, <4>3, <4>8, <4>9
    <3>2. CASE ~ Fits(t)
      BY <2>1, <2>4, <3>2
    <3> QED
      BY <3>1, <3>2
  <2>8. /\ (typed \in CanonicalEventTypes(delivery.headers))' /\ (unseen \subseteq Ids)' /\ returned' = FALSE
    BY <2>1, <2>3 DEF MatchingInv, CanonicalEventTypes
  <2>9. (ToSet(results) = MatchesOf({u \in Ids \ unseen : Fits(u)}))'
    BY <2>5, <2>6, <2>7
  <2> QED
    BY <2>7, <2>8, <2>9 DEF MatchingInv, Single
<1> QED
  BY <1>1, <1>2, <1>3 DEF MatchingNext

\* MCRouting gives the event a delivery of its own only in the behaviours of the
\* matching; in the others it may be anything.
LEMMA MatchingBegins == RoutingInit => (part = "matching" => MatchingInv)
BY MatchingStart DEF RoutingInit

LEMMA MatchingGoesOn ==
  (part = "matching" => MatchingInv) /\ [RoutingNext]_routingVars => (part = "matching" => MatchingInv)'
<1> SUFFICES ASSUME part = "matching" => MatchingInv, [RoutingNext]_routingVars, part' = "matching"
             PROVE  MatchingInv'
  OBVIOUS
<1>1. part' = part /\ [MatchingNext]_matchingVars
  <2>1. CASE UNCHANGED routingVars
    BY <2>1 DEF routingVars, matchingVars
  <2>2. CASE \/ \E e \in Events : OfRouter(InsertEvent(e))
             \/ \E r \in Routers : OfRouter(Route(r))
             \/ \E r \in Routers : OfRouter(Crash(r))
             \/ \E e \in Events, a \in Agents : OfRouter(RunnerReports(e, a))
    BY <2>2 DEF OfRouter, matchingVars
  <2>3. CASE OfFeed(FeedNext) \/ OfChat(ChatNext)
    BY <2>3 DEF OfFeed, OfChat, matchingVars
  <2>4. CASE OfMatching(MatchingNext)
    BY <2>4 DEF OfMatching
  <2> QED
    BY <2>1, <2>2, <2>3, <2>4 DEF RoutingNext
<1> QED
  BY <1>1, MatchingStep

\* Whatever order Go walks the index and the headers in, and whatever sheet, event
\* and filters they are: an event's tasks are one for each agent some trigger wants
\* it for, under that trigger's name which comes first (DeduplicateByAgent:
\* "deterministic regardless of map iteration order").
THEOREM WalkShowsNowhere == RoutingSpec => []MatchingSound
<1>1. (part = "matching" => MatchingInv) => MatchingSound
  BY MatchingTyped, MatchingTold DEF MatchingSound
<1> QED
  BY <1>1, MatchingBegins, MatchingGoesOn, PTL DEF RoutingSpec
===============================================================================
