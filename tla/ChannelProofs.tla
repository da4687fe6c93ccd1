------------------------------ MODULE ChannelProofs ------------------------------
(***************************************************************************)
(* Proofs about ChannelGraph, for any channels and, but for Acyclic, any   *)
(* number of concurrent requests, and about ChannelDesk, ChannelPages and  *)
(* ChannelRegistry.                                                        *)
(*                                                                         *)
(* The argument about loops needs no paths: y is not reached from x when   *)
(* some set that is closed under the bridges holds x and not y.  Such a    *)
(* set survives the removal of bridges, and a new bridge f -> t with its   *)
(* own separating set T (t inside, f outside) spoils none that matters.    *)
(*                                                                         *)
(* The argument about the rows of groups follows each request: what it has *)
(* read is true for as long as it relies on it (Warranted), or the other   *)
(* request that made it untrue is on record.                               *)
(*                                                                         *)
(* The argument about pages: each part of a page, from the statement that  *)
(* reads it on, holds what stood ever since and nothing that has not been. *)
(*                                                                         *)
(* The walks and the figures are what they stand for (ViewsAreTrue): by    *)
(* induction on the rounds of the walk, and on the streams of a bundle.    *)
(***************************************************************************)
EXTENDS MCChannels, Counting, FiniteSetTheorems, TLAPS

(* Removing bridges separates no less: what is not reached stays unreached. *)
LEMMA FewerBridges ==
  ASSUME NEW edges, NEW fewer, fewer \subseteq edges,
         NEW x, NEW y, x # y, ~ReachesIn(edges, x, y)
  PROVE  ~ReachesIn(fewer, x, y)
  BY DEF ReachesIn, Closed

(* A bridge f -> t whose tail is not reached from its head closes no loop:     *)
(* the tail and head of every bridge that was there stay separated, and so are *)
(* its own.                                                                    *)
LEMMA NoLoopClosed ==
  ASSUME NEW edges, edges \subseteq Channels \X Channels,
         \A b \in edges : b[1] # b[2] /\ ~ReachesIn(edges, b[2], b[1]),
         NEW f \in Channels, NEW t \in Channels, f # t, ~ReachesIn(edges, t, f)
  PROVE  \A b \in edges \union {<<f, t>>} :
           ~ReachesIn(edges \union {<<f, t>>}, b[2], b[1])
<1> DEFINE more == edges \union {<<f, t>>}
<1>1. PICK T \in SUBSET Channels : t \in T /\ Closed(T, edges) /\ f \notin T
  BY DEF ReachesIn
<1>2. Closed(T, more)
  BY <1>1 DEF Closed
<1>3. ~ReachesIn(more, t, f)
  BY <1>1, <1>2 DEF ReachesIn
<1>4. ASSUME NEW b \in edges PROVE ~ReachesIn(more, b[2], b[1])
  <2>1. PICK S \in SUBSET Channels : b[2] \in S /\ Closed(S, edges) /\ b[1] \notin S
    BY <1>4 DEF ReachesIn
  <2>2. CASE f \notin S
    <3>1. Closed(S, more)
      BY <2>1, <2>2 DEF Closed
    <3> QED BY <2>1, <3>1 DEF ReachesIn
  <2>3. CASE f \in S /\ b[1] \notin T
    \* S and T together: whatever leads out of the one is caught by the other.
    <3>1. Closed(S \union T, more)
      BY <1>1, <2>1 DEF Closed
    <3>2. b[2] \in S \union T /\ b[1] \notin S \union T /\ S \union T \in SUBSET Channels
      BY <2>1, <2>3
    <3> QED BY <3>1, <3>2 DEF ReachesIn
  <2>4. CASE f \in S /\ b[1] \in T
    \* b leads from T into T, and f is outside: what S and T share is closed.
    <3>1. b[2] \in T
      BY <1>1, <1>4, <2>4 DEF Closed
    <3>2. Closed(S \intersect T, more)
      BY <1>1, <2>1 DEF Closed
    <3>3. b[2] \in S \intersect T /\ b[1] \notin S \intersect T /\ S \intersect T \in SUBSET Channels
      BY <2>1, <3>1
    <3> QED BY <3>2, <3>3 DEF ReachesIn
  <2> QED BY <2>2, <2>3, <2>4
<1>5. (<<f, t>>)[1] = f /\ (<<f, t>>)[2] = t
  OBVIOUS
<1> QED BY <1>3, <1>4, <1>5

-------------------------------------------------------------------------------
ClientState == [pc: {"pair", "reaches", "insert", "count", "delete"},
                from: Channels, to: Channels]

LEMMA TypeStep == TypeOK /\ [Next]_vars => TypeOK'
<1> SUFFICES ASSUME TypeOK, [Next]_vars PROVE TypeOK'
  OBVIOUS
<1> USE DEF TypeOK, ClientState
<1>1. ASSUME NEW c \in Channels, Create(c) PROVE TypeOK'
  BY <1>1 DEF Create, Custom
<1>2. ASSUME NEW r \in Clients, NEW c \in Channels, LockChannel(r, c) PROVE TypeOK'
  BY <1>2 DEF LockChannel
<1>3. ASSUME NEW r \in Clients, CountBridges(r) PROVE TypeOK'
  BY <1>3 DEF CountBridges, Done, Goto, Resting
<1>4. ASSUME NEW r \in Clients, DeleteChannel(r) PROVE TypeOK'
  BY <1>4 DEF DeleteChannel, Done, Resting
<1>5. ASSUME NEW r \in Clients, NEW f \in Channels, NEW t \in Channels, BeginBridge(r, f, t)
      PROVE TypeOK'
  BY <1>5 DEF BeginBridge
<1>6. ASSUME NEW r \in Clients, ReadPair(r) PROVE TypeOK'
  BY <1>6 DEF ReadPair, Done, Goto, Resting
<1>7. ASSUME NEW r \in Clients, CheckReaches(r) PROVE TypeOK'
  BY <1>7 DEF CheckReaches, Done, Goto, Resting
<1>8. ASSUME NEW r \in Clients, InsertBridge(r) PROVE TypeOK'
  BY <1>8 DEF InsertBridge, Done, Resting
<1>9. ASSUME NEW b \in bridges, DeleteBridge(b) PROVE TypeOK'
  BY <1>9 DEF DeleteBridge
<1>10. CASE UNCHANGED vars
  BY <1>10 DEF vars
<1> QED BY <1>1, <1>2, <1>3, <1>4, <1>5, <1>6, <1>7, <1>8, <1>9, <1>10 DEF Next

(* TypeOK for every number of channels and requests. *)
THEOREM TypeCorrect == Spec => []TypeOK
<1>1. Init => TypeOK
  BY DEF Init, TypeOK, Resting
<1> QED BY <1>1, TypeStep, PTL DEF Spec

-------------------------------------------------------------------------------
(* What a request knows when it writes: a create has looked at its endpoints,  *)
(* a delete has counted the bridges under the lock.                            *)

Asked == \A r \in Clients :
  /\ client[r].pc \in {"pair", "reaches", "insert"} => client[r].from # client[r].to
  /\ client[r].pc \in {"reaches", "insert"} =>
       client[r].from \in Custom \/ client[r].to \in Custom

Counted == \A r \in Clients : client[r].pc = "delete" =>
  \A b \in bridges : b[1] # client[r].from /\ b[2] # client[r].from

IInv == TypeOK /\ Asked /\ Counted /\ BridgesAttach

LEMMA AskedStep == TypeOK /\ Asked /\ [Next]_vars => Asked'
<1> SUFFICES ASSUME TypeOK, Asked, [Next]_vars PROVE Asked'
  OBVIOUS
<1> USE DEF Asked, TypeOK
<1>1. ASSUME NEW c \in Channels, Create(c) PROVE Asked'
  BY <1>1 DEF Create
<1>2. ASSUME NEW r \in Clients, NEW c \in Channels, LockChannel(r, c) PROVE Asked'
  BY <1>2 DEF LockChannel
<1>3. ASSUME NEW r \in Clients, CountBridges(r) PROVE Asked'
  BY <1>3 DEF CountBridges, Done, Goto, Resting
<1>4. ASSUME NEW r \in Clients, DeleteChannel(r) PROVE Asked'
  BY <1>4 DEF DeleteChannel, Done, Resting
<1>5. ASSUME NEW r \in Clients, NEW f \in Channels, NEW t \in Channels, BeginBridge(r, f, t)
      PROVE Asked'
  BY <1>5 DEF BeginBridge
<1>6. ASSUME NEW r \in Clients, ReadPair(r) PROVE Asked'
  BY <1>6 DEF ReadPair, Endpoints, Done, Goto, Resting
<1>7. ASSUME NEW r \in Clients, CheckReaches(r) PROVE Asked'
  BY <1>7 DEF CheckReaches, Done, Goto, Resting
<1>8. ASSUME NEW r \in Clients, InsertBridge(r) PROVE Asked'
  BY <1>8 DEF InsertBridge, Done, Resting
<1>9. ASSUME NEW b \in bridges, DeleteBridge(b) PROVE Asked'
  BY <1>9 DEF DeleteBridge
<1>10. CASE UNCHANGED vars
  BY <1>10 DEF vars
<1> QED BY <1>1, <1>2, <1>3, <1>4, <1>5, <1>6, <1>7, <1>8, <1>9, <1>10 DEF Next

(* The only step that could bring a bridge to a counted channel waits for its  *)
(* lock.                                                                       *)
LEMMA CountedStep == TypeOK /\ Counted /\ [Next]_vars => Counted'
<1> SUFFICES ASSUME TypeOK, Counted, [Next]_vars PROVE Counted'
  OBVIOUS
<1> USE DEF Counted, TypeOK
<1>1. ASSUME NEW c \in Channels, Create(c) PROVE Counted'
  BY <1>1 DEF Create
<1>2. ASSUME NEW r \in Clients, NEW c \in Channels, LockChannel(r, c) PROVE Counted'
  BY <1>2 DEF LockChannel
<1>3. ASSUME NEW r \in Clients, CountBridges(r) PROVE Counted'
  BY <1>3 DEF CountBridges, Done, Goto, Resting
<1>4. ASSUME NEW r \in Clients, DeleteChannel(r) PROVE Counted'
  BY <1>4 DEF DeleteChannel, Done, Resting
<1>5. ASSUME NEW r \in Clients, NEW f \in Channels, NEW t \in Channels, BeginBridge(r, f, t)
      PROVE Counted'
  BY <1>5 DEF BeginBridge
<1>6. ASSUME NEW r \in Clients, ReadPair(r) PROVE Counted'
  BY <1>6 DEF ReadPair, Done, Goto, Resting
<1>7. ASSUME NEW r \in Clients, CheckReaches(r) PROVE Counted'
  BY <1>7 DEF CheckReaches, Done, Goto, Resting
<1>8. ASSUME NEW r \in Clients, InsertBridge(r) PROVE Counted'
  <2> DEFINE f == client[r].from  t == client[r].to
  <2>1. ASSUME NEW q \in Clients, client'[q].pc = "delete"
        PROVE  client[q].pc = "delete" /\ client'[q].from = client[q].from
    BY <1>8, <2>1 DEF InsertBridge, Done, Resting
  <2>2. ASSUME NEW q \in Clients, client[q].pc = "delete"
        PROVE  f # client[q].from /\ t # client[q].from
    BY <1>8, <2>2 DEF InsertBridge, Unlocked, Deleting
  <2>3. \A b \in bridges' : b \in bridges \/ (b[1] = f /\ b[2] = t)
    BY <1>8 DEF InsertBridge
  <2> QED BY <2>1, <2>2, <2>3
<1>9. ASSUME NEW b \in bridges, DeleteBridge(b) PROVE Counted'
  BY <1>9 DEF DeleteBridge
<1>10. CASE UNCHANGED vars
  BY <1>10 DEF vars
<1> QED BY <1>1, <1>2, <1>3, <1>4, <1>5, <1>6, <1>7, <1>8, <1>9, <1>10 DEF Next

LEMMA AttachStep == TypeOK /\ Asked /\ BridgesAttach /\ [Next]_vars => BridgesAttach'
<1> SUFFICES ASSUME TypeOK, Asked, BridgesAttach, [Next]_vars PROVE BridgesAttach'
  OBVIOUS
<1> USE DEF BridgesAttach, Endpoints, TypeOK
<1>1. ASSUME NEW c \in Channels, Create(c) PROVE BridgesAttach'
  BY <1>1 DEF Create
<1>2. ASSUME NEW r \in Clients, DeleteChannel(r) PROVE BridgesAttach'
  BY <1>2 DEF DeleteChannel
<1>3. ASSUME NEW r \in Clients, InsertBridge(r) PROVE BridgesAttach'
  <2>1. \/ /\ bridges' = bridges \union {<<client[r].from, client[r].to>>} /\ present' = present
           /\ client[r].from \in present /\ client[r].to \in present
        \/ bridges' = bridges /\ present' = present
    BY <1>3 DEF InsertBridge
  <2>2. client[r].from # client[r].to
        /\ (client[r].from \in Custom \/ client[r].to \in Custom)
    BY <1>3 DEF InsertBridge, Asked
  <2> QED BY <2>1, <2>2
<1>4. ASSUME NEW b \in bridges, DeleteBridge(b) PROVE BridgesAttach'
  BY <1>4 DEF DeleteBridge
<1>5. CASE UNCHANGED <<present, bridges>>
  BY <1>5
<1> QED BY <1>1, <1>2, <1>3, <1>4, <1>5
        DEF Next, LockChannel, CountBridges, BeginBridge, ReadPair, CheckReaches, vars

LEMMA GraphStart == Init => IInv
<1> SUFFICES ASSUME Init PROVE IInv
  OBVIOUS
<1>1. TypeOK
  BY DEF Init, TypeOK
<1>2. Asked /\ Counted /\ BridgesAttach
  BY DEF Init, Asked, Counted, BridgesAttach, Resting
<1> QED BY <1>1, <1>2 DEF IInv

LEMMA GraphStep == IInv /\ [Next]_vars => IInv'
BY TypeStep, AskedStep, CountedStep, AttachStep DEF IInv

LEMMA Inductive == Spec => []IInv
BY GraphStart, GraphStep, PTL DEF Spec

(* A bridge stands on two rows and attaches a custom channel, whatever was     *)
(* deleted between the reads of CreateBridge and its insert.                   *)
THEOREM BridgesStand == Spec => []BridgesAttach
<1>1. IInv => BridgesAttach
  BY DEF IInv
<1> QED BY <1>1, Inductive, PTL

(* Delete removes no bridge: FOR UPDATE keeps out what its count has not seen. *)
THEOREM DeleteIsSafe == Spec => DeleteLosesNothing
<1>1. IInv /\ [Next]_vars => (present' # present => bridges' = bridges) \/ UNCHANGED vars
  <2> SUFFICES ASSUME IInv, [Next]_vars, present' # present PROVE bridges' = bridges
    OBVIOUS
  <2>1. ASSUME NEW c \in Channels, Create(c) PROVE bridges' = bridges
    BY <2>1 DEF Create
  <2>2. ASSUME NEW r \in Clients, DeleteChannel(r) PROVE bridges' = bridges
    BY <2>2 DEF DeleteChannel, IInv, Counted
  <2> QED BY <2>1, <2>2 DEF Next, LockChannel, CountBridges, BeginBridge, ReadPair,
             CheckReaches, InsertBridge, DeleteBridge, vars
<1> QED BY <1>1, Inductive, PTL DEF Spec, DeleteLosesNothing

(* Neither a delete under way nor a channel deleted in between costs a bridge.  *)
THEOREM BridgesAreKept == Spec => BridgesKept
BY BridgesStand, DeleteIsSafe DEF BridgesKept

-------------------------------------------------------------------------------
(* Walk needs paths after all.  Each round of its recursion holds the paths of   *)
(* as many bridges (PathsFollow, by the first round that would not): one leaves  *)
(* no closed set, so what a walk finds is reached; and whatever a way of at most *)
(* as many bridges comes to, a path comes to: where the way leads to a channel   *)
(* the path has been to, the path's own beginning leads there (PathLeadsOn).     *)

\* The walk's recursion.
Extend(P) ==
  {Append(q[1], q[2]) : q \in {q \in P \X Channels :
     /\ <<q[1][Len(q[1])], q[2]>> \in bridges
     /\ q[2] \notin Range(q[1])}}
Trails(p, c, n) == p = [d \in 0..n |-> IF d = 0 THEN {<<c>>} ELSE Extend(p[d - 1])]

LEMMA TrailsRun ==
  ASSUME NEW c, NEW n \in Nat
  PROVE  \E p : Trails(p, c, n)
<1> DEFINE Runs(m) == \E p : Trails(p, c, m)
           Bad == {m \in 0..n : ~ Runs(m)}
<1>1. Runs(0)
  <2> DEFINE p == [d \in 0..0 |-> {<<c>>}]
  <2>1. Trails(p, c, 0)
    BY DEF Trails
  <2> QED
    BY <2>1
<1>2. SUFFICES Runs(n)
  OBVIOUS
<1> HIDE DEF Runs
<1>3. SUFFICES ASSUME Bad # {} PROVE FALSE
  OBVIOUS
<1>4. PICK m \in Bad : \A i \in Bad : m <= i
  <2>1. Bad \subseteq Nat
    OBVIOUS
  <2> HIDE DEF Bad
  <2> QED
    BY <1>3, <2>1, LeastNatural
<1>5. m \in 1..n /\ Runs(m - 1) /\ ~ Runs(m)
  BY <1>1, <1>4
<1> PICK p : Trails(p, c, m - 1)
  BY <1>5 DEF Runs
<1> DEFINE more == [d \in 0..m |-> IF d = m THEN Extend(p[m - 1]) ELSE p[d]]
<1>6. Trails(more, c, m)
  <2>1. p = [d \in 0..(m - 1) |-> IF d = 0 THEN {<<c>>} ELSE Extend(p[d - 1])]
    BY DEF Trails
  <2>2. ASSUME NEW d \in 0..m
        PROVE  more[d] = IF d = 0 THEN {<<c>>} ELSE Extend(more[d - 1])
    <3>0. more[m] = Extend(p[m - 1]) /\ \A j \in 0..(m - 1) : more[j] = p[j]
      BY <1>5
    <3> HIDE DEF more
    <3>1. CASE d = m
      BY <1>5, <3>0, <3>1
    <3>2. CASE d < m
      <4>1. d \in 0..(m - 1) /\ (d # 0 => d - 1 \in 0..(m - 1))
        BY <1>5, <3>2
      <4>2. p[d] = IF d = 0 THEN {<<c>>} ELSE Extend(p[d - 1])
        BY <2>1, <4>1
      <4> QED
        BY <3>0, <4>1, <4>2
    <3> QED
      BY <1>5, <3>1, <3>2
  <2>3. more = [d \in 0..m |-> more[d]]
    OBVIOUS
  <2> HIDE DEF more
  <2> QED
    BY <2>2, <2>3 DEF Trails
<1> QED
  BY <1>5, <1>6 DEF Runs

\* A path of d bridges, which enters no channel twice.
IsPath(q, c, d) ==
  /\ q \in Seq(Channels) /\ Len(q) = d + 1 /\ q[1] = c
  /\ \A i \in 1..d : <<q[i], q[i + 1]>> \in bridges
  /\ \A i, j \in 1..(d + 1) : q[i] = q[j] => i = j

\* A path goes on to any channel it has not been to ...
LEMMA PathOn ==
  ASSUME NEW c, NEW d \in Nat, NEW q, IsPath(q, c, d), NEW x \in Channels,
         <<q[Len(q)], x>> \in bridges, x \notin Range(q)
  PROVE  IsPath(Append(q, x), c, d + 1)
<1>1. q \in Seq(Channels) /\ Len(q) = d + 1 /\ DOMAIN q = 1..(d + 1) /\ q[1] = c
  BY DEF IsPath
<1> PICK p : p = Append(q, x)
  OBVIOUS
<1>2. /\ p \in Seq(Channels) /\ Len(p) = d + 2 /\ p[d + 2] = x
      /\ \A i \in 1..(d + 1) : p[i] = q[i]
  BY <1>1
<1>3. p[1] = c
  BY <1>1, <1>2
<1>4. ASSUME NEW i \in 1..(d + 1) PROVE <<p[i], p[i + 1]>> \in bridges
  <2>1. CASE i = d + 1
    BY <1>1, <1>2, <2>1
  <2>2. CASE i # d + 1
    <3>1. i \in 1..d /\ i + 1 \in 1..(d + 1)
      BY <2>2
    <3> QED
      BY <1>2, <3>1 DEF IsPath
  <2> QED
    BY <2>1, <2>2
<1>5. \A i \in 1..(d + 1) : p[i] # p[d + 2]
  BY <1>1, <1>2 DEF Range
<1>6. ASSUME NEW i \in 1..(d + 2), NEW j \in 1..(d + 2), p[i] = p[j] PROVE i = j
  <2>1. \A a, b \in 1..(d + 1) : p[a] = p[b] => a = b
    BY <1>2 DEF IsPath
  <2>2. CASE i = d + 2
    <3>1. ~ j \in 1..(d + 1)
      BY <1>5, <1>6, <2>2
    <3> QED
      BY <2>2, <3>1
  <2>3. CASE j = d + 2
    <3>1. ~ i \in 1..(d + 1)
      BY <1>5, <1>6, <2>3
    <3> QED
      BY <2>3, <3>1
  <2>4. CASE i # d + 2 /\ j # d + 2
    <3>1. i \in 1..(d + 1) /\ j \in 1..(d + 1)
      BY <2>4
    <3> QED
      BY <1>6, <2>1, <3>1
  <2> QED
    BY <2>2, <2>3, <2>4
<1>7. (d + 1) + 1 = d + 2
  OBVIOUS
<1> QED
  BY <1>2, <1>3, <1>4, <1>6, <1>7 DEF IsPath

\* ... and each of its beginnings is a path.
Begins(p, q, m) == \A i \in 1..(m + 1) : p[i] = q[i]

LEMMA PathBegins ==
  ASSUME NEW c, NEW d \in Nat, NEW q, IsPath(q, c, d), NEW m \in 0..d
  PROVE  \E p : IsPath(p, c, m) /\ Begins(p, q, m)
<1>1. q \in Seq(Channels) /\ Len(q) = d + 1 /\ DOMAIN q = 1..(d + 1) /\ q[1] = c
  BY DEF IsPath
<1> DEFINE p == [i \in 1..(m + 1) |-> q[i]]
<1>2. \A i \in 1..(m + 1) : i \in 1..(d + 1) /\ q[i] \in Channels
  BY <1>1
<1>3. p \in Seq(Channels) /\ Len(p) = m + 1 /\ \A i \in 1..(m + 1) : p[i] = q[i]
  BY <1>2
<1> HIDE DEF p
<1>4. \A i \in 1..m : <<p[i], p[i + 1]>> \in bridges
  <2> TAKE i \in 1..m
  <2>1. i \in 1..d /\ i \in 1..(m + 1) /\ i + 1 \in 1..(m + 1)
    OBVIOUS
  <2> QED
    BY <1>3, <2>1 DEF IsPath
<1>5. \A i, j \in 1..(m + 1) : p[i] = p[j] => i = j
  BY <1>2, <1>3 DEF IsPath
<1> QED
  BY <1>1, <1>3, <1>4, <1>5 DEF IsPath, Begins

LEMMA PathsFollow ==
  ASSUME NEW c \in Channels, NEW n \in Nat, NEW p, Trails(p, c, n)
  PROVE  \A d \in 0..n : \A q : q \in p[d] <=> IsPath(q, c, d)
<1> DEFINE Are(d) == \A q : q \in p[d] <=> IsPath(q, c, d)
           Bad == {d \in 0..n : ~ Are(d)}
<1>1. \A d \in 0..n : p[d] = IF d = 0 THEN {<<c>>} ELSE Extend(p[d - 1])
  BY DEF Trails
<1>2. Are(0)
  <2>1. p[0] = {<<c>>}
    BY <1>1
  <2>2. IsPath(<<c>>, c, 0)
    BY DEF IsPath
  <2>3. ASSUME NEW q, IsPath(q, c, 0) PROVE q = <<c>>
    <3>1. q \in Seq(Channels) /\ Len(q) = 1 /\ q[1] = c
      BY <2>3 DEF IsPath
    <3> QED
      BY <3>1
  <2> QED
    BY <2>1, <2>2, <2>3
<1>3. SUFFICES \A d \in 0..n : Are(d)
  OBVIOUS
<1> HIDE DEF Are
<1>4. SUFFICES ASSUME Bad # {} PROVE FALSE
  OBVIOUS
<1>5. PICK d \in Bad : \A i \in Bad : d <= i
  <2>1. Bad \subseteq Nat
    OBVIOUS
  <2> HIDE DEF Bad
  <2> QED
    BY <1>4, <2>1, LeastNatural
<1>6. d \in 1..n /\ Are(d - 1) /\ ~ Are(d)
  BY <1>2, <1>5
<1>7. p[d] = Extend(p[d - 1]) /\ d - 1 \in Nat
  BY <1>1, <1>6
<1>8. ASSUME NEW q \in p[d] PROVE IsPath(q, c, d)
  <2> PICK r \in p[d - 1], x \in Channels : /\ q = Append(r, x) /\ <<r[Len(r)], x>> \in bridges /\ x \notin Range(r)
    BY <1>7, <1>8 DEF Extend
  <2>1. IsPath(r, c, d - 1)
    BY <1>6 DEF Are
  <2>2. IsPath(Append(r, x), c, (d - 1) + 1)
    BY <1>7, <2>1, PathOn
  <2>3. (d - 1) + 1 = d
    BY <1>6
  <2> QED
    BY <2>2, <2>3
<1>9. ASSUME NEW q, IsPath(q, c, d) PROVE q \in p[d]
  <2>1. q \in Seq(Channels) /\ Len(q) = d + 1 /\ (\A i \in 1..d : <<q[i], q[i + 1]>> \in bridges)
        /\ \A i, j \in 1..(d + 1) : q[i] = q[j] => i = j
    BY <1>9 DEF IsPath
  <2>2. d \in Nat /\ d - 1 \in 0..d /\ (d - 1) + 1 = d /\ d \in 1..d
    BY <1>6
  <2> PICK m : m = d - 1
    OBVIOUS
  <2>9. m \in 0..d /\ m + 1 = d
    BY <2>2
  <2>10. \E r : IsPath(r, c, m) /\ Begins(r, q, m)
    BY ONLY <1>9, <2>2, <2>9, PathBegins
  <2>3. PICK r : IsPath(r, c, d - 1) /\ \A i \in 1..d : r[i] = q[i]
    BY <2>9, <2>10 DEF Begins
  <2>4. r \in Seq(Channels) /\ Len(r) = d /\ DOMAIN r = 1..d
    BY <2>2, <2>3 DEF IsPath
  <2> PICK x : x = q[d + 1]
    OBVIOUS
  <2>5. x \in Channels /\ <<r[Len(r)], x>> \in bridges
    BY <2>1, <2>2, <2>3, <2>4
  <2>6. x \notin Range(r)
    <3> SUFFICES ASSUME NEW i \in 1..d, r[i] = x PROVE FALSE
      BY <2>4 DEF Range
    <3>1. q[i] = q[d + 1] /\ i \in 1..(d + 1) /\ d + 1 \in 1..(d + 1) /\ i # d + 1
      BY <2>2, <2>3
    <3> QED
      BY <2>1, <3>1
  <2>7. q = Append(r, x)
    BY <2>1, <2>2, <2>3, <2>4
  <2>8. r \in p[d - 1]
    BY <1>6, <2>3 DEF Are
  <2> PICK t : t = <<r, x>>
    OBVIOUS
  <2>11. t \in p[d - 1] \X Channels /\ t[1] = r /\ t[2] = x
    BY <2>5, <2>8
  <2> QED
    BY <1>7, <2>5, <2>6, <2>7, <2>11 DEF Extend
<1> QED
  BY <1>6, <1>8, <1>9 DEF Are

LEMMA PathsAre ==
  ASSUME NEW c \in Channels
  PROVE  \A y : y \in Walk(c) <=> \E d \in 1..MaxWalkDepth : \E q : IsPath(q, c, d) /\ y = q[d + 1]
<1> DEFINE p == CHOOSE p : Trails(p, c, MaxWalkDepth)
<1>0. MaxWalkDepth \in Nat
  BY GraphAssumption
<1>1. Trails(p, c, MaxWalkDepth)
  BY <1>0, TrailsRun
<1>2. Paths(c) = UNION {p[d] : d \in 1..MaxWalkDepth}
  BY DEF Paths, Trails, Extend
<1> HIDE DEF p
<1>3. \A d \in 0..MaxWalkDepth : \A q : q \in p[d] <=> IsPath(q, c, d)
  BY ONLY <1>0, <1>1, c \in Channels, PathsFollow
<1>4. \A q : q \in Paths(c) <=> \E d \in 1..MaxWalkDepth : IsPath(q, c, d)
  BY <1>0, <1>2, <1>3
<1>5. \A q, d : IsPath(q, c, d) => Len(q) = d + 1
  BY DEF IsPath
<1> QED
  BY <1>4, <1>5 DEF Walk

\* A path leaves no closed set.
LEMMA PathsStay ==
  ASSUME NEW c, NEW d \in Nat, NEW q, IsPath(q, c, d), NEW S, c \in S, Closed(S, bridges)
  PROVE  q[d + 1] \in S
<1> DEFINE Bad == {i \in 1..(d + 1) : q[i] \notin S}
<1>1. SUFFICES ASSUME Bad # {} PROVE FALSE
  OBVIOUS
<1>2. PICK m \in Bad : \A i \in Bad : m <= i
  <2>1. Bad \subseteq Nat
    OBVIOUS
  <2> HIDE DEF Bad
  <2> QED
    BY <1>1, <2>1, LeastNatural
<1>3. m \in 1..(d + 1) /\ q[m] \notin S
  BY <1>2
<1>4. m # 1
  BY <1>3 DEF IsPath
<1>5. m - 1 \in 1..d /\ (m - 1) + 1 = m /\ q[m - 1] \in S
  BY <1>2, <1>3, <1>4
<1>6. <<q[m - 1], q[m]>> \in bridges
  <2>1. <<q[m - 1], q[(m - 1) + 1]>> \in bridges
    BY <1>5 DEF IsPath
  <2> QED
    BY <1>5, <2>1
<1> QED
  BY <1>3, <1>5, <1>6 DEF Closed

\* Where a bridge leads on from the end of a path, a path leads, no longer than both.
LEMMA PathLeadsOn ==
  ASSUME NEW c, NEW d \in Nat, NEW q, IsPath(q, c, d), NEW y \in Channels,
         <<q[d + 1], y>> \in bridges
  PROVE  \E m \in 0..(d + 1) : \E p : IsPath(p, c, m) /\ p[m + 1] = y
<1>1. q \in Seq(Channels) /\ Len(q) = d + 1 /\ DOMAIN q = 1..(d + 1) /\ q[1] = c
  BY DEF IsPath
<1>2. CASE y \in Range(q)
  <2> PICK i \in 1..(d + 1) : q[i] = y
    BY <1>1, <1>2 DEF Range
  <2> PICK m : m = i - 1
    OBVIOUS
  <2>1. m \in 0..d /\ m + 1 = i /\ m \in 0..(d + 1)
    OBVIOUS
  <2>2. PICK p : IsPath(p, c, m) /\ Begins(p, q, m)
    BY ONLY IsPath(q, c, d), d \in Nat, <2>1, PathBegins
  <2>3. p[m + 1] = y
    BY <2>1, <2>2 DEF Begins
  <2> QED
    BY <2>1, <2>2, <2>3
<1>3. CASE y \notin Range(q)
  <2>1. IsPath(Append(q, y), c, d + 1)
    BY <1>1, <1>3, PathOn
  <2>2. Append(q, y)[(d + 1) + 1] = y /\ d + 1 \in 0..(d + 1)
    BY <1>1
  <2> QED
    BY <2>1, <2>2
<1> QED
  BY <1>2, <1>3

\* The walk finds what is near, and only that: a way that passes a channel twice is no
\* shorter than one that does not.
LEMMA WalksFind ==
  ASSUME bridges \subseteq Channels \X Channels, NEW c \in Channels, NEW y \in Channels
  PROVE  y \in Walk(c) <=> y # c /\ Near(c, y)
<1>0. MaxWalkDepth \in Nat
  BY GraphAssumption
<1>1. ASSUME y \in Walk(c) PROVE y # c /\ Near(c, y)
  <2>1. PICK d \in 1..MaxWalkDepth : \E q : IsPath(q, c, d) /\ y = q[d + 1]
    BY <1>1, PathsAre
  <2> PICK q : IsPath(q, c, d) /\ y = q[d + 1]
    BY <2>1
  <2>2. /\ d \in Nat /\ d >= 1 /\ q \in Seq(Channels) /\ Len(q) = d + 1 /\ q[1] = c
        /\ \A i \in 1..d : <<q[i], q[i + 1]>> \in bridges
        /\ \A i, j \in 1..(d + 1) : q[i] = q[j] => i = j
    BY <1>0 DEF IsPath
  <2>3. y # c
    <3>1. 1 \in 1..(d + 1) /\ d + 1 \in 1..(d + 1) /\ 1 # d + 1
      BY <2>2
    <3> QED
      BY <2>2, <3>1
  <2> DEFINE way == [i \in 0..d |-> q[i + 1]]
  <2>4. way \in [0..d -> Channels] /\ way[0] = c /\ way[d] = y
    <3>1. \A i \in 0..d : i + 1 \in 1..Len(q)
      BY <2>2
    <3>2. \A i \in 0..d : q[i + 1] \in Channels
      BY <2>2, <3>1
    <3> QED
      BY <2>2, <3>2
  <2>5. \A i \in 1..d : <<way[i - 1], way[i]>> \in bridges
    <3> TAKE i \in 1..d
    <3>1. way[i - 1] = q[i] /\ way[i] = q[i + 1]
      BY <2>2
    <3> QED
      BY <2>2, <3>1
  <2> HIDE DEF way
  <2> QED
    BY <2>3, <2>4, <2>5 DEF Near
<1>2. ASSUME y # c, Near(c, y) PROVE y \in Walk(c)
  <2> PICK d \in 1..MaxWalkDepth : \E way \in [0..d -> Channels] :
        /\ way[0] = c /\ way[d] = y
        /\ \A i \in 1..d : <<way[i - 1], way[i]>> \in bridges
    BY <1>2 DEF Near
  <2> PICK way \in [0..d -> Channels] :
        /\ way[0] = c /\ way[d] = y
        /\ \A i \in 1..d : <<way[i - 1], way[i]>> \in bridges
    OBVIOUS
  <2> DEFINE Comes(i) == \E m \in 0..i : \E p : IsPath(p, c, m) /\ p[m + 1] = way[i]
  <2>1. d \in Nat /\ d \in 0..d
    BY <1>0
  <2>2. Comes(0)
    <3>1. IsPath(<<c>>, c, 0) /\ <<c>>[0 + 1] = c
      BY DEF IsPath
    <3> QED
      BY <3>1
  <2>3. ASSUME NEW i \in 1..d, Comes(i - 1) PROVE Comes(i)
    <3> PICK m \in 0..(i - 1) : \E p : IsPath(p, c, m) /\ p[m + 1] = way[i - 1]
      BY <2>3
    <3> PICK p : IsPath(p, c, m) /\ p[m + 1] = way[i - 1]
      OBVIOUS
    <3>1. <<p[m + 1], way[i]>> \in bridges /\ way[i] \in Channels /\ m \in Nat
      BY <2>1
    <3>2. \E n \in 0..(m + 1) : \E r : IsPath(r, c, n) /\ r[n + 1] = way[i]
      BY <3>1, PathLeadsOn
    <3>3. 0..(m + 1) \subseteq 0..i
      BY <2>1
    <3> QED
      BY <3>2, <3>3
  <2>4. Comes(d)
    <3> DEFINE Bad == {i \in 0..d : ~ Comes(i)}
    <3> HIDE DEF Comes
    <3>1. SUFFICES ASSUME Bad # {} PROVE FALSE
      BY <2>1
    <3>2. PICK i \in Bad : \A j \in Bad : i <= j
      <4>1. Bad \subseteq Nat
        OBVIOUS
      <4> HIDE DEF Bad
      <4> QED
        BY <3>1, <4>1, LeastNatural
    <3>3. i \in 1..d /\ Comes(i - 1) /\ ~ Comes(i)
      BY <2>1, <2>2, <3>2
    <3> QED
      BY <2>3, <3>3
  <2>8. PICK m \in 0..d : \E p : IsPath(p, c, m) /\ p[m + 1] = y
    BY <2>4
  <2>5. PICK p : IsPath(p, c, m) /\ p[m + 1] = y
    BY <2>8
  <2>6. m # 0
    BY <1>2, <2>5 DEF IsPath
  <2>7. m \in 1..MaxWalkDepth
    BY <1>0, <2>6
  <2> QED
    BY <2>5, <2>7, PathsAre
<1> QED
  BY <1>1, <1>2

LEMMA WalksReach == TypeOK => WalkAgrees
<1> SUFFICES ASSUME TypeOK, NEW c \in present
             PROVE  /\ \A x \in present : x \in Walk(c) <=> c \in ReachingInto(x) \ {x} /\ Near(c, x)
                    /\ Closed({c} \union Walk(c), bridges) => Walk(c) = {x \in Channels : Reaches(c, x)}
  BY DEF WalkAgrees
<1>1. present \subseteq Channels /\ bridges \subseteq Channels \X Channels /\ c \in Channels
  BY DEF TypeOK
<1>2. ASSUME NEW y \in Walk(c) PROVE y \in Channels /\ Reaches(c, y)
  <2>1. PICK d \in 1..MaxWalkDepth : \E q : IsPath(q, c, d) /\ y = q[d + 1]
    BY <1>1, <1>2, PathsAre
  <2> PICK q : IsPath(q, c, d) /\ y = q[d + 1]
    BY <2>1
  <2>2. d \in Nat /\ d >= 1 /\ q \in Seq(Channels) /\ Len(q) = d + 1 /\ q[1] = c
    BY <2>1, GraphAssumption DEF IsPath
  <2>3. y \in Channels
    <3>1. d + 1 \in 1..Len(q) /\ \A i \in 1..Len(q) : q[i] \in Channels
      BY <2>2
    <3> QED
      BY <3>1
  <2>4. c # y
    <3>1. 1 \in 1..(d + 1) /\ d + 1 \in 1..(d + 1) /\ 1 # d + 1
      BY <2>2
    <3>2. \A i, j \in 1..(d + 1) : q[i] = q[j] => i = j
      BY DEF IsPath
    <3> QED
      BY <2>2, <3>1, <3>2
  <2>5. \A S \in SUBSET Channels : c \in S /\ Closed(S, bridges) => y \in S
    <3> TAKE S \in SUBSET Channels
    <3> HAVE c \in S /\ Closed(S, bridges)
    <3>1. q[d + 1] \in S
      BY <2>1, <2>2, PathsStay
    <3> QED
      BY <2>1, <3>1
  <2> QED
    BY <2>3, <2>4, <2>5 DEF Reaches, ReachesIn
<1>3. ASSUME NEW x \in present PROVE x \in Walk(c) <=> c \in ReachingInto(x) \ {x} /\ Near(c, x)
  <2>1. x \in Walk(c) <=> x # c /\ Near(c, x)
    BY <1>1, WalksFind
  <2>2. x \in Walk(c) => c \in ReachingInto(x)
    BY <1>2 DEF ReachingInto
  <2> QED
    BY <2>1, <2>2
<1>4. ASSUME Closed({c} \union Walk(c), bridges) PROVE Walk(c) = {x \in Channels : Reaches(c, x)}
  <2>1. {c} \union Walk(c) \in SUBSET Channels
    BY <1>1, <1>2
  <2>2. ASSUME NEW y \in Channels, Reaches(c, y) PROVE y \in Walk(c)
    BY <1>4, <2>1, <2>2 DEF Reaches, ReachesIn
  <2> QED
    BY <1>2, <2>2
<1> QED
  BY <1>3, <1>4

-------------------------------------------------------------------------------
(* Unless another request inserts in between, the answer of the cycle test is   *)
(* still true when the bridge is inserted: bridges can only have gone.         *)

Checked == \A r \in Clients :
  client[r].pc = "insert" => ~Reaches(client[r].to, client[r].from)

LoopFree == overlapped \/ (NoLoop /\ Checked)

LEMMA LoopFreeStep == IInv /\ LoopFree /\ [Next]_vars => LoopFree'
<1> SUFFICES ASSUME IInv, LoopFree, [Next]_vars, ~overlapped' PROVE (NoLoop /\ Checked)'
  BY DEF LoopFree
<1> USE DEF Reaches
<1>0. NoLoop /\ Checked
  BY DEF LoopFree, Next, vars, Create, LockChannel, CountBridges, DeleteChannel, BeginBridge,
         ReadPair, CheckReaches, InsertBridge, DeleteBridge
<1>1. bridges \subseteq Channels \X Channels /\ \A b \in bridges : b[1] # b[2]
  BY DEF IInv, TypeOK, BridgesAttach
<1>2. \A b \in bridges : ~ReachesIn(bridges, b[2], b[1])
  BY <1>0 DEF NoLoop
<1>3. TypeOK
  BY DEF IInv
<1>4. ASSUME bridges' \subseteq bridges PROVE NoLoop'
  <2> SUFFICES ASSUME NEW b \in bridges' PROVE ~ReachesIn(bridges', b[2], b[1])
    BY DEF NoLoop
  <2> QED BY <1>1, <1>2, <1>4, FewerBridges
<1>5. ASSUME bridges' \subseteq bridges,
             \A r \in Clients : client'[r].pc = "insert" =>
               client'[r].from # client'[r].to
               /\ ~ReachesIn(bridges, client'[r].to, client'[r].from)
      PROVE  Checked'
  <2> SUFFICES ASSUME NEW r \in Clients, client'[r].pc = "insert"
               PROVE  ~ReachesIn(bridges', client'[r].to, client'[r].from)
    BY DEF Checked
  <2> QED BY <1>5, FewerBridges
<1>6. \A r \in Clients : client[r].pc = "insert" =>
        client[r].from # client[r].to
        /\ ~ReachesIn(bridges, client[r].to, client[r].from)
  BY <1>0 DEF IInv, Asked, Checked
<1>7. \A r \in Clients : client[r].pc = "reaches" => client[r].from # client[r].to
  BY DEF IInv, Asked
<1>8. ASSUME NEW c \in Channels, Create(c) PROVE (NoLoop /\ Checked)'
  BY <1>4, <1>5, <1>6, <1>8 DEF Create
<1>9. ASSUME NEW r \in Clients, NEW c \in Channels, LockChannel(r, c)
      PROVE (NoLoop /\ Checked)'
  <2>1. \A q \in Clients : client'[q].pc = "insert" => client'[q] = client[q]
    BY <1>3, <1>9 DEF LockChannel, TypeOK
  <2> QED BY <1>4, <1>5, <1>6, <1>9, <2>1 DEF LockChannel
<1>10. ASSUME NEW r \in Clients, CountBridges(r) PROVE (NoLoop /\ Checked)'
  <2>1. \A q \in Clients : client'[q].pc = "insert" => client'[q] = client[q]
    BY <1>3, <1>10 DEF CountBridges, Done, Goto, Resting, TypeOK
  <2> QED BY <1>4, <1>5, <1>6, <1>10, <2>1 DEF CountBridges
<1>11. ASSUME NEW r \in Clients, DeleteChannel(r) PROVE (NoLoop /\ Checked)'
  <2>1. \A q \in Clients : client'[q].pc = "insert" => client'[q] = client[q]
    BY <1>3, <1>11 DEF DeleteChannel, Done, Resting, TypeOK
  <2> QED BY <1>4, <1>5, <1>6, <1>11, <2>1 DEF DeleteChannel
<1>12. ASSUME NEW r \in Clients, NEW f \in Channels, NEW t \in Channels, BeginBridge(r, f, t)
       PROVE (NoLoop /\ Checked)'
  <2>1. \A q \in Clients : client'[q].pc = "insert" => client'[q] = client[q]
    BY <1>3, <1>12 DEF BeginBridge, TypeOK
  <2> QED BY <1>4, <1>5, <1>6, <1>12, <2>1 DEF BeginBridge
<1>13. ASSUME NEW r \in Clients, ReadPair(r) PROVE (NoLoop /\ Checked)'
  <2>1. \A q \in Clients : client'[q].pc = "insert" => client'[q] = client[q]
    BY <1>3, <1>13 DEF ReadPair, Done, Goto, Resting, TypeOK
  <2> QED BY <1>4, <1>5, <1>6, <1>13, <2>1 DEF ReadPair
<1>14. ASSUME NEW r \in Clients, CheckReaches(r) PROVE (NoLoop /\ Checked)'
  <2>1. bridges' = bridges
    BY <1>14 DEF CheckReaches
  <2>2. CASE ClosesLoop(client[r].from, client[r].to)
    <3>1. \A q \in Clients : client'[q].pc = "insert" => client'[q] = client[q]
      BY <1>3, <1>14, <2>2 DEF CheckReaches, Done, Resting, TypeOK
    <3> QED BY <1>4, <1>5, <1>6, <2>1, <3>1
  <2>3. CASE ~ClosesLoop(client[r].from, client[r].to)
    <3>1. client[r].pc = "reaches" /\ ~ReachesIn(bridges, client[r].to, client[r].from)
      BY <1>14, <2>3 DEF CheckReaches, ClosesLoop
    <3>2. client' = [client EXCEPT ![r].pc = "insert"]
      BY <1>14, <2>3 DEF CheckReaches, Goto
    <3>3. \A q \in Clients : client'[q].from = client[q].from /\ client'[q].to = client[q].to
                             /\ (q # r => client'[q].pc = client[q].pc)
      BY <1>3, <3>2 DEF TypeOK
    <3> QED BY <1>4, <1>5, <1>6, <1>7, <2>1, <3>1, <3>3
  <2> QED BY <2>2, <2>3
<1>15. ASSUME NEW r \in Clients, InsertBridge(r) PROVE (NoLoop /\ Checked)'
  <2> DEFINE f == client[r].from  t == client[r].to
  <2>1. f # t /\ ~ReachesIn(bridges, t, f)
    BY <1>6, <1>15 DEF InsertBridge
  <2>2. bridges' = bridges \/ bridges' = bridges \union {<<f, t>>}
    BY <1>15 DEF InsertBridge
  <2>3. f \in Channels /\ t \in Channels
    BY <1>3, <1>15 DEF InsertBridge, TypeOK, Resting
  <2>4. NoLoop'
    <3>1. CASE bridges' = bridges
      BY <1>4, <3>1
    <3>2. CASE bridges' = bridges \union {<<f, t>>}
      <4>1. \A b \in bridges \union {<<f, t>>} :
              ~ReachesIn(bridges \union {<<f, t>>}, b[2], b[1])
        BY <1>1, <1>2, <2>1, <2>3, NoLoopClosed
      <4> QED BY <3>2, <4>1 DEF NoLoop
    <3> QED BY <2>2, <3>1, <3>2
  <2>5. Checked'
    \* Nobody else was about to insert, and r is done.
    <3>1. \A q \in Clients \ {r} : client[q].pc # "insert" /\ client'[q] = client[q]
      BY <1>3, <1>15 DEF InsertBridge, Overlaps, Done, TypeOK
    <3>2. client'[r].pc = "idle"
      BY <1>3, <1>15 DEF InsertBridge, Done, Resting, TypeOK
    <3> QED BY <3>1, <3>2 DEF Checked
  <2> QED BY <2>4, <2>5
<1>16. ASSUME NEW b \in bridges, DeleteBridge(b) PROVE (NoLoop /\ Checked)'
  BY <1>4, <1>5, <1>6, <1>16 DEF DeleteBridge
<1>17. CASE UNCHANGED vars
  BY <1>4, <1>5, <1>6, <1>17 DEF vars
<1> QED BY <1>8, <1>9, <1>10, <1>11, <1>12, <1>13, <1>14, <1>15, <1>16, <1>17 DEF Next

(* A loop of bridges takes two requests that are both between test and insert: *)
(* no sequence of other steps, of any number of requests over any channels,    *)
(* closes one.                                                                 *)
THEOREM LoopsTakeOverlap == Spec => []Acyclic
<1>1. Init => LoopFree
  BY DEF Init, LoopFree, NoLoop, Checked, Resting
<1>2. LoopFree => Acyclic
  BY DEF LoopFree, Acyclic
<1> QED BY <1>1, <1>2, LoopFreeStep, Inductive, PTL DEF Spec


(***************************************************************************)
(* The rows of resource_groups.                                            *)
(***************************************************************************)
Chore ==
  [pc : {"free", "own", "nested", "delete", "release", "drop", "attach", "adopt", "detach"},
   on : SUBSET Owned, nested : SUBSET Ends, unreached : SUBSET Grouping, group : SUBSET Owners]

\* A request is about one channel or bridge; what step it is at tells which of the two.
Fitting(chore) ==
  /\ chore.pc # "free" => \E x \in Owned : chore.on = {x}
  /\ chore.pc = "free" => chore = Free
  /\ chore.pc \in {"nested", "delete", "release"} => chore.on \subseteq Grouping
  /\ chore.pc \in {"attach", "adopt", "detach"} => chore.on \subseteq Edges

DeskTyped ==
  /\ made \in [Owned -> {"new", "made", "gone"}]
  /\ owner \in [Owned -> SUBSET Owners]
  /\ desk \in [Desks -> Chore]
  /\ \A d \in Desks : Fitting(desk[d])
  /\ excused \subseteq Owned

\* The ends of a bridge that was ever made were there.
EndsLaid == \A b \in Edges :
  made[b] # "new" => \A e \in {From[b], To[b]} \cap Grouping : made[e] # "new"

\* What a request is about has been made by the time it writes a row, and has gone by the time it
\* removes one; a channel it has found without bridges has none, or one that came since.
Warranted(chore) ==
  /\ chore.pc \in {"own", "adopt"} => \A x \in chore.on : made[x] # "new"
  /\ chore.pc \in {"release", "drop"} => \A x \in chore.on : made[x] = "gone"
  /\ \A c \in (chore.nested \cap Grouping) \cup chore.unreached : made[c] # "new"
  /\ \A c \in chore.unreached : Into(c) = {} \/ c \in excused

Leaving(chore, x) == chore.on = {x} /\ chore.pc \in {"release", "drop"}

\* A row without its channel or bridge is one that the request which removed it has still to remove.
RowsTended == \A x \in Owned :
  owner[x] # {} => made[x] = "made" \/ x \in excused \/ \E d \in Desks : Leaving(desk[d], x)

OwnersInv == DeskTyped /\ EndsLaid /\ RowsTended /\ \A d \in Desks : Warranted(desk[d])

\* A step of one request preserves the invariant if it does nothing to the channels and bridges
\* but make the new and remove the made, and tends to its own rows.
DeskStepOf(d, chore) ==
  /\ made' \in [Owned -> {"new", "made", "gone"}]
  /\ owner' \in [Owned -> SUBSET Owners]
  /\ chore \in Chore /\ Fitting(chore)
  /\ desk' = [desk EXCEPT ![d] = chore]
  /\ excused \subseteq excused' /\ excused' \subseteq Owned
  /\ \A x \in Owned : (made[x] # "new" => made'[x] # "new") /\ (made[x] = "gone" => made'[x] = "gone")
  /\ \A b \in Edges : made[b] = "new" /\ made'[b] # "new" =>
       \A e \in {From[b], To[b]} \cap Grouping : made[e] # "new"
  /\ \A b \in Edges : made[b] # "made" /\ made'[b] = "made" =>
       \A p \in Desks : To[b] \in desk[p].unreached => To[b] \in excused'
  /\ \A x \in Owned : owner'[x] # {} =>
       \/ made'[x] = "made" \/ x \in excused' \/ Leaving(chore, x)
       \/ owner[x] # {} /\ made'[x] = made[x] /\ ~Leaving(desk[d], x)

LEMMA DeskStepHolds ==
  ASSUME OwnersInv, NEW d \in Desks, NEW chore, DeskStepOf(d, chore), Warranted(chore)'
  PROVE  OwnersInv'
<1>0. DeskTyped /\ EndsLaid /\ RowsTended /\ \A p \in Desks : Warranted(desk[p])
  BY DEF OwnersInv
<1>1. desk'[d] = chore /\ \A p \in Desks \ {d} : desk'[p] = desk[p]
  BY <1>0 DEF DeskTyped, DeskStepOf
<1>2. DeskTyped'
  <2>1. desk' \in [Desks -> Chore]
    BY <1>0 DEF DeskTyped, DeskStepOf
  <2>2. \A p \in Desks : Fitting(desk'[p])
    BY <1>0, <1>1 DEF DeskTyped, DeskStepOf
  <2>. QED BY <2>1, <2>2 DEF DeskTyped, DeskStepOf
<1>3. EndsLaid'
  <2>1. SUFFICES ASSUME NEW b \in Edges, made'[b] # "new",
                        NEW e \in {From[b], To[b]} \cap Grouping
                 PROVE  made'[e] # "new"
    BY DEF EndsLaid
  <2>2. made[e] # "new"
    BY <2>1, <1>0 DEF EndsLaid, DeskStepOf
  <2>. QED BY <2>2 DEF DeskStepOf, Owned
<1>4. \A p \in Desks : Warranted(desk[p])'
  <2>1. SUFFICES ASSUME NEW p \in Desks PROVE Warranted(desk[p])'
    OBVIOUS
  <2>2. CASE p = d
    BY <2>2, <1>1
  <2>3. CASE p # d
    <3>1. PICK other : other = desk[p]
      OBVIOUS
    <3>2. other \in Chore /\ desk'[p] = other /\ Warranted(other)
      BY <2>3, <3>1, <1>0, <1>1 DEF DeskTyped
    <3>3. \A x \in other.on : x \in Owned
      BY <3>2 DEF Chore
    <3>4. other.pc \in {"own", "adopt"} => \A x \in other.on : made'[x] # "new"
      BY <3>2, <3>3 DEF DeskStepOf, Warranted
    <3>5. other.pc \in {"release", "drop"} => \A x \in other.on : made'[x] = "gone"
      BY <3>2, <3>3 DEF DeskStepOf, Warranted
    <3>6. \A c \in (other.nested \cap Grouping) \cup other.unreached : c \in Owned
      BY <3>2 DEF Chore, Owned
    <3>7. \A c \in (other.nested \cap Grouping) \cup other.unreached : made'[c] # "new"
      BY <3>2, <3>6 DEF DeskStepOf, Warranted
    <3>8. ASSUME NEW c \in other.unreached, c \notin excused' PROVE Into(c)' = {}
      <4>1. Into(c) = {} /\ c \in desk[p].unreached
        BY <3>1, <3>2, <3>8 DEF Warranted, DeskStepOf
      <4>2. \A b \in Edges : To[b] = c => made[b] # "made"
        BY <4>1 DEF Into
      <4>3. \A b \in Edges : To[b] = c => made'[b] # "made"
        BY <3>8, <4>1, <4>2 DEF DeskStepOf
      <4>. QED BY <4>3 DEF Into
    <3>9. Warranted(other)'
      BY <3>4, <3>5, <3>7, <3>8 DEF Warranted
    <3>. QED BY <3>2, <3>9
  <2>. QED BY <2>2, <2>3
<1>5. RowsTended'
  <2>1. SUFFICES ASSUME NEW x \in Owned, owner'[x] # {}, made'[x] # "made", x \notin excused'
                 PROVE  \E p \in Desks : Leaving(desk'[p], x)
    BY DEF RowsTended
  <2>2. CASE Leaving(chore, x)
    BY <2>2, <1>1
  <2>3. CASE owner[x] # {} /\ made'[x] = made[x] /\ ~Leaving(desk[d], x)
    <3>1. x \notin excused
      BY <2>1 DEF DeskStepOf
    <3>2. PICK p \in Desks : Leaving(desk[p], x)
      BY <2>1, <2>3, <3>1, <1>0 DEF RowsTended
    <3>3. desk'[p] = desk[p]
      BY <2>3, <3>2, <1>1
    <3>. QED BY <3>2, <3>3
  <2>. QED BY <2>1, <2>2, <2>3 DEF DeskStepOf
<1>. QED BY <1>2, <1>3, <1>4, <1>5 DEF OwnersInv

\* A step of one request that changes nothing else.
LEMMA ChoreMoves ==
  ASSUME OwnersInv, NEW d \in Desks, NEW chore \in Chore, Fitting(chore), Warranted(chore),
         desk' = [desk EXCEPT ![d] = chore], UNCHANGED <<made, owner, excused>>,
         \A x \in Owned : Leaving(desk[d], x) => Leaving(chore, x)
  PROVE  OwnersInv'
<1>1. DeskStepOf(d, chore)
  BY DEF OwnersInv, DeskTyped, DeskStepOf
<1>2. Warranted(chore)'
  BY DEF Warranted, Into
<1>. QED BY <1>1, <1>2, DeskStepHolds

LEMMA FreeChore == Free \in Chore /\ Fitting(Free) /\ Warranted(Free) /\ Warranted(Free)'
BY DEF Free, Chore, Fitting, Warranted

\* A request that is over, and one that begins.
LEMMA ReplyHolds ==
  ASSUME OwnersInv, NEW d \in Desks, Reply(d), desk[d].pc \notin {"release", "drop"},
         UNCHANGED <<made, owner, excused>>
  PROVE  OwnersInv'
<1>1. \A x \in Owned : ~ Leaving(desk[d], x)
  BY DEF Leaving
<1>. QED BY <1>1, FreeChore, ChoreMoves DEF Reply

LEMMA StartMakes ==
  ASSUME OwnersInv, NEW d \in Desks, NEW pc, NEW x \in Owned, NEW group \in SUBSET Owners,
         pc \in {"own", "nested", "attach", "detach"}, pc = "nested" => x \in Grouping,
         pc \in {"attach", "detach"} => x \in Edges, StartFor(d, pc, x, group)
  PROVE  \E chore \in Chore :
           /\ Fitting(chore) /\ desk' = [desk EXCEPT ![d] = chore] /\ desk[d].pc = "free"
           /\ chore.pc = pc /\ chore.on = {x} /\ chore.nested = {} /\ chore.unreached = {}
           /\ chore.group = group
<1>1. PICK chore : chore = [Free EXCEPT !.pc = pc, !.on = {x}, !.group = group]
  OBVIOUS
<1>2. /\ chore.pc = pc /\ chore.on = {x} /\ chore.nested = {} /\ chore.unreached = {}
      /\ chore.group = group /\ chore \in Chore
  BY <1>1 DEF Free, Chore
<1>3. Fitting(chore)
  BY <1>2 DEF Fitting
<1>4. desk' = [desk EXCEPT ![d] = chore] /\ desk[d].pc = "free"
  BY <1>1 DEF StartFor, Is
<1>. QED BY <1>2, <1>3, <1>4

LEMMA OnHolds ==
  ASSUME OwnersInv, NEW d \in Desks, desk[d].pc # "free"
  PROVE  On(d) \in Owned /\ desk[d].on = {On(d)}
BY DEF OwnersInv, DeskTyped, Fitting, On

LEMMA BeginHolds ==
  ASSUME OwnersInv, NEW d \in Desks
  PROVE  /\ \A c \in Grouping : BeginDelete(d, c) => OwnersInv'
         /\ \A b \in Edges : BeginAttach(d, b) \/ BeginDetach(d, b) => OwnersInv'
<1>1. ASSUME NEW pc \in {"nested", "attach", "detach"}, NEW x \in Owned, Start(d, pc, x),
             pc = "nested" => x \in Grouping, pc \in {"attach", "detach"} => x \in Edges,
             UNCHANGED <<made, owner, excused>>
      PROVE  OwnersInv'
  <2>1. {} \in SUBSET Owners /\ StartFor(d, pc, x, {})
    BY <1>1 DEF Start
  <2>2. PICK chore \in Chore :
          /\ Fitting(chore) /\ desk' = [desk EXCEPT ![d] = chore] /\ desk[d].pc = "free"
          /\ chore.pc = pc /\ chore.on = {x} /\ chore.nested = {} /\ chore.unreached = {}
          /\ chore.group = {}
    <3>. PICK group : group = {}
      OBVIOUS
    <3>1. /\ pc \in {"own", "nested", "attach", "detach"} /\ d \in Desks /\ OwnersInv
          /\ (pc = "nested" => x \in Grouping) /\ (pc \in {"attach", "detach"} => x \in Edges) /\ x \in Owned
          /\ group \in SUBSET Owners /\ StartFor(d, pc, x, group)
      BY <1>1, <2>1
    <3>2. \E chore \in Chore :
            /\ Fitting(chore) /\ desk' = [desk EXCEPT ![d] = chore] /\ desk[d].pc = "free"
            /\ chore.pc = pc /\ chore.on = {x} /\ chore.nested = {} /\ chore.unreached = {}
            /\ chore.group = group
      BY ONLY <3>1, StartMakes
    <3>. QED BY <3>2
  <2>3. Warranted(chore)
    BY <2>2, <1>1 DEF Warranted
  <2>4. \A y \in Owned : ~ Leaving(desk[d], y)
    BY <2>2 DEF Leaving
  <2>. QED BY <1>1, <2>2, <2>3, <2>4, ChoreMoves
<1>2. ASSUME NEW c \in Grouping, BeginDelete(d, c) PROVE OwnersInv'
  BY <1>1, <1>2 DEF BeginDelete, Owned
<1>3. ASSUME NEW b \in Edges, BeginAttach(d, b) \/ BeginDetach(d, b) PROVE OwnersInv'
  BY <1>1, <1>3 DEF BeginAttach, BeginDetach, Owned
<1>. QED BY <1>2, <1>3

LEMMA CreateHolds ==
  ASSUME OwnersInv, NEW d \in Desks, NEW c \in Grouping, NEW h \in Owners, CreateCustom(d, c, h)
  PROVE  OwnersInv'
<1>0. DeskTyped /\ EndsLaid /\ RowsTended /\ \A p \in Desks : Warranted(desk[p])
  BY DEF OwnersInv
<1>1. /\ StartFor(d, "own", c, {h}) /\ made' = [made EXCEPT ![c] = "made"] /\ made[c] = "new"
      /\ UNCHANGED <<owner, excused>>
  BY DEF CreateCustom
<1>2. c \in Owned /\ c \notin Edges /\ {h} \in SUBSET Owners
  BY DeskAssumption DEF Owned
<1>3. PICK chore \in Chore :
        /\ Fitting(chore) /\ desk' = [desk EXCEPT ![d] = chore] /\ desk[d].pc = "free"
        /\ chore.pc = "own" /\ chore.on = {c} /\ chore.nested = {} /\ chore.unreached = {}
        /\ chore.group = {h}
  BY <1>1, <1>2, StartMakes
<1>4. /\ made' \in [Owned -> {"new", "made", "gone"}] /\ made'[c] = "made"
      /\ \A x \in Owned \ {c} : made'[x] = made[x]
  BY <1>0, <1>1, <1>2 DEF DeskTyped
<1>5. \A b \in Edges : b \in Owned /\ made'[b] = made[b]
  BY <1>2, <1>4 DEF Owned
<1>6. \A x \in Owned : ~ Leaving(desk[d], x)
  BY <1>3 DEF Leaving
<1>7. DeskStepOf(d, chore)
  BY <1>0, <1>1, <1>3, <1>4, <1>5, <1>6 DEF DeskStepOf, DeskTyped
<1>8. Warranted(chore)'
  BY <1>3, <1>4 DEF Warranted
<1>. QED BY <1>7, <1>8, DeskStepHolds

LEMMA OwnHolds ==
  ASSUME OwnersInv, NEW d \in Desks, Own(d)
  PROVE  OwnersInv'
<1>0. DeskTyped /\ EndsLaid /\ RowsTended /\ \A p \in Desks : Warranted(desk[p])
  BY DEF OwnersInv
<1>1. desk[d].pc = "own" /\ Reply(d) /\ UNCHANGED made
  BY DEF Own, Is
<1>2. PICK x \in Owned : x = On(d) /\ desk[d].on = {x} /\ made[x] # "new"
  BY <1>0, <1>1, OnHolds DEF Warranted
<1>3. CASE UNCHANGED <<owner, excused>>
  BY <1>1, <1>3, ReplyHolds
<1>4. CASE owner' = [owner EXCEPT ![x] = desk[d].group]
           /\ excused' = IF made[x] = "gone" THEN excused \cup {x} ELSE excused
  <2>1. desk[d].group \in SUBSET Owners
    BY <1>0 DEF DeskTyped, Chore
  <2>2. owner' \in [Owned -> SUBSET Owners] /\ \A y \in Owned \ {x} : owner'[y] = owner[y]
    BY <1>0, <1>4, <2>1 DEF DeskTyped
  <2>3. made[x] = "made" \/ x \in excused'
    BY <1>0, <1>2, <1>4 DEF DeskTyped
  <2>4. excused \subseteq excused' /\ excused' \subseteq Owned
    BY <1>0, <1>4 DEF DeskTyped
  <2>5. \A y \in Owned : ~ Leaving(desk[d], y)
    BY <1>1 DEF Leaving
  <2>6. DeskStepOf(d, Free)
    BY <1>0, <1>1, <2>2, <2>3, <2>4, <2>5, FreeChore DEF DeskStepOf, DeskTyped, Reply
  <2>. QED BY <2>6, FreeChore, DeskStepHolds
<1>. QED BY <1>2, <1>3, <1>4 DEF Own

LEMMA ReadNestedHolds ==
  ASSUME OwnersInv, NEW d \in Desks, ReadNested(d)
  PROVE  OwnersInv'
<1>0. DeskTyped /\ EndsLaid /\ Warranted(desk[d])
  BY DEF OwnersInv
<1>1. PICK old \in Chore : old = desk[d] /\ old.pc = "nested" /\ Fitting(old) /\ Warranted(old)
  BY <1>0 DEF DeskTyped, ReadNested, Is
<1>2. PICK read : read = {From[b] : b \in Into(On(d))}
  OBVIOUS
<1>3. PICK chore : /\ desk' = [desk EXCEPT ![d] = chore]
                   /\ \/ chore = [old EXCEPT !.pc = "delete", !.nested = read]
                      \/ chore = [old EXCEPT !.pc = "delete"]
  BY <1>1, <1>2, Zenon DEF ReadNested, Become
<1>4. read \subseteq Ends /\ \A c \in read \cap Grouping : made[c] # "new"
  <2>1. \A b \in Edges : From[b] \in Ends
    BY DeskAssumption
  <2>2. \A b \in Into(On(d)) : b \in Edges /\ made[b] = "made"
    BY DEF Into
  <2>3. \A b \in Into(On(d)) : From[b] \in Grouping => made[From[b]] # "new"
    BY <2>2, <1>0 DEF EndsLaid
  <2>. QED BY <1>2, <2>1, <2>2, <2>3
<1>5. /\ chore \in Chore /\ chore.pc = "delete" /\ chore.on = old.on
      /\ chore.nested \in {read, old.nested} /\ chore.unreached = old.unreached
  <2>1. CASE chore = [old EXCEPT !.pc = "delete", !.nested = read]
    <3>1. chore \in Chore
      BY ONLY old \in Chore, <1>4, <2>1 DEF Chore
    <3>2. chore.pc = "delete" /\ chore.on = old.on /\ chore.nested = read /\ chore.unreached = old.unreached
      BY ONLY old \in Chore, <2>1 DEF Chore
    <3>. QED BY <3>1, <3>2
  <2>2. CASE chore = [old EXCEPT !.pc = "delete"]
    BY ONLY old \in Chore, <2>2 DEF Chore
  <2>. QED BY <1>3, <1>4, <2>1, <2>2
<1>6. Fitting(chore)
  BY <1>1, <1>5 DEF Fitting
<1>7. Warranted(chore)
  BY <1>1, <1>4, <1>5 DEF Warranted
<1>8. UNCHANGED <<made, owner, excused>>
  BY DEF ReadNested
<1>9. \A x \in Owned : ~ Leaving(desk[d], x)
  BY <1>1 DEF Leaving
<1>. QED BY <1>3, <1>5, <1>6, <1>7, <1>8, <1>9, ChoreMoves

LEMMA DeleteHolds ==
  ASSUME OwnersInv, NEW d \in Desks, DeleteCustom(d)
  PROVE  OwnersInv'
<1>0. DeskTyped /\ EndsLaid /\ Warranted(desk[d])
  BY DEF OwnersInv
<1>1. PICK old \in Chore : old = desk[d] /\ old.pc = "delete" /\ Fitting(old) /\ Warranted(old)
  BY <1>0 DEF DeskTyped, DeleteCustom, Is
<1>2. PICK x \in Owned : x = On(d) /\ old.on = {x}
  BY <1>1, OnHolds
<1>3. CASE Reply(d) /\ UNCHANGED made
  BY <1>1, <1>3, ReplyHolds DEF DeleteCustom
<1>4. CASE made' = [made EXCEPT ![x] = "gone"] /\ made[x] = "made" /\ Become(d, "release")
  <2>1. PICK chore : chore = [old EXCEPT !.pc = "release"]
    OBVIOUS
  <2>2. desk' = [desk EXCEPT ![d] = chore]
    BY <1>1, <1>4, <2>1 DEF Become
  <2>3. /\ chore \in Chore /\ chore.pc = "release" /\ chore.on = {x}
        /\ chore.nested = old.nested /\ chore.unreached = old.unreached
    BY <1>1, <1>2, <2>1 DEF Chore
  <2>4. x \in Grouping /\ x \notin Edges
    BY <1>1, <1>2, DeskAssumption DEF Fitting
  <2>5. Fitting(chore)
    BY <2>3, <2>4 DEF Fitting
  <2>6. /\ made' \in [Owned -> {"new", "made", "gone"}] /\ made'[x] = "gone"
        /\ \A y \in Owned \ {x} : made'[y] = made[y]
    BY <1>0, <1>4 DEF DeskTyped
  <2>7. \A b \in Edges : b \in Owned /\ made'[b] = made[b]
    BY <2>4, <2>6 DEF Owned
  <2>8. UNCHANGED <<owner, excused>> /\ \A y \in Owned : ~ Leaving(desk[d], y)
    BY <1>1 DEF DeleteCustom, Leaving
  <2>9. Leaving(chore, x)
    BY <2>3 DEF Leaving
  <2>10. DeskStepOf(d, chore)
    BY <1>0, <1>4, <2>2, <2>3, <2>5, <2>6, <2>7, <2>8, <2>9 DEF DeskStepOf, DeskTyped
  <2>11. \A c \in old.nested \cap Grouping : c \in Owned
    BY DEF Owned
  <2>12. \A c \in old.unreached : c \in Owned /\ c \in Grouping
    BY DEF Owned, Chore
  <2>13. Warranted(chore)'
    BY <1>1, <2>3, <2>6, <2>7, <2>8, <2>11, <2>12 DEF Warranted, Into
  <2>. QED BY <2>10, <2>13, DeskStepHolds
<1>. QED BY <1>1, <1>2, <1>3, <1>4 DEF DeleteCustom

LEMMA CheckNestedHolds ==
  ASSUME OwnersInv, NEW d \in Desks, NEW c \in Ends, CheckNested(d, c)
  PROVE  OwnersInv'
<1>0. DeskTyped /\ EndsLaid /\ Warranted(desk[d])
  BY DEF OwnersInv
<1>1. PICK old \in Chore : old = desk[d] /\ old.pc = "release" /\ Fitting(old) /\ Warranted(old)
                           /\ c \in old.nested
  BY <1>0 DEF DeskTyped, CheckNested, Is
<1>2. PICK found : found = IF c \in Grouping /\ Reached(c) = {} /\ CallerGroup(d) # {} THEN {c} ELSE {}
  OBVIOUS
<1>3. PICK chore : chore = [old EXCEPT !.nested = old.nested \ {c}, !.unreached = found]
  OBVIOUS
<1>4. desk' = [desk EXCEPT ![d] = chore] /\ UNCHANGED <<made, owner, excused>>
  <2>1. desk' = [desk EXCEPT ![d] = [old EXCEPT !.nested = old.nested \ {c}, !.unreached = found]]
    BY <1>1, <1>2, Zenon DEF CheckNested
  <2>2. UNCHANGED <<made, owner, excused>>
    BY DEF CheckNested
  <2>. QED BY <1>3, <2>1, <2>2, Zenon
<1>5. found \subseteq Grouping /\ \A e \in found : e = c /\ Into(e) = {}
  BY <1>2 DEF Reached
<1>6. /\ chore \in Chore /\ chore.pc = "release" /\ chore.on = old.on
      /\ chore.nested = old.nested \ {c} /\ chore.unreached = found
  BY <1>1, <1>3, <1>5 DEF Chore
<1>7. Fitting(chore)
  BY <1>1, <1>6 DEF Fitting
<1>8. Warranted(chore)
  BY <1>1, <1>5, <1>6 DEF Warranted
<1>9. \A x \in Owned : Leaving(desk[d], x) => Leaving(chore, x)
  BY <1>1, <1>6 DEF Leaving
<1>. QED BY <1>4, <1>6, <1>7, <1>8, <1>9, ChoreMoves

LEMMA RehomeHolds ==
  ASSUME OwnersInv, NEW d \in Desks, NEW c \in Ends, Rehome(d, c)
  PROVE  OwnersInv'
<1>0. DeskTyped /\ EndsLaid /\ Warranted(desk[d])
  BY DEF OwnersInv
<1>1. PICK old \in Chore : old = desk[d] /\ Fitting(old) /\ Warranted(old) /\ c \in old.unreached
  BY <1>0 DEF DeskTyped, Rehome
<1>2. PICK chore : chore = [old EXCEPT !.unreached = {}]
  OBVIOUS
<1>3. desk' = [desk EXCEPT ![d] = chore] /\ UNCHANGED made
  BY <1>1, <1>2 DEF Rehome
<1>4. /\ chore \in Chore /\ chore.pc = old.pc /\ chore.on = old.on
      /\ chore.nested = old.nested /\ chore.unreached = {}
  BY <1>1, <1>2 DEF Chore
<1>5. old.pc # "free"
  BY <1>1 DEF Fitting, Free
<1>6. Fitting(chore)
  BY <1>1, <1>4, <1>5 DEF Fitting
<1>7. Warranted(chore)
  BY <1>1, <1>4 DEF Warranted
<1>8. \A x \in Owned : Leaving(desk[d], x) <=> Leaving(chore, x)
  BY <1>1, <1>4 DEF Leaving
<1>9. CASE UNCHANGED <<owner, excused>>
  BY <1>3, <1>4, <1>6, <1>7, <1>8, <1>9, ChoreMoves
<1>10. CASE owner' = [owner EXCEPT ![c] = CallerGroup(d)]
            /\ excused' = IF made[c] = "gone" THEN excused \cup {c} ELSE excused
  <2>1. c \in Owned /\ made[c] # "new"
    BY <1>1 DEF Chore, Owned, Warranted
  <2>2. CallerGroup(d) \in SUBSET Owners
    BY DeskAssumption DEF CallerGroup
  <2>3. owner' \in [Owned -> SUBSET Owners] /\ \A y \in Owned \ {c} : owner'[y] = owner[y]
    BY <1>0, <1>10, <2>2 DEF DeskTyped
  <2>4. made[c] = "made" \/ c \in excused'
    BY <1>0, <1>10, <2>1 DEF DeskTyped
  <2>5. excused \subseteq excused' /\ excused' \subseteq Owned
    BY <1>0, <1>10, <2>1 DEF DeskTyped
  <2>6. DeskStepOf(d, chore)
    BY <1>0, <1>3, <1>4, <1>6, <1>8, <2>3, <2>4, <2>5 DEF DeskStepOf, DeskTyped
  <2>7. Warranted(chore)'
    BY <1>3, <1>4, <1>7 DEF Warranted
  <2>. QED BY <2>6, <2>7, DeskStepHolds
<1>. QED BY <1>9, <1>10 DEF Rehome

LEMMA DropHolds ==
  ASSUME OwnersInv, NEW d \in Desks, Drop(d)
  PROVE  OwnersInv'
<1>0. DeskTyped /\ EndsLaid /\ Warranted(desk[d])
  BY DEF OwnersInv
<1>1. desk[d].pc \in {"release", "drop"} /\ Reply(d) /\ UNCHANGED made
  BY DEF Drop, Is
<1>2. PICK x \in Owned : x = On(d) /\ desk[d].on = {x}
  BY <1>1, OnHolds
<1>3. \A y \in Owned \ {x} : ~ Leaving(desk[d], y)
  BY <1>2 DEF Leaving
<1>4. CASE owner' = [owner EXCEPT ![x] = {}] /\ UNCHANGED excused
  <2>1. owner' \in [Owned -> SUBSET Owners] /\ owner'[x] = {}
        /\ \A y \in Owned \ {x} : owner'[y] = owner[y]
    BY <1>0, <1>4 DEF DeskTyped
  <2>2. DeskStepOf(d, Free)
    BY <1>0, <1>1, <1>3, <1>4, <2>1, FreeChore DEF DeskStepOf, DeskTyped, Reply
  <2>. QED BY <2>2, FreeChore, DeskStepHolds
<1>5. CASE excused' = excused \cup {x} /\ UNCHANGED owner
  <2>1. DeskStepOf(d, Free)
    BY <1>0, <1>1, <1>3, <1>5, FreeChore DEF DeskStepOf, DeskTyped, Reply
  <2>. QED BY <2>1, FreeChore, DeskStepHolds
<1>. QED BY <1>2, <1>4, <1>5 DEF Drop, RowDropped

LEMMA AttachHolds ==
  ASSUME OwnersInv, NEW d \in Desks, Attach(d)
  PROVE  OwnersInv'
<1>0. DeskTyped /\ EndsLaid /\ Warranted(desk[d])
  BY DEF OwnersInv
<1>1. PICK old \in Chore : old = desk[d] /\ old.pc = "attach" /\ Fitting(old) /\ Warranted(old)
  BY <1>0 DEF DeskTyped, Attach, Is
<1>2. PICK b \in Edges : b = On(d) /\ old.on = {b} /\ b \in Owned /\ b \notin Grouping
  BY <1>1, OnHolds, DeskAssumption DEF Fitting
<1>3. CASE Reply(d) /\ UNCHANGED <<made, excused>>
  BY <1>1, <1>3, ReplyHolds DEF Attach
<1>4. CASE /\ There(From[b]) /\ There(To[b]) /\ made[b] = "new"
           /\ made' = [made EXCEPT ![b] = "made"]
           /\ excused' = excused \cup {c \in {To[b]} : \E q \in Desks : c \in desk[q].unreached}
           /\ Become(d, "adopt")
  <2>1. PICK chore : chore = [old EXCEPT !.pc = "adopt"]
    OBVIOUS
  <2>2. desk' = [desk EXCEPT ![d] = chore]
    BY <1>1, <1>4, <2>1 DEF Become
  <2>3. /\ chore \in Chore /\ chore.pc = "adopt" /\ chore.on = {b}
        /\ chore.nested = old.nested /\ chore.unreached = old.unreached
    BY <1>1, <1>2, <2>1 DEF Chore
  <2>4. Fitting(chore)
    BY <1>2, <2>3 DEF Fitting
  <2>5. /\ made' \in [Owned -> {"new", "made", "gone"}] /\ made'[b] = "made"
        /\ \A x \in Owned \ {b} : made'[x] = made[x]
    BY <1>0, <1>2, <1>4 DEF DeskTyped
  <2>6. \A p \in Desks : desk[p].unreached \subseteq Grouping
    BY <1>0 DEF DeskTyped, Chore
  <2>7. \A p \in Desks : To[b] \in desk[p].unreached => To[b] \in excused'
    BY <1>4
  <2>8. excused \subseteq excused' /\ excused' \subseteq Owned
    BY <1>0, <1>4, <2>6 DEF DeskTyped, Owned
  <2>9. UNCHANGED owner /\ \A x \in Owned : ~ Leaving(desk[d], x)
    BY <1>1 DEF Attach, Leaving
  <2>10. \A e \in {From[b], To[b]} \cap Grouping : made[e] # "new"
    <3>1. \A c \in Grouping : There(c) => made[c] = "made"
      BY DeskAssumption DEF There
    <3>. QED BY <1>4, <3>1
  <2>11. \A x \in Edges : x \in Owned
    BY DEF Owned
  <2>12. DeskStepOf(d, chore)
    BY <1>0, <1>4, <2>2, <2>3, <2>4, <2>5, <2>7, <2>8, <2>9, <2>10, <2>11 DEF DeskStepOf, DeskTyped
  <2>13. \A c \in old.unreached : c \in Owned /\ c # b /\ (To[b] = c => c \in excused')
    BY <1>1, <1>2, <2>6, <2>7 DEF Owned
  <2>14. \A c \in old.nested \cap Grouping : c \in Owned /\ c # b
    BY <1>2 DEF Owned
  <2>15. ASSUME NEW c \in old.unreached, c \notin excused' PROVE Into(c)' = {}
    <3>1. Into(c) = {} /\ To[b] # c
      BY <1>1, <2>8, <2>13, <2>15 DEF Warranted
    <3>2. \A x \in Edges : To[x] = c => made'[x] # "made"
      BY <3>1, <2>5, <2>11 DEF Into
    <3>. QED BY <3>2 DEF Into
  <2>16. Warranted(chore)'
    BY <1>1, <2>3, <2>5, <2>13, <2>14, <2>15 DEF Warranted
  <2>. QED BY <2>12, <2>16, DeskStepHolds
<1>. QED BY <1>1, <1>2, <1>3, <1>4 DEF Attach

LEMMA AdoptHolds ==
  ASSUME OwnersInv, NEW d \in Desks, ReadAdoption(d)
  PROVE  OwnersInv'
<1>0. DeskTyped /\ EndsLaid /\ Warranted(desk[d])
  BY DEF OwnersInv
<1>1. PICK old \in Chore : old = desk[d] /\ old.pc = "adopt" /\ Fitting(old) /\ Warranted(old)
  BY <1>0 DEF DeskTyped, ReadAdoption, Is
<1>2. UNCHANGED <<made, owner, excused>> /\ On(d) \in Edges
  BY <1>1, OnHolds DEF ReadAdoption, Fitting
<1>3. CASE Reply(d)
  BY <1>1, <1>2, <1>3, ReplyHolds
<1>4. CASE ~ Reply(d)
  <2>1. PICK found : found = IF To[On(d)] \in Grouping THEN owner[To[On(d)]] ELSE {}
    OBVIOUS
  <2>2. PICK given : given = IF found = {} THEN CallerGroup(d) ELSE found
    OBVIOUS
  <2>3. PICK chore : chore = [old EXCEPT !.pc = "own", !.group = given]
    OBVIOUS
  <2>4. desk' = [desk EXCEPT ![d] = [old EXCEPT !.pc = "own", !.group = given]]
    BY <1>1, <1>4, <2>1, <2>2, Zenon DEF ReadAdoption
  <2>5. desk' = [desk EXCEPT ![d] = chore]
    BY <2>3, <2>4, Zenon
  <2>6. given \in SUBSET Owners
    <3>1. CallerGroup(d) \in SUBSET Owners
      BY DeskAssumption DEF CallerGroup
    <3>2. found \in SUBSET Owners
      BY <2>1, <1>0 DEF DeskTyped, Owned
    <3>. QED BY <2>2, <3>1, <3>2
  <2>7. /\ chore \in Chore /\ chore.pc = "own" /\ chore.on = old.on
        /\ chore.nested = old.nested /\ chore.unreached = old.unreached
    BY <1>1, <2>3, <2>6 DEF Chore
  <2>8. Fitting(chore)
    BY <1>1, <2>7 DEF Fitting
  <2>9. Warranted(chore)
    BY <1>1, <2>7 DEF Warranted
  <2>10. \A x \in Owned : ~ Leaving(desk[d], x)
    BY <1>1 DEF Leaving
  <2>. QED BY <1>2, <2>5, <2>7, <2>8, <2>9, <2>10, ChoreMoves
<1>. QED BY <1>3, <1>4

LEMMA DetachHolds ==
  ASSUME OwnersInv, NEW d \in Desks, Detach(d)
  PROVE  OwnersInv'
<1>0. DeskTyped /\ EndsLaid /\ Warranted(desk[d])
  BY DEF OwnersInv
<1>1. PICK old \in Chore : old = desk[d] /\ old.pc = "detach" /\ Fitting(old) /\ Warranted(old)
  BY <1>0 DEF DeskTyped, Detach, Is
<1>2. PICK b \in Edges : b = On(d) /\ old.on = {b} /\ b \in Owned /\ b \notin Grouping
  BY <1>1, OnHolds, DeskAssumption DEF Fitting
<1>3. CASE Reply(d) /\ UNCHANGED made
  BY <1>1, <1>3, ReplyHolds DEF Detach
<1>4. CASE made[b] = "made" /\ made' = [made EXCEPT ![b] = "gone"] /\ Become(d, "drop")
  <2>1. PICK chore : chore = [old EXCEPT !.pc = "drop"]
    OBVIOUS
  <2>2. desk' = [desk EXCEPT ![d] = chore]
    BY <1>1, <1>4, <2>1 DEF Become
  <2>3. /\ chore \in Chore /\ chore.pc = "drop" /\ chore.on = {b}
        /\ chore.nested = old.nested /\ chore.unreached = old.unreached
    BY <1>1, <1>2, <2>1 DEF Chore
  <2>4. Fitting(chore) /\ Leaving(chore, b)
    BY <1>2, <2>3 DEF Fitting, Leaving
  <2>5. /\ made' \in [Owned -> {"new", "made", "gone"}] /\ made'[b] = "gone"
        /\ \A x \in Owned \ {b} : made'[x] = made[x]
    BY <1>0, <1>2, <1>4 DEF DeskTyped
  <2>6. UNCHANGED <<owner, excused>> /\ \A x \in Owned : ~ Leaving(desk[d], x)
    BY <1>1 DEF Detach, Leaving
  <2>7. \A x \in Edges : x \in Owned
    BY DEF Owned
  <2>8. DeskStepOf(d, chore)
    BY <1>0, <1>4, <2>2, <2>3, <2>4, <2>5, <2>6, <2>7 DEF DeskStepOf, DeskTyped
  <2>9. \A c \in (old.nested \cap Grouping) \cup old.unreached : c \in Owned /\ c # b
    BY <1>2 DEF Chore, Owned
  <2>10. \A c \in old.unreached : Into(c) = {} => Into(c)' = {}
    <3>1. \A x \in Edges : made'[x] = "made" => made[x] = "made"
      BY <2>5, <2>7
    <3>. QED BY <3>1 DEF Into
  <2>11. Warranted(chore)'
    BY <1>1, <2>3, <2>5, <2>6, <2>9, <2>10 DEF Warranted
  <2>. QED BY <2>8, <2>11, DeskStepHolds
<1>. QED BY <1>1, <1>2, <1>3, <1>4 DEF Detach

LEMMA OwnersStep == OwnersInv /\ [DeskNext]_deskVars => OwnersInv'
<1>. SUFFICES ASSUME OwnersInv, [DeskNext]_deskVars PROVE OwnersInv'
  OBVIOUS
<1>1. ASSUME UNCHANGED deskVars PROVE OwnersInv'
  BY <1>1 DEF deskVars, OwnersInv, DeskTyped, EndsLaid, RowsTended, Warranted, Into
<1>2. ASSUME NEW d \in Desks,
             \E c \in Grouping : BeginDelete(d, c) \/ \E h \in Owners : CreateCustom(d, c, h)
      PROVE  OwnersInv'
  BY <1>2, BeginHolds, CreateHolds
<1>3. ASSUME NEW d \in Desks, \E b \in Edges : BeginAttach(d, b) \/ BeginDetach(d, b)
      PROVE  OwnersInv'
  BY <1>3, BeginHolds
<1>4. ASSUME NEW d \in Desks, \E c \in Ends : CheckNested(d, c) \/ Rehome(d, c)
      PROVE  OwnersInv'
  BY <1>4, CheckNestedHolds, RehomeHolds
<1>5. ASSUME NEW d \in Desks,
             \/ Own(d) \/ ReadNested(d) \/ DeleteCustom(d) \/ Drop(d)
             \/ Attach(d) \/ ReadAdoption(d) \/ Detach(d)
      PROVE  OwnersInv'
  BY <1>5, OwnHolds, ReadNestedHolds, DeleteHolds, DropHolds, AttachHolds, AdoptHolds, DetachHolds
<1>. QED BY <1>1, <1>2, <1>3, <1>4, <1>5 DEF DeskNext

LEMMA OwnersStart == DeskInit => OwnersInv
<1>. SUFFICES ASSUME DeskInit PROVE OwnersInv
  OBVIOUS
<1>1. made \in [Owned -> {"new", "made"}] /\ owner \in [Owned -> SUBSET Owners] /\ EndsLaid
  <2>1. made \in {m \in [Owned -> {"new", "made"}] : \A b \in Edges :
                    m[b] = "made" => \A e \in {From[b], To[b]} \cap Grouping : m[e] = "made"}
    BY DEF DeskInit
  <2>2. /\ made \in [Owned -> {"new", "made"}]
        /\ \A b \in Edges : made[b] = "made" => \A e \in {From[b], To[b]} \cap Grouping : made[e] = "made"
    BY <2>1
  <2>3. \A b \in Edges : b \in Owned
    BY DEF Owned
  <2>4. EndsLaid
    BY <2>2, <2>3 DEF EndsLaid
  <2>5. owner \in [Owned -> {{}} \cup {{h} : h \in Owners}]
    BY DEF DeskInit
  <2>6. {{}} \cup {{h} : h \in Owners} \subseteq SUBSET Owners
    OBVIOUS
  <2>7. owner \in [Owned -> SUBSET Owners]
    BY <2>5, <2>6
  <2>. QED BY <2>2, <2>4, <2>7
<1>2. \A d \in Desks : desk[d] = Free
  BY DEF DeskInit
<1>3. desk \in [Desks -> Chore]
  BY FreeChore DEF DeskInit
<1>4. DeskTyped
  BY <1>1, <1>2, <1>3, FreeChore DEF DeskTyped, DeskInit
<1>5. RowsTended
  BY <1>1 DEF DeskInit, RowsTended
<1>. QED BY <1>1, <1>2, <1>4, <1>5, FreeChore DEF OwnersInv

(* A row that stands without its channel or bridge is one a request is about   *)
(* to remove.                                                                  *)
LEMMA RowsAreTended == OwnersInv => \A x \in Owned : RowStands(x)
BY DEF OwnersInv, RowsTended, RowStands, Leaving

(* The writers of a row are its creation, an adoption and a re-homing, which   *)
(* has found no bridge.                                                        *)
LEMMA FedStay ==
  ASSUME OwnersInv, DeskNext, NEW c \in Grouping, owner[c] # {}, owner'[c] \notin {{}, owner[c]}
  PROVE  Into(c) = {} \/ c \in excused \/ \E d \in Desks : Is(d, "own") /\ desk[d].on = {c}
<1>0. DeskTyped /\ c \in Owned /\ \A d \in Desks : Warranted(desk[d])
  BY DEF OwnersInv, Owned
<1>1. ASSUME NEW d \in Desks, Own(d)
      PROVE  Is(d, "own") /\ desk[d].on = {c}
  <2>1. Is(d, "own") /\ desk[d].on = {On(d)} /\ On(d) \in Owned
    BY <1>1, OnHolds DEF Own, Is
  <2>2. owner' = [owner EXCEPT ![On(d)] = desk[d].group] \/ owner' = owner
    BY <1>1 DEF Own
  <2>3. c = On(d)
    BY <2>1, <2>2, <1>0 DEF DeskTyped
  <2>. QED BY <2>1, <2>3
<1>2. ASSUME NEW d \in Desks, NEW e \in Ends, Rehome(d, e)
      PROVE  Into(c) = {} \/ c \in excused
  <2>1. owner' = [owner EXCEPT ![e] = CallerGroup(d)] \/ owner' = owner
    BY <1>2 DEF Rehome
  <2>2. e = c
    BY <2>1, <1>0 DEF DeskTyped
  <2>. QED BY <2>2, <1>0, <1>2 DEF Rehome, Warranted
<1>3. ASSUME NEW d \in Desks, Drop(d) PROVE FALSE
  <2>1. owner' = [owner EXCEPT ![On(d)] = {}] \/ owner' = owner
    BY <1>3 DEF Drop, RowDropped
  <2>. QED BY <2>1, <1>0 DEF DeskTyped
<1>4. owner' # owner
  OBVIOUS
<1>5. ASSUME NEW d \in Desks
      PROVE  /\ \A e \in Grouping : ~ BeginDelete(d, e) /\ \A h \in Owners : ~ CreateCustom(d, e, h)
             /\ \A b \in Edges : ~ BeginAttach(d, b) /\ ~ BeginDetach(d, b)
  BY <1>4 DEF BeginDelete, CreateCustom, BeginAttach, BeginDetach
<1>6. ASSUME NEW d \in Desks
      PROVE  ~ ReadNested(d) /\ ~ DeleteCustom(d) /\ ~ Attach(d) /\ ~ ReadAdoption(d) /\ ~ Detach(d)
  BY <1>4, Zenon DEF ReadNested, DeleteCustom, Attach, ReadAdoption, Detach
<1>7. ASSUME NEW d \in Desks, NEW e \in Ends PROVE ~ CheckNested(d, e)
  BY <1>4, Zenon DEF CheckNested
<1>. QED BY <1>1, <1>2, <1>3, <1>5, <1>6, <1>7 DEF DeskNext

(* For any channels, bridges, groups and requests under way: no row of a group *)
(* is left without its channel or bridge, and deleting a channel takes none    *)
(* away from its group that another bridge still feeds (handleDeleteChannel,   *)
(* releaseNestedChannels), but for the overlaps on record.                     *)
THEOREM OwnersAreHeld == DeskSpec => OwnersHold
<1>1. DeskInit => OwnersInv
  BY OwnersStart
<1>2. OwnersInv /\ [DeskNext]_deskVars => OwnersInv'
  BY OwnersStep
<1>3. OwnersInv => \A x \in Owned : RowStands(x)
  BY RowsAreTended
<1>4. OwnersInv /\ [DeskNext]_deskVars =>
        [\A c \in Grouping : owner[c] # {} /\ owner'[c] \notin {{}, owner[c]} =>
           Into(c) = {} \/ c \in excused \/ \E d \in Desks : Is(d, "own") /\ desk[d].on = {c}]_deskVars
  BY FedStay
<1>. QED BY <1>1, <1>2, <1>3, <1>4, PTL DEF DeskSpec, OwnersHold, MovesUnreached

(***************************************************************************)
(* What a page shows.                                                      *)
(***************************************************************************)
AnyFact == Facts \union ({"gone"} \X PageChannels)

PageShape ==
  page \in [step : {"none", "first", "rows", "ids", "triggers", "bridges", "ends", "shown", "told"},
            op : {"none", "list", "one", "edges"}, of : SUBSET PageChannels,
            todo : SUBSET (PageChannels \union KindsOfPages), rows : SUBSET PageChannels,
            ids : SUBSET PageChannels, edges : SUBSET EdgesIn(Facts),
            shown : SUBSET PageChannels, blind : BOOLEAN]

PageTyped ==
  /\ PageShape
  /\ world \subseteq AnyFact /\ stood \subseteq AnyFact /\ been \subseteq AnyFact

\* The step tells which page it is.
PageFits ==
  /\ page.step = "first" => page.op = "one"
  /\ page.step = "rows" => page.op \in {"list", "one"}
  /\ page.step \in {"ids", "triggers", "bridges", "told"} => page.op # "none"
  /\ page.step = "ends" => page.op = "edges"
  /\ page.step = "shown" => page.op \in {"list", "edges"}
  /\ page.step \notin {"shown", "told"} => page.shown = {}
  /\ \A c, d \in page.of : c = d

\* What there is lies between what stood and what has been.
Between == page.step # "none" => stood \subseteq world /\ world \subseteq been

\* What has been read of the channels, their ids and the edges lies between the two as well.
OneStays ==
  page.op = "one" /\ page.step \notin {"none", "first"} => page.of \ Bundles \subseteq RowsIn(world)

IdsTrue == page.step \in {"triggers", "bridges", "ends", "shown", "told"} =>
  /\ RowsIn(stood) \ Bundles \subseteq page.ids /\ page.ids \subseteq RowsIn(been)
  /\ page.op = "one" => page.of \ Bundles \subseteq page.ids

EdgesTrue ==
  /\ page.step = "bridges" => /\ {x \in stood : x[1] = "trigger"} \subseteq page.edges
                              /\ page.edges \subseteq EdgesIn(been)
  /\ page.step \in {"ends", "shown", "told"} => /\ EdgesIn(stood) \subseteq page.edges
                                                /\ page.edges \subseteq EdgesIn(been)

RowsTrue ==
  /\ page.step # "none" => page.rows \subseteq RowsIn(been)
  /\ page.op = "list" /\ page.step \notin {"none", "rows"} => RowsIn(stood) \subseteq page.rows
  /\ page.step \in {"ends", "shown", "told"} /\ page.op = "edges" /\ ~ page.blind =>
       \A c \in RowsIn(stood) : (\E x \in page.edges : Attached(x, c)) =>
         c \in page.rows \/ (page.step = "ends" /\ c \in page.todo)

ShownTrue ==
  /\ page.step # "none" => page.shown \subseteq page.rows \intersect SeenIn(been)
  /\ page.step \in {"shown", "told"} /\ page.op # "one" /\ ~ page.blind =>
       \A kind \in KindsOfPages : (page.step = "told" \/ kind \notin page.todo) =>
         kind \intersect page.rows \intersect SeenIn(stood) \subseteq page.shown

PagesInv ==
  PageTyped /\ PageFits /\ Between /\ OneStays /\ IdsTrue /\ EdgesTrue /\ RowsTrue /\ ShownTrue

\* The parts of what there is grow with it.
LEMMA PartsGrow ==
  ASSUME NEW v, NEW w, v \subseteq w
  PROVE  RowsIn(v) \subseteq RowsIn(w) /\ SeenIn(v) \subseteq SeenIn(w) /\ EdgesIn(v) \subseteq EdgesIn(w)
BY DEF RowsIn, SeenIn, EdgesIn

\* Edges, and their ends.
LEMMA EdgeFacts ==
  /\ \A x \in AnyFact : x[1] \in {"trigger", "bridge"} => x \in EdgesIn(Facts)
  /\ \A x \in EdgesIn(Facts) : EndsOf(x) \subseteq PageChannels
  /\ \A x \in EdgesIn(Facts) : x[1] = "trigger" => EndsOf(x) \subseteq PageChannels \ Bundles
<1>1. ASSUME NEW x \in AnyFact, x[1] \in {"trigger", "bridge"} PROVE x \in EdgesIn(Facts)
  <2>1. x \notin {"gone"} \X PageChannels
    BY <1>1
  <2>. QED BY <1>1, <2>1 DEF AnyFact, EdgesIn
<1>2. ASSUME NEW x \in EdgesIn(Facts)
      PROVE  \/ x \in {"trigger"} \X Sources \X Sinks
             \/ x \in {"bridge"} \X PageChannels \X PageChannels
  <2>1. x \in Facts /\ x[1] \in {"trigger", "bridge"}
    BY <1>2 DEF EdgesIn
  <2>2. x \notin {"row", "seen"} \X PageChannels
    BY <2>1
  <2>. QED BY <2>1, <2>2 DEF Facts
<1>3. ASSUME NEW x \in EdgesIn(Facts) PROVE EndsOf(x) \subseteq PageChannels
  BY <1>2 DEF EndsOf, PageChannels
<1>4. ASSUME NEW x \in EdgesIn(Facts), x[1] = "trigger"
      PROVE  EndsOf(x) \subseteq PageChannels \ Bundles
  <2>1. x \in {"trigger"} \X Sources \X Sinks
    BY <1>2, <1>4
  <2>. QED BY <2>1, PagesAssumption DEF EndsOf, PageChannels
<1>. QED BY <1>1, <1>3, <1>4

\* The fields of a page.
LEMMA Shape ==
  ASSUME PageTyped
  PROVE  /\ page.of \subseteq PageChannels /\ page.rows \subseteq PageChannels
         /\ page.ids \subseteq PageChannels /\ page.shown \subseteq PageChannels
         /\ page.edges \subseteq EdgesIn(Facts)
         /\ page.todo \subseteq PageChannels \union KindsOfPages
         /\ page.blind \in BOOLEAN
<1>1. PageShape
  BY DEF PageTyped
<1>2. page.of \in SUBSET PageChannels /\ page.rows \in SUBSET PageChannels
  BY <1>1 DEF PageShape
<1>3. page.ids \in SUBSET PageChannels /\ page.shown \in SUBSET PageChannels
  BY <1>1 DEF PageShape
<1>4. page.edges \in SUBSET EdgesIn(Facts) /\ page.todo \in SUBSET (PageChannels \union KindsOfPages)
  BY <1>1 DEF PageShape
<1>5. page.blind \in BOOLEAN
  BY <1>1 DEF PageShape
<1>. QED BY <1>2, <1>3, <1>4, <1>5

\* Whatever comes or goes beside a page, what it has read stays between.
LEMMA ChangesHold ==
  ASSUME PagesInv, NEW x \in Facts, Changes(x)
  PROVE  PagesInv'
<1>0. PageTyped /\ PageFits /\ Between /\ OneStays /\ IdsTrue /\ EdgesTrue /\ RowsTrue /\ ShownTrue
  BY DEF PagesInv
<1>1. /\ page' = page /\ stood' = stood \intersect world' /\ been' = been \union world'
      /\ \/ /\ x[1] = "row" => x[2] \in Bundles
            /\ world' = (world \ {x}) \union (IF x[1] = "row" THEN {<<"gone", x[2]>>} ELSE {})
         \/ world' = world \union {x}
  BY DEF Changes
<1>0a. page' = page
  BY <1>1
<1>2. stood' \subseteq stood /\ been \subseteq been' /\ stood' \subseteq world' /\ world' \subseteq been'
  BY <1>1
<1>3. RowsIn(stood') \subseteq RowsIn(stood) /\ SeenIn(stood') \subseteq SeenIn(stood)
      /\ EdgesIn(stood') \subseteq EdgesIn(stood)
  BY <1>2, PartsGrow
<1>4. RowsIn(been) \subseteq RowsIn(been') /\ SeenIn(been) \subseteq SeenIn(been')
      /\ EdgesIn(been) \subseteq EdgesIn(been')
  BY <1>2, PartsGrow
<1>5. world' \subseteq AnyFact
  <2>1. x[1] = "row" => <<"gone", x[2]>> \in AnyFact
    <3>1. SUFFICES ASSUME x[1] = "row" PROVE x[2] \in PageChannels
      BY DEF AnyFact
    <3>2. x \notin {"trigger"} \X Sources \X Sinks /\ x \notin {"bridge"} \X PageChannels \X PageChannels
      BY <3>1
    <3>3. x \in {"row", "seen"} \X PageChannels
      BY <3>2 DEF Facts
    <3>. QED BY <3>3
  <2>2. x \in AnyFact
    BY DEF AnyFact
  <2>3. world \subseteq AnyFact
    BY <1>0 DEF PageTyped
  <2>4. CASE world' = (world \ {x}) \union (IF x[1] = "row" THEN {<<"gone", x[2]>>} ELSE {})
    BY <2>1, <2>3, <2>4
  <2>5. CASE world' = world \union {x}
    BY <2>2, <2>3, <2>5
  <2>. QED BY <1>1, <2>4, <2>5
<1>6. PageTyped'
  <2>1. PageShape /\ stood \subseteq AnyFact /\ been \subseteq AnyFact
    BY <1>0 DEF PageTyped
  <2>2. stood' \subseteq AnyFact /\ been' \subseteq AnyFact
    BY <1>1, <1>2, <1>5, <2>1
  <2>3. PageShape'
    BY ONLY <1>0a, <2>1 DEF PageShape
  <2>. QED BY <1>5, <2>2, <2>3 DEF PageTyped
<1>7. \A c \in PageChannels \ Bundles : c \in RowsIn(world) => c \in RowsIn(world')
  <2>1. SUFFICES ASSUME NEW c \in PageChannels \ Bundles, <<"row", c>> \in world
                 PROVE  <<"row", c>> \in world'
    BY DEF RowsIn
  <2>2. PICK y : y = <<"row", c>> /\ y \in world /\ y[1] = "row" /\ y[2] = c
    BY <2>1
  <2>3. y # x \/ world' = world \union {x}
    BY <1>1, <2>2
  <2>. QED BY <1>1, <2>2, <2>3
<1>8. OneStays'
  <2>1. page.of \subseteq PageChannels
    BY <1>0, Shape
  <2>. QED BY <1>0, <1>1, <1>7, <2>1 DEF OneStays
<1>9. IdsTrue'
  BY <1>0, <1>1, <1>3, <1>4 DEF IdsTrue
<1>10. EdgesTrue'
  BY <1>0, <1>1, <1>2, <1>3, <1>4 DEF EdgesTrue
<1>11. RowsTrue'
  BY <1>0, <1>1, <1>3, <1>4 DEF RowsTrue, Attached
<1>12. ShownTrue'
  BY <1>0, <1>1, <1>3, <1>4 DEF ShownTrue
<1>13. PageFits'
  BY <1>0, <1>0a DEF PageFits
<1>14. Between'
  BY <1>2 DEF Between
<1>. QED BY <1>6, <1>8, <1>9, <1>10, <1>11, <1>12, <1>13, <1>14 DEF PagesInv

\* A page asked for, or given up, has read nothing.
LEMMA FreshHolds ==
  ASSUME PagesInv, NEW op, NEW of, NEW step,
         page' = [step |-> step, op |-> op, of |-> of, todo |-> {}, rows |-> {}, ids |-> {},
                  edges |-> {}, shown |-> {}, blind |-> FALSE],
         \/ op = "none" /\ of = {} /\ step = "none" /\ UNCHANGED <<world, stood, been>>
         \/ /\ world' = world /\ stood' = world /\ been' = world
            /\ \/ op = "list" /\ of = {} /\ step = "rows"
               \/ op = "edges" /\ of = {} /\ step = "ids"
               \/ (\E c \in PageChannels : of = {c}) /\ op = "one" /\ step = "first"
  PROVE  PagesInv'
<1>1. page' = [step |-> step, op |-> op, of |-> of, todo |-> {}, rows |-> {}, ids |-> {},
               edges |-> {}, shown |-> {}, blind |-> FALSE]
  OBVIOUS
<1>2. /\ page'.step = step /\ page'.op = op /\ page'.of = of /\ page'.rows = {}
      /\ page'.shown = {} /\ page'.todo = {} /\ page'.edges = {}
  BY ONLY <1>1
<1>3. \/ op = "none" /\ of = {} /\ step = "none"
      \/ op = "list" /\ of = {} /\ step = "rows"
      \/ op = "edges" /\ of = {} /\ step = "ids"
      \/ (\E c \in PageChannels : of = {c}) /\ op = "one" /\ step = "first"
  OBVIOUS
<1>4. PageTyped'
  <2>1. of \in SUBSET PageChannels /\ op \in {"none", "list", "one", "edges"}
        /\ step \in {"none", "first", "rows", "ids", "triggers", "bridges", "ends", "shown", "told"}
    BY <1>3
  <2>2. PageShape'
    BY ONLY <1>1, <2>1 DEF PageShape
  <2>3. world \subseteq AnyFact /\ stood \subseteq AnyFact /\ been \subseteq AnyFact
    BY DEF PagesInv, PageTyped
  <2>. QED BY <2>2, <2>3 DEF PageTyped
<1>5. PageFits'
  BY <1>2, <1>3 DEF PageFits
<1>6. Between'
  BY <1>2 DEF Between
<1>7. OneStays' /\ IdsTrue' /\ EdgesTrue'
  BY <1>2, <1>3 DEF OneStays, IdsTrue, EdgesTrue
<1>8. RowsTrue'
  BY <1>2, <1>3 DEF RowsTrue
<1>9. ShownTrue'
  BY <1>2, <1>3 DEF ShownTrue
<1>. QED BY <1>4, <1>5, <1>6, <1>7, <1>8, <1>9 DEF PagesInv

\* A page that is given up.
LEMMA DroppedHolds ==
  ASSUME PagesInv, page' = NoPageYet, UNCHANGED <<world, stood, been>>
  PROVE  PagesInv'
BY FreshHolds DEF NoPageYet

\* What a statement of a page may take for granted.
LEMMA Reading ==
  ASSUME PagesInv
  PROVE  /\ PageShape /\ PageFits /\ Between /\ OneStays /\ IdsTrue /\ EdgesTrue /\ RowsTrue
         /\ ShownTrue
         /\ page.step # "none" =>
              /\ stood \subseteq world /\ world \subseteq been
              /\ RowsIn(stood) \subseteq RowsIn(world) /\ RowsIn(world) \subseteq RowsIn(been)
              /\ SeenIn(stood) \subseteq SeenIn(world) /\ SeenIn(world) \subseteq SeenIn(been)
              /\ EdgesIn(stood) \subseteq EdgesIn(world) /\ EdgesIn(world) \subseteq EdgesIn(been)
         /\ EdgesIn(world) \subseteq EdgesIn(Facts) /\ EdgesIn(been) \subseteq EdgesIn(Facts)
<1>1. PageShape /\ PageFits /\ Between /\ OneStays /\ IdsTrue /\ EdgesTrue /\ RowsTrue /\ ShownTrue
  BY DEF PagesInv, PageTyped
<1>2. page.step # "none" => stood \subseteq world /\ world \subseteq been
  BY <1>1 DEF Between
<1>3. world \subseteq AnyFact /\ been \subseteq AnyFact
  BY DEF PagesInv, PageTyped
<1>4. EdgesIn(world) \subseteq EdgesIn(Facts) /\ EdgesIn(been) \subseteq EdgesIn(Facts)
  BY <1>3, EdgeFacts DEF EdgesIn
<1>5. page.step # "none" =>
        /\ RowsIn(stood) \subseteq RowsIn(world) /\ RowsIn(world) \subseteq RowsIn(been)
        /\ SeenIn(stood) \subseteq SeenIn(world) /\ SeenIn(world) \subseteq SeenIn(been)
        /\ EdgesIn(stood) \subseteq EdgesIn(world) /\ EdgesIn(world) \subseteq EdgesIn(been)
  BY ONLY <1>2, PartsGrow
<1>. QED BY <1>1, <1>2, <1>4, <1>5

\* A statement that leaves the facts and the kind of the page alone.
LEMMA StaysTyped ==
  ASSUME PagesInv, PageShape', UNCHANGED <<world, stood, been>>
  PROVE  PageTyped'
BY DEF PagesInv, PageTyped

\* The first look at the channel of the path.
LEMMA FirstHolds ==
  ASSUME PagesInv, ReadFirst
  PROVE  PagesInv'
<1>1. page.step = "first" /\ UNCHANGED <<world, stood, been>>
  BY DEF ReadFirst, Turns
<1>2. CASE page' = NoPageYet
  BY <1>1, <1>2, DroppedHolds
<1>3. CASE page' # NoPageYet
  <2>1. page' = [page EXCEPT !.step = "rows"] /\ page.of \subseteq RowsIn(world)
    BY <1>3 DEF ReadFirst, Turns
  <2>2. PageShape /\ page.op = "one"
    BY <1>1, Reading DEF PageFits
  <2>3. /\ page'.step = "rows" /\ page'.op = "one" /\ page'.of = page.of /\ page'.rows = page.rows
        /\ page'.shown = page.shown
    BY <2>1, <2>2 DEF PageShape
  <2>4. PageShape'
    BY <2>1, <2>2 DEF PageShape
  <2>5. PageTyped'
    BY <2>4, <1>1, StaysTyped
  <2>6. PageFits'
    BY <1>1, <2>3, Reading DEF PageFits
  <2>7. Between'
    BY <1>1, Reading DEF Between
  <2>8. OneStays' /\ IdsTrue' /\ EdgesTrue'
    BY <1>1, <2>1, <2>3 DEF OneStays, IdsTrue, EdgesTrue
  <2>9. RowsTrue' /\ ShownTrue'
    BY <1>1, <2>3, Reading DEF RowsTrue, ShownTrue
  <2>. QED BY <2>5, <2>6, <2>7, <2>8, <2>9 DEF PagesInv
<1>. QED BY <1>2, <1>3

\* The channels that are read.
LEMMA RowsHold ==
  ASSUME PagesInv, ReadRows
  PROVE  PagesInv'
<1>1. page.step = "rows" /\ UNCHANGED <<world, stood, been>>
  BY DEF ReadRows, Turns
<1>2. CASE page' = NoPageYet
  BY <1>1, <1>2, DroppedHolds
<1>3. CASE page' # NoPageYet
  <2>1. PICK rows : /\ rows \subseteq PageChannels /\ rows \subseteq RowsIn(world)
                    /\ page.op # "one" => RowsIn(world) \subseteq rows
                    /\ page' = [page EXCEPT !.step = "ids", !.rows = rows]
    <3>1. RowsIn(world) \subseteq PageChannels
      BY DEF RowsIn
    <3>2. PICK rows : /\ rows = RowsIn(world) \intersect (IF page.op = "one" THEN page.of ELSE PageChannels)
                      /\ page' = [page EXCEPT !.step = "ids", !.rows = rows]
      BY <1>3 DEF ReadRows, Turns
    <3>. QED BY <3>1, <3>2
  <2>2. PageShape /\ page.op \in {"list", "one"} /\ page.shown = {}
    BY <1>1, Reading DEF PageFits
  <2>3. /\ page'.step = "ids" /\ page'.op = page.op /\ page'.of = page.of /\ page'.rows = rows
        /\ page'.shown = page.shown
    BY <2>1, <2>2 DEF PageShape
  <2>4. PageShape'
    BY <2>1, <2>2 DEF PageShape
  <2>5. PageTyped'
    BY <2>4, <1>1, StaysTyped
  <2>6. PageFits'
    BY <1>1, <2>2, <2>3, Reading DEF PageFits
  <2>7. Between'
    BY <1>1, Reading DEF Between
  <2>8. OneStays' /\ IdsTrue' /\ EdgesTrue'
    BY <1>1, <2>2, <2>3, Reading DEF OneStays, IdsTrue, EdgesTrue
  <2>9. RowsTrue'
    BY <1>1, <2>1, <2>2, <2>3, Reading DEF RowsTrue
  <2>10. ShownTrue'
    BY <2>2, <2>3 DEF ShownTrue
  <2>. QED BY <2>5, <2>6, <2>7, <2>8, <2>9, <2>10 DEF PagesInv
<1>. QED BY <1>2, <1>3

\* The channels of entities, for the ends of triggers.
LEMMA IdsHold ==
  ASSUME PagesInv, ReadIds
  PROVE  PagesInv'
<1>1. page.step = "ids" /\ UNCHANGED <<world, stood, been>>
  BY DEF ReadIds, Turns
<1>2. page' = [page EXCEPT !.step = "triggers", !.ids = RowsIn(world) \ Bundles]
  BY DEF ReadIds, Turns
<1>3. PageShape /\ page.op # "none" /\ page.shown = {}
  BY <1>1, Reading DEF PageFits
<1>4. RowsIn(world) \ Bundles \in SUBSET PageChannels
  BY DEF RowsIn
<1>5. /\ page'.step = "triggers" /\ page'.op = page.op /\ page'.of = page.of /\ page'.rows = page.rows
      /\ page'.shown = page.shown /\ page'.ids = RowsIn(world) \ Bundles
  BY <1>2, <1>3 DEF PageShape
<1>6. PageShape'
  BY <1>2, <1>3, <1>4 DEF PageShape
<1>7. PageTyped'
  BY <1>6, <1>1, StaysTyped
<1>8. PageFits'
  BY <1>1, <1>3, <1>5, Reading DEF PageFits
<1>9. Between'
  BY <1>1, Reading DEF Between
<1>10. OneStays'
  BY <1>1, <1>5, Reading DEF OneStays
<1>11. IdsTrue'
  BY <1>1, <1>5, Reading DEF IdsTrue, OneStays
<1>12. EdgesTrue'
  BY <1>5 DEF EdgesTrue
<1>13. RowsTrue'
  BY <1>1, <1>5, Reading DEF RowsTrue
<1>14. ShownTrue'
  BY <1>3, <1>5 DEF ShownTrue
<1>. QED BY <1>7, <1>8, <1>9, <1>10, <1>11, <1>12, <1>13, <1>14 DEF PagesInv

\* The triggers.
LEMMA TriggersHold ==
  ASSUME PagesInv, ReadTriggers
  PROVE  PagesInv'
<1>1. page.step = "triggers" /\ UNCHANGED <<world, stood, been>>
  BY DEF ReadTriggers, Turns
<1>2. PICK edges : /\ edges = {x \in world : x[1] = "trigger"}
                   /\ page' = [page EXCEPT !.step = "bridges", !.edges = edges]
  BY DEF ReadTriggers, Turns
<1>3. PageShape /\ page.op # "none" /\ page.shown = {}
  BY <1>1, Reading DEF PageFits
<1>4. edges \subseteq EdgesIn(world) /\ {x \in stood : x[1] = "trigger"} \subseteq edges
  BY <1>1, <1>2, Reading DEF EdgesIn
<1>4a. edges \in SUBSET EdgesIn(Facts)
  BY <1>4, Reading
<1>5. /\ page'.step = "bridges" /\ page'.op = page.op /\ page'.of = page.of /\ page'.rows = page.rows
      /\ page'.shown = page.shown /\ page'.ids = page.ids /\ page'.edges = edges
  BY <1>2, <1>3 DEF PageShape
<1>6. PageShape'
  BY <1>2, <1>3, <1>4a DEF PageShape
<1>7. PageTyped'
  BY <1>6, <1>1, StaysTyped
<1>8. PageFits'
  BY <1>1, <1>3, <1>5, Reading DEF PageFits
<1>9. Between'
  BY <1>1, Reading DEF Between
<1>10. OneStays'
  BY <1>1, <1>5, Reading DEF OneStays
<1>11. IdsTrue'
  BY <1>1, <1>5, Reading DEF IdsTrue
<1>12. EdgesTrue'
  <2>1. edges \subseteq EdgesIn(been)
    BY <1>1, <1>4, Reading
  <2>. QED BY <1>1, <1>4, <1>5, <2>1 DEF EdgesTrue
<1>13. RowsTrue'
  BY <1>1, <1>5, Reading DEF RowsTrue
<1>14. ShownTrue'
  BY <1>3, <1>5 DEF ShownTrue
<1>. QED BY <1>7, <1>8, <1>9, <1>10, <1>11, <1>12, <1>13, <1>14 DEF PagesInv

\* The bridges: the edges are complete.
LEMMA BridgesHold ==
  ASSUME PagesInv, ReadBridges
  PROVE  PagesInv'
<1>1. page.step = "bridges" /\ UNCHANGED <<world, stood, been>>
  BY DEF ReadBridges, Turns
<1>2. PICK edges, step, todo :
        /\ edges = page.edges \union {x \in world : x[1] = "bridge"}
        /\ page' = [page EXCEPT !.edges = edges, !.step = step, !.todo = todo]
        /\ \/ page.op = "one" /\ step = "told" /\ todo = page.todo
           \/ page.op = "list" /\ step = "shown" /\ todo = KindsOfPages
           \/ /\ page.op \notin {"one", "list"} /\ step = "ends"
              /\ todo = {c \in PageChannels : \E x \in edges : Attached(x, c)}
  <2>1. PICK edges : edges = page.edges \union {x \in world : x[1] = "bridge"}
    OBVIOUS
  <2>2. PageShape
    BY Reading
  <2>3. CASE page.op = "one"
    <3>1. page' = [page EXCEPT !.edges = edges, !.step = "told"]
      BY <2>1, <2>3 DEF ReadBridges, Turns
    <3>2. page' = [page EXCEPT !.edges = edges, !.step = "told", !.todo = page.todo]
      BY <2>2, <3>1 DEF PageShape
    <3>. QED BY <2>1, <2>3, <3>2
  <2>4. CASE page.op = "list"
    <3>1. page' = [page EXCEPT !.edges = edges, !.step = "shown", !.todo = KindsOfPages]
      BY <2>1, <2>4 DEF ReadBridges, Turns
    <3>. QED BY <2>1, <2>4, <3>1
  <2>5. CASE page.op \notin {"one", "list"}
    <3>1. page' = [page EXCEPT !.edges = edges, !.step = "ends",
                     !.todo = {c \in PageChannels : \E x \in edges : Attached(x, c)}]
      BY <2>1, <2>5 DEF ReadBridges, Turns
    <3>. QED BY <2>1, <2>5, <3>1
  <2>. QED BY <2>3, <2>4, <2>5
<1>3. PageShape /\ page.op # "none" /\ page.shown = {}
  BY <1>1, Reading DEF PageFits
<1>3a. page.op \in {"one", "list", "edges"}
  BY <1>3 DEF PageShape
<1>4. EdgesIn(stood) \subseteq edges /\ edges \subseteq EdgesIn(been)
  <2>1. /\ {x \in stood : x[1] = "trigger"} \subseteq page.edges
        /\ page.edges \subseteq EdgesIn(been)
    BY <1>1, Reading DEF EdgesTrue
  <2>2. stood \subseteq world /\ EdgesIn(world) \subseteq EdgesIn(been)
    BY <1>1, Reading
  <2>3. {x \in world : x[1] = "bridge"} \subseteq EdgesIn(world)
    BY DEF EdgesIn
  <2>. QED BY <1>2, <2>1, <2>2, <2>3 DEF EdgesIn
<1>4a. edges \in SUBSET EdgesIn(Facts)
  BY <1>4, Reading
<1>4b. todo \in SUBSET (PageChannels \union KindsOfPages) /\ step \in {"told", "shown", "ends"}
  <2>1. page.todo \subseteq PageChannels \union KindsOfPages
    BY Shape DEF PagesInv
  <2>. QED BY <1>2, <2>1
<1>5. /\ page'.step = step /\ page'.op = page.op /\ page'.of = page.of /\ page'.rows = page.rows
      /\ page'.shown = page.shown /\ page'.ids = page.ids /\ page'.edges = edges
      /\ page'.todo = todo /\ page'.blind = page.blind
  BY <1>2, <1>3 DEF PageShape
<1>6. PageShape'
  BY <1>2, <1>3, <1>4a, <1>4b DEF PageShape
<1>7. PageTyped'
  BY <1>6, <1>1, StaysTyped
<1>8. PageFits'
  BY <1>1, <1>2, <1>3, <1>3a, <1>5, Reading DEF PageFits
<1>9. Between'
  BY <1>1, Reading DEF Between
<1>10. OneStays'
  BY <1>1, <1>5, Reading DEF OneStays
<1>11. IdsTrue'
  BY <1>1, <1>5, Reading DEF IdsTrue
<1>12. EdgesTrue'
  BY <1>1, <1>4, <1>4b, <1>5 DEF EdgesTrue
<1>13. RowsTrue'
  <2>1. /\ page.rows \subseteq RowsIn(been)
        /\ page.op = "list" => RowsIn(stood) \subseteq page.rows
    BY <1>1, Reading DEF RowsTrue
  <2>2. page.op = "edges" => \A c \in PageChannels : (\E x \in edges : Attached(x, c)) => c \in todo /\ step = "ends"
    BY <1>2
  <2>3. RowsIn(stood) \subseteq PageChannels
    BY DEF RowsIn
  <2>. QED BY <1>1, <1>5, <2>1, <2>2, <2>3 DEF RowsTrue, Attached
<1>14. ShownTrue'
  BY <1>2, <1>3, <1>5 DEF ShownTrue
<1>. QED BY <1>7, <1>8, <1>9, <1>10, <1>11, <1>12, <1>13, <1>14 DEF PagesInv

\* The ends of the edges, one by one.
LEMMA EndHolds ==
  ASSUME PagesInv, NEW c \in PageChannels, ReadEnd(c)
  PROVE  PagesInv'
<1>1. page.step = "ends" /\ c \in page.todo /\ UNCHANGED <<world, stood, been>>
  BY DEF ReadEnd, Turns
<1>2. PICK rows, blind :
        /\ page' = [page EXCEPT !.todo = @ \ {c}, !.rows = rows, !.blind = blind]
        /\ blind \in BOOLEAN /\ page.rows \subseteq rows
        /\ rows \subseteq page.rows \union (RowsIn(world) \intersect {c})
        /\ ~ blind => ~ page.blind /\ (c \in RowsIn(world) => c \in rows)
  <2>1. PageShape /\ page.blind \in BOOLEAN
    BY Reading, Shape DEF PagesInv
  <2>2. CASE page' = [page EXCEPT !.todo = @ \ {c}, !.rows = @ \union (RowsIn(world) \intersect {c})]
    <3>1. PICK rows : rows = page.rows \union (RowsIn(world) \intersect {c})
      OBVIOUS
    <3>2. page' = [page EXCEPT !.todo = @ \ {c}, !.rows = rows, !.blind = page.blind]
      BY <2>1, <2>2, <3>1 DEF PageShape
    <3>3. /\ page.blind \in BOOLEAN /\ page.rows \subseteq rows
          /\ rows \subseteq page.rows \union (RowsIn(world) \intersect {c})
          /\ ~ page.blind => ~ page.blind /\ (c \in RowsIn(world) => c \in rows)
      BY <2>1, <3>1
    <3>. QED BY ONLY <3>2, <3>3, Zenon
  <2>3. CASE page' = [page EXCEPT !.todo = @ \ {c}, !.blind = TRUE]
    <3>1. page' = [page EXCEPT !.todo = @ \ {c}, !.rows = page.rows, !.blind = TRUE]
      BY <2>1, <2>3 DEF PageShape
    <3>. QED BY <3>1
  <2>4. \/ page' = [page EXCEPT !.todo = @ \ {c}, !.rows = @ \union (RowsIn(world) \intersect {c})]
        \/ page' = [page EXCEPT !.todo = @ \ {c}, !.blind = TRUE]
    BY Zenon DEF ReadEnd, Turns
  <2>. QED BY ONLY <2>2, <2>3, <2>4, Zenon
<1>3. PageShape /\ page.op = "edges" /\ page.shown = {}
  BY <1>1, Reading DEF PageFits
<1>4. rows \in SUBSET PageChannels /\ rows \subseteq RowsIn(been)
  <2>1. page.rows \subseteq PageChannels
    BY Shape DEF PagesInv
  <2>2. page.rows \subseteq RowsIn(been)
    BY <1>1, Reading DEF RowsTrue
  <2>3. RowsIn(world) \subseteq RowsIn(been)
    BY <1>1, Reading
  <2>. QED BY <1>2, <2>1, <2>2, <2>3
<1>5. /\ page'.step = "ends" /\ page'.op = page.op /\ page'.of = page.of /\ page'.rows = rows
      /\ page'.shown = page.shown /\ page'.ids = page.ids /\ page'.edges = page.edges
      /\ page'.todo = page.todo \ {c} /\ page'.blind = blind
  BY <1>1, <1>2, <1>3 DEF PageShape
<1>6. PageShape'
  <2>1. page.todo \ {c} \in SUBSET (PageChannels \union KindsOfPages)
    BY Shape DEF PagesInv
  <2>. QED BY <1>2, <1>3, <1>4, <2>1 DEF PageShape
<1>7. PageTyped'
  BY <1>6, <1>1, StaysTyped
<1>8. PageFits'
  BY <1>1, <1>3, <1>5, Reading DEF PageFits
<1>9. Between'
  BY <1>1, Reading DEF Between
<1>10. OneStays'
  BY <1>3, <1>5 DEF OneStays
<1>11. IdsTrue'
  BY <1>1, <1>5, Reading DEF IdsTrue
<1>12. EdgesTrue'
  BY <1>1, <1>5, Reading DEF EdgesTrue
<1>13. RowsTrue'
  <2>1. ~ page.blind => \A d \in RowsIn(stood) : (\E x \in page.edges : Attached(x, d)) =>
                          d \in page.rows \/ d \in page.todo
    BY <1>1, <1>3, Reading DEF RowsTrue
  <2>2. RowsIn(stood) \subseteq RowsIn(world)
    BY <1>1, Reading
  <2>3. ~ blind => \A d \in RowsIn(stood) : (\E x \in page.edges : Attached(x, d)) =>
                     d \in rows \/ d \in page.todo \ {c}
    BY <1>2, <2>1, <2>2
  <2>. QED BY <1>1, <1>3, <1>4, <1>5, <2>3 DEF RowsTrue, Attached
<1>14. ShownTrue'
  BY <1>3, <1>5 DEF ShownTrue
<1>. QED BY <1>7, <1>8, <1>9, <1>10, <1>11, <1>12, <1>13, <1>14 DEF PagesInv

LEMMA EndsHold ==
  ASSUME PagesInv, EndsRead
  PROVE  PagesInv'
<1>1. page.step = "ends" /\ page.todo = {} /\ UNCHANGED <<world, stood, been>>
  BY DEF EndsRead, Turns
<1>2. page' = [page EXCEPT !.step = "shown", !.todo = KindsOfPages]
  BY DEF EndsRead, Turns
<1>3. PageShape /\ page.op = "edges" /\ page.shown = {}
  BY <1>1, Reading DEF PageFits
<1>5. /\ page'.step = "shown" /\ page'.op = page.op /\ page'.of = page.of /\ page'.rows = page.rows
      /\ page'.shown = page.shown /\ page'.ids = page.ids /\ page'.edges = page.edges
      /\ page'.todo = KindsOfPages /\ page'.blind = page.blind
  BY <1>2, <1>3 DEF PageShape
<1>6. PageShape'
  BY <1>2, <1>3 DEF PageShape
<1>7. PageTyped'
  BY <1>6, <1>1, StaysTyped
<1>8. PageFits'
  BY <1>1, <1>3, <1>5, Reading DEF PageFits
<1>9. Between'
  BY <1>1, Reading DEF Between
<1>10. OneStays'
  BY <1>3, <1>5 DEF OneStays
<1>11. IdsTrue'
  BY <1>1, <1>5, Reading DEF IdsTrue
<1>12. EdgesTrue'
  BY <1>1, <1>5, Reading DEF EdgesTrue
<1>13. RowsTrue'
  BY <1>1, <1>3, <1>5, Reading DEF RowsTrue, Attached
<1>14. ShownTrue'
  BY <1>3, <1>5 DEF ShownTrue
<1>. QED BY <1>7, <1>8, <1>9, <1>10, <1>11, <1>12, <1>13, <1>14 DEF PagesInv

\* What the viewer's groups may see, kind by kind.
LEMMA SeenHolds ==
  ASSUME PagesInv, NEW kind \in KindsOfPages, ReadSeen(kind)
  PROVE  PagesInv'
<1>1. page.step = "shown" /\ kind \in page.todo /\ UNCHANGED <<world, stood, been>>
  BY DEF ReadSeen, Turns
<1>2. PICK shown, blind :
        /\ page' = [page EXCEPT !.todo = @ \ {kind}, !.shown = shown, !.blind = blind]
        /\ blind \in BOOLEAN /\ page.shown \subseteq shown
        /\ shown \subseteq page.shown \union (SeenIn(world) \intersect page.rows)
        /\ ~ blind => ~ page.blind /\ kind \intersect page.rows \intersect SeenIn(world) \subseteq shown
  <2>1. PageShape /\ page.blind \in BOOLEAN
    BY Reading, Shape DEF PagesInv
  <2>2. CASE page' = [page EXCEPT !.todo = @ \ {kind},
                        !.shown = @ \union (SeenIn(world) \intersect kind \intersect page.rows)]
    <3>1. PICK shown : shown = page.shown \union (SeenIn(world) \intersect kind \intersect page.rows)
      OBVIOUS
    <3>2. page' = [page EXCEPT !.todo = @ \ {kind}, !.shown = shown, !.blind = page.blind]
      BY <2>1, <2>2, <3>1 DEF PageShape
    <3>3. /\ page.blind \in BOOLEAN /\ page.shown \subseteq shown
          /\ shown \subseteq page.shown \union (SeenIn(world) \intersect page.rows)
          /\ ~ page.blind =>
               ~ page.blind /\ kind \intersect page.rows \intersect SeenIn(world) \subseteq shown
      BY <2>1, <3>1
    <3>. QED BY ONLY <3>2, <3>3, Zenon
  <2>3. CASE page' = [page EXCEPT !.todo = @ \ {kind}, !.blind = TRUE]
    <3>1. page' = [page EXCEPT !.todo = @ \ {kind}, !.shown = page.shown, !.blind = TRUE]
      BY <2>1, <2>3 DEF PageShape
    <3>. QED BY <3>1
  <2>4. \/ page' = [page EXCEPT !.todo = @ \ {kind},
                        !.shown = @ \union (SeenIn(world) \intersect kind \intersect page.rows)]
        \/ page' = [page EXCEPT !.todo = @ \ {kind}, !.blind = TRUE]
    BY Zenon DEF ReadSeen, Turns
  <2>. QED BY ONLY <2>2, <2>3, <2>4, Zenon
<1>3. PageShape /\ page.op \in {"list", "edges"}
  BY <1>1, Reading DEF PageFits
<1>4. /\ shown \in SUBSET PageChannels
      /\ shown \subseteq page.rows \intersect SeenIn(been)
  <2>1. page.rows \subseteq PageChannels
    BY Shape DEF PagesInv
  <2>2. page.shown \subseteq page.rows \intersect SeenIn(been)
    BY <1>1, Reading DEF ShownTrue
  <2>3. SeenIn(world) \subseteq SeenIn(been)
    BY <1>1, Reading
  <2>. QED BY <1>2, <2>1, <2>2, <2>3
<1>5. /\ page'.step = "shown" /\ page'.op = page.op /\ page'.of = page.of /\ page'.rows = page.rows
      /\ page'.shown = shown /\ page'.ids = page.ids /\ page'.edges = page.edges
      /\ page'.todo = page.todo \ {kind} /\ page'.blind = blind
  BY <1>1, <1>2, <1>3 DEF PageShape
<1>6. PageShape'
  <2>1. page.todo \ {kind} \in SUBSET (PageChannels \union KindsOfPages)
    BY Shape DEF PagesInv
  <2>. QED BY <1>2, <1>3, <1>4, <2>1 DEF PageShape
<1>7. PageTyped'
  BY <1>6, <1>1, StaysTyped
<1>8. PageFits'
  BY <1>1, <1>3, <1>5, Reading DEF PageFits
<1>9. Between'
  BY <1>1, Reading DEF Between
<1>10. OneStays'
  BY <1>3, <1>5 DEF OneStays
<1>11. IdsTrue'
  BY <1>1, <1>5, Reading DEF IdsTrue
<1>12. EdgesTrue'
  BY <1>1, <1>5, Reading DEF EdgesTrue
<1>13. RowsTrue'
  BY <1>1, <1>2, <1>5, Reading DEF RowsTrue, Attached
<1>14. ShownTrue'
  <2>1. SeenIn(stood) \subseteq SeenIn(world)
    BY <1>1, Reading
  <2>2. ~ page.blind => \A h \in KindsOfPages : h \notin page.todo =>
                          h \intersect page.rows \intersect SeenIn(stood) \subseteq page.shown
    BY <1>1, <1>3, Reading DEF ShownTrue
  <2>3. ~ blind => \A h \in KindsOfPages : h \notin page.todo \ {kind} =>
                     h \intersect page.rows \intersect SeenIn(stood) \subseteq shown
    BY <1>2, <2>1, <2>2
  <2>. QED BY <1>1, <1>3, <1>4, <1>5, <2>3 DEF ShownTrue
<1>. QED BY <1>7, <1>8, <1>9, <1>10, <1>11, <1>12, <1>13, <1>14 DEF PagesInv

LEMMA TellHolds ==
  ASSUME PagesInv, TellPage
  PROVE  PagesInv'
<1>1. page.step = "shown" /\ page.todo = {} /\ UNCHANGED <<world, stood, been>>
  BY DEF TellPage, Turns
<1>2. page' = [page EXCEPT !.step = "told"]
  BY DEF TellPage, Turns
<1>3. PageShape /\ page.op \in {"list", "edges"}
  BY <1>1, Reading DEF PageFits
<1>5. /\ page'.step = "told" /\ page'.op = page.op /\ page'.of = page.of /\ page'.rows = page.rows
      /\ page'.shown = page.shown /\ page'.ids = page.ids /\ page'.edges = page.edges
      /\ page'.todo = page.todo /\ page'.blind = page.blind
  BY <1>2, <1>3 DEF PageShape
<1>6. PageShape'
  BY <1>2, <1>3 DEF PageShape
<1>7. PageTyped'
  BY <1>6, <1>1, StaysTyped
<1>8. PageFits'
  BY <1>1, <1>3, <1>5, Reading DEF PageFits
<1>9. Between'
  BY <1>1, Reading DEF Between
<1>10. OneStays'
  BY <1>3, <1>5 DEF OneStays
<1>11. IdsTrue'
  BY <1>1, <1>5, Reading DEF IdsTrue
<1>12. EdgesTrue'
  BY <1>1, <1>5, Reading DEF EdgesTrue
<1>13. RowsTrue'
  BY <1>1, <1>3, <1>5, Reading DEF RowsTrue, Attached
<1>14. ShownTrue'
  BY <1>1, <1>3, <1>5, Reading DEF ShownTrue
<1>. QED BY <1>7, <1>8, <1>9, <1>10, <1>11, <1>12, <1>13, <1>14 DEF PagesInv

\* Whatever is done keeps all of it.
LEMMA PagesStepHolds ==
  ASSUME PagesInv, [PagesNext]_pagesVars
  PROVE  PagesInv'
<1>1. CASE UNCHANGED pagesVars
  <2>1. page' = page /\ world' = world /\ stood' = stood /\ been' = been
    BY <1>1 DEF pagesVars
  <2>2. PageTyped'
    <3>1. PageShape'
      BY ONLY <2>1, Reading, PagesInv DEF PageShape
    <3>. QED BY <2>1, <3>1, StaysTyped
  <2>3. PageFits' /\ Between' /\ OneStays' /\ IdsTrue'
    BY <2>1, Reading DEF PageFits, Between, OneStays, IdsTrue
  <2>4. EdgesTrue' /\ RowsTrue' /\ ShownTrue'
    BY <2>1, Reading DEF EdgesTrue, RowsTrue, ShownTrue, Attached
  <2>. QED BY <2>2, <2>3, <2>4 DEF PagesInv
<1>2. ASSUME NEW op, NEW of, NEW step, AskPage(op, of, step),
             \/ op = "list" /\ of = {} /\ step = "rows"
             \/ op = "edges" /\ of = {} /\ step = "ids"
             \/ (\E c \in PageChannels : of = {c}) /\ op = "one" /\ step = "first"
      PROVE  PagesInv'
  <2>1. page' = [step |-> step, op |-> op, of |-> of, todo |-> {}, rows |-> {}, ids |-> {},
                 edges |-> {}, shown |-> {}, blind |-> FALSE]
    BY <1>2 DEF AskPage, NoPageYet
  <2>2. world' = world /\ stood' = world /\ been' = world
    BY <1>2 DEF AskPage
  <2>. QED BY <1>2, <2>1, <2>2, FreshHolds
<1>3. CASE AskList
  BY <1>2, <1>3 DEF AskList
<1>4. CASE AskEdges
  BY <1>2, <1>4 DEF AskEdges
<1>5. ASSUME NEW c \in PageChannels, AskOne(c) PROVE PagesInv'
  BY <1>2, <1>5 DEF AskOne
<1>6. CASE PageFails
  BY <1>6, DroppedHolds DEF PageFails
<1>7. CASE ReadFirst \/ ReadRows \/ ReadIds \/ ReadTriggers \/ ReadBridges
  BY <1>7, FirstHolds, RowsHold, IdsHold, TriggersHold, BridgesHold
<1>8. CASE (\E c \in PageChannels : ReadEnd(c)) \/ EndsRead
  BY <1>8, EndHolds, EndsHold
<1>9. CASE (\E kind \in KindsOfPages : ReadSeen(kind)) \/ TellPage
  BY <1>9, SeenHolds, TellHolds
<1>10. CASE \E x \in Facts : Changes(x)
  BY <1>10, ChangesHold
<1>. QED BY <1>1, <1>3, <1>4, <1>5, <1>6, <1>7, <1>8, <1>9, <1>10 DEF PagesNext, PageStep

LEMMA PagesStart == PagesInit => PagesInv
<1>1. SUFFICES ASSUME PagesInit PROVE PagesInv
  OBVIOUS
<1>2. page = [step |-> "none", op |-> "none", of |-> {}, todo |-> {}, rows |-> {}, ids |-> {},
              edges |-> {}, shown |-> {}, blind |-> FALSE]
  BY <1>1 DEF PagesInit, NoPageYet
<1>3. page.step = "none" /\ page.op = "none" /\ page.of = {} /\ page.shown = {}
  BY ONLY <1>2
<1>4. PageTyped
  <2>1. PageShape
    BY ONLY <1>2 DEF PageShape
  <2>2. world \subseteq AnyFact /\ stood \subseteq AnyFact /\ been \subseteq AnyFact
    BY <1>1 DEF PagesInit, AnyFact
  <2>. QED BY <2>1, <2>2 DEF PageTyped
<1>5. PageFits /\ Between /\ OneStays /\ IdsTrue /\ EdgesTrue
  BY <1>3 DEF PageFits, Between, OneStays, IdsTrue, EdgesTrue
<1>6. RowsTrue /\ ShownTrue
  BY <1>3 DEF RowsTrue, ShownTrue
<1>. QED BY <1>4, <1>5, <1>6 DEF PagesInv

\* The edges of a page, and the figure of a channel: every edge that stood is
\* counted, none is that has not been.
LEMMA EdgesOfPage ==
  ASSUME PagesInv, page.step = "told", NEW c
  PROVE  /\ \A x \in EdgesIn(stood) : /\ x \in page.edges
                                      /\ c \in EndsOf(x) /\ c \in RowsIn(stood) => Attached(x, c)
                                      /\ c \in EndsOf(x) /\ page.op = "one" /\ c \in page.of => Attached(x, c)
         /\ \A x \in page.edges : Attached(x, c) => x \in Touching(been, c)
<1>1. EdgesIn(stood) \subseteq page.edges /\ page.edges \subseteq EdgesIn(been)
  BY Reading DEF EdgesTrue
<1>2. /\ RowsIn(stood) \ Bundles \subseteq page.ids
      /\ page.op = "one" => page.of \ Bundles \subseteq page.ids
  BY Reading DEF IdsTrue
<1>3. EdgesIn(been) \subseteq EdgesIn(Facts)
  BY Reading
<1>4. \A x \in EdgesIn(stood) : x[1] = "trigger" /\ c \in EndsOf(x) => c \notin Bundles
  BY <1>1, <1>3, EdgeFacts
<1>. QED BY <1>1, <1>2, <1>4 DEF Attached, Touching

LEMMA DegreeBetween ==
  ASSUME PagesInv, page.step = "told", NEW c
  PROVE  Degree(c) \in Cardinality({x \in Touching(stood, c) : <<"row", c>> \in stood})
                       ..Cardinality(Touching(been, c))
<1>1. PICK low, mid, high : /\ low = {x \in Touching(stood, c) : <<"row", c>> \in stood}
                            /\ mid = {x \in page.edges : Attached(x, c)}
                            /\ high = Touching(been, c)
  OBVIOUS
<1>2. high \subseteq Facts
  <2>1. EdgesIn(been) \subseteq EdgesIn(Facts)
    BY Reading
  <2>. QED BY <1>1, <2>1 DEF Touching, EdgesIn
<1>3. mid \subseteq high
  BY <1>1, EdgesOfPage
<1>4. low \subseteq mid
  <2>1. SUFFICES ASSUME NEW x \in low PROVE x \in mid
    OBVIOUS
  <2>2. x \in EdgesIn(stood) /\ c \in EndsOf(x) /\ <<"row", c>> \in stood
    BY <1>1, <2>1 DEF Touching
  <2>3. x \in EdgesIn(Facts)
    <3>1. EdgesIn(stood) \subseteq EdgesIn(been)
      BY Reading
    <3>. QED BY <2>2, <3>1, Reading
  <2>4. c \in RowsIn(stood)
    BY <2>2, <2>3, EdgeFacts DEF RowsIn
  <2>. QED BY <1>1, <2>2, <2>4, EdgesOfPage
<1>5. IsFiniteSet(high)
  BY <1>2, FactsAssumption, FS_Subset
<1>6. IsFiniteSet(mid)
  BY <1>3, <1>5, FS_Subset
<1>7. Cardinality(low) \in Nat /\ Cardinality(low) <= Cardinality(mid)
  BY <1>4, <1>6, FS_Subset, FS_CardinalityType
<1>8. Cardinality(mid) \in Nat /\ Cardinality(mid) <= Cardinality(high) /\ Cardinality(high) \in Nat
  BY <1>3, <1>5, FS_Subset, FS_CardinalityType
<1>9. Cardinality(mid) \in Cardinality(low)..Cardinality(high)
  BY ONLY <1>7, <1>8
<1>. QED BY <1>1, <1>9 DEF Degree

LEMMA InvTells == PagesInv => PagesTold
<1>1. SUFFICES ASSUME PagesInv, page.step = "told"
               PROVE  CASE page.op = "list" ->
                             /\ Within(Visible(stood), ToldRows, Visible(been))
                             /\ \A c \in ToldRows :
                                  Degree(c) \in Cardinality({x \in Touching(stood, c) : <<"row", c>> \in stood})
                                               ..Cardinality(Touching(been, c))
                        [] page.op = "one" ->
                             \A c \in page.of : Within(Touching(stood, c), ToldOfOne, Touching(been, c))
                        [] OTHER ->
                             Within({x \in EdgesIn(stood) : EndsOf(x) \subseteq Visible(stood)}, ToldEdges,
                                    {x \in EdgesIn(been) : EndsOf(x) \subseteq Visible(been)})
  BY DEF PagesTold
<1>2. page.shown \subseteq SeenIn(been) /\ page.rows \subseteq RowsIn(been)
  BY <1>1, Reading DEF RowsTrue, ShownTrue
<1>3. page.op # "one" /\ ~ page.blind =>
        \A c \in PageChannels : c \in page.rows /\ c \in SeenIn(stood) => c \in page.shown
  <2>1. SUFFICES ASSUME page.op # "one", ~ page.blind, NEW c \in PageChannels,
                        c \in page.rows, c \in SeenIn(stood)
                 PROVE  c \in page.shown
    OBVIOUS
  <2>2. PICK kind \in KindsOfPages : c \in kind
    BY DEF PageChannels, KindsOfPages
  <2>3. kind \intersect page.rows \intersect SeenIn(stood) \subseteq page.shown
    BY <1>1, <2>1, Reading DEF ShownTrue
  <2>. QED BY <2>1, <2>2, <2>3
<1>4. RowsIn(stood) \subseteq PageChannels
  BY DEF RowsIn
<1>5. CASE page.op = "list"
  <2>1. Within(Visible(stood), ToldRows, Visible(been))
    <3>1. RowsIn(stood) \subseteq page.rows
      BY <1>1, <1>5, Reading DEF RowsTrue
    <3>2. ~ page.blind => Visible(stood) \subseteq ToldRows
      BY <1>3, <1>4, <1>5, <3>1 DEF Visible, ToldRows
    <3>3. ToldRows \subseteq Visible(been)
      BY <1>2 DEF Visible, ToldRows
    <3>. QED BY <3>2, <3>3 DEF Within
  <2>2. \A c \in ToldRows :
          Degree(c) \in Cardinality({x \in Touching(stood, c) : <<"row", c>> \in stood})
                       ..Cardinality(Touching(been, c))
    BY <1>1, DegreeBetween
  <2>. QED BY <1>5, <2>1, <2>2
<1>6. CASE page.op = "one"
  <2>1. ASSUME NEW c \in page.of PROVE Within(Touching(stood, c), ToldOfOne, Touching(been, c))
    <3>1. \A d \in page.of : d = c
      BY <1>1, <2>1, Reading DEF PageFits
    <3>2. Touching(stood, c) \subseteq ToldOfOne
      <4>1. SUFFICES ASSUME NEW x \in Touching(stood, c) PROVE x \in ToldOfOne
        OBVIOUS
      <4>2. x \in EdgesIn(stood) /\ c \in EndsOf(x)
        BY DEF Touching
      <4>3. x \in page.edges /\ Attached(x, c)
        BY <1>1, <1>6, <2>1, <4>2, EdgesOfPage
      <4>. QED BY <3>1, <4>3 DEF ToldOfOne
    <3>3. ToldOfOne \subseteq Touching(been, c)
      BY <1>1, <2>1, EdgesOfPage DEF ToldOfOne
    <3>. QED BY <3>2, <3>3 DEF Within
  <2>. QED BY <1>6, <2>1
<1>7. CASE page.op \notin {"list", "one"}
  <2>1. page.op = "edges"
    <3>1. page.op \in {"none", "list", "one", "edges"}
      BY <1>1, Reading DEF PageShape
    <3>2. page.op # "none"
      BY <1>1, Reading DEF PageFits
    <3>. QED BY <1>7, <3>1, <3>2
  <2>2. ASSUME ~ page.blind, NEW x \in EdgesIn(stood), EndsOf(x) \subseteq Visible(stood)
        PROVE  x \in ToldEdges
    <3>1. x \in page.edges
      BY <1>1, EdgesOfPage
    <3>2. ASSUME NEW c \in EndsOf(x) PROVE Attached(x, c) /\ c \in page.shown
      <4>1. c \in RowsIn(stood) /\ c \in SeenIn(stood)
        BY <2>2, <3>2 DEF Visible
      <4>2. Attached(x, c)
        BY <1>1, <2>2, <3>2, <4>1, EdgesOfPage
      <4>3. c \in page.rows
        BY <1>1, <2>1, <2>2, <3>1, <4>1, <4>2, Reading DEF RowsTrue
      <4>. QED BY <1>3, <1>4, <2>1, <2>2, <4>1, <4>2, <4>3
    <3>. QED BY <3>1, <3>2 DEF ToldEdges
  <2>3. ASSUME NEW x \in ToldEdges
        PROVE  x \in EdgesIn(been) /\ EndsOf(x) \subseteq Visible(been)
    <3>1. x \in page.edges /\ EndsOf(x) \subseteq page.shown
      BY DEF ToldEdges
    <3>2. page.edges \subseteq EdgesIn(been) /\ page.shown \subseteq page.rows
      BY <1>1, Reading DEF EdgesTrue, ShownTrue
    <3>. QED BY <1>2, <3>1, <3>2 DEF Visible
  <2>4. Within({x \in EdgesIn(stood) : EndsOf(x) \subseteq Visible(stood)}, ToldEdges,
               {x \in EdgesIn(been) : EndsOf(x) \subseteq Visible(been)})
    BY <2>2, <2>3 DEF Within
  <2>. QED BY <1>7, <2>4
<1>. QED BY <1>5, <1>6, <1>7

\* Every page put together from statements that are no transaction shows nothing
\* that was not there while it was put together, and leaves out nothing that stood
\* all the while.
THEOREM PagesAreTold == PagesSpec => []PagesTold
<1>1. PagesInv /\ [PagesNext]_pagesVars => PagesInv'
  BY PagesStepHolds
<1>. QED BY <1>1, PagesStart, InvTells, PTL DEF PagesSpec

-------------------------------------------------------------------------------
(***************************************************************************)
(* Where an event was born.                                                *)
(***************************************************************************)
Made == {s \in Streams : row[s] # "none"}

\* What is about to be stamped: a publisher that has its channel, the rows a pass has listed.
BirthsDue ==
  /\ \A e \in Events : post[e] = "born" => StreamOf[e] \in Made
  /\ sync.pc = "stamp" => sync.labels \subseteq Made
  /\ sync.pc \in {"stamp", "stamp inboxes"} => sync.inboxes \subseteq Made

\* A direct event without a channel is delivered to its own stream.
DirectsAreOwn ==
  \A e \in Events, a \in Inboxes :
    task[e][a] # "none" /\ Direct(e) /\ birth[e] = {} => a = StreamOf[e]

SyncShape ==
  /\ DOMAIN sync = {"pc", "inboxes", "labels", "todo"}
  /\ sync.todo \subseteq Streams /\ sync.inboxes \subseteq Streams

RegistryInv == RegistryTypeOK /\ BirthIsOwn /\ BirthsDue /\ DirectsAreOwn /\ SyncShape

LEMMA RegistryStart == RegistryInit => RegistryInv
BY RegistryAssumption DEF RegistryInit, RegistryInv, RegistryTypeOK, BirthIsOwn, BirthsDue, DirectsAreOwn,
   SyncShape, NoSync, Streams

\* What changes neither a row nor an event.
LEMMA RegistryKept ==
  ASSUME RegistryInv, UNCHANGED <<row, stored, birth, task>>,
         alive' \subseteq Streams, recent' \subseteq stored, recentTask' \subseteq stored \X Inboxes,
         post' \in [Events -> {"new", "born", "unborn", "done"}],
         \A e \in Events : post'[e] = "born" => post[e] = "born" \/ StreamOf[e] \in Made,
         DOMAIN sync' = {"pc", "inboxes", "labels", "todo"}, sync'.todo \subseteq Streams, sync'.inboxes \subseteq Streams,
         sync'.pc = "stamp" => sync'.labels \subseteq Made,
         sync'.pc \in {"stamp", "stamp inboxes"} => sync'.inboxes \subseteq Made
  PROVE  RegistryInv'
<1>1. Made' = Made
  BY DEF Made
<1>2. RegistryTypeOK'
  BY DEF RegistryInv, RegistryTypeOK
<1>3. BirthIsOwn'
  BY DEF RegistryInv, BirthIsOwn
<1>4. BirthsDue'
  BY <1>1 DEF RegistryInv, BirthsDue
<1>5. DirectsAreOwn'
  BY DEF RegistryInv, DirectsAreOwn, Direct
<1>. QED BY <1>2, <1>3, <1>4, <1>5 DEF RegistryInv, SyncShape

\* A channel that is made or flagged does not vanish.
LEMMA RowsKept ==
  ASSUME RegistryInv, row' \in [Streams -> {"none", "listed", "orphaned"}],
         \A s \in Streams : row[s] # "none" => row'[s] # "none",
         UNCHANGED <<alive, stored, birth, task, recent, recentTask>>,
         post' \in [Events -> {"new", "born", "unborn", "done"}],
         \A e \in Events : post'[e] = "born" => post[e] = "born" \/ row'[StreamOf[e]] # "none",
         DOMAIN sync' = {"pc", "inboxes", "labels", "todo"}, sync'.todo \subseteq Streams, sync'.inboxes \subseteq Streams,
         sync'.pc \in {"stamp", "stamp inboxes"} =>
           sync'.pc = sync.pc /\ sync'.labels = sync.labels /\ sync'.inboxes = sync.inboxes
  PROVE  RegistryInv'
<1>1. Made \subseteq Made'
  BY DEF Made
<1>2. RegistryTypeOK'
  BY DEF RegistryInv, RegistryTypeOK
<1>3. \A e \in Events : StreamOf[e] \in Streams
  BY RegistryAssumption
<1>4. BirthIsOwn'
  BY <1>3 DEF RegistryInv, BirthIsOwn
<1>5. BirthsDue'
  <2>1. \A e \in Events : post'[e] = "born" => StreamOf[e] \in Made'
    BY <1>1, <1>3 DEF RegistryInv, BirthsDue, Made
  <2>. QED BY <1>1, <2>1 DEF RegistryInv, BirthsDue
<1>6. DirectsAreOwn'
  BY DEF RegistryInv, DirectsAreOwn, Direct
<1>. QED BY <1>2, <1>4, <1>5, <1>6 DEF RegistryInv, SyncShape

\* A publisher: its channel, then its row.
LEMMA PublisherHolds ==
  ASSUME RegistryInv, NEW e \in Events, ResolveBirth(e) \/ InsertEvent(e) \/ PostAgain(e)
  PROVE  RegistryInv'
<1>0. /\ StreamOf[e] \in Streams /\ row \in [Streams -> {"none", "listed", "orphaned"}]
      /\ post \in [Events -> {"new", "born", "unborn", "done"}] /\ birth \in [Events -> SUBSET Streams]
      /\ DOMAIN sync = {"pc", "inboxes", "labels", "todo"} /\ sync.todo \subseteq Streams /\ sync.inboxes \subseteq Streams
  BY RegistryAssumption DEF RegistryInv, RegistryTypeOK, SyncShape
<1>1. CASE ResolveBirth(e)
  <2>1. /\ UNCHANGED <<alive, stored, birth, task, recent, recentTask, sync>>
        /\ \/ row' = Ensure(StreamOf[e]) /\ post' = [post EXCEPT ![e] = "born"]
           \/ row' = row /\ post' = [post EXCEPT ![e] = "unborn"]
    BY <1>1 DEF ResolveBirth
  <2>2. /\ row' \in [Streams -> {"none", "listed", "orphaned"}]
        /\ \A s \in Streams : row[s] # "none" => row'[s] # "none"
        /\ post' \in [Events -> {"new", "born", "unborn", "done"}]
        /\ \A d \in Events : post'[d] = "born" => post[d] = "born" \/ row'[StreamOf[d]] # "none"
    BY <1>0, <2>1 DEF Ensure
  <2>. QED BY <1>0, <2>1, <2>2, RowsKept
<1>2. CASE PostAgain(e)
  <2>1. /\ UNCHANGED <<row, alive, stored, birth, task, recent, recentTask, sync>>
        /\ post' = [post EXCEPT ![e] = "new"]
    BY <1>2 DEF PostAgain
  <2>2. /\ post' \in [Events -> {"new", "born", "unborn", "done"}]
        /\ \A d \in Events : post'[d] = "born" => post[d] = "born"
    BY <1>0, <2>1
  <2>. QED BY <1>0, <2>1, <2>2, RowsKept
<1>3. CASE InsertEvent(e) /\ e \in stored
  <2>1. /\ UNCHANGED <<row, alive, stored, birth, task, recent, recentTask, sync>>
        /\ post' = [post EXCEPT ![e] = "done"]
    BY <1>3 DEF InsertEvent
  <2>2. /\ post' \in [Events -> {"new", "born", "unborn", "done"}]
        /\ \A d \in Events : post'[d] = "born" => post[d] = "born"
    BY <1>0, <2>1
  <2>. QED BY <1>0, <2>1, <2>2, RowsKept
<1>4. CASE InsertEvent(e) /\ e \notin stored
  <2>1. /\ UNCHANGED <<alive, row, task, sync, recentTask>>
        /\ post' = [post EXCEPT ![e] = "done"]
        /\ stored' = stored \cup {e} /\ recent' = recent \cup {e}
        /\ birth' = [birth EXCEPT ![e] = IF post[e] = "born" THEN {StreamOf[e]} ELSE {}]
    BY <1>4 DEF InsertEvent
  <2>2. /\ post' \in [Events -> {"new", "born", "unborn", "done"}]
        /\ \A d \in Events : post'[d] = "born" => post[d] = "born"
    BY <1>0, <2>1
  <2>3. RegistryTypeOK'
    BY <1>0, <2>1, <2>2 DEF RegistryInv, RegistryTypeOK
  <2>4. post[e] = "born" => row[StreamOf[e]] # "none"
    BY DEF RegistryInv, BirthsDue, Made
  <2>5. BirthIsOwn'
    BY <1>0, <2>1, <2>4 DEF RegistryInv, BirthIsOwn
  <2>6. BirthsDue'
    <3>1. Made' = Made
      BY <2>1 DEF Made
    <3>. QED BY <2>1, <2>2, <3>1 DEF RegistryInv, BirthsDue
  <2>7. DirectsAreOwn'
    <3>1. birth[e] = {}
      BY <1>4 DEF RegistryInv, BirthIsOwn
    <3>2. \A d \in Events : birth'[d] = {} => birth[d] = {}
      BY <1>0, <2>1, <3>1
    <3>. QED BY <2>1, <3>2 DEF RegistryInv, DirectsAreOwn, Direct
  <2>. QED BY <1>0, <2>1, <2>3, <2>5, <2>6, <2>7 DEF RegistryInv, SyncShape
<1>. QED BY <1>1, <1>2, <1>3, <1>4

LEMMA TasksHold ==
  ASSUME RegistryInv, NEW e \in Events, NEW a \in Inboxes, MakeTask(e, a) \/ FailTask(e, a)
  PROVE  RegistryInv'
<1>1. /\ UNCHANGED <<alive, row, stored, birth, post, sync, recent>>
      /\ recentTask' \subseteq recentTask \cup {<<e, a>>}
      /\ Direct(e) /\ birth[e] = {} => a = StreamOf[e]
      /\ \E status \in {"open", "failed"} : task' = [task EXCEPT ![e][a] = status]
      /\ recentTask' # recentTask => e \in stored
  BY DEF MakeTask, Carried, FailTask, RegistryInv, DirectsAreOwn
<1>2. PICK status \in {"open", "failed"} : task' = [task EXCEPT ![e][a] = status]
  BY <1>1
<1>3. RegistryTypeOK'
  BY <1>1, <1>2 DEF RegistryInv, RegistryTypeOK
<1>4. DirectsAreOwn'
  BY <1>1, <1>2 DEF RegistryInv, RegistryTypeOK, DirectsAreOwn, Direct
<1>5. BirthIsOwn'
  BY <1>1 DEF RegistryInv, BirthIsOwn
<1>6. BirthsDue'
  BY <1>1 DEF RegistryInv, BirthsDue, Made
<1>. QED BY <1>1, <1>3, <1>4, <1>5, <1>6 DEF RegistryInv, SyncShape

\* A stamp goes by what tells an event's own stream.
LEMMA StampHolds ==
  ASSUME RegistryInv, NEW S, NEW pick, S \subseteq Made, birth' = Stamped(S, pick),
         \A e \in Unstamped : pick[e] \subseteq {StreamOf[e]},
         UNCHANGED <<alive, row, stored, post, task, recent, recentTask>>,
         DOMAIN sync' = {"pc", "inboxes", "labels", "todo"}, sync'.todo \subseteq Streams, sync'.inboxes \subseteq Streams,
         sync'.pc # "stamp", sync'.pc = "stamp inboxes" => sync'.inboxes \subseteq Made
  PROVE  RegistryInv'
<1>0. \A e \in Events : StreamOf[e] \in Streams
  BY RegistryAssumption
<1>1. \A e \in Events : \/ birth'[e] = birth[e]
                        \/ e \in stored /\ StreamOf[e] \in S /\ birth'[e] = {StreamOf[e]}
  <2>. SUFFICES ASSUME NEW e \in Events, birth'[e] # birth[e]
                PROVE  e \in stored /\ StreamOf[e] \in S /\ birth'[e] = {StreamOf[e]}
    OBVIOUS
  <2>1. e \in Unstamped /\ pick[e] \cap S # {} /\ birth'[e] = pick[e] \cap S
    BY DEF Stamped
  <2>. QED BY <2>1 DEF Unstamped
<1>2. birth' \in [Events -> SUBSET Streams]
  <2>1. PICK stamp : stamp = [e \in Events |-> IF e \in Unstamped /\ pick[e] \cap S # {}
                                             THEN pick[e] \cap S ELSE birth[e]]
    OBVIOUS
  <2>3. birth' = stamp /\ stamp = [e \in Events |-> stamp[e]]
    BY <2>1 DEF Stamped
  <2>2. \A e \in Events : birth'[e] \subseteq Streams
    <3>1. \A e \in Events : birth[e] \subseteq Streams
      BY DEF RegistryInv, RegistryTypeOK
    <3>. QED BY ONLY <1>0, <1>1, <3>1
  <2>. QED BY <2>2, <2>3
<1>3. RegistryTypeOK'
  BY <1>2 DEF RegistryInv, RegistryTypeOK
<1>4. BirthIsOwn'
  BY <1>1 DEF RegistryInv, BirthIsOwn, Made
<1>5. BirthsDue'
  <2>1. Made' = Made
    BY DEF Made
  <2>. QED BY <2>1 DEF RegistryInv, BirthsDue
<1>6. DirectsAreOwn'
  <2>1. \A e \in Events : birth'[e] = {} => birth[e] = {}
    BY <1>1
  <2>. QED BY <2>1 DEF RegistryInv, DirectsAreOwn, Direct
<1>. QED BY <1>3, <1>4, <1>5, <1>6 DEF RegistryInv, SyncShape

LEMMA StampsHold ==
  ASSUME RegistryInv, StampConnectors \/ StampInboxes
  PROVE  RegistryInv'
<1>0. DOMAIN sync = {"pc", "inboxes", "labels", "todo"} /\ sync.todo \subseteq Streams /\ sync.inboxes \subseteq Streams
  BY DEF RegistryInv, SyncShape
<1>1. CASE StampConnectors
  <2>1. /\ UNCHANGED <<alive, row, stored, post, task, recent, recentTask>>
        /\ birth' = Stamped(sync.labels, ByLabel) /\ sync' = [sync EXCEPT !.pc = "stamp inboxes"]
        /\ sync.labels \subseteq Made /\ sync.inboxes \subseteq Made
    BY <1>1 DEF StampConnectors, SyncAt, RegistryInv, BirthsDue
  <2>2. \A e \in Unstamped : ByLabel[e] \subseteq {StreamOf[e]}
    BY DEF ByLabel, Unstamped, RegistryInv, RegistryTypeOK
  <2>. QED BY <1>0, <2>1, <2>2, StampHolds
<1>2. CASE StampInboxes
  <2>1. /\ UNCHANGED <<alive, row, stored, post, task, recent, recentTask>>
        /\ birth' = Stamped(sync.inboxes, ByTask) /\ sync' = NoSync /\ sync.inboxes \subseteq Made
    BY <1>2 DEF StampInboxes, RegistryInv, BirthsDue
  <2>2. \A e \in Unstamped : ByTask[e] \subseteq {StreamOf[e]}
    BY DEF ByTask, Unstamped, RegistryInv, RegistryTypeOK, DirectsAreOwn
  <2>. QED BY <2>1, <2>2, StampHolds DEF NoSync
<1>. QED BY <1>1, <1>2

LEMMA PassHolds ==
  ASSUME RegistryInv,
         \/ ListAgents \/ ListConnectors \/ ReadLabels \/ ReadInboxes \/ MarkConnectors \/ MarkAgents
         \/ ListRows \/ SyncFails \/ \E s \in Streams : Provision(s)
  PROVE  RegistryInv'
<1>0. /\ DOMAIN sync = {"pc", "inboxes", "labels", "todo"} /\ sync.todo \subseteq Streams /\ sync.inboxes \subseteq Streams
      /\ row \in [Streams -> {"none", "listed", "orphaned"}]
      /\ post \in [Events -> {"new", "born", "unborn", "done"}] /\ alive \subseteq Streams
      /\ recent \subseteq stored /\ recentTask \subseteq stored \X Inboxes
  BY DEF RegistryInv, RegistryTypeOK, SyncShape
<1>1. /\ UNCHANGED <<alive, stored, birth, post, task, recent, recentTask>>
  BY DEF ListAgents, ListConnectors, ReadLabels, ReadInboxes, MarkConnectors, MarkAgents, ListRows,
         SyncFails, Provision, Unheard, traffic
<1>2. CASE MarkConnectors \/ MarkAgents
  <2>1. \/ row' = Orphaned(Labels, sync.labels) /\ sync' = [sync EXCEPT !.pc = "orphans"]
        \/ row' = Orphaned(Inboxes, sync.inboxes) /\ sync' = [sync EXCEPT !.pc = "rows"]
    BY <1>2 DEF MarkConnectors, MarkAgents, SyncAt
  <2>2. /\ row' \in [Streams -> {"none", "listed", "orphaned"}]
        /\ \A s \in Streams : row[s] # "none" => row'[s] # "none"
    BY <1>0, <2>1 DEF Orphaned
  <2>. QED BY <1>0, <1>1, <2>1, <2>2, RowsKept
<1>3. ASSUME NEW s \in Streams, Provision(s) PROVE RegistryInv'
  <2>1. row' = [row EXCEPT ![s] = "listed"] /\ sync' = [sync EXCEPT !.todo = sync.todo \ {s}]
    BY <1>3 DEF Provision, Ensure
  <2>2. /\ row' \in [Streams -> {"none", "listed", "orphaned"}]
        /\ \A q \in Streams : row[q] # "none" => row'[q] # "none"
    BY <1>0, <2>1
  <2>. QED BY <1>0, <1>1, <2>1, <2>2, RowsKept
<1>4. CASE ListRows
  <2>1. /\ row' = row
        /\ sync' = [sync EXCEPT !.pc = "stamp", !.labels = {s \in Labels : row[s] # "none"},
                                !.inboxes = {s \in Inboxes : row[s] # "none"}]
    BY <1>4 DEF ListRows
  <2>2. /\ DOMAIN sync' = {"pc", "inboxes", "labels", "todo"} /\ sync'.todo = sync.todo
        /\ sync'.pc = "stamp" /\ sync'.labels = {s \in Labels : row[s] # "none"}
        /\ sync'.inboxes = {s \in Inboxes : row[s] # "none"}
    BY <1>0, <2>1
  <2>3. /\ sync'.labels \subseteq Made /\ sync'.inboxes \subseteq Made
        /\ sync'.inboxes \subseteq Streams
    BY <2>2 DEF Made, Streams
  <2>. QED BY <1>0, <1>1, <2>1, <2>2, <2>3, RegistryKept
<1>5. CASE ListAgents \/ ListConnectors \/ ReadLabels \/ ReadInboxes \/ SyncFails
  <2>1. row' = row
    BY <1>5 DEF ListAgents, ListConnectors, ReadLabels, ReadInboxes, SyncFails
  <2>2. /\ DOMAIN sync' = {"pc", "inboxes", "labels", "todo"} /\ sync'.todo \subseteq Streams
        /\ sync'.inboxes \subseteq Streams
        /\ sync'.pc \in {"agents", "connectors", "provision", "history", "inboxes"}
    <3>1. CASE ListAgents
      BY <1>0, <3>1 DEF ListAgents
    <3>2. CASE ListConnectors
      BY <1>0, <3>2 DEF ListConnectors
    <3>3. CASE ReadLabels
      <4>1. UnstampedLabels \subseteq Streams
        BY RegistryAssumption DEF UnstampedLabels, Unstamped, RegistryInv, RegistryTypeOK
      <4>. QED BY <1>0, <3>3, <4>1 DEF ReadLabels
    <3>4. CASE ReadInboxes
      BY <1>0, <3>4 DEF ReadInboxes, UnstampedInboxes, Streams
    <3>5. CASE SyncFails
      BY <3>5 DEF SyncFails, NoSync
    <3>. QED BY <1>5, <3>1, <3>2, <3>3, <3>4, <3>5
  <2>. QED BY <1>0, <1>1, <2>1, <2>2, RegistryKept
<1>. QED BY <1>2, <1>3, <1>4, <1>5

LEMMA RegistryStep ==
  ASSUME RegistryInv, [RegistryNext]_registryVars
  PROVE  RegistryInv'
<1>0. /\ DOMAIN sync = {"pc", "inboxes", "labels", "todo"} /\ sync.todo \subseteq Streams /\ sync.inboxes \subseteq Streams
      /\ post \in [Events -> {"new", "born", "unborn", "done"}] /\ alive \subseteq Streams
      /\ recent \subseteq stored /\ recentTask \subseteq stored \X Inboxes
      /\ BirthsDue
  BY DEF RegistryInv, RegistryTypeOK, SyncShape
<1>1. ASSUME NEW s \in Streams, AddResource(s) \/ RemoveResource(s) PROVE RegistryInv'
  <2>1. UNCHANGED <<row, stored, birth, post, task, sync, recent, recentTask>> /\ alive' \subseteq Streams
    BY <1>0, <1>1 DEF AddResource, RemoveResource, traffic
  <2>. QED BY <1>0, <2>1, RegistryKept DEF BirthsDue
<1>2. CASE WindowMoves
  <2>1. UNCHANGED <<alive, row, stored, birth, post, task, sync>> /\ recent' = {} /\ recentTask' = {}
    BY <1>2 DEF WindowMoves
  <2>. QED BY <1>0, <2>1, RegistryKept DEF BirthsDue
<1>3. CASE UNCHANGED registryVars
  <2>1. UNCHANGED <<alive, row, stored, birth, post, task, sync, recent, recentTask>>
    BY <1>3 DEF registryVars
  <2>. QED BY <1>0, <2>1, RegistryKept DEF BirthsDue
<1>. QED BY <1>1, <1>2, <1>3, PublisherHolds, TasksHold, StampsHold, PassHolds DEF RegistryNext, SyncStep

\* An event is never read back from a stream it did not come from, whoever stamped it: the ingest, the
\* publisher or a later pass of Reconciler.Sync.
THEOREM BirthsAreOwn == RegistrySpec => [](RegistryTypeOK /\ BirthIsOwn)
<1>1. RegistryInv => RegistryTypeOK /\ BirthIsOwn
  BY DEF RegistryInv
<1>. QED BY <1>1, RegistryStart, RegistryStep, PTL DEF RegistrySpec

-------------------------------------------------------------------------------
(* The figures.  Of the tasks of the window only those of events received       *)
(* before it are not on the timeline; each event is born in one stream.          *)

\* A task is of an event there is; of the events and tasks of the window, the tasks
\* are those the events have, and each task in it has been made.
WindowHolds ==
  \A e \in Events, a \in Inboxes :
    /\ task[e][a] # "none" => e \in stored
    /\ <<e, a>> \in recentTask => task[e][a] # "none"
    /\ e \in recent /\ task[e][a] # "none" => <<e, a>> \in recentTask

LEMMA WindowStart == RegistryInit => WindowHolds
<1> SUFFICES ASSUME RegistryInit, NEW e \in Events, NEW a \in Inboxes
             PROVE  task[e][a] # "none" => e \in stored
  BY DEF RegistryInit, WindowHolds
<1> QED
  BY DEF RegistryInit

LEMMA WindowStep ==
  ASSUME RegistryInv, WindowHolds, [RegistryNext]_registryVars
  PROVE  WindowHolds'
<1>1. CASE UNCHANGED <<stored, task, recent, recentTask>>
  BY <1>1 DEF WindowHolds
<1>2. ASSUME NEW e \in Events, InsertEvent(e) PROVE WindowHolds'
  <2>1. CASE e \in stored
    BY <1>1, <1>2, <2>1 DEF InsertEvent
  <2>2. CASE e \notin stored
    <3>1. stored' = stored \cup {e} /\ recent' = recent \cup {e} /\ task' = task /\ recentTask' = recentTask
      BY <1>2, <2>2 DEF InsertEvent
    <3>2. \A a \in Inboxes : task[e][a] = "none"
      BY <2>2 DEF WindowHolds
    <3> QED
      BY <3>1, <3>2 DEF WindowHolds
  <2> QED
    BY <2>1, <2>2
<1>3. ASSUME NEW e \in Events, NEW a \in Inboxes, MakeTask(e, a) \/ FailTask(e, a) PROVE WindowHolds'
  <2>1. PICK status \in {"open", "failed"} : task' = [task EXCEPT ![e][a] = status]
    BY <1>3 DEF MakeTask, FailTask
  <2>2. task \in [Events -> [Inboxes -> {"none", "open", "failed"}]]
    BY DEF RegistryInv, RegistryTypeOK
  <2>3. \A d \in Events, b \in Inboxes :
          task'[d][b] = IF d = e /\ b = a THEN status ELSE task[d][b]
    BY <2>1, <2>2
  <2>4. stored' = stored /\ recent' = recent
        /\ (recentTask' = recentTask \cup {<<e, a>>} \/ (recentTask' = recentTask /\ task[e][a] # "none"))
        /\ e \in stored
    BY <1>3 DEF MakeTask, FailTask, WindowHolds
  <2>5. \A d \in Events, b \in Inboxes : <<d, b>> \in recentTask' => <<d, b>> \in recentTask \/ (d = e /\ b = a)
    BY <2>4
  <2>6. status # "none"
    OBVIOUS
  <2>7. \A d \in Events, b \in Inboxes : <<d, b>> \in recentTask => <<d, b>> \in recentTask'
    BY <2>4
  <2>8. <<e, a>> \in recentTask' \/ (recentTask' = recentTask /\ task[e][a] # "none")
    BY <2>4
  <2> SUFFICES ASSUME NEW d \in Events, NEW b \in Inboxes
               PROVE  /\ task'[d][b] # "none" => d \in stored
                      /\ <<d, b>> \in recentTask' => task'[d][b] # "none"
                      /\ d \in recent /\ task'[d][b] # "none" => <<d, b>> \in recentTask'
    BY <2>4 DEF WindowHolds
  <2>9. /\ task[d][b] # "none" => d \in stored
        /\ <<d, b>> \in recentTask => task[d][b] # "none"
        /\ d \in recent /\ task[d][b] # "none" => <<d, b>> \in recentTask
    BY DEF WindowHolds
  <2> QED
    BY ONLY <2>3, <2>4, <2>5, <2>6, <2>7, <2>8, <2>9
<1>4. CASE WindowMoves
  <2>1. recent' = {} /\ recentTask' = {} /\ UNCHANGED <<stored, task>>
    BY <1>4 DEF WindowMoves
  <2> QED
    BY <2>1 DEF WindowHolds
<1>5. ASSUME NEW e \in Events, ResolveBirth(e) \/ PostAgain(e) PROVE UNCHANGED <<stored, task, recent, recentTask>>
  BY <1>5 DEF ResolveBirth, PostAgain
<1>6. ASSUME NEW s \in Streams, AddResource(s) \/ RemoveResource(s) \/ Provision(s)
      PROVE  UNCHANGED <<stored, task, recent, recentTask>>
  BY <1>6 DEF AddResource, RemoveResource, Provision, traffic, Unheard
<1>7. CASE \/ ListAgents \/ ListConnectors \/ ReadLabels \/ ReadInboxes \/ MarkConnectors \/ MarkAgents
           \/ ListRows \/ StampConnectors \/ StampInboxes \/ SyncFails
  BY <1>1, <1>7 DEF ListAgents, ListConnectors, ReadLabels, ReadInboxes, MarkConnectors, MarkAgents, ListRows,
     StampConnectors, StampInboxes, SyncFails, Unheard, traffic
<1>8. CASE UNCHANGED registryVars
  BY <1>1, <1>8 DEF registryVars
<1> QED
  BY <1>1, <1>2, <1>3, <1>4, <1>5, <1>6, <1>7, <1>8 DEF RegistryNext, SyncStep

\* A grouping channel's figure: each event born in a stream of the bundle is counted
\* in its own and in no other.
LEMMA BundleCounted == RegistryInv => BundleCount = Cardinality(BundleTimeline)
<1> SUFFICES ASSUME RegistryInv PROVE BundleCount = Cardinality(BundleTimeline)
  OBVIOUS
<1> DEFINE T == BundleTimeline
           of == [e \in Events |-> StreamOf[e]]
           own == [e \in Events |-> e]
           points == [s \in Bundle |-> Cardinality(Births(s))]
           P == Showings(T, of, own, Bundle)
<1>1. /\ stored \subseteq Events
      /\ \A e \in Events : birth[e] # {} => birth[e] = {StreamOf[e]}
  BY DEF RegistryInv, RegistryTypeOK, BirthIsOwn
<1>2. T \subseteq Events /\ IsFiniteSet(T)
  <2>1. T \subseteq Events
    BY <1>1 DEF BundleTimeline
  <2> HIDE DEF T
  <2> QED
    BY <2>1, RegistryAssumption, FS_Subset
<1>3. \A e \in Events : e \in T <=> e \in stored \cap recent /\ birth[e] = {StreamOf[e]} /\ StreamOf[e] \in Bundle
  BY <1>1 DEF BundleTimeline
<1>4. ASSUME NEW s \in Bundle PROVE points[s] = Cardinality(Keys(T, of, own, s))
  <2>1. Keys(T, of, own, s) = {e \in T : StreamOf[e] = s}
    BY <1>2 DEF Keys
  <2>2. {e \in T : StreamOf[e] = s} = Births(s)
    BY <1>1, <1>2, <1>3 DEF Births
  <2> QED
    BY <2>1, <2>2
<1>5. P = {<<StreamOf[e], e>> : e \in T}
  BY <1>2, <1>3 DEF Showings
<1> HIDE DEF T, P
<1>6. Cardinality(P) = Cardinality(T)
  <2> DEFINE f == [e \in T |-> <<StreamOf[e], e>>]
  <2>1. f \in Bijection(T, P)
    BY <1>5 DEF Bijection, Injection, Surjection, IsInjective
  <2>2. ExistsBijection(T, P)
    BY <2>1 DEF ExistsBijection
  <2> QED
    BY <1>2, <2>2, FS_Bijection
<1>7. SumFunctionOnSet(points, Bundle) = Cardinality(P)
  <2>1. IsFiniteSet(Bundle)
    BY RegistryAssumption
  <2> HIDE DEF points, of, own
  <2>2. SumFunctionOnSet(points, Bundle) = Cardinality(Showings(T, of, own, Bundle))
    BY ONLY <1>2, <1>4, <2>1, SumOfCounts
  <2> QED
    BY <2>2 DEF P
<1> QED
  BY <1>6, <1>7 DEF BundleCount, T

LEMMA FiguresAgree == RegistryInv /\ WindowHolds => CountsMatchTimeline
<1> SUFFICES ASSUME RegistryInv, WindowHolds PROVE CountsMatchTimeline
  OBVIOUS
<1>0. stored \subseteq Events /\ recent \subseteq stored
  BY DEF RegistryInv, RegistryTypeOK
<1>1. ASSUME NEW s \in Labels
      PROVE  /\ EventsCount(s) = Cardinality(Timeline(s))
             /\ Unmatched(s) = WithStatus(Timeline(s), "unmatched")
             /\ Failed(s) = WithStatus(Timeline(s), "error")
  <2>1. s \notin Inboxes
    BY RegistryAssumption
  <2>2. Timeline(s) = Births(s) /\ EventsCount(s) = Cardinality(Births(s))
    BY <2>1 DEF Timeline, Births, EventsCount
  <2> QED
    BY <2>2 DEF Unmatched, Failed, WithStatus
<1>2. ASSUME NEW s \in Inboxes
      PROVE  EventsCount(s) = Cardinality(Timeline(s))
                              + Cardinality({e \in stored \ recent : <<e, s>> \in recentTask})
  <2> DEFINE D == Deliveries(s)
             T == Timeline(s)
             L == {e \in stored \ recent : <<e, s>> \in recentTask}
  <2>1. T = {e \in stored \cap recent : <<e, s>> \in recentTask}
    BY <1>0 DEF Timeline, Delivered, WindowHolds
  <2>2. D = T \cup L /\ T \cap L = {} /\ T \subseteq Events /\ L \subseteq Events
    BY <1>0, <2>1 DEF Deliveries
  <2>3. EventsCount(s) = Cardinality(D)
    BY DEF EventsCount
  <2>4. IsFiniteSet(Events)
    BY RegistryAssumption
  <2> HIDE DEF D, T, L
  <2>5. IsFiniteSet(T) /\ IsFiniteSet(L)
    BY <2>2, <2>4, FS_Subset
  <2>6. Cardinality(T \cup L) = Cardinality(T) + Cardinality(L) - Cardinality(T \cap L)
    BY <2>5, FS_Union
  <2>7. Cardinality(T \cap L) = 0 /\ Cardinality(T) \in Nat /\ Cardinality(L) \in Nat
    BY <2>2, <2>5, FS_EmptySet, FS_CardinalityType
  <2>8. Cardinality(D) = Cardinality(T) + Cardinality(L)
    BY <2>2, <2>6, <2>7
  <2> QED
    BY <2>3, <2>8 DEF T, L
<1> QED
  BY <1>1, <1>2, BundleCounted DEF CountsMatchTimeline

-------------------------------------------------------------------------------
LEMMA ViewsStart == ChannelsInit => IInv /\ RegistryInv /\ WindowHolds
BY GraphStart, RegistryStart, WindowStart DEF ChannelsInit

LEMMA ViewsStep ==
  IInv /\ RegistryInv /\ WindowHolds /\ [ChannelsNext]_channelsVars => (IInv /\ RegistryInv /\ WindowHolds)'
<1> SUFFICES ASSUME IInv, RegistryInv, WindowHolds, [ChannelsNext]_channelsVars
             PROVE  IInv' /\ RegistryInv' /\ WindowHolds'
  OBVIOUS
<1>1. [Next]_vars /\ [RegistryNext]_registryVars
  <2>1. CASE UNCHANGED channelsVars
    BY <2>1 DEF channelsVars, vars, registryVars
  <2>2. CASE OfGraph(Next)
    BY <2>2 DEF OfGraph
  <2>3. CASE OfRegistry(RegistryNext)
    BY <2>3 DEF OfRegistry
  <2>4. CASE OfDesk(DeskNext) \/ OfPages(PagesNext)
    BY <2>4 DEF OfDesk, OfPages
  <2> QED
    BY <2>1, <2>2, <2>3, <2>4 DEF ChannelsNext
<1> QED
  BY <1>1, GraphStep, RegistryStep, WindowStep

(* For any channels, bridges, bound, requests, streams, events, tasks and passes: *)
(* the recursive query of Walk, which enters no channel twice, finds exactly the  *)
(* channels that are at most maxWalkDepth bridges away and that ReachingInto      *)
(* counts the event in, whatever loops there are, and all that is reached where   *)
(* no bridge leads on; and the figures countsFor lists a channel with are those   *)
(* of the timeline it is opened with, an inbox's and the events received before   *)
(* the window and delivered within it.                                            *)
THEOREM ViewsAreTrue == ChannelsSpec => []ViewsAgree
<1>1. IInv /\ RegistryInv /\ WindowHolds => ViewsAgree
  BY WalksReach, FiguresAgree DEF IInv, RegistryInv, ViewsAgree
<1> QED
  BY <1>1, ViewsStart, ViewsStep, PTL DEF ChannelsSpec
===============================================================================
