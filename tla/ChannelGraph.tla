------------------------------ MODULE ChannelGraph ------------------------------
(***************************************************************************)
(* The channel graph: channels and bridges of services/hub/internal/       *)
(* channels/store.go, changed by the requests of several users at once.    *)
(*                                                                         *)
(* CreateBridge is four statements outside a transaction: two reads of the *)
(* endpoints (one step here), the cycle test, the insert.  Delete is a     *)
(* transaction that locks the channel's row first.  An insert takes a      *)
(* key-share lock on both endpoints' rows, for its foreign keys: it waits  *)
(* for a delete that holds one of them, and fails when the row is gone.    *)
(***************************************************************************)
EXTENDS Naturals, Sequences, FiniteSets, Functions

CONSTANTS
  Channels,      \* channel ids
  Kind,          \* Kind[c]: "connector", "agent" or "custom"
  Clients,       \* concurrent requests
  NoChannel,
  MaxWalkDepth   \* maxWalkDepth

ASSUME GraphAssumption ==
  /\ IsFiniteSet(Channels)
  /\ Kind \in [Channels -> {"connector", "agent", "custom"}]
  /\ NoChannel \notin Channels
  /\ MaxWalkDepth \in Nat

VARIABLES
  present,   \* the rows of channels
  deleted,   \* ids that were used once: newID does not repeat them
  bridges,   \* the rows of channel_bridges, as <<from, to>>
  client,    \* what each request is doing
  overlapped \* history: a bridge was inserted while another request was between
             \* its cycle test and its insert

vars == <<present, deleted, bridges, client, overlapped>>

Custom == {c \in Channels : Kind[c] = "custom"}
Resting == [pc |-> "idle", from |-> NoChannel, to |-> NoChannel]

TypeOK ==
  /\ present \subseteq Channels
  /\ deleted \subseteq Channels
  /\ bridges \subseteq Channels \X Channels
  /\ client \in [Clients -> [pc: {"pair", "reaches", "insert", "count", "delete"},
                             from: Channels, to: Channels] \union {Resting}]
  /\ overlapped \in BOOLEAN

\* Connector and agent channels are provisioned and never deleted.
Init ==
  /\ present = Channels \ Custom
  /\ deleted = {}
  /\ bridges = {}
  /\ client = [r \in Clients |-> Resting]
  /\ overlapped = FALSE

-------------------------------------------------------------------------------
(* Reachability.  A channel reaches another when every set of channels that    *)
(* holds the one and is closed under the bridges holds the other.              *)

Closed(S, edges) == \A e \in edges : e[1] \in S => e[2] \in S

ReachesIn(edges, x, y) ==
  x # y /\ \A S \in SUBSET Channels : x \in S /\ Closed(S, edges) => y \in S

Reaches(x, y) == ReachesIn(bridges, x, y)

ReachingInto(c) == {c} \union {x \in present : Reaches(x, c)}

\* Mutant: a channel may be entered twice.
PathsRevisiting(c) ==
  LET path[d \in 0..MaxWalkDepth] ==
        IF d = 0 THEN {<<c>>}
        ELSE {Append(q[1], q[2]) : q \in {q \in path[d - 1] \X Channels :
                <<q[1][Len(q[1])], q[2]>> \in bridges}}
  IN UNION {path[d] : d \in 1..MaxWalkDepth}

\* The paths of Walk: no channel twice, at most MaxWalkDepth bridges.
Paths(c) ==
  LET path[d \in 0..MaxWalkDepth] ==
        IF d = 0 THEN {<<c>>}
        ELSE {Append(q[1], q[2]) : q \in {q \in path[d - 1] \X Channels :
                /\ <<q[1][Len(q[1])], q[2]>> \in bridges
                /\ q[2] \notin Range(q[1])}}
  IN UNION {path[d] : d \in 1..MaxWalkDepth}

Walk(c) == {p[Len(p)] : p \in Paths(c)}

-------------------------------------------------------------------------------
(* Channels                                                                    *)

Goto(r, pc) == client' = [client EXCEPT ![r].pc = pc]
\* Mutant: the request's end leaves its operands behind.
DoneKeeping(r) == client' = [client EXCEPT ![r].pc = "idle"]
Done(r) == client' = [client EXCEPT ![r] = Resting]

Create(c) ==
  /\ c \in Custom \ (present \union deleted)
  /\ present' = present \union {c}
  /\ UNCHANGED <<deleted, bridges, client, overlapped>>

Deleting(r, c) ==
  client[r].pc \in {"count", "delete"} /\ client[r].from = c

\* Mutant: Delete reads the row without FOR UPDATE.
NobodyLocks(c) == TRUE

Unlocked(c) == \A r \in Clients : ~Deleting(r, c)

\* SELECT ... FOR UPDATE; a channel that is gone or provisioned is refused.
LockChannel(r, c) ==
  /\ client[r].pc = "idle"
  /\ c \in present \intersect Custom
  /\ Unlocked(c)
  /\ client' = [client EXCEPT ![r] = [pc |-> "count", from |-> c, to |-> c]]
  /\ UNCHANGED <<present, deleted, bridges, overlapped>>

CountBridges(r) ==
  LET c == client[r].from IN
  /\ client[r].pc = "count"
  /\ IF \E b \in bridges : b[1] = c \/ b[2] = c THEN Done(r) ELSE Goto(r, "delete")
  /\ UNCHANGED <<present, deleted, bridges, overlapped>>

\* ON DELETE CASCADE takes the bridges along.
DeleteChannel(r) ==
  LET c == client[r].from IN
  /\ client[r].pc = "delete"
  /\ present' = present \ {c}
  /\ deleted' = deleted \union {c}
  /\ bridges' = {b \in bridges : b[1] # c /\ b[2] # c}
  /\ Done(r)
  /\ UNCHANGED overlapped

-------------------------------------------------------------------------------
(* Bridges                                                                     *)

BeginBridge(r, f, t) ==
  /\ client[r].pc = "idle"
  /\ f # t
  /\ client' = [client EXCEPT ![r] = [pc |-> "pair", from |-> f, to |-> t]]
  /\ UNCHANGED <<present, deleted, bridges, overlapped>>

Endpoints(f, t) ==
  f \in present /\ t \in present /\ (f \in Custom \/ t \in Custom)

ReadPair(r) ==
  /\ client[r].pc = "pair"
  /\ IF Endpoints(client[r].from, client[r].to) THEN Goto(r, "reaches") ELSE Done(r)
  /\ UNCHANGED <<present, deleted, bridges, overlapped>>

\* Mutant: the test looks the wrong way round.
ClosesForward(f, t) == Reaches(f, t)

\* Adding f -> t closes a loop when t already reaches f.
ClosesLoop(f, t) == Reaches(t, f)

CheckReaches(r) ==
  /\ client[r].pc = "reaches"
  /\ IF ClosesLoop(client[r].from, client[r].to) THEN Done(r) ELSE Goto(r, "insert")
  /\ UNCHANGED <<present, deleted, bridges, overlapped>>

Overlaps(r) == \E q \in Clients \ {r} : client[q].pc = "insert"

\* Mutant: no foreign keys.
InsertUnchecked(r) ==
  LET f == client[r].from t == client[r].to IN
  /\ client[r].pc = "insert"
  /\ bridges' = bridges \union {<<f, t>>}
  /\ overlapped' = (overlapped \/ Overlaps(r))
  /\ Done(r)
  /\ UNCHANGED <<present, deleted>>

InsertBridge(r) ==
  LET f == client[r].from t == client[r].to IN
  /\ client[r].pc = "insert"
  /\ Unlocked(f) /\ Unlocked(t)
  /\ bridges' = IF f \in present /\ t \in present
                  THEN bridges \union {<<f, t>>} ELSE bridges
  /\ overlapped' = (overlapped \/ Overlaps(r))
  /\ Done(r)
  /\ UNCHANGED <<present, deleted>>

DeleteBridge(b) ==
  /\ b \in bridges
  /\ bridges' = bridges \ {b}
  /\ UNCHANGED <<present, deleted, client, overlapped>>

Next ==
  \/ \E c \in Channels : Create(c)
  \/ \E r \in Clients, c \in Channels : LockChannel(r, c)
  \/ \E r \in Clients : CountBridges(r)
  \/ \E r \in Clients : DeleteChannel(r)
  \/ \E r \in Clients, f, t \in Channels : BeginBridge(r, f, t)
  \/ \E r \in Clients : ReadPair(r)
  \/ \E r \in Clients : CheckReaches(r)
  \/ \E r \in Clients : InsertBridge(r)
  \/ \E b \in bridges : DeleteBridge(b)

Spec == Init /\ [][Next]_vars

-------------------------------------------------------------------------------
NoLoop == \A b \in bridges : ~Reaches(b[2], b[1])

(* No bridge lies on a loop: the tail of a bridge is not reached from its      *)
(* head.  It takes two requests that have both passed the cycle test before    *)
(* either inserts; whatever else overlaps leaves the graph acyclic.            *)
Acyclic == overlapped \/ NoLoop

(* Every bridge has two rows to stand on and attaches a custom channel, also   *)
(* when its ends were read before another request deleted one of them.         *)
BridgesAttach == \A b \in bridges : b[1] # b[2] /\ Endpoints(b[1], b[2])

(* Deleting a channel takes no bridge along, although the cascade would: the   *)
(* row lock keeps a bridge from appearing after they were counted.             *)
DeleteLosesNothing == [][present' # present => bridges' = bridges]_vars

(* A bridge is there from its insert to its own delete, on its two rows.       *)
BridgesKept == []BridgesAttach /\ DeleteLosesNothing

\* c comes to x over at most MaxWalkDepth bridges, whatever it passes on the way.
Near(c, x) ==
  \E d \in 1..MaxWalkDepth : \E way \in [0..d -> Channels] :
    /\ way[0] = c /\ way[d] = x
    /\ \A i \in 1..d : <<way[i - 1], way[i]>> \in bridges

(* Walk, which bounds its paths and enters no channel twice, against Reaches   *)
(* and ReachingInto, which have no bound, loops or no loops.  An event goes    *)
(* through a grouping channel that counts it exactly where it gets there over  *)
(* at most MaxWalkDepth bridges: nothing is delivered that is not counted, and *)
(* nothing counted stays behind that is near.  Where no bridge leads on from   *)
(* what a walk found, it found all that is reached.                            *)
WalkAgrees ==
  \A c \in present : LET ahead == Walk(c) IN
    /\ \A x \in present : x \in ahead <=> c \in ReachingInto(x) \ {x} /\ Near(c, x)
    /\ Closed({c} \union ahead, bridges) => ahead = {x \in Channels : Reaches(c, x)}

-------------------------------------------------------------------------------
(* What the comments say and the code does not do                              *)

(* Migration 0020: "The graph must stay acyclic, also enforced in the store".  *)
AcyclicAlways == NoLoop
===============================================================================
