------------------------------ MODULE ChannelDesk ------------------------------
(***************************************************************************)
(* The requests that create, delete, attach and detach channels, and the   *)
(* rows of resource_groups they keep beside them.  services/hub/internal/  *)
(* api/handlers_channels.go over channels/service.go.                      *)
(*                                                                         *)
(* ChannelGraph has the graph itself; here a request's calls to the store  *)
(* and to resource_groups are its steps.  No call shares a transaction     *)
(* with another, so the row of a channel or a bridge is written after the  *)
(* thing itself and removed after it.  A caller is the list of groups it   *)
(* writes to, in the order callerGroupIDs has them; admins, names and      *)
(* provisioned channels' own resources are left out: a provisioned end     *)
(* is a channel everyone here may write to.                                *)
(***************************************************************************)
EXTENDS Naturals, FiniteSets, Sequences, Functions

CONSTANTS
  Grouping,           \* custom channels, by id
  Provisioned,        \* connector and agent channels
  Edges, From, To,    \* bridges, by id, and the ends each is asked for
  Owners,             \* groups
  Desks, GroupsOf,    \* requests in flight at once, and the groups of their callers
  Chiefs,             \* the requests of administrators
  MaxDeskRequests, MaxDeskFaults   \* bounds

Ends == Grouping \cup Provisioned
Owned == Grouping \cup Edges

ASSUME DeskAssumption ==
  /\ {From, To} \subseteq [Edges -> Ends] /\ \A b \in Edges : From[b] # To[b]
  /\ \A b \in Edges : From[b] \in Grouping \/ To[b] \in Grouping
  /\ Grouping \cap (Provisioned \cup Edges) = {}
  /\ GroupsOf \in [Desks -> Seq(Owners)]
  /\ {MaxDeskRequests, MaxDeskFaults} \subseteq Nat

VARIABLES
  made,     \* made[x]: a channel or bridge is "new" (a fresh id), "made" or "gone"
  owner,    \* owner[x]: its row of resource_groups, as a set of at most one group
  desk,
  deskRequests, deskFaults,
  excused   \* history: ids whose row could not be removed or was written after the thing itself
            \* was, and channels attached to between a request's check and its re-homing
deskVars == <<made, owner, desk, deskRequests, deskFaults, excused>>

Free == [pc |-> "free", on |-> {}, nested |-> {}, unreached |-> {}, group |-> {}]

DeskInit ==
  /\ made \in {m \in [Owned -> {"new", "made"}] : \A b \in Edges :
                 m[b] = "made" => \A e \in {From[b], To[b]} \cap Grouping : m[e] = "made"}
  /\ owner \in [Owned -> {{}} \cup {{g} : g \in Owners}]
  /\ \A x \in Owned : made[x] = "new" => owner[x] = {}
  /\ desk = [d \in Desks |-> Free]
  /\ deskRequests = 0 /\ deskFaults = 0 /\ excused = {}

DeskFault == deskFaults < MaxDeskFaults /\ deskFaults' = deskFaults + 1
There(c)  == IF c \in Provisioned THEN TRUE ELSE made[c] = "made"
Is(d, pc) == desk[d].pc = pc
On(d)     == CHOOSE x \in Owned : x \in desk[d].on
Become(d, pc) == desk' = [desk EXCEPT ![d] = [@ EXCEPT !.pc = pc]]
Reply(d)  == desk' = [desk EXCEPT ![d] = Free]
StartFor(d, pc, x, group) ==
  /\ Is(d, "free") /\ deskRequests < MaxDeskRequests
  /\ deskRequests' = deskRequests + 1
  /\ desk' = [desk EXCEPT ![d] = [Free EXCEPT !.pc = pc, !.on = {x}, !.group = group]]
Start(d, pc, x) == StartFor(d, pc, x, {})

\* requireChannelWrite over the row; without one nobody but an admin may write.
MayWrite(d, c) ==
  IF d \in Chiefs \/ c \in Provisioned THEN TRUE ELSE owner[c] \cap Range(GroupsOf[d]) # {}

\* callerGroupID: where what a caller makes lands when nothing else decides.
CallerGroup(d) == IF GroupsOf[d] = <<>> THEN {} ELSE {Head(GroupsOf[d])}

Standing(c) == {b \in Edges : made[b] = "made" /\ (From[b] = c \/ To[b] = c)}
Into(c)     == {b \in Edges : made[b] = "made" /\ To[b] = c}

-------------------------------------------------------------------------------
(* createChannel: the channel, then its row.                                 *)

CreateCustom(d, c, g) ==
  /\ c \in Grouping /\ made[c] = "new" /\ g \in Range(GroupsOf[d])
  /\ StartFor(d, "own", c, {g})
  /\ made' = [made EXCEPT ![c] = "made"]
  /\ UNCHANGED <<owner, deskFaults, excused>>

\* SetResourceGroup; a failure is logged and the request answers all the same.
Own(d) ==
  LET x == On(d) IN
  /\ Is(d, "own")
  /\ \/ /\ owner' = [owner EXCEPT ![x] = desk[d].group]
        /\ excused' = IF made[x] = "gone" THEN excused \cup {x} ELSE excused
        /\ UNCHANGED deskFaults
     \/ DeskFault /\ UNCHANGED <<owner, excused>>
  /\ Reply(d)
  /\ UNCHANGED <<made, deskRequests>>

-------------------------------------------------------------------------------
(* deleteChannel: what reaches it is read first, then the store deletes,     *)
(* then the rows follow.                                                     *)

BeginDelete(d, c) ==
  /\ c \in Grouping /\ made[c] = "made" /\ MayWrite(d, c)
  /\ Start(d, "nested", c)
  /\ UNCHANGED <<made, owner, deskFaults, excused>>

\* ReachingInto, here the channels with a bridge into this one; a failure reads none.
ReadNested(d) ==
  /\ Is(d, "nested")
  /\ \/ desk' = [desk EXCEPT ![d] = [@ EXCEPT !.pc = "delete", !.nested = {From[b] : b \in Into(On(d))}]]
        /\ UNCHANGED deskFaults
     \/ DeskFault /\ Become(d, "delete")
  /\ UNCHANGED <<made, owner, deskRequests, excused>>

\* Store.Delete refuses while a bridge is attached.
DeleteCustom(d) ==
  /\ Is(d, "delete")
  /\ IF made[On(d)] = "made" /\ Standing(On(d)) = {}
     THEN made' = [made EXCEPT ![On(d)] = "gone"] /\ Become(d, "release")
     ELSE Reply(d) /\ UNCHANGED made
  /\ UNCHANGED <<owner, deskRequests, deskFaults, excused>>

\* Mutant: every channel that was nested goes to the caller's group.
StillReached(c) == {}

\* A channel another bridge still leads to keeps its group.
Reached(c) == Into(c)

\* releaseNestedChannels, one channel: its bridges are read; only custom channels' rows are kept here.
CheckNested(d, c) ==
  /\ Is(d, "release") /\ desk[d].unreached = {} /\ c \in desk[d].nested
  /\ desk' = [desk EXCEPT ![d] =
       [@ EXCEPT !.nested = desk[d].nested \ {c},
                 !.unreached = IF c \in Grouping /\ Reached(c) = {} /\ CallerGroup(d) # {}
                               THEN {c} ELSE {}]]
  /\ UNCHANGED <<made, owner, deskRequests, deskFaults, excused>>

\* SetResourceGroup on a channel found without bridges into it.
Rehome(d, c) ==
  /\ c \in desk[d].unreached
  /\ \/ /\ owner' = [owner EXCEPT ![c] = CallerGroup(d)]
        /\ excused' = IF made[c] = "gone" THEN excused \cup {c} ELSE excused
        /\ UNCHANGED deskFaults
     \/ DeskFault /\ UNCHANGED <<owner, excused>>
  /\ desk' = [desk EXCEPT ![d] = [@ EXCEPT !.unreached = {}]]
  /\ UNCHANGED <<made, deskRequests>>

\* Mutant: the row stays behind the channel or the bridge.
RowDropForgotten(x) == owner

\* DeleteResourceGroup.
RowDropped(x) == [owner EXCEPT ![x] = {}]

Drop(d) ==
  /\ Is(d, "drop") \/ (Is(d, "release") /\ desk[d].nested \cup desk[d].unreached = {})
  /\ \/ owner' = RowDropped(On(d)) /\ UNCHANGED <<deskFaults, excused>>
     \/ DeskFault /\ excused' = excused \cup {On(d)} /\ UNCHANGED owner
  /\ Reply(d)
  /\ UNCHANGED <<made, deskRequests>>

-------------------------------------------------------------------------------
(* attachBridge and detachBridge.                                            *)

\* Both ends are read and asked for.
BeginAttach(d, b) ==
  /\ made[b] = "new" /\ There(From[b]) /\ There(To[b])
  /\ MayWrite(d, From[b]) /\ MayWrite(d, To[b])
  /\ Start(d, "attach", b)
  /\ UNCHANGED <<made, owner, deskFaults, excused>>

\* The insert fails when an end is gone or the same edge stands.
Attach(d) ==
  LET b == On(d)
      same == {e \in Edges : made[e] = "made" /\ From[e] = From[b] /\ To[e] = To[b]} IN
  /\ Is(d, "attach")
  /\ IF There(From[b]) /\ There(To[b]) /\ same = {} /\ made[b] = "new"
     THEN /\ made' = [made EXCEPT ![b] = "made"]
          /\ excused' = excused \cup {c \in {To[b]} : \E q \in Desks : c \in desk[q].unreached}
          /\ Become(d, "adopt")
     ELSE Reply(d) /\ UNCHANGED <<made, excused>>
  /\ UNCHANGED <<owner, deskRequests, deskFaults>>

\* adoptBridgeGroup: the target's group, else the caller's; nothing when the target is gone.
ReadAdoption(d) ==
  LET t == To[On(d)]
      found == IF t \in Grouping THEN owner[t] ELSE {} IN
  /\ Is(d, "adopt")
  /\ IF ~There(t) \/ (found = {} /\ CallerGroup(d) = {})
     THEN Reply(d)
     ELSE desk' = [desk EXCEPT ![d] =
            [@ EXCEPT !.pc = "own", !.group = IF found = {} THEN CallerGroup(d) ELSE found]]
  /\ UNCHANGED <<made, owner, deskRequests, deskFaults, excused>>

\* The bridge is read, and both of its ends are asked for.
BeginDetach(d, b) ==
  /\ made[b] = "made" /\ MayWrite(d, From[b]) /\ MayWrite(d, To[b])
  /\ Start(d, "detach", b)
  /\ UNCHANGED <<made, owner, deskFaults, excused>>

Detach(d) ==
  /\ Is(d, "detach")
  /\ IF made[On(d)] = "made"
     THEN made' = [made EXCEPT ![On(d)] = "gone"] /\ Become(d, "drop")
     ELSE Reply(d) /\ UNCHANGED made
  /\ UNCHANGED <<owner, deskRequests, deskFaults, excused>>

DeskNext ==
  \E d \in Desks :
    \/ \E c \in Grouping : BeginDelete(d, c) \/ \E g \in Owners : CreateCustom(d, c, g)
    \/ \E b \in Edges : BeginAttach(d, b) \/ BeginDetach(d, b)
    \/ Own(d) \/ ReadNested(d) \/ DeleteCustom(d) \/ Drop(d)
    \/ Attach(d) \/ ReadAdoption(d) \/ Detach(d)
    \/ \E c \in Ends : CheckNested(d, c) \/ Rehome(d, c)

DeskSpec == DeskInit /\ [][DeskNext]_deskVars

-------------------------------------------------------------------------------
\* No row of resource_groups outlives its channel or bridge, nor appears after it, when every
\* request is done - except where the removal of the row failed, or a request wrote it after another
\* had already removed the thing: a channel's or a bridge's row is written in a step of its own.
RowStands(x) ==
  (\A d \in Desks : x \notin desk[d].on \cup desk[d].unreached) =>
    (owner[x] # {} => made[x] = "made" \/ x \in excused)

\* A channel that has a group is moved to another only while no bridge leads into it: deleting a
\* grouping channel re-homes what fed it, and what is still fed keeps its group - unless a bridge into
\* it was attached after the request had found none, or the channel's own creation has still to write
\* the first row.
MovesUnreached ==
  [][\A c \in Grouping : owner[c] # {} /\ owner'[c] \notin {{}, owner[c]} =>
       Into(c) = {} \/ c \in excused \/ \E d \in Desks : Is(d, "own") /\ desk[d].on = {c}]_deskVars

\* No group's row outlives its channel or bridge, no channel that is still fed changes hands.
OwnersHold == [](\A x \in Owned : RowStands(x)) /\ MovesUnreached
===============================================================================
