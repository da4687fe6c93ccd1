-------------------------------- MODULE Access --------------------------------
(***************************************************************************)
(* Who may do what: users, groups and their members, the group every       *)
(* resource is placed in, the cache of a user's roles, and the tracker of  *)
(* identities already persisted.  services/hub/internal/authz,             *)
(* internal/api/handlers_users.go, handlers_groups.go, identity_persist.go *)
(* and cmd/hub/backfill.go.                                                *)
(*                                                                         *)
(* Every statement of a handler is a step of its own, so the steps of two  *)
(* sessions interleave as their database calls do.  A role is its rank in  *)
(* roleCovers: 0 none, 1 reader, 2 writer, 3 owner.  Time passes in ticks; *)
(* an entry of the cache or of the tracker carries the ticks it has left.  *)
(* Of what a caller's token says of him, the model keeps whether it has a   *)
(* user name, only an e-mail address, or neither.  Passwords, names and     *)
(* descriptions of groups are left out, and so is the branch of CanRead for *)
(* a public resource: no code makes a row of resource_groups public.        *)
(***************************************************************************)
EXTENDS Naturals, FiniteSets

CONSTANTS
  Users, Admins,         \* Admins: the users that are administrators at the start
  Groups, Legacy,        \* Legacy: the group the migration made
  Resources, Standing,   \* Standing: the resources there at the start, in a group or in none
  Sessions,              \* requests that may be in flight at once
  CacheTTL, PersistTTL,  \* 30 s and 5 min, in ticks
  LoadTicks,             \* bound: the ticks a load of roles may take
  MaxRequests,           \* bound: requests
  MaxAccessFaults        \* bound: failing calls and restarts of the hub

ASSUME AccessAssumption ==
  /\ Admins \subseteq Users /\ Admins # {} /\ Legacy \in Groups
  /\ Standing \subseteq Resources /\ Resources # {}
  /\ {CacheTTL, PersistTTL, LoadTicks, MaxRequests, MaxAccessFaults} \subseteq Nat

VARIABLES
  users,      \* users[u]: a row of users
  groups,     \* groups[g]: g is "new" (a fresh identifier), "here" or "gone"
  member,     \* member[u][g]: u's rank in g
  made,       \* made[r]: r is "new" (a fresh identifier), "made" or "gone"
  place,      \* place[r]: the group r is in, as a set of at most one
  cache,      \* GroupCache.items
  tracked,    \* identityPersistTracker: ticks until u is persisted again
  session,
  fill,       \* runBackfill
  requests, accessFaults
VARIABLES     \* history
  since,      \* since[u][g][k]: ticks since u last had rank k or more in g
  overlapped, \* an administrator was removed while another guarded request was past its count
  unsaved,    \* users whose last upsert, since their entry was dropped, failed or had no name
  skipped     \* those let through with nothing to upsert

accessVars == <<users, groups, member, made, place, cache, tracked, session, fill,
                requests, accessFaults, since, overlapped, unsaved, skipped>>
registry == <<users, groups, member, since>>
unused   == <<made, place, fill>>

Ranks     == 0..3
NoRoles   == [g \in Groups |-> 0]
Uncached  == [roles |-> NoRoles, left |-> 0]
LongAgo   == CacheTTL + LoadTicks + 1
Here(g)   == groups[g] = "here"
NoSession == [pc |-> "idle", op |-> "none", who |-> CHOOSE u \in Users : TRUE,
              user |-> CHOOSE u \in Users : TRUE, group |-> Legacy,
              res |-> CHOOSE r \in Resources : TRUE, rank |-> 0, brings |-> "name",
              roles |-> NoRoles, age |-> 0]
NoFill    == [pc |-> "list", refs |-> {}, ref |-> {}, listed |-> {}, excused |-> {}]

AccessTypeOK ==
  /\ users \in [Users -> [here : BOOLEAN, admin : BOOLEAN, named : BOOLEAN]]
  /\ groups \in [Groups -> {"new", "here", "gone"}] /\ made \in [Resources -> {"new", "made", "gone"}]
  /\ member \in [Users -> [Groups -> Ranks]]
  /\ \A r \in Resources : Cardinality(place[r]) <= 1 /\ \A g \in place[r] : Here(g)
  /\ \A u \in Users, g \in Groups :
       member[u][g] > 0 => users[u].here /\ Here(g)
  /\ \A u \in Users : cache[u].left <= CacheTTL /\ tracked[u] <= PersistTTL

AccessInit ==
  /\ users = [u \in Users |-> [here |-> TRUE, admin |-> u \in Admins, named |-> TRUE]]
  /\ groups \in {f \in [Groups -> {"new", "here"}] : f[Legacy] = "here"}
  /\ member \in {m \in [Users -> [Groups -> {0, 3}]] :
                   \A g \in Groups : Here(g) /\ g # Legacy <=> \E u \in Users : m[u][g] = 3}
  /\ made = [r \in Resources |-> IF r \in Standing THEN "made" ELSE "new"]
  /\ place \in [Resources -> {{}} \cup {{g} : g \in {h \in Groups : Here(h)}}]
  /\ \A r \in Resources \ Standing : place[r] = {}
  /\ cache = [u \in Users |-> Uncached]
  /\ tracked = [u \in Users |-> 0]
  /\ session = [s \in Sessions |-> NoSession]
  /\ fill = NoFill
  /\ requests = 0 /\ accessFaults = 0
  /\ since = [u \in Users |-> [g \in Groups |-> [k \in 1..3 |->
                IF member[u][g] >= k THEN 0 ELSE LongAgo]]]
  /\ overlapped = FALSE /\ unsaved = {} /\ skipped = {}

-------------------------------------------------------------------------------
(***************************************************************************)
(* Sessions.                                                               *)
(***************************************************************************)
AccessFault == accessFaults < MaxAccessFaults /\ accessFaults' = accessFaults + 1
Goes(s, pc) == session' = [session EXCEPT ![s].pc = pc]
Answers(s)  == session' = [session EXCEPT ![s] = NoSession]
At(s, pc)   == session[s].pc = pc

\* The operations and the gate each stands behind.
AdminOnly == {"create", "promote", "demote", "delete", "sync"}
OfGroup   == {"make", "rename", "ungroup", "grant", "revoke"}
OfRes     == {"read", "write", "drop"}
Open      == {"group", "me", "use"}
Needs(op) == CASE op \in {"rename", "ungroup", "grant", "revoke"} -> 3
               [] op \in {"make", "write", "drop"} -> 2
               [] OTHER -> 1

\* Past its gate, a request starts its body.
Body(op) == CASE op \in {"demote", "delete"} -> "target" [] op = "me" -> "upsert" [] OTHER -> op

\* What is known of the caller: a token's claims, or for a personal access token the
\* name in his row, which may be cleared.
Claims == {"name", "email", "nothing"}

\* A signed-in user calls; shouldPersist notes the time before anything is upserted, also
\* when nothing is.
Calls(s, op, who, user, group, res, rank) ==
  /\ At(s, "idle") /\ requests < MaxRequests
  /\ requests' = requests + 1
  /\ LET asked == [NoSession EXCEPT !.op = op, !.who = who, !.user = user, !.group = group,
                                    !.res = res, !.rank = rank]
     IN IF tracked[who] = 0
        THEN /\ tracked' = [tracked EXCEPT ![who] = PersistTTL]
             /\ \E brings \in Claims :
                  IF brings = "nothing"
                  THEN /\ session' = [session EXCEPT ![s] = [asked EXCEPT !.pc = "gate"]]
                       /\ skipped' = skipped \cup {who}
                  ELSE /\ session' = [session EXCEPT ![s] =
                            [asked EXCEPT !.pc = "persist", !.brings = brings]]
                       /\ skipped' = skipped \ {who}
        ELSE /\ session' = [session EXCEPT ![s] = [asked EXCEPT !.pc = "gate"]]
             /\ UNCHANGED <<tracked, skipped>>
  /\ UNCHANGED <<registry, unused, cache, accessFaults, overlapped, unsaved>>

\* UpsertUser keeps what it is not given, the administrator flag with it.
Upserted(u, brings) ==
  [users EXCEPT ![u] = [here |-> TRUE, admin |-> users[u].here /\ users[u].admin,
                        named |-> brings = "name" \/ (users[u].here /\ users[u].named)]]
Upserts(u, brings) ==
  /\ users' = Upserted(u, brings)
  /\ unsaved' = IF brings = "name" THEN unsaved \ {u} ELSE unsaved \cup {u}

\* IdentityPersistMiddleware: a failure is logged and the request goes on.
PersistIdentity(s) ==
  /\ At(s, "persist")
  /\ \/ Upserts(session[s].who, session[s].brings) /\ UNCHANGED accessFaults
     \/ /\ AccessFault /\ unsaved' = unsaved \cup {session[s].who}
        /\ UNCHANGED users
  /\ session' = [session EXCEPT ![s].pc = "gate", ![s].brings = "name"]
  /\ UNCHANGED <<groups, member, since, unused, cache, tracked, requests, overlapped, skipped>>

(***************************************************************************)
(* The gates: requireAdmin, requireGroupOwner, requireGroupWrite,          *)
(* requireRead and requireWrite, over the Checker.                         *)
(***************************************************************************)
StillRegistry == UNCHANGED <<registry, unused, tracked, requests, overlapped, unsaved, skipped>>

\* roleCovers decides: past the gate, or 403.
Decides(s, roles) ==
  IF roles[session[s].group] >= Needs(session[s].op) THEN Goes(s, Body(session[s].op))
  ELSE Answers(s)

\* IsAdmin: a caller without a row gets an error.
IsAdmin(s) ==
  /\ At(s, "gate")
  /\ LET op == session[s].op  caller == users[session[s].who]
     IN \/ op \in Open /\ Goes(s, Body(op)) /\ UNCHANGED accessFaults
        \/ /\ op \notin Open /\ UNCHANGED accessFaults
           /\ CASE ~caller.here             -> Answers(s)
                [] caller.here /\ caller.admin -> Goes(s, Body(op))
                [] OTHER -> IF op \in AdminOnly THEN Answers(s)
                            ELSE Goes(s, IF op \in OfRes THEN "place" ELSE "cached")
        \/ op \notin Open /\ AccessFault /\ Answers(s)
  /\ StillRegistry /\ UNCHANGED cache

\* GetResourceGroup: without a mapping, closed.
FindPlace(s) ==
  /\ At(s, "place")
  /\ IF place[session[s].res] = {} THEN Answers(s)
     ELSE session' = [session EXCEPT ![s].pc = "cached",
                                     ![s].group = CHOOSE g \in place[session[s].res] : TRUE]
  /\ StillRegistry /\ UNCHANGED <<cache, accessFaults>>

\* UserRoles, the entry that is fresh.
CachedRolesAlways(s) ==
  /\ At(s, "cached")
  /\ LET entry == cache[session[s].who]
     IN IF entry.roles # NoRoles THEN Decides(s, entry.roles) ELSE Goes(s, "load")
  /\ StillRegistry /\ UNCHANGED <<cache, accessFaults>>

CachedRoles(s) ==
  /\ At(s, "cached")
  /\ LET entry == cache[session[s].who]
     IN IF entry.left > 0 THEN Decides(s, entry.roles) ELSE Goes(s, "load")
  /\ StillRegistry /\ UNCHANGED <<cache, accessFaults>>

\* UserRoles, no entry that is fresh: the loader runs outside the lock.
LoadRoles(s) ==
  /\ At(s, "load")
  /\ \/ /\ session' = [session EXCEPT ![s].pc = "store", ![s].age = 0,
                                      ![s].roles = member[session[s].who]]
        /\ UNCHANGED accessFaults
     \/ AccessFault /\ Answers(s)
  /\ StillRegistry /\ UNCHANGED cache

\* The later of two loads to finish is kept, were it the earlier to read.
StoreRoles(s) ==
  /\ At(s, "store")
  /\ cache' = [cache EXCEPT ![session[s].who] = [roles |-> session[s].roles, left |-> CacheTTL]]
  /\ Decides(s, session[s].roles)
  /\ StillRegistry /\ UNCHANGED accessFaults

(***************************************************************************)
(* Users.                                                                  *)
(***************************************************************************)
AdminsNow == {u \in Users : users[u].here /\ users[u].admin}
StillRest(s) == UNCHANGED <<unused, cache, requests>>

\* A guarded request past its count of administrators has yet to act on it.
PastCount(t) == session[t].pc \in {"clear", "remove"}
Overlaps(s)  == \E t \in Sessions \ {s} : PastCount(t)

\* handleCreateUser: the insert fails when the identifier is taken.
CreateUser(s) ==
  /\ At(s, "create")
  /\ LET u == session[s].user
     IN IF users[u].here THEN UNCHANGED users
        ELSE \E admin \in BOOLEAN :
               users' = [users EXCEPT ![u] = [here |-> TRUE, admin |-> admin, named |-> TRUE]]
  /\ Answers(s)
  /\ StillRest(s)
  /\ UNCHANGED <<groups, member, since, tracked, accessFaults, overlapped, unsaved, skipped>>

\* handleUser PATCH, isAdmin: true.
Promote(s) ==
  /\ At(s, "promote")
  /\ LET u == session[s].user
     IN users' = IF users[u].here THEN [users EXCEPT ![u].admin = TRUE] ELSE users
  /\ Answers(s)
  /\ StillRest(s)
  /\ UNCHANGED <<groups, member, since, tracked, accessFaults, overlapped, unsaved, skipped>>

\* The guard of handleUser PATCH and of handleDeleteUser: the target is read, and
\* administrators are counted only if it is one.
FindTarget(s) ==
  /\ At(s, "target")
  /\ LET req == session[s]  last == IF req.op = "demote" THEN "clear" ELSE "remove"
     IN CASE req.op = "delete" /\ req.user = req.who -> Answers(s)
          [] ~users[req.user].here                   -> Answers(s)
          [] OTHER -> Goes(s, IF users[req.user].admin THEN "count" ELSE last)
  /\ UNCHANGED <<registry, tracked, accessFaults, overlapped, unsaved, skipped>> /\ StillRest(s)

CountNoAdmins(s) ==
  /\ At(s, "count")
  /\ IF Cardinality(AdminsNow) < 1 THEN Answers(s)
     ELSE Goes(s, IF session[s].op = "demote" THEN "clear" ELSE "remove")
  /\ UNCHANGED <<registry, tracked, accessFaults, overlapped, unsaved, skipped>> /\ StillRest(s)

CountAdmins(s) ==
  /\ At(s, "count")
  /\ IF Cardinality(AdminsNow) <= 1 THEN Answers(s)
     ELSE Goes(s, IF session[s].op = "demote" THEN "clear" ELSE "remove")
  /\ UNCHANGED <<registry, tracked, accessFaults, overlapped, unsaved, skipped>> /\ StillRest(s)

\* SetAdmin(false)
ClearAdmin(s) ==
  /\ At(s, "clear")
  /\ users' = [users EXCEPT ![session[s].user].admin = FALSE]
  /\ overlapped' = (overlapped \/ Overlaps(s))
  /\ Answers(s)
  /\ StillRest(s) /\ UNCHANGED <<groups, member, since, tracked, accessFaults, unsaved, skipped>>

\* DeleteUser: memberships cascade; neither the cache nor the tracker is told.
DeleteUser(s) ==
  /\ At(s, "remove")
  /\ LET u == session[s].user
     IN /\ users' = [users EXCEPT ![u] = [here |-> FALSE, admin |-> FALSE, named |-> FALSE]]
        /\ member' = [member EXCEPT ![u] = NoRoles]
  /\ overlapped' = (overlapped \/ Overlaps(s))
  /\ Answers(s)
  /\ StillRest(s) /\ UNCHANGED <<groups, since, tracked, accessFaults, unsaved, skipped>>

\* handleUserSync of another user: ClearUsername, then the tracker is told.
ClearUsername(s) ==
  /\ At(s, "sync")
  /\ LET u == session[s].user
     IN IF users[u].here
        THEN users' = [users EXCEPT ![u].named = FALSE] /\ Goes(s, "invalidate")
        ELSE UNCHANGED users /\ Answers(s)
  /\ StillRest(s)
  /\ UNCHANGED <<groups, member, since, tracked, accessFaults, overlapped, unsaved, skipped>>

InvalidateNobody(s) ==
  /\ At(s, "invalidate")
  /\ Answers(s)
  /\ StillRest(s) /\ UNCHANGED <<registry, tracked, accessFaults, overlapped, unsaved, skipped>>

Invalidate(s) ==
  /\ At(s, "invalidate")
  /\ LET u == session[s].user
     IN /\ tracked' = [tracked EXCEPT ![u] = 0]
        /\ unsaved' = unsaved \ {u} /\ skipped' = skipped \ {u}
  /\ Answers(s)
  /\ StillRest(s) /\ UNCHANGED <<registry, accessFaults, overlapped>>

\* handleUserSync of oneself: what the token or the userinfo endpoint says is upserted.
SyncMe(s) ==
  /\ At(s, "upsert")
  /\ \/ (\E brings \in Claims : Upserts(session[s].who, brings)) /\ UNCHANGED accessFaults
     \/ AccessFault /\ UNCHANGED <<users, unsaved>>
  /\ Answers(s)
  /\ StillRest(s) /\ UNCHANGED <<groups, member, since, tracked, overlapped, skipped>>

(***************************************************************************)
(* Groups and their members.                                               *)
(***************************************************************************)
StillUsers == UNCHANGED <<users, cache, tracked, requests, overlapped, unsaved, skipped>>

\* AddGroupMember is an upsert; both keys must be there.
MayJoin(u, g) == users[u].here /\ Here(g)
Joins(u, g, rank) ==
  /\ member' = [member EXCEPT ![u][g] = rank]
  /\ since' = [since EXCEPT ![u][g] = [k \in 1..3 |-> IF rank >= k THEN 0 ELSE since[u][g][k]]]

\* handleGroups POST: the group, then its owner; without the second it has none.
CreateGroup(s) ==
  /\ At(s, "group")
  /\ \E g \in Groups :
       /\ groups[g] = "new"
       /\ groups' = [groups EXCEPT ![g] = "here"]
       /\ session' = [session EXCEPT ![s].pc = "own", ![s].group = g]
  /\ UNCHANGED <<member, since, unused, accessFaults>> /\ StillUsers

OwnGroup(s) ==
  /\ At(s, "own")
  /\ LET u == session[s].who  g == session[s].group
     IN \/ MayJoin(u, g) /\ Joins(u, g, 3) /\ UNCHANGED accessFaults
        \/ ~MayJoin(u, g) /\ UNCHANGED <<member, since, accessFaults>>
        \/ AccessFault /\ UNCHANGED <<member, since>>
  /\ Answers(s)
  /\ UNCHANGED <<groups, unused>> /\ StillUsers

\* DeleteGroup: memberships and resource_groups cascade.
DeleteGroup(s) ==
  /\ At(s, "ungroup")
  /\ LET g == session[s].group
         orphans == {r \in Resources : place[r] = {g}}
     IN IF Here(g)
        THEN /\ groups' = [groups EXCEPT ![g] = "gone"]
             /\ member' = [u \in Users |-> [member[u] EXCEPT ![g] = 0]]
             /\ place' = [r \in Resources |-> place[r] \ {g}]
             /\ fill' = [fill EXCEPT !.excused = @ \cup orphans]
        ELSE UNCHANGED <<groups, member, place, fill>>
  /\ Answers(s)
  /\ UNCHANGED <<since, made, accessFaults>> /\ StillUsers

\* handleGroupMembers POST, for one of its users: the loop stops at the first error.
AddMember(s) ==
  /\ At(s, "grant")
  /\ LET u == session[s].user  g == session[s].group
     IN IF MayJoin(u, g) THEN Joins(u, g, session[s].rank) ELSE UNCHANGED <<member, since>>
  /\ Answers(s)
  /\ UNCHANGED <<groups, unused, accessFaults>> /\ StillUsers

\* handleGroupMembers DELETE: the cache is not told.
RemoveMember(s) ==
  /\ At(s, "revoke")
  /\ member' = [member EXCEPT ![session[s].user][session[s].group] = 0]
  /\ Answers(s)
  /\ UNCHANGED <<groups, since, unused, accessFaults>> /\ StillUsers

(***************************************************************************)
(* Resources, as the handlers of their kinds create and delete them.       *)
(***************************************************************************)
CreateResource(s) ==
  /\ At(s, "make")
  /\ \E r \in Resources :
       /\ made[r] = "new"
       /\ made' = [made EXCEPT ![r] = "made"]
       /\ session' = [session EXCEPT ![s].pc = "assign", ![s].res = r]
  /\ UNCHANGED <<registry, place, fill, accessFaults>> /\ StillUsers

\* SetResourceGroup: a failure is logged and the resource stays without a group.
AssignGroup(s) ==
  /\ At(s, "assign")
  /\ LET g == session[s].group
     IN \/ Here(g) /\ place' = [place EXCEPT ![session[s].res] = {g}] /\ UNCHANGED accessFaults
        \/ ~Here(g) /\ UNCHANGED <<place, accessFaults>>
        \/ AccessFault /\ UNCHANGED place
  /\ Answers(s)
  /\ UNCHANGED <<registry, made, fill>> /\ StillUsers

DeleteResource(s) ==
  /\ At(s, "drop")
  /\ IF made[session[s].res] = "made"
     THEN made' = [made EXCEPT ![session[s].res] = "gone"] /\ Goes(s, "unplace")
     ELSE UNCHANGED made /\ Answers(s)
  /\ UNCHANGED <<registry, place, fill, accessFaults>> /\ StillUsers

DropPlace(s) ==
  /\ At(s, "unplace")
  /\ \/ place' = [place EXCEPT ![session[s].res] = {}] /\ UNCHANGED accessFaults
     \/ AccessFault /\ UNCHANGED place
  /\ Answers(s)
  /\ UNCHANGED <<registry, made, fill>> /\ StillUsers

\* A request whose body is of no interest here.
Answer(s) ==
  /\ session[s].pc \in {"read", "write", "use", "rename"}
  /\ Answers(s)
  /\ UNCHANGED <<registry, unused, accessFaults>> /\ StillUsers

(***************************************************************************)
(* runBackfill, once after every start.                                    *)
(***************************************************************************)
StillFill == UNCHANGED <<registry, made, session, accessFaults>> /\ StillUsers

\* collectResourceRefs
FillList ==
  /\ fill.pc = "list"
  /\ LET refs == {r \in Resources : made[r] = "made"}
     IN fill' = [NoFill EXCEPT !.pc = "each", !.refs = refs, !.listed = refs]
  /\ UNCHANGED place /\ StillFill

\* GetResourceGroup: whatever the error, a group is set.
FillGet ==
  /\ fill.pc = "each"
  /\ \E r \in fill.refs :
       LET rest == [fill EXCEPT !.refs = @ \ {r}]
       IN \/ /\ fill' = IF place[r] # {} THEN rest
                        ELSE [rest EXCEPT !.pc = "set", !.ref = {r}]
             /\ UNCHANGED accessFaults
          \/ AccessFault /\ fill' = [rest EXCEPT !.pc = "set", !.ref = {r}]
  /\ UNCHANGED <<registry, made, place, session>> /\ StillUsers

FillSetNothing ==
  /\ fill.pc = "set"
  /\ fill' = [fill EXCEPT !.pc = "each", !.ref = {}]
  /\ UNCHANGED place /\ StillFill

\* SetResourceGroup to the legacy group, over whatever is there by now.
FillSet ==
  /\ fill.pc = "set"
  /\ IF Here(Legacy)
     THEN /\ place' = [r \in Resources |-> IF r \in fill.ref THEN {Legacy} ELSE place[r]]
          /\ fill' = [fill EXCEPT !.pc = "each", !.ref = {}]
     ELSE UNCHANGED place /\ fill' = [fill EXCEPT !.pc = "failed"]
  /\ StillFill

FillDone ==
  /\ fill.pc = "each" /\ fill.refs = {}
  /\ fill' = [fill EXCEPT !.pc = "done"]
  /\ UNCHANGED place /\ StillFill

FillFails ==
  /\ fill.pc \in {"list", "set"} /\ AccessFault
  /\ fill' = [fill EXCEPT !.pc = "failed"]
  /\ UNCHANGED <<registry, made, place, session>> /\ StillUsers

(***************************************************************************)
(* The hub restarts: the cache, the tracker and what was in flight go.     *)
(***************************************************************************)
AccessRestart ==
  /\ AccessFault
  /\ cache' = [u \in Users |-> Uncached]
  /\ tracked' = [u \in Users |-> 0]
  /\ session' = [s \in Sessions |-> NoSession]
  /\ fill' = NoFill
  /\ UNCHANGED <<registry, made, place, requests, overlapped, unsaved, skipped>>

Sooner(n) == IF n = 0 THEN 0 ELSE n - 1

AccessTick ==
  /\ \A s \in Sessions : At(s, "store") => session[s].age < LoadTicks
  /\ session' = [s \in Sessions |->
       IF At(s, "store") THEN [session[s] EXCEPT !.age = @ + 1] ELSE session[s]]
  /\ cache' = [u \in Users |-> [cache[u] EXCEPT !.left = Sooner(@)]]
  /\ tracked' = [u \in Users |-> Sooner(tracked[u])]
  /\ since' = [u \in Users |-> [g \in Groups |-> [k \in 1..3 |->
       IF member[u][g] >= k THEN 0
       ELSE IF since[u][g][k] = LongAgo THEN LongAgo ELSE since[u][g][k] + 1]]]
  /\ UNCHANGED <<users, groups, member, unused, requests, accessFaults, overlapped, unsaved, skipped>>

-------------------------------------------------------------------------------
Call(s) ==
  \E who, user \in Users, group \in Groups, res \in Resources :
    \/ \E op \in AdminOnly : group = Legacy /\ res = NoSession.res
                             /\ Calls(s, op, who, user, group, res, 0)
    \/ \E op \in {"grant"}, rank \in 1..3 :
         res = NoSession.res /\ Here(group) /\ Calls(s, op, who, user, group, res, rank)
    \/ res = NoSession.res /\ Here(group) /\ Calls(s, "revoke", who, user, group, res, 0)
    \/ \E op \in {"make", "rename", "ungroup"} :
         user = who /\ res = NoSession.res /\ Calls(s, op, who, user, group, res, 0)
    \/ \E op \in OfRes : user = who /\ group = Legacy /\ Calls(s, op, who, user, group, res, 0)
    \/ \E op \in Open : user = who /\ group = Legacy /\ res = NoSession.res
                        /\ Calls(s, op, who, user, group, res, 0)

Handle(s) ==
  \/ PersistIdentity(s) \/ IsAdmin(s) \/ FindPlace(s)
  \/ CachedRoles(s) \/ LoadRoles(s) \/ StoreRoles(s)
  \/ CreateUser(s) \/ Promote(s) \/ FindTarget(s) \/ CountAdmins(s) \/ ClearAdmin(s)
  \/ DeleteUser(s) \/ ClearUsername(s) \/ Invalidate(s) \/ SyncMe(s)
  \/ CreateGroup(s) \/ OwnGroup(s) \/ DeleteGroup(s) \/ AddMember(s) \/ RemoveMember(s)
  \/ CreateResource(s) \/ AssignGroup(s) \/ DeleteResource(s) \/ DropPlace(s) \/ Answer(s)

Backfill == FillList \/ FillGet \/ FillSet \/ FillDone \/ FillFails

AccessNext ==
  \/ \E s \in Sessions : Call(s) \/ Handle(s)
  \/ Backfill \/ AccessRestart \/ AccessTick

AccessSpec == AccessInit /\ [][AccessNext]_accessVars

-------------------------------------------------------------------------------
\* A request passes a gate of a group only with a rank the caller holds, or held no
\* longer ago than a cached entry lives and a load takes: nothing tells the cache
\* that a member was removed, demoted or deleted, or a group (cache.go, UserRoles).
Passes(s) == session[s].pc \in {"cached", "store"}
             /\ session'[s].pc = Body(session[s].op)
AccessExpires ==
  [][\A s \in Sessions : Passes(s) =>
       since[session[s].who][session[s].group][Needs(session[s].op)] <= CacheTTL + LoadTicks]_accessVars

\* "Protect the last admin" (handlers_users.go): demotions and deletions that do not
\* overlap leave an administrator; two that do may leave none.
AdminRemains == overlapped \/ AdminsNow # {}

\* Without a name, and no request of his will be upserted for a while.
HeldBack(u) ==
  /\ users[u].here /\ ~users[u].named /\ tracked[u] > 0
  /\ ~ \E s \in Sessions : At(s, "invalidate") /\ session[s].user = u
  /\ ~ \E s \in Sessions : At(s, "persist") /\ session[s].who = u

\* Nothing holds back a user whose name was cleared but a request of his own since: the
\* tracker has no entry of him, whenever the requests under way finish, unless the last
\* request it let through brought no name or its upsert failed (identity_persist.go,
\* handleUserSync).
SyncRepopulates ==
  \A u \in Users : HeldBack(u) => u \in unsaved \cup skipped

\* Once the backfill is done, a resource it listed is in a group, unless its group
\* was deleted since (backfill.go): the next start heals that one.
BackfillHeals ==
  fill.pc = "done" => \A r \in fill.listed :
    made[r] = "made" => place[r] # {} \/ r \in fill.excused
===============================================================================
