------------------------------ MODULE TriggerDesk ------------------------------
(***************************************************************************)
(* The trigger requests and the loop that carries the rows into memory:    *)
(* services/hub/internal/api/handlers_triggers.go and                      *)
(* handlers_cron_triggers.go, the statements of                            *)
(* services/hub/internal/triggers/store.go, and the sync of                *)
(* cmd/hub/sync.go into the trigger index (internal/trigger/index.go) and, *)
(* for cron triggers, into the emitter's entries.                          *)
(*                                                                         *)
(* A row holds references (an agent, a connector or a schedule), a flag    *)
(* for each that says it was found, and the rest of its fields as one      *)
(* value.  A request is several statements and lookups; SELECT ... FOR     *)
(* UPDATE runs outside a transaction, so its lock is gone when the UPDATE  *)
(* is sent.                                                                *)
(***************************************************************************)
EXTENDS Naturals, FiniteSets

CONSTANTS
  Hooks, Jobs,      \* webhook trigger and cron trigger ids
  Targets,          \* what an agent or connector reference can name
  Contents,         \* what name, filters, prompt and enabled can say
  Typists,          \* the users' requests in flight
  MaxTriggerAsks,   \* bound: requests
  MaxTriggerUpsets  \* bound: targets that come or go, statements that fail, crashes

ASSUME TriggerDeskAssumption ==
  /\ Hooks \intersect Jobs = {} /\ Contents # {}
  /\ {MaxTriggerAsks, MaxTriggerUpsets} \subseteq Nat

VARIABLES
  sheet,     \* sheet[t]: the row of the trigger in the database
  alive,     \* the targets that exist in the cluster
  typist,    \* where each request stands
  grouped,   \* the triggers with a resource_groups row
  index,     \* index[t]: the copy in memory
  syncPass,  \* where the sync stands: the rows it listed and those still to apply
  asked, upsetsT

\* History, read by properties only.
VARIABLES
  proved,    \* the references of each row found to exist since they were set
  crossed    \* the triggers with overlapping requests since one ran alone to its end

deskBounds == <<asked, upsetsT>>
triggerVars == <<sheet, alive, typist, grouped, index, syncPass, deskBounds, proved, crossed>>

TriggerIds == Hooks \union Jobs
Fields(t) == IF t \in Hooks THEN {"agent", "connector"} ELSE {"agent", "schedule"}

Keep == "keep"
Sheets(t) == [there: {TRUE}, ref: [Fields(t) -> Targets], ok: [Fields(t) -> BOOLEAN],
              rest: Contents]
NoSheet(t) == [there |-> FALSE, ref |-> [f \in Fields(t) |-> Keep],
               ok |-> [f \in Fields(t) |-> FALSE], rest |-> Keep]
Away == [pc |-> "away"]
Resting == [pc |-> "resting"]

TriggerDeskTypeOK ==
  /\ \A t \in TriggerIds : /\ sheet[t] \in Sheets(t) \union {NoSheet(t)}
                           /\ index[t] \in Sheets(t) \union {NoSheet(t)}
                           /\ proved[t] \subseteq Fields(t)
  /\ alive \subseteq Targets
  /\ \A c \in Typists : typist[c].pc \in {"away", "write", "look", "insert", "group",
                                          "flags", "ungroup"}
  /\ grouped \subseteq TriggerIds /\ crossed \subseteq TriggerIds
  /\ syncPass.pc \in {"resting", "apply", "prune"}
  /\ asked \in 0..MaxTriggerAsks /\ upsetsT \in 0..MaxTriggerUpsets

Referring(t, x) == [there |-> TRUE, ref |-> [f \in Fields(t) |-> x],
                    ok |-> [f \in Fields(t) |-> TRUE], rest |-> CHOOSE m \in Contents : TRUE]

\* The hub starts over the rows of an earlier one.
TriggerDeskInit ==
  /\ alive \in SUBSET Targets
  /\ \E held \in [TriggerIds -> Targets \union {Keep}] :
       sheet = [t \in TriggerIds |-> IF held[t] \in alive THEN Referring(t, held[t])
                                     ELSE NoSheet(t)]
  /\ grouped = {t \in TriggerIds : sheet[t].there}
  /\ proved = [t \in TriggerIds |-> IF sheet[t].there THEN Fields(t) ELSE {}]
  /\ typist = [c \in Typists |-> Away]
  /\ crossed = {}
  /\ index = [t \in TriggerIds |-> NoSheet(t)]
  /\ syncPass = Resting
  /\ asked = 0 /\ upsetsT = 0

-------------------------------------------------------------------------------
(* Requests                                                                    *)

Upset == upsetsT < MaxTriggerUpsets /\ upsetsT' = upsetsT + 1

\* An agent or a connector is created or deleted: no trigger's flags change.
TargetComesOrGoes(x) ==
  /\ Upset
  /\ alive' = IF x \in alive THEN alive \ {x} ELSE alive \union {x}
  /\ UNCHANGED <<sheet, typist, grouped, index, syncPass, asked, proved, crossed>>

\* A schedule was parsed before any statement: its flag is set without a look.
Parsed(f) == f = "schedule"

\* agentExists and connectorExists.
Exists(f, x) == Parsed(f) \/ x \in alive

Others(c, t) == {d \in Typists \ {c} : typist[d].pc # "away" /\ typist[d].trigger = t}

\* The request enters; every request on the same trigger has company from now on.
Enter(c, t, request) ==
  /\ typist[c] = Away
  /\ asked < MaxTriggerAsks /\ asked' = asked + 1
  /\ typist' = [d \in Typists |->
       IF d = c THEN request ELSE
       IF d \in Others(c, t) THEN [typist[d] EXCEPT !.alone = FALSE] ELSE typist[d]]
  /\ crossed' = IF Others(c, t) = {} THEN crossed ELSE crossed \union {t}

Proceed(c, to) == typist' = [typist EXCEPT ![c] = to]
Leave(c) == Proceed(c, Away)

\* createTrigger: the references are looked up before the row is there.
AskCreate(c, t, refs, rest) ==
  /\ ~sheet[t].there /\ Others(c, t) = {} /\ t \notin grouped
  /\ Enter(c, t, [pc |-> "look", trigger |-> t, kind |-> "create", alone |-> TRUE,
                  row |-> [there |-> TRUE, ref |-> refs, rest |-> rest,
                           ok |-> [f \in Fields(t) |-> FALSE]],
                  found |-> {}, left |-> Fields(t)])
  /\ UNCHANGED <<sheet, alive, grouped, index, syncPass, upsetsT, proved>>

\* The references an update names: their flags fall, changed or not.
Named(want) == {f \in DOMAIN want : want[f] # Keep}

\* Mutant: the flags of a reference stand until the next validation.
MergedTrusting(old, want, rest) ==
  [old EXCEPT !.ref = [f \in DOMAIN want |-> IF want[f] = Keep THEN old.ref[f] ELSE want[f]],
              !.rest = IF rest = Keep THEN @ ELSE rest]

\* UpdateTrigger's row: a reference the request names loses its flag.
Merged(old, want, rest) ==
  [old EXCEPT !.ref = [f \in DOMAIN want |-> IF f \in Named(want) THEN want[f] ELSE old.ref[f]],
              !.ok = [f \in DOMAIN want |-> old.ok[f] /\ f \notin Named(want)],
              !.rest = IF rest = Keep THEN @ ELSE rest]

\* SELECT ... FOR UPDATE: the lock ends with the statement.
AskUpdate(c, t, want, rest) ==
  /\ sheet[t].there
  /\ Enter(c, t, [pc |-> "write", trigger |-> t, kind |-> "update",
                  alone |-> Others(c, t) = {},
                  row |-> Merged(sheet[t], want, rest), named |-> Named(want),
                  found |-> {}, left |-> Fields(t)])
  /\ UNCHANGED <<sheet, alive, grouped, index, syncPass, upsetsT, proved>>

\* The UPDATE of every column; of a row deleted meanwhile it changes nothing and
\* the request does not notice.
WriteSheet(c) ==
  LET p == typist[c] IN
  /\ p.pc = "write"
  /\ IF sheet[p.trigger].there
     THEN /\ sheet' = [sheet EXCEPT ![p.trigger] = p.row]
          /\ proved' = [proved EXCEPT ![p.trigger] =
               {f \in @ \ p.named : p.row.ref[f] = sheet[p.trigger].ref[f]}]
     ELSE UNCHANGED <<sheet, proved>>
  /\ Proceed(c, [p EXCEPT !.pc = "look"])
  /\ UNCHANGED <<alive, grouped, index, syncPass, deskBounds, crossed>>

\* validateTriggerRefs: the agent, then the other reference.
Look(c, f) ==
  LET p == typist[c]
      found == IF Exists(f, p.row.ref[f]) THEN p.found \union {f} ELSE p.found IN
  /\ p.pc = "look" /\ f \in p.left
  /\ (f # "agent" => "agent" \notin p.left)
  /\ Proceed(c, [p EXCEPT !.found = found, !.left = @ \ {f}, !.pc =
       IF p.left # {f} THEN "look" ELSE IF p.kind = "create" THEN "insert" ELSE "flags"])
  /\ proved' = IF /\ p.kind = "update" /\ f \in found
                  /\ sheet[p.trigger].ref[f] = p.row.ref[f]
               THEN [proved EXCEPT ![p.trigger] = @ \union {f}] ELSE proved
  /\ UNCHANGED <<sheet, alive, grouped, index, syncPass, deskBounds, crossed>>

Flagged(p) == [p.row EXCEPT !.ok = [f \in DOMAIN @ |-> f \in p.found]]

InsertSheet(c) ==
  LET p == typist[c] IN
  /\ p.pc = "insert"
  /\ sheet' = [sheet EXCEPT ![p.trigger] = Flagged(p)]
  /\ proved' = [proved EXCEPT ![p.trigger] = p.found]
  /\ Proceed(c, [p EXCEPT !.pc = "group"])
  /\ UNCHANGED <<alive, grouped, index, syncPass, deskBounds, crossed>>

\* SetResourceGroup and DeleteResourceGroup: an error is logged, no more.
SetGroup(c) ==
  LET p == typist[c] IN
  /\ p.pc \in {"group", "ungroup"}
  /\ \/ /\ grouped' = IF p.pc = "group" THEN grouped \union {p.trigger}
                      ELSE grouped \ {p.trigger}
        /\ UNCHANGED upsetsT
     \/ Upset /\ UNCHANGED grouped
  /\ Leave(c)
  /\ UNCHANGED <<sheet, alive, index, syncPass, asked, proved, crossed>>

\* SetTriggerValidity: both flags, on whatever the row refers to by now; an
\* error is logged and the answer still tells the flags found.
SetValidity(c) ==
  LET p == typist[c] IN
  /\ p.pc = "flags"
  /\ \/ /\ sheet' = IF sheet[p.trigger].there
                    THEN [sheet EXCEPT ![p.trigger].ok = [f \in Fields(p.trigger) |-> f \in p.found]]
                    ELSE sheet
        /\ crossed' = IF p.alone THEN crossed \ {p.trigger} ELSE crossed
        /\ UNCHANGED upsetsT
     \/ Upset /\ UNCHANGED <<sheet, crossed>>
  /\ Leave(c)
  /\ UNCHANGED <<alive, grouped, index, syncPass, asked, proved>>

DeleteSheet(c, t) ==
  /\ sheet[t].there
  /\ Enter(c, t, [pc |-> "ungroup", trigger |-> t, alone |-> Others(c, t) = {}])
  /\ sheet' = [sheet EXCEPT ![t] = NoSheet(t)]
  /\ proved' = [proved EXCEPT ![t] = {}]
  /\ UNCHANGED <<alive, grouped, index, syncPass, upsetsT>>

-------------------------------------------------------------------------------
(* syncTriggersFromDB: every 30 seconds                                        *)

\* ListTriggers or ListCronTriggers; a failed one leaves its half of the index alone.
SyncLists ==
  /\ syncPass = Resting
  /\ \E kinds \in {{}, Hooks, Jobs, TriggerIds} :
       /\ IF kinds = TriggerIds THEN UNCHANGED upsetsT ELSE Upset
       /\ LET seen == {t \in kinds : sheet[t].there} IN
          syncPass' = [pc |-> "apply", rows |-> [t \in seen |-> sheet[t]],
                       kinds |-> kinds, left |-> seen]
  /\ UNCHANGED <<sheet, alive, typist, grouped, index, asked, proved, crossed>>

\* Index.Update, Emitter.Upsert
SyncApplies(t) ==
  /\ syncPass.pc = "apply" /\ t \in syncPass.left
  /\ index' = [index EXCEPT ![t] = syncPass.rows[t]]
  /\ syncPass' = [syncPass EXCEPT !.left = @ \ {t}]
  /\ UNCHANGED <<sheet, alive, typist, grouped, deskBounds, proved, crossed>>

\* Mutant: what the listing no longer has stays in memory.
UnseenNot(seen, kinds) == {}
\* Keys() less the ids listed.
Unseen(seen, kinds) == {t \in kinds : index[t].there} \ seen

SyncPrunes ==
  /\ syncPass.pc = "apply" /\ syncPass.left = {}
  /\ LET gone == Unseen(DOMAIN syncPass.rows, syncPass.kinds) IN
     index' = [t \in TriggerIds |-> IF t \in gone THEN NoSheet(t) ELSE index[t]]
  /\ syncPass' = Resting
  /\ UNCHANGED <<sheet, alive, typist, grouped, deskBounds, proved, crossed>>

\* The hub restarts with an empty index; requests end where they stand.
HubRestarts ==
  /\ Upset
  /\ typist' = [c \in Typists |-> Away]
  /\ index' = [t \in TriggerIds |-> NoSheet(t)]
  /\ syncPass' = Resting
  /\ UNCHANGED <<sheet, alive, grouped, asked, proved, crossed>>

-------------------------------------------------------------------------------

Asks(c, t) ==
  \/ \E refs \in [Fields(t) -> Targets], rest \in Contents : AskCreate(c, t, refs, rest)
  \/ \E want \in [Fields(t) -> Targets \union {Keep}], rest \in Contents \union {Keep} :
       AskUpdate(c, t, want, rest)
  \/ DeleteSheet(c, t)

Steps(c) ==
  \/ WriteSheet(c)
  \/ \E f \in {"agent", "connector", "schedule"} : Look(c, f)
  \/ InsertSheet(c)
  \/ SetGroup(c)
  \/ SetValidity(c)

SyncTriggers ==
  \/ SyncLists
  \/ \E t \in TriggerIds : SyncApplies(t)
  \/ SyncPrunes

TriggerDeskNext ==
  \/ \E c \in Typists : Steps(c) \/ \E t \in TriggerIds : Asks(c, t)
  \/ SyncTriggers
  \/ \E x \in Targets : TargetComesOrGoes(x)
  \/ HubRestarts

\* The ticker goes on, and a request runs to its end.
TriggerDeskSpec ==
  /\ TriggerDeskInit /\ [][TriggerDeskNext]_triggerVars
  /\ WF_triggerVars(SyncTriggers)
  /\ \A c \in Typists : WF_triggerVars(Steps(c))

-------------------------------------------------------------------------------
(* Properties                                                                  *)

\* A flag in the database says a reference was found, so the reference it
\* stands beside has been found since it was set: a lookup that failed, a flag
\* statement that failed, a crash between the two and an update of another field
\* leave no flag of the old reference behind.  The exception is the code's own:
\* nothing keeps two requests on one trigger apart, and after they crossed the
\* flags may be those of the other's reference until a request runs alone.
ValidityIsEarned ==
  \A t \in TriggerIds \ crossed : \A f \in Fields(t) :
    sheet[t].ok[f] => f \in proved[t]

\* The memory the router and the emitter work from comes to say what the rows
\* say, whatever was listed while they changed, however often a listing failed
\* or the hub restarted: a deleted trigger does not go on firing.
IndexFollows == <>[](index = sheet)
===============================================================================
