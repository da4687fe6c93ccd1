------------------------------ MODULE ActivityFeed ------------------------------
(***************************************************************************)
(* What the console is told of an event: the entry the router broadcasts   *)
(* as it finishes (services/hub/internal/router/router.go, handleEvent)    *)
(* and the pages read back from the tables (internal/api/handlers_events.  *)
(* go over the filters of eventqueue/store.go).                            *)
(*                                                                         *)
(* EventRouter has the routing itself with its retries and crashes; here   *)
(* one pass over each event, with the outcome of every enqueue, tells what *)
(* the feed can know.  A page is three reads - the events, their number,   *)
(* their tasks - and runners and the pruner of invocations step between.   *)
(* The scope of a caller is the connectors and agents it may read; times,  *)
(* subjects and the paging of the page itself are left out.                *)
(***************************************************************************)
EXTENDS Naturals, FiniteSets

CONSTANTS
  Entries,             \* events
  Sources, SourceOf,   \* connectors, and the one each event came from
  Takers,              \* agents
  Asks,                \* the filters asked for: a status, an outcome, and the caller's scope
  MaxFeedFaults,       \* bound: failing enqueues and completions
  MaxPages             \* bound: pages read

ASSUME FeedAssumption ==
  /\ IsFiniteSet(Entries) /\ SourceOf \in [Entries -> Sources]
  /\ Asks \subseteq [status : {"any", "unmatched", "matched", "error"},
                     outcome : {"any", "running", "success", "failure"},
                     scope : SUBSET (Sources \cup Takers)]
  /\ {MaxFeedFaults, MaxPages} \subseteq Nat

VARIABLES
  job,     \* job[e][a]: status of the row of agent_tasks, or "none"
  run,     \* run[e][a]: status of the invocation, "none" or "pruned"
  pass,    \* pass[e]: the router's pass over e
  shown,   \* shown[e]: the broadcast entry
  page,    \* the page a caller is reading
  pages, feedFaults
VARIABLES  \* history
  meant,   \* meant[e]: the agents the pass matched or reached
  missed,  \* missed[e]: those whose enqueue failed, by the trigger's or the bridges' loop
  shifted  \* events a task or invocation of which changed since the page's first read
feedVars == <<job, run, pass, shown, page, pages, feedFaults, meant, missed, shifted>>

NoPage  == [pc |-> "free", status |-> "any", outcome |-> "any", scope |-> {}, found |-> {},
            total |-> 0, rows |-> {}]
Unshown == [status |-> "none", matches |-> {}]

FeedInit ==
  /\ job = [e \in Entries |-> [a \in Takers |-> "none"]]
  /\ run = [e \in Entries |-> [a \in Takers |-> "none"]]
  /\ pass = [e \in Entries |-> [pc |-> "absent", triggers |-> {}, todo |-> {}, ok |-> TRUE]]
  /\ shown = [e \in Entries |-> Unshown]
  /\ page = NoPage /\ pages = 0 /\ feedFaults = 0
  /\ meant = [e \in Entries |-> {}]
  /\ missed = [e \in Entries |-> [triggers |-> {}, bridges |-> {}]]
  /\ shifted = {}

FeedFault == feedFaults < MaxFeedFaults /\ feedFaults' = feedFaults + 1
Shift(e)  == shifted' = shifted \cup {e}

-------------------------------------------------------------------------------
(* handleEvent: the triggers' matches, then the bridges', then the entry.    *)

Arrive(e) ==
  /\ pass[e].pc = "absent"
  /\ pass' = [pass EXCEPT ![e].pc = "unrouted"]
  /\ Shift(e)
  /\ UNCHANGED <<job, run, shown, page, pages, feedFaults, meant, missed>>

MatchEvent(e, matches) ==
  /\ pass[e].pc = "unrouted"
  /\ pass' = [pass EXCEPT ![e] = [pc |-> "triggers", triggers |-> {}, todo |-> matches, ok |-> TRUE]]
  /\ meant' = [meant EXCEPT ![e] = matches]
  /\ UNCHANGED <<job, run, shown, page, pages, feedFaults, missed, shifted>>

\* Record, then EnqueueTask, whose NOTIFY may fail with the row in place; then Complete.
Enqueued(e, a, row, ok) ==
  /\ job' = IF row THEN [job EXCEPT ![e][a] = "pending"] ELSE job
  /\ run' = [run EXCEPT ![e][a] = IF ok THEN "running" ELSE "failure"]
  /\ Shift(e)

\* Mutant: a trigger whose enqueue failed is left out of the entry, as a bridge's is.
KeepsQuiet(ok) == ok

Lists(ok) == TRUE

\* One match of routeViaTriggers: listed whether or not it was enqueued.
ByTrigger(e, a) ==
  /\ pass[e].pc = "triggers" /\ a \in pass[e].todo
  /\ \/ /\ Enqueued(e, a, TRUE, TRUE)
        /\ pass' = [pass EXCEPT ![e].todo = @ \ {a}, ![e].triggers = @ \cup {a}]
        /\ UNCHANGED <<feedFaults, missed>>
     \/ /\ FeedFault
        /\ \E row \in BOOLEAN : Enqueued(e, a, row, FALSE)
        /\ pass' = [pass EXCEPT ![e].todo = @ \ {a}, ![e].ok = FALSE,
                      ![e].triggers = IF Lists(FALSE) THEN @ \cup {a} ELSE @]
        /\ missed' = [missed EXCEPT ![e].triggers = @ \cup {a}]
  /\ UNCHANGED <<shown, page, pages, meant>>

\* The walk: inboxes that have the event already are skipped; a failing walk is told.
WalkFor(e, reached) ==
  /\ pass[e].pc = "triggers" /\ pass[e].todo = {}
  /\ LET delivered == meant[e] \ missed[e].triggers IN
     \/ /\ pass' = [pass EXCEPT ![e].pc = "bridges", ![e].todo = reached \ delivered]
        /\ meant' = [meant EXCEPT ![e] = @ \cup reached]
        /\ UNCHANGED feedFaults
     \/ /\ FeedFault
        /\ pass' = [pass EXCEPT ![e].pc = "bridges", ![e].ok = FALSE]
        /\ UNCHANGED meant
  /\ UNCHANGED <<job, run, shown, page, pages, missed, shifted>>

\* One delivery of a bridge: a row already there stands; a failure is left out of the entry.
ByBridge(e, a) ==
  /\ pass[e].pc = "bridges" /\ a \in pass[e].todo
  /\ \/ /\ IF job[e][a] = "none" THEN Enqueued(e, a, TRUE, TRUE)
           ELSE UNCHANGED <<job, run, shifted>>
        /\ pass' = [pass EXCEPT ![e].todo = @ \ {a}, ![e].triggers = @ \cup {a}]
        /\ UNCHANGED <<feedFaults, missed>>
     \/ /\ FeedFault
        /\ IF job[e][a] = "none" THEN \E row \in BOOLEAN : Enqueued(e, a, row, FALSE)
           ELSE UNCHANGED <<job, run, shifted>>
        /\ pass' = [pass EXCEPT ![e].todo = @ \ {a}]
        /\ missed' = [missed EXCEPT ![e].bridges = @ \cup {a}]
  /\ UNCHANGED <<shown, page, pages, meant>>

\* The entry, and MarkRouted.
Broadcast(e) ==
  LET listed == pass[e].triggers IN
  /\ pass[e].pc = "bridges" /\ pass[e].todo = {}
  /\ shown' = [shown EXCEPT ![e] =
       [status |-> IF listed = {} THEN "unmatched" ELSE IF pass[e].ok THEN "matched" ELSE "error",
        matches |-> listed]]
  /\ pass' = [pass EXCEPT ![e].pc = "routed"]
  /\ UNCHANGED <<job, run, page, pages, feedFaults, meant, missed, shifted>>

-------------------------------------------------------------------------------
(* Runners report, the queue gives up, invocations are pruned.               *)

Reports(e, a, success) ==
  /\ job[e][a] = "pending"
  /\ job' = [job EXCEPT ![e][a] = IF success THEN "completed" ELSE "failed"]
  /\ run' = [run EXCEPT ![e][a] = IF @ \in {"none", "pruned"} THEN @
                                  ELSE IF success THEN "success" ELSE "failure"]
  /\ Shift(e)
  /\ UNCHANGED <<pass, shown, page, pages, feedFaults, meant, missed>>

PruneRun(e, a) ==
  /\ run[e][a] \in {"success", "failure"}
  /\ run' = [run EXCEPT ![e][a] = "pruned"]
  /\ Shift(e)
  /\ UNCHANGED <<job, pass, shown, page, pages, feedFaults, meant, missed>>

-------------------------------------------------------------------------------
(* The tables: EventFilter.conditions, and buildActivityEntry.               *)

Jobs(e) == {a \in Takers : job[e][a] # "none"}

\* Mutant: an event with a failed task still counts as matched.
StatusLoosely(e, status) ==
  CASE status = "unmatched" -> Jobs(e) = {}
    [] status = "matched"   -> Jobs(e) # {}
    [] status = "error"     -> \E a \in Takers : job[e][a] = "failed"
    [] OTHER -> TRUE

HasStatus(e, status) ==
  CASE status = "unmatched" -> Jobs(e) = {}
    [] status = "matched"   -> Jobs(e) # {} /\ \A a \in Takers : job[e][a] # "failed"
    [] status = "error"     -> \E a \in Takers : job[e][a] = "failed"
    [] OTHER -> TRUE

HasOutcome(e, outcome) ==
  outcome = "any" \/ \E a \in Jobs(e) : run[e][a] = outcome

\* The scope: the source, or an agent the event reached.
InScope(e, scope) == SourceOf[e] \in scope \/ Jobs(e) \cap scope # {}

Selected(p) == {e \in Entries : pass[e].pc # "absent" /\ HasStatus(e, p.status)
                                /\ HasOutcome(e, p.outcome) /\ InScope(e, p.scope)}

DerivedStatus(e) ==
  IF Jobs(e) = {} THEN "unmatched"
  ELSE IF \E a \in Jobs(e) : job[e][a] = "failed" THEN "error" ELSE "matched"

\* listEvents: an empty scope answers an empty page without a query.
QueryPage(ask) ==
  /\ page.pc = "free" /\ pages < MaxPages /\ ask.scope # {}
  /\ pages' = pages + 1
  /\ LET p == [NoPage EXCEPT !.pc = "count", !.status = ask.status, !.outcome = ask.outcome,
                             !.scope = ask.scope]
     IN page' = [p EXCEPT !.found = Selected(p)]
  /\ shifted' = {}
  /\ UNCHANGED <<job, run, pass, shown, feedFaults, meant, missed>>

CountPage ==
  /\ page.pc = "count"
  /\ page' = [page EXCEPT !.pc = "tasks", !.total = Cardinality(Selected(page))]
  /\ UNCHANGED <<job, run, pass, shown, pages, feedFaults, meant, missed, shifted>>

\* TasksForEvents, and the invocation of each task.
ReadTasks ==
  /\ page.pc = "tasks"
  /\ page' = [page EXCEPT !.pc = "ready", !.rows =
       {[entry |-> e, status |-> DerivedStatus(e),
         runs |-> {run[e][a] : a \in Jobs(e)} \ {"none", "pruned"}] : e \in page.found}]
  /\ UNCHANGED <<job, run, pass, shown, pages, feedFaults, meant, missed, shifted>>

SendPage ==
  /\ page.pc = "ready"
  /\ page' = NoPage
  /\ UNCHANGED <<job, run, pass, shown, pages, feedFaults, meant, missed, shifted>>

FeedNext ==
  \/ \E e \in Entries, S \in SUBSET Takers : MatchEvent(e, S) \/ WalkFor(e, S)
  \/ \E e \in Entries, a \in Takers :
       ByTrigger(e, a) \/ ByBridge(e, a) \/ PruneRun(e, a) \/ \E ok \in BOOLEAN : Reports(e, a, ok)
  \/ \E e \in Entries : Arrive(e) \/ Broadcast(e)
  \/ \E ask \in Asks : QueryPage(ask)
  \/ CountPage \/ ReadTasks \/ SendPage

FeedSpec == FeedInit /\ [][FeedNext]_feedVars

-------------------------------------------------------------------------------
\* What the broadcast hides and what it does not.  An agent the pass meant to reach is listed, or its
\* delivery by a bridge failed, and then its invocation says so unless it ran all the same; the entry
\* says "error" exactly when a trigger's enqueue or the walk failed and something is listed; and what
\* it lists without an error has its row.
FeedTells ==
  \A e \in Entries : shown[e].status # "none" =>
    /\ meant[e] \ shown[e].matches \subseteq missed[e].bridges
    /\ shown[e].status = "matched" => missed[e].triggers = {} /\ shown[e].matches \subseteq Jobs(e)
    /\ missed[e].triggers # {} => shown[e].status = "error"
    /\ \A a \in missed[e].bridges : job[e][a] = "none" => run[e][a] \in {"failure", "pruned"}

\* The filter and the rows rendered agree, and the total is the number of events the filter selects:
\* only an event whose tasks or invocations changed while the page was read may show another status
\* than the one asked for, miss the outcome asked for, or be counted and not shown.
PageAgrees ==
  page.pc = "ready" =>
    /\ \A r \in page.rows : r.entry \notin shifted =>
         /\ page.status \in {"any", r.status}
         /\ page.outcome = "any" \/ page.outcome \in r.runs
    /\ shifted = {} => page.total = Cardinality(page.rows)
===============================================================================
