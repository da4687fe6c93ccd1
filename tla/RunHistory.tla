----------------------------- MODULE RunHistory -----------------------------
(***************************************************************************)
(* What the hub remembers of its runs, and for how long: the invocation    *)
(* records (internal/invocations), the transcripts the runners post        *)
(* (internal/tasklogs), the hourly sweep of cmd/hub that prunes both, and  *)
(* the two readers that join them without a transaction: the runs of an    *)
(* event (records first, the tasks of the queue second) and the tokens of  *)
(* an event (transcripts first, then one record after another).            *)
(*                                                                         *)
(* Time is counted in hours; a transcript holds at most one message of a   *)
(* run per hour, of one token.  Callers are unrestricted.  A statement of  *)
(* the database may fail: the readers go on without it.                    *)
(***************************************************************************)
EXTENDS Integers, FiniteSetsExt

CONSTANTS Runs, Events, EventOf,   \* a run is one dispatch of an event
          Ranges,                  \* the windows a client may ask for
          Retention,               \* invocations.Retention
          ConversationRetention,   \* tasklogs.ConversationRetention
          MaxClock, MaxMessages, MaxHistoryFaults

ASSUME HistoryAssumption ==
    /\ EventOf \in [Runs -> Events] /\ Events # {}
    /\ Ranges \subseteq Nat /\ Ranges # {}
    /\ {Retention, ConversationRetention, MaxClock, MaxMessages,
        MaxHistoryFaults} \subseteq Nat

VARIABLES clock,
          tasks,        \* agent_tasks.status of a run, before and after
          records,      \* its row of invocations, or NoRecord
          closing,      \* runs whose report is taken but not yet recorded
          transcript,   \* task_conversations
          began,        \* when a run was recorded (history)
          sweep,        \* where the pruning loop is
          listing,      \* a request for the runs of an event
          tally,        \* a request for the tokens of the events
          tallies,      \* observabilityCache, by range
          historyFaults

historyVars == <<clock, tasks, records, closing, transcript, began,
                 sweep, listing, tally, tallies, historyFaults>>

AnyStatus == "any"
NoRecord == [status |-> "none", start |-> 0]
TaskStates == {"unborn", "recorded", "pending", "claimed", "completed", "failed",
               "refused"}

NoListing == [step |-> "idle", event |-> CHOOSE e \in Events : TRUE,
              status |-> AnyStatus, rows |-> {}, owed |-> {}, failed |-> FALSE]
NoTally == [step |-> "idle", range |-> CHOOSE r \in Ranges : TRUE, asked |-> 0,
            read |-> {}, due |-> {},
            out |-> [e \in Events |-> 0], failed |-> FALSE, told |-> 0]

NoCache == [g \in Ranges |-> [fresh |-> FALSE, out |-> NoTally.out]]

HistoryInit ==
    /\ clock = 0
    /\ tasks = [r \in Runs |-> "unborn"]
    /\ records = [r \in Runs |-> NoRecord]
    /\ closing = {}
    /\ transcript = {}
    /\ began = [r \in Runs |-> -1]
    /\ sweep = "asleep"
    /\ listing = NoListing
    /\ tally = NoTally
    /\ tallies = NoCache
    /\ historyFaults = 0

MayFail == historyFaults < MaxHistoryFaults
Failure == MayFail /\ historyFaults' = historyFaults + 1
NoFailure == historyFaults' = historyFaults

-----------------------------------------------------------------------------
(* The life of a run. *)

\* Store.Record: an insert that fails is logged, and the run goes on.
RecordRun(r) ==
    /\ tasks[r] = "unborn"
    /\ tasks' = [tasks EXCEPT ![r] = "recorded"]
    /\ \/ /\ NoFailure
          /\ records' = [records EXCEPT ![r] = [status |-> "running", start |-> clock]]
          /\ began' = [began EXCEPT ![r] = clock]
       \/ Failure /\ UNCHANGED <<records, began>>
    /\ UNCHANGED <<clock, closing, transcript, sweep, listing, tally, tallies>>

\* An UPDATE of a record the sweep has taken matches no row.
Completed(r, status) ==
    IF records[r] = NoRecord THEN records
    ELSE [records EXCEPT ![r].status = status]

EnqueueRun(r) ==
    /\ tasks[r] = "recorded"
    /\ \/ NoFailure /\ tasks' = [tasks EXCEPT ![r] = "pending"] /\ UNCHANGED records
       \/ /\ Failure
          /\ tasks' = [tasks EXCEPT ![r] = "refused"]
          /\ records' = Completed(r, "failure")
    /\ UNCHANGED <<clock, closing, transcript, began, sweep, listing, tally,
                   tallies>>

ClaimRun(r) ==
    /\ tasks[r] = "pending"
    /\ tasks' = [tasks EXCEPT ![r] = "claimed"]
    /\ NoFailure
    /\ UNCHANGED <<clock, records, closing, transcript, began, sweep, listing,
                   tally, tallies>>

\* An ack, a nack that leaves an attempt, a nack that does not: the queue
\* first, the record by CloseRun.
ReportRun(r) ==
    /\ tasks[r] = "claimed"
    /\ \E result \in {"completed", "failed", "pending"} :
          /\ tasks' = [tasks EXCEPT ![r] = result]
          /\ closing' = IF result = "pending" THEN closing ELSE closing \union {r}
    /\ NoFailure
    /\ UNCHANGED <<clock, records, transcript, began, sweep, listing, tally,
                   tallies>>

CloseRun(r) ==
    /\ r \in closing
    /\ closing' = closing \ {r}
    /\ \/ /\ NoFailure
          /\ records' = Completed(r, IF tasks[r] = "completed" THEN "success"
                                     ELSE "failure")
       \/ Failure /\ UNCHANGED records
    /\ UNCHANGED <<clock, tasks, transcript, began, sweep, listing, tally,
                   tallies>>

\* Store.InsertConversation.
Inserted(m) == transcript' = transcript \union {m}

\* handleIngestTaskMessage; a post that fails is a post that was not made.
PostMessage(r) ==
    LET m == [run |-> r, at |-> clock]
    IN  /\ tasks[r] = "claimed"
        /\ m \notin transcript /\ Cardinality(transcript) < MaxMessages
        /\ Inserted(m)
        /\ NoFailure
        /\ UNCHANGED <<clock, tasks, records, closing, began, sweep, listing, tally,
                       tallies>>

\* An hour is longer than the cache keeps anything.
HourPasses ==
    /\ clock < MaxClock
    /\ clock' = clock + 1
    /\ tallies' = NoCache
    /\ NoFailure
    /\ UNCHANGED <<tasks, records, closing, transcript, began, sweep, listing, tally>>

-----------------------------------------------------------------------------
(* The sweep: transcripts by the age of each message, records by the age   *)
(* of the run.  A statement that fails is left for the next hour.          *)

ExpiredMessages == {m \in transcript : m.at < clock - ConversationRetention}
ExpiredRunsEarly ==
    {r \in Runs : records[r] # NoRecord /\ records[r].start =< clock - Retention}
ExpiredRuns ==
    {r \in Runs : records[r] # NoRecord /\ records[r].start < clock - Retention}

PruneConversations ==
    /\ sweep = "asleep"
    /\ sweep' = "invocations"
    /\ \/ NoFailure /\ transcript' = transcript \ ExpiredMessages
       \/ Failure /\ UNCHANGED transcript
    /\ UNCHANGED <<clock, tasks, records, closing, began, listing, tally, tallies>>

PruneInvocations ==
    /\ sweep = "invocations"
    /\ sweep' = "asleep"
    /\ \/ /\ NoFailure
          /\ records' = [r \in Runs |-> IF r \in ExpiredRuns THEN NoRecord
                                        ELSE records[r]]
       \/ Failure /\ UNCHANGED records
    /\ UNCHANGED <<clock, tasks, closing, transcript, began, listing, tally,
                   tallies>>

-----------------------------------------------------------------------------
(* The runs of an event: listInvocations, then enrichWithTasks.            *)

Queued(e) ==
    {r \in Runs : EventOf[r] = e /\ tasks[r] \in {"pending", "claimed", "completed",
                                                  "failed"}}

AskRuns(e, status) ==
    /\ listing.step \in {"idle", "told"}
    /\ listing' = [NoListing EXCEPT !.step = "records", !.event = e, !.status = status,
                                    !.owed = Queued(e)]
    /\ NoFailure
    /\ UNCHANGED <<clock, tasks, records, closing, transcript, began, sweep,
                   tally, tallies>>

\* listFilterClause.
Matching(e, status) ==
    {r \in Runs : /\ EventOf[r] = e /\ records[r] # NoRecord
                  /\ status \in {AnyStatus, records[r].status}}

ReadRecords ==
    /\ listing.step = "records"
    /\ \/ /\ NoFailure
          /\ listing' = [listing EXCEPT !.step = "tasks",
                            !.rows = {[run |-> r, from |-> "record",
                                       status |-> records[r].status] :
                                      r \in Matching(listing.event, listing.status)}]
       \/ Failure /\ listing' = [listing EXCEPT !.step = "tasks", !.failed = TRUE]
    /\ UNCHANGED <<clock, tasks, records, closing, transcript, began, sweep,
                   tally, tallies>>

InvocationStatus(task) ==
    CASE task = "completed" -> "success"
      [] task = "failed" -> "failure"
      [] OTHER -> "running"

SynthesizedAnew(e, rows) ==
    {[run |-> r, from |-> "task", status |-> InvocationStatus(tasks[r])] :
     r \in Queued(e)}
\* A task whose run is not in the list yet is shown by its row in the queue.
Synthesized(e, rows) ==
    {[run |-> r, from |-> "task", status |-> InvocationStatus(tasks[r])] :
     r \in Queued(e) \ {row.run : row \in rows}}

ReadTasks ==
    /\ listing.step = "tasks"
    /\ \/ /\ NoFailure
          /\ listing' = [listing EXCEPT !.step = "told",
                            !.rows = @ \union Synthesized(listing.event, @)]
       \/ Failure /\ listing' = [listing EXCEPT !.step = "told", !.failed = TRUE]
    /\ UNCHANGED <<clock, tasks, records, closing, transcript, began, sweep,
                   tally, tallies>>

-----------------------------------------------------------------------------
(* The tokens of the events: getTokensByEvent.  The cache keeps an answer   *)
(* for half a minute, that is, within the hour.                            *)

AskTokens(range) ==
    /\ tally.step \in {"idle", "told"}
    /\ tally' = IF tallies[range].fresh
                THEN [NoTally EXCEPT !.step = "cached", !.range = range,
                                     !.out = tallies[range].out]
                ELSE [NoTally EXCEPT !.step = "sums", !.range = range, !.asked = clock]
    /\ NoFailure
    /\ UNCHANGED <<clock, tasks, records, closing, transcript, began, sweep,
                   listing, tallies>>

TokensSince(hour) == {m \in transcript : m.at >= hour}
Tokens(read, r) == Cardinality({m \in read : m.run = r})

ReadTranscripts ==
    /\ tally.step = "sums"
    /\ LET read == TokensSince(tally.asked - tally.range)
       IN  \/ /\ NoFailure
              /\ tally' = [tally EXCEPT !.step = "records", !.read = read,
                                        !.due = {m.run : m \in read}]
           \/ Failure /\ tally' = NoTally
    /\ UNCHANGED <<clock, tasks, records, closing, transcript, began, sweep,
                   listing, tallies>>

\* PgStore.Get.
Held(r) == records[r] # NoRecord

\* A record that is gone, or cannot be read, leaves its tokens out of the sum.
CountRun(r) ==
    /\ tally.step = "records" /\ r \in tally.due
    /\ \/ /\ NoFailure
          /\ tally' = [tally EXCEPT !.due = @ \ {r},
                          !.out[EventOf[r]] = @ + (IF Held(r) THEN Tokens(tally.read, r) ELSE 0)]
       \/ Failure /\ tally' = [tally EXCEPT !.due = @ \ {r}, !.failed = TRUE]
    /\ UNCHANGED <<clock, tasks, records, closing, transcript, began, sweep,
                   listing, tallies>>

TellTokens ==
    /\ \/ /\ tally.step = "records" /\ tally.due = {}
          /\ tallies' = [tallies EXCEPT ![tally.range] = [fresh |-> TRUE, out |-> tally.out]]
          /\ tally' = [tally EXCEPT !.step = "told", !.told = clock]
       \/ tally.step = "cached" /\ tally' = NoTally /\ UNCHANGED tallies
    /\ NoFailure
    /\ UNCHANGED <<clock, tasks, records, closing, transcript, began, sweep,
                   listing>>

-----------------------------------------------------------------------------
RunOf(r) == \/ RecordRun(r) \/ EnqueueRun(r) \/ ClaimRun(r) \/ ReportRun(r)
            \/ CloseRun(r) \/ PostMessage(r)
Sweep == PruneConversations \/ PruneInvocations
ListRuns == \/ \E e \in Events, s \in {AnyStatus, "running", "success"} : AskRuns(e, s)
            \/ ReadRecords \/ ReadTasks
TallyTokens == \/ \E g \in Ranges : AskTokens(g)
               \/ ReadTranscripts \/ (\E r \in Runs : CountRun(r)) \/ TellTokens

HistoryNext == (\E r \in Runs : RunOf(r)) \/ HourPasses \/ Sweep \/ ListRuns \/ TallyTokens

HistorySpec == HistoryInit /\ [][HistoryNext]_historyVars

-----------------------------------------------------------------------------
HistoryTypeOK ==
    /\ clock \in 0..MaxClock
    /\ tasks \in [Runs -> TaskStates]
    /\ \A r \in Runs : records[r].status \in {"none", "running", "success", "failure"}
    /\ closing \subseteq Runs
    /\ \A m \in transcript : m.run \in Runs /\ m.at =< clock
    /\ sweep \in {"asleep", "invocations"}

(* enrichWithTasks: a listing of an event's runs shows every task the event *)
(* had when it was asked, each once, whatever the sweep removes, the router *)
(* adds and the runners report between the two reads.                       *)
ListingIsWhole ==
    (listing.step = "told" /\ ~listing.failed) =>
        \A r \in listing.owed : Cardinality({row \in listing.rows : row.run = r}) = 1

(* getTokensByEvent: an answer computed without a failing statement counts  *)
(* every message it read whose run is still within its retention when it is *)
(* told, and never more than it read, although the sweep may take records   *)
(* between the two reads.                                                   *)
TokensTold ==
    (tally.step = "told" /\ ~tally.failed /\ tally.told = clock) =>
        \A e \in Events :
            LET read == {m \in tally.read : EventOf[m.run] = e}
                Kept(m) == began[m.run] >= Max({0, tally.told - Retention})
            IN  /\ tally.out[e] =< Cardinality(read)
                /\ tally.out[e] >= Cardinality({m \in read : Kept(m)})

(* invocations/store.go: "an invocation and its conversation transcript     *)
(* expire together"; after a sweep without an error no transcript is left   *)
(* without the record through which it is reached.                          *)
ExpireTogether ==
    (sweep = "asleep" /\ historyFaults = 0) =>
        \A m \in transcript : records[m.run] # NoRecord
=============================================================================
