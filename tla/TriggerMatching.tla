---------------------------- MODULE TriggerMatching ----------------------------
(***************************************************************************)
(* Which agents one event is for: the trigger index of the router          *)
(* (services/hub/internal/trigger/index.go) and the filters it evaluates   *)
(* (shared/api/filter.go).  The index and the headers are Go maps: Match   *)
(* meets the triggers in any order, CanonicalEventType takes the headers   *)
(* in any order, and both are walked anew for every event.                 *)
(*                                                                         *)
(* A JSON value is [kind, text, items]: the text it prints as, and of an   *)
(* array its items' texts.  A text is a sequence of letters.  A payload    *)
(* maps field paths to values, "absent" where a path leads nowhere.  What  *)
(* the regexp package matches is given, an invalid pattern matching none.  *)
(***************************************************************************)
EXTENDS Naturals, Sequences, SequencesExt, FiniteSets

CONSTANTS
  TriggerCount,   \* triggers are 1..TriggerCount, in the order of their ids
  Sheets,         \* what the index may hold: a row of each trigger
  Deliveries,     \* the events: [connector, headers, data]
  EventHeaders,   \* the names of headers that end in "-Event"
  RegexMatches    \* the pairs <<pattern, text>> that match

ASSUME MatchingAssumption == TriggerCount \in Nat

Ids == 1..TriggerCount

VARIABLES
  delivery,   \* the event
  sheet,      \* the index while the read lock is held
  typed,      \* the canonical type it was given
  unseen,     \* triggers Match has not come to
  results,    \* MatchResults, in the order they were met
  routed,     \* what DeduplicateByAgent makes of them
  returned        \* Match has returned

matchingVars == <<delivery, sheet, typed, unseen, results, routed, returned>>

Absent == [kind |-> "absent", text |-> <<>>, items |-> <<>>]
NoText == <<>>
NullText == <<"null">>

-------------------------------------------------------------------------------
(* Filters                                                                     *)

\* A string, a boolean or a number compares as the text it prints as; nothing is
\* equal to an object.
MatchScalar(f, s) ==
  \/ f.op = "eq" /\ s = f.value
  \/ f.op = "neq" /\ s # f.value
  \/ f.op = "prefix" /\ IsPrefix(f.value, s)
  \/ f.op = "suffix" /\ IsSuffix(f.value, s)
  \/ f.op = "contains" /\ f.value \in SubSeqs(s)
  \/ f.op = "not-contains" /\ f.value \notin SubSeqs(s)
  \/ f.op = "in" /\ s \in f.values
  \/ f.op = "not-in" /\ s \notin f.values
  \/ f.op = "regex" /\ <<f.value, s>> \in RegexMatches

\* null: "null" and the empty value are equal to it.
MatchNull(f) ==
  \/ f.op = "eq" /\ f.value \in {NoText, NullText}
  \/ f.op = "neq" /\ f.value \notin {NoText, NullText}
  \/ f.op \in {"not-contains", "not-in"}

\* An array: any of its items for the positive operators, none for the negative.
MatchArray(f, items) ==
  \/ f.op = "contains" /\ f.value \in ToSet(items)
  \/ f.op = "not-contains" /\ f.value \notin ToSet(items)
  \/ f.op = "in" /\ ToSet(items) \intersect f.values # {}
  \/ f.op = "not-in" /\ ToSet(items) \intersect f.values = {}
  \/ f.op = "eq" /\ items = <<f.value>>

Match(f, value) ==
  \/ value.kind = "null" /\ MatchNull(f)
  \/ value.kind = "array" /\ MatchArray(f, value.items)
  \/ value.kind = "scalar" /\ MatchScalar(f, value.text)

ResolveField(payload, field) == IF field \in DOMAIN payload THEN payload[field] ELSE Absent

\* Mutant: one filter that matches is enough.
MatchAnyFilter(filters, payload) ==
  filters = {} \/ \E f \in filters : Match(f, ResolveField(payload, f.field))

MatchFilters(filters, payload) == \A f \in filters : Match(f, ResolveField(payload, f.field))

-------------------------------------------------------------------------------
(* The index                                                                   *)

\* CanonicalEventType: the first header it meets that ends in "-Event".
CanonicalEventTypes(headers) ==
  LET named == {headers[h] : h \in {h \in DOMAIN headers \intersect EventHeaders : headers[h] # NoText}}
  IN IF named # {} THEN named
     ELSE {IF "type" \in DOMAIN headers THEN headers["type"] ELSE NoText}

Scalar(text) == [kind |-> "scalar", text |-> text, items |-> <<>>]

\* buildFilterPayload: the body's fields, the headers under theirs, and the type over
\* the body's own.
FilterPayload ==
  [field \in DOMAIN delivery.data \cup {<<"headers", h>> : h \in DOMAIN delivery.headers}
             \cup (IF typed = NoText THEN {} ELSE {<<"type">>}) |->
     IF field = <<"type">> /\ typed # NoText THEN Scalar(typed)
     ELSE IF Head(field) = "headers" THEN Scalar(delivery.headers[field[2]])
     ELSE delivery.data[field]]

IsValid(t) == sheet[t].agentValid /\ sheet[t].connectorValid

Fits(t) ==
  /\ IsValid(t)
  /\ sheet[t].connectorRef = delivery.connector
  /\ MatchFilters(sheet[t].filters, FilterPayload)

\* sort.Slice, by trigger id: no two matches have the same.
InIdOrder(matches) ==
  CHOOSE sorted \in [DOMAIN matches -> ToSet(matches)] :
    /\ ToSet(sorted) = ToSet(matches)
    /\ \A i, j \in DOMAIN matches : i < j => sorted[i].trigger < sorted[j].trigger

\* The loop over them: an agent's first match is kept, what follows has been seen.
FirstOfEach(matches) ==
  LET deduped[i \in 0..Len(matches)] ==
        IF i = 0 THEN <<>>
        ELSE IF \E j \in 1..(i - 1) : matches[j].agent = matches[i].agent THEN deduped[i - 1]
        ELSE Append(deduped[i - 1], matches[i])
  IN deduped[Len(matches)]

\* Mutant: the first trigger met names the agent's task, not the first by id.
DeduplicateUnsorted(matches) == FirstOfEach(matches)

DeduplicateByAgent(matches) == FirstOfEach(InIdOrder(matches))

-------------------------------------------------------------------------------
MatchingInit ==
  /\ delivery \in Deliveries /\ sheet \in Sheets
  /\ typed \in CanonicalEventTypes(delivery.headers)
  /\ unseen = Ids
  /\ results = <<>> /\ routed = <<>> /\ returned = FALSE

\* The range over the index comes to a trigger.
Meet(t) ==
  /\ t \in unseen
  /\ unseen' = unseen \ {t}
  /\ results' = IF Fits(t) THEN Append(results, [trigger |-> t, agent |-> sheet[t].agentRef]) ELSE results
  /\ UNCHANGED <<delivery, sheet, typed, routed, returned>>

\* Match has returned, and handleEvent removes duplicates.
Deduplicate ==
  /\ unseen = {} /\ ~ returned
  /\ routed' = DeduplicateByAgent(results)
  /\ returned' = TRUE
  /\ UNCHANGED <<delivery, sheet, typed, unseen, results>>

MatchingNext == Deduplicate \/ \E t \in Ids : Meet(t)

MatchingSpec == MatchingInit /\ [][MatchingNext]_matchingVars

-------------------------------------------------------------------------------
MatchingTypeOK ==
  /\ typed \in CanonicalEventTypes(delivery.headers)
  /\ unseen \subseteq Ids
  /\ \A i \in DOMAIN results : results[i].trigger \in Ids \ unseen
  /\ returned \in BOOLEAN

(* What a filter says in one sentence, for the reference: the texts a value    *)
(* stands for, and whether one of them is meant.                               *)
Texts(value) ==
  IF value.kind = "array" THEN ToSet(value.items)
  ELSE IF value.kind = "scalar" THEN {value.text} ELSE {}

Meant(f, value) ==
  IF f.op \in {"in", "not-in"} THEN Texts(value) \intersect f.values # {}
  ELSE IF value.kind = "array" THEN f.value \in Texts(value)
  ELSE \E s \in Texts(value) : f.value \in SubSeqs(s)

InWords(f, value) ==
  IF f.op \in {"in", "contains"} THEN value.kind \in {"array", "scalar"} /\ Meant(f, value)
  ELSE IF f.op \in {"not-in", "not-contains"}
  THEN value.kind \in {"array", "scalar", "null"} /\ ~ Meant(f, value)
  ELSE Match(f, value)

Wanted == {t \in Ids : /\ sheet[t].agentValid /\ sheet[t].connectorValid
                       /\ sheet[t].connectorRef = delivery.connector
                       /\ \A f \in sheet[t].filters : InWords(f, ResolveField(FilterPayload, f.field))}

(* The order in which Go walks the index shows nowhere: the event's tasks are  *)
(* one for each agent some trigger wants it for, under the first such trigger's *)
(* name ("deterministic regardless of map iteration order").                   *)
OrderShowsNowhere ==
  returned =>
    /\ ToSet(routed) = {[trigger |-> t, agent |-> sheet[t].agentRef] :
                          t \in {t \in Wanted : \A u \in Wanted :
                                   sheet[u].agentRef = sheet[t].agentRef => t <= u}}
    /\ Len(routed) = Cardinality({sheet[t].agentRef : t \in Wanted})
===============================================================================
