-------------------------------- MODULE MCRouting --------------------------------
(***************************************************************************)
(* The TLC instance of what an event goes through.  EventRouter: two       *)
(* events, two agents and two routers at once are too many; every          *)
(* behaviour has two of one kind and one of the others, by its scope: two  *)
(* routers over one event, a batch of two events, or one event for two     *)
(* agents, with two failures.  ActivityFeed: one event for two agents and  *)
(* who asks about it.  ChatDelivery: a user's and an agent's message in    *)
(* one session.  TriggerMatching: three triggers, of which the first has   *)
(* any filter.  Every behaviour is of one of them, its part.               *)
(***************************************************************************)
EXTENDS EventRouter, ActivityFeed, ChatDelivery, TriggerMatching, TLC

CONSTANTS e1, e2, a1, a2, r1, r2, k, l, s1, m1, m2, n1, n2

TwoEvents  == {e1, e2}
TwoAgents  == {a1, a2}
TwoRouters == {r1, r2}

OfConnector == [e \in Entries |-> k]
FiveAsks ==
  {[status |-> "matched", outcome |-> "any", scope |-> {k}],
   [status |-> "unmatched", outcome |-> "any", scope |-> {k}],
   [status |-> "error", outcome |-> "any", scope |-> {a1}],
   [status |-> "any", outcome |-> "running", scope |-> {a2}],
   [status |-> "any", outcome |-> "failure", scope |-> {a1, k}]}

FirstByUser == [m \in Notes |-> m = m1]
SecondHears == [a \in Crew |-> IF a = a1 THEN {a2} ELSE {}]

-------------------------------------------------------------------------------
(* Triggers and deliveries: any operator, on a field that is a text, a list,   *)
(* null, an object or not there.                                               *)
P == <<"p">>
Q == <<"q">>
Filter(field, op, values) == [field |-> field, op |-> op, value |-> P, values |-> values]
Operators ==
  {"eq", "neq", "prefix", "suffix", "contains", "not-contains", "in", "not-in", "regex"}
AnyFilter == {Filter(<<"type">>, op, {P}) : op \in Operators}
             \union {Filter(<<"labels">>, op, {P, Q}) : op \in Operators}

Row(a, c, av, cv, fs) ==
  [agentRef |-> a, connectorRef |-> c, agentValid |-> av, connectorValid |-> cv, filters |-> fs]

MCSheets ==
  {<<Row(a1, k, TRUE, v.cv, {f}), Row(v.a, v.c, v.av, TRUE, fs), Row(a1, k, TRUE, TRUE, {})>> :
     f \in AnyFilter,
     v \in {[a |-> a1, c |-> k, av |-> TRUE, cv |-> TRUE], [a |-> a2, c |-> k, av |-> TRUE, cv |-> FALSE],
            [a |-> a2, c |-> l, av |-> TRUE, cv |-> TRUE], [a |-> a2, c |-> k, av |-> FALSE, cv |-> TRUE]},
     fs \in {{}, {Filter(<<"headers", "X-A-Event">>, "eq", {})},
             {Filter(<<"type">>, "neq", {}), Filter(<<"labels">>, "not-contains", {})}}}

Labels(kind, text, items) == <<"labels">> :> [kind |-> kind, text |-> text, items |-> items]
OwnType == <<"type">> :> Scalar(P)
Bodies == {<<>>, Labels("array", <<>>, <<P, Q>>), Labels("null", <<>>, <<>>),
           Labels("scalar", P \o Q, <<>>), Labels("object", <<>>, <<>>), OwnType}
Headings == {<<>>, "X-A-Event" :> P, "X-A-Event" :> P @@ "X-B-Event" :> P, "type" :> Q,
             "X-A-Event" :> Q @@ "X-B-Event" :> P}
MCDeliveries ==
  [connector : {k}, headers : {"X-A-Event" :> P}, data : Bodies]
  \union [connector : {k}, headers : Headings, data : {<<>>, OwnType}]

-------------------------------------------------------------------------------
VARIABLES part, scope

Scopes ==
  {[events |-> {e1}, agents |-> {a1}, routers |-> TwoRouters, faults |-> 1],
   [events |-> TwoEvents, agents |-> {a1}, routers |-> {r1}, faults |-> 1],
   [events |-> {e1}, agents |-> TwoAgents, routers |-> {r1}, faults |-> MaxFaults]}

Within ==
  /\ \A e \in Events \ scope.events : event[e] = "absent"
  /\ \A r \in Routers \ scope.routers : router[r] = Resting
  /\ \A r \in scope.routers : router[r].matched \subseteq scope.agents
  /\ faults <= scope.faults

routingVars == <<part, scope, vars, feedVars, chatVars, matchingVars>>

OfRouter(A) ==
  /\ part = "router" /\ A /\ UNCHANGED scope /\ Within'
  /\ UNCHANGED <<part, feedVars, chatVars, matchingVars>>
OfFeed(A) == part = "feed" /\ A /\ UNCHANGED <<part, scope, vars, chatVars, matchingVars>>
OfChat(A) == part = "chat" /\ A /\ UNCHANGED <<part, scope, vars, feedVars, matchingVars>>
OfMatching(A) == part = "matching" /\ A /\ UNCHANGED <<part, scope, vars, feedVars, chatVars>>

RoutingInit ==
  /\ part \in {"router", "feed", "chat", "matching"}
  /\ scope \in Scopes
  /\ part # "router" => scope.events = TwoEvents
  /\ Init /\ FeedInit /\ ChatInit
  /\ part # "chat" => title = [a \in Crew |-> n1]
  /\ IF part = "matching" THEN MatchingInit
     ELSE /\ delivery = CHOOSE d \in Deliveries : d.headers = <<>> /\ d.data = <<>>
          /\ sheet = CHOOSE s \in Sheets : TRUE
          /\ typed = <<>> /\ unseen = Ids /\ results = <<>> /\ routed = <<>> /\ returned = FALSE

RoutingNext ==
  \/ \E e \in Events : OfRouter(InsertEvent(e))
  \/ \E r \in Routers : OfRouter(Route(r))
  \/ \E r \in Routers : OfRouter(Crash(r))
  \/ \E e \in Events, a \in Agents : OfRouter(RunnerReports(e, a))
  \/ OfFeed(FeedNext)
  \/ OfChat(ChatNext)
  \/ OfMatching(MatchingNext)

RoutingSpec ==
  /\ RoutingInit /\ [][RoutingNext]_routingVars
  /\ \A r \in Routers : WF_routingVars(OfRouter(Route(r)))

-------------------------------------------------------------------------------
(* What somebody is told of an event is what became of it: ActivityFeed's      *)
(* FeedTells and PageAgrees, ChatDelivery's ChatTold.                          *)
TellingSound ==
  /\ part = "feed" => FeedTells /\ PageAgrees
  /\ part = "chat" => ChatTypeOK /\ ChatTold

(* TriggerMatching's OrderShowsNowhere.                                        *)
MatchingSound == part = "matching" => MatchingTypeOK /\ OrderShowsNowhere
===============================================================================
