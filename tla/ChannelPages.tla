------------------------------ MODULE ChannelPages ------------------------------
(***************************************************************************)
(* What the console is shown of the channels: the list, one channel with   *)
(* its edges, and all edges (handleChannels, getChannel and                *)
(* handleChannelSubscriptions of handlers_channels.go over channels/       *)
(* service.go).  A page is put together from several statements, of which  *)
(* one asks for the channels' rows, one for the triggers, one for the      *)
(* bridges, and one per kind for what the viewer's groups may see.  They   *)
(* are no transaction: any row may come or go between two of them.         *)
(*                                                                         *)
(* What there is, is one set of facts.  The figures of the list are        *)
(* ChannelRegistry's, its order and cut into pages are left out.           *)
(***************************************************************************)
EXTENDS Naturals, FiniteSets

CONSTANTS
  Sources, Sinks, Bundles,  \* channels of connectors, of agents, and grouping channels
  MaxPageChanges,           \* bound: facts that change
  MaxPageFaults             \* bound: statements that fail

PageChannels == Sources \union Sinks \union Bundles

ASSUME PagesAssumption ==
  /\ Sources \intersect Sinks = {} /\ Bundles \intersect (Sources \union Sinks) = {}
  /\ {MaxPageChanges, MaxPageFaults} \subseteq Nat

VARIABLES
  world,     \* what there is: <<"row", c>>, <<"trigger", f, t>>, <<"bridge", f, t>>,
             \* <<"seen", c>> for what the viewer's groups hold, <<"gone", c>>
  page,      \* the page under way
  pageChanges, pageFaults

\* History, read by properties only.
VARIABLES
  stood,     \* what there has been ever since the page was asked for
  been       \* what there has been at any time since

pagesVars == <<world, page, pageChanges, pageFaults, stood, been>>

KindsOfPages == {Sources, Sinks, Bundles}
Facts == ({"row", "seen"} \X PageChannels)
         \union ({"trigger"} \X Sources \X Sinks)
         \union {x \in {"bridge"} \X PageChannels \X PageChannels :
                   x[2] # x[3] /\ {x[2], x[3]} \intersect Bundles # {}}

\* The tables hold finitely many rows.
ASSUME FactsAssumption == IsFiniteSet(Facts)

EndsOf(x) == {x[2], x[3]}
RowsIn(w)  == {c \in PageChannels : <<"row", c>> \in w}
SeenIn(w)  == {c \in PageChannels : <<"seen", c>> \in w}
EdgesIn(w) == {x \in w : x[1] \in {"trigger", "bridge"}}

\* A bridge has two rows to stand on; a trigger may name what has no channel yet.
Legal(w) == \A x \in w : x[1] = "bridge" => EndsOf(x) \subseteq RowsIn(w)

NoPageYet == [step |-> "none", op |-> "none", of |-> {}, todo |-> {}, rows |-> {}, ids |-> {},
              edges |-> {}, shown |-> {}, blind |-> FALSE]

PagesInit ==
  /\ world \in SUBSET Facts /\ Legal(world)
  /\ page = NoPageYet
  /\ pageChanges = 0 /\ pageFaults = 0
  /\ stood = {} /\ been = {}

\* Other requests and the sync loop.  Channels of connectors and agents stay; the
\* id of a grouping channel is not used twice.
Changes(x) ==
  /\ pageChanges < MaxPageChanges /\ pageChanges' = pageChanges + 1
  /\ IF x \in world
     THEN /\ x[1] = "row" => x[2] \in Bundles
          /\ world' = (world \ {x}) \union (IF x[1] = "row" THEN {<<"gone", x[2]>>} ELSE {})
     ELSE /\ x[1] = "row" => <<"gone", x[2]>> \notin world
          /\ world' = world \union {x}
  /\ Legal(world')
  /\ stood' = stood \intersect world' /\ been' = been \union world'
  /\ UNCHANGED <<page, pageFaults>>

-------------------------------------------------------------------------------
(* A page.                                                                     *)

PageFault == pageFaults < MaxPageFaults /\ pageFaults' = pageFaults + 1
Turns(new) == page' = new /\ UNCHANGED <<world, pageChanges, pageFaults, stood, been>>

\* of is a set of at most one channel.
AskPage(op, of, step) ==
  /\ page.step \in {"none", "told"}
  /\ page' = [NoPageYet EXCEPT !.op = op, !.of = of, !.step = step]
  /\ stood' = world /\ been' = world
  /\ UNCHANGED <<world, pageChanges, pageFaults>>

AskList == AskPage("list", {}, "rows")
AskEdges == AskPage("edges", {}, "ids")

\* The channel of the path: 404 without it, 403 for who may not read it.
AskOne(c) == AskPage("one", {c}, "first")
ReadFirst ==
  /\ page.step = "first"
  /\ Turns(IF page.of \subseteq RowsIn(world) \intersect SeenIn(world)
           THEN [page EXCEPT !.step = "rows"] ELSE NoPageYet)

\* Service.List and Service.Get.
ReadRows ==
  /\ page.step = "rows"
  /\ LET rows == RowsIn(world) \intersect (IF page.op = "one" THEN page.of ELSE PageChannels) IN
     Turns(IF page.op = "one" /\ rows = {} THEN NoPageYet
           ELSE [page EXCEPT !.step = "ids", !.rows = rows])

\* Subscriptions: the channel of an entity is looked up in its own list of rows.
ReadIds ==
  /\ page.step = "ids"
  /\ Turns([page EXCEPT !.step = "triggers", !.ids = RowsIn(world) \ Bundles])

ReadTriggers ==
  /\ page.step = "triggers"
  /\ Turns([page EXCEPT !.step = "bridges",
                        !.edges = {x \in world : x[1] = "trigger"}])

\* An end of a trigger whose entity was not in the list is "".
Attached(x, c) == c \in EndsOf(x) /\ (x[1] = "trigger" => c \in page.ids)

ReadBridges ==
  /\ page.step = "bridges"
  /\ LET edges == page.edges \union {x \in world : x[1] = "bridge"} IN
     Turns(CASE page.op = "one"  -> [page EXCEPT !.edges = edges, !.step = "told"]
             [] page.op = "list" -> [page EXCEPT !.edges = edges, !.step = "shown",
                                                 !.todo = KindsOfPages]
             [] OTHER -> [page EXCEPT !.edges = edges, !.step = "ends",
                            !.todo = {c \in PageChannels : \E x \in edges : Attached(x, c)}])

\* Each end of an edge is read by itself; one that is gone, or whose read fails, is
\* invisible.
ReadEnd(c) ==
  /\ page.step = "ends" /\ c \in page.todo
  /\ \/ Turns([page EXCEPT !.todo = @ \ {c}, !.rows = @ \union (RowsIn(world) \intersect {c})])
     \/ /\ PageFault
        /\ page' = [page EXCEPT !.todo = @ \ {c}, !.blind = TRUE]
        /\ UNCHANGED <<world, pageChanges, stood, been>>

EndsRead ==
  /\ page.step = "ends" /\ page.todo = {}
  /\ Turns([page EXCEPT !.step = "shown", !.todo = KindsOfPages])

\* filterByAccess, for the channels of one kind; an error shows none of them.
ReadSeen(kind) ==
  /\ page.step = "shown" /\ kind \in page.todo
  /\ \/ Turns([page EXCEPT !.todo = @ \ {kind},
                           !.shown = @ \union (SeenIn(world) \intersect kind \intersect page.rows)])
     \/ /\ PageFault
        /\ page' = [page EXCEPT !.todo = @ \ {kind}, !.blind = TRUE]
        /\ UNCHANGED <<world, pageChanges, stood, been>>

TellPage ==
  /\ page.step = "shown" /\ page.todo = {}
  /\ Turns([page EXCEPT !.step = "told"])

\* Every other statement that fails is a 500.
PageFails ==
  /\ page.step \notin {"none", "told", "ends", "shown"} /\ PageFault
  /\ page' = NoPageYet
  /\ UNCHANGED <<world, pageChanges, stood, been>>

PageStep ==
  \/ AskList \/ AskEdges \/ (\E c \in PageChannels : AskOne(c)) \/ ReadFirst
  \/ ReadRows \/ ReadIds \/ ReadTriggers \/ ReadBridges
  \/ (\E c \in PageChannels : ReadEnd(c)) \/ EndsRead
  \/ (\E kind \in KindsOfPages : ReadSeen(kind)) \/ TellPage \/ PageFails

PagesNext == PageStep \/ \E x \in Facts : Changes(x)

PagesSpec == PagesInit /\ [][PagesNext]_pagesVars

-------------------------------------------------------------------------------
(* What is shown.                                                              *)

ToldRows == page.rows \intersect page.shown

\* degrees: the edges that touch a channel.
Degree(c) == Cardinality({x \in page.edges : Attached(x, c)})

ToldOfOne == {x \in page.edges : \A c \in page.of : Attached(x, c)}

\* Mutant: an edge is shown to who sees one of its ends.
ToldEdgesHalf == {x \in page.edges : \E c \in EndsOf(x) : Attached(x, c) /\ c \in page.shown}

\* An edge reveals both its ends: it is shown to who sees both.
ToldEdges == {x \in page.edges : \A c \in EndsOf(x) : Attached(x, c) /\ c \in page.shown}

-------------------------------------------------------------------------------
(* Properties.                                                                 *)

Visible(w) == RowsIn(w) \intersect SeenIn(w)
Touching(w, c) == {x \in EdgesIn(w) : c \in EndsOf(x)}
Within(sure, told, possible) == (page.blind \/ sure \subseteq told) /\ told \subseteq possible

\* A page is of no single moment, but it shows nothing that was not there while
\* it was put together, and leaves out nothing that stood all the while: no edge
\* made of a trigger and a channel that were never seen together, no edge or
\* channel lost because a row beside it came or went.
PagesTold ==
  page.step = "told" =>
    CASE page.op = "list" ->
           /\ Within(Visible(stood), ToldRows, Visible(been))
           /\ \A c \in ToldRows : Degree(c) \in Cardinality({x \in Touching(stood, c) : <<"row", c>> \in stood})
                                                ..Cardinality(Touching(been, c))
      [] page.op = "one" ->
           \A c \in page.of : Within(Touching(stood, c), ToldOfOne, Touching(been, c))
      [] OTHER ->
           Within({x \in EdgesIn(stood) : EndsOf(x) \subseteq Visible(stood)}, ToldEdges,
                  {x \in EdgesIn(been) : EndsOf(x) \subseteq Visible(been)})
===============================================================================
