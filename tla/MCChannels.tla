-------------------------------- MODULE MCChannels --------------------------------
(***************************************************************************)
(* The TLC instance of what a channel is.  ChannelGraph: a connector's     *)
(* channel, an inbox and two grouping channels, changed by two requests at *)
(* once; the bound on a walk is one less than the longest path there can   *)
(* be, so that a walk is cut off.  ChannelRegistry: a connector and an     *)
(* agent come and go under the sync loop while an event passes, of the     *)
(* connector and of the agent; another agent is there at first and gets    *)
(* what is carried on to it.  ChannelDesk: two users, of whom one is an    *)
(* admin, over two grouping channels, a provisioned one and two bridges.   *)
(* ChannelPages: a connector, an agent and a grouping channel, with little *)
(* of what may be there or nearly all of it.  Every behaviour is of one of *)
(* them, its part.                                                         *)
(*                                                                         *)
(* The symmetry is that of ChannelGraph's requests and grouping channels:  *)
(* no other part has them in its state, so RegistryCatchesUp, which is of  *)
(* the registry alone, is checked on states no permutation changes.        *)
(***************************************************************************)
EXTENDS ChannelGraph, ChannelRegistry, ChannelDesk, ChannelPages, TLC

CONSTANTS k1, a1, c1, c2, r1, r2,
          k, g, g0, e1, e2,
          x1, x2, o, b1, b3, g1, g2, d1, d2,
          source, sink, bundle

FourChannels  == {k1, a1, c1, c2}
ThreeChannels == {a1, c1, c2}
TwoClients    == {r1, r2}

MCKind == [c \in Channels |->
  CASE c = k1 -> "connector" [] c = a1 -> "agent" [] OTHER -> "custom"]

Symmetric == Permutations(TwoClients) \union Permutations({c1, c2})

TheStreams == [e \in Events |-> IF e = e1 THEN k ELSE g]

\* A bridge between the grouping channels, and one out of the provisioned channel.
Heads == [b \in Edges |-> IF b = b1 THEN x1 ELSE o]
Tails == [b \in Edges |-> IF b = b1 THEN x2 ELSE x1]
MCGroupsOf == [d \in Desks |-> IF d = d1 THEN <<g1, g2>> ELSE <<g2>>]

\* A console that sees a trigger and a bridge, and one that sees nearly all.
FewFacts == {<<"row", source>>, <<"row", sink>>, <<"row", bundle>>, <<"seen", source>>,
             <<"seen", bundle>>, <<"trigger", source, sink>>, <<"bridge", source, bundle>>}
MostFacts == Facts \ {<<"bridge", bundle, source>>}

VARIABLE part

channelsVars == <<part, vars, registryVars, deskVars, pagesVars>>

OfGraph(A) ==
  part = "graph" /\ A /\ UNCHANGED <<part, registryVars, deskVars, pagesVars>>
\* To the other agent goes only what is carried on to it.
OfRegistry(A) ==
  /\ part = "registry" /\ A /\ UNCHANGED <<part, vars, deskVars, pagesVars>>
  /\ task'[e1][g0] = "none"
OfDesk(A) ==
  part = "desk" /\ A /\ UNCHANGED <<part, vars, registryVars, pagesVars>>
OfPages(A) ==
  part = "pages" /\ A /\ UNCHANGED <<part, vars, registryVars, deskVars>>

ChannelsInit ==
  /\ part \in {"graph", "registry", "desk", "pages"}
  /\ Init /\ RegistryInit /\ DeskInit
  /\ world \in {FewFacts, MostFacts} /\ PagesInit
  /\ part # "pages" => world = FewFacts
  /\ g0 \in alive <=> part = "registry"
  /\ \A e \in Events : task[e][g0] = "none"
  /\ part # "registry" =>
       alive = {} /\ stored = {} /\ \A e \in Events, a \in Inboxes : task[e][a] = "none"
  /\ part # "desk" => \A x \in Owned : made[x] = "new"

ChannelsNext ==
  OfGraph(Next) \/ OfRegistry(RegistryNext) \/ OfDesk(DeskNext) \/ OfPages(PagesNext)

ChannelsSpec ==
  /\ ChannelsInit /\ [][ChannelsNext]_channelsVars
  /\ WF_channelsVars(OfRegistry(SyncStep))

-------------------------------------------------------------------------------
(* What is worked out of the channels agrees with what it stands for.  Of the  *)
(* subscriptions as they stand the walk out of a channel, which delivers an    *)
(* event, finds an inbox exactly where the walk into the inbox, which counts   *)
(* and lists it, finds the channel and the bound does not cut the way off      *)
(* (ChannelGraph's WalkAgrees).  The figures of a channel are those of its     *)
(* timeline, and an inbox's fall short of it only by what was delivered after  *)
(* its event was recorded (ChannelRegistry's CountsMatchTimeline).             *)
ViewsAgree ==
  WalkAgrees /\ (part = "registry" => RegistryTypeOK /\ CountsMatchTimeline)

(* ChannelRegistry's RegistryFollows: the rows come to be those of the agents  *)
(* and connectors there are, once these no longer change.                      *)
RegistryCatchesUp == part = "registry" => RegistryFollows
===============================================================================
