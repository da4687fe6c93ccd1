---------------------------------- MODULE HubProofs ----------------------------------
(***************************************************************************)
(* What requests to the hub's pages do and are told, for any number of     *)
(* them: AgentDesk, McpServers, Access, Personas, RunHistory and Figures,  *)
(* each with an inductive invariant of its own, and MCHub, whose           *)
(* behaviours are of one of them at a time.  The requests read, ask and    *)
(* write in separate calls: what each has read or asked is tied to what    *)
(* is there by then, for as long as nobody has written in between.         *)
(***************************************************************************)
EXTENDS MCHub, Counting, FiniteSetTheorems, TLAPS

(***************************************************************************)
(* The registry and its copies.                                            *)
(***************************************************************************)
Row == Urls \union {None}
Help ==
  [op: {"none", "put", "drop", "select"},
   step: {"", "write", "images", "row", "drop", "names"},
   of: Servers \union Holders \union {""}, url: Row, todo: SUBSET Servers,
   got: [Servers -> Row], stale: BOOLEAN, moved: SUBSET Servers]

\* What step a request is at tells what it is.
WellFormed(help) ==
  /\ help.op = "none" => help.step = ""
  /\ help.op = "put" => help.step = "write" /\ help.of \in Servers /\ help.url \in Urls
  /\ help.op = "drop" => help.step \in {"images", "row", "drop"} /\ help.of \in Servers
  /\ help.op = "select" => help.step = "names" /\ help.of \in Holders

McpShape ==
  /\ url \in [Servers -> Row]
  /\ copies \in [Holders -> [Servers -> Row]]
  /\ helper \in [Helpers -> Help]
  /\ \A c \in Helpers : WellFormed(helper[c])
  /\ served \in Nat
  /\ moved \in [Holders -> SUBSET Servers]
  /\ raced \in [Holders -> SUBSET Servers]

\* A request holds the rows it has read, but for those written since it was taken up.
ReadHolds == \A c \in Helpers, s \in Servers :
  helper[c].op = "select" /\ helper[c].got[s] # None /\ s \notin helper[c].moved =>
    helper[c].got[s] = url[s]

\* A deletion that has asked the images: whoever names the server came later.
AskedHolds == \A c \in Helpers, h \in Profiles :
  helper[c].step \in {"row", "drop"} /\ copies[h][helper[c].of] # None =>
    helper[c].of \in raced[h]

McpInv == McpShape /\ ReadHolds /\ AskedHolds /\ CopiesHold

LEMMA RegistryTypes ==
  /\ None \in Row /\ \A x \in Urls : x \in Row /\ x # None
  /\ Nothing \in [Servers -> Row] /\ \A s \in Servers : Nothing[s] = None
  /\ NoHelp \in Help /\ NoHelp.op = "none" /\ NoHelp.step = "" /\ WellFormed(NoHelp)
<1>1. None \in Row /\ \A x \in Urls : x \in Row /\ x # None
  BY McpAssumption DEF Row
<1>2. Nothing \in [Servers -> Row] /\ \A s \in Servers : Nothing[s] = None
  BY <1>1 DEF Nothing
<1>3. NoHelp \in Help
  BY <1>1, <1>2 DEF NoHelp, Help
<1>4. NoHelp.op = "none" /\ NoHelp.step = ""
  BY DEF NoHelp
<1> QED
  BY <1>1, <1>2, <1>3, <1>4 DEF WellFormed

\* What a request's record says when one of its fields changes.
LEMMA StaleChanged ==
  ASSUME NEW x \in Help, NEW y, y = [x EXCEPT !.stale = TRUE]
  PROVE  /\ y \in Help /\ y.op = x.op /\ y.step = x.step /\ y.of = x.of /\ y.got = x.got
         /\ y.url = x.url /\ y.moved = x.moved
  BY DEF Help

LEMMA TakesServed ==
  ASSUME McpInv, NEW c, NEW help, TakesUp(c, help)
  PROVE  /\ helper' = [helper EXCEPT ![c] = help] /\ UNCHANGED <<url, copies, moved, raced>>
         /\ served' \in Nat
<1>1. served \in Nat /\ served' = served + 1
  BY DEF McpInv, McpShape, TakesUp
<1>2. served' \in Nat
  BY <1>1
<1> QED
  BY <1>2 DEF TakesUp

\* One request goes on; nothing it or another has read or written moves.
LEMMA GoingKeeps ==
  ASSUME McpInv, NEW c \in Helpers, NEW help \in Help, WellFormed(help),
         helper' = [helper EXCEPT ![c] = help], served' \in Nat,
         UNCHANGED <<url, copies, moved, raced>>,
         \A s \in Servers : help.op = "select" /\ help.got[s] # None /\ s \notin help.moved =>
           help.got[s] = url[s],
         \A h \in Profiles : help.step \in {"row", "drop"} /\ copies[h][help.of] # None =>
           help.of \in raced[h]
  PROVE  McpInv'
<1>0. McpShape /\ ReadHolds /\ AskedHolds /\ CopiesHold
  BY DEF McpInv
<1>1. /\ helper' \in [Helpers -> Help] /\ helper'[c] = help
      /\ \A d \in Helpers : d # c => helper'[d] = helper[d]
  BY <1>0 DEF McpShape
<1>2. McpShape'
  <2>1. ASSUME NEW d \in Helpers PROVE WellFormed(helper'[d])
    <3>1. CASE d = c
      BY <1>1, <3>1
    <3>2. CASE d # c
      BY <1>0, <1>1, <3>2 DEF McpShape
    <3> QED
      BY <3>1, <3>2
  <2> QED
    BY <1>0, <1>1, <2>1 DEF McpShape, WellFormed
<1>3. ReadHolds'
  <2> SUFFICES ASSUME NEW d \in Helpers, NEW s \in Servers, helper'[d].op = "select",
                      helper'[d].got[s] # None, s \notin helper'[d].moved
               PROVE  helper'[d].got[s] = url[s]
    BY DEF ReadHolds
  <2>1. CASE d = c
    BY <1>1, <2>1
  <2>2. CASE d # c
    BY <1>0, <1>1, <2>2 DEF ReadHolds
  <2> QED
    BY <2>1, <2>2
<1>4. AskedHolds'
  <2> SUFFICES ASSUME NEW d \in Helpers, NEW h \in Profiles, helper'[d].step \in {"row", "drop"},
                      copies[h][helper'[d].of] # None
               PROVE  helper'[d].of \in raced[h]
    BY DEF AskedHolds
  <2>1. CASE d = c
    BY <1>1, <2>1
  <2>2. CASE d # c
    BY <1>0, <1>1, <2>2 DEF AskedHolds
  <2> QED
    BY <2>1, <2>2
<1>5. CopiesHold'
  BY <1>0 DEF CopiesHold
<1> QED
  BY <1>2, <1>3, <1>4, <1>5 DEF McpInv

\* What a request may become without having read or asked anything more.
LEMMA StepKeeps ==
  ASSUME McpInv, NEW c \in Helpers, NEW help \in Help, WellFormed(help),
         helper' = [helper EXCEPT ![c] = help], served' \in Nat,
         UNCHANGED <<url, copies, moved, raced>>,
         \A s \in Servers : help.got[s] = None, help.step \notin {"row", "drop"}
  PROVE  McpInv'
  BY GoingKeeps

LEMMA EndingKeeps ==
  ASSUME McpInv, NEW c \in Helpers, helper' = [helper EXCEPT ![c] = NoHelp], served' \in Nat,
         UNCHANGED <<url, copies, moved, raced>>
  PROVE  McpInv'
<1>1. \A s \in Servers : NoHelp.got[s] = None
  BY RegistryTypes DEF NoHelp
<1> QED
  BY <1>1, RegistryTypes, StepKeeps

\* A row is written: a selection under way, and whoever has a copy, is behind.
LEMMA WritesKeeps ==
  ASSUME McpInv, NEW c \in Helpers, NEW s \in Servers, NEW new \in Row, Writes(c, s, new),
         served' \in Nat,
         new = None => \A h \in Profiles : copies[h][s] # None => s \in raced[h]
  PROVE  McpInv'
<1>0. McpShape /\ ReadHolds /\ AskedHolds /\ CopiesHold
  BY DEF McpInv
<1>1. /\ url' \in [Servers -> Row] /\ url'[s] = new
      /\ \A t \in Servers : t # s => url'[t] = url[t]
      /\ UNCHANGED <<copies, raced>>
  BY <1>0 DEF McpShape, Writes
<1>2. /\ moved' \in [Holders -> SUBSET Servers]
      /\ \A h \in Holders : moved'[h] = moved[h] \union {s}
  BY <1>0 DEF McpShape, Writes
<1>3. helper' = [d \in Helpers |->
        IF d = c THEN NoHelp
        ELSE IF helper[d].op = "select" THEN [helper[d] EXCEPT !.moved = @ \union {s}] ELSE helper[d]]
  BY DEF Writes
<1>4. ASSUME NEW d \in Helpers
      PROVE  /\ helper'[d] \in Help /\ WellFormed(helper'[d])
             /\ \/ helper'[d].op = "none" /\ helper'[d].step = ""
                \/ /\ helper'[d].op = helper[d].op /\ helper'[d].step = helper[d].step
                   /\ helper'[d].of = helper[d].of /\ helper'[d].got = helper[d].got
                   /\ helper[d].op = "select" => helper'[d].moved = helper[d].moved \union {s}
  <2>0. helper[d] \in Help /\ WellFormed(helper[d])
    BY <1>0 DEF McpShape
  <2>1. CASE d = c
    BY <1>3, <2>1, RegistryTypes
  <2>2. CASE d # c /\ helper[d].op # "select"
    BY <1>3, <2>0, <2>2
  <2>3. CASE d # c /\ helper[d].op = "select"
    <3>1. helper'[d] = [helper[d] EXCEPT !.moved = @ \union {s}]
      BY <1>3, <2>3
    <3>2. /\ helper'[d] \in Help
          /\ helper'[d].op = helper[d].op /\ helper'[d].step = helper[d].step
          /\ helper'[d].of = helper[d].of /\ helper'[d].got = helper[d].got
          /\ helper'[d].url = helper[d].url
          /\ helper'[d].moved = helper[d].moved \union {s}
      <4>1. helper[d].moved \union {s} \in SUBSET Servers
        BY <2>0 DEF Help
      <4>2. PICK v \in SUBSET Servers : v = helper[d].moved \union {s}
        BY <4>1
      <4>3. PICK x, y : x \in Help /\ x = helper[d] /\ y = helper'[d]
        BY <2>0
      <4>4. y = [x EXCEPT !.moved = v]
        BY <3>1, <4>2, <4>3
      <4>5. /\ y \in Help /\ y.op = x.op /\ y.step = x.step /\ y.of = x.of /\ y.got = x.got
            /\ y.url = x.url /\ y.moved = v
        BY <4>3, <4>4 DEF Help
      <4> QED
        BY <4>2, <4>3, <4>5
    <3>3. WellFormed(helper'[d])
      BY <2>0, <2>3, <3>2 DEF WellFormed
    <3> QED
      BY <3>2, <3>3
  <2> QED
    BY <2>1, <2>2, <2>3
<1>5. McpShape'
  <2>1. helper' \in [Helpers -> Help]
    BY <1>3, <1>4
  <2> QED
    BY <1>0, <1>1, <1>2, <1>4, <2>1 DEF McpShape, WellFormed
<1>6. ReadHolds'
  <2> SUFFICES ASSUME NEW d \in Helpers, NEW t \in Servers, helper'[d].op = "select",
                      helper'[d].got[t] # None, t \notin helper'[d].moved
               PROVE  helper'[d].got[t] = url'[t]
    BY DEF ReadHolds
  <2>1. /\ helper[d].op = "select" /\ helper'[d].got = helper[d].got
        /\ helper'[d].moved = helper[d].moved \union {s}
    BY <1>4
  <2>2. t # s /\ t \notin helper[d].moved
    BY <2>1
  <2> QED
    BY <1>0, <1>1, <2>1, <2>2 DEF ReadHolds
<1>7. AskedHolds'
  <2> SUFFICES ASSUME NEW d \in Helpers, NEW h \in Profiles, helper'[d].step \in {"row", "drop"},
                      copies[h][helper'[d].of] # None
               PROVE  helper'[d].of \in raced[h]
    BY <1>1 DEF AskedHolds
  <2>1. helper'[d].step = helper[d].step /\ helper'[d].of = helper[d].of
    BY <1>4
  <2> QED
    BY <1>0, <2>1 DEF AskedHolds
<1>8. CopiesHold'
  <2> SUFFICES ASSUME NEW h \in Holders, NEW t \in Servers, copies[h][t] # None
               PROVE  /\ t \notin moved'[h] => copies[h][t] = url'[t]
                      /\ h \in Profiles /\ t \notin raced[h] => url'[t] # None
    BY <1>1 DEF CopiesHold
  <2>1. CASE t = s
    BY <1>1, <1>2, <2>1
  <2>2. CASE t # s
    BY <1>0, <1>1, <1>2, <2>2 DEF CopiesHold
  <2> QED
    BY <2>1, <2>2
<1> QED
  BY <1>5, <1>6, <1>7, <1>8 DEF McpInv

LEMMA SelectionKeeps ==
  ASSUME McpInv, NEW c \in Helpers, WriteSelection(c)
  PROVE  McpInv'
<1>0. McpShape /\ ReadHolds /\ AskedHolds /\ CopiesHold
  BY DEF McpInv
<1>1. /\ helper[c].step = "names" /\ UNCHANGED <<url, served>>
      /\ helper[c] \in Help /\ WellFormed(helper[c])
  BY <1>0 DEF WriteSelection, McpShape
<1>2. PICK h \in Holders : h = helper[c].of
  BY <1>1 DEF WellFormed, Help
<1>3. helper[c].op = "select" /\ served' \in Nat
  BY <1>0, <1>1 DEF WellFormed, Help, McpShape
<1>4. CASE helper[c].stale
  BY <1>1, <1>3, <1>4, EndingKeeps DEF WriteSelection
<1>5. CASE ~helper[c].stale
  <2> DEFINE R == helper[c].moved \union
               {helper[d].of : d \in {d \in Helpers : helper[d].step \in {"row", "drop"}}}
  <2>1. /\ copies' = [copies EXCEPT ![h] = helper[c].got]
        /\ moved' = [moved EXCEPT ![h] = helper[c].moved]
        /\ raced' = [raced EXCEPT ![h] = R]
        /\ helper' = [d \in Helpers |->
             IF d = c THEN NoHelp
             ELSE IF helper[d].op = "select" /\ helper[d].of = h
                  THEN [helper[d] EXCEPT !.stale = TRUE] ELSE helper[d]]
    BY <1>2, <1>5 DEF WriteSelection
  <2>2. helper[c].moved \subseteq R /\ \A d \in Helpers :
          helper[d].step \in {"row", "drop"} => helper[d].of \in R
    OBVIOUS
  <2>3. R \in SUBSET Servers
    <3>1. ASSUME NEW d \in Helpers, helper[d].step \in {"row", "drop"}
          PROVE  helper[d].of \in Servers
      <4>1. helper[d] \in Help /\ WellFormed(helper[d])
        BY <1>0 DEF McpShape
      <4>2. helper[d].op = "drop"
        BY <3>1, <4>1 DEF Help, WellFormed
      <4> QED
        BY <3>1, <4>1, <4>2 DEF WellFormed
    <3>2. helper[c].moved \in SUBSET Servers
      BY <1>1 DEF Help
    <3> QED
      BY ONLY <3>1, <3>2
  <2> HIDE DEF R
  <2>4. /\ copies' \in [Holders -> [Servers -> Row]] /\ copies'[h] = helper[c].got
        /\ \A g \in Holders : g # h => copies'[g] = copies[g]
    BY <1>0, <1>1, <2>1 DEF McpShape, Help
  <2>5. /\ moved' \in [Holders -> SUBSET Servers] /\ moved'[h] = helper[c].moved
        /\ \A g \in Holders : g # h => moved'[g] = moved[g]
    BY <1>0, <1>1, <2>1 DEF McpShape, Help
  <2>6. /\ raced' \in [Holders -> SUBSET Servers] /\ raced'[h] = R
        /\ \A g \in Holders : g # h => raced'[g] = raced[g]
    BY <1>0, <2>1, <2>3 DEF McpShape
  <2>7. ASSUME NEW d \in Helpers
        PROVE  /\ helper'[d] \in Help /\ WellFormed(helper'[d])
               /\ \/ helper'[d].op = "none" /\ helper'[d].step = ""
                  \/ /\ helper'[d].op = helper[d].op /\ helper'[d].step = helper[d].step
                     /\ helper'[d].of = helper[d].of /\ helper'[d].got = helper[d].got
                     /\ helper'[d].moved = helper[d].moved
    <3>0. helper[d] \in Help /\ WellFormed(helper[d])
      BY <1>0 DEF McpShape
    <3>1. CASE d = c
      BY <2>1, <3>1, RegistryTypes
    <3>2. CASE d # c /\ ~(helper[d].op = "select" /\ helper[d].of = h)
      BY <2>1, <3>0, <3>2
    <3>3. CASE d # c /\ helper[d].op = "select" /\ helper[d].of = h
      <4>1. helper'[d] = [helper[d] EXCEPT !.stale = TRUE]
        BY <2>1, <3>3
      <4>2. /\ helper'[d] \in Help /\ helper'[d].op = helper[d].op
            /\ helper'[d].step = helper[d].step /\ helper'[d].of = helper[d].of
            /\ helper'[d].got = helper[d].got /\ helper'[d].moved = helper[d].moved
            /\ helper'[d].url = helper[d].url
        BY <3>0, <4>1, StaleChanged, Zenon
      <4>3. WellFormed(helper'[d])
        BY <3>0, <3>3, <4>2 DEF WellFormed
      <4> QED
        BY <4>2, <4>3
    <3> QED
      BY <3>1, <3>2, <3>3
  <2>8. McpShape'
    <3>1. helper' \in [Helpers -> Help]
      BY <2>1, <2>7
    <3> QED
      BY <1>0, <1>1, <1>3, <2>4, <2>5, <2>6, <2>7, <3>1 DEF McpShape, WellFormed
  <2>9. ReadHolds'
    <3> SUFFICES ASSUME NEW d \in Helpers, NEW t \in Servers, helper'[d].op = "select",
                        helper'[d].got[t] # None, t \notin helper'[d].moved
                 PROVE  helper'[d].got[t] = url[t]
      BY <1>1 DEF ReadHolds
    <3> QED
      BY <1>0, <2>7 DEF ReadHolds
  <2>10. AskedHolds'
    <3> SUFFICES ASSUME NEW d \in Helpers, NEW g \in Profiles, helper'[d].step \in {"row", "drop"},
                        copies'[g][helper'[d].of] # None
                 PROVE  helper'[d].of \in raced'[g]
      BY DEF AskedHolds
    <3>1. helper'[d].step = helper[d].step /\ helper'[d].of = helper[d].of /\ g \in Holders
      BY <2>7 DEF Holders
    <3>2. CASE g = h
      BY <2>2, <2>6, <3>1, <3>2
    <3>3. CASE g # h
      BY <1>0, <2>4, <2>6, <3>1, <3>3 DEF AskedHolds
    <3> QED
      BY <3>2, <3>3
  <2>11. CopiesHold'
    <3> SUFFICES ASSUME NEW g \in Holders, NEW t \in Servers, copies'[g][t] # None
                 PROVE  /\ t \notin moved'[g] => copies'[g][t] = url[t]
                        /\ g \in Profiles /\ t \notin raced'[g] => url[t] # None
      BY <1>1 DEF CopiesHold
    <3>1. CASE g = h
      <4>1. helper[c].got[t] # None /\ copies'[g][t] = helper[c].got[t]
        BY <2>4, <3>1
      <4>2. t \notin helper[c].moved => helper[c].got[t] = url[t]
        BY <1>0, <1>3, <4>1 DEF ReadHolds
      <4> QED
        BY <2>2, <2>5, <2>6, <3>1, <4>1, <4>2
    <3>2. CASE g # h
      BY <1>0, <2>4, <2>5, <2>6, <3>2 DEF CopiesHold
    <3> QED
      BY <3>1, <3>2
  <2> QED
    BY <2>8, <2>9, <2>10, <2>11 DEF McpInv
<1> QED
  BY <1>4, <1>5

LEMMA RegistryKeeps ==
  ASSUME McpInv, NEW c \in Helpers, NEW s \in Servers, NEW new \in Urls,
         Register(c, s, new) \/ TakePut(c, s, new)
  PROVE  McpInv'
<1>0. McpShape /\ new \in Row /\ new # None /\ served' \in Nat
  <2>1. served \in Nat /\ served' = served + 1
    BY DEF McpInv, McpShape, Register, TakePut, TakesUp
  <2>2. served' \in Nat
    BY <2>1
  <2> QED
    BY <2>2, RegistryTypes DEF McpInv
<1>1. CASE Register(c, s, new) /\ url[s] = None
  BY <1>0, <1>1, WritesKeeps DEF Register
<1>2. CASE Register(c, s, new) /\ url[s] # None
  <2>1. UNCHANGED <<url, copies, helper, moved, raced>>
    BY <1>2 DEF Register
  <2>2. helper' = [helper EXCEPT ![c] = helper[c]] /\ helper[c] \in Help /\ WellFormed(helper[c])
        /\ helper[c].op = "none"
    BY <1>0, <1>2, <2>1 DEF McpShape, Register
  <2>3. helper[c].step \notin {"row", "drop"}
    BY <2>2 DEF WellFormed
  <2> QED
    BY <1>0, <2>1, <2>2, <2>3, GoingKeeps
<1>3. CASE TakePut(c, s, new)
  <2> DEFINE help == [NoHelp EXCEPT !.op = "put", !.step = "write", !.of = s, !.url = new]
  <2>1. helper' = [helper EXCEPT ![c] = help] /\ UNCHANGED <<url, copies, moved, raced>>
    BY <1>3 DEF TakePut, TakesUp
  <2>2. /\ help \in Help /\ help.op = "put" /\ help.step = "write" /\ help.of = s
        /\ help.url = new /\ help.got = Nothing
    BY <1>0, RegistryTypes DEF Help, NoHelp
  <2> HIDE DEF help
  <2>3. WellFormed(help)
    BY <2>2 DEF WellFormed
  <2>4. \A t \in Servers : help.got[t] = None
    BY <2>2, RegistryTypes
  <2> QED
    BY <1>0, <2>1, <2>2, <2>3, <2>4, StepKeeps
<1> QED
  BY <1>1, <1>2, <1>3

LEMMA WritePutKeeps ==
  ASSUME McpInv, NEW c \in Helpers, WritePut(c)
  PROVE  McpInv'
<1>0. McpShape /\ helper[c].op = "put" /\ UNCHANGED served
  BY DEF McpInv, WritePut
<1>1. helper[c].of \in Servers /\ helper[c].url \in Urls /\ served' \in Nat
  BY <1>0 DEF McpShape, WellFormed
<1>2. helper[c].url \in Row /\ helper[c].url # None
  BY <1>1, RegistryTypes
<1>3. CASE url[helper[c].of] # None
  BY <1>1, <1>2, <1>3, WritesKeeps DEF WritePut
<1>4. CASE url[helper[c].of] = None
  BY <1>1, <1>4, EndingKeeps DEF WritePut, GoesTo
<1> QED
  BY <1>3, <1>4

LEMMA DropKeeps ==
  ASSUME McpInv, NEW c \in Helpers,
         AskImages(c) \/ AskRow(c) \/ DropRow(c) \/ \E s \in Servers : TakeDrop(c, s)
  PROVE  McpInv'
<1>0. McpShape /\ ReadHolds /\ AskedHolds /\ CopiesHold
  BY DEF McpInv
<1>1. helper[c] \in Help /\ WellFormed(helper[c])
  BY <1>0 DEF McpShape
<1>2. ASSUME NEW t \in {"row", "drop"}, helper' = [helper EXCEPT ![c] = [helper[c] EXCEPT !.step = t]],
             helper[c].step \in {"images", "row"}, UNCHANGED <<url, copies, served, moved, raced>>,
             \A h \in Profiles : copies[h][helper[c].of] # None => helper[c].of \in raced[h]
      PROVE  McpInv'
  <2>0. PICK x \in Help : x = helper[c]
    BY <1>1
  <2>1. PICK y : y = [x EXCEPT !.step = t]
    OBVIOUS
  <2>2. y \in Help /\ y.op = helper[c].op /\ y.step = t /\ y.of = helper[c].of /\ y.got = helper[c].got
    BY <2>0, <2>1 DEF Help
  <2>3. helper[c].op = "drop" /\ helper[c].of \in Servers
    BY <1>1, <1>2 DEF Help, WellFormed
  <2>4. WellFormed(y)
    BY <2>2, <2>3 DEF WellFormed
  <2>5. helper' = [helper EXCEPT ![c] = y] /\ served' \in Nat
    BY <1>0, <1>2, <2>0, <2>1 DEF McpShape
  <2> QED
    BY <1>2, <2>2, <2>3, <2>4, <2>5, GoingKeeps
<1>3. CASE AskImages(c)
  <2>1. helper[c].step = "images" /\ UNCHANGED <<url, copies, served, moved, raced>>
    BY <1>3 DEF AskImages, GoesTo
  <2>2. CASE NamedBy(helper[c].of) # {}
    BY <1>0, <1>3, <2>1, <2>2, EndingKeeps DEF AskImages, GoesTo, McpShape
  <2>3. CASE NamedBy(helper[c].of) = {}
    <3>1. helper' = [helper EXCEPT ![c] = [helper[c] EXCEPT !.step = "row"]]
      BY <1>3, <2>3 DEF AskImages, GoesTo
    <3>2. \A h \in Profiles : copies[h][helper[c].of] = None
      BY <2>3 DEF NamedBy
    <3> QED
      BY <1>2, <2>1, <3>1, <3>2
  <2> QED
    BY <2>2, <2>3
<1>4. CASE AskRow(c)
  <2>1. helper[c].step = "row" /\ UNCHANGED <<url, copies, served, moved, raced>>
    BY <1>4 DEF AskRow, GoesTo
  <2>2. CASE url[helper[c].of] = None
    BY <1>0, <1>4, <2>1, <2>2, EndingKeeps DEF AskRow, GoesTo, McpShape
  <2>3. CASE url[helper[c].of] # None
    <3>1. helper' = [helper EXCEPT ![c] = [helper[c] EXCEPT !.step = "drop"]]
      BY <1>4, <2>3 DEF AskRow, GoesTo
    <3>2. \A h \in Profiles : copies[h][helper[c].of] # None => helper[c].of \in raced[h]
      BY <1>0, <2>1 DEF AskedHolds
    <3> QED
      BY <1>2, <2>1, <3>1, <3>2
  <2> QED
    BY <2>2, <2>3
<1>5. CASE DropRow(c)
  <2>1. helper[c].step = "drop" /\ served' \in Nat
    BY <1>0, <1>5 DEF DropRow, McpShape
  <2>2. helper[c].of \in Servers /\ None \in Row
    BY <1>1, <2>1, RegistryTypes DEF Help, WellFormed
  <2>3. CASE url[helper[c].of] # None
    <3>1. \A h \in Profiles : copies[h][helper[c].of] # None => helper[c].of \in raced[h]
      BY <1>0, <2>1 DEF AskedHolds
    <3>2. Writes(c, helper[c].of, None)
      BY <1>5, <2>3 DEF DropRow
    <3> QED
      BY <2>1, <2>2, <3>1, <3>2, WritesKeeps
  <2>4. CASE url[helper[c].of] = None
    BY <1>5, <2>1, <2>4, EndingKeeps DEF DropRow, GoesTo
  <2> QED
    BY <2>3, <2>4
<1>6. ASSUME NEW s \in Servers, TakeDrop(c, s) PROVE McpInv'
  <2> DEFINE help == [NoHelp EXCEPT !.op = "drop", !.step = "images", !.of = s]
  <2>1. helper' = [helper EXCEPT ![c] = help] /\ UNCHANGED <<url, copies, moved, raced>>
        /\ served' \in Nat
    BY <1>6, TakesServed DEF TakeDrop
  <2>2. /\ help \in Help /\ help.op = "drop" /\ help.step = "images" /\ help.of = s
        /\ help.got = Nothing
    BY RegistryTypes DEF Help, NoHelp
  <2> HIDE DEF help
  <2>3. WellFormed(help)
    BY <2>2 DEF WellFormed
  <2>4. \A t \in Servers : help.got[t] = None
    BY <2>2, RegistryTypes
  <2> QED
    BY <2>1, <2>2, <2>3, <2>4, StepKeeps
<1> QED
  BY <1>3, <1>4, <1>5, <1>6

LEMMA SelectKeeps ==
  ASSUME McpInv, NEW c \in Helpers,
         \/ \E h \in Holders : \E names \in SUBSET Servers : TakeSelect(c, h, names)
         \/ \E s \in Servers : ReadName(c, s)
  PROVE  McpInv'
<1>0. McpShape /\ ReadHolds /\ AskedHolds /\ CopiesHold
  BY DEF McpInv
<1>1. helper[c] \in Help /\ WellFormed(helper[c])
  BY <1>0 DEF McpShape
<1>2. ASSUME NEW h \in Holders, NEW names \in SUBSET Servers, TakeSelect(c, h, names)
      PROVE  McpInv'
  <2> DEFINE help == [NoHelp EXCEPT !.op = "select", !.step = "names", !.of = h, !.todo = names]
  <2>1. helper' = [helper EXCEPT ![c] = help] /\ UNCHANGED <<url, copies, moved, raced>>
        /\ served' \in Nat
    BY <1>2, TakesServed DEF TakeSelect
  <2>2. /\ help \in Help /\ help.op = "select" /\ help.step = "names" /\ help.of = h
        /\ help.got = Nothing
    BY RegistryTypes DEF Help, NoHelp
  <2> HIDE DEF help
  <2>3. WellFormed(help)
    BY <2>2 DEF WellFormed
  <2>4. \A t \in Servers : help.got[t] = None
    BY <2>2, RegistryTypes
  <2> QED
    BY <2>1, <2>2, <2>3, <2>4, StepKeeps
<1>3. ASSUME NEW s \in Servers, ReadName(c, s) PROVE McpInv'
  <2>1. helper[c].step = "names" /\ UNCHANGED <<url, copies, served, moved, raced>>
    BY <1>3 DEF ReadName, GoesTo
  <2>2. served' \in Nat
    BY <1>0, <2>1 DEF McpShape
  <2>3. CASE url[s] = None
    BY <1>3, <2>1, <2>2, <2>3, EndingKeeps DEF ReadName, GoesTo
  <2>4. CASE url[s] # None
    <3> DEFINE help == [helper[c] EXCEPT !.todo = @ \ {s}, !.got[s] = url[s]]
               got == [helper[c].got EXCEPT ![s] = url[s]]
    <3>1. helper' = [helper EXCEPT ![c] = help]
      BY <1>3, <2>4 DEF ReadName, GoesTo
    <3>2. url[s] \in Row
      BY <1>0 DEF McpShape
    <3>3. got \in [Servers -> Row] /\ \A t \in Servers :
            got[t] = IF t = s THEN url[s] ELSE helper[c].got[t]
      BY <1>1, <3>2 DEF Help
    <3>4. /\ help \in Help /\ help.op = helper[c].op /\ help.step = "names"
          /\ help.of = helper[c].of /\ help.got = got /\ help.moved = helper[c].moved
      BY <1>1, <2>1, <3>3 DEF Help
    <3> HIDE DEF help, got
    <3>5. helper[c].op = "select" /\ WellFormed(help)
      BY <1>1, <2>1, <3>4 DEF Help, WellFormed
    <3>6. \A t \in Servers : help.got[t] # None /\ t \notin help.moved => help.got[t] = url[t]
      BY <1>0, <3>3, <3>4, <3>5 DEF ReadHolds
    <3> QED
      BY <2>1, <2>2, <3>1, <3>4, <3>5, <3>6, GoingKeeps
  <2> QED
    BY <2>3, <2>4
<1> QED
  BY <1>2, <1>3

LEMMA RegistryInit == McpInit => McpInv
<1> SUFFICES ASSUME McpInit PROVE McpInv
  OBVIOUS
<1>1. /\ url = Nothing /\ copies = [h \in Holders |-> Nothing]
      /\ helper = [c \in Helpers |-> NoHelp] /\ served = 0
      /\ moved = [h \in Holders |-> {}] /\ raced = [h \in Holders |-> {}]
  BY DEF McpInit
<1>2. McpShape
  BY <1>1, RegistryTypes DEF McpShape
<1>3. ReadHolds /\ AskedHolds
  BY <1>1, RegistryTypes DEF ReadHolds, AskedHolds
<1>4. CopiesHold
  BY <1>1, RegistryTypes DEF CopiesHold
<1> QED
  BY <1>2, <1>3, <1>4 DEF McpInv

LEMMA RegistryStep ==
  ASSUME McpInv, [McpNext]_mcpVars
  PROVE  McpInv'
<1>1. ASSUME NEW c \in Helpers, HelpFails(c) PROVE McpInv'
  <2>1. helper' = [helper EXCEPT ![c] = NoHelp] /\ UNCHANGED <<url, copies, served, moved, raced>>
    BY <1>1 DEF HelpFails, GoesTo
  <2> QED
    BY <2>1, EndingKeeps DEF McpInv, McpShape
<1>2. CASE UNCHANGED mcpVars
  BY <1>2 DEF McpInv, McpShape, ReadHolds, AskedHolds, CopiesHold, mcpVars, WellFormed
<1>3. CASE McpNext
  <2>1. PICK c \in Helpers :
          \/ \E s \in Servers :
               \/ \E new \in Urls : Register(c, s, new) \/ TakePut(c, s, new)
               \/ TakeDrop(c, s) \/ ReadName(c, s)
          \/ \E h \in Holders : \E names \in SUBSET Servers : TakeSelect(c, h, names)
          \/ WritePut(c) \/ AskImages(c) \/ AskRow(c) \/ DropRow(c) \/ WriteSelection(c) \/ HelpFails(c)
    BY <1>3 DEF McpNext
  <2> QED
    BY <1>1, <2>1, RegistryKeeps, WritePutKeeps, DropKeeps, SelectKeeps, SelectionKeeps
<1> QED
  BY <1>2, <1>3

(* The registry's rows move under those who copied them and under requests     *)
(* that are reading several: every copy not known to be behind is the row, and *)
(* an image names a server that is gone only if the two requests overlapped    *)
(* (resolveMCPRequest, agentImagesReferencingMCPServer).                       *)
THEOREM CopiesAreHeld == McpSpec => []CopiesHold
<1>1. McpInit => McpInv
  BY RegistryInit
<1>2. McpInv /\ [McpNext]_mcpVars => McpInv'
  BY RegistryStep
<1>3. McpInv => CopiesHold
  BY DEF McpInv
<1> QED
  BY <1>1, <1>2, <1>3, PTL DEF McpSpec

(***************************************************************************)
(* Agents and their images.                                                *)
(***************************************************************************)
AgentRow ==
  [there: BOOLEAN, name: Nat, base: Bases \union {""}, tools: SUBSET Tools, env: Nat, keyed: BOOLEAN]
Errand ==
  [op: {"none", "hire", "edit", "declare", "drop", "refresh"}, pc: {"", "check", "key", "write"},
   of: Staff \union Bases \union {""}, row: AgentRow, order: Orders \union {NoOrder},
   tools: SUBSET Tools]

Proper(e) ==
  /\ e.op = "none" => e.pc = ""
  /\ e.op \in OfAgents => e.pc # "" /\ e.of \in Staff /\ e.order \in Orders
  /\ e.op = "hire" => Fields \subseteq e.order.names /\ e.row = NoAgent
  /\ e.op = "edit" => e.row.base \in Bases
  /\ e.op \in OfBases => e.pc \in {"check", "write"} /\ e.of \in Bases
  /\ e.op = "refresh" => e.pc = "write"

DeskShape ==
  /\ agentRow \in [Staff -> AgentRow]
  /\ \A a \in Staff : agentRow[a].there => agentRow[a].base \in Bases
  /\ base \in [Bases -> [there: BOOLEAN, tools: SUBSET Tools]]
  /\ clerk \in [Clerks -> Errand]
  /\ \A c \in Clerks : Proper(clerk[c])
  /\ DOMAIN said = Staff

\* Nobody else is at an agent that is being created.
HiringAt(c) == clerk[c].op = "hire" =>
  /\ ~agentRow[clerk[c].of].there /\ said[clerk[c].of] = NoAgent
  /\ \A d \in Clerks : d # c /\ clerk[d].op \in OfAgents => clerk[d].of # clerk[c].of

\* A copy that nobody has overtaken is what is there.
FreshAt(c) == c \notin unread =>
  /\ clerk[c].op = "edit" /\ agentRow[clerk[c].of].there => clerk[c].row = agentRow[clerk[c].of]
  /\ clerk[c].op = "refresh" =>
       base[clerk[c].of].there /\ base[clerk[c].of].tools = clerk[c].tools

\* The row has its image and the tools it names.
Fits(row) == base[row.base].there /\ row.tools \subseteq base[row.base].tools \union McpTools

\* What has been checked still holds, unless the other kind has written since.
CheckedAt(c) ==
  /\ clerk[c].op \in OfAgents /\ clerk[c].pc = "write" /\ "key" \in clerk[c].order.names =>
       clerk[c].of \in keySecret
  /\ clerk[c].op \in OfAgents /\ clerk[c].pc \in {"key", "write"} /\ Checks(clerk[c].order)
       /\ c \notin crossed => Fits(Merged(clerk[c].row, clerk[c].order))
  /\ clerk[c].op \in {"declare", "drop"} /\ clerk[c].pc = "write" =>
       \A a \in Staff \ crossed : agentRow[a].there /\ agentRow[a].base = clerk[c].of =>
         clerk[c].op = "declare" /\ agentRow[a].tools \subseteq clerk[c].tools \union McpTools

ClerkHolds(c) == HiringAt(c) /\ FreshAt(c) /\ CheckedAt(c)

DeskInv == DeskShape /\ (\A c \in Clerks : ClerkHolds(c)) /\ AgentsHold

LEMMA DeskTypes ==
  /\ NoAgent \in AgentRow /\ ~NoAgent.there /\ ~NoAgent.keyed
  /\ NoOrder.names = {} /\ NoOrder \in Orders \union {NoOrder}
  /\ NoErrand \in Errand /\ Proper(NoErrand) /\ NoErrand.op = "none" /\ NoErrand.pc = ""
  /\ NoErrand.row = NoAgent
  /\ \A x \in {NoBase, NotYet} : x \in [there: BOOLEAN, tools: SUBSET Tools] /\ ~x.there
<1>1. NoAgent \in AgentRow /\ ~NoAgent.there /\ ~NoAgent.keyed
  BY DEF NoAgent, AgentRow
<1>2. NoOrder.names = {}
  BY DEF NoOrder
<1>3. /\ NoErrand \in Errand /\ NoErrand.op = "none" /\ NoErrand.pc = "" /\ NoErrand.row = NoAgent
  BY <1>1 DEF NoErrand, Errand
<1>4. Proper(NoErrand)
  BY <1>3 DEF Proper, OfAgents, OfBases
<1>5. \A x \in {NoBase, NotYet} : x \in [there: BOOLEAN, tools: SUBSET Tools] /\ ~x.there
  <2>1. NoBase \in [there: BOOLEAN, tools: SUBSET Tools] /\ ~NoBase.there
    BY DEF NoBase
  <2>2. NotYet \in [there: BOOLEAN, tools: SUBSET Tools] /\ ~NotYet.there
    BY DEF NotYet
  <2> QED
    BY <2>1, <2>2
<1> QED
  BY <1>1, <1>2, <1>3, <1>4, <1>5

LEMMA OrderTypes ==
  ASSUME NEW order \in Orders
  PROVE  /\ order.names \subseteq Fields \union {"key"}
         /\ order.name \in Nat /\ order.base \in Bases \union {""} /\ order.tools \in SUBSET Tools
         /\ order.env \in Nat /\ ("base" \in order.names => order.base \in Bases)
  BY AgentDeskAssumption

LEMMA MergedTypes ==
  ASSUME NEW row \in AgentRow, NEW order \in Orders
  PROVE  /\ Merged(row, order) \in AgentRow /\ Merged(row, order).there
         /\ Merged(row, order).name = IF "name" \in order.names THEN order.name ELSE row.name
         /\ Merged(row, order).base = IF "base" \in order.names THEN order.base ELSE row.base
         /\ Merged(row, order).tools = IF "tools" \in order.names THEN order.tools ELSE row.tools
         /\ Merged(row, order).env =
              IF "env" \in order.names /\ order.env # 0 THEN order.env ELSE row.env
         /\ Merged(row, order).keyed = (row.keyed \/ "key" \in order.names)
<1>1. /\ row.name \in Nat /\ row.base \in Bases \union {""} /\ row.tools \in SUBSET Tools
      /\ row.env \in Nat /\ row.keyed \in BOOLEAN
  BY DEF AgentRow
<1> DEFINE n == IF "name" \in order.names THEN order.name ELSE row.name
           b == IF "base" \in order.names THEN order.base ELSE row.base
           t == IF "tools" \in order.names THEN order.tools ELSE row.tools
           v == IF "env" \in order.names /\ order.env # 0 THEN order.env ELSE row.env
           k == row.keyed \/ "key" \in order.names
<1>2. n \in Nat /\ b \in Bases \union {""} /\ t \in SUBSET Tools /\ v \in Nat /\ k \in BOOLEAN
  BY <1>1, OrderTypes
<1>3. Merged(row, order) =
        [there |-> TRUE, name |-> n, base |-> b, tools |-> t, env |-> v, keyed |-> k]
  BY DEF Merged
<1> HIDE DEF n, b, t, v, k
<1>4. /\ Merged(row, order) \in AgentRow /\ Merged(row, order).there
      /\ Merged(row, order).name = n /\ Merged(row, order).base = b
      /\ Merged(row, order).tools = t /\ Merged(row, order).env = v /\ Merged(row, order).keyed = k
  <2>1. PICK r, n0, b0, t0, v0, B0, y0, k0 :
          /\ r = Merged(row, order) /\ n0 = n /\ b0 = b /\ t0 = t /\ v0 = v
          /\ B0 = BOOLEAN /\ y0 = TRUE /\ k0 = k
    OBVIOUS
  <2>2. /\ r = [there |-> y0, name |-> n0, base |-> b0, tools |-> t0, env |-> v0, keyed |-> k0]
        /\ n0 \in Nat /\ b0 \in Bases \union {""} /\ t0 \in SUBSET Tools /\ v0 \in Nat
        /\ y0 \in B0 /\ k0 \in B0
    BY <1>2, <1>3, <2>1
  <2>3. /\ r \in [there: B0, name: Nat, base: Bases \union {""}, tools: SUBSET Tools,
                  env: Nat, keyed: B0]
        /\ r.there = y0 /\ r.name = n0 /\ r.base = b0 /\ r.tools = t0 /\ r.env = v0 /\ r.keyed = k0
    BY ONLY <2>2
  <2> QED
    BY <2>1, <2>3 DEF AgentRow
<1> QED
  BY <1>4 DEF n, b, t, v, k

\* One request goes on; no object changes but the Secrets.
LEMMA ClerkKeeps ==
  ASSUME DeskInv, NEW c \in Clerks, NEW e \in Errand, Proper(e), clerk' = [clerk EXCEPT ![c] = e],
         UNCHANGED <<agentRow, base, said>>, keySecret \subseteq keySecret',
         \A d \in Clerks : d # c /\ d \in unread => d \in unread',
         \A x : x # c => (x \in crossed' <=> x \in crossed),
         ClerkHolds(c)',
         e.op \in OfAgents => \A d \in Clerks : clerk[d].op = "hire" /\ d # c => clerk[d].of # e.of
  PROVE  DeskInv'
<1>0. DeskShape /\ AgentsHold /\ \A d \in Clerks : HiringAt(d) /\ FreshAt(d) /\ CheckedAt(d)
  BY DEF DeskInv, ClerkHolds
<1>1. /\ clerk' \in [Clerks -> Errand] /\ clerk'[c] = e
      /\ \A d \in Clerks : d # c => clerk'[d] = clerk[d]
  BY <1>0 DEF DeskShape
<1>2. \A a \in Staff : a \notin crossed' <=> a \notin crossed
  BY AgentDeskAssumption
<1>3. DeskShape'
  <2>1. \A d \in Clerks : Proper(clerk'[d])
    BY <1>0, <1>1 DEF DeskShape
  <2> QED
    BY <1>0, <1>1, <2>1 DEF DeskShape, Proper
<1>4. ASSUME NEW d \in Clerks, d # c PROVE ClerkHolds(d)'
  <2>1. HiringAt(d)'
    <3> SUFFICES ASSUME clerk[d].op = "hire"
                 PROVE  /\ ~agentRow[clerk[d].of].there /\ said[clerk[d].of] = NoAgent
                        /\ \A b \in Clerks : b # d /\ clerk'[b].op \in OfAgents =>
                             clerk'[b].of # clerk[d].of
      BY <1>1, <1>4 DEF HiringAt
    <3>1. ASSUME NEW b \in Clerks, b # d, clerk'[b].op \in OfAgents
          PROVE  clerk'[b].of # clerk[d].of
      <4>1. CASE b = c
        BY <1>1, <1>4, <3>1, <4>1
      <4>2. CASE b # c
        BY <1>0, <1>1, <3>1, <4>2 DEF HiringAt
      <4> QED
        BY <4>1, <4>2
    <3> QED
      BY <1>0, <3>1 DEF HiringAt
  <2>2. FreshAt(d)'
    BY <1>0, <1>1, <1>4 DEF FreshAt
  <2>3. CheckedAt(d)'
    <3>1. clerk'[d] = clerk[d] /\ (d \in crossed' <=> d \in crossed)
      BY <1>1, <1>4
    <3>2. CheckedAt(d) /\ UNCHANGED <<agentRow, base>>
      BY <1>0
    <3> QED
      BY ONLY <1>2, <3>1, <3>2, keySecret \subseteq keySecret' DEF CheckedAt, Fits
  <2> QED
    BY <2>1, <2>2, <2>3 DEF ClerkHolds
<1>5. AgentsHold'
  BY <1>0, <1>2 DEF AgentsHold, EditsStand, ReferencesHold
<1> QED
  BY <1>3, <1>4, <1>5 DEF DeskInv

LEMMA AnsweredKeeps ==
  ASSUME DeskInv, NEW c \in Clerks, Answered(c), UNCHANGED <<agentRow, base, keySecret, said, crossed>>
  PROVE  DeskInv'
<1>1. clerk' = [clerk EXCEPT ![c] = NoErrand] /\ unread' = unread \ {c}
  BY DEF Answered
<1>2. clerk'[c] = NoErrand /\ NoErrand.op \notin OfAgents
  BY <1>1, DeskTypes DEF DeskInv, DeskShape, OfAgents
<1>3. ClerkHolds(c)'
  BY <1>2, DeskTypes DEF ClerkHolds, HiringAt, FreshAt, CheckedAt, OfAgents
<1> QED
  BY <1>1, <1>2, <1>3, DeskTypes, ClerkKeeps

LEMMA TakeKeeps ==
  ASSUME DeskInv, NEW c \in Clerks, NEW a \in Staff, NEW order \in Orders, Take(c, a, order)
  PROVE  DeskInv'
<1>0. DeskShape /\ \A d \in Clerks : HiringAt(d)
  BY DEF DeskInv, ClerkHolds
<1>1. UNCHANGED <<agentRow, base, said, keySecret, unread>> /\ crossed' = crossed \ {c}
  BY DEF Take, Takes, deskObjects
<1>2. CASE ~agentRow[a].there
  <2> DEFINE e == [NoErrand EXCEPT !.op = "hire", !.pc = "check", !.of = a, !.order = order]
  <2>1. /\ clerk' = [clerk EXCEPT ![c] = e] /\ Fields \subseteq order.names
        /\ said[a] = NoAgent /\ \A d \in Clerks : clerk[d].of # a
    BY <1>2 DEF Take, Takes
  <2>2. /\ e \in Errand /\ e.op = "hire" /\ e.pc = "check" /\ e.of = a /\ e.order = order
        /\ e.row = NoAgent
    BY DeskTypes DEF NoErrand, Errand
  <2> HIDE DEF e
  <2>3. Proper(e)
    BY <2>1, <2>2 DEF Proper, OfAgents, OfBases
  <2>4. /\ clerk'[c] = e /\ \A d \in Clerks : d # c => clerk'[d] = clerk[d]
    BY <1>0, <2>1 DEF DeskShape
  <2>5. ClerkHolds(c)'
    <3>1. HiringAt(c)'
      BY <1>1, <1>2, <2>1, <2>2, <2>4 DEF HiringAt
    <3>2. FreshAt(c)' /\ CheckedAt(c)'
      BY <2>2, <2>4 DEF FreshAt, CheckedAt
    <3> QED
      BY <3>1, <3>2 DEF ClerkHolds
  <2> QED
    BY <1>1, <2>1, <2>2, <2>3, <2>5, ClerkKeeps
<1>3. CASE agentRow[a].there
  <2> DEFINE e == [NoErrand EXCEPT !.op = "edit", !.pc = "check", !.of = a, !.order = order,
                              !.row = agentRow[a]]
  <2>1. clerk' = [clerk EXCEPT ![c] = e]
    BY <1>3 DEF Take, Takes
  <2>2. agentRow[a] \in AgentRow /\ agentRow[a].base \in Bases
    BY <1>0, <1>3 DEF DeskShape
  <2>3. /\ e \in Errand /\ e.op = "edit" /\ e.pc = "check" /\ e.of = a /\ e.order = order
        /\ e.row = agentRow[a]
    BY <2>2 DEF NoErrand, Errand
  <2> HIDE DEF e
  <2>4. Proper(e)
    BY <2>2, <2>3 DEF Proper, OfAgents, OfBases
  <2>5. clerk'[c] = e
    BY <1>0, <2>1 DEF DeskShape
  <2>6. ClerkHolds(c)'
    BY <1>1, <2>3, <2>5 DEF ClerkHolds, HiringAt, FreshAt, CheckedAt
  <2>7. \A d \in Clerks : clerk[d].op = "hire" => clerk[d].of # a
    BY <1>0, <1>3 DEF HiringAt
  <2> QED
    BY <1>1, <2>1, <2>3, <2>4, <2>6, <2>7, ClerkKeeps
<1> QED
  BY <1>2, <1>3

\* A request on an agent moves on to its next call.
LEMMA MovesKeep ==
  ASSUME DeskInv, NEW c \in Clerks, NEW pc \in {"key", "write"}, MovesTo(c, pc),
         UNCHANGED <<agentRow, base, said, crossed>>, keySecret \subseteq keySecret',
         clerk[c].op \in OfAgents, NEW order, order = clerk[c].order,
         pc = "write" /\ "key" \in order.names => clerk[c].of \in keySecret',
         Checks(order) /\ c \notin crossed => Fits(Merged(clerk[c].row, order))
  PROVE  DeskInv'
<1>0. DeskShape /\ HiringAt(c) /\ FreshAt(c) /\ \A d \in Clerks : HiringAt(d)
  BY DEF DeskInv, ClerkHolds
<1>1. PICK x, e : x = clerk[c] /\ e = [x EXCEPT !.pc = pc] /\ x \in Errand /\ Proper(x)
  BY <1>0 DEF DeskShape
<1>2. /\ e \in Errand /\ e.op = x.op /\ e.pc = pc /\ e.of = x.of /\ e.row = x.row
      /\ e.order = x.order /\ e.tools = x.tools
  BY <1>1 DEF Errand
<1>3. clerk' = [clerk EXCEPT ![c] = e] /\ unread' = unread
  BY <1>1 DEF MovesTo
<1>4. clerk'[c] = e /\ \A d \in Clerks : d # c => clerk'[d] = clerk[d]
  BY <1>0, <1>3 DEF DeskShape
<1>5. x.op \in {"hire", "edit"}
  BY <1>1 DEF OfAgents
<1>6. Proper(e)
  BY <1>1, <1>2, <1>5 DEF Proper, OfAgents, OfBases
<1>7. HiringAt(c)'
  BY <1>0, <1>1, <1>2, <1>4 DEF HiringAt
<1>8. FreshAt(c)'
  BY <1>0, <1>1, <1>2, <1>3, <1>4 DEF FreshAt
<1>9. CheckedAt(c)'
  <2>2. clerk'[c].row = x.row /\ clerk'[c].order = order /\ clerk'[c].of = clerk[c].of
        /\ clerk'[c].op = x.op /\ clerk'[c].pc = pc
    BY <1>1, <1>2, <1>4
  <2>3. PICK row : row = Merged(clerk[c].row, order)
    OBVIOUS
  <2>4. Merged(clerk'[c].row, clerk'[c].order) = row
    BY <1>1, <2>2, <2>3
  <2>5. Checks(order) /\ c \notin crossed' =>
          base'[row.base].there /\ row.tools \subseteq base'[row.base].tools \union McpTools
    BY <2>3 DEF Fits
  <2> QED
    BY <1>5, <2>2, <2>4, <2>5 DEF CheckedAt, Fits
<1>10. \A d \in Clerks : clerk[d].op = "hire" /\ d # c => clerk[d].of # e.of
  BY <1>0, <1>1, <1>2 DEF HiringAt
<1> QED
  BY <1>2, <1>3, <1>6, <1>7, <1>8, <1>9, <1>10, ClerkKeeps DEF ClerkHolds

LEMMA AgentCallsKeep ==
  ASSUME DeskInv, NEW c \in Clerks, Check(c) \/ CreateKey(c) \/ PutKey(c)
  PROVE  DeskInv'
<1>0. DeskShape /\ CheckedAt(c)
  BY DEF DeskInv, ClerkHolds
<1>1. UNCHANGED <<agentRow, base, said, crossed>> /\ clerk[c].op \in OfAgents
  BY DEF Check, CreateKey, PutKey, deskObjects, OfAgents
<1>2. PICK order : order = clerk[c].order
  OBVIOUS
<1>3. CASE Check(c)
  <2>1. keySecret' = keySecret
    BY <1>3 DEF Check, deskObjects
  <2>2. CASE Checks(order) /\ ~Accepts(Merged(clerk[c].row, order))
    BY <1>1, <1>2, <1>3, <2>1, <2>2, AnsweredKeeps DEF Check
  <2>3. CASE ~(Checks(order) /\ ~Accepts(Merged(clerk[c].row, order)))
    <3>1. PICK pc \in {"key", "write"} :
            MovesTo(c, pc) /\ (pc = "write" => "key" \notin order.names)
      BY <1>2, <1>3, <2>3 DEF Check
    <3>2. Checks(order) => Fits(Merged(clerk[c].row, order))
      <4> SUFFICES ASSUME Accepts(Merged(clerk[c].row, order))
                   PROVE  Fits(Merged(clerk[c].row, order))
        BY <2>3
      <4> QED
        BY DEF Accepts, Fits
    <3> QED
      BY <1>1, <1>2, <2>1, <3>1, <3>2, MovesKeep
  <2> QED
    BY <2>2, <2>3
<1>4. CASE CreateKey(c) \/ PutKey(c)
  <2>1. clerk[c].pc = "key"
    BY <1>4 DEF CreateKey, PutKey
  <2>2. CASE Locks(c)
    <3>1. keySecret' = keySecret \union {clerk[c].of} /\ MovesTo(c, "write")
      BY <2>2 DEF Locks
    <3>2. Checks(order) /\ c \notin crossed => Fits(Merged(clerk[c].row, order))
      BY <1>0, <1>1, <1>2, <2>1 DEF CheckedAt
    <3> QED
      BY <1>1, <1>2, <3>1, <3>2, MovesKeep
  <2>3. CASE KeyFails(c)
    BY <1>1, <2>3, AnsweredKeeps DEF KeyFails
  <2> QED
    BY <1>4, <2>2, <2>3 DEF CreateKey, PutKey
<1> QED
  BY <1>3, <1>4

\* What a write of an agent leaves, field by field.
LEMMA WrittenAgent ==
  ASSUME DeskInv, NEW c \in Clerks, clerk[c].op \in OfAgents, clerk[c].pc = "write",
         ~Refused(c), NEW a \in Staff, a = clerk[c].of, NEW row, NEW order \in Orders,
         order = clerk[c].order, row = Merged(clerk[c].row, order)
  PROVE  /\ row \in AgentRow /\ row.there /\ row.base \in Bases
         /\ row.keyed => a \in keySecret
         /\ \A f \in Fields : row[f] = Heard(a, order)[f]
         /\ Checks(order) /\ c \notin crossed => Fits(row)
         /\ ~Checks(order) =>
              agentRow[a].there /\ row.base = agentRow[a].base /\ row.tools = agentRow[a].tools
<1>0. DeskShape /\ AgentsHold /\ HiringAt(c) /\ FreshAt(c) /\ CheckedAt(c)
  BY DEF DeskInv, ClerkHolds
<1>1. PICK old \in AgentRow : old = clerk[c].row /\ clerk[c] \in Errand /\ Proper(clerk[c])
  BY <1>0 DEF DeskShape, Errand
<1>2. /\ row \in AgentRow /\ row.there
      /\ row.name = IF "name" \in order.names THEN order.name ELSE old.name
      /\ row.base = IF "base" \in order.names THEN order.base ELSE old.base
      /\ row.tools = IF "tools" \in order.names THEN order.tools ELSE old.tools
      /\ row.env = IF "env" \in order.names /\ order.env # 0 THEN order.env ELSE old.env
      /\ row.keyed = (old.keyed \/ "key" \in order.names)
  BY <1>1, MergedTypes
<1>3. /\ order.names \subseteq Fields \union {"key"}
      /\ "base" \in order.names => order.base \in Bases
  BY OrderTypes
<1>4. "key" \in order.names => a \in keySecret
  BY <1>0 DEF CheckedAt
<1>5. Checks(order) /\ c \notin crossed => Fits(row)
  BY <1>0 DEF CheckedAt
<1>6. \A f \in Fields : Heard(a, order)[f] =
        IF f \in order.names /\ (f # "env" \/ order.env # 0) THEN order[f] ELSE said[a][f]
  BY DEF Heard, NoAgent, Fields
<1>7. CASE clerk[c].op = "hire"
  <2>1. Fields \subseteq order.names /\ old = NoAgent /\ said[a] = NoAgent
    BY <1>0, <1>1, <1>7 DEF Proper, HiringAt
  <2>2. "base" \in order.names /\ "name" \in order.names /\ "tools" \in order.names
        /\ "env" \in order.names /\ Checks(order)
    BY <2>1 DEF Fields, Checks
  <2>3. ~old.keyed
    BY <2>1, DeskTypes
  <2>4. \A f \in Fields : row[f] = Heard(a, order)[f]
    <3> SUFFICES ASSUME NEW f \in {"name", "base", "tools", "env"}
                 PROVE  row[f] = Heard(a, order)[f]
      BY DEF Fields
    <3>1. Heard(a, order)[f] = IF f # "env" \/ order.env # 0 THEN order[f] ELSE said[a][f]
      BY <1>6, <2>1 DEF Fields
    <3>2. old.env = said[a].env
      BY <2>1
    <3>3. CASE f = "env"
      BY <1>2, <2>2, <3>1, <3>2, <3>3
    <3>4. CASE f # "env"
      BY <1>2, <2>2, <3>1, <3>4
    <3> QED
      BY <3>3, <3>4
  <2> QED
    BY <1>2, <1>3, <1>4, <1>5, <2>2, <2>3, <2>4
<1>8. CASE clerk[c].op = "edit"
  <2>1. agentRow[a].there /\ old = agentRow[a]
    BY <1>0, <1>1, <1>8 DEF Refused, FreshAt
  <2>2. /\ old.base \in Bases /\ (old.keyed => a \in keySecret)
        /\ \A f \in Fields : old[f] = said[a][f]
    BY <1>0, <2>1 DEF DeskShape, AgentsHold, EditsStand, ReferencesHold
  <2>3. \A f \in Fields : row[f] = Heard(a, order)[f]
    <3> SUFFICES ASSUME NEW f \in {"name", "base", "tools", "env"}
                 PROVE  row[f] = Heard(a, order)[f]
      BY DEF Fields
    <3>1. /\ old[f] = said[a][f]
          /\ Heard(a, order)[f] =
               IF f \in order.names /\ (f # "env" \/ order.env # 0) THEN order[f] ELSE said[a][f]
      BY <1>6, <2>2 DEF Fields
    <3>2. CASE f = "env"
      BY <1>2, <3>1, <3>2
    <3>3. CASE f = "name"
      BY <1>2, <3>1, <3>3
    <3>4. CASE f = "base"
      BY <1>2, <3>1, <3>4
    <3>5. CASE f = "tools"
      BY <1>2, <3>1, <3>5
    <3> QED
      BY <3>2, <3>3, <3>4, <3>5
  <2>4. ~Checks(order) => "base" \notin order.names /\ "tools" \notin order.names
    BY DEF Checks
  <2> QED
    BY <1>2, <1>3, <1>4, <1>5, <2>1, <2>2, <2>3, <2>4
<1> QED
  BY <1>7, <1>8 DEF OfAgents

LEMMA WriteAgentKeeps ==
  ASSUME DeskInv, NEW c \in Clerks, WriteAgent(c)
  PROVE  DeskInv'
<1>0. DeskShape /\ AgentsHold /\ \A d \in Clerks : HiringAt(d) /\ FreshAt(d) /\ CheckedAt(d)
  BY DEF DeskInv, ClerkHolds
<1>1. clerk[c].op \in OfAgents /\ clerk[c].pc = "write" /\ UNCHANGED <<base, keySecret>>
  BY DEF WriteAgent
<1>2. PICK a \in Staff, order \in Orders : a = clerk[c].of /\ order = clerk[c].order
  BY <1>0, <1>1 DEF DeskShape, Proper
<1>3. CASE Answered(c) /\ UNCHANGED <<agentRow, said, crossed>>
  BY <1>1, <1>3, AnsweredKeeps
<1>4. CASE /\ ~Refused(c)
           /\ agentRow' = [agentRow EXCEPT ![a] = Merged(clerk[c].row, order)]
           /\ said' = [said EXCEPT ![a] = Heard(a, order)]
           /\ crossed' = IF Between(OfBases) # {} \/ c \in crossed
                         THEN (crossed \union {a}) \ {c}
                         ELSE IF Checks(order) THEN crossed \ {a} ELSE crossed
           /\ clerk' = [clerk EXCEPT ![c] = NoErrand]
           /\ Overtakes(c, a)
  <2>1. PICK row : row = Merged(clerk[c].row, order)
    OBVIOUS
  <2>2. /\ row \in AgentRow /\ row.there /\ row.base \in Bases
        /\ row.keyed => a \in keySecret
        /\ \A f \in Fields : row[f] = Heard(a, order)[f]
        /\ Checks(order) /\ c \notin crossed => Fits(row)
        /\ ~Checks(order) =>
             agentRow[a].there /\ row.base = agentRow[a].base /\ row.tools = agentRow[a].tools
    BY <1>1, <1>2, <1>4, <2>1, WrittenAgent
  <2>3. /\ agentRow' \in [Staff -> AgentRow] /\ agentRow'[a] = row
        /\ \A b \in Staff : b # a => agentRow'[b] = agentRow[b]
    BY <1>0, <1>4, <2>1, <2>2 DEF DeskShape
  <2>4. /\ DOMAIN said' = Staff /\ said'[a] = Heard(a, order)
        /\ \A b \in Staff : b # a => said'[b] = said[b]
    BY <1>0, <1>4 DEF DeskShape
  <2>5. /\ clerk' \in [Clerks -> Errand] /\ clerk'[c] = NoErrand
        /\ \A d \in Clerks : d # c => clerk'[d] = clerk[d]
    BY <1>0, <1>4, DeskTypes DEF DeskShape
  <2>6. a # c /\ \A b \in Staff : b # c
    BY AgentDeskAssumption
  <2>7. /\ \A x : x # a /\ x # c => (x \in crossed' <=> x \in crossed)
        /\ a \notin crossed' => c \notin crossed /\ (Checks(order) \/ a \notin crossed)
        /\ Between(OfBases) # {} => a \in crossed'
    BY <1>4, <2>6
  <2>8. DeskShape'
    <3>1. \A d \in Clerks : Proper(clerk'[d])
      BY <1>0, <2>5, DeskTypes DEF DeskShape
    <3>2. \A b \in Staff : agentRow'[b].there => agentRow'[b].base \in Bases
      BY <1>0, <2>2, <2>3 DEF DeskShape
    <3> QED
      BY <1>0, <1>1, <2>3, <2>4, <2>5, <3>1, <3>2 DEF DeskShape, Proper
  <2>9. ASSUME NEW d \in Clerks PROVE ClerkHolds(d)'
    <3>1. CASE d = c
      BY <2>5, <3>1, DeskTypes DEF ClerkHolds, HiringAt, FreshAt, CheckedAt, OfAgents
    <3>2. CASE d # c
      <4>1. clerk'[d] = clerk[d] /\ (d \in crossed' <=> d \in crossed)
        BY <2>5, <2>7, <3>2, AgentDeskAssumption
      <4>2. HiringAt(d)'
        <5> SUFFICES ASSUME clerk[d].op = "hire"
                     PROVE  /\ ~agentRow'[clerk[d].of].there /\ said'[clerk[d].of] = NoAgent
                            /\ \A b \in Clerks : b # d /\ clerk'[b].op \in OfAgents =>
                                 clerk'[b].of # clerk[d].of
          BY <4>1 DEF HiringAt
        <5>1. clerk[d].of \in Staff /\ clerk[d].of # a
          BY <1>0, <1>1, <1>2, <3>2 DEF HiringAt, DeskShape, Proper, OfAgents
        <5>2. ~agentRow'[clerk[d].of].there /\ said'[clerk[d].of] = NoAgent
          BY <1>0, <2>3, <2>4, <5>1 DEF HiringAt
        <5>3. ASSUME NEW b \in Clerks, b # d, clerk'[b].op \in OfAgents
              PROVE  clerk'[b].of # clerk[d].of
          <6>1. b # c
            BY <2>5, <5>3, DeskTypes DEF OfAgents
          <6> QED
            BY <1>0, <2>5, <5>3, <6>1 DEF HiringAt
        <5> QED
          BY <5>2, <5>3
      <4>3. FreshAt(d)'
        <5>1. d \notin unread' => d \notin unread /\ (clerk[d].op = "none" \/ clerk[d].of # a)
          BY <1>4, <3>2 DEF Overtakes
        <5>2. clerk[d].op = "edit" => clerk[d].of \in Staff
          BY <1>0 DEF DeskShape, Proper, OfAgents
        <5> QED
          BY <1>0, <1>1, <2>3, <4>1, <5>1, <5>2 DEF FreshAt
      <4>4. CheckedAt(d)'
        <5>1. \A r : Fits(r) => base'[r.base].there /\ r.tools \subseteq base'[r.base].tools \union McpTools
          BY <1>1 DEF Fits
        <5>2. ASSUME clerk[d].op \in {"declare", "drop"}, clerk[d].pc = "write",
                     NEW b \in Staff \ crossed', agentRow'[b].there, agentRow'[b].base = clerk[d].of
              PROVE  clerk[d].op = "declare" /\ agentRow'[b].tools \subseteq clerk[d].tools \union McpTools
          <6>1. d \in Between(OfBases)
            BY <5>2 DEF Between, OfBases
          <6>2. b # a /\ b \notin crossed
            BY <2>6, <2>7, <5>2, <6>1
          <6> QED
            BY <1>0, <2>3, <5>2, <6>2 DEF CheckedAt
        <5> QED
          BY <1>0, <1>1, <4>1, <5>1, <5>2 DEF CheckedAt, Fits
      <4> QED
        BY <4>2, <4>3, <4>4 DEF ClerkHolds
    <3> QED
      BY <3>1, <3>2
  <2>10. AgentsHold'
    <3>1. EditsStand'
      <4> SUFFICES ASSUME NEW b \in Staff, agentRow'[b].there, NEW f \in Fields
                   PROVE  agentRow'[b][f] = said'[b][f]
        BY DEF EditsStand
      <4>1. CASE b = a
        BY <2>2, <2>3, <2>4, <4>1
      <4>2. CASE b # a
        BY <1>0, <2>3, <2>4, <4>2 DEF AgentsHold, EditsStand
      <4> QED
        BY <4>1, <4>2
    <3>2. ReferencesHold'
      <4> SUFFICES ASSUME NEW b \in Staff, agentRow'[b].there
                   PROVE  /\ agentRow'[b].keyed => b \in keySecret
                          /\ b \notin crossed' =>
                               /\ base[agentRow'[b].base].there
                               /\ agentRow'[b].tools \subseteq base[agentRow'[b].base].tools \union McpTools
        BY <1>1 DEF ReferencesHold
      <4>1. CASE b = a
        <5>1. ~Checks(order) /\ a \notin crossed => Fits(row)
          BY <1>0, <2>2 DEF AgentsHold, ReferencesHold, Fits
        <5>2. a \notin crossed' => Fits(row)
          BY <2>2, <2>7, <5>1
        <5> QED
          BY <2>2, <2>3, <4>1, <5>2 DEF Fits
      <4>2. CASE b # a
        BY <1>0, <2>3, <2>6, <2>7, <4>2 DEF AgentsHold, ReferencesHold
      <4> QED
        BY <4>1, <4>2
    <3> QED
      BY <3>1, <3>2 DEF AgentsHold
  <2> QED
    BY <2>8, <2>9, <2>10 DEF DeskInv
<1> QED
  BY <1>2, <1>3, <1>4 DEF WriteAgent

LEMMA DismissKeeps ==
  ASSUME DeskInv, NEW a \in Staff, Dismiss(a)
  PROVE  DeskInv'
<1>0. DeskShape /\ AgentsHold /\ \A d \in Clerks : HiringAt(d) /\ FreshAt(d) /\ CheckedAt(d)
  BY DEF DeskInv, ClerkHolds
<1>1. /\ agentRow' = [agentRow EXCEPT ![a] = NoAgent]
      /\ UNCHANGED <<base, keySecret, clerk, unread, said, crossed>>
  BY DEF Dismiss
<1>2. /\ agentRow' \in [Staff -> AgentRow] /\ ~agentRow'[a].there
      /\ \A b \in Staff : b # a => agentRow'[b] = agentRow[b]
  BY <1>0, <1>1, DeskTypes DEF DeskShape
<1>3. DeskShape'
  <2>1. \A b \in Staff : agentRow'[b].there => agentRow'[b].base \in Bases
    BY <1>0, <1>2 DEF DeskShape
  <2> QED
    BY <1>0, <1>1, <1>2, <2>1 DEF DeskShape, Proper
<1>4. ASSUME NEW d \in Clerks PROVE ClerkHolds(d)'
  <2>1. clerk[d].op \in {"hire", "edit"} => clerk[d].of \in Staff
    BY <1>0 DEF DeskShape, Proper, OfAgents
  <2>2. HiringAt(d)' /\ FreshAt(d)'
    BY <1>0, <1>1, <1>2, <2>1 DEF HiringAt, FreshAt
  <2>3. CheckedAt(d)'
    <3>1. ASSUME clerk[d].op \in {"declare", "drop"}, clerk[d].pc = "write",
                 NEW b \in Staff \ crossed, agentRow'[b].there, agentRow'[b].base = clerk[d].of
          PROVE  clerk[d].op = "declare" /\ agentRow'[b].tools \subseteq clerk[d].tools \union McpTools
      BY <1>0, <1>2, <3>1 DEF CheckedAt
    <3> QED
      BY <1>0, <1>1, <3>1 DEF CheckedAt, Fits
  <2> QED
    BY <2>2, <2>3 DEF ClerkHolds
<1>5. AgentsHold'
  BY <1>0, <1>1, <1>2 DEF AgentsHold, EditsStand, ReferencesHold
<1> QED
  BY <1>3, <1>4, <1>5 DEF DeskInv

LEMMA MergedBase ==
  ASSUME DeskShape, NEW d \in Clerks, clerk[d].op \in OfAgents
  PROVE  Merged(clerk[d].row, clerk[d].order).base \in Bases
<1>1. PICK row \in AgentRow, order \in Orders :
        row = clerk[d].row /\ order = clerk[d].order /\ Proper(clerk[d])
  BY DEF DeskShape, Errand, Proper
<1>2. "base" \in order.names \/ row.base \in Bases
  BY <1>1 DEF Proper, OfAgents, Fields
<1>3. "base" \in order.names => order.base \in Bases
  BY OrderTypes
<1>4. Merged(row, order).base \in Bases
  BY <1>2, <1>3, MergedTypes
<1> QED
  BY <1>1, <1>4

LEMMA CreateBaseKeeps ==
  ASSUME DeskInv, NEW i \in Bases, CreateBase(i)
  PROVE  DeskInv'
<1>0. DeskShape /\ AgentsHold /\ \A d \in Clerks : HiringAt(d) /\ FreshAt(d) /\ CheckedAt(d)
  BY DEF DeskInv, ClerkHolds
<1>1. /\ ~base[i].there /\ base' = [base EXCEPT ![i] = [there |-> TRUE, tools |-> Tools]]
      /\ UNCHANGED <<agentRow, keySecret, clerk, unread, said, crossed>>
  BY DeskTypes DEF CreateBase
<1>2. /\ base' \in [Bases -> [there: BOOLEAN, tools: SUBSET Tools]]
      /\ \A b \in Bases : b # i => base'[b] = base[b]
  BY <1>0, <1>1 DEF DeskShape
<1>3. DeskShape'
  BY <1>0, <1>1, <1>2 DEF DeskShape, Proper
<1>4. \A b \in Bases : base[b].there => base'[b] = base[b]
  BY <1>1, <1>2
<1>5. ASSUME NEW d \in Clerks PROVE ClerkHolds(d)'
  <2>1. HiringAt(d)'
    BY <1>0, <1>1 DEF HiringAt
  <2>2. FreshAt(d)'
    <3>1. clerk[d].op = "refresh" => clerk[d].of \in Bases
      BY <1>0 DEF DeskShape, Proper, OfBases
    <3> QED
      BY <1>0, <1>1, <1>4, <3>1 DEF FreshAt
  <2>3. CheckedAt(d)'
    <3>1. PICK row : row = Merged(clerk[d].row, clerk[d].order)
      OBVIOUS
    <3>2. clerk[d].op \in OfAgents => row.base \in Bases
      BY <1>0, <3>1, MergedBase
    <3>3. clerk[d].op \in OfAgents /\ Fits(row) =>
            base'[row.base].there /\ row.tools \subseteq base'[row.base].tools \union McpTools
      BY <1>4, <3>2 DEF Fits
    <3>4. /\ clerk[d].op \in OfAgents /\ clerk[d].pc = "write" /\ "key" \in clerk[d].order.names =>
               clerk[d].of \in keySecret
          /\ clerk[d].op \in OfAgents /\ clerk[d].pc \in {"key", "write"} /\ Checks(clerk[d].order)
               /\ d \notin crossed => Fits(row)
          /\ clerk[d].op \in {"declare", "drop"} /\ clerk[d].pc = "write" =>
               \A a \in Staff \ crossed : agentRow[a].there /\ agentRow[a].base = clerk[d].of =>
                 clerk[d].op = "declare" /\ agentRow[a].tools \subseteq clerk[d].tools \union McpTools
      BY <1>0, <3>1 DEF CheckedAt
    <3> QED
      BY <1>1, <3>1, <3>3, <3>4 DEF CheckedAt, Fits
  <2> QED
    BY <2>1, <2>2, <2>3 DEF ClerkHolds
<1>6. AgentsHold'
  <2>1. EditsStand'
    BY <1>0, <1>1 DEF AgentsHold, EditsStand
  <2>2. ReferencesHold'
    BY <1>0, <1>1, <1>4 DEF DeskShape, AgentsHold, ReferencesHold
  <2> QED
    BY <2>1, <2>2 DEF AgentsHold
<1> QED
  BY <1>3, <1>5, <1>6 DEF DeskInv

LEMMA TakeBaseKeeps ==
  ASSUME DeskInv, NEW c \in Clerks, NEW i \in Bases, TakeBase(c, i)
  PROVE  DeskInv'
<1>0. DeskShape /\ \A d \in Clerks : HiringAt(d)
  BY DEF DeskInv, ClerkHolds
<1>1. UNCHANGED <<agentRow, base, said, keySecret, unread>> /\ crossed' = crossed \ {c}
      /\ base[i].there /\ base[i].tools \in SUBSET Tools
  BY <1>0 DEF TakeBase, Takes, deskObjects, DeskShape
<1>2. ASSUME NEW e \in Errand, e.op \in OfBases, e.pc \in {"check", "write"}, e.of = i,
             clerk' = [clerk EXCEPT ![c] = e], e.op = "refresh" <=> e.pc = "write",
             e.op = "refresh" => e.tools = base[i].tools
      PROVE  DeskInv'
  <2>1. e.op \notin OfAgents /\ e.op \in {"declare", "drop", "refresh"}
    BY <1>2 DEF OfBases, OfAgents
  <2>2. Proper(e)
    BY <1>2, <2>1 DEF Proper, OfBases
  <2>3. clerk'[c] = e
    BY <1>0, <1>2 DEF DeskShape
  <2>4. ClerkHolds(c)'
    BY <1>1, <1>2, <2>1, <2>3 DEF ClerkHolds, HiringAt, FreshAt, CheckedAt
  <2> QED
    BY <1>1, <1>2, <2>1, <2>2, <2>4, ClerkKeeps
<1>3. ASSUME NEW tools \in Toolsets, NEW e,
             e = [NoErrand EXCEPT !.op = "declare", !.pc = "check", !.of = i, !.tools = tools],
             clerk' = [clerk EXCEPT ![c] = e]
      PROVE  DeskInv'
  <2>1. tools \in SUBSET Tools
    BY AgentDeskAssumption
  <2>2. e \in Errand /\ e.op = "declare" /\ e.pc = "check" /\ e.of = i
    BY <1>3, <2>1, DeskTypes DEF NoErrand, Errand
  <2> QED
    BY <1>2, <1>3, <2>2 DEF OfBases
<1>4. ASSUME NEW e, e = [NoErrand EXCEPT !.op = "drop", !.pc = "check", !.of = i],
             clerk' = [clerk EXCEPT ![c] = e]
      PROVE  DeskInv'
  <2>1. e \in Errand /\ e.op = "drop" /\ e.pc = "check" /\ e.of = i
    BY <1>4, DeskTypes DEF NoErrand, Errand
  <2> QED
    BY <1>2, <1>4, <2>1 DEF OfBases
<1>5. ASSUME NEW e,
             e = [NoErrand EXCEPT !.op = "refresh", !.pc = "write", !.of = i, !.tools = base[i].tools],
             clerk' = [clerk EXCEPT ![c] = e]
      PROVE  DeskInv'
  <2>1. e \in Errand /\ e.op = "refresh" /\ e.pc = "write" /\ e.of = i /\ e.tools = base[i].tools
    BY <1>1, <1>5, DeskTypes DEF NoErrand, Errand
  <2> QED
    BY <1>2, <1>5, <2>1 DEF OfBases
<1> QED
  BY <1>3, <1>4, <1>5 DEF TakeBase, Takes

LEMMA CheckUsersKeeps ==
  ASSUME DeskInv, NEW c \in Clerks, CheckUsers(c)
  PROVE  DeskInv'
<1>0. DeskShape /\ ReferencesHold /\ FreshAt(c) /\ \A d \in Clerks : HiringAt(d)
  BY DEF DeskInv, ClerkHolds, AgentsHold
<1>1. /\ UNCHANGED <<agentRow, base, said, keySecret, crossed>>
      /\ clerk[c].op \in {"declare", "drop"} /\ clerk[c].pc = "check"
  BY DEF CheckUsers, deskObjects
<1>2. CASE ReferrersOf(clerk[c].of, clerk[c].op, clerk[c].tools) # {}
  BY <1>1, <1>2, AnsweredKeeps DEF CheckUsers
<1>3. CASE ReferrersOf(clerk[c].of, clerk[c].op, clerk[c].tools) = {}
  <2>1. PICK x, e : x = clerk[c] /\ e = [x EXCEPT !.pc = "write"] /\ x \in Errand /\ Proper(x)
    BY <1>0 DEF DeskShape
  <2>2. /\ e \in Errand /\ e.op = x.op /\ e.pc = "write" /\ e.of = x.of /\ e.tools = x.tools
    BY <2>1 DEF Errand
  <2>3. clerk' = [clerk EXCEPT ![c] = e] /\ unread' = unread
    BY <1>3, <2>1 DEF CheckUsers, MovesTo
  <2>4. clerk'[c] = e
    BY <1>0, <2>3 DEF DeskShape
  <2>5. x.op \in {"declare", "drop"} /\ x.op \notin OfAgents
    BY <1>1, <2>1 DEF OfAgents
  <2>6. Proper(e)
    BY <2>1, <2>2, <2>5 DEF Proper, OfAgents, OfBases
  <2>7. HiringAt(c)' /\ FreshAt(c)'
    BY <2>2, <2>4, <2>5 DEF HiringAt, FreshAt
  <2>8. CheckedAt(c)'
    <3>1. ASSUME NEW a \in Staff \ crossed, agentRow[a].there, agentRow[a].base = x.of
          PROVE  x.op = "declare" /\ agentRow[a].tools \subseteq x.tools \union McpTools
      <4>1. /\ x.op # "drop"
            /\ agentRow[a].tools \intersect (base[x.of].tools \ x.tools) = {}
        BY <1>3, <2>1, <3>1 DEF ReferrersOf
      <4>2. agentRow[a].tools \subseteq base[x.of].tools \union McpTools
        BY <1>0, <3>1 DEF ReferencesHold
      <4> QED
        BY <2>5, <4>1, <4>2
    <3> QED
      BY <1>1, <2>2, <2>4, <2>5, <3>1 DEF CheckedAt
  <2> QED
    BY <1>1, <2>2, <2>3, <2>5, <2>6, <2>7, <2>8, ClerkKeeps DEF ClerkHolds
<1> QED
  BY <1>2, <1>3

LEMMA WriteBaseKeeps ==
  ASSUME DeskInv, NEW c \in Clerks, WriteBase(c)
  PROVE  DeskInv'
<1>0. DeskShape /\ AgentsHold /\ \A d \in Clerks : HiringAt(d) /\ FreshAt(d) /\ CheckedAt(d)
  BY DEF DeskInv, ClerkHolds
<1>1. clerk[c].op \in OfBases /\ clerk[c].pc = "write" /\ UNCHANGED <<agentRow, keySecret, said>>
  BY DEF WriteBase
<1>2. PICK i \in Bases : i = clerk[c].of /\ clerk[c].tools \in SUBSET Tools
  BY <1>0, <1>1 DEF DeskShape, Proper, Errand
<1>3. CASE Answered(c) /\ UNCHANGED <<base, crossed>>
  BY <1>1, <1>3, AnsweredKeeps
<1>4. ASSUME NEW new \in [there: BOOLEAN, tools: SUBSET Tools], base' = [base EXCEPT ![i] = new],
             crossed' = crossed \union Between(OfAgents),
             clerk' = [clerk EXCEPT ![c] = NoErrand], Overtakes(c, i),
             \A a \in Staff \ crossed : agentRow[a].there /\ agentRow[a].base = i =>
               new.there /\ agentRow[a].tools \subseteq new.tools \union McpTools
      PROVE  DeskInv'
  <2>1. /\ base' \in [Bases -> [there: BOOLEAN, tools: SUBSET Tools]] /\ base'[i] = new
        /\ \A b \in Bases : b # i => base'[b] = base[b]
    BY <1>0, <1>4 DEF DeskShape
  <2>2. /\ clerk' \in [Clerks -> Errand] /\ clerk'[c] = NoErrand
        /\ \A d \in Clerks : d # c => clerk'[d] = clerk[d]
    BY <1>0, <1>4, DeskTypes DEF DeskShape
  <2>3. DeskShape'
    <3>1. \A d \in Clerks : Proper(clerk'[d])
      BY <1>0, <2>2, DeskTypes DEF DeskShape
    <3> QED
      BY <1>0, <1>1, <2>1, <2>2, <3>1 DEF DeskShape, Proper
  <2>4. ASSUME NEW d \in Clerks PROVE ClerkHolds(d)'
    <3>1. CASE d = c
      BY <2>2, <3>1, DeskTypes DEF ClerkHolds, HiringAt, FreshAt, CheckedAt, OfAgents
    <3>2. CASE d # c
      <4>1. clerk'[d] = clerk[d]
        BY <2>2, <3>2
      <4>2. HiringAt(d)'
        <5> SUFFICES ASSUME clerk[d].op = "hire"
                     PROVE  \A b \in Clerks : b # d /\ clerk'[b].op \in OfAgents =>
                              clerk'[b].of # clerk[d].of
          BY <1>0, <1>1, <4>1 DEF HiringAt
        <5> SUFFICES ASSUME NEW b \in Clerks, b # d, clerk'[b].op \in OfAgents
                     PROVE  clerk'[b].of # clerk[d].of
          OBVIOUS
        <5>1. b # c
          BY <2>2, DeskTypes DEF OfAgents
        <5> QED
          BY <1>0, <2>2, <5>1 DEF HiringAt
      <4>3. FreshAt(d)'
        <5>1. d \notin unread' => d \notin unread /\ (clerk[d].op = "none" \/ clerk[d].of # i)
          BY <1>4, <3>2 DEF Overtakes
        <5>2. clerk[d].op = "refresh" => clerk[d].of \in Bases
          BY <1>0 DEF DeskShape, Proper, OfBases
        <5> QED
          BY <1>0, <1>1, <2>1, <4>1, <5>1, <5>2 DEF FreshAt
      <4>4. CheckedAt(d)'
        <5>1. clerk[d].op \in OfAgents /\ clerk[d].pc \in {"key", "write"} => d \in crossed'
          BY <1>4 DEF Between
        <5>2. crossed \subseteq crossed'
          BY <1>4
        <5> QED
          BY <1>0, <1>1, <4>1, <5>1, <5>2 DEF CheckedAt
      <4> QED
        BY <4>2, <4>3, <4>4 DEF ClerkHolds
    <3> QED
      BY <3>1, <3>2
  <2>5. EditsStand'
    BY <1>0, <1>1 DEF AgentsHold, EditsStand
  <2>6. ReferencesHold'
    <3> SUFFICES ASSUME NEW b \in Staff, agentRow[b].there
                 PROVE  /\ agentRow[b].keyed => b \in keySecret
                        /\ b \notin crossed' =>
                             /\ base'[agentRow[b].base].there
                             /\ agentRow[b].tools \subseteq base'[agentRow[b].base].tools \union McpTools
      BY <1>1 DEF ReferencesHold
    <3>1. b \notin crossed' => b \notin crossed
      BY <1>4
    <3>2. agentRow[b].base \in Bases
      BY <1>0 DEF DeskShape
    <3>3. CASE agentRow[b].base = i
      BY <1>0, <1>4, <2>1, <3>1, <3>3 DEF AgentsHold, ReferencesHold
    <3>4. CASE agentRow[b].base # i
      BY <1>0, <2>1, <3>1, <3>2, <3>4 DEF AgentsHold, ReferencesHold
    <3> QED
      BY <3>3, <3>4
  <2> QED
    BY <2>3, <2>4, <2>5, <2>6 DEF DeskInv, AgentsHold
<1>5. CASE /\ clerk[c].op = "drop" /\ base' = [base EXCEPT ![i] = NoBase]
           /\ crossed' = crossed \union Between(OfAgents)
           /\ clerk' = [clerk EXCEPT ![c] = NoErrand] /\ Overtakes(c, i)
  <2>1. \A a \in Staff \ crossed : ~(agentRow[a].there /\ agentRow[a].base = i)
    BY <1>0, <1>1, <1>2, <1>5 DEF CheckedAt
  <2> QED
    BY <1>4, <1>5, <2>1, DeskTypes
<1>6. CASE /\ clerk[c].op = "declare"
           /\ base' = [base EXCEPT ![i] = [there |-> TRUE, tools |-> clerk[c].tools]]
           /\ crossed' = crossed \union Between(OfAgents)
           /\ clerk' = [clerk EXCEPT ![c] = NoErrand] /\ Overtakes(c, i)
  <2>1. PICK new : new = [there |-> TRUE, tools |-> clerk[c].tools]
    OBVIOUS
  <2>2. new \in [there: BOOLEAN, tools: SUBSET Tools] /\ new.there /\ new.tools = clerk[c].tools
    BY <1>2, <2>1
  <2>3. \A a \in Staff \ crossed : agentRow[a].there /\ agentRow[a].base = i =>
          agentRow[a].tools \subseteq new.tools \union McpTools
    BY <1>0, <1>1, <1>2, <1>6, <2>2 DEF CheckedAt
  <2> QED
    BY <1>4, <1>6, <2>1, <2>2, <2>3
<1>7. ASSUME NEW offered \in SUBSET McpTools, clerk[c].op = "refresh", c \notin unread,
             base' = [base EXCEPT ![i] =
               [there |-> TRUE, tools |-> Refreshed(clerk[c].tools, offered)]],
             crossed' = crossed \union Between(OfAgents),
             clerk' = [clerk EXCEPT ![c] = NoErrand], Overtakes(c, i)
      PROVE  DeskInv'
  <2>1. PICK new : new = [there |-> TRUE, tools |-> Refreshed(clerk[c].tools, offered)]
    OBVIOUS
  <2>2. /\ Refreshed(clerk[c].tools, offered) \in SUBSET Tools
        /\ clerk[c].tools \subseteq Refreshed(clerk[c].tools, offered) \union McpTools
    BY <1>2, AgentDeskAssumption DEF Refreshed
  <2>3. /\ new \in [there: BOOLEAN, tools: SUBSET Tools] /\ new.there
        /\ clerk[c].tools \subseteq new.tools \union McpTools
    BY <2>1, <2>2
  <2>4. base[i].there /\ base[i].tools = clerk[c].tools
    BY <1>0, <1>2, <1>7 DEF FreshAt
  <2>5. \A a \in Staff \ crossed : agentRow[a].there /\ agentRow[a].base = i =>
          agentRow[a].tools \subseteq new.tools \union McpTools
    BY <1>0, <2>3, <2>4 DEF AgentsHold, ReferencesHold
  <2> QED
    BY <1>4, <1>7, <2>1, <2>3, <2>5
<1> QED
  BY <1>2, <1>3, <1>5, <1>6, <1>7 DEF WriteBase

LEMMA DeskInit == AgentDeskInit => DeskInv
<1> SUFFICES ASSUME AgentDeskInit PROVE DeskInv
  OBVIOUS
<1>1. /\ agentRow = [a \in Staff |-> NoAgent] /\ base = [i \in Bases |-> NotYet]
      /\ clerk = [c \in Clerks |-> NoErrand] /\ said = [a \in Staff |-> NoAgent]
  BY DEF AgentDeskInit
<1>2. DeskShape
  BY <1>1, DeskTypes DEF DeskShape
<1>3. \A c \in Clerks : ClerkHolds(c)
  BY <1>1, DeskTypes DEF ClerkHolds, HiringAt, FreshAt, CheckedAt, OfAgents
<1>4. AgentsHold
  BY <1>1, DeskTypes DEF AgentsHold, EditsStand, ReferencesHold
<1> QED
  BY <1>2, <1>3, <1>4 DEF DeskInv

LEMMA DeskStep ==
  ASSUME DeskInv, [AgentDeskNext]_agentDeskVars
  PROVE  DeskInv'
<1>1. CASE UNCHANGED agentDeskVars
  <2>1. UNCHANGED <<agentRow, base, keySecret, clerk, unread, said, crossed>>
    BY <1>1 DEF agentDeskVars
  <2>2. DeskShape'
    BY <2>1 DEF DeskInv, DeskShape, Proper
  <2>3. ASSUME NEW c \in Clerks PROVE ClerkHolds(c)'
    <3>1. HiringAt(c) /\ FreshAt(c) /\ CheckedAt(c)
      BY DEF DeskInv, ClerkHolds
    <3> QED
      BY <2>1, <3>1 DEF ClerkHolds, HiringAt, FreshAt, CheckedAt, Fits
  <2>4. AgentsHold'
    BY <2>1 DEF DeskInv, AgentsHold, EditsStand, ReferencesHold
  <2> QED
    BY <2>2, <2>3, <2>4 DEF DeskInv
<1>2. ASSUME NEW c \in Clerks, NEW a \in Staff, NEW order \in Orders, Take(c, a, order)
      PROVE  DeskInv'
  BY <1>2, TakeKeeps
<1>3. ASSUME NEW c \in Clerks,
             \/ Check(c) \/ CreateKey(c) \/ PutKey(c) \/ WriteAgent(c)
             \/ (\E i \in Bases : TakeBase(c, i))
             \/ CheckUsers(c) \/ WriteBase(c)
      PROVE  DeskInv'
  BY <1>3, AgentCallsKeep, WriteAgentKeeps, TakeBaseKeeps, CheckUsersKeeps, WriteBaseKeeps
<1>4. CASE \E a \in Staff : Dismiss(a)
  BY <1>4, DismissKeeps
<1>5. CASE \E i \in Bases : CreateBase(i)
  BY <1>5, CreateBaseKeeps
<1> QED
  BY <1>1, <1>2, <1>3, <1>4, <1>5 DEF AgentDeskNext

(* Requests on agents and on images read, check and write in separate calls.   *)
(* What one was told it wrote stands until another names the field, an agent   *)
(* that refers to a key has it, and an agent without image or tools takes two  *)
(* requests that overlapped or a refresh (createAgent, updateAgent,            *)
(* validateAgentImageRef, agentsReferencingImage).                             *)
THEOREM AgentsAreHeld == AgentDeskSpec => []AgentsHold
<1>1. AgentDeskInit => DeskInv
  BY DeskInit
<1>2. DeskInv /\ [AgentDeskNext]_agentDeskVars => DeskInv'
  BY DeskStep
<1>3. DeskInv => AgentsHold
  BY DEF DeskInv
<1> QED
  BY <1>1, <1>2, <1>3, PTL DEF AgentDeskSpec


(***************************************************************************)
(* Who may do what.                                                        *)
(***************************************************************************)
Stops == {"idle", "persist", "gate", "place", "cached", "load", "store", "count", "clear",
          "remove", "invalidate", "own", "assign", "unplace", "target", "upsert"}
Asks  == {"none"} \union AdminOnly \union OfGroup \union OfRes \union Open
Seat  == [pc : Stops \union Asks, op : Asks, who : Users, user : Users, group : Groups,
          res : Resources, rank : Ranks, brings : Claims, roles : [Groups -> Ranks],
          age : 0..LoadTicks]
Fill  == [pc : {"list", "each", "set", "done", "failed"}, refs : SUBSET Resources,
          ref : SUBSET Resources, listed : SUBSET Resources, excused : SUBSET Resources]
UserRow == [here : BOOLEAN, admin : BOOLEAN, named : BOOLEAN]
Entry == [roles : [Groups -> Ranks], left : 0..CacheTTL]
Ticks == [Groups -> [1..3 -> 0..LongAgo]]

PeopleTyped ==
  /\ users \in [Users -> UserRow]
  /\ groups \in [Groups -> {"new", "here", "gone"}]
  /\ member \in [Users -> [Groups -> Ranks]]
  /\ since \in [Users -> Ticks]
  /\ \A u \in Users, g \in Groups : member[u][g] > 0 => users[u].here /\ Here(g)
PlacesTyped ==
  /\ made \in [Resources -> {"new", "made", "gone"}]
  /\ place \in [Resources -> SUBSET Groups]
  /\ \A r \in Resources : \A g \in place[r] : Here(g) /\ place[r] = {g}
RightsTyped ==
  /\ cache \in [Users -> Entry]
  /\ tracked \in [Users -> 0..PersistTTL]
  /\ session \in [Sessions -> Seat]
  /\ fill \in Fill
  /\ overlapped \in BOOLEAN
AccessTyped == PeopleTyped /\ PlacesTyped /\ RightsTyped

\* Whoever holds a rank held it no tick ago.
RanksKnown == \A u \in Users, g \in Groups, k \in 1..3 :
  member[u][g] >= k => since[u][g][k] = 0

\* A live entry is no older than the ticks it has lived and those its load took.
EntriesKnown == \A u \in Users, g \in Groups, k \in 1..3 :
  cache[u].left > 0 /\ cache[u].roles[g] >= k =>
    since[u][g][k] + cache[u].left <= CacheTTL + LoadTicks

\* What a request relies on: the roles it has loaded are as old as it says; until
\* two overlap, one past its count leaves an administrator; what it unplaces has gone.
Relied(q) ==
  /\ q.pc = "store" => \A g \in Groups, k \in 1..3 :
       q.roles[g] >= k => since[q.who][g][k] <= q.age
  /\ q.pc \in {"clear", "remove"} => overlapped \/ \E a \in AdminsNow : a # q.user
  /\ q.pc = "unplace" => made[q.res] = "gone"
SeatsHold == \A s \in Sessions : Relied(session[s])

\* The backfill: what it has listed is placed, excused or still to be looked at.
FillHolds ==
  fill.pc \in {"each", "set", "done"} =>
    /\ fill.pc \in {"each", "done"} => fill.ref = {}
    /\ fill.pc = "done" => fill.refs = {}
    /\ \A r \in fill.listed :
         /\ made[r] # "new"
         /\ made[r] = "made" =>
              r \in fill.refs \/ r \in fill.ref \/ place[r] # {} \/ r \in fill.excused

AccessInv ==
  /\ AccessTyped /\ RanksKnown /\ EntriesKnown /\ SeatsHold
  /\ AdminRemains /\ SyncRepopulates /\ FillHolds

LEMMA AccessTypes ==
  /\ CacheTTL \in Nat /\ PersistTTL \in Nat /\ LoadTicks \in Nat /\ LongAgo \in Nat
  /\ NoRoles \in [Groups -> Ranks] /\ \A g \in Groups : NoRoles[g] = 0
  /\ NoSession \in Seat /\ NoSession.pc = "idle" /\ NoSession.op = "none"
  /\ NoFill \in Fill /\ NoFill.pc = "list"
  /\ Uncached \in Entry /\ Uncached.left = 0
<1>1. CacheTTL \in Nat /\ PersistTTL \in Nat /\ LoadTicks \in Nat /\ LongAgo \in Nat
  BY AccessAssumption DEF LongAgo
<1>2. NoRoles \in [Groups -> Ranks] /\ \A g \in Groups : NoRoles[g] = 0
  BY DEF NoRoles, Ranks
<1>3. /\ (CHOOSE u \in Users : TRUE) \in Users /\ (CHOOSE r \in Resources : TRUE) \in Resources
      /\ Legacy \in Groups
  BY AccessAssumption
<1>4. NoSession \in Seat
  BY <1>1, <1>2, <1>3 DEF NoSession, Seat, Ranks, Stops, Asks, Claims
<1>5. NoSession.pc = "idle" /\ NoSession.op = "none"
  BY DEF NoSession
<1>6. NoFill \in Fill /\ NoFill.pc = "list"
  BY DEF NoFill, Fill
<1>7. Uncached \in Entry /\ Uncached.left = 0
  BY <1>1, <1>2 DEF Uncached, Entry
<1> QED
  BY <1>1, <1>2, <1>4, <1>5, <1>6, <1>7

\* Where a request goes past its gate is no place on the way there.
Passive == {"idle", "persist", "gate", "place", "cached", "load", "store", "count", "clear",
            "remove", "invalidate", "own", "assign", "unplace"}

LEMMA BodyTypes ==
  ASSUME NEW op \in Asks
  PROVE  Needs(op) \in 1..3 /\ Body(op) \in Stops \union Asks /\ Body(op) \notin Passive
<1>1. Needs(op) \in 1..3
  BY DEF Needs
<1>2. Body(op) \in Stops \union Asks /\ Body(op) \notin Passive
  BY DEF Body, Stops, Asks, Passive, AdminOnly, OfGroup, OfRes, Open
<1> QED
  BY <1>1, <1>2

\* Nothing is asked of a request at such a stop.
Calm(q) == q.pc \notin {"store", "clear", "remove", "unplace"}
Eases == \A u \in Users, g \in Groups, k \in 1..3 : since'[u][g][k] <= since[u][g][k]

LEMMA SeatFields ==
  ASSUME AccessInv, NEW s \in Sessions, NEW q \in Seat, session' = [session EXCEPT ![s] = q]
  PROVE  /\ session' \in [Sessions -> Seat] /\ session'[s] = q
         /\ \A t \in Sessions \ {s} : session'[t] = session[t]
         /\ session \in [Sessions -> Seat] /\ session[s] \in Seat
BY DEF AccessInv, AccessTyped, RightsTyped

LEMMA SeatsMove ==
  ASSUME AccessInv, NEW s \in Sessions, NEW q \in Seat,
         session' = [session EXCEPT ![s] = q], Relied(q)',
         PeopleTyped', Eases, overlapped => overlapped',
         AdminsNow \subseteq AdminsNow' \/ overlapped' \/ ~Overlaps(s),
         \A r \in Resources : made[r] = "gone" => made'[r] = "gone"
  PROVE  SeatsHold'
<1> SUFFICES ASSUME NEW t \in Sessions PROVE Relied(session[t])'
  BY DEF SeatsHold
<1>1. CASE t = s
  BY <1>1, SeatFields
<1>2. CASE t # s
  <2>1. session'[t] = session[t] /\ session[t] \in Seat /\ Relied(session[t])
    BY <1>2, SeatFields DEF AccessInv, SeatsHold, AccessTyped, RightsTyped
  <2> PICK p \in Seat : p = session[t] /\ p = session'[t] /\ Relied(p)
    BY <2>1
  <2>2. ASSUME p.pc = "store", NEW g \in Groups, NEW k \in 1..3, p.roles[g] >= k
        PROVE  since'[p.who][g][k] <= p.age
    <3>1. p.who \in Users /\ p.age \in Nat
      BY AccessTypes DEF Seat
    <3>2. since[p.who][g][k] <= p.age
      BY <2>2 DEF Relied
    <3>3. since'[p.who][g][k] <= since[p.who][g][k]
      BY <3>1 DEF Eases
    <3>4. since[p.who][g][k] \in Nat /\ since'[p.who][g][k] \in Nat
      BY <3>1, AccessTypes DEF AccessInv, AccessTyped, PeopleTyped, Ticks
    <3> QED
      BY ONLY <3>1, <3>2, <3>3, <3>4
  <2>3. ASSUME p.pc \in {"clear", "remove"}
        PROVE  overlapped' \/ \E a \in AdminsNow' : a # p.user
    <3>1. Overlaps(s)
      BY <2>3, <1>2 DEF Overlaps, PastCount
    <3>2. overlapped \/ \E a \in AdminsNow : a # p.user
      BY <2>3 DEF Relied
    <3> QED
      BY <3>1, <3>2
  <2>4. p.pc = "unplace" => made'[p.res] = "gone"
    BY DEF Relied, Seat
  <2>5. Relied(p)'
    BY <2>2, <2>3, <2>4 DEF Relied
  <2> QED
    BY <2>5
<1> QED
  BY <1>1, <1>2

LEMMA CalmRelies ==
  ASSUME NEW q, Calm(q)
  PROVE  Relied(q) /\ Relied(q)'
BY DEF Calm, Relied

LEMMA SyncMoves ==
  ASSUME AccessInv, NEW s \in Sessions, NEW q \in Seat,
         session' = [session EXCEPT ![s] = q],
         session[s].pc \notin {"invalidate", "persist"},
         UNCHANGED tracked,
         \A u \in Users : users'[u].here /\ ~users'[u].named =>
           \/ u \in unsaved' \union skipped'
           \/ users[u].here /\ ~users[u].named /\ u \notin unsaved \union skipped
           \/ users[u].here /\ ~users[u].named /\ UNCHANGED <<unsaved, skipped>>
  PROVE  SyncRepopulates'
<1> SUFFICES ASSUME NEW u \in Users, users'[u].here, ~users'[u].named, tracked'[u] > 0,
                    u \notin unsaved' \union skipped'
             PROVE  \/ \E t \in Sessions : At(t, "invalidate")' /\ session'[t].user = u
                    \/ \E t \in Sessions : At(t, "persist")' /\ session'[t].who = u
  BY DEF SyncRepopulates, HeldBack
<1>1. users[u].here /\ ~users[u].named /\ tracked[u] > 0 /\ u \notin unsaved \union skipped
  OBVIOUS
<1>2. \/ \E t \in Sessions : At(t, "invalidate") /\ session[t].user = u
      \/ \E t \in Sessions : At(t, "persist") /\ session[t].who = u
  BY <1>1 DEF AccessInv, SyncRepopulates, HeldBack
<1>3. \A t \in Sessions : session[t].pc \in {"invalidate", "persist"} => session'[t] = session[t]
  BY SeatFields
<1> QED
  BY <1>2, <1>3 DEF At

LEMMA FillStays ==
  ASSUME AccessInv, UNCHANGED fill, fill \in Fill,
         \A r \in Resources : /\ made[r] # "new" => made'[r] # "new"
                              /\ made'[r] = "made" => made[r] = "made" \/ made[r] = "new"
                              /\ made[r] = "made" /\ made'[r] = "made" /\ place[r] # {}
                                   => place'[r] # {}
  PROVE  FillHolds'
<1>1. FillHolds
  BY DEF AccessInv
<1>2. fill.listed \subseteq Resources
  BY DEF Fill
<1> QED
  BY <1>1, <1>2 DEF FillHolds

\* A step that changes nothing but a request.
LEMMA SeatOnly ==
  ASSUME AccessInv, NEW s \in Sessions, NEW q \in Seat,
         session' = [session EXCEPT ![s] = q], Relied(q),
         session[s].pc \notin {"invalidate", "persist"},
         UNCHANGED <<users, groups, member, since, made, place, cache, tracked, fill,
                     overlapped, unsaved, skipped>>
  PROVE  AccessInv'
<1>1. PeopleTyped' /\ PlacesTyped' /\ RanksKnown' /\ EntriesKnown' /\ AdminRemains' /\ Relied(q)'
  BY DEF AccessInv, AccessTyped, PeopleTyped, PlacesTyped, RanksKnown, EntriesKnown,
         AdminRemains, AdminsNow, Relied, Here
<1>2. RightsTyped'
  BY SeatFields DEF AccessInv, AccessTyped, RightsTyped
<1>3. Eases
  <2>1. \A u \in Users, g \in Groups, k \in 1..3 : since[u][g][k] \in Nat
    BY AccessTypes DEF AccessInv, AccessTyped, PeopleTyped, Ticks
  <2> QED
    BY <2>1 DEF Eases
<1>4. AdminsNow \subseteq AdminsNow'
  BY DEF AdminsNow
<1>5. SeatsHold'
  BY <1>1, <1>3, <1>4, SeatsMove
<1>6. SyncRepopulates'
  BY SyncMoves
<1>7. FillHolds'
  BY FillStays DEF AccessInv, AccessTyped, RightsTyped
<1> QED
  BY <1>1, <1>2, <1>5, <1>6, <1>7 DEF AccessInv, AccessTyped


\* The request s as it was, at another stop.
On(s, pc) == [session[s] EXCEPT !.pc = pc]

LEMMA SeatAt ==
  ASSUME NEW r \in Seat, NEW pc \in Stops \union Asks
  PROVE  /\ [r EXCEPT !.pc = pc] \in Seat /\ [r EXCEPT !.pc = pc].pc = pc
         /\ [r EXCEPT !.pc = pc].who = r.who
BY DEF Seat

Bringing(r, pc, brings) == [r EXCEPT !.pc = pc, !.brings = brings]

LEMMA SeatBrings ==
  ASSUME NEW r \in Seat, NEW pc \in Stops, NEW brings \in Claims
  PROVE  /\ Bringing(r, pc, brings) \in Seat /\ Bringing(r, pc, brings).pc = pc
         /\ Bringing(r, pc, brings).who = r.who
BY DEF Seat, Bringing

LEMMA GoesSeat ==
  ASSUME AccessInv, NEW s \in Sessions, NEW pc \in Stops \union Asks, Goes(s, pc)
  PROVE  \E q \in Seat : /\ session' = [session EXCEPT ![s] = q]
                         /\ q = On(s, pc) /\ q.pc = pc /\ q.op = session[s].op
                         /\ q.who = session[s].who /\ q.user = session[s].user
                         /\ q.res = session[s].res
<1> PICK r \in Seat : r = session[s]
  BY DEF AccessInv, AccessTyped, RightsTyped
<1> PICK q \in Seat : q = [r EXCEPT !.pc = pc]
  BY DEF Seat
<1>1. session' = [session EXCEPT ![s] = q]
  BY DEF Goes
<1>2. q.pc = pc /\ q.op = r.op /\ q.who = r.who /\ q.user = r.user /\ q.res = r.res
  BY DEF Seat
<1> QED
  BY <1>1, <1>2 DEF On

LEMMA AnswersSeat ==
  ASSUME NEW s \in Sessions, Answers(s)
  PROVE  \E q \in Seat : session' = [session EXCEPT ![s] = q] /\ q.pc = "idle" /\ Calm(q)
BY AccessTypes DEF Answers, Calm

\* Past its gate or answered, a request of which nothing is asked.
LEMMA DecidesSeat ==
  ASSUME AccessInv, NEW s \in Sessions, NEW roles, Decides(s, roles)
  PROVE  \E q \in Seat : session' = [session EXCEPT ![s] = q] /\ Calm(q)
<1>1. session[s].op \in Asks
  BY DEF AccessInv, AccessTyped, RightsTyped, Seat
<1>2. CASE Answers(s)
  BY <1>2, AnswersSeat
<1>3. CASE Goes(s, Body(session[s].op))
  <2>1. Body(session[s].op) \in Stops \union Asks /\ Body(session[s].op) \notin Passive
    BY <1>1, BodyTypes
  <2>2. PICK q \in Seat : session' = [session EXCEPT ![s] = q] /\ q.pc = Body(session[s].op)
    BY <1>3, <2>1, GoesSeat
  <2> QED
    BY <2>1, <2>2 DEF Calm, Passive
<1> QED
  BY <1>2, <1>3 DEF Decides

LEMMA IsAdminKeeps ==
  ASSUME AccessInv, NEW s \in Sessions, IsAdmin(s)
  PROVE  AccessInv'
<1>1. session[s].op \in Asks /\ session[s].pc = "gate"
  BY DEF AccessInv, AccessTyped, RightsTyped, Seat, IsAdmin, At
<1>2. \/ Answers(s) \/ Goes(s, Body(session[s].op))
      \/ Goes(s, "place") \/ Goes(s, "cached")
  BY DEF IsAdmin
<1>3. PICK q \in Seat : session' = [session EXCEPT ![s] = q] /\ Calm(q)
  <2>1. CASE Answers(s)
    BY <2>1, AnswersSeat
  <2>2. CASE Goes(s, Body(session[s].op))
    <3>1. Body(session[s].op) \in Stops \union Asks /\ Body(session[s].op) \notin Passive
      BY <1>1, BodyTypes
    <3>2. PICK q \in Seat : session' = [session EXCEPT ![s] = q] /\ q.pc = Body(session[s].op)
      BY <2>2, <3>1, GoesSeat
    <3> QED
      BY <3>1, <3>2 DEF Calm, Passive
  <2>3. CASE Goes(s, "place") \/ Goes(s, "cached")
    <3>1. PICK q \in Seat : session' = [session EXCEPT ![s] = q] /\ q.pc \in {"place", "cached"}
      BY <2>3, GoesSeat DEF Stops
    <3> QED
      BY <3>1 DEF Calm
  <2> QED
    BY <1>2, <2>1, <2>2, <2>3
<1> QED
  BY <1>1, <1>3, CalmRelies, SeatOnly DEF IsAdmin, StillRegistry, registry, unused

LEMMA FindPlaceKeeps ==
  ASSUME AccessInv, NEW s \in Sessions, FindPlace(s)
  PROVE  AccessInv'
<1>1. PICK r \in Seat : r = session[s] /\ r.pc = "place"
  BY DEF AccessInv, AccessTyped, RightsTyped, FindPlace, At
<1>2. PICK q \in Seat : session' = [session EXCEPT ![s] = q] /\ Calm(q)
  <2>1. CASE place[r.res] = {}
    BY <2>1, <1>1, AnswersSeat DEF FindPlace
  <2>2. CASE place[r.res] # {}
    <3>1. (CHOOSE h \in place[r.res] : TRUE) \in place[r.res] /\ place[r.res] \subseteq Groups
      BY <2>2 DEF AccessInv, AccessTyped, PlacesTyped, Seat
    <3>2. PICK g \in Groups : g = CHOOSE h \in place[r.res] : TRUE
      BY <3>1
    <3>3. [r EXCEPT !.pc = "cached", !.group = g] \in Seat
      BY <3>2 DEF Seat, Stops
    <3>5. [r EXCEPT !.pc = "cached", !.group = g].pc = "cached"
      BY <3>2 DEF Seat
    <3>4. session' = [session EXCEPT ![s] = [r EXCEPT !.pc = "cached", !.group = g]]
      BY <1>1, <2>2, <3>2 DEF FindPlace
    <3> QED
      BY <3>3, <3>4, <3>5 DEF Calm
  <2> QED
    BY <2>1, <2>2
<1> QED
  BY <1>1, <1>2, CalmRelies, SeatOnly DEF FindPlace, StillRegistry, registry, unused

LEMMA CachedRolesKeeps ==
  ASSUME AccessInv, NEW s \in Sessions, CachedRoles(s)
  PROVE  AccessInv'
<1>1. session[s].pc = "cached"
  BY DEF CachedRoles, At
<1>2. Decides(s, cache[session[s].who].roles) \/ Goes(s, "load")
  BY DEF CachedRoles
<1>3. PICK q \in Seat : session' = [session EXCEPT ![s] = q] /\ Calm(q)
  <2>1. CASE Goes(s, "load")
    <3>1. PICK q \in Seat : session' = [session EXCEPT ![s] = q] /\ q.pc = "load"
      BY <2>1, GoesSeat DEF Stops
    <3> QED
      BY <3>1 DEF Calm
  <2> QED
    BY <1>2, <2>1, DecidesSeat
<1> QED
  BY <1>1, <1>3, CalmRelies, SeatOnly DEF CachedRoles, StillRegistry, registry, unused

LEMMA LoadRolesKeeps ==
  ASSUME AccessInv, NEW s \in Sessions, LoadRoles(s)
  PROVE  AccessInv'
<1>1. PICK r \in Seat : r = session[s] /\ r.pc = "load"
  BY DEF AccessInv, AccessTyped, RightsTyped, LoadRoles, At
<1>2. PICK m \in [Groups -> Ranks] : m = member[r.who]
  BY DEF AccessInv, AccessTyped, PeopleTyped, Seat
<1>3. PICK q \in Seat : session' = [session EXCEPT ![s] = q] /\ Relied(q)
  <2>1. CASE Answers(s)
    BY <2>1, AnswersSeat, CalmRelies
  <2>2. CASE ~Answers(s)
    <3> DEFINE q == [r EXCEPT !.pc = "store", !.age = 0, !.roles = m]
    <3>5. "store" \in Stops \union Asks /\ 0 \in 0..LoadTicks
      BY AccessTypes DEF Stops
    <3>1. q \in Seat
      BY <3>5 DEF Seat
    <3>2. /\ q.pc = "store" /\ q.age = 0 /\ q.roles = m /\ q.who = r.who
          /\ r.who \in Users
      BY DEF Seat
    <3>3. session' = [session EXCEPT ![s] = q]
      BY <1>1, <1>2, <2>2 DEF LoadRoles
    <3>4. ASSUME NEW g \in Groups, NEW k \in 1..3, m[g] >= k PROVE since[r.who][g][k] <= 0
      BY <1>2, <3>2, <3>4 DEF AccessInv, RanksKnown
    <3> HIDE DEF q
    <3> QED
      BY <3>1, <3>2, <3>3, <3>4 DEF Relied
  <2> QED
    BY <2>1, <2>2
<1> QED
  BY <1>1, <1>3, SeatOnly DEF LoadRoles, StillRegistry, registry, unused

LEMMA FindTargetKeeps ==
  ASSUME AccessInv, NEW s \in Sessions, FindTarget(s)
  PROVE  AccessInv'
<1>1. PICK r \in Seat : r = session[s] /\ r.pc = "target"
  BY DEF AccessInv, AccessTyped, RightsTyped, FindTarget, At
<1>2. \/ Answers(s)
      \/ users[r.user].admin /\ Goes(s, "count")
      \/ ~users[r.user].admin /\ Goes(s, IF r.op = "demote" THEN "clear" ELSE "remove")
  BY <1>1 DEF FindTarget
<1>3. PICK q \in Seat : session' = [session EXCEPT ![s] = q] /\ Relied(q)
  <2>1. CASE Answers(s)
    BY <2>1, AnswersSeat, CalmRelies
  <2>2. CASE Goes(s, "count")
    <3>1. PICK q \in Seat : session' = [session EXCEPT ![s] = q] /\ q.pc = "count"
      BY <2>2, GoesSeat DEF Stops
    <3> QED
      BY <3>1, CalmRelies DEF Calm
  <2>3. CASE ~users[r.user].admin /\ Goes(s, IF r.op = "demote" THEN "clear" ELSE "remove")
    <3>1. PICK q \in Seat : /\ session' = [session EXCEPT ![s] = q] /\ q.pc \in {"clear", "remove"}
                            /\ q.user = r.user
      BY <1>1, <2>3, GoesSeat DEF Stops
    <3>2. overlapped \/ \E a \in AdminsNow : a # r.user
      BY <2>3 DEF AccessInv, AdminRemains, AdminsNow
    <3> QED
      BY <3>1, <3>2 DEF Relied
  <2> QED
    BY <1>2, <2>1, <2>2, <2>3
<1> QED
  BY <1>1, <1>3, SeatOnly DEF FindTarget, StillRest, registry, unused

LEMMA CountAdminsKeeps ==
  ASSUME AccessInv, NEW s \in Sessions, CountAdmins(s)
  PROVE  AccessInv'
<1>1. PICK r \in Seat : r = session[s] /\ r.pc = "count"
  BY DEF AccessInv, AccessTyped, RightsTyped, CountAdmins, At
<1>2. PICK q \in Seat : session' = [session EXCEPT ![s] = q] /\ Relied(q)
  <2>1. CASE Cardinality(AdminsNow) <= 1
    BY <2>1, AnswersSeat, CalmRelies DEF CountAdmins
  <2>2. CASE ~(Cardinality(AdminsNow) <= 1)
    <3>1. PICK q \in Seat : /\ session' = [session EXCEPT ![s] = q] /\ q.pc \in {"clear", "remove"}
                            /\ q.user = r.user
      BY <1>1, <2>2, GoesSeat DEF Stops, CountAdmins
    <3>2. ~(AdminsNow \subseteq {r.user})
      <4> SUFFICES ASSUME AdminsNow \subseteq {r.user} PROVE Cardinality(AdminsNow) <= 1
        BY <2>2
      <4>1. IsFiniteSet({r.user}) /\ Cardinality({r.user}) = 1
        BY FS_Singleton
      <4> QED
        BY <4>1, FS_Subset
    <3>3. \E a \in AdminsNow : a # r.user
      BY <3>2
    <3> QED
      BY <3>1, <3>3 DEF Relied
  <2> QED
    BY <2>1, <2>2
<1> QED
  BY <1>1, <1>2, SeatOnly DEF CountAdmins, StillRest, registry, unused

LEMMA AnswerKeeps ==
  ASSUME AccessInv, NEW s \in Sessions, Answer(s)
  PROVE  AccessInv'
<1>1. session[s].pc \in {"read", "write", "use", "rename"} /\ Answers(s)
  BY DEF Answer
<1>2. PICK q \in Seat : session' = [session EXCEPT ![s] = q] /\ Calm(q)
  BY <1>1, AnswersSeat
<1> QED
  BY <1>1, <1>2, CalmRelies, SeatOnly DEF Answer, StillUsers, registry, unused


LEMMA EasesAlike ==
  ASSUME AccessInv, UNCHANGED since
  PROVE  Eases
<1>1. \A u \in Users, g \in Groups, k \in 1..3 : since[u][g][k] \in Nat
  BY AccessTypes DEF AccessInv, AccessTyped, PeopleTyped, Ticks
<1> QED
  BY <1>1 DEF Eases

\* A step that changes the rows of users, and may tell the tracker.
LEMMA PeopleMove ==
  ASSUME AccessInv, NEW s \in Sessions, NEW q \in Seat,
         session' = [session EXCEPT ![s] = q], Calm(q),
         users' \in [Users -> UserRow], \A u \in Users : users[u].here => users'[u].here,
         UNCHANGED <<groups, member, since, made, place, cache, fill>>,
         tracked' \in [Users -> 0..PersistTTL],
         overlapped' \in BOOLEAN, overlapped => overlapped',
         AdminsNow \subseteq AdminsNow' \/ overlapped' \/ ~Overlaps(s),
         AdminRemains', SyncRepopulates'
  PROVE  AccessInv'
<1>1. PeopleTyped' /\ PlacesTyped' /\ RanksKnown' /\ EntriesKnown'
  BY DEF AccessInv, AccessTyped, PeopleTyped, PlacesTyped, RanksKnown, EntriesKnown, Here
<1>2. RightsTyped'
  BY SeatFields DEF AccessInv, AccessTyped, RightsTyped
<1>3. SeatsHold'
  BY <1>1, EasesAlike, CalmRelies, SeatsMove
<1>4. FillHolds'
  BY FillStays DEF AccessInv, AccessTyped, RightsTyped
<1> QED
  BY <1>1, <1>2, <1>3, <1>4 DEF AccessInv, AccessTyped

\* A step that changes what the hub remembers of requests and users.
LEMMA MemoryMove ==
  ASSUME AccessInv, NEW s \in Sessions, NEW q \in Seat,
         session' = [session EXCEPT ![s] = q], Calm(q),
         UNCHANGED <<users, groups, member, since, made, place, fill, overlapped>>,
         cache' \in [Users -> Entry], tracked' \in [Users -> 0..PersistTTL],
         EntriesKnown', SyncRepopulates'
  PROVE  AccessInv'
<1>1. PeopleTyped' /\ PlacesTyped' /\ RanksKnown' /\ AdminRemains'
  BY DEF AccessInv, AccessTyped, PeopleTyped, PlacesTyped, RanksKnown, AdminRemains,
         AdminsNow, Here
<1>2. RightsTyped'
  BY SeatFields DEF AccessInv, AccessTyped, RightsTyped
<1>3. SeatsHold'
  <2>1. AdminsNow \subseteq AdminsNow'
    BY DEF AdminsNow
  <2> QED
    BY <1>1, <2>1, EasesAlike, CalmRelies, SeatsMove
<1>4. FillHolds'
  BY FillStays DEF AccessInv, AccessTyped, RightsTyped
<1> QED
  BY <1>1, <1>2, <1>3, <1>4 DEF AccessInv, AccessTyped

LEMMA CallsKeeps ==
  ASSUME AccessInv, NEW s \in Sessions, NEW op \in Asks, NEW who \in Users, NEW user \in Users,
         NEW group \in Groups, NEW res \in Resources, NEW rank \in Ranks,
         Calls(s, op, who, user, group, res, rank)
  PROVE  AccessInv'
<1>1. session[s].pc = "idle"
  BY DEF Calls, At
<1> DEFINE asked == [NoSession EXCEPT !.op = op, !.who = who, !.user = user, !.group = group,
                                      !.res = res, !.rank = rank]
<1>2. asked \in Seat /\ asked.who = who
  BY AccessTypes DEF Seat
<1>3. UNCHANGED <<users, groups, member, since, made, place, fill, cache, overlapped, unsaved>>
  BY DEF Calls, registry, unused
<1>4. \/ /\ tracked[who] = 0 /\ tracked' = [tracked EXCEPT ![who] = PersistTTL]
         /\ \/ /\ session' = [session EXCEPT ![s] = [asked EXCEPT !.pc = "gate"]]
               /\ skipped' = skipped \union {who}
            \/ \E brings \in Claims :
                 /\ session' = [session EXCEPT ![s] = Bringing(asked, "persist", brings)]
                 /\ skipped' = skipped \ {who}
      \/ /\ tracked' = tracked /\ skipped' = skipped
         /\ session' = [session EXCEPT ![s] = [asked EXCEPT !.pc = "gate"]]
  BY DEF Calls, Bringing
<1> HIDE DEF asked
<1>5. EntriesKnown' /\ cache' \in [Users -> Entry]
  BY <1>3 DEF AccessInv, AccessTyped, RightsTyped, EntriesKnown
<1>6. tracked \in [Users -> 0..PersistTTL] /\ PersistTTL \in Nat
  BY AccessTypes DEF AccessInv, AccessTyped, RightsTyped
<1>7. CASE /\ session' = [session EXCEPT ![s] = [asked EXCEPT !.pc = "gate"]]
           /\ tracked' = tracked /\ skipped' = skipped
  <2>1. "gate" \in Stops
    BY DEF Stops
  <2>2. PICK q \in Seat : q = [asked EXCEPT !.pc = "gate"] /\ q.pc = "gate"
    BY <1>2, <2>1, SeatAt
  <2>3. SyncRepopulates'
    BY <1>1, <1>3, <1>7, <2>2, SyncMoves
  <2> QED
    BY <1>3, <1>5, <1>6, <1>7, <2>2, <2>3, MemoryMove DEF Calm
<1>8. CASE /\ tracked[who] = 0 /\ tracked' = [tracked EXCEPT ![who] = PersistTTL]
           /\ \/ /\ session' = [session EXCEPT ![s] = [asked EXCEPT !.pc = "gate"]]
                 /\ skipped' = skipped \union {who}
              \/ \E brings \in Claims :
                   /\ session' = [session EXCEPT ![s] = Bringing(asked, "persist", brings)]
                   /\ skipped' = skipped \ {who}
  <2>1. "gate" \in Stops /\ "persist" \in Stops
    BY DEF Stops
  <2>2. PICK q \in Seat : /\ session' = [session EXCEPT ![s] = q] /\ Calm(q)
                          /\ q.who = who /\ (q.pc = "persist" \/ who \in skipped')
    <3>4. "gate" \in Stops
      BY <2>1
    <3>5. PICK p \in Seat : p = [asked EXCEPT !.pc = "gate"] /\ p.pc = "gate"
      BY <1>2, <3>4, SeatAt
    <3>1. p \in Seat /\ p = [asked EXCEPT !.pc = "gate"] /\ p.pc = "gate" /\ p.who = who
      BY <1>2, <3>5 DEF Seat
    <3>2. CASE /\ session' = [session EXCEPT ![s] = [asked EXCEPT !.pc = "gate"]]
               /\ skipped' = skipped \union {who}
      <4>1. session' = [session EXCEPT ![s] = p] /\ who \in skipped'
        BY <3>1, <3>2
      <4>2. Calm(p)
        BY <3>1 DEF Calm
      <4> QED
        BY <3>1, <4>1, <4>2
    <3>3. ASSUME NEW brings \in Claims,
                 session' = [session EXCEPT ![s] = Bringing(asked, "persist", brings)]
          PROVE  \E r \in Seat : /\ session' = [session EXCEPT ![s] = r] /\ Calm(r)
                                 /\ r.who = who /\ r.pc = "persist"
      <4>1. PICK r \in Seat : /\ r = Bringing(asked, "persist", brings)
                              /\ r.pc = "persist" /\ r.who = who
        BY <1>2, <2>1, SeatBrings
      <4> QED
        BY <3>3, <4>1 DEF Calm
    <3> QED
      BY <1>8, <3>2, <3>3
  <2>3. session'[s] = q /\ \A t \in Sessions \ {s} : session'[t] = session[t]
    BY <2>2, SeatFields
  <2>4. tracked' \in [Users -> 0..PersistTTL] /\ \A u \in Users \ {who} : tracked'[u] = tracked[u]
    BY <1>6, <1>8
  <2>5. \A u \in Users \ {who} : u \in skipped => u \in skipped'
    BY <1>8
  <2>6. SyncRepopulates'
    <3> SUFFICES ASSUME NEW u \in Users, users'[u].here, ~users'[u].named, tracked'[u] > 0,
                        u \notin unsaved' \union skipped'
                 PROVE  \/ \E t \in Sessions : At(t, "invalidate")' /\ session'[t].user = u
                        \/ \E t \in Sessions : At(t, "persist")' /\ session'[t].who = u
      BY DEF SyncRepopulates, HeldBack
    <3>1. CASE u = who
      BY <2>2, <2>3, <3>1 DEF At
    <3>2. CASE u # who
      <4>1. \/ \E t \in Sessions : At(t, "invalidate") /\ session[t].user = u
            \/ \E t \in Sessions : At(t, "persist") /\ session[t].who = u
        BY <1>3, <2>4, <2>5, <3>2 DEF AccessInv, SyncRepopulates, HeldBack
      <4>2. \A t \in Sessions : session[t].pc \in {"invalidate", "persist"} => session'[t] = session[t]
        BY <1>1, <2>3
      <4> QED
        BY <4>1, <4>2 DEF At
    <3> QED
      BY <3>1, <3>2
  <2> QED
    BY <1>3, <1>5, <2>2, <2>4, <2>6, MemoryMove
<1> QED
  BY <1>4, <1>7, <1>8

LEMMA StoreRolesKeeps ==
  ASSUME AccessInv, NEW s \in Sessions, StoreRoles(s)
  PROVE  AccessInv'
<1>1. PICK r \in Seat : r = session[s] /\ r.pc = "store" /\ Relied(r)
  BY DEF AccessInv, AccessTyped, RightsTyped, SeatsHold, StoreRoles, At
<1>2. PICK q \in Seat : session' = [session EXCEPT ![s] = q] /\ Calm(q)
  BY DecidesSeat DEF StoreRoles
<1>3. UNCHANGED <<users, groups, member, since, made, place, fill, tracked, overlapped, unsaved, skipped>>
  BY DEF StoreRoles, StillRegistry, registry, unused
<1> DEFINE e == [roles |-> r.roles, left |-> CacheTTL]
<1>0. CacheTTL \in 0..CacheTTL /\ r.roles \in [Groups -> Ranks]
  BY AccessTypes DEF Seat
<1>4. e \in Entry /\ e.roles = r.roles /\ e.left = CacheTTL
  BY ONLY <1>0 DEF Entry
<1>5. cache' = [cache EXCEPT ![r.who] = e] /\ cache \in [Users -> Entry] /\ r.who \in Users
  BY <1>1 DEF StoreRoles, AccessInv, AccessTyped, RightsTyped, Seat
<1> HIDE DEF e
<1>6. cache' \in [Users -> Entry]
  BY <1>4, <1>5
<1>7. EntriesKnown'
  <2> SUFFICES ASSUME NEW u \in Users, NEW g \in Groups, NEW k \in 1..3,
                      cache'[u].left > 0, cache'[u].roles[g] >= k
               PROVE  since[u][g][k] + cache'[u].left <= CacheTTL + LoadTicks
    BY <1>3 DEF EntriesKnown
  <2>1. CASE u # r.who
    BY <1>5, <2>1 DEF AccessInv, EntriesKnown
  <2>2. CASE u = r.who
    <3>1. cache'[u].left = CacheTTL /\ cache'[u].roles = r.roles
      BY <1>4, <1>5, <2>2
    <3>2. since[u][g][k] <= r.age /\ r.age \in 0..LoadTicks
      BY <1>1, <2>2, <3>1 DEF Relied, Seat
    <3>3. since[u][g][k] \in Nat
      BY AccessTypes DEF AccessInv, AccessTyped, PeopleTyped, Ticks
    <3> QED
      BY ONLY <3>1, <3>2, <3>3, AccessTypes
  <2> QED
    BY <2>1, <2>2
<1>8. SyncRepopulates'
  BY <1>1, <1>2, <1>3, SyncMoves
<1>9. tracked' \in [Users -> 0..PersistTTL]
  BY <1>3 DEF AccessInv, AccessTyped, RightsTyped
<1> QED
  BY <1>2, <1>3, <1>6, <1>7, <1>8, <1>9, MemoryMove


LEMMA UpsertTypes ==
  ASSUME users \in [Users -> UserRow], NEW u \in Users, NEW brings, Upserts(u, brings)
  PROVE  /\ users' \in [Users -> UserRow] /\ users'[u].here /\ (users'[u].named \/ u \in unsaved')
         /\ users[u].here /\ users[u].named => users'[u].named
         /\ \A v \in Users \ {u} : v \in unsaved <=> v \in unsaved'
         /\ \A v \in Users \ {u} : users'[v] = users[v]
         /\ AdminsNow' = AdminsNow
<1> DEFINE row == [here |-> TRUE, admin |-> users[u].here /\ users[u].admin,
                   named |-> brings = "name" \/ (users[u].here /\ users[u].named)]
<1>1. users' = [users EXCEPT ![u] = row]
  BY DEF Upserts, Upserted
<1>2. /\ row \in UserRow /\ row.here /\ row.admin = (users[u].here /\ users[u].admin)
      /\ row.named <=> brings = "name" \/ (users[u].here /\ users[u].named)
  BY DEF UserRow
<1> HIDE DEF row
<1>3. users' \in [Users -> UserRow] /\ users'[u] = row /\ \A v \in Users \ {u} : users'[v] = users[v]
  BY <1>1, <1>2
<1>4. \A v \in Users : users'[v].here /\ users'[v].admin <=> users[v].here /\ users[v].admin
  BY <1>2, <1>3
<1>5. /\ brings # "name" => u \in unsaved'
      /\ \A v \in Users \ {u} : v \in unsaved <=> v \in unsaved'
  BY DEF Upserts
<1> QED
  BY <1>2, <1>3, <1>4, <1>5 DEF AdminsNow

LEMMA PersistIdentityKeeps ==
  ASSUME AccessInv, NEW s \in Sessions, PersistIdentity(s)
  PROVE  AccessInv'
<1>1. PICK r \in Seat : r = session[s] /\ r.pc = "persist" /\ r.who \in Users
  BY DEF AccessInv, AccessTyped, RightsTyped, PersistIdentity, At, Seat
<1>2. PICK q \in Seat : session' = [session EXCEPT ![s] = q] /\ q.pc = "gate"
  <2>1. session' = [session EXCEPT ![s] = Bringing(r, "gate", "name")]
    BY <1>1 DEF PersistIdentity, AccessInv, AccessTyped, RightsTyped, Bringing
  <2>2. "gate" \in Stops /\ "name" \in Claims
    BY DEF Stops, Claims
  <2>3. PICK q \in Seat : q = Bringing(r, "gate", "name") /\ q.pc = "gate" /\ q.who = r.who
    BY <1>1, <2>2, SeatBrings
  <2> QED
    BY <2>1, <2>3
<1>3. UNCHANGED <<groups, member, since, made, place, fill, cache, tracked, overlapped, skipped>>
  BY DEF PersistIdentity, unused
<1>4. users \in [Users -> UserRow] /\ tracked \in [Users -> 0..PersistTTL] /\ overlapped \in BOOLEAN
  BY DEF AccessInv, AccessTyped, PeopleTyped, RightsTyped
<1>5. \/ Upserts(r.who, r.brings)
      \/ users' = users /\ unsaved' = unsaved \union {r.who}
  BY <1>1 DEF PersistIdentity
<1>6. /\ users' \in [Users -> UserRow] /\ AdminsNow' = AdminsNow
      /\ \A u \in Users : users[u].here => users'[u].here
      /\ \A u \in Users \ {r.who} : users'[u] = users[u] /\ (u \in unsaved <=> u \in unsaved')
  <2>1. CASE users' = users /\ unsaved' = unsaved \union {r.who}
    BY <1>4, <2>1 DEF AdminsNow
  <2>2. CASE Upserts(r.who, r.brings)
    BY <1>1, <1>4, <2>2, UpsertTypes
  <2> QED
    BY <1>5, <2>1, <2>2
<1>7. SyncRepopulates'
  <2> SUFFICES ASSUME NEW u \in Users, users'[u].here, ~users'[u].named, tracked'[u] > 0,
                      u \notin unsaved' \union skipped'
               PROVE  \/ \E t \in Sessions : At(t, "invalidate")' /\ session'[t].user = u
                      \/ \E t \in Sessions : At(t, "persist")' /\ session'[t].who = u
    BY DEF SyncRepopulates, HeldBack
  <2>1. u # r.who
    BY <1>1, <1>4, <1>5, UpsertTypes
  <2>2. \/ \E t \in Sessions : At(t, "invalidate") /\ session[t].user = u
        \/ \E t \in Sessions : At(t, "persist") /\ session[t].who = u
    BY <1>3, <1>5, <1>6, <2>1 DEF AccessInv, SyncRepopulates, HeldBack
  <2>3. \A t \in Sessions \ {s} : session'[t] = session[t]
    BY <1>2, SeatFields
  <2> QED
    BY <1>1, <2>1, <2>2, <2>3 DEF At
<1>8. AdminRemains'
  BY <1>3, <1>6 DEF AccessInv, AdminRemains
<1> QED
  BY <1>2, <1>3, <1>4, <1>6, <1>7, <1>8, PeopleMove DEF Calm

LEMMA SyncMeKeeps ==
  ASSUME AccessInv, NEW s \in Sessions, SyncMe(s)
  PROVE  AccessInv'
<1>1. PICK r \in Seat : r = session[s] /\ r.pc = "upsert" /\ r.who \in Users
  BY DEF AccessInv, AccessTyped, RightsTyped, SyncMe, At, Seat
<1>2. PICK q \in Seat : session' = [session EXCEPT ![s] = q] /\ Calm(q)
  BY AnswersSeat DEF SyncMe
<1>3. UNCHANGED <<groups, member, since, made, place, fill, cache, tracked, overlapped, skipped>>
  BY DEF SyncMe, StillRest, unused
<1>4. users \in [Users -> UserRow] /\ tracked \in [Users -> 0..PersistTTL] /\ overlapped \in BOOLEAN
  BY DEF AccessInv, AccessTyped, PeopleTyped, RightsTyped
<1>5. \/ \E brings \in Claims : Upserts(r.who, brings)
      \/ users' = users /\ unsaved' = unsaved
  BY <1>1 DEF SyncMe
<1>6. /\ users' \in [Users -> UserRow] /\ AdminsNow' = AdminsNow
      /\ \A u \in Users : users[u].here => users'[u].here
      /\ \A u \in Users : users'[u].here /\ ~users'[u].named =>
           \/ u \in unsaved'
           \/ users[u].here /\ ~users[u].named /\ (u \in unsaved <=> u \in unsaved')
  <2>1. CASE users' = users /\ unsaved' = unsaved
    BY <1>4, <2>1 DEF AdminsNow
  <2>2. CASE \E brings \in Claims : Upserts(r.who, brings)
    <3>1. PICK brings \in Claims : Upserts(r.who, brings)
      BY <2>2
    <3>2. /\ users' \in [Users -> UserRow] /\ users'[r.who].here
          /\ users'[r.who].named \/ r.who \in unsaved'
          /\ \A v \in Users \ {r.who} : users'[v] = users[v] /\ (v \in unsaved <=> v \in unsaved')
          /\ AdminsNow' = AdminsNow
      BY <1>1, <1>4, <3>1, UpsertTypes
    <3> QED
      BY <3>2
  <2> QED
    BY <1>5, <2>1, <2>2
<1>7. SyncRepopulates'
  BY <1>1, <1>2, <1>3, <1>6, SyncMoves
<1>8. AdminRemains'
  BY <1>3, <1>6 DEF AccessInv, AdminRemains
<1> QED
  BY <1>2, <1>3, <1>4, <1>6, <1>7, <1>8, PeopleMove

LEMMA CreateUserKeeps ==
  ASSUME AccessInv, NEW s \in Sessions, CreateUser(s)
  PROVE  AccessInv'
<1>1. PICK r \in Seat : r = session[s] /\ r.pc = "create" /\ r.user \in Users
  BY DEF AccessInv, AccessTyped, RightsTyped, CreateUser, At, Seat
<1>2. PICK q \in Seat : session' = [session EXCEPT ![s] = q] /\ Calm(q)
  BY AnswersSeat DEF CreateUser
<1>3. UNCHANGED <<groups, member, since, made, place, fill, cache, tracked, overlapped, unsaved, skipped>>
  BY DEF CreateUser, StillRest, unused
<1>4. users \in [Users -> UserRow] /\ tracked \in [Users -> 0..PersistTTL] /\ overlapped \in BOOLEAN
  BY DEF AccessInv, AccessTyped, PeopleTyped, RightsTyped
<1>5. /\ users' \in [Users -> UserRow] /\ AdminsNow \subseteq AdminsNow'
      /\ \A u \in Users : users[u].here => users'[u].here
      /\ \A u \in Users : users'[u].here /\ ~users'[u].named => users[u].here /\ ~users[u].named
  <2>1. CASE users' = users
    BY <1>4, <2>1 DEF AdminsNow
  <2>2. CASE users' # users
    <3>1. PICK admin \in BOOLEAN : /\ ~users[r.user].here
            /\ users' = [users EXCEPT ![r.user] = [here |-> TRUE, admin |-> admin, named |-> TRUE]]
      BY <1>1, <2>2 DEF CreateUser
    <3>2. [here |-> TRUE, admin |-> admin, named |-> TRUE] \in UserRow
      BY DEF UserRow
    <3>3. /\ users' \in [Users -> UserRow] /\ users'[r.user].here /\ users'[r.user].named
          /\ \A u \in Users \ {r.user} : users'[u] = users[u]
      BY <1>1, <1>4, <3>1, <3>2
    <3> QED
      BY <3>1, <3>3 DEF AdminsNow
  <2> QED
    BY <2>1, <2>2
<1>6. SyncRepopulates'
  BY <1>1, <1>2, <1>3, <1>5, SyncMoves
<1>7. AdminRemains'
  BY <1>3, <1>5 DEF AccessInv, AdminRemains
<1> QED
  BY <1>2, <1>3, <1>4, <1>5, <1>6, <1>7, PeopleMove

LEMMA PromoteKeeps ==
  ASSUME AccessInv, NEW s \in Sessions, Promote(s)
  PROVE  AccessInv'
<1>1. PICK r \in Seat : r = session[s] /\ r.pc = "promote" /\ r.user \in Users
  BY DEF AccessInv, AccessTyped, RightsTyped, Promote, At, Seat
<1>2. PICK q \in Seat : session' = [session EXCEPT ![s] = q] /\ Calm(q)
  BY AnswersSeat DEF Promote
<1>3. UNCHANGED <<groups, member, since, made, place, fill, cache, tracked, overlapped, unsaved, skipped>>
  BY DEF Promote, StillRest, unused
<1>4. users \in [Users -> UserRow] /\ tracked \in [Users -> 0..PersistTTL] /\ overlapped \in BOOLEAN
  BY DEF AccessInv, AccessTyped, PeopleTyped, RightsTyped
<1>5. /\ users' \in [Users -> UserRow] /\ AdminsNow \subseteq AdminsNow'
      /\ \A u \in Users : users[u].here => users'[u].here
      /\ \A u \in Users : users'[u].here /\ ~users'[u].named => users[u].here /\ ~users[u].named
  <2>1. users' = users \/ users' = [users EXCEPT ![r.user].admin = TRUE]
    BY <1>1 DEF Promote
  <2>2. CASE users' = users
    BY <1>4, <2>2 DEF AdminsNow
  <2>3. CASE users' = [users EXCEPT ![r.user].admin = TRUE]
    <3>1. users' \in [Users -> UserRow]
      BY ONLY <1>4, <2>3 DEF UserRow
    <3>2. \A u \in Users : /\ users'[u].here = users[u].here /\ users'[u].named = users[u].named
                           /\ users[u].admin => users'[u].admin
      BY ONLY <1>4, <2>3 DEF UserRow
    <3> QED
      BY ONLY <3>1, <3>2 DEF AdminsNow
  <2> QED
    BY <2>1, <2>2, <2>3
<1>6. SyncRepopulates'
  BY <1>1, <1>2, <1>3, <1>5, SyncMoves
<1>7. AdminRemains'
  BY <1>3, <1>5 DEF AccessInv, AdminRemains
<1> QED
  BY <1>2, <1>3, <1>4, <1>5, <1>6, <1>7, PeopleMove

LEMMA ClearAdminKeeps ==
  ASSUME AccessInv, NEW s \in Sessions, ClearAdmin(s)
  PROVE  AccessInv'
<1>1. PICK r \in Seat : r = session[s] /\ r.pc = "clear" /\ r.user \in Users /\ Relied(r)
  BY DEF AccessInv, AccessTyped, RightsTyped, SeatsHold, ClearAdmin, At, Seat
<1>2. PICK q \in Seat : session' = [session EXCEPT ![s] = q] /\ Calm(q)
  BY AnswersSeat DEF ClearAdmin
<1>3. UNCHANGED <<groups, member, since, made, place, fill, cache, tracked, unsaved, skipped>>
  BY DEF ClearAdmin, StillRest, unused
<1>4. users \in [Users -> UserRow] /\ tracked \in [Users -> 0..PersistTTL] /\ overlapped \in BOOLEAN
  BY DEF AccessInv, AccessTyped, PeopleTyped, RightsTyped
<1>5. users' = [users EXCEPT ![r.user].admin = FALSE] /\ overlapped' = (overlapped \/ Overlaps(s))
  BY <1>1 DEF ClearAdmin
<1>6. /\ users' \in [Users -> UserRow] /\ AdminsNow \ {r.user} \subseteq AdminsNow'
      /\ \A u \in Users : users[u].here => users'[u].here
      /\ \A u \in Users : users'[u].here /\ ~users'[u].named => users[u].here /\ ~users[u].named
  <2>1. users' \in [Users -> UserRow]
    BY ONLY <1>4, <1>5 DEF UserRow
  <2>2. \A u \in Users : /\ users'[u].here = users[u].here /\ users'[u].named = users[u].named
                         /\ u # r.user => users'[u].admin = users[u].admin
    BY ONLY <1>4, <1>5 DEF UserRow
  <2> QED
    BY ONLY <2>1, <2>2 DEF AdminsNow
<1>7. SyncRepopulates'
  BY <1>1, <1>2, <1>3, <1>6, SyncMoves
<1>8. overlapped' \in BOOLEAN /\ (overlapped => overlapped') /\ (overlapped' \/ ~Overlaps(s))
  BY <1>4, <1>5
<1>9. AdminRemains'
  BY <1>1, <1>5, <1>6 DEF Relied, AdminRemains
<1> QED
  BY <1>2, <1>3, <1>4, <1>6, <1>7, <1>8, <1>9, PeopleMove

LEMMA ClearUsernameKeeps ==
  ASSUME AccessInv, NEW s \in Sessions, ClearUsername(s)
  PROVE  AccessInv'
<1>1. PICK r \in Seat : r = session[s] /\ r.pc = "sync" /\ r.user \in Users
  BY DEF AccessInv, AccessTyped, RightsTyped, ClearUsername, At, Seat
<1>2. UNCHANGED <<groups, member, since, made, place, fill, cache, tracked, overlapped, unsaved, skipped>>
  BY DEF ClearUsername, StillRest, unused
<1>3. users \in [Users -> UserRow] /\ tracked \in [Users -> 0..PersistTTL] /\ overlapped \in BOOLEAN
  BY DEF AccessInv, AccessTyped, PeopleTyped, RightsTyped
<1>4. CASE users' = users /\ Answers(s)
  <2>1. PICK q \in Seat : session' = [session EXCEPT ![s] = q] /\ Calm(q)
    BY <1>4, AnswersSeat
  <2> QED
    BY <1>1, <1>2, <1>4, <2>1, CalmRelies, SeatOnly
<1>5. CASE users' = [users EXCEPT ![r.user].named = FALSE] /\ Goes(s, "invalidate")
  <2>1. PICK q \in Seat : /\ session' = [session EXCEPT ![s] = q]
                          /\ q.pc = "invalidate" /\ q.user = r.user
    BY <1>1, <1>5, GoesSeat DEF Stops
  <2>2. /\ users' \in [Users -> UserRow] /\ AdminsNow \subseteq AdminsNow'
        /\ \A u \in Users : users[u].here => users'[u].here
        /\ \A u \in Users \ {r.user} : users'[u] = users[u]
    BY <1>1, <1>3, <1>5 DEF AdminsNow, UserRow
  <2>3. SyncRepopulates'
    <3> SUFFICES ASSUME NEW u \in Users, users'[u].here, ~users'[u].named, tracked'[u] > 0,
                        u \notin unsaved' \union skipped'
                 PROVE  \/ \E t \in Sessions : At(t, "invalidate")' /\ session'[t].user = u
                        \/ \E t \in Sessions : At(t, "persist")' /\ session'[t].who = u
      BY DEF SyncRepopulates, HeldBack
    <3>1. session'[s] = q /\ \A t \in Sessions \ {s} : session'[t] = session[t]
      BY <2>1, SeatFields
    <3>2. CASE u = r.user
      BY <2>1, <3>1, <3>2 DEF At
    <3>3. CASE u # r.user
      <4>1. \/ \E t \in Sessions : At(t, "invalidate") /\ session[t].user = u
            \/ \E t \in Sessions : At(t, "persist") /\ session[t].who = u
        BY <1>2, <2>2, <3>3 DEF AccessInv, SyncRepopulates, HeldBack
      <4> QED
        BY <1>1, <3>1, <4>1 DEF At
    <3> QED
      BY <3>2, <3>3
  <2>4. AdminRemains'
    BY <1>2, <2>2 DEF AccessInv, AdminRemains
  <2> QED
    BY <1>2, <1>3, <2>1, <2>2, <2>3, <2>4, PeopleMove DEF Calm
<1> QED
  BY <1>1, <1>4, <1>5 DEF ClearUsername

LEMMA InvalidateKeeps ==
  ASSUME AccessInv, NEW s \in Sessions, Invalidate(s)
  PROVE  AccessInv'
<1>1. PICK r \in Seat : r = session[s] /\ r.pc = "invalidate" /\ r.user \in Users
  BY DEF AccessInv, AccessTyped, RightsTyped, Invalidate, At, Seat
<1>2. PICK q \in Seat : session' = [session EXCEPT ![s] = q] /\ Calm(q)
  BY AnswersSeat DEF Invalidate
<1>3. /\ UNCHANGED <<users, groups, member, since, made, place, fill, cache, overlapped>>
      /\ unsaved' = unsaved \ {r.user} /\ skipped' = skipped \ {r.user}
  BY <1>1 DEF Invalidate, StillRest, unused, registry
<1>4. tracked' = [tracked EXCEPT ![r.user] = 0] /\ tracked \in [Users -> 0..PersistTTL]
      /\ 0 \in 0..PersistTTL
  BY <1>1, AccessTypes DEF Invalidate, AccessInv, AccessTyped, RightsTyped
<1>5. tracked' \in [Users -> 0..PersistTTL] /\ tracked'[r.user] = 0
      /\ \A u \in Users \ {r.user} : tracked'[u] = tracked[u]
  BY <1>1, <1>4
<1>6. cache' \in [Users -> Entry] /\ EntriesKnown'
  BY <1>3 DEF AccessInv, AccessTyped, RightsTyped, EntriesKnown
<1>7. SyncRepopulates'
  <2> SUFFICES ASSUME NEW u \in Users, users'[u].here, ~users'[u].named, tracked'[u] > 0,
                      u \notin unsaved' \union skipped'
               PROVE  \/ \E t \in Sessions : At(t, "invalidate")' /\ session'[t].user = u
                      \/ \E t \in Sessions : At(t, "persist")' /\ session'[t].who = u
    BY DEF SyncRepopulates, HeldBack
  <2>1. u # r.user
    BY <1>5
  <2>2. \/ \E t \in Sessions : At(t, "invalidate") /\ session[t].user = u
        \/ \E t \in Sessions : At(t, "persist") /\ session[t].who = u
    BY <1>3, <1>5, <2>1 DEF AccessInv, SyncRepopulates, HeldBack
  <2>3. \A t \in Sessions \ {s} : session'[t] = session[t]
    BY <1>2, SeatFields
  <2> QED
    BY <1>1, <2>1, <2>2, <2>3 DEF At
<1> QED
  BY <1>2, <1>3, <1>5, <1>6, <1>7, MemoryMove


\* A step that changes who holds which rank, or what is where.
LEMMA PlacesMove ==
  ASSUME AccessInv, NEW s \in Sessions, NEW q \in Seat,
         session' = [session EXCEPT ![s] = q], Relied(q)',
         session[s].pc \notin {"invalidate", "persist"},
         PeopleTyped', RanksKnown', Eases, PlacesTyped', fill' \in Fill, FillHolds',
         UNCHANGED <<cache, tracked, unsaved, skipped>>,
         overlapped' \in BOOLEAN, overlapped => overlapped',
         AdminsNow \subseteq AdminsNow' \/ overlapped' \/ ~Overlaps(s), AdminRemains',
         \A u \in Users : users'[u].here /\ ~users'[u].named => users[u].here /\ ~users[u].named,
         \A r \in Resources : made[r] = "gone" => made'[r] = "gone"
  PROVE  AccessInv'
<1>1. RightsTyped'
  BY SeatFields DEF AccessInv, AccessTyped, RightsTyped
<1>2. SeatsHold'
  BY SeatsMove
<1>3. SyncRepopulates'
  BY SyncMoves
<1>4. EntriesKnown'
  <2> SUFFICES ASSUME NEW u \in Users, NEW g \in Groups, NEW k \in 1..3,
                      cache[u].left > 0, cache[u].roles[g] >= k
               PROVE  since'[u][g][k] + cache[u].left <= CacheTTL + LoadTicks
    BY DEF EntriesKnown
  <2>1. since[u][g][k] + cache[u].left <= CacheTTL + LoadTicks
    BY DEF AccessInv, EntriesKnown
  <2>2. since'[u][g][k] <= since[u][g][k]
    BY DEF Eases
  <2>3. since[u][g][k] \in Nat /\ since'[u][g][k] \in Nat
    BY AccessTypes DEF AccessInv, AccessTyped, PeopleTyped, Ticks
  <2>4. cache[u].left \in Nat
    BY AccessTypes DEF AccessInv, AccessTyped, RightsTyped, Entry
  <2> QED
    BY ONLY <2>1, <2>2, <2>3, <2>4, AccessTypes
<1> QED
  BY <1>1, <1>2, <1>3, <1>4 DEF AccessInv, AccessTyped

LEMMA DeleteUserKeeps ==
  ASSUME AccessInv, NEW s \in Sessions, DeleteUser(s)
  PROVE  AccessInv'
<1>1. PICK r \in Seat : r = session[s] /\ r.pc = "remove" /\ r.user \in Users /\ Relied(r)
  BY DEF AccessInv, AccessTyped, RightsTyped, SeatsHold, DeleteUser, At, Seat
<1>2. PICK q \in Seat : session' = [session EXCEPT ![s] = q] /\ Calm(q)
  BY AnswersSeat DEF DeleteUser
<1>3. UNCHANGED <<groups, since, made, place, fill, cache, tracked, unsaved, skipped>>
  BY DEF DeleteUser, StillRest, unused
<1>4. PeopleTyped /\ overlapped \in BOOLEAN /\ fill \in Fill
  BY DEF AccessInv, AccessTyped, RightsTyped
<1> DEFINE row == [here |-> FALSE, admin |-> FALSE, named |-> FALSE]
<1>5. /\ users' = [users EXCEPT ![r.user] = row] /\ member' = [member EXCEPT ![r.user] = NoRoles]
      /\ overlapped' = (overlapped \/ Overlaps(s))
  BY <1>1 DEF DeleteUser
<1>6. row \in UserRow /\ ~row.here
  BY DEF UserRow
<1> HIDE DEF row
<1>7. /\ users' \in [Users -> UserRow] /\ ~users'[r.user].here
      /\ \A u \in Users \ {r.user} : users'[u] = users[u] /\ member'[u] = member[u]
      /\ member' \in [Users -> [Groups -> Ranks]] /\ member'[r.user] = NoRoles
  BY <1>1, <1>4, <1>5, <1>6, AccessTypes DEF PeopleTyped
<1>8. PeopleTyped'
  <2>1. \A u \in Users, g \in Groups : member'[u][g] > 0 => users'[u].here /\ groups[g] = "here"
    BY <1>4, <1>7, AccessTypes DEF PeopleTyped, Here
  <2> QED
    BY <1>3, <1>4, <1>7, <2>1 DEF PeopleTyped, Here
<1>9. RanksKnown'
  BY <1>3, <1>7, AccessTypes DEF AccessInv, RanksKnown
<1>10. PlacesTyped' /\ fill' \in Fill
  BY <1>3, <1>4 DEF AccessInv, AccessTyped, PlacesTyped, Here
<1>11. FillHolds'
  BY <1>3, <1>4, FillStays
<1>12. AdminsNow \ {r.user} \subseteq AdminsNow'
  BY <1>7 DEF AdminsNow
<1>13. AdminRemains'
  BY <1>1, <1>5, <1>12 DEF Relied, AdminRemains
<1>14. /\ overlapped' \in BOOLEAN /\ (overlapped => overlapped') /\ (overlapped' \/ ~Overlaps(s))
       /\ Relied(q)'
  BY <1>2, <1>4, <1>5, CalmRelies
<1>15. /\ \A u \in Users : users'[u].here /\ ~users'[u].named => users[u].here /\ ~users[u].named
       /\ \A x \in Resources : made[x] = "gone" => made'[x] = "gone"
  BY <1>3, <1>7
<1>16. Eases
  BY <1>3, EasesAlike
<1> QED
  BY ONLY <1>1, <1>2, <1>3, <1>8, <1>9, <1>10, <1>11, <1>13, <1>14, <1>15, <1>16,
          AccessInv, PlacesMove

LEMMA JoinsTypes ==
  ASSUME AccessInv, NEW u \in Users, NEW g \in Groups, NEW rank \in Ranks,
         MayJoin(u, g), Joins(u, g, rank), UNCHANGED <<users, groups>>
  PROVE  PeopleTyped' /\ RanksKnown' /\ Eases
<1>1. PeopleTyped /\ RanksKnown
  BY DEF AccessInv, AccessTyped
<1> DEFINE f == [k \in 1..3 |-> IF rank >= k THEN 0 ELSE since[u][g][k]]
<1>2. f \in [1..3 -> 0..LongAgo] /\ \A k \in 1..3 : f[k] = IF rank >= k THEN 0 ELSE since[u][g][k]
  BY <1>1, AccessTypes DEF PeopleTyped, Ticks
<1>3. member' = [member EXCEPT ![u][g] = rank] /\ since' = [since EXCEPT ![u][g] = f]
  BY DEF Joins
<1> HIDE DEF f
<1>4. /\ member' \in [Users -> [Groups -> Ranks]] /\ member'[u][g] = rank
      /\ \A v \in Users, h \in Groups : v # u \/ h # g => member'[v][h] = member[v][h]
  BY <1>1, <1>3 DEF PeopleTyped
<1>5. /\ since' \in [Users -> Ticks] /\ since'[u][g] = f
      /\ \A v \in Users, h \in Groups : v # u \/ h # g => since'[v][h] = since[v][h]
  BY <1>1, <1>2, <1>3 DEF PeopleTyped, Ticks
<1>6. \A v \in Users, h \in Groups, k \in 1..3 : since[v][h][k] \in Nat /\ since'[v][h][k] \in Nat
  BY <1>1, <1>5, AccessTypes DEF PeopleTyped, Ticks
<1>7. PeopleTyped'
  <2>1. \A v \in Users, h \in Groups : member'[v][h] > 0 => users[v].here /\ groups[h] = "here"
    BY <1>1, <1>4 DEF PeopleTyped, Here, MayJoin
  <2> QED
    BY <1>1, <1>4, <1>5, <2>1 DEF PeopleTyped, Here
<1>8. RanksKnown'
  <2> SUFFICES ASSUME NEW v \in Users, NEW h \in Groups, NEW k \in 1..3, member'[v][h] >= k
               PROVE  since'[v][h][k] = 0
    BY DEF RanksKnown
  <2>1. CASE v = u /\ h = g
    BY <1>2, <1>4, <1>5, <2>1
  <2>2. CASE v # u \/ h # g
    BY <1>1, <1>4, <1>5, <2>2 DEF RanksKnown
  <2> QED
    BY <2>1, <2>2
<1>9. Eases
  <2> SUFFICES ASSUME NEW v \in Users, NEW h \in Groups, NEW k \in 1..3
               PROVE  since'[v][h][k] <= since[v][h][k]
    BY DEF Eases
  <2>1. since'[v][h][k] = since[v][h][k] \/ since'[v][h][k] = 0
    BY <1>2, <1>5
  <2> QED
    BY <1>6, <2>1
<1> QED
  BY <1>7, <1>8, <1>9

\* What a step on groups and members leaves alone.
LEMMA ApartFromPeople ==
  ASSUME AccessInv, UNCHANGED <<users, made, overlapped>>
  PROVE  /\ overlapped' \in BOOLEAN /\ (overlapped => overlapped')
         /\ AdminsNow \subseteq AdminsNow' /\ AdminRemains'
         /\ \A u \in Users : users'[u].here /\ ~users'[u].named => users[u].here /\ ~users[u].named
         /\ \A x \in Resources : made[x] = "gone" => made'[x] = "gone"
BY DEF AccessInv, AccessTyped, RightsTyped, AdminsNow, AdminRemains

LEMMA CreateGroupKeeps ==
  ASSUME AccessInv, NEW s \in Sessions, CreateGroup(s)
  PROVE  AccessInv'
<1>1. PICK r \in Seat : r = session[s] /\ r.pc = "group"
  BY DEF AccessInv, AccessTyped, RightsTyped, CreateGroup, At
<1>2. PICK g \in Groups : /\ groups[g] = "new" /\ groups' = [groups EXCEPT ![g] = "here"]
                          /\ session' = [session EXCEPT ![s] = [r EXCEPT !.pc = "own", !.group = g]]
  BY <1>1 DEF CreateGroup
<1> DEFINE q == [r EXCEPT !.pc = "own", !.group = g]
<1>3. "own" \in Stops
  BY DEF Stops
<1>4. q \in Seat /\ q.pc = "own"
  BY <1>3 DEF Seat
<1>5. session' = [session EXCEPT ![s] = q]
  BY <1>2
<1> HIDE DEF q
<1>6. UNCHANGED <<users, member, since, made, place, fill, cache, tracked, overlapped, unsaved, skipped>>
  BY DEF CreateGroup, StillUsers, unused
<1>7. PeopleTyped /\ PlacesTyped /\ RanksKnown /\ fill \in Fill
  BY DEF AccessInv, AccessTyped, RightsTyped
<1>8. /\ groups' \in [Groups -> {"new", "here", "gone"}]
      /\ \A h \in Groups : groups[h] = "here" => groups'[h] = "here"
  BY <1>2, <1>7 DEF PeopleTyped
<1>9. PeopleTyped' /\ PlacesTyped' /\ RanksKnown'
  BY <1>6, <1>7, <1>8 DEF PeopleTyped, PlacesTyped, RanksKnown, Here
<1>10. Eases /\ FillHolds' /\ Relied(q)'
  BY <1>4, <1>6, <1>7, EasesAlike, FillStays, CalmRelies DEF Calm
<1> QED
  BY <1>1, <1>4, <1>5, <1>6, <1>7, <1>9, <1>10, ApartFromPeople, PlacesMove

LEMMA OwnGroupKeeps ==
  ASSUME AccessInv, NEW s \in Sessions, OwnGroup(s)
  PROVE  AccessInv'
<1>1. PICK r \in Seat : r = session[s] /\ r.pc = "own" /\ r.who \in Users /\ r.group \in Groups
  BY DEF AccessInv, AccessTyped, RightsTyped, OwnGroup, At, Seat
<1>2. PICK q \in Seat : session' = [session EXCEPT ![s] = q] /\ Calm(q)
  BY AnswersSeat DEF OwnGroup
<1>3. UNCHANGED <<users, groups, made, place, fill, cache, tracked, overlapped, unsaved, skipped>>
  BY DEF OwnGroup, StillUsers, unused
<1>4. CASE UNCHANGED <<member, since>>
  BY <1>1, <1>2, <1>3, <1>4, CalmRelies, SeatOnly
<1>5. CASE MayJoin(r.who, r.group) /\ Joins(r.who, r.group, 3)
  <2>1. 3 \in Ranks
    BY DEF Ranks
  <2>2. PeopleTyped' /\ RanksKnown' /\ Eases
    BY <1>1, <1>3, <1>5, <2>1, JoinsTypes
  <2>3. PlacesTyped' /\ FillHolds' /\ fill' \in Fill /\ Relied(q)'
    BY <1>2, <1>3, FillStays, CalmRelies
       DEF AccessInv, AccessTyped, RightsTyped, PlacesTyped, Here
  <2> QED
    BY <1>1, <1>2, <1>3, <2>2, <2>3, ApartFromPeople, PlacesMove
<1> QED
  BY <1>1, <1>4, <1>5 DEF OwnGroup

LEMMA AddMemberKeeps ==
  ASSUME AccessInv, NEW s \in Sessions, AddMember(s)
  PROVE  AccessInv'
<1>1. PICK r \in Seat : r = session[s] /\ r.pc = "grant" /\ r.user \in Users /\ r.group \in Groups
                        /\ r.rank \in Ranks
  BY DEF AccessInv, AccessTyped, RightsTyped, AddMember, At, Seat
<1>2. PICK q \in Seat : session' = [session EXCEPT ![s] = q] /\ Calm(q)
  BY AnswersSeat DEF AddMember
<1>3. UNCHANGED <<users, groups, made, place, fill, cache, tracked, overlapped, unsaved, skipped>>
  BY DEF AddMember, StillUsers, unused
<1>4. CASE UNCHANGED <<member, since>>
  BY <1>1, <1>2, <1>3, <1>4, CalmRelies, SeatOnly
<1>5. CASE MayJoin(r.user, r.group) /\ Joins(r.user, r.group, r.rank)
  <2>2. PeopleTyped' /\ RanksKnown' /\ Eases
    BY <1>1, <1>3, <1>5, JoinsTypes
  <2>3. PlacesTyped' /\ FillHolds' /\ fill' \in Fill /\ Relied(q)'
    BY <1>2, <1>3, FillStays, CalmRelies
       DEF AccessInv, AccessTyped, RightsTyped, PlacesTyped, Here
  <2> QED
    BY <1>1, <1>2, <1>3, <2>2, <2>3, ApartFromPeople, PlacesMove
<1> QED
  BY <1>1, <1>4, <1>5 DEF AddMember

LEMMA RemoveMemberKeeps ==
  ASSUME AccessInv, NEW s \in Sessions, RemoveMember(s)
  PROVE  AccessInv'
<1>1. PICK r \in Seat : r = session[s] /\ r.pc = "revoke" /\ r.user \in Users /\ r.group \in Groups
  BY DEF AccessInv, AccessTyped, RightsTyped, RemoveMember, At, Seat
<1>2. PICK q \in Seat : session' = [session EXCEPT ![s] = q] /\ Calm(q)
  BY AnswersSeat DEF RemoveMember
<1>3. UNCHANGED <<users, groups, since, made, place, fill, cache, tracked, overlapped, unsaved, skipped>>
  BY DEF RemoveMember, StillUsers, unused
<1>4. PeopleTyped /\ RanksKnown /\ 0 \in Ranks
  BY DEF AccessInv, AccessTyped, Ranks
<1>5. /\ member' \in [Users -> [Groups -> Ranks]] /\ member'[r.user][r.group] = 0
      /\ \A u \in Users, g \in Groups :
           u # r.user \/ g # r.group => member'[u][g] = member[u][g]
  BY <1>1, <1>4 DEF RemoveMember, PeopleTyped
<1>6. PeopleTyped' /\ RanksKnown'
  <2>1. \A u \in Users, g \in Groups, k \in 1..3 : member'[u][g] >= k => member[u][g] >= k
    BY <1>4, <1>5
  <2>2. \A u \in Users, g \in Groups : member'[u][g] > 0 => member[u][g] > 0
    BY <1>4, <1>5
  <2> QED
    BY <1>3, <1>4, <1>5, <2>1, <2>2 DEF PeopleTyped, RanksKnown, Here
<1>7. PlacesTyped' /\ FillHolds' /\ fill' \in Fill /\ Relied(q)' /\ Eases
  BY <1>2, <1>3, FillStays, CalmRelies, EasesAlike
     DEF AccessInv, AccessTyped, RightsTyped, PlacesTyped, Here
<1> QED
  BY <1>1, <1>2, <1>3, <1>6, <1>7, ApartFromPeople, PlacesMove

LEMMA DeleteGroupKeeps ==
  ASSUME AccessInv, NEW s \in Sessions, DeleteGroup(s)
  PROVE  AccessInv'
<1>1. PICK r \in Seat : r = session[s] /\ r.pc = "ungroup" /\ r.group \in Groups
  BY DEF AccessInv, AccessTyped, RightsTyped, DeleteGroup, At, Seat
<1>2. PICK q \in Seat : session' = [session EXCEPT ![s] = q] /\ Calm(q)
  BY AnswersSeat DEF DeleteGroup
<1>3. UNCHANGED <<users, since, made, cache, tracked, overlapped, unsaved, skipped>>
  BY DEF DeleteGroup, StillUsers
<1>4. CASE UNCHANGED <<groups, member, place, fill>>
  BY <1>1, <1>2, <1>3, <1>4, CalmRelies, SeatOnly
<1>5. CASE ~UNCHANGED <<groups, member, place, fill>>
  <2> PICK g \in Groups : g = r.group
    BY <1>1
  <2> PICK orphans \in SUBSET Resources : orphans = {x \in Resources : place[x] = {g}}
    OBVIOUS
  <2>1. /\ groups' = [groups EXCEPT ![g] = "gone"]
        /\ member' = [u \in Users |-> [member[u] EXCEPT ![g] = 0]]
        /\ place' = [x \in Resources |-> place[x] \ {g}]
        /\ fill' = [fill EXCEPT !.excused = @ \union orphans]
    BY <1>1, <1>5 DEF DeleteGroup
  <2>2. PeopleTyped /\ RanksKnown /\ PlacesTyped /\ fill \in Fill /\ FillHolds /\ 0 \in Ranks
    BY DEF AccessInv, AccessTyped, RightsTyped, Ranks
  <2>3. /\ groups' \in [Groups -> {"new", "here", "gone"}]
        /\ \A h \in Groups \ {g} : groups'[h] = groups[h]
    BY <2>1, <2>2 DEF PeopleTyped
  <2>4. \A u \in Users : member'[u] = [member[u] EXCEPT ![g] = 0]
    BY <2>1
  <2>5. /\ member' \in [Users -> [Groups -> Ranks]]
        /\ \A u \in Users : member'[u][g] = 0
        /\ \A u \in Users, h \in Groups \ {g} : member'[u][h] = member[u][h]
    BY <2>1, <2>2 DEF PeopleTyped
  <2>6. PeopleTyped'
    <3>1. \A u \in Users, h \in Groups : member'[u][h] > 0 => users[u].here /\ groups'[h] = "here"
      BY <2>2, <2>3, <2>5 DEF PeopleTyped, Here
    <3> QED
      BY <1>3, <2>2, <2>3, <2>5, <3>1 DEF PeopleTyped, Here
  <2>7. RanksKnown'
    <3>1. \A u \in Users, h \in Groups, k \in 1..3 : member'[u][h] >= k => member[u][h] >= k
      BY <2>2, <2>5 DEF PeopleTyped
    <3> QED
      BY <1>3, <2>2, <3>1 DEF RanksKnown
  <2>8. PlacesTyped'
    <3>1. place' \in [Resources -> SUBSET Groups]
      BY <2>1, <2>2 DEF PlacesTyped
    <3>2. ASSUME NEW x \in Resources, NEW h \in place'[x]
          PROVE  groups'[h] = "here" /\ place'[x] = {h}
      <4>1. place'[x] = place[x] \ {g}
        BY <2>1
      <4>2. h # g /\ h \in place[x] /\ h \in Groups
        BY <2>2, <3>2, <4>1 DEF PlacesTyped
      <4>3. place[x] = {h} /\ groups[h] = "here"
        BY <2>2, <4>2 DEF PlacesTyped, Here
      <4> QED
        BY <2>3, <4>1, <4>2, <4>3
    <3> QED
      BY <1>3, <2>2, <3>1, <3>2 DEF PlacesTyped, Here
  <2>9. /\ fill' \in Fill /\ fill'.pc = fill.pc /\ fill'.refs = fill.refs /\ fill'.ref = fill.ref
        /\ fill'.listed = fill.listed /\ fill'.excused = fill.excused \union orphans
    BY <2>1, <2>2 DEF Fill
  <2>10. FillHolds'
    <3> SUFFICES ASSUME fill.pc \in {"each", "set", "done"}, NEW x \in fill.listed,
                        made[x] = "made", place[x] # {}
                 PROVE  place'[x] # {} \/ x \in fill'.excused
      BY <1>3, <2>2, <2>9 DEF FillHolds
    <3>1. x \in Resources
      BY <2>2 DEF Fill
    <3>2. PICK h \in place[x] : place[x] = {h}
      BY <2>2, <3>1 DEF PlacesTyped
    <3>3. place'[x] = place[x] \ {g}
      BY <2>1, <3>1
    <3>4. CASE h = g
      BY <2>9, <3>1, <3>2, <3>4
    <3>5. CASE h # g
      BY <3>2, <3>3, <3>5
    <3> QED
      BY <3>4, <3>5
  <2>11. Eases /\ Relied(q)'
    BY <1>2, <1>3, EasesAlike, CalmRelies
  <2> QED
    BY <1>1, <1>2, <1>3, <2>6, <2>7, <2>8, <2>9, <2>10, <2>11, ApartFromPeople, PlacesMove
<1> QED
  BY <1>4, <1>5


\* What a step on resources leaves alone.
LEMMA ApartFromPlaces ==
  ASSUME AccessInv, UNCHANGED <<users, groups, member, since, overlapped>>
  PROVE  /\ PeopleTyped' /\ RanksKnown' /\ Eases
         /\ overlapped' \in BOOLEAN /\ (overlapped => overlapped')
         /\ AdminsNow \subseteq AdminsNow' /\ AdminRemains'
         /\ \A u \in Users : users'[u].here /\ ~users'[u].named => users[u].here /\ ~users[u].named
<1>1. PeopleTyped' /\ RanksKnown'
  BY DEF AccessInv, AccessTyped, PeopleTyped, RanksKnown, Here
<1> QED
  BY <1>1, EasesAlike DEF AccessInv, AccessTyped, RightsTyped, AdminsNow, AdminRemains

LEMMA CreateResourceKeeps ==
  ASSUME AccessInv, NEW s \in Sessions, CreateResource(s)
  PROVE  AccessInv'
<1>1. PICK r \in Seat : r = session[s] /\ r.pc = "make"
  BY DEF AccessInv, AccessTyped, RightsTyped, CreateResource, At
<1>2. PICK x \in Resources : /\ made[x] = "new" /\ made' = [made EXCEPT ![x] = "made"]
                             /\ session' = [session EXCEPT ![s] = [r EXCEPT !.pc = "assign", !.res = x]]
  BY <1>1 DEF CreateResource
<1> DEFINE q == [r EXCEPT !.pc = "assign", !.res = x]
<1>3. "assign" \in Stops
  BY DEF Stops
<1>4. q \in Seat /\ q.pc = "assign"
  BY <1>3 DEF Seat
<1>5. session' = [session EXCEPT ![s] = q]
  BY <1>2
<1> HIDE DEF q
<1>6. UNCHANGED <<users, groups, member, since, place, fill, cache, tracked, overlapped, unsaved, skipped>>
  BY DEF CreateResource, StillUsers, registry
<1>7. PlacesTyped /\ fill \in Fill
  BY DEF AccessInv, AccessTyped, RightsTyped
<1>8. /\ made' \in [Resources -> {"new", "made", "gone"}] /\ made'[x] = "made"
      /\ \A y \in Resources \ {x} : made'[y] = made[y]
  BY <1>2, <1>7 DEF PlacesTyped
<1>9. PlacesTyped' /\ \A y \in Resources : made[y] = "gone" => made'[y] = "gone"
  BY <1>2, <1>6, <1>7, <1>8 DEF PlacesTyped, Here
<1>10. FillHolds'
  BY <1>2, <1>6, <1>7, <1>8, FillStays
<1>11. Relied(q)'
  BY <1>4, CalmRelies DEF Calm
<1> QED
  BY <1>1, <1>4, <1>5, <1>6, <1>7, <1>9, <1>10, <1>11, ApartFromPlaces, PlacesMove

LEMMA AssignGroupKeeps ==
  ASSUME AccessInv, NEW s \in Sessions, AssignGroup(s)
  PROVE  AccessInv'
<1>1. PICK r \in Seat : r = session[s] /\ r.pc = "assign" /\ r.group \in Groups /\ r.res \in Resources
  BY DEF AccessInv, AccessTyped, RightsTyped, AssignGroup, At, Seat
<1>2. PICK q \in Seat : session' = [session EXCEPT ![s] = q] /\ Calm(q)
  BY AnswersSeat DEF AssignGroup
<1>3. UNCHANGED <<users, groups, member, since, made, fill, cache, tracked, overlapped, unsaved, skipped>>
  BY DEF AssignGroup, StillUsers, registry
<1>4. CASE place' = place
  BY <1>1, <1>2, <1>3, <1>4, CalmRelies, SeatOnly
<1>5. CASE Here(r.group) /\ place' = [place EXCEPT ![r.res] = {r.group}]
  <2>1. PlacesTyped /\ fill \in Fill
    BY DEF AccessInv, AccessTyped, RightsTyped
  <2>2. /\ place' \in [Resources -> SUBSET Groups] /\ place'[r.res] = {r.group}
        /\ \A x \in Resources \ {r.res} : place'[x] = place[x]
    BY <1>1, <1>5, <2>1 DEF PlacesTyped
  <2>3. PlacesTyped'
    BY <1>3, <1>5, <2>1, <2>2 DEF PlacesTyped, Here
  <2>4. FillHolds'
    BY <1>3, <2>1, <2>2, FillStays
  <2> QED
    BY <1>1, <1>2, <1>3, <2>1, <2>3, <2>4, CalmRelies, ApartFromPlaces, PlacesMove
<1> QED
  BY <1>1, <1>4, <1>5 DEF AssignGroup

LEMMA DeleteResourceKeeps ==
  ASSUME AccessInv, NEW s \in Sessions, DeleteResource(s)
  PROVE  AccessInv'
<1>1. PICK r \in Seat : r = session[s] /\ r.pc = "drop" /\ r.res \in Resources
  BY DEF AccessInv, AccessTyped, RightsTyped, DeleteResource, At, Seat
<1>2. UNCHANGED <<users, groups, member, since, place, fill, cache, tracked, overlapped, unsaved, skipped>>
  BY DEF DeleteResource, StillUsers, registry
<1>3. CASE made' = made /\ Answers(s)
  <2>1. PICK q \in Seat : session' = [session EXCEPT ![s] = q] /\ Calm(q)
    BY <1>3, AnswersSeat
  <2> QED
    BY <1>1, <1>2, <1>3, <2>1, CalmRelies, SeatOnly
<1>4. CASE /\ made[r.res] = "made" /\ made' = [made EXCEPT ![r.res] = "gone"]
           /\ Goes(s, "unplace")
  <2>1. PICK q \in Seat : session' = [session EXCEPT ![s] = q] /\ q.pc = "unplace" /\ q.res = r.res
    BY <1>1, <1>4, GoesSeat DEF Stops
  <2>2. PlacesTyped /\ fill \in Fill
    BY DEF AccessInv, AccessTyped, RightsTyped
  <2>3. /\ made' \in [Resources -> {"new", "made", "gone"}] /\ made'[r.res] = "gone"
        /\ \A x \in Resources \ {r.res} : made'[x] = made[x]
    BY <1>1, <1>4, <2>2 DEF PlacesTyped
  <2>4. PlacesTyped' /\ \A x \in Resources : made[x] = "gone" => made'[x] = "gone"
    BY <1>2, <2>2, <2>3 DEF PlacesTyped, Here
  <2>5. FillHolds'
    BY <1>2, <2>2, <2>3, FillStays
  <2>6. Relied(q)'
    BY <2>1, <2>3 DEF Relied
  <2> QED
    BY <1>1, <1>2, <2>1, <2>2, <2>4, <2>5, <2>6, ApartFromPlaces, PlacesMove
<1> QED
  BY <1>1, <1>3, <1>4 DEF DeleteResource

LEMMA DropPlaceKeeps ==
  ASSUME AccessInv, NEW s \in Sessions, DropPlace(s)
  PROVE  AccessInv'
<1>1. PICK r \in Seat : r = session[s] /\ r.pc = "unplace" /\ r.res \in Resources /\ Relied(r)
  BY DEF AccessInv, AccessTyped, RightsTyped, SeatsHold, DropPlace, At, Seat
<1>2. PICK q \in Seat : session' = [session EXCEPT ![s] = q] /\ Calm(q)
  BY AnswersSeat DEF DropPlace
<1>3. UNCHANGED <<users, groups, member, since, made, fill, cache, tracked, overlapped, unsaved, skipped>>
  BY DEF DropPlace, StillUsers, registry
<1>4. CASE place' = place
  BY <1>1, <1>2, <1>3, <1>4, CalmRelies, SeatOnly
<1>5. CASE place' = [place EXCEPT ![r.res] = {}]
  <2>1. PlacesTyped /\ fill \in Fill /\ made[r.res] = "gone"
    BY <1>1 DEF AccessInv, AccessTyped, RightsTyped, Relied
  <2>2. /\ place' \in [Resources -> SUBSET Groups] /\ place'[r.res] = {}
        /\ \A x \in Resources \ {r.res} : place'[x] = place[x]
    BY <1>1, <1>5, <2>1 DEF PlacesTyped
  <2>3. PlacesTyped'
    BY <1>3, <2>1, <2>2 DEF PlacesTyped, Here
  <2>4. FillHolds'
    BY <1>3, <2>1, <2>2, FillStays
  <2> QED
    BY <1>1, <1>2, <1>3, <2>1, <2>3, <2>4, CalmRelies, ApartFromPlaces, PlacesMove
<1> QED
  BY <1>1, <1>4, <1>5 DEF DropPlace

\* The backfill has no request: of the rest it changes where resources are.
LEMMA BackfillMove ==
  ASSUME AccessInv, UNCHANGED <<users, groups, member, since, made, session, cache, tracked,
                                overlapped, unsaved, skipped>>,
         fill' \in Fill, PlacesTyped', FillHolds'
  PROVE  AccessInv'
<1>1. PeopleTyped' /\ RanksKnown' /\ AdminRemains'
  BY ApartFromPlaces
<1>2. RightsTyped' /\ EntriesKnown' /\ SyncRepopulates'
  BY DEF AccessInv, AccessTyped, RightsTyped, EntriesKnown, SyncRepopulates, HeldBack, At
<1>3. SeatsHold'
  BY DEF AccessInv, SeatsHold, Relied, AdminsNow
<1> QED
  BY <1>1, <1>2, <1>3 DEF AccessInv, AccessTyped

LEMMA BackfillKeeps ==
  ASSUME AccessInv, Backfill
  PROVE  AccessInv'
<1>1. PlacesTyped /\ fill \in Fill /\ FillHolds
  BY DEF AccessInv, AccessTyped, RightsTyped
<1>2. UNCHANGED <<users, groups, member, since, made, session, cache, tracked, overlapped, unsaved, skipped>>
  BY DEF Backfill, FillList, FillGet, FillSet, FillDone, FillFails, StillFill, StillUsers, registry
<1>3. CASE FillList
  <2> PICK refs \in SUBSET Resources : refs = {x \in Resources : made[x] = "made"}
    OBVIOUS
  <2>1. fill' = [NoFill EXCEPT !.pc = "each", !.refs = refs, !.listed = refs] /\ place' = place
    BY <1>3 DEF FillList
  <2>2. fill' \in Fill /\ fill'.pc = "each" /\ fill'.refs = refs /\ fill'.ref = {} /\ fill'.listed = refs
    BY <2>1, AccessTypes DEF Fill, NoFill
  <2>3. FillHolds' /\ PlacesTyped'
    BY <1>1, <1>2, <2>1, <2>2 DEF FillHolds, PlacesTyped, Here
  <2> QED
    BY <1>2, <2>2, <2>3, BackfillMove
<1>4. CASE FillGet
  <2>1. PICK x \in fill.refs :
          \/ place[x] # {} /\ fill' = [fill EXCEPT !.refs = @ \ {x}]
          \/ fill' = [fill EXCEPT !.refs = @ \ {x}, !.pc = "set", !.ref = {x}]
    BY <1>4 DEF FillGet
  <2>2. fill.pc = "each" /\ place' = place /\ x \in Resources
    BY <1>1, <1>4, <2>1 DEF FillGet, Fill
  <2>3. CASE place[x] # {} /\ fill' = [fill EXCEPT !.refs = @ \ {x}]
    <3>1. /\ fill' \in Fill /\ fill'.pc = "each" /\ fill'.refs = fill.refs \ {x}
          /\ fill'.ref = fill.ref /\ fill'.listed = fill.listed /\ fill'.excused = fill.excused
      BY <1>1, <2>2, <2>3 DEF Fill
    <3>2. FillHolds' /\ PlacesTyped'
      BY <1>1, <1>2, <2>2, <2>3, <3>1 DEF FillHolds, PlacesTyped, Here
    <3> QED
      BY <1>2, <3>1, <3>2, BackfillMove
  <2>4. CASE fill' = [fill EXCEPT !.refs = @ \ {x}, !.pc = "set", !.ref = {x}]
    <3>1. /\ fill' \in Fill /\ fill'.pc = "set" /\ fill'.refs = fill.refs \ {x}
          /\ fill'.ref = {x} /\ fill'.listed = fill.listed /\ fill'.excused = fill.excused
      BY <1>1, <2>2, <2>4 DEF Fill
    <3>2. FillHolds' /\ PlacesTyped'
      BY <1>1, <1>2, <2>2, <3>1 DEF FillHolds, PlacesTyped, Here
    <3> QED
      BY <1>2, <3>1, <3>2, BackfillMove
  <2> QED
    BY <2>1, <2>3, <2>4
<1>5. CASE FillSet
  <2>1. fill.pc = "set"
    BY <1>5 DEF FillSet
  <2>2. CASE place' = place /\ fill' = [fill EXCEPT !.pc = "failed"]
    <3>1. fill' \in Fill /\ fill'.pc = "failed"
      BY <1>1, <2>2 DEF Fill
    <3>2. FillHolds' /\ PlacesTyped'
      BY <1>1, <1>2, <2>2, <3>1 DEF FillHolds, PlacesTyped, Here
    <3> QED
      BY <1>2, <3>1, <3>2, BackfillMove
  <2>3. CASE /\ Here(Legacy) /\ fill' = [fill EXCEPT !.pc = "each", !.ref = {}]
             /\ place' = [x \in Resources |-> IF x \in fill.ref THEN {Legacy} ELSE place[x]]
    <3>1. /\ fill' \in Fill /\ fill'.pc = "each" /\ fill'.refs = fill.refs
          /\ fill'.ref = {} /\ fill'.listed = fill.listed /\ fill'.excused = fill.excused
      BY <1>1, <2>3 DEF Fill
    <3>2. PlacesTyped'
      BY <1>1, <1>2, <2>3, AccessAssumption DEF PlacesTyped, Here
    <3>3. FillHolds'
      <4>1. fill.listed \subseteq Resources
        BY <1>1 DEF Fill
      <4> QED
        BY <1>1, <1>2, <2>1, <2>3, <3>1, <4>1 DEF FillHolds
    <3> QED
      BY <1>2, <3>1, <3>2, <3>3, BackfillMove
  <2> QED
    BY <1>5, <2>2, <2>3 DEF FillSet
<1>6. CASE FillDone
  <2>1. fill.pc = "each" /\ fill.refs = {} /\ fill' = [fill EXCEPT !.pc = "done"] /\ place' = place
    BY <1>6 DEF FillDone
  <2>2. /\ fill' \in Fill /\ fill'.pc = "done" /\ fill'.refs = fill.refs
        /\ fill'.ref = fill.ref /\ fill'.listed = fill.listed /\ fill'.excused = fill.excused
    BY <1>1, <2>1 DEF Fill
  <2>3. FillHolds' /\ PlacesTyped'
    BY <1>1, <1>2, <2>1, <2>2 DEF FillHolds, PlacesTyped, Here
  <2> QED
    BY <1>2, <2>2, <2>3, BackfillMove
<1>7. CASE FillFails
  <2>1. fill' = [fill EXCEPT !.pc = "failed"] /\ place' = place
    BY <1>7 DEF FillFails
  <2>2. fill' \in Fill /\ fill'.pc = "failed"
    BY <1>1, <2>1 DEF Fill
  <2>3. FillHolds' /\ PlacesTyped'
    BY <1>1, <1>2, <2>1, <2>2 DEF FillHolds, PlacesTyped, Here
  <2> QED
    BY <1>2, <2>2, <2>3, BackfillMove
<1> QED
  BY <1>3, <1>4, <1>5, <1>6, <1>7 DEF Backfill


LEMMA AccessRestartKeeps ==
  ASSUME AccessInv, AccessRestart
  PROVE  AccessInv'
<1>1. UNCHANGED <<users, groups, member, since, made, place, overlapped, unsaved, skipped>>
  BY DEF AccessRestart, registry
<1>2. /\ cache' = [u \in Users |-> Uncached] /\ tracked' = [u \in Users |-> 0]
      /\ session' = [s \in Sessions |-> NoSession] /\ fill' = NoFill
  BY DEF AccessRestart
<1>3. PeopleTyped' /\ RanksKnown' /\ AdminRemains'
  BY <1>1, ApartFromPlaces
<1>4. PlacesTyped'
  BY <1>1 DEF AccessInv, AccessTyped, PlacesTyped, Here
<1>5. RightsTyped'
  BY <1>1, <1>2, AccessTypes DEF AccessInv, AccessTyped, RightsTyped
<1>6. EntriesKnown' /\ SyncRepopulates' /\ FillHolds'
  BY <1>2, AccessTypes DEF EntriesKnown, SyncRepopulates, HeldBack, FillHolds
<1>7. SeatsHold'
  <2>1. Calm(NoSession)
    BY AccessTypes DEF Calm
  <2>2. Relied(NoSession)'
    BY <2>1 DEF Calm, Relied
  <2>3. \A s \in Sessions : session'[s] = NoSession
    BY <1>2
  <2> QED
    BY <2>2, <2>3 DEF SeatsHold, Relied
<1> QED
  BY <1>3, <1>4, <1>5, <1>6, <1>7 DEF AccessInv, AccessTyped

LEMMA AccessTickKeeps ==
  ASSUME AccessInv, AccessTick
  PROVE  AccessInv'
<1>1. UNCHANGED <<users, groups, member, made, place, fill, overlapped, unsaved, skipped>>
  BY DEF AccessTick, unused
<1>2. PeopleTyped /\ RightsTyped
  BY DEF AccessInv, AccessTyped
\* Histories grow by at most a tick.
<1>3. since' \in [Users -> Ticks] /\ \A u \in Users, g \in Groups, k \in 1..3 :
        /\ since'[u][g][k] <= since[u][g][k] + 1
        /\ member[u][g] >= k => since'[u][g][k] = 0
        /\ since[u][g][k] \in Nat /\ since'[u][g][k] \in Nat
  <2>1. \A u \in Users, g \in Groups, k \in 1..3 : since[u][g][k] \in 0..LongAgo
    BY <1>2 DEF PeopleTyped, Ticks
  <2>2. \A u \in Users, g \in Groups, k \in 1..3 :
          since'[u][g][k] = IF member[u][g] >= k THEN 0
                            ELSE IF since[u][g][k] = LongAgo THEN LongAgo ELSE since[u][g][k] + 1
    BY DEF AccessTick
  <2>4. \A u \in Users, g \in Groups, k \in 1..3 : since'[u][g][k] \in 0..LongAgo
    <3> SUFFICES ASSUME NEW u \in Users, NEW g \in Groups, NEW k \in 1..3
                 PROVE  since'[u][g][k] \in 0..LongAgo
      OBVIOUS
    <3> PICK n : n = since[u][g][k]
      OBVIOUS
    <3>1. n \in 0..LongAgo /\ (since'[u][g][k] = 0 \/ (n = LongAgo /\ since'[u][g][k] = LongAgo)
                               \/ (n # LongAgo /\ since'[u][g][k] = n + 1))
      BY <2>1, <2>2
    <3> QED
      BY ONLY <3>1, AccessTypes
  <2>5. since' \in [Users -> Ticks]
    BY <2>4 DEF AccessTick, Ticks
  <2>6. \A u \in Users, g \in Groups, k \in 1..3 :
          /\ since'[u][g][k] <= since[u][g][k] + 1
          /\ member[u][g] >= k => since'[u][g][k] = 0
    BY <2>1, <2>2, AccessTypes
  <2>7. \A u \in Users, g \in Groups, k \in 1..3 : since[u][g][k] \in Nat /\ since'[u][g][k] \in Nat
    BY <2>1, <2>4, AccessTypes
  <2> QED
    BY <2>5, <2>6, <2>7
<1>4. PeopleTyped' /\ RanksKnown'
  BY <1>1, <1>2, <1>3 DEF PeopleTyped, RanksKnown, Here
<1>5. PlacesTyped' /\ AdminRemains' /\ AdminsNow' = AdminsNow
  BY <1>1 DEF AccessInv, AccessTyped, PlacesTyped, AdminRemains, AdminsNow, Here
<1>6. \A n \in Nat : Sooner(n) \in Nat /\ Sooner(n) <= n /\ (Sooner(n) > 0 => n = Sooner(n) + 1)
  BY DEF Sooner
<1>7. ASSUME NEW u \in Users
      PROVE  /\ cache'[u] \in Entry /\ cache'[u].roles = cache[u].roles
             /\ cache'[u].left = Sooner(cache[u].left)
             /\ tracked'[u] = Sooner(tracked[u]) /\ tracked'[u] \in 0..PersistTTL
             /\ cache[u].left \in Nat /\ tracked[u] \in Nat
  <2>1. cache'[u] = [cache[u] EXCEPT !.left = Sooner(@)] /\ tracked'[u] = Sooner(tracked[u])
    BY DEF AccessTick
  <2>2. cache[u] \in Entry /\ tracked[u] \in 0..PersistTTL
    BY <1>2 DEF RightsTyped
  <2>3. Sooner(cache[u].left) \in 0..CacheTTL /\ Sooner(tracked[u]) \in 0..PersistTTL
    BY <2>2, AccessTypes DEF Sooner, Entry
  <2> QED
    BY <2>1, <2>2, <2>3, AccessTypes DEF Entry
<1>8. ASSUME NEW s \in Sessions
      PROVE  /\ session'[s] \in Seat /\ session'[s].pc = session[s].pc
             /\ session'[s].who = session[s].who /\ session'[s].user = session[s].user
             /\ session'[s].res = session[s].res /\ session'[s].roles = session[s].roles
             /\ session[s].pc = "store" => session'[s].age = session[s].age + 1
             /\ session[s].age \in Nat
  <2> PICK r \in Seat : r = session[s]
    BY <1>2 DEF RightsTyped
  <2>1. r.age \in 0..LoadTicks
    BY DEF Seat
  <2>2. CASE r.pc # "store"
    <3>1. session'[s] = r
      BY <2>2 DEF AccessTick, At
    <3> QED
      BY <2>1, <2>2, <3>1, AccessTypes
  <2>3. CASE r.pc = "store"
    <3>1. session'[s] = [r EXCEPT !.age = r.age + 1] /\ r.age < LoadTicks
      BY <2>3 DEF AccessTick, At
    <3>2. r.age + 1 \in 0..LoadTicks
      BY <2>1, <3>1, AccessTypes
    <3>3. [r EXCEPT !.age = r.age + 1] \in Seat
      BY <3>2 DEF Seat
    <3>4. /\ [r EXCEPT !.age = r.age + 1].pc = r.pc /\ [r EXCEPT !.age = r.age + 1].who = r.who
          /\ [r EXCEPT !.age = r.age + 1].user = r.user /\ [r EXCEPT !.age = r.age + 1].res = r.res
          /\ [r EXCEPT !.age = r.age + 1].roles = r.roles
          /\ [r EXCEPT !.age = r.age + 1].age = r.age + 1
      BY DEF Seat
    <3> QED
      BY <2>1, <3>1, <3>3, <3>4, AccessTypes
  <2> QED
    BY <2>2, <2>3
<1>9. RightsTyped'
  <2>1. cache' \in [Users -> Entry] /\ tracked' \in [Users -> 0..PersistTTL]
    BY <1>7 DEF AccessTick
  <2>2. session' \in [Sessions -> Seat]
    BY <1>8 DEF AccessTick
  <2> QED
    BY <1>1, <1>2, <2>1, <2>2 DEF RightsTyped
<1>10. EntriesKnown'
  <2> SUFFICES ASSUME NEW u \in Users, NEW g \in Groups, NEW k \in 1..3,
                      cache'[u].left > 0, cache'[u].roles[g] >= k
               PROVE  since'[u][g][k] + cache'[u].left <= CacheTTL + LoadTicks
    BY DEF EntriesKnown
  <2>1. cache[u].left \in Nat /\ cache[u].left = cache'[u].left + 1 /\ cache'[u].left \in Nat
    BY <1>6, <1>7
  <2>2. since[u][g][k] + cache[u].left <= CacheTTL + LoadTicks
    BY <1>7, <2>1 DEF AccessInv, EntriesKnown
  <2>3. since'[u][g][k] <= since[u][g][k] + 1 /\ since[u][g][k] \in Nat /\ since'[u][g][k] \in Nat
    BY <1>3
  <2> QED
    BY ONLY <2>1, <2>2, <2>3, AccessTypes
<1>11. SeatsHold'
  <2> SUFFICES ASSUME NEW s \in Sessions PROVE Relied(session[s])'
    BY DEF SeatsHold
  <2>1. Relied(session[s])
    BY DEF AccessInv, SeatsHold
  <2>2. ASSUME session[s].pc = "store", NEW g \in Groups, NEW k \in 1..3, session[s].roles[g] >= k
        PROVE  since'[session[s].who][g][k] <= session[s].age + 1
    <3>1. session[s].who \in Users /\ session[s].age \in Nat
      BY <1>2, <1>8 DEF RightsTyped, Seat
    <3>2. since[session[s].who][g][k] <= session[s].age
      BY <2>1, <2>2 DEF Relied
    <3>3. /\ since'[session[s].who][g][k] <= since[session[s].who][g][k] + 1
          /\ since[session[s].who][g][k] \in Nat /\ since'[session[s].who][g][k] \in Nat
      BY <1>3, <3>1
    <3> QED
      BY ONLY <3>1, <3>2, <3>3
  <2>3. /\ session[s].pc \in {"clear", "remove"} =>
             overlapped' \/ \E a \in AdminsNow' : a # session[s].user
        /\ session[s].pc = "unplace" => made'[session[s].res] = "gone"
    BY <1>1, <1>5, <2>1 DEF Relied
  <2> QED
    BY <1>8, <2>2, <2>3 DEF Relied
<1>12. SyncRepopulates'
  <2> SUFFICES ASSUME NEW u \in Users, users[u].here, ~users[u].named, tracked'[u] > 0,
                      u \notin unsaved \union skipped
               PROVE  \/ \E t \in Sessions : At(t, "invalidate")' /\ session'[t].user = u
                      \/ \E t \in Sessions : At(t, "persist")' /\ session'[t].who = u
    BY <1>1 DEF SyncRepopulates, HeldBack
  <2>1. tracked[u] > 0
    BY <1>6, <1>7
  <2>2. \/ \E t \in Sessions : At(t, "invalidate") /\ session[t].user = u
        \/ \E t \in Sessions : At(t, "persist") /\ session[t].who = u
    BY <2>1 DEF AccessInv, SyncRepopulates, HeldBack
  <2> QED
    BY <1>8, <2>2 DEF At
<1>13. FillHolds'
  BY <1>1, <1>2, FillStays DEF RightsTyped
<1> QED
  BY <1>4, <1>5, <1>9, <1>10, <1>11, <1>12, <1>13 DEF AccessInv, AccessTyped

\* Whatever is asked, it is a call of one of the operations.
LEMMA CallMade ==
  ASSUME NEW s \in Sessions, Call(s)
  PROVE  \E who \in Users, user \in Users, group \in Groups, res \in Resources, op \in Asks,
            rank \in Ranks : Calls(s, op, who, user, group, res, rank)
<1>1. /\ AdminOnly \subseteq Asks /\ OfRes \subseteq Asks /\ Open \subseteq Asks
      /\ {"grant"} \subseteq Asks /\ "revoke" \in Asks /\ {"make", "rename", "ungroup"} \subseteq Asks
      /\ 0 \in Ranks /\ 1..3 \subseteq Ranks
  BY DEF Asks, OfGroup, Ranks
<1> QED
  BY <1>1 DEF Call

LEMMA CallKeeps ==
  ASSUME AccessInv, NEW s \in Sessions, Call(s)
  PROVE  AccessInv'
BY CallMade, CallsKeeps

LEMMA AccessStepKeeps ==
  ASSUME AccessInv, [AccessNext]_accessVars
  PROVE  AccessInv'
<1>1. CASE UNCHANGED accessVars
  BY <1>1, BackfillMove DEF accessVars, AccessInv, AccessTyped, RightsTyped, PlacesTyped,
     FillHolds, Here
<1>2. ASSUME NEW s \in Sessions, Call(s) PROVE AccessInv'
  BY <1>2, CallKeeps
<1>3. ASSUME NEW s \in Sessions, Handle(s) PROVE AccessInv'
  BY <1>3, PersistIdentityKeeps, IsAdminKeeps, FindPlaceKeeps, CachedRolesKeeps, LoadRolesKeeps,
     StoreRolesKeeps, CreateUserKeeps, PromoteKeeps, FindTargetKeeps, CountAdminsKeeps,
     ClearAdminKeeps, DeleteUserKeeps, ClearUsernameKeeps, InvalidateKeeps, SyncMeKeeps,
     CreateGroupKeeps, OwnGroupKeeps, DeleteGroupKeeps, AddMemberKeeps, RemoveMemberKeeps,
     CreateResourceKeeps, AssignGroupKeeps, DeleteResourceKeeps, DropPlaceKeeps, AnswerKeeps
  DEF Handle
<1>4. CASE Backfill \/ AccessRestart \/ AccessTick
  BY <1>4, BackfillKeeps, AccessRestartKeeps, AccessTickKeeps
<1> QED
  BY <1>1, <1>2, <1>3, <1>4 DEF AccessNext

LEMMA AccessInitHolds ==
  ASSUME AccessInit
  PROVE  AccessInv
<1>1. /\ users = [u \in Users |-> [here |-> TRUE, admin |-> u \in Admins, named |-> TRUE]]
      /\ groups \in [Groups -> {"new", "here"}]
      /\ member \in [Users -> [Groups -> {0, 3}]]
      /\ \A g \in Groups : Here(g) /\ g # Legacy <=> \E u \in Users : member[u][g] = 3
      /\ since = [u \in Users |-> [g \in Groups |-> [k \in 1..3 |->
                   IF member[u][g] >= k THEN 0 ELSE LongAgo]]]
  BY DEF AccessInit
<1>2. PeopleTyped
  <2>1. users \in [Users -> UserRow]
    BY <1>1 DEF UserRow
  <2>2. member \in [Users -> [Groups -> Ranks]] /\ groups \in [Groups -> {"new", "here", "gone"}]
    BY <1>1 DEF Ranks
  <2>3. since \in [Users -> Ticks]
    BY <1>1, <2>2, AccessTypes DEF Ticks, Ranks
  <2>4. \A u \in Users, g \in Groups : member[u][g] > 0 => users[u].here /\ Here(g)
    BY <1>1
  <2> QED
    BY <2>1, <2>2, <2>3, <2>4 DEF PeopleTyped
<1>3. RanksKnown
  BY <1>1 DEF RanksKnown
<1>4. PlacesTyped
  <2>1. made \in [Resources -> {"new", "made", "gone"}]
    BY DEF AccessInit
  <2>2. place \in [Resources -> {{}} \union {{g} : g \in {h \in Groups : Here(h)}}]
    BY DEF AccessInit
  <2> QED
    BY <2>1, <2>2 DEF PlacesTyped
<1>9. /\ cache = [u \in Users |-> Uncached] /\ tracked = [u \in Users |-> 0]
      /\ session = [s \in Sessions |-> NoSession] /\ fill = NoFill /\ overlapped = FALSE
  BY DEF AccessInit
<1>5. RightsTyped
  <2>1. cache \in [Users -> Entry]
    BY <1>9, AccessTypes
  <2>2. tracked \in [Users -> 0..PersistTTL]
    BY <1>9, AccessTypes
  <2>3. session \in [Sessions -> Seat]
    BY <1>9, AccessTypes
  <2> QED
    BY <1>9, <2>1, <2>2, <2>3, AccessTypes DEF RightsTyped
<1>6. EntriesKnown /\ SyncRepopulates /\ FillHolds
  BY AccessTypes DEF AccessInit, EntriesKnown, SyncRepopulates, HeldBack, FillHolds
<1>7. SeatsHold
  BY AccessTypes DEF AccessInit, SeatsHold, Relied
<1>8. AdminRemains
  BY <1>1, AccessAssumption DEF AdminRemains, AdminsNow
<1> QED
  BY <1>2, <1>3, <1>4, <1>5, <1>6, <1>7, <1>8 DEF AccessInv, AccessTyped


LEMMA OthersRest ==
  ASSUME AccessInv, NEW s \in Sessions, NEW t \in Sessions, s # t, Call(t) \/ Handle(t)
  PROVE  session'[s] = session[s]
<1>1. session \in [Sessions -> Seat]
  BY DEF AccessInv, AccessTyped, RightsTyped
<1>2. \A q : session' = [session EXCEPT ![t] = q] => session'[s] = session[s]
  BY <1>1
<1>3. \A pc : Goes(t, pc) => session'[s] = session[s]
  BY <1>1 DEF Goes
<1>4. Answers(t) => session'[s] = session[s]
  BY <1>1 DEF Answers
<1>5. \A roles : Decides(t, roles) => session'[s] = session[s]
  BY <1>3, <1>4 DEF Decides
<1>6. CASE Call(t)
  <2>1. PICK who \in Users, user \in Users, group \in Groups, res \in Resources, op \in Asks,
            rank \in Ranks : Calls(t, op, who, user, group, res, rank)
    BY <1>6, CallMade
  <2>2. \E q : session' = [session EXCEPT ![t] = q]
    BY <2>1, Zenon DEF Calls
  <2> QED
    BY <1>2, <2>2
<1>7. CASE IsAdmin(t) \/ PersistIdentity(t)
  <2>1. PersistIdentity(t) => session' = [session EXCEPT ![t].pc = "gate", ![t].brings = "name"]
    BY DEF PersistIdentity
  <2>2. PersistIdentity(t) => session'[s] = session[s]
    BY <1>1, <2>1
  <2> QED
    BY <1>3, <1>4, <1>7, <2>2 DEF IsAdmin
<1>8. CASE CachedRoles(t) \/ StoreRoles(t)
  BY <1>3, <1>5, <1>8 DEF CachedRoles, StoreRoles
<1>9. CASE FindPlace(t) \/ LoadRoles(t) \/ CreateGroup(t) \/ CreateResource(t)
  BY <1>1, <1>4, <1>9 DEF FindPlace, LoadRoles, CreateGroup, CreateResource
<1>10. CASE FindTarget(t) \/ CountAdmins(t) \/ ClearUsername(t) \/ DeleteResource(t)
  BY <1>3, <1>4, <1>10 DEF FindTarget, CountAdmins, ClearUsername, DeleteResource
<1>11. CASE \/ CreateUser(t) \/ Promote(t) \/ ClearAdmin(t) \/ DeleteUser(t) \/ Invalidate(t)
           \/ SyncMe(t) \/ OwnGroup(t) \/ DeleteGroup(t) \/ AddMember(t) \/ RemoveMember(t)
           \/ AssignGroup(t) \/ DropPlace(t) \/ Answer(t)
  BY <1>4, <1>11 DEF CreateUser, Promote, ClearAdmin, DeleteUser, Invalidate, SyncMe, OwnGroup,
     DeleteGroup, AddMember, RemoveMember, AssignGroup, DropPlace, Answer
<1> QED
  BY <1>6, <1>7, <1>8, <1>9, <1>10, <1>11 DEF Handle

\* Only the two steps that decide take a request past a gate of a group, and both go
\* by roles the caller held no longer ago than a cached entry lives and a load takes.
LEMMA PassesExpire ==
  ASSUME AccessInv, AccessNext, NEW s \in Sessions, Passes(s)
  PROVE  since[session[s].who][session[s].group][Needs(session[s].op)] <= CacheTTL + LoadTicks
<1>1. PICK r \in Seat : r = session[s] /\ Relied(r)
  BY DEF AccessInv, AccessTyped, RightsTyped, SeatsHold
<1>2. /\ r.who \in Users /\ r.group \in Groups /\ r.op \in Asks
      /\ Needs(r.op) \in 1..3 /\ Body(r.op) \notin Passive
  BY BodyTypes DEF Seat
<1>3. r.pc \in {"cached", "store"} /\ session'[s].pc = Body(r.op)
  BY <1>1 DEF Passes
<1>4. session'[s].pc \notin Passive /\ r.pc \in Passive
  BY <1>2, <1>3 DEF Passive
<1>5. since[r.who][r.group][Needs(r.op)] \in Nat
  BY <1>2, AccessTypes DEF AccessInv, AccessTyped, PeopleTyped, Ticks
<1>6. session \in [Sessions -> Seat]
  BY DEF AccessInv, AccessTyped, RightsTyped
<1>7. ~(session'[s].pc = r.pc) /\ session'[s] # NoSession /\ session'[s].pc # "load"
  BY <1>4, AccessTypes DEF Passive
<1>8. ~Backfill /\ ~AccessRestart /\ ~AccessTick
  <2>1. ~Backfill
    BY <1>1, <1>7
       DEF Backfill, FillList, FillGet, FillSet, FillDone, FillFails, StillFill
  <2>2. ~AccessRestart
    BY <1>7 DEF AccessRestart
  <2>3. ~AccessTick
    <3>1. AccessTick => session'[s].pc = r.pc
      BY <1>1 DEF AccessTick, Seat
    <3> QED
      BY <1>7, <3>1
  <2> QED
    BY <2>1, <2>2, <2>3
<1>9. PICK t \in Sessions : Call(t) \/ Handle(t)
  BY <1>8 DEF AccessNext
<1>10. t = s
  BY <1>1, <1>7, <1>9, OthersRest
<1>11. CachedRoles(s) \/ StoreRoles(s)
  <2>1. ~Call(s)
    <3>1. ~At(s, "idle")
      BY <1>1, <1>3 DEF At
    <3>2. Call(s) => At(s, "idle")
      <4>1. ASSUME NEW op, NEW who, NEW user, NEW group, NEW res, NEW rank,
                   Calls(s, op, who, user, group, res, rank)
            PROVE  At(s, "idle")
        BY <4>1 DEF Calls
      <4> QED
        BY <4>1, CallMade
    <3> QED
      BY <3>1, <3>2
  <2>2. ~LoadRoles(s)
    <3>1. ASSUME LoadRoles(s) PROVE FALSE
      <4>1. r.pc = "load"
        BY <1>1, <3>1 DEF LoadRoles, At
      <4> QED
        BY <1>3, <4>1
    <3> QED
      BY <3>1
  <2> QED
    BY <1>1, <1>3, <1>9, <1>10, <2>1, <2>2
       DEF Handle, PersistIdentity, IsAdmin, FindPlace, CreateUser, Promote, FindTarget,
           CountAdmins, ClearAdmin, DeleteUser, ClearUsername, Invalidate, SyncMe, CreateGroup,
           OwnGroup, DeleteGroup, AddMember, RemoveMember, CreateResource, AssignGroup,
           DeleteResource, DropPlace, Answer, At
<1>12. CASE StoreRoles(s)
  <2>1. r.pc = "store" /\ Decides(s, r.roles)
    BY <1>1, <1>12 DEF StoreRoles, At
  <2>2. r.roles[r.group] >= Needs(r.op)
    BY <1>1, <1>6, <1>7, <2>1 DEF Decides, Answers
  <2>3. since[r.who][r.group][Needs(r.op)] <= r.age /\ r.age \in 0..LoadTicks
    BY <1>1, <1>2, <2>1, <2>2 DEF Relied, Seat
  <2> QED
    BY <1>1, <1>5, <2>3, AccessTypes
<1>13. CASE CachedRoles(s)
  <2>1. PICK e \in Entry : e = cache[r.who]
    BY <1>2 DEF AccessInv, AccessTyped, RightsTyped
  <2>2. e.left > 0 /\ Decides(s, e.roles)
    <3>1. e.left > 0 \/ Goes(s, "load")
      BY <1>1, <1>13, <2>1 DEF CachedRoles
    <3>2. ~Goes(s, "load")
      BY <1>1, <1>6, <1>7 DEF Goes, Seat
    <3> QED
      BY <1>1, <1>13, <2>1, <3>1, <3>2 DEF CachedRoles
  <2>3. e.roles[r.group] >= Needs(r.op)
    BY <1>1, <1>6, <1>7, <2>2 DEF Decides, Answers
  <2>4. since[r.who][r.group][Needs(r.op)] + e.left <= CacheTTL + LoadTicks
    BY <1>2, <2>1, <2>2, <2>3 DEF AccessInv, EntriesKnown
  <2>5. e.left \in Nat
    BY AccessTypes DEF Entry
  <2> QED
    BY <1>1, <1>5, <2>2, <2>4, <2>5, AccessTypes
<1> QED
  BY <1>11, <1>12, <1>13

LEMMA AccessTypedHolds ==
  ASSUME AccessInv
  PROVE  AccessTypeOK /\ BackfillHeals
<1>1. PeopleTyped /\ PlacesTyped /\ RightsTyped
  BY DEF AccessInv, AccessTyped
<1>2. ASSUME NEW r \in Resources
      PROVE  Cardinality(place[r]) <= 1 /\ \A g \in place[r] : Here(g)
  <2>1. CASE place[r] = {}
    <3>1. Cardinality(place[r]) = 0
      BY <2>1, FS_EmptySet
    <3> QED
      BY <2>1, <3>1
  <2>2. CASE place[r] # {}
    <3> PICK g \in Groups : place[r] = {g} /\ Here(g)
      BY <1>1, <2>2 DEF PlacesTyped
    <3>1. Cardinality(place[r]) = 1
      BY FS_Singleton
    <3> QED
      BY <3>1
  <2> QED
    BY <2>1, <2>2
<1>3. ASSUME NEW u \in Users PROVE cache[u].left <= CacheTTL /\ tracked[u] <= PersistTTL
  <2>1. cache[u] \in Entry /\ tracked[u] \in 0..PersistTTL
    BY <1>1 DEF RightsTyped
  <2>2. cache[u].left \in 0..CacheTTL
    BY <2>1 DEF Entry
  <2> QED
    BY <2>1, <2>2, AccessTypes
<1>4. AccessTypeOK
  <2>1. /\ users \in [Users -> [here : BOOLEAN, admin : BOOLEAN, named : BOOLEAN]]
        /\ groups \in [Groups -> {"new", "here", "gone"}] /\ made \in [Resources -> {"new", "made", "gone"}]
        /\ member \in [Users -> [Groups -> Ranks]]
        /\ \A u \in Users, g \in Groups : member[u][g] > 0 => users[u].here /\ Here(g)
    BY <1>1 DEF PeopleTyped, PlacesTyped, UserRow
  <2> QED
    BY <1>2, <1>3, <2>1 DEF AccessTypeOK
<1>5. BackfillHeals
  BY DEF AccessInv, FillHolds, BackfillHeals
<1> QED
  BY <1>4, <1>5



(***************************************************************************)
(* Personas.                                                               *)
(***************************************************************************)
PersonaRow == [status : {"unused", "live", "deleted"}, owned : BOOLEAN, texts : Seq(Texts)]
Rendering  == {"get", "createMap", "putMap"}
Writing    == {"lock", "commit", "reread"} \union Rendering
PersonaAsk ==
  [pc : {"idle", "list", "link", "undo", "deleteRow", "deleteMap", "unlist", "owned", "putAgent",
         "cleanup"} \union Writing,
   kind : {"none", "create", "update", "rollback", "delete", "put", "repoint", "deleteAgent"},
   p : PersonaIds, text : SUBSET Texts, seen : Nat, made : BOOLEAN, alone : BOOLEAN, tidy : BOOLEAN]

RowsTyped ==
  /\ persona \in [PersonaIds -> PersonaRow]
  /\ rendered \in [PersonaIds -> Nat]
  /\ \A p \in PersonaIds :
       /\ There(p) <=> persona[p].texts # <<>>
       /\ persona[p].status = "unused" => rendered[p] = 0
       /\ There(p) => rendered[p] <= Version(p)
  /\ persona[Template].status # "unused"
RestTyped ==
  /\ listed \subseteq PersonaIds
  /\ holder \in [PersonaIds -> SUBSET Clients]
  /\ \A p \in PersonaIds : \A c \in holder[p] : holder[p] = {c}
  /\ agent \in [there : BOOLEAN, ref : PersonaIds]
  /\ personaEdits \in 0..MaxPersonaEdits /\ personaFaults \in 0..MaxPersonaFaults

\* What a request is at fits what it is for, and the version it is to render has been.
Sane(q) ==
  /\ persona[q.p].status # "unused"
  /\ q.pc \in Rendering /\ There(q.p) => q.seen <= Version(q.p)
  /\ q.pc \in Writing => q.kind \in {"create", "update", "rollback", "put"}
  /\ q.pc = "list" => q.kind = "create"
  /\ q.pc \in {"owned", "link"} => q.kind = "put"
  /\ q.pc = "unlist" => q.kind = "delete"
  /\ q.pc = "putAgent" => q.kind = "repoint"
  /\ q.pc = "cleanup" => q.kind \in {"repoint", "deleteAgent"}
  /\ q.pc \in {"deleteRow", "deleteMap"} => q.kind \in {"delete", "repoint", "deleteAgent"}

\* One that has been alone finds what it left.
Lonely(q) ==
  q.alone =>
    /\ q.pc = "commit" => There(q.p)
    /\ q.pc \in Rendering => There(q.p) /\ q.seen = Version(q.p)
    /\ q.pc \in {"list", "link"} => Exact(q.p)
    /\ q.pc = "deleteMap" => ~There(q.p)
    /\ q.pc = "unlist" => ~There(q.p) /\ rendered[q.p] = 0
    /\ q.kind = "put" => agent.there

AtMostOne == \A p, r \in Owned : p = r

\* With at most one owned persona at its start it knows which are owned.
Tidy(q) ==
  q.alone /\ q.tidy =>
    /\ q.kind = "put" /\ q.pc \in Writing \union {"link"} => Owned = {q.p}
    /\ q.pc \in {"owned", "putAgent", "cleanup"} => AtMostOne
    /\ q.kind = "repoint" /\ q.pc = "cleanup" => agent.ref = q.p
    /\ q.kind \in {"repoint", "deleteAgent"} /\ q.pc = "deleteRow" => Owned = {q.p}
    /\ q.kind \in {"repoint", "deleteAgent"} /\ q.pc = "deleteMap" => Owned = {}

Apart == \A c \in Clients : request[c].alone => AllIdleBut(c)
LastStands == outcome # {} => \A c \in Clients : request[c].pc = "idle"

\* A transaction in progress holds its row, and the row stays.
Locked == \A c \in Clients :
  request[c].pc = "commit" => holder[request[c].p] = {c} /\ There(request[c].p)

PersonaInv ==
  /\ RowsTyped /\ RestTyped /\ request \in [Clients -> PersonaAsk]
  /\ \A c \in Clients : Sane(request[c]) /\ Lonely(request[c]) /\ Tidy(request[c])
  /\ Locked /\ Apart /\ LastStands
  /\ PersonaRendered /\ OwnedReclaimed

LEMMA PersonaTypes ==
  /\ Template \in PersonaIds /\ IsFiniteSet(PersonaIds) /\ Texts # {}
  /\ NoRequest \in PersonaAsk /\ NoRequest.pc = "idle" /\ NoRequest.alone = FALSE
  /\ NoRequest.p = Template
  /\ Unused \in PersonaRow /\ Unused.status = "unused" /\ Unused.texts = <<>>
  /\ Deleted \in PersonaRow /\ Deleted.status = "deleted" /\ Deleted.texts = <<>>
<1>1. <<>> \in Seq(Texts)
  OBVIOUS
<1>2. Unused \in PersonaRow /\ Unused.status = "unused" /\ Unused.texts = <<>>
  BY <1>1 DEF Unused, PersonaRow
<1>3. Deleted \in PersonaRow /\ Deleted.status = "deleted" /\ Deleted.texts = <<>>
  BY <1>2 DEF Deleted, PersonaRow
<1>4. NoRequest \in PersonaAsk /\ NoRequest.pc = "idle" /\ NoRequest.alone = FALSE
      /\ NoRequest.p = Template
  BY PersonasAssumption DEF NoRequest, PersonaAsk
<1> QED
  BY <1>2, <1>3, <1>4, PersonasAssumption

LEMMA OwnedCount ==
  (Cardinality(Owned) <= 1) => AtMostOne
<1>1. IsFiniteSet(Owned)
  BY PersonaTypes, FS_Subset DEF Owned
<1> SUFFICES ASSUME Cardinality(Owned) <= 1, NEW p \in Owned, NEW r \in Owned, p # r PROVE FALSE
  BY DEF AtMostOne
<1>2. Cardinality({p, r}) = 2
  <2>1. IsFiniteSet({p}) /\ Cardinality({p}) = 1
    BY FS_Singleton
  <2>2. Cardinality({p} \union {r}) = 2
    BY <2>1, FS_AddElement
  <2>3. {p, r} = {p} \union {r}
    OBVIOUS
  <2> QED
    BY <2>2, <2>3
<1>3. {p, r} \subseteq Owned
  OBVIOUS
<1>4. Cardinality({p, r}) <= Cardinality(Owned)
  BY <1>1, <1>3, FS_Subset
<1>5. Cardinality(Owned) \in Nat
  BY <1>1, FS_CardinalityType
<1> QED
  BY <1>2, <1>4, <1>5

\* Rows are made once, versions come and go with them.
Grows == \A p \in PersonaIds :
  persona[p].status # "unused" =>
    /\ persona'[p].status # "unused"
    /\ There(p)' => There(p) /\ Version(p) <= Version(p)'

LEMMA SaneStays ==
  ASSUME RowsTyped, RowsTyped', Grows, NEW q \in PersonaAsk, Sane(q)
  PROVE  Sane(q)'
<1>1. q.p \in PersonaIds /\ q.seen \in Nat
  BY DEF PersonaAsk
<1>2. persona'[q.p].status # "unused"
  BY <1>1 DEF Grows, Sane
<1>3. ASSUME q.pc \in Rendering, There(q.p)' PROVE q.seen <= Version(q.p)'
  <2>1. There(q.p) /\ Version(q.p) <= Version(q.p)'
    BY <1>1, <1>3 DEF Grows, Sane
  <2>2. q.seen <= Version(q.p)
    BY <1>3, <2>1 DEF Sane
  <2>3. Version(q.p) \in Nat /\ Version(q.p)' \in Nat
    BY <1>1 DEF RowsTyped, PersonaRow, Version
  <2> QED
    BY ONLY <1>1, <2>1, <2>2, <2>3
<1> QED
  BY <1>2, <1>3 DEF Sane

\* What others have locked stays locked, and there.
LocksKept(c) == \A d \in Clients \ {c}, p \in PersonaIds :
  holder[p] = {d} /\ There(p) => holder'[p] = {d} /\ There(p)'

\* Every step of a request that is under way.
LEMMA UnderWay ==
  ASSUME PersonaInv, NEW c \in Clients, request[c].pc # "idle", NEW q \in PersonaAsk,
         request' = [request EXCEPT ![c] = q], RowsTyped', RestTyped', Grows, LocksKept(c),
         q.pc = "commit" => holder'[q.p] = {c} /\ There(q.p)',
         Sane(q)', Lonely(q)', Tidy(q)', q.alone => request[c].alone,
         outcome' = {} \/ (request[c].alone /\ q.pc = "idle" /\ PersonaRendered' /\ OwnedReclaimed')
  PROVE  PersonaInv'
<1>1. request \in [Clients -> PersonaAsk]
  BY DEF PersonaInv
<1>2. request' \in [Clients -> PersonaAsk] /\ request'[c] = q
      /\ \A d \in Clients \ {c} : request'[d] = request[d]
  BY <1>1
<1>3. \A d \in Clients \ {c} : ~request[d].alone
  BY DEF PersonaInv, Apart, AllIdleBut
<1>4. ASSUME NEW d \in Clients PROVE Sane(request[d])' /\ Lonely(request[d])' /\ Tidy(request[d])'
  <2>1. CASE d = c
    <3>1. request'[d] = q
      BY <1>2, <2>1
    <3> QED
      BY <3>1 DEF Sane, Lonely, Tidy
  <2>2. CASE d # c
    <3> PICK r \in PersonaAsk : r = request[d] /\ r = request'[d] /\ Sane(r) /\ ~r.alone
      BY <1>1, <1>2, <1>3, <2>2 DEF PersonaInv
    <3>1. Sane(r)'
      BY SaneStays DEF PersonaInv
    <3> QED
      BY <3>1 DEF Sane, Lonely, Tidy
  <2> QED
    BY <2>1, <2>2
<1>5. Apart'
  BY <1>2, <1>3 DEF PersonaInv, Apart, AllIdleBut
<1>7. Locked'
  <2> SUFFICES ASSUME NEW d \in Clients, request'[d].pc = "commit"
               PROVE  (holder[request[d].p] = {d} /\ There(request[d].p))'
    BY DEF Locked
  <2>1. CASE d = c
    <3>1. request'[d] = q
      BY <1>2, <2>1
    <3> QED
      BY <2>1, <3>1 DEF There
  <2>2. CASE d # c
    <3> PICK r \in PersonaAsk : r = request[d] /\ r = request'[d]
      BY <1>1, <1>2, <2>2
    <3>1. r.p \in PersonaIds /\ r.pc = "commit"
      BY DEF PersonaAsk
    <3>2. holder[r.p] = {d} /\ There(r.p)
      BY <3>1 DEF PersonaInv, Locked
    <3>3. holder'[r.p] = {d} /\ There(r.p)'
      BY <2>2, <3>1, <3>2 DEF LocksKept
    <3> QED
      BY <3>3 DEF There
  <2> QED
    BY <2>1, <2>2
<1>6. LastStands' /\ PersonaRendered' /\ OwnedReclaimed'
  <2>1. CASE outcome' = {}
    BY <2>1 DEF LastStands, PersonaRendered, OwnedReclaimed
  <2>2. CASE request[c].alone /\ q.pc = "idle" /\ PersonaRendered' /\ OwnedReclaimed'
    BY <1>2, <2>2 DEF PersonaInv, Apart, AllIdleBut, LastStands
  <2> QED
    BY <2>1, <2>2
<1> QED
  BY <1>2, <1>4, <1>5, <1>6, <1>7 DEF PersonaInv

LEMMA GrowsAlike ==
  ASSUME RowsTyped, UNCHANGED persona
  PROVE  Grows
<1>1. \A p \in PersonaIds : Version(p) \in Nat
  BY DEF RowsTyped, PersonaRow, Version
<1> QED
  BY <1>1 DEF Grows, There, Version

\* Until a request is over it leaves no outcome.
LEMMA NoOutcome ==
  ASSUME PersonaInv, NEW c \in Clients, request[c].pc # "idle"
  PROVE  outcome = {}
BY DEF PersonaInv, LastStands

\* A request that fails leaves no outcome, whatever became of the rows.
LEMMA EndsBadly ==
  ASSUME PersonaInv, NEW c \in Clients, request[c].pc # "idle", Ends(c, FALSE),
         RowsTyped', RestTyped', Grows, LocksKept(c)
  PROVE  PersonaInv'
<1>1. request' = [request EXCEPT ![c] = NoRequest] /\ outcome' = {}
  BY DEF Ends, Replies
<1>2. Sane(NoRequest)' /\ Lonely(NoRequest)' /\ Tidy(NoRequest)'
  BY PersonaTypes DEF Sane, Lonely, Tidy, RowsTyped, Rendering, Writing
<1> QED
  BY <1>1, <1>2, PersonaTypes, UnderWay

\* One that succeeds tells of itself whether it cleaned up what it had to.
LEMMA RepliesWell ==
  ASSUME PersonaInv, NEW c \in Clients, NEW r \in PersonaAsk, r = request[c], r.pc # "idle",
         NEW cleaned \in BOOLEAN, Replies(c, TRUE, cleaned), RowsTyped', RestTyped', Grows, LocksKept(c),
         r.alone /\ r.kind \in {"create", "update", "rollback", "delete", "put"} => Exact(r.p)',
         r.alone /\ r.tidy =>
           /\ r.kind = "put" => agent'.there /\ Owned' = {agent'.ref}
           /\ r.kind = "repoint" /\ cleaned => Owned' \subseteq {agent'.ref}
           /\ r.kind = "deleteAgent" /\ cleaned => Owned' = {}
  PROVE  PersonaInv'
<1>1. /\ request' = [request EXCEPT ![c] = NoRequest]
      /\ outcome' = IF r.alone THEN {[kind |-> r.kind, p |-> r.p, tidy |-> r.tidy,
                                      cleaned |-> cleaned]} ELSE {}
  BY DEF Replies
<1>2. Sane(NoRequest)' /\ Lonely(NoRequest)' /\ Tidy(NoRequest)'
  BY PersonaTypes DEF Sane, Lonely, Tidy, RowsTyped, Rendering, Writing
<1>3. CASE ~r.alone
  BY <1>1, <1>2, <1>3, PersonaTypes, UnderWay
<1>4. CASE r.alone
  <2>1. \A last \in outcome' : last.kind = r.kind /\ last.p = r.p /\ last.tidy = r.tidy
                               /\ last.cleaned = cleaned
    <3>1. outcome' = {[kind |-> r.kind, p |-> r.p, tidy |-> r.tidy, cleaned |-> cleaned]}
      BY ONLY <1>1, <1>4
    <3> QED
      BY ONLY <3>1
  <2>2. r.kind \in {"create", "update", "rollback", "delete", "put"} => Exact(r.p)'
    BY <1>4
  <2>3. r.tidy =>
           /\ r.kind = "put" => agent'.there /\ Owned' = {agent'.ref}
           /\ r.kind = "repoint" /\ cleaned => Owned' \subseteq {agent'.ref}
           /\ r.kind = "deleteAgent" /\ cleaned => Owned' = {}
    BY <1>4
  <2>4. PersonaRendered'
    BY <2>1, <2>2 DEF PersonaRendered, Exact
  <2>5. OwnedReclaimed'
    BY <2>1, <2>3 DEF OwnedReclaimed
  <2> QED
    BY <1>1, <1>2, <1>4, <2>4, <2>5, PersonaTypes, UnderWay
<1> QED
  BY <1>3, <1>4

LEMMA EndsWell ==
  ASSUME PersonaInv, NEW c \in Clients, NEW r \in PersonaAsk, r = request[c], r.pc # "idle",
         Ends(c, TRUE), RowsTyped', RestTyped', Grows, LocksKept(c),
         r.alone /\ r.kind \in {"create", "update", "rollback", "delete", "put"} => Exact(r.p)',
         r.alone /\ r.tidy =>
           /\ r.kind = "put" => agent'.there /\ Owned' = {agent'.ref}
           /\ r.kind = "repoint" => Owned' \subseteq {agent'.ref}
           /\ r.kind = "deleteAgent" => Owned' = {}
  PROVE  PersonaInv'
<1>1. Replies(c, TRUE, TRUE)
  BY DEF Ends
<1> QED
  BY <1>1, RepliesWell

\* A cleanup that fails is only logged; a library delete that fails is answered so.
LEMMA DeletesBadly ==
  ASSUME PersonaInv, NEW c \in Clients, NEW r \in PersonaAsk, r = request[c], r.pc # "idle",
         DeleteFailed(c), RowsTyped', RestTyped', Grows, LocksKept(c)
  PROVE  PersonaInv'
<1>1. CASE r.kind \in {"repoint", "deleteAgent"}
  <2>1. Replies(c, TRUE, FALSE)
    BY <1>1 DEF DeleteFailed, CleansUp, Replies
  <2>2. r.kind \notin {"create", "update", "rollback", "delete", "put"}
    BY <1>1
  <2> QED
    BY <2>1, <2>2, RepliesWell
<1>2. CASE r.kind \notin {"repoint", "deleteAgent"}
  <2>1. Ends(c, FALSE)
    BY <1>2 DEF DeleteFailed, CleansUp, Replies, Ends
  <2> QED
    BY <2>1, EndsBadly
<1> QED
  BY <1>1, <1>2

LEMMA PersonaHeld ==
  ASSUME PersonaInv, NEW c \in Clients
  PROVE  \E q \in PersonaAsk :
           /\ q = request[c] /\ q.p \in PersonaIds /\ q.text \subseteq Texts /\ q.seen \in Nat
           /\ Sane(q) /\ Lonely(q) /\ Tidy(q)
           /\ q.pc = "commit" => holder[q.p] = {c} /\ There(q.p)
<1> PICK q \in PersonaAsk : q = request[c]
  BY DEF PersonaInv
<1>1. q.p \in PersonaIds /\ q.text \subseteq Texts /\ q.seen \in Nat
  BY DEF PersonaAsk
<1>2. Sane(q) /\ Lonely(q) /\ Tidy(q)
  BY DEF PersonaInv
<1>3. q.pc = "commit" => holder[q.p] = {c} /\ There(q.p)
  BY DEF PersonaInv, Locked
<1> QED
  BY <1>1, <1>2, <1>3

LEMMA FaultCount ==
  ASSUME RestTyped, Works \/ Fails
  PROVE  personaFaults' \in 0..MaxPersonaFaults
BY PersonasAssumption DEF RestTyped, Works, Fails

LEMMA RowsAlike ==
  ASSUME RowsTyped, UNCHANGED <<persona, rendered>>
  PROVE  /\ RowsTyped' /\ Grows /\ Owned' = Owned
         /\ \A p \in PersonaIds : /\ There(p)' = There(p) /\ Version(p)' = Version(p)
                                  /\ Exact(p)' = Exact(p)
<1>1. \A p \in PersonaIds : There(p)' = There(p) /\ Version(p)' = Version(p)
  BY DEF There, Version
<1>2. RowsTyped'
  BY <1>1 DEF RowsTyped, There, Version
<1>3. Owned' = Owned
  BY DEF Owned, There
<1> QED
  BY <1>1, <1>2, <1>3, GrowsAlike DEF Exact

\* A ConfigMap is written with a version its persona has had.
LEMMA RowsRendered ==
  ASSUME RowsTyped, UNCHANGED persona, NEW p \in PersonaIds, NEW n \in Nat,
         persona[p].status # "unused", There(p) => n <= Version(p),
         rendered' = [rendered EXCEPT ![p] = n]
  PROVE  /\ RowsTyped' /\ Grows /\ Owned' = Owned /\ rendered'[p] = n
         /\ \A r \in PersonaIds : There(r)' = There(r) /\ Version(r)' = Version(r)
         /\ Exact(p)' = (n = IF There(p) THEN Version(p) ELSE 0)
<1>1. \A r \in PersonaIds : There(r)' = There(r) /\ Version(r)' = Version(r)
  BY DEF There, Version
<1>2. /\ rendered' \in [PersonaIds -> Nat] /\ rendered'[p] = n
      /\ \A r \in PersonaIds : rendered'[r] = IF r = p THEN n ELSE rendered[r]
  BY DEF RowsTyped
<1>3. RowsTyped'
  BY <1>1, <1>2 DEF RowsTyped, There, Version
<1>4. Owned' = Owned
  BY DEF Owned, There
<1> QED
  BY <1>1, <1>2, <1>3, <1>4, GrowsAlike DEF Exact

\* A row gets another value that is alive if it was, with as many versions or more.
LEMMA RowsChanged ==
  ASSUME RowsTyped, UNCHANGED rendered, NEW p \in PersonaIds, NEW row \in PersonaRow,
         persona' = [persona EXCEPT ![p] = row], row.status # "unused",
         row.status = "live" <=> row.texts # <<>>,
         row.status = "live" => rendered[p] <= Len(row.texts),
         persona[p].status # "unused" /\ row.status = "live" =>
           There(p) /\ Version(p) <= Len(row.texts)
  PROVE  /\ RowsTyped' /\ Grows /\ persona'[p] = row
         /\ \A r \in PersonaIds : r # p => persona'[r] = persona[r]
<1>1. /\ persona' \in [PersonaIds -> PersonaRow] /\ persona'[p] = row
      /\ \A r \in PersonaIds : r # p => persona'[r] = persona[r]
  BY DEF RowsTyped
<1>2. persona'[Template].status # "unused"
  BY <1>1, PersonaTypes DEF RowsTyped
<1>3. ASSUME NEW r \in PersonaIds
      PROVE  /\ There(r)' <=> persona'[r].texts # <<>>
             /\ persona'[r].status = "unused" => rendered'[r] = 0
             /\ There(r)' => rendered'[r] <= Version(r)'
  <2>1. CASE r = p
    BY <1>1, <2>1 DEF There, Version
  <2>2. CASE r # p
    <3>1. persona'[r] = persona[r]
      BY <1>1, <2>2
    <3> QED
      BY <3>1 DEF RowsTyped, There, Version
  <2> QED
    BY <2>1, <2>2
<1>4. RowsTyped'
  <2>1. rendered' \in [PersonaIds -> Nat]
    BY DEF RowsTyped
  <2> QED
    BY <1>1, <1>2, <1>3, <2>1 DEF RowsTyped
<1>5. ASSUME NEW r \in PersonaIds, persona[r].status # "unused"
      PROVE  persona'[r].status # "unused" /\ (There(r)' => There(r) /\ Version(r) <= Version(r)')
  <2>1. CASE r = p
    BY <1>1, <1>5, <2>1 DEF There, Version
  <2>2. CASE r # p
    <3>1. persona'[r] = persona[r] /\ Version(r) \in Nat
      BY <1>1, <2>2 DEF RowsTyped, PersonaRow, Version
    <3> QED
      BY <1>5, <3>1 DEF There, Version
  <2> QED
    BY <2>1, <2>2
<1>6. Grows
  BY <1>5 DEF Grows
<1> QED
  BY <1>1, <1>4, <1>6

LEMMA RowInserted ==
  ASSUME RowsTyped, UNCHANGED rendered, NEW p \in PersonaIds, NEW text \in Texts,
         NEW owned \in BOOLEAN, InsertPersona(p, owned, text)
  PROVE  /\ RowsTyped' /\ Grows /\ persona[p].status = "unused"
         /\ There(p)' /\ Version(p)' = 1 /\ persona'[p].owned = owned
         /\ \A r \in PersonaIds : r # p => persona'[r] = persona[r]
<1> DEFINE row == [status |-> "live", owned |-> owned, texts |-> <<text>>]
<1>1. row \in PersonaRow /\ row.status = "live" /\ row.texts = <<text>> /\ row.owned = owned
  BY DEF PersonaRow
<1>2. row.texts # <<>> /\ Len(row.texts) = 1
  BY <1>1
<1>3. persona[p] = Unused /\ persona' = [persona EXCEPT ![p] = row]
  BY DEF InsertPersona
<1>4. persona[p].status = "unused" /\ rendered[p] = 0
  BY <1>3, PersonaTypes DEF RowsTyped
<1> HIDE DEF row
<1>6. row.status # "unused" /\ (row.status = "live" <=> row.texts # <<>>)
      /\ rendered[p] <= Len(row.texts)
  BY <1>1, <1>2, <1>4
<1>5. /\ RowsTyped' /\ Grows /\ persona'[p] = row
      /\ \A r \in PersonaIds : r # p => persona'[r] = persona[r]
  BY <1>1, <1>3, <1>4, <1>6, RowsChanged
<1> QED
  BY <1>1, <1>2, <1>4, <1>5 DEF There, Version

\* A version is added, or none.
LEMMA RowAppended ==
  ASSUME RowsTyped, UNCHANGED rendered, NEW p \in PersonaIds, NEW text \in Texts, There(p),
         AppendCopy(p, text) \/ AppendIfNew(p, text)
  PROVE  /\ RowsTyped' /\ Grows /\ There(p)' /\ Owned' = Owned /\ Version(p)' \in Nat
         /\ Len(persona'[p].texts) = Version(p)'
         /\ \A r \in PersonaIds : There(r)' = There(r)
<1> PICK row0 \in PersonaRow : row0 = persona[p]
  BY DEF RowsTyped
<1>1. /\ row0.status = "live" /\ row0.texts \in Seq(Texts) /\ row0.texts # <<>>
      /\ rendered[p] <= Len(row0.texts) /\ rendered[p] \in Nat
  BY DEF RowsTyped, There, Version, PersonaRow
<1>2. \E new \in Seq(Texts) : /\ persona' = [persona EXCEPT ![p] = [row0 EXCEPT !.texts = new]]
                              /\ new # <<>> /\ Len(row0.texts) <= Len(new)
  <2>1. CASE AppendCopy(p, text)
    <3>1. Append(row0.texts, text) \in Seq(Texts) /\ Append(row0.texts, text) # <<>>
          /\ Len(row0.texts) <= Len(Append(row0.texts, text))
      BY <1>1
    <3>2. persona' = [persona EXCEPT ![p] = [row0 EXCEPT !.texts = Append(row0.texts, text)]]
      BY <2>1 DEF AppendCopy
    <3> QED
      BY <3>1, <3>2
  <2>2. CASE AppendIfNew(p, text)
    <3>1. Append(row0.texts, text) \in Seq(Texts) /\ Append(row0.texts, text) # <<>>
          /\ Len(row0.texts) <= Len(Append(row0.texts, text)) /\ Len(row0.texts) <= Len(row0.texts)
      BY <1>1
    <3>2. \/ persona' = [persona EXCEPT ![p] = [row0 EXCEPT !.texts = Append(row0.texts, text)]]
          \/ persona' = [persona EXCEPT ![p] = [row0 EXCEPT !.texts = row0.texts]]
      BY <2>2 DEF AppendIfNew
    <3> QED
      BY <1>1, <3>1, <3>2
  <2> QED
    BY <2>1, <2>2
<1> PICK new \in Seq(Texts) : /\ persona' = [persona EXCEPT ![p] = [row0 EXCEPT !.texts = new]]
                              /\ new # <<>> /\ Len(row0.texts) <= Len(new)
  BY <1>2
<1> DEFINE row == [row0 EXCEPT !.texts = new]
<1>3. row \in PersonaRow /\ row.status = "live" /\ row.texts = new /\ row.owned = row0.owned
  BY <1>1 DEF PersonaRow
<1>4. persona' = [persona EXCEPT ![p] = row]
  OBVIOUS
<1> HIDE DEF row
<1>5. Len(new) \in Nat /\ Len(row0.texts) \in Nat
  BY <1>1
<1>6. /\ RowsTyped' /\ Grows /\ persona'[p] = row
      /\ \A r \in PersonaIds : r # p => persona'[r] = persona[r]
  <2>1. rendered[p] <= Len(row.texts) /\ Version(p) <= Len(row.texts)
    BY <1>1, <1>3, <1>5 DEF Version
  <2> QED
    BY <1>3, <1>4, <2>1, RowsChanged
<1>7. \A r \in PersonaIds : There(r)' = There(r) /\ persona'[r].owned = persona[r].owned
  BY <1>1, <1>3, <1>6 DEF There
<1>8. Owned' = Owned
  BY <1>7 DEF Owned
<1> QED
  BY <1>3, <1>5, <1>6, <1>7, <1>8 DEF Version

LEMMA RowDeleted ==
  ASSUME RowsTyped, UNCHANGED rendered, NEW p \in PersonaIds, persona[p].status # "unused",
         DeletePersonaRow(p)
  PROVE  /\ RowsTyped' /\ Grows /\ ~There(p)' /\ Owned' = Owned \ {p}
         /\ \A r \in PersonaIds : r # p => persona'[r] = persona[r]
<1>1. CASE There(p)
  <2>1. persona' = [persona EXCEPT ![p] = Deleted]
    BY <1>1 DEF DeletePersonaRow
  <2>2. Deleted.status # "live" /\ Deleted.status # "unused"
    BY PersonaTypes
  <2>3. /\ RowsTyped' /\ Grows /\ persona'[p] = Deleted
        /\ \A r \in PersonaIds : r # p => persona'[r] = persona[r]
    BY <2>1, <2>2, PersonaTypes, RowsChanged
  <2> QED
    BY <2>2, <2>3 DEF Owned, There
<1>2. CASE ~There(p)
  <2>1. UNCHANGED persona
    BY <1>2 DEF DeletePersonaRow, RowsTyped
  <2> QED
    BY <1>2, <2>1, RowsAlike DEF Owned, There
<1> QED
  BY <1>1, <1>2

\* Where a request begins, it knows whether it is alone, and nobody else is any more.
LEMMA StartsKeep ==
  ASSUME PersonaInv, NEW c \in Clients, NEW first \in PersonaAsk, first.pc # "commit",
         Starts(c, first), RowsTyped', RestTyped', Grows, LocksKept(c),
         \A q \in PersonaAsk :
           /\ q.pc = first.pc /\ q.kind = first.kind /\ q.p = first.p /\ q.seen = first.seen
           /\ q.tidy => AtMostOne
           => Sane(q)' /\ Lonely(q)' /\ Tidy(q)'
  PROVE  PersonaInv'
<1>0. AllIdleBut(c) \in BOOLEAN /\ (Cardinality(Owned) <= 1) \in BOOLEAN
  BY DEF AllIdleBut
<1> PICK yes \in BOOLEAN, neat \in BOOLEAN :
      yes = AllIdleBut(c) /\ neat = (Cardinality(Owned) <= 1)
  BY <1>0
<1> DEFINE q == [first EXCEPT !.alone = yes, !.tidy = neat]
<1>1. q \in PersonaAsk /\ q.pc = first.pc /\ q.kind = first.kind /\ q.p = first.p
      /\ q.seen = first.seen /\ q.alone = yes /\ q.tidy = neat
  BY DEF PersonaAsk
<1>2. PICK new \in PersonaAsk :
        /\ request' = [d \in Clients |-> IF d = c THEN new ELSE [request[d] EXCEPT !.alone = FALSE]]
        /\ new.pc = first.pc /\ new.kind = first.kind /\ new.p = first.p
        /\ new.seen = first.seen /\ (new.alone <=> AllIdleBut(c))
        /\ new.tidy => AtMostOne
  BY <1>1, OwnedCount DEF Starts
<1> HIDE DEF q
<1>3. ASSUME NEW d \in Clients, d # c
      PROVE  \E r \in PersonaAsk : \E old \in PersonaAsk :
               /\ old = request[d] /\ r = request'[d] /\ ~r.alone /\ Sane(old)
               /\ r.pc = old.pc /\ r.kind = old.kind /\ r.p = old.p /\ r.seen = old.seen
  <2> PICK old \in PersonaAsk : old = request[d] /\ Sane(old)
    BY PersonaHeld
  <2> DEFINE r == [old EXCEPT !.alone = FALSE]
  <2>1. r \in PersonaAsk /\ ~r.alone /\ r.pc = old.pc /\ r.kind = old.kind /\ r.p = old.p
        /\ r.seen = old.seen
    BY DEF PersonaAsk
  <2>2. r = request'[d]
    BY <1>2, <1>3
  <2> QED
    BY <2>1, <2>2
<1>4. request'[c] = new
  BY <1>2
<1>5. request' \in [Clients -> PersonaAsk]
  <2>1. \A d \in Clients : request'[d] \in PersonaAsk
    BY <1>3, <1>4
  <2> QED
    BY <1>2, <2>1
<1>6. ASSUME NEW d \in Clients PROVE Sane(request[d])' /\ Lonely(request[d])' /\ Tidy(request[d])'
  <2>1. CASE d = c
    <3>1. Sane(new)' /\ Lonely(new)' /\ Tidy(new)'
      BY <1>2
    <3>2. request'[d] = new
      BY <1>4, <2>1
    <3> QED
      BY <3>1, <3>2 DEF Sane, Lonely, Tidy
  <2>2. CASE d # c
    <3> PICK r \in PersonaAsk, old \in PersonaAsk :
               /\ old = request[d] /\ r = request'[d] /\ ~r.alone /\ Sane(old)
               /\ r.pc = old.pc /\ r.kind = old.kind /\ r.p = old.p /\ r.seen = old.seen
      BY <1>3, <2>2
    <3>1. Sane(r)
      BY DEF Sane
    <3>2. Sane(r)'
      BY <3>1, SaneStays DEF PersonaInv
    <3>3. Lonely(r)' /\ Tidy(r)'
      BY DEF Lonely, Tidy
    <3> QED
      BY <3>2, <3>3 DEF Sane, Lonely, Tidy
  <2> QED
    BY <2>1, <2>2
<1>7. Apart'
  <2> SUFFICES ASSUME NEW d \in Clients, request'[d].alone PROVE AllIdleBut(d)'
    BY DEF Apart
  <2>1. d = c
    BY <1>3
  <2>2. AllIdleBut(c)
    BY <1>2, <1>4, <2>1
  <2>3. \A other \in Clients \ {c} : request'[other].pc = "idle"
    BY <1>3, <2>2 DEF AllIdleBut
  <2> QED
    BY <2>1, <2>3 DEF AllIdleBut
<1>8. Locked'
  <2> SUFFICES ASSUME NEW d \in Clients, request'[d].pc = "commit"
               PROVE  (holder[request[d].p] = {d} /\ There(request[d].p))'
    BY DEF Locked
  <2>1. d # c
    BY <1>2, <1>4
  <2> PICK r \in PersonaAsk, old \in PersonaAsk :
               /\ old = request[d] /\ r = request'[d] /\ ~r.alone /\ Sane(old)
               /\ r.pc = old.pc /\ r.kind = old.kind /\ r.p = old.p /\ r.seen = old.seen
    BY <1>3, <2>1
  <2>2. old.pc = "commit" /\ old.p \in PersonaIds
    BY DEF PersonaAsk
  <2>3. holder[old.p] = {d} /\ There(old.p)
    BY <2>2 DEF PersonaInv, Locked
  <2>4. holder'[old.p] = {d} /\ There(old.p)'
    BY <2>1, <2>2, <2>3 DEF LocksKept
  <2> QED
    BY <2>4 DEF There
<1>9. LastStands' /\ PersonaRendered' /\ OwnedReclaimed'
  BY DEF Starts, LastStands, PersonaRendered, OwnedReclaimed
<1> QED
  BY <1>5, <1>6, <1>7, <1>8, <1>9 DEF PersonaInv

LEMMA LocksAlike ==
  ASSUME RowsTyped, UNCHANGED holder, NEW c \in Clients, Grows,
         \A p \in PersonaIds : There(p) => There(p)' \/ Free(p)
  PROVE  LocksKept(c)
BY DEF LocksKept, Free

\* A step that leaves rows and locks alone, but for the request's own lock.
LEMMA RestAlike ==
  ASSUME RestTyped, UNCHANGED holder, listed' \subseteq PersonaIds,
         agent' \in [there : BOOLEAN, ref : PersonaIds],
         personaEdits' \in 0..MaxPersonaEdits, personaFaults' \in 0..MaxPersonaFaults
  PROVE  RestTyped'
BY DEF RestTyped

LEMMA StartsCount ==
  ASSUME RestTyped, NEW c \in Clients, NEW first, Starts(c, first)
  PROVE  personaEdits' \in 0..MaxPersonaEdits
BY PersonasAssumption DEF RestTyped, Starts

LEMMA CreatePersonaKeeps ==
  ASSUME PersonaInv, NEW c \in Clients, NEW p \in PersonaIds, NEW text \in Texts,
         NEW owned \in BOOLEAN, CreatePersona(c, p, owned, text)
  PROVE  PersonaInv'
<1> DEFINE first == [NoRequest EXCEPT !.pc = "get", !.kind = "create", !.p = p, !.seen = 1,
                                      !.made = TRUE]
<1>1. first \in PersonaAsk /\ first.pc = "get" /\ first.kind = "create" /\ first.p = p
      /\ first.seen = 1
  BY PersonaTypes DEF PersonaAsk, Rendering, Writing, NoRequest
<1>2. Starts(c, first) /\ InsertPersona(p, owned, text)
      /\ UNCHANGED <<rendered, listed, holder, agent, latest, personaFaults>>
  BY DEF CreatePersona
<1> HIDE DEF first
<1>3. RowsTyped /\ RestTyped
  BY DEF PersonaInv
<1>4. /\ RowsTyped' /\ Grows /\ persona[p].status = "unused"
      /\ There(p)' /\ Version(p)' = 1 /\ persona'[p].owned = owned
      /\ \A r \in PersonaIds : r # p => persona'[r] = persona[r]
  BY <1>2, <1>3, RowInserted
<1>5. RestTyped'
  BY <1>2, <1>3, RestAlike, StartsCount DEF RestTyped
<1>6. LocksKept(c)
  BY <1>2, <1>3, <1>4, LocksAlike DEF There
<1>7. ASSUME NEW q \in PersonaAsk, q.pc = "get", q.kind = "create", q.p = p, q.seen = 1
      PROVE  Sane(q)' /\ Lonely(q)' /\ Tidy(q)'
  <2>1. persona'[q.p].status # "unused"
    BY <1>4, <1>7 DEF There
  <2> QED
    BY <1>4, <1>7, <2>1 DEF Sane, Lonely, Tidy, Rendering, Writing
<1>8. \A q \in PersonaAsk :
        /\ q.pc = first.pc /\ q.kind = first.kind /\ q.p = first.p /\ q.seen = first.seen
        /\ q.tidy => AtMostOne
        => Sane(q)' /\ Lonely(q)' /\ Tidy(q)'
  BY <1>1, <1>7
<1> QED
  BY <1>1, <1>2, <1>4, <1>5, <1>6, <1>8, StartsKeep

LEMMA StartsAlike ==
  ASSUME PersonaInv, NEW c \in Clients, NEW first \in PersonaAsk, first.pc # "commit",
         Starts(c, first), UNCHANGED <<persona, rendered, listed, holder, personaFaults>>,
         agent' \in [there : BOOLEAN, ref : PersonaIds],
         \A q \in PersonaAsk :
           /\ q.pc = first.pc /\ q.kind = first.kind /\ q.p = first.p /\ q.seen = first.seen
           /\ q.tidy => AtMostOne
           => Sane(q) /\ Lonely(q)' /\ Tidy(q)'
  PROVE  PersonaInv'
<1>1. RowsTyped /\ RestTyped
  BY DEF PersonaInv
<1>2. RowsTyped' /\ Grows /\ \A p \in PersonaIds : There(p)' = There(p)
  BY <1>1, RowsAlike
<1>3. RestTyped'
  BY <1>1, RestAlike, StartsCount DEF RestTyped
<1>4. LocksKept(c)
  BY <1>1, <1>2, LocksAlike
<1>5. \A q \in PersonaAsk : Sane(q) => Sane(q)'
  BY <1>1, <1>2, SaneStays
<1> QED
  BY <1>2, <1>3, <1>4, <1>5, StartsKeep

LEMMA UpdatePersonaKeeps ==
  ASSUME PersonaInv, NEW c \in Clients, NEW p \in PersonaIds, NEW text \in Texts,
         UpdatePersona(c, p, text)
  PROVE  PersonaInv'
<1>0. Version(p) \in Nat /\ There(p) /\ agent \in [there : BOOLEAN, ref : PersonaIds]
      /\ {text} \in SUBSET Texts
  BY DEF PersonaInv, RowsTyped, RestTyped, PersonaRow, Version, UpdatePersona
<1> DEFINE first == [NoRequest EXCEPT !.pc = "lock", !.kind = "update", !.p = p,
                                      !.text = {text}, !.seen = Version(p)]
<1>1. first \in PersonaAsk /\ first.pc = "lock" /\ first.kind = "update" /\ first.p = p
  BY <1>0 DEF PersonaAsk, Rendering, Writing, NoRequest
<1>2. Starts(c, first)
      /\ UNCHANGED <<persona, rendered, listed, holder, agent, latest, personaFaults>>
  BY DEF UpdatePersona
<1> HIDE DEF first
<1>3. ASSUME NEW q \in PersonaAsk, q.pc = "lock", q.kind = "update", q.p = p
      PROVE  Sane(q) /\ Lonely(q)' /\ Tidy(q)'
  BY <1>0, <1>3 DEF Sane, Lonely, Tidy, Rendering, Writing, There
<1> QED
  BY <1>0, <1>1, <1>2, <1>3, StartsAlike

LEMMA RollbackPersonaKeeps ==
  ASSUME PersonaInv, NEW c \in Clients, NEW p \in PersonaIds, NEW n \in Nat,
         RollbackPersona(c, p, n)
  PROVE  PersonaInv'
<1>0. Version(p) \in Nat /\ There(p) /\ agent \in [there : BOOLEAN, ref : PersonaIds]
      /\ {persona[p].texts[n]} \in SUBSET Texts
  BY DEF PersonaInv, RowsTyped, RestTyped, PersonaRow, Version, RollbackPersona
<1> DEFINE first == [NoRequest EXCEPT !.pc = "lock", !.kind = "rollback", !.p = p,
                                      !.text = {persona[p].texts[n]}, !.seen = Version(p)]
<1>1. first \in PersonaAsk /\ first.pc = "lock" /\ first.kind = "rollback" /\ first.p = p
  BY <1>0 DEF PersonaAsk, Rendering, Writing, NoRequest
<1>2. Starts(c, first)
      /\ UNCHANGED <<persona, rendered, listed, holder, agent, latest, personaFaults>>
  BY DEF RollbackPersona
<1> HIDE DEF first
<1>3. ASSUME NEW q \in PersonaAsk, q.pc = "lock", q.kind = "rollback", q.p = p
      PROVE  Sane(q) /\ Lonely(q)' /\ Tidy(q)'
  BY <1>0, <1>3 DEF Sane, Lonely, Tidy, Rendering, Writing, There
<1>4. PICK new \in PersonaAsk : new = first
  BY <1>1
<1> QED
  BY <1>0, <1>1, <1>2, <1>3, <1>4, StartsAlike

LEMMA DeletePersonaKeeps ==
  ASSUME PersonaInv, NEW c \in Clients, NEW p \in PersonaIds, DeletePersona(c, p)
  PROVE  PersonaInv'
<1>0. There(p) /\ agent \in [there : BOOLEAN, ref : PersonaIds]
  BY DEF PersonaInv, RestTyped, DeletePersona
<1> DEFINE first == [NoRequest EXCEPT !.pc = "deleteRow", !.kind = "delete", !.p = p]
<1>1. first \in PersonaAsk /\ first.pc = "deleteRow" /\ first.kind = "delete" /\ first.p = p
  BY DEF PersonaAsk, Rendering, Writing, NoRequest
<1>2. Starts(c, first)
      /\ UNCHANGED <<persona, rendered, listed, holder, agent, latest, personaFaults>>
  BY DEF DeletePersona
<1> HIDE DEF first
<1>3. ASSUME NEW q \in PersonaAsk, q.pc = "deleteRow", q.kind = "delete", q.p = p
      PROVE  Sane(q) /\ Lonely(q)' /\ Tidy(q)'
  BY <1>0, <1>3 DEF Sane, Lonely, Tidy, Rendering, Writing, There
<1> QED
  BY <1>0, <1>1, <1>2, <1>3, StartsAlike

LEMMA PutAgentPersonaKeeps ==
  ASSUME PersonaInv, NEW c \in Clients, NEW text \in Texts, PutAgentPersona(c, text)
  PROVE  PersonaInv'
<1>0. agent.there /\ agent \in [there : BOOLEAN, ref : PersonaIds] /\ {text} \in SUBSET Texts
      /\ persona[Template].status # "unused"
  BY DEF PersonaInv, RestTyped, RowsTyped, PutAgentPersona
<1> DEFINE first == [NoRequest EXCEPT !.pc = "owned", !.kind = "put", !.text = {text}]
<1>1. first \in PersonaAsk /\ first.pc = "owned" /\ first.kind = "put" /\ first.p = Template
  BY <1>0, PersonaTypes DEF PersonaAsk, Rendering, Writing, NoRequest
<1>2. Starts(c, first) /\ UNCHANGED <<persona, rendered, listed, holder, agent, personaFaults>>
  BY DEF PutAgentPersona
<1> HIDE DEF first
<1>3. ASSUME NEW q \in PersonaAsk, q.pc = "owned", q.kind = "put", q.p = Template,
             q.tidy => AtMostOne
      PROVE  Sane(q) /\ Lonely(q)' /\ Tidy(q)'
  <2>1. Owned' = Owned
    BY <1>2 DEF Owned, There
  <2> QED
    BY <1>0, <1>2, <1>3, <2>1 DEF Sane, Lonely, Tidy, Rendering, Writing, AtMostOne
<1> QED
  BY <1>0, <1>1, <1>2, <1>3, StartsAlike

LEMMA RePointAgentKeeps ==
  ASSUME PersonaInv, NEW c \in Clients, NEW p \in PersonaIds, RePointAgent(c, p)
  PROVE  PersonaInv'
<1>0. persona[p].status # "unused" /\ agent \in [there : BOOLEAN, ref : PersonaIds]
  BY DEF PersonaInv, RestTyped, RePointAgent
<1> DEFINE first == [NoRequest EXCEPT !.pc = "putAgent", !.kind = "repoint", !.p = p]
<1>1. first \in PersonaAsk /\ first.pc = "putAgent" /\ first.kind = "repoint" /\ first.p = p
  BY DEF PersonaAsk, Rendering, Writing, NoRequest
<1>2. Starts(c, first) /\ UNCHANGED <<persona, rendered, listed, holder, agent, personaFaults>>
  BY DEF RePointAgent
<1> HIDE DEF first
<1>3. ASSUME NEW q \in PersonaAsk, q.pc = "putAgent", q.kind = "repoint", q.p = p,
             q.tidy => AtMostOne
      PROVE  Sane(q) /\ Lonely(q)' /\ Tidy(q)'
  <2>1. Owned' = Owned
    BY <1>2 DEF Owned, There
  <2> QED
    BY <1>0, <1>2, <1>3, <2>1 DEF Sane, Lonely, Tidy, Rendering, Writing, There, AtMostOne
<1> QED
  BY <1>0, <1>1, <1>2, <1>3, StartsAlike

LEMMA DeleteAgentKeeps ==
  ASSUME PersonaInv, NEW c \in Clients, DeleteAgent(c)
  PROVE  PersonaInv'
<1>0. /\ agent' \in [there : BOOLEAN, ref : PersonaIds]
      /\ persona[Template].status # "unused"
  BY DEF PersonaInv, RestTyped, RowsTyped, DeleteAgent
<1> DEFINE first == [NoRequest EXCEPT !.pc = "cleanup", !.kind = "deleteAgent"]
<1>1. first \in PersonaAsk /\ first.pc = "cleanup" /\ first.kind = "deleteAgent"
      /\ first.p = Template
  BY PersonaTypes DEF PersonaAsk, Rendering, Writing, NoRequest
<1>2. Starts(c, first) /\ UNCHANGED <<persona, rendered, listed, holder, personaFaults>>
  BY DEF DeleteAgent
<1> HIDE DEF first
<1>3. ASSUME NEW q \in PersonaAsk, q.pc = "cleanup", q.kind = "deleteAgent", q.p = Template,
             q.tidy => AtMostOne
      PROVE  Sane(q) /\ Lonely(q)' /\ Tidy(q)'
  <2>1. Owned' = Owned
    BY <1>2 DEF Owned, There
  <2> QED
    BY <1>0, <1>3, <2>1 DEF Sane, Lonely, Tidy, Rendering, Writing, AtMostOne
<1> QED
  BY <1>0, <1>1, <1>2, <1>3, StartsAlike

\* A request goes on, and has left no outcome yet.
LEMMA StepsOn ==
  ASSUME PersonaInv, NEW c \in Clients, NEW q \in PersonaAsk, q = request[c], q.pc # "idle",
         NEW new \in PersonaAsk, Step(c, new), RowsTyped', RestTyped', Grows, LocksKept(c),
         new.pc = "commit" => holder'[new.p] = {c} /\ There(new.p)',
         Sane(new)', Lonely(new)', Tidy(new)', new.alone = q.alone
  PROVE  PersonaInv'
<1>1. request' = [request EXCEPT ![c] = new] /\ outcome' = outcome
  BY DEF Step
<1>2. outcome = {}
  BY NoOutcome
<1> QED
  BY <1>1, <1>2, UnderWay

\* The fields a step leaves alone.
Same(new, q) ==
  /\ new.kind = q.kind /\ new.text = q.text /\ new.alone = q.alone /\ new.tidy = q.tidy

LEMMA AskGoes ==
  ASSUME NEW q \in PersonaAsk,
         NEW pc \in {"list", "link", "undo", "deleteRow", "deleteMap", "unlist", "cleanup",
                     "commit", "get", "createMap", "putMap"}
  PROVE  \E new \in PersonaAsk : /\ new = [q EXCEPT !.pc = pc] /\ new.pc = pc /\ Same(new, q)
                                 /\ new.p = q.p /\ new.seen = q.seen
<1> DEFINE new == [q EXCEPT !.pc = pc]
<1>1. new \in PersonaAsk /\ new.pc = pc /\ Same(new, q) /\ new.p = q.p /\ new.seen = q.seen
  BY DEF PersonaAsk, Rendering, Writing, Same
<1> QED
  BY <1>1

\* A step that changes neither rows nor ConfigMaps nor the agent.
LEMMA RestStays ==
  ASSUME PersonaInv, UNCHANGED <<persona, rendered, holder, agent>>, listed' \subseteq PersonaIds,
         UNCHANGED personaEdits, Works \/ Fails, NEW c \in Clients
  PROVE  /\ RowsTyped' /\ RestTyped' /\ Grows /\ LocksKept(c) /\ Owned' = Owned
         /\ \A p \in PersonaIds : There(p)' = There(p) /\ Version(p)' = Version(p)
                                  /\ Exact(p)' = Exact(p)
         /\ \A q \in PersonaAsk : Sane(q) => Sane(q)'
<1>1. RowsTyped /\ RestTyped
  BY DEF PersonaInv
<1>2. /\ RowsTyped' /\ Grows /\ Owned' = Owned
      /\ \A p \in PersonaIds : There(p)' = There(p) /\ Version(p)' = Version(p)
                               /\ Exact(p)' = Exact(p)
  BY <1>1, RowsAlike
<1>3. RestTyped'
  BY <1>1, FaultCount, RestAlike DEF RestTyped
<1>4. LocksKept(c)
  BY <1>1, <1>2, LocksAlike
<1>5. \A q \in PersonaAsk : Sane(q) => Sane(q)'
  BY <1>1, <1>2, SaneStays
<1> QED
  BY <1>2, <1>3, <1>4, <1>5

LEMMA EndsCount ==
  ASSUME NEW c \in Clients, NEW ok, Ends(c, ok)
  PROVE  UNCHANGED personaEdits
BY DEF Ends, Replies

LEMMA LockRowKeeps ==
  ASSUME PersonaInv, NEW c \in Clients, LockRow(c)
  PROVE  PersonaInv'
<1> PICK q \in PersonaAsk :
      /\ q = request[c] /\ q.p \in PersonaIds /\ q.text \subseteq Texts /\ q.seen \in Nat
      /\ Sane(q) /\ Lonely(q) /\ Tidy(q)
  BY PersonaHeld
<1>0. q.pc = "lock" /\ Free(q.p) /\ UNCHANGED <<persona, rendered, listed, agent, personaFaults>>
  BY DEF LockRow
<1>1. RowsTyped /\ RestTyped /\ RowsTyped' /\ Grows /\ Owned' = Owned
      /\ \A p \in PersonaIds : There(p)' = There(p)
  BY <1>0, RowsAlike DEF PersonaInv
<1>2. CASE There(q.p) /\ holder' = [holder EXCEPT ![q.p] = {c}] /\ To(c, "commit")
  <2> PICK new \in PersonaAsk : /\ new = [q EXCEPT !.pc = "commit"] /\ new.pc = "commit"
                                /\ Same(new, q) /\ new.p = q.p /\ new.seen = q.seen
    BY ONLY AskGoes, q \in PersonaAsk
  <2>1. Step(c, new) /\ UNCHANGED personaEdits
    BY <1>2 DEF To, Step
  <2>2. RestTyped'
    BY <1>0, <1>1, <1>2, <2>1 DEF RestTyped
  <2>3. LocksKept(c) /\ holder'[new.p] = {c} /\ There(new.p)'
    BY <1>0, <1>1, <1>2 DEF LocksKept, Free, RestTyped
  <2>4. Sane(new)'
    BY <1>0, <1>1, <2>3 DEF Sane, Same, Rendering, Writing, There
  <2>5. Lonely(new)' /\ Tidy(new)'
    BY <1>0, <1>1, <2>3 DEF Lonely, Tidy, Same, Rendering, Writing
  <2> QED
    BY <1>0, <1>1, <2>1, <2>2, <2>3, <2>4, <2>5, StepsOn DEF Same
<1>3. CASE Ends(c, FALSE) /\ UNCHANGED holder
  <2>1. RestTyped'
    BY <1>0, <1>1, <1>3, EndsCount DEF RestTyped
  <2>2. LocksKept(c)
    BY <1>1, <1>3, LocksAlike
  <2> QED
    BY <1>0, <1>1, <1>3, <2>1, <2>2, EndsBadly
<1> QED
  BY <1>2, <1>3 DEF LockRow

LEMMA CommitKeeps ==
  ASSUME PersonaInv, NEW c \in Clients, Commit(c)
  PROVE  PersonaInv'
<1> PICK q \in PersonaAsk :
      /\ q = request[c] /\ q.p \in PersonaIds /\ q.text \subseteq Texts /\ q.seen \in Nat
      /\ Sane(q) /\ Lonely(q) /\ Tidy(q)
      /\ q.pc = "commit" => holder[q.p] = {c} /\ There(q.p)
  BY PersonaHeld
<1>0. q.pc = "commit" /\ holder' = Unlock(c) /\ UNCHANGED <<rendered, listed, agent>>
  BY DEF Commit
<1>1. RowsTyped /\ RestTyped /\ There(q.p)
  BY <1>0 DEF PersonaInv
<1>2. /\ holder' \in [PersonaIds -> SUBSET Clients]
      /\ \A p \in PersonaIds : \A d \in holder'[p] : holder'[p] = {d}
      /\ \A p \in PersonaIds : \A d \in Clients \ {c} : holder[p] = {d} => holder'[p] = {d}
  BY <1>0, <1>1 DEF RestTyped, Unlock
<1>3. PICK text \in q.text :
        \/ /\ Works
           /\ IF q.kind = "rollback" THEN AppendCopy(q.p, text) ELSE AppendIfNew(q.p, text)
           /\ Step(c, [q EXCEPT !.pc = IF q.kind = "rollback" THEN "reread" ELSE "get",
                                !.seen = Len(persona'[q.p].texts)])
        \/ Fails /\ Ends(c, FALSE) /\ UNCHANGED persona
  BY DEF Commit
<1>4. CASE Fails /\ Ends(c, FALSE) /\ UNCHANGED persona
  <2>1. RowsTyped' /\ Grows /\ \A p \in PersonaIds : There(p)' = There(p)
    BY <1>0, <1>1, <1>4, RowsAlike
  <2>2. RestTyped'
    BY <1>0, <1>1, <1>2, <1>4, EndsCount, FaultCount DEF RestTyped
  <2>3. LocksKept(c)
    BY <1>2, <2>1 DEF LocksKept
  <2> QED
    BY <1>0, <1>4, <2>1, <2>2, <2>3, EndsBadly
<1>5. CASE /\ Works
           /\ IF q.kind = "rollback" THEN AppendCopy(q.p, text) ELSE AppendIfNew(q.p, text)
           /\ Step(c, [q EXCEPT !.pc = IF q.kind = "rollback" THEN "reread" ELSE "get",
                                !.seen = Len(persona'[q.p].texts)])
  <2>0. text \in Texts /\ (AppendCopy(q.p, text) \/ AppendIfNew(q.p, text))
    BY <1>5
  <2>1. /\ RowsTyped' /\ Grows /\ There(q.p)' /\ Owned' = Owned /\ Version(q.p)' \in Nat
        /\ Len(persona'[q.p].texts) = Version(q.p)'
        /\ \A r \in PersonaIds : There(r)' = There(r)
    BY <1>0, <1>1, <2>0, RowAppended
  <2> PICK pc \in {"reread", "get"} : pc = IF q.kind = "rollback" THEN "reread" ELSE "get"
    OBVIOUS
  <2> PICK n \in Nat : n = Version(q.p)'
    BY <2>1
  <2> DEFINE new == [q EXCEPT !.pc = pc, !.seen = n]
  <2>20. pc \in Writing
    BY DEF Rendering, Writing
  <2>2. /\ new \in PersonaAsk /\ new.pc = pc /\ Same(new, q) /\ new.p = q.p /\ new.seen = n
    BY <2>20 DEF PersonaAsk, Same
  <2>3. Step(c, new) /\ UNCHANGED personaEdits
    BY <1>5, <2>1 DEF Step
  <2> HIDE DEF new
  <2>4. RestTyped'
    BY <1>0, <1>1, <1>2, <1>5, <2>3, FaultCount DEF RestTyped
  <2>5. LocksKept(c)
    BY <1>2, <2>1 DEF LocksKept
  <2>6. Sane(new)'
    BY <1>0, <2>1, <2>2 DEF Sane, Same, Rendering, Writing, There
  <2>7. Lonely(new)'
    BY <1>0, <2>1, <2>2 DEF Lonely, Same, Rendering, Writing
  <2>8. Tidy(new)'
    BY <1>0, <2>1, <2>2 DEF Tidy, Same, Rendering, Writing
  <2> QED
    BY <1>0, <2>1, <2>2, <2>3, <2>4, <2>5, <2>6, <2>7, <2>8, StepsOn DEF Same
<1> QED
  BY <1>3, <1>4, <1>5

LEMMA RereadKeeps ==
  ASSUME PersonaInv, NEW c \in Clients, Reread(c)
  PROVE  PersonaInv'
<1> PICK q \in PersonaAsk :
      /\ q = request[c] /\ q.p \in PersonaIds /\ q.text \subseteq Texts /\ q.seen \in Nat
      /\ Sane(q) /\ Lonely(q) /\ Tidy(q)
  BY PersonaHeld
<1>0. q.pc = "reread" /\ UNCHANGED <<persona, rendered, listed, holder, agent>>
      /\ (Works \/ Fails) /\ UNCHANGED personaEdits
  BY DEF Reread, Step, Ends, Replies
<1>1. /\ RowsTyped' /\ RestTyped' /\ Grows /\ LocksKept(c) /\ Owned' = Owned
      /\ \A p \in PersonaIds : There(p)' = There(p) /\ Version(p)' = Version(p)
                               /\ Exact(p)' = Exact(p)
      /\ \A r \in PersonaAsk : Sane(r) => Sane(r)'
  BY <1>0, RestStays DEF PersonaInv, RestTyped
<1>2. CASE Ends(c, FALSE)
  BY <1>0, <1>1, <1>2, EndsBadly
<1>3. CASE There(q.p) /\ Step(c, [q EXCEPT !.pc = "get", !.seen = Version(q.p)])
  <2> PICK n \in Nat : n = Version(q.p)
    BY DEF PersonaInv, RowsTyped, PersonaRow, Version
  <2> DEFINE new == [q EXCEPT !.pc = "get", !.seen = n]
  <2>1. new \in PersonaAsk /\ new.pc = "get" /\ Same(new, q) /\ new.p = q.p /\ new.seen = n
    <3>1. new \in PersonaAsk
      BY ONLY q \in PersonaAsk, n \in Nat DEF PersonaAsk, Rendering, Writing
    <3>2. Same(new, q) /\ new.pc = "get" /\ new.p = q.p /\ new.seen = n
      BY ONLY q \in PersonaAsk DEF PersonaAsk, Same
    <3> QED
      BY <3>1, <3>2
  <2>2. Step(c, new)
    BY <1>3
  <2> HIDE DEF new
  <2>3. Sane(new)
    BY <1>0, <2>1 DEF Sane, Same, Rendering, Writing
  <2>4. Lonely(new)'
    BY <1>0, <1>1, <1>3, <2>1 DEF Lonely, Same, Rendering, Writing
  <2>5. Tidy(new)'
    BY <1>0, <1>1, <2>1 DEF Tidy, Same, Rendering, Writing
  <2> QED
    BY <1>0, <1>1, <2>1, <2>2, <2>3, <2>4, <2>5, StepsOn DEF Same
<1> QED
  BY <1>2, <1>3 DEF Reread

LEMMA RemoveRowKeeps ==
  ASSUME PersonaInv, NEW c \in Clients, RemoveRow(c)
  PROVE  PersonaInv'
<1> PICK q \in PersonaAsk :
      /\ q = request[c] /\ q.p \in PersonaIds /\ q.text \subseteq Texts /\ q.seen \in Nat
      /\ Sane(q) /\ Lonely(q) /\ Tidy(q)
  BY PersonaHeld
<1>0. /\ q.pc = "deleteRow" /\ Free(q.p) /\ UNCHANGED <<rendered, listed, holder, agent>>
      /\ (Works \/ Fails) /\ UNCHANGED personaEdits
  BY DEF RemoveRow, Step, To, Ends, DeleteFailed, Replies
<1>1. RowsTyped /\ RestTyped /\ persona[q.p].status # "unused"
      /\ q.kind \in {"delete", "repoint", "deleteAgent"}
  BY <1>0 DEF PersonaInv, Sane
<1>2. RestTyped'
  BY <1>0, <1>1, FaultCount, RestAlike DEF RestTyped
<1>3. CASE UNCHANGED persona /\ DeleteFailed(c)
  <2>1. RowsTyped' /\ Grows /\ \A p \in PersonaIds : There(p)' = There(p)
    BY <1>0, <1>1, <1>3, RowsAlike
  <2>2. LocksKept(c)
    BY <1>0, <1>1, <2>1, LocksAlike
  <2> QED
    BY <1>0, <1>2, <1>3, <2>1, <2>2, DeletesBadly
<1>4. CASE DeletePersonaRow(q.p) /\ ~There(q.p) /\ Ends(c, q.kind \in {"repoint", "deleteAgent"})
  <2>1. UNCHANGED persona
    BY <1>1, <1>4 DEF DeletePersonaRow, RowsTyped
  <2>2. RowsTyped' /\ Grows /\ \A p \in PersonaIds : There(p)' = There(p)
    BY <1>0, <1>1, <2>1, RowsAlike
  <2>3. LocksKept(c)
    BY <1>0, <1>1, <2>2, LocksAlike
  <2>4. CASE q.kind = "delete"
    <3>1. Ends(c, FALSE)
      BY <1>4, <2>4 DEF Ends, Replies
    <3> QED
      BY <1>0, <1>2, <2>2, <2>3, <3>1, EndsBadly
  <2>5. CASE q.kind \in {"repoint", "deleteAgent"}
    <3>1. Ends(c, TRUE)
      BY <1>4, <2>5 DEF Ends, Replies
    <3>2. ~(q.alone /\ q.tidy)
      BY <1>0, <1>4, <2>5 DEF Tidy, Owned
    <3>3. q.kind \notin {"create", "update", "rollback", "delete", "put"}
      BY <2>5
    <3> QED
      BY <1>0, <1>2, <2>2, <2>3, <3>1, <3>2, <3>3, EndsWell
  <2> QED
    BY <1>1, <2>4, <2>5
<1>5. CASE DeletePersonaRow(q.p) /\ There(q.p) /\ To(c, "deleteMap")
  <2> PICK new \in PersonaAsk : /\ new = [q EXCEPT !.pc = "deleteMap"] /\ new.pc = "deleteMap"
                                /\ Same(new, q) /\ new.p = q.p /\ new.seen = q.seen
    BY ONLY AskGoes, q \in PersonaAsk
  <2>1. Step(c, new)
    BY <1>5 DEF To
  <2>2. /\ RowsTyped' /\ Grows /\ ~There(q.p)' /\ Owned' = Owned \ {q.p}
        /\ \A r \in PersonaIds : r # q.p => persona'[r] = persona[r]
    BY <1>0, <1>1, <1>5, RowDeleted
  <2>3. LocksKept(c)
    BY <1>0, <1>1, <2>2, LocksAlike DEF There, Free
  <2>4. Sane(new)'
    BY <1>0, <1>1, <2>2 DEF Sane, Same, Rendering, Writing, Grows
  <2>5. Lonely(new)' /\ Tidy(new)'
    BY <1>0, <1>1, <2>2 DEF Lonely, Tidy, Same, Rendering, Writing
  <2> QED
    BY <1>0, <1>2, <2>1, <2>2, <2>3, <2>4, <2>5, StepsOn DEF Same
<1> QED
  BY <1>3, <1>4, <1>5 DEF RemoveRow, CleansUp

LEMMA DeleteMapKeeps ==
  ASSUME PersonaInv, NEW c \in Clients, DeleteMap(c)
  PROVE  PersonaInv'
<1> PICK q \in PersonaAsk :
      /\ q = request[c] /\ q.p \in PersonaIds /\ q.text \subseteq Texts /\ q.seen \in Nat
      /\ Sane(q) /\ Lonely(q) /\ Tidy(q)
  BY PersonaHeld
<1>0. /\ q.pc = "deleteMap" /\ UNCHANGED <<persona, listed, holder, agent>>
      /\ (Works \/ Fails) /\ UNCHANGED personaEdits
  BY DEF DeleteMap, Step, To, Ends, DeleteFailed, Replies
<1>1. RowsTyped /\ RestTyped /\ persona[q.p].status # "unused"
      /\ q.kind \in {"delete", "repoint", "deleteAgent"}
  BY <1>0 DEF PersonaInv, Sane
<1>2. RestTyped'
  BY <1>0, <1>1, FaultCount, RestAlike DEF RestTyped
<1>3. CASE UNCHANGED rendered /\ DeleteFailed(c)
  <2>1. RowsTyped' /\ Grows /\ \A p \in PersonaIds : There(p)' = There(p)
    BY <1>0, <1>1, <1>3, RowsAlike
  <2>2. LocksKept(c)
    BY <1>0, <1>1, <2>1, LocksAlike
  <2> QED
    BY <1>0, <1>2, <1>3, <2>1, <2>2, DeletesBadly
<1>4. ASSUME rendered' = [rendered EXCEPT ![q.p] = 0],
             IF q.kind = "delete" THEN To(c, "unlist") ELSE Ends(c, TRUE)
      PROVE  PersonaInv'
  <2>1. There(q.p) => 0 <= Version(q.p)
    BY <1>1 DEF RowsTyped, PersonaRow, Version
  <2>2. /\ RowsTyped' /\ Grows /\ Owned' = Owned /\ rendered'[q.p] = 0
        /\ \A r \in PersonaIds : There(r)' = There(r) /\ Version(r)' = Version(r)
    BY <1>0, <1>1, <1>4, <2>1, RowsRendered
  <2>3. LocksKept(c)
    BY <1>0, <1>1, <2>2, LocksAlike
  <2>4. CASE q.kind = "delete"
    <3> PICK new \in PersonaAsk : /\ new = [q EXCEPT !.pc = "unlist"] /\ new.pc = "unlist"
                                  /\ Same(new, q) /\ new.p = q.p /\ new.seen = q.seen
      BY ONLY AskGoes, q \in PersonaAsk
    <3>1. Step(c, new)
      BY <1>4, <2>4 DEF To
    <3>2. Sane(new)'
      BY <1>0, <1>1, <2>2, <2>4 DEF Sane, Same, Rendering, Writing
    <3>3. Lonely(new)' /\ Tidy(new)'
      BY <1>0, <1>1, <2>2, <2>4 DEF Lonely, Tidy, Same, Rendering, Writing
    <3> QED
      BY <1>0, <1>2, <2>2, <2>3, <3>1, <3>2, <3>3, StepsOn DEF Same
  <2>5. CASE q.kind \in {"repoint", "deleteAgent"}
    <3>1. Ends(c, TRUE) /\ q.kind \notin {"create", "update", "rollback", "delete", "put"}
      BY <1>4, <2>5
    <3>2. q.alone /\ q.tidy => Owned' = {}
      BY <1>0, <2>2, <2>5 DEF Tidy
    <3> QED
      BY <1>0, <1>2, <2>2, <2>3, <2>5, <3>1, <3>2, EndsWell
  <2> QED
    BY <1>1, <2>4, <2>5
<1> QED
  BY <1>3, <1>4 DEF DeleteMap

LEMMA UnlistKeeps ==
  ASSUME PersonaInv, NEW c \in Clients, Unlist(c)
  PROVE  PersonaInv'
<1> PICK q \in PersonaAsk :
      /\ q = request[c] /\ q.p \in PersonaIds /\ q.text \subseteq Texts /\ q.seen \in Nat
      /\ Sane(q) /\ Lonely(q) /\ Tidy(q)
  BY PersonaHeld
<1>0. /\ q.pc = "unlist" /\ UNCHANGED <<persona, rendered, holder, agent>>
      /\ (Works \/ Fails) /\ UNCHANGED personaEdits /\ Ends(c, TRUE) /\ listed' \subseteq PersonaIds
  BY DEF Unlist, Ends, Replies, PersonaInv, RestTyped
<1>1. /\ RowsTyped' /\ RestTyped' /\ Grows /\ LocksKept(c) /\ Owned' = Owned
      /\ \A p \in PersonaIds : There(p)' = There(p) /\ Version(p)' = Version(p)
                               /\ Exact(p)' = Exact(p)
      /\ \A r \in PersonaAsk : Sane(r) => Sane(r)'
  BY <1>0, RestStays
<1>2. q.kind = "delete" /\ (q.alone => Exact(q.p))
  BY <1>0 DEF Sane, Lonely, Exact
<1> QED
  BY <1>0, <1>1, <1>2, EndsWell

LEMMA ListKeeps ==
  ASSUME PersonaInv, NEW c \in Clients, List(c)
  PROVE  PersonaInv'
<1> PICK q \in PersonaAsk :
      /\ q = request[c] /\ q.p \in PersonaIds /\ q.text \subseteq Texts /\ q.seen \in Nat
      /\ Sane(q) /\ Lonely(q) /\ Tidy(q)
  BY PersonaHeld
<1>0. /\ q.pc = "list" /\ UNCHANGED <<persona, rendered, holder, agent>>
      /\ (Works \/ Fails) /\ UNCHANGED personaEdits /\ Ends(c, TRUE) /\ listed' \subseteq PersonaIds
  BY DEF List, Ends, Replies, PersonaInv, RestTyped
<1>1. /\ RowsTyped' /\ RestTyped' /\ Grows /\ LocksKept(c) /\ Owned' = Owned
      /\ \A p \in PersonaIds : There(p)' = There(p) /\ Version(p)' = Version(p)
                               /\ Exact(p)' = Exact(p)
      /\ \A r \in PersonaAsk : Sane(r) => Sane(r)'
  BY <1>0, RestStays
<1>2. q.kind = "create" /\ (q.alone => Exact(q.p))
  BY <1>0 DEF Sane, Lonely
<1> QED
  BY <1>0, <1>1, <1>2, EndsWell

\* The ends of Reconciler.Ensure.
LEMMA NotEnsuredKeeps ==
  ASSUME PersonaInv, NEW c \in Clients, NEW q \in PersonaAsk, q = request[c], q.pc \in Rendering,
         NotEnsured(c), RowsTyped', RestTyped', Grows, LocksKept(c), UNCHANGED agent
  PROVE  PersonaInv'
<1>0. q.pc # "idle" /\ q.p \in PersonaIds
  BY DEF Rendering, PersonaAsk
<1>1. CASE Ends(c, FALSE)
  BY <1>0, <1>1, EndsBadly
<1>2. CASE To(c, "undo")
  <2>0. Sane(q) /\ Lonely(q)
    BY DEF PersonaInv
  <2> PICK new \in PersonaAsk : /\ new = [q EXCEPT !.pc = "undo"] /\ new.pc = "undo"
                                /\ Same(new, q) /\ new.p = q.p /\ new.seen = q.seen
    BY ONLY AskGoes, q \in PersonaAsk
  <2>1. Step(c, new)
    BY <1>2 DEF To
  <2>2. Sane(new)'
    BY <1>0, <2>0 DEF Sane, Same, Rendering, Writing, Grows
  <2>3. Lonely(new)' /\ Tidy(new)'
    BY <2>0 DEF Lonely, Tidy, Same, Rendering, Writing
  <2> QED
    BY <1>0, <2>1, <2>2, <2>3, StepsOn DEF Same
<1> QED
  BY <1>1, <1>2 DEF NotEnsured

LEMMA EnsuredKeeps ==
  ASSUME PersonaInv, NEW c \in Clients, NEW q \in PersonaAsk, q = request[c], q.pc \in Rendering,
         Ensured(c), RowsTyped', RestTyped', Grows, LocksKept(c), UNCHANGED agent,
         Owned' = Owned, q.alone => Exact(q.p)'
  PROVE  PersonaInv'
<1>0. q.pc # "idle" /\ q.p \in PersonaIds /\ Sane(q) /\ Lonely(q) /\ Tidy(q)
  BY DEF Rendering, PersonaAsk, PersonaInv
<1>1. q.kind \in {"create", "update", "rollback", "put"}
  BY <1>0 DEF Sane, Writing
<1>2. CASE q.kind = "create"
  <2> PICK new \in PersonaAsk : /\ new = [q EXCEPT !.pc = "list"] /\ new.pc = "list"
                                /\ Same(new, q) /\ new.p = q.p /\ new.seen = q.seen
    BY ONLY AskGoes, q \in PersonaAsk
  <2>1. Step(c, new)
    BY <1>2 DEF To, Ensured
  <2>2. Sane(new)'
    BY <1>0, <1>2 DEF Sane, Same, Rendering, Writing, Grows
  <2>3. Lonely(new)' /\ Tidy(new)'
    BY <1>2 DEF Lonely, Tidy, Same, Rendering, Writing
  <2> QED
    BY <1>0, <2>1, <2>2, <2>3, StepsOn DEF Same
<1>3. CASE q.kind = "put"
  <2> PICK new \in PersonaAsk : /\ new = [q EXCEPT !.pc = "link"] /\ new.pc = "link"
                                /\ Same(new, q) /\ new.p = q.p /\ new.seen = q.seen
    BY ONLY AskGoes, q \in PersonaAsk
  <2>1. Step(c, new)
    BY <1>3 DEF To, Ensured
  <2>2. Sane(new)'
    BY <1>0, <1>3 DEF Sane, Same, Rendering, Writing, Grows
  <2>3. Lonely(new)'
    BY <1>0, <1>3 DEF Lonely, Same, Rendering, Writing
  <2>4. Tidy(new)'
    BY <1>0, <1>3 DEF Tidy, Same, Writing
  <2> QED
    BY <1>0, <2>1, <2>2, <2>3, <2>4, StepsOn DEF Same
<1>4. CASE q.kind \in {"update", "rollback"}
  <2>1. Ends(c, TRUE)
    BY <1>4 DEF Ensured
  <2> QED
    BY <1>0, <1>4, <2>1, EndsWell
<1> QED
  BY <1>1, <1>2, <1>3, <1>4

LEMMA GetMapKeeps ==
  ASSUME PersonaInv, NEW c \in Clients, GetMap(c)
  PROVE  PersonaInv'
<1> PICK q \in PersonaAsk :
      /\ q = request[c] /\ q.p \in PersonaIds /\ q.text \subseteq Texts /\ q.seen \in Nat
      /\ Sane(q) /\ Lonely(q) /\ Tidy(q)
  BY PersonaHeld
<1>0. /\ q.pc = "get" /\ UNCHANGED <<persona, rendered, listed, holder, agent>>
      /\ (Works \/ Fails) /\ UNCHANGED personaEdits
  BY DEF GetMap, NotEnsured, To, Step, Ends, Replies
<1>1. /\ RowsTyped' /\ RestTyped' /\ Grows /\ LocksKept(c) /\ Owned' = Owned
      /\ \A p \in PersonaIds : There(p)' = There(p) /\ Version(p)' = Version(p)
                               /\ Exact(p)' = Exact(p)
      /\ \A r \in PersonaAsk : Sane(r) => Sane(r)'
  BY <1>0, RestStays DEF PersonaInv, RestTyped
<1>2. CASE NotEnsured(c)
  BY <1>0, <1>1, <1>2, NotEnsuredKeeps DEF Rendering
<1>3. ASSUME NEW pc \in {"createMap", "putMap"}, To(c, pc) PROVE PersonaInv'
  <2> DEFINE new == [q EXCEPT !.pc = pc]
  <2>0. new \in PersonaAsk /\ new.pc = pc /\ Same(new, q) /\ new.p = q.p /\ new.seen = q.seen
    BY DEF PersonaAsk, Rendering, Writing, Same
  <2>1. Step(c, new)
    BY <1>3 DEF To
  <2> HIDE DEF new
  <2>2. Sane(new)
    BY <1>0, <2>0, <1>3 DEF Sane, Same, Rendering, Writing
  <2>3. Lonely(new)'
    BY <1>0, <2>0, <1>1, <1>3 DEF Lonely, Same, Rendering, Writing
  <2>4. Tidy(new)'
    BY <1>0, <2>0, <1>1, <1>3 DEF Tidy, Same, Rendering, Writing
  <2> QED
    BY <1>0, <2>0, <1>1, <1>3, <2>1, <2>2, <2>3, <2>4, StepsOn DEF Same
<1> QED
  BY <1>2, <1>3 DEF GetMap

\* A ConfigMap is written with the version the request has seen.
LEMMA MapWritten ==
  ASSUME PersonaInv, NEW c \in Clients, NEW q \in PersonaAsk, q = request[c], q.pc \in Rendering,
         UNCHANGED <<persona, listed, holder, agent>>, Works \/ Fails, Ensured(c),
         rendered' = [rendered EXCEPT ![q.p] = q.seen]
  PROVE  PersonaInv'
<1>0. q.p \in PersonaIds /\ q.seen \in Nat /\ Sane(q) /\ Lonely(q)
  BY DEF PersonaAsk, PersonaInv
<1>1. RowsTyped /\ RestTyped /\ persona[q.p].status # "unused" /\ (There(q.p) => q.seen <= Version(q.p))
  BY <1>0 DEF PersonaInv, Sane
<1>2. /\ RowsTyped' /\ Grows /\ Owned' = Owned
      /\ \A r \in PersonaIds : There(r)' = There(r) /\ Version(r)' = Version(r)
      /\ Exact(q.p)' = (q.seen = IF There(q.p) THEN Version(q.p) ELSE 0)
  BY <1>0, <1>1, RowsRendered
<1>3. RestTyped' /\ LocksKept(c)
  <2>0. q.kind \in {"create", "update", "rollback", "put"}
    BY <1>0 DEF Sane, Writing
  <2>1. UNCHANGED personaEdits
    BY <2>0 DEF Ensured, To, Step, Ends, Replies
  <2> QED
    BY <1>1, <1>2, <2>1, FaultCount, LocksAlike DEF RestTyped
<1>4. q.alone => Exact(q.p)'
  BY <1>0, <1>2 DEF Lonely
<1> QED
  BY <1>2, <1>3, <1>4, EnsuredKeeps

LEMMA CreateMapKeeps ==
  ASSUME PersonaInv, NEW c \in Clients, CreateMap(c)
  PROVE  PersonaInv'
<1> PICK q \in PersonaAsk :
      /\ q = request[c] /\ q.p \in PersonaIds /\ q.text \subseteq Texts /\ q.seen \in Nat
      /\ Sane(q) /\ Lonely(q) /\ Tidy(q)
  BY PersonaHeld
<1>0. /\ q.pc = "createMap" /\ UNCHANGED <<persona, listed, holder, agent>>
      /\ (Works \/ Fails)
  BY DEF CreateMap
<1>1. CASE NotEnsured(c) /\ UNCHANGED rendered
  <2>1. UNCHANGED personaEdits
    BY <1>1 DEF NotEnsured, To, Step, Ends, Replies
  <2>2. RowsTyped' /\ RestTyped' /\ Grows /\ LocksKept(c)
    BY <1>0, <1>1, <2>1, RestStays DEF PersonaInv, RestTyped
  <2> QED
    BY <1>0, <1>1, <2>2, NotEnsuredKeeps DEF Rendering
<1>2. CASE rendered' = [rendered EXCEPT ![q.p] = q.seen] /\ Ensured(c)
  BY <1>0, <1>2, MapWritten DEF Rendering
<1> QED
  BY <1>1, <1>2 DEF CreateMap

LEMMA PutMapKeeps ==
  ASSUME PersonaInv, NEW c \in Clients, PutMap(c)
  PROVE  PersonaInv'
<1> PICK q \in PersonaAsk :
      /\ q = request[c] /\ q.p \in PersonaIds /\ q.text \subseteq Texts /\ q.seen \in Nat
      /\ Sane(q) /\ Lonely(q) /\ Tidy(q)
  BY PersonaHeld
<1>0. /\ q.pc = "putMap" /\ UNCHANGED <<persona, listed, holder, agent>>
      /\ (Works \/ Fails)
  BY DEF PutMap
<1>1. CASE NotEnsured(c) /\ UNCHANGED rendered
  <2>1. UNCHANGED personaEdits
    BY <1>1 DEF NotEnsured, To, Step, Ends, Replies
  <2>2. RowsTyped' /\ RestTyped' /\ Grows /\ LocksKept(c)
    BY <1>0, <1>1, <2>1, RestStays DEF PersonaInv, RestTyped
  <2> QED
    BY <1>0, <1>1, <2>2, NotEnsuredKeeps DEF Rendering
<1>2. CASE rendered' = [rendered EXCEPT ![q.p] = q.seen] /\ Ensured(c)
  BY <1>0, <1>2, MapWritten DEF Rendering
<1> QED
  BY <1>1, <1>2 DEF PutMap

LEMMA UndoKeeps ==
  ASSUME PersonaInv, NEW c \in Clients, Undo(c)
  PROVE  PersonaInv'
<1> PICK q \in PersonaAsk :
      /\ q = request[c] /\ q.p \in PersonaIds /\ q.text \subseteq Texts /\ q.seen \in Nat
      /\ Sane(q) /\ Lonely(q) /\ Tidy(q)
  BY PersonaHeld
<1>0. /\ q.pc = "undo" /\ Free(q.p) /\ UNCHANGED <<rendered, listed, holder, agent>>
      /\ (Works \/ Fails) /\ Ends(c, FALSE) /\ (DeletePersonaRow(q.p) \/ UNCHANGED persona)
  BY DEF Undo
<1>1. RowsTyped /\ RestTyped /\ persona[q.p].status # "unused"
  BY <1>0 DEF PersonaInv, Sane
<1>2. RestTyped'
  BY <1>0, <1>1, FaultCount, RestAlike, EndsCount DEF RestTyped
<1>3. RowsTyped' /\ Grows /\ \A r \in PersonaIds : r # q.p => persona'[r] = persona[r]
  BY <1>0, <1>1, RowDeleted, RowsAlike
<1>4. LocksKept(c)
  BY <1>0, <1>1, <1>3, LocksAlike DEF There
<1> QED
  BY <1>0, <1>2, <1>3, <1>4, EndsBadly

LEMMA EnsureOwnedKeeps ==
  ASSUME PersonaInv, NEW c \in Clients, NEW p \in PersonaIds, EnsureOwned(c, p)
  PROVE  PersonaInv'
<1> PICK q \in PersonaAsk :
      /\ q = request[c] /\ q.p \in PersonaIds /\ q.text \subseteq Texts /\ q.seen \in Nat
      /\ Sane(q) /\ Lonely(q) /\ Tidy(q)
  BY PersonaHeld
<1>0. /\ q.pc = "owned" /\ Works /\ UNCHANGED <<rendered, listed, holder, agent>>
      /\ UNCHANGED personaEdits /\ q.kind = "put" /\ RowsTyped /\ RestTyped
  BY DEF EnsureOwned, Step, Sane, PersonaInv
<1>1. RestTyped'
  BY <1>0, FaultCount, RestAlike DEF RestTyped
<1>2. CASE /\ p \in Owned /\ UNCHANGED persona
           /\ Step(c, [q EXCEPT !.pc = "lock", !.p = p, !.seen = Version(p)])
  <2> PICK n \in Nat : n = Version(p)
    BY <1>0 DEF RowsTyped, PersonaRow, Version
  <2> DEFINE new == [q EXCEPT !.pc = "lock", !.p = p, !.seen = n]
  <2>1. new \in PersonaAsk /\ new.pc = "lock" /\ Same(new, q) /\ new.p = p /\ new.seen = n
    <3>1. new \in PersonaAsk
      BY ONLY q \in PersonaAsk, p \in PersonaIds, n \in Nat DEF PersonaAsk, Rendering, Writing
    <3>2. Same(new, q) /\ new.pc = "lock" /\ new.p = p /\ new.seen = n
      BY ONLY q \in PersonaAsk DEF PersonaAsk, Same
    <3> QED
      BY <3>1, <3>2
  <2>2. Step(c, new)
    BY <1>2
  <2> HIDE DEF new
  <2>3. /\ RowsTyped' /\ Grows /\ Owned' = Owned /\ LocksKept(c)
        /\ \A r \in PersonaAsk : Sane(r) => Sane(r)'
    BY <1>0, <1>2, RestStays DEF RestTyped
  <2>4. Sane(new)
    BY <1>0, <1>2, <2>1 DEF Sane, Same, Rendering, Writing, Owned, There
  <2>5. Lonely(new)'
    BY <1>0, <2>1 DEF Lonely, Same, Rendering, Writing
  <2>6. AtMostOne => Owned = {p}
    BY <1>2 DEF AtMostOne
  <2>7. Tidy(new)'
    BY <1>0, <2>1, <2>3, <2>6 DEF Tidy, Same, Writing
  <2> QED
    BY <1>0, <1>1, <2>1, <2>2, <2>3, <2>4, <2>5, <2>7, StepsOn DEF Same
<1>3. CASE /\ Owned = {} /\ \E text \in q.text : InsertPersona(p, TRUE, text)
           /\ Step(c, [q EXCEPT !.pc = "get", !.p = p, !.seen = 1, !.made = TRUE])
  <2> DEFINE new == [q EXCEPT !.pc = "get", !.p = p, !.seen = 1, !.made = TRUE]
  <2>1. new \in PersonaAsk /\ new.pc = "get" /\ Same(new, q) /\ new.p = p /\ new.seen = 1
    <3>1. new \in PersonaAsk
      BY ONLY q \in PersonaAsk, p \in PersonaIds DEF PersonaAsk, Rendering, Writing
    <3>2. Same(new, q) /\ new.pc = "get" /\ new.p = p /\ new.seen = 1
      BY ONLY q \in PersonaAsk DEF PersonaAsk, Same
    <3> QED
      BY <3>1, <3>2
  <2>2. Step(c, new)
    BY <1>3
  <2> HIDE DEF new
  <2> PICK text \in Texts : InsertPersona(p, TRUE, text)
    BY <1>3
  <2>3. /\ RowsTyped' /\ Grows /\ persona[p].status = "unused"
        /\ There(p)' /\ Version(p)' = 1 /\ persona'[p].owned = TRUE
        /\ \A r \in PersonaIds : r # p => persona'[r] = persona[r]
    BY <1>0, RowInserted
  <2>4. Owned' = {p}
    BY <1>3, <2>3 DEF Owned, There
  <2>5. LocksKept(c)
    BY <1>0, <2>3, LocksAlike DEF There
  <2>6. Sane(new)'
    BY <1>0, <2>1, <2>3 DEF Sane, Same, Rendering, Writing, There
  <2>7. Lonely(new)'
    BY <1>0, <2>1, <2>3 DEF Lonely, Same, Rendering, Writing
  <2>8. Tidy(new)'
    BY <1>0, <2>1, <2>4 DEF Tidy, Same, Rendering, Writing
  <2> QED
    BY <1>0, <1>1, <2>1, <2>2, <2>3, <2>5, <2>6, <2>7, <2>8, StepsOn DEF Same
<1> QED
  BY <1>2, <1>3 DEF EnsureOwned

LEMMA LinkAgentKeeps ==
  ASSUME PersonaInv, NEW c \in Clients, LinkAgent(c)
  PROVE  PersonaInv'
<1> PICK q \in PersonaAsk :
      /\ q = request[c] /\ q.p \in PersonaIds /\ q.text \subseteq Texts /\ q.seen \in Nat
      /\ Sane(q) /\ Lonely(q) /\ Tidy(q)
  BY PersonaHeld
<1>0. /\ q.pc = "link" /\ (Works \/ Fails) /\ UNCHANGED <<persona, rendered, listed, holder>>
      /\ q.kind = "put" /\ RowsTyped /\ RestTyped
  BY DEF LinkAgent, Sane, PersonaInv
<1>1. \/ Ends(c, FALSE) /\ UNCHANGED agent
      \/ Ends(c, TRUE) /\ agent'.ref = q.p /\ agent'.there = agent.there
         /\ agent' \in [there : BOOLEAN, ref : PersonaIds]
  BY <1>0 DEF LinkAgent, RestTyped
<1>2. agent' \in [there : BOOLEAN, ref : PersonaIds]
  BY <1>0, <1>1 DEF RestTyped
<1>3. RestTyped'
  BY <1>0, <1>1, <1>2, FaultCount, EndsCount, RestAlike DEF RestTyped
<1>4. /\ RowsTyped' /\ Grows /\ Owned' = Owned
      /\ \A r \in PersonaIds : There(r)' = There(r) /\ Exact(r)' = Exact(r)
  BY <1>0, RowsAlike
<1>5. LocksKept(c)
  BY <1>0, <1>4, LocksAlike
<1>6. CASE Ends(c, FALSE)
  BY <1>0, <1>3, <1>4, <1>5, <1>6, EndsBadly
<1>7. CASE Ends(c, TRUE) /\ agent'.ref = q.p /\ agent'.there = agent.there
  <2>1. q.alone => Exact(q.p)' /\ agent'.there
    BY <1>0, <1>4, <1>7 DEF Lonely
  <2>2. q.alone /\ q.tidy => Owned' = {agent'.ref}
    BY <1>0, <1>4, <1>7 DEF Tidy
  <2> QED
    BY <1>0, <1>3, <1>4, <1>5, <1>7, <2>1, <2>2, EndsWell
<1> QED
  BY <1>1, <1>6, <1>7

LEMMA PutAgentKeeps ==
  ASSUME PersonaInv, NEW c \in Clients, PutAgent(c)
  PROVE  PersonaInv'
<1> PICK q \in PersonaAsk :
      /\ q = request[c] /\ q.p \in PersonaIds /\ q.text \subseteq Texts /\ q.seen \in Nat
      /\ Sane(q) /\ Lonely(q) /\ Tidy(q)
  BY PersonaHeld
<1>0. /\ q.pc = "putAgent" /\ (Works \/ Fails) /\ UNCHANGED <<persona, rendered, listed, holder>>
      /\ q.kind = "repoint" /\ RowsTyped /\ RestTyped /\ UNCHANGED personaEdits
  BY DEF PutAgent, To, Step, Ends, Replies, Sane, PersonaInv
<1>1. \/ Ends(c, FALSE) /\ UNCHANGED agent
      \/ To(c, "cleanup") /\ agent'.ref = q.p /\ agent' \in [there : BOOLEAN, ref : PersonaIds]
  BY <1>0 DEF PutAgent, RestTyped
<1>2. agent' \in [there : BOOLEAN, ref : PersonaIds]
  BY <1>0, <1>1 DEF RestTyped
<1>3. RestTyped'
  BY <1>0, <1>2, FaultCount, RestAlike DEF RestTyped
<1>4. /\ RowsTyped' /\ Grows /\ Owned' = Owned
      /\ \A r \in PersonaIds : There(r)' = There(r)
  BY <1>0, RowsAlike
<1>5. LocksKept(c)
  BY <1>0, <1>4, LocksAlike
<1>6. CASE Ends(c, FALSE)
  BY <1>0, <1>3, <1>4, <1>5, <1>6, EndsBadly
<1>7. CASE To(c, "cleanup") /\ agent'.ref = q.p
  <2> PICK new \in PersonaAsk : /\ new = [q EXCEPT !.pc = "cleanup"] /\ new.pc = "cleanup"
                                /\ Same(new, q) /\ new.p = q.p /\ new.seen = q.seen
    BY ONLY AskGoes, q \in PersonaAsk
  <2>1. Step(c, new)
    BY <1>7 DEF To
  <2>2. Sane(new)'
    BY <1>0, <1>4 DEF Sane, Same, Rendering, Writing, Grows
  <2>3. Lonely(new)'
    BY <1>0 DEF Lonely, Same, Rendering, Writing
  <2>4. Tidy(new)'
    BY <1>0, <1>4, <1>7 DEF Tidy, Same, Rendering, Writing, AtMostOne
  <2> QED
    BY <1>0, <1>3, <1>4, <1>5, <2>1, <2>2, <2>3, <2>4, StepsOn DEF Same
<1> QED
  BY <1>1, <1>6, <1>7

LEMMA CleanupKeeps ==
  ASSUME PersonaInv, NEW c \in Clients, Cleanup(c)
  PROVE  PersonaInv'
<1> PICK q \in PersonaAsk :
      /\ q = request[c] /\ q.p \in PersonaIds /\ q.text \subseteq Texts /\ q.seen \in Nat
      /\ Sane(q) /\ Lonely(q) /\ Tidy(q)
  BY PersonaHeld
<1>0. /\ q.pc = "cleanup" /\ (Works \/ Fails)
      /\ UNCHANGED <<persona, rendered, listed, holder, agent, personaEdits>>
      /\ q.kind \in {"repoint", "deleteAgent"}
  BY DEF Cleanup, Step, Ends, DeleteFailed, Replies, Sane
<1>1. /\ RowsTyped' /\ RestTyped' /\ Grows /\ LocksKept(c) /\ Owned' = Owned
      /\ \A p \in PersonaIds : There(p)' = There(p) /\ Version(p)' = Version(p)
                               /\ Exact(p)' = Exact(p)
      /\ \A r \in PersonaAsk : Sane(r) => Sane(r)'
  BY <1>0, RestStays DEF PersonaInv, RestTyped
<1>2. q.alone /\ q.tidy => AtMostOne /\ (q.kind = "repoint" => agent.ref = q.p)
  BY <1>0 DEF Tidy
<1>3. CASE DeleteFailed(c)
  BY <1>0, <1>1, <1>3, DeletesBadly
<1>4. CASE Ends(c, TRUE) /\ (Owned = {} \/ (q.kind = "repoint" /\ q.p \in Owned))
  <2>1. q.kind \notin {"create", "update", "rollback", "delete", "put"}
    BY <1>0
  <2>2. q.alone /\ q.tidy /\ q.kind = "repoint" => Owned' \subseteq {agent'.ref}
    BY <1>0, <1>1, <1>2, <1>4 DEF AtMostOne
  <2>3. q.kind = "deleteAgent" => Owned' = {}
    BY <1>1, <1>4
  <2> QED
    BY <1>0, <1>1, <1>4, <2>1, <2>2, <2>3, EndsWell
<1>5. ASSUME NEW p \in Owned, Step(c, [q EXCEPT !.pc = "deleteRow", !.p = p]) PROVE PersonaInv'
  <2> DEFINE new == [q EXCEPT !.pc = "deleteRow", !.p = p]
  <2>0. p \in PersonaIds /\ There(p)
    BY DEF Owned
  <2>1. new \in PersonaAsk /\ new.pc = "deleteRow" /\ Same(new, q) /\ new.p = p
    <3>1. new \in PersonaAsk
      BY ONLY q \in PersonaAsk, <2>0 DEF PersonaAsk, Rendering, Writing
    <3>2. Same(new, q) /\ new.pc = "deleteRow" /\ new.p = p
      BY ONLY q \in PersonaAsk DEF PersonaAsk, Same
    <3> QED
      BY <3>1, <3>2
  <2>2. Step(c, new)
    BY <1>5
  <2> HIDE DEF new
  <2>3. Sane(new)
    BY <1>0, <2>0, <2>1 DEF Sane, Same, Rendering, Writing, There
  <2>4. Lonely(new)'
    BY <1>0, <2>1 DEF Lonely, Same, Rendering, Writing
  <2>5. AtMostOne => Owned = {p}
    BY DEF AtMostOne
  <2>6. Tidy(new)'
    BY <1>0, <1>1, <1>2, <2>1, <2>5 DEF Tidy, Same, Rendering, Writing
  <2> QED
    BY <1>0, <1>1, <2>1, <2>2, <2>3, <2>4, <2>6, StepsOn DEF Same
<1> QED
  BY <1>3, <1>4, <1>5 DEF Cleanup

LEMMA PersonasCrashKeeps ==
  ASSUME PersonaInv, PersonasCrash
  PROVE  PersonaInv'
<1>0. /\ RowsTyped /\ RestTyped /\ Fails /\ UNCHANGED <<persona, rendered, listed, agent, personaEdits>>
      /\ request' = [c \in Clients |-> NoRequest] /\ outcome' = {}
      /\ holder' = [p \in PersonaIds |-> {}]
  BY DEF PersonaInv, PersonasCrash
<1>1. RowsTyped'
  BY <1>0, RowsAlike
<1>2. RestTyped'
  BY <1>0, FaultCount DEF RestTyped
<1>3. Sane(NoRequest)' /\ Lonely(NoRequest)' /\ Tidy(NoRequest)'
  BY <1>1, PersonaTypes DEF Sane, Lonely, Tidy, RowsTyped, Rendering, Writing
<1>4. ASSUME NEW c \in Clients PROVE Sane(request[c])' /\ Lonely(request[c])' /\ Tidy(request[c])'
  <2>1. request'[c] = NoRequest
    BY <1>0
  <2> QED
    BY <1>3, <2>1 DEF Sane, Lonely, Tidy
<1>5. request' \in [Clients -> PersonaAsk] /\ Locked' /\ Apart'
  BY <1>0, PersonaTypes DEF Locked, Apart
<1>6. LastStands' /\ PersonaRendered' /\ OwnedReclaimed'
  BY <1>0 DEF LastStands, PersonaRendered, OwnedReclaimed
<1> QED
  BY <1>1, <1>2, <1>4, <1>5, <1>6 DEF PersonaInv

\* Personas' own part of the step.
LEMMA PersonaStepKeeps ==
  ASSUME PersonaInv, [PersonasNext]_personaVars
  PROVE  PersonaInv'
<1>1. CASE UNCHANGED personaVars
  <2> SUFFICES PersonaInv' = PersonaInv
    OBVIOUS
  <2>1. UNCHANGED <<persona, rendered, listed, holder, agent, request, personaEdits, personaFaults,
                    outcome>>
    BY <1>1 DEF personaVars
  <2>2. RowsTyped' = RowsTyped /\ RestTyped' = RestTyped
    BY <2>1 DEF RowsTyped, RestTyped, There, Version
  <2>3. \A q : Sane(q)' = Sane(q) /\ Lonely(q)' = Lonely(q) /\ Tidy(q)' = Tidy(q)
    BY <2>1 DEF Sane, Lonely, Tidy, There, Version, Exact, Owned, AtMostOne
  <2>4. /\ Locked' = Locked /\ Apart' = Apart /\ LastStands' = LastStands
    BY <2>1 DEF Locked, Apart, LastStands, AllIdleBut, There
  <2>5. PersonaRendered' = PersonaRendered /\ OwnedReclaimed' = OwnedReclaimed
    BY <2>1 DEF PersonaRendered, OwnedReclaimed, Exact, Owned, There, Version
  <2>6. request' = request
    BY <2>1
  <2>7. (\A c \in Clients : Sane(request[c]) /\ Lonely(request[c]) /\ Tidy(request[c]))' =
        (\A c \in Clients : Sane(request[c]) /\ Lonely(request[c]) /\ Tidy(request[c]))
    BY <2>1 DEF Sane, Lonely, Tidy, There, Version, Exact, Owned, AtMostOne
  <2> QED
    BY <2>2, <2>4, <2>5, <2>6, <2>7 DEF PersonaInv
<1>2. ASSUME NEW c \in Clients, PersonaRequest(c) PROVE PersonaInv'
  <2>1. 1..(MaxPersonaEdits + 1) \subseteq Nat
    BY PersonasAssumption
  <2> QED
    BY <1>2, <2>1, CreatePersonaKeeps, UpdatePersonaKeeps, RollbackPersonaKeeps, DeletePersonaKeeps,
       RePointAgentKeeps, PutAgentPersonaKeeps, DeleteAgentKeeps DEF PersonaRequest
<1>3. ASSUME NEW c \in Clients, PersonaStep(c) PROVE PersonaInv'
  BY <1>3, LockRowKeeps, CommitKeeps, RereadKeeps, RemoveRowKeeps, DeleteMapKeeps, UnlistKeeps,
     ListKeeps, GetMapKeeps, CreateMapKeeps, PutMapKeeps, UndoKeeps, EnsureOwnedKeeps,
     LinkAgentKeeps, PutAgentKeeps, CleanupKeeps DEF PersonaStep
<1> QED
  BY <1>1, <1>2, <1>3, PersonasCrashKeeps DEF PersonasNext

LEMMA PersonaInitHolds ==
  ASSUME PersonasInit
  PROVE  PersonaInv
<1>0. /\ persona = [p \in PersonaIds |->
            IF p = Template
            THEN [status |-> "live", owned |-> FALSE, texts |-> <<CHOOSE text \in Texts : TRUE>>]
            ELSE Unused]
      /\ rendered = [p \in PersonaIds |-> IF p = Template THEN 1 ELSE 0]
      /\ listed = {Template} /\ holder = [p \in PersonaIds |-> {}]
      /\ agent = [there |-> TRUE, ref |-> Template]
      /\ request = [c \in Clients |-> NoRequest] /\ personaEdits = 0 /\ personaFaults = 0
      /\ outcome = {}
  BY DEF PersonasInit
<1> DEFINE row == [status |-> "live", owned |-> FALSE, texts |-> <<CHOOSE text \in Texts : TRUE>>]
<1>1. row \in PersonaRow /\ row.status = "live" /\ row.texts # <<>> /\ Len(row.texts) = 1
  <2>1. (CHOOSE text \in Texts : TRUE) \in Texts
    BY PersonaTypes
  <2> QED
    BY <2>1 DEF PersonaRow
<1>2. persona = [p \in PersonaIds |-> IF p = Template THEN row ELSE Unused]
  BY <1>0
<1> HIDE DEF row
<1>3. RowsTyped
  <2>1. persona \in [PersonaIds -> PersonaRow] /\ rendered \in [PersonaIds -> Nat]
    BY <1>0, <1>1, <1>2, PersonaTypes
  <2>2. ASSUME NEW p \in PersonaIds
        PROVE  /\ There(p) <=> persona[p].texts # <<>>
               /\ persona[p].status = "unused" => rendered[p] = 0
               /\ There(p) => rendered[p] <= Version(p)
    <3>1. CASE p = Template
      BY <1>0, <1>1, <1>2, <3>1 DEF There, Version
    <3>2. CASE p # Template
      BY <1>0, <1>2, <3>2, PersonaTypes DEF There, Version
    <3> QED
      BY <3>1, <3>2
  <2>3. persona[Template].status # "unused"
    BY <1>1, <1>2, PersonaTypes
  <2> QED
    BY <2>1, <2>2, <2>3 DEF RowsTyped
<1>4. RestTyped
  BY <1>0, PersonaTypes, PersonasAssumption DEF RestTyped
<1>5. Sane(NoRequest) /\ Lonely(NoRequest) /\ Tidy(NoRequest)
  BY <1>3, PersonaTypes DEF Sane, Lonely, Tidy, RowsTyped, Rendering, Writing
<1>6. \A c \in Clients : Sane(request[c]) /\ Lonely(request[c]) /\ Tidy(request[c])
  <2> SUFFICES ASSUME NEW c \in Clients PROVE Sane(request[c]) /\ Lonely(request[c]) /\ Tidy(request[c])
    OBVIOUS
  <2>1. request[c] = NoRequest
    BY <1>0
  <2> QED
    BY <1>5, <2>1
<1>7. request \in [Clients -> PersonaAsk] /\ Locked /\ Apart
  BY <1>0, PersonaTypes DEF Locked, Apart
<1>8. LastStands /\ PersonaRendered /\ OwnedReclaimed
  BY <1>0 DEF LastStands, PersonaRendered, OwnedReclaimed
<1> QED
  BY <1>3, <1>4, <1>6, <1>7, <1>8 DEF PersonaInv

LEMMA PersonaTyped ==
  ASSUME PersonaInv
  PROVE  PersonasTypeOK
<1>1. RowsTyped /\ RestTyped
  BY DEF PersonaInv
<1>2. ASSUME NEW p \in PersonaIds PROVE Cardinality(holder[p]) <= 1
  <2>1. CASE holder[p] = {}
    <3>1. Cardinality(holder[p]) = 0
      BY <2>1, FS_EmptySet
    <3> QED
      BY <3>1
  <2>2. CASE holder[p] # {}
    <3> PICK c : holder[p] = {c}
      BY <1>1, <2>2 DEF RestTyped
    <3>1. Cardinality(holder[p]) = 1
      BY FS_Singleton
    <3> QED
      BY <3>1
  <2> QED
    BY <2>1, <2>2
<1>3. ASSUME NEW p \in PersonaIds
      PROVE  persona[p].status \in {"unused", "live", "deleted"} /\ persona[p].texts \in Seq(Texts)
  BY <1>1 DEF RowsTyped, PersonaRow
<1> QED
  BY <1>1, <1>2, <1>3 DEF PersonasTypeOK, RowsTyped, RestTyped



(***************************************************************************)
(* The history of the runs.                                                *)
(***************************************************************************)
RecordStates == {"none", "running", "success", "failure"}
InQueue      == {"pending", "claimed", "completed", "failed"}
Message      == [run : Runs, at : Nat]
HistoryRow   == [run : Runs, from : {"record", "task"}, status : RecordStates]
ListingSet   ==
  [step : {"idle", "records", "tasks", "told"}, event : Events,
   status : {AnyStatus, "running", "success"}, rows : SUBSET HistoryRow,
   owed : SUBSET Runs, failed : BOOLEAN]
TallySet     ==
  [step : {"idle", "cached", "sums", "records", "told"}, range : Ranges, asked : Nat,
   read : SUBSET Message, due : SUBSET Runs, out : [Events -> Nat], failed : BOOLEAN, told : Nat]

RunsTyped ==
  /\ clock \in 0..MaxClock /\ tasks \in [Runs -> TaskStates]
  /\ records \in [Runs -> [status : RecordStates, start : Nat]]
  /\ \A r \in Runs : records[r].status = "none" => records[r] = NoRecord
  /\ closing \subseteq Runs /\ began \in [Runs -> Int] /\ sweep \in {"asleep", "invocations"}
  /\ transcript \subseteq Message /\ IsFiniteSet(transcript)
  /\ \A m \in transcript : m.at <= clock /\ tasks[m.run] # "unborn"

\* A run whose retention has not run out still has the record it began with.
Retained(r)  == began[r] >= 0 /\ began[r] >= clock - Retention
RecordsKept == \A r \in Runs : Retained(r) => records[r] # NoRecord /\ records[r].start = began[r]

\* A listing under way: the runs it owes are in the queue, and no run has two rows yet.
ListingHolds ==
  /\ listing \in ListingSet
  /\ listing.step \in {"records", "tasks"} => listing.owed \subseteq Queued(listing.event)
  /\ listing.step = "records" => listing.rows = {}
  /\ listing.step = "tasks" => \A row, also \in listing.rows : row.run = also.run => row = also
  /\ ListingIsWhole

\* A sum under way: the runs counted so far, and whom it has left out.
SumOf(read, counted, e) == Cardinality({m \in read : EventOf[m.run] = e /\ m.run \in counted})
SumHolds(read, due, out) == \E counted \in SUBSET Runs :
  /\ counted \cap due = {}
  /\ \A e \in Events : out[e] = SumOf(read, counted, e)
  /\ \A m \in read : Retained(m.run) => m.run \in due \union counted
TallyHolds ==
  /\ tally \in TallySet /\ IsFiniteSet(tally.read)
  /\ \A m \in tally.read : tasks[m.run] # "unborn"
  /\ tally.step = "sums" => tally.out = NoTally.out
  /\ tally.step = "records" /\ ~tally.failed => SumHolds(tally.read, tally.due, tally.out)
  /\ tally.step = "told" => tally.told <= clock
  /\ tally.step = "told" /\ ~tally.failed /\ tally.told = clock => SumHolds(tally.read, {}, tally.out)
TalliesTyped == tallies \in [Ranges -> [fresh : BOOLEAN, out : [Events -> Nat]]]

HistoryInv == RunsTyped /\ RecordsKept /\ ListingHolds /\ TallyHolds /\ TalliesTyped

LEMMA HistoryTypes ==
  /\ Retention \in Nat /\ ConversationRetention \in Nat /\ MaxClock \in Nat /\ MaxMessages \in Nat
  /\ MaxHistoryFaults \in Nat /\ Ranges \subseteq Nat /\ EventOf \in [Runs -> Events]
  /\ NoListing \in ListingSet /\ NoListing.step = "idle" /\ NoListing.rows = {}
  /\ NoListing.failed = FALSE
  /\ NoTally \in TallySet /\ NoTally.step = "idle" /\ NoTally.read = {} /\ NoTally.failed = FALSE
  /\ NoTally.out = [e \in Events |-> 0] /\ NoTally.out \in [Events -> Nat]
  /\ NoCache \in [Ranges -> [fresh : BOOLEAN, out : [Events -> Nat]]]
  /\ NoRecord \in [status : RecordStates, start : Nat] /\ NoRecord.status = "none"
<1>1. /\ Retention \in Nat /\ ConversationRetention \in Nat /\ MaxClock \in Nat /\ MaxMessages \in Nat
      /\ MaxHistoryFaults \in Nat /\ Ranges \subseteq Nat /\ EventOf \in [Runs -> Events]
  BY HistoryAssumption
<1>2. /\ NoListing \in ListingSet /\ NoListing.step = "idle" /\ NoListing.rows = {}
      /\ NoListing.failed = FALSE
  <2>1. (CHOOSE e \in Events : TRUE) \in Events
    BY HistoryAssumption
  <2> QED
    BY <2>1 DEF NoListing, ListingSet, AnyStatus
<1>3. /\ NoTally \in TallySet /\ NoTally.step = "idle" /\ NoTally.read = {} /\ NoTally.failed = FALSE
      /\ NoTally.out = [e \in Events |-> 0] /\ NoTally.out \in [Events -> Nat]
  <2>1. (CHOOSE r \in Ranges : TRUE) \in Ranges
    BY HistoryAssumption
  <2> QED
    BY <2>1 DEF NoTally, TallySet
<1>4. NoCache \in [Ranges -> [fresh : BOOLEAN, out : [Events -> Nat]]]
  BY <1>3 DEF NoCache
<1>5. NoRecord \in [status : RecordStates, start : Nat] /\ NoRecord.status = "none"
  BY DEF NoRecord, RecordStates
<1> QED
  BY <1>1, <1>2, <1>3, <1>4, <1>5

\* No task leaves the queue's reach, and none is unborn again.
QueuesGrow == \A r \in Runs :
  /\ tasks[r] \in InQueue => tasks'[r] \in InQueue
  /\ tasks[r] # "unborn" => tasks'[r] # "unborn" /\ began'[r] = began[r]

LEMMA ListingStays ==
  ASSUME ListingHolds, UNCHANGED listing, QueuesGrow
  PROVE  ListingHolds'
<1>1. Queued(listing.event) \subseteq Queued(listing.event)'
  BY DEF Queued, QueuesGrow, InQueue
<1>2. ListingIsWhole'
  BY DEF ListingHolds, ListingIsWhole
<1> QED
  BY <1>1, <1>2 DEF ListingHolds

LEMMA SumStays ==
  ASSUME RunsTyped, QueuesGrow, clock' \in Nat, clock <= clock', NEW read \in SUBSET Message,
         NEW due \in SUBSET Runs, NEW out, \A m \in read : tasks[m.run] # "unborn",
         SumHolds(read, due, out)
  PROVE  SumHolds(read, due, out)'
<1>1. ASSUME NEW m \in read, Retained(m.run)' PROVE Retained(m.run)
  <2>1. m.run \in Runs /\ began'[m.run] = began[m.run]
    BY DEF Message, QueuesGrow
  <2>2. clock \in Int /\ began[m.run] \in Int
    BY <2>1, HistoryTypes DEF RunsTyped
  <2> QED
    BY <1>1, <2>1, <2>2, HistoryTypes DEF Retained
<1> QED
  BY <1>1 DEF SumHolds, SumOf

LEMMA TallyStays ==
  ASSUME RunsTyped, TallyHolds, UNCHANGED tally, QueuesGrow, clock' \in Nat, clock <= clock'
  PROVE  TallyHolds'
<1> PICK q \in TallySet : q = tally /\ q = tally'
  BY DEF TallyHolds
<1>1. q.read \in SUBSET Message /\ q.due \in SUBSET Runs /\ q.told \in Nat /\ clock \in Nat
  BY HistoryTypes DEF TallySet, RunsTyped
<1>2. \A m \in q.read : tasks[m.run] # "unborn"
  BY DEF TallyHolds
<1>3. \A m \in q.read : tasks'[m.run] # "unborn"
  BY <1>1, <1>2 DEF QueuesGrow, Message
<1>4. q.step = "records" /\ ~q.failed => SumHolds(q.read, q.due, q.out)'
  BY <1>1, <1>2, SumStays DEF TallyHolds
<1>5. q.step = "told" => q.told <= clock'
  BY <1>1 DEF TallyHolds
<1>6. q.step = "told" /\ ~q.failed /\ q.told = clock' => SumHolds(q.read, {}, q.out)'
  <2> SUFFICES ASSUME q.step = "told", ~q.failed, q.told = clock' PROVE SumHolds(q.read, {}, q.out)'
    OBVIOUS
  <2>1. q.told = clock
    BY <1>1 DEF TallyHolds
  <2>2. SumHolds(q.read, {}, q.out)
    BY <2>1 DEF TallyHolds
  <2> QED
    BY <1>1, <1>2, <2>2, SumStays
<1>7. IsFiniteSet(q.read) /\ (q.step = "sums" => q.out = NoTally.out)
  BY DEF TallyHolds
<1>8. tally'.step = "records" /\ ~tally'.failed => SumHolds(tally.read, tally.due, tally.out)'
  BY <1>4 DEF SumHolds, SumOf
<1>9. tally'.step = "told" /\ ~tally'.failed /\ tally'.told = clock' => SumHolds(tally.read, {}, tally.out)'
  BY <1>6 DEF SumHolds, SumOf
<1> QED
  BY <1>3, <1>5, <1>7, <1>8, <1>9 DEF TallyHolds

\* A step of the runs, of the clock or of the sweep leaves the readers where they are.
LEMMA ReadersStay ==
  ASSUME HistoryInv, UNCHANGED <<listing, tally>>, RunsTyped', RecordsKept', TalliesTyped',
         QueuesGrow, clock <= clock'
  PROVE  HistoryInv'
<1>1. clock' \in Nat
  BY HistoryTypes DEF RunsTyped
<1>2. ListingHolds' /\ TallyHolds'
  BY <1>1, ListingStays, TallyStays DEF HistoryInv
<1> QED
  BY <1>2 DEF HistoryInv

RecordsTyped ==
  /\ records \in [Runs -> [status : RecordStates, start : Nat]]
  /\ \A r \in Runs : records[r].status = "none" => records[r] = NoRecord

LEMMA CompletedKeeps ==
  ASSUME RunsTyped, RecordsKept, NEW r \in Runs, NEW status \in {"success", "failure"},
         records' = Completed(r, status), UNCHANGED <<began, clock>>
  PROVE  RecordsKept' /\ RecordsTyped'
<1>1. \A t \in Runs : Retained(t)' = Retained(t)
  BY DEF Retained
<1>2. CASE records[r] = NoRecord
  BY <1>1, <1>2 DEF Completed, RecordsKept, RunsTyped, RecordsTyped
<1>3. CASE records[r] # NoRecord
  <2> PICK old \in [status : RecordStates, start : Nat] : old = records[r]
    BY DEF RunsTyped
  <2> DEFINE new == [old EXCEPT !.status = status]
  <2>1. new \in [status : RecordStates, start : Nat] /\ new.status # "none" /\ new.start = old.start
    BY DEF RecordStates
  <2>2. new # NoRecord
    BY <2>1, HistoryTypes
  <2>3. records' = [records EXCEPT ![r] = new]
    BY <1>3 DEF Completed
  <2> HIDE DEF new
  <2>4. /\ records' \in [Runs -> [status : RecordStates, start : Nat]] /\ records'[r] = new
        /\ \A t \in Runs \ {r} : records'[t] = records[t]
    BY <2>1, <2>3 DEF RunsTyped
  <2>5. RecordsTyped'
    BY <2>1, <2>4 DEF RecordsTyped, RunsTyped
  <2>6. RecordsKept'
    BY <1>1, <2>1, <2>2, <2>4 DEF RecordsKept
  <2> QED
    BY <2>5, <2>6
<1> QED
  BY <1>2, <1>3

LEMMA RecordRunKeeps ==
  ASSUME HistoryInv, NEW r \in Runs, RecordRun(r)
  PROVE  HistoryInv'
<1>0. RunsTyped /\ RecordsKept /\ TalliesTyped
  BY DEF HistoryInv
<1>1. /\ tasks[r] = "unborn" /\ tasks' = [tasks EXCEPT ![r] = "recorded"]
      /\ UNCHANGED <<clock, closing, transcript, sweep, listing, tally, tallies>>
      /\ \/ /\ records' = [records EXCEPT ![r] = [status |-> "running", start |-> clock]]
            /\ began' = [began EXCEPT ![r] = clock]
         \/ UNCHANGED <<records, began>>
  BY DEF RecordRun
<1>2. /\ tasks' \in [Runs -> TaskStates] /\ clock \in Nat
      /\ \A t \in Runs : t # r => tasks'[t] = tasks[t]
      /\ tasks'[r] # "unborn"
  BY <1>0, <1>1, HistoryTypes DEF RunsTyped, TaskStates
<1>3. QueuesGrow
  BY <1>0, <1>1, <1>2 DEF QueuesGrow, InQueue, RunsTyped
<1>4. CASE UNCHANGED <<records, began>>
  <2>1. RecordsKept'
    BY <1>0, <1>1, <1>4 DEF RecordsKept, Retained
  <2>2. \A m \in transcript' : m.at <= clock' /\ tasks'[m.run] # "unborn"
    BY <1>0, <1>1, <1>2 DEF RunsTyped, Message
  <2>3. RunsTyped' /\ TalliesTyped'
    BY <1>0, <1>1, <1>2, <1>4, <2>2 DEF RunsTyped, TalliesTyped
  <2> QED
    BY <1>1, <1>2, <1>3, <2>1, <2>3, ReadersStay
<1>5. CASE /\ records' = [records EXCEPT ![r] = [status |-> "running", start |-> clock]]
           /\ began' = [began EXCEPT ![r] = clock]
  <2> DEFINE new == [status |-> "running", start |-> clock]
  <2>1. new \in [status : RecordStates, start : Nat] /\ new.status = "running" /\ new.start = clock
    BY <1>2 DEF RecordStates
  <2>2. new # NoRecord
    BY <2>1, HistoryTypes
  <2>3. records' = [records EXCEPT ![r] = new]
    BY <1>5
  <2> HIDE DEF new
  <2>4. /\ records' \in [Runs -> [status : RecordStates, start : Nat]] /\ records'[r] = new
        /\ \A t \in Runs : t # r => records'[t] = records[t]
        /\ began' \in [Runs -> Int] /\ began'[r] = clock
        /\ \A t \in Runs : t # r => began'[t] = began[t]
    BY <1>0, <1>2, <1>5, <2>1, <2>3 DEF RunsTyped
  <2>5. RecordsKept'
    BY <1>0, <1>1, <2>1, <2>2, <2>4 DEF RecordsKept, Retained
  <2>6. \A m \in transcript' : m.at <= clock' /\ tasks'[m.run] # "unborn"
    BY <1>0, <1>1, <1>2 DEF RunsTyped, Message
  <2>7. \A t \in Runs : records'[t].status = "none" => records'[t] = NoRecord
    BY <1>0, <2>1, <2>4 DEF RunsTyped
  <2>8. RunsTyped' /\ TalliesTyped'
    BY <1>0, <1>1, <1>2, <2>4, <2>6, <2>7 DEF RunsTyped, TalliesTyped
  <2>9. QueuesGrow
    BY <1>1, <1>3, <2>4 DEF QueuesGrow
  <2> QED
    BY <1>1, <1>2, <2>5, <2>8, <2>9, ReadersStay
<1> QED
  BY <1>1, <1>4, <1>5

\* The run's task goes on in the queue.
LEMMA TaskGoes ==
  ASSUME HistoryInv, NEW r \in Runs, NEW state \in TaskStates \ {"unborn"},
         tasks[r] \in InQueue => state \in InQueue,
         tasks' = [tasks EXCEPT ![r] = state], UNCHANGED <<clock, transcript, began, sweep>>
  PROVE  /\ QueuesGrow /\ tasks' \in [Runs -> TaskStates]
         /\ \A m \in transcript' : m.at <= clock' /\ tasks'[m.run] # "unborn"
<1>1. RunsTyped
  BY DEF HistoryInv
<1>2. /\ tasks' \in [Runs -> TaskStates] /\ tasks'[r] = state
      /\ \A t \in Runs : t # r => tasks'[t] = tasks[t]
  BY <1>1 DEF RunsTyped
<1>3. QueuesGrow
  BY <1>2 DEF QueuesGrow
<1>4. \A m \in transcript' : m.at <= clock' /\ tasks'[m.run] # "unborn"
  BY <1>1, <1>2 DEF RunsTyped, Message
<1> QED
  BY <1>2, <1>3, <1>4

LEMMA EnqueueRunKeeps ==
  ASSUME HistoryInv, NEW r \in Runs, EnqueueRun(r)
  PROVE  HistoryInv'
<1>0. RunsTyped /\ RecordsKept /\ TalliesTyped
  BY DEF HistoryInv
<1>1. PICK state \in {"pending", "refused"} :
        /\ tasks[r] = "recorded" /\ tasks' = [tasks EXCEPT ![r] = state]
        /\ UNCHANGED <<clock, closing, transcript, began, sweep, listing, tally, tallies>>
        /\ records' = records \/ records' = Completed(r, "failure")
  BY DEF EnqueueRun
<1>2. /\ QueuesGrow /\ tasks' \in [Runs -> TaskStates]
      /\ \A m \in transcript' : m.at <= clock' /\ tasks'[m.run] # "unborn"
  BY <1>1, TaskGoes DEF TaskStates, InQueue
<1>3. RecordsKept' /\ RecordsTyped'
  <2>1. CASE records' = records
    BY <1>0, <1>1, <2>1 DEF RecordsKept, Retained, RecordsTyped, RunsTyped
  <2>2. CASE records' = Completed(r, "failure")
    BY <1>0, <1>1, <2>2, CompletedKeeps
  <2> QED
    BY <1>1, <2>1, <2>2
<1>4. RunsTyped' /\ TalliesTyped' /\ clock <= clock'
  BY <1>0, <1>1, <1>2, <1>3, HistoryTypes DEF RunsTyped, RecordsTyped, TalliesTyped
<1> QED
  BY <1>1, <1>2, <1>3, <1>4, ReadersStay

LEMMA ClaimRunKeeps ==
  ASSUME HistoryInv, NEW r \in Runs, ClaimRun(r)
  PROVE  HistoryInv'
<1>0. RunsTyped /\ RecordsKept /\ TalliesTyped
  BY DEF HistoryInv
<1>1. /\ tasks' = [tasks EXCEPT ![r] = "claimed"]
      /\ UNCHANGED <<clock, records, closing, transcript, began, sweep, listing, tally, tallies>>
  BY DEF ClaimRun
<1>2. /\ QueuesGrow /\ tasks' \in [Runs -> TaskStates]
      /\ \A m \in transcript' : m.at <= clock' /\ tasks'[m.run] # "unborn"
  BY <1>1, TaskGoes DEF TaskStates, InQueue
<1>3. RecordsKept'
  BY <1>0, <1>1 DEF RecordsKept, Retained
<1>4. RunsTyped' /\ TalliesTyped' /\ clock <= clock'
  BY <1>0, <1>1, <1>2, HistoryTypes DEF RunsTyped, TalliesTyped
<1> QED
  BY <1>1, <1>2, <1>3, <1>4, ReadersStay

LEMMA ReportRunKeeps ==
  ASSUME HistoryInv, NEW r \in Runs, ReportRun(r)
  PROVE  HistoryInv'
<1>0. RunsTyped /\ RecordsKept /\ TalliesTyped
  BY DEF HistoryInv
<1>1. PICK result \in {"completed", "failed", "pending"} :
        /\ tasks' = [tasks EXCEPT ![r] = result]
        /\ closing' = IF result = "pending" THEN closing ELSE closing \union {r}
        /\ UNCHANGED <<clock, records, transcript, began, sweep, listing, tally, tallies>>
  BY DEF ReportRun
<1>2. /\ QueuesGrow /\ tasks' \in [Runs -> TaskStates]
      /\ \A m \in transcript' : m.at <= clock' /\ tasks'[m.run] # "unborn"
  BY <1>1, TaskGoes DEF TaskStates, InQueue
<1>3. RecordsKept'
  BY <1>0, <1>1 DEF RecordsKept, Retained
<1>4. RunsTyped' /\ TalliesTyped' /\ clock <= clock'
  BY <1>0, <1>1, <1>2, HistoryTypes DEF RunsTyped, TalliesTyped
<1> QED
  BY <1>1, <1>2, <1>3, <1>4, ReadersStay

LEMMA RunsAlike ==
  ASSUME RunsTyped, UNCHANGED <<tasks, began>>
  PROVE  QueuesGrow
BY DEF QueuesGrow

LEMMA CloseRunKeeps ==
  ASSUME HistoryInv, NEW r \in Runs, CloseRun(r)
  PROVE  HistoryInv'
<1>0. RunsTyped /\ RecordsKept /\ TalliesTyped
  BY DEF HistoryInv
<1>1. /\ closing' = closing \ {r}
      /\ UNCHANGED <<clock, tasks, transcript, began, sweep, listing, tally, tallies>>
      /\ \/ records' = records
         \/ \E status \in {"success", "failure"} : records' = Completed(r, status)
  BY DEF CloseRun
<1>2. QueuesGrow
  BY <1>0, <1>1, RunsAlike
<1>3. RecordsKept' /\ RecordsTyped'
  <2>1. CASE records' = records
    BY <1>0, <1>1, <2>1 DEF RecordsKept, Retained, RecordsTyped, RunsTyped
  <2>2. ASSUME NEW status \in {"success", "failure"}, records' = Completed(r, status)
        PROVE  RecordsKept' /\ RecordsTyped'
    BY <1>0, <1>1, <2>2, CompletedKeeps
  <2> QED
    BY <1>1, <2>1, <2>2
<1>4. RunsTyped' /\ TalliesTyped' /\ clock <= clock'
  BY <1>0, <1>1, <1>3, HistoryTypes DEF RunsTyped, RecordsTyped, TalliesTyped
<1> QED
  BY <1>1, <1>2, <1>3, <1>4, ReadersStay

LEMMA PostMessageKeeps ==
  ASSUME HistoryInv, NEW r \in Runs, PostMessage(r)
  PROVE  HistoryInv'
<1>0. RunsTyped /\ RecordsKept /\ TalliesTyped
  BY DEF HistoryInv
<1> DEFINE m == [run |-> r, at |-> clock]
<1>1. /\ tasks[r] = "claimed" /\ transcript' = transcript \union {m}
      /\ UNCHANGED <<clock, tasks, records, closing, began, sweep, listing, tally, tallies>>
  BY DEF PostMessage, Inserted
<1>2. m \in Message /\ m.at = clock /\ m.run = r /\ clock \in Nat
  BY <1>0, HistoryTypes DEF Message, RunsTyped
<1> HIDE DEF m
<1>3. IsFiniteSet(transcript')
  BY <1>0, <1>1, FS_AddElement DEF RunsTyped
<1>4. QueuesGrow /\ RecordsKept'
  BY <1>0, <1>1, RunsAlike DEF RecordsKept, Retained
<1>5. \A n \in transcript' : n.at <= clock' /\ tasks'[n.run] # "unborn"
  BY <1>0, <1>1, <1>2 DEF RunsTyped
<1>6. RunsTyped' /\ TalliesTyped' /\ clock <= clock'
  BY <1>0, <1>1, <1>2, <1>3, <1>5 DEF RunsTyped, TalliesTyped
<1> QED
  BY <1>1, <1>4, <1>6, ReadersStay

LEMMA HourPassesKeeps ==
  ASSUME HistoryInv, HourPasses
  PROVE  HistoryInv'
<1>0. RunsTyped /\ RecordsKept
  BY DEF HistoryInv
<1>1. /\ clock < MaxClock /\ clock' = clock + 1 /\ tallies' = NoCache
      /\ UNCHANGED <<tasks, records, closing, transcript, began, sweep, listing, tally>>
  BY DEF HourPasses
<1>2. clock \in Nat /\ clock' \in 0..MaxClock /\ clock <= clock'
  BY <1>0, <1>1, HistoryTypes DEF RunsTyped
<1>3. QueuesGrow
  BY <1>0, <1>1, RunsAlike
<1>4. RecordsKept'
  <2>1. \A r \in Runs : Retained(r)' => Retained(r)
    BY <1>0, <1>1, <1>2, HistoryTypes DEF Retained, RunsTyped
  <2> QED
    BY <1>0, <1>1, <2>1 DEF RecordsKept
<1>5. \A m \in transcript' : m.at <= clock' /\ tasks'[m.run] # "unborn"
  BY <1>0, <1>1, <1>2 DEF RunsTyped, Message
<1>6. RunsTyped' /\ TalliesTyped'
  BY <1>0, <1>1, <1>2, <1>5, HistoryTypes DEF RunsTyped, TalliesTyped
<1> QED
  BY <1>1, <1>2, <1>3, <1>4, <1>6, ReadersStay

LEMMA SweepKeeps ==
  ASSUME HistoryInv, Sweep
  PROVE  HistoryInv'
<1>0. RunsTyped /\ RecordsKept /\ TalliesTyped
  BY DEF HistoryInv
<1>1. /\ UNCHANGED <<clock, tasks, closing, began, listing, tally, tallies>>
      /\ sweep' \in {"asleep", "invocations"}
  BY DEF Sweep, PruneConversations, PruneInvocations
<1>2. QueuesGrow /\ clock <= clock'
  BY <1>0, <1>1, RunsAlike, HistoryTypes DEF RunsTyped
<1>3. CASE records' = records /\ transcript' \subseteq transcript
  <2>1. RecordsKept'
    BY <1>0, <1>1, <1>3 DEF RecordsKept, Retained
  <2>2. IsFiniteSet(transcript')
    BY <1>0, <1>3, FS_Subset DEF RunsTyped
  <2>3. RunsTyped' /\ TalliesTyped'
    BY <1>0, <1>1, <1>3, <2>2 DEF RunsTyped, TalliesTyped
  <2> QED
    BY <1>1, <1>2, <2>1, <2>3, ReadersStay
<1>4. CASE /\ transcript' = transcript
           /\ records' = [r \in Runs |-> IF r \in ExpiredRuns THEN NoRecord ELSE records[r]]
  <2>1. ASSUME NEW r \in Runs, Retained(r)'
        PROVE  records'[r] # NoRecord /\ records'[r].start = began'[r]
    <3>1. Retained(r) /\ began[r] \in Int /\ clock \in Nat
      BY <1>0, <1>1, <2>1, HistoryTypes DEF Retained, RunsTyped
    <3>2. records[r] # NoRecord /\ records[r].start = began[r]
      BY <1>0, <3>1 DEF RecordsKept
    <3>3. r \notin ExpiredRuns
      BY <3>1, <3>2, HistoryTypes DEF ExpiredRuns, Retained
    <3> QED
      BY <1>1, <1>4, <3>2, <3>3
  <2>2. RecordsKept'
    BY <2>1 DEF RecordsKept
  <2>3. RecordsTyped'
    BY <1>0, <1>4, HistoryTypes DEF RunsTyped, RecordsTyped
  <2>4. RunsTyped' /\ TalliesTyped'
    BY <1>0, <1>1, <1>4, <2>3 DEF RunsTyped, TalliesTyped, RecordsTyped
  <2> QED
    BY <1>1, <1>2, <2>2, <2>4, ReadersStay
<1>5. \/ records' = records /\ transcript' \subseteq transcript
      \/ /\ transcript' = transcript
         /\ records' = [r \in Runs |-> IF r \in ExpiredRuns THEN NoRecord ELSE records[r]]
  BY DEF Sweep, PruneConversations, PruneInvocations
<1> QED
  BY <1>3, <1>4, <1>5

\* The two readers change nothing but what they have read.
LEMMA ListingMoves ==
  ASSUME HistoryInv, ListingHolds',
         UNCHANGED <<clock, tasks, records, closing, transcript, began, sweep, tally, tallies>>
  PROVE  HistoryInv'
<1>1. RunsTyped /\ RecordsKept /\ TalliesTyped /\ TallyHolds
  BY DEF HistoryInv
<1>2. RunsTyped' /\ RecordsKept' /\ TalliesTyped'
  BY <1>1 DEF RunsTyped, RecordsKept, Retained, TalliesTyped
<1>3. QueuesGrow /\ clock' \in Nat /\ clock <= clock'
  BY <1>1, RunsAlike, HistoryTypes DEF RunsTyped
<1>4. TallyHolds'
  BY <1>1, <1>3, TallyStays
<1> QED
  BY <1>2, <1>4 DEF HistoryInv

LEMMA TallyMoves ==
  ASSUME HistoryInv, TallyHolds', TalliesTyped',
         UNCHANGED <<clock, tasks, records, closing, transcript, began, sweep, listing>>
  PROVE  HistoryInv'
<1>1. RunsTyped /\ RecordsKept /\ ListingHolds
  BY DEF HistoryInv
<1>2. RunsTyped' /\ RecordsKept'
  BY <1>1 DEF RunsTyped, RecordsKept, Retained
<1>3. ListingHolds'
  BY <1>1, RunsAlike, ListingStays
<1> QED
  BY <1>2, <1>3 DEF HistoryInv

LEMMA AskRunsKeeps ==
  ASSUME HistoryInv, NEW e \in Events, NEW status \in {AnyStatus, "running", "success"},
         AskRuns(e, status)
  PROVE  HistoryInv'
<1>1. /\ listing' = [NoListing EXCEPT !.step = "records", !.event = e, !.status = status,
                                      !.owed = Queued(e)]
      /\ UNCHANGED <<clock, tasks, records, closing, transcript, began, sweep, tally, tallies>>
  BY DEF AskRuns
<1>2. Queued(e) \in SUBSET Runs /\ Queued(e)' = Queued(e)
  BY <1>1 DEF Queued
<1>3. /\ listing' \in ListingSet /\ listing'.step = "records" /\ listing'.event = e
      /\ listing'.owed = Queued(e) /\ listing'.rows = {}
  BY <1>1, <1>2, HistoryTypes DEF ListingSet
<1>4. ListingHolds'
  BY <1>2, <1>3 DEF ListingHolds, ListingIsWhole
<1> QED
  BY <1>1, <1>4, ListingMoves

LEMMA ReadRecordsKeeps ==
  ASSUME HistoryInv, ReadRecords
  PROVE  HistoryInv'
<1>0. RunsTyped /\ ListingHolds
  BY DEF HistoryInv
<1> PICK q \in ListingSet : q = listing
  BY <1>0 DEF ListingHolds
<1> DEFINE rows == {[run |-> r, from |-> "record", status |-> records[r].status] :
                      r \in Matching(q.event, q.status)}
<1>1. /\ q.step = "records"
      /\ \/ listing' = [q EXCEPT !.step = "tasks", !.rows = rows]
         \/ listing' = [q EXCEPT !.step = "tasks", !.failed = TRUE]
      /\ UNCHANGED <<clock, tasks, records, closing, transcript, began, sweep, tally, tallies>>
  BY DEF ReadRecords
<1>2. rows \in SUBSET HistoryRow
  BY <1>0 DEF HistoryRow, Matching, RunsTyped
<1>3. \A row, also \in rows : row.run = also.run => row = also
  OBVIOUS
<1>4. q.rows = {} /\ q.owed \subseteq Queued(q.event)
  BY <1>0, <1>1 DEF ListingHolds
<1> HIDE DEF rows
<1>5. /\ listing' \in ListingSet /\ listing'.step = "tasks" /\ listing'.event = q.event
      /\ listing'.owed = q.owed /\ listing'.rows \in {rows, {}}
  BY <1>1, <1>2, <1>4 DEF ListingSet
<1>6. Queued(q.event)' = Queued(q.event)
  BY <1>1 DEF Queued
<1>7. ListingHolds'
  BY <1>3, <1>4, <1>5, <1>6 DEF ListingHolds, ListingIsWhole
<1> QED
  BY <1>1, <1>7, ListingMoves

LEMMA ReadTasksKeeps ==
  ASSUME HistoryInv, ReadTasks
  PROVE  HistoryInv'
<1>0. RunsTyped /\ ListingHolds
  BY DEF HistoryInv
<1> PICK q \in ListingSet : q = listing
  BY <1>0 DEF ListingHolds
<1> DEFINE new == Synthesized(q.event, q.rows)
<1>1. /\ q.step = "tasks"
      /\ \/ listing' = [q EXCEPT !.step = "told", !.rows = q.rows \union new]
         \/ listing' = [q EXCEPT !.step = "told", !.failed = TRUE]
      /\ UNCHANGED <<clock, tasks, records, closing, transcript, began, sweep, tally, tallies>>
  BY DEF ReadTasks
<1>2. new \in SUBSET HistoryRow
  BY DEF HistoryRow, Synthesized, Queued, InvocationStatus, RecordStates
<1>3. q.rows \in SUBSET HistoryRow /\ q.owed \subseteq Queued(q.event)
      /\ \A row, also \in q.rows : row.run = also.run => row = also
  BY <1>0, <1>1 DEF ListingHolds, ListingSet
<1>4. ASSUME NEW r \in q.owed PROVE Cardinality({row \in q.rows \union new : row.run = r}) = 1
  <2>1. \E x : {row \in q.rows \union new : row.run = r} = {x}
    <3>1. CASE \E row \in q.rows : row.run = r
      <4> PICK x \in q.rows : x.run = r
        BY <3>1
      <4>1. \A row \in new : row.run # r
        BY DEF Synthesized
      <4>2. \A row \in q.rows : row.run = r => row = x
        BY <1>3
      <4>3. {row \in q.rows \union new : row.run = r} = {x}
        BY <4>1, <4>2
      <4> QED
        BY <4>3
    <3>2. CASE ~\E row \in q.rows : row.run = r
      <4> DEFINE x == [run |-> r, from |-> "task", status |-> InvocationStatus(tasks[r])]
      <4>1. x \in new /\ x.run = r
        BY <1>3, <3>2 DEF Synthesized
      <4>2. \A row \in new : row.run = r => row = x
        BY DEF Synthesized
      <4> HIDE DEF x
      <4>3. {row \in q.rows \union new : row.run = r} = {x}
        BY <3>2, <4>1, <4>2
      <4> QED
        BY <4>3
    <3> QED
      BY <3>1, <3>2
  <2> QED
    BY <2>1, FS_Singleton
<1> HIDE DEF new
<1>5. /\ listing' \in ListingSet /\ listing'.step = "told" /\ listing'.owed = q.owed
      /\ ~listing'.failed => listing'.rows = q.rows \union new
  <2>0. q.rows \union new \in SUBSET HistoryRow
    BY ONLY <1>2, <1>3
  <2>1. CASE listing' = [q EXCEPT !.step = "told", !.rows = q.rows \union new]
    BY ONLY q \in ListingSet, <2>0, <2>1 DEF ListingSet
  <2>2. CASE listing' = [q EXCEPT !.step = "told", !.failed = TRUE]
    BY ONLY q \in ListingSet, <2>2 DEF ListingSet
  <2> QED
    BY <1>1, <2>1, <2>2
<1>6. ListingIsWhole'
  BY <1>4, <1>5 DEF ListingIsWhole
<1>7. ListingHolds'
  BY <1>5, <1>6 DEF ListingHolds
<1> QED
  BY <1>1, <1>7, ListingMoves

LEMMA AskTokensKeeps ==
  ASSUME HistoryInv, NEW range \in Ranges, AskTokens(range)
  PROVE  HistoryInv'
<1>0. RunsTyped /\ TallyHolds /\ TalliesTyped
  BY DEF HistoryInv
<1>1. /\ \/ tally' = [NoTally EXCEPT !.step = "cached", !.range = range, !.out = tallies[range].out]
         \/ tally' = [NoTally EXCEPT !.step = "sums", !.range = range, !.asked = clock]
      /\ UNCHANGED <<clock, tasks, records, closing, transcript, began, sweep, listing, tallies>>
  BY DEF AskTokens
<1>2. tallies[range].out \in [Events -> Nat] /\ clock \in Nat
  BY <1>0, HistoryTypes DEF TalliesTyped, RunsTyped
<1>3. /\ tally' \in TallySet /\ tally'.read = {} /\ tally'.step \in {"cached", "sums"}
      /\ tally'.step = "sums" => tally'.out = NoTally.out
  <2>1. CASE tally' = [NoTally EXCEPT !.step = "cached", !.range = range, !.out = tallies[range].out]
    BY <1>2, <2>1, HistoryTypes DEF TallySet
  <2>2. CASE tally' = [NoTally EXCEPT !.step = "sums", !.range = range, !.asked = clock]
    BY <1>2, <2>2, HistoryTypes DEF TallySet
  <2> QED
    BY <1>1, <2>1, <2>2
<1>4. TallyHolds'
  BY <1>3, FS_EmptySet DEF TallyHolds
<1> QED
  BY <1>0, <1>1, <1>4, TallyMoves DEF TalliesTyped

\* Nothing is counted at first, and all that was read is due.
LEMMA SumStarts ==
  ASSUME NEW read \in SUBSET Message
  PROVE  SumHolds(read, {m.run : m \in read}, NoTally.out)
<1>1. \A e \in Events : SumOf(read, {}, e) = 0
  <2> TAKE e \in Events
  <2>1. {m \in read : EventOf[m.run] = e /\ m.run \in {}} = {}
    OBVIOUS
  <2> QED
    BY <2>1, FS_EmptySet DEF SumOf
<1>2. \A e \in Events : NoTally.out[e] = 0
  BY HistoryTypes
<1> QED
  BY <1>1, <1>2 DEF SumHolds

LEMMA ReadTranscriptsKeeps ==
  ASSUME HistoryInv, ReadTranscripts
  PROVE  HistoryInv'
<1>0. RunsTyped /\ TallyHolds /\ TalliesTyped
  BY DEF HistoryInv
<1> PICK q \in TallySet : q = tally
  BY <1>0 DEF TallyHolds
<1> DEFINE read == TokensSince(q.asked - q.range)
<1> DEFINE due == {m.run : m \in read}
<1>1. /\ q.step = "sums"
      /\ \/ tally' = [q EXCEPT !.step = "records", !.read = read, !.due = due]
         \/ tally' = NoTally
      /\ UNCHANGED <<clock, tasks, records, closing, transcript, began, sweep, listing, tallies>>
  BY DEF ReadTranscripts
<1>2. /\ read \in SUBSET Message /\ IsFiniteSet(read) /\ \A m \in read : tasks[m.run] # "unborn"
      /\ due \in SUBSET Runs
  <2>1. read \subseteq transcript
    BY DEF TokensSince
  <2> QED
    BY <1>0, <2>1, FS_Subset DEF RunsTyped, Message
<1>3. SumHolds(read, due, NoTally.out)
  BY <1>2, SumStarts
<1> HIDE DEF read, due
<1>4. PICK seen \in SUBSET Message : seen = read
  BY <1>2
<1>5. PICK owing \in SUBSET Runs : owing = due
  BY <1>2
<1>6. SumHolds(seen, owing, NoTally.out)'
  BY <1>1, <1>3, <1>4, <1>5 DEF SumHolds, SumOf, Retained, NoTally
<1>7. TalliesTyped'
  BY <1>0, <1>1 DEF TalliesTyped
<1>8. CASE tally' = NoTally
  <2>1. TallyHolds'
    BY <1>8, HistoryTypes, FS_EmptySet DEF TallyHolds
  <2> QED
    BY <1>1, <1>7, <2>1, TallyMoves
<1>9. CASE tally' = [q EXCEPT !.step = "records", !.read = seen, !.due = owing]
  <2>1. /\ tally' \in TallySet /\ tally'.step = "records" /\ tally'.read = seen
        /\ tally'.due = owing /\ tally'.out = q.out
    BY <1>9 DEF TallySet
  <2>2. q.out = NoTally.out
    BY <1>0, <1>1 DEF TallyHolds
  <2>3. SumHolds(tally.read, tally.due, tally.out)'
    BY <1>6, <2>1, <2>2 DEF SumHolds, SumOf
  <2>4. IsFiniteSet(tally'.read) /\ \A m \in tally'.read : tasks'[m.run] # "unborn"
    BY <1>1, <1>2, <1>4, <2>1
  <2>5. TallyHolds'
    BY <2>1, <2>3, <2>4 DEF TallyHolds
  <2> QED
    BY <1>1, <1>7, <2>5, TallyMoves
<1> QED
  BY <1>1, <1>4, <1>5, <1>8, <1>9

\* One run more is counted.
LEMMA SumGrows ==
  ASSUME NEW read \in SUBSET Message, IsFiniteSet(read), NEW counted \in SUBSET Runs,
         NEW r \in Runs, r \notin counted, NEW e \in Events
  PROVE  /\ SumOf(read, counted \union {r}, e) =
              SumOf(read, counted, e) + (IF e = EventOf[r] THEN Tokens(read, r) ELSE 0)
         /\ SumOf(read, counted, e) \in Nat /\ Tokens(read, r) \in Nat
<1> DEFINE A == {m \in read : EventOf[m.run] = e /\ m.run \in counted}
           B == {m \in read : m.run = r}
           C == {m \in read : EventOf[m.run] = e /\ m.run \in counted \union {r}}
<1>1. A \subseteq read /\ B \subseteq read /\ A \cap B = {}
  OBVIOUS
<1>2. IsFiniteSet(A) /\ IsFiniteSet(B)
  BY <1>1, FS_Subset
<1>3. Cardinality(A) \in Nat /\ Cardinality(B) \in Nat
  BY <1>2, FS_CardinalityType
<1>4. CASE e = EventOf[r]
  <2>1. C = A \union B
    BY <1>4
  <2> HIDE DEF A, B, C
  <2>2. Cardinality(A \union B) = Cardinality(A) + Cardinality(B) - Cardinality({})
    BY <1>1, <1>2, FS_Union
  <2>3. Cardinality(C) = Cardinality(A) + Cardinality(B)
    BY <1>3, <2>1, <2>2, FS_EmptySet
  <2> QED
    BY <1>3, <1>4, <2>3 DEF A, B, C, SumOf, Tokens
<1>5. CASE e # EventOf[r]
  <2>1. C = A
    BY <1>5
  <2> HIDE DEF A, B, C
  <2>2. Cardinality(C) = Cardinality(A) + 0
    BY <1>3, <2>1
  <2> QED
    BY <1>3, <1>5, <2>2 DEF A, B, C, SumOf, Tokens
<1> QED
  BY <1>4, <1>5

LEMMA SumTold ==
  ASSUME NEW read, NEW due, NEW out, SumHolds(read, due, out), UNCHANGED <<clock, began>>,
         tally'.read = read, tally'.due = due, tally'.out = out
  PROVE  SumHolds(tally.read, tally.due, tally.out)'
<1>1. \A t : Retained(t)' = Retained(t)
  BY DEF Retained
<1> QED
  BY <1>1 DEF SumHolds, SumOf

LEMMA CountRunKeeps ==
  ASSUME HistoryInv, NEW r \in Runs, CountRun(r)
  PROVE  HistoryInv'
<1>0. RunsTyped /\ TallyHolds /\ TalliesTyped /\ RecordsKept
  BY DEF HistoryInv
<1> PICK q \in TallySet : q = tally
  BY <1>0 DEF TallyHolds
<1>1. /\ q.step = "records" /\ r \in q.due
      /\ UNCHANGED <<clock, tasks, records, closing, transcript, began, sweep, listing, tallies>>
  BY DEF CountRun
<1>2. /\ q.read \in SUBSET Message /\ IsFiniteSet(q.read) /\ q.out \in [Events -> Nat]
      /\ q.due \in SUBSET Runs /\ \A m \in q.read : tasks[m.run] # "unborn"
      /\ EventOf[r] \in Events
  BY <1>0, HistoryTypes DEF TallyHolds, TallySet
<1>3. TalliesTyped'
  BY <1>0, <1>1 DEF TalliesTyped
<1>4. CASE tally' = [q EXCEPT !.due = q.due \ {r}, !.failed = TRUE]
  <2>1. /\ tally' \in TallySet /\ tally'.step = "records" /\ tally'.read = q.read /\ tally'.failed
    BY <1>1, <1>4 DEF TallySet
  <2>2. TallyHolds'
    BY <1>1, <1>2, <2>1 DEF TallyHolds
  <2> QED
    BY <1>1, <1>3, <2>2, TallyMoves
<1>5. CASE tally' = [q EXCEPT !.due = q.due \ {r},
                       !.out[EventOf[r]] = @ + (IF Held(r) THEN Tokens(q.read, r) ELSE 0)]
  <2>0. Tokens(q.read, r) \in Nat
    <3>1. {m \in q.read : m.run = r} \subseteq q.read
      OBVIOUS
    <3> QED
      BY <1>2, <3>1, FS_Subset, FS_CardinalityType DEF Tokens
  <2> PICK n \in Nat : n = IF Held(r) THEN Tokens(q.read, r) ELSE 0
    BY <2>0
  <2> DEFINE out == [q.out EXCEPT ![EventOf[r]] = q.out[EventOf[r]] + n]
  <2>9. out \in [Events -> Nat]
    BY <1>2
  <2>1. tally' = [q EXCEPT !.due = q.due \ {r}, !.out = out]
    BY <1>5
  <2>3. \A e \in Events : out[e] = q.out[e] + (IF e = EventOf[r] THEN n ELSE 0)
    BY <1>2
  <2> HIDE DEF out
  <2>2. /\ tally' \in TallySet /\ tally'.step = "records" /\ tally'.read = q.read
        /\ tally'.due = q.due \ {r} /\ tally'.out = out /\ tally'.failed = q.failed
    BY <1>1, <2>1, <2>9 DEF TallySet
  <2>4. ASSUME ~q.failed PROVE SumHolds(q.read, q.due \ {r}, out)
    <3> PICK counted \in SUBSET Runs :
          /\ counted \cap q.due = {}
          /\ \A e \in Events : q.out[e] = SumOf(q.read, counted, e)
          /\ \A m \in q.read : Retained(m.run) => m.run \in q.due \union counted
      BY <1>0, <1>1, <2>4 DEF TallyHolds, SumHolds
    <3>1. r \notin counted
      BY <1>1
    <3>2. CASE Held(r)
      <4>0. n = Tokens(q.read, r)
        BY <3>2
      <4>1. ASSUME NEW e \in Events PROVE out[e] = SumOf(q.read, counted \union {r}, e)
        <5>1. SumOf(q.read, counted \union {r}, e) =
                SumOf(q.read, counted, e) + (IF e = EventOf[r] THEN Tokens(q.read, r) ELSE 0)
          BY ONLY <1>2, <3>1, e \in Events, r \in Runs, counted \in SUBSET Runs, SumGrows
        <5>2. out[e] = SumOf(q.read, counted, e) + (IF e = EventOf[r] THEN n ELSE 0)
          BY <2>3
        <5> QED
          BY ONLY <4>0, <5>1, <5>2
      <4>2. (counted \union {r}) \cap (q.due \ {r}) = {}
        OBVIOUS
      <4>3. \A m \in q.read : Retained(m.run) => m.run \in (q.due \ {r}) \union (counted \union {r})
        OBVIOUS
      <4> QED
        BY ONLY <4>1, <4>2, <4>3, counted \union {r} \in SUBSET Runs DEF SumHolds
    <3>3. CASE ~Held(r)
      <4>1. \A e \in Events : out[e] = SumOf(q.read, counted, e)
        BY <1>2, <2>3, <3>3
      <4>2. ~Retained(r)
        BY <1>0, <3>3 DEF RecordsKept, Held
      <4>3. \A m \in q.read : Retained(m.run) => m.run \in (q.due \ {r}) \union counted
        BY <4>2
      <4> QED
        BY <4>1, <4>3 DEF SumHolds
    <3> QED
      BY <3>2, <3>3
  <2>5. tally'.step = "records" /\ ~tally'.failed => SumHolds(tally.read, tally.due, tally.out)'
    <3> SUFFICES ASSUME ~tally'.failed PROVE SumHolds(tally.read, tally.due, tally.out)'
      OBVIOUS
    <3>1. SumHolds(q.read, q.due \ {r}, out)
      BY <2>2, <2>4
    <3> QED
      BY <1>1, <2>2, <3>1, SumTold
  <2>6. TallyHolds'
    BY <1>1, <1>2, <2>2, <2>5 DEF TallyHolds
  <2> QED
    BY <1>1, <1>3, <2>6, TallyMoves
<1> QED
  BY <1>4, <1>5 DEF CountRun

LEMMA TellTokensKeeps ==
  ASSUME HistoryInv, TellTokens
  PROVE  HistoryInv'
<1>0. RunsTyped /\ TallyHolds /\ TalliesTyped
  BY DEF HistoryInv
<1> PICK q \in TallySet : q = tally
  BY <1>0 DEF TallyHolds
<1>1. UNCHANGED <<clock, tasks, records, closing, transcript, began, sweep, listing>>
  BY DEF TellTokens
<1>2. CASE tally' = NoTally /\ UNCHANGED tallies
  <2>1. TallyHolds'
    BY <1>2, HistoryTypes, FS_EmptySet DEF TallyHolds
  <2> QED
    BY <1>0, <1>1, <1>2, <2>1, TallyMoves DEF TalliesTyped
<1>3. CASE /\ q.step = "records" /\ q.due = {}
           /\ tallies' = [tallies EXCEPT ![q.range] = [fresh |-> TRUE, out |-> q.out]]
           /\ tally' = [q EXCEPT !.step = "told", !.told = clock]
  <2>1. clock \in Nat /\ q.out \in [Events -> Nat]
    BY <1>0, HistoryTypes DEF RunsTyped, TallySet
  <2>2. TalliesTyped'
    BY <1>0, <1>3, <2>1 DEF TalliesTyped
  <2>3. /\ tally' \in TallySet /\ tally'.step = "told" /\ tally'.read = q.read /\ tally'.told = clock
        /\ tally'.out = q.out /\ tally'.failed = q.failed
    BY <1>3, <2>1 DEF TallySet
  <2>4. ~q.failed => SumHolds(q.read, {}, q.out)
    BY <1>0, <1>3 DEF TallyHolds
  <2>5. ~tally'.failed => SumHolds(tally.read, {}, tally.out)'
    BY <1>1, <2>3, <2>4 DEF SumHolds, SumOf, Retained
  <2>6. IsFiniteSet(tally'.read) /\ (\A m \in tally'.read : tasks'[m.run] # "unborn")
        /\ tally'.told <= clock'
    BY <1>0, <1>1, <2>1, <2>3 DEF TallyHolds
  <2>7. TallyHolds'
    BY <2>3, <2>5, <2>6 DEF TallyHolds
  <2> QED
    BY <1>1, <2>2, <2>7, TallyMoves
<1> QED
  BY <1>2, <1>3 DEF TellTokens

LEMMA HistoryStepKeeps ==
  ASSUME HistoryInv, [HistoryNext]_historyVars
  PROVE  HistoryInv'
<1>1. CASE UNCHANGED historyVars
  <2>1. UNCHANGED <<clock, tasks, records, closing, transcript, began, sweep, listing, tally, tallies>>
    BY <1>1 DEF historyVars
  <2>2. RunsTyped' /\ RecordsKept' /\ TalliesTyped' /\ clock <= clock'
    BY <2>1, HistoryTypes DEF HistoryInv, RunsTyped, RecordsKept, Retained, TalliesTyped
  <2>3. QueuesGrow
    BY <2>1, RunsAlike DEF HistoryInv
  <2> QED
    BY <2>1, <2>2, <2>3, ReadersStay
<1>2. ASSUME NEW r \in Runs, RunOf(r) PROVE HistoryInv'
  BY <1>2, RecordRunKeeps, EnqueueRunKeeps, ClaimRunKeeps, ReportRunKeeps, CloseRunKeeps,
     PostMessageKeeps DEF RunOf
<1>3. CASE ListRuns
  BY <1>3, AskRunsKeeps, ReadRecordsKeeps, ReadTasksKeeps DEF ListRuns
<1>4. CASE TallyTokens
  BY <1>4, AskTokensKeeps, ReadTranscriptsKeeps, CountRunKeeps, TellTokensKeeps DEF TallyTokens
<1> QED
  BY <1>1, <1>2, <1>3, <1>4, HourPassesKeeps, SweepKeeps DEF HistoryNext

LEMMA HistoryInitHolds ==
  ASSUME HistoryInit
  PROVE  HistoryInv
<1>0. /\ clock = 0 /\ tasks = [r \in Runs |-> "unborn"] /\ records = [r \in Runs |-> NoRecord]
      /\ closing = {} /\ transcript = {} /\ began = [r \in Runs |-> -1] /\ sweep = "asleep"
      /\ listing = NoListing /\ tally = NoTally /\ tallies = NoCache
  BY DEF HistoryInit
<1>1. RunsTyped
  BY <1>0, HistoryTypes, FS_EmptySet DEF RunsTyped, TaskStates
<1>2. RecordsKept
  BY <1>0 DEF RecordsKept, Retained
<1>3. ListingHolds
  BY <1>0, HistoryTypes DEF ListingHolds, ListingIsWhole
<1>4. TallyHolds
  BY <1>0, HistoryTypes, FS_EmptySet DEF TallyHolds
<1>5. TalliesTyped
  BY <1>0, HistoryTypes DEF TalliesTyped
<1> QED
  BY <1>1, <1>2, <1>3, <1>4, <1>5 DEF HistoryInv

LEMMA HistoryTyped ==
  ASSUME HistoryInv
  PROVE  HistoryTypeOK
<1>1. RunsTyped
  BY DEF HistoryInv
<1>2. \A r \in Runs : records[r].status \in {"none", "running", "success", "failure"}
  BY <1>1 DEF RunsTyped, RecordStates
<1>3. \A m \in transcript : m.run \in Runs /\ m.at =< clock
  BY <1>1 DEF RunsTyped, Message
<1> QED
  BY <1>1, <1>2, <1>3 DEF HistoryTypeOK, RunsTyped

\* An answer has counted what is still retained, and nothing twice.
LEMMA SumsAreTold ==
  ASSUME HistoryInv
  PROVE  TokensTold
<1> SUFFICES ASSUME tally.step = "told", ~tally.failed, tally.told = clock, NEW e \in Events
             PROVE  LET read == {m \in tally.read : EventOf[m.run] = e}
                        Kept(m) == began[m.run] >= Max({0, tally.told - Retention})
                    IN  /\ tally.out[e] =< Cardinality(read)
                        /\ tally.out[e] >= Cardinality({m \in read : Kept(m)})
  BY DEF TokensTold
<1> DEFINE read == {m \in tally.read : EventOf[m.run] = e}
           Kept(m) == began[m.run] >= Max({0, tally.told - Retention})
           kept == {m \in read : Kept(m)}
<1>1. /\ RunsTyped /\ TallyHolds /\ tally.read \subseteq Message /\ IsFiniteSet(tally.read)
  BY DEF HistoryInv, TallyHolds, TallySet
<1> PICK counted \in SUBSET Runs :
      /\ tally.out[e] = SumOf(tally.read, counted, e)
      /\ \A m \in tally.read : Retained(m.run) => m.run \in counted
  <2>1. SumHolds(tally.read, {}, tally.out)
    BY <1>1 DEF TallyHolds
  <2> QED
    BY <2>1 DEF SumHolds
<1> DEFINE sum == {m \in tally.read : EventOf[m.run] = e /\ m.run \in counted}
<1>2. \A m \in tally.read : Kept(m) => Retained(m.run)
  <2>1. clock \in Nat /\ Retention \in Nat
    BY <1>1, HistoryTypes DEF RunsTyped
  <2>2. Max({0, clock - Retention}) \in Int /\ Max({0, clock - Retention}) >= 0
        /\ Max({0, clock - Retention}) >= clock - Retention
    <3> DEFINE S == {0, clock - Retention}
    <3>1. \E x \in S : \A y \in S : x >= y
      BY <2>1
    <3>2. Max(S) \in S /\ \A y \in S : Max(S) >= y
      BY <3>1 DEF Max
    <3> QED
      BY <2>1, <3>2
  <2>3. \A m \in tally.read : began[m.run] \in Int
    BY <1>1 DEF RunsTyped, Message
  <2> HIDE <1>1
  <2> QED
    BY <2>1, <2>2, <2>3 DEF Retained
<1>3. kept \subseteq sum /\ sum \subseteq read /\ read \subseteq tally.read
  BY <1>2
<1> HIDE DEF Kept
<1>4. IsFiniteSet(read) /\ IsFiniteSet(sum) /\ IsFiniteSet(kept)
  BY <1>1, <1>3, FS_Subset
<1>5. Cardinality(sum) <= Cardinality(read) /\ Cardinality(kept) <= Cardinality(sum)
      /\ Cardinality(read) \in Nat /\ Cardinality(sum) \in Nat /\ Cardinality(kept) \in Nat
  BY <1>3, <1>4, FS_Subset, FS_CardinalityType
<1>6. tally.out[e] = Cardinality(sum)
  BY DEF SumOf
<1>7. tally.out[e] =< Cardinality(read) /\ tally.out[e] >= Cardinality(kept)
  BY ONLY <1>5, <1>6
<1> QED
  BY <1>7 DEF Kept



(***************************************************************************)
(* The figures of the panels.                                              *)
(***************************************************************************)
LedgerRow == [kind : {"event", "task", "error"}, event : EventIds, at : Nat]

LedgerTyped ==
  /\ instant \in 0..MaxInstant
  /\ writing \subseteq LedgerRow /\ ledger \subseteq LedgerRow
  /\ IsFiniteSet(writing) /\ IsFiniteSet(ledger)
  /\ \A row \in writing \union ledger : row.at <= instant

\* An answer; what a chart's points are is left open.
IsValue(x) ==
  /\ x = [source |-> x.source, end |-> x.end, since |-> x.since, stored |-> x.stored,
          known |-> x.known, figures |-> x.figures, points |-> x.points]
  /\ x.end \in Int /\ x.since \in Int /\ x.stored \in Nat
  /\ x.known \subseteq LedgerRow /\ IsFiniteSet(x.known) /\ x.figures \in [Metrics -> Int]

\* What was there when the request began is there, but for errors past their retention.
StillThere(x) == \A row \in x.known :
  row \in ledger \/ (row.kind = "error" /\ row.at < instant - LogRetention)

Retains(x, m, horizon) ==
  {row \in Within(m, x.known, x.since, x.end) : m = "routing_errors" => row.at >= horizon - LogRetention}
Counts(x, horizon) == \A m \in Metrics : x.figures[m] # Scraped =>
  /\ m # "routing_errors" => x.figures[m] <= Counted(m, Within(m, ledger, x.since, x.end))
  /\ x.figures[m] >= Counted(m, Retains(x, m, horizon))

ViewerHolds(q) ==
  /\ q = [step |-> q.step, panel |-> q.panel, at |-> q.at, value |-> q.value]
  /\ q.step \in {"idle", "asked", "read", "told"} /\ q.panel \in Panels /\ q.at \in Nat
  /\ IsValue(q.value)
  /\ q.step \in {"asked", "read"} => q.value.source = Backend /\ StillThere(q.value)
  /\ q.step = "asked" => q.value.figures = NoValue.figures
  /\ q.step = "read" => Counts(q.value, instant)
  /\ q.step = "told" => /\ q.at <= q.value.stored + TTL /\ q.value.source = Backend
                        /\ Counts(q.value, q.value.stored)
ShelfHolds(q) ==
  /\ q = [expires |-> q.expires, value |-> q.value]
  /\ q.expires \in Int /\ IsValue(q.value) /\ q.expires <= instant + TTL
  /\ q.expires >= 0 => /\ q.expires = q.value.stored + TTL /\ q.value.source = Backend
                       /\ Counts(q.value, q.value.stored)

FiguresInv ==
  /\ LedgerTyped
  /\ viewers = [v \in Viewers |-> viewers[v]] /\ \A v \in Viewers : ViewerHolds(viewers[v])
  /\ shelf = [p \in Panels |-> shelf[p]] /\ \A p \in Panels : ShelfHolds(shelf[p])

LEMMA FigureTypes ==
  /\ Grain \in Nat /\ Window \in Nat /\ TTL \in Nat /\ LogRetention \in Nat /\ MaxInstant \in Nat
  /\ IsValue(NoValue) /\ \A m \in Metrics : NoValue.figures[m] = Scraped
  /\ "ever" \in Panels
<1>1. NoValue.figures \in [Metrics -> Int] /\ \A m \in Metrics : NoValue.figures[m] = Scraped
  BY DEF NoValue, Scraped
<1>2. /\ NoValue.end \in Int /\ NoValue.since \in Int /\ NoValue.stored \in Nat /\ NoValue.known = {}
      /\ NoValue = [source |-> NoValue.source, end |-> NoValue.end, since |-> NoValue.since,
                    stored |-> NoValue.stored, known |-> NoValue.known, figures |-> NoValue.figures,
                    points |-> NoValue.points]
  BY DEF NoValue
<1>3. IsValue(NoValue)
  BY <1>1, <1>2, FS_EmptySet DEF IsValue
<1> QED
  BY <1>1, <1>3, FiguresAssumption DEF Panels

LEMMA TruncatedDown ==
  ASSUME NEW t \in Nat
  PROVE  Truncated(t) \in 0..t
<1>1. Grain \in Nat /\ Grain > 0
  BY FiguresAssumption
<1>2. t % Grain \in 0..(Grain - 1) /\ t \div Grain \in Int /\ t = Grain * (t \div Grain) + (t % Grain)
  BY <1>1
<1>3. t \div Grain >= 0
  BY <1>1
<1>4. Grain * (t \div Grain) >= 0
  BY <1>1, <1>2, <1>3
<1> QED
  BY <1>1, <1>2, <1>4 DEF Truncated

\* More rows count for more, and every event with one of them.
LEMMA CountedMore ==
  ASSUME NEW few, NEW many, few \subseteq many, IsFiniteSet(many), NEW m
  PROVE  Counted(m, few) <= Counted(m, many) /\ Counted(m, few) \in Nat /\ Counted(m, many) \in Nat
<1>1. IsFiniteSet(few) /\ Cardinality(few) <= Cardinality(many)
      /\ Cardinality(few) \in Nat /\ Cardinality(many) \in Nat
  BY FS_Subset, FS_CardinalityType
<1> DEFINE Of(rows) == {row.event : row \in rows}
<1>2. IsFiniteSet(Of(many))
  <2> DEFINE f == [row \in many |-> row.event]
  <2>1. f \in Surjection(many, Of(many))
    BY DEF Surjection
  <2> HIDE DEF f, Of
  <2> QED
    BY <2>1, FS_Surjection
<1>3. Of(few) \subseteq Of(many)
  OBVIOUS
<1>4. Cardinality(Of(few)) <= Cardinality(Of(many)) /\ Cardinality(Of(few)) \in Nat
      /\ Cardinality(Of(many)) \in Nat
  <2> HIDE DEF Of
  <2>1. IsFiniteSet(Of(few)) /\ Cardinality(Of(few)) <= Cardinality(Of(many))
    BY <1>2, <1>3, FS_Subset
  <2> QED
    BY <1>2, <2>1, FS_CardinalityType
<1> QED
  BY <1>1, <1>4 DEF Counted

\* Rows are only added, but for errors past their retention.
RowsStay ==
  /\ \A row \in ledger : row \in ledger' \/ (row.kind = "error" /\ row.at < instant - LogRetention)
  /\ instant <= instant' /\ wiring' = wiring

LEMMA CountsStay ==
  ASSUME LedgerTyped, LedgerTyped', RowsStay, NEW x, IsValue(x), NEW horizon, Counts(x, horizon)
  PROVE  Counts(x, horizon)'
<1> SUFFICES ASSUME NEW m \in Metrics, x.figures[m] # Scraped
             PROVE  /\ m # "routing_errors" =>
                         x.figures[m] <= Counted(m, Within(m, ledger', x.since, x.end))
                    /\ x.figures[m] >= Counted(m, Retains(x, m, horizon))
  BY DEF Counts, Retains, Within, Truncated
<1>1. x.figures[m] \in Int
  BY DEF IsValue
<1>2. x.figures[m] >= Counted(m, Retains(x, m, horizon))
  BY DEF Counts
<1>3. ASSUME m # "routing_errors" PROVE x.figures[m] <= Counted(m, Within(m, ledger', x.since, x.end))
  <2>1. KindOf[m] # "error"
    BY <1>3 DEF KindOf
  <2>2. Within(m, ledger, x.since, x.end) \subseteq Within(m, ledger', x.since, x.end)
    BY <2>1 DEF RowsStay, Within
  <2>3. IsFiniteSet(Within(m, ledger', x.since, x.end))
    <3>1. Within(m, ledger', x.since, x.end) \subseteq ledger' /\ IsFiniteSet(ledger')
      BY DEF Within, LedgerTyped
    <3> QED
      BY <3>1, FS_Subset
  <2>4. x.figures[m] <= Counted(m, Within(m, ledger, x.since, x.end))
    BY <1>3 DEF Counts
  <2> QED
    BY <1>1, <2>2, <2>3, <2>4, CountedMore
<1> QED
  BY <1>2, <1>3

\* Later, less has to be retained.
LEMMA CountsLater ==
  ASSUME NEW x, IsValue(x), NEW horizon \in Int, NEW later \in Int, horizon <= later,
         Counts(x, horizon)
  PROVE  Counts(x, later)
<1> SUFFICES ASSUME NEW m \in Metrics, x.figures[m] # Scraped
             PROVE  x.figures[m] >= Counted(m, Retains(x, m, later))
  BY DEF Counts
<1>1. x.figures[m] \in Int /\ x.figures[m] >= Counted(m, Retains(x, m, horizon))
  BY DEF IsValue, Counts
<1>2. \A row \in x.known : row.at \in Nat
  BY DEF IsValue, LedgerRow
<1>3. Retains(x, m, later) \subseteq Retains(x, m, horizon)
  BY <1>2, FigureTypes DEF Retains, Within
<1>4. IsFiniteSet(Retains(x, m, horizon))
  <2>1. Retains(x, m, horizon) \subseteq x.known /\ IsFiniteSet(x.known)
    BY DEF Retains, Within, IsValue
  <2> QED
    BY <2>1, FS_Subset
<1> QED
  BY <1>1, <1>3, <1>4, CountedMore

LEMMA ThereStays ==
  ASSUME LedgerTyped, LedgerTyped', RowsStay, NEW x, IsValue(x), StillThere(x)
  PROVE  StillThere(x)'
<1>1. \A row \in x.known : row.at \in Nat
  BY DEF IsValue, LedgerRow
<1>2. instant \in Int /\ instant' \in Int /\ instant <= instant'
  BY FigureTypes DEF LedgerTyped, RowsStay
<1> QED
  BY <1>1, <1>2, FigureTypes DEF StillThere, RowsStay

LEMMA ViewerStays ==
  ASSUME LedgerTyped, LedgerTyped', RowsStay, NEW q, ViewerHolds(q)
  PROVE  ViewerHolds(q)'
<1>1. IsValue(q.value) /\ Backend' = Backend
  BY DEF ViewerHolds, RowsStay, Backend
<1>2. instant \in Int /\ instant' \in Int /\ instant <= instant'
  BY FigureTypes DEF LedgerTyped, RowsStay
<1>3. q.step \in {"asked", "read"} => StillThere(q.value)'
  BY <1>1, ThereStays DEF ViewerHolds
<1>4. ASSUME q.step = "read" PROVE Counts(q.value, instant)'
  <2> PICK now \in Int, then \in Int : now = instant /\ then = instant' /\ now <= then
    BY <1>2
  <2>1. Counts(q.value, now)
    BY <1>4 DEF ViewerHolds
  <2>2. Counts(q.value, then)
    BY <1>1, <2>1, CountsLater
  <2>3. Counts(q.value, then)'
    BY <1>1, <2>2, CountsStay
  <2> QED
    BY <2>3 DEF Counts, Retains
<1>5. ASSUME q.step = "told" PROVE Counts(q.value, q.value.stored)'
  BY <1>1, <1>5, CountsStay DEF ViewerHolds
<1> QED
  BY <1>1, <1>3, <1>4, <1>5 DEF ViewerHolds

LEMMA ShelfStays ==
  ASSUME LedgerTyped, LedgerTyped', RowsStay, NEW q, ShelfHolds(q)
  PROVE  ShelfHolds(q)'
<1>1. IsValue(q.value) /\ Backend' = Backend
  BY DEF ShelfHolds, RowsStay, Backend
<1>2. q.expires \in Int /\ q.expires <= instant' + TTL
  BY FigureTypes DEF LedgerTyped, RowsStay, ShelfHolds
<1>3. ASSUME q.expires >= 0 PROVE Counts(q.value, q.value.stored)'
  BY <1>1, <1>3, CountsStay DEF ShelfHolds
<1> QED
  BY <1>1, <1>2, <1>3 DEF ShelfHolds

\* Rows come and go; the panels stay.
LEMMA PanelsStay ==
  ASSUME FiguresInv, LedgerTyped', RowsStay, UNCHANGED <<shelf, viewers>>
  PROVE  FiguresInv'
<1>1. \A v \in Viewers : ViewerHolds(viewers[v])'
  <2> TAKE v \in Viewers
  <2>1. \A q : ViewerHolds(q) => ViewerHolds(q)'
    BY ViewerStays DEF FiguresInv
  <2>2. ViewerHolds(viewers[v])
    BY DEF FiguresInv
  <2>3. viewers' = viewers
    OBVIOUS
  <2> QED
    BY <2>1, <2>2, <2>3
<1>2. \A p \in Panels : ShelfHolds(shelf[p])'
  <2> TAKE p \in Panels
  <2>1. \A q : ShelfHolds(q) => ShelfHolds(q)'
    BY ShelfStays DEF FiguresInv
  <2>2. ShelfHolds(shelf[p])
    BY DEF FiguresInv
  <2>3. shelf' = shelf
    OBVIOUS
  <2> QED
    BY <2>1, <2>2, <2>3
<1> QED
  BY <1>1, <1>2 DEF FiguresInv

\* Rows are stamped, committed and pruned.
LEMMA StampKeeps ==
  ASSUME FiguresInv, NEW kind \in {"event", "task", "error"}, NEW e \in EventIds, StampRow(kind, e)
  PROVE  FiguresInv'
<1> DEFINE row == [kind |-> kind, event |-> e, at |-> Truncated(instant)]
<1>1. instant \in Nat /\ Truncated(instant) \in 0..instant
  BY TruncatedDown, FigureTypes DEF FiguresInv, LedgerTyped
<1>2. row \in LedgerRow /\ row.at <= instant
  BY <1>1 DEF LedgerRow
<1>3. writing' = writing \union {row} /\ UNCHANGED <<instant, wiring, ledger, shelf, viewers>>
  BY DEF StampRow
<1> HIDE DEF row
<1>4. IsFiniteSet(writing \union {row})
  BY FS_AddElement DEF FiguresInv, LedgerTyped
<1>5. LedgerTyped'
  BY <1>2, <1>3, <1>4 DEF FiguresInv, LedgerTyped
<1>6. RowsStay
  BY <1>1, <1>3 DEF RowsStay
<1> QED
  BY <1>3, <1>5, <1>6, PanelsStay

LEMMA CommitRowKeeps ==
  ASSUME FiguresInv, NEW row \in writing, CommitRow(row)
  PROVE  FiguresInv'
<1>1. /\ writing' = writing \ {row} /\ ledger' = ledger \union {row}
      /\ UNCHANGED <<instant, wiring, shelf, viewers>>
  BY DEF CommitRow
<1>2. IsFiniteSet(writing \ {row}) /\ IsFiniteSet(ledger \union {row})
  BY FS_AddElement, FS_RemoveElement DEF FiguresInv, LedgerTyped
<1>3. LedgerTyped'
  BY <1>1, <1>2 DEF FiguresInv, LedgerTyped
<1>4. RowsStay
  BY <1>1, FigureTypes DEF RowsStay, FiguresInv, LedgerTyped
<1> QED
  BY <1>1, <1>3, <1>4, PanelsStay

LEMMA PruneKeeps ==
  ASSUME FiguresInv, PruneLogs
  PROVE  FiguresInv'
<1>1. /\ ledger' = {row \in ledger : row.kind = "error" => row.at >= instant - LogRetention}
      /\ UNCHANGED <<instant, wiring, writing, shelf, viewers>>
  BY DEF PruneLogs
<1>2. ledger' \subseteq ledger
  BY <1>1
<1>3. IsFiniteSet(ledger')
  BY <1>2, FS_Subset DEF FiguresInv, LedgerTyped
<1>4. LedgerTyped'
  BY <1>1, <1>2, <1>3 DEF FiguresInv, LedgerTyped
<1>5. instant \in Int /\ LogRetention \in Int /\ \A row \in ledger : row.at \in Int
  BY FigureTypes DEF FiguresInv, LedgerTyped, LedgerRow
<1>6. RowsStay
  BY <1>1, <1>5 DEF RowsStay
<1> QED
  BY <1>1, <1>4, <1>6, PanelsStay

LEMMA TimeKeeps ==
  ASSUME FiguresInv, TimePasses
  PROVE  FiguresInv'
<1>1. /\ instant < MaxInstant /\ instant' = instant + 1
      /\ UNCHANGED <<wiring, writing, ledger, shelf, viewers>>
  BY DEF TimePasses
<1>2. instant \in Nat /\ MaxInstant \in Nat /\ \A row \in writing \union ledger : row.at \in Nat
  BY FigureTypes DEF FiguresInv, LedgerTyped, LedgerRow
<1>3. LedgerTyped'
  BY <1>1, <1>2 DEF FiguresInv, LedgerTyped
<1>4. RowsStay
  BY <1>1, <1>2 DEF RowsStay
<1> QED
  BY <1>1, <1>3, <1>4, PanelsStay

\* A viewer's step, which may set a panel down.
LEMMA ViewKeeps ==
  ASSUME FiguresInv, UNCHANGED <<instant, wiring, writing, ledger>>,
         NEW v \in Viewers, NEW q, ViewerHolds(q), viewers' = [viewers EXCEPT ![v] = q],
         NEW p \in Panels, NEW s, ShelfHolds(s),
         shelf' = shelf \/ shelf' = [shelf EXCEPT ![p] = s]
  PROVE  FiguresInv'
<1>1. LedgerTyped' /\ RowsStay
  BY FigureTypes DEF FiguresInv, LedgerTyped, RowsStay
<1>2. \A r : (ViewerHolds(r) => ViewerHolds(r)') /\ (ShelfHolds(r) => ShelfHolds(r)')
  BY <1>1, ViewerStays, ShelfStays DEF FiguresInv
<1>3. viewers' = [w \in Viewers |-> viewers'[w]] /\ \A w \in Viewers : viewers'[w] = IF w = v THEN q ELSE viewers[w]
  BY DEF FiguresInv
<1>4. shelf' = [w \in Panels |-> shelf'[w]] /\ \A w \in Panels : shelf'[w] = s \/ shelf'[w] = shelf[w]
  BY DEF FiguresInv
<1>5. \A w \in Viewers : ViewerHolds(viewers[w])'
  <2> TAKE w \in Viewers
  <2> PICK r : r = viewers'[w]
    OBVIOUS
  <2>1. ViewerHolds(r)
    BY <1>3 DEF FiguresInv
  <2>2. ViewerHolds(r)'
    BY <1>2, <2>1
  <2> QED
    BY <2>2
<1>6. \A w \in Panels : ShelfHolds(shelf[w])'
  <2> TAKE w \in Panels
  <2> PICK r : r = shelf'[w]
    OBVIOUS
  <2>1. ShelfHolds(r)
    BY <1>4 DEF FiguresInv
  <2>2. ShelfHolds(r)'
    BY <1>2, <2>1
  <2> QED
    BY <2>2
<1> QED
  BY <1>1, <1>3, <1>4, <1>5, <1>6 DEF FiguresInv

\* An answer keeps its shape when its figures, its points or its time are filled in.
LEMMA ValueFields ==
  ASSUME NEW x, IsValue(x), NEW y,
         y = [source |-> y.source, end |-> y.end, since |-> y.since, stored |-> y.stored,
              known |-> y.known, figures |-> y.figures, points |-> y.points],
         y.end = x.end, y.since = x.since, y.known = x.known,
         y.stored \in Nat, y.figures \in [Metrics -> Int]
  PROVE  IsValue(y)
BY DEF IsValue

LEMMA AskKeeps ==
  ASSUME FiguresInv, NEW v \in Viewers, NEW p \in Panels, Ask(v, p)
  PROVE  FiguresInv'
<1>1. UNCHANGED <<instant, wiring, writing, ledger, shelf>>
  BY DEF Ask
<1>2. instant \in Nat /\ ledger \subseteq LedgerRow /\ IsFiniteSet(ledger) /\ ShelfHolds(shelf[p])
  BY FigureTypes DEF FiguresInv, LedgerTyped
<1>3. CASE Fresh(p)
  <2> PICK x : x = shelf[p].value
    OBVIOUS
  <2> DEFINE q == [step |-> "told", panel |-> p, at |-> instant, value |-> x]
  <2>1. viewers' = [viewers EXCEPT ![v] = q]
    BY <1>3 DEF Ask, Told
  <2>2. IsValue(x) /\ x.stored \in Nat /\ instant <= x.stored + TTL /\ x.source = Backend /\ Counts(x, x.stored)
    BY <1>2, <1>3, FigureTypes DEF ShelfHolds, Fresh, IsValue
  <2>3. ViewerHolds(q)
    BY <1>2, <2>2 DEF ViewerHolds
  <2> HIDE DEF q
  <2> QED
    BY <1>1, <1>2, <2>1, <2>3, ViewKeeps
<1>4. CASE ~ Fresh(p)
  <2> DEFINE x == [NoValue EXCEPT !.source = Backend, !.end = instant, !.known = ledger,
                                  !.since = IF p = "ever" THEN 0 ELSE instant - Window]
             q == [step |-> "asked", panel |-> p, at |-> instant, value |-> x]
  <2>1. viewers' = [viewers EXCEPT ![v] = q]
    BY <1>4 DEF Ask
  <2>2. x = [source |-> Backend, end |-> instant,
             since |-> IF p = "ever" THEN 0 ELSE instant - Window, stored |-> 0,
             known |-> ledger, figures |-> NoValue.figures, points |-> NoValue.points]
    <3> PICK n, begun, a, b, c : /\ n = NoValue /\ begun = (IF p = "ever" THEN 0 ELSE instant - Window)
                                 /\ a = [n EXCEPT !.source = Backend] /\ b = [a EXCEPT !.end = instant]
                                 /\ c = [b EXCEPT !.known = ledger]
      OBVIOUS
    <3>1. /\ n.stored = 0
          /\ n = [source |-> n.source, end |-> n.end, since |-> n.since, stored |-> n.stored,
                  known |-> n.known, figures |-> n.figures, points |-> n.points]
      BY DEF NoValue
    <3>2. a = [source |-> Backend, end |-> n.end, since |-> n.since, stored |-> n.stored,
               known |-> n.known, figures |-> n.figures, points |-> n.points]
      BY ONLY <3>1, a = [n EXCEPT !.source = Backend]
    <3>3. b = [source |-> Backend, end |-> instant, since |-> n.since, stored |-> n.stored,
               known |-> n.known, figures |-> n.figures, points |-> n.points]
      BY ONLY <3>2, b = [a EXCEPT !.end = instant]
    <3>4. c = [source |-> Backend, end |-> instant, since |-> n.since, stored |-> n.stored,
               known |-> ledger, figures |-> n.figures, points |-> n.points]
      BY ONLY <3>3, c = [b EXCEPT !.known = ledger]
    <3>5. [c EXCEPT !.since = begun] =
              [source |-> Backend, end |-> instant, since |-> begun, stored |-> n.stored,
               known |-> ledger, figures |-> n.figures, points |-> n.points]
      BY ONLY <3>4
    <3>6. x = [c EXCEPT !.since = begun]
      OBVIOUS
    <3> QED
      BY <3>1, <3>5, <3>6
  <2> HIDE DEF x
  <2>3. x.since \in Int
    BY <1>2, <2>2, FigureTypes
  <2>4. NoValue.figures \in [Metrics -> Int]
    BY FigureTypes DEF IsValue
  <2>5. IsValue(x)
    BY <1>2, <2>2, <2>3, <2>4 DEF IsValue
  <2>6. x.source = Backend /\ StillThere(x) /\ x.figures = NoValue.figures
    BY <2>2 DEF StillThere
  <2>7. ViewerHolds(q)
    BY <1>2, <2>5, <2>6 DEF ViewerHolds
  <2> HIDE DEF q
  <2> QED
    BY <1>1, <1>2, <2>1, <2>7, ViewKeeps
<1> QED
  BY <1>3, <1>4

\* A query finds every row that was there when the request began and still is.
LEMMA RowsAreFound ==
  ASSUME instant \in Nat, NEW x, IsValue(x), StillThere(x), NEW m \in Metrics
  PROVE  Retains(x, m, instant) \subseteq Within(m, ledger, x.since, x.end)
<1>1. KindOf[m] = "error" <=> m = "routing_errors"
  BY DEF KindOf, Metrics
<1>2. \A row \in x.known : row.at \in Int
  BY DEF IsValue, LedgerRow
<1>3. \A row \in Retains(x, m, instant) : row \in ledger
  BY <1>1, <1>2, FigureTypes DEF Retains, Within, StillThere
<1> QED
  BY <1>3 DEF Retains, Within

LEMMA ReadKeeps ==
  ASSUME FiguresInv, NEW v \in Viewers, Read(v)
  PROVE  FiguresInv'
<1>1. UNCHANGED <<instant, wiring, writing, ledger, shelf>> /\ viewers[v].step = "asked"
  BY DEF Read
<1>2. instant \in Nat /\ ledger \subseteq LedgerRow /\ IsFiniteSet(ledger) /\ ViewerHolds(viewers[v])
  BY FigureTypes DEF FiguresInv, LedgerTyped
<1> PICK r, x, p : r = viewers[v] /\ x = viewers[v].value /\ p = viewers[v].panel
  OBVIOUS
<1>3. /\ r = [step |-> "asked", panel |-> p, at |-> r.at, value |-> x] /\ p \in Panels /\ r.at \in Nat
      /\ IsValue(x) /\ x.source = Backend /\ StillThere(x) /\ x.figures = NoValue.figures
  BY <1>1, <1>2 DEF ViewerHolds
<1> PICK y : y = IF x.source = "prometheus" THEN [x EXCEPT !.figures = FromPrometheus(p, x)]
                 ELSE IF p \in Metrics
                 THEN [x EXCEPT !.points = DenseBuckets(Series(p, ledger, x.end - Window, x.end), x.end - Window, x.end)]
                 ELSE [x EXCEPT !.figures = Totals(ledger, x.since, x.end)]
  OBVIOUS
<1> DEFINE q == [step |-> "read", panel |-> p, at |-> r.at, value |-> y]
<1>4. viewers' = [viewers EXCEPT ![v] = q]
  <2>1. viewers' = [viewers EXCEPT ![v] = [[r EXCEPT !.step = "read"] EXCEPT !.value = y]]
    BY DEF Read, FiguresInv
  <2>2. [[r EXCEPT !.step = "read"] EXCEPT !.value = y] = q
    <3> PICK a : a = [r EXCEPT !.step = "read"]
      OBVIOUS
    <3>1. a = [step |-> "read", panel |-> r.panel, at |-> r.at, value |-> r.value]
      BY <1>3
    <3>2. [a EXCEPT !.value = y] = [step |-> "read", panel |-> r.panel, at |-> r.at, value |-> y]
      BY ONLY <3>1
    <3> QED
      BY <1>3, <3>2
  <2> QED
    BY <2>1, <2>2
\* What is found is counted.
<1> DEFINE Full(m) == /\ y.figures[m] \in Int
                      /\ m # "routing_errors" => y.figures[m] <= Counted(m, Within(m, ledger, x.since, x.end))
                      /\ y.figures[m] >= Counted(m, Retains(x, m, instant))
<1>5. /\ y = [source |-> x.source, end |-> x.end, since |-> x.since, stored |-> x.stored,
              known |-> x.known, figures |-> y.figures, points |-> y.points]
      /\ y.figures \in [Metrics -> Int]
      /\ \A m \in Metrics : y.figures[m] = Scraped \/ Full(m)
  <2>0. IsFiniteSet(ledger) /\ \A rows \in SUBSET ledger : IsFiniteSet(rows)
    BY <1>2, FS_Subset
  <2>1. CASE x.source = "prometheus"
    <3>1. y = [x EXCEPT !.figures = FromPrometheus(p, x)]
      BY <2>1
    <3>2. y.figures = FromPrometheus(p, x)
      BY <3>1, <1>3 DEF IsValue
    <3> DEFINE Errors == {row \in ledger : row.kind = "error" /\ row.at >= Truncated(x.since)}
    <3>3. \A m \in Metrics : y.figures[m] = IF p = "window" /\ m = "routing_errors" THEN Cardinality(Errors) ELSE Scraped
      <4>1. y.figures = [m \in Metrics |-> IF p = "window" /\ m = "routing_errors" THEN Cardinality(Errors) ELSE Scraped]
        BY <3>2 DEF FromPrometheus
      <4> HIDE DEF Errors
      <4> QED
        BY ONLY <4>1
    <3>4. KindOf["routing_errors"] = "error" /\ "routing_errors" \in Metrics
      BY DEF KindOf, Metrics
    <3>5. Retains(x, "routing_errors", instant) \subseteq Errors
      <4>1. Retains(x, "routing_errors", instant) \subseteq Within("routing_errors", ledger, x.since, x.end)
        BY <1>2, <1>3, <3>4, RowsAreFound
      <4>2. Within("routing_errors", ledger, x.since, x.end) \subseteq Errors
        BY <3>4 DEF Within
      <4> QED
        BY <4>1, <4>2
    <3>6. IsFiniteSet(Errors)
      BY <2>0
    <3> HIDE DEF Errors
    <3>7. /\ Counted("routing_errors", Retains(x, "routing_errors", instant)) <= Counted("routing_errors", Errors)
          /\ Counted("routing_errors", Errors) \in Nat
      BY <3>5, <3>6, CountedMore
    <3>8. Counted("routing_errors", Errors) = Cardinality(Errors)
      BY DEF Counted
    <3>9. \A m \in Metrics : y.figures[m] = Scraped \/ Full(m)
      BY <3>3, <3>7, <3>8
    <3>10. y.figures \in [Metrics -> Int]
      <4>1. y.figures = [m \in Metrics |-> y.figures[m]]
        BY <3>2 DEF FromPrometheus
      <4>2. \A m \in Metrics : y.figures[m] \in Int
        BY <3>9 DEF Scraped
      <4> QED
        BY <4>1, <4>2
    <3>11. y = [source |-> x.source, end |-> x.end, since |-> x.since, stored |-> x.stored,
                known |-> x.known, figures |-> y.figures, points |-> y.points]
      BY <1>3, <3>1 DEF IsValue
    <3> QED
      BY <3>9, <3>10, <3>11
  <2>2. CASE x.source # "prometheus" /\ p \in Metrics
    <3> PICK points : y = [x EXCEPT !.points = points]
      BY <2>2
    <3>1. /\ y.figures = x.figures
          /\ y = [source |-> x.source, end |-> x.end, since |-> x.since, stored |-> x.stored,
                  known |-> x.known, figures |-> y.figures, points |-> y.points]
      BY <1>3 DEF IsValue
    <3>2. x.figures \in [Metrics -> Int] /\ \A m \in Metrics : x.figures[m] = Scraped
      BY <1>3, FigureTypes DEF IsValue
    <3> QED
      BY <3>1, <3>2
  <2>3. CASE x.source # "prometheus" /\ p \notin Metrics
    <3>1. y = [x EXCEPT !.figures = Totals(ledger, x.since, x.end)]
      BY <2>3
    <3>2. /\ y.figures = Totals(ledger, x.since, x.end)
          /\ y = [source |-> x.source, end |-> x.end, since |-> x.since, stored |-> x.stored,
                  known |-> x.known, figures |-> y.figures, points |-> y.points]
      BY <3>1, <1>3 DEF IsValue
    <3>3. \A m \in Metrics : y.figures[m] = Counted(m, Within(m, ledger, x.since, x.end))
      BY <3>2 DEF Totals
    <3>4. \A m \in Metrics : Full(m)
      <4> TAKE m \in Metrics
      <4> PICK found : found = Within(m, ledger, x.since, x.end)
        OBVIOUS
      <4>1. Retains(x, m, instant) \subseteq found
        BY <1>2, <1>3, RowsAreFound
      <4>2. IsFiniteSet(found)
        <5>1. found \subseteq ledger
          BY DEF Within
        <5> QED
          BY <2>0, <5>1
      <4>3. Counted(m, Retains(x, m, instant)) <= Counted(m, found) /\ Counted(m, found) \in Nat
        BY <4>1, <4>2, CountedMore
      <4>4. y.figures[m] = Counted(m, found)
        BY <3>3
      <4> QED
        BY <4>3, <4>4
    <3>5. y.figures \in [Metrics -> Int]
      <4>1. y.figures = [m \in Metrics |-> y.figures[m]]
        BY ONLY <3>2 DEF Totals
      <4> QED
        BY <3>4, <4>1
    <3> QED
      BY <3>2, <3>4, <3>5
  <2> QED
    BY <2>1, <2>2, <2>3
<1>6. /\ y.source = x.source /\ y.end = x.end /\ y.since = x.since
      /\ y.stored = x.stored /\ y.known = x.known
  <2>1. y = [source |-> x.source, end |-> x.end, since |-> x.since, stored |-> x.stored,
             known |-> x.known, figures |-> y.figures, points |-> y.points]
    BY <1>5
  <2> QED
    BY ONLY <2>1
<1>7. IsValue(y)
  <2>1. /\ y = [source |-> y.source, end |-> y.end, since |-> y.since, stored |-> y.stored,
                known |-> y.known, figures |-> y.figures, points |-> y.points]
        /\ y.figures \in [Metrics -> Int]
    BY <1>5, <1>6
  <2>2. y.stored \in Nat
    BY <1>3, <1>6 DEF IsValue
  <2> QED
    BY <1>3, <1>6, <2>1, <2>2, ValueFields
<1>8. y.source = Backend /\ StillThere(y)
  BY <1>3, <1>6 DEF StillThere
<1>9. Counts(y, instant)
  BY <1>5, <1>6 DEF Counts, Retains
<1>10. ViewerHolds(q)
  BY <1>3, <1>7, <1>8, <1>9 DEF ViewerHolds
<1>11. "ever" \in Panels /\ ShelfHolds(shelf["ever"])
  BY FigureTypes DEF FiguresInv
<1> HIDE DEF q
<1> QED
  BY <1>1, <1>4, <1>10, <1>11, ViewKeeps

LEMMA ReadFailsKeeps ==
  ASSUME FiguresInv, NEW v \in Viewers, ReadFails(v)
  PROVE  FiguresInv'
<1>1. UNCHANGED <<instant, wiring, writing, ledger, shelf>>
  BY DEF ReadFails
<1> PICK r : r = viewers[v]
  OBVIOUS
<1> DEFINE q == [step |-> "idle", panel |-> r.panel, at |-> r.at, value |-> NoValue]
<1>2. /\ r = [step |-> r.step, panel |-> r.panel, at |-> r.at, value |-> r.value]
      /\ r.panel \in Panels /\ r.at \in Nat
  BY DEF FiguresInv, ViewerHolds
<1>3. viewers' = [viewers EXCEPT ![v] = q]
  <2>1. viewers' = [viewers EXCEPT ![v] = [[r EXCEPT !.step = "idle"] EXCEPT !.value = NoValue]]
    BY DEF ReadFails, FiguresInv
  <2>2. [[r EXCEPT !.step = "idle"] EXCEPT !.value = NoValue] = q
    <3> PICK a : a = [r EXCEPT !.step = "idle"]
      OBVIOUS
    <3>1. a = [step |-> "idle", panel |-> r.panel, at |-> r.at, value |-> r.value]
      BY <1>2
    <3>2. [a EXCEPT !.value = NoValue] = [step |-> "idle", panel |-> r.panel, at |-> r.at, value |-> NoValue]
      BY ONLY <3>1
    <3> QED
      BY <1>2, <3>2
  <2> QED
    BY <2>1, <2>2
<1>4. ViewerHolds(q)
  BY <1>2, FigureTypes DEF ViewerHolds
<1>5. "ever" \in Panels /\ ShelfHolds(shelf["ever"])
  BY FigureTypes DEF FiguresInv
<1> HIDE DEF q
<1> QED
  BY <1>1, <1>3, <1>4, <1>5, ViewKeeps

LEMMA StoreKeeps ==
  ASSUME FiguresInv, NEW v \in Viewers, Store(v)
  PROVE  FiguresInv'
<1>1. UNCHANGED <<instant, wiring, writing, ledger>> /\ viewers[v].step = "read"
  BY DEF Store
<1>2. instant \in Nat /\ ViewerHolds(viewers[v])
  BY FigureTypes DEF FiguresInv, LedgerTyped
<1> PICK x, p : x = viewers[v].value /\ p = viewers[v].panel
  OBVIOUS
<1>3. p \in Panels /\ IsValue(x) /\ x.source = Backend /\ Counts(x, instant)
  BY <1>1, <1>2 DEF ViewerHolds
<1> PICK y : y = [x EXCEPT !.stored = instant]
  OBVIOUS
<1> DEFINE q == [step |-> "told", panel |-> p, at |-> instant, value |-> y]
           s == [expires |-> instant + TTL, value |-> y]
<1>4. viewers' = [viewers EXCEPT ![v] = q] /\ shelf' = [shelf EXCEPT ![p] = s]
  BY DEF Store, Told
<1>5. /\ y.source = x.source /\ y.end = x.end /\ y.since = x.since /\ y.stored = instant
      /\ y.known = x.known /\ y.figures = x.figures
      /\ y = [source |-> y.source, end |-> y.end, since |-> y.since, stored |-> y.stored,
              known |-> y.known, figures |-> y.figures, points |-> y.points]
  BY <1>3 DEF IsValue
<1>6. IsValue(y)
  <2>1. y.figures \in [Metrics -> Int]
    BY <1>3, <1>5 DEF IsValue
  <2> QED
    BY <1>2, <1>3, <1>5, <2>1, ValueFields
<1>7. Counts(y, y.stored)
  BY <1>3, <1>5 DEF Counts, Retains
<1>8. ViewerHolds(q)
  BY <1>2, <1>3, <1>5, <1>6, <1>7, FigureTypes DEF ViewerHolds
<1>9. ShelfHolds(s)
  BY <1>2, <1>3, <1>5, <1>6, <1>7, FigureTypes DEF ShelfHolds
<1> HIDE DEF q, s
<1> QED
  BY <1>1, <1>3, <1>4, <1>8, <1>9, ViewKeeps

LEMMA FiguresStepKeeps ==
  ASSUME FiguresInv, [FiguresNext]_figuresVars
  PROVE  FiguresInv'
<1>1. CASE UNCHANGED figuresVars
  <2>1. LedgerTyped' /\ RowsStay /\ UNCHANGED <<shelf, viewers>>
    BY <1>1, FigureTypes DEF figuresVars, FiguresInv, LedgerTyped, RowsStay
  <2> QED
    BY <2>1, PanelsStay
<1>2. CASE Write
  BY <1>2, StampKeeps, CommitRowKeeps, PruneKeeps DEF Write
<1>3. CASE TimePasses
  BY <1>3, TimeKeeps
<1>4. CASE \E v \in Viewers : View(v)
  BY <1>4, AskKeeps, ReadKeeps, ReadFailsKeeps, StoreKeeps DEF View
<1> QED
  BY <1>1, <1>2, <1>3, <1>4 DEF FiguresNext

LEMMA FiguresInitHolds ==
  ASSUME FiguresInit
  PROVE  FiguresInv
<1>1. LedgerTyped
  BY FigureTypes, FS_EmptySet DEF FiguresInit, LedgerTyped
<1>2. \A v \in Viewers : ViewerHolds(viewers[v])
  BY FigureTypes DEF FiguresInit, ViewerHolds
<1>3. \A p \in Panels : ShelfHolds(shelf[p])
  BY FigureTypes DEF FiguresInit, ShelfHolds
<1> QED
  BY <1>1, <1>2, <1>3 DEF FiguresInit, FiguresInv

\* What is told follows from what the panels hold.
LEMMA FiguresTold ==
  ASSUME FiguresInv
  PROVE  FiguresTypeOK /\ FiguresHold
<1>1. FiguresTypeOK
  BY DEF FiguresInv, LedgerTyped, LedgerRow, FiguresTypeOK, ViewerHolds, ShelfHolds
<1>2. FiguresHold
  BY DEF FiguresInv, ViewerHolds, Counts, Retains, FiguresHold
<1> QED
  BY <1>1, <1>2

(***************************************************************************)
(* The charts.                                                             *)
(***************************************************************************)

\* What divides once, divides.
LEMMA DivUnique ==
  ASSUME NEW d \in Nat, d > 0, NEW a \in Int, NEW q \in Int, NEW r \in 0..(d - 1), a = d * q + r
  PROVE  a \div d = q /\ a % d = r
<1> DEFINE p == a \div d
           e == a % d
<1>1. p \in Int /\ e \in 0..(d - 1) /\ a = d * p + e
  OBVIOUS
<1> HIDE DEF p, e
<1>2. d * (q - p) = e - r
  BY <1>1
<1>3. q - p < 1
  <2> SUFFICES ASSUME q - p >= 1 PROVE FALSE
    BY <1>1
  <2>1. d * (q - p) >= d
    BY <1>1
  <2> QED
    BY <1>1, <1>2, <2>1
<1>4. q - p > -1
  <2> SUFFICES ASSUME p - q >= 1 PROVE FALSE
    BY <1>1
  <2>1. d * (p - q) >= d
    BY <1>1
  <2>2. d * (p - q) = r - e
    BY <1>1
  <2> QED
    BY <1>1, <2>1, <2>2
<1>5. p = q
  BY <1>1, <1>3, <1>4
<1>6. e = r
  BY <1>1, <1>5
<1> QED
  BY <1>5, <1>6 DEF p, e

LEMMA MulAssoc ==
  ASSUME NEW x \in Int, NEW y \in Int, NEW z \in Int
  PROVE  (x * y) * z = x * (y * z)
OBVIOUS

LEMMA ChartTypes ==
  /\ Grain \in Nat /\ Grain > 0 /\ Stride \in Nat /\ Stride > 0 /\ Window \in Nat
  /\ Stride >= 2 * Grain /\ Window % Grain = 0
  /\ Window \div Stride \in Nat /\ Window = Stride * (Window \div Stride)
  /\ Window \div Stride <= MaxPoints /\ MaxPoints \in Nat
<1>1. /\ Grain \in Nat /\ Grain > 0 /\ Stride \in Nat /\ Stride > Grain /\ Window \in Nat
      /\ MaxPoints \in Nat /\ Stride % Grain = 0 /\ Window % Stride = 0
      /\ Window \div Stride <= MaxPoints
  BY FiguresAssumption
<1> PICK a, k : a = Stride \div Grain /\ k = Window \div Stride
  OBVIOUS
<1>2. a \in Int /\ Stride = Grain * a
  BY <1>1
<1>3. k \in Int /\ Window = Stride * k
  BY <1>1
<1>4. a >= 2
  <2> SUFFICES ASSUME a <= 1 PROVE FALSE
    BY <1>2
  <2>1. Grain * a <= Grain
    BY <1>1, <1>2
  <2> QED
    BY <1>1, <1>2, <2>1
<1>5. Stride >= 2 * Grain
  <2>1. Grain * (a - 2) >= 0
    BY <1>1, <1>2, <1>4
  <2>2. Grain * (a - 2) = Grain * a - 2 * Grain
    BY <1>1, <1>2
  <2> QED
    BY <1>1, <1>2, <2>1, <2>2
<1>6. k >= 0
  <2> SUFFICES ASSUME k <= -1 PROVE FALSE
    BY <1>3
  <2>1. Stride * (-1 - k) >= 0
    BY <1>1, <1>3
  <2>2. Stride * (-1 - k) = -Stride - Stride * k
    BY <1>1, <1>3
  <2> QED
    BY <1>1, <1>3, <2>1, <2>2
<1>7. Window % Grain = 0
  <2>1. (Grain * a) * k = Grain * (a * k) /\ a * k \in Int
    BY ONLY <1>1, <1>2, <1>3, MulAssoc
  <2> PICK q \in Int, r \in Int : q = a * k /\ r = 0
    BY <2>1
  <2>2. Window = Grain * q + r
    <3>1. Window = (Grain * a) * k
      BY ONLY <1>2, <1>3, Zenon
    <3>2. Window = Grain * q
      BY ONLY <2>1, <3>1, q = a * k, Zenon
    <3>3. Window \in Int /\ r = 0
      BY <1>1
    <3> QED
      BY ONLY <3>2, <3>3
  <2>3. r \in 0..(Grain - 1) /\ Grain \in Nat /\ Grain > 0 /\ Window \in Int
    BY <1>1
  <2>4. Window % Grain = r
    BY ONLY <2>2, <2>3, q \in Int, DivUnique
  <2> QED
    BY <2>4
<1> QED
  BY <1>1, <1>3, <1>5, <1>6, <1>7

\* Truncating an instant takes less than a grain off it, from both ends of the window alike.
LEMMA TruncatedBy ==
  ASSUME NEW x \in Int
  PROVE  /\ Truncated(x) \in Int /\ x - Truncated(x) \in 0..(Grain - 1)
         /\ Truncated(x + Window) = Truncated(x) + Window
<1>1. Grain \in Nat /\ Grain > 0 /\ Window \in Nat /\ Window % Grain = 0
  BY ChartTypes
<1> PICK q, r, w : q = x \div Grain /\ r = x % Grain /\ w = Window \div Grain
  OBVIOUS
<1>2. q \in Int /\ r \in 0..(Grain - 1) /\ x = Grain * q + r
  BY <1>1
<1>3. w \in Int /\ Window = Grain * w
  BY <1>1
<1>4. x + Window = Grain * (q + w) + r
  BY <1>1, <1>2, <1>3
<1>5. (x + Window) % Grain = r
  <2> PICK y \in Int, p \in Int : y = x + Window /\ p = q + w
    BY <1>1, <1>2, <1>3
  <2>1. y = Grain * p + r
    BY <1>4
  <2>2. y % Grain = r
    BY ONLY <1>1, <1>2, <2>1, y \in Int, p \in Int, DivUnique
  <2> QED
    BY <2>2
<1> QED
  BY <1>1, <1>2, <1>5 DEF Truncated

\* The slice an instant of the window falls into.
LEMMA SliceOf ==
  ASSUME NEW a \in Nat, a < Window
  PROVE  /\ a \div Stride \in 0..(Window \div Stride - 1)
         /\ \A n \in Int : a \div Stride = n <=> a >= Stride * n /\ a < Stride * (n + 1)
<1> PICK S, k, p, r : S = Stride /\ k = Window \div Stride /\ p = a \div Stride /\ r = a % Stride
  OBVIOUS
<1>1. S \in Nat /\ S > 0 /\ k \in Nat /\ Window = S * k
  BY ChartTypes
<1>2. p \in Int /\ r \in 0..(S - 1) /\ a = S * p + r
  BY <1>1
<1>3. ASSUME NEW n \in Int, NEW m \in Int, n < m PROVE S * n + S <= S * m
  <2>1. S * (m - n - 1) >= 0
    BY <1>1, <1>3
  <2>2. S * (m - n - 1) = S * m - S * n - S
    BY <1>1
  <2>3. S * m \in Int /\ S * n \in Int
    BY <1>1
  <2> QED
    BY <1>1, <2>1, <2>2, <2>3
<1>4. p >= 0
  <2> SUFFICES ASSUME p < 0 PROVE FALSE
    BY <1>2
  <2>1. S * p + S <= S * 0
    BY <1>2, <1>3
  <2> QED
    BY <1>1, <1>2, <2>1
<1>5. p < k
  <2> SUFFICES ASSUME k <= p PROVE FALSE
    BY <1>1, <1>2
  <2>1. S * k <= S * p
    <3>1. k < p => S * k + S <= S * p
      BY <1>1, <1>2, <1>3
    <3>2. S * k \in Int /\ S * p \in Int
      BY <1>1, <1>2
    <3> QED
      BY <1>1, <1>2, <3>1, <3>2
  <2> QED
    BY <1>1, <1>2, <2>1
<1>6. ASSUME NEW n \in Int PROVE p = n <=> a >= S * n /\ a < S * (n + 1)
  <2>1. S * (n + 1) = S * n + S /\ S * n \in Int /\ S * p \in Int
    BY <1>1, <1>2
  <2>2. p < n => S * p + S <= S * n
    BY <1>2, <1>3
  <2>3. n < p => S * n + S <= S * p
    BY <1>2, <1>3
  <2> QED
    BY <1>1, <1>2, <2>1, <2>2, <2>3
<1> QED
  BY <1>1, <1>2, <1>4, <1>5, <1>6

\* The grid of the chart is less than a grain from that of the buckets.
LEMMA NearestSlice ==
  ASSUME NEW n \in Int, NEW d \in 0..(Grain - 1)
  PROVE  Nearest(Stride * n - d) = n
<1>1. Stride \in Nat /\ Stride > 0 /\ Grain \in Nat /\ Stride >= 2 * Grain
  BY ChartTypes
<1> PICK D, r, a : D = 2 * Stride /\ r = Stride - 2 * d /\ a = 2 * (Stride * n - d) + Stride
  OBVIOUS
<1>2. D \in Nat /\ D > 0 /\ r \in 0..(D - 1)
  BY <1>1
<1>3. Stride * n \in Int /\ D * n = 2 * (Stride * n)
  BY <1>1
<1>4. a \in Int /\ a = D * n + r
  BY <1>1, <1>3
<1>5. a \div D = n
  BY ONLY <1>2, <1>4, n \in Int, DivUnique
<1> QED
  BY <1>5 DEF Nearest

SliceRows(m, rows, t, i) ==
  {row \in rows : row.kind = KindOf[m] /\ row.at >= t + Stride * i /\ row.at < t + Stride * (i + 1)}

\* The rows of the window by the slice they fall into.
Stamped(rows) == \A row \in rows : row.at \in Int
Sliced(m, rows, start, end) ==
  /\ \A row \in Within(m, rows, start, end) :
        (row.at - Truncated(start)) \div Stride \in 0..(Window \div Stride - 1)
  /\ \A i \in 0..(Window \div Stride - 1) :
        {row \in Within(m, rows, start, end) : (row.at - Truncated(start)) \div Stride = i}
          = SliceRows(m, rows, Truncated(start), i)

LEMMA WindowSliced ==
  ASSUME NEW m, NEW rows, Stamped(rows), NEW start \in Int, NEW end, end = start + Window
  PROVE  Sliced(m, rows, start, end)
<1> PICK t : t = Truncated(start)
  OBVIOUS
<1>1. t \in Int /\ Truncated(end) = t + Window /\ Window \in Nat
  BY TruncatedBy, ChartTypes
<1>2. \A row \in Within(m, rows, start, end) :
        row \in rows /\ row.kind = KindOf[m] /\ row.at \in Int /\ row.at - t \in Nat /\ row.at - t < Window
  BY <1>1 DEF Within, Stamped
<1>3. \A row \in Within(m, rows, start, end) :
        /\ (row.at - t) \div Stride \in 0..(Window \div Stride - 1)
        /\ \A i \in Int : (row.at - t) \div Stride = i <=> row.at - t >= Stride * i /\ row.at - t < Stride * (i + 1)
  BY ONLY <1>2, SliceOf
<1>4. ASSUME NEW i \in 0..(Window \div Stride - 1)
      PROVE  {row \in Within(m, rows, start, end) : (row.at - t) \div Stride = i} = SliceRows(m, rows, t, i)
  <2> PICK lo, hi, k : lo = Stride * i /\ hi = Stride * (i + 1) /\ k = Window \div Stride
    OBVIOUS
  <2>1. Stride \in Nat /\ k \in Nat /\ Window = Stride * k /\ i \in Int /\ i >= 0 /\ i <= k - 1
    BY ChartTypes
  <2>2. lo \in Int /\ hi \in Int /\ lo >= 0
    BY <2>1
  <2>3. hi <= Window
    <3>1. Stride * (k - (i + 1)) >= 0
      BY <2>1
    <3>2. Stride * (k - (i + 1)) = Stride * k - Stride * (i + 1)
      BY <2>1
    <3> QED
      BY <2>1, <2>2, <3>1, <3>2
  <2>4. \A row \in Within(m, rows, start, end) :
          (row.at - t) \div Stride = i <=> row.at - t >= lo /\ row.at - t < hi
    BY <1>3, <2>1
  <2>5. \A row \in rows : row.kind = KindOf[m] /\ row.at >= t + lo /\ row.at < t + hi =>
          row \in Within(m, rows, start, end)
    BY <1>1, <2>2, <2>3 DEF Within, Stamped
  <2>6. ASSUME NEW row \in Within(m, rows, start, end), (row.at - t) \div Stride = i
        PROVE  row \in SliceRows(m, rows, t, i)
    <3>1. row \in rows /\ row.kind = KindOf[m] /\ row.at >= t + lo /\ row.at < t + hi
      BY ONLY <1>1, <1>2, <2>2, <2>4, <2>6
    <3> QED
      BY <3>1 DEF SliceRows
  <2>7. ASSUME NEW row \in SliceRows(m, rows, t, i)
        PROVE  row \in Within(m, rows, start, end) /\ (row.at - t) \div Stride = i
    <3>1. row \in rows /\ row.kind = KindOf[m] /\ row.at >= t + lo /\ row.at < t + hi
      BY DEF SliceRows
    <3>2. row \in Within(m, rows, start, end)
      BY <2>5, <3>1
    <3>3. row.at \in Int
      BY <3>1 DEF Stamped
    <3>4. row.at - t >= lo /\ row.at - t < hi
      BY ONLY <1>1, <2>2, <3>1, <3>3
    <3> QED
      BY <2>4, <3>2, <3>4
  <2> QED
    BY <2>6, <2>7
<1> QED
  BY <1>3, <1>4 DEF Sliced

Barred(points, m, rows, start) ==
  /\ points = [i \in 0..(Window \div Stride - 1) |-> points[i]]
  /\ \A i \in 0..(Window \div Stride - 1) :
       points[i] = Counted(m, SliceRows(m, rows, Truncated(start), i))

\* denseBuckets: a chart has a bar for each slice, and each counts its rows.
LEMMA BarsCount ==
  ASSUME NEW m, NEW rows, IsFiniteSet(rows), Stamped(rows),
         NEW start \in Int, NEW end, end = start + Window,
         NEW points, points = DenseBuckets(Series(m, rows, start, end), start, end)
  PROVE  Barred(points, m, rows, start)
<1> PICK t, k, d, found : t = Truncated(start) /\ k = Window \div Stride /\ d = start - t
                          /\ found = Within(m, rows, start, end)
  OBVIOUS
<1>1. t \in Int /\ d \in 0..(Grain - 1) /\ start = t + d
  BY TruncatedBy
<1>2. k \in Nat /\ Stride \in Nat /\ Grain \in Nat /\ Window \in Nat /\ MaxPoints \in Nat /\ k <= MaxPoints
  BY ChartTypes
<1> DEFINE Nth(row) == (row.at - t) \div Stride
           Of(n) == {row \in found : Nth(row) = n}
           Bucket(n) == [start |-> t + Stride * n, count |-> Counted(m, Of(n))]
           Taken == {Nth(row) : row \in found}
           buckets == {Bucket(n) : n \in Taken}
           Index(b) == Nearest(b.start - start)
           Drift(b) == b.start - start - Stride * Index(b)
           kept == {b \in buckets : Index(b) \in 0..(k - 1)}
           counts == [b \in kept |-> b.count]
<1>3. Taken \subseteq 0..(k - 1) /\ \A i \in 0..(k - 1) : Of(i) = SliceRows(m, rows, t, i)
  <2>1. Sliced(m, rows, start, end)
    BY ONLY Stamped(rows), start \in Int, end = start + Window, WindowSliced
  <2>2. \A row \in found : Nth(row) \in 0..(k - 1)
    BY ONLY <2>1, t = Truncated(start), k = Window \div Stride, found = Within(m, rows, start, end) DEF Sliced
  <2>3. \A i \in 0..(k - 1) : Of(i) = SliceRows(m, rows, t, i)
    BY ONLY <2>1, t = Truncated(start), k = Window \div Stride, found = Within(m, rows, start, end) DEF Sliced
  <2> HIDE DEF Nth
  <2> QED
    BY <2>2, <2>3
<1>4. Series(m, rows, start, end) = buckets
  BY DEF Series
<1>5. \A n \in 0..(k - 1) : Index(Bucket(n)) = n /\ Drift(Bucket(n)) \in (-Grain)..Grain
  <2> TAKE n \in 0..(k - 1)
  <2>1. Bucket(n).start - start = Stride * n - d /\ Stride * n \in Int
    BY <1>1, <1>2
  <2>2. Index(Bucket(n)) = n
    BY <2>1, <1>1, NearestSlice
  <2> HIDE DEF Bucket, Index
  <2> QED
    BY <1>1, <1>2, <2>1, <2>2
<1>6. kept = buckets /\ \A b \in kept : Drift(b) \in (-Grain)..Grain
  <2> HIDE DEF Index, Drift, Bucket, Taken
  <2>1. \A b \in buckets : Index(b) \in 0..(k - 1) /\ Drift(b) \in (-Grain)..Grain
    BY ONLY <1>3, <1>5
  <2> QED
    BY ONLY <2>1
<1>7. Min({(end - start) \div Stride, MaxPoints}) = k
  <2>1. (end - start) \div Stride = k
    BY <1>1, <1>2
  <2>2. \A x \in {k, MaxPoints} : (\A y \in {k, MaxPoints} : x <= y) <=> x = k
    BY <1>2
  <2> QED
    BY <2>1, <2>2 DEF Min
<1>8. points = [i \in 0..(k - 1) |-> SumFunctionOnSet(counts, {b \in kept : Index(b) = i})]
  BY <1>4, <1>6, <1>7 DEF DenseBuckets
<1>9. ASSUME NEW i \in 0..(k - 1)
      PROVE  SumFunctionOnSet(counts, {b \in kept : Index(b) = i}) = Counted(m, Of(i))
  <2>1. IsFiniteSet(Of(i)) /\ Counted(m, Of(i)) \in Nat
    BY FS_Subset, CountedMore DEF Within
  <2>2. CASE i \in Taken
    <3>1. {b \in kept : Index(b) = i} = {Bucket(i)} /\ Bucket(i) \in kept
      <4>1. Bucket(i) \in kept /\ Index(Bucket(i)) = i
        BY <1>5, <1>6, <2>2
      <4>2. \A b \in kept : Index(b) = i => b = Bucket(i)
        <5> HIDE DEF Index, Drift, Bucket, Taken
        <5> QED
          BY ONLY <1>3, <1>5, <1>6
      <4> QED
        BY <4>1, <4>2
    <3>2. counts[Bucket(i)] = Counted(m, Of(i))
      BY <3>1
    <3>3. SumFunctionOnSet(counts, {Bucket(i)}) = Counted(m, Of(i))
      <4> HIDE DEF counts, Bucket, Of
      <4> QED
        BY ONLY <2>1, <3>2, SumOfOne
    <3> QED
      BY ONLY <3>1, <3>3, Zenon
  <2>3. CASE i \notin Taken
    <3>1. {b \in kept : Index(b) = i} = {}
      <4> HIDE DEF Index, Drift, Bucket, Taken
      <4> QED
        BY ONLY <1>3, <1>5, <1>6, <2>3
    <3>2. Of(i) = {}
      BY <2>3
    <3>3. Counted(m, {}) = 0
      BY FS_EmptySet DEF Counted
    <3>4. SumFunctionOnSet(counts, {}) = 0
      <4> HIDE DEF counts
      <4>1. IsFiniteSet({}) /\ \A f : SumFunctionOnSet(f, {}) = 0
        BY FS_EmptySet, SumOfNone
      <4> QED
        BY <4>1
    <3> QED
      BY <3>1, <3>2, <3>3, <3>4
  <2> QED
    BY <2>2, <2>3
<1>10. \A i \in 0..(k - 1) : points[i] = Counted(m, SliceRows(m, rows, t, i))
  <2> HIDE DEF counts, kept, Index, Of
  <2> QED
    BY <1>3, <1>8, <1>9
<1> QED
  BY <1>8, <1>10 DEF Barred

\* ChartAgrees of the charts of any ledger, at any instant.
LEMMA ChartsHold ==
  ASSUME FiguresInv
  PROVE  ChartAgrees
<1> SUFFICES
      ASSUME NEW m \in Metrics, NEW start, start = instant - Window,
             NEW points, points = DenseBuckets(Series(m, ledger, start, instant), start, instant)
      PROVE  /\ DOMAIN points = 0..(Window \div Stride - 1)
             /\ \A i \in DOMAIN points :
                  points[i] = Counted(m, SliceRows(m, ledger, Truncated(start), i))
             /\ IF m = "events_routed"
                THEN SumFunction(points) >= Totals(ledger, start, instant)[m]
                ELSE SumFunction(points) = Totals(ledger, start, instant)[m]
  BY DEF ChartAgrees, SliceRows
<1> PICK found, t, K : found = Within(m, ledger, start, instant) /\ t = Truncated(start)
                       /\ K = 0..(Window \div Stride - 1)
  OBVIOUS
<1>1. IsFiniteSet(ledger) /\ Stamped(ledger) /\ start \in Int /\ instant = start + Window
  <2>1. instant \in Nat /\ ledger \subseteq LedgerRow /\ IsFiniteSet(ledger) /\ Window \in Nat
    BY FigureTypes DEF FiguresInv, LedgerTyped
  <2>2. \A row \in LedgerRow : row.at \in Int
    BY DEF LedgerRow
  <2> QED
    BY <2>1, <2>2 DEF Stamped
<1>2. points = [i \in K |-> points[i]] /\ \A i \in K : points[i] = Counted(m, SliceRows(m, ledger, t, i))
  <2>1. Barred(points, m, ledger, start)
    BY ONLY <1>1, points = DenseBuckets(Series(m, ledger, start, instant), start, instant), BarsCount
  <2> QED
    BY <2>1 DEF Barred
<1> DEFINE nth == [row \in found |-> (row.at - t) \div Stride]
           key == [row \in found |-> IF m = "events_routed" THEN row.event ELSE row]
           all == Showings(found, nth, key, K)
<1>3. IsFiniteSet(found) /\ IsFiniteSet(K)
  <2>1. found \subseteq ledger
    BY DEF Within
  <2>2. Window \div Stride - 1 \in Int
    BY ChartTypes
  <2> QED
    BY <1>1, <2>1, <2>2, FS_Subset, FS_Interval
<1>4. /\ \A row \in found : nth[row] \in K
      /\ \A i \in K : {r \in found : nth[r] = i} = SliceRows(m, ledger, t, i)
  <2>1. Sliced(m, ledger, start, instant)
    BY ONLY <1>1, WindowSliced
  <2>2. \A row \in found : (row.at - t) \div Stride \in K
    BY ONLY <2>1, t = Truncated(start), K = 0..(Window \div Stride - 1), found = Within(m, ledger, start, instant)
       DEF Sliced
  <2>3. \A i \in K : {row \in found : (row.at - t) \div Stride = i} = SliceRows(m, ledger, t, i)
    BY ONLY <2>1, t = Truncated(start), K = 0..(Window \div Stride - 1), found = Within(m, ledger, start, instant)
       DEF Sliced
  <2> QED
    BY <2>2, <2>3
<1>5. \A i \in K : points[i] = Cardinality(Keys(found, nth, key, i))
  <2> TAKE i \in K
  <2> PICK rows : rows = {r \in found : nth[r] = i}
    OBVIOUS
  <2>1. rows \subseteq found /\ points[i] = Counted(m, rows)
    BY <1>2, <1>4
  <2>2. Keys(found, nth, key, i) = {IF m = "events_routed" THEN row.event ELSE row : row \in rows}
    <3> HIDE DEF nth
    <3> QED
      BY DEF Keys
  <2>3. Counted(m, rows) = Cardinality({IF m = "events_routed" THEN row.event ELSE row : row \in rows})
    <3>1. CASE m = "events_routed"
      BY <3>1 DEF Counted
    <3>2. CASE m # "events_routed"
      <4>1. {IF m = "events_routed" THEN row.event ELSE row : row \in rows} = rows
        BY <3>2
      <4> QED
        BY <3>2, <4>1 DEF Counted
    <3> QED
      BY <3>1, <3>2
  <2> QED
    BY <2>1, <2>2, <2>3
<1>6. SumFunction(points) = Cardinality(all)
  <2>1. SumFunction(points) = SumFunctionOnSet(points, DOMAIN points) /\ DOMAIN points = K
    BY <1>2 DEF SumFunction, SumFunctionOnSet, FoldFunction
  <2> HIDE DEF nth, key
  <2>2. SumFunctionOnSet(points, K) = Cardinality(Showings(found, nth, key, K))
    BY ONLY <1>3, <1>5, SumOfCounts
  <2> QED
    BY <2>1, <2>2
<1>7. IsFiniteSet(all) /\ Cardinality(all) \in Nat
  <2> HIDE DEF nth, key
  <2> QED
    BY <1>3, ShowingsFinite
<1>8. all = {<<nth[row], key[row]>> : row \in found}
  <2> HIDE DEF nth, key
  <2> QED
    BY <1>4 DEF Showings
<1>9. Totals(ledger, start, instant)[m] = Counted(m, found)
  BY DEF Totals
<1> HIDE DEF all
<1>10. DOMAIN points = K /\ \A i \in K : points[i] = Counted(m, SliceRows(m, ledger, Truncated(start), i))
  BY <1>2
<1>11. ASSUME m = "events_routed" PROVE SumFunction(points) >= Totals(ledger, start, instant)[m]
  <2> DEFINE events == {row.event : row \in found}
             f == [p \in all |-> p[2]]
  <2>1. \A p \in all : p[2] \in events
    BY <1>8, <1>11
  <2>2. \A e \in events : \E p \in all : p[2] = e
    <3> TAKE e \in events
    <3> PICK row \in found : e = row.event
      OBVIOUS
    <3>1. <<nth[row], key[row]>> \in all /\ key[row] = e
      BY <1>8, <1>11
    <3> QED
      BY <3>1
  <2> HIDE DEF events
  <2>3. f \in Surjection(all, events)
    BY <2>1, <2>2 DEF Surjection
  <2> HIDE DEF f
  <2>4. IsFiniteSet(events) /\ Cardinality(events) <= Cardinality(all)
    BY <1>7, <2>3, FS_Surjection
  <2>5. Counted(m, found) = Cardinality(events) /\ Cardinality(events) \in Nat
    BY <1>11, <2>4, FS_CardinalityType DEF Counted, events
  <2>6. SumFunction(points) >= Totals(ledger, start, instant)[m]
    BY ONLY <1>6, <1>7, <1>9, <2>4, <2>5
  <2> QED
    BY <2>6
<1>12. ASSUME m # "events_routed" PROVE SumFunction(points) = Totals(ledger, start, instant)[m]
  <2> DEFINE f == [p \in all |-> p[2]]
  <2>1. \A p \in all : p[2] \in found /\ p = <<nth[p[2]], p[2]>>
    <3> HIDE DEF nth
    <3>1. \A row \in found : key[row] = row
      BY <1>12
    <3> HIDE DEF key
    <3> QED
      BY <1>8, <3>1
  <2>2. \A row \in found : <<nth[row], row>> \in all
    <3>1. \A row \in found : key[row] = row
      BY <1>12
    <3> HIDE DEF key, nth
    <3> QED
      BY <1>8, <3>1
  <2> HIDE DEF nth, key
  <2>3. f \in Bijection(all, found)
    <3>1. f \in [all -> found] /\ \A a, b \in all : f[a] = f[b] => a = b
      BY <2>1
    <3>2. \A row \in found : \E p \in all : f[p] = row
      <4> TAKE row \in found
      <4>1. f[<<nth[row], row>>] = row /\ <<nth[row], row>> \in all
        BY <2>2
      <4> QED
        BY <4>1
    <3> QED
      BY <3>1, <3>2 DEF Bijection, Injection, Surjection, IsInjective
  <2> HIDE DEF f
  <2>4. ExistsBijection(all, found)
    BY <2>3 DEF ExistsBijection
  <2>5. Cardinality(found) = Cardinality(all)
    BY <1>7, <2>4, FS_Bijection
  <2>6. SumFunction(points) = Totals(ledger, start, instant)[m]
    BY <1>6, <1>9, <1>12, <2>5 DEF Counted
  <2> QED
    BY <2>6
<1>13. IF m = "events_routed"
       THEN SumFunction(points) >= Totals(ledger, start, instant)[m]
       ELSE SumFunction(points) = Totals(ledger, start, instant)[m]
  BY <1>11, <1>12
<1> QED
  BY <1>10, <1>13

(***************************************************************************)
(* The hub: the requests to one part leave the others' state alone.        *)
(***************************************************************************)
HubInv ==
  /\ DeskInv /\ McpInv
  /\ PersonaInv /\ HistoryInv /\ FiguresInv

LEMMA HubParts ==
  ASSUME [HubNext]_hubVars
  PROVE  /\ [AgentDeskNext]_agentDeskVars /\ [McpNext]_mcpVars
         /\ [AccessNext]_accessVars /\ [PersonasNext]_personaVars
         /\ [HistoryNext]_historyVars /\ [FiguresNext]_figuresVars
<1>1. CASE UNCHANGED hubVars
  BY <1>1 DEF hubVars
<1>2. HistoryStep => HistoryNext
  BY DEF HistoryStep, HistoryNext, RunOf
<1>3. FiguresStep => FiguresNext
  <2>1. Shown \subseteq Panels
    BY DEF Shown, Panels, Metrics
  <2>2. about \in Shown /\ (\E kind \in IF about = "triggers_matched" THEN {"task"} ELSE {"task", "error"} :
                              instant \in {0, Window} /\ StampRow(kind, e1)) => Write
    BY HubAssumption DEF Write
  <2>3. (\E stamped \in writing : CommitRow(stamped)) \/ PruneLogs => Write
    BY DEF Write
  <2>4. \A viewer \in Viewers :
          (about \in Shown /\ Ask(viewer, about)) \/ Read(viewer) \/ ReadFails(viewer) \/ Store(viewer)
            => View(viewer)
    BY <2>1 DEF View
  <2> QED
    BY <2>2, <2>3, <2>4 DEF FiguresStep, FiguresNext
<1>4. AccessStep => AccessNext
  BY DEF AccessStep
<1>5. CASE HubNext
  BY <1>2, <1>3, <1>4, <1>5 DEF HubNext
<1> QED
  BY <1>1, <1>5

LEMMA HubInitHolds == HubInit => HubInv
BY DeskInit, RegistryInit, PersonaInitHolds, HistoryInitHolds, FiguresInitHolds DEF HubInit, HubInv

LEMMA HubStepKeeps ==
  ASSUME HubInv, [HubNext]_hubVars
  PROVE  HubInv'
<1>1. DeskInv' /\ McpInv'
  BY HubParts, DeskStep, RegistryStep DEF HubInv
<1>2. PersonaInv' /\ HistoryInv' /\ FiguresInv'
  BY HubParts, PersonaStepKeeps, HistoryStepKeeps, FiguresStepKeeps DEF HubInv
<1> QED
  BY <1>1, <1>2 DEF HubInv

(* An edit of an agent stands until another names the field and its references *)
(* hold (updateAgent, agentsReferencingImage), and a copy of an MCP server is   *)
(* the row it was made from (resolveMCPRequest).                                *)
THEOREM EditsAreHeld == HubSpec => []EditsHold
<1>1. HubInit => HubInv
  BY HubInitHolds
<1>2. HubInv /\ [HubNext]_hubVars => HubInv'
  BY HubStepKeeps
<1>3. HubInv => EditsHold
  BY DEF HubInv, DeskInv, McpInv, EditsHold
<1> QED
  BY <1>1, <1>2, <1>3, PTL DEF HubSpec

(* What the hub keeps for others to read is what it should be: the persona     *)
(* rendered last is the row's (reconciler.go), a fork goes with its agent, a    *)
(* page of runs is whole while records are pruned and a count of tokens takes   *)
(* in what stands throughout (invocations/pgstore.go), and a summary told from  *)
(* the cache is no older than the TTL and counts what was there                 *)
(* (handlers_observability.go).                                                 *)
THEOREM RecordsAreSound == HubSpec => []RecordsSound
<1>1. HubInit => HubInv
  BY HubInitHolds
<1>2. HubInv /\ [HubNext]_hubVars => HubInv'
  BY HubStepKeeps
<1>3. HubInv => RecordsSound
  <2>1. HubInv => PersonasTypeOK /\ PersonaRendered /\ OwnedReclaimed
    BY PersonaTyped DEF HubInv, PersonaInv
  <2>2. HubInv => HistoryTypeOK /\ ListingIsWhole /\ TokensTold
    BY HistoryTyped, SumsAreTold DEF HubInv, HistoryInv, ListingHolds
  <2>3. HubInv => FiguresTypeOK /\ FiguresHold
    BY FiguresTold DEF HubInv
  <2> QED
    BY <2>1, <2>2, <2>3 DEF RecordsSound
<1> QED
  BY <1>1, <1>2, <1>3, PTL DEF HubSpec

(* denseBuckets and telemetry.Series: whatever the offset of the two clocks    *)
(* and whatever the rows, no chart is refused, a bar counts the rows of its     *)
(* slice and of no other, and the bars add up to the summary's figure.          *)
THEOREM ChartsAreWhole == HubSpec => []ChartsAgree
<1>1. HubInit => HubInv
  BY HubInitHolds
<1>2. HubInv /\ [HubNext]_hubVars => HubInv'
  BY HubStepKeeps
<1>3. HubInv => ChartsAgree
  BY ChartsHold DEF HubInv, ChartsAgree
<1> QED
  BY <1>1, <1>2, <1>3, PTL DEF HubSpec

(* What a passed check relied on is no older than the caches allow (cache.go,  *)
(* UserRoles), an administrator remains while demotions do not overlap          *)
(* (handlers_users.go), a user who lost the name is persisted again             *)
(* (identity_persist.go, handleUserSync), and a backfill that is done has       *)
(* placed what it listed (backfill.go).                                         *)
THEOREM RightsHold == HubSpec => AccessHolds
<1>1. HubInit => AccessInv
  BY AccessInitHolds DEF HubInit
<1>2. AccessInv /\ [HubNext]_hubVars => AccessInv'
  BY HubParts, AccessStepKeeps
<1>3. AccessInv => (part = "access" => AccessTypeOK /\ AdminRemains /\ SyncRepopulates /\ BackfillHeals)
  BY AccessTypedHolds DEF AccessInv
<1>4. AccessInv /\ [HubNext]_hubVars =>
        [\A s \in Sessions : Passes(s) =>
           since[session[s].who][session[s].group][Needs(session[s].op)] <= CacheTTL + LoadTicks]_accessVars
  BY HubParts, PassesExpire
<1> QED
  BY <1>1, <1>2, <1>3, <1>4, PTL DEF HubSpec, AccessHolds, AccessExpires

======================================================================================
