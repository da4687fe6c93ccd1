------------------------------ MODULE MCTaskQueue ------------------------------
(***************************************************************************)
(* TLC instances of TaskQueue: one agent served by two pods, so that       *)
(* claims, late reports and the reaper meet on the same rows.              *)
(***************************************************************************)
EXTENDS TaskQueue

CONSTANTS a1, w1, w2, t1

OneAgent     == {a1}
TwoWorkers   == {w1, w2}
OneWorker    == {w1}
OneTask      == {t1}
MCAgentOf    == [t \in Tasks |-> a1]
MCServes     == [w \in Workers |-> a1]
===============================================================================
