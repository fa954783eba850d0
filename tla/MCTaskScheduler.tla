--------------------------- MODULE MCTaskScheduler ---------------------------
(***************************************************************************)
(* Two queries on one worker, or one of them on two workers.  The parallel  *)
(* pipeline "copy" needs "gds", a graph algorithm that schedules the        *)
(* parallel task "frontier" while it runs, and whose end may also end the   *)
(* query; "scan" needs nothing.                                            *)
(***************************************************************************)
EXTENDS TaskScheduler

CONSTANTS w1, w2, copy, gds, frontier, scan

TwoWorkers == {w1, w2}
BothLoads == {[workers |-> {w1}, queries |-> {copy, scan}],
              [workers |-> {w1, w2}, queries |-> {copy}]}
AllTasks == {copy, gds, frontier, scan}
Dependencies == [t \in AllTasks |-> IF t = copy THEN <<gds>> ELSE <<>>]
Frontiers == [t \in AllTasks |-> IF t = gds THEN frontier ELSE NoTask]
Parallelism == [t \in AllTasks |-> IF t \in {gds, scan} THEN 1 ELSE 2]
==============================================================================
