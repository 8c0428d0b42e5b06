---------------------------- MODULE MCMissionLoop ----------------------------
(* Instances of MissionLoop for TLC: a mission whose planner is running and   *)
(* one whose plan of two steps is approved.                                   *)
EXTENDS MissionLoop, TLC

Planner == Row("planner", 0, 1, FALSE)
Approved == [Planner EXCEPT !.status = "completed", !.result = "plan"]
Child == Row("work", 1, 0, FALSE)

MCStarts == {[tasks |-> <<Planner>>, room |-> 2],
             [tasks |-> <<Approved, Child, Child>>, room |-> 1]}

MCClients == {{"cron", "budget"}, {"cron", "heartbeat"}, {"file", "completed"},
              {"paused", "active"}, {"cancel", "heartbeat"}}
=============================================================================
