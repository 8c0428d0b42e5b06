----------------------------- MODULE MissionLoop -----------------------------
(* One mission of buildd: its planning loop (lib/mission-loop.ts, mission-    *)
(* run.ts, mission-evaluation.ts), the tasks that plan and do its work (lib/  *)
(* task-dependencies.ts, approve-plan.ts) and the schedule the cron fires     *)
(* (api/cron/schedules/route.ts).                                             *)
(*                                                                            *)
(* Everything a finished task or a request starts is a job: an asynchronous   *)
(* function that nobody awaits, one SQL statement (or a run of reads) per     *)
(* step.  jobs is the list of the jobs in progress; pc is a job's next step,  *)
(* t the task it is about, n what it has read or has still to do, auto that   *)
(* it retries a failed planner.                                               *)
(*                                                                            *)
(* The mission plans by itself (orchestrationMode 'auto'), depends on no      *)
(* other and has no maxConcurrentTasks.                                       *)
EXTENDS Naturals, Sequences, FiniteSets

CONSTANTS
    Starts,     \* the tasks a mission is looked at from, and how many may follow
    MaxPlan,    \* bound: steps of a plan
    MaxJobs,    \* bound: a request or a report starts no job beyond this many
    MaxCycles,  \* MAX_CYCLES_PER_CHAIN
    MaxRetries, \* MAX_PLANNING_FAILURE_RETRIES
    PauseAfter, \* pauseAfterFailures of the schedule
    Clients     \* sets of requests that reach the server besides workers' reports;
                \* "heartbeat": the mission's schedule is a heartbeat

Statuses == {"active", "paused", "completed", "archived", "budget_exhausted"}
Kinds == {"planner", "eval", "work", "agg"}
Planning == {"planner", "eval"}          \* mode = 'planning'
Terminal == {"completed", "failed", "cancelled"}

(* What a completed task reports: a planner a plan, nothing or                *)
(* missionComplete; an evaluation its verdict.                                *)
Results(kind) == CASE kind = "planner" -> {"plan", "empty", "complete"}
                   [] kind = "eval" -> {"incomplete", "complete"}
                   [] OTHER -> {"none"}

(* cron: inserted by the cron, its context names the schedule.                *)
Task == [kind : Kinds, parent : Nat, chain : Nat, auto : BOOLEAN, cron : BOOLEAN,
         status : {"open"} \cup Terminal,
         result : {"none"} \cup UNION {Results(k) : k \in Kinds}]

(* The parent and the chain of a task are tasks, or none.                     *)
Lineage(ts) == \A t \in DOMAIN ts : ts[t].parent <= Len(ts) /\ ts[t].chain <= Len(ts)

(* A mission is looked at from before the loop has retried a planner.         *)
ASSUME MissionAssumption ==
    /\ \A s \in Starts : /\ s.tasks \in Seq(Task) /\ Lineage(s.tasks)
                         /\ \A t \in DOMAIN s.tasks : ~s.tasks[t].auto
                         /\ s.room \in Nat
    /\ MaxPlan \in Nat \ {0} /\ MaxJobs \in Nat
    /\ MaxCycles \in Nat \ {0} /\ MaxRetries \in Nat \ {0, 1} /\ PauseAfter \in Nat

VARIABLES
    requests, \* bound: the member of Clients that this behaviour is about
    status,   \* missions.status
    fresh,    \* missions.updatedAt is younger than DEBOUNCE_MS
    lastEval, \* missions.lastEvaluationTaskId; 0 for null
    sched,    \* the task_schedules row; exists is FALSE once it is deleted
    tasks,    \* the task rows, oldest first
    room,     \* bound: rows that can still be inserted
    jobs,     \* the jobs in progress
    counted,  \* auxiliary: the mission was completed because its work had ended
    raced     \* auxiliary: work was added while that completion was being written

vars == <<requests, status, fresh, lastEval, sched, tasks, room, jobs, counted, raced>>

Job(pc, t) == [pc |-> pc, t |-> t, n |-> 0, auto |-> FALSE]
Start(js) == jobs' = jobs \o js
Become(i, j) == jobs' = [jobs EXCEPT ![i] = j]
Goto(i, pc) == jobs' = [jobs EXCEPT ![i].pc = pc]
Without(i) == SubSeq(jobs, 1, i - 1) \o SubSeq(jobs, i + 1, Len(jobs))
End(i) == jobs' = Without(i)
EndWith(i, js) == jobs' = Without(i) \o js
At(i, pc) == jobs[i].pc = pc

(* The schedule's row with another existence, activation or failure count.    *)
Schedule(exists, enabled, failures) ==
    [exists |-> exists, enabled |-> enabled, failures |-> failures,
     heartbeat |-> sched.heartbeat]

Rows(P(_)) == {t \in DOMAIN tasks : P(tasks[t])}
Open(r) == r.status = "open"
Children(t) == Rows(LAMBDA r : r.parent = t)
OpenPlanning == Rows(LAMBDA r : r.kind \in Planning /\ Open(r))
Work == Rows(LAMBDA r : r.kind = "work")             \* isDeliverableTask()
SomeEnded(S) ==   \* Mutant: the check stops at the first task.
    \E t \in S : tasks[t].status \in Terminal

AllEnded(S) == S # {} /\ \A t \in S : tasks[t].status \in Terminal
SomeCompleted(S) == \E t \in S : tasks[t].status = "completed"

(* Chains are numbered by the task that starts them.                          *)
Row(kind, parent, chain, auto) ==
    [kind |-> kind, parent |-> parent, chain |-> chain, auto |-> auto,
     cron |-> FALSE, status |-> "open", result |-> "none"]
Insert(r) == room > 0 /\ room' = room - 1 /\ tasks' = Append(tasks, r)
NextId == Len(tasks) + 1

(* A mission is active, its schedule plans for it; its first planner, which   *)
(* the request that creates it inserts, is open or its plan is approved.      *)
Init ==
    /\ requests \in Clients
    /\ status = "active" /\ fresh = FALSE /\ lastEval = 0
    /\ sched = [exists |-> TRUE, enabled |-> TRUE, failures |-> 0,
                heartbeat |-> "heartbeat" \in requests]
    /\ \E s \in Starts : tasks = s.tasks /\ room = s.room
    /\ jobs = <<>>
    /\ counted = FALSE /\ raced = FALSE

mission == <<requests, status, fresh, lastEval>>
rows == <<tasks, room>>
ghosts == <<counted, raced>>

(* A job that has found the work ended and not yet written so.                *)
Completing == \E i \in DOMAIN jobs : At(i, "finish")

----------------------------------------------------------------------------
(* The worker of a task reports its end; the task is resolved by a job.  (The *)
(* one automatic retry, which makes a failed task pending again, is left out: *)
(* a task fails here for good.)                                               *)
Report(t) ==
    /\ Len(jobs) < MaxJobs /\ Open(tasks[t])
    /\ \/ \E r \in Results(tasks[t].kind) :
             tasks' = [[tasks EXCEPT ![t].status = "completed"] EXCEPT ![t].result = r]
       \/ tasks' = [tasks EXCEPT ![t].status = "failed"]
    /\ Start(<<Job("resolve", t)>>)
    /\ UNCHANGED <<mission, sched, room, ghosts>>

(* POST /api/tasks with the mission: the row, then reopenCompletedMission().  *)
File ==
    /\ "file" \in requests /\ Len(jobs) < MaxJobs
    /\ Insert(Row("work", 0, NextId, FALSE))
    /\ Start(<<Job("reopen", NextId)>>)
    /\ raced' = (raced \/ Completing)
    /\ UNCHANGED <<mission, sched, counted>>

(* PATCH /api/tasks/[id] with 'cancelled', and with 'pending' afterwards.     *)
Cancel(t) ==
    /\ "cancel" \in requests /\ Len(jobs) < MaxJobs
    /\ tasks[t].kind = "work"
    /\ \/ /\ Open(tasks[t])
          /\ tasks' = [tasks EXCEPT ![t].status = "cancelled"]
          /\ Start(<<Job("resolve", t)>>)
          /\ UNCHANGED raced
       \/ /\ tasks[t].status = "cancelled"
          /\ tasks' = [tasks EXCEPT ![t].status = "open"]
          /\ Start(<<Job("reopen", t)>>)
          /\ raced' = (raced \/ Completing)
    /\ UNCHANGED <<mission, sched, room, counted>>

(* PATCH /api/missions/[id] with a status: the schedule's row is written, or  *)
(* deleted, before the mission's.                                             *)
PatchMission(s) ==
    /\ s \in requests \cap {"active", "paused", "completed", "archived"}
    /\ Len(jobs) < MaxJobs
    /\ sched' = Schedule(sched.exists /\ s \in {"active", "paused"},
                         sched.exists /\ s = "active", sched.failures)
    /\ Start(<<Job(s, 0)>>)
    /\ UNCHANGED <<mission, rows, ghosts>>

WriteMission(i) ==
    /\ jobs[i].pc \in Statuses
    /\ status' = jobs[i].pc /\ fresh' = TRUE
    /\ counted' = FALSE /\ raced' = Completing
    /\ End(i)
    /\ UNCHANGED <<requests, lastEval, sched, rows>>

(* The same route with a higher budget: the mission is active again.          *)
RaiseBudget ==
    /\ "budget" \in requests
    /\ status = "budget_exhausted"
    /\ status' = "active" /\ fresh' = TRUE
    /\ UNCHANGED <<requests, lastEval, sched, rows, jobs, ghosts>>

(* reopenCompletedMission(): compare and set, then the schedule.              *)
Reopen(i) ==
    /\ At(i, "reopen")
    /\ IF status = "completed"
       THEN /\ status' = "active" /\ fresh' = TRUE
            /\ counted' = FALSE /\ raced' = Completing
            /\ Become(i, Job("enable", 0))
            /\ UNCHANGED <<requests, lastEval, sched, rows>>
       ELSE End(i) /\ UNCHANGED <<mission, sched, rows, ghosts>>

SetEnabled(i, pc, b) ==
    /\ At(i, pc)
    /\ sched' = [sched EXCEPT !.enabled = b /\ sched.exists]
    /\ End(i)
    /\ UNCHANGED <<mission, rows, ghosts>>

Enable(i) == SetEnabled(i, "enable", TRUE)
Disable(i) == SetEnabled(i, "disable", FALSE)

----------------------------------------------------------------------------
(* resolveCompletedTask() looks at the parent's children and at the task.     *)
(* When all children have ended they are to be aggregated, unless one did all *)
(* the work, or the loop goes on.  (A pending aggregation is a child that has *)
(* not ended: the branch that cancels a stale one cannot be reached.)         *)
AfterChildren(p) ==
    LET aggs == Rows(LAMBDA r : r.parent = p /\ r.kind = "agg")
    IN  IF p = 0 \/ ~AllEnded(Children(p)) \/ status = "completed" THEN "nothing"
        ELSE IF aggs # {} THEN IF SomeCompleted(aggs) THEN "loop" ELSE "nothing"
        ELSE IF SomeCompleted(Children(p)) /\ Cardinality(Children(p)) > 1 THEN "agg"
        ELSE "loop"

(* A failed planner is retried, a plan approved, a verdict handled, and in    *)
(* all other cases the loop looks at the mission.                             *)
AfterTask(t) ==
    LET r == tasks[t]
    IN  CASE r.kind \in Planning /\ r.status = "failed" -> <<Job("fail", t)>>
          [] r.status = "completed" /\ r.result = "plan" -> <<Job("approve", t)>>
          [] OTHER -> <<Job("loop", t)>> \o
                          IF t = lastEval THEN <<Job("verdict", t)>> ELSE <<>>

Resolve(i) ==
    /\ At(i, "resolve")
    /\ LET t == jobs[i].t   p == tasks[t].parent
       IN  EndWith(i, CASE AfterChildren(p) = "loop" -> <<Job("loop", p)>> \o AfterTask(t)
                        [] AfterChildren(p) = "agg" -> <<Job("aggregate", t)>>
                        [] OTHER -> AfterTask(t))
    /\ UNCHANGED <<mission, sched, rows, ghosts>>

InsertAggregation(i) ==
    /\ At(i, "aggregate")
    /\ \/ Insert(Row("agg", tasks[jobs[i].t].parent, 0, FALSE))
       \/ room = 0 /\ UNCHANGED rows
    /\ EndWith(i, AfterTask(jobs[i].t))
    /\ UNCHANGED <<mission, sched, ghosts>>

(* approvePlan(): refused when the planner has children or the plan goes      *)
(* round in a circle; otherwise one child after the other is inserted.        *)
Approve(i) ==
    /\ At(i, "approve")
    /\ LET t == jobs[i].t
       IN  \/ EndWith(i, <<Job("loop", t)>>)
           \/ /\ Children(t) = {}
              /\ \E n \in 1..MaxPlan : Become(i, [Job("plan", t) EXCEPT !.n = n])
    /\ UNCHANGED <<mission, sched, rows, ghosts>>

InsertChild(i) ==
    /\ At(i, "plan")
    /\ \/ /\ Insert(Row("work", jobs[i].t, 0, FALSE))
          /\ IF jobs[i].n > 1 THEN Become(i, [jobs[i] EXCEPT !.n = @ - 1]) ELSE End(i)
          /\ raced' = (raced \/ Completing \/ status = "completed")
       \/ /\ room = 0
          /\ End(i)
          /\ UNCHANGED <<rows, raced>>
    /\ UNCHANGED <<mission, sched, counted>>

----------------------------------------------------------------------------
(* maybeRetriggerMission() and retriggerMissionOnFailure(): the mission is    *)
(* stamped if it is active and nobody stamped it in the last ten seconds.     *)
(* (The read that comes before the stamp asks for less.)                      *)
Debounce(i) ==
    /\ jobs[i].pc \in {"loop", "fail"}
    /\ IF status = "active" /\ ~fresh
       THEN fresh' = TRUE /\ Goto(i, IF At(i, "loop") THEN "decide" ELSE "count")
       ELSE End(i) /\ UNCHANGED fresh
    /\ UNCHANGED <<requests, status, lastEval, sched, rows, ghosts>>

(* What the loop does, from the task that set it off: missionComplete is      *)
(* taken at its word for a heartbeat and evaluated for the others, unless all *)
(* work has ended; work that has all ended completes the mission; a chain of  *)
(* MaxCycles planners and two empty plans in a row stop it.                   *)
WorkDone == AllEnded(Work) /\ SomeCompleted(Work)
Chain(t) == IF tasks[t].kind = "planner" THEN tasks[t].chain ELSE 0
ChainLength(c) == Cardinality(Rows(LAMBDA r : r.kind \in Planning /\ r.chain = c /\ c # 0))
Empty(t) == \A c \in Children(t) : tasks[c].kind = "agg"
Planned == Rows(LAMBDA r : r.kind \in Planning /\ r.status = "completed")
Later(t) == {u \in Planned : u > t}
Stalled == Cardinality({t \in Planned : Cardinality(Later(t)) < 2 /\ Empty(t)}) = 2

Decision(t) ==
    IF tasks[t].kind = "planner" /\ tasks[t].result = "complete"
    THEN IF sched.exists /\ sched.heartbeat THEN "judged"
         ELSE IF WorkDone THEN "counted" ELSE "evaluate"
    ELSE IF AllEnded(Work) THEN "counted"
    ELSE IF (sched.exists /\ sched.heartbeat) \/ ChainLength(Chain(t)) >= MaxCycles \/ Stalled
         THEN "stop"
    ELSE "run"

Decide(i) ==
    /\ At(i, "decide")
    /\ LET t == jobs[i].t   d == Decision(t)
       IN  CASE d = "stop" -> End(i)
             [] d = "run" -> Become(i, [Job("run", 0) EXCEPT !.n = Chain(t)])
             [] d = "evaluate" -> Become(i, Job("evaluate", 0))
             [] d = "counted" -> Become(i, [Job("finish", 0) EXCEPT !.n = 1])
             [] d = "judged" -> Become(i, Job("finish", 0))
    /\ UNCHANGED <<mission, sched, rows, ghosts>>

(* The completion is written whatever the mission has become.                 *)
Finish(i) ==
    /\ At(i, "finish")
    /\ status' = "completed" /\ fresh' = TRUE
    /\ counted' = (jobs[i].n = 1)
    /\ Become(i, Job("disable", 0))
    /\ UNCHANGED <<requests, lastEval, sched, rows, raced>>

(* A failed planner: an environmental or a budget failure is not retried, a   *)
(* transient one until MaxRetries planners have failed, any other until two.  *)
Failures == Rows(LAMBDA r : r.kind \in Planning /\ r.status = "failed")

RetryOnceMore(limit) ==   \* Mutant: off by one.
    Cardinality(Failures) <= limit

RetryAllowed(limit) == Cardinality(Failures) < limit

CountFailures(i) ==
    /\ At(i, "count")
    /\ \E limit \in {0, 2, MaxRetries} :
          IF RetryAllowed(limit)
          THEN Become(i, [Job("run", jobs[i].t) EXCEPT !.auto = TRUE])
          ELSE End(i)
    /\ UNCHANGED <<mission, sched, rows, ghosts>>

----------------------------------------------------------------------------
(* runMission(): only an active mission, within its budget, without a planner *)
(* in flight and without an open PR is planned for.                           *)
Run(i) ==
    /\ At(i, "run")
    /\ \/ End(i) /\ UNCHANGED status                      \* its PR is open
       \/ /\ status = "active" /\ OpenPlanning = {}
          /\ Goto(i, "insert")
          /\ UNCHANGED status
       \/ /\ status = "active" /\ "budget" \in requests   \* exhaustMissionBudget()
          /\ status' = "budget_exhausted"
          /\ End(i)
    /\ fresh' = (fresh \/ status' # status)
    /\ UNCHANGED <<requests, lastEval, sched, rows, ghosts>>

(* The insert does nothing when another planner got in first: the partial     *)
(* unique index allows one open planning task per mission.                    *)
PlannerFits == OpenPlanning = {} /\ room > 0

InsertPlanner(i) ==
    /\ At(i, "insert")
    /\ \/ /\ PlannerFits
          /\ Insert(Row("planner", 0, IF jobs[i].n = 0 THEN NextId ELSE jobs[i].n,
                        jobs[i].auto))
       \/ ~PlannerFits /\ UNCHANGED rows
    /\ End(i)
    /\ UNCHANGED <<mission, sched, ghosts>>

(* spawnEvaluationTask(): its insert fails on the same index.                 *)
Evaluate(i) ==
    /\ At(i, "evaluate")
    /\ IF status = "active" /\ (lastEval # 0 => ~Open(tasks[lastEval]))
       THEN Goto(i, "insertEval") ELSE End(i)
    /\ UNCHANGED <<mission, sched, rows, ghosts>>

InsertEvalIgnored(i) ==   \* Mutant: the evaluation is noted although its insert failed.
    /\ At(i, "insertEval")
    /\ \/ PlannerFits /\ Insert(Row("eval", 0, 0, FALSE))
       \/ ~PlannerFits /\ UNCHANGED rows
    /\ Become(i, Job("mark", NextId))
    /\ UNCHANGED <<mission, sched, ghosts>>

InsertEval(i) ==
    /\ At(i, "insertEval")
    /\ \/ /\ PlannerFits
          /\ Insert(Row("eval", 0, 0, FALSE))
          /\ Become(i, Job("mark", NextId))
       \/ ~PlannerFits /\ End(i) /\ UNCHANGED rows
    /\ UNCHANGED <<mission, sched, ghosts>>

MarkEval(i) ==
    /\ At(i, "mark")
    /\ lastEval' = jobs[i].t /\ fresh' = TRUE
    /\ End(i)
    /\ UNCHANGED <<requests, status, sched, rows, ghosts>>

(* handleEvaluationResult().                                                  *)
Verdict(i) ==
    /\ At(i, "verdict")
    /\ IF tasks[jobs[i].t].result = "complete"
       THEN Become(i, Job("finish", 0))
       ELSE End(i)
    /\ UNCHANGED <<mission, sched, rows, ghosts>>

----------------------------------------------------------------------------
(* The schedules cron.  A run reads the due schedule (t is the number of      *)
(* failures it read) and counts its open tasks and the account's seats: at    *)
(* either limit it puts the schedule off to its next slot.  Otherwise it      *)
(* takes the slot unless nextRunAt has moved on (n = 1), and looks at the     *)
(* mission.  Time passes freely: the next slot is due.                        *)
CronStart ==
    /\ "cron" \in requests /\ Len(jobs) < MaxJobs
    /\ sched.enabled /\ sched.failures < PauseAfter
    /\ Start(<<Job("due", sched.failures)>>)
    /\ UNCHANGED <<mission, sched, rows, ghosts>>

MoveSlot(js) ==
    [i \in DOMAIN js |->
        IF js[i].pc \in {"due", "take"} THEN [js[i] EXCEPT !.n = 1] ELSE js[i]]

(* maxConcurrentFromSchedule is 1: the schedule waits for its own last task.  *)
SlotHeld == \E t \in DOMAIN tasks : tasks[t].cron /\ Open(tasks[t])

CountSlots(i) ==
    /\ At(i, "due") /\ ~SlotHeld
    /\ Goto(i, "take")
    /\ UNCHANGED <<mission, sched, rows, ghosts>>

(* The concurrency cap, or no seat is free.                                   *)
Defer(i) ==
    /\ At(i, "due")
    /\ jobs' = MoveSlot(Without(i))
    /\ UNCHANGED <<mission, sched, rows, ghosts>>

TakeSlot(i) ==
    /\ At(i, "take")
    /\ IF sched.exists /\ jobs[i].n = 0
       THEN /\ sched' = [sched EXCEPT !.failures = 0]
            /\ jobs' = MoveSlot([jobs EXCEPT ![i].pc = "linked"])
       ELSE End(i) /\ UNCHANGED sched
    /\ UNCHANGED <<mission, rows, ghosts>>

(* The pass that spares a heartbeat its planner: all work that is not         *)
(* cancelled has ended, or nothing has changed.                               *)
Uncancelled == {t \in Work : tasks[t].status # "cancelled"}

LinkedSkips(i) ==   \* Mutant: a mission that is not active is skipped, as in other guards.
    /\ At(i, "linked")
    /\ IF status = "active" /\ sched.exists THEN Goto(i, "cronInsert") ELSE End(i)
    /\ UNCHANGED <<mission, sched, rows, ghosts>>

Linked(i) ==
    /\ At(i, "linked")
    /\ \/ /\ status # "active" \/ ~sched.exists
          /\ sched' = [sched EXCEPT !.enabled = FALSE]
          /\ End(i)
       \/ /\ status = "active" /\ sched.exists
          /\ IF sched.heartbeat /\ AllEnded(Uncancelled)
             THEN Become(i, [Job("finish", 0) EXCEPT !.n = 1])
             ELSE \/ Goto(i, "cronInsert")
                  \/ sched.heartbeat /\ Work # {} /\ End(i)
          /\ UNCHANGED sched
    /\ UNCHANGED <<mission, rows, ghosts>>

(* The cron's insert is not conditional: with a planner open it fails.        *)
CronInsert(i) ==
    /\ At(i, "cronInsert")
    /\ IF OpenPlanning = {}
       THEN /\ \/ Insert([Row("planner", 0, NextId, FALSE) EXCEPT !.cron = TRUE])
               \/ room = 0 /\ UNCHANGED rows
            /\ End(i)
       ELSE Goto(i, "catch") /\ UNCHANGED rows
    /\ UNCHANGED <<mission, sched, ghosts>>

(* The failure is counted on top of those read at the start, and enabled is   *)
(* written back as it was read unless the schedule is paused.                 *)
CronCatch(i) ==
    /\ At(i, "catch")
    /\ LET f == jobs[i].t + 1
       IN  sched' = Schedule(sched.exists,
                             sched.exists /\ ~(PauseAfter > 0 /\ f >= PauseAfter), f)
    /\ jobs' = MoveSlot(Without(i))
    /\ UNCHANGED <<mission, rows, ghosts>>

(* Ten seconds pass.                                                          *)
Tick ==
    /\ fresh /\ fresh' = FALSE
    /\ UNCHANGED <<requests, status, lastEval, sched, rows, jobs, ghosts>>

----------------------------------------------------------------------------
JobStep(i) ==
    \/ WriteMission(i) \/ Reopen(i) \/ Enable(i) \/ Disable(i)
    \/ Resolve(i) \/ InsertAggregation(i) \/ Approve(i) \/ InsertChild(i)
    \/ Debounce(i) \/ Decide(i) \/ Finish(i) \/ CountFailures(i)
    \/ Run(i) \/ InsertPlanner(i)
    \/ Evaluate(i) \/ InsertEval(i) \/ MarkEval(i) \/ Verdict(i)
    \/ CountSlots(i) \/ Defer(i) \/ TakeSlot(i) \/ Linked(i) \/ CronInsert(i) \/ CronCatch(i)

Next ==
    \/ \E t \in DOMAIN tasks : Report(t) \/ Cancel(t)
    \/ File \/ RaiseBudget
    \/ \E s \in Statuses : PatchMission(s)
    \/ \E i \in DOMAIN jobs : JobStep(i)
    \/ CronStart \/ Tick

Spec == Init /\ [][Next]_vars

(* A job goes on until it ends; the cron is called every minute, and is taken *)
(* to find the server free again and again.                                   *)
Oldest == jobs # <<>> /\ JobStep(1)

LiveSpec == Spec /\ WF_vars(Oldest) /\ SF_vars(CronStart)

----------------------------------------------------------------------------
(* Type invariant.                                                            *)
Pcs == Statuses \cup {"resolve", "aggregate", "approve", "plan", "loop",
          "decide", "finish", "disable", "fail", "count", "run", "insert", "evaluate",
          "insertEval", "mark", "verdict", "reopen", "enable", "due", "take", "linked",
          "cronInsert", "catch"}

TypeOK ==
    /\ requests \in Clients /\ status \in Statuses /\ fresh \in BOOLEAN
    /\ lastEval \in 0..Len(tasks)
    /\ sched \in [exists : BOOLEAN, enabled : BOOLEAN, failures : Nat, heartbeat : BOOLEAN]
    /\ tasks \in Seq(Task) /\ Lineage(tasks)
    /\ room \in Nat
    /\ jobs \in Seq([pc : Pcs, t : Nat, n : Nat, auto : BOOLEAN])
    /\ counted \in BOOLEAN /\ raced \in BOOLEAN

(* mission-loop.ts:467: however the reports of failed planners, the cron's    *)
(* planners and their debounce interleave, the loop retries a failed planner  *)
(* less than MaxRetries times before an hour has passed.                      *)
Retries == Rows(LAMBDA r : r.auto)

RetriesBounded == Cardinality(Retries) < MaxRetries

(* mission-loop.ts:225: a mission that was completed because all its work had *)
(* ended has no open work, but for work about to reopen it and work added     *)
(* while the completion was being written or its plan approved.               *)
OpenWork == {t \in Work : Open(tasks[t])}

NoOrphanWork ==
    status = "completed" /\ counted /\ OpenWork # {}
        => raced \/ \E i \in DOMAIN jobs : At(i, "reopen")

(* From some point on no run is put off because all seats are taken.          *)
SeatsSuffice == <>[][~\E i \in DOMAIN jobs : ~SlotHeld /\ Defer(i)]_vars

(* cron/schedules/route.ts:460: a schedule does not stay enabled behind a     *)
(* mission that is over, paused or out of money, although the completion, the *)
(* reopening and the cron's error path write the two rows in different orders.*)
(* The cron gets there only past the limits it tests first: a planner of the  *)
(* schedule's own that stays open, or seats that are taken again and again,   *)
(* leave the schedule enabled, though it inserts nothing.                     *)
ScheduleSettles ==
    "cron" \in requests /\ SeatsSuffice
        => []<>(status = "active" \/ ~sched.enabled \/ SlotHeld)
=============================================================================
