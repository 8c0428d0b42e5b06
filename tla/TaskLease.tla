----------------------------- MODULE TaskLease -----------------------------
(* Who works on a task: the lease a worker row holds on a task row, and every *)
(* server request that takes, keeps, ends, expires or overrides it.           *)
(*                                                                            *)
(* The server is stateless: a request is a sequence of SQL statements, each   *)
(* its own transaction (neon-http has no interactive transactions), and two   *)
(* requests interleave at every statement.  An element of Procs is a request  *)
(* in progress; proc[p] is the statement it is about to run (pc) and what it  *)
(* has read so far.  A request can stop between two statements (Crash).       *)
(*                                                                            *)
(* One account.  The status 'starting' is left out: no code writes it, and it *)
(* is read wherever 'running' is.  Free choices stand for data that is not    *)
(* modelled here: what a worker delivered, how often a task failed, the age   *)
(* of heartbeats, exit conditions and the result of a release.                *)
EXTENDS Integers, FiniteSets

CONSTANTS
    Tasks, Workers,        \* rows; Workers bounds the workers ever inserted
    Procs,                 \* server requests that can be in progress together
    ReviewTasks,           \* tasks of category 'review'
    MaxConcurrentWorkers,  \* accounts.maxConcurrentWorkers
    MaxConcurrentSessions, \* accounts.maxConcurrentSessions
    Requests,              \* the requests that arrive (see Kinds)
    NoTask, NoWorker       \* an empty field of a request

Kinds == {"claim", "report", "interrupt", "reassign", "edit", "recover", "sweep",
          "stalled", "orphans", "waiting", "offline", "cron", "crash"}

ASSUME LeaseAssumption ==
    /\ ReviewTasks \subseteq Tasks
    /\ Requests \subseteq Kinds
    /\ NoTask \notin Tasks /\ NoWorker \notin Workers
    /\ Workers \cap Procs = {}
    /\ IsFiniteSet(Procs) /\ Procs # {} /\ IsFiniteSet(Workers)
    /\ MaxConcurrentWorkers \in Nat /\ MaxConcurrentSessions \in Nat

VARIABLES
    task,      \* tasks.status
    status,    \* workers.status; "none" until the row is inserted
    of,        \* workers.task_id
    sealed,    \* workers.error is one that forbids reactivation
    quiet,     \* workers.updatedAt is past the staleness thresholds
    known,     \* the runner has the claim response that names the worker
    seats,     \* accounts.activeSessions
    proc,      \* the requests in progress
    granted,   \* auxiliary: a report or a takeover ended the worker, no reopening since
    reopened,  \* auxiliary: some ended worker was made live again
    disturbed  \* auxiliary: the task was touched by an expiry, an override or a reopening

rows == <<task, status, of, sealed, quiet, known, seats>>
aux == <<granted, reopened, disturbed>>
vars == <<rows, proc, aux>>

Live == {"idle", "running", "waiting_input"}
Terminal == {"completed", "failed", "error"}
TaskStatus == {"pending", "assigned", "completed", "failed", "cancelled"}

Idle == [pc |-> "idle", kind |-> "none", w |-> NoWorker, t |-> NoTask,
         seen |-> "none", out |-> "none", ws |-> {}, left |-> {}, ts |-> {},
         pass |-> 1]

Init ==
    /\ task \in [Tasks -> {"pending"}]
    /\ status = [w \in Workers |-> "none"]
    /\ of = [w \in Workers |-> NoTask]
    /\ sealed = [w \in Workers |-> FALSE]
    /\ quiet = [w \in Workers |-> FALSE]
    /\ known = [w \in Workers |-> FALSE]
    /\ seats = 0
    /\ proc = [p \in Procs |-> Idle]
    /\ granted = [w \in Workers |-> FALSE]
    /\ reopened = FALSE
    /\ disturbed = [t \in Tasks |-> FALSE]

LiveWorkers == {w \in Workers : status[w] \in Live}
LiveOn(t) == {w \in LiveWorkers : of[w] = t}

(* Mutant: the count is not clamped at zero. *)
ReleasedUnclamped(n) == seats - n

(* GREATEST(activeSessions - n, 0) *)
Released(n) == IF seats > n THEN seats - n ELSE 0

At(p, pc) == proc[p].pc = pc
Begin(p, r) == At(p, "idle") /\ r.kind \in Requests /\ proc' = [proc EXCEPT ![p] = r]
Become(p, r) == proc' = [proc EXCEPT ![p] = r]
Goto(p, pc) == Become(p, [proc[p] EXCEPT !.pc = pc])
Stop(p) == Become(p, Idle)

SetTask(t, s) == task' = [task EXCEPT ![t] = s]
Disturb(ts) == disturbed' = [t \in Tasks |-> disturbed[t] \/ t \in ts]

----------------------------------------------------------------------------
(* Expiry of workers, shared by the clean-ups: UPDATE workers SET status =    *)
(* 'failed' WHERE id IN (the ids read earlier), whatever their status is now. *)
ExpireRows(ws) ==
    /\ status' = [w \in Workers |-> IF w \in ws THEN "failed" ELSE status[w]]
    /\ sealed' = [w \in Workers |-> w \in ws \/ sealed[w]]
    /\ quiet' = [w \in Workers |-> w \notin ws /\ quiet[w]]

TasksOf(ws) == {of[w] : w \in ws}

(* cleanupStaleWorkers(): pass 1 takes the silent workers, pass 2, when no    *)
(* heartbeat of the account is fresh, also those that wait for input.  It is  *)
(* called by every claim and by the periodic clean-up.                        *)
StaleNow == {w \in LiveWorkers : quiet[w] /\ status[w] \in {"idle", "running"}}
SilentNow == {w \in LiveWorkers : quiet[w]}

(* What a request does when a pass of cleanupStaleWorkers() is over. *)
AfterPass(r) ==
    IF r.pass = 1 THEN [Idle EXCEPT !.kind = r.kind, !.pc = "sweep", !.pass = 2]
    ELSE IF r.kind = "claim" THEN [Idle EXCEPT !.kind = "claim", !.pc = "count"]
    ELSE Idle

SweepBegin(p) ==
    /\ Begin(p, [Idle EXCEPT !.kind = "sweep", !.pc = "sweep"])
    /\ UNCHANGED <<rows, aux>>

SweepRead(p) ==
    /\ At(p, "sweep")
    /\ \E ws \in IF proc[p].pass = 1 THEN {StaleNow} ELSE {SilentNow, {}} :
          Become(p, IF ws = {} THEN AfterPass(proc[p])
                    ELSE [proc[p] EXCEPT !.ws = ws, !.pc = "expire"])
    /\ UNCHANGED <<rows, aux>>

(* Mutant: the expired workers keep their seats. *)
SweepKeepsSeats(p) ==
    /\ At(p, "seats")
    /\ Become(p, [proc[p] EXCEPT !.ts = TasksOf(proc[p].ws), !.pc = "others"])
    /\ UNCHANGED <<rows, aux>>

SweepSeats(p) ==
    /\ At(p, "seats")
    /\ seats' = Released(Cardinality(proc[p].ws))
    /\ Become(p, [proc[p] EXCEPT !.ts = TasksOf(proc[p].ws), !.pc = "others"])
    /\ UNCHANGED <<task, status, of, sealed, quiet, known, aux>>

(* The request with task t dealt with. *)
Without(r, t, pc, done) ==
    IF r.ts \subseteq {t} THEN done
    ELSE [r EXCEPT !.ts = @ \ {t}, !.t = NoTask, !.out = "none", !.pc = pc]

(* Only a task with no other live worker is resolved. *)
SweepOthers(p) ==
    /\ At(p, "others")
    /\ \E t \in proc[p].ts :
          Become(p, IF LiveOn(t) \subseteq proc[p].ws
                    THEN [proc[p] EXCEPT !.t = t, !.pc = "resolve"]
                    ELSE Without(proc[p], t, "others", AfterPass(proc[p])))
    /\ UNCHANGED <<rows, aux>>

(* resolveStaleTask(): a cancelled task is left alone ... *)
ResolveRead(p) ==
    /\ At(p, "resolve")
    /\ IF task[proc[p].t] = "cancelled"
       THEN Become(p, Without(proc[p], proc[p].t, "others", AfterPass(proc[p])))
       ELSE Goto(p, "settle")
    /\ UNCHANGED <<rows, aux>>

(* ... and any other is completed if the worker delivered, failed at the      *)
(* retry cap, else pending again; a task that waits for a merge is left.      *)
Settle(p) ==
    /\ At(p, "settle")
    /\ LET t == proc[p].t
       IN  /\ \/ \E s \in IF t \in ReviewTasks THEN {"failed"}
                          ELSE {"completed", "failed", "pending"} : SetTask(t, s)
              \/ UNCHANGED task
           /\ Disturb({t})
           /\ Become(p, Without(proc[p], t, "others", AfterPass(proc[p])))
    /\ UNCHANGED <<status, of, sealed, quiet, known, seats, granted, reopened>>

----------------------------------------------------------------------------
(* POST /api/workers/claim *)

ClaimBegin(p) ==
    /\ Begin(p, [Idle EXCEPT !.kind = "claim", !.pc = "sweep"])
    /\ UNCHANGED <<rows, aux>>

(* The limits that answer 429. *)
ClaimCount(p) ==
    /\ At(p, "count")
    /\ IF \/ Cardinality(LiveWorkers) >= MaxConcurrentWorkers
          \/ seats >= MaxConcurrentSessions
       THEN Stop(p)
       ELSE Goto(p, "select")
    /\ UNCHANGED <<rows, aux>>

(* The candidates: pending, and no live worker on them. *)
Claimable == {t \in Tasks : task[t] = "pending" /\ LiveOn(t) = {}}

ClaimSelect(p) ==
    /\ At(p, "select")
    /\ IF Claimable = {} THEN Stop(p)
       ELSE Become(p, [proc[p] EXCEPT !.ts = Claimable, !.pc = "claim"])
    /\ UNCHANGED <<rows, aux>>

(* The loop is over: count the sessions of what was claimed, if anything was. *)
ClaimDone(r) == IF r.ws = {} THEN Idle
                ELSE [r EXCEPT !.ts = {}, !.t = NoTask, !.pc = "sessions"]

(* Nobody else is between two statements about task t, and no worker runs it. *)
Engaged(q, t) ==
    \/ proc[q].t = t
    \/ proc[q].w # NoWorker /\ of[proc[q].w] = t
    \/ proc[q].kind \in {"sweep", "stalled", "orphans", "offline", "cron"}
    \/ proc[q].kind = "claim" /\ (t \in proc[q].ts \/ \E w \in proc[q].ws : of[w] = t)
Alone(p, t) == LiveOn(t) = {} /\ \A q \in Procs \ {p} : ~Engaged(q, t)

(* Bound: a claim needs a free worker row for every insertion under way. *)
Inserting == {p \in Procs : proc[p].pc \in {"insert", "insert_row"}}
RowsLeft == Cardinality(Inserting) < Cardinality({w \in Workers : status[w] = "none"})

(* Mutant: the claim does not test the status. *)
ClaimAnyTask(p) ==
    /\ At(p, "claim")
    /\ RowsLeft
    /\ \E t \in proc[p].ts :
          /\ SetTask(t, "assigned")
          /\ Become(p, [proc[p] EXCEPT !.t = t, !.ts = @ \ {t}, !.pc = "insert"])
          /\ disturbed' = [disturbed EXCEPT ![t] = @ /\ ~Alone(p, t)]
    /\ UNCHANGED <<status, of, sealed, quiet, known, seats, granted, reopened>>

(* UPDATE tasks SET status = 'assigned' WHERE id = t AND status = 'pending'.  *)
(* A candidate that another claim took, or that some gate defers, is skipped; *)
(* one pinned to a project the workspace lacks is failed if still pending.    *)
ClaimTask(p) ==
    /\ At(p, "claim")
    /\ \E t \in proc[p].ts :
          \/ /\ RowsLeft
             /\ task[t] = "pending"
             /\ SetTask(t, "assigned")
             /\ Become(p, [proc[p] EXCEPT !.t = t, !.ts = @ \ {t}, !.pc = "insert"])
             /\ disturbed' = [disturbed EXCEPT ![t] = @ /\ ~Alone(p, t)]
          \/ /\ UNCHANGED task \/ (task[t] = "pending" /\ SetTask(t, "failed"))
             /\ Become(p, Without(proc[p], t, "claim", ClaimDone(proc[p])))
             /\ UNCHANGED disturbed
    /\ UNCHANGED <<status, of, sealed, quiet, known, seats, granted, reopened>>

(* Mutant: a plain INSERT. *)
InsertAlways(p) == At(p, "insert") /\ Goto(p, "insert_row") /\ UNCHANGED <<rows, aux>>

(* INSERT INTO workers SELECT ... WHERE count(live) < maxConcurrentWorkers is *)
(* one statement, but under READ COMMITTED it counts the rows committed when  *)
(* it began: another insertion can commit between its count and its own row.  *)
InsertCount(p) ==
    /\ At(p, "insert")
    /\ Goto(p, IF Cardinality(LiveWorkers) < MaxConcurrentWorkers
               THEN "insert_row" ELSE "rollback")
    /\ UNCHANGED <<rows, aux>>

InsertRow(p) ==
    /\ At(p, "insert_row")
    /\ \E w \in Workers :
          /\ status[w] = "none"
          /\ status' = [status EXCEPT ![w] = "idle"]
          /\ of' = [of EXCEPT ![w] = proc[p].t]
          /\ LET r == [proc[p] EXCEPT !.ws = @ \cup {w}, !.t = NoTask, !.pc = "claim"]
             IN  \/ r.ts # {} /\ Become(p, r)       \* next candidate
                 \/ Become(p, ClaimDone(r))         \* maxTasks reached
    /\ UNCHANGED <<task, sealed, quiet, known, seats, aux>>

(* No row inserted: undo the claim, whatever the task is now, and stop. *)
Rollback(p) ==
    /\ At(p, "rollback")
    /\ SetTask(proc[p].t, "pending")
    /\ Become(p, ClaimDone(proc[p]))
    /\ UNCHANGED <<status, of, sealed, quiet, known, seats, aux>>

(* activeSessions += the number claimed; then the response. *)
Sessions(p) ==
    /\ At(p, "sessions")
    /\ seats' = seats + Cardinality(proc[p].ws)
    /\ known' = [w \in Workers |-> known[w] \/ w \in proc[p].ws]
    /\ Stop(p)
    /\ UNCHANGED <<task, status, of, sealed, quiet, aux>>

----------------------------------------------------------------------------
(* PATCH /api/workers/[id] *)

(* The worker row is read; an ended worker may only be reported running, and  *)
(* not if a clean-up or a takeover ended it.  Other reports answer 409.       *)
ReportRead(p) ==
    /\ \E w \in Workers, out \in Live \cup Terminal :
          LET r == [Idle EXCEPT !.kind = "report", !.w = w, !.t = of[w],
                                !.seen = status[w], !.out = out]
          IN  /\ known[w]
              /\ out = "idle" => status[w] = "idle"
              /\ \/ status[w] \in Live /\ out \in Live
                    /\ Begin(p, [r EXCEPT !.pc = "write"])
                 \/ status[w] \in Live /\ out \in Terminal
                    /\ Begin(p, [r EXCEPT !.pc = "reserve"])
                 \/ status[w] \in Terminal /\ out = "running" /\ ~sealed[w]
                    /\ Begin(p, [r EXCEPT !.pc = "reactivate"])
    /\ UNCHANGED <<rows, aux>>

(* A follow-up message: the task is assigned again, whatever it is now. *)
Reactivate(p) ==
    /\ At(p, "reactivate")
    /\ SetTask(proc[p].t, "assigned")
    /\ Disturb({proc[p].t})
    /\ Goto(p, "write")
    /\ UNCHANGED <<status, of, sealed, quiet, known, seats, granted, reopened>>

(* Mutant: the reservation does not test the status. *)
ReserveAlways(p) ==
    /\ At(p, "reserve")
    /\ status' = [status EXCEPT ![proc[p].w] = proc[p].out]
    /\ quiet' = [quiet EXCEPT ![proc[p].w] = FALSE]
    /\ granted' = [granted EXCEPT ![proc[p].w] = TRUE]
    /\ Goto(p, "outcome")
    /\ UNCHANGED <<task, of, sealed, known, seats, reopened, disturbed>>

(* Reserve terminal ownership: UPDATE workers SET status WHERE status = seen. *)
Reserve(p) ==
    /\ At(p, "reserve")
    /\ IF status[proc[p].w] = proc[p].seen
       THEN /\ status' = [status EXCEPT ![proc[p].w] = proc[p].out]
            /\ quiet' = [quiet EXCEPT ![proc[p].w] = FALSE]
            /\ granted' = [granted EXCEPT ![proc[p].w] = TRUE]
            /\ Goto(p, "outcome")
       ELSE Stop(p) /\ UNCHANGED <<status, quiet, granted>>
    /\ UNCHANGED <<task, of, sealed, known, seats, reopened, disturbed>>

(* What becomes of the task.  A completed loop iteration is re-queued or      *)
(* exhausted; a failure is re-queued on a budget wall, a deferral, a mount    *)
(* gap or an automatic retry.  Never of a cancelled task.                     *)
Outcomes(out) == IF out = "completed" THEN {"completed", "pending", "failed"}
                 ELSE {"failed", "pending"}

Outcome(p) ==
    /\ At(p, "outcome")
    /\ \E s \in Outcomes(proc[p].out) :
          /\ IF task[proc[p].t] = "cancelled" THEN UNCHANGED task
             ELSE SetTask(proc[p].t, s)
          /\ Goto(p, IF s = "completed" THEN "release" ELSE "write")
    /\ UNCHANGED <<status, of, sealed, quiet, known, seats, aux>>

(* executeRelease() ran; if it failed the task is failed, whatever it is now. *)
Release(p) ==
    /\ At(p, "release")
    /\ SetTask(proc[p].t, "failed") \/ UNCHANGED task
    /\ Goto(p, "write")
    /\ UNCHANGED <<status, of, sealed, quiet, known, seats, aux>>

(* The final UPDATE of the worker row, WHERE status is still the one read or, *)
(* after a reservation, the reserved one.  A reported error that happens to    *)
(* say 'timed out' or 'expired' seals the worker like a clean-up does.         *)
UnmovedAlways(r, s) == TRUE   \* Mutant: the final UPDATE does not test the status.
Unmoved(r, s) == s = IF r.out \in Terminal THEN r.out ELSE r.seen

Write(p) ==
    /\ At(p, "write")
    /\ LET w == proc[p].w
           reopens == proc[p].seen \in Terminal
       IN  IF Unmoved(proc[p], status[w])
           THEN /\ status' = [status EXCEPT ![w] = proc[p].out]
                /\ quiet' = [quiet EXCEPT ![w] = FALSE]
                /\ \E timeout \in IF proc[p].out \in {"failed", "error"} THEN BOOLEAN ELSE {FALSE} :
                      sealed' = [sealed EXCEPT ![w] = timeout \/ (@ /\ ~reopens)]
                /\ granted' = [granted EXCEPT ![w] = @ /\ ~reopens]
                /\ reopened' = (reopened \/ reopens)
                /\ IF proc[p].out \in Terminal THEN Goto(p, "seat") ELSE Stop(p)
           ELSE /\ Stop(p)
                /\ UNCHANGED <<status, quiet, sealed, granted, reopened>>
    /\ UNCHANGED <<task, of, known, seats, disturbed>>

(* Release the seat of a worker that was live when it was read. *)
Seat(p) ==
    /\ At(p, "seat")
    /\ seats' = Released(1)
    /\ IF proc[p].out = "completed" THEN Stop(p) ELSE Goto(p, "late")
    /\ UNCHANGED <<task, status, of, sealed, quiet, known, aux>>

(* Mutant: the late decision retries the task instead of failing it.          *)
LateRetry(p) ==
    /\ At(p, "late")
    /\ Stop(p)
    /\ \/ task[proc[p].t] # "cancelled" /\ SetTask(proc[p].t, "pending")
       \/ UNCHANGED task
    /\ UNCHANGED <<status, of, sealed, quiet, known, seats, aux>>

(* If this worker's cost exhausts its mission's budget, a task re-queued for  *)
(* a mount gap is failed after all.                                           *)
LateFail(p) ==
    /\ At(p, "late")
    /\ Stop(p)
    /\ \/ task[proc[p].t] # "cancelled" /\ SetTask(proc[p].t, "failed")
       \/ UNCHANGED task
    /\ UNCHANGED <<status, of, sealed, quiet, known, seats, aux>>

----------------------------------------------------------------------------
(* POST /api/workers/[id]/interrupt: a human takes a review over. *)

InterruptRead(p) ==
    /\ \E w \in LiveWorkers :
          /\ of[w] \in ReviewTasks
          /\ Begin(p, [Idle EXCEPT !.kind = "interrupt", !.w = w, !.t = of[w],
                                   !.seen = status[w], !.pc = "interrupt"])
    /\ UNCHANGED <<rows, aux>>

Interrupt(p) ==
    /\ At(p, "interrupt")
    /\ LET w == proc[p].w
       IN  IF status[w] = proc[p].seen
           THEN /\ status' = [status EXCEPT ![w] = "failed"]
                /\ sealed' = [sealed EXCEPT ![w] = TRUE]
                /\ quiet' = [quiet EXCEPT ![w] = FALSE]
                /\ granted' = [granted EXCEPT ![w] = TRUE]
                /\ Goto(p, "takeover")
           ELSE Stop(p) /\ UNCHANGED <<status, sealed, quiet, granted>>
    /\ UNCHANGED <<task, of, known, seats, reopened, disturbed>>

Takeover(p) ==
    /\ At(p, "takeover")
    /\ SetTask(proc[p].t, "failed")
    /\ Stop(p)
    /\ UNCHANGED <<status, of, sealed, quiet, known, seats, aux>>

----------------------------------------------------------------------------
(* POST /api/tasks/[id]/reassign with force: an assigned task is pending      *)
(* first, its live workers are failed after; a failed task is just pending.   *)

ReassignRead(p) ==
    /\ \E t \in Tasks :
          /\ task[t] \in {"assigned", "failed"}
          /\ Begin(p, [Idle EXCEPT !.kind = "reassign", !.t = t, !.seen = task[t],
                                   !.pc = "requeue"])
    /\ UNCHANGED <<rows, aux>>

Requeue(p) ==
    /\ At(p, "requeue")
    /\ SetTask(proc[p].t, "pending")
    /\ Disturb({proc[p].t})
    /\ IF proc[p].seen = "assigned" THEN Goto(p, "evict") ELSE Stop(p)
    /\ UNCHANGED <<status, of, sealed, quiet, known, seats, granted, reopened>>

(* error = 'Task was reassigned', which does not forbid reactivation. *)
Evict(p) ==
    /\ At(p, "evict")
    /\ LET ws == LiveOn(proc[p].t)
       IN  /\ status' = [w \in Workers |-> IF w \in ws THEN "failed" ELSE status[w]]
           /\ quiet' = [w \in Workers |-> w \notin ws /\ quiet[w]]
           /\ sealed' = [w \in Workers |-> w \notin ws /\ sealed[w]]
    /\ Stop(p)
    /\ UNCHANGED <<task, of, known, seats, aux>>

----------------------------------------------------------------------------
(* PATCH /api/tasks/[id]: cancel and reopen are one UPDATE, unconditional;    *)
(* completed and failed are refused while a worker runs or waits.             *)

Cancel(t) ==
    /\ "edit" \in Requests
    /\ task[t] # "cancelled"
    /\ SetTask(t, "cancelled")
    /\ UNCHANGED <<status, of, sealed, quiet, known, seats, proc, aux>>

Reopen(t) ==
    /\ "edit" \in Requests
    /\ task[t] # "pending"
    /\ SetTask(t, "pending")
    /\ Disturb({t})
    /\ UNCHANGED <<status, of, sealed, quiet, known, seats, proc, granted, reopened>>

CloseRead(p) ==
    /\ \E t \in Tasks, s \in {"completed", "failed"} :
          /\ \A w \in LiveOn(t) : status[w] = "idle"
          /\ Begin(p, [Idle EXCEPT !.kind = "edit", !.t = t, !.out = s, !.pc = "close"])
    /\ UNCHANGED <<rows, aux>>

Close(p) ==
    /\ At(p, "close")
    /\ SetTask(proc[p].t, proc[p].out)
    /\ Stop(p)
    /\ UNCHANGED <<status, of, sealed, quiet, known, seats, aux>>

(* POST /api/workers/[id]/recover: the row is running again, whatever it was. *)
Recover(w) ==
    /\ "recover" \in Requests
    /\ status[w] # "none"
    /\ status' = [status EXCEPT ![w] = "running"]
    /\ sealed' = [sealed EXCEPT ![w] = FALSE]
    /\ quiet' = [quiet EXCEPT ![w] = FALSE]
    /\ granted' = [granted EXCEPT ![w] = FALSE]
    /\ reopened' = (reopened \/ status[w] \in Terminal)
    /\ Disturb({of[w]})
    /\ UNCHANGED <<task, of, known, seats, proc>>

----------------------------------------------------------------------------
(* POST /api/tasks/cleanup, section by section, and the offline check of the  *)
(* schedules cron.  Only section 4 releases seats.                            *)

(* Section 1: workers that run but have been silent for an hour. *)
StalledRead(p) ==
    /\ \E ws \in {{w \in LiveWorkers : quiet[w] /\ status[w] = "running"}} :
          ws # {} /\ Begin(p, [Idle EXCEPT !.kind = "stalled", !.ws = ws, !.pc = "expire"])
    /\ UNCHANGED <<rows, aux>>

(* Section 5: some runner of the account has not beaten for 10 minutes; the   *)
(* cron does the same at 150 minutes.  All the account's live workers go.     *)
OfflineRead(p) ==
    /\ LiveWorkers # {}
    /\ \E k \in {"offline", "cron"} :
          Begin(p, [Idle EXCEPT !.kind = k, !.ws = LiveWorkers, !.pc = "expire"])
    /\ UNCHANGED <<rows, aux>>

(* The expiry itself, and what each clean-up does next. *)
Expire(p) ==
    /\ At(p, "expire")
    /\ ExpireRows(proc[p].ws)
    /\ LET r == proc[p]
           ts == TasksOf(r.ws)
       IN  Become(p,
            CASE r.kind \in {"claim", "sweep"} -> [r EXCEPT !.pc = "seats"]
              [] r.kind = "stalled" -> [r EXCEPT !.pc = "filter"]
              [] r.kind = "offline" -> [r EXCEPT !.ts = ts, !.ws = {}, !.pc = "reset"]
              [] OTHER (* cron *)   -> [r EXCEPT !.ts = ts, !.ws = {}, !.pc = "reset_all"])
    /\ UNCHANGED <<task, of, known, seats, aux>>

(* Section 1 goes on with the tasks that are still assigned. *)
StalledFilter(p) ==
    /\ At(p, "filter")
    /\ LET ts == {t \in TasksOf(proc[p].ws) : task[t] = "assigned"}
       IN  IF ts = {} THEN Stop(p)
           ELSE Become(p, [proc[p] EXCEPT !.ts = ts, !.ws = {}, !.pc = "reset"])
    /\ UNCHANGED <<rows, aux>>

(* resetOrFailTask(): failed at the cap, else pending; whatever it is now.    *)
(* Section 5 completes the task instead when its worker delivered.            *)
Resets(kind) == {"pending", "failed"} \cup IF kind = "offline" THEN {"completed"} ELSE {}

Reset(p) ==
    /\ At(p, "reset")
    /\ \E t \in proc[p].ts, s \in Resets(proc[p].kind) :
          /\ SetTask(t, s)
          /\ Disturb({t})
          /\ Become(p, Without(proc[p], t, "reset", Idle))
    /\ UNCHANGED <<status, of, sealed, quiet, known, seats, granted, reopened>>

(* The cron: one UPDATE sets them all pending. *)
ResetAll(p) ==
    /\ At(p, "reset_all")
    /\ task' = [t \in Tasks |-> IF t \in proc[p].ts THEN "pending" ELSE task[t]]
    /\ Disturb(proc[p].ts)
    /\ Stop(p)
    /\ UNCHANGED <<status, of, sealed, quiet, known, seats, granted, reopened>>

(* Section 4, cleanupStuckWaitingInput(): a worker that has waited for input  *)
(* for hours is failed, then its task, which a new task replaces (left out).  *)
StuckRead(p) ==
    /\ \E ws \in {{w \in LiveWorkers : quiet[w] /\ status[w] = "waiting_input"}} :
          /\ ws # {}
          /\ Begin(p, [Idle EXCEPT !.kind = "waiting", !.ws = ws, !.left = ws,
                                   !.pc = "stuck"])
    /\ UNCHANGED <<rows, aux>>

StuckWorker(p) ==
    /\ At(p, "stuck")
    /\ \E w \in proc[p].left :
          /\ status' = [status EXCEPT ![w] = "failed"]
          /\ sealed' = [sealed EXCEPT ![w] = TRUE]
          /\ quiet' = [quiet EXCEPT ![w] = FALSE]
          /\ Become(p, [proc[p] EXCEPT !.t = of[w], !.left = @ \ {w}, !.pc = "stuck_task"])
    /\ UNCHANGED <<task, of, known, seats, aux>>

StuckTask(p) ==
    /\ At(p, "stuck_task")
    /\ SetTask(proc[p].t, "failed")
    /\ Goto(p, IF proc[p].left = {} THEN "stuck_seats" ELSE "stuck")
    /\ UNCHANGED <<status, of, sealed, quiet, known, seats, aux>>

StuckSeats(p) ==
    /\ At(p, "stuck_seats")
    /\ seats' = Released(Cardinality(proc[p].ws))
    /\ Stop(p)
    /\ UNCHANGED <<task, status, of, sealed, quiet, known, aux>>

(* Section 2: assigned tasks that no live worker holds. *)
OrphansRead(p) ==
    /\ \E ts \in {{t \in Tasks : task[t] = "assigned"}} :
          ts # {} /\ Begin(p, [Idle EXCEPT !.kind = "orphans", !.ts = ts, !.pc = "orphan"])
    /\ UNCHANGED <<rows, aux>>

(* Mutant: any worker row, ended or not, holds the task. *)
OrphanReadAnyRow(p) ==
    /\ At(p, "orphan")
    /\ \E t \in proc[p].ts :
          LET done == \E w \in Workers : of[w] = t /\ status[w] = "completed"
              drop == Without(proc[p], t, "orphan", Idle)
          IN  IF \E w \in Workers : of[w] = t THEN Become(p, drop)
              ELSE \/ \E s \in {"completed"} \cup
                               IF done THEN {} ELSE {"pending", "failed"} :
                         Become(p, [proc[p] EXCEPT !.t = t, !.out = s, !.pc = "adopt"])
                   \/ ~done /\ Become(p, drop)
    /\ UNCHANGED <<rows, aux>>

(* A completed worker, or one that delivered, completes the task; without     *)
(* one it is reset once it has been assigned for two hours.                   *)
OrphanRead(p) ==
    /\ At(p, "orphan")
    /\ \E t \in proc[p].ts :
          LET done == \E w \in Workers : of[w] = t /\ status[w] = "completed"
              drop == Without(proc[p], t, "orphan", Idle)
          IN  IF LiveOn(t) # {} THEN Become(p, drop)
              ELSE \/ \E s \in {"completed"} \cup
                               IF done THEN {} ELSE {"pending", "failed"} :
                         Become(p, [proc[p] EXCEPT !.t = t, !.out = s, !.pc = "adopt"])
                   \/ ~done /\ Become(p, drop)
    /\ UNCHANGED <<rows, aux>>

Adopt(p) ==
    /\ At(p, "adopt")
    /\ SetTask(proc[p].t, proc[p].out)
    /\ Disturb({proc[p].t})
    /\ Become(p, Without(proc[p], proc[p].t, "orphan", Idle))
    /\ UNCHANGED <<status, of, sealed, quiet, known, seats, granted, reopened>>

----------------------------------------------------------------------------
(* A request dies between two statements: function timeout, database error.   *)
Crash(p) ==
    /\ "crash" \in Requests
    /\ ~At(p, "idle")
    /\ Stop(p)
    /\ UNCHANGED <<rows, aux>>

(* Minutes pass without an update from the runner.  Requests last seconds, so *)
(* none that has to do with the worker is in progress.                        *)
Age(w) ==
    /\ status[w] \in Live /\ ~quiet[w]
    /\ \A p \in Procs : proc[p].w # w /\ w \notin proc[p].ws
    /\ quiet' = [quiet EXCEPT ![w] = TRUE]
    /\ UNCHANGED <<task, status, of, sealed, known, seats, proc, aux>>

ClaimStep(p) ==
    \/ ClaimCount(p) \/ ClaimSelect(p) \/ ClaimTask(p)
    \/ InsertCount(p) \/ InsertRow(p) \/ Rollback(p) \/ Sessions(p)
ReportStep(p) ==
    \/ Reactivate(p) \/ Reserve(p) \/ Outcome(p) \/ Release(p)
    \/ Write(p) \/ Seat(p) \/ LateFail(p)
CleanupStep(p) ==
    \/ SweepRead(p) \/ Expire(p) \/ SweepSeats(p) \/ SweepOthers(p)
    \/ ResolveRead(p) \/ Settle(p)
    \/ StuckWorker(p) \/ StuckTask(p) \/ StuckSeats(p)
    \/ StalledFilter(p) \/ Reset(p) \/ ResetAll(p) \/ OrphanRead(p) \/ Adopt(p)
OverrideStep(p) == Interrupt(p) \/ Takeover(p) \/ Requeue(p) \/ Evict(p) \/ Close(p)

(* A request in progress runs its next statement. *)
Step(p) == ClaimStep(p) \/ ReportStep(p) \/ CleanupStep(p) \/ OverrideStep(p)

Arrive(p) ==
    \/ ClaimBegin(p) \/ ReportRead(p) \/ InterruptRead(p) \/ ReassignRead(p)
    \/ CloseRead(p) \/ SweepBegin(p) \/ StalledRead(p) \/ OfflineRead(p)
    \/ OrphansRead(p) \/ StuckRead(p)

Next ==
    \/ \E p \in Procs : Arrive(p) \/ Step(p) \/ Crash(p)
    \/ \E t \in Tasks : Cancel(t) \/ Reopen(t)
    \/ \E w \in Workers : Recover(w) \/ Age(w)

Spec == Init /\ [][Next]_vars

(* A request that does not crash comes to its end.  The runners' clean-up of  *)
(* orphaned tasks, every half hour, comes round again and again; an orphan it *)
(* finds has, some time, been assigned for two hours, and some time the       *)
(* clean-up does not crash before it has written.                             *)
Adopting(t) == \E p \in Procs : OrphanRead(p) /\ proc'[p].pc = "adopt" /\ proc'[p].t = t
Adopted(t) == \E p \in Procs : proc[p].t = t /\ Adopt(p)

LiveSpec ==
    /\ Spec
    /\ \A p \in Procs : WF_vars(Step(p))
    /\ SF_vars(\E p \in Procs : OrphansRead(p))
    /\ \A t \in Tasks : SF_vars(Adopting(t)) /\ SF_vars(Adopted(t))

----------------------------------------------------------------------------
Statuses == {"none"} \cup Live \cup Terminal
Statements == {"idle", "sweep", "expire", "seats", "others", "resolve", "settle", "count",
    "select", "claim", "insert", "insert_row", "rollback", "sessions", "reactivate",
    "reserve", "outcome", "release", "write", "seat", "late", "interrupt", "takeover",
    "requeue", "evict", "close", "filter", "reset", "reset_all", "stuck", "stuck_task",
    "stuck_seats", "orphan", "adopt"}

Request == [pc : Statements, kind : Kinds \cup {"none"},
            w : Workers \cup {NoWorker}, t : Tasks \cup {NoTask},
            seen : Statuses \cup TaskStatus, out : Statuses \cup TaskStatus,
            ws : SUBSET Workers, left : SUBSET Workers,
            ts : SUBSET (Tasks \cup {NoTask}), pass : {1, 2}]

RowsOK ==
    /\ task \in [Tasks -> TaskStatus]
    /\ status \in [Workers -> Statuses]
    /\ of \in [Workers -> Tasks \cup {NoTask}]
    /\ sealed \in [Workers -> BOOLEAN] /\ quiet \in [Workers -> BOOLEAN]
    /\ known \in [Workers -> BOOLEAN]
    /\ seats \in Nat

AuxOK == /\ granted \in [Workers -> BOOLEAN]
         /\ reopened \in BOOLEAN
         /\ disturbed \in [Tasks -> BOOLEAN]

(* What a request has read fits the statement it is about to run. *)
Sound(r) ==
    /\ r.pc \in {"reserve", "outcome", "release", "seat", "late"} =>
          r.seen \in Live /\ r.out \in Terminal
    /\ r.pc = "interrupt" => r.seen \in Live
    /\ r.pc = "reactivate" => r.seen \in Terminal /\ r.out = "running"
    /\ r.pc = "write" =>
          \/ (r.seen \in Live /\ r.out \in Live \cup Terminal)
          \/ (r.seen \in Terminal /\ r.out = "running")
    /\ r.pc \in {"close", "adopt"} => r.out \in TaskStatus
    /\ r.pc \in {"reserve", "interrupt", "reactivate", "outcome", "release", "write"} =>
          r.w \in Workers

ProcOK == proc \in [Procs -> Request] /\ \A p \in Procs : Sound(proc[p])

(* Rows and requests have their shape, the seat counter never goes below      *)
(* zero, and what a request writes follows from what it read.                 *)
TypeOK == RowsOK /\ AuxOK /\ ProcOK

(* A worker that a terminal report or a takeover ended is ended until a       *)
(* follow-up or recover reopens it: no progress report that was under way     *)
(* when it ended makes it live again.                                         *)
GrantedIsTerminal == \A w \in Workers : granted[w] => status[w] \in Terminal

(* The request is past the UPDATE that ended its worker, so it goes on to     *)
(* decide the task's outcome, the release and the hooks.                      *)
EndsWorker(r) == \/ r.pc \in {"outcome", "release", "seat", "late", "takeover"}
                 \/ (r.pc = "write" /\ r.out \in Terminal)

(* Exactly one request produces the outcome of a worker's end: two terminal   *)
(* reports, or a report and a human takeover, never both get past the         *)
(* reservation (unless an ended worker was reopened in between).              *)
OneOutcome ==
    ~reopened => \A p, q \in Procs :
        p # q /\ EndsWorker(proc[p]) /\ EndsWorker(proc[q]) => proc[p].w # proc[q].w

(* Who may act for a task: its live workers, the claim that is about to       *)
(* insert one, the terminal report that is about to decide its outcome.       *)
Holds(r, t) == r.t = t /\ r.pc \in {"insert", "insert_row", "rollback", "outcome"}
Holders(t) == LiveOn(t) \cup {p \in Procs : Holds(proc[p], t)}

(* A task has at most one holder, and none while it is pending, however       *)
(* claims, reports, takeovers, cancellations and crashes interleave; an       *)
(* expiry, an override or a reopening suspends this for the task until it is  *)
(* claimed anew with nobody else engaged on it.                               *)
OneLease ==
    \A t \in Tasks : ~disturbed[t] =>
        /\ \A a, b \in Holders(t) : a = b
        /\ task[t] = "pending" => Holders(t) = {}

(* The life of a lease: an undisturbed task is taken only while it is         *)
(* pending, passes from the claim to its worker and from the worker to the    *)
(* report that ends it, and is pending again only by the hand of the request  *)
(* that holds it; one that has ended, or that was abandoned, is neither       *)
(* taken nor reopened.                                                        *)
LeaseOf(t) == IF disturbed[t] THEN "loose"
              ELSE IF task[t] = "pending" THEN "open"
              ELSE IF Holders(t) = {} THEN "closed" ELSE "held"

Abstract == INSTANCE Lease WITH
    lease <- [t \in Tasks |-> LeaseOf(t)],
    by <- [t \in Tasks |-> IF disturbed[t] THEN {} ELSE Holders(t)]

KeepsLease == Abstract!Spec

(* The count and the insertion of a worker are not atomic, yet the cap is     *)
(* overshot at most by the number of claims that insert at the same time.     *)
Counted == {p \in Procs : proc[p].pc = "insert_row"}
CapOvershoot ==
    ~reopened => Cardinality(LiveWorkers) + Cardinality(Counted)
                    < MaxConcurrentWorkers + Cardinality(Procs)

(* When no request is in progress, every seat that is taken is some live      *)
(* worker's: what has ended does not keep new claims out.                     *)
SeatsReturned ==
    (\A p \in Procs : At(p, "idle")) => seats <= Cardinality(LiveWorkers)

(* An assigned task that nobody works on, because a claim died before its     *)
(* worker row, or a report before its outcome.                                *)
Limbo(t) == task[t] = "assigned" /\ Holders(t) = {}

(* No task stays in limbo, even if requests go on crashing: the periodic      *)
(* clean-up finds it.                                                         *)
NoLimbo == \A t \in Tasks : []<>~Limbo(t)
=============================================================================
