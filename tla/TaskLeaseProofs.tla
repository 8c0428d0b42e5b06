-------------------------- MODULE TaskLeaseProofs --------------------------
(* Proofs about TaskLease, for any tasks, workers, requests in progress and   *)
(* limits: its types, that a worker is ended once, how far the worker cap can *)
(* be overshot, that a task has one holder, that TaskLease implements Lease,  *)
(* and that seats go back.                                                    *)
EXTENDS TaskLease, FiniteSetTheorems, TLAPS

(* Sets of worker rows are finite, so counts are numbers. *)
LEMMA CountIsNat ==
    ASSUME NEW ws \in SUBSET Workers
    PROVE  Cardinality(ws) \in Nat
BY LeaseAssumption, FS_Subset, FS_CardinalityType

(* The clamped decrement of the seat counter stays a natural number. *)
LEMMA ReleasedIsNat ==
    ASSUME seats \in Nat, NEW n \in Nat
    PROVE  Released(n) \in Nat
BY DEF Released

(* A step that gives request p a well-formed, sound record keeps ProcOK. *)
LEMMA BecomeKeeps ==
    ASSUME ProcOK, NEW p \in Procs, NEW r \in Request, Sound(r), Become(p, r)
    PROVE  ProcOK'
BY DEF ProcOK, Become

LEMMA IdleIsSound == Idle \in Request /\ Sound(Idle)
BY DEF Idle, Request, Sound, Statements, Statuses, Kinds

LEMMA StopKeeps ==
    ASSUME ProcOK, NEW p \in Procs, Stop(p)
    PROVE  ProcOK'
BY IdleIsSound, BecomeKeeps DEF Stop

LEMMA NoneIsStatus == "none" \in Statuses \cup TaskStatus
BY DEF Statuses

(* The statements that rely on nothing the request has read. *)
Plain == {"idle", "sweep", "expire", "seats", "others", "resolve", "settle", "count",
    "select", "claim", "insert", "insert_row", "rollback", "sessions", "takeover",
    "requeue", "evict", "filter", "reset", "reset_all", "stuck", "stuck_task",
    "stuck_seats", "orphan"}

LEMMA PlainIsStatement == Plain \subseteq Statements
BY DEF Plain, Statements

LEMMA PlainIsSound ==
    ASSUME NEW r, r.pc \in Plain
    PROVE  Sound(r)
BY DEF Plain, Sound

LEMMA GotoIsSound ==
    ASSUME NEW r \in Request, NEW pc \in Plain
    PROVE  [r EXCEPT !.pc = pc] \in Request /\ Sound([r EXCEPT !.pc = pc])
<1>1. [r EXCEPT !.pc = pc] \in Request /\ [r EXCEPT !.pc = pc].pc = pc
    BY PlainIsStatement DEF Request
<1> QED BY <1>1, PlainIsSound

(* A step to a plain statement, nothing else changed, keeps ProcOK. *)
LEMMA GotoKeeps ==
    ASSUME ProcOK, NEW p \in Procs, NEW pc \in Plain, Goto(p, pc)
    PROVE  ProcOK'
BY GotoIsSound, BecomeKeeps DEF Goto, ProcOK

(* A well-formed record at a plain statement will do. *)
LEMMA PlainKeeps ==
    ASSUME ProcOK, NEW p \in Procs, NEW r \in Request, r.pc \in Plain, Become(p, r)
    PROVE  ProcOK'
BY PlainIsSound, BecomeKeeps

(* Going on with the next task, or being done, keeps a request well formed.   *)
LEMMA WithoutIsSound ==
    ASSUME NEW r \in Request, NEW t, NEW pc \in Plain, NEW done \in Request, Sound(done)
    PROVE  Without(r, t, pc, done) \in Request /\ Sound(Without(r, t, pc, done))
<1> DEFINE next == [r EXCEPT !.ts = @ \ {t}, !.t = NoTask, !.out = "none", !.pc = pc]
<1>1. r.ts \ {t} \in SUBSET (Tasks \cup {NoTask})
    BY DEF Request
<1>2. next \in Request
    BY <1>1, NoneIsStatus, PlainIsStatement DEF Request
<1>3. next.pc = pc
    BY DEF Request
<1>4. Sound(next)
    BY <1>3, PlainIsSound
<1> QED BY <1>2, <1>4 DEF Without

LEMMA AfterPassIsSound ==
    ASSUME NEW r \in Request
    PROVE  AfterPass(r) \in Request /\ Sound(AfterPass(r))
<1> DEFINE second == [Idle EXCEPT !.kind = r.kind, !.pc = "sweep", !.pass = 2]
           count == [Idle EXCEPT !.kind = "claim", !.pc = "count"]
<1>1. {"sweep", "count"} \subseteq Statements /\ {"sweep", "count"} \subseteq Plain
    BY DEF Statements, Plain
<1>2. second \in Request /\ second.pc = "sweep"
    BY <1>1, IdleIsSound DEF Request
<1>3. "claim" \in Kinds \cup {"none"}
    BY DEF Kinds
<1>4. count \in Request /\ count.pc = "count"
    BY <1>1, <1>3, IdleIsSound DEF Request
<1> QED BY <1>1, <1>2, <1>4, IdleIsSound, PlainIsSound DEF AfterPass

LEMMA ClaimDoneIsSound ==
    ASSUME NEW r \in Request
    PROVE  ClaimDone(r) \in Request /\ Sound(ClaimDone(r))
<1> DEFINE last == [r EXCEPT !.ts = {}, !.t = NoTask, !.pc = "sessions"]
<1>1. "sessions" \in Plain /\ "sessions" \in Statements
    BY DEF Plain, Statements
<1>2. last \in Request /\ last.pc = "sessions"
    BY <1>1 DEF Request
<1> QED BY <1>1, <1>2, IdleIsSound, PlainIsSound DEF ClaimDone

----------------------------------------------------------------------------
(* TypeOK, one lemma per part: first the requests in progress.                *)

LEMMA ClaimKeepsProc ==
    ASSUME TypeOK, NEW p \in Procs, ClaimBegin(p) \/ ClaimStep(p)
    PROVE  ProcOK'
<1> USE DEF At
<1>0. ProcOK /\ proc[p] \in Request
    BY DEF TypeOK, ProcOK
<1>s. {"sweep", "count", "select", "claim", "insert", "insert_row", "rollback"}
        \subseteq Plain \cap Statements
    BY DEF Plain, Statements
<1>1. CASE ClaimBegin(p)
    <2> DEFINE r == [Idle EXCEPT !.kind = "claim", !.pc = "sweep"]
    <2>1. "claim" \in Kinds \cup {"none"}
        BY DEF Kinds
    <2>2. r \in Request /\ r.pc = "sweep"
        BY <2>1, <1>s, IdleIsSound DEF Request
    <2> QED BY <1>0, <1>1, <1>s, <2>2, PlainKeeps DEF ClaimBegin, Begin, Become
<1>2. CASE ClaimCount(p)
    BY <1>0, <1>2, <1>s, GotoKeeps, StopKeeps DEF ClaimCount
<1>3. CASE ClaimSelect(p)
    <2> DEFINE r == [proc[p] EXCEPT !.ts = Claimable, !.pc = "claim"]
    <2>1. Claimable \in SUBSET (Tasks \cup {NoTask})
        BY DEF Claimable
    <2>2. r \in Request /\ r.pc = "claim"
        BY <1>0, <1>s, <2>1 DEF Request
    <2> QED BY <1>0, <1>3, <1>s, <2>2, PlainKeeps, StopKeeps DEF ClaimSelect
<1>4. CASE ClaimTask(p)
    <2> PICK t \in proc[p].ts :
            \/ Become(p, [proc[p] EXCEPT !.t = t, !.ts = @ \ {t}, !.pc = "insert"])
            \/ Become(p, Without(proc[p], t, "claim", ClaimDone(proc[p])))
        BY <1>4 DEF ClaimTask
    <2> DEFINE r == [proc[p] EXCEPT !.t = t, !.ts = @ \ {t}, !.pc = "insert"]
    <2>1. t \in Tasks \cup {NoTask} /\ proc[p].ts \ {t} \in SUBSET (Tasks \cup {NoTask})
        BY <1>0 DEF Request
    <2>2. r \in Request /\ r.pc = "insert"
        BY <1>0, <1>s, <2>1 DEF Request
    <2>3. /\ Without(proc[p], t, "claim", ClaimDone(proc[p])) \in Request
          /\ Sound(Without(proc[p], t, "claim", ClaimDone(proc[p])))
        BY <1>0, <1>s, WithoutIsSound, ClaimDoneIsSound
    <2> QED BY <1>0, <1>s, <2>2, <2>3, PlainKeeps, BecomeKeeps
<1>5. CASE InsertCount(p)
    BY <1>0, <1>5, <1>s, GotoKeeps DEF InsertCount
<1>6. CASE InsertRow(p)
    <2> PICK w \in Workers :
            \/ Become(p, [proc[p] EXCEPT !.ws = @ \cup {w}, !.t = NoTask, !.pc = "claim"])
            \/ Become(p, ClaimDone([proc[p] EXCEPT !.ws = @ \cup {w}, !.t = NoTask,
                                                   !.pc = "claim"]))
        BY <1>6 DEF InsertRow
    <2> DEFINE r == [proc[p] EXCEPT !.ws = @ \cup {w}, !.t = NoTask, !.pc = "claim"]
    <2>1. proc[p].ws \cup {w} \in SUBSET Workers
        BY <1>0 DEF Request
    <2>2. r \in Request /\ r.pc = "claim"
        BY <1>0, <1>s, <2>1 DEF Request
    <2> QED BY <1>0, <1>s, <2>2, ClaimDoneIsSound, PlainKeeps, BecomeKeeps
<1>7. CASE Rollback(p)
    BY <1>7, <1>0, ClaimDoneIsSound, BecomeKeeps DEF Rollback
<1>8. CASE Sessions(p)
    BY <1>8, <1>0, StopKeeps DEF Sessions
<1> QED BY <1>1, <1>2, <1>3, <1>4, <1>5, <1>6, <1>7, <1>8 DEF ClaimStep

LEMMA ReportKeepsProc ==
    ASSUME TypeOK, NEW p \in Procs, ReportRead(p) \/ ReportStep(p)
    PROVE  ProcOK'
<1> USE DEF At
<1>0. ProcOK /\ proc[p] \in Request /\ Sound(proc[p])
    BY DEF TypeOK, ProcOK
<1> DEFINE To(pc) == [proc[p] EXCEPT !.pc = pc]
<1>s. /\ {"write", "reserve", "reactivate", "outcome", "release", "seat", "late"} \subseteq Statements
      /\ "report" \in Kinds \cup {"none"}
    BY DEF Statements, Kinds
<1>t. \A pc \in Statements : To(pc) \in Request /\ To(pc).pc = pc
                           /\ To(pc).seen = proc[p].seen /\ To(pc).out = proc[p].out
                           /\ To(pc).w = proc[p].w
    BY <1>0 DEF Request
<1>1. CASE ReportRead(p)
    <2> PICK w \in Workers, out \in Live \cup Terminal :
            LET r == [Idle EXCEPT !.kind = "report", !.w = w, !.t = of[w],
                                  !.seen = status[w], !.out = out]
            IN  \/ /\ status[w] \in Live /\ out \in Live
                   /\ Become(p, [r EXCEPT !.pc = "write"])
                \/ /\ status[w] \in Live /\ out \in Terminal
                   /\ Become(p, [r EXCEPT !.pc = "reserve"])
                \/ /\ status[w] \in Terminal /\ out = "running"
                   /\ Become(p, [r EXCEPT !.pc = "reactivate"])
        BY <1>1 DEF ReportRead, Begin, Become
    <2> DEFINE r == [Idle EXCEPT !.kind = "report", !.w = w, !.t = of[w],
                                 !.seen = status[w], !.out = out]
    <2>1. /\ of[w] \in Tasks \cup {NoTask}
          /\ status[w] \in Statuses \cup TaskStatus /\ out \in Statuses \cup TaskStatus
        BY DEF TypeOK, RowsOK, Statuses
    <2>2. r \in Request /\ r.seen = status[w] /\ r.out = out /\ r.w = w
        BY <2>1, <1>s, IdleIsSound DEF Request
    <2>3. \A pc \in Statements :
             /\ [r EXCEPT !.pc = pc] \in Request /\ [r EXCEPT !.pc = pc].pc = pc
             /\ [r EXCEPT !.pc = pc].seen = status[w] /\ [r EXCEPT !.pc = pc].out = out
             /\ [r EXCEPT !.pc = pc].w = w
        BY <2>2 DEF Request
    <2> HIDE DEF r
    <2>4. CASE status[w] \in Live /\ out \in Live /\ Become(p, [r EXCEPT !.pc = "write"])
        <3>1. Sound([r EXCEPT !.pc = "write"])
            BY <2>3, <2>4, <1>s DEF Sound
        <3> QED BY <1>0, <1>s, <2>3, <2>4, <3>1, BecomeKeeps
    <2>5. CASE status[w] \in Live /\ out \in Terminal /\ Become(p, [r EXCEPT !.pc = "reserve"])
        <3>1. Sound([r EXCEPT !.pc = "reserve"])
            BY <2>3, <2>5, <1>s DEF Sound
        <3> QED BY <1>0, <1>s, <2>3, <2>5, <3>1, BecomeKeeps
    <2>6. CASE status[w] \in Terminal /\ out = "running"
                    /\ Become(p, [r EXCEPT !.pc = "reactivate"])
        <3>1. Sound([r EXCEPT !.pc = "reactivate"])
            BY <2>3, <2>6, <1>s DEF Sound
        <3> QED BY <1>0, <1>s, <2>3, <2>6, <3>1, BecomeKeeps
    <2> QED BY <2>4, <2>5, <2>6 DEF r
<1>2. CASE Reactivate(p)
    <2>1. Sound(To("write"))
        BY <1>0, <1>2, <1>s, <1>t DEF Reactivate, Sound
    <2> QED BY <1>0, <1>2, <1>s, <1>t, <2>1, BecomeKeeps DEF Reactivate, Goto
<1>3. CASE Reserve(p)
    <2>1. Sound(To("outcome"))
        BY <1>0, <1>3, <1>s, <1>t DEF Reserve, Sound
    <2> QED BY <1>0, <1>3, <1>s, <1>t, <2>1, BecomeKeeps, StopKeeps DEF Reserve, Goto
<1>4. CASE Outcome(p)
    <2>1. Sound(To("write")) /\ Sound(To("release"))
        BY <1>0, <1>4, <1>s, <1>t DEF Outcome, Sound
    <2>2. Goto(p, "release") \/ Goto(p, "write")
        BY <1>4 DEF Outcome
    <2> QED BY <1>0, <1>s, <1>t, <2>1, <2>2, BecomeKeeps DEF Goto
<1>5. CASE Release(p)
    <2>1. Sound(To("write"))
        BY <1>0, <1>5, <1>s, <1>t DEF Release, Sound
    <2> QED BY <1>0, <1>5, <1>s, <1>t, <2>1, BecomeKeeps DEF Release, Goto
<1>6. CASE Write(p)
    <2>1. CASE proc[p].out \in Terminal
        <3>1. Sound(To("seat"))
            BY <1>0, <1>6, <1>s, <1>t, <2>1 DEF Write, Sound, Live, Terminal
        <3>2. Goto(p, "seat") \/ Stop(p)
            BY <1>6, <2>1 DEF Write
        <3> QED BY <1>0, <1>s, <1>t, <3>1, <3>2, BecomeKeeps, StopKeeps DEF Goto
    <2>2. CASE proc[p].out \notin Terminal
        BY <1>0, <1>6, <2>2, StopKeeps DEF Write
    <2> QED BY <2>1, <2>2
<1>7. CASE Seat(p)
    <2>1. Sound(To("late"))
        BY <1>0, <1>7, <1>s, <1>t DEF Seat, Sound
    <2> QED BY <1>0, <1>7, <1>s, <1>t, <2>1, BecomeKeeps, StopKeeps DEF Seat, Goto
<1>8. CASE LateFail(p)
    BY <1>0, <1>8, StopKeeps DEF LateFail
<1> QED BY <1>1, <1>2, <1>3, <1>4, <1>5, <1>6, <1>7, <1>8 DEF ReportStep

LEMMA OverrideKeepsProc ==
    ASSUME TypeOK, NEW p \in Procs,
           \/ InterruptRead(p) \/ ReassignRead(p) \/ CloseRead(p) \/ OverrideStep(p)
    PROVE  ProcOK'
<1> USE DEF At
<1>0. ProcOK
    BY DEF TypeOK
<1>s. /\ {"interrupt", "requeue", "close"} \subseteq Statements
      /\ {"interrupt", "reassign", "edit"} \subseteq Kinds \cup {"none"}
      /\ {"takeover", "requeue", "evict"} \subseteq Plain
    BY DEF Statements, Kinds, Plain
<1>1. CASE InterruptRead(p)
    <2> PICK w \in LiveWorkers :
            Become(p, [Idle EXCEPT !.kind = "interrupt", !.w = w, !.t = of[w],
                                   !.seen = status[w], !.pc = "interrupt"])
        BY <1>1 DEF InterruptRead, Begin, Become
    <2> DEFINE r == [Idle EXCEPT !.kind = "interrupt", !.w = w, !.t = of[w],
                                 !.seen = status[w], !.pc = "interrupt"]
    <2>1. /\ w \in Workers /\ status[w] \in Live /\ status[w] \in Statuses \cup TaskStatus
          /\ of[w] \in Tasks \cup {NoTask}
        BY DEF LiveWorkers, TypeOK, RowsOK, Statuses
    <2>2. r \in Request /\ r.pc = "interrupt" /\ r.seen = status[w] /\ r.w = w
        BY <2>1, <1>s, IdleIsSound DEF Request
    <2>3. Sound(r)
        BY <2>1, <2>2 DEF Sound
    <2> QED BY <1>0, <2>2, <2>3, BecomeKeeps
<1>2. CASE ReassignRead(p)
    <2> PICK t \in Tasks :
            Become(p, [Idle EXCEPT !.kind = "reassign", !.t = t, !.seen = task[t],
                                   !.pc = "requeue"])
        BY <1>2 DEF ReassignRead, Begin, Become
    <2> DEFINE r == [Idle EXCEPT !.kind = "reassign", !.t = t, !.seen = task[t],
                                 !.pc = "requeue"]
    <2>1. task[t] \in Statuses \cup TaskStatus
        BY DEF TypeOK, RowsOK
    <2>2. r \in Request /\ r.pc = "requeue"
        BY <2>1, <1>s, IdleIsSound DEF Request
    <2> QED BY <1>0, <1>s, <2>2, PlainKeeps
<1>3. CASE CloseRead(p)
    <2> PICK t \in Tasks, s \in {"completed", "failed"} :
            Become(p, [Idle EXCEPT !.kind = "edit", !.t = t, !.out = s, !.pc = "close"])
        BY <1>3 DEF CloseRead, Begin, Become
    <2> DEFINE r == [Idle EXCEPT !.kind = "edit", !.t = t, !.out = s, !.pc = "close"]
    <2>1. s \in TaskStatus /\ s \in Statuses \cup TaskStatus
        BY DEF TaskStatus
    <2>2. r \in Request /\ r.pc = "close" /\ r.out = s
        BY <2>1, <1>s, IdleIsSound DEF Request
    <2>3. Sound(r)
        BY <2>1, <2>2 DEF Sound
    <2> QED BY <1>0, <2>2, <2>3, BecomeKeeps
<1>4. CASE Interrupt(p)
    BY <1>0, <1>4, <1>s, GotoKeeps, StopKeeps DEF Interrupt
<1>5. CASE Takeover(p) \/ Evict(p) \/ Close(p)
    BY <1>0, <1>5, StopKeeps DEF Takeover, Evict, Close
<1>6. CASE Requeue(p)
    BY <1>0, <1>6, <1>s, GotoKeeps, StopKeeps DEF Requeue
<1> QED BY <1>1, <1>2, <1>3, <1>4, <1>5, <1>6 DEF OverrideStep

LEMMA CleanupArrivalKeepsProc ==
    ASSUME TypeOK, NEW p \in Procs,
           \/ SweepBegin(p) \/ StalledRead(p) \/ OfflineRead(p)
           \/ OrphansRead(p) \/ StuckRead(p)
    PROVE  ProcOK'
<1>0. ProcOK
    BY DEF TypeOK
<1>s. /\ {"sweep", "expire", "orphan", "stuck"} \subseteq Plain \cap Statements
      /\ {"sweep", "stalled", "offline", "cron", "orphans", "waiting"} \subseteq Kinds \cup {"none"}
    BY DEF Statements, Kinds, Plain
<1>1. CASE SweepBegin(p)
    <2> DEFINE r == [Idle EXCEPT !.kind = "sweep", !.pc = "sweep"]
    <2>1. r \in Request /\ r.pc = "sweep"
        BY <1>s, IdleIsSound DEF Request
    <2> QED BY <1>0, <1>1, <1>s, <2>1, PlainKeeps DEF SweepBegin, Begin, Become
<1>2. CASE StalledRead(p) \/ OfflineRead(p)
    <2> PICK k \in {"stalled", "offline", "cron"}, ws \in SUBSET Workers :
            Become(p, [Idle EXCEPT !.kind = k, !.ws = ws, !.pc = "expire"])
        <3>1. CASE StalledRead(p)
            BY <3>1 DEF StalledRead, Begin, Become, LiveWorkers
        <3>2. CASE OfflineRead(p)
            BY <3>2 DEF OfflineRead, Begin, Become, LiveWorkers
        <3> QED BY <1>2, <3>1, <3>2
    <2> DEFINE r == [Idle EXCEPT !.kind = k, !.ws = ws, !.pc = "expire"]
    <2>1. r \in Request /\ r.pc = "expire"
        BY <1>s, IdleIsSound DEF Request
    <2> QED BY <1>0, <1>s, <2>1, PlainKeeps
<1>3. CASE OrphansRead(p)
    <2> PICK ts \in SUBSET Tasks :
            Become(p, [Idle EXCEPT !.kind = "orphans", !.ts = ts, !.pc = "orphan"])
        BY <1>3 DEF OrphansRead, Begin, Become
    <2> DEFINE r == [Idle EXCEPT !.kind = "orphans", !.ts = ts, !.pc = "orphan"]
    <2>1. r \in Request /\ r.pc = "orphan"
        BY <1>s, IdleIsSound DEF Request
    <2> QED BY <1>0, <1>s, <2>1, PlainKeeps
<1>4. CASE StuckRead(p)
    <2> PICK ws \in SUBSET Workers :
            Become(p, [Idle EXCEPT !.kind = "waiting", !.ws = ws, !.left = ws, !.pc = "stuck"])
        BY <1>4 DEF StuckRead, Begin, Become, LiveWorkers
    <2> DEFINE r == [Idle EXCEPT !.kind = "waiting", !.ws = ws, !.left = ws, !.pc = "stuck"]
    <2>1. r \in Request /\ r.pc = "stuck"
        BY <1>s, IdleIsSound DEF Request
    <2> QED BY <1>0, <1>s, <2>1, PlainKeeps
<1> QED BY <1>1, <1>2, <1>3, <1>4

LEMMA TasksOfRows ==
    ASSUME RowsOK, NEW ws \in SUBSET Workers
    PROVE  TasksOf(ws) \in SUBSET (Tasks \cup {NoTask})
BY DEF RowsOK, TasksOf

LEMMA CleanupKeepsProc ==
    ASSUME TypeOK, NEW p \in Procs, CleanupStep(p)
    PROVE  ProcOK'
<1> USE DEF At
<1>0. ProcOK /\ proc[p] \in Request /\ Idle \in Request /\ Sound(Idle)
    BY IdleIsSound DEF TypeOK, ProcOK
<1>s. {"expire", "seats", "others", "resolve", "settle", "filter", "reset", "reset_all",
       "stuck", "stuck_task", "stuck_seats", "orphan"} \subseteq Plain \cap Statements
    BY DEF Statements, Plain
<1>a. \A ts \in SUBSET (Tasks \cup {NoTask}) : \A pc \in Plain :
         LET r == [proc[p] EXCEPT !.ts = ts, !.pc = pc]
             q == [proc[p] EXCEPT !.ts = ts, !.ws = {}, !.pc = pc]
         IN  r \in Request /\ r.pc = pc /\ q \in Request /\ q.pc = pc
    BY <1>0, PlainIsStatement DEF Request
<1>b. \A t \in Tasks \cup {NoTask} : \A pc \in {"others", "orphan"} :
         /\ Without(proc[p], t, pc, AfterPass(proc[p])) \in Request
         /\ Sound(Without(proc[p], t, pc, AfterPass(proc[p])))
    BY <1>0, <1>s, WithoutIsSound, AfterPassIsSound
<1>c. \A t \in Tasks \cup {NoTask} : \A pc \in {"reset", "orphan"} :
         /\ Without(proc[p], t, pc, Idle) \in Request
         /\ Sound(Without(proc[p], t, pc, Idle))
    BY <1>0, <1>s, WithoutIsSound
<1>d. proc[p].ts \subseteq Tasks \cup {NoTask} /\ proc[p].ws \in SUBSET Workers
         /\ proc[p].left \in SUBSET Workers /\ proc[p].t \in Tasks \cup {NoTask}
    BY <1>0 DEF Request
<1>e. TasksOf(proc[p].ws) \in SUBSET (Tasks \cup {NoTask})
    BY <1>d, TasksOfRows DEF TypeOK
<1>1. CASE SweepRead(p)
    <2> PICK ws \in SUBSET Workers :
            Become(p, IF ws = {} THEN AfterPass(proc[p])
                      ELSE [proc[p] EXCEPT !.ws = ws, !.pc = "expire"])
        BY <1>1 DEF SweepRead, StaleNow, SilentNow, LiveWorkers
    <2> DEFINE r == [proc[p] EXCEPT !.ws = ws, !.pc = "expire"]
    <2>1. r \in Request /\ r.pc = "expire"
        BY <1>0, <1>s DEF Request
    <2> QED BY <1>0, <1>s, <2>1, PlainKeeps, BecomeKeeps, AfterPassIsSound
<1>2. CASE Expire(p)
    <2> DEFINE ts == TasksOf(proc[p].ws)
    <2>1. CASE proc[p].kind \in {"claim", "sweep"}
        <3>1. Goto(p, "seats")
            BY <1>2, <2>1 DEF Expire, Goto
        <3> QED BY <1>0, <1>s, <3>1, GotoKeeps
    <2>2. CASE proc[p].kind = "stalled"
        <3>1. Goto(p, "filter")
            BY <1>2, <2>2 DEF Expire, Goto
        <3> QED BY <1>0, <1>s, <3>1, GotoKeeps
    <2>3. CASE proc[p].kind = "offline"
        <3>1. Become(p, [proc[p] EXCEPT !.ts = ts, !.ws = {}, !.pc = "reset"])
            BY <1>2, <2>3 DEF Expire
        <3> QED BY <1>0, <1>s, <1>a, <1>e, <3>1, PlainKeeps
    <2>4. CASE proc[p].kind \notin {"claim", "sweep", "stalled", "offline"}
        <3>1. Become(p, [proc[p] EXCEPT !.ts = ts, !.ws = {}, !.pc = "reset_all"])
            BY <1>2, <2>4 DEF Expire
        <3> QED BY <1>0, <1>s, <1>a, <1>e, <3>1, PlainKeeps
    <2> QED BY <2>1, <2>2, <2>3, <2>4
<1>3. CASE SweepSeats(p)
    BY <1>0, <1>3, <1>s, <1>a, <1>e, PlainKeeps DEF SweepSeats
<1>4. CASE SweepOthers(p)
    <2> PICK t \in proc[p].ts :
            \/ Become(p, [proc[p] EXCEPT !.t = t, !.pc = "resolve"])
            \/ Become(p, Without(proc[p], t, "others", AfterPass(proc[p])))
        BY <1>4 DEF SweepOthers
    <2> DEFINE r == [proc[p] EXCEPT !.t = t, !.pc = "resolve"]
    <2>1. t \in Tasks \cup {NoTask}
        BY <1>d
    <2>2. r \in Request /\ r.pc = "resolve"
        BY <1>0, <1>s, <2>1 DEF Request
    <2> QED BY <1>0, <1>s, <1>b, <2>1, <2>2, PlainKeeps, BecomeKeeps
<1>5. CASE ResolveRead(p)
    BY <1>0, <1>5, <1>s, <1>b, <1>d, GotoKeeps, BecomeKeeps DEF ResolveRead
<1>6. CASE Settle(p)
    BY <1>0, <1>6, <1>b, <1>d, BecomeKeeps DEF Settle
<1>7. CASE StuckWorker(p)
    <2> PICK w \in proc[p].left :
            Become(p, [proc[p] EXCEPT !.t = of[w], !.left = @ \ {w}, !.pc = "stuck_task"])
        BY <1>7 DEF StuckWorker
    <2> DEFINE r == [proc[p] EXCEPT !.t = of[w], !.left = @ \ {w}, !.pc = "stuck_task"]
    <2>1. of[w] \in Tasks \cup {NoTask} /\ proc[p].left \ {w} \in SUBSET Workers
        BY <1>d DEF TypeOK, RowsOK
    <2>2. r \in Request /\ r.pc = "stuck_task"
        BY <1>0, <1>s, <2>1 DEF Request
    <2> QED BY <1>0, <1>s, <2>2, PlainKeeps
<1>8. CASE StuckTask(p)
    BY <1>0, <1>8, <1>s, GotoKeeps DEF StuckTask
<1>9. CASE StuckSeats(p) \/ ResetAll(p)
    BY <1>0, <1>9, StopKeeps DEF StuckSeats, ResetAll
<1>10. CASE StalledFilter(p)
    <2> DEFINE ts == {t \in TasksOf(proc[p].ws) : task[t] = "assigned"}
    <2>1. ts \in SUBSET (Tasks \cup {NoTask})
        BY <1>e
    <2>2. Stop(p) \/ Become(p, [proc[p] EXCEPT !.ts = ts, !.ws = {}, !.pc = "reset"])
        BY <1>10 DEF StalledFilter
    <2> QED BY <1>0, <1>s, <1>a, <2>1, <2>2, PlainKeeps, StopKeeps
<1>11. CASE Reset(p)
    BY <1>0, <1>11, <1>c, <1>d, BecomeKeeps DEF Reset
<1>12. CASE OrphanRead(p)
    <2> PICK t \in proc[p].ts, s \in {"completed", "pending", "failed"} :
            \/ Become(p, Without(proc[p], t, "orphan", Idle))
            \/ Become(p, [proc[p] EXCEPT !.t = t, !.out = s, !.pc = "adopt"])
        BY <1>12 DEF OrphanRead
    <2> DEFINE r == [proc[p] EXCEPT !.t = t, !.out = s, !.pc = "adopt"]
    <2>1. t \in Tasks \cup {NoTask} /\ s \in TaskStatus /\ s \in Statuses \cup TaskStatus
             /\ "adopt" \in Statements
        BY <1>d DEF TaskStatus, Statements
    <2>2. r \in Request /\ r.pc = "adopt" /\ r.out = s
        BY <1>0, <2>1 DEF Request
    <2>3. Sound(r)
        BY <2>1, <2>2 DEF Sound
    <2> QED BY <1>0, <1>c, <2>1, <2>2, <2>3, BecomeKeeps
<1>13. CASE Adopt(p)
    BY <1>0, <1>13, <1>c, <1>d, BecomeKeeps DEF Adopt
<1> QED BY <1>1, <1>2, <1>3, <1>4, <1>5, <1>6, <1>7, <1>8, <1>9, <1>10, <1>11, <1>12, <1>13
        DEF CleanupStep

LEMMA NextKeepsProc ==
    ASSUME TypeOK, [Next]_vars
    PROVE  ProcOK'
<1>0. ProcOK
    BY DEF TypeOK
<1>1. ASSUME NEW p \in Procs, Arrive(p) \/ Step(p)
      PROVE  ProcOK'
    BY <1>1, ClaimKeepsProc, ReportKeepsProc, OverrideKeepsProc, CleanupKeepsProc,
       CleanupArrivalKeepsProc DEF Arrive, Step
<1>2. ASSUME NEW p \in Procs, Crash(p)
      PROVE  ProcOK'
    BY <1>0, <1>2, StopKeeps DEF Crash
<1>3. ASSUME UNCHANGED proc
      PROVE  ProcOK'
    BY <1>0, <1>3 DEF ProcOK
<1>4. ASSUME NEW t \in Tasks, Cancel(t) \/ Reopen(t)
      PROVE  ProcOK'
    BY <1>3, <1>4 DEF Cancel, Reopen
<1>5. ASSUME NEW w \in Workers, Recover(w) \/ Age(w)
      PROVE  ProcOK'
    BY <1>3, <1>5 DEF Recover, Age
<1>6. CASE UNCHANGED vars
    BY <1>3, <1>6 DEF vars
<1> QED BY <1>1, <1>2, <1>4, <1>5, <1>6 DEF Next

(* The rows and the auxiliary variables.  A step either leaves them alone or  *)
(* writes a status its table admits.                                          *)

LEMMA RequestFields ==
    ASSUME ProcOK, NEW p \in Procs
    PROVE  /\ proc[p] \in Request /\ Sound(proc[p])
           /\ proc[p].t \in Tasks \cup {NoTask} /\ proc[p].w \in Workers \cup {NoWorker}
           /\ proc[p].ws \in SUBSET Workers /\ proc[p].left \in SUBSET Workers
           /\ proc[p].ts \in SUBSET (Tasks \cup {NoTask})
BY DEF ProcOK, Request

LEMMA SetTaskKeeps ==
    ASSUME RowsOK, NEW t, NEW s \in TaskStatus, SetTask(t, s)
    PROVE  task' \in [Tasks -> TaskStatus]
BY DEF RowsOK, SetTask

LEMMA DisturbKeeps ==
    ASSUME AuxOK, NEW ts, Disturb(ts)
    PROVE  disturbed' \in [Tasks -> BOOLEAN]
BY DEF AuxOK, Disturb

LEMMA TaskStatusNames == {"pending", "assigned", "completed", "failed", "cancelled"} \subseteq TaskStatus
BY DEF TaskStatus

LEMMA StatusNames == Live \subseteq Statuses /\ Terminal \subseteq Statuses
    /\ "failed" \in Statuses /\ "idle" \in Statuses /\ "running" \in Statuses
BY DEF Statuses, Live, Terminal

LEMMA ExpireRowsKeeps ==
    ASSUME RowsOK, NEW ws, ExpireRows(ws)
    PROVE  /\ status' \in [Workers -> Statuses]
           /\ sealed' \in [Workers -> BOOLEAN] /\ quiet' \in [Workers -> BOOLEAN]
BY StatusNames DEF RowsOK, ExpireRows

LEMMA ClaimKeepsRows ==
    ASSUME TypeOK, NEW p \in Procs, ClaimBegin(p) \/ ClaimStep(p)
    PROVE  RowsOK' /\ AuxOK'
<1>0. RowsOK /\ AuxOK
    BY DEF TypeOK
<1>f. proc[p].ws \in SUBSET Workers /\ proc[p].t \in Tasks \cup {NoTask}
    BY RequestFields DEF TypeOK
<1>1. CASE ClaimBegin(p) \/ ClaimCount(p) \/ ClaimSelect(p) \/ InsertCount(p)
    BY <1>0, <1>1 DEF ClaimBegin, ClaimCount, ClaimSelect, InsertCount, rows, aux, RowsOK, AuxOK
<1>2. CASE ClaimTask(p)
    BY <1>0, <1>2, TaskStatusNames DEF ClaimTask, SetTask, RowsOK, AuxOK, Alone
<1>3. CASE InsertRow(p)
    BY <1>0, <1>3, <1>f, StatusNames DEF InsertRow, RowsOK, AuxOK, aux
<1>4. CASE Rollback(p)
    BY <1>0, <1>4, TaskStatusNames, SetTaskKeeps DEF Rollback, RowsOK, AuxOK, aux
<1>5. CASE Sessions(p)
    BY <1>0, <1>5, <1>f, CountIsNat DEF Sessions, RowsOK, AuxOK, aux
<1> QED BY <1>1, <1>2, <1>3, <1>4, <1>5 DEF ClaimStep

LEMMA ReportKeepsRows ==
    ASSUME TypeOK, NEW p \in Procs, ReportRead(p) \/ ReportStep(p)
    PROVE  RowsOK' /\ AuxOK'
<1> USE DEF At
<1>0. RowsOK /\ AuxOK /\ Sound(proc[p])
    BY RequestFields DEF TypeOK
<1>1. CASE ReportRead(p)
    BY <1>0, <1>1 DEF ReportRead, rows, aux, RowsOK, AuxOK
<1>2. CASE Reactivate(p)
    BY <1>0, <1>2, TaskStatusNames, SetTaskKeeps, DisturbKeeps DEF Reactivate, RowsOK, AuxOK
<1>3. CASE Reserve(p)
    BY <1>0, <1>3, StatusNames DEF Reserve, Sound, RowsOK, AuxOK
<1>4. CASE Outcome(p)
    <2>1. \A s \in Outcomes(proc[p].out) : s \in TaskStatus
        BY TaskStatusNames DEF Outcomes
    <2> QED BY <1>0, <1>4, <2>1, SetTaskKeeps DEF Outcome, RowsOK, AuxOK, aux
<1>5. CASE Release(p) \/ LateFail(p)
    BY <1>0, <1>5, TaskStatusNames, SetTaskKeeps DEF Release, LateFail, RowsOK, AuxOK, aux
<1>6. CASE Write(p)
    <2>1. proc[p].out \in Statuses
        BY <1>0, <1>6, StatusNames DEF Write, Sound
    <2> QED BY <1>0, <1>6, <2>1 DEF Write, RowsOK, AuxOK
<1>7. CASE Seat(p)
    BY <1>0, <1>7, ReleasedIsNat DEF Seat, RowsOK, AuxOK, aux
<1> QED BY <1>1, <1>2, <1>3, <1>4, <1>5, <1>6, <1>7 DEF ReportStep

LEMMA OverrideKeepsRows ==
    ASSUME TypeOK, NEW p \in Procs,
           \/ InterruptRead(p) \/ ReassignRead(p) \/ CloseRead(p) \/ OverrideStep(p)
    PROVE  RowsOK' /\ AuxOK'
<1> USE DEF At
<1>0. RowsOK /\ AuxOK /\ Sound(proc[p])
    BY RequestFields DEF TypeOK
<1>1. CASE InterruptRead(p) \/ ReassignRead(p) \/ CloseRead(p)
    BY <1>0, <1>1 DEF InterruptRead, ReassignRead, CloseRead, rows, aux, RowsOK, AuxOK
<1>2. CASE Interrupt(p)
    BY <1>0, <1>2, StatusNames DEF Interrupt, RowsOK, AuxOK
<1>3. CASE Takeover(p)
    BY <1>0, <1>3, TaskStatusNames, SetTaskKeeps DEF Takeover, RowsOK, AuxOK, aux
<1>4. CASE Requeue(p)
    BY <1>0, <1>4, TaskStatusNames, SetTaskKeeps, DisturbKeeps DEF Requeue, RowsOK, AuxOK
<1>5. CASE Evict(p)
    BY <1>0, <1>5, StatusNames DEF Evict, RowsOK, AuxOK, aux
<1>6. CASE Close(p)
    BY <1>0, <1>6, SetTaskKeeps DEF Close, Sound, RowsOK, AuxOK, aux
<1> QED BY <1>1, <1>2, <1>3, <1>4, <1>5, <1>6 DEF OverrideStep

LEMMA CleanupKeepsRows ==
    ASSUME TypeOK, NEW p \in Procs,
           \/ SweepBegin(p) \/ StalledRead(p) \/ OfflineRead(p)
           \/ OrphansRead(p) \/ StuckRead(p) \/ CleanupStep(p)
    PROVE  RowsOK' /\ AuxOK'
<1> USE DEF At
<1>0. RowsOK /\ AuxOK /\ Sound(proc[p]) /\ seats \in Nat
    BY RequestFields DEF TypeOK, RowsOK
<1>f. Cardinality(proc[p].ws) \in Nat
    BY RequestFields, CountIsNat DEF TypeOK
<1>1. CASE SweepBegin(p) \/ StalledRead(p) \/ OfflineRead(p) \/ OrphansRead(p) \/ StuckRead(p)
    BY <1>0, <1>1 DEF SweepBegin, StalledRead, OfflineRead, OrphansRead, StuckRead,
                      rows, aux, RowsOK, AuxOK
<1>2. CASE SweepRead(p) \/ SweepOthers(p) \/ ResolveRead(p) \/ StalledFilter(p) \/ OrphanRead(p)
    BY <1>0, <1>2 DEF SweepRead, SweepOthers, ResolveRead, StalledFilter, OrphanRead,
                      rows, aux, RowsOK, AuxOK
<1>3. CASE Expire(p)
    <2>1. ExpireRows(proc[p].ws) /\ UNCHANGED <<task, of, known, seats, aux>>
        BY <1>3 DEF Expire
    <2> QED BY <1>0, <2>1, ExpireRowsKeeps DEF RowsOK, AuxOK, aux
<1>4. CASE SweepSeats(p) \/ StuckSeats(p)
    <2>1. seats' \in Nat
        BY <1>0, <1>4, <1>f, ReleasedIsNat DEF SweepSeats, StuckSeats
    <2> QED BY <1>0, <1>4, <2>1 DEF SweepSeats, StuckSeats, RowsOK, AuxOK, aux
<1>5. CASE Settle(p)
    <2>1. task' \in [Tasks -> TaskStatus]
        BY <1>0, <1>5, TaskStatusNames, SetTaskKeeps DEF Settle, RowsOK
    <2> QED BY <1>0, <1>5, <2>1, DisturbKeeps DEF Settle, RowsOK, AuxOK
<1>6. CASE StuckWorker(p)
    BY <1>0, <1>6, StatusNames DEF StuckWorker, RowsOK, AuxOK, aux
<1>7. CASE StuckTask(p)
    BY <1>0, <1>7, TaskStatusNames, SetTaskKeeps DEF StuckTask, RowsOK, AuxOK, aux
<1>8. CASE Reset(p)
    <2>1. \A s \in Resets(proc[p].kind) : s \in TaskStatus
        BY TaskStatusNames DEF Resets
    <2> QED BY <1>0, <1>8, <2>1, SetTaskKeeps, DisturbKeeps DEF Reset, RowsOK, AuxOK
<1>9. CASE ResetAll(p)
    BY <1>0, <1>9, TaskStatusNames, DisturbKeeps DEF ResetAll, RowsOK, AuxOK
<1>10. CASE Adopt(p)
    BY <1>0, <1>10, SetTaskKeeps, DisturbKeeps DEF Adopt, Sound, RowsOK, AuxOK
<1> QED BY <1>1, <1>2, <1>3, <1>4, <1>5, <1>6, <1>7, <1>8, <1>9, <1>10 DEF CleanupStep

LEMMA NextKeepsRows ==
    ASSUME TypeOK, [Next]_vars
    PROVE  RowsOK' /\ AuxOK'
<1>0. RowsOK /\ AuxOK
    BY DEF TypeOK
<1>1. ASSUME NEW p \in Procs, Arrive(p) \/ Step(p)
      PROVE  RowsOK' /\ AuxOK'
    BY <1>1, ClaimKeepsRows, ReportKeepsRows, OverrideKeepsRows, CleanupKeepsRows
       DEF Arrive, Step
<1>2. ASSUME NEW p \in Procs, Crash(p)
      PROVE  RowsOK' /\ AuxOK'
    BY <1>0, <1>2 DEF Crash, rows, aux, RowsOK, AuxOK
<1>3. ASSUME NEW t \in Tasks, Cancel(t) \/ Reopen(t)
      PROVE  RowsOK' /\ AuxOK'
    BY <1>0, <1>3, TaskStatusNames, SetTaskKeeps, DisturbKeeps
       DEF Cancel, Reopen, RowsOK, AuxOK, aux
<1>4. ASSUME NEW w \in Workers, Recover(w) \/ Age(w)
      PROVE  RowsOK' /\ AuxOK'
    <2>1. CASE Recover(w)
        BY <1>0, <2>1, StatusNames, DisturbKeeps DEF Recover, RowsOK, AuxOK
    <2>2. CASE Age(w)
        BY <1>0, <2>2 DEF Age, RowsOK, AuxOK, aux
    <2> QED BY <1>4, <2>1, <2>2
<1>5. CASE UNCHANGED vars
    BY <1>0, <1>5 DEF vars, rows, aux, RowsOK, AuxOK
<1> QED BY <1>1, <1>2, <1>3, <1>4, <1>5 DEF Next

LEMMA InitTypeOK == Init => TypeOK
<1> SUFFICES ASSUME Init PROVE TypeOK
    OBVIOUS
<1>1. RowsOK
    BY TaskStatusNames DEF Init, RowsOK, Statuses
<1>2. AuxOK
    BY DEF Init, AuxOK
<1>3. ProcOK
    BY IdleIsSound DEF Init, ProcOK
<1> QED BY <1>1, <1>2, <1>3 DEF TypeOK

LEMMA NextTypeOK == TypeOK /\ [Next]_vars => TypeOK'
BY NextKeepsProc, NextKeepsRows DEF TypeOK

(* Rows and requests are well formed in every reachable state: the seat       *)
(* counter never goes below zero, and no statement writes a status it did not *)
(* earn by what the request read.                                             *)
THEOREM TypeCorrect == Spec => []TypeOK
BY InitTypeOK, NextTypeOK, PTL DEF Spec

------------------------------------------------------------------------------
(* A worker is ended once: proofs of GrantedIsTerminal and OneOutcome.        *)
(*                                                                            *)
(* OneOutcome is not inductive alone: that a second reservation fails follows *)
(* from the status it compares, so it needs GrantedIsTerminal and that every  *)
(* request past a reservation has its worker granted.                         *)

EndersGranted ==
    ~reopened => \A p \in Procs : EndsWorker(proc[p]) =>
                    proc[p].w \in Workers /\ granted[proc[p].w]

OutcomeInv == GrantedIsTerminal /\ EndersGranted /\ OneOutcome

(* The statements after which a request ends some worker. *)
Ending == {"outcome", "release", "seat", "late", "takeover", "write"}

LEMMA NotEnding ==
    ASSUME NEW r, r.pc \notin Ending
    PROVE  ~EndsWorker(r)
BY DEF EndsWorker, Ending

(* Only p moves, and not towards ending a worker. *)
Harmless(p) ==
    /\ \A q \in Procs \ {p} : proc'[q] = proc[q]
    /\ EndsWorker(proc'[p]) => EndsWorker(proc[p]) /\ proc'[p].w = proc[p].w

(* Workers only end. *)
Ends == /\ \A w \in Workers : status'[w] \in {status[w]} \cup Terminal
        /\ UNCHANGED <<granted, reopened>>

LEMMA HarmlessKeeps ==
    ASSUME OutcomeInv, NEW p \in Procs, Harmless(p), Ends
    PROVE  OutcomeInv'
<1>1. GrantedIsTerminal'
    BY DEF OutcomeInv, GrantedIsTerminal, Ends
<1>2. \A q \in Procs : EndsWorker(proc'[q]) => EndsWorker(proc[q]) /\ proc'[q].w = proc[q].w
    BY DEF Harmless
<1>3. EndersGranted'
    BY <1>2 DEF OutcomeInv, EndersGranted, Ends, EndsWorker
<1>4. OneOutcome'
    BY <1>2 DEF OutcomeInv, OneOutcome, Ends, EndsWorker
<1> QED BY <1>1, <1>3, <1>4 DEF OutcomeInv

(* The request's next record is not one that ends a worker. *)
LEMMA BecomeIsHarmless ==
    ASSUME ProcOK, NEW p \in Procs, NEW r, r.pc \notin Ending, Become(p, r)
    PROVE  Harmless(p)
BY NotEnding DEF Harmless, Become, ProcOK

LEMMA StopIsHarmless ==
    ASSUME ProcOK, NEW p \in Procs, Stop(p)
    PROVE  Harmless(p)
<1>1. Idle.pc \notin Ending
    BY DEF Idle, Ending
<1> QED BY <1>1, BecomeIsHarmless DEF Stop

LEMMA GotoIsHarmless ==
    ASSUME ProcOK, NEW p \in Procs, NEW pc, pc \notin Ending, Goto(p, pc)
    PROVE  Harmless(p)
<1>1. [proc[p] EXCEPT !.pc = pc].pc = pc
    BY DEF ProcOK, Request
<1> QED BY <1>1, BecomeIsHarmless DEF Goto

LEMMA WithoutIsHarmless ==
    ASSUME NEW r \in Request, NEW t, NEW pc, pc \notin Ending,
           NEW done, done.pc \notin Ending
    PROVE  Without(r, t, pc, done).pc \notin Ending
BY DEF Without, Request

LEMMA AfterPassIsHarmless ==
    ASSUME NEW r
    PROVE  AfterPass(r).pc \notin Ending
BY DEF AfterPass, Idle, Ending

LEMMA ClaimDoneIsHarmless ==
    ASSUME NEW r \in Request
    PROVE  ClaimDone(r).pc \notin Ending
BY DEF ClaimDone, Idle, Ending, Request

LEMMA IdleIsHarmless == Idle.pc \notin Ending
BY DEF Idle, Ending

LEMMA ClaimKeepsOutcome ==
    ASSUME TypeOK, OutcomeInv, NEW p \in Procs, ClaimBegin(p) \/ ClaimStep(p)
    PROVE  OutcomeInv'
<1> USE DEF Ending, aux, rows
<1>0. ProcOK /\ proc[p] \in Request
    BY RequestFields DEF TypeOK
<1>1. CASE ClaimBegin(p)
    <2>1. Become(p, [Idle EXCEPT !.kind = "claim", !.pc = "sweep"])
        BY <1>1 DEF ClaimBegin, Begin, Become
    <2>2. [Idle EXCEPT !.kind = "claim", !.pc = "sweep"].pc \notin Ending
        BY DEF Idle
    <2> QED BY <1>0, <1>1, <2>1, <2>2, BecomeIsHarmless, HarmlessKeeps DEF ClaimBegin, Ends
<1>2. CASE ClaimCount(p) \/ InsertCount(p) \/ Sessions(p)
    <2>1. Harmless(p)
        BY <1>0, <1>2, GotoIsHarmless, StopIsHarmless DEF ClaimCount, InsertCount, Sessions
    <2> QED BY <1>2, <2>1, HarmlessKeeps DEF ClaimCount, InsertCount, Sessions, Ends
<1>3. CASE ClaimSelect(p)
    <2>1. [proc[p] EXCEPT !.ts = Claimable, !.pc = "claim"].pc = "claim"
        BY <1>0 DEF Request
    <2>2. Harmless(p)
        BY <1>0, <1>3, <2>1, BecomeIsHarmless, StopIsHarmless DEF ClaimSelect
    <2> QED BY <1>3, <2>2, HarmlessKeeps DEF ClaimSelect, Ends
<1>4. CASE ClaimTask(p)
    <2> PICK t \in proc[p].ts :
            \/ Become(p, [proc[p] EXCEPT !.t = t, !.ts = @ \ {t}, !.pc = "insert"])
            \/ Become(p, Without(proc[p], t, "claim", ClaimDone(proc[p])))
        BY <1>4 DEF ClaimTask
    <2>1. [proc[p] EXCEPT !.t = t, !.ts = @ \ {t}, !.pc = "insert"].pc = "insert"
        BY <1>0 DEF Request
    <2>2. Without(proc[p], t, "claim", ClaimDone(proc[p])).pc \notin Ending
        BY <1>0, WithoutIsHarmless, ClaimDoneIsHarmless
    <2>3. Harmless(p)
        BY <1>0, <2>1, <2>2, BecomeIsHarmless
    <2> QED BY <1>4, <2>3, HarmlessKeeps DEF ClaimTask, Ends
<1>5. CASE InsertRow(p)
    <2> PICK w \in Workers :
            /\ status[w] = "none"
            /\ status' = [status EXCEPT ![w] = "idle"]
            /\ \/ Become(p, [proc[p] EXCEPT !.ws = @ \cup {w}, !.t = NoTask, !.pc = "claim"])
               \/ Become(p, ClaimDone([proc[p] EXCEPT !.ws = @ \cup {w}, !.t = NoTask,
                                                      !.pc = "claim"]))
        BY <1>5 DEF InsertRow
    <2> DEFINE r == [proc[p] EXCEPT !.ws = @ \cup {w}, !.t = NoTask, !.pc = "claim"]
    <2>1. r \in Request /\ r.pc = "claim"
        BY <1>0 DEF Request, Statements
    <2>2. Harmless(p)
        BY <1>0, <2>1, BecomeIsHarmless, ClaimDoneIsHarmless
    <2>3. UNCHANGED <<granted, reopened>>
        BY <1>5 DEF InsertRow
    <2>4. GrantedIsTerminal'
        BY <2>3 DEF OutcomeInv, GrantedIsTerminal, Terminal, TypeOK, RowsOK
    <2>5. \A q \in Procs : EndsWorker(proc'[q]) => EndsWorker(proc[q]) /\ proc'[q].w = proc[q].w
        BY <2>2 DEF Harmless
    <2>6. EndersGranted' /\ OneOutcome'
        BY <2>3, <2>5 DEF OutcomeInv, EndersGranted, OneOutcome, EndsWorker
    <2> QED BY <2>4, <2>6 DEF OutcomeInv
<1>6. CASE Rollback(p)
    <2>1. Harmless(p)
        BY <1>0, <1>6, ClaimDoneIsHarmless, BecomeIsHarmless DEF Rollback
    <2> QED BY <1>6, <2>1, HarmlessKeeps DEF Rollback, Ends
<1> QED BY <1>1, <1>2, <1>3, <1>4, <1>5, <1>6 DEF ClaimStep

(* A request that is past the reservation and goes on. *)
LEMMA GoesOnIsHarmless ==
    ASSUME ProcOK, NEW p \in Procs, NEW pc, EndsWorker(proc[p]), Goto(p, pc)
    PROVE  Harmless(p)
BY DEF ProcOK, Request, Goto, Become, Harmless

(* The reservation: the worker was live, so nobody had ended it. *)
LEMMA EndingKeeps ==
    ASSUME TypeOK, OutcomeInv, NEW p \in Procs, proc[p].w \in Workers,
           status[proc[p].w] \in Live, NEW s \in Terminal,
           status' = [status EXCEPT ![proc[p].w] = s],
           granted' = [granted EXCEPT ![proc[p].w] = TRUE], UNCHANGED reopened,
           NEW pc, Goto(p, pc)
    PROVE  OutcomeInv'
<1> DEFINE w == proc[p].w
<1>1. ~granted[w]
    BY DEF OutcomeInv, GrantedIsTerminal, Live, Terminal
<1>2. GrantedIsTerminal'
    BY DEF OutcomeInv, GrantedIsTerminal, TypeOK, RowsOK, AuxOK
<1>3. \A q \in Procs : proc'[q].w = proc[q].w /\ (q # p => proc'[q] = proc[q])
    BY DEF Goto, Become, TypeOK, ProcOK, Request
<1>4. EndersGranted'
    BY <1>3 DEF OutcomeInv, EndersGranted, EndsWorker, TypeOK, AuxOK
<1>5. OneOutcome'
    <2> SUFFICES ASSUME ~reopened, NEW q \in Procs, NEW r \in Procs, q # r,
                        EndsWorker(proc'[q]), EndsWorker(proc'[r])
                 PROVE  proc'[q].w # proc'[r].w
        BY DEF OneOutcome, EndsWorker
    <2>1. \A x \in Procs \ {p} : EndsWorker(proc[x]) => proc[x].w # w
        BY <1>1 DEF OutcomeInv, EndersGranted
    <2> QED BY <1>3, <2>1 DEF OutcomeInv, OneOutcome
<1> QED BY <1>2, <1>4, <1>5 DEF OutcomeInv

LEMMA ReportKeepsOutcome ==
    ASSUME TypeOK, OutcomeInv, NEW p \in Procs, ReportRead(p) \/ ReportStep(p)
    PROVE  OutcomeInv'
<1> USE DEF aux, rows, At
<1>0. ProcOK /\ proc[p] \in Request /\ Sound(proc[p])
    BY RequestFields DEF TypeOK
<1>1. CASE ReportRead(p)
    <2> PICK w \in Workers, out \in Live \cup Terminal :
            LET r == [Idle EXCEPT !.kind = "report", !.w = w, !.t = of[w],
                                  !.seen = status[w], !.out = out]
            IN  \/ /\ out \in Live
                   /\ Become(p, [r EXCEPT !.pc = "write"])
                \/ Become(p, [r EXCEPT !.pc = "reserve"])
                \/ Become(p, [r EXCEPT !.pc = "reactivate"])
        BY <1>1 DEF ReportRead, Begin, Become
    <2> DEFINE r == [Idle EXCEPT !.kind = "report", !.w = w, !.t = of[w],
                                 !.seen = status[w], !.out = out]
    <2>1. /\ [r EXCEPT !.pc = "write"].pc = "write" /\ [r EXCEPT !.pc = "write"].out = out
          /\ [r EXCEPT !.pc = "reserve"].pc = "reserve"
          /\ [r EXCEPT !.pc = "reactivate"].pc = "reactivate"
        BY DEF Idle
    <2>2. CASE out \in Live /\ Become(p, [r EXCEPT !.pc = "write"])
        <3>1. ~EndsWorker([r EXCEPT !.pc = "write"])
            BY <2>1, <2>2 DEF EndsWorker, Live, Terminal
        <3> QED BY <1>0, <1>1, <2>2, <3>1, HarmlessKeeps DEF Harmless, Become, ProcOK, Ends, ReportRead
    <2>3. CASE Become(p, [r EXCEPT !.pc = "reserve"]) \/ Become(p, [r EXCEPT !.pc = "reactivate"])
        <3>1. Harmless(p)
            BY <1>0, <2>1, <2>3, BecomeIsHarmless DEF Ending
        <3> QED BY <1>1, <3>1, HarmlessKeeps DEF Ends, ReportRead
    <2> QED BY <2>2, <2>3
<1>2. CASE Reactivate(p)
    <2>1. ~EndsWorker([proc[p] EXCEPT !.pc = "write"])
        BY <1>0, <1>2 DEF Reactivate, Sound, EndsWorker, Terminal, Request
    <2>2. Harmless(p)
        BY <1>0, <1>2, <2>1 DEF Reactivate, Goto, Become, Harmless, ProcOK
    <2> QED BY <1>2, <2>2, HarmlessKeeps DEF Reactivate, Ends
<1>3. CASE Reserve(p)
    <2>1. CASE status[proc[p].w] = proc[p].seen
        <3>1. /\ proc[p].w \in Workers /\ status[proc[p].w] \in Live /\ proc[p].out \in Terminal
            BY <1>0, <1>3, <2>1 DEF Reserve, Sound
        <3> QED BY <1>3, <2>1, <3>1, EndingKeeps DEF Reserve
    <2>2. CASE status[proc[p].w] # proc[p].seen
        BY <1>0, <1>3, <2>2, StopIsHarmless, HarmlessKeeps DEF Reserve, Ends
    <2> QED BY <2>1, <2>2
<1>4. CASE Outcome(p)
    <2>1. EndsWorker(proc[p]) /\ (Goto(p, "release") \/ Goto(p, "write"))
        BY <1>4 DEF Outcome, EndsWorker
    <2>2. Harmless(p)
        BY <1>0, <2>1, GoesOnIsHarmless
    <2> QED BY <1>4, <2>2, HarmlessKeeps DEF Outcome, Ends
<1>5. CASE Release(p)
    <2>1. Harmless(p)
        BY <1>0, <1>5, GoesOnIsHarmless DEF Release, EndsWorker
    <2> QED BY <1>5, <2>1, HarmlessKeeps DEF Release, Ends
<1>6. CASE Write(p)
    <2> DEFINE w == proc[p].w
    <2>1. CASE ~Unmoved(proc[p], status[w])
        BY <1>0, <1>6, <2>1, StopIsHarmless, HarmlessKeeps DEF Write, Ends
    <2>2. CASE Unmoved(proc[p], status[w]) /\ proc[p].out \in Terminal
        <3>1. proc[p].seen \notin Terminal
            BY <1>0, <1>6, <2>2 DEF Write, Sound, Live, Terminal
        <3>2. status' = status /\ granted' = granted /\ reopened' = reopened
            <4>1. status[w] = proc[p].out
                BY <2>2 DEF Unmoved
            <4>2. status' = [status EXCEPT ![w] = proc[p].out]
                BY <1>6, <2>2 DEF Write
            <4>3. granted' = [granted EXCEPT ![w] = @ /\ TRUE] /\ reopened' = (reopened \/ FALSE)
                BY <1>6, <2>2, <3>1 DEF Write
            <4> QED BY <4>1, <4>2, <4>3 DEF TypeOK, RowsOK, AuxOK
        <3>3. Harmless(p)
            BY <1>0, <1>6, <2>2, GoesOnIsHarmless DEF Write, EndsWorker
        <3> QED BY <3>2, <3>3, HarmlessKeeps DEF Ends
    <2>3. CASE Unmoved(proc[p], status[w]) /\ proc[p].out \notin Terminal
        <3>1. proc[p].out \in Live /\ status[w] = proc[p].seen /\ w \in Workers
            BY <1>0, <1>6, <2>3 DEF Write, Unmoved, Sound, Live, Terminal
        <3>2. Stop(p) /\ Harmless(p)
            BY <1>0, <1>6, <2>3, StopIsHarmless DEF Write
        <3>3. \A q \in Procs : EndsWorker(proc'[q]) =>
                                 EndsWorker(proc[q]) /\ proc'[q].w = proc[q].w
            BY <3>2 DEF Harmless
        <3>4. CASE proc[p].seen \in Terminal
            <4>1. /\ status' = [status EXCEPT ![w] = proc[p].out]
                  /\ granted' = [granted EXCEPT ![w] = FALSE] /\ reopened'
                BY <1>6, <2>3, <3>4 DEF Write, TypeOK, AuxOK
            <4>2. GrantedIsTerminal'
                BY <4>1 DEF OutcomeInv, GrantedIsTerminal, TypeOK, RowsOK, AuxOK
            <4> QED BY <4>1, <4>2 DEF OutcomeInv, EndersGranted, OneOutcome
        <3>5. CASE proc[p].seen \notin Terminal
            <4>1. /\ status' = [status EXCEPT ![w] = proc[p].out]
                  /\ granted' = granted /\ reopened' = reopened
                BY <1>6, <2>3, <3>5 DEF Write, TypeOK, AuxOK
            <4>2. ~granted[w]
                BY <3>1, <3>5 DEF OutcomeInv, GrantedIsTerminal
            <4>3. GrantedIsTerminal'
                BY <4>1, <4>2 DEF OutcomeInv, GrantedIsTerminal, TypeOK, RowsOK
            <4>4. EndersGranted' /\ OneOutcome'
                BY <3>3, <4>1 DEF OutcomeInv, EndersGranted, OneOutcome, EndsWorker
            <4> QED BY <4>3, <4>4 DEF OutcomeInv
        <3> QED BY <3>4, <3>5
    <2> QED BY <2>1, <2>2, <2>3
<1>7. CASE Seat(p)
    <2>1. EndsWorker(proc[p]) /\ (Goto(p, "late") \/ Stop(p))
        BY <1>7 DEF Seat, EndsWorker
    <2>2. Harmless(p)
        BY <1>0, <2>1, GoesOnIsHarmless, StopIsHarmless
    <2> QED BY <1>7, <2>2, HarmlessKeeps DEF Seat, Ends
<1>8. CASE LateFail(p)
    BY <1>0, <1>8, StopIsHarmless, HarmlessKeeps DEF LateFail, Ends
<1> QED BY <1>1, <1>2, <1>3, <1>4, <1>5, <1>6, <1>7, <1>8 DEF ReportStep

LEMMA OverrideKeepsOutcome ==
    ASSUME TypeOK, OutcomeInv, NEW p \in Procs,
           \/ InterruptRead(p) \/ ReassignRead(p) \/ CloseRead(p) \/ OverrideStep(p)
    PROVE  OutcomeInv'
<1> USE DEF aux, rows, At
<1>0. ProcOK /\ proc[p] \in Request /\ Sound(proc[p])
    BY RequestFields DEF TypeOK
<1>1. CASE InterruptRead(p) \/ ReassignRead(p) \/ CloseRead(p)
    <2>1. ASSUME InterruptRead(p) PROVE Harmless(p)
        <3> PICK w \in LiveWorkers :
                Become(p, [Idle EXCEPT !.kind = "interrupt", !.w = w, !.t = of[w],
                                       !.seen = status[w], !.pc = "interrupt"])
            BY <2>1 DEF InterruptRead, Begin, Become
        <3>1. [Idle EXCEPT !.kind = "interrupt", !.w = w, !.t = of[w],
                           !.seen = status[w], !.pc = "interrupt"].pc \notin Ending
            BY DEF Idle, Ending
        <3> QED BY <1>0, <3>1, BecomeIsHarmless
    <2>2. ASSUME ReassignRead(p) PROVE Harmless(p)
        <3> PICK t \in Tasks :
                Become(p, [Idle EXCEPT !.kind = "reassign", !.t = t, !.seen = task[t],
                                       !.pc = "requeue"])
            BY <2>2 DEF ReassignRead, Begin, Become
        <3>1. [Idle EXCEPT !.kind = "reassign", !.t = t, !.seen = task[t],
                           !.pc = "requeue"].pc \notin Ending
            BY DEF Idle, Ending
        <3> QED BY <1>0, <3>1, BecomeIsHarmless
    <2>3. ASSUME CloseRead(p) PROVE Harmless(p)
        <3> PICK t \in Tasks, s \in {"completed", "failed"} :
                Become(p, [Idle EXCEPT !.kind = "edit", !.t = t, !.out = s, !.pc = "close"])
            BY <2>3 DEF CloseRead, Begin, Become
        <3>1. [Idle EXCEPT !.kind = "edit", !.t = t, !.out = s, !.pc = "close"].pc \notin Ending
            BY DEF Idle, Ending
        <3> QED BY <1>0, <3>1, BecomeIsHarmless
    <2>4. Harmless(p)
        BY <1>1, <2>1, <2>2, <2>3
    <2> QED BY <1>1, <2>4, HarmlessKeeps DEF InterruptRead, ReassignRead, CloseRead, Ends
<1>2. CASE Interrupt(p)
    <2>1. CASE status[proc[p].w] = proc[p].seen
        <3>1. proc[p].w \in Workers /\ status[proc[p].w] \in Live /\ "failed" \in Terminal
            BY <1>0, <1>2, <2>1 DEF Interrupt, Sound, Terminal
        <3> QED BY <1>2, <2>1, <3>1, EndingKeeps DEF Interrupt
    <2>2. CASE status[proc[p].w] # proc[p].seen
        BY <1>0, <1>2, <2>2, StopIsHarmless, HarmlessKeeps DEF Interrupt, Ends
    <2> QED BY <2>1, <2>2
<1>3. CASE Takeover(p) \/ Close(p)
    BY <1>0, <1>3, StopIsHarmless, HarmlessKeeps DEF Takeover, Close, Ends
<1>4. CASE Requeue(p)
    <2>1. Harmless(p)
        BY <1>0, <1>4, StopIsHarmless, GotoIsHarmless DEF Requeue, Ending
    <2> QED BY <1>4, <2>1, HarmlessKeeps DEF Requeue, Ends
<1>5. CASE Evict(p)
    <2>1. Ends
        BY <1>5 DEF Evict, Ends, Terminal, TypeOK, RowsOK
    <2> QED BY <1>0, <1>5, <2>1, StopIsHarmless, HarmlessKeeps DEF Evict
<1> QED BY <1>1, <1>2, <1>3, <1>4, <1>5 DEF OverrideStep

LEMMA CleanupKeepsOutcome ==
    ASSUME TypeOK, OutcomeInv, NEW p \in Procs,
           \/ SweepBegin(p) \/ StalledRead(p) \/ OfflineRead(p)
           \/ OrphansRead(p) \/ StuckRead(p) \/ CleanupStep(p)
    PROVE  OutcomeInv'
<1> USE DEF aux, rows, At
<1>0. ProcOK /\ proc[p] \in Request /\ AfterPass(proc[p]).pc \notin Ending
    BY RequestFields, AfterPassIsHarmless DEF TypeOK
<1>a. \A t : \A pc \in {"others", "reset", "orphan"} :
        /\ Without(proc[p], t, pc, AfterPass(proc[p])).pc \notin Ending
        /\ Without(proc[p], t, pc, Idle).pc \notin Ending
    BY <1>0, WithoutIsHarmless, IdleIsHarmless DEF Ending
<1>1. CASE SweepBegin(p) \/ StalledRead(p) \/ OfflineRead(p) \/ OrphansRead(p) \/ StuckRead(p)
    <2>1. ASSUME SweepBegin(p) PROVE Harmless(p)
        <3>1. [Idle EXCEPT !.kind = "sweep", !.pc = "sweep"].pc \notin Ending
            BY DEF Idle, Ending
        <3> QED BY <1>0, <2>1, <3>1, BecomeIsHarmless DEF SweepBegin, Begin, Become
    <2>2. ASSUME StalledRead(p) \/ OfflineRead(p) PROVE Harmless(p)
        <3> PICK k, ws : Become(p, [Idle EXCEPT !.kind = k, !.ws = ws, !.pc = "expire"])
            BY <2>2 DEF StalledRead, OfflineRead, Begin, Become
        <3>1. [Idle EXCEPT !.kind = k, !.ws = ws, !.pc = "expire"].pc \notin Ending
            BY DEF Idle, Ending
        <3> QED BY <1>0, <3>1, BecomeIsHarmless
    <2>3. ASSUME OrphansRead(p) PROVE Harmless(p)
        <3> PICK ts : Become(p, [Idle EXCEPT !.kind = "orphans", !.ts = ts, !.pc = "orphan"])
            BY <2>3 DEF OrphansRead, Begin, Become
        <3>1. [Idle EXCEPT !.kind = "orphans", !.ts = ts, !.pc = "orphan"].pc \notin Ending
            BY DEF Idle, Ending
        <3> QED BY <1>0, <3>1, BecomeIsHarmless
    <2>4. ASSUME StuckRead(p) PROVE Harmless(p)
        <3> PICK ws : Become(p, [Idle EXCEPT !.kind = "waiting", !.ws = ws, !.left = ws,
                                             !.pc = "stuck"])
            BY <2>4 DEF StuckRead, Begin, Become
        <3>1. [Idle EXCEPT !.kind = "waiting", !.ws = ws, !.left = ws,
                           !.pc = "stuck"].pc \notin Ending
            BY DEF Idle, Ending
        <3> QED BY <1>0, <3>1, BecomeIsHarmless
    <2>5. Harmless(p)
        BY <1>1, <2>1, <2>2, <2>3, <2>4
    <2> QED BY <1>1, <2>5, HarmlessKeeps
            DEF SweepBegin, StalledRead, OfflineRead, OrphansRead, StuckRead, Ends
<1>2. CASE SweepRead(p)
    <2> PICK ws : Become(p, IF ws = {} THEN AfterPass(proc[p])
                            ELSE [proc[p] EXCEPT !.ws = ws, !.pc = "expire"])
        BY <1>2 DEF SweepRead
    <2>1. [proc[p] EXCEPT !.ws = ws, !.pc = "expire"].pc \notin Ending
        BY <1>0 DEF Request, Ending
    <2>2. Harmless(p)
        BY <1>0, <2>1, BecomeIsHarmless
    <2> QED BY <1>2, <2>2, HarmlessKeeps DEF SweepRead, Ends
<1>3. CASE Expire(p)
    <2>1. Ends
        BY <1>3 DEF Expire, ExpireRows, Ends, Terminal, TypeOK, RowsOK
    <2>2. \A pc \in {"seats", "filter", "reset", "reset_all"} : \A ts :
            /\ [proc[p] EXCEPT !.pc = pc].pc \notin Ending
            /\ [proc[p] EXCEPT !.ts = ts, !.ws = {}, !.pc = pc].pc \notin Ending
        BY <1>0 DEF Request, Ending
    <2>3. ASSUME proc[p].kind \in {"claim", "sweep"} PROVE Harmless(p)
        BY <1>0, <1>3, <2>2, <2>3, BecomeIsHarmless DEF Expire
    <2>4. ASSUME proc[p].kind = "stalled" PROVE Harmless(p)
        BY <1>0, <1>3, <2>2, <2>4, BecomeIsHarmless DEF Expire
    <2>5. ASSUME proc[p].kind = "offline" PROVE Harmless(p)
        BY <1>0, <1>3, <2>2, <2>5, BecomeIsHarmless DEF Expire
    <2>6. ASSUME proc[p].kind \notin {"claim", "sweep", "stalled", "offline"} PROVE Harmless(p)
        BY <1>0, <1>3, <2>2, <2>6, BecomeIsHarmless DEF Expire
    <2>7. Harmless(p)
        BY <2>3, <2>4, <2>5, <2>6
    <2> QED BY <2>1, <2>7, HarmlessKeeps
<1>4. CASE SweepSeats(p)
    <2>1. [proc[p] EXCEPT !.ts = TasksOf(proc[p].ws), !.pc = "others"].pc \notin Ending
        BY <1>0 DEF Request, Ending
    <2>2. Harmless(p)
        BY <1>0, <1>4, <2>1, BecomeIsHarmless DEF SweepSeats
    <2> QED BY <1>4, <2>2, HarmlessKeeps DEF SweepSeats, Ends
<1>5. CASE SweepOthers(p)
    <2> PICK t : \/ Become(p, [proc[p] EXCEPT !.t = t, !.pc = "resolve"])
                 \/ Become(p, Without(proc[p], t, "others", AfterPass(proc[p])))
        BY <1>5 DEF SweepOthers
    <2>1. [proc[p] EXCEPT !.t = t, !.pc = "resolve"].pc \notin Ending
        BY <1>0 DEF Request, Ending
    <2>2. Harmless(p)
        BY <1>0, <1>a, <2>1, BecomeIsHarmless
    <2> QED BY <1>5, <2>2, HarmlessKeeps DEF SweepOthers, Ends
<1>6. CASE ResolveRead(p)
    <2>1. Harmless(p)
        BY <1>0, <1>6, <1>a, BecomeIsHarmless, GotoIsHarmless DEF ResolveRead, Ending
    <2> QED BY <1>6, <2>1, HarmlessKeeps DEF ResolveRead, Ends
<1>7. CASE Settle(p)
    <2>1. Harmless(p)
        BY <1>0, <1>7, <1>a, BecomeIsHarmless DEF Settle
    <2> QED BY <1>7, <2>1, HarmlessKeeps DEF Settle, Ends
<1>8. CASE StuckWorker(p)
    <2> PICK w \in proc[p].left :
            Become(p, [proc[p] EXCEPT !.t = of[w], !.left = @ \ {w}, !.pc = "stuck_task"])
        BY <1>8 DEF StuckWorker
    <2>1. [proc[p] EXCEPT !.t = of[w], !.left = @ \ {w}, !.pc = "stuck_task"].pc \notin Ending
        BY <1>0 DEF Request, Ending
    <2>2. Harmless(p)
        BY <1>0, <2>1, BecomeIsHarmless
    <2>3. Ends
        BY <1>8 DEF StuckWorker, Ends, Terminal, TypeOK, RowsOK
    <2> QED BY <2>2, <2>3, HarmlessKeeps
<1>9. CASE StuckTask(p)
    <2>1. Harmless(p)
        BY <1>0, <1>9, GotoIsHarmless DEF StuckTask, Ending
    <2> QED BY <1>9, <2>1, HarmlessKeeps DEF StuckTask, Ends
<1>10. CASE StuckSeats(p) \/ ResetAll(p)
    BY <1>0, <1>10, StopIsHarmless, HarmlessKeeps DEF StuckSeats, ResetAll, Ends
<1>11. CASE StalledFilter(p)
    <2> PICK ts : Stop(p) \/ Become(p, [proc[p] EXCEPT !.ts = ts, !.ws = {}, !.pc = "reset"])
        BY <1>11 DEF StalledFilter
    <2>1. [proc[p] EXCEPT !.ts = ts, !.ws = {}, !.pc = "reset"].pc \notin Ending
        BY <1>0 DEF Request, Ending
    <2>2. Harmless(p)
        BY <1>0, <2>1, BecomeIsHarmless, StopIsHarmless
    <2> QED BY <1>11, <2>2, HarmlessKeeps DEF StalledFilter, Ends
<1>12. CASE Reset(p)
    <2>1. Harmless(p)
        BY <1>0, <1>12, <1>a, BecomeIsHarmless DEF Reset
    <2> QED BY <1>12, <2>1, HarmlessKeeps DEF Reset, Ends
<1>13. CASE OrphanRead(p)
    <2> PICK t, s : \/ Become(p, Without(proc[p], t, "orphan", Idle))
                    \/ Become(p, [proc[p] EXCEPT !.t = t, !.out = s, !.pc = "adopt"])
        BY <1>13 DEF OrphanRead
    <2>1. [proc[p] EXCEPT !.t = t, !.out = s, !.pc = "adopt"].pc \notin Ending
        BY <1>0 DEF Request, Ending
    <2>2. Harmless(p)
        BY <1>0, <1>a, <2>1, BecomeIsHarmless
    <2> QED BY <1>13, <2>2, HarmlessKeeps DEF OrphanRead, Ends
<1>14. CASE Adopt(p)
    <2>1. Harmless(p)
        BY <1>0, <1>14, <1>a, BecomeIsHarmless DEF Adopt
    <2> QED BY <1>14, <2>1, HarmlessKeeps DEF Adopt, Ends
<1> QED BY <1>1, <1>2, <1>3, <1>4, <1>5, <1>6, <1>7, <1>8, <1>9, <1>10, <1>11, <1>12, <1>13,
           <1>14 DEF CleanupStep

LEMMA InitOutcome == Init => OutcomeInv
BY DEF Init, OutcomeInv, GrantedIsTerminal, EndersGranted, OneOutcome, EndsWorker, Idle

LEMMA NextOutcome == TypeOK /\ OutcomeInv /\ [Next]_vars => OutcomeInv'
<1> SUFFICES ASSUME TypeOK, OutcomeInv, [Next]_vars PROVE OutcomeInv'
    OBVIOUS
<1> USE DEF aux, rows
<1>0. ProcOK
    BY DEF TypeOK
<1>1. ASSUME NEW p \in Procs, Arrive(p) \/ Step(p)
      PROVE  OutcomeInv'
    BY <1>1, ClaimKeepsOutcome, ReportKeepsOutcome, OverrideKeepsOutcome, CleanupKeepsOutcome
       DEF Arrive, Step
<1>2. ASSUME NEW p \in Procs, Crash(p)
      PROVE  OutcomeInv'
    BY <1>0, <1>2, StopIsHarmless, HarmlessKeeps DEF Crash, Ends
<1>3. ASSUME NEW t \in Tasks, Cancel(t) \/ Reopen(t)
      PROVE  OutcomeInv'
    BY <1>3 DEF Cancel, Reopen, OutcomeInv, GrantedIsTerminal, EndersGranted, OneOutcome, EndsWorker
<1>4. ASSUME NEW w \in Workers, Recover(w)
      PROVE  OutcomeInv'
    <2>1. /\ granted' = [granted EXCEPT ![w] = FALSE] /\ proc' = proc
          /\ status' = [status EXCEPT ![w] = "running"]
          /\ reopened' = (reopened \/ status[w] \in Terminal)
        BY <1>4 DEF Recover
    <2>2. GrantedIsTerminal'
        BY <2>1 DEF OutcomeInv, GrantedIsTerminal, TypeOK, RowsOK, AuxOK
    <2>3. ~reopened' => ~reopened /\ granted' = granted
        BY <2>1 DEF OutcomeInv, GrantedIsTerminal, TypeOK, AuxOK
    <2>4. EndersGranted' /\ OneOutcome'
        BY <2>1, <2>3 DEF OutcomeInv, EndersGranted, OneOutcome, EndsWorker
    <2> QED BY <2>2, <2>4 DEF OutcomeInv
<1>5. ASSUME NEW w \in Workers, Age(w)
      PROVE  OutcomeInv'
    BY <1>5 DEF Age, OutcomeInv, GrantedIsTerminal, EndersGranted, OneOutcome, EndsWorker
<1>6. CASE UNCHANGED vars
    BY <1>6 DEF vars, OutcomeInv, GrantedIsTerminal, EndersGranted, OneOutcome, EndsWorker
<1> QED BY <1>1, <1>2, <1>3, <1>4, <1>5, <1>6 DEF Next

(* A worker ended by a report or a takeover is not made live again by a       *)
(* progress report that was under way: only a reopening does.                 *)
THEOREM EndedStaysEnded == Spec => []GrantedIsTerminal
<1>1. TypeOK /\ OutcomeInv /\ [Next]_vars => (TypeOK /\ OutcomeInv)'
    BY NextTypeOK, NextOutcome
<1>2. OutcomeInv => GrantedIsTerminal
    BY DEF OutcomeInv
<1> QED BY InitTypeOK, InitOutcome, <1>1, <1>2, PTL DEF Spec

(* At most one request at a time is past the reservation of a worker, so its  *)
(* end has one outcome, one release and one set of hooks.                     *)
THEOREM OutcomeOnce == Spec => []OneOutcome
<1>1. TypeOK /\ OutcomeInv /\ [Next]_vars => (TypeOK /\ OutcomeInv)'
    BY NextTypeOK, NextOutcome
<1>2. OutcomeInv => OneOutcome
    BY DEF OutcomeInv
<1> QED BY InitTypeOK, InitOutcome, <1>1, <1>2, PTL DEF Spec

------------------------------------------------------------------------------
(* The worker cap, for any cap, any number of workers and of requests: two    *)
(* sets tell how far it can be overshot, the live workers and the claims that *)
(* have counted them and not inserted yet.  Every step but the count and the  *)
(* insertion leaves both as they are or smaller, or reopens a worker.         *)

(* No step but the count makes a request one that has counted. *)
Calm == Counted' \subseteq Counted

(* Workers only end. *)
OnlyEnds ==
    /\ \A w \in Workers : status'[w] \in {status[w]} \cup Terminal
    /\ UNCHANGED reopened

LEMMA BecomeIsCalm ==
    ASSUME ProcOK, NEW p \in Procs, NEW r, r.pc # "insert_row", Become(p, r)
    PROVE  Calm
BY DEF Calm, Counted, Become, ProcOK

LEMMA StopIsCalm ==
    ASSUME ProcOK, NEW p \in Procs, Stop(p)
    PROVE  Calm
<1>1. Idle.pc # "insert_row"
    BY DEF Idle
<1> QED BY <1>1, BecomeIsCalm DEF Stop

LEMMA GotoIsCalm ==
    ASSUME ProcOK, NEW p \in Procs, NEW pc, pc # "insert_row", Goto(p, pc)
    PROVE  Calm
<1>1. [proc[p] EXCEPT !.pc = pc].pc = pc
    BY DEF ProcOK, Request
<1> QED BY <1>1, BecomeIsCalm DEF Goto

(* What the helpers that end a loop make of a request. *)
LEMMA AfterPassPc ==
    ASSUME NEW r
    PROVE  AfterPass(r).pc # "insert_row"
BY DEF AfterPass, Idle

LEMMA ClaimDonePc ==
    ASSUME NEW r \in Request
    PROVE  ClaimDone(r).pc # "insert_row"
BY DEF ClaimDone, Idle, Request

LEMMA WithoutPc ==
    ASSUME NEW r \in Request, NEW t, NEW pc, pc # "insert_row",
           NEW done, done.pc # "insert_row"
    PROVE  Without(r, t, pc, done).pc # "insert_row"
BY DEF Without, Request

LEMMA IdlePc == Idle.pc # "insert_row"
BY DEF Idle

(* The arrivals begin elsewhere. *)
LEMMA ArriveIsCalm ==
    ASSUME TypeOK, NEW p \in Procs, Arrive(p)
    PROVE  Calm
<1>0. ProcOK
    BY DEF TypeOK
<1>1. PICK r : r.pc # "insert_row" /\ Become(p, r)
    BY DEF Arrive, ClaimBegin, ReportRead, InterruptRead, ReassignRead, CloseRead,
           SweepBegin, StalledRead, OfflineRead, OrphansRead, StuckRead, Begin, Become, Idle
<1> QED BY <1>0, <1>1, BecomeIsCalm

(* After the insertion the request is back in its loop, or past it. *)
LEMMA InsertLeaves ==
    ASSUME TypeOK, NEW p \in Procs, InsertRow(p)
    PROVE  proc'[p].pc # "insert_row" /\ Calm
<1>0. ProcOK /\ proc[p] \in Request
    BY RequestFields DEF TypeOK
<1> PICK w \in Workers :
        \/ Become(p, [proc[p] EXCEPT !.ws = @ \cup {w}, !.t = NoTask, !.pc = "claim"])
        \/ Become(p, ClaimDone([proc[p] EXCEPT !.ws = @ \cup {w}, !.t = NoTask,
                                               !.pc = "claim"]))
    BY DEF InsertRow
<1> DEFINE r == [proc[p] EXCEPT !.ws = @ \cup {w}, !.t = NoTask, !.pc = "claim"]
<1>1. proc[p].ws \cup {w} \in SUBSET Workers /\ "claim" \in Statements
    BY <1>0 DEF Request, Statements
<1>2. r \in Request /\ r.pc # "insert_row"
    BY <1>0, <1>1 DEF Request
<1>3. ClaimDone(r).pc # "insert_row"
    BY <1>2, ClaimDonePc
<1> HIDE DEF r
<1>4. PICK next : next.pc # "insert_row" /\ Become(p, next)
    BY <1>2, <1>3 DEF r
<1> QED BY <1>0, <1>4, BecomeIsCalm DEF Become, ProcOK

LEMMA ClaimIsCalm ==
    ASSUME TypeOK, NEW p \in Procs,
           \/ ClaimCount(p) \/ ClaimSelect(p) \/ ClaimTask(p)
           \/ InsertRow(p) \/ Rollback(p) \/ Sessions(p)
    PROVE  Calm
<1>0. ProcOK /\ proc[p] \in Request
    BY RequestFields DEF TypeOK
<1>1. CASE ClaimCount(p) \/ Sessions(p)
    BY <1>0, <1>1, GotoIsCalm, StopIsCalm DEF ClaimCount, Sessions
<1>2. CASE ClaimSelect(p)
    <2>1. [proc[p] EXCEPT !.ts = Claimable, !.pc = "claim"].pc # "insert_row"
        BY <1>0 DEF Request
    <2> QED BY <1>0, <1>2, <2>1, BecomeIsCalm, StopIsCalm DEF ClaimSelect
<1>3. CASE ClaimTask(p)
    <2> PICK t \in proc[p].ts :
            \/ Become(p, [proc[p] EXCEPT !.t = t, !.ts = @ \ {t}, !.pc = "insert"])
            \/ Become(p, Without(proc[p], t, "claim", ClaimDone(proc[p])))
        BY <1>3 DEF ClaimTask
    <2>1. [proc[p] EXCEPT !.t = t, !.ts = @ \ {t}, !.pc = "insert"].pc # "insert_row"
        BY <1>0 DEF Request
    <2>2. Without(proc[p], t, "claim", ClaimDone(proc[p])).pc # "insert_row"
        BY <1>0, WithoutPc, ClaimDonePc
    <2> QED BY <1>0, <2>1, <2>2, BecomeIsCalm
<1>4. CASE InsertRow(p)
    BY <1>4, InsertLeaves
<1>5. CASE Rollback(p)
    BY <1>0, <1>5, ClaimDonePc, BecomeIsCalm DEF Rollback
<1> QED BY <1>1, <1>2, <1>3, <1>4, <1>5

LEMMA ReportIsCalm ==
    ASSUME TypeOK, NEW p \in Procs, ReportStep(p) \/ OverrideStep(p)
    PROVE  Calm
<1>0. ProcOK
    BY DEF TypeOK
<1>1. \/ Stop(p)
      \/ \E pc \in {"write", "outcome", "release", "seat", "late", "takeover", "evict"} :
             Goto(p, pc)
    BY DEF ReportStep, Reactivate, Reserve, Outcome, Release, Write, Seat, LateFail,
           OverrideStep, Interrupt, Takeover, Requeue, Evict, Close
<1> QED BY <1>0, <1>1, StopIsCalm, GotoIsCalm

LEMMA CleanupIsCalm ==
    ASSUME TypeOK, NEW p \in Procs, CleanupStep(p)
    PROVE  Calm
<1>0. ProcOK /\ proc[p] \in Request
    BY RequestFields DEF TypeOK
<1>a. \A t : \A pc \in {"others", "orphan", "reset"} :
         /\ Without(proc[p], t, pc, AfterPass(proc[p])).pc # "insert_row"
         /\ Without(proc[p], t, pc, Idle).pc # "insert_row"
    BY <1>0, WithoutPc, AfterPassPc, IdlePc
<1>1. CASE SweepRead(p)
    <2> PICK ws \in SUBSET Workers :
            \/ Become(p, AfterPass(proc[p]))
            \/ Become(p, [proc[p] EXCEPT !.ws = ws, !.pc = "expire"])
        BY <1>1 DEF SweepRead, StaleNow, SilentNow, LiveWorkers
    <2>1. [proc[p] EXCEPT !.ws = ws, !.pc = "expire"].pc # "insert_row"
        BY <1>0 DEF Request
    <2> QED BY <1>0, <2>1, AfterPassPc, BecomeIsCalm
<1>2. CASE Expire(p)
    <2> DEFINE r == proc[p]
               ts == TasksOf(r.ws)
    <2>1. \/ Become(p, [r EXCEPT !.pc = "seats"])
          \/ Become(p, [r EXCEPT !.pc = "filter"])
          \/ Become(p, [r EXCEPT !.ts = ts, !.ws = {}, !.pc = "reset"])
          \/ Become(p, [r EXCEPT !.ts = ts, !.ws = {}, !.pc = "reset_all"])
        BY <1>2 DEF Expire
    <2>2. /\ [r EXCEPT !.pc = "seats"].pc # "insert_row"
          /\ [r EXCEPT !.pc = "filter"].pc # "insert_row"
          /\ [r EXCEPT !.ts = ts, !.ws = {}, !.pc = "reset"].pc # "insert_row"
          /\ [r EXCEPT !.ts = ts, !.ws = {}, !.pc = "reset_all"].pc # "insert_row"
        BY <1>0 DEF Request
    <2> QED BY <1>0, <2>1, <2>2, BecomeIsCalm
<1>3. CASE SweepSeats(p)
    <2> DEFINE ts == TasksOf(proc[p].ws)
    <2>1. [proc[p] EXCEPT !.ts = ts, !.pc = "others"].pc # "insert_row"
        BY <1>0 DEF Request
    <2> QED BY <1>0, <1>3, <2>1, BecomeIsCalm DEF SweepSeats
<1>4. CASE SweepOthers(p)
    <2> PICK t \in proc[p].ts :
            \/ Become(p, [proc[p] EXCEPT !.t = t, !.pc = "resolve"])
            \/ Become(p, Without(proc[p], t, "others", AfterPass(proc[p])))
        BY <1>4 DEF SweepOthers
    <2>1. [proc[p] EXCEPT !.t = t, !.pc = "resolve"].pc # "insert_row"
        BY <1>0 DEF Request
    <2> QED BY <1>0, <1>a, <2>1, BecomeIsCalm
<1>5. CASE ResolveRead(p) \/ Settle(p)
    BY <1>0, <1>5, <1>a, GotoIsCalm, BecomeIsCalm DEF ResolveRead, Settle
<1>6. CASE StuckWorker(p)
    <2> PICK w \in proc[p].left :
            Become(p, [proc[p] EXCEPT !.t = of[w], !.left = @ \ {w}, !.pc = "stuck_task"])
        BY <1>6 DEF StuckWorker
    <2>1. [proc[p] EXCEPT !.t = of[w], !.left = @ \ {w}, !.pc = "stuck_task"].pc # "insert_row"
        BY <1>0 DEF Request
    <2> QED BY <1>0, <2>1, BecomeIsCalm
<1>7. CASE StuckTask(p) \/ StuckSeats(p) \/ ResetAll(p)
    BY <1>0, <1>7, GotoIsCalm, StopIsCalm DEF StuckTask, StuckSeats, ResetAll
<1>8. CASE StalledFilter(p)
    <2> DEFINE ts == {t \in TasksOf(proc[p].ws) : task[t] = "assigned"}
    <2>1. Stop(p) \/ Become(p, [proc[p] EXCEPT !.ts = ts, !.ws = {}, !.pc = "reset"])
        BY <1>8 DEF StalledFilter
    <2>2. [proc[p] EXCEPT !.ts = ts, !.ws = {}, !.pc = "reset"].pc # "insert_row"
        BY <1>0 DEF Request
    <2> QED BY <1>0, <2>1, <2>2, StopIsCalm, BecomeIsCalm
<1>9. CASE Reset(p) \/ Adopt(p)
    BY <1>0, <1>9, <1>a, BecomeIsCalm DEF Reset, Adopt
<1>10. CASE OrphanRead(p)
    <2> PICK t \in proc[p].ts, s \in {"completed", "pending", "failed"} :
            \/ Become(p, Without(proc[p], t, "orphan", Idle))
            \/ Become(p, [proc[p] EXCEPT !.t = t, !.out = s, !.pc = "adopt"])
        BY <1>10 DEF OrphanRead
    <2>1. [proc[p] EXCEPT !.t = t, !.out = s, !.pc = "adopt"].pc # "insert_row"
        BY <1>0 DEF Request
    <2> QED BY <1>0, <1>a, <2>1, BecomeIsCalm
<1> QED BY <1>1, <1>2, <1>3, <1>4, <1>5, <1>6, <1>7, <1>8, <1>9, <1>10 DEF CleanupStep

----------------------------------------------------------------------------
(* The workers.  Reports, overrides and clean-ups end workers or leave them,  *)
(* or a report reopens one and says so.                                       *)

LEMMA ReportEnds ==
    ASSUME TypeOK, NEW p \in Procs, ReportStep(p) \/ OverrideStep(p)
    PROVE  \/ OnlyEnds
           \/ reopened'
           \/ LiveWorkers' \subseteq LiveWorkers /\ UNCHANGED reopened
<1> USE DEF At
<1>0. RowsOK /\ Sound(proc[p]) /\ reopened \in BOOLEAN
    BY RequestFields DEF TypeOK, AuxOK
<1>1. CASE Write(p)
    <2>0. ASSUME proc[p].seen \notin Terminal PROVE UNCHANGED reopened
        BY <1>0, <1>1, <2>0 DEF Write
    <2>a. Terminal \cap Live = {} /\ "running" \notin Terminal
        BY DEF Terminal, Live
    <2>1. CASE proc[p].seen \in Terminal
        <3>1. CASE Unmoved(proc[p], status[proc[p].w])
            BY <1>1, <2>1, <3>1 DEF Write
        <3>2. CASE ~Unmoved(proc[p], status[proc[p].w])
            BY <1>1, <2>1, <3>2 DEF Write, LiveWorkers
        <3> QED BY <3>1, <3>2
    <2>2. CASE proc[p].seen \notin Terminal /\ proc[p].out \in Terminal
        <3>1. \A w \in Workers : status'[w] \in {status[w]} \cup Terminal
            BY <1>0, <1>1, <2>2 DEF Write, RowsOK
        <3> QED BY <2>0, <2>2, <3>1 DEF OnlyEnds
    <2>3. CASE proc[p].seen \in Live /\ proc[p].out \notin Terminal
        <3>1. /\ proc[p].seen \notin Terminal
              /\ Unmoved(proc[p], status[proc[p].w]) => status[proc[p].w] \in Live
            BY <2>3 DEF Live, Terminal, Unmoved
        <3>2. proc[p].w \in Workers
            BY <1>0, <1>1 DEF Write, Sound
        <3>3. UNCHANGED reopened
            BY <2>0, <3>1
        <3>4. \A w \in Workers : status'[w] = status[w] \/ status[w] \in Live
            BY <1>0, <1>1, <3>1, <3>2 DEF Write, RowsOK
        <3> QED BY <3>3, <3>4 DEF LiveWorkers
    <2> QED BY <1>0, <1>1, <2>1, <2>2, <2>3, <2>a DEF Write, Sound
<1>2. CASE Reserve(p)
    BY <1>0, <1>2 DEF Reserve, OnlyEnds, Sound, RowsOK
<1>3. CASE Interrupt(p)
    BY <1>0, <1>3 DEF Interrupt, OnlyEnds, Terminal, RowsOK
<1>4. CASE Evict(p)
    BY <1>0, <1>4 DEF Evict, OnlyEnds, Terminal, RowsOK, aux
<1>5. ASSUME UNCHANGED <<status, reopened>> PROVE OnlyEnds
    BY <1>5 DEF OnlyEnds
<1>6. CASE \/ Reactivate(p) \/ Outcome(p) \/ Release(p) \/ Seat(p) \/ LateFail(p)
           \/ Takeover(p) \/ Requeue(p) \/ Close(p)
    BY <1>5, <1>6 DEF Reactivate, Outcome, Release, Seat, LateFail, Takeover, Requeue,
                      Close, aux
<1> QED BY <1>1, <1>2, <1>3, <1>4, <1>6 DEF ReportStep, OverrideStep

LEMMA CleanupEnds ==
    ASSUME TypeOK, NEW p \in Procs, CleanupStep(p)
    PROVE  OnlyEnds
<1>0. RowsOK
    BY DEF TypeOK
<1>1. CASE Expire(p)
    BY <1>0, <1>1 DEF Expire, ExpireRows, OnlyEnds, Terminal, RowsOK, aux
<1>2. CASE StuckWorker(p)
    BY <1>0, <1>2 DEF StuckWorker, OnlyEnds, Terminal, RowsOK, aux
<1>3. ASSUME UNCHANGED <<status, reopened>> PROVE OnlyEnds
    BY <1>3 DEF OnlyEnds
<1>4. CASE \/ SweepRead(p) \/ SweepSeats(p) \/ SweepOthers(p) \/ ResolveRead(p) \/ Settle(p)
           \/ StuckTask(p) \/ StuckSeats(p) \/ StalledFilter(p) \/ Reset(p) \/ ResetAll(p)
           \/ OrphanRead(p) \/ Adopt(p)
    BY <1>3, <1>4 DEF SweepRead, SweepSeats, SweepOthers, ResolveRead, Settle, StuckTask,
                      StuckSeats, StalledFilter, Reset, ResetAll, OrphanRead, Adopt, rows, aux
<1> QED BY <1>1, <1>2, <1>4 DEF CleanupStep

LEMMA EndsShrinks ==
    ASSUME OnlyEnds
    PROVE  LiveWorkers' \subseteq LiveWorkers
BY DEF OnlyEnds, LiveWorkers, Live, Terminal

(* Neither set grows. *)
Shrinks == /\ LiveWorkers' \subseteq LiveWorkers
           /\ Calm
           /\ UNCHANGED reopened

(* Every step but the count and the insertion. *)
LEMMA OtherStepsShrink ==
    ASSUME TypeOK, [Next]_vars
    PROVE  \/ Shrinks \/ reopened'
           \/ \E p \in Procs : InsertCount(p) \/ InsertRow(p)
<1>0. ProcOK /\ RowsOK
    BY DEF TypeOK
<1>1. ASSUME UNCHANGED <<status, reopened>>
      PROVE  LiveWorkers' \subseteq LiveWorkers
    BY <1>1 DEF LiveWorkers
<1>2. ASSUME UNCHANGED proc
      PROVE  Calm
    BY <1>2 DEF Calm, Counted
<1>3. ASSUME NEW p \in Procs, Arrive(p)
      PROVE  Shrinks
    <2>1. UNCHANGED <<status, reopened>>
        BY <1>3 DEF Arrive, ClaimBegin, ReportRead, InterruptRead, ReassignRead, CloseRead,
           SweepBegin, StalledRead, OfflineRead, OrphansRead, StuckRead, rows, aux
    <2> QED BY <1>1, <1>3, <2>1, ArriveIsCalm DEF Shrinks
<1>4. ASSUME NEW p \in Procs, Crash(p)
      PROVE  Shrinks
    BY <1>0, <1>1, <1>4, StopIsCalm DEF Crash, Shrinks, rows, aux
<1>5. ASSUME NEW p \in Procs,
             ClaimCount(p) \/ ClaimSelect(p) \/ ClaimTask(p) \/ Rollback(p) \/ Sessions(p)
      PROVE  Shrinks
    <2>1. UNCHANGED <<status, reopened>>
        BY <1>5 DEF ClaimCount, ClaimSelect, ClaimTask, Rollback, Sessions, rows, aux
    <2> QED BY <1>1, <1>5, <2>1, ClaimIsCalm DEF Shrinks
<1>6. ASSUME NEW p \in Procs, ReportStep(p) \/ OverrideStep(p)
      PROVE  Shrinks \/ reopened'
    BY <1>6, ReportIsCalm, ReportEnds, EndsShrinks DEF Shrinks, OnlyEnds
<1>7. ASSUME NEW p \in Procs, CleanupStep(p)
      PROVE  Shrinks
    BY <1>7, CleanupIsCalm, CleanupEnds, EndsShrinks DEF Shrinks, OnlyEnds
<1>8. ASSUME NEW t \in Tasks, Cancel(t) \/ Reopen(t)
      PROVE  Shrinks
    BY <1>1, <1>2, <1>8 DEF Cancel, Reopen, Shrinks, aux
<1>9. ASSUME NEW w \in Workers, Recover(w)
      PROVE  Shrinks \/ reopened'
    <2>1. UNCHANGED proc
        BY <1>9 DEF Recover
    <2>2. CASE status[w] \in Terminal
        BY <1>9, <2>2 DEF Recover
    <2>3. CASE status[w] \notin Terminal
        <3>1. status[w] \in Live
            BY <1>0, <1>9, <2>3 DEF Recover, RowsOK, Statuses
        <3>2. LiveWorkers' \subseteq LiveWorkers
            BY <1>0, <1>9, <3>1 DEF Recover, LiveWorkers, RowsOK
        <3>3. UNCHANGED reopened
            BY <1>9, <2>3 DEF Recover, TypeOK, AuxOK
        <3> QED BY <1>2, <2>1, <3>2, <3>3 DEF Shrinks
    <2> QED BY <2>2, <2>3
<1>10. ASSUME NEW w \in Workers, Age(w)
       PROVE  Shrinks
    BY <1>1, <1>2, <1>10 DEF Age, Shrinks, aux
<1>11. CASE UNCHANGED vars
    BY <1>1, <1>2, <1>11 DEF Shrinks, vars, rows, aux
<1> QED BY <1>3, <1>4, <1>5, <1>6, <1>7, <1>8, <1>9, <1>10, <1>11
        DEF Next, Step, ClaimStep

----------------------------------------------------------------------------
(* The arithmetic. *)

LEMMA CountsAreNat ==
    /\ IsFiniteSet(LiveWorkers) /\ Cardinality(LiveWorkers) \in Nat
    /\ IsFiniteSet(Counted) /\ Cardinality(Counted) \in Nat
    /\ Cardinality(Counted) <= Cardinality(Procs)
    /\ Cardinality(Procs) \in Nat
<1>1. LiveWorkers \in SUBSET Workers /\ Counted \in SUBSET Procs
    BY DEF LiveWorkers, Counted
<1> QED BY <1>1, LeaseAssumption, FS_Subset, FS_CardinalityType

LEMMA CountsAreNatNext ==
    /\ IsFiniteSet(LiveWorkers') /\ Cardinality(LiveWorkers') \in Nat
    /\ IsFiniteSet(Counted') /\ Cardinality(Counted') \in Nat
    /\ Cardinality(Counted') <= Cardinality(Procs)
<1>1. LiveWorkers' \in SUBSET Workers /\ Counted' \in SUBSET Procs
    BY DEF LiveWorkers, Counted
<1> QED BY <1>1, LeaseAssumption, FS_Subset, FS_CardinalityType

LEMMA ShrinksKeeps ==
    ASSUME CapOvershoot, Shrinks
    PROVE  CapOvershoot'
<1>1. Cardinality(LiveWorkers') <= Cardinality(LiveWorkers)
    BY CountsAreNat, FS_Subset DEF Shrinks
<1>2. Cardinality(Counted') <= Cardinality(Counted)
    BY CountsAreNat, FS_Subset DEF Shrinks, Calm
<1> QED BY <1>1, <1>2, CountsAreNat, CountsAreNatNext, LeaseAssumption DEF CapOvershoot, Shrinks

(* The count adds one request that may insert, and only below the cap; there  *)
(* are never more of them than requests.                                      *)
LEMMA CountKeeps ==
    ASSUME TypeOK, CapOvershoot, NEW p \in Procs, InsertCount(p)
    PROVE  CapOvershoot'
<1>0. ProcOK
    BY DEF TypeOK
<1>1. LiveWorkers' = LiveWorkers /\ UNCHANGED reopened
    BY DEF InsertCount, rows, aux, LiveWorkers
<1>2. CASE Cardinality(LiveWorkers) < MaxConcurrentWorkers
    BY <1>1, <1>2, CountsAreNat, CountsAreNatNext, LeaseAssumption DEF CapOvershoot
<1>3. CASE ~(Cardinality(LiveWorkers) < MaxConcurrentWorkers)
    <2>1. Goto(p, "rollback")
        BY <1>3 DEF InsertCount
    <2> QED BY <1>0, <1>1, <2>1, GotoIsCalm, ShrinksKeeps DEF Shrinks
<1> QED BY <1>2, <1>3

(* The insertion turns a request that has counted into a live worker. *)
LEMMA InsertKeeps ==
    ASSUME TypeOK, CapOvershoot, NEW p \in Procs, InsertRow(p)
    PROVE  CapOvershoot'
<1>0. ProcOK /\ RowsOK
    BY DEF TypeOK
<1>1. PICK w \in Workers : status' = [status EXCEPT ![w] = "idle"]
    BY DEF InsertRow
<1>2. LiveWorkers' \subseteq LiveWorkers \cup {w}
    BY <1>0, <1>1 DEF LiveWorkers, RowsOK
<1>3. Cardinality(LiveWorkers') <= Cardinality(LiveWorkers) + 1
    <2>0. IsFiniteSet(LiveWorkers \cup {w})
        BY CountsAreNat, FS_AddElement
    <2>a. Cardinality(LiveWorkers \cup {w})
             = IF w \in LiveWorkers THEN Cardinality(LiveWorkers) ELSE Cardinality(LiveWorkers) + 1
        BY CountsAreNat, FS_AddElement
    <2>1. /\ IsFiniteSet(LiveWorkers \cup {w})
          /\ Cardinality(LiveWorkers \cup {w}) <= Cardinality(LiveWorkers) + 1
          /\ Cardinality(LiveWorkers \cup {w}) \in Nat
        BY <2>0, <2>a, CountsAreNat
    <2>2. Cardinality(LiveWorkers') <= Cardinality(LiveWorkers \cup {w})
        BY <1>2, <2>1, FS_Subset
    <2> QED BY <2>1, <2>2, CountsAreNat, CountsAreNatNext
<1>4. p \in Counted
    BY DEF InsertRow, At, Counted
<1>5. Counted' \subseteq Counted \ {p}
    <2>1. Calm
        BY ClaimIsCalm
    <2>2. proc'[p].pc # "insert_row"
        BY InsertLeaves
    <2> QED BY <2>1, <2>2 DEF Calm, Counted
<1>6. Cardinality(Counted') <= Cardinality(Counted) - 1
    <2>1. /\ IsFiniteSet(Counted \ {p})
          /\ Cardinality(Counted \ {p}) = Cardinality(Counted) - 1
        BY <1>4, CountsAreNat, FS_RemoveElement
    <2> QED BY <1>5, <2>1, FS_Subset
<1>7. UNCHANGED reopened
    BY DEF InsertRow, aux
<1> QED BY <1>3, <1>6, <1>7, CountsAreNat, CountsAreNatNext, LeaseAssumption DEF CapOvershoot

LEMMA InitCap == Init => CapOvershoot
<1> SUFFICES ASSUME Init PROVE CapOvershoot
    OBVIOUS
<1>1. LiveWorkers = {} /\ Counted = {}
    BY DEF Init, LiveWorkers, Live, Counted, Idle
<1>2. Cardinality(Procs) \in Nat /\ Cardinality(Procs) # 0
    BY LeaseAssumption, CountsAreNat, FS_EmptySet
<1>3. Cardinality(LiveWorkers) = 0 /\ Cardinality(Counted) = 0
    BY <1>1, FS_EmptySet
<1> QED BY <1>2, <1>3, LeaseAssumption DEF CapOvershoot

LEMMA NextCap == TypeOK /\ CapOvershoot /\ [Next]_vars => CapOvershoot'
<1> SUFFICES ASSUME TypeOK, CapOvershoot, [Next]_vars
             PROVE  CapOvershoot'
    OBVIOUS
<1>1. CASE Shrinks
    BY <1>1, ShrinksKeeps
<1>2. CASE reopened'
    BY <1>2 DEF CapOvershoot
<1>3. ASSUME NEW p \in Procs, InsertCount(p) \/ InsertRow(p)
      PROVE  CapOvershoot'
    BY <1>3, CountKeeps, InsertKeeps
<1> QED BY <1>1, <1>2, <1>3, OtherStepsShrink

(* However many claims race between the count and the insertion, the live     *)
(* workers exceed the cap by less than the number of requests in progress, as *)
(* long as no ended worker has been reopened (that takes no count).           *)
THEOREM CapBounded == Spec => []CapOvershoot
<1>1. Init => CapOvershoot
    BY InitCap
<1>2. TypeOK /\ CapOvershoot /\ [Next]_vars => CapOvershoot'
    BY NextCap
<1> QED BY <1>1, <1>2, TypeCorrect, PTL DEF Spec

------------------------------------------------------------------------------
(* A task has one holder: proof of OneLease.                                  *)
(*                                                                            *)
(* OneLease lacks little of being inductive: that a report's request names    *)
(* the task of its worker, whose row exists; that a report which is about to  *)
(* make an ended worker live again has marked its task; and that a person     *)
(* who closes a task does not make it pending.                                *)

Owns(r) == r.pc \in {"reserve", "reactivate", "outcome", "release", "write"} =>
              status[r.w] # "none" /\ of[r.w] = r.t
Marked(r) == r.pc = "write" /\ r.seen \in Terminal /\ r.t \in Tasks => disturbed[r.t]
Closes(r) == r.pc = "close" => r.out \in {"completed", "failed"}
Fits(r) == Owns(r) /\ Marked(r) /\ Closes(r)

HolderInv == OneLease /\ \A p \in Procs : Fits(proc[p])

(* The statements at which the invariant asks something of a request.         *)
Acting == {"insert", "insert_row", "rollback", "reserve", "reactivate", "outcome",
           "release", "write", "close"}

LEMMA NotActing ==
    ASSUME NEW r, r.pc \notin Acting
    PROVE  Fits(r) /\ Fits(r)' /\ \A t : ~Holds(r, t)
BY DEF Acting, Fits, Owns, Marked, Closes, Holds

----------------------------------------------------------------------------
(* What a step leaves alone.                                                  *)

(* Only p moves; what it has read fits its next statement, and it holds no    *)
(* task that it did not hold.                                                 *)
Moves(p) ==
    /\ \A q \in Procs \ {p} : proc'[q] = proc[q]
    /\ Fits(proc[p])'
    /\ \A t \in Tasks : Holds(proc'[p], t) => Holds(proc[p], t)

(* No row is lost, and a worker that comes to life has its task marked.       *)
NoneAlive ==
    /\ of' = of
    /\ \A w \in Workers :
          /\ status[w] # "none" => status'[w] # "none"
          /\ status'[w] \in Live /\ status[w] \notin Live /\ of[w] \in Tasks
                => disturbed'[of[w]]

(* Marks stay, and a task without a mark becomes pending only when its holder *)
(* p lets go of it.                                                           *)
Marks(p) ==
    \A t \in Tasks :
        /\ disturbed[t] => disturbed'[t]
        /\ task'[t] = "pending" /\ ~disturbed'[t] =>
              task[t] = "pending" \/ (Holds(proc[p], t) /\ ~Holds(proc'[p], t))

LEMMA OthersFit ==
    ASSUME TypeOK, HolderInv, NEW q \in Procs, proc'[q] = proc[q], NoneAlive,
           \A t \in Tasks : disturbed[t] => disturbed'[t]
    PROVE  Fits(proc[q])'
<1>1. Fits(proc[q]) /\ Sound(proc[q])
    BY DEF HolderInv, TypeOK, ProcOK
<1> QED BY <1>1 DEF Fits, Owns, Marked, Closes, NoneAlive, Sound

LEMMA MoveKeepsInv ==
    ASSUME TypeOK, HolderInv, NEW p \in Procs, Moves(p), NoneAlive, Marks(p)
    PROVE  HolderInv'
<1>1. \A q \in Procs : Fits(proc[q])'
    BY OthersFit DEF Moves, Marks
<1>2. OneLease'
    <2> SUFFICES ASSUME NEW t \in Tasks, ~disturbed'[t]
                 PROVE  /\ \A a, b \in Holders(t)' : a = b
                        /\ task'[t] = "pending" => Holders(t)' = {}
        BY DEF OneLease
    <2>1. ~disturbed[t]
        BY DEF Marks
    <2>2. LiveOn(t)' \subseteq LiveOn(t)
        BY DEF LiveOn, LiveWorkers, NoneAlive
    <2>3. \A q \in Procs : Holds(proc'[q], t) => Holds(proc[q], t)
        BY DEF Moves
    <2>4. Holders(t)' \subseteq Holders(t)
        BY <2>2, <2>3 DEF Holders
    <2>5. \A a, b \in Holders(t)' : a = b
        BY <2>1, <2>4 DEF HolderInv, OneLease
    <2>6. ASSUME task'[t] = "pending" PROVE Holders(t)' = {}
        <3>1. CASE task[t] = "pending"
            BY <2>1, <2>4, <3>1 DEF HolderInv, OneLease
        <3>2. CASE Holds(proc[p], t) /\ ~Holds(proc'[p], t)
            <4>1. p \in Holders(t) /\ p \notin {q \in Procs : Holds(proc'[q], t)}
                BY <3>2 DEF Holders
            <4>2. p \notin LiveOn(t)
                BY LeaseAssumption DEF LiveOn, LiveWorkers
            <4>3. p \notin Holders(t)'
                BY <2>2, <4>1, <4>2 DEF Holders
            <4> QED BY <2>1, <2>4, <4>1, <4>3 DEF HolderInv, OneLease
        <3> QED BY <2>1, <2>6, <3>1, <3>2 DEF Marks
    <2> QED BY <2>5, <2>6
<1> QED BY <1>1, <1>2 DEF HolderInv

(* What TaskLease promises of a step, on top: that each lease moves the way   *)
(* Lease says.                                                                *)
By(t) == IF disturbed[t] THEN {} ELSE Holders(t)
Handed == \A t \in Tasks : Abstract!Move(t)
Kept == HolderInv' /\ Handed

LEMMA LeaseMoves ==
    ASSUME NEW t \in Tasks
    PROVE  /\ \A l, h : Abstract!Becomes(t, l, h) <=> LeaseOf(t)' = l /\ By(t)' = h
           /\ \A a : Abstract!HeldBy(t, a) <=> LeaseOf(t) = "held" /\ By(t) = {a}
           /\ Abstract!Stay(t) <=> LeaseOf(t)' = LeaseOf(t) /\ By(t)' = By(t)
           /\ LeaseOf(t) \in {"open", "loose"} =>
                 \A p \in Procs : Abstract!Becomes(t, "held", {p}) => Abstract!Take(t)
           /\ LeaseOf(t) = "open" /\ Abstract!Becomes(t, "closed", {}) => Abstract!Close(t)
BY DEF Abstract!Becomes, Abstract!HeldBy, Abstract!Stay, Abstract!Take, Abstract!Close, By

LEMMA Disturbing ==
    ASSUME NEW t \in Tasks, disturbed'[t]
    PROVE  Abstract!Move(t)
<1>1. LeaseOf(t)' = "loose" /\ By(t)' = {}
    BY DEF LeaseOf, By
<1> QED BY <1>1, LeaseMoves DEF Abstract!Move, Abstract!Loosen

(* A lease that has its holder, or none, is one that Lease knows.             *)
LEMMA LeaseIs ==
    ASSUME OneLease, NEW t \in Tasks, ~disturbed[t]
    PROVE  /\ By(t) = Holders(t)
           /\ task[t] = "pending" => LeaseOf(t) = "open" /\ Holders(t) = {}
           /\ task[t] # "pending" /\ Holders(t) = {} => LeaseOf(t) = "closed"
           /\ Holders(t) # {} => LeaseOf(t) = "held"
BY DEF OneLease, LeaseOf, By

LEMMA LeaseIsNext ==
    ASSUME OneLease', NEW t \in Tasks, ~disturbed'[t]
    PROVE  /\ By(t)' = Holders(t)'
           /\ task'[t] = "pending" => LeaseOf(t)' = "open" /\ Holders(t)' = {}
           /\ task'[t] # "pending" /\ Holders(t)' = {} => LeaseOf(t)' = "closed"
           /\ Holders(t)' # {} => LeaseOf(t)' = "held"
BY DEF OneLease, LeaseOf, By

(* No holder comes, and the task is opened only by a request that held it.    *)
LEMMA Shrinking ==
    ASSUME OneLease, OneLease', NEW t \in Tasks, ~disturbed[t], ~disturbed'[t],
           Holders(t)' \subseteq Holders(t),
           task'[t] = "pending" => \/ task[t] = "pending"
                                   \/ \E p \in Procs : p \in Holders(t)
    PROVE  Abstract!Move(t)
<1>1. CASE Holders(t) = {}
    <2>1. Holders(t)' = {}
        BY <1>1
    <2>2. CASE task'[t] = "pending"
        BY <1>1, <2>1, <2>2, LeaseIs, LeaseIsNext, LeaseMoves DEF Abstract!Move
    <2>3. CASE task'[t] # "pending" /\ task[t] = "pending"
        BY <1>1, <2>1, <2>3, LeaseIs, LeaseIsNext, LeaseMoves DEF Abstract!Move
    <2>4. CASE task'[t] # "pending" /\ task[t] # "pending"
        BY <1>1, <2>1, <2>4, LeaseIs, LeaseIsNext, LeaseMoves DEF Abstract!Move
    <2> QED BY <2>2, <2>3, <2>4
<1>2. CASE Holders(t) # {}
    <2>1. PICK x \in Holders(t) : Holders(t) = {x}
        BY <1>2 DEF OneLease
    <2>2. x \in Workers \/ x \in Procs
        BY DEF Holders, LiveOn, LiveWorkers
    <2>3. LeaseOf(t) = "held" /\ By(t) = {x} /\ task[t] # "pending"
        BY <1>2, <2>1, LeaseIs
    <2>4. CASE Holders(t)' = {x}
        BY <2>3, <2>4, LeaseIsNext, LeaseMoves DEF Abstract!Move
    <2>5. CASE Holders(t)' = {} /\ x \in Procs
        <3>1. LeaseOf(t)' \in {"open", "closed"} /\ By(t)' = {}
            BY <2>5, LeaseIsNext
        <3>2. Abstract!Settle(t)
            BY <2>3, <2>5, <3>1, LeaseMoves DEF Abstract!Settle
        <3> QED BY <3>2 DEF Abstract!Move
    <2>6. CASE Holders(t)' = {} /\ x \in Workers
        <3>1. task'[t] # "pending"
            BY <2>1, <2>3, <2>6, LeaseAssumption
        <3>2. LeaseOf(t)' = "closed" /\ By(t)' = {}
            BY <2>6, <3>1, LeaseIsNext
        <3>3. Abstract!Drop(t)
            BY <2>3, <2>6, <3>2, LeaseMoves DEF Abstract!Drop
        <3> QED BY <3>3 DEF Abstract!Move
    <2>7. Holders(t)' = {x} \/ Holders(t)' = {}
        BY <2>1
    <2> QED BY <2>2, <2>4, <2>5, <2>6, <2>7
<1> QED BY <1>1, <1>2

LEMMA MoveKeeps ==
    ASSUME TypeOK, HolderInv, NEW p \in Procs, Moves(p), NoneAlive, Marks(p)
    PROVE  Kept
<1>1. HolderInv'
    BY MoveKeepsInv
<1>2. ASSUME NEW t \in Tasks PROVE Abstract!Move(t)
    <2>1. CASE disturbed'[t]
        BY <2>1, Disturbing
    <2>2. CASE ~disturbed'[t]
        <3>1. ~disturbed[t]
            BY <2>2 DEF Marks
        <3>2. Holders(t)' \subseteq Holders(t)
            <4>1. LiveOn(t)' \subseteq LiveOn(t)
                BY <2>2 DEF LiveOn, LiveWorkers, NoneAlive
            <4>2. \A q \in Procs : Holds(proc'[q], t) => Holds(proc[q], t)
                BY DEF Moves
            <4> QED BY <4>1, <4>2 DEF Holders
        <3>3. task'[t] = "pending" =>
                 task[t] = "pending" \/ \E q \in Procs : q \in Holders(t)
            BY <2>2 DEF Marks, Holders
        <3> QED BY <1>1, <2>2, <3>1, <3>2, <3>3, Shrinking DEF HolderInv
    <2> QED BY <2>1, <2>2
<1> QED BY <1>1, <1>2 DEF Kept, Handed

(* A step that does nothing to the rows of workers.                           *)
LEMMA SameRows ==
    ASSUME UNCHANGED <<status, of>>
    PROVE  NoneAlive
BY DEF NoneAlive

(* Workers only end.                                                          *)
LEMMA EndingRows ==
    ASSUME of' = of, \A w \in Workers : status'[w] \in {status[w]} \cup Terminal
    PROVE  NoneAlive
BY DEF NoneAlive, Live, Terminal

(* A step that leaves tasks alone, or ends one.                               *)
LEMMA SameMarks ==
    ASSUME NEW p, UNCHANGED <<task, disturbed>>
    PROVE  Marks(p)
BY DEF Marks

LEMMA EndMarks ==
    ASSUME RowsOK, NEW p, NEW t, NEW s, s # "pending", SetTask(t, s), UNCHANGED disturbed
    PROVE  Marks(p)
BY DEF Marks, SetTask, RowsOK

(* A step that marks the only task it writes.                                 *)
LEMMA WriteMarks ==
    ASSUME RowsOK, NEW p, NEW t,
           UNCHANGED task \/ (\E s : SetTask(t, s)), Disturb({t})
    PROVE  Marks(p)
BY DEF Marks, SetTask, Disturb, RowsOK

----------------------------------------------------------------------------
(* The next record of a request that goes on with a statement at which        *)
(* nothing is asked of it.                                                    *)
LEMMA BecomeMoves ==
    ASSUME ProcOK, NEW p \in Procs, NEW r, r.pc \notin Acting, Become(p, r)
    PROVE  Moves(p)
<1>1. proc'[p] = r /\ \A q \in Procs \ {p} : proc'[q] = proc[q]
    BY DEF Become, ProcOK
<1>2. Fits(r)' /\ \A t \in Tasks : ~Holds(r, t)
    BY NotActing
<1>3. Fits(proc[p])'
    BY <1>1, NotActing DEF Fits, Owns, Marked, Closes, Acting
<1> QED BY <1>1, <1>2, <1>3 DEF Moves

LEMMA IdleNotActing == Idle.pc \notin Acting
BY DEF Idle, Acting

LEMMA StopMoves ==
    ASSUME ProcOK, NEW p \in Procs, Stop(p)
    PROVE  Moves(p)
BY IdleNotActing, BecomeMoves DEF Stop

LEMMA GotoMoves ==
    ASSUME ProcOK, NEW p \in Procs, NEW pc, pc \notin Acting, Goto(p, pc)
    PROVE  Moves(p)
<1>1. [proc[p] EXCEPT !.pc = pc].pc = pc
    BY DEF ProcOK, Request
<1> QED BY <1>1, BecomeMoves DEF Goto

LEMMA WithoutNotActing ==
    ASSUME NEW r \in Request, NEW t, NEW pc, pc \notin Acting,
           NEW done, done.pc \notin Acting
    PROVE  Without(r, t, pc, done).pc \notin Acting
BY DEF Without, Request

LEMMA AfterPassNotActing ==
    ASSUME NEW r
    PROVE  AfterPass(r).pc \notin Acting
BY DEF AfterPass, Idle, Acting

LEMMA ClaimDoneNotActing ==
    ASSUME NEW r \in Request
    PROVE  ClaimDone(r).pc \notin Acting
BY DEF ClaimDone, Idle, Acting, Request

----------------------------------------------------------------------------
(* A claim takes a task that nobody holds: it was pending, or, if the task    *)
(* was marked, the claim clears the mark only when it is alone with it.       *)
LEMMA TakingKeeps ==
    ASSUME TypeOK, HolderInv, NEW p \in Procs, ClaimTask(p), NEW t,
           task[t] = "pending", SetTask(t, "assigned"),
           Become(p, [proc[p] EXCEPT !.t = t, !.ts = @ \ {t}, !.pc = "insert"]),
           disturbed' = [disturbed EXCEPT ![t] = @ /\ ~Alone(p, t)]
    PROVE  Kept
<1> DEFINE r == [proc[p] EXCEPT !.t = t, !.ts = @ \ {t}, !.pc = "insert"]
<1>1. /\ r.pc = "insert" /\ r.t = t /\ proc'[p] = r
      /\ \A q \in Procs \ {p} : proc'[q] = proc[q]
    BY RequestFields DEF TypeOK, ProcOK, Become, Request
<1>2. UNCHANGED <<status, of>> /\ At(p, "claim")
    BY DEF ClaimTask
<1>3. Fits(proc[p])'
    BY <1>1 DEF Fits, Owns, Marked, Closes
<1>4. ASSUME NEW q \in Procs \ {p} PROVE Fits(proc[q])'
    <2>1. Fits(proc[q]) /\ proc'[q] = proc[q]
        BY <1>1 DEF HolderInv
    <2>2. ASSUME proc[q].t = t, t \in Tasks PROVE disturbed[t] => disturbed'[t]
        BY <2>2 DEF Alone, Engaged, TypeOK, AuxOK
    <2>3. \A u \in Tasks \ {t} : disturbed'[u] = disturbed[u]
        BY DEF TypeOK, AuxOK
    <2> QED BY <1>2, <2>1, <2>2, <2>3 DEF Fits, Owns, Marked, Closes
<1>5. \A u \in Tasks : LiveOn(u)' = LiveOn(u)
    BY <1>2 DEF LiveOn, LiveWorkers
<1>6. \A u \in Tasks \ {t} : /\ Holders(u)' \subseteq Holders(u)
                            /\ disturbed'[u] = disturbed[u] /\ task'[u] = task[u]
    BY <1>1, <1>5 DEF Holders, Holds, SetTask, TypeOK, RowsOK, AuxOK
<1>7. ASSUME t \in Tasks, ~disturbed'[t] PROVE Holders(t) = {}
    <2>1. CASE ~disturbed[t]
        BY <1>7, <2>1 DEF HolderInv, OneLease
    <2>2. CASE Alone(p, t)
        BY <1>2, <2>2 DEF Alone, Engaged, Holders, Holds, At
    <2> QED BY <1>7, <2>1, <2>2 DEF TypeOK, AuxOK
<1>8. t \in Tasks => Holders(t)' \subseteq Holders(t) \cup {p}
    BY <1>1, <1>5 DEF Holders
<1>9. t \in Tasks => task'[t] = "assigned"
    BY DEF SetTask, TypeOK, RowsOK
<1>10. OneLease'
    <2> SUFFICES ASSUME NEW u \in Tasks, ~disturbed'[u]
                 PROVE  /\ \A a, b \in Holders(u)' : a = b
                        /\ task'[u] = "pending" => Holders(u)' = {}
        BY DEF OneLease
    <2>1. CASE u = t
        BY <1>7, <1>8, <1>9, <2>1
    <2>2. CASE u # t
        BY <1>6, <2>2 DEF HolderInv, OneLease
    <2> QED BY <2>1, <2>2
<1>11. ASSUME NEW u \in Tasks PROVE Abstract!Move(u)
    <2>1. CASE disturbed'[u]
        BY <2>1, Disturbing
    <2>2. CASE ~disturbed'[u] /\ u # t
        BY <1>6, <1>10, <2>2, Shrinking DEF HolderInv
    <2>3. CASE ~disturbed'[u] /\ u = t
        <3>1. p \in Holders(t)'
            BY <1>1 DEF Holders, Holds
        <3>2. Holders(t)' = {p}
            BY <1>7, <1>8, <2>3, <3>1
        <3>3. LeaseOf(t) \in {"open", "loose"}
            BY DEF LeaseOf
        <3>4. LeaseOf(t)' = "held" /\ By(t)' = {p}
            BY <1>10, <2>3, <3>2, LeaseIsNext
        <3> QED BY <2>3, <3>3, <3>4, LeaseMoves DEF Abstract!Move
    <2> QED BY <2>1, <2>2, <2>3
<1> QED BY <1>3, <1>4, <1>10, <1>11 DEF HolderInv, Kept, Handed

(* The new worker holds what the claim held.                                  *)
LEMMA InsertionKeeps ==
    ASSUME TypeOK, HolderInv, NEW p \in Procs, InsertRow(p)
    PROVE  Kept
<1>0. ProcOK /\ proc[p] \in Request
    BY RequestFields DEF TypeOK
<1> PICK w \in Workers :
        /\ status[w] = "none"
        /\ status' = [status EXCEPT ![w] = "idle"]
        /\ of' = [of EXCEPT ![w] = proc[p].t]
        /\ \/ Become(p, [proc[p] EXCEPT !.ws = @ \cup {w}, !.t = NoTask, !.pc = "claim"])
           \/ Become(p, ClaimDone([proc[p] EXCEPT !.ws = @ \cup {w}, !.t = NoTask,
                                                  !.pc = "claim"]))
    BY DEF InsertRow
<1> DEFINE r == [proc[p] EXCEPT !.ws = @ \cup {w}, !.t = NoTask, !.pc = "claim"]
<1>1. r \in Request /\ r.pc = "claim"
    BY <1>0 DEF Request, Statements
<1>2. Moves(p)
    BY <1>0, <1>1, BecomeMoves, ClaimDoneNotActing DEF Acting
<1>3. proc'[p].pc \notin Acting
    BY <1>0, <1>1, ClaimDoneNotActing DEF Become, ProcOK, Acting
<1>4. UNCHANGED <<task, disturbed>> /\ Holds(proc[p], proc[p].t)
    BY DEF InsertRow, At, Holds, aux
<1>5. ASSUME NEW q \in Procs \ {p} PROVE Fits(proc[q])'
    <2>1. Fits(proc[q]) /\ proc'[q] = proc[q] /\ Sound(proc[q])
        BY <1>2 DEF HolderInv, Moves, TypeOK, ProcOK
    <2>2. \A v \in Workers \ {w} : status'[v] = status[v] /\ of'[v] = of[v]
        BY DEF TypeOK, RowsOK
    <2> QED BY <1>4, <2>1, <2>2 DEF Fits, Owns, Marked, Closes, Sound
<1>6. \A t \in Tasks : t # proc[p].t => Holders(t)' \subseteq Holders(t)
    BY <1>2 DEF Holders, Moves, LiveOn, LiveWorkers, Live, TypeOK, RowsOK
<1>7. ASSUME NEW t \in Tasks, t = proc[p].t
      PROVE  Holders(t)' \subseteq (Holders(t) \ {p}) \cup {w}
    <2>1. LiveOn(t)' \subseteq LiveOn(t) \cup {w}
        BY DEF LiveOn, LiveWorkers, TypeOK, RowsOK
    <2>2. p \notin LiveOn(t) \cup {w}
        BY LeaseAssumption DEF LiveOn, LiveWorkers
    <2>3. ~Holds(proc'[p], t)
        BY <1>3, NotActing
    <2> QED BY <1>2, <2>1, <2>2, <2>3 DEF Holders, Moves
<1>8. OneLease'
    <2> SUFFICES ASSUME NEW t \in Tasks, ~disturbed'[t]
                 PROVE  /\ \A a, b \in Holders(t)' : a = b
                        /\ task'[t] = "pending" => Holders(t)' = {}
        BY DEF OneLease
    <2>1. CASE t # proc[p].t
        BY <1>4, <1>6, <2>1 DEF HolderInv, OneLease
    <2>2. CASE t = proc[p].t
        <3>1. p \in Holders(t)
            BY <1>4, <2>2 DEF Holders
        <3>2. Holders(t) \ {p} = {} /\ task[t] # "pending"
            BY <1>4, <3>1 DEF HolderInv, OneLease
        <3> QED BY <1>4, <1>7, <2>2, <3>2
    <2> QED BY <2>1, <2>2
<1>9. Fits(proc[p])'
    BY <1>2 DEF Moves
<1>10. ASSUME NEW t \in Tasks PROVE Abstract!Move(t)
    <2>1. CASE disturbed'[t]
        BY <2>1, Disturbing
    <2>2. CASE ~disturbed'[t] /\ t # proc[p].t
        BY <1>4, <1>6, <1>8, <2>2, Shrinking DEF HolderInv
    <2>3. CASE ~disturbed'[t] /\ t = proc[p].t
        <3>1. p \in Holders(t) /\ ~disturbed[t]
            BY <1>4, <2>3 DEF Holders
        <3>2. Holders(t) = {p}
            BY <3>1 DEF HolderInv, OneLease
        <3>3. status'[w] = "idle" /\ of'[w] = t
            BY <2>3 DEF TypeOK, RowsOK
        <3>4. w \in Holders(t)'
            BY <3>3 DEF Holders, LiveOn, LiveWorkers, Live
        <3>5. Holders(t)' = {w}
            BY <1>7, <2>3, <3>2, <3>4
        <3>6. LeaseOf(t) = "held" /\ By(t) = {p}
            BY <3>1, <3>2, LeaseIs DEF HolderInv
        <3>7. LeaseOf(t)' = "held" /\ By(t)' = {w}
            BY <1>8, <2>3, <3>5, LeaseIsNext
        <3>8. Abstract!HeldBy(t, p) /\ Abstract!Becomes(t, "held", {w})
            BY <3>6, <3>7, LeaseMoves
        <3>9. Abstract!HandOver(t)
            BY <3>8 DEF Abstract!HandOver
        <3> QED BY <3>9 DEF Abstract!Move
    <2> QED BY <2>1, <2>2, <2>3
<1> QED BY <1>5, <1>8, <1>9, <1>10 DEF HolderInv, Kept, Handed

LEMMA ClaimKeepsHolder ==
    ASSUME TypeOK, HolderInv, NEW p \in Procs, ClaimBegin(p) \/ ClaimStep(p)
    PROVE  Kept
<1> USE DEF aux, rows
<1>0. ProcOK /\ RowsOK /\ proc[p] \in Request
    BY RequestFields DEF TypeOK
<1>1. CASE ClaimBegin(p) \/ ClaimCount(p) \/ ClaimSelect(p) \/ Sessions(p)
    <2>1. [Idle EXCEPT !.kind = "claim", !.pc = "sweep"].pc \notin Acting
        BY DEF Idle, Acting
    <2>2. [proc[p] EXCEPT !.ts = Claimable, !.pc = "claim"].pc \notin Acting
        BY <1>0 DEF Request, Acting
    <2>3. Moves(p)
        BY <1>0, <1>1, <2>1, <2>2, BecomeMoves, GotoMoves, StopMoves
           DEF ClaimBegin, Begin, Become, ClaimCount, ClaimSelect, Sessions, Acting
    <2> QED BY <1>1, <2>3, SameRows, SameMarks, MoveKeeps
            DEF ClaimBegin, ClaimCount, ClaimSelect, Sessions
<1>2. CASE ClaimTask(p)
    <2> PICK t \in proc[p].ts :
            \/ /\ task[t] = "pending" /\ SetTask(t, "assigned")
               /\ Become(p, [proc[p] EXCEPT !.t = t, !.ts = @ \ {t}, !.pc = "insert"])
               /\ disturbed' = [disturbed EXCEPT ![t] = @ /\ ~Alone(p, t)]
            \/ /\ UNCHANGED task \/ SetTask(t, "failed")
               /\ Become(p, Without(proc[p], t, "claim", ClaimDone(proc[p])))
               /\ UNCHANGED disturbed
        BY <1>2 DEF ClaimTask
    <2>1. CASE Become(p, Without(proc[p], t, "claim", ClaimDone(proc[p])))
               /\ UNCHANGED disturbed /\ (UNCHANGED task \/ SetTask(t, "failed"))
        <3>1. Moves(p)
            BY <1>0, <2>1, WithoutNotActing, ClaimDoneNotActing, BecomeMoves DEF Acting
        <3>2. Marks(p)
            BY <1>0, <2>1, SameMarks, EndMarks
        <3> QED BY <1>2, <3>1, <3>2, SameRows, MoveKeeps DEF ClaimTask
    <2> QED BY <1>2, <2>1, TakingKeeps
<1>3. CASE InsertCount(p)
    <2> PICK pc \in {"insert_row", "rollback"} : Goto(p, pc)
        BY <1>3 DEF InsertCount
    <2>1. /\ proc'[p] = [proc[p] EXCEPT !.pc = pc] /\ proc[p].pc = "insert"
          /\ \A q \in Procs \ {p} : proc'[q] = proc[q]
        BY <1>0, <1>3 DEF InsertCount, At, Goto, Become, ProcOK
    <2>2. Moves(p)
        BY <1>0, <2>1 DEF Moves, Fits, Owns, Marked, Closes, Holds, Request
    <2> QED BY <1>3, <2>2, SameRows, SameMarks, MoveKeeps DEF InsertCount
<1>4. CASE InsertRow(p)
    BY <1>4, InsertionKeeps
<1>5. CASE Rollback(p)
    <2>1. Moves(p) /\ \A t : ~Holds(proc'[p], t)
        BY <1>0, <1>5, ClaimDoneNotActing, BecomeMoves, NotActing DEF Rollback, Become, ProcOK
    <2>2. Marks(p)
        BY <1>0, <1>5, <2>1 DEF Rollback, At, Holds, Marks, SetTask, RowsOK
    <2> QED BY <1>5, <2>1, <2>2, SameRows, MoveKeeps DEF Rollback
<1> QED BY <1>1, <1>2, <1>3, <1>4, <1>5 DEF ClaimStep

----------------------------------------------------------------------------
(* The reservation: the request holds what its worker held.                   *)
LEMMA ReservationKeeps ==
    ASSUME TypeOK, HolderInv, NEW p \in Procs, At(p, "reserve"),
           status[proc[p].w] \in Live, NEW s \in Terminal,
           status' = [status EXCEPT ![proc[p].w] = s], Goto(p, "outcome"),
           UNCHANGED <<task, of, disturbed>>
    PROVE  Kept
<1> DEFINE w == proc[p].w
<1>1. /\ proc[p] \in Request /\ Sound(proc[p]) /\ Fits(proc[p]) /\ w \in Workers
      /\ of[w] = proc[p].t
    BY RequestFields DEF TypeOK, HolderInv, Fits, Owns, At, Sound
<1>2. /\ proc'[p] = [proc[p] EXCEPT !.pc = "outcome"]
      /\ \A q \in Procs \ {p} : proc'[q] = proc[q]
    BY DEF Goto, Become, TypeOK, ProcOK
<1>3. status'[w] = s /\ \A v \in Workers : v # w => status'[v] = status[v]
    BY <1>1 DEF TypeOK, RowsOK
<1>4. NoneAlive
    BY <1>3 DEF NoneAlive, Live, Terminal
<1>5. \A q \in Procs \ {p} : Fits(proc[q])'
    BY <1>2, <1>4, OthersFit
<1>6. Fits(proc[p])'
    BY <1>1, <1>2, <1>3 DEF Fits, Owns, Marked, Closes, Request, Terminal
<1>7. ASSUME NEW t \in Tasks, t # proc[p].t PROVE Holders(t)' \subseteq Holders(t)
    BY <1>1, <1>2, <1>3, <1>7 DEF Holders, Holds, LiveOn, LiveWorkers, Request
<1>8. ASSUME NEW t \in Tasks, t = proc[p].t
      PROVE  w \in Holders(t) /\ Holders(t)' \subseteq (Holders(t) \ {w}) \cup {p}
    <2>1. w \in LiveOn(t)
        BY <1>1, <1>8 DEF LiveOn, LiveWorkers
    <2>2. LiveOn(t)' \subseteq LiveOn(t) \ {w}
        BY <1>3 DEF LiveOn, LiveWorkers, Live, Terminal
    <2>3. w \notin Procs
        BY <1>1, LeaseAssumption
    <2> QED BY <1>2, <2>1, <2>2, <2>3 DEF Holders
<1>9. OneLease'
    <2> SUFFICES ASSUME NEW t \in Tasks, ~disturbed'[t]
                 PROVE  /\ \A a, b \in Holders(t)' : a = b
                        /\ task'[t] = "pending" => Holders(t)' = {}
        BY DEF OneLease
    <2>1. CASE t # proc[p].t
        BY <1>7, <2>1 DEF HolderInv, OneLease
    <2>2. CASE t = proc[p].t
        <3>1. Holders(t) \ {w} = {} /\ task[t] # "pending"
            BY <1>8, <2>2 DEF HolderInv, OneLease
        <3> QED BY <1>8, <2>2, <3>1
    <2> QED BY <2>1, <2>2
<1>10. ASSUME NEW t \in Tasks PROVE Abstract!Move(t)
    <2>1. CASE disturbed'[t]
        BY <2>1, Disturbing
    <2>2. CASE ~disturbed'[t] /\ t # proc[p].t
        BY <1>7, <1>9, <2>2, Shrinking DEF HolderInv
    <2>3. CASE ~disturbed'[t] /\ t = proc[p].t
        <3>1. w \in Holders(t) /\ ~disturbed[t]
            BY <1>8, <2>3
        <3>2. Holders(t) = {w}
            BY <3>1 DEF HolderInv, OneLease
        <3>3. proc'[p].pc = "outcome" /\ proc'[p].t = t
            BY <1>1, <1>2, <2>3 DEF Request
        <3>4. p \in Holders(t)'
            BY <3>3 DEF Holders, Holds
        <3>5. Holders(t)' = {p}
            BY <1>8, <2>3, <3>2, <3>4
        <3>6. LeaseOf(t) = "held" /\ By(t) = {w}
            BY <3>1, <3>2, LeaseIs DEF HolderInv
        <3>7. LeaseOf(t)' = "held" /\ By(t)' = {p}
            BY <1>9, <2>3, <3>5, LeaseIsNext
        <3>8. Abstract!HeldBy(t, w) /\ Abstract!Becomes(t, "held", {p})
            BY <3>6, <3>7, LeaseMoves
        <3>9. Abstract!HandBack(t)
            BY <1>1, <3>8 DEF Abstract!HandBack
        <3> QED BY <3>9 DEF Abstract!Move
    <2> QED BY <2>1, <2>2, <2>3
<1> QED BY <1>5, <1>6, <1>9, <1>10 DEF HolderInv, Kept, Handed

(* A request that goes on to its final UPDATE: its worker is still its own.   *)
LEMMA ToWriteMoves ==
    ASSUME TypeOK, HolderInv, NEW p \in Procs, NoneAlive,
           proc[p].pc \in {"reserve", "reactivate", "outcome", "release"},
           proc[p].seen \in Terminal /\ proc[p].t \in Tasks => disturbed'[proc[p].t],
           NEW pc \in {"write", "release"}, Goto(p, pc)
    PROVE  Moves(p) /\ \A t : ~Holds(proc'[p], t)
<1>1. proc[p] \in Request /\ Sound(proc[p]) /\ Fits(proc[p])
    BY RequestFields DEF TypeOK, HolderInv
<1>2. /\ proc'[p] = [proc[p] EXCEPT !.pc = pc]
      /\ \A q \in Procs \ {p} : proc'[q] = proc[q]
    BY DEF Goto, Become, TypeOK, ProcOK
<1>3. /\ proc'[p].pc = pc /\ proc'[p].w = proc[p].w /\ proc'[p].t = proc[p].t
      /\ proc'[p].seen = proc[p].seen
    BY <1>1, <1>2 DEF Request
<1>4. proc[p].w \in Workers /\ status[proc[p].w] # "none" /\ of[proc[p].w] = proc[p].t
    BY <1>1 DEF Fits, Owns, Sound
<1>5. Fits(proc[p])'
    BY <1>3, <1>4 DEF Fits, Owns, Marked, Closes, NoneAlive
<1>6. \A t : ~Holds(proc'[p], t)
    BY <1>3 DEF Holds
<1> QED BY <1>2, <1>5, <1>6 DEF Moves

LEMMA ReportReadKeepsHolder ==
    ASSUME TypeOK, HolderInv, NEW p \in Procs, ReportRead(p)
    PROVE  Kept
<1> USE DEF aux, rows
<1>0. ProcOK
    BY DEF TypeOK
<1> PICK w \in Workers, out \in Live \cup Terminal :
        LET r == [Idle EXCEPT !.kind = "report", !.w = w, !.t = of[w],
                              !.seen = status[w], !.out = out]
        IN  \/ status[w] \in Live /\ Become(p, [r EXCEPT !.pc = "write"])
            \/ status[w] \in Live /\ Become(p, [r EXCEPT !.pc = "reserve"])
            \/ status[w] \in Terminal /\ Become(p, [r EXCEPT !.pc = "reactivate"])
    BY DEF ReportRead, Begin, Become
<1>1. PICK pc : /\ proc'[p] = [Idle EXCEPT !.kind = "report", !.w = w, !.t = of[w],
                                           !.seen = status[w], !.out = out, !.pc = pc]
                /\ \/ pc \in {"write", "reserve"} /\ status[w] \in Live
                   \/ pc = "reactivate" /\ status[w] \in Terminal
                /\ \A q \in Procs \ {p} : proc'[q] = proc[q]
    BY <1>0 DEF Become, ProcOK
<1>2. /\ proc'[p].pc = pc /\ proc'[p].w = w /\ proc'[p].t = of[w]
      /\ proc'[p].seen = status[w]
    BY <1>1 DEF Idle
<1>3. UNCHANGED <<task, status, of, disturbed>>
    BY DEF ReportRead
<1>4. Fits(proc[p])'
    BY <1>1, <1>2, <1>3 DEF Fits, Owns, Marked, Closes, Live, Terminal
<1>5. Moves(p)
    BY <1>1, <1>2, <1>4 DEF Moves, Holds
<1> QED BY <1>3, <1>5, SameRows, SameMarks, MoveKeeps

LEMMA WriteKeepsHolder ==
    ASSUME TypeOK, HolderInv, NEW p \in Procs, Write(p)
    PROVE  Kept
<1> DEFINE w == proc[p].w
<1>1. ProcOK /\ Sound(proc[p]) /\ Fits(proc[p]) /\ w \in Workers
    BY RequestFields DEF TypeOK, HolderInv, Write, At, Sound
<1>2. UNCHANGED <<task, of, disturbed>>
    BY DEF Write
<1>3. Moves(p)
    <2>1. Stop(p) \/ Goto(p, "seat")
        BY DEF Write
    <2> QED BY <1>1, <2>1, StopMoves, GotoMoves DEF Acting
<1>4. NoneAlive
    <2>1. CASE UNCHANGED status
        BY <1>2, <2>1, SameRows
    <2>2. CASE /\ Unmoved(proc[p], status[w])
               /\ status' = [status EXCEPT ![w] = proc[p].out]
        <3>1. \A v \in Workers \ {w} : status'[v] = status[v]
            BY <2>2 DEF TypeOK, RowsOK
        <3>2. status'[w] = proc[p].out /\ proc[p].out \in Live \cup Terminal
            BY <1>1, <2>2 DEF TypeOK, RowsOK, Write, At, Sound, Live
        <3>3. ASSUME status'[w] \in Live, status[w] \notin Live, of[w] \in Tasks
              PROVE  disturbed[of[w]]
            <4>1. proc[p].seen \in Terminal
                BY <1>1, <2>2, <3>2, <3>3 DEF Write, At, Sound, Unmoved, Live, Terminal
            <4>2. of[w] = proc[p].t
                BY <1>1 DEF Fits, Owns, Write, At
            <4> QED BY <1>1, <3>3, <4>1, <4>2 DEF Fits, Marked, Write, At
        <3>4. status'[w] # "none"
            BY <3>2 DEF Live, Terminal
        <3> QED BY <1>2, <3>1, <3>3, <3>4 DEF NoneAlive
    <2> QED BY <2>1, <2>2 DEF Write
<1> QED BY <1>2, <1>3, <1>4, SameMarks, MoveKeeps

LEMMA ReportKeepsHolder ==
    ASSUME TypeOK, HolderInv, NEW p \in Procs, ReportRead(p) \/ ReportStep(p)
    PROVE  Kept
<1> USE DEF aux, rows, At
<1>0. /\ ProcOK /\ RowsOK /\ AuxOK /\ proc[p] \in Request /\ Sound(proc[p])
    BY RequestFields DEF TypeOK
<1>1. CASE Reactivate(p)
    <2>1. NoneAlive /\ Marks(p)
        BY <1>0, <1>1, SameRows, WriteMarks DEF Reactivate
    <2>2. proc[p].t \in Tasks => disturbed'[proc[p].t]
        BY <1>1 DEF Reactivate, Disturb
    <2>3. Moves(p)
        BY <1>1, <2>1, <2>2, ToWriteMoves DEF Reactivate
    <2> QED BY <2>1, <2>3, MoveKeeps
<1>2. CASE Reserve(p)
    <2>1. CASE status[proc[p].w] = proc[p].seen
        <3>1. proc[p].w \in Workers /\ proc[p].seen \in Live /\ proc[p].out \in Terminal
            BY <1>0, <1>2 DEF Reserve, Sound
        <3>2. /\ status' = [status EXCEPT ![proc[p].w] = proc[p].out]
              /\ UNCHANGED <<task, of, disturbed>>
              /\ Goto(p, "outcome")
            BY <1>2, <2>1 DEF Reserve
        <3> QED BY <1>2, <2>1, <3>1, <3>2, ReservationKeeps DEF Reserve
    <2>2. CASE status[proc[p].w] # proc[p].seen
        BY <1>0, <1>2, <2>2, StopMoves, SameRows, SameMarks, MoveKeeps DEF Reserve
    <2> QED BY <2>1, <2>2
<1>3. CASE Outcome(p)
    <2>1. /\ NoneAlive /\ proc[p].pc = "outcome" /\ proc[p].seen \notin Terminal
          /\ Goto(p, "release") \/ Goto(p, "write")
        BY <1>0, <1>3, SameRows DEF Outcome, Sound, Live, Terminal
    <2>2. Moves(p) /\ \A t : ~Holds(proc'[p], t)
        BY <2>1, ToWriteMoves
    <2>3. Marks(p)
        <3>1. disturbed' = disturbed /\ (UNCHANGED task \/ \E s : SetTask(proc[p].t, s))
            BY <1>3 DEF Outcome
        <3>2. \A t \in Tasks : t = proc[p].t => Holds(proc[p], t)
            BY <2>1 DEF Holds
        <3> QED BY <1>0, <2>2, <3>1, <3>2 DEF Marks, SetTask, RowsOK
    <2> QED BY <2>1, <2>2, <2>3, MoveKeeps
<1>4. CASE Release(p)
    <2>1. NoneAlive /\ proc[p].pc = "release" /\ proc[p].seen \notin Terminal
        BY <1>0, <1>4, SameRows DEF Release, Sound, Live, Terminal
    <2>2. Moves(p)
        BY <1>4, <2>1, ToWriteMoves DEF Release
    <2>3. Marks(p)
        BY <1>0, <1>4, SameMarks, EndMarks DEF Release
    <2> QED BY <2>1, <2>2, <2>3, MoveKeeps
<1>5. CASE Seat(p) \/ LateFail(p)
    <2>1. Moves(p)
        BY <1>0, <1>5, GotoMoves, StopMoves DEF Seat, LateFail, Acting
    <2>2. Marks(p)
        BY <1>0, <1>5, SameMarks, EndMarks DEF Seat, LateFail
    <2> QED BY <1>5, <2>1, <2>2, SameRows, MoveKeeps DEF Seat, LateFail
<1> QED BY <1>1, <1>2, <1>3, <1>4, <1>5, ReportReadKeepsHolder, WriteKeepsHolder DEF ReportStep

LEMMA OverrideKeepsHolder ==
    ASSUME TypeOK, HolderInv, NEW p \in Procs,
           \/ InterruptRead(p) \/ ReassignRead(p) \/ CloseRead(p) \/ OverrideStep(p)
    PROVE  Kept
<1> USE DEF aux, rows, At
<1>0. ProcOK /\ RowsOK /\ proc[p] \in Request /\ Sound(proc[p])
    BY RequestFields DEF TypeOK
<1>1. CASE InterruptRead(p) \/ ReassignRead(p)
    <2>1. ASSUME NEW w, NEW t
          PROVE  /\ [Idle EXCEPT !.kind = "interrupt", !.w = w, !.t = of[w],
                                 !.seen = status[w], !.pc = "interrupt"].pc \notin Acting
                 /\ [Idle EXCEPT !.kind = "reassign", !.t = t, !.seen = task[t],
                                 !.pc = "requeue"].pc \notin Acting
        BY DEF Idle, Acting
    <2>2. Moves(p)
        BY <1>0, <1>1, <2>1, BecomeMoves DEF InterruptRead, ReassignRead, Begin, Become
    <2> QED BY <1>1, <2>2, SameRows, SameMarks, MoveKeeps DEF InterruptRead, ReassignRead
<1>2. CASE CloseRead(p)
    <2> PICK t \in Tasks, s \in {"completed", "failed"} :
            Become(p, [Idle EXCEPT !.kind = "edit", !.t = t, !.out = s, !.pc = "close"])
        BY <1>2 DEF CloseRead, Begin, Become
    <2>1. /\ proc'[p] = [Idle EXCEPT !.kind = "edit", !.t = t, !.out = s, !.pc = "close"]
          /\ \A q \in Procs \ {p} : proc'[q] = proc[q]
        BY <1>0 DEF Become, ProcOK
    <2>2. proc'[p].pc = "close" /\ proc'[p].out = s
        BY <2>1 DEF Idle
    <2>3. Moves(p)
        BY <2>1, <2>2 DEF Moves, Fits, Owns, Marked, Closes, Holds
    <2> QED BY <1>2, <2>3, SameRows, SameMarks, MoveKeeps DEF CloseRead
<1>3. CASE Interrupt(p)
    <2>1. Moves(p)
        BY <1>0, <1>3, GotoMoves, StopMoves DEF Interrupt, Acting
    <2>2. NoneAlive
        BY <1>0, <1>3, EndingRows DEF Interrupt, RowsOK, Terminal
    <2> QED BY <1>3, <2>1, <2>2, SameMarks, MoveKeeps DEF Interrupt
<1>4. CASE Takeover(p) \/ Close(p)
    <2>1. CASE Takeover(p)
        BY <1>0, <2>1, StopMoves, SameRows, EndMarks, MoveKeeps DEF Takeover
    <2>2. CASE Close(p)
        <3>1. proc[p].out # "pending"
            BY <2>2 DEF HolderInv, Fits, Closes, Close
        <3> QED BY <1>0, <2>2, <3>1, StopMoves, SameRows, EndMarks, MoveKeeps DEF Close
    <2> QED BY <1>4, <2>1, <2>2
<1>5. CASE Requeue(p)
    <2>1. Moves(p)
        BY <1>0, <1>5, GotoMoves, StopMoves DEF Requeue, Acting
    <2> QED BY <1>0, <1>5, <2>1, SameRows, WriteMarks, MoveKeeps DEF Requeue
<1>6. CASE Evict(p)
    <2>1. NoneAlive
        BY <1>6, EndingRows DEF Evict, Terminal
    <2> QED BY <1>0, <1>6, <2>1, StopMoves, SameMarks, MoveKeeps DEF Evict
<1> QED BY <1>1, <1>2, <1>3, <1>4, <1>5, <1>6 DEF OverrideStep

----------------------------------------------------------------------------
LEMMA CleanupArrivalKeepsHolder ==
    ASSUME TypeOK, HolderInv, NEW p \in Procs,
           \/ SweepBegin(p) \/ StalledRead(p) \/ OfflineRead(p)
           \/ OrphansRead(p) \/ StuckRead(p)
    PROVE  Kept
<1> USE DEF aux, rows
<1>1. ASSUME NEW k, NEW ws, NEW ts
      PROVE  /\ [Idle EXCEPT !.kind = "sweep", !.pc = "sweep"].pc \notin Acting
             /\ [Idle EXCEPT !.kind = k, !.ws = ws, !.pc = "expire"].pc \notin Acting
             /\ [Idle EXCEPT !.kind = "orphans", !.ts = ts, !.pc = "orphan"].pc \notin Acting
             /\ [Idle EXCEPT !.kind = "waiting", !.ws = ws, !.left = ws,
                             !.pc = "stuck"].pc \notin Acting
    BY DEF Idle, Acting
<1>2. PICK k, ws, ts :
        \/ Become(p, [Idle EXCEPT !.kind = "sweep", !.pc = "sweep"])
        \/ Become(p, [Idle EXCEPT !.kind = k, !.ws = ws, !.pc = "expire"])
        \/ Become(p, [Idle EXCEPT !.kind = "orphans", !.ts = ts, !.pc = "orphan"])
        \/ Become(p, [Idle EXCEPT !.kind = "waiting", !.ws = ws, !.left = ws, !.pc = "stuck"])
    BY DEF SweepBegin, StalledRead, OfflineRead, OrphansRead, StuckRead, Begin, Become
<1>3. Moves(p)
    BY <1>1, <1>2, BecomeMoves DEF TypeOK
<1> QED BY <1>3, SameRows, SameMarks, MoveKeeps
        DEF SweepBegin, StalledRead, OfflineRead, OrphansRead, StuckRead

LEMMA CleanupKeepsHolder ==
    ASSUME TypeOK, HolderInv, NEW p \in Procs, CleanupStep(p)
    PROVE  Kept
<1> USE DEF aux, rows
<1>0. ProcOK /\ RowsOK /\ AuxOK /\ proc[p] \in Request
    BY RequestFields DEF TypeOK
<1>a. /\ AfterPass(proc[p]).pc \notin Acting
      /\ \A t : \A pc \in {"others", "reset", "orphan"} :
            /\ Without(proc[p], t, pc, AfterPass(proc[p])).pc \notin Acting
            /\ Without(proc[p], t, pc, Idle).pc \notin Acting
    BY <1>0, AfterPassNotActing, WithoutNotActing, IdleNotActing DEF Acting
<1>1. CASE SweepRead(p)
    <2> PICK ws : Become(p, IF ws = {} THEN AfterPass(proc[p])
                            ELSE [proc[p] EXCEPT !.ws = ws, !.pc = "expire"])
        BY <1>1 DEF SweepRead
    <2>1. [proc[p] EXCEPT !.ws = ws, !.pc = "expire"].pc \notin Acting
        BY <1>0 DEF Request, Acting
    <2>2. Moves(p)
        BY <1>0, <1>a, <2>1, BecomeMoves
    <2> QED BY <1>1, <2>2, SameRows, SameMarks, MoveKeeps DEF SweepRead
<1>2. CASE Expire(p)
    <2>1. NoneAlive
        BY <1>2, EndingRows DEF Expire, ExpireRows, Terminal
    <2>2. \A pc \in {"seats", "filter", "reset", "reset_all"} : \A ts :
            /\ [proc[p] EXCEPT !.pc = pc].pc \notin Acting
            /\ [proc[p] EXCEPT !.ts = ts, !.ws = {}, !.pc = pc].pc \notin Acting
        BY <1>0 DEF Request, Acting
    <2>3. Moves(p)
        BY <1>0, <1>2, <2>2, BecomeMoves DEF Expire
    <2> QED BY <1>2, <2>1, <2>3, SameMarks, MoveKeeps DEF Expire
<1>3. CASE SweepSeats(p) \/ SweepOthers(p) \/ ResolveRead(p) \/ StuckSeats(p)
    <2>1. ASSUME NEW t, NEW ts
          PROVE  /\ [proc[p] EXCEPT !.ts = ts, !.pc = "others"].pc \notin Acting
                 /\ [proc[p] EXCEPT !.t = t, !.pc = "resolve"].pc \notin Acting
        BY <1>0 DEF Request, Acting
    <2>2. Moves(p)
        BY <1>0, <1>3, <1>a, <2>1, BecomeMoves, GotoMoves, StopMoves
           DEF SweepSeats, SweepOthers, ResolveRead, StuckSeats, Acting
    <2> QED BY <1>3, <2>2, SameRows, SameMarks, MoveKeeps
            DEF SweepSeats, SweepOthers, ResolveRead, StuckSeats
<1>4. CASE Settle(p) \/ Reset(p) \/ Adopt(p)
    <2>1. PICK t : /\ Disturb({t}) /\ (UNCHANGED task \/ \E s : SetTask(t, s))
                   /\ \/ Become(p, Without(proc[p], t, "others", AfterPass(proc[p])))
                      \/ Become(p, Without(proc[p], t, "reset", Idle))
                      \/ Become(p, Without(proc[p], t, "orphan", Idle))
        BY <1>4 DEF Settle, Reset, Adopt
    <2>2. Moves(p) /\ Marks(p)
        BY <1>0, <1>a, <2>1, BecomeMoves, WriteMarks
    <2> QED BY <1>4, <2>2, SameRows, MoveKeeps DEF Settle, Reset, Adopt
<1>5. CASE StuckWorker(p)
    <2> PICK w \in proc[p].left :
            /\ status' = [status EXCEPT ![w] = "failed"]
            /\ Become(p, [proc[p] EXCEPT !.t = of[w], !.left = @ \ {w}, !.pc = "stuck_task"])
        BY <1>5 DEF StuckWorker
    <2>1. [proc[p] EXCEPT !.t = of[w], !.left = @ \ {w}, !.pc = "stuck_task"].pc \notin Acting
        BY <1>0 DEF Request, Acting
    <2>2. NoneAlive
        BY <1>0, <1>5, EndingRows DEF StuckWorker, RowsOK, Terminal
    <2> QED BY <1>0, <1>5, <2>1, <2>2, BecomeMoves, SameMarks, MoveKeeps DEF StuckWorker
<1>6. CASE StuckTask(p)
    <2>1. Moves(p)
        BY <1>0, <1>6, GotoMoves DEF StuckTask, Acting
    <2> QED BY <1>0, <1>6, <2>1, SameRows, EndMarks, MoveKeeps DEF StuckTask
<1>7. CASE StalledFilter(p)
    <2> PICK ts : Stop(p) \/ Become(p, [proc[p] EXCEPT !.ts = ts, !.ws = {}, !.pc = "reset"])
        BY <1>7 DEF StalledFilter
    <2>1. [proc[p] EXCEPT !.ts = ts, !.ws = {}, !.pc = "reset"].pc \notin Acting
        BY <1>0 DEF Request, Acting
    <2> QED BY <1>0, <1>7, <2>1, BecomeMoves, StopMoves, SameRows, SameMarks, MoveKeeps
            DEF StalledFilter
<1>8. CASE ResetAll(p)
    <2>1. Marks(p)
        BY <1>8 DEF ResetAll, Marks, Disturb
    <2> QED BY <1>0, <1>8, <2>1, StopMoves, SameRows, MoveKeeps DEF ResetAll
<1>9. CASE OrphanRead(p)
    <2> PICK t, s : \/ Become(p, Without(proc[p], t, "orphan", Idle))
                    \/ Become(p, [proc[p] EXCEPT !.t = t, !.out = s, !.pc = "adopt"])
        BY <1>9 DEF OrphanRead
    <2>1. [proc[p] EXCEPT !.t = t, !.out = s, !.pc = "adopt"].pc \notin Acting
        BY <1>0 DEF Request, Acting
    <2>2. Moves(p)
        BY <1>0, <1>a, <2>1, BecomeMoves
    <2> QED BY <1>9, <2>2, SameRows, SameMarks, MoveKeeps DEF OrphanRead
<1> QED BY <1>1, <1>2, <1>3, <1>4, <1>5, <1>6, <1>7, <1>8, <1>9 DEF CleanupStep

----------------------------------------------------------------------------
(* Nobody's request moves.                                                    *)
LEMMA RowsKeep ==
    ASSUME TypeOK, HolderInv, proc' = proc, NoneAlive, \A p \in Procs : Marks(p)
    PROVE  Kept
<1> PICK p \in Procs : TRUE
    BY LeaseAssumption
<1>1. Fits(proc[p])'
    BY OthersFit DEF Marks
<1> QED BY <1>1, MoveKeeps DEF Moves

LEMMA InitHolder == Init => HolderInv
BY DEF Init, HolderInv, OneLease, Holders, Holds, LiveOn, LiveWorkers, Live, Idle,
       Fits, Owns, Marked, Closes

LEMMA NextHolder == TypeOK /\ HolderInv /\ [Next]_vars => Kept
<1> SUFFICES ASSUME TypeOK, HolderInv, [Next]_vars PROVE Kept
    OBVIOUS
<1> USE DEF aux, rows
<1>0. ProcOK /\ RowsOK /\ AuxOK
    BY DEF TypeOK
<1>1. ASSUME NEW p \in Procs, Arrive(p) \/ Step(p)
      PROVE  Kept
    BY <1>1, ClaimKeepsHolder, ReportKeepsHolder, OverrideKeepsHolder,
       CleanupArrivalKeepsHolder, CleanupKeepsHolder DEF Arrive, Step
<1>2. ASSUME NEW p \in Procs, Crash(p)
      PROVE  Kept
    BY <1>0, <1>2, StopMoves, SameRows, SameMarks, MoveKeeps DEF Crash
<1>3. ASSUME NEW t \in Tasks, Cancel(t) \/ Reopen(t)
      PROVE  Kept
    <2>1. \A p \in Procs : Marks(p)
        BY <1>0, <1>3, EndMarks, WriteMarks DEF Cancel, Reopen
    <2> QED BY <1>3, <2>1, SameRows, RowsKeep DEF Cancel, Reopen
<1>4. ASSUME NEW w \in Workers, Recover(w)
      PROVE  Kept
    <2>1. /\ status' = [status EXCEPT ![w] = "running"] /\ Disturb({of[w]})
          /\ UNCHANGED <<task, of, proc>>
        BY <1>4 DEF Recover
    <2>2. NoneAlive
        BY <1>0, <2>1 DEF NoneAlive, Disturb, RowsOK
    <2>3. \A p \in Procs : Marks(p)
        BY <1>0, <2>1, WriteMarks
    <2> QED BY <2>1, <2>2, <2>3, RowsKeep
<1>5. ASSUME NEW w \in Workers, Age(w)
      PROVE  Kept
    BY <1>5, SameRows, SameMarks, RowsKeep DEF Age
<1>6. CASE UNCHANGED vars
    BY <1>6, SameRows, SameMarks, RowsKeep DEF vars
<1> QED BY <1>1, <1>2, <1>3, <1>4, <1>5, <1>6 DEF Next

(* A task that no expiry, override or reopening has touched since it was      *)
(* claimed has at most one holder, and none while it is pending: two claims,  *)
(* or a claim and a late report, never both act for it.                       *)
THEOREM HeldByOne == Spec => []OneLease
<1>1. TypeOK /\ HolderInv /\ [Next]_vars => (TypeOK /\ HolderInv)'
    BY NextTypeOK, NextHolder DEF Kept
<1>2. HolderInv => OneLease
    BY DEF HolderInv
<1> QED BY InitTypeOK, InitHolder, <1>1, <1>2, PTL DEF Spec

(* TaskLease implements Lease, for any tasks, workers, requests and limits:   *)
(* what happens to an undisturbed task is that it is taken while pending,     *)
(* handed to a worker, handed back and settled, by one request or worker at   *)
(* a time, and nothing takes or opens it again once it is closed.             *)
THEOREM LeaseKept == Spec => KeepsLease
<1>1. Init => Abstract!Init
    BY DEF Init, Abstract!Init, LeaseOf, Holders, Holds, LiveOn, LiveWorkers, Live, Idle
<1>2. TypeOK /\ HolderInv /\ [Next]_vars => [Abstract!Next]_(Abstract!vars)
    BY NextHolder DEF Kept, Handed, Abstract!Next
<1>3. TypeOK /\ HolderInv /\ [Next]_vars => (TypeOK /\ HolderInv)'
    BY NextTypeOK, NextHolder DEF Kept
<1> QED BY InitTypeOK, InitHolder, <1>1, <1>2, <1>3, PTL DEF Spec, KeepsLease, Abstract!Spec
------------------------------------------------------------------------------
(* Seats go back: proof of SeatsReturned for the requests that release them.  *)
(*                                                                            *)
(* A seat is owed for a worker the runner knows of while it is live, or while *)
(* the request that ended it is still to release the seat.  A final report    *)
(* releases it only if its worker's status is still the reported one.         *)
Returning == {"claim", "report", "edit", "recover", "sweep", "orphans", "waiting"}

Sticking == {"stuck", "stuck_task", "stuck_seats"}

Releases(r, s, w) ==
    \/ r.pc \in {"outcome", "release", "write"} /\ r.out \in Terminal /\ r.w = w /\ s = r.out
    \/ r.pc = "seat" /\ r.w = w
    \/ r.pc = "seats" /\ w \in r.ws
    \/ r.pc \in Sticking /\ w \in r.ws /\ w \notin r.left

Owing == {w \in Workers : known[w] /\ (\/ status[w] \in Live
                                       \/ \E p \in Procs : Releases(proc[p], status[w], w))}

Books == seats <= Cardinality(Owing)

(* A claim brings the workers it has inserted until it counts their seats.    *)
Brings(r, w) ==
    r.pc \in {"claim", "insert", "insert_row", "rollback", "sessions"} /\ w \in r.ws

Delivery ==
    \A p \in Procs, w \in Workers : Brings(proc[p], w) =>
        /\ ~known[w] /\ status[w] \in Live
        /\ \A q \in Procs \ {p} : ~Brings(proc[q], w)

Unheard ==
    \A w \in Workers : ~known[w] =>
        ~quiet[w] /\ (status[w] = "none" \/ \E p \in Procs : Brings(proc[p], w))

Heard == \A w \in Workers : known[w] => status[w] # "none"

(* What a request ends or releases is a worker its runner knows of.           *)
Ledger(r) ==
    /\ r.pc \notin {"interrupt", "takeover", "requeue", "evict", "filter", "reset", "reset_all"}
    /\ r.pc \in {"sweep", "expire", "seats", "others", "resolve", "settle"} =>
          r.kind \in {"claim", "sweep"}
    /\ r.pc \in {"count", "select"} => r.ws = {}
    /\ r.pc \in {"expire", "seats", "stuck", "stuck_task", "stuck_seats"} =>
          \A w \in r.ws : known[w]
    /\ r.pc \in Sticking => r.left \subseteq r.ws
    /\ r.pc = "stuck_seats" => r.left = {}
    /\ r.pc \in {"reactivate", "reserve", "outcome", "release", "write", "seat"} =>
          r.w \in Workers /\ known[r.w]

SeatInv == Books /\ Delivery /\ Unheard /\ Heard /\ \A p \in Procs : Ledger(proc[p])

(* Request p becomes r; the workers of ws, whose seats it releases, need not  *)
(* be owed a seat any more.                                                   *)
Settles(p, r, ws) ==
    /\ Become(p, r) /\ Ledger(r) /\ UNCHANGED known
    /\ \A w \in Workers : Brings(r, w) <=> Brings(proc[p], w)
    /\ \A w \in Workers : ~known[w] => status'[w] = status[w] /\ ~quiet'[w]
    /\ \A w \in Workers : status'[w] = "none" => status[w] = "none"
    /\ \A w \in Workers \ ws : known[w] =>
          \/ status'[w] = status[w]
             /\ (Releases(proc[p], status[w], w) => Releases(r, status[w], w))
          \/ status'[w] \in Live
          \/ Releases(r, status'[w], w)
    /\ seats' = Released(Cardinality(ws))

LEMMA OwingIsFinite ==
    /\ Owing \in SUBSET Workers /\ IsFiniteSet(Owing) /\ Cardinality(Owing) \in Nat
    /\ Owing' \in SUBSET Workers /\ IsFiniteSet(Owing') /\ Cardinality(Owing') \in Nat
<1>1. Owing \in SUBSET Workers /\ Owing' \in SUBSET Workers
    BY DEF Owing
<1> QED BY <1>1, LeaseAssumption, FS_Subset, FS_CardinalityType

LEMMA BooksKept ==
    ASSUME Books, seats \in Nat, NEW ws \in SUBSET Workers, Owing \ ws \subseteq Owing',
           seats' = Released(Cardinality(ws))
    PROVE  Books'
<1>1. IsFiniteSet(ws) /\ Cardinality(ws) \in Nat
    BY LeaseAssumption, FS_Subset, FS_CardinalityType
<1>2. Owing \subseteq Owing' \cup ws
    OBVIOUS
<1>3. /\ IsFiniteSet(Owing' \cup ws)
      /\ Cardinality(Owing' \cup ws) <= Cardinality(Owing') + Cardinality(ws)
      /\ Cardinality(Owing' \cup ws) \in Nat
    <2>1. IsFiniteSet(Owing' \cup ws)
        BY <1>1, OwingIsFinite, FS_Union
    <2>2. Cardinality(Owing' \cup ws)
             = Cardinality(Owing') + Cardinality(ws) - Cardinality(Owing' \cap ws)
        BY <1>1, OwingIsFinite, FS_Union
    <2>3. Cardinality(Owing' \cap ws) \in Nat
        BY <1>1, FS_Subset, FS_CardinalityType
    <2>4. Cardinality(Owing' \cup ws) \in Nat
        BY <2>1, FS_CardinalityType
    <2> QED BY <1>1, <2>1, <2>2, <2>3, <2>4, OwingIsFinite
<1>4. Cardinality(Owing) <= Cardinality(Owing' \cup ws)
    BY <1>2, <1>3, FS_Subset
<1>5. Cardinality(Owing) <= Cardinality(Owing') + Cardinality(ws)
    BY <1>1, <1>3, <1>4, OwingIsFinite
<1>6. seats' <= Cardinality(Owing')
    BY <1>1, <1>5, OwingIsFinite DEF Books, Released
<1> QED BY <1>6 DEF Books

LEMMA SettlesKeeps ==
    ASSUME TypeOK, SeatInv, NEW p \in Procs, NEW r, NEW ws \in SUBSET Workers, Settles(p, r, ws)
    PROVE  SeatInv'
<1>0. seats \in Nat /\ ProcOK
    BY DEF TypeOK, RowsOK
<1>1. /\ proc'[p] = r /\ \A q \in Procs \ {p} : proc'[q] = proc[q]
      /\ known' = known
    BY <1>0 DEF Settles, Become, ProcOK
<1>2. Owing \ ws \subseteq Owing'
    <2> SUFFICES ASSUME NEW w \in Workers, w \notin ws, known[w],
                        status[w] \in Live \/ \E q \in Procs : Releases(proc[q], status[w], w)
                 PROVE  status'[w] \in Live \/ \E q \in Procs : Releases(proc'[q], status'[w], w)
        BY <1>1 DEF Owing
    <2>1. CASE status'[w] = status[w]
               /\ (Releases(proc[p], status[w], w) => Releases(r, status[w], w))
        BY <1>1, <2>1
    <2>2. CASE status'[w] \in Live
        BY <2>2
    <2>3. CASE Releases(r, status'[w], w)
        BY <1>1, <2>3
    <2> QED BY <2>1, <2>2, <2>3 DEF Settles
<1>3. Books'
    BY <1>0, <1>2, BooksKept DEF SeatInv, Settles
<1>4. \A q \in Procs, w \in Workers : Brings(proc'[q], w) <=> Brings(proc[q], w)
    BY <1>1 DEF Settles
<1>5. \A w \in Workers : ~known[w] => status'[w] = status[w] /\ ~quiet'[w]
    BY DEF Settles
<1>6. Delivery'
    BY <1>1, <1>4, <1>5 DEF SeatInv, Delivery
<1>7. Unheard'
    BY <1>1, <1>4, <1>5 DEF SeatInv, Unheard
<1>8. \A q \in Procs : Ledger(proc[q])'
    BY <1>1 DEF SeatInv, Settles, Ledger
<1>9. Heard'
    BY <1>1 DEF SeatInv, Settles, Heard
<1> QED BY <1>3, <1>6, <1>7, <1>8, <1>9 DEF SeatInv

LEMMA NothingReleased ==
    ASSUME seats \in Nat
    PROVE  Released(Cardinality({})) = seats
<1>1. Cardinality({}) = 0
    BY FS_EmptySet
<1> QED BY <1>1 DEF Released

(* The statements at which a request neither brings a worker nor owes a seat. *)
Inert == {"idle", "sweep", "expire", "others", "resolve", "settle", "count", "select",
          "reactivate", "reserve", "late", "close", "orphan", "adopt"}

LEMMA InertKeeps ==
    ASSUME TypeOK, SeatInv, NEW p \in Procs, NEW r, proc[p].pc \in Inert,
           Become(p, r), Ledger(r), r.pc \in {"claim"} => r.ws = {},
           r.pc \notin {"insert", "insert_row", "rollback", "sessions"},
           UNCHANGED <<status, known, quiet, seats>>
    PROVE  SeatInv'
<1>1. seats' = Released(Cardinality({}))
    BY NothingReleased DEF TypeOK, RowsOK
<1>2. \A w \in Workers : ~Brings(proc[p], w) /\ ~Brings(r, w)
    BY DEF Brings, Inert
<1>3. \A w \in Workers : ~Releases(proc[p], status[w], w)
    BY DEF Releases, Inert, Sticking
<1>4. \A w \in Workers : ~known[w] => ~quiet'[w]
    BY DEF SeatInv, Unheard
<1>5. Settles(p, r, {})
    BY <1>1, <1>2, <1>3, <1>4 DEF Settles
<1> QED BY <1>5, SettlesKeeps

LEMMA IdleIsInert == Ledger(Idle) /\ Idle.pc = "idle"
BY DEF Ledger, Idle, Sticking

LEMMA StopIsInert ==
    ASSUME TypeOK, SeatInv, NEW p \in Procs, proc[p].pc \in Inert, Stop(p),
           UNCHANGED <<status, known, quiet, seats>>
    PROVE  SeatInv'
BY IdleIsInert, InertKeeps DEF Stop

(* A request goes on to an inert statement and keeps its record.              *)
LEMMA GotoIsInert ==
    ASSUME TypeOK, SeatInv, NEW p \in Procs, proc[p].pc \in Inert,
           NEW pc \in {"settle", "select"}, Goto(p, pc),
           pc = "settle" => proc[p].pc = "resolve", pc = "select" => proc[p].pc = "count",
           UNCHANGED <<status, known, quiet, seats>>
    PROVE  SeatInv'
<1> DEFINE r == [proc[p] EXCEPT !.pc = pc]
<1>1. proc[p] \in Request /\ Ledger(proc[p])
    BY RequestFields DEF TypeOK, SeatInv
<1>2. r.pc = pc /\ r.kind = proc[p].kind /\ r.ws = proc[p].ws
    BY <1>1 DEF Request
<1>3. Become(p, r)
    BY DEF Goto
<1> HIDE DEF r
<1>4. Ledger(r)
    BY <1>1, <1>2 DEF Ledger, Sticking
<1> QED BY <1>2, <1>3, <1>4, InertKeeps

LEMMA WithoutIsInert ==
    ASSUME NEW r \in Request, Ledger(r), NEW t, NEW pc \in {"others", "orphan"},
           NEW done, Ledger(done), done.pc \in {"idle", "sweep", "count"},
           pc = "others" => r.kind \in {"claim", "sweep"}
    PROVE  /\ Ledger(Without(r, t, pc, done))
           /\ Without(r, t, pc, done).pc \in {"idle", "sweep", "count", "others", "orphan"}
<1> DEFINE next == [r EXCEPT !.ts = @ \ {t}, !.t = NoTask, !.out = "none", !.pc = pc]
<1>1. next.pc = pc /\ next.kind = r.kind
    BY DEF Request
<1>2. Without(r, t, pc, done) \in {done, next}
    BY DEF Without
<1> HIDE DEF next
<1>3. Ledger(next)
    BY <1>1 DEF Ledger, Sticking
<1> QED BY <1>1, <1>2, <1>3

LEMMA AfterPassIsInert ==
    ASSUME NEW r \in Request, r.kind \in {"claim", "sweep"}
    PROVE  Ledger(AfterPass(r)) /\ AfterPass(r).pc \in {"idle", "sweep", "count"}
<1> DEFINE second == [Idle EXCEPT !.kind = r.kind, !.pc = "sweep", !.pass = 2]
           count == [Idle EXCEPT !.kind = "claim", !.pc = "count"]
<1>1. second.pc = "sweep" /\ second.kind = r.kind
    BY DEF Idle
<1>2. count.pc = "count" /\ count.ws = {}
    BY DEF Idle
<1>3. AfterPass(r) \in {second, count, Idle}
    BY DEF AfterPass
<1> HIDE DEF second, count
<1>4. Ledger(second)
    BY <1>1 DEF Ledger, Sticking
<1>5. Ledger(count)
    BY <1>2 DEF Ledger, Sticking
<1> QED BY <1>1, <1>2, <1>3, <1>4, <1>5, IdleIsInert

(* Arrivals.  The workers a clean-up finds silent are known.                  *)
LEMMA SilentIsKnown ==
    ASSUME SeatInv, NEW w \in Workers, quiet[w]
    PROVE  known[w]
BY DEF SeatInv, Unheard

LEMMA ArriveIsInert ==
    ASSUME NEW p \in Procs, Arrive(p)
    PROVE  UNCHANGED <<status, known, quiet, seats>> /\ proc[p].pc = "idle"
<1>1. UNCHANGED <<status, known, quiet, seats>>
    <2>1. UNCHANGED rows
        BY Zenon DEF Arrive, ClaimBegin, ReportRead, InterruptRead, ReassignRead, CloseRead,
                     SweepBegin, StalledRead, OfflineRead, OrphansRead, StuckRead
    <2> QED BY <2>1 DEF rows
<1>2. \A r : Begin(p, r) => proc[p].pc = "idle"
    BY DEF Begin, At
<1>3. (ClaimBegin(p) \/ SweepBegin(p)) => proc[p].pc = "idle"
    BY <1>2, Zenon DEF ClaimBegin, SweepBegin
<1>4. (InterruptRead(p) \/ ReassignRead(p) \/ CloseRead(p)) => proc[p].pc = "idle"
    BY <1>2, Zenon DEF InterruptRead, ReassignRead, CloseRead
<1>5. (StalledRead(p) \/ OfflineRead(p)) => proc[p].pc = "idle"
    BY <1>2, Zenon DEF StalledRead, OfflineRead
<1>6. (OrphansRead(p) \/ StuckRead(p)) => proc[p].pc = "idle"
    BY <1>2, Zenon DEF OrphansRead, StuckRead
<1>7. ReportRead(p) => proc[p].pc = "idle"
    BY <1>2, Zenon DEF ReportRead
<1> QED BY <1>1, <1>3, <1>4, <1>5, <1>6, <1>7 DEF Arrive

LEMMA KindsThatReturn ==
    ASSUME Requests \subseteq Returning, NEW p \in Procs
    PROVE  ~(InterruptRead(p) \/ ReassignRead(p) \/ StalledRead(p) \/ OfflineRead(p))
<1>1. \A r : Begin(p, r) => r.kind \in Returning
    BY DEF Begin
<1>2. ~InterruptRead(p)
    <2>1. \A w : [Idle EXCEPT !.kind = "interrupt", !.w = w, !.t = of[w],
                              !.seen = status[w], !.pc = "interrupt"].kind = "interrupt"
        BY DEF Idle
    <2>2. \A w : ~Begin(p, [Idle EXCEPT !.kind = "interrupt", !.w = w, !.t = of[w],
                                        !.seen = status[w], !.pc = "interrupt"])
        BY <1>1, <2>1 DEF Returning
    <2> QED BY <2>2, Zenon DEF InterruptRead
<1>3. ~ReassignRead(p)
    <2>1. \A t : [Idle EXCEPT !.kind = "reassign", !.t = t, !.seen = task[t],
                              !.pc = "requeue"].kind = "reassign"
        BY DEF Idle
    <2>2. \A t : ~Begin(p, [Idle EXCEPT !.kind = "reassign", !.t = t, !.seen = task[t],
                                        !.pc = "requeue"])
        BY <1>1, <2>1 DEF Returning
    <2> QED BY <2>2, Zenon DEF ReassignRead
<1>4. ~StalledRead(p)
    <2>1. \A ws : [Idle EXCEPT !.kind = "stalled", !.ws = ws, !.pc = "expire"].kind = "stalled"
        BY DEF Idle
    <2>2. \A ws : ~Begin(p, [Idle EXCEPT !.kind = "stalled", !.ws = ws, !.pc = "expire"])
        BY <1>1, <2>1 DEF Returning
    <2> QED BY <2>2, Zenon DEF StalledRead
<1>5. ~OfflineRead(p)
    <2>1. \A k : [Idle EXCEPT !.kind = k, !.ws = LiveWorkers, !.pc = "expire"].kind = k
        BY DEF Idle
    <2>2. \A k \in {"offline", "cron"} :
             ~Begin(p, [Idle EXCEPT !.kind = k, !.ws = LiveWorkers, !.pc = "expire"])
        BY <1>1, <2>1 DEF Returning
    <2> QED BY <2>2, Zenon DEF OfflineRead
<1> QED BY <1>2, <1>3, <1>4, <1>5

LEMMA ReportReadKeepsSeats ==
    ASSUME TypeOK, SeatInv, NEW p \in Procs, ReportRead(p), proc[p].pc \in Inert,
           UNCHANGED <<status, known, quiet, seats>>
    PROVE  SeatInv'
<1> PICK w \in Workers, out \in Live \cup Terminal :
        LET r == [Idle EXCEPT !.kind = "report", !.w = w, !.t = of[w],
                              !.seen = status[w], !.out = out]
        IN  /\ known[w]
            /\ \/ Become(p, [r EXCEPT !.pc = "write"])
               \/ Become(p, [r EXCEPT !.pc = "reserve"])
               \/ Become(p, [r EXCEPT !.pc = "reactivate"])
    BY Zenon DEF ReportRead, Begin, Become, At
<1> DEFINE r == [Idle EXCEPT !.kind = "report", !.w = w, !.t = of[w],
                             !.seen = status[w], !.out = out]
<1>s. {"write", "reserve", "reactivate"} \subseteq Statements
    BY DEF Statements
<1>1. /\ of[w] \in Tasks \cup {NoTask} /\ "report" \in Kinds
      /\ status[w] \in Statuses \cup TaskStatus /\ out \in Statuses \cup TaskStatus
    BY DEF TypeOK, RowsOK, Statuses, Kinds
<1>2. r \in Request /\ r.w = w
    BY <1>1, IdleIsSound DEF Request
<1>3. known[w]
    OBVIOUS
<1>4. \/ Become(p, [r EXCEPT !.pc = "write"])
      \/ Become(p, [r EXCEPT !.pc = "reserve"])
      \/ Become(p, [r EXCEPT !.pc = "reactivate"])
    OBVIOUS
<1> HIDE DEF r
<1>5. PICK pc \in {"write", "reserve", "reactivate"} : Become(p, [r EXCEPT !.pc = pc])
    BY <1>4
<1> DEFINE next == [r EXCEPT !.pc = pc]
<1>6. next.pc = pc /\ next.w = w /\ Become(p, next)
    BY <1>2, <1>5 DEF Request
<1> HIDE DEF next
<1>7. Ledger(next)
    BY <1>3, <1>6 DEF Ledger, Sticking
<1> QED BY <1>6, <1>7, InertKeeps

LEMMA ArriveKeepsSeats ==
    ASSUME Requests \subseteq Returning, TypeOK, SeatInv, NEW p \in Procs, Arrive(p)
    PROVE  SeatInv'
<1>0. UNCHANGED <<status, known, quiet, seats>> /\ proc[p].pc \in Inert
    BY ArriveIsInert DEF Inert
<1>1. CASE ClaimBegin(p)
    <2> DEFINE r == [Idle EXCEPT !.kind = "claim", !.pc = "sweep"]
    <2>1. Become(p, r) /\ r.kind = "claim" /\ r.pc = "sweep"
        BY <1>1 DEF ClaimBegin, Begin, Become, Idle
    <2> HIDE DEF r
    <2>2. Ledger(r)
        BY <2>1 DEF Ledger, Sticking
    <2> QED BY <1>0, <2>1, <2>2, InertKeeps
<1>2. CASE SweepBegin(p)
    <2> DEFINE r == [Idle EXCEPT !.kind = "sweep", !.pc = "sweep"]
    <2>1. Become(p, r) /\ r.kind = "sweep" /\ r.pc = "sweep"
        BY <1>2 DEF SweepBegin, Begin, Become, Idle
    <2> HIDE DEF r
    <2>2. Ledger(r)
        BY <2>1 DEF Ledger, Sticking
    <2> QED BY <1>0, <2>1, <2>2, InertKeeps
<1>3. CASE ReportRead(p)
    BY <1>0, <1>3, ReportReadKeepsSeats
<1>4. CASE CloseRead(p)
    <2> PICK t \in Tasks, s \in {"completed", "failed"} :
            Become(p, [Idle EXCEPT !.kind = "edit", !.t = t, !.out = s, !.pc = "close"])
        BY <1>4, Zenon DEF CloseRead, Begin, Become, At
    <2> DEFINE r == [Idle EXCEPT !.kind = "edit", !.t = t, !.out = s, !.pc = "close"]
    <2>1. Become(p, r)
        OBVIOUS
    <2>2. r.pc = "close"
        BY DEF Idle
    <2> HIDE DEF r
    <2>3. Ledger(r)
        BY <2>2 DEF Ledger, Sticking
    <2> QED BY <1>0, <2>1, <2>2, <2>3, InertKeeps
<1>5. CASE OrphansRead(p)
    <2> PICK ts \in SUBSET Tasks :
            Become(p, [Idle EXCEPT !.kind = "orphans", !.ts = ts, !.pc = "orphan"])
        BY <1>5, Zenon DEF OrphansRead, Begin, Become, At
    <2> DEFINE r == [Idle EXCEPT !.kind = "orphans", !.ts = ts, !.pc = "orphan"]
    <2>1. Become(p, r)
        OBVIOUS
    <2>2. r.pc = "orphan"
        BY DEF Idle
    <2> HIDE DEF r
    <2>3. Ledger(r)
        BY <2>2 DEF Ledger, Sticking
    <2> QED BY <1>0, <2>1, <2>2, <2>3, InertKeeps
<1>6. CASE StuckRead(p)
    <2> DEFINE ws == {w \in LiveWorkers : quiet[w] /\ status[w] = "waiting_input"}
               r == [Idle EXCEPT !.kind = "waiting", !.ws = ws, !.left = ws, !.pc = "stuck"]
    <2>1. Become(p, r) /\ r.pc = "stuck" /\ r.ws = ws /\ r.left = ws
        BY <1>6 DEF StuckRead, Begin, Become, Idle
    <2>2. \A w \in ws : known[w]
        BY SilentIsKnown DEF LiveWorkers
    <2> HIDE DEF r, ws
    <2>3. Ledger(r)
        BY <2>1, <2>2 DEF Ledger, Sticking
    <2> QED BY <1>0, <2>1, <2>3, InertKeeps
<1> QED BY <1>1, <1>2, <1>3, <1>4, <1>5, <1>6, KindsThatReturn DEF Arrive

(* Claims.                                                                    *)
LEMMA BringingKeeps ==
    ASSUME TypeOK, SeatInv, NEW p \in Procs, NEW r, Become(p, r),
           proc[p].pc \in {"claim", "insert", "insert_row", "rollback"},
           r.pc \in {"claim", "insert", "insert_row", "rollback", "sessions"},
           r.ws = proc[p].ws, UNCHANGED <<status, known, quiet, seats>>
    PROVE  SeatInv'
<1>1. seats' = Released(Cardinality({}))
    BY NothingReleased DEF TypeOK, RowsOK
<1>2. \A w \in Workers : Brings(r, w) <=> Brings(proc[p], w)
    BY DEF Brings
<1>3. \A w \in Workers : ~Releases(proc[p], status[w], w)
    BY DEF Releases, Sticking
<1>4. \A w \in Workers : ~known[w] => ~quiet'[w]
    BY DEF SeatInv, Unheard
<1>5. Ledger(r)
    BY DEF Ledger, Sticking
<1>6. Settles(p, r, {})
    BY <1>1, <1>2, <1>3, <1>4, <1>5 DEF Settles
<1> QED BY <1>6, SettlesKeeps

LEMMA ClaimDoneKeeps ==
    ASSUME TypeOK, SeatInv, NEW p \in Procs, NEW r, Become(p, r),
           proc[p].pc \in {"claim", "insert", "insert_row", "rollback"},
           r = ClaimDone(proc[p]), UNCHANGED <<status, known, quiet, seats>>
    PROVE  SeatInv'
<1>1. proc[p] \in Request
    BY RequestFields DEF TypeOK
<1>2. CASE proc[p].ws = {}
    <2>1. r = Idle
        BY <1>2 DEF ClaimDone
    <2>2. seats' = Released(Cardinality({}))
        BY NothingReleased DEF TypeOK, RowsOK
    <2>3. \A w \in Workers : ~Brings(proc[p], w) /\ ~Brings(r, w)
        BY <1>2, <2>1, IdleIsInert DEF Brings
    <2>4. \A w \in Workers : ~Releases(proc[p], status[w], w)
        BY DEF Releases, Sticking
    <2>5. \A w \in Workers : ~known[w] => ~quiet'[w]
        BY DEF SeatInv, Unheard
    <2>6. Settles(p, r, {})
        BY <2>1, <2>2, <2>3, <2>4, <2>5, IdleIsInert DEF Settles
    <2> QED BY <2>6, SettlesKeeps
<1>3. CASE proc[p].ws # {}
    <2>1. r = [proc[p] EXCEPT !.ts = {}, !.t = NoTask, !.pc = "sessions"]
        BY <1>3 DEF ClaimDone
    <2>2. r.pc = "sessions" /\ r.ws = proc[p].ws
        BY <1>1, <2>1 DEF Request
    <2> QED BY <2>2, BringingKeeps
<1> QED BY <1>2, <1>3

LEMMA RowKeepsSeats ==
    ASSUME TypeOK, SeatInv, NEW p \in Procs, NEW r, Become(p, r), proc[p].pc = "insert_row",
           r.pc \in {"claim", "sessions"}, NEW w \in Workers, r.ws = proc[p].ws \cup {w},
           status[w] = "none", status' = [status EXCEPT ![w] = "idle"],
           UNCHANGED <<known, quiet, seats>>
    PROVE  SeatInv'
<1>1. /\ proc'[p] = r /\ \A q \in Procs \ {p} : proc'[q] = proc[q]
      /\ status'[w] = "idle" /\ \A v \in Workers \ {w} : status'[v] = status[v]
    BY DEF TypeOK, RowsOK, ProcOK, Become
<1>2. ~known[w] /\ ~quiet[w]
    BY DEF SeatInv, Heard, Unheard
<1>3. \A q \in Procs : ~Brings(proc[q], w)
    BY DEF SeatInv, Delivery, Live
<1>4. \A v \in Workers : Brings(r, v) <=> v = w \/ Brings(proc[p], v)
    BY DEF Brings
<1>5. Delivery'
    <2> SUFFICES ASSUME NEW q \in Procs, NEW v \in Workers, Brings(proc'[q], v)
                 PROVE  /\ ~known[v] /\ status'[v] \in Live
                        /\ \A o \in Procs \ {q} : ~Brings(proc'[o], v)
        BY DEF Delivery
    <2>1. CASE v = w
        BY <1>1, <1>2, <1>3, <2>1 DEF Live
    <2>2. CASE v # w
        <3>1. \A o \in Procs : Brings(proc'[o], v) <=> Brings(proc[o], v)
            BY <1>1, <1>4, <2>2
        <3> QED BY <1>1, <2>2, <3>1 DEF SeatInv, Delivery
    <2> QED BY <2>1, <2>2
<1>6. Unheard'
    BY <1>1, <1>2, <1>4 DEF SeatInv, Unheard
<1>7. Heard'
    BY <1>1 DEF SeatInv, Heard
<1>8. Ledger(r)
    BY DEF Ledger, Sticking
<1>9. \A q \in Procs : Ledger(proc[q])'
    BY <1>1, <1>8 DEF SeatInv, Ledger
<1>10. Owing \ {} \subseteq Owing'
    <2>1. \A v \in Workers : ~Releases(proc[p], status[v], v)
        BY DEF Releases, Sticking
    <2> QED BY <1>1, <1>2, <2>1 DEF Owing
<1>11. Books'
    BY <1>10, BooksKept, NothingReleased DEF SeatInv, TypeOK, RowsOK
<1> QED BY <1>5, <1>6, <1>7, <1>9, <1>11 DEF SeatInv

(* The seats that a claim counts are those of the workers it has brought,     *)
(* which were not known, so not owed a seat, before.                          *)
LEMMA SessionsKeepsSeats ==
    ASSUME TypeOK, SeatInv, NEW p \in Procs, Sessions(p)
    PROVE  SeatInv'
<1> DEFINE ws == proc[p].ws
<1>0. /\ proc[p].pc = "sessions" /\ proc[p] \in Request
      /\ ws \in SUBSET Workers /\ seats \in Nat
    BY RequestFields DEF Sessions, At, TypeOK, RowsOK, Request
<1>1. /\ proc'[p] = Idle /\ \A q \in Procs \ {p} : proc'[q] = proc[q]
      /\ status' = status /\ quiet' = quiet
      /\ known' = [w \in Workers |-> known[w] \/ w \in ws]
      /\ seats' = seats + Cardinality(ws)
    BY DEF Sessions, Stop, Become, TypeOK, ProcOK
<1> HIDE DEF ws
<1>2. \A w \in Workers : (Brings(proc[p], w) <=> w \in ws) /\ ~Brings(Idle, w)
    BY <1>0, IdleIsInert DEF Brings, ws
<1>3. \A w \in ws : ~known[w] /\ status[w] \in Live
    BY <1>0, <1>2 DEF SeatInv, Delivery
<1>4. Delivery'
    <2> SUFFICES ASSUME NEW q \in Procs, NEW w \in Workers, Brings(proc'[q], w)
                 PROVE  /\ ~known'[w] /\ status[w] \in Live
                        /\ \A o \in Procs \ {q} : ~Brings(proc'[o], w)
        BY <1>1 DEF Delivery
    <2>1. q # p /\ Brings(proc[q], w)
        BY <1>1, <1>2
    <2>2. ~known[w] /\ status[w] \in Live /\ \A o \in Procs \ {q} : ~Brings(proc[o], w)
        BY <2>1 DEF SeatInv, Delivery
    <2>3. w \notin ws
        BY <1>2, <2>1, <2>2
    <2> QED BY <1>1, <1>2, <2>2, <2>3
<1>5. Unheard'
    <2> SUFFICES ASSUME NEW w \in Workers, ~known'[w]
                 PROVE  ~quiet[w] /\ (status[w] = "none" \/ \E q \in Procs : Brings(proc'[q], w))
        BY <1>1 DEF Unheard
    <2>1. ~known[w] /\ w \notin ws
        BY <1>1
    <2> QED BY <1>1, <1>2, <2>1 DEF SeatInv, Unheard
<1>6. Heard'
    BY <1>1, <1>3 DEF SeatInv, Heard, Live
<1>7. \A q \in Procs : Ledger(proc[q])'
    <2>1. \A w \in Workers : known[w] => known'[w]
        BY <1>1
    <2> SUFFICES ASSUME NEW q \in Procs, q # p
                 PROVE  Ledger(proc[q])'
        BY <1>1, IdleIsInert DEF Ledger, Sticking
    <2>2. proc'[q] = proc[q] /\ Ledger(proc[q]) /\ proc[q].ws \in SUBSET Workers
        BY <1>1, RequestFields DEF SeatInv, TypeOK, ProcOK, Request
    <2> QED BY <2>1, <2>2 DEF Ledger
<1>8. IsFiniteSet(ws) /\ Cardinality(ws) \in Nat
    BY <1>0, LeaseAssumption, FS_Subset, FS_CardinalityType
<1>9. Owing \cap ws = {} /\ Owing \cup ws \subseteq Owing'
    <2>1. Owing \cap ws = {}
        BY <1>3 DEF Owing
    <2>2. \A w \in Workers : ~Releases(proc[p], status[w], w)
        BY <1>0 DEF Releases, Sticking
    <2> QED BY <1>0, <1>1, <1>3, <2>1, <2>2 DEF Owing
<1>10. Cardinality(Owing \cup ws) = Cardinality(Owing) + Cardinality(ws)
    <2>1. Cardinality(Owing \cup ws)
             = Cardinality(Owing) + Cardinality(ws) - Cardinality(Owing \cap ws)
        BY <1>8, OwingIsFinite, FS_Union
    <2>2. Cardinality(Owing \cap ws) = 0
        BY <1>9, FS_EmptySet
    <2> QED BY <1>8, <2>1, <2>2, OwingIsFinite
<1>11. Cardinality(Owing \cup ws) <= Cardinality(Owing')
    BY <1>9, OwingIsFinite, FS_Subset
<1>12. Books'
    BY <1>0, <1>1, <1>8, <1>10, <1>11, OwingIsFinite DEF SeatInv, Books
<1> QED BY <1>4, <1>5, <1>6, <1>7, <1>12 DEF SeatInv

LEMMA ClaimKeepsSeats ==
    ASSUME TypeOK, SeatInv, NEW p \in Procs, ClaimStep(p)
    PROVE  SeatInv'
<1> USE DEF At
<1>0. proc[p] \in Request /\ Ledger(proc[p])
    BY RequestFields DEF TypeOK, SeatInv
<1>1. CASE ClaimCount(p)
    <2>1. /\ proc[p].pc = "count" /\ UNCHANGED <<status, known, quiet, seats>>
          /\ Stop(p) \/ Goto(p, "select")
        BY <1>1 DEF ClaimCount, rows
    <2> QED BY <2>1, StopIsInert, GotoIsInert DEF Inert
<1>2. CASE ClaimSelect(p)
    <2> DEFINE r == [proc[p] EXCEPT !.ts = Claimable, !.pc = "claim"]
    <2>1. /\ proc[p].pc = "select" /\ UNCHANGED <<status, known, quiet, seats>>
          /\ Stop(p) \/ Become(p, r)
        BY <1>2 DEF ClaimSelect, rows
    <2>2. r.pc = "claim" /\ r.ws = proc[p].ws
        BY <1>0 DEF Request
    <2> HIDE DEF r
    <2>3. Ledger(r) /\ r.ws = {}
        BY <1>0, <2>1, <2>2 DEF Ledger, Sticking
    <2>4. CASE Stop(p)
        BY <2>1, <2>4, StopIsInert DEF Inert
    <2>5. CASE Become(p, r)
        BY <2>1, <2>2, <2>3, <2>5, InertKeeps DEF Inert
    <2> QED BY <2>1, <2>4, <2>5
<1>3. CASE ClaimTask(p)
    <2> PICK t \in proc[p].ts :
            \/ Become(p, [proc[p] EXCEPT !.t = t, !.ts = @ \ {t}, !.pc = "insert"])
            \/ Become(p, Without(proc[p], t, "claim", ClaimDone(proc[p])))
        BY <1>3, Zenon DEF ClaimTask
    <2> DEFINE r == [proc[p] EXCEPT !.t = t, !.ts = @ \ {t}, !.pc = "insert"]
               next == [proc[p] EXCEPT !.ts = @ \ {t}, !.t = NoTask, !.out = "none",
                                       !.pc = "claim"]
    <2>1. proc[p].pc = "claim" /\ UNCHANGED <<status, known, quiet, seats>>
        BY <1>3, Zenon DEF ClaimTask
    <2>2. r.pc = "insert" /\ r.ws = proc[p].ws
        BY <1>0 DEF Request
    <2>3. next.pc = "claim" /\ next.ws = proc[p].ws
        BY <1>0 DEF Request
    <2>4. Become(p, r) \/ Become(p, next) \/ Become(p, ClaimDone(proc[p]))
        BY DEF Without
    <2> HIDE DEF r, next
    <2>5. CASE Become(p, r)
        BY <2>1, <2>2, <2>5, BringingKeeps
    <2>6. CASE Become(p, next)
        BY <2>1, <2>3, <2>6, BringingKeeps
    <2>7. CASE Become(p, ClaimDone(proc[p]))
        BY <2>1, <2>7, ClaimDoneKeeps
    <2> QED BY <2>4, <2>5, <2>6, <2>7
<1>4. CASE InsertCount(p)
    <2> PICK pc \in {"insert_row", "rollback"} : Goto(p, pc)
        BY <1>4 DEF InsertCount
    <2> DEFINE r == [proc[p] EXCEPT !.pc = pc]
    <2>1. proc[p].pc = "insert" /\ UNCHANGED <<status, known, quiet, seats>>
        BY <1>4 DEF InsertCount, rows
    <2>2. Become(p, r) /\ r.pc = pc /\ r.ws = proc[p].ws
        BY <1>0 DEF Request, Goto
    <2> HIDE DEF r
    <2> QED BY <2>1, <2>2, BringingKeeps
<1>5. CASE InsertRow(p)
    <2> PICK w \in Workers :
            /\ status[w] = "none" /\ status' = [status EXCEPT ![w] = "idle"]
            /\ \/ Become(p, [proc[p] EXCEPT !.ws = @ \cup {w}, !.t = NoTask, !.pc = "claim"])
               \/ Become(p, ClaimDone([proc[p] EXCEPT !.ws = @ \cup {w}, !.t = NoTask,
                                                      !.pc = "claim"]))
        BY <1>5, Zenon DEF InsertRow
    <2> DEFINE r == [proc[p] EXCEPT !.ws = @ \cup {w}, !.t = NoTask, !.pc = "claim"]
               done == [r EXCEPT !.ts = {}, !.t = NoTask, !.pc = "sessions"]
    <2>1. proc[p].pc = "insert_row" /\ UNCHANGED <<known, quiet, seats>>
        BY <1>5, Zenon DEF InsertRow
    <2>2. "claim" \in Statements /\ proc[p].ws \cup {w} \in SUBSET Workers
        BY <1>0 DEF Request, Statements
    <2>3. r \in Request /\ r.pc = "claim" /\ r.ws = proc[p].ws \cup {w}
        BY <1>0, <2>2 DEF Request
    <2>4. Become(p, r) \/ Become(p, ClaimDone(r))
        OBVIOUS
    <2> HIDE DEF r
    <2>5. done.pc = "sessions" /\ done.ws = proc[p].ws \cup {w}
        BY <2>3 DEF Request
    <2>6. ClaimDone(r) = done
        BY <2>3 DEF ClaimDone
    <2> HIDE DEF done
    <2>7. CASE Become(p, r)
        BY <2>1, <2>3, <2>7, RowKeepsSeats
    <2>8. CASE Become(p, ClaimDone(r))
        BY <2>1, <2>5, <2>6, <2>8, RowKeepsSeats
    <2> QED BY <2>4, <2>7, <2>8
<1>6. CASE Rollback(p)
    <2>1. /\ proc[p].pc = "rollback" /\ UNCHANGED <<status, known, quiet, seats>>
          /\ Become(p, ClaimDone(proc[p]))
        BY <1>6 DEF Rollback
    <2> QED BY <2>1, ClaimDoneKeeps
<1>7. CASE Sessions(p)
    BY <1>7, SessionsKeepsSeats
<1> QED BY <1>1, <1>2, <1>3, <1>4, <1>5, <1>6, <1>7 DEF ClaimStep

(* Reports.  A report that has ended its worker keeps what it is to release.  *)
LEMMA RelayKeeps ==
    ASSUME TypeOK, SeatInv, NEW p \in Procs, NEW r, Become(p, r),
           proc[p].pc \in {"outcome", "release"}, r.pc \in {"release", "write"},
           r.w = proc[p].w, r.out = proc[p].out, UNCHANGED <<status, known, quiet, seats>>
    PROVE  SeatInv'
<1>0. Ledger(proc[p])
    BY DEF SeatInv
<1>1. seats' = Released(Cardinality({}))
    BY NothingReleased DEF TypeOK, RowsOK
<1>2. \A w \in Workers : ~Brings(proc[p], w) /\ ~Brings(r, w)
    BY DEF Brings
<1>3. \A w \in Workers : Releases(proc[p], status[w], w) => Releases(r, status[w], w)
    BY DEF Releases, Sticking
<1>4. \A w \in Workers : ~known[w] => ~quiet'[w]
    BY DEF SeatInv, Unheard
<1>5. Ledger(r)
    BY <1>0 DEF Ledger, Sticking
<1>6. Settles(p, r, {})
    BY <1>1, <1>2, <1>3, <1>4, <1>5 DEF Settles
<1> QED BY <1>6, SettlesKeeps

LEMMA ReserveKeepsSeats ==
    ASSUME TypeOK, SeatInv, NEW p \in Procs, Reserve(p)
    PROVE  SeatInv'
<1> DEFINE v == proc[p].w
           r == [proc[p] EXCEPT !.pc = "outcome"]
<1>0. /\ proc[p].pc = "reserve" /\ proc[p] \in Request /\ Ledger(proc[p])
      /\ v \in Workers /\ known[v] /\ proc[p].out \in Terminal
      /\ UNCHANGED <<known, seats>>
    BY RequestFields DEF Reserve, At, TypeOK, SeatInv, Ledger, Sound
<1>1. CASE status[v] = proc[p].seen
    <2>1. /\ status' = [status EXCEPT ![v] = proc[p].out]
          /\ quiet' = [quiet EXCEPT ![v] = FALSE] /\ Become(p, r)
        BY <1>1 DEF Reserve, Goto
    <2>2. /\ status'[v] = proc[p].out /\ ~quiet'[v]
          /\ \A w \in Workers \ {v} : status'[w] = status[w] /\ quiet'[w] = quiet[w]
        BY <1>0, <2>1 DEF TypeOK, RowsOK
    <2>3. r.pc = "outcome" /\ r.w = v /\ r.out = proc[p].out
        BY <1>0 DEF Request
    <2> HIDE DEF r, v
    <2>4. \A w \in Workers : ~Brings(proc[p], w) /\ ~Brings(r, w)
        BY <1>0, <2>3 DEF Brings
    <2>5. \A w \in Workers : ~Releases(proc[p], status[w], w)
        BY <1>0 DEF Releases, Sticking
    <2>6. Releases(r, status'[v], v)
        BY <1>0, <2>2, <2>3 DEF Releases
    <2>7. Ledger(r)
        BY <1>0, <2>3 DEF Ledger, Sticking
    <2>8. \A w \in Workers : ~known[w] => status'[w] = status[w] /\ ~quiet'[w]
        BY <1>0, <2>2 DEF SeatInv, Unheard
    <2>9. \A w \in Workers : status'[w] = "none" => status[w] = "none"
        BY <1>0, <2>2 DEF Terminal
    <2>10. seats' = Released(Cardinality({}))
        BY <1>0, NothingReleased DEF TypeOK, RowsOK
    <2>11. Settles(p, r, {})
        BY <1>0, <2>1, <2>2, <2>4, <2>5, <2>6, <2>7, <2>8, <2>9, <2>10 DEF Settles
    <2> QED BY <2>11, SettlesKeeps
<1>2. CASE status[v] # proc[p].seen
    BY <1>0, <1>2, StopIsInert DEF Reserve, Inert
<1> QED BY <1>1, <1>2

LEMMA WriteKeepsSeats ==
    ASSUME TypeOK, SeatInv, NEW p \in Procs, Write(p)
    PROVE  SeatInv'
<1> DEFINE v == proc[p].w
           out == proc[p].out
<1>0. /\ proc[p].pc = "write" /\ proc[p] \in Request /\ Ledger(proc[p])
      /\ v \in Workers /\ known[v] /\ out \in Live \cup Terminal
      /\ UNCHANGED <<known, seats>>
    BY RequestFields DEF Write, At, TypeOK, SeatInv, Ledger, Sound, Live
<1>1. seats' = Released(Cardinality({}))
    BY <1>0, NothingReleased DEF TypeOK, RowsOK
<1>2. CASE Unmoved(proc[p], status[v])
    <2> DEFINE r == IF out \in Terminal THEN [proc[p] EXCEPT !.pc = "seat"] ELSE Idle
    <2>1. /\ status' = [status EXCEPT ![v] = out]
          /\ quiet' = [quiet EXCEPT ![v] = FALSE] /\ Become(p, r)
        BY <1>2 DEF Write, Goto, Stop
    <2>2. /\ status'[v] = out /\ ~quiet'[v]
          /\ \A w \in Workers \ {v} : status'[w] = status[w] /\ quiet'[w] = quiet[w]
        BY <1>0, <2>1 DEF TypeOK, RowsOK
    <2>3. out \in Terminal => r.pc = "seat" /\ r.w = v
        BY <1>0 DEF Request
    <2>4. out \notin Terminal => r = Idle
        OBVIOUS
    <2>5. Ledger(r) /\ r.pc \in {"seat", "idle"}
        <3>1. CASE out \in Terminal
            BY <1>0, <2>3, <3>1 DEF Ledger, Sticking
        <3>2. CASE out \notin Terminal
            BY <2>4, <3>2, IdleIsInert
        <3> QED BY <3>1, <3>2
    <2> HIDE DEF r, v, out
    <2>6. \A w \in Workers : ~Brings(proc[p], w) /\ ~Brings(r, w)
        BY <1>0, <2>5 DEF Brings
    <2>7. \A w \in Workers \ {v} : ~Releases(proc[p], status[w], w)
        BY <1>0 DEF Releases, Sticking, v
    <2>8. status'[v] \in Live \/ Releases(r, status'[v], v)
        BY <1>0, <2>2, <2>3 DEF Releases
    <2>9. \A w \in Workers : ~known[w] => status'[w] = status[w] /\ ~quiet'[w]
        BY <1>0, <2>2 DEF SeatInv, Unheard
    <2>10. \A w \in Workers : status'[w] = "none" => status[w] = "none"
        BY <1>0, <2>2 DEF Terminal, Live
    <2>11. Settles(p, r, {})
        BY <1>0, <1>1, <2>1, <2>2, <2>5, <2>6, <2>7, <2>8, <2>9, <2>10 DEF Settles
    <2> QED BY <2>11, SettlesKeeps
<1>3. CASE ~Unmoved(proc[p], status[v])
    <2>1. UNCHANGED <<status, quiet>> /\ Become(p, Idle)
        BY <1>3 DEF Write, Stop
    <2>2. \A w \in Workers : ~Brings(proc[p], w) /\ ~Brings(Idle, w)
        BY <1>0, IdleIsInert DEF Brings
    <2>3. \A w \in Workers : ~Releases(proc[p], status[w], w)
        BY <1>0, <1>3 DEF Releases, Sticking, Unmoved
    <2>4. \A w \in Workers : ~known[w] => ~quiet'[w]
        BY <2>1 DEF SeatInv, Unheard
    <2>5. Settles(p, Idle, {})
        BY <1>0, <1>1, <2>1, <2>2, <2>3, <2>4, IdleIsInert DEF Settles
    <2> QED BY <2>5, SettlesKeeps
<1> QED BY <1>2, <1>3

(* A request has released the seats of ws, and nothing else is to be.         *)
LEMMA ReleasingKeeps ==
    ASSUME TypeOK, SeatInv, NEW p \in Procs, NEW r, Become(p, r), Ledger(r),
           proc[p].pc \in {"seat", "seats", "stuck_seats"}, r.pc \in {"idle", "late", "others"},
           NEW ws \in SUBSET Workers, seats' = Released(Cardinality(ws)),
           \A w \in Workers \ ws : ~Releases(proc[p], status[w], w),
           UNCHANGED <<status, known, quiet>>
    PROVE  SeatInv'
<1>1. \A w \in Workers : ~Brings(proc[p], w) /\ ~Brings(r, w)
    BY DEF Brings
<1>2. \A w \in Workers : ~known[w] => ~quiet'[w]
    BY DEF SeatInv, Unheard
<1>3. Settles(p, r, ws)
    BY <1>1, <1>2 DEF Settles
<1> QED BY <1>3, SettlesKeeps

LEMMA ReportKeepsSeats ==
    ASSUME TypeOK, SeatInv, NEW p \in Procs, ReportStep(p)
    PROVE  SeatInv'
<1> USE DEF At
<1>0. proc[p] \in Request /\ Ledger(proc[p])
    BY RequestFields DEF TypeOK, SeatInv
<1> DEFINE To(pc) == [proc[p] EXCEPT !.pc = pc]
<1>t. \A pc : To(pc).pc = pc /\ To(pc).w = proc[p].w /\ To(pc).out = proc[p].out
    BY <1>0 DEF Request
<1>g. \A pc : Goto(p, pc) => Become(p, To(pc))
    BY DEF Goto
<1> HIDE DEF To
<1>1. CASE Reactivate(p)
    <2>1. /\ proc[p].pc = "reactivate" /\ UNCHANGED <<status, known, quiet, seats>>
          /\ Become(p, To("write"))
        BY <1>1, <1>g DEF Reactivate
    <2>2. Ledger(To("write"))
        BY <1>0, <1>t, <2>1 DEF Ledger, Sticking
    <2> QED BY <1>t, <2>1, <2>2, InertKeeps DEF Inert
<1>2. CASE Reserve(p)
    BY <1>2, ReserveKeepsSeats
<1>3. CASE Outcome(p)
    <2>1. /\ proc[p].pc = "outcome" /\ UNCHANGED <<status, known, quiet, seats>>
          /\ Goto(p, "release") \/ Goto(p, "write")
        BY <1>3 DEF Outcome
    <2> QED BY <1>t, <1>g, <2>1, RelayKeeps
<1>4. CASE Release(p)
    <2>1. /\ proc[p].pc = "release" /\ UNCHANGED <<status, known, quiet, seats>>
          /\ Goto(p, "write")
        BY <1>4 DEF Release
    <2> QED BY <1>t, <1>g, <2>1, RelayKeeps
<1>5. CASE Write(p)
    BY <1>5, WriteKeepsSeats
<1>6. CASE Seat(p)
    <2>1. /\ proc[p].pc = "seat" /\ UNCHANGED <<status, known, quiet>>
          /\ seats' = Released(1)
          /\ Goto(p, "late") \/ Stop(p)
        BY <1>6 DEF Seat
    <2>2. proc[p].w \in Workers /\ Cardinality({proc[p].w}) = 1
        BY <1>0, <2>1, FS_Singleton DEF Ledger
    <2>3. \A w \in Workers \ {proc[p].w} : ~Releases(proc[p], status[w], w)
        BY <2>1 DEF Releases, Sticking
    <2>4. Ledger(To("late"))
        BY <1>t DEF Ledger, Sticking
    <2>5. CASE Goto(p, "late")
        BY <1>t, <1>g, <2>1, <2>2, <2>3, <2>4, <2>5, ReleasingKeeps
    <2>6. CASE Stop(p)
        BY <2>1, <2>2, <2>3, <2>6, IdleIsInert, ReleasingKeeps DEF Stop
    <2> QED BY <2>1, <2>5, <2>6
<1>7. CASE LateFail(p)
    BY <1>7, StopIsInert DEF LateFail, Inert
<1> QED BY <1>1, <1>2, <1>3, <1>4, <1>5, <1>6, <1>7 DEF ReportStep

(* Clean-ups.                                                                 *)
LEMMA SweepKeepsBooks ==
    ASSUME TypeOK, SeatInv, NEW p \in Procs, SweepRead(p)
    PROVE  SeatInv'
<1>0. /\ proc[p].pc = "sweep" /\ proc[p] \in Request
      /\ proc[p].kind \in {"claim", "sweep"}
      /\ UNCHANGED <<status, known, quiet, seats>>
    BY RequestFields DEF SweepRead, At, TypeOK, SeatInv, Ledger, rows
<1> PICK ws \in {StaleNow, SilentNow, {}} :
        Become(p, IF ws = {} THEN AfterPass(proc[p])
                  ELSE [proc[p] EXCEPT !.ws = ws, !.pc = "expire"])
    BY DEF SweepRead
<1> DEFINE r == [proc[p] EXCEPT !.ws = ws, !.pc = "expire"]
<1>1. r.pc = "expire" /\ r.ws = ws /\ r.kind = proc[p].kind
    BY <1>0 DEF Request
<1>2. \A w \in ws : known[w]
    BY SilentIsKnown DEF StaleNow, SilentNow, LiveWorkers
<1>3. Become(p, AfterPass(proc[p])) \/ Become(p, r)
    OBVIOUS
<1> HIDE DEF r
<1>4. Ledger(r)
    BY <1>0, <1>1, <1>2 DEF Ledger, Sticking
<1>5. CASE Become(p, AfterPass(proc[p]))
    BY <1>0, <1>5, AfterPassIsInert, InertKeeps DEF Inert
<1>6. CASE Become(p, r)
    BY <1>0, <1>1, <1>4, <1>6, InertKeeps DEF Inert
<1> QED BY <1>3, <1>5, <1>6

LEMMA ExpireKeepsSeats ==
    ASSUME TypeOK, SeatInv, NEW p \in Procs, Expire(p)
    PROVE  SeatInv'
<1> DEFINE ws == proc[p].ws
           r == [proc[p] EXCEPT !.pc = "seats"]
<1>0. /\ proc[p].pc = "expire" /\ proc[p] \in Request /\ Ledger(proc[p])
      /\ proc[p].kind \in {"claim", "sweep"} /\ \A w \in ws : known[w]
      /\ UNCHANGED <<known, seats>>
    BY RequestFields DEF Expire, At, TypeOK, SeatInv, Ledger
<1>1. ExpireRows(ws)
    BY DEF Expire
<1>2. Become(p, r)
    BY <1>0 DEF Expire
<1>3. r.pc = "seats" /\ r.ws = ws /\ r.kind = proc[p].kind
    BY <1>0 DEF Request
<1> HIDE DEF r, ws
<1>4. \A w \in Workers : /\ status'[w] = IF w \in ws THEN "failed" ELSE status[w]
                         /\ quiet'[w] = (w \notin ws /\ quiet[w])
    BY <1>1 DEF ExpireRows
<1>5. \A w \in Workers : ~Brings(proc[p], w) /\ ~Brings(r, w)
    BY <1>0, <1>3 DEF Brings
<1>6. \A w \in Workers : ~Releases(proc[p], status[w], w)
    BY <1>0 DEF Releases, Sticking
<1>7. \A w \in ws : Releases(r, status'[w], w)
    BY <1>3 DEF Releases
<1>8. Ledger(r)
    BY <1>0, <1>3 DEF Ledger, Sticking
<1>9. \A w \in Workers : ~known[w] => status'[w] = status[w] /\ ~quiet'[w]
    BY <1>0, <1>4 DEF SeatInv, Unheard
<1>10. \A w \in Workers : status'[w] = "none" => status[w] = "none"
    BY <1>4
<1>11. seats' = Released(Cardinality({}))
    BY <1>0, NothingReleased DEF TypeOK, RowsOK
<1>12. \A w \in Workers : status'[w] = status[w] \/ Releases(r, status'[w], w)
    BY <1>4, <1>7
<1>13. Settles(p, r, {})
    BY <1>0, <1>2, <1>5, <1>6, <1>8, <1>9, <1>10, <1>11, <1>12 DEF Settles
<1> QED BY <1>13, SettlesKeeps

(* A worker that waited too long is failed: its seat is released at the end.  *)
LEMMA StuckKeepsSeats ==
    ASSUME TypeOK, SeatInv, NEW p \in Procs, StuckWorker(p)
    PROVE  SeatInv'
<1>0. /\ proc[p].pc = "stuck" /\ proc[p] \in Request /\ Ledger(proc[p])
      /\ proc[p].left \subseteq proc[p].ws /\ proc[p].ws \subseteq Workers
      /\ UNCHANGED <<known, seats>>
    BY RequestFields DEF StuckWorker, At, TypeOK, SeatInv, Ledger, Sticking
<1> PICK v \in proc[p].left :
        /\ status' = [status EXCEPT ![v] = "failed"]
        /\ quiet' = [quiet EXCEPT ![v] = FALSE]
        /\ Become(p, [proc[p] EXCEPT !.t = of[v], !.left = @ \ {v}, !.pc = "stuck_task"])
    BY Zenon DEF StuckWorker
<1> DEFINE r == [proc[p] EXCEPT !.t = of[v], !.left = @ \ {v}, !.pc = "stuck_task"]
<1>1. r.pc = "stuck_task" /\ r.ws = proc[p].ws /\ r.left = proc[p].left \ {v}
    BY <1>0 DEF Request
<1>2. Become(p, r)
    OBVIOUS
<1> HIDE DEF r
<1>3. /\ v \in Workers /\ v \in proc[p].ws /\ known[v]
      /\ status'[v] = "failed" /\ ~quiet'[v]
      /\ \A w \in Workers \ {v} : status'[w] = status[w] /\ quiet'[w] = quiet[w]
    BY <1>0 DEF TypeOK, RowsOK, Ledger
<1>4. \A w \in Workers : ~Brings(proc[p], w) /\ ~Brings(r, w)
    BY <1>0, <1>1 DEF Brings
<1>5. \A w \in Workers : Releases(proc[p], status[w], w) => Releases(r, status[w], w)
    BY <1>0, <1>1 DEF Releases, Sticking
<1>6. Releases(r, status'[v], v)
    BY <1>1, <1>3 DEF Releases, Sticking
<1>7. Ledger(r)
    BY <1>0, <1>1 DEF Ledger, Sticking
<1>8. \A w \in Workers : ~known[w] => status'[w] = status[w] /\ ~quiet'[w]
    BY <1>3 DEF SeatInv, Unheard
<1>9. \A w \in Workers : status'[w] = "none" => status[w] = "none"
    BY <1>3
<1>10. seats' = Released(Cardinality({}))
    BY <1>0, NothingReleased DEF TypeOK, RowsOK
<1>11. Settles(p, r, {})
    BY <1>0, <1>2, <1>3, <1>4, <1>5, <1>6, <1>7, <1>8, <1>9, <1>10 DEF Settles
<1> QED BY <1>11, SettlesKeeps

LEMMA StuckTaskKeepsSeats ==
    ASSUME TypeOK, SeatInv, NEW p \in Procs, StuckTask(p)
    PROVE  SeatInv'
<1> DEFINE pc == IF proc[p].left = {} THEN "stuck_seats" ELSE "stuck"
           r == [proc[p] EXCEPT !.pc = pc]
<1>0. /\ proc[p].pc = "stuck_task" /\ proc[p] \in Request /\ Ledger(proc[p])
      /\ UNCHANGED <<status, known, quiet, seats>> /\ Become(p, r)
    BY RequestFields DEF StuckTask, Goto, At, TypeOK, SeatInv
<1>1. /\ r.pc = pc /\ r.ws = proc[p].ws /\ r.left = proc[p].left
      /\ pc \in {"stuck", "stuck_seats"} /\ (pc = "stuck_seats" => proc[p].left = {})
    BY <1>0 DEF Request
<1> HIDE DEF r, pc
<1>2. \A w \in Workers : ~Brings(proc[p], w) /\ ~Brings(r, w)
    BY <1>0, <1>1 DEF Brings
<1>3. \A w \in Workers : Releases(proc[p], status[w], w) => Releases(r, status[w], w)
    BY <1>0, <1>1 DEF Releases, Sticking
<1>4. \A w \in Workers : ~known[w] => ~quiet'[w]
    BY <1>0 DEF SeatInv, Unheard
<1>5. Ledger(r)
    BY <1>0, <1>1 DEF Ledger, Sticking
<1>6. seats' = Released(Cardinality({}))
    BY <1>0, NothingReleased DEF TypeOK, RowsOK
<1>7. Settles(p, r, {})
    BY <1>0, <1>2, <1>3, <1>4, <1>5, <1>6 DEF Settles
<1> QED BY <1>7, SettlesKeeps

LEMMA CleanupKeepsSeats ==
    ASSUME TypeOK, SeatInv, NEW p \in Procs, CleanupStep(p)
    PROVE  SeatInv'
<1> USE DEF At
<1>0. /\ proc[p] \in Request /\ Ledger(proc[p]) /\ proc[p].ws \in SUBSET Workers
    BY RequestFields DEF TypeOK, SeatInv
<1>w. \A t : \A pc \in {"others", "orphan"} : \A done :
         Ledger(done) /\ done.pc \in {"idle", "sweep", "count"}
            /\ (pc = "others" => proc[p].kind \in {"claim", "sweep"})
         => /\ Ledger(Without(proc[p], t, pc, done))
            /\ Without(proc[p], t, pc, done).pc \in {"idle", "sweep", "count", "others", "orphan"}
    BY <1>0, WithoutIsInert
<1>1. CASE SweepRead(p)
    BY <1>1, SweepKeepsBooks
<1>2. CASE Expire(p)
    BY <1>2, ExpireKeepsSeats
<1>3. CASE SweepSeats(p)
    <2> DEFINE r == [proc[p] EXCEPT !.ts = TasksOf(proc[p].ws), !.pc = "others"]
    <2>1. /\ proc[p].pc = "seats" /\ UNCHANGED <<status, known, quiet>>
          /\ seats' = Released(Cardinality(proc[p].ws)) /\ Become(p, r)
        BY <1>3 DEF SweepSeats
    <2>2. r.pc = "others" /\ r.kind = proc[p].kind
        BY <1>0 DEF Request
    <2> HIDE DEF r
    <2>3. Ledger(r)
        BY <1>0, <2>1, <2>2 DEF Ledger, Sticking
    <2>4. \A w \in Workers \ proc[p].ws : ~Releases(proc[p], status[w], w)
        BY <2>1 DEF Releases, Sticking
    <2> QED BY <1>0, <2>1, <2>2, <2>3, <2>4, ReleasingKeeps
<1>4. CASE SweepOthers(p)
    <2> PICK t \in proc[p].ts :
            \/ Become(p, [proc[p] EXCEPT !.t = t, !.pc = "resolve"])
            \/ Become(p, Without(proc[p], t, "others", AfterPass(proc[p])))
        BY <1>4, Zenon DEF SweepOthers
    <2> DEFINE r == [proc[p] EXCEPT !.t = t, !.pc = "resolve"]
               next == Without(proc[p], t, "others", AfterPass(proc[p]))
    <2>1. /\ proc[p].pc = "others" /\ UNCHANGED <<status, known, quiet, seats>>
        BY <1>4 DEF SweepOthers, rows
    <2>2. r.pc = "resolve" /\ r.kind = proc[p].kind
        BY <1>0 DEF Request
    <2>3. proc[p].kind \in {"claim", "sweep"}
        BY <1>0, <2>1 DEF Ledger
    <2>4. Ledger(next) /\ next.pc \in {"idle", "sweep", "count", "others", "orphan"}
        BY <1>0, <1>w, <2>3, AfterPassIsInert
    <2>5. Become(p, r) \/ Become(p, next)
        OBVIOUS
    <2> HIDE DEF r, next
    <2>6. Ledger(r)
        BY <2>2, <2>3 DEF Ledger, Sticking
    <2>7. CASE Become(p, r)
        BY <2>1, <2>2, <2>6, <2>7, InertKeeps DEF Inert
    <2>8. CASE Become(p, next)
        BY <2>1, <2>4, <2>8, InertKeeps DEF Inert
    <2> QED BY <2>5, <2>7, <2>8
<1>5. CASE ResolveRead(p) \/ Settle(p)
    <2> DEFINE next == Without(proc[p], proc[p].t, "others", AfterPass(proc[p]))
    <2>1. /\ proc[p].pc \in {"resolve", "settle"} /\ UNCHANGED <<status, known, quiet, seats>>
        BY <1>5 DEF ResolveRead, Settle, rows
    <2>2. \/ Become(p, next)
          \/ proc[p].pc = "resolve" /\ Goto(p, "settle")
        BY <1>5 DEF ResolveRead, Settle
    <2>3. proc[p].kind \in {"claim", "sweep"}
        BY <1>0, <2>1 DEF Ledger
    <2>4. Ledger(next) /\ next.pc \in {"idle", "sweep", "count", "others", "orphan"}
        BY <1>0, <1>w, <2>3, AfterPassIsInert
    <2> HIDE DEF next
    <2>5. CASE Become(p, next)
        BY <2>1, <2>4, <2>5, InertKeeps DEF Inert
    <2>6. CASE proc[p].pc = "resolve" /\ Goto(p, "settle")
        BY <2>1, <2>6, GotoIsInert DEF Inert
    <2> QED BY <2>2, <2>5, <2>6
<1>6. CASE StuckWorker(p)
    BY <1>6, StuckKeepsSeats
<1>7. CASE StuckTask(p)
    BY <1>7, StuckTaskKeepsSeats
<1>8. CASE StuckSeats(p)
    <2>1. /\ proc[p].pc = "stuck_seats" /\ UNCHANGED <<status, known, quiet>>
          /\ seats' = Released(Cardinality(proc[p].ws)) /\ Become(p, Idle)
        BY <1>8 DEF StuckSeats, Stop
    <2>2. \A w \in Workers \ proc[p].ws : ~Releases(proc[p], status[w], w)
        BY <2>1 DEF Releases, Sticking
    <2> QED BY <1>0, <2>1, <2>2, IdleIsInert, ReleasingKeeps
<1>9. CASE OrphanRead(p)
    <2> PICK t \in proc[p].ts, s \in {"completed", "pending", "failed"} :
            \/ Become(p, [proc[p] EXCEPT !.t = t, !.out = s, !.pc = "adopt"])
            \/ Become(p, Without(proc[p], t, "orphan", Idle))
        BY <1>9, Zenon DEF OrphanRead
    <2> DEFINE r == [proc[p] EXCEPT !.t = t, !.out = s, !.pc = "adopt"]
               next == Without(proc[p], t, "orphan", Idle)
    <2>0. proc[p].pc = "orphan" /\ UNCHANGED rows
        BY <1>9, Zenon DEF OrphanRead
    <2>1. proc[p].pc = "orphan" /\ UNCHANGED <<status, known, quiet, seats>>
        BY <2>0 DEF rows
    <2>2. r.pc = "adopt"
        BY <1>0 DEF Request
    <2>3. Ledger(next) /\ next.pc \in {"idle", "sweep", "count", "others", "orphan"}
        BY <1>w, IdleIsInert
    <2>4. Become(p, r) \/ Become(p, next)
        OBVIOUS
    <2> HIDE DEF r, next
    <2>5. Ledger(r)
        BY <2>2 DEF Ledger, Sticking
    <2>6. CASE Become(p, r)
        BY <2>1, <2>2, <2>5, <2>6, InertKeeps DEF Inert
    <2>7. CASE Become(p, next)
        BY <2>1, <2>3, <2>7, InertKeeps DEF Inert
    <2> QED BY <2>4, <2>6, <2>7
<1>10. CASE Adopt(p)
    <2> DEFINE next == Without(proc[p], proc[p].t, "orphan", Idle)
    <2>1. /\ proc[p].pc = "adopt" /\ UNCHANGED <<status, known, quiet, seats>>
          /\ Become(p, next)
        BY <1>10 DEF Adopt
    <2>2. Ledger(next) /\ next.pc \in {"idle", "sweep", "count", "others", "orphan"}
        BY <1>w, IdleIsInert
    <2> HIDE DEF next
    <2> QED BY <2>1, <2>2, InertKeeps DEF Inert
<1>11. ~(StalledFilter(p) \/ Reset(p) \/ ResetAll(p))
    BY <1>0 DEF Ledger, StalledFilter, Reset, ResetAll
<1> QED BY <1>1, <1>2, <1>3, <1>4, <1>5, <1>6, <1>7, <1>8, <1>9, <1>10, <1>11
        DEF CleanupStep

LEMMA OverrideKeepsSeats ==
    ASSUME TypeOK, SeatInv, NEW p \in Procs, OverrideStep(p)
    PROVE  SeatInv'
<1>1. CASE Close(p)
    BY <1>1, StopIsInert DEF Close, At, Inert
<1>2. Ledger(proc[p])
    BY DEF SeatInv
<1>3. ~(Interrupt(p) \/ Takeover(p) \/ Requeue(p) \/ Evict(p))
    BY <1>2 DEF Ledger, Interrupt, Takeover, Requeue, Evict, At
<1> QED BY <1>1, <1>3 DEF OverrideStep

(* Steps of no request.                                                       *)
LEMMA AsideKeeps ==
    ASSUME TypeOK, SeatInv, UNCHANGED <<known, seats, proc>>,
           \A w \in Workers : status'[w] # status[w] => status[w] # "none" /\ status'[w] \in Live,
           \A w \in Workers : quiet'[w] => quiet[w] \/ known[w]
    PROVE  SeatInv'
<1>1. Owing \ {} \subseteq Owing'
    BY DEF Owing
<1>2. Books'
    BY <1>1, BooksKept, NothingReleased DEF SeatInv, TypeOK, RowsOK
<1>3. Delivery'
    BY DEF SeatInv, Delivery
<1>4. Unheard'
    BY DEF SeatInv, Unheard
<1>5. Heard'
    BY DEF SeatInv, Heard, Live
<1>6. \A p \in Procs : Ledger(proc[p])'
    BY DEF SeatInv, Ledger
<1> QED BY <1>2, <1>3, <1>4, <1>5, <1>6 DEF SeatInv

LEMMA InitSeats == Init => SeatInv
<1> SUFFICES ASSUME Init
             PROVE  SeatInv
    OBVIOUS
<1>1. \A p \in Procs : proc[p] = Idle
    BY DEF Init
<1>2. \A p \in Procs, w \in Workers : ~Brings(proc[p], w)
    BY <1>1, IdleIsInert DEF Brings
<1>3. Books
    BY OwingIsFinite DEF Init, Books
<1>4. Delivery /\ Unheard /\ Heard
    BY <1>2 DEF Init, Delivery, Unheard, Heard
<1> QED BY <1>1, <1>3, <1>4, IdleIsInert DEF SeatInv

LEMMA NextSeats ==
    ASSUME Requests \subseteq Returning, TypeOK, SeatInv, [Next]_vars
    PROVE  SeatInv'
<1>1. ASSUME NEW p \in Procs, Arrive(p) PROVE SeatInv'
    BY <1>1, ArriveKeepsSeats
<1>2. ASSUME NEW p \in Procs, Step(p) PROVE SeatInv'
    BY <1>2, ClaimKeepsSeats, ReportKeepsSeats, CleanupKeepsSeats, OverrideKeepsSeats DEF Step
<1>3. ASSUME NEW p \in Procs, Crash(p) PROVE SeatInv'
    BY <1>3 DEF Crash, Returning
<1>4. ASSUME NEW t \in Tasks, Cancel(t) \/ Reopen(t) PROVE SeatInv'
    BY <1>4, AsideKeeps DEF Cancel, Reopen
<1>5. ASSUME NEW w \in Workers, Recover(w) PROVE SeatInv'
    <2>1. /\ UNCHANGED <<known, seats, proc>> /\ status[w] # "none"
          /\ status' = [status EXCEPT ![w] = "running"] /\ quiet' = [quiet EXCEPT ![w] = FALSE]
        BY <1>5 DEF Recover
    <2>2. \A v \in Workers : /\ status'[v] = IF v = w THEN "running" ELSE status[v]
                             /\ quiet'[v] = IF v = w THEN FALSE ELSE quiet[v]
        BY <2>1 DEF TypeOK, RowsOK
    <2>3. \A v \in Workers :
             status'[v] # status[v] => status[v] # "none" /\ status'[v] \in Live
        BY <2>1, <2>2 DEF Live
    <2>4. \A v \in Workers : quiet'[v] => quiet[v] \/ known[v]
        BY <2>2
    <2> QED BY <2>1, <2>3, <2>4, AsideKeeps
<1>6. ASSUME NEW w \in Workers, Age(w) PROVE SeatInv'
    <2>1. /\ UNCHANGED <<known, seats, proc, status>> /\ status[w] \in Live
          /\ \A p \in Procs : w \notin proc[p].ws
          /\ quiet' = [quiet EXCEPT ![w] = TRUE]
        BY <1>6 DEF Age
    <2>2. known[w]
        BY <2>1 DEF SeatInv, Unheard, Brings, Live
    <2>3. \A v \in Workers : quiet'[v] => quiet[v] \/ known[v]
        BY <2>1, <2>2 DEF TypeOK, RowsOK
    <2> QED BY <2>1, <2>3, AsideKeeps
<1>7. CASE UNCHANGED vars
    BY <1>7, AsideKeeps DEF vars, rows
<1> QED BY <1>1, <1>2, <1>3, <1>4, <1>5, <1>6, <1>7 DEF Next

(* When the requests that arrive are those that release the seats of the      *)
(* workers they end, and none of them crashes, then, when none is in          *)
(* progress, every seat taken is a live worker's: SeatsReturned, for any      *)
(* number of tasks, workers and requests and any limits.  The others          *)
(* (takeovers, reassignments, three clean-ups) end workers and keep seats.    *)
THEOREM SeatsGoBack ==
    ASSUME Requests \subseteq Returning
    PROVE  Spec => []SeatsReturned
<1>1. TypeOK /\ SeatInv /\ [Next]_vars => SeatInv'
    BY NextSeats
<1>2. TypeOK /\ SeatInv => SeatsReturned
    <2> SUFFICES ASSUME TypeOK, SeatInv, \A p \in Procs : proc[p].pc = "idle"
                 PROVE  seats <= Cardinality(LiveWorkers)
        BY DEF SeatsReturned, At
    <2>1. \A p \in Procs, w \in Workers : ~Releases(proc[p], status[w], w)
        BY DEF Releases, Sticking
    <2>2. Owing \subseteq LiveWorkers
        BY <2>1 DEF Owing, LiveWorkers
    <2>3. IsFiniteSet(LiveWorkers) /\ Cardinality(LiveWorkers) \in Nat
        BY LeaseAssumption, FS_Subset, FS_CardinalityType DEF LiveWorkers
    <2>4. Cardinality(Owing) <= Cardinality(LiveWorkers)
        BY <2>2, <2>3, FS_Subset
    <2> QED BY <2>3, <2>4, OwingIsFinite DEF SeatInv, Books, TypeOK, RowsOK
<1> QED BY <1>1, <1>2, InitSeats, TypeCorrect, PTL DEF Spec
=============================================================================
