------------------------------ MODULE TaskDeps ------------------------------
(* Task dependencies (apps/web/src/lib/task-dependencies.ts): a task waits    *)
(* until the tasks it depends on are delivered, is told to the runners when   *)
(* they are, and fails when one of them fails.                                *)
(*                                                                            *)
(* A resolution is a sequence of SQL statements; resolutions interleave with  *)
(* each other and with every request that writes the same rows.  An element   *)
(* of Procs is a resolution in progress: work[p].pc is its next statement,    *)
(* the other fields what it has read, stack the loops of the recursive        *)
(* cascade that are still to be continued.                                    *)
(*                                                                            *)
(* The statements of a request that writes tasks.status before it resolves    *)
(* are one action here; TaskLease models them one by one.                     *)
EXTENDS Naturals, Sequences, FiniteSets

CONSTANTS
    Tasks,
    Graphs,   \* the dependsOn columns the tasks may have
    Looped,   \* tasks with a loopConfig
    WithPr,   \* tasks whose workers open pull requests
    MaxPrs,   \* bound: pull requests per task
    Edited,   \* bound: tasks whose status people edit or that they reassign
    MaxEdits, \* bound: status edits and reassignments by people
    Procs     \* resolutions that can be in progress together

ASSUME DepsAssumption ==
    /\ Tasks # {}
    /\ Graphs \subseteq [Tasks -> SUBSET Tasks]
    /\ Looped \subseteq Tasks /\ WithPr \subseteq Tasks /\ Edited \subseteq Tasks
    /\ MaxPrs \in Nat /\ MaxEdits \in Nat

VARIABLES
    deps,    \* tasks.dependsOn
    status,  \* tasks.status; "none" before the task is filed
    loop,    \* tasks.loopState; "null" for a task that has none
    held,    \* a worker of the task is still to report its end
    prs,     \* the pull requests of the task's workers, oldest first
    work,    \* the resolutions in progress
    edits,   \* edits and reassignments so far
    told,    \* auxiliary: a runner was told of the task while it could claim it
    silent   \* auxiliary: something wrote the task or its PR and resolved nothing

vars == <<deps, status, loop, held, prs, work, edits, told, silent>>

Terminal == {"completed", "failed", "cancelled"}

(* A PR is open, it is merged on GitHub and the worker row does not say so    *)
(* (landed), or the row says that it is merged (mergedAt) or closed.          *)
PrState == {"open", "landed", "merged", "closed"}

Doing(pc, t, stack) ==
    [pc |-> pc, t |-> t, wait |-> {}, done |-> {}, stack |-> stack]

NoTask == CHOOSE t \in Tasks : TRUE
Idle == Doing("idle", NoTask, <<>>)

Init ==
    /\ deps \in Graphs
    /\ status = [t \in Tasks |-> "none"]
    /\ loop = [t \in Tasks |-> "null"]
    /\ held = [t \in Tasks |-> FALSE]
    /\ prs = [t \in Tasks |-> <<>>]
    /\ work = [p \in Procs |-> Idle]
    /\ edits = 0
    /\ told = [t \in Tasks |-> FALSE]
    /\ silent = [t \in Tasks |-> FALSE]

At(p, pc) == work[p].pc = pc
Become(p, r) == work' = [work EXCEPT ![p] = r]
Resolving(p, t) == Become(p, Doing("resolve", t, <<>>))
Silence(t) == silent' = [silent EXCEPT ![t] = TRUE]

----------------------------------------------------------------------------
(* dependenciesSatisfied(): the gate of the claim route.  Every PR of a       *)
(* completed dependency is merged or closed.                                  *)
Delivered(d) == \A i \in DOMAIN prs[d] : prs[d][i] \in {"merged", "closed"}

GateOpen(t) ==
    \A d \in deps[t] : \/ status[d] = "cancelled"
                       \/ status[d] = "completed" /\ Delivered(d)

(* TASK_ASSIGNED reaches the runners; they claim what the gate lets through.  *)
Tell(ts, st) ==
    told' = [t \in Tasks |-> told[t] \/ (t \in ts /\ st[t] = "pending" /\ GateOpen(t))]

(* POST /api/tasks: every dependency exists, the row is inserted and, whether *)
(* or not it can be claimed, dispatched.                                      *)
Create(t) ==
    /\ status[t] = "none"
    /\ \A d \in deps[t] \ {t} : status[d] # "none" \/ t \in deps[d]
    /\ status' = [status EXCEPT ![t] = "pending"]
    /\ Tell({t}, status')
    /\ silent' = [silent EXCEPT ![t] = \E d \in deps[t] : status[d] = "failed"]
    /\ UNCHANGED <<deps, edits, loop, held, prs, work>>

Claim(t) ==
    /\ status[t] = "pending"
    /\ GateOpen(t)
    /\ status' = [status EXCEPT ![t] = "assigned"]
    /\ loop' = [loop EXCEPT ![t] = IF t \in Looped THEN "running" ELSE @]
    /\ held' = [held EXCEPT ![t] = TRUE]
    /\ told' = [told EXCEPT ![t] = TRUE]
    /\ UNCHANGED <<deps, edits, prs, work, silent>>

OpenPr(t) ==
    /\ held[t] /\ t \in WithPr /\ Len(prs[t]) < MaxPrs
    /\ prs' = [prs EXCEPT ![t] = Append(@, "open")]
    /\ UNCHANGED <<deps, edits, status, loop, held, work, told, silent>>

(* The worker's last report: the task is completed, failed or, unless it is   *)
(* cancelled, re-queued; a looped task is satisfied, exhausted or unmet.  A   *)
(* task that is re-queued after it was failed under its worker counts as      *)
(* written silently.                                                          *)
EndsSwapped(t) ==   \* Mutant: the two columns are swapped when a loop is exhausted.
    {[s |-> "exhausted", l |-> "failed"], [s |-> "completed", l |-> "satisfied"]}

Ends(t) ==
    {[s |-> "failed", l |-> loop[t]], [s |-> "pending", l |-> loop[t]]}
        \cup IF t \in Looped
             THEN {[s |-> "completed", l |-> "satisfied"],
                   [s |-> "failed", l |-> "exhausted"],
                   [s |-> "pending", l |-> "condition_unmet"]}
             ELSE {[s |-> "completed", l |-> loop[t]]}

Report(p, t) ==
    /\ At(p, "idle") /\ held[t]
    /\ held' = [held EXCEPT ![t] = FALSE]
    /\ \E e \in Ends(t) :
          /\ IF status[t] = "cancelled" THEN UNCHANGED <<status, loop>>
             ELSE /\ status' = [status EXCEPT ![t] = e.s]
                  /\ loop' = [loop EXCEPT ![t] = e.l]
          /\ IF e.s = "pending" THEN UNCHANGED work ELSE Resolving(p, t)
          /\ silent' = [silent EXCEPT ![t] = @ \/ (e.s = "pending" /\ status[t] # "assigned")]
    /\ UNCHANGED <<deps, edits, prs, told>>

----------------------------------------------------------------------------
(* Requests that write a task or a worker and resolve nothing.                *)

(* PATCH /api/tasks/[id] with a status: cancelled always, pending always,     *)
(* completed or failed while no worker runs.  The resolution a cancellation   *)
(* starts does nothing for dependents.                                        *)
EditStatus(t, s) ==
    /\ status[t] # "none" /\ edits < MaxEdits
    /\ s \in {"completed", "failed"} => ~held[t]
    /\ status' = [status EXCEPT ![t] = s]
    /\ Silence(t)
    /\ edits' = edits + 1
    /\ UNCHANGED <<deps, loop, held, prs, work, told>>

(* POST /api/tasks/[id]/reassign of a failed task, which is broadcast.        *)
Reassign(t) ==
    /\ status[t] = "failed" /\ edits < MaxEdits
    /\ status' = [status EXCEPT ![t] = "pending"]
    /\ Tell({t}, status')
    /\ silent' = [silent EXCEPT ![t] = @ \/ \E d \in deps[t] : status[d] = "failed"]
    /\ edits' = edits + 1
    /\ UNCHANGED <<deps, loop, held, prs, work>>

(* A check suite failed and no CI retry is left: the task is failed, whatever *)
(* it is now.                                                                 *)
CiExhausted(t) ==
    /\ "open" \in {prs[t][i] : i \in DOMAIN prs[t]}
    /\ status' = [status EXCEPT ![t] = "failed"]
    /\ Silence(t)
    /\ UNCHANGED <<deps, edits, loop, held, prs, work, told>>

(* The PR is closed unmerged, and the webhook, a page view or the daily       *)
(* reconciliation stamps the row.                                             *)
Close(t, i) ==
    /\ prs[t][i] = "open"
    /\ prs' = [prs EXCEPT ![t][i] = "closed"]
    /\ Silence(t)
    /\ UNCHANGED <<deps, edits, status, loop, held, work, told>>

(* The delivery about a merge was lost; the daily reconciliation stamps.      *)
Reconcile(t, i) ==
    /\ prs[t][i] = "landed"
    /\ prs' = [prs EXCEPT ![t][i] = "merged"]
    /\ Silence(t)
    /\ UNCHANGED <<deps, edits, status, loop, held, work, told>>

MergeOnGitHub(t, i) ==
    /\ prs[t][i] = "open"
    /\ prs' = [prs EXCEPT ![t][i] = "landed"]
    /\ UNCHANGED <<deps, edits, status, loop, held, work, told, silent>>

----------------------------------------------------------------------------
(* A merge becomes known.                                                     *)

(* The merge route or a page view (pr-state-refresh.ts) stamps the row and    *)
(* looks for dependents to wake.                                              *)
Stamp(p, t, i) ==
    /\ At(p, "idle") /\ prs[t][i] = "landed"
    /\ prs' = [prs EXCEPT ![t][i] = "merged"]
    /\ Become(p, Doing("dependents", t, <<>>))
    /\ UNCHANGED <<deps, edits, status, loop, held, told, silent>>

(* The webhook does the same, and completes a task that was not completed     *)
(* when the delivery arrived (seen); the check for dependents is already on   *)
(* its way and may look before or after that.                                 *)
Webhook(p, q, t, i) ==
    /\ p # q /\ At(p, "idle") /\ At(q, "idle") /\ prs[t][i] = "landed"
    /\ prs' = [prs EXCEPT ![t][i] = "merged"]
    /\ work' = [work EXCEPT
                   ![p] = Doing("dependents", t, <<>>),
                   ![q] = IF status[t] = "completed" THEN Idle
                          ELSE Doing("complete", t, <<>>)]
    /\ UNCHANGED <<deps, edits, status, loop, held, told, silent>>

WebhookCompletes(p) ==
    /\ At(p, "complete")
    /\ status' = [status EXCEPT ![work[p].t] = "completed"]
    /\ Silence(work[p].t)
    /\ Become(p, Idle)
    /\ UNCHANGED <<deps, edits, loop, held, prs, told>>

(* evaluateAndAdvanceLoopOnMerge(): a loop that waits for the merge is        *)
(* satisfied, by a compare-and-set on loopState, and the task resolved.       *)
AdvanceLoop(p, t) ==
    /\ At(p, "idle")
    /\ loop[t] = "condition_unmet"
    /\ "merged" \in {prs[t][i] : i \in DOMAIN prs[t]}
    /\ status' = [status EXCEPT ![t] = "completed"]
    /\ loop' = [loop EXCEPT ![t] = "satisfied"]
    /\ Resolving(p, t)
    /\ UNCHANGED <<deps, edits, held, prs, told, silent>>

----------------------------------------------------------------------------
(* resolveCompletedTask(), the part about dependents.                         *)

(* A resolution has returned: go on with the innermost cascade loop.          *)
Return(stack) ==
    Doing(IF stack = <<>> THEN "idle" ELSE "fail", NoTask, stack)

(* The task's status is read and decides. *)
Resolve(p) ==
    /\ At(p, "resolve")
    /\ Become(p, CASE status[work[p].t] = "failed" -> [work[p] EXCEPT !.pc = "cascade"]
                   [] status[work[p].t] = "cancelled" -> Return(work[p].stack)
                   [] OTHER -> [work[p] EXCEPT !.pc = "dependents"])
    /\ UNCHANGED <<deps, edits, status, loop, held, prs, told, silent>>

(* cascadeDependencyFailure(): the dependents that are not terminal. *)
ToFail(t) == {u \in Tasks : /\ t \in deps[u]
                            /\ status[u] \notin Terminal \cup {"none"}}

Cascade(p) ==
    /\ At(p, "cascade")
    /\ Become(p, Return(<<ToFail(work[p].t)>> \o work[p].stack))
    /\ UNCHANGED <<deps, edits, status, loop, held, prs, told, silent>>

(* Mutant: the failed task is not resolved in its turn. *)
FailWithoutResolve(p) ==
    /\ At(p, "fail")
    /\ \E u \in Head(work[p].stack) :
          /\ status' = [status EXCEPT ![u] = "failed"]
          /\ Become(p, Return(<<Head(work[p].stack) \ {u}>> \o Tail(work[p].stack)))
    /\ UNCHANGED <<deps, edits, loop, held, prs, told, silent>>

(* Mutant: the loop does not move on from the task it has failed. *)
FailAgain(p) ==
    /\ At(p, "fail")
    /\ \E u \in Head(work[p].stack) :
          /\ status' = [status EXCEPT ![u] = "failed"]
          /\ Become(p, Doing("resolve", u, work[p].stack))
    /\ UNCHANGED <<deps, edits, loop, held, prs, told, silent>>

(* UPDATE tasks SET status = 'failed' WHERE id = u, whatever u is by now;     *)
(* then resolve u.                                                            *)
Fail(p) ==
    /\ At(p, "fail")
    /\ \E u \in Head(work[p].stack) :
          /\ status' = [status EXCEPT ![u] = "failed"]
          /\ Become(p, Doing("resolve", u, <<Head(work[p].stack) \ {u}>> \o Tail(work[p].stack)))
    /\ UNCHANGED <<deps, edits, loop, held, prs, told, silent>>

(* The innermost loop has no task left.                                       *)
LoopEnds(p) ==
    /\ At(p, "fail") /\ Head(work[p].stack) = {}
    /\ Become(p, Return(Tail(work[p].stack)))
    /\ UNCHANGED <<deps, edits, status, loop, held, prs, told, silent>>

(* checkDependsOnResolved(): the pending dependents ...                       *)
Dependents(p) ==
    /\ At(p, "dependents")
    /\ LET wait == {u \in Tasks : work[p].t \in deps[u] /\ status[u] = "pending"}
       IN  Become(p, IF wait = {} THEN Return(work[p].stack)
                     ELSE [work[p] EXCEPT !.pc = "states", !.wait = wait])
    /\ UNCHANGED <<deps, edits, status, loop, held, prs, told, silent>>

(* ... the statuses and loops of all they depend on ...                       *)
Satisfied(d) == status[d] = "completed" /\ loop[d] = "satisfied"   \* Mutant
Done(d) == status[d] = "completed" /\ loop[d] \in {"null", "satisfied"}

States(p) ==
    /\ At(p, "states")
    /\ Become(p, [work[p] EXCEPT
                     !.pc = "prs",
                     !.done = {d \in UNION {deps[u] : u \in work[p].wait} : Done(d)}])
    /\ UNCHANGED <<deps, edits, status, loop, held, prs, told, silent>>

(* ... and the latest PR of each.  One that looks open is looked up on        *)
(* GitHub, which may fail, and stamped if it is merged there.  The dependents *)
(* for which nothing is left to wait are dispatched; what was read may no     *)
(* longer be so, and then no runner can claim what it is told of.             *)
Latest(d) == Len(prs[d])
Landed(w) == {d \in UNION {deps[u] : u \in w} : prs[d] # <<>> /\ prs[d][Latest(d)] = "landed"}

Wake(p) ==
    /\ At(p, "prs")
    /\ Become(p, Return(work[p].stack))
    /\ UNCHANGED <<deps, edits, status, loop, held>>
    /\ \E found \in SUBSET Landed(work[p].wait) :
          LET now == [d \in Tasks |-> IF d \in found
                                      THEN [prs[d] EXCEPT ![Latest(d)] = "merged"]
                                      ELSE prs[d]]
              ready == {d \in work[p].done : now[d] # <<>> => now[d][Latest(d)] = "merged"}
          IN  /\ prs' = now
              /\ silent' = [d \in Tasks |-> silent[d] \/ d \in found]
              /\ told' = [u \in Tasks |->
                            \/ told[u]
                            \/ /\ u \in work[p].wait /\ deps[u] \subseteq ready
                               /\ status[u] = "pending" /\ GateOpen(u)']

----------------------------------------------------------------------------
Human == \E t \in Edited :
            \/ \E s \in {"pending", "completed", "failed", "cancelled"} : EditStatus(t, s)
            \/ Reassign(t)

Step(p) == \/ Resolve(p) \/ Cascade(p) \/ Fail(p) \/ LoopEnds(p)
           \/ Dependents(p) \/ States(p) \/ Wake(p) \/ WebhookCompletes(p)

Next ==
    \/ Human
    \/ \E t \in Tasks :
          \/ Create(t) \/ Claim(t) \/ OpenPr(t) \/ CiExhausted(t)
          \/ \E i \in DOMAIN prs[t] : MergeOnGitHub(t, i) \/ Close(t, i) \/ Reconcile(t, i)
    \/ \E p \in Procs :
          \/ Step(p)
          \/ \E t \in Tasks :
                \/ Report(p, t) \/ AdvanceLoop(p, t)
                \/ \E i \in DOMAIN prs[t] : \/ Stamp(p, t, i)
                                            \/ \E q \in Procs : Webhook(p, q, t, i)

Spec == Init /\ [][Next]_vars

(* A request that has begun runs to its end. *)
LiveSpec == Spec /\ \A p \in Procs : WF_vars(Step(p))

----------------------------------------------------------------------------
Resolution ==
    [pc : {"idle", "resolve", "cascade", "fail", "dependents", "states", "prs", "complete"},
     t : Tasks, wait : SUBSET Tasks, done : SUBSET Tasks, stack : Seq(SUBSET Tasks)]

(* Every variable has its type; a resolution is about a task.                 *)
TypeOK ==
    /\ deps \in Graphs
    /\ status \in [Tasks -> {"none", "pending", "assigned"} \cup Terminal]
    /\ loop \in [Tasks -> {"null", "running", "condition_unmet", "satisfied", "exhausted"}]
    /\ held \in [Tasks -> BOOLEAN]
    /\ prs \in [Tasks -> Seq(PrState)]
    /\ work \in [Procs -> Resolution]
    /\ edits \in 0..MaxEdits
    /\ told \in [Tasks -> BOOLEAN] /\ silent \in [Tasks -> BOOLEAN]

Quiet == \A p \in Procs : At(p, "idle")

(* No wake-up is lost: when nothing is being resolved, a pending task that    *)
(* the claim gate lets through was told to the runners, however the last      *)
(* completions, merges and the filing of the task interleaved.  The silent    *)
(* requests, a cancelled dependency and a loop the claim gate does not ask    *)
(* about are the only exceptions.                                             *)
NoLostWakeUp ==
    Quiet => \A t \in Tasks :
        status[t] = "pending" /\ GateOpen(t) /\ ~told[t] =>
            \/ silent[t]
            \/ \E d \in deps[t] : \/ silent[d] \/ status[d] = "cancelled"
                                  \/ loop[d] \notin {"null", "satisfied"}

(* No task is left waiting for a failed one: when nothing is being resolved,  *)
(* a task with a failed dependency is terminal, through the whole graph,      *)
(* unless a silent request wrote one of the two.                              *)
NoStranded ==
    Quiet => \A t \in Tasks : \A d \in deps[t] :
        status[t] \in {"pending", "assigned"} /\ status[d] = "failed" =>
            silent[t] \/ silent[d]

(* Every resolution ends, on a cyclic dependsOn too (no route rejects one):   *)
(* people edit a bounded number of times, and the cascade fails a task once.  *)
ResolutionsEnd == \A p \in Procs : []<>At(p, "idle")
=============================================================================
