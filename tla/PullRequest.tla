---------------------------- MODULE PullRequest ----------------------------
(* One pull request of a buildd worker: GitHub's deliveries about it and what *)
(* the server makes of them (api/github/webhook/route.ts): follow-up tasks    *)
(* for a red CI (lib/ci-retry.ts), a conflict (lib/conflict-retry.ts) or a    *)
(* reviewer's wishes (api/workers/[id]/route.ts), the automatic merge         *)
(* (lib/auto-merge.ts), and the two ways in which the server learns of the    *)
(* merge although a delivery was lost (lib/pr-reconcile.ts,                   *)
(* lib/pr-state-reconcile.ts).                                                *)
(*                                                                            *)
(* Commits of the branch are numbered as they are pushed; a task has one      *)
(* worker, so that a task's index names both rows.  The pull request is no    *)
(* draft, and the worker that opened it has stored its number.                *)
EXTENDS Naturals, Sequences

CONSTANTS
    Starts,        \* the policy of workspace or mission (MergePolicy.tier), the check
                   \* suites of the repository, if any, whether the task requires
                   \* review and whether it belongs to a mission; an agent-review
                   \* policy with gateCondition 'approve-only' is a tier here
    Conclusions,   \* what a check suite may conclude
    Faults,        \* what may go wrong: reads of GitHub that fail, deliveries lost
    MaxIterations,         \* maxCiRetries and context.maxIterations
    MaxConflictIterations, \* DEFAULT_MAX_CONFLICT_ITERATIONS
    MaxHeads,      \* bound: commits pushed to the branch
    MaxTasks       \* bound: rows of tasks

ASSUME PullRequestAssumption ==
    /\ \A s \in Starts :
          /\ s.tier \in {"auto-threshold", "agent-review", "approve-only", "human"}
          /\ {s.held, s.mission} \subseteq BOOLEAN
    /\ Conclusions \subseteq {"success", "failure", "neutral"}
    /\ Faults \subseteq {"checkRuns", "checkSuites", "suite", "closed"}
    /\ {MaxIterations, MaxConflictIterations} \subseteq Nat
    /\ {MaxHeads, MaxTasks} \subseteq Nat \ {0}

VARIABLES
    setting,  \* the member of Starts that this is; follow-ups inherit the mission
    suites,   \* GitHub: for each commit, the state of each of its check suites
    dirty,    \* GitHub: the head conflicts with the base branch
    pr,       \* GitHub: the pull request's state
    sent,     \* webhook deliveries and verdicts that are still to be handled
    tasks,    \* the task behind the pull request and the follow-ups, oldest first
    merging,  \* automatic merges past their checks
    checking, \* reconciliations that have read GitHub and will write
    told      \* the commits a human was notified of

vars == <<setting, suites, dirty, pr, sent, tasks, merging, checking, told>>
github == <<suites, dirty, pr>>

tier == setting.tier
Suites == UNION {s.suites : s \in Starts}
head == Len(suites)
Bad == {"running", "failure"}

(* A task and its worker: owns says that the worker's prNumber and prUrl name *)
(* this pull request, held that the task requires review; no follow-up        *)
(* inherits that.  sha is the commit a follow-up was made for.                *)
Task(kind, iteration, conflictIteration, sha) ==
    [kind |-> kind, iteration |-> iteration, conflictIteration |-> conflictIteration,
     sha |-> sha, status |-> "pending", held |-> FALSE, owns |-> FALSE,
     mergedAt |-> FALSE]

(* The look-up by prNumber and prUrl has no ORDER BY: once a follow-up's      *)
(* worker has the same pull request, any of the rows may be found.            *)
Owners == {w \in DOMAIN tasks : tasks[w].owns}

Insert(task) == Len(tasks) < MaxTasks /\ tasks' = Append(tasks, task)

(* Most notices go to the mission and by it to a person: a task of no mission *)
(* leaves only a line in the log.  Reviews raise an alert in any case.        *)
Alert(sha) == told' = told \cup {sha}
Tell(sha) == IF setting.mission THEN Alert(sha) ELSE UNCHANGED told

Init ==
    /\ setting \in Starts
    /\ suites = <<[c \in setting.suites |-> "running"]>>
    /\ tasks = <<[Task("work", 0, 0, 1) EXCEPT
                     !.status = "completed", !.held = setting.held, !.owns = TRUE]>>
    /\ dirty = FALSE /\ pr = "open"
    /\ sent = {[type |-> "opened"]}
    /\ merging = {} /\ checking = {} /\ told = {}

----------------------------------------------------------------------------
(* GitHub and people.                                                         *)

SuiteEnds(h, s, c) ==
    /\ s \in DOMAIN suites[h] /\ suites[h][s] = "running"
    /\ suites' = [suites EXCEPT ![h][s] = c]
    /\ sent' = sent \cup {[type |-> "suite", sha |-> h, suite |-> s]}
    /\ UNCHANGED <<setting, dirty, pr, tasks, merging, checking, told>>

BaseMoves ==
    /\ pr = "open" /\ ~dirty /\ dirty' = TRUE
    /\ UNCHANGED <<setting, suites, pr, sent, tasks, merging, checking, told>>

End(state) == pr' = state /\ sent' = sent \cup {[type |-> "closed"]}

(* Also on the server's own merge and close routes, which then stamp a worker *)
(* as Refresh does.                                                           *)
PersonEnds(state) ==
    /\ pr = "open" /\ (state = "merged" => ~dirty) /\ End(state)
    /\ UNCHANGED <<setting, suites, dirty, tasks, merging, checking, told>>

(* GitHub does not repeat a delivery to an App.                               *)
Lose(e) ==
    /\ e.type \in Faults /\ sent' = sent \ {e}
    /\ UNCHANGED <<setting, github, tasks, merging, checking, told>>

----------------------------------------------------------------------------
(* Conflict retries and the automatic merge.                                  *)

(* The unique indexes on workspace, pull request and commit.                  *)
KnownOpen(kind, sha) ==   \* Mutant: the index covers open tasks only.
    \E t \in DOMAIN tasks : /\ tasks[t].kind = kind /\ tasks[t].sha = sha
                           /\ tasks[t].status = "pending"

KnownPerPr(kind, sha) ==   \* Mutant: the index has no commit.
    \E t \in DOMAIN tasks : tasks[t].kind = kind

Known(kind, sha) == \E t \in DOMAIN tasks : tasks[t].kind = kind /\ tasks[t].sha = sha

(* dispatchConflictRetry(): one task per commit.  Its context has no          *)
(* iteration.                                                                 *)
ConflictRetry(h, w, escalate) ==
    LET n == tasks[w].conflictIteration
    IN \/ /\ n >= MaxConflictIterations
          /\ IF escalate THEN Tell(h) ELSE UNCHANGED told
          /\ UNCHANGED tasks
       \/ /\ n < MaxConflictIterations /\ Known("conflict", h)
          /\ UNCHANGED <<tasks, told>>
       \/ /\ n < MaxConflictIterations /\ ~Known("conflict", h)
          /\ Insert(Task("conflict", 0, n + 1, h))
          /\ UNCHANGED told

(* evaluateAutoMergeSafety(): the check runs of the commit the caller names,  *)
(* but the files and the mergeability of the pull request.  A read of the     *)
(* check runs that fails is passed over; so is a mergeability GitHub is still *)
(* computing.                                                                 *)
ChecksHold(h) == \A s \in DOMAIN suites[h] : suites[h][s] \notin Bad

TryMergeSilently(h, w) ==   \* Mutant: nobody hears of what was blocked.
    \/ UNCHANGED <<tasks, merging, told>>
    \/ /\ ChecksHold(h)
       /\ merging' = merging \cup {[sha |-> h, worker |-> w]}
       /\ UNCHANGED <<tasks, told>>

TryMerge(h, w) ==
    \/ /\ Tell(h)                \* checks, size, protected path or branch protection
       /\ UNCHANGED <<tasks, merging>>
    \/ /\ ChecksHold(h) \/ "checkRuns" \in Faults
       /\ \/ /\ dirty /\ ConflictRetry(h, w, TRUE)
             /\ UNCHANGED merging
          \/ /\ merging' = merging \cup {[sha |-> h, worker |-> w]}
             /\ UNCHANGED <<tasks, told>>

(* mergePullRequest() names no commit: GitHub merges the head of now.  A      *)
(* refusal whose message speaks of a conflict makes a retry, whose result is  *)
(* not looked at; any other, also of a clean pull request (a protected        *)
(* branch, one that is behind, a failed call), is only logged.                *)
Merge(m) ==
    /\ merging' = merging \ {m}
    /\ \/ /\ pr = "open" /\ ~dirty /\ End("merged")
          /\ UNCHANGED <<tasks, told>>
       \/ /\ pr = "open" /\ dirty /\ ConflictRetry(m.sha, m.worker, FALSE)
          /\ UNCHANGED <<pr, sent>>
       \/ UNCHANGED <<pr, sent, tasks, told>>
    /\ UNCHANGED <<setting, suites, dirty, checking>>

----------------------------------------------------------------------------
(* Webhook deliveries, in any order, and the verdicts of reviews.             *)

(* resolvePolicy(), asked with the task of the worker that was found.         *)
Policy(w) == IF tasks[w].held THEN "human" ELSE tier

(* handlePullRequestEvent(), action 'opened': maybeDispatchReviewer(), which  *)
(* asks for the policy without the task and may hand a protected path         *)
(* straight to a person, else maybeAutoMergeNoCiPr().                         *)
Opened(w) ==
    IF tier \in {"agent-review", "approve-only"}
    THEN /\ \/ /\ Insert(Task("review", tasks[w].iteration, 0, 1))
               /\ UNCHANGED told
            \/ /\ Alert(1) /\ UNCHANGED tasks
         /\ UNCHANGED merging
    ELSE IF Policy(w) = "auto-threshold" /\ DOMAIN suites[1] = {}
    THEN TryMerge(1, w)
    ELSE UNCHANGED <<tasks, merging, told>>

(* allCheckSuitesPassed() reads the suites of now; if it cannot, the commit   *)
(* has not passed.                                                            *)
NoSuiteFailed(h) ==   \* Mutant: a suite that runs counts as passed.
    \A s \in DOMAIN suites[h] : suites[h][s] # "failure"

AllPassed(h) == \A s \in DOMAIN suites[h] : suites[h][s] \notin Bad

(* handleCheckSuiteEvent(), conclusion 'success'.                             *)
SuiteSucceeded(h, w) ==
    \/ /\ \/ "checkSuites" \in Faults
          \/ ~AllPassed(h)
          \/ Policy(w) \in {"agent-review", "approve-only"}
       /\ UNCHANGED <<tasks, merging, told>>
    \/ /\ AllPassed(h) /\ Policy(w) = "human"
       /\ Tell(h) /\ UNCHANGED <<tasks, merging>>
    \/ /\ AllPassed(h) /\ Policy(w) = "auto-threshold"
       /\ TryMerge(h, w)

ExhaustedLate(n) == n > MaxIterations   \* Mutant: one retry too many.

Exhausted(n) == n >= MaxIterations

(* handleCheckSuiteFailure() with buildCIRetryTask(): one task per commit.    *)
SuiteFailed(h, w) ==
    LET n == tasks[w].iteration
    IN /\ \/ /\ Exhausted(n)
             /\ tasks' = [tasks EXCEPT ![w].status = "failed"]
             /\ Tell(h)
          \/ /\ ~Exhausted(n) /\ Known("ci", h)
             /\ UNCHANGED <<tasks, told>>
          \/ /\ ~Exhausted(n) /\ ~Known("ci", h)
             /\ Insert(Task("ci", n + 1, 0, h))
             /\ UNCHANGED told
       /\ UNCHANGED merging

(* handlePullRequestEvent(), action 'closed': stamps the one worker it finds  *)
(* and completes its task, whatever that has become.                          *)
Closed(w) ==
    /\ IF pr = "merged"
       THEN tasks' = [tasks EXCEPT ![w].mergedAt = TRUE, ![w].status = "completed"]
       ELSE UNCHANGED tasks
    /\ UNCHANGED <<merging, told>>

(* handleReviewerOutcomeIfNeeded(): a step of the request that ended the      *)
(* review, on the commit that was reviewed.                                   *)
Outcome(t, w) ==
    LET r == tasks[t]
    IN \/ /\ r.status = "approve" /\ tier = "agent-review"
          /\ TryMerge(r.sha, w)
       \/ /\ r.status = "request-changes" /\ r.iteration < MaxIterations
          /\ Insert(Task("changes", r.iteration + 1, 0, r.sha))
          /\ UNCHANGED <<merging, told>>
       \/ /\ r.status = "approve" /\ tier = "approve-only"
          /\ Tell(r.sha) /\ UNCHANGED <<tasks, merging>>
       \/ /\ \/ r.status = "request-changes" /\ r.iteration >= MaxIterations
             \/ r.status = "escalate"
          /\ Alert(r.sha) /\ UNCHANGED <<tasks, merging>>

Deliver(e) ==
    /\ sent' = sent \ {e}
    /\ \E w \in Owners :
         \/ e.type = "opened" /\ Opened(w)
         \/ e.type = "closed" /\ Closed(w)
         \/ e.type = "verdict" /\ Outcome(e.task, w)
         \/ /\ e.type = "suite"
            /\ CASE suites[e.sha][e.suite] = "success" -> SuiteSucceeded(e.sha, w)
                 [] suites[e.sha][e.suite] = "failure" -> SuiteFailed(e.sha, w)
                 [] OTHER -> UNCHANGED <<tasks, merging, told>>
    /\ UNCHANGED <<setting, github, checking>>

----------------------------------------------------------------------------
(* Workers of the follow-ups.                                                 *)
FollowUps == {t \in DOMAIN tasks : tasks[t].kind \in {"ci", "conflict", "changes"}}

(* A follow-up goes on on the same branch; only a conflict retry is asked to  *)
(* merge the base.  GitHub's 'synchronize' delivery changes nothing here.     *)
Push(t) ==
    /\ t \in FollowUps /\ tasks[t].status = "pending" /\ pr = "open" /\ head < MaxHeads
    /\ suites' = Append(suites, [s \in DOMAIN suites[head] |-> "running"])
    /\ dirty' = (dirty /\ tasks[t].kind # "conflict")
    /\ tasks' = [tasks EXCEPT ![t].status = "pushed"]
    /\ UNCHANGED <<setting, pr, sent, merging, checking, told>>

(* create_pr or the report of the end finds the branch's open pull request    *)
(* and puts it on the worker.                                                 *)
Report(t) ==
    /\ t \in FollowUps
    /\ \/ /\ tasks[t].status = "pushed"
          /\ tasks' = [tasks EXCEPT ![t].status = "completed", ![t].owns = pr = "open"]
       \/ /\ tasks[t].status = "pending"
          /\ tasks' = [tasks EXCEPT ![t].status = "failed"]
    /\ UNCHANGED <<setting, github, sent, merging, checking, told>>

(* A review that ends without a verdict has no outcome.                       *)
Verdicts == {"approve", "request-changes", "escalate"}

ReviewEnds(t, result) ==
    /\ tasks[t].kind = "review" /\ tasks[t].status = "pending"
    /\ tasks' = [tasks EXCEPT ![t].status = result]
    /\ sent' = IF result \in Verdicts THEN sent \cup {[type |-> "verdict", task |-> t]}
                                     ELSE sent
    /\ UNCHANGED <<setting, github, merging, checking, told>>

----------------------------------------------------------------------------
(* Reconciliation with GitHub.                                                *)

RefreshOpener(w) ==   \* Mutant: only the worker that opened the pull request.
    /\ w = 1 /\ tasks[w].owns /\ ~tasks[w].mergedAt /\ pr = "merged"
    /\ tasks' = [tasks EXCEPT ![w].mergedAt = TRUE]
    /\ UNCHANGED <<setting, github, sent, merging, checking, told>>

(* reconcileStalePrWorkers() and refreshWorkerMergeStateIfStale(): only ever  *)
(* stamp, and only a worker that has no stamp.                                *)
Refresh(w) ==
    /\ w \in Owners /\ ~tasks[w].mergedAt /\ pr = "merged"
    /\ tasks' = [tasks EXCEPT ![w].mergedAt = TRUE]
    /\ UNCHANGED <<setting, github, sent, merging, checking, told>>

(* reconcileWorkerPrState() reads GitHub, and writes what it has read, an     *)
(* empty mergedAt too, when the row it was given differs from it in mergedAt  *)
(* or in the recorded state of the pull request.                              *)
ReadState(w) ==
    /\ w \in Owners /\ checking = {}     \* bound: one reconciliation at a time
    /\ checking' = checking \cup {[worker |-> w, merged |-> pr = "merged"]}
    /\ UNCHANGED <<setting, github, sent, tasks, merging, told>>

WriteState(c) ==
    /\ checking' = checking \ {c}
    /\ \/ tasks' = [tasks EXCEPT ![c.worker].mergedAt = c.merged]
       \/ UNCHANGED tasks
    /\ UNCHANGED <<setting, github, sent, merging, told>>

----------------------------------------------------------------------------
Next ==
    \/ \E h \in DOMAIN suites, s \in Suites, c \in Conclusions : SuiteEnds(h, s, c)
    \/ BaseMoves
    \/ \E state \in {"merged", "closed"} : PersonEnds(state)
    \/ \E e \in sent : Deliver(e) \/ Lose(e)
    \/ \E m \in merging : Merge(m)
    \/ \E t \in DOMAIN tasks : Push(t) \/ Report(t)
    \/ \E t \in DOMAIN tasks, r \in Verdicts \cup {"completed"} : ReviewEnds(t, r)
    \/ \E w \in DOMAIN tasks : Refresh(w) \/ ReadState(w)
    \/ \E c \in checking : WriteState(c)

Spec == Init /\ [][Next]_vars

(* GitHub delivers what it does not lose, the server handles it, and the      *)
(* reconciliation comes every day.                                            *)
LiveSpec ==
    /\ Spec
    /\ WF_vars(\E e \in sent : Deliver(e))
    /\ WF_vars(\E m \in merging : Merge(m))
    /\ WF_vars(\E w \in DOMAIN tasks : Refresh(w))

----------------------------------------------------------------------------
(* Type invariant.                                                            *)
Kinds == {"work", "ci", "conflict", "changes", "review"}
Statuses == {"pending", "pushed", "completed", "failed"} \cup Verdicts

Row == [kind : Kinds, iteration : 0..MaxIterations,
        conflictIteration : 0..MaxConflictIterations, sha : 1..head,
        status : Statuses, held : BOOLEAN, owns : BOOLEAN, mergedAt : BOOLEAN]

TypeOK ==
    /\ setting \in Starts
    /\ suites \in Seq([setting.suites -> {"running"} \cup Conclusions])
    /\ head \in 1..MaxHeads
    /\ dirty \in BOOLEAN /\ pr \in {"open", "merged", "closed"}
    /\ sent \subseteq [type : {"opened", "closed"}]
                   \cup [type : {"suite"}, sha : 1..head, suite : Suites]
                   \cup [type : {"verdict"}, task : DOMAIN tasks]
    /\ tasks \in Seq(Row)
    /\ Len(tasks) \in 1..MaxTasks
    /\ merging \subseteq [sha : 1..head, worker : DOMAIN tasks]
    /\ checking \subseteq [worker : DOMAIN tasks, merged : BOOLEAN]
    /\ told \subseteq 1..head

(* webhook/route.ts:862: whatever order the failures of several suites and    *)
(* the merge attempts come in, a commit is followed up once for its CI and    *)
(* once for its conflicts.                                                    *)
OneFollowUpPerCommit ==
    \A t, u \in DOMAIN tasks :
        tasks[t].kind = tasks[u].kind /\ tasks[t].kind \in {"ci", "conflict"}
            /\ tasks[t].sha = tasks[u].sha => t = u

(* auto-merge.ts:22: an automatic merge under way was allowed by the policy:  *)
(* its commit was green, or has been approved, although the check runs are    *)
(* passed over when they cannot be read and suites end while verdicts and     *)
(* deliveries are handled.                                                    *)
Allowed(h) ==
    \/ tier = "auto-threshold" /\ ChecksHold(h)
    \/ /\ tier = "agent-review"
       /\ \E t \in DOMAIN tasks : tasks[t].kind = "review"
                /\ tasks[t].status = "approve" /\ tasks[t].sha = h

MergeAllowed == \A m \in merging : Allowed(m.sha)

(* webhook/route.ts:411: a suite that ends while others run leaves the commit *)
(* to the last of them: under the automatic policy no green head of an open   *)
(* pull request without conflicts waits for ever, unless the mission's people *)
(* are told or GitHub has been asked to merge it.  It says no more than       *)
(* asked: a refusal for another reason than a conflict is only logged, and    *)
(* nothing repeats the attempt.  A task of no mission has nobody to tell.     *)
Green(h) == DOMAIN suites[h] # {} /\ \A s \in DOMAIN suites[h] : suites[h][s] = "success"

Waits(h) ==
    /\ tier = "auto-threshold" /\ setting.mission
    /\ h = head /\ Green(h) /\ h \notin told
    /\ pr = "open" /\ ~dirty

Asked(h) == \E m \in merging : m.sha = h

GreenIsTried == \A h \in 1..MaxHeads : <>[]Waits(h) => <>Asked(h)

(* webhook/route.ts:854: a red commit gets its follow-up, whichever worker is *)
(* found; or a worker's retries are at their end, and the mission's people    *)
(* are told.  Of a task without a mission its failure is all there is to see. *)
GivenUp(h) ==
    \/ h \in told
    \/ ~setting.mission /\ \E w \in Owners : Exhausted(tasks[w].iteration)

RedIsAnswered ==
    \A h \in 1..MaxHeads :
        (h <= head /\ \E s \in DOMAIN suites[h] : suites[h][s] = "failure")
            ~> (\/ \E t \in DOMAIN tasks : tasks[t].kind = "ci" /\ tasks[t].sha = h
                \/ GivenUp(h) \/ Len(tasks) = MaxTasks)

(* pr-state-reconcile.ts:34: every worker of a merged pull request is stamped *)
(* in the end, although the delivery may be lost, finds one worker of several *)
(* and races with a reconciliation that read GitHub before the merge.         *)
MergeIsLearned ==
    <>[](pr = "merged" => \A w \in Owners : tasks[w].mergedAt)

----------------------------------------------------------------------------
(* What the repository says and the code does not keep.                       *)

(* schema.ts:823: the pull request of a task that requires review is not      *)
(* merged automatically, whichever of its workers a delivery finds.           *)
HeldForPeople == tasks[1].held => merging = {}
=============================================================================
