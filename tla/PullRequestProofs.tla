-------------------------- MODULE PullRequestProofs --------------------------
(* TypeOK, OneFollowUpPerCommit and MergeAllowed of PullRequest for any       *)
(* policies, suites, faults and bounds.                                       *)
EXTENDS PullRequest, SequenceTheorems, TLAPS

(* A review never has the pull request, so that nothing but its own end       *)
(* writes its row: an approval that is handled late is still an approval.     *)
ReviewsOwnNothing ==
    \A t \in DOMAIN tasks : tasks[t].kind = "review" => ~tasks[t].owns

VerdictsOfReviews ==
    \A e \in sent : e.type = "verdict" => tasks[e.task].kind = "review"

IInv ==
    /\ TypeOK
    /\ OneFollowUpPerCommit
    /\ ReviewsOwnNothing
    /\ VerdictsOfReviews
    /\ MergeAllowed

(* What every step does to the tasks: no row changes its kind or its commit,  *)
(* a review that has ended keeps its verdict, and at most one row is added,   *)
(* of a kind and commit that are new.                                         *)
Kept(t) ==
    /\ tasks'[t].kind = tasks[t].kind /\ tasks'[t].sha = tasks[t].sha
    /\ tasks[t].kind = "review" =>
          /\ tasks'[t].owns = tasks[t].owns
          /\ tasks[t].status # "pending" => tasks'[t].status = tasks[t].status

Fresh(t) ==
    /\ t = Len(tasks) + 1 /\ ~tasks'[t].owns
    /\ tasks'[t].kind \in {"ci", "conflict"} => ~Known(tasks'[t].kind, tasks'[t].sha)

TasksStep ==
    /\ tasks' \in Seq(Row)
    /\ Len(tasks') \in Len(tasks)..MaxTasks
    /\ \A t \in 1..Len(tasks) : Kept(t)
    /\ \A t \in 1..Len(tasks') : t > Len(tasks) => Fresh(t)

LEMMA Shapes ==
    ASSUME TypeOK
    PROVE  /\ DOMAIN tasks = 1..Len(tasks) /\ Len(tasks) \in Nat \ {0}
           /\ \A t \in DOMAIN tasks : tasks[t] \in Row
           /\ DOMAIN suites = 1..head /\ head \in Nat \ {0}
           /\ Owners \subseteq DOMAIN tasks
BY DEF TypeOK, head, Owners

(* What sent may hold.                                                        *)
Deliveries == [type : {"opened", "closed"}]
         \cup [type : {"suite"}, sha : 1..head, suite : Suites]
         \cup [type : {"verdict"}, task : DOMAIN tasks]

(* The three ways to write tasks.                                             *)
LEMMA SameStep ==
    ASSUME TypeOK, UNCHANGED tasks
    PROVE  TasksStep
BY Shapes DEF TypeOK, TasksStep, Kept

LEMMA InsertStep ==
    ASSUME TypeOK, NEW k \in Kinds, NEW i \in 0..MaxIterations,
           NEW c \in 0..MaxConflictIterations, NEW h \in 1..head,
           Insert(Task(k, i, c, h)), k \in {"ci", "conflict"} => ~Known(k, h)
    PROVE  TasksStep
<1> DEFINE r == Task(k, i, c, h)
<1>1. r \in Row
      BY DEF Task, Row, Statuses
<1>2. r.kind = k /\ r.sha = h /\ r.owns = FALSE
      BY DEF Task
<1>3. tasks \in Seq(Row) /\ tasks' = Append(tasks, r) /\ Len(tasks) < MaxTasks
      BY DEF TypeOK, Insert
<1> HIDE DEF r
<1>4. /\ tasks' \in Seq(Row) /\ Len(tasks') = Len(tasks) + 1
      /\ \A t \in 1..Len(tasks) : tasks'[t] = tasks[t]
      /\ tasks'[Len(tasks) + 1] = r
      BY <1>1, <1>3, AppendProperties
<1>5. Len(tasks) \in Nat /\ MaxTasks \in Nat
      BY Shapes, PullRequestAssumption
<1> QED  BY <1>2, <1>3, <1>4, <1>5 DEF TasksStep, Kept, Fresh

LEMMA UpdateStep ==
    ASSUME TypeOK, NEW w \in DOMAIN tasks, NEW r \in Row,
           r.kind = tasks[w].kind, r.sha = tasks[w].sha,
           tasks[w].kind = "review" =>
              /\ r.owns = tasks[w].owns
              /\ tasks[w].status # "pending" => r.status = tasks[w].status,
           tasks' = [tasks EXCEPT ![w] = r]
    PROVE  TasksStep
<1>1. w \in 1..Len(tasks) /\ tasks \in Seq(Row) /\ Len(tasks) \in 1..MaxTasks
      BY Shapes DEF TypeOK
<1>2. /\ tasks' \in Seq(Row) /\ Len(tasks') = Len(tasks)
      /\ \A t \in 1..Len(tasks) : tasks'[t] = IF t = w THEN r ELSE tasks[t]
      BY <1>1, ExceptSeq
<1> QED  BY <1>1, <1>2, PullRequestAssumption DEF TasksStep, Kept

(* What a step of the tasks keeps.                                            *)
LEMMA Monotone ==
    ASSUME TypeOK, head' \in head..MaxHeads, TasksStep
    PROVE  /\ tasks' \in Seq(Row') /\ Len(tasks') \in 1..MaxTasks
           /\ DOMAIN tasks' = 1..Len(tasks')
           /\ DOMAIN tasks \subseteq DOMAIN tasks'
           /\ 1..head \subseteq 1..head'
<1>1. head \in Nat \ {0} /\ MaxHeads \in Nat /\ MaxTasks \in Nat /\ Len(tasks) \in Nat \ {0}
      BY Shapes, PullRequestAssumption
<1>2. 1..head \subseteq 1..head'
      BY <1>1
<1>3. Row \subseteq Row'
      BY <1>2 DEF Row
<1>4. tasks' \in Seq(Row')
      BY <1>3 DEF TasksStep
<1> QED  BY <1>1, <1>2, <1>4, Shapes DEF TasksStep

LEMMA StepKeeps ==
    ASSUME IInv, TasksStep
    PROVE  OneFollowUpPerCommit' /\ ReviewsOwnNothing'
<1>1. /\ DOMAIN tasks = 1..Len(tasks) /\ Len(tasks) \in Nat
      /\ DOMAIN tasks' = 1..Len(tasks') /\ Len(tasks') \in Nat
      BY Shapes, PullRequestAssumption DEF IInv, TasksStep
<1>2. ReviewsOwnNothing'
      BY <1>1 DEF IInv, ReviewsOwnNothing, TasksStep, Kept, Fresh
<1>3. ASSUME NEW t \in 1..Len(tasks'), NEW u \in 1..Len(tasks'),
             tasks'[t].kind = tasks'[u].kind, tasks'[t].kind \in {"ci", "conflict"},
             tasks'[t].sha = tasks'[u].sha
      PROVE  t = u
  <2>1. CASE t \in 1..Len(tasks) /\ u \in 1..Len(tasks)
        BY <1>1, <1>3, <2>1 DEF IInv, OneFollowUpPerCommit, TasksStep, Kept
  <2>2. CASE t > Len(tasks) /\ u > Len(tasks)
        BY <1>1, <2>2 DEF TasksStep, Fresh
  <2>3. CASE t > Len(tasks) /\ u \in 1..Len(tasks)
        BY <1>1, <1>3, <2>3 DEF TasksStep, Kept, Fresh, Known
  <2>4. CASE u > Len(tasks) /\ t \in 1..Len(tasks)
        BY <1>1, <1>3, <2>4 DEF TasksStep, Kept, Fresh, Known
  <2> QED  BY <1>1, <2>1, <2>2, <2>3, <2>4
<1> QED  BY <1>1, <1>2, <1>3 DEF OneFollowUpPerCommit

LEMMA AllowedKept ==
    ASSUME IInv, TasksStep, UNCHANGED setting, NEW h,
           Allowed(h), ChecksHold(h) => ChecksHold(h)'
    PROVE  Allowed(h)'
<1>1. /\ DOMAIN tasks = 1..Len(tasks) /\ Len(tasks) \in Nat
      /\ DOMAIN tasks' = 1..Len(tasks') /\ Len(tasks') \in Nat
      BY Shapes, PullRequestAssumption DEF IInv, TasksStep
<1> QED  BY <1>1 DEF Allowed, tier, TasksStep, Kept

LEMMA VerdictsKept ==
    ASSUME IInv, TasksStep, sent' \subseteq Deliveries,
           \A e \in sent' : \/ e \in sent \/ e.type # "verdict"
                           \/ tasks[e.task].kind = "review"
    PROVE  VerdictsOfReviews'
<1>1. \A e \in sent' : e.type = "verdict" => e.task \in DOMAIN tasks
      BY DEF Deliveries
<1>2. DOMAIN tasks = 1..Len(tasks)
      BY Shapes DEF IInv
<1> QED  BY <1>1, <1>2 DEF IInv, VerdictsOfReviews, TasksStep, Kept

----------------------------------------------------------------------------
(* What a handler may do: step the tasks, tell of known commits, and start    *)
(* merges that are allowed.                                                   *)
Handled ==
    /\ TasksStep
    /\ told' \subseteq 1..head
    /\ merging' \subseteq [sha : 1..head, worker : DOMAIN tasks]
    /\ \A m \in merging' : m \in merging \/ Allowed(m.sha)

LEMMA HandledNothing ==
    ASSUME IInv, UNCHANGED <<tasks, merging>>, told' \subseteq 1..head
    PROVE  Handled
BY SameStep DEF IInv, TypeOK, Handled

LEMMA HandledTasks ==
    ASSUME IInv, TasksStep, UNCHANGED <<merging, told>>
    PROVE  Handled
BY DEF IInv, TypeOK, Handled

LEMMA TellType ==
    ASSUME IInv, NEW h \in 1..head, Tell(h)
    PROVE  told' \subseteq 1..head
BY DEF IInv, TypeOK, Tell, Alert

LEMMA AlertType ==
    ASSUME IInv, NEW h \in 1..head, Alert(h)
    PROVE  told' \subseteq 1..head
BY DEF IInv, TypeOK, Alert

LEMMA RowType ==
    ASSUME IInv, NEW w \in DOMAIN tasks
    PROVE  /\ tasks[w].kind \in Kinds /\ tasks[w].sha \in 1..head
           /\ tasks[w].iteration \in 0..MaxIterations
           /\ tasks[w].conflictIteration \in 0..MaxConflictIterations
           /\ {MaxIterations, MaxConflictIterations} \subseteq Nat
BY Shapes, PullRequestAssumption DEF IInv, Row

LEMMA ConflictRetryHandled ==
    ASSUME IInv, NEW h \in 1..head, NEW w \in DOMAIN tasks, NEW e, ConflictRetry(h, w, e)
    PROVE  TasksStep /\ told' \subseteq 1..head
<1> DEFINE n == tasks[w].conflictIteration
<1>1. CASE UNCHANGED tasks
      BY <1>1, SameStep, TellType DEF IInv, TypeOK, ConflictRetry
<1>2. CASE /\ n < MaxConflictIterations /\ ~Known("conflict", h)
           /\ Insert(Task("conflict", 0, n + 1, h)) /\ UNCHANGED told
  <2>1. /\ n + 1 \in 0..MaxConflictIterations /\ 0 \in 0..MaxIterations
        /\ "conflict" \in Kinds
        BY <1>2, RowType DEF Kinds
  <2>2. TasksStep
        BY <1>2, <2>1, InsertStep DEF IInv
  <2> QED  BY <1>2, <2>2 DEF IInv, TypeOK
<1> QED  BY <1>1, <1>2 DEF ConflictRetry

LEMMA TryMergeHandled ==
    ASSUME IInv, NEW h \in 1..head, NEW w \in DOMAIN tasks, TryMerge(h, w), Allowed(h)
    PROVE  Handled
<1>1. CASE Tell(h) /\ UNCHANGED <<tasks, merging>>
      BY <1>1, HandledNothing, TellType
<1>2. CASE ConflictRetry(h, w, TRUE) /\ UNCHANGED merging
      BY <1>2, ConflictRetryHandled DEF IInv, TypeOK, Handled
<1>3. CASE /\ merging' = merging \cup {[sha |-> h, worker |-> w]}
           /\ UNCHANGED <<tasks, told>>
  <2>1. TasksStep
        BY <1>3, SameStep DEF IInv
  <2> QED  BY <1>3, <2>1 DEF IInv, TypeOK, Handled
<1> QED  BY <1>1, <1>2, <1>3 DEF TryMerge

LEMMA OpenedHandled ==
    ASSUME IInv, NEW w \in Owners, Opened(w)
    PROVE  Handled
<1>1. w \in DOMAIN tasks /\ 1 \in 1..head
      BY Shapes DEF IInv
<1>2. CASE Insert(Task("review", tasks[w].iteration, 0, 1)) /\ UNCHANGED <<merging, told>>
  <2>1. 0 \in 0..MaxConflictIterations /\ "review" \in Kinds
        BY <1>1, RowType DEF Kinds
  <2>2. TasksStep
        BY <1>1, <1>2, <2>1, RowType, InsertStep DEF IInv
  <2> QED  BY <1>2, <2>2, HandledTasks
<1>3. CASE Alert(1) /\ UNCHANGED <<tasks, merging>>
      BY <1>1, <1>3, HandledNothing, AlertType
<1>4. CASE Policy(w) = "auto-threshold" /\ DOMAIN suites[1] = {} /\ TryMerge(1, w)
      BY <1>1, <1>4, TryMergeHandled DEF Policy, Allowed, ChecksHold
<1>5. CASE UNCHANGED <<tasks, merging, told>>
      BY <1>5, HandledNothing DEF IInv, TypeOK
<1> QED  BY <1>2, <1>3, <1>4, <1>5 DEF Opened

LEMMA SuiteSucceededHandled ==
    ASSUME IInv, NEW h \in 1..head, NEW w \in Owners, SuiteSucceeded(h, w)
    PROVE  Handled
<1>1. w \in DOMAIN tasks
      BY Shapes DEF IInv
<1>2. CASE UNCHANGED <<tasks, merging, told>>
      BY <1>2, HandledNothing DEF IInv, TypeOK
<1>3. CASE Tell(h) /\ UNCHANGED <<tasks, merging>>
      BY <1>3, HandledNothing, TellType
<1>4. CASE AllPassed(h) /\ Policy(w) = "auto-threshold" /\ TryMerge(h, w)
      BY <1>1, <1>4, TryMergeHandled DEF Policy, Allowed, AllPassed, ChecksHold
<1> QED  BY <1>2, <1>3, <1>4 DEF SuiteSucceeded

LEMMA SuiteFailedHandled ==
    ASSUME IInv, NEW h \in 1..head, NEW w \in Owners, SuiteFailed(h, w)
    PROVE  Handled
<1> DEFINE n == tasks[w].iteration
<1>1. w \in DOMAIN tasks /\ tasks[w].kind # "review" /\ tasks[w] \in Row
      BY Shapes DEF IInv, Owners, ReviewsOwnNothing
<1>2. CASE tasks' = [tasks EXCEPT ![w].status = "failed"] /\ Tell(h) /\ UNCHANGED merging
  <2> DEFINE r == [tasks[w] EXCEPT !.status = "failed"]
  <2>1. r \in Row /\ r.kind = tasks[w].kind /\ r.sha = tasks[w].sha
        BY <1>1 DEF Row, Statuses
  <2>2. tasks' = [tasks EXCEPT ![w] = r]
        BY <1>2
  <2>3. TasksStep
        BY <1>1, <2>1, <2>2, UpdateStep DEF IInv
  <2> QED  BY <1>2, <2>3, TellType DEF IInv, TypeOK, Handled
<1>3. CASE UNCHANGED <<tasks, merging, told>>
      BY <1>3, HandledNothing DEF IInv, TypeOK
<1>4. CASE /\ ~Exhausted(n) /\ ~Known("ci", h)
           /\ Insert(Task("ci", n + 1, 0, h)) /\ UNCHANGED <<merging, told>>
  <2>1. /\ n + 1 \in 0..MaxIterations /\ 0 \in 0..MaxConflictIterations
        /\ "ci" \in Kinds
        BY <1>1, <1>4, RowType DEF Kinds, Exhausted
  <2>2. TasksStep
        BY <1>4, <2>1, InsertStep DEF IInv
  <2> QED  BY <1>4, <2>2, HandledTasks
<1> QED  BY <1>2, <1>3, <1>4 DEF SuiteFailed

LEMMA ClosedHandled ==
    ASSUME IInv, NEW w \in Owners, Closed(w)
    PROVE  Handled
<1>1. w \in DOMAIN tasks /\ tasks[w].kind # "review" /\ tasks[w] \in Row
      BY Shapes DEF IInv, Owners, ReviewsOwnNothing
<1>2. CASE tasks' = [tasks EXCEPT ![w].mergedAt = TRUE, ![w].status = "completed"]
  <2> DEFINE r == [tasks[w] EXCEPT !.mergedAt = TRUE, !.status = "completed"]
  <2>1. r \in Row /\ r.kind = tasks[w].kind /\ r.sha = tasks[w].sha
        BY <1>1 DEF Row, Statuses
  <2>2. tasks' = [tasks EXCEPT ![w] = r]
        BY <1>1, <1>2
  <2>3. TasksStep
        BY <1>1, <2>1, <2>2, UpdateStep DEF IInv
  <2> QED  BY <2>3, HandledTasks DEF Closed
<1>3. CASE UNCHANGED tasks
      BY <1>3, HandledNothing DEF Closed, IInv, TypeOK
<1> QED  BY <1>2, <1>3 DEF Closed

LEMMA OutcomeHandled ==
    ASSUME IInv, NEW t \in DOMAIN tasks, NEW w \in Owners, tasks[t].kind = "review",
           Outcome(t, w)
    PROVE  Handled
<1> DEFINE r == tasks[t]
<1>1. w \in DOMAIN tasks /\ r.sha \in 1..head
      BY Shapes, RowType DEF IInv
<1>2. CASE r.status = "approve" /\ tier = "agent-review" /\ TryMerge(r.sha, w)
      BY <1>1, <1>2, TryMergeHandled DEF Allowed
<1>3. CASE /\ r.iteration < MaxIterations
           /\ Insert(Task("changes", r.iteration + 1, 0, r.sha))
           /\ UNCHANGED <<merging, told>>
  <2>1. /\ r.iteration + 1 \in 0..MaxIterations /\ 0 \in 0..MaxConflictIterations
        /\ "changes" \in Kinds
        BY <1>3, RowType DEF Kinds
  <2>2. TasksStep
        BY <1>1, <1>3, <2>1, InsertStep DEF IInv
  <2> QED  BY <1>3, <2>2, HandledTasks
<1>4. CASE (Tell(r.sha) \/ Alert(r.sha)) /\ UNCHANGED <<tasks, merging>>
      BY <1>1, <1>4, HandledNothing, TellType, AlertType
<1> QED  BY <1>2, <1>3, <1>4 DEF Outcome

----------------------------------------------------------------------------
(* A step that keeps the invariant.                                           *)
Sound ==
    /\ Handled /\ UNCHANGED setting
    /\ head' \in head..MaxHeads
    /\ suites' \in Seq([setting.suites -> {"running"} \cup Conclusions])
    /\ \A h \in 1..head : ChecksHold(h) => ChecksHold(h)'
    /\ dirty' \in BOOLEAN /\ pr' \in {"open", "merged", "closed"}
    /\ sent' \subseteq Deliveries
    /\ \A e \in sent' : \/ e \in sent \/ e.type # "verdict"
                       \/ tasks[e.task].kind = "review"
    /\ checking' \subseteq [worker : DOMAIN tasks, merged : BOOLEAN]

LEMMA SoundStep ==
    ASSUME IInv, Sound
    PROVE  IInv'
<1>1. TasksStep /\ head' \in head..MaxHeads
      BY DEF Sound, Handled
<1>2. /\ tasks' \in Seq(Row') /\ Len(tasks') \in 1..MaxTasks
      /\ DOMAIN tasks \subseteq DOMAIN tasks' /\ 1..head \subseteq 1..head'
      BY <1>1, Monotone DEF IInv
<1>3. TypeOK'
  <2>1. /\ setting' \in Starts
        /\ suites' \in Seq([setting'.suites -> {"running"} \cup Conclusions])
        BY DEF Sound, IInv, TypeOK
  <2>2. head' \in 1..MaxHeads
        BY <1>1, Shapes, PullRequestAssumption DEF IInv
  <2>3. sent' \subseteq [type : {"opened", "closed"}]
                  \cup [type : {"suite"}, sha : 1..head', suite : Suites]
                  \cup [type : {"verdict"}, task : DOMAIN tasks']
        BY <1>2 DEF Sound, Deliveries
  <2>4. /\ merging' \subseteq [sha : 1..head', worker : DOMAIN tasks']
        /\ checking' \subseteq [worker : DOMAIN tasks', merged : BOOLEAN]
        /\ told' \subseteq 1..head'
        BY <1>2 DEF Sound, Handled
  <2>5. dirty' \in BOOLEAN /\ pr' \in {"open", "merged", "closed"}
        BY DEF Sound
  <2> QED  BY <1>2, <2>1, <2>2, <2>3, <2>4, <2>5 DEF TypeOK, Suites
<1>4. OneFollowUpPerCommit' /\ ReviewsOwnNothing'
      BY <1>1, StepKeeps
<1>5. VerdictsOfReviews'
      BY <1>1, VerdictsKept DEF Sound
<1>6. MergeAllowed'
  <2> SUFFICES ASSUME NEW m \in merging' PROVE Allowed(m.sha)'
      BY DEF MergeAllowed
  <2>1. Allowed(m.sha) /\ m.sha \in 1..head
        BY DEF Sound, Handled, IInv, MergeAllowed
  <2> QED  BY <1>1, <2>1, AllowedKept DEF Sound
<1> QED  BY <1>3, <1>4, <1>5, <1>6 DEF IInv

(* What a step that leaves GitHub alone need not say again.                   *)
LEMMA SameGitHub ==
    ASSUME IInv, UNCHANGED <<setting, suites>>
    PROVE  /\ head' \in head..MaxHeads
           /\ suites' \in Seq([setting.suites -> {"running"} \cup Conclusions])
           /\ \A h \in 1..head : ChecksHold(h) => ChecksHold(h)'
BY PullRequestAssumption DEF IInv, TypeOK, head, ChecksHold

LEMMA SentType ==
    ASSUME IInv
    PROVE  sent \subseteq Deliveries
BY DEF IInv, TypeOK, Deliveries

LEMMA DeliverKeeps ==
    ASSUME IInv, NEW e \in sent, Deliver(e)
    PROVE  IInv'
<1>1. PICK w \in Owners :
         \/ e.type = "opened" /\ Opened(w)
         \/ e.type = "closed" /\ Closed(w)
         \/ e.type = "verdict" /\ Outcome(e.task, w)
         \/ /\ e.type = "suite"
            /\ \/ SuiteSucceeded(e.sha, w)
               \/ SuiteFailed(e.sha, w)
               \/ UNCHANGED <<tasks, merging, told>>
      BY DEF Deliver
<1>2. /\ e.type = "verdict" => e.task \in DOMAIN tasks /\ tasks[e.task].kind = "review"
      /\ e.type = "suite" => e.sha \in 1..head
      BY SentType DEF Deliveries, IInv, VerdictsOfReviews
<1>3. Handled
  <2>1. CASE UNCHANGED <<tasks, merging, told>>
        BY <2>1, HandledNothing DEF IInv, TypeOK
  <2> QED  BY <1>1, <1>2, <2>1, OpenedHandled, ClosedHandled, OutcomeHandled,
              SuiteSucceededHandled, SuiteFailedHandled
<1>4. Sound
      BY <1>3, SameGitHub, SentType DEF Deliver, Sound, github, IInv, TypeOK
<1> QED  BY <1>4, SoundStep

LEMMA MergeKeeps ==
    ASSUME IInv, NEW m \in merging, Merge(m)
    PROVE  IInv'
<1>1. m.sha \in 1..head /\ m.worker \in DOMAIN tasks
      BY DEF IInv, TypeOK
<1>2. TasksStep /\ told' \subseteq 1..head
  <2>1. CASE UNCHANGED <<tasks, told>>
        BY <2>1, SameStep DEF IInv, TypeOK
  <2>2. CASE ConflictRetry(m.sha, m.worker, FALSE)
        BY <1>1, <2>2, ConflictRetryHandled
  <2> QED  BY <2>1, <2>2 DEF Merge
<1>3. Handled
      BY <1>2 DEF Merge, Handled, IInv, TypeOK
<1>4. /\ sent' \subseteq Deliveries /\ \A e \in sent' : e \in sent \/ e.type # "verdict"
      /\ pr' \in {"open", "merged", "closed"}
  <2>1. [type |-> "closed"] \in Deliveries
        BY DEF Deliveries
  <2>2. \/ sent' = sent /\ pr' = pr
        \/ sent' = sent \cup {[type |-> "closed"]} /\ pr' = "merged"
        BY DEF Merge, End
  <2> QED  BY <2>1, <2>2, SentType DEF IInv, TypeOK
<1>5. Sound
      BY <1>3, <1>4, SameGitHub DEF Merge, Sound, IInv, TypeOK
<1> QED  BY <1>5, SoundStep

(* A suite that ends was running: no commit stops being green by it.          *)
LEMMA SuiteEndsKeeps ==
    ASSUME IInv, NEW h \in DOMAIN suites, NEW s \in Suites, NEW c \in Conclusions,
           SuiteEnds(h, s, c)
    PROVE  IInv'
<1>1. h \in 1..head
      BY Shapes DEF IInv
<1>2. suites \in Seq([setting.suites -> {"running"} \cup Conclusions])
      BY DEF IInv, TypeOK
<1> DEFINE F == [setting.suites -> {"running"} \cup Conclusions]
           f == [suites[h] EXCEPT ![s] = c]
<1>3. f \in F /\ suites' = [suites EXCEPT ![h] = f]
      BY <1>1, <1>2 DEF SuiteEnds, head
<1>4. /\ suites' \in Seq(F) /\ Len(suites') = Len(suites)
      /\ \A k \in 1..head : suites'[k] = IF k = h THEN f ELSE suites[k]
      BY <1>1, <1>2, <1>3, ExceptSeq DEF head
<1>5. \A k \in 1..head : ChecksHold(k) => ChecksHold(k)'
  <2> SUFFICES ASSUME NEW k \in 1..head, ChecksHold(k) PROVE ChecksHold(k)'
      OBVIOUS
  <2>1. k # h
        BY DEF SuiteEnds, ChecksHold, Bad
  <2> QED  BY <1>4, <2>1 DEF ChecksHold, Bad
<1>6. Handled
      BY HandledNothing DEF SuiteEnds, IInv, TypeOK
<1>7. /\ sent' \subseteq Deliveries /\ \A e \in sent' : e \in sent \/ e.type # "verdict"
      BY <1>1, SentType DEF SuiteEnds, Deliveries
<1>8. head' \in head..MaxHeads
      BY <1>4, PullRequestAssumption DEF IInv, TypeOK, head
<1>9. Sound
      BY <1>2, <1>4, <1>5, <1>6, <1>7, <1>8 DEF SuiteEnds, Sound, IInv, TypeOK
<1> QED  BY <1>9, SoundStep

LEMMA PushKeeps ==
    ASSUME IInv, NEW t \in DOMAIN tasks, Push(t)
    PROVE  IInv'
<1>1. suites \in Seq([setting.suites -> {"running"} \cup Conclusions])
      BY DEF IInv, TypeOK
<1> DEFINE F == [setting.suites -> {"running"} \cup Conclusions]
           f == [s \in DOMAIN suites[head] |-> "running"]
<1>2. f \in F
      BY <1>1, Shapes DEF IInv, head
<1>3. /\ suites' \in Seq(F) /\ Len(suites') = Len(suites) + 1
      /\ \A k \in 1..head : suites'[k] = suites[k]
      BY <1>1, <1>2, AppendProperties DEF Push, head
<1>4. head' \in head..MaxHeads
      BY <1>3, Shapes, PullRequestAssumption DEF Push, IInv, head
<1>5. \A k \in 1..head : ChecksHold(k) => ChecksHold(k)'
      BY <1>3 DEF ChecksHold, Bad
<1>6. TasksStep
  <2> DEFINE r == [tasks[t] EXCEPT !.status = "pushed"]
  <2>1. r \in Row /\ r.kind = tasks[t].kind /\ r.sha = tasks[t].sha /\ tasks[t].kind # "review"
        BY Shapes DEF IInv, Push, FollowUps, Row, Statuses
  <2>2. tasks' = [tasks EXCEPT ![t] = r]
        BY DEF Push
  <2> QED  BY <2>1, <2>2, UpdateStep DEF IInv
<1>7. Sound
      BY <1>1, <1>3, <1>4, <1>5, <1>6, HandledTasks, SentType
      DEF Push, Sound, IInv, TypeOK
<1> QED  BY <1>7, SoundStep

(* The steps that leave GitHub and what is sent alone.                        *)
LEMMA QuietKeeps ==
    ASSUME IInv, TasksStep, UNCHANGED <<setting, github, sent, merging, told>>,
           checking' \subseteq [worker : DOMAIN tasks, merged : BOOLEAN]
    PROVE  IInv'
<1>1. Sound
      BY HandledTasks, SameGitHub, SentType DEF github, Sound, IInv, TypeOK
<1> QED  BY <1>1, SoundStep

LEMMA ReportKeeps ==
    ASSUME IInv, NEW t \in DOMAIN tasks, Report(t)
    PROVE  IInv'
<1>1. tasks[t] \in Row /\ tasks[t].kind # "review"
      BY Shapes DEF IInv, Report, FollowUps
<1>2. TasksStep
  <2>1. CASE tasks' = [tasks EXCEPT ![t].status = "completed", ![t].owns = pr = "open"]
    <3> DEFINE r == [tasks[t] EXCEPT !.status = "completed", !.owns = (pr = "open")]
    <3>1. r \in Row /\ r.kind = tasks[t].kind /\ r.sha = tasks[t].sha
          BY <1>1 DEF Row, Statuses
    <3>2. tasks' = [tasks EXCEPT ![t] = r]
          BY <2>1
    <3> QED  BY <1>1, <3>1, <3>2, UpdateStep DEF IInv
  <2>2. CASE tasks' = [tasks EXCEPT ![t].status = "failed"]
    <3> DEFINE r == [tasks[t] EXCEPT !.status = "failed"]
    <3>1. r \in Row /\ r.kind = tasks[t].kind /\ r.sha = tasks[t].sha
          BY <1>1 DEF Row, Statuses
    <3>2. tasks' = [tasks EXCEPT ![t] = r]
          BY <2>2
    <3> QED  BY <1>1, <3>1, <3>2, UpdateStep DEF IInv
  <2> QED  BY <2>1, <2>2 DEF Report
<1> QED  BY <1>2, QuietKeeps DEF Report, IInv, TypeOK

LEMMA ReviewEndsKeeps ==
    ASSUME IInv, NEW t \in DOMAIN tasks, NEW v \in Verdicts \cup {"completed"},
           ReviewEnds(t, v)
    PROVE  IInv'
<1> DEFINE r == [tasks[t] EXCEPT !.status = v]
<1>1. /\ tasks[t].kind = "review" /\ tasks[t].status = "pending"
      /\ r \in Row /\ r.kind = tasks[t].kind /\ r.sha = tasks[t].sha
      /\ r.owns = tasks[t].owns
      BY Shapes DEF IInv, ReviewEnds, Row, Statuses
<1>2. tasks' = [tasks EXCEPT ![t] = r]
      BY DEF ReviewEnds
<1>3. TasksStep
      BY <1>1, <1>2, UpdateStep DEF IInv
<1>4. /\ sent' \subseteq Deliveries
      /\ \A e \in sent' : e \in sent \/ tasks[e.task].kind = "review"
      BY <1>1, SentType DEF ReviewEnds, Deliveries
<1>5. Sound
      BY <1>3, <1>4, HandledTasks, SameGitHub DEF ReviewEnds, github, Sound, IInv, TypeOK
<1> QED  BY <1>5, SoundStep

LEMMA RefreshKeeps ==
    ASSUME IInv, NEW w \in DOMAIN tasks, Refresh(w)
    PROVE  IInv'
<1> DEFINE r == [tasks[w] EXCEPT !.mergedAt = TRUE]
<1>1. /\ tasks[w].kind # "review" /\ r \in Row
      /\ r.kind = tasks[w].kind /\ r.sha = tasks[w].sha
      BY Shapes DEF IInv, ReviewsOwnNothing, Refresh, Owners, Row
<1>2. tasks' = [tasks EXCEPT ![w] = r]
      BY DEF Refresh
<1>3. TasksStep
      BY <1>1, <1>2, UpdateStep DEF IInv
<1> QED  BY <1>3, QuietKeeps DEF Refresh, IInv, TypeOK

LEMMA WriteStateKeeps ==
    ASSUME IInv, NEW c \in checking, WriteState(c)
    PROVE  IInv'
<1> DEFINE r == [tasks[c.worker] EXCEPT !.mergedAt = c.merged]
<1>1. c.worker \in DOMAIN tasks /\ c.merged \in BOOLEAN
      BY DEF IInv, TypeOK
<1>2. /\ r \in Row /\ r.kind = tasks[c.worker].kind /\ r.sha = tasks[c.worker].sha
      /\ r.owns = tasks[c.worker].owns /\ r.status = tasks[c.worker].status
      BY <1>1, Shapes DEF IInv, Row
<1>3. CASE tasks' = [tasks EXCEPT ![c.worker].mergedAt = c.merged]
  <2>1. tasks' = [tasks EXCEPT ![c.worker] = r]
        BY <1>3
  <2> HIDE DEF r
  <2>2. TasksStep
        BY <1>1, <1>2, <2>1, UpdateStep DEF IInv
  <2> QED  BY <2>2, QuietKeeps DEF WriteState, IInv, TypeOK
<1>4. CASE UNCHANGED tasks
      BY <1>4, SameStep, QuietKeeps DEF WriteState, IInv, TypeOK
<1> QED  BY <1>3, <1>4 DEF WriteState

LEMMA ReadStateKeeps ==
    ASSUME IInv, NEW w \in DOMAIN tasks, ReadState(w)
    PROVE  IInv'
<1>1. checking' \subseteq [worker : DOMAIN tasks, merged : BOOLEAN]
      BY DEF ReadState, IInv, TypeOK
<1> QED  BY <1>1, SameStep, QuietKeeps DEF ReadState, IInv

(* People, the base branch and lost deliveries.                               *)
LEMMA OutsideKeeps ==
    ASSUME IInv,
           \/ BaseMoves
           \/ \E state \in {"merged", "closed"} : PersonEnds(state)
           \/ \E e \in sent : Lose(e)
           \/ UNCHANGED vars
    PROVE  IInv'
<1>1. UNCHANGED <<setting, suites, tasks, merging, checking, told>>
      BY DEF BaseMoves, PersonEnds, Lose, github, vars
<1>2. Handled
      BY <1>1, HandledNothing DEF IInv, TypeOK
<1>3. [type |-> "closed"] \in Deliveries
      BY DEF Deliveries
<1>4. sent' \subseteq sent \cup {[type |-> "closed"]}
      BY DEF BaseMoves, PersonEnds, End, Lose, vars
<1>5. dirty' \in BOOLEAN /\ pr' \in {"open", "merged", "closed"}
      BY DEF BaseMoves, PersonEnds, End, Lose, github, vars, IInv, TypeOK
<1>6. Sound
      BY <1>1, <1>2, <1>3, <1>4, <1>5, SameGitHub, SentType DEF Sound, IInv, TypeOK
<1> QED  BY <1>6, SoundStep

LEMMA InitInv == Init => IInv
<1> SUFFICES ASSUME Init PROVE IInv
    OBVIOUS
<1>1. /\ setting \in Starts
      /\ suites = <<[c \in setting.suites |-> "running"]>>
      /\ tasks = <<[Task("work", 0, 0, 1) EXCEPT
                       !.status = "completed", !.held = setting.held, !.owns = TRUE]>>
      BY DEF Init
<1> DEFINE r == [Task("work", 0, 0, 1) EXCEPT
                    !.status = "completed", !.held = setting.held, !.owns = TRUE]
<1>2. head = 1 /\ suites \in Seq([setting.suites -> {"running"} \cup Conclusions])
      BY <1>1 DEF head
<1>3. r \in Row /\ r.kind = "work" /\ tasks = <<r>>
  <2>1. setting.held \in BOOLEAN /\ MaxIterations \in Nat /\ MaxConflictIterations \in Nat
        BY <1>1, PullRequestAssumption
  <2>2. r \in Row
    <3>1. Task("work", 0, 0, 1) \in Row
          BY <1>2, <2>1 DEF Task, Row, Kinds, Statuses
    <3> QED  BY <2>1, <3>1 DEF Row, Statuses
  <2>3. r.kind = "work"
        BY DEF Task
  <2>4. tasks = <<r>>
        BY <1>1
  <2> QED  BY <2>2, <2>3, <2>4
<1> HIDE DEF r
<1>4. tasks \in Seq(Row) /\ Len(tasks) = 1 /\ DOMAIN tasks = {1} /\ tasks[1] = r
      BY <1>3
<1>5. TypeOK
  <2>1. sent \subseteq [type : {"opened", "closed"}] /\ merging = {} /\ checking = {}
        /\ told = {} /\ dirty = FALSE /\ pr = "open"
        BY DEF Init
  <2>2. head \in 1..MaxHeads /\ Len(tasks) \in 1..MaxTasks
        BY <1>2, <1>4, PullRequestAssumption
  <2> QED  BY <1>1, <1>2, <1>4, <2>1, <2>2 DEF TypeOK
<1>6. OneFollowUpPerCommit /\ ReviewsOwnNothing
      BY <1>3, <1>4 DEF OneFollowUpPerCommit, ReviewsOwnNothing
<1>7. VerdictsOfReviews /\ MergeAllowed
      BY DEF Init, VerdictsOfReviews, MergeAllowed
<1> QED  BY <1>5, <1>6, <1>7 DEF IInv

LEMMA NextInv == IInv /\ [Next]_vars => IInv'
BY SuiteEndsKeeps, DeliverKeeps, MergeKeeps, PushKeeps, ReportKeeps, ReviewEndsKeeps,
   RefreshKeeps, ReadStateKeeps, WriteStateKeeps, OutsideKeeps DEF Next

LEMMA Invariant == Spec => []IInv
BY InitInv, NextInv, PTL DEF Spec

(* Type correctness: whatever GitHub sends, in whatever order, and whatever   *)
(* is lost, every row, delivery and merge stays well formed; in particular no *)
(* follow-up counts more attempts than the limits.                            *)
THEOREM TypeCorrect == Spec => []TypeOK
BY Invariant, PTL DEF IInv

(* However many suites fail and merges meet conflicts, and whichever worker a *)
(* delivery finds, a commit gets one CI retry and one conflict retry.         *)
THEOREM FollowedUpOnce == Spec => []OneFollowUpPerCommit
BY Invariant, PTL DEF IInv

(* An automatic merge under way concerns a commit that is green under the     *)
(* automatic policy or was approved under that of agents, also when the check *)
(* runs cannot be read.                                                       *)
THEOREM MergesAllowed == Spec => []MergeAllowed
BY Invariant, PTL DEF IInv
==============================================================================
