---------------------------- MODULE TaskDepsProofs ----------------------------
(* Type correctness of TaskDeps, and its two safety properties for every      *)
(* graph of dependencies, any number of resolutions in progress, of pull      *)
(* requests and of edits by people.                                           *)
EXTENDS TaskDeps, SequenceTheorems, TLAPS

(* The inductive invariant.                                                   *)

(* Loops are left to be continued exactly while a resolution is in one.       *)
Stacked ==
    \A p \in Procs : /\ work[p].pc \in {"idle", "complete"} => work[p].stack = <<>>
                     /\ At(p, "fail") => work[p].stack # <<>>

(* What has not been filed has no worker and no PR, a task that is assigned   *)
(* was claimed by a runner, and a PR is closed silently.                      *)
Rows ==
    \A t \in Tasks :
        /\ status[t] = "none" => ~held[t] /\ prs[t] = <<>>
        /\ status[t] = "assigned" => told[t]
        /\ \A i \in DOMAIN prs[t] : prs[t][i] = "closed" => silent[t]

Excused(t) ==
    \/ silent[t]
    \/ \E d \in deps[t] : \/ silent[d] \/ status[d] = "cancelled"
                          \/ loop[d] \notin {"null", "satisfied"}

Untold(t) == status[t] = "pending" /\ GateOpen(t) /\ ~told[t] /\ ~Excused(t)

(* A resolution that is going to tell the runners of t.                       *)
Waking(p, t) ==
    \/ work[p].pc \in {"resolve", "dependents"} /\ work[p].t \in deps[t]
    \/ At(p, "states") /\ t \in work[p].wait
    \/ At(p, "prs") /\ t \in work[p].wait /\ deps[t] \subseteq work[p].done

Awake == \A t \in Tasks : Untold(t) => \E p \in Procs : Waking(p, t)

Blocked(t, d) ==
    /\ d \in deps[t]
    /\ status[t] \in {"pending", "assigned"} /\ status[d] = "failed"
    /\ ~silent[t] /\ ~silent[d]

(* A resolution that is going to fail t, or to fail it because d failed.      *)
Queued(p, t) == \E k \in DOMAIN work[p].stack : t \in work[p].stack[k]

Failing(p, t, d) ==
    \/ work[p].pc \in {"resolve", "cascade"} /\ work[p].t = d
    \/ Queued(p, t)

Cascading == \A t, d \in Tasks : Blocked(t, d) => \E p \in Procs : Failing(p, t, d)

IInv == TypeOK /\ Stacked /\ Rows /\ Awake /\ Cascading

----------------------------------------------------------------------------
(* What a resolution becomes.                                                 *)

LEMMA DoingIsTyped ==
    ASSUME NEW t \in Tasks, NEW stack \in Seq(SUBSET Tasks),
           NEW pc \in {"idle", "resolve", "cascade", "fail", "dependents", "states", "prs",
                       "complete"}
    PROVE  LET r == Doing(pc, t, stack)
           IN  r \in Resolution /\ r.pc = pc /\ r.t = t /\ r.stack = stack
BY DEF Doing, Resolution

LEMMA NoTaskIsTask == NoTask \in Tasks
BY DepsAssumption DEF NoTask

LEMMA NoLoops == <<>> \in Seq(SUBSET Tasks)
OBVIOUS

LEMMA IdleIsTyped ==
    /\ Idle \in Resolution
    /\ Idle.pc = "idle" /\ Idle.stack = <<>>
BY NoTaskIsTask, NoLoops DEF Idle, Doing, Resolution

LEMMA ReturnIsTyped ==
    ASSUME NEW stack \in Seq(SUBSET Tasks)
    PROVE  /\ Return(stack) \in Resolution
           /\ Return(stack).stack = stack
           /\ Return(stack).pc = IF stack = <<>> THEN "idle" ELSE "fail"
BY NoTaskIsTask, DoingIsTyped DEF Return

LEMMA BecomeIsTyped ==
    ASSUME work \in [Procs -> Resolution], NEW p \in Procs, NEW r \in Resolution,
           Become(p, r)
    PROVE  /\ work' \in [Procs -> Resolution]
           /\ work'[p] = r
           /\ \A q \in Procs \ {p} : work'[q] = work[q]
BY DEF Become

(* The loop of a cascade with one task taken out.                             *)
LEMMA PopIsTyped ==
    ASSUME NEW stack \in Seq(SUBSET Tasks), stack # <<>>, NEW u
    PROVE  LET rest == <<Head(stack) \ {u}>> \o Tail(stack)
           IN  /\ rest \in Seq(SUBSET Tasks)
               /\ \A t \in Tasks \ {u} : (\E k \in DOMAIN stack : t \in stack[k])
                                              => \E k \in DOMAIN rest : t \in rest[k]
<1> DEFINE h == Head(stack) \ {u}
           rest == <<h>> \o Tail(stack)
<1>1. /\ Head(stack) \in SUBSET Tasks /\ Tail(stack) \in Seq(SUBSET Tasks)
      /\ Len(Tail(stack)) = Len(stack) - 1 /\ Len(stack) \in Nat \ {0}
      /\ Head(stack) = stack[1]
      /\ \A k \in 1..Len(Tail(stack)) : Tail(stack)[k] = stack[k + 1]
    BY HeadTailProperties, EmptySeq, LenProperties
<1>2. <<h>> \in Seq(SUBSET Tasks) /\ Len(<<h>>) = 1 /\ <<h>>[1] = h
    BY <1>1
<1>3. /\ rest \in Seq(SUBSET Tasks) /\ Len(rest) = Len(stack)
      /\ \A k \in 1..Len(rest) : rest[k] = IF k <= 1 THEN <<h>>[k] ELSE Tail(stack)[k - 1]
    BY <1>1, <1>2, ConcatProperties
<1>4. ASSUME NEW t \in Tasks \ {u}, NEW k \in DOMAIN stack, t \in stack[k]
      PROVE  \E j \in DOMAIN rest : t \in rest[j]
    <2>1. k \in 1..Len(rest) /\ DOMAIN rest = 1..Len(rest)
        BY <1>3
    <2>2. CASE k = 1
        BY <1>1, <1>2, <1>3, <1>4, <2>1, <2>2
    <2>3. CASE k # 1
        <3>1. rest[k] = Tail(stack)[k - 1] /\ k - 1 \in 1..Len(Tail(stack))
            BY <1>1, <1>3, <2>1, <2>3
        <3>2. rest[k] = stack[k]
            BY <1>1, <3>1, <2>1
        <3> QED BY <1>4, <2>1, <3>2
    <2> QED BY <2>2, <2>3
<1> QED BY <1>3, <1>4

(* Pushing a loop leaves those below it.                                      *)
LEMMA PushIsTyped ==
    ASSUME NEW stack \in Seq(SUBSET Tasks), NEW loopOf \in SUBSET Tasks
    PROVE  LET full == <<loopOf>> \o stack
           IN  /\ full \in Seq(SUBSET Tasks) /\ full # <<>>
               /\ \E k \in DOMAIN full : full[k] = loopOf
               /\ \A k \in DOMAIN stack : \E j \in DOMAIN full : full[j] = stack[k]
<1> DEFINE full == <<loopOf>> \o stack
<1>1. <<loopOf>> \in Seq(SUBSET Tasks) /\ Len(<<loopOf>>) = 1 /\ <<loopOf>>[1] = loopOf
    OBVIOUS
<1>2. /\ full \in Seq(SUBSET Tasks) /\ Len(full) = 1 + Len(stack) /\ Len(stack) \in Nat
      /\ \A k \in 1..Len(full) : full[k] = IF k <= 1 THEN <<loopOf>>[k] ELSE stack[k - 1]
    BY <1>1, ConcatProperties, LenProperties
<1>3. 1 \in DOMAIN full /\ full[1] = loopOf
    BY <1>1, <1>2
<1>4. ASSUME NEW k \in DOMAIN stack
      PROVE  k + 1 \in DOMAIN full /\ full[k + 1] = stack[k]
    <2>1. k \in 1..Len(stack)
        OBVIOUS
    <2> QED BY <1>2, <2>1
<1>5. full # <<>>
    BY <1>2, EmptySeq
<1> QED BY <1>2, <1>3, <1>4, <1>5

LEMMA TailIsTyped ==
    ASSUME NEW stack \in Seq(SUBSET Tasks), stack # <<>>
    PROVE  /\ Tail(stack) \in Seq(SUBSET Tasks)
           /\ Head(stack) \in SUBSET Tasks
           /\ \A t : (\E k \in DOMAIN stack : t \in stack[k]) =>
                  t \in Head(stack) \/ \E k \in DOMAIN Tail(stack) : t \in Tail(stack)[k]
<1>1. /\ Head(stack) \in SUBSET Tasks /\ Tail(stack) \in Seq(SUBSET Tasks)
      /\ Len(Tail(stack)) = Len(stack) - 1 /\ Len(stack) \in Nat \ {0}
      /\ Head(stack) = stack[1]
      /\ \A k \in 1..Len(Tail(stack)) : Tail(stack)[k] = stack[k + 1]
    BY HeadTailProperties, EmptySeq, LenProperties
<1>2. ASSUME NEW t, NEW k \in DOMAIN stack, t \in stack[k], t \notin Head(stack)
      PROVE  \E j \in DOMAIN Tail(stack) : t \in Tail(stack)[j]
    <2>1. k \in 1..Len(stack) /\ k # 1
        BY <1>1, <1>2
    <2>2. k - 1 \in DOMAIN Tail(stack) /\ Tail(stack)[k - 1] = stack[k]
        BY <1>1, <2>1
    <2> QED BY <1>2, <2>2
<1> QED BY <1>1, <1>2

----------------------------------------------------------------------------
(* Types.                                                                     *)

LEMMA InitTyped == Init => TypeOK
<1> SUFFICES ASSUME Init PROVE TypeOK
    OBVIOUS
<1>1. work \in [Procs -> Resolution]
    BY IdleIsTyped DEF Init
<1>2. prs \in [Tasks -> Seq(PrState)]
    BY DEF Init
<1> QED BY <1>1, <1>2, DepsAssumption DEF Init, TypeOK

LEMMA RequestTyped ==
    ASSUME TypeOK, NEW t \in Tasks,
           \/ Create(t) \/ Claim(t) \/ CiExhausted(t) \/ Reassign(t)
           \/ \E s \in {"pending", "completed", "failed", "cancelled"} : EditStatus(t, s)
    PROVE  TypeOK'
<1> USE DEF TypeOK, Terminal
<1>1. CASE Create(t)
    BY <1>1 DEF Create, Tell
<1>2. CASE Claim(t)
    BY <1>2 DEF Claim
<1>3. CASE CiExhausted(t)
    BY <1>3 DEF CiExhausted, Silence
<1>4. CASE Reassign(t)
    <2>1. edits' \in 0..MaxEdits
        BY <1>4, DepsAssumption DEF Reassign
    <2> QED BY <1>4, <2>1 DEF Reassign, Tell
<1>5. ASSUME NEW s \in {"pending", "completed", "failed", "cancelled"}, EditStatus(t, s)
      PROVE  TypeOK'
    <2>1. edits' \in 0..MaxEdits
        BY <1>5, DepsAssumption DEF EditStatus
    <2> QED BY <1>5, <2>1 DEF EditStatus, Silence
<1> QED BY <1>1, <1>2, <1>3, <1>4, <1>5

LEMMA PrTyped ==
    ASSUME NEW s \in Seq(PrState), NEW x \in PrState, NEW i \in DOMAIN s
    PROVE  /\ [s EXCEPT ![i] = x] \in Seq(PrState)
           /\ Len([s EXCEPT ![i] = x]) = Len(s)
           /\ DOMAIN [s EXCEPT ![i] = x] = DOMAIN s
BY ExceptSeq

LEMMA PullRequestTyped ==
    ASSUME TypeOK, NEW t \in Tasks,
           \/ OpenPr(t)
           \/ \E i \in DOMAIN prs[t] : MergeOnGitHub(t, i) \/ Close(t, i) \/ Reconcile(t, i)
    PROVE  TypeOK'
<1>0. prs[t] \in Seq(PrState) /\ {"open", "landed", "merged", "closed"} \subseteq PrState
    BY DEF TypeOK, PrState
<1>1. CASE OpenPr(t)
    <2>1. Append(prs[t], "open") \in Seq(PrState)
        BY <1>0, AppendProperties
    <2> QED BY <1>1, <2>1 DEF OpenPr, TypeOK
<1>2. ASSUME NEW i \in DOMAIN prs[t], MergeOnGitHub(t, i) \/ Close(t, i) \/ Reconcile(t, i)
      PROVE  TypeOK'
    <2>1. \A x \in {"landed", "closed", "merged"} : [prs[t] EXCEPT ![i] = x] \in Seq(PrState)
        BY <1>0, PrTyped
    <2>2. prs' \in [Tasks -> Seq(PrState)]
        BY <1>2, <2>1 DEF MergeOnGitHub, Close, Reconcile, TypeOK
    <2> QED BY <1>2, <2>2 DEF MergeOnGitHub, Close, Reconcile, TypeOK, Silence
<1> QED BY <1>1, <1>2

LEMMA StartTyped ==
    ASSUME TypeOK, NEW t \in Tasks, NEW p \in Procs,
           \/ Report(p, t) \/ AdvanceLoop(p, t)
           \/ \E i \in DOMAIN prs[t] : \/ Stamp(p, t, i)
                                       \/ \E q \in Procs : Webhook(p, q, t, i)
    PROVE  TypeOK'
<1>0. prs[t] \in Seq(PrState) /\ "merged" \in PrState
    BY DEF TypeOK, PrState
<1>1. CASE Report(p, t)
    <2> PICK e \in Ends(t) :
          /\ IF status[t] = "cancelled" THEN UNCHANGED <<status, loop>>
             ELSE /\ status' = [status EXCEPT ![t] = e.s]
                  /\ loop' = [loop EXCEPT ![t] = e.l]
          /\ IF e.s = "pending" THEN UNCHANGED work ELSE Resolving(p, t)
          /\ silent' = [silent EXCEPT ![t] = @ \/ (e.s = "pending" /\ status[t] # "assigned")]
        BY <1>1 DEF Report
    <2>1. /\ e.s \in {"failed", "pending", "completed"}
          /\ e.l \in {"null", "running", "condition_unmet", "satisfied", "exhausted"}
        BY DEF Ends, TypeOK
    <2>2. work' \in [Procs -> Resolution]
        BY NoLoops, DoingIsTyped, BecomeIsTyped DEF Resolving, TypeOK
    <2>3. silent' \in [Tasks -> BOOLEAN]
        BY DEF TypeOK
    <2>4. /\ status' \in [Tasks -> {"none", "pending", "assigned"} \cup Terminal]
          /\ loop' \in [Tasks -> {"null", "running", "condition_unmet", "satisfied", "exhausted"}]
        BY <2>1 DEF TypeOK, Terminal
    <2>5. held' \in [Tasks -> BOOLEAN] /\ UNCHANGED <<deps, edits, prs, told>>
        BY <1>1 DEF Report, TypeOK
    <2> QED BY <2>2, <2>3, <2>4, <2>5 DEF TypeOK
<1>2. CASE AdvanceLoop(p, t)
    <2>1. work' \in [Procs -> Resolution]
        BY <1>2, NoLoops, DoingIsTyped, BecomeIsTyped DEF AdvanceLoop, Resolving, TypeOK
    <2> QED BY <1>2, <2>1 DEF AdvanceLoop, TypeOK, Terminal
<1>3. ASSUME NEW i \in DOMAIN prs[t], Stamp(p, t, i)
      PROVE  TypeOK'
    <2>1. work' \in [Procs -> Resolution]
        BY <1>3, NoLoops, DoingIsTyped, BecomeIsTyped DEF Stamp, TypeOK
    <2>2. prs' \in [Tasks -> Seq(PrState)]
        BY <1>0, <1>3, PrTyped DEF Stamp, TypeOK
    <2> QED BY <1>3, <2>1, <2>2 DEF Stamp, TypeOK
<1>4. ASSUME NEW i \in DOMAIN prs[t], NEW q \in Procs, Webhook(p, q, t, i)
      PROVE  TypeOK'
    <2>1. /\ Doing("dependents", t, <<>>) \in Resolution
          /\ Doing("complete", t, <<>>) \in Resolution
          /\ Idle \in Resolution
        BY NoLoops, DoingIsTyped, IdleIsTyped
    <2>2. work' \in [Procs -> Resolution]
        BY <1>4, <2>1 DEF Webhook, TypeOK
    <2>3. prs' \in [Tasks -> Seq(PrState)]
        BY <1>0, <1>4, PrTyped DEF Webhook, TypeOK
    <2> QED BY <1>4, <2>2, <2>3 DEF Webhook, TypeOK
<1> QED BY <1>1, <1>2, <1>3, <1>4

(* A resolution whose loops are exhausted by nothing it read is left typed.   *)
LEMMA StepTyped ==
    ASSUME TypeOK, NEW p \in Procs, Step(p), Stacked
    PROVE  TypeOK'
<1>0. work[p] \in Resolution /\ work \in [Procs -> Resolution]
    BY DEF TypeOK
<1>a. work[p].stack \in Seq(SUBSET Tasks) /\ work[p].t \in Tasks
    BY <1>0 DEF Resolution
<1>b. ASSUME work' \in [Procs -> Resolution],
             UNCHANGED <<deps, edits, status, loop, held, prs, told, silent>>
      PROVE  TypeOK'
    BY <1>b DEF TypeOK
<1>1. CASE Resolve(p)
    <2> DEFINE r == CASE status[work[p].t] = "failed" -> [work[p] EXCEPT !.pc = "cascade"]
                      [] status[work[p].t] = "cancelled" -> Return(work[p].stack)
                      [] OTHER -> [work[p] EXCEPT !.pc = "dependents"]
    <2>1. /\ [work[p] EXCEPT !.pc = "cascade"] \in Resolution
          /\ [work[p] EXCEPT !.pc = "dependents"] \in Resolution
        BY <1>0 DEF Resolution
    <2>2. r \in Resolution
        BY <2>1, <1>a, ReturnIsTyped
    <2>3. Become(p, r)
        BY <1>1 DEF Resolve
    <2> HIDE DEF r
    <2>4. work' \in [Procs -> Resolution]
        BY <1>0, <2>2, <2>3, BecomeIsTyped
    <2> QED BY <1>1, <1>b, <2>4 DEF Resolve
<1>2. CASE Cascade(p)
    <2>1. ToFail(work[p].t) \in SUBSET Tasks
        BY DEF ToFail
    <2>2. Return(<<ToFail(work[p].t)>> \o work[p].stack) \in Resolution
        BY <2>1, <1>a, PushIsTyped, ReturnIsTyped
    <2>3. work' \in [Procs -> Resolution]
        BY <1>0, <1>2, <2>2, BecomeIsTyped DEF Cascade
    <2> QED BY <1>2, <1>b, <2>3 DEF Cascade
<1>3. CASE Fail(p)
    <2> PICK u \in Head(work[p].stack) :
          /\ status' = [status EXCEPT ![u] = "failed"]
          /\ Become(p, Doing("resolve", u, <<Head(work[p].stack) \ {u}>> \o Tail(work[p].stack)))
        BY <1>3 DEF Fail
    <2>1. work[p].stack # <<>>
        BY <1>3 DEF Fail, Stacked, At
    <2>2. u \in Tasks
        BY <2>1, <1>a, TailIsTyped
    <2> DEFINE rest == <<Head(work[p].stack) \ {u}>> \o Tail(work[p].stack)
               r == Doing("resolve", u, rest)
    <2>3. rest \in Seq(SUBSET Tasks)
        BY <1>a, <2>1, PopIsTyped
    <2>4. Become(p, r)
        OBVIOUS
    <2> HIDE DEF rest
    <2>5. r \in Resolution
        BY <2>2, <2>3, DoingIsTyped
    <2> HIDE DEF r
    <2>6. work' \in [Procs -> Resolution]
        BY <1>0, <2>4, <2>5, BecomeIsTyped
    <2> QED BY <1>3, <2>6 DEF Fail, TypeOK, Terminal
<1>4. CASE LoopEnds(p)
    <2>1. work[p].stack # <<>>
        BY <1>4 DEF LoopEnds, Stacked, At
    <2>2. Return(Tail(work[p].stack)) \in Resolution
        BY <2>1, <1>a, TailIsTyped, ReturnIsTyped
    <2>3. work' \in [Procs -> Resolution]
        BY <1>0, <1>4, <2>2, BecomeIsTyped DEF LoopEnds
    <2> QED BY <1>4, <1>b, <2>3 DEF LoopEnds
<1>5. CASE Dependents(p)
    <2> DEFINE w == {u \in Tasks : work[p].t \in deps[u] /\ status[u] = "pending"}
               r == IF w = {} THEN Return(work[p].stack)
                    ELSE [work[p] EXCEPT !.pc = "states", !.wait = w]
    <2>1. Become(p, r)
        BY <1>5 DEF Dependents
    <2>2. w \in SUBSET Tasks
        OBVIOUS
    <2> HIDE DEF w
    <2>3. [work[p] EXCEPT !.pc = "states", !.wait = w] \in Resolution
        BY <1>0, <2>2 DEF Resolution
    <2>4. r \in Resolution
        BY <2>3, <1>a, ReturnIsTyped
    <2> HIDE DEF r
    <2>5. work' \in [Procs -> Resolution]
        BY <1>0, <2>1, <2>4, BecomeIsTyped
    <2> QED BY <1>5, <1>b, <2>5 DEF Dependents
<1>6. CASE States(p)
    <2> DEFINE d == {x \in UNION {deps[u] : u \in work[p].wait} : Done(x)}
               r == [work[p] EXCEPT !.pc = "prs", !.done = d]
    <2>1. Become(p, r)
        BY <1>6 DEF States
    <2>2. d \in SUBSET Tasks
        BY <1>0, DepsAssumption DEF TypeOK, Resolution
    <2> HIDE DEF d
    <2>3. r \in Resolution
        BY <1>0, <2>2 DEF Resolution
    <2> HIDE DEF r
    <2>4. work' \in [Procs -> Resolution]
        BY <1>0, <2>1, <2>3, BecomeIsTyped
    <2> QED BY <1>6, <1>b, <2>4 DEF States
<1>7. CASE Wake(p)
    <2>1. Return(work[p].stack) \in Resolution
        BY <1>a, ReturnIsTyped
    <2>2. work' \in [Procs -> Resolution]
        BY <1>0, <1>7, <2>1, BecomeIsTyped DEF Wake
    <2>3. ASSUME NEW found \in SUBSET Landed(work[p].wait), NEW d \in found
          PROVE  d \in Tasks => [prs[d] EXCEPT ![Latest(d)] = "merged"] \in Seq(PrState)
        BY ExceptSeq, EmptySeq, LenProperties DEF Landed, Latest, PrState, TypeOK
    <2>4. prs' \in [Tasks -> Seq(PrState)]
        BY <1>7, <2>3 DEF Wake, TypeOK
    <2>5. told' \in [Tasks -> BOOLEAN] /\ silent' \in [Tasks -> BOOLEAN]
        BY <1>7 DEF Wake, TypeOK
    <2> QED BY <1>7, <2>2, <2>4, <2>5 DEF Wake, TypeOK
<1>8. CASE WebhookCompletes(p)
    <2>1. work' \in [Procs -> Resolution]
        BY <1>0, <1>8, IdleIsTyped, BecomeIsTyped DEF WebhookCompletes
    <2> QED BY <1>8, <1>a, <2>1 DEF WebhookCompletes, TypeOK, Terminal, Silence
<1> QED BY <1>1, <1>2, <1>3, <1>4, <1>5, <1>6, <1>7, <1>8 DEF Step

----------------------------------------------------------------------------
(* What each step of a resolution makes of it.                                *)

Others(p) == \A q \in Procs \ {p} : work'[q] = work[q]

LEMMA ResolveWork ==
    ASSUME TypeOK, NEW p \in Procs, Resolve(p)
    PROVE  /\ Others(p)
           /\ work'[p].stack = work[p].stack
           /\ status[work[p].t] = "failed" =>
                  work'[p].pc = "cascade" /\ work'[p].t = work[p].t
           /\ status[work[p].t] = "cancelled" =>
                  work'[p].pc = IF work[p].stack = <<>> THEN "idle" ELSE "fail"
           /\ status[work[p].t] \notin {"failed", "cancelled"} =>
                  work'[p].pc = "dependents" /\ work'[p].t = work[p].t
<1>0. work[p] \in Resolution /\ work \in [Procs -> Resolution]
    BY DEF TypeOK
<1>1. work[p].stack \in Seq(SUBSET Tasks)
    BY <1>0 DEF Resolution
<1> DEFINE a == [work[p] EXCEPT !.pc = "cascade"]
           b == [work[p] EXCEPT !.pc = "dependents"]
           c == Return(work[p].stack)
           r == CASE status[work[p].t] = "failed" -> a
                  [] status[work[p].t] = "cancelled" -> c
                  [] OTHER -> b
<1>2. /\ a \in Resolution /\ a.pc = "cascade" /\ a.t = work[p].t /\ a.stack = work[p].stack
      /\ b \in Resolution /\ b.pc = "dependents" /\ b.t = work[p].t /\ b.stack = work[p].stack
    BY <1>0 DEF Resolution
<1>3. /\ c \in Resolution /\ c.stack = work[p].stack
      /\ c.pc = IF work[p].stack = <<>> THEN "idle" ELSE "fail"
    BY <1>1, ReturnIsTyped
<1>4. Become(p, r)
    BY DEF Resolve
<1> HIDE DEF a, b, c
<1>5. r \in Resolution
    BY <1>2, <1>3
<1>6. work'[p] = r /\ Others(p)
    BY <1>0, <1>4, <1>5, BecomeIsTyped DEF Others
<1> QED BY <1>2, <1>3, <1>6

LEMMA CascadeWork ==
    ASSUME TypeOK, NEW p \in Procs, Cascade(p)
    PROVE  /\ Others(p)
           /\ work'[p].pc = "fail" /\ work'[p].stack # <<>>
           /\ \A t \in Tasks : Queued(p, t) \/ t \in ToFail(work[p].t) => Queued(p, t)'
<1>0. work[p] \in Resolution /\ work \in [Procs -> Resolution]
    BY DEF TypeOK
<1> DEFINE stack == work[p].stack
           s == ToFail(work[p].t)
           full == <<s>> \o stack
<1>1. stack \in Seq(SUBSET Tasks) /\ s \in SUBSET Tasks
    BY <1>0 DEF Resolution, ToFail
<1>2. Become(p, Return(full))
    BY DEF Cascade
<1> HIDE DEF s, stack
<1>3. /\ full \in Seq(SUBSET Tasks) /\ full # <<>>
      /\ \E k \in DOMAIN full : full[k] = s
      /\ \A k \in DOMAIN stack : \E j \in DOMAIN full : full[j] = stack[k]
    BY <1>1, PushIsTyped
<1> HIDE DEF full
<1>4. Return(full) \in Resolution /\ Return(full).stack = full /\ Return(full).pc = "fail"
    BY <1>3, ReturnIsTyped
<1>5. work'[p] = Return(full) /\ Others(p)
    BY <1>0, <1>2, <1>4, BecomeIsTyped DEF Others
<1>6. \A t : (\E k \in DOMAIN stack : t \in stack[k]) \/ t \in s =>
                \E k \in DOMAIN full : t \in full[k]
    BY <1>3
<1> QED BY <1>3, <1>4, <1>5, <1>6 DEF Queued, stack, s

LEMMA FailWork ==
    ASSUME TypeOK, Stacked, NEW p \in Procs, Fail(p)
    PROVE  \E u \in Tasks :
             /\ status' = [status EXCEPT ![u] = "failed"]
             /\ Others(p)
             /\ work'[p].pc = "resolve" /\ work'[p].t = u
             /\ \A t \in Tasks \ {u} : Queued(p, t) => Queued(p, t)'
<1>0. work[p] \in Resolution /\ work \in [Procs -> Resolution]
    BY DEF TypeOK
<1> DEFINE stack == work[p].stack
<1>1. stack \in Seq(SUBSET Tasks) /\ stack # <<>>
    BY <1>0 DEF Resolution, Fail, Stacked, At
<1> PICK u \in Head(stack) :
        /\ status' = [status EXCEPT ![u] = "failed"]
        /\ Become(p, Doing("resolve", u, <<Head(stack) \ {u}>> \o Tail(stack)))
    BY DEF Fail
<1>2. u \in Tasks
    BY <1>1, TailIsTyped
<1> DEFINE rest == <<Head(stack) \ {u}>> \o Tail(stack)
           r == Doing("resolve", u, rest)
<1>3. /\ rest \in Seq(SUBSET Tasks)
      /\ \A t \in Tasks \ {u} : (\E k \in DOMAIN stack : t \in stack[k])
                                    => \E k \in DOMAIN rest : t \in rest[k]
    <2> HIDE DEF stack
    <2> QED BY <1>1, PopIsTyped
<1>4. Become(p, r)
    OBVIOUS
<1> HIDE DEF rest, stack
<1>5. r \in Resolution /\ r.pc = "resolve" /\ r.t = u /\ r.stack = rest
    BY <1>2, <1>3 DEF Doing, Resolution
<1> HIDE DEF r
<1>6. work'[p] = r /\ Others(p)
    BY <1>0, <1>4, <1>5, BecomeIsTyped DEF Others
<1> QED BY <1>2, <1>3, <1>5, <1>6 DEF Queued, stack

LEMMA LoopEndsWork ==
    ASSUME TypeOK, Stacked, NEW p \in Procs, LoopEnds(p)
    PROVE  /\ Others(p)
           /\ work'[p].pc = IF work'[p].stack = <<>> THEN "idle" ELSE "fail"
           /\ \A t \in Tasks : Queued(p, t) => Queued(p, t)'
<1>0. work[p] \in Resolution /\ work \in [Procs -> Resolution]
    BY DEF TypeOK
<1> DEFINE stack == work[p].stack
           rest == Tail(stack)
<1>1. stack \in Seq(SUBSET Tasks) /\ stack # <<>>
    BY <1>0 DEF Resolution, LoopEnds, Stacked, At
<1>2. Head(stack) = {} /\ Become(p, Return(rest))
    BY DEF LoopEnds
<1> HIDE DEF stack
<1>3. /\ rest \in Seq(SUBSET Tasks)
      /\ \A t : (\E k \in DOMAIN stack : t \in stack[k]) =>
                    \E k \in DOMAIN rest : t \in rest[k]
    BY <1>1, <1>2, TailIsTyped
<1> HIDE DEF rest
<1>4. /\ Return(rest) \in Resolution /\ Return(rest).stack = rest
      /\ Return(rest).pc = IF rest = <<>> THEN "idle" ELSE "fail"
    BY <1>3, ReturnIsTyped
<1>5. work'[p] = Return(rest) /\ Others(p)
    BY <1>0, <1>2, <1>4, BecomeIsTyped DEF Others
<1> QED BY <1>3, <1>4, <1>5 DEF Queued, stack

LEMMA DependentsWork ==
    ASSUME TypeOK, NEW p \in Procs, Dependents(p)
    PROVE  LET w == {u \in Tasks : work[p].t \in deps[u] /\ status[u] = "pending"}
           IN  /\ Others(p)
               /\ work'[p].stack = work[p].stack
               /\ w = {} => work'[p].pc = IF work[p].stack = <<>> THEN "idle" ELSE "fail"
               /\ w # {} => work'[p].pc = "states" /\ work'[p].wait = w
<1>0. work[p] \in Resolution /\ work \in [Procs -> Resolution]
    BY DEF TypeOK
<1> DEFINE w == {u \in Tasks : work[p].t \in deps[u] /\ status[u] = "pending"}
           a == [work[p] EXCEPT !.pc = "states", !.wait = w]
           c == Return(work[p].stack)
           r == IF w = {} THEN c ELSE a
<1>1. work[p].stack \in Seq(SUBSET Tasks)
    BY <1>0 DEF Resolution
<1>2. w \in SUBSET Tasks
    OBVIOUS
<1>3. Become(p, r)
    BY DEF Dependents
<1> HIDE DEF w
<1>4. a \in Resolution /\ a.pc = "states" /\ a.wait = w /\ a.stack = work[p].stack
    BY <1>0, <1>2 DEF Resolution
<1>5. /\ c \in Resolution /\ c.stack = work[p].stack
      /\ c.pc = IF work[p].stack = <<>> THEN "idle" ELSE "fail"
    BY <1>1, ReturnIsTyped
<1> HIDE DEF a, c
<1>6. r \in Resolution
    BY <1>4, <1>5
<1>7. work'[p] = r /\ Others(p)
    BY <1>0, <1>3, <1>6, BecomeIsTyped DEF Others
<1> QED BY <1>4, <1>5, <1>7 DEF w

LEMMA StatesWork ==
    ASSUME TypeOK, NEW p \in Procs, States(p)
    PROVE  /\ Others(p)
           /\ work'[p].pc = "prs" /\ work'[p].stack = work[p].stack
           /\ work'[p].wait = work[p].wait
           /\ work'[p].done = {d \in UNION {deps[u] : u \in work[p].wait} : Done(d)}
<1>0. work[p] \in Resolution /\ work \in [Procs -> Resolution]
    BY DEF TypeOK
<1> DEFINE d == {x \in UNION {deps[u] : u \in work[p].wait} : Done(x)}
           r == [work[p] EXCEPT !.pc = "prs", !.done = d]
<1>1. Become(p, r)
    BY DEF States
<1>2. d \in SUBSET Tasks
    BY <1>0, DepsAssumption DEF TypeOK, Resolution
<1> HIDE DEF d
<1>3. /\ r \in Resolution /\ r.pc = "prs" /\ r.stack = work[p].stack
      /\ r.wait = work[p].wait /\ r.done = d
    BY <1>0, <1>2 DEF Resolution
<1> HIDE DEF r
<1>4. work'[p] = r /\ Others(p)
    BY <1>0, <1>1, <1>3, BecomeIsTyped DEF Others
<1> QED BY <1>3, <1>4 DEF d

LEMMA WakeWork ==
    ASSUME TypeOK, NEW p \in Procs, Wake(p)
    PROVE  /\ Others(p)
           /\ work'[p].stack = work[p].stack
           /\ work'[p].pc = IF work[p].stack = <<>> THEN "idle" ELSE "fail"
<1>0. work[p] \in Resolution /\ work \in [Procs -> Resolution]
    BY DEF TypeOK
<1>1. work[p].stack \in Seq(SUBSET Tasks)
    BY <1>0 DEF Resolution
<1>2. Become(p, Return(work[p].stack))
    BY DEF Wake
<1> QED BY <1>0, <1>1, <1>2, ReturnIsTyped, BecomeIsTyped DEF Others

(* A request that begins a resolution, or two.                                *)
LEMMA BeginWork ==
    ASSUME TypeOK, NEW p \in Procs, NEW t \in Tasks,
           NEW pc \in {"resolve", "dependents", "complete"},
           Become(p, Doing(pc, t, <<>>))
    PROVE  /\ Others(p)
           /\ work'[p].pc = pc /\ work'[p].t = t /\ work'[p].stack = <<>>
<1>1. LET r == Doing(pc, t, <<>>)
      IN  r \in Resolution /\ r.pc = pc /\ r.t = t /\ r.stack = <<>>
    BY NoLoops DEF Doing, Resolution
<1> QED BY <1>1, BecomeIsTyped DEF Others, TypeOK

LEMMA WebhookWork ==
    ASSUME TypeOK, NEW p \in Procs, NEW q \in Procs, NEW t \in Tasks, NEW i,
           Webhook(p, q, t, i)
    PROVE  /\ \A o \in Procs \ {p, q} : work'[o] = work[o]
           /\ work'[p].pc = "dependents" /\ work'[p].t = t /\ work'[p].stack = <<>>
           /\ work'[q].pc \in {"idle", "complete"} /\ work'[q].stack = <<>>
BY NoLoops, IdleIsTyped DEF Webhook, TypeOK, Doing, Resolution

----------------------------------------------------------------------------
(* Stacked and Rows are kept.                                                 *)

LEMMA StepStacked ==
    ASSUME TypeOK, Stacked, NEW p \in Procs, Step(p)
    PROVE  Stacked'
<1>0. \A q \in Procs \ {p} : work'[q] = work[q] =>
          /\ work'[q].pc \in {"idle", "complete"} => work'[q].stack = <<>>
          /\ work'[q].pc = "fail" => work'[q].stack # <<>>
    BY DEF Stacked, At
<1>s. SUFFICES /\ Others(p)
               /\ work'[p].pc \in {"idle", "complete"} => work'[p].stack = <<>>
               /\ work'[p].pc = "fail" => work'[p].stack # <<>>
    BY <1>0 DEF Stacked, At, Others
<1>1. CASE Resolve(p)
    BY <1>1, ResolveWork
<1>2. CASE Cascade(p)
    BY <1>2, CascadeWork
<1>3. CASE Fail(p)
    BY <1>3, FailWork
<1>4. CASE LoopEnds(p)
    BY <1>4, LoopEndsWork
<1>5. CASE Dependents(p)
    BY <1>5, DependentsWork
<1>6. CASE States(p)
    BY <1>6, StatesWork
<1>7. CASE Wake(p)
    BY <1>7, WakeWork
<1>8. CASE WebhookCompletes(p)
    <2>1. Others(p) /\ work'[p] = Idle
        BY <1>8, IdleIsTyped, BecomeIsTyped DEF WebhookCompletes, TypeOK, Others
    <2> QED BY <2>1, IdleIsTyped
<1> QED BY <1>1, <1>2, <1>3, <1>4, <1>5, <1>6, <1>7, <1>8 DEF Step

LEMMA StartStacked ==
    ASSUME TypeOK, Stacked, NEW t \in Tasks, NEW p \in Procs,
           \/ Report(p, t) \/ AdvanceLoop(p, t)
           \/ \E i \in DOMAIN prs[t] : \/ Stamp(p, t, i)
                                       \/ \E q \in Procs : Webhook(p, q, t, i)
    PROVE  Stacked'
<1>1. CASE Report(p, t)
    <2>1. UNCHANGED work \/ Become(p, Doing("resolve", t, <<>>))
        BY <1>1 DEF Report, Resolving
    <2> QED BY <2>1, BeginWork DEF Stacked, At, Others
<1>2. CASE AdvanceLoop(p, t)
    <2>1. Become(p, Doing("resolve", t, <<>>))
        BY <1>2 DEF AdvanceLoop, Resolving
    <2> QED BY <2>1, BeginWork DEF Stacked, At, Others
<1>3. ASSUME NEW i \in DOMAIN prs[t], Stamp(p, t, i)
      PROVE  Stacked'
    <2>1. Become(p, Doing("dependents", t, <<>>))
        BY <1>3 DEF Stamp
    <2> QED BY <2>1, BeginWork DEF Stacked, At, Others
<1>4. ASSUME NEW i \in DOMAIN prs[t], NEW q \in Procs, Webhook(p, q, t, i)
      PROVE  Stacked'
    BY <1>4, WebhookWork DEF Stacked, At
<1> QED BY <1>1, <1>2, <1>3, <1>4

LEMMA StepRows ==
    ASSUME TypeOK, Rows, NEW p \in Procs, Step(p), Stacked
    PROVE  Rows'
<1>0. work[p] \in Resolution /\ work[p].t \in Tasks
    BY DEF TypeOK, Resolution
<1>1. CASE UNCHANGED <<status, held, prs, told, silent>>
    BY <1>1 DEF Rows
<1>2. CASE Fail(p)
    BY <1>2, FailWork DEF Fail, Rows, TypeOK
<1>3. CASE Wake(p)
    <2> PICK found \in SUBSET Landed(work[p].wait) :
            /\ prs' = [d \in Tasks |-> IF d \in found
                                       THEN [prs[d] EXCEPT ![Latest(d)] = "merged"]
                                       ELSE prs[d]]
            /\ silent' = [d \in Tasks |-> silent[d] \/ d \in found]
        BY <1>3 DEF Wake
    <2>1. \A d \in found : prs[d] # <<>>
        BY DEF Landed
    <2>2. \A d \in Tasks : status'[d] = status[d] /\ held'[d] = held[d]
                           /\ (told[d] => told'[d])
        BY <1>3 DEF Wake, TypeOK
    <2>3. \A d \in Tasks : d \notin found => prs'[d] = prs[d] /\ (silent'[d] <=> silent[d])
        OBVIOUS
    <2>4. \A d \in Tasks : d \in found => silent'[d]
        OBVIOUS
    <2>5. \A d \in Tasks : status[d] = "none" => d \notin found
        BY <2>1 DEF Rows
    <2> QED BY <2>2, <2>3, <2>4, <2>5 DEF Rows
<1>4. CASE WebhookCompletes(p)
    BY <1>4, <1>0 DEF WebhookCompletes, Silence, Rows, TypeOK
<1> QED BY <1>1, <1>2, <1>3, <1>4
        DEF Step, Resolve, Cascade, LoopEnds, Dependents, States

LEMMA RequestRows ==
    ASSUME TypeOK, Rows, NEW t \in Tasks,
           \/ Create(t) \/ Claim(t) \/ CiExhausted(t) \/ Reassign(t)
           \/ \E s \in {"pending", "completed", "failed", "cancelled"} : EditStatus(t, s)
    PROVE  Rows'
<1> USE DEF Rows, TypeOK
<1>1. CASE Create(t)
    <2>1. DOMAIN prs[t] = {}
        BY <1>1, EmptySeq DEF Create
    <2>2. \A u \in Tasks : told[u] => told'[u]
        BY <1>1 DEF Create, Tell
    <2> QED BY <1>1, <2>1, <2>2 DEF Create
<1>2. CASE Claim(t)
    BY <1>2 DEF Claim
<1>3. CASE CiExhausted(t)
    BY <1>3 DEF CiExhausted, Silence
<1>4. CASE Reassign(t)
    <2>1. \A u \in Tasks : told[u] => told'[u]
        BY <1>4 DEF Reassign, Tell
    <2> QED BY <1>4, <2>1 DEF Reassign
<1>5. ASSUME NEW s \in {"pending", "completed", "failed", "cancelled"}, EditStatus(t, s)
      PROVE  Rows'
    BY <1>5 DEF EditStatus, Silence
<1> QED BY <1>1, <1>2, <1>3, <1>4, <1>5

(* One pull request moves to another state.                                   *)
LEMMA PrMoves ==
    ASSUME TypeOK, NEW t \in Tasks, NEW i \in DOMAIN prs[t], NEW x \in PrState,
           prs' = [prs EXCEPT ![t][i] = x]
    PROVE  /\ \A u \in Tasks \ {t} : prs'[u] = prs[u]
           /\ DOMAIN prs'[t] = DOMAIN prs[t] /\ prs[t] # <<>> /\ prs'[t] # <<>>
           /\ prs'[t][i] = x
           /\ \A j \in DOMAIN prs[t] \ {i} : prs'[t][j] = prs[t][j]
<1>1. prs[t] \in Seq(PrState) /\ prs \in [Tasks -> Seq(PrState)]
    BY DEF TypeOK
<1>2. prs'[t] = [prs[t] EXCEPT ![i] = x] /\ \A u \in Tasks \ {t} : prs'[u] = prs[u]
    BY <1>1
<1>3. DOMAIN prs'[t] = DOMAIN prs[t] /\ prs'[t][i] = x
      /\ \A j \in DOMAIN prs[t] \ {i} : prs'[t][j] = prs[t][j]
    BY <1>2
<1>4. DOMAIN prs[t] # {}
    OBVIOUS
<1>5. prs[t] # <<>> /\ prs'[t] # <<>>
    BY <1>3, <1>4, EmptySeq
<1> QED BY <1>2, <1>3, <1>5

LEMMA PullRequestRows ==
    ASSUME TypeOK, Rows, NEW t \in Tasks,
           \/ OpenPr(t)
           \/ \E i \in DOMAIN prs[t] : MergeOnGitHub(t, i) \/ Close(t, i) \/ Reconcile(t, i)
    PROVE  Rows'
<1>1. CASE OpenPr(t)
    <2>1. prs[t] \in Seq(PrState) /\ prs'[t] = Append(prs[t], "open")
        BY <1>1 DEF OpenPr, TypeOK
    <2>2. \A i \in DOMAIN prs'[t] : prs'[t][i] = "closed" =>
              i \in DOMAIN prs[t] /\ prs[t][i] = "closed"
        <3>1. /\ Len(prs'[t]) = Len(prs[t]) + 1 /\ DOMAIN prs'[t] = 1..Len(prs'[t])
              /\ \A i \in 1..Len(prs[t]) : prs'[t][i] = prs[t][i]
              /\ prs'[t][Len(prs[t]) + 1] = "open" /\ DOMAIN prs[t] = 1..Len(prs[t])
              /\ Len(prs[t]) \in Nat
            BY <2>1, "open" \in PrState, AppendProperties, LenProperties DEF PrState
        <3> QED BY <3>1
    <2>3. status[t] # "none"
        BY <1>1 DEF OpenPr, Rows
    <2>4. \A u \in Tasks \ {t} : prs'[u] = prs[u]
        BY <1>1 DEF OpenPr, TypeOK
    <2> QED BY <1>1, <2>2, <2>3, <2>4 DEF OpenPr, Rows
<1>2. ASSUME NEW i \in DOMAIN prs[t], MergeOnGitHub(t, i) \/ Close(t, i) \/ Reconcile(t, i)
      PROVE  Rows'
    <2>1. PICK x \in {"landed", "closed", "merged"} : prs' = [prs EXCEPT ![t][i] = x]
        BY <1>2 DEF MergeOnGitHub, Close, Reconcile
    <2>2. /\ \A u \in Tasks \ {t} : prs'[u] = prs[u]
          /\ DOMAIN prs'[t] = DOMAIN prs[t] /\ prs[t] # <<>>
          /\ prs'[t][i] = x
          /\ \A j \in DOMAIN prs[t] \ {i} : prs'[t][j] = prs[t][j]
        BY <2>1, PrMoves DEF PrState
    <2>3. x = "closed" => silent'[t]
        BY <1>2, <2>2 DEF MergeOnGitHub, Close, Reconcile, Silence, TypeOK
    <2>4. /\ UNCHANGED <<status, held, told>>
          /\ \A u \in Tasks : silent[u] => silent'[u]
        BY <1>2 DEF MergeOnGitHub, Close, Reconcile, Silence, TypeOK
    <2> QED BY <2>2, <2>3, <2>4 DEF Rows
<1> QED BY <1>1, <1>2

LEMMA StartRows ==
    ASSUME TypeOK, Rows, NEW t \in Tasks, NEW p \in Procs,
           \/ Report(p, t) \/ AdvanceLoop(p, t)
           \/ \E i \in DOMAIN prs[t] : \/ Stamp(p, t, i)
                                       \/ \E q \in Procs : Webhook(p, q, t, i)
    PROVE  Rows'
<1>1. CASE Report(p, t)
    <2>1. status[t] # "none"
        BY <1>1 DEF Report, Rows
    <2>2. PICK e \in Ends(t) :
            /\ IF status[t] = "cancelled" THEN UNCHANGED <<status, loop>>
               ELSE /\ status' = [status EXCEPT ![t] = e.s]
                    /\ loop' = [loop EXCEPT ![t] = e.l]
            /\ silent' = [silent EXCEPT ![t] = @ \/ (e.s = "pending" /\ status[t] # "assigned")]
        BY <1>1 DEF Report
    <2>3. e.s \in {"failed", "pending", "completed"}
        BY DEF Ends
    <2>4. /\ \A u \in Tasks \ {t} : status'[u] = status[u] /\ held'[u] = held[u]
          /\ status'[t] \in {"failed", "pending", "completed", "cancelled"}
        BY <1>1, <2>2, <2>3 DEF Report, TypeOK
    <2>5. \A u \in Tasks : silent[u] => silent'[u]
        BY <2>2 DEF TypeOK
    <2>6. UNCHANGED <<prs, told>>
        BY <1>1 DEF Report
    <2> QED BY <2>1, <2>4, <2>5, <2>6 DEF Rows
<1>2. CASE AdvanceLoop(p, t)
    <2>1. DOMAIN prs[t] # {}
        BY <1>2 DEF AdvanceLoop
    <2>2. prs[t] # <<>>
        BY <2>1, EmptySeq
    <2> QED BY <1>2, <2>2 DEF AdvanceLoop, Rows, TypeOK
<1>3. ASSUME NEW i \in DOMAIN prs[t], Stamp(p, t, i) \/ \E q \in Procs : Webhook(p, q, t, i)
      PROVE  Rows'
    <2>1. /\ prs' = [prs EXCEPT ![t][i] = "merged"] /\ UNCHANGED <<status, held, told, silent>>
        BY <1>3 DEF Stamp, Webhook
    <2>2. /\ \A u \in Tasks \ {t} : prs'[u] = prs[u]
          /\ DOMAIN prs'[t] = DOMAIN prs[t] /\ prs[t] # <<>>
          /\ prs'[t][i] = "merged"
          /\ \A j \in DOMAIN prs[t] \ {i} : prs'[t][j] = prs[t][j]
        BY <2>1, PrMoves DEF PrState
    <2> QED BY <2>1, <2>2 DEF Rows
<1> QED BY <1>1, <1>2, <1>3

----------------------------------------------------------------------------
(* Awake is kept.                                                             *)

LEMMA Dependencies == ASSUME TypeOK PROVE deps \in [Tasks -> SUBSET Tasks]
BY DepsAssumption DEF TypeOK

LEMMA WakingStays ==
    ASSUME UNCHANGED deps, NEW u \in Tasks, NEW o \in Procs,
           work'[o] = work[o], Waking(o, u)
    PROVE  Waking(o, u)'
BY DEF Waking, At

(* Where resolutions that wake nobody begin or go on, Awake is kept if no     *)
(* task becomes one that is to be told.                                       *)
LEMMA AwakeKept ==
    ASSUME TypeOK, Awake, UNCHANGED deps,
           \A u \in Tasks : Untold(u)' => Untold(u) \/ \E o \in Procs : Waking(o, u)',
           \A o \in Procs : work'[o] = work[o] \/ \A u \in Tasks : ~Waking(o, u)
    PROVE  Awake'
BY WakingStays DEF Awake

(* A task that is to be told was so before, if what it waits for has changed  *)
(* silently or not at all.                                                    *)
LEMMA UntoldKept ==
    ASSUME TypeOK, UNCHANGED deps, NEW u \in Tasks, Untold(u)',
           status[u] = "pending", told[u] => told'[u], silent[u] => silent'[u],
           \A d \in deps[u] :
               \/ silent'[d]
               \/ status'[d] \notin {"completed", "cancelled"}
               \/ /\ status'[d] = status[d] /\ loop'[d] = loop[d]
                  /\ silent[d] => silent'[d]
                  /\ Delivered(d)' => Delivered(d)
    PROVE  Untold(u)
<1>1. /\ status[u] = "pending" /\ ~told[u] /\ ~silent[u]
      /\ deps'[u] = deps[u]
    BY DEF Untold, Excused
<1>2. ASSUME NEW d \in deps[u]
      PROVE  /\ status[d] = "completed" /\ Delivered(d)
             /\ ~silent[d] /\ loop[d] \in {"null", "satisfied"}
    <2>1. ~silent'[d] /\ status'[d] # "cancelled" /\ loop'[d] \in {"null", "satisfied"}
        BY <1>1, <1>2 DEF Untold, Excused
    <2>2. status'[d] = "completed" /\ Delivered(d)'
        BY <1>1, <1>2, <2>1 DEF Untold, GateOpen
    <2> QED BY <1>2, <2>1, <2>2
<1> QED BY <1>1, <1>2 DEF Untold, Excused, GateOpen

LEMMA RequestAwake ==
    ASSUME TypeOK, Awake, Rows, NEW t \in Tasks,
           \/ Create(t) \/ Claim(t) \/ CiExhausted(t) \/ Reassign(t)
           \/ \E s \in {"pending", "completed", "failed", "cancelled"} : EditStatus(t, s)
    PROVE  Awake'
<1>0. deps \in [Tasks -> SUBSET Tasks]
    BY Dependencies
<1>s. SUFFICES ASSUME NEW u \in Tasks, Untold(u)'
               PROVE  Untold(u)
    <2>1. UNCHANGED <<deps, work>>
        BY DEF Create, Claim, CiExhausted, Reassign, EditStatus
    <2> QED BY <1>s, <2>1, AwakeKept
<1>p. status'[u] = "pending" /\ GateOpen(u)' /\ ~told'[u]
    BY <1>s DEF Untold
<1>1. CASE Create(t)
    <2>1. /\ UNCHANGED <<deps, loop, prs>> /\ status' = [status EXCEPT ![t] = "pending"]
          /\ \A d \in Tasks : d # t => silent'[d] = silent[d]
          /\ \A d \in Tasks : told[d] => told'[d]
          /\ GateOpen(t) => told'[t]
        BY <1>1 DEF Create, Tell, TypeOK
    <2>2. GateOpen(t)' => GateOpen(t)
        BY <1>0, <2>1 DEF GateOpen, Delivered, TypeOK
    <2>3. u # t
        BY <1>p, <2>1, <2>2
    <2>4. \A d \in Tasks : Delivered(d)' <=> Delivered(d)
        BY <2>1 DEF Delivered
    <2> QED BY <1>0, <1>s, <1>p, <2>1, <2>3, <2>4, UntoldKept DEF TypeOK
<1>2. CASE Claim(t)
    BY <1>0, <1>2, <1>s DEF Claim, Untold, Excused, GateOpen, Delivered, TypeOK
<1>3. CASE CiExhausted(t)
    BY <1>0, <1>3, <1>s DEF CiExhausted, Silence, Untold, Excused, GateOpen, Delivered, TypeOK
<1>4. CASE Reassign(t)
    <2>1. /\ UNCHANGED <<deps, loop, prs>> /\ status' = [status EXCEPT ![t] = "pending"]
          /\ \A d \in Tasks : silent[d] => silent'[d]
          /\ \A d \in Tasks : told[d] => told'[d]
          /\ GateOpen(t) => told'[t]
        BY <1>4 DEF Reassign, Tell, TypeOK
    <2>2. GateOpen(t)' => GateOpen(t)
        BY <1>0, <2>1 DEF GateOpen, Delivered, TypeOK
    <2>3. u # t
        BY <1>p, <2>1, <2>2
    <2>4. \A d \in Tasks : Delivered(d)' <=> Delivered(d)
        BY <2>1 DEF Delivered
    <2> QED BY <1>0, <1>s, <1>p, <2>1, <2>3, <2>4, UntoldKept DEF TypeOK
<1>5. ASSUME NEW s \in {"pending", "completed", "failed", "cancelled"}, EditStatus(t, s)
      PROVE  Untold(u)
    BY <1>0, <1>5, <1>s DEF EditStatus, Silence, Untold, Excused, GateOpen, Delivered, TypeOK
<1> QED BY <1>1, <1>2, <1>3, <1>4, <1>5

LEMMA PullRequestAwake ==
    ASSUME TypeOK, Awake, NEW t \in Tasks,
           \/ OpenPr(t)
           \/ \E i \in DOMAIN prs[t] : MergeOnGitHub(t, i) \/ Close(t, i) \/ Reconcile(t, i)
    PROVE  Awake'
<1>0. deps \in [Tasks -> SUBSET Tasks]
    BY Dependencies
<1>s. SUFFICES ASSUME NEW u \in Tasks, Untold(u)'
               PROVE  Untold(u)
    <2>1. UNCHANGED <<deps, work>>
        BY DEF OpenPr, MergeOnGitHub, Close, Reconcile
    <2> QED BY <1>s, <2>1, AwakeKept
<1>1. CASE OpenPr(t)
    <2>1. prs[t] \in Seq(PrState) /\ prs'[t] = Append(prs[t], "open")
        BY <1>1 DEF OpenPr, TypeOK
    <2>2. Delivered(t)' => Delivered(t)
        <3>1. /\ Len(prs'[t]) = Len(prs[t]) + 1 /\ DOMAIN prs'[t] = 1..Len(prs'[t])
              /\ \A i \in 1..Len(prs[t]) : prs'[t][i] = prs[t][i]
              /\ DOMAIN prs[t] = 1..Len(prs[t]) /\ Len(prs[t]) \in Nat
            BY <2>1, "open" \in PrState, AppendProperties, LenProperties DEF PrState
        <3> QED BY <3>1 DEF Delivered
    <2>3. \A d \in Tasks \ {t} : Delivered(d)' <=> Delivered(d)
        BY <1>1 DEF OpenPr, TypeOK, Delivered
    <2>4. UNCHANGED <<deps, status, loop, told, silent>>
        BY <1>1 DEF OpenPr
    <2> QED BY <1>0, <1>s, <2>2, <2>3, <2>4 DEF Untold, Excused, GateOpen
<1>2. ASSUME NEW i \in DOMAIN prs[t], MergeOnGitHub(t, i)
      PROVE  Untold(u)
    <2>1. prs[t][i] = "open" /\ prs' = [prs EXCEPT ![t][i] = "landed"]
        BY <1>2 DEF MergeOnGitHub
    <2>2. prs'[t][i] = "landed" /\ DOMAIN prs'[t] = DOMAIN prs[t]
          /\ \A d \in Tasks \ {t} : prs'[d] = prs[d]
        BY <2>1, PrMoves DEF PrState
    <2>3. ~Delivered(t)'
        BY <2>2 DEF Delivered
    <2>4. \A d \in Tasks \ {t} : Delivered(d)' <=> Delivered(d)
        BY <2>2 DEF Delivered
    <2>5. UNCHANGED <<deps, status, loop, told, silent>>
        BY <1>2 DEF MergeOnGitHub
    <2> QED BY <1>0, <1>s, <2>3, <2>4, <2>5 DEF Untold, Excused, GateOpen
<1>3. ASSUME NEW i \in DOMAIN prs[t], Close(t, i) \/ Reconcile(t, i)
      PROVE  Untold(u)
    <2>1. PICK x \in {"closed", "merged"} : prs' = [prs EXCEPT ![t][i] = x]
        BY <1>3 DEF Close, Reconcile
    <2>2. \A d \in Tasks \ {t} : prs'[d] = prs[d]
        BY <2>1, PrMoves DEF PrState
    <2>3. \A d \in Tasks \ {t} : Delivered(d)' <=> Delivered(d)
        BY <2>2 DEF Delivered
    <2>4. /\ UNCHANGED <<deps, status, loop, told>>
          /\ silent'[t] /\ \A d \in Tasks : silent[d] => silent'[d]
        BY <1>3 DEF Close, Reconcile, Silence, TypeOK
    <2> QED BY <1>0, <1>s, <2>3, <2>4 DEF Untold, Excused, GateOpen
<1> QED BY <1>1, <1>2, <1>3

LEMMA StartAwake ==
    ASSUME TypeOK, Rows, Awake, NEW t \in Tasks, NEW p \in Procs,
           \/ Report(p, t) \/ AdvanceLoop(p, t)
           \/ \E i \in DOMAIN prs[t] : \/ Stamp(p, t, i)
                                       \/ \E q \in Procs : Webhook(p, q, t, i)
    PROVE  Awake'
<1>0. deps \in [Tasks -> SUBSET Tasks]
    BY Dependencies
<1>i. \A o \in Procs : At(o, "idle") => \A u \in Tasks : ~Waking(o, u)
    BY DEF At, Waking
<1>1. CASE Report(p, t)
    <2>1. PICK e \in Ends(t) :
            /\ IF status[t] = "cancelled" THEN UNCHANGED <<status, loop>>
               ELSE /\ status' = [status EXCEPT ![t] = e.s]
                    /\ loop' = [loop EXCEPT ![t] = e.l]
            /\ IF e.s = "pending" THEN UNCHANGED work ELSE Resolving(p, t)
            /\ silent' = [silent EXCEPT ![t] = @ \/ (e.s = "pending" /\ status[t] # "assigned")]
        BY <1>1 DEF Report
    <2>2. e.s \in {"failed", "pending", "completed"}
        BY DEF Ends
    <2>3. At(p, "idle") /\ UNCHANGED <<deps, prs, told>>
        BY <1>1 DEF Report
    <2>4. CASE e.s = "pending"
        <3>1. UNCHANGED work
            BY <2>1, <2>4
        <3>2. ASSUME NEW u \in Tasks, Untold(u)'
              PROVE  Untold(u)
            <4>1. CASE u = t /\ status[t] # "cancelled"
                BY <2>1, <2>3, <2>4, <3>2, <4>1 DEF Rows, Untold, Excused, TypeOK
            <4>2. CASE u # t \/ status[t] = "cancelled"
                <5>1. /\ \A d \in Tasks : \/ status'[d] = status[d] /\ loop'[d] = loop[d]
                                          \/ status'[d] = "pending"
                      /\ status'[u] = status[u]
                      /\ \A d \in Tasks : silent[d] => silent'[d]
                    BY <2>1, <2>4, <4>2 DEF TypeOK
                <5>2. \A d \in Tasks : Delivered(d)' <=> Delivered(d)
                    BY <2>3 DEF Delivered
                <5>3. status[u] = "pending"
                    BY <3>2, <5>1 DEF Untold
                <5> QED BY <1>0, <2>3, <3>2, <5>1, <5>2, <5>3, UntoldKept
            <4> QED BY <4>1, <4>2
        <3> QED BY <2>3, <3>1, <3>2, AwakeKept
    <2>5. CASE e.s # "pending"
        <3>1. Others(p) /\ work'[p].pc = "resolve" /\ work'[p].t = t
            BY <2>1, <2>5, BeginWork DEF Resolving
        <3>2. ASSUME NEW u \in Tasks, Untold(u)', t \notin deps[u]
              PROVE  Untold(u)
            <4>1. /\ \A d \in Tasks \ {t} : status'[d] = status[d] /\ loop'[d] = loop[d]
                  /\ \A d \in Tasks : silent[d] => silent'[d]
                BY <2>1 DEF TypeOK
            <4>2. \A d \in Tasks : Delivered(d)' <=> Delivered(d)
                BY <2>3 DEF Delivered
            <4>3. status'[t] # "pending"
                BY <2>1, <2>2, <2>5 DEF TypeOK
            <4>4. status[u] = "pending"
                BY <3>2, <4>1, <4>3 DEF Untold
            <4> QED BY <1>0, <2>3, <3>2, <4>1, <4>2, <4>4, UntoldKept
        <3>3. ASSUME NEW u \in Tasks, t \in deps[u]
              PROVE  Waking(p, u)'
            BY <2>3, <3>1, <3>3 DEF Waking
        <3> QED BY <1>i, <2>3, <3>1, <3>2, <3>3, AwakeKept DEF Others
    <2> QED BY <2>4, <2>5
<1>2. CASE AdvanceLoop(p, t)
    <2>1. Others(p) /\ work'[p].pc = "resolve" /\ work'[p].t = t
        BY <1>2, BeginWork DEF AdvanceLoop, Resolving
    <2>2. ASSUME NEW u \in Tasks, Untold(u)', t \notin deps[u]
          PROVE  Untold(u)
        BY <1>0, <1>2, <2>2 DEF AdvanceLoop, Untold, Excused, GateOpen, Delivered, TypeOK
    <2>3. ASSUME NEW u \in Tasks, t \in deps[u]
          PROVE  Waking(p, u)'
        BY <1>2, <2>1, <2>3 DEF AdvanceLoop, Waking
    <2>4. At(p, "idle") /\ UNCHANGED deps
        BY <1>2 DEF AdvanceLoop
    <2> QED BY <1>i, <2>1, <2>2, <2>3, <2>4, AwakeKept DEF Others
<1>3. ASSUME NEW i \in DOMAIN prs[t], Stamp(p, t, i) \/ \E q \in Procs : Webhook(p, q, t, i)
      PROVE  Awake'
    <2>1. /\ prs' = [prs EXCEPT ![t][i] = "merged"]
          /\ UNCHANGED <<deps, status, loop, told, silent>>
        BY <1>3 DEF Stamp, Webhook
    <2>2. \A d \in Tasks \ {t} : prs'[d] = prs[d]
        BY <2>1, PrMoves DEF PrState
    <2>3. \A d \in Tasks \ {t} : Delivered(d)' <=> Delivered(d)
        BY <2>2 DEF Delivered
    <2>4. ASSUME NEW u \in Tasks, Untold(u)', t \notin deps[u]
          PROVE  Untold(u)
        BY <1>0, <2>1, <2>3, <2>4 DEF Untold, Excused, GateOpen
    <2>5. work'[p].pc = "dependents" /\ work'[p].t = t
        <3>1. CASE Stamp(p, t, i)
            BY <3>1, BeginWork DEF Stamp
        <3> QED BY <1>3, <3>1, WebhookWork
    <2>6. ASSUME NEW u \in Tasks, t \in deps[u]
          PROVE  Waking(p, u)'
        BY <2>1, <2>5, <2>6 DEF Waking
    <2>7. \A o \in Procs : work'[o] = work[o] \/ At(o, "idle")
        <3>1. CASE Stamp(p, t, i)
            BY <3>1, BeginWork DEF Stamp, Others
        <3>2. ASSUME NEW q \in Procs, Webhook(p, q, t, i)
              PROVE  \A o \in Procs : work'[o] = work[o] \/ At(o, "idle")
            <4>1. At(p, "idle") /\ At(q, "idle")
                BY <3>2 DEF Webhook
            <4> QED BY <3>2, <4>1, WebhookWork
        <3> QED BY <1>3, <3>1, <3>2
    <2> QED BY <1>i, <2>1, <2>4, <2>6, <2>7, AwakeKept
<1> QED BY <1>1, <1>2, <1>3

LEMMA StepAwake ==
    ASSUME TypeOK, Stacked, Rows, Awake, NEW p \in Procs, Step(p)
    PROVE  Awake'
<1>0. deps \in [Tasks -> SUBSET Tasks] /\ work[p].t \in Tasks
    BY Dependencies DEF TypeOK, Resolution
<1>u. ASSUME Others(p), UNCHANGED deps,
             \A u \in Tasks : Untold(u)' => Untold(u) /\ (Waking(p, u) => Waking(p, u)')
      PROVE  Awake'
    BY <1>u, WakingStays DEF Awake, Others
<1>v. ASSUME UNCHANGED <<deps, status, loop, prs, told, silent>>
      PROVE  \A u \in Tasks : Untold(u)' <=> Untold(u)
    BY <1>v DEF Untold, Excused, GateOpen, Delivered
<1>1. CASE Resolve(p)
    <2>1. UNCHANGED <<deps, status, loop, prs, told, silent>>
        BY <1>1 DEF Resolve
    <2>2. ASSUME NEW u \in Tasks, Untold(u), Waking(p, u)
          PROVE  Waking(p, u)'
        <3>1. work[p].pc = "resolve" /\ work[p].t \in deps[u]
            BY <1>1, <2>2 DEF Resolve, At, Waking
        <3>2. status[work[p].t] = "completed"
            BY <2>2, <3>1 DEF Untold, Excused, GateOpen
        <3>3. work'[p].pc = "dependents" /\ work'[p].t = work[p].t
            BY <1>1, <3>2, ResolveWork
        <3> QED BY <2>1, <3>1, <3>3 DEF Waking
    <2> QED BY <1>1, <1>u, <1>v, <2>1, <2>2, ResolveWork
<1>2. CASE Cascade(p)
    <2>1. UNCHANGED <<deps, status, loop, prs, told, silent>> /\ At(p, "cascade")
        BY <1>2 DEF Cascade
    <2>2. \A u \in Tasks : ~Waking(p, u)
        BY <2>1 DEF Waking, At
    <2> QED BY <1>2, <1>u, <1>v, <2>1, <2>2, CascadeWork
<1>3. CASE Fail(p)
    <2>1. PICK x \in Tasks : status' = [status EXCEPT ![x] = "failed"] /\ Others(p)
        BY <1>3, FailWork
    <2>2. \A u \in Tasks : ~Waking(p, u)
        BY <1>3 DEF Fail, Waking, At
    <2>3. UNCHANGED <<deps, loop, prs, told, silent>>
        BY <1>3 DEF Fail
    <2>4. ASSUME NEW u \in Tasks, Untold(u)'
          PROVE  Untold(u)
        BY <1>0, <2>1, <2>3, <2>4 DEF Untold, Excused, GateOpen, Delivered, TypeOK
    <2> QED BY <1>u, <2>1, <2>2, <2>3, <2>4
<1>4. CASE LoopEnds(p)
    <2>1. UNCHANGED <<deps, status, loop, prs, told, silent>> /\ At(p, "fail")
        BY <1>4 DEF LoopEnds
    <2>2. \A u \in Tasks : ~Waking(p, u)
        BY <2>1 DEF Waking, At
    <2> QED BY <1>4, <1>u, <1>v, <2>1, <2>2, LoopEndsWork
<1>5. CASE Dependents(p)
    <2>1. UNCHANGED <<deps, status, loop, prs, told, silent>>
        BY <1>5 DEF Dependents
    <2>2. ASSUME NEW u \in Tasks, Untold(u), Waking(p, u)
          PROVE  Waking(p, u)'
        <3>1. work[p].t \in deps[u] /\ status[u] = "pending"
            BY <1>5, <2>2 DEF Dependents, At, Waking, Untold
        <3>2. work'[p].pc = "states" /\ u \in work'[p].wait
            BY <1>5, <3>1, DependentsWork
        <3> QED BY <3>2 DEF Waking, At
    <2> QED BY <1>5, <1>u, <1>v, <2>1, <2>2, DependentsWork
<1>6. CASE States(p)
    <2>1. UNCHANGED <<deps, status, loop, prs, told, silent>>
        BY <1>6 DEF States
    <2>2. ASSUME NEW u \in Tasks, Untold(u), Waking(p, u)
          PROVE  Waking(p, u)'
        <3>1. u \in work[p].wait
            BY <1>6, <2>2 DEF States, At, Waking
        <3>2. \A d \in deps[u] : Done(d)
            BY <2>2 DEF Untold, Excused, GateOpen, Done
        <3>3. deps[u] \subseteq work'[p].done
            BY <1>6, <3>1, <3>2, StatesWork
        <3>4. work'[p].pc = "prs" /\ u \in work'[p].wait
            BY <1>6, <3>1, StatesWork
        <3> QED BY <2>1, <3>3, <3>4 DEF Waking, At
    <2> QED BY <1>6, <1>u, <1>v, <2>1, <2>2, StatesWork
<1>7. CASE Wake(p)
    <2> PICK found \in SUBSET Landed(work[p].wait) :
          LET now == [d \in Tasks |-> IF d \in found
                                      THEN [prs[d] EXCEPT ![Latest(d)] = "merged"]
                                      ELSE prs[d]]
              ready == {d \in work[p].done : now[d] # <<>> => now[d][Latest(d)] = "merged"}
          IN  /\ prs' = now
              /\ silent' = [d \in Tasks |-> silent[d] \/ d \in found]
              /\ told' = [u \in Tasks |->
                            \/ told[u]
                            \/ /\ u \in work[p].wait /\ deps[u] \subseteq ready
                               /\ status[u] = "pending" /\ GateOpen(u)']
        BY <1>7 DEF Wake
    <2>1. UNCHANGED <<deps, status, loop>> /\ At(p, "prs")
        BY <1>7 DEF Wake
    <2>2. /\ \A d \in Tasks : d \notin found => prs'[d] = prs[d]
          /\ \A d \in Tasks : silent'[d] <=> silent[d] \/ d \in found
          /\ \A u \in Tasks : told[u] => told'[u]
        OBVIOUS
    <2>3. ASSUME NEW u \in Tasks, Untold(u)'
          PROVE  Untold(u) /\ \A d \in deps[u] : d \notin found /\ ~silent[d]
        <3>1. \A d \in deps[u] : d \notin found /\ ~silent[d]
            BY <1>0, <2>1, <2>2, <2>3 DEF Untold, Excused
        <3>2. \A d \in deps[u] : Delivered(d)' <=> Delivered(d)
            BY <1>0, <2>2, <3>1 DEF Delivered
        <3>3. status[u] = "pending"
            BY <2>1, <2>3 DEF Untold
        <3> QED BY <1>0, <2>1, <2>2, <2>3, <3>1, <3>2, <3>3, UntoldKept
    <2>4. ASSUME NEW u \in Tasks, Untold(u)', Waking(p, u)
          PROVE  FALSE
        <3>1. u \in work[p].wait /\ deps[u] \subseteq work[p].done
            BY <2>1, <2>4 DEF Waking, At
        <3>2. ASSUME NEW d \in deps[u]
              PROVE  prs'[d] # <<>> => prs'[d][Latest(d)] = "merged"
            <4>1. d \in Tasks /\ d \notin found /\ ~silent[d] /\ prs'[d] = prs[d]
                BY <1>0, <2>2, <2>3, <2>4
            <4>2. \A i \in DOMAIN prs[d] : prs[d][i] \in {"merged", "closed"}
                BY <2>3, <2>4, <3>2 DEF Untold, Excused, GateOpen, Delivered
            <4>3. \A i \in DOMAIN prs[d] : prs[d][i] = "merged"
                BY <4>1, <4>2 DEF Rows
            <4>4. prs[d] # <<>> => Latest(d) \in DOMAIN prs[d]
                BY <4>1, EmptySeq, LenProperties DEF TypeOK, Latest
            <4> QED BY <4>1, <4>3, <4>4
        <3>3. told'[u]
            BY <2>1, <2>4, <3>1, <3>2 DEF Untold
        <3> QED BY <2>4, <3>3 DEF Untold
    <2> QED BY <1>7, <1>u, <2>1, <2>3, <2>4, WakeWork
<1>8. CASE WebhookCompletes(p)
    <2>1. \A u \in Tasks : ~Waking(p, u)
        BY <1>8 DEF WebhookCompletes, Waking, At
    <2>2. UNCHANGED <<deps, loop, prs, told>>
        BY <1>8 DEF WebhookCompletes
    <2>3. ASSUME NEW u \in Tasks, Untold(u)'
          PROVE  Untold(u)
        BY <1>0, <1>8, <2>3 DEF WebhookCompletes, Silence, Untold, Excused, GateOpen, Delivered, TypeOK
    <2>4. Others(p)
        BY <1>8, IdleIsTyped, BecomeIsTyped DEF WebhookCompletes, TypeOK, Others
    <2> QED BY <1>u, <2>1, <2>2, <2>3, <2>4
<1> QED BY <1>1, <1>2, <1>3, <1>4, <1>5, <1>6, <1>7, <1>8 DEF Step

----------------------------------------------------------------------------
(* Cascading is kept.                                                         *)

LEMMA FailingStays ==
    ASSUME NEW t \in Tasks, NEW d \in Tasks, NEW o \in Procs, work'[o] = work[o], Failing(o, t, d)
    PROVE  Failing(o, t, d)'
BY DEF Failing, Queued

LEMMA CascadingKept ==
    ASSUME Cascading,
           \A t, d \in Tasks : Blocked(t, d)' =>
               Blocked(t, d) \/ \E o \in Procs : Failing(o, t, d)',
           \A o \in Procs : \/ work'[o] = work[o]
                            \/ \A t, d \in Tasks : ~Failing(o, t, d)
    PROVE  Cascading'
BY FailingStays DEF Cascading

LEMMA RequestCascading ==
    ASSUME TypeOK, Cascading, NEW t \in Tasks,
           \/ Create(t) \/ Claim(t) \/ CiExhausted(t) \/ Reassign(t)
           \/ \E s \in {"pending", "completed", "failed", "cancelled"} : EditStatus(t, s)
    PROVE  Cascading'
<1>0. deps \in [Tasks -> SUBSET Tasks]
    BY Dependencies
<1>s. SUFFICES ASSUME NEW u \in Tasks, NEW d \in Tasks, Blocked(u, d)'
               PROVE  Blocked(u, d)
    <2>1. UNCHANGED work
        BY DEF Create, Claim, CiExhausted, Reassign, EditStatus
    <2> QED BY <1>s, <2>1, CascadingKept
<1> USE <1>0, <1>s DEF Blocked, TypeOK
<1>1. CASE Create(t)
    BY <1>1 DEF Create
<1>2. CASE Claim(t)
    BY <1>2 DEF Claim
<1>3. CASE CiExhausted(t)
    BY <1>3 DEF CiExhausted, Silence
<1>4. CASE Reassign(t)
    BY <1>4 DEF Reassign
<1>5. ASSUME NEW s \in {"pending", "completed", "failed", "cancelled"}, EditStatus(t, s)
      PROVE  Blocked(u, d)
    BY <1>5 DEF EditStatus, Silence
<1> QED BY <1>1, <1>2, <1>3, <1>4, <1>5

LEMMA PullRequestCascading ==
    ASSUME TypeOK, Cascading, NEW t \in Tasks,
           \/ OpenPr(t)
           \/ \E i \in DOMAIN prs[t] : MergeOnGitHub(t, i) \/ Close(t, i) \/ Reconcile(t, i)
    PROVE  Cascading'
<1>1. /\ UNCHANGED <<deps, status, work>>
      /\ \A u \in Tasks : silent[u] => silent'[u]
    BY DEF OpenPr, MergeOnGitHub, Close, Reconcile, Silence, TypeOK
<1>2. \A u, d \in Tasks : Blocked(u, d)' => Blocked(u, d)
    BY <1>1 DEF Blocked
<1> QED BY <1>1, <1>2, CascadingKept

LEMMA StartCascading ==
    ASSUME TypeOK, Stacked, Cascading, NEW t \in Tasks, NEW p \in Procs,
           \/ Report(p, t) \/ AdvanceLoop(p, t)
           \/ \E i \in DOMAIN prs[t] : \/ Stamp(p, t, i)
                                       \/ \E q \in Procs : Webhook(p, q, t, i)
    PROVE  Cascading'
<1>0. deps \in [Tasks -> SUBSET Tasks]
    BY Dependencies
<1>i. \A o \in Procs : At(o, "idle") => \A u, d \in Tasks : ~Failing(o, u, d)
    <2>1. \A o \in Procs : At(o, "idle") => DOMAIN work[o].stack = {}
        BY EmptySeq DEF Stacked, At
    <2> QED BY <2>1 DEF Failing, Queued, At
<1>1. CASE Report(p, t)
    <2>1. PICK e \in Ends(t) :
            /\ IF status[t] = "cancelled" THEN UNCHANGED <<status, loop>>
               ELSE /\ status' = [status EXCEPT ![t] = e.s]
                    /\ loop' = [loop EXCEPT ![t] = e.l]
            /\ IF e.s = "pending" THEN UNCHANGED work ELSE Resolving(p, t)
            /\ silent' = [silent EXCEPT ![t] = @ \/ (e.s = "pending" /\ status[t] # "assigned")]
        BY <1>1 DEF Report
    <2>2. At(p, "idle") /\ UNCHANGED deps
        BY <1>1 DEF Report
    <2>3. \A o \in Procs : work'[o] = work[o] \/ At(o, "idle")
        BY <2>1, <2>2, BeginWork DEF Resolving, Others
    <2>4. ASSUME NEW u \in Tasks, NEW d \in Tasks, Blocked(u, d)'
          PROVE  Blocked(u, d) \/ Failing(p, u, d)'
        <3>1. CASE d = t /\ e.s # "pending"
            <4>1. work'[p].pc = "resolve" /\ work'[p].t = d
                BY <2>1, <3>1, BeginWork DEF Resolving
            <4> QED BY <4>1 DEF Failing
        <3>2. CASE d = t /\ e.s = "pending"
            <4>1. status'[d] # "failed"
                BY <2>1, <3>2 DEF TypeOK
            <4> QED BY <2>4, <4>1 DEF Blocked
        <3>3. CASE d # t
            <4>1. /\ \A v \in Tasks \ {t} : status'[v] = status[v]
                  /\ \A v \in Tasks : silent[v] => silent'[v]
                BY <2>1 DEF TypeOK
            <4>2. CASE u # t
                BY <2>2, <2>4, <3>3, <4>1, <4>2 DEF Blocked
            <4>3. CASE u = t
                <5>1. e.s \in {"pending", "failed", "completed"}
                    BY DEF Ends
                <5>2. status[t] \in {"assigned", "pending"}
                    BY <2>1, <2>4, <4>3, <5>1 DEF Blocked, TypeOK
                <5> QED BY <2>2, <2>4, <3>3, <4>1, <4>3, <5>2 DEF Blocked
            <4> QED BY <4>2, <4>3
        <3> QED BY <3>1, <3>2, <3>3
    <2> QED BY <1>i, <2>3, <2>4, CascadingKept
<1>2. CASE AdvanceLoop(p, t)
    <2>1. \A u, d \in Tasks : Blocked(u, d)' => Blocked(u, d)
        BY <1>2 DEF AdvanceLoop, Blocked, TypeOK
    <2>2. \A o \in Procs : work'[o] = work[o] \/ At(o, "idle")
        BY <1>2, BeginWork DEF AdvanceLoop, Resolving, Others
    <2> QED BY <1>i, <2>1, <2>2, CascadingKept
<1>3. ASSUME NEW i \in DOMAIN prs[t], Stamp(p, t, i) \/ \E q \in Procs : Webhook(p, q, t, i)
      PROVE  Cascading'
    <2>1. UNCHANGED <<deps, status, silent>>
        BY <1>3 DEF Stamp, Webhook
    <2>2. \A u, d \in Tasks : Blocked(u, d)' => Blocked(u, d)
        BY <2>1 DEF Blocked
    <2>3. \A o \in Procs : work'[o] = work[o] \/ At(o, "idle")
        <3>1. CASE Stamp(p, t, i)
            BY <3>1, BeginWork DEF Stamp, Others
        <3>2. ASSUME NEW q \in Procs, Webhook(p, q, t, i)
              PROVE  \A o \in Procs : work'[o] = work[o] \/ At(o, "idle")
            <4>1. At(p, "idle") /\ At(q, "idle")
                BY <3>2 DEF Webhook
            <4> QED BY <3>2, <4>1, WebhookWork
        <3> QED BY <1>3, <3>1, <3>2
    <2> QED BY <1>i, <2>2, <2>3, CascadingKept
<1> QED BY <1>1, <1>2, <1>3

LEMMA StepCascading ==
    ASSUME TypeOK, Stacked, Cascading, NEW p \in Procs, Step(p)
    PROVE  Cascading'
<1>0. work[p].t \in Tasks
    BY DEF TypeOK, Resolution
<1>u. ASSUME Others(p),
             \A u, d \in Tasks : Blocked(u, d)' =>
                 \/ Failing(p, u, d)'
                 \/ Blocked(u, d) /\ (Failing(p, u, d) => Failing(p, u, d)')
      PROVE  Cascading'
    BY <1>u, FailingStays DEF Cascading, Others
<1>v. ASSUME UNCHANGED <<deps, status>>, \A u \in Tasks : silent[u] => silent'[u]
      PROVE  \A u, d \in Tasks : Blocked(u, d)' => Blocked(u, d)
    BY <1>v DEF Blocked
<1>w. ASSUME UNCHANGED <<deps, status>>, \A u \in Tasks : silent[u] => silent'[u],
             Others(p), work'[p].stack = work[p].stack,
             work[p].pc \notin {"resolve", "cascade"}
      PROVE  Cascading'
    BY <1>u, <1>v, <1>w DEF Failing, Queued
<1>1. CASE Resolve(p)
    <2>1. UNCHANGED <<deps, status, silent>>
        BY <1>1 DEF Resolve
    <2>2. ASSUME NEW u \in Tasks, NEW d \in Tasks, Blocked(u, d)', Failing(p, u, d)
          PROVE  Failing(p, u, d)'
        <3>1. CASE Queued(p, u)
            BY <1>1, <3>1, ResolveWork DEF Failing, Queued
        <3>2. CASE work[p].t = d
            <4>1. status[d] = "failed"
                BY <2>1, <2>2 DEF Blocked
            <4> QED BY <1>1, <3>2, <4>1, ResolveWork DEF Failing
        <3> QED BY <2>2, <3>1, <3>2 DEF Failing
    <2> QED BY <1>1, <1>u, <1>v, <2>1, <2>2, ResolveWork
<1>2. CASE Cascade(p)
    <2>1. UNCHANGED <<deps, status, silent>> /\ At(p, "cascade")
        BY <1>2 DEF Cascade
    <2>2. ASSUME NEW u \in Tasks, NEW d \in Tasks, Blocked(u, d)', Failing(p, u, d)
          PROVE  Failing(p, u, d)'
        <3>1. CASE Queued(p, u)
            BY <1>2, <3>1, CascadeWork DEF Failing
        <3>2. CASE work[p].t = d
            <4>1. u \in ToFail(d)
                BY <2>1, <2>2 DEF Blocked, ToFail, Terminal
            <4> QED BY <1>2, <3>2, <4>1, CascadeWork DEF Failing
        <3> QED BY <2>2, <3>1, <3>2 DEF Failing
    <2> QED BY <1>2, <1>u, <1>v, <2>1, <2>2, CascadeWork
<1>3. CASE Fail(p)
    <2>1. PICK x \in Tasks :
             /\ status' = [status EXCEPT ![x] = "failed"]
             /\ Others(p)
             /\ work'[p].pc = "resolve" /\ work'[p].t = x
             /\ \A t \in Tasks \ {x} : Queued(p, t) => Queued(p, t)'
        BY <1>3, FailWork
    <2>2. UNCHANGED <<deps, silent>> /\ At(p, "fail")
        BY <1>3 DEF Fail
    <2>3. ASSUME NEW u \in Tasks, NEW d \in Tasks, Blocked(u, d)'
          PROVE  \/ Failing(p, u, d)'
                 \/ Blocked(u, d) /\ (Failing(p, u, d) => Failing(p, u, d)')
        <3>1. CASE d = x
            BY <2>1, <3>1 DEF Failing
        <3>2. CASE d # x
            <4>1. u # x
                BY <2>1, <2>3 DEF Blocked, TypeOK
            <4>2. Blocked(u, d)
                BY <2>1, <2>2, <2>3, <3>2, <4>1 DEF Blocked, TypeOK
            <4>3. Failing(p, u, d) => Queued(p, u)
                BY <2>2 DEF Failing, At
            <4> QED BY <2>1, <4>1, <4>2, <4>3 DEF Failing
        <3> QED BY <3>1, <3>2
    <2> QED BY <1>u, <2>1, <2>3
<1>4. CASE LoopEnds(p)
    <2>1. UNCHANGED <<deps, status, silent>> /\ At(p, "fail")
        BY <1>4 DEF LoopEnds
    <2>2. ASSUME NEW u \in Tasks, NEW d \in Tasks, Failing(p, u, d)
          PROVE  Failing(p, u, d)'
        BY <1>4, <2>1, <2>2, LoopEndsWork DEF Failing, At
    <2> QED BY <1>4, <1>u, <1>v, <2>1, <2>2, LoopEndsWork
<1>5. CASE Dependents(p)
    <2>1. UNCHANGED <<deps, status, silent>> /\ work[p].pc = "dependents"
        BY <1>5 DEF Dependents, At
    <2>2. Others(p) /\ work'[p].stack = work[p].stack
        BY <1>5, DependentsWork
    <2> QED BY <1>w, <2>1, <2>2
<1>6. CASE States(p)
    <2>1. UNCHANGED <<deps, status, silent>> /\ work[p].pc = "states"
        BY <1>6 DEF States, At
    <2>2. Others(p) /\ work'[p].stack = work[p].stack
        BY <1>6, StatesWork
    <2> QED BY <1>w, <2>1, <2>2
<1>7. CASE Wake(p)
    <2>1. UNCHANGED <<deps, status>> /\ At(p, "prs")
        BY <1>7 DEF Wake
    <2>2. \A u \in Tasks : silent[u] => silent'[u]
        BY <1>7 DEF Wake
    <2> QED BY <1>7, <1>w, <2>1, <2>2, WakeWork DEF At
<1>8. CASE WebhookCompletes(p)
    <2>1. \A u, d \in Tasks : ~Failing(p, u, d)
        <3>1. At(p, "complete") /\ DOMAIN work[p].stack = {}
            BY <1>8, EmptySeq DEF WebhookCompletes, Stacked, At
        <3> QED BY <3>1 DEF Failing, Queued, At
    <2>2. \A u, d \in Tasks : Blocked(u, d)' => Blocked(u, d)
        BY <1>0, <1>8 DEF WebhookCompletes, Silence, Blocked, TypeOK
    <2>3. Others(p)
        BY <1>8, IdleIsTyped, BecomeIsTyped DEF WebhookCompletes, TypeOK, Others
    <2> QED BY <1>u, <2>1, <2>2, <2>3
<1> QED BY <1>1, <1>2, <1>3, <1>4, <1>5, <1>6, <1>7, <1>8 DEF Step

----------------------------------------------------------------------------
(* The theorems.                                                              *)

LEMMA InitIInv == Init => IInv
<1> SUFFICES ASSUME Init PROVE IInv
    OBVIOUS
<1>1. TypeOK
    BY InitTyped
<1>2. \A p \in Procs : work[p] = Idle
    BY DEF Init
<1>3. Stacked
    BY <1>2, IdleIsTyped DEF Stacked, At
<1>4. Rows
    BY EmptySeq DEF Init, Rows
<1>5. Awake /\ Cascading
    BY DEF Init, Awake, Untold, Cascading, Blocked
<1> QED BY <1>1, <1>3, <1>4, <1>5 DEF IInv

LEMMA NextIInv == IInv /\ [Next]_vars => IInv'
<1> SUFFICES ASSUME IInv, [Next]_vars PROVE IInv'
    OBVIOUS
<1> USE DEF IInv
<1>1. ASSUME NEW t \in Tasks,
             \/ Create(t) \/ Claim(t) \/ CiExhausted(t) \/ Reassign(t)
             \/ \E s \in {"pending", "completed", "failed", "cancelled"} : EditStatus(t, s)
      PROVE  IInv'
    <2>1. Stacked'
        BY <1>1 DEF Stacked, At, Create, Claim, CiExhausted, Reassign, EditStatus
    <2> QED BY <1>1, <2>1, RequestTyped, RequestRows, RequestAwake, RequestCascading
<1>2. ASSUME NEW t \in Tasks,
             \/ OpenPr(t)
             \/ \E i \in DOMAIN prs[t] : MergeOnGitHub(t, i) \/ Close(t, i) \/ Reconcile(t, i)
      PROVE  IInv'
    <2>1. Stacked'
        BY <1>2 DEF Stacked, At, OpenPr, MergeOnGitHub, Close, Reconcile
    <2> QED BY <1>2, <2>1, PullRequestTyped, PullRequestRows, PullRequestAwake,
               PullRequestCascading
<1>3. ASSUME NEW p \in Procs, NEW t \in Tasks,
             \/ Report(p, t) \/ AdvanceLoop(p, t)
             \/ \E i \in DOMAIN prs[t] : \/ Stamp(p, t, i)
                                         \/ \E q \in Procs : Webhook(p, q, t, i)
      PROVE  IInv'
    BY <1>3, StartTyped, StartStacked, StartRows, StartAwake, StartCascading
<1>4. ASSUME NEW p \in Procs, Step(p)
      PROVE  IInv'
    BY <1>4, StepTyped, StepStacked, StepRows, StepAwake, StepCascading
<1>5. CASE UNCHANGED vars
    BY <1>5 DEF vars, TypeOK, Stacked, At, Rows, Awake, Untold, Excused, GateOpen, Delivered,
                Waking, Cascading, Blocked, Failing, Queued
<1>6. ASSUME Human PROVE IInv'
    <2>1. Edited \subseteq Tasks
        BY DepsAssumption
    <2> QED BY <1>1, <1>6, <2>1 DEF Human
<1> QED BY <1>1, <1>2, <1>3, <1>4, <1>5, <1>6 DEF Next

LEMMA Invariant == Spec => []IInv
BY InitIInv, NextIInv, PTL DEF Spec

(* Every variable of the resolutions, task rows and pull requests keeps its   *)
(* type (task-dependencies.ts).                                               *)
THEOREM TypeCorrect == Spec => []TypeOK
<1>1. IInv => TypeOK
    BY DEF IInv
<1> QED BY <1>1, Invariant, PTL

(* No wake-up is lost (task-dependencies.ts:431, checkDependsOnResolved()):   *)
(* a task that the claim gate lets through and that nobody was told of has a  *)
(* resolution in progress that has not looked yet, or that has read           *)
(* everything it waits for as delivered.                                      *)
THEOREM WakeUps == Spec => []NoLostWakeUp
<1>1. IInv => NoLostWakeUp
    <2> SUFFICES ASSUME IInv, Quiet, NEW t \in Tasks,
                        status[t] = "pending", GateOpen(t), ~told[t], ~Excused(t)
                 PROVE  FALSE
        BY DEF NoLostWakeUp, Excused
    <2>1. PICK p \in Procs : Waking(p, t)
        BY DEF IInv, Awake, Untold
    <2> QED BY <2>1 DEF Quiet, At, Waking
<1> QED BY <1>1, Invariant, PTL

(* No task is left waiting for a failed one (task-dependencies.ts:517,        *)
(* cascadeDependencyFailure()): it is on the list of a loop that is still to  *)
(* be continued, or its dependency is still to be resolved.                   *)
THEOREM FailuresCascade == Spec => []NoStranded
<1>1. IInv => NoStranded
    <2> SUFFICES ASSUME IInv, Quiet, NEW t \in Tasks, NEW d \in deps[t],
                        status[t] \in {"pending", "assigned"}, status[d] = "failed",
                        ~silent[t], ~silent[d]
                 PROVE  FALSE
        BY DEF NoStranded
    <2>0. d \in Tasks
        BY Dependencies DEF IInv
    <2>1. PICK p \in Procs : Failing(p, t, d)
        BY <2>0 DEF IInv, Cascading, Blocked
    <2>2. DOMAIN work[p].stack = {}
        BY EmptySeq DEF Quiet, At, IInv, Stacked
    <2> QED BY <2>1, <2>2 DEF Quiet, At, Failing, Queued
<1> QED BY <1>1, Invariant, PTL
=============================================================================
