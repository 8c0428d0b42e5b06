-------------------------- MODULE MissionLoopProofs ---------------------------
(* Type correctness of MissionLoop, RetriesBounded and NoOrphanWork, for      *)
(* missions of any shape, any number of jobs and of requests.                 *)
EXTENDS MissionLoop, FiniteSetTheorems, SequenceTheorems, TLAPS

JobSet == [pc : Pcs, t : Nat, n : Nat, auto : BOOLEAN]
Schedules == [exists : BOOLEAN, enabled : BOOLEAN, failures : Nat, heartbeat : BOOLEAN]

Fields ==
    /\ requests \in Clients /\ status \in Statuses /\ fresh \in BOOLEAN
    /\ lastEval \in 0..Len(tasks)
    /\ sched \in Schedules
    /\ room \in Nat
    /\ counted \in BOOLEAN /\ raced \in BOOLEAN

Filed == tasks \in Seq(Task) /\ Lineage(tasks)

(* What a job reads of a task or a chain is there.                            *)
Aims(j) ==
    /\ j \in JobSet
    /\ j.pc \in {"resolve", "aggregate", "approve", "plan", "loop", "decide", "fail",
                 "count", "verdict", "mark"} => j.t \in DOMAIN tasks
    /\ j.pc \in {"run", "insert"} => j.n <= Len(tasks)
    /\ j.pc = "plan" => j.n > 0
    /\ j.auto => j.pc \in {"run", "insert"}

Aimed ==
    /\ jobs \in Seq(JobSet)
    /\ \A i \in DOMAIN jobs : Aims(jobs[i])

(* A failed planning task is a ticket for one retry.  The job that resolves   *)
(* it holds the ticket, and the job that looks at the failures, and the one   *)
(* that plans again.                                                          *)
Failed(t) == tasks[t].kind \in Planning /\ tasks[t].status = "failed"

Holding(j) ==
    \/ j.pc \in {"resolve", "aggregate"} /\ Failed(j.t)
    \/ j.pc \in {"fail", "count"}
    \/ j.auto

Held == {jobs[i].t : i \in {k \in DOMAIN jobs : Holding(jobs[k])}}
Granted == {jobs[i].t : i \in {k \in DOMAIN jobs : jobs[k].auto}}

(* A planning task ends once, and nothing is resolved before it ends.         *)
Resolved ==
    \A i \in DOMAIN jobs :
        jobs[i].pc \in {"resolve", "aggregate"} /\ tasks[jobs[i].t].kind \in Planning
            => ~Open(tasks[jobs[i].t])

OneHolder ==
    \A i, k \in DOMAIN jobs :
        i # k /\ Holding(jobs[i]) /\ Holding(jobs[k]) => jobs[i].t # jobs[k].t

Tickets ==
    /\ Resolved /\ OneHolder
    /\ Held \subseteq Failures
    /\ Cardinality(Retries) + Cardinality(Held) <= Cardinality(Failures)
    /\ Cardinality(Retries) + Cardinality(Granted) < MaxRetries

(* A job that is about to complete the mission because its work had ended     *)
(* still finds it so, or work was added meanwhile.                            *)
Settled ==
    \A i \in DOMAIN jobs : At(i, "finish") /\ jobs[i].n = 1 => OpenWork = {} \/ raced

IInv == Fields /\ Filed /\ Aimed /\ Tickets /\ Settled /\ NoOrphanWork
----------------------------------------------------------------------------
(* The list of the jobs.  Moves(s, gone, new): in the list s the jobs of gone *)
(* are replaced by those of new, at most one of which may hold a ticket.      *)
Members(js) == {js[k] : k \in DOMAIN js}

Ticketed(j) == j.pc \in {"resolve", "aggregate", "fail", "count"} \/ j.auto

Single(js) ==
    \A k, m \in DOMAIN js : Ticketed(js[k]) /\ Ticketed(js[m]) => k = m

(* Only the slot that a run of the cron is about to take can be moved.        *)
Same(j, h) ==
    /\ j.pc = h.pc /\ j.t = h.t /\ j.auto = h.auto
    /\ j.n = h.n \/ h.pc \in {"due", "take"}

Descends(s, gone, new, old) ==
    /\ \A k \in DOMAIN s :
          IF old[k] = 0 THEN \E j \in new : Same(s[k], j)
          ELSE old[k] \in DOMAIN jobs \ gone /\ Same(s[k], jobs[old[k]])
    /\ \A k, m \in DOMAIN s :
          k # m /\ Ticketed(s[k]) /\ Ticketed(s[m]) => old[k] # old[m]

Moves(s, gone, new) ==
    /\ s \in Seq(JobSet)
    /\ \E old \in [DOMAIN s -> 0..Len(jobs)] : Descends(s, gone, new, old)
    /\ \A h \in DOMAIN jobs \ gone : \E k \in DOMAIN s : Same(s[k], jobs[h])

LEMMA JobTyped ==
    ASSUME NEW pc \in Pcs, NEW t \in Nat
    PROVE  /\ Job(pc, t) \in JobSet
           /\ Job(pc, t).pc = pc /\ Job(pc, t).t = t
           /\ Job(pc, t).n = 0 /\ Job(pc, t).auto = FALSE
BY DEF Job, JobSet

LEMMA StartMoves ==
    ASSUME jobs \in Seq(JobSet), NEW j \in JobSet
    PROVE  Moves(jobs \o <<j>>, {}, {j})
<1> DEFINE s == jobs \o <<j>>
           old == [k \in DOMAIN s |-> IF k <= Len(jobs) THEN k ELSE 0]
<1>1. <<j>> \in Seq(JobSet) /\ Len(<<j>>) = 1 /\ <<j>>[1] = j
    OBVIOUS
<1>2. /\ s \in Seq(JobSet) /\ Len(s) = Len(jobs) + 1 /\ Len(jobs) \in Nat
      /\ \A k \in 1..Len(s) : s[k] = IF k <= Len(jobs) THEN jobs[k] ELSE <<j>>[k - Len(jobs)]
    BY <1>1, ConcatProperties, LenProperties
<1>3. DOMAIN s = 1..(Len(jobs) + 1) /\ DOMAIN jobs = 1..Len(jobs)
    BY <1>2
<1>4. \A k \in 1..Len(jobs) : s[k] = jobs[k]
    BY <1>2
<1>5. s[Len(jobs) + 1] = j
    BY <1>1, <1>2
<1> HIDE DEF s
<1>6. old \in [DOMAIN s -> 0..Len(jobs)]
    BY <1>2, <1>3
<1>7. \A k \in DOMAIN s : /\ k \in 1..Len(jobs) => old[k] = k /\ k # 0
                          /\ k \notin 1..Len(jobs) => k = Len(jobs) + 1 /\ old[k] = 0
    BY <1>2, <1>3
<1> HIDE DEF old
<1>8. Descends(s, {}, {j}, old)
    BY <1>3, <1>4, <1>5, <1>7 DEF Descends, Same
<1>9. \A h \in DOMAIN jobs : h \in DOMAIN s /\ s[h] = jobs[h]
    BY <1>2, <1>3, <1>4
<1> QED BY <1>2, <1>6, <1>8, <1>9 DEF Moves, Same, s

LEMMA BecomeMoves ==
    ASSUME jobs \in Seq(JobSet), NEW i \in DOMAIN jobs, NEW j \in JobSet
    PROVE  Moves([jobs EXCEPT ![i] = j], {i}, {j})
<1> DEFINE s == [jobs EXCEPT ![i] = j]
           old == [k \in DOMAIN s |-> IF k = i THEN 0 ELSE k]
<1>1. /\ s \in Seq(JobSet) /\ DOMAIN s = DOMAIN jobs
      /\ s[i] = j /\ \A k \in DOMAIN jobs \ {i} : s[k] = jobs[k]
    BY ExceptSeq
<1>2. DOMAIN jobs = 1..Len(jobs) /\ Len(jobs) \in Nat
    BY LenProperties
<1> HIDE DEF s
<1>3. old \in [DOMAIN s -> 0..Len(jobs)]
    BY <1>1, <1>2
<1>4. \A k \in DOMAIN s : /\ k # 0
                          /\ old[k] = IF k = i THEN 0 ELSE k
    BY <1>1, <1>2
<1> HIDE DEF old
<1>5. Descends(s, {i}, {j}, old)
    BY <1>1, <1>4 DEF Descends, Same
<1> QED BY <1>1, <1>3, <1>5 DEF Moves, Same, s

LEMMA WithoutIs ==
    ASSUME jobs \in Seq(JobSet), NEW i \in DOMAIN jobs
    PROVE  /\ Without(i) \in Seq(JobSet) /\ Len(Without(i)) = Len(jobs) - 1
           /\ \A k \in 1..(Len(jobs) - 1) : Without(i)[k] = jobs[IF k < i THEN k ELSE k + 1]
<1> DEFINE a == SubSeq(jobs, 1, i - 1)
           b == SubSeq(jobs, i + 1, Len(jobs))
<1>1. Len(jobs) \in Nat /\ i \in 1..Len(jobs)
    BY LenProperties
<1>2. /\ a \in Seq(JobSet) /\ Len(a) = i - 1
      /\ \A k \in 1..(i - 1) : a[k] = jobs[k]
    BY <1>1, SubSeqProperties
<1>3. /\ b \in Seq(JobSet) /\ Len(b) = Len(jobs) - i
      /\ \A k \in 1..(Len(jobs) - i) : b[k] = jobs[i + k]
    BY <1>1, SubSeqProperties
<1> HIDE DEF a, b
<1>4. /\ a \o b \in Seq(JobSet) /\ Len(a \o b) = Len(jobs) - 1
      /\ \A k \in 1..(Len(jobs) - 1) :
            (a \o b)[k] = IF k <= i - 1 THEN a[k] ELSE b[k - (i - 1)]
    BY <1>1, <1>2, <1>3, ConcatProperties
<1>5. ASSUME NEW k \in 1..(Len(jobs) - 1)
      PROVE  (a \o b)[k] = jobs[IF k < i THEN k ELSE k + 1]
    <2>1. CASE k < i
        BY <1>1, <1>2, <1>4, <2>1
    <2>2. CASE ~(k < i)
        <3>1. /\ k - (i - 1) \in 1..(Len(jobs) - i) /\ i + (k - (i - 1)) = k + 1
              /\ ~(k <= i - 1)
            BY <1>1, <2>2
        <3> QED BY <1>3, <1>4, <2>2, <3>1
    <2> QED BY <2>1, <2>2
<1> QED BY <1>4, <1>5 DEF Without, a, b

LEMMA EndWithMoves ==
    ASSUME jobs \in Seq(JobSet), NEW i \in DOMAIN jobs, NEW js \in Seq(JobSet), Single(js)
    PROVE  Moves(Without(i) \o js, {i}, Members(js))
<1> DEFINE n == Len(jobs) - 1
           s == Without(i) \o js
           old == [k \in DOMAIN s |-> IF k <= n THEN (IF k < i THEN k ELSE k + 1) ELSE 0]
<1>1. /\ Len(jobs) \in Nat /\ i \in 1..Len(jobs) /\ DOMAIN jobs = 1..Len(jobs)
      /\ Len(js) \in Nat /\ DOMAIN js = 1..Len(js) /\ n \in Nat /\ n = Len(jobs) - 1
    BY LenProperties
<1>2. /\ Without(i) \in Seq(JobSet) /\ Len(Without(i)) = n
      /\ \A k \in 1..n : Without(i)[k] = jobs[IF k < i THEN k ELSE k + 1]
    BY WithoutIs
<1> HIDE DEF n
<1>3. /\ s \in Seq(JobSet) /\ Len(s) = n + Len(js)
      /\ \A k \in 1..Len(s) : s[k] = IF k <= n THEN Without(i)[k] ELSE js[k - n]
    BY <1>2, ConcatProperties
<1>4. DOMAIN s = 1..(n + Len(js))
    BY <1>3
<1>5. ASSUME NEW k \in DOMAIN s, k <= n
      PROVE  s[k] = jobs[IF k < i THEN k ELSE k + 1]
    <2>1. k \in 1..n /\ k \in 1..Len(s)
        BY <1>1, <1>3, <1>4, <1>5
    <2>2. s[k] = Without(i)[k]
        BY <1>3, <1>5, <2>1
    <2> QED BY <1>2, <2>1, <2>2
<1>6. \A k \in DOMAIN s : k > n => k - n \in DOMAIN js /\ s[k] = js[k - n]
    BY <1>1, <1>2, <1>3, <1>4
<1> HIDE DEF s
<1>7. old \in [DOMAIN s -> 0..Len(jobs)]
    BY <1>1, <1>4
<1>8. \A k \in DOMAIN s :
          /\ k <= n => /\ old[k] = IF k < i THEN k ELSE k + 1
                       /\ old[k] \in DOMAIN jobs \ {i} /\ old[k] # 0
          /\ k > n => old[k] = 0
    BY <1>1, <1>4
<1> HIDE DEF old
<1>9. Descends(s, {i}, Members(js), old)
    <2>1. ASSUME NEW k \in DOMAIN s
          PROVE  IF old[k] = 0 THEN \E j \in Members(js) : Same(s[k], j)
                 ELSE old[k] \in DOMAIN jobs \ {i} /\ Same(s[k], jobs[old[k]])
        <3>1. CASE k <= n
            BY <1>5, <1>8, <3>1 DEF Same
        <3>2. CASE k > n
            BY <1>6, <1>8, <3>2 DEF Same, Members
        <3> QED BY <1>1, <1>4, <3>1, <3>2
    <2>2. ASSUME NEW k \in DOMAIN s, NEW m \in DOMAIN s,
                 k # m, Ticketed(s[k]), Ticketed(s[m]), old[k] = old[m]
          PROVE  FALSE
        <3>1. k > n <=> m > n
            BY <1>1, <1>4, <1>8, <2>2
        <3>2. CASE k > n
            <4>1. k - n = m - n
                BY <1>6, <2>2, <3>1, <3>2 DEF Single
            <4> QED BY <1>1, <1>4, <2>2, <4>1
        <3>3. CASE k <= n
            BY <1>1, <1>4, <1>8, <2>2, <3>1, <3>3
        <3> QED BY <1>1, <1>4, <3>2, <3>3
    <2> QED BY <2>1, <2>2 DEF Descends
<1>10. ASSUME NEW h \in DOMAIN jobs \ {i}
       PROVE  \E k \in DOMAIN s : s[k] = jobs[h]
    <2>1. CASE h < i
        BY <1>1, <1>4, <1>5, <2>1
    <2>2. CASE h > i
        <3>1. h - 1 \in DOMAIN s /\ h - 1 <= n /\ ~(h - 1 < i) /\ (h - 1) + 1 = h
            BY <1>1, <1>4, <2>2
        <3> QED BY <1>5, <3>1
    <2> QED BY <1>1, <2>1, <2>2
<1> QED BY <1>3, <1>7, <1>9, <1>10 DEF Moves, Same, s

LEMMA EndMoves ==
    ASSUME jobs \in Seq(JobSet), NEW i \in DOMAIN jobs
    PROVE  Moves(Without(i), {i}, {})
<1>1. <<>> \in Seq(JobSet) /\ Single(<<>>) /\ Members(<<>>) = {}
    BY DEF Single, Members
<1>2. Without(i) \in Seq(JobSet)
    BY WithoutIs
<1>3. Without(i) \o <<>> = Without(i)
    BY <1>2, ConcatEmptySeq
<1> QED BY <1>1, <1>3, EndWithMoves

LEMMA SlotMoves ==
    ASSUME NEW s, NEW gone, NEW new, Moves(s, gone, new)
    PROVE  Moves(MoveSlot(s), gone, new)
<1> DEFINE m == MoveSlot(s)
<1>1. s \in Seq(JobSet) /\ DOMAIN s = 1..Len(s) /\ Len(s) \in Nat
    BY LenProperties DEF Moves
<1>2. \A k \in DOMAIN s : s[k] \in JobSet
    BY <1>1, ElementOfSeq
<1>3. /\ DOMAIN m = DOMAIN s
      /\ \A k \in DOMAIN s : 
            m[k] = IF s[k].pc \in {"due", "take"} THEN [s[k] EXCEPT !.n = 1] ELSE s[k]
    BY DEF MoveSlot
<1> HIDE DEF m
<1>4. ASSUME NEW k \in DOMAIN s
      PROVE  /\ m[k] \in JobSet
             /\ m[k].pc = s[k].pc /\ m[k].t = s[k].t /\ m[k].auto = s[k].auto
             /\ m[k].n = s[k].n \/ s[k].pc \in {"due", "take"}
    BY <1>2, <1>3 DEF JobSet
<1>5. m \in Seq(JobSet)
    <2>1. m = [k \in 1..Len(s) |-> m[k]]
        BY <1>1, <1>3 DEF m, MoveSlot
    <2>2. \A k \in 1..Len(s) : m[k] \in JobSet
        BY <1>1, <1>4
    <2> QED BY <1>1, <2>1, <2>2, IsASeq
<1>6. PICK old \in [DOMAIN s -> 0..Len(jobs)] : Descends(s, gone, new, old)
    BY DEF Moves
<1>7. Descends(m, gone, new, old)
    BY <1>3, <1>4, <1>6 DEF Descends, Same, Ticketed
<1>8. \A h \in DOMAIN jobs \ gone : \E k \in DOMAIN m : Same(m[k], jobs[h])
    BY <1>3, <1>4 DEF Moves, Same
<1> QED BY <1>3, <1>5, <1>6, <1>7, <1>8 DEF Moves, m

----------------------------------------------------------------------------
(* Tasks only gain, and a planning task ends once.                            *)
Grown ==
    /\ DOMAIN tasks \subseteq DOMAIN tasks'
    /\ \A t \in DOMAIN tasks :
          /\ tasks'[t].kind = tasks[t].kind /\ tasks'[t].auto = tasks[t].auto
          /\ tasks[t].kind \in Planning /\ ~Open(tasks[t])
                => tasks'[t].status = tasks[t].status
    /\ \A t \in DOMAIN tasks' \ DOMAIN tasks : Open(tasks'[t])

Manual == \A t \in DOMAIN tasks' \ DOMAIN tasks : ~tasks'[t].auto

(* A new job holds no ticket but that of the job it replaces.                 *)
Inherits(j, gone) ==
    Holding(j)' => \E h \in gone : Holding(jobs[h]) /\ jobs[h].t = j.t

Takes(j, gone) == j.auto => \E h \in gone : jobs[h].auto /\ jobs[h].t = j.t

Resolves(j) ==
    j.pc \in {"resolve", "aggregate"} /\ tasks[j.t].kind \in Planning
        => ~Open(tasks[j.t])

LEMMA TaskIds ==
    ASSUME Filed
    PROVE  /\ Len(tasks) \in Nat /\ DOMAIN tasks = 1..Len(tasks)
           /\ \A t \in DOMAIN tasks : tasks[t] \in Task
BY LenProperties, ElementOfSeq DEF Filed

LEMMA AimedKept ==
    ASSUME Filed, Filed', Aimed, DOMAIN tasks \subseteq DOMAIN tasks',
           NEW gone, NEW new, Moves(jobs', gone, new),
           \A j \in new : Aims(j)'
    PROVE  Aimed'
<1>1. /\ Len(tasks) \in Nat /\ DOMAIN tasks = 1..Len(tasks)
      /\ Len(tasks') \in Nat /\ DOMAIN tasks' = 1..Len(tasks')
    BY LenProperties DEF Filed
<1>2. Len(tasks) <= Len(tasks')
    BY <1>1
<1>3. jobs' \in Seq(JobSet)
    BY DEF Moves
<1>4. PICK old \in [DOMAIN jobs' -> 0..Len(jobs)] : Descends(jobs', gone, new, old)
    BY DEF Moves
<1>5. ASSUME NEW k \in DOMAIN jobs'
      PROVE  Aims(jobs[k])'
    <2>1. jobs'[k] \in JobSet
        BY <1>3, ElementOfSeq, LenProperties
    <2>2. CASE old[k] = 0
        <3>1. PICK j \in new : Same(jobs'[k], j)
            BY <1>4, <2>2 DEF Descends
        <3>2. Aims(j)'
            OBVIOUS
        <3> QED BY <2>1, <3>1, <3>2 DEF Aims, Same
    <2>3. CASE old[k] # 0
        <3>1. old[k] \in DOMAIN jobs /\ Same(jobs'[k], jobs[old[k]])
            BY <1>4, <2>3 DEF Descends
        <3>2. Aims(jobs[old[k]])
            BY <3>1 DEF Aimed
        <3>3. jobs[old[k]].n \in Nat
            BY <3>2 DEF Aims, JobSet
        <3> QED BY <1>1, <1>2, <2>1, <3>1, <3>2, <3>3 DEF Aims, Same
    <2> QED BY <2>2, <2>3
<1> QED BY <1>3, <1>5 DEF Aimed

(* Every holder descends from a holder of the same ticket, and no two from    *)
(* the same.                                                                  *)
LEMMA HoldersDescend ==
    ASSUME Filed, Aimed, Resolved, OneHolder, Grown,
           NEW gone \in SUBSET DOMAIN jobs, \A g, h \in gone : g = h,
           NEW new, Moves(jobs', gone, new),
           \A j \in new : Inherits(j, gone)
    PROVE  /\ OneHolder'
           /\ \A k \in DOMAIN jobs' : Holding(jobs[k])' =>
                 \E h \in DOMAIN jobs :
                    /\ Holding(jobs[h]) /\ jobs[h].t = jobs'[k].t
                    /\ \/ h \notin gone /\ (jobs'[k].auto => jobs[h].auto)
                       \/ \E j \in new : Same(jobs'[k], j)
<1>1. PICK old \in [DOMAIN jobs' -> 0..Len(jobs)] : Descends(jobs', gone, new, old)
    BY DEF Moves
<1>2. ASSUME NEW k \in DOMAIN jobs', Holding(jobs[k])', old[k] = 0
      PROVE  \E h \in gone : /\ Holding(jobs[h]) /\ jobs[h].t = jobs'[k].t
                             /\ \E j \in new : Same(jobs'[k], j)
    <2>1. PICK j \in new : Same(jobs'[k], j)
        BY <1>1, <1>2 DEF Descends
    <2>2. Holding(j)'
        BY <1>2, <2>1 DEF Holding, Same, Failed
    <2> QED BY <2>1, <2>2 DEF Inherits, Same
<1>3. ASSUME NEW k \in DOMAIN jobs', Holding(jobs[k])', old[k] # 0
      PROVE  /\ old[k] \in DOMAIN jobs \ gone
             /\ Holding(jobs[old[k]]) /\ jobs[old[k]].t = jobs'[k].t
             /\ jobs'[k].auto => jobs[old[k]].auto
    <2>1. old[k] \in DOMAIN jobs \ gone /\ Same(jobs'[k], jobs[old[k]])
        BY <1>1, <1>3 DEF Descends
    <2>2. Aims(jobs[old[k]])
        BY <2>1 DEF Aimed
    <2>3. CASE jobs'[k].pc \in {"resolve", "aggregate"} /\ Failed(jobs[k].t)'
        <3> DEFINE t == jobs[old[k]].t
        <3>1. t \in DOMAIN tasks /\ t = jobs'[k].t /\ jobs[old[k]].pc \in {"resolve", "aggregate"}
            BY <2>1, <2>2, <2>3 DEF Aims, Same
        <3>2. tasks[t].kind \in Planning
            BY <2>3, <3>1 DEF Grown, Failed
        <3>3. ~Open(tasks[t])
            BY <2>1, <3>1, <3>2 DEF Resolved
        <3>4. Failed(t)
            BY <2>3, <3>1, <3>2, <3>3 DEF Grown, Failed
        <3> QED BY <2>1, <3>1, <3>4 DEF Holding, Same
    <2>4. CASE jobs'[k].pc \in {"fail", "count"} \/ jobs'[k].auto
        BY <2>1, <2>4 DEF Holding, Same
    <2> QED BY <1>3, <2>1, <2>3, <2>4 DEF Holding
<1>4. \A k \in DOMAIN jobs' : Holding(jobs[k])' => Ticketed(jobs'[k])
    BY DEF Holding, Ticketed
<1>5. OneHolder'
    <2> SUFFICES ASSUME NEW k \in DOMAIN jobs', NEW m \in DOMAIN jobs', k # m,
                        Holding(jobs[k])', Holding(jobs[m])'
                 PROVE  jobs'[k].t # jobs'[m].t
        BY DEF OneHolder
    <2>1. old[k] # old[m]
        BY <1>1, <1>4 DEF Descends
    <2>2. CASE old[k] # 0 /\ old[m] # 0
        BY <1>3, <2>1, <2>2 DEF OneHolder
    <2>3. CASE old[k] = 0
        BY <1>2, <1>3, <2>1, <2>3 DEF OneHolder
    <2>4. CASE old[m] = 0
        BY <1>2, <1>3, <2>1, <2>4 DEF OneHolder
    <2> QED BY <2>2, <2>3, <2>4
<1> QED BY <1>2, <1>3, <1>5

LEMMA ResolvedKept ==
    ASSUME Filed, Aimed, Resolved, Grown,
           NEW gone, NEW new, Moves(jobs', gone, new),
           \A j \in new : Resolves(j)'
    PROVE  Resolved'
<1>1. PICK old \in [DOMAIN jobs' -> 0..Len(jobs)] : Descends(jobs', gone, new, old)
    BY DEF Moves
<1> SUFFICES ASSUME NEW k \in DOMAIN jobs'
             PROVE  Resolves(jobs[k])'
    BY DEF Resolved, Resolves
<1>2. CASE old[k] = 0
    <2>1. PICK j \in new : Same(jobs'[k], j)
        BY <1>1, <1>2 DEF Descends
    <2>2. Resolves(j)'
        OBVIOUS
    <2> QED BY <2>1, <2>2 DEF Resolves, Same
<1>3. CASE old[k] # 0
    <2> DEFINE h == old[k]
    <2>1. h \in DOMAIN jobs /\ Same(jobs'[k], jobs[h])
        BY <1>1, <1>3 DEF Descends
    <2>2. Aims(jobs[h]) /\ Resolves(jobs[h])
        BY <2>1 DEF Aimed, Resolved, Resolves
    <2> HIDE DEF h
    <2>3. CASE jobs'[k].pc \notin {"resolve", "aggregate"}
        BY <2>3 DEF Resolves
    <2>4. CASE jobs'[k].pc \in {"resolve", "aggregate"}
        <3>1. jobs[h].t \in DOMAIN tasks /\ jobs'[k].t = jobs[h].t
            BY <2>1, <2>2, <2>4 DEF Aims, Same
        <3> QED BY <2>1, <2>2, <2>4, <3>1 DEF Resolves, Grown, Open, Same
    <2> QED BY <2>3, <2>4
<1> QED BY <1>2, <1>3

LEMMA FailuresFinite ==
    ASSUME Filed, Held \subseteq Failures
    PROVE  /\ IsFiniteSet(Failures) /\ Cardinality(Failures) \in Nat
           /\ IsFiniteSet(Held) /\ Cardinality(Held) \in Nat
           /\ IsFiniteSet(Granted) /\ Cardinality(Granted) \in Nat
           /\ IsFiniteSet(Retries) /\ Cardinality(Retries) \in Nat
           /\ Granted \subseteq Held
<1>1. IsFiniteSet(DOMAIN tasks)
    BY TaskIds, FS_Interval
<1>2. Failures \subseteq DOMAIN tasks /\ Retries \subseteq DOMAIN tasks
    BY DEF Failures, Retries, Rows
<1>3. Granted \subseteq Held
    BY DEF Granted, Held, Holding
<1> QED BY <1>1, <1>2, <1>3, FS_Subset, FS_CardinalityType

LEMMA FailuresStay ==
    ASSUME Grown
    PROVE  Failures \subseteq Failures'
BY DEF Grown, Failures, Rows, Open

LEMMA RetriesStay ==
    ASSUME Grown, Manual
    PROVE  Retries' = Retries
BY DEF Grown, Manual, Retries, Rows

LEMMA TicketsKept ==
    ASSUME Filed, Filed', Aimed, Tickets, Grown, Manual,
           NEW gone \in SUBSET DOMAIN jobs, \A g, h \in gone : g = h,
           NEW new, Moves(jobs', gone, new),
           \A j \in new : Inherits(j, gone) /\ Takes(j, gone) /\ Resolves(j)'
    PROVE  Tickets'
<1>1. Resolved /\ OneHolder
    BY DEF Tickets
<1>2. Resolved'
    BY <1>1, ResolvedKept
<1>3. /\ OneHolder'
      /\ \A k \in DOMAIN jobs' : Holding(jobs[k])' =>
            \E h \in DOMAIN jobs :
               /\ Holding(jobs[h]) /\ jobs[h].t = jobs'[k].t
               /\ \/ h \notin gone /\ (jobs'[k].auto => jobs[h].auto)
                  \/ \E j \in new : Same(jobs'[k], j)
    BY <1>1, HoldersDescend
<1>4. Held' \subseteq Held
    BY <1>3 DEF Held
<1>5. Granted' \subseteq Granted
    <2> SUFFICES ASSUME NEW k \in DOMAIN jobs', jobs'[k].auto
                 PROVE  jobs'[k].t \in Granted
        BY DEF Granted
    <2>1. Holding(jobs[k])'
        BY DEF Holding
    <2>2. PICK h \in DOMAIN jobs :
               /\ Holding(jobs[h]) /\ jobs[h].t = jobs'[k].t
               /\ \/ h \notin gone /\ (jobs'[k].auto => jobs[h].auto)
                  \/ \E j \in new : Same(jobs'[k], j)
        BY <1>3, <2>1
    <2>3. CASE \E j \in new : Same(jobs'[k], j)
        <3>1. PICK j \in new : Same(jobs'[k], j)
            BY <2>3
        <3>2. \E g \in gone : jobs[g].auto /\ jobs[g].t = j.t
            BY <3>1 DEF Takes, Same
        <3> QED BY <3>1, <3>2 DEF Granted, Same
    <2>4. CASE jobs[h].auto
        BY <2>2, <2>4 DEF Granted
    <2> QED BY <2>2, <2>3, <2>4
<1>6. Failures \subseteq Failures' /\ Retries' = Retries
    BY FailuresStay, RetriesStay
<1>7. Held \subseteq Failures /\ Held' \subseteq Failures'
    BY <1>4, <1>6 DEF Tickets
<1>8. /\ IsFiniteSet(Failures') /\ Cardinality(Failures') \in Nat
      /\ Cardinality(Held') \in Nat /\ Cardinality(Granted') \in Nat
    <2>1. DOMAIN tasks' = 1..Len(tasks') /\ Len(tasks') \in Nat
        BY LenProperties DEF Filed
    <2>2. IsFiniteSet(DOMAIN tasks') /\ Failures' \subseteq DOMAIN tasks'
        BY <2>1, FS_Interval DEF Failures, Rows
    <2> QED BY <1>4, <1>5, <1>7, <2>2, FailuresFinite, FS_Subset, FS_CardinalityType
<1>9. /\ Cardinality(Held') <= Cardinality(Held)
      /\ Cardinality(Granted') <= Cardinality(Granted)
      /\ Cardinality(Failures) <= Cardinality(Failures')
    BY <1>4, <1>5, <1>6, <1>7, <1>8, FailuresFinite, FS_Subset
<1>10. /\ Cardinality(Held) \in Nat /\ Cardinality(Granted) \in Nat
       /\ Cardinality(Failures) \in Nat /\ Cardinality(Retries) \in Nat
    BY <1>7, FailuresFinite
<1>11. /\ Cardinality(Retries') + Cardinality(Held') <= Cardinality(Failures')
       /\ Cardinality(Retries') + Cardinality(Granted') < MaxRetries
    BY <1>6, <1>8, <1>9, <1>10, MissionAssumption DEF Tickets
<1> QED BY <1>2, <1>3, <1>7, <1>11 DEF Tickets

----------------------------------------------------------------------------
(* A completion that is being written, and one that was written.              *)
Finds(j) == j.pc = "finish" /\ j.n = 1

LEMMA SettledKept ==
    ASSUME Settled, NEW gone, NEW new, Moves(jobs', gone, new),
           \A j \in new : Finds(j) => OpenWork' = {},
           Completing /\ (raced \/ ~(OpenWork' \subseteq OpenWork)) => raced'
    PROVE  Settled'
<1>1. PICK old \in [DOMAIN jobs' -> 0..Len(jobs)] : Descends(jobs', gone, new, old)
    BY DEF Moves
<1> SUFFICES ASSUME NEW k \in DOMAIN jobs', jobs'[k].pc = "finish", jobs'[k].n = 1
             PROVE  OpenWork' = {} \/ raced'
    BY DEF Settled, At
<1>2. CASE old[k] = 0
    BY <1>1, <1>2 DEF Descends, Same, Finds
<1>3. CASE old[k] # 0
    <2>1. old[k] \in DOMAIN jobs /\ At(old[k], "finish") /\ jobs[old[k]].n = 1
        BY <1>1, <1>3 DEF Descends, Same, At
    <2>2. Completing /\ (OpenWork = {} \/ raced)
        BY <2>1 DEF Settled, Completing
    <2> QED BY <2>2
<1> QED BY <1>2, <1>3

LEMMA OrphansKept ==
    ASSUME NoOrphanWork, NEW gone, NEW new, Moves(jobs', gone, new),
           status' = "completed" /\ counted' /\ OpenWork' # {}
               => \/ raced'
                  \/ \E k \in DOMAIN jobs' : jobs'[k].pc = "reopen"
                  \/ /\ status = "completed" /\ counted /\ OpenWork # {}
                     /\ raced => raced'
                     /\ \A h \in gone : jobs[h].pc # "reopen"
    PROVE  NoOrphanWork'
<1> SUFFICES ASSUME status' = "completed", counted', OpenWork' # {}, ~raced'
             PROVE  \E k \in DOMAIN jobs' : jobs'[k].pc = "reopen"
    BY DEF NoOrphanWork, At
<1>1. CASE /\ status = "completed" /\ counted /\ OpenWork # {}
           /\ raced => raced'
           /\ \A h \in gone : jobs[h].pc # "reopen"
    <2>1. PICK h \in DOMAIN jobs : jobs[h].pc = "reopen"
        BY <1>1 DEF NoOrphanWork, At
    <2> QED BY <1>1, <2>1 DEF Moves, Same
<1> QED BY <1>1

(* The parts of the invariant that are about tasks and jobs.                  *)
Loop == Filed /\ Aimed /\ Tickets /\ Settled /\ NoOrphanWork

(* What a step has to say of the jobs it takes away and starts.               *)
Follows(j, gone) ==
    /\ Aims(j)' /\ Resolves(j)'
    /\ Inherits(j, gone) /\ Takes(j, gone)
    /\ Finds(j) => OpenWork' = {}

Accounts(gone) ==
    /\ Completing /\ (raced \/ ~(OpenWork' \subseteq OpenWork)) => raced'
    /\ status' = "completed" /\ counted' /\ OpenWork' # {}
           => \/ raced'
              \/ \E k \in DOMAIN jobs' : jobs'[k].pc = "reopen"
              \/ /\ status = "completed" /\ counted /\ OpenWork # {}
                 /\ raced => raced'
                 /\ \A h \in gone : jobs[h].pc # "reopen"

LEMMA LoopKept ==
    ASSUME Loop, Filed', Grown, Manual,
           NEW gone \in SUBSET DOMAIN jobs, \A g, h \in gone : g = h,
           NEW new, Moves(jobs', gone, new),
           \A j \in new : Follows(j, gone), Accounts(gone)
    PROVE  Loop'
<1>1. Filed /\ Aimed /\ Tickets /\ Settled /\ NoOrphanWork
    BY DEF Loop
<1>2. Aimed'
    BY <1>1, AimedKept DEF Follows, Grown
<1>3. Tickets'
    BY <1>1, TicketsKept DEF Follows
<1>4. Settled'
    BY <1>1, SettledKept DEF Follows, Accounts
<1>5. NoOrphanWork'
    BY <1>1, OrphansKept DEF Accounts
<1> QED BY <1>2, <1>3, <1>4, <1>5 DEF Loop

(* A step of one job that leaves the tasks alone, and counts no completion.   *)
Continues(j, i) ==
    /\ Aims(j) /\ Resolves(j)
    /\ Holding(j) => Holding(jobs[i]) /\ jobs[i].t = j.t
    /\ j.auto => jobs[i].auto /\ jobs[i].t = j.t
    /\ Finds(j) => OpenWork = {}

LEMMA SimpleContinues ==
    ASSUME NEW j, NEW i, Aims(j), ~Ticketed(j), ~Finds(j)
    PROVE  Continues(j, i)
BY DEF Continues, Ticketed, Holding, Resolves

Counts(i) ==
    \/ status' # "completed" \/ ~counted'
    \/ UNCHANGED <<status, counted>> /\ (raced => raced') /\ ~At(i, "reopen")

LEMMA QuietStep ==
    ASSUME Loop, UNCHANGED tasks, NEW i \in DOMAIN jobs, NEW new, Moves(jobs', {i}, new),
           \A j \in new : Continues(j, i),
           Completing /\ raced => raced',
           Counts(i)
    PROVE  Loop'
<1>1. Filed' /\ Grown /\ Manual
    BY DEF Loop, Filed, Grown, Manual
<1>2. OpenWork' = OpenWork
    BY DEF OpenWork, Work, Rows, Open
<1>3. Accounts({i})
    BY <1>2 DEF Accounts, Counts, At
<1>4. ASSUME NEW j \in new
      PROVE  Follows(j, {i})
    <2>1. Aims(j)' /\ Resolves(j)' /\ Inherits(j, {i}) /\ Takes(j, {i})
        BY DEF Continues, Aims, Resolves, Open, Inherits, Takes, Holding, Failed
    <2> QED BY <1>2, <2>1 DEF Continues, Follows
<1> HIDE DEF Loop
<1> QED BY <1>1, <1>3, <1>4, LoopKept

(* A request that only starts a job.                                          *)
LEMMA QuietStart ==
    ASSUME Loop, UNCHANGED <<tasks, status, counted, raced>>,
           NEW j, Start(<<j>>), Aims(j), ~Ticketed(j), ~Finds(j)
    PROVE  Loop'
<1>1. Moves(jobs', {}, {j})
    BY StartMoves DEF Start, Aims, Loop, Aimed
<1>2. Filed' /\ Grown /\ Manual
    BY DEF Loop, Filed, Grown, Manual
<1>3. OpenWork' = OpenWork
    BY DEF OpenWork, Work, Rows, Open
<1>4. Accounts({})
    BY <1>3 DEF Accounts
<1>5. Follows(j, {})
    <2>1. Aims(j)' /\ Resolves(j)' /\ Inherits(j, {}) /\ Takes(j, {})
        BY DEF Aims, Resolves, Inherits, Takes, Holding, Ticketed
    <2> QED BY <2>1 DEF Follows
<1> HIDE DEF Loop
<1> QED BY <1>1, <1>2, <1>4, <1>5, LoopKept

----------------------------------------------------------------------------
(* Rows that are inserted, and jobs that follow from a task.                  *)
LEMMA Inserted ==
    ASSUME Filed, NEW r \in Task, Insert(r), Open(r),
           r.parent <= Len(tasks) + 1, r.chain <= Len(tasks) + 1
    PROVE  /\ Filed' /\ Grown /\ (~r.auto => Manual)
           /\ NextId \in DOMAIN tasks' /\ NextId \notin DOMAIN tasks
           /\ tasks'[NextId] = r /\ Len(tasks') = Len(tasks) + 1
           /\ DOMAIN tasks' = DOMAIN tasks \cup {NextId}
           /\ \A t \in DOMAIN tasks : tasks'[t] = tasks[t]
           /\ r.kind # "work" => OpenWork' = OpenWork
<1>1. /\ Len(tasks) \in Nat /\ DOMAIN tasks = 1..Len(tasks)
      /\ \A t \in DOMAIN tasks : tasks[t] \in Task
    BY TaskIds
<1>2. /\ tasks' \in Seq(Task) /\ Len(tasks') = Len(tasks) + 1
      /\ \A t \in 1..Len(tasks) : tasks'[t] = tasks[t]
      /\ tasks'[Len(tasks) + 1] = r
    BY AppendProperties DEF Insert, Filed
<1>3. /\ DOMAIN tasks' = 1..(Len(tasks) + 1) /\ NextId = Len(tasks) + 1
      /\ DOMAIN tasks' = DOMAIN tasks \cup {NextId} /\ NextId \notin DOMAIN tasks
    BY <1>1, <1>2 DEF NextId
<1>4. ASSUME NEW t \in DOMAIN tasks'
      PROVE  tasks'[t].parent <= Len(tasks') /\ tasks'[t].chain <= Len(tasks')
    <2>1. CASE t \in DOMAIN tasks
        <3>1. /\ tasks'[t] = tasks[t] /\ tasks[t].parent \in Nat /\ tasks[t].chain \in Nat
              /\ tasks[t].parent <= Len(tasks) /\ tasks[t].chain <= Len(tasks)
            BY <1>1, <1>2, <2>1 DEF Task, Filed, Lineage
        <3> QED BY <1>1, <1>2, <3>1
    <2>2. CASE t = NextId
        BY <1>2, <1>3, <2>2
    <2> QED BY <1>3, <2>1, <2>2
<1>5. Filed'
    BY <1>2, <1>4 DEF Filed, Lineage
<1>6. Grown /\ (~r.auto => Manual)
    BY <1>1, <1>2, <1>3 DEF Grown, Manual
<1>7. ASSUME r.kind # "work"
      PROVE  OpenWork' = OpenWork
    BY <1>1, <1>2, <1>3, <1>7 DEF OpenWork, Work, Rows, Open
<1> QED BY <1>1, <1>2, <1>3, <1>5, <1>6, <1>7

LEMMA One ==
    ASSUME NEW j \in JobSet
    PROVE  <<j>> \in Seq(JobSet) /\ Single(<<j>>) /\ Members(<<j>>) = {j}
<1>1. DOMAIN <<j>> = {1} /\ <<j>>[1] = j
    OBVIOUS
<1> QED BY <1>1 DEF Single, Members

LEMMA Before ==
    ASSUME NEW j \in JobSet, ~Ticketed(j), NEW js \in Seq(JobSet), Single(js)
    PROVE  LET all == <<j>> \o js
           IN  all \in Seq(JobSet) /\ Single(all) /\ Members(all) = {j} \cup Members(js)
<1> DEFINE all == <<j>> \o js
<1>1. <<j>> \in Seq(JobSet) /\ Len(<<j>>) = 1 /\ <<j>>[1] = j
    OBVIOUS
<1>2. Len(js) \in Nat /\ DOMAIN js = 1..Len(js)
    BY LenProperties
<1>3. /\ all \in Seq(JobSet) /\ Len(all) = 1 + Len(js)
      /\ \A k \in 1..(1 + Len(js)) : all[k] = IF k <= 1 THEN <<j>>[k] ELSE js[k - 1]
    BY <1>1, ConcatProperties
<1>4. DOMAIN all = 1..(1 + Len(js)) /\ all[1] = j /\ 1 \in DOMAIN all
    BY <1>1, <1>2, <1>3
<1>5. \A k \in DOMAIN all : k # 1 => k - 1 \in DOMAIN js /\ all[k] = js[k - 1]
    BY <1>2, <1>3, <1>4
<1>6. \A k \in DOMAIN js : k + 1 \in DOMAIN all /\ k + 1 # 1 /\ (k + 1) - 1 = k
    BY <1>2, <1>4
<1> HIDE DEF all
<1>7. Members(all) = {j} \cup Members(js)
    <2>1. Members(all) \subseteq {j} \cup Members(js)
        BY <1>4, <1>5 DEF Members
    <2>2. \A k \in DOMAIN js : all[k + 1] = js[k]
        BY <1>5, <1>6
    <2>3. j \in Members(all)
        BY <1>4 DEF Members
    <2>4. Members(js) \subseteq Members(all)
        BY <1>6, <2>2 DEF Members
    <2> QED BY <2>1, <2>3, <2>4
<1>8. Single(all)
    <2> SUFFICES ASSUME NEW k \in DOMAIN all, NEW m \in DOMAIN all,
                        Ticketed(all[k]), Ticketed(all[m])
                 PROVE  k = m
        BY DEF Single
    <2>1. k # 1 /\ m # 1
        BY <1>4
    <2>2. k - 1 = m - 1
        BY <1>5, <2>1 DEF Single
    <2> QED BY <1>2, <1>4, <2>2
<1> QED BY <1>3, <1>7, <1>8 DEF all

(* The jobs that follow from a task that has ended.                           *)
LEMMA AfterTaskIs ==
    ASSUME Filed, NEW t \in DOMAIN tasks
    PROVE  /\ AfterTask(t) \in Seq(JobSet) /\ Single(AfterTask(t))
           /\ \A j \in Members(AfterTask(t)) :
                 /\ j \in JobSet /\ j.t = t /\ ~j.auto
                 /\ j.pc \in {"fail", "approve", "loop", "verdict"}
                 /\ j.pc = "fail" => Failed(t)
<1>1. t \in Nat
    BY TaskIds
<1>2. \A pc \in {"fail", "approve", "loop", "verdict"} :
          /\ Job(pc, t) \in JobSet /\ Job(pc, t).t = t /\ Job(pc, t).auto = FALSE
          /\ Job(pc, t).pc = pc
    BY <1>1, JobTyped DEF Pcs
<1>3. CASE AfterTask(t) = <<Job("fail", t)>> /\ Failed(t)
    BY <1>2, <1>3, One
<1>4. CASE AfterTask(t) = <<Job("approve", t)>>
    BY <1>2, <1>4, One
<1>5. CASE AfterTask(t) = <<Job("loop", t)>> \o <<Job("verdict", t)>>
    <2> DEFINE a == Job("loop", t)
               b == Job("verdict", t)
    <2>1. /\ a \in JobSet /\ a.t = t /\ a.auto = FALSE /\ a.pc = "loop"
          /\ b \in JobSet /\ b.t = t /\ b.auto = FALSE /\ b.pc = "verdict"
        BY <1>2
    <2> HIDE DEF a, b
    <2>2. <<b>> \in Seq(JobSet) /\ Single(<<b>>) /\ Members(<<b>>) = {b}
        BY <2>1, One
    <2>3. ~Ticketed(a)
        BY <2>1 DEF Ticketed
    <2>4. /\ <<a>> \o <<b>> \in Seq(JobSet) /\ Single(<<a>> \o <<b>>)
          /\ Members(<<a>> \o <<b>>) = {a} \cup {b}
        BY <2>1, <2>2, <2>3, Before
    <2> QED BY <1>5, <2>1, <2>4 DEF a, b
<1>6. CASE AfterTask(t) = <<Job("loop", t)>> \o <<>>
    <2>1. AfterTask(t) = <<Job("loop", t)>>
        BY <1>2, <1>6, One, ConcatEmptySeq
    <2> QED BY <1>2, <2>1, One
<1>7. CASE Failed(t)
    <2>1. AfterTask(t) = <<Job("fail", t)>>
        BY <1>7 DEF AfterTask, Failed
    <2> QED BY <1>3, <1>7, <2>1
<1>8. CASE tasks[t].status = "completed" /\ tasks[t].result = "plan"
    BY <1>4, <1>8 DEF AfterTask, Failed
<1>9. CASE ~Failed(t) /\ ~(tasks[t].status = "completed" /\ tasks[t].result = "plan")
    <2>1. AfterTask(t) = <<Job("loop", t)>> \o
                             IF t = lastEval THEN <<Job("verdict", t)>> ELSE <<>>
        BY <1>9 DEF AfterTask, Failed
    <2> QED BY <1>5, <1>6, <2>1
<1> QED BY <1>7, <1>8, <1>9

----------------------------------------------------------------------------
(* The steps that leave the tasks alone.                                      *)
LEMMA PlainJob ==
    ASSUME NEW pc \in Pcs \ {"resolve", "aggregate", "approve", "plan", "loop", "decide",
                             "fail", "count", "verdict", "mark", "run", "insert"},
           NEW t \in Nat
    PROVE  Aims(Job(pc, t)) /\ ~Ticketed(Job(pc, t)) /\ ~Finds(Job(pc, t))
<1> DEFINE j == Job(pc, t)
<1>1. j \in JobSet /\ j.pc = pc /\ j.n = 0 /\ j.auto = FALSE
    BY JobTyped
<1> HIDE DEF j
<1>2. Aims(j) /\ ~Ticketed(j) /\ ~Finds(j)
    BY <1>1 DEF Aims, Ticketed, Finds
<1> QED BY <1>2 DEF j

LEMMA TaskJob ==
    ASSUME Filed, NEW t \in DOMAIN tasks, NEW pc \in {"approve", "loop", "verdict", "mark"}
    PROVE  Aims(Job(pc, t)) /\ ~Ticketed(Job(pc, t)) /\ ~Finds(Job(pc, t))
<1>1. t \in Nat /\ pc \in Pcs
    BY TaskIds DEF Pcs
<1> QED BY <1>1, JobTyped DEF Aims, Ticketed, Finds

LEMMA JobIsAimed ==
    ASSUME Loop, NEW i \in DOMAIN jobs
    PROVE  jobs \in Seq(JobSet) /\ jobs[i] \in JobSet /\ Aims(jobs[i])
BY DEF Loop, Aimed, Aims

(* A job that ends.                                                           *)
LEMMA EndStep ==
    ASSUME Loop, UNCHANGED tasks, NEW i \in DOMAIN jobs, End(i),
           Completing /\ raced => raced',
           Counts(i)
    PROVE  Loop'
<1>1. Moves(jobs', {i}, {})
    BY JobIsAimed, EndMoves DEF End
<1> QED BY <1>1, QuietStep

(* A job that becomes another, which is about no ticket and no completion.    *)
LEMMA BecomeStep ==
    ASSUME Loop, UNCHANGED <<tasks, raced>>, NEW i \in DOMAIN jobs, NEW j,
           Become(i, j), Aims(j), Continues(j, i), Counts(i)
    PROVE  Loop'
<1>1. Moves(jobs', {i}, {j})
    BY JobIsAimed, BecomeMoves DEF Become, Aims
<1> QED BY <1>1, QuietStep

LEMMA GotoStep ==
    ASSUME Loop, UNCHANGED <<tasks, raced>>, NEW i \in DOMAIN jobs,
           NEW pc \in {"decide", "count", "insert", "insertEval", "take", "cronInsert",
                   "catch"},
           Goto(i, pc),
           pc = "decide" => At(i, "loop"),
           pc = "count" => At(i, "fail"),
           pc = "insert" => At(i, "run"),
           pc \in {"insertEval", "take", "cronInsert", "catch"} => ~jobs[i].auto,
           Counts(i)
    PROVE  Loop'
<1> DEFINE j == [jobs[i] EXCEPT !.pc = pc]
<1>1. jobs[i] \in JobSet /\ Aims(jobs[i])
    BY JobIsAimed
<1>2. pc \in Pcs
    BY DEF Pcs
<1>3. /\ j \in JobSet /\ j.pc = pc /\ j.t = jobs[i].t /\ j.n = jobs[i].n
      /\ j.auto = jobs[i].auto
    BY <1>1, <1>2 DEF JobSet
<1>4. Become(i, j)
    BY DEF Goto, Become
<1> HIDE DEF j
<1>5. Aims(j)
    BY <1>1, <1>3 DEF Aims, At
<1>6. Continues(j, i)
    BY <1>1, <1>3, <1>5 DEF Continues, Resolves, Holding, Finds, At
<1> QED BY <1>4, <1>5, <1>6, BecomeStep

LEMMA MissionSteps ==
    ASSUME Loop, NEW i \in DOMAIN jobs,
           \/ WriteMission(i) \/ Reopen(i) \/ Enable(i) \/ Disable(i) \/ Finish(i)
           \/ MarkEval(i)
    PROVE  Loop'
<1>1. CASE WriteMission(i)
    BY <1>1, EndStep DEF WriteMission, rows, Counts
<1>2. CASE Reopen(i)
    <2>1. CASE status = "completed"
        <3>1. Become(i, Job("enable", 0)) /\ raced' = Completing
            BY <1>2, <2>1 DEF Reopen
        <3>2. Aims(Job("enable", 0)) /\ Continues(Job("enable", 0), i)
            BY PlainJob, SimpleContinues DEF Pcs
        <3>3. Moves(jobs', {i}, {Job("enable", 0)})
            BY <3>1, <3>2, JobIsAimed, BecomeMoves DEF Become, Aims
        <3> QED BY <1>2, <2>1, <3>1, <3>2, <3>3, QuietStep DEF Reopen, rows, Counts
    <2>2. CASE status # "completed"
        BY <1>2, <2>2, EndStep DEF Reopen, mission, rows, ghosts, Counts
    <2> QED BY <2>1, <2>2
<1>3. CASE Enable(i) \/ Disable(i)
    BY <1>3, EndStep DEF Enable, Disable, SetEnabled, At, mission, rows, ghosts, Counts
<1>4. CASE Finish(i)
    <2>1. Become(i, Job("disable", 0)) /\ UNCHANGED <<tasks, raced>>
        BY <1>4 DEF Finish, rows
    <2>2. Aims(Job("disable", 0)) /\ Continues(Job("disable", 0), i)
        BY PlainJob, SimpleContinues DEF Pcs
    <2>3. Moves(jobs', {i}, {Job("disable", 0)})
        BY <2>1, <2>2, JobIsAimed, BecomeMoves DEF Become, Aims
    <2>4. CASE jobs[i].n # 1
        BY <1>4, <2>1, <2>2, <2>4, BecomeStep DEF Finish, Counts
    <2>5. CASE jobs[i].n = 1
        <3>1. OpenWork = {} \/ raced
            BY <1>4, <2>5 DEF Loop, Settled, Finish
        <3>2. Accounts({i})
            BY <2>1, <3>1 DEF Accounts, OpenWork, Work, Rows, Open
        <3>3. Filed' /\ Grown /\ Manual
            BY <2>1 DEF Loop, Filed, Grown, Manual
        <3>4. Follows(Job("disable", 0), {i})
            <4> DEFINE j == Job("disable", 0)
            <4>1. Aims(j) /\ ~Ticketed(j) /\ ~Finds(j)
                BY PlainJob DEF Pcs
            <4> HIDE DEF j
            <4>2. Follows(j, {i})
                BY <2>1, <4>1
                DEF Follows, Aims, Resolves, Inherits, Takes, Holding, Ticketed
            <4> QED BY <4>2 DEF j
        <3> HIDE DEF Loop
        <3> QED BY <2>3, <3>2, <3>3, <3>4, LoopKept
    <2> QED BY <2>4, <2>5
<1>5. CASE MarkEval(i)
    BY <1>5, EndStep DEF MarkEval, At, rows, ghosts, Counts
<1> QED BY <1>1, <1>2, <1>3, <1>4, <1>5

LEMMA LookSteps ==
    ASSUME Loop, NEW i \in DOMAIN jobs,
           \/ Debounce(i) \/ Decide(i) \/ Run(i) \/ Evaluate(i) \/ Verdict(i) \/ Approve(i)
    PROVE  Loop'
<1> DEFINE stopped == End(i) /\ UNCHANGED <<tasks, counted, raced>> /\ ~At(i, "reopen")
<1>1. ASSUME stopped, UNCHANGED status \/ status' # "completed"
      PROVE  Loop'
    BY <1>1, EndStep DEF Counts
<1>2. jobs[i] \in JobSet /\ Aims(jobs[i]) /\ Filed
    BY JobIsAimed DEF Loop
<1>3. ASSUME NEW j, Become(i, j), Aims(j), ~Ticketed(j), Finds(j) => OpenWork = {},
             UNCHANGED <<tasks, status, counted, raced>>, ~At(i, "reopen")
      PROVE  Loop'
    <2>1. Continues(j, i)
        BY <1>3 DEF Continues, Ticketed, Holding, Resolves
    <2> QED BY <1>3, <2>1, BecomeStep DEF Counts
<1>4. CASE Debounce(i)
    <2>1. CASE status = "active" /\ ~fresh /\ At(i, "loop")
        BY <1>4, <2>1, GotoStep DEF Debounce, At, rows, ghosts, Counts
    <2>2. CASE status = "active" /\ ~fresh /\ At(i, "fail")
        BY <1>4, <2>2, GotoStep DEF Debounce, At, rows, ghosts, Counts
    <2>3. CASE ~(status = "active" /\ ~fresh)
        BY <1>1, <1>4, <2>3 DEF Debounce, At, rows, ghosts
    <2> QED BY <1>4, <2>1, <2>2, <2>3 DEF Debounce, At
<1>5. CASE Run(i)
    <2>1. CASE Goto(i, "insert") /\ UNCHANGED status
        BY <1>5, <2>1, GotoStep DEF Run, rows, ghosts, Counts, At
    <2>2. CASE End(i) /\ (UNCHANGED status \/ status' # "completed")
        BY <1>1, <1>5, <2>2 DEF Run, rows, ghosts, At
    <2> QED BY <1>5, <2>1, <2>2 DEF Run
<1>6. CASE Evaluate(i)
    <2>1. ~jobs[i].auto /\ ~At(i, "reopen") /\ UNCHANGED <<tasks, status, counted, raced>>
        BY <1>2, <1>6 DEF Evaluate, At, Aims, mission, rows, ghosts
    <2>2. CASE Goto(i, "insertEval")
        BY <2>1, <2>2, GotoStep DEF Counts
    <2>3. CASE End(i)
        BY <1>1, <2>1, <2>3
    <2> QED BY <1>6, <2>2, <2>3 DEF Evaluate
<1>7. CASE Verdict(i)
    <2>1. ~At(i, "reopen") /\ UNCHANGED <<tasks, status, counted, raced>>
        BY <1>7 DEF Verdict, At, mission, rows, ghosts
    <2>2. CASE Become(i, Job("finish", 0))
        BY <1>3, <2>1, <2>2, PlainJob DEF Pcs
    <2>3. CASE End(i)
        BY <1>1, <2>1, <2>3
    <2> QED BY <1>7, <2>2, <2>3 DEF Verdict
<1>8. CASE Approve(i)
    <2>1. /\ ~At(i, "reopen") /\ UNCHANGED <<tasks, status, counted, raced>>
          /\ At(i, "approve") /\ jobs[i].t \in DOMAIN tasks /\ ~jobs[i].auto
        BY <1>2, <1>8 DEF Approve, At, Aims, mission, rows, ghosts
    <2>2. CASE EndWith(i, <<Job("loop", jobs[i].t)>>)
        <3> DEFINE j == Job("loop", jobs[i].t)
        <3>1. Aims(j) /\ ~Ticketed(j) /\ ~Finds(j)
            BY <1>2, <2>1, TaskJob
        <3> HIDE DEF j
        <3>2. Moves(jobs', {i}, {j})
            BY <2>2, <3>1, One, JobIsAimed, EndWithMoves DEF EndWith, Aims, j
        <3>3. Continues(j, i)
            BY <3>1, SimpleContinues
        <3> QED BY <2>1, <3>2, <3>3, QuietStep DEF Counts
    <2>3. ASSUME NEW n \in 1..MaxPlan, Become(i, [Job("plan", jobs[i].t) EXCEPT !.n = n])
          PROVE  Loop'
        <3> DEFINE j == [Job("plan", jobs[i].t) EXCEPT !.n = n]
        <3>1. Become(i, j)
            BY <2>3
        <3>2. /\ j \in JobSet /\ j.pc = "plan" /\ j.t = jobs[i].t /\ j.n = n
              /\ j.auto = FALSE
            <4>1. n \in Nat
                BY MissionAssumption
            <4>2. jobs[i].t \in Nat
                BY <1>2 DEF JobSet
            <4> QED BY <4>1, <4>2 DEF Job, JobSet, Pcs
        <3> HIDE DEF j
        <3>3. Aims(j) /\ ~Ticketed(j) /\ ~Finds(j)
            BY <2>1, <3>2, MissionAssumption DEF Aims, Ticketed, Finds
        <3> QED BY <1>3, <2>1, <3>1, <3>3
    <2> QED BY <1>8, <2>2, <2>3 DEF Approve
<1>9. CASE Decide(i)
    <2>1. /\ ~At(i, "reopen") /\ UNCHANGED <<tasks, status, counted, raced>>
          /\ jobs[i].t \in DOMAIN tasks
        BY <1>2, <1>9 DEF Decide, At, Aims, mission, rows, ghosts
    <2> DEFINE d == Decision(jobs[i].t)
    <2>2. CASE d = "stop"
        BY <1>1, <1>9, <2>1, <2>2 DEF Decide
    <2>3. CASE d = "run"
        <3> DEFINE c == Chain(jobs[i].t)
                   j == [Job("run", 0) EXCEPT !.n = c]
        <3>1. Become(i, j)
            BY <1>9, <2>3 DEF Decide
        <3>2. c \in Nat /\ c <= Len(tasks)
            BY <1>2, <2>1, TaskIds DEF Chain, Filed, Lineage, Task
        <3> HIDE DEF c
        <3>3. /\ j \in JobSet /\ j.pc = "run" /\ j.n = c /\ j.auto = FALSE
            BY <3>2 DEF Job, JobSet, Pcs
        <3> HIDE DEF j
        <3>4. Aims(j) /\ ~Ticketed(j) /\ ~Finds(j)
            BY <3>2, <3>3 DEF Aims, Ticketed, Finds
        <3> QED BY <1>3, <2>1, <3>1, <3>4
    <2>4. CASE d = "evaluate"
        <3>1. Become(i, Job("evaluate", 0))
            BY <1>9, <2>4 DEF Decide
        <3> QED BY <1>3, <2>1, <3>1, PlainJob DEF Pcs
    <2>5. CASE d = "counted"
        <3> DEFINE j == [Job("finish", 0) EXCEPT !.n = 1]
        <3>1. Become(i, j)
            BY <1>9, <2>5 DEF Decide
        <3>2. /\ j \in JobSet /\ j.pc = "finish" /\ j.auto = FALSE
            BY DEF Job, JobSet, Pcs
        <3> HIDE DEF j
        <3>3. AllEnded(Work)
            BY <2>5 DEF Decision, WorkDone
        <3>4. OpenWork = {}
            BY <3>3 DEF OpenWork, AllEnded, Open, Terminal
        <3>5. Aims(j) /\ ~Ticketed(j)
            BY <3>2 DEF Aims, Ticketed
        <3> QED BY <1>3, <2>1, <3>1, <3>4, <3>5
    <2>6. CASE d = "judged"
        <3>1. Become(i, Job("finish", 0))
            BY <1>9, <2>6 DEF Decide
        <3> QED BY <1>3, <2>1, <3>1, PlainJob DEF Pcs
    <2>7. d \in {"stop", "run", "evaluate", "counted", "judged"}
        BY DEF Decision
    <2> QED BY <2>2, <2>3, <2>4, <2>5, <2>6, <2>7
<1> QED BY <1>4, <1>5, <1>6, <1>7, <1>8, <1>9

LEMMA CronSteps ==
    ASSUME Loop, NEW i \in DOMAIN jobs,
           CountSlots(i) \/ Defer(i) \/ TakeSlot(i) \/ Linked(i) \/ CronCatch(i)
    PROVE  Loop'
<1>1. jobs \in Seq(JobSet) /\ jobs[i] \in JobSet /\ Aims(jobs[i])
    BY JobIsAimed
<1>2. CASE TakeSlot(i)
    <2>1. /\ ~At(i, "reopen") /\ UNCHANGED <<tasks, status, counted, raced>>
          /\ At(i, "take") /\ ~jobs[i].auto
        BY <1>1, <1>2 DEF TakeSlot, At, Aims, mission, rows, ghosts
    <2>2. CASE jobs' = MoveSlot([jobs EXCEPT ![i].pc = "linked"])
        <3> DEFINE j == [jobs[i] EXCEPT !.pc = "linked"]
        <3>1. j \in JobSet /\ j.pc = "linked" /\ j.auto = FALSE
            BY <1>1, <2>1 DEF JobSet, Pcs
        <3>2. [jobs EXCEPT ![i].pc = "linked"] = [jobs EXCEPT ![i] = j]
            OBVIOUS
        <3> HIDE DEF j
        <3>3. Moves([jobs EXCEPT ![i] = j], {i}, {j})
            BY <1>1, <3>1, BecomeMoves
        <3>4. Moves(jobs', {i}, {j})
            BY <2>2, <3>2, <3>3, SlotMoves
        <3>5. Aims(j) /\ ~Ticketed(j) /\ ~Finds(j)
            BY <3>1 DEF Aims, Ticketed, Finds
        <3>6. Continues(j, i)
            BY <3>5, SimpleContinues
        <3> QED BY <2>1, <3>4, <3>6, QuietStep DEF Counts
    <2>3. CASE End(i)
        BY <2>1, <2>3, EndStep DEF Counts
    <2> QED BY <1>2, <2>2, <2>3 DEF TakeSlot
<1>3. CASE Linked(i)
    <2>1. /\ ~At(i, "reopen") /\ UNCHANGED <<tasks, status, counted, raced>>
          /\ At(i, "linked") /\ ~jobs[i].auto
        BY <1>1, <1>3 DEF Linked, At, Aims, mission, rows, ghosts
    <2>2. CASE End(i)
        BY <2>1, <2>2, EndStep DEF Counts
    <2>3. CASE Goto(i, "cronInsert")
        BY <2>1, <2>3, GotoStep DEF Counts
    <2>4. CASE AllEnded(Uncancelled) /\ Become(i, [Job("finish", 0) EXCEPT !.n = 1])
        <3> DEFINE j == [Job("finish", 0) EXCEPT !.n = 1]
        <3>1. j \in JobSet /\ j.pc = "finish" /\ j.auto = FALSE
            BY DEF Job, JobSet, Pcs
        <3>2. OpenWork = {}
            BY <2>4 DEF AllEnded, Uncancelled, OpenWork, Open, Terminal
        <3>3. Become(i, j)
            BY <2>4
        <3> HIDE DEF j
        <3>4. Aims(j) /\ Continues(j, i)
            BY <3>1, <3>2 DEF Aims, Continues, Holding, Resolves
        <3> QED BY <2>1, <3>3, <3>4, BecomeStep DEF Counts
    <2> QED BY <1>3, <2>2, <2>3, <2>4 DEF Linked
<1>4. CASE CronCatch(i)
    <2>1. /\ ~At(i, "reopen") /\ UNCHANGED <<tasks, status, counted, raced>>
          /\ jobs' = MoveSlot(Without(i))
        BY <1>4 DEF CronCatch, At, mission, rows, ghosts
    <2>2. Moves(jobs', {i}, {})
        BY <1>1, <2>1, EndMoves, SlotMoves
    <2> QED BY <2>1, <2>2, QuietStep DEF Counts
<1>5. CASE CountSlots(i)
    <2>1. /\ ~At(i, "reopen") /\ UNCHANGED <<tasks, status, counted, raced>>
          /\ At(i, "due") /\ ~jobs[i].auto /\ Goto(i, "take")
        BY <1>1, <1>5 DEF CountSlots, At, Aims, mission, rows, ghosts
    <2> QED BY <2>1, GotoStep DEF Counts
<1>6. CASE Defer(i)
    <2>1. /\ ~At(i, "reopen") /\ UNCHANGED <<tasks, status, counted, raced>>
          /\ jobs' = MoveSlot(Without(i))
        BY <1>6 DEF Defer, At, mission, rows, ghosts
    <2>2. Moves(jobs', {i}, {})
        BY <1>1, <2>1, EndMoves, SlotMoves
    <2> QED BY <2>1, <2>2, QuietStep DEF Counts
<1> QED BY <1>2, <1>3, <1>4, <1>5, <1>6

(* A job of a task that has ended hands its ticket on.                        *)
LEMMA AfterTaskContinues ==
    ASSUME Loop, NEW i \in DOMAIN jobs, jobs[i].pc \in {"resolve", "aggregate"},
           NEW j \in Members(AfterTask(jobs[i].t))
    PROVE  /\ j.pc \notin {"resolve", "aggregate", "finish"}
           /\ Aims(j) /\ Continues(j, i)
<1>1. /\ Aims(jobs[i]) /\ Filed
      /\ jobs[i].t \in DOMAIN tasks
    BY JobIsAimed DEF Loop, Aims
<1>2. /\ j \in JobSet /\ j.t = jobs[i].t /\ ~j.auto
      /\ j.pc \in {"fail", "approve", "loop", "verdict"}
      /\ j.pc = "fail" => Failed(jobs[i].t)
    BY <1>1, AfterTaskIs
<1>3. Aims(j)
    BY <1>1, <1>2 DEF Aims
<1> QED BY <1>2, <1>3 DEF Continues, Resolves, Holding, Finds

LEMMA ResolveStep ==
    ASSUME Loop, NEW i \in DOMAIN jobs, Resolve(i)
    PROVE  Loop'
<1> DEFINE t == jobs[i].t
           p == tasks[t].parent
<1>1. /\ jobs \in Seq(JobSet) /\ Aims(jobs[i]) /\ Filed
      /\ At(i, "resolve") /\ jobs[i].pc = "resolve" /\ t \in DOMAIN tasks
      /\ UNCHANGED <<tasks, status, counted, raced>>
    BY JobIsAimed DEF Loop, Aims, Resolve, At, mission, rows, ghosts
<1>2. /\ AfterTask(t) \in Seq(JobSet) /\ Single(AfterTask(t))
      /\ \A j \in Members(AfterTask(t)) : Aims(j) /\ Continues(j, i)
    BY <1>1, AfterTaskIs, AfterTaskContinues
<1>3. Counts(i)
    BY <1>1 DEF Counts, At
<1>4. ASSUME NEW js \in Seq(JobSet), Single(js), EndWith(i, js),
             \A j \in Members(js) : Continues(j, i)
      PROVE  Loop'
    <2>1. Moves(jobs', {i}, Members(js))
        BY <1>1, <1>4, EndWithMoves DEF EndWith
    <2> QED BY <1>1, <1>3, <1>4, <2>1, QuietStep
<1>5. CASE AfterChildren(p) = "loop"
    <2> DEFINE l == Job("loop", p)
    <2>1. p \in DOMAIN tasks
        <3>1. p # 0
            BY <1>5 DEF AfterChildren
        <3>2. p \in Nat /\ p <= Len(tasks)
            BY <1>1, TaskIds DEF Task, Filed, Lineage
        <3> QED BY <1>1, <3>1, <3>2, TaskIds
    <2>2. Aims(l) /\ ~Ticketed(l) /\ ~Finds(l) /\ l \in JobSet
        BY <1>1, <2>1, TaskJob DEF Aims
    <2>3. EndWith(i, <<l>> \o AfterTask(t))
        BY <1>1, <1>5 DEF Resolve
    <2> HIDE DEF l
    <2>4. Continues(l, i)
        BY <2>2, SimpleContinues
    <2>5. /\ <<l>> \o AfterTask(t) \in Seq(JobSet) /\ Single(<<l>> \o AfterTask(t))
          /\ Members(<<l>> \o AfterTask(t)) = {l} \cup Members(AfterTask(t))
        BY <1>2, <2>2, Before
    <2> QED BY <1>2, <1>4, <2>3, <2>4, <2>5
<1>6. CASE AfterChildren(p) = "agg"
    <2> DEFINE a == Job("aggregate", t)
    <2>1. t \in Nat /\ "aggregate" \in Pcs
        BY <1>1, TaskIds DEF Pcs
    <2>2. a \in JobSet /\ a.pc = "aggregate" /\ a.t = t /\ a.auto = FALSE
        BY <2>1, JobTyped
    <2>3. EndWith(i, <<a>>)
        BY <1>1, <1>6 DEF Resolve
    <2> HIDE DEF a
    <2>4. tasks[t].kind \in Planning => ~Open(tasks[t])
        BY <1>1 DEF Loop, Tickets, Resolved
    <2>5. Continues(a, i)
        BY <1>1, <2>2, <2>4 DEF Continues, Aims, Resolves, Holding, Finds
    <2> QED BY <1>4, <2>2, <2>3, <2>5, One
<1>7. CASE AfterChildren(p) = "nothing"
    <2>1. EndWith(i, AfterTask(t))
        BY <1>1, <1>7 DEF Resolve
    <2> QED BY <1>2, <1>4, <2>1
<1>8. AfterChildren(p) \in {"loop", "agg", "nothing"}
    BY DEF AfterChildren
<1> QED BY <1>5, <1>6, <1>7, <1>8

----------------------------------------------------------------------------
(* The steps that insert a task.                                              *)
LEMMA FollowsLater ==
    ASSUME Filed, Filed', Grown, NEW i, NEW j, Aims(j), Continues(j, i),
           j.pc \notin {"resolve", "aggregate"}, ~Finds(j)
    PROVE  Follows(j, {i})
<1>1. Aims(j)'
    BY TaskIds, LenProperties DEF Aims, Grown, Filed, JobSet
<1> QED BY <1>1 DEF Follows, Continues, Resolves, Inherits, Takes, Holding

LEMMA FollowsPlain ==
    ASSUME NEW gone, NEW j, Aims(j)', ~Ticketed(j), ~Finds(j)
    PROVE  Follows(j, gone)
BY DEF Follows, Resolves, Inherits, Takes, Holding, Ticketed

LEMMA AsideAccounts ==
    ASSUME UNCHANGED <<status, counted, raced>>, OpenWork' = OpenWork,
           NEW i, ~At(i, "reopen")
    PROVE  Accounts({i})
BY DEF Accounts, At

LEMMA AggregationStep ==
    ASSUME Loop, NEW i \in DOMAIN jobs, InsertAggregation(i)
    PROVE  Loop'
<1> DEFINE t == jobs[i].t
           r == Row("agg", tasks[t].parent, 0, FALSE)
<1>1. /\ jobs \in Seq(JobSet) /\ Aims(jobs[i]) /\ Filed
      /\ jobs[i].pc = "aggregate" /\ t \in DOMAIN tasks /\ ~At(i, "reopen")
      /\ EndWith(i, AfterTask(t)) /\ UNCHANGED <<status, counted, raced>>
    BY JobIsAimed DEF Loop, Aims, InsertAggregation, At, mission, ghosts
<1>2. /\ AfterTask(t) \in Seq(JobSet) /\ Single(AfterTask(t))
      /\ \A j \in Members(AfterTask(t)) :
            Aims(j) /\ Continues(j, i) /\ j.pc \notin {"resolve", "aggregate", "finish"}
    BY <1>1, AfterTaskIs, AfterTaskContinues
<1>3. Moves(jobs', {i}, Members(AfterTask(t)))
    BY <1>1, <1>2, EndWithMoves DEF EndWith
<1>4. CASE UNCHANGED rows
    BY <1>1, <1>2, <1>3, <1>4, QuietStep DEF rows, Counts
<1>5. CASE Insert(r)
    <2>1. tasks[t].parent \in Nat /\ tasks[t].parent <= Len(tasks) /\ Len(tasks) \in Nat
        BY <1>1, TaskIds DEF Task, Filed, Lineage
    <2> "agg" \in Kinds
        BY DEF Kinds
    <2>2. /\ r \in Task /\ Open(r) /\ r.kind = "agg" /\ r.auto = FALSE
          /\ r.parent = tasks[t].parent /\ r.chain = 0
        BY <2>1 DEF Row, Task, Open
    <2> HIDE DEF r
    <2>3. Filed' /\ Grown /\ Manual /\ OpenWork' = OpenWork
        BY <1>1, <1>5, <2>1, <2>2, Inserted
    <2>4. Accounts({i})
        BY <1>1, <2>3, AsideAccounts
    <2>5. \A j \in Members(AfterTask(t)) : Follows(j, {i})
        BY <1>1, <1>2, <2>3, FollowsLater DEF Finds
    <2> QED BY <1>3, <2>3, <2>4, <2>5, LoopKept
<1> QED BY <1>4, <1>5 DEF InsertAggregation

LEMMA ChildStep ==
    ASSUME Loop, NEW i \in DOMAIN jobs, InsertChild(i)
    PROVE  Loop'
<1> DEFINE t == jobs[i].t
           r == Row("work", t, 0, FALSE)
<1>1. /\ jobs \in Seq(JobSet) /\ jobs[i] \in JobSet /\ Aims(jobs[i]) /\ Filed
      /\ jobs[i].pc = "plan" /\ t \in DOMAIN tasks /\ ~At(i, "reopen") /\ ~jobs[i].auto
      /\ UNCHANGED <<status, counted>>
    BY JobIsAimed DEF Loop, Aims, InsertChild, At, mission
<1>2. CASE UNCHANGED <<rows, raced>> /\ End(i)
    BY <1>1, <1>2, EndStep DEF rows, Counts
<1>3. CASE Insert(r) /\ raced' = (raced \/ Completing \/ status = "completed")
    <2>1. t \in Nat /\ t <= Len(tasks) /\ Len(tasks) \in Nat
        BY <1>1, TaskIds
    <2> "work" \in Kinds
        BY DEF Kinds
    <2>2. /\ r \in Task /\ Open(r) /\ r.auto = FALSE /\ r.parent = t /\ r.chain = 0
        BY <2>1 DEF Row, Task, Open
    <2> HIDE DEF r
    <2>3. Filed' /\ Grown /\ Manual
        BY <1>1, <1>3, <2>1, <2>2, Inserted
    <2>4. Accounts({i})
        BY <1>1, <1>3 DEF Accounts
    <2>5. CASE End(i)
        <3>1. Moves(jobs', {i}, {})
            BY <1>1, <2>5, EndMoves DEF End
        <3> QED BY <2>3, <2>4, <3>1, LoopKept
    <2>6. CASE jobs[i].n > 1 /\ Become(i, [jobs[i] EXCEPT !.n = @ - 1])
        <3>1. /\ [jobs[i] EXCEPT !.n = @ - 1] \in JobSet
              /\ jobs[i].n - 1 > 0
            BY <1>1, <2>6 DEF JobSet
        <3>2. PICK j \in JobSet : /\ j = [jobs[i] EXCEPT !.n = @ - 1]
                                  /\ j.pc = "plan" /\ j.t = t /\ j.auto = FALSE /\ j.n > 0
            BY <1>1, <3>1 DEF JobSet
        <3>3. Aims(j)' /\ ~Ticketed(j) /\ ~Finds(j)
            BY <1>1, <2>3, <3>2 DEF Aims, Ticketed, Finds, Grown
        <3>4. Moves(jobs', {i}, {j})
            BY <1>1, <2>6, <3>2, BecomeMoves DEF Become
        <3>5. Follows(j, {i})
            BY <3>3, FollowsPlain
        <3> QED BY <2>3, <2>4, <3>4, <3>5, LoopKept
    <2> QED BY <1>3, <2>5, <2>6, <1>1 DEF InsertChild
<1> QED BY <1>2, <1>3 DEF InsertChild

(* A planner or an evaluation that nobody retries.                            *)
LEMMA PlannedStep ==
    ASSUME Loop, NEW i \in DOMAIN jobs, ~At(i, "reopen"),
           NEW kind \in {"planner", "eval"}, NEW chain \in 0..(Len(tasks) + 1),
           NEW r \in {Row(kind, 0, chain, FALSE),
                     [Row(kind, 0, chain, FALSE) EXCEPT !.cron = TRUE]}, Insert(r),
           UNCHANGED <<status, counted, raced>>,
           End(i) \/ Become(i, Job("mark", NextId))
    PROVE  Loop'
<1>1. jobs \in Seq(JobSet) /\ Filed /\ Len(tasks) \in Nat /\ chain \in Nat
    BY JobIsAimed, TaskIds DEF Loop
<1> kind \in Kinds
    BY DEF Kinds
<1>2. /\ r \in Task /\ Open(r) /\ r.kind = kind /\ r.auto = FALSE
      /\ r.parent = 0 /\ r.chain = chain
    <2>1. CASE r = Row(kind, 0, chain, FALSE)
        BY <1>1, <2>1 DEF Row, Task, Open
    <2>2. CASE r = [Row(kind, 0, chain, FALSE) EXCEPT !.cron = TRUE]
        BY <1>1, <2>2 DEF Row, Task, Open
    <2> QED BY <2>1, <2>2
<1>3. Insert(r)
    OBVIOUS
<1>4. Filed' /\ Grown /\ Manual /\ OpenWork' = OpenWork /\ NextId \in DOMAIN tasks'
    BY <1>1, <1>2, <1>3, Inserted
<1>5. Accounts({i})
    BY <1>4, AsideAccounts
<1>6. CASE End(i)
    <2>1. Moves(jobs', {i}, {})
        BY <1>1, <1>6, EndMoves DEF End
    <2> QED BY <1>4, <1>5, <2>1, LoopKept
<1>7. CASE Become(i, Job("mark", NextId))
    <2>1. NextId \in Nat /\ "mark" \in Pcs
        BY <1>1 DEF NextId, Pcs
    <2>2. PICK j \in JobSet : /\ j = Job("mark", NextId)
                              /\ j.pc = "mark" /\ j.t = NextId /\ j.auto = FALSE
        BY <2>1, JobTyped
    <2>3. PICK t : t = NextId /\ t \in DOMAIN tasks'
        BY <1>4
    <2>4. Aims(j)' /\ ~Ticketed(j) /\ ~Finds(j)
        BY <2>2, <2>3 DEF Aims, Ticketed, Finds
    <2>5. Follows(j, {i}) /\ Moves(jobs', {i}, {j})
        BY <1>1, <1>7, <2>2, <2>4, FollowsPlain, BecomeMoves DEF Become
    <2> QED BY <1>4, <1>5, <2>5, LoopKept
<1> QED BY <1>6, <1>7

(* A planner that retries a failed one takes that one's ticket.               *)
LEMMA RetriedStep ==
    ASSUME Loop, NEW i \in DOMAIN jobs, jobs[i].auto, jobs[i].pc = "insert",
           NEW chain \in 0..(Len(tasks) + 1),
           Insert(Row("planner", 0, chain, TRUE)),
           UNCHANGED <<status, counted, raced>>, End(i)
    PROVE  Loop'
<1> DEFINE r == Row("planner", 0, chain, TRUE)
           t == jobs[i].t
<1>1. /\ jobs \in Seq(JobSet) /\ Filed /\ Aimed /\ Settled /\ NoOrphanWork
      /\ Len(tasks) \in Nat /\ chain \in Nat
      /\ Resolved /\ OneHolder /\ Held \subseteq Failures
    BY JobIsAimed, TaskIds DEF Loop, Tickets
<1>2. /\ r \in Task /\ Open(r) /\ r.kind = "planner" /\ r.auto = TRUE
      /\ r.parent = 0 /\ r.chain = chain
    BY <1>1 DEF Row, Task, Open, Kinds
<1>3. Insert(r)
    OBVIOUS
<1> HIDE DEF r
<1>4. /\ Filed' /\ Grown /\ NextId \in DOMAIN tasks' /\ NextId \notin DOMAIN tasks
      /\ tasks'[NextId] = r /\ DOMAIN tasks' = DOMAIN tasks \cup {NextId}
      /\ \A u \in DOMAIN tasks : tasks'[u] = tasks[u]
      /\ OpenWork' = OpenWork
    <2>1. Filed /\ Len(tasks) \in Nat /\ r.parent <= Len(tasks) + 1 /\ r.chain <= Len(tasks) + 1
        BY <1>1, <1>2
    <2>2. r \in Task /\ Open(r) /\ r.kind = "planner"
        BY <1>2
    <2> QED BY <2>1, <2>2, <1>3, Inserted
<1>5. OpenWork' = OpenWork
    BY <1>4
<1>6. Moves(jobs', {i}, {})
    BY <1>1, EndMoves DEF End
<1>7. Aimed' /\ Resolved' /\ Settled'
    BY <1>1, <1>4, <1>5, <1>6, AimedKept, ResolvedKept, SettledKept DEF Grown
<1>8. NoOrphanWork'
    BY <1>1, <1>5, <1>6, OrphansKept
<1>9. /\ OneHolder'
      /\ \A k \in DOMAIN jobs' : Holding(jobs[k])' =>
            \E h \in DOMAIN jobs : /\ Holding(jobs[h]) /\ jobs[h].t = jobs'[k].t
                                   /\ h # i /\ (jobs'[k].auto => jobs[h].auto)
    <2> DEFINE gone == {i}
               new == {}
    <2>1. /\ gone \in SUBSET DOMAIN jobs /\ \A g, h \in gone : g = h
          /\ Moves(jobs', gone, new) /\ \A j \in new : Inherits(j, gone)
        BY <1>6
    <2> HIDE DEF gone, new
    <2>2. /\ OneHolder'
          /\ \A k \in DOMAIN jobs' : Holding(jobs[k])' =>
                \E h \in DOMAIN jobs :
                   /\ Holding(jobs[h]) /\ jobs[h].t = jobs'[k].t
                   /\ \/ h \notin gone /\ (jobs'[k].auto => jobs[h].auto)
                      \/ \E j \in new : Same(jobs'[k], j)
        BY <1>1, <1>4, <2>1, HoldersDescend
    <2> QED BY <2>2 DEF gone, new
<1>10. Holding(jobs[i]) /\ t \in Held /\ t \in Granted
    BY DEF Holding, Held, Granted
<1>11. Held' \subseteq Held \ {t}
    BY <1>1, <1>9, <1>10 DEF Held, OneHolder
<1>12. Granted' \subseteq Granted \ {t}
    <2> SUFFICES ASSUME NEW k \in DOMAIN jobs', jobs'[k].auto
                 PROVE  jobs'[k].t \in Granted \ {t}
        BY DEF Granted
    <2>1. Holding(jobs[k])'
        BY DEF Holding
    <2> QED BY <1>1, <1>9, <1>10, <2>1 DEF Granted, OneHolder
<1>13. Failures \subseteq Failures'
    BY <1>4, FailuresStay
<1>14. Retries' = Retries \cup {NextId} /\ NextId \notin Retries
    <2>1. \A u \in DOMAIN tasks' : u # NextId => u \in DOMAIN tasks /\ tasks'[u] = tasks[u]
        BY <1>4
    <2> QED BY <1>2, <1>4, <2>1 DEF Retries, Rows, Grown
<1>15. /\ IsFiniteSet(Failures) /\ Cardinality(Failures) \in Nat
       /\ IsFiniteSet(Held) /\ Cardinality(Held) \in Nat
       /\ IsFiniteSet(Granted) /\ Cardinality(Granted) \in Nat
       /\ IsFiniteSet(Retries) /\ Cardinality(Retries) \in Nat
    BY <1>1, FailuresFinite
<1>16. IsFiniteSet(Failures') /\ Cardinality(Failures') \in Nat
    <2>1. DOMAIN tasks' = 1..Len(tasks') /\ Len(tasks') \in Nat
        BY <1>4, LenProperties DEF Filed
    <2>2. IsFiniteSet(DOMAIN tasks') /\ Failures' \subseteq DOMAIN tasks'
        BY <2>1, FS_Interval DEF Failures, Rows
    <2> QED BY <2>2, FS_Subset, FS_CardinalityType
<1>17. Cardinality(Failures) <= Cardinality(Failures')
    BY <1>13, <1>16, FS_Subset
<1>18. /\ Cardinality(Retries') = Cardinality(Retries) + 1
       /\ Cardinality(Held \ {t}) = Cardinality(Held) - 1 /\ IsFiniteSet(Held \ {t})
       /\ Cardinality(Granted \ {t}) = Cardinality(Granted) - 1 /\ IsFiniteSet(Granted \ {t})
    BY <1>10, <1>14, <1>15, FS_AddElement, FS_RemoveElement
<1>19. /\ Cardinality(Held') <= Cardinality(Held \ {t}) /\ Cardinality(Held') \in Nat
       /\ Cardinality(Granted') <= Cardinality(Granted \ {t}) /\ Cardinality(Granted') \in Nat
    BY <1>11, <1>12, <1>18, FS_Subset, FS_CardinalityType
<1>20. /\ Cardinality(Retries') + Cardinality(Held') <= Cardinality(Failures')
       /\ Cardinality(Retries') + Cardinality(Granted') < MaxRetries
    BY <1>15, <1>16, <1>17, <1>18, <1>19, MissionAssumption DEF Loop, Tickets
<1>21. Held' \subseteq Failures'
    BY <1>1, <1>11, <1>13
<1> QED BY <1>4, <1>7, <1>8, <1>9, <1>20, <1>21 DEF Loop, Tickets

LEMMA PlannerSteps ==
    ASSUME Loop, NEW i \in DOMAIN jobs, InsertPlanner(i) \/ InsertEval(i) \/ CronInsert(i)
    PROVE  Loop'
<1>1. /\ jobs[i] \in JobSet /\ Aims(jobs[i]) /\ Filed /\ Len(tasks) \in Nat
      /\ NextId \in 0..(Len(tasks) + 1) /\ 0 \in 0..(Len(tasks) + 1)
    BY JobIsAimed, TaskIds DEF Loop, NextId
<1>2. ~At(i, "reopen") /\ UNCHANGED <<status, counted, raced>>
    BY DEF InsertPlanner, InsertEval, CronInsert, At, mission, ghosts
<1>3. CASE UNCHANGED rows /\ End(i)
    BY <1>2, <1>3, EndStep DEF rows, Counts
<1>4. CASE InsertPlanner(i)
    <2> DEFINE c == IF jobs[i].n = 0 THEN NextId ELSE jobs[i].n
    <2>1. /\ End(i) /\ jobs[i].pc = "insert"
          /\ UNCHANGED rows \/ Insert(Row("planner", 0, c, jobs[i].auto))
        BY <1>4 DEF InsertPlanner, At
    <2>2. c \in 0..(Len(tasks) + 1)
        BY <1>1, <2>1 DEF Aims, JobSet
    <2> HIDE DEF c
    <2>3. CASE UNCHANGED rows
        BY <1>3, <2>1, <2>3
    <2>4. CASE Insert(Row("planner", 0, c, jobs[i].auto))
        <3>1. jobs[i].auto = TRUE \/ jobs[i].auto = FALSE
            BY <1>1 DEF JobSet
        <3>2. CASE jobs[i].auto = TRUE
            <4>1. Insert(Row("planner", 0, c, TRUE))
                BY <2>4, <3>2, Zenon
            <4> QED BY <1>2, <2>1, <2>2, <3>2, <4>1, RetriedStep
        <3>3. CASE jobs[i].auto = FALSE
            <4>1. Insert(Row("planner", 0, c, FALSE))
                BY <2>4, <3>3, Zenon
            <4> QED BY <1>2, <2>1, <2>2, <4>1, PlannedStep
        <3> QED BY <3>1, <3>2, <3>3
    <2> QED BY <2>1, <2>3, <2>4
<1>5. CASE InsertEval(i)
    <2>1. CASE Insert(Row("eval", 0, 0, FALSE)) /\ Become(i, Job("mark", NextId))
        BY <1>1, <1>2, <2>1, PlannedStep
    <2> QED BY <1>3, <1>5, <2>1 DEF InsertEval
<1>6. CASE CronInsert(i)
    <2>1. CASE Insert([Row("planner", 0, NextId, FALSE) EXCEPT !.cron = TRUE]) /\ End(i)
        BY <1>1, <1>2, <2>1, PlannedStep
    <2>2. CASE Goto(i, "catch") /\ UNCHANGED rows
        <3>1. ~jobs[i].auto
            BY <1>1, <1>6 DEF CronInsert, At, Aims
        <3> QED BY <1>2, <2>2, <3>1, GotoStep DEF rows, Counts
    <2> QED BY <1>3, <1>6, <2>1, <2>2 DEF CronInsert
<1> QED BY <1>4, <1>5, <1>6

(* A failed planner is planned for again only when few have failed.           *)
LEMMA CountStep ==
    ASSUME Loop, NEW i \in DOMAIN jobs, CountFailures(i)
    PROVE  Loop'
<1>1. /\ jobs \in Seq(JobSet) /\ jobs[i] \in JobSet /\ Aims(jobs[i]) /\ Filed /\ Aimed
      /\ Settled /\ NoOrphanWork /\ Resolved /\ OneHolder /\ Held \subseteq Failures
      /\ jobs[i].pc = "count" /\ ~At(i, "reopen")
      /\ UNCHANGED <<tasks, status, counted, raced>>
    BY JobIsAimed DEF Loop, Tickets, CountFailures, At, mission, rows, ghosts
<1>2. CASE End(i)
    BY <1>1, <1>2, EndStep DEF Counts
<1>3. ASSUME NEW limit \in {0, 2, MaxRetries}, RetryAllowed(limit),
             Become(i, [Job("run", jobs[i].t) EXCEPT !.auto = TRUE])
      PROVE  Loop'
    <2>1. PICK j \in JobSet : /\ j = [Job("run", jobs[i].t) EXCEPT !.auto = TRUE]
                              /\ j.pc = "run" /\ j.t = jobs[i].t /\ j.n = 0 /\ j.auto = TRUE
        <3> DEFINE g == [Job("run", jobs[i].t) EXCEPT !.auto = TRUE]
        <3>1. g.pc = "run" /\ g.t = jobs[i].t /\ g.n = 0 /\ g.auto = TRUE
            BY DEF Job
        <3>2. g \in JobSet
            BY <1>1 DEF Job, JobSet, Pcs
        <3> HIDE DEF g
        <3>3. \E j \in JobSet : /\ j = g
                               /\ j.pc = "run" /\ j.t = jobs[i].t /\ j.n = 0 /\ j.auto = TRUE
            BY <3>1, <3>2
        <3> QED BY <3>3 DEF g
    <2>2. Moves(jobs', {i}, {j})
        BY <1>1, <1>3, <2>1, BecomeMoves DEF Become
    <2>3. Filed' /\ Grown /\ Manual
        BY <1>1 DEF Filed, Grown, Manual
    <2>4. OpenWork' = OpenWork /\ Failures' = Failures /\ Retries' = Retries
        BY <1>1 DEF OpenWork, Work, Rows, Open, Failures, Retries
    <2>5. Aims(j)' /\ Resolves(j)' /\ ~Finds(j)
        BY <1>1, <2>1, <2>3, LenProperties DEF Aims, Resolves, Finds, Filed
    <2>6. Inherits(j, {i})
        BY <1>1, <2>1 DEF Inherits, Holding
    <2>7. Aimed' /\ Resolved' /\ Settled'
        BY <1>1, <2>2, <2>3, <2>4, <2>5, AimedKept, ResolvedKept, SettledKept DEF Grown
    <2>8. NoOrphanWork'
        BY <1>1, <2>2, <2>4, OrphansKept DEF At
    <2>9. /\ OneHolder'
          /\ \A k \in DOMAIN jobs' : Holding(jobs[k])' =>
                \E h \in DOMAIN jobs :
                   /\ Holding(jobs[h]) /\ jobs[h].t = jobs'[k].t
                   /\ \/ h \notin {i} /\ (jobs'[k].auto => jobs[h].auto)
                      \/ \E f \in {j} : Same(jobs'[k], f)
        <3> DEFINE gone == {i}
                   new == {j}
        <3>1. /\ gone \in SUBSET DOMAIN jobs /\ \A g, h \in gone : g = h
              /\ Moves(jobs', gone, new) /\ \A f \in new : Inherits(f, gone)
            BY <2>2, <2>6
        <3> HIDE DEF gone, new
        <3>2. /\ OneHolder'
              /\ \A k \in DOMAIN jobs' : Holding(jobs[k])' =>
                    \E h \in DOMAIN jobs :
                       /\ Holding(jobs[h]) /\ jobs[h].t = jobs'[k].t
                       /\ \/ h \notin gone /\ (jobs'[k].auto => jobs[h].auto)
                          \/ \E f \in new : Same(jobs'[k], f)
            BY <1>1, <2>3, <3>1, HoldersDescend
        <3> QED BY <3>2 DEF gone, new
    <2>10. Held' \subseteq Held
        BY <2>9 DEF Held
    <2>11. Granted' \subseteq Held'
        BY DEF Granted, Held, Holding
    <2>12. /\ Cardinality(Failures) \in Nat /\ Cardinality(Retries) \in Nat
           /\ IsFiniteSet(Held) /\ Cardinality(Held) \in Nat
        BY <1>1, FailuresFinite
    <2>13. /\ Cardinality(Held') <= Cardinality(Held) /\ Cardinality(Held') \in Nat
           /\ Cardinality(Granted') <= Cardinality(Held) /\ Cardinality(Granted') \in Nat
        BY <2>10, <2>11, <2>12, FS_Subset, FS_CardinalityType
    <2>14. Cardinality(Failures) < MaxRetries
        <3>1. 0 <= MaxRetries /\ 2 <= MaxRetries /\ MaxRetries \in Nat
            BY MissionAssumption
        <3>2. limit \in Nat /\ limit <= MaxRetries
            BY <3>1
        <3>3. Cardinality(Failures) < limit
            BY <1>3 DEF RetryAllowed
        <3> QED BY <2>12, <3>1, <3>2, <3>3
    <2>15. /\ Cardinality(Retries') + Cardinality(Held') <= Cardinality(Failures')
           /\ Cardinality(Retries') + Cardinality(Granted') < MaxRetries
        BY <2>4, <2>12, <2>13, <2>14, MissionAssumption DEF Loop, Tickets
    <2>16. Held' \subseteq Failures'
        BY <1>1, <2>4, <2>10
    <2> QED BY <2>3, <2>7, <2>8, <2>9, <2>15, <2>16 DEF Loop, Tickets
<1> QED BY <1>2, <1>3 DEF CountFailures

----------------------------------------------------------------------------
(* The requests and the reports.                                              *)
LEMMA Rewritten ==
    ASSUME Filed, NEW t \in DOMAIN tasks, NEW r \in Task,
           r.kind = tasks[t].kind, r.parent = tasks[t].parent,
           r.chain = tasks[t].chain, r.auto = tasks[t].auto,
           r.kind \in Planning => Open(tasks[t]),
           tasks' = [tasks EXCEPT ![t] = r]
    PROVE  /\ Filed' /\ Grown /\ Manual
           /\ DOMAIN tasks' = DOMAIN tasks /\ tasks'[t] = r
           /\ \A u \in DOMAIN tasks \ {t} : tasks'[u] = tasks[u]
           /\ Retries' = Retries
           /\ ~Open(r) => OpenWork' \subseteq OpenWork
<1>1. /\ DOMAIN tasks' = DOMAIN tasks /\ tasks'[t] = r
      /\ \A u \in DOMAIN tasks \ {t} : tasks'[u] = tasks[u]
    OBVIOUS
<1>2. tasks' \in Seq(Task) /\ Len(tasks') = Len(tasks)
    BY ExceptSeq DEF Filed
<1>3. Lineage(tasks)'
    BY <1>1, <1>2 DEF Filed, Lineage
<1>4. Filed'
    BY <1>2, <1>3 DEF Filed
<1>5. Grown /\ Manual
    BY <1>1 DEF Grown, Manual
<1>6. Retries' = Retries
    BY <1>5, RetriesStay
<1>7. ASSUME ~Open(r)
      PROVE  OpenWork' \subseteq OpenWork
    BY <1>1, <1>7 DEF OpenWork, Work, Rows, Open
<1> QED BY <1>1, <1>4, <1>5, <1>6, <1>7

(* A task ends: it was no failed planner.                                     *)
LEMMA EndedStep ==
    ASSUME Loop, NEW t \in DOMAIN tasks, Open(tasks[t]), NEW r \in Task,
           r.kind = tasks[t].kind, r.parent = tasks[t].parent,
           r.chain = tasks[t].chain, r.auto = tasks[t].auto,
           ~Open(r), ~(r.kind \in Planning /\ r.status = "failed"),
           tasks' = [tasks EXCEPT ![t] = r],
           Start(<<Job("resolve", t)>>), UNCHANGED <<status, counted, raced>>
    PROVE  Loop'
<1>1. /\ jobs \in Seq(JobSet) /\ Filed /\ t \in Nat /\ "resolve" \in Pcs
      /\ \A h \in DOMAIN jobs : TRUE
    BY TaskIds DEF Loop, Aimed, Pcs
<1>2. /\ Filed' /\ Grown /\ Manual /\ DOMAIN tasks' = DOMAIN tasks /\ tasks'[t] = r
      /\ OpenWork' \subseteq OpenWork
    BY <1>1, Rewritten
<1>3. PICK j \in JobSet : /\ j = Job("resolve", t)
                          /\ j.pc = "resolve" /\ j.t = t /\ j.n = 0 /\ j.auto = FALSE
    BY <1>1, JobTyped
<1>4. Moves(jobs', {}, {j})
    BY <1>1, <1>3, StartMoves DEF Start
<1>5. Follows(j, {})
    <2>1. Aims(j)' /\ ~Finds(j) /\ Takes(j, {})
        BY <1>2, <1>3 DEF Aims, Finds, Takes
    <2>2. Resolves(j)' /\ ~Holding(j)'
        BY <1>2, <1>3 DEF Resolves, Holding, Failed, Open
    <2> QED BY <2>1, <2>2 DEF Follows, Inherits
<1>6. Accounts({})
    BY <1>2 DEF Accounts
<1> QED BY <1>2, <1>4, <1>5, <1>6, LoopKept

(* A planner fails: the job that resolves it holds a new ticket.              *)
LEMMA FailedStep ==
    ASSUME Loop, NEW t \in DOMAIN tasks, Open(tasks[t]), NEW r \in Task,
           r.kind = tasks[t].kind, r.parent = tasks[t].parent,
           r.chain = tasks[t].chain, r.auto = tasks[t].auto,
           r.kind \in Planning, r.status = "failed",
           tasks' = [tasks EXCEPT ![t] = r],
           Start(<<Job("resolve", t)>>), UNCHANGED <<status, counted, raced>>
    PROVE  Loop'
<1>1. /\ jobs \in Seq(JobSet) /\ Filed /\ Aimed /\ Settled /\ NoOrphanWork
      /\ Resolved /\ OneHolder /\ Held \subseteq Failures
      /\ t \in Nat /\ "resolve" \in Pcs
    BY TaskIds DEF Loop, Tickets, Aimed, Pcs
<1>2. /\ Filed' /\ Grown /\ Manual /\ DOMAIN tasks' = DOMAIN tasks /\ tasks'[t] = r
      /\ \A u \in DOMAIN tasks \ {t} : tasks'[u] = tasks[u]
      /\ OpenWork' \subseteq OpenWork /\ Retries' = Retries
    <2>1. ~Open(r)
        BY DEF Open
    <2> QED BY <1>1, <2>1, Rewritten
<1>3. PICK j \in JobSet : /\ j = Job("resolve", t)
                          /\ j.pc = "resolve" /\ j.t = t /\ j.n = 0 /\ j.auto = FALSE
    <2>1. t \in Nat /\ "resolve" \in Pcs
        BY <1>1
    <2> DEFINE g == Job("resolve", t)
    <2>2. g \in JobSet /\ g.pc = "resolve" /\ g.t = t /\ g.n = 0 /\ g.auto = FALSE
        BY <2>1, JobTyped
    <2> HIDE DEF g
    <2>3. \E j \in JobSet : /\ j = g /\ j.pc = "resolve" /\ j.t = t
                           /\ j.n = 0 /\ j.auto = FALSE
        BY <2>2
    <2> QED BY <2>3 DEF g
<1>4. Moves(jobs', {}, {j})
    BY <1>1, <1>3, StartMoves DEF Start
<1>5. Aims(j)' /\ Resolves(j)' /\ ~Finds(j)
    BY <1>2, <1>3 DEF Aims, Finds, Resolves, Open
<1>6. Aimed' /\ Resolved' /\ Settled'
    BY <1>1, <1>2, <1>4, <1>5, AimedKept, ResolvedKept, SettledKept
<1>7. NoOrphanWork'
    BY <1>1, <1>2, <1>4, OrphansKept
<1>8. PICK old \in [DOMAIN jobs' -> 0..Len(jobs)] : Descends(jobs', {}, {j}, old)
    BY <1>4 DEF Moves
<1>9. Failures' = Failures \cup {t} /\ t \notin Failures
    <2>1. t \notin Failures
        BY DEF Failures, Rows, Open
    <2>2. \A u \in DOMAIN tasks : u \in Failures' <=> u \in Failures \/ u = t
        BY <1>2 DEF Failures, Rows
    <2> QED BY <1>2, <2>1, <2>2 DEF Failures, Rows
<1>10. ASSUME NEW k \in DOMAIN jobs', old[k] # 0
       PROVE  /\ old[k] \in DOMAIN jobs /\ jobs[old[k]].t = jobs'[k].t
              /\ jobs'[k].auto => jobs[old[k]].auto
              /\ Holding(jobs[k])' => Holding(jobs[old[k]]) /\ jobs'[k].t \in Held
    <2> DEFINE h == old[k]
    <2>1. h \in DOMAIN jobs /\ Same(jobs'[k], jobs[h])
        BY <1>8, <1>10 DEF Descends
    <2>2. Aims(jobs[h])
        BY <1>1, <2>1 DEF Aimed
    <2>3. ASSUME jobs'[k].pc \in {"resolve", "aggregate"}, Failed(jobs[k].t)'
          PROVE  Holding(jobs[h])
        <3>1. jobs[h].t \in DOMAIN tasks /\ jobs[h].pc \in {"resolve", "aggregate"}
            BY <2>1, <2>2, <2>3 DEF Aims, Same
        <3>2. tasks[jobs[h].t].kind \in Planning
            BY <1>2, <2>1, <2>3, <3>1 DEF Grown, Failed, Same
        <3>3. jobs[h].t # t
            BY <1>1, <2>1, <3>1, <3>2 DEF Resolved
        <3> QED BY <1>2, <2>1, <2>3, <3>1, <3>3 DEF Holding, Failed, Same
    <2>4. Holding(jobs[k])' => Holding(jobs[h])
        BY <2>1, <2>3 DEF Holding, Same
    <2>5. Holding(jobs[h]) => jobs'[k].t \in Held
        BY <2>1 DEF Held, Same
    <2> QED BY <2>1, <2>4, <2>5 DEF Same
<1>11. ASSUME NEW k \in DOMAIN jobs', old[k] = 0
       PROVE  jobs'[k].t = t /\ jobs'[k].auto = FALSE
    BY <1>3, <1>8, <1>11 DEF Descends, Same
<1>12. OneHolder'
    <2> SUFFICES ASSUME NEW k \in DOMAIN jobs', NEW m \in DOMAIN jobs', k # m,
                        Holding(jobs[k])', Holding(jobs[m])'
                 PROVE  jobs'[k].t # jobs'[m].t
        BY DEF OneHolder
    <2>1. Ticketed(jobs'[k]) /\ Ticketed(jobs'[m])
        BY DEF Holding, Ticketed
    <2>2. old[k] # old[m]
        BY <1>8, <2>1 DEF Descends
    <2>3. CASE old[k] # 0 /\ old[m] # 0
        BY <1>1, <1>10, <2>2, <2>3 DEF OneHolder
    <2>4. CASE old[k] = 0
        <3>1. jobs'[k].t = t /\ jobs'[m].t \in Held
            BY <1>10, <1>11, <2>2, <2>4
        <3> QED BY <1>1, <1>9, <3>1
    <2>5. CASE old[m] = 0
        <3>1. jobs'[m].t = t /\ jobs'[k].t \in Held
            BY <1>10, <1>11, <2>2, <2>5
        <3> QED BY <1>1, <1>9, <3>1
    <2> QED BY <2>3, <2>4, <2>5
<1>13. Held' \subseteq Held \cup {t}
    BY <1>10, <1>11 DEF Held
<1>14. Granted' \subseteq Granted
    <2> SUFFICES ASSUME NEW k \in DOMAIN jobs', jobs'[k].auto
                 PROVE  jobs'[k].t \in Granted
        BY DEF Granted
    <2>1. old[k] # 0
        BY <1>11
    <2>2. /\ old[k] \in DOMAIN jobs /\ jobs[old[k]].t = jobs'[k].t
          /\ jobs[old[k]].auto
        BY <1>10, <2>1
    <2> QED BY <2>2 DEF Granted
<1>15. /\ IsFiniteSet(Failures) /\ Cardinality(Failures) \in Nat
       /\ IsFiniteSet(Held) /\ Cardinality(Held) \in Nat
       /\ IsFiniteSet(Granted) /\ Cardinality(Granted) \in Nat
       /\ Cardinality(Retries) \in Nat
    BY <1>1, FailuresFinite
<1>16. /\ t \notin Held /\ IsFiniteSet(Held \cup {t})
       /\ Cardinality(Held \cup {t}) = Cardinality(Held) + 1
       /\ Cardinality(Failures') = Cardinality(Failures) + 1
    BY <1>1, <1>9, <1>15, FS_AddElement
<1>17. /\ Cardinality(Held') <= Cardinality(Held) + 1 /\ Cardinality(Held') \in Nat
       /\ Cardinality(Granted') <= Cardinality(Granted) /\ Cardinality(Granted') \in Nat
    BY <1>13, <1>14, <1>15, <1>16, FS_Subset, FS_CardinalityType
<1>18. /\ Cardinality(Retries') + Cardinality(Held') <= Cardinality(Failures')
       /\ Cardinality(Retries') + Cardinality(Granted') < MaxRetries
    BY <1>2, <1>15, <1>16, <1>17, MissionAssumption DEF Loop, Tickets
<1>19. Held' \subseteq Failures'
    BY <1>1, <1>9, <1>13
<1> QED BY <1>2, <1>6, <1>7, <1>12, <1>18, <1>19 DEF Loop, Tickets

(* What a task says of itself stays, but for its status and its result.       *)
Keeps(r, t) ==
    /\ r.kind = tasks[t].kind /\ r.parent = tasks[t].parent
    /\ r.chain = tasks[t].chain /\ r.auto = tasks[t].auto

LEMMA Restated ==
    ASSUME Filed, NEW t \in DOMAIN tasks, NEW st \in {"open"} \cup Terminal,
           tasks' = [tasks EXCEPT ![t].status = st]
    PROVE  \E r \in Task : /\ Keeps(r, t) /\ r.status = st
                           /\ tasks' = [tasks EXCEPT ![t] = r]
<1> DEFINE o == tasks[t]
           r == [o EXCEPT !.status = st]
<1>1. o \in Task
    BY TaskIds
<1>2. r \in Task /\ Keeps(r, t) /\ r.status = st
    BY <1>1 DEF Task, Keeps
<1>3. tasks' = [tasks EXCEPT ![t] = r]
    OBVIOUS
<1> HIDE DEF r
<1> QED BY <1>2, <1>3

LEMMA Answered ==
    ASSUME Filed, NEW t \in DOMAIN tasks, NEW st \in {"open"} \cup Terminal,
           NEW res \in {"none"} \cup UNION {Results(k) : k \in Kinds},
           NEW f, f = [tasks EXCEPT ![t].status = st],
           tasks' = [f EXCEPT ![t].result = res]
    PROVE  \E r \in Task : /\ Keeps(r, t) /\ r.status = st
                           /\ tasks' = [tasks EXCEPT ![t] = r]
<1> DEFINE o == tasks[t]
           m == [o EXCEPT !.status = st]
           r == [m EXCEPT !.result = res]
<1>1. o \in Task
    BY TaskIds
<1>2. m \in Task /\ Keeps(m, t) /\ m.status = st
    BY <1>1 DEF Task, Keeps
<1>3. f[t] = m /\ DOMAIN f = DOMAIN tasks /\ \A u \in DOMAIN tasks \ {t} : f[u] = tasks[u]
    OBVIOUS
<1> HIDE DEF m
<1>4. r \in Task /\ Keeps(r, t) /\ r.status = st
    BY <1>2 DEF Task, Keeps
<1>5. tasks' = [f EXCEPT ![t] = r]
    BY <1>3
<1> HIDE DEF r
<1>6. [f EXCEPT ![t] = r] = [tasks EXCEPT ![t] = r]
    OBVIOUS
<1> QED BY <1>4, <1>5, <1>6

LEMMA ReportStep ==
    ASSUME Loop, NEW t \in DOMAIN tasks, Report(t)
    PROVE  Loop'
<1>0. /\ Open(tasks[t]) /\ Start(<<Job("resolve", t)>>)
      /\ UNCHANGED mission /\ UNCHANGED ghosts
    BY Zenon DEF Report
<1>1. /\ Filed /\ Open(tasks[t]) /\ tasks[t] \in Task /\ tasks[t].kind \in Kinds
      /\ Start(<<Job("resolve", t)>>) /\ UNCHANGED <<status, counted, raced>>
    BY <1>0, TaskIds DEF Loop, Task, mission, ghosts
<1>2. ASSUME NEW res \in Results(tasks[t].kind),
             tasks' = [[tasks EXCEPT ![t].status = "completed"] EXCEPT ![t].result = res]
      PROVE  Loop'
    <2>1. res \in {"none"} \cup UNION {Results(k) : k \in Kinds}
        BY <1>1
    <2>2. PICK r \in Task :
              /\ Keeps(r, t) /\ r.status = "completed" /\ tasks' = [tasks EXCEPT ![t] = r]
        <3>1. PICK f : f = [tasks EXCEPT ![t].status = "completed"]
            OBVIOUS
        <3>2. tasks' = [f EXCEPT ![t].result = res]
            BY <1>2, <3>1, Zenon
        <3>3. "completed" \in {"open"} \cup Terminal
            BY DEF Terminal
        <3> QED BY <1>1, <2>1, <3>1, <3>2, <3>3, Answered
    <2>3. ~Open(r) /\ r.status # "failed"
        BY <2>2 DEF Open
    <2> QED BY <1>1, <2>2, <2>3, EndedStep DEF Keeps
<1>3. ASSUME tasks' = [tasks EXCEPT ![t].status = "failed"]
      PROVE  Loop'
    <2>1. "failed" \in {"open"} \cup Terminal
        BY DEF Terminal
    <2>2. PICK r \in Task :
              /\ Keeps(r, t) /\ r.status = "failed" /\ tasks' = [tasks EXCEPT ![t] = r]
        BY <1>1, <1>3, <2>1, Restated
    <2>3. ~Open(r)
        BY <2>2 DEF Open
    <2>4. CASE r.kind \in Planning
        BY <1>1, <2>2, <2>4, FailedStep DEF Keeps
    <2>5. CASE r.kind \notin Planning
        BY <1>1, <2>2, <2>3, <2>5, EndedStep DEF Keeps
    <2> QED BY <2>4, <2>5
<1> QED BY <1>2, <1>3, Zenon DEF Report

(* Work that is added, or taken up again, is about to reopen the mission.     *)
LEMMA AddedStep ==
    ASSUME Loop, Filed', Grown, Manual, NEW t \in Nat, Start(<<Job("reopen", t)>>),
           UNCHANGED <<status, counted>>, raced' = (raced \/ Completing)
    PROVE  Loop'
<1>1. /\ jobs \in Seq(JobSet) /\ "reopen" \in Pcs
    BY DEF Loop, Aimed, Pcs
<1>2. PICK j \in JobSet : /\ j = Job("reopen", t)
                          /\ j.pc = "reopen" /\ j.t = t /\ j.n = 0 /\ j.auto = FALSE
    BY <1>1, JobTyped
<1>3. Moves(jobs', {}, {j})
    BY <1>1, <1>2, StartMoves DEF Start
<1>4. Follows(j, {})
    BY <1>2, FollowsPlain DEF Aims, Ticketed, Finds
<1>5. \E k \in DOMAIN jobs' : jobs'[k].pc = "reopen"
    <2>1. /\ <<j>> \in Seq(JobSet) /\ Len(<<j>>) = 1 /\ <<j>>[1] = j
          /\ Len(jobs) \in Nat
        BY <1>1, LenProperties
    <2>2. /\ jobs' \in Seq(JobSet) /\ Len(jobs') = Len(jobs) + 1
          /\ jobs'[Len(jobs) + 1] = <<j>>[1]
        BY <1>1, <1>2, <2>1, ConcatProperties DEF Start
    <2> QED BY <1>2, <2>1, <2>2
<1>6. Accounts({})
    BY <1>5 DEF Accounts
<1> QED BY <1>3, <1>4, <1>6, LoopKept

LEMMA CancelStep ==
    ASSUME Loop, NEW t \in DOMAIN tasks, Cancel(t)
    PROVE  Loop'
<1>1. /\ Filed /\ tasks[t] \in Task /\ tasks[t].kind = "work" /\ t \in Nat
      /\ UNCHANGED <<status, counted>>
    BY TaskIds DEF Loop, Cancel, Task, mission
<1>2. ASSUME Open(tasks[t]), tasks' = [tasks EXCEPT ![t].status = "cancelled"],
             Start(<<Job("resolve", t)>>), UNCHANGED raced
      PROVE  Loop'
    <2>1. PICK r \in Task :
              /\ Keeps(r, t) /\ r.status = "cancelled" /\ tasks' = [tasks EXCEPT ![t] = r]
        BY <1>1, <1>2, Restated DEF Terminal
    <2>2. ~Open(r) /\ r.status # "failed"
        BY <2>1 DEF Open
    <2> QED BY <1>1, <1>2, <2>1, <2>2, EndedStep DEF Keeps
<1>3. ASSUME tasks' = [tasks EXCEPT ![t].status = "open"],
             Start(<<Job("reopen", t)>>), raced' = (raced \/ Completing)
      PROVE  Loop'
    <2>1. PICK r \in Task :
              /\ Keeps(r, t) /\ r.status = "open" /\ tasks' = [tasks EXCEPT ![t] = r]
        BY <1>1, <1>3, Restated DEF Terminal
    <2>2. Filed' /\ Grown /\ Manual
        BY <1>1, <2>1, Rewritten DEF Planning, Keeps
    <2> QED BY <1>1, <1>3, <2>2, AddedStep
<1> QED BY <1>2, <1>3 DEF Cancel

LEMMA FileStep ==
    ASSUME Loop, File
    PROVE  Loop'
<1> DEFINE r == Row("work", 0, NextId, FALSE)
<1>1. Filed /\ Len(tasks) \in Nat /\ NextId \in Nat /\ NextId = Len(tasks) + 1
    BY TaskIds DEF Loop, NextId
<1>2. /\ r \in Task /\ Open(r) /\ r.auto = FALSE /\ r.parent = 0 /\ r.chain = NextId
    BY <1>1 DEF Row, Task, Open, Kinds
<1>3. Insert(r)
    BY DEF File
<1> HIDE DEF r
<1>4. Filed' /\ Grown /\ Manual
    BY <1>1, <1>2, <1>3, Inserted
<1> QED BY <1>1, <1>4, AddedStep DEF File, mission

LEMMA PatchStep ==
    ASSUME Loop, NEW s, PatchMission(s)
    PROVE  Loop'
<1>1. /\ s \in {"active", "paused", "completed", "archived"} /\ Start(<<Job(s, 0)>>)
      /\ UNCHANGED <<tasks, status, counted, raced>>
    BY DEF PatchMission, mission, rows, ghosts
<1>2. Aims(Job(s, 0)) /\ ~Ticketed(Job(s, 0)) /\ ~Finds(Job(s, 0))
    BY <1>1, PlainJob DEF Pcs, Statuses
<1> QED BY <1>1, <1>2, QuietStart

LEMMA CronStartStep ==
    ASSUME Loop, Fields, CronStart
    PROVE  Loop'
<1>1. /\ Start(<<Job("due", sched.failures)>>)
      /\ UNCHANGED <<tasks, status, counted, raced>>
    BY DEF CronStart, mission, rows, ghosts
<1>2. sched.failures \in Nat
    BY DEF Fields, Schedules
<1>3. PICK f \in Nat : f = sched.failures
    BY <1>2
<1>4. Aims(Job("due", f)) /\ ~Ticketed(Job("due", f)) /\ ~Finds(Job("due", f))
    BY PlainJob DEF Pcs
<1> QED BY <1>1, <1>3, <1>4, QuietStart

(* The steps without a job.                                                   *)
LEMMA IdleStep ==
    ASSUME Loop, UNCHANGED <<tasks, jobs, counted, raced>>,
           status' = status \/ status' # "completed"
    PROVE  Loop'
<1>1. Filed' /\ Aimed'
    BY DEF Loop, Filed, Aimed, Aims
<1>2. OpenWork' = OpenWork /\ Failures' = Failures /\ Retries' = Retries
      /\ Held' = Held /\ Granted' = Granted
    BY DEF OpenWork, Work, Rows, Open, Failures, Retries, Held, Granted, Holding, Failed
<1>3. Resolved' /\ OneHolder'
    BY DEF Loop, Tickets, Resolved, OneHolder, Open, Holding, Failed
<1>4. Tickets'
    BY <1>2, <1>3 DEF Loop, Tickets
<1>5. Settled' /\ NoOrphanWork'
    BY <1>2 DEF Loop, Settled, NoOrphanWork, At
<1> QED BY <1>1, <1>4, <1>5 DEF Loop

----------------------------------------------------------------------------
(* The types of the other variables.                                          *)
LEMMA Longer ==
    ASSUME Filed, Filed',
           \/ UNCHANGED tasks \/ \E r : Insert(r)
           \/ \E t \in DOMAIN tasks : Report(t) \/ Cancel(t)
    PROVE  Len(tasks) <= Len(tasks') /\ Len(tasks) \in Nat /\ Len(tasks') \in Nat
<1>1. /\ Len(tasks) \in Nat /\ DOMAIN tasks = 1..Len(tasks)
      /\ Len(tasks') \in Nat /\ DOMAIN tasks' = 1..Len(tasks')
    BY LenProperties DEF Filed
<1>2. CASE UNCHANGED tasks
    BY <1>1, <1>2
<1>3. ASSUME NEW r, Insert(r)
      PROVE  Len(tasks) <= Len(tasks')
    <2>1. tasks' = Append(tasks, r)
        BY <1>3 DEF Insert
    <2>2. DOMAIN tasks \subseteq DOMAIN tasks'
        BY <2>1 DEF Filed
    <2> QED BY <1>1, <2>2
<1>4. ASSUME NEW t \in DOMAIN tasks, Report(t) \/ Cancel(t)
      PROVE  Len(tasks) <= Len(tasks')
    <2>1. ASSUME NEW st, tasks' = [tasks EXCEPT ![t].status = st]
          PROVE  DOMAIN tasks' = DOMAIN tasks
        BY <2>1
    <2>2. ASSUME NEW st, NEW res,
                 tasks' = [[tasks EXCEPT ![t].status = st] EXCEPT ![t].result = res]
          PROVE  DOMAIN tasks' = DOMAIN tasks
        BY <2>2, Zenon
    <2>3. DOMAIN tasks' = DOMAIN tasks
        BY <1>4, <2>1, <2>2, Zenon DEF Report, Cancel
    <2> QED BY <1>1, <2>3
<1> QED BY <1>1, <1>2, <1>3, <1>4

LEMMA FieldsKept ==
    ASSUME Fields, requests' = requests, status' \in Statuses, fresh' \in BOOLEAN,
           UNCHANGED lastEval \/ lastEval' \in DOMAIN tasks,
           Filed, Filed',
           \/ UNCHANGED tasks \/ \E r : Insert(r)
           \/ \E t \in DOMAIN tasks : Report(t) \/ Cancel(t),
           sched' \in Schedules,
           UNCHANGED room \/ \E r : Insert(r),
           counted' \in BOOLEAN, raced' \in BOOLEAN
    PROVE  Fields'
<1>1. Len(tasks) <= Len(tasks') /\ Len(tasks) \in Nat /\ Len(tasks') \in Nat
    BY Longer
<1>2. lastEval' \in 0..Len(tasks')
    BY <1>1, TaskIds DEF Fields
<1>3. room' \in Nat
    BY DEF Fields, Insert
<1>4. requests' \in Clients
    BY DEF Fields
<1> QED BY <1>2, <1>3, <1>4 DEF Fields

(* The schedule's row, and the columns and counters a step writes.            *)
LEMMA ScheduleTyped ==
    ASSUME Fields, NEW e \in BOOLEAN, NEW n \in BOOLEAN, NEW f \in Nat
    PROVE  /\ Schedule(e, n, f) \in Schedules
           /\ [sched EXCEPT !.enabled = n] \in Schedules
           /\ [sched EXCEPT !.failures = f] \in Schedules
BY DEF Fields, Schedule, Schedules

LEMMA JobFields ==
    ASSUME Fields, Loop, Filed', NEW i \in DOMAIN jobs, JobStep(i)
    PROVE  Fields'
<1>1. /\ jobs[i] \in JobSet /\ Aims(jobs[i]) /\ Filed
      /\ requests \in Clients /\ status \in Statuses /\ fresh \in BOOLEAN
      /\ sched \in Schedules /\ counted \in BOOLEAN /\ raced \in BOOLEAN
    BY JobIsAimed DEF Fields, Loop
<1>2. Completing \in BOOLEAN
    BY DEF Completing
<1>3. CASE WriteMission(i) \/ Reopen(i) \/ Finish(i) \/ MarkEval(i)
    <2>1. /\ requests' = requests /\ status' \in Statuses /\ fresh' \in BOOLEAN
          /\ UNCHANGED lastEval \/ lastEval' \in DOMAIN tasks
          /\ UNCHANGED <<tasks, room, sched>>
        BY <1>1, <1>3
        DEF WriteMission, Reopen, Finish, MarkEval, Aims, At, rows, mission, Statuses
    <2>2. counted' \in BOOLEAN
        BY <1>1, <1>3 DEF WriteMission, Reopen, Finish, MarkEval, ghosts
    <2>3. raced' \in BOOLEAN
        BY <1>1, <1>2, <1>3 DEF WriteMission, Reopen, Finish, MarkEval, ghosts
    <2> QED BY <1>1, <2>1, <2>2, <2>3, FieldsKept
<1>4. CASE Enable(i) \/ Disable(i)
    <2>1. UNCHANGED <<requests, status, fresh, lastEval, tasks, room, counted, raced>>
        BY <1>4 DEF Enable, Disable, SetEnabled, mission, rows, ghosts
    <2>2. PICK b \in BOOLEAN : sched' = [sched EXCEPT !.enabled = b]
        <3>1. sched.exists \in BOOLEAN
            BY <1>1 DEF Schedules
        <3> QED BY <1>4, <3>1 DEF Enable, Disable, SetEnabled
    <2>3. sched' \in Schedules
        BY <1>1, <2>2 DEF Schedules
    <2> QED BY <1>1, <2>1, <2>3, FieldsKept
<1>5. CASE TakeSlot(i) \/ Linked(i) \/ CronCatch(i)
    <2>1. UNCHANGED <<requests, status, fresh, lastEval, tasks, room, counted, raced>>
        BY <1>5 DEF TakeSlot, Linked, CronCatch, mission, rows, ghosts
    <2>2. sched' \in Schedules
        <3>1. CASE sched' = [sched EXCEPT !.failures = 0]
            BY <1>1, <3>1 DEF Schedules
        <3>2. CASE sched' = [sched EXCEPT !.enabled = FALSE]
            BY <1>1, <3>2 DEF Schedules
        <3>3. ASSUME CronCatch(i)
              PROVE  sched' \in Schedules
            <4>1. PICK f \in Nat : f = jobs[i].t + 1
                BY <1>1 DEF JobSet
            <4>2. PICK b \in BOOLEAN :
                      b = (sched.exists /\ ~(PauseAfter > 0 /\ f >= PauseAfter))
                OBVIOUS
            <4>3. sched' = Schedule(sched.exists, b, f)
                BY <3>3, <4>1, <4>2 DEF CronCatch, Schedule
            <4> QED BY <1>1, <4>3 DEF Schedules, Schedule
        <3> QED BY <1>1, <1>5, <3>1, <3>2, <3>3 DEF TakeSlot, Linked
    <2> QED BY <1>1, <2>1, <2>2, FieldsKept
<1>6. CASE \/ Resolve(i) \/ Approve(i) \/ Decide(i) \/ CountFailures(i) \/ Evaluate(i)
           \/ Verdict(i) \/ CountSlots(i) \/ Defer(i)
    <2>1. UNCHANGED <<requests, status, fresh, lastEval, tasks, room, sched, counted, raced>>
        BY <1>6 DEF Resolve, Approve, Decide, CountFailures, Evaluate, Verdict,
                    CountSlots, Defer, mission, rows, ghosts
    <2> QED BY <1>1, <2>1, FieldsKept
<1>7. CASE Debounce(i) \/ Run(i)
    <2>1. /\ UNCHANGED <<requests, lastEval, tasks, room, sched, counted, raced>>
          /\ status' \in Statuses
        BY <1>1, <1>7 DEF Debounce, Run, rows, ghosts, Statuses
    <2>2. fresh' \in BOOLEAN
        BY <1>1, <1>7 DEF Debounce, Run
    <2> QED BY <1>1, <2>1, <2>2, FieldsKept
<1>8. CASE InsertAggregation(i) \/ InsertPlanner(i) \/ InsertEval(i) \/ CronInsert(i)
    <2>1. UNCHANGED <<requests, status, fresh, lastEval, sched, counted, raced>>
        BY <1>8 DEF InsertAggregation, InsertPlanner, InsertEval, CronInsert, mission, ghosts
    <2>2. UNCHANGED <<tasks, room>> \/ \E r : Insert(r)
        BY <1>8, Zenon DEF InsertAggregation, InsertPlanner, InsertEval, CronInsert, rows
    <2> QED BY <1>1, <2>1, <2>2, FieldsKept
<1>9. CASE InsertChild(i)
    <2>1. UNCHANGED <<requests, status, fresh, lastEval, sched, counted>>
        BY <1>9 DEF InsertChild, mission
    <2>2. UNCHANGED <<tasks, room>> \/ \E r : Insert(r)
        BY <1>9, Zenon DEF InsertChild, rows
    <2>3. raced' \in BOOLEAN
        BY <1>1, <1>2, <1>9 DEF InsertChild
    <2> QED BY <1>1, <2>1, <2>2, <2>3, FieldsKept
<1> QED BY <1>3, <1>4, <1>5, <1>6, <1>7, <1>8, <1>9 DEF JobStep

LEMMA OtherFields ==
    ASSUME Fields, Loop, Filed',
           \/ \E t \in DOMAIN tasks : Report(t) \/ Cancel(t)
           \/ File \/ RaiseBudget \/ CronStart \/ Tick
           \/ \E s \in Statuses : PatchMission(s)
    PROVE  Fields'
<1>1. /\ Filed /\ requests \in Clients /\ status \in Statuses /\ fresh \in BOOLEAN
      /\ sched \in Schedules /\ counted \in BOOLEAN /\ raced \in BOOLEAN
    BY DEF Fields, Loop
<1>2. Completing \in BOOLEAN
    BY DEF Completing
<1>3. ASSUME NEW t \in DOMAIN tasks, Report(t) \/ Cancel(t)
      PROVE  Fields'
    <2>1. UNCHANGED mission /\ UNCHANGED <<sched, room, counted>>
        BY <1>3, Zenon DEF Report, Cancel, ghosts
    <2>2. raced' = raced \/ raced' = (raced \/ Completing)
        BY <1>3, Zenon DEF Report, Cancel, ghosts
    <2>3. raced' \in BOOLEAN
        BY <1>1, <1>2, <2>2
    <2> QED BY <1>1, <1>3, <2>1, <2>3, FieldsKept DEF mission
<1>4. CASE File
    <2>1. UNCHANGED mission /\ UNCHANGED <<sched, counted>>
        BY <1>4 DEF File
    <2>2. \E r : Insert(r)
        BY <1>4, Zenon DEF File
    <2>3. raced' \in BOOLEAN
        BY <1>1, <1>2, <1>4 DEF File
    <2> QED BY <1>1, <2>1, <2>2, <2>3, FieldsKept DEF mission
<1>5. CASE RaiseBudget \/ CronStart \/ Tick
    <2>1. /\ UNCHANGED <<requests, lastEval, tasks, room, sched, counted, raced>>
          /\ status' \in Statuses /\ fresh' \in BOOLEAN
        BY <1>1, <1>5 DEF RaiseBudget, CronStart, Tick, mission, rows, ghosts, Statuses
    <2> QED BY <1>1, <2>1, FieldsKept
<1>6. ASSUME NEW s \in Statuses, PatchMission(s)
      PROVE  Fields'
    <2>1. UNCHANGED mission /\ UNCHANGED <<tasks, room, counted, raced>>
        BY <1>6 DEF PatchMission, rows, ghosts
    <2>2. PICK e \in BOOLEAN : e = (sched.exists /\ s \in {"active", "paused"})
        OBVIOUS
    <2>3. PICK n \in BOOLEAN : n = (sched.exists /\ s = "active")
        OBVIOUS
    <2>4. sched' = Schedule(e, n, sched.failures)
        BY <1>6, <2>2, <2>3 DEF PatchMission, Schedule
    <2>5. sched' \in Schedules
        BY <1>1, <2>4 DEF Schedules, Schedule
    <2> QED BY <1>1, <2>1, <2>5, FieldsKept DEF mission
<1> QED BY <1>3, <1>4, <1>5, <1>6

----------------------------------------------------------------------------
LEMMA Initially ==
    ASSUME Init
    PROVE  IInv
<1>1. PICK s \in Starts : tasks = s.tasks /\ room = s.room
    BY DEF Init
<1>2. /\ Filed /\ room \in Nat /\ \A t \in DOMAIN tasks : ~tasks[t].auto
      /\ MaxRetries \in Nat /\ 0 < MaxRetries
    BY <1>1, MissionAssumption DEF Filed
<1>3. jobs = <<>> /\ DOMAIN jobs = {} /\ jobs \in Seq(JobSet)
    BY DEF Init
<1>4. Len(tasks) \in Nat
    BY <1>2, TaskIds
<1>5. Fields
    <2>1. ("heartbeat" \in requests) \in BOOLEAN
        OBVIOUS
    <2>2. sched \in Schedules
        BY <2>1 DEF Init, Schedules
    <2>3. counted \in BOOLEAN /\ raced \in BOOLEAN /\ fresh \in BOOLEAN
        BY DEF Init
    <2>4. requests \in Clients /\ status \in Statuses /\ lastEval \in 0..Len(tasks)
        BY <1>4 DEF Init, Statuses
    <2> QED BY <1>2, <2>2, <2>3, <2>4 DEF Fields
<1>6. Aimed /\ Settled /\ NoOrphanWork /\ Resolved /\ OneHolder
    BY <1>3 DEF Init, Aimed, Settled, NoOrphanWork, Resolved, OneHolder
<1>7. Held = {} /\ Granted = {} /\ Retries = {}
    BY <1>2, <1>3 DEF Held, Granted, Retries, Rows
<1>8. /\ Cardinality({}) = 0 /\ Cardinality(Failures) \in Nat
    BY <1>2, <1>7, FailuresFinite, FS_EmptySet
<1>9. Tickets
    BY <1>2, <1>6, <1>7, <1>8 DEF Tickets
<1> QED BY <1>2, <1>5, <1>6, <1>9 DEF IInv

LEMMA Inductive ==
    ASSUME IInv, [Next]_vars
    PROVE  IInv'
<1>1. Fields /\ Loop
    BY DEF IInv, Loop
<1>2. ASSUME NEW i \in DOMAIN jobs, JobStep(i)
      PROVE  Loop' /\ Fields'
    <2>1. Loop'
        BY <1>1, <1>2, MissionSteps, LookSteps, CronSteps, ResolveStep, AggregationStep,
           ChildStep, PlannerSteps, CountStep DEF JobStep
    <2> QED BY <1>1, <1>2, <2>1, JobFields DEF Loop
<1>3. ASSUME RaiseBudget \/ Tick
      PROVE  Loop' /\ Fields'
    <2>1. /\ UNCHANGED <<tasks, jobs, counted, raced>>
          /\ status' = status \/ status' # "completed"
        BY <1>3 DEF RaiseBudget, Tick, rows, ghosts
    <2>2. Loop'
        BY <1>1, <2>1, IdleStep
    <2> QED BY <1>1, <1>3, <2>2, OtherFields DEF Loop
<1>4. ASSUME NEW t \in DOMAIN tasks, Report(t) \/ Cancel(t)
      PROVE  Loop' /\ Fields'
    <2>1. Loop'
        BY <1>1, <1>4, ReportStep, CancelStep
    <2> QED BY <1>1, <1>4, <2>1, OtherFields DEF Loop
<1>5. ASSUME File \/ CronStart
      PROVE  Loop' /\ Fields'
    <2>1. Loop'
        BY <1>1, <1>5, FileStep, CronStartStep
    <2> QED BY <1>1, <1>5, <2>1, OtherFields DEF Loop
<1>6. ASSUME NEW s \in Statuses, PatchMission(s)
      PROVE  Loop' /\ Fields'
    <2>1. Loop'
        BY <1>1, <1>6, PatchStep
    <2> QED BY <1>1, <1>6, <2>1, OtherFields DEF Loop
<1>7. ASSUME UNCHANGED vars
      PROVE  Loop' /\ Fields'
    <2>1. Loop'
        BY <1>1, <1>7, IdleStep DEF vars
    <2>2. Fields'
        BY <1>1, <1>7 DEF vars, Fields
    <2> QED BY <2>1, <2>2
<1>8. Loop' /\ Fields'
    BY <1>2, <1>3, <1>4, <1>5, <1>6, <1>7 DEF Next
<1> QED BY <1>8 DEF IInv, Loop

LEMMA Invariance == Spec => []IInv
BY Initially, Inductive, PTL DEF Spec

(* Every column, every task and every job keeps its type, and a task's parent *)
(* and chain are tasks of the mission.                                        *)
THEOREM TypeCorrect == Spec => []TypeOK
<1>1. IInv => TypeOK
    BY DEF IInv, Fields, Filed, Aimed, TypeOK, JobSet, Schedules
<1> QED BY <1>1, Invariance, PTL

(* mission-loop.ts:467: failed planners are retried less than MaxRetries      *)
(* times, in whatever order their failures are counted, and planned for.      *)
THEOREM FewRetries == Spec => []RetriesBounded
<1>1. IInv => RetriesBounded
    <2> SUFFICES ASSUME IInv
                 PROVE  RetriesBounded
        OBVIOUS
    <2>1. Cardinality(Retries) \in Nat /\ Cardinality(Granted) \in Nat
        BY FailuresFinite DEF IInv, Tickets
    <2> QED BY <2>1, MissionAssumption DEF IInv, Tickets, RetriesBounded
<1> QED BY <1>1, Invariance, PTL

(* mission-loop.ts:225: a mission that was completed because its work had     *)
(* ended has none open, unless work was added while that was being written or *)
(* its plan approved, or is about to reopen the mission.                      *)
THEOREM NoOrphans == Spec => []NoOrphanWork
<1>1. IInv => NoOrphanWork
    BY DEF IInv
<1> QED BY <1>1, Invariance, PTL

=============================================================================
