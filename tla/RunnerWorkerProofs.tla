-------------------------- MODULE RunnerWorkerProofs --------------------------
(* Type correctness of RunnerWorker and NotForgotten, for any number of       *)
(* sessions and faults.                                                       *)
EXTENDS RunnerWorker, FiniteSetTheorems, TLAPS

Remotes == {"none"} \cup RemoteLive \cup RemoteEnded
Looks == {"none", "completed", "ended"}
Messages == {"completed", "failed", "finished", "terminated"}
Kinds == {"claim", "retry", "doctor", "message"}
Sessions == [Generations -> [pc : Steps, resume : BOOLEAN]]

(* The variables beside the sessions.                                         *)
Fields ==
    /\ codex \in BOOLEAN
    /\ status \in Statuses /\ disk \in Statuses
    /\ starts \in SUBSET Kinds
    /\ inbox \in SUBSET Messages
    /\ subscribed \in BOOLEAN
    /\ remote \in Remotes /\ look \in Looks
    /\ faults \in 0..MaxFaults

(* Every start that is due, and the second session of every resumption that   *)
(* may fail, has a generation left.                                           *)
Budget == Cardinality(Used) + Cardinality(MayResume) + Pending <= MaxSessions

Mapped ==
    /\ session \in Sessions
    /\ current \in 0..MaxSessions
    /\ current # 0 => current \in Under

(* What makes NotForgotten inductive: that nothing is under way is not        *)
(* needed, a worker that shows an error has already been reported, or a       *)
(* reconciliation dropped it and no report has come since.                    *)
Reported == faults = 0 /\ status = "error" => remote \in RemoteEnded \cup {"dropped"}

IInv == Fields /\ Mapped /\ Budget /\ Reported

----------------------------------------------------------------------------
(* The server's row and the messages.                                         *)

LEMMA AcceptTyped ==
    ASSUME remote \in Remotes, NEW s
    PROVE  /\ Accept(s, remote) \in {"active"} \cup RemoteEnded
           /\ s \in {"completed", "failed"} => Accept(s, remote) \in RemoteEnded
           /\ s # "running" /\ remote \in RemoteEnded => Accept(s, remote) \in RemoteEnded
BY DEF Accept, Remotes, RemoteLive, RemoteEnded

LEMMA ReportTyped ==
    ASSUME Fields, NEW box \in SUBSET Messages, NEW s, ReportFrom(box, s)
    PROVE  /\ remote' \in Remotes /\ inbox' \in SUBSET Messages
           /\ subscribed' \in BOOLEAN
           /\ remote' = Accept(s, remote)
BY AcceptTyped DEF Fields, ReportFrom, Pushed, Messages, Remotes, RemoteLive

LEMMA ReportHere ==
    ASSUME Fields, NEW s, Report(s)
    PROVE  /\ remote' \in Remotes /\ inbox' \in SUBSET Messages
           /\ subscribed' \in BOOLEAN
           /\ remote' = Accept(s, remote)
BY ReportTyped DEF Report, Fields

LEMMA AbortTyped ==
    ASSUME Fields, NEW box \in SUBSET Messages, AbortFrom(box)
    PROVE  Fields' /\ status' = "error" /\ remote' \in RemoteEnded
<1>1. remote' \in RemoteEnded /\ remote' \in Remotes
    BY AcceptTyped DEF Fields, AbortFrom, Remotes
<1> QED BY <1>1 DEF Fields, AbortFrom, Unsaved, Statuses, Ended, Messages

----------------------------------------------------------------------------
(* Generations.                                                               *)

LEMMA Sizes ==
    /\ IsFiniteSet(Used) /\ Cardinality(Used) \in Nat
    /\ IsFiniteSet(MayResume) /\ Cardinality(MayResume) \in Nat
<1>1. IsFiniteSet(Generations)
    BY RunnerAssumption, FS_Interval DEF Generations
<1>2. Used \subseteq Generations /\ MayResume \subseteq Generations
    BY DEF Used, MayResume, Under
<1> QED BY <1>1, <1>2, FS_Subset, FS_CardinalityType

LEMMA SizesNext ==
    /\ IsFiniteSet(Used') /\ Cardinality(Used') \in Nat
    /\ IsFiniteSet(MayResume') /\ Cardinality(MayResume') \in Nat
<1>1. IsFiniteSet(Generations)
    BY RunnerAssumption, FS_Interval DEF Generations
<1>2. Used' \subseteq Generations /\ MayResume' \subseteq Generations
    BY DEF Used, MayResume, Under
<1> QED BY <1>1, <1>2, FS_Subset, FS_CardinalityType

LEMMA AddOne ==
    ASSUME NEW S, IsFiniteSet(S), NEW x
    PROVE  Cardinality(S \cup {x}) <= Cardinality(S) + 1
<1>1. Cardinality(S) \in Nat
    BY FS_CardinalityType
<1>2. Cardinality(S \cup {x}) = IF x \in S THEN Cardinality(S) ELSE Cardinality(S) + 1
    BY FS_AddElement
<1>3. CASE x \in S
    BY <1>1, <1>2, <1>3
<1>4. CASE x \notin S
    BY <1>1, <1>2, <1>4
<1> QED BY <1>3, <1>4

LEMMA KindsFinite == \A ks \in SUBSET Kinds : IsFiniteSet(ks) /\ Cardinality(ks) \in Nat
<1>1. IsFiniteSet({"claim"})
    BY FS_Singleton
<1>2. IsFiniteSet({"claim"} \cup {"retry"})
    BY <1>1, FS_AddElement
<1>3. IsFiniteSet({"claim"} \cup {"retry"} \cup {"doctor"})
    BY <1>2, FS_AddElement
<1>4. IsFiniteSet({"claim"} \cup {"retry"} \cup {"doctor"} \cup {"message"})
    BY <1>3, FS_AddElement
<1>5. Kinds = {"claim"} \cup {"retry"} \cup {"doctor"} \cup {"message"}
    BY DEF Kinds
<1> QED BY <1>4, <1>5, FS_Subset, FS_CardinalityType

(* Fewer starts that are due need no more sessions, one more needs at most    *)
(* two, and one that is started frees one, a message two.                     *)
LEMMA PendingShrinks ==
    ASSUME starts \in SUBSET Kinds, starts' \subseteq starts
    PROVE  Pending \in Nat /\ Pending' \in Nat /\ Pending' <= Pending
<1>1. /\ Cardinality(starts) \in Nat /\ Cardinality(starts') \in Nat
      /\ Cardinality(starts') <= Cardinality(starts)
    BY KindsFinite, FS_Subset
<1> QED BY <1>1 DEF Pending

LEMMA PendingGrows ==
    ASSUME starts \in SUBSET Kinds, NEW k \in Kinds, starts' = starts \cup {k}
    PROVE  Pending \in Nat /\ Pending' \in Nat /\ Pending' <= Pending + 2
<1>1. IsFiniteSet(starts) /\ Cardinality(starts) \in Nat
    BY KindsFinite
<1>2. /\ Cardinality(starts') \in Nat
      /\ Cardinality(starts') <= Cardinality(starts) + 1
    BY <1>1, FS_AddElement
<1> QED BY <1>1, <1>2 DEF Pending

LEMMA PendingServed ==
    ASSUME starts \in SUBSET Kinds, NEW k \in starts, starts' = starts \ {k}
    PROVE  /\ Pending \in Nat /\ Pending' \in Nat
           /\ Pending' <= Pending - (IF k = "message" THEN 2 ELSE 1)
<1>1. IsFiniteSet(starts) /\ Cardinality(starts) \in Nat
    BY KindsFinite
<1>2. /\ Cardinality(starts') \in Nat
      /\ Cardinality(starts') = Cardinality(starts) - 1
    BY <1>1, FS_RemoveElement, KindsFinite
<1> QED BY <1>1, <1>2 DEF Pending

(* What does not open a session keeps the budget, and a request may be made   *)
(* while two sessions are to spare.                                           *)
Narrow == Used' = Used /\ MayResume' \subseteq MayResume

LEMMA NarrowIsSmaller ==
    ASSUME Narrow
    PROVE  /\ Cardinality(Used') = Cardinality(Used)
           /\ Cardinality(MayResume') <= Cardinality(MayResume)
BY Sizes, SizesNext, FS_Subset DEF Narrow

LEMMA NarrowKeepsBudget ==
    ASSUME Fields, Budget, Narrow, starts' \subseteq starts
    PROVE  Budget'
BY RunnerAssumption, Sizes, SizesNext, NarrowIsSmaller, PendingShrinks
DEF Budget, Fields

LEMMA SpareKeepsBudget ==
    ASSUME Fields, Spare, Narrow, NEW k \in Kinds, starts' = starts \cup {k}
    PROVE  Budget'
BY RunnerAssumption, Sizes, SizesNext, NarrowIsSmaller, PendingGrows
DEF Budget, Spare, Fields

LEMMA SameSessions ==
    ASSUME Mapped, UNCHANGED <<current, session>>
    PROVE  Mapped' /\ Narrow
BY DEF Mapped, Narrow, Used, MayResume, Under

(* A session that is under way goes to another of its steps.                  *)
LEMMA GoToKeeps ==
    ASSUME Mapped, NEW g \in Under, NEW pc \in Steps \ {"none", "over"}, GoTo(g, pc),
           pc \in {"rethrow", "redelete"} => g \in MayResume, UNCHANGED current
    PROVE  Mapped' /\ Narrow
<1>1. g \in Generations /\ session[g].pc \notin {"none", "over"}
    BY DEF Under
<1>2. /\ session' \in Sessions
      /\ session'[g].pc = pc
      /\ session'[g].resume => session[g].resume
      /\ \A h \in Generations \ {g} : session'[h] = session[h]
    BY <1>1 DEF Mapped, Sessions, GoTo, Session
<1>3. Used' = Used /\ Under' = Under
    BY <1>1, <1>2 DEF Used, Under
<1>4. MayResume' \subseteq MayResume
    BY <1>1, <1>2, <1>3 DEF MayResume, Under
<1> QED BY <1>2, <1>3, <1>4 DEF Mapped, Narrow

LEMMA UnmappedKeeps ==
    ASSUME Mapped, Unmapped
    PROVE  Mapped' /\ Narrow
<1>1. /\ session' \in Sessions /\ current' = 0
      /\ \A g \in Generations :
            /\ session'[g].resume = session[g].resume
            /\ \/ session'[g].pc = session[g].pc
               \/ session'[g].pc = "aborted" /\ session[g].pc = "live"
    BY DEF Mapped, Sessions, Unmapped, Steps
<1>2. Used' = Used /\ Under' = Under
    BY <1>1 DEF Used, Under
<1>3. MayResume' \subseteq MayResume
    BY <1>1, <1>2 DEF MayResume, Under
<1> QED BY <1>1, <1>2, <1>3, RunnerAssumption DEF Mapped, Narrow

(* A session that is opened takes one generation, and is in the map.          *)
LEMMA OpenedTakesOne ==
    ASSUME NEW sessions \in Sessions, NEW resume \in BOOLEAN, Opened(sessions, resume),
           Cardinality(Used) < MaxSessions,
           {g \in Generations : sessions[g].pc # "none"} = Used
    PROVE  LET n == Cardinality(Used) + 1
           IN  /\ Mapped'
               /\ n \in Generations
               /\ Used' = Used \cup {n}
               /\ session'[n] = Session("live", resume)
               /\ \A h \in Generations \ {n} : session'[h] = sessions[h]
               /\ Cardinality(Used') <= Cardinality(Used) + 1
<1> DEFINE n == Cardinality(Used) + 1
<1>1. n \in Generations /\ n \in 1..MaxSessions
    BY Sizes, RunnerAssumption DEF Generations
<1>2. /\ session' = [sessions EXCEPT ![n] = Session("live", resume)] /\ current' = n
    BY DEF Opened
<1> HIDE DEF n
<1>3. /\ session' \in Sessions
      /\ session'[n] = Session("live", resume) /\ session'[n].pc = "live"
      /\ \A h \in Generations \ {n} : session'[h] = sessions[h]
    BY <1>1, <1>2 DEF Sessions, Session, Steps
<1>4. Used' = Used \cup {n} /\ n \in Under'
    BY <1>1, <1>3 DEF Used, Under
<1>5. Cardinality(Used') <= Cardinality(Used) + 1
    BY <1>4, Sizes, AddOne
<1>6. Mapped'
    BY <1>1, <1>2, <1>3, <1>4 DEF Mapped
<1> QED BY <1>1, <1>3, <1>4, <1>5, <1>6 DEF n

----------------------------------------------------------------------------
(* The fields keep their types.                                               *)

LEMMA FieldsStep ==
    ASSUME Fields, [Next]_vars
    PROVE  Fields'
<1>1. ASSUME NEW g \in Generations, LeaveQuietly(g)
      PROVE  Fields'
    BY <1>1 DEF LeaveQuietly, NoReport, Fields
<1>2. ASSUME NEW g \in Generations, EndWell(g)
      PROVE  Fields'
    BY <1>2 DEF EndWell, NoReport, Fields
<1>3. ASSUME NEW g \in Generations, Throw(g)
      PROVE  Fields'
    BY <1>3 DEF Throw, NoReport, Fields
<1>4. ASSUME NEW g \in Generations, EndFailed(g)
      PROVE  Fields'
    BY <1>4, ReportHere DEF EndFailed, Saved, Fields, Statuses, Active, Ended
<1>5. ASSUME NEW g \in Generations, Complete(g)
      PROVE  Fields'
    BY <1>5, ReportHere DEF Complete, Saved, Fields, Statuses, Active, Ended
<1>6. ASSUME NEW g \in Generations, CatchFailed(g)
      PROVE  Fields'
    BY <1>6, ReportHere DEF CatchFailed, Saved, Fields, Statuses, Active, Ended
<1>7. ASSUME NEW g \in Generations, CatchCompleted(g)
      PROVE  Fields'
    BY <1>7 DEF CatchCompleted, Saved, NoReport, Fields, Statuses, Active, Ended
<1>8. ASSUME NEW g \in Generations, Cleanup(g)
      PROVE  Fields'
    BY <1>8 DEF Cleanup, Return, Unsaved, NoReport, Fields, Statuses, Active, Ended
<1>9. ASSUME NEW g \in Generations, DeleteEntry(g)
      PROVE  Fields'
    BY <1>9 DEF DeleteEntry, Return, Unsaved, NoReport, Fields, Statuses, Active, Ended
<1>10. ASSUME NEW g \in Generations, Ask(g)
      PROVE  Fields'
    BY <1>10, ReportHere DEF Ask, Saved, Fields, Statuses, Active, Ended
<1>11. CASE Claim
    BY <1>11 DEF Claim, Saved, Kinds, Remotes, RemoteLive, Fields, Statuses, Active, Ended
<1>12. CASE Defer
    BY <1>12 DEF Defer, Remotes, RemoteEnded, Fields
<1>13. CASE AbortRequest
    BY <1>13, AbortTyped DEF AbortRequest, Fields
<1>14. CASE Retry
    BY <1>14, ReportHere
    DEF Retry, Restart, Saved, Kinds, Fields, Statuses, Active, Ended
<1>15. CASE Doctor
    BY <1>15, ReportHere
    DEF Doctor, Restart, Saved, Kinds, Fields, Statuses, Active, Ended
<1>16. CASE FollowUp
    BY <1>16, ReportHere
    DEF FollowUp, Restart, Saved, Kinds, Fields, Statuses, Active, Ended
<1>17. CASE Answer
    BY <1>17, ReportHere DEF Answer, Unsaved, Fields, Statuses, Active, Ended
<1>18. CASE MarkDone
    BY <1>18, ReportHere DEF MarkDone, Unsaved, Fields, Statuses, Active, Ended
<1>19. ASSUME NEW k \in starts, StartSession(k)
      PROVE  Fields'
    BY <1>19 DEF StartSession, NoReport, Fields
<1>20. ASSUME NEW k \in starts, NoWorkspace(k)
      PROVE  Fields'
    BY <1>20, ReportHere DEF NoWorkspace, Unsaved, Fields, Statuses, Active, Ended
<1>21. CASE AgentCompletes
    BY <1>21, ReportHere DEF AgentCompletes, Fields
<1>22. CASE ServerFails
    BY <1>22 DEF ServerFails, Pushed, Messages, Remotes, RemoteEnded, Fields
<1>23. CASE Sync
    <2>1. PICK box \in SUBSET Messages, s \in {"waiting_input", "running"} :
              ReportFrom(box, s)
        BY <1>23 DEF Sync, Messages, Fields
    <2> QED BY <1>23, <2>1, ReportTyped DEF Sync, Fields
<1>24. CASE AnswerFinished
    BY <1>24 DEF AnswerFinished, Unsaved, Fields, Statuses, Active, Ended
<1>25. CASE AnswerTerminated
    BY <1>25, AbortTyped DEF AnswerTerminated, Fields
<1>26. CASE PushCompleted
    BY <1>26 DEF PushCompleted, Saved, Fields, Statuses, Active, Ended
<1>27. CASE PushFailed
    BY <1>27, AbortTyped DEF PushFailed, Fields
<1>28. CASE CheckStale
    BY <1>28, AbortTyped DEF CheckStale, Fields
<1>29. CASE Reconcile
    BY <1>29 DEF Reconcile, Dropped, Unsaved, Looks, Remotes, RemoteLive, Fields, Statuses,
                 Active, Ended
<1>30. CASE ReconcileUnknown
    BY <1>30, RunnerAssumption
    DEF ReconcileUnknown, Dropped, Unsaved, Looks, Remotes, RemoteLive, Fields, Statuses,
        Active, Ended
<1>31. CASE RestartProcess
    <2>1. Accept("failed", remote) \in Remotes
        BY AcceptTyped DEF Remotes, Fields
    <2>2. remote' \in Remotes
        BY <1>31, <2>1 DEF RestartProcess, Fields
    <2>3. status' \in Statuses /\ faults' \in 0..MaxFaults
        BY <1>31, RunnerAssumption DEF RestartProcess, Statuses, Active, Ended, Fields
    <2> QED BY <1>31, <2>2, <2>3 DEF RestartProcess, Looks, Fields
<1>32. CASE Persist
    BY <1>32 DEF Persist, Fields
<1>33. CASE UNCHANGED vars
    BY <1>33 DEF vars, Fields
<1>34. CASE LookUp
    BY <1>34 DEF LookUp, NoReport, Looks, Fields
<1> QED BY <1>1, <1>2, <1>3, <1>4, <1>5, <1>6, <1>7, <1>8, <1>9, <1>10, <1>11, <1>12,
        <1>13, <1>14, <1>15, <1>16, <1>17, <1>18, <1>19, <1>20, <1>21, <1>22, <1>23, <1>24,
        <1>25, <1>26, <1>27, <1>28, <1>29, <1>30, <1>31, <1>32, <1>33, <1>34
        DEF Next, SessionStep, Request, ServerStep, Timer

----------------------------------------------------------------------------
(* Sessions, requests and restarts stay within the budget.                    *)

LEMMA ReturnKeeps ==
    ASSUME Fields, Mapped, Budget, NEW g \in Under, Return(g), UNCHANGED starts,
           session[g].pc \notin {"rethrow", "redelete"} \/ g \in MayResume
    PROVE  Mapped' /\ Budget'
<1> USE RunnerAssumption
<1>1. g \in Generations /\ session \in Sessions
    BY DEF Under, Mapped
<1>2. CASE session[g].pc \in {"rethrow", "redelete"}
    <2> DEFINE sessions == [session EXCEPT ![g].pc = "over"]
    <2>1. sessions \in Sessions /\ {h \in Generations : sessions[h].pc # "none"} = Used
        BY <1>1, <1>2 DEF Sessions, Steps, Used
    <2>2. g \in MayResume /\ Cardinality(MayResume) > 0
        BY <1>2, Sizes, FS_EmptySet
    <2>3. Pending \in Nat /\ Pending' = Pending
        BY PendingShrinks DEF Fields, Pending
    <2>4. Cardinality(Used) < MaxSessions
        BY <2>2, <2>3, Sizes DEF Budget
    <2>5. Opened(sessions, FALSE)
        BY <1>2 DEF Return, At
    <2>6. sessions[g].pc = "over" /\ \A h \in Generations \ {g} : sessions[h] = session[h]
        BY <1>1 DEF Sessions
    <2> HIDE DEF sessions
    <2>7. /\ Mapped' /\ Cardinality(Used') <= Cardinality(Used) + 1
          /\ \E n \in Generations :
                /\ session'[n] = Session("live", FALSE)
                /\ \A h \in Generations \ {n} : session'[h] = sessions[h]
        BY <2>1, <2>4, <2>5, OpenedTakesOne
    <2>8. MayResume' \subseteq MayResume \ {g}
        BY <1>1, <2>6, <2>7 DEF MayResume, Under, Session
    <2>9. Cardinality(MayResume') <= Cardinality(MayResume) - 1
        <3>1. /\ IsFiniteSet(MayResume \ {g})
              /\ Cardinality(MayResume \ {g}) = Cardinality(MayResume) - 1
            BY <2>2, Sizes, FS_RemoveElement
        <3> QED BY <2>8, <3>1, FS_Subset
    <2> QED BY <2>3, <2>7, <2>9, Sizes, SizesNext DEF Budget
<1>3. CASE session[g].pc \notin {"rethrow", "redelete"}
    <2>1. GoTo(g, "over") /\ current' = 0
        BY <1>3 DEF Return, At
    <2>2. /\ session' \in Sessions
          /\ session'[g].pc = "over"
          /\ \A h \in Generations \ {g} : session'[h] = session[h]
        BY <1>1, <2>1 DEF Sessions, GoTo, Session, Steps
    <2>3. Used' = Used /\ MayResume' \subseteq MayResume
        BY <1>1, <2>2 DEF Used, MayResume, Under
    <2>4. Mapped'
        BY <2>1, <2>2 DEF Mapped
    <2> QED BY <2>3, <2>4, NarrowKeepsBudget DEF Narrow
<1> QED BY <1>2, <1>3

LEMMA StartKeeps ==
    ASSUME Fields, Mapped, Budget, NEW k \in starts, StartSession(k)
    PROVE  Mapped' /\ Budget'
<1>1. PICK resume \in BOOLEAN : (resume => k = "message") /\ Opened(session, resume)
    BY DEF StartSession
<1>2. /\ Pending \in Nat /\ Pending' \in Nat
      /\ Pending' <= Pending - (IF k = "message" THEN 2 ELSE 1)
    BY PendingServed DEF StartSession, Fields
<1>3. Cardinality(Used) < MaxSessions
    BY <1>2, Sizes, RunnerAssumption DEF Budget
<1>4. session \in Sessions /\ {h \in Generations : session[h].pc # "none"} = Used
    BY DEF Mapped, Used
<1>5. /\ Mapped' /\ Cardinality(Used') <= Cardinality(Used) + 1
      /\ \E n \in Generations :
            /\ session'[n] = Session("live", resume)
            /\ \A h \in Generations \ {n} : session'[h] = session[h]
    BY <1>1, <1>3, <1>4, OpenedTakesOne
<1>6. PICK n \in Generations :
            /\ session'[n] = Session("live", resume)
            /\ \A h \in Generations \ {n} : session'[h] = session[h]
    BY <1>5
<1>7. CASE resume
    <2>1. MayResume' \subseteq MayResume \cup {n}
        BY <1>6 DEF MayResume, Under
    <2>2. Cardinality(MayResume') <= Cardinality(MayResume) + 1
        <3>1. /\ IsFiniteSet(MayResume \cup {n}) /\ Cardinality(MayResume \cup {n}) \in Nat
              /\ Cardinality(MayResume \cup {n}) <= Cardinality(MayResume) + 1
            BY Sizes, AddOne, FS_AddElement, FS_CardinalityType
        <3>2. Cardinality(MayResume') <= Cardinality(MayResume \cup {n})
            BY <2>1, <3>1, FS_Subset
        <3> QED BY <3>1, <3>2, Sizes, SizesNext
    <2>3. Pending' <= Pending - 2
        BY <1>1, <1>2, <1>7
    <2> QED BY <1>2, <1>5, <2>2, <2>3, Sizes, SizesNext, RunnerAssumption DEF Budget
<1>8. CASE ~resume
    <2>1. MayResume' \subseteq MayResume
        BY <1>6, <1>8 DEF MayResume, Under, Session
    <2>2. Cardinality(MayResume') <= Cardinality(MayResume)
        BY <2>1, Sizes, FS_Subset
    <2>3. Pending' <= Pending - 1
        BY <1>2
    <2> QED BY <1>2, <1>5, <2>2, <2>3, Sizes, SizesNext, RunnerAssumption DEF Budget
<1> QED BY <1>7, <1>8

LEMMA RequestKeeps ==
    ASSUME Fields, Mapped, Budget, NEW k \in Kinds, Restart(k),
           Unmapped \/ UNCHANGED <<current, session>>
    PROVE  Mapped' /\ Budget'
<1>1. Mapped' /\ Narrow
    BY UnmappedKeeps, SameSessions
<1> QED BY <1>1, SpareKeepsBudget DEF Restart

(* An abort and a reconciliation only take the session out of the map.        *)
LEMMA TakenOutKeeps ==
    ASSUME Fields, Mapped, Budget, Unmapped, UNCHANGED starts
    PROVE  Mapped' /\ Budget'
BY UnmappedKeeps, NarrowKeepsBudget

LEMMA AsideKeeps ==
    ASSUME Fields, Mapped, Budget, UNCHANGED <<current, session>>, starts' \subseteq starts
    PROVE  Mapped' /\ Budget'
BY SameSessions, NarrowKeepsBudget

LEMMA MoveKeeps ==
    ASSUME Fields, Mapped, Budget, NEW g \in Generations,
           NEW pc \in Steps \ {"none", "over"}, session[g].pc \notin {"none", "over"},
           GoTo(g, pc), pc \in {"rethrow", "redelete"} => g \in MayResume,
           UNCHANGED <<current, starts>>
    PROVE  Mapped' /\ Budget'
<1>1. g \in Under
    BY DEF Under
<1> QED BY <1>1, GoToKeeps, NarrowKeepsBudget

LEMMA RoomStep ==
    ASSUME Fields, Mapped, Budget, [Next]_vars
    PROVE  Mapped' /\ Budget'
<1>1. ASSUME NEW g \in Generations, LeaveQuietly(g)
      PROVE  Mapped' /\ Budget'
    BY <1>1, MoveKeeps DEF LeaveQuietly, MayEnd, At, Steps
<1>2. ASSUME NEW g \in Generations, EndFailed(g)
      PROVE  Mapped' /\ Budget'
    BY <1>2, MoveKeeps DEF EndFailed, MayEnd, At, Steps
<1>3. ASSUME NEW g \in Generations, EndWell(g)
      PROVE  Mapped' /\ Budget'
    BY <1>3, MoveKeeps DEF EndWell, MayEnd, At, Steps
<1>4. ASSUME NEW g \in Generations, Complete(g)
      PROVE  Mapped' /\ Budget'
    BY <1>4, MoveKeeps DEF Complete, MayEnd, At, Steps
<1>5. ASSUME NEW g \in Generations, Throw(g)
      PROVE  Mapped' /\ Budget'
    BY <1>5, MoveKeeps DEF Throw, MayEnd, At, Steps
<1>6. ASSUME NEW g \in Generations, CatchCompleted(g)
      PROVE  Mapped' /\ Budget'
    BY <1>6, MoveKeeps DEF CatchCompleted, MayEnd, At, Steps
<1>7. ASSUME NEW g \in Generations, CatchFailed(g)
      PROVE  Mapped' /\ Budget'
    <2>1. CASE session[g].resume
        <3>1. GoTo(g, "rethrow") /\ session[g].pc = "failing" /\ UNCHANGED <<current, starts>>
            BY <1>7, <2>1 DEF CatchFailed, At
        <3>2. g \in MayResume
            BY <2>1, <3>1 DEF MayResume, Under
        <3> QED BY <3>1, <3>2, MoveKeeps DEF Steps
    <2>2. CASE ~session[g].resume
        BY <1>7, <2>2, MoveKeeps DEF CatchFailed, At, Steps
    <2> QED BY <2>1, <2>2
<1>8. ASSUME NEW g \in Generations, Cleanup(g)
      PROVE  Mapped' /\ Budget'
    <2>1. /\ session[g].pc \in {"cleanup", "rethrow"} /\ UNCHANGED starts
          /\ g \in Under
        BY <1>8 DEF Cleanup, At, Under
    <2>2. session[g].pc = "rethrow" => g \in MayResume
        BY <2>1 DEF MayResume
    <2>3. CASE current = 0
        BY <1>8, <2>1, <2>2, <2>3, ReturnKeeps DEF Cleanup
    <2>4. CASE current # 0 /\ session[g].pc = "rethrow"
        <3>1. GoTo(g, "redelete") /\ UNCHANGED current
            BY <1>8, <2>4 DEF Cleanup, At
        <3> QED BY <2>1, <2>2, <2>4, <3>1, MoveKeeps DEF Steps
    <2>5. CASE current # 0 /\ session[g].pc # "rethrow"
        <3>1. GoTo(g, "delete") /\ UNCHANGED current
            BY <1>8, <2>5 DEF Cleanup, At
        <3> QED BY <2>1, <3>1, MoveKeeps DEF Steps
    <2> QED BY <2>3, <2>4, <2>5
<1>9. ASSUME NEW g \in Generations, DeleteEntry(g)
      PROVE  Mapped' /\ Budget'
    <2>1. /\ session[g].pc \in {"delete", "redelete"} /\ UNCHANGED starts
          /\ g \in Under /\ Return(g)
        BY <1>9 DEF DeleteEntry, At, Under
    <2>2. session[g].pc = "redelete" => g \in MayResume
        BY <2>1 DEF MayResume
    <2> QED BY <2>1, <2>2, ReturnKeeps
<1>10. ASSUME NEW g \in Generations, Ask(g)
      PROVE  Mapped' /\ Budget'
    BY <1>10, AsideKeeps DEF Ask
<1>11. CASE Claim
    <2>1. Mapped' /\ Narrow
        BY <1>11, SameSessions DEF Claim
    <2> QED BY <1>11, <2>1, SpareKeepsBudget DEF Claim, Kinds
<1>12. CASE Defer
    BY <1>12, AsideKeeps DEF Defer
<1>13. CASE Retry \/ Doctor \/ FollowUp
    BY <1>13, RequestKeeps DEF Retry, Doctor, FollowUp, Kinds
<1>14. CASE AbortRequest \/ AnswerTerminated \/ CheckStale
    BY <1>14, TakenOutKeeps DEF AbortRequest, AnswerTerminated, CheckStale, AbortFrom
<1>15. CASE Answer \/ MarkDone \/ AgentCompletes \/ ServerFails \/ Sync
    BY <1>15, AsideKeeps DEF Answer, MarkDone, AgentCompletes, ServerFails, Sync
<1>16. CASE AnswerFinished \/ PushCompleted \/ LookUp \/ ReconcileUnknown \/ Persist
    BY <1>16, AsideKeeps DEF AnswerFinished, PushCompleted, LookUp, ReconcileUnknown,
                                Persist
<1>17. CASE PushFailed
    <2>1. CASE status \in Ended
        BY <1>17, <2>1, AsideKeeps DEF PushFailed
    <2>2. CASE status \notin Ended
        BY <1>17, <2>2, TakenOutKeeps DEF PushFailed, AbortFrom
    <2> QED BY <2>1, <2>2
<1>18. CASE Reconcile
    BY <1>18, TakenOutKeeps DEF Reconcile
<1>19. ASSUME NEW k \in starts, StartSession(k)
      PROVE  Mapped' /\ Budget'
    BY <1>19, StartKeeps
<1>20. ASSUME NEW k \in starts, NoWorkspace(k)
      PROVE  Mapped' /\ Budget'
    BY <1>20, AsideKeeps DEF NoWorkspace
<1>21. CASE RestartProcess
    <2>1. session' = [g \in Generations |->
                        Session(IF g \in Used THEN "over" ELSE "none", FALSE)]
        BY <1>21 DEF RestartProcess
    <2>2. \A g \in Generations : /\ session'[g].pc = IF g \in Used THEN "over" ELSE "none"
                                 /\ ~session'[g].resume
        BY <2>1 DEF Session
    <2>3. session' \in Sessions /\ current' = 0 /\ starts' \subseteq starts
        BY <1>21, <2>1 DEF RestartProcess, Sessions, Session, Steps
    <2>4. Used' = Used /\ MayResume' = {}
        BY <2>2 DEF Used, MayResume, Under
    <2>5. Mapped'
        BY <2>3, RunnerAssumption DEF Mapped
    <2> QED BY <2>3, <2>4, <2>5, NarrowKeepsBudget DEF Narrow
<1>22. CASE UNCHANGED vars
    BY <1>22, AsideKeeps DEF vars
<1> QED BY <1>1, <1>2, <1>3, <1>4, <1>5, <1>6, <1>7, <1>8, <1>9, <1>10, <1>11, <1>12,
        <1>13, <1>14, <1>15, <1>16, <1>17, <1>18, <1>19, <1>20, <1>21, <1>22
        DEF Next, SessionStep, Request, ServerStep, Timer

----------------------------------------------------------------------------
(* A worker that ends here with an error was reported, or the server's word   *)
(* is followed.                                                               *)

(* A step that does not leave the worker in error, or leaves its status and   *)
(* the server's row alone, needs no more.                                     *)
LEMMA ElsewhereReported ==
    ASSUME Reported, faults' = faults,
           status' # "error" \/ UNCHANGED <<status, remote>>
    PROVE  Reported'
BY DEF Reported

LEMMA EndReported ==
    ASSUME Fields, Report("failed")
    PROVE  Reported'
BY ReportHere, AcceptTyped DEF Reported, Fields

(* A report of the end does not bring an ended worker back.                   *)
LEMMA LaterReported ==
    ASSUME Fields, Reported, Report("completed"), UNCHANGED <<status, faults>>
    PROVE  Reported'
BY ReportHere, AcceptTyped DEF Reported, Fields

LEMMA ReportedStep ==
    ASSUME Fields, Reported, [Next]_vars
    PROVE  Reported'
<1>1. ASSUME NEW g \in Generations,
             LeaveQuietly(g) \/ EndWell(g) \/ Throw(g)
      PROVE  Reported'
    BY <1>1, ElsewhereReported
    DEF LeaveQuietly, EndWell, Throw, NoReport
<1>2. ASSUME NEW g \in Generations,
             Complete(g) \/ CatchCompleted(g) \/ Ask(g)
      PROVE  Reported'
    BY <1>2, ElsewhereReported
    DEF Complete, CatchCompleted, Ask, Saved
<1>3. ASSUME NEW g \in Generations,
             EndFailed(g) \/ CatchFailed(g)
      PROVE  Reported'
    BY <1>3, EndReported
    DEF EndFailed, CatchFailed
<1>4. ASSUME NEW g \in Generations,
             Cleanup(g) \/ DeleteEntry(g)
      PROVE  Reported'
    BY <1>4, ElsewhereReported
    DEF Cleanup, DeleteEntry, Return, Unsaved, NoReport
<1>5. CASE Claim \/ Retry \/ Doctor \/ FollowUp
    BY <1>5, ElsewhereReported
    DEF Claim, Retry, Doctor, FollowUp, Restart, Saved
<1>6. CASE Answer \/ MarkDone
    BY <1>6, ElsewhereReported
    DEF Answer, MarkDone, Unsaved
<1>7. CASE Defer
    BY <1>7 DEF Defer, Reported, RemoteEnded
<1>8. CASE AbortRequest \/ AnswerTerminated \/ CheckStale
    <2>1. PICK box \in SUBSET Messages : AbortFrom(box)
        BY <1>8 DEF AbortRequest, AnswerTerminated, CheckStale, Fields
    <2> QED BY <2>1, AbortTyped DEF Reported
<1>9. CASE PushFailed
    <2>1. CASE status \in Ended
        BY <1>9, <2>1, ElsewhereReported DEF PushFailed
    <2>2. CASE status \notin Ended
        <3>1. PICK box \in SUBSET Messages : AbortFrom(box)
            BY <1>9, <2>2 DEF PushFailed, Fields
        <3> QED BY <3>1, AbortTyped DEF Reported
    <2> QED BY <2>1, <2>2
<1>10. ASSUME NEW k \in starts, StartSession(k)
      PROVE  Reported'
    BY <1>10, ElsewhereReported DEF StartSession, NoReport
<1>11. ASSUME NEW k \in starts, NoWorkspace(k)
      PROVE  Reported'
    BY <1>11, EndReported DEF NoWorkspace
<1>12. CASE AgentCompletes
    BY <1>12, LaterReported DEF AgentCompletes
<1>13. CASE ServerFails
    BY <1>13 DEF ServerFails, Reported, RemoteEnded
<1>14. CASE Sync
    BY <1>14, ElsewhereReported DEF Sync, Active
<1>15. CASE AnswerFinished \/ PushCompleted \/ Persist
    BY <1>15, ElsewhereReported
    DEF AnswerFinished, PushCompleted, Persist, Saved, Unsaved
<1>16. CASE Reconcile
    BY <1>16 DEF Reconcile, Dropped, Unsaved, Reported, Fields, Remotes, RemoteLive
<1>17. CASE ReconcileUnknown \/ RestartProcess
    <2>1. faults' = faults + 1
        BY <1>17 DEF ReconcileUnknown, RestartProcess
    <2>2. faults \in 0..MaxFaults
        BY DEF Fields
    <2>3. faults' # 0
        BY <2>1, <2>2, RunnerAssumption
    <2> QED BY <2>3 DEF Reported
<1>18. CASE UNCHANGED vars
    BY <1>18, ElsewhereReported DEF vars
<1>19. CASE LookUp
    BY <1>19, ElsewhereReported DEF LookUp, NoReport
<1> QED BY <1>1, <1>2, <1>3, <1>4, <1>5, <1>6, <1>7, <1>8, <1>9, <1>10, <1>11,
        <1>12, <1>13, <1>14, <1>15, <1>16, <1>17, <1>18, <1>19
    DEF Next, SessionStep, Request, ServerStep, Timer

----------------------------------------------------------------------------
LEMMA Starts == Init => IInv
<1> SUFFICES ASSUME Init
             PROVE  IInv
    OBVIOUS
<1> USE RunnerAssumption
<1>1. Fields
    <2>1. codex \in BOOLEAN /\ subscribed \in BOOLEAN
        BY DEF Init
    <2>2. faults \in 0..MaxFaults
        BY DEF Init
    <2>3. status \in Statuses /\ disk \in Statuses /\ remote \in Remotes
        BY DEF Init, Statuses, Remotes
    <2>5. look \in Looks
        BY DEF Init, Looks
    <2>4. starts \in SUBSET Kinds /\ inbox \in SUBSET Messages
        BY DEF Init
    <2> QED BY <2>1, <2>2, <2>3, <2>4, <2>5 DEF Fields
<1>2. Mapped
    BY DEF Init, Mapped, Sessions, Session, Steps
<1>3. Used = {} /\ MayResume = {} /\ starts = {}
    BY DEF Init, Session, Used, MayResume, Under
<1>4. Budget
    BY <1>3, FS_EmptySet DEF Budget, Pending
<1>5. Reported
    BY DEF Init, Reported
<1> QED BY <1>1, <1>2, <1>4, <1>5 DEF IInv

THEOREM Invariance == Spec => []IInv
<1>1. IInv /\ [Next]_vars => IInv'
    BY FieldsStep, RoomStep, ReportedStep DEF IInv
<1> QED BY Starts, <1>1, PTL DEF Spec

(* Whatever answers, aborts, restarts and failed resumptions cross, every     *)
(* variable keeps its type: the budget never lets a session be opened past    *)
(* the bound, and the session in the map was started and has not returned.    *)
THEOREM TypeCorrect == Spec => []TypeOK
<1>1. IInv => TypeOK
    BY DEF IInv, Fields, Mapped, TypeOK, Kinds, Messages, Remotes, Looks, Sessions
<1> QED BY Invariance, <1>1, PTL

(* A worker that shows an error has ended on the server too, unless a restart *)
(* or a reconciliation, which report nothing, put the error there.            *)
THEOREM ErrorsReported == Spec => []NotForgotten
<1>1. IInv => NotForgotten
    BY DEF IInv, Reported, NotForgotten
<1> QED BY Invariance, <1>1, PTL

=============================================================================
