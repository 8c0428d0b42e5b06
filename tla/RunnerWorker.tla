---------------------------- MODULE RunnerWorker -----------------------------
(* One worker of a runner (apps/runner/src): its status in memory and on      *)
(* disk, the agent sessions started for it, and its row on the server.        *)
(*                                                                            *)
(* The runner is one JavaScript process: a step below is the code between two *)
(* awaits.  What comes after an await may find the worker changed: an answer  *)
(* of the server, a request of the user and a timer are handled meanwhile.    *)
(* A report reaches the server when it is sent (Outbox models reports that    *)
(* are sent later).  The status 'stale' is never assigned in the code.        *)
EXTENDS Naturals, FiniteSets

CONSTANTS
    Backends,    \* the values of codex; TRUE alone stands for both: a Codex worker
                 \* can do all that a Claude worker can
    MaxSessions, \* bound: sessions started for the worker
    MaxFaults    \* bound: restarts of the process and failed look-ups

ASSUME RunnerAssumption ==
    Backends \subseteq BOOLEAN /\ MaxSessions \in Nat \ {0} /\ MaxFaults \in Nat

VARIABLES
    codex,      \* the back end: Codex (TRUE) or Claude
    status,     \* the worker's status in memory, "absent" before it is claimed
    disk,       \* its status in the file of worker-store
    current,    \* the generation in the sessions map, 0 for none
    session,    \* the sessions by generation
    starts,     \* the callers that are about to call startSession
    inbox,      \* the server's messages and abort answers under way
    subscribed, \* the worker's Pusher channel is bound
    remote,     \* the worker's status on the server; "dropped" if it is active
                \* there although a look-up ended it here (auxiliary)
    look,       \* the answer reconcileLocalWorkers() waits for, "none" for no look-up
    faults      \* restarts and failed look-ups so far

vars == <<codex, status, disk, current, session, starts, inbox, subscribed,
          remote, look, faults>>

Generations == 1..MaxSessions
Session(pc, resume) == [pc |-> pc, resume |-> resume]

Init ==
    /\ codex \in Backends
    /\ status = "absent" /\ disk = "absent"
    /\ current = 0
    /\ session = [g \in Generations |-> Session("none", FALSE)]
    /\ starts = {}
    /\ inbox = {}
    /\ subscribed = FALSE
    /\ remote = "none"
    /\ look = "none"
    /\ faults = 0

Active == {"working", "waiting"}
Ended == {"done", "error"}
RemoteEnded == {"completed", "failed", "sealed"}
RemoteLive == {"active", "dropped"}

-----------------------------------------------------------------------------
(* The server's side of a report.  An ended worker takes no report but        *)
(* 'running', which reactivates it unless its error seals it (expired, timed  *)
(* out, taken over by a human); anything else is answered with 409.           *)
Accept(s, r) ==
    IF r \in RemoteEnded
    THEN IF s = "running" /\ r # "sealed" THEN "active" ELSE r
    ELSE IF s \in {"completed", "failed"} THEN s ELSE "active"

(* The end of a worker is pushed to its channel.                              *)
Pushed(r) ==
    IF subscribed /\ r # remote THEN {r} \cap {"completed", "failed"} ELSE {}

ReportFrom(box, s) ==
    /\ remote' = Accept(s, remote)
    /\ inbox' = box \cup Pushed(Accept(s, remote))
    /\ UNCHANGED subscribed

Report(s) == ReportFrom(inbox, s)
NoReport == UNCHANGED <<inbox, subscribed, remote>>

(* The status set and the file written.                                       *)
Saved(s) == status' = s /\ disk' = s
Unsaved(s) == status' = s /\ UNCHANGED disk

-----------------------------------------------------------------------------
(* Sessions.                                                                  *)

Used == {g \in Generations : session[g].pc # "none"}
Under == {g \in Generations : session[g].pc \notin {"none", "over"}}

(* Room under the bound for one more request, and for the second session of   *)
(* every resumption that may fail.                                            *)
MayResume == {g \in Under : session[g].resume \/ session[g].pc \in {"rethrow", "redelete"}}
Pending == Cardinality(starts) + (IF "message" \in starts THEN 1 ELSE 0)
Spare == Cardinality(Used) + Cardinality(MayResume) + Pending + 2 <= MaxSessions

(* startSession() puts its session into the map, over one that is there.      *)
Opened(sessions, resume) ==
    LET g == Cardinality(Used) + 1 IN
    /\ session' = [sessions EXCEPT ![g] = Session("live", resume)]
    /\ current' = g

(* The session in the map is aborted, its input ended and its entry deleted.  *)
Unmapped ==
    /\ session' = [g \in Generations |->
           IF g = current /\ session[g].pc = "live"
           THEN [session[g] EXCEPT !.pc = "aborted"] ELSE session[g]]
    /\ current' = 0

At(g, pc) == session[g].pc = pc

(* Whether a session resumes another matters until its error is caught.       *)
GoTo(g, pc) ==
    session' = [session EXCEPT
        ![g] = Session(pc, @.resume /\ pc \in {"ending", "failing"})]

(* abort() unsubscribes, so a message on its way is not received any more.    *)
AbortFrom(box) ==
    /\ Unmapped
    /\ Unsaved("error")
    /\ subscribed' = FALSE
    /\ inbox' = box \ {"completed", "failed"}
    /\ remote' = Accept("failed", remote)
    /\ UNCHANGED <<codex, starts, look, faults>>

(* The SDK of Claude throws when it is aborted, the Codex back end leaves its *)
(* loop as if the turn had ended.                                             *)
MayEnd(g) == At(g, "live") \/ (codex /\ At(g, "aborted"))

Superseded(g) == current \notin {0, g}

(* The loop ends but a newer session is in the map, or the worker waits for   *)
(* an answer: nothing is reported.                                            *)
LeaveQuietly(g) ==
    /\ MayEnd(g)
    /\ Superseded(g) \/ status = "waiting"
    /\ GoTo(g, "cleanup")
    /\ NoReport
    /\ UNCHANGED <<codex, status, disk, current, starts, look, faults>>

(* No authentication, no budget, no deliverable, or a question in the mode    *)
(* that turns a question into a retry.                                        *)
EndFailed(g) ==
    /\ MayEnd(g) /\ ~Superseded(g) /\ status # "waiting"
    /\ Saved("error")
    /\ Report("failed")
    /\ GoTo(g, "cleanup")
    /\ UNCHANGED <<codex, current, starts, look, faults>>

(* The session did its work: git statistics, write-back and verification are  *)
(* awaited before the completion is reported.                                 *)
EndWell(g) ==
    /\ MayEnd(g) /\ ~Superseded(g) /\ status # "waiting"
    /\ GoTo(g, "ending")
    /\ NoReport
    /\ UNCHANGED <<codex, status, disk, current, starts, look, faults>>

(* 'done' is set after the report, also when its answer was 409.              *)
Complete(g) ==
    /\ At(g, "ending")
    /\ Saved("done")
    /\ Report("completed")
    /\ GoTo(g, "cleanup")
    /\ UNCHANGED <<codex, current, starts, look, faults>>

(* The agent fails or is aborted, or the server refuses the completion.       *)
Throw(g) ==
    /\ \/ At(g, "live") \/ At(g, "aborted")
       \/ At(g, "ending") /\ remote \in RemoteLive
    /\ GoTo(g, "failing")
    /\ NoReport
    /\ UNCHANGED <<codex, status, disk, current, starts, look, faults>>

(* The catch block asks the server first: a completed worker is done.         *)
CatchCompleted(g) ==
    /\ At(g, "failing") /\ remote = "completed"
    /\ Saved("done")
    /\ NoReport
    /\ GoTo(g, "cleanup")
    /\ UNCHANGED <<codex, current, starts, look, faults>>

(* Mutant: the failure is shown, not reported.                                *)
CatchFailedSilently(g) ==
    /\ At(g, "failing")
    /\ Saved("error")
    /\ NoReport
    /\ GoTo(g, IF session[g].resume THEN "rethrow" ELSE "cleanup")
    /\ UNCHANGED <<codex, current, starts, look, faults>>

(* Otherwise, and when the look-up fails, it reports the failure; the error   *)
(* of a resumption is thrown again to the caller.                             *)
CatchFailed(g) ==
    /\ At(g, "failing")
    /\ Saved("error")
    /\ Report("failed")
    /\ GoTo(g, IF session[g].resume THEN "rethrow" ELSE "cleanup")
    /\ UNCHANGED <<codex, current, starts, look, faults>>

(* Mutant: the entry stays in the map.                                        *)
ReturnKeepsEntry(g) ==
    /\ GoTo(g, "over")
    /\ UNCHANGED <<status, disk, current>>

(* The end of startSession(): a resumption that failed is followed at once by *)
(* a session with reconstructed context.                                      *)
Return(g) ==
    IF At(g, "rethrow") \/ At(g, "redelete")
    THEN /\ Unsaved("working")
         /\ Opened([session EXCEPT ![g].pc = "over"], FALSE)
    ELSE /\ GoTo(g, "over")
         /\ current' = 0
         /\ UNCHANGED <<status, disk>>

(* The finally block takes whatever session is in the map and ends its input; *)
(* it awaits the removal of the worktree before it deletes the entry.         *)
Cleanup(g) ==
    /\ At(g, "cleanup") \/ At(g, "rethrow")
    /\ \/ /\ current = 0
          /\ Return(g)
       \/ /\ current # 0
          /\ GoTo(g, IF At(g, "rethrow") THEN "redelete" ELSE "delete")
          /\ UNCHANGED <<status, disk, current>>
    /\ NoReport
    /\ UNCHANGED <<codex, starts, look, faults>>

DeleteEntry(g) ==
    /\ At(g, "delete") \/ At(g, "redelete")
    /\ Return(g)
    /\ NoReport
    /\ UNCHANGED <<codex, starts, look, faults>>

(* The agent asks a question: the worker waits, its session still open.       *)
Ask(g) ==
    /\ At(g, "live")
    /\ Saved("waiting")
    /\ Report("waiting_input")
    /\ UNCHANGED <<codex, current, session, starts, look, faults>>

-----------------------------------------------------------------------------
(* Requests: a claim, the user's commands, and the calls of startSession that *)
(* follow an await of theirs.                                                 *)

(* The worktree is awaited before the session is started.                     *)
Claim ==
    /\ status = "absent" /\ remote = "none" /\ Spare
    /\ Saved("working")
    /\ remote' = "active"
    /\ subscribed' = TRUE
    /\ starts' = starts \cup {"claim"}
    /\ UNCHANGED <<codex, current, session, inbox, look, faults>>

(* Another Codex worker of the workspace is working: the claim is failed.     *)
Defer ==
    /\ codex /\ status = "absent" /\ remote = "none"
    /\ remote' = "failed"
    /\ UNCHANGED <<codex, status, disk, current, session, starts, inbox, subscribed,
                   look, faults>>

(* The user aborts, or the server's command; the latter respects an end.      *)
AbortRequest == status # "absent" /\ AbortFrom(inbox)

(* What retry(), the doctor and a follow-up message do before they await the  *)
(* answer to 'running'.                                                       *)
Restart(k) ==
    /\ k \notin starts /\ Spare
    /\ Saved("working")
    /\ Report("running")
    /\ starts' = starts \cup {k}
    /\ UNCHANGED <<codex, look, faults>>

Retry == status # "absent" /\ Unmapped /\ Restart("retry")

(* The doctor leaves the session in the map alone.                            *)
Doctor ==
    /\ status # "absent"
    /\ Restart("doctor")
    /\ UNCHANGED <<current, session>>

(* A message to a worker that ended, or that waits without a session, starts  *)
(* a new one; the session that lingers is aborted first.                      *)
FollowUp ==
    /\ status \in Ended \/ (status = "waiting" /\ current = 0)
    /\ Unmapped
    /\ Restart("message")

(* The answer to a question goes to the open session.                         *)
Answer ==
    /\ status = "waiting" /\ current # 0
    /\ Unsaved("working")
    /\ Report("running")
    /\ UNCHANGED <<codex, current, session, starts, look, faults>>

MarkDone ==
    /\ status # "absent"
    /\ Unsaved("done")
    /\ Report("completed")
    /\ UNCHANGED <<codex, current, session, starts, look, faults>>

(* The awaited call is over and the session starts, whatever the worker's     *)
(* status is by now.  A message resumes the agent's own session if it has one.*)
StartSession(k) ==
    /\ k \in starts
    /\ starts' = starts \ {k}
    /\ \E resume \in BOOLEAN :
         /\ resume => k = "message"
         /\ Opened(session, resume)
    /\ NoReport
    /\ UNCHANGED <<codex, status, disk, look, faults>>

(* The workspace has no path any more.                                        *)
NoWorkspace(k) ==
    /\ k \in starts \cap {"retry", "message"}
    /\ starts' = starts \ {k}
    /\ Unsaved("error")
    /\ Report("failed")
    /\ UNCHANGED <<codex, current, session, look, faults>>

-----------------------------------------------------------------------------
(* The server's decisions, and how the runner learns of them.                 *)

(* The agent calls complete_task.                                             *)
AgentCompletes ==
    /\ \E g \in Generations : At(g, "live")
    /\ remote \in RemoteLive
    /\ Report("completed")
    /\ UNCHANGED <<codex, status, disk, current, session, starts, look, faults>>

(* The task is cancelled, reassigned or taken over, or the worker expires.    *)
ServerFails ==
    /\ remote \in RemoteLive
    /\ \E r \in {"failed", "sealed"} :
         remote' = r /\ inbox' = inbox \cup Pushed(r)
    /\ UNCHANGED <<codex, status, disk, current, session, starts, subscribed, look, faults>>

(* Every 10 seconds.  A 409 comes back as an abort answer.                    *)
Sync ==
    /\ status \in Active
    /\ LET s == IF status = "waiting" THEN "waiting_input" ELSE "running"
           abort == Accept(s, remote) \in RemoteEnded
       IN \E answer \in (IF remote = "completed" THEN {"finished"}
                         ELSE {"finished", "terminated"}) :
            ReportFrom(inbox \cup (IF abort THEN {answer} ELSE {}), s)
    /\ UNCHANGED <<codex, status, disk, current, session, starts, look, faults>>

(* Completed, or failed with deliverables: the session is left to finish.     *)
AnswerFinished ==
    /\ "finished" \in inbox
    /\ Unsaved("done")
    /\ inbox' = inbox \ {"finished"}
    /\ UNCHANGED <<codex, current, session, starts, subscribed, remote, look, faults>>

AnswerTerminated ==
    /\ "terminated" \in inbox
    /\ AbortFrom(inbox \ {"terminated"})

PushCompleted ==
    /\ "completed" \in inbox
    /\ inbox' = inbox \ {"completed"}
    /\ IF status = "done" THEN UNCHANGED <<status, disk>> ELSE Saved("done")
    /\ UNCHANGED <<codex, current, session, starts, subscribed, remote, look, faults>>

PushFailed ==
    /\ "failed" \in inbox
    /\ \/ /\ status \notin Ended
          /\ AbortFrom(inbox \ {"failed"})
       \/ /\ status \in Ended
          /\ inbox' = inbox \ {"failed"}
          /\ UNCHANGED <<codex, status, disk, current, session, starts, subscribed,
                         remote, look, faults>>

(* Mutant: only a session can be stale.                                       *)
CheckStaleSession == status = "working" /\ current # 0 /\ AbortFrom(inbox)

(* Every 30 seconds: an idle worker whose session does not answer a probe, or *)
(* that has no session, is aborted.                                           *)
CheckStale == status = "working" /\ AbortFrom(inbox)

(* At start-up and every 10 minutes the server is asked for the workers that  *)
(* are active here.  The answer ends one if the worker has ended there, or    *)
(* its task has: people end a task, another worker does, and so does a CI     *)
(* retry too many.  (Another answer changes nothing and has no step.)         *)
LookUp ==
    /\ look = "none" /\ status \in Active
    /\ look' = IF remote = "completed" THEN "completed" ELSE "ended"
    /\ NoReport
    /\ UNCHANGED <<codex, status, disk, current, session, starts, faults>>

(* Mutant: a worker that failed on the server is left alone.                  *)
ReconcileCompleted ==
    /\ look # "none" /\ look' = "none"
    /\ IF look = "completed" THEN Unmapped /\ Unsaved("done")
       ELSE UNCHANGED <<status, disk, current, session>>
    /\ NoReport
    /\ UNCHANGED <<codex, starts, faults>>

(* The server's row, once an error is shown here that nobody reported.        *)
Dropped == IF remote \in RemoteEnded THEN remote ELSE "dropped"

(* The answer is applied whatever has become of the worker since, and nothing *)
(* is reported.  A task that ended was completed or failed.                   *)
Reconcile ==
    /\ look # "none" /\ look' = "none"
    /\ Unmapped
    /\ \/ Unsaved("done") /\ UNCHANGED remote
       \/ look = "ended" /\ Unsaved("error") /\ remote' = Dropped
    /\ UNCHANGED <<codex, starts, inbox, subscribed, faults>>

(* A look-up that fails counts as a worker the server does not know.          *)
ReconcileUnknown ==
    /\ look # "none" /\ look' = "none"
    /\ faults < MaxFaults /\ faults' = faults + 1
    /\ Unsaved("error")
    /\ remote' = Dropped
    /\ UNCHANGED <<codex, current, session, starts, inbox, subscribed>>

(* The process dies and starts again from the files.  A worker that was       *)
(* working is failed, one that waits goes on waiting.                         *)
RestartProcess ==
    /\ faults < MaxFaults
    /\ faults' = faults + 1
    /\ session' = [g \in Generations |->
           Session(IF g \in Used THEN "over" ELSE "none", FALSE)]
    /\ current' = 0 /\ starts' = {} /\ inbox' = {} /\ subscribed' = FALSE /\ look' = "none"
    /\ status' = IF disk = "working" THEN "error" ELSE disk
    /\ remote' = IF disk = "working" THEN Accept("failed", remote) ELSE remote
    /\ UNCHANGED <<codex, disk>>

(* Every 5 seconds the workers that changed are written.                      *)
Persist ==
    /\ status # "absent"
    /\ disk' = status
    /\ UNCHANGED <<codex, status, current, session, starts, inbox, subscribed, remote,
                   look, faults>>

-----------------------------------------------------------------------------
SessionStep(g) ==
    \/ LeaveQuietly(g) \/ EndFailed(g) \/ EndWell(g) \/ Complete(g) \/ Throw(g)
    \/ CatchCompleted(g) \/ CatchFailed(g) \/ Cleanup(g) \/ DeleteEntry(g) \/ Ask(g)

Request ==
    \/ Claim \/ Defer \/ AbortRequest \/ Retry \/ Doctor \/ FollowUp \/ Answer
    \/ MarkDone
    \/ \E k \in starts : StartSession(k) \/ NoWorkspace(k)

ServerStep ==
    \/ AgentCompletes \/ ServerFails \/ Sync \/ AnswerFinished \/ AnswerTerminated
    \/ PushCompleted \/ PushFailed

Timer == CheckStale \/ LookUp \/ Reconcile \/ ReconcileUnknown \/ Persist

Next ==
    \/ \E g \in Generations : SessionStep(g)
    \/ Request
    \/ ServerStep
    \/ Timer
    \/ RestartProcess

Spec == Init /\ [][Next]_vars

-----------------------------------------------------------------------------
Quiet == starts = {} /\ Under = {}

(* The timers go on.  checkStale() is only sure to find a worker idle when    *)
(* nothing runs for it.                                                       *)
Zombie == status = "working" /\ Quiet

LiveSpec ==
    /\ Spec
    /\ WF_vars(Zombie /\ CheckStale)
    /\ WF_vars(remote \in RemoteEnded /\ LookUp)
    /\ WF_vars(Reconcile)

Statuses == {"absent"} \cup Active \cup Ended
Steps == {"none", "live", "aborted", "ending", "failing", "cleanup", "delete",
          "rethrow", "redelete", "over"}

(* The values the variables range over; the session in the map was started    *)
(* and has not returned.                                                      *)
TypeOK ==
    /\ codex \in BOOLEAN
    /\ status \in Statuses /\ disk \in Statuses
    /\ current \in 0..MaxSessions
    /\ session \in [Generations -> [pc : Steps, resume : BOOLEAN]]
    /\ starts \in SUBSET {"claim", "retry", "doctor", "message"}
    /\ inbox \in SUBSET {"completed", "failed", "finished", "terminated"}
    /\ subscribed \in BOOLEAN
    /\ remote \in {"none"} \cup RemoteLive \cup RemoteEnded
    /\ look \in {"none", "completed", "ended"}
    /\ faults \in 0..MaxFaults
    /\ current # 0 => current \in Under

(* A worker that shows an error, with nothing under way for it, has ended on  *)
(* the server too, whatever answers, messages, aborts and restarted sessions  *)
(* crossed: every path that ends it reports.  One does not: a reconciliation  *)
(* whose answer told of an ended task, or was overtaken by a reactivation,    *)
(* ends the worker here and leaves its row to the server's clean-up.  Nor may *)
(* the process have been restarted.                                           *)
NotForgotten ==
    faults = 0 /\ Quiet /\ status = "error" => remote \in RemoteEnded \cup {"dropped"}

(* A worker left working with nothing running for it, for instance because an *)
(* old session deleted the entry of the one that carried it, is aborted in    *)
(* the end, also after restarts: it does not hold its slot for ever.          *)
NoZombie == Zombie ~> ~Zombie

(* A worker that ended on the server stops being active here although every   *)
(* push was lost and look-ups are overtaken, unless it is reactivated.        *)
Reconciled ==
    status \in Active /\ remote \in RemoteEnded
        ~> status \notin Active \/ remote \notin RemoteEnded

==============================================================================
