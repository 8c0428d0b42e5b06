---------------------------- MODULE RunnerClaims ----------------------------
(* How a runner takes work (apps/runner/src/workers.ts, claim-breaker.ts,     *)
(* pusher-manager.ts): its polls, the tasks pushed to it, its limit on        *)
(* concurrent workers, and the breaker that pauses claims after failures.     *)
(*                                                                            *)
(* The runner is one JavaScript process: a step is the code between two       *)
(* awaits.  A claim reads the free slots before it asks the server, and       *)
(* starts the workers of the answer one by one, with awaits in between; a     *)
(* session that ends sets its worker's status, reports it, cleans up, and     *)
(* only then comes to the breaker at the end of its finally block.            *)
(*                                                                            *)
(* Deadlines are what is left of them, counted down by Tick; 0 is over.       *)
(* RunnerWorker models one worker in detail, TaskLease the server's side.     *)
EXTENDS Naturals, FiniteSets

CONSTANTS
    Rows,          \* the worker rows the server may hand out
    TenantRows,    \* those whose task runs with the credential of a tenant
    CodexRows,     \* those whose task runs on Codex, all in one workspace
    Requests,      \* claims that can be under way together
    MaxConcurrent, \* the runner's limit on active workers
    MaxFailures,   \* auth failures in a row from which on the pause is longest
    Backoff,       \* the pause after that many auth failures in a row
    MaxPause       \* bound: the longest pause

ASSUME ClaimsAssumption ==
    /\ IsFiniteSet(Rows) /\ TenantRows \subseteq Rows /\ CodexRows \subseteq Rows
    /\ MaxConcurrent \in Nat \ {0}
    /\ MaxPause \in Nat \ {0}
    /\ MaxFailures \in Nat \ {0}
    /\ Backoff \in [1..MaxFailures -> 1..MaxPause]

VARIABLES
    status,       \* the workers of the rows in this runner's memory
    outcome,      \* what the error of a worker says, or that its session is clean
    ending,       \* its sessions that have ended and not come to the breaker
    labelled,     \* the workers in workerAuthContexts
    request,      \* the claims under way
    claimsPaused, \* the flag of the global breaker
    left,         \* what is left of claimsPausedUntil
    quick,        \* consecutiveQuickFailures, 3 for any more
    authFailures, \* consecutiveAuthFailures
    contextLeft,  \* what is left of the pause of each auth context
    resumed,      \* history: workers that people made active again
    owed,         \* history: what is left of the longest pause for auth failures
    shortened     \* history: another pause has cut that one short

workers == <<status, outcome, ending, labelled, resumed>>
breaker == <<claimsPaused, left, quick, authFailures, contextLeft, owed, shortened>>
vars == <<workers, request, breaker>>

Contexts == {"account", "tenant"}
Failures == {"auth", "context", "global", "rapid", "other"}

Idle == [pc |-> "idle", kind |-> "none", slots |-> 0, rows |-> {}, alone |-> FALSE]

Init ==
    /\ status = [w \in Rows |-> "none"]
    /\ outcome = [w \in Rows |-> "none"]
    /\ ending = [w \in Rows |-> 0]
    /\ labelled = {} /\ resumed = {}
    /\ request = [p \in Requests |-> Idle]
    /\ claimsPaused = FALSE /\ left = 0
    /\ quick = 0 /\ authFailures = 0
    /\ contextLeft = [c \in Contexts |-> 0]
    /\ owed = 0 /\ shortened = FALSE

Active == {w \in Rows : status[w] = "working"}
(* Mutant: the workers that are already active are not counted. *)
FreeAll == MaxConcurrent

Free == IF Cardinality(Active) < MaxConcurrent
        THEN MaxConcurrent - Cardinality(Active) ELSE 0

Larger(a, b) == IF a < b THEN b ELSE a
Pauses == 1..MaxPause

-----------------------------------------------------------------------------
(* Claims.                                                                    *)

(* A claim is alone while no other claim was under way and no worker was made *)
(* active otherwise since it has read the free slots.                         *)
Crowded == [q \in Requests |-> [request[q] EXCEPT !.alone = FALSE]]

Send(p, kind, slots, rows) ==
    request' = [Crowded EXCEPT ![p] =
        [pc |-> "sent", kind |-> kind, slots |-> slots, rows |-> rows,
         alone |-> slots <= Free
                   /\ \A q \in Requests \ {p} : request[q].pc = "idle"]]

(* claimPendingTasks() until it asks the server: a pause that is over is      *)
(* lifted here, and only here.                                                *)
PollWith(p, strikes) ==
    /\ request[p].pc = "idle"
    /\ \/ /\ claimsPaused /\ left > 0
          /\ quick' = strikes
          /\ UNCHANGED <<claimsPaused, authFailures, request>>
       \/ /\ ~claimsPaused \/ left = 0
          /\ claimsPaused' = FALSE
          /\ quick' = IF claimsPaused THEN 0 ELSE strikes
          /\ authFailures' = IF claimsPaused THEN 0 ELSE authFailures
          /\ IF Free > 0 THEN Send(p, "poll", Free, {}) ELSE UNCHANGED request
    /\ UNCHANGED <<left, contextLeft, owed, shortened>>

(* A heartbeat, the hourly timer, the end of a budget's exhaustion, a new     *)
(* connection to Pusher.                                                      *)
Poll(p) == PollWith(p, quick) /\ UNCHANGED workers

(* A task pushed to the runner.  What is pushed has no context, so it passes  *)
(* for a task of the account.                                                 *)
Push(p) ==
    /\ request[p].pc = "idle"
    /\ Free > 0
    /\ contextLeft["account"] = 0
    /\ \E w \in Rows : status[w] = "none" /\ Send(p, "task", 1, {w})
    /\ UNCHANGED <<workers, breaker>>

ContextOf(w) == IF w \in TenantRows THEN "tenant" ELSE "account"

(* A task the user of the runner chooses, whatever the limit.                 *)
Choose(p) ==
    /\ request[p].pc = "idle"
    /\ \E w \in Rows : /\ status[w] = "none" /\ contextLeft[ContextOf(w)] = 0
                       /\ Send(p, "task", 1, {w})
    /\ UNCHANGED <<workers, breaker>>

(* The server answers with workers, with none, or not at all.                 *)
Grant(p) ==
    /\ request[p].pc = "sent"
    /\ \E given \in (SUBSET {w \in Rows : status[w] = "none"}) \ {{}} :
          /\ Cardinality(given) <= request[p].slots
          /\ request[p].kind = "task" => given \subseteq request[p].rows
          /\ status' = [w \in Rows |-> IF w \in given THEN "handed" ELSE status[w]]
          /\ request' = [request EXCEPT
                ![p] = [@ EXCEPT !.pc = "starting", !.kind = "none", !.slots = 0, !.rows = given]]
    /\ UNCHANGED <<outcome, ending, labelled, resumed, breaker>>

Refuse(p) ==
    /\ request[p].pc = "sent"
    /\ request' = [request EXCEPT ![p] = Idle]
    /\ UNCHANGED <<workers, breaker>>

PausedFor(c, d) == contextLeft' = [contextLeft EXCEPT ![c] = Larger(@, d)]

(* The server says that the budget of the account is exhausted.               *)
Exhausted(p) ==
    /\ request[p].pc = "sent" /\ request[p].kind = "poll"
    /\ request' = [request EXCEPT ![p] = Idle]
    /\ \E d \in Pauses : PausedFor("account", d)
    /\ UNCHANGED <<workers, claimsPaused, left, quick, authFailures, owed, shortened>>

(* Mutant: only one worker of the answer is started. *)
TakeOne(p, w) ==
    /\ request[p].pc = "starting" /\ w \in request[p].rows
    /\ request' = [request EXCEPT ![p] = Idle]
    /\ UNCHANGED <<outcome, ending, resumed, breaker>>

(* The next worker of the answer.                                             *)
Take(p, w) ==
    /\ request[p].pc = "starting" /\ w \in request[p].rows
    /\ request' = [request EXCEPT ![p] =
          IF @.rows = {w} THEN Idle ELSE [@ EXCEPT !.rows = request[p].rows \ {w}]]
    /\ UNCHANGED <<outcome, ending, resumed, breaker>>

(* Mutant: an off-by-one in the search for an active Codex worker. *)
CodexCrowded(w) == w \in CodexRows /\ Cardinality(Active \cap CodexRows) > 1

CodexBusy(w) == w \in CodexRows /\ Active \cap CodexRows # {}

Start(p, w) ==
    /\ Take(p, w)
    /\ ~CodexBusy(w)
    /\ status' = [status EXCEPT ![w] = "working"]
    /\ labelled' = labelled \cup {w}

Defer(p, w) ==
    /\ Take(p, w)
    /\ CodexBusy(w)
    /\ status' = [status EXCEPT ![w] = "refused"]
    /\ labelled' = labelled \cup {w}

(* The workspace of the task is not on this machine.                          *)
Unresolved(p, w) ==
    /\ Take(p, w)
    /\ status' = [status EXCEPT ![w] = "refused"]
    /\ UNCHANGED labelled

(* The answer has no task for the worker: it is passed over, unreported.      *)
Skip(p, w) ==
    /\ Take(p, w)
    /\ status' = [status EXCEPT ![w] = "abandoned"]
    /\ UNCHANGED labelled

(* An exception, as when the role's configuration is not to be downloaded,    *)
(* ends the claim: what is left of its answer is neither started nor refused. *)
Abandon(p) ==
    /\ request[p].pc = "starting"
    /\ status' = [w \in Rows |-> IF w \in request[p].rows THEN "abandoned" ELSE status[w]]
    /\ request' = [request EXCEPT ![p] = Idle]
    /\ UNCHANGED <<outcome, ending, labelled, resumed, breaker>>

-----------------------------------------------------------------------------
(* Sessions.                                                                  *)

SetWorker(w, s, o) ==
    /\ status' = [status EXCEPT ![w] = s]
    /\ outcome' = [outcome EXCEPT ![w] = o]
    /\ UNCHANGED labelled

(* The agent asks and waits, which frees its slot.                            *)
Ask(w) ==
    /\ status[w] = "working" /\ outcome[w] = "none"
    /\ SetWorker(w, "waiting", "none")
    /\ UNCHANGED <<ending, resumed, request, breaker>>

(* People make a worker active again, whatever the limit: an answer, a        *)
(* follow-up or a retry.  Bound: once per worker.                             *)
Resume(w) ==
    /\ w \notin resumed
    /\ \/ status[w] = "waiting"
       \/ status[w] \in {"done", "error"} /\ w \in labelled
    /\ SetWorker(w, "working", "none")
    /\ resumed' = resumed \cup {w}
    /\ request' = Crowded
    /\ UNCHANGED <<ending, breaker>>

(* The output shows no auth failure: the credential works.                    *)
Clean(w) ==
    /\ status[w] = "working" /\ outcome[w] = "none"
    /\ SetWorker(w, "working", "clean")
    /\ authFailures' = 0
    /\ UNCHANGED <<ending, resumed, request, claimsPaused, left, quick,
                   contextLeft, owed, shortened>>

Ended(w, s, o) ==
    /\ SetWorker(w, s, o)
    /\ ending' = [ending EXCEPT ![w] = @ + 1]
    /\ UNCHANGED <<resumed, request, breaker>>

(* The session has completed, or has failed and the server says otherwise.    *)
Complete(w) == status[w] = "working" /\ Ended(w, "done", "none")

(* The session has failed, or was aborted; k is the class of its error.       *)
Fail(w, k) == status[w] \in {"working", "waiting"} /\ Ended(w, "error", k)

(* The user clears the list: workers that have ended are forgotten.           *)
Purge ==
    /\ \E w \in labelled : status[w] \in {"done", "error"}
    /\ labelled' = {w \in labelled : status[w] \notin {"done", "error"}}
    /\ UNCHANGED <<status, outcome, ending, resumed, request, breaker>>

-----------------------------------------------------------------------------
(* The breaker.                                                               *)

(* A pause of all claims, whatever is left of another.                        *)
PauseAll(d) ==
    /\ claimsPaused' = TRUE
    /\ left' = d
    /\ shortened' = (d < owed)
    /\ UNCHANGED owed

(* The SDK says that the rate limit rejects a session; its last messages may  *)
(* come after the worker waits or has failed.                                 *)
RateRejected(w) ==
    /\ status[w] \in {"working", "waiting", "error"}
    /\ \E d \in Pauses : PauseAll(d)
    /\ UNCHANGED <<workers, request, quick, authFailures, contextLeft>>

(* The end of a finally block: it reads what the worker has become meanwhile. *)
(* The error is not read again after the last of them.                        *)
Settle(w) ==
    /\ ending[w] > 0
    /\ ending' = [ending EXCEPT ![w] = @ - 1]
    /\ outcome' = [outcome EXCEPT
          ![w] = IF ending[w] = 1 /\ status[w] = "error" THEN "none" ELSE @]
    /\ UNCHANGED <<status, labelled, resumed>>

Failed(w, k) == status[w] = "error" /\ outcome[w] = k

(* workerAuthContexts.get(worker.id) ?? 'account'                             *)
LabelOf(w) == IF w \in labelled THEN ContextOf(w) ELSE "account"

NextFailure == IF authFailures < MaxFailures THEN authFailures + 1 ELSE MaxFailures

(* Mutant: the pause of all claims replaces a longer one. *)
SettleAuthFlat(w) ==
    /\ Settle(w) /\ Failed(w, "auth")
    /\ authFailures' = NextFailure
    /\ PausedFor(LabelOf(w), Backoff[NextFailure])
    /\ claimsPaused' = TRUE
    /\ left' = Backoff[NextFailure]
    /\ owed' = Larger(owed, Backoff[NextFailure])
    /\ shortened' = shortened
    /\ quick' = 0
    /\ UNCHANGED request

(* handleAuthFailure(): the context and all claims pause, longer each time.   *)
SettleAuth(w) ==
    /\ Settle(w) /\ Failed(w, "auth")
    /\ authFailures' = NextFailure
    /\ PausedFor(LabelOf(w), Backoff[NextFailure])
    /\ claimsPaused' = TRUE
    /\ left' = Larger(left, Backoff[NextFailure])
    /\ owed' = Larger(owed, Backoff[NextFailure])
    /\ shortened' = (left' < owed')
    /\ quick' = 0
    /\ UNCHANGED request

(* Quota, session limit, billing, budget.                                     *)
SettleContext(w) ==
    /\ Settle(w) /\ Failed(w, "context")
    /\ \E d \in Pauses : PausedFor(LabelOf(w), d)
    /\ UNCHANGED <<request, claimsPaused, left, quick, authFailures, owed, shortened>>

(* Rate limit or overload.                                                    *)
SettleGlobal(w) ==
    /\ Settle(w) /\ Failed(w, "global")
    /\ \E d \in Pauses : PauseAll(d)
    /\ quick' = 0
    /\ UNCHANGED <<request, authFailures, contextLeft>>

(* A session that failed within seconds; the third in a row pauses claims     *)
(* unless the flag is set, which it is until a poll finds the pause over.     *)
SettleRapid(w) ==
    /\ Settle(w) /\ Failed(w, "rapid")
    /\ quick' = IF quick < 3 THEN quick + 1 ELSE 3
    /\ \/ /\ quick' = 3 /\ ~claimsPaused
          /\ \E d \in Pauses : PauseAll(d)
       \/ /\ quick' < 3 \/ claimsPaused
          /\ UNCHANGED <<claimsPaused, left, owed, shortened>>
    /\ UNCHANGED <<request, authFailures, contextLeft>>

(* A failure of some length, or the worker has become active meanwhile.       *)
SettleOther(w) ==
    /\ Settle(w)
    /\ Failed(w, "other") \/ status[w] \in {"working", "waiting"}
    /\ UNCHANGED <<request, breaker>>

SettleDone(w, p) ==
    /\ Settle(w) /\ status[w] = "done"
    /\ PollWith(p, 0)

Less(n) == IF n > 0 THEN n - 1 ELSE 0

Tick ==
    /\ left' = Less(left)
    /\ contextLeft' = [c \in Contexts |-> Less(contextLeft[c])]
    /\ owed' = Less(owed)
    /\ UNCHANGED <<workers, request, claimsPaused, quick, authFailures, shortened>>

-----------------------------------------------------------------------------
ClaimStep(p) ==
    \/ Poll(p) \/ Push(p) \/ Choose(p)
    \/ Grant(p) \/ Refuse(p) \/ Exhausted(p) \/ Abandon(p)
    \/ \E w \in Rows : Start(p, w) \/ Defer(p, w) \/ Unresolved(p, w) \/ Skip(p, w)

WorkerStep(w) ==
    \/ Ask(w) \/ Resume(w) \/ Clean(w) \/ Complete(w) \/ RateRejected(w)
    \/ \E k \in Failures : Fail(w, k)

Settles(w) ==
    \/ SettleAuth(w) \/ SettleContext(w) \/ SettleGlobal(w) \/ SettleRapid(w)
    \/ SettleOther(w)
    \/ \E p \in Requests : SettleDone(w, p)

Next ==
    \/ \E p \in Requests : ClaimStep(p)
    \/ \E w \in Rows : WorkerStep(w) \/ Settles(w)
    \/ Purge
    \/ Tick

Spec == Init /\ [][Next]_vars

-----------------------------------------------------------------------------
(* Properties.                                                                *)

Statuses ==
    {"none", "handed", "abandoned", "refused", "working", "waiting", "done", "error"}

RequestType ==
    [pc : {"idle", "sent", "starting"}, kind : {"none", "poll", "task"},
     slots : 0..MaxConcurrent, rows : SUBSET Rows, alone : BOOLEAN]

WorkersOK ==
    /\ status \in [Rows -> Statuses]
    /\ outcome \in [Rows -> Failures \cup {"none", "clean"}]
    /\ ending \in [Rows -> Nat]
    /\ labelled \subseteq Rows /\ resumed \subseteq Rows

RequestsOK ==
    /\ request \in [Requests -> RequestType]
    /\ \A p \in Requests : /\ request[p].pc = "sent" => request[p].slots > 0
                           /\ request[p].pc = "starting" => request[p].rows # {}

BreakerOK ==
    /\ claimsPaused \in BOOLEAN /\ shortened \in BOOLEAN
    /\ left \in 0..MaxPause /\ owed \in 0..MaxPause
    /\ quick \in 0..3 /\ authFailures \in 0..MaxFailures
    /\ contextLeft \in [Contexts -> 0..MaxPause]

(* A worker of an answer that is neither started nor refused nor abandoned is *)
(* still in the answer: only Skip and Abandon forget one.                     *)
HandedOK ==
    \A w \in Rows : status[w] = "handed" =>
        \E p \in Requests : request[p].pc = "starting" /\ w \in request[p].rows

(* The values the variables range over; an answer is worked through to its    *)
(* last worker, but for an exception.  What an exception abandons is live on  *)
(* the server until its clean-up finds it stale.                              *)
TypeOK == WorkersOK /\ RequestsOK /\ BreakerOK /\ HandedOK

(* The workers a claim may still start.                                       *)
Outstanding(p) ==
    CASE request[p].pc = "idle" -> 0
      [] request[p].pc = "sent" -> request[p].slots
      [] request[p].pc = "starting" -> Cardinality(request[p].rows)

(* A claim that is alone keeps within the limit, however much its workers     *)
(* are deferred, ask or end while it goes on: the slots it asked for are the  *)
(* free ones.  Claims that overlap, answers and follow-ups exceed it.         *)
SlotsKept ==
    \A p \in Requests :
        request[p].alone => Cardinality(Active) + Outstanding(p) <= MaxConcurrent

(* At most one Codex worker is active in a workspace, also when two claims    *)
(* bring one each, but for those that people made active again.               *)
OneCodex ==
    \A v, w \in (Active \cap CodexRows) \ resumed : v = w

(* While the pause that an auth failure asked for lasts, claims stay paused:  *)
(* neither a later failure with a shorter pause, nor the reset of the count,  *)
(* nor a poll ends it early.  Only a rate limit or an overload shortens it.   *)
BackoffKept ==
    owed > 0 /\ ~shortened => claimsPaused /\ left >= owed
=============================================================================
