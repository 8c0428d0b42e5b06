------------------------- MODULE RunnerClaimsProofs -------------------------
(* The properties of RunnerClaims for any rows, claims and limits.            *)
EXTENDS RunnerClaims, FiniteSetTheorems, TLAPS

USE DEF workers, breaker

-----------------------------------------------------------------------------
(* Types.                                                                     *)

LEMMA FreeType == Free \in 0..MaxConcurrent
  <1>1. IsFiniteSet(Active)
    BY FS_Subset, ClaimsAssumption DEF ClaimsAssumption, Active
  <1>2. Cardinality(Active) \in Nat
    BY <1>1, FS_CardinalityType
  <1> QED
    BY <1>2, ClaimsAssumption DEF ClaimsAssumption, Free

LEMMA WorkersKept ==
  ASSUME TypeOK, [Next]_vars
  PROVE  WorkersOK'
  <1> USE DEF TypeOK, WorkersOK, Statuses, Failures
  <1>1. ASSUME NEW p \in Requests, ClaimStep(p)
        PROVE  WorkersOK'
    BY <1>1 DEF ClaimStep, Poll, PollWith, Push, Choose, Grant, Refuse, Exhausted, Abandon,
         Start, Defer, Unresolved, Skip, Take
  <1>2. ASSUME NEW w \in Rows, WorkerStep(w)
        PROVE  WorkersOK'
    BY <1>2 DEF WorkerStep, Ask, Resume, Clean, Complete, RateRejected, Fail, Ended, SetWorker
  <1>3. ASSUME NEW w \in Rows, Settles(w)
        PROVE  WorkersOK'
    <2>1. Settle(w)
      BY <1>3 DEF Settles, SettleAuth, SettleContext, SettleGlobal, SettleRapid, SettleOther,
           SettleDone
    <2>2. ending' \in [Rows -> Nat] /\ outcome' \in [Rows -> Failures \cup {"none", "clean"}]
      BY <2>1 DEF Settle
    <2> QED
      BY <2>1, <2>2 DEF Settle
  <1>4. CASE Purge
    BY <1>4 DEF Purge
  <1>5. CASE Tick
    BY <1>5 DEF Tick
  <1>6. CASE UNCHANGED vars
    BY <1>6 DEF vars
  <1> QED
    BY <1>1, <1>2, <1>3, <1>4, <1>5, <1>6 DEF Next

LEMMA SendTyped ==
  ASSUME TypeOK, NEW p \in Requests, NEW kind \in {"poll", "task"},
         NEW slots \in 1..MaxConcurrent, NEW rows \in SUBSET Rows,
         Send(p, kind, slots, rows)
  PROVE  RequestsOK'
  <1> USE DEF TypeOK, RequestsOK, RequestType
  <1> DEFINE lone == slots <= Free /\ \A q \in Requests \ {p} : request[q].pc = "idle"
  <1>1. lone \in BOOLEAN
    OBVIOUS
  <1>2. Crowded \in [Requests -> RequestType]
    BY DEF Crowded
  <1>3. [pc |-> "sent", kind |-> kind, slots |-> slots, rows |-> rows, alone |-> lone]
           \in RequestType
    BY <1>1, ClaimsAssumption DEF ClaimsAssumption
  <1>4. request' \in [Requests -> RequestType]
    BY <1>2, <1>3 DEF Send
  <1>5. request'[p].pc = "sent" /\ request'[p].slots = slots
    BY <1>2 DEF Send
  <1>6. \A q \in Requests \ {p} : /\ request'[q].pc = request[q].pc
                                  /\ request'[q].slots = request[q].slots
                                  /\ request'[q].rows = request[q].rows
    BY DEF Send, Crowded
  <1> QED
    BY <1>4, <1>5, <1>6

LEMMA IdleTyped == Idle \in RequestType /\ Idle.pc = "idle" /\ Idle.alone = FALSE
  BY ClaimsAssumption DEF ClaimsAssumption, Idle, RequestType

LEMMA ReplacedTyped ==
  ASSUME TypeOK, NEW p \in Requests, NEW r \in RequestType,
         r.pc = "sent" => r.slots > 0, r.pc = "starting" => r.rows # {},
         request' = [request EXCEPT ![p] = r]
  PROVE  RequestsOK'
  BY DEF TypeOK, RequestsOK

LEMMA TakeTyped ==
  ASSUME TypeOK, NEW p \in Requests, NEW w \in Rows, Take(p, w)
  PROVE  RequestsOK'
  <1>1. request[p] \in RequestType /\ request[p].pc = "starting"
    BY DEF TypeOK, RequestsOK, Take
  <1>2. CASE request[p].rows = {w}
    <2>1. request' = [request EXCEPT ![p] = Idle]
      BY <1>2 DEF Take
    <2> QED
      BY <2>1, IdleTyped, ReplacedTyped
  <1>3. CASE request[p].rows # {w}
    <2> DEFINE r == [request[p] EXCEPT !.rows = request[p].rows \ {w}]
    <2>1. request' = [request EXCEPT ![p] = r]
      BY <1>3 DEF Take
    <2>2. r \in RequestType /\ r.pc = "starting" /\ r.rows = request[p].rows \ {w}
      BY <1>1 DEF RequestType
    <2>3. r.rows # {}
      BY <1>3, <2>2 DEF Take
    <2> HIDE DEF r
    <2> QED
      BY <2>1, <2>2, <2>3, ReplacedTyped
  <1> QED
    BY <1>2, <1>3

LEMMA GrantTyped ==
  ASSUME TypeOK, NEW p \in Requests, Grant(p)
  PROVE  RequestsOK'
  <1>1. PICK given \in (SUBSET Rows) \ {{}} :
          request' = [request EXCEPT ![p] = [request[p] EXCEPT
              !.pc = "starting", !.kind = "none", !.slots = 0, !.rows = given]]
    BY DEF Grant
  <1> DEFINE r == [request[p] EXCEPT !.pc = "starting", !.kind = "none", !.slots = 0,
                                     !.rows = given]
  <1>2. r \in RequestType /\ r.pc = "starting" /\ r.rows # {}
    <2>1. request[p] \in RequestType
      BY DEF TypeOK, RequestsOK
    <2>2. 0 \in 0..MaxConcurrent
      BY ClaimsAssumption DEF ClaimsAssumption
    <2> QED
      BY <2>1, <2>2 DEF RequestType
  <1> HIDE DEF r
  <1> QED
    BY <1>1, <1>2, ReplacedTyped DEF r

LEMMA PollTyped ==
  ASSUME TypeOK, NEW p \in Requests, NEW strikes \in 0..3, PollWith(p, strikes)
  PROVE  RequestsOK' /\ BreakerOK'
  <1>3. BreakerOK'
    <2>1. quick' \in 0..3 /\ authFailures' \in 0..MaxFailures
      BY ClaimsAssumption DEF ClaimsAssumption, PollWith, TypeOK, BreakerOK
    <2>2. claimsPaused' \in BOOLEAN
      BY DEF PollWith, TypeOK, BreakerOK
    <2> QED
      BY <2>1, <2>2 DEF PollWith, TypeOK, BreakerOK
  <1>1. CASE UNCHANGED request
    BY <1>1, <1>3 DEF TypeOK, RequestsOK
  <1>2. CASE Free > 0 /\ Send(p, "poll", Free, {})
    <2>1. Free \in 1..MaxConcurrent
      BY <1>2, FreeType, ClaimsAssumption DEF ClaimsAssumption
    <2>2. RequestsOK'
      BY <1>2, <2>1, SendTyped
    <2> QED
      BY <2>2, <1>3
  <1> QED
    BY <1>1, <1>2 DEF PollWith

LEMMA RequestsKept ==
  ASSUME TypeOK, [Next]_vars
  PROVE  RequestsOK'
  <1>1. ASSUME NEW p \in Requests, ClaimStep(p)
        PROVE  RequestsOK'
    <2>1. CASE Poll(p)
      BY <2>1, PollTyped DEF Poll, TypeOK, BreakerOK
    <2>2. CASE Push(p) \/ Choose(p)
      <3>1. PICK w \in Rows : Send(p, "task", 1, {w})
        BY <2>2 DEF Push, Choose
      <3> QED
        BY <3>1, SendTyped, ClaimsAssumption DEF ClaimsAssumption
    <2>3. CASE Grant(p)
      BY <2>3, GrantTyped
    <2>4. CASE Refuse(p) \/ Exhausted(p) \/ Abandon(p)
      BY <2>4, IdleTyped, ReplacedTyped DEF Refuse, Exhausted, Abandon
    <2>5. ASSUME NEW w \in Rows, Start(p, w) \/ Defer(p, w) \/ Unresolved(p, w) \/ Skip(p, w)
          PROVE  RequestsOK'
      BY <2>5, TakeTyped DEF Start, Defer, Unresolved, Skip
    <2> QED
      BY <1>1, <2>1, <2>2, <2>3, <2>4, <2>5 DEF ClaimStep
  <1>2. ASSUME NEW w \in Rows, Resume(w)
        PROVE  RequestsOK'
    BY <1>2 DEF Resume, Crowded, TypeOK, RequestsOK, RequestType
  <1>3. ASSUME NEW w \in Rows, NEW p \in Requests, SettleDone(w, p)
        PROVE  RequestsOK'
    BY <1>3, PollTyped DEF SettleDone
  <1>4. CASE UNCHANGED request
    BY <1>4 DEF TypeOK, RequestsOK
  <1> QED
    BY <1>1, <1>2, <1>3, <1>4
       DEF Next, vars, WorkerStep, Ask, Clean, Complete, RateRejected, Fail, Ended, Settles,
           SettleAuth, SettleContext, SettleGlobal, SettleRapid, SettleOther, Purge, Tick

LEMMA LargerType == \A n \in Nat : \A a, b \in 0..n : Larger(a, b) \in 0..n
  BY DEF Larger

LEMMA LessType == \A n \in Nat : \A a \in 0..n : Less(a) \in 0..n
  BY DEF Less

LEMMA PausedForType ==
  ASSUME TypeOK, NEW c \in Contexts, NEW d \in 0..MaxPause, PausedFor(c, d)
  PROVE  contextLeft' \in [Contexts -> 0..MaxPause]
  <1>1. contextLeft \in [Contexts -> 0..MaxPause] /\ MaxPause \in Nat
    BY ClaimsAssumption DEF ClaimsAssumption, TypeOK, BreakerOK
  <1>2. Larger(contextLeft[c], d) \in 0..MaxPause
    BY <1>1, LargerType
  <1> QED
    BY <1>1, <1>2 DEF PausedFor

LEMMA PauseAllType ==
  ASSUME TypeOK, NEW d \in Pauses, PauseAll(d)
  PROVE  /\ claimsPaused' \in BOOLEAN /\ shortened' \in BOOLEAN
         /\ left' \in 0..MaxPause /\ owed' \in 0..MaxPause
  BY ClaimsAssumption DEF ClaimsAssumption, PauseAll, Pauses, TypeOK, BreakerOK

LEMMA LabelType == \A w : LabelOf(w) \in Contexts
  BY DEF LabelOf, ContextOf, Contexts

LEMMA BackoffType ==
  ASSUME TypeOK
  PROVE  NextFailure \in 0..MaxFailures /\ Backoff[NextFailure] \in 0..MaxPause
  <1>1. NextFailure \in 1..MaxFailures
    BY ClaimsAssumption DEF ClaimsAssumption, NextFailure, TypeOK, BreakerOK
  <1> QED
    BY <1>1, ClaimsAssumption DEF ClaimsAssumption

LEMMA BreakerKept ==
  ASSUME TypeOK, [Next]_vars
  PROVE  BreakerOK'
  <1>1. ASSUME NEW p \in Requests, Poll(p)
        PROVE  BreakerOK'
    BY <1>1, PollTyped DEF Poll, TypeOK, BreakerOK
  <1>2. ASSUME NEW p \in Requests, Exhausted(p)
        PROVE  BreakerOK'
    <2>1. contextLeft' \in [Contexts -> 0..MaxPause]
      BY <1>2, PausedForType, ClaimsAssumption
         DEF ClaimsAssumption, Exhausted, Pauses, Contexts
    <2> QED
      BY <1>2, <2>1 DEF Exhausted, TypeOK, BreakerOK
  <1>3. ASSUME NEW w \in Rows, Clean(w)
        PROVE  BreakerOK'
    BY <1>3, ClaimsAssumption DEF ClaimsAssumption, Clean, TypeOK, BreakerOK
  <1>4. ASSUME NEW w \in Rows, RateRejected(w)
        PROVE  BreakerOK'
    BY <1>4, PauseAllType DEF RateRejected, TypeOK, BreakerOK
  <1>5. ASSUME NEW w \in Rows, SettleAuth(w)
        PROVE  BreakerOK'
    <2>1. authFailures' \in 0..MaxFailures /\ quick' \in 0..3
      BY <1>5, BackoffType DEF SettleAuth
    <2>2. contextLeft' \in [Contexts -> 0..MaxPause]
      BY <1>5, BackoffType, LabelType, PausedForType DEF SettleAuth
    <2>3. left' \in 0..MaxPause /\ owed' \in 0..MaxPause
      BY <1>5, BackoffType, LargerType, ClaimsAssumption
         DEF ClaimsAssumption, SettleAuth, TypeOK, BreakerOK
    <2>4. claimsPaused' \in BOOLEAN /\ shortened' \in BOOLEAN
      BY <1>5 DEF SettleAuth
    <2> QED
      BY <2>1, <2>2, <2>3, <2>4 DEF BreakerOK
  <1>6. ASSUME NEW w \in Rows, SettleContext(w)
        PROVE  BreakerOK'
    <2>1. contextLeft' \in [Contexts -> 0..MaxPause]
      BY <1>6, PausedForType, LabelType, ClaimsAssumption
         DEF ClaimsAssumption, SettleContext, Pauses
    <2> QED
      BY <1>6, <2>1 DEF SettleContext, TypeOK, BreakerOK
  <1>7. ASSUME NEW w \in Rows, SettleGlobal(w)
        PROVE  BreakerOK'
    BY <1>7, PauseAllType DEF SettleGlobal, TypeOK, BreakerOK
  <1>8. ASSUME NEW w \in Rows, SettleRapid(w)
        PROVE  BreakerOK'
    <2>1. quick' \in 0..3
      BY <1>8 DEF SettleRapid, TypeOK, BreakerOK
    <2> QED
      BY <1>8, <2>1, PauseAllType DEF SettleRapid, TypeOK, BreakerOK
  <1>9. ASSUME NEW w \in Rows, NEW p \in Requests, SettleDone(w, p)
        PROVE  BreakerOK'
    BY <1>9, PollTyped DEF SettleDone
  <1>10. CASE Tick
    BY <1>10, LessType, ClaimsAssumption DEF ClaimsAssumption, Tick, TypeOK, BreakerOK
  <1>11. CASE UNCHANGED breaker
    BY <1>11 DEF TypeOK, BreakerOK
  <1> QED
    BY <1>1, <1>2, <1>3, <1>4, <1>5, <1>6, <1>7, <1>8, <1>9, <1>10, <1>11
       DEF Next, vars, ClaimStep, Push, Choose, Grant, Refuse, Abandon, Start, Defer, Unresolved,
           Skip, Take, WorkerStep, Ask, Resume, Complete, Fail, Ended, Settles, SettleOther, Purge

(* The rows of an answer only become fewer, by the one that is taken.         *)
LEMMA HandedKept ==
  ASSUME TypeOK, [Next]_vars
  PROVE  HandedOK'
  <1> DEFINE Waits(w) == \E p \in Requests : request[p].pc = "starting" /\ w \in request[p].rows
  <1>1. ASSUME \A p \in Requests : request[p].pc = "starting" =>
                  request'[p].pc = "starting" /\ request'[p].rows = request[p].rows,
               \A w \in Rows : status'[w] = "handed" => status[w] = "handed"
        PROVE  HandedOK'
    BY <1>1 DEF TypeOK, HandedOK
  <1>2. ASSUME NEW p \in Requests, NEW kind, NEW slots, NEW rows,
               request[p].pc = "idle", Send(p, kind, slots, rows), UNCHANGED status
        PROVE  HandedOK'
    <2>1. ASSUME NEW q \in Requests, request[q].pc = "starting"
          PROVE  request'[q].pc = "starting" /\ request'[q].rows = request[q].rows
      BY <1>2, <2>1 DEF Send, Crowded, TypeOK, RequestsOK, RequestType
    <2> QED
      BY <1>1, <1>2, <2>1
  <1>3. ASSUME NEW p \in Requests, NEW strikes, PollWith(p, strikes), UNCHANGED status
        PROVE  HandedOK'
    <2>1. CASE UNCHANGED request
      BY <1>1, <1>3, <2>1
    <2> QED
      BY <1>2, <1>3, <2>1 DEF PollWith
  <1>4. ASSUME NEW p \in Requests, Grant(p)
        PROVE  HandedOK'
    <2>1. PICK given \in SUBSET Rows :
            /\ status' = [w \in Rows |-> IF w \in given THEN "handed" ELSE status[w]]
            /\ request' = [request EXCEPT ![p] = [request[p] EXCEPT
                 !.pc = "starting", !.kind = "none", !.slots = 0, !.rows = given]]
      BY <1>4 DEF Grant
    <2>2. request'[p].pc = "starting" /\ request'[p].rows = given
      BY <2>1 DEF TypeOK, RequestsOK, RequestType
    <2>3. \A q \in Requests \ {p} : request'[q] = request[q]
      BY <2>1 DEF TypeOK, RequestsOK
    <2>4. request[p].pc = "sent"
      BY <1>4 DEF Grant
    <2>5. ASSUME NEW w \in Rows, status'[w] = "handed"
          PROVE  \E q \in Requests : request'[q].pc = "starting" /\ w \in request'[q].rows
      <3>1. CASE w \in given
        BY <2>2, <3>1
      <3>2. CASE w \notin given
        <4>1. PICK q \in Requests : request[q].pc = "starting" /\ w \in request[q].rows
          BY <2>1, <2>5, <3>2 DEF TypeOK, HandedOK
        <4> QED
          BY <2>3, <2>4, <4>1
      <3> QED
        BY <3>1, <3>2
    <2> QED
      BY <2>5 DEF HandedOK
  <1>5. ASSUME NEW p \in Requests, Refuse(p) \/ Exhausted(p)
        PROVE  HandedOK'
    BY <1>1, <1>5 DEF Refuse, Exhausted, TypeOK, RequestsOK
  <1>6. ASSUME NEW p \in Requests, NEW w \in Rows,
               Start(p, w) \/ Defer(p, w) \/ Unresolved(p, w) \/ Skip(p, w)
        PROVE  HandedOK'
    <2>1. Take(p, w)
      BY <1>6 DEF Start, Defer, Unresolved, Skip
    <2>2. \A v \in Rows : status'[v] = "handed" => v # w /\ status[v] = "handed"
      BY <1>6 DEF Start, Defer, Unresolved, Skip, TypeOK, WorkersOK
    <2>3. \A q \in Requests \ {p} : request'[q] = request[q]
      BY <2>1 DEF Take, TypeOK, RequestsOK
    <2>4. ASSUME request[p].rows # {w}
          PROVE  request'[p].pc = "starting" /\ request'[p].rows = request[p].rows \ {w}
      BY <2>1, <2>4 DEF Take, TypeOK, RequestsOK, RequestType
    <2>5. ASSUME NEW v \in Rows, status'[v] = "handed"
          PROVE  \E q \in Requests : request'[q].pc = "starting" /\ v \in request'[q].rows
      <3>1. PICK q \in Requests : request[q].pc = "starting" /\ v \in request[q].rows
        BY <2>2, <2>5 DEF TypeOK, HandedOK
      <3>2. CASE q # p
        BY <2>3, <3>1, <3>2
      <3>3. CASE q = p
        <4>1. v # w
          BY <2>2, <2>5
        <4> QED
          BY <2>4, <3>1, <3>3, <4>1
      <3> QED
        BY <3>2, <3>3
    <2> QED
      BY <2>5 DEF HandedOK
  <1>7. ASSUME NEW w \in Rows, WorkerStep(w)
        PROVE  HandedOK'
    <2>1. \A v \in Rows : status'[v] = "handed" => status[v] = "handed"
      BY <1>7 DEF WorkerStep, Ask, Resume, Clean, Complete, RateRejected, Fail, Ended, SetWorker,
           TypeOK, WorkersOK
    <2>2. UNCHANGED request \/ request' = Crowded
      BY <1>7 DEF WorkerStep, Ask, Resume, Clean, Complete, RateRejected, Fail, Ended
    <2>3. \A p \in Requests : request'[p].pc = request[p].pc /\ request'[p].rows = request[p].rows
      BY <2>2 DEF Crowded, TypeOK, RequestsOK, RequestType
    <2> QED
      BY <1>1, <2>1, <2>3
  <1>8. ASSUME NEW w \in Rows, NEW p \in Requests, SettleDone(w, p)
        PROVE  HandedOK'
    BY <1>3, <1>8 DEF SettleDone, Settle
  <1>9. CASE UNCHANGED <<status, request>>
    BY <1>1, <1>9
  <1>10. ASSUME NEW p \in Requests, Abandon(p)
         PROVE  HandedOK'
    <2>1. \A q \in Requests \ {p} : request'[q] = request[q]
      BY <1>10 DEF Abandon, TypeOK, RequestsOK
    <2>2. \A v \in Rows : status'[v] = "handed" => v \notin request[p].rows /\ status[v] = "handed"
      BY <1>10 DEF Abandon
    <2>3. ASSUME NEW v \in Rows, status'[v] = "handed"
          PROVE  \E q \in Requests : request'[q].pc = "starting" /\ v \in request'[q].rows
      <3>1. PICK q \in Requests : request[q].pc = "starting" /\ v \in request[q].rows
        BY <2>2, <2>3 DEF TypeOK, HandedOK
      <3>2. q # p
        BY <2>2, <2>3, <3>1
      <3> QED
        BY <2>1, <3>1, <3>2
    <2> QED
      BY <2>3 DEF HandedOK
  <1> QED
    BY <1>2, <1>3, <1>4, <1>5, <1>6, <1>7, <1>8, <1>9, <1>10
       DEF Next, vars, ClaimStep, Poll, Push, Choose, Settles, Settle, SettleAuth, SettleContext,
           SettleGlobal, SettleRapid, SettleOther, Purge, Tick

LEMMA TypeInit == Init => TypeOK
  <1> SUFFICES ASSUME Init
               PROVE  TypeOK
    OBVIOUS
  <1>1. WorkersOK /\ HandedOK
    BY DEF Init, WorkersOK, HandedOK, Statuses
  <1>2. RequestsOK
    <2>1. \A p \in Requests : request[p] = Idle
      BY DEF Init
    <2>2. request \in [Requests -> RequestType]
      BY IdleTyped DEF Init
    <2> QED
      BY <2>1, <2>2, IdleTyped DEF RequestsOK
  <1>3. BreakerOK
    <2>1. 0 \in 0..MaxPause /\ 0 \in 0..3 /\ 0 \in 0..MaxFailures
      BY ClaimsAssumption DEF ClaimsAssumption
    <2>2. contextLeft \in [Contexts -> 0..MaxPause]
      BY <2>1 DEF Init
    <2>3. claimsPaused \in BOOLEAN /\ shortened \in BOOLEAN
      BY DEF Init
    <2> QED
      BY <2>1, <2>2, <2>3 DEF Init, BreakerOK
  <1> QED
    BY <1>1, <1>2, <1>3 DEF TypeOK

LEMMA TypeStep == TypeOK /\ [Next]_vars => TypeOK'
  <1> SUFFICES ASSUME TypeOK, [Next]_vars
               PROVE  TypeOK'
    OBVIOUS
  <1> QED
    BY WorkersKept, RequestsKept, BreakerKept, HandedKept DEF TypeOK

(* Every variable stays in its range, and a worker that an answer brings is   *)
(* started, refused or still in that answer, unless an exception in the loop  *)
(* (workers.ts:966) or a missing task (911) has abandoned it.                 *)
THEOREM TypeCorrect == Spec => []TypeOK
  BY TypeInit, TypeStep, PTL DEF Spec

-----------------------------------------------------------------------------
(* The limit on concurrent workers.                                           *)

(* A claim that is alone is the only one under way.                           *)
Lone ==
    \A p \in Requests : request[p].alone =>
        /\ request[p].pc # "idle"
        /\ \A q \in Requests \ {p} : request[q].pc = "idle"

SlotsInv == Lone /\ SlotsKept

LEMMA ActiveFinite ==
  /\ IsFiniteSet(Active) /\ Cardinality(Active) \in Nat
  /\ \A S \in SUBSET Active : IsFiniteSet(S) /\ Cardinality(S) \in Nat
                             /\ Cardinality(S) <= Cardinality(Active)
  <1>1. IsFiniteSet(Active)
    BY FS_Subset, ClaimsAssumption DEF ClaimsAssumption, Active
  <1> QED
    BY <1>1, FS_Subset, FS_CardinalityType

LEMMA OutstandingType ==
  ASSUME TypeOK
  PROVE  \A p \in Requests : Outstanding(p) \in Nat
  <1> SUFFICES ASSUME NEW p \in Requests
               PROVE  Outstanding(p) \in Nat
    OBVIOUS
  <1>1. request[p] \in RequestType
    BY DEF TypeOK, RequestsOK
  <1>2. IsFiniteSet(request[p].rows)
    BY <1>1, FS_Subset, ClaimsAssumption DEF ClaimsAssumption, RequestType
  <1>3. Cardinality(request[p].rows) \in Nat
    BY <1>2, FS_CardinalityType
  <1>4. request[p].slots \in Nat
    BY <1>1, ClaimsAssumption DEF ClaimsAssumption, RequestType
  <1> QED
    BY <1>1, <1>3, <1>4 DEF Outstanding, RequestType

(* A step that starts nothing and changes no claim.                           *)
LEMMA ShrinkKeeps ==
  ASSUME TypeOK, SlotsInv, Active' \subseteq Active, UNCHANGED request
  PROVE  SlotsInv'
  <1>1. Lone' /\ \A p \in Requests : Outstanding(p)' = Outstanding(p)
    BY DEF SlotsInv, Lone, Outstanding
  <1>2. Cardinality(Active') <= Cardinality(Active) /\ Cardinality(Active') \in Nat
    BY ActiveFinite
  <1> QED
    BY <1>1, <1>2, ActiveFinite, OutstandingType, ClaimsAssumption
       DEF ClaimsAssumption, SlotsInv, SlotsKept

(* A claim that ends, whatever its workers have become, starting none.        *)
LEMMA EndKeeps ==
  ASSUME TypeOK, SlotsInv, NEW p \in Requests, Active' \subseteq Active,
         request' = [request EXCEPT ![p] = Idle]
  PROVE  SlotsInv'
  <1>1. request'[p] = Idle /\ \A q \in Requests \ {p} : request'[q] = request[q]
    BY DEF TypeOK, RequestsOK
  <1>2. ~request'[p].alone /\ request'[p].pc = "idle"
    BY <1>1, IdleTyped
  <1>3. \A q \in Requests \ {p} : Outstanding(q)' = Outstanding(q)
    BY <1>1 DEF Outstanding
  <1>4. Cardinality(Active') <= Cardinality(Active) /\ Cardinality(Active') \in Nat
    BY ActiveFinite
  <1>5. Lone'
    BY <1>1, <1>2 DEF SlotsInv, Lone
  <1> QED
    BY <1>1, <1>2, <1>3, <1>4, <1>5, ActiveFinite, OutstandingType, ClaimsAssumption
       DEF ClaimsAssumption, SlotsInv, SlotsKept

(* A claim is sent for slots it has read; every other one is crowded.         *)
LEMMA SendKeeps ==
  ASSUME TypeOK, SlotsInv, NEW p \in Requests, NEW kind, NEW slots \in 1..MaxConcurrent, NEW rows,
         Send(p, kind, slots, rows), UNCHANGED status
  PROVE  SlotsInv'
  <1>1. /\ request'[p].pc = "sent" /\ request'[p].slots = slots
        /\ request'[p].alone => slots <= Free /\ \A q \in Requests \ {p} : request[q].pc = "idle"
    BY DEF Send, Crowded, TypeOK, RequestsOK
  <1>2. \A q \in Requests \ {p} : ~request'[q].alone /\ request'[q].pc = request[q].pc
    BY DEF Send, Crowded, TypeOK, RequestsOK, RequestType
  <1>3. Lone'
    BY <1>1, <1>2 DEF Lone
  <1>4. Active' = Active
    BY DEF Active
  <1>5. request'[p].alone => Cardinality(Active') + slots <= MaxConcurrent
    BY <1>1, <1>4, ActiveFinite, ClaimsAssumption DEF ClaimsAssumption, Free
  <1>6. Outstanding(p)' = slots
    BY <1>1 DEF Outstanding
  <1> QED
    BY <1>2, <1>3, <1>5, <1>6 DEF SlotsInv, SlotsKept

LEMMA PollKeeps ==
  ASSUME TypeOK, SlotsInv, NEW p \in Requests, NEW strikes, PollWith(p, strikes), UNCHANGED status
  PROVE  SlotsInv'
  <1>1. CASE UNCHANGED request
    BY <1>1, ShrinkKeeps DEF Active
  <1>2. CASE Free > 0 /\ Send(p, "poll", Free, {})
    BY <1>2, FreeType, SendKeeps, ClaimsAssumption DEF ClaimsAssumption
  <1> QED
    BY <1>1, <1>2 DEF PollWith

(* The answer has no more workers than slots were asked for.                  *)
LEMMA GrantKeeps ==
  ASSUME TypeOK, SlotsInv, NEW p \in Requests, Grant(p)
  PROVE  SlotsInv'
  <1>1. PICK given \in SUBSET {w \in Rows : status[w] = "none"} :
          /\ Cardinality(given) <= request[p].slots
          /\ status' = [w \in Rows |-> IF w \in given THEN "handed" ELSE status[w]]
          /\ request' = [request EXCEPT ![p] = [request[p] EXCEPT
               !.pc = "starting", !.kind = "none", !.slots = 0, !.rows = given]]
    BY DEF Grant
  <1>2. Active' = Active
    BY <1>1 DEF Active
  <1>3. /\ request'[p].pc = "starting" /\ request'[p].rows = given
        /\ request'[p].alone = request[p].alone
    BY <1>1 DEF TypeOK, RequestsOK, RequestType
  <1>4. \A q \in Requests \ {p} : request'[q] = request[q]
    BY <1>1 DEF TypeOK, RequestsOK
  <1>5. request[p].pc = "sent"
    BY DEF Grant
  <1>6. Lone'
    BY <1>3, <1>4, <1>5 DEF SlotsInv, Lone
  <1>7. request'[p].alone => Cardinality(Active') + Outstanding(p)' <= MaxConcurrent
    <2>1. Outstanding(p)' = Cardinality(given) /\ Outstanding(p) = request[p].slots
      BY <1>3, <1>5 DEF Outstanding
    <2>2. Cardinality(given) \in Nat
      BY FS_Subset, FS_CardinalityType, ClaimsAssumption DEF ClaimsAssumption
    <2>3. request[p].slots \in Nat
      BY ClaimsAssumption DEF ClaimsAssumption, TypeOK, RequestsOK, RequestType
    <2> QED
      BY <1>1, <1>2, <1>3, <2>1, <2>2, <2>3, ActiveFinite, ClaimsAssumption
         DEF ClaimsAssumption, SlotsInv, SlotsKept
  <1>8. \A q \in Requests \ {p} : Outstanding(q)' = Outstanding(q)
    BY <1>4 DEF Outstanding
  <1> QED
    BY <1>2, <1>4, <1>6, <1>7, <1>8 DEF SlotsInv, SlotsKept

(* The next worker is taken from the answer, and becomes active or not.       *)
LEMMA TakeKeeps ==
  ASSUME TypeOK, SlotsInv, NEW p \in Requests, NEW w \in Rows, Take(p, w),
         Active' \subseteq Active \cup {w}
  PROVE  SlotsInv'
  <1>1. \A q \in Requests \ {p} : request'[q] = request[q]
    BY DEF Take, TypeOK, RequestsOK
  <1>2. request[p].pc = "starting" /\ w \in request[p].rows
    BY DEF Take
  <1>3. \A q \in Requests \ {p} : request[q].alone => FALSE
    BY <1>2 DEF SlotsInv, Lone
  <1>4. CASE request[p].rows = {w}
    <2>1. request'[p] = Idle
      BY <1>4 DEF Take, TypeOK, RequestsOK
    <2>2. \A q \in Requests : ~request'[q].alone
      BY <1>1, <1>3, <2>1, IdleTyped
    <2> QED
      BY <2>2 DEF SlotsInv, Lone, SlotsKept
  <1>5. CASE request[p].rows # {w}
    <2>1. /\ request'[p].pc = "starting" /\ request'[p].rows = request[p].rows \ {w}
          /\ request'[p].alone = request[p].alone
      BY <1>5 DEF Take, TypeOK, RequestsOK, RequestType
    <2>2. Lone'
      BY <1>1, <1>2, <2>1 DEF SlotsInv, Lone
    <2>3. IsFiniteSet(request[p].rows) /\ Cardinality(request[p].rows) \in Nat
      BY FS_Subset, FS_CardinalityType, ClaimsAssumption
         DEF ClaimsAssumption, TypeOK, RequestsOK, RequestType
    <2>4. Cardinality(request[p].rows \ {w}) = Cardinality(request[p].rows) - 1
      BY <1>2, <2>3, FS_RemoveElement
    <2>5. /\ Cardinality(Active \cup {w}) \in Nat /\ IsFiniteSet(Active \cup {w})
          /\ Cardinality(Active \cup {w}) <= Cardinality(Active) + 1
      BY ActiveFinite, FS_AddElement, FS_CardinalityType
    <2>6. Cardinality(Active') \in Nat /\ Cardinality(Active') <= Cardinality(Active) + 1
      BY <2>5, ActiveFinite, FS_Subset, FS_CardinalityType
    <2>7. Outstanding(p) = Cardinality(request[p].rows) /\ Outstanding(p)' = Cardinality(request[p].rows) - 1
      BY <1>2, <2>1, <2>4 DEF Outstanding
    <2>8. request'[p].alone => Cardinality(Active') + Outstanding(p)' <= MaxConcurrent
      <3>1. request[p].alone => Cardinality(Active) + Outstanding(p) <= MaxConcurrent
        BY DEF SlotsInv, SlotsKept
      <3> QED
        BY <2>1, <2>3, <2>6, <2>7, <3>1, ActiveFinite, ClaimsAssumption DEF ClaimsAssumption
    <2> QED
      BY <1>1, <1>3, <2>2, <2>8 DEF SlotsInv, SlotsKept
  <1> QED
    BY <1>4, <1>5

LEMMA SlotsStep ==
  ASSUME TypeOK, SlotsInv, [Next]_vars
  PROVE  SlotsInv'
  <1>1. ASSUME NEW p \in Requests, Poll(p)
        PROVE  SlotsInv'
    BY <1>1, PollKeeps DEF Poll
  <1>2. ASSUME NEW p \in Requests, Push(p) \/ Choose(p)
        PROVE  SlotsInv'
    <2>1. 1 \in 1..MaxConcurrent
      BY ClaimsAssumption DEF ClaimsAssumption
    <2> QED
      BY <1>2, <2>1, SendKeeps DEF Push, Choose
  <1>3. ASSUME NEW p \in Requests, Grant(p)
        PROVE  SlotsInv'
    BY <1>3, GrantKeeps
  <1>4. ASSUME NEW p \in Requests, Refuse(p) \/ Exhausted(p) \/ Abandon(p)
        PROVE  SlotsInv'
    <2>1. request' = [request EXCEPT ![p] = Idle]
      BY <1>4 DEF Refuse, Exhausted, Abandon
    <2>2. Active' \subseteq Active
      BY <1>4 DEF Refuse, Exhausted, Abandon, Active
    <2> QED
      BY <2>1, <2>2, EndKeeps
  <1>5. ASSUME NEW p \in Requests, NEW w \in Rows,
               Start(p, w) \/ Defer(p, w) \/ Unresolved(p, w) \/ Skip(p, w)
        PROVE  SlotsInv'
    <2>1. \A v \in Rows : v # w => status'[v] = status[v]
      BY <1>5 DEF Start, Defer, Unresolved, Skip, TypeOK, WorkersOK
    <2>2. Active' \subseteq Active \cup {w}
      BY <2>1 DEF Active
    <2> QED
      BY <1>5, <2>2, TakeKeeps DEF Start, Defer, Unresolved, Skip
  <1>6. ASSUME NEW w \in Rows, Resume(w)
        PROVE  SlotsInv'
    <2>1. \A p \in Requests : ~request'[p].alone
      BY <1>6 DEF Resume, Crowded, TypeOK, RequestsOK, RequestType
    <2> QED
      BY <2>1 DEF SlotsInv, Lone, SlotsKept
  <1>7. ASSUME NEW w \in Rows,
               Ask(w) \/ Clean(w) \/ Complete(w) \/ RateRejected(w) \/ \E k \in Failures : Fail(w, k)
        PROVE  SlotsInv'
    <2>1. Active' \subseteq Active /\ UNCHANGED request
      BY <1>7 DEF Ask, Clean, Complete, RateRejected, Fail, Ended, SetWorker, Active, TypeOK, WorkersOK
    <2> QED
      BY <2>1, ShrinkKeeps
  <1>8. ASSUME NEW w \in Rows, NEW p \in Requests, SettleDone(w, p)
        PROVE  SlotsInv'
    BY <1>8, PollKeeps DEF SettleDone, Settle
  <1>9. CASE UNCHANGED <<status, request>>
    BY <1>9, ShrinkKeeps DEF Active
  <1> QED
    BY <1>1, <1>2, <1>3, <1>4, <1>5, <1>6, <1>7, <1>8, <1>9
       DEF Next, vars, ClaimStep, WorkerStep, Settles, Settle, SettleAuth, SettleContext,
           SettleGlobal, SettleRapid, SettleOther, Purge, Tick

(* However many workers an answer brings, and whatever ends, asks or is       *)
(* deferred meanwhile: a claim that is alone keeps maxConcurrent.             *)
THEOREM LimitKept == Spec => []SlotsKept
  <1>1. Init => SlotsInv
    BY IdleTyped DEF Init, SlotsInv, Lone, SlotsKept
  <1>2. TypeOK /\ SlotsInv /\ [Next]_vars => SlotsInv'
    BY SlotsStep
  <1> QED
    BY <1>1, <1>2, TypeCorrect, PTL DEF Spec, SlotsInv

-----------------------------------------------------------------------------
(* Codex.                                                                     *)

LEMMA CodexStep ==
  ASSUME TypeOK, OneCodex, [Next]_vars
  PROVE  OneCodex'
  <1>1. ASSUME Active' \subseteq Active, UNCHANGED resumed
        PROVE  OneCodex'
    BY <1>1 DEF OneCodex
  <1>2. ASSUME NEW p \in Requests, NEW w \in Rows, Start(p, w)
        PROVE  OneCodex'
    <2>1. Active' = Active \cup {w} /\ UNCHANGED resumed
      BY <1>2 DEF Start, Take, Active, TypeOK, WorkersOK
    <2>2. CASE w \in CodexRows
      <3>1. Active \cap CodexRows = {}
        BY <1>2, <2>2 DEF Start, CodexBusy
      <3> QED
        BY <2>1, <3>1 DEF OneCodex
    <2>3. CASE w \notin CodexRows
      BY <2>1, <2>3 DEF OneCodex
    <2> QED
      BY <2>2, <2>3
  <1>3. ASSUME NEW w \in Rows, Resume(w)
        PROVE  OneCodex'
    <2>1. Active' \subseteq Active \cup {w} /\ resumed' = resumed \cup {w}
      BY <1>3 DEF Resume, SetWorker, Active, TypeOK, WorkersOK
    <2> QED
      BY <2>1 DEF OneCodex
  <1>4. ASSUME NEW p \in Requests, Grant(p)
        PROVE  OneCodex'
    BY <1>1, <1>4 DEF Grant, Active
  <1>5. ASSUME NEW p \in Requests, NEW w \in Rows, Defer(p, w) \/ Unresolved(p, w) \/ Skip(p, w)
        PROVE  OneCodex'
    BY <1>1, <1>5 DEF Defer, Unresolved, Skip, Take, Active, TypeOK, WorkersOK
  <1>6. ASSUME NEW w \in Rows,
               Ask(w) \/ Clean(w) \/ Complete(w) \/ RateRejected(w) \/ \E k \in Failures : Fail(w, k)
        PROVE  OneCodex'
    <2>1. Active' \subseteq Active /\ UNCHANGED resumed
      BY <1>6 DEF Ask, Clean, Complete, RateRejected, Fail, Ended, SetWorker, Active, TypeOK, WorkersOK
    <2> QED
      BY <1>1, <2>1
  <1>7. ASSUME NEW p \in Requests, Abandon(p)
        PROVE  OneCodex'
    BY <1>1, <1>7 DEF Abandon, Active
  <1>8. CASE UNCHANGED <<status, resumed>>
    BY <1>1, <1>8 DEF Active
  <1> QED
    BY <1>2, <1>3, <1>4, <1>5, <1>6, <1>7, <1>8
       DEF Next, vars, ClaimStep, Poll, Push, Choose, Refuse, Exhausted, WorkerStep, Settles, Settle,
           SettleAuth, SettleContext, SettleGlobal, SettleRapid, SettleOther, SettleDone, Purge, Tick

(* Codex workers run one at a time however claims overlap, because the search *)
(* for an active one and the start of the next are one step.                  *)
THEOREM CodexSequential == Spec => []OneCodex
  <1>1. Init => OneCodex
    BY DEF Init, OneCodex, Active
  <1>2. TypeOK /\ OneCodex /\ [Next]_vars => OneCodex'
    BY CodexStep
  <1> QED
    BY <1>1, <1>2, TypeCorrect, PTL DEF Spec

-----------------------------------------------------------------------------
(* Pauses.                                                                    *)

LEMMA PauseAllKeeps ==
  ASSUME TypeOK, NEW d \in Pauses, PauseAll(d)
  PROVE  BackoffKept' /\ claimsPaused'
  <1>1. claimsPaused' /\ left' = d /\ owed' = owed
    BY DEF PauseAll
  <1>2. shortened' <=> d < owed
    BY DEF PauseAll
  <1>3. d \in Nat /\ owed \in Nat
    BY ClaimsAssumption DEF ClaimsAssumption, Pauses, TypeOK, BreakerOK
  <1> QED
    BY <1>1, <1>2, <1>3 DEF BackoffKept

LEMMA PauseStep ==
  ASSUME TypeOK, BackoffKept, [Next]_vars
  PROVE  BackoffKept'
  <1> USE DEF TypeOK, BreakerOK
  <1>1. ASSUME NEW p \in Requests, NEW strikes, PollWith(p, strikes)
        PROVE  BackoffKept'
    <2>1. left \in Nat /\ owed \in Nat
      BY ClaimsAssumption DEF ClaimsAssumption
    <2>2. UNCHANGED <<left, owed, shortened>>
      BY <1>1 DEF PollWith
    <2>3. CASE claimsPaused /\ left > 0
      <3>1. left # 0
        BY <2>1, <2>3
      <3>2. claimsPaused'
        BY <1>1, <2>3, <3>1 DEF PollWith
      <3> QED
        BY <2>2, <3>2 DEF BackoffKept
    <2>4. CASE ~claimsPaused \/ left = 0
      BY <2>1, <2>2, <2>4 DEF BackoffKept
    <2> QED
      BY <1>1, <2>3, <2>4 DEF PollWith
  <1>2. ASSUME NEW w \in Rows, RateRejected(w) \/ SettleGlobal(w)
        PROVE  BackoffKept'
    BY <1>2, PauseAllKeeps DEF RateRejected, SettleGlobal
  <1>3. ASSUME NEW w \in Rows, SettleAuth(w)
        PROVE  BackoffKept'
    <2>1. claimsPaused'
      BY <1>3 DEF SettleAuth
    <2>2. left' \in Nat /\ owed' \in Nat
      BY BreakerKept, ClaimsAssumption DEF ClaimsAssumption
    <2>3. shortened' <=> left' < owed'
      BY <1>3 DEF SettleAuth
    <2> QED
      BY <2>1, <2>2, <2>3 DEF BackoffKept
  <1>4. ASSUME NEW w \in Rows, SettleRapid(w)
        PROVE  BackoffKept'
    <2>1. CASE \E d \in Pauses : PauseAll(d)
      BY <2>1, PauseAllKeeps
    <2>2. CASE UNCHANGED <<claimsPaused, left, owed, shortened>>
      BY <2>2 DEF BackoffKept
    <2> QED
      BY <1>4, <2>1, <2>2 DEF SettleRapid
  <1>5. CASE Tick
    BY <1>5, ClaimsAssumption DEF ClaimsAssumption, Tick, Less, BackoffKept
  <1>6. CASE UNCHANGED <<claimsPaused, left, owed, shortened>>
    BY <1>6 DEF BackoffKept
  <1> QED
    BY <1>1, <1>2, <1>3, <1>4, <1>5, <1>6
       DEF Next, vars, ClaimStep, Poll, Push, Choose, Grant, Refuse, Exhausted, Start, Defer,
           Unresolved, Skip, Abandon, Take, WorkerStep, Ask, Resume, Clean, Complete, Fail, Ended, Settles,
           SettleContext, SettleOther, SettleDone, Purge

(* The pause for auth failures lasts as long as the longest of them asks for, *)
(* unless a rate limit or an overload cuts it short.                          *)
THEOREM AuthPauseLasts == Spec => []BackoffKept
  <1>1. Init => BackoffKept
    BY DEF Init, BackoffKept
  <1>2. TypeOK /\ BackoffKept /\ [Next]_vars => BackoffKept'
    BY PauseStep
  <1> QED
    BY <1>1, <1>2, TypeCorrect, PTL DEF Spec
=============================================================================
